------------------------------ MODULE Alignment ------------------------------
(***************************************************************************)
(* From the transcripts of the windows to one transcript, in               *)
(* internal/domain/transcription: ToEpisodeTime, Align, which finds the    *)
(* speakers of a window among those of the window before by the speech     *)
(* that both have transcribed, Merge and SpeakersFromChunks.               *)
(*                                                                         *)
(* A local speaker is the number a recogniser has given it in one window;  *)
(* speaker n of the episode stands for the key speaker-00n.  A segment is  *)
(* its speaker and its interval: one without text is dropped like one      *)
(* without duration.  How long somebody speaks is counted in instants.     *)
(***************************************************************************)
EXTENDS Chunking, FiniteSets, FiniteSetsExt, Functions

CONSTANTS MinAlignment,  \* MinAlignmentMS
          Transcribed,   \* bound: the durations of audio that is transcribed
          Answers        \* bound: Answers[i], what may be recognised in window i

Recognition == [local : Nat, seq : Nat, start : Int, end : Int]

\* A recogniser numbers its segments: LocalSequence.
ASSUME AlignmentAssumption ==
  /\ MinAlignment \in Nat \ {0}
  /\ Transcribed \subseteq 1..MaxDuration
  /\ \A i \in DOMAIN Answers : \A raw \in Answers[i] :
       /\ raw \subseteq Recognition /\ IsFiniteSet(raw)
       /\ \A r, q \in raw : r.seq = q.seq => r = q

VARIABLES segments,  \* segments[i]: those of window i, normalized
          maps,      \* SpeakerMaps: the speaker of each local one, by window
          mapping,   \* that of the window which Align is at
          speakers,  \* how many speakers there are
          low,       \* LowConfidenceChunk
          merged,    \* what Merge returns
          listed,    \* what SpeakersFromChunks returns
          done       \* whether they have

audio      == <<duration, coreStart, windows>>
alignment  == <<maps, mapping, speakers, low>>
result     == <<merged, listed, done>>
transcript == <<segments, alignment, result>>

AInit ==
  /\ Init
  /\ segments = <<>> /\ maps = <<>> /\ mapping = <<>> /\ speakers = 0 /\ low = {}
  /\ merged = <<>> /\ listed = {} /\ done = FALSE

-----------------------------------------------------------------------------
(* Ingestion.                                                              *)

Clamp(t) == LargerOf(0, SmallerOf(duration, t))

InEpisode(raw, start) ==
  [local |-> raw.local, seq |-> raw.seq,
   start |-> Clamp(start + raw.start), end |-> Clamp(start + raw.end)]

\* Kept as a set: that they are sorted is only read by FirstStart.
ToEpisodeTime(raw, start) == {s \in {InEpisode(r, start) : r \in raw} : s.start < s.end}

\* ingest: a result without a segment fails the run, and is not merged.
Ingest ==
  /\ Planned /\ duration \in Transcribed
  /\ Len(segments) < Len(windows)
  /\ LET i == Len(segments) + 1 IN
     /\ i \in DOMAIN Answers
     /\ \E raw \in Answers[i] :
          /\ ToEpisodeTime(raw, windows[i].renderStart) # {}
          /\ segments' = Append(segments, ToEpisodeTime(raw, windows[i].renderStart))
  /\ UNCHANGED <<audio, alignment, result>>

-----------------------------------------------------------------------------
(* What Align compares: window i and the one before.                       *)

In(s) == s.start..(s.end - 1)

Locals(i) == {s.local : s \in segments[i]}

FirstStart(i, l) == Min({s.start : s \in {t \in segments[i] : t.local = l}})

\* The order of localSpeakers.
HeardBefore(i, l, k) ==
  \/ FirstStart(i, l) < FirstStart(i, k)
  \/ FirstStart(i, l) = FirstStart(i, k) /\ l < k

\* What window i has in common with the one before.
Shared(i) ==
  [start |-> LargerOf(windows[i].renderStart, windows[i - 1].renderStart),
   end   |-> SmallerOf(windows[i].renderEnd, windows[i - 1].renderEnd)]

\* How long local speaker l of window i is heard in what is shared.
Evidence(i, l) ==
  Cardinality({h \in segments[i] \X In(Shared(i)) : h[1].local = l /\ h[2] \in In(h[1])})

\* How much of that speech the window before attributes to speaker g.
Matched(i, l, g) ==
  Cardinality({h \in segments[i] \X segments[i - 1] \X In(Shared(i)) :
                 /\ h[1].local = l /\ maps[i - 1][h[2].local] = g
                 /\ h[3] \in In(h[1]) /\ h[3] \in In(h[2])})

Candidates_SameNumber(i) ==
  {[local |-> l, global |-> maps[i - 1][l], matched |-> Evidence(i, l), evidence |-> Evidence(i, l)] :
     l \in {k \in Locals(i) \cap Locals(i - 1) : Evidence(i, k) > 0}}

Candidate(i, l, g) ==
  [local |-> l, global |-> g, matched |-> Matched(i, l, g), evidence |-> Evidence(i, l)]

\* alignmentCandidates.
Candidates(i) ==
  {c \in {Candidate(i, p[1], p[2]) : p \in Locals(i) \X Range(maps[i - 1])} : c.matched > 0}

\* The ratio is 1 at most: who speaks twice at once may match more than is heard.
RatioAbove(c, d) ==
  SmallerOf(c.matched, c.evidence) * d.evidence > SmallerOf(d.matched, d.evidence) * c.evidence

Before(c, d) ==
  \/ c.matched > d.matched
  \/ /\ c.matched = d.matched
     /\ \/ RatioAbove(c, d)
        \/ /\ ~RatioAbove(d, c)
           /\ c.local < d.local \/ (c.local = d.local /\ c.global < d.global)

Confident(c) == c.matched >= MinAlignment /\ 2 * c.matched >= c.evidence

-----------------------------------------------------------------------------
(* Align, one speaker of one window after the other.                       *)

Current == Len(maps) + 1

Aligning == Planned /\ Len(segments) = Len(windows) /\ Current <= Len(windows)

\* The candidates the loop would still take.
Eligible ==
  IF Current = 1 THEN {}
  ELSE {c \in Candidates(Current) :
          Confident(c) /\ c.local \notin DOMAIN mapping /\ c.global \notin Range(mapping)}

Assign(l, g) ==
  mapping' = [k \in DOMAIN mapping \cup {l} |-> IF k = l THEN g ELSE mapping[k]]

Recognise_AnyOrder ==
  /\ Aligning
  /\ \E c \in Eligible : Assign(c.local, c.global)
  /\ UNCHANGED <<audio, segments, maps, speakers, low, result>>

\* The best of them is taken.
Recognise ==
  /\ Aligning
  /\ \E c \in Eligible :
       /\ \A d \in Eligible \ {c} : Before(c, d)
       /\ Assign(c.local, c.global)
  /\ UNCHANGED <<audio, segments, maps, speakers, low, result>>

\* A local speaker that is not recognised is a new one.
NewSpeaker ==
  /\ Aligning /\ Eligible = {}
  /\ \E l \in Locals(Current) \ DOMAIN mapping :
       /\ \A k \in Locals(Current) \ (DOMAIN mapping \cup {l}) : HeardBefore(Current, l, k)
       /\ Assign(l, speakers + 1)
  /\ speakers' = speakers + 1
  /\ low' = IF Current > 1 THEN low \cup {Current} ELSE low
  /\ UNCHANGED <<audio, segments, maps, result>>

EndWindow ==
  /\ Aligning /\ DOMAIN mapping = Locals(Current)
  /\ maps' = Append(maps, mapping) /\ mapping' = <<>>
  /\ UNCHANGED <<audio, segments, speakers, low, result>>

-----------------------------------------------------------------------------
(* Merge and SpeakersFromChunks.                                           *)

OwnedByCore_ByEither(i, s) ==
  windows[i].coreStart <= s.end /\ s.start < windows[i].coreEnd

OwnedByCore(i, s) == Owns(i, Midpoint(s.start, s.end))

Owned(i) == {s \in segments[i] : OwnedByCore(i, s)}

\* A segment of window i as it is merged.
MergedSegment(i, s) ==
  [speaker |-> maps[i][s.local], start |-> s.start, end |-> s.end, window |-> i, seq |-> s.seq]

Contributions == UNION {{MergedSegment(i, s) : s \in Owned(i)} : i \in DOMAIN maps}

MergedBefore(a, b) ==
  \/ a.start < b.start
  \/ a.start = b.start /\ a.end < b.end
  \/ a.start = b.start /\ a.end = b.end /\ a.window < b.window
  \/ a.start = b.start /\ a.end = b.end /\ a.window = b.window /\ a.seq < b.seq

\* How many are merged before m.
Place(m) == Cardinality({c \in Contributions : MergedBefore(c, m)})

SpeakersFromChunks_Recognised ==
  UNION {{maps[i][s.local] : s \in Owned(i)} : i \in (DOMAIN maps) \ low}

SpeakersFromChunks == UNION {{maps[i][s.local] : s \in Owned(i)} : i \in DOMAIN maps}

Merge ==
  /\ Planned /\ Len(segments) = Len(windows) /\ Len(maps) = Len(windows) /\ ~done
  /\ merged' = [n \in 1..Cardinality(Contributions) |->
                   CHOOSE m \in Contributions : Place(m) = n - 1]
  /\ listed' = SpeakersFromChunks
  /\ done' = TRUE
  /\ UNCHANGED <<audio, segments, alignment>>

ANext ==
  \/ Cut /\ UNCHANGED transcript
  \/ Ingest \/ Recognise \/ NewSpeaker \/ EndWindow \/ Merge

ASpec == AInit /\ [][ANext]_<<audio, transcript>>

-----------------------------------------------------------------------------
(* Properties.                                                             *)

Takes(i, c) == maps[i][c.local] = c.global

\* The greedy choice is a stable matching.  Two who speak in one window are never
\* taken for the same speaker; and where there is enough evidence that a local
\* speaker is a known one, it is recognised, unless one of the two goes with
\* somebody who has at least as much in common with it.
StableMatching ==
  \A i \in DOMAIN maps :
    /\ \A l, k \in Locals(i) : maps[i][l] = maps[i][k] => l = k
    /\ i > 1 => \A c \in Candidates(i) : Confident(c) =>
         \/ Takes(i, c)
         \/ \E d \in Candidates(i) :
              /\ Confident(d) /\ d.matched >= c.matched /\ Takes(i, d)
              /\ (d.local = c.local) # (d.global = c.global)

\* When speaker l of window i is heard in what window j shares with it.
Talk(i, j, l) ==
  {t \in In(Shared(LargerOf(i, j))) : \E s \in segments[i] : s.local = l /\ t \in In(s)}

\* Whom both windows hear at the same times, long enough and while nobody else
\* speaks, has the same key in both, whatever number each has given it.
FollowsTheVoice ==
  \A i \in 2..Len(maps) : \A l \in Locals(i) : \A k \in Locals(i - 1) :
    LET talk == Talk(i, i - 1, l) IN
    /\ talk = Talk(i - 1, i, k) /\ Cardinality(talk) >= MinAlignment
    /\ \A m \in Locals(i) \ {l} : talk \cap Talk(i, i - 1, m) = {}
    /\ \A m \in Locals(i - 1) \ {k} : talk \cap Talk(i - 1, i, m) = {}
    => maps[i][l] = maps[i - 1][k]

SameTimes(a, b) == a.start = b.start /\ a.end = b.end

\* What is merged is in order of time; one stretch of speech comes from one window,
\* and what both neighbours have transcribed comes from one of them: none is
\* repeated at a boundary, and none falls between.
MergedOnce ==
  /\ \A m, n \in DOMAIN merged :
       /\ m < n => merged[m].start <= merged[n].start
       /\ SameTimes(merged[m], merged[n]) => merged[m].window = merged[n].window
  /\ done => \A i \in 1..(Len(windows) - 1) :
       \A s \in segments[i] : \A t \in segments[i + 1] :
         /\ SameTimes(s, t) /\ Midpoint(s.start, s.end) \in In(Shared(i + 1))
         => \E n \in DOMAIN merged : SameTimes(merged[n], s)

\* Each merged segment has a speaker ActivateTranscript has created a row for,
\* and there is no row for a speaker who only spoke where another window owns.
SpeakersListed == listed = {merged[n].speaker : n \in DOMAIN merged}
=============================================================================
