--------------------------- MODULE AlignmentProofs ---------------------------
(***************************************************************************)
(* For audio of any length and whatever is recognised in its windows: the  *)
(* matching of Align is stable, follows the voices, and Merge takes each   *)
(* stretch of speech once.                                                 *)
(***************************************************************************)
EXTENDS Alignment, ChunkingProofs, FiniteSetTheorems

(* The inductive invariant, beside IInv of ChunkingProofs. *)

Heard == [local : Nat, seq : Nat, start : Nat, end : Nat]

\* What ToEpisodeTime makes of the result of a window.
Normalized(given) ==
  /\ given \in SUBSET Heard /\ IsFiniteSet(given)
  /\ \A s \in given : s.start < s.end /\ s.end <= duration
  /\ \A s, t \in given : s.seq = t.seq => s = t

Ingested ==
  /\ segments \in Seq(SUBSET Heard)
  /\ Len(segments) <= Len(windows)
  /\ Len(segments) > 0 => Planned
  /\ \A i \in 1..Len(segments) : Normalized(segments[i])

Partial == UNION {[D -> Nat] : D \in SUBSET Nat}

\* Speakers of one window are told apart.
Distinct(map) == \A l, k \in DOMAIN map : map[l] = map[k] => l = k

Mapped ==
  /\ speakers \in Nat
  /\ maps \in Seq(Partial) /\ mapping \in Partial
  /\ Len(maps) <= Len(segments)
  /\ Len(maps) > 0 => Len(segments) = Len(windows)
  /\ DOMAIN mapping # {} => Aligning /\ DOMAIN mapping \subseteq Locals(Current)
  /\ Distinct(mapping) /\ \A l \in DOMAIN mapping : mapping[l] \in 1..speakers
  /\ \A i \in 1..Len(maps) :
       /\ DOMAIN maps[i] = Locals(i)
       /\ Distinct(maps[i]) /\ \A l \in Locals(i) : maps[i][l] \in 1..speakers

Goes(c) == c.local \in DOMAIN mapping /\ mapping[c.local] = c.global

\* What StableMatching says of a candidate, while its window is aligned.
Settled(c) ==
  \/ Goes(c)
  \/ \E d \in Candidates(Current) :
       /\ Confident(d) /\ d.matched >= c.matched /\ Goes(d)
       /\ (d.local = c.local) # (d.global = c.global)

Matching ==
  Aligning /\ Current > 1 =>
    \A c \in Candidates(Current) : Confident(c) => c \in Eligible \/ Settled(c)

\* What Merge has returned.
Finished ==
  /\ Planned /\ Len(segments) = Len(windows) /\ Len(maps) = Len(windows)
  /\ DOMAIN merged \subseteq Nat
  /\ Contributions = {merged[n] : n \in DOMAIN merged}
  /\ \A m, n \in DOMAIN merged : m < n => merged[m].start <= merged[n].start
  /\ listed = SpeakersFromChunks

Result ==
  IF done THEN Finished ELSE merged = <<>> /\ listed = {}

AIInv == IInv /\ Ingested /\ Mapped /\ Matching /\ StableMatching /\ Result
-----------------------------------------------------------------------------
(* What is counted.                                                        *)

Hearings(i, l) ==
  {h \in segments[i] \X In(Shared(i)) : h[1].local = l /\ h[2] \in In(h[1])}

Agreements(i, l, g) ==
  {h \in segments[i] \X segments[i - 1] \X In(Shared(i)) :
     /\ h[1].local = l /\ maps[i - 1][h[2].local] = g
     /\ h[3] \in In(h[1]) /\ h[3] \in In(h[2])}

LEMMA Injects ==
  ASSUME NEW S, NEW T, IsFiniteSet(T), NEW f \in [S -> T],
         \A x, y \in S : f[x] = f[y] => x = y
  PROVE  IsFiniteSet(S) /\ Cardinality(S) <= Cardinality(T)
<1>1. f \in Injection(S, T)
  BY DEF Injection, IsInjective
<1> QED
  BY <1>1, FS_Injection

LEMMA Triples ==
  ASSUME NEW A, NEW B, NEW C, IsFiniteSet(A), IsFiniteSet(B), IsFiniteSet(C)
  PROVE  IsFiniteSet(A \X B \X C)
<1> DEFINE f == [h \in A \X B \X C |-> <<<<h[1], h[2]>>, h[3]>>]
<1>1. IsFiniteSet((A \X B) \X C)
  BY FS_Product
<1>2. f \in [A \X B \X C -> (A \X B) \X C]
  OBVIOUS
<1>3. \A x, y \in A \X B \X C : f[x] = f[y] => x = y
  OBVIOUS
<1> HIDE DEF f
<1> QED
  BY <1>1, <1>2, <1>3, Injects

LEMMA WindowTyped ==
  ASSUME IInv, NEW i \in 1..Len(windows)
  PROVE  /\ windows[i].coreStart \in Int /\ windows[i].coreEnd \in Int
         /\ windows[i].renderStart \in Int /\ windows[i].renderEnd \in Int
<1>1. windows[i] \in Windows
  BY DEF IInv, TypeOK
<1> QED
  BY <1>1 DEF Windows

LEMMA SharedFinite ==
  ASSUME IInv, NEW i \in 2..Len(windows)
  PROVE  IsFiniteSet(In(Shared(i)))
<1>1. Len(windows) \in Nat /\ i \in 1..Len(windows) /\ i - 1 \in 1..Len(windows)
  BY DEF IInv, TypeOK
<1>2. /\ windows[i].renderStart \in Int /\ windows[i].renderEnd \in Int
      /\ windows[i - 1].renderStart \in Int /\ windows[i - 1].renderEnd \in Int
  BY <1>1, WindowTyped
<1>3. Shared(i).start \in Int /\ Shared(i).end - 1 \in Int
  BY <1>2 DEF Shared, SmallerOf, LargerOf
<1> QED
  BY <1>3, FS_Interval DEF In

LEMMA CountsFinite ==
  ASSUME IInv, Ingested, NEW i \in 2..Len(segments), NEW l, NEW g
  PROVE  /\ IsFiniteSet(Hearings(i, l)) /\ IsFiniteSet(Agreements(i, l, g))
         /\ Evidence(i, l) = Cardinality(Hearings(i, l))
         /\ Matched(i, l, g) = Cardinality(Agreements(i, l, g))
         /\ Evidence(i, l) \in Nat /\ Matched(i, l, g) \in Nat
<1>1. i \in 2..Len(windows) /\ i \in 1..Len(segments) /\ i - 1 \in 1..Len(segments)
  BY DEF Ingested, IInv, TypeOK
<1>2. IsFiniteSet(segments[i]) /\ IsFiniteSet(segments[i - 1])
  BY <1>1 DEF Ingested, Normalized
<1>3. IsFiniteSet(In(Shared(i)))
  BY <1>1, SharedFinite
<1>4. IsFiniteSet(segments[i] \X In(Shared(i)))
  BY <1>2, <1>3, FS_Product
<1>5. IsFiniteSet(segments[i] \X segments[i - 1] \X In(Shared(i)))
  BY <1>2, <1>3, Triples
<1>6. IsFiniteSet(Hearings(i, l))
  BY <1>4, FS_Subset DEF Hearings
<1>7. IsFiniteSet(Agreements(i, l, g))
  BY <1>5, FS_Subset DEF Agreements
<1>8. Evidence(i, l) = Cardinality(Hearings(i, l))
  BY DEF Evidence, Hearings
<1>9. Matched(i, l, g) = Cardinality(Agreements(i, l, g))
  BY DEF Matched, Agreements
<1> QED
  BY <1>6, <1>7, <1>8, <1>9, FS_CardinalityType

\* Of a candidate: whose it is, and that there is somebody to hear.
LEMMA CandidateKnown ==
  ASSUME IInv, Ingested, Mapped, NEW i \in 2..Len(segments), i <= Len(maps) + 1,
         NEW c \in Candidates(i)
  PROVE  /\ c.local \in Locals(i) /\ c.global \in 1..speakers
         /\ \E k \in Locals(i - 1) : maps[i - 1][k] = c.global
         /\ c = Candidate(i, c.local, c.global)
         /\ c.matched \in Nat /\ c.evidence \in Nat
         /\ Agreements(i, c.local, c.global) # {}
<1>1. i - 1 \in 1..Len(maps)
  BY DEF Mapped, Ingested
<1>2. PICK p \in Locals(i) \X Range(maps[i - 1]) : c = Candidate(i, p[1], p[2]) /\ c.matched > 0
  BY DEF Candidates
<1>3. c.local = p[1] /\ c.global = p[2] /\ c.matched = Matched(i, p[1], p[2])
      /\ c.evidence = Evidence(i, p[1])
  BY <1>2 DEF Candidate
<1>4. \E k \in Locals(i - 1) : maps[i - 1][k] = p[2] /\ p[2] \in 1..speakers
  BY <1>1, <1>2 DEF Range, Mapped
<1>5. Matched(i, p[1], p[2]) = Cardinality(Agreements(i, p[1], p[2]))
      /\ Evidence(i, p[1]) \in Nat /\ Matched(i, p[1], p[2]) \in Nat
  BY CountsFinite
<1>6. Agreements(i, p[1], p[2]) # {}
  <2>1. Cardinality(Agreements(i, p[1], p[2])) # 0
    BY <1>2, <1>3, <1>5
  <2> QED
    BY <2>1, FS_EmptySet
<1> QED
  BY <1>2, <1>3, <1>4, <1>5, <1>6
-----------------------------------------------------------------------------
(* What steps leave as it is.                                              *)

LEMMA CandidatesSame ==
  ASSUME NEW i \in 2..Len(segments),
         windows' = windows, segments' = segments, maps'[i - 1] = maps[i - 1]
  PROVE  /\ Locals(i)' = Locals(i)
         /\ Candidates(i)' = Candidates(i)
<1>1. Locals(i)' = Locals(i)
  BY DEF Locals
<1>2. In(Shared(i))' = In(Shared(i))
  BY DEF Shared, In
<1>3. ASSUME NEW l, NEW g PROVE Candidate(i, l, g)' = Candidate(i, l, g)
  <2>1. Evidence(i, l)' = Evidence(i, l)
    BY <1>2 DEF Evidence
  <2>2. Matched(i, l, g)' = Matched(i, l, g)
    BY <1>2 DEF Matched
  <2> QED
    BY <2>1, <2>2 DEF Candidate
<1>4. Range(maps[i - 1])' = Range(maps[i - 1])
  BY DEF Range
<1> DEFINE P == Locals(i) \X Range(maps[i - 1])
<1>5. P' = P
  BY <1>1, <1>4
<1>6. \A p \in P : Candidate(i, p[1], p[2])' = Candidate(i, p[1], p[2])
  BY <1>3
<1>7. {Candidate(i, p[1], p[2]) : p \in P}' = {Candidate(i, p[1], p[2]) : p \in P}
  <2> HIDE DEF P
  <2> QED
    BY <1>5, <1>6
<1> QED
  BY <1>1, <1>7 DEF Candidates

\* StableMatching of one window.
StableAt(i) ==
  /\ \A l, k \in Locals(i) : maps[i][l] = maps[i][k] => l = k
  /\ i > 1 => \A c \in Candidates(i) : Confident(c) =>
       \/ Takes(i, c)
       \/ \E d \in Candidates(i) :
            /\ Confident(d) /\ d.matched >= c.matched /\ Takes(i, d)
            /\ (d.local = c.local) # (d.global = c.global)

LEMMA StableSame ==
  ASSUME NEW i \in 1..Len(segments), StableAt(i), Len(segments) \in Nat,
         windows' = windows, segments' = segments, maps'[i] = maps[i],
         i > 1 => maps'[i - 1] = maps[i - 1]
  PROVE  StableAt(i)'
<1>1. Locals(i)' = Locals(i)
  BY DEF Locals
<1>2. i > 1 => Candidates(i)' = Candidates(i)
  <2>1. i > 1 => i \in 2..Len(segments)
    OBVIOUS
  <2> QED
    BY <2>1, CandidatesSame
<1>3. \A c : Takes(i, c)' <=> Takes(i, c)
  BY DEF Takes
<1> QED
  BY <1>1, <1>2, <1>3 DEF StableAt

LEMMA StableEverywhere == StableMatching <=> \A i \in DOMAIN maps : StableAt(i)
BY DEF StableMatching, StableAt

\* Steps of Align and Merge leave what was ingested.
LEMMA Undisturbed ==
  ASSUME IInv, Ingested, UNCHANGED <<audio, segments>>
  PROVE  IInv' /\ Ingested' /\ (Planned' <=> Planned)
<1>1. IInv'
  BY StutterIInv DEF audio, vars
<1>2. \A given : Normalized(given)' <=> Normalized(given)
  BY DEF Normalized, audio
<1> QED
  BY <1>1, <1>2 DEF Ingested, audio, Planned

\* While a window is aligned, Merge has not run.
LEMMA NotMerged ==
  ASSUME Result, Mapped, Ingested, IInv, Aligning
  PROVE  /\ ~done /\ merged = <<>> /\ listed = {}
         /\ Len(maps) \in Nat /\ Current = Len(maps) + 1 /\ Current \in 1..Len(segments)
         /\ Len(segments) \in Nat /\ Len(segments) = Len(windows)
<1>1. Len(maps) \in Nat /\ Len(segments) \in Nat /\ Len(windows) \in Nat
  BY DEF Mapped, Ingested, IInv, TypeOK
<1> QED
  BY <1>1 DEF Result, Finished, Aligning, Current
-----------------------------------------------------------------------------
(* Before alignment.                                                       *)

LEMMA EmptyMap == DOMAIN <<>> = {} /\ <<>> \in Partial
<1>1. <<>> \in [{} -> Nat]
  OBVIOUS
<1> QED
  BY <1>1 DEF Partial

\* Nothing is aligned before every window is ingested, and none of them is before
\* the audio is cut.
Untouched ==
  /\ Len(segments) \in Nat /\ speakers \in Nat
  /\ maps \in Seq(Partial) /\ Len(maps) = 0
  /\ mapping \in Partial /\ DOMAIN mapping = {}
  /\ ~done /\ merged = <<>> /\ listed = {}

LEMMA NotAligned == AIInv /\ (~Planned \/ Len(segments) < Len(windows)) => Untouched
<1> SUFFICES ASSUME AIInv, ~Planned \/ Len(segments) < Len(windows) PROVE Untouched
  OBVIOUS
<1>1. Len(maps) \in Nat /\ Len(segments) \in Nat /\ Len(windows) \in Nat
  BY DEF AIInv, Mapped, Ingested, IInv, TypeOK
<1>2. Len(maps) = 0
  BY <1>1 DEF AIInv, Ingested, Mapped
<1>3. DOMAIN mapping = {}
  <2>1. ~Aligning
    BY <1>1 DEF Aligning
  <2> QED
    BY <2>1 DEF AIInv, Mapped
<1>4. ~done /\ merged = <<>> /\ listed = {}
  BY <1>1 DEF AIInv, Result, Finished
<1> QED
  BY <1>1, <1>2, <1>3, <1>4 DEF Untouched, AIInv, Mapped

LEMMA UntouchedHolds ==
  Ingested /\ Untouched => Mapped /\ Matching /\ StableMatching /\ Result
<1> SUFFICES ASSUME Ingested, Untouched PROVE Mapped /\ Matching /\ StableMatching /\ Result
  OBVIOUS
<1>1. DOMAIN maps = {} /\ Current = 1
  BY DEF Current, Untouched
<1>2. Mapped
  BY <1>1 DEF Mapped, Distinct, Untouched
<1>3. Matching
  BY <1>1 DEF Matching
<1>4. StableMatching
  BY <1>1 DEF StableMatching
<1> QED
  BY <1>2, <1>3, <1>4 DEF Result, Untouched

LEMMA UntouchedNext ==
  (Ingested /\ Untouched)' => (Mapped /\ Matching /\ StableMatching /\ Result)'
BY UntouchedHolds, PTL

LEMMA InitAIInv == AInit => AIInv
<1> SUFFICES ASSUME AInit PROVE AIInv
  OBVIOUS
<1>1. IInv
  BY InitIInv DEF AInit
<1>2. Ingested /\ Len(segments) \in Nat
  BY <1>1 DEF AInit, Init, Ingested
<1>3. Untouched
  BY <1>2, EmptyMap DEF AInit, Untouched
<1> QED
  BY <1>1, <1>2, <1>3, UntouchedHolds DEF AIInv

LEMMA CutAIInv == AIInv /\ Cut /\ UNCHANGED transcript => AIInv'
<1> SUFFICES ASSUME AIInv, Cut, UNCHANGED transcript PROVE AIInv'
  OBVIOUS
<1>1. IInv'
  BY CutIInv DEF AIInv
<1>2. ~Planned
  <2>1. coreStart \in Nat /\ duration \in Nat
    BY ChunkingAssumption DEF AIInv, IInv, TypeOK
  <2> QED
    BY <2>1 DEF Cut, Planned
<1>3. Untouched /\ Len(segments) = 0
  BY <1>2, NotAligned DEF AIInv, Ingested
<1>4. Len(windows') \in Nat
  BY <1>1 DEF IInv, TypeOK
<1>5. Ingested' /\ Len(segments') = 0
  BY <1>3, <1>4 DEF AIInv, Ingested, transcript
<1>6. Untouched'
  BY <1>3, <1>5 DEF Untouched, transcript, alignment, result
<1> QED
  BY <1>1, <1>5, <1>6, UntouchedNext DEF AIInv

\* ToEpisodeTime keeps the numbers and puts the times into the audio.
LEMMA NormalizedResult ==
  ASSUME NEW raw, raw \subseteq Recognition, IsFiniteSet(raw),
         \A r, q \in raw : r.seq = q.seq => r = q,
         NEW start \in Int, duration \in Nat
  PROVE  Normalized(ToEpisodeTime(raw, start))
<1> DEFINE all == {InEpisode(r, start) : r \in raw}
           f == [r \in raw |-> InEpisode(r, start)]
<1>1. f \in Surjection(raw, all)
  BY DEF Surjection
<1>2. IsFiniteSet(all)
  <2> HIDE DEF f, all
  <2> QED
    BY <1>1, FS_Surjection
<1>3. \A t \in Int : Clamp(t) \in Nat /\ Clamp(t) <= duration
  BY DEF Clamp, SmallerOf, LargerOf
<1>4. ASSUME NEW r \in raw
      PROVE  /\ InEpisode(r, start) \in Heard /\ InEpisode(r, start).seq = r.seq
             /\ InEpisode(r, start).end <= duration
  <2>1. r \in Recognition
    OBVIOUS
  <2>2. start + r.start \in Int /\ start + r.end \in Int
    BY <2>1 DEF Recognition
  <2> QED
    BY <2>1, <2>2, <1>3 DEF Recognition, InEpisode, Heard
<1>5. ToEpisodeTime(raw, start) \subseteq all
  BY DEF ToEpisodeTime
<1>6. IsFiniteSet(ToEpisodeTime(raw, start))
  BY <1>2, <1>5, FS_Subset
<1>7. ASSUME NEW s \in ToEpisodeTime(raw, start)
      PROVE  s \in Heard /\ s.start < s.end /\ s.end <= duration
  BY <1>4 DEF ToEpisodeTime
<1>8. ASSUME NEW s \in ToEpisodeTime(raw, start), NEW t \in ToEpisodeTime(raw, start),
             s.seq = t.seq
      PROVE  s = t
  BY <1>4, <1>8 DEF ToEpisodeTime
<1> QED
  BY <1>6, <1>7, <1>8 DEF Normalized

LEMMA IngestAIInv == AIInv /\ Ingest => AIInv'
<1> SUFFICES ASSUME AIInv, Ingest PROVE AIInv'
  OBVIOUS
<1> DEFINE i == Len(segments) + 1
<1>1. /\ Len(segments) \in Nat /\ Len(windows) \in Nat /\ i \in 1..Len(windows)
      /\ duration \in Nat
  BY ChunkingAssumption DEF AIInv, Ingested, IInv, TypeOK, Ingest
<1>2. PICK raw \in Answers[i] :
        /\ i \in DOMAIN Answers
        /\ segments' = Append(segments, ToEpisodeTime(raw, windows[i].renderStart))
  BY DEF Ingest
<1>3. windows[i].renderStart \in Int
  BY <1>1, WindowTyped DEF AIInv
<1> DEFINE given == ToEpisodeTime(raw, windows[i].renderStart)
<1>4. Normalized(given)
  <2>1. /\ raw \subseteq Recognition /\ IsFiniteSet(raw)
        /\ \A r, q \in raw : r.seq = q.seq => r = q
    BY <1>2, AlignmentAssumption
  <2> QED
    BY <2>1, <1>1, <1>3, NormalizedResult
<1> HIDE DEF given
<1>5. /\ segments' \in Seq(SUBSET Heard) /\ Len(segments') = i
      /\ segments'[i] = given /\ \A k \in 1..Len(segments) : segments'[k] = segments[k]
  BY <1>1, <1>2, <1>4 DEF AIInv, Ingested, Normalized, given
<1>6. IInv' /\ Len(windows') = Len(windows) /\ (Planned)'
  BY StutterIInv DEF AIInv, Ingest, audio, vars, Planned
<1>7. ASSUME NEW k \in 1..i PROVE Normalized(segments[k])'
  <2>1. Normalized(segments'[k])
    <3>1. CASE k = i
      BY <3>1, <1>4, <1>5
    <3>2. CASE k \in 1..Len(segments)
      BY <3>2, <1>5 DEF AIInv, Ingested
    <3> QED
      BY <3>1, <3>2, <1>1
  <2>2. duration' = duration
    BY DEF Ingest, audio
  <2> QED
    BY <2>1, <2>2 DEF Normalized
<1>8. Ingested'
  BY <1>1, <1>5, <1>6, <1>7 DEF Ingested
<1>9. Untouched
  BY NotAligned DEF Ingest
<1>10. Untouched'
  BY <1>1, <1>5, <1>9 DEF Untouched, Ingest, alignment, result
<1> QED
  BY <1>6, <1>8, <1>10, UntouchedNext DEF AIInv
-----------------------------------------------------------------------------
(* Align, speaker by speaker.                                              *)

\* A step that gives one more local speaker l of the window the speaker g.
Gives(l, g) ==
  /\ Aligning /\ l \in Locals(Current) \ DOMAIN mapping
  /\ g \in 1..speakers' /\ g \notin Range(mapping)
  /\ Assign(l, g)
  /\ speakers' \in Nat /\ speakers' >= speakers
  /\ UNCHANGED <<audio, segments, maps, result>>

LEMMA LocalsTyped ==
  ASSUME Ingested, NEW i \in 1..Len(segments)
  PROVE  Locals(i) \subseteq Nat
<1>1. segments[i] \subseteq Heard
  BY DEF Ingested, Normalized
<1> QED
  BY <1>1 DEF Locals, Heard

LEMMA MappingGrows ==
  ASSUME AIInv, NEW l, NEW g, Gives(l, g)
  PROVE  /\ DOMAIN mapping' = DOMAIN mapping \cup {l} /\ mapping'[l] = g
         /\ \A k \in DOMAIN mapping : k # l /\ mapping'[k] = mapping[k]
         /\ Range(mapping') = Range(mapping) \cup {g}
         /\ Current' = Current /\ Aligning'
<1>1. mapping' = [k \in DOMAIN mapping \cup {l} |-> IF k = l THEN g ELSE mapping[k]]
  BY DEF Gives, Assign
<1>2. l \notin DOMAIN mapping
  BY DEF Gives
<1>3. Current' = Current /\ Aligning'
  BY DEF Gives, Current, Aligning, Planned, audio
<1> QED
  BY <1>1, <1>2, <1>3 DEF Range

LEMMA GivesKeeps ==
  ASSUME AIInv, NEW l, NEW g, Gives(l, g)
  PROVE  IInv' /\ Ingested' /\ Mapped' /\ StableMatching' /\ Result'
<1> DEFINE grown == mapping'
<1>1. /\ IInv /\ Ingested /\ Mapped /\ StableMatching /\ Result
      /\ UNCHANGED <<audio, segments, maps, result>>
  BY DEF AIInv, Gives
<1>2. IInv' /\ Ingested' /\ (Planned' <=> Planned)
  BY <1>1, Undisturbed
<1>3. /\ ~done /\ merged = <<>> /\ listed = {} /\ Len(segments) \in Nat
      /\ Len(maps) \in Nat /\ Current = Len(maps) + 1 /\ Current \in 1..Len(segments)
      /\ Len(segments) = Len(windows)
  BY <1>1, NotMerged DEF Gives
<1>4. /\ grown = [k \in DOMAIN grown |-> grown[k]]
      /\ DOMAIN grown = DOMAIN mapping \cup {l} /\ grown[l] = g
      /\ \A k \in DOMAIN mapping : k # l /\ grown[k] = mapping[k]
      /\ Current' = Current /\ Aligning'
  <2>1. mapping' = [k \in DOMAIN mapping \cup {l} |-> IF k = l THEN g ELSE mapping[k]]
    BY DEF Gives, Assign
  <2> QED
    BY <2>1, MappingGrows
<1>5. \A i \in 1..Len(segments) : Locals(i)' = Locals(i)
  BY <1>1 DEF Locals
<1>6. l \in Locals(Current) /\ l \in Nat /\ g \in 1..speakers' /\ g \notin Range(mapping)
      /\ speakers \in Nat /\ speakers' \in Nat /\ speakers' >= speakers
  BY <1>1, <1>3, LocalsTyped DEF Gives, Mapped
<1>7. mapping \in Partial /\ DOMAIN mapping \subseteq Locals(Current)
      /\ Distinct(mapping) /\ \A k \in DOMAIN mapping : mapping[k] \in 1..speakers
  BY <1>1 DEF Mapped
<1>8. Mapped'
  <2>1. grown \in Partial
    <3>1. DOMAIN grown \in SUBSET Nat
      BY <1>4, <1>6, <1>7 DEF Partial
    <3>2. \A k \in DOMAIN grown : grown[k] \in Nat
      BY <1>4, <1>6, <1>7
    <3> QED
      BY <3>1, <3>2, <1>4 DEF Partial
  <2>2. Distinct(grown)
    BY <1>4, <1>6, <1>7 DEF Distinct, Range
  <2>3. \A k \in DOMAIN grown : grown[k] \in 1..speakers'
    BY <1>4, <1>6, <1>7
  <2>4. DOMAIN grown \subseteq Locals(Current)'
    BY <1>3, <1>4, <1>5, <1>6, <1>7 DEF Locals
  <2>5. \A i \in 1..Len(maps) :
          /\ DOMAIN maps[i] = Locals(i)'
          /\ Distinct(maps[i]) /\ \A k \in Locals(i)' : maps[i][k] \in 1..speakers'
    <3>1. ASSUME NEW i \in 1..Len(maps)
          PROVE  /\ DOMAIN maps[i] = Locals(i) /\ Distinct(maps[i]) /\ Locals(i)' = Locals(i)
                 /\ \A k \in Locals(i) : maps[i][k] \in 1..speakers
      BY <1>1, <1>3, <1>5 DEF Mapped
    <3>2. speakers \in Nat /\ speakers' \in Nat /\ speakers' >= speakers
      BY <1>6
    <3>3. 1..speakers \subseteq 1..speakers'
      BY <3>2
    <3> QED
      BY <3>1, <3>3
  <2>6. maps' = maps /\ segments' = segments /\ windows' = windows
    BY <1>1 DEF audio
  <2> HIDE DEF grown
  <2>7. /\ Distinct(mapping)' /\ \A k \in (DOMAIN mapping)' : mapping'[k] \in 1..speakers'
        /\ mapping' \in Partial
    BY <2>1, <2>2, <2>3 DEF Distinct, grown
  <2>8. \A i \in 1..Len(maps') : Distinct(maps[i])'
    BY <2>5, <2>6 DEF Distinct
  <2> QED
    BY <2>4, <2>5, <2>6, <2>7, <2>8, <1>1, <1>3, <1>4, <1>6 DEF Mapped, grown
<1>9. StableMatching'
  <2>1. \A i \in DOMAIN maps' : i \in 1..Len(segments) /\ i \in DOMAIN maps
    BY <1>1, <1>3 DEF Mapped
  <2>2. ASSUME NEW i \in DOMAIN maps' PROVE StableAt(i)'
    BY <2>1, <1>1, <1>3, StableSame, StableEverywhere DEF audio
  <2>3. (\A i \in DOMAIN maps : StableAt(i))'
    BY <2>2
  <2>4. (StableMatching <=> \A i \in DOMAIN maps : StableAt(i))'
    BY StableEverywhere, PTL
  <2> QED
    BY <2>3, <2>4
<1>10. Result'
  BY <1>1, <1>3 DEF Result, result
<1> QED
  BY <1>2, <1>8, <1>9, <1>10
LEMMA SettledKept ==
  ASSUME AIInv, NEW l, NEW g, Gives(l, g), Current > 1,
         NEW c \in Candidates(Current), Settled(c)
  PROVE  /\ Candidates(Current)' = Candidates(Current)
         /\ Settled(c)'
<1>1. /\ Current \in 1..Len(segments) /\ Len(segments) \in Nat /\ Current' = Current
      /\ maps' = maps /\ segments' = segments /\ windows' = windows
  BY NotMerged, MappingGrows DEF AIInv, Gives, audio
<1>2. PICK i \in 2..Len(segments) : i = Current
  BY <1>1
<1>3. Candidates(i)' = Candidates(i)
  BY <1>1, CandidatesSame
<1>4. Candidates(Current)' = Candidates(Current)
  BY <1>1, <1>2, <1>3
<1>5. \A d : Goes(d) => Goes(d)'
  BY MappingGrows DEF Goes
<1> QED
  BY <1>4, <1>5 DEF Settled

LEMMA RecogniseAIInv == AIInv /\ Recognise => AIInv'
<1> SUFFICES ASSUME AIInv, Recognise PROVE AIInv'
  OBVIOUS
<1>1. PICK c \in Eligible :
        (\A d \in Eligible \ {c} : Before(c, d)) /\ Assign(c.local, c.global)
  BY DEF Recognise
<1>2. /\ Current \in 1..Len(segments) /\ Len(segments) \in Nat /\ Current > 1
      /\ Current = Len(maps) + 1 /\ Len(maps) \in Nat
  BY <1>1, NotMerged DEF AIInv, Recognise, Eligible
<1>3. PICK i \in 2..Len(segments) : i = Current
  BY <1>2
<1>4. /\ c \in Candidates(i) /\ Confident(c) /\ c.local \notin DOMAIN mapping
      /\ c.global \notin Range(mapping)
  BY <1>1, <1>2, <1>3 DEF Eligible
<1>5. \A d \in Candidates(i) : /\ d.local \in Locals(i) /\ d.global \in 1..speakers
                               /\ d.matched \in Nat
  BY <1>2, <1>3, CandidateKnown DEF AIInv
<1>6. speakers' = speakers /\ speakers \in Nat
  BY DEF Recognise, AIInv, Mapped
<1>7. Gives(c.local, c.global)
  BY <1>1, <1>3, <1>4, <1>5, <1>6 DEF Gives, Recognise
<1>8. IInv' /\ Ingested' /\ Mapped' /\ StableMatching' /\ Result'
  BY <1>7, GivesKeeps
<1>9. /\ DOMAIN mapping' = DOMAIN mapping \cup {c.local} /\ mapping'[c.local] = c.global
      /\ Range(mapping') = Range(mapping) \cup {c.global}
      /\ Current' = Current /\ Aligning'
  BY <1>7, MappingGrows
<1>10. Goes(c)'
  BY <1>9 DEF Goes
<1>11. Candidates(Current)' = Candidates(Current)
  <2>1. maps' = maps /\ segments' = segments /\ windows' = windows
    BY DEF Recognise, audio
  <2>2. Candidates(i)' = Candidates(i)
    BY <2>1, CandidatesSame
  <2> QED
    BY <2>2, <1>3, <1>9
<1>12. ASSUME NEW d \in Candidates(Current), Confident(d)
       PROVE  d \in Eligible' \/ Settled(d)'
  <2>1. CASE Settled(d)
    BY <2>1, <1>2, <1>7, SettledKept
  <2>2. CASE d \in Eligible /\ d.local # c.local /\ d.global # c.global
    <3>1. d.local \notin DOMAIN mapping' /\ d.global \notin Range(mapping')
      BY <2>2, <1>2, <1>9 DEF Eligible
    <3>2. d \in Candidates(Current)' /\ Current' # 1
      BY <1>2, <1>9, <1>11
    <3> QED
      BY <3>1, <3>2, <1>12 DEF Eligible, Confident
  <2>3. CASE d.local = c.local /\ d.global = c.global
    <3>1. Goes(d)'
      BY <2>3, <1>9 DEF Goes
    <3> QED
      BY <3>1 DEF Settled
  <2>4. CASE d \in Eligible /\ (d.local = c.local) # (d.global = c.global)
    <3>1. Before(c, d)
      BY <2>4, <1>1
    <3>2. c.matched >= d.matched
      BY <3>1, <1>3, <1>4, <1>5 DEF Before
    <3>3. /\ c \in Candidates(Current)' /\ Confident(c)' /\ Goes(c)'
          /\ (c.local = d.local) # (c.global = d.global)
      BY <2>4, <1>3, <1>4, <1>10, <1>11 DEF Confident
    <3> QED
      BY <3>2, <3>3 DEF Settled
  <2>5. d \in Eligible \/ Settled(d)
    BY <1>12, <1>2 DEF AIInv, Matching, Recognise
  <2> QED
    BY <2>1, <2>2, <2>3, <2>4, <2>5
<1>13. Matching'
  BY <1>11, <1>12 DEF Matching, Confident
<1> QED
  BY <1>8, <1>13 DEF AIInv

LEMMA NewSpeakerAIInv == AIInv /\ NewSpeaker => AIInv'
<1> SUFFICES ASSUME AIInv, NewSpeaker PROVE AIInv'
  OBVIOUS
<1>1. PICK l \in Locals(Current) \ DOMAIN mapping : Assign(l, speakers + 1)
  BY DEF NewSpeaker
<1>2. speakers' = speakers + 1 /\ speakers \in Nat
      /\ \A k \in DOMAIN mapping : mapping[k] \in 1..speakers
  BY DEF NewSpeaker, AIInv, Mapped
<1>3. speakers + 1 \notin Range(mapping)
  BY <1>2 DEF Range
<1>4. Gives(l, speakers + 1)
  BY <1>1, <1>2, <1>3 DEF Gives, NewSpeaker
<1>5. IInv' /\ Ingested' /\ Mapped' /\ StableMatching' /\ Result'
  BY <1>4, GivesKeeps
<1>6. Current' = Current
  BY <1>4, MappingGrows
<1>7. Matching'
  <2>1. CASE Current > 1
    <3>1. \A c \in Candidates(Current) : Confident(c) => Settled(c)
      BY <2>1 DEF AIInv, Matching, NewSpeaker
    <3>2. Candidates(Current)' = Candidates(Current)
      <4>1. PICK i \in 2..Len(segments) : i = Current
        BY <2>1, NotMerged DEF AIInv, NewSpeaker
      <4>2. Candidates(i)' = Candidates(i)
        BY <4>1, CandidatesSame DEF NewSpeaker, audio
      <4> QED
        BY <4>1, <4>2, <1>6
    <3>3. ASSUME NEW c \in Candidates(Current), Confident(c) PROVE Settled(c)'
      BY <3>1, <3>3, <2>1, <1>4, SettledKept
    <3> QED
      BY <3>2, <3>3 DEF Matching, Confident
  <2>2. CASE ~(Current > 1)
    BY <2>2, <1>6 DEF Matching
  <2> QED
    BY <2>1, <2>2
<1> QED
  BY <1>5, <1>7 DEF AIInv

LEMMA EndWindowAIInv == AIInv /\ EndWindow => AIInv'
<1> SUFFICES ASSUME AIInv, EndWindow PROVE AIInv'
  OBVIOUS
<1>1. /\ IInv /\ Ingested /\ Mapped /\ Matching /\ StableMatching /\ Result /\ Aligning
      /\ UNCHANGED <<audio, segments, speakers, result>>
  BY DEF AIInv, EndWindow
<1>2. IInv' /\ Ingested' /\ (Planned' <=> Planned)
  BY <1>1, Undisturbed
<1>3. /\ ~done /\ merged = <<>> /\ listed = {} /\ Len(segments) \in Nat
      /\ Len(maps) \in Nat /\ Current = Len(maps) + 1 /\ Current \in 1..Len(segments)
      /\ Len(segments) = Len(windows)
  BY <1>1, NotMerged
<1>0. PICK at \in 1..Len(segments) : at = Current
  BY <1>3
<1>4. /\ mapping \in Partial /\ DOMAIN mapping = Locals(at)
      /\ Distinct(mapping) /\ \A k \in DOMAIN mapping : mapping[k] \in 1..speakers
      /\ maps \in Seq(Partial)
  BY <1>1, <1>0, <1>3 DEF Mapped, EndWindow
<1>5. /\ maps' \in Seq(Partial) /\ Len(maps') = at /\ maps'[at] = mapping
      /\ \A i \in 1..Len(maps) : maps'[i] = maps[i]
      /\ mapping' = <<>>
  BY <1>0, <1>3, <1>4 DEF EndWindow
<1>6. \A i \in 1..Len(segments) : Locals(i)' = Locals(i)
  BY <1>1 DEF Locals
<1>7. Mapped'
  <2>1. mapping' \in Partial /\ DOMAIN mapping' = {}
    BY <1>5, EmptyMap
  <2>2. ASSUME NEW i \in 1..at
        PROVE  /\ DOMAIN maps'[i] = Locals(i)' /\ Distinct(maps[i])'
               /\ \A l \in Locals(i)' : maps'[i][l] \in 1..speakers'
    <3>1. Locals(i)' = Locals(i)
      BY <1>0, <1>3, <1>6
    <3>2. CASE i = at
      BY <3>1, <3>2, <1>1, <1>4, <1>5 DEF Distinct
    <3>3. CASE i \in 1..Len(maps)
      BY <3>1, <3>3, <1>1, <1>5 DEF Mapped, Distinct
    <3> QED
      BY <3>2, <3>3, <1>0, <1>3
  <2>3. Distinct(mapping)'
    BY <2>1 DEF Distinct
  <2>4. Len(segments') = Len(windows') /\ Len(segments') = Len(segments)
    BY <1>1, <1>0, <1>3 DEF audio
  <2> QED
    BY <2>1, <2>2, <2>3, <2>4, <1>1, <1>0, <1>3, <1>5 DEF Mapped
<1>8. StableMatching'
  <2>1. \A i \in 1..Len(maps) : StableAt(i)
    BY <1>1, <1>0, <1>3, <1>4, StableEverywhere
  <2>2. ASSUME NEW i \in 1..Len(maps) PROVE StableAt(i)'
    <3>1. i \in 1..Len(segments) /\ (i > 1 => i - 1 \in 1..Len(maps))
      BY <1>0, <1>3
    <3>2. windows' = windows /\ segments' = segments /\ maps'[i] = maps[i]
          /\ (i > 1 => maps'[i - 1] = maps[i - 1])
      BY <3>1, <1>1, <1>5 DEF audio
    <3> QED
      BY <3>1, <3>2, <2>1, <1>0, <1>3, StableSame
  <2>3. StableAt(at)'
    <3>1. ASSUME NEW l \in Locals(at)', NEW k \in Locals(at)', maps'[at][l] = maps'[at][k]
          PROVE  l = k
      BY <3>1, <1>0, <1>3, <1>4, <1>5, <1>6 DEF Distinct
    <3>2. ASSUME at > 1, NEW c \in Candidates(at)', Confident(c)
          PROVE  \/ maps'[at][c.local] = c.global
                 \/ \E d \in Candidates(at)' :
                      /\ Confident(d) /\ d.matched >= c.matched /\ maps'[at][d.local] = d.global
                      /\ (d.local = c.local) # (d.global = c.global)
      <4>1. at \in 2..Len(segments)
        BY <3>2, <1>0, <1>3
      <4>2. maps'[at - 1] = maps[at - 1]
        BY <4>1, <1>0, <1>3, <1>5
      <4>3. Candidates(at)' = Candidates(at)
        BY <4>1, <4>2, <1>1, CandidatesSame DEF audio
      <4>4. c.local \in Locals(at)
        BY <4>1, <4>3, <3>2, <1>1, <1>0, <1>3, CandidateKnown
      <4>5. c \notin Eligible
        BY <4>1, <4>4, <1>0, <1>3, <1>4 DEF Eligible
      <4>6. Settled(c)
        BY <4>1, <4>3, <4>5, <3>2, <1>1, <1>0, <1>3 DEF Matching
      <4> QED
        BY <4>3, <4>6, <1>0, <1>3, <1>5 DEF Settled, Goes
    <3> QED
      BY <3>1, <3>2 DEF StableAt, Takes, Confident
  <2>4. DOMAIN maps' = 1..at
    BY <1>0, <1>3, <1>5
  <2>5. (\A i \in DOMAIN maps : StableAt(i))'
    BY <2>2, <2>3, <2>4, <1>0, <1>3
  <2>6. (StableMatching <=> \A i \in DOMAIN maps : StableAt(i))'
    BY StableEverywhere, PTL
  <2> QED
    BY <2>5, <2>6
<1>9. Matching'
  <2>1. \A c \in Candidates(Current)' : Current' > 1 /\ Confident(c)' => c \in Eligible'
    BY <1>5, EmptyMap DEF Eligible, Range
  <2> QED
    BY <2>1 DEF Matching
<1>10. Result'
  BY <1>1, <1>0, <1>3 DEF Result, result
<1> QED
  BY <1>2, <1>7, <1>8, <1>9, <1>10 DEF AIInv
-----------------------------------------------------------------------------
(* Merge.                                                                  *)

\* Numbers that tell the members of a finite set apart, and are smaller than their
\* number, are all given.
LEMMA Ranking ==
  ASSUME NEW S, IsFiniteSet(S), NEW rank \in [S -> 0..(Cardinality(S) - 1)],
         \A m, k \in S : rank[m] = rank[k] => m = k,
         NEW n \in 0..(Cardinality(S) - 1)
  PROVE  \E m \in S : rank[m] = n
<1> DEFINE T == 0..(Cardinality(S) - 1)
<1>1. Cardinality(S) \in Nat
  BY FS_CardinalityType
<1>2. IsFiniteSet(T) /\ Cardinality(T) = Cardinality(S)
  BY <1>1, FS_Interval
<1>3. rank \in Injection(S, T)
  BY DEF Injection, IsInjective
<1> HIDE DEF T
<1>4. rank \in Surjection(S, T)
  BY <1>2, <1>3, FS_Injection
<1>5. n \in T
  BY DEF T
<1> QED
  BY <1>4, <1>5 DEF Surjection

LEMMA ImageFinite ==
  ASSUME NEW S, IsFiniteSet(S), NEW f, DOMAIN f = S
  PROVE  IsFiniteSet({f[x] : x \in S})
<1> DEFINE g == [x \in S |-> f[x]]
           T == {f[x] : x \in S}
<1>1. g \in Surjection(S, T)
  BY DEF Surjection
<1> HIDE DEF g, T
<1>2. IsFiniteSet(T)
  BY <1>1, FS_Surjection
<1> QED
  BY <1>2 DEF T

LEMMA ContributionsFinite ==
  ASSUME Ingested, Mapped
  PROVE  IsFiniteSet(Contributions)
<1> DEFINE S(i) == {MergedSegment(i, s) : s \in Owned(i)}
           f == [i \in DOMAIN maps |-> S(i)]
<1>1. DOMAIN maps = 1..Len(maps) /\ Len(maps) \in Nat /\ Len(segments) \in Nat
      /\ \A i \in DOMAIN maps : i \in 1..Len(segments)
  BY DEF Mapped, Ingested
<1>2. ASSUME NEW i \in DOMAIN maps PROVE IsFiniteSet(S(i))
  <2> DEFINE g == [s \in Owned(i) |-> MergedSegment(i, s)]
  <2>1. IsFiniteSet(Owned(i))
    <3>1. IsFiniteSet(segments[i])
      BY <1>1 DEF Ingested, Normalized
    <3> QED
      BY <3>1, FS_Subset DEF Owned
  <2>2. DOMAIN g = Owned(i) /\ S(i) = {g[s] : s \in Owned(i)}
    OBVIOUS
  <2> HIDE DEF g, S
  <2> QED
    BY <2>1, <2>2, ImageFinite
<1>3. IsFiniteSet({f[i] : i \in DOMAIN maps})
  <2>1. IsFiniteSet(DOMAIN maps)
    BY <1>1, FS_Interval
  <2>2. DOMAIN f = DOMAIN maps
    OBVIOUS
  <2> HIDE DEF f
  <2> QED
    BY <2>1, <2>2, ImageFinite
<1>4. Contributions = UNION {f[i] : i \in DOMAIN maps}
  BY DEF Contributions
<1>5. \A T \in {f[i] : i \in DOMAIN maps} : IsFiniteSet(T)
  BY <1>2
<1> HIDE DEF f
<1> QED
  BY <1>3, <1>4, <1>5, FS_UNION

\* A merged segment: where it comes from and when it is.
LEMMA ContributionKnown ==
  ASSUME Ingested, Mapped, NEW m \in Contributions
  PROVE  \E i \in DOMAIN maps : \E s \in Owned(i) :
           /\ m = MergedSegment(i, s) /\ i \in 1..Len(segments) /\ i \in Nat
           /\ s \in segments[i] /\ s \in Heard
           /\ s.start < s.end /\ s.end <= duration
<1>1. DOMAIN maps = 1..Len(maps) /\ Len(maps) \in Nat /\ Len(segments) \in Nat
      /\ \A i \in DOMAIN maps : i \in 1..Len(segments) /\ i \in Nat
  BY DEF Mapped, Ingested
<1>2. PICK i \in DOMAIN maps : \E s \in Owned(i) : m = MergedSegment(i, s)
  BY DEF Contributions
<1>3. PICK s \in Owned(i) : m = MergedSegment(i, s)
  BY <1>2
<1>4. s \in segments[i] /\ s \in Heard /\ s.start < s.end /\ s.end <= duration
  BY <1>1, <1>3 DEF Owned, Ingested, Normalized
<1> QED
  BY <1>1, <1>3, <1>4

\* MergedBefore is a strict total order of what is merged.
LEMMA MergeOrder ==
  ASSUME Ingested, Mapped
  PROVE  /\ \A m \in Contributions : ~MergedBefore(m, m)
         /\ \A m, k \in Contributions : m = k \/ MergedBefore(m, k) \/ MergedBefore(k, m)
         /\ \A m, k, n \in Contributions :
              MergedBefore(m, k) /\ MergedBefore(k, n) => MergedBefore(m, n)
         /\ \A m, k \in Contributions : MergedBefore(m, k) => m.start <= k.start
<1>1. ASSUME NEW m \in Contributions
      PROVE  m.start \in Nat /\ m.end \in Nat /\ m.window \in Nat /\ m.seq \in Nat
  <2>1. PICK i \in DOMAIN maps : \E s \in Owned(i) :
          m = MergedSegment(i, s) /\ i \in Nat /\ s \in Heard
    BY ContributionKnown
  <2> QED
    BY <2>1 DEF MergedSegment, Heard
<1>2. ASSUME NEW m \in Contributions, NEW k \in Contributions,
             m.window = k.window, m.seq = k.seq
      PROVE  m = k
  <2>1. PICK i \in DOMAIN maps : \E s \in Owned(i) :
          m = MergedSegment(i, s) /\ i \in 1..Len(segments) /\ s \in segments[i]
    BY ContributionKnown
  <2>2. PICK j \in DOMAIN maps : \E t \in Owned(j) :
          k = MergedSegment(j, t) /\ j \in 1..Len(segments) /\ t \in segments[j]
    BY ContributionKnown
  <2>3. PICK s \in segments[i] : m = MergedSegment(i, s) /\ i \in 1..Len(segments)
    BY <2>1
  <2>4. PICK t \in segments[j] : k = MergedSegment(j, t)
    BY <2>2
  <2>5. i = j /\ s.seq = t.seq
    BY <1>2, <2>3, <2>4 DEF MergedSegment
  <2>6. s = t
    BY <2>3, <2>4, <2>5 DEF Ingested, Normalized
  <2> QED
    BY <2>3, <2>4, <2>5, <2>6
<1>3. \A m \in Contributions : ~MergedBefore(m, m)
  BY <1>1 DEF MergedBefore
<1>4. ASSUME NEW m \in Contributions, NEW k \in Contributions
      PROVE  m = k \/ MergedBefore(m, k) \/ MergedBefore(k, m)
  BY <1>1, <1>2 DEF MergedBefore
<1>5. ASSUME NEW m \in Contributions, NEW k \in Contributions, NEW n \in Contributions,
             MergedBefore(m, k), MergedBefore(k, n)
      PROVE  MergedBefore(m, n)
  BY <1>1, <1>5 DEF MergedBefore
<1>6. ASSUME NEW m \in Contributions, NEW k \in Contributions, MergedBefore(m, k)
      PROVE  m.start <= k.start
  BY <1>1, <1>6 DEF MergedBefore
<1> QED
  BY <1>3, <1>4, <1>5, <1>6

LEMMA Places ==
  ASSUME Ingested, Mapped
  PROVE  /\ Cardinality(Contributions) \in Nat
         /\ \A m \in Contributions : Place(m) \in 0..(Cardinality(Contributions) - 1)
         /\ \A m, k \in Contributions : MergedBefore(m, k) => Place(m) < Place(k)
<1> DEFINE S == Contributions
           P(m) == {c \in S : MergedBefore(c, m)}
<1>1. IsFiniteSet(S) /\ Cardinality(S) \in Nat
  BY ContributionsFinite, FS_CardinalityType
<1>2. ASSUME NEW m \in S
      PROVE  IsFiniteSet(P(m)) /\ Place(m) = Cardinality(P(m)) /\ Place(m) \in Nat
  <2>1. IsFiniteSet(P(m))
    BY <1>1, FS_Subset
  <2>2. Place(m) = Cardinality(P(m))
    BY DEF Place
  <2> HIDE DEF P
  <2> QED
    BY <2>1, <2>2, FS_CardinalityType
<1>3. ASSUME NEW m \in S PROVE Place(m) \in 0..(Cardinality(S) - 1)
  <2>1. P(m) \in SUBSET S /\ P(m) # S
    BY MergeOrder
  <2>2. Place(m) <= Cardinality(S) /\ Place(m) # Cardinality(S)
    <3> HIDE DEF P, S
    <3> QED
      BY <2>1, <1>1, <1>2, FS_Subset
  <2>3. Place(m) \in Nat
    BY <1>2
  <2> HIDE DEF P, S
  <2> QED
    BY <2>2, <2>3, <1>1
<1>4. ASSUME NEW m \in S, NEW k \in S, MergedBefore(m, k) PROVE Place(m) < Place(k)
  <2>1. P(m) \in SUBSET P(k)
    BY <1>4, MergeOrder
  <2>2. P(m) # P(k)
    BY <1>4, MergeOrder
  <2>3. Place(m) <= Place(k) /\ Place(m) # Place(k)
    <3> HIDE DEF P, S
    <3> QED
      BY <2>1, <2>2, <1>2, FS_Subset
  <2>4. Place(m) \in Nat /\ Place(k) \in Nat
    BY <1>2
  <2> QED
    BY <2>3, <2>4
<1> QED
  BY <1>1, <1>3, <1>4

\* Merge leaves what Align has made.
LEMMA AlignedKept ==
  ASSUME AIInv, UNCHANGED <<audio, segments, alignment>>
  PROVE  Mapped' /\ Matching' /\ StableMatching'
<1>1. /\ Planned' = Planned /\ windows' = windows /\ segments' = segments
      /\ maps' = maps /\ mapping' = mapping /\ speakers' = speakers
      /\ Current' = Current /\ (Aligning' <=> Aligning)
  BY DEF audio, alignment, Planned, Current, Aligning
<1>2. \A i : Locals(i)' = Locals(i)
  BY <1>1 DEF Locals
<1>3. Len(segments) \in Nat /\ Len(maps) \in Nat /\ Len(maps) <= Len(segments)
      /\ Len(windows) \in Nat
  BY DEF AIInv, Mapped, Ingested, IInv, TypeOK
<1>4. Mapped'
  BY <1>1, <1>2 DEF AIInv, Mapped, Distinct
<1>5. StableMatching'
  <2>1. \A i \in DOMAIN maps : i \in 1..Len(segments) /\ StableAt(i)
    BY <1>3, StableEverywhere DEF AIInv, Mapped
  <2>2. ASSUME NEW i \in DOMAIN maps PROVE StableAt(i)'
    BY <2>1, <1>1, <1>3, StableSame
  <2>3. (\A i \in DOMAIN maps : StableAt(i))'
    BY <2>2, <1>1
  <2>4. (StableMatching <=> \A i \in DOMAIN maps : StableAt(i))'
    BY StableEverywhere, PTL
  <2> QED
    BY <2>3, <2>4
<1>6. Matching'
  <2>1. SUFFICES ASSUME Aligning, Current > 1
                 PROVE  \A c \in Candidates(Current)' : Confident(c) => c \in Eligible' \/ Settled(c)'
    BY <1>1 DEF Matching, Confident
  <2>2. PICK i \in 2..Len(segments) : i = Current
    BY <2>1, <1>3 DEF Aligning, Current
  <2>3. Candidates(i)' = Candidates(i)
    BY <1>1, CandidatesSame
  <2>4. Candidates(Current)' = Candidates(Current)
    BY <2>2, <2>3, <1>1
  <2>5. Eligible' = Eligible
    BY <2>4, <1>1 DEF Eligible, Confident, Range
  <2>6. \A c : Settled(c) => Settled(c)'
    BY <2>4, <1>1 DEF Settled, Goes, Confident
  <2> QED
    BY <2>1, <2>4, <2>5, <2>6 DEF AIInv, Matching
<1> QED
  BY <1>4, <1>5, <1>6

\* Whatever has the n-th place is merged as number n.
LEMMA MergeAIInv == AIInv /\ Merge => AIInv'
<1> SUFFICES ASSUME AIInv, Merge PROVE AIInv'
  OBVIOUS
<1> DEFINE S == Contributions
           N == Cardinality(S)
           at(n) == CHOOSE m \in S : Place(m) = n - 1
<1>1. /\ IInv /\ Ingested /\ Mapped /\ Matching /\ StableMatching
      /\ UNCHANGED <<audio, segments, alignment>>
      /\ Planned /\ Len(segments) = Len(windows) /\ Len(maps) = Len(windows)
      /\ merged' = [n \in 1..N |-> at(n)] /\ listed' = SpeakersFromChunks /\ done'
  BY DEF AIInv, Merge
<1>2. IInv' /\ Ingested' /\ (Planned' <=> Planned)
  BY <1>1, Undisturbed
<1>3. N \in Nat /\ IsFiniteSet(S)
  BY <1>1, Places, ContributionsFinite
<1>4. \A m, k \in S : Place(m) = Place(k) => m = k
  BY <1>1, Places, MergeOrder
<1>5. ASSUME NEW n \in 1..N PROVE at(n) \in S /\ Place(at(n)) = n - 1
  <2> DEFINE rank == [m \in S |-> Place(m)]
  <2>1. rank \in [S -> 0..(N - 1)]
    BY <1>1, Places
  <2>2. \A m, k \in S : rank[m] = rank[k] => m = k
    BY <1>4
  <2>3. n - 1 \in 0..(Cardinality(S) - 1)
    BY <1>3
  <2>4. \E m \in S : rank[m] = n - 1
    <3> HIDE DEF rank, S
    <3> QED
      BY <2>1, <2>2, <2>3, <1>3, Ranking
  <2> QED
    BY <2>4
<1> HIDE DEF at
<1>6. DOMAIN merged' \subseteq Nat
  BY <1>1, <1>3
<1>7. S = {merged'[n] : n \in DOMAIN merged'}
  <2>1. ASSUME NEW m \in S PROVE \E n \in 1..N : m = at(n)
    <3>1. Place(m) + 1 \in 1..N /\ Place(m) \in Nat
      BY <1>1, <1>3, Places
    <3>2. Place(at(Place(m) + 1)) = Place(m) /\ at(Place(m) + 1) \in S
      BY <3>1, <1>5
    <3> QED
      BY <3>1, <3>2, <1>4
  <2>2. \A n \in 1..N : at(n) \in S
    BY <1>5
  <2> HIDE DEF S, N
  <2> QED
    BY <2>1, <2>2, <1>1
<1>8. ASSUME NEW m \in DOMAIN merged', NEW n \in DOMAIN merged', m < n
      PROVE  merged'[m].start <= merged'[n].start
  <2>1. m \in 1..N /\ n \in 1..N /\ merged'[m] = at(m) /\ merged'[n] = at(n)
    BY <1>1
  <2>2. at(m) \in S /\ at(n) \in S /\ Place(at(m)) < Place(at(n))
    BY <2>1, <1>5, <1>8, <1>3
  <2>3. ~MergedBefore(at(n), at(m)) /\ at(n) # at(m)
    BY <2>2, <1>1, Places, <1>3
  <2>4. MergedBefore(at(m), at(n))
    BY <2>2, <2>3, <1>1, MergeOrder
  <2> QED
    BY <2>1, <2>2, <2>4, <1>1, MergeOrder
<1>9. windows' = windows /\ segments' = segments /\ maps' = maps /\ mapping' = mapping
      /\ speakers' = speakers
  BY <1>1 DEF audio, alignment
<1>10. Contributions' = Contributions /\ SpeakersFromChunks' = SpeakersFromChunks
  BY <1>9 DEF Contributions, SpeakersFromChunks, MergedSegment, Owned, OwnedByCore, Owns
<1>11. Result'
  BY <1>1, <1>2, <1>6, <1>7, <1>8, <1>9, <1>10 DEF Result, Finished
<1>12. Mapped' /\ Matching' /\ StableMatching'
  BY <1>1, AlignedKept DEF AIInv
<1> QED
  BY <1>2, <1>11, <1>12 DEF AIInv
-----------------------------------------------------------------------------
LEMMA NextAIInv == AIInv /\ [ANext]_<<audio, transcript>> => AIInv'
<1> SUFFICES ASSUME AIInv, [ANext]_<<audio, transcript>> PROVE AIInv'
  OBVIOUS
<1>1. CASE UNCHANGED <<audio, transcript>>
  <2>1. UNCHANGED <<audio, segments, alignment, result>>
    BY <1>1 DEF audio, transcript, alignment, result
  <2>2. Mapped' /\ Matching' /\ StableMatching'
    BY <2>1, AlignedKept
  <2>3. IInv' /\ Ingested' /\ (Planned' <=> Planned)
    BY <2>1, Undisturbed DEF AIInv
  <2>4. Contributions' = Contributions /\ SpeakersFromChunks' = SpeakersFromChunks
    BY <2>1 DEF audio, alignment, Contributions, SpeakersFromChunks, MergedSegment, Owned,
                OwnedByCore, Owns
  <2>5. Result'
    BY <2>1, <2>3, <2>4 DEF AIInv, Result, Finished, audio, alignment, result
  <2> QED
    BY <2>2, <2>3, <2>5 DEF AIInv
<1> QED
  BY <1>1, CutAIInv, IngestAIInv, RecogniseAIInv, NewSpeakerAIInv, EndWindowAIInv, MergeAIInv
     DEF ANext

LEMMA AInvariance == ASpec => []AIInv
BY InitAIInv, NextAIInv, PTL DEF ASpec

\* Whatever the recognisers hear: nobody is two speakers of a window, and of two who
\* could be one, the better match is taken.
THEOREM Stable == ASpec => []StableMatching
<1>1. AIInv => StableMatching
  BY DEF AIInv
<1> QED
  BY <1>1, AInvariance, PTL

\* Each speaker whose speech is merged is listed, and nobody else.
THEOREM Listed == ASpec => []SpeakersListed
<1>1. AIInv => SpeakersListed
  <2> SUFFICES ASSUME AIInv PROVE SpeakersListed
    OBVIOUS
  <2>1. CASE ~done
    BY <2>1 DEF AIInv, Result, SpeakersListed
  <2>2. CASE done
    <3>1. listed = SpeakersFromChunks /\ Contributions = {merged[n] : n \in DOMAIN merged}
      BY <2>2 DEF AIInv, Result, Finished
    <3>2. SpeakersFromChunks = {m.speaker : m \in Contributions}
      <4>1. ASSUME NEW m \in Contributions PROVE m.speaker \in SpeakersFromChunks
        BY DEF SpeakersFromChunks, Contributions, MergedSegment
      <4>2. ASSUME NEW x \in SpeakersFromChunks PROVE \E m \in Contributions : m.speaker = x
        <5>1. PICK i \in DOMAIN maps : \E s \in Owned(i) : x = maps[i][s.local]
          BY DEF SpeakersFromChunks
        <5>2. PICK s \in Owned(i) : x = maps[i][s.local]
          BY <5>1
        <5>3. MergedSegment(i, s) \in Contributions
          BY DEF Contributions
        <5> QED
          BY <5>2, <5>3 DEF MergedSegment
      <4> QED
        BY <4>1, <4>2
    <3>3. {m.speaker : m \in Contributions} = {merged[n].speaker : n \in DOMAIN merged}
      BY <3>1
    <3> QED
      BY <3>1, <3>2, <3>3 DEF SpeakersListed
  <2> QED
    BY <2>1, <2>2
<1> QED
  BY <1>1, AInvariance, PTL

-----------------------------------------------------------------------------
(* What both windows hear.                                                 *)

\* Two segments with the same times have the same owner.
LEMMA OneWindow ==
  ASSUME AIInv, Planned, NEW i \in 1..Len(windows), NEW j \in 1..Len(windows),
         NEW s \in Nat, NEW e \in Nat, s < e, e <= duration,
         Owns(i, Midpoint(s, e)), Owns(j, Midpoint(s, e))
  PROVE  i = j
<1>1. duration \in Nat /\ coreStart \in Nat /\ coreStart >= duration
      /\ DOMAIN windows = 1..Len(windows)
  BY ChunkingAssumption DEF AIInv, IInv, TypeOK, Planned
<1>2. Midpoint(s, e) \in 0..(SmallerOf(coreStart, duration) - 1)
  BY <1>1, MidpointInside DEF SmallerOf
<1> QED
  BY <1>1, <1>2 DEF AIInv, IInv, CoresTile

\* Around a border of two cores, as far as the renders overlap.
LEMMA NearBorder ==
  ASSUME NEW start \in Int, NEW border \in Int, NEW end \in Int, NEW t \in Int,
         duration \in Nat,
         border = SmallerOf(duration, start + CoreWindow), border < end,
         end = SmallerOf(duration, border + CoreWindow),
         border - Overlap <= t, t < SmallerOf(duration, border + Overlap)
  PROVE  (start <= t /\ t < border) \/ (border <= t /\ t < end)
BY ChunkingAssumption DEF SmallerOf

LEMMA Bounds ==
  ASSUME NEW a \in Int, NEW b \in Int
  PROVE  /\ LargerOf(a, b) \in Int /\ LargerOf(a, b) >= a
         /\ SmallerOf(a, b) \in Int /\ SmallerOf(a, b) <= b
BY DEF LargerOf, SmallerOf

LEMMA Within ==
  ASSUME NEW from \in Int, NEW to \in Int, NEW a \in Int, NEW b \in Int,
         from >= a, to <= b, NEW t \in from..(to - 1)
  PROVE  t \in Int /\ a <= t /\ t < b
OBVIOUS

\* An instant that two neighbours have rendered is in the core of one of them.
LEMMA NeighbourOwns ==
  ASSUME IInv, NEW i \in 1..(Len(windows) - 1), NEW t \in In(Shared(i + 1))
  PROVE  Owns(i, t) \/ Owns(i + 1, t)
<1>1. /\ i \in 1..Len(windows) /\ i + 1 \in 1..Len(windows) /\ i < Len(windows)
      /\ (i + 1) - 1 = i /\ duration \in Nat
  BY ChunkingAssumption DEF IInv, TypeOK
<1>2. /\ windows[i].coreStart \in Int /\ windows[i].coreEnd \in Int
      /\ windows[i].renderStart \in Int /\ windows[i].renderEnd \in Int
      /\ windows[i + 1].coreStart \in Int /\ windows[i + 1].coreEnd \in Int
      /\ windows[i + 1].renderStart \in Int /\ windows[i + 1].renderEnd \in Int
  BY <1>1, WindowTyped
<1>3. /\ windows[i + 1].coreStart = windows[i].coreEnd
      /\ windows[i + 1].renderStart = windows[i].coreEnd - Overlap
      /\ windows[i].renderEnd = SmallerOf(duration, windows[i].coreEnd + Overlap)
  BY <1>1, OverlapHolds DEF NeighboursOverlap
<1>4. /\ WellCut(windows[i]) /\ WellCut(windows[i + 1])
      /\ windows[i + 1].coreStart < windows[i + 1].coreEnd
  BY <1>1 DEF IInv, Chained
<1>5. /\ windows[i].coreEnd = SmallerOf(duration, windows[i].coreStart + CoreWindow)
      /\ windows[i + 1].coreEnd = SmallerOf(duration, windows[i].coreEnd + CoreWindow)
  BY <1>3, <1>4 DEF WellCut
<1>6. /\ t \in Int /\ windows[i].coreEnd - Overlap <= t
      /\ t < SmallerOf(duration, windows[i].coreEnd + Overlap)
  <2>1. t \in Shared(i + 1).start..(Shared(i + 1).end - 1)
    BY DEF In
  <2>2. /\ Shared(i + 1).start = LargerOf(windows[i + 1].renderStart, windows[i].renderStart)
        /\ Shared(i + 1).end = SmallerOf(windows[i + 1].renderEnd, windows[i].renderEnd)
    BY <1>1 DEF Shared
  <2>3. /\ Shared(i + 1).start \in Int /\ Shared(i + 1).start >= windows[i + 1].renderStart
        /\ Shared(i + 1).end \in Int /\ Shared(i + 1).end <= windows[i].renderEnd
    <3>1. /\ LargerOf(windows[i + 1].renderStart, windows[i].renderStart) \in Int
          /\ LargerOf(windows[i + 1].renderStart, windows[i].renderStart) >= windows[i + 1].renderStart
      BY <1>2, Bounds
    <3>2. /\ SmallerOf(windows[i + 1].renderEnd, windows[i].renderEnd) \in Int
          /\ SmallerOf(windows[i + 1].renderEnd, windows[i].renderEnd) <= windows[i].renderEnd
      BY <1>2, Bounds
    <3> QED
      BY <2>2, <3>1, <3>2
  <2>4. /\ windows[i + 1].renderStart \in Int /\ windows[i].renderEnd \in Int
        /\ Shared(i + 1).start \in Int /\ Shared(i + 1).end \in Int
    BY <2>3, <1>2
  <2>5. t \in Int /\ windows[i + 1].renderStart <= t /\ t < windows[i].renderEnd
    BY <2>1, <2>3, <2>4, Within
  <2> QED
    BY <2>5, <1>3
<1>7. \/ windows[i].coreStart <= t /\ t < windows[i].coreEnd
      \/ windows[i].coreEnd <= t /\ t < windows[i + 1].coreEnd
  BY <1>1, <1>2, <1>3, <1>4, <1>5, <1>6, NearBorder
<1> QED
  BY <1>3, <1>7 DEF Owns
\* Speech that both neighbours have transcribed is merged from one of them.
LEMMA OneIsMerged ==
  ASSUME AIInv, done, NEW i \in 1..(Len(windows) - 1),
         NEW s \in segments[i], NEW t \in segments[i + 1], SameTimes(s, t),
         Midpoint(s.start, s.end) \in In(Shared(i + 1))
  PROVE  \E n \in DOMAIN merged : SameTimes(merged[n], s)
<1>1. /\ Contributions = {merged[n] : n \in DOMAIN merged}
      /\ Len(maps) = Len(windows) /\ DOMAIN maps = 1..Len(maps) /\ Len(windows) \in Nat
      /\ i \in DOMAIN maps /\ i + 1 \in DOMAIN maps
  BY DEF AIInv, Result, Finished, IInv, TypeOK, Mapped
<1>2. ASSUME NEW j \in DOMAIN maps, NEW u \in segments[j], SameTimes(u, s),
             Owns(j, Midpoint(s.start, s.end))
      PROVE  \E n \in DOMAIN merged : SameTimes(merged[n], s)
  <2>1. u \in Owned(j)
    BY <1>2 DEF Owned, OwnedByCore, SameTimes
  <2>2. MergedSegment(j, u) \in Contributions
    BY <2>1 DEF Contributions
  <2>3. SameTimes(MergedSegment(j, u), s)
    BY <1>2 DEF SameTimes, MergedSegment
  <2> QED
    BY <2>2, <2>3, <1>1
<1>3. Owns(i, Midpoint(s.start, s.end)) \/ Owns(i + 1, Midpoint(s.start, s.end))
  BY NeighbourOwns DEF AIInv
<1>4. SameTimes(s, s) /\ SameTimes(t, s)
  BY DEF SameTimes
<1> QED
  BY <1>1, <1>2, <1>3, <1>4

\* Of any audio and whatever is recognised: the merge is in order, takes no speech
\* twice, and loses none that two windows have heard.
THEOREM Once == ASpec => []MergedOnce
<1>1. AIInv => MergedOnce
  <2> SUFFICES ASSUME AIInv PROVE MergedOnce
    OBVIOUS
  <2>1. CASE ~done
    <3>1. DOMAIN merged = {}
      BY <2>1 DEF AIInv, Result
    <3> QED
      BY <2>1, <3>1 DEF MergedOnce
  <2>2. CASE done
    <3>1. /\ Planned /\ Len(maps) = Len(windows) /\ Len(segments) = Len(windows)
          /\ DOMAIN merged \subseteq Nat
          /\ Contributions = {merged[n] : n \in DOMAIN merged}
          /\ \A m, n \in DOMAIN merged : m < n => merged[m].start <= merged[n].start
      BY <2>2 DEF AIInv, Result, Finished
    <3>2. ASSUME NEW m \in Contributions, NEW k \in Contributions, SameTimes(m, k)
          PROVE  m.window = k.window
      <4>1. PICK i \in DOMAIN maps : \E s \in Owned(i) :
              /\ m = MergedSegment(i, s) /\ i \in 1..Len(segments) /\ s \in Heard
              /\ s.start < s.end /\ s.end <= duration
        BY ContributionKnown DEF AIInv
      <4>2. PICK j \in DOMAIN maps : \E s \in Owned(j) :
              /\ k = MergedSegment(j, s) /\ j \in 1..Len(segments)
        BY ContributionKnown DEF AIInv
      <4>3. PICK s \in Owned(i) :
              /\ m = MergedSegment(i, s) /\ s \in Heard /\ s.start < s.end /\ s.end <= duration
        BY <4>1
      <4>4. PICK t \in Owned(j) : k = MergedSegment(j, t)
        BY <4>2
      <4>5. s.start = t.start /\ s.end = t.end /\ m.window = i /\ k.window = j
        BY <3>2, <4>3, <4>4 DEF SameTimes, MergedSegment
      <4>6. Owns(i, Midpoint(s.start, s.end)) /\ Owns(j, Midpoint(s.start, s.end))
        BY <4>5 DEF Owned, OwnedByCore
      <4>7. i \in 1..Len(windows) /\ j \in 1..Len(windows)
        BY <4>1, <4>2, <3>1
      <4>8. s.start \in Nat /\ s.end \in Nat
        BY <4>3 DEF Heard
      <4> QED
        BY <4>3, <4>5, <4>6, <4>7, <4>8, <3>1, OneWindow
    <3>3. \A m, n \in DOMAIN merged :
            SameTimes(merged[m], merged[n]) => merged[m].window = merged[n].window
      BY <3>1, <3>2
    <3> QED
      BY <3>1, <3>3, <2>2, OneIsMerged DEF MergedOnce
  <2> QED
    BY <2>1, <2>2
<1> QED
  BY <1>1, AInvariance, PTL

-----------------------------------------------------------------------------
(* Who is heard by both windows.                                           *)

\* Window i and the one before hear l and k at the same times, and nobody else then.
OnlyVoice(i, l, k) ==
  /\ Talk(i, i - 1, l) = Talk(i - 1, i, k)
  /\ Cardinality(Talk(i, i - 1, l)) >= MinAlignment
  /\ \A m \in Locals(i) \ {l} : Talk(i, i - 1, l) \cap Talk(i, i - 1, m) = {}
  /\ \A m \in Locals(i - 1) \ {k} : Talk(i, i - 1, l) \cap Talk(i - 1, i, m) = {}

LEMMA TalkIs ==
  ASSUME NEW i \in Nat
  PROVE  /\ \A l, t : t \in Talk(i, i - 1, l) <=>
              t \in In(Shared(i)) /\ \E s \in segments[i] : s.local = l /\ t \in In(s)
         /\ \A l, t : t \in Talk(i - 1, i, l) <=>
              t \in In(Shared(i)) /\ \E s \in segments[i - 1] : s.local = l /\ t \in In(s)
BY DEF Talk, LargerOf

\* Each instant of their talk counts once at least, and each of l's is one of k's.
LEMMA VoiceCounts ==
  ASSUME IInv, Ingested, NEW i \in 2..Len(segments), NEW l, NEW k,
         Talk(i, i - 1, l) = Talk(i - 1, i, k), NEW g, g = maps[i - 1][k]
  PROVE  /\ Cardinality(Talk(i, i - 1, l)) \in Nat
         /\ Cardinality(Talk(i, i - 1, l)) <= Matched(i, l, g)
         /\ Evidence(i, l) <= Matched(i, l, g)
<1> DEFINE T == Talk(i, i - 1, l)
           H == Hearings(i, l)
           A == Agreements(i, l, g)
           heard(t) == CHOOSE s \in segments[i] : s.local = l /\ t \in In(s)
           same(t) == CHOOSE u \in segments[i - 1] : u.local = k /\ t \in In(u)
           f == [t \in T |-> <<heard(t), same(t), t>>]
           h == [x \in H |-> <<x[1], same(x[2]), x[2]>>]
<1>0. i \in Nat
  BY DEF Ingested
<1>1. IsFiniteSet(A) /\ Matched(i, l, g) = Cardinality(A)
      /\ Evidence(i, l) = Cardinality(H)
  BY CountsFinite
<1>2. ASSUME NEW t \in T
      PROVE  /\ t \in In(Shared(i))
             /\ heard(t) \in segments[i] /\ heard(t).local = l /\ t \in In(heard(t))
             /\ same(t) \in segments[i - 1] /\ same(t).local = k /\ t \in In(same(t))
  <2>1. t \in In(Shared(i)) /\ \E s \in segments[i] : s.local = l /\ t \in In(s)
    BY <1>0, TalkIs
  <2>2. \E u \in segments[i - 1] : u.local = k /\ t \in In(u)
    BY <1>0, TalkIs
  <2> QED
    BY <2>1, <2>2
<1>3. \A x \in H : /\ x = <<x[1], x[2]>> /\ x[1] \in segments[i] /\ x[1].local = l
                   /\ x[2] \in In(x[1]) /\ x[2] \in T
  BY <1>0, TalkIs DEF Hearings
<1> HIDE DEF heard, same, T, H
<1>4. \A t \in T : <<heard(t), same(t), t>> \in A
  BY <1>2 DEF Agreements
<1>5. \A x \in H : <<x[1], same(x[2]), x[2]>> \in A
  BY <1>2, <1>3 DEF Agreements
<1>6. f \in [T -> A] /\ \A t, u \in T : f[t] = f[u] => t = u
  BY <1>4
<1>7. h \in [H -> A] /\ \A x, y \in H : h[x] = h[y] => x = y
  BY <1>3, <1>5
<1> HIDE DEF f, h, A
<1>8. Cardinality(T) <= Cardinality(A) /\ Cardinality(T) \in Nat
  BY <1>1, <1>6, Injects, FS_CardinalityType
<1>9. Cardinality(H) <= Cardinality(A)
  BY <1>1, <1>7, Injects
<1> QED
  BY <1>1, <1>8, <1>9 DEF T

\* A speaker whom a neighbour hears at the same times, and nobody else then, is
\* recognised, whatever numbers the recognisers give.
THEOREM VoiceFollowed == ASpec => []FollowsTheVoice
<1>1. AIInv => FollowsTheVoice
  <2> SUFFICES ASSUME AIInv, NEW i \in 2..Len(maps), NEW l \in Locals(i),
                      NEW k \in Locals(i - 1), OnlyVoice(i, l, k)
               PROVE  maps[i][l] = maps[i - 1][k]
    BY DEF FollowsTheVoice, OnlyVoice
  <2> DEFINE g == maps[i - 1][k]
             c == Candidate(i, l, g)
  <2>1. /\ IInv /\ Ingested /\ Mapped /\ StableMatching
        /\ Len(maps) \in Nat /\ Len(segments) \in Nat
        /\ i \in 2..Len(segments) /\ i \in Nat /\ i <= Len(maps) + 1
        /\ i \in 1..Len(maps) /\ i - 1 \in 1..Len(maps) /\ DOMAIN maps = 1..Len(maps)
    BY DEF AIInv, Mapped, Ingested
  <2>2. DOMAIN maps[i - 1] = Locals(i - 1) /\ Distinct(maps[i - 1])
    BY <2>1 DEF Mapped
  <2>3. /\ Cardinality(Talk(i, i - 1, l)) \in Nat
        /\ Cardinality(Talk(i, i - 1, l)) <= Matched(i, l, g)
        /\ Evidence(i, l) <= Matched(i, l, g)
        /\ Evidence(i, l) \in Nat /\ Matched(i, l, g) \in Nat
    BY <2>1, VoiceCounts, CountsFinite DEF OnlyVoice
  <2>4. /\ Matched(i, l, g) >= MinAlignment /\ Matched(i, l, g) > 0
        /\ 2 * Matched(i, l, g) >= Evidence(i, l)
    <3>1. Cardinality(Talk(i, i - 1, l)) >= MinAlignment
      BY DEF OnlyVoice
    <3> QED
      BY <2>3, <3>1, AlignmentAssumption
  <2>5. c \in Candidates(i) /\ Confident(c) /\ c.local = l /\ c.global = g
    <3>1. c.local = l /\ c.global = g /\ c.matched = Matched(i, l, g)
          /\ c.evidence = Evidence(i, l)
      BY DEF Candidate
    <3>2. g \in Range(maps[i - 1])
      BY <2>2 DEF Range
    <3>3. c \in {Candidate(i, p[1], p[2]) : p \in Locals(i) \X Range(maps[i - 1])}
      <4>1. <<l, g>> \in Locals(i) \X Range(maps[i - 1])
        BY <3>2
      <4> QED
        BY <4>1
    <3> HIDE DEF c
    <3>4. c \in Candidates(i)
      BY <2>4, <3>1, <3>3 DEF Candidates
    <3> QED
      BY <2>4, <3>1, <3>4 DEF Confident
  <2>6. ASSUME NEW d \in Candidates(i) PROVE (d.local = l) <=> (d.global = g)
    <3>1. d.local \in Locals(i) /\ Agreements(i, d.local, d.global) # {}
      BY <2>1, CandidateKnown
    <3>2. PICK h \in Agreements(i, d.local, d.global) : TRUE
      BY <3>1
    <3>3. /\ h[1] \in segments[i] /\ h[2] \in segments[i - 1] /\ h[3] \in In(Shared(i))
          /\ h[1].local = d.local /\ maps[i - 1][h[2].local] = d.global
          /\ h[3] \in In(h[1]) /\ h[3] \in In(h[2])
      BY <3>2 DEF Agreements
    <3>4. h[2].local \in Locals(i - 1)
      BY <3>3 DEF Locals
    <3>5. h[3] \in Talk(i, i - 1, d.local) /\ h[3] \in Talk(i - 1, i, h[2].local)
      BY <3>3, <2>1, TalkIs
    <3>6. d.local = l => h[2].local = k
      BY <3>4, <3>5 DEF OnlyVoice
    <3>7. d.global = g => h[2].local = k
      BY <3>3, <3>4, <2>2 DEF Distinct
    <3>8. h[2].local = k => d.local = l
      BY <3>1, <3>5 DEF OnlyVoice
    <3> QED
      BY <3>3, <3>6, <3>7, <3>8
  <2> QED
    BY <2>1, <2>5, <2>6 DEF StableMatching, Takes
<1> QED
  BY <1>1, AInvariance, PTL
=============================================================================
