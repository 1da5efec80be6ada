------------------------------- MODULE Chunking -------------------------------
(***************************************************************************)
(* How the audio is cut into windows (domain.Plan), and which window owns  *)
(* a segment of speech when the windows' transcripts are merged            *)
(* (ownedByCore, used by Merge and SpeakersFromChunks).                    *)
(*                                                                         *)
(* The loop of Plan is a state machine, one action per iteration, so that  *)
(* its result can be proved about by an invariant for audio of any length. *)
(* A definition whose name ends in _<mistake> is the one of that name with *)
(* a mistake in it, for TLC to refute a property with.                     *)
(***************************************************************************)
EXTENDS Integers, Sequences

CONSTANTS CoreWindow,   \* CoreWindowMS
          Overlap,      \* OverlapMS
          MaxDuration   \* bound: the longest audio considered

ASSUME ChunkingAssumption ==
  /\ CoreWindow \in Nat \ {0}
  /\ Overlap \in 0..CoreWindow
  /\ MaxDuration \in Nat

VARIABLES duration,    \* durationMS
          coreStart,   \* the loop variable
          windows      \* the windows appended so far

vars == <<duration, coreStart, windows>>

SmallerOf(a, b) == IF a < b THEN a ELSE b
LargerOf(a, b)  == IF a < b THEN b ELSE a

Windows == [coreStart : Int, coreEnd : Int, renderStart : Int, renderEnd : Int]

TypeOK ==
  /\ duration \in 1..MaxDuration
  /\ coreStart \in Nat
  /\ windows \in Seq(Windows)

Init_AcceptsZero ==
  /\ duration \in 0..MaxDuration
  /\ coreStart = 0
  /\ windows = <<>>

\* Plan refuses a duration that is not positive.
Init ==
  /\ duration \in 1..MaxDuration
  /\ coreStart = 0
  /\ windows = <<>>

Window_OverlapsAtEndOnly(start) ==
  LET end == SmallerOf(duration, start + CoreWindow) IN
  [coreStart   |-> start,
   coreEnd     |-> end,
   renderStart |-> start,
   renderEnd   |-> IF duration > CoreWindow THEN SmallerOf(duration, end + Overlap) ELSE end]

Window_UnclampedEnd(start) ==
  LET end == start + CoreWindow IN
  [coreStart   |-> start,
   coreEnd     |-> end,
   renderStart |-> IF duration > CoreWindow THEN LargerOf(0, start - Overlap) ELSE start,
   renderEnd   |-> IF duration > CoreWindow THEN SmallerOf(duration, end + Overlap) ELSE end]

Window_InclusiveCore(start) ==
  LET end == SmallerOf(duration, start + CoreWindow + 1) IN
  [coreStart   |-> start,
   coreEnd     |-> end,
   renderStart |-> IF duration > CoreWindow THEN LargerOf(0, start - Overlap) ELSE start,
   renderEnd   |-> IF duration > CoreWindow THEN SmallerOf(duration, end + Overlap) ELSE end]

\* The window whose core starts at start.  Audio that fits in one core is
\* rendered without overlap.
Window(start) ==
  LET end == SmallerOf(duration, start + CoreWindow) IN
  [coreStart   |-> start,
   coreEnd     |-> end,
   renderStart |-> IF duration > CoreWindow THEN LargerOf(0, start - Overlap) ELSE start,
   renderEnd   |-> IF duration > CoreWindow THEN SmallerOf(duration, end + Overlap) ELSE end]

\* One iteration of the loop.
Cut ==
  /\ coreStart < duration
  /\ windows' = Append(windows, Window(coreStart))
  /\ coreStart' = coreStart + CoreWindow
  /\ UNCHANGED duration

Spec == Init /\ [][Cut]_vars

-----------------------------------------------------------------------------
Planned == coreStart >= duration

Midpoint_RoundedUp(s, e) == s + (e - s + 1) \div 2

\* The instant that decides who owns a segment: the division of int64 by 2.
Midpoint(s, e) == s + (e - s) \div 2

\* The core of window i contains the instant t: ownedByCore of a segment
\* whose midpoint is t.
Owns(i, t) == windows[i].coreStart <= t /\ t < windows[i].coreEnd

\* What has been cut is tiled by the cores: each instant is in exactly one.
CoresTile ==
  \A t \in 0..(SmallerOf(coreStart, duration) - 1) :
    \E i \in DOMAIN windows :
      Owns(i, t) /\ \A k \in DOMAIN windows : Owns(k, t) => k = i

\* Once the audio is cut, each segment of speech ToEpisodeTime lets through
\* belongs to exactly one window: no speech near a boundary is transcribed
\* twice by the merge, and none is dropped by both neighbours.
SegmentsOwnedOnce ==
  Planned =>
    \A s \in 0..(duration - 1) : \A e \in (s + 1)..duration :
      \E i \in DOMAIN windows :
        /\ Owns(i, Midpoint(s, e))
        /\ \A k \in DOMAIN windows : Owns(k, Midpoint(s, e)) => k = i

\* What is rendered for a window is a non-empty part of the audio (ffmpeg is
\* never asked for an empty or an impossible interval) that contains its core.
RendersCore ==
  \A i \in DOMAIN windows :
    /\ 0 <= windows[i].renderStart /\ windows[i].renderEnd <= duration
    /\ windows[i].coreStart < windows[i].coreEnd
    /\ windows[i].renderStart <= windows[i].coreStart
    /\ windows[i].coreEnd <= windows[i].renderEnd

\* The renders of neighbours share at least Overlap before the boundary of
\* their cores, and as much behind it unless the audio ends: Align always has
\* common speech to recognise the speakers of a window by.
NeighboursOverlap ==
  \A i \in DOMAIN windows : i + 1 \in DOMAIN windows =>
    LET boundary == windows[i].coreEnd IN
    /\ windows[i + 1].coreStart = boundary
    /\ windows[i + 1].renderStart = boundary - Overlap
    /\ windows[i].renderEnd = SmallerOf(duration, boundary + Overlap)
=============================================================================
