---------------------------- MODULE ChunkingProofs ----------------------------
(***************************************************************************)
(* Proofs about Chunking, for audio, core windows and overlaps of any      *)
(* length.                                                                 *)
(***************************************************************************)
EXTENDS Chunking, TLAPS

\* The other fields of a window follow from its core's start as in Plan.
WellCut(win) ==
  /\ win.coreEnd = SmallerOf(duration, win.coreStart + CoreWindow)
  /\ win.renderStart = IF duration > CoreWindow
                       THEN LargerOf(0, win.coreStart - Overlap) ELSE win.coreStart
  /\ win.renderEnd = IF duration > CoreWindow
                     THEN SmallerOf(duration, win.coreEnd + Overlap) ELSE win.coreEnd

\* Each window is the one Plan makes for its core's start, starts where the
\* one before it ends, and the last one ends where the loop stands.
Chained ==
  /\ \A i \in 1..Len(windows) :
       /\ WellCut(windows[i])
       /\ 0 <= windows[i].coreStart
       /\ windows[i].coreStart < windows[i].coreEnd
       /\ windows[i].coreEnd <= SmallerOf(coreStart, duration)
       /\ i < Len(windows) => windows[i].coreEnd = windows[i + 1].coreStart
  /\ Len(windows) > 0 =>
       windows[Len(windows)].coreEnd = SmallerOf(coreStart, duration)
  /\ Len(windows) = 0 => coreStart = 0

IInv == TypeOK /\ Chained /\ CoresTile

USE DEF SmallerOf, LargerOf

\* The window that Plan makes for a start inside the audio.
LEMMA WindowMade ==
  ASSUME TypeOK, NEW start \in Nat, start < duration
  PROVE  /\ Window(start) \in Windows
         /\ WellCut(Window(start))
         /\ Window(start).coreStart = start
         /\ Window(start).coreEnd = SmallerOf(duration, start + CoreWindow)
         /\ start < Window(start).coreEnd
         /\ Window(start).coreEnd <= duration
BY ChunkingAssumption DEF Window, Windows, WellCut, TypeOK

LEMMA InitIInv == Init => IInv
BY ChunkingAssumption DEF Init, IInv, TypeOK, Chained, CoresTile

LEMMA CutIInv == IInv /\ Cut => IInv'
<1> SUFFICES ASSUME IInv, Cut PROVE IInv'
  OBVIOUS
<1> DEFINE n == Len(windows)
           w == Window(coreStart)
<1>1. /\ duration \in 1..MaxDuration /\ coreStart \in Nat /\ windows \in Seq(Windows)
      /\ coreStart < duration /\ duration' = duration
      /\ coreStart' = coreStart + CoreWindow /\ windows' = Append(windows, w)
      /\ CoreWindow \in Nat \ {0} /\ n \in Nat
  BY ChunkingAssumption DEF IInv, TypeOK, Cut
<1>2. /\ w \in Windows /\ WellCut(w) /\ w.coreStart = coreStart
      /\ w.coreEnd = SmallerOf(duration, coreStart + CoreWindow)
      /\ coreStart < w.coreEnd /\ w.coreEnd <= duration
  BY <1>1, WindowMade DEF IInv
<1>3. /\ Len(windows') = n + 1 /\ windows'[n + 1] = w
      /\ \A i \in 1..n : windows'[i] = windows[i] /\ windows[i] \in Windows
      /\ DOMAIN windows = 1..n /\ DOMAIN windows' = 1..(n + 1)
  BY <1>1, <1>2
<1>4. TypeOK'
  BY <1>1, <1>2 DEF TypeOK
<1>7. ASSUME NEW i \in 1..n
      PROVE  /\ windows'[i] = windows[i] /\ windows[i] \in Windows
             /\ windows[i].coreStart \in Int /\ windows[i].coreEnd \in Int
             /\ WellCut(windows[i])
             /\ 0 <= windows[i].coreStart
             /\ windows[i].coreStart < windows[i].coreEnd
             /\ windows[i].coreEnd <= SmallerOf(coreStart, duration)
             /\ i < n => windows[i].coreEnd = windows[i + 1].coreStart
  <2>1. Chained
    BY DEF IInv
  <2>2. windows[i].coreStart \in Int /\ windows[i].coreEnd \in Int
    BY <1>3 DEF Windows
  <2> QED
    BY <2>1, <2>2, <1>3 DEF Chained
<1>8. n > 0 => windows[n].coreEnd = coreStart
  BY <1>1 DEF IInv, Chained
<1>9. n = 0 => coreStart = 0
  BY DEF IInv, Chained
<1>5. Chained'
  <2>1. ASSUME NEW i \in 1..(n + 1), WellCut(windows'[i])
        PROVE  WellCut(windows[i])'
    BY <1>1, <2>1 DEF WellCut
  <2>2. ASSUME NEW i \in 1..(n + 1)
        PROVE  /\ WellCut(windows[i])'
               /\ 0 <= windows'[i].coreStart
               /\ windows'[i].coreStart < windows'[i].coreEnd
               /\ windows'[i].coreEnd <= SmallerOf(coreStart', duration')
               /\ i < n + 1 => windows'[i].coreEnd = windows'[i + 1].coreStart
    <3>1. CASE i = n + 1
      <4>1. windows'[i] = w
        BY <3>1, <1>3
      <4>2. WellCut(windows[i])'
        BY <4>1, <2>1, <1>2
      <4> QED
        BY <4>1, <4>2, <1>1, <1>2, <3>1
    <3>2. CASE i \in 1..n
      <4>1. WellCut(windows[i])'
        BY <3>2, <2>1, <1>7
      <4>2. windows'[i].coreEnd <= SmallerOf(coreStart', duration')
        BY <3>2, <1>1, <1>7
      <4>3. i < n + 1 => windows'[i].coreEnd = windows'[i + 1].coreStart
        <5>1. CASE i = n
          BY <5>1, <3>2, <1>1, <1>2, <1>3, <1>7, <1>8
        <5>2. CASE i < n
          <6>1. i + 1 \in 1..n
            BY <5>2, <3>2, <1>1
          <6>2. windows'[i + 1] = windows[i + 1]
            BY <6>1, <1>7
          <6> QED
            BY <5>2, <6>2, <3>2, <1>7
        <5> QED
          BY <5>1, <5>2, <3>2, <1>1
      <4> QED
        BY <4>1, <4>2, <4>3, <3>2, <1>7
    <3> QED
      BY <3>1, <3>2, <1>1
  <2>3. windows'[n + 1].coreEnd = SmallerOf(coreStart', duration')
    BY <1>1, <1>2, <1>3
  <2>4. Len(windows') = n + 1 /\ n + 1 > 0
    BY <1>1, <1>3
  <2> QED
    BY <2>2, <2>3, <2>4 DEF Chained
<1>6. CoresTile'
  <2> SUFFICES ASSUME NEW t \in 0..(SmallerOf(coreStart', duration') - 1)
               PROVE  \E i \in DOMAIN windows' :
                        /\ Owns(i, t)'
                        /\ \A k \in DOMAIN windows' : Owns(k, t)' => k = i
    BY DEF CoresTile
  <2>0. PICK new \in Nat : new = n + 1
    BY <1>1
  <2>1. Owns(new, t)' <=> coreStart <= t /\ t < w.coreEnd
    BY <2>0, <1>2, <1>3 DEF Owns
  <2>2. ASSUME NEW i \in 1..n
        PROVE  Owns(i, t)' <=> Owns(i, t)
    BY <1>7 DEF Owns
  <2>3. t \in Int /\ 0 <= t /\ t < SmallerOf(coreStart + CoreWindow, duration)
    BY <1>1
  <2>4. CASE t < coreStart
    <3>1. t \in 0..(SmallerOf(coreStart, duration) - 1)
      BY <2>3, <2>4, <1>1
    <3>2. PICK i \in 1..n : Owns(i, t) /\ \A k \in 1..n : Owns(k, t) => k = i
      BY <3>1, <1>3 DEF IInv, CoresTile
    <3>3. Owns(i, t)' /\ ~ Owns(new, t)'
      BY <3>2, <2>1, <2>2, <2>3, <2>4, <1>1
    <3>4. \A k \in 1..(n + 1) : k \in 1..n \/ k = new
      BY <2>0, <1>1
    <3>5. ASSUME NEW k \in 1..(n + 1), Owns(k, t)' PROVE k = i
      BY <3>2, <3>3, <3>4, <3>5, <2>2
    <3> QED
      BY <3>2, <3>3, <3>5, <1>1, <1>3
  <2>5. CASE coreStart <= t
    <3>1. Owns(new, t)'
      BY <1>1, <1>2, <2>1, <2>3, <2>5
    <3>2. ASSUME NEW k \in 1..n PROVE ~ Owns(k, t)'
      <4>1. windows[k].coreEnd <= coreStart
        BY <1>1, <1>7
      <4>2. ~ Owns(k, t)
        BY <4>1, <1>1, <1>7, <2>3, <2>5 DEF Owns
      <4> QED
        BY <4>2, <2>2
    <3>3. \A k \in 1..(n + 1) : k \in 1..n \/ k = new
      BY <2>0, <1>1
    <3> QED
      BY <3>1, <3>2, <3>3, <2>0, <1>1, <1>3
  <2> QED
    BY <2>3, <2>4, <2>5, <1>1
<1> QED
  BY <1>4, <1>5, <1>6 DEF IInv

LEMMA StutterIInv == IInv /\ UNCHANGED vars => IInv'
BY DEF IInv, TypeOK, Chained, CoresTile, Owns, WellCut, vars

\* The inductive invariant holds of every reachable state of Plan's loop.
THEOREM Invariance == Spec => []IInv
<1>1. IInv /\ [Cut]_vars => IInv'
  BY CutIInv, StutterIInv
<1> QED
  BY InitIInv, <1>1, PTL DEF Spec

\* Plan's loop keeps to its types.
THEOREM TypeCorrect == Spec => []TypeOK
<1>1. IInv => TypeOK
  BY DEF IInv
<1> QED
  BY Invariance, <1>1, PTL

\* The cores cut so far tile the audio cut so far, whatever its length.
THEOREM Tiling == Spec => []CoresTile
<1>1. IInv => CoresTile
  BY DEF IInv
<1> QED
  BY Invariance, <1>1, PTL

LEMMA MidpointInside ==
  ASSUME NEW s \in Nat, NEW e \in Nat, s < e
  PROVE  Midpoint(s, e) \in Nat /\ s <= Midpoint(s, e) /\ Midpoint(s, e) < e
BY DEF Midpoint

\* Each segment of speech, however it lies across boundaries, is owned by
\* exactly one window: ownedByCore neither repeats nor drops speech.
THEOREM OneOwner == Spec => []SegmentsOwnedOnce
<1>1. IInv => SegmentsOwnedOnce
  <2> SUFFICES ASSUME IInv, Planned,
                      NEW s \in 0..(duration - 1), NEW e \in (s + 1)..duration
               PROVE  \E i \in DOMAIN windows :
                        /\ Owns(i, Midpoint(s, e))
                        /\ \A k \in DOMAIN windows : Owns(k, Midpoint(s, e)) => k = i
    BY DEF SegmentsOwnedOnce
  <2>1. duration \in Nat /\ coreStart \in Nat /\ coreStart >= duration
    BY ChunkingAssumption DEF IInv, TypeOK, Planned
  <2>2. Midpoint(s, e) \in 0..(SmallerOf(coreStart, duration) - 1)
    BY <2>1, MidpointInside
  <2> QED
    BY <2>2 DEF IInv, CoresTile
<1> QED
  BY Invariance, <1>1, PTL

\* What ffmpeg is asked to render is a non-empty part of the audio that
\* contains the core.
THEOREM Rendering == Spec => []RendersCore
<1>1. IInv => RendersCore
  <2> SUFFICES ASSUME IInv, NEW i \in DOMAIN windows
               PROVE  /\ 0 <= windows[i].renderStart /\ windows[i].renderEnd <= duration
                      /\ windows[i].coreStart < windows[i].coreEnd
                      /\ windows[i].renderStart <= windows[i].coreStart
                      /\ windows[i].coreEnd <= windows[i].renderEnd
    BY DEF RendersCore
  <2>1. /\ i \in 1..Len(windows) /\ windows[i] \in Windows
        /\ duration \in Nat /\ coreStart \in Nat
    BY ChunkingAssumption DEF IInv, TypeOK
  <2>2. /\ WellCut(windows[i])
        /\ 0 <= windows[i].coreStart
        /\ windows[i].coreStart < windows[i].coreEnd
        /\ windows[i].coreEnd <= duration
        /\ windows[i].coreStart \in Int /\ windows[i].coreEnd \in Int
    BY <2>1 DEF IInv, Chained, Windows
  <2> QED
    BY <2>1, <2>2, ChunkingAssumption DEF WellCut
<1> QED
  BY Invariance, <1>1, PTL

LEMMA OverlapHolds == IInv => NeighboursOverlap
<1> SUFFICES ASSUME IInv, NEW i \in DOMAIN windows, i + 1 \in DOMAIN windows
             PROVE  /\ windows[i + 1].coreStart = windows[i].coreEnd
                    /\ windows[i + 1].renderStart = windows[i].coreEnd - Overlap
                    /\ windows[i].renderEnd =
                         SmallerOf(duration, windows[i].coreEnd + Overlap)
  BY DEF NeighboursOverlap
<1>1. /\ i \in 1..Len(windows) /\ i + 1 \in 1..Len(windows) /\ i < Len(windows)
      /\ windows[i] \in Windows /\ windows[i + 1] \in Windows
      /\ duration \in Nat /\ coreStart \in Nat
  BY ChunkingAssumption DEF IInv, TypeOK
<1>2. /\ WellCut(windows[i]) /\ WellCut(windows[i + 1])
      /\ 0 <= windows[i].coreStart
      /\ windows[i].coreEnd = windows[i + 1].coreStart
      /\ windows[i + 1].coreStart < windows[i + 1].coreEnd
      /\ windows[i + 1].coreEnd <= duration
      /\ windows[i].coreStart \in Int /\ windows[i].coreEnd \in Int
      /\ windows[i + 1].coreEnd \in Int
  <2>1. /\ windows[i].coreStart \in Int /\ windows[i].coreEnd \in Int
        /\ windows[i + 1].coreEnd \in Int
    BY <1>1 DEF Windows
  <2>2. Chained
    BY DEF IInv
  <2>3. /\ WellCut(windows[i]) /\ 0 <= windows[i].coreStart
        /\ windows[i].coreEnd = windows[i + 1].coreStart
    BY <2>2, <1>1 DEF Chained
  <2>4. /\ WellCut(windows[i + 1])
        /\ windows[i + 1].coreStart < windows[i + 1].coreEnd
        /\ windows[i + 1].coreEnd <= SmallerOf(coreStart, duration)
    BY <2>2, <1>1 DEF Chained
  <2> QED
    BY <2>1, <2>3, <2>4, <1>1
<1>3. /\ windows[i].coreEnd = windows[i].coreStart + CoreWindow
      /\ duration > CoreWindow
  BY <1>1, <1>2, ChunkingAssumption DEF WellCut
<1>4. windows[i].renderEnd = SmallerOf(duration, windows[i].coreEnd + Overlap)
  BY <1>2, <1>3 DEF WellCut
<1>5. windows[i + 1].renderStart = windows[i].coreEnd - Overlap
  BY <1>1, <1>2, <1>3, ChunkingAssumption DEF WellCut
<1> QED
  BY <1>2, <1>4, <1>5

\* Neighbouring renders overlap on both sides of the boundary, as far as the
\* audio goes.
THEOREM Overlapping == Spec => []NeighboursOverlap
BY Invariance, OverlapHolds, PTL
=============================================================================
