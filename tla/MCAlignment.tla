----------------------------- MODULE MCAlignment -----------------------------
(* Model of Chunking and Alignment for TLC: audio of every length up to    *)
(* ten core windows and a half is cut, and that of one, two and three      *)
(* windows transcribed.                                                    *)
EXTENDS Alignment

Voices == {1, 2}

\* Relative to the render of the window; the last one may end behind the audio.
Intervals == {<<0, 2>>, <<1, 3>>, <<2, 4>>, <<2, 6>>, <<4, 7>>}

Raw(l, n, t) == [local |-> l, seq |-> n, start |-> t[1], end |-> t[2]]

One == {{Raw(l, 1, t)} : l \in Voices, t \in Intervals}
Two == {{Raw(1, 1, t), Raw(k, 2, u)} : k \in Voices, t, u \in Intervals}

Recognitions == <<Two, Two, One>>
=============================================================================
