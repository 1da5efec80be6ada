--------------------------- MODULE MCTranscription ---------------------------
(* Model of Transcription for TLC: the chunks are interchangeable, and so  *)
(* are the runners.                                                        *)
EXTENDS Transcription, TLC

Interchangeable == Permutations(Chunks) \cup Permutations(Runners)

\* No job has been claimed and nothing has gone wrong yet: states of Spec from
\* which a part of the pipeline can be explored with more chunks or faults.
\* That one fault has happened before, and left no trace, leaves one less.
Undisturbed ==
  /\ tasked = {} /\ resulted = {} /\ cleaned = {}
  /\ completed = 0 /\ versions = 0
  /\ doing = [r \in Runners |-> NoJob]
  /\ step = [r \in Runners |-> "idle"]
  /\ last = [r \in Runners |-> FALSE]
  /\ asr = [c \in Chunks |-> "none"]
  /\ accepted = [c \in Chunks |-> 0]

JobOfEachChunk(kind) ==
  jobs = [id \in [kind : {kind}, of : Chunks, copy : {0}] |-> [tries |-> 0, by |-> Nobody]]

\* The chunks are planned, and the source is deleted.
InitPlanned ==
  /\ Undisturbed
  /\ run = "transcribing" /\ chunk = [c \in Chunks |-> "planned"]
  /\ keys = {"source", "prepared"} /\ objects = {"prepared"}
  /\ JobOfEachChunk("render")

\* The chunks are rendered, and the prepared audio is deleted.
InitRendered ==
  /\ Undisturbed
  /\ run = "transcribing" /\ chunk = [c \in Chunks |-> "ready"]
  /\ keys = Objects /\ objects = Chunks
  /\ JobOfEachChunk("submit")

\* No fault has happened yet.
InitUntroubled == InitPlanned /\ trouble = 0

FairPlanned == InitUntroubled /\ [][Next]_vars /\ Fairness

\* One fault while the chunks are rendered, or two from there on.
InitParallel ==
  \/ InitPlanned /\ trouble = 1
  \/ InitRendered /\ trouble = 0

SpecParallel == InitParallel /\ [][Next]_vars
=============================================================================
