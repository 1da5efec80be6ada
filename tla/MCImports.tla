------------------------------ MODULE MCImports ------------------------------
(* Model of Imports for TLC: a feed, and a direct link to its audio whose  *)
(* address changes between two answers of the resolver.                    *)
EXTENDS Imports, TLC

CONSTANTS feed, link

Audio1 == 1
Audio2 == 2
Rss    == 3

Keys    == {Audio1, Audio2, Rss}
Answers == (feed :> {<<Rss, Audio1>>}) @@ (link :> {<<Audio1>>, <<Audio2>>})

Interchangeable == Permutations(Worker)
=============================================================================
