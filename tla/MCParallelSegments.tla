------------------------- MODULE MCParallelSegments -------------------------
(* Instance of ParallelSegments: frames that fill a segment with their text, *)
(* frames that share one, and frames with nothing but a vector.              *)
EXTENDS ParallelSegments

FramesAll ==
  {[tokens |-> 2, text |-> TRUE, vector |-> TRUE],
   [tokens |-> 1, text |-> TRUE, vector |-> FALSE],
   [tokens |-> 1, text |-> FALSE, vector |-> TRUE]}
=============================================================================
