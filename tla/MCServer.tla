------------------------------ MODULE MCServer ------------------------------
(* A small instance of Server, given by its cfg: with one worker, one slot    *)
(* and a queue of one, three requests meet every limit.                       *)
EXTENDS Server
=============================================================================
