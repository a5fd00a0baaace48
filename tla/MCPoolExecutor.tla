--------------------------- MODULE MCPoolExecutor ---------------------------
(* More threads than can be busy at once, and more requests than threads.  *)
EXTENDS PoolExecutor
=============================================================================
