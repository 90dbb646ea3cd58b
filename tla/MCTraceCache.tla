---------------------------- MODULE MCTraceCache ----------------------------
(***************************************************************************)
(* TraceCache with a few calls.                                            *)
(***************************************************************************)
EXTENDS TraceCache

CacheSymmetry == Permutations(Calls)
=============================================================================
