------------------------- MODULE MCMemoryAdmission -------------------------
(***************************************************************************)
(* MemoryAdmission on small sets of calls and files.                       *)
(***************************************************************************)
EXTENDS MemoryAdmission, TLC

CallSymmetry == Permutations(Calls)

\* The first contents are below the 64 MiB floor, the second above it.
MCFileMb ==
  LET growing == CHOOSE f \in Files : TRUE
  IN  [k \in Key |-> IF k[2] = 1 THEN 2 ELSE IF k[1] = growing THEN 40 ELSE 20]
=============================================================================
