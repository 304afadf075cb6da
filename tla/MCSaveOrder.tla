---------------------------- MODULE MCSaveOrder ----------------------------
(***************************************************************************)
(* Small instances of SaveOrder.  The environment is switched on part by   *)
(* part through Features, so that each configuration stays small.          *)
(***************************************************************************)
EXTENDS SaveOrder, TLC

CONSTANTS j1, j2, c1, c2

\* Tasks are interchangeable, and so are connections.
TaskSymmetry == Permutations(Jobs) \cup Permutations(Conns)
=============================================================================
