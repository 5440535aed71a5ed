---------------------------- MODULE MCPosixIdPool ----------------------------
(****************************************************************************)
(* An instance of PosixIdPool for TLC: a user with two accounts and a        *)
(* project group.  A number of the GID range may be cut off, given to the    *)
(* override pool or to the range for groups, and taken back.                *)
(****************************************************************************)
EXTENDS PosixIdPool, TLC

CONSTANTS u1, g1, w1, w2

OneUser == {u1}
OneGroup == {g1}
TwoWorkers == {w1, w2}
Workers == Permutations(TwoWorkers)

Edit(r, lo, hi) == [r |-> r, lo |-> lo, hi |-> hi]
Moves ==
    {Edit("gid", 1, 2), Edit("gid", 2, 2), Edit("group_gid", 1, 1),
     Edit("override_gid", 1, 1)}
================================================================================
