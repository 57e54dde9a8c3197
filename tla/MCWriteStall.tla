---------------------------- MODULE MCWriteStall ----------------------------
(* An instance of WriteStall for TLC: three nodes in a triangle, of which  *)
(* a is nobody's server and b has not accepted a's connection yet.         *)
EXTENDS WriteStall, TLC

CONSTANTS a, b, c

Triangle == {<<a, b>>, <<b, c>>, <<a, c>>}
NotYet   == {<<a, b>>}

(* Once round the triangle each connection is full at the start, and one   *)
(* packet more is sent; b's user asks c's link for packets as he spins.    *)
Ring       == {<<a, b>>, <<b, c>>, <<c, a>>}
MCUnread   == [w \in Ways |-> IF w \in Ring THEN 1 ELSE 0]
MCMaxSends == [w \in Ways |-> IF w \in Ring THEN 1 ELSE 0]
MCAsks     == {<<b, c>>}
=============================================================================
