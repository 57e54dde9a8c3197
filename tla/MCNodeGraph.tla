---------------------------- MODULE MCNodeGraph ----------------------------
(* Instances of NodeGraph for TLC. *)
EXTENDS NodeGraph, TLC

CONSTANTS a, b, c, d, t

None     == {}
EdgeAB   == {<<a, b>>}
EdgeBC   == {<<b, c>>}
EdgeDB   == {<<d, b>>}
ChainABC == {<<a, b>>, <<b, c>>}
StarB    == {<<a, b>>, <<c, b>>}
Triangle == {<<a, b>>, <<b, c>>, <<a, c>>}

OnlyB == {<<b, t>>}
=============================================================================
