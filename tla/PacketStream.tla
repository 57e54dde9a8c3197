---------------------------- MODULE PacketStream ----------------------------
(***************************************************************************)
(* What a transport promises of one connection: in each direction the      *)
(* packets that were handed to the output channel come out of the input    *)
(* channel at the other end, whole, in order, none skipped and none twice. *)
(* It does not promise that all of them come out: a connection may end.    *)
(***************************************************************************)
EXTENDS Naturals, Sequences

CONSTANTS
  End,        \* the ends of the connection
  Packet      \* what is sent

VARIABLES
  handed,     \* what each end has handed to its output channel
  got         \* what came out at the other end of it

Init == handed = [e \in End |-> <<>>] /\ got = [e \in End |-> <<>>]

Hand(e, p) ==
  /\ handed' = [handed EXCEPT ![e] = Append(@, p)]
  /\ got' = got

Take(e) ==
  /\ Len(got[e]) < Len(handed[e])
  /\ got' = [got EXCEPT ![e] = Append(@, handed[e][Len(@) + 1])]
  /\ handed' = handed

Next == \E e \in End : Take(e) \/ \E p \in Packet : Hand(e, p)

Spec == Init /\ [][Next]_<<handed, got>>
=============================================================================
