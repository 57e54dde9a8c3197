--------------------------- MODULE FirehoseQueue ---------------------------
(***************************************************************************)
(* What tcp_thread promises of one direction of its links: a FIFO queue    *)
(* per link in which every ordinary packet is kept, and a droppable        *)
(* ("firehose") packet is refused exactly while an older droppable packet  *)
(* of the same topic is still waiting.  The code decides this with a set   *)
(* of topics kept beside the deque; here the queue itself is consulted, so *)
(* that the refinement in TcpThread shows the set to be an exact cache.    *)
(***************************************************************************)
EXTENDS Naturals, Sequences

CONSTANTS
  Links,      \* one queue for each
  Packet      \* records with (at least) a topic and a droppable flag

VARIABLES
  q,          \* the packets waiting on each link, oldest first
  offered     \* every packet that was offered to each link

(* A droppable packet of p's topic is waiting. *)
SameTopicWaits(s, p) ==
  \E k \in 1..Len(s) : s[k].droppable /\ s[k].topic = p.topic

Init == q = [l \in Links |-> <<>>] /\ offered = [l \in Links |-> {}]

Offer(l, p) ==
  /\ ~(p.droppable /\ SameTopicWaits(q[l], p))
  /\ q' = [q EXCEPT ![l] = Append(@, p)]
  /\ offered' = [offered EXCEPT ![l] = @ \cup {p}]

Refuse(l, p) ==
  /\ p.droppable /\ SameTopicWaits(q[l], p)
  /\ offered' = [offered EXCEPT ![l] = @ \cup {p}]
  /\ q' = q

Take(l) ==
  /\ q[l] # <<>>
  /\ q' = [q EXCEPT ![l] = Tail(@)]
  /\ offered' = offered

(* The link goes away and its buffer with it. *)
Discard(l) ==
  /\ q' = [q EXCEPT ![l] = <<>>]
  /\ offered' = [offered EXCEPT ![l] = {}]

Next ==
  \E l \in Links :
    \/ \E p \in Packet : Offer(l, p) \/ Refuse(l, p)
    \/ Take(l)
    \/ Discard(l)

Spec == Init /\ [][Next]_<<q, offered>>
=============================================================================
