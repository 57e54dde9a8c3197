----------------------------- MODULE WriteStall -----------------------------
(***************************************************************************)
(* Who waits for whom in a network of nodes.  Each node has one network    *)
(* thread for all its links, which visits them in turn under _mut          *)
(* (tcp_thread::run), and a user thread, whose calls need _mut or the      *)
(* mutex of one link's buffer.  A write to a full connection does not      *)
(* return (tcp_output_channel::write), and while it lasts the thread reads *)
(* from nobody.                                                            *)
(*                                                                         *)
(* Packets are counted, and a connection holds Capacity of them.  All      *)
(* nodes live on: a write to one that has ended returns (TcpChannel).      *)
(***************************************************************************)
EXTENDS Naturals

CONSTANTS
  Node,
  Linked,     \* the connections, <<client, server>>
  Backlog,    \* those of them that the server has still to accept
  Capacity,   \* packets a connection holds in one direction
  ReadBatch,  \* packets read from one link in one pass (100 in the code)
  Unread,     \* packets of each way that are not read at the start
  MaxSends,   \* bound: packets of each way that are offered
  Asks        \* bound: the ways for which a user who spins calls next

(* The two directions of the connections. *)
Ways == Linked \cup {<<k[2], k[1]>> : k \in Linked}

ASSUME StallAssumption ==
  /\ Linked \subseteq Node \X Node /\ Backlog \subseteq Linked
  /\ \A n \in Node : <<n, n>> \notin Linked
  /\ Capacity \in Nat \ {0} /\ ReadBatch \in Nat \ {0}
  /\ Unread \in [Ways -> 0..Capacity]
  /\ MaxSends \in [Ways -> Nat]
  /\ Asks \subseteq Ways

VARIABLES
  watched,  \* _buffers' keys: the peers of a node whose links are visited
  out,      \* packets of a way's out queue that are not written yet
  wire,     \* packets of a way that are written and not read
  sends,    \* packets offered on a way
  pc,       \* a node's network thread: "sleep", "write" or "read"
  todo,     \* peers it visits after this one in this pass
  cur,      \* the peer it visits
  ri,       \* packets it has read there
  call      \* what its user thread has called, and for which peer

threadVars == <<pc, todo, cur, ri>>
vars == <<watched, out, wire, sends, threadVars, call>>

NoCall(n) == <<"none", n>>

Init ==
  /\ watched = [n \in Node |-> {m \in Node : <<n, m>> \in Ways /\ <<m, n>> \notin Backlog}]
  /\ out = [w \in Ways |-> 0]
  /\ wire = Unread
  /\ sends = [w \in Ways |-> 0]
  /\ pc = [n \in Node |-> "sleep"]
  /\ todo = [n \in Node |-> {}]
  /\ cur = [n \in Node |-> n]
  /\ ri = [n \in Node |-> 0]
  /\ call = [n \in Node |-> NoCall(n)]

-----------------------------------------------------------------------------
(* The network thread. *)

(* The link to m is visited, and rest are left.  Where nothing waits to be *)
(* written the buffer's mutex is not held for any time. *)
Turn(n, m, rest) ==
  /\ cur' = [cur EXCEPT ![n] = m]
  /\ todo' = [todo EXCEPT ![n] = rest \ {m}]
  /\ pc' = [pc EXCEPT ![n] = IF out[<<n, m>>] > 0 THEN "write" ELSE "read"]
  /\ ri' = [ri EXCEPT ![n] = 0]

(* A mutant: links with nothing to write are left out. *)
ToVisitOnlyQueued(n) == {m \in watched[n] : out[<<n, m>>] > 0}

(* The links a pass goes over: all. *)
ToVisit(n) == watched[n]

(* _mut is locked and a pass begins; with no links it ends at once. *)
StartPass(n) ==
  /\ pc[n] = "sleep"
  /\ \E m \in ToVisit(n) : Turn(n, m, ToVisit(n))
  /\ UNCHANGED <<watched, out, wire, sends, call>>

ToCur(n)   == <<n, cur[n]>>
FromCur(n) == <<cur[n], n>>

(* send() does not fail with EAGAIN. *)
HasRoom(w) == wire[w] < Capacity

(* One packet is written: the loop of tcp_output_channel::write turns      *)
(* until there is room. *)
WriteOne(n) ==
  /\ pc[n] = "write" /\ out[ToCur(n)] > 0
  /\ HasRoom(ToCur(n))
  /\ wire' = [wire EXCEPT ![ToCur(n)] = @ + 1]
  /\ out' = [out EXCEPT ![ToCur(n)] = @ - 1]
  /\ UNCHANGED <<watched, sends, threadVars, call>>

(* A mutant: a write that finds no room is given up. *)
WrittenOrFull(n) == out[ToCur(n)] = 0 \/ ~HasRoom(ToCur(n))

Written(n) == out[ToCur(n)] = 0

(* The out queue is cleared and its mutex released. *)
EndWrite(n) ==
  /\ pc[n] = "write" /\ Written(n)
  /\ out' = [out EXCEPT ![ToCur(n)] = 0]
  /\ pc' = [pc EXCEPT ![n] = "read"]
  /\ UNCHANGED <<watched, wire, sends, todo, cur, ri, call>>

(* A mutant: one packet too many. *)
InBatchOneMore(n) == ri[n] <= ReadBatch

InBatch(n) == ri[n] < ReadBatch

ReadOne(n) ==
  /\ pc[n] = "read" /\ InBatch(n)
  /\ wire[FromCur(n)] > 0
  /\ wire' = [wire EXCEPT ![FromCur(n)] = @ - 1]
  /\ ri' = [ri EXCEPT ![n] = @ + 1]
  /\ UNCHANGED <<watched, out, sends, pc, todo, cur, call>>

(* The batch is full or there is nothing more: the next link's turn, or    *)
(* the end of the pass, which releases _mut. *)
EndVisit(n) ==
  /\ pc[n] = "read"
  /\ ~InBatch(n) \/ wire[FromCur(n)] = 0
  /\ \/ \E m \in todo[n] : Turn(n, m, todo[n])
     \/ /\ todo[n] = {}
        /\ pc' = [pc EXCEPT ![n] = "sleep"]
        /\ cur' = [cur EXCEPT ![n] = n]
        /\ ri' = [ri EXCEPT ![n] = 0]
        /\ UNCHANGED todo
  /\ UNCHANGED <<watched, out, wire, sends, call>>

NetworkThread(n) ==
  StartPass(n) \/ WriteOne(n) \/ EndWrite(n) \/ ReadOne(n) \/ EndVisit(n)

-----------------------------------------------------------------------------
(* The user thread. *)

HoldsMut(n) == pc[n] # "sleep"
HoldsBuffer(n, m) == pc[n] = "write" /\ cur[n] = m

(* The lock that the call of n's user needs is held by n's network thread: *)
(* next locks the buffer, add_socket the map. *)
Locked(n) ==
  \/ call[n][1] = "next" /\ HoldsBuffer(n, call[n][2])
  \/ call[n][1] = "add" /\ HoldsMut(n)

UserIsFree(n) == call[n] = NoCall(n)

(* send() takes the buffer's mutex.  That the user waits for it is left to *)
(* next(), which takes the same. *)
Send(n, m) ==
  /\ UserIsFree(n)
  /\ m \in watched[n] /\ sends[<<n, m>>] < MaxSends[<<n, m>>]
  /\ ~HoldsBuffer(n, m)
  /\ out' = [out EXCEPT ![<<n, m>>] = @ + 1]
  /\ sends' = [sends EXCEPT ![<<n, m>>] = @ + 1]
  /\ UNCHANGED <<watched, wire, threadVars, call>>

Call(n, name, m) ==
  /\ UserIsFree(n)
  /\ call' = [call EXCEPT ![n] = <<name, m>>]
  /\ UNCHANGED <<watched, out, wire, sends, threadVars>>

(* A spin asks every link for what has come in, ... *)
CallNext(n, m) ==
  /\ m \in watched[n] /\ <<n, m>> \in Asks
  /\ Call(n, "next", m)

(* ... and it is the server's turn: it accepts a connection. *)
CallAdd(n, m) ==
  /\ <<m, n>> \in Backlog /\ m \notin watched[n]
  /\ Call(n, "add", m)

(* The call gets its lock and returns. *)
EndCall(n) ==
  /\ ~UserIsFree(n) /\ ~Locked(n)
  /\ watched' = [watched EXCEPT ![n] = IF call[n][1] = "add" THEN @ \cup {call[n][2]} ELSE @]
  /\ call' = [call EXCEPT ![n] = NoCall(n)]
  /\ UNCHANGED <<out, wire, sends, threadVars>>

UserThread(n) ==
  \/ \E m \in Node : Send(n, m) \/ CallNext(n, m) \/ CallAdd(n, m)
  \/ EndCall(n)

Next == \E n \in Node : NetworkThread(n) \/ UserThread(n)

Spec == Init /\ [][Next]_vars

(* Every network thread runs.  The users spin again and again, which       *)
(* brings the server its turn, and get a mutex that is free time and       *)
(* again.  Nothing is assumed of when a link is visited. *)
Fairness ==
  /\ \A n \in Node : WF_vars(NetworkThread(n)) /\ SF_vars(EndCall(n))
  /\ \A k \in Backlog : SF_vars(CallAdd(k[2], k[1]))

FairSpec == Spec /\ Fairness

-----------------------------------------------------------------------------
TypeOK ==
  /\ watched \in [Node -> SUBSET Node]
  /\ out \in [Ways -> Nat]
  /\ wire \in [Ways -> 0..Capacity]
  /\ sends \in [Ways -> Nat]
  /\ pc \in [Node -> {"sleep", "write", "read"}]
  /\ todo \in [Node -> SUBSET Node]
  /\ cur \in [Node -> Node]
  /\ \A n \in Node : \A m \in watched[n] : <<n, m>> \in Ways
  /\ \A n \in Node : pc[n] # "sleep" => cur[n] \in watched[n] /\ todo[n] \subseteq watched[n]
  /\ ri \in [Node -> 0..ReadBatch]
  /\ call \in [Node -> {"none", "next", "add"} \X Node]
  /\ \A n \in Node : call[n][1] = "add" => <<call[n][2], n>> \in Backlog

Threads == {"network", "user"} \X Node

(* The busy loop of write turns idly. *)
Stalled(n) == pc[n] = "write" /\ out[ToCur(n)] > 0 /\ ~HasRoom(ToCur(n))

(* A thread that cannot go on, and the one thread that can help it: a      *)
(* stalled write is ended by the network thread of the peer, or where that *)
(* has not accepted the connection, by the user who does; a call waits for *)
(* the lock that the node's own network thread holds. *)
Blocked(th) == IF th[1] = "network" THEN Stalled(th[2]) ELSE Locked(th[2])

WaitsFor(th) ==
  LET n == th[2] IN
  IF th[1] = "user" THEN <<"network", n>>
  ELSE IF n \in watched[cur[n]] THEN <<"network", cur[n]>>
  ELSE <<"user", cur[n]>>

BlockedThreads == {th \in Threads : Blocked(th)}

(* Blocked threads that wait for each other only. *)
Deadlocked(set) == set \subseteq BlockedThreads /\ \A th \in set : WaitsFor(th) \in set

(* The busy loop of write(), during which nobody can be read from and the  *)
(* calls for the link do not return, ends, unless its thread waits for a   *)
(* set of threads that wait for each other only: two nodes that write to   *)
(* each other, three in a ring, or with them a user who cannot accept      *)
(* because he waits himself.  However many nodes are in a row behind a     *)
(* slow one, all of them get on. *)
OnlyDeadlocksStall ==
  \A n \in Node :
    pc[n] = "write" ~>
      \/ pc[n] # "write"
      \/ \E set \in SUBSET BlockedThreads : <<"network", n>> \in set /\ Deadlocked(set)

(* And there is no way out: what the other threads do, calls and packets   *)
(* alike, never frees such a set. *)
DeadlocksLast ==
  [][\A set \in SUBSET BlockedThreads : Deadlocked(set) => Deadlocked(set)']_vars
=============================================================================
