-------------------------- MODULE WriteStall_proofs --------------------------
(***************************************************************************)
(* A deadlock of threads that write to each other lasts for ever, in any   *)
(* network and whatever the sizes of connections and batches.              *)
(***************************************************************************)
EXTENDS WriteStall, TLAPS

LEMMA WaysAreSymmetric ==
  ASSUME NEW n, NEW m
  PROVE  <<n, m>> \in Ways <=> <<m, n>> \in Ways
<1>1. ASSUME NEW x, NEW y, <<x, y>> \in Ways PROVE <<y, x>> \in Ways
  <2>1. CASE <<x, y>> \in Linked
    BY <2>1 DEF Ways
  <2>2. CASE \E k \in Linked : <<x, y>> = <<k[2], k[1]>>
    <3>1. PICK k \in Linked : <<x, y>> = <<k[2], k[1]>>
      BY <2>2
    <3>2. k = <<k[1], k[2]>>
      BY StallAssumption
    <3> QED BY <3>1, <3>2 DEF Ways
  <2> QED BY <1>1, <2>1, <2>2 DEF Ways
<1> QED BY <1>1

LEMMA WaysAreOfNodes == Ways \subseteq Node \X Node
BY StallAssumption DEF Ways

-----------------------------------------------------------------------------
(* Type correctness. *)

(* Where a network thread is, there is a link. *)
LEMMA AtALink ==
  ASSUME TypeOK, NEW n \in Node, pc[n] # "sleep"
  PROVE  ToCur(n) \in Ways /\ FromCur(n) \in Ways
BY WaysAreSymmetric DEF TypeOK, ToCur, FromCur

LEMMA InitTypes == Init => TypeOK
<1> SUFFICES ASSUME Init PROVE TypeOK
  OBVIOUS
<1>1. 0 \in Nat /\ 0 \in 0..ReadBatch
  BY StallAssumption
<1>2. wire \in [Ways -> 0..Capacity]
  BY StallAssumption DEF Init
<1>3. \A n \in Node : call[n][1] # "add"
  BY DEF Init, NoCall
<1> QED BY <1>1, <1>2, <1>3, StallAssumption DEF Init, TypeOK, NoCall

(* A thread turns to a link it watches. *)
LEMMA TurnTypes ==
  ASSUME TypeOK, NEW n \in Node, NEW m \in watched[n], NEW rest \in SUBSET watched[n],
         Turn(n, m, rest), UNCHANGED <<watched, out, wire, sends, call>>
  PROVE  TypeOK'
<1>1. m \in Node /\ rest \ {m} \in SUBSET Node
  BY DEF TypeOK
<1>2. cur' \in [Node -> Node] /\ todo' \in [Node -> SUBSET Node]
  BY <1>1 DEF TypeOK, Turn
<1>3. pc' \in [Node -> {"sleep", "write", "read"}]
  BY DEF TypeOK, Turn
<1>4. ri' \in [Node -> 0..ReadBatch]
  BY StallAssumption DEF TypeOK, Turn
<1>5. \A k \in Node : pc'[k] # "sleep" => cur'[k] \in watched'[k] /\ todo'[k] \subseteq watched'[k]
  BY DEF TypeOK, Turn
<1> QED BY <1>2, <1>3, <1>4, <1>5 DEF TypeOK

LEMMA NetworkTypes ==
  ASSUME TypeOK, NEW n \in Node, NetworkThread(n)
  PROVE  TypeOK'
<1>1. CASE StartPass(n)
  BY <1>1, TurnTypes DEF StartPass, ToVisit
<1>2. CASE WriteOne(n)
  <2>1. ToCur(n) \in Ways
    BY <1>2, AtALink DEF WriteOne
  <2>2. wire' \in [Ways -> 0..Capacity]
    BY <1>2, <2>1, StallAssumption DEF WriteOne, HasRoom, TypeOK
  <2>3. out' \in [Ways -> Nat]
    BY <1>2, <2>1 DEF WriteOne, TypeOK
  <2> QED BY <1>2, <2>2, <2>3 DEF WriteOne, TypeOK, threadVars
<1>3. CASE EndWrite(n)
  <2>1. out' \in [Ways -> Nat] /\ pc' \in [Node -> {"sleep", "write", "read"}]
    BY <1>3 DEF EndWrite, TypeOK
  <2>2. \A k \in Node : pc'[k] # "sleep" => pc[k] # "sleep"
    BY <1>3 DEF EndWrite, TypeOK
  <2> QED BY <1>3, <2>1, <2>2 DEF EndWrite, TypeOK
<1>4. CASE ReadOne(n)
  <2>1. FromCur(n) \in Ways
    BY <1>4, AtALink DEF ReadOne
  <2>2. wire' \in [Ways -> 0..Capacity]
    BY <1>4, <2>1, StallAssumption DEF ReadOne, TypeOK
  <2>3. ri' \in [Node -> 0..ReadBatch]
    BY <1>4, StallAssumption DEF ReadOne, InBatch, TypeOK
  <2> QED BY <1>4, <2>2, <2>3 DEF ReadOne, TypeOK
<1>5. CASE EndVisit(n)
  <2>1. CASE \E m \in todo[n] : Turn(n, m, todo[n])
    <3>1. PICK m \in todo[n] : Turn(n, m, todo[n])
      BY <2>1
    <3>2. todo[n] \subseteq watched[n]
      BY <1>5 DEF EndVisit, TypeOK
    <3> QED BY <1>5, <3>1, <3>2, TurnTypes DEF EndVisit
  <2>2. CASE ~\E m \in todo[n] : Turn(n, m, todo[n])
    <3>1. /\ pc' = [pc EXCEPT ![n] = "sleep"] /\ cur' = [cur EXCEPT ![n] = n]
          /\ ri' = [ri EXCEPT ![n] = 0]
          /\ UNCHANGED <<todo, watched, out, wire, sends, call>>
      BY <1>5, <2>2 DEF EndVisit
    <3>2. /\ pc' \in [Node -> {"sleep", "write", "read"}] /\ cur' \in [Node -> Node]
          /\ ri' \in [Node -> 0..ReadBatch]
      BY <3>1, StallAssumption DEF TypeOK
    <3>3. \A k \in Node :
            pc'[k] # "sleep" => cur'[k] \in watched'[k] /\ todo'[k] \subseteq watched'[k]
      BY <3>1 DEF TypeOK
    <3> QED BY <3>1, <3>2, <3>3 DEF TypeOK
  <2> QED BY <2>1, <2>2
<1> QED BY <1>1, <1>2, <1>3, <1>4, <1>5 DEF NetworkThread

(* A call is noted. *)
LEMMA CallTypes ==
  ASSUME TypeOK, NEW n \in Node, NEW m \in Node, NEW name \in {"next", "add"},
         Call(n, name, m), name = "add" => <<m, n>> \in Backlog
  PROVE  TypeOK'
<1>1. call' \in [Node -> {"none", "next", "add"} \X Node]
  BY DEF Call, TypeOK
<1>2. \A k \in Node : call'[k][1] = "add" => <<call'[k][2], k>> \in Backlog
  BY DEF Call, TypeOK
<1> QED BY <1>1, <1>2 DEF Call, TypeOK, threadVars

LEMMA UserTypes ==
  ASSUME TypeOK, NEW n \in Node, UserThread(n)
  PROVE  TypeOK'
<1>1. ASSUME NEW m \in Node, Send(n, m) PROVE TypeOK'
  <2>1. <<n, m>> \in Ways
    BY <1>1 DEF Send, TypeOK
  <2>2. out' \in [Ways -> Nat] /\ sends' \in [Ways -> Nat]
    BY <1>1, <2>1 DEF Send, TypeOK
  <2> QED BY <1>1, <2>2 DEF Send, TypeOK, threadVars
<1>2. ASSUME NEW m \in Node, CallNext(n, m) PROVE TypeOK'
  BY <1>2, CallTypes DEF CallNext
<1>3. ASSUME NEW m \in Node, CallAdd(n, m) PROVE TypeOK'
  BY <1>3, CallTypes DEF CallAdd
<1>4. CASE EndCall(n)
  <2>1. call' \in [Node -> {"none", "next", "add"} \X Node]
    BY <1>4 DEF EndCall, NoCall, TypeOK
  <2>2. \A k \in Node : call'[k][1] = "add" => <<call'[k][2], k>> \in Backlog
    BY <1>4 DEF EndCall, NoCall, TypeOK
  <2>3. call[n][2] \in Node
    BY DEF TypeOK
  <2>4. watched' \in [Node -> SUBSET Node]
    BY <1>4, <2>3 DEF EndCall, TypeOK
  <2>5. call[n][1] = "add" => <<n, call[n][2]>> \in Ways
    <3>1. call[n][1] = "add" => <<call[n][2], n>> \in Ways
      BY StallAssumption DEF TypeOK, Ways
    <3> QED BY <3>1, WaysAreSymmetric
  <2>6. \A k \in Node : \A m \in watched'[k] : <<k, m>> \in Ways
    BY <1>4, <2>5 DEF EndCall, TypeOK
  <2>7. \A k \in Node : watched[k] \subseteq watched'[k]
    BY <1>4 DEF EndCall, TypeOK
  <2> QED BY <1>4, <2>1, <2>2, <2>4, <2>6, <2>7 DEF EndCall, TypeOK, threadVars
<1> QED BY <1>1, <1>2, <1>3, <1>4 DEF UserThread

LEMMA NextTypes == TypeOK /\ [Next]_vars => TypeOK'
<1> SUFFICES ASSUME TypeOK, [Next]_vars PROVE TypeOK'
  OBVIOUS
<1>1. CASE Next
  BY <1>1, NetworkTypes, UserTypes DEF Next
<1>2. CASE UNCHANGED vars
  BY <1>2 DEF vars, threadVars, TypeOK
<1> QED BY <1>1, <1>2

(* A thread only visits links that it watches, and reads and writes within *)
(* its batch and the connection's capacity.                                *)
THEOREM TypeCorrect == Spec => []TypeOK
BY InitTypes, NextTypes, PTL DEF Spec

-----------------------------------------------------------------------------
(* Deadlocks last. *)

(* What a stalled write depends on is left alone. *)
Held(n) ==
  /\ pc'[n] = pc[n] /\ cur'[n] = cur[n]
  /\ out'[ToCur(n)] >= out[ToCur(n)]
  /\ wire'[ToCur(n)] >= wire[ToCur(n)]

LEMMA HeldByNetwork ==
  ASSUME TypeOK, NEW n \in Node, Stalled(n), NEW k \in Node, NetworkThread(k),
         k = cur[n] => pc[k] = "write" \/ n \notin watched[k]
  PROVE  Held(n)
<1> USE DEF TypeOK
<1>1. pc[n] = "write" /\ out[ToCur(n)] > 0 /\ ~HasRoom(ToCur(n))
  BY DEF Stalled
<1>2. ToCur(n) \in Ways /\ out[ToCur(n)] \in Nat /\ wire[ToCur(n)] \in Nat
  BY <1>1, AtALink
<1>3. k # n
  BY <1>1 DEF NetworkThread, StartPass, WriteOne, EndWrite, Written, ReadOne, EndVisit
<1>4. pc'[n] = pc[n] /\ cur'[n] = cur[n]
  <2>1. CASE StartPass(k)
    BY <1>3, <2>1 DEF StartPass, Turn
  <2>2. CASE EndVisit(k)
    <3>1. CASE \E m \in todo[k] : Turn(k, m, todo[k])
      BY <1>3, <3>1 DEF Turn
    <3>2. CASE ~\E m \in todo[k] : Turn(k, m, todo[k])
      BY <1>3, <2>2, <3>2 DEF EndVisit
    <3> QED BY <3>1, <3>2
  <2>3. CASE EndWrite(k)
    BY <1>3, <2>3 DEF EndWrite
  <2>4. CASE WriteOne(k) \/ ReadOne(k)
    BY <2>4 DEF WriteOne, ReadOne, threadVars
  <2> QED BY <2>1, <2>2, <2>3, <2>4 DEF NetworkThread
<1>5. ToCur(k) # ToCur(n)
  BY <1>3 DEF ToCur
<1>6. out'[ToCur(n)] = out[ToCur(n)]
  BY <1>2, <1>5 DEF NetworkThread, StartPass, WriteOne, EndWrite, ReadOne, EndVisit
<1>7. wire'[ToCur(n)] = wire[ToCur(n)]
  <2>1. CASE ReadOne(k)
    <3>1. FromCur(k) # ToCur(n)
      <4> SUFFICES ASSUME FromCur(k) = ToCur(n) PROVE FALSE
        OBVIOUS
      <4>1. k = cur[n] /\ cur[k] = n
        BY DEF FromCur, ToCur
      <4>2. pc[k] = "read" /\ cur[k] \in watched[k]
        BY <2>1 DEF ReadOne
      <4> QED BY <4>1, <4>2
    <3> QED BY <1>2, <2>1, <3>1 DEF ReadOne
  <2>2. CASE WriteOne(k)
    BY <1>2, <1>5, <2>2 DEF WriteOne
  <2>3. CASE StartPass(k) \/ EndWrite(k) \/ EndVisit(k)
    BY <2>3 DEF StartPass, EndWrite, EndVisit
  <2> QED BY <2>1, <2>2, <2>3 DEF NetworkThread
<1> QED BY <1>2, <1>4, <1>6, <1>7 DEF Held

LEMMA HeldByUser ==
  ASSUME TypeOK, NEW n \in Node, Stalled(n), NEW k \in Node, UserThread(k)
  PROVE  Held(n)
<1> USE DEF TypeOK
<1>1. pc[n] = "write"
  BY DEF Stalled
<1>2. ToCur(n) \in Ways /\ out[ToCur(n)] \in Nat /\ wire[ToCur(n)] \in Nat
  BY <1>1, AtALink
<1>3. UNCHANGED <<pc, cur, wire>>
  BY DEF UserThread, Send, CallNext, CallAdd, Call, EndCall, threadVars
<1>4. out'[ToCur(n)] >= out[ToCur(n)]
  <2>1. ASSUME NEW m \in Node, Send(k, m) PROVE out'[ToCur(n)] >= out[ToCur(n)]
    <3>1. out' = [out EXCEPT ![<<k, m>>] = @ + 1]
      BY <2>1 DEF Send
    <3>2. CASE <<k, m>> = ToCur(n)
      <4>1. out'[ToCur(n)] = out[ToCur(n)] + 1
        BY <1>2, <3>1, <3>2
      <4> QED BY <1>2, <4>1
    <3>3. CASE <<k, m>> # ToCur(n)
      <4>1. out'[ToCur(n)] = out[ToCur(n)]
        BY <1>2, <3>1, <3>3
      <4> QED BY <1>2, <4>1
    <3> QED BY <3>2, <3>3
  <2>2. ASSUME NEW m \in Node, CallNext(k, m) \/ CallAdd(k, m)
        PROVE  out'[ToCur(n)] >= out[ToCur(n)]
    BY <1>2, <2>2 DEF CallNext, CallAdd, Call
  <2>3. CASE EndCall(k)
    BY <1>2, <2>3 DEF EndCall
  <2> QED BY <2>1, <2>2, <2>3 DEF UserThread
<1> QED BY <1>2, <1>3, <1>4 DEF Held

(* A stalled write stays stalled, and waits for the same peer. *)
LEMMA HeldIsStalled ==
  ASSUME TypeOK, TypeOK', NEW n \in Node, Stalled(n), Held(n)
  PROVE  Stalled(n)' /\ cur'[n] = cur[n]
<1>1. ToCur(n) \in Ways /\ ToCur(n)' = ToCur(n)
  BY AtALink DEF Stalled, Held, ToCur
<1>2. /\ out[ToCur(n)] \in Nat /\ out'[ToCur(n)] \in Nat
      /\ wire[ToCur(n)] \in Nat /\ wire'[ToCur(n)] \in Nat
  BY <1>1 DEF TypeOK
<1>3. out'[ToCur(n)] > 0 /\ ~(wire'[ToCur(n)] < Capacity)
  BY <1>2, StallAssumption DEF Stalled, Held, HasRoom
<1> QED BY <1>1, <1>3 DEF Stalled, Held, HasRoom

(* A user who waits for a lock makes no other call. *)
LEMMA LockedUserWaits ==
  ASSUME TypeOK, NEW n \in Node, Locked(n), Next
  PROVE  call'[n] = call[n] /\ watched'[n] = watched[n]
<1>1. ~UserIsFree(n)
  BY DEF Locked, UserIsFree, NoCall
<1>2. PICK k \in Node : NetworkThread(k) \/ UserThread(k)
  BY DEF Next
<1>3. CASE NetworkThread(k)
  BY <1>3 DEF NetworkThread, StartPass, WriteOne, EndWrite, ReadOne, EndVisit
<1>4. CASE UserThread(k)
  <2>1. ASSUME NEW m \in Node, Send(k, m) PROVE UNCHANGED <<call, watched>>
    BY <2>1 DEF Send
  <2>2. ASSUME NEW m \in Node, CallNext(k, m) \/ CallAdd(k, m)
        PROVE  call'[n] = call[n] /\ watched' = watched
    <3>1. k # n
      BY <1>1, <2>2 DEF CallNext, CallAdd, Call
    <3> QED BY <2>2, <3>1 DEF CallNext, CallAdd, Call, TypeOK
  <2>3. CASE EndCall(k)
    <3>1. k # n
      BY <2>3 DEF EndCall
    <3> QED BY <2>3, <3>1 DEF EndCall, TypeOK
  <2> QED BY <1>4, <2>1, <2>2, <2>3 DEF UserThread
<1> QED BY <1>2, <1>3, <1>4

(* Links once watched stay so. *)
LEMMA WatchedGrows ==
  ASSUME TypeOK, NEW n \in Node, Next
  PROVE  watched[n] \subseteq watched'[n]
<1>1. PICK k \in Node : NetworkThread(k) \/ UserThread(k)
  BY DEF Next
<1>2. CASE NetworkThread(k)
  BY <1>2 DEF NetworkThread, StartPass, WriteOne, EndWrite, ReadOne, EndVisit
<1>3. CASE EndCall(k)
  BY <1>3 DEF EndCall, TypeOK
<1>4. CASE \E m \in Node : Send(k, m) \/ CallNext(k, m) \/ CallAdd(k, m)
  BY <1>4 DEF Send, CallNext, CallAdd, Call
<1> QED BY <1>1, <1>2, <1>3, <1>4 DEF UserThread

LEMMA DeadlockStays ==
  ASSUME TypeOK, TypeOK', Next, NEW set \in SUBSET BlockedThreads, Deadlocked(set)
  PROVE  Deadlocked(set)'
<1>1. \A th \in set : Blocked(th) /\ WaitsFor(th) \in set
  BY DEF Deadlocked, BlockedThreads
<1>2. \A th \in set : \E n \in Node : th = <<"network", n>> \/ th = <<"user", n>>
  BY DEF BlockedThreads, Threads
<1>3. ASSUME NEW n \in Node, <<"network", n>> \in set
      PROVE  /\ Stalled(n) /\ Held(n)
             /\ cur[n] \in Node
             /\ n \in watched[cur[n]] => <<"network", cur[n]>> \in set
             /\ n \notin watched[cur[n]] => <<"user", cur[n]>> \in set
  <2>1. Stalled(n)
    BY <1>1, <1>3 DEF Blocked
  <2>2. /\ n \in watched[cur[n]] => <<"network", cur[n]>> \in set
        /\ n \notin watched[cur[n]] => <<"user", cur[n]>> \in set
    BY <1>1, <1>3 DEF WaitsFor
  <2>3. PICK k \in Node : NetworkThread(k) \/ UserThread(k)
    BY DEF Next
  <2>4. k = cur[n] => pc[k] = "write" \/ n \notin watched[k]
    <3>1. ASSUME <<"network", k>> \in set PROVE pc[k] = "write"
      BY <1>1, <3>1 DEF Blocked, Stalled
    <3> QED BY <2>2, <3>1
  <2>5. Held(n)
    BY <2>1, <2>3, <2>4, HeldByNetwork, HeldByUser
  <2> QED BY <2>1, <2>2, <2>5 DEF TypeOK
<1>4. ASSUME NEW n \in Node, <<"network", n>> \in set
      PROVE  Blocked(<<"network", n>>)' /\ WaitsFor(<<"network", n>>)' \in set
  <2>1. Stalled(n)' /\ cur'[n] = cur[n]
    BY <1>3, <1>4, HeldIsStalled
  <2>2. CASE n \in watched[cur[n]]
    <3>1. n \in watched'[cur[n]]
      BY <1>3, <1>4, <2>2, WatchedGrows
    <3> QED BY <1>3, <1>4, <2>1, <2>2, <3>1 DEF Blocked, WaitsFor
  <2>3. CASE n \notin watched[cur[n]]
    <3>1. Locked(cur[n])
      BY <1>1, <1>3, <1>4, <2>3 DEF Blocked
    <3>2. n \notin watched'[cur[n]]
      BY <1>3, <1>4, <2>3, <3>1, LockedUserWaits
    <3> QED BY <1>3, <1>4, <2>1, <2>3, <3>2 DEF Blocked, WaitsFor
  <2> QED BY <2>2, <2>3
<1>5. ASSUME NEW n \in Node, <<"user", n>> \in set
      PROVE  Blocked(<<"user", n>>)' /\ WaitsFor(<<"user", n>>)' \in set
  <2>1. Locked(n) /\ <<"network", n>> \in set
    BY <1>1, <1>5 DEF Blocked, WaitsFor
  <2>2. call'[n] = call[n] /\ pc'[n] = pc[n] /\ cur'[n] = cur[n]
    BY <1>3, <2>1, LockedUserWaits DEF Held
  <2>3. Locked(n)'
    BY <2>1, <2>2 DEF Locked, HoldsBuffer, HoldsMut
  <2> QED BY <2>1, <2>3 DEF Blocked, WaitsFor
<1>6. \A th \in set : Blocked(th)' /\ WaitsFor(th)' \in set
  BY <1>2, <1>4, <1>5
<1>7. set \subseteq Threads
  BY DEF BlockedThreads
<1> QED BY <1>6, <1>7 DEF Deadlocked, BlockedThreads

(* Threads that wait for each other only do so for ever: no call, no       *)
(* packet and no visit of another node's network thread ends a write of    *)
(* theirs, for tcp_output_channel::write gives up on no full connection.   *)
THEOREM DeadlocksNeverEnd == Spec => DeadlocksLast
<1> DEFINE Lasts == \A set \in SUBSET BlockedThreads : Deadlocked(set) => Deadlocked(set)'
<1>1. TypeOK /\ TypeOK' /\ [Next]_vars => [Lasts]_vars
  BY DeadlockStays
<1>2. Spec => [][Lasts]_vars
  BY <1>1, TypeCorrect, PTL DEF Spec
<1> QED BY <1>2 DEF DeadlocksLast
=============================================================================
