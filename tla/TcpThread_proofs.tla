-------------------------- MODULE TcpThread_proofs --------------------------
(***************************************************************************)
(* Theorems about TcpThread, for any set of links and topics, any batch    *)
(* and send buffer size.                                                   *)
(*                                                                         *)
(* Type correctness is inductive.  So is FirehoseExact given the types: the*)
(* set test of send and of run keeps a topic from being queued twice, and  *)
(* that uniqueness is what lets next() remove the topic from the set when  *)
(* it pops the one packet that has it.                                     *)
(*                                                                         *)
(* Then, no packet is lost, repeated or overtaken between send() and the   *)
(* output channel, nor between the input channel and next().  A direction  *)
(* of a link is seen as one stream, the packets that have left followed by *)
(* those that wait.  A step of either thread moves a packet from one part  *)
(* of the stream to the next, which leaves the stream as it is; appends    *)
(* the newest packet; or drops a packet, for which an older one of its     *)
(* topic stands, since the firehose sets are exact.                        *)
(***************************************************************************)
EXTENDS TcpThread, SequenceTheorems, FiniteSetTheorems, TLAPS

(* send either counts a packet as rejected or queues it. *)
LEMMA SendCases ==
  ASSUME NEW l, NEW p, Send(l, p)
  PROVE  \/ /\ Refused(outFirehose[l], p)
            /\ rejectOut' = [rejectOut EXCEPT ![l] = @ + 1]
            /\ out' = out /\ outFirehose' = outFirehose
         \/ /\ ~Refused(outFirehose[l], p)
            /\ out' = [out EXCEPT ![l] = Append(@, p)]
            /\ outFirehose' = [outFirehose EXCEPT ![l] = AfterPush(@, p)]
            /\ rejectOut' = rejectOut
BY Zenon DEF Send

(* The read loop either drops the packet it parsed or queues it. *)
LEMMA ReadOneCases ==
  ASSUME ReadOne
  PROVE  \/ /\ Refused(inFirehose[cur], Head(inBuf[cur]))
            /\ in' = in /\ inFirehose' = inFirehose
         \/ /\ ~Refused(inFirehose[cur], Head(inBuf[cur]))
            /\ in' = [in EXCEPT ![cur] = Append(@, Head(inBuf[cur]))]
            /\ inFirehose' =
                 [inFirehose EXCEPT ![cur] = AfterPush(@, Head(inBuf[cur]))]
BY Zenon DEF ReadOne

(* The initial state is well typed. *)
LEMMA InitTypeOK == Init => TypeOK
<1> SUFFICES ASSUME Init PROVE TypeOK
  OBVIOUS
<1>1. <<>> \in Seq(Packet)
  BY EmptySeq
<1>2. nextId \in 0..MaxPackets /\ ri \in 0..ReadBatch
  BY BoundsAssumption DEF Init, BoundsAssumption
<1>3. /\ out \in [Links -> Seq(Packet)] /\ in \in [Links -> Seq(Packet)]
      /\ wireOut \in [Links -> Seq(Packet)] /\ wireIn \in [Links -> Seq(Packet)]
      /\ inBuf \in [Links -> Seq(Packet)]
      /\ handed \in [Links -> Seq(Packet)] /\ taken \in [Links -> Seq(Packet)]
  BY <1>1 DEF Init
<1>4. /\ outFirehose \in [Links -> SUBSET Topics] /\ inFirehose \in [Links -> SUBSET Topics]
      /\ offered \in [Links -> SUBSET Packet] /\ arrived \in [Links -> SUBSET Packet]
      /\ rejectOut \in [Links -> Nat]
      /\ open \in [Links -> BOOLEAN] /\ peerGone \in [Links -> BOOLEAN]
  BY DEF Init
<1>5. /\ pc \in {"idle", "visit", "write", "update", "read", "done"} /\ wi \in Nat \ {0}
      /\ watched \subseteq Links /\ todo \subseteq Links /\ cur \in Links
  BY DEF Init
<1>6. nextId \in 0..MaxPackets /\ ri \in 0..ReadBatch
  BY <1>2
<1>7. exitFlag \in BOOLEAN
  BY Zenon DEF Init
<1> QED BY <1>3, <1>4, <1>5, <1>6, <1>7 DEF TypeOK

(* A fresh or removed buffer has the types of one. *)
LEMMA ResetTypeOK ==
  ASSUME TypeOK, NEW l \in Links, ResetBuffer(l)
  PROVE  /\ out' \in [Links -> Seq(Packet)]
         /\ in' \in [Links -> Seq(Packet)]
         /\ outFirehose' \in [Links -> SUBSET Topics]
         /\ inFirehose' \in [Links -> SUBSET Topics]
         /\ rejectOut' \in [Links -> Nat]
         /\ offered' \in [Links -> SUBSET Packet]
         /\ handed' \in [Links -> Seq(Packet)]
         /\ arrived' \in [Links -> SUBSET Packet]
         /\ taken' \in [Links -> Seq(Packet)]
<1>1. ASSUME NEW S, NEW v \in S, NEW f \in [Links -> S]
      PROVE  [f EXCEPT ![l] = v] \in [Links -> S]
  OBVIOUS
<1>2. <<>> \in Seq(Packet) /\ {} \in SUBSET Topics /\ {} \in SUBSET Packet /\ 0 \in Nat
  OBVIOUS
<1>3. out' \in [Links -> Seq(Packet)]
  BY <1>1, <1>2 DEF TypeOK, ResetBuffer
<1>4. in' \in [Links -> Seq(Packet)]
  BY <1>1, <1>2 DEF TypeOK, ResetBuffer
<1>5. outFirehose' \in [Links -> SUBSET Topics]
  BY <1>1, <1>2 DEF TypeOK, ResetBuffer
<1>6. inFirehose' \in [Links -> SUBSET Topics]
  BY <1>1, <1>2 DEF TypeOK, ResetBuffer
<1>7. rejectOut' \in [Links -> Nat]
  BY <1>1, <1>2 DEF TypeOK, ResetBuffer
<1>8. offered' \in [Links -> SUBSET Packet]
  BY <1>1, <1>2 DEF TypeOK, ResetBuffer
<1>9. arrived' \in [Links -> SUBSET Packet]
  BY <1>1, <1>2 DEF TypeOK, ResetBuffer
<1>10. handed' \in [Links -> Seq(Packet)]
  BY <1>1, <1>2 DEF TypeOK, ResetBuffer
<1>11. taken' \in [Links -> Seq(Packet)]
  BY <1>1, <1>2 DEF TypeOK, ResetBuffer
<1> QED BY <1>3, <1>4, <1>5, <1>6, <1>7, <1>8, <1>9, <1>10, <1>11

(* A step of the user thread keeps the types. *)
LEMMA UserTypeOK ==
  ASSUME TypeOK, UserThread
  PROVE  TypeOK'
<1> USE DEF TypeOK, bufferVars, threadVars, linkVars, historyVars
<1>1. ASSUME NEW l \in Links, AddSocket(l) PROVE TypeOK'
  <2>1. ResetBuffer(l)
    BY <1>1 DEF AddSocket
  <2>2. watched' \subseteq Links /\ open' \in [Links -> BOOLEAN]
        /\ peerGone' \in [Links -> BOOLEAN]
    BY <1>1 DEF AddSocket
  <2>3. /\ wireOut' \in [Links -> Seq(Packet)] /\ wireIn' \in [Links -> Seq(Packet)]
        /\ inBuf' \in [Links -> Seq(Packet)]
    <3>1. /\ wireOut' = [wireOut EXCEPT ![l] = <<>>] /\ wireIn' = [wireIn EXCEPT ![l] = <<>>]
          /\ inBuf' = [inBuf EXCEPT ![l] = <<>>]
      BY <1>1, Zenon DEF AddSocket
    <3>2. /\ wireOut \in [Links -> Seq(Packet)] /\ wireIn \in [Links -> Seq(Packet)]
          /\ inBuf \in [Links -> Seq(Packet)] /\ <<>> \in Seq(Packet)
      BY Zenon, EmptySeq
    <3> QED BY ONLY <3>1, <3>2
  <2>4. UNCHANGED <<threadVars, nextId>>
    BY <1>1 DEF AddSocket
  <2> QED BY <2>1, <2>2, <2>3, <2>4, ResetTypeOK
<1>2. ASSUME NEW l \in Links, RemoveSocket(l) PROVE TypeOK'
  <2>1. ResetBuffer(l)
    BY <1>2 DEF RemoveSocket
  <2>2. watched' \subseteq Links /\ open' \in [Links -> BOOLEAN]
    BY <1>2 DEF RemoveSocket
  <2>3. wireIn' \in [Links -> Seq(Packet)] /\ inBuf' \in [Links -> Seq(Packet)]
    BY <1>2, SMTT(30) DEF RemoveSocket
  <2>4. UNCHANGED <<threadVars, peerGone, wireOut, nextId>>
    BY <1>2 DEF RemoveSocket
  <2> QED BY <2>1, <2>2, <2>3, <2>4, ResetTypeOK
<1>3. ASSUME NEW l \in Links, NextPacket(l) PROVE TypeOK'
  <2>1. Head(in[l]) \in Packet /\ Tail(in[l]) \in Seq(Packet)
    <3>1. in[l] \in Seq(Packet) /\ in[l] # <<>>
      BY <1>3 DEF NextPacket
    <3> QED BY ONLY <3>1
  <2>2. AfterPop(inFirehose[l], Head(in[l])) \in SUBSET Topics
    BY DEF AfterPop
  <2>3. in' \in [Links -> Seq(Packet)] /\ inFirehose' \in [Links -> SUBSET Topics]
    BY <1>3, <2>1, <2>2 DEF NextPacket
  <2>4. taken' \in [Links -> Seq(Packet)]
    BY <1>3, <2>1 DEF NextPacket
  <2>5. UNCHANGED <<watched, out, outFirehose, rejectOut, threadVars, linkVars,
                    nextId, offered, handed, arrived>>
    BY <1>3 DEF NextPacket
  <2> QED BY <2>3, <2>4, <2>5
<1>4. ASSUME NEW l \in Links, NEW p \in Packet, Send(l, p) PROVE TypeOK'
  <2>1. AfterPush(outFirehose[l], p) \in SUBSET Topics
    BY DEF AfterPush, Packet
  <2>2. nextId' \in 0..MaxPackets
    BY <1>4, BoundsAssumption DEF Send, Fresh, BoundsAssumption
  <2>3. /\ out' \in [Links -> Seq(Packet)]
        /\ outFirehose' \in [Links -> SUBSET Topics]
        /\ rejectOut' \in [Links -> Nat]
    <3>1. CASE /\ out' = out /\ outFirehose' = outFirehose
               /\ rejectOut' = [rejectOut EXCEPT ![l] = @ + 1]
      <4>1. rejectOut[l] + 1 \in Nat
        <5>1. rejectOut[l] \in Nat
          OBVIOUS
        <5> QED BY ONLY <5>1
      <4>2. rejectOut' \in [Links -> Nat]
        BY <3>1, <4>1
      <4> QED BY <3>1, <4>2
    <3>2. CASE /\ out' = [out EXCEPT ![l] = Append(@, p)]
               /\ outFirehose' = [outFirehose EXCEPT ![l] = AfterPush(@, p)]
               /\ rejectOut' = rejectOut
      <4>1. out' \in [Links -> Seq(Packet)]
        BY <3>2, AppendProperties
      <4>2. outFirehose' \in [Links -> SUBSET Topics]
        BY <2>1, <3>2
      <4> QED BY <3>2, <4>1, <4>2
    <3> QED BY <1>4, <3>1, <3>2, SendCases
  <2>4. offered' \in [Links -> SUBSET Packet]
    BY <1>4 DEF Send
  <2> QED BY <1>4, <2>2, <2>3, <2>4 DEF Send
<1>5. ASSUME Exit PROVE TypeOK'
  BY <1>5 DEF Exit
<1> QED BY <1>1, <1>2, <1>3, <1>4, <1>5 DEF UserThread

(* A step of the network thread keeps the types. *)
LEMMA NetworkTypeOK ==
  ASSUME TypeOK, NetworkThread
  PROVE  TypeOK'
<1> USE DEF TypeOK, bufferVars, threadVars, linkVars, historyVars
<1>1. ASSUME StartPass PROVE TypeOK'
  BY <1>1 DEF StartPass
<1>2. ASSUME LeaveLoop PROVE TypeOK'
  BY <1>2 DEF LeaveLoop
<1>3. ASSUME NEW l \in Links, Visit(l) PROVE TypeOK'
  BY <1>3, SMTT(30) DEF Visit
<1>4. ASSUME WriteOne PROVE TypeOK'
  <2>1. out[cur][wi] \in Packet
    BY <1>4 DEF WriteOne
  <2>2. handed' \in [Links -> Seq(Packet)]
    BY <1>4, <2>1 DEF WriteOne
  <2>3. wireOut' \in [Links -> Seq(Packet)]
    <3>1. CASE wireOut' = wireOut
      BY <3>1
    <3>2. CASE wireOut' = [wireOut EXCEPT ![cur] = Append(@, out[cur][wi])]
      BY <2>1, <3>2
    <3> QED BY <1>4, <3>1, <3>2 DEF WriteOne
  <2> QED BY <1>4, <2>2, <2>3, SMTT(30) DEF WriteOne
<1>5. ASSUME Flushed PROVE TypeOK'
  BY <1>5, SMTT(30) DEF Flushed, AfterFlush
<1>6. ASSUME Update PROVE TypeOK'
  <2>1. ri' \in 0..ReadBatch
    BY <1>6, BoundsAssumption DEF Update, BoundsAssumption
  <2>2. open' \in [Links -> BOOLEAN]
    BY <1>6 DEF Update
  <2>3. inBuf' \in [Links -> Seq(Packet)]
    BY <1>6 DEF Update
  <2> QED BY <1>6, <2>1, <2>2, <2>3 DEF Update
<1>7. ASSUME Receive PROVE TypeOK'
  <2>1. PICK n \in 1..Len(wireIn[cur]) :
          /\ inBuf' = [inBuf EXCEPT ![cur] = SubSeq(wireIn[cur], 1, n)]
          /\ wireIn' = [wireIn EXCEPT ![cur] = SubSeq(@, n + 1, Len(@))]
    BY <1>7 DEF Receive
  <2>2. SubSeq(wireIn[cur], 1, n) \in Seq(Packet)
    BY SubSeqProperties
  <2>3. SubSeq(wireIn[cur], n + 1, Len(wireIn[cur])) \in Seq(Packet)
    BY SubSeqProperties
  <2> QED BY <1>7, <2>1, <2>2, <2>3 DEF Receive
<1>8. ASSUME ReadOne PROVE TypeOK'
  <2> DEFINE p == Head(inBuf[cur])
  <2>1. p \in Packet /\ Tail(inBuf[cur]) \in Seq(Packet)
    BY <1>8 DEF ReadOne
  <2>2. AfterPush(inFirehose[cur], p) \in SUBSET Topics
    BY <2>1 DEF AfterPush, Packet
  <2>3. in' \in [Links -> Seq(Packet)] /\ inFirehose' \in [Links -> SUBSET Topics]
    <3>1. CASE in' = in /\ inFirehose' = inFirehose
      BY <3>1
    <3>2. CASE /\ in' = [in EXCEPT ![cur] = Append(@, p)]
               /\ inFirehose' = [inFirehose EXCEPT ![cur] = AfterPush(@, p)]
      BY <2>1, <2>2, <3>2
    <3> QED BY <1>8, <3>1, <3>2, ReadOneCases
  <2>4. ri' \in 0..ReadBatch
    BY <1>8, BoundsAssumption DEF ReadOne, InBatch, BoundsAssumption
  <2>5. arrived' \in [Links -> SUBSET Packet] /\ inBuf' \in [Links -> Seq(Packet)]
    BY <1>8, <2>1 DEF ReadOne
  <2> QED BY <1>8, <2>3, <2>4, <2>5 DEF ReadOne
<1>9. ASSUME EndVisit PROVE TypeOK'
  BY <1>9 DEF EndVisit
<1>10. ASSUME EndPass PROVE TypeOK'
  BY <1>10 DEF EndPass
<1> QED
  BY <1>1, <1>2, <1>3, <1>4, <1>5, <1>6, <1>7, <1>8, <1>9, <1>10 DEF NetworkThread

(* A step of the other end keeps the types. *)
LEMMA PeerTypeOK ==
  ASSUME TypeOK, Peer
  PROVE  TypeOK'
<1> USE DEF TypeOK, bufferVars, threadVars, linkVars, historyVars
<1>1. ASSUME NEW l \in Links, PeerRead(l) PROVE TypeOK'
  <2>1. wireOut' \in [Links -> Seq(Packet)]
    BY <1>1 DEF PeerRead
  <2> QED BY <1>1, <2>1 DEF PeerRead
<1>2. ASSUME NEW l \in Links, PeerClose(l) PROVE TypeOK'
  <2>1. wireOut' \in [Links -> Seq(Packet)]
    BY <1>2 DEF PeerClose
  <2>2. peerGone' \in [Links -> BOOLEAN]
    BY <1>2 DEF PeerClose
  <2> QED BY <1>2, <2>1, <2>2 DEF PeerClose
<1>3. ASSUME NEW l \in Links, NEW p \in Packet, PeerSend(l, p) PROVE TypeOK'
  <2>1. nextId' \in 0..MaxPackets
    BY <1>3, BoundsAssumption DEF PeerSend, Fresh, BoundsAssumption
  <2>2. wireIn' \in [Links -> Seq(Packet)]
    BY <1>3 DEF PeerSend
  <2> QED BY <1>3, <2>1, <2>2 DEF PeerSend
<1> QED BY <1>1, <1>2, <1>3 DEF Peer

(* Every step keeps the types. *)
LEMMA NextTypeOK == TypeOK /\ [Next]_vars => TypeOK'
<1> SUFFICES ASSUME TypeOK, [Next]_vars PROVE TypeOK'
  OBVIOUS
<1>1. CASE UNCHANGED vars
  BY <1>1 DEF vars, bufferVars, threadVars, linkVars, historyVars, TypeOK
<1> QED BY <1>1, UserTypeOK, NetworkTypeOK, PeerTypeOK DEF Next

(* The model's variables keep their types for every value of the           *)
(* constants; in particular the read loop never passes its bound.          *)
THEOREM TypeCorrect == Spec => []TypeOK
BY InitTypeOK, NextTypeOK, PTL DEF Spec

-----------------------------------------------------------------------------
(* The firehose sets. *)

(* Queueing p adds its topic to the droppable topics of the queue iff p is *)
(* droppable: the code's insert.                                           *)
LEMMA PushTopics ==
  ASSUME NEW s \in Seq(Packet), NEW p \in Packet
  PROVE  DroppableTopics(Append(s, p)) = AfterPush(DroppableTopics(s), p)
<1> DEFINE t == Append(s, p)
<1>1. /\ t \in Seq(Packet) /\ Len(t) = Len(s) + 1 /\ t[Len(s) + 1] = p
      /\ \A i \in 1..Len(s) : t[i] = s[i]
  BY AppendProperties
<1>2. 1..Len(t) = 1..Len(s) \cup {Len(s) + 1}
  BY <1>1
<1> HIDE DEF t
<1>3. DroppableTopics(t) =
        {s[k].topic : k \in {j \in 1..Len(s) : s[j].droppable}}
          \cup IF p.droppable THEN {p.topic} ELSE {}
  BY <1>1, <1>2 DEF DroppableTopics, Packet
<1> QED BY <1>3 DEF t, DroppableTopics, AfterPush

(* A packet that passes the firehose test keeps the topics of the queue    *)
(* unique.                                                                 *)
LEMMA PushUnique ==
  ASSUME NEW s \in Seq(Packet), NEW p \in Packet,
         OneDroppablePerTopic(s), ~Refused(DroppableTopics(s), p)
  PROVE  OneDroppablePerTopic(Append(s, p))
<1> DEFINE t == Append(s, p)
<1>1. /\ t \in Seq(Packet) /\ Len(t) = Len(s) + 1 /\ t[Len(s) + 1] = p
      /\ \A i \in 1..Len(s) : t[i] = s[i]
  BY AppendProperties
<1>2. \A k \in 1..Len(s) : s[k].droppable /\ p.droppable => s[k].topic # p.topic
  BY DEF Refused, DroppableTopics
<1> HIDE DEF t
<1>3. ASSUME NEW j \in 1..Len(t), NEW k \in 1..Len(t),
             t[j].droppable, t[k].droppable, t[j].topic = t[k].topic
      PROVE  j = k
  <2>1. CASE j \in 1..Len(s) /\ k \in 1..Len(s)
    BY <1>1, <1>3, <2>1 DEF OneDroppablePerTopic
  <2>2. CASE j \in 1..Len(s) /\ k = Len(s) + 1
    BY <1>1, <1>2, <1>3, <2>2
  <2>3. CASE j = Len(s) + 1 /\ k \in 1..Len(s)
    BY <1>1, <1>2, <1>3, <2>3
  <2> QED BY <1>1, <2>1, <2>2, <2>3
<1> QED BY <1>3 DEF t, OneDroppablePerTopic

(* Popping the oldest packet of a queue with unique droppable topics       *)
(* removes exactly its topic: the code's erase.                            *)
LEMMA PopTopics ==
  ASSUME NEW s \in Seq(Packet), s # <<>>, OneDroppablePerTopic(s)
  PROVE  /\ DroppableTopics(Tail(s)) = AfterPop(DroppableTopics(s), Head(s))
         /\ OneDroppablePerTopic(Tail(s))
<1> DEFINE t == Tail(s)
<1>1. /\ t \in Seq(Packet) /\ Len(t) = Len(s) - 1 /\ Len(s) > 0
      /\ \A i \in 1..Len(t) : t[i] = s[i + 1]
      /\ Head(s) = s[1]
  BY HeadTailProperties
<1> HIDE DEF t
<1>2. OneDroppablePerTopic(t)
  <2> SUFFICES ASSUME NEW j \in 1..Len(t), NEW k \in 1..Len(t),
                      t[j].droppable, t[k].droppable, t[j].topic = t[k].topic
               PROVE  j = k
    BY DEF OneDroppablePerTopic
  <2>1. j + 1 \in 1..Len(s) /\ k + 1 \in 1..Len(s)
    BY <1>1
  <2>2. j + 1 = k + 1
    BY <1>1, <2>1 DEF OneDroppablePerTopic
  <2> QED BY <2>2
<1>3. ASSUME NEW x \in DroppableTopics(t)
      PROVE  x \in AfterPop(DroppableTopics(s), s[1])
  <2>1. PICK k \in 1..Len(t) : t[k].droppable /\ x = t[k].topic
    BY <1>3 DEF DroppableTopics
  <2>2. k + 1 \in 1..Len(s) /\ s[k + 1].droppable /\ x = s[k + 1].topic /\ k + 1 # 1
    BY <1>1, <2>1
  <2>3. 1 \in 1..Len(s)
    BY <1>1
  <2>4. ~(s[1].droppable /\ x = s[1].topic)
    BY <2>2, <2>3 DEF OneDroppablePerTopic
  <2>5. x \in DroppableTopics(s)
    BY <2>2 DEF DroppableTopics
  <2> QED BY <2>4, <2>5 DEF AfterPop
<1>4. ASSUME NEW x \in AfterPop(DroppableTopics(s), s[1])
      PROVE  x \in DroppableTopics(t)
  <2>1. x \in DroppableTopics(s) /\ ~(s[1].droppable /\ x = s[1].topic)
    BY <1>4 DEF AfterPop
  <2>2. PICK k \in 1..Len(s) : s[k].droppable /\ x = s[k].topic
    BY <2>1 DEF DroppableTopics
  <2>3. k # 1
    BY <2>1, <2>2
  <2>4. k - 1 \in 1..Len(t) /\ t[k - 1] = s[k]
    BY <1>1, <2>3
  <2> QED BY <2>2, <2>4 DEF DroppableTopics
<1> QED BY <1>1, <1>2, <1>3, <1>4 DEF t

(* An empty queue has no droppable topic. *)
LEMMA EmptyExact == DroppableTopics(<<>>) = {} /\ OneDroppablePerTopic(<<>>)
BY DEF DroppableTopics, OneDroppablePerTopic

(* What FirehoseExact says of one link and one direction. *)
Exact(firehose, s) == firehose = DroppableTopics(s) /\ OneDroppablePerTopic(s)

(* The inductive step for the out direction: only send, the flush and a    *)
(* fresh buffer touch it.                                                  *)
LEMMA OutExactStep ==
  ASSUME TypeOK, Next, NEW m \in Links, Exact(outFirehose[m], out[m])
  PROVE  Exact(outFirehose'[m], out'[m])
<1> USE DEF Exact
<1>1. CASE out' = out /\ outFirehose' = outFirehose
  BY <1>1
<1>2. ASSUME NEW l \in Links, ResetBuffer(l) PROVE Exact(outFirehose'[m], out'[m])
  BY <1>2, EmptyExact DEF ResetBuffer, TypeOK
<1>3. ASSUME NEW l \in Links, NEW p \in Packet, Send(l, p)
      PROVE  Exact(outFirehose'[m], out'[m])
  <2>1. CASE out' = out /\ outFirehose' = outFirehose
    BY <2>1
  <2>2. CASE /\ ~Refused(outFirehose[l], p)
             /\ out' = [out EXCEPT ![l] = Append(@, p)]
             /\ outFirehose' = [outFirehose EXCEPT ![l] = AfterPush(@, p)]
    <3>1. CASE m = l
      <4>1. out[l] \in Seq(Packet) /\ outFirehose[l] = DroppableTopics(out[l])
        BY <3>1 DEF TypeOK
      <4>2. out'[l] = Append(out[l], p) /\ outFirehose'[l] = AfterPush(outFirehose[l], p)
        BY <2>2 DEF TypeOK
      <4> QED BY <2>2, <3>1, <4>1, <4>2, PushTopics, PushUnique
    <3>2. CASE m # l
      BY <2>2, <3>2 DEF TypeOK
    <3> QED BY <3>1, <3>2
  <2> QED BY <1>3, <2>1, <2>2, SendCases
<1>4. ASSUME Flushed PROVE Exact(outFirehose'[m], out'[m])
  BY <1>4, EmptyExact DEF Flushed, AfterFlush, TypeOK
<1>5. ASSUME UserThread PROVE Exact(outFirehose'[m], out'[m])
  BY <1>1, <1>2, <1>3, <1>5 DEF UserThread, AddSocket, RemoveSocket, NextPacket, Exit, bufferVars
<1>6. ASSUME NetworkThread PROVE Exact(outFirehose'[m], out'[m])
  BY <1>1, <1>4, <1>6 DEF NetworkThread, StartPass, LeaveLoop, Visit, WriteOne, Update,
     Receive, ReadOne, EndVisit, EndPass, bufferVars
<1>7. ASSUME Peer PROVE Exact(outFirehose'[m], out'[m])
  BY <1>1, <1>7 DEF Peer, PeerRead, PeerSend, PeerClose, bufferVars
<1> QED BY <1>5, <1>6, <1>7 DEF Next

(* The inductive step for the in direction: the read loop, next and a      *)
(* fresh buffer touch it.                                                  *)
LEMMA InExactStep ==
  ASSUME TypeOK, Next, NEW m \in Links, Exact(inFirehose[m], in[m])
  PROVE  Exact(inFirehose'[m], in'[m])
<1> USE DEF Exact
<1>1. CASE in' = in /\ inFirehose' = inFirehose
  BY <1>1
<1>2. ASSUME NEW l \in Links, ResetBuffer(l) PROVE Exact(inFirehose'[m], in'[m])
  BY <1>2, EmptyExact DEF ResetBuffer, TypeOK
<1>3. ASSUME NEW l \in Links, NextPacket(l) PROVE Exact(inFirehose'[m], in'[m])
  <2>1. CASE m = l
    <3>1. in[l] \in Seq(Packet) /\ in[l] # <<>> /\ inFirehose[l] = DroppableTopics(in[l])
      BY <1>3, <2>1 DEF TypeOK, NextPacket
    <3>2. in'[l] = Tail(in[l]) /\ inFirehose'[l] = AfterPop(inFirehose[l], Head(in[l]))
      BY <1>3 DEF TypeOK, NextPacket
    <3> QED BY <2>1, <3>1, <3>2, PopTopics
  <2>2. CASE m # l
    BY <1>3, <2>2 DEF TypeOK, NextPacket
  <2> QED BY <2>1, <2>2
<1>4. ASSUME ReadOne PROVE Exact(inFirehose'[m], in'[m])
  <2> DEFINE p == Head(inBuf[cur])
  <2>1. CASE in' = in /\ inFirehose' = inFirehose
    BY <2>1
  <2>2. CASE /\ ~Refused(inFirehose[cur], p)
             /\ in' = [in EXCEPT ![cur] = Append(@, p)]
             /\ inFirehose' = [inFirehose EXCEPT ![cur] = AfterPush(@, p)]
    <3>1. CASE m = cur
      <4>1. p \in Packet
        <5>1. inBuf[cur] # <<>>
          BY <1>4, Zenon DEF ReadOne
        <5>2. cur \in Links /\ inBuf \in [Links -> Seq(Packet)]
          BY <1>4, Zenon DEF TypeOK, ReadOne
        <5> QED BY ONLY <5>1, <5>2
      <4>2. in[cur] \in Seq(Packet) /\ inFirehose[cur] = DroppableTopics(in[cur])
        BY <3>1 DEF TypeOK
      <4>3. in'[cur] = Append(in[cur], p) /\ inFirehose'[cur] = AfterPush(inFirehose[cur], p)
        BY <2>2 DEF TypeOK
      <4> QED BY <2>2, <3>1, <4>1, <4>2, <4>3, PushTopics, PushUnique
    <3>2. CASE m # cur
      BY <2>2, <3>2 DEF TypeOK
    <3> QED BY <3>1, <3>2
  <2> QED BY <1>4, <2>1, <2>2, ReadOneCases
<1>5. ASSUME UserThread PROVE Exact(inFirehose'[m], in'[m])
  BY <1>1, <1>2, <1>3, <1>5 DEF UserThread, AddSocket, RemoveSocket, Send, Exit, bufferVars
<1>6. ASSUME NetworkThread PROVE Exact(inFirehose'[m], in'[m])
  BY <1>1, <1>4, <1>6 DEF NetworkThread, StartPass, LeaveLoop, Visit, WriteOne, Flushed,
     Update, Receive, EndVisit, EndPass, bufferVars
<1>7. ASSUME Peer PROVE Exact(inFirehose'[m], in'[m])
  BY <1>1, <1>7 DEF Peer, PeerRead, PeerSend, PeerClose, bufferVars
<1> QED BY <1>5, <1>6, <1>7 DEF Next

(* The firehose sets are exact caches of the queues for every value of the *)
(* constants, whatever the interleaving of the two threads.                *)
THEOREM FirehoseIsExact == Spec => []FirehoseExact
<1>1. Init => FirehoseExact
  BY EmptyExact DEF Init, FirehoseExact
<1>2. TypeOK /\ FirehoseExact /\ [Next]_vars => FirehoseExact'
  <2> SUFFICES ASSUME TypeOK, FirehoseExact, [Next]_vars PROVE FirehoseExact'
    OBVIOUS
  <2>1. CASE UNCHANGED vars
    BY <2>1 DEF vars, bufferVars, FirehoseExact
  <2>2. CASE Next
    <3>1. ASSUME NEW m \in Links
          PROVE  Exact(outFirehose'[m], out'[m]) /\ Exact(inFirehose'[m], in'[m])
      BY <2>2, OutExactStep, InExactStep DEF FirehoseExact, Exact
    <3> QED BY <3>1 DEF FirehoseExact, Exact
  <2> QED BY <2>1, <2>2
<1> QED BY <1>1, <1>2, TypeCorrect, PTL DEF Spec

-----------------------------------------------------------------------------
(* Refinement. *)

(* The code's firehose test says what the abstract one does, wherever the  *)
(* set is exact.                                                           *)
LEMMA RefusedIsSameTopicWaits ==
  ASSUME NEW s \in Seq(Packet), NEW p \in Packet
  PROVE  Refused(DroppableTopics(s), p) <=> p.droppable /\ OutQueue!SameTopicWaits(s, p)
BY DEF Refused, DroppableTopics, OutQueue!SameTopicWaits

LEMMA RefusedIsSameTopicWaitsIn ==
  ASSUME NEW s \in Seq(Packet), NEW p \in Packet
  PROVE  Refused(DroppableTopics(s), p) <=> p.droppable /\ InQueue!SameTopicWaits(s, p)
BY DEF Refused, DroppableTopics, InQueue!SameTopicWaits

(* A step of the in direction is a step of the abstract queue, or none. *)
LEMMA InStep ==
  ASSUME TypeOK, FirehoseExact, Next
  PROVE  InQueue!Next \/ UNCHANGED <<in, arrived>>
<1>1. ASSUME NEW l \in Links, ResetBuffer(l) PROVE InQueue!Next
  <2>1. InQueue!Discard(l)
    BY <1>1 DEF ResetBuffer, InQueue!Discard
  <2> QED BY <2>1 DEF InQueue!Next
<1>2. ASSUME NEW l \in Links, NextPacket(l) PROVE InQueue!Next
  <2>1. InQueue!Take(l)
    BY <1>2 DEF NextPacket, InQueue!Take
  <2> QED BY <2>1 DEF InQueue!Next
<1>3. ASSUME ReadOne PROVE InQueue!Next
  <2> DEFINE p == Head(inBuf[cur])
  <2>1. cur \in Links /\ p \in Packet /\ in[cur] \in Seq(Packet)
    BY <1>3 DEF TypeOK, ReadOne
  <2>3. arrived' = [arrived EXCEPT ![cur] = @ \cup {p}]
    BY <1>3 DEF ReadOne
  <2>2. CASE /\ ~Refused(inFirehose[cur], p)
             /\ in' = [in EXCEPT ![cur] = Append(@, p)]
    <3>1. ~(p.droppable /\ InQueue!SameTopicWaits(in[cur], p))
      BY <2>1, <2>2, RefusedIsSameTopicWaitsIn DEF FirehoseExact
    <3>2. InQueue!Offer(cur, p)
      BY <2>2, <2>3, <3>1 DEF InQueue!Offer
    <3> QED BY <2>1, <3>2 DEF InQueue!Next
  <2>4. CASE Refused(inFirehose[cur], p) /\ in' = in
    <3>1. p.droppable /\ InQueue!SameTopicWaits(in[cur], p)
      BY <2>1, <2>4, RefusedIsSameTopicWaitsIn DEF FirehoseExact
    <3>2. InQueue!Refuse(cur, p)
      BY <2>3, <2>4, <3>1 DEF InQueue!Refuse
    <3> QED BY <2>1, <3>2 DEF InQueue!Next
  <2> QED BY <1>3, <2>2, <2>4, ReadOneCases
<1>5. ASSUME UserThread PROVE InQueue!Next \/ UNCHANGED <<in, arrived>>
  BY <1>1, <1>2, <1>5 DEF UserThread, AddSocket, RemoveSocket, Send, Exit, bufferVars,
     historyVars
<1>6. ASSUME NetworkThread PROVE InQueue!Next \/ UNCHANGED <<in, arrived>>
  BY <1>3, <1>6 DEF NetworkThread, StartPass, LeaveLoop, Visit, WriteOne, Flushed,
     Update, Receive, EndVisit, EndPass, bufferVars, historyVars
<1>7. ASSUME Peer PROVE UNCHANGED <<in, arrived>>
  BY <1>7 DEF Peer, PeerRead, PeerSend, PeerClose, bufferVars, historyVars
<1> QED BY <1>5, <1>6, <1>7 DEF Next

(* Received packets pass through a queue of the abstract kind. *)
THEOREM InRefinesQueue == Spec => InImplementsQueue
<1>1. Init => InQueue!Init
  BY DEF Init, InQueue!Init
<1>2. TypeOK /\ FirehoseExact /\ [Next]_vars => [InQueue!Next]_<<in, arrived>>
  BY InStep DEF vars, bufferVars, historyVars
<1> QED BY <1>1, <1>2, TypeCorrect, FirehoseIsExact, PTL
        DEF Spec, InImplementsQueue, InQueue!Spec

(* The abstract out queue: what is pending on each link. *)
PendingAll == [l \in Links |-> Pending(l)]

(* A step that leaves the out queues and the position of the write loop    *)
(* alone leaves what is pending alone.                                     *)
LEMMA SamePending ==
  ASSUME out' = out, wi' = wi, cur' = cur, (pc = "write") <=> (pc' = "write")
  PROVE  PendingAll' = PendingAll
BY DEF PendingAll, Pending, HoldsBuffer

(* A step of the out direction is a step of the abstract queue, or none.   *)
(* The lock is what makes it so: send, which appends to out, never runs    *)
(* while a part of out has been handed over and not yet cleared.           *)
LEMMA OutStep ==
  ASSUME TypeOK, FirehoseExact, Next
  PROVE  OutQueue!Next \/ UNCHANGED <<PendingAll, offered>>
<1>1. ASSUME NEW l \in Links, ResetBuffer(l), ~HoldsMut, UNCHANGED threadVars
      PROVE  OutQueue!Next
  <2>1. \A m \in Links : Pending(m) = out[m] /\ Pending(m)' = out'[m]
    BY <1>1 DEF HoldsMut, Pending, HoldsBuffer, threadVars
  <2>2. \A m \in Links : out'[m] = IF m = l THEN <<>> ELSE out[m]
    BY <1>1 DEF ResetBuffer, TypeOK
  <2>3. PendingAll' = [PendingAll EXCEPT ![l] = <<>>]
    BY <2>1, <2>2 DEF PendingAll
  <2>4. OutQueue!Discard(l)
    BY <1>1, <2>3 DEF OutQueue!Discard, PendingAll, ResetBuffer
  <2> QED BY <2>4 DEF OutQueue!Next
<1>2. ASSUME NEW l \in Links, NEW p \in Packet, Send(l, p)
      PROVE  OutQueue!Next
  <2>1. pc' = pc /\ cur' = cur /\ wi' = wi /\ ~HoldsBuffer(l)
    BY <1>2 DEF Send, threadVars
  <2>4. offered' = [offered EXCEPT ![l] = @ \cup {p}]
    BY <1>2 DEF Send
  <2>5. Pending(l) = out[l] /\ out[l] \in Seq(Packet)
    BY <2>1 DEF Pending, TypeOK
  <2>2. CASE Refused(outFirehose[l], p) /\ out' = out
    <3>1. PendingAll' = PendingAll
      BY <2>1, <2>2, SamePending
    <3>2. p.droppable /\ OutQueue!SameTopicWaits(PendingAll[l], p)
      BY <2>2, <2>5, RefusedIsSameTopicWaits DEF FirehoseExact, PendingAll
    <3>3. OutQueue!Refuse(l, p)
      BY <2>4, <3>1, <3>2 DEF OutQueue!Refuse, PendingAll
    <3> QED BY <3>3 DEF OutQueue!Next
  <2>3. CASE /\ ~Refused(outFirehose[l], p)
             /\ out' = [out EXCEPT ![l] = Append(@, p)]
    <3>2. \A m \in Links : Pending(m)' = IF m = l THEN Append(out[l], p) ELSE Pending(m)
      BY <2>1, <2>3 DEF Pending, HoldsBuffer, TypeOK
    <3>3. PendingAll' = [PendingAll EXCEPT ![l] = Append(@, p)]
      BY <2>5, <3>2 DEF PendingAll
    <3>4. ~(p.droppable /\ OutQueue!SameTopicWaits(PendingAll[l], p))
      BY <2>3, <2>5, RefusedIsSameTopicWaits DEF FirehoseExact, PendingAll
    <3>5. OutQueue!Offer(l, p)
      BY <2>4, <3>3, <3>4 DEF OutQueue!Offer, PendingAll
    <3> QED BY <3>5 DEF OutQueue!Next
  <2> QED BY <1>2, <2>2, <2>3, SendCases
<1>3. ASSUME NEW l \in Links, Visit(l) PROVE UNCHANGED <<PendingAll, offered>>
  <2>1. \A m \in Links : Pending(m) = out[m] /\ out'[m] = out[m]
    BY <1>3 DEF Visit, Pending, HoldsBuffer, bufferVars
  <2>2. \A m \in Links : Pending(m)' = out[m]
    <3> TAKE m \in Links
    <3>1. CASE HoldsBuffer(m)'
      <4>1. Pending(m)' = SubSeq(out[m], 1, Len(out[m]))
        BY <1>3, <2>1, <3>1 DEF Visit, Pending
      <4> QED BY <4>1, SubSeqFull DEF TypeOK
    <3>2. CASE ~HoldsBuffer(m)'
      BY <2>1, <3>2 DEF Pending
    <3> QED BY <3>1, <3>2
  <2> QED BY <1>3, <2>1, <2>2 DEF PendingAll, Visit, historyVars
<1>4. ASSUME WriteOne, NEW c \in Links, cur = c PROVE OutQueue!Next
  <2>1. out[c] \in Seq(Packet) /\ wi \in 1..Len(out[c])
    BY <1>4 DEF WriteOne, TypeOK
  <2>2. /\ Pending(c) = SubSeq(out[c], wi, Len(out[c]))
        /\ Pending(c)' = SubSeq(out[c], wi + 1, Len(out[c]))
        /\ \A m \in Links : m # c => Pending(m)' = Pending(m)
    BY <1>4 DEF WriteOne, Pending, HoldsBuffer, bufferVars
  <2>3. Tail(Pending(c)) = Pending(c)'
    BY <2>1, <2>2, HeadTailOfSubSeq
  <2>4. Pending(c) # <<>>
    <3>1. Len(SubSeq(out[c], wi, Len(out[c]))) = Len(out[c]) - wi + 1
      BY <2>1, SubSeqProperties
    <3>2. Len(Pending(c)) # 0
      BY <2>1, <2>2, <3>1
    <3>3. Len(<<>>) = 0
      OBVIOUS
    <3> QED BY <3>2, <3>3
  <2>5. PendingAll' = [PendingAll EXCEPT ![c] = Tail(@)]
    BY <2>2, <2>3 DEF PendingAll
  <2>6. OutQueue!Take(c)
    <3>1. offered' = offered
      BY <1>4 DEF WriteOne
    <3> QED BY <2>4, <2>5, <3>1 DEF OutQueue!Take, PendingAll
  <2> QED BY <2>6 DEF OutQueue!Next
<1>5. ASSUME Flushed, NEW c \in Links, cur = c PROVE UNCHANGED <<PendingAll, offered>>
  <2>1. Pending(c) = <<>>
    BY <1>5, SubSeqEmpty DEF Flushed, WriteLoopEnds, Pending, HoldsBuffer, TypeOK
  <2>2. Pending(c)' = <<>>
    BY <1>5 DEF Flushed, Pending, HoldsBuffer, TypeOK
  <2>3. \A m \in Links : m # c => Pending(m)' = Pending(m)
    BY <1>5 DEF Flushed, Pending, HoldsBuffer, TypeOK
  <2>4. \A m \in Links : Pending(m)' = Pending(m)
    BY <2>1, <2>2, <2>3
  <2> QED BY <1>5, <2>4 DEF PendingAll, Flushed, historyVars
<1>6. ASSUME UserThread PROVE OutQueue!Next \/ UNCHANGED <<PendingAll, offered>>
  <2>1. ASSUME NEW l \in Links, AddSocket(l) \/ RemoveSocket(l) PROVE OutQueue!Next
    BY <1>1, <2>1 DEF AddSocket, RemoveSocket
  <2>2. ASSUME NEW l \in Links, NextPacket(l) PROVE UNCHANGED <<PendingAll, offered>>
    BY <2>2, SamePending DEF NextPacket, threadVars
  <2>3. ASSUME Exit PROVE UNCHANGED <<PendingAll, offered>>
    BY <2>3, SamePending DEF Exit, bufferVars, historyVars
  <2> QED BY <1>2, <1>6, <2>1, <2>2, <2>3 DEF UserThread
<1>7. ASSUME NetworkThread PROVE OutQueue!Next \/ UNCHANGED <<PendingAll, offered>>
  <2>1. ASSUME StartPass \/ LeaveLoop \/ EndVisit \/ EndPass \/ Update
        PROVE  UNCHANGED <<PendingAll, offered>>
    BY <2>1, SamePending DEF StartPass, LeaveLoop, EndVisit, EndPass, Update, bufferVars,
       historyVars
  <2>2. ASSUME Receive \/ ReadOne PROVE UNCHANGED <<PendingAll, offered>>
    BY <2>2, SamePending DEF Receive, ReadOne, bufferVars, threadVars,
       historyVars
  <2>3. ASSUME WriteOne PROVE OutQueue!Next
    BY <1>4, <2>3 DEF TypeOK
  <2>4. ASSUME Flushed PROVE UNCHANGED <<PendingAll, offered>>
    BY <1>5, <2>4 DEF TypeOK
  <2> QED BY <1>3, <1>7, <2>1, <2>2, <2>3, <2>4 DEF NetworkThread
<1>8. ASSUME Peer PROVE UNCHANGED <<PendingAll, offered>>
  BY <1>8, SamePending DEF Peer, PeerRead, PeerSend, PeerClose, bufferVars, threadVars,
     historyVars
<1> QED BY <1>6, <1>7, <1>8 DEF Next

(* Sent packets pass through a queue of the abstract kind: what the write  *)
(* loop has not yet handed over is a FIFO with one droppable packet per    *)
(* topic, whatever the interleaving of send with the pass.                 *)
THEOREM OutRefinesQueue == Spec => OutImplementsQueue
<1>1. Init => OutQueue!Init
  BY DEF Init, OutQueue!Init, Pending, HoldsBuffer
<1>2. TypeOK /\ FirehoseExact /\ [Next]_vars => [OutQueue!Next]_<<PendingAll, offered>>
  <2> SUFFICES ASSUME TypeOK, FirehoseExact, [Next]_vars
               PROVE  OutQueue!Next \/ UNCHANGED <<PendingAll, offered>>
    OBVIOUS
  <2>1. CASE UNCHANGED vars
    BY <2>1, SamePending DEF vars, bufferVars, threadVars, historyVars
  <2> QED BY <2>1, OutStep
<1> QED BY <1>1, <1>2, TypeCorrect, FirehoseIsExact, PTL
        DEF Spec, OutImplementsQueue, OutQueue!Spec, PendingAll

-----------------------------------------------------------------------------
(* Streams. *)

(* Every packet of s is older than every packet of t. *)
Below(s, t) == \A j \in 1..Len(s), k \in 1..Len(t) : s[j].id < t[k].id

(* Every packet of s is older than the one that is offered next. *)
OlderThan(s, n) == \A k \in 1..Len(s) : s[k].id < n

LEMMA IdIsNumber ==
  ASSUME NEW p \in Packet
  PROVE  p.id \in Nat
BY BoundsAssumption DEF Packet

LEMMA IdsAreNumbers ==
  ASSUME NEW s \in Seq(Packet), NEW k \in 1..Len(s)
  PROVE  s[k] \in Packet /\ s[k].id \in Nat
<1>1. s[k] \in Packet
  BY ElementOfSeq
<1> QED BY <1>1, BoundsAssumption DEF Packet

LEMMA AppendFacts ==
  ASSUME NEW s \in Seq(Packet), NEW p \in Packet
  PROVE  /\ Append(s, p) \in Seq(Packet)
         /\ Len(s) \in Nat /\ Len(Append(s, p)) = Len(s) + 1
         /\ \A k \in 1..Len(s) : Append(s, p)[k] = s[k]
         /\ Append(s, p)[Len(s) + 1] = p
BY AppendProperties, LenProperties

LEMMA TailFacts ==
  ASSUME NEW s \in Seq(Packet), s # <<>>
  PROVE  /\ Tail(s) \in Seq(Packet) /\ Head(s) \in Packet /\ Head(s) = s[1]
         /\ Len(s) \in Nat /\ 1 \in 1..Len(s) /\ Len(Tail(s)) = Len(s) - 1
         /\ \A k \in 1..Len(Tail(s)) : k + 1 \in 1..Len(s) /\ Tail(s)[k] = s[k + 1]
<1>1. Len(s) \in Nat \ {0}
  BY EmptySeq
<1> QED BY <1>1, HeadTailProperties

LEMMA ConcatFacts ==
  ASSUME NEW s \in Seq(Packet), NEW t \in Seq(Packet)
  PROVE  /\ s \o t \in Seq(Packet) /\ Len(s) \in Nat /\ Len(t) \in Nat
         /\ Len(s \o t) = Len(s) + Len(t)
         /\ \A k \in 1..Len(s) : (s \o t)[k] = s[k]
         /\ \A k \in 1..Len(t) : (s \o t)[Len(s) + k] = t[k]
         /\ \A k \in 1..Len(s \o t) :
              k \in 1..Len(s) \/ \E i \in 1..Len(t) : k = Len(s) + i
<1>1. Len(s) \in Nat /\ Len(t) \in Nat
  BY LenProperties
<1>2. /\ s \o t \in Seq(Packet) /\ Len(s \o t) = Len(s) + Len(t)
      /\ \A i \in 1 .. Len(s) + Len(t) :
           (s \o t)[i] = IF i <= Len(s) THEN s[i] ELSE t[i - Len(s)]
  BY ConcatProperties
<1>3. \A k \in 1..Len(s) : (s \o t)[k] = s[k]
  BY <1>1, <1>2
<1>4. ASSUME NEW k \in 1..Len(t) PROVE (s \o t)[Len(s) + k] = t[k]
  <2>1. Len(s) + k \in 1..Len(s) + Len(t) /\ ~(Len(s) + k <= Len(s)) /\ Len(s) + k - Len(s) = k
    BY <1>1
  <2> QED BY <1>2, <2>1
<1>5. ASSUME NEW k \in 1..Len(s \o t), k \notin 1..Len(s)
      PROVE  k - Len(s) \in 1..Len(t) /\ k = Len(s) + (k - Len(s))
  BY <1>1, <1>2, <1>5
<1> QED BY <1>1, <1>2, <1>3, <1>4, <1>5

LEMMA Associate ==
  ASSUME NEW s \in Seq(Packet), NEW t \in Seq(Packet), NEW u \in Seq(Packet)
  PROVE  (s \o t) \o u = s \o (t \o u)
BY ConcatAssociative

LEMMA EmptyStream ==
  /\ <<>> \in Seq(Packet) /\ Increasing(<<>>)
  /\ \A s : Below(<<>>, s) /\ Below(s, <<>>)
  /\ \A n : OlderThan(<<>>, n)
BY EmptySeq DEF Increasing, Below, OlderThan

(* A packet newer than the others is appended. *)
LEMMA AppendNewest ==
  ASSUME NEW s \in Seq(Packet), NEW p \in Packet, NEW n \in Nat,
         Increasing(s), OlderThan(s, p.id), p.id < n
  PROVE  Increasing(Append(s, p)) /\ OlderThan(Append(s, p), n)
<1> DEFINE t == Append(s, p)
<1>1. /\ t \in Seq(Packet) /\ Len(s) \in Nat /\ Len(t) = Len(s) + 1
      /\ \A k \in 1..Len(s) : t[k] = s[k] /\ t[k].id < p.id
      /\ t[Len(s) + 1] = p
  BY AppendFacts DEF OlderThan
<1> HIDE DEF t
<1>2. ASSUME NEW j \in 1..Len(t), NEW k \in 1..Len(t), j < k PROVE t[j].id < t[k].id
  <2>1. CASE k \in 1..Len(s)
    <3>1. j \in 1..Len(s)
      BY <1>1, <1>2, <2>1
    <3> QED BY <1>1, <1>2, <2>1, <3>1 DEF Increasing
  <2>2. CASE k = Len(s) + 1
    <3>1. j \in 1..Len(s)
      BY <1>1, <1>2, <2>2
    <3> QED BY <1>1, <2>2, <3>1
  <2> QED BY <1>1, <2>1, <2>2
<1>3. ASSUME NEW k \in 1..Len(t) PROVE t[k].id < n
  <2>1. t[k].id \in Nat /\ p.id \in Nat
    BY <1>1, IdsAreNumbers, IdIsNumber
  <2>2. CASE k \in 1..Len(s)
    BY <1>1, <2>1, <2>2
  <2>3. CASE k = Len(s) + 1
    BY <1>1, <2>3
  <2> QED BY <1>1, <2>2, <2>3
<1> QED BY <1>2, <1>3 DEF t, Increasing, OlderThan

(* The oldest packet is removed. *)
LEMMA RemoveOldest ==
  ASSUME NEW t \in Seq(Packet), t # <<>>, NEW n, Increasing(t), OlderThan(t, n)
  PROVE  /\ Increasing(Tail(t)) /\ OlderThan(Tail(t), n) /\ Head(t).id < n
         /\ \A k \in 1..Len(Tail(t)) : Head(t).id < Tail(t)[k].id
<1>1. /\ Head(t) = t[1] /\ 1 \in 1..Len(t)
      /\ \A k \in 1..Len(Tail(t)) : k + 1 \in 1..Len(t) /\ Tail(t)[k] = t[k + 1]
  BY TailFacts
<1>2. \A k \in 1..Len(Tail(t)) : 1 < k + 1
  OBVIOUS
<1>3. \A k \in 1..Len(Tail(t)) : Head(t).id < Tail(t)[k].id
  BY <1>1, <1>2 DEF Increasing
<1>4. OlderThan(Tail(t), n) /\ Head(t).id < n
  BY <1>1 DEF OlderThan
<1>5. ASSUME NEW j \in 1..Len(Tail(t)), NEW k \in 1..Len(Tail(t)), j < k
      PROVE  Tail(t)[j].id < Tail(t)[k].id
  <2>1. j + 1 < k + 1
    BY <1>5
  <2> QED BY <1>1, <2>1 DEF Increasing
<1> QED BY <1>3, <1>4, <1>5 DEF Increasing

(* Two increasing streams, one below the other, make one. *)
LEMMA IncreasingConcat ==
  ASSUME NEW s \in Seq(Packet), NEW t \in Seq(Packet),
         Increasing(s), Increasing(t), Below(s, t)
  PROVE  Increasing(s \o t)
<1> DEFINE u == s \o t
<1>1. /\ Len(s) \in Nat /\ Len(t) \in Nat
      /\ \A k \in 1..Len(s) : u[k] = s[k]
      /\ \A k \in 1..Len(t) : u[Len(s) + k] = t[k]
      /\ \A k \in 1..Len(u) :
           k \in 1..Len(s) \/ \E i \in 1..Len(t) : k = Len(s) + i
  BY ConcatFacts
<1> HIDE DEF u
<1>2. ASSUME NEW j \in 1..Len(u), NEW k \in 1..Len(u), j < k PROVE u[j].id < u[k].id
  <2>1. CASE k \in 1..Len(s)
    <3>1. j \in 1..Len(s)
      BY <1>1, <1>2, <2>1
    <3> QED BY <1>1, <1>2, <2>1, <3>1 DEF Increasing
  <2>2. ASSUME NEW i \in 1..Len(t), k = Len(s) + i PROVE u[j].id < u[k].id
    <3>1. CASE j \in 1..Len(s)
      BY <1>1, <2>2, <3>1 DEF Below
    <3>2. ASSUME NEW h \in 1..Len(t), j = Len(s) + h PROVE u[j].id < u[k].id
      <4>1. h < i
        BY <1>1, <1>2, <2>2, <3>2
      <4> QED BY <1>1, <2>2, <3>2, <4>1 DEF Increasing
    <3> QED BY <1>1, <3>1, <3>2
  <2> QED BY <1>1, <2>1, <2>2
<1> QED BY <1>2 DEF u, Increasing

(* The order and the age of a part of a stream. *)
LEMMA OlderParts ==
  ASSUME NEW s \in Seq(Packet), NEW t \in Seq(Packet), NEW n, OlderThan(s \o t, n)
  PROVE  OlderThan(s, n) /\ OlderThan(t, n)
<1>1. /\ \A k \in 1..Len(s) : k \in 1..Len(s \o t) /\ (s \o t)[k] = s[k]
      /\ \A k \in 1..Len(t) : Len(s) + k \in 1..Len(s \o t) /\ (s \o t)[Len(s) + k] = t[k]
  BY ConcatFacts
<1> QED BY <1>1 DEF OlderThan

(* The head of a stream is moved to the end of the one before it. *)
LEMMA MoveHead ==
  ASSUME NEW s \in Seq(Packet), NEW t \in Seq(Packet), t # <<>>
  PROVE  Append(s, Head(t)) \o Tail(t) = s \o t
<1> DEFINE h == Head(t)
           r == Tail(t)
<1>1. h \in Packet /\ r \in Seq(Packet)
  BY TailFacts
<1>2. <<h>> \o r = t
  <2>1. <<h>> \in Seq(Packet) /\ Len(<<h>>) = 1 /\ <<h>>[1] = h
    BY <1>1
  <2>2. /\ <<h>> \o r \in Seq(Packet) /\ Len(<<h>> \o r) = Len(t)
    BY <1>1, <2>1, ConcatFacts, TailFacts
  <2>3. ASSUME NEW k \in 1..Len(t) PROVE (<<h>> \o r)[k] = t[k]
    <3>1. CASE k = 1
      BY <1>1, <2>1, <3>1, ConcatFacts, TailFacts
    <3>2. CASE k # 1
      <4>1. k - 1 \in 1..Len(r) /\ t[(k - 1) + 1] = r[k - 1] /\ (k - 1) + 1 = k
        BY <3>2, TailFacts
      <4>2. (<<h>> \o r)[1 + (k - 1)] = r[k - 1]
        BY <1>1, <2>1, <4>1, ConcatFacts
      <4>3. 1 + (k - 1) = k
        OBVIOUS
      <4> QED BY <4>1, <4>2, <4>3
    <3> QED BY <3>1, <3>2
  <2> QED BY <2>2, <2>3, SeqEqual
<1>3. Append(s, h) = s \o <<h>>
  BY <1>1, AppendIsConcat
<1>4. (s \o <<h>>) \o r = s \o (<<h>> \o r)
  BY <1>1, ConcatAssociative
<1> QED BY <1>2, <1>3, <1>4

LEMMA AppendToLast ==
  ASSUME NEW s \in Seq(Packet), NEW t \in Seq(Packet), NEW p \in Packet
  PROVE  s \o Append(t, p) = Append(s \o t, p)
<1>1. <<p>> \in Seq(Packet) /\ s \o t \in Seq(Packet)
  BY ConcatFacts
<1>2. Append(t, p) = t \o <<p>> /\ Append(s \o t, p) = (s \o t) \o <<p>>
  BY <1>1, AppendIsConcat
<1> QED BY <1>1, <1>2, ConcatAssociative

(* A packet that a stream represents it represents when the stream grows. *)
LEMMA StillRepresented ==
  ASSUME NEW s \in Seq(Packet), NEW q \in Packet, NEW p
  PROVE  /\ Represented(p, s) => Represented(p, Append(s, q))
         /\ Represented(q, Append(s, q))
<1>1. /\ \A k \in 1..Len(s) : k \in 1..Len(Append(s, q)) /\ Append(s, q)[k] = s[k]
      /\ Len(s) + 1 \in 1..Len(Append(s, q)) /\ Append(s, q)[Len(s) + 1] = q
  BY AppendFacts
<1> QED BY <1>1 DEF Represented

(* A packet that was refused is represented by the one that waits. *)
LEMMA RefusedRepresented ==
  ASSUME NEW s \in Seq(Packet), NEW t \in Seq(Packet), NEW p \in Packet,
         Refused(DroppableTopics(t), p),
         \A k \in 1..Len(t) : t[k].id < p.id
  PROVE  Represented(p, s \o t)
<1>1. PICK k \in 1..Len(t) : t[k].droppable /\ t[k].topic = p.topic
  BY DEF Refused, DroppableTopics
<1>2. Len(s) + k \in 1..Len(s \o t) /\ (s \o t)[Len(s) + k] = t[k]
  BY ConcatFacts
<1>3. p.droppable /\ t[k].id < p.id
  BY DEF Refused
<1> QED BY <1>1, <1>2, <1>3 DEF Represented

-----------------------------------------------------------------------------
(* Sending. *)

(* All that was accepted for l since it is watched, in order: what was     *)
(* handed to the channel and what is still to be written.                  *)
OutStream(l) == handed[l] \o Pending(l)

OutOK(l) ==
  /\ Increasing(OutStream(l)) /\ OlderThan(OutStream(l), nextId)
  /\ \A p \in offered[l] : Represented(p, OutStream(l))

LEMMA PendingType ==
  ASSUME TypeOK, NEW l \in Links
  PROVE  /\ Pending(l) \in Seq(Packet) /\ handed[l] \in Seq(Packet)
         /\ OutStream(l) \in Seq(Packet) /\ nextId \in Nat
<1>1. out[l] \in Seq(Packet) /\ handed[l] \in Seq(Packet) /\ wi \in Nat \ {0}
  BY DEF TypeOK
<1>2. Len(out[l]) \in Nat /\ \A i \in wi..Len(out[l]) : out[l][i] \in Packet
  BY <1>1, ElementOfSeq, LenProperties
<1>3. SubSeq(out[l], wi, Len(out[l])) \in Seq(Packet)
  BY <1>1, <1>2, SubSeqProperties
<1>4. Pending(l) \in Seq(Packet)
  BY <1>1, <1>3 DEF Pending
<1>5. nextId \in Nat
  BY BoundsAssumption DEF TypeOK
<1> QED BY <1>1, <1>4, <1>5, ConcatFacts DEF OutStream

LEMMA OutKept ==
  ASSUME NEW l \in Links, OutOK(l), TypeOK, TypeOK',
         OutStream(l)' = OutStream(l), offered'[l] = offered[l],
         nextId' \in {nextId, nextId + 1}
  PROVE  OutOK(l)'
<1>1. \A k \in 1..Len(OutStream(l)) : OutStream(l)[k].id \in Nat
  BY PendingType, IdsAreNumbers
<1>2. nextId \in Nat
  BY PendingType
<1>3. OlderThan(OutStream(l), nextId')
  BY <1>1, <1>2 DEF OutOK, OlderThan
<1> QED BY <1>3 DEF OutOK, OlderThan, Increasing, Represented

(* A step that leaves the queue and the write loop alone. *)
LEMMA OutUntouched ==
  ASSUME NEW l \in Links, OutOK(l), TypeOK, TypeOK',
         handed'[l] = handed[l], Pending(l)' = Pending(l), offered'[l] = offered[l],
         nextId' \in {nextId, nextId + 1}
  PROVE  OutOK(l)'
BY OutKept DEF OutStream

LEMMA OutReset ==
  ASSUME NEW l \in Links, NEW m \in Links, OutOK(l), TypeOK, TypeOK',
         ResetBuffer(m), ~HoldsMut, UNCHANGED <<threadVars, nextId>>
  PROVE  OutOK(l)'
<1>1. Pending(l) = out[l] /\ Pending(l)' = out'[l]
  BY DEF HoldsMut, Pending, HoldsBuffer, threadVars
<1>2. CASE l = m
  <2>1. out'[l] = <<>> /\ handed'[l] = <<>> /\ offered'[l] = {}
    BY <1>2 DEF ResetBuffer, TypeOK
  <2>2. OutStream(l)' = <<>>
    BY <1>1, <2>1, EmptyStream, ConcatEmptySeq DEF OutStream
  <2> QED BY <2>1, <2>2, EmptyStream DEF OutOK
<1>3. CASE l # m
  <2>1. out'[l] = out[l] /\ handed'[l] = handed[l] /\ offered'[l] = offered[l]
    BY <1>3 DEF ResetBuffer, TypeOK
  <2> QED BY <1>1, <2>1, OutUntouched
<1> QED BY <1>2, <1>3

LEMMA OutSend ==
  ASSUME NEW l \in Links, NEW m \in Links, NEW p \in Packet, OutOK(l), TypeOK, TypeOK',
         FirehoseExact, Send(m, p)
  PROVE  OutOK(l)'
<1>1. /\ pc' = pc /\ cur' = cur /\ wi' = wi /\ ~HoldsBuffer(m) /\ handed' = handed
      /\ p.id = nextId /\ nextId' = nextId + 1 /\ nextId \in Nat
  BY PendingType DEF Send, threadVars, Fresh
<1>2. \A k \in Links : offered'[k] = IF k = m THEN offered[k] \cup {p} ELSE offered[k]
  BY DEF Send, TypeOK
<1>3. out[m] \in Seq(Packet)
  BY DEF TypeOK
<1>4. CASE l # m
  <2>1. out'[l] = out[l]
    <3>1. out' = out \/ out' = [out EXCEPT ![m] = Append(@, p)]
      BY SendCases
    <3>2. out \in [Links -> Seq(Packet)]
      BY DEF TypeOK
    <3> QED BY <1>4, <3>1, <3>2
  <2>2. Pending(l)' = Pending(l)
    BY <1>1, <2>1 DEF Pending, HoldsBuffer
  <2> QED BY <1>1, <1>2, <1>4, <2>2, OutUntouched
<1>5. CASE l = m /\ Refused(outFirehose[m], p) /\ out' = out
  <2>1. Pending(l) = out[l] /\ Pending(l)' = out[l]
    BY <1>1, <1>5 DEF Pending, HoldsBuffer
  <2>2. OutStream(l)' = OutStream(l)
    BY <1>1, <2>1 DEF OutStream
  <2>3. OlderThan(out[l], p.id)
    BY <1>1, <2>1, PendingType, OlderParts DEF OutOK, OutStream
  <2>4. Represented(p, OutStream(l))
    <3>1. Refused(DroppableTopics(out[l]), p)
      BY <1>5 DEF FirehoseExact
    <3>2. \A k \in 1..Len(out[l]) : out[l][k].id < p.id
      BY <2>3 DEF OlderThan
    <3>3. handed[l] \in Seq(Packet) /\ out[l] \in Seq(Packet)
      BY DEF TypeOK
    <3> QED BY <2>1, <3>1, <3>2, <3>3, RefusedRepresented DEF OutStream
  <2>5. \A k \in 1..Len(OutStream(l)) : OutStream(l)[k].id \in Nat
    BY PendingType, IdsAreNumbers
  <2>6. OlderThan(OutStream(l), nextId + 1)
    BY <1>1, <2>5 DEF OutOK, OlderThan
  <2>7. \A q \in offered'[l] : Represented(q, OutStream(l))
    BY <1>2, <1>5, <2>4 DEF OutOK
  <2>8. Increasing(OutStream(l))
    BY DEF OutOK
  <2> QED BY <1>1, <2>2, <2>6, <2>7, <2>8 DEF OutOK, OlderThan, Increasing, Represented
<1>6. CASE l = m /\ out' = [out EXCEPT ![m] = Append(@, p)]
  <2>1. Pending(l) = out[l] /\ Pending(l)' = Append(out[l], p)
    <3>1. out'[l] = Append(out[l], p)
      <4>1. out \in [Links -> Seq(Packet)]
        BY DEF TypeOK
      <4> QED BY <1>6, <4>1
    <3>2. Pending(l) = out[l]
      BY <1>1, <1>6 DEF Pending
    <3>3. ~HoldsBuffer(l)'
      BY <1>1, <1>6 DEF HoldsBuffer
    <3> QED BY <3>1, <3>2, <3>3 DEF Pending
  <2>2. OutStream(l)' = Append(OutStream(l), p)
    <3>1. handed[l] \in Seq(Packet) /\ out[l] \in Seq(Packet)
      BY DEF TypeOK
    <3>2. handed[l] \o Append(out[l], p) = Append(handed[l] \o out[l], p)
      BY <3>1, AppendToLast
    <3> QED BY <1>1, <2>1, <3>2 DEF OutStream
  <2>3. /\ Increasing(Append(OutStream(l), p))
        /\ OlderThan(Append(OutStream(l), p), nextId + 1)
    BY <1>1, PendingType, AppendNewest DEF OutOK
  <2>4. \A q \in offered'[l] : Represented(q, Append(OutStream(l), p))
    BY <1>2, <1>6, PendingType, StillRepresented DEF OutOK
  <2> QED BY <1>1, <2>2, <2>3, <2>4 DEF OutOK, OlderThan, Increasing, Represented
<1> QED BY <1>4, <1>5, <1>6, SendCases

LEMMA OutWriteOne ==
  ASSUME NEW l \in Links, OutOK(l), TypeOK, TypeOK', WriteOne
  PROVE  OutOK(l)'
<1>1. PICK c \in Links : c = cur
  BY DEF TypeOK
<1>2. /\ pc = "write" /\ pc' = pc /\ cur' = cur /\ out' = out /\ wi' = wi + 1
      /\ offered' = offered /\ nextId' = nextId
      /\ handed' = [handed EXCEPT ![c] = Append(@, out[c][wi])]
      /\ wi <= Len(out[c])
  BY <1>1 DEF WriteOne, bufferVars
<1>3. out[c] \in Seq(Packet) /\ handed[c] \in Seq(Packet) /\ wi \in 1..Len(out[c])
  <2>1. out[c] \in Seq(Packet) /\ handed[c] \in Seq(Packet) /\ wi \in Nat \ {0}
    BY DEF TypeOK
  <2> QED BY <1>2, <2>1, LenProperties
<1>4. CASE l = c
  <2> DEFINE t == SubSeq(out[c], wi, Len(out[c]))
  <2>1. Head(t) = out[c][wi] /\ Tail(t) = SubSeq(out[c], wi + 1, Len(out[c]))
    BY <1>3, HeadTailOfSubSeq, LenProperties
  <2>2. Pending(l) = t /\ Pending(l)' = Tail(t)
    BY <1>1, <1>2, <1>4, <2>1 DEF Pending, HoldsBuffer
  <2>3. handed'[l] = Append(handed[l], Head(t))
    <3>1. handed \in [Links -> Seq(Packet)]
      BY DEF TypeOK
    <3> QED BY <1>2, <1>4, <2>1, <3>1
  <2>4. t \in Seq(Packet)
    BY <2>2, PendingType
  <2>5. t # <<>>
    <3>1. t = <<out[c][wi]>> \o SubSeq(out[c], wi + 1, Len(out[c]))
      BY <1>3, SubSeqRecursiveFirst, LenProperties
    <3>2. Len(t) = Len(out[c]) - wi + 1
      <4>1. \A i \in wi..Len(out[c]) : out[c][i] \in Packet
        BY <1>3, ElementOfSeq
      <4> QED BY <1>3, <4>1, SubSeqProperties, LenProperties
    <3>3. Len(t) # 0
      BY <1>3, <3>2, LenProperties
    <3> QED BY <3>3, EmptySeq
  <2>6. OutStream(l)' = OutStream(l)
    BY <1>3, <1>4, <2>2, <2>3, <2>4, <2>5, MoveHead DEF OutStream
  <2> QED BY <1>2, <2>6, OutKept
<1>5. CASE l # c
  <2>1. Pending(l)' = Pending(l)
    BY <1>1, <1>2, <1>5 DEF Pending, HoldsBuffer
  <2>2. handed'[l] = handed[l]
    <3>1. handed \in [Links -> Seq(Packet)]
      BY DEF TypeOK
    <3> QED BY <1>2, <1>5, <3>1
  <2> QED BY <1>2, <2>1, <2>2, OutUntouched
<1> QED BY <1>4, <1>5

LEMMA OutFlushed ==
  ASSUME NEW l \in Links, OutOK(l), TypeOK, TypeOK', Flushed
  PROVE  OutOK(l)'
<1>1. /\ pc = "write" /\ pc' = "update" /\ cur' = cur /\ wi > Len(out[cur]) /\ cur \in Links
      /\ out' = [out EXCEPT ![cur] = <<>>]
      /\ offered' = offered /\ nextId' = nextId /\ handed' = handed
  BY DEF Flushed, WriteLoopEnds, historyVars, TypeOK
<1>2. out \in [Links -> Seq(Packet)] /\ wi \in Nat
  BY DEF TypeOK
<1>3. Pending(l)' = out'[l]
  BY <1>1 DEF Pending, HoldsBuffer
<1>4. CASE l = cur
  <2>1. Pending(l) = <<>>
    BY <1>1, <1>2, <1>4, SubSeqEmpty, LenProperties DEF Pending, HoldsBuffer
  <2>2. out'[l] = <<>>
    BY <1>1, <1>2, <1>4
  <2> QED BY <1>1, <1>3, <2>1, <2>2, OutUntouched
<1>5. CASE l # cur
  <2>1. Pending(l) = out[l] /\ out'[l] = out[l]
    BY <1>1, <1>2, <1>5 DEF Pending, HoldsBuffer
  <2> QED BY <1>1, <1>3, <2>1, OutUntouched
<1> QED BY <1>4, <1>5

LEMMA OutVisit ==
  ASSUME NEW l \in Links, OutOK(l), TypeOK, TypeOK', NEW m \in Links, Visit(m)
  PROVE  OutOK(l)'
<1>1. /\ pc = "visit" /\ wi' = 1 /\ out' = out
      /\ offered' = offered /\ nextId' = nextId /\ handed' = handed
  BY DEF Visit, historyVars, bufferVars
<1>2. out[l] \in Seq(Packet)
  BY DEF TypeOK
<1>3. Pending(l) = out[l]
  BY <1>1 DEF Pending, HoldsBuffer
<1>4. Pending(l)' = out[l]
  BY <1>1, <1>2, SubSeqFull DEF Pending
<1> QED BY <1>1, <1>3, <1>4, OutUntouched

(* Of the other steps none touches the queue, and two offer a packet to    *)
(* the other direction.                                                    *)
LEMMA OutOther ==
  ASSUME NEW l \in Links, OutOK(l), TypeOK, TypeOK',
         UNCHANGED <<out, handed, offered>>, cur' = cur, wi' = wi,
         (pc = "write") <=> (pc' = "write"), nextId' \in {nextId, nextId + 1}
  PROVE  OutOK(l)'
<1>1. Pending(l)' = Pending(l)
  BY DEF Pending, HoldsBuffer
<1> QED BY <1>1, OutUntouched

LEMMA OutKeepsOrder ==
  ASSUME NEW l \in Links, OutOK(l), TypeOK, TypeOK', FirehoseExact, [Next]_vars
  PROVE  OutOK(l)'
<1> USE DEF vars, bufferVars, threadVars, linkVars, historyVars
<1>1. CASE UNCHANGED vars
  BY <1>1, OutOther
<1>2. ASSUME NEW m \in Links, AddSocket(m) \/ RemoveSocket(m) PROVE OutOK(l)'
  BY <1>2, OutReset DEF AddSocket, RemoveSocket
<1>3. ASSUME NEW m \in Links, NextPacket(m) PROVE OutOK(l)'
  BY <1>3, OutOther DEF NextPacket
<1>4. CASE UserThread
  BY <1>2, <1>3, <1>4, OutSend, OutOther DEF UserThread, Exit
<1>5. ASSUME StartPass \/ LeaveLoop \/ Update \/ EndVisit \/ EndPass PROVE OutOK(l)'
  BY <1>5, OutOther DEF StartPass, LeaveLoop, Update, EndVisit, EndPass
<1>6. ASSUME Receive \/ ReadOne PROVE OutOK(l)'
  BY <1>6, OutOther DEF Receive, ReadOne
<1>7. CASE NetworkThread
  BY <1>5, <1>6, <1>7, OutVisit, OutWriteOne, OutFlushed DEF NetworkThread
<1>8. ASSUME NEW m \in Links, NEW p \in Packet, PeerSend(m, p) PROVE OutOK(l)'
  BY <1>8, OutOther DEF PeerSend, Fresh
<1>9. ASSUME NEW m \in Links, PeerRead(m) \/ PeerClose(m) PROVE OutOK(l)'
  BY <1>9, OutOther DEF PeerRead, PeerClose
<1>10. CASE Peer
  BY <1>8, <1>9, <1>10 DEF Peer
<1> QED BY <1>1, <1>4, <1>7, <1>10 DEF Next

(* Every packet send() accepted (tcp_thread.cpp:79) is handed to the       *)
(* output channel or still waits, in the order of the calls and never      *)
(* twice; for one it refused an older droppable packet of its topic is.    *)
(* out.clear() after the write loop (tcp_thread.cpp:162) drops nothing.    *)
THEOREM OutputIsComplete == Spec => []OutputComplete
<1> DEFINE Inv == \A l \in Links : OutOK(l)
<1>1. Init => Inv
  <2> SUFFICES ASSUME Init, NEW l \in Links PROVE OutOK(l)
    OBVIOUS
  <2>1. OutStream(l) = <<>> \o <<>> /\ offered[l] = {}
    BY DEF Init, OutStream, Pending, HoldsBuffer
  <2>2. OutStream(l) = <<>>
    BY <2>1, EmptyStream, ConcatEmptySeq
  <2> QED BY <2>1, <2>2, EmptyStream DEF OutOK
<1>2. TypeOK /\ TypeOK' /\ FirehoseExact /\ Inv /\ [Next]_vars => Inv'
  BY OutKeepsOrder
<1>3. Inv => OutputComplete
  BY DEF OutOK, OutStream, OutputComplete
<1> QED BY <1>1, <1>2, <1>3, TypeCorrect, FirehoseIsExact, PTL DEF Spec

-----------------------------------------------------------------------------
(* Receiving. *)

(* What was parsed for l since it is watched and not dropped, and what is  *)
(* still to be parsed.                                                     *)
Queued(l)   == taken[l] \o in[l]
Unparsed(l) == inBuf[l] \o wireIn[l]

InOK(l) ==
  /\ Increasing(Queued(l)) /\ Increasing(Unparsed(l)) /\ Below(Queued(l), Unparsed(l))
  /\ OlderThan(Queued(l), nextId) /\ OlderThan(Unparsed(l), nextId)
  /\ \A p \in arrived[l] : /\ Represented(p, Queued(l)) /\ p.id < nextId
                           /\ \A k \in 1..Len(Unparsed(l)) : p.id < Unparsed(l)[k].id

LEMMA InTypes ==
  ASSUME TypeOK, NEW l \in Links
  PROVE  /\ taken[l] \in Seq(Packet) /\ in[l] \in Seq(Packet)
         /\ inBuf[l] \in Seq(Packet) /\ wireIn[l] \in Seq(Packet)
         /\ Queued(l) \in Seq(Packet) /\ Unparsed(l) \in Seq(Packet) /\ nextId \in Nat
<1>1. /\ taken[l] \in Seq(Packet) /\ in[l] \in Seq(Packet)
      /\ inBuf[l] \in Seq(Packet) /\ wireIn[l] \in Seq(Packet)
  BY DEF TypeOK
<1>2. nextId \in Nat
  BY BoundsAssumption DEF TypeOK
<1> QED BY <1>1, <1>2, ConcatFacts DEF Queued, Unparsed

LEMMA OlderLater ==
  ASSUME NEW s \in Seq(Packet), NEW n \in Nat, NEW m \in {n, n + 1}, OlderThan(s, n)
  PROVE  OlderThan(s, m)
<1>1. \A k \in 1..Len(s) : s[k].id \in Nat
  BY IdsAreNumbers
<1> QED BY <1>1 DEF OlderThan

LEMMA InKept ==
  ASSUME NEW l \in Links, InOK(l), TypeOK,
         Queued(l)' = Queued(l), Unparsed(l)' = Unparsed(l), arrived'[l] = arrived[l],
         nextId' \in {nextId, nextId + 1}
  PROVE  InOK(l)'
<1>1. OlderThan(Queued(l), nextId') /\ OlderThan(Unparsed(l), nextId')
  BY InTypes, OlderLater DEF InOK
<1>2. \A p \in arrived[l] : p.id < nextId'
  <2>1. \A p \in arrived[l] : p.id \in Nat
    BY IdIsNumber DEF TypeOK
  <2> QED BY <2>1, InTypes DEF InOK
<1> QED BY <1>1, <1>2 DEF InOK, OlderThan, Increasing, Below, Represented

(* A buffer that is fresh or gone. *)
LEMMA InReset ==
  ASSUME NEW l \in Links, NEW m \in Links, InOK(l), TypeOK,
         ResetBuffer(m), wireIn' = [wireIn EXCEPT ![m] = <<>>],
         inBuf' = [inBuf EXCEPT ![m] = <<>>], nextId' = nextId
  PROVE  InOK(l)'
<1>1. /\ wireIn \in [Links -> Seq(Packet)] /\ inBuf \in [Links -> Seq(Packet)]
      /\ taken \in [Links -> Seq(Packet)] /\ in \in [Links -> Seq(Packet)]
      /\ arrived \in [Links -> SUBSET Packet]
  BY DEF TypeOK
<1>2. CASE l = m
  <2>1. taken'[l] = <<>> /\ in'[l] = <<>> /\ arrived'[l] = {}
    BY <1>1, <1>2 DEF ResetBuffer
  <2>2. wireIn'[l] = <<>> /\ inBuf'[l] = <<>>
    BY <1>1, <1>2
  <2>3. Queued(l)' = <<>> /\ Unparsed(l)' = <<>>
    BY <2>1, <2>2, EmptyStream, ConcatEmptySeq DEF Queued, Unparsed
  <2> QED BY <2>1, <2>3, EmptyStream DEF InOK
<1>3. CASE l # m
  <2>1. taken'[l] = taken[l] /\ in'[l] = in[l] /\ arrived'[l] = arrived[l]
    BY <1>1, <1>3 DEF ResetBuffer
  <2>2. wireIn'[l] = wireIn[l] /\ inBuf'[l] = inBuf[l]
    BY <1>1, <1>3
  <2> QED BY <2>1, <2>2, InKept DEF Queued, Unparsed
<1> QED BY <1>2, <1>3

LEMMA InNextPacket ==
  ASSUME NEW l \in Links, NEW m \in Links, InOK(l), TypeOK, NextPacket(m)
  PROVE  InOK(l)'
<1>1. /\ in[m] # <<>> /\ UNCHANGED <<inBuf, wireIn, nextId, arrived>>
      /\ in' = [in EXCEPT ![m] = Tail(@)]
      /\ taken' = [taken EXCEPT ![m] = Append(@, Head(in[m]))]
  BY DEF NextPacket, linkVars
<1>2. in \in [Links -> Seq(Packet)] /\ taken \in [Links -> Seq(Packet)]
  BY DEF TypeOK
<1>3. CASE l = m
  <2>1. in'[l] = Tail(in[l]) /\ taken'[l] = Append(taken[l], Head(in[l]))
    BY <1>1, <1>2, <1>3
  <2>2. Queued(l)' = Queued(l)
    <3>1. Append(taken[l], Head(in[l])) \o Tail(in[l]) = taken[l] \o in[l]
      BY <1>1, <1>3, InTypes, MoveHead
    <3> QED BY <2>1, <3>1 DEF Queued
  <2> QED BY <1>1, <2>2, InKept DEF Unparsed
<1>4. CASE l # m
  <2>1. in'[l] = in[l] /\ taken'[l] = taken[l]
    BY <1>1, <1>2, <1>4
  <2> QED BY <1>1, <2>1, InKept DEF Queued, Unparsed
<1> QED BY <1>3, <1>4

(* update() closes the channel: what is not parsed never arrives. *)
LEMMA InUpdate ==
  ASSUME NEW l \in Links, InOK(l), TypeOK, Update
  PROVE  InOK(l)'
<1>1. /\ UNCHANGED <<in, taken, wireIn, nextId, arrived>> /\ cur \in Links
      /\ \/ inBuf' = inBuf
         \/ wireIn[cur] = <<>> /\ inBuf' = [inBuf EXCEPT ![cur] = <<>>]
  <2> DEFINE eof == open[cur] /\ peerGone[cur] /\ wireIn[cur] = <<>>
  <2>1. /\ UNCHANGED <<in, taken, wireIn, nextId, arrived>>
        /\ inBuf' = [inBuf EXCEPT ![cur] = IF eof THEN <<>> ELSE @]
    BY DEF Update, bufferVars, historyVars
  <2>2. inBuf \in [Links -> Seq(Packet)] /\ cur \in Links
    BY DEF TypeOK
  <2>3. CASE eof
    BY <2>1, <2>2, <2>3
  <2>4. CASE ~eof
    <3>1. inBuf' = inBuf
      BY <2>1, <2>2, <2>4
    <3> QED BY <2>1, <2>2, <3>1
  <2> QED BY <2>3, <2>4
<1>2. Queued(l)' = Queued(l)
  BY <1>1 DEF Queued
<1>3. inBuf \in [Links -> Seq(Packet)]
  BY DEF TypeOK
<1>4. CASE inBuf'[l] = inBuf[l]
  BY <1>1, <1>2, <1>4, InKept DEF Unparsed
<1>5. CASE wireIn[l] = <<>> /\ inBuf'[l] = <<>>
  <2>1. Unparsed(l)' = <<>>
    BY <1>1, <1>5, EmptyStream, ConcatEmptySeq DEF Unparsed
  <2>2. Increasing(<<>>) /\ Below(Queued(l), <<>>) /\ OlderThan(<<>>, nextId)
    BY EmptyStream
  <2> QED BY <1>1, <1>2, <2>1, <2>2
          DEF InOK, OlderThan, Increasing, Below, Represented
<1> QED BY <1>1, <1>3, <1>4, <1>5

LEMMA InReceive ==
  ASSUME NEW l \in Links, InOK(l), TypeOK, Receive
  PROVE  InOK(l)'
<1>1. PICK n \in 1..Len(wireIn[cur]) :
        /\ inBuf' = [inBuf EXCEPT ![cur] = SubSeq(wireIn[cur], 1, n)]
        /\ wireIn' = [wireIn EXCEPT ![cur] = SubSeq(@, n + 1, Len(@))]
  BY DEF Receive
<1>2. UNCHANGED <<in, taken, nextId, arrived>> /\ inBuf[cur] = <<>>
  BY DEF Receive, bufferVars, historyVars
<1>3. inBuf \in [Links -> Seq(Packet)] /\ wireIn \in [Links -> Seq(Packet)] /\ cur \in Links
  BY DEF TypeOK
<1>4. CASE l = cur
  <2>1. Unparsed(l)' = SubSeq(wireIn[l], 1, n) \o SubSeq(wireIn[l], n + 1, Len(wireIn[l]))
    BY <1>1, <1>3, <1>4 DEF Unparsed
  <2>2. wireIn[l] \in Seq(Packet) /\ Len(wireIn[l]) \in Nat /\ n \in 1..Len(wireIn[l])
    BY <1>1, <1>4, InTypes, LenProperties
  <2>3. Unparsed(l)' = wireIn[l]
    BY <2>1, <2>2, ConcatAdjacentSubSeq, SubSeqFull
  <2>4. Unparsed(l) = wireIn[l]
    BY <1>2, <1>4, InTypes, ConcatEmptySeq DEF Unparsed
  <2> QED BY <1>2, <2>3, <2>4, InKept DEF Queued
<1>5. CASE l # cur
  <2>1. inBuf'[l] = inBuf[l] /\ wireIn'[l] = wireIn[l]
    BY <1>1, <1>3, <1>5
  <2> QED BY <1>2, <2>1, InKept DEF Queued, Unparsed
<1> QED BY <1>4, <1>5

(* The head of what is not parsed is the packet that is parsed next. *)
LEMMA ParsedHead ==
  ASSUME NEW s \in Seq(Packet), NEW t \in Seq(Packet), s # <<>>
  PROVE  s \o t # <<>> /\ Head(s \o t) = Head(s) /\ Tail(s \o t) = Tail(s) \o t
<1>1. /\ Head(s) \in Packet /\ Tail(s) \in Seq(Packet) /\ Head(s) = s[1]
      /\ 1 \in 1..Len(s)
  BY TailFacts
<1>2. s \o t # <<>>
  BY ConcatEqualIffEmpty
<1>3. Head(s \o t) = Head(s)
  BY <1>1, <1>2, ConcatFacts, TailFacts
<1>4. /\ Tail(s \o t) \in Seq(Packet) /\ Tail(s) \o t \in Seq(Packet)
      /\ Len(Tail(s \o t)) = Len(s) + Len(t) - 1
      /\ Len(Tail(s) \o t) = Len(s) - 1 + Len(t)
      /\ Len(s) \in Nat /\ Len(t) \in Nat /\ Len(Tail(s)) = Len(s) - 1
  BY <1>1, <1>2, ConcatFacts, TailFacts
<1>5. ASSUME NEW k \in 1..Len(Tail(s \o t)) PROVE Tail(s \o t)[k] = (Tail(s) \o t)[k]
  <2>1. Tail(s \o t)[k] = (s \o t)[k + 1]
    BY <1>2, ConcatFacts, TailFacts
  <2>2. CASE k \in 1..Len(Tail(s))
    <3>1. k + 1 \in 1..Len(s) /\ Tail(s)[k] = s[k + 1]
      BY <2>2, TailFacts
    <3>2. (s \o t)[k + 1] = s[k + 1] /\ (Tail(s) \o t)[k] = Tail(s)[k]
      BY <1>1, <2>2, <3>1, ConcatFacts
    <3> QED BY <2>1, <3>1, <3>2
  <2>3. CASE k \notin 1..Len(Tail(s))
    <3>1. k \in 1..(Len(s) + Len(t) - 1) /\ k \notin 1..(Len(s) - 1)
      BY <1>4, <2>3
    <3>2. k - (Len(s) - 1) \in 1..Len(t) /\ k = (Len(s) - 1) + (k - (Len(s) - 1))
          /\ k + 1 = Len(s) + (k - (Len(s) - 1))
      BY <1>4, <3>1
    <3>3. PICK i \in 1..Len(t) : k = Len(Tail(s)) + i /\ k + 1 = Len(s) + i
      BY <1>4, <3>2
    <3>4. (s \o t)[Len(s) + i] = t[i] /\ (Tail(s) \o t)[Len(Tail(s)) + i] = t[i]
      BY <1>1, ConcatFacts
    <3> QED BY <2>1, <3>3, <3>4
  <2> QED BY <2>2, <2>3
<1>6. Len(Tail(s \o t)) = Len(Tail(s) \o t)
  BY <1>4
<1>7. Tail(s \o t) = Tail(s) \o t
  BY <1>4, <1>5, <1>6, SeqEqual
<1> QED BY <1>2, <1>3, <1>7

(* A packet is parsed: what was queued, q, becomes v, and what is not      *)
(* parsed, u, loses its head.                                              *)
LEMMA Parse ==
  ASSUME NEW q \in Seq(Packet), NEW u \in Seq(Packet), u # <<>>, NEW n \in Nat,
         Increasing(q), Increasing(u), Below(q, u), OlderThan(q, n), OlderThan(u, n)
  PROVE  /\ Increasing(Tail(u)) /\ OlderThan(Tail(u), n)
         /\ Below(q, Tail(u)) /\ Below(Append(q, Head(u)), Tail(u))
         /\ Increasing(Append(q, Head(u))) /\ OlderThan(Append(q, Head(u)), n)
         /\ OlderThan(q, Head(u).id) /\ Head(u).id < n
         /\ \A k \in 1..Len(Tail(u)) : Head(u).id < Tail(u)[k].id
<1> DEFINE p == Head(u)
           v == Append(q, p)
           r == Tail(u)
<1>1. /\ p \in Packet /\ r \in Seq(Packet) /\ p = u[1] /\ 1 \in 1..Len(u)
      /\ \A k \in 1..Len(r) : k + 1 \in 1..Len(u) /\ r[k] = u[k + 1]
  BY TailFacts
<1>2. /\ Increasing(r) /\ OlderThan(r, n) /\ p.id < n
      /\ \A k \in 1..Len(r) : p.id < r[k].id
  BY RemoveOldest
<1>3. OlderThan(q, p.id)
  BY <1>1 DEF Below, OlderThan
<1>4. Increasing(v) /\ OlderThan(v, n)
  BY <1>1, <1>2, <1>3, AppendNewest
<1>5. Below(q, r)
  BY <1>1 DEF Below
<1>6. /\ Len(q) \in Nat /\ Len(v) = Len(q) + 1
      /\ \A k \in 1..Len(q) : v[k] = q[k]
      /\ v[Len(q) + 1] = p
  BY <1>1, AppendFacts
<1> HIDE DEF p, v, r
<1>7. ASSUME NEW j \in 1..Len(v), NEW k \in 1..Len(r) PROVE v[j].id < r[k].id
  <2>1. CASE j \in 1..Len(q)
    BY <1>5, <1>6, <2>1 DEF Below
  <2>2. CASE j = Len(q) + 1
    BY <1>2, <1>6, <2>2
  <2> QED BY <1>6, <2>1, <2>2
<1>8. Below(v, r)
  BY <1>7 DEF Below
<1> QED BY <1>2, <1>3, <1>4, <1>5, <1>8 DEF p, v, r

LEMMA InReadOne ==
  ASSUME NEW l \in Links, InOK(l), TypeOK, FirehoseExact, ReadOne
  PROVE  InOK(l)'
<1> DEFINE p == Head(inBuf[cur])
<1>1. /\ UNCHANGED <<taken, wireIn, nextId>> /\ inBuf[cur] # <<>>
      /\ inBuf' = [inBuf EXCEPT ![cur] = Tail(@)]
      /\ arrived' = [arrived EXCEPT ![cur] = @ \cup {p}]
  BY DEF ReadOne
<1>2. /\ inBuf \in [Links -> Seq(Packet)] /\ in \in [Links -> Seq(Packet)]
      /\ arrived \in [Links -> SUBSET Packet] /\ cur \in Links
  BY DEF TypeOK
<1>3. CASE l # cur
  <2>1. inBuf'[l] = inBuf[l] /\ arrived'[l] = arrived[l]
    BY <1>1, <1>2, <1>3
  <2>2. in'[l] = in[l]
    BY <1>2, <1>3, ReadOneCases
  <2> QED BY <1>1, <2>1, <2>2, InKept DEF Queued, Unparsed
<1>4. CASE l = cur
  <2> DEFINE q == Queued(l)
             u == Unparsed(l)
  <2>1. inBuf'[l] = Tail(inBuf[l]) /\ arrived'[l] = arrived[l] \cup {p} /\ p = Head(inBuf[l])
    BY <1>1, <1>2, <1>4
  <2>2. u # <<>> /\ p = Head(u) /\ Unparsed(l)' = Tail(u)
    <3>1. inBuf[l] \o wireIn[l] # <<>> /\ Head(inBuf[l] \o wireIn[l]) = p
          /\ Tail(inBuf[l] \o wireIn[l]) = Tail(inBuf[l]) \o wireIn[l]
      BY <1>1, <1>4, <2>1, InTypes, ParsedHead
    <3> QED BY <1>1, <2>1, <3>1 DEF Unparsed
  <2>3. q \in Seq(Packet) /\ u \in Seq(Packet) /\ nextId \in Nat /\ p \in Packet
    BY <2>2, InTypes, TailFacts
  <2>4. /\ Increasing(Tail(u)) /\ OlderThan(Tail(u), nextId)
        /\ Below(q, Tail(u)) /\ Below(Append(q, p), Tail(u))
        /\ Increasing(Append(q, p)) /\ OlderThan(Append(q, p), nextId)
        /\ OlderThan(q, p.id) /\ p.id < nextId
        /\ \A k \in 1..Len(Tail(u)) : p.id < Tail(u)[k].id
    BY <2>2, <2>3, Parse DEF InOK
  <2>5. \A a \in arrived'[l] : /\ a.id < nextId
                               /\ \A k \in 1..Len(Tail(u)) : a.id < Tail(u)[k].id
    <3>1. \A a \in arrived[l] : a.id < nextId /\ \A k \in 1..Len(u) : a.id < u[k].id
      BY DEF InOK
    <3>2. \A k \in 1..Len(Tail(u)) : k + 1 \in 1..Len(u) /\ Tail(u)[k] = u[k + 1]
      BY <2>2, <2>3, TailFacts
    <3> QED BY <2>1, <2>4, <3>1, <3>2
  <2>6. CASE Refused(inFirehose[cur], p) /\ in' = in
    <3>1. Queued(l)' = q
      BY <1>1, <2>6 DEF Queued
    <3>2. Represented(p, q)
      <4>1. Refused(DroppableTopics(in[l]), p)
        BY <1>4, <2>6 DEF FirehoseExact
      <4>2. OlderThan(in[l], p.id)
        BY <2>4, InTypes, OlderParts DEF Queued
      <4>3. \A k \in 1..Len(in[l]) : in[l][k].id < p.id
        BY <4>2 DEF OlderThan
      <4> QED BY <2>3, <4>1, <4>3, InTypes, RefusedRepresented DEF Queued
    <3>3. \A a \in arrived'[l] : Represented(a, q)
      BY <2>1, <3>2 DEF InOK
    <3>4. Increasing(q) /\ OlderThan(q, nextId)
      BY DEF InOK
    <3> QED BY <1>1, <2>2, <2>4, <2>5, <3>1, <3>3, <3>4
            DEF InOK, OlderThan, Increasing, Below, Represented
  <2>7. CASE in' = [in EXCEPT ![cur] = Append(@, p)]
    <3>1. in'[l] = Append(in[l], p)
      BY <1>2, <1>4, <2>7
    <3>2. Queued(l)' = Append(q, p)
      <4>1. taken[l] \o Append(in[l], p) = Append(taken[l] \o in[l], p)
        BY <2>3, InTypes, AppendToLast
      <4> QED BY <1>1, <3>1, <4>1 DEF Queued
    <3>3. \A a \in arrived'[l] : Represented(a, Append(q, p))
      BY <2>1, <2>3, StillRepresented DEF InOK
    <3> QED BY <1>1, <2>2, <2>4, <2>5, <3>2, <3>3
            DEF InOK, OlderThan, Increasing, Below, Represented
  <2> QED BY <2>6, <2>7, ReadOneCases
<1> QED BY <1>3, <1>4

LEMMA InPeerSend ==
  ASSUME NEW l \in Links, NEW m \in Links, NEW p \in Packet, InOK(l), TypeOK, PeerSend(m, p)
  PROVE  InOK(l)'
<1>1. /\ UNCHANGED <<in, taken, inBuf, arrived>> /\ p.id = nextId /\ nextId' = nextId + 1
      /\ wireIn' = [wireIn EXCEPT ![m] = Append(@, p)]
  BY DEF PeerSend, Fresh, bufferVars, historyVars
<1>2. wireIn \in [Links -> Seq(Packet)]
  BY DEF TypeOK
<1>3. CASE l # m
  <2>1. wireIn'[l] = wireIn[l]
    BY <1>1, <1>2, <1>3
  <2> QED BY <1>1, <2>1, InKept DEF Queued, Unparsed
<1>4. CASE l = m
  <2> DEFINE q == Queued(l)
             u == Unparsed(l)
             w == Append(u, p)
  <2>1. Queued(l)' = q
    BY <1>1 DEF Queued
  <2>2. Unparsed(l)' = w
    <3>1. wireIn'[l] = Append(wireIn[l], p)
      BY <1>1, <1>2, <1>4
    <3>2. inBuf[l] \o Append(wireIn[l], p) = Append(inBuf[l] \o wireIn[l], p)
      BY InTypes, AppendToLast
    <3> QED BY <1>1, <3>1, <3>2 DEF Unparsed
  <2>3. u \in Seq(Packet) /\ q \in Seq(Packet) /\ nextId \in Nat /\ p.id < nextId + 1
    BY <1>1, InTypes
  <2>4. Increasing(w) /\ OlderThan(w, nextId + 1) /\ OlderThan(q, nextId + 1)
    BY <1>1, <2>3, AppendNewest, OlderLater DEF InOK
  <2>5. /\ Len(u) \in Nat /\ Len(w) = Len(u) + 1
        /\ \A k \in 1..Len(u) : w[k] = u[k]
        /\ w[Len(u) + 1] = p
    BY <2>3, AppendFacts
  <2> HIDE DEF w
  <2>6. Below(q, w)
    <3> SUFFICES ASSUME NEW j \in 1..Len(q), NEW k \in 1..Len(w) PROVE q[j].id < w[k].id
      BY DEF Below
    <3>1. CASE k \in 1..Len(u)
      BY <2>5, <3>1 DEF InOK, Below
    <3>2. CASE k = Len(u) + 1
      BY <1>1, <2>5, <3>2 DEF InOK, OlderThan
    <3> QED BY <2>5, <3>1, <3>2
  <2>7. ASSUME NEW a \in arrived[l]
        PROVE  a.id < nextId + 1 /\ \A k \in 1..Len(w) : a.id < w[k].id
    <3>1. a.id < nextId /\ a.id \in Nat
      BY IdIsNumber DEF InOK, TypeOK
    <3>2. \A k \in 1..Len(u) : a.id < u[k].id
      BY DEF InOK
    <3>3. \A k \in 1..Len(w) : k \in 1..Len(u) \/ k = Len(u) + 1
      BY <2>5
    <3> QED BY <1>1, <2>3, <2>5, <3>1, <3>2, <3>3
  <2>8. \A a \in arrived[l] : Represented(a, q)
    BY DEF InOK
  <2>9. Increasing(q)
    BY DEF InOK
  <2> QED BY <1>1, <2>1, <2>2, <2>4, <2>6, <2>7, <2>8, <2>9
          DEF InOK, OlderThan, Increasing, Below, Represented
<1> QED BY <1>3, <1>4

LEMMA InKeepsOrder ==
  ASSUME NEW l \in Links, InOK(l), TypeOK, FirehoseExact, [Next]_vars
  PROVE  InOK(l)'
<1> USE DEF vars, bufferVars, threadVars, linkVars, historyVars
<1>1. ASSUME UNCHANGED <<taken, in, inBuf, wireIn, arrived>>,
             nextId' \in {nextId, nextId + 1}
      PROVE  InOK(l)'
  BY <1>1, InKept DEF Queued, Unparsed
<1>2. CASE UNCHANGED vars
  BY <1>1, <1>2
<1>3. ASSUME NEW m \in Links, AddSocket(m) \/ RemoveSocket(m) PROVE InOK(l)'
  BY <1>3, InReset DEF AddSocket, RemoveSocket
<1>4. ASSUME NEW m \in Links, NEW p \in Packet, Send(m, p) PROVE InOK(l)'
  BY <1>1, <1>4 DEF Send, Fresh
<1>5. CASE UserThread
  BY <1>1, <1>3, <1>4, <1>5, InNextPacket DEF UserThread, Exit
<1>6. ASSUME NEW m \in Links, Visit(m) PROVE InOK(l)'
  BY <1>1, <1>6 DEF Visit
<1>7. ASSUME StartPass \/ LeaveLoop \/ WriteOne \/ Flushed \/ EndVisit \/ EndPass PROVE InOK(l)'
  BY <1>1, <1>7 DEF StartPass, LeaveLoop, WriteOne, Flushed, EndVisit, EndPass
<1>8. CASE NetworkThread
  BY <1>6, <1>7, <1>8, InUpdate, InReceive, InReadOne DEF NetworkThread
<1>9. ASSUME NEW m \in Links, PeerRead(m) \/ PeerClose(m) PROVE InOK(l)'
  BY <1>1, <1>9 DEF PeerRead, PeerClose
<1>10. CASE Peer
  BY <1>9, <1>10, InPeerSend DEF Peer
<1> QED BY <1>2, <1>5, <1>8, <1>10 DEF Next

LEMMA InOKHolds == Spec => []\A l \in Links : InOK(l)
<1> DEFINE Inv == \A l \in Links : InOK(l)
<1>1. Init => Inv
  <2> SUFFICES ASSUME Init, NEW l \in Links PROVE InOK(l)
    OBVIOUS
  <2>1. Queued(l) = <<>> \o <<>> /\ Unparsed(l) = <<>> \o <<>> /\ arrived[l] = {}
    BY DEF Init, Queued, Unparsed
  <2>2. Queued(l) = <<>> /\ Unparsed(l) = <<>>
    BY <2>1, EmptyStream, ConcatEmptySeq
  <2> QED BY <2>1, <2>2, EmptyStream DEF InOK
<1>2. TypeOK /\ FirehoseExact /\ Inv /\ [Next]_vars => Inv'
  BY InKeepsOrder
<1> QED BY <1>1, <1>2, TypeCorrect, FirehoseIsExact, PTL DEF Spec

(* Every packet the peer sent goes through the socket, the input buffer    *)
(* and the in queue to next() (tcp_thread.cpp:54) in order and never       *)
(* twice; one that was parsed is there or was returned, or it was dropped  *)
(* (tcp_thread.cpp:186) and an older droppable packet of its topic is.     *)
THEOREM InputIsComplete == Spec => []InputComplete
<1>1. TypeOK /\ (\A l \in Links : InOK(l)) => InputComplete
  <2> SUFFICES ASSUME TypeOK, NEW l \in Links, InOK(l)
               PROVE  /\ Increasing(taken[l] \o in[l] \o inBuf[l] \o wireIn[l])
                      /\ \A p \in arrived[l] : Represented(p, taken[l] \o in[l])
    BY DEF InputComplete
  <2>1. Increasing(Queued(l) \o Unparsed(l))
    BY InTypes, IncreasingConcat DEF InOK
  <2>2. taken[l] \o in[l] \o inBuf[l] \o wireIn[l] = Queued(l) \o Unparsed(l)
    <3>1. (Queued(l) \o inBuf[l]) \o wireIn[l] = Queued(l) \o (inBuf[l] \o wireIn[l])
      <4>1. Queued(l) \in Seq(Packet) /\ inBuf[l] \in Seq(Packet) /\ wireIn[l] \in Seq(Packet)
        BY InTypes
      <4> QED BY <4>1, Associate
    <3> QED BY <3>1 DEF Queued, Unparsed
  <2> QED BY <2>1, <2>2 DEF InOK, Queued
<1> QED BY <1>1, InOKHolds, TypeCorrect, PTL

-----------------------------------------------------------------------------
(* What update() may lose. *)

(* A transport has packets in its input buffer outside the read loop only  *)
(* when the loop has stopped at its bound.                                 *)
BatchOK(l) ==
  /\ IsFiniteSet(arrived[l])
  /\ ~open[l] => inBuf[l] = <<>>
  /\ IF pc = "read" /\ cur = l
     THEN Cardinality(arrived[l]) >= ri
     ELSE inBuf[l] # <<>> => Cardinality(arrived[l]) >= ReadBatch

LEMMA BatchKept ==
  ASSUME NEW l \in Links, BatchOK(l), arrived'[l] = arrived[l], inBuf'[l] = inBuf[l],
         open'[l] = open[l], ri' = ri, (pc = "read" /\ cur = l) <=> (pc' = "read" /\ cur' = l)
  PROVE  BatchOK(l)'
BY DEF BatchOK

LEMMA BatchReset ==
  ASSUME NEW l \in Links, NEW m \in Links, BatchOK(l), TypeOK, ~HoldsMut, ResetBuffer(m),
         inBuf' = [inBuf EXCEPT ![m] = <<>>], UNCHANGED threadVars,
         \E b \in BOOLEAN : open' = [open EXCEPT ![m] = b]
  PROVE  BatchOK(l)'
<1>1. /\ inBuf \in [Links -> Seq(Packet)] /\ arrived \in [Links -> SUBSET Packet]
      /\ open \in [Links -> BOOLEAN]
  BY DEF TypeOK
<1>2. pc # "read" /\ pc' = pc /\ cur' = cur /\ ri' = ri
  BY DEF HoldsMut, threadVars
<1>3. CASE l = m
  <2>1. arrived'[l] = {} /\ inBuf'[l] = <<>>
    BY <1>1, <1>3 DEF ResetBuffer
  <2> QED BY <1>2, <2>1, FS_EmptySet DEF BatchOK
<1>4. CASE l # m
  <2>1. arrived'[l] = arrived[l] /\ inBuf'[l] = inBuf[l] /\ open'[l] = open[l]
    BY <1>1, <1>4 DEF ResetBuffer
  <2> QED BY <1>2, <2>1, BatchKept
<1> QED BY <1>3, <1>4

LEMMA BatchUpdate ==
  ASSUME NEW l \in Links, BatchOK(l), TypeOK, Update
  PROVE  BatchOK(l)'
<1> DEFINE eof == open[cur] /\ peerGone[cur] /\ wireIn[cur] = <<>>
<1>1. /\ open' = [open EXCEPT ![cur] = @ /\ ~eof]
      /\ inBuf' = [inBuf EXCEPT ![cur] = IF eof THEN <<>> ELSE @]
      /\ ri' = 0 /\ pc = "update" /\ pc' = "read" /\ cur' = cur /\ arrived' = arrived
  BY DEF Update, historyVars
<1>2. inBuf \in [Links -> Seq(Packet)] /\ open \in [Links -> BOOLEAN]
  BY DEF TypeOK
<1> HIDE DEF eof
<1>3. CASE l = cur
  <2>1. Cardinality(arrived[l]) \in Nat
    BY FS_CardinalityType DEF BatchOK
  <2>2. inBuf'[l] = IF eof THEN <<>> ELSE inBuf[l]
    BY <1>1, <1>2, <1>3
  <2>3. ~open'[l] => ~open[l] \/ eof
    BY <1>1, <1>2, <1>3, Zenon
  <2> QED BY <1>1, <1>3, <2>1, <2>2, <2>3 DEF BatchOK
<1>4. CASE l # cur
  <2>1. inBuf'[l] = inBuf[l]
    BY <1>1, <1>2, <1>4
  <2>2. open'[l] = open[l]
    BY <1>1, <1>2, <1>4
  <2> QED BY <1>1, <1>4, <2>1, <2>2 DEF BatchOK
<1> QED BY <1>3, <1>4

LEMMA BatchRead ==
  ASSUME NEW l \in Links, BatchOK(l), InOK(l), TypeOK, Receive \/ ReadOne
  PROVE  BatchOK(l)'
<1>1. /\ pc = "read" /\ pc' = pc /\ cur' = cur /\ open' = open /\ open[cur]
      /\ inBuf \in [Links -> Seq(Packet)] /\ arrived \in [Links -> SUBSET Packet]
      /\ cur \in Links /\ ri \in Nat
  <2>1. pc = "read" /\ pc' = pc /\ cur' = cur /\ open' = open /\ open[cur]
    BY DEF Receive, ReadOne, threadVars
  <2>2. ri \in Nat
    <3>1. ri \in 0..ReadBatch
      BY DEF TypeOK
    <3> QED BY <3>1, BoundsAssumption
  <2>3. /\ inBuf \in [Links -> Seq(Packet)] /\ arrived \in [Links -> SUBSET Packet]
        /\ cur \in Links
    BY DEF TypeOK
  <2> QED BY <2>1, <2>2, <2>3
<1>2. CASE Receive
  <2>1. ri' = ri /\ arrived' = arrived
    BY <1>2 DEF Receive, threadVars, historyVars
  <2>2. l # cur => inBuf'[l] = inBuf[l]
    BY <1>1, <1>2 DEF Receive
  <2> QED BY <1>1, <2>1, <2>2 DEF BatchOK
<1>3. CASE ReadOne
  <2> DEFINE p == Head(inBuf[cur])
  <2>1. /\ ri' = ri + 1 /\ inBuf[cur] # <<>>
        /\ arrived' = [arrived EXCEPT ![cur] = @ \cup {p}]
        /\ inBuf' = [inBuf EXCEPT ![cur] = Tail(@)]
    BY <1>3 DEF ReadOne
  <2>2. CASE l = cur
    <3>1. arrived'[l] = arrived[l] \cup {p}
      BY <1>1, <2>1, <2>2
    <3>2. p \notin arrived[l]
      <4>1. 1 \in 1..Len(Unparsed(l)) /\ Unparsed(l)[1] = p /\ p \in Packet
        <5>1. inBuf[l] \in Seq(Packet) /\ wireIn[l] \in Seq(Packet) /\ inBuf[l] # <<>>
          BY <2>1, <2>2, InTypes
        <5>2. /\ inBuf[l] \o wireIn[l] # <<>> /\ inBuf[l] \o wireIn[l] \in Seq(Packet)
              /\ Head(inBuf[l] \o wireIn[l]) = Head(inBuf[l])
          BY <5>1, ParsedHead, ConcatFacts
        <5> QED BY <2>2, <5>1, <5>2, TailFacts DEF Unparsed
      <4>2. p \in arrived[l] => p.id < p.id
        BY <4>1 DEF InOK
      <4> QED BY <4>1, <4>2, IdIsNumber
    <3>3. /\ IsFiniteSet(arrived'[l])
          /\ Cardinality(arrived'[l]) = Cardinality(arrived[l]) + 1
          /\ Cardinality(arrived[l]) \in Nat
      <4>1. IsFiniteSet(arrived[l])
        BY DEF BatchOK
      <4> QED BY <3>1, <3>2, <4>1, FS_AddElement, FS_CardinalityType
    <3>4. Cardinality(arrived'[l]) >= ri'
      BY <1>1, <2>1, <2>2, <3>3 DEF BatchOK
    <3> QED BY <1>1, <2>2, <3>3, <3>4 DEF BatchOK
  <2>3. CASE l # cur
    <3>1. inBuf'[l] = inBuf[l] /\ arrived'[l] = arrived[l]
      BY <1>1, <2>1, <2>3
    <3> QED BY <1>1, <2>3, <3>1 DEF BatchOK
  <2> QED BY <2>2, <2>3
<1> QED BY <1>2, <1>3

LEMMA BatchEndVisit ==
  ASSUME NEW l \in Links, BatchOK(l), TypeOK, EndVisit
  PROVE  BatchOK(l)'
<1>1. /\ pc = "read" /\ pc' = "visit" /\ UNCHANGED <<cur, ri, open, inBuf, arrived>>
      /\ ReadLoopEnds
  BY DEF EndVisit, linkVars, historyVars
<1>2. CASE l = cur
  <2>1. ~InBatch \/ inBuf[l] = <<>>
    BY <1>1, <1>2 DEF ReadLoopEnds, BatchOK
  <2>2. ~InBatch => ri = ReadBatch
    BY BoundsAssumption DEF InBatch, TypeOK
  <2> QED BY <1>1, <1>2, <2>1, <2>2 DEF BatchOK
<1>3. CASE l # cur
  BY <1>1, <1>3 DEF BatchOK
<1> QED BY <1>2, <1>3

LEMMA BatchStep ==
  ASSUME NEW l \in Links, BatchOK(l), InOK(l), TypeOK, [Next]_vars
  PROVE  BatchOK(l)'
<1> USE DEF vars, bufferVars, threadVars, linkVars, historyVars
<1>1. CASE UNCHANGED vars
  BY <1>1, BatchKept
<1>2. ASSUME NEW m \in Links, AddSocket(m) PROVE BatchOK(l)'
  <2>1. \E b \in BOOLEAN : open' = [open EXCEPT ![m] = b]
    BY <1>2, Zenon DEF AddSocket
  <2> QED BY <1>2, <2>1, BatchReset DEF AddSocket
<1>3. ASSUME NEW m \in Links, RemoveSocket(m) PROVE BatchOK(l)'
  <2>1. \E b \in BOOLEAN : open' = [open EXCEPT ![m] = b]
    BY <1>3, Zenon DEF RemoveSocket
  <2> QED BY <1>3, <2>1, BatchReset DEF RemoveSocket
<1>4. ASSUME NEW m \in Links, NextPacket(m) PROVE BatchOK(l)'
  BY <1>4, BatchKept DEF NextPacket
<1>5. ASSUME NEW m \in Links, NEW p \in Packet, Send(m, p) PROVE BatchOK(l)'
  BY <1>5, BatchKept DEF Send
<1>6. CASE UserThread
  BY <1>2, <1>3, <1>4, <1>5, <1>6, BatchKept DEF UserThread, Exit
<1>7. ASSUME NEW m \in Links, Visit(m) PROVE BatchOK(l)'
  BY <1>7, BatchKept DEF Visit
<1>8. ASSUME StartPass \/ LeaveLoop \/ WriteOne \/ Flushed \/ EndPass PROVE BatchOK(l)'
  BY <1>8, BatchKept DEF StartPass, LeaveLoop, WriteOne, Flushed, EndPass
<1>9. CASE NetworkThread
  BY <1>7, <1>8, <1>9, BatchUpdate, BatchRead, BatchEndVisit DEF NetworkThread
<1>10. CASE Peer
  BY <1>10, BatchKept DEF Peer, PeerRead, PeerClose, PeerSend
<1> QED BY <1>1, <1>6, <1>9, <1>10 DEF Next

(* A step that closes a watched transport over a buffer that is not empty  *)
(* is an update().                                                         *)
LEMMA ClosedByUpdate ==
  ASSUME NEW l \in Links, TypeOK, [Next]_vars, open[l], ~open'[l], l \in watched'
  PROVE  Update /\ l = cur
<1> USE DEF vars, bufferVars, threadVars, linkVars, historyVars
<1>1. open' # open /\ open \in [Links -> BOOLEAN] /\ watched \subseteq Links
  BY DEF TypeOK
<1>2. ASSUME NEW m \in Links, AddSocket(m) PROVE FALSE
  BY <1>1, <1>2 DEF AddSocket
<1>3. ASSUME NEW m \in Links, RemoveSocket(m) PROVE FALSE
  BY <1>1, <1>3 DEF RemoveSocket
<1>4. ~UserThread
  BY <1>1, <1>2, <1>3 DEF UserThread, NextPacket, Send, Exit
<1>5. NetworkThread => Update
  BY <1>1 DEF NetworkThread, StartPass, LeaveLoop, Visit, WriteOne, Flushed, Receive,
              ReadOne, EndVisit, EndPass
<1>6. ~Peer /\ ~UNCHANGED vars
  BY <1>1 DEF Peer, PeerRead, PeerClose, PeerSend
<1>7. Update
  BY <1>4, <1>5, <1>6 DEF Next
<1>8. l = cur
  BY <1>1, <1>7 DEF Update
<1> QED BY <1>7, <1>8

(* update() (tcp_thread.cpp:167) closes a transport at the end of its      *)
(* stream without a look at what the input channel still has buffered; it  *)
(* loses packets only of a peer that had a full batch read from it.        *)
THEOREM LossOnlyAfterFullBatch == Spec => LossNeedsFullBatch
<1> DEFINE Inv == \A l \in Links : BatchOK(l)
           Order == \A l \in Links : InOK(l)
           Step == \A l \in Links : open[l] /\ ~open'[l] /\ inBuf[l] # <<>> /\ l \in watched'
                     => Cardinality(arrived[l]) >= ReadBatch
<1>1. Init => Inv
  BY FS_EmptySet DEF Init, BatchOK
<1>2. TypeOK /\ Order /\ Inv /\ [Next]_vars => Inv'
  BY BatchStep
<1>3. TypeOK /\ Inv /\ [Next]_vars => Step
  <2> SUFFICES ASSUME TypeOK, Inv, [Next]_vars, NEW l \in Links,
                      open[l], ~open'[l], inBuf[l] # <<>>, l \in watched'
               PROVE  Cardinality(arrived[l]) >= ReadBatch
    OBVIOUS
  <2>1. Update
    BY ClosedByUpdate
  <2>2. pc # "read"
    BY <2>1 DEF Update
  <2> QED BY <2>2 DEF BatchOK
<1>4. TypeOK /\ Inv /\ [Next]_vars => [Step]_vars
  BY <1>3
<1> QED BY <1>1, <1>2, <1>4, InOKHolds, TypeCorrect, PTL DEF Spec, LossNeedsFullBatch
=============================================================================
