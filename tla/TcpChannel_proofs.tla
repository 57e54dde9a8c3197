------------------------- MODULE TcpChannel_proofs -------------------------
(***************************************************************************)
(* Theorems about TcpChannel, for packets of any sizes, any capacity of    *)
(* the kernel, any bound of recv and any batch.                            *)
(*                                                                         *)
(* The places where frames start grow by at least the size of the frame    *)
(* before them.  So the reader, which stands where the last frame it       *)
(* returned has ended, finds exactly one frame there, the next one: its    *)
(* size is the one read() takes from the buffer.  The reader closes before *)
(* anything irregular happens to its stream.                               *)
(***************************************************************************)
EXTENDS TcpChannel, SequenceTheorems, TLAPS

LEMMA AppendFacts ==
  ASSUME NEW S, NEW q \in Seq(S), NEW x \in S
  PROVE  /\ Len(Append(q, x)) = Len(q) + 1
         /\ Append(q, x)[Len(q) + 1] = x
         /\ \A k \in 1..Len(q) : Append(q, x)[k] = q[k]
OBVIOUS

LEMMA OtherFacts ==
  ASSUME NEW e \in End
  PROVE  Other(e) \in End /\ Other(Other(e)) = e /\ Other(e) # e
BY ChannelAssumption DEF End, Other

(* The frames of e's stream, as long as its reader has not gone. *)
FramesOK(e) ==
  /\ \A k \in 1..Len(handed[e]) : \A j \in 1..(k - 1) :
       start[e][j] + Size[handed[e][j]] <= start[e][k]
  /\ \A k \in 1..Len(handed[e]) : start[e][k] = EndOf(e, k - 1)
  /\ parsed[e] = EndOf(e, Len(got[e]))
  /\ sent[e] + left[e] <= EndOf(e, Len(handed[e]))
  /\ ~gone[e] => sent[e] + left[e] = EndOf(e, Len(handed[e]))

StreamOK(e) ==
  /\ Len(start[e]) = Len(handed[e])
  /\ Len(got[e]) <= Len(handed[e])
  /\ \A k \in 1..Len(got[e]) : got[e][k] = handed[e][k]
  /\ parsed[e] <= rcvd[e] /\ rcvd[e] <= sent[e]
  /\ ~gone[Other(e)] => FramesOK(e)

(* In the second stage of read() the header is in the buffer, and there is *)
(* room in the batch for the packet.                                       *)
ThreadOK(e) ==
  /\ gone[e] => pc[e] = "done"
  /\ pc[e] = "body" => Buffered(e) >= HeaderBytes /\ InBatch(ri[e])

(* A connection is accepted once, after it was made. *)
LinkOK ==
  /\ backlog => pc[Client] # "off" /\ pc[Server] = "off"
  /\ pc[Client] = "off" => pc[Server] = "off"

ChannelInv == TypeOK /\ LinkOK /\ \A e \in End : StreamOK(e) /\ ThreadOK(e)

-----------------------------------------------------------------------------
(* Consequences of the invariant. *)

(* The reader in its second stage finds the frame after the last one it    *)
(* returned.                                                               *)
LEMMA NextFrame ==
  ASSUME ChannelInv, NEW e \in End, pc[e] = "body"
  PROVE  LET s == Other(e) IN
           /\ ~gone[e]
           /\ Len(got[s]) + 1 \in 1..Len(handed[s])
           /\ FrameAtParsed(s) = Len(got[s]) + 1
           /\ start[s][Len(got[s]) + 1] = parsed[s]
<1> DEFINE s == Other(e)
           n == Len(got[s])
           m == Len(handed[s])
<1>1. s \in End /\ Other(s) = e
  BY OtherFacts
<1>2. ~gone[e]
  BY DEF ChannelInv, ThreadOK
<1>3. StreamOK(s) /\ FramesOK(s)
  BY <1>1, <1>2 DEF ChannelInv, StreamOK
<1>4. /\ handed[s] \in Seq(Packet) /\ got[s] \in Seq(Packet) /\ start[s] \in Seq(Nat)
      /\ parsed[s] \in Nat /\ rcvd[s] \in Nat /\ sent[s] \in Nat /\ left[s] \in Nat
  BY <1>1 DEF ChannelInv, TypeOK
<1>5. n \in Nat /\ m \in Nat
  BY <1>4
<1>6. rcvd[s] - parsed[s] >= HeaderBytes
  BY <1>1 DEF ChannelInv, ThreadOK, Buffered
<1>7. HeaderBytes \in Nat /\ HeaderBytes > 0
  BY ChannelAssumption
<1>8. parsed[s] < sent[s] + left[s]
  BY <1>3, <1>4, <1>6, <1>7 DEF StreamOK
<1>9. n # m
  <2> SUFFICES ASSUME n = m PROVE FALSE
    OBVIOUS
  <2>1. parsed[s] = EndOf(s, m) /\ sent[s] + left[s] <= EndOf(s, m)
    BY <1>3 DEF FramesOK
  <2>2. sent[s] + left[s] <= parsed[s]
    BY <2>1
  <2> QED BY <2>2, <1>8, <1>4
<1>10. n + 1 \in 1..m
  BY <1>3, <1>5, <1>9 DEF StreamOK
<1>11. start[s][n + 1] = EndOf(s, (n + 1) - 1)
  BY <1>3, <1>10 DEF FramesOK
<1>12. (n + 1) - 1 = n
  BY <1>5
<1>13. start[s][n + 1] = parsed[s]
  BY <1>3, <1>11, <1>12 DEF FramesOK
<1>14. ASSUME NEW k \in 1..m, start[s][k] = parsed[s] PROVE k = n + 1
  <2>1. \A i \in 1..m : start[s][i] \in Nat /\ Size[handed[s][i]] \in Nat
                        /\ Size[handed[s][i]] > 0
    <3> SUFFICES ASSUME NEW i \in 1..m
                 PROVE  start[s][i] \in Nat /\ Size[handed[s][i]] \in Nat
                        /\ Size[handed[s][i]] > 0
      OBVIOUS
    <3>1. handed[s][i] \in Packet
      BY <1>4
    <3>2. start[s] \in Seq(Nat) /\ i \in 1..Len(start[s])
      BY <1>3, <1>4 DEF StreamOK
    <3>3. start[s][i] \in Nat
      BY <3>2, ElementOfSeq
    <3>4. Size[handed[s][i]] \in Nat /\ Size[handed[s][i]] > HeaderBytes /\ HeaderBytes \in Nat
      BY <3>1, ChannelAssumption
    <3> QED BY <3>3, <3>4
  <2>2. CASE k < n + 1
    <3>1. k \in 1..((n + 1) - 1)
      BY <2>2, <1>5
    <3>2. start[s][k] + Size[handed[s][k]] <= start[s][n + 1]
      BY <3>1, <1>10, <1>3 DEF FramesOK
    <3> QED BY <3>2, <2>1, <1>10, <1>13, <1>14
  <2>3. CASE n + 1 < k
    <3>1. n + 1 \in 1..(k - 1)
      BY <2>3, <1>5
    <3>2. start[s][n + 1] + Size[handed[s][n + 1]] <= start[s][k]
      BY <3>1, <1>3 DEF FramesOK
    <3> QED BY <3>2, <2>1, <1>10, <1>13, <1>14
  <2> QED BY <2>2, <2>3, <1>5
<1>15. FrameAtParsed(s) = n + 1
  BY <1>10, <1>13, <1>14, Zenon DEF FrameAtParsed
<1> QED BY <1>2, <1>10, <1>13, <1>15

LEMMA EndOfNat ==
  ASSUME TypeOK, NEW e \in End, Len(start[e]) = Len(handed[e]),
         NEW k \in 0..Len(handed[e])
  PROVE  EndOf(e, k) \in Nat
<1>1. handed[e] \in Seq(Packet) /\ start[e] \in Seq(Nat)
  BY DEF TypeOK
<1>2. CASE k = 0
  BY <1>2 DEF EndOf
<1>3. CASE k # 0
  <2>1. k \in 1..Len(handed[e])
    BY <1>1, <1>3
  <2>2. start[e][k] \in Nat /\ handed[e][k] \in Packet
    BY <1>1, <2>1
  <2> QED BY <2>2, <1>3, ChannelAssumption DEF EndOf
<1> QED BY <1>2, <1>3

(* Only the streams, and who has gone, matter to StreamOK. *)
streamVars == <<gone, handed, start, left, sent, rcvd, parsed, got>>

LEMMA StreamsKept ==
  ASSUME NEW e \in End, StreamOK(e), UNCHANGED streamVars
  PROVE  StreamOK(e)'
BY DEF StreamOK, FramesOK, EndOf, streamVars

(* The other facts a step must keep when it leaves the streams alone. *)
LEMMA ThreadsKept ==
  ASSUME NEW e \in End, ThreadOK(e), gone' = gone, rcvd' = rcvd, parsed' = parsed,
         (pc'[e] = pc[e] /\ ri'[e] = ri[e]) \/ (pc'[e] # "body" /\ ~gone[e])
  PROVE  ThreadOK(e)'
BY DEF ThreadOK, Buffered, InBatch

-----------------------------------------------------------------------------
(* The invariant holds initially. *)
LEMMA InitInv == Init => ChannelInv
<1> SUFFICES ASSUME Init PROVE ChannelInv
  OBVIOUS
<1>1. <<>> \in Seq(Packet) /\ <<>> \in Seq(Nat) /\ Len(<<>>) = 0
  OBVIOUS
<1>2. TypeOK
  <2>1. /\ queue \in [End -> Seq(Packet)] /\ handed \in [End -> Seq(Packet)]
        /\ start \in [End -> Seq(Nat)] /\ got \in [End -> Seq(Packet)]
    BY <1>1 DEF Init
  <2>2. /\ left \in [End -> Nat] /\ sent \in [End -> Nat]
        /\ rcvd \in [End -> Nat] /\ parsed \in [End -> Nat]
    BY DEF Init
  <2>3. ri \in [End -> 0..ReadBatch]
    BY ChannelAssumption DEF Init
  <2>4. /\ blocking \in [End -> BOOLEAN] /\ channels \in [End -> BOOLEAN]
        /\ gone \in [End -> BOOLEAN] /\ reset \in [End -> BOOLEAN]
    BY DEF Init
  <2>5. pc \in [End -> {"off", "idle", "write", "update", "head", "body", "done"}]
    BY DEF Init
  <2>6. listening \in BOOLEAN /\ backlog \in BOOLEAN
    BY Zenon DEF Init
  <2> QED BY <2>1, <2>2, <2>3, <2>4, <2>5, <2>6 DEF TypeOK
<1>3. ASSUME NEW e \in End PROVE StreamOK(e) /\ ThreadOK(e)
  <2>1. /\ handed[e] = <<>> /\ start[e] = <<>> /\ got[e] = <<>> /\ pc[e] = "off"
        /\ parsed[e] = 0 /\ rcvd[e] = 0 /\ sent[e] = 0 /\ left[e] = 0 /\ ~gone[e]
    BY DEF Init
  <2>2. EndOf(e, Len(handed[e])) = 0 /\ EndOf(e, Len(got[e])) = 0
    BY <1>1, <2>1 DEF EndOf
  <2>3. FramesOK(e)
    BY <2>1, <2>2, <1>1 DEF FramesOK
  <2> QED BY <2>1, <2>3, <1>1 DEF StreamOK, ThreadOK
<1>4. LinkOK
  BY Zenon DEF Init, LinkOK, End
<1> QED BY <1>2, <1>3, <1>4 DEF ChannelInv

-----------------------------------------------------------------------------
(* Steps that leave the streams alone. *)

LEMMA UnmovedInv ==
  ASSUME ChannelInv, TypeOK', LinkOK', UNCHANGED streamVars,
         \A f \in End :
           (pc'[f] = pc[f] /\ ri'[f] = ri[f]) \/ (pc'[f] # "body" /\ ~gone[f])
  PROVE  ChannelInv'
<1>1. ASSUME NEW f \in End PROVE StreamOK(f)' /\ ThreadOK(f)'
  BY StreamsKept, ThreadsKept DEF ChannelInv, streamVars
<1> QED BY <1>1 DEF ChannelInv

LEMMA ListenInv == ASSUME ChannelInv, Listen PROVE ChannelInv'
<1>1. TypeOK'
  BY DEF Listen, TypeOK, ChannelInv, threadVars, outVars
<1>2. UNCHANGED streamVars /\ UNCHANGED <<pc, ri, backlog>>
  BY DEF Listen, streamVars, threadVars, outVars
<1>3. LinkOK'
  BY <1>2 DEF ChannelInv, LinkOK
<1> QED BY <1>1, <1>2, <1>3, UnmovedInv

LEMMA ConnectInv == ASSUME ChannelInv, Connect PROVE ChannelInv'
<1>1. Client \in End /\ Server \in End /\ Client # Server
  BY ChannelAssumption DEF End
<1>2. TypeOK'
  BY <1>1 DEF Connect, OpenTransport, AfterOpen, TypeOK, ChannelInv, outVars
<1>3. UNCHANGED streamVars
  BY DEF Connect, streamVars, outVars
<1>4. /\ pc' = [pc EXCEPT ![Client] = "idle"] /\ pc[Client] = "off" /\ pc[Server] = "off"
      /\ ri' = ri
  BY DEF Connect, OpenTransport, ChannelInv, LinkOK
<1>5. ~gone[Client]
  BY <1>1, <1>4 DEF ChannelInv, ThreadOK
<1>6. LinkOK'
  BY <1>1, <1>4 DEF LinkOK, TypeOK, ChannelInv
<1>7. ASSUME NEW f \in End
      PROVE  (pc'[f] = pc[f] /\ ri'[f] = ri[f]) \/ (pc'[f] # "body" /\ ~gone[f])
  BY <1>4, <1>5 DEF TypeOK, ChannelInv
<1> QED BY <1>2, <1>3, <1>6, <1>7, UnmovedInv

LEMMA AcceptInv == ASSUME ChannelInv, Accept PROVE ChannelInv'
<1>1. Client \in End /\ Server \in End /\ Client # Server
  BY ChannelAssumption DEF End
<1>2. TypeOK'
  BY <1>1 DEF Accept, OpenTransport, AfterOpen, TypeOK, ChannelInv, outVars
<1>3. UNCHANGED streamVars
  BY DEF Accept, streamVars, outVars
<1>4. /\ pc' = [pc EXCEPT ![Server] = "idle"] /\ ~backlog'
      /\ pc[Server] = "off" /\ pc[Client] # "off" /\ ri' = ri
  BY DEF Accept, OpenTransport, ChannelInv, LinkOK
<1>5. ~gone[Server]
  BY <1>1, <1>4 DEF ChannelInv, ThreadOK
<1>6. LinkOK'
  BY <1>1, <1>4 DEF LinkOK, TypeOK, ChannelInv
<1>7. ASSUME NEW f \in End
      PROVE  (pc'[f] = pc[f] /\ ri'[f] = ri[f]) \/ (pc'[f] # "body" /\ ~gone[f])
  BY <1>4, <1>5 DEF TypeOK, ChannelInv
<1> QED BY <1>2, <1>3, <1>6, <1>7, UnmovedInv

(* A step of a network thread, which has a link, within it. *)
LEMMA ThreadLinkOK ==
  ASSUME ChannelInv, NEW e \in End, pc[e] # "off", NEW place, place # "off",
         pc' = [pc EXCEPT ![e] = place], backlog' = backlog
  PROVE  LinkOK'
BY DEF LinkOK, ChannelInv, TypeOK, End

LEMMA ThreadStepInv ==
  ASSUME ChannelInv, TypeOK', NEW e \in End, NEW place,
         pc[e] \notin {"off", "done"}, place \notin {"off", "body"},
         pc' = [pc EXCEPT ![e] = place], backlog' = backlog,
         \A f \in End : f # e => ri'[f] = ri[f], UNCHANGED streamVars
  PROVE  ChannelInv'
<1>1. ~gone[e]
  BY DEF ChannelInv, ThreadOK
<1>2. ASSUME NEW f \in End
      PROVE  (pc'[f] = pc[f] /\ ri'[f] = ri[f]) \/ (pc'[f] # "body" /\ ~gone[f])
  BY <1>1 DEF TypeOK, ChannelInv
<1>3. LinkOK'
  BY ThreadLinkOK
<1> QED BY <1>2, <1>3, UnmovedInv

LEMMA StartPassInv == ASSUME ChannelInv, NEW e \in End, StartPass(e) PROVE ChannelInv'
<1>1. TypeOK'
  BY DEF StartPass, TypeOK, ChannelInv, linkVars, outVars
<1>2. UNCHANGED streamVars /\ backlog' = backlog /\ ri' = ri
  BY DEF StartPass, streamVars, outVars, linkVars
<1> QED BY <1>1, <1>2, ThreadStepInv DEF StartPass

LEMMA EndWriteInv == ASSUME ChannelInv, NEW e \in End, EndWrite(e) PROVE ChannelInv'
<1>1. TypeOK'
  BY DEF EndWrite, TypeOK, ChannelInv, linkVars, outVars
<1>2. UNCHANGED streamVars /\ backlog' = backlog /\ ri' = ri
  BY DEF EndWrite, streamVars, outVars, linkVars
<1> QED BY <1>1, <1>2, ThreadStepInv DEF EndWrite

LEMMA EndBatchInv == ASSUME ChannelInv, NEW e \in End, EndBatch(e) PROVE ChannelInv'
<1>1. TypeOK'
  BY DEF EndBatch, TypeOK, ChannelInv, linkVars, outVars
<1>2. UNCHANGED streamVars /\ backlog' = backlog /\ ri' = ri
  BY DEF EndBatch, streamVars, outVars, linkVars
<1> QED BY <1>1, <1>2, ThreadStepInv DEF EndBatch

LEMMA ReadFailsInv == ASSUME ChannelInv, NEW e \in End, ReadFails(e) PROVE ChannelInv'
<1>1. TypeOK'
  BY DEF ReadFails, RecvNothing, TypeOK, ChannelInv, linkVars, outVars
<1>2. UNCHANGED streamVars /\ backlog' = backlog /\ ri' = ri
  BY DEF ReadFails, streamVars, outVars, linkVars
<1>3. pc[e] \notin {"off", "done"} /\ pc' = [pc EXCEPT ![e] = "idle"]
  BY DEF ReadFails, Reads
<1> QED BY <1>1, <1>2, <1>3, ThreadStepInv

LEMMA HeaderReadInv == ASSUME ChannelInv, NEW e \in End, HeaderRead(e) PROVE ChannelInv'
<1>1. TypeOK'
  BY DEF HeaderRead, TypeOK, ChannelInv, linkVars, outVars
<1>2. UNCHANGED streamVars /\ backlog' = backlog /\ ri' = ri
  BY DEF HeaderRead, streamVars, outVars, linkVars
<1>3. /\ pc[e] = "head" /\ pc' = [pc EXCEPT ![e] = "body"]
      /\ Buffered(e) >= HeaderBytes /\ InBatch(ri[e])
  BY DEF HeaderRead, Enough, Reads
<1>4. LinkOK'
  BY <1>2, <1>3, ThreadLinkOK
<1>5. ASSUME NEW f \in End PROVE StreamOK(f)' /\ ThreadOK(f)'
  <2>1. StreamOK(f)'
    BY <1>2, StreamsKept DEF ChannelInv
  <2>2. gone' = gone /\ rcvd' = rcvd /\ parsed' = parsed
    BY <1>2 DEF streamVars
  <2>3. Buffered(f)' = Buffered(f)
    BY <2>2 DEF Buffered
  <2>4. ThreadOK(f) /\ ~gone[e]
    BY <1>3 DEF ChannelInv, ThreadOK
  <2>5. CASE f = e
    <3>1. Buffered(f)' >= HeaderBytes /\ ~gone'[f]
      BY <2>5, <2>2, <2>3, <2>4, <1>3
    <3>2. InBatch(ri[f])'
      BY <2>5, <1>2, <1>3 DEF InBatch
    <3> QED BY <2>1, <3>1, <3>2 DEF ThreadOK
  <2>6. CASE f # e
    <3>1. pc'[f] = pc[f]
      BY <2>6, <1>3 DEF ChannelInv, TypeOK
    <3> QED BY <1>2, <2>1, <3>1, <2>4, <2>2, ThreadsKept
  <2> QED BY <2>5, <2>6
<1> QED BY <1>1, <1>4, <1>5 DEF ChannelInv

LEMMA EnqueueInv ==
  ASSUME ChannelInv, NEW e \in End, NEW p \in Packet, Enqueue(e, p) PROVE ChannelInv'
<1>1. queue' \in [End -> Seq(Packet)]
  BY DEF Enqueue, TypeOK, ChannelInv
<1>2. TypeOK'
  BY <1>1 DEF Enqueue, TypeOK, ChannelInv, linkVars, threadVars
<1>3. UNCHANGED streamVars /\ UNCHANGED <<pc, ri, backlog>>
  BY DEF Enqueue, streamVars, linkVars, threadVars
<1>4. LinkOK'
  BY <1>3 DEF ChannelInv, LinkOK
<1> QED BY <1>2, <1>3, <1>4, UnmovedInv

-----------------------------------------------------------------------------
(* A connection is torn down. *)

(* Only the closing end's own stream is cut, and not below what the other  *)
(* end has received.                                                       *)
LEMMA HangupFacts ==
  ASSUME ChannelInv, NEW e \in End, Hangup(e)
  PROVE  /\ sent' \in [End -> Nat] /\ reset' \in [End -> BOOLEAN]
         /\ rcvd[e] <= sent'[e] /\ sent'[e] <= sent[e]
         /\ \A f \in End : f # e => sent'[f] = sent[f]
<1>1. /\ sent \in [End -> Nat] /\ rcvd \in [End -> Nat] /\ reset \in [End -> BOOLEAN]
      /\ rcvd[e] <= sent[e] /\ Other(e) \in End
  BY OtherFacts DEF ChannelInv, TypeOK, StreamOK
<1>2. CASE UNCHANGED <<sent, reset>>
  BY <1>1, <1>2
<1>3. CASE /\ \E n \in rcvd[e]..sent[e] : sent' = [sent EXCEPT ![e] = n]
           /\ reset' = [reset EXCEPT ![Other(e)] = TRUE]
  <2>1. PICK n \in rcvd[e]..sent[e] : sent' = [sent EXCEPT ![e] = n]
    BY <1>3
  <2>2. n \in Nat /\ rcvd[e] <= n /\ n <= sent[e]
    BY <1>1
  <2>3. sent' \in [End -> Nat] /\ sent'[e] = n /\ \A f \in End : f # e => sent'[f] = sent[f]
    BY <2>1, <2>2, <1>1
  <2>4. reset' \in [End -> BOOLEAN]
    BY <1>3, <1>1
  <2> QED BY <2>2, <2>3, <2>4
<1> QED BY <1>2, <1>3 DEF Hangup

(* A stream that is cut, but not below what was received, whose sender has *)
(* gone.                                                                   *)
LEMMA CutStream ==
  ASSUME ChannelInv, NEW e \in End, sent' \in [End -> Nat],
         rcvd[e] <= sent'[e], sent'[e] <= sent[e],
         gone'[e], gone'[Other(e)] = gone[Other(e)], left'[e] = left[e],
         UNCHANGED <<handed, start, rcvd, parsed, got>>
  PROVE  StreamOK(e)'
<1>1. TypeOK /\ StreamOK(e)
  BY DEF ChannelInv
<1>2. ASSUME ~gone[Other(e)] PROVE FramesOK(e)'
  <2>1. FramesOK(e)
    BY <1>1, <1>2 DEF StreamOK
  <2>2. \A k : EndOf(e, k)' = EndOf(e, k)
    BY DEF EndOf
  <2>3. sent'[e] + left[e] <= sent[e] + left[e]
    BY <1>1 DEF TypeOK
  <2>4. EndOf(e, Len(handed[e])) \in Nat
    <3>1. Len(handed[e]) \in 0..Len(handed[e]) /\ Len(start[e]) = Len(handed[e])
      BY <1>1 DEF StreamOK, TypeOK
    <3> QED BY <1>1, <3>1, EndOfNat
  <2>5. sent'[e] + left[e] <= EndOf(e, Len(handed[e]))
    BY <2>1, <2>3, <2>4, <1>1 DEF TypeOK, FramesOK
  <2> QED BY <2>1, <2>2, <2>5 DEF FramesOK
<1> QED BY <1>1, <1>2 DEF StreamOK

LEMMA CloseInv ==
  ASSUME ChannelInv, NEW e \in End, Close(e), LinkOK',
         listening' \in BOOLEAN, backlog' \in BOOLEAN, ri' \in [End -> 0..ReadBatch],
         \A f \in End : f # e => ri'[f] = ri[f],
         UNCHANGED <<outVars, rcvd, parsed, got>>
  PROVE  ChannelInv'
<1>1. /\ sent' \in [End -> Nat] /\ reset' \in [End -> BOOLEAN]
      /\ rcvd[e] <= sent'[e] /\ sent'[e] <= sent[e]
      /\ \A f \in End : f # e => sent'[f] = sent[f]
  BY HangupFacts DEF Close
<1>2. /\ pc' = [pc EXCEPT ![e] = "done"] /\ gone' = [gone EXCEPT ![e] = TRUE]
      /\ channels' = [channels EXCEPT ![e] = FALSE]
      /\ blocking' = [blocking EXCEPT ![e] = TRUE]
  BY DEF Close
<1>3. TypeOK'
  BY <1>1, <1>2 DEF ChannelInv, TypeOK, outVars
<1>4. UNCHANGED <<handed, start, left, rcvd, parsed, got>>
  BY DEF outVars
<1>5. TypeOK
  BY DEF ChannelInv
<1>6. StreamOK(e)'
  <2>1. Other(e) # e /\ Other(e) \in End
    BY OtherFacts
  <2>2. gone'[e] /\ gone'[Other(e)] = gone[Other(e)]
    BY <1>2, <1>5, <2>1 DEF TypeOK
  <2> QED BY <2>2, <1>1, <1>4, CutStream
<1>7. ASSUME NEW f \in End, f # e PROVE StreamOK(f)'
  <2>1. StreamOK(f) /\ Other(f) = e
    BY <1>7 DEF ChannelInv, Other, End
  <2>2. gone'[e] /\ sent'[f] = sent[f]
    BY <1>1, <1>2, <1>5, <1>7 DEF TypeOK
  <2> QED BY <2>1, <2>2, <1>4 DEF StreamOK
<1>8. ASSUME NEW f \in End PROVE ThreadOK(f)'
  <2>1. CASE f = e
    BY <2>1, <1>2, <1>5 DEF ThreadOK, TypeOK
  <2>2. CASE f # e
    <3>1. pc'[f] = pc[f] /\ gone'[f] = gone[f] /\ ThreadOK(f)
      BY <2>2, <1>2 DEF ChannelInv
    <3>2. ri'[f] = ri[f]
      BY <2>2
    <3> QED BY <3>1, <3>2, <1>4 DEF ThreadOK, Buffered, InBatch
  <2> QED BY <2>1, <2>2
<1> QED BY <1>3, <1>6, <1>7, <1>8 DEF ChannelInv

LEMMA LeaveInv == ASSUME ChannelInv, NEW e \in End, Leave(e) PROVE ChannelInv'
<1>1. TypeOK /\ LinkOK
  BY DEF ChannelInv
<1>2. pc' = [pc EXCEPT ![e] = "done"] /\ backlog' = (backlog /\ e # Server)
  BY DEF Leave, Close
<1>3. /\ listening' \in BOOLEAN /\ backlog' \in BOOLEAN
      /\ ri' \in [End -> 0..ReadBatch] /\ ri' = ri
  BY <1>1, <1>2 DEF Leave, TypeOK
<1>4. LinkOK'
  BY <1>1, <1>2, ChannelAssumption DEF LinkOK, TypeOK, End, Leave
<1> QED BY <1>3, <1>4, CloseInv DEF Leave

LEMMA UpdateInv == ASSUME ChannelInv, NEW e \in End, Update(e) PROVE ChannelInv'
<1>1. TypeOK /\ LinkOK /\ pc[e] = "update"
  BY DEF ChannelInv, Update
<1>2. /\ listening' \in BOOLEAN /\ backlog' = backlog /\ backlog' \in BOOLEAN
      /\ ri' \in [End -> 0..ReadBatch] /\ \A f \in End : f # e => ri'[f] = ri[f]
  <2>1. 0 \in 0..ReadBatch
    BY ChannelAssumption
  <2> QED BY <1>1, <2>1 DEF TypeOK, Update
<1>3. CASE EndOfStream(e) /\ Close(e)
  <2>1. pc' = [pc EXCEPT ![e] = "done"]
    BY <1>3 DEF Close
  <2>2. LinkOK'
    BY <2>1, <1>1, <1>2, ThreadLinkOK
  <2> QED BY <1>2, <1>3, <2>2, CloseInv DEF Update
<1>4. CASE /\ RecvNothing(e)
           /\ pc' = [pc EXCEPT ![e] = "head"]
           /\ UNCHANGED <<blocking, channels, gone, sent>>
  <2>1. reset' \in [End -> BOOLEAN]
    BY <1>1, <1>4 DEF RecvNothing, TypeOK
  <2>2. UNCHANGED streamVars
    BY <1>4 DEF Update, streamVars, outVars
  <2>3. TypeOK'
    BY <1>1, <1>2, <1>4, <2>1 DEF Update, TypeOK, outVars
  <2> QED BY <1>1, <1>2, <1>4, <2>2, <2>3, ThreadStepInv
<1> QED BY <1>3, <1>4 DEF Update

LEMMA ServerPeekInv == ASSUME ChannelInv, ServerPeek PROVE ChannelInv'
<1>1. TypeOK /\ LinkOK /\ Server \in End
  BY DEF ChannelInv, End
<1>2. CASE RecvNothing(Server) /\ UNCHANGED <<linkVars, gone, pc, sent>>
  <2>1. reset' \in [End -> BOOLEAN]
    BY <1>1, <1>2 DEF RecvNothing, TypeOK
  <2>2. UNCHANGED streamVars /\ UNCHANGED <<pc, ri, backlog>>
    BY <1>2 DEF ServerPeek, streamVars, outVars, linkVars
  <2>3. TypeOK'
    BY <1>1, <1>2, <2>1 DEF ServerPeek, TypeOK, outVars, linkVars
  <2>4. LinkOK'
    BY <1>1, <2>2 DEF LinkOK
  <2> QED BY <2>2, <2>3, <2>4, UnmovedInv
<1>3. CASE /\ pc[Server] = "idle" /\ Close(Server)
           /\ UNCHANGED <<listening, backlog>>
  <2>1. pc' = [pc EXCEPT ![Server] = "done"]
    BY <1>3 DEF Close
  <2>2. LinkOK'
    BY <2>1, <1>1, <1>3, ThreadLinkOK
  <2>3. /\ listening' \in BOOLEAN /\ backlog' \in BOOLEAN
        /\ ri' \in [End -> 0..ReadBatch] /\ ri' = ri
    BY <1>1, <1>3 DEF TypeOK, ServerPeek
  <2> QED BY <1>1, <1>3, <2>2, <2>3, CloseInv DEF ServerPeek
<1> QED BY <1>2, <1>3 DEF ServerPeek

-----------------------------------------------------------------------------
(* The output side. *)

(* The new frame starts where the stream is, which is where the last one   *)
(* ends: the one before it has been sent in full.                          *)
LEMMA WriteNextInv == ASSUME ChannelInv, NEW e \in End, WriteNext(e) PROVE ChannelInv'
<1> DEFINE p == Head(queue[e])
<1>1. TypeOK /\ StreamOK(e) /\ ThreadOK(e) /\ pc[e] = "write" /\ left[e] = 0 /\ queue[e] # <<>>
  BY DEF ChannelInv, WriteNext
<1>m. PICK m \in Nat : m = Len(handed[e])
  BY <1>1 DEF TypeOK
<1>2. queue[e] \in Seq(Packet) /\ p \in Packet /\ Tail(queue[e]) \in Seq(Packet)
  BY <1>1 DEF TypeOK
<1>3. Size[p] \in Nat
  BY <1>2, ChannelAssumption
<1>4. /\ handed[e] \in Seq(Packet) /\ start[e] \in Seq(Nat) /\ Len(handed[e]) = m
      /\ sent[e] \in Nat /\ Len(start[e]) = m /\ got[e] \in Seq(Packet)
  BY <1>1, <1>m DEF TypeOK, StreamOK
<1>5. /\ handed' = [handed EXCEPT ![e] = Append(handed[e], p)]
      /\ start' = [start EXCEPT ![e] = Append(start[e], sent[e])]
      /\ left' = [left EXCEPT ![e] = Size[p]]
      /\ queue' = [queue EXCEPT ![e] = Tail(queue[e])]
  BY DEF WriteNext
<1>6. UNCHANGED <<linkVars, gone, reset, threadVars, sent, rcvd, parsed, got>>
  BY DEF WriteNext
<1>7. UNCHANGED <<listening, backlog, blocking, channels, pc, ri>>
  BY <1>6 DEF linkVars, threadVars
<1>8. TypeOK'
  <2>1. handed' \in [End -> Seq(Packet)] /\ queue' \in [End -> Seq(Packet)]
    BY <1>1, <1>2, <1>4, <1>5 DEF TypeOK
  <2>2. start' \in [End -> Seq(Nat)] /\ left' \in [End -> Nat]
    BY <1>1, <1>3, <1>4, <1>5 DEF TypeOK
  <2> QED BY <2>1, <2>2, <1>1, <1>6, <1>7 DEF TypeOK
<1>9. LinkOK'
  BY <1>7 DEF ChannelInv, LinkOK
<1>10. ASSUME NEW f \in End PROVE ThreadOK(f)'
  BY <1>6, <1>7 DEF ChannelInv, ThreadOK, Buffered, InBatch
<1>11. /\ handed'[e] = Append(handed[e], p) /\ start'[e] = Append(start[e], sent[e])
       /\ left'[e] = Size[p]
  BY <1>1, <1>5 DEF TypeOK
<1>12. /\ Len(handed'[e]) = m + 1 /\ Len(start'[e]) = m + 1
       /\ handed'[e][m + 1] = p /\ start'[e][m + 1] = sent[e]
       /\ \A k \in 1..m : handed'[e][k] = handed[e][k] /\ start'[e][k] = start[e][k]
  <2>1. handed'[e] = Append(handed[e], p) /\ start'[e] = Append(start[e], sent[e])
    BY <1>11
  <2>2. Len(handed[e]) = m /\ Len(start[e]) = m
    BY <1>4
  <2>3. /\ Len(Append(handed[e], p)) = Len(handed[e]) + 1
        /\ Append(handed[e], p)[Len(handed[e]) + 1] = p
        /\ \A k \in 1..Len(handed[e]) : Append(handed[e], p)[k] = handed[e][k]
    BY <1>2, <1>4, AppendFacts
  <2>4. /\ Len(Append(start[e], sent[e])) = Len(start[e]) + 1
        /\ Append(start[e], sent[e])[Len(start[e]) + 1] = sent[e]
        /\ \A k \in 1..Len(start[e]) : Append(start[e], sent[e])[k] = start[e][k]
    BY <1>4, AppendFacts
  <2> HIDE DEF p
  <2>5. /\ Len(handed'[e]) = m + 1 /\ handed'[e][m + 1] = p
        /\ \A k \in 1..m : handed'[e][k] = handed[e][k]
    BY <2>1, <2>2, <2>3, Zenon
  <2>6. /\ Len(start'[e]) = m + 1 /\ start'[e][m + 1] = sent[e]
        /\ \A k \in 1..m : start'[e][k] = start[e][k]
    BY <2>1, <2>2, <2>4, Zenon
  <2> QED BY <2>5, <2>6, Zenon
<1>13. StreamOK(e)'
  <2>1. Len(got[e]) \in 0..m
    BY <1>1, <1>4 DEF StreamOK
  <2>2. \A k \in 1..Len(got[e]) : got'[e][k] = handed'[e][k]
    BY <2>1, <1>1, <1>6, <1>12 DEF StreamOK
  <2>3. ASSUME ~gone[Other(e)] PROVE FramesOK(e)'
    <3>1. FramesOK(e) /\ ~gone[e]
      BY <2>3, <1>1 DEF StreamOK, ThreadOK
    <3>2. \A k \in 0..m : EndOf(e, k)' = EndOf(e, k)
      BY <1>12, <1>4 DEF EndOf
    <3>3. EndOf(e, m) = sent[e]
      BY <3>1, <1>1, <1>4 DEF FramesOK
    <3>4. EndOf(e, m + 1)' = sent[e] + Size[p]
      BY <1>12, <1>4 DEF EndOf
    <3>5. ASSUME NEW k \in 1..(m + 1), NEW j \in 1..(k - 1)
          PROVE  start'[e][j] + Size[handed'[e][j]] <= start'[e][k]
      <4>1. j \in 1..m /\ (k \in 1..m \/ k = m + 1)
        OBVIOUS
      <4>2. start'[e][j] = start[e][j] /\ handed'[e][j] = handed[e][j]
        BY <4>1, <1>12
      <4>3. CASE k \in 1..m
        BY <4>2, <4>3, <3>1, <1>4, <1>12 DEF FramesOK
      <4>4. CASE k = m + 1 /\ j = m
        <5>1. EndOf(e, m) = start[e][m] + Size[handed[e][m]]
          BY <4>1, <4>4 DEF EndOf
        <5> QED BY <5>1, <4>2, <4>4, <3>3, <1>4, <1>12
      <4>5. CASE k = m + 1 /\ j # m
        <5>1. j \in 1..(m - 1) /\ m \in 1..m
          BY <4>1, <4>5
        <5>2. start[e][j] + Size[handed[e][j]] <= start[e][m]
          BY <5>1, <3>1, <1>4 DEF FramesOK
        <5>3. EndOf(e, m) = start[e][m] + Size[handed[e][m]]
          BY <5>1 DEF EndOf
        <5>4. handed[e][m] \in Packet /\ handed[e][j] \in Packet
          BY <5>1, <4>1, <1>4
        <5>5. start[e][m] \in Nat /\ start[e][j] \in Nat
          BY <5>1, <4>1, <1>4
        <5>6. Size[handed[e][m]] \in Nat /\ Size[handed[e][j]] \in Nat
          BY <5>4, ChannelAssumption
        <5>7. start[e][j] + Size[handed[e][j]] <= sent[e]
          BY <5>2, <5>3, <5>5, <5>6, <3>3
        <5> QED BY <5>7, <4>2, <4>5, <1>12
      <4> QED BY <4>1, <4>3, <4>4, <4>5
    <3>6. ASSUME NEW k \in 1..(m + 1) PROVE start'[e][k] = EndOf(e, k - 1)'
      <4>1. CASE k \in 1..m
        <5>1. k - 1 \in 0..m /\ start[e][k] = EndOf(e, k - 1)
          BY <4>1, <3>1, <1>4 DEF FramesOK
        <5> QED BY <5>1, <4>1, <3>2, <1>12
      <4>2. CASE k = m + 1
        <5>1. k - 1 = m /\ m \in 0..m
          BY <4>2, <1>4
        <5> QED BY <5>1, <4>2, <3>2, <3>3, <1>12
      <4> QED BY <4>1, <4>2, <1>4
    <3>7. parsed'[e] = EndOf(e, Len(got[e]))'
      BY <2>1, <3>1, <3>2, <1>6 DEF FramesOK
    <3>8. sent'[e] + left'[e] = EndOf(e, m + 1)' /\ EndOf(e, m + 1)' \in Nat
      BY <3>4, <1>3, <1>4, <1>6, <1>11
    <3> QED BY <3>5, <3>6, <3>7, <3>8, <1>6, <1>12 DEF FramesOK
  <2>4. Len(got'[e]) <= m + 1 /\ parsed'[e] <= rcvd'[e] /\ rcvd'[e] <= sent'[e]
    BY <2>1, <1>1, <1>4, <1>6 DEF StreamOK
  <2> QED BY <2>2, <2>3, <2>4, <1>6, <1>12 DEF StreamOK
<1>14. ASSUME NEW f \in End, f # e PROVE StreamOK(f)'
  <2>1. handed'[f] = handed[f] /\ start'[f] = start[f] /\ left'[f] = left[f] /\ StreamOK(f)
    BY <1>14, <1>5 DEF ChannelInv
  <2>2. \A k : EndOf(f, k)' = EndOf(f, k)
    BY <2>1 DEF EndOf
  <2> QED BY <2>1, <2>2, <1>6 DEF StreamOK, FramesOK
<1> QED BY <1>8, <1>9, <1>10, <1>13, <1>14 DEF ChannelInv

LEMMA SendBytesInv == ASSUME ChannelInv, NEW e \in End, SendBytes(e) PROVE ChannelInv'
<1>1. TypeOK /\ StreamOK(e) /\ ThreadOK(e) /\ pc[e] = "write"
  BY DEF ChannelInv, SendBytes
<1>2. PICK n \in 1..left[e] : /\ sent' = [sent EXCEPT ![e] = sent[e] + n]
                              /\ left' = [left EXCEPT ![e] = left[e] - n]
  BY DEF SendBytes, AfterSend
<1>3. UNCHANGED <<linkVars, gone, reset, threadVars, queue, handed, start, rcvd, parsed, got>>
  BY DEF SendBytes
<1>4. UNCHANGED <<listening, backlog, blocking, channels, pc, ri>>
  BY <1>3 DEF linkVars, threadVars
<1>5. /\ left[e] \in Nat /\ sent[e] \in Nat /\ rcvd[e] \in Nat
      /\ n \in Nat /\ 0 < n /\ left[e] - n \in Nat
  BY <1>1 DEF TypeOK
<1>6. /\ sent'[e] = sent[e] + n /\ left'[e] = left[e] - n
      /\ sent' \in [End -> Nat] /\ left' \in [End -> Nat]
      /\ sent'[e] + left'[e] = sent[e] + left[e]
  <2>1. sent \in [End -> Nat] /\ left \in [End -> Nat]
    BY <1>1 DEF TypeOK
  <2>2. sent'[e] = sent[e] + n /\ left'[e] = left[e] - n
    BY <2>1, <1>2
  <2>3. sent' \in [End -> Nat] /\ left' \in [End -> Nat]
    BY <2>1, <1>2, <1>5
  <2> QED BY <2>2, <2>3, <1>5
<1>7. TypeOK'
  BY <1>1, <1>3, <1>4, <1>6 DEF TypeOK
<1>8. LinkOK'
  BY <1>4 DEF ChannelInv, LinkOK
<1>9. ASSUME NEW f \in End PROVE ThreadOK(f)'
  BY <1>3, <1>4 DEF ChannelInv, ThreadOK, Buffered, InBatch
<1>10. StreamOK(e)'
  <2>1. \A k : EndOf(e, k)' = EndOf(e, k)
    BY <1>3 DEF EndOf
  <2>2. FramesOK(e) => FramesOK(e)'
    BY <2>1, <1>3, <1>6 DEF FramesOK
  <2>3. rcvd'[e] <= sent'[e]
    BY <1>1, <1>3, <1>5, <1>6 DEF StreamOK
  <2> QED BY <2>2, <2>3, <1>1, <1>3 DEF StreamOK
<1>11. ASSUME NEW f \in End, f # e PROVE StreamOK(f)'
  <2>1. sent'[f] = sent[f] /\ left'[f] = left[f] /\ StreamOK(f)
    BY <1>11, <1>2, <1>1 DEF ChannelInv, TypeOK
  <2>2. \A k : EndOf(f, k)' = EndOf(f, k)
    BY <1>3 DEF EndOf
  <2> QED BY <2>1, <2>2, <1>3 DEF StreamOK, FramesOK
<1> QED BY <1>7, <1>8, <1>9, <1>10, <1>11 DEF ChannelInv

(* The stream of e has no reader any more, and the other one, which the    *)
(* reset may cut, no sender.                                               *)
LEMMA SendInVainInv == ASSUME ChannelInv, NEW e \in End, SendInVain(e) PROVE ChannelInv'
<1> DEFINE o == Other(e)
<1>1. TypeOK /\ StreamOK(o) /\ StreamOK(e) /\ o \in End /\ Other(o) = e /\ o # e /\ gone[o]
  BY OtherFacts DEF ChannelInv, SendInVain
<1>2. /\ UNCHANGED <<linkVars, gone, threadVars, queue, handed, start, rcvd, parsed, got>>
      /\ left' = [left EXCEPT ![e] = 0]
  BY DEF SendInVain
<1>3. UNCHANGED <<listening, backlog, blocking, channels, pc, ri>>
  BY <1>2 DEF linkVars, threadVars
<1>4. /\ sent' \in [End -> Nat] /\ reset' \in [End -> BOOLEAN] /\ sent'[e] = sent[e]
      /\ rcvd[o] <= sent'[o] /\ sent'[o] <= sent[o]
  <2>1. sent \in [End -> Nat] /\ rcvd[o] \in Nat /\ reset \in [End -> BOOLEAN] /\ rcvd[o] <= sent[o]
    BY <1>1 DEF TypeOK, StreamOK
  <2>2. CASE UNCHANGED <<reset, sent>>
    BY <2>1, <2>2, <1>1
  <2>3. CASE /\ reset' = [reset EXCEPT ![e] = TRUE]
             /\ \E n \in rcvd[o]..sent[o] : sent' = [sent EXCEPT ![o] = n]
    <3>1. PICK n \in rcvd[o]..sent[o] : sent' = [sent EXCEPT ![o] = n]
      BY <2>3
    <3>2. n \in Nat /\ rcvd[o] <= n /\ n <= sent[o]
      BY <2>1, <1>1
    <3>3. reset' \in [End -> BOOLEAN]
      BY <2>1, <2>3
    <3> QED BY <3>1, <3>2, <3>3, <2>1, <1>1
  <2> QED BY <2>2, <2>3 DEF SendInVain
<1>5. left' \in [End -> Nat] /\ left'[e] = 0 /\ left'[o] = left[o]
  BY <1>1, <1>2 DEF TypeOK
<1>6. TypeOK'
  BY <1>1, <1>2, <1>3, <1>4, <1>5 DEF TypeOK
<1>7. LinkOK'
  BY <1>3 DEF ChannelInv, LinkOK
<1>8. ASSUME NEW f \in End PROVE ThreadOK(f)'
  BY <1>2, <1>3 DEF ChannelInv, ThreadOK, Buffered, InBatch
<1>9. StreamOK(o)'
  <2>1. gone'[o] /\ gone'[Other(o)] = gone[Other(o)]
    BY <1>1, <1>2
  <2>2. UNCHANGED <<handed, start, rcvd, parsed, got>>
    BY <1>2
  <2> QED BY <2>1, <2>2, <1>1, <1>4, <1>5, CutStream
<1>10. StreamOK(e)'
  <2>1. gone'[Other(e)]
    BY <1>1, <1>2
  <2> QED BY <2>1, <1>1, <1>2, <1>4 DEF StreamOK
<1>11. \A f \in End : f = e \/ f = o
  BY <1>1 DEF End
<1> QED BY <1>6, <1>7, <1>8, <1>9, <1>10, <1>11 DEF ChannelInv

-----------------------------------------------------------------------------
(* The input side. *)

LEMMA ReceiveInv == ASSUME ChannelInv, NEW e \in End, Receive(e) PROVE ChannelInv'
<1> DEFINE s == Other(e)
<1>1. TypeOK /\ ThreadOK(e) /\ StreamOK(s) /\ s \in End /\ Other(s) = e /\ s # e
  BY OtherFacts DEF ChannelInv
<1>2. PICK n \in 1..RecvMax :
        /\ n <= sent[s] - rcvd[s]
        /\ rcvd' = [rcvd EXCEPT ![s] = rcvd[s] + n]
        /\ pc' = [pc EXCEPT ![e] =
                    IF Enough(Buffered(e) + n, Needed(e)) THEN "body" ELSE "idle"]
  BY DEF Receive
<1>3. /\ UNCHANGED <<linkVars, gone, reset, ri, outVars, sent, parsed, got>>
      /\ Reads(e)
  BY DEF Receive
<1>4. UNCHANGED <<listening, backlog, blocking, channels, queue, handed, start, left>>
  BY <1>3 DEF linkVars, outVars
<1>5. n \in Nat /\ sent[s] \in Nat /\ rcvd[s] \in Nat /\ parsed[s] \in Nat
  BY <1>1, ChannelAssumption DEF TypeOK
<1>6. rcvd' \in [End -> Nat] /\ rcvd'[s] = rcvd[s] + n /\ \A f \in End : f # s => rcvd'[f] = rcvd[f]
  <2>1. rcvd \in [End -> Nat]
    BY <1>1 DEF TypeOK
  <2>2. s \in End /\ rcvd[s] + n \in Nat
    BY <1>1, <1>5
  <2>3. rcvd' = [rcvd EXCEPT ![s] = rcvd[s] + n]
    BY <1>2
  <2> HIDE DEF s
  <2> QED BY <2>1, <2>2, <2>3
<1>7. TypeOK'
  <2>1. pc' \in [End -> {"off", "idle", "write", "update", "head", "body", "done"}]
    BY <1>1, <1>2 DEF TypeOK
  <2> QED BY <2>1, <1>1, <1>3, <1>4, <1>6 DEF TypeOK
<1>8. pc[e] \in {"head", "body"} /\ InBatch(ri[e]) /\ ~gone[e]
  BY <1>1, <1>3 DEF Reads, ThreadOK
<1>9. LinkOK'
  BY <1>2, <1>4, <1>8, ThreadLinkOK
<1>10. ASSUME NEW f \in End PROVE StreamOK(f)'
  <2>1. StreamOK(f) /\ \A k : EndOf(f, k)' = EndOf(f, k)
    BY <1>4 DEF ChannelInv, EndOf
  <2>2. FramesOK(f) => FramesOK(f)'
    BY <2>1, <1>3, <1>4 DEF FramesOK
  <2>3. parsed'[f] <= rcvd'[f] /\ rcvd'[f] <= sent'[f]
    <3>1. CASE f = s
      BY <3>1, <1>1, <1>2, <1>3, <1>5, <1>6 DEF StreamOK
    <3>2. CASE f # s
      BY <3>2, <2>1, <1>3, <1>6 DEF StreamOK
    <3> QED BY <3>1, <3>2
  <2> QED BY <2>1, <2>2, <2>3, <1>3, <1>4 DEF StreamOK
<1>11. ThreadOK(e)'
  <2>1. ~gone'[e] /\ InBatch(ri[e])'
    BY <1>3, <1>8 DEF InBatch
  <2>2. Buffered(e)' = Buffered(e) + n /\ Buffered(e) \in Int
    BY <1>1, <1>3, <1>5, <1>6 DEF Buffered
  <2>3. ASSUME Enough(Buffered(e) + n, Needed(e)) PROVE Buffered(e)' >= HeaderBytes
    <3>1. CASE pc[e] = "head"
      BY <2>2, <2>3, <3>1 DEF Enough, Needed
    <3>2. CASE pc[e] = "body"
      BY <2>2, <3>2, <1>1, <1>5, ChannelAssumption DEF ThreadOK
    <3> QED BY <3>1, <3>2, <1>8
  <2>4. pc'[e] = "body" => Enough(Buffered(e) + n, Needed(e))
    BY <1>1, <1>2 DEF TypeOK
  <2> QED BY <2>1, <2>3, <2>4 DEF ThreadOK
<1>12. ASSUME NEW f \in End, f # e PROVE ThreadOK(f)'
  <2>1. ThreadOK(f) /\ pc'[f] = pc[f]
    <3>1. pc \in [End -> {"off", "idle", "write", "update", "head", "body", "done"}]
      BY <1>1 DEF TypeOK
    <3> QED BY <3>1, <1>2, <1>12 DEF ChannelInv
  <2>2. Other(f) # s /\ Other(f) \in End
    BY OtherFacts, <1>12
  <2>3. Buffered(f)' = Buffered(f)
    BY <2>2, <1>3, <1>6 DEF Buffered
  <2> QED BY <2>1, <2>3, <1>3 DEF ThreadOK, InBatch
<1> QED BY <1>7, <1>9, <1>10, <1>11, <1>12 DEF ChannelInv

(* The frame returned is the next one, and the reader moves to its end. *)
LEMMA ParseInv == ASSUME ChannelInv, NEW e \in End, Parse(e) PROVE ChannelInv'
<1> DEFINE s == Other(e)
           k == Len(got[s]) + 1
           p == handed[s][k]
<1>1. TypeOK /\ ThreadOK(e) /\ StreamOK(s) /\ s \in End /\ Other(s) = e /\ s # e /\ pc[e] = "body"
  BY OtherFacts DEF ChannelInv, Parse
<1>2. ~gone[e] /\ k \in 1..Len(handed[s]) /\ FrameAtParsed(s) = k /\ start[s][k] = parsed[s]
  BY <1>1, NextFrame
<1>3. Needed(e) = Size[p]
  BY <1>1, <1>2 DEF Needed
<1>4. /\ got' = [got EXCEPT ![s] = Append(got[s], p)]
      /\ parsed' = [parsed EXCEPT ![s] = parsed[s] + Size[p]]
      /\ ri' = [ri EXCEPT ![e] = ri[e] + 1]
      /\ pc' = [pc EXCEPT ![e] = "head"]
      /\ rcvd[s] - parsed[s] >= Size[p]
  BY <1>2, <1>3 DEF Parse, Chopped, Enough, Buffered
<1>5. UNCHANGED <<linkVars, gone, reset, outVars, sent, rcvd>>
  BY DEF Parse
<1>6. UNCHANGED <<listening, backlog, blocking, channels, queue, handed, start, left>>
  BY <1>5 DEF linkVars, outVars
<1>7. /\ handed[s] \in Seq(Packet) /\ got[s] \in Seq(Packet) /\ p \in Packet
      /\ parsed[s] \in Nat /\ rcvd[s] \in Nat /\ sent[s] \in Nat
  <2>1. /\ handed[s] \in Seq(Packet) /\ got[s] \in Seq(Packet)
        /\ parsed[s] \in Nat /\ rcvd[s] \in Nat /\ sent[s] \in Nat
    BY <1>1 DEF TypeOK
  <2>2. p \in Packet
    BY <2>1, <1>2
  <2> QED BY <2>1, <2>2
<1>8. Size[p] \in Nat
  BY <1>7, ChannelAssumption
<1>9. TypeOK'
  <2>1. ri' \in [End -> 0..ReadBatch]
    <3>1. ri[e] \in 0..ReadBatch /\ ri[e] < ReadBatch /\ ReadBatch \in Nat
      BY <1>1, ChannelAssumption DEF TypeOK, ThreadOK, InBatch
    <3>2. ri[e] + 1 \in 0..ReadBatch
      BY <3>1
    <3> QED BY <3>2, <1>1, <1>4 DEF TypeOK
  <2>2. got' \in [End -> Seq(Packet)] /\ parsed' \in [End -> Nat]
    <3>1. Append(got[s], p) \in Seq(Packet) /\ parsed[s] + Size[p] \in Nat
      BY <1>7, <1>8
    <3> QED BY <3>1, <1>1, <1>4 DEF TypeOK
  <2>3. pc' \in [End -> {"off", "idle", "write", "update", "head", "body", "done"}]
    BY <1>1, <1>4 DEF TypeOK
  <2> QED BY <2>1, <2>2, <2>3, <1>1, <1>5, <1>6 DEF TypeOK
<1>10. LinkOK'
  BY <1>1, <1>4, <1>6, ThreadLinkOK
<1>11. got'[s] = Append(got[s], p) /\ parsed'[s] = parsed[s] + Size[p]
  BY <1>1, <1>4 DEF TypeOK
<1>12. /\ Len(got'[s]) = k /\ got'[s][k] = p
       /\ \A j \in 1..Len(got[s]) : got'[s][j] = got[s][j]
  BY <1>7, <1>11
<1>13. StreamOK(s)'
  <2>1. FramesOK(s)
    BY <1>1, <1>2 DEF StreamOK
  <2>2. \A j : EndOf(s, j)' = EndOf(s, j)
    BY <1>6 DEF EndOf
  <2>3. EndOf(s, k) = parsed[s] + Size[p]
    BY <1>2, <1>7 DEF EndOf
  <2>4. FramesOK(s)'
    BY <2>1, <2>2, <2>3, <1>5, <1>6, <1>11, <1>12 DEF FramesOK
  <2>5. parsed'[s] <= rcvd'[s] /\ rcvd'[s] <= sent'[s]
    BY <1>1, <1>4, <1>5, <1>7, <1>8, <1>11 DEF StreamOK
  <2>6. ASSUME NEW j \in 1..k PROVE got'[s][j] = handed'[s][j]
    <3>1. j = k \/ j \in 1..Len(got[s])
      BY <1>7
    <3>2. CASE j = k
      BY <3>2, <1>6, <1>12
    <3>3. CASE j \in 1..Len(got[s])
      BY <3>3, <1>1, <1>6, <1>12 DEF StreamOK
    <3> QED BY <3>1, <3>2, <3>3
  <2>7. Len(start'[s]) = Len(handed'[s]) /\ Len(got'[s]) <= Len(handed'[s])
    BY <1>1, <1>2, <1>6, <1>12 DEF StreamOK
  <2> QED BY <2>4, <2>5, <2>6, <2>7, <1>12 DEF StreamOK
<1>14. ASSUME NEW f \in End, f # s PROVE StreamOK(f)'
  <2>1. got'[f] = got[f] /\ parsed'[f] = parsed[f] /\ StreamOK(f)
    BY <1>14, <1>1, <1>4 DEF ChannelInv, TypeOK
  <2>2. \A j : EndOf(f, j)' = EndOf(f, j)
    BY <1>6 DEF EndOf
  <2> QED BY <2>1, <2>2, <1>5, <1>6 DEF StreamOK, FramesOK
<1>15. ThreadOK(e)'
  BY <1>1, <1>2, <1>4, <1>5 DEF ThreadOK, TypeOK
<1>16. ASSUME NEW f \in End, f # e PROVE ThreadOK(f)'
  <2>1. ThreadOK(f) /\ pc'[f] = pc[f] /\ ri'[f] = ri[f]
    <3>1. /\ pc \in [End -> {"off", "idle", "write", "update", "head", "body", "done"}]
          /\ ri \in [End -> 0..ReadBatch]
      BY <1>1 DEF TypeOK
    <3> QED BY <3>1, <1>4, <1>16 DEF ChannelInv
  <2>2. Other(f) # s /\ Other(f) \in End
    BY OtherFacts, <1>16
  <2>3. parsed'[Other(f)] = parsed[Other(f)]
    <3>1. parsed \in [End -> Nat] /\ parsed' = [parsed EXCEPT ![s] = parsed[s] + Size[p]]
      BY <1>1, <1>4 DEF TypeOK
    <3> QED BY <3>1, <2>2
  <2>4. Buffered(f)' = Buffered(f)
    BY <2>2, <2>3, <1>5 DEF Buffered
  <2> QED BY <2>1, <2>4, <1>5 DEF ThreadOK, InBatch
<1> QED BY <1>9, <1>10, <1>13, <1>14, <1>15, <1>16 DEF ChannelInv

-----------------------------------------------------------------------------
(* Every step keeps the invariant. *)
LEMMA NextInv == ChannelInv /\ [Next]_vars => ChannelInv'
<1> SUFFICES ASSUME ChannelInv, [Next]_vars PROVE ChannelInv'
  OBVIOUS
<1>1. CASE UNCHANGED vars
  <2>1. /\ UNCHANGED streamVars /\ UNCHANGED <<pc, ri, backlog>>
        /\ UNCHANGED <<linkVars, reset, queue>>
    BY <1>1 DEF vars, linkVars, threadVars, outVars, streamVars
  <2>2. TypeOK' /\ LinkOK'
    BY <2>1 DEF ChannelInv, TypeOK, LinkOK, streamVars, linkVars
  <2> QED BY <2>1, <2>2, UnmovedInv
<1>2. CASE Listen \/ Connect \/ Accept \/ ServerPeek
  BY <1>2, ListenInv, ConnectInv, AcceptInv, ServerPeekInv
<1>3. ASSUME NEW e \in End, NetworkThread(e) PROVE ChannelInv'
  <2>1. CASE StartPass(e) \/ EndWrite(e) \/ Update(e) \/ EndBatch(e)
    BY <2>1, StartPassInv, EndWriteInv, UpdateInv, EndBatchInv
  <2>2. CASE WriteNext(e) \/ SendBytes(e) \/ SendInVain(e)
    BY <2>2, WriteNextInv, SendBytesInv, SendInVainInv
  <2>3. CASE Receive(e) \/ ReadFails(e) \/ HeaderRead(e) \/ Parse(e)
    BY <2>3, ReceiveInv, ReadFailsInv, HeaderReadInv, ParseInv
  <2> QED BY <1>3, <2>1, <2>2, <2>3 DEF NetworkThread, Visit
<1>4. ASSUME NEW e \in End, UserThread(e) PROVE ChannelInv'
  BY <1>4, LeaveInv, EnqueueInv DEF UserThread
<1> QED BY <1>1, <1>2, <1>3, <1>4 DEF Next

(* The frames, the stages of read() and the link stay consistent. *)
THEOREM InvHolds == Spec => []ChannelInv
BY InitInv, NextInv, PTL DEF Spec

(* Every variable keeps its type: in particular the index of the read loop *)
(* never passes the batch, and no cursor of a stream turns back below      *)
(* nought.                                                                 *)
THEOREM TypeCorrect == Spec => []TypeOK
<1>1. ChannelInv => TypeOK
  BY DEF ChannelInv
<1> QED BY <1>1, InvHolds, PTL

(* The frames of a stream follow each other without a gap, and read()      *)
(* never takes a length from the middle of a packet, however the kernel    *)
(* splits the bytes and wherever a pass leaves off.                        *)
THEOREM FramesAreIntact == Spec => []FramesIntact
<1>1. ChannelInv => FramesIntact
  <2> SUFFICES ASSUME ChannelInv, NEW e \in End
               PROVE  /\ got[e] = SubSeq(handed[e], 1, Len(got[e]))
                      /\ parsed[e] <= rcvd[e] /\ rcvd[e] <= sent[e]
                      /\ ~gone[Other(e)] => FramesOK(e)
    BY DEF FramesIntact, FramesOK
  <2>1. StreamOK(e) /\ handed[e] \in Seq(Packet) /\ got[e] \in Seq(Packet)
    BY DEF ChannelInv, TypeOK
  <2>2. Len(got[e]) \in 0..Len(handed[e])
    BY <2>1 DEF StreamOK
  <2>3. got[e] = SubSeq(handed[e], 1, Len(got[e]))
    <3> DEFINE q == SubSeq(handed[e], 1, Len(got[e]))
    <3>1. q \in Seq(Packet) /\ Len(q) = Len(got[e])
          /\ \A k \in 1..Len(got[e]) : q[k] = handed[e][k]
      BY <2>1, <2>2
    <3>2. \A k \in 1..Len(got[e]) : q[k] = got[e][k]
      BY <3>1, <2>1 DEF StreamOK
    <3> QED BY <3>1, <3>2, <2>1, SeqEqual
  <2> QED BY <2>1, <2>3 DEF StreamOK
<1> QED BY <1>1, InvHolds, PTL

(* An open transport does not block its network thread: open() makes the   *)
(* socket non-blocking last, whatever connect() has left.                  *)
THEOREM NeverBlocksTheThread == Spec => []NeverBlocks
<1>1. Init => NeverBlocks
  BY DEF Init, NeverBlocks
<1>2. ChannelInv /\ NeverBlocks /\ [Next]_vars => NeverBlocks'
  <2> SUFFICES ASSUME ChannelInv, NeverBlocks, [Next]_vars PROVE NeverBlocks'
    OBVIOUS
  <2>1. TypeOK
    BY DEF ChannelInv
  <2>2. ASSUME UNCHANGED <<blocking, channels>> PROVE NeverBlocks'
    BY <2>2 DEF NeverBlocks
  <2>3. ASSUME NEW e \in End, NEW mode, OpenTransport(e, mode) PROVE NeverBlocks'
    BY <2>1, <2>3 DEF NeverBlocks, OpenTransport, AfterOpen, TypeOK
  <2>4. ASSUME NEW e \in End, Close(e) PROVE NeverBlocks'
    BY <2>1, <2>4 DEF NeverBlocks, Close, TypeOK
  <2>5. CASE UNCHANGED vars
    BY <2>2, <2>5 DEF vars, linkVars
  <2>6. CASE Listen \/ Connect \/ Accept
    BY <2>2, <2>3, <2>6 DEF Listen, Connect, Accept, End
  <2>7. CASE ServerPeek
    BY <2>2, <2>4, <2>7 DEF ServerPeek, linkVars, End
  <2>8. ASSUME NEW e \in End, NetworkThread(e) PROVE NeverBlocks'
    <3>1. CASE Update(e)
      BY <2>2, <2>4, <3>1 DEF Update
    <3>2. CASE StartPass(e) \/ WriteNext(e) \/ SendBytes(e) \/ SendInVain(e) \/ EndWrite(e)
      BY <2>2, <3>2 DEF StartPass, WriteNext, SendBytes, SendInVain, EndWrite, linkVars
    <3>3. CASE Receive(e) \/ ReadFails(e) \/ HeaderRead(e) \/ Parse(e) \/ EndBatch(e)
      BY <2>2, <3>3 DEF Receive, ReadFails, HeaderRead, Parse, EndBatch, linkVars
    <3> QED BY <2>8, <3>1, <3>2, <3>3 DEF NetworkThread, Visit
  <2>9. ASSUME NEW e \in End, UserThread(e) PROVE NeverBlocks'
    BY <2>2, <2>4, <2>9 DEF UserThread, Leave, Enqueue, linkVars
  <2> QED BY <2>5, <2>6, <2>7, <2>8, <2>9 DEF Next
<1> QED BY <1>1, <1>2, InvHolds, PTL DEF Spec

-----------------------------------------------------------------------------
(* The refinement: write() hands a packet over, read() takes the next one, *)
(* and every other step is hidden.                                         *)
LEMMA StepRefines == ChannelInv /\ [Next]_vars => [Stream!Next]_<<handed, got>>
<1> SUFFICES ASSUME ChannelInv, [Next]_vars PROVE Stream!Next \/ UNCHANGED <<handed, got>>
  OBVIOUS
<1>1. ASSUME NEW e \in End, WriteNext(e) PROVE Stream!Next
  <2>1. TypeOK /\ queue[e] # <<>>
    BY <1>1 DEF ChannelInv, WriteNext
  <2>2. Head(queue[e]) \in Packet
    BY <2>1 DEF TypeOK
  <2>3. Stream!Hand(e, Head(queue[e]))
    BY <1>1 DEF WriteNext, Stream!Hand
  <2> QED BY <2>2, <2>3 DEF Stream!Next
<1>2. ASSUME NEW e \in End, Parse(e) PROVE Stream!Next
  <2> DEFINE s == Other(e)
  <2>1. s \in End /\ got[s] \in Seq(Packet) /\ handed[s] \in Seq(Packet)
    BY OtherFacts DEF ChannelInv, TypeOK
  <2>2. Len(got[s]) + 1 \in 1..Len(handed[s]) /\ FrameAtParsed(s) = Len(got[s]) + 1
    BY <1>2, NextFrame DEF Parse
  <2>3. Stream!Take(s)
    BY <1>2, <2>1, <2>2 DEF Parse, Stream!Take, outVars
  <2> QED BY <2>1, <2>3 DEF Stream!Next
<1>3. CASE UNCHANGED vars
  BY <1>3 DEF vars, outVars
<1>4. CASE Listen \/ Connect \/ Accept \/ ServerPeek
  BY <1>4 DEF Listen, Connect, Accept, ServerPeek, outVars
<1>5. ASSUME NEW e \in End, NetworkThread(e) PROVE Stream!Next \/ UNCHANGED <<handed, got>>
  <2>1. CASE StartPass(e) \/ SendBytes(e) \/ SendInVain(e) \/ EndWrite(e) \/ Update(e)
    BY <2>1 DEF StartPass, SendBytes, SendInVain, EndWrite, Update, outVars
  <2>2. CASE Receive(e) \/ ReadFails(e) \/ HeaderRead(e) \/ EndBatch(e)
    BY <2>2 DEF Receive, ReadFails, HeaderRead, EndBatch, outVars
  <2> QED BY <1>5, <1>1, <1>2, <2>1, <2>2 DEF NetworkThread, Visit
<1>6. ASSUME NEW e \in End, UserThread(e) PROVE UNCHANGED <<handed, got>>
  BY <1>6 DEF UserThread, Leave, Enqueue, outVars
<1> QED BY <1>3, <1>4, <1>5, <1>6 DEF Next

(* A connection is a pair of reliable streams of whole packets: in each    *)
(* direction read() returns what write() was given, in order, nothing      *)
(* skipped and nothing twice, for any sizes, and across every way a        *)
(* connection may end.                                                     *)
THEOREM StreamRefined == Spec => ImplementsPacketStream
<1>1. Init => Stream!Init
  BY DEF Init, Stream!Init
<1> QED BY <1>1, StepRefines, InvHolds, PTL DEF Spec, ImplementsPacketStream, Stream!Spec
=============================================================================
