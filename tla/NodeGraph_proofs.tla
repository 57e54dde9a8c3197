-------------------------- MODULE NodeGraph_proofs --------------------------
(***************************************************************************)
(* Theorems about NodeGraph, for any finite set of nodes, any connections, *)
(* any crashes and any garbage in _local_only.                             *)
(*                                                                         *)
(* The first part is about paths.  Its inductive invariant GraphInv is the *)
(* types of what is sent, and PathsSimple, and that only what is known is  *)
(* told.  A node that forwards a packet found that it is not on the        *)
(* packet's path, and appends itself: that is the whole argument.          *)
(*                                                                         *)
(* The second part is about _subscription_count.  The sums are folds over  *)
(* a set of nodes, which take the nodes in the order of CHOOSE.  It shows  *)
(* of such a fold that it is a natural number from which any member of the *)
(* set may be taken out, and then that untallying one info and tallying    *)
(* another, and untallying the infos of all nodes behind a lost            *)
(* connection, keep the counts equal to the sums.                          *)
(***************************************************************************)
EXTENDS NodeGraph, SequenceTheorems, FiniteSetTheorems, WellFoundedInduction, TLAPS

(* The types PathsSimple rests on. *)
SourceType ==
  /\ subs \in [Node -> [Topic -> Nat]]
  /\ latest \in [Node -> [Node -> Info]]
  /\ published \in Nat
  /\ delivered \in [Node -> Seq([origin : Node, seq : Nat])]

(* A packet on its way from i has a simple path, and an info is of a node  *)
(* that the sender knew.                                                   *)
SentOK(i, p) == PathOK(i, p) /\ (p.kind = "info" => p.info.known)

(* Channels of such packets. *)
GoodChan(c) ==
  /\ c \in [Node \X Node -> Seq(Packet)]
  /\ \A e \in Node \X Node : \A k \in 1..Len(c[e]) : SentOK(e[1], c[e][k])

GraphInv == SourceType /\ GoodChan(chan)

(* A packet that may be sent by n: it has not been at n, and its path is   *)
(* simple and starts where the packet was published.                       *)
Sendable(n, p) ==
  /\ p \in Packet
  /\ \A k \in 1..Len(p.path) : p.path[k] # n
  /\ p.kind = "data" => IF p.path = <<>> THEN p.origin = n ELSE p.path[1] = p.origin
  /\ \A x, y \in 1..Len(p.path) : p.path[x] = p.path[y] => x = y
  /\ p.kind = "info" => p.info.known

-----------------------------------------------------------------------------
(* Stamping a packet that has not been here gives it a simple path. *)
LEMMA StampOK ==
  ASSUME NEW n \in Node, NEW p, Sendable(n, p)
  PROVE  Stamp(n, p) \in Packet /\ SentOK(n, Stamp(n, p))
<1> DEFINE s == p.path
           q == Stamp(n, p)
<1>1. p \in Packet /\ s \in Seq(Node)
  BY DEF Sendable, Packet, InfoPacket, DataPacket
<1>2. q \in Packet /\ q.path = Append(s, n) /\ q.id = n /\ q.kind = p.kind
  <2>1. Append(s, n) \in Seq(Node)
    BY <1>1
  <2>2. CASE p \in InfoPacket
    BY <2>1, <2>2 DEF Stamp, Packet, InfoPacket
  <2>3. CASE p \in DataPacket
    BY <2>1, <2>3 DEF Stamp, Packet, DataPacket
  <2> QED BY <1>1, <2>2, <2>3 DEF Packet
<1>3. p.kind = "data" => q.origin = p.origin
  BY <1>1 DEF Packet, InfoPacket, DataPacket, Stamp
<1>4. /\ Append(s, n) # <<>> /\ Len(Append(s, n)) = Len(s) + 1
      /\ Append(s, n)[Len(s) + 1] = n
      /\ \A k \in 1..Len(s) : Append(s, n)[k] = s[k]
  BY <1>1, AppendProperties
<1>5. ASSUME NEW x \in 1..(Len(s) + 1), NEW y \in 1..(Len(s) + 1),
             Append(s, n)[x] = Append(s, n)[y]
      PROVE  x = y
  <2>1. CASE x \in 1..Len(s) /\ y \in 1..Len(s)
    BY <1>4, <1>5, <2>1 DEF Sendable
  <2>2. CASE x \in 1..Len(s) /\ y = Len(s) + 1
    BY <1>4, <1>5, <2>2 DEF Sendable
  <2>3. CASE x = Len(s) + 1 /\ y \in 1..Len(s)
    BY <1>4, <1>5, <2>3 DEF Sendable
  <2>4. Len(s) \in Nat
    BY <1>1
  <2> QED BY <2>1, <2>2, <2>3, <2>4
<1>6. p.kind = "data" => Append(s, n)[1] = p.origin
  <2>1. CASE s = <<>>
    BY <1>4, <2>1 DEF Sendable
  <2>2. CASE s # <<>>
    <3>1. 1 \in 1..Len(s)
      BY <1>1, <2>2
    <3> QED BY <1>4, <2>2, <3>1 DEF Sendable
  <2> QED BY <2>1, <2>2
<1> HIDE DEF q
<1>7. PathOK(n, q)
  BY <1>2, <1>3, <1>4, <1>5, <1>6 DEF PathOK
<1>8. q.kind = "info" => q.info.known
  <2>1. q.kind = "info" => q.info = p.info
    BY <1>1 DEF Packet, InfoPacket, DataPacket, Stamp, q
  <2> QED BY <1>2, <2>1 DEF Sendable
<1>9. SentOK(n, q)
  BY <1>7, <1>8 DEF SentOK
<1> QED BY <1>2, <1>9 DEF q

(* Sending packets that may be sent keeps the channels good. *)
LEMMA SendToOK ==
  ASSUME GoodChan(chan), NEW n \in Node, NEW rs, NEW ps \in Seq(Packet),
         \A k \in 1..Len(ps) : Sendable(n, ps[k])
  PROVE  GoodChan(SendTo(n, rs, ps))
<1> DEFINE ss == [k \in 1..Len(ps) |-> Stamp(n, ps[k])]
<1>1. \A k \in 1..Len(ps) : ss[k] \in Packet /\ SentOK(n, ss[k])
  BY StampOK
<1>2. ss \in Seq(Packet) /\ Len(ss) = Len(ps)
  <2>1. Len(ps) \in Nat
    OBVIOUS
  <2>2. ss \in [1..Len(ps) -> Packet]
    BY <1>1
  <2> QED BY <2>1, <2>2
<1> HIDE DEF ss
<1>3. ASSUME NEW e \in Node \X Node
      PROVE  /\ SendTo(n, rs, ps)[e] \in Seq(Packet)
             /\ \A k \in 1..Len(SendTo(n, rs, ps)[e]) : SentOK(e[1], SendTo(n, rs, ps)[e][k])
  <2>1. chan[e] \in Seq(Packet) /\ \A k \in 1..Len(chan[e]) : SentOK(e[1], chan[e][k])
    BY DEF GoodChan
  <2>2. CASE e[1] = n /\ SendTo(n, rs, ps)[e] = chan[e] \o ss
    <3> DEFINE r == chan[e] \o ss
    <3>1. /\ r \in Seq(Packet) /\ Len(r) = Len(chan[e]) + Len(ss)
          /\ \A k \in 1..Len(r) : r[k] = IF k <= Len(chan[e]) THEN chan[e][k]
                                         ELSE ss[k - Len(chan[e])]
      <4>1. chan[e] \in Seq(Packet) /\ ss \in Seq(Packet)
        BY <1>2, <2>1
      <4> QED BY ONLY <4>1
    <3>2. ASSUME NEW k \in 1..Len(r) PROVE SentOK(n, r[k])
      <4>1. CASE k <= Len(chan[e])
        <5>1. k \in 1..Len(chan[e])
          BY <2>1, <3>1, <4>1
        <5> QED BY <2>1, <2>2, <3>1, <4>1, <5>1
      <4>2. CASE ~(k <= Len(chan[e]))
        <5>1. k - Len(chan[e]) \in 1..Len(ps)
          BY <1>2, <2>1, <3>1, <4>2
        <5> QED BY <1>1, <3>1, <4>2, <5>1
      <4> QED BY <4>1, <4>2
    <3> QED BY <2>2, <3>1, <3>2
  <2>3. CASE SendTo(n, rs, ps)[e] = chan[e]
    BY <2>1, <2>3
  <2>4. \/ e[1] = n /\ SendTo(n, rs, ps)[e] = chan[e] \o ss
        \/ SendTo(n, rs, ps)[e] = chan[e]
    BY DEF SendTo, ss
  <2> QED BY <2>2, <2>3, <2>4
<1>4. SendTo(n, rs, ps) = [e \in Node \X Node |-> SendTo(n, rs, ps)[e]]
  BY DEF SendTo
<1> DEFINE c == SendTo(n, rs, ps)
<1>5. c = [e \in Node \X Node |-> c[e]]
  BY <1>4
<1>6. \A e \in Node \X Node :
        c[e] \in Seq(Packet) /\ \A k \in 1..Len(c[e]) : SentOK(e[1], c[e][k])
  BY <1>3
<1> HIDE DEF c
<1>7. GoodChan(c)
  BY <1>5, <1>6 DEF GoodChan
<1> QED BY <1>7 DEF c

(* Taking the head of a channel, or emptying it, keeps the channels good. *)
LEMMA ReplaceOK ==
  ASSUME NEW c, GoodChan(c), NEW e \in Node \X Node, NEW s \in Seq(Packet),
         \A k \in 1..Len(s) : SentOK(e[1], s[k])
  PROVE  GoodChan([c EXCEPT ![e] = s])
<1> DEFINE d == [c EXCEPT ![e] = s]
<1>1. d \in [Node \X Node -> Seq(Packet)]
  BY DEF GoodChan
<1>2. ASSUME NEW f \in Node \X Node, NEW k \in 1..Len(d[f])
      PROVE  SentOK(f[1], d[f][k])
  <2>1. CASE f = e
    <3>1. d[f] = s
      BY <2>1 DEF GoodChan
    <3> QED BY <1>2, <2>1, <3>1
  <2>2. CASE f # e
    <3>1. d[f] = c[f]
      BY <2>2 DEF GoodChan
    <3> QED BY <1>2, <3>1 DEF GoodChan
  <2> QED BY <2>1, <2>2
<1> HIDE DEF d
<1>3. GoodChan(d)
  BY <1>1, <1>2 DEF GoodChan
<1> QED BY <1>3 DEF d

(* The tail of a channel is good, and its head may be sent on by a node    *)
(* that has not seen it.                                                   *)
LEMMA HeadTailOK ==
  ASSUME GoodChan(chan), NEW i \in Node, NEW j \in Node, chan[<<i, j>>] # <<>>
  PROVE  /\ Head(chan[<<i, j>>]) \in Packet
         /\ SentOK(i, Head(chan[<<i, j>>]))
         /\ Tail(chan[<<i, j>>]) \in Seq(Packet)
         /\ \A k \in 1..Len(Tail(chan[<<i, j>>])) : SentOK(i, Tail(chan[<<i, j>>])[k])
         /\ ~AlreadySeen(j, Head(chan[<<i, j>>])) => Sendable(j, Head(chan[<<i, j>>]))
<1> DEFINE s == chan[<<i, j>>]
           p == Head(s)
<1>1. s \in Seq(Packet) /\ s # <<>> /\ \A k \in 1..Len(s) : SentOK(i, s[k])
  BY DEF GoodChan
<1> HIDE DEF s
<1>2. p \in Packet /\ SentOK(i, p)
  <2>1. p = s[1] /\ 1 \in 1..Len(s) /\ s[1] \in Packet
    BY <1>1
  <2> QED BY <1>1, <2>1
<1>3. Tail(s) \in Seq(Packet) /\ \A k \in 1..Len(Tail(s)) : SentOK(i, Tail(s)[k])
  <2>1. /\ Tail(s) \in Seq(Packet) /\ Len(Tail(s)) = Len(s) - 1 /\ Len(s) \in Nat
        /\ \A k \in 1..Len(Tail(s)) : Tail(s)[k] = s[k + 1]
    BY <1>1
  <2>2. \A k \in 1..Len(Tail(s)) : k + 1 \in 1..Len(s)
    BY <2>1
  <2> QED BY <1>1, <2>1, <2>2
<1> HIDE DEF p
<1>4. ~AlreadySeen(j, p) => Sendable(j, p)
  BY <1>2 DEF AlreadySeen, Sendable, SentOK, PathOK
<1> QED BY <1>2, <1>3, <1>4 DEF p, s

(* send_info builds infos that may be sent, the first of which is the      *)
(* node's own.                                                             *)
LEMMA InfoPacketsOK ==
  ASSUME NEW n \in Node, NEW own \in [Topic -> Nat],
         NEW known \in [Node -> Info], NEW includeDead \in BOOLEAN
  PROVE  /\ InfoPackets(n, own, known, includeDead) \in Seq(Packet)
         /\ \A k \in 1..Len(InfoPackets(n, own, known, includeDead)) :
              /\ Sendable(n, InfoPackets(n, own, known, includeDead)[k])
              /\ InfoPackets(n, own, known, includeDead)[k].kind = "info"
         /\ Len(InfoPackets(n, own, known, includeDead)) >= 1
         /\ InfoPackets(n, own, known, includeDead)[1] = OwnInfo(n, own)
<1> DEFINE told == {m \in Node : known[m].known /\ (includeDead \/ known[m].alive)}
           S == {InfoAbout(m, known[m]) : m \in told}
           s == SetToSeq(S)
           Fresh == {p \in InfoPacket : p.path = <<>> /\ p.info.known}
<1>1. ASSUME NEW m \in Node, NEW info \in Info, info.known
      PROVE  InfoAbout(m, info) \in Fresh
  BY <1>1 DEF InfoAbout, InfoPacket
<1>2. S \subseteq Fresh
  BY <1>1
<1>3. OwnInfo(n, own) \in Fresh
  <2>1. [known |-> TRUE, alive |-> TRUE, topics |-> own] \in Info
    BY DEF Info
  <2> QED BY <1>1, <2>1 DEF OwnInfo
<1>4. IsFiniteSet(S)
  <2>1. IsFiniteSet(told)
    BY GraphAssumption, FS_Subset DEF GraphAssumption
  <2> DEFINE f == [m \in told |-> InfoAbout(m, known[m])]
  <2>2. f \in Surjection(told, S)
    BY DEF Surjection
  <2> QED BY <2>1, <2>2, FS_Surjection
<1> HIDE DEF S, told, Fresh
<1>5. s \in Seq(S)
  <2>1. Cardinality(S) \in Nat /\ ExistsBijection(1..Cardinality(S), S)
    BY <1>4, FS_CardinalityType
  <2>2. \E f \in [1..Cardinality(S) -> S] : IsInjective(f)
    BY <2>1 DEF ExistsBijection, Bijection, Injection, IsInjective
  <2>3. s \in [1..Cardinality(S) -> S]
    BY <2>2 DEF SetToSeq
  <2> QED BY <2>1, <2>3
<1> HIDE DEF s
<1>6. <<OwnInfo(n, own)>> \o s \in Seq(Fresh)
  <2>1. s \in Seq(Fresh)
    BY <1>2, <1>5, SeqMonotonic
  <2> QED BY <1>3, <2>1
<1>7. \A p \in Fresh : p \in Packet /\ Sendable(n, p) /\ p.kind = "info"
  BY DEF Fresh, Sendable, Packet, InfoPacket
<1>8. InfoPackets(n, own, known, includeDead) = <<OwnInfo(n, own)>> \o s
  BY DEF InfoPackets, s, S, told
<1>9. Fresh \subseteq Packet
  BY <1>7
<1>10. <<OwnInfo(n, own)>> \o s \in Seq(Packet)
  BY <1>6, <1>9, SeqMonotonic
<1>11. Len(<<OwnInfo(n, own)>> \o s) >= 1 /\ (<<OwnInfo(n, own)>> \o s)[1] = OwnInfo(n, own)
  <2>1. s \in Seq(Fresh) /\ <<OwnInfo(n, own)>> \in Seq(Fresh)
    BY <1>2, <1>3, <1>5, SeqMonotonic
  <2> HIDE DEF Fresh
  <2> QED BY <2>1
<1> QED BY <1>6, <1>7, <1>8, <1>10, <1>11

(* send_info keeps the channels good. *)
LEMMA SendInfoOK ==
  ASSUME GoodChan(chan), NEW n \in Node, NEW rs, NEW own \in [Topic -> Nat],
         NEW known \in [Node -> Info], NEW includeDead \in BOOLEAN
  PROVE  GoodChan(SendTo(n, rs, InfoPackets(n, own, known, includeDead)))
BY InfoPacketsOK, SendToOK

(* What Deliver does to the channels. *)
LEMMA ForwardOK ==
  ASSUME GoodChan(chan), NEW i \in Node, NEW j \in Node, chan[<<i, j>>] # <<>>,
         ~AlreadySeen(j, Head(chan[<<i, j>>])), NEW rs
  PROVE  GoodChan([SendTo(j, rs, <<Head(chan[<<i, j>>])>>)
                     EXCEPT ![<<i, j>>] = Tail(chan[<<i, j>>])])
<1> DEFINE p == Head(chan[<<i, j>>])
           ps == <<p>>
<1>1. p \in Packet /\ Sendable(j, p)
  BY HeadTailOK
<1> HIDE DEF p
<1>2. ps \in Seq(Packet) /\ \A k \in 1..Len(ps) : Sendable(j, ps[k])
  BY <1>1
<1>3. GoodChan(SendTo(j, rs, ps))
  BY <1>2, SendToOK
<1> QED BY <1>3, HeadTailOK, ReplaceOK DEF p

(* What Hand and Learn do to the sources of packets. *)
LEMMA HandOK ==
  ASSUME delivered \in [Node -> Seq([origin : Node, seq : Nat])],
         NEW n \in Node, NEW p \in DataPacket, Hand(n, p)
  PROVE  delivered' \in [Node -> Seq([origin : Node, seq : Nat])]
<1> DEFINE m == [origin |-> p.origin, seq |-> p.seq]
           R == [origin : Node, seq : Nat]
<1>1. m \in R
  BY DEF DataPacket
<1>2. delivered' = [delivered EXCEPT ![n] = Append(@, m)] \/ delivered' = delivered
  BY DEF Hand
<1> HIDE DEF m, R
<1>3. delivered \in [Node -> Seq(R)]
  BY DEF R
<1>4. Append(delivered[n], m) \in Seq(R)
  BY <1>1, <1>3
<1>5. delivered' \in [Node -> Seq(R)]
  BY <1>2, <1>3, <1>4
<1> QED BY <1>5 DEF R

LEMMA LearnOK ==
  ASSUME latest \in [Node -> [Node -> Info]],
         NEW n \in Node, NEW p \in InfoPacket, Learn(n, p)
  PROVE  latest' \in [Node -> [Node -> Info]]
<1>1. p.about \in Node /\ p.info \in Info
  BY DEF InfoPacket
<1>2. latest' = latest \/ latest' = [latest EXCEPT ![n][p.about] = p.info]
  BY DEF Learn
<1> HIDE DEF Info
<1> QED BY <1>1, <1>2

-----------------------------------------------------------------------------
(* GraphInv holds at first ... *)
LEMMA GraphInvInit == Init => GraphInv
<1> SUFFICES ASSUME Init PROVE GraphInv
  OBVIOUS
<1>1. \A m \in Node :
        /\ InitialSubs(m) \in [Topic -> Nat]
        /\ NoInfo \in Info
        /\ [known |-> TRUE, alive |-> TRUE, topics |-> InitialSubs(m)] \in Info
  BY DEF NoInfo, Info, InitialSubs
<1>2. latest \in [Node -> [Node -> Info]]
  BY <1>1 DEF Init
<1>3. SourceType
  <2>1. subs \in [Node -> [Topic -> Nat]]
    BY <1>1 DEF Init
  <2>2. published \in Nat /\ delivered \in [Node -> Seq([origin : Node, seq : Nat])]
    BY DEF Init
  <2> QED BY <1>2, <2>1, <2>2 DEF SourceType
<1>4. GoodChan(chan)
  BY DEF Init, GoodChan
<1> QED BY <1>3, <1>4 DEF GraphInv

(* ... and the calls, arrivals and departures keep it. *)
LEMMA GraphInvNext == GraphInv /\ [Next]_vars => GraphInv'
<1> SUFFICES ASSUME GraphInv, [Next]_vars PROVE GraphInv'
  OBVIOUS
<1>0. SourceType /\ GoodChan(chan)
  BY DEF GraphInv
<1>1. ASSUME NEW n \in Node, NEW t \in Topic, Subscribe(n, t) PROVE GraphInv'
  <2>1. subs' \in [Node -> [Topic -> Nat]]
    BY <1>0, <1>1 DEF Subscribe, SourceType
  <2>2. GoodChan(chan')
    BY <1>0, <1>1, <2>1, SendInfoOK DEF Subscribe, SourceType
  <2> QED BY <1>0, <1>1, <2>1, <2>2 DEF Subscribe, SourceType, GraphInv, GoodChan
<1>2. ASSUME NEW n \in Node, NEW t \in Topic, Unsubscribe(n, t) PROVE GraphInv'
  <2>1. subs' \in [Node -> [Topic -> Nat]]
    BY <1>0, <1>2 DEF Unsubscribe, SourceType
  <2> QED BY <1>0, <1>2, <2>1 DEF Unsubscribe, SourceType, GraphInv, GoodChan
<1>3. ASSUME NEW n \in Node, NEW t \in Topic, Publish(n, t) PROVE GraphInv'
  <2> DEFINE p == [kind |-> "data", path |-> <<>>, id |-> n, topic |-> t,
                   origin |-> n, seq |-> published]
             ps == <<p>>
  <2>1. p \in DataPacket
    BY <1>0 DEF DataPacket, SourceType
  <2>2. ps \in Seq(Packet) /\ \A k \in 1..Len(ps) : Sendable(n, ps[k])
    BY <2>1 DEF Packet, Sendable
  <2>3. published' \in Nat
    BY <1>0, <1>3 DEF Publish, SourceType
  <2>4. delivered' \in [Node -> Seq([origin : Node, seq : Nat])]
    <3>1. Hand(n, p)
      BY <1>3 DEF Publish
    <3> QED BY <1>0, <2>1, <3>1, HandOK DEF SourceType
  <2>5. GoodChan(chan')
    <3>1. chan' = chan \/ chan' = SendTo(n, remotes[n], ps)
      BY <1>3 DEF Publish
    <3> QED BY <1>0, <2>2, <3>1, SendToOK
  <2> QED BY <1>0, <1>3, <2>3, <2>4, <2>5 DEF Publish, SourceType, GraphInv, GoodChan
<1>4. ASSUME NEW n \in Node, Advertise(n) PROVE GraphInv'
  <2>1. GoodChan(chan')
    BY <1>0, <1>4, SendInfoOK DEF Advertise, SourceType
  <2> QED BY <1>0, <1>4, <2>1 DEF Advertise, SourceType, GraphInv, GoodChan
<1>5. ASSUME NEW n \in Node, Crash(n) PROVE GraphInv'
  <2>1. GoodChan(chan')
    BY <1>0, <1>5 DEF Crash, GoodChan
  <2> QED BY <1>0, <1>5, <2>1 DEF Crash, SourceType, GraphInv, GoodChan
<1>6. ASSUME NEW i \in Node, NEW j \in Node, Deliver(i, j) PROVE GraphInv'
  <2> DEFINE p == Head(chan[<<i, j>>])
             rest == [chan EXCEPT ![<<i, j>>] = Tail(@)]
  <2>0. chan[<<i, j>>] # <<>> /\ UNCHANGED <<subs, published>>
    BY <1>6 DEF Deliver
  <2>1. GoodChan(rest)
    BY <1>0, <2>0, HeadTailOK, ReplaceOK
  <2>2. p \in Packet
    BY <1>0, <2>0, HeadTailOK
  <2>3. \/ chan' = rest
        \/ /\ ~AlreadySeen(j, p)
           /\ chan' = [SendTo(j, remotes[j] \ {i}, <<p>>)
                        EXCEPT ![<<i, j>>] = Tail(chan[<<i, j>>])]
    BY <1>6 DEF Deliver
  <2>4. GoodChan(chan')
    <3>1. CASE chan' = rest
      <4> HIDE DEF rest
      <4> QED BY <2>1, <3>1
    <3>2. CASE ~AlreadySeen(j, p)
               /\ chan' = [SendTo(j, remotes[j] \ {i}, <<p>>)
                             EXCEPT ![<<i, j>>] = Tail(chan[<<i, j>>])]
      <4> DEFINE forwarded == [SendTo(j, remotes[j] \ {i}, <<p>>)
                                 EXCEPT ![<<i, j>>] = Tail(chan[<<i, j>>])]
      <4>1. GoodChan(forwarded)
        BY <1>0, <2>0, <3>2, ForwardOK
      <4>2. chan' = forwarded
        BY <3>2
      <4> HIDE DEF forwarded
      <4> QED BY <4>1, <4>2
    <3> QED BY <2>3, <3>1, <3>2
  <2> HIDE DEF p, rest
  <2>5. latest' \in [Node -> [Node -> Info]]
    <3>1. latest' = latest \/ (p.kind = "info" /\ Learn(j, p))
      BY <1>6 DEF Deliver, p
    <3>2. p.kind = "info" => p \in InfoPacket
      BY <2>2 DEF Packet, DataPacket
    <3> QED BY <1>0, <3>1, <3>2, LearnOK DEF SourceType
  <2>6. delivered' \in [Node -> Seq([origin : Node, seq : Nat])]
    <3>1. delivered' = delivered \/ (p.kind # "info" /\ Hand(j, p))
      BY <1>6 DEF Deliver, p
    <3>2. p.kind # "info" => p \in DataPacket
      BY <2>2 DEF Packet, InfoPacket
    <3> QED BY <1>0, <3>1, <3>2, HandOK DEF SourceType
  <2> QED BY <1>0, <2>0, <2>4, <2>5, <2>6 DEF SourceType, GraphInv, GoodChan
<1>7. ASSUME NEW i \in Node, NEW j \in Node, Join(i, j) PROVE GraphInv'
  <2>1. GoodChan(chan')
    BY <1>0, <1>7, SendInfoOK DEF Join, SourceType
  <2> QED BY <1>0, <1>7, <2>1 DEF Join, SourceType, GraphInv, GoodChan
<1>8. ASSUME NEW i \in Node, NEW j \in Node, Accept(j, i) PROVE GraphInv'
  <2>1. GoodChan(chan')
    BY <1>0, <1>8, SendInfoOK DEF Accept, SourceType
  <2> QED BY <1>0, <1>8, <2>1 DEF Accept, SourceType, GraphInv, GoodChan
<1>9. ASSUME NEW i \in Node, NEW j \in Node, Disconnect(j, i) PROVE GraphInv'
  <2>1. Buried(latest[j], assoc[<<j, i>>]) \in [Node -> Info]
    <3>1. latest[j] \in [Node -> Info] /\ [NoInfo EXCEPT !.known = TRUE] \in Info
      BY <1>0 DEF SourceType, NoInfo, Info
    <3>2. \A m \in Node : Buried(latest[j], assoc[<<j, i>>])[m] \in Info
      BY <3>1 DEF Buried
    <3> QED BY <3>2 DEF Buried
  <2>2. latest' \in [Node -> [Node -> Info]]
    BY <1>0, <1>9, <2>1 DEF Disconnect, SourceType
  <2> DEFINE sent == SendTo(j, remotes'[j], InfoPackets(j, subs[j], latest'[j], TRUE))
  <2>3. GoodChan(sent)
    BY <1>0, <2>2, SendInfoOK DEF SourceType
  <2>4. chan' = [sent EXCEPT ![<<i, j>>] = <<>>]
    BY <1>9 DEF Disconnect
  <2> HIDE DEF sent
  <2> DEFINE emptied == [sent EXCEPT ![<<i, j>>] = <<>>]
  <2>5. GoodChan(emptied)
    <3>1. ASSUME NEW s, s = <<>> PROVE GoodChan([sent EXCEPT ![<<i, j>>] = s])
      <4>1. s \in Seq(Packet) /\ \A k \in 1..Len(s) : SentOK(<<i, j>>[1], s[k])
        BY <3>1
      <4> QED BY <2>3, <4>1, ReplaceOK
    <3> QED BY <3>1
  <2>6. chan' = emptied
    BY <2>4
  <2> HIDE DEF emptied
  <2>7. GoodChan(chan')
    BY <2>5, <2>6
  <2> QED BY <1>0, <1>9, <2>2, <2>7 DEF Disconnect, SourceType, GraphInv, GoodChan
<1>10. CASE UNCHANGED vars
  BY <1>0, <1>10 DEF vars, SourceType, GraphInv, GoodChan
<1> QED BY <1>1, <1>2, <1>3, <1>4, <1>5, <1>6, <1>7, <1>8, <1>9, <1>10 DEF Next

(* The inductive invariant is one. *)
THEOREM GraphInvariant == Spec => []GraphInv
BY GraphInvInit, GraphInvNext, PTL DEF Spec

(* Every packet on its way has a simple path that starts where it was      *)
(* published, whatever the connections: remote_node's look at the path is  *)
(* enough to keep a flood from visiting a node twice.                      *)
THEOREM PathsAreSimple == Spec => []PathsSimple
<1>1. GraphInv => PathsSimple
  BY DEF GraphInv, GoodChan, SentOK, PathsSimple
<1> QED BY <1>1, GraphInvariant, PTL

(* No packet makes more hops than there are nodes: every flood ends. *)
PathsShort ==
  \A e \in Node \X Node : \A k \in 1..Len(chan[e]) :
    Len(chan[e][k].path) <= Cardinality(Node)

THEOREM FloodsEnd == Spec => []PathsShort
<1>1. GraphInv => PathsShort
  <2> SUFFICES ASSUME GraphInv, NEW e \in Node \X Node, NEW k \in 1..Len(chan[e])
               PROVE  Len(chan[e][k].path) <= Cardinality(Node)
    BY DEF PathsShort
  <2> DEFINE path == chan[e][k].path
  <2>1. path \in Seq(Node) /\ \A x, y \in 1..Len(path) : path[x] = path[y] => x = y
    <3>1. chan[e][k] \in Packet /\ SentOK(e[1], chan[e][k])
      BY DEF GraphInv, GoodChan
    <3> QED BY <3>1 DEF Packet, InfoPacket, DataPacket, SentOK, PathOK
  <2> HIDE DEF path
  <2>2. Len(path) \in Nat /\ path \in Injection(1..Len(path), Node)
    BY <2>1 DEF Injection, IsInjective
  <2>3. Cardinality(1..Len(path)) = Len(path)
    <3>1. Cardinality(1..Len(path)) = IF 1 > Len(path) THEN 0 ELSE Len(path) - 1 + 1
      BY <2>2, 1 \in Int, Len(path) \in Int, FS_Interval
    <3> QED BY <2>2, <3>1
  <2>4. Cardinality(1..Len(path)) <= Cardinality(Node)
    BY <2>2, GraphAssumption, FS_Injection DEF GraphAssumption
  <2> QED BY <2>3, <2>4 DEF path
<1> QED BY <1>1, GraphInvariant, PTL

(* What a node's mailboxes get over the network was published by another   *)
(* node.                                                                   *)
THEOREM NothingEchoes == Spec => NoEcho
<1>1. ASSUME GraphInv, NEW i \in Node, NEW j \in Node, Deliver(i, j),
             delivered' # delivered
      PROVE  delivered'[j][Len(delivered'[j])].origin # j
  <2> DEFINE p == Head(chan[<<i, j>>])
             m == [origin |-> p.origin, seq |-> p.seq]
  <2>1. ~AlreadySeen(j, p) /\ p.kind # "info" /\ Hand(j, p)
    BY <1>1 DEF Deliver
  <2>2. p \in Packet /\ Sendable(j, p) /\ SentOK(i, p)
    BY <1>1, <2>1, HeadTailOK DEF GraphInv, Deliver
  <2>3. p.kind = "data" /\ p.origin \in Node /\ p.seq \in Nat /\ p.path \in Seq(Node)
    BY <2>1, <2>2 DEF Packet, InfoPacket, DataPacket
  <2>4. p.origin # j
    <3>1. 1 \in 1..Len(p.path) /\ p.path[1] = p.origin
      BY <2>2, <2>3 DEF SentOK, PathOK
    <3> QED BY <2>2, <3>1 DEF Sendable
  <2> HIDE DEF p
  <2>5. m \in [origin : Node, seq : Nat]
    BY <2>3
  <2> HIDE DEF m
  <2>6. delivered' = [delivered EXCEPT ![j] = Append(@, m)]
    BY <1>1, <2>1 DEF Hand, m, GraphInv, SourceType
  <2>7. delivered'[j] = Append(delivered[j], m)
    BY <1>1, <2>6 DEF GraphInv, SourceType
  <2>8. delivered'[j][Len(delivered'[j])] = m
    BY <1>1, <2>5, <2>7 DEF GraphInv, SourceType
  <2> QED BY <2>4, <2>8 DEF m
<1>2. GraphInv => [\A i, j \in Node :
         Deliver(i, j) /\ delivered' # delivered
           => delivered'[j][Len(delivered'[j])].origin # j]_vars
  BY <1>1
<1> QED BY <1>2, GraphInvariant, PTL DEF NoEcho

-----------------------------------------------------------------------------
(* Counting the listeners of a topic. *)

(* The members in the order in which a fold takes them. *)
First(s) == CHOOSE x \in s : TRUE

(* h is the sum of f over every subset of S. *)
SumsUp(h, f, S) ==
  h = [s \in SUBSET S |-> IF s = {} THEN 0 ELSE h[s \ {First(s)}] + f[First(s)]]

Sum(f, S) == FoldSet(LAMBDA m, s : s + f[m], 0, S)

-----------------------------------------------------------------------------
(* Induction over the subsets of a finite set. *)

LEMMA LeastNumber ==
  ASSUME NEW N \in SUBSET Nat, N # {}
  PROVE  \E m \in N : \A n \in N : m <= n
<1> DEFINE R == {p \in Nat \X Nat : p[1] < p[2]}
<1>1. OpToRel(<, Nat) = R
  BY DEF OpToRel
<1>2. IsWellFoundedOn(R, Nat)
  BY <1>1, NatLessThanWellFounded, Zenon
<1>3. \A x, y \in N : <<y, x>> \in R <=> y < x
  OBVIOUS
<1> HIDE DEF R
<1>4. \E x \in N : \A y \in N : ~(<<y, x>> \in R)
  BY <1>2, WFMin, Zenon
<1>5. PICK m \in N : \A n \in N : ~(n < m)
  BY <1>3, <1>4, Zenon
<1>6. \A n \in N : m <= n
  BY <1>5
<1> QED BY <1>6

LEMMA FirstIn ==
  ASSUME NEW s, s # {}
  PROVE  First(s) \in s
BY DEF First

(* One member less. *)
LEMMA Smaller ==
  ASSUME NEW S, IsFiniteSet(S), NEW s \in SUBSET S, NEW x \in s
  PROVE  /\ s \ {x} \in SUBSET S /\ IsFiniteSet(s)
         /\ Cardinality(s) \in Nat /\ Cardinality(s) >= 1
         /\ Cardinality(s \ {x}) = Cardinality(s) - 1
<1>1. IsFiniteSet(s)
  BY FS_Subset
<1>2. Cardinality(s) \in Nat /\ Cardinality(s) # 0
  BY <1>1, FS_CardinalityType, FS_EmptySet
<1>3. Cardinality(s \ {x}) = Cardinality(s) - 1
  BY <1>1, FS_RemoveElement
<1> QED BY <1>1, <1>2, <1>3

(* A set P of subsets has them all if it has every subset of which it has  *)
(* those with one member less.                                             *)
LEMMA SubsetInduction ==
  ASSUME NEW S, IsFiniteSet(S), NEW P,
         \A s \in SUBSET S : (\A x \in s : s \ {x} \in P) => s \in P
  PROVE  \A s \in SUBSET S : s \in P
<1> DEFINE Out == {s \in SUBSET S : s \notin P}
           N == {n \in Nat : \E s \in Out : n = Cardinality(s)}
<1> SUFFICES ASSUME NEW s0 \in SUBSET S, s0 \notin P PROVE FALSE
  OBVIOUS
<1>1. N # {}
  <2>1. Cardinality(s0) \in Nat
    BY FS_Subset, FS_CardinalityType
  <2>2. s0 \in Out
    OBVIOUS
  <2> HIDE DEF Out
  <2> QED BY <2>1, <2>2
<1>2. PICK m \in N : \A n \in N : m <= n
  <2>1. N \in SUBSET Nat
    OBVIOUS
  <2> HIDE DEF N
  <2> QED BY <1>1, <2>1, LeastNumber
<1>3. PICK s \in Out : m = Cardinality(s)
  OBVIOUS
<1>4. \A x \in s : s \ {x} \in P
  <2> SUFFICES ASSUME NEW x \in s, s \ {x} \notin P PROVE FALSE
    OBVIOUS
  <2>1. s \in SUBSET S
    BY DEF Out
  <2>2. /\ s \ {x} \in SUBSET S /\ m \in Nat /\ m >= 1
        /\ Cardinality(s \ {x}) = m - 1
    BY <1>3, <2>1, Smaller
  <2>3. s \ {x} \in Out /\ m - 1 \in Nat
    BY <2>2
  <2>4. m - 1 \in N
    BY <2>2, <2>3
  <2>5. m <= m - 1
    BY <1>2, <2>4
  <2> QED BY <2>2, <2>5
<1> QED BY <1>4 DEF Out

-----------------------------------------------------------------------------
(* A fold has a value. *)

LEMMA SumExists ==
  ASSUME NEW S, IsFiniteSet(S), NEW f, \A x \in S : f[x] \in Nat
  PROVE  \E h \in [SUBSET S -> Nat] : SumsUp(h, f, S)
<1> DEFINE D(n) == {s \in SUBSET S : Cardinality(s) <= n}
           Sums(h, n) == \A s \in D(n) :
             h[s] = IF s = {} THEN 0 ELSE h[s \ {First(s)}] + f[First(s)]
           OK(n) == \E h \in [D(n) -> Nat] : Sums(h, n)
           N == {n \in Nat : ~OK(n)}
<1>1. \A s \in SUBSET S : Cardinality(s) \in Nat /\ (Cardinality(s) = 0 => s = {})
  BY FS_Subset, FS_CardinalityType, FS_EmptySet
<1>2. OK(0)
  <2> DEFINE h == [s \in D(0) |-> 0]
  <2>1. \A s \in D(0) : s = {}
    BY <1>1
  <2>2. h \in [D(0) -> Nat]
    OBVIOUS
  <2>3. Sums(h, 0)
    BY <2>1
  <2> QED BY <2>2, <2>3
<1>3. ASSUME NEW n \in Nat, OK(n) PROVE OK(n + 1)
  <2>1. PICK h \in [D(n) -> Nat] : Sums(h, n)
    BY <1>3
  <2> DEFINE k == [s \in D(n + 1) |->
                     IF s = {} THEN 0 ELSE h[s \ {First(s)}] + f[First(s)]]
  <2>2. ASSUME NEW s \in D(n + 1), s # {}
        PROVE  First(s) \in S /\ s \ {First(s)} \in D(n)
    <3>1. First(s) \in s /\ s \in SUBSET S /\ Cardinality(s) <= n + 1
      BY <2>2, FirstIn
    <3>2. /\ s \ {First(s)} \in SUBSET S /\ Cardinality(s) \in Nat
          /\ Cardinality(s \ {First(s)}) = Cardinality(s) - 1
      BY <3>1, Smaller
    <3>3. Cardinality(s \ {First(s)}) <= n
      BY <3>1, <3>2
    <3> QED BY <3>1, <3>2, <3>3
  <2>3. k \in [D(n + 1) -> Nat]
    <3>1. ASSUME NEW s \in D(n + 1)
          PROVE  (IF s = {} THEN 0 ELSE h[s \ {First(s)}] + f[First(s)]) \in Nat
      <4>1. CASE s = {}
        BY <4>1
      <4>2. CASE s # {}
        <5>1. h[s \ {First(s)}] \in Nat /\ f[First(s)] \in Nat
          BY <2>2, <4>2
        <5> QED BY <4>2, <5>1
      <4> QED BY <4>1, <4>2
    <3> QED BY <3>1
  <2>4. \A s \in D(n) : s \in D(n + 1)
    BY <1>1
  <2>5. \A s \in D(n) : k[s] = h[s]
    BY <2>1, <2>4
  <2>6. \A s \in D(n + 1) :
          k[s] = IF s = {} THEN 0 ELSE h[s \ {First(s)}] + f[First(s)]
    OBVIOUS
  <2> HIDE DEF k, D
  <2>7. Sums(k, n + 1)
    BY <2>2, <2>5, <2>6
  <2> QED BY <2>3, <2>7
<1>4. \A n \in Nat : OK(n)
  <2> HIDE DEF OK
  <2> SUFFICES ASSUME N # {} PROVE FALSE
    OBVIOUS
  <2>1. PICK m \in N : \A n \in N : m <= n
    BY LeastNumber
  <2>2. m \in Nat /\ ~OK(m) /\ m # 0
    BY <1>2
  <2>3. m - 1 \in Nat /\ m - 1 \notin N /\ (m - 1) + 1 = m
    BY <2>1, <2>2
  <2>4. OK((m - 1) + 1)
    BY <1>3, <2>3
  <2> QED BY <2>2, <2>3, <2>4
<1>5. PICK n \in Nat : n = Cardinality(S)
  BY FS_CardinalityType
<1>6. D(n) = SUBSET S
  BY <1>5, FS_Subset
<1>7. PICK h \in [SUBSET S -> Nat] : Sums(h, n)
  BY <1>4, <1>6
<1>8. SumsUp(h, f, S)
  BY <1>6, <1>7 DEF SumsUp
<1> QED BY <1>8

LEMMA SumUnique ==
  ASSUME NEW S, IsFiniteSet(S), NEW f, NEW g, NEW h, SumsUp(g, f, S), SumsUp(h, f, S)
  PROVE  \A s \in SUBSET S : g[s] = h[s]
<1> DEFINE P == {s \in SUBSET S : g[s] = h[s]}
<1>1. ASSUME NEW s \in SUBSET S, \A x \in s : s \ {x} \in P
      PROVE  g[s] = h[s]
  <2>1. /\ g[s] = IF s = {} THEN 0 ELSE g[s \ {First(s)}] + f[First(s)]
        /\ h[s] = IF s = {} THEN 0 ELSE h[s \ {First(s)}] + f[First(s)]
    BY DEF SumsUp
  <2>2. s # {} => g[s \ {First(s)}] = h[s \ {First(s)}]
    BY <1>1, FirstIn
  <2> QED BY <2>1, <2>2
<1>2. \A s \in SUBSET S : s \in P
  <2>1. \A s \in SUBSET S : (\A x \in s : s \ {x} \in P) => s \in P
    BY <1>1
  <2> HIDE DEF P
  <2> QED BY <2>1, SubsetInduction
<1> QED BY <1>2

LEMMA SumIs ==
  ASSUME NEW S, IsFiniteSet(S), NEW f, NEW h, SumsUp(h, f, S), NEW s \in SUBSET S
  PROVE  Sum(f, s) = h[s]
<1> DEFINE c == CHOOSE i : SumsUp(i, f, s)
           r == [u \in SUBSET s |-> h[u]]
<1>1. Sum(f, s) = c[s]
  BY DEF Sum, FoldSet, MapThenFoldSet, SumsUp, First
<1>2. SumsUp(r, f, s)
  <2>1. ASSUME NEW u \in SUBSET s
        PROVE  r[u] = IF u = {} THEN 0 ELSE r[u \ {First(u)}] + f[First(u)]
    <3>1. h[u] = IF u = {} THEN 0 ELSE h[u \ {First(u)}] + f[First(u)]
      BY DEF SumsUp
    <3>2. r[u] = h[u] /\ r[u \ {First(u)}] = h[u \ {First(u)}]
      OBVIOUS
    <3> QED BY <3>1, <3>2
  <2>2. r = [u \in SUBSET s |-> r[u]]
    OBVIOUS
  <2> HIDE DEF r
  <2>3. r = [u \in SUBSET s |-> IF u = {} THEN 0 ELSE r[u \ {First(u)}] + f[First(u)]]
    BY <2>1, <2>2
  <2> QED BY <2>3 DEF SumsUp
<1>3. SumsUp(c, f, s)
  BY <1>2
<1>4. c[s] = r[s]
  <2>1. IsFiniteSet(s)
    BY FS_Subset
  <2> HIDE DEF c, r
  <2> QED BY <1>2, <1>3, <2>1, SumUnique
<1> QED BY <1>1, <1>4

LEMMA SumStep ==
  ASSUME NEW S, IsFiniteSet(S), NEW f, \A x \in S : f[x] \in Nat, NEW s \in SUBSET S
  PROVE  /\ Sum(f, s) \in Nat
         /\ s = {} => Sum(f, s) = 0
         /\ s # {} => Sum(f, s) = Sum(f, s \ {First(s)}) + f[First(s)]
<1>1. PICK h \in [SUBSET S -> Nat] : SumsUp(h, f, S)
  BY SumExists
<1>2. Sum(f, s) = h[s] /\ Sum(f, s \ {First(s)}) = h[s \ {First(s)}]
  BY <1>1, SumIs
<1>3. h[s] = IF s = {} THEN 0 ELSE h[s \ {First(s)}] + f[First(s)]
  BY <1>1 DEF SumsUp
<1> QED BY <1>2, <1>3

(* Any member may be taken out of a sum. *)
LEMMA SumWithout ==
  ASSUME NEW S, IsFiniteSet(S), NEW f, \A x \in S : f[x] \in Nat
  PROVE  \A s \in SUBSET S : \A x \in s : Sum(f, s) = Sum(f, s \ {x}) + f[x]
<1> DEFINE P == {s \in SUBSET S : \A x \in s : Sum(f, s) = Sum(f, s \ {x}) + f[x]}
<1>1. ASSUME NEW s \in SUBSET S, \A x \in s : s \ {x} \in P, NEW x \in s
      PROVE  Sum(f, s) = Sum(f, s \ {x}) + f[x]
  <2> DEFINE p == First(s)
  <2>1. p \in s /\ Sum(f, s) = Sum(f, s \ {p}) + f[p]
    BY SumStep, FirstIn
  <2> HIDE DEF p
  <2>2. CASE x = p
    BY <2>1, <2>2
  <2>3. CASE x # p
    <3>1. Sum(f, s \ {p}) = Sum(f, (s \ {p}) \ {x}) + f[x]
      BY <1>1, <2>1, <2>3
    <3>2. Sum(f, s \ {x}) = Sum(f, (s \ {x}) \ {p}) + f[p]
      BY <1>1, <2>1, <2>3
    <3>3. (s \ {p}) \ {x} = (s \ {x}) \ {p}
      OBVIOUS
    <3>4. /\ Sum(f, (s \ {x}) \ {p}) \in Nat /\ f[x] \in Nat /\ f[p] \in Nat
      <4>1. (s \ {x}) \ {p} \in SUBSET S
        OBVIOUS
      <4>2. Sum(f, (s \ {x}) \ {p}) \in Nat
        BY <4>1, SumStep
      <4> QED BY <2>1, <4>2
    <3> QED BY <2>1, <3>1, <3>2, <3>3, <3>4
  <2> QED BY <2>2, <2>3
<1>2. \A s \in SUBSET S : s \in P
  <2>1. \A s \in SUBSET S : (\A x \in s : s \ {x} \in P) => s \in P
    BY <1>1
  <2> HIDE DEF P
  <2> QED BY <2>1, SubsetInduction
<1> QED BY <1>2

-----------------------------------------------------------------------------
(* What happens to sums. *)

LEMMA SumSame ==
  ASSUME NEW S, IsFiniteSet(S), NEW f, NEW g,
         \A x \in S : f[x] \in Nat /\ g[x] = f[x]
  PROVE  \A s \in SUBSET S : Sum(f, s) = Sum(g, s)
<1> DEFINE P == {s \in SUBSET S : Sum(f, s) = Sum(g, s)}
<1>1. ASSUME NEW s \in SUBSET S, \A x \in s : s \ {x} \in P
      PROVE  Sum(f, s) = Sum(g, s)
  <2>1. CASE s = {}
    BY <2>1, SumStep
  <2>2. CASE s # {}
    <3>1. PICK x : x \in s
      BY <2>2
    <3>2. Sum(f, s) = Sum(f, s \ {x}) + f[x] /\ Sum(g, s) = Sum(g, s \ {x}) + g[x]
      BY <3>1, SumWithout
    <3> QED BY <1>1, <3>1, <3>2
  <2> QED BY <2>1, <2>2
<1>2. \A s \in SUBSET S : s \in P
  <2>1. \A s \in SUBSET S : (\A x \in s : s \ {x} \in P) => s \in P
    BY <1>1
  <2> HIDE DEF P
  <2> QED BY <2>1, SubsetInduction
<1> QED BY <1>2

(* A sum of ones is a cardinality. *)
LEMMA SumOfOnes ==
  ASSUME NEW S, IsFiniteSet(S), NEW A \in SUBSET S, NEW f,
         \A x \in S : f[x] = IF x \in A THEN 1 ELSE 0
  PROVE  Sum(f, S) = Cardinality(A)
<1> DEFINE In(s) == s \cap A
           P == {s \in SUBSET S : Sum(f, s) = Cardinality(In(s))}
<1>1. \A x \in S : f[x] \in Nat
  OBVIOUS
<1>2. ASSUME NEW s \in SUBSET S, \A x \in s : s \ {x} \in P
      PROVE  Sum(f, s) = Cardinality(In(s))
  <2>1. CASE s = {}
    <3>1. In(s) = {}
      BY <2>1
    <3>2. Sum(f, s) = 0
      BY <1>1, <2>1, SumStep
    <3>3. Cardinality(In(s)) = 0
      BY <3>1, FS_EmptySet, Zenon
    <3> QED BY <3>2, <3>3
  <2>2. CASE s # {}
    <3>1. PICK x : x \in s
      BY <2>2
    <3>2. Sum(f, s) = Sum(f, s \ {x}) + f[x]
      BY <1>1, <3>1, SumWithout
    <3>3. Sum(f, s \ {x}) = Cardinality(In(s \ {x}))
      BY <1>2, <3>1
    <3>4. IsFiniteSet(In(s)) /\ In(s \ {x}) = In(s) \ {x}
      <4>1. In(s) \in SUBSET S
        OBVIOUS
      <4> QED BY <4>1, FS_Subset
    <3>5. /\ Cardinality(In(s)) \in Nat
          /\ Cardinality(In(s \ {x})) =
               IF x \in In(s) THEN Cardinality(In(s)) - 1 ELSE Cardinality(In(s))
      <4> HIDE DEF In
      <4> DEFINE a == In(s)
      <4>1. IsFiniteSet(a) /\ In(s \ {x}) = a \ {x}
        BY <3>4
      <4> HIDE DEF a
      <4>2. /\ Cardinality(a) \in Nat
            /\ Cardinality(a \ {x}) = IF x \in a THEN Cardinality(a) - 1 ELSE Cardinality(a)
        BY <4>1, FS_RemoveElement, FS_CardinalityType
      <4> QED BY <4>1, <4>2, Zenon DEF a
    <3>6. f[x] = IF x \in In(s) THEN 1 ELSE 0
      BY <3>1
    <3> HIDE DEF In
    <3>7. CASE x \in In(s)
      <4>1. f[x] = 1 /\ Cardinality(In(s \ {x})) = Cardinality(In(s)) - 1
        BY <3>5, <3>6, <3>7
      <4> QED BY <3>2, <3>3, <3>5, <4>1
    <3>8. CASE x \notin In(s)
      <4>1. f[x] = 0 /\ Cardinality(In(s \ {x})) = Cardinality(In(s))
        BY <3>5, <3>6, <3>8
      <4> QED BY <3>2, <3>3, <3>5, <4>1
    <3> QED BY <3>7, <3>8
  <2> QED BY <2>1, <2>2
<1>3. \A s \in SUBSET S : s \in P
  <2>1. \A s \in SUBSET S : (\A x \in s : s \ {x} \in P) => s \in P
    BY <1>2
  <2> HIDE DEF P
  <2> QED BY <2>1, SubsetInduction
<1>4. S \in P /\ In(S) = A
  BY <1>3
<1>5. \A s \in P : Sum(f, s) = Cardinality(In(s))
  OBVIOUS
<1> HIDE DEF P, In
<1> QED BY <1>4, <1>5

(* What is set to zero is what the sum loses. *)
LEMMA SumSplit ==
  ASSUME NEW S, IsFiniteSet(S), NEW A \in SUBSET S, NEW f, NEW g,
         \A x \in S : f[x] \in Nat,
         \A x \in S : x \in A => g[x] = 0,
         \A x \in S : x \notin A => g[x] = f[x]
  PROVE  Sum(f, S) = Sum(g, S) + Sum(f, A)
<1> DEFINE In(s) == s \cap A
           P == {s \in SUBSET S : Sum(f, s) = Sum(g, s) + Sum(f, In(s))}
<1>1. \A x \in S : f[x] \in Nat /\ g[x] \in Nat
  OBVIOUS
<1>2. ASSUME NEW s \in SUBSET S, \A x \in s : s \ {x} \in P
      PROVE  Sum(f, s) = Sum(g, s) + Sum(f, In(s))
  <2>1. CASE s = {}
    <3>1. In(s) = {} /\ In(s) \in SUBSET S
      BY <2>1
    <3>2. Sum(f, In(s)) = 0
      <4> HIDE DEF In
      <4> QED BY <1>1, <3>1, SumStep
    <3>3. Sum(f, s) = 0 /\ Sum(g, s) = 0
      BY <1>1, <2>1, SumStep
    <3> QED BY <3>2, <3>3
  <2>2. CASE s # {}
    <3>1. PICK x : x \in s
      BY <2>2
    <3>2. Sum(f, s) = Sum(f, s \ {x}) + f[x] /\ Sum(g, s) = Sum(g, s \ {x}) + g[x]
      BY <1>1, <3>1, SumWithout
    <3>3. Sum(f, s \ {x}) = Sum(g, s \ {x}) + Sum(f, In(s \ {x}))
      BY <1>2, <3>1
    <3>4. In(s) \in SUBSET S /\ In(s \ {x}) \in SUBSET S /\ s \ {x} \in SUBSET S
      OBVIOUS
    <3>5. Sum(g, s \ {x}) \in Nat /\ Sum(f, In(s \ {x})) \in Nat /\ f[x] \in Nat
      <4> HIDE DEF In
      <4>1. Sum(g, s \ {x}) \in Nat
        BY <1>1, <3>4, SumStep
      <4>2. Sum(f, In(s \ {x})) \in Nat
        BY <1>1, <3>4, SumStep
      <4> QED BY <1>1, <3>1, <4>1, <4>2
    <3>6. CASE x \in A
      <4>1. x \in In(s) /\ In(s) \ {x} = In(s \ {x}) /\ g[x] = 0
        BY <3>1, <3>6
      <4>2. Sum(f, In(s)) = Sum(f, In(s) \ {x}) + f[x]
        BY <1>1, <3>4, <4>1, SumWithout
      <4> HIDE DEF In
      <4>3. Sum(f, In(s)) = Sum(f, In(s \ {x})) + f[x]
        BY <4>1, <4>2
      <4>4. Sum(g, s) = Sum(g, s \ {x})
        BY <3>2, <3>5, <4>1
      <4>5. PICK a \in Nat, b \in Nat, c \in Nat :
              a = Sum(g, s \ {x}) /\ b = Sum(f, In(s \ {x})) /\ c = f[x]
        BY <3>5
      <4>6. Sum(f, s) = (a + b) + c /\ Sum(g, s) = a /\ Sum(f, In(s)) = b + c
        BY <3>2, <3>3, <4>3, <4>4, <4>5
      <4> QED BY <4>6
    <3>7. CASE x \notin A
      <4>1. In(s) = In(s \ {x}) /\ g[x] = f[x]
        BY <3>1, <3>7
      <4> HIDE DEF In
      <4> QED BY <3>2, <3>3, <3>5, <4>1
    <3> QED BY <3>6, <3>7
  <2> QED BY <2>1, <2>2
<1>3. \A s \in SUBSET S : s \in P
  <2>1. \A s \in SUBSET S : (\A x \in s : s \ {x} \in P) => s \in P
    BY <1>2
  <2> HIDE DEF P
  <2> QED BY <2>1, SubsetInduction
<1>4. S \in P /\ In(S) = A
  BY <1>3
<1>5. \A s \in P : Sum(f, s) = Sum(g, s) + Sum(f, In(s))
  OBVIOUS
<1> HIDE DEF P, In
<1> QED BY <1>4, <1>5

-----------------------------------------------------------------------------
(* Who listens, as far as a node has heard. *)

Listeners(known, t) == [m \in Node |-> known[m].topics[t]]

(* A node that was never heard of listens to nothing. *)
Heard(known) ==
  /\ known \in [Node -> Info]
  /\ \A m \in Node : ~known[m].known => \A t \in Topic : known[m].topics[t] = 0

(* The counts c are the sums, and a topic with listeners has an entry.     *)
Tallied(known, c, k) ==
  /\ c \in [Topic -> Nat]
  /\ \A t \in Topic : c[t] = Sum(Listeners(known, t), Node)
  /\ \A t \in Topic : c[t] > 0 => t \in k

LEMMA ListenersFacts ==
  ASSUME NEW known \in [Node -> Info], NEW t \in Topic
  PROVE  \A m \in Node : /\ Listeners(known, t)[m] = known[m].topics[t]
                         /\ Listeners(known, t)[m] \in Nat
BY DEF Listeners, Info

LEMMA NodesFinite == IsFiniteSet(Node)
BY GraphAssumption DEF GraphAssumption

(* The folds of the specification are sums of listeners. *)
LEMMA FoldIsSum ==
  ASSUME NEW known \in [Node -> Info], NEW t \in Topic, NEW ids \in SUBSET Node
  PROVE  FoldSet(LAMBDA m, s : s + known[m].topics[t], 0, ids) = Sum(Listeners(known, t), ids)
<1> DEFINE f == Listeners(known, t)
           Up(h) == h = [s \in SUBSET ids |->
                           IF s = {} THEN 0
                           ELSE h[s \ {First(s)}] + known[First(s)].topics[t]]
           c == CHOOSE h : Up(h)
<1>1. FoldSet(LAMBDA m, s : s + known[m].topics[t], 0, ids) = c[ids]
  BY Zenon DEF FoldSet, MapThenFoldSet, First
<1>2. IsFiniteSet(ids) /\ \A x \in ids : f[x] = known[x].topics[t] /\ f[x] \in Nat
  BY NodesFinite, FS_Subset, ListenersFacts
<1> HIDE DEF f
<1>3. ASSUME NEW h PROVE Up(h) <=> SumsUp(h, f, ids)
  <2>1. \A s \in SUBSET ids : s # {} => f[First(s)] = known[First(s)].topics[t]
    BY <1>2, FirstIn
  <2>2. [s \in SUBSET ids |-> IF s = {} THEN 0
                              ELSE h[s \ {First(s)}] + known[First(s)].topics[t]]
        = [s \in SUBSET ids |-> IF s = {} THEN 0 ELSE h[s \ {First(s)}] + f[First(s)]]
    BY <2>1
  <2> QED BY <2>2 DEF SumsUp
<1>4. PICK h : SumsUp(h, f, ids)
  BY <1>2, SumExists
<1>5. Up(c)
  <2>1. Up(h)
    BY <1>3, <1>4
  <2> QED BY <2>1, Zenon
<1>6. SumsUp(c, f, ids)
  BY <1>3, <1>5
<1> HIDE DEF c
<1>7. Sum(f, ids) = c[ids]
  BY <1>2, <1>6, SumIs
<1> QED BY <1>1, <1>7 DEF f, c

(* One info takes the place of another (Learn). *)
LEMMA RetallyTallied ==
  ASSUME NEW known \in [Node -> Info], NEW a \in Node, NEW info \in Info,
         NEW c, NEW k, Tallied(known, c, k)
  PROVE  Tallied([known EXCEPT ![a] = info], Retally(c, known[a], info),
                 k \cup TopicsOf(known[a]) \cup TopicsOf(info))
<1> DEFINE new == [known EXCEPT ![a] = info]
           r == Retally(c, known[a], info)
<1>1. new \in [Node -> Info] /\ new[a] = info /\ \A m \in Node \ {a} : new[m] = known[m]
  OBVIOUS
<1> HIDE DEF new
<1>2. ASSUME NEW t \in Topic
      PROVE  /\ r[t] \in Nat /\ r[t] = Sum(Listeners(new, t), Node)
             /\ r[t] > 0 => t \in k \cup TopicsOf(info)
  <2> DEFINE f == Listeners(known, t)
             g == Listeners(new, t)
  <2>1. \A m \in Node : f[m] \in Nat /\ g[m] \in Nat
    BY <1>1, ListenersFacts
  <2>2. f[a] = known[a].topics[t] /\ g[a] = info.topics[t]
        /\ \A m \in Node \ {a} : g[m] = f[m]
    BY <1>1, ListenersFacts
  <2> HIDE DEF f, g
  <2>3. Sum(f, Node) = Sum(f, Node \ {a}) + f[a] /\ Sum(g, Node) = Sum(g, Node \ {a}) + g[a]
    BY <2>1, NodesFinite, SumWithout
  <2>4. Sum(f, Node \ {a}) = Sum(g, Node \ {a})
    <3>1. IsFiniteSet(Node \ {a})
      BY NodesFinite, FS_Subset
    <3>2. \A x \in Node \ {a} : f[x] \in Nat /\ g[x] = f[x]
      BY <2>1, <2>2
    <3> QED BY <3>1, <3>2, SumSame
  <2>5. Sum(f, Node \ {a}) \in Nat
    BY <2>1, NodesFinite, SumStep
  <2>6. c[t] = Sum(f, Node) /\ (c[t] > 0 => t \in k)
    BY DEF Tallied, f
  <2>7. r[t] = c[t] - f[a] + g[a]
    BY <2>2 DEF Retally
  <2>8. PICK x \in Nat, y \in Nat, z \in Nat :
          x = Sum(f, Node \ {a}) /\ y = f[a] /\ z = g[a]
    BY <2>1, <2>5
  <2>9. r[t] = x + z /\ Sum(g, Node) = x + z /\ c[t] = x + y
    <3>1. c[t] = x + y /\ Sum(g, Node) = x + z
      BY <2>3, <2>4, <2>6, <2>8
    <3>2. r[t] = (x + y) - y + z
      BY <2>7, <2>8, <3>1
    <3> QED BY <3>1, <3>2
  <2>10. r[t] > 0 => t \in k \cup TopicsOf(info)
    <3>1. CASE z > 0
      BY <2>2, <2>8, <3>1 DEF TopicsOf
    <3>2. CASE z = 0
      BY <2>6, <2>9, <3>2
    <3> QED BY <3>1, <3>2
  <2> QED BY <2>9, <2>10 DEF g
<1>3. r \in [Topic -> Nat]
  <2>1. r = [t \in Topic |-> r[t]]
    BY DEF Retally
  <2> HIDE DEF r
  <2> QED BY <1>2, <2>1
<1> HIDE DEF r
<1>4. Tallied(new, r, k \cup TopicsOf(known[a]) \cup TopicsOf(info))
  BY <1>2, <1>3 DEF Tallied
<1> QED BY <1>4 DEF new, r

(* The nodes behind a lost connection are untallied (Disconnect). *)
LEMMA BurialTallied ==
  ASSUME NEW known, Heard(known), NEW ids \in SUBSET Node, NEW c, NEW k, NEW more,
         Tallied(known, c, k)
  PROVE  /\ Heard(Buried(known, ids))
         /\ Tallied(Buried(known, ids), CountAfterBurial(c, known, ids), k \cup more)
<1> DEFINE new == Buried(known, ids)
           r == CountAfterBurial(c, known, ids)
<1>1. known \in [Node -> Info]
  BY DEF Heard
<1>2. ASSUME NEW m \in Node
      PROVE  /\ new[m] \in Info
             /\ ~new[m].known => \A t \in Topic : new[m].topics[t] = 0
             /\ \A t \in Topic : new[m].topics[t] = IF m \in ids THEN 0 ELSE known[m].topics[t]
  <2>1. new[m] = IF m \in ids /\ known[m].known
                 THEN [NoInfo EXCEPT !.known = TRUE] ELSE known[m]
    BY DEF Buried
  <2> HIDE DEF new
  <2>2. CASE m \in ids /\ known[m].known
    <3>1. new[m] = [known |-> TRUE, alive |-> FALSE, topics |-> [t \in Topic |-> 0]]
      BY <2>1, <2>2 DEF NoInfo
    <3> QED BY <2>2, <3>1 DEF Info
  <2>3. CASE ~(m \in ids /\ known[m].known)
    <3>1. new[m] = known[m]
      BY <2>1, <2>3
    <3> QED BY <2>3, <3>1 DEF Heard
  <2> QED BY <2>2, <2>3
<1>3. Heard(new)
  <2>1. new = [m \in Node |-> new[m]]
    BY DEF Buried
  <2> HIDE DEF new
  <2>2. new \in [Node -> Info]
    BY <1>2, <2>1
  <2> QED BY <1>2, <2>2 DEF Heard
<1> HIDE DEF new
<1>4. ASSUME NEW t \in Topic
      PROVE  r[t] \in Nat /\ r[t] = Sum(Listeners(new, t), Node) /\ (r[t] > 0 => t \in k)
  <2> DEFINE f == Listeners(known, t)
             g == Listeners(new, t)
  <2>1. \A m \in Node : f[m] \in Nat /\ g[m] = IF m \in ids THEN 0 ELSE f[m]
    <3>1. new \in [Node -> Info]
      BY <1>3 DEF Heard
    <3>2. \A m \in Node : f[m] = known[m].topics[t] /\ f[m] \in Nat /\ g[m] = new[m].topics[t]
      BY <1>1, <3>1, ListenersFacts
    <3> HIDE DEF f, g
    <3> QED BY <1>2, <3>2
  <2>2. r[t] = c[t] - Sum(f, ids)
    <3>1. r[t] = c[t] - FoldSet(LAMBDA m, s : s + known[m].topics[t], 0, ids)
      BY DEF CountAfterBurial
    <3> QED BY <1>1, <3>1, FoldIsSum
  <2>3. c[t] = Sum(f, Node) /\ (c[t] > 0 => t \in k)
    BY DEF Tallied
  <2> HIDE DEF f, g
  <2>4. Sum(f, Node) = Sum(g, Node) + Sum(f, ids)
    <3>1. /\ \A x \in Node : f[x] \in Nat
          /\ \A x \in Node : x \in ids => g[x] = 0
          /\ \A x \in Node : x \notin ids => g[x] = f[x]
      BY <2>1
    <3> QED BY <3>1, NodesFinite, SumSplit
  <2>5. Sum(g, Node) \in Nat /\ Sum(f, ids) \in Nat
    <3>1. \A x \in Node : g[x] \in Nat /\ f[x] \in Nat
      BY <2>1
    <3> QED BY <3>1, NodesFinite, SumStep
  <2>6. PICK x \in Nat, y \in Nat : x = Sum(g, Node) /\ y = Sum(f, ids)
    BY <2>5
  <2>7. c[t] = x + y
    BY <2>3, <2>4, <2>6
  <2>8. r[t] = (x + y) - y
    BY <2>2, <2>6, <2>7
  <2>9. r[t] = x
    BY <2>8
  <2> QED BY <2>3, <2>6, <2>7, <2>9 DEF g
<1>5. r \in [Topic -> Nat]
  <2>1. r = [t \in Topic |-> r[t]]
    BY DEF CountAfterBurial
  <2> HIDE DEF r
  <2> QED BY <1>4, <2>1
<1> HIDE DEF r
<1>6. Tallied(new, r, k \cup more)
  BY <1>4, <1>5 DEF Tallied
<1> QED BY <1>3, <1>6 DEF new, r

-----------------------------------------------------------------------------
(* The types GraphInv leaves out. *)
Members ==
  /\ up \in [Node -> BOOLEAN]
  /\ remotes \in [Node -> SUBSET Node]
  /\ clients \in [Node -> SUBSET Node]
  /\ backlog \subseteq Node \X Node
  /\ assoc \in [Node \X Node -> SUBSET Node]
  /\ keys \in [Node -> SUBSET Topic]
  /\ calls \in 0..MaxCalls
  /\ published \in 0..MaxPublish

TallyOK ==
  /\ count \in [Node -> [Topic -> Nat]]
  /\ \A n \in Node : Heard(latest[n]) /\ Tallied(latest[n], count[n], keys[n])

(* The inductive invariant. *)
TallyInv == GraphInv /\ Members /\ TallyOK

-----------------------------------------------------------------------------
LEMMA MembersInit == Init => Members
<1> SUFFICES ASSUME Init PROVE Members
  OBVIOUS
<1>1. up \in [Node -> BOOLEAN] /\ backlog \subseteq Node \X Node
  BY DEF Init
<1>2. remotes \in [Node -> SUBSET Node] /\ clients \in [Node -> SUBSET Node]
  BY DEF Init
<1>3. assoc \in [Node \X Node -> SUBSET Node]
  <2>1. assoc = [e \in Node \X Node |-> IF InitiallyLinked(e[1], e[2]) THEN {e[2]} ELSE {}]
    BY DEF Init
  <2>2. \A e \in Node \X Node : e[2] \in Node
    OBVIOUS
  <2> QED BY <2>1, <2>2
<1>4. keys \in [Node -> SUBSET Topic]
  <2>1. keys = [n \in Node |-> {t \in Topic : count[n][t] > 0}]
    BY DEF Init
  <2> QED BY <2>1
<1>5. calls \in 0..MaxCalls /\ published \in 0..MaxPublish
  BY GraphAssumption DEF Init, GraphAssumption
<1> QED BY <1>1, <1>2, <1>3, <1>4, <1>5 DEF Members

(* At first a node counts the nodes it has heard of. *)
LEMMA TallyInit == Init => TallyOK
<1> SUFFICES ASSUME Init PROVE TallyOK
  OBVIOUS
<1> DEFINE A(n, t) == {m \in InitiallyHeard(n) : <<m, t>> \in Subscribed}
<1>1. ASSUME NEW n \in Node
      PROVE  InitiallyHeard(n) \subseteq Node
  BY DEF InitiallyHeard, InitialPeers
<1>2. ASSUME NEW n \in Node, NEW t \in Topic
      PROVE  A(n, t) \in SUBSET Node /\ Cardinality(A(n, t)) \in Nat
  <2>1. A(n, t) \in SUBSET Node
    BY <1>1
  <2> HIDE DEF A
  <2> QED BY <2>1, NodesFinite, FS_Subset, FS_CardinalityType
<1>3. ASSUME NEW n \in Node, NEW m \in Node
      PROVE  /\ latest[n][m] \in Info
             /\ ~latest[n][m].known => \A t \in Topic : latest[n][m].topics[t] = 0
             /\ \A t \in Topic : latest[n][m].topics[t] = IF m \in A(n, t) THEN 1 ELSE 0
  <2>1. latest[n][m] = IF m \in InitiallyHeard(n)
                       THEN [known |-> TRUE, alive |-> TRUE, topics |-> InitialSubs(m)]
                       ELSE NoInfo
    BY DEF Init
  <2>2. InitialSubs(m) \in [Topic -> Nat]
        /\ \A t \in Topic : InitialSubs(m)[t] = IF <<m, t>> \in Subscribed THEN 1 ELSE 0
    BY DEF InitialSubs
  <2>3. CASE m \in InitiallyHeard(n)
    <3>1. latest[n][m] = [known |-> TRUE, alive |-> TRUE, topics |-> InitialSubs(m)]
      BY <2>1, <2>3
    <3>2. ASSUME NEW t \in Topic PROVE m \in A(n, t) <=> <<m, t>> \in Subscribed
      BY <2>3
    <3> HIDE DEF A
    <3>3. latest[n][m] \in Info
      BY <2>2, <3>1 DEF Info
    <3>4. latest[n][m].known /\ latest[n][m].topics = InitialSubs(m)
      BY <3>1
    <3>5. ASSUME NEW t \in Topic
          PROVE  latest[n][m].topics[t] = IF m \in A(n, t) THEN 1 ELSE 0
      BY <2>2, <3>2, <3>4
    <3> QED BY <3>3, <3>4, <3>5
  <2>4. CASE m \notin InitiallyHeard(n)
    <3>1. latest[n][m] = [known |-> FALSE, alive |-> FALSE, topics |-> [t \in Topic |-> 0]]
      BY <2>1, <2>4 DEF NoInfo
    <3>2. ASSUME NEW t \in Topic PROVE m \notin A(n, t)
      BY <2>4
    <3> HIDE DEF A
    <3> QED BY <3>1, <3>2 DEF Info
  <2> QED BY <2>3, <2>4
<1>4. ASSUME NEW n \in Node PROVE Heard(latest[n])
  <2>1. latest[n] = [m \in Node |-> latest[n][m]]
    BY DEF Init
  <2> HIDE DEF A
  <2>2. latest[n] \in [Node -> Info]
    BY <1>3, <2>1
  <2> QED BY <1>3, <2>2 DEF Heard
<1>5. ASSUME NEW n \in Node, NEW t \in Topic
      PROVE  /\ count[n][t] \in Nat
             /\ count[n][t] = Sum(Listeners(latest[n], t), Node)
             /\ count[n][t] > 0 => t \in keys[n]
  <2> DEFINE f == Listeners(latest[n], t)
  <2>1. count[n][t] = Cardinality(A(n, t))
    BY DEF Init
  <2>2. count[n][t] > 0 => t \in keys[n]
    <3>1. keys = [k \in Node |-> {u \in Topic : count[k][u] > 0}]
      BY DEF Init
    <3> QED BY <3>1
  <2> HIDE DEF A
  <2>3. \A m \in Node : f[m] = IF m \in A(n, t) THEN 1 ELSE 0
    <3>1. latest[n] \in [Node -> Info]
      BY <1>4 DEF Heard
    <3>2. \A m \in Node : f[m] = latest[n][m].topics[t]
      BY <3>1, ListenersFacts
    <3> HIDE DEF f
    <3> QED BY <1>3, <3>2
  <2> HIDE DEF f
  <2>4. Sum(f, Node) = Cardinality(A(n, t))
    BY <1>2, <2>3, NodesFinite, SumOfOnes
  <2> QED BY <1>2, <2>1, <2>2, <2>4 DEF f
<1>6. count \in [Node -> [Topic -> Nat]]
  <2>1. count = [n \in Node |-> [t \in Topic |-> count[n][t]]]
    BY DEF Init
  <2> HIDE DEF A
  <2> QED BY <1>5, <2>1
<1>7. ASSUME NEW n \in Node PROVE Tallied(latest[n], count[n], keys[n])
  <2>1. count[n] \in [Topic -> Nat]
    BY <1>6
  <2> HIDE DEF A
  <2> QED BY <1>5, <2>1 DEF Tallied
<1> QED BY <1>4, <1>6, <1>7 DEF TallyOK

-----------------------------------------------------------------------------
(* A node whose three variables about the others stay as they are. *)
LEMMA TallyStutters ==
  ASSUME TallyOK, UNCHANGED <<latest, count, keys>>
  PROVE  TallyOK'
<1>1. latest' = latest /\ count' = count /\ keys' = keys
  OBVIOUS
<1> QED BY <1>1 DEF TallyOK

(* It is enough to look at the node that takes the step. *)
LEMMA TallyOfOne ==
  ASSUME TallyOK, GraphInv, Members, NEW j \in Node, NEW l, NEW c, NEW k,
         latest' = [latest EXCEPT ![j] = l],
         count' = [count EXCEPT ![j] = c],
         keys' = [keys EXCEPT ![j] = k],
         Heard(l), Tallied(l, c, k)
  PROVE  TallyOK'
<1>1. c \in [Topic -> Nat]
  BY DEF Tallied
<1>2. count' \in [Node -> [Topic -> Nat]]
  BY <1>1 DEF TallyOK
<1>3. latest \in [Node -> [Node -> Info]] /\ keys \in [Node -> SUBSET Topic]
  BY DEF GraphInv, SourceType, Members
<1>4. ASSUME NEW n \in Node
      PROVE  Heard(latest'[n]) /\ Tallied(latest'[n], count'[n], keys'[n])
  <2>1. CASE n = j
    <3>1. latest'[n] = l /\ count'[n] = c /\ keys'[n] = k
      BY <1>3, <2>1 DEF TallyOK
    <3> QED BY <3>1
  <2>2. CASE n # j
    <3>1. latest'[n] = latest[n] /\ count'[n] = count[n] /\ keys'[n] = keys[n]
      BY <1>3, <2>2 DEF TallyOK
    <3> QED BY <3>1 DEF TallyOK
  <2> QED BY <2>1, <2>2
<1> QED BY <1>2, <1>4 DEF TallyOK

(* What a node hears of another one. *)
LEMMA LearnTally ==
  ASSUME TallyOK, GraphInv, Members, NEW j \in Node, NEW p \in InfoPacket,
         p.info.known, Learn(j, p)
  PROVE  TallyOK' /\ keys' \in [Node -> SUBSET Topic]
<1> DEFINE m == p.about
           info == p.info
           l == [latest[j] EXCEPT ![m] = info]
           c == Retally(count[j], latest[j][m], info)
           k == keys[j] \cup TopicsOf(latest[j][m]) \cup TopicsOf(info)
<1>1. m \in Node /\ info \in Info
  BY DEF InfoPacket
<1>2. CASE m = j
  <2>1. latest' = latest /\ count' = count /\ keys' = keys
    BY <1>2 DEF Learn
  <2> QED BY <2>1, TallyStutters DEF Members
<1>3. CASE m # j
  <2>1. latest' = [latest EXCEPT ![j][m] = info]
    BY <1>3 DEF Learn
  <2>2. count' = [count EXCEPT ![j] = Retally(@, latest[j][m], info)]
    BY <1>3 DEF Learn
  <2>3. keys' = [keys EXCEPT ![j] = @ \cup TopicsOf(latest[j][m]) \cup TopicsOf(info)]
    BY <1>3 DEF Learn
  <2>4. Heard(latest[j]) /\ Tallied(latest[j], count[j], keys[j])
    BY DEF TallyOK
  <2>5. Tallied(l, c, k)
    <3>1. latest[j] \in [Node -> Info]
      BY <2>4 DEF Heard
    <3> HIDE DEF m, info
    <3> QED BY <1>1, <2>4, <3>1, RetallyTallied
  <2>6. Heard(l)
    <3>1. info.known /\ latest[j] \in [Node -> Info]
      BY <2>4 DEF Heard
    <3> HIDE DEF m, info
    <3>2. l \in [Node -> Info] /\ l[m] = info /\ \A x \in Node \ {m} : l[x] = latest[j][x]
      BY <1>1, <3>1
    <3> HIDE DEF l
    <3>3. ASSUME NEW x \in Node, ~l[x].known
          PROVE  \A t \in Topic : l[x].topics[t] = 0
      <4>1. x # m
        BY <3>1, <3>2, <3>3
      <4>2. l[x] = latest[j][x]
        BY <3>2, <4>1
      <4> QED BY <2>4, <3>3, <4>2 DEF Heard
    <3> QED BY <3>2, <3>3 DEF Heard
  <2>7. latest' = [latest EXCEPT ![j] = l]
    <3> HIDE DEF m, info
    <3> QED BY <2>1
  <2>8. count' = [count EXCEPT ![j] = c] /\ keys' = [keys EXCEPT ![j] = k]
    BY <2>2, <2>3 DEF TallyOK, Members
  <2>9. k \in SUBSET Topic
    BY DEF Members, TopicsOf
  <2> HIDE DEF l, c, k
  <2>10. TallyOK'
    BY <2>5, <2>6, <2>7, <2>8, TallyOfOne
  <2>11. keys' \in [Node -> SUBSET Topic]
    BY <2>8, <2>9 DEF Members
  <2> QED BY <2>10, <2>11
<1> QED BY <1>2, <1>3

(* What a node forgets with a connection. *)
LEMMA DisconnectTally ==
  ASSUME TallyOK, GraphInv, Members, NEW j \in Node, NEW i \in Node, Disconnect(j, i)
  PROVE  TallyOK' /\ keys' \in [Node -> SUBSET Topic]
<1> DEFINE ids == assoc[<<j, i>>]
           more == UNION {TopicsOf(latest[j][m]) : m \in ids}
           l == Buried(latest[j], ids)
           c == CountAfterBurial(count[j], latest[j], ids)
           k == keys[j] \cup more
<1>1. ids \in SUBSET Node
  BY DEF Members
<1>2. latest' = [latest EXCEPT ![j] = Buried(@, ids)]
  BY DEF Disconnect
<1>3. count' = [count EXCEPT ![j] = CountAfterBurial(@, latest[j], ids)]
  BY DEF Disconnect
<1>4. keys' = [keys EXCEPT ![j] = @ \cup more]
  BY DEF Disconnect
<1>5. more \subseteq Topic
  BY DEF TopicsOf
<1> HIDE DEF ids, more
<1>6. Heard(latest[j]) /\ Tallied(latest[j], count[j], keys[j])
  BY DEF TallyOK
<1>7. Heard(l) /\ Tallied(l, c, k)
  BY <1>1, <1>6, BurialTallied
<1>8. latest' = [latest EXCEPT ![j] = l]
  BY <1>2
<1>9. count' = [count EXCEPT ![j] = c]
  BY <1>3
<1>10. keys' = [keys EXCEPT ![j] = k]
  BY <1>4
<1>11. k \in SUBSET Topic
  BY <1>5 DEF Members
<1> HIDE DEF l, c, k
<1>12. TallyOK'
  BY <1>7, <1>8, <1>9, <1>10, TallyOfOne
<1>13. keys' \in [Node -> SUBSET Topic]
  BY <1>10, <1>11 DEF Members
<1> QED BY <1>12, <1>13

-----------------------------------------------------------------------------
(* A step that leaves alone what the nodes know of each other. *)
LEMMA KnowNothingNew ==
  ASSUME TallyOK, Members,
         up' \in [Node -> BOOLEAN],
         remotes' \in [Node -> SUBSET Node], clients' \in [Node -> SUBSET Node],
         backlog' \subseteq Node \X Node,
         assoc' = assoc, latest' = latest, count' = count, keys' = keys,
         calls' \in 0..MaxCalls, published' \in 0..MaxPublish
  PROVE  Members' /\ TallyOK'
<1>1. TallyOK'
  BY TallyStutters
<1>2. Members'
  BY DEF Members
<1> QED BY <1>1, <1>2

(* A call is counted. *)
LEMMA CallCounts ==
  ASSUME Members, NEW n \in Node, Call(n)
  PROVE  calls' \in 0..MaxCalls
BY GraphAssumption DEF Members, Call, GraphAssumption

LEMMA TallyInvNext == TallyInv /\ [Next]_vars => TallyInv'
<1> SUFFICES ASSUME TallyInv, [Next]_vars PROVE TallyInv'
  OBVIOUS
<1>0. GraphInv /\ Members /\ TallyOK
  BY DEF TallyInv
<1> USE <1>0
<1>a. GraphInv'
  BY GraphInvNext
<1>b. /\ up \in [Node -> BOOLEAN] /\ remotes \in [Node -> SUBSET Node]
      /\ clients \in [Node -> SUBSET Node] /\ backlog \subseteq Node \X Node
      /\ assoc \in [Node \X Node -> SUBSET Node]
      /\ calls \in 0..MaxCalls /\ published \in 0..MaxPublish
  BY DEF Members
<1> SUFFICES Members' /\ TallyOK'
  BY <1>a DEF TallyInv
<1>1. ASSUME NEW n \in Node, NEW t \in Topic, Subscribe(n, t) PROVE Members' /\ TallyOK'
  <2>1. calls' \in 0..MaxCalls
    BY <1>1, CallCounts DEF Subscribe
  <2> QED BY <1>1, <1>b, <2>1, KnowNothingNew DEF Subscribe
<1>2. ASSUME NEW n \in Node, NEW t \in Topic, Unsubscribe(n, t) PROVE Members' /\ TallyOK'
  <2>1. calls' \in 0..MaxCalls
    BY <1>2, CallCounts DEF Unsubscribe
  <2> QED BY <1>2, <1>b, <2>1, KnowNothingNew DEF Unsubscribe
<1>3. ASSUME NEW n \in Node, NEW t \in Topic, Publish(n, t) PROVE Members' /\ TallyOK'
  <2>1. published' \in 0..MaxPublish
    BY <1>3, <1>b, GraphAssumption DEF Publish, GraphAssumption
  <2>2. UNCHANGED <<up, remotes, clients, backlog, assoc, latest, count, keys, calls>>
    BY <1>3 DEF Publish
  <2> QED BY <1>b, <2>1, <2>2, KnowNothingNew
<1>4. ASSUME NEW n \in Node, Advertise(n) PROVE Members' /\ TallyOK'
  <2>1. calls' \in 0..MaxCalls
    BY <1>4, CallCounts DEF Advertise
  <2> QED BY <1>4, <1>b, <2>1, KnowNothingNew DEF Advertise
<1>5. ASSUME NEW n \in Node, Crash(n) PROVE Members' /\ TallyOK'
  <2>1. up' \in [Node -> BOOLEAN]
    BY <1>5, <1>b DEF Crash
  <2> QED BY <1>5, <1>b, <2>1, KnowNothingNew DEF Crash
<1>6. ASSUME NEW i \in Node, NEW j \in Node, Deliver(i, j) PROVE Members' /\ TallyOK'
  <2> DEFINE p == Head(chan[<<i, j>>])
  <2>0. UNCHANGED <<up, remotes, clients, backlog, calls, published>>
    BY <1>6 DEF Deliver
  <2>1. p \in Packet /\ SentOK(i, p)
    BY <1>6, HeadTailOK DEF Deliver, GraphInv
  <2>2. p.id \in Node
    BY <2>1 DEF Packet, InfoPacket, DataPacket
  <2>3. assoc' = assoc \/ assoc' = [assoc EXCEPT ![<<j, i>>] = @ \cup {p.id}]
    BY <1>6 DEF Deliver
  <2>4. \/ UNCHANGED <<latest, count, keys>>
        \/ p.kind = "info" /\ Learn(j, p)
    BY <1>6 DEF Deliver
  <2> HIDE DEF p
  <2>5. assoc' \in [Node \X Node -> SUBSET Node]
    BY <1>b, <2>2, <2>3
  <2>6. TallyOK' /\ keys' \in [Node -> SUBSET Topic]
    <3>1. CASE UNCHANGED <<latest, count, keys>>
      BY <3>1, TallyStutters DEF Members
    <3>2. CASE p.kind = "info" /\ Learn(j, p)
      <4>1. p \in InfoPacket /\ p.info.known
        BY <2>1, <3>2 DEF Packet, DataPacket, SentOK
      <4> QED BY <3>2, <4>1, LearnTally
    <3> QED BY <2>4, <3>1, <3>2
  <2> QED BY <1>b, <2>0, <2>5, <2>6 DEF Members
<1>7. ASSUME NEW i \in Node, NEW j \in Node, Join(i, j) PROVE Members' /\ TallyOK'
  <2>1. remotes' = [remotes EXCEPT ![i] = @ \cup {j}] /\ backlog' = backlog \cup {<<i, j>>}
    BY <1>7 DEF Join
  <2>2. remotes' \in [Node -> SUBSET Node] /\ backlog' \subseteq Node \X Node
    BY <1>b, <2>1
  <2>3. UNCHANGED <<up, clients, assoc, latest, count, keys, calls, published>>
    BY <1>7 DEF Join
  <2> QED BY <1>b, <2>2, <2>3, KnowNothingNew
<1>8. ASSUME NEW i \in Node, NEW j \in Node, Accept(j, i) PROVE Members' /\ TallyOK'
  <2>1. /\ remotes' = [remotes EXCEPT ![j] = @ \cup {i}]
        /\ clients' = [clients EXCEPT ![j] = @ \cup {i}]
        /\ backlog' = backlog \ {<<i, j>>}
    BY <1>8 DEF Accept
  <2>2. /\ remotes' \in [Node -> SUBSET Node] /\ clients' \in [Node -> SUBSET Node]
        /\ backlog' \subseteq Node \X Node
    BY <1>b, <2>1
  <2>3. UNCHANGED <<up, assoc, latest, count, keys, calls, published>>
    BY <1>8 DEF Accept
  <2> QED BY <1>b, <2>2, <2>3, KnowNothingNew
<1>9. ASSUME NEW i \in Node, NEW j \in Node, Disconnect(j, i) PROVE Members' /\ TallyOK'
  <2>1. /\ remotes' = [remotes EXCEPT ![j] = @ \ {i}]
        /\ clients' = [clients EXCEPT ![j] = @ \ {i}]
        /\ assoc' = [assoc EXCEPT ![<<j, i>>] = {}]
    BY <1>9 DEF Disconnect
  <2>2. /\ remotes' \in [Node -> SUBSET Node] /\ clients' \in [Node -> SUBSET Node]
        /\ assoc' \in [Node \X Node -> SUBSET Node]
    BY <1>b, <2>1
  <2>3. UNCHANGED <<up, backlog, calls, published>>
    BY <1>9 DEF Disconnect
  <2>4. TallyOK' /\ keys' \in [Node -> SUBSET Topic]
    BY <1>9, DisconnectTally
  <2> QED BY <1>b, <2>2, <2>3, <2>4 DEF Members
<1>10. CASE UNCHANGED vars
  <2>1. UNCHANGED <<up, remotes, clients, backlog, assoc, latest, count, keys, calls, published>>
    BY <1>10 DEF vars
  <2> QED BY <1>b, <2>1, KnowNothingNew
<1> QED BY <1>1, <1>2, <1>3, <1>4, <1>5, <1>6, <1>7, <1>8, <1>9, <1>10 DEF Next

THEOREM TallyInvariant == Spec => []TallyInv
<1>1. Init => TallyInv
  BY GraphInvInit, MembersInit, TallyInit DEF TallyInv
<1> QED BY <1>1, TallyInvNext, PTL DEF Spec

(* The variables have the types NodeGraph declares.  That the counts do is *)
(* the deep part: unsigned in the code, they never go below zero.          *)
THEOREM TypeCorrect == Spec => []TypeOK
<1>1. TallyInv => TypeOK
  BY DEF TallyInv, GraphInv, SourceType, GoodChan, Members, TallyOK, TypeOK
<1> QED BY <1>1, TallyInvariant, PTL

(* _subscription_count is the sum of the subscriptions in _latest_info and *)
(* a topic somebody listens to has an entry, in every node, after any      *)
(* sequence of infos, echoes, connections and lost connections: every      *)
(* untally takes off exactly what an earlier tally put on.                 *)
THEOREM CountsAreExact == Spec => []TallyMatches
<1>1. TallyInv => TallyMatches
  <2> SUFFICES ASSUME TallyInv, NEW n \in Node, NEW t \in Topic
               PROVE  /\ count[n][t] = FoldSet(LAMBDA m, s : s + latest[n][m].topics[t], 0, Node)
                      /\ count[n][t] > 0 => t \in keys[n]
    BY DEF TallyMatches
  <2> DEFINE known == latest[n]
  <2>1. known \in [Node -> Info] /\ Tallied(known, count[n], keys[n])
    BY DEF TallyInv, TallyOK, Heard
  <2>2. FoldSet(LAMBDA m, s : s + known[m].topics[t], 0, Node) = Sum(Listeners(known, t), Node)
    <3> HIDE DEF known
    <3> QED BY <2>1, FoldIsSum
  <2>3. count[n][t] = Sum(Listeners(known, t), Node) /\ (count[n][t] > 0 => t \in keys[n])
    BY <2>1 DEF Tallied
  <2> QED BY <2>2, <2>3, Zenon DEF known
<1> QED BY <1>1, TallyInvariant, PTL
=============================================================================
