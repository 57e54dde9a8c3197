----------------------- MODULE NodeGraphRouting_proofs -----------------------
(***************************************************************************)
(* Theorems about what arrives: whom a subscription reaches, and in which  *)
(* order publications come, for any finite set of nodes, any calls and any *)
(* crashes.                                                                *)
(*                                                                         *)
(* Both follow a packet along one way through the graph.  The path of a    *)
(* packet on its way is the part of the way that lies behind it, so that   *)
(* the packets which go the same way can be told and compared, wherever    *)
(* they are.                                                               *)
(***************************************************************************)
EXTENDS NodeGraph_proofs

(* No node twice. *)
Simple(v) == \A x, y \in 1..Len(v) : v[x] = v[y] => x = y

(* The q-th channel on the way v. *)
Hop(v, q) == <<v[q], v[q + 1]>>

(* p has come the first q nodes of the way v. *)
Follows(p, v, q) == Len(p.path) = q /\ \A x \in 1..q : p.path[x] = v[x]

-----------------------------------------------------------------------------
(* What a step does to a channel. *)

(* r is s without its first h packets, and perhaps more at the end. *)
Moved(s, r, h) ==
  /\ h \in 0..Len(s) /\ Len(r) \in Nat
  /\ Len(s) - h <= Len(r)
  /\ \A k \in 1..(Len(s) - h) : r[k] = s[k + h]

LEMMA PacketFacts ==
  ASSUME NEW p \in Packet
  PROVE  /\ p.path \in Seq(Node) /\ p.id \in Node
         /\ p.kind = "info" => p \in InfoPacket
         /\ p.kind # "info" => p \in DataPacket
         /\ p.kind = "data" <=> p.kind # "info"
         /\ p.kind = "data" => p.seq \in Nat /\ p.origin \in Node /\ p.topic \in Topic
BY DEF Packet, InfoPacket, DataPacket

LEMMA ChannelFacts ==
  ASSUME GraphInv, NEW e \in Node \X Node
  PROVE  /\ chan[e] \in Seq(Packet) /\ Len(chan[e]) \in Nat
         /\ \A k \in 1..Len(chan[e]) : chan[e][k] \in Packet /\ SentOK(e[1], chan[e][k])
<1>1. chan[e] \in Seq(Packet) /\ \A k \in 1..Len(chan[e]) : SentOK(e[1], chan[e][k])
  BY DEF GraphInv, GoodChan
<1> QED BY <1>1

(* A packet as it is passed on. *)
LEMMA StampFacts ==
  ASSUME NEW n \in Node, NEW p \in Packet
  PROVE  /\ Stamp(n, p).kind = p.kind
         /\ Stamp(n, p).path = Append(p.path, n)
         /\ Len(Stamp(n, p).path) = Len(p.path) + 1
         /\ Stamp(n, p).path[Len(p.path) + 1] = n
         /\ \A x \in 1..Len(p.path) : Stamp(n, p).path[x] = p.path[x]
         /\ p.kind = "data" => Stamp(n, p).seq = p.seq /\ Stamp(n, p).origin = p.origin
         /\ p.kind = "info" => Stamp(n, p).about = p.about /\ Stamp(n, p).info = p.info
<1>1. p.path \in Seq(Node)
  BY PacketFacts
<1>2. /\ Len(Append(p.path, n)) = Len(p.path) + 1
      /\ Append(p.path, n)[Len(p.path) + 1] = n
      /\ \A x \in 1..Len(p.path) : Append(p.path, n)[x] = p.path[x]
  BY <1>1, AppendProperties
<1>3. /\ Stamp(n, p).kind = p.kind /\ Stamp(n, p).path = Append(p.path, n)
      /\ p.kind = "info" => Stamp(n, p).about = p.about /\ Stamp(n, p).info = p.info
      /\ p.kind = "data" => Stamp(n, p).seq = p.seq /\ Stamp(n, p).origin = p.origin
  <2>1. CASE p \in InfoPacket
    BY <2>1 DEF InfoPacket, Stamp
  <2>2. CASE p \in DataPacket
    BY <2>2 DEF DataPacket, Stamp
  <2> QED BY <2>1, <2>2 DEF Packet
<1> QED BY <1>2, <1>3

(* What is sent comes after what is there. *)
GotAll(n, ps, s, r) ==
  Len(r) = Len(s) + Len(ps) /\ \A k \in 1..Len(ps) : r[Len(s) + k] = Stamp(n, ps[k])

LEMMA SendToMoves ==
  ASSUME GraphInv, NEW n \in Node, NEW rs, NEW ps \in Seq(Packet), NEW e \in Node \X Node
  PROVE  /\ Moved(chan[e], SendTo(n, rs, ps)[e], 0)
         /\ \/ SendTo(n, rs, ps)[e] = chan[e]
            \/ /\ e[1] = n /\ e[2] \in rs /\ up[e[2]]
               /\ Len(SendTo(n, rs, ps)[e]) = Len(chan[e]) + Len(ps)
               /\ \A k \in 1..Len(ps) : SendTo(n, rs, ps)[e][Len(chan[e]) + k] = Stamp(n, ps[k])
         /\ e[1] = n /\ e[2] \in rs /\ up[e[2]]
              => /\ Len(SendTo(n, rs, ps)[e]) = Len(chan[e]) + Len(ps)
                 /\ \A k \in 1..Len(ps) :
                      SendTo(n, rs, ps)[e][Len(chan[e]) + k] = Stamp(n, ps[k])
<1> DEFINE ss == [k \in 1..Len(ps) |-> Stamp(n, ps[k])]
           s == chan[e]
           r == SendTo(n, rs, ps)[e]
<1>1. r = IF e[1] = n /\ e[2] \in rs /\ up[e[2]] THEN s \o ss ELSE s
  BY DEF SendTo
<1>2. s \in Seq(Packet) /\ Len(s) \in Nat /\ Len(ps) \in Nat
  BY ChannelFacts
<1>3. \A k \in 1..Len(ps) : Stamp(n, ps[k]) \in {Stamp(n, p) : p \in Packet}
  OBVIOUS
<1>4. ss \in Seq({Stamp(n, p) : p \in Packet}) /\ Len(ss) = Len(ps)
      /\ \A k \in 1..Len(ps) : ss[k] = Stamp(n, ps[k])
  BY <1>2, <1>3
<1> DEFINE Sent == Packet \cup {Stamp(n, p) : p \in Packet}
<1> HIDE DEF ss, s, r
<1>5. /\ Len(s \o ss) = Len(s) + Len(ps)
      /\ \A k \in 1..Len(s) : (s \o ss)[k] = s[k]
      /\ \A k \in 1..Len(ps) : (s \o ss)[Len(s) + k] = ss[k]
  <2>1. s \in Seq(Sent) /\ ss \in Seq(Sent) /\ Len(s) \in Nat /\ Len(ss) = Len(ps)
    BY <1>2, <1>4, SeqMonotonic
  <2> HIDE DEF Sent
  <2>2. Len(s \o ss) = Len(s) + Len(ss)
    BY ONLY <2>1, ConcatProperties
  <2>3. \A k \in 1..Len(s) : (s \o ss)[k] = s[k]
    BY ONLY <2>1, ConcatProperties
  <2>4. \A k \in 1..Len(ss) : (s \o ss)[Len(s) + k] = ss[k]
    BY ONLY <2>1, ConcatProperties
  <2> QED BY <2>1, <2>2, <2>3, <2>4
<1>6. CASE e[1] = n /\ e[2] \in rs /\ up[e[2]]
  <2>1. r = s \o ss
    BY <1>1, <1>6
  <2>2. /\ Len(r) = Len(s) + Len(ps)
        /\ \A k \in 1..Len(s) : r[k] = s[k]
        /\ \A k \in 1..Len(ps) : r[Len(s) + k] = Stamp(n, ps[k])
    BY <1>4, <1>5, <2>1
  <2>3. Moved(s, r, 0)
    BY <1>2, <2>2 DEF Moved
  <2> QED BY <1>6, <2>2, <2>3 DEF s, r
<1>7. CASE ~(e[1] = n /\ e[2] \in rs /\ up[e[2]])
  <2>1. r = s
    BY <1>1, <1>7
  <2>2. Moved(s, r, 0)
    BY <1>2, <2>1 DEF Moved
  <2> QED BY <1>7, <2>1, <2>2 DEF s, r
<1> QED BY <1>6, <1>7

LEMMA SendToAdds ==
  ASSUME GraphInv, NEW n \in Node, NEW rs, NEW ps \in Seq(Packet), NEW e \in Node \X Node,
         NEW c, c = SendTo(n, rs, ps)
  PROVE  /\ Moved(chan[e], c[e], 0)
         /\ c[e] = chan[e] \/ GotAll(n, ps, chan[e], c[e])
         /\ e[1] = n /\ e[2] \in rs /\ up[e[2]] => GotAll(n, ps, chan[e], c[e])
<1>1. SendTo(n, rs, ps) = c
  OBVIOUS
<1> QED BY <1>1, SendToMoves DEF GotAll

(* Where a packet is afterwards. *)
LEMMA MovedTo ==
  ASSUME NEW s, NEW r, NEW h \in Nat, Moved(s, r, h), Len(s) \in Nat,
         NEW k \in 1..Len(s), k > h
  PROVE  k - h \in Nat /\ k - h \in 1..Len(r) /\ r[k - h] = s[k]
<1>1. k - h \in 1..(Len(s) - h) /\ (k - h) + h = k
  OBVIOUS
<1>2. Len(r) \in Nat /\ Len(s) - h <= Len(r)
  BY DEF Moved
<1>3. k - h \in Nat /\ k - h \in 1..Len(r)
  BY <1>1, <1>2
<1>4. r[k - h] = s[(k - h) + h]
  BY <1>1 DEF Moved
<1> QED BY <1>1, <1>3, <1>4

(* Only infos were added. *)
OnlyInfos(s, r, h) ==
  Moved(s, r, h) /\ \A k \in (Len(s) - h + 1)..Len(r) : r[k].kind = "info"

LEMMA NothingMoves ==
  ASSUME NEW s, Len(s) \in Nat
  PROVE  OnlyInfos(s, s, 0) /\ OnlyInfos(s, <<>>, Len(s))
<1>1. OnlyInfos(s, s, 0)
  BY DEF OnlyInfos, Moved
<1>2. ASSUME NEW r, Len(r) = 0 PROVE OnlyInfos(s, r, Len(s))
  BY <1>2 DEF OnlyInfos, Moved
<1> QED BY <1>1, <1>2

(* send_info adds infos, the node's own before the others. *)
LEMMA InfosMove ==
  ASSUME GraphInv, NEW n \in Node, NEW rs, NEW own \in [Topic -> Nat],
         NEW known \in [Node -> Info], NEW dead \in BOOLEAN, NEW e \in Node \X Node,
         NEW c, c = SendTo(n, rs, InfoPackets(n, own, known, dead))
  PROVE  /\ OnlyInfos(chan[e], c[e], 0)
         /\ e[1] = n /\ e[2] \in rs /\ up[e[2]]
              => /\ Len(chan[e]) + 1 \in 1..Len(c[e])
                 /\ c[e][Len(chan[e]) + 1] = Stamp(n, OwnInfo(n, own))
<1> DEFINE ps == InfoPackets(n, own, known, dead)
           own1 == OwnInfo(n, own)
           s == chan[e]
           r == c[e]
<1>1. /\ ps \in Seq(Packet) /\ Len(ps) >= 1 /\ ps[1] = own1
      /\ \A k \in 1..Len(ps) : ps[k].kind = "info"
  BY InfoPacketsOK
<1>2. c = SendTo(n, rs, ps)
  OBVIOUS
<1> HIDE DEF ps, own1
<1>3. /\ Moved(s, r, 0)
      /\ \/ r = s
         \/ /\ Len(r) = Len(s) + Len(ps)
            /\ \A k \in 1..Len(ps) : r[Len(s) + k] = Stamp(n, ps[k])
      /\ e[1] = n /\ e[2] \in rs /\ up[e[2]]
              => /\ Len(r) = Len(s) + Len(ps)
                 /\ \A k \in 1..Len(ps) : r[Len(s) + k] = Stamp(n, ps[k])
  <2>1. ps \in Seq(Packet)
    BY <1>1
  <2>2. /\ Moved(s, r, 0)
        /\ r = s \/ GotAll(n, ps, s, r)
        /\ e[1] = n /\ e[2] \in rs /\ up[e[2]] => GotAll(n, ps, s, r)
    BY <1>2, <2>1, SendToAdds
  <2> QED BY <2>2 DEF GotAll
<1>4. \A k \in 1..Len(ps) : Stamp(n, ps[k]).kind = "info"
  <2>1. ASSUME NEW k \in 1..Len(ps) PROVE Stamp(n, ps[k]).kind = "info"
    <3>1. ps[k] \in Packet /\ ps[k].kind = "info"
      BY <1>1
    <3> QED BY <3>1, StampFacts
  <2> QED BY <2>1
<1>5. Len(s) \in Nat /\ Len(ps) \in Nat
  BY <1>1, ChannelFacts
<1> HIDE DEF s, r
<1>6. OnlyInfos(s, r, 0)
  <2>1. CASE r = s
    BY <1>5, <2>1, NothingMoves
  <2>2. CASE /\ Len(r) = Len(s) + Len(ps)
             /\ \A k \in 1..Len(ps) : r[Len(s) + k] = Stamp(n, ps[k])
    <3>1. ASSUME NEW k \in (Len(s) - 0 + 1)..Len(r) PROVE r[k].kind = "info"
      <4>1. k - Len(s) \in 1..Len(ps) /\ Len(s) + (k - Len(s)) = k
        BY <1>5, <2>2
      <4>2. r[k] = Stamp(n, ps[k - Len(s)])
        BY <2>2, <4>1
      <4> QED BY <1>4, <4>1, <4>2
    <3> QED BY <1>3, <3>1 DEF OnlyInfos
  <2> QED BY <1>3, <2>1, <2>2
<1>7. ASSUME e[1] = n, e[2] \in rs, up[e[2]]
      PROVE  Len(s) + 1 \in 1..Len(r) /\ r[Len(s) + 1] = Stamp(n, own1)
  <2>1. 1 \in 1..Len(ps)
    BY <1>1, <1>5
  <2> QED BY <1>1, <1>3, <1>5, <1>7, <2>1
<1> QED BY <1>6, <1>7 DEF s, r, own1

LEMMA OwnInfoMoves ==
  ASSUME GraphInv, NEW n \in Node, NEW rs, NEW own \in [Topic -> Nat],
         NEW known \in [Node -> Info], NEW dead \in BOOLEAN, NEW e \in Node \X Node,
         NEW c, c = SendTo(n, rs, InfoPackets(n, own, known, dead)),
         e[1] = n, e[2] \in rs, up[e[2]]
  PROVE  /\ Len(chan[e]) + 1 \in 1..Len(c[e])
         /\ c[e][Len(chan[e]) + 1] = Stamp(n, OwnInfo(n, own))
BY InfosMove

-----------------------------------------------------------------------------
(* The steps in which no ordinary packet moves forward. *)
Other ==
  \/ \E n \in Node, t \in Topic : Subscribe(n, t) \/ Unsubscribe(n, t)
  \/ \E n \in Node : Advertise(n) \/ Crash(n)
  \/ \E i, j \in Node : Join(i, j) \/ Accept(j, i) \/ Disconnect(j, i)
  \/ UNCHANGED vars

LEMMA StepCases ==
  ASSUME [Next]_vars
  PROVE  \/ Other
         \/ \E n \in Node, t \in Topic : Publish(n, t)
         \/ \E i, j \in Node : Deliver(i, j)
BY Zenon DEF Next, Other

(* They add infos to the channels, and take packets only from the channels *)
(* of a node that is down.                                                 *)
LEMMA OtherMoves ==
  ASSUME TallyInv, Other, NEW e \in Node \X Node
  PROVE  /\ \E h \in 0..Len(chan[e]) : OnlyInfos(chan[e], chan'[e], h)
         /\ up'[e[1]] /\ up'[e[2]] => OnlyInfos(chan[e], chan'[e], 0)
<1>0. GraphInv /\ Members /\ Len(chan[e]) \in Nat
  BY ChannelFacts DEF TallyInv
<1>s. /\ subs \in [Node -> [Topic -> Nat]] /\ latest \in [Node -> [Node -> Info]]
      /\ chan \in [Node \X Node -> Seq(Packet)]
  BY <1>0 DEF GraphInv, SourceType, GoodChan
<1>i. OnlyInfos(chan[e], chan[e], 0) /\ OnlyInfos(chan[e], <<>>, Len(chan[e]))
  BY <1>0, NothingMoves
<1>a. SUFFICES \/ OnlyInfos(chan[e], chan'[e], 0)
               \/ chan'[e] = <<>> /\ ~(up'[e[1]] /\ up'[e[2]])
  BY <1>0, <1>i
<1>1. ASSUME NEW n \in Node, NEW t \in Topic, Subscribe(n, t)
      PROVE  OnlyInfos(chan[e], chan'[e], 0)
  <2>1. subs'[n] \in [Topic -> Nat]
    BY <1>s, <1>1 DEF Subscribe
  <2>2. chan' = SendTo(n, remotes[n], InfoPackets(n, subs'[n], latest[n], FALSE))
    BY <1>1 DEF Subscribe
  <2> QED BY <1>0, <1>s, <2>1, <2>2, InfosMove
<1>2. ASSUME NEW n \in Node, NEW t \in Topic, Unsubscribe(n, t)
      PROVE  OnlyInfos(chan[e], chan'[e], 0)
  BY <1>i, <1>2 DEF Unsubscribe
<1>3. ASSUME NEW n \in Node, Advertise(n)
      PROVE  OnlyInfos(chan[e], chan'[e], 0)
  <2>1. chan' = SendTo(n, remotes[n], InfoPackets(n, subs[n], latest[n], FALSE))
    BY <1>3 DEF Advertise
  <2> QED BY <1>0, <1>s, <2>1, InfosMove
<1>4. ASSUME NEW n \in Node, Crash(n)
      PROVE  \/ OnlyInfos(chan[e], chan'[e], 0)
             \/ chan'[e] = <<>> /\ ~(up'[e[1]] /\ up'[e[2]])
  <2>1. /\ chan'[e] = chan[e] \/ (chan'[e] = <<>> /\ n \in {e[1], e[2]})
        /\ ~up'[n]
    BY <1>0, <1>4 DEF Crash, Members
  <2> QED BY <1>i, <2>1
<1>5. ASSUME NEW i \in Node, NEW j \in Node, Join(i, j)
      PROVE  OnlyInfos(chan[e], chan'[e], 0)
  <2>1. chan' = SendTo(i, remotes'[i], InfoPackets(i, subs[i], latest[i], FALSE))
    BY <1>5 DEF Join
  <2> QED BY <1>0, <1>s, <2>1, InfosMove
<1>6. ASSUME NEW i \in Node, NEW j \in Node, Accept(j, i)
      PROVE  OnlyInfos(chan[e], chan'[e], 0)
  <2>1. chan' = SendTo(j, remotes'[j], InfoPackets(j, subs[j], latest[j], FALSE))
    BY <1>6 DEF Accept
  <2> QED BY <1>0, <1>s, <2>1, InfosMove
<1>7. ASSUME NEW i \in Node, NEW j \in Node, Disconnect(j, i)
      PROVE  \/ OnlyInfos(chan[e], chan'[e], 0)
             \/ chan'[e] = <<>> /\ ~(up'[e[1]] /\ up'[e[2]])
  <2> DEFINE c == SendTo(j, remotes'[j], InfoPackets(j, subs[j], latest'[j], TRUE))
  <2>1. chan' = [c EXCEPT ![<<i, j>>] = <<>>] /\ up' = up /\ ~up[i]
    BY <1>7 DEF Disconnect
  <2>2. latest'[j] \in [Node -> Info]
    <3>1. TallyInv'
      BY <1>7, TallyInvNext DEF Next
    <3> QED BY <3>1 DEF TallyInv, GraphInv, SourceType
  <2>3. OnlyInfos(chan[e], c[e], 0)
    BY <1>0, <1>s, <2>2, InfosMove
  <2>4. c = [f \in Node \X Node |-> c[f]]
    BY DEF SendTo
  <2> HIDE DEF c
  <2>5. chan'[e] = IF e = <<i, j>> THEN <<>> ELSE c[e]
    BY <2>1, <2>4
  <2> QED BY <2>1, <2>3, <2>5
<1>8. CASE UNCHANGED vars
  BY <1>i, <1>8 DEF vars
<1> QED BY <1>1, <1>2, <1>3, <1>4, <1>5, <1>6, <1>7, <1>8 DEF Other

(* What they leave alone, and what they leave behind. *)
LEMMA OtherKeeps ==
  ASSUME TallyInv, Other
  PROVE  /\ delivered' = delivered /\ published' = published
         /\ \A x \in Node : keys[x] \subseteq keys'[x] /\ (up'[x] => up[x])
<1>0. keys \in [Node -> SUBSET Topic] /\ up \in [Node -> BOOLEAN]
  BY DEF TallyInv, Members
<1>1. ASSUME NEW n \in Node, NEW t \in Topic, Subscribe(n, t) \/ Unsubscribe(n, t)
      PROVE  UNCHANGED <<delivered, published, keys, up>>
  BY <1>1 DEF Subscribe, Unsubscribe
<1>2. ASSUME NEW n \in Node, Advertise(n)
      PROVE  UNCHANGED <<delivered, published, keys, up>>
  BY <1>2 DEF Advertise
<1>3. ASSUME NEW i \in Node, NEW j \in Node, Join(i, j) \/ Accept(j, i)
      PROVE  UNCHANGED <<delivered, published, keys, up>>
  BY <1>3 DEF Join, Accept
<1>4. ASSUME NEW n \in Node, Crash(n)
      PROVE  /\ UNCHANGED <<delivered, published, keys>>
             /\ \A x \in Node : up'[x] => up[x]
  BY <1>0, <1>4 DEF Crash
<1>5. ASSUME NEW i \in Node, NEW j \in Node, Disconnect(j, i)
      PROVE  /\ UNCHANGED <<delivered, published, up>>
             /\ \A x \in Node : keys[x] \subseteq keys'[x]
  <2> DEFINE more == UNION {TopicsOf(latest[j][m]) : m \in assoc[<<j, i>>]}
  <2>1. UNCHANGED <<delivered, published, up>> /\ keys' = [keys EXCEPT ![j] = @ \cup more]
    BY <1>5 DEF Disconnect
  <2> HIDE DEF more
  <2> QED BY <1>0, <2>1
<1>6. CASE UNCHANGED vars
  BY <1>6 DEF vars
<1> QED BY <1>1, <1>2, <1>3, <1>4, <1>5, <1>6 DEF Other

-----------------------------------------------------------------------------
(* The steps that carry one packet. *)

(* n sends p on, and h packets are taken. *)
Carried(n, p, e, h) ==
  /\ Moved(chan[e], chan'[e], h)
  /\ \A k \in (Len(chan[e]) - h + 1)..Len(chan'[e]) :
       /\ k = Len(chan[e]) - h + 1 /\ chan'[e][k] = Stamp(n, p)
       /\ e[1] = n /\ e[2] \in remotes[n]

LEMMA OneMoves ==
  ASSUME GraphInv, NEW n \in Node, NEW rs, NEW p \in Packet, NEW e \in Node \X Node,
         NEW c, c = SendTo(n, rs, <<p>>)
  PROVE  /\ Moved(chan[e], c[e], 0)
         /\ \A k \in (Len(chan[e]) + 1)..Len(c[e]) :
              /\ k = Len(chan[e]) + 1 /\ c[e][k] = Stamp(n, p)
              /\ e[1] = n /\ e[2] \in rs
         /\ e[1] = n /\ e[2] \in rs /\ up[e[2]]
              => Len(chan[e]) + 1 \in 1..Len(c[e]) /\ c[e][Len(chan[e]) + 1] = Stamp(n, p)
<1> DEFINE ps == <<p>>
           s == chan[e]
           r == c[e]
<1>1. ps \in Seq(Packet) /\ Len(ps) = 1 /\ ps[1] = p
  OBVIOUS
<1>2. c = SendTo(n, rs, ps) /\ Len(s) \in Nat
  BY ChannelFacts
<1> HIDE DEF ps
<1>3. /\ Moved(s, r, 0)
      /\ \/ r = s
         \/ /\ e[1] = n /\ e[2] \in rs /\ up[e[2]]
            /\ Len(r) = Len(s) + Len(ps)
            /\ \A k \in 1..Len(ps) : r[Len(s) + k] = Stamp(n, ps[k])
      /\ e[1] = n /\ e[2] \in rs /\ up[e[2]]
              => /\ Len(r) = Len(s) + Len(ps)
                 /\ \A k \in 1..Len(ps) : r[Len(s) + k] = Stamp(n, ps[k])
  <2> DEFINE d == SendTo(n, rs, ps)
  <2>1. Moved(chan[e], d[e], 0)
    BY <1>1, SendToMoves
  <2>2. ~(e[1] = n /\ e[2] \in rs /\ up[e[2]]) => d[e] = chan[e]
    BY DEF SendTo
  <2>3. e[1] = n /\ e[2] \in rs /\ up[e[2]]
          => /\ Len(d[e]) = Len(chan[e]) + Len(ps)
             /\ \A k \in 1..Len(ps) : d[e][Len(chan[e]) + k] = Stamp(n, ps[k])
    <3>1. GraphInv /\ n \in Node /\ ps \in Seq(Packet) /\ e \in Node \X Node
      BY <1>1
    <3> HIDE DEF d
    <3>2. SendTo(n, rs, ps) = d
      BY DEF d
    <3> QED BY <3>1, <3>2, SendToMoves
  <2>4. c = d
    BY <1>2
  <2> HIDE DEF d
  <2> QED BY <2>1, <2>2, <2>3, <2>4, Zenon
<1> HIDE DEF s, r
<1>4. Moved(s, r, 0)
  BY <1>3
<1>5. \A k \in (Len(s) + 1)..Len(r) :
        k = Len(s) + 1 /\ r[k] = Stamp(n, p) /\ e[1] = n /\ e[2] \in rs
  <2>1. CASE r = s
    BY <1>2, <2>1
  <2>2. CASE r # s
    <3>1. Len(r) = Len(s) + 1 /\ r[Len(s) + 1] = Stamp(n, p) /\ e[1] = n /\ e[2] \in rs
      BY <1>1, <1>3, <2>2
    <3> QED BY <1>2, <3>1
  <2> QED BY <2>1, <2>2
<1>6. e[1] = n /\ e[2] \in rs /\ up[e[2]]
        => Len(s) + 1 \in 1..Len(r) /\ r[Len(s) + 1] = Stamp(n, p)
  BY <1>1, <1>2, <1>3
<1> QED BY <1>4, <1>5, <1>6 DEF s, r

(* What Publish sends. *)
Published(n, t) ==
  [kind |-> "data", path |-> <<>>, id |-> n, topic |-> t, origin |-> n, seq |-> published]

LEMMA PublishMoves ==
  ASSUME TallyInv, NEW n \in Node, NEW t \in Topic, Publish(n, t), NEW e \in Node \X Node
  PROVE  Carried(n, Published(n, t), e, 0)
<1> DEFINE p == Published(n, t)
<1>1. GraphInv /\ Len(chan[e]) \in Nat
  BY ChannelFacts DEF TallyInv
<1>2. p \in Packet
  <2>1. published \in Nat
    BY <1>1 DEF GraphInv, SourceType
  <2> QED BY <2>1 DEF Published, Packet, DataPacket
<1>3. chan' = chan \/ chan' = SendTo(n, remotes[n], <<p>>)
  BY DEF Publish, Published
<1> SUFFICES Carried(n, p, e, 0)
  OBVIOUS
<1> HIDE DEF p
<1>4. CASE chan' = chan
  <2>1. OnlyInfos(chan[e], chan'[e], 0)
    BY <1>1, <1>4, NothingMoves
  <2> QED BY <1>1, <1>4, <2>1 DEF Carried, OnlyInfos
<1>5. CASE chan' = SendTo(n, remotes[n], <<p>>)
  <2> DEFINE c == SendTo(n, remotes[n], <<p>>)
  <2>1. /\ Moved(chan[e], c[e], 0)
        /\ \A k \in (Len(chan[e]) + 1)..Len(c[e]) :
             /\ k = Len(chan[e]) + 1 /\ c[e][k] = Stamp(n, p)
             /\ e[1] = n /\ e[2] \in remotes[n]
    BY <1>1, <1>2, OneMoves
  <2>2. chan' = c
    BY <1>5
  <2> HIDE DEF c
  <2>3. Len(chan[e]) - 0 + 1 = Len(chan[e]) + 1
    BY <1>1
  <2> QED BY <2>1, <2>2, <2>3 DEF Carried
<1> QED BY <1>3, <1>4, <1>5

(* What Deliver takes. *)
Arrived(i, j) == Head(chan[<<i, j>>])
Taken(i, j, e) == IF e = <<i, j>> THEN 1 ELSE 0

LEMMA ArrivedFacts ==
  ASSUME TallyInv, NEW i \in Node, NEW j \in Node, Deliver(i, j)
  PROVE  /\ Arrived(i, j) \in Packet /\ SentOK(i, Arrived(i, j))
         /\ chan[<<i, j>>] \in Seq(Packet) /\ 1 \in 1..Len(chan[<<i, j>>])
         /\ Arrived(i, j) = chan[<<i, j>>][1]
         /\ ~AlreadySeen(j, Arrived(i, j)) => i # j
<1>1. GraphInv /\ GoodChan(chan) /\ chan[<<i, j>>] # <<>> /\ chan[<<i, j>>] \in Seq(Packet)
  BY DEF Deliver, TallyInv, GraphInv, GoodChan
<1>2. Arrived(i, j) \in Packet /\ SentOK(i, Arrived(i, j))
  BY <1>1, HeadTailOK DEF Arrived
<1>3. 1 \in 1..Len(chan[<<i, j>>]) /\ Arrived(i, j) = chan[<<i, j>>][1]
  BY <1>1 DEF Arrived
<1>4. ~AlreadySeen(j, Arrived(i, j)) => i # j
  BY <1>2 DEF AlreadySeen, SentOK, PathOK
<1> QED BY <1>1, <1>2, <1>3, <1>4

LEMMA DeliverMoves ==
  ASSUME TallyInv, NEW i \in Node, NEW j \in Node, Deliver(i, j), NEW e \in Node \X Node
  PROVE  /\ Carried(j, Arrived(i, j), e, Taken(i, j, e))
         /\ AlreadySeen(j, Arrived(i, j))
              => Len(chan'[e]) = Len(chan[e]) - Taken(i, j, e)
         /\ GarbageLocalOnly = {FALSE} /\ ~AlreadySeen(j, Arrived(i, j))
              /\ Arrived(i, j).kind = "info"
              /\ e[1] = j /\ e[2] \in remotes[j] \ {i} /\ up[e[2]]
              => /\ Len(chan[e]) + 1 \in 1..Len(chan'[e])
                 /\ chan'[e][Len(chan[e]) + 1] = Stamp(j, Arrived(i, j))
<1> DEFINE p == Arrived(i, j)
           h == Taken(i, j, e)
           s == chan[<<i, j>>]
           c == SendTo(j, remotes[j] \ {i}, <<p>>)
           rest == [chan EXCEPT ![<<i, j>>] = Tail(s)]
           forwarded == [c EXCEPT ![<<i, j>>] = Tail(s)]
<1>1. /\ GraphInv /\ Len(chan[e]) \in Nat
      /\ chan \in [Node \X Node -> Seq(Packet)] /\ c = [f \in Node \X Node |-> c[f]]
  BY ChannelFacts DEF TallyInv, GraphInv, GoodChan, SendTo
<1>2. /\ p \in Packet /\ s \in Seq(Packet) /\ 1 \in 1..Len(s)
      /\ ~AlreadySeen(j, p) => i # j
  BY ArrivedFacts
<1>3. /\ chan' = rest \/ (chan' = forwarded /\ ~AlreadySeen(j, p))
      /\ GarbageLocalOnly = {FALSE} /\ ~AlreadySeen(j, p) /\ p.kind = "info"
           => chan' = forwarded
  BY DEF Deliver, Listened, Arrived
<1>4. /\ Len(Tail(s)) = Len(s) - 1 /\ Len(s) \in Nat
      /\ \A k \in 1..(Len(s) - 1) : Tail(s)[k] = s[k + 1]
  BY <1>2
<1>5. /\ Moved(chan[e], c[e], 0)
      /\ \A k \in (Len(chan[e]) + 1)..Len(c[e]) :
           /\ k = Len(chan[e]) + 1 /\ c[e][k] = Stamp(j, p)
           /\ e[1] = j /\ e[2] \in remotes[j] \ {i}
      /\ e[1] = j /\ e[2] \in remotes[j] \ {i} /\ up[e[2]]
           => Len(chan[e]) + 1 \in 1..Len(c[e]) /\ c[e][Len(chan[e]) + 1] = Stamp(j, p)
  BY <1>1, <1>2, OneMoves
<1>6. CASE e = <<i, j>>
  <2>1. chan'[e] = Tail(s) /\ h = 1 /\ chan[e] = s
    BY <1>1, <1>3, <1>6 DEF Taken
  <2>2. ~(e[1] = j /\ e[2] \in remotes[j] \ {i})
    BY <1>6
  <2> HIDE DEF s, h, p
  <2>3. Moved(chan[e], chan'[e], h)
    BY <1>2, <1>4, <2>1 DEF Moved
  <2>4. Len(chan'[e]) = Len(chan[e]) - h
    BY <1>4, <2>1
  <2>5. Carried(j, p, e, h)
    <3>1. Len(chan'[e]) = Len(chan[e]) - 1 /\ Len(chan[e]) - 1 + 1 = Len(chan[e])
      BY <1>1, <2>1, <2>4
    <3>2. \A k \in Len(chan[e])..(Len(chan[e]) - 1) : FALSE
      BY <1>1
    <3> QED BY <2>1, <2>3, <3>1, <3>2 DEF Carried
  <2> QED BY <2>2, <2>4, <2>5 DEF h, p
<1>7. CASE e # <<i, j>>
  <2>1. h = 0 /\ (chan' = rest => chan'[e] = chan[e]) /\ (chan' = forwarded => chan'[e] = c[e])
    BY <1>1, <1>7 DEF Taken
  <2> HIDE DEF s, h, p, c, rest, forwarded
  <2>2. CASE chan'[e] = chan[e] /\ chan' = rest
    <3>1. Moved(chan[e], chan'[e], 0)
      BY <1>1, <2>2, NothingMoves DEF OnlyInfos
    <3>2. Carried(j, p, e, h) /\ Len(chan'[e]) = Len(chan[e]) - h
      BY <1>1, <2>1, <2>2, <3>1 DEF Carried
    <3>3. GarbageLocalOnly = {FALSE} /\ ~AlreadySeen(j, p) /\ p.kind = "info"
            => chan' = forwarded
      BY <1>3
    <3>4. ASSUME chan' = forwarded,  e[1] = j /\ e[2] \in remotes[j] \ {i} /\ up[e[2]]
          PROVE  /\ Len(chan[e]) + 1 \in 1..Len(chan'[e])
                 /\ chan'[e][Len(chan[e]) + 1] = Stamp(j, p)
      BY <1>5, <2>1, <3>4
    <3> QED BY <3>2, <3>3, <3>4 DEF h, p
  <2>3. CASE chan'[e] = c[e] /\ ~AlreadySeen(j, p)
    <3>1. Carried(j, p, e, h)
      BY <1>1, <1>5, <2>1, <2>3 DEF Carried
    <3> QED BY <1>5, <2>3, <3>1 DEF h, p
  <2> QED BY <1>3, <2>1, <2>2, <2>3
<1> QED BY <1>6, <1>7

-----------------------------------------------------------------------------
(* Whom a subscription reaches, when _local_only is always false. *)

(* A way through connections that have been there from the start and nodes *)
(* that still run.                                                         *)
Way(v) ==
  /\ v \in Seq(Node) /\ Simple(v)
  /\ \A q \in 1..(Len(v) - 1) : InitiallyLinked(v[q], v[q + 1])
  /\ \A q \in 1..Len(v) : up[v[q]]

(* Between nodes that still run these connections last. *)
StaysLinked ==
  \A x, y \in Node : InitiallyLinked(x, y) /\ up[x] /\ up[y] => y \in remotes[x]

(* The k-th packet of the q-th channel on the way v is an info of the      *)
(* node at its beginning, which came all the way and subscribes to t.      *)
InfoOn(v, q, k, t) ==
  /\ k \in 1..Len(chan[Hop(v, q)])
  /\ chan[Hop(v, q)][k].kind = "info"
  /\ Follows(chan[Hop(v, q)][k], v, q)
  /\ chan[Hop(v, q)][k].about = v[1]
  /\ chan[Hop(v, q)][k].info.topics[t] > 0

(* The node at the end of v has heard of a listener to t, or will. *)
ToldOn(v, t) ==
  \/ t \in keys[v[Len(v)]]
  \/ \E q \in 1..(Len(v) - 1) : \E k \in Nat : InfoOn(v, q, k, t)

Told ==
  \A v \in Seq(Node), t \in Topic :
    Way(v) /\ Len(v) > 1 /\ subs[v[1]][t] > 0 => ToldOn(v, t)

(* The inductive invariant. *)
RoutingInv == TallyInv /\ StaysLinked /\ Told

LEMMA WayFacts ==
  ASSUME NEW v, Way(v), NEW q \in 1..(Len(v) - 1)
  PROVE  /\ v[q] \in Node /\ v[q + 1] \in Node /\ Hop(v, q) \in Node \X Node
         /\ Len(v) \in Nat /\ q \in 1..Len(v) /\ q + 1 \in 1..Len(v)
         /\ v[q] # v[q + 1] /\ up[v[q]] /\ up[v[q + 1]]
         /\ InitiallyLinked(v[q], v[q + 1])
<1>1. v \in Seq(Node) /\ Len(v) \in Nat /\ q \in 1..Len(v) /\ q + 1 \in 1..Len(v) /\ q # q + 1
  BY DEF Way
<1>2. v[q] \in Node /\ v[q + 1] \in Node
  BY <1>1
<1> QED BY <1>1, <1>2 DEF Way, Simple, Hop

(* Nodes that run have been running. *)
LEMMA WayBefore ==
  ASSUME NEW v, Way(v)', \A x \in Node : up'[x] => up[x]
  PROVE  Way(v)
<1>1. v \in Seq(Node) /\ \A q \in 1..Len(v) : v[q] \in Node
  BY DEF Way
<1> QED BY <1>1 DEF Way

(* An info waits its turn. *)
LEMMA InfoWaits ==
  ASSUME NEW v, NEW q, NEW k, NEW t, InfoOn(v, q, k, t), NEW h \in Nat, k > h,
         Moved(chan[Hop(v, q)], chan'[Hop(v, q)], h), Len(chan[Hop(v, q)]) \in Nat
  PROVE  k - h \in Nat /\ InfoOn(v, q, k - h, t)'
<1> DEFINE e == Hop(v, q)
<1>1. /\ k \in 1..Len(chan[e]) /\ chan[e][k].kind = "info"
      /\ Follows(chan[e][k], v, q) /\ chan[e][k].about = v[1]
      /\ chan[e][k].info.topics[t] > 0
  BY DEF InfoOn
<1>2. Moved(chan[e], chan'[e], h) /\ Len(chan[e]) \in Nat
  OBVIOUS
<1> HIDE DEF e
<1>3. k - h \in Nat /\ k - h \in 1..Len(chan'[e]) /\ chan'[e][k - h] = chan[e][k]
  BY <1>1, <1>2, MovedTo
<1>4. /\ k - h \in 1..Len(chan'[e]) /\ chan'[e][k - h].kind = "info"
      /\ Follows(chan'[e][k - h], v, q) /\ chan'[e][k - h].about = v[1]
      /\ chan'[e][k - h].info.topics[t] > 0
  BY <1>1, <1>3
<1>5. InfoOn(v, q, k - h, t)'
  BY <1>4 DEF InfoOn, e, Follows, Hop
<1> QED BY <1>3, <1>5

(* No step makes a node forget whom it has heard of. *)
LEMMA KeysStay ==
  ASSUME TallyInv, [Next]_vars, NEW n \in Node
  PROVE  keys[n] \subseteq keys'[n]
<1>0. keys \in [Node -> SUBSET Topic]
  BY DEF TallyInv, Members
<1>1. CASE Other
  BY <1>1, OtherKeeps
<1>2. ASSUME NEW m \in Node, NEW t \in Topic, Publish(m, t) PROVE keys' = keys
  BY <1>2 DEF Publish
<1>3. ASSUME NEW i \in Node, NEW j \in Node, Deliver(i, j)
      PROVE  \/ keys' = keys
             \/ \E s, r \in SUBSET Topic : keys' = [keys EXCEPT ![j] = (@ \cup s) \cup r]
  <2>1. keys' = keys \/ Learn(j, Arrived(i, j))
    BY <1>3 DEF Deliver, Arrived
  <2>2. Learn(j, Arrived(i, j))
          => \/ keys' = keys
             \/ keys' = [keys EXCEPT ![j] = (@ \cup TopicsOf(latest[j][Arrived(i, j).about]))
                                               \cup TopicsOf(Arrived(i, j).info)]
    BY DEF Learn
  <2>3. \A info : TopicsOf(info) \in SUBSET Topic
    BY DEF TopicsOf
  <2> QED BY <2>1, <2>2, <2>3
<1> QED BY <1>0, <1>1, <1>2, <1>3, StepCases

(* The head of the q-th channel on the way moves to the next one, or its   *)
(* receiver is the last and hears of t.                                    *)
LEMMA InfoArrives ==
  ASSUME TallyInv, StaysLinked, GarbageLocalOnly = {FALSE},
         NEW v, NEW t \in Topic, Way(v), NEW q \in 1..(Len(v) - 1), InfoOn(v, q, 1, t),
         Deliver(v[q], v[q + 1])
  PROVE  ToldOn(v, t)'
<1> DEFINE i == v[q]
           j == v[q + 1]
           p == Arrived(i, j)
<1>1. /\ i \in Node /\ j \in Node /\ i # j /\ up[i] /\ up[j] /\ Len(v) \in Nat
      /\ v \in Seq(Node) /\ Hop(v, q) = <<i, j>>
  BY WayFacts DEF Way, Hop
<1>2. /\ p \in Packet /\ SentOK(i, p) /\ p.kind = "info" /\ Follows(p, v, q)
      /\ p.about = v[1] /\ p.info.topics[t] > 0
  <2>1. p \in Packet /\ SentOK(i, p) /\ p = chan[Hop(v, q)][1]
    BY <1>1, ArrivedFacts
  <2> QED BY <2>1 DEF InfoOn
<1>3. ~AlreadySeen(j, p)
  <2>1. p.id = i
    BY <1>2 DEF SentOK, PathOK
  <2>2. ASSUME NEW x \in 1..Len(p.path) PROVE p.path[x] # j
    <3>1. x \in 1..q /\ p.path[x] = v[x]
      BY <1>2, <2>2 DEF Follows
    <3>2. x \in 1..Len(v) /\ q + 1 \in 1..Len(v) /\ x # q + 1
      BY <1>1, <3>1
    <3> QED BY <3>1, <3>2 DEF Way, Simple
  <2> QED BY <1>1, <2>1, <2>2 DEF AlreadySeen
<1>4. CASE q + 1 = Len(v)
  <2>1. p.about # j
    <3>1. 1 \in 1..Len(v) /\ q + 1 \in 1..Len(v) /\ 1 # q + 1
      BY <1>1
    <3> QED BY <1>2, <3>1 DEF Way, Simple
  <2>2. Learn(j, p)
    BY <1>2, <1>3 DEF Deliver, Arrived
  <2>3. t \in TopicsOf(p.info)
    BY <1>2 DEF TopicsOf
  <2>4. keys' = [keys EXCEPT ![j] = (@ \cup TopicsOf(latest[j][p.about])) \cup TopicsOf(p.info)]
    BY <2>1, <2>2 DEF Learn
  <2> HIDE DEF p, i, j
  <2>5. t \in keys'[j]
    BY <1>1, <2>3, <2>4 DEF TallyInv, Members
  <2>6. j = v[Len(v)]
    BY <1>4 DEF j
  <2> QED BY <2>5, <2>6 DEF ToldOn
<1>5. CASE q + 1 # Len(v)
  <2> DEFINE l == v[q + 2]
             e == <<j, l>>
             r == q + 1
  <2>1. /\ r \in 1..(Len(v) - 1) /\ r + 1 = q + 2 /\ q + 2 \in 1..Len(v) /\ q \in 1..Len(v)
        /\ r \in Nat /\ r = q + 1
    BY <1>1, <1>5
  <2>2. l \in Node /\ up[l] /\ l # i /\ InitiallyLinked(j, l) /\ e = Hop(v, r) /\ e \in Node \X Node
    <3>1. /\ v[r + 1] \in Node /\ up[v[r + 1]] /\ InitiallyLinked(v[r], v[r + 1])
      BY <2>1, WayFacts
    <3>2. l # i
      BY <1>1, <2>1 DEF Way, Simple
    <3> QED BY <1>1, <2>1, <3>1, <3>2 DEF Hop
  <2>3. l \in remotes[j] \ {i}
    BY <1>1, <2>2 DEF StaysLinked
  <2>k. PICK k \in Nat : k = Len(chan[e]) + 1
    BY <2>2, ChannelFacts DEF TallyInv
  <2> HIDE DEF i, j, l, p
  <2>4. k \in 1..Len(chan'[e]) /\ chan'[e][k] = Stamp(j, p)
    <3>1. Deliver(i, j) /\ p = Arrived(i, j)
      BY DEF i, j, p
    <3>2. e[1] = j /\ e[2] = l
      OBVIOUS
    <3> HIDE DEF e
    <3> QED BY <1>1, <1>2, <1>3, <2>k, <2>2, <2>3, <3>1, <3>2, DeliverMoves
  <2>5. /\ Stamp(j, p).kind = "info" /\ Stamp(j, p).about = v[1]
        /\ Stamp(j, p).info.topics[t] > 0
    BY <1>1, <1>2, StampFacts
  <2>6. Follows(Stamp(j, p), v, r)
    <3>1. /\ Len(Stamp(j, p).path) = q + 1 /\ Stamp(j, p).path[q + 1] = j
          /\ \A x \in 1..q : Stamp(j, p).path[x] = v[x]
      BY <1>1, <1>2, StampFacts DEF Follows
    <3>2. ASSUME NEW x \in 1..r PROVE Stamp(j, p).path[x] = v[x]
      <4>1. x \in 1..q \/ x = q + 1
        BY <1>1
      <4> QED BY <3>1, <4>1 DEF j
    <3> QED BY <3>1, <3>2 DEF Follows
  <2> HIDE DEF r, e
  <2>7. InfoOn(v, r, k, t)'
    <3>1. /\ k \in 1..Len(chan'[e]) /\ chan'[e][k].kind = "info"
          /\ Follows(chan'[e][k], v, r) /\ chan'[e][k].about = v[1]
          /\ chan'[e][k].info.topics[t] > 0
      BY <2>4, <2>5, <2>6
    <3>2. e = <<v[r], v[r + 1]>>
      BY <2>2 DEF Hop
    <3> QED BY <3>1, <3>2 DEF InfoOn, Follows, Hop
  <2> QED BY <2>1, <2>7 DEF ToldOn
<1> QED BY <1>4, <1>5

(* Whoever has been told, or will be, stays so. *)
LEMMA ToldGoesOn ==
  ASSUME TallyInv, StaysLinked, GarbageLocalOnly = {FALSE}, [Next]_vars,
         NEW v, NEW t \in Topic, Way(v), Way(v)', Len(v) > 1, ToldOn(v, t)
  PROVE  ToldOn(v, t)'
<1>1. CASE t \in keys[v[Len(v)]]
  <2>1. v[Len(v)] \in Node
    BY DEF Way
  <2> QED BY <1>1, <2>1, KeysStay DEF ToldOn
<1>2. ASSUME NEW q \in 1..(Len(v) - 1), NEW k \in Nat, InfoOn(v, q, k, t)
      PROVE  ToldOn(v, t)'
  <2> DEFINE e == Hop(v, q)
  <2>1. /\ e \in Node \X Node /\ Len(chan[e]) \in Nat /\ k \in 1..Len(chan[e])
        /\ e = <<v[q], v[q + 1]>> /\ v[q] \in Node /\ v[q + 1] \in Node
    <3>1. e \in Node \X Node /\ v[q] \in Node /\ v[q + 1] \in Node
      BY WayFacts
    <3> QED BY <1>2, <3>1, ChannelFacts DEF TallyInv, InfoOn, Hop
  <2>2. up'[v[q]] /\ up'[v[q + 1]]
    <3>1. q \in 1..Len(v) /\ q + 1 \in 1..Len(v)
      BY WayFacts
    <3> QED BY <3>1 DEF Way
  <2>3. ASSUME NEW h \in Nat, k > h, Moved(chan[e], chan'[e], h)
        PROVE  ToldOn(v, t)'
    <3>1. k - h \in Nat /\ InfoOn(v, q, k - h, t)'
      BY <1>2, <2>1, <2>3, InfoWaits
    <3> QED BY <3>1 DEF ToldOn
  <2>4. CASE Other
    <3>1. Moved(chan[e], chan'[e], 0)
      BY <2>1, <2>2, <2>4, OtherMoves DEF OnlyInfos
    <3> QED BY <2>1, <2>3, <3>1
  <2>5. ASSUME NEW n \in Node, NEW u \in Topic, Publish(n, u) PROVE ToldOn(v, t)'
    <3>1. Moved(chan[e], chan'[e], 0)
      BY <2>1, <2>5, PublishMoves DEF Carried
    <3> QED BY <2>1, <2>3, <3>1
  <2>6. ASSUME NEW i \in Node, NEW j \in Node, Deliver(i, j) PROVE ToldOn(v, t)'
    <3>1. Moved(chan[e], chan'[e], Taken(i, j, e))
      BY <2>1, <2>6, DeliverMoves DEF Carried
    <3>2. CASE e = <<i, j>> /\ k = 1
      <4>1. i = v[q] /\ j = v[q + 1]
        BY <2>1, <3>2
      <4> QED BY <1>2, <2>6, <3>2, <4>1, InfoArrives
    <3>3. CASE ~(e = <<i, j>> /\ k = 1)
      <4>1. k > Taken(i, j, e) /\ Taken(i, j, e) \in Nat
        BY <2>1, <3>3 DEF Taken
      <4> QED BY <2>3, <3>1, <4>1
    <3> QED BY <3>2, <3>3
  <2> QED BY <2>4, <2>5, <2>6, StepCases
<1> QED BY <1>1, <1>2 DEF ToldOn

(* A connection that was there from the start is given up by nobody who    *)
(* runs while the other end runs.                                          *)
LEMMA StaysLinkedNext ==
  ASSUME TallyInv, StaysLinked, [Next]_vars
  PROVE  StaysLinked'
<1>0. remotes \in [Node -> SUBSET Node] /\ up \in [Node -> BOOLEAN]
  BY DEF TallyInv, Members
<1>1. ASSUME remotes' = remotes, \A x \in Node : up'[x] => up[x]
      PROVE  StaysLinked'
  BY <1>1 DEF StaysLinked, InitiallyLinked
<1>2. ASSUME NEW j \in Node, NEW i \in Node, up' = up,
             \/ remotes' = [remotes EXCEPT ![j] = @ \cup {i}]
             \/ remotes' = [remotes EXCEPT ![j] = @ \ {i}] /\ ~up[i]
      PROVE  StaysLinked'
  <2>1. ASSUME NEW x \in Node, NEW y \in Node, y \in remotes[x], up[y]
        PROVE  y \in remotes'[x]
    BY <1>0, <1>2, <2>1
  <2> QED BY <1>2, <2>1 DEF StaysLinked, InitiallyLinked
<1>3. ASSUME NEW n \in Node, NEW t \in Topic,
             Subscribe(n, t) \/ Unsubscribe(n, t) \/ Publish(n, t)
      PROVE  StaysLinked'
  BY <1>1, <1>3 DEF Subscribe, Unsubscribe, Publish
<1>4. ASSUME NEW n \in Node, Advertise(n) \/ Crash(n) PROVE StaysLinked'
  <2>1. remotes' = remotes /\ (up' = up \/ up' = [up EXCEPT ![n] = FALSE])
    BY <1>4 DEF Advertise, Crash
  <2> QED BY <1>0, <1>1, <2>1
<1>5. ASSUME NEW i \in Node, NEW j \in Node, Deliver(i, j) PROVE StaysLinked'
  BY <1>1, <1>5 DEF Deliver
<1>6. ASSUME NEW i \in Node, NEW j \in Node, Join(i, j) \/ Accept(i, j) PROVE StaysLinked'
  BY <1>2, <1>6 DEF Join, Accept
<1>7. ASSUME NEW i \in Node, NEW j \in Node, Disconnect(j, i) PROVE StaysLinked'
  BY <1>2, <1>7 DEF Disconnect
<1>8. CASE UNCHANGED vars
  BY <1>1, <1>8 DEF vars
<1> QED BY <1>3, <1>4, <1>5, <1>6, <1>7, <1>8 DEF Next

(* A subscription is made by Subscribe. *)
LEMMA NewSubscription ==
  ASSUME TallyInv, [Next]_vars, NEW n \in Node, NEW t \in Topic,
         subs'[n][t] > 0, ~(subs[n][t] > 0)
  PROVE  Subscribe(n, t)
<1>0. subs \in [Node -> [Topic -> Nat]]
  BY DEF TallyInv, GraphInv, SourceType
<1>1. ASSUME NEW m \in Node, NEW u \in Topic, Subscribe(m, u) PROVE n = m /\ t = u
  BY <1>0, <1>1 DEF Subscribe
<1>2. ASSUME NEW m \in Node, NEW u \in Topic, Unsubscribe(m, u) PROVE FALSE
  BY <1>0, <1>2 DEF Unsubscribe
<1>3. subs' # subs
  OBVIOUS
<1>4. ASSUME NEW m \in Node, NEW u \in Topic, Publish(m, u) PROVE FALSE
  BY <1>3, <1>4 DEF Publish
<1>5. ASSUME NEW m \in Node, Advertise(m) \/ Crash(m) PROVE FALSE
  BY <1>3, <1>5 DEF Advertise, Crash
<1>6. ASSUME NEW i \in Node, NEW j \in Node,
             Deliver(i, j) \/ Join(i, j) \/ Accept(j, i) \/ Disconnect(j, i)
      PROVE  FALSE
  BY <1>3, <1>6 DEF Deliver, Join, Accept, Disconnect
<1>7. ~UNCHANGED vars
  BY <1>3 DEF vars
<1> QED BY <1>1, <1>2, <1>4, <1>5, <1>6, <1>7 DEF Next

(* It is told at once to the next node on every way. *)
LEMMA SubscriberTells ==
  ASSUME TallyInv, StaysLinked, NEW v, NEW t \in Topic, Way(v), Len(v) > 1,
         Subscribe(v[1], t)
  PROVE  ToldOn(v, t)'
<1> DEFINE n == v[1]
           e == Hop(v, 1)
<1>1. /\ 1 \in 1..(Len(v) - 1) /\ n \in Node /\ v[2] \in Node /\ v[2] \in remotes[n] /\ up[v[2]]
      /\ e \in Node \X Node /\ e = <<n, v[2]>> /\ 1 + 1 = 2
  <2>1. 1 \in 1..(Len(v) - 1)
    BY DEF Way
  <2>2. /\ n \in Node /\ v[2] \in Node /\ e \in Node \X Node /\ up[n] /\ up[v[2]]
        /\ InitiallyLinked(n, v[2]) /\ e = <<n, v[2]>>
    BY <2>1, WayFacts DEF Hop
  <2> QED BY <2>1, <2>2 DEF StaysLinked
<1>2. PICK k \in Nat : k = Len(chan[e]) + 1
  BY <1>1, ChannelFacts DEF TallyInv
<1>3. PICK own \in [Topic -> Nat] : own = subs'[n] /\ own[t] > 0
  <2>1. subs \in [Node -> [Topic -> Nat]]
    BY DEF TallyInv, GraphInv, SourceType
  <2>2. subs' = [subs EXCEPT ![n][t] = @ + 1]
    BY DEF Subscribe
  <2>3. n \in Node
    BY <1>1
  <2> HIDE DEF n
  <2>4. subs'[n] = [subs[n] EXCEPT ![t] = @ + 1] /\ subs[n] \in [Topic -> Nat]
    BY <2>1, <2>2, <2>3
  <2>5. subs'[n] \in [Topic -> Nat] /\ subs'[n][t] = subs[n][t] + 1 /\ subs[n][t] \in Nat
    BY <2>4
  <2> QED BY <2>5
<1> DEFINE p == OwnInfo(n, own)
<1>4. k \in 1..Len(chan'[e]) /\ chan'[e][k] = Stamp(n, p)
  <2>1. GraphInv /\ latest[n] \in [Node -> Info]
    BY <1>1 DEF TallyInv, GraphInv, SourceType
  <2>2. chan' = SendTo(n, remotes[n], InfoPackets(n, own, latest[n], FALSE))
    BY <1>3 DEF Subscribe
  <2>3. e[1] = n /\ e[2] = v[2]
    BY <1>1
  <2> HIDE DEF e, n, p
  <2>4. /\ e[1] = n /\ e[2] \in remotes[n] /\ up[e[2]]
        /\ n \in Node /\ e \in Node \X Node
    BY <1>1, <2>3
  <2>5. Len(chan[e]) + 1 \in 1..Len(chan'[e]) /\ chan'[e][Len(chan[e]) + 1] = Stamp(n, OwnInfo(n, own))
    <3>1. PICK dead \in BOOLEAN : dead = FALSE
      OBVIOUS
    <3>2. chan' = SendTo(n, remotes[n], InfoPackets(n, own, latest[n], dead))
      BY <2>2, <3>1
    <3> QED BY <2>1, <2>4, <3>2, OwnInfoMoves
  <2> QED BY <1>2, <2>5 DEF p
<1>5. /\ p \in Packet /\ p.path = <<>> /\ p.kind = "info" /\ p.about = n
      /\ p.info.topics = own
  <2> HIDE DEF n
  <2> QED BY <1>1 DEF OwnInfo, InfoAbout, Packet, InfoPacket, Info
<1> HIDE DEF p, n
<1>6. /\ Stamp(n, p).kind = "info" /\ Stamp(n, p).about = n /\ Stamp(n, p).info = p.info
      /\ Follows(Stamp(n, p), v, 1)
  <2>1. /\ Stamp(n, p).kind = "info" /\ Stamp(n, p).about = n /\ Stamp(n, p).info = p.info
        /\ Len(Stamp(n, p).path) = Len(p.path) + 1
        /\ Stamp(n, p).path[Len(p.path) + 1] = n
    <3>1. n \in Node /\ p \in Packet /\ p.kind = "info" /\ p.about = n
      BY <1>1, <1>5
    <3> QED BY <3>1, StampFacts
  <2>2. Len(p.path) = 0
    BY <1>5
  <2> QED BY <2>1, <2>2 DEF Follows, n
<1> HIDE DEF e
<1>7. InfoOn(v, 1, k, t)'
  <2>1. /\ k \in 1..Len(chan'[e]) /\ chan'[e][k].kind = "info"
        /\ Follows(chan'[e][k], v, 1) /\ chan'[e][k].about = v[1]
        /\ chan'[e][k].info.topics[t] > 0
    BY <1>3, <1>4, <1>5, <1>6 DEF n
  <2>2. e = <<v[1], v[1 + 1]>>
    BY <1>1 DEF n
  <2> QED BY <2>1, <2>2 DEF InfoOn, Follows, Hop
<1> QED BY <1>1, <1>7 DEF ToldOn

-----------------------------------------------------------------------------
(* At first everyone has heard of everyone's subscriptions. *)
LEMMA RoutingInit == Init => RoutingInv
<1> SUFFICES ASSUME Init PROVE RoutingInv
  OBVIOUS
<1>1. TallyInv
  BY GraphInvInit, MembersInit, TallyInit DEF TallyInv
<1>2. StaysLinked
  BY DEF Init, StaysLinked
<1>3. ASSUME NEW v \in Seq(Node), NEW t \in Topic, Way(v), Len(v) > 1, subs[v[1]][t] > 0
      PROVE  t \in keys[v[Len(v)]]
  <2> DEFINE n == v[1]
             m == v[Len(v)]
             heard == {x \in InitiallyHeard(m) : <<x, t>> \in Subscribed}
  <2>1. /\ n \in Node /\ m \in Node /\ n # m /\ n \in InitialPeers /\ m \in InitialPeers
    <3>1. /\ 1 \in 1..(Len(v) - 1) /\ Len(v) - 1 \in 1..(Len(v) - 1)
          /\ Len(v) - 1 + 1 = Len(v) /\ 1 \in 1..Len(v) /\ Len(v) \in 1..Len(v)
      BY <1>3
    <3>2. n \in Node /\ v[1 + 1] \in Node /\ InitiallyLinked(n, v[1 + 1])
      BY <1>3, <3>1, WayFacts
    <3>3. m \in Node /\ v[Len(v) - 1] \in Node /\ InitiallyLinked(m, v[Len(v) - 1])
      <4>1. /\ v[Len(v) - 1] \in Node /\ v[Len(v) - 1 + 1] \in Node
            /\ InitiallyLinked(v[Len(v) - 1], v[Len(v) - 1 + 1])
        BY <1>3, <3>1, WayFacts
      <4> QED BY <3>1, <4>1 DEF InitiallyLinked
    <3>4. n # m
      BY <1>3, <3>1 DEF Way, Simple
    <3> HIDE DEF n, m
    <3> QED BY <3>2, <3>3, <3>4 DEF InitialPeers
  <2> HIDE DEF n, m
  <2>2. <<n, t>> \in Subscribed
    BY <1>3, <2>1 DEF Init, InitialSubs, n
  <2>3. n \in heard
    BY <2>1, <2>2 DEF InitiallyHeard
  <2>4. heard \in SUBSET Node
    BY DEF InitiallyHeard, InitialPeers
  <2>5. count[m][t] = Cardinality(heard)
    BY <2>1 DEF Init
  <2> HIDE DEF heard
  <2>6. Cardinality(heard) \in Nat /\ Cardinality(heard) # 0
    BY <2>3, <2>4, NodesFinite, FS_Subset, FS_CardinalityType, FS_EmptySet
  <2>7. t \in keys[m]
    BY <2>1, <2>5, <2>6 DEF Init
  <2> QED BY <2>7 DEF m
<1>4. Told
  BY <1>3 DEF Told, ToldOn
<1> QED BY <1>1, <1>2, <1>4 DEF RoutingInv

LEMMA RoutingNext ==
  ASSUME GarbageLocalOnly = {FALSE}
  PROVE  RoutingInv /\ [Next]_vars => RoutingInv'
<1> SUFFICES ASSUME RoutingInv, [Next]_vars PROVE RoutingInv'
  OBVIOUS
<1>1. TallyInv /\ StaysLinked /\ Told /\ TallyInv' /\ StaysLinked'
  BY TallyInvNext, StaysLinkedNext DEF RoutingInv
<1>2. \A x \in Node : up'[x] => up[x]
  <2>1. CASE Other
    BY <1>1, <2>1, OtherKeeps
  <2>2. ASSUME NEW n \in Node, NEW t \in Topic, Publish(n, t) PROVE up' = up
    BY <2>2 DEF Publish
  <2>3. ASSUME NEW i \in Node, NEW j \in Node, Deliver(i, j) PROVE up' = up
    BY <2>3 DEF Deliver
  <2> QED BY <2>1, <2>2, <2>3, StepCases
<1>3. ASSUME NEW v \in Seq(Node), NEW t \in Topic, Way(v)', Len(v) > 1, subs'[v[1]][t] > 0
      PROVE  ToldOn(v, t)'
  <2>1. Way(v)
    BY <1>2, <1>3, WayBefore
  <2>2. v[1] \in Node
    BY <1>3
  <2>3. CASE subs[v[1]][t] > 0
    <3>1. ToldOn(v, t)
      BY <1>1, <1>3, <2>1, <2>3 DEF Told
    <3> QED BY <1>1, <1>3, <2>1, <3>1, ToldGoesOn
  <2>4. CASE ~(subs[v[1]][t] > 0)
    <3>1. Subscribe(v[1], t)
      BY <1>1, <1>3, <2>2, <2>4, NewSubscription
    <3> QED BY <1>1, <1>3, <2>1, <3>1, SubscriberTells
  <2> QED BY <2>3, <2>4
<1>4. Told'
  BY <1>3 DEF Told
<1> QED BY <1>1, <1>4 DEF RoutingInv

THEOREM RoutingInvariant ==
  ASSUME GarbageLocalOnly = {FALSE}
  PROVE  Spec => []RoutingInv
<1>1. RoutingInv /\ [Next]_vars => RoutingInv'
  BY RoutingNext
<1> QED BY <1>1, RoutingInit, PTL DEF Spec

-----------------------------------------------------------------------------
(* When every packet has arrived, a node whose way to a subscriber has     *)
(* lasted from the start passes on what the subscriber listens to, whoever *)
(* else has joined, left or crashed.                                       *)
RoutedAlongWays ==
  Quiet => \A v \in Seq(Node), t \in Topic :
    Way(v) /\ Len(v) > 1 /\ subs[v[1]][t] > 0
      => Listened(v[Len(v)], [kind |-> "data", topic |-> t])

THEOREM RoutedFromStart ==
  ASSUME GarbageLocalOnly = {FALSE}
  PROVE  Spec => []RoutedAlongWays
<1>1. RoutingInv => RoutedAlongWays
  <2> SUFFICES ASSUME RoutingInv, Quiet, NEW v \in Seq(Node), NEW t \in Topic,
                      Way(v), Len(v) > 1, subs[v[1]][t] > 0
               PROVE  t \in keys[v[Len(v)]]
    BY DEF RoutedAlongWays, Listened
  <2>1. ASSUME NEW q \in 1..(Len(v) - 1), NEW k \in Nat, InfoOn(v, q, k, t) PROVE FALSE
    <3>1. Hop(v, q) \in Node \X Node /\ Hop(v, q)[2] = v[q + 1] /\ up[v[q + 1]]
      BY WayFacts DEF Hop
    <3>2. chan[Hop(v, q)] = <<>>
      BY <3>1 DEF Quiet
    <3>3. Len(chan[Hop(v, q)]) = 0
      BY <3>2
    <3> QED BY <2>1, <3>3 DEF InfoOn
  <2> QED BY <2>1 DEF RoutingInv, Told, ToldOn
<1>2. Spec => []RoutingInv
  BY RoutingInvariant
<1> QED BY <1>1, <1>2, PTL

-----------------------------------------------------------------------------
(* Connections there ever are. *)

Adjacent(x, y) == InitiallyLinked(x, y) \/ <<x, y>> \in Joinable \/ <<y, x>> \in Joinable

LinksAdjacent ==
  /\ \A x, y \in Node : y \in remotes[x] => Adjacent(x, y)
  /\ backlog \subseteq Joinable

LEMMA LinksAdjacentInit == Init => LinksAdjacent
BY DEF Init, LinksAdjacent, Adjacent

LEMMA LinksAdjacentNext ==
  ASSUME TallyInv, LinksAdjacent, [Next]_vars
  PROVE  LinksAdjacent'
<1>0. remotes \in [Node -> SUBSET Node]
  BY DEF TallyInv, Members
<1>1. ASSUME UNCHANGED <<remotes, backlog>> PROVE LinksAdjacent'
  BY <1>1 DEF LinksAdjacent, Adjacent, InitiallyLinked
<1>2. ASSUME NEW j \in Node, NEW i \in Node, backlog' \subseteq Joinable,
             \/ remotes' = [remotes EXCEPT ![j] = @ \cup {i}] /\ Adjacent(j, i)
             \/ remotes' = [remotes EXCEPT ![j] = @ \ {i}]
      PROVE  LinksAdjacent'
  <2>1. ASSUME NEW x \in Node, NEW y \in Node, y \in remotes'[x]
        PROVE  y \in remotes[x] \/ Adjacent(x, y)
    BY <1>0, <1>2, <2>1
  <2> QED BY <1>2, <2>1 DEF LinksAdjacent, Adjacent, InitiallyLinked
<1>3. ASSUME NEW n \in Node, NEW t \in Topic,
             Subscribe(n, t) \/ Unsubscribe(n, t) \/ Publish(n, t)
      PROVE  LinksAdjacent'
  BY <1>1, <1>3 DEF Subscribe, Unsubscribe, Publish
<1>4. ASSUME NEW n \in Node, Advertise(n) \/ Crash(n) PROVE LinksAdjacent'
  BY <1>1, <1>4 DEF Advertise, Crash
<1>5. ASSUME NEW i \in Node, NEW j \in Node, Deliver(i, j) PROVE LinksAdjacent'
  BY <1>1, <1>5 DEF Deliver
<1>6. ASSUME NEW i \in Node, NEW j \in Node, Join(i, j) PROVE LinksAdjacent'
  <2>1. <<i, j>> \in Joinable /\ backlog' = backlog \cup {<<i, j>>}
        /\ remotes' = [remotes EXCEPT ![i] = @ \cup {j}]
    BY <1>6 DEF Join
  <2> QED BY <1>2, <2>1 DEF LinksAdjacent, Adjacent
<1>7. ASSUME NEW i \in Node, NEW j \in Node, Accept(j, i) PROVE LinksAdjacent'
  <2>1. <<i, j>> \in backlog /\ backlog' = backlog \ {<<i, j>>}
        /\ remotes' = [remotes EXCEPT ![j] = @ \cup {i}]
    BY <1>7 DEF Accept
  <2> QED BY <1>2, <2>1 DEF LinksAdjacent, Adjacent
<1>8. ASSUME NEW i \in Node, NEW j \in Node, Disconnect(j, i) PROVE LinksAdjacent'
  <2>1. backlog' = backlog /\ remotes' = [remotes EXCEPT ![j] = @ \ {i}]
    BY <1>8 DEF Disconnect
  <2> QED BY <1>2, <2>1 DEF LinksAdjacent
<1>9. CASE UNCHANGED vars
  BY <1>1, <1>9 DEF vars
<1> QED BY <1>3, <1>4, <1>5, <1>6, <1>7, <1>8, <1>9 DEF Next

-----------------------------------------------------------------------------
(* With nobody joining, live connections make ways. *)

(* The nodes at the ends of ways from n. *)
ReachedFrom(n) == {m \in Node : \E v \in Seq(Node) : Way(v) /\ Len(v) > 0
                                                     /\ v[1] = n /\ v[Len(v)] = m}

LEMMA ReachedGrows ==
  ASSUME NEW n \in Node, NEW x \in ReachedFrom(n), NEW y \in Node,
         InitiallyLinked(x, y), up[y]
  PROVE  y \in ReachedFrom(n)
<1>1. PICK v \in Seq(Node) : Way(v) /\ Len(v) > 0 /\ v[1] = n /\ v[Len(v)] = x
  BY DEF ReachedFrom
<1>2. CASE \E k \in 1..Len(v) : v[k] = y
  <2>1. PICK k \in 1..Len(v) : v[k] = y
    BY <1>2
  <2> DEFINE w == SubSeq(v, 1, k)
  <2>2. /\ w \in Seq(Node) /\ Len(w) = k /\ k \in Nat /\ k > 0
        /\ \A q \in 1..k : w[q] = v[q] /\ q \in 1..Len(v)
    BY <1>1
  <2> HIDE DEF w
  <2>3. Way(w)
    <3>1. Simple(w)
      BY <1>1, <2>2 DEF Way, Simple
    <3>2. ASSUME NEW q \in 1..(Len(w) - 1) PROVE InitiallyLinked(w[q], w[q + 1])
      <4>1. q \in 1..k /\ q + 1 \in 1..k /\ q \in 1..(Len(v) - 1)
        BY <1>1, <2>2
      <4>2. w[q] = v[q] /\ w[q + 1] = v[q + 1] /\ InitiallyLinked(v[q], v[q + 1])
        BY <1>1, <2>2, <4>1 DEF Way
      <4> QED BY <4>2
    <3> QED BY <1>1, <2>2, <3>1, <3>2 DEF Way
  <2> QED BY <1>1, <2>1, <2>2, <2>3 DEF ReachedFrom
<1>3. CASE \A k \in 1..Len(v) : v[k] # y
  <2> DEFINE w == Append(v, y)
  <2>1. /\ w \in Seq(Node) /\ Len(w) = Len(v) + 1 /\ w[Len(v) + 1] = y /\ Len(v) \in Nat
        /\ \A q \in 1..Len(v) : w[q] = v[q]
    BY <1>1
  <2> HIDE DEF w
  <2>2. \A q \in 1..Len(w) : q \in 1..Len(v) \/ q = Len(v) + 1
    BY <2>1
  <2>3. Way(w)
    <3>1. Simple(w)
      <4> SUFFICES ASSUME NEW a \in 1..Len(w), NEW b \in 1..Len(w), w[a] = w[b] PROVE a = b
        BY DEF Simple
      <4>1. CASE a \in 1..Len(v) /\ b \in 1..Len(v)
        BY <1>1, <2>1, <4>1 DEF Way, Simple
      <4>2. CASE a \in 1..Len(v) /\ b = Len(v) + 1
        BY <1>3, <2>1, <4>2
      <4>3. CASE a = Len(v) + 1 /\ b \in 1..Len(v)
        BY <1>3, <2>1, <4>3
      <4> QED BY <2>2, <4>1, <4>2, <4>3
    <3>2. ASSUME NEW q \in 1..(Len(w) - 1) PROVE InitiallyLinked(w[q], w[q + 1])
      <4>1. q \in 1..Len(v) /\ (q = Len(v) \/ (q \in 1..(Len(v) - 1) /\ q + 1 \in 1..Len(v)))
        BY <2>1
      <4>2. CASE q = Len(v)
        BY <1>1, <2>1, <4>1, <4>2
      <4>3. CASE q \in 1..(Len(v) - 1) /\ q + 1 \in 1..Len(v)
        <5>1. w[q] = v[q] /\ w[q + 1] = v[q + 1] /\ InitiallyLinked(v[q], v[q + 1])
          BY <1>1, <2>1, <4>1, <4>3 DEF Way
        <5> QED BY <5>1
      <4> QED BY <4>1, <4>2, <4>3
    <3>3. \A q \in 1..Len(w) : up[w[q]]
      BY <1>1, <2>1, <2>2 DEF Way
    <3> QED BY <2>1, <3>1, <3>2, <3>3 DEF Way
  <2>4. Len(w) > 0 /\ w[1] = n /\ w[Len(w)] = y
    BY <1>1, <2>1
  <2> QED BY <2>1, <2>3, <2>4 DEF ReachedFrom
<1> QED BY <1>2, <1>3

LEMMA ReachesItself ==
  ASSUME NEW n \in Node, up[n]
  PROVE  n \in ReachedFrom(n)
<1> DEFINE v == <<n>>
<1>1. v \in Seq(Node) /\ Len(v) = 1 /\ v[1] = n /\ Len(v) > 0 /\ v[Len(v)] = n
  OBVIOUS
<1> HIDE DEF v
<1>2. Way(v)
  BY <1>1 DEF Way, Simple
<1> QED BY <1>1, <1>2 DEF ReachedFrom

LEMMA ConnectedReached ==
  ASSUME Joinable = {}, TallyInv, LinksAdjacent, NEW n \in Node, NEW m \in Node, n # m,
         Connected(n, m)
  PROVE  m \in ReachedFrom(n)
<1>1. \A x, y \in Node : LiveLink(x, y) => InitiallyLinked(x, y) /\ up[x] /\ up[y]
  BY DEF LiveLink, LinksAdjacent, Adjacent
<1>2. up[n]
  <2>1. CASE ~up[n]
    <3>1. {n} \in SUBSET Node /\ \A x \in {n}, y \in Node : LiveLink(x, y) => y \in {n}
      BY <2>1 DEF LiveLink
    <3>2. m \in {n}
      BY <3>1 DEF Connected
    <3> QED BY <3>2
  <2> QED BY <2>1
<1> DEFINE S == ReachedFrom(n)
<1>3. S \in SUBSET Node /\ n \in S
  BY <1>2, ReachesItself DEF ReachedFrom
<1>4. ASSUME NEW x \in S, NEW y \in Node, LiveLink(x, y) PROVE y \in S
  BY <1>1, <1>3, <1>4, ReachedGrows
<1> HIDE DEF S
<1>5. m \in S
  BY <1>3, <1>4 DEF Connected
<1> QED BY <1>5 DEF S

(* Once every packet has arrived, whatever a node subscribes to is sent on *)
(* by every node it is connected with: if no node joins later, and         *)
(* packet::_local_only, which nobody initialises, happens to be false.     *)
THEOREM SubscriptionsAreRouted ==
  ASSUME GarbageLocalOnly = {FALSE}, Joinable = {}
  PROVE  Spec => []SubscriptionsRouted
<1>1. Spec => []LinksAdjacent
  <2>1. TallyInv /\ LinksAdjacent /\ [Next]_vars => LinksAdjacent'
    BY LinksAdjacentNext
  <2> QED BY <2>1, LinksAdjacentInit, TallyInvariant, PTL DEF Spec
<1>2. TallyInv /\ LinksAdjacent /\ RoutedAlongWays => SubscriptionsRouted
  <2> SUFFICES ASSUME TallyInv, LinksAdjacent, RoutedAlongWays, Quiet,
                      NEW n \in Node, NEW m \in Node, NEW t \in Topic,
                      n # m, Connected(n, m), subs[n][t] > 0
               PROVE  Listened(m, [kind |-> "data", topic |-> t])
    BY DEF SubscriptionsRouted
  <2>1. PICK v \in Seq(Node) : Way(v) /\ Len(v) > 0 /\ v[1] = n /\ v[Len(v)] = m
    BY ConnectedReached DEF ReachedFrom
  <2>2. Len(v) > 1
    BY <2>1
  <2> QED BY <2>1, <2>2 DEF RoutedAlongWays
<1>3. Spec => []RoutedAlongWays
  BY RoutedFromStart
<1> QED BY <1>1, <1>2, <1>3, TallyInvariant, PTL

-----------------------------------------------------------------------------
(* In which order publications come, when the connections form a forest.   *)

(* A way through connections that there may ever be. *)
Route(v) ==
  /\ v \in Seq(Node) /\ Simple(v)
  /\ \A q \in 1..(Len(v) - 1) : Adjacent(v[q], v[q + 1])

(* From one node to another there is at most one. *)
Forest ==
  \A v, w \in Seq(Node) :
    Route(v) /\ Route(w) /\ Len(v) > 0 /\ Len(w) > 0
      /\ v[1] = w[1] /\ v[Len(v)] = w[Len(w)] => v = w

(* The k-th packet of the q-th channel on the way v was published at its   *)
(* beginning and came all the way.                                         *)
DataOn(v, q, k) ==
  /\ k \in 1..Len(chan[Hop(v, q)])
  /\ chan[Hop(v, q)][k].kind = "data"
  /\ Follows(chan[Hop(v, q)][k], v, q)

SeqOn(v, q, k) == chan[Hop(v, q)][k].seq

(* A publication has come through connections there may be. *)
TrailOK ==
  \A e \in Node \X Node : \A k \in 1..Len(chan[e]) :
    chan[e][k].kind = "data"
      => /\ Adjacent(e[1], e[2])
         /\ \A x \in 1..(Len(chan[e][k].path) - 1) :
              Adjacent(chan[e][k].path[x], chan[e][k].path[x + 1])

(* Whatever is on its way or was delivered has been published. *)
Newest ==
  /\ \A e \in Node \X Node : \A k \in 1..Len(chan[e]) :
       chan[e][k].kind = "data" => chan[e][k].seq < published
  /\ \A n \in Node : \A d \in 1..Len(delivered[n]) : delivered[n][d].seq < published

(* Publications that go the same way do not overtake each other. *)
RouteOrdered ==
  \A v \in Seq(Node) : \A q1, q2 \in 1..(Len(v) - 1) : \A k1, k2 \in Nat :
    DataOn(v, q1, k1) /\ DataOn(v, q2, k2) /\ (q1 < q2 \/ (q1 = q2 /\ k1 > k2))
      => SeqOn(v, q1, k1) > SeqOn(v, q2, k2)

(* What is still on its way to a node is newer than what it was given. *)
BehindOK ==
  \A v \in Seq(Node) : \A q \in 1..(Len(v) - 1) : \A k \in Nat :
    Route(v) /\ DataOn(v, q, k)
      => \A d \in 1..Len(delivered[v[Len(v)]]) :
           delivered[v[Len(v)]][d].origin = v[1]
             => delivered[v[Len(v)]][d].seq < SeqOn(v, q, k)

(* The inductive invariant. *)
OrderOK == TrailOK /\ Newest /\ RouteOrdered /\ BehindOK /\ DeliveredInOrder
OrderInv == TallyInv /\ LinksAdjacent /\ OrderOK

-----------------------------------------------------------------------------
(* A step takes hs[e] packets from each channel e, and of new publications *)
(* adds at most one, the packet p that n sends to peers.                   *)
Carries(n, p, hs) ==
  \A e \in Node \X Node :
    /\ Moved(chan[e], chan'[e], hs[e])
    /\ \A k \in (Len(chan[e]) - hs[e] + 1)..Len(chan'[e]) :
         chan'[e][k].kind = "data"
           => /\ k = Len(chan[e]) - hs[e] + 1 /\ chan'[e][k] = Stamp(n, p)
              /\ e[1] = n /\ e[2] \in remotes[n]

LEMMA OtherCarries ==
  ASSUME TallyInv, Other
  PROVE  \E hs \in [Node \X Node -> Nat] : \A n, p : Carries(n, p, hs)
<1> DEFINE hs == [e \in Node \X Node |->
                    CHOOSE h \in 0..Len(chan[e]) : OnlyInfos(chan[e], chan'[e], h)]
<1>1. ASSUME NEW e \in Node \X Node
      PROVE  hs[e] \in Nat /\ OnlyInfos(chan[e], chan'[e], hs[e])
  <2>1. \E h \in 0..Len(chan[e]) : OnlyInfos(chan[e], chan'[e], h)
    BY OtherMoves
  <2>2. hs[e] \in 0..Len(chan[e]) /\ OnlyInfos(chan[e], chan'[e], hs[e])
    BY <2>1
  <2>3. Len(chan[e]) \in Nat
    BY ChannelFacts DEF TallyInv
  <2> HIDE DEF hs
  <2> QED BY <2>2, <2>3
<1>2. hs = [e \in Node \X Node |-> hs[e]]
  OBVIOUS
<1> HIDE DEF hs
<1>3. hs \in [Node \X Node -> Nat]
  BY <1>1, <1>2
<1>4. ASSUME NEW n, NEW p PROVE Carries(n, p, hs)
  BY <1>1 DEF Carries, OnlyInfos
<1> QED BY <1>3, <1>4

LEMMA PublishCarries ==
  ASSUME TallyInv, NEW n \in Node, NEW t \in Topic, Publish(n, t)
  PROVE  Carries(n, Published(n, t), [e \in Node \X Node |-> 0])
<1> DEFINE hs == [e \in Node \X Node |-> 0]
           p == Published(n, t)
<1>1. \A e \in Node \X Node : Carried(n, p, e, hs[e])
  BY PublishMoves
<1> HIDE DEF hs, p
<1>2. Carries(n, p, hs)
  BY <1>1 DEF Carries, Carried
<1> QED BY <1>2 DEF hs, p

LEMMA DeliverCarries ==
  ASSUME TallyInv, NEW i \in Node, NEW j \in Node, Deliver(i, j)
  PROVE  Carries(j, Arrived(i, j), [e \in Node \X Node |-> Taken(i, j, e)])
<1> DEFINE hs == [e \in Node \X Node |-> Taken(i, j, e)]
           p == Arrived(i, j)
<1>1. \A e \in Node \X Node : Carried(j, p, e, hs[e])
  BY DeliverMoves
<1> HIDE DEF hs
<1>2. Carries(j, p, hs)
  <2> HIDE DEF p
  <2> QED BY <1>1 DEF Carries, Carried
<1> QED BY <1>2 DEF hs

(* The k-th packet of e afterwards was there before h others were taken ... *)
Stayed(e, k, h) ==
  /\ k + h \in 1..Len(chan[e]) /\ k + h \in Nat /\ k + h > h /\ k + h <= Len(chan[e])
  /\ chan'[e][k] = chan[e][k + h]

(* ... or it is p, which n has just sent. *)
Added(n, p, e, k, h) ==
  /\ k = Len(chan[e]) - h + 1 /\ chan'[e][k] = Stamp(n, p)
  /\ e[1] = n /\ e[2] \in remotes[n]

LEMMA StayedOrAdded ==
  ASSUME TallyInv, NEW n, NEW p, NEW hs \in [Node \X Node -> Nat],
         Carries(n, p, hs), NEW e \in Node \X Node, NEW k \in 1..Len(chan'[e]),
         chan'[e][k].kind = "data"
  PROVE  /\ hs[e] \in Nat /\ Len(chan[e]) \in Nat
         /\ Stayed(e, k, hs[e]) \/ Added(n, p, e, k, hs[e])
<1> DEFINE h == hs[e]
<1>1. Len(chan[e]) \in Nat /\ h \in Nat
  BY ChannelFacts DEF TallyInv
<1>2. /\ Moved(chan[e], chan'[e], h)
      /\ \A l \in (Len(chan[e]) - h + 1)..Len(chan'[e]) :
           chan'[e][l].kind = "data"
             => /\ l = Len(chan[e]) - h + 1 /\ chan'[e][l] = Stamp(n, p)
                /\ e[1] = n /\ e[2] \in remotes[n]
  BY DEF Carries
<1> HIDE DEF h
<1>3. h <= Len(chan[e]) /\ Len(chan'[e]) \in Nat
  BY <1>1, <1>2 DEF Moved
<1>4. CASE k <= Len(chan[e]) - h
  <2>1. /\ k \in 1..(Len(chan[e]) - h) /\ k + h \in 1..Len(chan[e]) /\ k + h > h
        /\ k + h \in Nat /\ k + h <= Len(chan[e])
    BY <1>1, <1>3, <1>4
  <2>2. chan'[e][k] = chan[e][k + h]
    BY <1>2, <2>1 DEF Moved
  <2>3. Stayed(e, k, h)
    BY <2>1, <2>2 DEF Stayed
  <2> QED BY <1>1, <2>3 DEF h
<1>5. CASE ~(k <= Len(chan[e]) - h)
  <2>1. k \in (Len(chan[e]) - h + 1)..Len(chan'[e])
    BY <1>1, <1>3, <1>5
  <2>2. Added(n, p, e, k, h)
    BY <1>2, <2>1 DEF Added
  <2> QED BY <1>1, <2>2 DEF h
<1> QED BY <1>4, <1>5

(* The same of a publication on the way v. *)
StayedOn(v, q, k, h) ==
  /\ k + h \in Nat /\ k + h > h /\ k + h <= Len(chan[Hop(v, q)])
  /\ DataOn(v, q, k + h)
  /\ SeqOn(v, q, k)' = SeqOn(v, q, k + h)

AddedOn(n, p, v, q, k, h) ==
  /\ k = Len(chan[Hop(v, q)]) - h + 1
  /\ Stamp(n, p).kind = "data" /\ Follows(Stamp(n, p), v, q) /\ v[q] = n
  /\ SeqOn(v, q, k)' = Stamp(n, p).seq

LEMMA StayedOrAddedOn ==
  ASSUME TallyInv, NEW n, NEW p, NEW hs \in [Node \X Node -> Nat],
         Carries(n, p, hs), NEW v \in Seq(Node), NEW q \in 1..(Len(v) - 1), NEW k \in Nat,
         DataOn(v, q, k)'
  PROVE  /\ hs[Hop(v, q)] \in Nat /\ Len(chan[Hop(v, q)]) \in Nat
         /\ StayedOn(v, q, k, hs[Hop(v, q)]) \/ AddedOn(n, p, v, q, k, hs[Hop(v, q)])
<1> DEFINE e == <<v[q], v[q + 1]>>
           h == hs[e]
<1>1. e \in Node \X Node /\ Hop(v, q) = e /\ e[1] = v[q]
  <2>1. v[q] \in Node /\ v[q + 1] \in Node
    OBVIOUS
  <2> QED BY <2>1 DEF Hop
<1>2. /\ k \in 1..Len(chan'[e]) /\ chan'[e][k].kind = "data"
      /\ Follows(chan'[e][k], v, q) /\ SeqOn(v, q, k)' = chan'[e][k].seq
  BY DEF DataOn, SeqOn, Hop, Follows
<1> HIDE DEF e
<1>3. /\ hs[e] \in Nat /\ Len(chan[e]) \in Nat
      /\ Stayed(e, k, hs[e]) \/ Added(n, p, e, k, hs[e])
  BY <1>1, <1>2, StayedOrAdded
<1>4. CASE Stayed(e, k, h)
  <2> HIDE DEF h
  <2>1. StayedOn(v, q, k, h)
    BY <1>1, <1>2, <1>4 DEF Stayed, StayedOn, DataOn, SeqOn
  <2> QED BY <1>1, <1>3, <2>1 DEF h
<1>5. CASE Added(n, p, e, k, h)
  <2> HIDE DEF h
  <2>1. AddedOn(n, p, v, q, k, h)
    BY <1>1, <1>2, <1>5 DEF Added, AddedOn
  <2> QED BY <1>1, <1>3, <2>1 DEF h
<1> QED BY <1>3, <1>4, <1>5

(* The packet that n sends is newer than those that follow it on every way *)
(* and older than those that precede it.                                   *)
InPlace(n, p, hs) ==
  \A v \in Seq(Node) : \A q, r \in 1..(Len(v) - 1) : \A k \in Nat :
    /\ Stamp(n, p).kind = "data" /\ Follows(Stamp(n, p), v, q) /\ v[q] = n
    /\ DataOn(v, r, k) /\ k > hs[Hop(v, r)]
    => IF r < q THEN SeqOn(v, r, k) > Stamp(n, p).seq ELSE SeqOn(v, r, k) < Stamp(n, p).seq

LEMMA OrderedNext ==
  ASSUME TallyInv, RouteOrdered, NEW n, NEW p, NEW hs \in [Node \X Node -> Nat],
         Carries(n, p, hs), InPlace(n, p, hs)
  PROVE  RouteOrdered'
<1> SUFFICES ASSUME NEW v \in Seq(Node), NEW q1 \in 1..(Len(v) - 1),
                    NEW q2 \in 1..(Len(v) - 1), NEW k1 \in Nat, NEW k2 \in Nat,
                    DataOn(v, q1, k1)', DataOn(v, q2, k2)', q1 < q2 \/ (q1 = q2 /\ k1 > k2)
             PROVE  SeqOn(v, q1, k1)' > SeqOn(v, q2, k2)'
  BY DEF RouteOrdered
<1> DEFINE h1 == hs[Hop(v, q1)]
           h2 == hs[Hop(v, q2)]
           c1 == Len(chan[Hop(v, q1)])
           c2 == Len(chan[Hop(v, q2)])
           s == Stamp(n, p)
<1>1. h1 \in Nat /\ c1 \in Nat /\ (StayedOn(v, q1, k1, h1) \/ AddedOn(n, p, v, q1, k1, h1))
  BY StayedOrAddedOn
<1>2. h2 \in Nat /\ c2 \in Nat /\ (StayedOn(v, q2, k2, h2) \/ AddedOn(n, p, v, q2, k2, h2))
  BY StayedOrAddedOn
<1>3. q1 = q2 => h1 = h2 /\ c1 = c2
  OBVIOUS
<1>4. /\ StayedOn(v, q1, k1, h1)
           => /\ k1 + h1 \in Nat /\ k1 + h1 > h1 /\ k1 + h1 <= c1 /\ DataOn(v, q1, k1 + h1)
              /\ SeqOn(v, q1, k1)' = SeqOn(v, q1, k1 + h1)
      /\ AddedOn(n, p, v, q1, k1, h1)
           => /\ k1 = c1 - h1 + 1 /\ s.kind = "data" /\ Follows(s, v, q1) /\ v[q1] = n
              /\ SeqOn(v, q1, k1)' = s.seq
  BY DEF StayedOn, AddedOn
<1>5. /\ StayedOn(v, q2, k2, h2)
           => /\ k2 + h2 \in Nat /\ k2 + h2 > h2 /\ k2 + h2 <= c2 /\ DataOn(v, q2, k2 + h2)
              /\ SeqOn(v, q2, k2)' = SeqOn(v, q2, k2 + h2)
      /\ AddedOn(n, p, v, q2, k2, h2)
           => /\ k2 = c2 - h2 + 1 /\ s.kind = "data" /\ Follows(s, v, q2) /\ v[q2] = n
              /\ SeqOn(v, q2, k2)' = s.seq
  BY DEF StayedOn, AddedOn
<1>6. CASE StayedOn(v, q1, k1, h1) /\ StayedOn(v, q2, k2, h2)
  <2>1. q1 < q2 \/ (q1 = q2 /\ k1 + h1 > k2 + h2)
    <3> HIDE DEF h1, h2, c1, c2
    <3> QED BY <1>1, <1>2, <1>3
  <2>2. SeqOn(v, q1, k1 + h1) > SeqOn(v, q2, k2 + h2)
    <3> HIDE DEF h1, h2, c1, c2
    <3> QED BY <1>4, <1>5, <1>6, <2>1 DEF RouteOrdered
  <2> QED BY <1>4, <1>5, <1>6, <2>2
<1>7. CASE StayedOn(v, q1, k1, h1) /\ AddedOn(n, p, v, q2, k2, h2)
  <2>1. q1 < q2
    <3> HIDE DEF h1, h2, c1, c2
    <3> QED BY <1>1, <1>2, <1>3, <1>4, <1>5, <1>7
  <2>2. SeqOn(v, q1, k1 + h1) > s.seq
    BY <1>4, <1>5, <1>7, <2>1 DEF InPlace
  <2> QED BY <1>4, <1>5, <1>7, <2>2
<1>8. CASE AddedOn(n, p, v, q1, k1, h1) /\ StayedOn(v, q2, k2, h2)
  <2>1. ~(q2 < q1)
    OBVIOUS
  <2>2. SeqOn(v, q2, k2 + h2) < s.seq
    BY <1>4, <1>5, <1>8, <2>1 DEF InPlace
  <2>3. SeqOn(v, q1, k1)' = s.seq /\ SeqOn(v, q2, k2)' = SeqOn(v, q2, k2 + h2)
    BY <1>4, <1>5, <1>8
  <2> QED BY <2>2, <2>3
<1>9. CASE AddedOn(n, p, v, q1, k1, h1) /\ AddedOn(n, p, v, q2, k2, h2)
  <2>1. q1 = q2
    BY <1>4, <1>5, <1>9 DEF Follows
  <2>2. k1 = k2
    BY <1>3, <1>4, <1>5, <1>9, <2>1
  <2> QED BY <2>1, <2>2
<1> QED BY <1>1, <1>2, <1>6, <1>7, <1>8, <1>9

(* What is sent goes where there may be a connection. *)
LEMMA TrailNext ==
  ASSUME TallyInv, LinksAdjacent, TrailOK,
         NEW n, NEW p, NEW hs \in [Node \X Node -> Nat], Carries(n, p, hs),
         Stamp(n, p).kind = "data"
           => \A x \in 1..(Len(Stamp(n, p).path) - 1) :
                Adjacent(Stamp(n, p).path[x], Stamp(n, p).path[x + 1])
  PROVE  TrailOK'
<1>1. ASSUME NEW e \in Node \X Node, NEW k \in 1..Len(chan'[e]), chan'[e][k].kind = "data"
      PROVE  /\ Adjacent(e[1], e[2])
             /\ \A x \in 1..(Len(chan'[e][k].path) - 1) :
                  Adjacent(chan'[e][k].path[x], chan'[e][k].path[x + 1])
  <2>1. CASE Stayed(e, k, hs[e])
    <3>1. k + hs[e] \in 1..Len(chan[e]) /\ chan'[e][k] = chan[e][k + hs[e]]
      BY <2>1 DEF Stayed
    <3> QED BY <1>1, <3>1 DEF TrailOK
  <2>2. CASE Added(n, p, e, k, hs[e])
    <3>1. chan'[e][k] = Stamp(n, p) /\ e[1] = n /\ e[2] \in remotes[n] /\ e[1] \in Node /\ e[2] \in Node
      BY <2>2 DEF Added
    <3>2. Adjacent(e[1], e[2])
      BY <3>1 DEF LinksAdjacent
    <3> QED BY <1>1, <3>1, <3>2
  <2> QED BY <1>1, <2>1, <2>2, StayedOrAdded
<1> QED BY <1>1 DEF TrailOK, Adjacent, InitiallyLinked

-----------------------------------------------------------------------------
(* The d-th packet that x was given is the one it was ... *)
KeptAt(x, d) ==
  d \in 1..Len(delivered[x]) /\ delivered'[x][d] = delivered[x][d]

(* ... or m, which n has just been given. *)
GivenAt(n, m, x, d) ==
  /\ delivered' # delivered
  /\ x = n /\ d = Len(delivered[x]) + 1 /\ delivered'[x][d] = m

Given(n, m) ==
  \/ delivered' = delivered
  \/ /\ n \in Node /\ m \in [origin : Node, seq : Nat]
     /\ delivered' = [delivered EXCEPT ![n] = Append(@, m)]

LEMMA KeptOrGiven ==
  ASSUME TallyInv, NEW n, NEW m, Given(n, m), NEW x \in Node, NEW d \in 1..Len(delivered'[x])
  PROVE  /\ Len(delivered[x]) \in Nat
         /\ KeptAt(x, d) \/ GivenAt(n, m, x, d)
<1> DEFINE R == [origin : Node, seq : Nat]
           s == delivered[x]
<1>1. delivered \in [Node -> Seq(R)]
  BY DEF TallyInv, GraphInv, SourceType
<1>2. m \in R \/ delivered' = delivered
  BY DEF Given
<1> HIDE DEF R
<1>3. s \in Seq(R) /\ Len(s) \in Nat
  BY <1>1
<1>4. delivered'[x] = s \/ (x = n /\ m \in R /\ delivered'[x] = Append(s, m))
  BY <1>1, <1>2 DEF Given
<1> HIDE DEF s
<1>5. CASE delivered'[x] = s
  BY <1>3, <1>5 DEF KeptAt, s
<1>6. CASE x = n /\ m \in R /\ delivered'[x] = Append(s, m) /\ delivered'[x] # s
  <2>1. /\ Len(Append(s, m)) = Len(s) + 1 /\ Append(s, m)[Len(s) + 1] = m
        /\ \A k \in 1..Len(s) : Append(s, m)[k] = s[k]
    BY <1>3, <1>6
  <2>2. CASE d \in 1..Len(s)
    BY <1>3, <1>6, <2>1, <2>2 DEF KeptAt, s
  <2>3. CASE d = Len(s) + 1
    <3>1. delivered' # delivered
      BY <1>6 DEF s
    <3> QED BY <1>3, <1>6, <2>1, <2>3, <3>1 DEF GivenAt, s
  <2> QED BY <1>3, <1>6, <2>1, <2>2, <2>3
<1> QED BY <1>4, <1>5, <1>6

(* A step of the numbers. *)
LEMMA NewestNext ==
  ASSUME TallyInv, Newest,
         NEW n, NEW p, NEW hs \in [Node \X Node -> Nat], Carries(n, p, hs),
         NEW m, Given(n, m), published' \in Nat, published <= published',
         Stamp(n, p).kind = "data" => Stamp(n, p).seq < published',
         delivered' # delivered => m.seq < published'
  PROVE  Newest'
<1>0. published \in Nat
  BY DEF TallyInv, GraphInv, SourceType
<1>1. ASSUME NEW e \in Node \X Node, NEW k \in 1..Len(chan'[e]), chan'[e][k].kind = "data"
      PROVE  chan'[e][k].seq < published'
  <2>1. CASE Stayed(e, k, hs[e])
    <3>1. k + hs[e] \in 1..Len(chan[e]) /\ chan'[e][k] = chan[e][k + hs[e]]
      BY <2>1 DEF Stayed
    <3>2. chan'[e][k].seq < published /\ chan'[e][k] \in Packet
      BY <1>1, <3>1, ChannelFacts DEF Newest, TallyInv
    <3>3. chan'[e][k].seq \in Nat
      BY <1>1, <3>2, PacketFacts
    <3> QED BY <1>0, <3>2, <3>3
  <2>2. CASE Added(n, p, e, k, hs[e])
    BY <1>1, <2>2 DEF Added
  <2> QED BY <1>1, <2>1, <2>2, StayedOrAdded
<1>2. ASSUME NEW x \in Node, NEW d \in 1..Len(delivered'[x])
      PROVE  delivered'[x][d].seq < published'
  <2>1. CASE KeptAt(x, d)
    <3>1. d \in 1..Len(delivered[x]) /\ delivered'[x][d] = delivered[x][d]
      BY <2>1 DEF KeptAt
    <3>2. delivered'[x][d].seq < published /\ delivered'[x][d].seq \in Nat
      <4> DEFINE R == [origin : Node, seq : Nat]
      <4>1. delivered[x] \in Seq(R)
        BY DEF TallyInv, GraphInv, SourceType
      <4>2. delivered[x][d] \in R
        <5> HIDE DEF R
        <5> QED BY <3>1, <4>1
      <4> QED BY <3>1, <4>2 DEF Newest
    <3> QED BY <1>0, <3>2
  <2>2. CASE GivenAt(n, m, x, d)
    BY <2>2 DEF GivenAt
  <2> QED BY <2>1, <2>2, KeptOrGiven
<1> QED BY <1>1, <1>2 DEF Newest

(* A step behind which nothing older comes: neither than what was given    *)
(* before, nor than what is given now.                                     *)
NothingOlder(n, p, hs, m) ==
  /\ \A v \in Seq(Node) : \A q \in 1..(Len(v) - 1) :
       Route(v) /\ Stamp(n, p).kind = "data" /\ Follows(Stamp(n, p), v, q) /\ v[q] = n
         => \A d \in 1..Len(delivered[v[Len(v)]]) :
              delivered[v[Len(v)]][d].origin = v[1]
                => delivered[v[Len(v)]][d].seq < Stamp(n, p).seq
  /\ \A v \in Seq(Node) : \A q \in 1..(Len(v) - 1) : \A k \in Nat :
       Route(v) /\ delivered' # delivered /\ v[Len(v)] = n /\ v[1] = m.origin
         /\ DataOn(v, q, k) /\ k > hs[Hop(v, q)]
         => m.seq < SeqOn(v, q, k)

LEMMA BehindNext ==
  ASSUME TallyInv, BehindOK,
         NEW n, NEW p, NEW hs \in [Node \X Node -> Nat], Carries(n, p, hs),
         NEW m, Given(n, m), NothingOlder(n, p, hs, m)
  PROVE  BehindOK'
<1>1. ASSUME NEW v \in Seq(Node), NEW q \in 1..(Len(v) - 1), NEW k \in Nat,
             Route(v), DataOn(v, q, k)', NEW d \in 1..Len(delivered'[v[Len(v)]]),
             delivered'[v[Len(v)]][d].origin = v[1]
      PROVE  delivered'[v[Len(v)]][d].seq < SeqOn(v, q, k)'
  <2> DEFINE h == hs[Hop(v, q)]
             x == v[Len(v)]
  <2>0. Len(v) \in Nat /\ q \in 1..Len(v) /\ Len(v) \in 1..Len(v) /\ q # Len(v) /\ x \in Node
    OBVIOUS
  <2>1. h \in Nat /\ (StayedOn(v, q, k, h) \/ AddedOn(n, p, v, q, k, h))
    BY <1>1, StayedOrAddedOn
  <2>2. KeptAt(x, d) \/ GivenAt(n, m, x, d)
    BY <1>1, <2>0, KeptOrGiven
  <2>3. ASSUME KeptAt(x, d)
        PROVE  /\ d \in 1..Len(delivered[x]) /\ delivered'[x][d] = delivered[x][d]
               /\ delivered[x][d].origin = v[1]
    BY <1>1, <2>3 DEF KeptAt
  <2>4. ASSUME GivenAt(n, m, x, d)
        PROVE  delivered' # delivered /\ v[Len(v)] = n /\ delivered'[x][d] = m /\ v[1] = m.origin
    BY <1>1, <2>4 DEF GivenAt
  <2>5. ASSUME StayedOn(v, q, k, h)
        PROVE  /\ k + h \in Nat /\ k + h > h /\ DataOn(v, q, k + h)
               /\ SeqOn(v, q, k)' = SeqOn(v, q, k + h)
    BY <2>5 DEF StayedOn
  <2>6. ASSUME AddedOn(n, p, v, q, k, h)
        PROVE  /\ Stamp(n, p).kind = "data" /\ Follows(Stamp(n, p), v, q) /\ v[q] = n
               /\ SeqOn(v, q, k)' = Stamp(n, p).seq
    BY <2>6 DEF AddedOn
  <2>7. CASE StayedOn(v, q, k, h) /\ KeptAt(x, d)
    <3>1. delivered[x][d].seq < SeqOn(v, q, k + h)
      <4> HIDE DEF h
      <4> QED BY <1>1, <2>3, <2>5, <2>7 DEF BehindOK
    <3> QED BY <2>3, <2>5, <2>7, <3>1
  <2>8. CASE StayedOn(v, q, k, h) /\ GivenAt(n, m, x, d)
    <3>1. m.seq < SeqOn(v, q, k + h)
      BY <1>1, <2>4, <2>5, <2>8 DEF NothingOlder
    <3> QED BY <2>4, <2>5, <2>8, <3>1
  <2>9. CASE AddedOn(n, p, v, q, k, h) /\ KeptAt(x, d)
    <3>1. delivered[x][d].seq < Stamp(n, p).seq
      BY <1>1, <2>3, <2>6, <2>9 DEF NothingOlder
    <3> QED BY <2>3, <2>6, <2>9, <3>1
  <2>10. CASE AddedOn(n, p, v, q, k, h) /\ GivenAt(n, m, x, d)
    <3>1. v[q] = v[Len(v)]
      BY <2>4, <2>6, <2>10
    <3> QED BY <1>1, <2>0, <3>1 DEF Route, Simple
  <2> QED BY <2>1, <2>2, <2>7, <2>8, <2>9, <2>10
<1> QED BY <1>1 DEF BehindOK, Route, Adjacent, InitiallyLinked, Simple

LEMMA InOrderNext ==
  ASSUME TallyInv, DeliveredInOrder, NEW n, NEW m, Given(n, m),
         delivered' # delivered
           => \A d \in 1..Len(delivered[n]) :
                delivered[n][d].origin = m.origin => delivered[n][d].seq < m.seq
  PROVE  DeliveredInOrder'
<1> SUFFICES ASSUME NEW x \in Node, NEW j \in 1..Len(delivered'[x]),
                    NEW k \in 1..Len(delivered'[x]), j < k,
                    delivered'[x][j].origin = delivered'[x][k].origin
             PROVE  delivered'[x][j].seq < delivered'[x][k].seq
  BY DEF DeliveredInOrder
<1>1. /\ Len(delivered[x]) \in Nat
      /\ KeptAt(x, j) \/ GivenAt(n, m, x, j)
      /\ KeptAt(x, k) \/ GivenAt(n, m, x, k)
  BY KeptOrGiven
<1>2. CASE KeptAt(x, j) /\ KeptAt(x, k)
  BY <1>2 DEF KeptAt, DeliveredInOrder
<1>3. CASE KeptAt(x, j) /\ GivenAt(n, m, x, k)
  BY <1>3 DEF KeptAt, GivenAt
<1>4. CASE GivenAt(n, m, x, j)
  <2>1. k <= Len(delivered[x]) + 1 /\ j = Len(delivered[x]) + 1
    BY <1>1, <1>4 DEF KeptAt, GivenAt
  <2> QED BY <1>1, <2>1
<1> QED BY <1>1, <1>2, <1>3, <1>4

-----------------------------------------------------------------------------
(* The invariant holds at first ... *)
LEMMA OrderInit == Init => OrderOK
<1> SUFFICES ASSUME Init PROVE OrderOK
  OBVIOUS
<1>1. \A e \in Node \X Node : chan[e] = <<>>
  BY DEF Init
<1>2. \A e \in Node \X Node : \A k \in 1..Len(chan[e]) : FALSE
  BY <1>1
<1>3. \A n \in Node : delivered[n] = <<>>
  BY DEF Init
<1>4. \A n \in Node : \A d \in 1..Len(delivered[n]) : FALSE
  BY <1>3
<1>5. \A v \in Seq(Node) : \A q \in 1..(Len(v) - 1) : \A k \in Nat : ~DataOn(v, q, k)
  <2> SUFFICES ASSUME NEW v \in Seq(Node), NEW q \in 1..(Len(v) - 1), NEW k \in Nat,
                      DataOn(v, q, k)
               PROVE  FALSE
    OBVIOUS
  <2>1. Hop(v, q) \in Node \X Node
    <3>1. v[q] \in Node /\ v[q + 1] \in Node
      OBVIOUS
    <3> QED BY <3>1 DEF Hop
  <2> QED BY <1>2, <2>1 DEF DataOn
<1>6. TrailOK
  BY <1>2 DEF TrailOK
<1>7. Newest
  BY <1>2, <1>4 DEF Newest
<1>8. RouteOrdered /\ BehindOK
  BY <1>5 DEF RouteOrdered, BehindOK
<1>9. DeliveredInOrder
  BY <1>4 DEF DeliveredInOrder
<1> QED BY <1>6, <1>7, <1>8, <1>9 DEF OrderOK

(* ... and is kept by a step that sends no publication on, *)
Nobody  == CHOOSE n : n \notin Node
Silence == [kind |-> "info", path |-> <<>>, id |-> 0]

LEMMA OrderQuiet ==
  ASSUME TallyInv, LinksAdjacent, OrderOK, NEW hs \in [Node \X Node -> Nat],
         Carries(Nobody, Silence, hs), delivered' = delivered, published' = published
  PROVE  OrderOK'
<1>0. published \in Nat
  BY DEF TallyInv, GraphInv, SourceType
<1> TrailOK /\ Newest /\ RouteOrdered /\ BehindOK /\ DeliveredInOrder
  BY DEF OrderOK
<1>1. Stamp(Nobody, Silence).kind = "info"
  BY DEF Stamp, Silence
<1>2. Given(Nobody, Nobody)
  BY DEF Given
<1>3. TrailOK'
  BY <1>1, TrailNext
<1>4. Newest'
  BY <1>0, <1>1, <1>2, NewestNext
<1>5. RouteOrdered'
  <2>1. InPlace(Nobody, Silence, hs)
    BY <1>1 DEF InPlace
  <2> QED BY <2>1, OrderedNext
<1>6. BehindOK'
  <2>1. NothingOlder(Nobody, Silence, hs, Nobody)
    BY <1>1 DEF NothingOlder
  <2> QED BY <1>2, <2>1, BehindNext
<1>7. DeliveredInOrder'
  BY <1>2, InOrderNext
<1> QED BY <1>3, <1>4, <1>5, <1>6, <1>7 DEF OrderOK

(* What is on a way is on its way. *)
LEMMA OnIsNewest ==
  ASSUME TallyInv, Newest, NEW v \in Seq(Node), NEW q \in 1..(Len(v) - 1), NEW k \in Nat,
         DataOn(v, q, k)
  PROVE  SeqOn(v, q, k) < published
<1>1. Hop(v, q) \in Node \X Node
  <2>1. v[q] \in Node /\ v[q + 1] \in Node
    OBVIOUS
  <2> QED BY <2>1 DEF Hop
<1> QED BY <1>1 DEF DataOn, SeqOn, Newest

(* by Publish, whose packet is the newest of all, *)
LEMMA OrderPublish ==
  ASSUME TallyInv, LinksAdjacent, OrderOK, NEW n \in Node, NEW t \in Topic, Publish(n, t)
  PROVE  OrderOK'
<1> DEFINE p == Published(n, t)
           m == [origin |-> n, seq |-> published]
           hs == [e \in Node \X Node |-> 0]
<1>0. /\ published \in Nat /\ published' = published + 1 /\ Hand(n, p)
      /\ delivered \in [Node -> Seq([origin : Node, seq : Nat])]
  BY DEF Publish, Published, TallyInv, GraphInv, SourceType
<1>1. hs \in [Node \X Node -> Nat] /\ Carries(n, p, hs)
  BY PublishCarries
<1>2. p \in Packet /\ p.kind = "data" /\ p.path = <<>> /\ p.seq = published
  BY <1>0 DEF Published, Packet, DataPacket
<1>3. m.origin = n /\ m.seq = published /\ Given(n, m)
  <2>1. m \in [origin : Node, seq : Nat]
    BY <1>0
  <2>2. delivered' = delivered \/ delivered' = [delivered EXCEPT ![n] = Append(@, m)]
    BY <1>0 DEF Hand, Published
  <2> QED BY <2>1, <2>2 DEF Given
<1> HIDE DEF p, m, hs
<1>4. /\ Stamp(n, p).seq = published /\ Len(Stamp(n, p).path) = 1
  <2>1. Len(p.path) = 0
    BY <1>2
  <2>2. p \in Packet /\ p.kind = "data"
    BY <1>2
  <2>3. Stamp(n, p).seq = p.seq /\ Len(Stamp(n, p).path) = Len(p.path) + 1
    BY <2>2, StampFacts
  <2> QED BY <1>2, <2>1, <2>3
<1>5. OrderOK
  OBVIOUS
<1>6. TrailOK'
  <2>1. \A x \in 1..(Len(Stamp(n, p).path) - 1) :
          Adjacent(Stamp(n, p).path[x], Stamp(n, p).path[x + 1])
    BY <1>4
  <2> QED BY <1>1, <1>5, <2>1, TrailNext DEF OrderOK
<1>7. Newest'
  <2>1. published' \in Nat /\ published <= published' /\ published < published'
    BY <1>0
  <2> QED BY <1>1, <1>3, <1>4, <2>1, NewestNext DEF OrderOK
<1>8. RouteOrdered'
  <2>1. InPlace(n, p, hs)
    <3> SUFFICES ASSUME NEW v \in Seq(Node), NEW q \in 1..(Len(v) - 1),
                        NEW r \in 1..(Len(v) - 1), NEW k \in Nat,
                        Follows(Stamp(n, p), v, q), DataOn(v, r, k)
                 PROVE  ~(r < q) /\ SeqOn(v, r, k) < Stamp(n, p).seq
      BY DEF InPlace
    <3>1. q = 1
      BY <1>4 DEF Follows
    <3> QED BY <1>4, <3>1, OnIsNewest DEF OrderOK
  <2> QED BY <1>1, <2>1, OrderedNext DEF OrderOK
<1>9. BehindOK'
  <2>1. ASSUME NEW v \in Seq(Node), NEW q \in 1..(Len(v) - 1)
        PROVE  v[Len(v)] \in Node /\ Len(v) \in 1..Len(v) /\ 1 \in 1..Len(v) /\ 1 # Len(v)
    OBVIOUS
  <2>2. ASSUME NEW x \in Node, NEW d \in 1..Len(delivered[x])
        PROVE  delivered[x][d].seq < Stamp(n, p).seq
    BY <1>4 DEF OrderOK, Newest
  <2>3. ASSUME NEW v \in Seq(Node), NEW q \in 1..(Len(v) - 1), Route(v), v[Len(v)] = n, v[1] = n
        PROVE  FALSE
    BY <2>1, <2>3 DEF Route, Simple
  <2>4. NothingOlder(n, p, hs, m)
    BY <1>3, <2>1, <2>2, <2>3 DEF NothingOlder
  <2> QED BY <1>1, <1>3, <2>4, BehindNext DEF OrderOK
<1>10. DeliveredInOrder'
  <2>1. \A d \in 1..Len(delivered[n]) : delivered[n][d].seq < m.seq
    BY <1>3 DEF OrderOK, Newest
  <2> QED BY <1>3, <2>1, InOrderNext DEF OrderOK
<1> QED BY <1>6, <1>7, <1>8, <1>9, <1>10 DEF OrderOK

(* by Deliver when it keeps a publication or passes an info on, *)
LEMMA OrderDeliverQuiet ==
  ASSUME TallyInv, LinksAdjacent, OrderOK, NEW i \in Node, NEW j \in Node, Deliver(i, j),
         AlreadySeen(j, Arrived(i, j)) \/ Arrived(i, j).kind = "info"
  PROVE  OrderOK'
<1> DEFINE p == Arrived(i, j)
           hs == [e \in Node \X Node |-> Taken(i, j, e)]
<1>1. delivered' = delivered /\ published' = published
  BY DEF Deliver, Arrived
<1>2. hs \in [Node \X Node -> Nat] /\ Carries(j, p, hs)
  BY DeliverCarries DEF Taken
<1>3. Carries(Nobody, Silence, hs)
  <2>1. ASSUME NEW e \in Node \X Node, NEW k \in (Len(chan[e]) - hs[e] + 1)..Len(chan'[e])
        PROVE  chan'[e][k].kind # "data"
    <3>1. CASE p.kind = "info"
      <4>1. p \in Packet /\ p.kind = "info"
        BY <3>1, ArrivedFacts
      <4> HIDE DEF p, hs
      <4>2. Stamp(j, p).kind = "info"
        BY <4>1, StampFacts
      <4> QED BY <1>2, <2>1, <4>2 DEF Carries
    <3>2. CASE AlreadySeen(j, p)
      <4>1. Len(chan'[e]) = Len(chan[e]) - hs[e]
        BY <3>2, DeliverMoves
      <4>2. Len(chan[e]) \in Nat /\ hs[e] \in Nat
        BY <1>2, ChannelFacts DEF TallyInv
      <4> HIDE DEF hs
      <4> QED BY <2>1, <4>1, <4>2
    <3> QED BY <3>1, <3>2
  <2> HIDE DEF p, hs
  <2> QED BY <1>2, <2>1 DEF Carries
<1> HIDE DEF hs
<1> QED BY <1>1, <1>2, <1>3, OrderQuiet

(* and by Deliver when it passes a publication on: that was the oldest on  *)
(* the last channel of every way it came.                                  *)
LEMMA HeadOn ==
  ASSUME TallyInv, NEW i \in Node, NEW j \in Node, Deliver(i, j),
         NEW p, p = Arrived(i, j), p.kind = "data",
         NEW v \in Seq(Node), NEW q \in 1..Len(v), Follows(Stamp(j, p), v, q)
  PROVE  /\ q - 1 \in 1..(Len(v) - 1) /\ Hop(v, q - 1) = <<i, j>>
         /\ DataOn(v, q - 1, 1) /\ SeqOn(v, q - 1, 1) = Stamp(j, p).seq
<1>1. /\ p \in Packet /\ SentOK(i, p) /\ chan[<<i, j>>] \in Seq(Packet)
      /\ 1 \in 1..Len(chan[<<i, j>>]) /\ p = chan[<<i, j>>][1]
  BY ArrivedFacts
<1>2. /\ p.path \in Seq(Node) /\ p.path # <<>> /\ p.path[Len(p.path)] = i
  BY <1>1, PacketFacts DEF SentOK, PathOK
<1>3. PICK l \in Nat : l = Len(p.path) /\ l > 0 /\ p.path[l] = i
  BY <1>2
<1>4. /\ Len(Stamp(j, p).path) = l + 1 /\ Stamp(j, p).path[l + 1] = j
      /\ \A x \in 1..l : Stamp(j, p).path[x] = p.path[x]
      /\ Stamp(j, p).seq = p.seq
  <2>1. p \in Packet /\ p.kind = "data"
    BY <1>1
  <2>2. /\ Len(Stamp(j, p).path) = Len(p.path) + 1
        /\ Stamp(j, p).path[Len(p.path) + 1] = j
        /\ \A x \in 1..Len(p.path) : Stamp(j, p).path[x] = p.path[x]
        /\ Stamp(j, p).seq = p.seq
    BY <2>1, StampFacts
  <2> QED BY <1>3, <2>2
<1>5. q = l + 1 /\ q - 1 = l /\ \A x \in 1..q : Stamp(j, p).path[x] = v[x]
  BY <1>3, <1>4 DEF Follows
<1>6. v[l + 1] = j /\ v[l] = i /\ \A x \in 1..l : p.path[x] = v[x]
  <2>1. l + 1 \in 1..q /\ l \in 1..l /\ \A x \in 1..l : x \in 1..q
    BY <1>3, <1>5
  <2> QED BY <1>3, <1>4, <1>5, <2>1
<1>7. Hop(v, l) = <<i, j>> /\ l \in 1..(Len(v) - 1)
  BY <1>3, <1>5, <1>6 DEF Hop
<1>8. Follows(p, v, l)
  BY <1>3, <1>6 DEF Follows
<1>9. DataOn(v, l, 1) /\ SeqOn(v, l, 1) = p.seq
  BY <1>1, <1>7, <1>8 DEF DataOn, SeqOn
<1> QED BY <1>4, <1>5, <1>7, <1>9

(* The way a publication came to j. *)
LEMMA WayOfArrived ==
  ASSUME TallyInv, TrailOK, NEW i \in Node, NEW j \in Node, Deliver(i, j),
         NEW p, p = Arrived(i, j), p.kind = "data", ~AlreadySeen(j, p)
  PROVE  /\ Stamp(j, p).path \in Seq(Node) /\ Route(Stamp(j, p).path)
         /\ Len(Stamp(j, p).path) > 0
         /\ Stamp(j, p).path[1] = p.origin
         /\ Stamp(j, p).path[Len(Stamp(j, p).path)] = j
<1> DEFINE w == Stamp(j, p).path
<1>1. /\ p \in Packet /\ SentOK(i, p) /\ chan[<<i, j>>] \in Seq(Packet)
      /\ 1 \in 1..Len(chan[<<i, j>>]) /\ p = chan[<<i, j>>][1]
  BY ArrivedFacts
<1>2. Sendable(j, p)
  BY HeadTailOK DEF Arrived, Deliver, TallyInv, GraphInv
<1>3. Stamp(j, p) \in Packet /\ SentOK(j, Stamp(j, p))
  BY <1>2, StampOK
<1>4. /\ Stamp(j, p).kind = "data" /\ Stamp(j, p).origin = p.origin
  BY <1>1, StampFacts
<1>5. w \in Seq(Node) /\ w # <<>> /\ w[Len(w)] = j /\ w[1] = p.origin /\ Simple(w)
  <2>1. w \in Seq(Node)
    BY <1>3, PacketFacts
  <2> QED BY <1>3, <1>4, <2>1 DEF SentOK, PathOK, Simple
<1>6. PICK l \in Nat : l = Len(p.path) /\ l > 0 /\ p.path[l] = i
  BY <1>1, PacketFacts DEF SentOK, PathOK
<1>7. /\ Len(w) = l + 1 /\ w[l + 1] = j /\ \A x \in 1..l : w[x] = p.path[x]
  BY <1>1, <1>6, StampFacts
<1>8. Adjacent(i, j) /\ \A x \in 1..(l - 1) : Adjacent(p.path[x], p.path[x + 1])
  BY <1>1, <1>6 DEF TrailOK
<1> HIDE DEF w
<1>9. ASSUME NEW x \in 1..(Len(w) - 1) PROVE Adjacent(w[x], w[x + 1])
  <2>1. x = l \/ (x \in 1..(l - 1) /\ x \in 1..l /\ x + 1 \in 1..l)
    BY <1>6, <1>7
  <2>2. CASE x = l
    <3>1. w[l] = i /\ w[l + 1] = j
      BY <1>6, <1>7
    <3> QED BY <1>8, <2>2, <3>1
  <2>3. CASE x \in 1..(l - 1) /\ x \in 1..l /\ x + 1 \in 1..l
    <3>1. w[x] = p.path[x] /\ w[x + 1] = p.path[x + 1]
      BY <1>7, <2>3
    <3> QED BY <1>8, <2>3, <3>1
  <2> QED BY <2>1, <2>2, <2>3
<1>10. Route(w)
  BY <1>5, <1>9 DEF Route
<1>11. Len(w) > 0
  BY <1>6, <1>7
<1> QED BY <1>5, <1>10, <1>11 DEF w

LEMMA OrderDeliver ==
  ASSUME TallyInv, LinksAdjacent, OrderOK, Forest,
         NEW i \in Node, NEW j \in Node, Deliver(i, j),
         ~AlreadySeen(j, Arrived(i, j)), Arrived(i, j).kind # "info"
  PROVE  OrderOK'
<1> DEFINE p == Arrived(i, j)
           m == [origin |-> p.origin, seq |-> p.seq]
           hs == [e \in Node \X Node |-> Taken(i, j, e)]
           w == Stamp(j, p).path
<1>1. /\ p \in Packet /\ p.kind = "data" /\ p = Arrived(i, j)
      /\ p.seq \in Nat /\ p.origin \in Node
  <2>1. p \in Packet /\ p.kind # "info"
    BY ArrivedFacts
  <2> HIDE DEF p
  <2>2. p.kind = "data" /\ p.seq \in Nat /\ p.origin \in Node
    BY <2>1 DEF Packet, DataPacket, InfoPacket
  <2> QED BY <2>1, <2>2 DEF p
<1>2. hs \in [Node \X Node -> Nat] /\ Carries(j, p, hs)
  BY DeliverCarries DEF Taken
<1>3. hs[<<i, j>>] = 1
  BY DEF Taken
<1>4. Hand(j, p) /\ published' = published
  BY <1>1 DEF Deliver, Arrived
<1>5. m.origin = p.origin /\ m.seq = p.seq /\ Given(j, m)
  <2>1. m \in [origin : Node, seq : Nat]
    BY <1>1
  <2>2. delivered \in [Node -> Seq([origin : Node, seq : Nat])]
    BY DEF TallyInv, GraphInv, SourceType
  <2>3. delivered' = delivered \/ delivered' = [delivered EXCEPT ![j] = Append(@, m)]
    BY <2>2, <1>4 DEF Hand
  <2> QED BY <2>1, <2>3 DEF Given
<1>6. published \in Nat
  BY DEF TallyInv, GraphInv, SourceType
<1>7. ~AlreadySeen(j, p)
  OBVIOUS
<1> HIDE DEF p, m, hs
<1>8. TrailOK /\ Newest /\ RouteOrdered /\ BehindOK /\ DeliveredInOrder
  BY DEF OrderOK
<1>9. /\ w \in Seq(Node) /\ Route(w) /\ Len(w) > 0 /\ w[1] = p.origin /\ w[Len(w)] = j
  BY <1>1, <1>7, <1>8, WayOfArrived
<1>10. Stamp(j, p).seq = p.seq /\ Stamp(j, p).kind = "data"
  BY <1>1, StampFacts
<1>11. ASSUME NEW v \in Seq(Node), NEW q \in 1..Len(v), Follows(Stamp(j, p), v, q)
       PROVE  /\ q - 1 \in 1..(Len(v) - 1) /\ Hop(v, q - 1) = <<i, j>>
              /\ DataOn(v, q - 1, 1) /\ SeqOn(v, q - 1, 1) = p.seq
  BY <1>1, <1>10, <1>11, HeadOn
<1>12. /\ Len(w) - 1 \in 1..(Len(w) - 1) /\ Hop(w, Len(w) - 1) = <<i, j>>
       /\ DataOn(w, Len(w) - 1, 1) /\ SeqOn(w, Len(w) - 1, 1) = p.seq
  <2>1. Len(w) \in 1..Len(w) /\ Follows(Stamp(j, p), w, Len(w))
    BY <1>9 DEF Follows
  <2> HIDE DEF w
  <2> QED BY <1>9, <1>11, <2>1
<1>13. p.seq < published
  BY <1>8, <1>9, <1>12, OnIsNewest
(* What was given to j is older, *)
<1>14. \A d \in 1..Len(delivered[j]) :
         delivered[j][d].origin = p.origin => delivered[j][d].seq < p.seq
  BY <1>8, <1>9, <1>12 DEF BehindOK
(* and what is still on its way to j is newer. *)
<1>15. ASSUME NEW q \in 1..(Len(w) - 1), NEW k \in Nat, DataOn(w, q, k), k > hs[Hop(w, q)]
       PROVE  p.seq < SeqOn(w, q, k)
  <2> DEFINE l == Len(w) - 1
  <2>1. l \in 1..(Len(w) - 1) /\ Hop(w, l) = <<i, j>> /\ DataOn(w, l, 1) /\ SeqOn(w, l, 1) = p.seq
    BY <1>12
  <2>2. q < l \/ (q = l /\ k > 1)
    <3>1. q = l => k > 1
      <4> HIDE DEF l, w
      <4> QED BY <1>3, <1>15, <2>1
    <3>2. Len(w) \in Nat
      BY <1>9
    <3> HIDE DEF w
    <3> QED BY <1>15, <3>1, <3>2
  <2> HIDE DEF l, w
  <2>3. SeqOn(w, q, k) > SeqOn(w, l, 1)
    BY <1>8, <1>9, <1>15, <2>1, <2>2 DEF RouteOrdered
  <2>4. SeqOn(w, l, 1) = p.seq
    BY <2>1
  <2> QED BY <2>3, <2>4
<1>16. TrailOK'
  <2>1. \A x \in 1..(Len(Stamp(j, p).path) - 1) :
          Adjacent(Stamp(j, p).path[x], Stamp(j, p).path[x + 1])
    BY <1>9 DEF Route
  <2> QED BY <1>2, <1>8, <2>1, TrailNext
<1>17. Newest'
  <2>1. published' \in Nat /\ published <= published' /\ p.seq < published'
    BY <1>4, <1>6, <1>13
  <2> HIDE DEF w
  <2> QED BY <1>2, <1>5, <1>8, <1>10, <2>1, NewestNext
<1>18. RouteOrdered'
  <2>1. ASSUME NEW v \in Seq(Node), NEW q \in 1..(Len(v) - 1), NEW r \in 1..(Len(v) - 1),
               NEW k \in Nat, Follows(Stamp(j, p), v, q), DataOn(v, r, k), k > hs[Hop(v, r)]
        PROVE  IF r < q THEN SeqOn(v, r, k) > p.seq ELSE SeqOn(v, r, k) < p.seq
    <3>1. q \in 1..Len(v)
      OBVIOUS
    <3>2. PICK l \in 1..(Len(v) - 1) : l = q - 1 /\ Hop(v, l) = <<i, j>> /\ DataOn(v, l, 1)
                                       /\ SeqOn(v, l, 1) = p.seq
      BY <1>11, <2>1, <3>1
    <3>3. r = l => k > 1
      BY <1>3, <2>1, <3>2
    <3>4. CASE r < q
      <4>1. r < l \/ (r = l /\ k > 1)
        BY <3>2, <3>3, <3>4
      <4>2. SeqOn(v, r, k) > SeqOn(v, l, 1)
        BY <1>8, <2>1, <3>2, <4>1 DEF RouteOrdered
      <4> QED BY <3>2, <3>4, <4>2
    <3>5. CASE ~(r < q)
      <4>1. l < r
        BY <3>2, <3>5
      <4>2. SeqOn(v, l, 1) > SeqOn(v, r, k)
        BY <1>8, <2>1, <3>2, <4>1 DEF RouteOrdered
      <4>3. SeqOn(v, r, k) < SeqOn(v, l, 1)
        BY <4>2
      <4> QED BY <3>2, <3>5, <4>3
    <3> QED BY <3>4, <3>5
  <2>2. InPlace(j, p, hs)
    BY <1>10, <2>1 DEF InPlace
  <2> QED BY <1>2, <1>8, <2>2, OrderedNext
<1>19. BehindOK'
  <2>1. ASSUME NEW v \in Seq(Node), NEW q \in 1..(Len(v) - 1), Route(v),
               Follows(Stamp(j, p), v, q),
               NEW d \in 1..Len(delivered[v[Len(v)]]), delivered[v[Len(v)]][d].origin = v[1]
        PROVE  delivered[v[Len(v)]][d].seq < p.seq
    <3>1. q \in 1..Len(v)
      OBVIOUS
    <3>2. PICK l \in 1..(Len(v) - 1) : DataOn(v, l, 1) /\ SeqOn(v, l, 1) = p.seq
      BY <1>11, <2>1, <3>1
    <3> QED BY <1>8, <2>1, <3>2 DEF BehindOK
  <2>2. ASSUME NEW v \in Seq(Node), NEW q \in 1..(Len(v) - 1), NEW k \in Nat,
               Route(v), v[Len(v)] = j, v[1] = m.origin,
               DataOn(v, q, k), k > hs[Hop(v, q)]
        PROVE  m.seq < SeqOn(v, q, k)
    <3>1. v = w
      <4>1. Len(v) > 0
        OBVIOUS
      <4> QED BY <1>5, <1>9, <2>2, <4>1 DEF Forest
    <3> HIDE DEF w
    <3> QED BY <1>5, <1>15, <2>2, <3>1
  <2>3. NothingOlder(j, p, hs, m)
    BY <1>10, <2>1, <2>2 DEF NothingOlder
  <2> QED BY <1>2, <1>5, <1>8, <2>3, BehindNext
<1>20. DeliveredInOrder'
  BY <1>5, <1>8, <1>14, InOrderNext
<1> QED BY <1>16, <1>17, <1>18, <1>19, <1>20 DEF OrderOK

LEMMA OrderNext ==
  ASSUME OrderInv, Forest, [Next]_vars
  PROVE  OrderInv'
<1>1. TallyInv /\ LinksAdjacent /\ OrderOK
  BY DEF OrderInv
<1>2. TallyInv' /\ LinksAdjacent'
  BY <1>1, TallyInvNext, LinksAdjacentNext
<1>3. ASSUME Other PROVE OrderOK'
  <2>1. PICK hs \in [Node \X Node -> Nat] : \A n, p : Carries(n, p, hs)
    BY <1>1, <1>3, OtherCarries
  <2>2. Carries(Nobody, Silence, hs) /\ delivered' = delivered /\ published' = published
    BY <1>1, <1>3, <2>1, OtherKeeps
  <2>3. hs \in [Node \X Node -> Nat]
    BY <2>1
  <2> QED BY <1>1, <2>2, <2>3, OrderQuiet
<1>4. ASSUME NEW n \in Node, NEW t \in Topic, Publish(n, t) PROVE OrderOK'
  BY <1>1, <1>4, OrderPublish
<1>5. ASSUME NEW i \in Node, NEW j \in Node, Deliver(i, j) PROVE OrderOK'
  BY <1>1, <1>5, OrderDeliverQuiet, OrderDeliver
<1>6. OrderOK'
  <2>1. [Next]_vars
    OBVIOUS
  <2>2. \/ Other
        \/ \E n \in Node, t \in Topic : Publish(n, t)
        \/ \E i, j \in Node : Deliver(i, j)
    BY <2>1, StepCases
  <2> QED BY <1>3, <1>4, <1>5, <2>2
<1> QED BY <1>2, <1>6 DEF OrderInv

(* Packets on the same way keep their order, and behind what a node has    *)
(* been given of a publisher only newer packets of it follow: whoever      *)
(* joins, crashes or subscribes.                                           *)
THEOREM OrderInvariant ==
  ASSUME Forest
  PROVE  Spec => []OrderInv
<1>1. Init => OrderInv
  BY GraphInvInit, MembersInit, TallyInit, LinksAdjacentInit, OrderInit DEF OrderInv, TallyInv
<1>2. OrderInv /\ [Next]_vars => OrderInv'
  BY OrderNext
<1> QED BY <1>1, <1>2, PTL DEF Spec

(* Where there is at most one way from a node to another, a subscriber is  *)
(* given the packets of a publisher at most once and in the order of       *)
(* publication.                                                            *)
THEOREM PublicationsInOrder ==
  ASSUME Forest
  PROVE  Spec => []DeliveredInOrder
<1>1. OrderInv => DeliveredInOrder
  BY DEF OrderInv, OrderOK
<1> QED BY <1>1, OrderInvariant, PTL
=============================================================================
