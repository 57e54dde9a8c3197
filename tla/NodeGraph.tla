----------------------------- MODULE NodeGraph -----------------------------
(***************************************************************************)
(* The network of daylite nodes: what node_impl, mailman and remote_node   *)
(* do in each node's user thread, over FIFO channels between the nodes.    *)
(*                                                                         *)
(* A node keeps one remote_node per connection.  What a node says is sent  *)
(* on every connection; what it hears on one connection it hands to its    *)
(* own mailboxes and sends on all the others, and the path a packet        *)
(* carries is what stops it.  Packets of the internal topic carry a        *)
(* node_info, the subscriptions of one node as far as the sender knows;    *)
(* from the latest one of each node a node counts who listens to a topic,  *)
(* and it sends ordinary packets only if it ever heard of a listener.      *)
(*                                                                         *)
(* A channel stands for the out queue, the connection and the in queue     *)
(* (TcpThread); a step of a node is one call by its user thread, which     *)
(* shares nothing but those queues with other threads.                     *)
(***************************************************************************)
EXTENDS Integers, Sequences, FiniteSets, SequencesExt

CONSTANTS
  Node,             \* the processes, named by the id of their node
  Topic,            \* the topics of ordinary packets
  Linked,           \* <<client, server>> pairs connected from the start
  Subscribed,       \* <<node, topic>> pairs: subscriptions from the start
  Joinable,         \* <<client, server>> pairs that may connect later
  GarbageLocalOnly, \* values packet::_local_only may have in a packet that
                    \* was read from a connection: it is not initialised
  MayCrash,         \* nodes that may go down
  MaxCalls,         \* bound: (un)subscribe and advertise calls in all
  MayCall,          \* bound: nodes that make such calls
  MaxPublish        \* bound: packets published in all

ASSUME GraphAssumption ==
  /\ IsFiniteSet(Node)
  /\ Linked \subseteq Node \X Node
  /\ Subscribed \subseteq Node \X Topic
  /\ Joinable \subseteq Node \X Node
  /\ GarbageLocalOnly \subseteq BOOLEAN
  /\ MayCrash \subseteq Node
  /\ MayCall \subseteq Node
  /\ MaxCalls \in Nat
  /\ MaxPublish \in Nat

VARIABLES
  up,         \* the node runs
  subs,       \* _local_subscription_count
  remotes,    \* _remotes: the peers a node has a remote_node for
  clients,    \* those of them its tcp_server accepted
  backlog,    \* <<i, j>>: i has connected to j, j has not accepted yet
  chan,       \* the packets on their way from i to j
  assoc,      \* remote_node::_associated_ids
  latest,     \* _latest_info
  count,      \* the values of _subscription_count
  keys,       \* the keys of _subscription_count
  delivered,  \* history: packets given to a node's subscribers, in order
  calls,      \* calls made so far
  published   \* packets published so far

vars == <<up, subs, remotes, clients, backlog, chan, assoc, latest, count, keys,
          delivered, calls, published>>

NoInfo == [known |-> FALSE, alive |-> FALSE, topics |-> [t \in Topic |-> 0]]
Info == [known : BOOLEAN, alive : BOOLEAN, topics : [Topic -> Nat]]

(* meta's path and id, and what the packet says. *)
InfoPacket == [kind : {"info"}, path : Seq(Node), id : Node, about : Node, info : Info]
DataPacket == [kind : {"data"}, path : Seq(Node), id : Node, topic : Topic,
               origin : Node, seq : Nat]
Packet == InfoPacket \cup DataPacket

-----------------------------------------------------------------------------
(* Connected from the start: everyone has heard of everyone and of what    *)
(* they subscribe to, and nothing is on its way.                           *)
InitiallyLinked(i, j) == <<i, j>> \in Linked \/ <<j, i>> \in Linked
InitialPeers == {i \in Node : \E j \in Node : InitiallyLinked(i, j)}
InitiallyHeard(n) == {m \in InitialPeers : n \in InitialPeers /\ n # m}
InitialSubs(n) == [t \in Topic |-> IF <<n, t>> \in Subscribed THEN 1 ELSE 0]

Init ==
  /\ up = [n \in Node |-> TRUE]
  /\ subs = [n \in Node |-> InitialSubs(n)]
  /\ remotes = [n \in Node |-> {m \in Node : InitiallyLinked(n, m)}]
  /\ clients = [n \in Node |-> {m \in Node : <<m, n>> \in Linked}]
  /\ backlog = {}
  /\ chan = [e \in Node \X Node |-> <<>>]
  /\ assoc = [e \in Node \X Node |-> IF InitiallyLinked(e[1], e[2]) THEN {e[2]} ELSE {}]
  /\ latest = [n \in Node |-> [m \in Node |->
       IF m \in InitiallyHeard(n)
       THEN [known |-> TRUE, alive |-> TRUE, topics |-> InitialSubs(m)] ELSE NoInfo]]
  /\ count = [n \in Node |-> [t \in Topic |->
       Cardinality({m \in InitiallyHeard(n) : <<m, t>> \in Subscribed})]]
  /\ keys = [n \in Node |-> {t \in Topic : count[n][t] > 0}]
  /\ delivered = [n \in Node |-> <<>>]
  /\ calls = 0
  /\ published = 0

-----------------------------------------------------------------------------
(* remote_node::send. *)

(* The packet as n sends it on. *)
Stamp(n, p) == [p EXCEPT !.path = Append(@, n), !.id = n]

(* A mutant: the listeners are counted, as the comment has it. *)
ListenedByCount(n, p) == p.kind = "info" \/ count[n][p.topic] > 0

(* Is there a listener?  The code looks for the topic's entry in           *)
(* _subscription_count, which is never erased, not for a positive value.   *)
Listened(n, p) == p.kind = "info" \/ p.topic \in keys[n]

(* A mutant: new packets overtake those that wait. *)
SendToFront(n, rs, ps) ==
  [e \in Node \X Node |->
     IF e[1] = n /\ e[2] \in rs /\ up[e[2]]
     THEN [k \in 1..Len(ps) |-> Stamp(n, ps[k])] \o chan[e]
     ELSE chan[e]]

(* n passes the packets ps to its remotes in rs.  What is sent to a node   *)
(* that is down goes nowhere.                                              *)
SendTo(n, rs, ps) ==
  [e \in Node \X Node |->
     IF e[1] = n /\ e[2] \in rs /\ up[e[2]]
     THEN chan[e] \o [k \in 1..Len(ps) |-> Stamp(n, ps[k])]
     ELSE chan[e]]

-----------------------------------------------------------------------------
(* node_impl::send_info. *)

InfoAbout(m, info) ==
  [kind |-> "info", path |-> <<>>, id |-> m, about |-> m, info |-> info]

OwnInfo(n, own) == InfoAbout(n, [known |-> TRUE, alive |-> TRUE, topics |-> own])

(* The node's own info, then the latest one of every other node.  (The     *)
(* order among these is that of a hash table and does not matter: each is  *)
(* about another node.)                                                    *)
InfoPackets(n, own, known, includeDead) ==
  LET told == {m \in Node : known[m].known /\ (includeDead \/ known[m].alive)} IN
    <<OwnInfo(n, own)>> \o SetToSeq({InfoAbout(m, known[m]) : m \in told})

-----------------------------------------------------------------------------
(* Calls of the program that owns the node. *)

Call(n) == n \in MayCall /\ up[n] /\ calls < MaxCalls /\ calls' = calls + 1

(* subscribe: register_subscriber counts the subscriber and tells everyone. *)
Subscribe(n, t) ==
  /\ Call(n)
  /\ subs' = [subs EXCEPT ![n][t] = @ + 1]
  /\ chan' = SendTo(n, remotes[n], InfoPackets(n, subs'[n], latest[n], FALSE))
  /\ UNCHANGED <<up, remotes, clients, backlog, assoc, latest, count, keys,
                 delivered, published>>

(* A subscriber is destroyed: unregister_subscriber tells no one. *)
Unsubscribe(n, t) ==
  /\ Call(n)
  /\ subs[n][t] > 0
  /\ subs' = [subs EXCEPT ![n][t] = @ - 1]
  /\ UNCHANGED <<up, remotes, clients, backlog, chan, assoc, latest, count, keys,
                 delivered, published>>

(* advertise: register_publisher tells everyone again. *)
Advertise(n) ==
  /\ Call(n)
  /\ chan' = SendTo(n, remotes[n], InfoPackets(n, subs[n], latest[n], FALSE))
  /\ UNCHANGED <<up, subs, remotes, clients, backlog, assoc, latest, count, keys,
                 delivered, published>>

(* p reaches the subscribers of node n, if it has any for the topic. *)
Hand(n, p) ==
  delivered' = [delivered EXCEPT ![n] =
    IF subs[n][p.topic] > 0 THEN Append(@, [origin |-> p.origin, seq |-> p.seq]) ELSE @]

(* publisher_impl::publish: the node's own subscribers, then the remotes. *)
Publish(n, t) ==
  LET p == [kind |-> "data", path |-> <<>>, id |-> n, topic |-> t,
            origin |-> n, seq |-> published] IN
    /\ up[n] /\ published < MaxPublish
    /\ published' = published + 1
    /\ Hand(n, p)
    /\ chan' = IF Listened(n, p) THEN SendTo(n, remotes[n], <<p>>) ELSE chan
    /\ UNCHANGED <<up, subs, remotes, clients, backlog, assoc, latest, count, keys, calls>>

-----------------------------------------------------------------------------
(* A packet arrives: remote_node::spin_update. *)

(* A mutant: the first node on the path is skipped. *)
AlreadySeenButFirst(j, p) == p.id = j \/ \E k \in 2..Len(p.path) : p.path[k] = j

(* A mutant: of a node that is known nothing new is heard. *)
AlreadySeenOrKnown(j, p) ==
  \/ p.id = j \/ \E k \in 1..Len(p.path) : p.path[k] = j
  \/ p.kind = "info" /\ latest[j][p.about].alive

(* The packet has passed through j before. *)
AlreadySeen(j, p) == p.id = j \/ \E k \in 1..Len(p.path) : p.path[k] = j

(* _subscription_count after untally of one info and tally of another;     *)
(* both make an entry for every topic they touch.                          *)
Retally(c, old, new) == [t \in Topic |-> c[t] - old.topics[t] + new.topics[t]]
TopicsOf(info) == {t \in Topic : info.topics[t] > 0}

(* node_impl's callback for the internal topic. *)
Learn(j, p) ==
  IF p.about = j
  THEN UNCHANGED <<latest, count, keys>>
  ELSE LET old == latest[j][p.about] IN
         /\ latest' = [latest EXCEPT ![j][p.about] = p.info]
         /\ count' = [count EXCEPT ![j] = Retally(@, old, p.info)]
         /\ keys' = [keys EXCEPT ![j] = @ \cup TopicsOf(old) \cup TopicsOf(p.info)]

(* The head of the channel is dropped if it has been here, or else given   *)
(* to the node's own mailboxes and then to the other remotes, which keep   *)
(* it to themselves if its _local_only happens to be true.                 *)
Deliver(i, j) ==
  /\ up[j] /\ i \in remotes[j]
  /\ chan[<<i, j>>] # <<>>
  /\ LET p == Head(chan[<<i, j>>])
         rest == [chan EXCEPT ![<<i, j>>] = Tail(@)]
     IN IF AlreadySeen(j, p)
        THEN /\ chan' = rest
             /\ UNCHANGED <<assoc, latest, count, keys, delivered>>
        ELSE /\ assoc' = [assoc EXCEPT ![<<j, i>>] = @ \cup {p.id}]
             /\ IF p.kind = "info"
                THEN Learn(j, p) /\ UNCHANGED delivered
                ELSE Hand(j, p) /\ UNCHANGED <<latest, count, keys>>
             /\ \E localOnly \in GarbageLocalOnly :
                  chan' = IF ~localOnly /\ Listened(j, p)
                          THEN [SendTo(j, remotes[j] \ {i}, <<p>>)
                                  EXCEPT ![<<i, j>>] = Tail(chan[<<i, j>>])]
                          ELSE rest
  /\ UNCHANGED <<up, subs, remotes, clients, backlog, calls, published>>

-----------------------------------------------------------------------------
(* Connections. *)

(* start: i connects to the gateway j and tells it what it knows.  (start  *)
(* replaces the node's own server, so i has no clients yet.)               *)
Join(i, j) ==
  /\ <<i, j>> \in Joinable
  /\ up[i] /\ up[j]
  /\ j \notin remotes[i]
  /\ clients[i] = {} /\ ~\E k \in Node : <<k, i>> \in backlog
  /\ remotes' = [remotes EXCEPT ![i] = @ \cup {j}]
  /\ backlog' = backlog \cup {<<i, j>>}
  /\ chan' = SendTo(i, remotes'[i], InfoPackets(i, subs[i], latest[i], FALSE))
  /\ UNCHANGED <<up, subs, clients, assoc, latest, count, keys, delivered, calls, published>>

(* server_connection: j accepts and tells everyone what it knows. *)
Accept(j, i) ==
  /\ <<i, j>> \in backlog
  /\ up[j]
  /\ backlog' = backlog \ {<<i, j>>}
  /\ remotes' = [remotes EXCEPT ![j] = @ \cup {i}]
  /\ clients' = [clients EXCEPT ![j] = @ \cup {i}]
  /\ chan' = SendTo(j, remotes'[j], InfoPackets(j, subs[j], latest[j], FALSE))
  /\ UNCHANGED <<up, subs, assoc, latest, count, keys, delivered, calls, published>>

(* The process ends.  What others had sent it is lost, and what it had not *)
(* yet written of its queues: to each of the others all or nothing here,   *)
(* which is any suffix, for what came through may be delivered before.     *)
(* Its server notices in Disconnect.  A client goes on in the model with   *)
(* what came through; in the code it then uses a socket that was deleted   *)
(* (tcp_transport.cpp:64).                                                 *)
Crash(i) ==
  /\ i \in MayCrash /\ up[i]
  /\ up' = [up EXCEPT ![i] = FALSE]
  /\ \E lost \in SUBSET Node :
       chan' = [e \in Node \X Node |->
                  IF e[2] = i \/ (e[1] = i /\ e[2] \in lost) THEN <<>> ELSE chan[e]]
  /\ UNCHANGED <<subs, remotes, clients, backlog, assoc, latest, count, keys,
                 delivered, calls, published>>

(* A mutant: in_topics.clear() is missing. *)
BuriedKeepsTopics(known, ids) ==
  [m \in Node |-> IF m \in ids /\ known[m].known
                  THEN [known[m] EXCEPT !.alive = FALSE] ELSE known[m]]

(* The infos of the nodes in ids after they are marked dead. *)
Buried(known, ids) ==
  [m \in Node |-> IF m \in ids /\ known[m].known
                  THEN [NoInfo EXCEPT !.known = TRUE] ELSE known[m]]

(* A mutant: the dead nodes' subscriptions stay counted. *)
CountAfterBurialKept(c, known, ids) == c

(* _subscription_count after the infos of the nodes in ids are untallied. *)
CountAfterBurial(c, known, ids) ==
  [t \in Topic |-> c[t] - FoldSet(LAMBDA m, s : s + known[m].topics[t], 0, ids)]

(* server_disconnection: j's server finds the connection of i closed.      *)
(* Packets of i that were not handled yet are lost with the remote_node,   *)
(* the nodes it stood for are marked dead, and everyone is told.  Only the *)
(* server's end notices: a client never removes its gateway.               *)
Disconnect(j, i) ==
  /\ up[j] /\ ~up[i]
  /\ i \in clients[j]
  /\ LET ids == assoc[<<j, i>>] IN
       /\ latest' = [latest EXCEPT ![j] = Buried(@, ids)]
       /\ count' = [count EXCEPT ![j] = CountAfterBurial(@, latest[j], ids)]
       /\ keys' = [keys EXCEPT ![j] = @ \cup UNION {TopicsOf(latest[j][m]) : m \in ids}]
  /\ assoc' = [assoc EXCEPT ![<<j, i>>] = {}]
  /\ remotes' = [remotes EXCEPT ![j] = @ \ {i}]
  /\ clients' = [clients EXCEPT ![j] = @ \ {i}]
  /\ chan' = [SendTo(j, remotes'[j], InfoPackets(j, subs[j], latest'[j], TRUE))
                EXCEPT ![<<i, j>>] = <<>>]
  /\ UNCHANGED <<up, subs, backlog, delivered, calls, published>>

-----------------------------------------------------------------------------
Next ==
  \/ \E n \in Node, t \in Topic : Subscribe(n, t) \/ Unsubscribe(n, t) \/ Publish(n, t)
  \/ \E n \in Node : Advertise(n) \/ Crash(n)
  \/ \E i, j \in Node : Deliver(i, j) \/ Join(i, j) \/ Accept(j, i) \/ Disconnect(j, i)

Spec == Init /\ [][Next]_vars

-----------------------------------------------------------------------------
(* The path of a packet that sender has sent. *)
PathOK(sender, p) ==
  /\ p.path # <<>>
  /\ p.path[Len(p.path)] = sender
  /\ p.id = sender
  /\ p.kind = "data" => p.path[1] = p.origin
  /\ \A x, y \in 1..Len(p.path) : p.path[x] = p.path[y] => x = y

TypeOK ==
  /\ up \in [Node -> BOOLEAN]
  /\ subs \in [Node -> [Topic -> Nat]]
  /\ remotes \in [Node -> SUBSET Node]
  /\ clients \in [Node -> SUBSET Node]
  /\ backlog \subseteq Node \X Node
  /\ chan \in [Node \X Node -> Seq(Packet)]
  /\ assoc \in [Node \X Node -> SUBSET Node]
  /\ latest \in [Node -> [Node -> Info]]
  /\ count \in [Node -> [Topic -> Nat]]
  /\ keys \in [Node -> SUBSET Topic]
  /\ delivered \in [Node -> Seq([origin : Node, seq : Nat])]
  /\ calls \in 0..MaxCalls
  /\ published \in 0..MaxPublish

(* A packet never passes a node twice: its path is simple, starts where an *)
(* ordinary packet was published and ends in the node that sent it.  That  *)
(* is all that ends a flood, for packets have no identity and no hop limit.*)
PathsSimple ==
  \A e \in Node \X Node : \A k \in 1..Len(chan[e]) : PathOK(e[1], chan[e][k])

(* _subscription_count is the sum of the subscriptions in _latest_info     *)
(* through every overwrite and burial, so the unsigned counters do not     *)
(* wrap, and a topic somebody listens to has an entry.                     *)
TallyMatches ==
  \A n \in Node, t \in Topic :
    /\ count[n][t] = FoldSet(LAMBDA m, s : s + latest[n][m].topics[t], 0, Node)
    /\ count[n][t] > 0 => t \in keys[n]

(* Packets of one publisher reach a subscriber at most once and in the     *)
(* order of publication.                                                   *)
DeliveredInOrder ==
  \A n \in Node : \A j, k \in 1..Len(delivered[n]) :
    j < k /\ delivered[n][j].origin = delivered[n][k].origin
      => delivered[n][j].seq < delivered[n][k].seq

(* A node's own packets do not come back to it over the network. *)
NoEcho ==
  [][\A i, j \in Node :
       Deliver(i, j) /\ delivered' # delivered
         => delivered'[j][Len(delivered'[j])].origin # j]_vars

-----------------------------------------------------------------------------
(* Networks at rest. *)

Quiet == backlog = {} /\ \A e \in Node \X Node : up[e[2]] => chan[e] = <<>>

LiveLink(i, j) == up[i] /\ up[j] /\ j \in remotes[i] /\ i \in remotes[j]

Connected(i, j) ==
  \A S \in SUBSET Node :
    i \in S /\ (\A x \in S, y \in Node : LiveLink(x, y) => y \in S) => j \in S

(* Once every packet has arrived, whatever a node subscribes to is sent on *)
(* by every node it is connected with.  An info carries no version, so an  *)
(* older one echoed by a neighbour may replace a newer one; what the node  *)
(* stands on is that an entry of _subscription_count is never erased.      *)
SubscriptionsRouted ==
  Quiet => \A n, m \in Node : \A t \in Topic :
    n # m /\ Connected(n, m) /\ subs[n][t] > 0
      => Listened(m, [kind |-> "data", topic |-> t])
=============================================================================
