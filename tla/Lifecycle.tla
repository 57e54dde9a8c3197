----------------------------- MODULE Lifecycle -----------------------------
(***************************************************************************)
(* Who exists, who knows whom, and who is called, while a node with its    *)
(* server, its connections, publishers and subscribers comes and goes:     *)
(* spinner_impl, tcp_server, mailman and the corresponding half of         *)
(* node_impl, remote_node, publisher_impl and subscriber_impl.             *)
(*                                                                         *)
(* The user thread makes calls and spins; the network thread of the node   *)
(* visits the sockets of its links.  A spin is cut at every place where    *)
(* the network thread or a subscriber's callback may get in between.       *)
(*                                                                         *)
(* Pointers may dangle: an object that is not alive may still be in a      *)
(* list.  Following such a pointer, or a null one, is a fault, after which *)
(* the model says nothing of the program.                                  *)
(*                                                                         *)
(* A Link names a connection, its socket and its remote_node.              *)
(***************************************************************************)
EXTENDS Naturals, Sequences, FiniteSets, SequencesExt

CONSTANTS
  Node,         \* the node; as a mailbox, its internal one
  Servers,      \* tcp_server objects
  Accepted,     \* connections that other nodes make to this one
  Gateway,      \* the connection this node makes
  Publishers, Subscribers,
  Null,
  Liberties,    \* what the user does against the library's expectations
  MaxSlots      \* bound: entries of the spinner's two lists together

Links    == Accepted \cup {Gateway}
Children == Publishers \cup Subscribers
Spinetts == {Node} \cup Servers \cup Links

(* Objects of different classes are different, and there are finitely many *)
(* of those that a list or a map of connections holds.                     *)
ASSUME LifecycleAssumption ==
  /\ Liberties \subseteq
       {"again", "children", "connected", "unspun", "gateway ends",
        "in its callback", "same topic"}
  /\ MaxSlots \in Nat
  /\ IsFiniteSet(Accepted) /\ Gateway \notin Accepted
  /\ Node \notin Servers \cup Links \cup Children
  /\ Servers \cap Links = {} /\ Children \cap Links = {}
  /\ Null \notin Spinetts

VARIABLES
  alive,        \* the spinetts that are constructed and not destroyed
  spinetts,     \* spinner_impl::_spinetts
  toAdd,        \* spinner_impl::_spinetts_to_add
  server,       \* node_impl::_server
  remotes,      \* node_impl::_remotes
  mailboxes,    \* mailman::_mailboxes
  child,        \* each publisher or subscriber: "none", "live" or "husk"
  listening,    \* the servers whose socket accepts connections
  observed,     \* the servers that have the node as their listener
  clients,      \* tcp_server::_clients
  sock,         \* each link's tcp_socket
  ended,        \* links whose other end has ended
  watched,      \* tcp_thread::_buffers
  todo,         \* links the network thread has still to visit
  thread,       \* the network thread: "none", "idle" or "pass"
  pc,           \* where the user thread is
  at,           \* index in spinetts of the one that is spun
  ci,           \* index in clients of the one that is looked at
  calling,      \* subscribers whose callback the user is in, the outermost first
  fault

spinVars   == <<alive, spinetts, toAdd>>
nodeVars   == <<server, remotes, mailboxes, child>>
serverVars == <<listening, observed, clients>>
threadVars == <<todo, thread>>
userVars   == <<pc, at, ci, calling>>
vars == <<spinVars, nodeVars, serverVars, sock, ended, watched, threadVars,
          userVars, fault>>

Init ==
  /\ alive = {} /\ spinetts = <<>> /\ toAdd = <<>>
  /\ server = Null /\ remotes = {} /\ mailboxes = {}
  /\ child = [c \in Children |-> "none"]
  /\ listening = {} /\ observed = {}
  /\ clients = [v \in Servers |-> <<>>]
  /\ sock = [l \in Links |-> "none"]
  /\ ended = {} /\ watched = {}
  /\ todo = {} /\ thread = "none"
  /\ pc = "user" /\ at = 1 /\ ci = 1 /\ calling = <<>>
  /\ fault = FALSE

(* A step that follows a pointer, a bad one or not. *)
Faults(bad) == fault' = (fault \/ bad)

-----------------------------------------------------------------------------
(* The spinner's lists. *)

(* The bound leaves room for the connections that wait. *)
HasRoom ==
  Len(spinetts) + Len(toAdd) + Cardinality({l \in Links : sock[l] = "waiting"})
    < MaxSlots

(* spinett::spinett. *)
Construct(o) ==
  /\ alive' = alive \cup {o}
  /\ toAdd' = Append(toAdd, o)

(* A mutant: the destructor leaves the entry. *)
UnregisteredNot(s, o) == s

(* unregister_spinett: the entry becomes null, for a loop over the list    *)
(* may be under way.  _spinetts_to_add is not searched.                    *)
Unregistered(s, o) == [i \in DOMAIN s |-> IF s[i] = o THEN Null ELSE s[i]]

(* spinett::~spinett. *)
Destruct(o) ==
  /\ alive' = alive \ {o}
  /\ spinetts' = Unregistered(spinetts, o)
  /\ UNCHANGED toAdd

(* A mutant: a null entry is called like the others. *)
SkipsNone(o) == FALSE

(* if(!sp) continue. *)
Skips(o) == o = Null

(* A mutant: what was added is not cleared. *)
StillToAddAll == toAdd

StillToAdd == <<>>

(* The end of spin_once: the new spinetts join the list, and the first     *)
(* null entry leaves it.                                                   *)
Swept(s) ==
  IF \E i \in DOMAIN s : s[i] = Null
  THEN RemoveAt(s, CHOOSE i \in DOMAIN s :
                     s[i] = Null /\ \A j \in 1..(i - 1) : s[j] # Null)
  ELSE s

-----------------------------------------------------------------------------
(* The network thread, over the sockets of the links. *)

HoldsMut == thread = "pass"

StartPass ==
  /\ thread = "idle" /\ watched # {}
  /\ thread' = "pass" /\ todo' = watched
  /\ UNCHANGED <<spinVars, nodeVars, serverVars, sock, ended, watched, userVars, fault>>

(* run() uses the socket in every channel operation; update() closes it at *)
(* the end of the stream, and deletes it if the transport owns it.         *)
VisitLink(l) ==
  /\ thread = "pass" /\ l \in todo
  /\ Faults(sock[l] = "deleted")
  /\ todo' = todo \ {l}
  /\ sock' = [sock EXCEPT ![l] =
                IF ~(l \in ended /\ @ = "open") THEN @
                ELSE IF l = Gateway THEN "deleted" ELSE "closed"]
  /\ UNCHANGED <<spinVars, nodeVars, serverVars, ended, watched, thread, userVars>>

EndPass ==
  /\ thread = "pass" /\ todo = {}
  /\ thread' = "idle"
  /\ UNCHANGED <<spinVars, nodeVars, serverVars, sock, ended, watched, todo, userVars, fault>>

NetworkThread == StartPass \/ EndPass \/ \E l \in Links : VisitLink(l)

(* A mutant: the buffer of the link is left in the map. *)
WatchedNoMoreKeeps(w, ls) == w

(* tcp_thread::remove_socket. *)
WatchedNoMore(w, ls) == w \ ls

-----------------------------------------------------------------------------
(* Other nodes (external). *)

ClientConnects(l) ==
  /\ listening # {}
  /\ l \notin alive /\ sock[l] \in {"none", "deleted"}
  /\ \A v \in Servers : ~Contains(clients[v], l)
  /\ HasRoom
  /\ sock' = [sock EXCEPT ![l] = "waiting"]
  /\ ended' = ended \ {l}
  /\ UNCHANGED <<spinVars, nodeVars, serverVars, watched, threadVars, userVars, fault>>

PeerEnds(l) ==
  /\ sock[l] \in {"waiting", "open"} /\ l \notin ended
  /\ l = Gateway => "gateway ends" \in Liberties
  /\ ended' = ended \cup {l}
  /\ UNCHANGED <<spinVars, nodeVars, serverVars, sock, watched, threadVars, userVars, fault>>

-----------------------------------------------------------------------------
(* Calls of the user. *)

HasNode == Node \in alive

(* The user creates and destroys publishers and subscribers, and publishes, *)
(* from a subscriber's callback too; the other calls he makes outside.      *)
IsFree    == pc = "user" /\ calling = <<>>
UserCalls == pc = "user" \/ calling # <<>>

(* The spinner is at o, and no callback is under way. *)
Spins(o) == pc = "spin" /\ calling = <<>> /\ at <= Len(spinetts) /\ spinetts[at] = o

(* send_info hands a packet to the mailbox of every remote node.  The      *)
(* mailman asserts that this succeeds (mailman.cpp:40), as it does while   *)
(* the link is watched.                                                    *)
InfoFails(mb, w) == ~(mb \cap Links \subseteq w)

(* node::create_node. *)
CreateNode ==
  /\ IsFree /\ ~HasNode /\ HasRoom
  /\ Construct(Node)
  /\ mailboxes' = {Node}
  /\ thread' = "idle"
  /\ UNCHANGED <<spinetts, server, remotes, child, serverVars, sock, ended, watched,
                 todo, userVars, fault>>

(* gateway(), and the first half of start(), with a new server.  A server  *)
(* the node already has is destroyed by the assignment, and its clients    *)
(* with it.  If the new one cannot be opened it is released: it remains    *)
(* a spinett that nobody owns.                                             *)
StartGateway(v, next) ==
  /\ IsFree /\ HasNode
  /\ v \notin alive
  /\ server # Null => "again" \in Liberties
  /\ HasRoom
  /\ alive' = (alive \cup {v}) \ {server}
  /\ toAdd' = Append(toAdd, v)
  /\ spinetts' = Unregistered(spinetts, server)
  /\ sock' = [l \in Links |->
                IF server # Null /\ Contains(clients[server], l) THEN "deleted" ELSE sock[l]]
  /\ clients' = [clients EXCEPT ![v] = <<>>]
  /\ \/ /\ server' = v
        /\ listening' = (listening \ {server}) \cup {v}
        /\ observed' = observed \cup {v}
     \/ /\ server' = Null
        /\ listening' = listening \ {server}
        /\ UNCHANGED observed
  /\ pc' = next
  /\ UNCHANGED <<remotes, mailboxes, child, ended, watched, threadVars, at, ci, calling, fault>>

(* A remote node is made for the open link l and everybody is told. *)
AddRemote(l) ==
  /\ ~HoldsMut
  /\ Construct(l)
  /\ watched' = watched \cup {l}
  /\ mailboxes' = mailboxes \cup {l}
  /\ remotes' = remotes \cup {l}
  /\ Faults(InfoFails(mailboxes', watched'))

(* join_daylite, the second half of start(): it connects, or fails. *)
Join ==
  /\ pc = "join"
  /\ \/ /\ Gateway \notin alive /\ HasRoom
        /\ AddRemote(Gateway)
        /\ sock' = [sock EXCEPT ![Gateway] = "open"]
     \/ UNCHANGED <<alive, toAdd, watched, mailboxes, remotes, fault, sock>>
  /\ pc' = "user"
  /\ UNCHANGED <<spinetts, server, child, serverVars, ended, threadVars, at, ci, calling>>

(* advertise() or subscribe().  In a callback, and for the topic whose      *)
(* mailboxes are being walked, it may make the hash table grow, and the     *)
(* walk goes on in what was the table.                                      *)
CreateChild(c) ==
  /\ UserCalls /\ HasNode
  /\ child[c] = "none" /\ ~Contains(calling, c)
  /\ child' = [child EXCEPT ![c] = "live"]
  /\ \E grows \in {FALSE, calling # <<>> /\ "same topic" \in Liberties} :
       Faults(InfoFails(mailboxes, watched) \/ grows)
  /\ mailboxes' = mailboxes \cup {c}
  /\ UNCHANGED <<spinVars, server, remotes, serverVars, sock, ended, watched,
                 threadVars, userVars>>

(* A mutant: the mailbox stays with the mailman. *)
WithoutMailboxKeeps(mb, m) == mb

(* unregister_mailbox, which follows the pointer it finds under the        *)
(* mailbox's id: null if it is not registered.                             *)
WithoutMailbox(mb, m) == mb \ {m}

UnregisterFails(m) == m \notin mailboxes

(* ~publisher_impl or ~subscriber_impl; on a husk it does nothing. *)
DestroyChild(c) ==
  /\ UserCalls
  /\ child[c] # "none"
  /\ Contains(calling, c) => "in its callback" \in Liberties
  /\ child' = [child EXCEPT ![c] = "none"]
  /\ IF child[c] = "husk"
     THEN UNCHANGED <<mailboxes, fault>>
     ELSE /\ Faults(UnregisterFails(c) \/ ~HasNode)
          /\ mailboxes' = WithoutMailbox(mailboxes, c)
  /\ UNCHANGED <<spinVars, server, remotes, serverVars, sock, ended, watched,
                 threadVars, userVars>>

(* mailman::send has come to the mailbox of c: for a packet that a remote   *)
(* node got, or one that the user publishes.  Subscribers are of topics of  *)
(* their own, not of all ("*"), and bound: none is called within its own    *)
(* callback.                                                                *)
CallBack(c) ==
  /\ c \in Subscribers \cap mailboxes /\ ~Contains(calling, c)
  /\ \/ \E l \in alive \cap remotes : Spins(l)
     \/ UserCalls /\ \E p \in Publishers : child[p] = "live"
  /\ Faults(child[c] # "live")
  /\ calling' = Append(calling, c)
  /\ UNCHANGED <<spinVars, nodeVars, serverVars, sock, ended, watched, threadVars,
                 pc, at, ci>>

(* The callback returns to the walk, which goes on from the mailbox's       *)
(* place in the table.  If that was erased meanwhile, there is none.        *)
Return(c) ==
  /\ calling # <<>> /\ Last(calling) = c
  /\ Faults(c \notin mailboxes)
  /\ calling' = Front(calling)
  /\ UNCHANGED <<spinVars, nodeVars, serverVars, sock, ended, watched, threadVars,
                 pc, at, ci>>

-----------------------------------------------------------------------------
(* stop(), and the destructor of the node, which stops it too. *)

(* What the library expects of the user who stops a node: its publishers   *)
(* and subscribers are gone, and it has no connections.                    *)
MayStop ==
  /\ (\E c \in Children : child[c] = "live") => "children" \in Liberties
  /\ remotes # {} => "connected" \in Liberties

(* A node that was never spun is still to be added to the list. *)
MayDestroy == Contains(toAdd, Node) => "unspun" \in Liberties

(* stop_gateway_service closes the server and deletes its clients, then    *)
(* releases the server, which remains a spinett; the mailman is cleared.   *)
BeginStop(next) ==
  /\ IsFree /\ HasNode
  /\ MayStop
  /\ sock' = [l \in Links |->
                IF server # Null /\ Contains(clients[server], l) THEN "deleted"
                ELSE IF sock[l] = "waiting" THEN "none" ELSE sock[l]]
  /\ listening' = listening \ {server}
  /\ observed' = observed \ {server}
  /\ server' = Null
  /\ mailboxes' = {}
  /\ pc' = next
  /\ UNCHANGED <<spinVars, remotes, child, clients, ended, watched, todo, at, ci,
                 calling, fault>>

Stop == BeginStop("husk") /\ UNCHANGED thread

(* The destructor first lets the network thread finish. *)
Destroy ==
  /\ MayDestroy
  /\ ~HoldsMut
  /\ BeginStop("husk of dying")
  /\ thread' = "none"

(* set_husk of every publisher and subscriber unregisters its mailbox from *)
(* the mailman that was just cleared.                                      *)
MakeHusks ==
  /\ pc \in {"husk", "husk of dying"}
  /\ Faults(\E c \in Children : child[c] = "live" /\ UnregisterFails(c))
  /\ child' = [c \in Children |-> IF child[c] = "live" THEN "husk" ELSE child[c]]
  /\ pc' = IF pc = "husk" THEN "shut down" ELSE "shut down dying"
  /\ UNCHANGED <<spinVars, server, remotes, mailboxes, serverVars, sock, ended,
                 watched, threadVars, at, ci, calling>>

(* remote_node::shutdown of all: the links are no longer watched, and the  *)
(* transports close their sockets.  The remote nodes themselves stay       *)
(* alive: each owns the callback that owns it.  A dying node is destroyed. *)
ShutDown ==
  /\ pc \in {"shut down", "shut down dying"}
  /\ ~HoldsMut
  /\ watched' = WatchedNoMore(watched, remotes)
  /\ Faults(\E l \in remotes : sock[l] = "deleted")
  /\ sock' = [l \in Links |-> IF l \in remotes THEN "deleted" ELSE sock[l]]
  /\ remotes' = {}
  /\ IF pc = "shut down" THEN UNCHANGED spinVars ELSE Destruct(Node)
  /\ pc' = "user"
  /\ UNCHANGED <<server, mailboxes, child, serverVars, ended, threadVars, at, ci, calling>>

-----------------------------------------------------------------------------
(* spin_once. *)

BeginSpin ==
  /\ IsFree
  /\ pc' = "spin" /\ at' = 1
  /\ UNCHANGED <<spinVars, nodeVars, serverVars, sock, ended, watched, threadVars, ci,
                 calling, fault>>

(* A null entry is skipped. *)
SpinNull ==
  /\ Spins(Null)
  /\ Faults(~Skips(Null))
  /\ at' = at + 1
  /\ UNCHANGED <<spinVars, nodeVars, serverVars, sock, ended, watched, threadVars, pc,
                 ci, calling>>

(* node_impl::spin_update finds no link without a socket: a transport      *)
(* keeps its pointer until it is destroyed.                                *)
SpinNode ==
  /\ Spins(Node)
  /\ Faults(~HasNode)
  /\ at' = at + 1
  /\ UNCHANGED <<spinVars, nodeVars, serverVars, sock, ended, watched, threadVars, pc,
                 ci, calling>>

(* remote_node::spin_update; a remote node that was shut down asks the     *)
(* network thread for the packets of a null link (tcp_thread.cpp:56).      *)
SpinRemote(l) ==
  /\ Spins(l)
  /\ Faults(l \notin alive \/ l \notin remotes)
  /\ at' = at + 1
  /\ UNCHANGED <<spinVars, nodeVars, serverVars, sock, ended, watched, threadVars, pc,
                 ci, calling>>

(* tcp_server::spin_update looks at its clients one by one, ... *)
SpinServer(v) ==
  /\ Spins(v)
  /\ Faults(v \notin alive)
  /\ pc' = "check" /\ ci' = 1
  /\ UNCHANGED <<spinVars, nodeVars, serverVars, sock, ended, watched, threadVars, at, calling>>

Spun    == spinetts[at]
AllSeen == ci > Len(clients[Spun])
Client  == clients[Spun][ci]

(* A mutant: is_open() is not asked.  On a socket that the network thread  *)
(* has closed recv only fails.                                             *)
HasEndedByRecv(l) == sock[l] = "open" /\ l \in ended

(* recv returns zero, or the network thread has closed the socket. *)
HasEnded(l) == sock[l] = "closed" \/ (sock[l] = "open" /\ l \in ended)

CheckClient ==
  /\ pc = "check" /\ ~AllSeen
  /\ Faults(sock[Client] = "deleted")
  /\ IF HasEnded(Client)
     THEN pc' = "notify" /\ ci' = ci
     ELSE pc' = pc /\ ci' = ci + 1
  /\ UNCHANGED <<spinVars, nodeVars, serverVars, sock, ended, watched, threadVars, at, calling>>

(* ... tells the node of one that ended (server_disconnection): its remote *)
(* node is unregistered and destroyed, with its transport, which closes    *)
(* the socket; the rest of the graph is told, ...                          *)
Notify ==
  /\ pc = "notify"
  /\ IF Spun \in observed /\ Client \in remotes
     THEN /\ ~HoldsMut
          /\ mailboxes' = WithoutMailbox(mailboxes, Client)
          /\ watched' = WatchedNoMore(watched, {Client})
          /\ Faults(UnregisterFails(Client) \/ InfoFails(mailboxes', watched'))
          /\ remotes' = remotes \ {Client}
          /\ Destruct(Client)
          /\ sock' = [sock EXCEPT ![Client] = "closed"]
     ELSE UNCHANGED <<spinVars, remotes, mailboxes, watched, sock, fault>>
  /\ pc' = "delete"
  /\ UNCHANGED <<server, child, serverVars, ended, threadVars, at, ci, calling>>

(* ... and deletes the socket. *)
DeleteClient ==
  /\ pc = "delete"
  /\ sock' = [sock EXCEPT ![Client] = "deleted"]
  /\ clients' = [clients EXCEPT ![Spun] = RemoveAt(@, ci)]
  /\ pc' = "check"
  /\ UNCHANGED <<spinVars, nodeVars, listening, observed, ended, watched, threadVars,
                 at, ci, calling, fault>>

(* Then it accepts all who wait (server_connection). *)
Accept(l) ==
  /\ pc = "check" /\ AllSeen
  /\ Spun \in listening /\ sock[l] = "waiting"
  /\ clients' = [clients EXCEPT ![Spun] = Append(@, l)]
  /\ ci' = ci + 1
  /\ sock' = [sock EXCEPT ![l] = "open"]
  /\ AddRemote(l)
  /\ UNCHANGED <<spinetts, server, child, listening, observed, ended, threadVars, pc, at,
                 calling>>

EndServer ==
  /\ pc = "check" /\ AllSeen
  /\ Spun \in listening => \A l \in Links : sock[l] # "waiting"
  /\ pc' = "spin" /\ at' = at + 1
  /\ UNCHANGED <<spinVars, nodeVars, serverVars, sock, ended, watched, threadVars, ci,
                 calling, fault>>

EndSpin ==
  /\ pc = "spin" /\ at > Len(spinetts)
  /\ spinetts' = Swept(spinetts \o toAdd)
  /\ toAdd' = StillToAdd
  /\ pc' = "user"
  /\ UNCHANGED <<alive, nodeVars, serverVars, sock, ended, watched, threadVars, at, ci,
                 calling, fault>>

Spin ==
  \/ BeginSpin \/ SpinNull \/ SpinNode
  \/ \E l \in Links : SpinRemote(l) \/ Accept(l)
  \/ \E v \in Servers : SpinServer(v)
  \/ CheckClient \/ Notify \/ DeleteClient \/ EndServer \/ EndSpin

Calls ==
  \/ CreateNode \/ Join \/ Stop \/ Destroy \/ MakeHusks \/ ShutDown
  \/ \E v \in Servers : StartGateway(v, "user") \/ StartGateway(v, "join")
  \/ \E c \in Children : CreateChild(c) \/ DestroyChild(c)
  \/ \E c \in Subscribers : CallBack(c) \/ Return(c)

Others ==
  \/ \E l \in Accepted : ClientConnects(l)
  \/ \E l \in Links : PeerEnds(l)

Next == Spin \/ Calls \/ NetworkThread \/ Others

Spec == Init /\ [][Next]_vars

(* The user spins again and again, and finishes what it starts; the packets *)
(* of a link come to an end, and callbacks return; _mut is free between the *)
(* passes, while the network thread sleeps.                                 *)
Fairness ==
  /\ SF_vars(Spin \/ Join \/ MakeHusks \/ ShutDown)
  /\ \A c \in Subscribers : SF_vars(Return(c))
  /\ WF_vars(NetworkThread)

FairSpec == Spec /\ Fairness

-----------------------------------------------------------------------------
TypeOK ==
  /\ alive \subseteq Spinetts
  /\ spinetts \in Seq(Spinetts \cup {Null})
  /\ toAdd \in Seq(Spinetts)
  /\ Len(spinetts) + Len(toAdd) <= MaxSlots
  /\ server \in Servers \cup {Null}
  /\ remotes \subseteq Links
  /\ mailboxes \subseteq {Node} \cup Links \cup Children
  /\ child \in [Children -> {"none", "live", "husk"}]
  /\ listening \subseteq Servers /\ observed \subseteq Servers
  /\ clients \in [Servers -> Seq(Accepted)]
  /\ sock \in [Links -> {"none", "waiting", "open", "closed", "deleted"}]
  /\ ended \subseteq Links /\ watched \subseteq Links /\ todo \subseteq Links
  /\ thread \in {"none", "idle", "pass"}
  /\ pc \in {"user", "join", "husk", "husk of dying", "shut down", "shut down dying",
             "spin", "check", "notify", "delete"}
  /\ at \in Nat /\ ci \in Nat /\ calling \in Seq(Subscribers)
  /\ fault \in BOOLEAN

(* Spinetts register while the list is walked, and are destroyed while it  *)
(* is walked, by others and in the same turn of the loop.  All the same    *)
(* every living one is in exactly one place of the two lists, so that it   *)
(* is called once in every spin, and no place holds one that is gone.      *)
SpinettsExact ==
  LET all == spinetts \o toAdd IN
  /\ \A i \in DOMAIN all : all[i] # Null => all[i] \in alive
  /\ \A o \in alive : Cardinality({i \in DOMAIN all : all[i] = o}) = 1

(* The mailman delivers to the remote nodes, publishers and subscribers    *)
(* that exist, and to no others, however connections end and callbacks     *)
(* register.                                                               *)
MailboxesExact == mailboxes \ {Node} = remotes \cup {c \in Children : child[c] = "live"}

(* The server deletes a client's socket in the user thread, and the        *)
(* network thread, which still has a pointer to it, never uses it after:   *)
(* no link is watched, or about to be visited, whose socket is deleted.    *)
SocketOutlivesLink ==
  \A l \in watched \cup (IF thread = "pass" THEN todo ELSE {}) : sock[l] # "deleted"

(* No pointer to something destroyed is followed, and none that is null:   *)
(* in particular a publisher or subscriber that outlives its node becomes  *)
(* a husk (publisher_impl.hpp:37-39).                                      *)
NothingDangles == ~fault

(* When the other end of an accepted connection ends, the node forgets it, *)
(* whichever of its two threads notices first.                             *)
EndedIsForgotten ==
  \A l \in Accepted : l \in remotes /\ l \in ended ~> l \notin remotes
=============================================================================
