------------------------------- MODULE Splat -------------------------------
(***************************************************************************)
(* A splat: a file mapped into several processes that holds the latest     *)
(* packet of one firehose (splat.cpp, and what node_impl does with it when *)
(* it is compiled with SPLAT_ENABLED).                                     *)
(*                                                                         *)
(* One node publishes.  The others map the file when an info announces it, *)
(* anew with every info, and poll it each time they spin.  All of them     *)
(* take the mutex that lies in the file itself.  But whoever maps the file *)
(* first truncates it: for a moment it has no bytes at all, and an access  *)
(* ends the process with a bus error; then it has only zeroes, and the     *)
(* mutex with them is free, whoever holds it.                              *)
(***************************************************************************)
EXTENDS Naturals, Sequences, FiniteSets

CONSTANTS
  Pub,         \* the publishing node
  Subs,        \* the nodes that subscribe
  Chunks,      \* a packet is copied in this many pieces
  MaxVersion,  \* bound: packets pushed
  MaxConnects  \* bound: connections made

ASSUME SplatAssumption ==
  /\ Pub \notin Subs
  /\ Chunks \in Nat \ {0} /\ MaxVersion \in Nat /\ MaxConnects \in Nat

Nodes == {Pub} \cup Subs

VARIABLES
  locked, version, size, data, \* splat_data, in the file
  sized,       \* the file has its full length
  pc,          \* where each node is
  pos,         \* the piece that a node copies next
  current,     \* splat::_current_version of each node's splat
  seen,        \* the pieces a subscriber has copied
  latest,      \* history: the packets each subscriber polled, and whether
               \* the file was upset then
  connects,    \* bound: connections made
  dead,        \* nodes ended by a bus error
  upset        \* history: the file was truncated under a node that holds
               \* the mutex or waits to read, and not all are done since

fileVars == <<locked, version, size, data>>
nodeVars == <<pos, current, seen, latest>>
vars == <<fileVars, sized, pc, nodeVars, connects, dead, upset>>

(* A packet is told by its version: every piece of it is that number. *)
Blank == [i \in 1..Chunks |-> 0]

Init ==
  /\ locked = FALSE /\ version = 0 /\ size = 0 /\ data = Blank
  /\ sized = FALSE
  /\ pc = [n \in Nodes |-> "off"]
  /\ pos = [n \in Nodes |-> 1]
  /\ current = [n \in Nodes |-> 0]
  /\ seen = [s \in Subs |-> Blank]
  /\ latest = [s \in Subs |-> <<>>]
  /\ connects = 0
  /\ dead = {}
  /\ upset = FALSE

(* The nodes that believe they hold the mutex. *)
Inside == {n \in Nodes \ dead : pc[n] \in {"version", "size", "copy"}}

Goto(n, place) == pc' = [pc EXCEPT ![n] = place]

(* A subscriber that saw a new version waits for the mutex to read it. *)
Busy == Inside \cup {s \in Subs \ dead : pc[s] = "lock"}

(* The next step of n touches the file, and may. *)
Touches(n, place) == pc[n] = place /\ n \notin dead /\ sized

(* The disturbance is over when nobody it may have met is left. *)
Calms == upset' = (upset /\ Busy' # {})

-----------------------------------------------------------------------------
(* The mutex: a loop of trylock while it is busy. *)

(* A mutant: EBUSY is ignored. *)
MayLockAlways == TRUE

MayLock == ~locked

Lock(n) ==
  /\ Touches(n, "lock")
  /\ MayLock
  /\ locked' = TRUE
  /\ Goto(n, "version")
  /\ UNCHANGED <<version, size, data, sized, nodeVars, connects, dead, upset>>

(* A mutant: the mutex is kept. *)
AfterUnlockKept == locked

AfterUnlock == FALSE

(* A mutant: one piece too many. *)
CopiedOneMore(n) == pos[n] > Chunks + 1

(* The last piece is copied. *)
Copied(n) == pos[n] > Chunks

(* A node touches the file while it is cut to nothing. *)
BusError(n) ==
  /\ ~sized /\ n \notin dead
  /\ pc[n] \in {"lock", "version", "size", "copy"} \/ (n \in Subs /\ pc[n] = "idle")
  /\ dead' = dead \cup {n}
  /\ UNCHANGED <<fileVars, sized, pc, nodeVars, connects>>
  /\ Calms

-----------------------------------------------------------------------------
(* The publisher. *)

(* create(): the first packet of the topic makes the file, which nobody    *)
(* else knows of before the info that follows.                             *)
Create ==
  /\ pc[Pub] = "off"
  /\ sized' = TRUE
  /\ Goto(Pub, "idle")
  /\ UNCHANGED <<fileVars, nodeVars, connects, dead, upset>>

(* push(), of push_splat: the node counts its own pushes. *)
Push ==
  /\ pc[Pub] = "idle" /\ Pub \notin dead
  /\ current[Pub] < MaxVersion
  /\ current' = [current EXCEPT ![Pub] = @ + 1]
  /\ Goto(Pub, "lock")
  /\ UNCHANGED <<fileVars, sized, pos, seen, latest, connects, dead, upset>>

PushVersion ==
  /\ Touches(Pub, "version")
  /\ version' = current[Pub]
  /\ Goto(Pub, "size")
  /\ UNCHANGED <<locked, size, data, sized, nodeVars, connects, dead, upset>>

PushSize ==
  /\ Touches(Pub, "size")
  /\ size' = Chunks
  /\ pos' = [pos EXCEPT ![Pub] = 1]
  /\ Goto(Pub, "copy")
  /\ UNCHANGED <<locked, version, data, sized, current, seen, latest, connects, dead, upset>>

PushPiece ==
  /\ Touches(Pub, "copy") /\ ~Copied(Pub)
  /\ data' = [data EXCEPT ![pos[Pub]] = current[Pub]]
  /\ pos' = [pos EXCEPT ![Pub] = @ + 1]
  /\ UNCHANGED <<locked, version, size, sized, pc, current, seen, latest, connects, dead, upset>>

PushEnds ==
  /\ Touches(Pub, "copy") /\ Copied(Pub)
  /\ locked' = AfterUnlock
  /\ Goto(Pub, "idle")
  /\ UNCHANGED <<version, size, data, sized, nodeVars, connects, dead>>
  /\ Calms

-----------------------------------------------------------------------------
(* The subscribers. *)

(* A mutant: the file is opened without O_TRUNC. *)
CutNot(value, blank) == value

(* open with O_TRUNC. *)
Cut(value, blank) == blank

(* An info has come: untally closes the splat there was, and tally has     *)
(* register_splat map the file anew: it opens it, ...                      *)
Register(s) ==
  /\ pc[Pub] # "off"
  /\ pc[s] \in {"off", "idle"} /\ s \notin dead
  /\ connects < MaxConnects
  /\ connects' = connects + 1
  /\ locked' = Cut(locked, FALSE)
  /\ version' = Cut(version, 0)
  /\ size' = Cut(size, 0)
  /\ data' = Cut(data, Blank)
  /\ sized' = FALSE
  /\ current' = [current EXCEPT ![s] = 0]
  /\ Goto(s, "connect")
  /\ upset' = (upset \/ Busy # {})
  /\ UNCHANGED <<pos, seen, latest, dead>>

(* ... and gives it its length. *)
Connect(s) ==
  /\ pc[s] = "connect"
  /\ sized' = TRUE
  /\ Goto(s, "idle")
  /\ UNCHANGED <<fileVars, nodeVars, connects, dead, upset>>

(* unregister_splat: the info that comes next announces it no more. *)
Unregister(s) ==
  /\ pc[s] = "idle" /\ s \notin dead
  /\ Goto(s, "off")
  /\ UNCHANGED <<fileVars, sized, nodeVars, connects, dead, upset>>

(* update_available(). *)
Available(s) == version # current[s] /\ size # 0

(* update_splats, in every spin of every remote node. *)
UpdateSplats(s) ==
  /\ s \in Subs /\ Touches(s, "idle")
  /\ Available(s)
  /\ Goto(s, "lock")
  /\ UNCHANGED <<fileVars, sized, nodeVars, connects, dead, upset>>

(* poll() takes the version, ... *)
PollVersion(s) ==
  /\ Touches(s, "version")
  /\ current' = [current EXCEPT ![s] = version]
  /\ pos' = [pos EXCEPT ![s] = 1]
  /\ Goto(s, "copy")
  /\ UNCHANGED <<fileVars, sized, seen, latest, connects, dead, upset>>

(* ... copies the packet, ... *)
PollPiece(s) ==
  /\ Touches(s, "copy") /\ ~Copied(s)
  /\ seen' = [seen EXCEPT ![s][pos[s]] = data[pos[s]]]
  /\ pos' = [pos EXCEPT ![s] = @ + 1]
  /\ UNCHANGED <<fileVars, sized, pc, current, latest, connects, dead, upset>>

(* ... unlocks, and the packet goes to the node's subscribers. *)
PollEnds(s) ==
  /\ Touches(s, "copy") /\ Copied(s)
  /\ latest' = [latest EXCEPT ![s] = Append(@, [packet |-> seen[s], calm |-> ~upset])]
  /\ locked' = AfterUnlock
  /\ Goto(s, "idle")
  /\ UNCHANGED <<version, size, data, sized, pos, current, seen, connects, dead>>
  /\ Calms

-----------------------------------------------------------------------------
Pushes == PushVersion \/ PushSize \/ PushPiece \/ PushEnds

Polls(s) ==
  Connect(s) \/ UpdateSplats(s) \/ PollVersion(s) \/ PollPiece(s) \/ PollEnds(s)

Next ==
  \/ Create \/ Push \/ Pushes
  \/ \E n \in Nodes : Lock(n) \/ BusError(n)
  \/ \E s \in Subs : Register(s) \/ Unregister(s) \/ Polls(s)

Spec == Init /\ [][Next]_vars

(* Every process runs: the loop of trylock takes a mutex that is free time *)
(* and again, and what was begun goes on.                                  *)
Fairness ==
  /\ WF_vars(Pushes) /\ \A s \in Subs : WF_vars(Polls(s))
  /\ \A n \in Nodes : SF_vars(Lock(n))

FairSpec == Spec /\ Fairness

-----------------------------------------------------------------------------
TypeOK ==
  /\ locked \in BOOLEAN
  /\ version \in 0..MaxVersion /\ size \in {0, Chunks}
  /\ data \in [1..Chunks -> 0..MaxVersion]
  /\ sized \in BOOLEAN
  /\ pc \in [Nodes -> {"off", "connect", "idle", "lock", "version", "size", "copy"}]
  /\ pos \in [Nodes -> 1..(Chunks + 1)]
  /\ current \in [Nodes -> 0..MaxVersion]
  /\ seen \in [Subs -> [1..Chunks -> 0..MaxVersion]]
  /\ latest \in [Subs -> Seq([packet : [1..Chunks -> 0..MaxVersion], calm : BOOLEAN])]
  /\ connects \in 0..MaxConnects
  /\ dead \subseteq Nodes
  /\ upset \in BOOLEAN

(* Two processes are inside the mutex only after the file was truncated    *)
(* under one of them; once all have left, it works again.                  *)
ExclusiveUnlessUpset == ~upset => Cardinality(Inside) <= 1

(* A poll that no truncation disturbs returns one whole packet, ... *)
Whole(p) == p[1] # 0 /\ \A i \in 1..Chunks : p[i] = p[1]

WholeUnlessUpset ==
  \A s \in Subs : \A k \in 1..Len(latest[s]) :
    latest[s][k].calm => Whole(latest[s][k].packet)

(* ... and a newer one than any such poll before it: although a new splat  *)
(* forgets which version the old one had, no push is delivered twice.      *)
(* (A publication is pushed once for every connection of the publisher.)   *)
NewerUnlessUpset ==
  \A s \in Subs : \A k \in 1..Len(latest[s]) : \A j \in 1..(k - 1) :
    latest[s][j].calm /\ latest[s][k].calm
      => latest[s][j].packet[1] < latest[s][k].packet[1]

(* The publisher's user thread is not caught in the loop of trylock, as    *)
(* long as no process has died.                                            *)
PushReturns == pc[Pub] = "lock" ~> pc[Pub] # "lock" \/ dead # {}
=============================================================================
