----------------------------- MODULE TcpThread -----------------------------
(***************************************************************************)
(* tcp_thread (libdaylite/src/tcp_thread.cpp): the network thread of a     *)
(* node and the queues it shares with the user thread.                     *)
(*                                                                         *)
(* Two threads run.  The user thread (the one that spins) calls            *)
(* add_socket, remove_socket, send, next and exit.  The network thread     *)
(* repeats a pass over all watched transports; it holds _mut for the whole *)
(* pass and a buffer's own mutex while it writes that buffer out.  The     *)
(* locks are not variables of their own: they are functions of where the   *)
(* network thread is (HoldsMut, HoldsBuffer), and a user call that needs a *)
(* lock is one step, enabled when the lock is free.                        *)
(*                                                                         *)
(* A packet is one element of a wire: the framing below it is the business *)
(* of tcp_input_channel and tcp_output_channel.                            *)
(***************************************************************************)
EXTENDS Naturals, Sequences, FiniteSets, Functions

CONSTANTS
  Links,        \* the transports a node may have
  Topics,       \* topic names
  ReadBatch,    \* packets read from one link in one pass (100 in the code)
  WireCapacity, \* packets a link's send buffer holds before EAGAIN
  MaxPackets    \* bound: packets offered, in both directions together

ASSUME BoundsAssumption ==
  /\ Links # {}
  /\ ReadBatch \in Nat \ {0}
  /\ WireCapacity \in Nat \ {0}
  /\ MaxPackets \in Nat

VARIABLES
  watched,      \* _buffers' keys
  out,          \* buffer::out
  in,           \* buffer::in
  outFirehose,  \* buffer::out_firehose
  inFirehose,   \* buffer::in_firehose
  rejectOut,    \* buffer::reject_out_count
  pc,           \* where the network thread is in run()
  todo,         \* links the current pass has still to visit
  cur,          \* the link being visited (it->first)
  wi,           \* index in out[cur] of the packet being written
  ri,           \* iterations of the read loop made for cur
  exitFlag,     \* _exit
  open,         \* the transport's channels exist and its socket is open
  peerGone,     \* the other end has closed the connection
  wireOut,      \* written, not yet read by the peer
  wireIn,       \* sent by the peer, still in the socket
  inBuf,        \* received into tcp_input_channel::_buffer, not yet parsed
  nextId,       \* serial number of the next packet
  offered,      \* history: packets send() answered with success
  handed,       \* history: packets given to the output channel, in order
  arrived,      \* history: packets parsed from the input channel
  taken         \* history: packets next() returned, in order

bufferVars  == <<watched, out, in, outFirehose, inFirehose, rejectOut>>
threadVars  == <<pc, todo, cur, wi, ri, exitFlag>>
linkVars    == <<open, peerGone, wireOut, wireIn, inBuf>>
historyVars == <<offered, handed, arrived, taken>>
vars == <<bufferVars, threadVars, linkVars, nextId, historyVars>>

Packet == [topic : Topics, droppable : BOOLEAN, id : 0..MaxPackets]

(* The packet offered next, on either end. *)
Fresh(p) == p.id = nextId /\ nextId < MaxPackets /\ nextId' = nextId + 1

-----------------------------------------------------------------------------
(* Locks. *)

(* run() holds _mut from the start of a pass to its end. *)
HoldsMut == pc \notin {"idle", "done"}

(* run() holds buffer::mut of the link whose out queue it is writing. *)
HoldsBuffer(l) == pc = "write" /\ cur = l

(* The user thread is blocked in exit() until the network thread is done. *)
UserRuns == exitFlag => pc = "done"

-----------------------------------------------------------------------------
Init ==
  /\ watched = {}
  /\ out = [l \in Links |-> <<>>]
  /\ in = [l \in Links |-> <<>>]
  /\ outFirehose = [l \in Links |-> {}]
  /\ inFirehose = [l \in Links |-> {}]
  /\ rejectOut = [l \in Links |-> 0]
  /\ pc = "idle"
  /\ todo = {}
  /\ cur \in Links
  /\ wi = 1
  /\ ri = 0
  /\ exitFlag = FALSE
  /\ open = [l \in Links |-> FALSE]
  /\ peerGone = [l \in Links |-> FALSE]
  /\ wireOut = [l \in Links |-> <<>>]
  /\ wireIn = [l \in Links |-> <<>>]
  /\ inBuf = [l \in Links |-> <<>>]
  /\ nextId = 0
  /\ offered = [l \in Links |-> {}]
  /\ handed = [l \in Links |-> <<>>]
  /\ arrived = [l \in Links |-> {}]
  /\ taken = [l \in Links |-> <<>>]

(* A fresh buffer for l; the entry of a link that is not watched is empty. *)
ResetBuffer(l) ==
  /\ out' = [out EXCEPT ![l] = <<>>]
  /\ in' = [in EXCEPT ![l] = <<>>]
  /\ outFirehose' = [outFirehose EXCEPT ![l] = {}]
  /\ inFirehose' = [inFirehose EXCEPT ![l] = {}]
  /\ rejectOut' = [rejectOut EXCEPT ![l] = 0]
  /\ offered' = [offered EXCEPT ![l] = {}]
  /\ handed' = [handed EXCEPT ![l] = <<>>]
  /\ arrived' = [arrived EXCEPT ![l] = {}]
  /\ taken' = [taken EXCEPT ![l] = <<>>]

-----------------------------------------------------------------------------
(* The user thread. *)

(* add_socket: a remote_node is built around a transport that was just     *)
(* opened.  A second call for a watched transport fails and changes        *)
(* nothing.                                                                *)
AddSocket(l) ==
  /\ UserRuns
  /\ l \notin watched
  /\ ~HoldsMut
  /\ watched' = watched \cup {l}
  /\ ResetBuffer(l)
  /\ open' = [open EXCEPT ![l] = TRUE]
  /\ peerGone' = [peerGone EXCEPT ![l] = FALSE]
  /\ wireOut' = [wireOut EXCEPT ![l] = <<>>]
  /\ wireIn' = [wireIn EXCEPT ![l] = <<>>]
  /\ inBuf' = [inBuf EXCEPT ![l] = <<>>]
  /\ UNCHANGED <<threadVars, nextId>>

(* remove_socket, and the destruction of the transport that follows it in  *)
(* remote_node::shutdown.                                                  *)
RemoveSocket(l) ==
  /\ UserRuns
  /\ l \in watched
  /\ ~HoldsMut
  /\ watched' = watched \ {l}
  /\ ResetBuffer(l)
  /\ open' = [open EXCEPT ![l] = FALSE]
  /\ wireIn' = [wireIn EXCEPT ![l] = <<>>]
  /\ inBuf' = [inBuf EXCEPT ![l] = <<>>]
  /\ UNCHANGED <<threadVars, peerGone, wireOut, nextId>>

(* A mutant: the test applies to ordinary packets too. *)
RefusedAnyPacket(firehose, p) == p.topic \in firehose

(* The firehose test of send and of run: a droppable packet of p's topic   *)
(* is in the queue the set belongs to.                                     *)
Refused(firehose, p) == p.droppable /\ p.topic \in firehose

(* A mutant: the topic is not remembered. *)
AfterPushForgets(firehose, p) == firehose

(* The set once p has been queued. *)
AfterPush(firehose, p) ==
  IF p.droppable THEN firehose \cup {p.topic} ELSE firehose

(* A mutant: the topic stays refused. *)
AfterPopKeeps(firehose, p) == firehose

(* The set once p has been popped. *)
AfterPop(firehose, p) ==
  IF p.droppable THEN firehose \ {p.topic} ELSE firehose

(* send: queue p, or count it as rejected. *)
Send(l, p) ==
  /\ UserRuns
  /\ l \in watched
  /\ ~HoldsBuffer(l)
  /\ Fresh(p)
  /\ IF Refused(outFirehose[l], p)
     THEN /\ rejectOut' = [rejectOut EXCEPT ![l] = @ + 1]
          /\ UNCHANGED <<out, outFirehose>>
     ELSE /\ out' = [out EXCEPT ![l] = Append(@, p)]
          /\ outFirehose' = [outFirehose EXCEPT ![l] = AfterPush(@, p)]
          /\ UNCHANGED rejectOut
  /\ offered' = [offered EXCEPT ![l] = @ \cup {p}]
  /\ UNCHANGED <<watched, in, inFirehose, threadVars, linkVars, handed, arrived, taken>>

(* next: pop the oldest received packet; its topic may be received again.  *)
NextPacket(l) ==
  /\ UserRuns
  /\ l \in watched
  /\ ~HoldsBuffer(l)
  /\ in[l] # <<>>
  /\ in' = [in EXCEPT ![l] = Tail(@)]
  /\ inFirehose' = [inFirehose EXCEPT ![l] = AfterPop(@, Head(in[l]))]
  /\ taken' = [taken EXCEPT ![l] = Append(@, Head(in[l]))]
  /\ UNCHANGED <<watched, out, outFirehose, rejectOut, threadVars, linkVars,
                 nextId, offered, handed, arrived>>

(* exit: raise the flag and join (UserRuns blocks the rest until then). *)
Exit ==
  /\ ~exitFlag
  /\ exitFlag' = TRUE
  /\ UNCHANGED <<bufferVars, pc, todo, cur, wi, ri, linkVars, nextId, historyVars>>

-----------------------------------------------------------------------------
(* The network thread: run(). *)

(* Mutants: the flag is never tested; the thread waits for input. *)
KeepsRunningForEver == TRUE
KeepsRunningOnInput == ~exitFlag /\ \E l \in watched : wireIn[l] # <<>>

(* The test of the outer loop, while(!_exit). *)
KeepsRunning == ~exitFlag

(* while(!_exit): take _mut and start a pass over the watched links. *)
StartPass ==
  /\ pc = "idle"
  /\ KeepsRunning
  /\ pc' = "visit"
  /\ todo' = watched
  /\ UNCHANGED <<bufferVars, cur, wi, ri, exitFlag, linkVars, nextId, historyVars>>

LeaveLoop ==
  /\ pc = "idle"
  /\ exitFlag
  /\ pc' = "done"
  /\ UNCHANGED <<bufferVars, todo, cur, wi, ri, exitFlag, linkVars, nextId, historyVars>>

(* The next buffer of the pass.  With an output channel its out queue is   *)
(* locked and written; without one the visit goes on to update().          *)
Visit(l) ==
  /\ pc = "visit"
  /\ l \in todo
  /\ cur' = l
  /\ pc' = IF open[l] THEN "write" ELSE "update"
  /\ wi' = 1
  /\ UNCHANGED <<bufferVars, todo, ri, exitFlag, linkVars, nextId, historyVars>>

(* One packet of the out queue.  tcp_output_channel::write repeats while   *)
(* the send buffer is full, so the step is disabled then; to a peer that   *)
(* is gone the write fails (or is accepted and lost), and the loop goes    *)
(* on either way.                                                          *)
WriteOne ==
  /\ pc = "write"
  /\ wi <= Len(out[cur])
  /\ \/ /\ peerGone[cur]
        /\ UNCHANGED wireOut
     \/ /\ ~peerGone[cur]
        /\ Len(wireOut[cur]) < WireCapacity
        /\ wireOut' = [wireOut EXCEPT ![cur] = Append(@, out[cur][wi])]
  /\ handed' = [handed EXCEPT ![cur] = Append(@, out[cur][wi])]
  /\ wi' = wi + 1
  /\ UNCHANGED <<bufferVars, pc, todo, cur, ri, exitFlag, open, peerGone, wireIn,
                 inBuf, nextId, offered, arrived, taken>>

(* A mutant: the loop gives up when a write fails. *)
WriteLoopEndsOnFailure == wi > Len(out[cur]) \/ peerGone[cur]

(* Every packet of the out queue was handed to the channel. *)
WriteLoopEnds == wi > Len(out[cur])

(* A mutant: out_firehose.clear() is missing. *)
AfterFlushKeeps(firehose) == firehose

(* out_firehose once the queue it mirrors is cleared. *)
AfterFlush(firehose) == {}

(* The queue is written: it is cleared with its firehose state, unlocked.  *)
Flushed ==
  /\ pc = "write"
  /\ WriteLoopEnds
  /\ out' = [out EXCEPT ![cur] = <<>>]
  /\ outFirehose' = [outFirehose EXCEPT ![cur] = AfterFlush(@)]
  /\ rejectOut' = [rejectOut EXCEPT ![cur] = 0]
  /\ pc' = "update"
  /\ UNCHANGED <<watched, in, inFirehose, todo, cur, wi, ri, exitFlag, linkVars,
                 nextId, historyVars>>

(* transport::update: at the end of the stream close the transport, and    *)
(* with it the input channel and whatever its buffer still holds.          *)
Update ==
  /\ pc = "update"
  /\ LET eof == open[cur] /\ peerGone[cur] /\ wireIn[cur] = <<>> IN
       /\ open' = [open EXCEPT ![cur] = @ /\ ~eof]
       /\ inBuf' = [inBuf EXCEPT ![cur] = IF eof THEN <<>> ELSE @]
  /\ ri' = 0
  /\ pc' = "read"
  /\ UNCHANGED <<bufferVars, todo, cur, wi, exitFlag, peerGone, wireOut, wireIn,
                 nextId, historyVars>>

(* A mutant: one iteration too many. *)
InBatchOneMore == ri <= ReadBatch

(* The bound of the read loop. *)
InBatch == ri < ReadBatch

(* tcp_input_channel::read finds its buffer empty: recv moves what has     *)
(* come in, all or a part of it, from the socket to the buffer.            *)
Receive ==
  /\ pc = "read" /\ InBatch /\ open[cur]
  /\ inBuf[cur] = <<>>
  /\ \E n \in 1..Len(wireIn[cur]) :
       /\ inBuf' = [inBuf EXCEPT ![cur] = SubSeq(wireIn[cur], 1, n)]
       /\ wireIn' = [wireIn EXCEPT ![cur] = SubSeq(@, n + 1, Len(@))]
  /\ UNCHANGED <<bufferVars, threadVars, open, peerGone, wireOut, nextId, historyVars>>

(* One packet is parsed and queued, or dropped when it is droppable and    *)
(* one of its topic still waits to be taken.                               *)
ReadOne ==
  /\ pc = "read" /\ InBatch /\ open[cur]
  /\ inBuf[cur] # <<>>
  /\ LET p == Head(inBuf[cur]) IN
       /\ IF Refused(inFirehose[cur], p)
          THEN UNCHANGED <<in, inFirehose>>
          ELSE /\ in' = [in EXCEPT ![cur] = Append(@, p)]
               /\ inFirehose' = [inFirehose EXCEPT ![cur] = AfterPush(@, p)]
       /\ arrived' = [arrived EXCEPT ![cur] = @ \cup {p}]
  /\ inBuf' = [inBuf EXCEPT ![cur] = Tail(@)]
  /\ ri' = ri + 1
  /\ UNCHANGED <<watched, out, outFirehose, rejectOut, pc, todo, cur, wi, exitFlag,
                 open, peerGone, wireOut, wireIn, nextId, offered, handed, taken>>

(* A mutant: the loop ends as soon as the socket is dry. *)
ReadLoopEndsDry == ~InBatch \/ ~open[cur] \/ wireIn[cur] = <<>>

(* The read loop ends: the batch is full, nothing is there, or there is no *)
(* input channel.                                                          *)
ReadLoopEnds ==
  \/ ~InBatch
  \/ ~open[cur]
  \/ inBuf[cur] = <<>> /\ wireIn[cur] = <<>>

EndVisit ==
  /\ pc = "read"
  /\ ReadLoopEnds
  /\ todo' = todo \ {cur}
  /\ pc' = "visit"
  /\ UNCHANGED <<bufferVars, cur, wi, ri, exitFlag, linkVars, nextId, historyVars>>

(* Every buffer was visited: unlock _mut, sleep. *)
EndPass ==
  /\ pc = "visit"
  /\ todo = {}
  /\ pc' = "idle"
  /\ UNCHANGED <<bufferVars, todo, cur, wi, ri, exitFlag, linkVars, nextId, historyVars>>

NetworkThread ==
  \/ StartPass \/ LeaveLoop
  \/ \E l \in Links : Visit(l)
  \/ WriteOne \/ Flushed \/ Update
  \/ Receive \/ ReadOne \/ EndVisit \/ EndPass

-----------------------------------------------------------------------------
(* The other end of a link (external). *)

PeerRead(l) ==
  /\ ~peerGone[l]
  /\ wireOut[l] # <<>>
  /\ wireOut' = [wireOut EXCEPT ![l] = Tail(@)]
  /\ UNCHANGED <<bufferVars, threadVars, open, peerGone, wireIn, inBuf, nextId, historyVars>>

PeerSend(l, p) ==
  /\ open[l] /\ ~peerGone[l]
  /\ Fresh(p)
  /\ wireIn' = [wireIn EXCEPT ![l] = Append(@, p)]
  /\ UNCHANGED <<bufferVars, threadVars, open, peerGone, wireOut, inBuf, historyVars>>

PeerClose(l) ==
  /\ open[l] /\ ~peerGone[l]
  /\ peerGone' = [peerGone EXCEPT ![l] = TRUE]
  /\ wireOut' = [wireOut EXCEPT ![l] = <<>>]
  /\ UNCHANGED <<bufferVars, threadVars, open, wireIn, inBuf, nextId, historyVars>>

-----------------------------------------------------------------------------
UserThread ==
  \/ \E l \in Links : AddSocket(l) \/ RemoveSocket(l) \/ NextPacket(l)
  \/ \E l \in Links, p \in Packet : Send(l, p)
  \/ Exit

Peer ==
  \/ \E l \in Links : PeerRead(l) \/ PeerClose(l)
  \/ \E l \in Links, p \in Packet : PeerSend(l, p)

Next == UserThread \/ NetworkThread \/ Peer

Spec == Init /\ [][Next]_vars

(* The network thread is a running thread, and the peer's network thread,  *)
(* which runs the same loop, keeps reading.  Nothing obliges the user.     *)
Fairness ==
  /\ WF_vars(NetworkThread)
  /\ \A l \in Links : WF_vars(PeerRead(l))

FairSpec == Spec /\ Fairness

-----------------------------------------------------------------------------
(* The queues as the other side of the lock sees them. *)

(* What is still to be written: during the write loop the packets before   *)
(* wi are already handed to the channel, though out is cleared at the end. *)
Pending(l) ==
  IF HoldsBuffer(l) THEN SubSeq(out[l], wi, Len(out[l])) ELSE out[l]

DroppableTopics(s) == {s[k].topic : k \in {j \in 1..Len(s) : s[j].droppable}}

OneDroppablePerTopic(s) ==
  \A j, k \in 1..Len(s) :
    s[j].droppable /\ s[k].droppable /\ s[j].topic = s[k].topic => j = k

Increasing(s) == \A j, k \in 1..Len(s) : j < k => s[j].id < s[k].id

(* p is in the stream s, or it was droppable and an older droppable packet *)
(* of its topic is.                                                        *)
Represented(p, s) ==
  \E k \in 1..Len(s) :
    \/ s[k] = p
    \/ p.droppable /\ s[k].droppable /\ s[k].topic = p.topic /\ s[k].id < p.id

TypeOK ==
  /\ watched \subseteq Links
  /\ out \in [Links -> Seq(Packet)]
  /\ in \in [Links -> Seq(Packet)]
  /\ outFirehose \in [Links -> SUBSET Topics]
  /\ inFirehose \in [Links -> SUBSET Topics]
  /\ rejectOut \in [Links -> Nat]
  /\ pc \in {"idle", "visit", "write", "update", "read", "done"}
  /\ todo \subseteq Links
  /\ cur \in Links
  /\ wi \in Nat \ {0}
  /\ ri \in 0..ReadBatch
  /\ exitFlag \in BOOLEAN
  /\ open \in [Links -> BOOLEAN]
  /\ peerGone \in [Links -> BOOLEAN]
  /\ wireOut \in [Links -> Seq(Packet)]
  /\ wireIn \in [Links -> Seq(Packet)]
  /\ inBuf \in [Links -> Seq(Packet)]
  /\ nextId \in 0..MaxPackets
  /\ offered \in [Links -> SUBSET Packet]
  /\ handed \in [Links -> Seq(Packet)]
  /\ arrived \in [Links -> SUBSET Packet]
  /\ taken \in [Links -> Seq(Packet)]

(* The firehose sets, which are updated by three different functions under *)
(* the buffer's lock, are at all times exactly the droppable topics in the *)
(* queue they stand for, and a topic is queued at most once: a publisher   *)
(* in firehose mode cannot grow the queue of a slow link, and cannot be    *)
(* muted by a topic that was left behind.                                  *)
FirehoseExact ==
  \A l \in Links :
    /\ outFirehose[l] = DroppableTopics(out[l])
    /\ inFirehose[l] = DroppableTopics(in[l])
    /\ OneDroppablePerTopic(out[l])
    /\ OneDroppablePerTopic(in[l])

(* Every packet send() accepted is handed to the channel or still waits,   *)
(* in the order of the calls and never twice; one that was refused leaves  *)
(* an older packet of its topic to speak for it.  clear() after the write  *)
(* loop drops nothing that came in meanwhile.                              *)
OutputComplete ==
  \A l \in Links :
    /\ Increasing(handed[l] \o Pending(l))
    /\ \A p \in offered[l] : Represented(p, handed[l] \o Pending(l))

(* The same for received packets, between the parser and next().  The      *)
(* packets of a transport closed under its input buffer never arrived.     *)
InputComplete ==
  \A l \in Links :
    /\ Increasing(taken[l] \o in[l] \o inBuf[l] \o wireIn[l])
    /\ \A p \in arrived[l] : Represented(p, taken[l] \o in[l])

(* update() closes a transport at end of stream without looking at what    *)
(* the input channel has buffered.  That loses packets only of a peer that *)
(* already had a full batch read from it.                                  *)
LossNeedsFullBatch ==
  [][\A l \in Links :
       open[l] /\ ~open'[l] /\ inBuf[l] # <<>> /\ l \in watched'
         => Cardinality(arrived[l]) >= ReadBatch]_vars

(* While the network thread runs and the transport is open, a packet does  *)
(* not wait for ever: WriteOne's retry of a full send buffer ends.  (On a  *)
(* transport that was closed and is still watched it does wait for ever.)  *)
FlushedEventually ==
  \A l \in Links : \A i \in 0..(MaxPackets - 1) :
    (\E p \in Range(Pending(l)) : p.id = i)
      ~> (exitFlag \/ ~open[l] \/ ~\E p \in Range(Pending(l)) : p.id = i)

(* exit() returns: the thread is joined however much is still queued.      *)
ExitReturns == exitFlag ~> (pc = "done")

(* Both directions are queues of the abstract kind.                        *)
OutQueue == INSTANCE FirehoseQueue WITH q <- [l \in Links |-> Pending(l)]
InQueue  == INSTANCE FirehoseQueue WITH q <- in, offered <- arrived

OutImplementsQueue == OutQueue!Spec
InImplementsQueue  == InQueue!Spec
=============================================================================
