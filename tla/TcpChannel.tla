----------------------------- MODULE TcpChannel -----------------------------
(***************************************************************************)
(* One connection of two nodes, down to its bytes: tcp_socket,             *)
(* tcp_transport, tcp_input_channel and tcp_output_channel, driven at both *)
(* ends by the loop of tcp_thread::run.                                    *)
(*                                                                         *)
(* The end that calls gateway() or start() is the client, the end that     *)
(* listens the server.  A stream is named by the end that sends it; its    *)
(* bytes are counted, not listed: a packet handed to the output channel    *)
(* occupies Size[p] bytes from where the stream then was (start), and the  *)
(* counters sent, rcvd and parsed say how far the stream has got.  The     *)
(* bytes between rcvd and sent are in the kernel, at most Capacity of      *)
(* them; those between parsed and rcvd in tcp_input_channel::_buffer.      *)
(* A frame begins with HeaderBytes bytes that hold its size.               *)
(***************************************************************************)
EXTENDS Naturals, Sequences

CONSTANTS
  Client, Server, \* the two ends
  Packet,         \* what may be sent
  Size,           \* the length of a packed packet
  HeaderBytes,    \* sizeof(uint32_t)
  Capacity,       \* bytes the kernel holds for one direction
  RecvMax,        \* bytes one recv takes at most (0xFFFF in the code)
  ReadBatch,      \* packets read in one pass (100 in the code)
  MaxPackets      \* bound: packets each end sends

ASSUME ChannelAssumption ==
  /\ Client # Server
  /\ HeaderBytes \in Nat \ {0}
  /\ Size \in [Packet -> Nat]
  /\ \A p \in Packet : Size[p] > HeaderBytes
  /\ Capacity \in Nat \ {0}
  /\ RecvMax \in Nat \ {0}
  /\ ReadBatch \in Nat \ {0}
  /\ MaxPackets \in [{Client, Server} -> Nat]

VARIABLES
  listening,  \* the server's own socket accepts connections
  backlog,    \* a connection is established but not accepted yet
  blocking,   \* O_NONBLOCK is not set on the end's socket
  channels,   \* the transport is open: it has its two channels
  gone,       \* the end has closed its socket, or its process has ended
  reset,      \* a connection reset is pending on the end's socket
  pc,         \* where the end's network thread is
  ri,         \* packets read in this pass
  queue,      \* the out queue
  handed,     \* history: packets given to the output channel
  start,      \* history: the place of each in the stream
  left,       \* bytes of the last one that are still to be sent
  sent, rcvd, parsed, \* how far the end's stream is sent, received, parsed
  got         \* history: packets parsed from the end's stream

linkVars   == <<listening, backlog, blocking, channels>>
threadVars == <<pc, ri>>
outVars    == <<queue, handed, start, left>>
vars == <<linkVars, gone, reset, threadVars, outVars, sent, rcvd, parsed, got>>

End == {Client, Server}
Other(e) == IF e = Client THEN Server ELSE Client

-----------------------------------------------------------------------------
(* Sockets. *)

Init ==
  /\ listening = FALSE
  /\ backlog = FALSE
  /\ blocking = [e \in End |-> TRUE]
  /\ channels = [e \in End |-> FALSE]
  /\ gone = [e \in End |-> FALSE]
  /\ reset = [e \in End |-> FALSE]
  /\ pc = [e \in End |-> "off"]
  /\ ri = [e \in End |-> 0]
  /\ queue = [e \in End |-> <<>>]
  /\ handed = [e \in End |-> <<>>]
  /\ start = [e \in End |-> <<>>]
  /\ left = [e \in End |-> 0]
  /\ sent = [e \in End |-> 0]
  /\ rcvd = [e \in End |-> 0]
  /\ parsed = [e \in End |-> 0]
  /\ got = [e \in End |-> <<>>]

(* Whether a socket blocks: every new or accepted one is set up not to;    *)
(* connect() wants to restore the mode it found, but takes the success of  *)
(* asking for the mode itself, and so leaves every socket blocking.        *)
AfterSetup == FALSE
AfterConnect(before) == TRUE

(* A mutant: the transport relies on the mode it finds. *)
AfterOpenKeeps(before) == before

(* set_blocking(false) in the transport's open(). *)
AfterOpen(before) == FALSE

(* The transport gets its channels and tcp_thread its link. *)
OpenTransport(e, mode) ==
  /\ blocking' = [blocking EXCEPT ![e] = AfterOpen(mode)]
  /\ channels' = [channels EXCEPT ![e] = TRUE]
  /\ pc' = [pc EXCEPT ![e] = "idle"]

(* tcp_server::open: socket, bind and listen.  When one of them fails the  *)
(* socket is closed, and nothing has changed.                              *)
Listen ==
  /\ ~listening
  /\ listening' = TRUE
  /\ UNCHANGED <<backlog, blocking, channels, gone, reset, threadVars, outVars,
                 sent, rcvd, parsed, got>>

(* tcp_transport::open with its own socket.  The kernel establishes the    *)
(* connection without the server's help; when it cannot, the socket is     *)
(* closed and nothing has changed.                                         *)
Connect ==
  /\ listening
  /\ pc[Client] = "off"
  /\ OpenTransport(Client, AfterConnect(AfterSetup))
  /\ backlog' = TRUE
  /\ UNCHANGED <<listening, gone, reset, ri, outVars, sent, rcvd, parsed, got>>

(* tcp_socket::accept, called by the spinning user thread.                 *)
Accept ==
  /\ backlog
  /\ OpenTransport(Server, AfterSetup)
  /\ backlog' = FALSE
  /\ UNCHANGED <<listening, gone, reset, ri, outVars, sent, rcvd, parsed, got>>

(* The connection at e is torn down, cleanly when all that came in was     *)
(* read.  Otherwise the kernel resets it: what e has sent and the other    *)
(* end has not received may be lost.                                       *)
Hangup(e) ==
  LET o == Other(e) IN
  IF rcvd[o] = sent[o] /\ ~(e = Server /\ backlog)
  THEN UNCHANGED <<sent, reset>>
  ELSE /\ \E n \in rcvd[e]..sent[e] : sent' = [sent EXCEPT ![e] = n]
       /\ reset' = [reset EXCEPT ![o] = TRUE]

(* tcp_transport::close and tcp_socket::close: the channels go, and what   *)
(* the input channel has buffered.  The network thread may visit the link  *)
(* again, but finds neither channel.                                       *)
Close(e) ==
  /\ Hangup(e)
  /\ channels' = [channels EXCEPT ![e] = FALSE]
  /\ blocking' = [blocking EXCEPT ![e] = TRUE]
  /\ gone' = [gone EXCEPT ![e] = TRUE]
  /\ pc' = [pc EXCEPT ![e] = "done"]

(* The process at e ends, or its user destroys the transport. *)
Leave(e) ==
  /\ ~gone[e]
  /\ pc[e] # "off" \/ (e = Server /\ backlog)
  /\ Close(e)
  /\ backlog' = (backlog /\ e # Server)
  /\ UNCHANGED <<listening, ri, outVars, rcvd, parsed, got>>

-----------------------------------------------------------------------------
(* The output side of e's network thread. *)

(* tcp_thread::send, which waits while the out queue is being written. *)
Enqueue(e, p) ==
  /\ pc[e] \notin {"off", "write", "done"}
  /\ Len(handed[e]) + Len(queue[e]) < MaxPackets[e]
  /\ queue' = [queue EXCEPT ![e] = Append(@, p)]
  /\ UNCHANGED <<linkVars, gone, reset, threadVars, handed, start, left,
                 sent, rcvd, parsed, got>>

(* A pass visits the link: with an output channel the queue is written. *)
StartPass(e) ==
  /\ pc[e] = "idle"
  /\ pc' = [pc EXCEPT ![e] = "write"]
  /\ UNCHANGED <<linkVars, gone, reset, ri, outVars, sent, rcvd, parsed, got>>

(* tcp_output_channel::write is entered with the next packet. *)
WriteNext(e) ==
  /\ pc[e] = "write" /\ left[e] = 0
  /\ queue[e] # <<>>
  /\ LET p == Head(queue[e]) IN
       /\ handed' = [handed EXCEPT ![e] = Append(@, p)]
       /\ start' = [start EXCEPT ![e] = Append(@, sent[e])]
       /\ left' = [left EXCEPT ![e] = Size[p]]
  /\ queue' = [queue EXCEPT ![e] = Tail(@)]
  /\ UNCHANGED <<linkVars, gone, reset, threadVars, sent, rcvd, parsed, got>>

(* A mutant: a send of a part is taken for a send of the whole. *)
AfterSendWhole(l, n) == 0

(* size - written, once n more bytes are written. *)
AfterSend(l, n) == l - n

(* One turn of the loop of write: send() takes what there is room for.     *)
(* While there is none it fails with EAGAIN and the loop turns idly: the   *)
(* step is disabled.                                                       *)
SendBytes(e) ==
  /\ pc[e] = "write" /\ left[e] > 0
  /\ ~gone[Other(e)]
  /\ \E n \in 1..left[e] :
       /\ (sent[e] + n) - rcvd[e] <= Capacity
       /\ sent' = [sent EXCEPT ![e] = @ + n]
       /\ left' = [left EXCEPT ![e] = AfterSend(@, n)]
  /\ UNCHANGED <<linkVars, gone, reset, threadVars, queue, handed, start,
                 rcvd, parsed, got>>

(* To an end that is gone send() succeeds in vain or fails; in either case *)
(* the packet is over and the next one is written all the same.  The       *)
(* answer to it is a reset, which cuts short what the other end had sent.  *)
SendInVain(e) ==
  /\ pc[e] = "write" /\ left[e] > 0
  /\ gone[Other(e)]
  /\ left' = [left EXCEPT ![e] = 0]
  /\ \/ UNCHANGED <<reset, sent>>
     \/ /\ reset' = [reset EXCEPT ![e] = TRUE]
        /\ \E n \in rcvd[Other(e)]..sent[Other(e)] :
             sent' = [sent EXCEPT ![Other(e)] = n]
  /\ UNCHANGED <<linkVars, gone, threadVars, queue, handed, start,
                 rcvd, parsed, got>>

EndWrite(e) ==
  /\ pc[e] = "write" /\ left[e] = 0
  /\ queue[e] = <<>>
  /\ pc' = [pc EXCEPT ![e] = "update"]
  /\ UNCHANGED <<linkVars, gone, reset, ri, outVars, sent, rcvd, parsed, got>>

-----------------------------------------------------------------------------
(* The input side of e's network thread. *)

Unread(e) == sent[Other(e)] > rcvd[Other(e)]

(* A recv that takes nothing: what was sent is still under way, a pending  *)
(* reset is reported (once), or the stream has ended.                      *)
RecvNothing(e) ==
  reset' = [reset EXCEPT ![e] = @ /\ Unread(e)]

(* Nothing more will come: recv returns zero. *)
EndOfStream(e) == gone[Other(e)] /\ ~Unread(e) /\ ~reset[e]

(* tcp_transport::update peeks.  Only the end of the stream closes it. *)
Update(e) ==
  /\ pc[e] = "update"
  /\ ri' = [ri EXCEPT ![e] = 0]
  /\ \/ /\ ~EndOfStream(e)
        /\ RecvNothing(e)
        /\ pc' = [pc EXCEPT ![e] = "head"]
        /\ UNCHANGED <<blocking, channels, gone, sent>>
     \/ EndOfStream(e) /\ Close(e)
  /\ UNCHANGED <<listening, backlog, outVars, rcvd, parsed, got>>

(* tcp_server::spin_update peeks at the same socket from the user thread:  *)
(* it may take the reset's report from the network thread, and at the end  *)
(* of the stream it has the transport closed, if no pass is under way      *)
(* (remove_socket waits for _mut).                                         *)
ServerPeek ==
  /\ channels[Server]
  /\ \/ /\ reset[Server]
        /\ RecvNothing(Server)
        /\ UNCHANGED <<linkVars, gone, pc, sent>>
     \/ /\ EndOfStream(Server)
        /\ pc[Server] = "idle"
        /\ Close(Server)
        /\ UNCHANGED <<listening, backlog>>
  /\ UNCHANGED <<ri, outVars, rcvd, parsed, got>>

(* A mutant: one more byte is waited for. *)
EnoughAndMore(bytes, needed) == bytes > needed

(* The buffer holds what read() wants of it. *)
Enough(bytes, needed) == bytes >= needed

(* The frame whose first byte is the first of e's stream not parsed yet. *)
FrameAtParsed(e) ==
  CHOOSE k \in 1..Len(handed[e]) : start[e][k] = parsed[e]

(* What the next stage of read() needs: the header, or the target size     *)
(* that the header holds.                                                  *)
Needed(e) ==
  IF pc[e] = "head" THEN HeaderBytes
  ELSE Size[handed[Other(e)][FrameAtParsed(Other(e))]]

Buffered(e) == rcvd[Other(e)] - parsed[Other(e)]

(* A mutant: one iteration too many. *)
InBatchOneMore(i) == i <= ReadBatch

(* The bound of the read loop. *)
InBatch(i) == i < ReadBatch

Reads(e) == pc[e] = "body" \/ (pc[e] = "head" /\ InBatch(ri[e]))

(* The buffer falls short and recv() takes some of what has come in.  Each *)
(* stage receives once; if that is not enough, read() gives up until the   *)
(* next pass and the loop with it.                                         *)
Receive(e) ==
  /\ Reads(e)
  /\ ~Enough(Buffered(e), Needed(e))
  /\ \E n \in 1..RecvMax :
       /\ n <= sent[Other(e)] - rcvd[Other(e)]
       /\ rcvd' = [rcvd EXCEPT ![Other(e)] = @ + n]
       /\ pc' = [pc EXCEPT ![e] =
                   IF Enough(Buffered(e) + n, Needed(e)) THEN "body" ELSE "idle"]
  /\ UNCHANGED <<linkVars, gone, reset, ri, outVars, sent, parsed, got>>

(* The buffer falls short and recv() fails or finds the end. *)
ReadFails(e) ==
  /\ Reads(e)
  /\ ~Enough(Buffered(e), Needed(e))
  /\ RecvNothing(e)
  /\ pc' = [pc EXCEPT ![e] = "idle"]
  /\ UNCHANGED <<linkVars, gone, ri, outVars, sent, rcvd, parsed, got>>

(* The size is known. *)
HeaderRead(e) ==
  /\ pc[e] = "head" /\ Reads(e)
  /\ Enough(Buffered(e), HeaderBytes)
  /\ pc' = [pc EXCEPT ![e] = "body"]
  /\ UNCHANGED <<linkVars, gone, reset, ri, outVars, sent, rcvd, parsed, got>>

(* A mutant: the packet is not chopped off the buffer. *)
ChoppedNot(place, size) == place

(* _buffer.erase: the stream is parsed up to the end of the packet. *)
Chopped(place, size) == place + size

(* The packet is complete: it is chopped off the buffer and returned. *)
Parse(e) ==
  LET s == Other(e) IN
  /\ pc[e] = "body"
  /\ Enough(Buffered(e), Needed(e))
  /\ got' = [got EXCEPT ![s] = Append(@, handed[s][FrameAtParsed(s)])]
  /\ parsed' = [parsed EXCEPT ![s] = Chopped(@, Needed(e))]
  /\ ri' = [ri EXCEPT ![e] = @ + 1]
  /\ pc' = [pc EXCEPT ![e] = "head"]
  /\ UNCHANGED <<linkVars, gone, reset, outVars, sent, rcvd>>

(* The batch is full. *)
EndBatch(e) ==
  /\ pc[e] = "head" /\ ~InBatch(ri[e])
  /\ pc' = [pc EXCEPT ![e] = "idle"]
  /\ UNCHANGED <<linkVars, gone, reset, ri, outVars, sent, rcvd, parsed, got>>

(* The visit of the link, once the loop of tcp_thread::run has come to it. *)
Visit(e) ==
  \/ WriteNext(e) \/ SendBytes(e) \/ SendInVain(e) \/ EndWrite(e)
  \/ Update(e)
  \/ Receive(e) \/ ReadFails(e) \/ HeaderRead(e) \/ Parse(e) \/ EndBatch(e)

NetworkThread(e) == StartPass(e) \/ Visit(e)

UserThread(e) == Leave(e) \/ \E p \in Packet : Enqueue(e, p)

Next ==
  \/ Listen \/ Connect \/ Accept \/ ServerPeek
  \/ \E e \in End : NetworkThread(e) \/ UserThread(e)

Spec == Init /\ [][Next]_vars

(* A visit that has begun goes on, and bytes that are under way arrive.    *)
(* That there is another visit is not promised: a network thread serves    *)
(* all links of its node, and may be stuck in writing to another one       *)
(* (WriteStall).                                                           *)
Fairness ==
  \A e \in End : WF_vars(Visit(e)) /\ SF_vars(Receive(e))

FairSpec == Spec /\ Fairness

-----------------------------------------------------------------------------
TypeOK ==
  /\ listening \in BOOLEAN /\ backlog \in BOOLEAN
  /\ blocking \in [End -> BOOLEAN]
  /\ channels \in [End -> BOOLEAN]
  /\ gone \in [End -> BOOLEAN]
  /\ reset \in [End -> BOOLEAN]
  /\ pc \in [End -> {"off", "idle", "write", "update", "head", "body", "done"}]
  /\ ri \in [End -> 0..ReadBatch]
  /\ queue \in [End -> Seq(Packet)]
  /\ handed \in [End -> Seq(Packet)]
  /\ start \in [End -> Seq(Nat)]
  /\ left \in [End -> Nat]
  /\ sent \in [End -> Nat]
  /\ rcvd \in [End -> Nat]
  /\ parsed \in [End -> Nat]
  /\ got \in [End -> Seq(Packet)]

(* Where the first k packets of e's stream end. *)
EndOf(e, k) == IF k = 0 THEN 0 ELSE start[e][k] + Size[handed[e][k]]

(* However the kernel splits the bytes, and wherever a pass leaves off,    *)
(* the frames of a stream follow each other without a gap, and its reader  *)
(* stands at the start of the frame after the last one it returned: no     *)
(* length is ever read from the middle of a packet.                        *)
FramesIntact ==
  \A e \in End :
    /\ got[e] = SubSeq(handed[e], 1, Len(got[e]))
    /\ parsed[e] <= rcvd[e] /\ rcvd[e] <= sent[e]
    /\ ~gone[Other(e)] =>
         /\ \A k \in 1..Len(handed[e]) : start[e][k] = EndOf(e, k - 1)
         /\ parsed[e] = EndOf(e, Len(got[e]))
         /\ sent[e] + left[e] <= EndOf(e, Len(handed[e]))
         /\ ~gone[e] => sent[e] + left[e] = EndOf(e, Len(handed[e]))

(* An open transport never blocks its network thread in recv or send,      *)
(* which read() asserts (tcp_input_channel.cpp:22), although connect()     *)
(* leaves every socket in blocking mode.                                   *)
NeverBlocks == \A e \in End : channels[e] => ~blocking[e]

(* All of e's i-th packet has left e, and it was not lost to a reset. *)
WhollySent(e, i) == Len(handed[e]) >= i /\ EndOf(e, i) <= sent[e]

(* As long as its reader comes round to reading the link again and again,  *)
(* a packet that was sent in full is parsed, in however many pieces and    *)
(* passes, unless its sender's end takes it back (a reset).                *)
ParsedEventually ==
  \A e \in End : \A i \in 1..MaxPackets[e] :
    []<>(pc[Other(e)] = "update") =>
      (WhollySent(e, i) ~> Len(got[e]) >= i \/ ~WhollySent(e, i))

(* So each connection is a pair of reliable streams of whole packets. *)
Stream == INSTANCE PacketStream
ImplementsPacketStream == Stream!Spec
=============================================================================
