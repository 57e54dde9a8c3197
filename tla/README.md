# A verification project for daylite

daylite connects processes ("nodes") that publish and subscribe to topics over TCP.
There is no master: a node that starts connects to one gateway, every node accepts
connections, and packets are flooded along the connections. This directory holds TLA+
models of the library in `src/libdaylite`, the TLC runs that check them on small
instances, and TLAPS proofs of what matters most for any instance.
All paths below are relative to `src/libdaylite/src` unless they start with `src/`.

## 1. The system

| component | state | operations | interacts with |
|---|---|---|---|
| network thread (`tcp_thread`) | per transport: `in`, `out`, the firehose sets, `reject_out_count`; `_exit`, `_sleep` | `add_socket`, `remove_socket`, `send`, `next`, `exit` (user thread); `run`, `update_sleep` (its own thread) | transports; called by remote nodes and the node |
| TCP transport and channels | socket, the two channels, the input channel's byte buffer | `open`, `close`, `update`, `read`, `write` | the kernel; called by the network thread |
| node (`node_impl`) | id, `_remotes`, `_latest_info`, `_subscription_count`, `_local_subscription_count`, active publishers and subscribers, network time | `start`, `gateway`, `stop`, `advertise`, `subscribe`, `send_info`, `server_connection`, `server_disconnection`, `spin_update`, the internal topic's callback | mailman, server, network thread, remote nodes |
| remote node | link, `_associated_ids`, mode | `send` (from the mailman), `spin_update`, `shutdown` | mailman, network thread |
| mailman and mailboxes | mailboxes per topic, callbacks | `register_mailbox`, `unregister_mailbox`, `send`, `clear` | everything that sends |
| publishers, subscribers | `_husk`, `_firehose`, mailbox | `publish`, construction, destruction, `set_husk` | node, mailman |
| TCP server | `_clients`, listeners | `open`, `close`, `spin_update` | node, sockets |
| spinner | `_spinetts`, `_spinetts_to_add` | `spin_once`, (un)registration | server, remote nodes, nodes |
| splats (not built by default) | shared memory slots | `create`, `connect`, `push`, `poll` | node, remote nodes |
| unused or without state | circular buffer, CRC, rate, option/result/bson, services (NYI) | | |

Two threads run in a process: the **user thread**, which owns the nodes and calls
`spin_once`, and one **network thread** per node. They share only the queues of
`tcp_thread`, guarded by `_mut` (the map of buffers) and `buffer::mut` (one buffer).

### What is hard here

- *Interleaving.* The user thread extends a queue and its firehose set while the network
  thread writes, clears and extends them in its own order.
- *Partial failure and order.* A write that fails in mid-queue; a read loop that stops after
  100 packets and a transport that closes itself before the rest is parsed.
- *Liveness.* `write` spins on `EAGAIN` under both locks; `exit` joins a thread in any state.
- *Protocol.* Packets have no identity, no hop limit and no version. Only the path a packet
  carries ends a flood; the latest info to arrive replaces a newer one; subscription
  counters are kept by adding and subtracting infos.
- *Crashes and late joiners.* Only the server's end of a connection notices that it ended,
  and it buries only the ids it heard directly on it.
- *Uninitialised data.* `_local_only` of every received packet.
- *Life cycle.* `stop`, husks, spinetts that come and go inside a spin, a second `start`; sockets
  that one thread deletes and another one uses.
- *Bytes.* TCP cuts frames anywhere.
- *Waiting in rings.* One thread serves all links of a node and reads from nobody while it writes:
  nodes that write into full connections, and users who wait for the locks it holds, may wait for
  each other in a ring.
- *Shared memory.* A mutex inside a file that every newcomer truncates.

`PROJECT.json` lists each of these at its line under `hazards`, with the properties that
cover it or the reason why none does yet.

### What makes each component correct

- Network thread: a busy write ends unless it is part of such a ring, or waits for one; the firehose sets mirror the queues; an ordinary packet is neither lost
  nor reordered; a dropped droppable packet leaves an older one of its topic waiting;
  what is queued is written; `exit` returns; each direction is an abstract queue.
- Node and remote node: paths are simple, so floods end and nothing echoes; counters are the
  sum of the infos and never wrap; packets of one publisher arrive in order and at most once
  where the graph has no cycle; at rest everyone routes what anyone reachable subscribes to.
- Mailman: each mailbox of the topic and each remote but the sender's gets the packet once.
- Life cycle: nothing that was destroyed is called, nor a table walked on from an entry that a
  callback erased; a stopped node refuses politely.

## 2. Modules

| module | models | source |
|---|---|---|
| `FirehoseQueue` | the abstract promise: an array of queues that take every packet offered, except a droppable one while another of its topic waits | `tcp_thread.cpp` |
| `TcpThread` | the two threads of one process over its queues, and the peers at the other ends | `tcp_thread.cpp`, `tcp_transport.cpp`, `tcp_*_channel.cpp` |
| `TcpThread_proofs` | type correctness, `FirehoseExact`, both refinements, `OutputComplete`, `InputComplete`, `LossNeedsFullBatch` | |
| `WriteStall` | the network and user threads of all nodes, as far as they wait for each other: full connections and the two locks | `tcp_thread.cpp`, `tcp_output_channel.cpp`, `remote_node.cpp`, `tcp_server.cpp` |
| `MCWriteStall` | an instance of it | |
| `WriteStall_proofs` | type correctness, `DeadlocksLast` | |
| `NodeGraph` | a network of nodes: calls, infos, flooding, joining, crash, disconnection | `node_impl.cpp`, `remote_node.cpp`, `mailman.cpp`, `publisher_impl.cpp`, `subscriber_impl.cpp`, `tcp_server.cpp`, `packet.cpp` |
| `MCNodeGraph` | instances of it | |
| `NodeGraph_proofs` | simple paths, bounded floods, no echo; type correctness, `TallyMatches`, sums over a finite set | |
| `NodeGraphRouting_proofs` | `SubscriptionsRouted`, `DeliveredInOrder` | |
| `PacketStream` | the abstract promise of a transport: in each direction, packets come out whole, in order, none skipped and none twice | `input_channel.hpp`, `output_channel.hpp` |
| `TcpChannel` | both ends of one connection, in bytes: sockets, transports, framing, both network threads | `tcp_socket.cpp`, `tcp_transport.cpp`, `tcp_*_channel.cpp`, `tcp_thread.cpp` |
| `MCTcpChannel` | an instance of it | |
| `TcpChannel_proofs` | type correctness, `FramesIntact`, `NeverBlocks`, the refinement | |
| `Lifecycle` | who exists, who knows whom and who is called: one process, its user thread cut into steps, its network thread | `spinner_impl.cpp`, `tcp_server.cpp`, `mailman.cpp`, `node_impl.cpp`, `remote_node.cpp`, `publisher_impl.cpp`, `subscriber_impl.cpp` |
| `MCLifecycle` | instances of it | |
| `Lifecycle_proofs` | type correctness; `SpinettsExact`, `MailboxesExact`, `SocketOutlivesLink`, `NothingDangles` of a user who takes no liberties | |
| `ByteQueue` | the abstract promise of a growing buffer: a FIFO queue of bytes | `dynamic_circular_buffer.hpp` |
| `CircularBuffer` | the buffer, call by call; it is its own MC module | `dynamic_circular_buffer.cpp` |
| `CircularBuffer_proofs` | type correctness, the refinement | |
| `Splat` | the shared file of one firehose and the processes that map it; its own MC module | `splat.cpp`, `node_impl.cpp` |
| `Splat_proofs` | type correctness, exclusion, whole and newer polls | |

`NodeGraph` stands on `TcpThread`: its channel from one node to another is the out queue, the
connection and the in queue in a row, and it is FIFO and lossless for ordinary packets
because of `OutputComplete` and `InputComplete`, both proved, while the transport is open. `TcpThread`
assumes that its peers read; `WriteStall` says when they do, with packets as mere numbers. `TcpThread` in turn
takes whole packets for bytes; that it may is what `TcpChannel` shows by implementing
`PacketStream`. `Lifecycle` has the same steps of `tcp_server` and `node_impl` as `NodeGraph`
(`Accept`, `Notify`, `Join`), seen from one process and down to the pointers, and leaves out what
is sent.

The definitions named `...ForEver`, `...Keeps`, `...ByCount` and so on, each marked *a mutant*,
are plausible bugs of the definition that follows them. No specification uses them; substituted
for it they make the property that `PROJECT.json` names fail.

### TcpThread

State: `watched`, `out`, `in`, `outFirehose`, `inFirehose`, `rejectOut` are the fields of
`tcp_thread::buffer`; `pc`, `todo`, `cur`, `wi`, `ri` the position of `run`; `exitFlag` is
`_exit`; `open`, `inBuf` belong to the transport and its input channel; `wireOut`, `wireIn`,
`peerGone` to the connection; `offered`, `handed`, `arrived`, `taken` are history.

A lock held by `run` over several steps is a function of `pc` (`HoldsMut`, `HoldsBuffer`); a
user call is one step, enabled when the locks it takes are free. `StartPass`, `Visit`,
`WriteOne`, `Flushed`, `Update`, `Receive`, `ReadOne`, `EndVisit` and `EndPass` follow `run`
statement by statement; `WriteOne` is disabled while the connection is full, which is the busy
loop on `EAGAIN`. `AddSocket` includes the opening of the transport and `RemoveSocket` its
destruction, for the code never does one without the other.

Abstractions. Bytes are whole packets: the connection holds `WireCapacity` of them, and a
`recv` moves any prefix of what has come in. `inBuf` is what was received and is not yet
parsed. A write to a peer that is gone fails or is lost. The flag `_exit` is read as if it were
atomic. When a transport closes itself the model goes on with a closed transport, as the code
does for accepted connections; for a connection the node opened itself the code has deleted the
socket by then and its next `update` is undefined behaviour, of which the model says nothing.
The size of a batch, 100 in the code, is `ReadBatch`. `update_sleep` only delays.

### WriteStall

State: every node has `watched`, the keys of its `_buffers`; `pc`, `todo`, `cur`, `ri`, the place of
its network thread in `run`; and `call`, what its user has called and waits for. A *way* is one
direction of a connection: `out` counts what is queued on it, `wire` what the kernel holds, `sends`
what was offered.

The network thread of a node is one process that visits its links in turn. `WriteOne` is disabled while
the connection is full, which is the busy loop of `tcp_output_channel::write`, and until it is
through the thread neither reads nor gets to another link. `Locked` says which user calls wait for it:
`next` for the mutex of the buffer that is being written, `add_socket`, which accepting a connection
calls, for `_mut`, held over the whole pass. A connection in `Backlog` is written to by its client
but read by nobody until the server's user has accepted it.

`Deadlocked` is a set of threads that wait for members of the set only. `OnlyDeadlocksStall` says that a
busy write ends unless its thread is in such a set, however long the row of nodes is in which each waits for
the next; `DeadlocksLast` that such a set never comes free again.

Abstractions. Packets are counted; droppable ones that are refused and calls that never wait are left
out. All nodes live on: a write to one that has ended returns with an error, which `TcpChannel`
shows. The order in which a pass goes over the links is that of a map of pointers, any order here.

### NodeGraph

State: `subs`, `remotes`, `latest`, `count` and `keys` (values and keys of
`_subscription_count`) are the node's fields, `assoc` a remote node's, `clients` and `backlog`
the server's; `chan` holds the packets between two nodes; `delivered` is history.

A step is one call by the user thread: `Subscribe`, `Unsubscribe`, `Advertise`, `Publish`,
`Deliver` (one turn of the loop in `remote_node::spin_update`, with the mailman's rounds and
the callback for internal packets), `Join`, `Accept`, `Disconnect`; `Crash` ends a process.
This is atomic in the code too, since only queues are shared with the network thread.
`GarbageLocalOnly` is the set of values an uninitialised `_local_only` may have.

A node that crashes takes with it what was still in its queues: `Crash` empties its channels to any set
of its neighbours, and since packets may be delivered before it, this is the loss of any
suffix. A client of a crashed gateway goes on here with a closed link, as a server does whose client
crashed; in the code the client then reads a deleted socket (`tcp_transport.cpp:64`), which is among the
findings, so for that case the model says only what holds if the process survives it. In
`graph_triangle` the node that crashes is nobody's gateway.

Abstractions. An info is its `alive` and `in_topics`; `out_topics`, hosts and names decide
nothing. Firehoses (lossy by intent), splats and time stamps are left out. The order in which
`send_info` sends the infos of others is that of a hash table; they concern different nodes.
Two nodes have at most one connection, a node that has clients does not join (`start` would
replace its server), the mode `block_internal` is never used in the code, and node ids are
unique.

### TcpChannel

State: a stream is named by the end that sends it. `handed[e]` lists the packets its output
channel was given, `start[e]` where each begins, `left[e]` is `size - written` of the last;
`sent`, `rcvd` and `parsed` count bytes. What lies between `rcvd` and `sent` is in the kernel, what
lies between `parsed` and `rcvd` in `tcp_input_channel::_buffer`. Bytes have no values: the size
that `read` takes from the front of its buffer is the size of the frame that begins at `parsed`,
and if no frame began there `FrameAtParsed` would have no value and the run would fail.

`WriteNext`, `SendBytes`, `SendInVain`, `EndWrite` follow the write loop of `run` and the loop of
`write`; a full connection disables `SendBytes`, which is the busy loop on `EAGAIN`. `Receive`,
`ReadFails`, `HeaderRead`, `Parse` follow `read`, which receives at most once for the header and
once for the body; `Update` and `ServerPeek` are the two peeks at the socket, from two threads.
One turn of the loop of `run` for this link is `Visit`. The thread serves other links too and
may be busy, or stuck, with one of them, so nothing is promised of when it begins: only that a `Visit` that
has begun goes on. `pc` says where the end's network thread is, `"head"` and `"body"` being the two stages of `read`.

Abstractions. `send` and `recv` take any number of bytes up to what there is room for or what has
come. A connection that ends with unread bytes is reset: what had not been received may be lost
from any byte on, and one `recv` reports the error; this is the kernel's behaviour and external.
Sockets that cannot be opened change nothing, as in the code. `_mut` is in the guards of `Enqueue`
and `ServerPeek`.

### Lifecycle

State: `spinetts`, `toAdd`, `server`, `remotes`, `mailboxes`, `clients`, `watched` are the fields of
the same names (`watched` the keys of `tcp_thread::_buffers`); `alive` says which spinetts are
constructed, `sock` what has become of each connection's `tcp_socket`, `observed` where the node is
a listener, `child` what became of each publisher and subscriber; `todo` and `thread` are the pass
of the network thread, `pc`, `at`, `ci` the place of the user thread, and `calling` the subscribers in
whose callbacks it is, the outermost first. `fault` is set by a step that
follows a pointer to something destroyed, or a null one.

`spin_once` is cut at each spinett, and `tcp_server::spin_update` at each client and between
noticing, telling the node and deleting, since the network thread may get in there; `Stop` and
`Destroy` are cut where `stop` waits for `_mut`. A step that needs `_mut` waits for the end of a pass.

A callback begins with `CallBack`, when `mailman::send` comes to the mailbox of a subscriber, for a
packet that a remote node got in a spin or one that the user publishes, and ends with `Return`, when
the walk over the topic's mailboxes goes on. In between the user may create and destroy publishers and
subscribers and publish, which calls other subscribers inside the callback. `Return` is a fault if the mailbox
that the walk stands on was erased (`mailman.cpp:23`) or its topic's table with it
(`mailman.cpp:26`). Creating a mailbox for the topic that is being walked may make the table move, which is
a fault too. Not modelled: other calls from a callback (`start`, `stop`, `spin`), a
subscriber that is called inside its own callback, and subscribers of `"*"`.

`Liberties` are things a user, or the world, does that the library is not up to: `"children"`: stop
or destroy a node that has publishers or subscribers; `"connected"`: or connections; `"again"`:
call `start` or `gateway` a second time; `"unspun"`: destroy a node before it was ever spun;
`"gateway ends"`: the node at the other end of a connection this node made ends; `"in its callback"`:
destroy a subscriber in its own callback, or in one that was called inside it; `"same topic"`: create, in a
callback, a publisher or subscriber of the topic whose packet is being handed out. With any one of
them `NothingDangles` fails; see the findings.

### CircularBuffer

State: `head`, `size`, `capacity`, `backing` are the four fields; `out` is what the last read
returned, `aborted` that an assertion has failed. `Write`, `Read`, `Discard`, `Clear` are the calls,
and `DirectRead` is a caller who takes the bytes at `data()` where `contiguous_read_possible` allows it;
`WriteGrown` includes `resize_backing` with the read that moves the contents. `GrowLimit` is
`can_grow`'s 1000000, `Word` the width to which `resize_backing` cuts its argument. The assumption
names the two cases in which the code divides by zero or makes too small an array.

### Splat

State: `locked`, `version`, `size`, `data` are the file; `current` each process' `_current_version`;
`pc`, `pos` its place in `push` or `poll`. A packet is `Chunks` pieces that carry its version, so
that a torn one shows. `sized` is false between `open` with `O_TRUNC` and `ftruncate` in `map`: a
process that touches the file then ends (`BusError`). `upset` is history: the file was truncated
under a process that holds the mutex or waits to read, and not all of those are done; the
properties except such times, for the code does nothing against them. A poll of a file that was
emptied while it waited is modelled as returning zeroes; the code would hand a null document on.

## 3. Runs

| run | instance | checks | result |
|---|---|---|---|
| `tcp_two_links` | 2 links, 1 topic, batch 1, capacity 1, 2 packets; fairness | `TypeOK`, `FirehoseExact`, `OutputComplete`, `InputComplete`, `OutImplementsQueue`, `InImplementsQueue`, `LossNeedsFullBatch`, `FlushedEventually`, `ExitReturns` | pass, 290,146 states |
| `write_stall` | 3 nodes in a triangle, capacity 1, batch 1, full connections once round and one more packet for each, one connection not accepted yet; fairness | `TypeOK`, `OnlyDeadlocksStall`, `DeadlocksLast` | pass, 165,857 states |
| `graph_grow` | b-c connected, a joins b and may crash; 2 calls, 2 packets | `TypeOK`, `TallyMatches`, `DeliveredInOrder`, `SubscriptionsRouted` | pass, 719,938 states |
| `graph_triangle` | 3 nodes in a cycle, b subscribes, a, which is nobody's gateway, may crash; 1 call by b or c, 1 packet | `PathsSimple`, `SubscriptionsRouted`, `NoEcho` | pass, 117,286 states |
| `graph_duplicates` | the same cycle, c subscribes | `DeliveredInOrder` | violated |
| `graph_late_joiner` | a and c connected to b, d joins b | `SubscriptionsRouted` | violated |
| `graph_local_only` | chain a-b-c, garbage in `_local_only` | `SubscriptionsRouted` | violated |
| `channel_two_ends` | sizes 3 and 4, header 2, kernel buffer 2, `recv` of 2, batch 1; 2 packets one way, 1 the other; fairness | `TypeOK`, `FramesIntact`, `NeverBlocks`, `ParsedEventually`, `ImplementsPacketStream` | pass, 146,804 states |
| `lifecycle_orderly` | 2 servers, 2 accepted connections, the gateway, 1 publisher, 1 subscriber, no liberties; fairness | `TypeOK`, `SpinettsExact`, `MailboxesExact`, `SocketOutlivesLink`, `NothingDangles`, `EndedIsForgotten` | pass, 601,235 states |
| `lifecycle_node_first` | 1 publisher, the liberty `"children"` | `NothingDangles` | violated |
| `circular_buffer` | 2 values, capacity 2, limit 3, calls of up to 2 bytes | `TypeOK`, `ImplementsByteQueue` | pass, 83,216 states |
| `splat_three_processes` | 2 subscribers, 2 pieces, 2 packets, 3 mappings; fairness | `TypeOK`, `ExclusiveUnlessUpset`, `WholeUnlessUpset`, `NewerUnlessUpset`, `PushReturns` | pass, 785,663 states |

Deadlock is checked for `TcpThread` and `Lifecycle`, where the user can always act. The graph runs
switch it off, since with every bounded call made and every packet delivered the network rightly
rests; so do `channel_two_ends` (both ends may be gone), `write_stall` (deadlocks are its subject), `circular_buffer` (an assertion stops the
program) and `splat_three_processes` (every process may have died, or every push be made).
`lifecycle_node_first`, which has no liveness property, is searched up to symmetry of the accepted connections.

**Bounds.** `MaxPackets` counts packets offered on all links in both directions: two are enough
to meet in one queue, of one kind or of both, or in two queues; a queue refuses a packet for one of its own
topic only, and that several topics do not disturb each other is proved for any number of them.
A batch of 1 makes the end of the batch and the end of the input distinct on every packet, and leaves the second
packet behind the first; capacity 1 makes the connection full after every write. In `write_stall` the
triangle is the smallest graph with a ring of three, a pair that is not part of it, and a node that waits
behind either. Once round it every connection is full and one packet waits to be sent, so that the
ring may close or get on according to who writes first; the way back is never full of packets that
nobody reads. The connection that is not accepted yet makes the ring go through a user.

In the
graph two packets of one publisher show order, and two calls by different nodes, or a call that
overtakes the end of another's connection, are what stale infos need. `MaxCalls`, `MayCall`,
`MayCrash` and `MaxPublish` are the bounds; packets in channels are not bounded otherwise.
`graph_triangle` asks what `graph_grow` cannot: there an info goes round both sides of a cycle, and
the crash of a cuts one side off while it does.

In the channel a buffer of 2 in the kernel and a header of 2 make every packet take at least two
sends and two receives, cut the header itself, and leave part of the second packet in the buffer
behind the first; one packet back lets both ends be caught in a write. In the life cycle `MaxSlots` bounds
the entries of the spinner's lists: five hold the node, a server, two connections and the gateway
at once; servers that `stop` leaks stay in the list, and an old one beside a new one needs two. The circular buffer grows from 2 to 6 or 8, which is past the limit of 3, so
the next overflow aborts. Three mappings of a splat are one for each subscriber and one that
truncates the file under both.

**Fairness.** In `tcp_two_links` the network thread is a running thread: weak fairness of
its steps. The peers are assumed to read what arrives: weak fairness of `PeerRead`. That is a hypothesis on the
other nodes, whose network threads may be stuck themselves: `FlushedEventually` and `ExitReturns` are what
this node does if they are not, and `write_stall` says when they are not. Nothing is assumed of the
user thread or of when peers send or go away.

In `write_stall` each node's one network thread is weakly fair, over all its links together; nothing is
assumed of any single link. A call gets a mutex that is free time and again, and a server's user
comes round to accepting: strong fairness of `EndCall` and `CallAdd`, for the thread sleeps at least
a millisecond between passes (`tcp_thread.cpp:200-207`) and the user spins.

`channel_two_ends` has one connection of nodes that may have others. A `Visit` that has begun goes
on, and `Receive` is strongly fair, for bytes that are under way arrive although a `recv` may find
nothing each time it is tried; when the next visit begins is left open, and `ParsedEventually` has it as its
hypothesis that the reader comes round to reading the link again and again.

In `lifecycle_orderly` the user spins again and again and
finishes what he began, and callbacks return; this is strong fairness because a step that takes `_mut` is enabled only
between passes, and the network thread sleeps there for at least a millisecond
(`tcp_thread.cpp:200-207`). In `splat_three_processes` each process runs, and the loop of trylock
gets a mutex that is free time and again, which is strong fairness of `Lock`; a scheduler may
in theory be worse.

### Findings

1. *A publication may arrive twice* (`graph_duplicates`). "If we have already received this
   message, ignore it" (`remote_node.cpp:77-78`), but only the node's own id in the path is
   looked for. In a graph with a cycle, which a second `start` builds, a subscriber gets one copy
   on each way.
2. *A node that joins may never learn of a listener* (`graph_late_joiner`). Infos carry no
   version and overwrite each other in order of arrival (`node_impl.cpp:63-67`). The neighbour c
   of hub b still echoes a's old info after b has a's new one; b believes the old one, and passes
   it to d. Those who had heard the new info go on sending only because an entry of
   `_subscription_count` is never erased (`remote_node.cpp:34-36`), which is why
   `SubscriptionsRouted` passes in `graph_grow` and `graph_triangle`; a newcomer has no such luck.
3. *`_local_only` is not initialised* in a received packet (`packet.cpp:14`), and
   `remote_node::send` does not forward a packet in which it happens to be true
   (`graph_local_only`).

4. *A publisher that outlives its node crashes instead of becoming a husk*
   (`lifecycle_node_first`). `stop` clears the mailman (`node_impl.cpp:106`) and then has every
   publisher unregister its mailbox from it; `unregister_mailbox` follows the null pointer that the
   empty table returns (`mailman.cpp:22`). `publisher_impl.hpp:37-39` says what should happen.

A fifth disagrees with no document, but is the most serious: *nodes may wait for each other for
ever*. `write` turns until the kernel takes the packet (`tcp_output_channel.cpp:29`), in the one
thread that reads from all peers (`tcp_thread.cpp:140-194`). Two nodes with full connections both ways, or
any ring of nodes each of which writes to the next, do not come free again, nor do those who write to
them; in each the user waits too, as soon as he asks for a packet of the link or accepts a connection.
A ring may also go through a user: a node that writes to a gateway which has not accepted it waits for the
gateway's user, who waits for the gateway's network thread, which writes to a node in the ring.
`DeadlocksLast` is proved: short of the end of one of them nothing that any node does helps.

The other liberties of `Lifecycle` lead to faults as well. To see them, put the name in
`MCLifeNodeFirst.cfg` in place of `"children"`, for the last two with a subscriber:

- `"gateway ends"`: the network thread notices that the gateway has ended, and
  `tcp_transport::close` deletes the socket but keeps the pointer (`tcp_transport.cpp:64`). The next
  pass calls `recv` on it in `update`, and `node_impl::spin_update`, which waits for that pointer
  to become null (`node_impl.cpp:362`), never forgets the link.
- `"connected"`: the remote nodes of a stopped node are never destroyed, because the callback that
  the mailman gave each of them owns it (`mailman.cpp:11`); the spinner goes on calling them, and
  they ask for the packets of a null link (`tcp_thread.cpp:56`).
- `"again"`: the old server was destroyed in the same breath as the new one was made, before the
  end of a spin: its entry in `_spinetts_to_add` stays and is called later. When it was spun
  before, its clients are destroyed under their links.
- `"unspun"`: the same, for a node.
- `"in its callback"`: `unregister_mailbox` erases the mailbox of the subscriber from the table
  (`mailman.cpp:23`), and the table with it if it was the last one of the topic (`mailman.cpp:26`),
  and the loop of `mailman::send` then steps on from the erased element (`mailman.cpp:37-41`). The
  callback itself, a function that the mailbox owns, is destroyed while it runs.
- `"same topic"`: the new mailbox may make the hash table of the topic grow while the loop is in it.

Three more that no run shows. A spin erases one null entry of `_spinetts` only
(`spinner_impl.cpp:54-59`), so the list is shortened later than it could be. A publisher with
several connections pushes a publication to its splat once for each (`remote_node.cpp:50`), so a
subscriber may poll the same packet twice. And `stop` clears the mailman of the node's own mailbox for
internal topics too, which only the constructor registers (`node_impl.cpp:81`): a node that is stopped and
calls `gateway` again never learns an info. `MailboxesExact` leaves this mailbox out.

## 4. Proofs

All are for arbitrary constants that satisfy the named assumptions (`BoundsAssumption` in
`TcpThread`, `GraphAssumption` in `NodeGraph`, `ChannelAssumption` in `TcpChannel`,
`StallAssumption` in `WriteStall`, `LifecycleAssumption` in `Lifecycle`, `BufferAssumption` in `CircularBuffer`, `SplatAssumption` in
`Splat`), and every one rests on `Init` and `Next` only, not on fairness. Of these assumptions two say
more than what a constant is. `BufferAssumption` keeps the sizes below the machine word, since
past it `resize_backing` makes too small an array. `LifecycleAssumption` says that finitely many
connections are accepted and that different objects have different names.

`TcpThread_proofs`:
- `TypeCorrect`: `Spec => []TypeOK`.
- `FirehoseIsExact`: `Spec => []FirehoseExact`. `TypeOK /\ FirehoseExact` is inductive; the
  arguments are three lemmas on sequences: appending a packet that was not refused, taking the
  head, and emptying keep "the set is exactly the droppable topics, each once".
- `InRefinesQueue`, `OutRefinesQueue`: each step of the detailed specification is a step of
  `FirehoseQueue` or leaves the mapped queue alone. For the out queue the mapping is `Pending`,
  the part the write loop has not reached: `WriteOne` takes the head of it, and `Flushed`, which
  clears the real queue, must be a stutter, which holds because nothing enters `out` while `run`
  holds the buffer's lock.

The second half of the module uses the first two theorems. A direction of a link is one stream: what has
left, then what waits. The invariants say of the stream that its ids increase, stay
below the next id to be offered, and that whatever was offered is in it or is droppable and an older
one of its topic is; they need the firehose sets to be exact, since those decide what `send` refuses.
- `OutputIsComplete`: `Spec => []OutputComplete`. `WriteOne` moves the boundary between the two
  parts, and `Flushed` drops nothing because all of `out` has then been handed over.
- `InputIsComplete`: `Spec => []InputComplete`.
- `LossOnlyAfterFullBatch`: `Spec => LossNeedsFullBatch`, from an invariant that ties `ri`, the index
  of the read loop, to how many different packets the link has parsed.

`WriteStall_proofs`, for any nodes, connections, capacity and batch:
- `TypeCorrect`: `Spec => []TypeOK`.
- `DeadlocksNeverEnd`: `Spec => DeadlocksLast`. A thread of a deadlocked set stays where it is whatever step is
  taken: a full connection is emptied by the thread that reads it only, or by nobody until its server has
  accepted it, and a lock is released by its holder only (`HeldByNetwork`, `HeldByUser`); so whoever could
  help is in the set and is blocked. The set is any set of threads, of any number of nodes.

`NodeGraph_proofs`, from `GraphInv` (the types of what is sent; every packet in a channel has a
simple path that ends in its sender and starts where an ordinary packet was published; and an info is
of a node the sender knew). The
argument: a node sends either a packet it made, with an empty path, or one whose path it has just
found not to contain itself, and appends its own id.
- `PathsAreSimple`: `Spec => []PathsSimple`.
- `FloodsEnd`: no path is longer than the number of nodes, so with `PathsAreSimple` every flood ends.
- `NothingEchoes`: `Spec => NoEcho`.
- `TypeCorrect`: `Spec => []TypeOK`. That the counters are natural numbers is the hard part, for they
  are unsigned and both `untally` and the burial subtract from them.
- `CountsAreExact`: `Spec => []TallyMatches`. Invariant `TallyInv`: every count is the sum of the
  latest infos, its topic has an entry when it is positive, and a node that was never heard of has
  no subscriptions. The last part is why a burial, which skips the unknown nodes, takes off exactly
  what was put on; it needs that only known infos are sent (`GraphInv`).
- The sums are folds that take the nodes in the order of `CHOOSE`. That a fold has a value, that it is
  the same whichever node is taken out first, and how it changes with a summand is proved by
  induction over the subsets of a finite set. The theorems of the library that take a predicate as a
  parameter cannot be used, so the induction is stated for a *set* `P` of subsets (`SubsetInduction`)
  and proved from a smallest counterexample (`LeastNumber`).

`NodeGraphRouting_proofs` says what arrives. Both halves look at one way through the graph, a sequence of
nodes, and use that the path of a packet under way is the part of its way that lies behind it, so that
packets which go the same way can be found and compared wherever they are. Every step is first put into one
of three forms (`StepCases`): it sends infos of its own only, or it publishes, or it passes on the oldest
packet of one channel (`OtherMoves`, `PublishMoves`, `DeliverMoves`).

- `RoutedFromStart`: `Spec => []RoutedAlongWays`: at rest, a node passes on every topic that a node
  subscribes to from which it was reachable, without a break, ever since the start, whatever else joins, makes
  calls or crashes. Invariant `RoutingInv`: along such a way either the next node has an entry of
  `_subscription_count` for the topic, or an info that will make one is still on the way to it, on one of
  the channels before it (`Told`). Older infos that overtake it do no harm, since entries are
  never erased. The hypothesis is `GarbageLocalOnly = {FALSE}`: finding 3 shows that nothing arrives for sure
  without it.
- `SubscriptionsAreRouted`: `Spec => []SubscriptionsRouted`, if also `Joinable = {}`: then every connection
  that there is has been there from the start. Finding 2 shows that with joining nodes it is false.
  `graph_triangle` meets both hypotheses.
- `OrderInvariant`, `PublicationsInOrder`: `Spec => []DeliveredInOrder` if the connections that there are and
  those that may be made form a `Forest`, that is, there is at most one way from a node to another; finding 1
  shows that it is false in a cycle. Nodes may join, crash, subscribe and unsubscribe, packets may be lost with
  a connection, and `_local_only` may be anything. `graph_grow` meets the hypothesis, for its graph is the
  chain a-b-c. That packets which go the same way keep their order (`RouteOrdered`) is inductive in
  any graph. The forest is needed for `BehindOK`, that what is still on its way to a subscriber is newer than
  what it was given: the packet just given and the one on its way must have gone the same way.

`TcpChannel_proofs`, for any sizes of packets (longer than the header, which is not empty), any
capacity of the kernel, any most of `recv` and any batch:
- `InvHolds`: `Spec => []ChannelInv`. `FramesIntact` alone is not inductive: it does not say why
  `FrameAtParsed`, the frame whose size `read` finds in the buffer, is the next one. `ChannelInv` adds
  that each frame starts no earlier than all those before it end (so only one starts where the reader
  stands, lemma `NextFrame`), that a reader in its second stage has the header in its buffer and room
  in its batch, that an end that has gone has stopped, and the order of listening, connecting and
  accepting. What a reset cuts is no more than a stream whose sender has gone (`CutStream`), so the
  frames of an open stream stay exact.
- `TypeCorrect` (`TypeOK`; the cursors of `read` stay in range), `FramesAreIntact`: consequences.
- `NeverBlocksTheThread`: `Spec => []NeverBlocks`.
- `StreamRefined`: `Spec => ImplementsPacketStream`. `WriteNext` is `Hand`, `Parse` is `Take` by
  `NextFrame`, and every other step leaves both histories alone.

`Lifecycle_proofs`, for any servers, publishers and subscribers, and finitely many connections:
- `TypeCorrect`: `Spec => []TypeOK`, whatever the liberties. The types are not inductive by
  themselves: `TypeInv` adds that the lists have room for the connections that wait, and that the place
  where the user thread stands holds a server with the client it is looking at.
- For `Liberties = {}`, as in the run `lifecycle_orderly` (with any one of them the theorems are false,
  see the findings), `OrderlyHolds`: `Spec => []OrderlyInv`, and from it `SpinettsAreExact`,
  `MailboxesAreExact`, `SocketsOutliveLinks` and `NothingEverDangles`. `OrderlyInv` consists of the
  properties and of what they rest on: a link is alive, known to the node and watched by the network
  thread together or not at all, and its socket lives longer; the node's server listens and no other
  does; a node that stops has nothing left; the clients are different remote nodes of the server, up to
  the one being deleted; and a client that still waits in `_spinetts_to_add` was accepted in this spin,
  so that the server, which alone destroys it, does not look at it again before the list is emptied.
  The last is what keeps the spinner from calling a client that went within the spin in which it came.
  `CallingOK` goes with it: every subscriber whose callback is under way still has its mailbox with the
  mailman, so that the walk finds its place again, and the user is in none of the calls that empty the
  mailman.

`CircularBuffer_proofs`: `TypeOK` is inductive.
- `TypeCorrect`: `Spec => []TypeOK`.
- `BufferIsAQueue`: `Spec => ImplementsByteQueue`. The k-th oldest byte lies in one of two pieces of
  the array; a call copies at most two pieces; both are related by arithmetic on the position,
  with the remainder expanded once, in `OneRound`. A read from `data()` is one piece. A write that aborts maps to a stutter.

`Splat_proofs`, from `SplatInv`: who is inside the mutex; what the file holds, by counting pushes; and
what each subscriber has polled or is about to. Only the publisher fills the file, and
whoever truncates it empties it, so it next holds a packet that nobody has polled.
- `TypeCorrect`, `Exclusive` (`ExclusiveUnlessUpset`), `PollsAreWhole` (`WholeUnlessUpset`),
  `PollsAreNewer` (`NewerUnlessUpset`).

Only model-checked:

- Liveness, which is beyond the prover: `FlushedEventually`, `ExitReturns`, `OnlyDeadlocksStall`,
  `ParsedEventually`, `EndedIsForgotten`, `PushReturns`.

Every invariant, action property and refinement that a passing run checks is also a theorem. Beyond
the named assumptions some need a hypothesis: `Liberties = {}`, `Forest`, or `Joinable = {}` with
`GarbageLocalOnly = {FALSE}`. Each leaves out what a finding shows to be wrong.

## 5. Not modelled, and the plan

What could still be proved: of `Lifecycle`, which liberties break which property; `SpinettsExact` and
`MailboxesExact` may survive some of them.

Of the parts named in section 1, not modelled:

- `update_sleep` (16-bit arithmetic that decides only how long a pass is delayed) and the network
  time, which nothing but its own update reads.
- Mailbox ids that collide when addresses are cut to 32 bits, which depends on the allocator.
- From a callback: `start`, `stop`, `spin` and the destruction of the node; and subscribers of `"*"`.
- The auto exit of a node: nothing in the repository switches it on.
- `option`: its assignment template (`include/daylite/option.hpp:63`) is not a copy assignment, so
  that one `option<socket_address>` is assigned to another byte by byte, string included. This is
  undefined behaviour; `tcp_socket::close` overwrites the option before it is destroyed.

Left out for good: CRC, rate, option/result/bson, services (not implemented), network interfaces,
the console and the Windows clock (input and output, or pure helpers without protocol state), the
generated bindings of messages, the daemon, tools, examples and tests (programs that call the
library).
