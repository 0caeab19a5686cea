# Verification of cpp_meet

cpp_meet is a small video-conference system in C++17: twelve modules from
sockets to a shared whiteboard. This directory holds TLA+ models of the parts
that carry its own logic, the TLC configurations that check them on small
instances, and TLAPS proofs of the results that matter most. All paths below are
relative to the repository.

Run everything from this directory:

    tlc -workers 2 -config MCRingBuffer.cfg MCRingBuffer     # a run
    tlapm RingBufferProofs.tla                               # a proof

`PROJECT.json` lists, for every definition, the source lines it models
(`map`), the runs, one mutation of the code per property that the run must
notice (`mutants`), the hazards, the findings and the theorems.

## 1. Inventory

| Component | State | Operations | Interacts with |
|---|---|---|---|
| `RingBuffer` (module01) | `head_`, `tail_`, `buf_` | push, pop, full, empty, size | one producer and one consumer thread |
| `IoContext` (module01) | `running_`, `event_fd_`, callbacks | run, stop, register_fd | the thread of `SfuServer`, epoll |
| `UdpSocket` (module01) | a descriptor | bind, send_to, recv_from | the kernel |
| `RtpPacket`, RTCP (module02) | byte buffers | parse, build, `seq_gt` | all media parts |
| `RtpJitterBuffer` (module02) | `buf_`, `next_seq_` | push, pop_next | receiver |
| STUN, `IceAgent` (module03) | candidates, credentials, state | on_packet, send_binding_request | UDP |
| `DtlsTransport`, `SrtpSession` (module04) | OpenSSL objects; keys, `roc_` | feed_data, drive_handshake, protect, unprotect | UDP, OpenSSL |
| `WebSocketServer` (module05) | `running_`, `conns_` | start, stop, send, broadcast, the epoll loop | clients over TCP, callbacks |
| `RoomManager` (module05) | `rooms_`, `conn_room_` | join, leave, relay | `WebSocketServer` through `notify_` |
| `Sdp` (module05) | none | parse, format | signaling messages |
| audio (06), video (07) | codec objects, packetizer | capture, encode, packetize | devices, codecs |
| `NackManager`, `JitterBuffer`, FEC, GCC (module08) | sequence-number sets, groups, estimates | on_receive, push/pop, feed, on_packet_arrival | receiver |
| `SfuRoom`, `SfuServer` (module09) | `peer_ssrc_map_`, `peers_`, `next_ssrc_`; rooms, thread | add/remove_peer, route_rtp, route_rtcp; start, stop | peers through `send_fn_` |
| pipeline, renderer (module10) | a thread, textures | start, stop, run | capture, encoder |
| `CrdtWhiteboard` (module11) | `added_`, `removed_`, `lamport_ts_`, `peer_id_` | local/remote add/remove, merge, (de)serialize | other replicas |

What makes the components correct, in a phrase each: the ring buffer is a FIFO;
boards that saw the same operations are equal; rooms and rosters agree; the
connection table follows the sockets and no text is lost; a loop stops when it
is told to; an SSRC stands for one stream at a time; what is played is what was sent; two
ends finish their handshake together; what is written is read back as it was.

What is hard here: lock-free memory accesses with stale loads (ring buffer), two
threads and an event loop that must stop (`IoContext`, `WebSocketServer`),
edge-triggered sockets and a byte stream cut anywhere (`WebSocketServer`),
callbacks under locks (signaling), operations that arrive late, twice and out of
order (whiteboard), answers sent after the lock is released (`RoomManager`),
16- and 32-bit counters that wrap (`SfuRoom`, module08), a handshake over a
network that loses the one datagram nobody has a timer for (module04), and
lengths and masks that have to agree on both ends of a line (STUN, RTCP, FU-A).
`PROJECT.json`
lists each hazard at its line together with the properties that watch it.

## 2. Plan

Done, in this order: ring buffer; whiteboard; rooms; WebSocket server; signaling
as the composition of the last two; event loop with its owner; SFU room; the
media path (NACK, FEC and the ordered jitter buffer as operators on records,
composed with a sender and a lossy network); the transport (ICE, then DTLS,
between two ends); the coders and estimators, each against a reference
definition.

Next, most important first:

1. The media path beyond one cycle of the sequence numbers: what `received_`,
   `groups_` and `buf_`, which are never pruned, then do.
2. The frame header of the WebSocket server (lengths of 7, 16 and 64 bits, masks)
   as bytes, and a parsed frame in `ParseFrame`.
3. The life cycles of the capture and the pipeline thread.

Abstract specifications worth stating: a reliable room membership that
`RoomManager` implements, and a replicated last-writer-wins register that one
cell of the whiteboard implements. Proofs to add: the two invariants of `Coding`
about bytes, first the pieces of `Fragments`.

Every module is written so that it can be proved about: constants with named
assumptions, one action per operation, no RECURSIVE operator.

## 3. The modules

### Ring buffer: `RingBuffer`, `BoundedFifo`, `RingBufferProofs`

A call of `push` is split into its loads (`PushLoad`, or `PushFull` when it
returns false), the write of the slot and the release store of `head_`; `pop`
likewise. The load of the *other* thread's index may return any value stored
since the one read before (`LoadableSince`): C++ coherence forbids going back
and promises nothing more. Visibility of the slot contents follows from
release/acquire and is built in: a thread that loaded an index sees the slots
written before its store. `full()` and `empty()` are called by the thread they
concern; `roomSeen` and `dataSeen` remember a false answer.

`BoundedFifo` is the abstract queue. The refinement mapping reads its contents
off `buf_` between `tail_` and `head_`; the store of `head_` is the `Put`, the
store of `tail_` the `Take`, everything else stutters.

Run `ring` (N = 4, two items): refinement, freedom of races on slots, stable
checks, the inductive invariant of the proof (which holds the type invariant),
and that a full buffer drains. With N = 4 both indices wrap
many times and the distance takes all its values; two items suffice as the code
never looks at them. Fairness: the threads finish calls they began, the consumer
polls (its callers do so in loops), and a stored index becomes visible in the
end.

Proofs, for every power of two N and every set of items: `IndInv` says that on
the ring, starting from the producer's stale tail, one meets the true tail, the
consumer's stale head and the true head in this order without lapping
(`IndexOrder`), plus what a thread knows inside its call. None of the results is
inductive without that order: a stale index alone says nothing. `mod` is
replaced by its linear cases in three lemmas first (SMT cannot reason about it
otherwise). From `IndInv` follow `RaceFreedom`, `ConservativeSize`,
(`size()` errs on the side that is safe for its caller), `StableChecks`,
`UnreadSlotsAreKept` and the refinement `RefinesFifo`.

### Whiteboard: `CrdtWhiteboard`, `CrdtSnapshot`, `CrdtWhiteboardProofs`

One replica per participant; an operation goes into the set `issued` and can be
delivered to any replica any number of times (`Remote`), or as part of a state
(`Merge`). `seen` is the history of what reached a replica. A stroke's contents
are a model value; `peer_id`s are integers since only their order matters.
`CrdtSnapshot` adds documents: `serialize_json`, merging a parsed document
(`MergeDocument`), and parsing it into the live board (`ParseJson`, with the
states a failure half way leaves).

Run `whiteboard` (two replicas, two versions of a stroke, at most three
operations, one document that arrives late): strong convergence, mutual merge,
the inductive invariant (unique stamps, clocks ahead of everything known),
immediate effect of local operations, no step back. Three operations are enough
for a pair to be concurrent, ordered or tied and for a third to observe both.
Two replicas suffice because any further one only relays what these issue; the
proofs have no such bound.

Run `whiteboard_join` is a counterexample (finding 1 below).

Proofs, for any replicas, strokes and number of operations, and with documents
of any age among what is merged (`SyncSpec`): `IndInv` says each cell of a board
is the winner among the operations seen for it (`Joined`), that stamps lie in
their author's past and are unique, and clocks dominate; `DocsInv` says that the
board in a document is the board of what its author had seen, which stays true as
the others go on. From them follow `StrongConvergence`, `StampsAndClocks`,
`MutualMerge` (two boards that merge each other are equal, whatever each has
seen), `NothingGoesBack` (a cell only changes to a newer operation) and
`LocalOpsTakeEffect` (what a participant draws or erases wins on its own board at
once). The lemma `CellMerge` carries the argument: joining two winners gives the
winner of the union, because `lww_wins` is a strict order that is total on unique
stamps. None of this holds for `JoinSpec` (finding 1), where stamps are not
unique.

### Rooms: `RoomManager`, `CalmRooms`, `RoomManagerProofs`

`join`, `leave` and a broadcasting `relay` hold the mutex throughout and are one
step each; the reply of `join` is sent by the caller afterwards (`SendReply`).
`roster` is the client's view: what `room_info`, `peer_joined` and `peer_left`
told it. Three specifications: `Spec` (any threads), `SerialSpec` (the epoll
thread is the only caller), `OneRoomSpec` (moreover clients do not switch rooms
without reconnecting).

Run `rooms` (three connections, two rooms, symmetric): the two indexes agree and
no empty room stays; every fellow was announced or is in the pending reply;
a broadcast comes from a peer its receiver was told of or will find in its pending
reply. `CalmRooms` remembers in `calm` that so far one thread called and nobody changed rooms without leaving, that is, that the
steps were steps of `OneRoomSpec`; until then rosters are exact. `CalmSpec` has
the behaviours of `Spec`, so one run answers both questions.

Rosters are not exact otherwise. A client that joins a second room is taken out
of the first one, as the comment at `room_manager.cpp:14` says, but unlike
`leave` the inlined code sends its old fellows no `peer_left`; they list it until
they leave themselves.

All these are proved for any set of connections and rooms. `IndInv` adds to the
index and roster properties only what pending replies say (`RepliesPending`).
`RostersAreExact` is about `OneRoomSpec`; `RostersAreExactWhileCalm` carries it
over to the calm beginning of every behaviour of `Spec`.

### WebSocket server: `WebSocketServer`, `WebSocketServerProofs`

The epoll thread, the owner's threads (one calls start and stop, others send and
broadcast at any time), the kernel (backlog, socket buffers, edge flags) and the
clients. Frames arrive as two fragments and `read` returns any number of them;
descriptors are reused. A critical section is a step; parsing holds the lock over
one step per frame. `send` is two steps: its caller chooses an id that
`on_connect_` gave it (`SendCall`) and waits for `conns_mutex_`; once it has the
lock it looks the id up and writes (`SendWrite`), and in between the loop may drop
the connection, close the descriptor and accept another client on it. The end of
`run_loop` closes every connection without a call of `on_disconnect_`, so the
owner keeps those ids over a stop and a start: `online` is what the callbacks told
the owner, and the history `orphans` the ids in it that stop left behind.
Abstracted: lengths and masks of frame headers, HTTP text, output bytes.

Run `websocket` (two descriptors, two connections, two starts, three frames or
calls of `send` in all and any number of Pings; 564 337 states):

- `ConnsAreOpenSockets`: the table and the open sockets agree;
- `CallbacksPaired`: the ids the owner holds are those of the upgraded
  connections and of the orphans; nothing but a stop leaves an `on_connect_`
  without its `on_disconnect_`;
- `OnlyStaleSendsAreEarly`: a frame precedes the 101 only when `send` writes it
  with a stale id, one that was taken back while the caller waited for the lock or
  that stop left behind. This does happen: `send` looks for the entry and not for
  `handshake_done` (`websocket_server.cpp:305`). `broadcast` never does it;
- `NothingStuck`: no input is stuck behind an edge;
- `TextsDelivered`: texts arrive in order and none is lost before the drop;
- `StopReturns`, `HangupNoticed`: `stop` returns and a hang-up is noticed, unless
  clients send for ever. The exception is the code's: `handle_client` reads until
  EAGAIN and never tests `running_` (`websocket_server.cpp:131`), so a client
  that keeps sending holds the loop, and with it the `join` in `stop`. Without the
  disjunct `[]<><<Client>>_vars` both fail on the endless Pings.

Two connections over two descriptors give both concurrency and reuse of a
descriptor; three frames of two fragments give half frames, several in one read,
and one after a Close. Fairness: the loop thread is scheduled and `join` returns
when the thread has ended. Clients owe nothing.

Proved for any number of descriptors, connections, frames and restarts, without
fairness: all four invariants of the run (`NoLeak`, `OwnerIsToldTheTruth`,
`OnlyAStaleIdIsEarly`, `NobodyIsForgotten`) and the order and completeness of the
texts (`TextsArrive`). None is inductive. The invariants speak of the
moments between two connections. `IndInv` says what holds while one is handled:
the entry of `conns_` and the socket of `cur` may differ, in a way that depends
on where the loop is (after a Close the socket goes first, in `disconnect` the
entry); every other connection is whole; events not yet handled are of open
sockets other than `cur`, so no stale event reaches a reused descriptor.

For the texts a second invariant, `TextInv`, looks at the unread input of a
connection, the buffer followed by the socket, which no `read` changes
(`ReadMoves`): it is what the client has sent after the text that
`on_message_` got last (`Sent`). That means whole frames and at most half of one
more, which is the one the client is in the middle of; texts numbered without a
gap up to the client's own count, by a function that counts along the fragments;
and no complete Close unless the client sent one. Before the 101 it is the request
alone, which is why the buffer may be cleared then; and an entry is dropped when
either a Close was read or nothing but half a frame is left. The lemmas `FrameTaken`
and `HalfSent` say that taking a frame off the front and sending half of one at
the end preserve `Sent`. Liveness stays with TLC.

### Signaling: `Signaling`

The two classes wired as their callbacks suggest, seen at their locks. Run
`signaling`: counterexample (finding 2). The wiring itself is the application's
and is not in the repository; the README of module05 describes it.

### Event loop: `IoContext`, `SfuServerProofs`

`run` with relaxed loads of `running_`, the eventfd, a level-triggered UDP
socket, and `SfuServer::start/stop` as owner. Run `io_loop` (a stop only after
the loop was entered): `stop` returns, no callback runs afterwards, every
datagram is received. Run `io_early_stop`: counterexample (finding 3). Fairness:
both threads are scheduled; a relaxed store becomes visible in finite time
(strong fairness of loading the newest value). The runs set CHECK_DEADLOCK FALSE
as the system ends once stopped.

Proved for any number of datagrams, any schedule and any stale load, a `stop`
before the loop included: the types (`LoopTypeCorrect`; a callback receives only when
a datagram is there, since the loop is the only reader) and that no callback runs
once `stop` has returned (`StopIsQuiet`; an owner that is past `start` creates no
thread, so the one it joined stays the last).

### SFU room: `SfuRoom`, `SfuServerProofs`

Every method is one step. The counter is modelled modulo `SsrcSpace` (2^32 in
the code) and `add_peer` takes its value whether it is in use or not, as the code
does. Run `sfu` (three peers, a space of three values, a start value that makes the
counter wrap, five registrations; 18 949 states): map and vector agree, and if
two registrations are heard under one outgoing SSRC they are at least `SsrcSpace`
apart (`StreamsUnmixed`). Values do repeat in this run, while their first owner is
still there: five registrations go round the space more than once.
`src/module09_sfu/README.md:68` calls the outgoing SSRCs globally unique, and its
section on pitfalls (坑 6) names the overflow; the property says how far the code
keeps the promise. Only RTP is recorded in `heard`. `route_rtcp` changes no state
and forwards reports with the publisher's own SSRC, which their receivers do not
know; the code says so in a comment (`sfu_room.cpp:57`), while the README
describes a translation. No property is stated about it.

Proved for every size of the space, any peers and any number of registrations,
however often the counter goes round. `IndInv`: the counter is the start value
plus the number of registrations, modulo the space, and what is in use or was heard
is the value that its registration was given, so equal values belong to
registrations a multiple of the space apart (`StreamsStayUnmixed`; `SsrcsAreFresh`
says that a new one shares its SSRC with none of the last `SsrcSpace - 1`).
`MapAndVectorStayEqual` proves the agreement of map and vector:
`WithoutIs` says what the loop of `erase(remove(...))` leaves of a vector of any
length (the items other than the one removed, none twice if none was), by
counting through its rounds, and the SSRC of `add_peer` is never the value
that stands for "no entry".

### Media path: `RtpSequence`, `NackManager`, `XorFec`, `RtpJitterBuffer`, `MediaPath`, `WeakNetworkProofs`

The first four modules hold the classes of module02 and module08 as operators:
the state of an object is a record, a method maps it to the state it leaves.
`MediaPath` composes them: a sender that numbers its packets and feeds
`XorFecEncoder`, a network that loses, reorders and repeats, and a receiver that
gives data packets to `NackManager`, `XorFecDecoder` and `RtpJitterBuffer` and
pushes what the decoder rebuilds. The wiring is that of the diagram in
`src/module08_weak_network/README.md`; no program of the repository contains it,
so the sender, the network and the receiver's loop are marked external.
`RtpJitterBuffer` stands where the diagram has the `JitterBuffer` of module08,
which plays by time and is modelled apart (see Coders and estimators).

A payload is the set of its positions and of the bytes that stand there, each byte
of a sent packet being a value of its own; the exclusive or takes what an odd
number of payloads holds and is as long as the longest. So a rebuilt packet is
right if its bytes are those of the packet with its number and no others, and its
length is that of the longest packet of the group: `fec.cpp:20` and `:86-93` extend
with zeros and never cut, and nothing tells how long the lost packet was (坑 2 in
the README of module08). The wall-clock time of a missing number is reduced to "100
ms have passed". Timestamps and payload types are left out (the decoder copies the
timestamp of another packet of the group, `fec.cpp:100`).

Run `media` (numbers modulo 8, groups of two, four data packets from number 6,
so that the second group begins after the wrap, with payloads of lengths 1, 2, 2
and 0; 47 410 states): the list of missing numbers is exact, every lost packet that
a newer one follows is requested, what the decoder rebuilds is a packet that was
sent but for zero bytes at its end (`RebuiltIsPadded`), playback is in order, each
packet as it was sent or rebuilt, and if the groups are aligned and each loses at
most one packet playback reaches the end without any retransmission. Two groups on
either side of the wrap are the smallest instance in which a packet of one group
overtakes the other. Fairness: the sender sends, a packet that is not lost arrives,
time passes, and the playback timer calls `pop_next`; the network may lose any
packet. The run sets CHECK_DEADLOCK FALSE as everything may have been played.

`StreamAssumption` has one limit: the stream is shorter than half a cycle of the
numbers. The code never prunes `received_`, `groups_` (坑 6) and `buf_`, and in the
next cycle old entries are mistaken for new ones: no loss is requested any more,
old packets are combined with new ones.

A second one is the premise of `PlaybackGoesOn` alone (`Aligned`): the first number
and the size of the cycle are multiples of the group size. The encoder counts groups
from the first packet it is fed, the decoder from number zero (坑 3). Where they
disagree nothing wrong is rebuilt, which `RebuiltIsPadded` says without that premise,
but lost packets stay lost; with the default `group_size` of 5 and 2^16 numbers
this happens at the first wrap at the latest.

Proved for any size of the groups, aligned or not, any number space, any lengths of
the payloads, any stream within half of the numbers and any behaviour of the network:
the three invariants of the run (`MissingIsExact`, `RebuiltPacketsArePadded`,
`PlaybackInOrder`). `IndInv` has a part per object. `EncoderInv`: the encoder holds
the exclusive or of the packets of the group it is in, the groups being counted from
the first packet. `TransitInv`:
whatever is on the way, has arrived or waits in a group was sent. `NackInv`:
`received_` and `missing_` are the images of what has arrived and of what has not,
between the first arrival and the newest, and `max_seen_` is the newest.
`BufferInv`: what was played is a run of the stream, and `next_seq_` is the number
that follows it. The arithmetic is in lemmas: a number stands for one packet
(`SeqOfInjective`), the numbers of a group follow that of its first packet across
the wrap (`NumbersFollow`), what the decoder files under the first number of a group
of the encoder is of that group, aligned or not (`GroupOfData`), `seq_gt` is
the order of the stream (`SeqGtIsLater`), the loop over a gap yields the numbers in
between (`GapIsBetween`). `RebuiltIsRight` needs no history: whatever set of the
sender's packets the decoder holds and wherever it files them, what it rebuilds is
one of them, padded, because all but one of a group's packets combined with the FEC
packet leave the bytes of the one that is missing and the length of the longest
(`XorOfGroup`). All use the limit in `StreamAssumption`, and they fail where
the limit does. `LossIsRequested` and `PlaybackGoesOn` are liveness and stay with
TLC.

### Transport: `Transport`, `TransportProofs`

Two ends, client and server, each an `IceAgent` and, once that is connected, a
`DtlsTransport`, over a network that loses, repeats and reorders. The agents and
the calls of the driver are translated; the four flights of a DTLS 1.2 handshake
(`StageAfter`, `Flights`) and the network are external, and so is the program that is no agent and sends a
request without USERNAME (`AskedByOthers`); the owner calls the
functions in any order, as soon as ICE is connected. A BIO is the set of the flights in it.
`SetRemoteCredentials` may come at any time: requests that arrive before it do
not match and are dropped; one without USERNAME is answered and connects whoever
sent it (`ice_agent.cpp:31`). `OnResponse` connects without looking at what the
response says, as the code does.

Run `transport` (372 000 states; bound: of the requests of an end one is on the
way at a time): no step but a request without USERNAME connects an agent before
both have the other's credentials; the client finishes after the server, and the server after the
client sent its last flight; both finish. Fairness: the signaling brings the
credentials, each owner repeats requests until it is connected and runs its loop,
`decrypt` included, and a datagram that is sent again and again arrives (strong
fairness of its delivery; the network may lose any number before). The run sets
CHECK_DEADLOCK FALSE as nothing is left to do when both are done.

The last flight is what makes the liveness hard: its sender has set
`handshake_done_`, so `drive_handshake` and `drive_timeout` return at once
(`dtls_transport.cpp:111`, `:128`). If the flight is lost the client repeats its
own, and only `SSL_read` inside `decrypt` answers it. The loop in the README of
module04, section 4.4, calls `drive_handshake` but not `decrypt`: the owner of a
server that runs just this loop, with nothing to decrypt of its own, leaves its
client waiting. `ConnectedIsMutual` is weaker than what
`src/module03_stun_ice/README.md:124` calls the flag of a check in both
directions: it does not say that a datagram went each way, and it has to except a
request that names nobody, since the code tests a USERNAME only if there is one and
never verifies the integrity.

Proved: the types, and both safety properties. `ConnectionIsMutual` needs what
is on the way: a response exists only if both sides have credentials, and a
request that names both was sent by an end that has them. `FinishingIsMutual`
needs that flights in a buffer or on the way were reached by their sender.

### Coders and estimators: `Coding`, the modules it extends, `CodingProofs`

Classes without concurrency, written as operators on sequences; `Coding` feeds
each of them every sequence of inputs up to a length, and an invariant compares
the result with a reference definition written from the standard. The two estimators keep state between
inputs: `object` is the `GccEstimator` or the `JitterBuffer` (with what it handed
out) after the inputs so far. An input of the `JitterBuffer` is a packet that is
pushed or a call of `pop`, before its delay is over (`EarlyPop`) or after it
(`DuePop`): the network pushes and a timer pops, independently of each other.

| Module | Code | Property |
|---|---|---|
| `RtcpPacket` | `RtcpSR`, `RtcpNack` (module02) | `NackExact`: a NACK names exactly the lost numbers, ascending, in as few pairs as RFC 4585 allows, or in one more where numbers on both sides of the wrap could share a pair; cut messages are refused |
| `RtpPacket`, `RtpVideoPacketizer`, `SrtpSession` | modules 02, 07, 04 | `MediaArrives`: from the NAL unit through FU-A, RTP and SRTP to the payloads and back, byte for byte |
| `StunMessage` | module03 | `StunSurvives`: written and read back; a receiver that follows RFC 5389 verifies integrity and fingerprint |
| `Sdp` | module05 | `SdpNormalForm`: what each section holds, when `stoi` throws, and what is read back of what is written |
| `GccEstimator` | module08 | `RateFollowsTrend`: state by the least-squares slope, one cut per overuse |
| `JitterBuffer` | module08 | `JitterDepth`: order is kept up to `Limit` overtakings, late packets come out late, and more than `Limit` wait only after a burst |

`BigEndian` holds the byte order they share. RTCP messages are sequences of 32-bit
words, the others of bytes. AES and HMAC are external: operators that depend on
all they are given; nothing is said about secrecy. CRC-32 is computed as in the
code, on sets of bits. SDP lines are records, as far as `parse` looks at them. Loops
are recursive functions, one value per round.

Run `coding` (356 619 states): up to four lost numbers on both sides of a mask's
end and of the number space, NAL units of up to fifteen bytes with and without
start code against a `MAX_RTP_PAYLOAD` of 4 and the wrap of the sequence number,
packets with up to two CSRCs and an extension of up to two words, three STUN
attributes in any order, four SDP lines, seven delays in a window of 5, seven
pushes and pops at a `Limit` of 2. In each case the bound lies beyond the boundary that
matters: three fragments, one more delay than the window, one more packet than
the limit. Slopes are exact fractions here and floating point in the code; they
can differ only where a slope is 0.5 to the last bit. Protected packets fit into
two blocks of AES, so the counter never carries past its last byte, as in the
code for payloads of less than 4096 bytes.

What was met on the way and is part of the models:

- The constructor of `RtpPacket` passes over CSRCs but not over a header
  extension, `parse` over both (`rtp_packet.cpp:12`).
- `protect` masks everything behind the fixed header, CSRCs and extension
  included (`srtp_session.cpp:107`), and `roc_` never advances; both ends agree on
  this, so packets are still read across the wrap.
- `serialize` of a NACK sorts plain numbers and never pairs across the wrap: 65535
  and 0 take two pairs, where one with the first bit of its mask would do and
  `parse` would read it (`rtcp_packet.cpp:121`, `:207`). `FewestPairs` counts
  modulo 2^16, as RFC 4585 does; `NackExact` allows one pair more in this case only.
- The line `m=` with nothing behind it is read as a section without type, which
  `serialize` writes as `m= 0 `, and this is read as one of type `0`
  (`sdp.cpp:18`, `:73`). `SdpNormalForm` says that this is the only difference
  (`ReadBack`).
- A payload type that is no number makes `Sdp::parse` throw instead of returning
  an empty optional (`sdp.cpp:91`).
- `JitterBuffer` hands out the smallest number, so at the wrap newer packets come
  first, and a packet repeated after it was handed out is handed out again
  (`jitter_buffer.cpp:34`). What `JitterDepth` says of the order is stated for
  numbers that do not wrap and packets that arrive once.
- `push` has no bound: only a call of `pop` takes packets out, one at a time. What
  waits is at most `Limit` and the excess of what was pushed over the calls of `pop`
  since some moment (`Backlog`): a burst of n packets between two calls may leave
  `Limit` + n waiting.
- The estimate of `GccEstimator` has no upper limit.

Proved in `CodingProofs`, for inputs of every length:

- `NackNamesTheLost`: `NackExact`, for any lost numbers in any order and with any
  repetitions, any number space and any width of the mask. The invariant of the
  loop in `serialize` (`RoundInv`) is that what is left is what no pair reaches yet
  (`Reached`), that first numbers lie more than a mask apart (`Apart`) and that
  each mask holds the lost numbers it reaches (`PairsRight`); every round takes a
  number away, so there are rounds enough (`PairsAreRight`). `AllUnpacked` goes through
  the loops of `parse` and finds the same numbers in ascending order. That the pairs
  are few (`FewIs`): a pair of any other message stands for at most one of the first
  numbers `serialize` takes, as these lie more than a mask apart, except around the
  wrap, where one pair can stand for the last and the first (`SharedOnlyAcross`).
- `EstimateFollowsTrend`: `RateFollowsTrend`, for every window and all delays. The
  invariant says that the buffer is the window of the last delays (`TrendKept`)
  and that the estimate is at least 566 666 bps in an overuse and 666 666
  otherwise (`LeastRate`): between two cuts there is always a raise, so the floor
  of 50 000 in `gcc_estimator.cpp:44` is never reached. (The run sees seven delays;
  that the bound holds however many come is this theorem's.) `StateIsTrend` shows that
  the regression by means in the code and the slope by pairs of delays lead to the
  same state; the algebra is in lemmas about sums over the window.
- `JitterBufferKeepsOrder`: `JitterDepth`, for every limit and every order of pushes
  and pops. `WaitingInv` adds what makes it inductive: every packet that came is
  waiting or was handed out (`Accounted`), of whatever was handed out while no `pop`
  was due, more than `Limit` packets not before it have arrived (`PushedOut`), and a
  packet that waits with a smaller number than one handed out arrived after it
  (`LateOnesOvertaken`). `InBurst` bounds what waits by the backlog behind the worst
  moment so far.
- `SdpIsReadAsWritten`: `SdpNormalForm`, for texts of any number of lines, a media
  line without a type included. The invariant relates what was read to the lines so far (`ReadInv`): parse has thrown
  if and only if a section maps something that is no number, and otherwise the
  description holds what they say (`Told`). One line more changes the section it
  belongs to (`SectionGrows`), starts one (`SectionBegins`), or leaves it as it was
  (`SectionStays`); which of these depends on whether the section is the last
  (`NamedOfMore`). That a description is read back as it is written,
  but for the type `0` of a section that had none (`WrittenIsRead`), goes through the
  loop of `serialize` section by section and line by line (`SectionRead`).

A recursive function over the rounds of a loop has the values the loop computes:
this is proved once (`LoopRuns`) by a smallest counterexample, since the induction
theorems of the library take operators, and cited for each loop. The proofs use
`InputsAssumption`: the inputs given to a subject are values its code can be given
(lost numbers are sequence numbers, delays are integers, lines are lines of a
description). `TextLines` is `SdpLines` with the literals of the code named as
texts, since no prover knows that a literal is in STRING.

## 4. Findings

1. `parse_json` into a live board takes over the author's `peer_id_` and clock
   (`crdt_whiteboard.cpp:112`): two nodes then issue different operations with
   one stamp and never converge.
2. `on_message_` is called under `conns_mutex_` (`websocket_server.cpp:256`),
   which `send` locks again: answering from the callback blocks the loop for
   ever.
3. `IoContext::run` overwrites a `stop` that came before it
   (`io_context.cpp:63`): `SfuServer::stop` waits for ever.

## 5. What is not shown

Liveness is checked by TLC only, on the instances above: `FullBufferDrains`,
`StopReturns` of both modules, `HangupNoticed`, `PacketsReceived`,
`HandshakeCompletes`, `LossIsRequested` and `PlaybackGoesOn`. So are two
invariants of `Coding`. `MediaArrives` and `StunSurvives` run through bytes: the
operators flatten sequences of sequences and fold over bits (CRC-32, whose residue
is a fact about polynomials), which no prover at hand follows. Every other
property of a passing run is a theorem. The proofs cover safety, and take from the
constants only what the named assumptions say.

Not modelled: `UdpSocket` (socket calls without state of its own), the capture
device and Opus (module06), the H.264 encoder (module07), pipeline and renderer
(module10), the test harness (module12), OpenSSL's internals, `encrypt`, the
certificate and its fingerprint in `DtlsTransport`, output of the WebSocket server
byte by byte, and what is listed under "Next" in the plan.
