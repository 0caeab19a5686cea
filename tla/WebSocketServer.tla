-------------------------- MODULE WebSocketServer --------------------------
(***************************************************************************)
(* WebSocketServer of module05: the epoll thread (run_loop), the owner's   *)
(* threads, one that calls start and stop and others that call send and    *)
(* broadcast at any time, and the clients.                                 *)
(*                                                                         *)
(* A critical section of conns_mutex_ is one step, except parse_ws_frames, *)
(* which keeps the lock over one step per frame: send and broadcast wait   *)
(* while the loop parses.  Only the loop thread changes conns_, so the     *)
(* lookup that follows read always finds its connection.  A caller of send *)
(* chooses an id before it waits for the lock: that is a step of its own.  *)
(* The callbacks are those of the module's tests: they note what happened  *)
(* and do not call the server (module Signaling has callbacks that do).    *)
(*                                                                         *)
(* TCP is a byte stream: a request or frame arrives as two fragments, and  *)
(* one read returns any number of the fragments that have arrived.  A      *)
(* client sends frames only after it has the 101 response.  Accepted       *)
(* sockets are edge-triggered: epoll_wait reports one when something has   *)
(* arrived since it last did.  The listening socket is level-triggered.    *)
(***************************************************************************)
EXTENDS Naturals, Sequences

CONSTANTS Fds,        \* descriptors accept may return, reused after close
          Listen,     \* server_fd_ in the event list
          NoFd,       \* the loop is handling no connection
          NoFrame,    \* the client is not in the middle of a frame
          MaxDials,   \* bound: connections the clients open
          MaxFrames,  \* bound: requests and frames the clients send and calls
                      \* of send; Pings go on beyond it, see ClientBegin
          MaxStarts   \* bound: calls of start

Kinds == {"upgrade", "bad", "text", "ping", "close"}

ASSUME ModelValues ==
  Listen \notin Fds /\ NoFd \notin Fds /\ NoFrame \notin [kind : Kinds, n : Nat]

VARIABLES running,   \* running_
          app,       \* the owner's thread: "idle", or in stop's "join"
          online,    \* the owner: on_connect seen, on_disconnect not yet
          orphans,   \* history: ids in online whose connection run_loop closed
          target,    \* the id a call of send waits to write to
          early,     \* history: what wrote a frame to a client before its 101
          tpc,       \* where the loop thread is
          evs,       \* events epoll_wait returned, not yet handled
          cur,       \* the descriptor handle_client works on
          conn,      \* conns_: "none", "http", "ws" (handshake_done)
          buf,       \* recv_buf, then ws_buf
          got,       \* number of the text on_message was last called with
          backlog,   \* kernel: connections waiting for accept
          sock,      \* kernel: is the descriptor open?
          stream,    \* kernel: fragments that arrived and were not read
          eof,       \* kernel: the client has closed its end
          edge,      \* kernel: something arrived since epoll_wait reported it
          peer,      \* the client at the other end, see NewPeer
          dials, sends, starts   \* counters for the bounds

owner == <<running, app, online, orphans, target, early, starts>>
loop == <<tpc, evs, cur>>
table == <<conn, buf, got>>
kernel == <<backlog, sock, stream, eof, edge>>
client == <<peer, dials, sends>>
vars == <<owner, loop, table, kernel, client>>

Frames == [kind : Kinds, n : 0..MaxFrames]
Fragments == [kind : Kinds, n : 0..MaxFrames, half : {1, 2}]

\* A client: the frame it has sent half of, whether it has begun its request,
\* how many texts it has sent, and whether it has sent a Close frame.
Peers == [frame : Frames \cup {NoFrame}, asked : BOOLEAN, texts : 0..MaxFrames,
          closing : BOOLEAN]
NewPeer == [frame |-> NoFrame, asked |-> FALSE, texts |-> 0, closing |-> FALSE]

TypeOK ==
  /\ running \in BOOLEAN /\ app \in {"idle", "join"}
  /\ online \in SUBSET Fds /\ orphans \in SUBSET Fds /\ target \in Fds \cup {NoFd}
  /\ early \in SUBSET {"broadcast", "send", "stale send"}
  /\ tpc \in {"none", "poll", "events", "read", "parse", "drop", "close", "gone", "done"}
  /\ evs \in SUBSET (Fds \cup {Listen}) /\ cur \in Fds \cup {NoFd}
  /\ conn \in [Fds -> {"none", "http", "ws"}]
  /\ buf \in [Fds -> Seq(Fragments)] /\ stream \in [Fds -> Seq(Fragments)]
  /\ got \in [Fds -> 0..MaxFrames]
  /\ backlog \in 0..MaxDials
  /\ sock \in [Fds -> BOOLEAN] /\ eof \in [Fds -> BOOLEAN] /\ edge \in [Fds -> BOOLEAN]
  /\ peer \in [Fds -> Peers]
  /\ dials \in 0..MaxDials /\ sends \in 0..MaxFrames /\ starts \in 0..MaxStarts

Init ==
  /\ running = FALSE /\ app = "idle" /\ online = {} /\ orphans = {} /\ target = NoFd /\ early = {}
  /\ starts = 0
  /\ tpc = "none" /\ evs = {} /\ cur = NoFd
  /\ conn = [f \in Fds |-> "none"] /\ buf = [f \in Fds |-> <<>>] /\ got = [f \in Fds |-> 0]
  /\ backlog = 0 /\ sock = [f \in Fds |-> FALSE] /\ stream = [f \in Fds |-> <<>>]
  /\ eof = [f \in Fds |-> FALSE] /\ edge = [f \in Fds |-> FALSE]
  /\ peer = [f \in Fds |-> NewPeer] /\ dials = 0 /\ sends = 0

-----------------------------------------------------------------------------
(* The owner's threads.                                                    *)

\* start(): listen, create the epoll set, running_ = true, spawn run_loop.
\* Called on a server that is not started.
Start ==
  /\ app = "idle" /\ tpc = "none" /\ starts < MaxStarts
  /\ running' = TRUE /\ tpc' = "poll" /\ starts' = starts + 1
  /\ UNCHANGED <<app, online, orphans, target, early, evs, cur, table, kernel, client>>

\* Mutant: stop joins without clearing running_.
StopForgetsFlag ==
  /\ app = "idle" /\ app' = IF tpc = "none" THEN "idle" ELSE "join"
  /\ UNCHANGED <<running, online, orphans, target, early, starts, loop, table, kernel, client>>

\* stop(): running_ = false, then wait for the thread, if there is one.
Stop ==
  /\ app = "idle"
  /\ running' = FALSE
  /\ app' = IF tpc = "none" THEN "idle" ELSE "join"
  /\ UNCHANGED <<online, orphans, target, early, starts, loop, table, kernel, client>>

\* stop(): the thread has ended; close the listening socket (connections
\* nobody accepted are reset) and the epoll set.
Joined ==
  /\ app = "join" /\ tpc = "done"
  /\ app' = "idle" /\ tpc' = "none" /\ backlog' = 0
  /\ UNCHANGED <<running, online, orphans, target, early, starts, evs, cur, table,
                 sock, stream, eof, edge, client>>

\* send(conn_id, msg): the caller passes an id that on_connect gave it and
\* on_disconnect has not taken back, and waits for conns_mutex_.
SendCall(f) ==
  /\ target = NoFd /\ f \in online /\ sends < MaxFrames
  /\ target' = f /\ sends' = sends + 1
  /\ UNCHANGED <<running, app, online, orphans, early, starts, loop, table, kernel, peer, dials>>

\* A frame is written to the sockets in fs; the lock is not held by the loop.
WriteFrames(fs, call) ==
  /\ tpc # "parse"
  /\ early' = IF \E f \in fs : conn[f] = "http" THEN early \cup {call} ELSE early
  /\ UNCHANGED <<running, app, online, orphans, starts, loop, table, kernel, client>>

\* send has the lock: it looks the id up and writes to that entry in whatever
\* state it is.  The id is stale if the owner's connection has ended by now.
SendWrite ==
  /\ target # NoFd /\ target' = NoFd
  /\ WriteFrames({f \in {target} : conn[f] # "none"},
                 IF target \in online \ orphans THEN "send" ELSE "stale send")

\* broadcast(msg), to the connections with handshake_done.
Broadcast == WriteFrames({f \in Fds : conn[f] = "ws"}, "broadcast") /\ UNCHANGED target

-----------------------------------------------------------------------------
(* The loop thread: run_loop and accept_client.                            *)

\* epoll_wait returned: every ready socket, each once.  A timeout (nothing
\* ready) only tests running_ again.
Wait ==
  LET ready == {f \in Fds : sock[f] /\ edge[f]} \cup {x \in {Listen} : backlog > 0} IN
  /\ tpc = "poll" /\ running /\ ready # {}
  /\ evs' = ready
  /\ edge' = [f \in Fds |-> edge[f] /\ f \notin ready]
  /\ tpc' = "events"
  /\ UNCHANGED <<cur, owner, table, backlog, sock, stream, eof, client>>

\* accept_client, one connection: register it, enter it into conns_.
Accept(f) ==
  /\ tpc = "events" /\ Listen \in evs /\ backlog > 0 /\ ~sock[f]
  /\ backlog' = backlog - 1
  /\ sock' = [sock EXCEPT ![f] = TRUE] /\ stream' = [stream EXCEPT ![f] = <<>>]
  /\ eof' = [eof EXCEPT ![f] = FALSE] /\ edge' = [edge EXCEPT ![f] = FALSE]
  /\ conn' = [conn EXCEPT ![f] = "http"]
  /\ buf' = [buf EXCEPT ![f] = <<>>] /\ got' = [got EXCEPT ![f] = 0]
  /\ peer' = [peer EXCEPT ![f] = NewPeer]
  /\ UNCHANGED <<owner, loop, dials, sends>>

\* accept_client: accept fails (nobody waits, or no descriptor is left).
AcceptDone ==
  /\ tpc = "events" /\ Listen \in evs
  /\ backlog = 0 \/ \A f \in Fds : sock[f]
  /\ evs' = evs \ {Listen}
  /\ UNCHANGED <<tpc, cur, owner, table, kernel, client>>

\* The loop takes the next event of the list: handle_client(fd).
Handle(f) ==
  /\ tpc = "events" /\ f \in evs
  /\ evs' = evs \ {f} /\ cur' = f /\ tpc' = "read"
  /\ UNCHANGED <<owner, table, kernel, client>>

\* Every event is handled: back to while (running_).
EventsDone ==
  /\ tpc = "events" /\ evs = {}
  /\ tpc' = "poll" /\ cur' = NoFd
  /\ UNCHANGED <<evs, owner, table, kernel, client>>

\* close: with the sockets goes what the kernel and the model kept for them.
CloseSockets(fs) ==
  /\ sock' = [f \in Fds |-> sock[f] /\ f \notin fs]
  /\ stream' = [f \in Fds |-> IF f \in fs THEN <<>> ELSE stream[f]]
  /\ eof' = [f \in Fds |-> eof[f] /\ f \notin fs] /\ edge' = [f \in Fds |-> edge[f] /\ f \notin fs]
  /\ got' = [f \in Fds |-> IF f \in fs THEN 0 ELSE got[f]]
  /\ peer' = [f \in Fds |-> IF f \in fs THEN NewPeer ELSE peer[f]]

\* run_loop: running_ is false; close every connection, clear conns_.
\* on_disconnect_ is not called: the owner is left with the ids.
Exit ==
  /\ tpc = "poll" /\ ~running
  /\ CloseSockets({f \in Fds : conn[f] # "none"})
  /\ conn' = [f \in Fds |-> "none"] /\ buf' = [f \in Fds |-> <<>>]
  /\ orphans' = orphans \cup {f \in Fds : conn[f] = "ws"}
  /\ tpc' = "done"
  /\ UNCHANGED <<evs, cur, backlog, dials, sends, running, app, online, target, early, starts>>

-----------------------------------------------------------------------------
(* The loop thread: handle_client and parse_ws_frames.                     *)

\* read says EAGAIN.
ReadAgain ==
  /\ tpc = "read" /\ sock[cur] /\ stream[cur] = <<>> /\ ~eof[cur]
  /\ tpc' = "events"
  /\ UNCHANGED <<evs, cur, owner, table, kernel, client>>

\* read returns 0 or an error (EBADF after a Close frame).
ReadEnd ==
  /\ tpc = "read"
  /\ ~sock[cur] \/ (stream[cur] = <<>> /\ eof[cur])
  /\ tpc' = "drop"
  /\ UNCHANGED <<evs, cur, owner, table, kernel, client>>

\* read takes k fragments off the stream.
ReadFragments(k) ==
  /\ tpc = "read" /\ sock[cur] /\ k \in 1..Len(stream[cur])
  /\ stream' = [stream EXCEPT ![cur] = SubSeq(@, k + 1, Len(@))]

\* Mutant: what an earlier read left in the buffer is overwritten.
OverwrittenBuf(k) == SubSeq(stream[cur], 1, k)

\* The connection's buffer with what read returned appended.
FilledBuf(k) == buf[cur] \o SubSeq(stream[cur], 1, k)

\* Before the handshake: the blank line has not arrived.
ReadHttpPart(k) ==
  /\ ReadFragments(k)
  /\ conn[cur] = "http" /\ \A i \in DOMAIN FilledBuf(k) : FilledBuf(k)[i].half = 1
  /\ buf' = [buf EXCEPT ![cur] = FilledBuf(k)]
  /\ UNCHANGED <<loop, conn, got, owner, backlog, sock, eof, edge, client>>

\* Mutant: on_connect_ is called whatever the handshake returns.
OnlineRegardless(ok) == online \cup {cur}

\* on_connect_(fd), if the handshake succeeded.
OnlineAfter(ok) == IF ok THEN online \cup {cur} ELSE online

\* The request is complete.  do_ws_handshake writes the 101 and on_connect_
\* is called; a request without a key is refused and the connection dropped.
ReadHttpEnd(k) ==
  /\ ReadFragments(k)
  /\ conn[cur] = "http" /\ \E i \in DOMAIN FilledBuf(k) : FilledBuf(k)[i].half = 2
  /\ LET ok == FilledBuf(k)[1].kind = "upgrade" IN
       /\ conn' = [conn EXCEPT ![cur] = IF ok THEN "ws" ELSE "http"]
       /\ tpc' = IF ok THEN "read" ELSE "drop"
       /\ online' = OnlineAfter(ok) /\ orphans' = IF ok THEN orphans \ {cur} ELSE orphans
  /\ buf' = [buf EXCEPT ![cur] = <<>>]
  /\ UNCHANGED <<evs, cur, got, running, app, target, early, starts>>
  /\ UNCHANGED <<backlog, sock, eof, edge, client>>

\* After the handshake: append to ws_buf, parse.
ReadWs(k) ==
  /\ ReadFragments(k)
  /\ conn[cur] = "ws"
  /\ buf' = [buf EXCEPT ![cur] = FilledBuf(k)]
  /\ tpc' = "parse"
  /\ UNCHANGED <<evs, cur, conn, got, owner, backlog, sock, eof, edge, client>>

\* parse_ws_frames: the first frame in ws_buf is complete and is consumed.
ParseFrame(kind) ==
  /\ tpc = "parse" /\ Len(buf[cur]) >= 2 /\ buf[cur][1].kind = kind
  /\ buf' = [buf EXCEPT ![cur] = SubSeq(@, 3, Len(@))]
  /\ UNCHANGED <<evs, cur, conn, owner, backlog, eof, edge, client>>

\* A text frame: on_message_(fd, payload).
ParseText ==
  /\ ParseFrame("text")
  /\ got' = [got EXCEPT ![cur] = buf[cur][1].n]
  /\ UNCHANGED <<tpc, sock, stream>>

\* A Ping is answered by a Pong.
ParsePing == ParseFrame("ping") /\ UNCHANGED <<tpc, got, sock, stream>>

\* A Close frame closes the descriptor and ends the parsing; conns_ keeps
\* the entry until the read that follows fails.
ParseClose ==
  /\ ParseFrame("close")
  /\ sock' = [sock EXCEPT ![cur] = FALSE] /\ stream' = [stream EXCEPT ![cur] = <<>>]
  /\ tpc' = "read"
  /\ UNCHANGED got

\* Mutant: handle_client returns after one read.
AfterParseReturn == "events"

\* handle_client continues its while (true).
AfterParse == "read"

\* No complete frame left: unlock and read on.
ParseDone ==
  /\ tpc = "parse" /\ Len(buf[cur]) < 2
  /\ tpc' = AfterParse
  /\ UNCHANGED <<evs, cur, owner, table, kernel, client>>

\* Mutant: the entry stays in conns_.
KeptEntry == conn[cur]

\* conns_.erase(fd)
ErasedEntry == "none"

\* disconnect: erase the entry, under the lock.
Drop ==
  /\ tpc = "drop"
  /\ conn' = [conn EXCEPT ![cur] = ErasedEntry] /\ buf' = [buf EXCEPT ![cur] = <<>>]
  /\ tpc' = "close"
  /\ UNCHANGED <<evs, cur, got, owner, kernel, client>>

\* disconnect: EPOLL_CTL_DEL and close; after a Close frame both fail.
CloseFd ==
  /\ tpc = "close"
  /\ CloseSockets({cur})
  /\ tpc' = "gone"
  /\ UNCHANGED <<evs, cur, conn, buf, backlog, dials, sends, owner>>

\* Mutant: on_disconnect_ is not called.
GoneSilently == tpc = "gone" /\ tpc' = "events" /\ UNCHANGED <<evs, cur, owner, table, kernel, client>>

\* disconnect: on_disconnect_(fd), outside the lock.
Gone ==
  /\ tpc = "gone"
  /\ online' = online \ {cur} /\ orphans' = orphans \ {cur}
  /\ tpc' = "events"
  /\ UNCHANGED <<evs, cur, running, app, target, early, starts, table, kernel, client>>

-----------------------------------------------------------------------------
(* The clients (external).                                                 *)

\* A client connects to the listening socket.
Dial ==
  /\ tpc # "none" /\ dials < MaxDials
  /\ backlog' = backlog + 1 /\ dials' = dials + 1
  /\ UNCHANGED <<owner, loop, table, sock, stream, eof, edge, peer, sends>>

\* Half a frame reaches the server's socket.
Arrive(f, fr, half) ==
  /\ sock[f] /\ ~eof[f]
  /\ stream' = [stream EXCEPT ![f] = Append(@, [kind |-> fr.kind, n |-> fr.n, half |-> half])]
  /\ edge' = [edge EXCEPT ![f] = TRUE]
  /\ UNCHANGED <<owner, loop, table, backlog, sock, eof, dials>>

\* First half of the client's request, then of a frame once it has its 101.
\* Beyond the bound it may still send Pings, without end, each when the server
\* has read what came before.
ClientBegin(f, kind) ==
  LET p == peer[f]
      fr == [kind |-> kind, n |-> IF kind = "text" THEN p.texts + 1 ELSE 0] IN
  /\ p.frame = NoFrame /\ ~p.closing
  /\ IF sends < MaxFrames THEN sends' = sends + 1
     ELSE kind = "ping" /\ stream[f] = <<>> /\ UNCHANGED sends
  /\ kind \in {"upgrade", "bad"} <=> ~p.asked
  /\ p.asked => conn[f] = "ws"
  /\ Arrive(f, fr, 1)
  /\ peer' = [peer EXCEPT ![f] = [p EXCEPT !.frame = fr, !.asked = TRUE]]

\* Second half.
ClientEnd(f) ==
  LET p == peer[f] IN
  /\ p.frame # NoFrame
  /\ Arrive(f, p.frame, 2)
  /\ UNCHANGED sends
  /\ peer' = [peer EXCEPT ![f] =
                [p EXCEPT !.frame = NoFrame,
                          !.texts = IF p.frame.kind = "text" THEN @ + 1 ELSE @,
                          !.closing = p.frame.kind = "close"]]

\* The client goes away, possibly in the middle of a frame.
ClientHang(f) ==
  /\ sock[f] /\ ~eof[f]
  /\ eof' = [eof EXCEPT ![f] = TRUE] /\ edge' = [edge EXCEPT ![f] = TRUE]
  /\ UNCHANGED <<owner, loop, table, backlog, sock, stream, client>>

-----------------------------------------------------------------------------
Owner == Start \/ Stop \/ Joined \/ (\E f \in Fds : SendCall(f)) \/ SendWrite \/ Broadcast

Loop ==
  \/ Wait \/ AcceptDone \/ EventsDone \/ Exit
  \/ \E f \in Fds : Accept(f) \/ Handle(f)
  \/ ReadAgain \/ ReadEnd
  \/ \E k \in 1..(2 * MaxFrames) : ReadHttpPart(k) \/ ReadHttpEnd(k) \/ ReadWs(k)
  \/ ParseText \/ ParsePing \/ ParseClose \/ ParseDone
  \/ Drop \/ CloseFd \/ Gone

Client ==
  \/ Dial
  \/ \E f \in Fds : ClientEnd(f) \/ ClientHang(f) \/ \E kind \in Kinds : ClientBegin(f, kind)

Next == Owner \/ Loop \/ Client

Spec == Init /\ [][Next]_vars

\* Both threads are scheduled: the loop goes on, stop returns from join.
FairSpec == Spec /\ WF_vars(Loop) /\ WF_vars(Joined)

-----------------------------------------------------------------------------
(* Properties.                                                             *)

\* Outside handle_client, conns_ holds exactly the open sockets: no
\* descriptor leaks and no entry outlives its socket, whether the connection
\* ended by EOF, a Close frame, a refused handshake or stop.
ConnsAreOpenSockets ==
  tpc \in {"none", "poll", "events", "done"} =>
    \A f \in Fds : sock[f] <=> conn[f] # "none"

\* Between two connections, the ids the owner holds (on_connect_ called, no
\* on_disconnect_ since) are those of the upgraded connections and those that
\* run_loop closed at its end, which no on_disconnect_ follows until their
\* descriptor is used again.  Nothing but a stop leaves an id behind.
CallbacksPaired ==
  tpc \in {"poll", "events"} =>
    /\ online = {f \in Fds : conn[f] = "ws"} \cup orphans
    /\ \A f \in orphans : conn[f] # "ws"

\* A frame is written before the 101 only by a send whose id became stale
\* while it waited for the lock, or was left behind by stop: never by
\* broadcast, nor by send to a connection the owner rightly takes for its own.
OnlyStaleSendsAreEarly == early \subseteq {"stale send"}

\* Edge-triggered discipline: when the loop waits, a socket with unread
\* input or an unseen EOF has an event pending, so nothing is stuck.
NothingStuck ==
  tpc = "poll" => \A f \in Fds : (sock[f] /\ (stream[f] # <<>> \/ eof[f])) => edge[f]

\* on_message_ gets the text frames of a connection in the order they were
\* sent, none skipped and none twice, however read cuts the byte stream.
TextsInOrder ==
  [][\A f \in Fds : got'[f] # got[f] => got'[f] \in {0, got[f] + 1}]_vars

\* A connection is dropped on EOF only after every complete text frame its
\* client sent was handed to on_message_.
HangupLosesNothing ==
  [][\A f \in Fds : (tpc = "drop" /\ conn[f] = "ws" /\ conn'[f] = "none" /\ ~peer[f].closing)
       => got[f] = peer[f].texts]_vars

\* The texts of a connection are handed over in order and completely.
TextsDelivered == TextsInOrder /\ HangupLosesNothing

\* stop returns, unless a client sends for ever: the loop leaves whatever it
\* is doing and the join ends.  handle_client reads on until EAGAIN without
\* testing running_, so a client that keeps sending can hold it.
StopReturns == []<><<Client>>_vars \/ (app = "join" ~> app = "idle")

\* A client that has hung up is taken out of conns_, unless stop comes first
\* or another client sends for ever.
HangupNoticed ==
  []<><<Client>>_vars
    \/ \A f \in Fds : (sock[f] /\ eof[f] /\ running) ~> (~sock[f] \/ ~running)
=============================================================================
