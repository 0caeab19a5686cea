----------------------------- MODULE IoContext -----------------------------
(***************************************************************************)
(* net::IoContext of module01 as SfuServer of module09 runs it: the        *)
(* owner's thread calls start and stop, a thread of its own is in run.     *)
(*                                                                         *)
(* running_ is stored and loaded relaxed: a load of the loop returns the   *)
(* newest value or the one it returned before, and the newest one in the   *)
(* end.  Both sockets are level-triggered.  udp counts the datagrams the   *)
(* kernel holds.                                                           *)
(***************************************************************************)
EXTENDS Naturals

CONSTANT MaxPackets   \* bound: datagrams that arrive

ASSUME MaxPacketsAssumption == MaxPackets \in Nat

VARIABLES owner,     \* where the owner's thread is
          io,        \* where the thread in run is, "none" if there is none
          running,   \* running_
          seen,      \* running_ as the loop loaded it last
          eventfd,   \* the counter of event_fd_ is not zero
          events,    \* what epoll_wait returned, not yet handled
          udp,       \* datagrams waiting in the UDP socket
          packets    \* datagrams that have arrived

loopVars == <<owner, io, running, seen, eventfd, events, udp, packets>>

LoopTypeOK ==
  /\ owner \in {"new", "started", "wake", "join", "stopped"}
  /\ io \in {"none", "begin", "test", "wait", "events", "ended"}
  /\ running \in BOOLEAN /\ seen \in BOOLEAN /\ eventfd \in BOOLEAN
  /\ events \in SUBSET {"eventfd", "udp"}
  /\ udp \in 0..MaxPackets /\ packets \in 0..MaxPackets

LoopInit ==
  /\ owner = "new" /\ io = "none"
  /\ running = FALSE /\ seen = FALSE /\ eventfd = FALSE
  /\ events = {} /\ udp = 0 /\ packets = 0

-----------------------------------------------------------------------------
(* The owner: SfuServer::start, SfuServer::stop.                           *)

\* start: the port is taken; nothing is started.
StartFails ==
  /\ owner = "new" /\ owner' = "started"
  /\ UNCHANGED <<io, running, seen, eventfd, events, udp, packets>>

\* start: bind, register the UDP socket, spawn the thread that calls run.
Start ==
  /\ owner = "new" /\ owner' = "started" /\ io' = "begin"
  /\ UNCHANGED <<running, seen, eventfd, events, udp, packets>>

\* stop: IoContext::stop stores false ...
StopStore ==
  /\ owner = "started" /\ owner' = "wake"
  /\ running' = FALSE
  /\ UNCHANGED <<io, seen, eventfd, events, udp, packets>>

\* ... and writes to event_fd_.  stop then joins the thread, if there is one.
StopWrite ==
  /\ owner = "wake" /\ owner' = IF io = "none" THEN "stopped" ELSE "join"
  /\ eventfd' = TRUE
  /\ UNCHANGED <<io, running, seen, events, udp, packets>>

\* Mutant: stop does not wait for the thread.
JoinNotWaiting ==
  /\ owner = "join" /\ owner' = "stopped"
  /\ UNCHANGED <<io, running, seen, eventfd, events, udp, packets>>

\* stop: join returns.
Join ==
  /\ owner = "join" /\ io = "ended" /\ owner' = "stopped"
  /\ UNCHANGED <<io, running, seen, eventfd, events, udp, packets>>

-----------------------------------------------------------------------------
(* The loop: IoContext::run.                                               *)

\* run: running_.store(true)
RunStore ==
  /\ io = "begin" /\ io' = "test"
  /\ running' = TRUE /\ seen' = TRUE
  /\ UNCHANGED <<owner, eventfd, events, udp, packets>>

\* run: while (running_.load()), when the load returns v.
Test(v) ==
  /\ io = "test"
  /\ seen' = v
  /\ io' = IF v THEN "wait" ELSE "ended"
  /\ UNCHANGED <<owner, running, eventfd, events, udp, packets>>

\* epoll_wait reports what is ready.
WaitReady ==
  /\ io = "wait" /\ (eventfd \/ udp > 0)
  /\ events' = {e \in {"eventfd", "udp"} : IF e = "udp" THEN udp > 0 ELSE eventfd}
  /\ io' = "events"
  /\ UNCHANGED <<owner, running, seen, eventfd, udp, packets>>

\* Mutant: epoll_wait waits for ever.
WaitForever == FALSE /\ UNCHANGED loopVars

\* epoll_wait returns after kEpollTimeoutMs with nothing ready, or EINTR.
WaitTimeout ==
  /\ io = "wait" /\ ~eventfd /\ udp = 0
  /\ io' = "test"
  /\ UNCHANGED <<owner, running, seen, eventfd, events, udp, packets>>

\* event_fd_ is ready: drain its counter.
HandleWakeup ==
  /\ io = "events" /\ "eventfd" \in events
  /\ events' = events \ {"eventfd"} /\ eventfd' = FALSE
  /\ UNCHANGED <<owner, io, running, seen, udp, packets>>

\* Mutant: the callback does not receive.
HandlePacketLazily ==
  /\ io = "events" /\ "udp" \in events /\ events' = events \ {"udp"}
  /\ UNCHANGED <<owner, io, running, seen, eventfd, udp, packets>>

\* The UDP callback receives one datagram; the rest is reported again.
HandlePacket ==
  /\ io = "events" /\ "udp" \in events
  /\ events' = events \ {"udp"} /\ udp' = udp - 1
  /\ UNCHANGED <<owner, io, running, seen, eventfd, packets>>

\* The list is done: test running_ again.
EventsDone ==
  /\ io = "events" /\ events = {} /\ io' = "test"
  /\ UNCHANGED <<owner, running, seen, eventfd, events, udp, packets>>

\* A datagram reaches the socket (external).
Arrive ==
  /\ packets < MaxPackets /\ io # "none"
  /\ udp' = udp + 1 /\ packets' = packets + 1
  /\ UNCHANGED <<owner, io, running, seen, eventfd, events>>

Run ==
  \/ RunStore \/ Test(seen) \/ Test(running)
  \/ WaitReady \/ WaitTimeout \/ HandleWakeup \/ HandlePacket \/ EventsDone

LoopNext == StartFails \/ Start \/ StopStore \/ StopWrite \/ Join \/ Run \/ Arrive

\* Both threads are scheduled, and a store becomes visible in the end.
Fairness == WF_loopVars(Run) /\ SF_loopVars(Test(running)) /\ WF_loopVars(StopWrite) /\ WF_loopVars(Join)

LoopSpec == LoopInit /\ [][LoopNext]_loopVars /\ Fairness

\* The owner calls stop only when the new thread has entered its loop.
LateStop == io = "begin" => owner' # "wake"
LateSpec == LoopInit /\ [][LoopNext /\ LateStop]_loopVars /\ Fairness

-----------------------------------------------------------------------------
(* Properties.                                                             *)

\* When stop has returned no callback runs any more: SfuServer may destroy
\* its socket and its IoContext.
QuietAfterStop == owner = "stopped" => io \in {"none", "ended"}

\* The loop is never asleep over a stop: while it waits with a stale
\* running_, the wake-up is still to be written, or readable, or the
\* timeout will end the wait; so stop returns.  "Wake up and stop the loop".
StopReturns == owner = "wake" ~> owner = "stopped"

\* Every datagram is received unless stop is called: one read per event is
\* enough as the socket is level-triggered.
PacketsReceived == udp > 0 ~> (udp = 0 \/ owner \in {"wake", "join", "stopped"})
=============================================================================
