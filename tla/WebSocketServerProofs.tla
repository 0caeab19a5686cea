------------------------ MODULE WebSocketServerProofs ------------------------
(***************************************************************************)
(* Theorems about WebSocketServer, for any number of descriptors, clients, *)
(* frames and restarts.  They need no bound and no fairness.               *)
(***************************************************************************)
EXTENDS WebSocketServer, SequenceTheorems, TLAPS

\* What the proofs need of the types.
Shape ==
  /\ tpc \in {"none", "poll", "events", "read", "parse", "drop", "close", "gone", "done"}
  /\ conn \in [Fds -> {"none", "http", "ws"}]
  /\ sock \in [Fds -> BOOLEAN]
  /\ eof \in [Fds -> BOOLEAN] /\ edge \in [Fds -> BOOLEAN]
  /\ DOMAIN stream = Fds
  /\ online \in SUBSET Fds /\ orphans \in SUBSET Fds

Handling == tpc \in {"read", "parse", "drop", "close", "gone"}

\* Where the loop is with the connection that it handles: the entry of conns_ and
\* the socket go one after the other, and the socket first after a Close.
CurInv ==
  /\ Handling => cur \in Fds
  /\ tpc \in {"read", "drop"} => conn[cur] # "none"
  /\ tpc = "parse" => conn[cur] = "ws" /\ sock[cur]
  /\ tpc \in {"close", "gone"} => conn[cur] = "none"
  /\ tpc = "gone" => ~sock[cur]

\* Every other entry has its socket; without a loop there are neither.
TableInv ==
  /\ \A f \in Fds : (sock[f] <=> conn[f] # "none") \/ (Handling /\ f = cur)
  /\ tpc \in {"none", "done"} => \A f \in Fds : conn[f] = "none"

\* Events that are still to be handled are of sockets that are still open,
\* for a connection is closed only while its own event is handled.
EventsInv ==
  /\ tpc \in {"none", "poll", "done"} => evs = {}
  /\ \A f \in Fds : f \in evs => sock[f] /\ ~(Handling /\ f = cur)

\* The ids the owner holds are those of the upgraded connections and those
\* left behind by run_loop, but for the connection that is being dropped.
ToldInv ==
  \A f \in Fds :
    \/ (f \in online <=> conn[f] = "ws" \/ f \in orphans) /\ ~(f \in orphans /\ conn[f] = "ws")
    \/ tpc \in {"close", "gone"} /\ f = cur

\* Unread input has an event pending, or one that is still to be handled, or
\* is just being read.
PendingInv ==
  \A f \in Fds : (sock[f] /\ (stream[f] # <<>> \/ eof[f])) =>
    edge[f] \/ f \in evs \/ (Handling /\ f = cur)

IndInv ==
  Shape /\ CurInv /\ TableInv /\ EventsInv /\ ToldInv /\ PendingInv
    /\ OnlyStaleSendsAreEarly

-----------------------------------------------------------------------------
LEMMA InitInv == Init => IndInv
BY ModelValues DEF Init, IndInv, Shape, Handling, CurInv, TableInv, EventsInv, ToldInv, PendingInv,
   OnlyStaleSendsAreEarly

\* The owner's thread.
LEMMA OwnerStep ==
  ASSUME IndInv, Owner
  PROVE  IndInv'
<1> USE DEF IndInv, Shape, Handling, CurInv, TableInv, EventsInv, ToldInv, PendingInv,
            OnlyStaleSendsAreEarly, owner, loop, table, kernel, client
<1>1. CASE Start
  BY <1>1 DEF Start
<1>2. CASE Stop
  BY <1>2 DEF Stop
<1>3. CASE Joined
  BY <1>3 DEF Joined
<1>4. ASSUME NEW f \in Fds, SendCall(f)
      PROVE  IndInv'
  BY <1>4 DEF SendCall
<1>5. CASE SendWrite
  <2>1. CASE target \in online \ orphans
    <3>1. conn[target] # "http" \/ tpc \in {"close", "gone"}
      BY <2>1
    <3>2. conn[target] # "http"
      BY <2>1, <3>1
    <3>3. early' = early
      BY <1>5, <3>2 DEF SendWrite, WriteFrames
    <3>4. QED BY <1>5, <3>3 DEF SendWrite, WriteFrames
  <2>2. CASE target \notin online \ orphans
    <3>1. early' \subseteq {"stale send"}
      BY <1>5, <2>2 DEF SendWrite, WriteFrames
    <3>2. QED BY <1>5, <3>1 DEF SendWrite, WriteFrames
  <2>3. QED BY <2>1, <2>2
<1>6. CASE Broadcast
  <2>1. early' = early
    BY <1>6 DEF Broadcast, WriteFrames
  <2>2. QED BY <1>6, <2>1 DEF Broadcast, WriteFrames
<1>7. QED
  BY <1>1, <1>2, <1>3, <1>4, <1>5, <1>6 DEF Owner

\* epoll_wait, accept and the walk over the events.
LEMMA EventStep ==
  ASSUME IndInv,
         Wait \/ AcceptDone \/ EventsDone \/ Exit \/ \E f \in Fds : Accept(f) \/ Handle(f)
  PROVE  IndInv'
<1> USE ModelValues
        DEF IndInv, Shape, Handling, CurInv, TableInv, EventsInv, ToldInv, PendingInv,
            OnlyStaleSendsAreEarly, owner, loop, table, kernel, client
<1>1. CASE Wait
  BY <1>1 DEF Wait
<1>2. CASE AcceptDone
  BY <1>2 DEF AcceptDone
<1>3. CASE EventsDone
  BY <1>3 DEF EventsDone
<1>4. CASE Exit
  BY <1>4 DEF Exit, CloseSockets
<1>5. ASSUME NEW f \in Fds, Accept(f)
      PROVE  IndInv'
  BY <1>5 DEF Accept
<1>6. ASSUME NEW f \in Fds, Handle(f)
      PROVE  IndInv'
  BY <1>6 DEF Handle
<1>7. QED
  BY <1>1, <1>2, <1>3, <1>4, <1>5, <1>6

\* handle_client up to the parsing.
LEMMA ReadStep ==
  ASSUME IndInv,
         ReadAgain \/ ReadEnd
           \/ \E k \in 1..(2 * MaxFrames) : ReadHttpPart(k) \/ ReadHttpEnd(k) \/ ReadWs(k)
  PROVE  IndInv'
<1> USE DEF IndInv, Shape, Handling, CurInv, TableInv, EventsInv, ToldInv, PendingInv,
            OnlyStaleSendsAreEarly, owner, loop, table, kernel, client
<1>1. CASE ReadAgain
  BY <1>1 DEF ReadAgain
<1>2. CASE ReadEnd
  BY <1>2 DEF ReadEnd
<1>3. ASSUME NEW k \in 1..(2 * MaxFrames), ReadHttpPart(k)
      PROVE  IndInv'
  BY <1>3 DEF ReadHttpPart, ReadFragments
<1>4. ASSUME NEW k \in 1..(2 * MaxFrames), ReadHttpEnd(k)
      PROVE  IndInv'
  BY <1>4 DEF ReadHttpEnd, ReadFragments, OnlineAfter
<1>5. ASSUME NEW k \in 1..(2 * MaxFrames), ReadWs(k)
      PROVE  IndInv'
  BY <1>5 DEF ReadWs, ReadFragments
<1>6. QED
  BY <1>1, <1>2, <1>3, <1>4, <1>5

\* parse_ws_frames and the end of a connection.
LEMMA ParseStep ==
  ASSUME IndInv,
         ParseText \/ ParsePing \/ ParseClose \/ ParseDone \/ Drop \/ CloseFd \/ Gone
  PROVE  IndInv'
<1> USE DEF IndInv, Shape, Handling, CurInv, TableInv, EventsInv, ToldInv, PendingInv,
            OnlyStaleSendsAreEarly, owner, loop, table, kernel, client
<1>1. CASE ParseText \/ ParsePing
  <2>1. UNCHANGED <<evs, cur, conn, owner, backlog, eof, edge, client, tpc, sock, stream>>
    BY <1>1 DEF ParseText, ParsePing, ParseFrame
  <2>2. QED BY <2>1
<1>2. CASE ParseClose
  BY <1>2 DEF ParseClose, ParseFrame
<1>3. CASE ParseDone
  BY <1>3 DEF ParseDone, AfterParse
<1>4. CASE Drop
  BY <1>4 DEF Drop, ErasedEntry
<1>5. CASE CloseFd
  BY <1>5 DEF CloseFd, CloseSockets
<1>6. CASE Gone
  BY <1>6 DEF Gone
<1>7. QED
  BY <1>1, <1>2, <1>3, <1>4, <1>5, <1>6

\* The clients.
LEMMA ClientStep ==
  ASSUME IndInv, Client
  PROVE  IndInv'
<1> USE DEF IndInv, Shape, Handling, CurInv, TableInv, EventsInv, ToldInv, PendingInv,
            OnlyStaleSendsAreEarly, owner, loop, table, kernel, client
<1>1. CASE Dial
  BY <1>1 DEF Dial
<1>2. ASSUME NEW f \in Fds, NEW fr, NEW half, Arrive(f, fr, half)
      PROVE  IndInv'
  BY <1>2 DEF Arrive
<1>3. ASSUME NEW f \in Fds, ClientHang(f)
      PROVE  IndInv'
  BY <1>3 DEF ClientHang
<1>4. ASSUME NEW f \in Fds, ClientEnd(f)
      PROVE  IndInv'
  BY <1>2, <1>4 DEF ClientEnd
<1>5. ASSUME NEW f \in Fds, NEW kind \in Kinds, ClientBegin(f, kind)
      PROVE  IndInv'
  <2>1. \E fr : Arrive(f, fr, 1)
    BY <1>5 DEF ClientBegin
  <2>2. QED BY <1>2, <2>1
<1>6. QED
  BY <1>1, <1>3, <1>4, <1>5 DEF Client

LEMMA StepInv ==
  ASSUME IndInv, [Next]_vars
  PROVE  IndInv'
<1>1. CASE UNCHANGED vars
  BY <1>1 DEF vars, owner, loop, table, kernel, client,
              IndInv, Shape, Handling, CurInv, TableInv, EventsInv, ToldInv, PendingInv,
   OnlyStaleSendsAreEarly
<1>2. CASE Loop
  BY <1>2, EventStep, ReadStep, ParseStep DEF Loop
<1>3. QED
  BY <1>1, <1>2, OwnerStep, ClientStep DEF Next

-----------------------------------------------------------------------------
\* The inductive invariant: conns_, the sockets, the event list and what the
\* callbacks told the owner agree in every state of the loop
\* (run_loop, handle_client, disconnect).
THEOREM IndInvHolds == Spec => []IndInv
BY InitInv, StepInv, PTL DEF Spec

\* No descriptor leaks and no entry of conns_ outlives its socket, however a
\* connection ends (EOF, Close, a refused handshake, stop).
THEOREM NoLeak == Spec => []ConnsAreOpenSockets
<1>1. IndInv => ConnsAreOpenSockets
  BY DEF IndInv, TableInv, Handling, ConnsAreOpenSockets
<1>2. QED BY <1>1, IndInvHolds, PTL

\* Whenever the loop is between two connections, the ids the owner holds are
\* those of the upgraded connections and those that run_loop left behind at
\* its end: on_connect_ and on_disconnect_ are paired but for a stop.
THEOREM OwnerIsToldTheTruth == Spec => []CallbacksPaired
<1>1. IndInv => CallbacksPaired
  BY DEF IndInv, Shape, ToldInv, CallbacksPaired
<1>2. QED BY <1>1, IndInvHolds, PTL

\* broadcast never writes a frame before the 101, and send only with an id
\* that its owner gave up while send waited for the lock, or that stop left
\* behind (send looks up the entry, not whether it is the same connection).
THEOREM OnlyAStaleIdIsEarly == Spec => []OnlyStaleSendsAreEarly
<1>1. IndInv => OnlyStaleSendsAreEarly
  BY DEF IndInv
<1>2. QED BY <1>1, IndInvHolds, PTL

\* An edge-triggered socket with unread input has an event pending when the
\* loop waits: no client is forgotten (handle_client reads until EAGAIN).
THEOREM NobodyIsForgotten == Spec => []NothingStuck
<1>1. IndInv => NothingStuck
  BY DEF IndInv, EventsInv, PendingInv, Handling, NothingStuck
<1>2. QED BY <1>1, IndInvHolds, PTL

-----------------------------------------------------------------------------
(* What the texts of a connection go through.  Its unread input is what is *)
(* in its buffer followed by what is in its socket, wherever read cut it.  *)

Frags == [kind : Kinds, n : Nat, half : {1, 2}]

Unread(f) == buf[f] \o stream[f]

\* s is made of whole frames, and perhaps the first half of another.
Whole(s) ==
  /\ s # <<>> => s[1].half = 1
  /\ \A i \in 1..(Len(s) - 1) :
       /\ s[i].half = 1 <=> s[i + 1].half = 2
       /\ s[i].half = 1 => s[i + 1].kind = s[i].kind /\ s[i + 1].n = s[i].n

\* That half is of the frame the client has not finished.
EndsWith(s, fr) ==
  /\ fr # NoFrame <=> s # <<>> /\ s[Len(s)].half = 1
  /\ fr # NoFrame => fr.kind = s[Len(s)].kind /\ fr.n = s[Len(s)].n

\* The texts of s are numbers lo + 1 to hi: c[i] is the last one that is
\* complete in the first i fragments.
Numbers(s, c, lo, hi) ==
  /\ c[0] = lo /\ c[Len(s)] = hi
  /\ \A i \in 1..Len(s) :
       /\ c[i] = IF s[i].kind = "text" /\ s[i].half = 2 THEN c[i - 1] + 1 ELSE c[i - 1]
       /\ s[i].kind = "text" => s[i].n = c[i - 1] + 1

\* s is what client p has sent after text number lo.
Sent(s, lo, p) ==
  /\ Whole(s) /\ EndsWith(s, p.frame)
  /\ \E c \in [0..Len(s) -> Nat] : Numbers(s, c, lo, p.texts)
  /\ p.closing => p.frame = NoFrame
  /\ \A i \in DOMAIN s : s[i].kind = "close" /\ s[i].half = 2 => p.closing

TextTypes ==
  /\ buf \in [Fds -> Seq(Frags)] /\ stream \in [Fds -> Seq(Frags)]
  /\ got \in [Fds -> Nat]
  /\ peer \in [Fds -> [frame : [kind : Kinds, n : Nat] \cup {NoFrame},
                       asked : BOOLEAN, texts : Nat, closing : BOOLEAN]]

\* Before the 101 a client sends one request, and no text.
RequestInv(f) ==
  /\ got[f] = 0 /\ peer[f].texts = 0
  /\ Unread(f) # <<>> => peer[f].asked
  /\ Len(Unread(f)) <= 2
  /\ \A i \in DOMAIN Unread(f) : Unread(f)[i].kind \in {"upgrade", "bad"}

\* After it the buffer keeps half a frame at most, except during the parsing;
\* the socket is closed before its entry is dropped only if the client asked.
UpgradedInv(f) ==
  /\ ~sock[f] => peer[f].closing
  /\ sock[f] => Len(buf[f]) <= 1 \/ (tpc = "parse" /\ f = cur)
  /\ (sock[f] /\ tpc = "drop" /\ f = cur) => stream[f] = <<>> /\ eof[f]

TextOf(f) ==
  /\ (sock[f] /\ conn[f] # "none") => Sent(Unread(f), got[f], peer[f])
  /\ (sock[f] /\ conn[f] = "http") => RequestInv(f)
  /\ conn[f] = "ws" => UpgradedInv(f)

TextInv == TextTypes /\ \A f \in Fds : TextOf(f)

\* A client that has begun nothing has sent nothing after its last text.
LEMMA NothingSent ==
  ASSUME NEW p, p.frame = NoFrame, p.texts \in Nat
  PROVE  Sent(<<>>, p.texts, p)
<1> DEFINE c == [i \in 0..0 |-> p.texts]
<1>1. Numbers(<<>>, c, p.texts, p.texts)
  BY DEF Numbers
<1>2. c \in [0..Len(<<>>) -> Nat]
  OBVIOUS
<1> HIDE DEF c
<1>3. Whole(<<>>) /\ EndsWith(<<>>, p.frame)
  BY DEF Whole, EndsWith
<1> QED BY <1>1, <1>2, <1>3 DEF Sent

\* Half a frame completes no text.
LEMMA HalfIsNoText ==
  ASSUME NEW s \in Seq(Frags), NEW lo, NEW p, Sent(s, lo, p), Len(s) <= 1
  PROVE  lo = p.texts
<1>1. PICK c \in [0..Len(s) -> Nat] : Numbers(s, c, lo, p.texts)
  BY DEF Sent
<1>2. CASE s = <<>>
  BY <1>1, <1>2 DEF Numbers
<1>3. CASE s # <<>>
  <2>1. Len(s) = 1
    BY <1>3
  <2>2. s[1].half = 1
    BY <1>3 DEF Sent, Whole
  <2>3. 1 \in 1..Len(s)
    BY <2>1
  <2>4. c[1] = c[0]
    BY <1>1, <2>2, <2>3 DEF Numbers
  <2> QED BY <1>1, <2>1, <2>4 DEF Numbers
<1> QED BY <1>2, <1>3

\* The first frame is taken off: a text has the next number, and a Close is
\* the client's.
LEMMA FrameTaken ==
  ASSUME NEW s \in Seq(Frags), NEW lo \in Nat, NEW p, Sent(s, lo, p), Len(s) >= 2
  PROVE  /\ s[1].kind = "text" => s[1].n = lo + 1
         /\ s[1].kind = "close" => p.closing
         /\ Sent(SubSeq(s, 3, Len(s)), IF s[1].kind = "text" THEN lo + 1 ELSE lo, p)
<1> DEFINE t == SubSeq(s, 3, Len(s))
           l == IF s[1].kind = "text" THEN lo + 1 ELSE lo
<1>1. PICK c \in [0..Len(s) -> Nat] : Numbers(s, c, lo, p.texts)
  BY DEF Sent
<1>2. s[1].half = 1 /\ s[2].half = 2 /\ s[2].kind = s[1].kind /\ 1 \in DOMAIN s /\ 2 \in DOMAIN s
  BY DEF Sent, Whole
<1>3. t \in Seq(Frags) /\ Len(t) = Len(s) - 2 /\ \A i \in 1..Len(t) : t[i] = s[i + 2]
  OBVIOUS
<1>4. c[0] = lo /\ c[1] = c[0]
  BY <1>1, <1>2 DEF Numbers
<1>5. c[2] = l
  BY <1>1, <1>2, <1>4 DEF Numbers
<1> HIDE DEF t, l
<1>6. s[1].kind = "text" => s[1].n = lo + 1
  BY <1>1, <1>2, <1>4 DEF Numbers
<1>7. s[1].kind = "close" => p.closing
  BY <1>2 DEF Sent
<1>8. \E d \in [0..Len(t) -> Nat] : Numbers(t, d, l, p.texts)
  <2> DEFINE d == [i \in 0..Len(t) |-> c[i + 2]]
  <2>1. d \in [0..Len(t) -> Nat]
    BY <1>3
  <2>2. d[0] = l /\ d[Len(t)] = p.texts
    BY <1>1, <1>3, <1>5 DEF Numbers
  <2>3. ASSUME NEW i \in 1..Len(t)
        PROVE  /\ d[i] = IF t[i].kind = "text" /\ t[i].half = 2 THEN d[i - 1] + 1 ELSE d[i - 1]
               /\ t[i].kind = "text" => t[i].n = d[i - 1] + 1
    <3>1. i + 2 \in 1..Len(s) /\ t[i] = s[i + 2] /\ (i + 2) - 1 = i + 1 /\ (i - 1) + 2 = i + 1
      BY <1>3
    <3>2. d[i] = c[i + 2] /\ d[i - 1] = c[i + 1]
      BY <3>1
    <3> HIDE DEF d
    <3>3. /\ c[i + 2] = IF s[i + 2].kind = "text" /\ s[i + 2].half = 2 THEN c[i + 1] + 1 ELSE c[i + 1]
          /\ s[i + 2].kind = "text" => s[i + 2].n = c[i + 1] + 1
      BY <1>1, <3>1 DEF Numbers
    <3> QED BY <3>1, <3>2, <3>3
  <2> HIDE DEF d
  <2>4. Numbers(t, d, l, p.texts)
    BY <2>2, <2>3 DEF Numbers
  <2> QED BY <2>1, <2>4
<1>9. Whole(t)
  <2>1. t # <<>> => t[1].half = 1
    <3> SUFFICES ASSUME t # <<>> PROVE t[1].half = 1
      OBVIOUS
    <3>1. Len(t) >= 1
      BY <1>3
    <3>4. 1 \in 1..Len(t) /\ Len(s) >= 3
      BY <1>3, <3>1
    <3>5. t[1] = s[1 + 2]
      BY <1>3, <3>4
    <3>2. t[1] = s[3] /\ 2 \in 1..(Len(s) - 1) /\ 3 \in DOMAIN s
      BY <3>4, <3>5
    <3>3. ~(s[2].half = 1) /\ (s[2].half = 1 <=> s[3].half = 2) /\ s[3] \in Frags
      BY <1>2, <3>2 DEF Sent, Whole
    <3> QED BY <3>2, <3>3 DEF Frags
  <2>2. ASSUME NEW i \in 1..(Len(t) - 1)
        PROVE  /\ t[i].half = 1 <=> t[i + 1].half = 2
               /\ t[i].half = 1 => t[i + 1].kind = t[i].kind /\ t[i + 1].n = t[i].n
    <3>1. i + 2 \in 1..(Len(s) - 1) /\ i \in 1..Len(t) /\ i + 1 \in 1..Len(t) /\ (i + 1) + 2 = (i + 2) + 1
      BY <1>3
    <3>4. t[i] = s[i + 2]
      BY <1>3, <3>1
    <3>5. t[i + 1] = s[(i + 1) + 2]
      BY <1>3, <3>1
    <3>2. t[i] = s[i + 2] /\ t[i + 1] = s[(i + 2) + 1]
      BY <3>1, <3>4, <3>5
    <3> QED BY <3>1, <3>2, SMTT(30) DEF Sent, Whole
  <2> QED BY <2>1, <2>2 DEF Whole
<1>10. EndsWith(t, p.frame)
  <2>1. CASE t = <<>>
    <3>1. Len(s) = 2
      BY <1>3, <2>1
    <3> QED BY <1>2, <2>1, <3>1 DEF Sent, EndsWith
  <2>2. CASE t # <<>>
    <3>1. t[Len(t)] = s[Len(s)] /\ s # <<>>
      BY <1>3, <2>2
    <3> QED BY <2>2, <3>1 DEF Sent, EndsWith
  <2> QED BY <2>1, <2>2
<1>11. \A i \in DOMAIN t : t[i].kind = "close" /\ t[i].half = 2 => p.closing
  <2> SUFFICES ASSUME NEW i \in DOMAIN t, t[i].kind = "close" /\ t[i].half = 2 PROVE p.closing
    OBVIOUS
  <2>1. i + 2 \in DOMAIN s /\ t[i] = s[i + 2]
    BY <1>3
  <2> QED BY <2>1 DEF Sent
<1>12. Sent(t, l, p)
  BY <1>8, <1>9, <1>10, <1>11 DEF Sent
<1> QED BY <1>6, <1>7, <1>12 DEF t, l

\* A half is appended: the first of a new frame, which if it is a text has
\* the next number, or the second of the frame that was begun.
LEMMA HalfSent ==
  ASSUME NEW s \in Seq(Frags), NEW lo \in Nat, NEW p, NEW q, NEW x \in Frags,
         Sent(s, lo, p), p.texts \in Nat, p.frame = NoFrame <=> x.half = 1,
         p.frame = NoFrame => /\ ~p.closing /\ (x.kind = "text" => x.n = p.texts + 1)
                              /\ q.frame # NoFrame /\ q.frame.kind = x.kind /\ q.frame.n = x.n
                              /\ q.texts = p.texts /\ ~q.closing,
         p.frame # NoFrame => /\ x.kind = p.frame.kind /\ x.n = p.frame.n
                              /\ q.frame = NoFrame /\ (q.closing <=> x.kind = "close")
                              /\ q.texts = IF x.kind = "text" THEN p.texts + 1 ELSE p.texts
  PROVE  Sent(Append(s, x), lo, q)
<1> DEFINE t == Append(s, x)
           l == Len(s) + 1
<1>1. PICK c \in [0..Len(s) -> Nat] : Numbers(s, c, lo, p.texts)
  BY DEF Sent
<1>2. t \in Seq(Frags) /\ Len(t) = l /\ t[l] = x /\ \A i \in 1..Len(s) : t[i] = s[i]
  OBVIOUS
<1>3. l \in Nat \ {0} /\ l - 1 = Len(s) /\ Len(s) \in Nat /\ \A i \in 1..l : i \in 1..Len(s) \/ i = l
  OBVIOUS
<1> HIDE DEF t, l
<1>4. s # <<>> => Len(s) \in 1..Len(s)
  BY <1>3
<1>5. x.half \in {1, 2}
  BY DEF Frags
<1>6. x.half = 2 <=> s # <<>> /\ s[Len(s)].half = 1
  BY <1>5 DEF Sent, EndsWith
<1>7. x.half = 2 => x.kind = s[Len(s)].kind /\ x.n = s[Len(s)].n
  BY <1>5 DEF Sent, EndsWith
<1>8. Whole(t)
  <2>1. t[1].half = 1
    <3>1. CASE s = <<>>
      <4>1. l = 1
        BY <1>3, <3>1
      <4> QED BY <1>2, <1>5, <1>6, <3>1, <4>1
    <3>2. CASE s # <<>>
      <4>1. 1 \in 1..Len(s)
        BY <3>2, <1>3
      <4>2. t[1] = s[1]
        BY <4>1, <1>2
      <4> QED BY <3>2, <4>2 DEF Sent, Whole
    <3> QED BY <3>1, <3>2
  <2>2. ASSUME NEW i \in 1..(Len(t) - 1)
        PROVE  /\ t[i].half = 1 <=> t[i + 1].half = 2
               /\ t[i].half = 1 => t[i + 1].kind = t[i].kind /\ t[i + 1].n = t[i].n
    <3>1. i \in 1..Len(s)
      BY <1>2, <1>3
    <3>2. t[i] = s[i]
      BY <1>2, <3>1
    <3>3. CASE i = Len(s)
      <4>1. t[i + 1] = x /\ s # <<>>
        BY <1>2, <1>3, <3>1, <3>3
      <4> QED BY <3>2, <3>3, <4>1, <1>6, <1>7
    <3>4. CASE i # Len(s)
      <4>1. i \in 1..(Len(s) - 1) /\ i + 1 \in 1..Len(s)
        BY <1>3, <3>1, <3>4
      <4>2. t[i + 1] = s[i + 1]
        BY <1>2, <4>1
      <4> QED BY <3>2, <4>1, <4>2 DEF Sent, Whole
    <3> QED BY <3>3, <3>4
  <2> QED BY <2>1, <2>2 DEF Whole
<1>9. EndsWith(t, q.frame)
  <2>1. t # <<>>
    BY <1>2, <1>3
  <2> QED BY <1>2, <1>5, <2>1 DEF EndsWith
<1>10. \E d \in [0..Len(t) -> Nat] : Numbers(t, d, lo, q.texts)
  <2> DEFINE d == [i \in 0..Len(t) |-> IF i = l THEN q.texts ELSE c[i]]
  <2>1. d \in [0..Len(t) -> Nat]
    <3>1. q.texts \in Nat
      BY <1>5
    <3>2. \A i \in 0..l : i # l => i \in 0..Len(s)
      BY <1>3
    <3> QED BY <1>2, <3>1, <3>2
  <2>2. d[l] = q.texts /\ \A i \in 0..Len(s) : d[i] = c[i]
    BY <1>2, <1>3
  <2> HIDE DEF d
  <2>3. d[0] = lo /\ d[Len(t)] = q.texts
    BY <1>1, <1>2, <1>3, <2>2 DEF Numbers
  <2>4. ASSUME NEW i \in 1..Len(t)
        PROVE  /\ d[i] = IF t[i].kind = "text" /\ t[i].half = 2 THEN d[i - 1] + 1 ELSE d[i - 1]
               /\ t[i].kind = "text" => t[i].n = d[i - 1] + 1
    <3>1. CASE i \in 1..Len(s)
      <4>1. i \in 0..Len(s) /\ i - 1 \in 0..Len(s)
        BY <1>3, <3>1
      <4>2. d[i] = c[i] /\ d[i - 1] = c[i - 1] /\ t[i] = s[i]
        BY <1>2, <2>2, <3>1, <4>1
      <4> QED BY <1>1, <3>1, <4>2 DEF Numbers
    <3>2. CASE i = l
      <4>1. d[i] = q.texts /\ t[i] = x /\ i - 1 = Len(s) /\ Len(s) \in 0..Len(s)
        BY <1>2, <1>3, <2>2, <3>2
      <4>2. d[i - 1] = p.texts
        BY <1>1, <2>2, <4>1 DEF Numbers
      <4>3. CASE x.half = 1
        BY <4>1, <4>2, <4>3
      <4>4. CASE x.half = 2
        <5>1. s # <<>> /\ s[Len(s)].half = 1 /\ x.kind = s[Len(s)].kind /\ x.n = s[Len(s)].n
          BY <1>6, <1>7, <4>4
        <5>2. /\ c[Len(s)] = c[Len(s) - 1]
              /\ s[Len(s)].kind = "text" => s[Len(s)].n = c[Len(s) - 1] + 1
          BY <1>1, <1>4, <5>1 DEF Numbers
        <5>3. x.kind = "text" => x.n = p.texts + 1
          BY <1>1, <5>1, <5>2 DEF Numbers
        <5> QED BY <4>1, <4>2, <4>4, <5>3
      <4> QED BY <1>5, <4>3, <4>4
    <3> QED BY <1>2, <1>3, <3>1, <3>2
  <2>5. Numbers(t, d, lo, q.texts)
    BY <2>3, <2>4 DEF Numbers
  <2> QED BY <2>1, <2>5
<1>11. q.closing => q.frame = NoFrame
  BY <1>5
<1>12. ASSUME NEW i \in DOMAIN t, t[i].kind = "close" /\ t[i].half = 2 PROVE q.closing
  <2>1. CASE i \in 1..Len(s)
    <3>1. t[i] = s[i]
      BY <1>2, <2>1
    <3>2. p.closing
      BY <1>12, <2>1, <3>1 DEF Sent
    <3>3. p.frame = NoFrame
      BY <3>2 DEF Sent
    <3> QED BY <3>2, <3>3
  <2>2. CASE i = l
    <3>1. x.kind = "close" /\ x.half = 2
      BY <1>2, <1>12, <2>2
    <3>2. q.closing <=> x.kind = "close"
      BY <3>1
    <3> QED BY <3>1, <3>2, Zenon
  <2>3. i \in 1..l
    BY <1>2
  <2> QED BY <1>3, <2>1, <2>2, <2>3
<1>13. Sent(t, lo, q)
  BY <1>8, <1>9, <1>10, <1>11, <1>12 DEF Sent
<1> QED BY <1>13 DEF t

\* Where read cuts the unread input does not matter to it.
LEMMA ReadMoves ==
  ASSUME NEW b \in Seq(Frags), NEW s \in Seq(Frags), NEW k \in 1..Len(s)
  PROVE  /\ b \o SubSeq(s, 1, k) \in Seq(Frags) /\ SubSeq(s, k + 1, Len(s)) \in Seq(Frags)
         /\ (b \o SubSeq(s, 1, k)) \o SubSeq(s, k + 1, Len(s)) = b \o s
<1> DEFINE u == SubSeq(s, 1, k)
           v == SubSeq(s, k + 1, Len(s))
<1>1. u \in Seq(Frags) /\ v \in Seq(Frags)
  OBVIOUS
<1>2. 1 \in 1..(Len(s) + 1) /\ k \in (1 - 1)..Len(s) /\ Len(s) \in k..Len(s)
  OBVIOUS
<1>3. u \o v = SubSeq(s, 1, Len(s))
  BY <1>2, ConcatAdjacentSubSeq
<1>4. u \o v = s
  BY <1>3, SubSeqFull
<1> HIDE DEF u, v
<1>5. (b \o u) \o v = b \o (u \o v)
  BY <1>1, ConcatAssociative, SMTT(30)
<1>6. b \o u \in Seq(Frags)
  BY <1>1, ConcatProperties
<1> QED BY <1>1, <1>4, <1>5, <1>6 DEF u, v

\* A frame taken off the buffer is taken off the unread input.
LEMMA TakenOff ==
  ASSUME NEW b \in Seq(Frags), NEW s \in Seq(Frags), Len(b) >= 2
  PROVE  /\ SubSeq(b, 3, Len(b)) \in Seq(Frags)
         /\ SubSeq(b, 3, Len(b)) \o s = SubSeq(b \o s, 3, Len(b \o s))
<1> DEFINE u == SubSeq(b, 3, Len(b))
           w == b \o s
           v == SubSeq(w, 3, Len(w))
<1>1. u \in Seq(Frags) /\ Len(u) = Len(b) - 2
  <2>1. \A i \in 3..Len(b) : b[i] \in Frags
    OBVIOUS
  <2>2. 3 \in Int /\ Len(b) \in Int
    OBVIOUS
  <2>3. u \in Seq(Frags) /\ Len(u) = IF 3 <= Len(b) THEN Len(b) - 3 + 1 ELSE 0
    BY <2>1, <2>2, SubSeqProperties
  <2> DEFINE n == Len(b)
  <2>4. n \in Int /\ n >= 2
    BY <2>2
  <2>5. u \in Seq(Frags) /\ Len(u) = IF 3 <= n THEN n - 3 + 1 ELSE 0
    BY <2>3
  <2> HIDE DEF n, u
  <2>6. Len(u) = n - 2
    BY <2>4, <2>5
  <2> QED BY <2>5, <2>6 DEF n
<1>2. ASSUME NEW i \in 1..Len(u) PROVE u[i] = b[i + 2]
  BY <1>1
<1>3. /\ w \in Seq(Frags) /\ Len(w) = Len(b) + Len(s)
      /\ \A i \in 1..(Len(b) + Len(s)) : w[i] = IF i <= Len(b) THEN b[i] ELSE s[i - Len(b)]
  BY ConcatProperties
<1> HIDE DEF w
<1>4. v \in Seq(Frags) /\ Len(v) = Len(w) - 2
  BY <1>3
<1>5. ASSUME NEW i \in 1..Len(v) PROVE v[i] = w[i + 2]
  BY <1>3, <1>4
<1> HIDE DEF u, v
<1>6. /\ u \o s \in Seq(Frags) /\ Len(u \o s) = Len(u) + Len(s)
      /\ \A i \in 1..(Len(u) + Len(s)) : (u \o s)[i] = IF i <= Len(u) THEN u[i] ELSE s[i - Len(u)]
  BY <1>1, ConcatProperties
<1> DEFINE us == u \o s
<1> HIDE DEF us
<1>7. ASSUME NEW i \in 1..Len(us) PROVE us[i] = v[i]
  <2>1. i \in 1..Len(v) /\ i + 2 \in 1..(Len(b) + Len(s)) /\ i \in 1..(Len(u) + Len(s))
    BY <1>1, <1>3, <1>4, <1>6 DEF us
  <2>2. v[i] = w[i + 2]
    BY <1>5, <2>1
  <2>3. w[i + 2] = IF i + 2 <= Len(b) THEN b[i + 2] ELSE s[(i + 2) - Len(b)]
    BY <1>3, <2>1
  <2>4. us[i] = IF i <= Len(u) THEN u[i] ELSE s[i - Len(u)]
    BY <1>6, <2>1 DEF us
  <2>5. CASE i <= Len(u)
    <3>1. i \in 1..Len(u) /\ i + 2 <= Len(b)
      BY <1>1, <2>5
    <3>2. u[i] = b[i + 2]
      BY <1>2, <3>1
    <3> QED BY <2>2, <2>3, <2>4, <2>5, <3>1, <3>2
  <2>6. CASE ~(i <= Len(u))
    <3>1. ~(i + 2 <= Len(b)) /\ (i + 2) - Len(b) = i - Len(u)
      BY <1>1, <2>6
    <3> QED BY <2>2, <2>3, <2>4, <2>6, <3>1
  <2> QED BY <2>5, <2>6
<1>8. us = v
  <2>1. us \in Seq(Frags) /\ v \in Seq(Frags) /\ Len(us) = Len(v)
    BY <1>1, <1>3, <1>4, <1>6 DEF us
  <2> QED BY <1>7, <2>1, SeqEqual
<1> QED BY <1>1, <1>8 DEF us, u, v, w

\* A connection that a step leaves alone.
LEMMA LeftAlone ==
  ASSUME NEW f \in Fds, TextOf(f),
         buf'[f] = buf[f], stream'[f] = stream[f], got'[f] = got[f], peer'[f] = peer[f],
         conn'[f] = conn[f], sock'[f] = sock[f], eof[f] => eof'[f],
         (tpc = "parse" /\ f = cur) => (tpc' = "parse" /\ f = cur') \/ Len(buf[f]) <= 1,
         (tpc' = "drop" /\ f = cur' /\ sock[f] /\ conn[f] = "ws")
           => (tpc = "drop" /\ f = cur) \/ (stream[f] = <<>> /\ eof[f])
  PROVE  TextOf(f)'
<1>1. Unread(f)' = Unread(f)
  BY DEF Unread
<1>2. (sock[f] /\ conn[f] = "http") => RequestInv(f)'
  BY <1>1 DEF TextOf, RequestInv
<1>3. conn[f] = "ws" => UpgradedInv(f)'
  BY DEF TextOf, UpgradedInv
<1>4. (sock[f] /\ conn[f] # "none") => Sent(Unread(f)', got'[f], peer'[f])
  BY <1>1 DEF TextOf
<1>5. (sock[f] /\ conn[f] # "none") => Sent(Unread(f), got[f], peer[f])'
  BY <1>4 DEF Sent, Whole, EndsWith, Numbers
<1> QED BY <1>2, <1>3, <1>5 DEF TextOf

LEMMA InitTextInv == Init => TextInv
<1> SUFFICES ASSUME Init PROVE TextInv
  OBVIOUS
<1>1. TextTypes
  BY DEF Init, TextTypes, NewPeer
<1>2. \A f \in Fds : TextOf(f)
  BY DEF Init, TextOf
<1> QED BY <1>1, <1>2 DEF TextInv

\* Closing sockets leaves the others alone.
LEMMA ClosingKeepsTypes ==
  ASSUME IndInv, TextInv, NEW fs, CloseSockets(fs)
  PROVE  /\ stream' \in [Fds -> Seq(Frags)] /\ got' \in [Fds -> Nat]
         /\ peer' \in [Fds -> [frame : [kind : Kinds, n : Nat] \cup {NoFrame},
                              asked : BOOLEAN, texts : Nat, closing : BOOLEAN]]
         /\ \A f \in Fds : f \notin fs =>
              /\ stream'[f] = stream[f] /\ got'[f] = got[f] /\ peer'[f] = peer[f]
              /\ sock'[f] = sock[f] /\ eof'[f] = eof[f]
         /\ \A f \in Fds : got'[f] \in {0, got[f]}
<1>1. <<>> \in Seq(Frags) /\ 0 \in Nat
  OBVIOUS
<1>2. NewPeer \in [frame : [kind : Kinds, n : Nat] \cup {NoFrame},
                  asked : BOOLEAN, texts : Nat, closing : BOOLEAN]
  BY DEF NewPeer
<1>3. TextTypes /\ sock \in [Fds -> BOOLEAN] /\ eof \in [Fds -> BOOLEAN]
  BY DEF TextInv, IndInv, Shape
<1> QED BY <1>1, <1>2, <1>3 DEF TextTypes, CloseSockets

\* The owner, and the loop outside handle_client.
LEMMA OutsideKeepsTexts ==
  ASSUME IndInv, TextInv,
         Owner \/ Wait \/ AcceptDone \/ EventsDone \/ (\E f \in Fds : Handle(f)) \/ Dial
           \/ ReadAgain \/ ReadEnd \/ ParseDone \/ CloseFd \/ Gone
  PROVE  TextInv'
<1> USE DEF owner, loop, table, kernel, client
<1>1. CASE ~CloseFd
  <2>7. ReadEnd => cur' = cur /\ (~sock[cur] \/ (stream[cur] = <<>> /\ eof[cur]))
    BY DEF ReadEnd
  <2>8. Owner => cur' = cur /\ (tpc' # "drop" \/ tpc' = tpc)
    BY DEF Owner, Start, Stop, Joined, SendCall, SendWrite, Broadcast, WriteFrames
  <2>1. UNCHANGED <<buf, stream, got, peer, conn, sock, eof>>
    BY <1>1 DEF Owner, Start, Stop, Joined, SendCall, SendWrite, Broadcast, WriteFrames, Wait, AcceptDone,
                EventsDone, Handle, Dial, ReadAgain, ReadEnd, ParseDone, Gone
  <2>2. TextTypes'
    BY <2>1 DEF TextInv, TextTypes
  <2>3. (tpc = "parse" /\ tpc' # "parse") => Len(buf[cur]) < 2
    BY <1>1 DEF Owner, Start, Stop, Joined, SendCall, SendWrite, Broadcast, WriteFrames, Wait, AcceptDone,
                EventsDone, Handle, Dial, ReadAgain, ReadEnd, ParseDone, Gone
  <2>4. tpc = "parse" => cur' = cur
    BY <1>1 DEF Owner, Start, Stop, Joined, SendCall, SendWrite, Broadcast, WriteFrames, Wait, AcceptDone,
                EventsDone, Handle, Dial, ReadAgain, ReadEnd, ParseDone, Gone
  <2>5. tpc' = "drop" => cur' = cur /\ (tpc = "drop" \/ ~sock[cur] \/ (stream[cur] = <<>> /\ eof[cur]))
    <3>1. CASE Owner
      BY <2>8, <3>1
    <3>2. CASE ReadEnd
      BY <2>7, <3>2
    <3> QED BY <1>1, <3>1, <3>2 DEF Wait, AcceptDone, EventsDone, Handle, Dial, ReadAgain,
                                    ParseDone, Gone, AfterParse
  <2>6. ASSUME NEW f \in Fds PROVE TextOf(f)'
    <3>1. f = cur /\ Len(buf[cur]) < 2 => Len(buf[f]) <= 1
      BY DEF TextInv, TextTypes
    <3> QED BY <2>1, <2>3, <2>4, <2>5, <3>1, LeftAlone DEF TextInv
  <2> QED BY <2>2, <2>6 DEF TextInv
<1>2. CASE CloseFd
  <2>1. cur \in Fds /\ conn[cur] = "none"
    BY <1>2 DEF CloseFd, IndInv, CurInv, Handling
  <2>2. CloseSockets({cur}) /\ UNCHANGED <<buf, conn, cur>> /\ tpc = "close" /\ tpc' = "gone"
    BY <1>2 DEF CloseFd
  <2>3. TextTypes'
    BY <2>2, ClosingKeepsTypes DEF TextInv, TextTypes
  <2>4. ASSUME NEW f \in Fds PROVE TextOf(f)'
    <3>1. CASE f = cur
      BY <2>1, <2>2, <3>1 DEF TextOf
    <3>2. CASE f # cur
      <4>1. /\ stream'[f] = stream[f] /\ got'[f] = got[f] /\ peer'[f] = peer[f]
            /\ sock'[f] = sock[f] /\ eof'[f] = eof[f]
        BY <2>2, <3>2, ClosingKeepsTypes
      <4> QED BY <2>2, <4>1, LeftAlone DEF TextInv
    <3> QED BY <3>1, <3>2
  <2> QED BY <2>3, <2>4 DEF TextInv
<1> QED BY <1>1, <1>2

\* A client is accepted, or hangs up, or the loop ends, or an entry is erased.
LEMMA TableKeepsTexts ==
  ASSUME IndInv, TextInv,
         (\E f \in Fds : Accept(f) \/ ClientHang(f)) \/ Exit \/ Drop
  PROVE  TextInv'
<1> USE DEF owner, loop, table, kernel, client
<1>1. <<>> \in Seq(Frags) /\ <<>> \o <<>> = <<>>
  OBVIOUS
<1>2. ASSUME NEW f \in Fds, Accept(f) PROVE TextInv'
  <2>1. /\ conn' = [conn EXCEPT ![f] = "http"] /\ buf' = [buf EXCEPT ![f] = <<>>]
        /\ stream' = [stream EXCEPT ![f] = <<>>] /\ got' = [got EXCEPT ![f] = 0]
        /\ peer' = [peer EXCEPT ![f] = NewPeer] /\ sock' = [sock EXCEPT ![f] = TRUE]
        /\ eof' = [eof EXCEPT ![f] = FALSE] /\ UNCHANGED <<tpc, cur>> /\ tpc = "events"
    BY <1>2 DEF Accept
  <2>2. TextTypes'
    <3>1. NewPeer \in [frame : [kind : Kinds, n : Nat] \cup {NoFrame},
                       asked : BOOLEAN, texts : Nat, closing : BOOLEAN]
      BY DEF NewPeer
    <3> QED BY <1>1, <2>1, <3>1 DEF TextInv, TextTypes
  <2>3. TextOf(f)'
    <3>1. /\ buf'[f] = <<>> /\ stream'[f] = <<>> /\ got'[f] = 0 /\ peer'[f] = NewPeer
          /\ conn'[f] = "http"
      BY <2>1 DEF TextInv, TextTypes, IndInv, Shape
    <3>2. Unread(f)' = <<>>
      BY <1>1, <3>1 DEF Unread
    <3>3. NewPeer.frame = NoFrame /\ NewPeer.texts = 0 /\ 0 \in Nat
      BY DEF NewPeer
    <3>4. Sent(<<>>, 0, NewPeer)
      BY <3>3, NothingSent
    <3>5. Sent(Unread(f), got[f], peer[f])'
      BY <3>1, <3>2, <3>4 DEF Sent, Whole, EndsWith, Numbers
    <3>6. RequestInv(f)'
      BY <3>1, <3>2, <3>3 DEF RequestInv
    <3> QED BY <3>1, <3>5, <3>6 DEF TextOf
  <2>4. ASSUME NEW g \in Fds, g # f PROVE TextOf(g)'
    <3>1. /\ buf'[g] = buf[g] /\ stream'[g] = stream[g] /\ got'[g] = got[g] /\ peer'[g] = peer[g]
          /\ conn'[g] = conn[g] /\ sock'[g] = sock[g] /\ eof'[g] = eof[g]
      BY <2>1, <2>4 DEF TextInv, TextTypes, IndInv, Shape
    <3> QED BY <2>1, <3>1, LeftAlone DEF TextInv
  <2> QED BY <2>2, <2>3, <2>4 DEF TextInv
<1>3. ASSUME NEW f \in Fds, ClientHang(f) PROVE TextInv'
  <2>1. UNCHANGED <<tpc, cur, conn, buf, got, sock, stream, peer>>
        /\ eof' = [eof EXCEPT ![f] = TRUE]
    BY <1>3 DEF ClientHang
  <2>2. TextTypes'
    BY <2>1 DEF TextInv, TextTypes
  <2>3. ASSUME NEW g \in Fds PROVE TextOf(g)'
    <3>1. eof[g] => eof'[g]
      BY <2>1 DEF IndInv, Shape
    <3> QED BY <2>1, <3>1, LeftAlone DEF TextInv
  <2> QED BY <2>2, <2>3 DEF TextInv
<1>4. CASE Exit
  <2>1. /\ conn' = [f \in Fds |-> "none"] /\ buf' = [f \in Fds |-> <<>>]
        /\ CloseSockets({f \in Fds : conn[f] # "none"})
    BY <1>4 DEF Exit
  <2>2. TextTypes'
    BY <1>1, <2>1, ClosingKeepsTypes DEF TextTypes
  <2>3. \A f \in Fds : TextOf(f)'
    BY <2>1 DEF TextOf
  <2> QED BY <2>2, <2>3 DEF TextInv
<1>5. CASE Drop
  <2>1. /\ conn' = [conn EXCEPT ![cur] = "none"] /\ buf' = [buf EXCEPT ![cur] = <<>>]
        /\ UNCHANGED <<got, peer, stream, sock, eof, cur>> /\ tpc' = "close" /\ tpc = "drop"
    BY <1>5 DEF Drop, ErasedEntry
  <2>2. TextTypes'
    BY <1>1, <2>1 DEF TextInv, TextTypes
  <2>3. ASSUME NEW f \in Fds PROVE TextOf(f)'
    <3>1. CASE f = cur
      BY <2>1, <3>1 DEF TextOf, IndInv, Shape
    <3>2. CASE f # cur
      <4>1. buf'[f] = buf[f] /\ conn'[f] = conn[f]
        BY <2>1, <3>2 DEF TextInv, TextTypes, IndInv, Shape
      <4> QED BY <2>1, <4>1, LeftAlone DEF TextInv
    <3> QED BY <3>1, <3>2
  <2> QED BY <2>2, <2>3 DEF TextInv
<1> QED BY <1>2, <1>3, <1>4, <1>5

\* read moves fragments from the socket to the buffer.
LEMMA ReadAppends ==
  ASSUME IndInv, TextInv, NEW k, ReadFragments(k),
         buf' = [buf EXCEPT ![cur] = FilledBuf(k)]
  PROVE  /\ cur \in Fds /\ sock[cur] /\ conn[cur] # "none"
         /\ FilledBuf(k) \in Seq(Frags) /\ stream' \in [Fds -> Seq(Frags)]
         /\ buf' \in [Fds -> Seq(Frags)]
         /\ \A f \in Fds : Unread(f)' = Unread(f)
         /\ \A f \in Fds : f # cur => buf'[f] = buf[f] /\ stream'[f] = stream[f]
<1>1. cur \in Fds /\ sock[cur] /\ conn[cur] # "none" /\ k \in 1..Len(stream[cur])
      /\ stream' = [stream EXCEPT ![cur] = SubSeq(@, k + 1, Len(@))]
  BY DEF ReadFragments, IndInv, CurInv, Handling
<1>2. buf \in [Fds -> Seq(Frags)] /\ stream \in [Fds -> Seq(Frags)]
  BY DEF TextInv, TextTypes
<1> DEFINE b == buf[cur]
           s == stream[cur]
<1>3. b \in Seq(Frags) /\ s \in Seq(Frags)
  BY <1>1, <1>2
<1>4. /\ b \o SubSeq(s, 1, k) \in Seq(Frags) /\ SubSeq(s, k + 1, Len(s)) \in Seq(Frags)
      /\ (b \o SubSeq(s, 1, k)) \o SubSeq(s, k + 1, Len(s)) = b \o s
  <2> HIDE DEF b, s
  <2> QED BY <1>1, <1>3, ReadMoves DEF s
<1> DEFINE b2 == b \o SubSeq(s, 1, k)
           s2 == SubSeq(s, k + 1, Len(s))
<1>5. FilledBuf(k) = b2 /\ stream' = [stream EXCEPT ![cur] = s2]
  BY <1>1 DEF FilledBuf
<1>6. b2 \in Seq(Frags) /\ s2 \in Seq(Frags) /\ b2 \o s2 = Unread(cur)
  BY <1>4 DEF Unread
<1> HIDE DEF b2, s2
<1>7. /\ stream' \in [Fds -> Seq(Frags)] /\ buf' \in [Fds -> Seq(Frags)]
      /\ buf'[cur] = b2 /\ stream'[cur] = s2
  BY <1>1, <1>2, <1>5, <1>6
<1>8. \A f \in Fds : f # cur => buf'[f] = buf[f] /\ stream'[f] = stream[f]
  BY <1>2, <1>5
<1>9. ASSUME NEW f \in Fds PROVE Unread(f)' = Unread(f)
  <2>1. CASE f = cur
    BY <1>6, <1>7, <2>1 DEF Unread
  <2>2. CASE f # cur
    BY <1>8, <2>2 DEF Unread
  <2> QED BY <2>1, <2>2
<1> QED BY <1>1, <1>5, <1>6, <1>7, <1>8, <1>9

\* handle_client reads into its buffer.
LEMMA ReadKeepsTexts ==
  ASSUME IndInv, TextInv, NEW k, ReadHttpPart(k) \/ ReadWs(k)
  PROVE  TextInv'
<1> USE DEF owner, loop, table, kernel, client
<1>1. /\ ReadFragments(k) /\ buf' = [buf EXCEPT ![cur] = FilledBuf(k)]
      /\ UNCHANGED <<cur, conn, got, sock, eof, peer>> /\ tpc = "read"
      /\ tpc' \in {"read", "parse"} /\ (conn[cur] = "ws" => tpc' = "parse")
  BY DEF ReadHttpPart, ReadWs, ReadFragments
<1>2. /\ cur \in Fds /\ sock[cur] /\ conn[cur] # "none"
      /\ stream' \in [Fds -> Seq(Frags)] /\ buf' \in [Fds -> Seq(Frags)]
      /\ \A f \in Fds : Unread(f)' = Unread(f)
      /\ \A f \in Fds : f # cur => buf'[f] = buf[f] /\ stream'[f] = stream[f]
  BY <1>1, ReadAppends
<1>3. TextTypes'
  BY <1>1, <1>2 DEF TextInv, TextTypes
<1>4. ASSUME NEW f \in Fds, f = cur PROVE TextOf(f)'
  <2>1. TextOf(f) /\ Unread(f)' = Unread(f)
    BY <1>2 DEF TextInv
  <2>2. Sent(Unread(f)', got'[f], peer'[f])
    BY <1>1, <1>2, <1>4, <2>1 DEF TextOf
  <2>3. Sent(Unread(f), got[f], peer[f])'
    BY <2>2 DEF Sent, Whole, EndsWith, Numbers
  <2>4. conn[f] = "http" => RequestInv(f)'
    BY <1>1, <1>2, <1>4, <2>1 DEF TextOf, RequestInv
  <2>5. conn[f] = "ws" => UpgradedInv(f)'
    BY <1>1, <1>2, <1>4 DEF UpgradedInv
  <2> QED BY <1>1, <2>3, <2>4, <2>5 DEF TextOf
<1>5. ASSUME NEW f \in Fds, f # cur PROVE TextOf(f)'
  BY <1>1, <1>2, <1>5, LeftAlone DEF TextInv
<1> QED BY <1>3, <1>4, <1>5 DEF TextInv

\* The request is complete, and nothing follows it: its buffer can be
\* cleared, and the texts start with what comes next.
LEMMA RequestKeepsTexts ==
  ASSUME IndInv, TextInv, NEW k, ReadHttpEnd(k)
  PROVE  TextInv'
<1> USE DEF owner, loop, table, kernel, client
<1> DEFINE r == FilledBuf(k)
           s2 == SubSeq(stream[cur], k + 1, Len(stream[cur]))
           ok == r[1].kind = "upgrade"
<1>1. /\ ReadFragments(k) /\ conn[cur] = "http" /\ \E i \in DOMAIN r : r[i].half = 2
      /\ conn' = [conn EXCEPT ![cur] = IF ok THEN "ws" ELSE "http"]
      /\ tpc' = IF ok THEN "read" ELSE "drop"
      /\ buf' = [buf EXCEPT ![cur] = <<>>]
      /\ UNCHANGED <<cur, got, sock, eof, peer>> /\ tpc = "read"
  BY DEF ReadHttpEnd, ReadFragments
<1>2. /\ cur \in Fds /\ sock[cur] /\ k \in 1..Len(stream[cur])
      /\ stream' = [stream EXCEPT ![cur] = s2]
      /\ buf[cur] \in Seq(Frags) /\ stream[cur] \in Seq(Frags)
  BY <1>1 DEF ReadFragments, IndInv, CurInv, Handling, TextInv, TextTypes
<1>3. r \in Seq(Frags) /\ s2 \in Seq(Frags) /\ r \o s2 = Unread(cur)
  BY <1>2, ReadMoves DEF FilledBuf, Unread
<1>4. /\ Sent(Unread(cur), got[cur], peer[cur]) /\ RequestInv(cur)
  BY <1>1, <1>2 DEF TextInv, TextOf
<1> DEFINE u == Unread(cur)
<1> HIDE DEF r, s2, ok, u
<1>5. u \in Seq(Frags)
  <2>1. r \o s2 \in Seq(Frags)
    BY <1>3, ConcatProperties
  <2> QED BY <1>3, <2>1, Zenon DEF u
<1>6. s2 = <<>> /\ Len(u) = 2 /\ u[2].half = 2
  <2>1. Len(u) = Len(r) + Len(s2) /\ \A i \in 1..Len(r) : u[i] = r[i]
    BY <1>3 DEF u
  <2>2. PICK i \in 1..Len(r) : r[i].half = 2
    BY <1>1, <1>3
  <2>3. u # <<>> /\ u[1].half = 1 /\ Len(u) <= 2
    <3>1. u # <<>>
      BY <1>3, <1>5, <2>1, <2>2
    <3> QED BY <1>4, <3>1 DEF Sent, Whole, RequestInv, u
  <2>4. u[i].half = 2
    BY <2>1, <2>2
  <2>5. i # 1
    BY <2>3, <2>4
  <2>6. i = 2 /\ Len(r) = 2 /\ Len(s2) = 0
    <3> DEFINE m == Len(r)
               n == Len(s2)
    <3>1. m \in Nat /\ n \in Nat /\ m + n <= 2 /\ i \in 1..m /\ i # 1
      BY <1>3, <2>1, <2>2, <2>3, <2>5
    <3> HIDE DEF m, n
    <3>2. i = 2 /\ m = 2 /\ n = 0
      BY <3>1
    <3> QED BY <3>2 DEF m, n
  <2> QED BY <1>3, <2>1, <2>4, <2>6
<1>7. peer[cur].frame = NoFrame
  <2>1. u[Len(u)].half = 2
    BY <1>6
  <2>2. EndsWith(u, peer[cur].frame)
    BY <1>4 DEF Sent, u
  <2> QED BY <2>1, <2>2 DEF EndsWith
<1>8. /\ <<>> \in Seq(Frags) /\ <<>> \o <<>> = <<>>
  OBVIOUS
<1>9. buf'[cur] = <<>> /\ stream'[cur] = <<>>
  BY <1>1, <1>2, <1>6 DEF TextInv, TextTypes
<1>11. TextTypes'
  BY <1>1, <1>2, <1>3, <1>8 DEF TextInv, TextTypes
<1>12. ASSUME NEW f \in Fds, f = cur PROVE TextOf(f)'
  <2>1. Unread(f)' = <<>>
    BY <1>8, <1>9, <1>12 DEF Unread
  <2>2. Sent(<<>>, got[f], peer[f])
    <3>1. got[f] = peer[f].texts /\ peer[f].texts \in Nat
      BY <1>4, <1>12 DEF RequestInv, TextInv, TextTypes
    <3> QED BY <1>7, <1>12, <3>1, NothingSent
  <2>3. Sent(Unread(f), got[f], peer[f])'
    BY <1>1, <2>1, <2>2 DEF Sent, Whole, EndsWith, Numbers
  <2>4. RequestInv(f)'
    BY <1>1, <1>4, <1>12, <2>1 DEF RequestInv
  <2>5. conn'[f] = "ws" => UpgradedInv(f)'
    <3>1. conn'[f] = "ws" => tpc' = "read"
      BY <1>1, <1>12 DEF IndInv, Shape
    <3> QED BY <1>1, <1>2, <1>9, <1>12, <3>1 DEF UpgradedInv
  <2> QED BY <2>3, <2>4, <2>5 DEF TextOf
<1>13. ASSUME NEW f \in Fds, f # cur PROVE TextOf(f)'
  <2>1. conn'[f] = conn[f] /\ buf'[f] = buf[f] /\ stream'[f] = stream[f]
    BY <1>1, <1>2, <1>13 DEF IndInv, Shape, TextInv, TextTypes
  <2> QED BY <1>1, <1>13, <2>1, LeftAlone DEF TextInv
<1> QED BY <1>11, <1>12, <1>13 DEF TextInv

\* parse_ws_frames consumes a frame.
LEMMA ParseKeepsTexts ==
  ASSUME IndInv, TextInv, ParseText \/ ParsePing \/ ParseClose
  PROVE  /\ TextInv'
         /\ \A f \in Fds : got'[f] # got[f] => got'[f] = got[f] + 1
<1> USE DEF owner, loop, table, kernel, client
<1> DEFINE b == buf[cur]
           b2 == SubSeq(b, 3, Len(b))
           u == Unread(cur)
<1>1. /\ tpc = "parse" /\ Len(b) >= 2 /\ b[1].kind \in {"text", "ping", "close"}
      /\ buf' = [buf EXCEPT ![cur] = b2] /\ UNCHANGED <<cur, conn, eof, peer>>
      /\ got' = IF b[1].kind = "text" THEN [got EXCEPT ![cur] = b[1].n] ELSE got
      /\ b[1].kind # "close" => UNCHANGED <<tpc, sock, stream>>
      /\ b[1].kind = "close" => /\ sock' = [sock EXCEPT ![cur] = FALSE]
                                /\ stream' = [stream EXCEPT ![cur] = <<>>] /\ tpc' = "read"
  BY DEF ParseText, ParsePing, ParseClose, ParseFrame
<1>2. cur \in Fds /\ conn[cur] = "ws" /\ sock[cur]
  BY <1>1 DEF IndInv, CurInv, Handling
<1>3. b \in Seq(Frags) /\ stream[cur] \in Seq(Frags) /\ got[cur] \in Nat /\ <<>> \in Seq(Frags)
  BY <1>2 DEF TextInv, TextTypes
<1>4. Sent(u, got[cur], peer[cur])
  BY <1>2 DEF TextInv, TextOf
<1>5. u \in Seq(Frags) /\ Len(u) >= 2 /\ u[1] = b[1]
  <2>1. u = b \o stream[cur]
    BY DEF Unread
  <2> HIDE DEF u, b
  <2>2. /\ u \in Seq(Frags) /\ Len(u) = Len(b) + Len(stream[cur])
        /\ \A i \in 1..(Len(b) + Len(stream[cur])) : u[i] = IF i <= Len(b) THEN b[i] ELSE stream[cur][i - Len(b)]
    BY <1>3, <2>1, ConcatProperties
  <2>3. Len(b) \in Nat /\ Len(stream[cur]) \in Nat
    BY <1>3
  <2> QED BY <1>1, <2>2, <2>3
<1>6. b2 \in Seq(Frags) /\ b2 \o stream[cur] = SubSeq(u, 3, Len(u))
  <2>1. b2 \in Seq(Frags) /\ b2 \o stream[cur] = SubSeq(b \o stream[cur], 3, Len(b \o stream[cur]))
    <3> HIDE DEF b
    <3> QED BY <1>1, <1>3, TakenOff
  <2> QED BY <2>1 DEF Unread
<1> DEFINE l == IF b[1].kind = "text" THEN got[cur] + 1 ELSE got[cur]
<1>7. /\ b[1].kind = "text" => b[1].n = got[cur] + 1
      /\ b[1].kind = "close" => peer[cur].closing
      /\ Sent(b2 \o stream[cur], l, peer[cur])
  <2> HIDE DEF u, b, b2
  <2> QED BY <1>3, <1>4, <1>5, <1>6, FrameTaken
<1> HIDE DEF b, b2, u
<1>8. /\ buf' \in [Fds -> Seq(Frags)] /\ buf'[cur] = b2
      /\ \A f \in Fds : f # cur => buf'[f] = buf[f]
  BY <1>1, <1>2, <1>6 DEF TextInv, TextTypes
<1>9. /\ got' \in [Fds -> Nat] /\ got'[cur] = l
      /\ \A f \in Fds : f # cur => got'[f] = got[f]
  BY <1>1, <1>2, <1>3, <1>7 DEF TextInv, TextTypes
<1>10. /\ stream' \in [Fds -> Seq(Frags)]
       /\ \A f \in Fds : f # cur => stream'[f] = stream[f] /\ sock'[f] = sock[f]
       /\ b[1].kind = "close" => sock'[cur] = FALSE
  <2>1. stream \in [Fds -> Seq(Frags)] /\ sock \in [Fds -> BOOLEAN]
    BY DEF TextInv, TextTypes, IndInv, Shape
  <2>2. CASE b[1].kind = "close"
    BY <1>1, <1>2, <1>3, <2>1, <2>2
  <2>3. CASE b[1].kind # "close"
    BY <1>1, <2>1, <2>3
  <2> QED BY <2>2, <2>3
<1>11. TextTypes'
  BY <1>1, <1>8, <1>9, <1>10 DEF TextInv, TextTypes
<1>12. ASSUME NEW f \in Fds, f = cur PROVE TextOf(f)'
  <2>1. CASE b[1].kind = "close"
    BY <1>1, <1>2, <1>7, <1>10, <1>12, <2>1 DEF TextOf, UpgradedInv
  <2>2. CASE b[1].kind # "close"
    <3>1. Unread(f)' = b2 \o stream[cur]
      BY <1>1, <1>8, <1>12, <2>2 DEF Unread
    <3>2. Sent(Unread(f)', got'[f], peer'[f])
      BY <1>1, <1>7, <1>9, <1>12, <3>1
    <3>3. Sent(Unread(f), got[f], peer[f])'
      BY <3>2 DEF Sent, Whole, EndsWith, Numbers
    <3>4. UpgradedInv(f)'
      BY <1>1, <1>2, <1>12, <2>2 DEF UpgradedInv
    <3> QED BY <1>1, <1>2, <1>12, <3>3, <3>4 DEF TextOf
  <2> QED BY <2>1, <2>2
<1>13. ASSUME NEW f \in Fds, f # cur PROVE TextOf(f)'
  BY <1>1, <1>8, <1>9, <1>10, <1>13, LeftAlone DEF TextInv
<1>14. \A f \in Fds : got'[f] # got[f] => got'[f] = got[f] + 1
  BY <1>9
<1> QED BY <1>11, <1>12, <1>13, <1>14 DEF TextInv

PeerTypes == [frame : [kind : Kinds, n : Nat] \cup {NoFrame},
              asked : BOOLEAN, texts : Nat, closing : BOOLEAN]

\* The client of f sends the half x, the first of a frame or the second.
SendsHalf(f, x) ==
  /\ stream' = [stream EXCEPT ![f] = Append(@, x)]
  /\ peer' = [peer EXCEPT ![f] = peer'[f]] /\ peer'[f] \in PeerTypes
  /\ peer[f].frame = NoFrame <=> x.half = 1
  /\ peer[f].frame = NoFrame =>
       /\ ~peer[f].closing /\ (x.kind = "text" => x.n = peer[f].texts + 1)
       /\ peer[f].asked => conn[f] = "ws"
       /\ ~peer[f].asked => x.kind \in {"upgrade", "bad"}
       /\ peer'[f].frame # NoFrame /\ peer'[f].frame.kind = x.kind /\ peer'[f].frame.n = x.n
       /\ peer'[f].texts = peer[f].texts /\ ~peer'[f].closing /\ peer'[f].asked
  /\ peer[f].frame # NoFrame =>
       /\ x.kind = peer[f].frame.kind /\ x.n = peer[f].frame.n
       /\ peer'[f].frame = NoFrame /\ (peer'[f].closing <=> x.kind = "close")
       /\ peer'[f].texts = IF x.kind = "text" THEN peer[f].texts + 1 ELSE peer[f].texts
       /\ peer'[f].asked = peer[f].asked

LEMMA EndSends ==
  ASSUME TextInv, NEW f \in Fds, ClientEnd(f)
  PROVE  \E x \in Frags : SendsHalf(f, x)
<1> DEFINE p == peer[f]
           x == [kind |-> p.frame.kind, n |-> p.frame.n, half |-> 2]
           hi == IF p.frame.kind = "text" THEN p.texts + 1 ELSE p.texts
           last == p.frame.kind = "close"
           q == [p EXCEPT !.frame = NoFrame, !.texts = hi, !.closing = last]
<1>1. p.frame # NoFrame /\ stream' = [stream EXCEPT ![f] = Append(@, x)]
      /\ peer' = [peer EXCEPT ![f] = q]
  BY DEF ClientEnd, Arrive
<1>2. p \in PeerTypes /\ p.frame \in [kind : Kinds, n : Nat] /\ p.texts \in Nat
  <2>1. p \in PeerTypes
    BY DEF TextInv, TextTypes, PeerTypes
  <2> HIDE DEF p
  <2> QED BY <1>1, <2>1 DEF PeerTypes
<1>3. x \in Frags /\ x.half = 2 /\ x.kind = p.frame.kind /\ x.n = p.frame.n
  <2> HIDE DEF p
  <2> QED BY <1>2 DEF Frags
<1>4. hi \in Nat /\ last \in BOOLEAN
  BY <1>2
<1>5. /\ q \in PeerTypes /\ q.frame = NoFrame /\ q.texts = hi /\ q.closing = last
      /\ q.asked = p.asked
  <2> HIDE DEF p, hi, last
  <2> QED BY <1>2, <1>4 DEF PeerTypes
<1>6. q.closing <=> x.kind = "close"
  <2>1. last <=> x.kind = "close"
    BY <1>3
  <2> HIDE DEF q, last, x
  <2> QED BY <1>5, <2>1, Zenon
<1>7. peer'[f] = q
  <2> HIDE DEF q
  <2> QED BY <1>1 DEF TextInv, TextTypes
<1>8. q.texts = IF x.kind = "text" THEN p.texts + 1 ELSE p.texts
  BY <1>3, <1>5
<1>9. peer' = [peer EXCEPT ![f] = peer'[f]] /\ peer[f] = p
  BY <1>1, <1>7
<1> HIDE DEF p, q, x
<1>10. SendsHalf(f, x)
  BY <1>1, <1>3, <1>5, <1>6, <1>7, <1>8, <1>9 DEF SendsHalf
<1> QED BY <1>3, <1>10

LEMMA BeginSends ==
  ASSUME TextInv, NEW f \in Fds, NEW kind \in Kinds, ClientBegin(f, kind)
  PROVE  \E x \in Frags : SendsHalf(f, x)
<1> DEFINE p == peer[f]
           m == IF kind = "text" THEN p.texts + 1 ELSE 0
           fr == [kind |-> kind, n |-> m]
           x == [kind |-> fr.kind, n |-> fr.n, half |-> 1]
           q == [p EXCEPT !.frame = fr, !.asked = TRUE]
<1>1. /\ p.frame = NoFrame /\ ~p.closing /\ (kind \in {"upgrade", "bad"} <=> ~p.asked)
      /\ p.asked => conn[f] = "ws"
      /\ stream' = [stream EXCEPT ![f] = Append(@, x)] /\ peer' = [peer EXCEPT ![f] = q]
  BY DEF ClientBegin, Arrive
<1>2. p \in PeerTypes /\ p.texts \in Nat
  BY DEF TextInv, TextTypes, PeerTypes
<1>3. m \in Nat /\ (kind = "text" => m = p.texts + 1)
  BY <1>2
<1> HIDE DEF p, m
<1>4. fr \in [kind : Kinds, n : Nat] /\ fr.kind = kind /\ fr.n = m /\ fr # NoFrame
  BY <1>3, ModelValues
<1> HIDE DEF fr
<1>5. x \in Frags /\ x.half = 1 /\ x.kind = kind /\ x.n = m
  BY <1>3, <1>4 DEF Frags
<1>6. /\ q \in PeerTypes /\ q.frame = fr /\ q.asked = TRUE /\ q.texts = p.texts
      /\ q.closing = p.closing
  BY <1>2, <1>4 DEF PeerTypes
<1>7. peer'[f] = q
  <2> HIDE DEF q
  <2> QED BY <1>1 DEF TextInv, TextTypes
<1>8. peer' = [peer EXCEPT ![f] = peer'[f]] /\ peer[f] = p
  BY <1>1, <1>7 DEF p
<1>9. ~q.closing
  BY <1>1, <1>6
<1> HIDE DEF q, x
<1>10. SendsHalf(f, x)
  BY <1>1, <1>3, <1>4, <1>5, <1>6, <1>7, <1>8, <1>9 DEF SendsHalf
<1> QED BY <1>5, <1>10

\* The clients send in halves.
LEMMA ClientKeepsTexts ==
  ASSUME IndInv, TextInv, NEW f \in Fds,
         ClientEnd(f) \/ \E kind \in Kinds : ClientBegin(f, kind)
  PROVE  TextInv'
<1> USE DEF owner, loop, table, kernel, client
<1> DEFINE p == peer[f]
           q == peer'[f]
           s == stream[f]
           u == Unread(f)
<1>1. UNCHANGED <<tpc, cur, conn, buf, got, sock, eof>> /\ sock[f] /\ ~eof[f]
  BY DEF ClientEnd, ClientBegin, Arrive
<1>2. PICK x \in Frags : SendsHalf(f, x)
  BY EndSends, BeginSends
<1>3. /\ p \in PeerTypes /\ s \in Seq(Frags) /\ buf[f] \in Seq(Frags) /\ got[f] \in Nat
      /\ p.texts \in Nat
  BY DEF TextInv, TextTypes, PeerTypes
<1>4. /\ stream' \in [Fds -> Seq(Frags)] /\ stream'[f] = Append(s, x)
      /\ \A g \in Fds : g # f => stream'[g] = stream[g]
  BY <1>2, <1>3 DEF SendsHalf, TextInv, TextTypes
<1>5. peer' \in [Fds -> PeerTypes] /\ \A g \in Fds : g # f => peer'[g] = peer[g]
  BY <1>2 DEF SendsHalf, TextInv, TextTypes, PeerTypes
<1>6. TextTypes'
  BY <1>1, <1>4, <1>5 DEF TextInv, TextTypes, PeerTypes
<1>7. u \in Seq(Frags) /\ Unread(f)' = Append(u, x)
  <2> DEFINE b == buf[f]
  <2>1. b \in Seq(Frags)
    BY <1>3
  <2> HIDE DEF b, s
  <2>2. b \o s \in Seq(Frags) /\ Append(s, x) = s \o <<x>> /\ <<x>> \in Seq(Frags)
        /\ Append(b \o s, x) = (b \o s) \o <<x>>
    BY <1>3, <2>1, AppendIsConcat
  <2>3. b \o (s \o <<x>>) = (b \o s) \o <<x>>
    BY <1>3, <2>1, <2>2, ConcatAssociative
  <2>4. Unread(f)' = b \o Append(s, x) /\ u = b \o s
    BY <1>1, <1>4 DEF Unread, b, s
  <2> QED BY <2>2, <2>3, <2>4
<1>8. TextOf(f)
  BY DEF TextInv
<1> HIDE DEF p, q, s, u
<1>9. (conn[f] # "none") => Sent(Append(u, x), got[f], q)
  <2>1. SUFFICES ASSUME conn[f] # "none" PROVE Sent(Append(u, x), got[f], q)
    OBVIOUS
  <2>2. Sent(u, got[f], p)
    BY <1>1, <1>8, <2>1 DEF TextOf, u, p
  <2>3. p.frame = NoFrame <=> x.half = 1
    BY <1>2 DEF SendsHalf, p
  <2>4. p.frame = NoFrame => /\ ~p.closing /\ (x.kind = "text" => x.n = p.texts + 1)
                             /\ q.frame # NoFrame /\ q.frame.kind = x.kind /\ q.frame.n = x.n
                             /\ q.texts = p.texts /\ ~q.closing
    BY <1>2 DEF SendsHalf, p, q
  <2>5. p.frame # NoFrame => /\ x.kind = p.frame.kind /\ x.n = p.frame.n
                             /\ q.frame = NoFrame /\ (q.closing <=> x.kind = "close")
                             /\ q.texts = IF x.kind = "text" THEN p.texts + 1 ELSE p.texts
    BY <1>2 DEF SendsHalf, p, q
  <2> QED BY <1>3, <1>7, <2>2, <2>3, <2>4, <2>5, HalfSent
<1>10. conn[f] = "http" => RequestInv(f)'
  <2> SUFFICES ASSUME conn[f] = "http" PROVE RequestInv(f)'
    OBVIOUS
  <2>1. /\ RequestInv(f) /\ Sent(u, got[f], p)
    BY <1>1, <1>8 DEF TextOf, u, p
  <2>2. got[f] = 0 /\ p.texts = 0 /\ (u # <<>> => p.asked) /\ Len(u) <= 2
        /\ \A i \in DOMAIN u : u[i].kind \in {"upgrade", "bad"}
    BY <2>1 DEF RequestInv, u, p
  <2>3. x.kind \in {"upgrade", "bad"} /\ Len(u) <= 1 /\ q.asked
    <3>1. CASE p.frame = NoFrame
      <4>1. ~p.asked /\ x.kind \in {"upgrade", "bad"} /\ q.asked
        BY <1>2, <3>1 DEF SendsHalf, p, q
      <4>2. u = <<>>
        BY <2>2, <4>1
      <4> QED BY <4>1, <4>2
    <3>2. CASE p.frame # NoFrame
      <4>1. u # <<>> /\ u[Len(u)].half = 1 /\ p.frame.kind = u[Len(u)].kind
        BY <2>1, <3>2 DEF Sent, EndsWith
      <4>2. Len(u) \in DOMAIN u
        BY <1>7, <4>1
      <4>3. x.kind = p.frame.kind /\ q.asked = p.asked
        BY <1>2, <3>2 DEF SendsHalf, p, q
      <4>4. Len(u) # 2
        <5> SUFFICES ASSUME Len(u) = 2 PROVE FALSE
          OBVIOUS
        <5>1. u[1].half = 1 /\ (u[1].half = 1 <=> u[1 + 1].half = 2)
          BY <2>1, <4>1 DEF Sent, Whole
        <5> QED BY <4>1, <5>1
      <4>5. Len(u) \in Nat
        BY <1>7
      <4>6. Len(u) <= 1
        <5> DEFINE n == Len(u)
        <5>1. n \in Nat /\ n <= 2 /\ n # 2
          BY <2>2, <4>4, <4>5
        <5> HIDE DEF n
        <5>2. n <= 1
          BY <5>1
        <5> QED BY <5>2 DEF n
      <4> QED BY <2>2, <4>1, <4>2, <4>3, <4>6
    <3> QED BY <3>1, <3>2
  <2>4. q.texts = 0
    BY <1>2, <2>2, <2>3 DEF SendsHalf, p, q
  <2>5. Len(Append(u, x)) <= 2 /\ \A i \in DOMAIN Append(u, x) : Append(u, x)[i].kind \in {"upgrade", "bad"}
    <3>1. Append(u, x) \in Seq(Frags) /\ Len(Append(u, x)) = Len(u) + 1
          /\ Append(u, x)[Len(u) + 1] = x /\ \A i \in 1..Len(u) : Append(u, x)[i] = u[i]
      BY <1>7
    <3> DEFINE a == Append(u, x)
    <3> HIDE DEF a
    <3>2. ASSUME NEW i \in DOMAIN a PROVE a[i].kind \in {"upgrade", "bad"}
      <4>1. i \in 1..Len(u) \/ i = Len(u) + 1
        BY <1>7, <3>1 DEF a
      <4> QED BY <1>7, <2>2, <2>3, <3>1, <4>1 DEF a
    <3> QED BY <1>7, <2>3, <3>1, <3>2 DEF a
  <2> QED BY <1>1, <1>7, <2>2, <2>3, <2>4, <2>5 DEF RequestInv, q
<1>11. conn[f] = "ws" => UpgradedInv(f)'
  BY <1>1, <1>8 DEF TextOf, UpgradedInv
<1>12. TextOf(f)'
  <2>1. conn[f] # "none" => Sent(Unread(f), got[f], peer[f])'
    <3>1. conn[f] # "none" => Sent(Unread(f)', got'[f], peer'[f])
      BY <1>1, <1>7, <1>9 DEF q
    <3> QED BY <3>1 DEF Sent, Whole, EndsWith, Numbers
  <2> QED BY <1>1, <1>10, <1>11, <2>1 DEF TextOf
<1>13. ASSUME NEW g \in Fds, g # f PROVE TextOf(g)'
  BY <1>1, <1>4, <1>5, <1>13, LeftAlone DEF TextInv
<1> QED BY <1>6, <1>12, <1>13 DEF TextInv

\* TextInv is inductive, together with IndInv.
LEMMA StepKeepsTexts ==
  ASSUME IndInv, TextInv, [Next]_vars
  PROVE  TextInv'
<1>1. CASE UNCHANGED vars
  <2>1. UNCHANGED <<tpc, cur, conn, buf, got, sock, eof, stream, peer>>
    BY <1>1 DEF vars, owner, loop, table, kernel, client
  <2>2. TextTypes'
    BY <2>1 DEF TextInv, TextTypes
  <2>3. \A f \in Fds : TextOf(f)'
    BY <2>1, LeftAlone DEF TextInv
  <2> QED BY <2>2, <2>3 DEF TextInv
<1>2. CASE Owner
  BY <1>2, OutsideKeepsTexts
<1>3. CASE Loop
  BY <1>3, OutsideKeepsTexts, TableKeepsTexts, ReadKeepsTexts, RequestKeepsTexts,
     ParseKeepsTexts DEF Loop
<1>4. CASE Client
  BY <1>4, OutsideKeepsTexts, TableKeepsTexts, ClientKeepsTexts DEF Client
<1> QED BY <1>1, <1>2, <1>3, <1>4 DEF Next

\* A number that on_message_ was called with changes to the next one, or
\* begins again with a new connection.
LEMMA TextsStepByStep ==
  ASSUME IndInv, TextInv, Next, NEW f \in Fds, got'[f] # got[f]
  PROVE  got'[f] \in {0, got[f] + 1}
<1> USE DEF owner, loop, table, kernel, client
<1>1. CASE \E g \in Fds : Accept(g)
  <2>1. PICK g \in Fds : got' = [got EXCEPT ![g] = 0]
    BY <1>1 DEF Accept
  <2> QED BY <2>1 DEF TextInv, TextTypes
<1>2. CASE ParseText \/ ParsePing \/ ParseClose
  BY <1>2, ParseKeepsTexts
<1>3. CASE Owner \/ Client
  BY <1>3 DEF Owner, Start, Stop, Joined, SendCall, SendWrite, Broadcast, WriteFrames, Client, Dial,
              ClientBegin, ClientEnd, Arrive, ClientHang
<1>4. CASE Wait \/ AcceptDone \/ EventsDone \/ ReadAgain \/ ReadEnd \/ ParseDone
             \/ Drop \/ Gone \/ \E g \in Fds : Handle(g)
  BY <1>4 DEF Wait, AcceptDone, EventsDone, ReadAgain, ReadEnd, ParseDone, Drop, Gone, Handle
<1>6. CASE Exit \/ CloseFd
  <2>1. PICK fs : CloseSockets(fs)
    BY <1>6 DEF Exit, CloseFd
  <2> QED BY <2>1, ClosingKeepsTypes
<1>5. CASE \E k \in 1..(2 * MaxFrames) : ReadHttpPart(k) \/ ReadHttpEnd(k) \/ ReadWs(k)
  BY <1>5 DEF ReadHttpPart, ReadHttpEnd, ReadWs
<1> QED BY <1>1, <1>2, <1>3, <1>4, <1>5, <1>6 DEF Next, Loop

\* Texts arrive in the order they were sent, none skipped and none twice, and
\* a connection that ends without a Close frame has delivered all of them,
\* however read cuts the byte stream (handle_client, parse_ws_frames).
THEOREM TextsArrive == Spec => TextsDelivered
<1> DEFINE Ordered == \A f \in Fds : got'[f] # got[f] => got'[f] \in {0, got[f] + 1}
           Complete == \A f \in Fds :
             (tpc = "drop" /\ conn[f] = "ws" /\ conn'[f] = "none" /\ ~peer[f].closing)
               => got[f] = peer[f].texts
<1>1. TextInv /\ IndInv /\ [Next]_vars => TextInv'
  BY StepKeepsTexts
<1>2. TextInv /\ IndInv /\ [Next]_vars => [Ordered]_vars
  BY TextsStepByStep
<1>3. TextInv /\ IndInv /\ [Next]_vars => [Complete]_vars
  <2> SUFFICES ASSUME TextInv, IndInv, Next, NEW f \in Fds, tpc = "drop", conn[f] = "ws",
                      conn'[f] = "none", ~peer[f].closing
               PROVE  got[f] = peer[f].texts
    OBVIOUS
  <2>1. f = cur
    BY DEF Next, Owner, Start, Stop, Joined, SendCall, SendWrite, Broadcast, WriteFrames, Client, Dial,
           ClientBegin, ClientEnd, Arrive, ClientHang, Loop, Wait, AcceptDone, EventsDone, Exit,
           Accept, Handle, ReadAgain, ReadEnd, ReadHttpPart, ReadHttpEnd, ReadWs, ReadFragments,
           ParseText, ParsePing, ParseClose, ParseFrame, ParseDone, Drop, CloseFd, Gone,
           owner, loop, table, kernel, client, IndInv, Shape
  <2>2. sock[f] /\ stream[f] = <<>> /\ Len(buf[f]) <= 1 /\ Sent(Unread(f), got[f], peer[f])
    BY <2>1 DEF TextInv, TextOf, UpgradedInv
  <2>3. Unread(f) = buf[f] /\ buf[f] \in Seq(Frags)
    BY <2>2, ConcatEmptySeq DEF Unread, TextInv, TextTypes
  <2> QED BY <2>2, <2>3, HalfIsNoText
<1> HIDE DEF Ordered, Complete
<1>4. Spec => [][Ordered]_vars /\ [][Complete]_vars
  BY <1>1, <1>2, <1>3, IndInvHolds, InitTextInv, PTL DEF Spec
<1> QED BY <1>4 DEF TextsDelivered, TextsInOrder, HangupLosesNothing, Ordered, Complete
=============================================================================
