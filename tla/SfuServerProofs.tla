-------------------------- MODULE SfuServerProofs --------------------------
(***************************************************************************)
(* Theorems about the two parts of SfuServer: its event loop (IoContext),  *)
(* for any number of datagrams, with a stop that may come at any time, and *)
(* whatever the scheduling; and its rooms (SfuRoom), for any peers, any    *)
(* SSRCs they choose and any number of registrations, however often the    *)
(* counter of SSRCs goes round.                                            *)
(***************************************************************************)
EXTENDS IoContext, SfuRoom, NaturalsInduction, WellFoundedInduction, TLAPS

-----------------------------------------------------------------------------
(* The event loop.                                                         *)

\* The types, and what the counters rest on: the loop was told of a datagram
\* only while one is waiting, nobody else takes it away, and what waits has
\* arrived.  Before start there is no loop that could have been told.
Threads == owner = "new" => io = "none"
Counters ==
  /\ "udp" \in events => udp > 0
  /\ events # {} => io = "events"
  /\ udp <= packets
LoopTypeInv == LoopTypeOK /\ Counters /\ Threads

\* Every step keeps the types.
LEMMA LoopTypeStep ==
  ASSUME LoopTypeInv, [LoopNext]_loopVars
  PROVE  LoopTypeInv'
<1> USE MaxPacketsAssumption DEF LoopTypeInv, LoopTypeOK, Counters, Threads
<1>1. CASE StartFails \/ Start
  BY <1>1 DEF StartFails, Start
<1>2. CASE StopStore \/ StopWrite \/ Join
  BY <1>2 DEF StopStore, StopWrite, Join
<1>3. CASE RunStore \/ Test(seen) \/ Test(running)
  BY <1>3 DEF RunStore, Test
<1>4. CASE WaitReady
  <2>1. events' \in SUBSET {"eventfd", "udp"} /\ ("udp" \in events' => udp > 0)
    BY <1>4 DEF WaitReady
  <2>2. QED BY <1>4, <2>1 DEF WaitReady
<1>5. CASE WaitTimeout
  BY <1>5 DEF WaitTimeout
<1>6. CASE HandleWakeup
  BY <1>6 DEF HandleWakeup
<1>7. CASE HandlePacket
  BY <1>7 DEF HandlePacket
<1>8. CASE EventsDone
  BY <1>8 DEF EventsDone
<1>9. CASE Arrive
  BY <1>9 DEF Arrive
<1>10. CASE UNCHANGED loopVars
  BY <1>10 DEF loopVars
<1>11. QED
  BY <1>1, <1>2, <1>3, <1>4, <1>5, <1>6, <1>7, <1>8, <1>9, <1>10 DEF LoopNext, Run

\* The variables keep their types; in particular a callback runs only when a
\* datagram is there (IoContext::run, the level-triggered socket).
THEOREM LoopTypeCorrect == LoopSpec => []LoopTypeOK
<1>1. LoopInit => LoopTypeInv
  <2> SUFFICES ASSUME LoopInit PROVE LoopTypeInv
    OBVIOUS
  <2>1. running \in BOOLEAN /\ seen \in BOOLEAN /\ eventfd \in BOOLEAN
    BY Zenon DEF LoopInit
  <2>2. 0 \in 0..MaxPackets /\ events \in SUBSET {"eventfd", "udp"}
    BY MaxPacketsAssumption DEF LoopInit
  <2>3. QED BY <2>1, <2>2 DEF LoopInit, LoopTypeInv, LoopTypeOK, Counters, Threads
<1>2. LoopTypeInv /\ [LoopNext]_loopVars => LoopTypeInv'
  BY LoopTypeStep
<1>3. LoopTypeInv => LoopTypeOK
  BY DEF LoopTypeInv
<1>4. QED BY <1>1, <1>2, <1>3, PTL DEF LoopSpec

-----------------------------------------------------------------------------
\* join lets the owner go on only when the thread has ended, and a thread
\* that has ended stays so; once past start the owner creates none.
StopInv == Threads /\ QuietAfterStop

\* Every step keeps the owner's thread the last one.
LEMMA StopStep ==
  ASSUME StopInv, [LoopNext]_loopVars
  PROVE  StopInv'
<1> USE DEF StopInv, Threads, QuietAfterStop
<1>1. CASE StartFails \/ Start \/ StopStore
  BY <1>1 DEF StartFails, Start, StopStore
<1>2. CASE StopWrite
  BY <1>2 DEF StopWrite
<1>3. CASE Join
  BY <1>3 DEF Join
<1>4. CASE Run
  <2>1. io \notin {"none", "ended"} /\ UNCHANGED owner
    BY <1>4 DEF Run, RunStore, Test, WaitReady, WaitTimeout, HandleWakeup, HandlePacket, EventsDone
  <2>2. QED BY <2>1
<1>5. CASE Arrive \/ UNCHANGED loopVars
  BY <1>5 DEF Arrive, loopVars
<1>6. QED BY <1>1, <1>2, <1>3, <1>4, <1>5 DEF LoopNext

\* When stop has returned the loop is not running, whenever it was called and
\* however old the values of running_ that the loop has seen: the owner may
\* destroy what the callbacks use (SfuServer::stop).
THEOREM StopIsQuiet == LoopSpec => []QuietAfterStop
<1>1. LoopInit => StopInv
  BY DEF LoopInit, StopInv, Threads, QuietAfterStop
<1>2. StopInv /\ [LoopNext]_loopVars => StopInv'
  BY StopStep
<1>3. StopInv => QuietAfterStop
  BY DEF StopInv
<1>4. QED BY <1>1, <1>2, <1>3, PTL DEF LoopSpec

-----------------------------------------------------------------------------
(* The rooms.                                                              *)

\* Values of the counter that agree are a whole turn apart: it wraps, and
\* gives out a value again only after SsrcSpace others.
LEMMA IssuedApart ==
  ASSUME NEW a \in Nat, NEW b \in Nat, a < b, Issued(a) = Issued(b)
  PROVE  b - a >= SsrcSpace
<1> DEFINE x == FirstSsrc + a
           y == FirstSsrc + b
           c == x \div SsrcSpace
           d == y \div SsrcSpace
<1>1. SsrcSpace \in Nat \ {0} /\ FirstSsrc \in Nat
  BY SpaceAssumption
<1>2. x \in Nat /\ y \in Nat /\ y - x = b - a /\ y - x > 0
  BY <1>1
<1>3. x = SsrcSpace * c + (x % SsrcSpace) /\ y = SsrcSpace * d + (y % SsrcSpace) /\ c \in Int /\ d \in Int
  BY <1>1, <1>2
<1>4. x % SsrcSpace = y % SsrcSpace /\ x % SsrcSpace \in Int
  BY <1>1, <1>2 DEF Issued
<1> HIDE DEF x, y, c, d
<1>5. y - x = SsrcSpace * (d - c)
  BY <1>1, <1>2, <1>3, <1>4
<1>6. d - c >= 1
  <2>1. CASE d - c <= 0
    <3>1. SsrcSpace * (d - c) <= 0
      BY <1>1, <1>3, <2>1
    <3> QED BY <1>2, <1>5, <3>1
  <2> QED BY <1>3, <2>1
<1>7. SsrcSpace * (d - c) >= SsrcSpace
  BY <1>1, <1>3, <1>6
<1> QED BY <1>2, <1>5, <1>7

\* next_ssrc_++ issues the next value.
LEMMA IssuedNext ==
  ASSUME NEW k \in Nat
  PROVE  (Issued(k) + 1) % SsrcSpace = Issued(k + 1) /\ Issued(k) \in Int
<1> DEFINE x == FirstSsrc + k
           c == x \div SsrcSpace
           m == x % SsrcSpace
           e == (x + 1) \div SsrcSpace
           n == (x + 1) % SsrcSpace
<1>1. SsrcSpace \in Nat \ {0} /\ x \in Nat
  BY SpaceAssumption
<1>2. m \in 0..(SsrcSpace - 1) /\ x = SsrcSpace * c + m /\ c \in Int
  <2> HIDE DEF x
  <2> QED BY <1>1
<1>3. n \in 0..(SsrcSpace - 1) /\ x + 1 = SsrcSpace * e + n /\ e \in Int
  <2>1. x + 1 \in Nat
    BY <1>1
  <2> HIDE DEF x
  <2> QED BY <1>1, <2>1
<1>4. Issued(k) = m
  BY DEF Issued
<1>5. Issued(k + 1) = n
  <2>1. FirstSsrc + (k + 1) = x + 1
    BY SpaceAssumption
  <2> QED BY <2>1 DEF Issued
<1> HIDE DEF x, c, m, e, n
<1>6. SsrcSpace * (e - c) = m + 1 - n
  BY <1>1, <1>2, <1>3
<1>7. e - c = 0 \/ e - c = 1
  <2>1. CASE e - c <= -1
    <3>1. SsrcSpace * (e - c) <= -SsrcSpace
      BY <1>1, <1>2, <1>3, <2>1
    <3> QED BY <1>1, <1>2, <1>3, <1>6, <3>1
  <2>2. CASE e - c >= 2
    <3>1. SsrcSpace * (e - c) >= SsrcSpace + SsrcSpace
      BY <1>1, <1>2, <1>3, <2>2
    <3> QED BY <1>1, <1>2, <1>3, <1>6, <3>1
  <2> QED BY <1>2, <1>3, <2>1, <2>2
<1>8. n = m + 1 \/ (n = 0 /\ m + 1 = SsrcSpace)
  BY <1>1, <1>2, <1>3, <1>6, <1>7
<1>9. (m + 1) % SsrcSpace = n
  BY <1>1, <1>2, <1>3, <1>8
<1> QED BY <1>2, <1>4, <1>5, <1>9

\* A room without peers has issued nothing.
LEMMA InitIndInv == Init => IndInv
<1> SUFFICES ASSUME Init PROVE IndInv
  OBVIOUS
<1>1. Issued(0) = FirstSsrc /\ adds \in 0..MaxAdds
  BY SpaceAssumption DEF Issued, Init
<1> QED BY <1>1 DEF Init, IndInv, Issued

\* add_peer gives the next value of the counter to the next registration.
LEMMA AddKeepsIndInv ==
  ASSUME IndInv, NEW p \in Peers, AddPeer(p)
  PROVE  IndInv'
<1>1. adds \in Nat /\ adds < MaxAdds /\ nextSsrc = Issued(adds)
  BY SpaceAssumption DEF AddPeer, IndInv
<1>2. adds' = adds + 1 /\ adds' \in 0..MaxAdds /\ heard' = heard /\ adds \in 0..(adds' - 1)
  BY <1>1, SpaceAssumption DEF AddPeer
<1>3. nextSsrc' = Issued(adds')
  BY <1>1, <1>2, IssuedNext DEF AddPeer, SsrcAfter
<1>4. DOMAIN ssrcMap' = Peers /\ DOMAIN reg' = Peers
  BY DEF AddPeer, IndInv
<1>5. \A q \in Peers : /\ ssrcMap'[q] = IF q = p THEN nextSsrc ELSE ssrcMap[q]
                       /\ reg'[q] = IF q = p THEN adds ELSE reg[q]
  BY DEF AddPeer, IndInv
<1>6. \A k : k \in 0..(adds - 1) => k \in 0..(adds' - 1)
  BY <1>1, <1>2
<1>7. \A q \in Peers : ssrcMap'[q] # NoSsrc => reg'[q] \in 0..(adds' - 1) /\ ssrcMap'[q] = Issued(reg'[q])
  <2> SUFFICES ASSUME NEW q \in Peers, ssrcMap'[q] # NoSsrc
               PROVE  reg'[q] \in 0..(adds' - 1) /\ ssrcMap'[q] = Issued(reg'[q])
    OBVIOUS
  <2>1. CASE q = p
    BY <1>1, <1>2, <1>5, <2>1
  <2>2. CASE q # p
    BY <1>5, <1>6, <2>2 DEF IndInv
  <2> QED BY <2>1, <2>2
<1>8. \A h \in heard' : h[3] \in 0..(adds' - 1) /\ h[2] = Issued(h[3])
  BY <1>2, <1>6 DEF IndInv
<1> QED BY <1>2, <1>3, <1>4, <1>7, <1>8 DEF IndInv, Issued

\* remove_peer takes an SSRC out of use and issues none.
LEMMA RemoveKeepsIndInv ==
  ASSUME IndInv, NEW p \in Peers, RemovePeer(p)
  PROVE  IndInv'
<1>1. nextSsrc' = nextSsrc /\ heard' = heard /\ adds' = adds
  BY DEF RemovePeer
<1>2. DOMAIN ssrcMap' = Peers /\ DOMAIN reg' = Peers
  BY DEF RemovePeer, IndInv
<1>3. \A q \in Peers : /\ ssrcMap'[q] = IF q = p THEN NoSsrc ELSE ssrcMap[q]
                       /\ q # p => reg'[q] = reg[q]
  BY DEF RemovePeer, IndInv
<1>4. \A q \in Peers : ssrcMap'[q] # NoSsrc => reg'[q] \in 0..(adds' - 1) /\ ssrcMap'[q] = Issued(reg'[q])
  BY <1>1, <1>3 DEF IndInv
<1> QED BY <1>1, <1>2, <1>4 DEF IndInv, Issued

\* route_rtp sends under the SSRC that the sender's registration was issued.
LEMMA RouteKeepsIndInv ==
  ASSUME IndInv, NEW p \in Peers, RouteRtp(p)
  PROVE  IndInv'
<1>1. UNCHANGED <<ssrcMap, nextSsrc, reg, adds>> /\ ssrcMap[p] # NoSsrc
  BY DEF RouteRtp
<1>2. reg[p] \in 0..(adds - 1) /\ ssrcMap[p] = Issued(reg[p])
  BY <1>1 DEF IndInv
<1>3. \A h \in heard' : h[3] \in 0..(adds - 1) /\ h[2] = Issued(h[3])
  <2> TAKE h \in heard'
  <2>1. heard' = heard \cup {<<q, ssrcMap[p], reg[p]>> : q \in Members \ {p}}
    BY DEF RouteRtp, OutSsrc
  <2>2. CASE h \in {<<q, ssrcMap[p], reg[p]>> : q \in Members \ {p}}
    <3>1. PICK q \in Members \ {p} : h = <<q, ssrcMap[p], reg[p]>>
      BY <2>2
    <3>2. h[2] = ssrcMap[p] /\ h[3] = reg[p]
      BY <3>1
    <3> QED BY <3>2, <1>2
  <2>3. CASE h \in heard
    BY <2>3 DEF IndInv
  <2> QED BY <2>1, <2>2, <2>3
<1> QED BY <1>1, <1>3 DEF IndInv, Issued

\* IndInv is inductive.
LEMMA StepKeepsIndInv ==
  ASSUME IndInv, [Next]_vars
  PROVE  IndInv'
<1>1. ASSUME UNCHANGED <<ssrcMap, nextSsrc, reg, heard, adds>> PROVE IndInv'
  BY <1>1 DEF IndInv, Issued
<1>2. ASSUME NEW p \in Peers, AddAgain(p) \/ RouteRtcp(p) PROVE IndInv'
  BY <1>2, <1>1 DEF AddAgain, RouteRtcp, vars
<1>3. CASE UNCHANGED vars
  BY <1>3, <1>1 DEF vars
<1> QED BY <1>2, <1>3, AddKeepsIndInv, RemoveKeepsIndInv, RouteKeepsIndInv DEF Next

\* Every SSRC in use or heard is the one its registration was issued,
\* however often the counter has gone round.
THEOREM IndInvHolds == Spec => []IndInv
<1>1. IndInv /\ [Next]_vars => IndInv'
  BY StepKeepsIndInv
<1> QED BY <1>1, InitIndInv, PTL DEF Spec

\* Two registrations are heard under one SSRC only if at least SsrcSpace
\* registrations lie between them: next_ssrc_++ has gone round (SfuRoom).
THEOREM StreamsStayUnmixed == Spec => []StreamsUnmixed
<1>1. IndInv => StreamsUnmixed
  <2> SUFFICES ASSUME IndInv, NEW g \in heard, NEW h \in heard, g[2] = h[2], g[3] < h[3]
               PROVE  h[3] - g[3] >= SsrcSpace
    BY DEF StreamsUnmixed
  <2>1. g[3] \in Nat /\ h[3] \in Nat /\ Issued(g[3]) = Issued(h[3])
    BY DEF IndInv
  <2> QED BY <2>1, IssuedApart
<1> QED BY <1>1, IndInvHolds, PTL

\* A registration is given an SSRC that none of the SsrcSpace - 1 before it
\* had, heard or still held (SfuRoom::add_peer).
THEOREM SsrcsAreFresh == Spec => FreshSsrc
<1> DEFINE Fresh ==
      \A p \in Peers : (ssrcMap'[p] # ssrcMap[p] /\ ssrcMap'[p] # NoSsrc) =>
        /\ \A h \in heard : h[2] = ssrcMap'[p] => adds - h[3] >= SsrcSpace
        /\ \A q \in Peers \ {p} : ssrcMap'[q] = ssrcMap'[p] => adds - reg[q] >= SsrcSpace
<1>1. ASSUME IndInv, [Next]_vars PROVE [Fresh]_vars
  <2>1. ASSUME NEW p \in Peers, AddPeer(p) PROVE Fresh
    <3>1. \A q \in Peers : ssrcMap'[q] = IF q = p THEN nextSsrc ELSE ssrcMap[q]
      BY <1>1, <2>1 DEF AddPeer, IndInv
    <3>2. adds \in Nat /\ nextSsrc = Issued(adds) /\ nextSsrc # NoSsrc
      <4>1. adds \in Nat /\ nextSsrc = Issued(adds)
        BY <1>1, SpaceAssumption DEF IndInv
      <4> QED BY <4>1, IssuedNext, NoSsrcAssumption
    <3>3. ASSUME NEW k \in 0..(adds - 1), Issued(k) = nextSsrc PROVE adds - k >= SsrcSpace
      BY <3>2, <3>3, IssuedApart
    <3>4. \A h \in heard : h[2] = nextSsrc => adds - h[3] >= SsrcSpace
      BY <1>1, <3>3 DEF IndInv
    <3>5. \A q \in Peers \ {p} : ssrcMap[q] = nextSsrc => adds - reg[q] >= SsrcSpace
      BY <1>1, <3>2, <3>3 DEF IndInv
    <3> QED BY <3>1, <3>4, <3>5
  <2>2. ASSUME NEW p \in Peers, RemovePeer(p) PROVE Fresh
    <3>1. \A q \in Peers : ssrcMap'[q] = IF q = p THEN NoSsrc ELSE ssrcMap[q]
      BY <1>1, <2>2 DEF RemovePeer, IndInv
    <3> QED BY <3>1
  <2>3. ASSUME NEW p \in Peers, AddAgain(p) \/ RouteRtp(p) \/ RouteRtcp(p) PROVE Fresh
    BY <2>3 DEF AddAgain, RouteRtp, RouteRtcp, vars
  <2> HIDE DEF Fresh
  <2> QED BY <1>1, <2>1, <2>2, <2>3 DEF Next
<1> QED BY <1>1, IndInvHolds, PTL DEF Spec, FreshSsrc

-----------------------------------------------------------------------------
(* The vector of the peers.                                                *)

\* A set of numbers that is not empty has a smallest one.
LEMMA Smallest ==
  ASSUME NEW T \in SUBSET Nat, T # {}
  PROVE  \E x \in T : \A y \in T : x <= y
<1>1. \E x \in T : \A y \in T : ~(<<y, x>> \in OpToRel(<, Nat))
  BY NatLessThanWellFounded, WFMin
<1>2. PICK x \in T : \A y \in T : ~(<<y, x>> \in OpToRel(<, Nat))
  BY <1>1
<1>3. \A y \in T : ~(y < x)
  BY <1>2 DEF OpToRel
<1> QED BY <1>3

\* What holds of 0 and passes on from a number to the next holds of all up to
\* N: of the numbers it does not hold of there would be a smallest one.
LEMMA UpTo ==
  ASSUME NEW N \in Nat, NEW T, 0 \in T, \A n \in 0..N : n < N /\ n \in T => n + 1 \in T
  PROVE  0..N \subseteq T
<1> DEFINE F == (0..N) \ T
<1> SUFFICES ASSUME F # {} PROVE FALSE
  OBVIOUS
<1>1. F \in SUBSET Nat
  OBVIOUS
<1>2. \E x \in F : \A y \in F : x <= y
  <2> HIDE DEF F
  <2> QED BY <1>1, Smallest
<1>3. PICK x \in F : \A y \in F : x <= y
  BY <1>2
<1>4. x \in 0..N /\ x # 0 /\ x \notin T
  OBVIOUS
<1>5. x - 1 \in 0..N /\ x - 1 < N /\ (x - 1) + 1 = x /\ ~(x <= x - 1)
  BY <1>4
<1>6. x - 1 \in T
  BY <1>3, <1>5
<1> QED BY <1>4, <1>5, <1>6

\* The loop of std::remove, as equations: kept[n] is what it has kept of the
\* first n items.
Loop(s, p, kept) ==
  kept = [n \in 0..Len(s) |-> IF n = 0 THEN <<>>
                              ELSE IF s[n] = p THEN kept[n - 1]
                              ELSE Append(kept[n - 1], s[n])]

\* The loop has a result, and Without is the last item of one.
LEMMA LoopRuns ==
  ASSUME NEW S, NEW s \in Seq(S), NEW p
  PROVE  \E kept : Loop(s, p, kept) /\ Without(s, p) = kept[Len(s)]
<1> DEFINE next(k, n) == IF n = 0 THEN <<>>
                         ELSE IF s[n] = p THEN k[n - 1] ELSE Append(k[n - 1], s[n])
           T == {m \in Nat : \E k : k = [n \in 0..m |-> next(k, n)]}
<1>1. Len(s) \in Nat
  OBVIOUS
<1>2. 0 \in T
  <2> DEFINE k == [n \in 0..0 |-> <<>>]
  <2>1. k = [n \in 0..0 |-> next(k, n)]
    OBVIOUS
  <2> QED BY <2>1
<1>3. ASSUME NEW m \in 0..Len(s), m < Len(s), m \in T
      PROVE  m + 1 \in T
  <2>1. PICK k : k = [n \in 0..m |-> next(k, n)]
    BY <1>3
  <2> DEFINE h == [n \in 0..(m + 1) |-> IF n = m + 1 THEN next(k, n) ELSE k[n]]
  <2>2. ASSUME NEW n \in 0..(m + 1) PROVE h[n] = next(h, n)
    <3>1. CASE n = m + 1
      <4>1. h[n] = next(k, n) /\ n # 0 /\ n - 1 \in 0..m /\ n - 1 # m + 1 /\ n - 1 \in 0..(m + 1)
        BY <3>1
      <4>2. h[n - 1] = k[n - 1]
        BY <4>1
      <4> HIDE DEF h
      <4> QED BY <4>1, <4>2
    <3>2. CASE n # m + 1 /\ n = 0
      <4>1. h[n] = k[n] /\ n \in 0..m
        BY <3>2
      <4>2. k[n] = next(k, n)
        BY <2>1, <4>1
      <4> HIDE DEF h
      <4> QED BY <3>2, <4>1, <4>2
    <3>3. CASE n # m + 1 /\ n # 0
      <4>1. h[n] = k[n] /\ n \in 0..m /\ n - 1 \in 0..(m + 1) /\ n - 1 # m + 1
        BY <3>3
      <4>2. k[n] = next(k, n) /\ h[n - 1] = k[n - 1]
        BY <2>1, <4>1
      <4> HIDE DEF h
      <4> QED BY <3>3, <4>1, <4>2
    <3> QED BY <3>1, <3>2, <3>3
  <2>3. h = [n \in 0..(m + 1) |-> h[n]]
    OBVIOUS
  <2> HIDE DEF h, next
  <2>4. h = [n \in 0..(m + 1) |-> next(h, n)]
    BY <2>2, <2>3
  <2>5. m + 1 \in Nat
    OBVIOUS
  <2> QED BY <2>4, <2>5
<1>4. Len(s) \in T
  <2> HIDE DEF T
  <2>1. \A m \in 0..Len(s) : m < Len(s) /\ m \in T => m + 1 \in T
    BY <1>3
  <2>2. 0..Len(s) \subseteq T
    BY <1>1, <1>2, <2>1, UpTo
  <2> QED BY <1>1, <2>2
<1>5. \E k : k = [n \in 0..Len(s) |-> next(k, n)]
  BY <1>4
<1>6. \E k : Loop(s, p, k)
  BY <1>5 DEF Loop
<1>7. Without(s, p) = (CHOOSE k : Loop(s, p, k))[Len(s)]
  BY DEF Without, Loop
<1> QED BY <1>6, <1>7

\* A sequence without an item twice.
OnceEach(s) == \A i, j \in DOMAIN s : s[i] = s[j] => i = j

\* k is what the loop has to keep of the first n items of s.
Kept(s, p, n, k) ==
  /\ \A i \in DOMAIN k : \E j \in 1..n : k[i] = s[j] /\ s[j] # p
  /\ \A j \in 1..n : s[j] # p => \E i \in DOMAIN k : k[i] = s[j]
  /\ OnceEach(s) => OnceEach(k)

\* One round of the loop.
LEMMA KeptNext ==
  ASSUME NEW S, NEW s \in Seq(S), NEW p, NEW n \in Nat, n < Len(s),
         NEW k \in Seq(S), Kept(s, p, n, k)
  PROVE  /\ s[n + 1] = p => Kept(s, p, n + 1, k)
         /\ s[n + 1] # p => Append(k, s[n + 1]) \in Seq(S) /\ Kept(s, p, n + 1, Append(k, s[n + 1]))
<1>1. n + 1 \in DOMAIN s /\ s[n + 1] \in S /\ 1..n \subseteq 1..(n + 1) /\ 1..n \subseteq DOMAIN s
  OBVIOUS
<1>2. \A j \in 1..(n + 1) : j \in 1..n \/ j = n + 1
  OBVIOUS
<1>3. n + 1 \in 1..(n + 1) /\ n + 1 \notin 1..n
  OBVIOUS
<1>4. ASSUME s[n + 1] = p PROVE Kept(s, p, n + 1, k)
  BY <1>1, <1>2, <1>4, Zenon DEF Kept
<1>5. ASSUME s[n + 1] # p
      PROVE  Append(k, s[n + 1]) \in Seq(S) /\ Kept(s, p, n + 1, Append(k, s[n + 1]))
  <2> DEFINE a == Append(k, s[n + 1])
             l == Len(k) + 1
  <2>1. a \in Seq(S) /\ DOMAIN a = DOMAIN k \cup {l} /\ l \notin DOMAIN k
    BY <1>1
  <2>2. a[l] = s[n + 1] /\ \A i \in DOMAIN k : a[i] = k[i]
    BY <1>1
  <2> HIDE DEF a, l
  <2>3. \A i \in DOMAIN a : \E j \in 1..(n + 1) : a[i] = s[j] /\ s[j] # p
    BY <1>1, <1>3, <1>5, <2>1, <2>2, Zenon DEF Kept
  <2>4. \A j \in 1..(n + 1) : s[j] # p => \E i \in DOMAIN a : a[i] = s[j]
    <3> SUFFICES ASSUME NEW j \in 1..(n + 1), s[j] # p PROVE \E i \in DOMAIN a : a[i] = s[j]
      OBVIOUS
    <3>1. CASE j = n + 1
      BY <3>1, <2>1, <2>2
    <3>2. CASE j \in 1..n
      <4>1. PICK i \in DOMAIN k : k[i] = s[j]
        BY <3>2 DEF Kept
      <4> QED BY <4>1, <2>1, <2>2
    <3> QED BY <3>1, <3>2, <1>2
  <2>5. ASSUME OnceEach(s) PROVE OnceEach(a)
    <3>1. \A i \in DOMAIN k : k[i] # s[n + 1]
      <4> SUFFICES ASSUME NEW i \in DOMAIN k, k[i] = s[n + 1] PROVE FALSE
        OBVIOUS
      <4>1. PICK j \in 1..n : k[i] = s[j]
        BY DEF Kept
      <4>2. j \in DOMAIN s /\ n + 1 \in DOMAIN s /\ j # n + 1
        BY <1>1
      <4> QED BY <4>1, <4>2, <2>5 DEF OnceEach
    <3>2. OnceEach(k)
      BY <2>5 DEF Kept
    <3> QED BY <2>1, <2>2, <3>1, <3>2, Zenon DEF OnceEach
  <2>6. Kept(s, p, n + 1, a)
    BY <2>3, <2>4, <2>5 DEF Kept
  <2> QED BY <2>1, <2>6 DEF a
<1> QED BY <1>4, <1>5

\* What erase(remove(...)) leaves: the items other than p, none of them
\* twice if none was.
LEMMA WithoutIs ==
  ASSUME NEW S, NEW s \in Seq(S), NEW p
  PROVE  Without(s, p) \in Seq(S) /\ Kept(s, p, Len(s), Without(s, p))
<1>1. PICK kept : Loop(s, p, kept) /\ Without(s, p) = kept[Len(s)]
  BY LoopRuns
<1>2. Len(s) \in Nat
  OBVIOUS
<1>3. \A n \in 0..Len(s) :
        kept[n] = IF n = 0 THEN <<>>
                  ELSE IF s[n] = p THEN kept[n - 1] ELSE Append(kept[n - 1], s[n])
  BY <1>1, Zenon DEF Loop
<1> DEFINE T == {n \in Nat : kept[n] \in Seq(S) /\ Kept(s, p, n, kept[n])}
<1>4. 0 \in T
  <2>1. 0 \in 0..Len(s)
    BY <1>2
  <2>2. kept[0] = <<>>
    BY <1>3, <2>1
  <2>3. <<>> \in Seq(S) /\ Kept(s, p, 0, <<>>)
    BY DEF Kept, OnceEach
  <2> QED BY <2>2, <2>3
<1>5. \A n \in 0..Len(s) : n < Len(s) /\ n \in T => n + 1 \in T
  <2> SUFFICES ASSUME NEW n \in 0..Len(s), n < Len(s), n \in T PROVE n + 1 \in T
    BY DEF T
  <2>1. n \in Nat /\ kept[n] \in Seq(S) /\ Kept(s, p, n, kept[n])
    OBVIOUS
  <2>2. n + 1 \in 0..Len(s) /\ n + 1 # 0 /\ (n + 1) - 1 = n /\ n + 1 \in Nat
    BY <1>2, <2>1
  <2>3. kept[n + 1] = IF s[n + 1] = p THEN kept[n] ELSE Append(kept[n], s[n + 1])
    BY <1>3, <2>2
  <2>4. /\ s[n + 1] = p => Kept(s, p, n + 1, kept[n])
        /\ s[n + 1] # p => /\ Append(kept[n], s[n + 1]) \in Seq(S)
                           /\ Kept(s, p, n + 1, Append(kept[n], s[n + 1]))
    BY <2>1, KeptNext
  <2>5. kept[n + 1] \in Seq(S) /\ Kept(s, p, n + 1, kept[n + 1])
    BY <2>1, <2>3, <2>4, Zenon
  <2> QED BY <2>2, <2>5
<1>6. Len(s) \in T
  <2> HIDE DEF T
  <2>1. 0..Len(s) \subseteq T
    BY <1>2, <1>4, <1>5, UpTo
  <2> QED BY <1>2, <2>1
<1> QED BY <1>1, <1>6

\* The invariant: the vector is a sequence of peers and agrees with the map.
VectorInv == peers \in Seq(Peers) /\ MapAndVectorAgree

\* remove_peer takes the peer out of both.
LEMMA RemoveKeepsVectorInv ==
  ASSUME IndInv, VectorInv, NEW p \in Peers, RemovePeer(p)
  PROVE  VectorInv'
<1>1. \A q \in Peers : ssrcMap'[q] = IF q = p THEN NoSsrc ELSE ssrcMap[q]
  BY DEF RemovePeer, IndInv
<1>2. peers \in Seq(Peers) /\ peers' = Without(peers, p)
  BY DEF VectorInv, RemovePeer
<1>3. peers' \in Seq(Peers) /\ Kept(peers, p, Len(peers), peers')
  BY <1>2, WithoutIs
<1>4. DOMAIN peers = 1..Len(peers)
  BY <1>2
<1>5. OnceEach(peers')
  BY <1>3 DEF Kept, OnceEach, VectorInv, MapAndVectorAgree
<1>6. \A q \in Peers : q \in Members' <=> q \in Members /\ q # p
  <2> SUFFICES ASSUME NEW q \in Peers PROVE q \in Members' <=> q \in Members /\ q # p
    OBVIOUS
  <2>1. ASSUME q \in Members' PROVE q \in Members /\ q # p
    BY <1>3, <1>4, <2>1 DEF Kept, Members
  <2>2. ASSUME q \in Members, q # p PROVE q \in Members'
    BY <1>3, <1>4, <2>2 DEF Kept, Members
  <2> QED BY <2>1, <2>2
<1>7. \A q \in Peers : q \in Members' <=> ssrcMap'[q] # NoSsrc
  BY <1>1, <1>6 DEF VectorInv, MapAndVectorAgree
<1> QED BY <1>3, <1>5, <1>7, Zenon DEF VectorInv, MapAndVectorAgree, OnceEach

\* add_peer enters a peer that is in neither into both.
LEMMA AddKeepsVectorInv ==
  ASSUME IndInv, VectorInv, NEW p \in Peers, AddPeer(p)
  PROVE  VectorInv'
<1>1. \A q \in Peers : ssrcMap'[q] = IF q = p THEN nextSsrc ELSE ssrcMap[q]
  BY DEF AddPeer, IndInv
<1>2. nextSsrc # NoSsrc
  <2>1. adds \in Nat /\ nextSsrc = Issued(adds)
    BY SpaceAssumption DEF IndInv
  <2> QED BY <2>1, IssuedNext, NoSsrcAssumption
<1> DEFINE l == Len(peers) + 1
<1>3. peers' \in Seq(Peers) /\ DOMAIN peers' = DOMAIN peers \cup {l} /\ l \notin DOMAIN peers
  BY DEF AddPeer, VectorInv
<1>4. peers'[l] = p /\ \A i \in DOMAIN peers : peers'[i] = peers[i]
  BY DEF AddPeer, VectorInv
<1> HIDE DEF l
<1>5. \A i \in DOMAIN peers : peers[i] # p
  BY DEF AddPeer, VectorInv, MapAndVectorAgree, Members
<1>6. \A i, j \in DOMAIN peers' : peers'[i] = peers'[j] => i = j
  BY <1>3, <1>4, <1>5, Zenon DEF VectorInv, MapAndVectorAgree
<1>7. \A q : q \in Members' <=> q \in Members \/ q = p
  BY <1>3, <1>4, Zenon DEF Members
<1>8. \A q \in Peers : q \in Members' <=> ssrcMap'[q] # NoSsrc
  BY <1>1, <1>2, <1>7 DEF VectorInv, MapAndVectorAgree
<1> QED BY <1>3, <1>6, <1>8 DEF VectorInv, MapAndVectorAgree

\* The map and the vector, which every packet is sent along, agree after any
\* calls in any order.
THEOREM MapAndVectorStayEqual == Spec => []MapAndVectorAgree
<1>1. Init => VectorInv
  BY DEF Init, VectorInv, MapAndVectorAgree, Members
<1>2. IndInv /\ VectorInv /\ [Next]_vars => VectorInv'
  <2> SUFFICES ASSUME IndInv, VectorInv, [Next]_vars PROVE VectorInv'
    OBVIOUS
  <2>1. ASSUME UNCHANGED <<ssrcMap, peers>> PROVE VectorInv'
    BY <2>1 DEF VectorInv, MapAndVectorAgree, Members
  <2>2. ASSUME NEW p \in Peers, AddAgain(p) \/ RouteRtp(p) \/ RouteRtcp(p) PROVE VectorInv'
    BY <2>1, <2>2 DEF AddAgain, RouteRtp, RouteRtcp, vars
  <2>3. CASE UNCHANGED vars
    BY <2>1, <2>3 DEF vars
  <2> QED BY <2>2, <2>3, AddKeepsVectorInv, RemoveKeepsVectorInv DEF Next
<1>3. VectorInv => MapAndVectorAgree
  BY DEF VectorInv
<1> QED BY <1>1, <1>2, <1>3, IndInvHolds, PTL DEF Spec
=============================================================================
