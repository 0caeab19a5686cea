--------------------------- MODULE TransportProofs ---------------------------
(***************************************************************************)
(* Proofs about Transport: types, the two directions of a connection, and  *)
(* the order in which the ends finish the handshake.                       *)
(***************************************************************************)
EXTENDS Transport, TLAPS

\* Every action of Next, for the case distinctions below.
LEMMA NextCases ==
  ASSUME Next
  PROVE  \/ \E e \in Ends : SetRemoteCredentials(e)
         \/ \E e \in Ends : SendBindingRequest(e)
         \/ \E e \in Ends : AskedByOthers(e)
         \/ \E e \in Ends : DriveHandshake(e)
         \/ \E e \in Ends : DriveTimeout(e)
         \/ \E e \in Ends : PendingSend(e)
         \/ \E e \in Ends : Decrypt(e)
         \/ \E m \in net, left \in SUBSET net : OnRequest(m.to, m, left)
         \/ \E m \in net, left \in SUBSET net : OnResponse(m.to, m, left)
         \/ \E m \in net, left \in SUBSET net : FeedData(m.to, m, left)
         \/ \E m \in net : Lose(m)
  <1>1. CASE \E e \in Ends : \/ SetRemoteCredentials(e) \/ SendBindingRequest(e)
                             \/ AskedByOthers(e)
                             \/ DriveHandshake(e) \/ DriveTimeout(e)
                             \/ PendingSend(e) \/ Decrypt(e)
    BY <1>1
  <1>2. CASE \E m \in net : Deliver(m) \/ Repeat(m) \/ Lose(m)
    <2>1. PICK m \in net : Deliver(m) \/ Repeat(m) \/ Lose(m)
      BY <1>2
    <2>2. CASE Lose(m)
      BY <2>2
    <2>3. CASE Deliver(m) \/ Repeat(m)
      <3>1. PICK left \in SUBSET net : Receive(m, left)
        BY <2>3 DEF Deliver, Repeat
      <3>2. QED BY <3>1 DEF Receive
    <2>4. QED BY <2>1, <2>2, <2>3
  <1>3. QED BY <1>1, <1>2 DEF Next

-----------------------------------------------------------------------------
\* What a datagram is, in the form the proofs use.
LEMMA MessageFields ==
  ASSUME NEW m \in Messages
  PROVE  /\ m.to \in Ends
         /\ m.kind \in {"request", "response", "dtls"}
         /\ m.kind = "dtls" => m.body \in SUBSET (1..4)
  <1>1. PICK e \in Ends : \/ \E u \in Usernames : m = Request(e, u)
                          \/ m = Response(e)
                          \/ \E f \in SUBSET (1..4) : m = Datagram(e, f)
    BY DEF Messages
  <1>2. CASE \E u \in Usernames : m = Request(e, u)
    BY <1>2 DEF Request, Peer, Ends
  <1>3. CASE m = Response(e)
    BY <1>3 DEF Response, Peer, Ends
  <1>4. CASE \E f \in SUBSET (1..4) : m = Datagram(e, f)
    BY <1>4 DEF Datagram, Peer, Ends
  <1>5. QED BY <1>1, <1>2, <1>3, <1>4

LEMMA NewMessages ==
  ASSUME NEW e \in Ends
  PROVE  /\ \A u \in Usernames : Request(e, u) \in Messages
         /\ Response(e) \in Messages
         /\ \A f \in SUBSET (1..4) : Datagram(e, f) \in Messages
  BY DEF Messages

LEMMA FlightRange ==
  ASSUME NEW e \in Ends, NEW s \in 0..4
  PROVE  Flights(e, s) \in SUBSET (1..4)
  BY DEF Flights, Ends

LEMMA StageRange ==
  ASSUME TypeOK, NEW e \in Ends, NEW f
  PROVE  StageAfter(e, f) \in 0..4
  <1>1. stage[e] \in 0..4
    BY DEF TypeOK
  <1>2. stage[e] = 0 \/ stage[e] = 1 \/ stage[e] = 2 \/ stage[e] = 3 \/ stage[e] = 4
    BY <1>1
  <1>3. QED BY <1>2 DEF StageAfter

\* The variables keep their types (Transport).
THEOREM TypeCorrect == Spec => []TypeOK
  <1>1. Init => TypeOK
    BY DEF Init, TypeOK
  <1>2. TypeOK /\ [Next]_vars => TypeOK'
    <2> SUFFICES ASSUME TypeOK, [Next]_vars PROVE TypeOK'
      OBVIOUS
    <2>1. ASSUME NEW e \in Ends, SetRemoteCredentials(e) PROVE TypeOK'
      BY <2>1 DEF SetRemoteCredentials, dtlsVars, TypeOK
    <2>2. ASSUME NEW e \in Ends, SendBindingRequest(e) PROVE TypeOK'
      <3>1. <<Remote(e), e>> \in Usernames
        BY DEF Remote, Peer, Usernames, Ends
      <3>2. Request(e, <<Remote(e), e>>) \in Messages
        BY <3>1, NewMessages
      <3>3. QED BY <2>2, <3>2 DEF SendBindingRequest, iceVars, dtlsVars, TypeOK
    <2>3. ASSUME NEW e \in Ends, DriveHandshake(e) PROVE TypeOK'
      <3> DEFINE s == StageAfter(e, rbio[e])
      <3>1. s \in 0..4
        BY StageRange
      <3>2. Flights(e, s) \in SUBSET (1..4)
        BY <3>1, FlightRange
      <3>3. /\ stage' = [stage EXCEPT ![e] = s]
            /\ done' = [done EXCEPT ![e] = (s = 4)]
            /\ wbio' = [wbio EXCEPT ![e] = @ \cup (IF s = stage[e] THEN {} ELSE Flights(e, s))]
            /\ rbio' = [rbio EXCEPT ![e] = {}]
            /\ UNCHANGED <<cred, connected, net>>
        BY <2>3 DEF DriveHandshake, iceVars
      <3> HIDE DEF s
      <3>4. stage' \in [Ends -> 0..4] /\ rbio' \in [Ends -> SUBSET (1..4)]
        BY <3>1, <3>3 DEF TypeOK
      <3>5. wbio' \in [Ends -> SUBSET (1..4)]
        BY <3>2, <3>3 DEF TypeOK
      <3>6. done' \in [Ends -> BOOLEAN]
        BY <3>3, (s = 4) \in BOOLEAN, Zenon DEF TypeOK
      <3>7. QED BY <3>3, <3>4, <3>5, <3>6 DEF TypeOK
    <2>4. ASSUME NEW e \in Ends, DriveTimeout(e) PROVE TypeOK'
      <3>1. Flights(e, stage[e]) \in SUBSET (1..4)
        BY FlightRange DEF TypeOK
      <3>2. QED BY <2>4, <3>1 DEF DriveTimeout, iceVars, TypeOK
    <2>5. ASSUME NEW e \in Ends, PendingSend(e) PROVE TypeOK'
      <3>1. Datagram(e, wbio[e]) \in Messages
        BY NewMessages DEF TypeOK
      <3>2. QED BY <2>5, <3>1 DEF PendingSend, iceVars, TypeOK
    <2>6. ASSUME NEW e \in Ends, Decrypt(e) PROVE TypeOK'
      <3>1. Flights(e, 4) \in SUBSET (1..4)
        BY FlightRange
      <3>2. QED BY <2>6, <3>1 DEF Decrypt, iceVars, TypeOK
    <2>7. ASSUME NEW m \in net, NEW left \in SUBSET net, OnRequest(m.to, m, left)
          PROVE  TypeOK'
      <3>1. m.to \in Ends
        BY MessageFields DEF TypeOK
      <3>2. Response(m.to) \in Messages
        BY <3>1, NewMessages
      <3>3. QED BY <2>7, <3>1, <3>2 DEF OnRequest, dtlsVars, TypeOK
    <2>13. ASSUME NEW e \in Ends, AskedByOthers(e) PROVE TypeOK'
      <3>1. Response(e) \in Messages
        BY NewMessages
      <3>2. QED BY <2>13, <3>1 DEF AskedByOthers, OnRequest, dtlsVars, TypeOK
    <2>8. ASSUME NEW m \in net, NEW left \in SUBSET net, OnResponse(m.to, m, left)
          PROVE  TypeOK'
      BY <2>8, MessageFields DEF OnResponse, dtlsVars, TypeOK
    <2>9. ASSUME NEW m \in net, NEW left \in SUBSET net, FeedData(m.to, m, left)
          PROVE  TypeOK'
      <3>1. m.to \in Ends /\ m.body \in SUBSET (1..4)
        BY <2>9, MessageFields DEF TypeOK, FeedData
      <3>2. QED BY <2>9, <3>1 DEF FeedData, iceVars, TypeOK
    <2>10. ASSUME NEW m \in net, Lose(m) PROVE TypeOK'
      BY <2>10 DEF Lose, iceVars, dtlsVars, TypeOK
    <2>11. CASE UNCHANGED vars
      BY <2>11 DEF vars, TypeOK
    <2>12. QED
      BY <2>1, <2>2, <2>3, <2>4, <2>5, <2>6, <2>7, <2>8, <2>9, <2>10, <2>11, <2>13, NextCases
  <1>3. QED BY <1>1, <1>2, PTL DEF Spec

-----------------------------------------------------------------------------
\* What the datagrams on the way say about the credentials: a request names the
\* ufrag of its receiver only if its sender was told it, and a response exists
\* only if both ends were told.
BothKnow == cred["client"] /\ cred["server"]
RequestsTruthful ==
  \A m \in net : m.kind = "request" =>
    m.body[2] = Peer(m.to) /\ (m.body[1] = m.to => cred[Peer(m.to)])
ResponsesTruthful == \A m \in net : m.kind = "response" => BothKnow
IceInv == RequestsTruthful /\ ResponsesTruthful

\* A request that names its receiver as it expects was sent by an agent that
\* knows the receiver, and whom the receiver knows.
LEMMA NamedByPeer ==
  ASSUME TypeOK, RequestsTruthful, NEW m \in net, m.kind = "request",
         m.body = <<m.to, Remote(m.to)>>
  PROVE  BothKnow
  <1> DEFINE e == m.to
  <1>1. e \in Ends
    BY MessageFields DEF TypeOK
  <1>2. m.body[1] = e /\ m.body[2] = Remote(e)
    OBVIOUS
  <1>3. Remote(e) = Peer(e) /\ cred[Peer(e)]
    BY <1>2 DEF RequestsTruthful
  <1>4. cred[e]
    BY <1>1, <1>3 DEF Remote, Peer, Ends
  <1>5. QED BY <1>1, <1>3, <1>4 DEF BothKnow, Peer, Ends

LEMMA IceStep ==
  ASSUME TypeOK, IceInv, [Next]_vars
  PROVE  IceInv'
  <1> USE DEF IceInv
  <1>1. ASSUME NEW e \in Ends, SetRemoteCredentials(e) PROVE IceInv'
    <2>1. \A d \in Ends : cred[d] => cred'[d]
      BY <1>1 DEF SetRemoteCredentials, TypeOK
    <2>2. BothKnow => BothKnow'
      BY <2>1 DEF BothKnow, Ends
    <2>3. ResponsesTruthful'
      BY <1>1, <2>2 DEF SetRemoteCredentials, ResponsesTruthful
    <2>4. RequestsTruthful'
      BY <1>1, <2>1, MessageFields DEF SetRemoteCredentials, RequestsTruthful, Peer, Ends, TypeOK
    <2>5. QED BY <2>3, <2>4
  <1>2. ASSUME NEW e \in Ends, SendBindingRequest(e) PROVE IceInv'
    <2>1. net' = net \cup {Request(e, <<Remote(e), e>>)} /\ UNCHANGED cred
      BY <1>2 DEF SendBindingRequest, iceVars
    <2>3. ResponsesTruthful'
      BY <2>1 DEF ResponsesTruthful, Request, BothKnow
    <2>4. Peer(Peer(e)) = e /\ (Remote(e) = Peer(e) => cred[e])
      BY DEF Peer, Remote, Ends
    <2>5. RequestsTruthful'
      BY <2>1, <2>4 DEF RequestsTruthful, Request
    <2>6. QED BY <2>3, <2>5
  <1>3. ASSUME UNCHANGED cred,
               \A m \in net' : m \in net \/ m.kind = "dtls"
        PROVE  IceInv'
    BY <1>3 DEF RequestsTruthful, ResponsesTruthful, BothKnow
  <1>4. ASSUME NEW e \in Ends, PendingSend(e) PROVE IceInv'
    BY <1>4, <1>3 DEF PendingSend, Datagram, iceVars
  <1>5. ASSUME NEW m \in net, NEW left \in SUBSET net, OnRequest(m.to, m, left)
        PROVE  IceInv'
    <2>1. CASE m.body # <<m.to, Remote(m.to)>>
      BY <1>5, <2>1, <1>3 DEF OnRequest
    <2>2. CASE m.body = <<m.to, Remote(m.to)>>
      <3>1. BothKnow
        BY <1>5, <2>2, NamedByPeer DEF OnRequest
      <3>2. net' = left \cup {Response(m.to)} /\ cred' = cred
        BY <1>5, <2>2 DEF OnRequest
      <3>3. RequestsTruthful'
        BY <3>2 DEF RequestsTruthful, Response
      <3>4. QED BY <3>1, <3>2, <3>3 DEF ResponsesTruthful, BothKnow
    <2>3. QED BY <2>1, <2>2
  <1>12. ASSUME NEW e \in Ends, AskedByOthers(e) PROVE IceInv'
    <2>1. net' = net /\ cred' = cred
      BY <1>12 DEF AskedByOthers, OnRequest, PlainRequest
    <2>2. QED BY <2>1, <1>3
  <1>6. ASSUME NEW m \in net, NEW left \in SUBSET net, OnResponse(m.to, m, left)
        PROVE  IceInv'
    <2>1. BothKnow
      BY <1>6 DEF ResponsesTruthful, OnResponse
    <2>2. net' = left /\ cred' = cred
      BY <1>6 DEF OnResponse
    <2>3. QED BY <2>1, <2>2 DEF RequestsTruthful, ResponsesTruthful, BothKnow
  <1>7. ASSUME NEW m \in net, NEW left \in SUBSET net, FeedData(m.to, m, left)
        PROVE  IceInv'
    BY <1>7, <1>3 DEF FeedData, iceVars
  <1>8. ASSUME NEW m \in net, Lose(m) PROVE IceInv'
    BY <1>8, <1>3 DEF Lose, iceVars
  <1>9. ASSUME NEW e \in Ends, DriveHandshake(e) \/ DriveTimeout(e) \/ Decrypt(e)
        PROVE  IceInv'
    BY <1>9, <1>3 DEF DriveHandshake, DriveTimeout, Decrypt, iceVars
  <1>10. CASE UNCHANGED vars
    BY <1>10, <1>3 DEF vars
  <1>11. QED
    BY <1>1, <1>2, <1>4, <1>5, <1>6, <1>7, <1>8, <1>9, <1>10, <1>12, NextCases

\* Which steps connect an agent.
LEMMA ConnectingSteps ==
  ASSUME TypeOK, IceInv, Next
  PROVE  \/ BothKnow \/ connected' = connected
         \/ \E e \in Ends : AskedByOthers(e) /\ connected' = [connected EXCEPT ![e] = TRUE]
  <1>1. ASSUME NEW m \in net, NEW left \in SUBSET net, OnRequest(m.to, m, left)
        PROVE  BothKnow \/ connected' = connected
    <2>1. <<>> \notin Usernames
      BY DEF Usernames
    <2>2. m.body # <<>>
      BY <1>1, <2>1 DEF TypeOK, Messages, Request, Response, Datagram, OnRequest
    <2>3. CASE m.body = <<m.to, Remote(m.to)>>
      BY <1>1, <2>3, NamedByPeer DEF OnRequest, IceInv
    <2>4. CASE m.body # <<m.to, Remote(m.to)>>
      BY <1>1, <2>2, <2>4 DEF OnRequest
    <2>5. QED BY <2>3, <2>4
  <1>2. ASSUME NEW m \in net, NEW left \in SUBSET net, OnResponse(m.to, m, left)
        PROVE  BothKnow
    BY <1>2 DEF IceInv, ResponsesTruthful, OnResponse
  <1>3. ASSUME NEW e \in Ends, AskedByOthers(e)
        PROVE  connected' = [connected EXCEPT ![e] = TRUE]
    <2>1. <<>> # <<e, Remote(e)>>
      OBVIOUS
    <2>2. QED BY <1>3, <2>1 DEF AskedByOthers, OnRequest, PlainRequest
  <1>4. ASSUME NEW e \in Ends, \/ SetRemoteCredentials(e) \/ SendBindingRequest(e)
                               \/ DriveHandshake(e) \/ DriveTimeout(e)
                               \/ PendingSend(e) \/ Decrypt(e)
        PROVE  connected' = connected
    BY <1>4 DEF SetRemoteCredentials, SendBindingRequest, DriveHandshake, DriveTimeout,
                PendingSend, Decrypt, iceVars
  <1>5. ASSUME NEW m \in net, NEW left \in SUBSET net, FeedData(m.to, m, left)
        PROVE  connected' = connected
    BY <1>5 DEF FeedData, iceVars
  <1>6. ASSUME NEW m \in net, Lose(m) PROVE connected' = connected
    BY <1>6 DEF Lose, iceVars
  <1>7. QED BY <1>1, <1>2, <1>3, <1>4, <1>5, <1>6, NextCases

\* What connects an agent comes from a peer that knows it and that it knows, or
\* is a request without USERNAME (IceAgent::on_packet).
THEOREM ConnectionIsMutual == Spec => ConnectedIsMutual
  <1> DEFINE Mutual == \A e \in Ends : (connected'[e] /\ ~connected[e]) =>
                         (cred["client"] /\ cred["server"]) \/ AskedByOthers(e)
  <1>1. Init => IceInv
    BY DEF Init, IceInv, RequestsTruthful, ResponsesTruthful
  <1>2. TypeOK /\ IceInv /\ [Next]_vars => IceInv'
    BY IceStep
  <1>3. TypeOK /\ IceInv /\ [Next]_vars => [Mutual]_vars
    <2> SUFFICES ASSUME TypeOK, IceInv, Next, NEW e \in Ends, connected'[e], ~connected[e]
                 PROVE  BothKnow \/ AskedByOthers(e)
      BY DEF BothKnow
    <2>1. CASE connected' = connected
      BY <2>1
    <2>2. ASSUME NEW d \in Ends, AskedByOthers(d), connected' = [connected EXCEPT ![d] = TRUE]
          PROVE  AskedByOthers(e)
      <3>1. d = e
        BY <2>2 DEF TypeOK
      <3>2. QED BY <2>2, <3>1
    <2>3. QED BY <2>1, <2>2, ConnectingSteps
  <1>4. QED BY <1>1, <1>2, <1>3, TypeCorrect, PTL DEF Spec, ConnectedIsMutual

-----------------------------------------------------------------------------
\* The flights an end has sent so far.
Sent(e) == (IF e = "client" THEN {1, 3} ELSE {2, 4}) \cap 1..stage[e]

\* Every flight in a BIO or on the way was sent, the stages of the two ends are
\* at most one flight apart, and handshake_done_ says that the end is through.
StagesInStep ==
  /\ stage["client"] \in {0, 1, 3, 4} /\ stage["server"] \in {0, 2, 4}
  /\ stage["server"] >= 2 => stage["client"] >= 1
  /\ stage["client"] >= 3 => stage["server"] >= 2
  /\ stage["server"] = 4 => stage["client"] >= 3
  /\ stage["client"] = 4 => stage["server"] = 4
FlightsSent ==
  /\ \A e \in Ends : wbio[e] \subseteq Sent(e) /\ rbio[e] \subseteq Sent(Peer(e))
  /\ \A m \in net : m.kind = "dtls" => m.body \subseteq Sent(Peer(m.to))
DoneAtTheEnd == \A e \in Ends : done[e] <=> stage[e] = 4
HandshakeInv == StagesInStep /\ FlightsSent /\ DoneAtTheEnd

\* Steps that keep the stages and send no flight for the first time.
LEMMA NothingNewIsSent ==
  ASSUME HandshakeInv, UNCHANGED <<stage, done>>,
         \A e \in Ends : wbio'[e] \subseteq Sent(e) /\ rbio'[e] \subseteq Sent(Peer(e)),
         \A m \in net' : m.kind = "dtls" => m.body \subseteq Sent(Peer(m.to))
  PROVE  HandshakeInv'
  <1>1. \A e : Sent(e)' = Sent(e)
    BY DEF Sent
  <1>2. QED BY <1>1 DEF HandshakeInv, StagesInStep, FlightsSent, DoneAtTheEnd

LEMMA OwnFlight ==
  ASSUME HandshakeInv, NEW e \in Ends
  PROVE  Flights(e, stage[e]) \subseteq Sent(e)
  BY DEF HandshakeInv, StagesInStep, Flights, Sent, Ends

\* drive_handshake moves an end on only when its peer has sent the flight.
LEMMA StageStep ==
  ASSUME TypeOK, HandshakeInv, NEW e \in Ends, DriveHandshake(e)
  PROVE  HandshakeInv'
  <1> DEFINE s == StageAfter(e, rbio[e])
  <1>1. /\ stage' = [stage EXCEPT ![e] = s]
        /\ done' = [done EXCEPT ![e] = (s = 4)]
        /\ wbio' = [wbio EXCEPT ![e] = @ \cup (IF s = stage[e] THEN {} ELSE Flights(e, s))]
        /\ rbio' = [rbio EXCEPT ![e] = {}]
        /\ UNCHANGED net
    BY DEF DriveHandshake
  <1>2. rbio[e] \subseteq Sent(Peer(e))
    BY DEF HandshakeInv, FlightsSent
  <1>3. CASE e = "client"
    <2>1. /\ s >= stage[e] /\ s \in {0, 1, 3, 4}
          /\ s >= 3 => stage["server"] >= 2
          /\ s = 4 => stage["server"] = 4
      BY <1>2, <1>3 DEF StageAfter, HandshakeInv, StagesInStep, Sent, Peer
    <2> HIDE DEF s
    <2>2. StagesInStep'
      BY <1>1, <1>3, <2>1 DEF HandshakeInv, StagesInStep, TypeOK, Ends
    <2>3. Flights(e, s) \subseteq Sent(e)' /\ \A d \in Ends : Sent(d) \subseteq Sent(d)'
      BY <1>1, <1>3, <2>1 DEF Flights, Sent, TypeOK, Ends, HandshakeInv, StagesInStep
    <2>4. FlightsSent'
      BY <1>1, <2>3, MessageFields DEF HandshakeInv, FlightsSent, TypeOK, Peer, Ends
    <2>5. DoneAtTheEnd'
      BY <1>1 DEF HandshakeInv, DoneAtTheEnd, TypeOK
    <2>6. QED BY <2>2, <2>4, <2>5 DEF HandshakeInv
  <1>4. CASE e = "server"
    <2>1. /\ s >= stage[e] /\ s \in {0, 2, 4}
          /\ s >= 2 => stage["client"] >= 1
          /\ s = 4 => stage["client"] >= 3
      BY <1>2, <1>4 DEF StageAfter, HandshakeInv, StagesInStep, Sent, Peer
    <2> HIDE DEF s
    <2>2. StagesInStep'
      BY <1>1, <1>4, <2>1 DEF HandshakeInv, StagesInStep, TypeOK, Ends
    <2>3. Flights(e, s) \subseteq Sent(e)' /\ \A d \in Ends : Sent(d) \subseteq Sent(d)'
      BY <1>1, <1>4, <2>1 DEF Flights, Sent, TypeOK, Ends, HandshakeInv, StagesInStep
    <2>4. FlightsSent'
      BY <1>1, <2>3, MessageFields DEF HandshakeInv, FlightsSent, TypeOK, Peer, Ends
    <2>5. DoneAtTheEnd'
      BY <1>1 DEF HandshakeInv, DoneAtTheEnd, TypeOK
    <2>6. QED BY <2>2, <2>4, <2>5 DEF HandshakeInv
  <1>5. QED BY <1>3, <1>4 DEF Ends

LEMMA HandshakeStep ==
  ASSUME TypeOK, HandshakeInv, [Next]_vars
  PROVE  HandshakeInv'
  <1> USE DEF HandshakeInv, FlightsSent
  <1>1. ASSUME NEW e \in Ends, SetRemoteCredentials(e) PROVE HandshakeInv'
    BY <1>1, NothingNewIsSent DEF SetRemoteCredentials, dtlsVars
  <1>2. ASSUME NEW e \in Ends, SendBindingRequest(e) PROVE HandshakeInv'
    BY <1>2, NothingNewIsSent DEF SendBindingRequest, dtlsVars, Request
  <1>12. ASSUME NEW e \in Ends, AskedByOthers(e) PROVE HandshakeInv'
    BY <1>12, NothingNewIsSent DEF AskedByOthers, OnRequest, PlainRequest, dtlsVars
  <1>3. ASSUME NEW e \in Ends, DriveTimeout(e) PROVE HandshakeInv'
    BY <1>3, OwnFlight, NothingNewIsSent DEF DriveTimeout, TypeOK
  <1>4. ASSUME NEW e \in Ends, PendingSend(e) PROVE HandshakeInv'
    <2>1. Peer(Peer(e)) = e
      BY DEF Peer, Ends
    <2>2. QED BY <1>4, <2>1, NothingNewIsSent DEF PendingSend, Datagram, TypeOK
  <1>5. ASSUME NEW e \in Ends, Decrypt(e) PROVE HandshakeInv'
    <2>1. Flights(e, 4) \subseteq Sent(e)
      BY <1>5, OwnFlight DEF Decrypt, DoneAtTheEnd
    <2>2. QED BY <1>5, <2>1, NothingNewIsSent DEF Decrypt, TypeOK
  <1>6. ASSUME NEW m \in net, NEW left \in SUBSET net, OnRequest(m.to, m, left)
        PROVE  HandshakeInv'
    BY <1>6, NothingNewIsSent DEF OnRequest, dtlsVars, Response
  <1>7. ASSUME NEW m \in net, NEW left \in SUBSET net, OnResponse(m.to, m, left)
        PROVE  HandshakeInv'
    BY <1>7, NothingNewIsSent DEF OnResponse, dtlsVars
  <1>8. ASSUME NEW m \in net, NEW left \in SUBSET net, FeedData(m.to, m, left)
        PROVE  HandshakeInv'
    BY <1>8, NothingNewIsSent, MessageFields DEF FeedData, TypeOK
  <1>9. ASSUME NEW m \in net, Lose(m) PROVE HandshakeInv'
    BY <1>9, NothingNewIsSent DEF Lose, dtlsVars
  <1>10. CASE UNCHANGED vars
    BY <1>10, NothingNewIsSent DEF vars
  <1>11. QED
    BY <1>1, <1>2, <1>3, <1>4, <1>5, <1>6, <1>7, <1>8, <1>9, <1>10, <1>12, StageStep, NextCases

\* The ends finish in order: the client only after the server, the server only
\* after the client's last flight (drive_handshake).
THEOREM FinishingIsMutual == Spec => []DoneIsMutual
  <1>1. Init => HandshakeInv
    BY DEF Init, HandshakeInv, StagesInStep, FlightsSent, DoneAtTheEnd, Ends
  <1>2. TypeOK /\ HandshakeInv /\ [Next]_vars => HandshakeInv'
    BY HandshakeStep
  <1>3. HandshakeInv => DoneIsMutual
    BY DEF HandshakeInv, StagesInStep, DoneAtTheEnd, DoneIsMutual, Ends
  <1>4. QED BY <1>1, <1>2, <1>3, TypeCorrect, PTL DEF Spec
=============================================================================
