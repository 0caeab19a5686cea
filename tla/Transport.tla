------------------------------ MODULE Transport ------------------------------
(***************************************************************************)
(* Two endpoints that find each other with IceAgent (module03) and then    *)
(* shake hands with DtlsTransport (module04), over a network that loses,   *)
(* repeats and reorders datagrams.                                         *)
(*                                                                         *)
(* A datagram is a request or a response of ICE, or the set of the DTLS    *)
(* flights pending_send collected.  The handshake itself is OpenSSL's: of  *)
(* its four flights the client sends the odd and the server the even ones, *)
(* and stage[e] is the last flight e has sent, or 4 when it has finished.  *)
(* A flight that is in a BIO twice has the effect of one, so a BIO is the  *)
(* set of its flights.                                                     *)
(***************************************************************************)
EXTENDS Naturals

VARIABLES cred,        \* set_remote_credentials was called
          connected,   \* connected_ of the agent
          stage,       \* the handshake of ssl_
          done,        \* handshake_done_ of the transport
          rbio, wbio,  \* flights in the two BIOs
          net          \* datagrams on the way

vars == <<cred, connected, stage, done, rbio, wbio, net>>

Ends == {"client", "server"}
Peer(e) == IF e = "client" THEN "server" ELSE "client"

\* The ufrag of an end is its name; remote_ufrag_ is empty until it is set.
Remote(e) == IF cred[e] THEN Peer(e) ELSE ""

Request(e, username) == [to |-> Peer(e), kind |-> "request", body |-> username]
PlainRequest(e) == [to |-> e, kind |-> "request", body |-> <<>>]
Response(e) == [to |-> Peer(e), kind |-> "response", body |-> {}]
Datagram(e, flights) == [to |-> Peer(e), kind |-> "dtls", body |-> flights]

Init ==
  /\ cred = [e \in Ends |-> FALSE]
  /\ connected = [e \in Ends |-> FALSE]
  /\ stage = [e \in Ends |-> 0]
  /\ done = [e \in Ends |-> FALSE]
  /\ rbio = [e \in Ends |-> {}]
  /\ wbio = [e \in Ends |-> {}]
  /\ net = {}

iceVars == <<cred, connected>>
dtlsVars == <<stage, done, rbio, wbio>>

-----------------------------------------------------------------------------
\* set_remote_credentials, when the signaling brings them.
SetRemoteCredentials(e) ==
  /\ ~cred[e]
  /\ cred' = [cred EXCEPT ![e] = TRUE]
  /\ UNCHANGED <<connected, dtlsVars, net>>

\* Bound: of the requests of an end one is on the way at a time.
RequestOnTheWay(e) == \E m \in net : m.to = Peer(e) /\ m.kind = "request"

\* send_binding_request: the owner repeats it until it is connected, whether
\* it knows the credentials or not.
SendBindingRequest(e) ==
  /\ ~connected[e]
  /\ ~RequestOnTheWay(e)
  /\ net' = net \cup {Request(e, <<Remote(e), e>>)}
  /\ UNCHANGED <<iceVars, dtlsVars>>

\* Mutant: a request is answered whoever it names.
OnRequestAny(e, m, left) ==
  /\ m.kind = "request"
  /\ connected' = [connected EXCEPT ![e] = TRUE]
  /\ net' = left \cup {Response(e)}
  /\ UNCHANGED <<cred, dtlsVars>>

\* on_packet with a request; left are the datagrams the network still has.  A
\* request with another USERNAME than local:remote is dropped, but one without
\* USERNAME is answered; the response goes back to the program that sent it.
OnRequest(e, m, left) ==
  /\ m.kind = "request"
  /\ \/ /\ m.body = <<e, Remote(e)>>
        /\ connected' = [connected EXCEPT ![e] = TRUE]
        /\ net' = left \cup {Response(e)}
     \/ /\ m.body = <<>>
        /\ connected' = [connected EXCEPT ![e] = TRUE]
        /\ net' = left
     \/ /\ m.body \notin {<<>>, <<e, Remote(e)>>}
        /\ net' = left /\ UNCHANGED connected
  /\ UNCHANGED <<cred, dtlsVars>>

\* A binding request as RFC 5389 has it, without USERNAME, reaches e from a
\* program that is no agent.
AskedByOthers(e) == OnRequest(e, PlainRequest(e), net)

\* on_packet with a response: nothing in it is looked at.
OnResponse(e, m, left) ==
  /\ m.kind = "response"
  /\ connected' = [connected EXCEPT ![e] = TRUE]
  /\ net' = left
  /\ UNCHANGED <<cred, dtlsVars>>

\* feed_data
FeedData(e, m, left) ==
  /\ m.kind = "dtls"
  /\ rbio' = [rbio EXCEPT ![e] = @ \cup m.body]
  /\ net' = left
  /\ UNCHANGED <<iceVars, stage, done, wbio>>

Receive(m, left) ==
  OnRequest(m.to, m, left) \/ OnResponse(m.to, m, left) \/ FeedData(m.to, m, left)

\* The network delivers its last copy of a datagram, or one of several.
Deliver(m) == m \in net /\ Receive(m, net \ {m})
Repeat(m) == m \in net /\ Receive(m, net)
Lose(m) == m \in net /\ net' = net \ {m} /\ UNCHANGED <<iceVars, dtlsVars>>

-----------------------------------------------------------------------------
\* What SSL_do_handshake makes of the stage: the client begins by itself,
\* afterwards each end goes on when the flight it waits for is there.
StageAfter(e, flights) ==
  LET s == stage[e]
  IN IF e = "client" /\ s = 0 THEN 1
     ELSE IF s + 1 \notin flights \/ s = 4 THEN s
     ELSE IF s = 3 THEN 4 ELSE s + 2

\* The flight that is sent on reaching a stage.
Flights(e, s) == IF s = 0 \/ (e = "client" /\ s = 4) THEN {} ELSE {s}

\* Mutant: the handshake counts as done although it waits for more data.
DriveHandshakeHasty(e) ==
  /\ connected[e] /\ ~done[e]
  /\ LET s == StageAfter(e, rbio[e])
     IN /\ stage' = [stage EXCEPT ![e] = s]
        /\ done' = [done EXCEPT ![e] = (s > 1)]
        /\ wbio' = [wbio EXCEPT ![e] = @ \cup (IF s = stage[e] THEN {} ELSE Flights(e, s))]
  /\ rbio' = [rbio EXCEPT ![e] = {}]
  /\ UNCHANGED <<iceVars, net>>

\* drive_handshake, called by the owner once ICE is connected.
DriveHandshake(e) ==
  /\ connected[e] /\ ~done[e]
  /\ LET s == StageAfter(e, rbio[e])
     IN /\ stage' = [stage EXCEPT ![e] = s]
        /\ done' = [done EXCEPT ![e] = (s = 4)]
        /\ wbio' = [wbio EXCEPT ![e] = @ \cup (IF s = stage[e] THEN {} ELSE Flights(e, s))]
  /\ rbio' = [rbio EXCEPT ![e] = {}]
  /\ UNCHANGED <<iceVars, net>>

\* drive_timeout: the timer has expired and DTLSv1_handle_timeout sends the
\* last flight again.
DriveTimeout(e) ==
  /\ ~done[e]
  /\ stage[e] # 0
  /\ wbio' = [wbio EXCEPT ![e] = @ \cup Flights(e, stage[e])]
  /\ UNCHANGED <<iceVars, stage, done, rbio, net>>

\* pending_send, and the owner sends what it returns as one datagram.
PendingSend(e) ==
  /\ wbio[e] # {}
  /\ net' = net \cup {Datagram(e, wbio[e])}
  /\ wbio' = [wbio EXCEPT ![e] = {}]
  /\ UNCHANGED <<iceVars, stage, done, rbio>>

\* Mutant: only what the peer encrypted is read, handshake records are dropped.
DecryptDropping(e) ==
  /\ done[e]
  /\ rbio[e] # {}
  /\ rbio' = [rbio EXCEPT ![e] = {}]
  /\ UNCHANGED <<iceVars, stage, done, wbio, net>>

\* decrypt: SSL_read takes the flights of the BIO, and answers a repeated
\* third flight with the fourth.
Decrypt(e) ==
  /\ done[e]
  /\ rbio[e] # {}
  /\ wbio' = [wbio EXCEPT ![e] = @ \cup (IF 3 \in rbio[e] THEN Flights(e, 4) ELSE {})]
  /\ rbio' = [rbio EXCEPT ![e] = {}]
  /\ UNCHANGED <<iceVars, stage, done, net>>

Next ==
  \/ \E e \in Ends : \/ SetRemoteCredentials(e) \/ SendBindingRequest(e)
                     \/ AskedByOthers(e)
                     \/ DriveHandshake(e) \/ DriveTimeout(e)
                     \/ PendingSend(e) \/ Decrypt(e)
  \/ \E m \in net : Deliver(m) \/ Repeat(m) \/ Lose(m)

Spec == Init /\ [][Next]_vars

-----------------------------------------------------------------------------
Usernames == {<<r, e>> : r \in Ends \cup {""}, e \in Ends}

Messages ==
  UNION {{Request(e, u) : u \in Usernames} \cup {Response(e)}
         \cup {Datagram(e, f) : f \in SUBSET (1..4)} : e \in Ends}

\* A datagram of ICE for e, and one with the flight e waits for.
Checks(e, m) == m.to = e /\ m.kind # "dtls"
Advances(e, m) ==
  m.to = e /\ m.kind = "dtls" /\ ((IF done[e] THEN 3 ELSE stage[e] + 1) \in m.body)

\* The signaling brings the credentials, the owners repeat their requests, run
\* their loops and go on calling decrypt, and what is sent again and again
\* arrives.
Fairness ==
  /\ \A e \in Ends : /\ WF_vars(SetRemoteCredentials(e))
                     /\ WF_vars(SendBindingRequest(e))
                     /\ WF_vars(DriveHandshake(e))
                     /\ WF_vars(DriveTimeout(e))
                     /\ WF_vars(PendingSend(e))
                     /\ WF_vars(Decrypt(e))
                     /\ SF_vars(\E m \in net : Checks(e, m) /\ Deliver(m))
                     /\ SF_vars(\E m \in net : Advances(e, m) /\ Deliver(m))

FairSpec == Spec /\ Fairness

-----------------------------------------------------------------------------
TypeOK ==
  /\ cred \in [Ends -> BOOLEAN] /\ connected \in [Ends -> BOOLEAN]
  /\ stage \in [Ends -> 0..4] /\ done \in [Ends -> BOOLEAN]
  /\ rbio \in [Ends -> SUBSET (1..4)] /\ wbio \in [Ends -> SUBSET (1..4)]
  /\ net \subseteq Messages

\* Nothing an agent gets of its peer connects it before both were told the
\* other's credentials, whichever requests and responses come late, twice or
\* before them; only a request without USERNAME does, which says nothing of the
\* peer (IceAgent::on_packet; the README of module03 calls is_connected the
\* flag of a check in both directions).
ConnectedIsMutual ==
  [][\A e \in Ends : (connected'[e] /\ ~connected[e]) =>
       (cred["client"] /\ cred["server"]) \/ AskedByOthers(e)]_vars

\* When an end has finished, its peer has all it needs: the client finishes
\* after the server, and the server after the client sent its last flight, so
\* keys are exported only when both ends hold the same secret
\* (drive_handshake, export_srtp_keying_material).
DoneIsMutual ==
  /\ done["client"] => done["server"]
  /\ done["server"] => stage["client"] >= 3

\* Both ends finish, whichever datagrams are lost: a lost request is repeated,
\* a lost flight is sent again by the timer of its sender, and the last flight,
\* whose sender has finished and has no timer any more, by decrypt
\* (drive_timeout, decrypt).
HandshakeCompletes == <>(done["client"] /\ done["server"])
=============================================================================
