---------------------------- MODULE RoomManager ----------------------------
(***************************************************************************)
(* RoomManager of module05: who is in which room, and what it tells whom.  *)
(*                                                                         *)
(* join, leave and the broadcasting relay hold mutex_ from their first to  *)
(* their last statement, notify_ calls included, so each is one step.      *)
(* What join returns, the room_info reply, is sent by its caller after the *)
(* lock is released: a step of its own, SendReply, between which other     *)
(* threads may call the class.  The calls made for one connection follow   *)
(* each other.  notify_ is WebSocketServer::send: it writes to a TCP       *)
(* socket, so a client reads what it is sent in the order of the steps.    *)
(*                                                                         *)
(* roster is the client's side, which is not in the repository: the        *)
(* <<room, peer>> pairs it was told of by room_info and peer_joined, less  *)
(* those peer_left took back.  set_notify was called before the first join. *)
(***************************************************************************)
EXTENDS Naturals, FiniteSets

CONSTANTS Conns,     \* connection ids (file descriptors)
          Rooms,     \* room ids
          NoRoom,    \* connection not in conn_room_
          NoSender   \* nothing was relayed to this connection

ASSUME NoRoomAssumption == NoRoom \notin Rooms
ASSUME NoSenderAssumption == NoSender \notin Conns

VARIABLES members,   \* rooms_[r], {} for a room that has no entry
          roomKeys,  \* the keys of rooms_
          connRoom,  \* conn_room_, NoRoom for a connection without entry
          pending,   \* connections whose room_info is not yet sent
          reply,     \* the peers listed in that room_info
          roster,    \* what each client was told
          sender     \* sender of the message relayed last to each client

vars == <<members, roomKeys, connRoom, pending, reply, roster, sender>>

TypeOK ==
  /\ members \in [Rooms -> SUBSET Conns]
  /\ roomKeys \in SUBSET Rooms
  /\ connRoom \in [Conns -> Rooms \cup {NoRoom}]
  /\ pending \in SUBSET Conns
  /\ reply \in [Conns -> SUBSET Conns]
  /\ roster \in [Conns -> SUBSET (Rooms \X Conns)]
  /\ sender \in [Conns -> Conns \cup {NoSender}]

Init ==
  /\ members = [r \in Rooms |-> {}]
  /\ roomKeys = {}
  /\ connRoom = [c \in Conns |-> NoRoom]
  /\ pending = {}
  /\ reply = [c \in Conns |-> {}]
  /\ roster = [c \in Conns |-> {}]
  /\ sender = [c \in Conns |-> NoSender]

-----------------------------------------------------------------------------
\* Mutant: only the new room's set is updated.
MembersWithoutErase(c, r) == [members EXCEPT ![r] = @ \cup {c}]

\* rooms_ once c has left the room it is in and entered r.
MembersAfterJoin(c, r) ==
  [q \in Rooms |-> IF q = r THEN members[q] \cup {c}
                   ELSE IF q = connRoom[c] THEN members[q] \ {c}
                   ELSE members[q]]

\* The room c leaves loses its entry when nobody is left, then r gets one.
KeysAfterJoin(c, r) ==
  (roomKeys \ {q \in Rooms : q = connRoom[c] /\ members[q] \ {c} = {}}) \cup {r}

\* Mutant: join tells the newcomer, not the members.
RosterSwapped(c, r) ==
  [roster EXCEPT ![c] = {<<r, p>> : p \in members[r] \ {c}}]

\* peer_joined to the members of r.  The client of c, which asked for a room,
\* starts its list anew.
RosterAfterJoin(c, r) ==
  [p \in Conns |-> IF p = c THEN {}
                   ELSE IF p \in members[r] THEN roster[p] \cup {<<r, c>>}
                   ELSE roster[p]]

\* join(conn_id, room_id)
Join(c, r) ==
  /\ c \notin pending
  /\ members' = MembersAfterJoin(c, r)
  /\ roomKeys' = KeysAfterJoin(c, r)
  /\ connRoom' = [connRoom EXCEPT ![c] = r]
  /\ pending' = pending \cup {c}
  /\ reply' = [reply EXCEPT ![c] = members[r] \ {c}]
  /\ roster' = RosterAfterJoin(c, r)
  /\ UNCHANGED sender

\* The caller of join sends the room_info it got to the connection.
SendReply(c) ==
  /\ c \in pending
  /\ pending' = pending \ {c}
  /\ reply' = [reply EXCEPT ![c] = {}]
  /\ roster' = [roster EXCEPT ![c] = @ \cup {<<connRoom[c], p>> : p \in reply[c]}]
  /\ UNCHANGED <<members, roomKeys, connRoom, sender>>

\* leave(conn_id) of a connection that is in no room: early return.
LeaveNoRoom(c) ==
  /\ c \notin pending
  /\ connRoom[c] = NoRoom
  /\ sender' = [sender EXCEPT ![c] = NoSender]
  /\ UNCHANGED <<members, roomKeys, connRoom, pending, reply, roster>>

\* Mutant: leave does not tell the members that stay.
LeaveSilently(c) ==
  /\ c \notin pending
  /\ connRoom[c] # NoRoom
  /\ members' = [members EXCEPT ![connRoom[c]] = @ \ {c}]
  /\ roomKeys' = IF members[connRoom[c]] = {c} THEN roomKeys \ {connRoom[c]} ELSE roomKeys
  /\ connRoom' = [connRoom EXCEPT ![c] = NoRoom]
  /\ roster' = [roster EXCEPT ![c] = {}]
  /\ sender' = [sender EXCEPT ![c] = NoSender]
  /\ UNCHANGED <<pending, reply>>

\* leave(conn_id), called when the connection is gone: peer_left to the
\* members that stay, and the room's entry is erased with its last member.
\* The id may be given to the next client, whose roster and inbox are empty.
Leave(c) ==
  LET r == connRoom[c] IN
  /\ c \notin pending
  /\ r # NoRoom
  /\ connRoom' = [connRoom EXCEPT ![c] = NoRoom]
  /\ members' = [members EXCEPT ![r] = @ \ {c}]
  /\ roster' = [p \in Conns |-> IF p = c THEN {}
                                ELSE IF p \in members[r] THEN roster[p] \ {<<r, c>>}
                                ELSE roster[p]]
  /\ roomKeys' = IF members[r] \ {c} = {} THEN roomKeys \ {r} ELSE roomKeys
  /\ sender' = [sender EXCEPT ![c] = NoSender]
  /\ UNCHANGED <<pending, reply>>

\* relay of a message with a "to" field: no lock, no look at the rooms.
RelayTo(c, to) ==
  /\ c \notin pending
  /\ sender' = [sender EXCEPT ![to] = c]
  /\ UNCHANGED <<members, roomKeys, connRoom, pending, reply, roster>>

\* Mutant: the broadcast goes to every room.
RelayToAll(c) ==
  /\ c \notin pending
  /\ connRoom[c] # NoRoom
  /\ sender' = [p \in Conns |-> IF p = c THEN sender[p] ELSE c]
  /\ UNCHANGED <<members, roomKeys, connRoom, pending, reply, roster>>

\* relay of a message without "to": to the other members of the sender's
\* room; a sender in no room is ignored (as is a text that is not JSON).
RelayBroadcast(c) ==
  /\ c \notin pending
  /\ connRoom[c] # NoRoom
  /\ sender' = [p \in Conns |-> IF p \in members[connRoom[c]] \ {c} THEN c ELSE sender[p]]
  /\ UNCHANGED <<members, roomKeys, connRoom, pending, reply, roster>>

Next ==
  \E c \in Conns :
    \/ \E r \in Rooms : Join(c, r)
    \/ SendReply(c)
    \/ LeaveNoRoom(c)
    \/ Leave(c)
    \/ \E to \in Conns : RelayTo(c, to)
    \/ RelayBroadcast(c)

\* Any number of threads call the class, as its mutex allows.
Spec == Init /\ [][Next]_vars

\* The epoll thread of WebSocketServer is the only caller: the reply of a
\* join is sent before the next callback.
Serial == pending \cap pending' = {}
SerialSpec == Init /\ [][Next /\ Serial]_vars

\* Moreover a client that wants another room reconnects (join, then leave
\* on disconnect); asking again for the room it is in remains possible.
StaysPut == \A c \in Conns : connRoom[c] # NoRoom => connRoom'[c] \in {connRoom[c], NoRoom}
OneRoomSpec == Init /\ [][Next /\ Serial /\ StaysPut]_vars

-----------------------------------------------------------------------------
(* Properties.                                                             *)

\* rooms_ and conn_room_ describe the same membership, and rooms_ has an
\* entry for exactly the rooms somebody is in: no join, switch of room or
\* leave loses a member, leaves one behind, or leaks an empty room.
IndexConsistent ==
  /\ \A c \in Conns, r \in Rooms : c \in members[r] <=> connRoom[c] = r
  /\ \A r \in Rooms : r \in roomKeys <=> members[r] # {}

\* Nobody meets a stranger: every other member of a client's room was
\* announced to it, or is in the room_info about to be sent to it, however
\* joins, switches and disconnects of several threads interleave.
MembersKnown ==
  \A c \in Conns, p \in Conns :
    (connRoom[c] # NoRoom /\ p # c /\ connRoom[p] = connRoom[c]) =>
      \/ <<connRoom[c], p>> \in roster[c]
      \/ c \in pending /\ p \in reply[c]

\* A room_info waits only for a connection that is in a room, and lists
\* only others.
RepliesPending == \A c \in pending : connRoom[c] # NoRoom /\ c \notin reply[c]

\* The inductive invariant of the theorems in RoomManagerProofs.
IndInv == TypeOK /\ IndexConsistent /\ MembersKnown /\ RepliesPending

\* A broadcast offer, answer or candidate reaches only clients in the
\* sender's room, and each of them has been told of the sender (or is about
\* to be): the receiver can put the injected "from" into the "to" of its answer.
BroadcastFromKnownPeer ==
  [][\A c \in Conns : RelayBroadcast(c) =>
       \A p \in Conns : sender'[p] # sender[p] =>
         \/ <<connRoom[p], c>> \in roster[p]
         \/ p \in pending /\ c \in reply[p]]_vars

\* The other members of c's room.
Fellows(c) == {p \in Conns \ {c} : connRoom[c] # NoRoom /\ connRoom[p] = connRoom[c]}

\* With one calling thread and clients that do not switch rooms, what each
\* client was told is exactly who is in its room: no missing and no ghost
\* peer once the reply of its join is out.
RosterExact ==
  \A c \in Conns \ pending : roster[c] = {<<connRoom[c], p>> : p \in Fellows(c)}
=============================================================================
