----------------------------- MODULE Signaling -----------------------------
(***************************************************************************)
(* The signaling server of module05: WebSocketServer and RoomManager wired *)
(* together by their callbacks, seen at their locks.  on_message_ calls    *)
(* RoomManager::join and sends the reply, on_disconnect_ calls leave, and  *)
(* notify_ is WebSocketServer::send.  The wiring is the application's; it  *)
(* follows the callbacks the two classes declare.                          *)
(*                                                                         *)
(* All callbacks run on the loop thread.  handle_client holds conns_mutex_ *)
(* while it calls on_message_, and not while it calls on_disconnect_; join *)
(* and leave hold mutex_ while they call notify_; send takes conns_mutex_. *)
(* Both are std::mutex: locking one again on the thread that owns it never *)
(* returns.                                                                *)
(***************************************************************************)
EXTENDS Naturals

CONSTANTS Conns, Rooms, NoRoom, NoConn

VARIABLES conns,      \* keys of conns_
          room,       \* conn_room_
          connsMutex, \* the loop thread owns conns_mutex_
          roomMutex,  \* the loop thread owns mutex_
          pc,         \* where the loop thread is
          cur,        \* the connection the callback is about
          todo        \* members the running join or leave has yet to notify

vars == <<conns, room, connsMutex, roomMutex, pc, cur, todo>>

Init ==
  /\ conns = {} /\ room = [c \in Conns |-> NoRoom]
  /\ connsMutex = FALSE /\ roomMutex = FALSE
  /\ pc = "poll" /\ cur = NoConn /\ todo = {}

Members(r) == {c \in Conns : room[c] = r}

\* accept_client: conns_[cfd] = ..., under the lock.
Connect(c) ==
  /\ pc = "poll" /\ c \notin conns
  /\ conns' = conns \cup {c}
  /\ UNCHANGED <<room, connsMutex, roomMutex, pc, cur, todo>>

\* handle_client: lock conns_mutex_, parse a text frame, call on_message_,
\* which finds a "join" and calls RoomManager::join: lock mutex_, move the
\* connection to its new room.
ReceiveJoin(c, r) ==
  /\ pc = "poll" /\ c \in conns
  /\ connsMutex' = TRUE /\ roomMutex' = TRUE
  /\ room' = [room EXCEPT ![c] = r]
  /\ todo' = Members(r) \ {c} /\ cur' = c /\ pc' = "join"
  /\ UNCHANGED conns

\* handle_client: erase the entry, then, unlocked, call on_disconnect_,
\* which calls RoomManager::leave: lock mutex_, forget the connection.
Disconnect(c) ==
  /\ pc = "poll" /\ c \in conns
  /\ conns' = conns \ {c}
  /\ roomMutex' = (room[c] # NoRoom)
  /\ room' = [room EXCEPT ![c] = NoRoom]
  /\ todo' = IF room[c] = NoRoom THEN {} ELSE Members(room[c]) \ {c}
  /\ cur' = c /\ pc' = "leave"
  /\ UNCHANGED connsMutex

\* join or leave: notify_(peer, msg), that is send(peer, msg).
Notify(p) ==
  /\ pc \in {"join", "leave"} /\ p \in todo
  /\ ~connsMutex
  /\ todo' = todo \ {p}
  /\ UNCHANGED <<conns, room, connsMutex, roomMutex, pc, cur>>

\* join returns room_info, unlocking mutex_.
JoinReturns ==
  /\ pc = "join" /\ todo = {}
  /\ roomMutex' = FALSE /\ pc' = "reply"
  /\ UNCHANGED <<conns, room, connsMutex, cur, todo>>

\* on_message_ sends the room_info: send(from, reply).
SendRoomInfo ==
  /\ pc = "reply"
  /\ ~connsMutex
  /\ pc' = "return"
  /\ UNCHANGED <<conns, room, connsMutex, roomMutex, cur, todo>>

\* on_message_ has returned; handle_client unlocks conns_mutex_.
MessageDone ==
  /\ pc = "return"
  /\ connsMutex' = FALSE /\ pc' = "poll" /\ cur' = NoConn
  /\ UNCHANGED <<conns, room, roomMutex, todo>>

\* leave and on_disconnect_ have returned.
DisconnectDone ==
  /\ pc = "leave" /\ todo = {}
  /\ roomMutex' = FALSE /\ pc' = "poll" /\ cur' = NoConn
  /\ UNCHANGED <<conns, room, connsMutex, todo>>

LoopStep == (\E p \in Conns : Notify(p)) \/ JoinReturns \/ SendRoomInfo \/ MessageDone \/ DisconnectDone

Next ==
  \/ \E c \in Conns : Connect(c) \/ Disconnect(c) \/ \E r \in Rooms : ReceiveJoin(c, r)
  \/ LoopStep

\* The loop thread is scheduled: a callback that can go on goes on.
Spec == Init /\ [][Next]_vars /\ WF_vars(LoopStep)

-----------------------------------------------------------------------------
\* A client that asks for a room gets its room_info: "RoomManager decides
\* ... and sends data back through notify_, which calls send()".
JoinIsAnswered == pc = "join" ~> pc = "return"
=============================================================================
