----------------------------- MODULE CalmRooms -----------------------------
(***************************************************************************)
(* RoomManager with a record of whether the behaviour was one of           *)
(* OneRoomSpec so far: what holds with one calling thread and clients that *)
(* do not switch rooms holds for the calm beginning of every behaviour.    *)
(***************************************************************************)
EXTENDS RoomManager

\* One thread called the class, and no client switched rooms.
VARIABLE calm

CalmInit == Init /\ calm = TRUE
CalmNext == Next /\ calm' = (calm /\ Serial /\ StaysPut)
CalmSpec == CalmInit /\ [][CalmNext]_<<vars, calm>>

\* As long as the epoll thread is the only caller and clients reconnect to
\* change rooms, what each client was told is exactly who is in its room
\* (join, leave and their notifications).
RosterExactWhileCalm == calm => RosterExact
=============================================================================
