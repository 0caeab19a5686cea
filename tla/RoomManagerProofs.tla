------------------------- MODULE RoomManagerProofs -------------------------
(***************************************************************************)
(* Theorems about RoomManager and CalmRooms, for any sets of connections   *)
(* and rooms.                                                              *)
(***************************************************************************)
EXTENDS CalmRooms, TLAPS

\* join keeps rooms_ and conn_room_ inverse of each other, and its keys exact.
LEMMA JoinKeepsIndexes ==
  ASSUME IndInv, NEW c \in Conns, NEW r \in Rooms, Join(c, r)
  PROVE  IndexConsistent'
<1> USE NoRoomAssumption
<1>1. \A q \in Rooms : members'[q] = IF q = r THEN members[q] \cup {c}
                       ELSE IF q = connRoom[c] THEN members[q] \ {c} ELSE members[q]
  BY DEF Join, MembersAfterJoin
<1>2. \A d \in Conns : connRoom'[d] = IF d = c THEN r ELSE connRoom[d]
  BY DEF Join, IndInv, TypeOK
<1>3. \A d \in Conns, q \in Rooms : d \in members'[q] <=> connRoom'[d] = q
  <2> TAKE d \in Conns, q \in Rooms
  <2>1. d \in members[q] <=> connRoom[d] = q
    BY DEF IndInv, IndexConsistent
  <2>2. CASE d = c
    BY <2>1, <2>2, <1>1, <1>2
  <2>3. CASE d # c
    <3>1. d \in members'[q] <=> d \in members[q]
      BY <2>3, <1>1
    <3> QED BY <3>1, <2>1, <2>3, <1>2
  <2> QED BY <2>2, <2>3
<1>4. \A q \in Rooms : q \in roomKeys' <=> members'[q] # {}
  <2> TAKE q \in Rooms
  <2>1. q \in roomKeys' <=> \/ q = r
                            \/ q \in roomKeys /\ ~(q = connRoom[c] /\ members[q] \ {c} = {})
    BY DEF Join, KeysAfterJoin
  <2>2. CASE q = r
    BY <2>1, <2>2, <1>1
  <2>3. CASE q # r /\ q = connRoom[c]
    <3>1. members'[q] = members[q] \ {c}
      BY <2>3, <1>1
    <3>2. c \in members[q]
      BY <2>3 DEF IndInv, IndexConsistent
    <3> QED BY <3>1, <3>2, <2>1, <2>3 DEF IndInv, IndexConsistent
  <2>4. CASE q # r /\ q # connRoom[c]
    BY <2>1, <2>4, <1>1 DEF IndInv, IndexConsistent
  <2> QED BY <2>2, <2>3, <2>4
<1> QED BY <1>3, <1>4 DEF IndexConsistent

\* join announces the newcomer to the room and the room to the newcomer.
LEMMA JoinKeepsKnown ==
  ASSUME IndInv, NEW c \in Conns, NEW r \in Rooms, Join(c, r)
  PROVE  MembersKnown'
<1> USE NoRoomAssumption
<1> SUFFICES ASSUME NEW d \in Conns, NEW p \in Conns,
                    connRoom'[d] # NoRoom, p # d, connRoom'[p] = connRoom'[d]
             PROVE  \/ <<connRoom'[d], p>> \in roster'[d]
                    \/ d \in pending' /\ p \in reply'[d]
  BY DEF MembersKnown
<1>1. \A e \in Conns : connRoom'[e] = IF e = c THEN r ELSE connRoom[e]
  BY DEF Join, IndInv, TypeOK
<1>2. \A e \in Conns : roster'[e] = IF e = c THEN {}
                        ELSE IF e \in members[r] THEN roster[e] \cup {<<r, c>>} ELSE roster[e]
  BY DEF Join, RosterAfterJoin
<1>3. pending' = pending \cup {c} /\ (\A e \in Conns : reply'[e] = IF e = c THEN members[r] \ {c} ELSE reply[e])
  BY DEF Join, IndInv, TypeOK
<1>4. \A e \in Conns : e \in members[r] <=> connRoom[e] = r
  BY DEF IndInv, IndexConsistent
<1>5. CASE d = c
  BY <1>1, <1>3, <1>4, <1>5
<1>6. CASE d # c /\ p = c
  BY <1>1, <1>2, <1>4, <1>6
<1>7. CASE d # c /\ p # c
  <2>1. connRoom[d] # NoRoom /\ connRoom[p] = connRoom[d] /\ connRoom'[d] = connRoom[d]
    BY <1>1, <1>7
  <2>2. \/ <<connRoom[d], p>> \in roster[d]
        \/ d \in pending /\ p \in reply[d]
    BY <2>1 DEF IndInv, MembersKnown
  <2> QED BY <2>1, <2>2, <1>2, <1>3, <1>7
<1> QED BY <1>5, <1>6, <1>7

\* leave removes the member from both indexes and erases an empty room.
LEMMA LeaveKeepsIndexes ==
  ASSUME IndInv, NEW c \in Conns, Leave(c)
  PROVE  IndexConsistent'
<1> USE NoRoomAssumption
<1> DEFINE r == connRoom[c]
<1>0. r \in Rooms
  BY DEF Leave, IndInv, TypeOK
<1>1. \A q \in Rooms : members'[q] = IF q = r THEN members[q] \ {c} ELSE members[q]
  BY DEF Leave, IndInv, TypeOK
<1>2. \A d \in Conns : connRoom'[d] = IF d = c THEN NoRoom ELSE connRoom[d]
  BY DEF Leave, IndInv, TypeOK
<1>3. \A d \in Conns, q \in Rooms : d \in members'[q] <=> connRoom'[d] = q
  <2> TAKE d \in Conns, q \in Rooms
  <2>1. d \in members[q] <=> connRoom[d] = q
    BY DEF IndInv, IndexConsistent
  <2>2. CASE d = c
    BY <2>1, <2>2, <1>0, <1>1, <1>2
  <2>3. CASE d # c
    <3>1. d \in members'[q] <=> d \in members[q]
      BY <2>3, <1>1
    <3> QED BY <3>1, <2>1, <2>3, <1>2
  <2> QED BY <2>2, <2>3
<1>4. \A q \in Rooms : q \in roomKeys' <=> members'[q] # {}
  <2> TAKE q \in Rooms
  <2>1. roomKeys' = IF members[r] \ {c} = {} THEN roomKeys \ {r} ELSE roomKeys
    BY DEF Leave
  <2>2. q \in roomKeys <=> members[q] # {}
    BY DEF IndInv, IndexConsistent
  <2>3. c \in members[r]
    BY <1>0 DEF IndInv, IndexConsistent
  <2> QED BY <2>1, <2>2, <2>3, <1>0, <1>1
<1> QED BY <1>3, <1>4 DEF IndexConsistent

\* leave only takes the leaver off the lists of those that stay.
LEMMA LeaveKeepsKnown ==
  ASSUME IndInv, NEW c \in Conns, Leave(c)
  PROVE  MembersKnown'
<1> USE NoRoomAssumption
<1> SUFFICES ASSUME NEW d \in Conns, NEW p \in Conns,
                    connRoom'[d] # NoRoom, p # d, connRoom'[p] = connRoom'[d]
             PROVE  \/ <<connRoom'[d], p>> \in roster'[d]
                    \/ d \in pending' /\ p \in reply'[d]
  BY DEF MembersKnown
<1>1. \A e \in Conns : connRoom'[e] = IF e = c THEN NoRoom ELSE connRoom[e]
  BY DEF Leave, IndInv, TypeOK
<1>2. d # c /\ p # c
  BY <1>1
<1>3. connRoom'[d] = connRoom[d] /\ connRoom'[p] = connRoom[p]
  BY <1>1, <1>2
<1>4. \/ <<connRoom[d], p>> \in roster[d]
      \/ d \in pending /\ p \in reply[d]
  BY <1>3 DEF IndInv, MembersKnown
<1>5. roster'[d] = roster[d] \/ roster'[d] = roster[d] \ {<<connRoom[c], c>>}
  BY <1>2 DEF Leave
<1>6. pending' = pending /\ reply' = reply
  BY DEF Leave
<1>7. <<connRoom[d], p>> # <<connRoom[c], c>>
  BY <1>2
<1> QED BY <1>3, <1>4, <1>5, <1>6, <1>7

\* Sending the reply moves its peers from the reply to the roster.
LEMMA ReplyKeepsKnown ==
  ASSUME IndInv, NEW c \in Conns, SendReply(c)
  PROVE  MembersKnown'
<1> SUFFICES ASSUME NEW d \in Conns, NEW p \in Conns,
                    connRoom[d] # NoRoom, p # d, connRoom[p] = connRoom[d]
             PROVE  \/ <<connRoom[d], p>> \in roster'[d]
                    \/ d \in pending' /\ p \in reply'[d]
  BY DEF MembersKnown, SendReply
<1>1. \/ <<connRoom[d], p>> \in roster[d]
      \/ d \in pending /\ p \in reply[d]
  BY DEF IndInv, MembersKnown
<1>2. CASE d = c
  <2>1. roster'[c] = roster[c] \cup {<<connRoom[c], q>> : q \in reply[c]}
    BY DEF SendReply, IndInv, TypeOK
  <2> QED BY <1>1, <1>2, <2>1
<1>3. CASE d # c
  <2>1. roster'[d] = roster[d] /\ reply'[d] = reply[d] /\ pending' = pending \ {c}
    BY <1>3 DEF SendReply, IndInv, TypeOK
  <2> QED BY <1>1, <1>3, <2>1
<1> QED BY <1>2, <1>3

\* Every step keeps the types.
LEMMA TypesKept ==
  ASSUME IndInv, [Next]_vars
  PROVE  TypeOK'
<1> USE NoRoomAssumption DEF IndInv, TypeOK
<1>1. ASSUME NEW c \in Conns, NEW r \in Rooms, Join(c, r) PROVE TypeOK'
  <2>1. <<r, c>> \in Rooms \X Conns
    OBVIOUS
  <2> QED BY <1>1, <2>1 DEF Join, MembersAfterJoin, KeysAfterJoin, RosterAfterJoin
<1>2. ASSUME NEW c \in Conns, SendReply(c) PROVE TypeOK'
  <2>1. connRoom[c] \in Rooms
    BY <1>2 DEF SendReply, RepliesPending
  <2>2. {<<connRoom[c], p>> : p \in reply[c]} \in SUBSET (Rooms \X Conns)
    BY <2>1
  <2> QED BY <1>2, <2>2 DEF SendReply
<1>3. ASSUME NEW c \in Conns, LeaveNoRoom(c) PROVE TypeOK'
  BY <1>3 DEF LeaveNoRoom
<1>4. ASSUME NEW c \in Conns, Leave(c) PROVE TypeOK'
  BY <1>4 DEF Leave
<1>5. ASSUME NEW c \in Conns, NEW to \in Conns, RelayTo(c, to) PROVE TypeOK'
  BY <1>5 DEF RelayTo
<1>6. ASSUME NEW c \in Conns, RelayBroadcast(c) PROVE TypeOK'
  BY <1>6 DEF RelayBroadcast
<1>7. CASE UNCHANGED vars
  BY <1>7 DEF vars
<1> QED BY <1>1, <1>2, <1>3, <1>4, <1>5, <1>6, <1>7 DEF Next

\* Every step keeps what the pending replies say.
LEMMA RepliesKept ==
  ASSUME IndInv, [Next]_vars
  PROVE  RepliesPending'
<1> USE NoRoomAssumption DEF IndInv, TypeOK, RepliesPending
<1>1. ASSUME NEW c \in Conns, NEW r \in Rooms, Join(c, r) PROVE RepliesPending'
  BY <1>1 DEF Join
<1>2. ASSUME NEW c \in Conns, SendReply(c) PROVE RepliesPending'
  BY <1>2 DEF SendReply
<1>3. ASSUME NEW c \in Conns, LeaveNoRoom(c) PROVE RepliesPending'
  BY <1>3 DEF LeaveNoRoom
<1>4. ASSUME NEW c \in Conns, Leave(c) PROVE RepliesPending'
  BY <1>4 DEF Leave
<1>5. ASSUME NEW c \in Conns, NEW to \in Conns, RelayTo(c, to) PROVE RepliesPending'
  BY <1>5 DEF RelayTo
<1>6. ASSUME NEW c \in Conns, RelayBroadcast(c) PROVE RepliesPending'
  BY <1>6 DEF RelayBroadcast
<1>7. CASE UNCHANGED vars
  BY <1>7 DEF vars
<1> QED BY <1>1, <1>2, <1>3, <1>4, <1>5, <1>6, <1>7 DEF Next

\* A step that leaves membership, replies and rosters alone keeps the rest.
LEMMA QuietStep ==
  ASSUME IndInv, UNCHANGED <<members, roomKeys, connRoom, pending, reply, roster>>
  PROVE  IndexConsistent' /\ MembersKnown'
BY DEF IndInv, IndexConsistent, MembersKnown

\* IndInv is inductive.
LEMMA StepKeepsIndInv ==
  ASSUME IndInv, [Next]_vars
  PROVE  IndInv'
<1>1. TypeOK' /\ RepliesPending'
  BY TypesKept, RepliesKept
<1>2. IndexConsistent' /\ MembersKnown'
  <2>1. ASSUME NEW c \in Conns, NEW r \in Rooms, Join(c, r)
        PROVE  IndexConsistent' /\ MembersKnown'
    BY <2>1, JoinKeepsIndexes, JoinKeepsKnown
  <2>2. ASSUME NEW c \in Conns, SendReply(c)
        PROVE  IndexConsistent' /\ MembersKnown'
    <3>1. IndexConsistent'
      BY <2>2 DEF SendReply, IndInv, IndexConsistent
    <3> QED BY <2>2, <3>1, ReplyKeepsKnown
  <2>3. ASSUME NEW c \in Conns, Leave(c)
        PROVE  IndexConsistent' /\ MembersKnown'
    BY <2>3, LeaveKeepsIndexes, LeaveKeepsKnown
  <2>4. ASSUME NEW c \in Conns,
               LeaveNoRoom(c) \/ (\E to \in Conns : RelayTo(c, to)) \/ RelayBroadcast(c)
        PROVE  IndexConsistent' /\ MembersKnown'
    BY <2>4, QuietStep DEF LeaveNoRoom, RelayTo, RelayBroadcast
  <2>5. CASE UNCHANGED vars
    BY <2>5, QuietStep DEF vars
  <2> QED BY <2>1, <2>2, <2>3, <2>4, <2>5 DEF Next
<1> QED BY <1>1, <1>2 DEF IndInv

\* Nobody is anywhere at the start.
LEMMA InitIndInv == Init => IndInv
BY NoRoomAssumption, NoSenderAssumption DEF Init, IndInv, TypeOK, IndexConsistent, MembersKnown, RepliesPending

\* join, leave and relay, called by any threads in any order, keep the
\* inductive invariant.
THEOREM IndInvHolds == Spec => []IndInv
<1>1. IndInv /\ [Next]_vars => IndInv'
  BY StepKeepsIndInv
<1> QED BY <1>1, InitIndInv, PTL DEF Spec

\* rooms_ and conn_room_ agree and no empty room is kept.
THEOREM IndexesAgree == Spec => []IndexConsistent
<1>1. IndInv => IndexConsistent
  BY DEF IndInv
<1> QED BY <1>1, IndInvHolds, PTL

\* No client shares a room with a connection it was not told of.
THEOREM NoStrangers == Spec => []MembersKnown
<1>1. IndInv => MembersKnown
  BY DEF IndInv
<1> QED BY <1>1, IndInvHolds, PTL

\* A relayed broadcast comes from a member the receiver was told of.
THEOREM BroadcastsAreAnswerable == Spec => BroadcastFromKnownPeer
<1>1. ASSUME IndInv, [Next]_vars
      PROVE  [\A c \in Conns : RelayBroadcast(c) =>
               \A p \in Conns : sender'[p] # sender[p] =>
                 \/ <<connRoom[p], c>> \in roster[p]
                 \/ p \in pending /\ c \in reply[p]]_vars
  <2> SUFFICES ASSUME NEW c \in Conns, RelayBroadcast(c),
                      NEW p \in Conns, sender'[p] # sender[p]
               PROVE  \/ <<connRoom[p], c>> \in roster[p]
                      \/ p \in pending /\ c \in reply[p]
    OBVIOUS
  <2>1. connRoom[c] \in Rooms
    BY <1>1 DEF RelayBroadcast, IndInv, TypeOK
  <2>2. p \in members[connRoom[c]] \ {c}
    BY DEF RelayBroadcast
  <2>3. connRoom[p] = connRoom[c] /\ p # c
    BY <1>1, <2>1, <2>2 DEF IndInv, IndexConsistent
  <2> QED BY <1>1, <2>1, <2>3, NoRoomAssumption DEF IndInv, MembersKnown
<1> QED BY <1>1, IndInvHolds, PTL DEF Spec, BroadcastFromKnownPeer

-----------------------------------------------------------------------------
(* One calling thread, clients that stay in their room.                    *)

\* While a reply waits, the roster is still empty and the reply is exact.
ReplyExact == \A c \in pending : roster[c] = {} /\ reply[c] = Fellows(c)

\* The strengthening of RosterExact that is inductive for OneRoomSpec.
ExactInv == IndInv /\ RosterExact /\ ReplyExact

\* join of a room by a connection in no room, or again of its own room.
LEMMA JoinKeepsExact ==
  ASSUME ExactInv, NEW c \in Conns, NEW r \in Rooms, Join(c, r), Serial, StaysPut
  PROVE  RosterExact' /\ ReplyExact'
<1> USE NoRoomAssumption
<1>1. \A e \in Conns : connRoom'[e] = IF e = c THEN r ELSE connRoom[e]
  BY DEF Join, ExactInv, IndInv, TypeOK
<1>2. \A e \in Conns : roster'[e] = IF e = c THEN {}
                        ELSE IF e \in members[r] THEN roster[e] \cup {<<r, c>>} ELSE roster[e]
  BY DEF Join, RosterAfterJoin
<1>3. pending = {} /\ pending' = {c}
  BY DEF Join, Serial, ExactInv, IndInv, TypeOK
<1>4. \A e \in Conns : e \in members[r] <=> connRoom[e] = r
  BY DEF ExactInv, IndInv, IndexConsistent
<1>5. connRoom[c] \in {r, NoRoom}
  BY <1>1 DEF StaysPut
<1>6. ReplyExact'
  <2>1. reply'[c] = members[r] \ {c}
    BY DEF Join, ExactInv, IndInv, TypeOK
  <2>2. Fellows(c)' = {p \in Conns \ {c} : connRoom[p] = r}
    BY <1>1 DEF Fellows
  <2>3. members[r] \in SUBSET Conns
    BY DEF ExactInv, IndInv, TypeOK
  <2>4. reply'[c] = Fellows(c)'
    BY <2>1, <2>2, <2>3, <1>4
  <2> QED BY <2>4, <1>2, <1>3 DEF ReplyExact
<1>7. RosterExact'
  <2> SUFFICES ASSUME NEW d \in Conns, d # c
               PROVE  roster'[d] = {<<connRoom'[d], p>> : p \in Fellows(d)'}
    BY <1>3 DEF RosterExact
  <2>1. roster[d] = {<<connRoom[d], p>> : p \in Fellows(d)}
    BY <1>3 DEF ExactInv, RosterExact
  <2>2. connRoom'[d] = connRoom[d]
    BY <1>1
  <2>3. CASE connRoom[d] = r
    <3>1. Fellows(d)' = Fellows(d) \cup {c}
      BY <2>2, <2>3, <1>1 DEF Fellows
    <3>2. roster'[d] = roster[d] \cup {<<r, c>>}
      BY <2>3, <1>2, <1>4
    <3> QED BY <3>1, <3>2, <2>1, <2>2, <2>3
  <2>4. CASE connRoom[d] # r
    <3>1. Fellows(d)' = Fellows(d)
      BY <2>2, <2>4, <1>1, <1>5 DEF Fellows
    <3>2. roster'[d] = roster[d]
      BY <2>4, <1>2, <1>4
    <3> QED BY <3>1, <3>2, <2>1, <2>2
  <2> QED BY <2>3, <2>4
<1> QED BY <1>6, <1>7

\* leave takes the leaver off exactly the lists it was on.
LEMMA LeaveKeepsExact ==
  ASSUME ExactInv, NEW c \in Conns, Leave(c), Serial
  PROVE  RosterExact' /\ ReplyExact'
<1> USE NoRoomAssumption
<1> DEFINE r == connRoom[c]
<1>0. r \in Rooms
  BY DEF Leave, ExactInv, IndInv, TypeOK
<1>1. \A e \in Conns : connRoom'[e] = IF e = c THEN NoRoom ELSE connRoom[e]
  BY DEF Leave, ExactInv, IndInv, TypeOK
<1>2. \A e \in Conns : roster'[e] = IF e = c THEN {}
                        ELSE IF e \in members[r] THEN roster[e] \ {<<r, c>>} ELSE roster[e]
  BY DEF Leave
<1>3. pending = {} /\ pending' = {}
  BY DEF Leave, Serial
<1>4. \A e \in Conns : e \in members[r] <=> connRoom[e] = r
  BY <1>0 DEF ExactInv, IndInv, IndexConsistent
<1>5. ASSUME NEW d \in Conns
      PROVE  roster'[d] = {<<connRoom'[d], p>> : p \in Fellows(d)'}
  <2>1. roster[d] = {<<connRoom[d], p>> : p \in Fellows(d)}
    BY <1>3 DEF ExactInv, RosterExact
  <2>2. CASE d = c
    <3>1. Fellows(d)' = {}
      BY <2>2, <1>1 DEF Fellows
    <3> QED BY <3>1, <2>2, <1>2
  <2>3. CASE d # c /\ connRoom[d] = r
    <3>1. Fellows(d)' = Fellows(d) \ {c} /\ connRoom'[d] = connRoom[d]
      BY <2>3, <1>1, <1>0 DEF Fellows
    <3>2. roster'[d] = roster[d] \ {<<r, c>>}
      BY <2>3, <1>2, <1>4
    <3> QED BY <3>1, <3>2, <2>1, <2>3
  <2>4. CASE d # c /\ connRoom[d] # r
    <3>1. Fellows(d)' = Fellows(d) /\ connRoom'[d] = connRoom[d]
      BY <2>4, <1>1, <1>0 DEF Fellows
    <3>2. roster'[d] = roster[d]
      BY <2>4, <1>2, <1>4
    <3> QED BY <3>1, <3>2, <2>1
  <2> QED BY <2>2, <2>3, <2>4
<1> QED BY <1>3, <1>5 DEF RosterExact, ReplyExact

\* The reply turns into the roster.
LEMMA ReplyKeepsExact ==
  ASSUME ExactInv, NEW c \in Conns, SendReply(c), Serial
  PROVE  RosterExact' /\ ReplyExact'
<1>1. pending' = {} /\ pending \subseteq {c} /\ c \in pending
  BY DEF SendReply, Serial, ExactInv, IndInv, TypeOK
<1>2. ASSUME NEW d \in Conns
      PROVE  roster'[d] = {<<connRoom'[d], p>> : p \in Fellows(d)'}
  <2>1. connRoom' = connRoom /\ Fellows(d)' = Fellows(d)
    BY DEF SendReply, Fellows
  <2>2. CASE d = c
    <3>1. roster'[c] = roster[c] \cup {<<connRoom[c], p>> : p \in reply[c]}
      BY DEF SendReply, ExactInv, IndInv, TypeOK
    <3>2. roster[c] = {} /\ reply[c] = Fellows(c)
      BY <1>1 DEF ExactInv, ReplyExact
    <3> QED BY <2>1, <2>2, <3>1, <3>2
  <2>3. CASE d # c
    <3>1. roster'[d] = roster[d]
      BY <2>3 DEF SendReply, ExactInv, IndInv, TypeOK
    <3> QED BY <2>1, <2>3, <3>1, <1>1 DEF ExactInv, RosterExact
  <2> QED BY <2>2, <2>3
<1> QED BY <1>1, <1>2 DEF RosterExact, ReplyExact

\* Nobody was told anything at the start.
LEMMA InitExact == Init => ExactInv
<1>1. Init => RosterExact /\ ReplyExact
  BY DEF Init, RosterExact, ReplyExact, Fellows
<1> QED BY <1>1, InitIndInv DEF ExactInv

\* ExactInv is inductive as long as the steps are calm.
LEMMA CalmStepKeepsExact ==
  ASSUME ExactInv, [Next /\ Serial /\ StaysPut]_vars
  PROVE  ExactInv'
<1>0. IndInv'
  BY StepKeepsIndInv DEF ExactInv
<1>1. ASSUME NEW c \in Conns, NEW r \in Rooms, Join(c, r), Serial, StaysPut
      PROVE  RosterExact' /\ ReplyExact'
  BY <1>1, JoinKeepsExact
<1>2. ASSUME NEW c \in Conns, SendReply(c), Serial PROVE RosterExact' /\ ReplyExact'
  BY <1>2, ReplyKeepsExact
<1>3. ASSUME NEW c \in Conns, Leave(c), Serial PROVE RosterExact' /\ ReplyExact'
  BY <1>3, LeaveKeepsExact
<1>4. ASSUME UNCHANGED <<connRoom, pending, reply, roster>>
      PROVE  RosterExact' /\ ReplyExact'
  BY <1>4 DEF ExactInv, RosterExact, ReplyExact, Fellows
<1>5. ASSUME NEW c \in Conns,
             LeaveNoRoom(c) \/ (\E to \in Conns : RelayTo(c, to)) \/ RelayBroadcast(c)
      PROVE  RosterExact' /\ ReplyExact'
  BY <1>5, <1>4 DEF LeaveNoRoom, RelayTo, RelayBroadcast
<1>6. ASSUME UNCHANGED vars PROVE RosterExact' /\ ReplyExact'
  BY <1>6, <1>4 DEF vars
<1>7. RosterExact' /\ ReplyExact'
  BY <1>1, <1>2, <1>3, <1>5, <1>6 DEF Next
<1> QED BY <1>0, <1>7 DEF ExactInv

\* With the epoll thread as only caller and clients that do not switch
\* rooms, every client's list of peers is exact.
THEOREM RostersAreExact == OneRoomSpec => []RosterExact
<1>1. ExactInv /\ [Next /\ Serial /\ StaysPut]_vars => ExactInv'
  BY CalmStepKeepsExact
<1>2. ExactInv => RosterExact
  BY DEF ExactInv
<1> QED BY <1>1, <1>2, InitExact, PTL DEF OneRoomSpec

\* Whatever threads and clients do later, every client's list of peers is
\* exact until two calls interleave (join and its reply) or a client switches.
THEOREM RostersAreExactWhileCalm == CalmSpec => []RosterExactWhileCalm
<1> DEFINE Inv == calm \in BOOLEAN /\ (calm => ExactInv)
<1>1. CalmInit => Inv
  BY InitExact DEF CalmInit
<1>2. Inv /\ [CalmNext]_<<vars, calm>> => Inv'
  <2> SUFFICES ASSUME Inv, [CalmNext]_<<vars, calm>> PROVE Inv'
    OBVIOUS
  <2>1. CASE CalmNext
    <3>1. calm' = (calm /\ Serial /\ StaysPut) /\ Next
      BY <2>1 DEF CalmNext
    <3>2. calm' \in BOOLEAN
      BY <3>1
    <3>3. ASSUME calm' PROVE ExactInv'
      BY <3>1, <3>3, CalmStepKeepsExact
    <3> QED BY <3>2, <3>3
  <2>2. CASE UNCHANGED <<vars, calm>>
    <3>1. UNCHANGED vars /\ calm' = calm
      BY <2>2
    <3>2. ASSUME calm' PROVE ExactInv'
      BY <3>1, <3>2, CalmStepKeepsExact
    <3> QED BY <3>1, <3>2
  <2> QED BY <2>1, <2>2
<1>3. Inv => RosterExactWhileCalm
  BY DEF RosterExactWhileCalm, ExactInv
<1> HIDE DEF Inv
<1> QED BY <1>1, <1>2, <1>3, PTL DEF CalmSpec
=============================================================================
