--------------------------- MODULE CrdtWhiteboard ---------------------------
(***************************************************************************)
(* CrdtWhiteboard of module11: every participant keeps a last-write-wins   *)
(* element set of strokes.  added_ and removed_ map a stroke's uuid to the *)
(* winning entry; entries carry a Lamport timestamp and the peer that made *)
(* them.  Operations travel between replicas one by one (remote_add,       *)
(* remote_remove) or as a whole state (merge), late, repeatedly, in any    *)
(* order or not at all.                                                    *)
(*                                                                         *)
(* remote_add and remote_remove differ only in the map they write, so the  *)
(* map is a parameter here.  `issued' and `seen' are history variables.    *)
(***************************************************************************)
EXTENDS Integers, FiniteSets

CONSTANTS Replicas,  \* constructor arguments peer_id, in dictionary order
          Uuids,     \* stroke identifiers
          Bodies,    \* points, color and width of a stroke
          NoBody,    \* a remove entry has no stroke
          NoEntry,   \* the map has no entry for the uuid
          MaxOps     \* bound on the number of local operations

ASSUME ReplicasAssumption == Replicas \subseteq Int
ASSUME NoEntryAssumption  == NoEntry \notin [body : Bodies \cup {NoBody}, ts : Nat, peer : Replicas]
ASSUME MaxOpsAssumption   == MaxOps \in Nat

VARIABLES peer_id,     \* peer_id_ of each replica
          lamport_ts,  \* lamport_ts_ of each replica
          maps,        \* added_ and removed_ of each replica
          issued,      \* all operations ever made
          seen         \* the operations that reached each replica

vars == <<peer_id, lamport_ts, maps, issued, seen>>

MapNames == {"added", "removed"}
Entry == [body : Bodies \cup {NoBody}, ts : Nat, peer : Replicas]
Op == [map : MapNames, uuid : Uuids, entry : Entry]
EntryMaps == [MapNames -> [Uuids -> Entry \cup {NoEntry}]]

TypeOK ==
  /\ peer_id \in [Replicas -> Replicas]
  /\ lamport_ts \in [Replicas -> Nat]
  /\ maps \in [Replicas -> EntryMaps]
  /\ issued \in SUBSET Op
  /\ seen \in [Replicas -> SUBSET Op]

Init ==
  /\ peer_id = [n \in Replicas |-> n]
  /\ lamport_ts = [n \in Replicas |-> 0]
  /\ maps = [n \in Replicas |-> [m \in MapNames |-> [u \in Uuids |-> NoEntry]]]
  /\ issued = {}
  /\ seen = [n \in Replicas |-> {}]

-----------------------------------------------------------------------------
(* The pure parts of the class.                                            *)

\* Mutant: equal timestamps are not decided by the peer id.
LwwWinsByTimeOnly(a, b) == a.ts > b.ts

\* lww_wins: the later timestamp, the greater peer id among equal ones.
LwwWins(a, b) == a.ts > b.ts \/ (a.ts = b.ts /\ a.peer > b.peer)

\* Mutant: reading the clock does not advance it.
TickStuck(clock) == clock

\* tick
Tick(clock) == clock + 1

\* Mutant: a remote operation does not move the clock.
UpdateClockNever(clock, remote_ts) == clock

\* update_clock
UpdateClock(clock, remote_ts) == IF remote_ts >= clock THEN remote_ts + 1 ELSE clock

\* Whether an operation replaces what the map holds for its uuid.
Replaces(entry, old) == old = NoEntry \/ LwwWins(entry, old)

\* Mutant: the last writer wins by arrival, not by stamp.
ApplyLast(ms, op) == [ms EXCEPT ![op.map][op.uuid] = op.entry]

\* The map update of local_add, local_remove, remote_add, remote_remove.
Apply(ms, op) ==
  IF Replaces(op.entry, ms[op.map][op.uuid])
  THEN [ms EXCEPT ![op.map][op.uuid] = op.entry]
  ELSE ms

\* Mutant: merge copies the other state's entries without comparing them.
MergedOverwriting(ms, other) ==
  [m \in MapNames |-> [u \in Uuids |->
     IF other[m][u] # NoEntry THEN other[m][u] ELSE ms[m][u]]]

\* The maps after merge's loops over other.added_ and other.removed_.  Each
\* uuid occurs once in each map, so the order of the loops does not matter.
Merged(ms, other) ==
  [m \in MapNames |-> [u \in Uuids |->
     IF other[m][u] # NoEntry /\ Replaces(other[m][u], ms[m][u])
     THEN other[m][u] ELSE ms[m][u]]]

\* The clock after those loops: update_clock is applied to every timestamp of
\* `other', which leaves the largest of these values.
ClocksOfMerge(clock, other) ==
  {clock} \cup {UpdateClock(clock, other[k[1]][k[2]].ts) :
                  k \in {j \in MapNames \X Uuids : other[j[1]][j[2]] # NoEntry}}

IsMaximum(c, S) == c \in S /\ \A d \in S : d <= c

\* is_visible
IsVisible(ms, u) ==
  /\ ms["added"][u] # NoEntry
  /\ \/ ms["removed"][u] = NoEntry
     \/ LwwWins(ms["added"][u], ms["removed"][u])

\* visible_strokes: the vector is a set here, its order is the hash map's.
VisibleStrokes(ms) == {<<u, ms["added"][u].body>> : u \in {v \in Uuids : IsVisible(ms, v)}}

-----------------------------------------------------------------------------
(* Operations of a replica.                                                *)

LocalOp(n, map, u, body) ==
  LET ts == Tick(lamport_ts[n])
      op == [map |-> map, uuid |-> u,
             entry |-> [body |-> body, ts |-> ts, peer |-> peer_id[n]]]
  IN /\ Cardinality(issued) < MaxOps
     /\ lamport_ts' = [lamport_ts EXCEPT ![n] = ts]
     /\ maps' = [maps EXCEPT ![n] = Apply(@, op)]
     /\ issued' = issued \cup {op}
     /\ seen' = [seen EXCEPT ![n] = @ \cup {op}]
     /\ UNCHANGED peer_id

\* local_add
LocalAdd(n, u, body) == LocalOp(n, "added", u, body)

\* local_remove
LocalRemove(n, u) == LocalOp(n, "removed", u, NoBody)

\* remote_add and remote_remove
Remote(n, op) ==
  /\ lamport_ts' = [lamport_ts EXCEPT ![n] = UpdateClock(@, op.entry.ts)]
  /\ maps' = [maps EXCEPT ![n] = Apply(@, op)]
  /\ seen' = [seen EXCEPT ![n] = @ \cup {op}]
  /\ UNCHANGED <<peer_id, issued>>

\* merge
Merge(n, o) ==
  /\ \E c \in ClocksOfMerge(lamport_ts[n], maps[o]) :
       /\ IsMaximum(c, ClocksOfMerge(lamport_ts[n], maps[o]))
       /\ lamport_ts' = [lamport_ts EXCEPT ![n] = c]
  /\ maps' = [maps EXCEPT ![n] = Merged(@, maps[o])]
  /\ seen' = [seen EXCEPT ![n] = @ \cup seen[o]]
  /\ UNCHANGED <<peer_id, issued>>

Next ==
  \/ \E n \in Replicas, u \in Uuids :
       (\E body \in Bodies : LocalAdd(n, u, body)) \/ LocalRemove(n, u)
  \/ \E n \in Replicas, op \in issued : Remote(n, op)
  \/ \E n, o \in Replicas : n # o /\ Merge(n, o)

Spec == Init /\ [][Next]_vars

-----------------------------------------------------------------------------
(* Properties.                                                             *)

\* Two replicas that received the same operations hold the same board, in
\* whatever order, however often and by whichever way (remote_*, merge) the
\* operations arrived.
Convergence ==
  \A n, o \in Replicas : seen[n] = seen[o] => maps[n] = maps[o]

\* README: after two nodes merged each other their states are the same.
\* n.merge(o) followed by o.merge(n) leaves equal boards, from any state.
MutualMergeConverges ==
  \A n, o \in Replicas :
    LET first == Merged(maps[n], maps[o]) IN Merged(maps[o], first) = first

\* No two operations carry the same (ts, peer_id): the tie-break of lww_wins
\* is never asked to choose between different operations of one peer.
StampsUnique ==
  \A a, b \in issued :
    a.entry.ts = b.entry.ts /\ a.entry.peer = b.entry.peer => a = b

\* The clock of a replica is at least every timestamp it knows of, so that its
\* next local operation is newer than everything it shows.
ClockDominates ==
  \A n \in Replicas : \A op \in seen[n] : op.entry.ts <= lamport_ts[n]

\* What the user does takes effect at once on the user's own board, whatever
\* arrived before: a stroke just drawn is visible with its own body, a stroke
\* just removed is not.
LocalOpTakesEffect ==
  [][\A n \in Replicas, u \in Uuids :
       /\ \A body \in Bodies :
            LocalAdd(n, u, body) => <<u, body>> \in VisibleStrokes(maps'[n])
       /\ LocalRemove(n, u) => ~IsVisible(maps'[n], u)]_vars

\* An entry is only ever replaced by one that wins over it: nothing that comes
\* late (an old operation, an old state) takes a board back.
NewerOnly ==
  [][\A n \in Replicas, m \in MapNames, u \in Uuids :
       maps'[n][m][u] # maps[n][m][u] =>
         maps'[n][m][u] # NoEntry /\ Replaces(maps'[n][m][u], maps[n][m][u])]_vars

\* What a map holds for a uuid is the winner among the operations seen.
Joined ==
  \A n \in Replicas, m \in MapNames, u \in Uuids :
    LET e == maps[n][m][u] IN
    /\ e # NoEntry => [map |-> m, uuid |-> u, entry |-> e] \in seen[n]
    /\ \A op \in seen[n] : op.map = m /\ op.uuid = u =>
         e # NoEntry /\ (e = op.entry \/ LwwWins(e, op.entry))

\* A peer has not yet reached the timestamps it will give out.
StampsInThePast ==
  \A op \in issued : op.entry.ts <= lamport_ts[op.entry.peer]

\* The inductive invariant behind the theorems of CrdtWhiteboardProofs: a board
\* is the join of the operations seen, and clocks are ahead of every stamp.
IndInv ==
  /\ TypeOK
  /\ peer_id = [n \in Replicas |-> n]
  /\ \A n \in Replicas : seen[n] \subseteq issued
  /\ StampsInThePast
  /\ StampsUnique
  /\ ClockDominates
  /\ Joined
=============================================================================
