------------------------ MODULE CrdtWhiteboardProofs ------------------------
(***************************************************************************)
(* Proofs about CrdtWhiteboard and CrdtSnapshot, for every set of replicas *)
(* and strokes and every number of operations and of documents.  The       *)
(* theorems are about SyncSpec, where boards travel as operations, as      *)
(* whole boards and as documents of any age.                               *)
(***************************************************************************)
EXTENDS CrdtSnapshot, TLAPS

-----------------------------------------------------------------------------
(* lww_wins is a strict order on stamps, total on different stamps.        *)

\* The stamp of an entry is a pair of integers.
LEMMA EntryStamp ==
  ASSUME NEW a \in Entry
  PROVE  a.ts \in Int /\ a.peer \in Int
<1>1. a.ts \in Nat /\ a.peer \in Replicas
  BY DEF Entry
<1>2. a.peer \in Int
  BY <1>1, ReplicasAssumption, Zenon
<1>3. a.ts \in Int
  BY <1>1
<1>. QED
  BY <1>2, <1>3

\* Nothing wins over itself.
LEMMA LwwStrict ==
  ASSUME NEW a \in Entry, NEW b \in Entry, LwwWins(a, b)
  PROVE  ~LwwWins(b, a) /\ a # b
BY EntryStamp DEF LwwWins

\* Winning is transitive.
LEMMA LwwTransitive ==
  ASSUME NEW a \in Entry, NEW b \in Entry, NEW c \in Entry,
         LwwWins(a, b), LwwWins(b, c)
  PROVE  LwwWins(a, c)
BY EntryStamp DEF LwwWins

\* Of two different stamps one wins.
LEMMA LwwTotal ==
  ASSUME NEW a \in Entry, NEW b \in Entry,
         ~(a.ts = b.ts /\ a.peer = b.peer)
  PROVE  LwwWins(a, b) \/ LwwWins(b, a)
BY EntryStamp DEF LwwWins

-----------------------------------------------------------------------------

\* Empty boards satisfy the invariant.
LEMMA InitEstablishesIndInv == Init => IndInv
BY DEF Init, IndInv, TypeOK, StampsInThePast, StampsUnique, ClockDominates,
       Joined, EntryMaps, MapNames

-----------------------------------------------------------------------------
(* One cell of a board: the entry one map holds for one uuid.              *)

\* e is the winner among the operations of S on the cell (m, u).
CellJoined(e, S, m, u) ==
  /\ e # NoEntry => [map |-> m, uuid |-> u, entry |-> e] \in S
  /\ \A op \in S : op.map = m /\ op.uuid = u =>
       e # NoEntry /\ (e = op.entry \/ LwwWins(e, op.entry))

UniqueIn(S) ==
  \A a, b \in S : a.entry.ts = b.entry.ts /\ a.entry.peer = b.entry.peer => a = b

\* The marker of an absent entry is not an entry.
LEMMA NoEntryIsNotEntry == NoEntry \notin Entry
BY NoEntryAssumption DEF Entry

\* The winners of two sets of operations, compared, give the winner of their
\* union, provided stamps are unique: this is what merge does to a cell, and
\* remote_add and remote_remove are the case of a single operation.
LEMMA CellMerge ==
  ASSUME NEW S \in SUBSET Op, NEW T \in SUBSET Op, UniqueIn(S \cup T),
         NEW m \in MapNames, NEW u \in Uuids,
         NEW e \in Entry \cup {NoEntry}, NEW f \in Entry \cup {NoEntry},
         CellJoined(e, S, m, u), CellJoined(f, T, m, u)
  PROVE  CellJoined(IF f # NoEntry /\ Replaces(f, e) THEN f ELSE e, S \cup T, m, u)
<1>. DEFINE opOf(g) == [map |-> m, uuid |-> u, entry |-> g]
<1>1. CASE f = NoEntry
  BY <1>1 DEF CellJoined
<1>2. CASE f # NoEntry /\ e = NoEntry
  BY <1>2 DEF CellJoined, Replaces
<1>3. CASE f # NoEntry /\ e # NoEntry
  <2>1. e \in Entry /\ f \in Entry /\ opOf(e) \in S /\ opOf(f) \in T
    BY <1>3 DEF CellJoined
  <2>2. e = f \/ LwwWins(e, f) \/ LwwWins(f, e)
    <3>1. CASE e.ts = f.ts /\ e.peer = f.peer
      <4>1. opOf(e) = opOf(f)
        BY <2>1, <3>1 DEF UniqueIn
      <4>. QED
        BY <4>1
    <3>. QED
      BY <2>1, <3>1, LwwTotal
  <2>3. CASE LwwWins(f, e)
    <3>1. (IF f # NoEntry /\ Replaces(f, e) THEN f ELSE e) = f
      BY <1>3, <2>3 DEF Replaces
    <3>2. ASSUME NEW op \in S \cup T, op.map = m, op.uuid = u
          PROVE  f = op.entry \/ LwwWins(f, op.entry)
      <4>1. op.entry \in Entry
        BY DEF Op
      <4>2. \/ f = op.entry \/ LwwWins(f, op.entry)
            \/ e = op.entry \/ LwwWins(e, op.entry)
        BY <3>2 DEF CellJoined
      <4>. QED
        BY <4>1, <4>2, <2>1, <2>3, LwwTransitive
    <3>. QED
      BY <1>3, <2>1, <3>1, <3>2 DEF CellJoined
  <2>4. CASE ~LwwWins(f, e)
    <3>1. (IF f # NoEntry /\ Replaces(f, e) THEN f ELSE e) = e
      BY <1>3, <2>4 DEF Replaces
    <3>2. ASSUME NEW op \in S \cup T, op.map = m, op.uuid = u
          PROVE  e = op.entry \/ LwwWins(e, op.entry)
      <4>1. op.entry \in Entry
        BY DEF Op
      <4>2. \/ f = op.entry \/ LwwWins(f, op.entry)
            \/ e = op.entry \/ LwwWins(e, op.entry)
        BY <3>2 DEF CellJoined
      <4>. QED
        BY <4>1, <4>2, <2>1, <2>2, <2>4, LwwTransitive
    <3>. QED
      BY <1>3, <2>1, <3>1, <3>2 DEF CellJoined
  <2>. QED
    BY <2>3, <2>4
<1>. QED
  BY <1>1, <1>2, <1>3

\* What one operation does to each cell of a board.
LEMMA ApplyCell ==
  ASSUME NEW ms \in EntryMaps, NEW op \in Op
  PROVE  /\ Apply(ms, op) \in EntryMaps
         /\ \A m \in MapNames, u \in Uuids :
              Apply(ms, op)[m][u] =
                IF m = op.map /\ u = op.uuid /\ Replaces(op.entry, ms[m][u])
                THEN op.entry ELSE ms[m][u]
BY DEF Apply, EntryMaps, Op

\* Applying one operation to a board keeps every cell the winner.
LEMMA ApplyKeepsJoined ==
  ASSUME NEW ms \in EntryMaps, NEW S \in SUBSET Op, NEW op \in Op,
         UniqueIn(S \cup {op}),
         \A m \in MapNames, u \in Uuids : CellJoined(ms[m][u], S, m, u),
         NEW m \in MapNames, NEW u \in Uuids
  PROVE  CellJoined(Apply(ms, op)[m][u], S \cup {op}, m, u)
<1>. DEFINE e == ms[m][u]
<1>1. e \in Entry \cup {NoEntry} /\ CellJoined(e, S, m, u)
  BY DEF EntryMaps
<1>2. CASE m = op.map /\ u = op.uuid
  <2>1. op.entry \in Entry /\ op.entry # NoEntry
    BY NoEntryIsNotEntry DEF Op
  <2>2. op = [map |-> m, uuid |-> u, entry |-> op.entry]
    BY <1>2 DEF Op
  <2>3. CellJoined(op.entry, {op}, m, u)
    BY <2>1, <2>2 DEF CellJoined
  <2>4. CellJoined(IF op.entry # NoEntry /\ Replaces(op.entry, e) THEN op.entry ELSE e,
                   S \cup {op}, m, u)
    BY <1>1, <2>1, <2>3, CellMerge
  <2>. QED
    BY <1>2, <2>1, <2>4, ApplyCell
<1>3. CASE ~(m = op.map /\ u = op.uuid)
  <2>1. CellJoined(e, S \cup {op}, m, u)
    BY <1>1, <1>3 DEF CellJoined
  <2>. QED
    BY <1>3, <2>1, ApplyCell
<1>. QED
  BY <1>2, <1>3

-----------------------------------------------------------------------------
(* The steps keep the invariant.                                           *)

\* local_add and local_remove: the new stamp is ahead of every other.
LEMMA LocalOpKeepsIndInv ==
  ASSUME IndInv, NEW n \in Replicas, NEW map \in MapNames, NEW u \in Uuids,
         NEW body \in Bodies \cup {NoBody}, LocalOp(n, map, u, body)
  PROVE  IndInv'
<1>. DEFINE ts == lamport_ts[n] + 1
            op == [map |-> map, uuid |-> u,
                   entry |-> [body |-> body, ts |-> ts, peer |-> n]]
<1>1. /\ lamport_ts' = [lamport_ts EXCEPT ![n] = ts]
      /\ maps' = [maps EXCEPT ![n] = Apply(maps[n], op)]
      /\ issued' = issued \cup {op}
      /\ seen' = [seen EXCEPT ![n] = seen[n] \cup {op}]
      /\ peer_id' = peer_id
  BY DEF LocalOp, Tick, IndInv
<1>2. TypeOK
  BY DEF IndInv
<1>3. ts \in Nat /\ op \in Op /\ op.entry.ts = ts /\ op.entry.peer = n
  BY <1>2 DEF Op, Entry, TypeOK
<1>. HIDE DEF op
<1>4. maps[n] \in EntryMaps /\ Apply(maps[n], op) \in EntryMaps
  BY <1>2, <1>3, ApplyCell DEF TypeOK
<1>5. TypeOK'
  BY <1>1, <1>2, <1>3, <1>4 DEF TypeOK
<1>6. peer_id' = [r \in Replicas |-> r]
  BY <1>1 DEF IndInv
<1>7. \A r \in Replicas : seen'[r] \subseteq issued'
  BY <1>1, <1>2 DEF IndInv, TypeOK
<1>8. \A a \in issued : a.entry.ts \in Nat /\ a.entry.peer \in Replicas
  BY <1>2 DEF TypeOK, Op, Entry
<1>9. StampsInThePast'
  BY <1>1, <1>2, <1>3, <1>8 DEF IndInv, StampsInThePast, TypeOK
<1>10. StampsUnique'
  <2>1. \A a \in issued : ~(a.entry.ts = ts /\ a.entry.peer = n)
    BY <1>2, <1>8 DEF IndInv, StampsInThePast, TypeOK
  <2>. QED
    BY <1>1, <1>3, <2>1 DEF IndInv, StampsUnique
<1>11. ClockDominates'
  <2>1. \A r \in Replicas : \A a \in seen[r] : a.entry.ts \in Nat
    BY <1>2 DEF TypeOK, Op, Entry
  <2>. QED
    BY <1>1, <1>2, <1>3, <2>1 DEF IndInv, ClockDominates, TypeOK
<1>12. Joined'
  <2>1. UniqueIn(seen[n] \cup {op})
    BY <1>1, <1>7, <1>10 DEF UniqueIn, StampsUnique, IndInv
  <2>2. \A m \in MapNames, v \in Uuids : CellJoined(maps[n][m][v], seen[n], m, v)
    BY DEF IndInv, Joined, CellJoined
  <2>3. seen[n] \in SUBSET Op
    BY <1>2 DEF TypeOK
  <2>4. \A m \in MapNames, v \in Uuids :
          CellJoined(Apply(maps[n], op)[m][v], seen[n] \cup {op}, m, v)
    BY <1>3, <1>4, <2>1, <2>2, <2>3, ApplyKeepsJoined
  <2>5. ASSUME NEW r \in Replicas, NEW m \in MapNames, NEW v \in Uuids
        PROVE  CellJoined(maps'[r][m][v], seen'[r], m, v)
    <3>1. CASE r = n
      BY <3>1, <1>1, <1>2, <2>4 DEF TypeOK
    <3>2. CASE r # n
      BY <3>2, <1>1, <1>2 DEF TypeOK, IndInv, Joined, CellJoined
    <3>. QED
      BY <3>1, <3>2
  <2>. QED
    BY <2>5 DEF Joined, CellJoined
<1>. QED
  BY <1>5, <1>6, <1>7, <1>9, <1>10, <1>11, <1>12 DEF IndInv

\* remote_add and remote_remove, of an old, repeated or new operation.
LEMMA RemoteKeepsIndInv ==
  ASSUME IndInv, NEW n \in Replicas, NEW op \in issued, Remote(n, op)
  PROVE  IndInv'
<1>. DEFINE c == UpdateClock(lamport_ts[n], op.entry.ts)
<1>1. /\ lamport_ts' = [lamport_ts EXCEPT ![n] = c]
      /\ maps' = [maps EXCEPT ![n] = Apply(maps[n], op)]
      /\ seen' = [seen EXCEPT ![n] = seen[n] \cup {op}]
      /\ issued' = issued /\ peer_id' = peer_id
  BY DEF Remote
<1>2. TypeOK
  BY DEF IndInv
<1>3. op \in Op /\ op.entry.ts \in Nat /\ lamport_ts[n] \in Nat
  BY <1>2 DEF Op, Entry, TypeOK
<1>4. c \in Nat /\ c >= lamport_ts[n] /\ c >= op.entry.ts
  BY <1>3 DEF UpdateClock
<1>. HIDE DEF c
<1>5. maps[n] \in EntryMaps /\ Apply(maps[n], op) \in EntryMaps
  BY <1>2, <1>3, ApplyCell DEF TypeOK
<1>6. TypeOK'
  BY <1>1, <1>2, <1>3, <1>4, <1>5 DEF TypeOK
<1>7. /\ peer_id' = [r \in Replicas |-> r]
      /\ \A r \in Replicas : seen'[r] \subseteq issued'
      /\ StampsUnique'
  BY <1>1, <1>2 DEF IndInv, TypeOK, StampsUnique
<1>8. StampsInThePast' /\ ClockDominates'
  <2>1. \A a \in Op : a.entry.ts \in Nat /\ a.entry.peer \in Replicas
    BY DEF Op, Entry
  <2>2. \A r \in Replicas : lamport_ts'[r] >= lamport_ts[r] /\ lamport_ts[r] \in Nat /\ lamport_ts'[r] \in Nat
    BY <1>1, <1>2, <1>4 DEF TypeOK
  <2>3. StampsInThePast'
    BY <1>1, <1>2, <2>1, <2>2 DEF IndInv, StampsInThePast, TypeOK
  <2>4. ASSUME NEW r \in Replicas, NEW a \in seen'[r]
        PROVE  a.entry.ts <= lamport_ts'[r]
    <3>1. CASE r = n /\ a = op
      BY <3>1, <1>1, <1>2, <1>4 DEF TypeOK
    <3>2. CASE ~(r = n /\ a = op)
      <4>1. a \in seen[r]
        BY <3>2, <1>1, <1>2 DEF TypeOK
      <4>2. a.entry.ts \in Nat /\ a.entry.ts <= lamport_ts[r]
        BY <4>1, <2>1, <1>2 DEF IndInv, ClockDominates, TypeOK
      <4>. QED
        BY <4>2, <2>2
    <3>. QED
      BY <3>1, <3>2
  <2>. QED
    BY <2>3, <2>4 DEF ClockDominates
<1>9. Joined'
  <2>1. UniqueIn(seen[n] \cup {op})
    BY DEF UniqueIn, StampsUnique, IndInv
  <2>2. \A m \in MapNames, v \in Uuids : CellJoined(maps[n][m][v], seen[n], m, v)
    BY DEF IndInv, Joined, CellJoined
  <2>3. seen[n] \in SUBSET Op
    BY <1>2 DEF TypeOK
  <2>4. \A m \in MapNames, v \in Uuids :
          CellJoined(Apply(maps[n], op)[m][v], seen[n] \cup {op}, m, v)
    BY <1>3, <1>5, <2>1, <2>2, <2>3, ApplyKeepsJoined
  <2>5. ASSUME NEW r \in Replicas, NEW m \in MapNames, NEW v \in Uuids
        PROVE  CellJoined(maps'[r][m][v], seen'[r], m, v)
    <3>1. CASE r = n
      BY <3>1, <1>1, <1>2, <2>4 DEF TypeOK
    <3>2. CASE r # n
      BY <3>2, <1>1, <1>2 DEF TypeOK, IndInv, Joined, CellJoined
    <3>. QED
      BY <3>1, <3>2
  <2>. QED
    BY <2>5 DEF Joined, CellJoined
<1>. QED
  BY <1>6, <1>7, <1>8, <1>9 DEF IndInv

\* What merge does to each cell of a board.
LEMMA MergedCell ==
  ASSUME NEW ms \in EntryMaps, NEW other \in EntryMaps
  PROVE  /\ Merged(ms, other) \in EntryMaps
         /\ \A m \in MapNames, u \in Uuids :
              Merged(ms, other)[m][u] =
                IF other[m][u] # NoEntry /\ Replaces(other[m][u], ms[m][u])
                THEN other[m][u] ELSE ms[m][u]
BY DEF Merged, EntryMaps

\* A board that joins operations of S, wherever it comes from.
BoardOf(other, S) ==
  /\ other \in EntryMaps /\ S \subseteq issued
  /\ \A m \in MapNames, u \in Uuids : CellJoined(other[m][u], S, m, u)

\* merge joins the boards, the histories and the clocks.
MergesBoard(n, other, S) ==
  /\ \E c \in ClocksOfMerge(lamport_ts[n], other) :
       /\ IsMaximum(c, ClocksOfMerge(lamport_ts[n], other))
       /\ lamport_ts' = [lamport_ts EXCEPT ![n] = c]
  /\ maps' = [maps EXCEPT ![n] = Merged(maps[n], other)]
  /\ seen' = [seen EXCEPT ![n] = seen[n] \cup S]
  /\ UNCHANGED <<peer_id, issued>>

\* merge keeps the invariant, with the board of a replica or of a document.
LEMMA MergeKeepsIndInv ==
  ASSUME IndInv, NEW n \in Replicas, NEW other, NEW S,
         BoardOf(other, S), MergesBoard(n, other, S)
  PROVE  IndInv'
<1>. DEFINE C == ClocksOfMerge(lamport_ts[n], other)
<1>1. PICK c \in C : IsMaximum(c, C) /\ lamport_ts' = [lamport_ts EXCEPT ![n] = c]
  BY DEF MergesBoard
<1>2. /\ maps' = [maps EXCEPT ![n] = Merged(maps[n], other)]
      /\ seen' = [seen EXCEPT ![n] = seen[n] \cup S]
      /\ issued' = issued /\ peer_id' = peer_id
  BY DEF MergesBoard
<1>3. TypeOK
  BY DEF IndInv
<1>4. /\ maps[n] \in EntryMaps /\ other \in EntryMaps /\ lamport_ts[n] \in Nat
      /\ seen[n] \in SUBSET Op /\ S \in SUBSET Op
      /\ seen[n] \subseteq issued /\ S \subseteq issued
  BY <1>3 DEF TypeOK, IndInv, BoardOf
\* The clock of the merged board: a number no smaller than the old clock and
\* than every timestamp of the other board.
<1>5. /\ c \in Nat /\ c >= lamport_ts[n]
      /\ \A m \in MapNames, u \in Uuids : other[m][u] # NoEntry => other[m][u].ts <= c
  <2>1. \A m \in MapNames, u \in Uuids : other[m][u] # NoEntry => other[m][u].ts \in Nat
    BY <1>4 DEF EntryMaps, Entry
  <2>2. \A t \in Nat : /\ UpdateClock(lamport_ts[n], t) \in Nat
                       /\ UpdateClock(lamport_ts[n], t) >= t
    BY <1>4 DEF UpdateClock
  <2>3. \A d \in C : d \in Nat
    BY <1>4, <2>1, <2>2 DEF ClocksOfMerge
  <2>4. c \in Nat /\ \A d \in C : d <= c
    BY <1>1, <2>3 DEF IsMaximum
  <2>5. lamport_ts[n] \in C
    BY DEF ClocksOfMerge
  <2>6. ASSUME NEW m \in MapNames, NEW u \in Uuids, other[m][u] # NoEntry
        PROVE  other[m][u].ts <= c
    <3>. DEFINE d == UpdateClock(lamport_ts[n], other[m][u].ts)
    <3>1. <<m, u>> \in {j \in MapNames \X Uuids : other[j[1]][j[2]] # NoEntry}
      BY <2>6
    <3>2. d \in C
      BY <3>1 DEF ClocksOfMerge
    <3>3. other[m][u].ts \in Nat /\ d \in Nat /\ d >= other[m][u].ts
      BY <2>1, <2>2, <2>6
    <3>. HIDE DEF d
    <3>. QED
      BY <2>4, <3>2, <3>3
  <2>. QED
    BY <1>4, <2>4, <2>5, <2>6
<1>6. TypeOK'
  <2>1. Merged(maps[n], other) \in EntryMaps
    BY <1>4, MergedCell
  <2>. QED
    BY <1>1, <1>2, <1>3, <1>4, <1>5, <2>1 DEF TypeOK
<1>7. /\ peer_id' = [r \in Replicas |-> r]
      /\ \A r \in Replicas : seen'[r] \subseteq issued'
      /\ StampsUnique'
  BY <1>2, <1>3, <1>4 DEF IndInv, TypeOK, StampsUnique
<1>8. \A a \in Op : a.entry.ts \in Nat /\ a.entry.peer \in Replicas
  BY DEF Op, Entry
<1>9. \A r \in Replicas : /\ lamport_ts'[r] >= lamport_ts[r]
                          /\ lamport_ts[r] \in Nat /\ lamport_ts'[r] \in Nat
  BY <1>1, <1>3, <1>5 DEF TypeOK
<1>10. StampsInThePast'
  BY <1>2, <1>3, <1>8, <1>9 DEF IndInv, StampsInThePast, TypeOK
\* An operation of S is no newer than the other board's winner for its cell.
<1>11. ASSUME NEW a \in S
       PROVE  a.entry.ts <= c
  <2>1. a \in Op /\ a.map \in MapNames /\ a.uuid \in Uuids /\ a.entry \in Entry
    BY <1>4 DEF Op
  <2>. DEFINE e == other[a.map][a.uuid]
  <2>2. e # NoEntry /\ (e = a.entry \/ LwwWins(e, a.entry))
    BY <2>1 DEF BoardOf, CellJoined
  <2>3. e \in Entry
    BY <1>4, <2>1, <2>2 DEF EntryMaps
  <2>4. e.ts <= c
    BY <1>5, <2>1, <2>2
  <2>. HIDE DEF e
  <2>5. a.entry.ts <= e.ts
    BY <2>1, <2>2, <2>3, EntryStamp DEF LwwWins
  <2>. QED
    BY <1>5, <2>1, <2>3, <2>4, <2>5, EntryStamp
<1>12. ClockDominates'
  <2>1. ASSUME NEW r \in Replicas, NEW a \in seen'[r]
        PROVE  a.entry.ts <= lamport_ts'[r]
    <3>1. CASE r = n /\ a \in S
      BY <3>1, <1>1, <1>3, <1>11 DEF TypeOK
    <3>2. CASE ~(r = n /\ a \in S)
      <4>1. a \in seen[r]
        BY <3>2, <1>2, <1>3 DEF TypeOK
      <4>2. a.entry.ts \in Nat /\ a.entry.ts <= lamport_ts[r]
        BY <4>1, <1>3, <1>8 DEF IndInv, ClockDominates, TypeOK
      <4>. QED
        BY <4>2, <1>9
    <3>. QED
      BY <3>1, <3>2
  <2>. QED
    BY <2>1 DEF ClockDominates
<1>13. Joined'
  <2>1. UniqueIn(seen[n] \cup S)
    BY <1>4 DEF UniqueIn, StampsUnique, IndInv
  <2>2. ASSUME NEW m \in MapNames, NEW v \in Uuids
        PROVE  CellJoined(Merged(maps[n], other)[m][v], seen[n] \cup S, m, v)
    <3>1. /\ CellJoined(maps[n][m][v], seen[n], m, v)
          /\ CellJoined(other[m][v], S, m, v)
      BY DEF IndInv, Joined, CellJoined, BoardOf
    <3>2. /\ maps[n][m][v] \in Entry \cup {NoEntry}
          /\ other[m][v] \in Entry \cup {NoEntry}
      BY <1>4 DEF EntryMaps
    <3>3. CellJoined(IF other[m][v] # NoEntry /\ Replaces(other[m][v], maps[n][m][v])
                     THEN other[m][v] ELSE maps[n][m][v],
                     seen[n] \cup S, m, v)
      BY <1>4, <2>1, <3>1, <3>2, CellMerge
    <3>. QED
      BY <1>4, <3>3, MergedCell
  <2>3. ASSUME NEW r \in Replicas, NEW m \in MapNames, NEW v \in Uuids
        PROVE  CellJoined(maps'[r][m][v], seen'[r], m, v)
    <3>1. CASE r = n
      BY <3>1, <1>2, <1>3, <2>2 DEF TypeOK
    <3>2. CASE r # n
      BY <3>2, <1>2, <1>3 DEF TypeOK, IndInv, Joined, CellJoined
    <3>. QED
      BY <3>1, <3>2
  <2>. QED
    BY <2>3 DEF Joined, CellJoined
<1>. QED
  BY <1>6, <1>7, <1>10, <1>12, <1>13 DEF IndInv

\* The board of every replica is one.
LEMMA ReplicaBoard ==
  ASSUME IndInv, NEW o \in Replicas
  PROVE  BoardOf(maps[o], seen[o])
BY DEF IndInv, TypeOK, Joined, BoardOf, CellJoined

\* The boards in documents are boards, of operations made before.
DocsInv == \A doc \in docs : BoardOf(doc.maps, doc.seen)

\* IndInv is inductive, and the documents remain boards as they get older.
LEMMA StepKeepsIndInv ==
  ASSUME IndInv, DocsInv, [SyncNext]_snapshotVars
  PROVE  IndInv' /\ DocsInv'
<1>1. \A other, S : BoardOf(other, S) /\ issued \subseteq issued' => BoardOf(other, S)'
  BY DEF BoardOf, EntryMaps, Entry, MapNames, CellJoined, LwwWins
<1>2. CASE UNCHANGED snapshotVars
  <2>1. UNCHANGED vars /\ docs' = docs
    BY <1>2 DEF snapshotVars
  <2>2. IndInv' /\ issued' = issued
    BY <2>1 DEF vars, IndInv, TypeOK, StampsInThePast, StampsUnique, ClockDominates, Joined
  <2>. QED
    BY <1>1, <2>1, <2>2 DEF DocsInv
<1>3. ASSUME NEW n \in Replicas, NEW u \in Uuids, docs' = docs,
             (\E body \in Bodies : LocalAdd(n, u, body)) \/ LocalRemove(n, u)
      PROVE  IndInv' /\ DocsInv'
  <2>1. IndInv'
    BY <1>3, LocalOpKeepsIndInv DEF LocalAdd, LocalRemove, MapNames
  <2>2. issued \subseteq issued'
    BY <1>3 DEF LocalAdd, LocalRemove, LocalOp
  <2>. QED
    BY <1>1, <1>3, <2>1, <2>2 DEF DocsInv
<1>4. ASSUME NEW n \in Replicas, NEW op \in issued, docs' = docs, Remote(n, op)
      PROVE  IndInv' /\ DocsInv'
  <2>1. issued \subseteq issued'
    BY <1>4 DEF Remote
  <2>. QED
    BY <1>1, <1>4, <2>1, RemoteKeepsIndInv DEF DocsInv
<1>5. ASSUME NEW n \in Replicas, NEW o \in Replicas, docs' = docs, Merge(n, o)
      PROVE  IndInv' /\ DocsInv'
  <2>1. MergesBoard(n, maps[o], seen[o])
    BY <1>5 DEF Merge, MergesBoard
  <2>2. IndInv'
    BY <2>1, ReplicaBoard, MergeKeepsIndInv
  <2>3. issued \subseteq issued'
    BY <1>5 DEF Merge
  <2>. QED
    BY <1>1, <1>5, <2>2, <2>3 DEF DocsInv
<1>6. ASSUME NEW n \in Replicas, SerializeJson(n)
      PROVE  IndInv' /\ DocsInv'
  <2>. DEFINE new == [peer_id |-> peer_id[n], lamport_ts |-> lamport_ts[n],
                      maps |-> maps[n], seen |-> seen[n]]
  <2>1. UNCHANGED vars /\ docs' = docs \cup {new}
    BY <1>6 DEF SerializeJson
  <2>2. IndInv' /\ issued' = issued
    BY <2>1 DEF vars, IndInv, TypeOK, StampsInThePast, StampsUnique, ClockDominates, Joined
  <2>3. BoardOf(new.maps, new.seen)
    BY ReplicaBoard
  <2>. HIDE DEF new
  <2>. QED
    BY <1>1, <2>1, <2>2, <2>3 DEF DocsInv
<1>7. ASSUME NEW n \in Replicas, NEW doc \in docs, MergeDocument(n, doc)
      PROVE  IndInv' /\ DocsInv'
  <2>1. MergesBoard(n, doc.maps, doc.seen)
    BY <1>7 DEF MergeDocument, MergesBoard
  <2>2. IndInv'
    BY <2>1, MergeKeepsIndInv DEF DocsInv
  <2>3. issued' = issued /\ docs' = docs
    BY <1>7 DEF MergeDocument
  <2>. QED
    BY <1>1, <2>2, <2>3 DEF DocsInv
<1>. QED
  BY <1>2, <1>3, <1>4, <1>5, <1>6, <1>7 DEF SyncNext, Next

\* Boards and documents together.
LEMMA SyncInvariant == SyncSpec => [](IndInv /\ DocsInv)
<1>1. SnapshotInit => IndInv /\ DocsInv
  BY InitEstablishesIndInv DEF SnapshotInit, DocsInv
<1>2. (IndInv /\ DocsInv) /\ [SyncNext]_snapshotVars => (IndInv /\ DocsInv)'
  BY StepKeepsIndInv
<1>. QED
  BY <1>1, <1>2, PTL DEF SyncSpec

\* In every reachable state each board is the last-write-wins join of the
\* operations that reached it and every clock is ahead of them, for any number
\* of replicas, strokes, operations and documents.
THEOREM IndInvHolds == SyncSpec => []IndInv
BY SyncInvariant, PTL
\* lww_wins never has to choose between two different operations with one
\* stamp, and a replica's clock is ahead of everything it knows.
THEOREM StampsAndClocks == SyncSpec => [](StampsUnique /\ ClockDominates)
<1>1. IndInv => StampsUnique /\ ClockDominates
  BY DEF IndInv
<1>. QED
  BY <1>1, IndInvHolds, PTL

-----------------------------------------------------------------------------
(* Convergence.                                                            *)

\* The winner of a cell is determined by the set of operations.
LEMMA WinnerUnique ==
  ASSUME NEW S \in SUBSET Op, NEW m, NEW u,
         NEW e \in Entry \cup {NoEntry}, NEW f \in Entry \cup {NoEntry},
         CellJoined(e, S, m, u), CellJoined(f, S, m, u)
  PROVE  e = f
<1>1. CASE e = NoEntry \/ f = NoEntry
  BY <1>1 DEF CellJoined
<1>2. CASE e # NoEntry /\ f # NoEntry
  <2>1. (e = f \/ LwwWins(e, f)) /\ (f = e \/ LwwWins(f, e))
    BY <1>2 DEF CellJoined
  <2>. QED
    BY <1>2, <2>1, LwwStrict
<1>. QED
  BY <1>1, <1>2

\* Two boards of the same operations are one board.
LEMMA BoardUnique ==
  ASSUME IndInv, NEW S, NEW a, NEW b, BoardOf(a, S), BoardOf(b, S)
  PROVE  a = b
<1>1. a \in EntryMaps /\ b \in EntryMaps /\ S \in SUBSET Op
  BY DEF IndInv, TypeOK, BoardOf
<1>2. ASSUME NEW m \in MapNames, NEW u \in Uuids
      PROVE  a[m][u] = b[m][u]
  <2>1. CellJoined(a[m][u], S, m, u) /\ CellJoined(b[m][u], S, m, u)
    BY DEF BoardOf
  <2>2. a[m][u] \in Entry \cup {NoEntry} /\ b[m][u] \in Entry \cup {NoEntry}
    BY <1>1 DEF EntryMaps
  <2>. QED
    BY <1>1, <2>1, <2>2, WinnerUnique
<1>. QED
  BY <1>1, <1>2 DEF EntryMaps

\* What merge makes of two boards is the board of both sets of operations.
LEMMA MergedBoard ==
  ASSUME IndInv, NEW S, NEW T, NEW a, NEW b, BoardOf(a, S), BoardOf(b, T)
  PROVE  BoardOf(Merged(a, b), S \cup T)
<1>1. /\ a \in EntryMaps /\ b \in EntryMaps /\ S \in SUBSET Op /\ T \in SUBSET Op
      /\ S \cup T \subseteq issued
  BY DEF IndInv, TypeOK, BoardOf
<1>2. UniqueIn(S \cup T)
  BY <1>1 DEF IndInv, StampsUnique, UniqueIn
<1>3. ASSUME NEW m \in MapNames, NEW u \in Uuids
      PROVE  CellJoined(Merged(a, b)[m][u], S \cup T, m, u)
  <2>1. CellJoined(a[m][u], S, m, u) /\ CellJoined(b[m][u], T, m, u)
    BY DEF BoardOf
  <2>2. a[m][u] \in Entry \cup {NoEntry} /\ b[m][u] \in Entry \cup {NoEntry}
    BY <1>1 DEF EntryMaps
  <2>3. CellJoined(IF b[m][u] # NoEntry /\ Replaces(b[m][u], a[m][u])
                   THEN b[m][u] ELSE a[m][u], S \cup T, m, u)
    BY <1>1, <1>2, <2>1, <2>2, CellMerge
  <2>. QED
    BY <1>1, <2>3, MergedCell
<1>. QED
  BY <1>1, <1>3, MergedCell DEF BoardOf

\* Strong convergence: replicas that received the same operations hold equal
\* boards, whatever the order, the repetitions and the way of arrival.
THEOREM StrongConvergence == SyncSpec => []Convergence
<1>1. IndInv => Convergence
  BY ReplicaBoard, BoardUnique DEF Convergence
<1>. QED
  BY <1>1, IndInvHolds, PTL

\* n.merge(o) followed by o.merge(n) leaves equal boards, from every state the
\* replicas reach: both are the board of what either of them had received.
THEOREM MutualMerge == SyncSpec => []MutualMergeConverges
<1>1. IndInv => MutualMergeConverges
  <2>. SUFFICES ASSUME IndInv, NEW n \in Replicas, NEW o \in Replicas
                PROVE  Merged(maps[o], Merged(maps[n], maps[o])) = Merged(maps[n], maps[o])
    BY DEF MutualMergeConverges
  <2>. DEFINE S == seen[n] \cup seen[o]
              first == Merged(maps[n], maps[o])
  <2>1. BoardOf(maps[n], seen[n]) /\ BoardOf(maps[o], seen[o])
    BY ReplicaBoard
  <2>2. BoardOf(first, S)
    BY <2>1, MergedBoard
  <2>3. BoardOf(Merged(maps[o], first), seen[o] \cup S)
    <3>. HIDE DEF first, S
    <3>. QED BY <2>1, <2>2, MergedBoard
  <2>4. seen[o] \cup S = S
    OBVIOUS
  <2>. HIDE DEF first, S
  <2>5. Merged(maps[o], first) = first
    BY <2>2, <2>3, <2>4, BoardUnique
  <2>. QED
    BY <2>5 DEF first
<1>. QED
  BY <1>1, IndInvHolds, PTL

-----------------------------------------------------------------------------
(* What a step does to a board.                                            *)

\* Entries are only replaced by entries that win over them, whatever arrives:
\* an old operation, the board of another replica or an old document.
THEOREM NothingGoesBack == SyncSpec => NewerOnly
<1>. DEFINE newer == \A n \in Replicas, m \in MapNames, u \in Uuids :
              maps'[n][m][u] # maps[n][m][u] =>
                maps'[n][m][u] # NoEntry /\ Replaces(maps'[n][m][u], maps[n][m][u])
\* Writing one entry into one map, and merging, leave each cell or replace it
\* by a winner.
<1>1. ASSUME NEW n \in Replicas, NEW board, maps' = [maps EXCEPT ![n] = board], TypeOK,
             \A m \in MapNames, u \in Uuids :
               \/ board[m][u] = maps[n][m][u]
               \/ board[m][u] # NoEntry /\ Replaces(board[m][u], maps[n][m][u])
      PROVE  newer
  BY <1>1 DEF TypeOK
<1>2. ASSUME TypeOK, NEW n \in Replicas, NEW op \in Op,
             maps' = [maps EXCEPT ![n] = Apply(maps[n], op)]
      PROVE  newer
  <2>1. maps[n] \in EntryMaps /\ op.entry # NoEntry
    BY <1>2, NoEntryIsNotEntry DEF TypeOK, Op
  <2>2. \A m \in MapNames, u \in Uuids :
          \/ Apply(maps[n], op)[m][u] = maps[n][m][u]
          \/ /\ Apply(maps[n], op)[m][u] # NoEntry
             /\ Replaces(Apply(maps[n], op)[m][u], maps[n][m][u])
    BY <2>1, ApplyCell
  <2>. QED
    BY <1>1, <1>2, <2>2
<1>3. ASSUME TypeOK, NEW n \in Replicas, NEW other \in EntryMaps,
             maps' = [maps EXCEPT ![n] = Merged(maps[n], other)]
      PROVE  newer
  <2>1. maps[n] \in EntryMaps
    BY <1>3 DEF TypeOK
  <2>2. \A m \in MapNames, u \in Uuids :
          \/ Merged(maps[n], other)[m][u] = maps[n][m][u]
          \/ /\ Merged(maps[n], other)[m][u] # NoEntry
             /\ Replaces(Merged(maps[n], other)[m][u], maps[n][m][u])
    BY <2>1, MergedCell
  <2>. QED
    BY <1>1, <1>3, <2>2
<1>. HIDE DEF newer
<1>4. IndInv /\ DocsInv /\ [SyncNext]_snapshotVars => [newer]_vars
  <2>. SUFFICES ASSUME IndInv, DocsInv, [SyncNext]_snapshotVars, ~UNCHANGED vars
                PROVE  newer
    OBVIOUS
  <2>1. TypeOK
    BY DEF IndInv
  <2>2. ASSUME NEW n \in Replicas, NEW map \in MapNames, NEW u \in Uuids,
               NEW body \in Bodies \cup {NoBody}, LocalOp(n, map, u, body)
        PROVE  newer
    <3>. DEFINE op == [map |-> map, uuid |-> u,
                       entry |-> [body |-> body, ts |-> lamport_ts[n] + 1, peer |-> n]]
    <3>1. op \in Op
      BY <2>1, <2>2 DEF Op, Entry, TypeOK
    <3>2. maps' = [maps EXCEPT ![n] = Apply(maps[n], op)]
      BY <2>2 DEF LocalOp, Tick, IndInv
    <3>. HIDE DEF op
    <3>. QED
      BY <1>2, <2>1, <3>1, <3>2
  <2>3. ASSUME NEW n \in Replicas, NEW op \in issued, Remote(n, op)
        PROVE  newer
    BY <1>2, <2>1, <2>3 DEF Remote, TypeOK
  <2>4. ASSUME NEW n \in Replicas, NEW o \in Replicas, Merge(n, o)
        PROVE  newer
    BY <1>3, <2>1, <2>4 DEF Merge, TypeOK
  <2>5. ASSUME NEW n \in Replicas, NEW doc \in docs, MergeDocument(n, doc)
        PROVE  newer
    BY <1>3, <2>1, <2>5 DEF MergeDocument, DocsInv, BoardOf
  <2>. QED
    BY <2>2, <2>3, <2>4, <2>5
       DEF SyncNext, Next, SerializeJson, snapshotVars, vars, LocalAdd, LocalRemove, MapNames
<1>. QED
  BY <1>4, SyncInvariant, PTL DEF NewerOnly, newer, SyncSpec

\* What the user does takes effect at once on the user's own board: the stamp
\* of a local operation wins over everything the board shows, because the clock
\* is ahead of all of it.
THEOREM LocalOpsTakeEffect == SyncSpec => LocalOpTakesEffect
<1>. DEFINE effect == \A n \in Replicas, u \in Uuids :
       /\ \A body \in Bodies :
            LocalAdd(n, u, body) => <<u, body>> \in VisibleStrokes(maps'[n])
       /\ LocalRemove(n, u) => ~IsVisible(maps'[n], u)
<1>1. ASSUME IndInv, NEW n \in Replicas, NEW map \in MapNames, NEW u \in Uuids,
             NEW body \in Bodies \cup {NoBody}, LocalOp(n, map, u, body)
      PROVE  /\ maps'[n][map][u] = [body |-> body, ts |-> lamport_ts[n] + 1, peer |-> n]
             /\ maps'[n][map][u] # NoEntry
             /\ \A m \in MapNames : m # map => maps'[n][m][u] = maps[n][m][u]
             /\ \A m \in MapNames : maps[n][m][u] # NoEntry =>
                  LwwWins(maps'[n][map][u], maps[n][m][u]) /\ ~LwwWins(maps[n][m][u], maps'[n][map][u])
  <2>. DEFINE e == [body |-> body, ts |-> lamport_ts[n] + 1, peer |-> n]
              op == [map |-> map, uuid |-> u, entry |-> e]
  <2>1. TypeOK /\ maps[n] \in EntryMaps /\ lamport_ts[n] \in Nat
    BY <1>1 DEF IndInv, TypeOK
  <2>2. e \in Entry /\ op \in Op /\ e.ts = lamport_ts[n] + 1
    BY <1>1, <2>1 DEF Op, Entry
  <2>3. maps' = [maps EXCEPT ![n] = Apply(maps[n], op)]
    BY <1>1 DEF LocalOp, Tick, IndInv
  <2>4. op.map = map /\ op.uuid = u /\ op.entry = e
    OBVIOUS
  <2>. HIDE DEF op, e
  <2>5. ASSUME NEW m \in MapNames, maps[n][m][u] # NoEntry
        PROVE  LwwWins(e, maps[n][m][u]) /\ ~LwwWins(maps[n][m][u], e)
    <3>. DEFINE g == maps[n][m][u]
    <3>1. g \in Entry
      BY <2>1, <2>5 DEF EntryMaps
    <3>2. [map |-> m, uuid |-> u, entry |-> g] \in seen[n]
      BY <1>1, <2>5 DEF IndInv, Joined
    <3>. HIDE DEF g
    <3>3. g.ts <= lamport_ts[n] /\ g.ts \in Nat
      BY <1>1, <3>1, <3>2 DEF IndInv, ClockDominates, Entry
    <3>. QED
      BY <2>1, <2>2, <3>3 DEF LwwWins, g
  <2>6. maps'[n] = Apply(maps[n], op)
    BY <2>1, <2>3 DEF TypeOK
  <2>7. Replaces(e, maps[n][map][u])
    BY <1>1, <2>5 DEF Replaces
  <2>8. maps'[n][map][u] = e
    BY <2>1, <2>2, <2>4, <2>6, <2>7, ApplyCell
  <2>9. \A m \in MapNames : m # map => maps'[n][m][u] = maps[n][m][u]
    BY <2>1, <2>2, <2>4, <2>6, ApplyCell
  <2>10. e # NoEntry
    BY <2>2, NoEntryIsNotEntry
  <2>. QED
    BY <2>5, <2>8, <2>9, <2>10 DEF e
<1>2. IndInv => effect
  <2>. SUFFICES ASSUME IndInv, NEW n \in Replicas, NEW u \in Uuids
                PROVE  /\ \A body \in Bodies :
                            LocalAdd(n, u, body) => <<u, body>> \in VisibleStrokes(maps'[n])
                       /\ LocalRemove(n, u) => ~IsVisible(maps'[n], u)
    OBVIOUS
  <2>1. ASSUME NEW body \in Bodies, LocalAdd(n, u, body)
        PROVE  <<u, body>> \in VisibleStrokes(maps'[n])
    <3>. DEFINE new == maps'[n]["added"][u]
                r == maps[n]["removed"][u]
    <3>1. LocalOp(n, "added", u, body) /\ "added" \in MapNames /\ "removed" \in MapNames
      BY <2>1 DEF LocalAdd, MapNames
    <3>2. body \in Bodies \cup {NoBody} /\ "removed" # "added"
      OBVIOUS
    <3>3. /\ new = [body |-> body, ts |-> lamport_ts[n] + 1, peer |-> n] /\ new # NoEntry
          /\ maps'[n]["removed"][u] = r
          /\ r # NoEntry => LwwWins(new, r)
      BY <1>1, <3>1, <3>2
    <3>4. IsVisible(maps'[n], u)
      BY <3>3 DEF IsVisible
    <3>5. new.body = body
      BY <3>3
    <3>. QED
      BY <3>4, <3>5 DEF VisibleStrokes
  <2>2. ASSUME LocalRemove(n, u)
        PROVE  ~IsVisible(maps'[n], u)
    <3>. DEFINE new == maps'[n]["removed"][u]
                a == maps[n]["added"][u]
    <3>1. LocalOp(n, "removed", u, NoBody) /\ "added" \in MapNames /\ "removed" \in MapNames
      BY <2>2 DEF LocalRemove, MapNames
    <3>2. NoBody \in Bodies \cup {NoBody} /\ "added" # "removed"
      OBVIOUS
    <3>3. /\ new = [body |-> NoBody, ts |-> lamport_ts[n] + 1, peer |-> n] /\ new # NoEntry
          /\ maps'[n]["added"][u] = a
          /\ a # NoEntry => ~LwwWins(a, new)
      BY <1>1, <3>1, <3>2
    <3>. HIDE DEF new, a
    <3>. QED
      BY <3>3 DEF IsVisible, new
  <2>. QED
    BY <2>1, <2>2
<1>. HIDE DEF effect
<1>. QED
  BY <1>2, IndInvHolds, PTL DEF LocalOpTakesEffect, effect
=============================================================================
