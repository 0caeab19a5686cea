---------------------------- MODULE CrdtSnapshot ----------------------------
(***************************************************************************)
(* serialize_json and parse_json of CrdtWhiteboard.  A document carries    *)
(* the whole state of a replica, peer_id_ and lamport_ts_ included, and    *)
(* may arrive long after it was made.  The README describes two uses:      *)
(*   - synchronisation: the receiver parses the document into a board of   *)
(*     its own and merges that board (SyncSpec);                           *)
(*   - a node that joins, or recovers after a disconnection, parses the    *)
(*     document into its live board, which replaces its state (JoinSpec).  *)
(***************************************************************************)
EXTENDS CrdtWhiteboard

CONSTANT MaxDocs    \* bound on the number of documents ever produced

ASSUME MaxDocsAssumption == MaxDocs \in Nat

VARIABLE docs       \* documents serialized so far

snapshotVars == <<vars, docs>>

\* serialize_json; `seen' is the history that goes with the maps.
SerializeJson(n) ==
  /\ Cardinality(docs) < MaxDocs
  /\ docs' = docs \cup {[peer_id |-> peer_id[n], lamport_ts |-> lamport_ts[n],
                         maps |-> maps[n], seen |-> seen[n]]}
  /\ UNCHANGED vars

\* parse_json into a temporary board, which is then merged.
MergeDocument(n, doc) ==
  /\ \E c \in ClocksOfMerge(lamport_ts[n], doc.maps) :
       /\ IsMaximum(c, ClocksOfMerge(lamport_ts[n], doc.maps))
       /\ lamport_ts' = [lamport_ts EXCEPT ![n] = c]
  /\ maps' = [maps EXCEPT ![n] = Merged(@, doc.maps)]
  /\ seen' = [seen EXCEPT ![n] = @ \cup doc.seen]
  /\ UNCHANGED <<peer_id, issued, docs>>

(***************************************************************************)
(* parse_json into the live board of replica n.  The four fields peer_id,  *)
(* lamport_ts, added and removed are read in this order, each assigned     *)
(* before the next is looked up; when one is missing or malformed the      *)
(* catch returns false and keeps what was assigned.  `read' is the number  *)
(* of fields read completely (4: success, 0: not a document at all);       *)
(* `loaded' are the uuids taken from the array in which reading stopped,   *)
(* whose map had been cleared before.                                      *)
(***************************************************************************)
ParseJson(n, doc, read, loaded) ==
  LET parsed(m, position) ==
        [u \in Uuids |->
           IF read >= position \/ (read = position - 1 /\ u \in loaded) THEN doc.maps[m][u]
           ELSE IF read = position - 1 THEN NoEntry
           ELSE maps[n][m][u]]
      new == [m \in MapNames |-> parsed(m, IF m = "added" THEN 3 ELSE 4)]
  IN /\ peer_id' = [peer_id EXCEPT ![n] = IF read >= 1 THEN doc.peer_id ELSE @]
     /\ lamport_ts' = [lamport_ts EXCEPT ![n] = IF read >= 2 THEN doc.lamport_ts ELSE @]
     /\ maps' = [maps EXCEPT ![n] = new]
     /\ seen' = [seen EXCEPT ![n] = IF read = 4 THEN doc.seen ELSE @]
     /\ UNCHANGED <<issued, docs>>

SnapshotInit == Init /\ docs = {}

SyncNext ==
  \/ Next /\ UNCHANGED docs
  \/ \E n \in Replicas : SerializeJson(n)
  \/ \E n \in Replicas, doc \in docs : MergeDocument(n, doc)

SyncSpec == SnapshotInit /\ [][SyncNext]_snapshotVars

\* The documents come from serialize_json, so each arrives whole, or cut in a
\* way that makes it no JSON text at all.
JoinNext ==
  \/ Next /\ UNCHANGED docs
  \/ \E n \in Replicas : SerializeJson(n)
  \/ \E n \in Replicas, doc \in docs, read \in {0, 4} : ParseJson(n, doc, read, {})

JoinSpec == SnapshotInit /\ [][JoinNext]_snapshotVars
=============================================================================
