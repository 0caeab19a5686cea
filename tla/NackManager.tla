---------------------------- MODULE NackManager ----------------------------
(***************************************************************************)
(* NackManager of module08: the receiver's list of missing packets.  Its   *)
(* state is a record; the operations map it to the state they leave.       *)
(* The time stored with a missing number is reduced to whether 100 ms have *)
(* passed since: `due' holds the numbers for which they have.              *)
(***************************************************************************)
EXTENDS RtpSequence

NackInit ==
  [received |-> {}, maxSeen |-> 0, started |-> FALSE,
   missing |-> {}, due |-> {}]

\* Mutant: the loop over the gap starts one number late.
GapWithoutFirst(prev, seq) ==
  {s \in Seqs : SeqsFrom(prev, s) \in 2..(SeqsFrom(prev, seq) - 1)}

\* The numbers after prev and before seq, walking round.
Gap(prev, seq) ==
  {s \in Seqs : SeqsFrom(prev, s) \in 1..(SeqsFrom(prev, seq) - 1)}

\* on_receive of the first packet.
OnReceiveFirst(n, seq) ==
  [n EXCEPT !.received = @ \cup {seq}, !.maxSeen = seq, !.started = TRUE]

\* on_receive of a later one: the gap that a newer packet opens goes into
\* missing_, except what was received before; the packet itself leaves it.
OnReceiveNext(n, seq) ==
  LET newer == SeqGt(seq, n.maxSeen)
      gaps == IF newer THEN Gap(n.maxSeen, seq) \ n.received ELSE {}
  IN [n EXCEPT !.received = @ \cup {seq},
               !.maxSeen = IF newer THEN seq ELSE @,
               !.missing = (@ \cup gaps) \ {seq},
               !.due = @ \ (gaps \cup {seq})]

\* on_receive(seq)
OnReceive(n, seq) ==
  IF n.started THEN OnReceiveNext(n, seq) ELSE OnReceiveFirst(n, seq)

\* 100 ms have passed since s was entered.
Aged(n, s) == [n EXCEPT !.due = @ \cup {s}]

\* get_nack_list(now)
NackList(n) == n.due
=============================================================================
