-------------------------- MODULE RtpJitterBuffer --------------------------
(***************************************************************************)
(* RtpJitterBuffer of module02: packets by sequence number, taken out in   *)
(* the order of the numbers from the first that arrived.                   *)
(***************************************************************************)
EXTENDS RtpSequence

JitterInit == [buf |-> {}, nextSeq |-> 0, started |-> FALSE]

\* buf_.emplace: a packet that is there under the number already stays.
Emplaced(buf, p) == IF \E q \in buf : q.seq = p.seq THEN buf ELSE buf \cup {p}

\* Mutant: every push starts the sequence anew.
PushedRestarting(b, p) ==
  [buf |-> Emplaced(b.buf, p), nextSeq |-> p.seq, started |-> TRUE]

\* push(pkt): the first packet sets next_seq_.
Pushed(b, p) ==
  [buf |-> Emplaced(b.buf, p),
   nextSeq |-> IF b.started THEN b.nextSeq ELSE p.seq,
   started |-> TRUE]

\* pop_next(): the packet it returns, none if {}.
NextPackets(b) == {p \in b.buf : p.seq = b.nextSeq}

\* pop_next(): the buffer afterwards, when a packet was returned.
Popped(b) == [b EXCEPT !.buf = @ \ NextPackets(b), !.nextSeq = NextSeq(@)]
=============================================================================
