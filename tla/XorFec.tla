------------------------------- MODULE XorFec -------------------------------
(***************************************************************************)
(* XorFecEncoder and XorFecDecoder of module08: after every GroupSize data *)
(* packets the sender adds their exclusive or, from which the receiver     *)
(* rebuilds one lost packet of the group.                                  *)
(*                                                                         *)
(* A payload is [bytes, span]: span is the set of the positions it has,    *)
(* and bytes holds for each byte of a sent packet that was combined into   *)
(* it, and not cancelled again, a value of its own, with the position in   *)
(* it.  A position of span at which nothing stands is a zero byte.         *)
(***************************************************************************)
EXTENDS RtpSequence, FiniteSets

CONSTANT GroupSize   \* group_size_ of both ends

ASSUME GroupSizeAssumption == GroupSize \in Nat \ {0} /\ GroupSize <= SeqSpace

NoPayload == [bytes |-> {}, span |-> {}]

\* The shorter payload is extended by zero bytes.
Xor(a, b) ==
  [bytes |-> (a.bytes \ b.bytes) \cup (b.bytes \ a.bytes), span |-> a.span \cup b.span]

XorOf(packets) ==
  [bytes |-> {x \in UNION {p.payload.bytes : p \in packets} :
                Cardinality({p \in packets : x \in p.payload.bytes}) % 2 = 1},
   span |-> UNION {p.payload.span : p \in packets}]

\* A packet; a FEC packet has the base of its group in its timestamp, here seq.
Packet(fec, seq, payload) == [fec |-> fec, seq |-> seq, payload |-> payload]

-----------------------------------------------------------------------------
(* The encoder.                                                            *)

EncoderInit == [count |-> 0, xorBuf |-> NoPayload, baseSeq |-> 0]

\* XorFecEncoder::feed before the test of count_: the first packet of a
\* group starts xor_buf_, the others are combined into it.
Absorbed(e, p) ==
  IF e.count = 0 THEN [count |-> 1, xorBuf |-> p.payload, baseSeq |-> p.seq]
  ELSE [e EXCEPT !.count = @ + 1, !.xorBuf = Xor(@, p.payload)]

\* Mutant: count_ is not cleared at the end of a group.
EncodedWithoutReset(e, p) == Absorbed(e, p)

\* XorFecEncoder::feed: the state it leaves, cleared at the end of a group.
Encoded(e, p) ==
  LET f == Absorbed(e, p) IN
  IF f.count = GroupSize THEN [f EXCEPT !.count = 0, !.xorBuf = NoPayload] ELSE f

\* XorFecEncoder::feed: the packets it returns.
FecPackets(e, p) ==
  LET f == Absorbed(e, p) IN
  IF f.count = GroupSize THEN {Packet(TRUE, f.baseSeq, f.xorBuf)} ELSE {}

-----------------------------------------------------------------------------
(* The decoder.  groups_ is the set of the packets it holds.               *)

\* XorFecDecoder::feed: the group a packet belongs to.
GroupOf(p) == IF p.fec THEN p.seq ELSE (p.seq \div GroupSize) * GroupSize

\* XorFecDecoder::feed: the packet is stored; a data packet that is there
\* already is not stored again, a FEC packet replaces the one there.
Stored(g, p) ==
  IF p.fec THEN {q \in g : ~(q.fec /\ q.seq = p.seq)} \cup {p}
  ELSE IF \E q \in g : ~q.fec /\ q.seq = p.seq THEN g
  ELSE g \cup {p}

Held(g, base) == {q \in g : GroupOf(q) = base}

\* The numbers of the group at base that have no packet.
MissingSeqs(g, base) ==
  LET held == {q.seq : q \in {r \in Held(g, base) : ~r.fec}}
  IN {(base + i) % SeqSpace : i \in 0..(GroupSize - 1)} \ held

\* The bases of the groups that have their FEC packet.
ProtectedBases(g) == {q.seq : q \in {r \in g : r.fec}}

\* Mutant: a group is taken although two packets are missing.
RecoverableTooEarly(g) ==
  {base \in ProtectedBases(g) : Cardinality(MissingSeqs(g, base)) \in {1, 2}}

\* The bases of the groups that have their FEC packet and miss one packet.
Recoverable(g) ==
  {base \in ProtectedBases(g) : Cardinality(MissingSeqs(g, base)) = 1}

\* The packet rebuilt from the group at base, as long as the longest packet of
\* the group: the length of the lost one is nowhere.  Of several missing
\* numbers the loop would keep the last.
Rebuilt(g, base) ==
  LET missing == MissingSeqs(g, base)
  IN Packet(FALSE, CHOOSE s \in missing : \A t \in missing : t <= s,
            XorOf(Held(g, base)))

\* groups_ is searched in the order of its keys and one group is rebuilt.
FirstRecoverable(g) ==
  LET bases == Recoverable(g)
  IN CHOOSE base \in bases : \A b \in bases : base <= b

\* XorFecDecoder::feed: what it returns, and groups_ afterwards.
Recovered(g, p) ==
  LET h == Stored(g, p) IN
  IF Recoverable(h) = {} THEN {} ELSE {Rebuilt(h, FirstRecoverable(h))}

Decoded(g, p) ==
  LET h == Stored(g, p) IN
  IF Recoverable(h) = {} THEN h ELSE h \ Held(h, FirstRecoverable(h))
=============================================================================
