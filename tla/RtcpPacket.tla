----------------------------- MODULE RtcpPacket -----------------------------
(***************************************************************************)
(* RtcpSR and RtcpNack of module02.  A message is a sequence of 32-bit     *)
(* words, each a record of the fields it holds; a datagram may be cut or   *)
(* carry further words.  A NACK packs the lost numbers into pairs of a     *)
(* first number (fsn) and a mask (blp) of the BlpBits numbers after it;    *)
(* the mask is the set of the bits that are set.                           *)
(***************************************************************************)
EXTENDS RtpSequence, Sequences, SequencesExt

CONSTANT BlpBits   \* 16: bits of the mask

ASSUME BlpAssumption == BlpBits \in Nat

\* The common header: version, count or format, packet type, and length in
\* words without this one.
Header(fmt, pt, length) == [v |-> 2, fmt |-> fmt, pt |-> pt, length |-> length]

\* What both parse functions ask of the header before they read the rest.
WellFormed(words, atLeast, pt) ==
  /\ Len(words) >= atLeast
  /\ words[1].v = 2 /\ words[1].pt = pt
  /\ Len(words) >= words[1].length + 1

\* RtcpSR::serialize; fields are ssrc, the NTP time, the RTP time, and the
\* two counters.
SerializeSR(fields) == <<Header(0, 200, 6)>> \o fields

\* RtcpSR::parse: the fields it reads, or <<>> if it refuses.
ParseSR(words) ==
  IF WellFormed(words, 7, 200) THEN SubSeq(words, 2, 7) ELSE <<>>

-----------------------------------------------------------------------------
\* Mutant: the mask ends one bit early, the skip does not.
BlpShort(seqs, fsn) == {s - fsn - 1 : s \in {t \in seqs : t - fsn \in 1..(BlpBits - 1)}}

\* The bits of the mask behind fsn.
Blp(seqs, fsn) == {s - fsn - 1 : s \in {t \in seqs : t - fsn \in 1..BlpBits}}

\* One turn of the loop over lost_seqs, sorted and without repetitions: the
\* smallest number left starts a pair, what the mask reaches is skipped.
NackRound(r) ==
  IF r.left = {} THEN r
  ELSE LET fsn == Min(r.left)
       IN [left |-> {s \in r.left : s - fsn > BlpBits},
           pairs |-> Append(r.pairs, [fsn |-> fsn, blp |-> Blp(r.left, fsn)])]

\* The pairs; the loop ends after at most as many turns as there are numbers.
NackPairs(lost) ==
  LET round[k \in 0..Len(lost)] ==
        IF k = 0 THEN [left |-> ToSet(lost), pairs |-> <<>>] ELSE NackRound(round[k - 1])
  IN round[Len(lost)].pairs

\* RtcpNack::serialize
SerializeNack(lost, senderSsrc, mediaSsrc) ==
  LET pairs == NackPairs(lost)
  IN <<Header(1, 205, Len(pairs) + 2), senderSsrc, mediaSsrc>> \o pairs

\* The numbers of a pair in the order parse appends them, bit by bit.
Unpacked(pair) ==
  LET bits[i \in 0..BlpBits] ==
        IF i = 0 THEN <<pair.fsn>>
        ELSE IF i - 1 \in pair.blp THEN Append(bits[i - 1], (pair.fsn + i) % SeqSpace)
        ELSE bits[i - 1]
  IN bits[BlpBits]

\* The numbers of the pairs up to word n; the first pair is word 3.
UnpackedUpTo(words, n) ==
  LET read[k \in 0..n] ==
        IF k < 3 THEN <<>> ELSE read[k - 1] \o Unpacked(words[k + 1])
  IN read[n]

\* RtcpNack::parse: the message it reads; ok is FALSE if it refuses.  The
\* length of the header says where the pairs end.
ParseNack(words) ==
  IF ~(WellFormed(words, 3, 205) /\ words[1].fmt = 1)
  THEN [ok |-> FALSE, lost |-> <<>>]
  ELSE [ok |-> TRUE, sender |-> words[2], media |-> words[3],
        lost |-> UnpackedUpTo(words, words[1].length)]
=============================================================================
