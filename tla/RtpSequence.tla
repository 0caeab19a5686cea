---------------------------- MODULE RtpSequence ----------------------------
(***************************************************************************)
(* RTP sequence numbers (module02): unsigned numbers that wrap, and the    *)
(* comparison of RFC 3550, by the sign of the wrapped difference.          *)
(***************************************************************************)
EXTENDS Naturals

CONSTANT SeqSpace   \* 2^16: values of uint16_t

ASSUME SeqSpaceAssumption == SeqSpace \in Nat \ {0} /\ SeqSpace % 2 = 0

Seqs == 0..(SeqSpace - 1)

\* ++seq on a uint16_t
NextSeq(s) == (s + 1) % SeqSpace

\* static_cast<uint16_t>(b - a)
SeqsFrom(a, b) == (b + SeqSpace - a) % SeqSpace

\* Mutant: the numbers are compared as they are.
SeqGtPlain(a, b) == a > b

\* seq_gt: (int16_t)(a - b) > 0, a is newer than b.
SeqGt(a, b) == SeqsFrom(b, a) \in 1..(SeqSpace \div 2 - 1)
=============================================================================
