----------------------------- MODULE SrtpSession -----------------------------
(***************************************************************************)
(* SrtpSession of module04: an RTP packet, a sequence of bytes, is masked  *)
(* behind its fixed header with AES in counter mode and gets a tag of ten  *)
(* bytes.  Both are taken from OpenSSL; here they only have to depend on   *)
(* key, counter and data.                                                  *)
(***************************************************************************)
EXTENDS BigEndian

FixedHeader == 12
TagLen == 10

\* AES_encrypt: sixteen bytes.
Aes(key, counter) ==
  LET h == FoldLeft(LAMBDA d, b : (d * 31 + b) % 65521, key, counter)
  IN [k \in 1..16 |-> (h \div k) % 256]

\* init: the rollover counter starts at 0, and nothing ever raises it.
SessionInit(key, salt) == [key |-> key, salt |-> salt, roc |-> 0]

\* build_aes_cm_iv, with the index cut to 32 bits by the parameter of
\* aes_cm_xor: roc * 2^16 + seq keeps the lower half of roc.
AesCmIv(session, ssrc, seq) ==
  XorBytes(session.salt \o <<0, 0>>,
           <<0, 0, 0, 0>> \o ssrc \o <<0, 0>> \o Bytes(2, session.roc % 65536) \o seq \o <<0, 0>>)

\* The counter that is n blocks after the first, by carries from the end.
CounterAfter(iv, n) ==
  LET next(c) == LET k == Max({0} \cup {i \in DOMAIN c : c[i] # 255})
                 IN [i \in DOMAIN c |-> IF i > k THEN 0 ELSE IF i = k THEN c[i] + 1 ELSE c[i]]
  IN FoldLeft(LAMBDA c, k : next(c), iv, [k \in 1..n |-> k])

\* aes_cm_xor of all that follows the fixed header, CSRCs and extension too;
\* it is its own inverse.
AesCmXor(session, packet) ==
  LET iv == AesCmIv(session, SubSeq(packet, 9, 12), SubSeq(packet, 3, 4))
      body == SubSeq(packet, FixedHeader + 1, Len(packet))
      stream == FlattenSeq([n \in 1..((Len(body) + 15) \div 16) |->
                              Aes(session.key, CounterAfter(iv, n - 1))])
  IN SubSeq(packet, 1, FixedHeader) \o XorBytes(body, stream)

\* hmac_sha1_80
Tag(session, data) == SubSeq(Hmac(session.key, data), 1, TagLen)

\* protect: the packet with payload masked and tag, or <<>> if it is refused.
Protect(session, packet) ==
  IF Len(packet) < FixedHeader THEN <<>>
  ELSE LET masked == AesCmXor(session, packet) IN masked \o Tag(session, masked)

Authentic(session, data) ==
  LET end == Len(data) - TagLen
  IN end >= FixedHeader /\ SubSeq(data, end + 1, Len(data)) = Tag(session, SubSeq(data, 1, end))

\* unprotect: the packet as it was, or <<>> if it is refused.
Unprotect(session, data) ==
  IF Authentic(session, data)
  THEN AesCmXor(session, SubSeq(data, 1, Len(data) - TagLen)) ELSE <<>>
=============================================================================
