----------------------------- MODULE BigEndian -----------------------------
(* Numbers in network byte order, as write_u16, write_u32, read_u16 and     *)
(* read_u32 of modules 02 and 03 put them into byte buffers, the exclusive  *)
(* or of byte buffers, and the HMAC that modules 03 and 04 take of them.    *)
EXTENDS Naturals, Sequences, SequencesExt, FiniteSetsExt

\* The n bytes of v, the highest first.
Bytes(n, v) == [k \in 1..n |-> (v \div 256 ^ (n - k)) % 256]

\* The number that n bytes after the first `offset' of data stand for.
NumberAt(data, offset, n) ==
  FoldLeft(LAMBDA v, b : v * 256 + b, 0, SubSeq(data, offset + 1, offset + n))

\* A byte as the set of its bits that are 1, and back.
Bits(byte) == {i \in 0..7 : (byte \div 2 ^ i) % 2 = 1}
ByteOf(bits) == MapThenSumSet(LAMBDA i : 2 ^ i, bits)
XorBits(a, b) == SymDiff(a, b)
XorByte == [a \in 0..255 |-> [b \in 0..255 |-> ByteOf(XorBits(Bits(a), Bits(b)))]]
XorBytes(a, b) == [k \in DOMAIN a |-> XorByte[a[k]][b[k]]]

\* HMAC with EVP_sha1: 20 bytes that depend on the key and on every byte of
\* data, byte k on those at the places k, k + 20, k + 40 and so on.
Hmac(key, data) ==
  LET every20th(k) == [i \in 1..((Len(data) + 20 - k) \div 20) |-> data[20 * (i - 1) + k]]
  IN [k \in 1..20 |-> FoldLeft(LAMBDA h, b : (h * 31 + b) % 251, key + Len(data), every20th(k))]
=============================================================================
