----------------------------- MODULE StunMessage -----------------------------
(***************************************************************************)
(* StunMessage of module03: messages with typed attributes, written into   *)
(* and read from byte sequences (RFC 5389).  A message is a record of its  *)
(* type, its transaction id and attrs, the sequence attrs_ of attributes.  *)
(* A word in the computation of the CRC is the set of its bits that are 1. *)
(***************************************************************************)
EXTENDS BigEndian

HeaderLen == 20
MagicCookie == <<33, 18, 164, 66>>

\* The values of StunAttr the program writes.
Username == 6
MessageIntegrity == 8
XorMappedAddress == 32
Priority == 36
Fingerprint == 32808
IceControlling == 32810

ShiftRight(bits, n) == {i - n : i \in {j \in bits : j >= n}}

\* make_crc32_table_entry: 0xEDB88320 for each 1 that is shifted out.
Polynomial == {31, 30, 29, 27, 26, 24, 23, 21, 20, 19, 15, 9, 8, 5}
CrcTable ==
  LET step(c, k) == IF 0 \in c THEN XorBits(Polynomial, ShiftRight(c, 1))
                    ELSE ShiftRight(c, 1)
  IN [index \in SUBSET (0..7) |-> FoldLeft(step, index, <<1, 2, 3, 4, 5, 6, 7, 8>>)]

\* crc32, as its four bytes; crc[n] is the register after n bytes.
Crc32(data) ==
  LET crc[n \in 0..Len(data)] ==
        IF n = 0 THEN 0..31
        ELSE LET c == crc[n - 1]
                 entry == CrcTable[XorBits(c \cap 0..7, Bits(data[n]))]
             IN {b \in 0..31 : (b + 8 \in c) # (b \in entry)}
      last == XorBits(crc[Len(data)], 0..31)
  IN [k \in 1..4 |-> ByteOf({b \in 0..7 : b + 8 * (4 - k) \in last})]

-----------------------------------------------------------------------------
Padding(len) == (4 - (len % 4)) % 4

\* serialize_attrs: type, length, value and the bytes up to a multiple of 4.
AttrBytes(attrs) ==
  FlattenSeq([k \in DOMAIN attrs |->
    Bytes(2, attrs[k].type) \o Bytes(2, Len(attrs[k].value)) \o attrs[k].value
      \o [i \in 1..Padding(Len(attrs[k].value)) |-> 0]])

\* The message as bytes, announcing `more' bytes than it has.
Encoded(msg, more) ==
  LET attrs == AttrBytes(msg.attrs)
  IN Bytes(2, msg.type) \o Bytes(2, Len(attrs) + more) \o MagicCookie
       \o msg.tid \o attrs

\* serialize
Serialize(msg) == Encoded(msg, 0)

WithAttr(msg, type, value) ==
  [msg EXCEPT !.attrs = Append(@, [type |-> type, value |-> value])]

\* add_xor_mapped_address: 0, the family, then port and address, both xored.
AddXorMappedAddress(msg, ip, port) ==
  WithAttr(msg, XorMappedAddress,
           <<0, 1>> \o XorBytes(port, SubSeq(MagicCookie, 1, 2)) \o XorBytes(ip, MagicCookie))

\* Mutant: the length in the header leaves the attribute itself out.
AddMessageIntegrityShort(msg, password) ==
  WithAttr(msg, MessageIntegrity, Hmac(password, Encoded(msg, 0)))

\* add_message_integrity: over the message so far, with the length it has
\* when this attribute (24 bytes) is in.
AddMessageIntegrity(msg, password) ==
  WithAttr(msg, MessageIntegrity, Hmac(password, Encoded(msg, 24)))

\* add_fingerprint: likewise, with 8 bytes; xored with "STUN".
AddFingerprint(msg) ==
  WithAttr(msg, Fingerprint, XorBytes(Crc32(Encoded(msg, 8)), <<83, 84, 85, 78>>))

-----------------------------------------------------------------------------
\* is_stun
IsStun(data) ==
  Len(data) >= HeaderLen /\ data[1] < 64 /\ SubSeq(data, 5, 8) = MagicCookie

Refused == [ok |-> FALSE]

\* The attributes from the offset on; the rest that is shorter than the head
\* of an attribute is passed over.
AttrsFrom(data, start, end) ==
  LET scan[offset \in Nat] ==
        LET len == NumberAt(data, offset + 2, 2)
            attr == [type |-> NumberAt(data, offset, 2),
                     value |-> SubSeq(data, offset + 5, offset + 4 + len)]
            rest == scan[offset + 4 + len + Padding(len)]
        IN IF offset + 4 > end THEN [ok |-> TRUE, attrs |-> <<>>]
           ELSE IF offset + 4 + len > end \/ ~rest.ok THEN Refused
           ELSE [ok |-> TRUE, attrs |-> <<attr>> \o rest.attrs]
  IN scan[start]

\* parse
ParseStun(data) ==
  LET end == HeaderLen + NumberAt(data, 2, 2)
      found == AttrsFrom(data, HeaderLen, end)
  IN IF ~IsStun(data) \/ Len(data) < end \/ ~found.ok THEN Refused
     ELSE [ok |-> TRUE, type |-> NumberAt(data, 0, 2), tid |-> SubSeq(data, 9, 20),
           attrs |-> found.attrs]

\* The value of the first attribute of the type with so many bytes, or <<>>:
\* get_string_attr asks for none, get_uint32_attr for 4.
Get(msg, type, atLeast) ==
  LET ks == {k \in DOMAIN msg.attrs :
               msg.attrs[k].type = type /\ Len(msg.attrs[k].value) >= atLeast}
  IN IF ks = {} THEN <<>> ELSE msg.attrs[Min(ks)].value

\* get_xor_mapped_address: port and address
GetXorMappedAddress(msg) ==
  LET value == Get(msg, XorMappedAddress, 8)
  IN XorBytes(SubSeq(value, 3, 8), SubSeq(MagicCookie, 1, 2) \o MagicCookie)
=============================================================================
