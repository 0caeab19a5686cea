----------------------------- MODULE RtpPacket -----------------------------
(***************************************************************************)
(* The RTP header of module02: build writes it, parse and the constructor  *)
(* find the payload behind it.  A packet is its sequence of bytes; an      *)
(* offset counts the bytes before the payload, as payload_offset_ does.    *)
(***************************************************************************)
EXTENDS BigEndian

MinHeaderLen == 12

\* RtpPacket::build
Build(pt, seq, timestamp, ssrc, payload, marker) ==
  <<128, (IF marker THEN 128 ELSE 0) + (pt % 128)>>
    \o Bytes(2, seq) \o Bytes(4, timestamp) \o Bytes(4, ssrc) \o payload

\* The fixed header and the CSRCs it announces.
FixedLen(data) == MinHeaderLen + 4 * (data[1] % 16)

\* RtpPacket(data): the header extension is not looked at.
CtorOffset(data) == IF Len(data) >= MinHeaderLen THEN FixedLen(data) ELSE 0

\* parse: where the payload starts.
ParsedOffset(data) ==
  FixedLen(data) + IF (data[1] \div 16) % 2 = 0 THEN 0
                   ELSE 4 + 4 * NumberAt(data, FixedLen(data) + 2, 2)

\* parse(data, len): whether it accepts; it never reads behind the end.
Parses(data) ==
  /\ Len(data) >= MinHeaderLen
  /\ data[1] \div 64 = 2
  /\ Len(data) >= FixedLen(data)
  /\ (data[1] \div 16) % 2 = 1 =>
       FixedLen(data) + 4 <= Len(data) /\ ParsedOffset(data) <= Len(data)

\* marker, sequence, and payload with payload_size
Marker(data) == data[2] >= 128
Sequence(data) == NumberAt(data, 2, 2)
Payload(data, offset) == SubSeq(data, offset + 1, Len(data))
=============================================================================
