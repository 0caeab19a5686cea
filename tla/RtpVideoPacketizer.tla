------------------------- MODULE RtpVideoPacketizer -------------------------
(***************************************************************************)
(* RtpVideoPacketizer of module07: one H.264 NAL unit into RTP packets,    *)
(* one packet if it fits and FU-A fragments (RFC 6184) if not.             *)
(***************************************************************************)
EXTENDS RtpSequence, RtpPacket

CONSTANT MaxRtpPayload   \* MAX_RTP_PAYLOAD: 1200

ASSUME MaxRtpPayloadAssumption == MaxRtpPayload \in Nat /\ MaxRtpPayload > 2

Drop(bytes, n) == SubSeq(bytes, n + 1, Len(bytes))

\* skip_start_code
SkipStartCode(bytes) ==
  IF IsPrefix(<<0, 0, 0, 1>>, bytes) THEN Drop(bytes, 4)
  ELSE IF IsPrefix(<<0, 0, 1>>, bytes) THEN Drop(bytes, 3)
  ELSE bytes

\* Mutant: the fragments carry the header of the NAL unit along.
FragmentsWithHeader(nal) ==
  LET room == MaxRtpPayload - 2
      count == (Len(nal) + room - 1) \div room
      end(k) == IF k = count THEN Len(nal) ELSE k * room
  IN [k \in 1..count |-> SubSeq(nal, (k - 1) * room + 1, end(k))]

\* make_fua_packets: the NAL unit behind its header, in pieces that leave
\* room for the two bytes of FU indicator and FU header.
Fragments(nal) ==
  LET room == MaxRtpPayload - 2
      count == (Len(nal) - 1 + room - 1) \div room
      end(k) == IF k = count THEN Len(nal) ELSE k * room + 1
  IN [k \in 1..count |-> SubSeq(nal, (k - 1) * room + 2, end(k))]

\* The payload of fragment k of n: the indicator keeps F and NRI of the NAL
\* header, the FU header its type, with S on the first and E on the last.
FuPayload(nal, k, n, fragment) ==
  <<nal[1] - (nal[1] % 32) + 28,
    (nal[1] % 32) + (IF k = 1 THEN 128 ELSE 0) + (IF k = n THEN 64 ELSE 0)>> \o fragment

\* The payloads packetize makes of the bytes of a NAL unit.
Payloads(bytes) ==
  LET nal == SkipStartCode(bytes)
      parts == Fragments(nal)
  IN IF nal = <<>> THEN <<>>
     ELSE IF Len(nal) <= MaxRtpPayload THEN <<nal>>
     ELSE [k \in 1..Len(parts) |-> FuPayload(nal, k, Len(parts), parts[k])]

\* packetize: numbered from seq on, the marker on the last.
Packetize(bytes, pt, seq, timestamp, ssrc) ==
  LET ps == Payloads(bytes)
  IN [k \in 1..Len(ps) |->
        Build(pt, (seq + k - 1) % SeqSpace, timestamp, ssrc, ps[k], k = Len(ps))]

\* seq, a reference, afterwards.
SeqAfter(bytes, seq) == (seq + Len(Payloads(bytes))) % SeqSpace
=============================================================================
