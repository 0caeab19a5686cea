------------------------------- MODULE Coding -------------------------------
(***************************************************************************)
(* The classes that turn data into bytes, lines or decisions, each fed     *)
(* with every input of bounded length.  A behaviour picks a subject and    *)
(* appends inputs one by one; an invariant applies the operators of a      *)
(* module to the input so far, or looks at the object that was given one   *)
(* input after the other, and compares the result with a reference         *)
(* definition that is written from the standard, not from the code.        *)
(***************************************************************************)
EXTENDS RtcpPacket, RtpVideoPacketizer, SrtpSession, StunMessage, Sdp, GccEstimator,
        JitterBuffer

CONSTANTS Inputs,   \* the inputs of each subject
          Depth     \* how many inputs of each subject are tried

VARIABLES subject, input,
          object    \* the GccEstimator, or the JitterBuffer with what it handed out

vars == <<subject, input, object>>

\* The receiver's timer calls pop, before the delay since the last arrival is
\* over or after it.  It and the network that pushes keep no step.
EarlyPop == -2
DuePop == -1
Pops == {EarlyPop, DuePop}

AfterEvent(b, x) ==
  IF x \notin Pops THEN [b EXCEPT !.buf = JitterPushed(@, x)]
  ELSE IF MayPop(b.buf, x = DuePop)
       THEN [buf |-> b.buf \ {PopsSeq(b.buf)}, out |-> Append(b.out, PopsSeq(b.buf))]
       ELSE b

Fresh(s) ==
  CASE s = "delays" -> EstimatorInit
    [] s = "jitter" -> [buf |-> {}, out |-> <<>>]
    [] OTHER -> <<>>

Advanced(s, o, x) ==
  CASE s = "delays" -> OnPacketArrival(o, x)
    [] s = "jitter" -> AfterEvent(o, x)
    [] OTHER -> o

ASSUME InputsAssumption ==
  /\ Depth \in [DOMAIN Inputs -> Nat]
  /\ "nack" \in DOMAIN Inputs => Inputs["nack"] \subseteq Seqs
  /\ "sdp" \in DOMAIN Inputs => Inputs["sdp"] \subseteq SdpLines
  /\ "delays" \in DOMAIN Inputs => Inputs["delays"] \subseteq Int
  /\ "jitter" \in DOMAIN Inputs => Inputs["jitter"] \subseteq Seqs \cup Pops

Init == subject \in DOMAIN Inputs /\ input = <<>> /\ object = Fresh(subject)

\* One more input.
Feed ==
  /\ Len(input) < Depth[subject]
  /\ \E x \in Inputs[subject] :
       input' = Append(input, x) /\ object' = Advanced(subject, object, x)
  /\ UNCHANGED subject

Spec == Init /\ [][Feed]_vars

-----------------------------------------------------------------------------
\* Numbers lost, in any order and repeatedly: rtcp_packet.cpp:116.

\* The fewest pairs that name a set of numbers: the smallest set of first
\* numbers, each itself lost, such that every number is at most BlpBits behind
\* one of them.  Behind is meant as RFC 4585 has it, modulo 2^16.
FewestPairs(seqs) ==
  Min({Cardinality(firsts) : firsts \in
         {f \in SUBSET seqs : \A s \in seqs : \E t \in f : SeqsFrom(t, s) \in 0..BlpBits}})

\* Numbers lost on both sides of the wrap that one pair could name.
AcrossWrap(seqs) == \E s, t \in seqs : s < t /\ SeqsFrom(t, s) \in 0..BlpBits

\* How many pairs serialize may take.
PairsAllowed(seqs) ==
  FewestPairs(seqs)..(FewestPairs(seqs) + (IF AcrossWrap(seqs) THEN 1 ELSE 0))

Ascending(seq) == \A i, j \in DOMAIN seq : i < j => seq[i] < seq[j]

\* A NACK that crosses the network tells the sender exactly the lost numbers,
\* each once and ascending; in as few pairs as possible, or, where numbers are
\* lost on both sides of the wrap, in one more at most, since serialize sorts
\* them as they are; a datagram that was cut is refused, words of a further
\* message behind it are not read, and neither parse function takes the other's
\* message (RtcpNack::serialize and parse, RtcpSR::parse).
NackExact ==
  subject = "nack" =>
    LET words == SerializeNack(input, 11, 22)
        sr == SerializeSR(<<11, 1, 2, 3, 4, 5>>)
        read == ParseNack(words)
    IN /\ read.ok /\ read.sender = 11 /\ read.media = 22
       /\ ToSet(read.lost) = ToSet(input) /\ Ascending(read.lost)
       /\ ParseNack(words \o sr) = read
       /\ \A n \in 0..(Len(words) - 1) : ~ParseNack(SubSeq(words, 1, n)).ok
       /\ Len(words) - 3 \in PairsAllowed(ToSet(input))
       /\ ~ParseNack(sr).ok /\ ParseSR(words) = <<>>
       /\ ParseSR(sr \o words) = <<11, 1, 2, 3, 4, 5>>

-----------------------------------------------------------------------------
\* The bytes of a NAL unit, piece by piece: rtp_video_packetizer.cpp:18, rtp_packet.cpp:16.

\* What a receiver makes of payloads according to RFC 6184.
Depacketized(payloads) ==
  LET first == payloads[1]
  IN IF first[1] % 32 # 28 THEN first
     ELSE <<first[1] - (first[1] % 32) + (first[2] % 32)>>
            \o FlattenSeq([k \in DOMAIN payloads |-> Drop(payloads[k], 2)])

\* The fragments carry S on the first and E on the last only.
FragmentFlags(payloads) ==
  \A k \in DOMAIN payloads :
    payloads[k][1] % 32 = 28 =>
      /\ payloads[k][2] \div 64 = (IF k = 1 THEN 2 ELSE IF k = Len(payloads) THEN 1 ELSE 0)
      /\ Len(payloads) > 1

\* The start code is two or three zeros and a one.
WithoutStartCode(bytes) ==
  LET codes == {n \in 3..4 : n <= Len(bytes) /\ bytes[n] = 1
                               /\ \A k \in 1..(n - 1) : bytes[k] = 0}
  IN IF codes = {} THEN bytes ELSE Drop(bytes, Min(codes))

\* The session of either end of one direction: two uses of init with the same
\* key and salt.
Session == SessionInit(77, [k \in 1..14 |-> 240 + k])

\* A NAL unit that is cut into RTP packets, each protected by the sender and
\* unprotected by the receiver, is rebuilt from their payloads
\* byte for byte; no payload exceeds MAX_RTP_PAYLOAD, the numbers are consecutive
\* across the wrap and go on where they ended, the last packet alone has the
\* marker (packetize, make_fua_packets, build, protect, unprotect, parse).
VideoArrives ==
  subject = "nal" =>
    LET bytes == FlattenSeq(input)
        nal == WithoutStartCode(bytes)
        sent == Packetize(bytes, 96, SeqSpace - 2, 3000, 7)
        packets == [k \in DOMAIN sent |-> Unprotect(Session, Protect(Session, sent[k]))]
        payloads == [k \in DOMAIN packets |-> Payload(packets[k], ParsedOffset(packets[k]))]
    IN /\ (nal = <<>>) = (packets = <<>>)
       /\ nal # <<>> => Depacketized(payloads) = nal /\ FragmentFlags(payloads)
       /\ SeqAfter(bytes, SeqSpace - 2) = (SeqSpace - 2 + Len(packets)) % SeqSpace
       /\ \A k \in DOMAIN packets :
            /\ Parses(packets[k]) /\ Len(payloads[k]) <= MaxRtpPayload
            /\ Sequence(packets[k]) = (SeqSpace + k - 3) % SeqSpace
            /\ Marker(packets[k]) = (k = Len(packets))

\* A packet with cc CSRCs, and an extension of ext words unless ext = -1.
PacketWith(cc, ext, payload) ==
  <<128 + (IF ext = -1 THEN 0 ELSE 16) + cc, 96>> \o Bytes(2, 5) \o Bytes(4, 3000) \o Bytes(4, 7)
    \o [k \in 1..(4 * cc) |-> 9]
    \o (IF ext = -1 THEN <<>> ELSE <<190, 222>> \o Bytes(2, ext) \o [k \in 1..(4 * ext) |-> 8])
    \o payload

\* Whatever stands between fixed header and payload, a receiver that unprotects
\* the packet and parses it finds the payload, and refuses the datagram if it ends
\* before it; the constructor agrees as long as there is no extension
\* (unprotect, parse, RtpPacket(data)).
HeaderSkipped ==
  subject = "nal" =>
    \A cc \in 0..2, ext \in -1..2 :
      LET payload == FlattenSeq(input)
          sent == PacketWith(cc, ext, payload)
          data == Unprotect(Session, Protect(Session, sent))
          head == Len(sent) - Len(payload)
      IN /\ Parses(data) /\ Payload(data, ParsedOffset(data)) = payload
         /\ \A n \in 0..(head - 1) : ~Parses(SubSeq(data, 1, n))
         /\ CtorOffset(data) = ParsedOffset(data) <=> ext = -1

\* Both, from the NAL unit to the payloads of the receiver.
MediaArrives == VideoArrives /\ HeaderSkipped

-----------------------------------------------------------------------------
\* The attributes of a message, in any order: stun_message.cpp:71.

Password == 42
Ip == <<192, 168, 1, 7>>
Port == <<31, 144>>

\* The message with one more attribute.
Added(msg, op) ==
  CASE op = "name" -> WithAttr(msg, Username, <<97, 98, 58, 99, 100>>)
    [] op = "priority" -> WithAttr(msg, Priority, <<110, 255, 255, 255>>)
    [] op = "controlling" -> WithAttr(msg, IceControlling, <<1, 2, 3, 4, 5, 6, 7, 8>>)
    [] op = "address" -> AddXorMappedAddress(msg, Ip, Port)
    [] op = "integrity" -> AddMessageIntegrity(msg, Password)
    [] op = "fingerprint" -> AddFingerprint(msg)

BuiltMessage(ops) ==
  FoldLeft(Added, [type |-> 1, tid |-> [k \in 1..12 |-> 200 + k], attrs |-> <<>>], ops)

\* The offset of the k-th attribute in the bytes of the message.
AttrOffset(attrs, k) ==
  MapThenSumSet(LAMBDA i : 4 + 4 * ((Len(attrs[i].value) + 3) \div 4), 1..(k - 1)) + HeaderLen

\* What RFC 5389 has a receiver hash to verify attribute k: the bytes it got
\* in front of it, the length set to the end of the attribute.
Hashed(data, attrs, k) ==
  LET offset == AttrOffset(attrs, k)
      end == offset + 4 + Len(attrs[k].value)
  IN SubSeq(data, 1, 2) \o Bytes(2, end - HeaderLen) \o SubSeq(data, 5, offset)

\* A CRC-32 of bytes followed by its four bytes, the lowest first, is always
\* the same number.
CrcResidue == <<33, 68, 223, 28>>

\* A message is read as it was written, whatever its attributes and their
\* lengths and whatever stands behind it in the buffer; a datagram that was cut
\* is refused; a receiver that follows the RFC verifies the integrity and the
\* fingerprint wherever they were added, and finds the address
\* (serialize, add_message_integrity, add_fingerprint, parse and the getters).
StunSurvives ==
  subject = "stun" =>
    LET msg == BuiltMessage(input)
        data == Serialize(msg)
        read == ParseStun(data)
        kinds == {input[k] : k \in DOMAIN input}
    IN /\ IsStun(data) /\ read = [ok |-> TRUE] @@ msg
       /\ ParseStun(data \o <<0, 1, 128>>) = read
       /\ \A n \in 0..(Len(data) - 1) : ~ParseStun(SubSeq(data, 1, n)).ok
       /\ \A k \in DOMAIN read.attrs :
            LET value == read.attrs[k].value
                crc == XorBytes(value, <<83, 84, 85, 78>>)
            IN CASE read.attrs[k].type = MessageIntegrity ->
                      value = Hmac(Password, Hashed(data, read.attrs, k))
                 [] read.attrs[k].type = Fingerprint ->
                      Crc32(Hashed(data, read.attrs, k) \o Reverse(crc)) = CrcResidue
                 [] OTHER -> TRUE
       /\ "address" \in kinds => GetXorMappedAddress(read) = Port \o Ip
       /\ Get(read, Priority, 4) = (IF "priority" \in kinds THEN <<110, 255, 255, 255>> ELSE <<>>)

-----------------------------------------------------------------------------
\* The lines of a session description: sdp.cpp:41.

MediaStarts(lines) == {k \in DOMAIN lines : lines[k].key = "m"}
LastOf(ks, lines, default) == IF ks = {} THEN default ELSE lines[Max(ks)].value
FirstOf(ks, lines, default) == IF ks = {} THEN default ELSE lines[Min(ks)].value

\* The attributes called name between line m and the next m line.
Named(lines, m, name) ==
  {k \in DOMAIN lines : /\ m < k /\ lines[k].key = "a" /\ lines[k].name = name
                        /\ ~\E n \in MediaStarts(lines) : m < n /\ n < k}

\* Which of the numbers in ks the number k is.
Place(ks, k) == Cardinality({i \in ks : i <= k})

\* media is the section that starts at line m: of several candidates the
\* first, of other texts the last, and all that is mapped, in order.
SectionIs(lines, m, media) ==
  LET maps == Named(lines, m, "rtpmap")
  IN /\ media.type = lines[m].type /\ media.port = lines[m].port
     /\ media.proto = lines[m].proto /\ media.fmts = lines[m].fmts
     /\ \A name \in TextAttributes \ {"candidate"} :
          media.text[name] = LastOf(Named(lines, m, name), lines, None)
     /\ media.text["candidate"] =
          FirstOf({k \in Named(lines, m, "candidate") : lines[k].value # None}, lines, None)
     /\ Len(media.rtpmap) = Cardinality(maps)
     /\ \A k \in maps : media.rtpmap[Place(maps, k)] = <<lines[k].pt, lines[k].codec>>

\* Whether a section maps something that is no number.
BadMap(lines) ==
  \E m \in MediaStarts(lines), k \in DOMAIN lines :
    m < k /\ lines[k].key = "a" /\ lines[k].name = "rtpmap" /\ lines[k].pt = NoNumber

\* What comes back of a description: a section without a type has got one.
ReadBack(sdp) ==
  [sdp EXCEPT !.media = [k \in DOMAIN @ |->
     IF @[k].type = None THEN [@[k] EXCEPT !.type = "0"] ELSE @[k]]]

\* parse throws if and only if a section maps something that is no number;
\* otherwise each section holds what its own lines say, and what serialize
\* writes of the result is read back to the same description, but for sections
\* whose m line was empty (Sdp::parse, Sdp::serialize).
SdpNormalForm ==
  subject = "sdp" =>
    LET r == ParseSdp(input)
        starts == MediaStarts(input)
        text(key) == {k \in DOMAIN input : input[k].key = key}
    IN /\ r.thrown <=> BadMap(input)
       /\ ~r.thrown =>
            /\ Len(r.sdp.media) = Cardinality(starts)
            /\ \A m \in starts : SectionIs(input, m, r.sdp.media[Place(starts, m)])
            /\ r.sdp.v = LastOf(text("v"), input, "0")
            /\ r.sdp.o = LastOf(text("o"), input, None)
            /\ r.sdp.s = LastOf(text("s"), input, "-")
            /\ ParseSdp(SerializeSdp(r.sdp)) = [thrown |-> FALSE, sdp |-> ReadBack(r.sdp)]

-----------------------------------------------------------------------------
\* The delays of packets that arrive: gcc_estimator.cpp:7.

\* The slope by pairs of packets instead of means: numerator and denominator.
PairSum(w, Weight(_, _)) ==
  Total([j \in 1..Len(w) |-> Total([i \in 1..(j - 1) |-> Weight(i, j)])])

TrendState(w) ==
  LET num == PairSum(w, LAMBDA i, j : (j - i) * (w[j] - w[i]))
      den == PairSum(w, LAMBDA i, j : (j - i) * (j - i))
  IN IF 2 * num > den THEN "Overuse" ELSE IF 2 * num < -den THEN "Underuse" ELSE "Normal"

\* The least estimate: overuse ends with a raise of 100000 before the next cut.
LowestRate == 566666

\* The state is that of the least-squares slope of the last TRENDLINE_WIN
\* delays, numbers that were dropped from the window leave no trace; an overuse
\* cuts the rate once however long it lasts, so that the estimate never falls
\* below LowestRate, far above the floor in the code (on_packet_arrival).
RateFollowsTrend ==
  subject = "delays" =>
    LET n == Len(input)
        window == SubSeq(input, Larger(n - TrendlineWin, 0) + 1, n)
    IN /\ object.state = (IF n < 4 THEN "Normal" ELSE TrendState(window))
       /\ object.bps >= LowestRate

-----------------------------------------------------------------------------
\* Packets that arrive and calls of pop, in any order: jitter_buffer.cpp:7.

ArrivalOf(events, seq) == Min({k \in DOMAIN events : events[k] = seq})

\* The packets with higher numbers that arrived before seq.
Ahead(events, seq) ==
  {t \in ToSet(events) : t > seq /\ ArrivalOf(events, t) < ArrivalOf(events, seq)}

ArriveOnce(events) ==
  \A i, j \in DOMAIN events : i # j /\ events[i] = events[j] => events[i] \in Pops

\* By how many the packets outnumber the calls of pop behind the first k events.
Backlog(events, k) ==
  LET later == (k + 1)..Len(events)
  IN Cardinality({i \in later : events[i] \notin Pops})
       - Cardinality({i \in later : events[i] \in Pops})

\* What came waits or was handed out.  More than Limit wait only in a burst: the
\* excess is at most what came, less the calls of pop, since some earlier moment.
\* As long as no call of pop is due, a packet that at most Limit newer ones
\* overtook comes out in order, if the numbers do not wrap; and at any time one
\* that comes out late arrived late (push and pop, packets that arrive once).
JitterDepth ==
  subject = "jitter" =>
    /\ ToSet(input) \ Pops = object.buf \cup ToSet(object.out)
    /\ \E k \in 0..Len(input) : Cardinality(object.buf) <= Limit + Backlog(input, k)
    /\ ArriveOnce(input) /\ DuePop \notin ToSet(input)
         /\ (\A s \in ToSet(input) \ Pops : Cardinality(Ahead(input, s)) <= Limit)
         => LET n == Len(object.out)
            IN /\ \A i, j \in 1..n : i < j => object.out[i] < object.out[j]
               /\ \A i \in 1..n, s \in object.buf : object.out[i] < s
    /\ ArriveOnce(input) =>
         \A i, j \in DOMAIN object.out :
           i < j /\ object.out[i] > object.out[j] =>
             ArrivalOf(input, object.out[i]) < ArrivalOf(input, object.out[j])
=============================================================================
