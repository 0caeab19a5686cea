------------------------- MODULE WeakNetworkProofs -------------------------
(***************************************************************************)
(* Proofs about module08, the part of the program that copes with a weak   *)
(* network, in the stream of MediaPath: for every size of the sequence     *)
(* numbers, of the groups and of the payloads, every first number, every   *)
(* length of the stream up to half of the numbers, and whatever the        *)
(* network loses, reorders and repeats, the list of missing packets is     *)
(* exact, what the decoder rebuilds was sent, but for zero bytes at its    *)
(* end, and playback is in order.                                          *)
(***************************************************************************)
EXTENDS MediaPath, FiniteSetTheorems, TLAPS

-----------------------------------------------------------------------------
(* Arithmetic of the sequence numbers and of the groups.                   *)

\* What the assumptions say of the constants.
LEMMA Constants ==
  /\ SeqSpace \in Nat \ {0} /\ FirstSeq \in 0..(SeqSpace - 1)
  /\ MaxSent \in Nat /\ 2 * MaxSent <= SeqSpace /\ MaxSent < SeqSpace
  /\ GroupSize \in Nat \ {0} /\ GroupSize <= SeqSpace
BY SeqSpaceAssumption, StreamAssumption, GroupSizeAssumption DEF Seqs

\* A number below twice the space wraps at most once.
LEMMA WrapOnce ==
  ASSUME NEW x \in 0..(2 * SeqSpace - 1)
  PROVE  x % SeqSpace = IF x < SeqSpace THEN x ELSE x - SeqSpace
BY Constants

\* The number of packet i.
LEMMA SeqOfValue ==
  ASSUME NEW i \in 0..SeqSpace
  PROVE  /\ SeqOf(i) = IF FirstSeq + i < SeqSpace THEN FirstSeq + i ELSE FirstSeq + i - SeqSpace
         /\ SeqOf(i) \in Seqs
BY Constants, WrapOnce DEF SeqOf, Seqs

\* Division with remainder is what it should be.
LEMMA Quotient ==
  ASSUME NEW g \in Nat \ {0}, NEW q \in Int, NEW r \in 0..(g - 1)
  PROVE  /\ (q * g + r) % g = r
         /\ (q * g + r) \div g = q
<1>1. q * g + r \in Int
  OBVIOUS
<1>. DEFINE x == q * g + r
            d == x \div g
            m == x % g
<1>2. d \in Int /\ m \in 0..(g - 1) /\ x = g * d + m
  BY <1>1
<1>3. g * (d - q) = r - m
  BY <1>2
<1>4. d = q
  <2>1. CASE d - q >= 1
    <3>1. g * (d - q) >= g
      BY <1>2, <2>1
    <3>. QED BY <1>2, <1>3, <3>1
  <2>2. CASE d - q <= -1
    <3>1. g * (d - q) <= -g
      BY <1>2, <2>2
    <3>. QED BY <1>2, <1>3, <3>1
  <2>. QED BY <1>2, <2>1, <2>2
<1>. QED BY <1>2, <1>3, <1>4

\* A number with no remainder is its quotient times the divisor.
LEMMA Multiple ==
  ASSUME NEW a \in Int, NEW g \in Nat \ {0}, a % g = 0
  PROVE  a = (a \div g) * g /\ a \div g \in Int
OBVIOUS

\* Multiples of the group size.
LEMMA MultiplesAdd ==
  ASSUME NEW a \in Int, NEW b \in Int, NEW g \in Nat \ {0}, a % g = 0, b % g = 0
  PROVE  (a + b) % g = 0 /\ (a - b) % g = 0
<1>. DEFINE p == a \div g
            q == b \div g
<1>1. p \in Int /\ q \in Int /\ a = p * g /\ b = q * g
  BY Multiple
<1>2. a + b = (p + q) * g + 0 /\ a - b = (p - q) * g + 0
  BY <1>1
<1>. HIDE DEF p, q
<1>. QED BY <1>1, <1>2, Quotient

\* The first packets of groups.
Bases == {b \in 0..MaxSent : b % GroupSize = 0}

\* The numbers of a group follow that of its first packet, modulo SeqSpace.
LEMMA NumbersFollow ==
  ASSUME NEW b \in 0..MaxSent, NEW d \in 0..(GroupSize - 1), b + d <= MaxSent
  PROVE  (SeqOf(b) + d) % SeqSpace = SeqOf(b + d)
<1>. DEFINE n == SeqSpace
            f == FirstSeq
            sb == SeqOf(b)
            sd == SeqOf(b + d)
            x == sb + d
<1>1. n \in Nat \ {0} /\ f \in 0..(n - 1) /\ b \in Nat /\ d \in Nat /\ b + d < n /\ d < n
  BY Constants
<1>2. b \in 0..n /\ b + d \in 0..n
  BY <1>1
<1>3. /\ sb = IF f + b < n THEN f + b ELSE f + b - n
      /\ sd = IF f + (b + d) < n THEN f + (b + d) ELSE f + (b + d) - n
  BY <1>2, SeqOfValue DEF n, f
<1>. HIDE DEF n, f, sb, sd
<1>4. x \in 0..(2 * n - 1) /\ x = sb + d
  BY <1>1, <1>3
<1>. HIDE DEF x
<1>5. x % n = IF x < n THEN x ELSE x - n
  BY <1>4, WrapOnce DEF n
<1>6. x % n = sd
  BY <1>1, <1>3, <1>4, <1>5
<1>. QED BY <1>6 DEF x, n, sb, sd

\* The packets of a complete group of the sender.
LEMMA GroupIs ==
  ASSUME NEW b \in Bases, b + GroupSize <= MaxSent, NEW m \in b..(b + GroupSize - 1)
  PROVE  Group(m \div GroupSize) = b..(b + GroupSize - 1)
<1>. DEFINE g == GroupSize
            q == b \div g
<1>1. g \in Nat \ {0} /\ b \in Nat /\ b % g = 0 /\ MaxSent \in Nat
  BY Constants DEF Bases
<1>2. b = q * g /\ q \in Int
  BY <1>1, Multiple
<1>. HIDE DEF q, g
<1>3. ASSUME NEW k \in b..(b + g - 1)
      PROVE  k \div g = q
  <2>. DEFINE d == k - b
  <2>1. d \in 0..(g - 1) /\ k = q * g + d
    BY <1>1, <1>2
  <2>. HIDE DEF d
  <2>. QED BY <1>1, <1>2, <2>1, Quotient
<1>4. ASSUME NEW k \in Indices, k \div g = q
      PROVE  k \in b..(b + g - 1)
  <2>. DEFINE d == k % g
  <2>1. k \in Nat /\ d \in 0..(g - 1) /\ k = g * (k \div g) + d
    BY <1>1 DEF Indices
  <2>. HIDE DEF d
  <2>2. k = q * g + d
    BY <1>1, <1>2, <1>4, <2>1
  <2>. QED BY <1>1, <1>2, <2>1, <2>2
<1>5. b..(b + g - 1) \subseteq Indices /\ m \in b..(b + g - 1)
  <2>1. b + g <= MaxSent /\ m \in b..(b + g - 1)
    BY DEF g
  <2>. QED BY <1>1, <2>1 DEF Indices
<1>6. m \div g = q
  BY <1>3, <1>5
<1>. QED BY <1>3, <1>4, <1>5, <1>6 DEF Group, g

\* Within the stream a number stands for one packet.
LEMMA SeqOfInjective ==
  ASSUME NEW i \in 0..MaxSent, NEW j \in 0..MaxSent, SeqOf(i) = SeqOf(j)
  PROVE  i = j
BY Constants, SeqOfValue

-----------------------------------------------------------------------------
(* The inductive invariant.                                                *)

\* The FEC packet of the group that begins with packet b.
FecOf(b) == Packet(TRUE, SeqOf(b), Combined(b..(b + GroupSize - 1)))

SentData == {DataPacket(i) : i \in 0..(sent - 1)}
SentFec == {FecOf(b) : b \in {c \in Bases : c + GroupSize <= sent}}
SentPackets == SentData \cup SentFec

\* What reaches the jitter buffer: data packets, and what the decoder rebuilds.
SentMedia == SentData \cup {Padded(i) : i \in 0..(sent - 1)}

\* What xor_buf_ can hold.
Mixtures == {NoPayload} \cup {Combined(is) : is \in SUBSET Indices}

\* How a packet can be played.
Version(i) == {PayloadOf(i), PaddedPayload(i)}
Versions == UNION {Version(i) : i \in Indices}

\* The encoder has combined the packets of the group that is not complete.
EncoderInv ==
  /\ sent \in 0..MaxSent
  /\ enc \in [count : 0..(GroupSize - 1), xorBuf : Mixtures, baseSeq : Seqs]
  /\ sent - enc.count \in Bases
  /\ enc.count > 0 =>
       /\ enc.xorBuf = Combined((sent - enc.count)..(sent - 1))
       /\ enc.baseSeq = SeqOf(sent - enc.count)

\* Nobody holds anything but packets of the sender.
TransitInv ==
  net \subseteq SentPackets /\ arrived \subseteq SentPackets /\ groups \subseteq SentPackets

\* The data packets that have arrived.
ArrivedIndices == {i \in Indices : DataPacket(i) \in arrived}

\* The packets after the first that arrived and before the newest one that
\* are still to come.
MissingIndices ==
  {i \in Indices : i > first /\ i \notin ArrivedIndices /\ \E k \in ArrivedIndices : k > i}

NackInv ==
  /\ nack \in [received : SUBSET Seqs, maxSeen : Seqs, started : BOOLEAN,
               missing : SUBSET Seqs, due : SUBSET Seqs]
  /\ nack.received = {SeqOf(i) : i \in ArrivedIndices}
  /\ nack.missing = {SeqOf(i) : i \in MissingIndices}
  /\ IF nack.started
     THEN /\ first \in ArrivedIndices
          /\ \E m \in ArrivedIndices :
               nack.maxSeen = SeqOf(m) /\ \A i \in ArrivedIndices : i <= m
     ELSE first = MaxSent /\ ArrivedIndices = {}

\* What was played is a run of the stream, and the buffer waits for what
\* comes after it.
BufferInv(b) ==
  /\ b \in [buf : SUBSET SentMedia, nextSeq : Seqs, started : BOOLEAN]
  /\ played \in Seq(Versions)
  /\ b.started =>
       \E i \in Indices :
         /\ i + Len(played) <= MaxSent
         /\ b.nextSeq = SeqOf(i + Len(played))
         /\ \A k \in 1..Len(played) : played[k] \in Version(i + k - 1)
  /\ ~b.started => b.buf = {} /\ played = <<>>

JitterInv == BufferInv(jitter)

IndInv == EncoderInv /\ TransitInv /\ NackInv /\ JitterInv

-----------------------------------------------------------------------------
(* The decoder.                                                            *)

\* A set of numbers that is not empty has a smallest one.
LEMMA Smallest ==
  ASSUME NEW T \in SUBSET Nat, T # {}
  PROVE  \E x \in T : \A y \in T : x <= y
<1>1. \E x \in T : \A y \in T : ~(<<y, x>> \in OpToRel(<, Nat))
  BY NatLessThanWellFounded, WFMin
<1>2. PICK x \in T : \A y \in T : ~(<<y, x>> \in OpToRel(<, Nat))
  BY <1>1
<1>3. \A y \in T : ~(y < x)
  BY <1>2 DEF OpToRel
<1>. QED BY <1>3

\* The fields of the sender's packets; data and FEC are never confused.
LEMMA PacketFields ==
  /\ \A i : ~DataPacket(i).fec /\ DataPacket(i).seq = SeqOf(i) /\ DataPacket(i).payload = PayloadOf(i)
  /\ \A i : Padded(i).seq = SeqOf(i) /\ Padded(i).payload = PaddedPayload(i)
  /\ \A b : FecOf(b).fec /\ FecOf(b).seq = SeqOf(b)
               /\ FecOf(b).payload = Combined(b..(b + GroupSize - 1))
BY DEF DataPacket, Padded, FecOf, Packet

\* The data packets differ.
LEMMA DataPacketInjective ==
  ASSUME NEW i \in 0..MaxSent, NEW j \in 0..MaxSent, DataPacket(i) = DataPacket(j)
  PROVE  i = j
BY PacketFields, SeqOfInjective

\* The bytes of the packets are told apart.
LEMMA BytesDiffer ==
  ASSUME NEW i, NEW j, i # j
  PROVE  BytesOf(i) \cap BytesOf(j) = {}
BY DEF BytesOf

\* The two parts of a payload.
LEMMA PayloadFields ==
  /\ \A i : PayloadOf(i).bytes = BytesOf(i) /\ PayloadOf(i).span = Positions(i)
  /\ \A is : /\ Combined(is).bytes = UNION {BytesOf(i) : i \in is}
             /\ Combined(is).span = UNION {Positions(i) : i \in is}
BY DEF PayloadOf, Combined

\* A packet is combined with those before it.
LEMMA CombinedGrows ==
  /\ \A i : Combined({i}) = PayloadOf(i)
  /\ \A is, i : i \notin is => Xor(Combined(is), PayloadOf(i)) = Combined(is \cup {i})
<1>1. ASSUME NEW i PROVE Combined({i}) = PayloadOf(i)
  BY DEF Combined, PayloadOf
<1>2. ASSUME NEW is, NEW i, i \notin is
      PROVE  Xor(Combined(is), PayloadOf(i)) = Combined(is \cup {i})
  <2>. DEFINE old == UNION {BytesOf(k) : k \in is}
  <2>1. old \cap BytesOf(i) = {}
    BY <1>2, BytesDiffer
  <2>. DEFINE span == UNION {Positions(k) : k \in is}
  <2>2. UNION {BytesOf(k) : k \in is \cup {i}} = old \cup BytesOf(i)
    OBVIOUS
  <2>3. UNION {Positions(k) : k \in is \cup {i}} = span \cup Positions(i)
    OBVIOUS
  <2>4. (old \ BytesOf(i)) \cup (BytesOf(i) \ old) = old \cup BytesOf(i)
    BY <2>1
  <2>5. Combined(is).bytes = old /\ Combined(is).span = span
    BY PayloadFields
  <2>6. Combined(is \cup {i}) = [bytes |-> old \cup BytesOf(i), span |-> span \cup Positions(i)]
    BY <2>2, <2>3, Zenon DEF Combined
  <2>. HIDE DEF old, span
  <2>7. Xor(Combined(is), PayloadOf(i)) =
          [bytes |-> (old \ BytesOf(i)) \cup (BytesOf(i) \ old), span |-> span \cup Positions(i)]
    BY <2>5, PayloadFields DEF Xor
  <2>. QED BY <2>4, <2>6, <2>7
<1>. QED BY <1>1, <1>2

\* What a packet of the sender is.
LEMMA SentPacketIs ==
  ASSUME sent \in 0..MaxSent, NEW p \in SentPackets
  PROVE  /\ p.seq \in Seqs
         /\ IF p.fec THEN \E b \in Bases : b + GroupSize <= sent /\ p = FecOf(b)
                     ELSE \E i \in 0..(sent - 1) : p = DataPacket(i)
<1>1. CASE p \in SentData
  <2>1. PICK i \in 0..(sent - 1) : p = DataPacket(i)
    BY <1>1 DEF SentData
  <2>2. i \in 0..SeqSpace
    BY Constants
  <2>. QED BY <2>1, <2>2, PacketFields, SeqOfValue
<1>2. CASE p \in SentFec
  <2>1. PICK b \in Bases : b + GroupSize <= sent /\ p = FecOf(b)
    BY <1>2 DEF SentFec
  <2>2. b \in 0..SeqSpace
    BY Constants DEF Bases
  <2>. QED BY <2>1, <2>2, PacketFields, SeqOfValue
<1>. QED BY <1>1, <1>2 DEF SentPackets

\* The data packets the decoder files under the number of a group's first
\* packet are of that group, whether or not it files all of them there.
LEMMA GroupOfData ==
  ASSUME NEW b \in 0..MaxSent, b + GroupSize <= MaxSent, NEW i \in 0..(MaxSent - 1),
         GroupOf(DataPacket(i)) = SeqOf(b)
  PROVE  i \in b..(b + GroupSize - 1)
<1>. DEFINE g == GroupSize
            n == SeqSpace
            f == FirstSeq
            si == SeqOf(i)
            sb == SeqOf(b)
            d == si % g
<1>1. /\ g \in Nat \ {0} /\ n \in Nat \ {0} /\ f \in 0..(n - 1) /\ b \in Nat /\ b + g <= MaxSent
      /\ MaxSent \in Nat /\ MaxSent < n /\ i \in Nat /\ i < MaxSent
  BY Constants
<1>2. (si \div g) * g = sb
  BY PacketFields DEF GroupOf
<1>3. /\ si = IF f + i < n THEN f + i ELSE f + i - n
      /\ sb = IF f + b < n THEN f + b ELSE f + b - n
  <2>1. i \in 0..n /\ b \in 0..n
    BY <1>1
  <2>. QED BY <2>1, SeqOfValue DEF n, f
<1>. HIDE DEF g, n, f, si, sb
<1>4. si \in 0..(n - 1)
  BY <1>1, <1>3
<1>5. d \in 0..(g - 1) /\ si = sb + d
  <2>1. si \in Int /\ si = g * (si \div g) + d /\ d \in 0..(g - 1) /\ si \div g \in Int
    BY <1>1, <1>4
  <2>. HIDE DEF d
  <2>. QED BY <1>1, <1>2, <2>1
<1>. HIDE DEF d
<1>6. i = b + d
  BY <1>1, <1>3, <1>4, <1>5
<1>. QED BY <1>1, <1>5, <1>6 DEF g

\* The exclusive or of a group without one packet, and of its FEC packet: the
\* bytes of the packet that is not there, as many as the longest has.
LEMMA XorOfGroup ==
  ASSUME NEW b \in Bases, NEW m \in b..(b + GroupSize - 1),
         NEW held, held = {FecOf(b)} \cup {DataPacket(j) : j \in (b..(b + GroupSize - 1)) \ {m}}
  PROVE  XorOf(held) = [bytes |-> BytesOf(m), span |-> Combined(b..(b + GroupSize - 1)).span]
<1>. DEFINE group == b..(b + GroupSize - 1)
            fec == FecOf(b)
            all == UNION {BytesOf(j) : j \in group}
            with(x) == {p \in held : x \in p.payload.bytes}
<1>1. /\ fec.payload.bytes = all /\ fec.payload.span = Combined(group).span
      /\ \A j : /\ DataPacket(j).payload.bytes = BytesOf(j)
                /\ DataPacket(j).payload.span = Positions(j) /\ DataPacket(j) # fec
  <2>1. fec.fec /\ fec.payload = Combined(group)
    BY PacketFields
  <2>2. \A j : ~DataPacket(j).fec /\ DataPacket(j).payload = PayloadOf(j)
    BY PacketFields
  <2>. HIDE DEF fec, group
  <2>. QED BY <2>1, <2>2, PayloadFields
<1>2. held = {fec} \cup {DataPacket(j) : j \in group \ {m}} /\ m \in group
  OBVIOUS
<1>3. Combined(group).span = UNION {Positions(j) : j \in group}
  BY DEF Combined
<1>. HIDE DEF group, fec
<1>4. UNION {p.payload.span : p \in held} = Combined(group).span
  <2>1. \A p \in held : p.payload.span \subseteq Combined(group).span
    BY <1>1, <1>2, <1>3
  <2>2. fec \in held /\ fec.payload.span = Combined(group).span
    BY <1>1, <1>2
  <2>. QED BY <2>1, <2>2
<1>5. UNION {p.payload.bytes : p \in held} = all
  <2>1. \A p \in held : p.payload.bytes \subseteq all
    BY <1>1, <1>2
  <2>2. fec \in held /\ fec.payload.bytes = all
    BY <1>1, <1>2
  <2>. HIDE DEF all
  <2>. QED BY <2>1, <2>2
<1>6. ASSUME NEW x \in BytesOf(m)
      PROVE  Cardinality(with(x)) = 1
  <2>1. \A j \in group \ {m} : x \notin DataPacket(j).payload.bytes
    BY <1>1, <1>6, BytesDiffer
  <2>2. x \in fec.payload.bytes
    BY <1>1, <1>2, <1>6
  <2>3. with(x) = {fec}
    BY <1>2, <2>1, <2>2
  <2>. HIDE DEF with
  <2>. QED BY <2>3, FS_Singleton
<1>7. ASSUME NEW i \in group, i # m, NEW x \in BytesOf(i)
      PROVE  Cardinality(with(x)) = 2
  <2>1. \A j : x \in DataPacket(j).payload.bytes <=> j = i
    BY <1>1, <1>7, BytesDiffer
  <2>2. x \in fec.payload.bytes
    BY <1>1, <1>7
  <2>3. with(x) = {fec} \cup {DataPacket(i)}
    BY <1>2, <1>7, <2>1, <2>2
  <2>4. DataPacket(i) \notin {fec}
    BY <1>1
  <2>5. IsFiniteSet({fec}) /\ Cardinality({fec}) = 1
    BY FS_Singleton
  <2>6. Cardinality({fec} \cup {DataPacket(i)}) = 1 + 1
    BY <2>4, <2>5, FS_AddElement
  <2>. HIDE DEF with
  <2>. QED BY <2>3, <2>6
<1>. DEFINE n(x) == Cardinality(with(x))
<1>8. ASSUME NEW x \in all
      PROVE  n(x) % 2 = 1 <=> x \in BytesOf(m)
  <2>1. PICK i \in group : x \in BytesOf(i)
    BY <1>8
  <2>2. CASE i = m
    <3>1. n(x) = 1
      BY <1>6, <2>1, <2>2
    <3>. HIDE DEF n
    <3>. QED BY <2>1, <2>2, <3>1
  <2>3. CASE i # m
    <3>1. n(x) = 2 /\ x \notin BytesOf(m)
      BY <1>7, <2>1, <2>3, BytesDiffer
    <3>. HIDE DEF n
    <3>. QED BY <3>1
  <2>. QED BY <2>2, <2>3
<1>9. BytesOf(m) \subseteq all
  BY <1>2
<1>10. XorOf(held) = [bytes |-> {x \in all : n(x) % 2 = 1}, span |-> Combined(group).span]
  BY <1>4, <1>5 DEF XorOf
<1>. HIDE DEF n, all
<1>11. {x \in all : n(x) % 2 = 1} = BytesOf(m)
  BY <1>8, <1>9
<1>. QED BY <1>10, <1>11 DEF group

\* What the decoder rebuilds from packets of the sender, whichever of them it
\* holds and wherever it files them, is a packet of the sender, padded.
LEMMA RebuiltIsRight ==
  ASSUME sent \in 0..MaxSent, NEW h \in SUBSET SentPackets, Recoverable(h) # {}
  PROVE  \E m \in 0..(sent - 1) : Rebuilt(h, FirstRecoverable(h)) = Padded(m)
<1>. DEFINE base == FirstRecoverable(h)
            missing == MissingSeqs(h, base)
<1>1. base \in Recoverable(h)
  <2>1. Recoverable(h) \in SUBSET Nat
    BY SentPacketIs, Constants DEF Recoverable, ProtectedBases, Seqs
  <2>2. \E x \in Recoverable(h) : \A y \in Recoverable(h) : x <= y
    BY <2>1, Smallest
  <2>. QED BY <2>2 DEF FirstRecoverable
<1>. HIDE DEF base
<1>2. base \in ProtectedBases(h) /\ Cardinality(missing) = 1
  BY <1>1 DEF Recoverable
<1>3. PICK b \in Bases : b + GroupSize <= sent /\ FecOf(b) \in h /\ base = SeqOf(b)
  BY <1>2, SentPacketIs, PacketFields DEF ProtectedBases
<1>. DEFINE group == b..(b + GroupSize - 1)
<1>4. group \subseteq 0..(sent - 1) /\ group \subseteq 0..(MaxSent - 1) /\ b \in 0..MaxSent
      /\ \A i \in group : i <= SeqSpace /\ i \in 0..MaxSent
  BY <1>3, Constants DEF Bases
<1>5. \A i \in group : SeqOf(i) \in Seqs
  <2>1. \A i \in group : i \in 0..SeqSpace
    BY <1>4, Constants
  <2>. QED BY <2>1, SeqOfValue
\* The numbers of the group, and those of them the decoder holds.
<1>6. {(base + i) % SeqSpace : i \in 0..(GroupSize - 1)} = {SeqOf(i) : i \in group}
  <2>1. ASSUME NEW i \in 0..(GroupSize - 1)
        PROVE  b + i \in group /\ (base + i) % SeqSpace = SeqOf(b + i)
    <3>1. b + i \in group /\ b + i <= MaxSent
      BY <2>1, <1>4, Constants
    <3>. QED BY <1>3, <1>4, <3>1, NumbersFollow
  <2>2. ASSUME NEW j \in group
        PROVE  j - b \in 0..(GroupSize - 1) /\ b + (j - b) = j
    BY <1>4, Constants
  <2>. HIDE DEF group
  <2>. QED BY <2>1, <2>2
<1>. DEFINE in == {j \in group : DataPacket(j) \in Held(h, base)}
<1>7. ASSUME NEW p \in Held(h, base), ~p.fec
      PROVE  \E j \in in : p = DataPacket(j)
  <2>1. PICK j \in 0..(sent - 1) : p = DataPacket(j)
    BY <1>7, SentPacketIs DEF Held
  <2>2. j \in 0..(MaxSent - 1) /\ GroupOf(DataPacket(j)) = SeqOf(b) /\ b + GroupSize <= MaxSent
    BY <1>3, <1>7, <2>1, Constants DEF Held, Bases
  <2>3. j \in group
    BY <1>4, <2>2, GroupOfData
  <2>. QED BY <1>7, <2>1, <2>3
<1>9. missing = {SeqOf(i) : i \in group \ in}
  <2>. DEFINE held == {q.seq : q \in {r \in Held(h, base) : ~r.fec}}
  <2>1. held = {SeqOf(j) : j \in in}
    <3>1. ASSUME NEW s \in held
          PROVE  \E j \in in : s = SeqOf(j)
      <4>. HIDE DEF in
      <4>. QED BY <1>7, PacketFields
    <3>2. ASSUME NEW j \in in
          PROVE  SeqOf(j) \in held
      BY <3>2, PacketFields
    <3>. HIDE DEF held, in
    <3>. QED BY <3>1, <3>2
  <2>2. missing = {SeqOf(i) : i \in group} \ held
    BY <1>6 DEF MissingSeqs
  <2>. HIDE DEF held, missing
  <2>3. \A i, j \in group : SeqOf(i) = SeqOf(j) => i = j
    BY <1>4, SeqOfInjective
  <2>4. in \subseteq group
    OBVIOUS
  <2>. HIDE DEF group, in
  <2>. QED BY <2>1, <2>2, <2>3, <2>4
<1>10. PICK m \in group : missing = {SeqOf(m)} /\ m \notin in
  <2>1. IsFiniteSet(missing)
    <3>1. missing \subseteq 0..(SeqSpace - 1)
      BY <1>5, <1>9 DEF Seqs
    <3>2. IsFiniteSet(0..(SeqSpace - 1))
      BY FS_Interval, Constants
    <3>. HIDE DEF missing
    <3>. QED BY <3>1, <3>2, FS_Subset
  <2>. HIDE DEF missing
  <2>2. PICK s : missing = {s}
    BY <1>2, <2>1, FS_Singleton
  <2>. HIDE DEF group, in
  <2>. QED BY <1>9, <2>2
<1>11. in = group \ {m}
  <2>1. ASSUME NEW j \in group, j \notin in
        PROVE  j = m
    <3>1. SeqOf(j) = SeqOf(m)
      <4>. HIDE DEF missing, group, in
      <4>. QED BY <1>9, <1>10, <2>1
    <3>. QED BY <1>4, <3>1, SeqOfInjective
  <2>2. in \subseteq group
    OBVIOUS
  <2>. HIDE DEF in, group
  <2>. QED BY <1>10, <2>1, <2>2
<1>12. Held(h, base) = {FecOf(b)} \cup {DataPacket(j) : j \in group \ {m}}
  <2>1. FecOf(b) \in Held(h, base)
    BY <1>3, PacketFields DEF Held, GroupOf
  <2>2. ASSUME NEW p \in Held(h, base), p.fec
        PROVE  p = FecOf(b)
    <3>1. PICK c \in Bases : p = FecOf(c)
      BY <2>2, SentPacketIs DEF Held
    <3>2. SeqOf(c) = SeqOf(b)
      BY <1>3, <2>2, <3>1, PacketFields DEF Held, GroupOf
    <3>. QED BY <3>1, <3>2, SeqOfInjective DEF Bases
  <2>3. ASSUME NEW p \in Held(h, base), ~p.fec
        PROVE  \E j \in group \ {m} : p = DataPacket(j)
    <3>. HIDE DEF in, group
    <3>. QED BY <2>3, <1>7, <1>11
  <2>4. \A j \in group \ {m} : DataPacket(j) \in Held(h, base)
    <3>1. \A j \in in : DataPacket(j) \in Held(h, base)
      OBVIOUS
    <3>. HIDE DEF in, group
    <3>. QED BY <1>11, <3>1
  <2>. HIDE DEF group
  <2>. QED BY <2>1, <2>2, <2>3, <2>4
<1>13. XorOf(Held(h, base)) = PaddedPayload(m)
  <2>1. XorOf(Held(h, base)) = [bytes |-> BytesOf(m), span |-> Combined(group).span]
    BY <1>12, XorOfGroup
  <2>2. Group(m \div GroupSize) = group
    <3>1. b + GroupSize <= MaxSent
      BY <1>3, Constants DEF Bases
    <3>. QED BY <3>1, GroupIs
  <2>. HIDE DEF group
  <2>. QED BY <2>1, <2>2 DEF PaddedPayload
<1>14. (CHOOSE s \in missing : \A t \in missing : t <= s) = SeqOf(m)
  <2>1. SeqOf(m) <= SeqOf(m)
    BY <1>5 DEF Seqs
  <2>. HIDE DEF missing
  <2>. QED BY <1>10, <2>1
<1>15. Rebuilt(h, base) = Padded(m)
  BY <1>13, <1>14 DEF Rebuilt, Padded
<1>. QED BY <1>4, <1>15 DEF base

\* Whatever packet of the sender arrives, what the decoder returns is one, padded.
LEMMA RecoveredIsSent ==
  ASSUME sent \in 0..MaxSent, groups \subseteq SentPackets, NEW p \in SentPackets
  PROVE  /\ Stored(groups, p) \subseteq SentPackets
         /\ Decoded(groups, p) \subseteq SentPackets
         /\ Recovered(groups, p) \subseteq {Padded(i) : i \in 0..(sent - 1)}
<1>1. Stored(groups, p) \subseteq SentPackets
  BY DEF Stored
<1>2. Decoded(groups, p) \subseteq SentPackets
  BY <1>1 DEF Decoded
<1>3. Recovered(groups, p) \subseteq {Padded(i) : i \in 0..(sent - 1)}
  BY <1>1, RebuiltIsRight DEF Recovered
<1>. QED BY <1>1, <1>2, <1>3

-----------------------------------------------------------------------------
(* The sender.                                                             *)

\* The encoder takes the next packet; at the end of a group it emits the FEC
\* packet of that group and begins a new one.
LEMMA EncoderStep ==
  ASSUME EncoderInv, Send
  PROVE  EncoderInv' /\ FecPackets(enc, DataPacket(sent)) \subseteq SentFec'
<1>. DEFINE c == enc.count
            b == sent - enc.count
            p == DataPacket(sent)
            f == Absorbed(enc, p)
            after == [count : 0..(GroupSize - 1), xorBuf : Mixtures, baseSeq : Seqs]
<1>1. /\ sent \in 0..(MaxSent - 1) /\ sent' = sent + 1 /\ sent' \in 0..MaxSent
      /\ enc' = Encoded(enc, p)
  BY Constants DEF EncoderInv, Send
<1>2. c \in 0..(GroupSize - 1) /\ GroupSize \in Nat \ {0}
  BY Constants DEF EncoderInv
<1>3. b \in Bases /\ b \in Nat /\ b \in 0..SeqSpace
  BY Constants DEF EncoderInv, Bases
<1>4. p.payload = PayloadOf(sent) /\ p.seq = SeqOf(sent)
  BY PacketFields
<1>5. SeqOf(b) \in Seqs
  BY <1>3, SeqOfValue
<1>6. enc = [count |-> c, xorBuf |-> enc.xorBuf, baseSeq |-> enc.baseSeq]
  BY DEF EncoderInv
<1>7. c > 0 => enc.xorBuf = Combined(b..(sent - 1)) /\ enc.baseSeq = SeqOf(b)
  BY DEF EncoderInv
<1>8. f = [count |-> c + 1, xorBuf |-> Combined(b..sent), baseSeq |-> SeqOf(b)]
  <2>1. CASE c = 0
    <3>1. b = sent /\ Combined(b..sent) = PayloadOf(sent)
      <4>1. b = sent /\ b..sent = {sent}
        BY <1>1, <2>1
      <4>. QED BY <4>1, CombinedGrows
    <3>2. f = [count |-> 1, xorBuf |-> p.payload, baseSeq |-> p.seq]
      BY <2>1 DEF Absorbed
    <3>. HIDE DEF f, p, b, c
    <3>. QED BY <1>4, <2>1, <3>1, <3>2
  <2>2. CASE c > 0
    <3>1. Xor(Combined(b..(sent - 1)), PayloadOf(sent)) = Combined(b..sent)
      <4>1. sent = b + c /\ c \in Nat /\ b \in Nat /\ sent \in Nat
        BY <1>1, <1>2, <1>3
      <4>. HIDE DEF b, c
      <4>2. sent \notin b..(sent - 1) /\ (b..(sent - 1)) \cup {sent} = b..sent
        BY <2>2, <4>1
      <4>. QED BY <4>2, CombinedGrows
    <3>2. f = [enc EXCEPT !.count = @ + 1, !.xorBuf = Xor(@, p.payload)]
      BY <1>2, <2>2 DEF Absorbed
    <3>3. f = [enc EXCEPT !.count = c + 1, !.xorBuf = Combined(b..sent)]
      BY <1>4, <1>7, <2>2, <3>1, <3>2
    <3>. HIDE DEF f, p, b, c
    <3>. QED BY <1>6, <1>7, <2>2, <3>3
  <2>. QED BY <1>2, <2>1, <2>2
<1>. HIDE DEF f, p
<1>9. f.count = c + 1 /\ f.xorBuf = Combined(b..sent) /\ f.baseSeq = SeqOf(b)
  BY <1>8
<1>10. CASE c + 1 = GroupSize
  <2>1. enc' = [f EXCEPT !.count = 0, !.xorBuf = NoPayload]
    BY <1>1, <1>9, <1>10 DEF Encoded, f
  <2>2. FecPackets(enc, p) = {Packet(TRUE, f.baseSeq, f.xorBuf)}
    BY <1>9, <1>10 DEF FecPackets, f
  <2>3. enc' = [count |-> 0, xorBuf |-> NoPayload, baseSeq |-> SeqOf(b)]
    BY <1>8, <2>1
  <2>4. sent = b + c /\ b \in Nat /\ c \in Nat
    BY <1>1, <1>2, <1>3
  <2>5. b + GroupSize = sent' /\ b + GroupSize - 1 = sent
    BY <1>1, <1>2, <1>10, <2>4
  <2>6. sent' \in Bases
    <3>1. (b + GroupSize) % GroupSize = 0
      <4>1. GroupSize = 1 * GroupSize + 0 /\ 1 \in Int /\ 0 \in 0..(GroupSize - 1)
        BY <1>2
      <4>2. GroupSize % GroupSize = 0
        BY <1>2, <4>1, Quotient
      <4>3. b % GroupSize = 0 /\ b \in Int /\ GroupSize \in Int
        BY <1>2, <1>3 DEF Bases
      <4>. QED BY <1>2, <4>2, <4>3, MultiplesAdd, Zenon
    <3>. QED BY <1>1, <2>5, <3>1 DEF Bases
  <2>7. FecPackets(enc, p) = {FecOf(b)}
    <3>. HIDE DEF b
    <3>. QED BY <1>9, <2>2, <2>5 DEF FecOf
  <2>8. EncoderInv'
    <3>1. enc' \in after
      BY <1>2, <1>5, <2>3 DEF Mixtures
    <3>2. enc'.count = 0 /\ sent' - enc'.count = sent'
      BY <1>1, <2>3
    <3>. HIDE DEF b, c
    <3>. QED BY <1>1, <2>6, <3>1, <3>2 DEF EncoderInv
  <2>9. FecOf(b) \in SentFec'
    <3>. HIDE DEF b
    <3>. QED BY <1>1, <1>3, <2>5 DEF SentFec
  <2>. QED BY <2>7, <2>8, <2>9 DEF p
<1>11. CASE c + 1 # GroupSize
  <2>1. enc' = f
    BY <1>1, <1>9, <1>11 DEF Encoded, f
  <2>2. FecPackets(enc, p) = {}
    BY <1>9, <1>11 DEF FecPackets, f
  <2>3. sent = b + c /\ b \in Nat /\ c \in Nat
    BY <1>1, <1>2, <1>3
  <2>4. enc'.count = c + 1 /\ enc'.xorBuf = Combined(b..sent) /\ enc'.baseSeq = SeqOf(b)
    BY <1>9, <2>1
  <2>. HIDE DEF b, c
  <2>5. enc' \in after
    <3>1. c + 1 \in 0..(GroupSize - 1)
      BY <1>2, <1>11, <2>3
    <3>2. Combined(b..sent) \in Mixtures
      <4>1. b..sent \in SUBSET Indices
        BY <1>1, <2>3, Constants DEF Indices
      <4>. QED BY <4>1 DEF Mixtures
    <3>. QED BY <1>5, <1>8, <2>1, <3>1, <3>2
  <2>6. sent' - enc'.count = b /\ sent' - 1 = sent
    BY <1>1, <2>3, <2>4
  <2>7. EncoderInv'
    BY <1>1, <1>3, <2>4, <2>5, <2>6 DEF EncoderInv
  <2>. QED BY <2>2, <2>7 DEF p
<1>. QED BY <1>10, <1>11

\* A longer interval holds the shorter one.
LEMMA IntervalGrows ==
  ASSUME NEW a \in Int, NEW b \in Int, a <= b
  PROVE  0..(a - 1) \subseteq 0..(b - 1)
OBVIOUS

\* The sender's packets become more.
LEMMA SentPacketsGrow ==
  ASSUME sent \in 0..MaxSent, sent' \in {sent, sent + 1}
  PROVE  SentData \subseteq SentData' /\ SentFec \subseteq SentFec' /\ SentPackets \subseteq SentPackets'
         /\ SentMedia \subseteq SentMedia'
<1>1. 0..(sent - 1) \subseteq 0..(sent' - 1)
  <2>1. sent \in Int /\ sent' \in Int /\ sent <= sent'
    BY Constants
  <2>. QED BY <2>1, IntervalGrows, Zenon
<1>2. \A c \in Bases : c + GroupSize <= sent => c + GroupSize <= sent'
  BY Constants DEF Bases
<1>3. SentData \subseteq SentData'
  BY <1>1 DEF SentData
<1>4. SentFec \subseteq SentFec'
  BY <1>2 DEF SentFec
<1>5. SentMedia \subseteq SentMedia'
  BY <1>1, <1>3 DEF SentMedia
<1>. QED BY <1>3, <1>4, <1>5 DEF SentPackets

-----------------------------------------------------------------------------
(* NackManager.                                                            *)

\* The comparison of the numbers is the order of the stream.
LEMMA SeqGtIsLater ==
  ASSUME NEW i \in Indices, NEW j \in Indices
  PROVE  SeqGt(SeqOf(i), SeqOf(j)) <=> i > j
<1>1. i \in 0..SeqSpace /\ j \in 0..SeqSpace
  BY Constants DEF Indices
<1>. DEFINE si == SeqOf(i)
            sj == SeqOf(j)
            n == SeqSpace
            f == FirstSeq
            h == SeqSpace \div 2
<1>2. /\ si \in 0..(n - 1) /\ sj \in 0..(n - 1)
      /\ si = IF f + i < n THEN f + i ELSE f + i - n
      /\ sj = IF f + j < n THEN f + j ELSE f + j - n
  BY <1>1, SeqOfValue DEF Seqs
<1>3. /\ n \in Nat \ {0} /\ f \in 0..(n - 1) /\ i \in Nat /\ j \in Nat
      /\ 2 * i < n /\ 2 * j < n
  BY Constants DEF Indices
<1>4. h \in Nat /\ 2 * h = n
  BY SeqSpaceAssumption
<1>. HIDE DEF si, sj, n, f, h
<1>5. (si + n - sj) \in 0..(2 * n - 1)
  BY <1>2, <1>3
<1>6. (si + n - sj) % n = IF si + n - sj < n THEN si - sj + n ELSE si - sj
  <2>1. (si + n - sj) % n = IF si + n - sj < n THEN si + n - sj ELSE (si + n - sj) - n
    BY <1>5, WrapOnce DEF n
  <2>. QED BY <1>2, <1>3, <2>1
<1>. DEFINE d == (si + n - sj) % n
<1>7. SeqGt(SeqOf(i), SeqOf(j)) <=> d \in 1..(h - 1)
  BY DEF SeqGt, SeqsFrom, si, sj, n, h
<1>. HIDE DEF d
<1>8. d = IF si + n - sj < n THEN si - sj + n ELSE si - sj
  BY <1>6 DEF d
<1>9. d = IF i >= j THEN i - j ELSE n + i - j
  BY <1>2, <1>3, <1>8
<1>. QED BY <1>3, <1>4, <1>7, <1>9

\* The gap between two packets holds the numbers of those between them.
LEMMA GapIsBetween ==
  ASSUME NEW i \in Indices, NEW j \in Indices, i < j
  PROVE  Gap(SeqOf(i), SeqOf(j)) = {SeqOf(k) : k \in (i + 1)..(j - 1)}
<1>. DEFINE n == SeqSpace
            f == FirstSeq
            a == SeqOf(i)
            from(s) == SeqsFrom(a, s)
<1>1. /\ n \in Nat \ {0} /\ f \in 0..(n - 1) /\ i \in Nat /\ j \in Nat /\ j < n
      /\ Seqs = 0..(n - 1)
  BY Constants DEF Indices, Seqs
<1>2. \A k \in 0..n : SeqOf(k) = IF f + k < n THEN f + k ELSE f + k - n
  BY SeqOfValue
<1>. HIDE DEF n, f
<1>3. a \in Seqs /\ a = IF f + i < n THEN f + i ELSE f + i - n
  BY <1>1, <1>2
<1>. HIDE DEF a
\* How far a number lies behind that of packet i.
<1>4. ASSUME NEW s \in Seqs
      PROVE  from(s) \in Seqs /\ from(s) = IF s >= a THEN s - a ELSE s + n - a
  <2>. DEFINE x == s + n - a
  <2>1. x \in 0..(2 * n - 1) /\ x = s + n - a
    BY <1>1, <1>3
  <2>2. from(s) = x % n
    BY DEF SeqsFrom, n
  <2>. HIDE DEF x, from
  <2>3. from(s) = IF x < n THEN x ELSE x - n
    BY <2>1, <2>2, WrapOnce DEF n
  <2>. QED BY <1>1, <1>3, <2>1, <2>3
<1>. HIDE DEF from
<1>5. ASSUME NEW k \in i..j
      PROVE  SeqOf(k) \in Seqs /\ from(SeqOf(k)) = k - i
  <2>. DEFINE s == SeqOf(k)
  <2>1. k \in 0..n /\ s = IF f + k < n THEN f + k ELSE f + k - n
    BY <1>1, <1>2
  <2>. HIDE DEF s
  <2>2. s \in Seqs
    BY <1>1, <2>1
  <2>3. from(s) = IF s >= a THEN s - a ELSE s + n - a
    BY <1>4, <2>2
  <2>4. from(s) = k - i
    BY <1>1, <1>3, <2>1, <2>3
  <2>. QED BY <2>2, <2>4 DEF s
<1>6. ASSUME NEW s \in Seqs, from(s) \in 1..(j - i - 1)
      PROVE  \E k \in (i + 1)..(j - 1) : s = SeqOf(k)
  <2>. DEFINE d == from(s)
  <2>1. d \in 1..(j - i - 1) /\ d = IF s >= a THEN s - a ELSE s + n - a
    BY <1>4, <1>6
  <2>. HIDE DEF d
  <2>2. i + d \in (i + 1)..(j - 1) /\ i + d \in 0..n
    BY <1>1, <2>1
  <2>3. SeqOf(i + d) = IF f + (i + d) < n THEN f + (i + d) ELSE f + (i + d) - n
    BY <1>2, <2>2
  <2>. DEFINE t == SeqOf(i + d)
  <2>. HIDE DEF t
  <2>4. t = IF f + (i + d) < n THEN f + (i + d) ELSE f + (i + d) - n
    BY <2>3 DEF t
  <2>5. s = t
    BY <1>1, <1>3, <2>1, <2>2, <2>4
  <2>. QED BY <2>2, <2>5 DEF t
<1>7. from(SeqOf(j)) = j - i
  BY <1>1, <1>5
<1>8. ASSUME NEW k \in (i + 1)..(j - 1)
      PROVE  SeqOf(k) \in Seqs /\ from(SeqOf(k)) \in 1..(j - i - 1)
  BY <1>1, <1>5
<1>9. Gap(a, SeqOf(j)) = {s \in Seqs : from(s) \in 1..(j - i - 1)}
  BY <1>7 DEF Gap, from
<1>10. {s \in Seqs : from(s) \in 1..(j - i - 1)} = {SeqOf(k) : k \in (i + 1)..(j - 1)}
  BY <1>6, <1>8
<1>. QED BY <1>9, <1>10 DEF a

\* The arrival of a data packet: missing_ gains the packets it jumped over
\* and loses the packet itself.
LEMMA NackStep ==
  ASSUME NackInv, NEW x \in Indices,
         arrived' = arrived \cup {DataPacket(x)},
         first' = IF first < MaxSent THEN first ELSE x,
         nack' = OnReceive(nack, SeqOf(x))
  PROVE  NackInv'
<1>. DEFINE A == ArrivedIndices
            M == MissingIndices
            before(i) == \E k \in A : k > i
<1>1. A \subseteq Indices /\ A' = A \cup {x}
  <2>1. \A i, j \in Indices : DataPacket(i) = DataPacket(j) => i = j
    BY Constants, DataPacketInjective DEF Indices
  <2>. QED BY <2>1 DEF ArrivedIndices
<1>2. Indices \subseteq 0..MaxSent /\ Indices \subseteq Nat /\ MaxSent \in Nat
      /\ \A i \in Indices : i < MaxSent
  BY Constants DEF Indices
<1>3. \A i, j \in Indices : SeqOf(i) = SeqOf(j) => i = j
  BY <1>2, SeqOfInjective
<1>4. \A i \in Indices : SeqOf(i) \in Seqs
  <2>1. Indices \subseteq 0..SeqSpace
    BY Constants DEF Indices
  <2>. QED BY <2>1, SeqOfValue
<1>5. M = {i \in Indices : i > first /\ i \notin A /\ \E k \in A : k > i}
  BY DEF MissingIndices
<1>6. M' = {i \in Indices : i > first' /\ i \notin A' /\ \E k \in A' : k > i}
  BY DEF MissingIndices, Indices
<1>7. /\ nack \in [received : SUBSET Seqs, maxSeen : Seqs, started : BOOLEAN,
                   missing : SUBSET Seqs, due : SUBSET Seqs]
      /\ nack.received = {SeqOf(i) : i \in A}
      /\ nack.missing = {SeqOf(i) : i \in M}
  BY DEF NackInv
<1>. HIDE DEF A, M
<1>8. CASE ~nack.started
  <2>1. first = MaxSent /\ A = {} /\ M = {}
    BY <1>5, <1>8 DEF NackInv, A
  <2>2. first' = x /\ A' = {x}
    BY <1>1, <1>2, <2>1
  <2>3. M' = {}
    <3>1. ASSUME NEW i \in M' PROVE FALSE
      <4>1. i \in Indices /\ i > x /\ x > i
        BY <1>6, <2>2
      <4>. QED BY <1>2, <4>1
    <3>. QED BY <3>1
  <2>4. nack' = [nack EXCEPT !.received = @ \cup {SeqOf(x)}, !.maxSeen = SeqOf(x), !.started = TRUE]
    BY <1>8 DEF OnReceive, OnReceiveFirst
  <2>5. /\ nack' \in [received : SUBSET Seqs, maxSeen : Seqs, started : BOOLEAN,
                      missing : SUBSET Seqs, due : SUBSET Seqs]
        /\ nack'.received = {SeqOf(x)} /\ nack'.maxSeen = SeqOf(x) /\ nack'.started
        /\ nack'.missing = {}
    <3>1. SeqOf(x) \in Seqs /\ nack.received = {} /\ nack.missing = {}
      BY <1>4, <1>7, <2>1
    <3>. DEFINE rec == nack.received \cup {SeqOf(x)}
                s == SeqOf(x)
    <3>2. rec = {s} /\ rec \in SUBSET Seqs /\ s \in Seqs
      BY <3>1
    <3>3. nack' = [nack EXCEPT !.received = rec, !.maxSeen = s, !.started = TRUE]
      BY <2>4
    <3>. HIDE DEF rec, s
    <3>4. /\ nack' \in [received : SUBSET Seqs, maxSeen : Seqs, started : BOOLEAN,
                         missing : SUBSET Seqs, due : SUBSET Seqs]
          /\ nack'.received = rec /\ nack'.maxSeen = s /\ nack'.started
          /\ nack'.missing = nack.missing
      BY <1>7, <3>2, <3>3
    <3>. QED BY <3>1, <3>2, <3>4 DEF s
  <2>6. \A i \in A' : i <= x
    BY <1>2, <2>2
  <2>. QED BY <2>2, <2>3, <2>5, <2>6 DEF NackInv, A, M
<1>9. CASE nack.started
  <2>1. first \in A /\ first < MaxSent /\ first' = first
    BY <1>1, <1>2, <1>9 DEF NackInv, A
  <2>2. PICK m \in A : nack.maxSeen = SeqOf(m) /\ \A i \in A : i <= m
    BY <1>9 DEF NackInv, A
  <2>3. m \in Indices /\ first \in Indices /\ m \in Nat /\ first \in Nat /\ x \in Nat
    BY <1>1, <1>2, <2>1
  <2>. DEFINE newer == SeqGt(SeqOf(x), nack.maxSeen)
              gaps == IF newer THEN Gap(nack.maxSeen, SeqOf(x)) \ nack.received ELSE {}
              jumped == IF x > m THEN (m + 1)..(x - 1) ELSE {}
  <2>4. newer <=> x > m
    BY <2>2, <2>3, SeqGtIsLater
  <2>5. nack' = [nack EXCEPT !.received = @ \cup {SeqOf(x)},
                             !.maxSeen = IF newer THEN SeqOf(x) ELSE @,
                             !.missing = (@ \cup gaps) \ {SeqOf(x)},
                             !.due = @ \ (gaps \cup {SeqOf(x)})]
    BY <1>9 DEF OnReceive, OnReceiveNext
  <2>6. jumped \subseteq Indices /\ \A i \in jumped : i > m /\ i < x
    BY <1>2, <2>3 DEF Indices
  <2>7. gaps = {SeqOf(i) : i \in jumped}
    <3>1. CASE x > m
      <4>1. Gap(nack.maxSeen, SeqOf(x)) = {SeqOf(i) : i \in (m + 1)..(x - 1)}
        BY <2>2, <2>3, <3>1, GapIsBetween
      <4>2. \A i \in jumped : SeqOf(i) \notin nack.received
        <5>1. \A i \in jumped : i \notin A
          BY <1>1, <1>2, <2>2, <2>3, <2>6
        <5>. HIDE DEF jumped
        <5>. QED BY <1>1, <1>3, <1>7, <2>6, <5>1
      <4>3. jumped = (m + 1)..(x - 1) /\ newer
        BY <2>4, <3>1
      <4>. HIDE DEF newer, jumped
      <4>. QED BY <4>1, <4>2, <4>3
    <3>2. CASE ~(x > m)
      BY <2>4, <3>2
    <3>. QED BY <3>1, <3>2
  <2>8. M' = (M \cup jumped) \ {x}
    <3>1. \A i \in Indices : (\E k \in A' : k > i) <=> i < m \/ i < x
      BY <1>1, <1>2, <2>2, <2>3
    <3>2. \A i \in Indices : (\E k \in A : k > i) <=> i < m
      BY <1>1, <1>2, <2>2, <2>3
    <3>3. \A i \in Indices : i \in jumped <=> m < i /\ i < x
      BY <1>2, <2>3
    <3>4. first <= m
      BY <2>1, <2>2
    <3>. HIDE DEF jumped
    <3>5. ASSUME NEW i \in Indices
          PROVE  i \in M' <=> i \in (M \cup jumped) \ {x}
      <4>1. i \in M' <=> i > first /\ i \notin A /\ i # x /\ (i < m \/ i < x)
        BY <1>1, <1>6, <2>1, <3>1
      <4>2. i \in M <=> i > first /\ i \notin A /\ i < m
        BY <1>5, <3>2
      <4>3. i > m => i \notin A
        BY <2>2, <2>3, <1>2
      <4>. QED BY <1>2, <2>2, <2>3, <3>3, <3>4, <4>1, <4>2, <4>3
    <3>6. M \subseteq Indices /\ M' \subseteq Indices
      BY <1>5, <1>6
    <3>. QED BY <2>6, <3>5, <3>6
  <2>. HIDE DEF newer, gaps, jumped
  <2>9. /\ nack'.received = nack.received \cup {SeqOf(x)}
        /\ nack'.maxSeen = IF newer THEN SeqOf(x) ELSE nack.maxSeen
        /\ nack'.missing = (nack.missing \cup gaps) \ {SeqOf(x)}
        /\ nack'.started
    BY <1>7, <1>9, <2>5
  <2>10. nack' \in [received : SUBSET Seqs, maxSeen : Seqs, started : BOOLEAN,
                    missing : SUBSET Seqs, due : SUBSET Seqs]
    <3>1. gaps \subseteq Seqs
      BY <1>4, <2>6, <2>7
    <3>2. SeqOf(x) \in Seqs
      BY <1>4
    <3>. DEFINE rec == nack.received \cup {SeqOf(x)}
                mis == (nack.missing \cup gaps) \ {SeqOf(x)}
                due == nack.due \ (gaps \cup {SeqOf(x)})
                new == IF newer THEN SeqOf(x) ELSE nack.maxSeen
    <3>3. rec \in SUBSET Seqs /\ mis \in SUBSET Seqs /\ due \in SUBSET Seqs /\ new \in Seqs
      BY <1>7, <3>1, <3>2
    <3>4. nack' = [nack EXCEPT !.received = rec, !.maxSeen = new, !.missing = mis, !.due = due]
      BY <2>5
    <3>. HIDE DEF rec, mis, due, new
    <3>. QED BY <1>7, <3>3, <3>4
  <2>11. nack'.received = {SeqOf(i) : i \in A'}
    BY <1>1, <1>7, <2>9
  <2>12. nack'.missing = {SeqOf(i) : i \in M'}
    <3>1. M \subseteq Indices
      BY <1>5
    <3>. QED BY <1>3, <1>7, <2>6, <2>7, <2>8, <2>9, <3>1
  <2>13. first' \in A'
    BY <1>1, <2>1
  <2>14. \E n \in A' : nack'.maxSeen = SeqOf(n) /\ \A i \in A' : i <= n
    <3>1. CASE x > m
      <4>1. x \in A' /\ nack'.maxSeen = SeqOf(x)
        BY <1>1, <2>4, <2>9, <3>1
      <4>2. \A i \in A' : i <= x
        BY <1>1, <1>2, <2>2, <2>3, <3>1
      <4>. QED BY <4>1, <4>2
    <3>2. CASE ~(x > m)
      <4>1. m \in A' /\ nack'.maxSeen = SeqOf(m)
        BY <1>1, <2>2, <2>4, <2>9, <3>2
      <4>2. \A i \in A' : i <= m
        BY <1>1, <1>2, <2>2, <2>3, <3>2
      <4>. QED BY <4>1, <4>2
    <3>. QED BY <3>1, <3>2
  <2>. QED BY <2>9, <2>10, <2>11, <2>12, <2>13, <2>14 DEF NackInv, A, M
<1>. QED BY <1>8, <1>9

\* What else can happen to it: a FEC packet arrives, which it does not see,
\* or time passes.
LEMMA NackKept ==
  ASSUME NackInv, ArrivedIndices' = ArrivedIndices, first' = first,
         nack' = nack \/ \E s \in nack.missing : nack' = Aged(nack, s)
  PROVE  NackInv'
<1>. DEFINE type == [received : SUBSET Seqs, maxSeen : Seqs, started : BOOLEAN,
                     missing : SUBSET Seqs, due : SUBSET Seqs]
<1>1. nack \in type
  BY DEF NackInv
<1>. DEFINE same == /\ nack'.received = nack.received /\ nack'.missing = nack.missing
                    /\ nack'.started = nack.started /\ nack'.maxSeen = nack.maxSeen
<1>2. nack' \in type /\ same
  <2>1. CASE nack' = nack
    BY <1>1, <2>1
  <2>2. ASSUME NEW s \in nack.missing, nack' = Aged(nack, s)
        PROVE  nack' \in type /\ same
    <3>1. nack.due \cup {s} \in SUBSET Seqs
      BY <1>1
    <3>2. nack' = [nack EXCEPT !.due = nack.due \cup {s}]
      BY <2>2 DEF Aged
    <3>. QED BY <1>1, <3>1, <3>2
  <2>. QED BY <2>1, <2>2
<1>3. MissingIndices' = MissingIndices
  BY DEF MissingIndices, Indices
<1>. HIDE DEF type
<1>. QED BY <1>2, <1>3 DEF NackInv, type

-----------------------------------------------------------------------------
(* The jitter buffer.                                                      *)

\* A packet of the sender is pushed.
LEMMA PushKeepsBufferInv ==
  ASSUME sent \in 0..MaxSent, NEW b, BufferInv(b), NEW p \in SentMedia
  PROVE  BufferInv(Pushed(b, p))
<1>. DEFINE a == Pushed(b, p)
<1>1. PICK j \in 0..(sent - 1) : p \in {DataPacket(j), Padded(j)}
  BY DEF SentData, SentMedia
<1>2. j \in Indices /\ j \in 0..SeqSpace /\ j <= MaxSent /\ j \in Int
  BY Constants DEF Indices
<1>3. p.seq = SeqOf(j) /\ SeqOf(j) \in Seqs
  BY <1>1, <1>2, PacketFields, SeqOfValue
<1>4. /\ b \in [buf : SUBSET SentMedia, nextSeq : Seqs, started : BOOLEAN]
      /\ played \in Seq(Versions)
  BY DEF BufferInv
<1>5. /\ a.buf = Emplaced(b.buf, p) /\ a.started
      /\ a.nextSeq = IF b.started THEN b.nextSeq ELSE p.seq
  BY DEF Pushed
<1>6. a \in [buf : SUBSET SentMedia, nextSeq : Seqs, started : BOOLEAN]
  <2>1. Emplaced(b.buf, p) \in SUBSET SentMedia
    BY <1>4 DEF Emplaced
  <2>2. (IF b.started THEN b.nextSeq ELSE p.seq) \in Seqs
    BY <1>3, <1>4
  <2>. QED BY <2>1, <2>2 DEF Pushed
<1>. HIDE DEF a
<1>7. CASE b.started
  BY <1>4, <1>5, <1>6, <1>7 DEF BufferInv, a
<1>8. CASE ~b.started
  <2>1. played = <<>> /\ Len(played) = 0
    BY <1>8 DEF BufferInv
  <2>2. a.nextSeq = SeqOf(j + Len(played))
    BY <1>2, <1>3, <1>5, <1>8, <2>1
  <2>3. \A k \in 1..Len(played) : played[k] \in Version(j + k - 1)
    BY <2>1
  <2>. QED BY <1>2, <1>4, <1>5, <1>6, <2>1, <2>2, <2>3 DEF BufferInv, a
<1>. QED BY <1>7, <1>8

\* The next packet is taken out.
LEMMA PlayKeepsJitterInv ==
  ASSUME sent \in 0..MaxSent, JitterInv, Play
  PROVE  JitterInv'
<1>1. PICK p \in jitter.buf : p.seq = jitter.nextSeq /\ played' = Append(played, p.payload)
  BY DEF Play, NextPackets
<1>2. /\ jitter \in [buf : SUBSET SentMedia, nextSeq : Seqs, started : BOOLEAN]
      /\ played \in Seq(Versions) /\ jitter.started
  BY <1>1 DEF JitterInv, BufferInv
<1>3. PICK j \in 0..(sent - 1) : p \in {DataPacket(j), Padded(j)}
  BY <1>1, <1>2 DEF SentData, SentMedia
<1>4. /\ j \in Nat /\ j \in 0..MaxSent /\ j < MaxSent
      /\ p.seq = SeqOf(j) /\ p.payload \in Version(j)
  BY <1>3, PacketFields, Constants DEF Version
<1>5. PICK i \in Indices : /\ i + Len(played) <= MaxSent
                           /\ jitter.nextSeq = SeqOf(i + Len(played))
                           /\ \A k \in 1..Len(played) : played[k] \in Version(i + k - 1)
  BY <1>2 DEF JitterInv, BufferInv
<1>6. Len(played) \in Nat /\ i \in Nat /\ i + Len(played) \in 0..MaxSent
  BY <1>2, <1>5, Constants DEF Indices
<1>7. j = i + Len(played)
  <2>. HIDE DEF Indices
  <2>. QED BY <1>1, <1>4, <1>5, <1>6, SeqOfInjective
<1>8. NextSeq(SeqOf(j)) = SeqOf(j + 1)
  <2>. DEFINE x == SeqOf(j)
  <2>1. /\ x \in 0..(SeqSpace - 1)
        /\ x = IF FirstSeq + j < SeqSpace THEN FirstSeq + j ELSE FirstSeq + j - SeqSpace
    BY <1>4, SeqOfValue, Constants DEF Seqs
  <2>. HIDE DEF x
  <2>. DEFINE y == SeqOf(j + 1)
  <2>2. y = IF FirstSeq + (j + 1) < SeqSpace THEN FirstSeq + (j + 1) ELSE FirstSeq + (j + 1) - SeqSpace
    <3>1. j + 1 \in 0..SeqSpace
      BY <1>4, Constants
    <3>. QED BY <3>1, SeqOfValue
  <2>. HIDE DEF y
  <2>. DEFINE z == x + 1
  <2>3. z = x + 1 /\ z \in 0..(2 * SeqSpace - 1) /\ NextSeq(x) = z % SeqSpace
    BY <2>1, Constants DEF NextSeq
  <2>. HIDE DEF z
  <2>4. NextSeq(x) = IF z < SeqSpace THEN z ELSE z - SeqSpace
    BY <2>3, WrapOnce
  <2>5. NextSeq(x) = y
    BY <1>4, <2>1, <2>2, <2>3, <2>4, Constants
  <2>. QED BY <2>5 DEF x, y
<1>. DEFINE v == p.payload
<1>9. played' = Append(played, v) /\ v \in Versions /\ v \in Version(j)
  <2>1. j \in Indices
    BY <1>4, Constants DEF Indices
  <2>. QED BY <1>1, <1>4, <2>1 DEF Versions
<1>. HIDE DEF v
<1>10. /\ played' \in Seq(Versions) /\ Len(played') = Len(played) + 1
       /\ \A k \in 1..Len(played) : played'[k] = played[k]
       /\ played'[Len(played) + 1] = v
  BY <1>2, <1>9
<1>11. jitter' = [jitter EXCEPT !.buf = @ \ NextPackets(jitter), !.nextSeq = NextSeq(@)]
  BY DEF Play, Popped
<1>12. /\ jitter'.started /\ jitter'.nextSeq = SeqOf(j + 1)
       /\ jitter' \in [buf : SUBSET SentMedia, nextSeq : Seqs, started : BOOLEAN]
  <2>1. SeqOf(j + 1) \in Seqs
    <3>1. j + 1 \in 0..SeqSpace
      BY <1>4, Constants
    <3>. QED BY <3>1, SeqOfValue
  <2>2. jitter' = [jitter EXCEPT !.buf = jitter.buf \ NextPackets(jitter), !.nextSeq = SeqOf(j + 1)]
    BY <1>1, <1>4, <1>8, <1>11
  <2>. QED BY <1>2, <2>1, <2>2
<1>13. i + Len(played') <= MaxSent /\ i + Len(played') = j + 1
  BY <1>4, <1>6, <1>7, <1>10, Constants
<1>14. \A k \in 1..Len(played') : played'[k] \in Version(i + k - 1)
  <2>1. ASSUME NEW k \in 1..Len(played') PROVE played'[k] \in Version(i + k - 1)
    <3>1. CASE k \in 1..Len(played)
      BY <1>5, <1>10, <3>1
    <3>2. CASE k = Len(played) + 1
      <4>1. i + k - 1 = j /\ played'[k] = v
        BY <1>6, <1>7, <1>10, <3>2
      <4>. QED BY <1>9, <4>1
    <3>. QED BY <1>6, <1>10, <2>1, <3>1, <3>2
  <2>. QED BY <2>1
<1>15. sent' = sent
  BY DEF Play
<1>16. \E n \in Indices : /\ n + Len(played') <= MaxSent
                          /\ jitter'.nextSeq = SeqOf(n + Len(played'))
                          /\ \A k \in 1..Len(played') : played'[k] \in Version(n + k - 1)
  BY <1>12, <1>13, <1>14
<1>17. SentMedia' = SentMedia
  BY <1>15 DEF SentMedia, SentData
<1>. QED BY <1>10, <1>12, <1>16, <1>17 DEF JitterInv, BufferInv

\* The decoder takes a packet of the sender.
LEMMA DecodeKeeps ==
  ASSUME sent \in 0..MaxSent, groups \subseteq SentPackets, JitterInv,
         NEW p \in SentPackets, Decode(p)
  PROVE  groups' \subseteq SentPackets /\ BufferInv(jitter')
<1>. DEFINE own == IF p.fec THEN jitter ELSE Pushed(jitter, p)
            new == Recovered(groups, p)
<1>1. groups' \subseteq SentPackets
  BY RecoveredIsSent DEF Decode
<1>2. new \subseteq SentMedia
  BY RecoveredIsSent DEF SentMedia
<1>3. BufferInv(own)
  <2>1. CASE p.fec
    BY <2>1 DEF JitterInv
  <2>2. CASE ~p.fec
    <3>1. p \in SentMedia
      BY <2>2, SentPacketIs DEF SentData, SentMedia
    <3>2. BufferInv(Pushed(jitter, p))
      BY <3>1, PushKeepsBufferInv DEF JitterInv
    <3>. QED BY <2>2, <3>2
  <2>. QED BY <2>1, <2>2
<1>4. jitter' = own \/ \E r \in new : jitter' = Pushed(own, r)
  BY DEF Decode
<1>. HIDE DEF own, new
<1>5. \A r \in new : BufferInv(Pushed(own, r))
  BY <1>2, <1>3, PushKeepsBufferInv
<1>. QED BY <1>1, <1>3, <1>4, <1>5

-----------------------------------------------------------------------------
(* The whole stream.                                                       *)

\* The invariant holds before the first packet.
LEMMA InitIndInv ==
  ASSUME Init
  PROVE  IndInv
<1>1. EncoderInv
  <2>1. 0 \in Bases
    <3>1. 0 % GroupSize = 0
      <4>1. 0 = 0 * GroupSize + 0 /\ 0 \in Int /\ 0 \in 0..(GroupSize - 1)
        BY Constants
      <4>. QED BY <4>1, Quotient, Constants
    <3>. QED BY <3>1, Constants DEF Bases
  <2>2. /\ sent = 0 /\ enc.count = 0 /\ sent - enc.count = 0
        /\ enc \in [count : 0..(GroupSize - 1), xorBuf : Mixtures, baseSeq : Seqs]
    BY Constants DEF Init, EncoderInit, Seqs, Mixtures
  <2>. QED BY <2>1, <2>2, Constants DEF EncoderInv
<1>2. TransitInv
  BY DEF Init, TransitInv
<1>3. NackInv
  <2>1. first = MaxSent /\ ArrivedIndices = {} /\ MissingIndices = {}
    BY DEF Init, ArrivedIndices, MissingIndices
  <2>2. 0 \in Seqs
    BY Constants DEF Seqs
  <2>. QED BY <2>1, <2>2 DEF Init, NackInit, NackInv
<1>4. JitterInv
  <2>1. 0 \in Seqs
    BY Constants DEF Seqs
  <2>. QED BY <2>1 DEF Init, JitterInit, JitterInv, BufferInv
<1>. QED BY <1>1, <1>2, <1>3, <1>4 DEF IndInv

\* What the sender has sent, and what the encoder holds, is a matter of sent
\* and enc.
LEMMA SenderIdle ==
  ASSUME EncoderInv, UNCHANGED <<sent, enc>>
  PROVE  /\ EncoderInv' /\ SentMedia' = SentMedia /\ SentPackets' = SentPackets
BY DEF EncoderInv, SentData, SentFec, SentPackets, SentMedia

\* What the jitter buffer needs is a matter of jitter, played and the packets
\* that were sent.
LEMMA BufferIdle ==
  ASSUME BufferInv(jitter'), SentMedia' = SentMedia, UNCHANGED played
  PROVE  JitterInv'
BY DEF JitterInv, BufferInv, Indices, Seqs, SeqOf

\* The sender sends.
LEMMA SendKeeps ==
  ASSUME IndInv, Send
  PROVE  IndInv'
<1>1. /\ sent \in 0..MaxSent /\ sent' = sent + 1
      /\ net' = net \cup {DataPacket(sent)} \cup FecPackets(enc, DataPacket(sent))
      /\ UNCHANGED <<lost, arrived, first, nack, groups, jitter, played>>
  BY DEF IndInv, EncoderInv, Send
<1>2. EncoderInv' /\ FecPackets(enc, DataPacket(sent)) \subseteq SentFec'
  BY EncoderStep DEF IndInv
<1>3. SentMedia \subseteq SentMedia' /\ SentPackets \subseteq SentPackets'
  BY <1>1, SentPacketsGrow
<1>4. TransitInv'
  <2>1. DataPacket(sent) \in SentData'
    <3>1. sent \in 0..(sent' - 1)
      BY <1>1, Constants
    <3>. QED BY <3>1 DEF SentData, DataPacket, SeqOf
  <2>. QED BY <1>1, <1>2, <1>3, <2>1 DEF IndInv, TransitInv, SentPackets
<1>5. NackInv'
  <2>1. ArrivedIndices' = ArrivedIndices
    BY <1>1 DEF ArrivedIndices, Indices, DataPacket, SeqOf
  <2>. QED BY <1>1, <2>1, NackKept DEF IndInv
<1>6. JitterInv'
  BY <1>1, <1>3 DEF IndInv, JitterInv, BufferInv, Indices, Seqs, SeqOf
<1>. QED BY <1>2, <1>4, <1>5, <1>6 DEF IndInv

\* A data packet arrives, at NackManager, the decoder and the jitter buffer.
LEMMA ReceiveDataKeeps ==
  ASSUME IndInv, NEW p \in net, ReceiveData(p)
  PROVE  IndInv'
<1>1. /\ ~p.fec /\ arrived' = arrived \cup {p} /\ nack' = OnReceive(nack, p.seq)
      /\ first' = IF first < MaxSent THEN first ELSE CHOOSE i \in Indices : p = DataPacket(i)
      /\ Decode(p) /\ UNCHANGED <<sent, net, lost, enc, played>>
  BY DEF ReceiveData
<1>2. p \in SentPackets /\ sent \in 0..MaxSent /\ groups \subseteq SentPackets /\ JitterInv
  BY DEF IndInv, TransitInv, EncoderInv
<1>3. PICK x \in 0..(sent - 1) : p = DataPacket(x)
  BY <1>1, <1>2, SentPacketIs
<1>4. x \in Indices
  BY <1>2, Constants DEF Indices
<1>5. p.seq = SeqOf(x) /\ (CHOOSE i \in Indices : p = DataPacket(i)) = x
  <2>1. \A i \in Indices : DataPacket(i) = DataPacket(x) => i = x
    BY <1>4, Constants, DataPacketInjective DEF Indices
  <2>. QED BY <1>3, <1>4, <2>1, PacketFields
<1>6. NackInv'
  BY <1>1, <1>3, <1>4, <1>5, NackStep DEF IndInv
<1>7. groups' \subseteq SentPackets /\ BufferInv(jitter')
  BY <1>1, <1>2, DecodeKeeps
<1>8. EncoderInv' /\ SentMedia' = SentMedia /\ SentPackets' = SentPackets
  BY <1>1, SenderIdle DEF IndInv
<1>9. TransitInv'
  BY <1>1, <1>2, <1>7, <1>8 DEF IndInv, TransitInv
<1>10. JitterInv'
  BY <1>1, <1>7, <1>8, BufferIdle
<1>. QED BY <1>6, <1>8, <1>9, <1>10 DEF IndInv

\* A FEC packet arrives at the decoder.
LEMMA ReceiveFecKeeps ==
  ASSUME IndInv, NEW p \in net, ReceiveFec(p)
  PROVE  IndInv'
<1>1. /\ p.fec /\ arrived' = arrived \cup {p}
      /\ Decode(p) /\ UNCHANGED <<sent, net, lost, first, enc, nack, played>>
  BY DEF ReceiveFec
<1>2. p \in SentPackets /\ sent \in 0..MaxSent /\ groups \subseteq SentPackets /\ JitterInv
  BY DEF IndInv, TransitInv, EncoderInv
<1>3. ArrivedIndices' = ArrivedIndices
  <2>1. \A i : DataPacket(i) # p
    BY <1>1, PacketFields
  <2>. QED BY <1>1, <2>1 DEF ArrivedIndices
<1>4. NackInv'
  BY <1>1, <1>3, NackKept DEF IndInv
<1>5. groups' \subseteq SentPackets /\ BufferInv(jitter')
  BY <1>1, <1>2, DecodeKeeps
<1>6. EncoderInv' /\ SentMedia' = SentMedia /\ SentPackets' = SentPackets
  BY <1>1, SenderIdle DEF IndInv
<1>7. TransitInv'
  BY <1>1, <1>2, <1>5, <1>6 DEF IndInv, TransitInv
<1>8. JitterInv'
  BY <1>1, <1>5, <1>6, BufferIdle
<1>. QED BY <1>4, <1>6, <1>7, <1>8 DEF IndInv

\* No step breaks the invariant.
LEMMA NextKeeps ==
  ASSUME IndInv, [Next]_vars
  PROVE  IndInv'
<1>1. CASE Send
  BY <1>1, SendKeeps
<1>2. CASE Play
  <2>1. UNCHANGED <<sent, net, lost, arrived, first, enc, nack, groups>>
    BY <1>2 DEF Play
  <2>2. EncoderInv' /\ SentPackets' = SentPackets
    BY <2>1, SenderIdle DEF IndInv
  <2>3. TransitInv'
    BY <2>1, <2>2 DEF IndInv, TransitInv
  <2>4. NackInv'
    <3>1. ArrivedIndices' = ArrivedIndices
      BY <2>1 DEF ArrivedIndices
    <3>. QED BY <2>1, <3>1, NackKept DEF IndInv
  <2>5. JitterInv'
    BY <1>2, PlayKeepsJitterInv DEF IndInv, EncoderInv
  <2>. QED BY <2>2, <2>3, <2>4, <2>5 DEF IndInv
<1>3. ASSUME NEW p \in net, Lose(p)
      PROVE  IndInv'
  <2>1. net' \subseteq net /\ UNCHANGED <<sent, arrived, first, enc, nack, groups, jitter, played>>
    BY <1>3 DEF Lose
  <2>2. EncoderInv' /\ SentMedia' = SentMedia /\ SentPackets' = SentPackets
    BY <2>1, SenderIdle DEF IndInv
  <2>3. TransitInv'
    BY <2>1, <2>2 DEF IndInv, TransitInv
  <2>4. NackInv'
    <3>1. ArrivedIndices' = ArrivedIndices
      BY <2>1 DEF ArrivedIndices
    <3>. QED BY <2>1, <3>1, NackKept DEF IndInv
  <2>5. JitterInv'
    BY <2>1, <2>2, BufferIdle DEF IndInv, JitterInv
  <2>. QED BY <2>2, <2>3, <2>4, <2>5 DEF IndInv
<1>4. ASSUME NEW s \in nack.missing, Elapse(s)
      PROVE  IndInv'
  <2>1. /\ nack' = Aged(nack, s)
        /\ UNCHANGED <<sent, net, lost, arrived, first, enc, groups, jitter, played>>
    BY <1>4 DEF Elapse
  <2>2. EncoderInv' /\ SentMedia' = SentMedia /\ SentPackets' = SentPackets
    BY <2>1, SenderIdle DEF IndInv
  <2>3. TransitInv'
    BY <2>1, <2>2 DEF IndInv, TransitInv
  <2>4. NackInv'
    <3>1. ArrivedIndices' = ArrivedIndices
      BY <2>1 DEF ArrivedIndices
    <3>. QED BY <2>1, <3>1, NackKept DEF IndInv
  <2>5. JitterInv'
    BY <2>1, <2>2, BufferIdle DEF IndInv, JitterInv
  <2>. QED BY <2>2, <2>3, <2>4, <2>5 DEF IndInv
<1>5. CASE UNCHANGED vars
  <2>1. UNCHANGED <<sent, net, arrived, first, enc, nack, groups, jitter, played>>
    BY <1>5 DEF vars
  <2>2. EncoderInv' /\ SentMedia' = SentMedia /\ SentPackets' = SentPackets
    BY <2>1, SenderIdle DEF IndInv
  <2>3. TransitInv'
    BY <2>1, <2>2 DEF IndInv, TransitInv
  <2>4. NackInv'
    <3>1. ArrivedIndices' = ArrivedIndices
      BY <2>1 DEF ArrivedIndices
    <3>. QED BY <2>1, <3>1, NackKept DEF IndInv
  <2>5. JitterInv'
    BY <2>1, <2>2, BufferIdle DEF IndInv, JitterInv
  <2>. QED BY <2>2, <2>3, <2>4, <2>5 DEF IndInv
<1>. QED BY <1>1, <1>2, <1>3, <1>4, <1>5, ReceiveDataKeeps, ReceiveFecKeeps DEF Next

\* Encoder, network, NackManager, decoder and jitter buffer fit together in
\* every state the stream reaches.
THEOREM StreamInvariant == Spec => []IndInv
<1>1. Init => IndInv
  BY InitIndInv
<1>2. IndInv /\ [Next]_vars => IndInv'
  BY NextKeeps
<1>. QED BY <1>1, <1>2, PTL DEF Spec

\* missing_ of NackManager is exact: it holds the packets between the first and
\* the newest arrival that have not arrived, and nothing else, across the wrap
\* of the numbers and whatever is reordered or repeated (on_receive).
THEOREM MissingIsExact == Spec => []MissingExact
<1>1. IndInv => MissingExact
  <2>. SUFFICES ASSUME IndInv PROVE MissingExact
    OBVIOUS
  <2>1. nack.missing = {SeqOf(i) : i \in MissingIndices}
    BY DEF IndInv, NackInv
  <2>2. MissingIndices = {i \in Indices : i > first /\ DataPacket(i) \notin arrived /\ NewerArrived(i)}
    BY DEF MissingIndices, ArrivedIndices, NewerArrived
  <2>. QED BY <2>1, <2>2 DEF MissingExact
<1>. QED BY <1>1, StreamInvariant, PTL

\* Whatever XorFecDecoder holds when a packet arrives, and whether or not the
\* groups are aligned, what it rebuilds has number and bytes of a packet that
\* was sent, and zero bytes up to the length of the longest packet of its
\* group, on both sides of the wrap (XorFecDecoder::feed).
THEOREM RebuiltPacketsArePadded == Spec => []RebuiltIsPadded
<1>1. IndInv => RebuiltIsPadded
  BY RecoveredIsSent DEF IndInv, TransitInv, EncoderInv, RebuiltIsPadded
<1>. QED BY <1>1, StreamInvariant, PTL

\* RtpJitterBuffer plays the stream in order, without a gap or a repetition,
\* each packet with its own bytes, from the first that reached it (push, pop_next).
THEOREM PlaybackInOrder == Spec => []PlayedInOrder
<1>1. IndInv => PlayedInOrder
  <2>. SUFFICES ASSUME IndInv PROVE PlayedInOrder
    OBVIOUS
  <2>1. CASE jitter.started
    <3>1. PICK i \in Indices : /\ i + Len(played) <= MaxSent
                               /\ \A k \in 1..Len(played) : played[k] \in Version(i + k - 1)
      BY <2>1 DEF IndInv, JitterInv, BufferInv
    <3>2. i \in 0..MaxSent
      BY Constants DEF Indices
    <3>. QED BY <3>1, <3>2 DEF PlayedInOrder, Version
  <2>2. CASE ~jitter.started
    <3>1. Len(played) = 0
      BY <2>2 DEF IndInv, JitterInv, BufferInv
    <3>2. 0 \in 0..MaxSent /\ 0 + Len(played) <= MaxSent /\ 1..Len(played) = {}
      BY <3>1, Constants
    <3>. QED BY <3>2 DEF PlayedInOrder
  <2>. QED BY <2>1, <2>2
<1>. QED BY <1>1, StreamInvariant, PTL

=============================================================================
