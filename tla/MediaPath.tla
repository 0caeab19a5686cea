----------------------------- MODULE MediaPath -----------------------------
(***************************************************************************)
(* One RTP stream from sender to playback: XorFecEncoder, a network that   *)
(* loses, reorders and repeats packets, and at the receiver NackManager,   *)
(* XorFecDecoder and RtpJitterBuffer.  No program of the repository wires  *)
(* these classes together; the wiring is that of the diagram in module08's *)
(* README (data packets go to all three, what the decoder rebuilds goes to *)
(* the jitter buffer), with the ordered buffer of module02 as the last     *)
(* stage.  The objects share no state and take no locks: one thread calls  *)
(* them, so the arrival of a packet is one step.                           *)
(*                                                                         *)
(* Data packet i of the stream has sequence number FirstSeq + i; the       *)
(* numbers wrap, but the stream is shorter than half of their space.       *)
(* Encoder and decoder agree on the groups only if FirstSeq and SeqSpace   *)
(* are multiples of GroupSize: the encoder counts from the first packet,   *)
(* the decoder from zero.                                                  *)
(***************************************************************************)
EXTENDS NackManager, XorFec, RtpJitterBuffer, Sequences

CONSTANTS FirstSeq,  \* sequence number of the first packet
          MaxSent,   \* bound: data packets sent
          LengthOf   \* the length of each payload

Indices == 0..(MaxSent - 1)

ASSUME StreamAssumption ==
  /\ FirstSeq \in Seqs
  /\ MaxSent \in Nat /\ 2 * MaxSent <= SeqSpace
  /\ LengthOf \in [Indices -> Nat]

VARIABLES sent,       \* number of data packets sent
          net,        \* packets the network has not lost
          lost,       \* packets the network has lost
          arrived,    \* packets that have arrived
          first,      \* index of the first data packet of them, MaxSent before
          enc,        \* the encoder
          nack,       \* the NackManager
          groups,     \* groups_ of the decoder
          jitter,     \* the RtpJitterBuffer
          played      \* payloads taken out of the jitter buffer

vars == <<sent, net, lost, arrived, first, enc, nack, groups, jitter, played>>

SeqOf(i) == (FirstSeq + i) % SeqSpace
Positions(i) == 0..(LengthOf[i] - 1)
BytesOf(i) == {i} \X Positions(i)
PayloadOf(i) == [bytes |-> BytesOf(i), span |-> Positions(i)]
DataPacket(i) == Packet(FALSE, SeqOf(i), PayloadOf(i))

Init ==
  /\ sent = 0 /\ net = {} /\ lost = {} /\ arrived = {} /\ first = MaxSent
  /\ enc = EncoderInit /\ nack = NackInit /\ groups = {} /\ jitter = JitterInit
  /\ played = <<>>

-----------------------------------------------------------------------------
\* The sender: the next data packet, and a FEC packet at the end of a group.
Send ==
  /\ sent < MaxSent
  /\ sent' = sent + 1
  /\ enc' = Encoded(enc, DataPacket(sent))
  /\ net' = net \cup {DataPacket(sent)} \cup FecPackets(enc, DataPacket(sent))
  /\ UNCHANGED <<lost, arrived, first, nack, groups, jitter, played>>

\* The network loses a packet of which no copy has arrived.
Lose(p) ==
  /\ p \in net \ arrived
  /\ net' = net \ {p} /\ lost' = lost \cup {p}
  /\ UNCHANGED <<sent, arrived, first, enc, nack, groups, jitter, played>>

\* The decoder takes p; p if it is data, and what the decoder rebuilds, are
\* pushed into the jitter buffer.
Decode(p) ==
  LET own == IF p.fec THEN jitter ELSE Pushed(jitter, p)
      new == Recovered(groups, p)
  IN /\ groups' = Decoded(groups, p)
     /\ \/ new = {} /\ jitter' = own
        \/ \E r \in new : jitter' = Pushed(own, r)

\* A data packet arrives, for the first time or again.
ReceiveData(p) ==
  /\ p \in net /\ ~p.fec
  /\ arrived' = arrived \cup {p}
  /\ first' = IF first < MaxSent THEN first ELSE CHOOSE i \in Indices : p = DataPacket(i)
  /\ nack' = OnReceive(nack, p.seq)
  /\ Decode(p)
  /\ UNCHANGED <<sent, net, lost, enc, played>>

\* A FEC packet arrives, for the first time or again.
ReceiveFec(p) ==
  /\ p \in net /\ p.fec
  /\ arrived' = arrived \cup {p}
  /\ Decode(p)
  /\ UNCHANGED <<sent, net, lost, first, enc, nack, played>>

\* Time passes for an entry of missing_.
Elapse(s) ==
  /\ s \in nack.missing \ nack.due
  /\ nack' = Aged(nack, s)
  /\ UNCHANGED <<sent, net, lost, arrived, first, enc, groups, jitter, played>>

\* The playback timer takes a packet out of the buffer.
Play ==
  /\ \E p \in NextPackets(jitter) : played' = Append(played, p.payload)
  /\ jitter' = Popped(jitter)
  /\ UNCHANGED <<sent, net, lost, arrived, first, enc, nack, groups>>

Next ==
  \/ Send \/ Play
  \/ \E p \in net : Lose(p) \/ ReceiveData(p) \/ ReceiveFec(p)
  \/ \E s \in nack.missing : Elapse(s)

Spec == Init /\ [][Next]_vars

\* The sender sends on, what is not lost arrives, time passes, and the
\* playback timer keeps calling pop_next.
Fairness ==
  /\ WF_vars(Send) /\ WF_vars(Play)
  /\ WF_vars(\E p \in net \ arrived : ReceiveData(p) \/ ReceiveFec(p))
  /\ WF_vars(\E s \in nack.missing : Elapse(s))

FairSpec == Spec /\ Fairness

-----------------------------------------------------------------------------
(* Properties.                                                             *)

\* A packet sent after packet i has arrived.
NewerArrived(i) == \E k \in Indices : k > i /\ DataPacket(k) \in arrived

\* missing_ is exactly what it should be, across the wrap of the numbers,
\* reordering and repetition: the packets sent after the first that arrived
\* and before the newest that arrived which have not arrived.
MissingExact ==
  LET isMissing(i) ==
        i > first /\ DataPacket(i) \notin arrived /\ NewerArrived(i)
  IN nack.missing = {SeqOf(i) : i \in {j \in Indices : isMissing(j)}}

\* A packet the network lost is requested once a newer one has arrived,
\* unless it was sent before the first that arrived.
LossIsRequested ==
  \A i \in Indices :
    (DataPacket(i) \in lost /\ i > first /\ NewerArrived(i))
      ~> SeqOf(i) \in NackList(nack)

\* The packets of group k of the sender.
Group(k) == {i \in Indices : i \div GroupSize = k}

\* The payloads of packets combined: their bytes, as many as the longest has.
Combined(is) ==
  [bytes |-> UNION {BytesOf(i) : i \in is}, span |-> UNION {Positions(i) : i \in is}]

\* Packet i as it comes out of the decoder: number and bytes are its own, and
\* zero bytes follow up to the length of the longest packet of its group.
PaddedPayload(i) == [bytes |-> BytesOf(i), span |-> Combined(Group(i \div GroupSize)).span]
Padded(i) == Packet(FALSE, SeqOf(i), PaddedPayload(i))

\* What the decoder returns when any packet arrives is a packet the sender
\* sent, number and bytes, on both sides of the wrap and whether or not the
\* decoder agrees with the encoder on the groups; but it is as long as the
\* longest of its group.
RebuiltIsPadded ==
  \A p \in net :
    Recovered(groups, p) \subseteq {Padded(i) : i \in 0..(sent - 1)}

\* Playback gets the stream in order, each packet once, without a gap, from
\* the first packet that reached the buffer; each with its own bytes, and as
\* long as it was sent or as the longest of its group.
PlayedInOrder ==
  \E i \in 0..MaxSent :
    /\ i + Len(played) <= MaxSent
    /\ \A k \in 1..Len(played) :
         played[k] \in {PayloadOf(i + k - 1), PaddedPayload(i + k - 1)}

\* What the sender sends of group k.
GroupPackets(k) ==
  {DataPacket(i) : i \in Group(k)} \cup {Packet(TRUE, SeqOf(k * GroupSize), Combined(Group(k)))}

AtMostOneLost ==
  \A k \in 0..(MaxSent - 1) : Cardinality(GroupPackets(k) \cap lost) <= 1

\* Both ends count the same groups: module08's README asks for it, in its
\* section on the pitfalls of the decoder.
Aligned == FirstSeq % GroupSize = 0 /\ SeqSpace % GroupSize = 0

AllPlayed ==
  played # <<>> /\ played[Len(played)] \in {PayloadOf(MaxSent - 1), PaddedPayload(MaxSent - 1)}

\* If the groups are aligned and complete and the network loses at most one
\* packet of each, playback reaches the last packet without any
\* retransmission: FEC fills every gap.
PlaybackGoesOn ==
  (Aligned /\ MaxSent % GroupSize = 0 /\ []AtMostOneLost) => <>AllPlayed
=============================================================================
