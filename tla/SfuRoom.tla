------------------------------ MODULE SfuRoom ------------------------------
(***************************************************************************)
(* SfuRoom of module09: forwards the media of each peer of a room to the   *)
(* others under an SSRC of its own.  Every method holds mutex_ throughout, *)
(* send_fn_ calls included, so each is one step; any thread may call.      *)
(*                                                                         *)
(* A packet is its SSRC.  Packets too short to have one are dropped and    *)
(* change nothing.  Two histories: reg numbers the registrations, and heard *)
(* is the RTP that send_fn_ delivered, with the registration it was sent   *)
(* under.  RTCP goes out byte by byte, with the SSRC its sender wrote into *)
(* it (the comment in route_rtcp), and is not in heard: what is said of    *)
(* SSRCs is said of RTP streams.                                           *)
(***************************************************************************)
EXTENDS Integers, Sequences

CONSTANTS Peers,      \* peer ids
          NoSsrc,     \* peer without entry in peer_ssrc_map_
          SsrcSpace,  \* 2^32: values of uint32_t
          FirstSsrc,  \* 0x10000000: initial next_ssrc_
          MaxAdds     \* bound: calls of add_peer that register a peer

ASSUME SpaceAssumption ==
  /\ SsrcSpace \in Nat \ {0} /\ FirstSsrc \in 0..(SsrcSpace - 1)
  /\ MaxAdds \in Nat
ASSUME NoSsrcAssumption == NoSsrc \notin Int

VARIABLES ssrcMap,   \* peer_ssrc_map_
          peers,     \* peers_
          nextSsrc,  \* next_ssrc_
          reg,       \* history: number of a peer's registration
          heard,     \* history: <<receiver, ssrc, registration>> of the RTP
                     \* forwarded
          adds       \* peers registered so far

vars == <<ssrcMap, peers, nextSsrc, reg, heard, adds>>

Ssrcs == 0..(SsrcSpace - 1)

TypeOK ==
  /\ ssrcMap \in [Peers -> Ssrcs \cup {NoSsrc}]
  /\ peers \in Seq(Peers)
  /\ nextSsrc \in Ssrcs
  /\ reg \in [Peers -> 0..MaxAdds]
  /\ heard \in SUBSET (Peers \X Ssrcs \X (0..MaxAdds))
  /\ adds \in 0..MaxAdds

Init ==
  /\ ssrcMap = [p \in Peers |-> NoSsrc] /\ peers = <<>>
  /\ nextSsrc = FirstSsrc
  /\ reg = [p \in Peers |-> 0] /\ heard = {} /\ adds = 0

Members == {peers[i] : i \in DOMAIN peers}

\* next_ssrc_ after next_ssrc_++, a uint32_t.
SsrcAfter == (nextSsrc + 1) % SsrcSpace

\* add_peer: already registered, return.
AddAgain(p) == ssrcMap[p] # NoSsrc /\ UNCHANGED vars

\* add_peer(peer_id)
AddPeer(p) ==
  /\ adds < MaxAdds
  /\ ssrcMap[p] = NoSsrc
  /\ ssrcMap' = [ssrcMap EXCEPT ![p] = nextSsrc]
  /\ nextSsrc' = SsrcAfter
  /\ peers' = Append(peers, p)
  /\ reg' = [reg EXCEPT ![p] = adds]
  /\ adds' = adds + 1
  /\ UNCHANGED heard

\* erase(remove(...)): the items of s other than p, in their order.
Without(s, p) ==
  LET kept[n \in 0..Len(s)] ==
        IF n = 0 THEN <<>>
        ELSE IF s[n] = p THEN kept[n - 1]
        ELSE Append(kept[n - 1], s[n])
  IN kept[Len(s)]

\* Mutant: the map is cleaned, the vector is not.
RemoveFromMapOnly(p) ==
  /\ ssrcMap' = [ssrcMap EXCEPT ![p] = NoSsrc]
  /\ reg' = [reg EXCEPT ![p] = 0]
  /\ UNCHANGED <<peers, nextSsrc, heard, adds>>

\* remove_peer(peer_id)
RemovePeer(p) ==
  /\ ssrcMap' = [ssrcMap EXCEPT ![p] = NoSsrc]
  /\ peers' = Without(peers, p)
  /\ reg' = [reg EXCEPT ![p] = 0]
  /\ UNCHANGED <<nextSsrc, heard, adds>>

\* Mutant: every publisher is forwarded under the first SSRC.
FirstOutSsrc(p) == FirstSsrc

\* bytes 8-11 of the forwarded packet
OutSsrc(p) == ssrcMap[p]

\* route_rtp(from, data, len): a registered sender's packet, rewritten, to
\* every other peer.  A sender that is not registered is ignored.
RouteRtp(p) ==
  /\ ssrcMap[p] # NoSsrc
  /\ heard' = heard \cup {<<q, OutSsrc(p), reg[p]>> : q \in Members \ {p}}
  /\ UNCHANGED <<ssrcMap, peers, nextSsrc, reg, adds>>

\* route_rtcp(from, data, len): the bytes as they are, to every other peer,
\* whether the sender is registered or not.
RouteRtcp(p) == UNCHANGED vars

Next ==
  \E p \in Peers :
    AddAgain(p) \/ AddPeer(p) \/ RemovePeer(p) \/ RouteRtp(p) \/ RouteRtcp(p)

Spec == Init /\ [][Next]_vars

-----------------------------------------------------------------------------
(* Properties.                                                             *)

\* peer_ssrc_map_ and peers_ hold the same peers, and peers_ holds each
\* once: nobody is sent a packet twice, or after it was removed.
MapAndVectorAgree ==
  /\ \A p \in Peers : p \in Members <=> ssrcMap[p] # NoSsrc
  /\ \A i, j \in DOMAIN peers : peers[i] = peers[j] => i = j

\* Packets that receivers got under one SSRC are of one registration, or of
\* registrations at least SsrcSpace apart: peers come and go, whatever SSRCs
\* they send with, and two streams meet under one SSRC only after next_ssrc_
\* has gone round.  Then they do: add_peer does not look whether the value is
\* still in use.
StreamsUnmixed ==
  \A h1, h2 \in heard :
    (h1[2] = h2[2] /\ h1[3] < h2[3]) => h2[3] - h1[3] >= SsrcSpace

\* A peer that registers, for the first time or again, gets an SSRC that no
\* stream of the last SsrcSpace - 1 registrations had, heard or still held.
FreshSsrc ==
  [][\A p \in Peers : (ssrcMap'[p] # ssrcMap[p] /\ ssrcMap'[p] # NoSsrc) =>
       /\ \A h \in heard : h[2] = ssrcMap'[p] => adds - h[3] >= SsrcSpace
       /\ \A q \in Peers \ {p} : ssrcMap'[q] = ssrcMap'[p] => adds - reg[q] >= SsrcSpace]_vars

\* The SSRC the k-th registration gets.
Issued(k) == (FirstSsrc + k) % SsrcSpace

\* The inductive invariant of the theorems in SfuServerProofs: an SSRC in use
\* or ever heard is the one its registration was issued.
IndInv ==
  /\ DOMAIN ssrcMap = Peers /\ DOMAIN reg = Peers
  /\ adds \in 0..MaxAdds
  /\ nextSsrc = Issued(adds)
  /\ \A p \in Peers : ssrcMap[p] # NoSsrc => reg[p] \in 0..(adds - 1) /\ ssrcMap[p] = Issued(reg[p])
  /\ \A h \in heard : h[3] \in 0..(adds - 1) /\ h[2] = Issued(h[3])
=============================================================================
