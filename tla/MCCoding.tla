------------------------------ MODULE MCCoding ------------------------------
(* Instance of Coding for TLC: numbers at the edges of a mask and of the    *)
(* number space, pieces that form start codes and NAL units, attributes of  *)
(* ICE, lines of two media sections, delays that rise and fall, packets     *)
(* that come in bursts.                                                     *)
EXTENDS Coding

\* What is read of "m=".
Typeless == [key |-> "m", type |-> None, port |-> 0, proto |-> None, fmts |-> <<>>]
Video == [type |-> "video", port |-> 9, proto |-> "SAVPF", fmts |-> <<96>>]

MCInputs ==
  [nack   |-> {0, 1, 16, 17, 18, 34, 65519, 65535},
   nal    |-> {<<0>>, <<1>>, <<0, 0, 1>>, <<101, 7, 8>>},
   stun   |-> {"name", "priority", "controlling", "address", "integrity", "fingerprint"},
   sdp    |-> {Line("v", "1"), MediaLine(Video), MediaLine([Video EXCEPT !.type = "audio"]),
               Typeless,
               AttrLine("fingerprint", "f1"), AttrLine("fingerprint", None),
               AttrLine("candidate", "c1"), AttrLine("candidate", "c2"),
               RtpmapLine(96, "H264"),
               RtpmapLine(NoNumber, "H264")},
   delays |-> {0, 1, 3},
   jitter |-> 0..3 \cup Pops]

MCDepth == [nack |-> 4, nal |-> 5, stun |-> 3, sdp |-> 4, delays |-> 7, jitter |-> 7]
=============================================================================
