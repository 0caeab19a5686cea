--------------------------------- MODULE Sdp ---------------------------------
(***************************************************************************)
(* Sdp of module05: a text is a sequence of lines, each a record with the  *)
(* character before "=" as key.  What follows is read as far as parse      *)
(* looks at it: an m line is [type, port, proto, fmts], an a line names an *)
(* attribute and its value.  None is the empty string, and NoNumber stands *)
(* for a text in which stoi finds no number, or none that fits an int.     *)
(***************************************************************************)
EXTENDS Integers, Sequences

CONSTANT NoNumber

ASSUME NoNumberAssumption == NoNumber \notin Int

None == ""

\* The attributes kept as one text, by the name of their line.
TextAttributes == {"ice-ufrag", "ice-pwd", "fingerprint", "candidate"}

Line(key, value) == [key |-> key, value |-> value]
AttrLine(name, value) == [key |-> "a", name |-> name, value |-> value]
RtpmapLine(pt, codec) == [key |-> "a", name |-> "rtpmap", pt |-> pt, codec |-> codec]

\* The m line of a section, as it is read again.  A section without a type has
\* no port either: "m= 0 " is written, and the zero is read as the type.
MediaLine(m) == [key |-> "m", type |-> IF m.type = None THEN "0" ELSE m.type,
                 port |-> m.port, proto |-> m.proto, fmts |-> m.fmts]

EmptySdp == [v |-> "0", o |-> None, s |-> "-", media |-> <<>>]

\* What can be read of a line.  The words of an m line follow each other:
\* behind one that is missing or no number there is none.
SdpLines ==
  [key : {"v", "o", "s", "t"}, value : STRING]
    \cup [key : {"a"}, name : STRING \ {"rtpmap"}, value : STRING]
    \cup [key : {"a"}, name : {"rtpmap"}, pt : Int \cup {NoNumber}, codec : STRING]
    \cup {line \in [key : {"m"}, type : STRING, port : Nat, proto : STRING, fmts : Seq(Int)] :
            /\ line.type = None => line.port = 0 /\ line.proto = None
            /\ line.proto = None => line.fmts = <<>>}

\* A text that is empty has no line.
TextLine(m, name) ==
  IF m.text[name] = None THEN <<>> ELSE <<AttrLine(name, m.text[name])>>

\* The lines of one media section behind those written so far.
WithMedia(lines, m) ==
  lines \o <<MediaLine(m)>>
    \o TextLine(m, "ice-ufrag") \o TextLine(m, "ice-pwd")
    \o TextLine(m, "fingerprint") \o TextLine(m, "candidate")
    \o [k \in 1..Len(m.rtpmap) |-> RtpmapLine(m.rtpmap[k][1], m.rtpmap[k][2])]

\* serialize
SerializeSdp(sdp) ==
  LET written[k \in 0..Len(sdp.media)] ==
        IF k = 0
        THEN <<Line("v", sdp.v), Line("o", sdp.o), Line("s", sdp.s), Line("t", "0 0")>>
        ELSE WithMedia(written[k - 1], sdp.media[k])
  IN written[Len(sdp.media)]

-----------------------------------------------------------------------------
\* emplace_back, and what the m line says
MediaOf(line) ==
  [type |-> line.type, port |-> line.port, proto |-> line.proto, fmts |-> line.fmts,
   text |-> [name \in TextAttributes |-> None], rtpmap |-> <<>>]

\* Mutant: a second candidate replaces the first.
WithAttributeLast(m, line) ==
  IF line.name = "rtpmap" THEN [m EXCEPT !.rtpmap = Append(@, <<line.pt, line.codec>>)]
  ELSE IF line.name \notin TextAttributes THEN m
  ELSE [m EXCEPT !.text[line.name] = line.value]

\* An attribute in the section it belongs to: of the candidates the first
\* that is not empty stays, of the other texts the last; others are ignored.
WithAttribute(m, line) ==
  IF line.name = "rtpmap" THEN [m EXCEPT !.rtpmap = Append(@, <<line.pt, line.codec>>)]
  ELSE IF line.name \notin TextAttributes THEN m
  ELSE IF line.name = "candidate" /\ m.text["candidate"] # None THEN m
  ELSE [m EXCEPT !.text[line.name] = line.value]

\* What a line adds; attributes before the first m line are passed over.
AfterLine(sdp, line) ==
  CASE line.key = "v" -> [sdp EXCEPT !.v = line.value]
    [] line.key = "o" -> [sdp EXCEPT !.o = line.value]
    [] line.key = "s" -> [sdp EXCEPT !.s = line.value]
    [] line.key = "m" -> [sdp EXCEPT !.media = Append(@, MediaOf(line))]
    [] line.key = "a" /\ sdp.media # <<>> ->
         [sdp EXCEPT !.media[Len(sdp.media)] = WithAttribute(@, line)]
    [] OTHER -> sdp

\* Whether stoi throws at this line, when the lines before gave sdp.
Throws(sdp, line) ==
  /\ line.key = "a" /\ sdp.media # <<>>
  /\ line.name = "rtpmap" /\ line.pt = NoNumber

\* One turn of the loop over the lines; nothing is read after a throw.
ReadLine(r, line) ==
  IF r.thrown \/ Throws(r.sdp, line) THEN [r EXCEPT !.thrown = TRUE]
  ELSE [r EXCEPT !.sdp = AfterLine(@, line)]

\* parse: it never refuses a text, but stoi may throw out of it.
ParseSdp(lines) ==
  LET read[k \in 0..Len(lines)] ==
        IF k = 0 THEN [thrown |-> FALSE, sdp |-> EmptySdp] ELSE ReadLine(read[k - 1], lines[k])
  IN read[Len(lines)]
=============================================================================
