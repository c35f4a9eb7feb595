----------------------------- MODULE MCGrabber -----------------------------
(***************************************************************************)
(* Instances of Grabber for TLC: exhaustive short image parts behind a     *)
(* fixed header (Raw streams), and the streams of scripted cameras, whose  *)
(* images are known in advance.                                            *)
(***************************************************************************)
EXTENDS Grabber, Camera

MCByte == {LF, CR, FF, D8, D9, SEMICOLON, "b", "o", "-", "x", "HTTP 200", "HTTP 404",
           "type", "type;", "type-", "type blank", "type bare",
           "len 1", "len 3", "len 5", "len 6", "len 7", "len 9", "len one digit", "len blank"}

MCTypeLine ==
  [s \in {"type", "type;", "type-", "type blank", "type bare"} |->
     [blank     |-> s = "type blank",
      value     |-> CASE s = "type-" -> <<"-", "b">>
                      [] s = "type bare" -> <<>>
                      [] OTHER -> <<"b", "o">>,
      semicolon |-> s = "type;"]]

MCLengthLine ==
  [s \in {"len 1", "len 3", "len 5", "len 6", "len 7", "len 9", "len one digit", "len blank"} |->
     [blank  |-> s = "len blank",
      digits |-> IF s = "len one digit" THEN 1 ELSE 2,
      value  |-> CASE s = "len 1" -> 1 [] s = "len 3" -> 3 [] s = "len 5" -> 5
                   [] s = "len 6" -> 6 [] s = "len 7" -> 7 [] s = "len 9" -> 9 [] OTHER -> 4]]

-----------------------------------------------------------------------------
(* Raw streams: every string of RawLength bytes after the first FF of the  *)
(* first part, with a plain second part behind it, and responses that are  *)
(* wrong before they get there.                                            *)

CONSTANT RawLength

RawHeader(line) == <<"HTTP 200", LF, "type", LF, LF, "b", "o", LF, line, LF, LF, FF>>

RawStreams ==
  {RawHeader(line) \o raw \o <<"b", "o", LF, LF, FF, D8, FF, D9>> :
     line \in {"x", "len 1", "len 3", "len 9"}, raw \in [1 .. RawLength -> {LF, FF, D8, D9}]}
  \cup {<<"HTTP 404", LF>>, <<"x", LF>>, <<"HTTP 200", CR, LF, "type blank", LF>>,
        <<"HTTP 200", LF, "type bare", LF, LF>>,
        <<"HTTP 200", LF, "type", LF, "type bare", LF, LF, "b", "b", "o", CR, CR, LF>>,
        <<"HTTP 200", LF, "type;", LF, LF, "b", "o", ";", LF, "len blank", LF>>,
        <<"HTTP 200", LF, "x", "x", "x", "x", "x", "x", "x", "x", "x", LF>>}

-----------------------------------------------------------------------------
(* Scripted cameras.                                                       *)

Short     == <<FF, D8, FF, D9>>
Plain     == <<FF, D8, "x", FF, D9>>
Thumbnail == <<FF, D8, FF, D9, FF, D9>>
Exact     == <<FF, D8, LF, "b", "o", FF, D9>>
TooLong   == <<FF, D8, "x", "x", "x", "x", "x", FF, D9>>

Part(header, junk, image) == [header |-> header, junk |-> junk, image |-> image]

Parts == {Part(<<>>, <<>>, Short), Part(<<"x">>, <<FF, "x", FF>>, Plain),
          Part(<<"len 5">>, <<"x">>, Plain), Part(<<"len one digit">>, <<>>, Short),
          Part(<<"len 6", "x">>, <<>>, Thumbnail), Part(<<"len 7">>, <<>>, Exact),
          Part(<<"x", "len 9">>, <<>>, TooLong)}

Script(eol, type, mark, parts) ==
  [eol |-> eol, type |-> type, mark |-> mark, parts |-> parts]

TwoParts == {<<p, q>> : p \in Parts, q \in Parts}

\* Cameras the code was written for: with and without the usual two dashes, also
\* in front of a boundary that begins with a dash itself.
Cameras ==
  {Script(<<CR, LF>>, "type", mark, parts) :
     mark \in {<<"b", "o">>, <<"-", "-", "b", "o">>}, parts \in TwoParts}
  \cup {Script(<<CR, LF>>, "type-", <<"-", "-", "-", "b">>, <<p, Part(<<>>, <<>>, Short)>>) :
            p \in Parts}
  \cup {Script(<<LF>>, "type", <<"-", "-", "b", "o">>, parts) :
          parts \in {ps \in TwoParts : ps[1].image # TooLong}}

\* They keep to the form that BoundaryFound of GrabberProofs asks for: ordinary
\* characters in the boundary, the first of them not in front of it as well or
\* exactly twice, and lengths that are true.
CamerasKeepForm ==
  \A c \in Cameras :
    LET b == BoundaryIn(MCTypeLine[c.type]) IN
      /\ \A i \in DOMAIN b : b[i] \notin {LF, CR, FF, D8, D9}
      /\ \A i \in 4 .. Len(Rendered(c)) - Len(b) :
           SubSeq(Rendered(c), i, i + Len(b) - 1) = b /\ Rendered(c)[i - 1] = b[1] =>
             Rendered(c)[i - 2] = b[1] /\ Rendered(c)[i - 3] # b[1]
      /\ \A part \in Range(c.parts) :
           /\ Last(part.image) = D9
           /\ \A i \in DOMAIN part.header :
                part.header[i] \in DOMAIN MCLengthLine /\ MCLengthLine[part.header[i]].digits > 1 =>
                  MCLengthLine[part.header[i]].value = Len(part.image)

ASSUME CamerasKeepForm

\* A semicolon follows the boundary in the header.
SemicolonCameras ==
  {Script(<<CR, LF>>, "type;", <<"b", "o">>, <<Part(<<>>, <<>>, Short)>>)}

\* A part too long for the buffer, then one of unannounced length.
LongCameras ==
  {Script(eol, "type", <<"b", "o">>,
          <<Part(<<"len 9">>, <<>>, TooLong), Part(<<>>, <<>>, Short)>>) :
     eol \in {<<LF>>, <<CR, LF>>}}

-----------------------------------------------------------------------------
(* What the grabber can rely on.                                           *)

GivesLength(line) == line \in DOMAIN LengthLine /\ LengthLine[line].digits > 1

Announces(part) == \E i \in DOMAIN part.header : GivesLength(part.header[i])

\* Lines have one symbol each; lengths announced are true; an image that is not
\* announced has no thumbnail; nothing before an image looks like its start.
WellFormedPart(p) ==
  LET n == Len(p.image) IN
  /\ \A i \in DOMAIN p.header :
       /\ p.header[i] \notin {LF, CR}
       /\ p.header[i] \in DOMAIN LengthLine => ~LengthLine[p.header[i]].blank
       /\ GivesLength(p.header[i]) => LengthLine[p.header[i]].value = n
  /\ \A i \in 1 .. Len(p.junk) - 1 : ~(p.junk[i] = FF /\ p.junk[i + 1] = D8)
  /\ n >= 4 /\ p.image[1] = FF /\ p.image[2] = D8 /\ p.image[n - 1] = FF /\ p.image[n] = D9
  /\ ~Announces(p) => \A i \in 3 .. n - 2 : ~(p.image[i] = FF /\ p.image[i + 1] = D9)

\* An image that the grabber skips holds no line feed, and it is the last one
\* of a camera that ends its lines with a line feed alone.
WellSkipped(c, i) ==
  /\ i = Len(c.parts) \/ c.eol = <<CR, LF>>
  /\ \A j \in DOMAIN c.parts[i].image : c.parts[i].image[j] # LF

\* The boundary is made of ordinary characters and ends the marks. Its first
\* character stands in front of it not at all, or just twice, as the two dashes do
\* where the boundary begins with one itself.
WellFormed(c) ==
  LET b      == BoundaryIn(TypeLine[c.type])
      dashes == Len(c.mark) - Len(b)
  IN
  /\ {"HTTP 200", c.type} \subseteq Byte
  /\ c.eol \in {<<LF>>, <<CR, LF>>}
  /\ c.type \in DOMAIN TypeLine \ {LF, CR}
  /\ ~TypeLine[c.type].blank /\ HasBoundary(TypeLine[c.type])
  /\ \A i \in DOMAIN b : b[i] \notin {LF, CR, FF, D8, D9}
  /\ c.mark \in Seq(Byte) /\ dashes >= 0
  /\ \A i \in DOMAIN b : c.mark[dashes + i] = b[i]
  /\ {i \in 1 .. dashes : c.mark[i] = b[1]} \in {{}, {dashes - 1, dashes}}
  /\ c.parts \in Seq([header : Seq(Byte), junk : Seq(Byte), image : Seq(Byte)])
  /\ \A i \in DOMAIN c.parts :
       /\ WellFormedPart(c.parts[i])
       /\ Announces(c.parts[i]) /\ Len(c.parts[i].image) > BufSize => WellSkipped(c, i)

CamerasWellFormed == \A c \in Cameras : WellFormed(c)

ASSUME CamerasWellFormed

CONSTANT Scripts

ScriptStreams == {Rendered(c) : c \in Scripts}
ScriptOf      == [s \in ScriptStreams |-> CHOOSE c \in Scripts : Rendered(c) = s]
SentBy        == [s \in ScriptStreams |->
                    [n \in 0 .. Len(s) |-> Sent(ScriptOf[s], n, BufSize)]]

\* When the grabber asks for more, or returns, it has delivered exactly the
\* images it has received so far that fit its buffer: none lost, split,
\* joined, repeated or kept back.
DeliversWhatWasSent ==
  pc \in {"read", "done"} => frames = SentBy[stream][pos]

\* An image is skipped only for being larger than the read buffer ("Check that
\* the whole of the image can fit in the buffer"; "Skipping frame, sorry").
OnlyLongImagesSkipped ==
  [][state = "FIND_IMAGE" /\ state' = "FIND_BOUNDARY" =>
       \E i \in DOMAIN ScriptOf[stream].parts :
         LET image == ScriptOf[stream].parts[i].image IN
           /\ Len(image) > BufSize
           /\ pos - head + anchor + Len(image) = ImageEnd(ScriptOf[stream], i)]_vars
==============================================================================
