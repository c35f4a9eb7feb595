------------------------------- MODULE Camera -------------------------------
(***************************************************************************)
(* An external component: the network camera at the other end of the       *)
(* connection. A script says what the camera sends; Rendered turns it into *)
(* the bytes of a multipart response and Sent says which images it holds.  *)
(***************************************************************************)
EXTENDS Integers, Sequences, SequencesExt

(***************************************************************************)
(* A script is a record                                                    *)
(*   eol      the line terminator, one or two bytes                        *)
(*   type     the Content-Type line of the response                        *)
(*   mark     the text of the lines that separate the parts                *)
(*   parts    what follows each of them: header lines, bytes that precede  *)
(*            the image, and the image                                     *)
(***************************************************************************)
Preamble(c) == <<"HTTP 200">> \o c.eol \o <<c.type>> \o c.eol \o c.eol

Lines(c, texts) == FlattenSeq([i \in DOMAIN texts |-> <<texts[i]>> \o c.eol])

Upto(c, p) == c.mark \o c.eol \o Lines(c, p.header) \o c.eol \o p.junk \o p.image

RenderedPart(c, p) == Upto(c, p) \o c.eol

RenderedParts(c, n) == FlattenSeq([i \in 1 .. n |-> RenderedPart(c, c.parts[i])])

Rendered(c) == Preamble(c) \o RenderedParts(c, Len(c.parts))

\* How many bytes have been sent once the image of part i is complete.
ImageEnd(c, i) ==
  Len(Preamble(c)) + Len(RenderedParts(c, i - 1)) + Len(Upto(c, c.parts[i]))

\* The images wholly within the first n bytes that are at most max long.
Sent(c, n, max) ==
  FlattenSeq([i \in DOMAIN c.parts |->
    IF ImageEnd(c, i) <= n /\ Len(c.parts[i].image) <= max THEN <<c.parts[i].image>> ELSE <<>>])
==============================================================================
