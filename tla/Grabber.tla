------------------------------- MODULE Grabber -------------------------------
(***************************************************************************)
(* The stream parser of mjv_grabber.c: one call of mjv_grabber_run, which  *)
(* reads a multipart HTTP response into a fixed buffer, walks it byte by   *)
(* byte with a state machine, and hands every JPEG image it finds to a     *)
(* callback.                                                               *)
(*                                                                         *)
(* Pointers into the buffer are indices from 0; NULL is -1. A byte of the  *)
(* buffer is a symbol: the line terminators and JPEG marker bytes the code *)
(* compares with, any other single byte, or one symbol for the whole text  *)
(* of a header line (the code looks at such a text only once its line is   *)
(* complete, so where read() cuts it makes no difference).                 *)
(***************************************************************************)
EXTENDS Integers, Sequences

CONSTANTS
  BufSize,        \* BUF_SIZE
  Byte,           \* the symbols a stream is made of
  Streams,        \* the streams a camera may send
  TypeLine,       \* symbol of a Content-Type line -> what the line says
  LengthLine,     \* symbol of a Content-Length line -> what the line says
  MallocFails     \* whether an allocation may fail

LF == "LF"
CR == "CR"
FF == "FF"
D8 == "D8"
D9 == "D9"
SEMICOLON == ";"

(***************************************************************************)
(* A Content-Type line: blank (nothing but spaces after the colon), or the *)
(* value of its boundary subfield (empty: there is none) and whether a     *)
(* semicolon follows that value. A Content-Length line: blank, or how many *)
(* digits it has and their value.                                          *)
(***************************************************************************)
GrabberAssumption ==
  /\ BufSize \in Nat \ {0}
  /\ {LF, CR, FF, D8, D9, SEMICOLON} \subseteq Byte
  /\ Streams \subseteq Seq(Byte)
  /\ MallocFails \in BOOLEAN
  /\ \A s \in DOMAIN TypeLine :
       TypeLine[s] \in [blank : BOOLEAN, value : Seq(Byte), semicolon : BOOLEAN]
  /\ \A s \in DOMAIN LengthLine :
       LengthLine[s] \in [blank : BOOLEAN, digits : Nat, value : Nat]

ASSUME GrabberAssumption

NULL == -1

HeaderStates == {"HTTP_BANNER", "HTTP_HEADER", "HTTP_SUBHEADER"}
ImageStates  == {"IMAGE_BY_CONTENT_LENGTH", "IMAGE_BY_EOF_SEARCH"}
States       == HeaderStates \cup ImageStates \cup {"FIND_BOUNDARY", "FIND_IMAGE"}
Results      == {"none", "READ_ERROR", "PREMATURE_EOF", "CORRUPT_HEADER"}

VARIABLES
  stream,           \* what the camera sends
  pos,              \* how much of it read() has returned
  pc,               \* where mjv_grabber_run is: read, parse, adjust or done
  state,            \* s->state
  buf,              \* s->buf
  head,             \* s->head, one past the last byte read
  cur,              \* s->cur
  anchor,           \* s->anchor
  boundary,         \* s->boundary, <<>> when NULL
  content_length,   \* s->content_length
  result,           \* what mjv_grabber_run returned
  frames,           \* the frames given to the callback
  taken             \* history: stream offset one past the last of them

vars == <<stream, pos, pc, state, buf, head, cur, anchor, boundary,
          content_length, result, frames, taken>>

source == <<stream, pos>>
output == <<frames, taken>>

Init ==
  /\ stream \in Streams
  /\ pos = 0
  /\ pc = "read"
  /\ state = "HTTP_BANNER"
  /\ buf = [i \in 0 .. BufSize - 1 |-> LF]
  /\ head = 0
  /\ cur = 0
  /\ anchor = NULL
  /\ boundary = <<>>
  /\ content_length = 0
  /\ result = "none"
  /\ frames = <<>>
  /\ taken = 0

-----------------------------------------------------------------------------
(* Steps shared by the states.                                             *)

\* A slip: the byte at head is taken for received.
IncrementCur_PastHead(c) ==
  /\ cur' = c + 1
  /\ pc' = IF c + 1 > head THEN "adjust" ELSE "parse"
  /\ UNCHANGED result

\* increment_cur() from position c; OUT_OF_BYTES leads to adjust_streambuf.
IncrementCur(c) ==
  /\ cur' = c + 1
  /\ pc' = IF c + 1 >= head THEN "adjust" ELSE "parse"
  /\ UNCHANGED result

\* The state function reports an error and mjv_grabber_run returns r.
Return(r) ==
  /\ pc' = "done"
  /\ result' = r
  /\ UNCHANGED cur

In(s) == pc = "parse" /\ state = s

\* got_new_frame(): copy len bytes at the anchor into a frame and hand it to
\* the callback. A failed allocation loses the frame and nothing else: the
\* callers ignore the return value.
GotNewFrame(len) ==
  \/ /\ frames' = Append(frames, [i \in 1 .. len |-> buf[anchor + i - 1]])
     /\ taken' = pos - head + anchor + len
  \/ MallocFails /\ UNCHANGED output

-----------------------------------------------------------------------------
(* Header lines. fetch_header_line() anchors the first byte of the line    *)
(* and walks to its LF; the line's text excludes LF and a CR before it.    *)

LineStart == IF anchor = NULL THEN cur ELSE anchor

LineLen ==
  IF cur > LineStart /\ buf[cur - 1] = CR
  THEN cur - LineStart - 1
  ELSE cur - LineStart

\* The text of the line is told by its first symbol.
LineIs(symbols) == LineLen > 0 /\ buf[LineStart] \in symbols

\* fetch_header_line() on a byte that does not end the line.
FetchHeaderLine ==
  /\ pc = "parse"
  /\ state \in HeaderStates
  /\ buf[cur] # LF
  /\ anchor' = LineStart
  /\ IncrementCur(cur)
  /\ UNCHANGED <<source, output, state, buf, head, boundary, content_length>>

\* fetch_header_line() has returned READ_SUCCESS to the function of state s.
HeaderLine(s) ==
  /\ In(s)
  /\ buf[cur] = LF
  /\ anchor' = NULL
  /\ UNCHANGED <<source, output, buf, head>>

StateHttpBanner ==
  /\ HeaderLine("HTTP_BANNER")
  /\ UNCHANGED <<boundary, content_length>>
  /\ \/ /\ LineIs({"HTTP 200"})
        /\ state' = "HTTP_HEADER"
        /\ IncrementCur(cur)
     \/ /\ LineIs({"HTTP 404"})
        /\ Return("READ_ERROR")
        /\ UNCHANGED state
     \/ /\ ~LineIs({"HTTP 200", "HTTP 404"})
        /\ Return("CORRUPT_HEADER")
        /\ UNCHANGED state

\* interpret_content_type(): the value of the boundary subfield ends at a
\* semicolon, which is copied along with it, or at the end of the line, in
\* which case a value of a single character is passed over.
HasBoundary(line) == Len(line.value) > IF line.semicolon THEN 0 ELSE 1
BoundaryIn(line)  == IF line.semicolon THEN Append(line.value, SEMICOLON) ELSE line.value

StateHttpHeader ==
  /\ HeaderLine("HTTP_HEADER")
  /\ UNCHANGED content_length
  /\ \/ /\ LineLen = 0
        /\ boundary = <<>>
        /\ Return("CORRUPT_HEADER")
        /\ UNCHANGED <<state, boundary>>
     \/ /\ LineLen = 0
        /\ boundary # <<>>
        /\ state' = "FIND_BOUNDARY"
        /\ IncrementCur(cur)
        /\ UNCHANGED boundary
     \/ /\ LineLen > 0
        /\ ~LineIs(DOMAIN TypeLine)
        /\ IncrementCur(cur)
        /\ UNCHANGED <<state, boundary>>
     \/ /\ LineIs(DOMAIN TypeLine)
        /\ UNCHANGED state
        /\ LET line == TypeLine[buf[LineStart]] IN
             \/ line.blank /\ Return("CORRUPT_HEADER") /\ UNCHANGED boundary
             \/ /\ ~line.blank
                /\ boundary' = IF HasBoundary(line) THEN BoundaryIn(line) ELSE boundary
                /\ IncrementCur(cur)
             \/ /\ ~line.blank /\ HasBoundary(line) /\ MallocFails
                /\ boundary' = <<>>
                /\ Return("READ_ERROR")

\* A number of a single digit is passed over; the length then stays as it was.
StateHttpSubheader ==
  /\ HeaderLine("HTTP_SUBHEADER")
  /\ UNCHANGED boundary
  /\ \/ /\ LineLen = 0
        /\ state' = "FIND_IMAGE"
        /\ IncrementCur(cur)
        /\ UNCHANGED content_length
     \/ /\ LineLen > 0
        /\ ~LineIs(DOMAIN LengthLine)
        /\ IncrementCur(cur)
        /\ UNCHANGED <<state, content_length>>
     \/ /\ LineIs(DOMAIN LengthLine)
        /\ UNCHANGED state
        /\ LET line == LengthLine[buf[LineStart]] IN
             \/ line.blank /\ Return("CORRUPT_HEADER") /\ UNCHANGED content_length
             \/ /\ ~line.blank
                /\ content_length' =
                     IF line.digits > 1 THEN line.value ELSE content_length
                /\ IncrementCur(cur)

-----------------------------------------------------------------------------
(* The search for the boundary line. LINE_LEN with a NULL anchor is an     *)
(* address cut to 32 bits, taken here to equal no boundary length.         *)

\* A slip: only a bare LF is looked for behind the boundary.
FindBoundaryMismatch_NoCR ==
  \/ cur + 1 - anchor <= Len(boundary) /\ buf[cur] # boundary[cur - anchor + 1]
  \/ cur + 1 - anchor = Len(boundary) + 1 /\ buf[cur] # LF

FindBoundaryMismatch ==
  \/ cur + 1 - anchor <= Len(boundary) /\ buf[cur] # boundary[cur - anchor + 1]
  \/ cur + 1 - anchor = Len(boundary) + 2 /\ ~(buf[cur - 1] = CR /\ buf[cur] = LF)

\* A slip: the scan goes back to the anchor itself.
RestartScan_AtAnchor ==
  /\ anchor' = NULL
  /\ IncrementCur(anchor - 1)

\* The scan gives up on the anchor and goes on with the second byte after it.
RestartScan ==
  /\ anchor' = NULL
  /\ IncrementCur(anchor + 1)

FoundBoundaryLF   == cur + 1 - anchor = Len(boundary) + 1 /\ buf[cur] = LF
FoundBoundaryCRLF == cur + 1 - anchor = Len(boundary) + 2 /\ buf[cur - 1] = CR /\ buf[cur] = LF

StateFindBoundary ==
  /\ In("FIND_BOUNDARY")
  /\ UNCHANGED <<source, output, buf, head, boundary>>
  /\ \/ /\ anchor = NULL
        /\ anchor' = IF buf[cur] = boundary[1] THEN cur ELSE NULL
        /\ IncrementCur(cur)
        /\ UNCHANGED <<state, content_length>>
     \/ /\ anchor # NULL
        /\ FindBoundaryMismatch
        /\ RestartScan
        /\ UNCHANGED <<state, content_length>>
     \/ /\ anchor # NULL
        /\ FoundBoundaryLF \/ FoundBoundaryCRLF
        /\ anchor' = NULL
        /\ content_length' = IF FoundBoundaryCRLF THEN 0 ELSE content_length
        /\ state' = "HTTP_SUBHEADER"
        /\ IncrementCur(cur)
     \/ /\ anchor # NULL
        /\ ~(FindBoundaryMismatch \/ FoundBoundaryLF \/ FoundBoundaryCRLF)
        /\ IncrementCur(cur)
        /\ UNCHANGED <<state, anchor, content_length>>

-----------------------------------------------------------------------------
(* Images.                                                                 *)

\* A slip: an image that just fits is taken for too long.
ImageState_Tight ==
  CASE content_length >= BufSize -> "FIND_BOUNDARY"
    [] content_length > 0 /\ content_length < BufSize -> "IMAGE_BY_CONTENT_LENGTH"
    [] OTHER -> "IMAGE_BY_EOF_SEARCH"

\* A slip: nobody checks that the image fits the buffer.
ImageState_Unbounded ==
  IF content_length > 0 THEN "IMAGE_BY_CONTENT_LENGTH" ELSE "IMAGE_BY_EOF_SEARCH"

\* The state that takes over once the start-of-image marker is found.
ImageState ==
  CASE content_length > BufSize -> "FIND_BOUNDARY"
    [] content_length > 0 /\ content_length <= BufSize -> "IMAGE_BY_CONTENT_LENGTH"
    [] OTHER -> "IMAGE_BY_EOF_SEARCH"

StateFindImage ==
  /\ In("FIND_IMAGE")
  /\ UNCHANGED <<source, output, buf, head, boundary, content_length>>
  /\ IncrementCur(cur)
  /\ IF anchor # NULL /\ cur - anchor = 1 /\ buf[cur] = D8
     THEN state' = ImageState /\ UNCHANGED anchor
     ELSE /\ anchor' = IF buf[cur] = FF THEN cur ELSE NULL
          /\ UNCHANGED state

BytesLeftInBuf == head - cur - 1
BytesFound     == cur + 1 - anchor
BytesNeeded    == content_length - BytesFound

StateImageByContentLength ==
  /\ In("IMAGE_BY_CONTENT_LENGTH")
  /\ UNCHANGED <<source, buf, head, boundary>>
  /\ \/ /\ BytesLeftInBuf >= BytesNeeded
        /\ GotNewFrame(content_length)
        /\ anchor' = NULL
        /\ content_length' = 0
        /\ state' = "FIND_BOUNDARY"
        /\ IncrementCur(anchor + content_length - 1)
     \/ /\ BytesLeftInBuf < BytesNeeded
        /\ cur' = head
        /\ pc' = "adjust"
        /\ UNCHANGED <<output, state, anchor, content_length, result>>

StateImageByEofSearch ==
  /\ In("IMAGE_BY_EOF_SEARCH")
  /\ UNCHANGED <<source, buf, head, boundary, content_length>>
  /\ IncrementCur(cur)
  /\ IF buf[cur - 1] = FF /\ buf[cur] = D9
     THEN /\ GotNewFrame(cur - anchor + 1)
          /\ anchor' = NULL
          /\ state' = "FIND_BOUNDARY"
     ELSE UNCHANGED <<output, state, anchor>>

-----------------------------------------------------------------------------
(* The buffer and the main loop.                                           *)

\* A slip: without an anchor the last byte looked at is kept.
KeepFrom_LastByte == IF anchor = NULL THEN cur - 1 ELSE anchor

\* The first byte to keep.
KeepFrom == IF anchor = NULL THEN cur ELSE anchor

\* A slip: the last of the good bytes stays behind.
Shifted_OneShort ==
  [i \in 0 .. BufSize - 1 |->
     IF i < head - KeepFrom - 1 THEN buf[i + KeepFrom] ELSE buf[i]]

\* memmove() leaves what lies beyond the moved bytes as it was.
Shifted ==
  [i \in 0 .. BufSize - 1 |->
     IF i < head - KeepFrom THEN buf[i + KeepFrom] ELSE buf[i]]

\* Drop the bytes nobody needs, so that the rest starts at the buffer's start.
AdjustStreambuf ==
  /\ pc = "adjust"
  /\ pc' = "read"
  /\ UNCHANGED <<source, output, state, boundary, content_length, result>>
  /\ \/ /\ anchor = 0
        /\ UNCHANGED <<buf, head, cur, anchor>>
     \/ /\ anchor # 0
        /\ head - KeepFrom > 0
        /\ KeepFrom > 0
        /\ buf' = Shifted
        /\ cur' = cur - KeepFrom
        /\ head' = head - KeepFrom
        /\ anchor' = anchor - KeepFrom
     \/ /\ anchor # 0
        /\ ~(head - KeepFrom > 0 /\ KeepFrom > 0)
        /\ IF anchor = NULL THEN cur' = 0 /\ head' = 0 ELSE UNCHANGED <<cur, head>>
        /\ UNCHANGED <<buf, anchor>>

\* A slip: every read fills the buffer from its start.
ReadBytes_AtStart(n) ==
  /\ pc = "read"
  /\ buf' = [i \in 0 .. BufSize - 1 |-> IF i < n THEN stream[pos + i + 1] ELSE buf[i]]
  /\ head' = head + n
  /\ pos' = pos + n
  /\ pc' = "parse"
  /\ UNCHANGED <<stream, output, state, cur, anchor, boundary, content_length, result>>

\* source_read() returns n bytes.
ReadBytes(n) ==
  /\ pc = "read"
  /\ buf' = [i \in 0 .. BufSize - 1 |->
               IF i \in head .. head + n - 1 THEN stream[pos + i - head + 1] ELSE buf[i]]
  /\ head' = head + n
  /\ pos' = pos + n
  /\ pc' = "parse"
  /\ UNCHANGED <<stream, output, state, cur, anchor, boundary, content_length, result>>

\* source_read() returns 0: the stream has ended, or the buffer has no room.
ReadNothing ==
  /\ pc = "read"
  /\ pos = Len(stream) \/ head = BufSize
  /\ Return("PREMATURE_EOF")
  /\ UNCHANGED <<source, output, state, buf, head, anchor, boundary, content_length>>

\* source_read() returns -1: timeout, cancellation through the self-pipe, or
\* an error of select() or read().
ReadFails ==
  /\ pc = "read"
  /\ Return("READ_ERROR")
  /\ UNCHANGED <<source, output, state, buf, head, anchor, boundary, content_length>>

Parse ==
  \/ FetchHeaderLine
  \/ StateHttpBanner
  \/ StateHttpHeader
  \/ StateHttpSubheader
  \/ StateFindBoundary
  \/ StateFindImage
  \/ StateImageByContentLength
  \/ StateImageByEofSearch

Next ==
  \/ Parse
  \/ AdjustStreambuf
  \/ \E n \in 1 .. BufSize - head : n <= Len(stream) - pos /\ ReadBytes(n)
  \/ ReadNothing
  \/ ReadFails

Spec == Init /\ [][Next]_vars

\* The thread that runs the grabber is scheduled, and source_read() returns
\* within its select() timeout.
FairSpec == Spec /\ WF_vars(Next)

-----------------------------------------------------------------------------
(* Properties.                                                             *)

\* The types of the variables, and the ranges of the buffer pointers.
TypeOK ==
  /\ stream \in Seq(Byte)
  /\ pos \in 0 .. Len(stream)
  /\ pc \in {"read", "parse", "adjust", "done"}
  /\ state \in States
  /\ buf \in [0 .. BufSize - 1 -> Byte]
  /\ head \in 0 .. BufSize
  /\ cur \in 0 .. BufSize
  /\ anchor \in {NULL} \cup 0 .. BufSize - 1
  /\ boundary \in Seq(Byte)
  /\ content_length \in Nat
  /\ result \in Results
  /\ frames \in Seq(Seq(Byte))
  /\ taken \in Nat

\* However the reads cut the stream up and however often the buffer has been
\* shifted, its bytes below head are the last ones received, in order.
BufferHoldsLatestBytes ==
  /\ head <= pos
  /\ \A i \in 0 .. head - 1 : buf[i] = stream[pos - head + i + 1]

\* A state function looks only at bytes that have been received, none of them
\* before the anchor, and asks for more only when it has looked at them all
\* (adjust_streambuf() would otherwise subtract an offset from a NULL anchor).
OnlyReceivedBytesRead ==
  /\ pc = "parse"  => cur < head
  /\ pc = "adjust" => cur = head
  /\ pc = "read"   => cur = head
  /\ anchor # NULL => anchor < cur
  /\ state \in ImageStates => anchor # NULL /\ anchor + 2 <= cur

\* The image under way begins at the anchor, with the marker that made it one,
\* is short enough to be completed in the buffer if its length is known, and
\* shares no byte with a frame already delivered.
ImageAtAnchor ==
  /\ state = "FIND_IMAGE" /\ anchor # NULL => buf[anchor] = FF
  /\ state \in ImageStates => buf[anchor] = FF /\ buf[anchor + 1] = D8
  /\ state = "IMAGE_BY_CONTENT_LENGTH" => content_length \in 1 .. BufSize
  /\ taken <= pos - head + KeepFrom

\* While it looks for the boundary, the grabber never steps past its marker and
\* the line end behind it, wherever in a line the marker stands. The code's comment
\* asks for less, a marker behind a line end; but the code takes any marker, as it
\* must where dashes precede the boundary, and goes back in the buffer for it.
BoundaryNotMissed ==
  state = "FIND_BOUNDARY" /\ anchor = NULL /\ pc # "done" =>
    \A eol \in {<<LF>>, <<CR, LF>>} :
      LET line == boundary \o eol
          at   == pos - head + cur
      IN ~ /\ Len(line) <= at
           /\ \A i \in DOMAIN line : stream[at - Len(line) + i] = line[i]

\* A boundary line found starts a line of the stream ("a \r\n or an \n
\* followed by our boundary marker").
BoundaryStartsLine ==
  [][state = "FIND_BOUNDARY" /\ state' = "HTTP_SUBHEADER" =>
       anchor > 0 /\ buf[anchor - 1] = LF]_vars

\* During the search for the boundary a set anchor stands for a partial match
\* ("If this character matches the first character of the boundary, ... set
\* the anchor").
AnchorOnPartialMatch ==
  state = "FIND_BOUNDARY" /\ anchor # NULL =>
    \A i \in 0 .. cur - anchor - 1 :
      i < Len(boundary) => buf[anchor + i] = boundary[i + 1]

\* The boundary is the text up to the end of the line or the next semicolon
\* ("Everything up to EOL or next semicolon is boundary").
BoundaryAsDeclared ==
  boundary # <<>> => \E s \in DOMAIN TypeLine : boundary = TypeLine[s].value

\* The grabber returns, whatever the camera sends: each byte moves the scan
\* on, and a wait for more ends with bytes, end of file or the timeout.
Termination == <>(pc = "done")

\* What the grabber promises to the rest of the program.
Slices == INSTANCE FrameSlices WITH avail <- pos
DeliversSlices == Slices!Spec
==============================================================================
