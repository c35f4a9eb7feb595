--------------------------- MODULE GrabberProofs ---------------------------
(***************************************************************************)
(* Proofs about Grabber, for every buffer size, every set of streams and   *)
(* every reading of the header lines.                                      *)
(***************************************************************************)
EXTENDS Grabber, SequenceTheorems, TLAPS

\* The inductive invariant: what the safety properties of the buffer, the
\* cursor and the pending image need of each other.
IInv ==
  /\ TypeOK
  /\ BufferHoldsLatestBytes
  /\ OnlyReceivedBytesRead
  /\ ImageAtAnchor

LEMMA InitIInv == Init => IInv
<1> SUFFICES ASSUME Init PROVE IInv
  OBVIOUS
<1>1. stream \in Seq(Byte) /\ Len(stream) \in Nat
  BY GrabberAssumption, LenProperties DEF GrabberAssumption, Init
<1>2. TypeOK
  BY <1>1, GrabberAssumption DEF GrabberAssumption, Init, TypeOK, NULL, States, HeaderStates, Results
<1> QED
  BY <1>2 DEF IInv, Init, BufferHoldsLatestBytes, OnlyReceivedBytesRead,
              ImageAtAnchor, KeepFrom, NULL, ImageStates

-----------------------------------------------------------------------------
(* Steps that leave the stream, the buffer and the frames alone.           *)

LEMMA FetchHeaderLineIInv == IInv /\ FetchHeaderLine => IInv'
<1> SUFFICES ASSUME IInv, FetchHeaderLine PROVE IInv'
  OBVIOUS
<1> USE DEF IInv, FetchHeaderLine, IncrementCur, LineStart, source, output, NULL
<1>1. TypeOK'
  BY GrabberAssumption DEF TypeOK, OnlyReceivedBytesRead, GrabberAssumption
<1>2. BufferHoldsLatestBytes'
  BY DEF BufferHoldsLatestBytes
<1>3. OnlyReceivedBytesRead'
  BY DEF OnlyReceivedBytesRead, TypeOK, HeaderStates, ImageStates
<1>4. ImageAtAnchor'
  BY DEF OnlyReceivedBytesRead, ImageAtAnchor, TypeOK, HeaderStates, ImageStates, KeepFrom
<1> QED
  BY <1>1, <1>2, <1>3, <1>4

\* What the three states that read header lines have in common: the line is
\* let go, and no state of this kind leads straight to an image.
LEMMA HeaderLineIInv ==
  ASSUME IInv, NEW s \in HeaderStates, HeaderLine(s),
         IncrementCur(cur) \/ \E r \in Results : Return(r),
         state' \in States \ ImageStates, boundary' \in Seq(Byte), content_length' \in Nat
  PROVE  IInv'
<1> USE DEF IInv, HeaderLine, In, source, output, NULL
<1>1. /\ pc = "parse"
      /\ UNCHANGED <<stream, pos, buf, head, frames, taken>>
      /\ anchor' = NULL
      /\ state' \notin ImageStates
  OBVIOUS
<1>2. cur' \in {cur, cur + 1} /\ pc' \in {"parse", "adjust", "done"} /\ result' \in Results
  BY DEF IncrementCur, Return, TypeOK
<1>3. (pc' = "parse" => cur' < head) /\ (pc' = "adjust" => cur' = head)
  BY <1>1 DEF IncrementCur, Return, TypeOK, OnlyReceivedBytesRead
<1>4. TypeOK'
  BY <1>1, <1>2, GrabberAssumption DEF TypeOK, OnlyReceivedBytesRead, GrabberAssumption
<1>5. BufferHoldsLatestBytes'
  BY <1>1 DEF BufferHoldsLatestBytes
<1>6. OnlyReceivedBytesRead'
  BY <1>1, <1>2, <1>3 DEF OnlyReceivedBytesRead
<1>7. taken' <= pos' - head' + KeepFrom'
  <2>1. KeepFrom' = cur' /\ KeepFrom <= cur' /\ KeepFrom \in Int /\ cur' \in Int
    BY <1>1, <1>2 DEF OnlyReceivedBytesRead, TypeOK, KeepFrom
  <2>2. taken <= pos - head + KeepFrom /\ pos \in Int /\ head \in Int /\ taken \in Int
    BY DEF ImageAtAnchor, TypeOK
  <2>3. \A a, b, c, d, e \in Int : a <= b - c + d /\ d <= e => a <= b - c + e
    OBVIOUS
  <2>4. taken' = taken /\ pos' = pos /\ head' = head
    BY <1>1
  <2> QED
    BY <2>1, <2>2, <2>3, <2>4
<1>8. ImageAtAnchor'
  BY <1>1, <1>7 DEF ImageAtAnchor, ImageStates
<1> QED
  BY <1>4, <1>5, <1>6, <1>8

LEMMA StateHttpBannerIInv == IInv /\ StateHttpBanner => IInv'
<1> SUFFICES ASSUME IInv, StateHttpBanner PROVE IInv'
  OBVIOUS
<1>1. HeaderLine("HTTP_BANNER") /\ UNCHANGED <<boundary, content_length>>
  BY DEF StateHttpBanner
<1>2. boundary' \in Seq(Byte) /\ content_length' \in Nat
  BY <1>1 DEF IInv, TypeOK
<1>3. state' \in States \ ImageStates
  BY <1>1 DEF StateHttpBanner, HeaderLine, In, States, HeaderStates, ImageStates
<1>4. IncrementCur(cur) \/ \E r \in Results : Return(r)
  BY DEF StateHttpBanner, Results
<1> QED
  BY <1>1, <1>2, <1>3, <1>4, HeaderLineIInv DEF HeaderStates

LEMMA StateHttpHeaderIInv == IInv /\ StateHttpHeader => IInv'
<1> SUFFICES ASSUME IInv, StateHttpHeader PROVE IInv'
  OBVIOUS
<1>1. HeaderLine("HTTP_HEADER") /\ UNCHANGED content_length
  BY DEF StateHttpHeader
<1>2. boundary' \in Seq(Byte) /\ content_length' \in Nat
  <2>1. boundary \in Seq(Byte) /\ <<>> \in Seq(Byte) /\ content_length \in Nat
    BY DEF IInv, TypeOK
  <2>2. \A line : line \in Seq(Byte) => Append(line, SEMICOLON) \in Seq(Byte)
    BY GrabberAssumption DEF GrabberAssumption
  <2>3. \A s \in DOMAIN TypeLine : BoundaryIn(TypeLine[s]) \in Seq(Byte)
    BY <2>2, GrabberAssumption DEF GrabberAssumption, BoundaryIn
  <2>4. \/ UNCHANGED boundary
        \/ boundary' = <<>>
        \/ \E s \in DOMAIN TypeLine : boundary' = BoundaryIn(TypeLine[s])
    BY DEF StateHttpHeader, LineIs
  <2> QED
    BY <1>1, <2>1, <2>3, <2>4
<1>3. state' \in States \ ImageStates
  BY <1>1 DEF StateHttpHeader, HeaderLine, In, States, HeaderStates, ImageStates
<1>4. IncrementCur(cur) \/ \E r \in Results : Return(r)
  BY DEF StateHttpHeader, Results
<1> QED
  BY <1>1, <1>2, <1>3, <1>4, HeaderLineIInv DEF HeaderStates

LEMMA StateHttpSubheaderIInv == IInv /\ StateHttpSubheader => IInv'
<1> SUFFICES ASSUME IInv, StateHttpSubheader PROVE IInv'
  OBVIOUS
<1>1. HeaderLine("HTTP_SUBHEADER") /\ UNCHANGED boundary
  BY DEF StateHttpSubheader
<1>2. boundary' \in Seq(Byte) /\ content_length' \in Nat
  BY <1>1, GrabberAssumption DEF IInv, TypeOK, StateHttpSubheader, LineIs, GrabberAssumption
<1>3. state' \in States \ ImageStates
  BY <1>1 DEF StateHttpSubheader, HeaderLine, In, States, HeaderStates, ImageStates
<1>4. IncrementCur(cur) \/ \E r \in Results : Return(r)
  BY DEF StateHttpSubheader, Results
<1> QED
  BY <1>1, <1>2, <1>3, <1>4, HeaderLineIInv DEF HeaderStates

LEMMA StateFindBoundaryIInv == IInv /\ StateFindBoundary => IInv'
<1> SUFFICES ASSUME IInv, StateFindBoundary PROVE IInv'
  OBVIOUS
<1> USE DEF IInv, StateFindBoundary, In, IncrementCur, RestartScan, source, output, NULL
<1>1. TypeOK'
  BY GrabberAssumption DEF TypeOK, OnlyReceivedBytesRead, GrabberAssumption, Results, States, HeaderStates, ImageStates
<1>2. BufferHoldsLatestBytes'
  BY DEF BufferHoldsLatestBytes
<1>3. OnlyReceivedBytesRead'
  BY DEF OnlyReceivedBytesRead, TypeOK, HeaderStates, ImageStates
<1>4. ImageAtAnchor'
  <2>1. state' \in {"FIND_BOUNDARY", "HTTP_SUBHEADER"} /\ UNCHANGED <<taken, pos, head>>
    OBVIOUS
  <2>2. taken <= pos - head + KeepFrom
    BY DEF ImageAtAnchor
  <2>3. KeepFrom <= KeepFrom'
    BY DEF KeepFrom, OnlyReceivedBytesRead, TypeOK
  <2>4. {taken, pos, head, KeepFrom, KeepFrom'} \subseteq Int
    BY <1>1, <2>1 DEF TypeOK, KeepFrom
  <2>5. taken' <= pos' - head' + KeepFrom'
    BY <2>1, <2>2, <2>3, <2>4
  <2> QED
    BY <2>1, <2>5 DEF ImageAtAnchor, ImageStates
<1> QED
  BY <1>1, <1>2, <1>3, <1>4

LEMMA StateFindImageIInv == IInv /\ StateFindImage => IInv'
<1> SUFFICES ASSUME IInv, StateFindImage PROVE IInv'
  OBVIOUS
<1> USE DEF IInv, StateFindImage, In, IncrementCur, ImageState, source, output, NULL
<1>1. TypeOK'
  BY GrabberAssumption DEF TypeOK, OnlyReceivedBytesRead, GrabberAssumption, Results, States, HeaderStates, ImageStates
<1>2. BufferHoldsLatestBytes'
  BY DEF BufferHoldsLatestBytes
<1>3. OnlyReceivedBytesRead'
  BY DEF OnlyReceivedBytesRead, TypeOK, HeaderStates, ImageStates
<1>4. ImageAtAnchor'
  <2>1. CASE anchor # NULL /\ cur - anchor = 1 /\ buf[cur] = D8
    <3>1. anchor + 1 = cur /\ buf[anchor] = FF
      BY <2>1 DEF TypeOK, ImageAtAnchor
    <3>2. content_length \in Nat /\ BufSize \in Nat
      BY GrabberAssumption DEF TypeOK, GrabberAssumption
    <3>3. state' = "IMAGE_BY_CONTENT_LENGTH" => content_length' \in 1 .. BufSize
      BY <2>1, <3>2
    <3>4. taken' <= pos' - head' + KeepFrom'
      BY <2>1 DEF ImageAtAnchor, KeepFrom
    <3>5. buf' = buf /\ anchor' = anchor /\ buf[anchor + 1] = D8 /\ state' # "FIND_IMAGE"
      BY <2>1, <3>1
    <3> QED
      BY <3>1, <3>3, <3>4, <3>5 DEF ImageAtAnchor, KeepFrom, ImageStates
  <2>2. CASE ~(anchor # NULL /\ cur - anchor = 1 /\ buf[cur] = D8)
    <3>1. taken' <= pos' - head' + KeepFrom'
      BY <2>2 DEF ImageAtAnchor, KeepFrom, TypeOK, OnlyReceivedBytesRead
    <3>2. buf' = buf /\ state' = "FIND_IMAGE" /\ (anchor' # NULL => buf[anchor'] = FF)
      BY <2>2
    <3> QED
      BY <3>1, <3>2 DEF ImageAtAnchor, ImageStates, KeepFrom
  <2> QED
    BY <2>1, <2>2
<1> QED
  BY <1>1, <1>2, <1>3, <1>4

-----------------------------------------------------------------------------
(* Steps that deliver a frame.                                             *)

\* got_new_frame() of len bytes at the anchor, when they have been received.
LEMMA GotNewFrameFacts ==
  ASSUME IInv, NEW len \in 1 .. BufSize, anchor # NULL, anchor + len <= head, GotNewFrame(len)
  PROVE  /\ frames' \in Seq(Seq(Byte))
         /\ taken' \in Nat
         /\ taken' <= pos - head + anchor + len
<1> USE DEF IInv, TypeOK, NULL
<1>1. anchor \in Nat /\ head \in Nat /\ pos \in Nat /\ head <= pos /\ taken \in Nat /\ BufSize \in Nat
  BY GrabberAssumption DEF BufferHoldsLatestBytes, GrabberAssumption
<1>2. taken <= pos - head + anchor
  BY DEF ImageAtAnchor, KeepFrom
<1>3. CASE UNCHANGED output
  BY <1>1, <1>2, <1>3 DEF output
<1>4. CASE /\ frames' = Append(frames, [i \in 1 .. len |-> buf[anchor + i - 1]])
           /\ taken' = pos - head + anchor + len
  <2>1. \A i \in 1 .. len : buf[anchor + i - 1] \in Byte
    BY <1>1
  <2>2. [i \in 1 .. len |-> buf[anchor + i - 1]] \in Seq(Byte)
    BY <2>1, IsASeq
  <2> QED
    BY <1>1, <1>4, <2>2
<1> QED
  BY <1>3, <1>4 DEF GotNewFrame

LEMMA StateImageByContentLengthIInv == IInv /\ StateImageByContentLength => IInv'
<1> SUFFICES ASSUME IInv, StateImageByContentLength PROVE IInv'
  OBVIOUS
<1> USE DEF IInv, In, source, output, NULL
<1>1. /\ pc = "parse" /\ state = "IMAGE_BY_CONTENT_LENGTH"
      /\ UNCHANGED <<stream, pos, buf, head, boundary>>
  BY DEF StateImageByContentLength
<1>2. /\ anchor \in Nat /\ cur \in Nat /\ head \in Nat /\ pos \in Nat /\ BufSize \in Nat
      /\ content_length \in 1 .. BufSize /\ cur < head /\ head <= BufSize
  BY <1>1, GrabberAssumption
  DEF TypeOK, GrabberAssumption, OnlyReceivedBytesRead, ImageAtAnchor, ImageStates
<1>3. CASE BytesLeftInBuf >= BytesNeeded
  <2>1. /\ GotNewFrame(content_length) /\ anchor' = NULL /\ content_length' = 0
        /\ state' = "FIND_BOUNDARY" /\ IncrementCur(anchor + content_length - 1)
    BY <1>2, <1>3 DEF StateImageByContentLength, BytesLeftInBuf, BytesNeeded, BytesFound
  <2>2. anchor + content_length <= head
    BY <1>2, <1>3 DEF BytesLeftInBuf, BytesNeeded, BytesFound
  <2>3. /\ frames' \in Seq(Seq(Byte)) /\ taken' \in Nat
        /\ taken' <= pos - head + anchor + content_length
    BY <1>2, <2>1, <2>2, GotNewFrameFacts
  <2>4. /\ cur' = anchor + content_length /\ UNCHANGED result
        /\ pc' = IF cur' >= head THEN "adjust" ELSE "parse"
    BY <1>2, <2>1 DEF IncrementCur
  <2>5. TypeOK'
    BY <1>1, <1>2, <2>1, <2>2, <2>3, <2>4 DEF TypeOK, States
  <2>6. BufferHoldsLatestBytes'
    BY <1>1 DEF BufferHoldsLatestBytes
  <2>7. OnlyReceivedBytesRead'
    BY <1>1, <1>2, <2>1, <2>2, <2>4 DEF OnlyReceivedBytesRead, ImageStates
  <2>8. ImageAtAnchor'
    BY <1>1, <1>2, <2>1, <2>3, <2>4 DEF ImageAtAnchor, ImageStates, KeepFrom
  <2> QED
    BY <2>5, <2>6, <2>7, <2>8
<1>4. CASE ~(BytesLeftInBuf >= BytesNeeded)
  <2>1. /\ cur' = head /\ pc' = "adjust"
        /\ UNCHANGED <<frames, taken, state, anchor, content_length, result>>
    BY <1>2, <1>4 DEF StateImageByContentLength, BytesLeftInBuf, BytesNeeded, BytesFound
  <2>2. TypeOK'
    BY <1>1, <1>2, <2>1 DEF TypeOK
  <2>3. BufferHoldsLatestBytes'
    BY <1>1 DEF BufferHoldsLatestBytes
  <2>4. OnlyReceivedBytesRead'
    BY <1>1, <1>2, <2>1 DEF OnlyReceivedBytesRead, ImageStates
  <2>5. ImageAtAnchor'
    BY <1>1, <1>2, <2>1 DEF ImageAtAnchor, KeepFrom
  <2> QED
    BY <2>2, <2>3, <2>4, <2>5
<1> QED
  BY <1>3, <1>4

LEMMA StateImageByEofSearchIInv == IInv /\ StateImageByEofSearch => IInv'
<1> SUFFICES ASSUME IInv, StateImageByEofSearch PROVE IInv'
  OBVIOUS
<1> USE DEF IInv, In, source, output, NULL
<1>1. /\ pc = "parse" /\ state = "IMAGE_BY_EOF_SEARCH"
      /\ UNCHANGED <<stream, pos, buf, head, boundary, content_length>>
      /\ cur' = cur + 1 /\ UNCHANGED result
      /\ pc' = IF cur' >= head THEN "adjust" ELSE "parse"
  BY DEF StateImageByEofSearch, IncrementCur
<1>2. /\ anchor \in Nat /\ cur \in Nat /\ head \in Nat /\ pos \in Nat /\ BufSize \in Nat
      /\ anchor + 2 <= cur /\ cur < head /\ head <= BufSize
  BY <1>1, GrabberAssumption DEF TypeOK, GrabberAssumption, OnlyReceivedBytesRead, ImageStates
<1>3. BufferHoldsLatestBytes'
  BY <1>1 DEF BufferHoldsLatestBytes
<1>4. CASE buf[cur - 1] = FF /\ buf[cur] = D9
  <2>1. GotNewFrame(cur - anchor + 1) /\ anchor' = NULL /\ state' = "FIND_BOUNDARY"
    BY <1>4 DEF StateImageByEofSearch
  <2>2. cur - anchor + 1 \in 1 .. BufSize /\ anchor + (cur - anchor + 1) = cur'
    BY <1>1, <1>2
  <2>3. frames' \in Seq(Seq(Byte)) /\ taken' \in Nat /\ taken' <= pos - head + cur'
    BY <1>1, <1>2, <2>1, <2>2, GotNewFrameFacts
  <2>4. TypeOK'
    BY <1>1, <1>2, <2>1, <2>3 DEF TypeOK, States
  <2>5. OnlyReceivedBytesRead'
    BY <1>1, <1>2, <2>1 DEF OnlyReceivedBytesRead, ImageStates
  <2>6. ImageAtAnchor'
    BY <1>1, <1>2, <2>1, <2>3 DEF ImageAtAnchor, ImageStates, KeepFrom
  <2> QED
    BY <1>3, <2>4, <2>5, <2>6
<1>5. CASE ~(buf[cur - 1] = FF /\ buf[cur] = D9)
  <2>1. UNCHANGED <<frames, taken, state, anchor>>
    BY <1>5 DEF StateImageByEofSearch
  <2>2. TypeOK'
    BY <1>1, <1>2, <2>1 DEF TypeOK
  <2>3. OnlyReceivedBytesRead'
    BY <1>1, <1>2, <2>1 DEF OnlyReceivedBytesRead, ImageStates
  <2>4. ImageAtAnchor'
    BY <1>1, <1>2, <2>1 DEF ImageAtAnchor, KeepFrom
  <2> QED
    BY <1>3, <2>2, <2>3, <2>4
<1> QED
  BY <1>4, <1>5

-----------------------------------------------------------------------------
(* Steps of the main loop.                                                 *)

LEMMA AdjustStreambufIInv == IInv /\ AdjustStreambuf => IInv'
<1> SUFFICES ASSUME IInv, AdjustStreambuf PROVE IInv'
  OBVIOUS
<1> USE DEF IInv, source, output, NULL
<1>1. /\ pc = "adjust" /\ pc' = "read"
      /\ UNCHANGED <<stream, pos, frames, taken, state, boundary, content_length, result>>
  BY DEF AdjustStreambuf
<1>2. /\ cur \in Nat /\ head \in Nat /\ pos \in Nat /\ BufSize \in Nat /\ taken \in Nat
      /\ cur = head /\ head <= BufSize /\ anchor \in {NULL} \cup 0 .. head - 1
      /\ KeepFrom \in 0 .. head
  BY <1>1, GrabberAssumption DEF TypeOK, GrabberAssumption, OnlyReceivedBytesRead, KeepFrom
<1>3. CASE UNCHANGED <<buf, head, cur, anchor>>
  BY <1>1, <1>3 DEF TypeOK, BufferHoldsLatestBytes, OnlyReceivedBytesRead, ImageAtAnchor, KeepFrom
<1>4. CASE anchor = NULL /\ cur' = 0 /\ head' = 0 /\ UNCHANGED <<buf, anchor>>
  BY <1>1, <1>2, <1>4
  DEF TypeOK, BufferHoldsLatestBytes, OnlyReceivedBytesRead, ImageAtAnchor, KeepFrom
<1>5. CASE /\ head - KeepFrom > 0 /\ KeepFrom > 0 /\ buf' = Shifted
           /\ cur' = cur - KeepFrom /\ head' = head - KeepFrom /\ anchor' = anchor - KeepFrom
  <2>1. anchor # NULL /\ anchor = KeepFrom /\ anchor' = 0 /\ KeepFrom' = 0
    BY <1>2, <1>5 DEF KeepFrom
  <2>2. Shifted \in [0 .. BufSize - 1 -> Byte]
    BY <1>2 DEF Shifted, TypeOK
  <2>3. \A i \in 0 .. head' - 1 : buf'[i] = buf[i + anchor]
    BY <1>2, <1>5, <2>1 DEF Shifted
  <2>4. TypeOK'
    BY <1>1, <1>2, <1>5, <2>1, <2>2 DEF TypeOK
  <2>5. BufferHoldsLatestBytes'
    BY <1>1, <1>2, <1>5, <2>1, <2>3 DEF BufferHoldsLatestBytes
  <2>6. OnlyReceivedBytesRead'
    BY <1>1, <1>2, <1>5, <2>1 DEF OnlyReceivedBytesRead
  <2>7. taken' <= pos' - head' + KeepFrom'
    BY <1>1, <1>2, <1>5, <2>1 DEF ImageAtAnchor
  <2>8. state \in ImageStates => anchor + 2 <= head
    BY <1>2 DEF OnlyReceivedBytesRead
  <2>9. ImageAtAnchor'
    BY <1>1, <1>2, <1>5, <2>1, <2>3, <2>7, <2>8 DEF ImageAtAnchor
  <2> QED
    BY <2>4, <2>5, <2>6, <2>9
<1> QED
  BY <1>2, <1>3, <1>4, <1>5 DEF AdjustStreambuf, KeepFrom

LEMMA ReadBytesIInv ==
  ASSUME IInv, NEW n \in 1 .. BufSize - head, n <= Len(stream) - pos, ReadBytes(n)
  PROVE  IInv'
<1> USE DEF IInv, ReadBytes, source, output, NULL
<1>1. /\ pc = "read" /\ pc' = "parse" /\ head' = head + n /\ pos' = pos + n
      /\ UNCHANGED <<stream, frames, taken, state, cur, anchor, boundary, content_length, result>>
  OBVIOUS
<1>2. /\ cur \in Nat /\ head \in Nat /\ pos \in Nat /\ BufSize \in Nat /\ Len(stream) \in Nat
      /\ cur = head /\ head + n <= BufSize /\ head <= pos /\ pos + n <= Len(stream)
      /\ anchor \in {NULL} \cup 0 .. head - 1
  BY <1>1, GrabberAssumption
  DEF TypeOK, GrabberAssumption, OnlyReceivedBytesRead, BufferHoldsLatestBytes
<1>3. \A i \in 0 .. head + n - 1 :
        buf'[i] = IF i < head THEN buf[i] ELSE stream[pos + i - head + 1]
  <2> SUFFICES ASSUME NEW i \in 0 .. head + n - 1
               PROVE  buf'[i] = IF i < head THEN buf[i] ELSE stream[pos + i - head + 1]
    OBVIOUS
  <2>1. i \in 0 .. BufSize - 1 /\ (i \in head .. head + n - 1 <=> ~(i < head))
    BY <1>2
  <2> QED
    BY <2>1
<1>4. buf' \in [0 .. BufSize - 1 -> Byte]
  <2>1. \A j \in 1 .. Len(stream) : stream[j] \in Byte
    BY ElementOfSeq DEF TypeOK
  <2>2. \A i \in head .. head + n - 1 : stream[pos + i - head + 1] \in Byte
    <3> SUFFICES ASSUME NEW i \in head .. head + n - 1
                 PROVE  stream[pos + i - head + 1] \in Byte
      OBVIOUS
    <3>1. pos + i - head + 1 \in 1 .. Len(stream)
      BY <1>2
    <3> QED
      BY <2>1, <3>1
  <2> QED
    BY <1>2, <2>2 DEF TypeOK
<1>5. TypeOK'
  BY <1>1, <1>2, <1>4 DEF TypeOK
<1>6. BufferHoldsLatestBytes'
  BY <1>1, <1>2, <1>3 DEF BufferHoldsLatestBytes
<1>7. OnlyReceivedBytesRead'
  BY <1>1, <1>2 DEF OnlyReceivedBytesRead
<1>8. taken' <= pos' - head' + KeepFrom'
  BY <1>1, <1>2 DEF ImageAtAnchor, KeepFrom, TypeOK
<1>9. ImageAtAnchor'
  BY <1>1, <1>2, <1>3, <1>8 DEF ImageAtAnchor, OnlyReceivedBytesRead, ImageStates
<1> QED
  BY <1>5, <1>6, <1>7, <1>9

LEMMA ReadEndsIInv == IInv /\ (ReadNothing \/ ReadFails) => IInv'
  BY DEF IInv, ReadNothing, ReadFails, Return, TypeOK, BufferHoldsLatestBytes,
         OnlyReceivedBytesRead, ImageAtAnchor, KeepFrom, Results, source, output

LEMMA NextIInv == IInv /\ [Next]_vars => IInv'
<1> SUFFICES ASSUME IInv, [Next]_vars PROVE IInv'
  OBVIOUS
<1>1. CASE Parse
  BY <1>1, FetchHeaderLineIInv, StateHttpBannerIInv, StateHttpHeaderIInv, StateHttpSubheaderIInv,
     StateFindBoundaryIInv, StateFindImageIInv, StateImageByContentLengthIInv,
     StateImageByEofSearchIInv DEF Parse
<1>2. CASE AdjustStreambuf
  BY <1>2, AdjustStreambufIInv
<1>3. CASE \E n \in 1 .. BufSize - head : n <= Len(stream) - pos /\ ReadBytes(n)
  BY <1>3, ReadBytesIInv
<1>4. CASE ReadNothing \/ ReadFails
  BY <1>4, ReadEndsIInv
<1>5. CASE UNCHANGED vars
  BY <1>5 DEF vars, IInv, TypeOK, BufferHoldsLatestBytes, OnlyReceivedBytesRead, ImageAtAnchor, KeepFrom
<1> QED
  BY <1>1, <1>2, <1>3, <1>4, <1>5 DEF Next

\* The four invariants hold together in every state mjv_grabber_run() reaches,
\* whatever the camera sends; each needs the others to be inductive.
THEOREM Invariance == Spec => []IInv
  BY InitIInv, NextIInv, PTL DEF Spec

\* Every variable of the parser keeps its type, and the buffer pointers keep to
\* the buffer, for every stream and every way read() cuts it up.
THEOREM TypeCorrect == Spec => []TypeOK
  BY Invariance, PTL DEF IInv

\* Shifting and refilling the buffer never loses or reorders a byte of it.
THEOREM BufferCorrect == Spec => []BufferHoldsLatestBytes
  BY Invariance, PTL DEF IInv

\* The state functions dereference only pointers to received bytes, and the
\* buffer is shifted only when nothing is left to look at.
THEOREM ReadsCorrect == Spec => []OnlyReceivedBytesRead
  BY Invariance, PTL DEF IInv

\* A pending image stays at the anchor whole, and behind the delivered ones.
THEOREM PendingImageCorrect == Spec => []ImageAtAnchor
  BY Invariance, PTL DEF IInv

-----------------------------------------------------------------------------
(* The parser implements FrameSlices.                                      *)

\* A frame cut from the buffer is a slice of the stream.
LEMMA GotNewFrameDelivers ==
  ASSUME IInv, NEW len \in 1 .. BufSize, anchor # NULL,
         anchor + len <= head, anchor + 1 < head, buf[anchor] = FF, buf[anchor + 1] = D8,
         GotNewFrame(len), UNCHANGED source
  PROVE  [Slices!Next]_(Slices!vars)
<1> DEFINE a == pos - head + anchor
<1>1. /\ anchor \in Nat /\ head \in Nat /\ pos \in Nat /\ head <= pos /\ taken \in Nat
      /\ taken <= a /\ BufSize \in Nat
  BY GrabberAssumption
  DEF IInv, TypeOK, BufferHoldsLatestBytes, ImageAtAnchor, KeepFrom, NULL, GrabberAssumption
<1>2. \A i \in 1 .. head - anchor : buf[anchor + i - 1] = stream[a + i]
  <2> SUFFICES ASSUME NEW i \in 1 .. head - anchor PROVE buf[anchor + i - 1] = stream[a + i]
    OBVIOUS
  <2>1. anchor + i - 1 \in 0 .. head - 1 /\ pos - head + (anchor + i - 1) + 1 = a + i
    BY <1>1
  <2> QED
    BY <2>1 DEF IInv, BufferHoldsLatestBytes
<1>3. CASE UNCHANGED output
  BY <1>3 DEF output, source, Slices!vars
<1>4. CASE /\ frames' = Append(frames, [i \in 1 .. len |-> buf[anchor + i - 1]])
           /\ taken' = pos - head + anchor + len
  <2>1. [i \in 1 .. len |-> buf[anchor + i - 1]] = [i \in 1 .. len |-> stream[a + i]]
    <3>1. \A i \in 1 .. len : buf[anchor + i - 1] = stream[a + i]
      BY <1>1, <1>2
    <3> HIDE DEF a
    <3> QED
      BY <3>1
  <2>2. stream[a + 1] = "FF" /\ stream[a + 2] = "D8"
    <3>1. 1 \in 1 .. head - anchor /\ 2 \in 1 .. head - anchor
      BY <1>1
    <3>2. anchor + 1 - 1 = anchor /\ anchor + 2 - 1 = anchor + 1
      BY <1>1
    <3> QED
      BY <1>2, <3>1, <3>2 DEF FF, D8
  <2>3. a + len <= pos /\ a + 1 < pos /\ a \in taken .. pos /\ taken' = a + len
    BY <1>1, <1>4
  <2>4. UNCHANGED <<stream, pos>>
    BY DEF source
  <2>5. Slices!Deliver(a, len)
    BY <1>4, <2>1, <2>2, <2>3, <2>4 DEF Slices!Deliver
  <2> QED
    BY <2>3, <2>5 DEF Slices!Next
<1> QED
  BY <1>3, <1>4 DEF GotNewFrame

LEMMA StepImplementsSlices == IInv /\ [Next]_vars => [Slices!Next]_(Slices!vars)
<1> SUFFICES ASSUME IInv, [Next]_vars PROVE [Slices!Next]_(Slices!vars)
  OBVIOUS
<1>1. CASE StateImageByContentLength
  <2>1. /\ anchor \in Nat /\ cur \in Nat /\ head \in Nat /\ content_length \in 1 .. BufSize
        /\ anchor # NULL /\ anchor + 2 <= cur /\ cur < head /\ BufSize \in Nat
        /\ buf[anchor] = FF /\ buf[anchor + 1] = D8 /\ UNCHANGED source
    BY <1>1, GrabberAssumption
    DEF IInv, TypeOK, OnlyReceivedBytesRead, ImageAtAnchor, ImageStates, NULL,
        StateImageByContentLength, In, GrabberAssumption
  <2>2. CASE BytesLeftInBuf >= BytesNeeded
    <3>1. anchor + content_length <= head /\ anchor + 1 < head
      BY <2>1, <2>2 DEF BytesLeftInBuf, BytesNeeded, BytesFound
    <3>2. GotNewFrame(content_length)
      BY <1>1, <2>1, <2>2 DEF StateImageByContentLength, BytesLeftInBuf, BytesNeeded, BytesFound
    <3> QED
      BY <2>1, <3>1, <3>2, GotNewFrameDelivers
  <2>3. CASE ~(BytesLeftInBuf >= BytesNeeded)
    BY <1>1, <2>3, <2>1 DEF StateImageByContentLength, source, output, Slices!vars
  <2> QED
    BY <2>2, <2>3
<1>2. CASE StateImageByEofSearch
  <2>1. /\ anchor \in Nat /\ cur \in Nat /\ head \in Nat /\ head <= BufSize /\ BufSize \in Nat
        /\ anchor # NULL /\ anchor + 2 <= cur /\ cur < head
        /\ buf[anchor] = FF /\ buf[anchor + 1] = D8 /\ UNCHANGED source
    BY <1>2, GrabberAssumption
    DEF IInv, TypeOK, OnlyReceivedBytesRead, ImageAtAnchor, ImageStates, NULL,
        StateImageByEofSearch, In, GrabberAssumption
  <2>2. CASE buf[cur - 1] = FF /\ buf[cur] = D9
    <3>1. /\ cur - anchor + 1 \in 1 .. BufSize /\ anchor + (cur - anchor + 1) <= head
          /\ anchor + 1 < head
      BY <2>1
    <3>2. GotNewFrame(cur - anchor + 1)
      BY <1>2, <2>2 DEF StateImageByEofSearch
    <3> QED
      BY <2>1, <3>1, <3>2, GotNewFrameDelivers
  <2>3. CASE ~(buf[cur - 1] = FF /\ buf[cur] = D9)
    BY <1>2, <2>3 DEF StateImageByEofSearch, source, output, Slices!vars
  <2> QED
    BY <2>2, <2>3
<1>3. ASSUME NEW n \in 1 .. BufSize - head, n <= Len(stream) - pos, ReadBytes(n)
      PROVE  Slices!Receive
  <2>1. pos \in Nat /\ Len(stream) \in Nat /\ n \in Nat /\ n >= 1
    BY <1>3, GrabberAssumption DEF IInv, TypeOK, GrabberAssumption
  <2>2. pos' \in pos + 1 .. Len(stream) /\ UNCHANGED <<stream, taken, frames>>
    BY <1>3, <2>1 DEF ReadBytes, output
  <2> QED
    BY <2>2 DEF Slices!Receive
<1>4. CASE \/ FetchHeaderLine \/ StateHttpBanner \/ StateHttpHeader \/ StateHttpSubheader
           \/ StateFindBoundary \/ StateFindImage \/ AdjustStreambuf \/ ReadNothing \/ ReadFails
  BY <1>4
  DEF FetchHeaderLine, StateHttpBanner, StateHttpHeader, StateHttpSubheader, HeaderLine,
      StateFindBoundary, StateFindImage, AdjustStreambuf, ReadNothing, ReadFails,
      source, output, Slices!vars
<1>5. CASE UNCHANGED vars
  BY <1>5 DEF vars, Slices!vars
<1> QED
  BY <1>1, <1>2, <1>3, <1>4, <1>5 DEF Next, Parse, Slices!Next

\* Every frame delivered is a verbatim slice of what the camera sent, begins
\* with the start-of-image marker, fits the buffer, and lies behind the frame
\* delivered before it.
THEOREM GrabberImplementsSlices == Spec => DeliversSlices
<1>1. Init => Slices!Init
  BY DEF Init, Slices!Init
<1> QED
  BY <1>1, Invariance, StepImplementsSlices, PTL DEF Spec, DeliversSlices, Slices!Spec

-----------------------------------------------------------------------------
(* The search for the boundary. Positions in the stream do not change when *)
(* the buffer is shifted or filled, so the invariant speaks of these.      *)

\* Where the byte at index i of the buffer stands in the stream.
Offset(i) == pos - head + i

BoundaryLines == {boundary \o <<LF>>, boundary \o <<CR, LF>>}

\* A line of the stream behind its first q bytes.
StandsAt(line, q) ==
  /\ q + Len(line) <= Len(stream)
  /\ \A i \in 1 .. Len(line) : stream[q + i] = line[i]

\* The boundary's first character stands behind the first q bytes, and directly
\* in front of that either not at all or exactly twice.
Visible(q) ==
  q >= 1 /\ stream[q] = boundary[1] =>
    /\ q >= 2 /\ stream[q - 1] = boundary[1]
    /\ q >= 3 => stream[q - 2] # boundary[1]

StartsAt(line, q) == StandsAt(line, q) /\ Visible(q)

\* What a camera must keep to for the search: a boundary is made of ordinary
\* characters, and an image whose length is announced ends, as others do, with
\* its marker.
CameraKeepsForm ==
  /\ \A i \in 1 .. Len(boundary) : boundary[i] \notin {LF, CR, FF, D8, D9}
  /\ state = "IMAGE_BY_CONTENT_LENGTH" /\ Offset(anchor) + content_length <= Len(stream) =>
       stream[Offset(anchor) + content_length] = D9

\* What else it must keep to if the search is to find its boundary anywhere, and
\* not only at the start of a line.
BoundariesVisible ==
  boundary # <<>> =>
    \A line \in BoundaryLines, q \in 0 .. Len(stream) : StandsAt(line, q) => Visible(q)

\* A scan that goes on here has stepped over an even number of such characters
\* in front of a boundary.
Aligned(at) == at >= 1 /\ stream[at] = boundary[1] => at >= 2 /\ stream[at - 1] = boundary[1]

\* Every boundary line that begins before a position has ended before another.
EndBefore(at, end) ==
  \A line \in BoundaryLines, q \in 0 .. at - 1 : StartsAt(line, q) => q + Len(line) < end

\* No boundary line is under way where the search stands, or stood when it set
\* the anchor. The anchor is set at the boundary's first character, or it is
\* still at the start of an image that was too long.
Search ==
  /\ state \notin {"HTTP_BANNER", "HTTP_HEADER"} => boundary # <<>>
  /\ state = "HTTP_HEADER" /\ pc # "done" =>
       Offset(LineStart) >= 1 /\ stream[Offset(LineStart)] = LF
  /\ state = "FIND_BOUNDARY" /\ pc # "done" /\ anchor = NULL =>
       EndBefore(Offset(cur), Offset(cur)) /\ Aligned(Offset(cur))
  /\ state = "FIND_BOUNDARY" /\ pc # "done" /\ anchor # NULL =>
       /\ EndBefore(Offset(anchor), Offset(anchor) + 1)
       /\ cur - anchor <= Len(boundary) + 1
       /\ cur - anchor = Len(boundary) + 1 => stream[Offset(cur)] # LF
       /\ \/ stream[Offset(anchor) + 1] = boundary[1] /\ Aligned(Offset(anchor))
          \/ /\ cur - anchor >= 2
             /\ stream[Offset(anchor) + 1] = FF
             /\ stream[Offset(anchor) + 2] = D8

\* What the search needs to know of the buffer.
LEMMA Received ==
  ASSUME IInv
  PROVE  /\ head \in Nat /\ cur \in Nat /\ pos \in Nat /\ Len(stream) \in Nat
         /\ head <= pos /\ pos <= Len(stream)
         /\ anchor \in Nat \/ anchor = NULL
         /\ boundary \in Seq(Byte) /\ Len(boundary) \in Nat /\ content_length \in Nat
         /\ pc = "parse" => cur < head
         /\ anchor # NULL => anchor < cur
  BY LenProperties, GrabberAssumption
  DEF IInv, TypeOK, BufferHoldsLatestBytes, OnlyReceivedBytesRead, NULL, GrabberAssumption

LEMMA ReceivedByte ==
  ASSUME IInv, NEW i \in 0 .. head - 1
  PROVE  buf[i] = stream[Offset(i) + 1]
  BY DEF IInv, BufferHoldsLatestBytes, Offset

LEMMA BoundaryGiven ==
  ASSUME IInv, boundary # <<>>
  PROVE  Len(boundary) \in Nat /\ Len(boundary) >= 1 /\ 1 \in 1 .. Len(boundary)
<1>1. boundary \in Seq(Byte) /\ Len(boundary) \in Nat
  BY Received
<1>2. Len(boundary) # 0
  BY <1>1, EmptySeq
<1> QED
  BY <1>1, <1>2

\* The bytes of a boundary line.
LEMMA LineBytes ==
  ASSUME IInv, CameraKeepsForm, NEW line \in BoundaryLines
  PROVE  /\ Len(line) \in Nat /\ Len(line) >= 1
         /\ Len(line) = Len(boundary) + 1 \/ Len(line) = Len(boundary) + 2
         /\ \A i \in 1 .. Len(boundary) : line[i] = boundary[i]
         /\ line[Len(line)] = LF
         /\ Len(line) = Len(boundary) + 2 => line[Len(boundary) + 1] = CR
         /\ \A i \in 1 .. Len(line) : line[i] \notin {FF, D8, D9}
         /\ \A i \in 1 .. Len(line) - 1 : line[i] # LF
<1>1. boundary \in Seq(Byte) /\ Len(boundary) \in Nat /\ LF \in Byte /\ CR \in Byte
  BY Received, GrabberAssumption DEF GrabberAssumption
<1>2. \A i \in 1 .. Len(boundary) : boundary[i] \notin {LF, CR, FF, D8, D9}
  BY DEF CameraKeepsForm
<1>3. LF \notin {CR, FF, D8, D9} /\ CR \notin {FF, D8, D9}
  BY DEF LF, CR, FF, D8, D9
<1>4. CASE line = boundary \o <<LF>>
  <2>1. /\ Len(line) = Len(boundary) + 1
        /\ \A i \in 1 .. Len(boundary) : line[i] = boundary[i]
        /\ line[Len(boundary) + 1] = LF
    BY <1>1, <1>4
  <2>2. \A i \in 1 .. Len(line) : i \in 1 .. Len(boundary) \/ i = Len(boundary) + 1
    BY <1>1, <2>1
  <2> QED
    BY <1>1, <1>2, <1>3, <2>1, <2>2
<1>5. CASE line = boundary \o <<CR, LF>>
  <2>1. /\ Len(line) = Len(boundary) + 2
        /\ \A i \in 1 .. Len(boundary) : line[i] = boundary[i]
        /\ line[Len(boundary) + 1] = CR
        /\ line[Len(boundary) + 2] = LF
    BY <1>1, <1>5
  <2>2. \A i \in 1 .. Len(line) :
          i \in 1 .. Len(boundary) \/ i = Len(boundary) + 1 \/ i = Len(boundary) + 2
    BY <1>1, <2>1
  <2> QED
    BY <1>1, <1>2, <1>3, <2>1, <2>2
<1> QED
  BY <1>4, <1>5 DEF BoundaryLines

\* No boundary line spans a byte of an image's markers.
LEMMA NoneAcross ==
  ASSUME IInv, CameraKeepsForm, boundary # <<>>,
         NEW p \in 1 .. Len(stream), stream[p] \in {FF, D8, D9}
  PROVE  EndBefore(p, p) /\ Aligned(p)
<1>a. Aligned(p)
  BY BoundaryGiven DEF Aligned, CameraKeepsForm
<1> SUFFICES ASSUME NEW line \in BoundaryLines, NEW q \in 0 .. p - 1, StartsAt(line, q),
                    ~(q + Len(line) < p)
             PROVE  FALSE
  BY <1>a DEF EndBefore
<1>1. Len(line) \in Nat /\ Len(stream) \in Nat
  BY Received, LineBytes
<1>2. p - q \in 1 .. Len(line) /\ q + (p - q) = p
  BY <1>1
<1>3. stream[p] = line[p - q]
  BY <1>2 DEF StartsAt, StandsAt
<1> QED
  BY <1>2, <1>3, LineBytes

\* Nor an empty line.
LEMMA NoneAcrossEmptyLine ==
  ASSUME IInv, CameraKeepsForm, boundary # <<>>, NEW s \in 1 .. Len(stream), NEW at \in {s + 1, s + 2},
         at <= Len(stream), stream[s] = LF, stream[at] = LF, at = s + 2 => stream[s + 1] = CR
  PROVE  EndBefore(at, at)
<1> SUFFICES ASSUME NEW line \in BoundaryLines, NEW q \in 0 .. at - 1, StartsAt(line, q),
                    ~(q + Len(line) < at)
             PROVE  FALSE
  BY DEF EndBefore
<1>1. Len(line) \in Nat /\ Len(line) >= 1 /\ Len(stream) \in Nat /\ 1 \in 1 .. Len(boundary)
  BY Received, LineBytes, BoundaryGiven
<1>2. 1 \in 1 .. Len(line) /\ line[1] = boundary[1] /\ boundary[1] \notin {LF, CR}
  BY <1>1, LineBytes DEF CameraKeepsForm
<1>3. stream[q + 1] = line[1]
  BY <1>2 DEF StartsAt, StandsAt
<1>4. CASE q < s
  <2>1. s - q \in 1 .. Len(line) - 1 /\ s - q \in 1 .. Len(line) /\ q + (s - q) = s
    BY <1>1, <1>4
  <2>2. line[s - q] = LF
    BY <2>1 DEF StartsAt, StandsAt
  <2> QED
    BY <2>1, <2>2, LineBytes
<1>5. CASE ~(q < s)
  <2>1. q + 1 = at \/ (at = s + 2 /\ q + 1 = s + 1)
    BY <1>5
  <2> QED
    BY <1>2, <1>3, <2>1
<1> QED
  BY <1>4, <1>5

\* A byte at which no line begins is passed.
LEMMA EndBeforeNext ==
  ASSUME IInv, CameraKeepsForm, NEW at \in Nat, EndBefore(at, at),
         \A line \in BoundaryLines : ~StartsAt(line, at)
  PROVE  EndBefore(at + 1, at + 1)
<1> SUFFICES ASSUME NEW line \in BoundaryLines, NEW q \in 0 .. at + 1 - 1, StartsAt(line, q)
             PROVE  q + Len(line) < at + 1
  BY DEF EndBefore
<1>1. q \in 0 .. at - 1
  <2>1. q # at
    OBVIOUS
  <2> QED
    BY <2>1
<1>2. q + Len(line) < at
  BY <1>1 DEF EndBefore
<1>3. Len(line) \in Nat
  BY LineBytes, Received
<1> QED
  BY <1>2, <1>3

\* The search begins anew, or goes on, without an anchor.
LEMMA Resumed ==
  ASSUME UNCHANGED <<stream, boundary>>, boundary # <<>>, anchor' = NULL,
         state' \notin {"HTTP_BANNER", "HTTP_HEADER"},
         EndBefore(pos' - head' + cur', pos' - head' + cur'), Aligned(pos' - head' + cur')
  PROVE  Search'
  BY DEF Search, EndBefore, BoundaryLines, StartsAt, StandsAt, Visible, Aligned, Offset

\* States that neither read the response's header nor look for the boundary.
LEMMA Elsewhere ==
  ASSUME boundary' # <<>>, state' \in {"HTTP_SUBHEADER", "FIND_IMAGE"} \cup ImageStates
  PROVE  Search'
  BY DEF Search, ImageStates

\* No boundary is needed before the response's header has been read.
LEMMA HeaderRead ==
  ASSUME \/ pc' = "done"
         \/ /\ state' = "HTTP_HEADER" /\ anchor' = NULL
            /\ pos' - head' + cur' >= 1 /\ stream'[pos' - head' + cur'] = LF,
         state' \in {"HTTP_BANNER", "HTTP_HEADER"}
  PROVE  Search'
  BY DEF Search, LineStart, Offset

LEMMA InitSearch == Init => Search
  BY DEF Init, Search

LEMMA FetchHeaderLineSearch == IInv /\ Search /\ FetchHeaderLine => Search'
<1> SUFFICES ASSUME IInv, Search, FetchHeaderLine PROVE Search'
  OBVIOUS
<1>1. /\ pc = "parse" /\ state \in HeaderStates /\ anchor' = LineStart /\ LineStart # NULL
      /\ UNCHANGED <<stream, pos, head, state, boundary>>
  BY Received DEF FetchHeaderLine, source, LineStart, NULL
<1>2. LineStart' = LineStart
  BY <1>1 DEF LineStart
<1>3. state # "FIND_BOUNDARY"
  BY <1>1 DEF HeaderStates
<1> QED
  BY <1>1, <1>2, <1>3 DEF Search, Offset

\* The byte that ended a header line.
LEMMA LineEnd ==
  ASSUME IInv, NEW s, HeaderLine(s)
  PROVE  /\ UNCHANGED <<stream, pos, head>> /\ anchor' = NULL /\ pc = "parse" /\ state = s
         /\ Offset(cur) \in Nat /\ Offset(cur) + 1 \in 1 .. Len(stream)
         /\ stream[Offset(cur) + 1] = LF
<1>1. /\ pc = "parse" /\ state = s /\ buf[cur] = LF /\ anchor' = NULL
      /\ UNCHANGED <<stream, pos, head>>
  BY DEF HeaderLine, In, source
<1>2. cur \in 0 .. head - 1 /\ Offset(cur) \in Nat /\ Offset(cur) + 1 \in 1 .. Len(stream)
  BY <1>1, Received DEF Offset
<1>3. buf[cur] = stream[Offset(cur) + 1]
  BY <1>2, ReceivedByte
<1> QED
  BY <1>1, <1>2, <1>3

LEMMA StateHttpBannerSearch == IInv /\ Search /\ StateHttpBanner => Search'
<1> SUFFICES ASSUME IInv, Search, StateHttpBanner PROVE Search'
  OBVIOUS
<1>1. HeaderLine("HTTP_BANNER")
  BY DEF StateHttpBanner
<1>2. /\ UNCHANGED <<stream, pos, head>> /\ anchor' = NULL /\ state = "HTTP_BANNER"
      /\ Offset(cur) \in Nat /\ stream[Offset(cur) + 1] = LF
  BY <1>1, LineEnd
<1>3. CASE pc' = "done" /\ UNCHANGED state
  BY <1>2, <1>3, HeaderRead
<1>4. CASE state' = "HTTP_HEADER" /\ cur' = cur + 1
  <2>1. pos' - head' + cur' = Offset(cur) + 1
    BY <1>2, <1>4, Received DEF Offset
  <2> QED
    BY <1>2, <1>4, <2>1, HeaderRead
<1> QED
  BY <1>3, <1>4 DEF StateHttpBanner, Return, IncrementCur

LEMMA StateHttpHeaderSearch == IInv /\ CameraKeepsForm /\ Search /\ StateHttpHeader => Search'
<1> SUFFICES ASSUME IInv, CameraKeepsForm, Search, StateHttpHeader PROVE Search'
  OBVIOUS
<1>1. HeaderLine("HTTP_HEADER")
  BY DEF StateHttpHeader
<1>2. /\ UNCHANGED <<stream, pos, head>> /\ anchor' = NULL /\ pc = "parse" /\ state = "HTTP_HEADER"
      /\ Offset(cur) \in Nat /\ Offset(cur) + 1 \in 1 .. Len(stream)
      /\ stream[Offset(cur) + 1] = LF
  BY <1>1, LineEnd
<1>3. CASE pc' = "done" /\ UNCHANGED state
  BY <1>2, <1>3, HeaderRead
<1>4. ASSUME cur' = cur + 1
      PROVE  pos' - head' + cur' = Offset(cur) + 1
  BY <1>2, <1>4, Received DEF Offset
<1>5. CASE UNCHANGED state /\ cur' = cur + 1
  BY <1>2, <1>4, <1>5, HeaderRead
<1>6. CASE LineLen = 0 /\ boundary # <<>> /\ state' = "FIND_BOUNDARY" /\ cur' = cur + 1
           /\ UNCHANGED boundary
  <2> DEFINE s == Offset(LineStart)
             at == Offset(cur) + 1
  <2>1. s >= 1 /\ stream[s] = LF
    BY <1>2 DEF Search
  <2>2. LineStart \in 0 .. cur
    BY Received DEF LineStart, NULL
  <2>3. \/ LineStart = cur
        \/ LineStart = cur - 1 /\ buf[cur - 1] = CR
    BY <1>6, <2>2, Received DEF LineLen
  <2>4. s \in Nat /\ at \in Nat /\ (at = s + 1 \/ (at = s + 2 /\ stream[s + 1] = CR))
    <3>1. CASE LineStart = cur
      BY <1>2, <3>1, Received DEF Offset
    <3>2. CASE LineStart = cur - 1 /\ buf[cur - 1] = CR
      <4>1. cur - 1 \in 0 .. head - 1 /\ Offset(cur - 1) + 1 = s + 1 /\ at = s + 2 /\ s \in Nat
        BY <1>2, <2>2, <3>2, Received DEF Offset
      <4>2. stream[s + 1] = CR
        BY <3>2, <4>1, ReceivedByte
      <4> QED
        BY <1>2, <4>1, <4>2
    <3> QED
      BY <2>3, <3>1, <3>2
  <2>5. s \in 1 .. Len(stream) /\ at <= Len(stream)
    BY <1>2, <2>1, <2>4, Received
  <2>6. EndBefore(at, at)
    BY <1>2, <1>6, <2>1, <2>4, <2>5, NoneAcrossEmptyLine
  <2>7. Aligned(at)
    BY <1>2, <1>6, BoundaryGiven DEF CameraKeepsForm, Aligned
  <2> QED
    BY <1>2, <1>4, <1>6, <2>6, <2>7, Resumed
<1> QED
  BY <1>3, <1>5, <1>6 DEF StateHttpHeader, Return, IncrementCur

LEMMA StateHttpSubheaderSearch == Search /\ StateHttpSubheader => Search'
<1> SUFFICES ASSUME Search, StateHttpSubheader PROVE Search'
  OBVIOUS
<1>1. state = "HTTP_SUBHEADER" /\ UNCHANGED boundary /\ state' \in {state, "FIND_IMAGE"}
  BY DEF StateHttpSubheader, HeaderLine, In
<1> QED
  BY <1>1, Elsewhere DEF Search

\* The bytes from the anchor to the cursor, as they stand in the stream.
LEMMA AnchoredBytes ==
  ASSUME IInv, pc = "parse", anchor # NULL
  PROVE  /\ Offset(anchor) \in Nat /\ Offset(cur) \in Nat /\ cur - anchor \in Nat
         /\ Offset(cur) = Offset(anchor) + (cur - anchor)
         /\ Offset(cur) + 1 \in 1 .. Len(stream) /\ cur - anchor >= 1
         /\ buf[anchor] = stream[Offset(anchor) + 1]
         /\ buf[cur - 1] = stream[Offset(cur)]
         /\ buf[cur] = stream[Offset(cur) + 1]
<1>1. /\ anchor \in 0 .. head - 1 /\ cur \in 0 .. head - 1 /\ cur - 1 \in 0 .. head - 1
      /\ Offset(cur - 1) + 1 = Offset(cur)
  BY Received DEF Offset
<1>2. /\ buf[anchor] = stream[Offset(anchor) + 1]
      /\ buf[cur - 1] = stream[Offset(cur - 1) + 1]
      /\ buf[cur] = stream[Offset(cur) + 1]
  BY <1>1, ReceivedByte
<1>3. /\ Offset(anchor) \in Nat /\ Offset(cur) \in Nat /\ cur - anchor \in Nat
      /\ Offset(cur) = Offset(anchor) + (cur - anchor)
      /\ Offset(cur) + 1 \in 1 .. Len(stream) /\ cur - anchor >= 1
  BY <1>1, Received DEF Offset
<1> QED
  BY <1>1, <1>2, <1>3

\* A mismatch rules out a boundary line at the anchor, and the character the
\* scan leaves out begins none.
LEMMA RestartMissesNothing ==
  ASSUME IInv, CameraKeepsForm, Search, In("FIND_BOUNDARY"), anchor # NULL, FindBoundaryMismatch,
         NEW a \in Nat, a = Offset(anchor), NEW d \in Nat, d = cur - anchor
  PROVE  EndBefore(a + 2, a + 2) /\ Aligned(a + 2)
<1>a. Aligned(a + 2)
  <2>1. 1 \in 1 .. Len(boundary) /\ boundary[1] # D8
    BY BoundaryGiven DEF In, Search, CameraKeepsForm
  <2>2. stream[a + 1] = boundary[1] \/ stream[a + 2] = D8
    BY DEF In, Search
  <2>3. a + 2 - 1 = a + 1 /\ a + 2 >= 2
    OBVIOUS
  <2> QED
    BY <2>1, <2>2, <2>3 DEF Aligned
<1> SUFFICES ASSUME NEW line \in BoundaryLines, NEW q \in 0 .. a + 2 - 1, StartsAt(line, q),
                    ~(q + Len(line) < a + 2)
             PROVE  FALSE
  BY <1>a DEF EndBefore
<1>0. cur + 1 - anchor = d + 1 /\ cur - anchor + 1 = d + 1
  BY Received
<1>1. /\ pc = "parse" /\ state = "FIND_BOUNDARY" /\ pc # "done" /\ boundary # <<>>
      /\ EndBefore(a, a + 1) /\ d <= Len(boundary) + 1
      /\ d = Len(boundary) + 1 => stream[Offset(cur)] # LF
      /\ \/ stream[a + 1] = boundary[1] /\ Aligned(a)
         \/ d >= 2 /\ stream[a + 1] = FF /\ stream[a + 2] = D8
  BY DEF In, Search
<1>2. /\ d >= 1 /\ Offset(cur) = a + d /\ a + d + 1 \in 1 .. Len(stream)
      /\ buf[cur - 1] = stream[a + d] /\ buf[cur] = stream[a + d + 1]
  BY <1>1, AnchoredBytes
<1>3. /\ Len(boundary) \in Nat /\ Len(boundary) >= 1 /\ 1 \in 1 .. Len(boundary)
      /\ Len(line) \in Nat /\ Len(line) >= 1
      /\ Len(line) = Len(boundary) + 1 \/ Len(line) = Len(boundary) + 2
  BY <1>1, BoundaryGiven, LineBytes
<1>4. /\ 1 \in 1 .. Len(line) /\ line[1] = boundary[1]
      /\ boundary[1] \notin {LF, CR, FF, D8, D9}
  BY <1>3, LineBytes DEF CameraKeepsForm
<1>5. stream[q + 1] = boundary[1]
  BY <1>4 DEF StartsAt, StandsAt
<1>6. CASE q < a
  <2>1. q \in 0 .. a - 1
    BY <1>2, <1>6
  <2>2. q + Len(line) < a + 1
    BY <1>1, <2>1 DEF EndBefore
  <2> QED
    BY <1>2, <1>3, <2>2
<1>7. CASE q = a
  <2>1. CASE cur + 1 - anchor <= Len(boundary) /\ buf[cur] # boundary[cur - anchor + 1]
    <3>1. /\ d + 1 \in 1 .. Len(boundary) /\ d + 1 \in 1 .. Len(line) /\ a + (d + 1) = a + d + 1
          /\ cur - anchor + 1 = d + 1
      BY <1>0, <1>3, <2>1
    <3>2. stream[a + (d + 1)] = line[d + 1] /\ line[d + 1] = boundary[d + 1]
      BY <1>7, <3>1, LineBytes DEF StartsAt, StandsAt
    <3> QED
      BY <1>2, <2>1, <3>1, <3>2
  <2>2. CASE cur + 1 - anchor = Len(boundary) + 2 /\ ~(buf[cur - 1] = CR /\ buf[cur] = LF)
    <3>1. d = Len(boundary) + 1
      BY <1>0, <1>3, <2>2
    <3>2. CASE Len(line) = Len(boundary) + 1
      <4>1. d = Len(line) /\ d \in 1 .. Len(line)
        BY <1>2, <3>1, <3>2
      <4> QED
        BY <1>1, <1>2, <1>7, <3>1, <4>1, LineBytes DEF StartsAt, StandsAt
    <3>3. CASE Len(line) = Len(boundary) + 2
      <4>1. /\ d \in 1 .. Len(line) /\ d + 1 \in 1 .. Len(line) /\ d + 1 = Len(line)
            /\ a + (d + 1) = a + d + 1
        BY <1>3, <3>1, <3>3
      <4>2. line[d] = CR /\ line[d + 1] = LF
        BY <3>1, <3>3, <4>1, LineBytes
      <4>3. stream[a + d] = CR /\ stream[a + (d + 1)] = LF
        BY <1>7, <4>1, <4>2 DEF StartsAt, StandsAt
      <4> QED
        BY <1>2, <2>2, <4>1, <4>3
    <3> QED
      BY <1>3, <3>2, <3>3
  <2> QED
    BY <2>1, <2>2 DEF FindBoundaryMismatch
<1>8. CASE q = a + 1
  <2>1. q >= 1 /\ q + 1 = a + 2 /\ q - 1 = a /\ q - 2 = a - 1 /\ (q >= 3 <=> a >= 2)
    BY <1>8
  <2>2. stream[a + 1] = boundary[1] /\ Aligned(a)
    BY <1>1, <1>4, <1>5, <2>1
  <2>3. q >= 2 /\ stream[a] = boundary[1] /\ (q >= 3 => stream[a - 1] # boundary[1])
    BY <1>8, <2>1, <2>2 DEF StartsAt, Visible
  <2>4. a >= 1
    BY <1>8, <2>3
  <2>5. a >= 2 /\ stream[a - 1] = boundary[1]
    BY <2>2, <2>3, <2>4 DEF Aligned
  <2> QED
    BY <2>1, <2>3, <2>5
<1> QED
  BY <1>2, <1>6, <1>7, <1>8

LEMMA StateFindBoundarySearch == IInv /\ CameraKeepsForm /\ Search /\ StateFindBoundary => Search'
<1> SUFFICES ASSUME IInv, CameraKeepsForm, Search, StateFindBoundary PROVE Search'
  OBVIOUS
<1>1. /\ In("FIND_BOUNDARY") /\ pc = "parse" /\ state = "FIND_BOUNDARY" /\ boundary # <<>>
      /\ UNCHANGED <<stream, pos, head, boundary>>
  BY DEF StateFindBoundary, In, source, Search
<1>2. /\ cur \in Nat /\ head \in Nat /\ pos \in Nat /\ cur < head /\ head <= pos
      /\ anchor \in Nat \/ anchor = NULL
  BY <1>1, Received
<1>3. ASSUME anchor = NULL, cur' = cur + 1, UNCHANGED state,
             anchor' = IF buf[cur] = boundary[1] THEN cur ELSE NULL
      PROVE  Search'
  <2> DEFINE at == Offset(cur)
  <2>1. EndBefore(at, at) /\ Aligned(at)
    BY <1>1, <1>3 DEF Search
  <2>2. at \in Nat /\ at = Offset(cur) /\ buf[cur] = stream[at + 1]
    <3>1. cur \in 0 .. head - 1 /\ at \in Nat
      BY <1>2 DEF Offset
    <3> QED
      BY <3>1, ReceivedByte
  <2> HIDE DEF at
  <2>3. CASE buf[cur] = boundary[1]
    <3>1. /\ anchor' = cur /\ cur' - anchor' = 1 /\ Offset(anchor)' = at
          /\ Len(boundary) >= 1 /\ Len(boundary) \in Nat
      BY <1>1, <1>2, <1>3, <2>2, <2>3, BoundaryGiven DEF Offset
    <3>2. EndBefore(at, at + 1)
      <4> SUFFICES ASSUME NEW line \in BoundaryLines, NEW q \in 0 .. at - 1, StartsAt(line, q)
                   PROVE  q + Len(line) < at + 1
        BY DEF EndBefore
      <4>1. q + Len(line) < at
        BY <2>1 DEF EndBefore
      <4> QED
        BY <2>2, <4>1, LineBytes, Received
    <3>3. EndBefore(Offset(anchor), Offset(anchor) + 1)'
      <4>1. BoundaryLines' = BoundaryLines
        BY <1>1 DEF BoundaryLines
      <4>2. \A line, q : StartsAt(line, q)' <=> StartsAt(line, q)
        BY <1>1 DEF StartsAt, StandsAt, Visible
      <4> QED
        BY <3>1, <3>2, <4>1, <4>2 DEF EndBefore
    <3>4. anchor' # NULL
      BY <1>2, <3>1 DEF NULL
    <3>5. (stream[Offset(anchor) + 1] = boundary[1] /\ Aligned(Offset(anchor)))'
      BY <1>1, <1>3, <2>1, <2>2, <2>3, <3>1 DEF Offset, Aligned
    <3>6. cur' - anchor' <= Len(boundary') + 1 /\ cur' - anchor' # Len(boundary') + 1
      BY <1>1, <3>1
    <3> QED
      BY <1>1, <1>3, <3>3, <3>4, <3>5, <3>6 DEF Search
  <2>4. CASE buf[cur] # boundary[1]
    <3>1. ASSUME NEW line \in BoundaryLines
          PROVE  ~StartsAt(line, at)
      <4>1. 1 \in 1 .. Len(line) /\ line[1] = boundary[1]
        BY <1>1, LineBytes, BoundaryGiven
      <4> QED
        BY <2>2, <2>4, <4>1 DEF StartsAt, StandsAt
    <3>2. EndBefore(at + 1, at + 1)
      BY <2>1, <2>2, <3>1, EndBeforeNext
    <3>3. pos' - head' + cur' = at + 1 /\ anchor' = NULL
      BY <1>1, <1>2, <1>3, <2>2, <2>4 DEF Offset
    <3>4. Aligned(at + 1)
      BY <2>2, <2>4 DEF Aligned
    <3> QED
      BY <1>1, <1>3, <3>2, <3>3, <3>4, Resumed
  <2> QED
    BY <2>3, <2>4
<1>4. ASSUME anchor # NULL, FindBoundaryMismatch, RestartScan, UNCHANGED state
      PROVE  Search'
  <2>1. EndBefore(Offset(anchor) + 2, Offset(anchor) + 2) /\ Aligned(Offset(anchor) + 2)
    <3>1. Offset(anchor) \in Nat /\ cur - anchor \in Nat
      BY <1>1, <1>4, AnchoredBytes
    <3> QED
      BY <1>1, <1>4, <3>1, RestartMissesNothing
  <2>2. anchor' = NULL /\ cur' = anchor + 2
    BY <1>2, <1>4 DEF RestartScan, IncrementCur, NULL
  <2>3. pos' - head' + cur' = Offset(anchor) + 2
    BY <1>1, <1>2, <1>4, <2>2 DEF Offset
  <2> QED
    BY <1>1, <1>4, <2>1, <2>2, <2>3, Resumed
<1>5. ASSUME state' = "HTTP_SUBHEADER"
      PROVE  Search'
  BY <1>1, <1>5, Elsewhere
<1>6. ASSUME anchor # NULL, ~(FindBoundaryMismatch \/ FoundBoundaryLF \/ FoundBoundaryCRLF),
             cur' = cur + 1, UNCHANGED <<state, anchor>>
      PROVE  Search'
  <2> DEFINE d == cur - anchor
             a == Offset(anchor)
  <2>1. /\ EndBefore(a, a + 1) /\ d <= Len(boundary) + 1
        /\ (stream[a + 1] = boundary[1] /\ Aligned(a)) \/ (d >= 2 /\ stream[a + 1] = FF /\ stream[a + 2] = D8)
    BY <1>1, <1>6 DEF Search
  <2>2. /\ d \in Nat /\ Offset(anchor)' = a /\ cur' - anchor' = d + 1 /\ cur + 1 - anchor = d + 1
        /\ Offset(cur)' = Offset(cur) + 1
    BY <1>1, <1>2, <1>6, Received DEF Offset, NULL
  <2>3. buf[cur] = stream[Offset(cur) + 1]
    BY <1>1, <1>6, AnchoredBytes
  <2>4. Len(boundary) \in Nat
    BY Received
  <2>5. d + 1 # Len(boundary) + 2 /\ (d + 1 = Len(boundary) + 1 => buf[cur] # LF)
    BY <1>6, <2>2 DEF FindBoundaryMismatch, FoundBoundaryLF, FoundBoundaryCRLF
  <2>6. d + 1 <= Len(boundary) + 1
    BY <2>1, <2>2, <2>4, <2>5
  <2>7. EndBefore(Offset(anchor), Offset(anchor) + 1)'
    BY <1>1, <2>1, <2>2 DEF EndBefore, BoundaryLines, StartsAt, StandsAt, Visible, Aligned
  <2>8. (cur - anchor = Len(boundary) + 1 => stream[Offset(cur)] # LF)'
    BY <1>1, <2>2, <2>3, <2>5
  <2>9. (\/ stream[Offset(anchor) + 1] = boundary[1] /\ Aligned(Offset(anchor))
         \/ cur - anchor >= 2 /\ stream[Offset(anchor) + 1] = FF /\ stream[Offset(anchor) + 2] = D8)'
    BY <1>1, <2>1, <2>2 DEF Aligned
  <2> QED
    BY <1>1, <1>6, <2>2, <2>6, <2>7, <2>8, <2>9 DEF Search
<1> QED
  BY <1>3, <1>4, <1>5, <1>6 DEF StateFindBoundary, IncrementCur

LEMMA StateFindImageSearch == IInv /\ CameraKeepsForm /\ Search /\ StateFindImage => Search'
<1> SUFFICES ASSUME IInv, CameraKeepsForm, Search, StateFindImage PROVE Search'
  OBVIOUS
<1>1. /\ pc = "parse" /\ state = "FIND_IMAGE" /\ cur' = cur + 1 /\ boundary # <<>>
      /\ UNCHANGED <<stream, pos, head, boundary>>
  BY DEF StateFindImage, In, source, IncrementCur, Search
<1>2. CASE state' # "FIND_BOUNDARY"
  <2>1. state' \in {"FIND_IMAGE"} \cup ImageStates
    BY <1>1, <1>2 DEF StateFindImage, ImageState, ImageStates
  <2> QED
    BY <1>1, <2>1, Elsewhere
<1>3. CASE state' = "FIND_BOUNDARY"
  <2> DEFINE a == Offset(anchor)
  <2>1. anchor # NULL /\ cur - anchor = 1 /\ buf[cur] = D8 /\ UNCHANGED anchor
    BY <1>1, <1>3 DEF StateFindImage
  <2>2. buf[anchor] = FF
    BY <1>1, <2>1 DEF IInv, ImageAtAnchor
  <2>3. /\ a \in Nat /\ a = Offset(anchor) /\ Offset(cur) = a + 1 /\ a + 2 \in 1 .. Len(stream)
        /\ a + 1 \in 1 .. Len(stream) /\ stream[a + 1] = FF /\ stream[a + 2] = D8
    <3>1. /\ a \in Nat /\ Offset(cur) = a + 1 /\ Offset(cur) + 1 = a + 2 /\ Len(stream) \in Nat
          /\ Offset(cur) + 1 \in 1 .. Len(stream)
      BY <1>1, <2>1, AnchoredBytes, Received
    <3>2. stream[a + 1] = FF /\ stream[Offset(cur) + 1] = D8
      BY <1>1, <2>1, <2>2, AnchoredBytes
    <3> QED
      BY <3>1, <3>2
  <2> HIDE DEF a
  <2>4. EndBefore(a + 1, a + 1)
    BY <1>1, <2>3, NoneAcross
  <2>5. EndBefore(a, a + 1)
    BY <2>3, <2>4 DEF EndBefore
  <2>6. Offset(anchor)' = a /\ cur' - anchor' = 2 /\ Offset(cur)' = a + 2 /\ anchor' # NULL
    <3>1. anchor \in Nat /\ cur \in Nat /\ pos \in Nat /\ head \in Nat
      BY <2>1, Received
    <3> QED
      BY <1>1, <2>1, <2>3, <3>1 DEF Offset
  <2>7. Len(boundary) \in Nat /\ Len(boundary) >= 1
    BY <1>1, BoundaryGiven
  <2>8. EndBefore(Offset(anchor), Offset(anchor) + 1)'
    BY <1>1, <2>5, <2>6 DEF EndBefore, BoundaryLines, StartsAt, StandsAt, Visible, Aligned
  <2>9. stream'[Offset(cur)'] # LF
    BY <1>1, <2>3, <2>6 DEF LF, D8
  <2> QED
    BY <1>1, <1>3, <2>3, <2>6, <2>7, <2>8, <2>9 DEF Search
<1> QED
  BY <1>2, <1>3

LEMMA ImageSearch ==
  IInv /\ CameraKeepsForm /\ Search /\ (StateImageByContentLength \/ StateImageByEofSearch) => Search'
<1> SUFFICES ASSUME IInv, CameraKeepsForm, Search, StateImageByContentLength \/ StateImageByEofSearch
             PROVE  Search'
  OBVIOUS
<1>1. /\ pc = "parse" /\ state \in ImageStates /\ boundary # <<>> /\ anchor # NULL
      /\ UNCHANGED <<stream, pos, head, boundary>>
  BY DEF StateImageByContentLength, StateImageByEofSearch, In, source, Search, ImageStates,
         IInv, OnlyReceivedBytesRead
<1>2. CASE state' \in ImageStates
  BY <1>1, <1>2, Elsewhere
<1>3. CASE /\ state = "IMAGE_BY_CONTENT_LENGTH" /\ BytesLeftInBuf >= BytesNeeded
           /\ cur' = anchor + content_length - 1 + 1 /\ anchor' = NULL /\ state' = "FIND_BOUNDARY"
  <2> DEFINE p == Offset(anchor) + content_length
  <2>1. content_length \in Nat /\ content_length >= 1
    BY <1>3, Received DEF IInv, ImageAtAnchor
  <2>2. /\ p \in 1 .. Len(stream) /\ p <= Len(stream)
        /\ pos' - head' + cur' = p
    <3>1. /\ anchor \in Nat /\ cur \in Nat /\ pos \in Nat /\ head \in Nat /\ head <= pos
          /\ pos <= Len(stream) /\ Len(stream) \in Nat
      BY <1>1, Received
    <3>2. anchor + content_length <= head
      BY <1>3, <2>1, <3>1 DEF BytesLeftInBuf, BytesNeeded, BytesFound
    <3> QED
      BY <1>1, <1>3, <2>1, <3>1, <3>2 DEF Offset
  <2>3. stream[p] = D9
    BY <1>3, <2>2 DEF CameraKeepsForm
  <2>4. EndBefore(p, p) /\ Aligned(p)
    BY <1>1, <2>2, <2>3, NoneAcross
  <2> QED
    BY <1>1, <1>3, <2>2, <2>4, Resumed
<1>4. CASE buf[cur] = D9 /\ cur' = cur + 1 /\ anchor' = NULL /\ state' = "FIND_BOUNDARY"
  <2> DEFINE p == Offset(cur) + 1
  <2>1. p \in 1 .. Len(stream) /\ stream[p] = D9
    BY <1>1, <1>4, AnchoredBytes
  <2>2. pos' - head' + cur' = p
    BY <1>1, <1>4, Received DEF Offset
  <2>3. EndBefore(p, p) /\ Aligned(p)
    BY <1>1, <2>1, NoneAcross
  <2> QED
    BY <1>1, <1>4, <2>2, <2>3, Resumed
<1> QED
  BY <1>1, <1>2, <1>3, <1>4 DEF StateImageByContentLength, StateImageByEofSearch, In, IncrementCur

\* The buffer is shifted, filled, or left alone: no position changes.
LEMMA BufferSearch ==
  ASSUME IInv, Search,
         \/ AdjustStreambuf
         \/ \E n \in 1 .. BufSize - head : n <= Len(stream) - pos /\ ReadBytes(n)
         \/ ReadNothing \/ ReadFails
         \/ UNCHANGED vars
  PROVE  Search'
<1> USE Received
<1>1. CASE pc' = "done" /\ UNCHANGED <<state, boundary>>
  BY <1>1 DEF Search
<1>2. CASE /\ UNCHANGED <<stream, state, boundary>> /\ (pc # "done")
           /\ Offset(cur)' = Offset(cur) /\ Offset(LineStart)' = Offset(LineStart)
           /\ (anchor' = NULL <=> anchor = NULL)
           /\ anchor # NULL => Offset(anchor)' = Offset(anchor) /\ cur' - anchor' = cur - anchor
  <2>1. \A at, end : EndBefore(at, end)' <=> EndBefore(at, end)
    BY <1>2 DEF EndBefore, BoundaryLines, StartsAt, StandsAt, Visible, Aligned
  <2> QED
    BY <1>2 DEF Search, EndBefore, BoundaryLines, StartsAt, StandsAt, Visible, Aligned
<1>3. CASE UNCHANGED vars
  BY <1>1, <1>2, <1>3 DEF vars, Offset, LineStart
<1>4. CASE ReadNothing \/ ReadFails
  BY <1>1, <1>4 DEF ReadNothing, ReadFails, Return
<1>5. ASSUME NEW n \in 1 .. BufSize - head, ReadBytes(n)
      PROVE  Search'
  <2>1. /\ pc = "read" /\ head' = head + n /\ pos' = pos + n
        /\ UNCHANGED <<stream, state, cur, anchor, boundary>>
    BY <1>5 DEF ReadBytes
  <2>2. \A i \in Int : pos' - head' + i = pos - head + i
    BY <2>1
  <2>3. LineStart' = LineStart /\ LineStart \in Int /\ anchor \in Int /\ cur \in Int
    BY <2>1 DEF LineStart, NULL
  <2> QED
    BY <1>2, <2>1, <2>2, <2>3 DEF Offset
<1>6. CASE AdjustStreambuf
  <2>1. pc = "adjust" /\ cur = head /\ UNCHANGED <<stream, pos, state, boundary>>
    BY <1>6 DEF AdjustStreambuf, source, IInv, OnlyReceivedBytesRead
  <2>2. CASE UNCHANGED <<head, cur, anchor>>
    BY <1>2, <2>1, <2>2 DEF Offset, LineStart
  <2>3. CASE anchor = NULL /\ cur' = 0 /\ head' = 0 /\ UNCHANGED anchor
    BY <1>2, <2>1, <2>3 DEF Offset, LineStart
  <2>4. CASE /\ anchor # NULL /\ cur' = cur - anchor /\ head' = head - anchor /\ anchor' = 0
    BY <1>2, <2>1, <2>4 DEF Offset, LineStart, NULL
  <2>5. anchor = NULL => ~(head - KeepFrom > 0)
    BY <2>1 DEF KeepFrom
  <2>6. anchor # NULL => KeepFrom = anchor /\ anchor - anchor = 0
    BY DEF KeepFrom
  <2> QED
    BY <1>6, <2>2, <2>3, <2>4, <2>5, <2>6 DEF AdjustStreambuf
<1> QED
  BY <1>3, <1>4, <1>5, <1>6

LEMMA NextSearch == IInv /\ CameraKeepsForm /\ Search /\ [Next]_vars => Search'
<1> SUFFICES ASSUME IInv, CameraKeepsForm, Search, [Next]_vars PROVE Search'
  OBVIOUS
<1>1. CASE Parse
  BY <1>1, FetchHeaderLineSearch, StateHttpBannerSearch, StateHttpHeaderSearch,
     StateHttpSubheaderSearch, StateFindBoundarySearch, StateFindImageSearch, ImageSearch DEF Parse
<1>2. CASE ~Parse
  BY <1>2, BufferSearch DEF Next
<1> QED
  BY <1>1, <1>2

\* A complete boundary line that the search has passed stands where it may be
\* passed.
LEMMA SearchMissesNothing ==
  ASSUME IInv, CameraKeepsForm, Search, state = "FIND_BOUNDARY", anchor = NULL, pc # "done",
         NEW eol \in {<<LF>>, <<CR, LF>>}, NEW q \in Int,
         q = Offset(cur) - Len(boundary \o eol), q >= 0,
         \A i \in DOMAIN (boundary \o eol) : stream[q + i] = (boundary \o eol)[i]
  PROVE  q \in 0 .. Len(stream) /\ StandsAt(boundary \o eol, q) /\ ~Visible(q)
<1>0. eol \in Seq(Byte) /\ boundary \in Seq(Byte)
  <2>1. LF \in Byte /\ CR \in Byte
    BY GrabberAssumption DEF GrabberAssumption
  <2>2. <<LF>> \in Seq(Byte) /\ <<CR, LF>> \in Seq(Byte)
    BY <2>1
  <2> QED
    BY <2>2, Received, Zenon
<1> DEFINE line == boundary \o eol
           at   == Offset(cur)
<1>1. EndBefore(at, at)
  BY DEF Search
<1>2. line \in BoundaryLines
  BY DEF BoundaryLines
<1>3. Len(line) \in Nat /\ Len(line) >= 1
  BY <1>2, LineBytes
<1>4. at \in Nat /\ at <= Len(stream) /\ Len(stream) \in Nat
  <2>1. cur <= head
    BY DEF IInv, OnlyReceivedBytesRead, TypeOK
  <2> QED
    BY <2>1, Received DEF Offset
<1>5. q \in 0 .. at - 1 /\ q + Len(line) = at
  BY <1>3, <1>4
<1>6. line \in Seq(Byte)
  BY <1>0
<1>7. \A i \in 1 .. Len(line) : stream[q + i] = line[i]
  BY <1>6
<1>8. StandsAt(line, q)
  BY <1>4, <1>5, <1>7 DEF StandsAt
<1> HIDE DEF line, at
<1>9. ~StartsAt(line, q)
  BY <1>1, <1>2, <1>4, <1>5 DEF EndBefore
<1> QED
  BY <1>4, <1>5, <1>8, <1>9 DEF StartsAt, line

LEMMA SeparatorLength ==
  ASSUME IInv, NEW eol \in {<<LF>>, <<CR, LF>>}
  PROVE  Offset(cur) \in Int /\ Len(boundary \o eol) \in Int
<1>1. LF \in Byte /\ CR \in Byte /\ boundary \in Seq(Byte)
  BY GrabberAssumption, Received DEF GrabberAssumption
<1>2. <<LF>> \in Seq(Byte) /\ <<CR, LF>> \in Seq(Byte)
  BY <1>1
<1>3. eol \in Seq(Byte)
  BY <1>2, Zenon
<1>4. boundary \o eol \in Seq(Byte)
  BY <1>1, <1>3, ConcatProperties
<1>5. Len(boundary \o eol) \in Nat
  BY <1>4, LenProperties
<1>6. cur \in Nat /\ pos \in Nat /\ head \in Nat
  BY Received
<1> QED
  BY <1>5, <1>6 DEF Offset

LEMMA SearchKept == Spec /\ []CameraKeepsForm => []Search
  BY Invariance, InitSearch, NextSearch, PTL DEF Spec

\* As long as the camera keeps to the form, the search passes no complete
\* boundary line by that starts a line of the stream, wherever the reads cut it
\* and whatever precedes it ("... a \r\n or an \n followed by our boundary
\* marker, and another \r\n or \n").
BoundaryLineNotMissed ==
  state = "FIND_BOUNDARY" /\ anchor = NULL /\ pc # "done" =>
    \A eol \in {<<LF>>, <<CR, LF>>} :
      LET line == boundary \o eol
          q    == Offset(cur) - Len(line)
      IN ~ /\ q >= 1
           /\ stream[q] = LF
           /\ \A i \in DOMAIN line : stream[q + i] = line[i]

THEOREM BoundaryLineFound == Spec /\ []CameraKeepsForm => []BoundaryLineNotMissed
<1>1. IInv /\ CameraKeepsForm /\ Search => BoundaryLineNotMissed
  <2> SUFFICES ASSUME IInv, CameraKeepsForm, Search PROVE BoundaryLineNotMissed
    OBVIOUS
  <2> SUFFICES ASSUME state = "FIND_BOUNDARY", anchor = NULL, pc # "done",
                      NEW eol \in {<<LF>>, <<CR, LF>>},
                      Offset(cur) - Len(boundary \o eol) >= 1,
                      stream[Offset(cur) - Len(boundary \o eol)] = LF,
                      \A i \in DOMAIN (boundary \o eol) :
                        stream[Offset(cur) - Len(boundary \o eol) + i] = (boundary \o eol)[i]
               PROVE  FALSE
    BY DEF BoundaryLineNotMissed
  <2> DEFINE q == Offset(cur) - Len(boundary \o eol)
  <2>0. q \in Int /\ q >= 0
    BY SeparatorLength
  <2>1. ~Visible(q)
    BY <2>0, SearchMissesNothing
  <2> HIDE DEF q
  <2>2. boundary[1] # LF
    BY BoundaryGiven DEF Search, CameraKeepsForm
  <2> QED
    BY <2>1, <2>2 DEF Visible, q
<1> QED
  BY <1>1, Invariance, SearchKept, PTL

\* Nor one that does not start a line, if what directly precedes the boundaries is
\* not the first character of theirs, or is that just twice: "---b" for "-b".
THEOREM BoundaryFound ==
  Spec /\ [](CameraKeepsForm /\ BoundariesVisible) => []BoundaryNotMissed
<1>1. IInv /\ CameraKeepsForm /\ BoundariesVisible /\ Search => BoundaryNotMissed
  <2> SUFFICES ASSUME IInv, CameraKeepsForm, BoundariesVisible, Search PROVE BoundaryNotMissed
    OBVIOUS
  <2> SUFFICES ASSUME state = "FIND_BOUNDARY", anchor = NULL, pc # "done",
                      NEW eol \in {<<LF>>, <<CR, LF>>},
                      Len(boundary \o eol) <= Offset(cur),
                      \A i \in DOMAIN (boundary \o eol) :
                        stream[Offset(cur) - Len(boundary \o eol) + i] = (boundary \o eol)[i]
               PROVE  FALSE
    BY DEF BoundaryNotMissed, Offset
  <2> DEFINE q == Offset(cur) - Len(boundary \o eol)
  <2>0. q \in Int /\ q >= 0
    BY SeparatorLength
  <2>1. q \in 0 .. Len(stream) /\ StandsAt(boundary \o eol, q) /\ ~Visible(q)
    BY <2>0, SearchMissesNothing
  <2> HIDE DEF q
  <2>2. boundary # <<>> /\ boundary \o eol \in BoundaryLines
    BY DEF Search, BoundaryLines
  <2> QED
    BY <2>1, <2>2 DEF BoundariesVisible
<1> QED
  BY <1>1, Invariance, SearchKept, PTL

==============================================================================
