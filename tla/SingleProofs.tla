----------------------------- MODULE SingleProofs -----------------------------
(***************************************************************************)
(* Proofs about mjvsingle and its source, for any strings and any number   *)
(* of addresses, and wherever the two signals come.                        *)
(*                                                                         *)
(* The source has an invariant of its own, which every step of its life    *)
(* keeps, about its memory (Memory), its descriptor (Descriptor) and the   *)
(* request, what it looks like (Sent) and says (Faithful). On top of it    *)
(* come four invariants of the program: its steps and the source's fit     *)
(* together (Order), the objects are freed in their turn (Objects), and    *)
(* the descriptors and the pipe agree (Ends, Reads), also inside the       *)
(* handlers. That the credentials survive their encoding is a lemma about  *)
(* base64_encode() (DecodesEncoded).                                       *)
(***************************************************************************)
EXTENDS Single, FiniteSetTheorems, SequenceTheorems, TLAPS

\* A step in the life of a source, or of nobody.
SourceStep ==
  \/ \E k \in {"file", "network"}, a \in NetworkArgs : Create(k, a)
  \/ Creates \/ Opens \/ Destroy
  \/ UNCHANGED sourceVars

\* The strings are copied in their order, so that the labels of the constructor
\* find below the failed one just those that were copied.
Memory ==
  /\ blocks \subseteq {"self"} \cup {Strings[i] : i \in Copied}
  /\ step \in {"none", "not_created", "destroyed"} => blocks = {}
  /\ step = "create" => \A i \in 1 .. 5, j \in Pending : Strings[i] \in blocks => i < j

\* A descriptor is only taken when none is held.
Unopened == {"none", "create", "created", "connect", "not_created"}

Descriptor ==
  /\ step \in Unopened => opened = {}
  /\ opened \subseteq {fd}
  /\ step \in {"request", "opened"} => opened = {fd}

\* What was sent of a request is a beginning of it; only the last line may be cut.
Lines == [kind : {"get", "keep_alive", "auth", "crlf"}, text : {<<>>, AuthString},
          whole : BOOLEAN]

Sent ==
  /\ sent \in Seq(Lines)
  /\ step \in Unopened => sent = <<>>
  /\ step \in {"connect", "request"} => kind = "network"
  /\ step = "request" =>
       Len(sent) <= Len(Request) /\ \A i \in 1 .. Len(sent) : sent[i] = Request[i]
  /\ LinesWhole

\* Each line sent says what the request's own line does, cut or not, and an
\* open source has sent all of them.
Faithful ==
  /\ step # "none" => args \in NetworkArgs
  /\ sent # <<>> => Len(sent) <= Len(Request)
  /\ \A i \in 1 .. Len(sent) :
       sent[i].kind = Request[i].kind /\ sent[i].text = Request[i].text
  /\ step = "opened" /\ kind = "network" => Len(sent) = Len(Request)

SourceInv == Memory /\ Descriptor /\ Sent /\ Faithful

-----------------------------------------------------------------------------
LEMMA StringsAre ==
  /\ Strings \in [1 .. 5 -> {"name", "host", "path", "user", "pass"}]
  /\ DOMAIN Strings = 1 .. 5
  /\ \A i \in 1 .. 5 : Strings[i] # "self"
  /\ \A i, j \in 1 .. 5 : Strings[i] = Strings[j] => i = j
BY DEF Strings

\* The next string to copy comes before every other that is left.
LEMMA MinPending ==
  ASSUME Pending # {}
  PROVE  /\ Min(Pending) \in Pending /\ Min(Pending) \in 1 .. 5
         /\ \A j \in Pending : Min(Pending) <= j
<1>1. Pending \subseteq 1 .. 5
  BY StringsAre DEF Pending, Copied
<1>2. \E x \in Pending : \A y \in Pending : x <= y
  <2>1. ASSUME \A x \in Pending : \E y \in Pending : y < x
        PROVE  FALSE
    <3>1. 1 \notin Pending
      BY <1>1, <2>1
    <3>2. 2 \notin Pending
      BY <1>1, <2>1, <3>1
    <3>3. 3 \notin Pending
      BY <1>1, <2>1, <3>1, <3>2
    <3>4. 4 \notin Pending
      BY <1>1, <2>1, <3>1, <3>2, <3>3
    <3>5. 5 \notin Pending
      BY <1>1, <2>1, <3>1, <3>2, <3>3, <3>4
    <3>6. PICK x \in Pending : TRUE
      OBVIOUS
    <3>7. x \in 1 .. 5
      BY <1>1
    <3> QED
      BY <3>1, <3>2, <3>3, <3>4, <3>5, <3>6, <3>7
  <2> QED
    BY <1>1, <2>1
<1> QED
  BY <1>1, <1>2 DEF Min

\* What a source has on the heap, through every step of its life.
LEMMA MemoryStep ==
  ASSUME Memory, SourceStep
  PROVE  Memory'
<1> USE DEF Memory
<1>1. CASE \E k \in {"file", "network"}, a \in NetworkArgs : Create(k, a)
  BY <1>1, StringsAre DEF Create
<1>2. CASE CopyString
  <2> DEFINE m == Min(Pending)
  <2>1. m \in Pending /\ m \in 1 .. 5 /\ \A j \in Pending : m <= j
    BY <1>2, MinPending DEF CopyString
  <2>2. Copied' = Copied /\ blocks' = blocks \cup {Strings[m]} /\ step' = "create"
    BY <1>2 DEF CopyString, Copied
  <2>3. m \in Copied /\ Strings[m] \notin blocks
    BY <2>1 DEF Pending
  <2>4. Pending' \subseteq Pending \ {m}
    BY <1>2, <2>2 DEF Pending, CopyString
  <2>5. ASSUME NEW i \in 1 .. 5, NEW j \in Pending', Strings[i] \in blocks'
        PROVE  i < j
    <3>1. j \in Pending /\ j # m /\ j \in 1 .. 5
      BY <2>4, StringsAre DEF Pending, Copied
    <3> HIDE DEF m
    <3>2. CASE Strings[i] \in blocks
      BY <1>2, <3>1, <3>2 DEF CopyString
    <3>3. CASE i = m
      BY <2>1, <3>1, <3>3
    <3> QED
      BY <2>1, <2>2, <2>5, <3>2, <3>3, StringsAre
  <2> QED
    BY <2>2, <2>3, <2>5
<1>3. CASE CopyFails
  <2> DEFINE m == Min(Pending)
  <2>1. m \in Pending /\ m \in 1 .. 5
    BY <1>3, MinPending DEF CopyFails
  <2>2. step' = "not_created" /\ blocks' = blocks \ ({"self"} \cup {Strings[j] : j \in 1 .. m - 1})
    BY <1>3 DEF CopyFails, Unwound
  <2> HIDE DEF m
  <2>3. ASSUME NEW b \in blocks PROVE b \notin blocks'
    <3>1. CASE b = "self"
      BY <2>2, <3>1
    <3>2. CASE \E i \in 1 .. 5 : b = Strings[i]
      BY <1>3, <2>1, <2>2, <3>2 DEF CopyFails
    <3> QED
      BY <3>1, <3>2, StringsAre DEF Copied
  <2> QED
    BY <2>2, <2>3
<1>4. CASE Created \/ Opens
  BY <1>4
  DEF Created, Opens, OpenFile, Resolve, SocketFails, ConnectFails, Connect, NoAddressLeft,
      RequestFails, WriteLine, WriteFails, RequestSent, Copied
<1>5. CASE Destroy
  BY <1>5 DEF Destroy, Copied
<1>6. CASE UNCHANGED sourceVars
  BY <1>6 DEF sourceVars, Copied, Pending
<1> QED
  BY <1>1, <1>2, <1>3, <1>4, <1>5, <1>6 DEF SourceStep, Creates

\* What descriptor a source holds.
LEMMA DescriptorStep ==
  ASSUME Descriptor, SourceStep
  PROVE  Descriptor'
<1> USE DEF Descriptor, Unopened
<1>1. CASE \E k \in {"file", "network"}, a \in NetworkArgs : Create(k, a)
  BY <1>1 DEF Create
<1>2. CASE Creates
  BY <1>2 DEF Creates, CopyString, CopyFails, Created
<1>3. CASE OpenFile \/ Connect
  BY <1>3 DEF OpenFile, Connect
<1>4. CASE Resolve \/ SocketFails \/ ConnectFails \/ NoAddressLeft
  BY <1>4 DEF Resolve, SocketFails, ConnectFails, NoAddressLeft
<1>5. CASE RequestFails \/ WriteLine \/ WriteFails \/ RequestSent \/ Destroy
  BY <1>5 DEF RequestFails, WriteLine, WriteFails, RequestSent, Destroy
<1>6. CASE UNCHANGED sourceVars
  BY <1>6 DEF sourceVars
<1> QED
  BY <1>1, <1>2, <1>3, <1>4, <1>5, <1>6 DEF SourceStep, Opens

\* A request ends with the empty line, and all of its lines are whole.
LEMMA RequestIs ==
  /\ Request \in Seq(Lines)
  /\ Len(Request) > 0
  /\ \A i \in 1 .. Len(Request) : Request[i].whole
  /\ Request[Len(Request)].kind = "crlf"
<1> DEFINE L(k, text) == [kind |-> k, text |-> text, whole |-> TRUE]
           whole      == {l \in Lines : l.whole}
           first      == <<L("get", <<>>), L("keep_alive", <<>>)>>
           auth       == IF NULL \notin {args.user, args.pass} THEN <<L("auth", AuthString)>>
                         ELSE <<>>
           last       == <<L("crlf", <<>>)>>
<1>1. Request = first \o auth \o last
  BY DEF Request
<1>2. L("get", <<>>) \in whole /\ L("keep_alive", <<>>) \in whole /\ L("auth", AuthString) \in whole
      /\ L("crlf", <<>>) \in whole /\ L("crlf", <<>>).kind = "crlf"
  BY DEF Lines
<1> HIDE DEF L, whole
<1>3. first \in Seq(whole) /\ auth \in Seq(whole) /\ last \in Seq(whole)
      /\ Len(last) = 1 /\ last[1].kind = "crlf"
  BY <1>2
<1> HIDE DEF first, auth, last
<1>4. first \o auth \in Seq(whole)
  BY <1>3, ConcatProperties
<1> DEFINE begin == first \o auth
<1> HIDE DEF begin
<1>5. Len(begin) \in Nat
  BY <1>4, LenProperties DEF begin
<1>6. /\ Request \in Seq(whole)
      /\ Len(Request) = Len(begin) + 1
      /\ Request[Len(begin) + 1] = last[1]
  <2>1. Request = begin \o last /\ begin \in Seq(whole)
    BY <1>1, <1>4 DEF begin
  <2>2. /\ begin \o last \in Seq(whole)
        /\ Len(begin \o last) = Len(begin) + Len(last)
        /\ \A i \in 1 .. Len(begin) + Len(last) :
             (begin \o last)[i] = IF i <= Len(begin) THEN begin[i] ELSE last[i - Len(begin)]
    BY <1>3, <2>1, ConcatProperties
  <2> QED
    BY <1>3, <1>5, <2>1, <2>2
<1>7. whole \subseteq Lines /\ \A l \in whole : l.whole
  BY DEF whole
<1>8. Request \in Seq(Lines)
  BY <1>6, <1>7, SeqMonotonic
<1>9. \A i \in 1 .. Len(Request) : Request[i] \in whole
  BY <1>6, ElementOfSeq
<1> QED
  BY <1>3, <1>5, <1>6, <1>7, <1>8, <1>9

\* What the camera has got of the request.
LEMMA SentStep ==
  ASSUME Sent, SourceStep
  PROVE  Sent'
<1> USE DEF Sent, Unopened, LinesWhole
<1>1. CASE \E k \in {"file", "network"}, a \in NetworkArgs : Create(k, a)
  BY <1>1, EmptySeq DEF Create
<1>2. CASE Creates
  BY <1>2 DEF Creates, CopyString, CopyFails, Created, Lines, AuthString, Credentials
<1>3. CASE OpenFile \/ Resolve \/ SocketFails \/ ConnectFails \/ NoAddressLeft \/ Destroy
  <2>1. CASE OpenFile \/ Resolve
    BY <2>1 DEF OpenFile, Resolve, Lines, AuthString, Credentials
  <2>2. CASE SocketFails \/ ConnectFails \/ NoAddressLeft
    BY <2>2 DEF SocketFails, ConnectFails, NoAddressLeft, Lines, AuthString, Credentials
  <2>3. CASE Destroy
    BY <2>3 DEF Destroy, Lines, AuthString, Credentials
  <2> QED
    BY <1>3, <2>1, <2>2, <2>3
<1>4. CASE Connect \/ RequestFails
  BY <1>4, RequestIs DEF Connect, RequestFails, Lines, AuthString, Credentials
<1>5. CASE WriteLine
  <2> DEFINE n == Len(sent)
  <2>1. /\ step = "request" /\ step' = "request" /\ kind' = kind
        /\ n < Len(Request)
        /\ sent' = Append(sent, Request[n + 1])
        /\ Request' = Request /\ Lines' = Lines
    BY <1>5 DEF WriteLine, NextLine, Lines, AuthString, Credentials, Request
  <2>2. n \in Nat /\ Len(Request) \in Nat /\ Request[n + 1] \in Lines
    BY <2>1, RequestIs, LenProperties, ElementOfSeq
  <2>3. /\ sent' \in Seq(Lines)
        /\ Len(sent') = n + 1
        /\ \A i \in 1 .. n + 1 : sent'[i] = Request[i]
    BY <2>1, <2>2, AppendProperties
  <2> QED
    BY <2>1, <2>2, <2>3, RequestIs
<1>6. CASE WriteFails
  <2> DEFINE n   == Len(sent)
             cut == [NextLine EXCEPT !.whole = FALSE]
  <2>1. /\ step = "request" /\ step' = "not_opened" /\ kind' = kind
        /\ n < Len(Request)
        /\ sent' = sent \/ sent' = Append(sent, cut)
        /\ Request' = Request /\ Lines' = Lines
    BY <1>6 DEF WriteFails, Lines, AuthString, Credentials, Request
  <2>2. n \in Nat /\ Len(Request) \in Nat /\ cut \in Lines
    <3>1. n \in Nat /\ Len(Request) \in Nat /\ NextLine \in Lines
      BY <2>1, RequestIs, LenProperties, ElementOfSeq DEF NextLine
    <3> QED
      BY <3>1 DEF Lines
  <2>3. \A i \in 1 .. n : sent[i].whole
    BY <2>1, <2>2, RequestIs
  <2> HIDE DEF cut
  <2>4. CASE sent' = Append(sent, cut)
    <3>1. /\ sent' \in Seq(Lines)
          /\ Len(sent') = n + 1
          /\ \A i \in 1 .. n : sent'[i] = sent[i]
      BY <2>1, <2>2, <2>4, AppendProperties
    <3> QED
      BY <2>1, <2>2, <2>3, <3>1
  <2>5. CASE sent' = sent
    BY <2>1, <2>3, <2>5
  <2> QED
    BY <2>1, <2>4, <2>5
<1>7. CASE RequestSent
  BY <1>7, RequestIs DEF RequestSent, Lines, AuthString, Credentials
<1>8. CASE UNCHANGED sourceVars
  BY <1>8 DEF sourceVars, Lines, AuthString, Credentials, Request
<1> QED
  BY <1>1, <1>2, <1>3, <1>4, <1>5, <1>6, <1>7, <1>8 DEF SourceStep, Opens

\* The header line for the credentials is in the request exactly if there are any.
LEMMA RequestAuth ==
  /\ \A i \in 1 .. Len(Request) : Request[i].kind = "auth" =>
       Request[i].text = AuthString /\ NULL \notin {args.user, args.pass}
  /\ NULL \notin {args.user, args.pass} => \E i \in 1 .. Len(Request) : Request[i].kind = "auth"
<1> DEFINE L(k, text) == [kind |-> k, text |-> text, whole |-> TRUE]
           g == L("get", <<>>)
           h == L("keep_alive", <<>>)
           a == L("auth", AuthString)
           c == L("crlf", <<>>)
<1>1. /\ g.kind = "get" /\ h.kind = "keep_alive" /\ a.kind = "auth" /\ c.kind = "crlf"
      /\ a.text = AuthString
  OBVIOUS
<1>2. Request = <<g, h>> \o (IF NULL \notin {args.user, args.pass} THEN <<a>> ELSE <<>>) \o <<c>>
  BY DEF Request
<1> HIDE DEF g, h, a, c
<1> DEFINE S     == {g, h, a, c}
           first == <<g, h>>
           auth  == IF NULL \notin {args.user, args.pass} THEN <<a>> ELSE <<>>
           last  == <<c>>
<1>3. first \in Seq(S) /\ Len(first) = 2 /\ first[1] = g /\ first[2] = h
  OBVIOUS
<1>4. last \in Seq(S) /\ Len(last) = 1 /\ last[1] = c
  OBVIOUS
<1>5. /\ auth \in Seq(S)
      /\ NULL \notin {args.user, args.pass} => Len(auth) = 1 /\ auth[1] = a
      /\ NULL \in {args.user, args.pass} => Len(auth) = 0
  <2>1. <<a>> \in Seq(S) /\ Len(<<a>>) = 1 /\ <<a>>[1] = a
    OBVIOUS
  <2>2. <<>> \in Seq(S) /\ Len(<<>>) = 0
    OBVIOUS
  <2> HIDE DEF S
  <2>3. CASE NULL \notin {args.user, args.pass}
    <3>1. auth = <<a>>
      BY <2>3
    <3> QED
      BY <2>1, <2>3, <3>1, Zenon
  <2>4. CASE NULL \in {args.user, args.pass}
    <3>1. auth = <<>>
      BY <2>4
    <3> QED
      BY <2>2, <2>4, <3>1, Zenon
  <2> QED
    BY <2>3, <2>4, Zenon
<1> HIDE DEF S, first, auth, last
<1>6. /\ first \o auth \in Seq(S) /\ Len(first \o auth) = 2 + Len(auth)
      /\ \A i \in 1 .. 2 + Len(auth) :
           (first \o auth)[i] = IF i <= 2 THEN first[i] ELSE auth[i - 2]
  <2>1. /\ first \o auth \in Seq(S) /\ Len(first \o auth) = Len(first) + Len(auth)
        /\ \A i \in 1 .. Len(first) + Len(auth) :
             (first \o auth)[i] = IF i <= Len(first) THEN first[i] ELSE auth[i - Len(first)]
    BY <1>3, <1>5, ConcatProperties
  <2> QED
    BY <1>3, <2>1
<1>7. /\ Len(Request) = 2 + Len(auth) + 1
      /\ \A i \in 1 .. 2 + Len(auth) + 1 :
           Request[i] = IF i <= 2 + Len(auth) THEN (first \o auth)[i] ELSE last[i - (2 + Len(auth))]
  BY <1>2, <1>4, <1>6, ConcatProperties DEF first, auth, last
<1>8. CASE NULL \notin {args.user, args.pass}
  <2>1. Len(auth) = 1 /\ auth[1] = a
    BY <1>5, <1>8
  <2>2. Len(Request) = 4 /\ Request[1] = g /\ Request[2] = h /\ Request[3] = a /\ Request[4] = c
    BY <1>3, <1>4, <1>6, <1>7, <2>1
  <2>3. \A i \in 1 .. 4 : i \in {1, 2, 3, 4}
    OBVIOUS
  <2> QED
    BY <1>1, <1>8, <2>2, <2>3
<1>9. CASE NULL \in {args.user, args.pass}
  <2>1. Len(Request) = 3 /\ Request[1] = g /\ Request[2] = h /\ Request[3] = c
    <3>1. Len(auth) = 0
      BY <1>5, <1>9
    <3> QED
      BY <1>3, <1>4, <1>6, <1>7, <3>1
  <2>2. \A i \in 1 .. 3 : i \in {1, 2, 3}
    OBVIOUS
  <2> QED
    BY <1>1, <1>9, <2>1, <2>2
<1> QED
  BY <1>8, <1>9

\* What the camera has got of the request says what the request does.
LEMMA FaithfulStep ==
  ASSUME Sent, Faithful, SourceStep
  PROVE  Faithful'
<1>1. CASE \E k \in {"file", "network"}, a \in NetworkArgs : Create(k, a)
  <2>1. sent' = <<>> /\ args' \in NetworkArgs /\ step' # "opened"
    BY <1>1 DEF Create, Sent, Unopened
  <2> QED
    BY <2>1, EmptySeq DEF Faithful
<1>2. ASSUME UNCHANGED <<kind, args>>
      PROVE  Request' = Request
  BY <1>2 DEF Request, AuthString, Credentials
<1>3. CASE Creates
  <2>1. UNCHANGED <<kind, args, sent>> /\ step # "none" /\ step' # "opened"
    BY <1>3 DEF Creates, CopyString, CopyFails, Created
  <2> QED
    BY <1>2, <2>1 DEF Faithful
<1>4. CASE OpenFile \/ Resolve \/ SocketFails \/ ConnectFails \/ Connect \/ NoAddressLeft
  <2>1. UNCHANGED <<kind, args, sent>> /\ step # "none"
        /\ (step' = "opened" => kind = "file")
    BY <1>4 DEF OpenFile, Resolve, SocketFails, ConnectFails, Connect, NoAddressLeft
  <2> QED
    BY <1>2, <2>1 DEF Faithful
<1>5. CASE RequestFails \/ RequestSent \/ Destroy
  <2>1. UNCHANGED <<kind, args, sent>> /\ step # "none"
        /\ (step' = "opened" => Len(sent) = Len(Request))
    BY <1>5 DEF RequestFails, RequestSent, Destroy
  <2> QED
    BY <1>2, <2>1 DEF Faithful
<1>6. CASE WriteLine \/ WriteFails
  <2> DEFINE n    == Len(sent)
             cut  == [NextLine EXCEPT !.whole = FALSE]
  <2>1. /\ UNCHANGED <<kind, args>> /\ step # "none" /\ step' # "opened"
        /\ n < Len(Request)
        /\ sent' \in {sent, Append(sent, NextLine), Append(sent, cut)}
    BY <1>6 DEF WriteLine, WriteFails
  <2>2. n \in Nat /\ Len(Request) \in Nat /\ NextLine \in Lines /\ sent \in Seq(Lines)
    BY <2>1, RequestIs, LenProperties, ElementOfSeq DEF Sent, NextLine
  <2>3. /\ cut \in Lines /\ NextLine = Request[n + 1]
        /\ cut.kind = NextLine.kind /\ cut.text = NextLine.text
    BY <2>2 DEF Lines, NextLine
  <2> HIDE DEF cut
  <2>4. ASSUME NEW l \in {NextLine, cut}, sent' = Append(sent, l)
        PROVE  /\ Len(sent') = n + 1
               /\ \A i \in 1 .. n + 1 :
                    sent'[i].kind = Request[i].kind /\ sent'[i].text = Request[i].text
    <3>1. l \in Lines /\ l.kind = Request[n + 1].kind /\ l.text = Request[n + 1].text
      BY <2>2, <2>3
    <3>2. /\ Len(sent') = n + 1 /\ sent'[n + 1] = l
          /\ \A i \in 1 .. n : sent'[i] = sent[i]
      BY <2>2, <2>4, <3>1, AppendProperties
    <3>3. \A i \in 1 .. n : sent[i].kind = Request[i].kind /\ sent[i].text = Request[i].text
      BY DEF Faithful
    <3> QED
      BY <2>2, <3>1, <3>2, <3>3
  <2>5. CASE sent' = sent
    BY <1>2, <2>1, <2>5 DEF Faithful
  <2>6. CASE sent' \in {Append(sent, NextLine), Append(sent, cut)}
    BY <1>2, <2>1, <2>2, <2>4, <2>6 DEF Faithful
  <2> QED
    BY <2>1, <2>5, <2>6
<1>7. CASE UNCHANGED sourceVars
  BY <1>2, <1>7 DEF sourceVars, Faithful
<1> QED
  BY <1>1, <1>3, <1>4, <1>5, <1>6, <1>7 DEF SourceStep, Opens

\* No source exists before its creation.
LEMMA InitSource == SourceInit => SourceInv
<1> SUFFICES ASSUME SourceInit PROVE SourceInv
  OBVIOUS
<1>1. Memory
  BY DEF SourceInit, Memory
<1>2. Descriptor
  BY DEF SourceInit, Descriptor
<1>3. Sent
  BY EmptySeq DEF SourceInit, Sent, LinesWhole
<1>4. Faithful
  BY EmptySeq DEF SourceInit, Faithful
<1> QED
  BY <1>1, <1>2, <1>3, <1>4 DEF SourceInv

\* The invariant of a source is inductive.
LEMMA StepSource == SourceInv /\ SourceStep => SourceInv'
BY MemoryStep, DescriptorStep, SentStep, FaithfulStep DEF SourceInv

-----------------------------------------------------------------------------
(* The credentials.                                                        *)

LEMMA RoundsIs ==
  ASSUME NEW n \in Nat
  PROVE  /\ Rounds(n) \in Nat
         /\ n % 3 = 0 => n = 3 * Rounds(n)
         /\ n % 3 = 1 => n = 3 * Rounds(n) - 2
         /\ n % 3 = 2 => n = 3 * Rounds(n) - 1
         /\ n % 3 \in 0 .. 2
         /\ n \in {3 * Rounds(n), 3 * Rounds(n) - 1, 3 * Rounds(n) - 2}
  BY SMT DEF Rounds

\* The text is the sextets of the rounds, up to where padding takes over.
LEMMA EncodeIs ==
  ASSUME NEW src \in Seq(Byte), NEW q \in 0 .. Rounds(Len(src)) - 1, NEW j \in 0 .. 3
  PROVE  Encode(src)[4 * q + j + 1] =
           IF 4 * q + j + 1 > Len(src) + Rounds(Len(src)) THEN Pad ELSE Sextet(src, 3 * q, j)
<1> DEFINE n == Len(src)
           i == 4 * q + j + 1
<1>1. n \in Nat /\ Rounds(n) \in Nat
  BY RoundsIs
<1>2. i \in 1 .. 4 * Rounds(n) /\ (i - 1) \div 4 = q /\ (i - 1) % 4 = j
  BY <1>1, SMT
<1>3. Encode(src)[i] = IF j > Valid(n, 3 * q) THEN Pad ELSE Sextet(src, 3 * q, j)
  BY <1>2 DEF Encode
<1> HIDE DEF n
<1>4. q \in 0 .. Rounds(n) - 1
  BY DEF n
<1>5. j > Valid(n, 3 * q) <=> i > n + Rounds(n)
  <2> DEFINE r == Rounds(n)
  <2>1. r \in Nat /\ q \in 0 .. r - 1 /\ n \in {3 * r, 3 * r - 1, 3 * r - 2}
    BY <1>1, <1>4, RoundsIs
  <2> HIDE DEF r
  <2>2. Valid(n, 3 * q) = IF q < r - 1 THEN 3 ELSE n - 3 * (r - 1)
    BY <1>1, <2>1 DEF Valid
  <2>3. j > Valid(n, 3 * q) <=> i > n + r
    BY <1>1, <2>1, <2>2, SMT
  <2> QED
    BY <2>3 DEF r
<1> QED
  BY <1>3, <1>5 DEF n

LEMMA AtIsByte ==
  ASSUME NEW src \in Seq(Byte), NEW i \in Nat
  PROVE  At(src, i) \in Byte
<1>1. CASE i < Len(src)
  BY <1>1, ElementOfSeq DEF At
<1>2. CASE ~(i < Len(src))
  BY <1>2 DEF At, Byte
<1> QED
  BY <1>1, <1>2

LEMMA SextetIs ==
  ASSUME NEW src \in Seq(Byte), NEW c \in Nat
  PROVE  /\ \A j \in 0 .. 3 : Sextet(src, c, j) \in 0 .. 63
         /\ At(src, c) = ((Sextet(src, c, 0) * 64 + Sextet(src, c, 1)) \div 16) % 256
         /\ At(src, c + 1) = ((Sextet(src, c, 1) * 64 + Sextet(src, c, 2)) \div 4) % 256
         /\ At(src, c + 2) = (Sextet(src, c, 2) * 64 + Sextet(src, c, 3)) % 256
<1> DEFINE b0 == At(src, c)
           b1 == At(src, c + 1)
           b2 == At(src, c + 2)
           s0 == Sextet(src, c, 0)
           s1 == Sextet(src, c, 1)
           s2 == Sextet(src, c, 2)
           s3 == Sextet(src, c, 3)
<1>1. b0 \in 0 .. 255 /\ b1 \in 0 .. 255 /\ b2 \in 0 .. 255
  BY AtIsByte DEF Byte
<1>2. s0 = b0 \div 4 /\ s1 = (b0 % 4) * 16 + b1 \div 16
  BY DEF Sextet
<1>3. s2 = (b1 % 16) * 4 + b2 \div 64 /\ s3 = b2 % 64
  BY DEF Sextet
<1>4. \A j \in 0 .. 3 : Sextet(src, c, j) \in {s0, s1, s2, s3}
  OBVIOUS
<1> HIDE DEF b0, b1, b2, s0, s1, s2, s3
<1>5. s0 \in 0 .. 63 /\ s1 \in 0 .. 63 /\ s2 \in 0 .. 63 /\ s3 \in 0 .. 63
  BY <1>1, <1>2, <1>3, SMT
<1>6. b0 = ((s0 * 64 + s1) \div 16) % 256
  BY <1>1, <1>2, SMT
<1>7. b1 = ((s1 * 64 + s2) \div 4) % 256
  BY <1>1, <1>2, <1>3, SMT
<1>8. b2 = (s2 * 64 + s3) % 256
  BY <1>1, <1>3, SMT
<1>9. \A j \in 0 .. 3 : Sextet(src, c, j) \in 0 .. 63
  BY <1>4, <1>5
<1> QED
  BY <1>6, <1>7, <1>8, <1>9 DEF b0, b1, b2, s0, s1, s2, s3

\* What is in the text where the bytes q * 3 .. q * 3 + 2 went.
LEMMA TextIs ==
  ASSUME NEW src \in Seq(Byte), NEW q \in Nat, 3 * q < Len(src), NEW j \in 0 .. 3,
         4 * q + j + 1 <= Len(src) + Rounds(Len(src))
  PROVE  /\ Encode(src)[4 * q + j + 1] = Sextet(src, 3 * q, j)
         /\ Encode(src)[4 * q + j + 1] # Pad
<1> DEFINE n == Len(src)
           r == Rounds(n)
           s == Sextet(src, 3 * q, j)
           text == Encode(src)
<1>1. n \in Nat
  OBVIOUS
<1> HIDE DEF n
<1>2. r \in Nat /\ n \in {3 * r, 3 * r - 1, 3 * r - 2}
  BY <1>1, RoundsIs
<1>3. q \in 0 .. r - 1
  <2> HIDE DEF r
  <2>1. 3 * q < n
    BY DEF n
  <2> QED
    BY <1>1, <1>2, <2>1, SMT
<1>4. s \in 0 .. 63
  <2>1. 3 * q \in Nat
    OBVIOUS
  <2> QED
    BY <2>1, SextetIs
<1>5. text[4 * q + j + 1] = IF 4 * q + j + 1 > n + r THEN Pad ELSE s
  BY <1>3, EncodeIs DEF n
<1>6. 4 * q + j + 1 <= n + r
  BY DEF n
<1> HIDE DEF r, s, text
<1>7. ~(4 * q + j + 1 > n + r)
  BY <1>1, <1>2, <1>6
<1>8. text[4 * q + j + 1] = s
  BY <1>5, <1>7
<1>9. s # Pad
  BY <1>4 DEF Pad
<1> QED
  BY <1>8, <1>9 DEF s, text

\* The characters of the text that are not padding.
LEMMA TextCounts ==
  ASSUME NEW src \in Seq(Byte)
  PROVE  Cardinality({i \in DOMAIN Encode(src) : Encode(src)[i] # Pad}) = Len(src) + Rounds(Len(src))
<1> DEFINE n == Len(src)
           r == Rounds(n)
           text == Encode(src)
<1>1. n \in Nat
  OBVIOUS
<1>2. DOMAIN text = 1 .. 4 * r
  BY DEF Encode
<1> HIDE DEF n
<1>3. r \in Nat /\ n \in {3 * r, 3 * r - 1, 3 * r - 2}
  BY <1>1, RoundsIs
<1>4. ASSUME NEW i \in 1 .. 4 * r
      PROVE  text[i] # Pad <=> i <= n + r
  <2> DEFINE q == (i - 1) \div 4
             j == (i - 1) % 4
             s == Sextet(src, 3 * q, j)
  <2> HIDE DEF r
  <2>1. q \in 0 .. r - 1 /\ j \in 0 .. 3 /\ i = 4 * q + j + 1 /\ 3 * q \in Nat
    BY <1>3, SMT
  <2> HIDE DEF q, j
  <2>2. s \in 0 .. 63
    BY <2>1, SextetIs
  <2>3. text[4 * q + j + 1] = IF 4 * q + j + 1 > n + r THEN Pad ELSE s
    BY <2>1, EncodeIs DEF n, r
  <2> HIDE DEF text, s
  <2>4. text[i] = IF i > n + r THEN Pad ELSE s
    BY <2>1, <2>3
  <2>5. s # Pad
    BY <2>2 DEF Pad
  <2>6. i > n + r <=> ~(i <= n + r)
    BY <1>1, <1>3
  <2> QED
    BY <2>4, <2>5, <2>6
<1> HIDE DEF r, text
<1>5. n + r <= 4 * r /\ n + r \in Nat
  BY <1>1, <1>3
<1>6. \A i : i \in 1 .. 4 * r /\ i <= n + r <=> i \in 1 .. n + r
  BY <1>1, <1>3, <1>5
<1>7. {i \in DOMAIN text : text[i] # Pad} = 1 .. n + r
  BY <1>2, <1>4, <1>6, Zenon
<1>8. Cardinality(1 .. n + r) = n + r
  BY <1>5, FS_Interval
<1> QED
  BY <1>7, <1>8 DEF n, r, text

\* The receiver of the text base64_encode() makes gets back what was encoded,
\* whatever the bytes and however many.
THEOREM DecodesEncoded ==
  ASSUME NEW src \in Seq(Byte)
  PROVE  Decode(Encode(src)) = src
<1> DEFINE n == Len(src)
           r == Rounds(n)
           text == Encode(src)
           Bits(i) == IF text[i + 1] = Pad THEN 0 ELSE text[i + 1]
           Place(k) == (8 * (k - 1)) \div 6
           Shift(k) == 2 ^ (4 - ((8 * (k - 1)) % 6))
           Decoded(k) == ((Bits(Place(k)) * 64 + Bits(Place(k) + 1)) \div Shift(k)) % 256
<1>1. n \in Nat
  OBVIOUS
<1>2. ASSUME NEW q \in Nat, 3 * q < n, NEW j \in 0 .. 3, 4 * q + j + 1 <= n + r
      PROVE  Bits(4 * q + j) = Sextet(src, 3 * q, j)
  BY <1>2, TextIs
<1>11. src = [k \in 1 .. n |-> src[k]]
  OBVIOUS
<1>3. ASSUME NEW i \in 0 .. n - 1
      PROVE  At(src, i) = src[i + 1]
  BY DEF At
<1>4. (3 * Cardinality({i \in DOMAIN text : text[i] # Pad})) \div 4 = (3 * (n + r)) \div 4
  BY TextCounts, Zenon
<1>5. Decode(text) = [k \in 1 .. (3 * (n + r)) \div 4 |-> Decoded(k)]
  BY <1>4 DEF Decode
<1> HIDE DEF n, Bits
<1>6. r \in Nat /\ n \in {3 * r, 3 * r - 1, 3 * r - 2}
  BY <1>1, RoundsIs
<1> HIDE DEF r
<1>7. (3 * (n + r)) \div 4 = n
  <2>1. CASE n = 3 * r
    BY <1>6, <2>1, SMT
  <2>2. CASE n = 3 * r - 1
    BY <1>6, <2>2, SMT
  <2>3. CASE n = 3 * r - 2
    BY <1>6, <2>3, SMT
  <2> QED
    BY <1>6, <2>1, <2>2, <2>3
<1>8. ASSUME NEW k \in 1 .. n
      PROVE  Decoded(k) = src[k]
  <2> DEFINE q == (k - 1) \div 3
  <2>1. q \in Nat /\ k \in {3 * q + 1, 3 * q + 2, 3 * q + 3} /\ 3 * q < n
    BY <1>1, SMT
  <2> HIDE DEF q
  <2>2. 4 * q + 1 <= n + r /\ 4 * q + 2 <= n + r
    BY <1>1, <1>6, <2>1, SMT
  <2> DEFINE s0 == Sextet(src, 3 * q, 0)
             s1 == Sextet(src, 3 * q, 1)
             s2 == Sextet(src, 3 * q, 2)
             s3 == Sextet(src, 3 * q, 3)
  <2>3. /\ At(src, 3 * q) = ((s0 * 64 + s1) \div 16) % 256
        /\ At(src, 3 * q + 1) = ((s1 * 64 + s2) \div 4) % 256
        /\ At(src, 3 * q + 2) = (s2 * 64 + s3) % 256
    BY <2>1, SextetIs
  <2>4. s2 \in 0 .. 63 /\ s3 \in 0 .. 63
    BY <2>1, SextetIs
  <2>5. Bits(4 * q + 1) = s1
    BY <1>2, <2>1, <2>2
  <2> HIDE DEF s0, s1, s2, s3
  <2>6. CASE k = 3 * q + 1
    <3>1. Place(k) = 4 * q /\ (8 * (k - 1)) % 6 = 0
      BY <2>1, <2>6, SMT
    <3>2. Shift(k) = 16
      <4>1. 2 ^ (4 - 0) = 16
        BY SMT
      <4> QED
        BY <3>1, <4>1
    <3>3. Bits(4 * q + 0) = s0
      BY <1>2, <2>1, <2>2 DEF s0
    <3>4. Bits(4 * q) = s0
      BY <2>1, <3>3
    <3>5. At(src, 3 * q) = src[k]
      BY <1>1, <1>3, <2>1, <2>6
    <3> HIDE DEF Place, Shift
    <3> QED
      BY <2>3, <2>5, <3>1, <3>2, <3>4, <3>5
  <2>7. CASE k = 3 * q + 2
    <3>1. Place(k) = 4 * q + 1 /\ (8 * (k - 1)) % 6 = 2
      BY <2>1, <2>7, SMT
    <3>2. Shift(k) = 4
      <4>1. 2 ^ (4 - 2) = 4
        BY SMT
      <4> QED
        BY <3>1, <4>1
    <3>3. 4 * q + 2 + 1 <= n + r
      BY <1>1, <1>6, <2>1, <2>7, SMT
    <3>4. Bits(4 * q + 2) = s2
      BY <1>2, <2>1, <3>3 DEF s2
    <3>5. Bits(4 * q + 1 + 1) = s2
      BY <2>1, <3>4
    <3>6. At(src, 3 * q + 1) = src[k]
      BY <1>1, <1>3, <2>1, <2>7
    <3> HIDE DEF Place, Shift
    <3> QED
      BY <2>3, <2>5, <3>1, <3>2, <3>5, <3>6
  <2>8. CASE k = 3 * q + 3
    <3>1. Place(k) = 4 * q + 2 /\ (8 * (k - 1)) % 6 = 4
      BY <2>1, <2>8, SMT
    <3>2. Shift(k) = 1
      <4>1. 2 ^ (4 - 4) = 1
        BY SMT
      <4> QED
        BY <3>1, <4>1
    <3>3. 4 * q + 2 + 1 <= n + r /\ 4 * q + 3 + 1 <= n + r
      BY <1>1, <1>6, <2>1, <2>8, SMT
    <3>4. Bits(4 * q + 2) = s2
      BY <1>2, <2>1, <3>3 DEF s2
    <3>5. Bits(4 * q + 3) = s3
      BY <1>2, <2>1, <3>3 DEF s3
    <3>6. Bits(4 * q + 2 + 1) = s3
      BY <2>1, <3>5
    <3>7. At(src, 3 * q + 2) = src[k]
      BY <1>1, <1>3, <2>1, <2>8
    <3>8. (s2 * 64 + s3) \div 1 = s2 * 64 + s3
      BY <2>4
    <3> HIDE DEF Place, Shift
    <3> QED
      BY <2>3, <3>1, <3>2, <3>4, <3>6, <3>7, <3>8
  <2> QED
    BY <2>1, <2>6, <2>7, <2>8
<1> HIDE DEF Decoded
<1>9. Decode(text) = [k \in 1 .. n |-> Decoded(k)]
  BY <1>5, <1>7
<1>10. Decode(text) = [k \in 1 .. n |-> src[k]]
  BY <1>8, <1>9
<1> QED
  BY <1>10, <1>11

\* What a source encodes are bytes.
LEMMA CredentialsAre ==
  ASSUME args \in NetworkArgs, NULL \notin {args.user, args.pass}
  PROVE  Credentials \in Seq(Byte)
<1>1. args.user \in BoundedSeq(Bytes, MaxLen) /\ args.pass \in BoundedSeq(Bytes, MaxLen)
  BY DEF NetworkArgs
<1>2. BoundedSeq(Bytes, MaxLen) \subseteq Seq(Byte)
  BY SourceAssumption DEF BoundedSeq, SeqOf
<1>3. <<58>> \in Seq(Byte)
  BY DEF Byte
<1> QED
  BY <1>1, <1>2, <1>3, ConcatProperties DEF Credentials

\* write_auth_string() makes room for the encoded credentials, except when their
\* number leaves 1 when divided by 3: then the zero at the end does not fit.
THEOREM RoomForCredentials ==
  ASSUME NEW n \in Nat
  PROVE  Written(n) <= Room(n) <=> n % 3 # 1
<1> DEFINE k == n \div 3
           r == n % 3
<1>1. n = 3 * k + r
  OBVIOUS
<1>2. k \in Nat /\ r \in 0 .. 2
  OBVIOUS
<1> HIDE DEF k
<1>3. CASE r = 0
  <2>1. (n + 2) \div 3 = k /\ (n * 4) \div 3 = 4 * k
    BY <1>1, <1>2, <1>3
  <2> QED
    BY <1>2, <1>3, <2>1 DEF Written, Room, Rounds
<1>4. CASE r = 1
  <2>1. (n + 2) \div 3 = k + 1 /\ (n * 4) \div 3 = 4 * k + 1
    BY <1>1, <1>2, <1>4
  <2> QED
    BY <1>2, <1>4, <2>1 DEF Written, Room, Rounds
<1>5. CASE r = 2
  <2>1. (n + 2) \div 3 = k + 1 /\ (n * 4) \div 3 = 4 * k + 2
    BY <1>1, <1>2, <1>5
  <2> QED
    BY <1>2, <1>5, <2>1 DEF Written, Room, Rounds
<1> QED
  BY <1>2, <1>3, <1>4, <1>5

-----------------------------------------------------------------------------
(* The program.                                                            *)

HandlerPcs == {"check", "write", "close", "reset"}

Types ==
  /\ pc \in Pcs
  /\ read_fd \in FdValues /\ write_fd \in FdValues /\ pipe \in Pipes
  /\ stdin \in BOOLEAN /\ handler \in BOOLEAN /\ killed \in BOOLEAN
  /\ objects \subseteq {"grabber", "framerate"}
  /\ stack \in Seq(HandlerPcs)

\* Where the source is, by where main() is.
Order ==
  /\ pc = "process_cmdline" => step = "none"
  /\ pc = "create_source" => step \in {"create", "created", "not_created"}
  /\ pc \in {"create_grabber", "create_framerate"} => step = "created"
  /\ pc = "open" => step \in {"created", "connect", "request", "opened", "not_opened"}
  /\ pc \in {"selfpipe_pair", "sig_setup", "select", "read", "parse"} => step = "opened"
  /\ pc \in {"exit", "close_read", "destroy_grabber", "check_write", "close_write",
             "forget_write", "destroy_source"} =>
       step \in {"none", "not_created", "created", "opened", "not_opened"}
  /\ pc = "end" => step \in {"none", "not_created", "destroyed"}

\* What main() has made and not freed yet.
Objects ==
  /\ pc \in {"create_framerate", "open", "selfpipe_pair"} => "grabber" \in objects
  /\ pc \in {"close_read", "destroy_grabber"} => objects \subseteq {"grabber"}
  /\ pc \in {"check_write", "close_write", "forget_write", "destroy_source", "end"} => objects = {}

\* The read end is that of the grabber, and closed with it.
Reads ==
  /\ read_fd = "end" <=> pipe.read
  /\ pipe.read => /\ "grabber" \in objects
                  /\ pc \in {"sig_setup", "select", "read", "parse", "exit", "close_read"}

\* Before there is a pipe.
Before == {"process_cmdline", "create_source", "create_grabber", "create_framerate", "open",
           "selfpipe_pair"}

\* The write end has its number in write_fd, which may be late in giving it up:
\* in main() or in a handler, between close() and the next statement.
Ends ==
  /\ pipe.write => write_fd = "end"
  /\ write_fd = "end" /\ ~pipe.write =>
       pc = "forget_write" \/ \E i \in 1 .. Len(stack) : stack[i] = "reset"
  /\ \A i \in 1 .. Len(stack) : stack[i] = "reset" => ~pipe.write
  /\ pc \in Before \cup {"forget_write", "destroy_source", "end"} => ~pipe.write

IInv == SourceInv /\ Types /\ Order /\ Objects /\ Reads /\ Ends

-----------------------------------------------------------------------------
LEMMA InitIInv == Init => IInv
<1> SUFFICES ASSUME Init PROVE IInv
  OBVIOUS
<1>1. SourceInv
  BY InitSource DEF Init
<1>2. Types
  BY EmptySeq DEF Init, Types, Pcs, FdValues, Pipes, NoPipe
<1>3. Order /\ Objects /\ Reads /\ Ends
  BY DEF Init, SourceInit, Order, Objects, Reads, Ends, Before, NoPipe
<1> QED
  BY <1>1, <1>2, <1>3 DEF IInv

\* What the program does to its source is a step of the source's life.
LEMMA StepsOfSource ==
  ASSUME [Next]_vars
  PROVE  SourceStep
<1>1. CASE ProcessCmdline
  BY <1>1 DEF ProcessCmdline, SourceStep, FileArgs
<1>2. CASE CreateSource \/ Open
  BY <1>2 DEF CreateSource, Open, SourceStep
<1>3. CASE DestroySource
  BY <1>3 DEF DestroySource, SourceStep
<1>4. CASE CreateGrabber \/ CreateFramerate \/ BrokenPipe \/ SelfpipePair \/ SigSetup
           \/ Select \/ Read \/ Parse
  BY <1>4
  DEF CreateGrabber, CreateFramerate, BrokenPipe, SelfpipePair, SigSetup, Select, Read, Parse,
      SourceStep
<1>5. CASE Exit \/ CloseRead \/ DestroyGrabber \/ CheckWrite \/ CloseWrite \/ ForgetWrite
  BY <1>5 DEF Exit, CloseRead, DestroyGrabber, CheckWrite, CloseWrite, ForgetWrite, SourceStep
<1>6. CASE Handler \/ Signal \/ UNCHANGED vars
  BY <1>6
  DEF Handler, HandlerCheck, HandlerWrite, HandlerClose, HandlerReset, Signal, vars, SourceStep
<1> QED
  BY <1>1, <1>2, <1>3, <1>4, <1>5, <1>6 DEF Next, Main

-----------------------------------------------------------------------------
(* The steps of main().                                                    *)

LEMMA MainTypes ==
  ASSUME IInv, Main
  PROVE  Types'
<1> USE DEF IInv, Types, Pcs, FdValues, Pipes, Goes, fds
<1>1. CASE ProcessCmdline \/ CreateSource \/ CreateGrabber \/ CreateFramerate
  BY <1>1 DEF ProcessCmdline, CreateSource, CreateGrabber, CreateFramerate
<1>2. CASE Open \/ BrokenPipe \/ SelfpipePair \/ SigSetup
  <2>1. CASE SelfpipePair
    <3>1. Pair \in [read : BOOLEAN, write : BOOLEAN, byte : BOOLEAN]
      BY DEF Pair
    <3>2. pc' \in Pcs /\ read_fd' \in FdValues /\ write_fd' \in FdValues /\ pipe' \in {pipe, Pair}
      BY <2>1 DEF SelfpipePair
    <3>3. UNCHANGED <<objects, stdin, handler, stack, killed>>
      BY <2>1 DEF SelfpipePair
    <3> QED
      BY <3>1, <3>2, <3>3
  <2>2. CASE Open \/ BrokenPipe \/ SigSetup
    BY <2>2 DEF Open, BrokenPipe, SigSetup
  <2> QED
    BY <1>2, <2>1, <2>2
<1>3. CASE Select \/ Read \/ Parse
  BY <1>3 DEF Select, Read, Parse
<1>4. CASE Exit
  BY <1>4 DEF Exit
<1>5. CASE CloseRead
  BY <1>5 DEF CloseRead, ReadEndClosed
<1>6. CASE DestroyGrabber \/ CheckWrite
  BY <1>6 DEF DestroyGrabber, CheckWrite
<1>7. CASE CloseWrite
  BY <1>7 DEF CloseWrite, WriteEndClosed
<1>8. CASE ForgetWrite \/ DestroySource
  BY <1>8 DEF ForgetWrite, DestroySource
<1> QED
  BY <1>1, <1>2, <1>3, <1>4, <1>5, <1>6, <1>7, <1>8 DEF Main

\* main() creates, opens and destroys the source in this order, whatever fails.
LEMMA MainOrder ==
  ASSUME IInv, Main
  PROVE  Order'
<1> USE DEF IInv, Order, Goes, sourceVars
<1>1. CASE ProcessCmdline
  BY <1>1 DEF ProcessCmdline, Create
<1>2. CASE CreateSource
  BY <1>2 DEF CreateSource, Creates, CopyString, CopyFails, Created
<1>3. CASE CreateGrabber \/ CreateFramerate
  BY <1>3 DEF CreateGrabber, CreateFramerate
<1>4. CASE Open
  <2>1. CASE Opens /\ UNCHANGED pc
    BY <1>4, <2>1
    DEF Open, Opens, OpenFile, Resolve, SocketFails, ConnectFails, Connect, NoAddressLeft,
        RequestFails, WriteLine, WriteFails, RequestSent
  <2>2. CASE ~(Opens /\ UNCHANGED pc)
    BY <1>4, <2>2 DEF Open
  <2> QED
    BY <2>1, <2>2
<1>5. CASE BrokenPipe \/ SelfpipePair \/ SigSetup \/ Select \/ Read \/ Parse
  BY <1>5 DEF BrokenPipe, SelfpipePair, SigSetup, Select, Read, Parse
<1>6. CASE Exit \/ CloseRead \/ DestroyGrabber
  BY <1>6 DEF Exit, CloseRead, DestroyGrabber
<1>7. CASE CheckWrite \/ CloseWrite \/ ForgetWrite
  BY <1>7 DEF CheckWrite, CloseWrite, ForgetWrite
<1>8. CASE DestroySource
  BY <1>8 DEF DestroySource, Destroy
<1> QED
  BY <1>1, <1>2, <1>3, <1>4, <1>5, <1>6, <1>7, <1>8 DEF Main

\* Whatever objects there are at the exit are freed before the end.
LEMMA MainObjects ==
  ASSUME IInv, Main
  PROVE  Objects'
<1> USE DEF IInv, Types, Objects, Goes
<1>1. CASE ProcessCmdline \/ CreateSource \/ CreateGrabber \/ CreateFramerate
  BY <1>1 DEF ProcessCmdline, CreateSource, CreateGrabber, CreateFramerate
<1>2. CASE Open \/ BrokenPipe \/ SelfpipePair \/ SigSetup \/ Select \/ Read \/ Parse
  BY <1>2 DEF Open, BrokenPipe, SelfpipePair, SigSetup, Select, Read, Parse
<1>3. CASE Exit
  BY <1>3 DEF Exit
<1>4. CASE CloseRead \/ DestroyGrabber \/ CheckWrite
  BY <1>4 DEF CloseRead, DestroyGrabber, CheckWrite
<1>5. CASE CloseWrite \/ ForgetWrite \/ DestroySource
  BY <1>5 DEF CloseWrite, ForgetWrite, DestroySource
<1> QED
  BY <1>1, <1>2, <1>3, <1>4, <1>5 DEF Main

\* Between selfpipe_pair() and the close() behind the exit the read end is open.
LEMMA MainReads ==
  ASSUME IInv, Main
  PROVE  Reads'
<1> USE DEF IInv, Types, Pipes, Reads, Goes, fds
<1>1. CASE ProcessCmdline \/ CreateSource \/ CreateGrabber \/ CreateFramerate
  BY <1>1 DEF ProcessCmdline, CreateSource, CreateGrabber, CreateFramerate
<1>2. CASE Open \/ BrokenPipe \/ SigSetup \/ Select \/ Read \/ Parse
  BY <1>2 DEF Open, BrokenPipe, SigSetup, Select, Read, Parse
<1>3. CASE SelfpipePair
  BY <1>3 DEF SelfpipePair, Pair, Objects
<1>4. CASE Exit
  BY <1>4 DEF Exit
<1>5. CASE CloseRead
  BY <1>5 DEF CloseRead, ReadEndClosed
<1>6. CASE DestroyGrabber \/ CheckWrite \/ ForgetWrite \/ DestroySource
  BY <1>6 DEF DestroyGrabber, CheckWrite, ForgetWrite, DestroySource
<1>7. CASE CloseWrite
  BY <1>7 DEF CloseWrite, WriteEndClosed
<1> QED
  BY <1>1, <1>2, <1>3, <1>4, <1>5, <1>6, <1>7 DEF Main

\* main() moves while no handler does.
LEMMA MainEnds ==
  ASSUME IInv, stack = <<>>, Main
  PROVE  Ends'
<1>0. stack' = <<>> /\ Len(stack) = 0
  BY EmptySeq
  DEF Main, ProcessCmdline, CreateSource, CreateGrabber, CreateFramerate, Open, BrokenPipe,
      SelfpipePair, SigSetup, Select, Read, Parse, Exit, CloseRead, DestroyGrabber, CheckWrite,
      CloseWrite, ForgetWrite, DestroySource
<1> USE <1>0 DEF IInv, Types, Pipes, FdValues, Ends, Before, Goes, fds
<1>1. CASE ProcessCmdline \/ CreateSource \/ CreateGrabber \/ CreateFramerate
  BY <1>1 DEF ProcessCmdline, CreateSource, CreateGrabber, CreateFramerate
<1>2. CASE Open \/ BrokenPipe \/ SigSetup \/ Select \/ Read \/ Parse
  BY <1>2 DEF Open, BrokenPipe, SigSetup, Select, Read, Parse
<1>3. CASE SelfpipePair
  BY <1>3 DEF SelfpipePair, Pair
<1>4. CASE Exit
  BY <1>4 DEF Exit
<1>5. CASE CloseRead
  BY <1>5 DEF CloseRead, ReadEndClosed
<1>6. CASE DestroyGrabber \/ CheckWrite \/ ForgetWrite \/ DestroySource
  BY <1>6 DEF DestroyGrabber, CheckWrite, ForgetWrite, DestroySource
<1>7. CASE CloseWrite
  BY <1>7 DEF CloseWrite, WriteEndClosed
<1> QED
  BY <1>1, <1>2, <1>3, <1>4, <1>5, <1>6, <1>7 DEF Main

-----------------------------------------------------------------------------
(* The steps of the handlers. Nothing of what they touch belongs to main() *)
(* alone: they move the stack, the write end and write_fd.                 *)

\* The stack, where the running handler goes on, returns, or is interrupted.
LEMMA StackSteps ==
  ASSUME stack \in Seq(HandlerPcs)
  PROVE  /\ stack # <<>> => Len(stack) \in Nat \ {0}
         /\ Len(stack) \in Nat
         /\ \A to \in HandlerPcs : stack # <<>> =>
              LET went == [stack EXCEPT ![Len(stack)] = to]
              IN  /\ went \in Seq(HandlerPcs) /\ Len(went) = Len(stack)
                  /\ went[Len(stack)] = to
                  /\ \A i \in 1 .. Len(stack) - 1 : went[i] = stack[i]
         /\ stack # <<>> =>
              LET returned == SubSeq(stack, 1, Len(stack) - 1)
              IN  /\ returned \in Seq(HandlerPcs) /\ Len(returned) = Len(stack) - 1
                  /\ \A i \in 1 .. Len(stack) - 1 : returned[i] = stack[i]
         /\ LET interrupted == Append(stack, "check")
            IN  /\ interrupted \in Seq(HandlerPcs) /\ Len(interrupted) = Len(stack) + 1
                /\ interrupted[Len(stack) + 1] = "check"
                /\ \A i \in 1 .. Len(stack) : interrupted[i] = stack[i]
<1>1. Len(stack) \in Nat /\ (stack # <<>> => Len(stack) \in Nat \ {0})
  BY LenProperties, EmptySeq
<1>2. ASSUME stack # <<>>, NEW to \in HandlerPcs
      PROVE  LET went == [stack EXCEPT ![Len(stack)] = to]
             IN  /\ went \in Seq(HandlerPcs) /\ Len(went) = Len(stack)
                 /\ went[Len(stack)] = to
                 /\ \A i \in 1 .. Len(stack) - 1 : went[i] = stack[i]
  <2>1. Len(stack) \in 1 .. Len(stack)
    BY <1>1, <1>2
  <2> QED
    BY <1>1, <2>1, ExceptSeq
<1>3. ASSUME stack # <<>>
      PROVE  LET returned == SubSeq(stack, 1, Len(stack) - 1)
             IN  /\ returned \in Seq(HandlerPcs) /\ Len(returned) = Len(stack) - 1
                 /\ \A i \in 1 .. Len(stack) - 1 : returned[i] = stack[i]
  <2>1. \A i \in 1 .. Len(stack) - 1 : stack[i] \in HandlerPcs
    BY <1>1, ElementOfSeq
  <2> DEFINE n == Len(stack) - 1
  <2>2. n \in Nat /\ n - 1 + 1 = n
    BY <1>1, <1>3
  <2> HIDE DEF n
  <2>3. /\ SubSeq(stack, 1, n) \in Seq(HandlerPcs)
        /\ Len(SubSeq(stack, 1, n)) = IF 1 <= n THEN n - 1 + 1 ELSE 0
        /\ \A i \in 1 .. n - 1 + 1 : SubSeq(stack, 1, n)[i] = stack[1 + i - 1]
    BY <2>1, <2>2, SubSeqProperties DEF n
  <2>4. \A i \in 1 .. n : stack[1 + i - 1] = stack[i]
    BY <2>2
  <2> QED
    BY <2>2, <2>3, <2>4 DEF n
<1>4. LET interrupted == Append(stack, "check")
      IN  /\ interrupted \in Seq(HandlerPcs) /\ Len(interrupted) = Len(stack) + 1
          /\ interrupted[Len(stack) + 1] = "check"
          /\ \A i \in 1 .. Len(stack) : interrupted[i] = stack[i]
  BY AppendProperties DEF HandlerPcs
<1> QED
  BY <1>1, <1>2, <1>3, <1>4

\* A signal, or a step of its handler, leaves main() and the read end alone.
LEMMA HandlerKeeps ==
  ASSUME IInv, Handler \/ Signal
  PROVE  Types' /\ Order' /\ Objects' /\ Reads'
<1>1. UNCHANGED <<sourceVars, pc, objects, read_fd, stdin, handler>>
  BY DEF Handler, HandlerCheck, HandlerWrite, HandlerClose, HandlerReset, Signal, fds
<1>2. write_fd' \in FdValues
  BY DEF IInv, Types, FdValues, Handler, HandlerCheck, HandlerWrite, HandlerClose, HandlerReset,
         Signal, fds
<1>3. pipe' \in Pipes /\ pipe'.read = pipe.read
  BY DEF IInv, Types, Pipes, Handler, HandlerCheck, HandlerWrite, HandlerClose, HandlerReset,
         Signal, fds, ByteWritten, WriteEndClosed
<1>4. killed' \in BOOLEAN
  BY DEF IInv, Types, Pipes, Handler, HandlerCheck, HandlerWrite, HandlerClose, HandlerReset,
         Signal, WriteBreaks
<1>5. stack' \in Seq(HandlerPcs)
  <2>1. stack \in Seq(HandlerPcs)
    BY DEF IInv, Types
  <2>2. {"check", "write", "close", "reset"} \subseteq HandlerPcs
    BY DEF HandlerPcs
  <2> QED
    BY <2>1, <2>2, StackSteps
    DEF Handler, HandlerCheck, HandlerWrite, HandlerClose, HandlerReset, Signal, HandlerAt,
        HandlerGoes, HandlerReturns
<1>6. Types'
  BY <1>1, <1>2, <1>3, <1>4, <1>5 DEF IInv, Types
<1>7. Order' /\ Objects'
  BY <1>1 DEF IInv, Order, Objects, sourceVars
<1>8. Reads'
  BY <1>1, <1>3 DEF IInv, Reads
<1> QED
  BY <1>6, <1>7, <1>8

\* A handler closes the write end and then gives up its number; the handler it
\* has interrupted, or main(), finds that done.
LEMMA HandlerEnds ==
  ASSUME IInv, Handler \/ Signal
  PROVE  Ends'
<1>0. stack \in Seq(HandlerPcs) /\ {"check", "write", "close", "reset"} \subseteq HandlerPcs
  BY DEF IInv, Types, HandlerPcs
<1> USE <1>0, StackSteps DEF IInv, Ends, HandlerAt, HandlerGoes, HandlerReturns
<1>1. CASE HandlerCheck
  BY <1>1 DEF HandlerCheck, fds
<1>2. CASE HandlerWrite
  BY <1>2 DEF HandlerWrite, ByteWritten, Types, Pipes
<1>3. CASE HandlerClose
  BY <1>3 DEF HandlerClose, WriteEndClosed, Types, Pipes
<1>4. CASE HandlerReset
  BY <1>4 DEF HandlerReset
<1>5. CASE Signal
  BY <1>5 DEF Signal, fds
<1> QED
  BY <1>1, <1>2, <1>3, <1>4, <1>5 DEF Handler

-----------------------------------------------------------------------------
(* The invariant, and what follows from it.                                *)

\* IInv is inductive, whatever step comes next.
LEMMA StepIInv == IInv /\ [Next]_vars => IInv'
<1> SUFFICES ASSUME IInv, [Next]_vars PROVE IInv'
  OBVIOUS
<1>1. SourceInv'
  BY StepsOfSource, StepSource DEF IInv
<1>2. CASE stack = <<>> /\ Main
  BY <1>1, <1>2, MainTypes, MainOrder, MainObjects, MainReads, MainEnds DEF IInv
<1>3. CASE Handler \/ Signal
  BY <1>1, <1>3, HandlerKeeps, HandlerEnds DEF IInv
<1>4. CASE UNCHANGED vars
  <2>1. UNCHANGED <<pc, step, objects, read_fd, write_fd, pipe, stdin, handler, stack, killed>>
    BY <1>4 DEF vars, sourceVars
  <2>2. Types' /\ Order' /\ Objects'
    BY <2>1 DEF IInv, Types, Order, Objects
  <2>3. Reads' /\ Ends'
    BY <2>1 DEF IInv, Reads, Ends
  <2> QED
    BY <1>1, <2>2, <2>3 DEF IInv
<1> QED
  BY <1>2, <1>3, <1>4 DEF Next

LEMMA Invariance == Spec => []IInv
BY InitIInv, StepIInv, PTL DEF Spec

\* A descriptor variable names an end of the pipe exactly while it is open, but
\* for the gap behind a close(), however the handlers interrupt main() and each
\* other.
THEOREM DescriptorsCorrect == Spec => []DescriptorsTrackPipe
<1>1. IInv => DescriptorsTrackPipe
  <2> SUFFICES ASSUME IInv PROVE DescriptorsTrackPipe
    OBVIOUS
  <2>1. DOMAIN stack = 1 .. Len(stack)
    BY LenProperties DEF IInv, Types
  <2>2. {stdin, handler, killed} \subseteq BOOLEAN
    BY DEF IInv, Types
  <2> QED
    BY <2>1, <2>2 DEF IInv, Types, Reads, Ends, DescriptorsTrackPipe
<1> QED
  BY <1>1, Invariance, PTL

\* On every way out of main() both ends of the pipe have been closed.
THEOREM PipeClosed == Spec => []NoDescriptorLeft
<1>1. IInv => NoDescriptorLeft
  BY DEF IInv, Reads, Ends, NoDescriptorLeft
<1> QED
  BY <1>1, Invariance, PTL

\* On every way out of main(), whichever string could not be copied and whatever
\* failed later, all that was allocated has been freed.
THEOREM EverythingFreed == Spec => []NothingAllocated
<1>1. IInv => NothingAllocated
  BY DEF IInv, SourceInv, Memory, Order, Objects, NothingAllocated
<1> QED
  BY <1>1, Invariance, PTL

\* However many addresses are tried, the source holds one descriptor at most, the
\* one in s->fd.
THEOREM DescriptorCorrect == Spec => []DescriptorTracked
<1>1. IInv => DescriptorTracked
  BY DEF IInv, SourceInv, Descriptor, DescriptorTracked
<1> QED
  BY <1>1, Invariance, PTL

\* Nothing follows a line of the request that was cut, and an open network source
\* has sent its request to the end.
THEOREM RequestCorrect == Spec => []LinesWhole
<1>1. IInv => LinesWhole
  BY DEF IInv, SourceInv, Sent
<1> QED
  BY <1>1, Invariance, PTL

\* The camera reads the user name and the password from the header as they were
\* given, whatever characters they hold and however long they are, and a whole
\* request has the header exactly if both were given.
THEOREM CredentialsSurvive == Spec => []AuthDecodes
<1>1. IInv => AuthDecodes
  <2> SUFFICES ASSUME IInv PROVE AuthDecodes
    OBVIOUS
  <2>1. Faithful /\ sent \in Seq(Lines) /\ (step = "none" => sent = <<>>)
    BY DEF IInv, SourceInv, Sent, Unopened
  <2>2. DOMAIN sent = 1 .. Len(sent) /\ Len(sent) \in Nat /\ Len(Request) \in Nat
    BY <2>1, RequestIs, LenProperties
  <2>3. ASSUME NEW i \in DOMAIN sent, sent[i].kind = "auth"
        PROVE  Decode(sent[i].text) = Credentials
    <3>1. sent[i].text = AuthString /\ NULL \notin {args.user, args.pass}
      BY <2>1, <2>2, <2>3, RequestAuth DEF Faithful
    <3>2. step # "none"
      BY <2>1, <2>2, EmptySeq
    <3>3. args \in NetworkArgs
      BY <2>1, <3>2 DEF Faithful
    <3>4. Credentials \in Seq(Byte)
      BY <3>1, <3>3, CredentialsAre
    <3> QED
      BY <3>1, <3>4, DecodesEncoded DEF AuthString
  <2>4. step = "opened" /\ kind = "network" => DOMAIN sent = 1 .. Len(Request)
    BY <2>1, <2>2 DEF Faithful
  <2>5. step = "opened" /\ kind = "network" =>
          ({i \in DOMAIN sent : sent[i].kind = "auth"} # {} <=> NULL \notin {args.user, args.pass})
    BY <2>1, <2>2, <2>4, RequestAuth DEF Faithful
  <2> QED
    BY <2>3, <2>5 DEF AuthDecodes
<1> QED
  BY <1>1, Invariance, PTL
===============================================================================
