------------------------------- MODULE Source -------------------------------
(***************************************************************************)
(* A source of frames (source.c, source_network.c, source_file.c): an      *)
(* object on the heap with copies of the strings it was given, opened by   *)
(* connecting to a camera and sending it a request, or by opening a file.  *)
(* One thread at a time uses it. What is read from it afterwards is the    *)
(* business of Grabber and of the programs.                                *)
(***************************************************************************)
EXTENDS Base64, FiniteSets, SequencesExt

CONSTANTS
  NULL,
  Bytes,            \* the characters of user names and passwords
  MaxLen,           \* and how many of them there are at most
  MaxAddresses      \* how many addresses a host name stands for at most

ASSUME SourceAssumption ==
  /\ Bytes \subseteq Byte \ {0}
  /\ {MaxLen, MaxAddresses} \subseteq Nat

VARIABLES
  kind,             \* "network" or "file"
  args,             \* the strings given to the constructor
  blocks,           \* the blocks of the object that are on the heap
  step,             \* where the object is between its creation and its end
  fd,               \* s->fd
  opened,           \* the descriptors this object has opened and not closed
  addresses,        \* how many results of getaddrinfo() are still to be tried
  sent              \* the lines of the request the camera has got so far

sourceVars == <<kind, args, blocks, step, fd, opened, addresses, sent>>

Steps == {"none", "create", "created", "connect", "request", "opened",
          "not_created", "not_opened", "destroyed"}

\* The strings in the order in which they are copied.
Strings  == <<"name", "host", "path", "user", "pass">>
NoArgs   == [s \in Range(Strings) |-> NULL]

\* What the constructors may be given; the contents matter for the credentials
\* only. A file source has no host and no credentials.
NetworkArgs == [name : {<<>>, NULL}, host : {<<>>, NULL}, path : {<<>>, NULL},
                user : BoundedSeq(Bytes, MaxLen) \cup {NULL},
                pass : BoundedSeq(Bytes, MaxLen) \cup {NULL}]
FileArgs    == {a \in NetworkArgs : {a.host, a.user, a.pass} = {NULL}}

SourceInit ==
  /\ kind = "network"
  /\ args = NoArgs
  /\ blocks = {}
  /\ step = "none"
  /\ fd = -1
  /\ opened = {}
  /\ addresses = 0
  /\ sent = <<>>

-----------------------------------------------------------------------------
(* source_network_create() and source_file_create(). Each string that was  *)
(* given is copied, and a name always: "(unnamed)" stands in for it. A     *)
(* file source copies its name and its path only.                          *)

Create(k, a) ==
  /\ step = "none"
  /\ kind' = k
  /\ args' = a
  /\ \/ step' = "create" /\ blocks' = {"self"}
     \/ step' = "not_created" /\ UNCHANGED blocks
  /\ UNCHANGED <<fd, opened, addresses, sent>>

Copied  == {i \in DOMAIN Strings : kind = "network" \/ Strings[i] \in {"name", "path"}}
Pending == {i \in Copied : (Strings[i] = "name" \/ args[Strings[i]] # NULL) /\ Strings[i] \notin blocks}

CopyString ==
  /\ step = "create"
  /\ Pending # {}
  /\ blocks' = blocks \cup {Strings[Min(Pending)]}
  /\ UNCHANGED <<kind, args, step, fd, opened, addresses, sent>>

\* A slip: the labels err1 to err5 each start one free() too late.
Unwound_Late(i) == {"self"} \cup {Strings[j] : j \in 1 .. i - 2}

\* What the labels err1 to err5 free when copying string i has failed.
Unwound(i) == {"self"} \cup {Strings[j] : j \in 1 .. i - 1}

CopyFails ==
  /\ step = "create"
  /\ Pending # {}
  /\ blocks' = blocks \ Unwound(Min(Pending))
  /\ step' = "not_created"
  /\ UNCHANGED <<kind, args, fd, opened, addresses, sent>>

Created ==
  /\ step = "create"
  /\ Pending = {}
  /\ step' = "created"
  /\ fd' = -1
  /\ UNCHANGED <<kind, args, blocks, opened, addresses, sent>>

-----------------------------------------------------------------------------
(* open_file() and open_network().                                         *)

\* The lowest number that is free, as the system hands them out.
NewDescriptor == Min((1 .. Cardinality(opened) + 1) \ opened)

OpenFile ==
  /\ step = "created"
  /\ kind = "file"
  /\ \/ step' = "opened" /\ fd' = NewDescriptor /\ opened' = opened \cup {NewDescriptor}
     \/ step' = "not_opened" /\ fd' = -1 /\ UNCHANGED opened
  /\ UNCHANGED <<kind, args, blocks, addresses, sent>>

\* The port may be out of range, the host not given, or not be found.
Resolve ==
  /\ step = "created"
  /\ kind = "network"
  /\ \/ step' = "not_opened" /\ UNCHANGED addresses
     \/ /\ args.host # NULL
        /\ step' = "connect"
        /\ addresses' \in 1 .. MaxAddresses
  /\ UNCHANGED <<kind, args, blocks, fd, opened, sent>>

SocketFails ==
  /\ step = "connect"
  /\ addresses > 0
  /\ fd' = -1
  /\ addresses' = addresses - 1
  /\ UNCHANGED <<kind, args, blocks, step, opened, sent>>

\* A slip: a socket that does not connect is not closed.
ConnectFails_Keep ==
  /\ step = "connect"
  /\ addresses > 0
  /\ fd' = NewDescriptor
  /\ opened' = opened \cup {NewDescriptor}
  /\ addresses' = addresses - 1
  /\ UNCHANGED <<kind, args, blocks, step, sent>>

\* The socket is made, does not connect and is closed; s->fd keeps its number.
ConnectFails ==
  /\ step = "connect"
  /\ addresses > 0
  /\ fd' = NewDescriptor
  /\ addresses' = addresses - 1
  /\ UNCHANGED <<kind, args, blocks, step, opened, sent>>

Connect ==
  /\ step = "connect"
  /\ addresses > 0
  /\ step' = "request"
  /\ fd' = NewDescriptor
  /\ opened' = opened \cup {NewDescriptor}
  /\ UNCHANGED <<kind, args, blocks, addresses, sent>>

NoAddressLeft ==
  /\ step = "connect"
  /\ addresses = 0
  /\ step' = "not_opened"
  /\ fd' = -1
  /\ UNCHANGED <<kind, args, blocks, opened, addresses, sent>>

-----------------------------------------------------------------------------
(* write_http_request(). A line is its kind and, where it matters, its     *)
(* text; whole says whether the camera got all of it.                      *)

Credentials == args.user \o <<58>> \o args.pass

\* write_auth_string()
AuthString == Encode(Credentials)

Request ==
  LET Line(k, text) == [kind |-> k, text |-> text, whole |-> TRUE]
  IN  <<Line("get", <<>>), Line("keep_alive", <<>>)>>
        \o (IF NULL \notin {args.user, args.pass} THEN <<Line("auth", AuthString)>> ELSE <<>>)
        \o <<Line("crlf", <<>>)>>

\* malloc() fails, or the request line would be 100 characters or more.
RequestFails ==
  /\ step = "request"
  /\ sent = <<>>
  /\ step' = "not_opened"
  /\ UNCHANGED <<kind, args, blocks, fd, opened, addresses, sent>>

NextLine == Request[Len(sent) + 1]

WriteLine ==
  /\ step = "request"
  /\ Len(sent) < Len(Request)
  /\ sent' = Append(sent, NextLine)
  /\ UNCHANGED <<kind, args, blocks, step, fd, opened, addresses>>

\* A slip: a write() that takes a part of the line only goes unnoticed.
WriteFails_Unnoticed ==
  /\ step = "request"
  /\ Len(sent) < Len(Request)
  /\ sent' = Append(sent, [NextLine EXCEPT !.whole = FALSE])
  /\ UNCHANGED <<kind, args, blocks, step, fd, opened, addresses>>

\* write() takes a part of the line, or fails; the socket stays open.
WriteFails ==
  /\ step = "request"
  /\ Len(sent) < Len(Request)
  /\ sent' \in {sent, Append(sent, [NextLine EXCEPT !.whole = FALSE])}
  /\ step' = "not_opened"
  /\ UNCHANGED <<kind, args, blocks, fd, opened, addresses>>

RequestSent ==
  /\ step = "request"
  /\ Len(sent) = Len(Request)
  /\ step' = "opened"
  /\ UNCHANGED <<kind, args, blocks, fd, opened, addresses, sent>>

-----------------------------------------------------------------------------
(* source_network_destroy() and source_file_destroy(). The descriptor is   *)
(* left open: no program calls close() of the object.                      *)

Destroy ==
  /\ step \in {"created", "opened", "not_opened"}
  /\ step' = "destroyed"
  /\ blocks' = blocks \ ({"self"} \cup {Strings[i] : i \in Copied})
  /\ UNCHANGED <<kind, args, fd, opened, addresses, sent>>

Creates == CopyString \/ CopyFails \/ Created
Opens   == \/ OpenFile \/ Resolve \/ SocketFails \/ ConnectFails \/ Connect \/ NoAddressLeft
           \/ RequestFails \/ WriteLine \/ WriteFails \/ RequestSent

-----------------------------------------------------------------------------
(* Properties.                                                             *)

\* Whatever addresses were tried in vain, the object never holds a second
\* descriptor, and one it holds is the one close() would close; an object that
\* is open has one.
DescriptorTracked ==
  /\ opened \subseteq {fd}
  /\ step \in {"request", "opened"} => opened = {fd}

\* Nothing follows a line the camera got a part of ("We have to write header
\* lines in their entirety at once; at least one IP camera closes its connection
\* if it receives a partial line"), and a network source that is open has sent
\* its request to the end.
LinesWhole ==
  /\ \A i \in 1 .. Len(sent) : ~sent[i].whole => i = Len(sent) /\ step \notin {"request", "opened"}
  /\ step = "opened" /\ kind = "network" => sent # <<>> /\ sent[Len(sent)].kind = "crlf"

\* The camera reads the user name and the password from the header as they
\* were given, and a whole request has the header exactly if both were.
AuthDecodes ==
  LET auth == {i \in DOMAIN sent : sent[i].kind = "auth"}
  IN  /\ \A i \in auth : Decode(sent[i].text) = Credentials
      /\ step = "opened" /\ kind = "network" => (auth # {} <=> NULL \notin {args.user, args.pass})

\* The encoded credentials fit the buffer made for them ("Assume that *dst is
\* large enough to contain the output").
EncodedFits ==
  NULL \notin {args.user, args.pass} => Written(Len(Credentials)) <= Room(Len(Credentials))
=============================================================================
