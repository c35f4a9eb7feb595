------------------------------ MODULE SelfPipe ------------------------------
(***************************************************************************)
(* selfpipe.c: the pipe through which a thread that may be blocked in      *)
(* select() is told to quit. A pipe is a record: whether its read end and  *)
(* its write end are open and whether a byte is in it.                     *)
(***************************************************************************)

Pipes == [read : BOOLEAN, write : BOOLEAN, byte : BOOLEAN]

\* Before selfpipe_pair() succeeds both descriptors are -1.
NoPipe == [read |-> FALSE, write |-> FALSE, byte |-> FALSE]

\* selfpipe_pair()
Pair == [read |-> TRUE, write |-> TRUE, byte |-> FALSE]

\* What selfpipe_write_close() does to an open write end: a byte is written,
\* and the end closed. A byte that nobody is left to read is answered by SIGPIPE.
ByteWritten(p)   == [p EXCEPT !.byte = p.read]
WriteBreaks(p)   == p.write /\ ~p.read
WriteEndClosed(p) == [p EXCEPT !.write = FALSE]

\* selfpipe_write_close() as a whole; nothing is done to an end closed before.
WriteClose(p) == IF p.write THEN WriteEndClosed(ByteWritten(p)) ELSE p

\* selfpipe_read_close()
ReadEndClosed(p) == [p EXCEPT !.read = FALSE]

\* select() finds the read end ready: a byte, or the end of file.
Readable(p) == p.read /\ (p.byte \/ ~p.write)
==============================================================================
