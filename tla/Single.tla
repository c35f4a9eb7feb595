------------------------------- MODULE Single -------------------------------
(***************************************************************************)
(* The program mjvsingle (mjvsingle.c, with source_read() of source.c):    *)
(* one thread that creates and opens a source, makes a self-pipe, runs the *)
(* grabber and cleans up, and a signal handler that interrupts it, and     *)
(* itself, at any point to write into the self-pipe. The source is that of *)
(* Source. What the grabber does with the bytes it reads is the business   *)
(* of Grabber.                                                             *)
(***************************************************************************)
EXTENDS Source, SelfPipe

VARIABLES
  pc,               \* where main() is
  objects,          \* which of g and fr point to an object
  read_fd,          \* what the descriptor read_fd stands for
  write_fd,         \* what the descriptor write_fd stands for
  pipe,             \* the pipe itself
  stdin,            \* whether descriptor 0, standard input, is open
  handler,          \* whether sig_setup() was called
  stack,            \* where the handlers under way are, the last one running
  killed            \* whether a signal ended the process

vars == <<sourceVars, pc, objects, read_fd, write_fd, pipe, stdin, handler, stack, killed>>
fds  == <<read_fd, write_fd, pipe, stdin>>

Pcs == {"process_cmdline", "create_source", "create_grabber", "create_framerate", "open",
        "selfpipe_pair", "sig_setup", "select", "read", "parse", "exit", "close_read",
        "destroy_grabber", "check_write", "close_write", "forget_write", "destroy_source",
        "end"}

\* What a descriptor variable may hold: -1, the end of the pipe, the 0 that
\* static variables start with, or the number of an end closed since.
FdValues == {"-1", "end", "0"}

Init ==
  /\ SourceInit
  /\ pc = "process_cmdline"
  /\ objects = {}
  /\ read_fd = "0"
  /\ write_fd = "0"
  /\ pipe = NoPipe
  /\ stdin = TRUE
  /\ handler = FALSE
  /\ stack = <<>>
  /\ killed = FALSE

Goes(from, to) == pc = from /\ pc' = to

\* The options give a file or, when they do not, a host; copy_string() may run
\* out of memory, and options with neither lead to the exit as well.
ProcessCmdline ==
  /\ \/ /\ Goes("process_cmdline", "create_source")
        /\ \/ \E a \in FileArgs : a.path # NULL /\ Create("file", a)
           \/ \E a \in NetworkArgs : a.host # NULL /\ Create("network", a)
     \/ Goes("process_cmdline", "exit") /\ UNCHANGED sourceVars
  /\ UNCHANGED <<objects, fds, handler, stack, killed>>

CreateSource ==
  /\ \/ pc = "create_source" /\ Creates /\ UNCHANGED pc
     \/ Goes("create_source", "create_grabber") /\ step = "created" /\ UNCHANGED sourceVars
     \/ Goes("create_source", "exit") /\ step = "not_created" /\ UNCHANGED sourceVars
  /\ UNCHANGED <<objects, fds, handler, stack, killed>>

CreateGrabber ==
  /\ \/ Goes("create_grabber", "create_framerate") /\ objects' = objects \cup {"grabber"}
     \/ Goes("create_grabber", "exit") /\ UNCHANGED objects
  /\ UNCHANGED <<sourceVars, fds, handler, stack, killed>>

CreateFramerate ==
  /\ \/ Goes("create_framerate", "open") /\ objects' = objects \cup {"framerate"}
     \/ Goes("create_framerate", "exit") /\ UNCHANGED objects
  /\ UNCHANGED <<sourceVars, fds, handler, stack, killed>>

Open ==
  /\ \/ pc = "open" /\ Opens /\ UNCHANGED pc
     \/ Goes("open", "selfpipe_pair") /\ step = "opened" /\ UNCHANGED sourceVars
     \/ Goes("open", "exit") /\ step = "not_opened" /\ UNCHANGED sourceVars
  /\ UNCHANGED <<objects, fds, handler, stack, killed>>

\* The camera has closed its end when a line is written to it: no program
\* handles or ignores SIGPIPE.
BrokenPipe ==
  /\ pc = "open"
  /\ step = "request"
  /\ killed' = TRUE
  /\ UNCHANGED <<sourceVars, pc, objects, fds, handler, stack>>

SelfpipePair ==
  /\ \/ /\ Goes("selfpipe_pair", "sig_setup")
        /\ read_fd' = "end"
        /\ write_fd' = "end"
        /\ pipe' = Pair
     \/ /\ Goes("selfpipe_pair", "exit")
        /\ read_fd' = "-1"
        /\ write_fd' = "-1"
        /\ UNCHANGED pipe
  /\ UNCHANGED <<sourceVars, objects, stdin, handler, stack, killed>>

SigSetup ==
  /\ Goes("sig_setup", "select")
  /\ handler' = TRUE
  /\ UNCHANGED <<sourceVars, objects, fds, stack, killed>>

\* A slip: the camera is read as long as it sends something.
Select_CameraFirst ==
  /\ Goes("select", "read") \/ Goes("select", "exit")
  /\ UNCHANGED <<sourceVars, objects, fds, handler, stack, killed>>

\* select(): the self-pipe is looked at before the camera. A timeout or an
\* error may end the wait as well.
Select ==
  /\ \/ Goes("select", "read") /\ ~Readable(pipe)
     \/ Goes("select", "exit")
  /\ UNCHANGED <<sourceVars, objects, fds, handler, stack, killed>>

\* read() returns bytes, or the stream has ended or failed.
Read ==
  /\ Goes("read", "parse") \/ Goes("read", "exit")
  /\ UNCHANGED <<sourceVars, objects, fds, handler, stack, killed>>

\* The grabber parses the bytes, and goes on or returns. What the callback does
\* with the frames is left out.
Parse ==
  /\ Goes("parse", "select") \/ Goes("parse", "exit")
  /\ UNCHANGED <<sourceVars, objects, fds, handler, stack, killed>>

Exit ==
  /\ pc = "exit"
  /\ pc' = IF "grabber" \in objects THEN "close_read" ELSE "check_write"
  /\ objects' = objects \ {"framerate"}
  /\ UNCHANGED <<sourceVars, fds, handler, stack, killed>>

\* The read end goes with the grabber, whatever read_fd is by now.
CloseRead ==
  /\ Goes("close_read", "destroy_grabber")
  /\ pipe' = IF read_fd = "end" THEN ReadEndClosed(pipe) ELSE pipe
  /\ stdin' = (stdin /\ read_fd # "0")
  /\ read_fd' = "-1"
  /\ UNCHANGED <<sourceVars, objects, write_fd, handler, stack, killed>>

DestroyGrabber ==
  /\ Goes("destroy_grabber", "check_write")
  /\ objects' = objects \ {"grabber"}
  /\ UNCHANGED <<sourceVars, fds, handler, stack, killed>>

\* A slip: the write end is left to the signal handler.
CheckWrite_Handler ==
  /\ \/ Goes("check_write", "close_write") /\ write_fd = "0"
     \/ Goes("check_write", "destroy_source") /\ write_fd # "0"
  /\ UNCHANGED <<sourceVars, objects, fds, handler, stack, killed>>

CheckWrite ==
  /\ \/ Goes("check_write", "close_write") /\ write_fd # "-1"
     \/ Goes("check_write", "destroy_source") /\ write_fd = "-1"
  /\ UNCHANGED <<sourceVars, objects, fds, handler, stack, killed>>

CloseWrite ==
  /\ Goes("close_write", "forget_write")
  /\ pipe' = IF write_fd = "end" THEN WriteEndClosed(pipe) ELSE pipe
  /\ stdin' = (stdin /\ write_fd # "0")
  /\ UNCHANGED <<sourceVars, objects, read_fd, write_fd, handler, stack, killed>>

ForgetWrite ==
  /\ Goes("forget_write", "destroy_source")
  /\ write_fd' = "-1"
  /\ UNCHANGED <<sourceVars, objects, read_fd, pipe, stdin, handler, stack, killed>>

DestroySource ==
  /\ Goes("destroy_source", "end")
  /\ IF step \in {"created", "opened", "not_opened"} THEN Destroy ELSE UNCHANGED sourceVars
  /\ UNCHANGED <<objects, fds, handler, stack, killed>>

-----------------------------------------------------------------------------
(* SIGINT and SIGTERM. sig_handler() calls selfpipe_write_close(); the     *)
(* other signal may interrupt it.                                          *)

Signals == 2

Signal ==
  /\ \/ ~handler /\ killed' = TRUE /\ UNCHANGED stack
     \/ handler /\ Len(stack) < Signals /\ stack' = Append(stack, "check") /\ UNCHANGED killed
  /\ UNCHANGED <<sourceVars, pc, objects, fds, handler>>

\* The running handler goes on, or returns.
HandlerAt(at)    == stack # <<>> /\ stack[Len(stack)] = at
HandlerGoes(to)  == stack' = [stack EXCEPT ![Len(stack)] = to]
HandlerReturns   == stack' = SubSeq(stack, 1, Len(stack) - 1)

HandlerCheck ==
  /\ HandlerAt("check")
  /\ IF write_fd = "-1" THEN HandlerReturns ELSE HandlerGoes("write")
  /\ UNCHANGED <<sourceVars, pc, objects, fds, handler, killed>>

\* A write to -1 or to the number of a closed descriptor fails.
HandlerWrite ==
  /\ HandlerAt("write")
  /\ HandlerGoes("close")
  /\ IF write_fd = "end" /\ pipe.write
       THEN pipe' = ByteWritten(pipe) /\ killed' = WriteBreaks(pipe)
       ELSE UNCHANGED <<pipe, killed>>
  /\ UNCHANGED <<sourceVars, pc, objects, read_fd, write_fd, stdin, handler>>

HandlerClose ==
  /\ HandlerAt("close")
  /\ HandlerGoes("reset")
  /\ pipe' = IF write_fd = "end" THEN WriteEndClosed(pipe) ELSE pipe
  /\ UNCHANGED <<sourceVars, pc, objects, read_fd, write_fd, stdin, handler, killed>>

\* A slip: the handler keeps the number of the descriptor it has closed.
HandlerReset_Keep ==
  /\ HandlerAt("reset")
  /\ HandlerReturns
  /\ UNCHANGED <<sourceVars, pc, objects, fds, handler, killed>>

HandlerReset ==
  /\ HandlerAt("reset")
  /\ HandlerReturns
  /\ write_fd' = "-1"
  /\ UNCHANGED <<sourceVars, pc, objects, read_fd, pipe, stdin, handler, killed>>

Handler == HandlerCheck \/ HandlerWrite \/ HandlerClose \/ HandlerReset

-----------------------------------------------------------------------------
Main ==
  \/ ProcessCmdline \/ CreateSource \/ CreateGrabber \/ CreateFramerate
  \/ Open \/ BrokenPipe \/ SelfpipePair \/ SigSetup
  \/ Select \/ Read \/ Parse
  \/ Exit \/ CloseRead \/ DestroyGrabber \/ CheckWrite \/ CloseWrite \/ ForgetWrite
  \/ DestroySource

Running == ~killed /\ pc # "end"

Next == Running /\ ((stack = <<>> /\ Main) \/ Handler \/ Signal)

Spec == Init /\ [][Next]_vars

\* open(), select() and read() return, and the signals leave time for what they
\* interrupt to go on: main() and, under the handler of the other signal, the
\* handler.
FairSpec ==
  /\ Spec
  /\ \A depth \in 1 .. Signals : SF_vars(Running /\ Len(stack) = depth /\ Handler)
  /\ SF_vars(Running /\ stack = <<>> /\ Main)

-----------------------------------------------------------------------------
(* Properties.                                                             *)

\* The types of the variables; and a descriptor variable names an end of the
\* pipe exactly while that end is open, wherever the handlers interrupt main()
\* and each other, except between a close() and the -1 that follows it. A stale
\* number would close or write to a descriptor that is not its own.
DescriptorsTrackPipe ==
  /\ pc \in Pcs
  /\ read_fd \in FdValues /\ write_fd \in FdValues /\ pipe \in Pipes
  /\ {stdin, handler, killed} \subseteq BOOLEAN
  /\ objects \subseteq {"grabber", "framerate"}
  /\ read_fd = "end" <=> pipe.read
  /\ pipe.write => write_fd = "end"
  /\ write_fd = "end" /\ ~pipe.write =>
       pc = "forget_write" \/ \E i \in DOMAIN stack : stack[i] = "reset"

\* On every way out of main() both ends of the pipe have been closed, by
\* main() or by the handler.
NoDescriptorLeft == pc = "end" => ~pipe.read /\ ~pipe.write

\* On every way out of main() the grabber, the framerate estimator and every
\* block of the source have been freed: by main(), or by the label of the
\* constructor that undoes the steps before the failed one.
NothingAllocated == pc = "end" => objects = {} /\ blocks = {}

\* A byte in the self-pipe ends the program, even while the camera keeps
\* sending.
InterruptEndsProgram == pipe.byte ~> (pc = "end" \/ killed)

\* The handler only ever sends a byte to the grabber ("Terminate a thread by
\* sending a byte of data through the write end of the self-pipe. The grabber
\* catches this and exits gracefully").
HandlerOnlyCancels == handler => ~killed
==============================================================================
