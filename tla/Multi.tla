-------------------------------- MODULE Multi --------------------------------
(***************************************************************************)
(* The program mjvmulti (mjvmulti.c, with source_read() of source.c): the  *)
(* main thread makes a helper structure and a thread for every source of   *)
(* the configuration, waits for a signal, asks the threads to terminate    *)
(* one after the other, and frees the structures. The threads write the    *)
(* frames to files, whose names are those of Filename. What a thread does  *)
(* with the bytes it reads is the business of Grabber, how the sources are *)
(* created that of Config and Source.                                      *)
(***************************************************************************)
EXTENDS Filename, SelfPipe

CONSTANTS
  Sources,             \* how many sources the configuration has
  Names,               \* the name of each
  MaxFrames            \* a bound on the frames of a source

MultiAssumption ==
  /\ Sources \in Nat /\ MaxFrames \in Nat
  /\ Names \in [1 .. Sources -> Seq(STRING)]

ASSUME MultiAssumption

Threads == 1 .. Sources

MainPcs == {"config", "create", "start", "sig_setup", "check", "sleep", "cancel", "join",
            "destroy", "exited"}
ThreadPcs == {"none", "open", "select", "read", "parse", "end"}

VARIABLES
  main,             \* where the main thread is
  t,                \* the helper structure it deals with
  created,          \* how many helper structures are in the list
  thread,           \* where each thread is
  pipe,             \* the self-pipe of each
  n_frames,         \* the frames each has got
  files,            \* the files written, each with the frame in it
  freed,            \* whether thread_destroy() has freed its structure
  handler,          \* whether sig_setup() was called
  quit_flag,
  killed,           \* whether a signal ended the process
  fault             \* whether it joined a thread id that was never set

output == <<n_frames, files>>
vars   == <<main, t, created, thread, pipe, output, freed, handler, quit_flag, killed, fault>>

Init ==
  /\ main = "config"
  /\ t = 1
  /\ created = 0
  /\ thread = [i \in Threads |-> "none"]
  /\ pipe = [i \in Threads |-> NoPipe]
  /\ n_frames = [i \in Threads |-> 0]
  /\ files = {}
  /\ freed = [i \in Threads |-> FALSE]
  /\ handler = FALSE
  /\ quit_flag = FALSE
  /\ killed = FALSE
  /\ fault = FALSE

MainGoes(from, to) == main = from /\ main' = to

-----------------------------------------------------------------------------
(* The main thread.                                                        *)

\* The options and the configuration. Without either main() goes to its exit,
\* where the list of structures is empty.
ReadConfig ==
  /\ MainGoes("config", "create") \/ MainGoes("config", "destroy")
  /\ UNCHANGED <<t, created, thread, pipe, output, freed, handler, quit_flag, killed, fault>>

\* A slip: the list of sources is taken to have one element more.
ThreadCreate_PastLast ==
  /\ t \in 1 .. Sources + 1
  /\ MainGoes("create", "create")
  /\ pipe' = [pipe EXCEPT ![t] = Pair]
  /\ created' = t
  /\ t' = t + 1
  /\ UNCHANGED <<thread, output, freed, handler, quit_flag, killed, fault>>

\* thread_create() for the next source.
ThreadCreate ==
  /\ t \in Threads
  /\ MainGoes("create", "create")
  /\ pipe' = [pipe EXCEPT ![t] = Pair]
  /\ created' = t
  /\ t' = t + 1
  /\ UNCHANGED <<thread, output, freed, handler, quit_flag, killed, fault>>

\* All sources have a structure, or thread_create() failed for the next one:
\* it undoes what it did, and the loop ends.
Created ==
  /\ MainGoes("create", "start")
  /\ t' = 1
  /\ UNCHANGED <<created, thread, pipe, output, freed, handler, quit_flag, killed, fault>>

\* pthread_create() starts the next thread.
Start ==
  /\ t <= created
  /\ MainGoes("start", "start")
  /\ thread' = [thread EXCEPT ![t] = "open"]
  /\ t' = t + 1
  /\ UNCHANGED <<created, pipe, output, freed, handler, quit_flag, killed, fault>>

\* All threads were started, or pthread_create() failed and the loop ended.
SigSetup ==
  /\ MainGoes("start", "check")
  /\ handler' = TRUE
  /\ UNCHANGED <<t, created, thread, pipe, output, freed, quit_flag, killed, fault>>

CheckQuitFlag ==
  /\ \/ ~quit_flag /\ MainGoes("check", "sleep") /\ UNCHANGED t
     \/ quit_flag /\ MainGoes("check", "cancel") /\ t' = 1
  /\ UNCHANGED <<created, thread, pipe, output, freed, handler, quit_flag, killed, fault>>

\* sleep() returns after a minute, or when the main thread handles a signal.
Wake ==
  /\ MainGoes("sleep", "check")
  /\ UNCHANGED <<t, created, thread, pipe, output, freed, handler, quit_flag, killed, fault>>

\* thread_cancel()
ThreadCancel ==
  /\ t <= created
  /\ MainGoes("cancel", "join")
  /\ pipe' = [pipe EXCEPT ![t] = WriteClose(@)]
  /\ UNCHANGED <<t, created, thread, output, freed, handler, quit_flag, killed, fault>>

\* A slip: the thread is told to quit and left alone.
Join_NoWait ==
  /\ MainGoes("join", "cancel")
  /\ t' = t + 1
  /\ UNCHANGED <<created, thread, pipe, output, freed, handler, quit_flag, killed, fault>>

\* pthread_join(), which returns at once from the id of a thread that was never
\* started, if it survives reading it.
Join ==
  /\ MainGoes("join", "cancel")
  /\ thread[t] \in {"end", "none"}
  /\ t' = t + 1
  /\ UNCHANGED <<created, thread, pipe, output, freed, handler, quit_flag, killed, fault>>

JoinFaults ==
  /\ main = "join"
  /\ thread[t] = "none"
  /\ fault' = TRUE
  /\ UNCHANGED <<main, t, created, thread, pipe, output, freed, handler, quit_flag, killed>>

AllCancelled ==
  /\ t > created
  /\ MainGoes("cancel", "destroy")
  /\ t' = 1
  /\ UNCHANGED <<created, thread, pipe, output, freed, handler, quit_flag, killed, fault>>

\* thread_destroy() closes the ends of the pipe that are open, the read end
\* twice: once as it is and once with selfpipe_read_close().
ThreadDestroy ==
  /\ t <= created
  /\ MainGoes("destroy", "destroy")
  /\ pipe' = [pipe EXCEPT ![t] = NoPipe]
  /\ freed' = [freed EXCEPT ![t] = TRUE]
  /\ t' = t + 1
  /\ UNCHANGED <<created, thread, output, handler, quit_flag, killed, fault>>

Exit ==
  /\ t > created
  /\ MainGoes("destroy", "exited")
  /\ UNCHANGED <<t, created, thread, pipe, output, freed, handler, quit_flag, killed, fault>>

MainStep ==
  \/ ReadConfig \/ ThreadCreate \/ Created \/ Start \/ SigSetup \/ CheckQuitFlag \/ Wake
  \/ ThreadCancel \/ Join \/ JoinFaults \/ AllCancelled \/ ThreadDestroy \/ Exit

-----------------------------------------------------------------------------
(* The threads.                                                            *)

ThreadGoes(i, from, to) ==
  /\ thread[i] = from
  /\ thread' = [thread EXCEPT ![i] = to]
  /\ UNCHANGED <<main, t, created, pipe, freed, handler, quit_flag, killed, fault>>

Open(i) ==
  /\ ThreadGoes(i, "open", "select") \/ ThreadGoes(i, "open", "end")
  /\ UNCHANGED output

\* A slip: the camera is read as long as it sends something.
Select_CameraFirst(i) ==
  /\ ThreadGoes(i, "select", "read") \/ ThreadGoes(i, "select", "end")
  /\ UNCHANGED output

\* select(): the self-pipe is looked at before the camera. A timeout or an
\* error may end the wait as well.
Select(i) ==
  /\ \/ ~Readable(pipe[i]) /\ ThreadGoes(i, "select", "read")
     \/ ThreadGoes(i, "select", "end")
  /\ UNCHANGED output

\* read() returns bytes, or the stream has ended or failed.
Read(i) ==
  /\ ThreadGoes(i, "read", "parse") \/ ThreadGoes(i, "read", "end")
  /\ UNCHANGED output

\* The bytes are parsed with the help of the thread's structure; the stream may
\* turn out to be corrupt.
Parse(i) ==
  /\ ThreadGoes(i, "parse", "select") \/ ThreadGoes(i, "parse", "end")
  /\ UNCHANGED output

\* A slip: the files of mjvsingle, which has a single source.
Pattern_Single == <<"%", "f", ".", "j", "p", "g">>

Pattern == <<"%", "n", "_", "%", "f", ".", "j", "p", "g">>

\* A frame is among the bytes. It is written to its file, unless it has no
\* data, the file cannot be made, or there are a thousand million before it.
GotFrame(i) ==
  /\ ThreadGoes(i, "parse", "parse")
  /\ n_frames[i] < MaxFrames
  /\ n_frames' = [n_frames EXCEPT ![i] = @ + 1]
  /\ LET file == [name   |-> FilenameForge(Names[i], n_frames[i] + 1, Pattern),
                  source |-> i,
                  frame  |-> n_frames[i] + 1]
     IN  \/ UNCHANGED files
         \/ n_frames[i] + 1 < 1000000000 /\ files' = files \cup {file}

ThreadStep(i) == Open(i) \/ Select(i) \/ Read(i) \/ Parse(i) \/ GotFrame(i)

-----------------------------------------------------------------------------
\* SIGINT or SIGTERM, in whichever thread it is delivered to.
Signal ==
  /\ quit_flag' = (quit_flag \/ handler)
  /\ killed' = ~handler
  /\ UNCHANGED <<main, t, created, thread, pipe, output, freed, handler, fault>>

Running == ~killed /\ ~fault /\ main # "exited"

Next == Running /\ (MainStep \/ (\E i \in Threads : ThreadStep(i)) \/ Signal)

Spec == Init /\ [][Next]_vars

\* Every thread is scheduled, open() and select() return, and so does sleep().
\* Nobody has to send a signal.
Fairness ==
  /\ WF_vars(Running /\ MainStep)
  /\ \A i \in Threads : WF_vars(Running /\ ThreadStep(i))

FairSpec == Spec /\ Fairness

-----------------------------------------------------------------------------
(* Properties.                                                             *)

\* The type of every variable.
TypeOK ==
  /\ main \in MainPcs
  /\ t \in 1 .. Sources + 1
  /\ created \in 0 .. Sources
  /\ thread \in [Threads -> ThreadPcs]
  /\ pipe \in [Threads -> Pipes]
  /\ n_frames \in [Threads -> 0 .. MaxFrames]
  /\ \A f \in files : f.source \in Threads /\ f.frame \in 1 .. n_frames[f.source]
  /\ freed \in [Threads -> BOOLEAN]
  /\ {handler, quit_flag, killed, fault} \subseteq BOOLEAN

\* Once a structure has been freed no thread runs any more, of any source: none
\* uses a freed grabber, framerate estimator or frame counter, and none opens a
\* file under the number of the descriptor that thread_destroy() closes twice.
FreedAfterEnd == (\E i \in Threads : freed[i]) => \A i \in Threads : thread[i] \in {"end", "none"}

\* No two frames are written to the same file, as long as the sources have
\* names of their own.
FilesApart ==
  \A f, g \in files :
    f.name = g.name => f.frame = g.frame /\ Names[f.source] = Names[g.source]

\* A signal ends the program, even while every camera keeps sending.
InterruptEndsProgram == quit_flag ~> (main = "exited" \/ fault)

AllEnded == handler /\ \A i \in 1 .. created : thread[i] = "end"

==============================================================================
