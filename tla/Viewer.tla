------------------------------- MODULE Viewer -------------------------------
(***************************************************************************)
(* The threads of the graphical viewer (mjv_gui.c, mjv_thread.c and        *)
(* spinner.c): the main thread, which repaints the canvases and cancels    *)
(* the cameras when the window is closed, and for every camera a worker    *)
(* that connects and runs the grabber, a spinner thread that animates the  *)
(* canvas while it connects, and a thread that shows the framerate.        *)
(*                                                                         *)
(* They share the global lock of GDK, two mutexes of each camera's         *)
(* mjv_thread object, and that object's fields. A step is what a thread    *)
(* does between two points where another thread can tell the difference.   *)
(***************************************************************************)
EXTENDS Integers

CONSTANTS
  Cameras,            \* how many cameras there are; they are numbered from 1
  MaxPerRead          \* bound on the frames that one read of the grabber completes

ViewerAssumption ==
  /\ Cameras \in Nat
  /\ MaxPerRead \in Nat

ASSUME ViewerAssumption

Cams == 1 .. Cameras

ConnStates == {"DISCONNECTED", "CONNECTING", "CONNECTED"}

\* Threads, as holders of the global lock.
Nobody       == <<"nobody", 0>>
Gui          == <<"gui", 0>>
Worker(c)    == <<"worker", c>>
Spinner(c)   == <<"spinner", c>>
Framerate(c) == <<"framerate", c>>

GuiPcs == {"loop", "lock", "paint", "spinner_repaint", "unlock", "on_destroy", "cancel",
           "join", "leave", "destroy", "exited"}
WorkerPcs == {"none", "spinner_create", "update", "update_enter", "update_leave", "open",
              "quit_spinner", "kill_spinner", "join_spinner", "forget_spinner",
              "run_framerate", "select", "parse", "got_frame", "got_frame_lock",
              "framerate_lock", "framerate_unlock", "got_frame_leave", "label",
              "label_leave", "kill_framerate", "end"}
SpinnerPcs == {"none", "install", "check", "sleep", "recheck", "tick", "tick_leave", "end"}
FrameratePcs == {"none", "not_started", "lock", "unlock", "label", "label_leave", "sleep",
                 "end"}

VARIABLES
  gdk,                \* who holds the global lock of GDK
  gui,                \* where the main thread is
  cam,                \* the camera it deals with
  worker,             \* where each worker is
  spin,               \* where each spinner thread is
  rate,               \* where each framerate thread is
  mutex,              \* who holds t->mutex
  rate_mutex,         \* who holds t->framerate_mutex
  state,              \* t->state
  goal,               \* the argument of update_state() under way
  frames,             \* how many frames the bytes read so far still complete
  spinner,            \* the object t->spinner points to: null, live or freed
  quit,               \* s->quit of the spinner
  cancelled,          \* whether pthread_cancel() was called on the framerate thread
  written,            \* whether a byte is in the self-pipe
  queued,             \* whether a redraw of the canvas is queued
  destroyed,          \* whether mjv_thread_destroy() has freed t
  handler,            \* whether the process has a handler for SIGUSR1
  killed,             \* whether SIGUSR1 has ended the process
  fault               \* whether it joined or cancelled a thread id never set

guiVars     == <<gui, cam, destroyed>>
workerVars  == <<worker, state, goal, frames>>
spinnerVars == <<spin, spinner, quit, handler, killed>>
rateVars    == <<rate, cancelled, fault>>
locks       == <<mutex, rate_mutex>>
vars == <<gdk, guiVars, workerVars, spinnerVars, rateVars, locks, written, queued>>

\* The windows are shown and the workers started, but for those that
\* mjv_thread_run() could not start; nobody has moved yet.
Init ==
  /\ gdk = Nobody
  /\ gui = "loop"
  /\ cam = 1
  /\ worker \in [Cams -> {"spinner_create", "none"}]
  /\ spin = [c \in Cams |-> "none"]
  /\ rate = [c \in Cams |-> "none"]
  /\ mutex = [c \in Cams |-> Nobody]
  /\ rate_mutex = [c \in Cams |-> Nobody]
  /\ state = [c \in Cams |-> "DISCONNECTED"]
  /\ goal = [c \in Cams |-> "CONNECTING"]
  /\ frames = [c \in Cams |-> 0]
  /\ spinner = [c \in Cams |-> "null"]
  /\ quit = [c \in Cams |-> FALSE]
  /\ cancelled = [c \in Cams |-> FALSE]
  /\ written = [c \in Cams |-> FALSE]
  /\ queued = [c \in Cams |-> TRUE]
  /\ destroyed = [c \in Cams |-> FALSE]
  /\ handler = FALSE
  /\ killed = FALSE
  /\ fault = FALSE

\* gdk_threads_enter() and gdk_threads_leave()
Enter(thread) == gdk = Nobody /\ gdk' = thread
Leave(thread) == gdk = thread /\ gdk' = Nobody

Lock(m, c, thread)   == m[c] = Nobody /\ m' = [m EXCEPT ![c] = thread]
Unlock(m, c, thread) == m[c] = thread /\ m' = [m EXCEPT ![c] = Nobody]

WorkerGoes(c, from, to) == worker[c] = from /\ worker' = [worker EXCEPT ![c] = to]

-----------------------------------------------------------------------------
(* The worker: thread_main() of mjv_thread.c.                              *)

\* spinner_create() starts the spinner thread, unless memory or threads run out.
SpinnerCreate(c) ==
  /\ WorkerGoes(c, "spinner_create", "update")
  /\ \/ /\ spinner' = [spinner EXCEPT ![c] = "live"]
        /\ spin' = [spin EXCEPT ![c] = "install"]
     \/ UNCHANGED <<spinner, spin>>
  /\ UNCHANGED <<gdk, guiVars, state, goal, frames, quit, handler, killed, rateVars,
                 locks, written, queued>>

\* update_state(): the state changes before the global lock is taken.
UpdateState(c) ==
  /\ WorkerGoes(c, "update", "update_enter")
  /\ state' = [state EXCEPT ![c] = goal[c]]
  /\ UNCHANGED <<gdk, guiVars, goal, frames, spinnerVars, rateVars, locks, written, queued>>

UpdateStateEnter(c) ==
  /\ WorkerGoes(c, "update_enter", "update_leave")
  /\ Enter(Worker(c))
  /\ UNCHANGED <<guiVars, state, goal, frames, spinnerVars, rateVars, locks, written, queued>>

\* A slip: the spinner goes on when the worker starts reading.
AfterUpdate_KeepSpinner(s) ==
  CASE s = "CONNECTING"   -> "open"
    [] s = "CONNECTED"    -> "run_framerate"
    [] s = "DISCONNECTED" -> "kill_framerate"

\* What the worker does once the label shows the new state.
AfterUpdate(s) ==
  CASE s = "CONNECTING"   -> "open"
    [] s = "CONNECTED"    -> "quit_spinner"
    [] s = "DISCONNECTED" -> "kill_framerate"

UpdateStateLeave(c) ==
  /\ WorkerGoes(c, "update_leave", AfterUpdate(state[c]))
  /\ Leave(Worker(c))
  /\ UNCHANGED <<guiVars, state, goal, frames, spinnerVars, rateVars, locks, written, queued>>

\* A slip: the spinner is destroyed before the canvas is told to do without it.
OpenSucceeds_SpinnerFirst(c) ==
  /\ WorkerGoes(c, "open", "quit_spinner")
  /\ goal' = [goal EXCEPT ![c] = "CONNECTED"]
  /\ UNCHANGED <<gdk, guiVars, state, frames, spinnerVars, rateVars, locks, written, queued>>

\* The source is open and the grabber created.
OpenSucceeds(c) ==
  /\ WorkerGoes(c, "open", "update")
  /\ goal' = [goal EXCEPT ![c] = "CONNECTED"]
  /\ UNCHANGED <<gdk, guiVars, state, frames, spinnerVars, rateVars, locks, written, queued>>

\* The source cannot be opened, or the grabber not be created.
OpenFails(c) ==
  /\ WorkerGoes(c, "open", "quit_spinner")
  /\ goal' = [goal EXCEPT ![c] = "DISCONNECTED"]
  /\ UNCHANGED <<gdk, guiVars, state, frames, spinnerVars, rateVars, locks, written, queued>>

\* spinner_destroy(): the thread is told to quit, woken by a signal and joined,
\* and the object freed. Nothing is done without a spinner.
AfterSpinner(c) == IF goal[c] = "CONNECTED" THEN "run_framerate" ELSE "update"

QuitSpinner(c) ==
  /\ \/ /\ spinner[c] = "null"
        /\ WorkerGoes(c, "quit_spinner", AfterSpinner(c))
        /\ UNCHANGED quit
     \/ /\ spinner[c] # "null"
        /\ WorkerGoes(c, "quit_spinner", "kill_spinner")
        /\ quit' = [quit EXCEPT ![c] = TRUE]
  /\ UNCHANGED <<gdk, guiVars, state, goal, frames, spin, spinner, handler, killed, rateVars,
                 locks, written, queued>>

\* A signal that nobody handles ends the process.
KillSpinner(c) ==
  /\ WorkerGoes(c, "kill_spinner", "join_spinner")
  /\ killed' = ~handler
  /\ UNCHANGED <<gdk, guiVars, state, goal, frames, spin, spinner, quit, handler, rateVars,
                 locks, written, queued>>

\* A slip: the object is freed without waiting for its thread.
JoinSpinner_NoWait(c) ==
  /\ WorkerGoes(c, "join_spinner", "forget_spinner")
  /\ spinner' = [spinner EXCEPT ![c] = "freed"]
  /\ UNCHANGED <<gdk, guiVars, state, goal, frames, spin, quit, handler, killed, rateVars,
                 locks, written, queued>>

JoinSpinner(c) ==
  /\ spin[c] = "end"
  /\ WorkerGoes(c, "join_spinner", "forget_spinner")
  /\ spinner' = [spinner EXCEPT ![c] = "freed"]
  /\ UNCHANGED <<gdk, guiVars, state, goal, frames, spin, quit, handler, killed, rateVars,
                 locks, written, queued>>

ForgetSpinner(c) ==
  /\ WorkerGoes(c, "forget_spinner", AfterSpinner(c))
  /\ spinner' = [spinner EXCEPT ![c] = "null"]
  /\ UNCHANGED <<gdk, guiVars, state, goal, frames, spin, quit, handler, killed, rateVars,
                 locks, written, queued>>

\* framerate_thread_run(); a failure of pthread_create() is ignored.
RunFramerate(c) ==
  /\ WorkerGoes(c, "run_framerate", "select")
  /\ \E r \in {"lock", "not_started"} : rate' = [rate EXCEPT ![c] = r]
  /\ UNCHANGED <<gdk, guiVars, state, goal, frames, spinnerVars, cancelled, fault, locks, written, queued>>

\* source_read(): a byte in the self-pipe comes before any bytes of the camera.
ReadCamera(c) ==
  /\ ~written[c]
  /\ WorkerGoes(c, "select", "parse")
  /\ \E n \in 0 .. MaxPerRead : frames' = [frames EXCEPT ![c] = n]
  /\ UNCHANGED <<gdk, guiVars, state, goal, spinnerVars, rateVars, locks, written, queued>>

\* mjv_grabber_run() returns: cancelled, timed out, at the end of the stream,
\* or with an error, which may also follow from what was read.
GrabberReturns(c) ==
  /\ \/ WorkerGoes(c, "select", "update")
     \/ WorkerGoes(c, "parse", "update")
  /\ goal' = [goal EXCEPT ![c] = "DISCONNECTED"]
  /\ UNCHANGED <<gdk, guiVars, state, frames, spinnerVars, rateVars, locks, written, queued>>

\* The bytes read so far are used up.
OutOfBytes(c) ==
  /\ frames[c] = 0
  /\ WorkerGoes(c, "parse", "select")
  /\ UNCHANGED <<gdk, guiVars, state, goal, frames, spinnerVars, rateVars, locks, written, queued>>

\* A slip: the callback is called once more when the bytes are used up.
GotFrame_Unguarded(c) ==
  /\ WorkerGoes(c, "parse", "got_frame") \/ WorkerGoes(c, "parse", "parse")
  /\ frames' = [frames EXCEPT ![c] = @ - 1]
  /\ UNCHANGED <<gdk, guiVars, state, goal, spinnerVars, rateVars, locks, written, queued>>

\* callback_got_frame() is called; a frame that cannot be decoded is dropped.
GotFrame(c) ==
  /\ frames[c] > 0
  /\ WorkerGoes(c, "parse", "got_frame") \/ WorkerGoes(c, "parse", "parse")
  /\ frames' = [frames EXCEPT ![c] = @ - 1]
  /\ UNCHANGED <<gdk, guiVars, state, goal, spinnerVars, rateVars, locks, written, queued>>

GotFrameEnter(c) ==
  /\ WorkerGoes(c, "got_frame", "got_frame_lock")
  /\ Enter(Worker(c))
  /\ UNCHANGED <<guiVars, state, goal, frames, spinnerVars, rateVars, locks, written, queued>>

\* The pixbuf is replaced and a redraw queued.
GotFrameLock(c) ==
  /\ WorkerGoes(c, "got_frame_lock", "framerate_lock")
  /\ Lock(mutex, c, Worker(c))
  /\ queued' = [queued EXCEPT ![c] = TRUE]
  /\ UNCHANGED <<gdk, guiVars, state, goal, frames, spinnerVars, rateVars, rate_mutex, written>>

InsertDatapoint(c) ==
  /\ WorkerGoes(c, "framerate_lock", "framerate_unlock")
  /\ Lock(rate_mutex, c, Worker(c))
  /\ UNCHANGED <<gdk, guiVars, state, goal, frames, spinnerVars, rateVars, mutex, written, queued>>

GotFrameUnlock(c) ==
  /\ WorkerGoes(c, "framerate_unlock", "got_frame_leave")
  /\ Unlock(rate_mutex, c, Worker(c))
  /\ Unlock(mutex, c, Worker(c))
  /\ UNCHANGED <<gdk, guiVars, state, goal, frames, spinnerVars, rateVars, written, queued>>

GotFrameLeave(c) ==
  /\ WorkerGoes(c, "got_frame_leave", "label")
  /\ Leave(Worker(c))
  /\ UNCHANGED <<guiVars, state, goal, frames, spinnerVars, rateVars, locks, written, queued>>

\* framebuf_append() and update_framebuf_label()
UpdateFramebufLabel(c) ==
  /\ WorkerGoes(c, "label", "label_leave")
  /\ Enter(Worker(c))
  /\ UNCHANGED <<guiVars, state, goal, frames, spinnerVars, rateVars, locks, written, queued>>

LabelLeave(c) ==
  /\ WorkerGoes(c, "label_leave", "parse")
  /\ Leave(Worker(c))
  /\ UNCHANGED <<guiVars, state, goal, frames, spinnerVars, rateVars, locks, written, queued>>

\* framerate_thread_kill() does not wait; there is nothing to kill when the
\* connection was never made: the worker returned before.
KillFramerate(c) ==
  /\ WorkerGoes(c, "kill_framerate", "end")
  /\ cancelled' = [cancelled EXCEPT ![c] = rate[c] \notin {"none", "not_started"}]
  /\ UNCHANGED <<gdk, guiVars, state, goal, frames, spinnerVars, rate, fault, locks, written, queued>>

\* The id of a thread that was not started is 0; reading it may end the process.
KillFaults(c) ==
  /\ worker[c] = "kill_framerate"
  /\ rate[c] = "not_started"
  /\ fault' = TRUE
  /\ UNCHANGED <<gdk, guiVars, workerVars, spinnerVars, rate, cancelled, locks, written, queued>>

WorkerStep(c) ==
  \/ SpinnerCreate(c) \/ UpdateState(c) \/ UpdateStateEnter(c) \/ UpdateStateLeave(c)
  \/ OpenSucceeds(c) \/ OpenFails(c)
  \/ QuitSpinner(c) \/ KillSpinner(c) \/ JoinSpinner(c) \/ ForgetSpinner(c)
  \/ RunFramerate(c) \/ ReadCamera(c) \/ GrabberReturns(c) \/ OutOfBytes(c)
  \/ GotFrame(c) \/ GotFrameEnter(c) \/ GotFrameLock(c) \/ InsertDatapoint(c)
  \/ GotFrameUnlock(c) \/ GotFrameLeave(c) \/ UpdateFramebufLabel(c) \/ LabelLeave(c)
  \/ KillFramerate(c) \/ KillFaults(c)

-----------------------------------------------------------------------------
(* The spinner thread: thread_main() of spinner.c.                         *)

SpinnerGoes(c, from, to) == spin[c] = from /\ spin' = [spin EXCEPT ![c] = to]

InstallHandler(c) ==
  /\ SpinnerGoes(c, "install", "check")
  /\ handler' = TRUE
  /\ UNCHANGED <<gdk, guiVars, workerVars, spinner, quit, killed, rateVars, locks, written, queued>>

\* s->quit is read before the sleep and again after it.
CheckQuit(c) ==
  /\ \/ SpinnerGoes(c, "check", IF quit[c] THEN "end" ELSE "sleep")
     \/ SpinnerGoes(c, "recheck", IF quit[c] THEN "end" ELSE "tick")
  /\ UNCHANGED <<gdk, guiVars, workerVars, spinner, quit, handler, killed, rateVars, locks,
                 written, queued>>

\* The interval is over, or the sleep is interrupted by the signal.
SpinnerWakes(c) ==
  /\ SpinnerGoes(c, "sleep", "recheck")
  /\ UNCHANGED <<gdk, guiVars, workerVars, spinner, quit, handler, killed, rateVars, locks,
                 written, queued>>

OnSpinnerTick(c) ==
  /\ SpinnerGoes(c, "tick", "tick_leave")
  /\ Enter(Spinner(c))
  /\ queued' = [queued EXCEPT ![c] = TRUE]
  /\ UNCHANGED <<guiVars, workerVars, spinner, quit, handler, killed, rateVars, locks, written>>

OnSpinnerTickLeave(c) ==
  /\ SpinnerGoes(c, "tick_leave", "check")
  /\ Leave(Spinner(c))
  /\ UNCHANGED <<guiVars, workerVars, spinner, quit, handler, killed, rateVars, locks, written,
                 queued>>

SpinnerStep(c) ==
  \/ InstallHandler(c) \/ CheckQuit(c) \/ SpinnerWakes(c)
  \/ OnSpinnerTick(c) \/ OnSpinnerTickLeave(c)

-----------------------------------------------------------------------------
(* The framerate thread: framerate_thread_main() of mjv_thread.c.          *)

FramerateGoes(c, from, to) == rate[c] = from /\ rate' = [rate EXCEPT ![c] = to]

EstimateLock(c) ==
  /\ FramerateGoes(c, "lock", "unlock")
  /\ Lock(rate_mutex, c, Framerate(c))
  /\ UNCHANGED <<gdk, guiVars, workerVars, spinnerVars, cancelled, fault, mutex, written, queued>>

EstimateUnlock(c) ==
  /\ FramerateGoes(c, "unlock", "label")
  /\ Unlock(rate_mutex, c, Framerate(c))
  /\ UNCHANGED <<gdk, guiVars, workerVars, spinnerVars, cancelled, fault, mutex, written, queued>>

FramerateLabel(c) ==
  /\ FramerateGoes(c, "label", "label_leave")
  /\ Enter(Framerate(c))
  /\ UNCHANGED <<guiVars, workerVars, spinnerVars, cancelled, fault, locks, written, queued>>

FramerateLabelLeave(c) ==
  /\ FramerateGoes(c, "label_leave", "sleep")
  /\ Leave(Framerate(c))
  /\ UNCHANGED <<guiVars, workerVars, spinnerVars, cancelled, fault, locks, written, queued>>

\* sleep(1), where a cancelled thread ends; if the cancellation comes after it,
\* the loop is taken once more.
FramerateSleep(c) ==
  /\ \/ cancelled[c] /\ FramerateGoes(c, "sleep", "end")
     \/ ~cancelled[c] /\ FramerateGoes(c, "sleep", "lock")
  /\ UNCHANGED <<gdk, guiVars, workerVars, spinnerVars, cancelled, fault, locks, written, queued>>

FramerateStep(c) ==
  \/ EstimateLock(c) \/ EstimateUnlock(c)
  \/ FramerateLabel(c) \/ FramerateLabelLeave(c) \/ FramerateSleep(c)

-----------------------------------------------------------------------------
(* The main thread: gtk_main(), canvas_repaint(), on_destroy() and the end *)
(* of mjv_gui_main(). GTK calls back with its lock held.                   *)

GuiGoes(from, to) == gui = from /\ gui' = to

Expose(c) ==
  /\ queued[c]
  /\ GuiGoes("loop", "lock")
  /\ Enter(Gui)
  /\ cam' = c
  /\ queued' = [queued EXCEPT ![c] = FALSE]
  /\ UNCHANGED <<destroyed, workerVars, spinnerVars, rateVars, locks, written>>

RepaintLock ==
  /\ GuiGoes("lock", "paint")
  /\ Lock(mutex, cam, Gui)
  /\ UNCHANGED <<gdk, cam, destroyed, workerVars, spinnerVars, rateVars, rate_mutex, written, queued>>

Spinning(c) == state[c] = "CONNECTING" /\ spinner[c] # "null"

\* canvas_repaint() calls spinner_repaint() with the spinner there is now.
Repaint ==
  /\ \/ GuiGoes("paint", "spinner_repaint") /\ Spinning(cam)
     \/ GuiGoes("paint", "unlock") /\ ~Spinning(cam)
  /\ UNCHANGED <<gdk, cam, destroyed, workerVars, spinnerVars, rateVars, locks, written, queued>>

SpinnerRepaint ==
  /\ GuiGoes("spinner_repaint", "unlock")
  /\ UNCHANGED <<gdk, cam, destroyed, workerVars, spinnerVars, rateVars, locks, written, queued>>

RepaintUnlock ==
  /\ GuiGoes("unlock", "loop")
  /\ Unlock(mutex, cam, Gui)
  /\ Leave(Gui)
  /\ UNCHANGED <<cam, destroyed, workerVars, spinnerVars, rateVars, rate_mutex, written, queued>>

WindowClosed ==
  /\ GuiGoes("loop", "on_destroy")
  /\ Enter(Gui)
  /\ UNCHANGED <<cam, destroyed, workerVars, spinnerVars, rateVars, locks, written, queued>>

\* A slip: the workers are waited for with the lock held.
OnDestroy_KeepLock ==
  /\ GuiGoes("on_destroy", "cancel")
  /\ cam' = 1
  /\ UNCHANGED <<gdk, destroyed, workerVars, spinnerVars, rateVars, locks, written, queued>>

OnDestroy ==
  /\ GuiGoes("on_destroy", "cancel")
  /\ Leave(Gui)
  /\ cam' = 1
  /\ UNCHANGED <<destroyed, workerVars, spinnerVars, rateVars, locks, written, queued>>

\* mjv_thread_cancel() of one camera after the other
Cancel ==
  /\ cam \in Cams
  /\ GuiGoes("cancel", "join")
  /\ written' = [written EXCEPT ![cam] = TRUE]
  /\ UNCHANGED <<gdk, cam, destroyed, workerVars, spinnerVars, rateVars, locks, queued>>

Join ==
  /\ GuiGoes("join", "cancel")
  /\ worker[cam] \in {"end", "none"}
  /\ cam' = cam + 1
  /\ UNCHANGED <<gdk, destroyed, workerVars, spinnerVars, rateVars, locks, written, queued>>

\* The same for a worker that was not started.
JoinFaults ==
  /\ gui = "join"
  /\ worker[cam] = "none"
  /\ fault' = TRUE
  /\ UNCHANGED <<gdk, guiVars, workerVars, spinnerVars, rate, cancelled, locks, written, queued>>

\* gtk_main_quit() makes gtk_main() return, which takes the lock again.
MainQuit ==
  /\ cam \notin Cams
  /\ GuiGoes("cancel", "leave")
  /\ Enter(Gui)
  /\ UNCHANGED <<cam, destroyed, workerVars, spinnerVars, rateVars, locks, written, queued>>

MainReturns ==
  /\ GuiGoes("leave", "destroy")
  /\ Leave(Gui)
  /\ cam' = 1
  /\ UNCHANGED <<destroyed, workerVars, spinnerVars, rateVars, locks, written, queued>>

ThreadDestroy ==
  /\ cam \in Cams
  /\ GuiGoes("destroy", "destroy")
  /\ destroyed' = [destroyed EXCEPT ![cam] = TRUE]
  /\ cam' = cam + 1
  /\ UNCHANGED <<gdk, workerVars, spinnerVars, rateVars, locks, written, queued>>

\* main() returns, which ends the threads that are left.
Exit ==
  /\ cam \notin Cams
  /\ GuiGoes("destroy", "exited")
  /\ UNCHANGED <<gdk, cam, destroyed, workerVars, spinnerVars, rateVars, locks, written, queued>>

Repainting == RepaintLock \/ Repaint \/ SpinnerRepaint \/ RepaintUnlock
Closing ==
  \/ OnDestroy \/ Cancel \/ Join \/ JoinFaults
  \/ MainQuit \/ MainReturns \/ ThreadDestroy \/ Exit

-----------------------------------------------------------------------------
Running == ~killed /\ ~fault /\ gui # "exited"

Next ==
  /\ Running
  /\ \/ \E c \in Cams : WorkerStep(c) \/ SpinnerStep(c) \/ FramerateStep(c) \/ Expose(c)
     \/ Repainting \/ WindowClosed \/ Closing

Spec == Init /\ [][Next]_vars

\* Every thread goes on: the threads that take the locks over and over sleep
\* between two turns, so that a thread waiting for one gets it in the end, and
\* open() and the sleeps return. Nobody has to close the window.
Fairness ==
  /\ \A c \in Cams :
       /\ SF_vars(Running /\ WorkerStep(c))
       /\ SF_vars(Running /\ SpinnerStep(c))
       /\ SF_vars(Running /\ FramerateStep(c))
  /\ SF_vars(Running /\ (Repainting \/ Closing))

FairSpec == Spec /\ Fairness

-----------------------------------------------------------------------------
(* Properties                                                              *)

Threads == {Nobody, Gui} \cup {Worker(c) : c \in Cams} \cup {Spinner(c) : c \in Cams}
             \cup {Framerate(c) : c \in Cams}

\* The type of every variable.
TypeOK ==
  /\ gdk \in Threads
  /\ gui \in GuiPcs
  /\ cam \in 1 .. Cameras + 1
  /\ worker \in [Cams -> WorkerPcs]
  /\ spin \in [Cams -> SpinnerPcs]
  /\ rate \in [Cams -> FrameratePcs]
  /\ mutex \in [Cams -> Threads]
  /\ rate_mutex \in [Cams -> Threads]
  /\ state \in [Cams -> ConnStates]
  /\ goal \in [Cams -> ConnStates]
  /\ frames \in [Cams -> 0 .. MaxPerRead]
  /\ spinner \in [Cams -> {"null", "live", "freed"}]
  /\ quit \in [Cams -> BOOLEAN]
  /\ cancelled \in [Cams -> BOOLEAN]
  /\ written \in [Cams -> BOOLEAN]
  /\ queued \in [Cams -> BOOLEAN]
  /\ destroyed \in [Cams -> BOOLEAN]
  /\ {handler, killed, fault} \subseteq BOOLEAN

\* While canvas_repaint() draws the spinner, the worker that owns the object
\* does not free it: the comment in canvas_repaint() takes the global lock for
\* enough ("Hence NO locking is necessary here").
SpinnerPaintedAlive == gui = "spinner_repaint" => spinner[cam] = "live"

\* Unless the connection has failed, that is so: the state is set to CONNECTED
\* and the global lock taken and left before spinner_destroy(), so whoever saw
\* CONNECTING has drawn by then, though nobody reads the state under a lock.
SpinnerPaintedUnlessFailed ==
  gui = "spinner_repaint" /\ goal[cam] # "DISCONNECTED" => spinner[cam] = "live"

\* The spinner thread never runs on an object that spinner_destroy() has freed.
SpinnerThreadHasObject ==
  \A c \in Cams : spin[c] \notin {"none", "end"} => spinner[c] = "live"

\* When mjv_thread_destroy() frees a camera, its worker and its spinner thread
\* are gone and no lock of it is held by them: nobody can be in the middle of a
\* frame. (The framerate thread may still be there: nobody waits for it.)
WorkerGoneWhenDestroyed ==
  \A c \in Cams : destroyed[c] =>
    /\ worker[c] \in {"end", "none"}
    /\ spin[c] \in {"none", "end"}
    /\ spinner[c] = "null"
    /\ mutex[c] = Nobody
    /\ rate_mutex[c] # Worker(c)

\* The signal that wakes the spinner thread only ever wakes it: spinner.c calls
\* SIGUSR1 its quit signal, handled with a stub function.
SignalOnlyWakes == ~killed

\* Closing the window ends the program, whatever the cameras are doing: the
\* main thread waits for the workers, and these need the global lock to finish.
CloseEndsProgram == gui = "on_destroy" ~> (gui = "exited" \/ killed \/ fault)
==============================================================================
