----------------------------- MODULE ViewerProofs -----------------------------
(***************************************************************************)
(* Proofs about the threads of the viewer, for any number of cameras. The  *)
(* invariant has four parts besides the types: who holds the global lock   *)
(* (LockHeld), who holds the mutexes of a camera (MutexHeld), how far the  *)
(* worker of a camera has got with its connection state and its spinner    *)
(* (Phase), and for which workers the main thread has waited (Waited).     *)
(***************************************************************************)
EXTENDS Viewer, TLAPS

GuiLocked    == {"lock", "paint", "spinner_repaint", "unlock", "on_destroy", "leave"}
WorkerLocked == {"update_leave", "got_frame_lock", "framerate_lock", "framerate_unlock",
                 "got_frame_leave", "label_leave"}
Painting     == {"lock", "paint", "spinner_repaint", "unlock"}
Updating     == {"update", "update_enter", "update_leave"}
Destroying   == {"quit_spinner", "kill_spinner", "join_spinner", "forget_spinner"}
Reading      == {"run_framerate", "select", "parse", "got_frame", "got_frame_lock",
                 "framerate_lock", "framerate_unlock", "got_frame_leave", "label",
                 "label_leave"}

\* The main thread and the workers hold the global lock where they should.
LockHeld ==
  /\ gui \in GuiLocked => gdk = Gui
  /\ \A c \in Cams : worker[c] \in WorkerLocked => gdk = Worker(c)

\* A camera's mutex is held by its worker inside callback_got_frame() or by the
\* main thread while it paints that camera.
MutexHeld(c) ==
  /\ mutex[c] \in {Nobody, Gui, Worker(c)}
  /\ mutex[c] = Worker(c) => worker[c] \in {"framerate_lock", "framerate_unlock"}
  /\ mutex[c] = Gui => gui \in {"paint", "spinner_repaint", "unlock"} /\ cam = c
  /\ rate_mutex[c] = Worker(c) => worker[c] = "framerate_unlock"

\* The object of the spinner is freed only between the end of its thread and
\* the reset of the pointer, and there is none once the worker reads or gives
\* up; a worker that frees it on its way to reading has announced that before.
Phase(c) ==
  /\ worker[c] \in {"spinner_create", "none"} => spinner[c] = "null"
  /\ worker[c] \in {"spinner_create", "open"} => goal[c] = "CONNECTING"
  /\ worker[c] \in {"update_enter", "update_leave"} => state[c] = goal[c]
  /\ worker[c] \in Destroying =>
       goal[c] # "CONNECTING" /\ (goal[c] = "CONNECTED" => state[c] = "CONNECTED")
  /\ worker[c] = "forget_spinner" <=> spinner[c] = "freed"
  /\ worker[c] \in Updating /\ goal[c] = "DISCONNECTED" => spinner[c] = "null"
  /\ worker[c] \in Reading \cup {"kill_framerate", "end"} => spinner[c] = "null"
  /\ spin[c] \notin {"none", "end"} => spinner[c] = "live"

\* What the main thread knows of the workers on its way out.
Gone(c) == worker[c] \in {"end", "none"}

Waited ==
  /\ gui \in Painting \cup {"join"} => cam \in Cams
  /\ gui \in {"cancel", "join"} => \A c \in Cams : c < cam => Gone(c)
  /\ gui \in {"leave", "destroy", "exited"} => \A c \in Cams : Gone(c)
  /\ gui \notin {"destroy", "exited"} => \A c \in Cams : ~destroyed[c]

\* While the spinner of a camera is painted that has not failed, its worker has
\* not got past the global lock to spinner_destroy().
Painted ==
  gui = "spinner_repaint" /\ goal[cam] # "DISCONNECTED" =>
    spinner[cam] = "live" /\ worker[cam] \in {"update", "update_enter", "open"}

IInv ==
  /\ TypeOK
  /\ LockHeld
  /\ \A c \in Cams : MutexHeld(c)
  /\ \A c \in Cams : Phase(c)
  /\ Waited
  /\ Painted

-----------------------------------------------------------------------------
\* The threads are told apart by their names and numbers.
LEMMA ThreadsDiffer ==
  ASSUME NEW c \in Cams, NEW d \in Cams
  PROVE  /\ Nobody # Gui /\ Nobody # Worker(c) /\ Nobody # Spinner(c) /\ Nobody # Framerate(c)
         /\ Gui # Worker(c) /\ Gui # Spinner(c) /\ Gui # Framerate(c)
         /\ Worker(c) # Spinner(d) /\ Worker(c) # Framerate(d)
         /\ Worker(c) = Worker(d) => c = d
BY DEF Nobody, Gui, Worker, Spinner, Framerate

LEMMA InitIInv == Init => IInv
<1> SUFFICES ASSUME Init PROVE IInv
  OBVIOUS
<1>1. TypeOK
  <2>1. cam \in 1 .. Cameras + 1 /\ frames \in [Cams -> 0 .. MaxPerRead]
    BY ViewerAssumption DEF ViewerAssumption, Init
  <2>2. {handler, killed, fault} \subseteq BOOLEAN
    BY DEF Init
  <2> QED
    BY <2>1, <2>2
    DEF Init, TypeOK, Threads, GuiPcs, WorkerPcs, SpinnerPcs, FrameratePcs, ConnStates
<1>2. LockHeld
  BY DEF Init, LockHeld, GuiLocked, WorkerLocked
<1>3. \A c \in Cams : MutexHeld(c)
  BY ThreadsDiffer DEF Init, MutexHeld
<1>4. \A c \in Cams : Phase(c)
  BY DEF Init, Phase, Destroying, Updating, Reading
<1>5. Waited /\ Painted
  BY DEF Init, Waited, Painted, Painting
<1> QED
  BY <1>1, <1>2, <1>3, <1>4, <1>5 DEF IInv

-----------------------------------------------------------------------------
(* The types.                                                              *)

LEMMA HoldersAreThreads ==
  /\ Nobody \in Threads /\ Gui \in Threads
  /\ \A c \in Cams : {Worker(c), Spinner(c), Framerate(c)} \subseteq Threads
BY DEF Threads

\* A step of a worker keeps the types.
LEMMA WorkerTypes ==
  ASSUME TypeOK, NEW c \in Cams, WorkerStep(c)
  PROVE  TypeOK'
<1> USE ViewerAssumption, HoldersAreThreads
  DEF ViewerAssumption, TypeOK, WorkerPcs, guiVars, spinnerVars, rateVars, locks,
      WorkerGoes, Enter, Leave, Lock, Unlock
<1>1. CASE SpinnerCreate(c)
  BY <1>1 DEF SpinnerCreate, SpinnerPcs
<1>2. CASE UpdateState(c)
  BY <1>2 DEF UpdateState
<1>3. CASE UpdateStateEnter(c)
  BY <1>3 DEF UpdateStateEnter
<1>4. CASE UpdateStateLeave(c)
  BY <1>4 DEF UpdateStateLeave, AfterUpdate, ConnStates
<1>5. CASE OpenSucceeds(c) \/ OpenFails(c)
  BY <1>5 DEF OpenSucceeds, OpenFails, ConnStates
<1>6. CASE QuitSpinner(c)
  BY <1>6 DEF QuitSpinner, AfterSpinner
<1>7. CASE KillSpinner(c)
  BY <1>7 DEF KillSpinner
<1>8. CASE JoinSpinner(c) \/ ForgetSpinner(c)
  BY <1>8 DEF JoinSpinner, ForgetSpinner, AfterSpinner
<1>9. CASE RunFramerate(c)
  BY <1>9 DEF RunFramerate, FrameratePcs
<1>10. CASE ReadCamera(c)
  BY <1>10 DEF ReadCamera
<1>11. CASE GrabberReturns(c) \/ OutOfBytes(c)
  BY <1>11 DEF GrabberReturns, OutOfBytes, ConnStates
<1>12. CASE GotFrame(c)
  BY <1>12 DEF GotFrame
<1>13. CASE GotFrameEnter(c) \/ GotFrameLeave(c)
  BY <1>13 DEF GotFrameEnter, GotFrameLeave
<1>14. CASE GotFrameLock(c) \/ InsertDatapoint(c) \/ GotFrameUnlock(c)
  <2>1. CASE GotFrameLock(c)
    BY <2>1 DEF GotFrameLock
  <2>2. CASE InsertDatapoint(c) \/ GotFrameUnlock(c)
    BY <2>2 DEF InsertDatapoint, GotFrameUnlock
  <2> QED
    BY <1>14, <2>1, <2>2
<1>15. CASE UpdateFramebufLabel(c) \/ LabelLeave(c)
  BY <1>15 DEF UpdateFramebufLabel, LabelLeave
<1>16. CASE KillFramerate(c)
  BY <1>16 DEF KillFramerate
<1>17. CASE KillFaults(c)
  BY <1>17 DEF KillFaults, workerVars
<1> QED
  BY <1>1, <1>2, <1>3, <1>4, <1>5, <1>6, <1>7, <1>8, <1>9, <1>10, <1>11, <1>12, <1>13,
     <1>14, <1>15, <1>16, <1>17
  DEF WorkerStep

\* A step of a spinner thread keeps the types.
LEMMA SpinnerTypes ==
  ASSUME TypeOK, NEW c \in Cams, SpinnerStep(c)
  PROVE  TypeOK'
<1> USE HoldersAreThreads DEF TypeOK, SpinnerPcs, guiVars, workerVars, rateVars, locks, SpinnerGoes,
      Enter, Leave
<1>1. CASE InstallHandler(c)
  BY <1>1 DEF InstallHandler
<1>2. CASE CheckQuit(c) \/ SpinnerWakes(c)
  BY <1>2 DEF CheckQuit, SpinnerWakes
<1>3. CASE OnSpinnerTick(c) \/ OnSpinnerTickLeave(c)
  BY <1>3 DEF OnSpinnerTick, OnSpinnerTickLeave
<1> QED
  BY <1>1, <1>2, <1>3 DEF SpinnerStep

\* A step of a framerate thread keeps the types.
LEMMA FramerateTypes ==
  ASSUME TypeOK, NEW c \in Cams, FramerateStep(c)
  PROVE  TypeOK'
<1> USE HoldersAreThreads DEF TypeOK, FrameratePcs, guiVars, workerVars, spinnerVars, locks,
      FramerateGoes, Enter, Leave, Lock, Unlock
<1>1. CASE EstimateLock(c) \/ EstimateUnlock(c)
  BY <1>1 DEF EstimateLock, EstimateUnlock
<1>2. CASE FramerateLabel(c) \/ FramerateLabelLeave(c)
  BY <1>2 DEF FramerateLabel, FramerateLabelLeave
<1>3. CASE FramerateSleep(c)
  BY <1>3 DEF FramerateSleep
<1> QED
  BY <1>1, <1>2, <1>3 DEF FramerateStep

GuiStep == (\E c \in Cams : Expose(c)) \/ Repainting \/ WindowClosed \/ Closing

\* A step of the main thread keeps the types.
LEMMA GuiTypes ==
  ASSUME TypeOK, Waited, GuiStep
  PROVE  TypeOK'
<1> USE ViewerAssumption, HoldersAreThreads
  DEF ViewerAssumption, TypeOK, GuiPcs, Cams, workerVars, spinnerVars, rateVars,
      locks, GuiGoes, Enter, Leave, Lock, Unlock
<1>1. CASE \E c \in Cams : Expose(c)
  BY <1>1 DEF Expose
<1>2. CASE Repainting
  <2>1. CASE RepaintLock
    BY <2>1 DEF RepaintLock
  <2>2. CASE RepaintUnlock
    BY <2>2 DEF RepaintUnlock
  <2>3. CASE Repaint \/ SpinnerRepaint
    BY <2>3 DEF Repaint, SpinnerRepaint
  <2> QED
    BY <1>2, <2>1, <2>2, <2>3 DEF Repainting
<1>3. CASE WindowClosed \/ OnDestroy \/ Cancel \/ MainQuit \/ MainReturns
  <2>1. CASE WindowClosed \/ MainQuit
    BY <2>1 DEF WindowClosed, MainQuit
  <2>2. CASE OnDestroy \/ MainReturns
    BY <2>2 DEF OnDestroy, MainReturns
  <2>3. CASE Cancel
    BY <2>3 DEF Cancel
  <2> QED
    BY <1>3, <2>1, <2>2, <2>3
<1>4. CASE Join
  BY <1>4 DEF Join, Waited
<1>5. CASE JoinFaults
  BY <1>5 DEF JoinFaults, guiVars
<1>6. CASE ThreadDestroy \/ Exit
  <2>1. CASE ThreadDestroy
    BY <2>1 DEF ThreadDestroy
  <2>2. CASE Exit
    BY <2>2 DEF Exit
  <2> QED
    BY <1>6, <2>1, <2>2
<1> QED
  BY <1>1, <1>2, <1>3, <1>4, <1>5, <1>6 DEF GuiStep, Closing

-----------------------------------------------------------------------------
(* The steps of a worker.                                                  *)

\* A worker enters and leaves the global lock at its own places, and the
\* mutexes inside them.
LEMMA WorkerLocks ==
  ASSUME IInv, NEW c \in Cams, WorkerStep(c)
  PROVE  LockHeld' /\ \A d \in Cams : MutexHeld(d)'
<1> USE ThreadsDiffer
  DEF IInv, TypeOK, LockHeld, MutexHeld, GuiLocked, WorkerLocked, guiVars, spinnerVars,
      rateVars, locks, WorkerGoes, Enter, Leave, Lock, Unlock
<1>1. CASE SpinnerCreate(c) \/ UpdateState(c) \/ OpenSucceeds(c) \/ OpenFails(c)
  BY <1>1 DEF SpinnerCreate, UpdateState, OpenSucceeds, OpenFails
<1>2. CASE UpdateStateEnter(c)
  BY <1>2 DEF UpdateStateEnter
<1>3. CASE UpdateStateLeave(c)
  BY <1>3 DEF UpdateStateLeave, AfterUpdate, ConnStates
<1>4. CASE QuitSpinner(c)
  BY <1>4 DEF QuitSpinner, AfterSpinner
<1>5. CASE KillSpinner(c) \/ JoinSpinner(c) \/ ForgetSpinner(c)
  BY <1>5 DEF KillSpinner, JoinSpinner, ForgetSpinner, AfterSpinner
<1>6. CASE RunFramerate(c) \/ ReadCamera(c) \/ GrabberReturns(c) \/ OutOfBytes(c)
  BY <1>6 DEF RunFramerate, ReadCamera, GrabberReturns, OutOfBytes
<1>7. CASE GotFrame(c) \/ KillFramerate(c)
  BY <1>7 DEF GotFrame, KillFramerate
<1>8. CASE GotFrameEnter(c) \/ UpdateFramebufLabel(c)
  BY <1>8 DEF GotFrameEnter, UpdateFramebufLabel
<1>9. CASE GotFrameLock(c)
  BY <1>9 DEF GotFrameLock
<1>10. CASE InsertDatapoint(c)
  BY <1>10 DEF InsertDatapoint
<1>11. CASE GotFrameUnlock(c)
  BY <1>11 DEF GotFrameUnlock
<1>12. CASE GotFrameLeave(c) \/ LabelLeave(c)
  BY <1>12 DEF GotFrameLeave, LabelLeave
<1>13. CASE KillFaults(c)
  BY <1>13 DEF KillFaults, workerVars
<1> QED
  BY <1>1, <1>2, <1>3, <1>4, <1>5, <1>6, <1>7, <1>8, <1>9, <1>10, <1>11, <1>12, <1>13
  DEF WorkerStep

\* A worker goes through the phases of its connection.
LEMMA WorkerPhases ==
  ASSUME IInv, NEW c \in Cams, WorkerStep(c)
  PROVE  \A d \in Cams : Phase(d)'
<1> USE DEF IInv, TypeOK, ConnStates, Phase, Destroying, Updating, Reading, spinnerVars,
      WorkerGoes
<1>1. CASE SpinnerCreate(c)
  BY <1>1 DEF SpinnerCreate
<1>2. CASE UpdateState(c) \/ UpdateStateEnter(c)
  BY <1>2 DEF UpdateState, UpdateStateEnter
<1>3. CASE UpdateStateLeave(c)
  BY <1>3 DEF UpdateStateLeave, AfterUpdate
<1>4. CASE OpenSucceeds(c) \/ OpenFails(c)
  BY <1>4 DEF OpenSucceeds, OpenFails
<1>5. CASE QuitSpinner(c)
  BY <1>5 DEF QuitSpinner, AfterSpinner
<1>6. CASE KillSpinner(c)
  BY <1>6 DEF KillSpinner
<1>7. CASE JoinSpinner(c)
  BY <1>7 DEF JoinSpinner
<1>8. CASE ForgetSpinner(c)
  BY <1>8 DEF ForgetSpinner, AfterSpinner
<1>9. CASE RunFramerate(c) \/ ReadCamera(c) \/ OutOfBytes(c) \/ GotFrame(c)
  BY <1>9 DEF RunFramerate, ReadCamera, OutOfBytes, GotFrame
<1>10. CASE GrabberReturns(c)
  BY <1>10 DEF GrabberReturns
<1>11. CASE GotFrameEnter(c) \/ GotFrameLock(c) \/ InsertDatapoint(c)
  BY <1>11 DEF GotFrameEnter, GotFrameLock, InsertDatapoint
<1>12. CASE GotFrameUnlock(c) \/ GotFrameLeave(c)
  BY <1>12 DEF GotFrameUnlock, GotFrameLeave
<1>13. CASE UpdateFramebufLabel(c) \/ LabelLeave(c) \/ KillFramerate(c)
  BY <1>13 DEF UpdateFramebufLabel, LabelLeave, KillFramerate
<1>14. CASE KillFaults(c)
  BY <1>14 DEF KillFaults, workerVars
<1> QED
  BY <1>1, <1>2, <1>3, <1>4, <1>5, <1>6, <1>7, <1>8, <1>9, <1>10, <1>11, <1>12, <1>13, <1>14
  DEF WorkerStep

\* A worker that moves has not ended, and leaves the other cameras alone.
LEMMA WorkerMovesItself ==
  ASSUME TypeOK, NEW c \in Cams, WorkerStep(c)
  PROVE  /\ UNCHANGED guiVars
         /\ ~Gone(c)
         /\ \A d \in Cams \ {c} :
              worker'[d] = worker[d] /\ goal'[d] = goal[d] /\ spinner'[d] = spinner[d]
<1> USE DEF TypeOK, Gone, spinnerVars, WorkerGoes
<1>1. CASE SpinnerCreate(c) \/ UpdateState(c) \/ UpdateStateEnter(c) \/ UpdateStateLeave(c)
  BY <1>1 DEF SpinnerCreate, UpdateState, UpdateStateEnter, UpdateStateLeave
<1>2. CASE OpenSucceeds(c) \/ OpenFails(c) \/ QuitSpinner(c) \/ KillSpinner(c)
  BY <1>2 DEF OpenSucceeds, OpenFails, QuitSpinner, KillSpinner
<1>3. CASE JoinSpinner(c) \/ ForgetSpinner(c) \/ RunFramerate(c) \/ ReadCamera(c)
  BY <1>3 DEF JoinSpinner, ForgetSpinner, RunFramerate, ReadCamera
<1>4. CASE GrabberReturns(c) \/ OutOfBytes(c) \/ GotFrame(c) \/ GotFrameEnter(c)
  BY <1>4 DEF GrabberReturns, OutOfBytes, GotFrame, GotFrameEnter
<1>5. CASE GotFrameLock(c) \/ InsertDatapoint(c) \/ GotFrameUnlock(c) \/ GotFrameLeave(c)
  BY <1>5 DEF GotFrameLock, InsertDatapoint, GotFrameUnlock, GotFrameLeave
<1>6. CASE UpdateFramebufLabel(c) \/ LabelLeave(c) \/ KillFramerate(c) \/ KillFaults(c)
  BY <1>6 DEF UpdateFramebufLabel, LabelLeave, KillFramerate, KillFaults, workerVars
<1> QED
  BY <1>1, <1>2, <1>3, <1>4, <1>5, <1>6 DEF WorkerStep

LEMMA WorkerWaited ==
  ASSUME IInv, NEW c \in Cams, WorkerStep(c)
  PROVE  Waited'
<1>1. \A d \in Cams : Gone(d) => Gone(d)'
  BY WorkerMovesItself DEF IInv, Gone
<1> QED
  BY <1>1, WorkerMovesItself DEF IInv, Waited, guiVars

\* The main thread has the global lock while it paints, and the worker whose
\* connection has not failed cannot get past it.
LEMMA WorkerPainted ==
  ASSUME IInv, NEW c \in Cams, WorkerStep(c)
  PROVE  Painted'
<1> SUFFICES ASSUME gui' = "spinner_repaint", goal'[cam'] # "DISCONNECTED"
             PROVE  spinner'[cam'] = "live" /\ worker'[cam'] \in {"update", "update_enter", "open"}
  BY DEF Painted
<1>1. gui = "spinner_repaint" /\ cam' = cam /\ cam \in Cams /\ gdk = Gui
  BY WorkerMovesItself DEF IInv, guiVars, LockHeld, Waited, Painting, GuiLocked
<1>2. CASE c # cam
  BY <1>1, <1>2, WorkerMovesItself DEF IInv, Painted
<1>3. CASE c = cam /\ goal[c] = "DISCONNECTED"
  <2>1. OpenSucceeds(c)
    BY <1>1, <1>3
    DEF IInv, TypeOK, WorkerStep, SpinnerCreate, UpdateState, UpdateStateEnter, UpdateStateLeave,
        OpenFails, QuitSpinner, KillSpinner, JoinSpinner, ForgetSpinner, RunFramerate,
        ReadCamera, GrabberReturns, OutOfBytes, GotFrame, GotFrameEnter, GotFrameLock,
        InsertDatapoint, GotFrameUnlock, GotFrameLeave, UpdateFramebufLabel, LabelLeave,
        KillFramerate, KillFaults, workerVars
  <2> QED
    BY <1>3, <2>1 DEF IInv, Phase, OpenSucceeds, WorkerGoes
<1>4. CASE c = cam /\ goal[c] # "DISCONNECTED"
  <2>1. spinner[c] = "live" /\ worker[c] \in {"update", "update_enter", "open"}
    BY <1>1, <1>4 DEF IInv, Painted
  <2>2. UpdateState(c) \/ OpenSucceeds(c) \/ OpenFails(c)
    BY <1>1, <2>1, ThreadsDiffer
    DEF WorkerStep, SpinnerCreate, UpdateStateEnter, UpdateStateLeave, Enter, WorkerGoes,
        QuitSpinner, KillSpinner, JoinSpinner, ForgetSpinner, RunFramerate,
        ReadCamera, GrabberReturns, OutOfBytes, GotFrame, GotFrameEnter, GotFrameLock,
        InsertDatapoint, GotFrameUnlock, GotFrameLeave, UpdateFramebufLabel, LabelLeave,
        KillFramerate, KillFaults
  <2> QED
    BY <1>1, <1>4, <2>1, <2>2
    DEF IInv, TypeOK, UpdateState, OpenSucceeds, OpenFails, WorkerGoes, spinnerVars
<1> QED
  BY <1>2, <1>3, <1>4

-----------------------------------------------------------------------------
(* The steps of the other threads.                                         *)

\* A spinner thread never runs without its object, which stays where it is.
LEMMA SpinnerKeeps ==
  ASSUME IInv, NEW c \in Cams, SpinnerStep(c)
  PROVE  LockHeld' /\ (\A d \in Cams : MutexHeld(d)' /\ Phase(d)') /\ Waited' /\ Painted'
<1>1. /\ UNCHANGED <<guiVars, workerVars, locks, spinner>>
      /\ gdk' = gdk \/ (gdk = Nobody /\ gdk' = Spinner(c)) \/ (gdk = Spinner(c) /\ gdk' = Nobody)
      /\ spin[c] \notin {"none", "end"}
      /\ \A d \in Cams \ {c} : spin'[d] = spin[d]
  BY DEF IInv, TypeOK, SpinnerStep, InstallHandler, CheckQuit, SpinnerWakes, OnSpinnerTick,
         OnSpinnerTickLeave, SpinnerGoes, Enter, Leave
<1>2. LockHeld'
  BY <1>1, ThreadsDiffer DEF IInv, LockHeld, GuiLocked, WorkerLocked, guiVars, workerVars
<1>3. \A d \in Cams : MutexHeld(d)' /\ Phase(d)'
  BY <1>1 DEF IInv, MutexHeld, Phase, guiVars, workerVars, locks
<1>4. Waited' /\ Painted'
  BY <1>1 DEF IInv, Waited, Painted, Gone, guiVars, workerVars
<1> QED
  BY <1>2, <1>3, <1>4

\* A framerate thread touches nothing but the global lock and its own mutex.
LEMMA FramerateKeeps ==
  ASSUME IInv, NEW c \in Cams, FramerateStep(c)
  PROVE  LockHeld' /\ (\A d \in Cams : MutexHeld(d)' /\ Phase(d)') /\ Waited' /\ Painted'
<1>1. /\ UNCHANGED <<guiVars, workerVars, spinnerVars, mutex>>
      /\ \/ gdk' = gdk
         \/ gdk = Nobody /\ gdk' = Framerate(c)
         \/ gdk = Framerate(c) /\ gdk' = Nobody
      /\ \A d \in Cams : rate_mutex'[d] \in {rate_mutex[d], Nobody, Framerate(c)}
  BY DEF IInv, TypeOK, FramerateStep, EstimateLock, EstimateUnlock, FramerateLabel,
         FramerateLabelLeave, FramerateSleep, FramerateGoes, Enter, Leave, Lock, Unlock, locks
<1>2. LockHeld'
  BY <1>1, ThreadsDiffer DEF IInv, LockHeld, GuiLocked, WorkerLocked, guiVars, workerVars
<1>3. \A d \in Cams : MutexHeld(d)'
  BY <1>1, ThreadsDiffer DEF IInv, MutexHeld, guiVars, workerVars
<1>4. \A d \in Cams : Phase(d)'
  BY <1>1 DEF IInv, Phase, workerVars, spinnerVars
<1>5. Waited' /\ Painted'
  BY <1>1 DEF IInv, Waited, Painted, Gone, guiVars, workerVars, spinnerVars
<1> QED
  BY <1>2, <1>3, <1>4, <1>5

\* The main thread decides to paint a spinner: it has the global lock, so the
\* worker has not got beyond the state CONNECTING it has just seen.
LEMMA RepaintPainted ==
  ASSUME IInv, Repaint
  PROVE  Painted'
<1> SUFFICES ASSUME gui' = "spinner_repaint", goal[cam] # "DISCONNECTED"
             PROVE  spinner[cam] = "live" /\ worker[cam] \in {"update", "update_enter", "open"}
  BY DEF Painted, Repaint, workerVars, spinnerVars
<1>1. gui = "paint" /\ cam \in Cams /\ gdk = Gui
  BY DEF IInv, Repaint, GuiGoes, Waited, Painting, LockHeld, GuiLocked
<1>2. state[cam] = "CONNECTING" /\ spinner[cam] # "null"
  BY <1>1 DEF Repaint, GuiGoes, Spinning
<1>3. worker[cam] \notin WorkerLocked
  BY <1>1, ThreadsDiffer DEF IInv, LockHeld
<1>4. worker[cam] \notin Destroying
  BY <1>1, <1>2 DEF IInv, Phase, TypeOK, ConnStates
<1>5. worker[cam] \in {"update", "update_enter", "open"}
  BY <1>1, <1>2, <1>3, <1>4
  DEF IInv, Phase, TypeOK, WorkerPcs, WorkerLocked, Destroying, Reading
<1>6. spinner[cam] = "live"
  BY <1>1, <1>2, <1>5 DEF IInv, Phase, TypeOK
<1> QED
  BY <1>5, <1>6

\* The main thread keeps to its locks, and waits for one worker after the other.
LEMMA GuiKeeps ==
  ASSUME IInv, GuiStep
  PROVE  LockHeld' /\ (\A d \in Cams : MutexHeld(d)' /\ Phase(d)') /\ Waited' /\ Painted'
<1>1. UNCHANGED <<workerVars, spinnerVars, rate_mutex>>
  BY DEF GuiStep, Expose, Repainting, RepaintLock, Repaint, SpinnerRepaint, RepaintUnlock,
         WindowClosed, Closing, OnDestroy, Cancel, Join, JoinFaults, MainQuit, MainReturns,
         ThreadDestroy, Exit, locks
<1>2. \A d \in Cams : Phase(d)'
  BY <1>1 DEF IInv, Phase, workerVars, spinnerVars
<1>3. LockHeld'
  <2> USE <1>1, ThreadsDiffer DEF IInv, LockHeld, GuiLocked, WorkerLocked, workerVars, GuiGoes,
      Enter, Leave
  <2>1. CASE (\E c \in Cams : Expose(c)) \/ WindowClosed \/ MainQuit
    BY <2>1 DEF Expose, WindowClosed, MainQuit
  <2>2. CASE RepaintLock \/ Repaint \/ SpinnerRepaint
    BY <2>2 DEF RepaintLock, Repaint, SpinnerRepaint
  <2>3. CASE RepaintUnlock \/ OnDestroy \/ MainReturns
    BY <2>3 DEF RepaintUnlock, OnDestroy, MainReturns
  <2>4. CASE Cancel \/ Join \/ JoinFaults \/ ThreadDestroy \/ Exit
    BY <2>4 DEF Cancel, Join, JoinFaults, ThreadDestroy, Exit, guiVars
  <2> QED
    BY <2>1, <2>2, <2>3, <2>4 DEF GuiStep, Repainting, Closing
<1>4. \A d \in Cams : MutexHeld(d)'
  <2> USE <1>1, ThreadsDiffer DEF IInv, TypeOK, MutexHeld, workerVars, GuiGoes, Lock, Unlock,
      locks
  <2>1. CASE (\E c \in Cams : Expose(c)) \/ WindowClosed \/ MainQuit
    BY <2>1 DEF Expose, WindowClosed, MainQuit
  <2>2. CASE RepaintLock
    BY <2>2 DEF RepaintLock
  <2>3. CASE Repaint \/ SpinnerRepaint
    BY <2>3 DEF Repaint, SpinnerRepaint
  <2>4. CASE RepaintUnlock
    BY <2>4 DEF RepaintUnlock
  <2>5. CASE OnDestroy \/ MainReturns \/ Cancel \/ Join \/ JoinFaults
    BY <2>5 DEF OnDestroy, MainReturns, Cancel, Join, JoinFaults, guiVars
  <2>6. CASE ThreadDestroy \/ Exit
    BY <2>6 DEF ThreadDestroy, Exit
  <2> QED
    BY <2>1, <2>2, <2>3, <2>4, <2>5, <2>6 DEF GuiStep, Repainting, Closing
<1>5. Waited'
  <2> USE <1>1, ViewerAssumption DEF ViewerAssumption, IInv, TypeOK, Waited, Painting, Gone,
      workerVars, GuiGoes, Cams
  <2>1. CASE (\E c \in Cams : Expose(c)) \/ WindowClosed \/ OnDestroy
    BY <2>1 DEF Expose, WindowClosed, OnDestroy
  <2>2. CASE RepaintLock \/ Repaint \/ SpinnerRepaint \/ RepaintUnlock
    BY <2>2 DEF RepaintLock, Repaint, SpinnerRepaint, RepaintUnlock
  <2>3. CASE Cancel
    BY <2>3 DEF Cancel
  <2>4. CASE Join
    BY <2>4 DEF Join
  <2>5. CASE MainQuit \/ MainReturns
    BY <2>5 DEF MainQuit, MainReturns
  <2>6. CASE JoinFaults \/ ThreadDestroy \/ Exit
    BY <2>6 DEF JoinFaults, ThreadDestroy, Exit, guiVars
  <2> QED
    BY <2>1, <2>2, <2>3, <2>4, <2>5, <2>6 DEF GuiStep, Repainting, Closing
<1>6. Painted'
  <2>1. CASE Repaint
    BY <2>1, RepaintPainted
  <2>2. CASE ~Repaint
    BY <1>1, <2>2
    DEF IInv, Painted, workerVars, spinnerVars, GuiStep, Expose, Repainting, RepaintLock,
        SpinnerRepaint, RepaintUnlock, WindowClosed, Closing, OnDestroy, Cancel, Join,
        JoinFaults, MainQuit, MainReturns, ThreadDestroy, Exit, GuiGoes, guiVars
  <2> QED
    BY <2>1, <2>2
<1> QED
  BY <1>2, <1>3, <1>4, <1>5, <1>6

-----------------------------------------------------------------------------
(* The invariant, and what follows from it.                                *)

\* IInv is inductive, whatever step comes next.
LEMMA StepIInv == IInv /\ [Next]_vars => IInv'
<1> SUFFICES ASSUME IInv, [Next]_vars PROVE IInv'
  OBVIOUS
<1>1. ASSUME NEW c \in Cams, WorkerStep(c) PROVE IInv'
  BY <1>1, WorkerTypes, WorkerLocks, WorkerPhases, WorkerWaited, WorkerPainted DEF IInv
<1>2. ASSUME NEW c \in Cams, SpinnerStep(c) PROVE IInv'
  BY <1>2, SpinnerTypes, SpinnerKeeps DEF IInv
<1>3. ASSUME NEW c \in Cams, FramerateStep(c) PROVE IInv'
  BY <1>3, FramerateTypes, FramerateKeeps DEF IInv
<1>4. CASE GuiStep
  BY <1>4, GuiTypes, GuiKeeps DEF IInv
<1>5. CASE UNCHANGED vars
  <2>1. UNCHANGED <<gdk, gui, cam, destroyed, worker, state, goal, frames, spin, spinner, quit>>
        /\ UNCHANGED <<handler, killed, rate, cancelled, fault, mutex, rate_mutex, written, queued>>
    BY <1>5 DEF vars, guiVars, workerVars, spinnerVars, rateVars, locks
  <2>2. TypeOK'
    BY <2>1 DEF IInv, TypeOK
  <2>3. LockHeld' /\ Waited' /\ Painted'
    BY <2>1 DEF IInv, LockHeld, Waited, Gone, Painted
  <2>4. \A c \in Cams : MutexHeld(c)' /\ Phase(c)'
    BY <2>1 DEF IInv, MutexHeld, Phase
  <2> QED
    BY <2>2, <2>3, <2>4 DEF IInv
<1> QED
  BY <1>1, <1>2, <1>3, <1>4, <1>5 DEF Next, GuiStep

LEMMA Invariance == Spec => []IInv
BY InitIInv, StepIInv, PTL DEF Spec

\* The variables keep their types, for any number of cameras.
THEOREM TypeCorrect == Spec => []TypeOK
<1>1. IInv => TypeOK
  BY DEF IInv
<1> QED
  BY <1>1, Invariance, PTL

\* No spinner thread runs on an object that spinner_destroy() has freed, for any
\* number of cameras, wherever their workers and the main thread interleave.
THEOREM SpinnerThreadCorrect == Spec => []SpinnerThreadHasObject
<1>1. IInv => SpinnerThreadHasObject
  BY DEF IInv, Phase, SpinnerThreadHasObject
<1> QED
  BY <1>1, Invariance, PTL

\* canvas_repaint() draws a spinner that is there, unless the connection of its
\* camera has failed: a worker that succeeds has to pass the global lock between
\* setting the state and freeing the object.
THEOREM SpinnerPaintedCorrect == Spec => []SpinnerPaintedUnlessFailed
<1>1. IInv => SpinnerPaintedUnlessFailed
  BY DEF IInv, Painted, SpinnerPaintedUnlessFailed
<1> QED
  BY <1>1, Invariance, PTL

\* Whatever mjv_thread_destroy() frees, its worker and its spinner thread are
\* gone by then and neither of its mutexes is held by the worker.
THEOREM DestroyCorrect == Spec => []WorkerGoneWhenDestroyed
<1>1. IInv => WorkerGoneWhenDestroyed
  <2> SUFFICES ASSUME IInv, NEW c \in Cams, destroyed[c]
               PROVE  /\ worker[c] \in {"end", "none"}
                      /\ spin[c] \in {"none", "end"}
                      /\ spinner[c] = "null"
                      /\ mutex[c] = Nobody
                      /\ rate_mutex[c] # Worker(c)
    BY DEF WorkerGoneWhenDestroyed
  <2>1. gui \in {"destroy", "exited"} /\ Gone(c)
    BY DEF IInv, Waited
  <2>2. spinner[c] = "null" /\ spin[c] \in {"none", "end"}
    BY <2>1 DEF IInv, Phase, Gone
  <2>3. mutex[c] = Nobody /\ rate_mutex[c] # Worker(c)
    BY <2>1 DEF IInv, MutexHeld, Gone
  <2> QED
    BY <2>1, <2>2, <2>3 DEF Gone
<1> QED
  BY <1>1, Invariance, PTL
===============================================================================
