# A TLA+ model of MJPEGView

MJPEGView (`src/`) is a suite of programs that decode and view MJPEG streams of
network cameras: the viewer `mjpegview`, and the dumpers `mjvsingle` (one
camera) and `mjvmulti` (several). This directory holds TLA+ modules translated
from its code, the configurations under which TLC checks them, and proofs of
their main theorems for TLAPS. `PROJECT.json` is the index: which definition
stands for which lines, what each run checks, and which slip in the code would
break each property.

## The system

| Component | State | Operations | Modelled in |
| --- | --- | --- | --- |
| Stream grabber, `mjv_grabber.c` | parser state, read buffer with `cur`, `head`, `anchor`, boundary, content length | `mjv_grabber_run()`: read, parse, deliver frames to a callback, shift the buffer | `Grabber` |
| Ring, `ringbuf.c` | slots, `next`, `used` | append, oldest, newest, destroy | `RingBuf` |
| Frames and frame buffer, `frame.c`, `framebuf.c` and the frame callback of `mjv_thread.c` | blocks of pixels, the pixbuf on show, a mutex, the label | create, decode, show, keep, label, paint, destroy | `Frames`, on top of `RingBuf` |
| Viewer, `mjv_gui.c`, `mjv_thread.c`, `spinner.c` | GDK's global lock, two mutexes and a connection state per camera, the spinner object | main, worker, spinner and framerate threads | `Viewer` |
| Self-pipe, `selfpipe.c`, and `source_read()`, `source.c` | the two ends of a pipe and a byte in it | make, write and close, select and read | `SelfPipe`, used by the two dumpers |
| Sources, `source.c`, `source_network.c`, `source_file.c` | the object and its strings on the heap, a descriptor, addresses to try, the lines sent | create, open, send the request with its credentials, destroy | `Source`, `Base64` |
| File names, `filename.c` | | count the characters, forge the name | `Filename` |
| `mjvmulti.c` | a list of structures, a thread each, `quit_flag`, the files written | create, start, wait, cancel, join, free | `Multi`, on top of `Filename` |
| `mjvsingle.c` | a source, the objects, two static descriptors | main and its signal handler | `Single`, on top of `Source` |
| Configuration, `mjv_config.c` | a linked list of sources with one iterator | build, walk, destroy | `Config` |
| Framerate estimator, `framerate.c` | a ring of timestamps | insert, estimate | `Framerate` |
| `mjv_log.c` | one flag | print a message | not modelled |

How they interact: a program builds the configuration and walks its list of
sources (`mjvsingle` makes its only source from the options). It opens each, which
for a camera means to connect and to send a request, and makes a grabber and a
self-pipe, whose read end it hands to the source. The thread that runs the grabber
blocks in `select()` on the camera and the pipe; frames come back through a
callback in that same thread, which writes them to files (the dumpers) or, under
the global lock and the camera's mutex, replaces the picture, feeds the estimator
and appends the frame to the ring, which owns it from then on (the viewer). To stop
a thread the main thread, or a signal handler, writes a byte into the pipe.

What is hard: `read()` cuts the stream anywhere while the parser keeps pointers
into a buffer that moves; the state of one part of the stream survives into the
next; threads share fields some of which no lock protects; a callback waits for
threads that need the lock it was called with; a signal may come at any
instruction; error paths free what another path frees too. `PROJECT.json` lists
these hazards line by line, with the properties that would catch each, or why
none does yet.

## The modules

**`Grabber`**, with `Camera`, `MCGrabber` and the abstract `FrameSlices`. A step is
one turn of a state function's loop, one `adjust_streambuf()`, or one
`source_read()`. Pointers are indices, `NULL` is -1. A byte is a symbol: the line
ends and JPEG markers that the code compares with, other single bytes, and one
symbol for the text of a whole header line. That is no loss: the code looks at
such a text only when its line is complete, and where `read()` cuts it makes no
difference. What the code reads in a header line is a constant (`TypeLine`,
`LengthLine`), so the proofs hold for every reading. `FetchHeaderLine` is a step
inside a line, `HeaderLine` its end. `got_new_frame()` either appends to `frames`
or, if memory may run out, does not. Two notes on the code: after a mismatch in
the search for a boundary the code goes on to compare `LINE_LEN` with the anchor
`NULL`, which is an address cut to 32 bits; it is taken to equal no boundary
length. `artificial_delay()` is dead code. Lines that lack the terminating
character the code relies on (an empty `boundary=` at the end of a line, a header
name with nothing behind it) are not among the inputs.

`FrameSlices` is the promise: frames are disjoint slices of what was received, in
order, each begins with FF D8 and none is longer than the buffer. `Camera` is the
other end of the connection, external to the code: a script of parts, the bytes
it turns into, and the images in any prefix of them. `MCGrabber` has the symbols,
the scripts, what the code relies on in one (`WellFormed`), and the property that compares
what was delivered with what was sent.

**`RingBuf`**, with the abstract `FrameWindow`: the ring as the frame buffer uses it,
a frame being the number of its append. An append is one step (one thread owns
the ring); the loop of the destruction takes one per slot. `FrameWindow` is a set
of frames, of which the smallest makes room.

**`Frames`**, with `MCFrames`, is one camera of the viewer seen from its frames: the
worker makes a frame, decodes it into a new block of pixels or fails before or
after the block is allocated, replaces the pixbuf under the camera's mutex, appends the
frame to the ring and writes the label; the main thread paints the pixbuf under
the same mutex, and when the window is closed joins the worker and destroys ring and
pixbuf. A block is the number of its allocation. The label is what
`framebuf_status_string()` computes, as numbers; `Stamp` is the time of each frame.
The pixels of a frame that libjpeg gives up on are lost, and the model loses them
too. libjpeg itself is external: it finishes or reports an error.

**`Viewer`**: a step is what a thread does between two points where another could tell
the difference: taking or leaving a lock, or touching a field no lock protects.
`t->state`, `t->spinner` and `s->quit` are such fields. `gui`, `worker`, `spin`
and `rate` are program counters. The parser is abstracted to how many frames a
read completes. GTK is modelled from its use: it calls back with the global lock
held, and any camera whose redraw is queued may be drawn next. When
`pthread_create()` fails for a spinner, the spinner is freed and the camera goes
without; a worker or framerate thread that was not started is joined or cancelled
all the same, by an id that was never set: that either does nothing or ends the
process (`fault`).

**`Source`** is one object's life. A string is `NULL` or a short sequence, of which only
those of the credentials have contents. A descriptor is the lowest number that is free.
A block is on the heap from the copy of its string to its `free()`; the labels of the
constructors are `Unwound`. What is external comes as outcomes: a name may
not be found or stand for several addresses, `socket()`, `connect()` and
`write()` may fail, and `write()` may take a part of the line. A line of the request
is its kind and, for the header with the credentials, its text as **`Base64`**
encodes it. `close()` of the object is not modelled: no program calls it.

**`Filename`** has the functions of `filename.c` as they are, and the pattern expanded by
definition, which they are compared with. Its checks run in `MCMulti`.

**`SelfPipe`** holds the operations on a pipe; **`Multi`** and **`Single`** are the two
dumpers around them, with the parsing abstracted to a step. `Multi` writes the
frames to files named by `Filename`; a thread that was not started is joined by an
id that was never set, as in the viewer. `Single` goes through the creation and the
opening of its source step by step, with every early exit; a camera that hangs up
during the request ends the process with SIGPIPE. The steps of
`selfpipe_write_close()` are separate in the handler, because the other signal may
interrupt it, and so are the statements of the cleanup in `main()`.

**`Config`**: nodes are numbered in the order of allocation. An element of the file
is taken, skipped or fails, whatever is in it; a file source without the name of its
file ends the process in `strdup(NULL)`. `DestroySource` has the guard that
the node was not freed before, because what the code would do with it is
undefined; `SourcesDestroyedOnce` would say that it never comes to that, and it does.

**`Framerate`**: timestamps in ticks, the estimate as an exact fraction. That the ring
holds the latest timestamps is what `RingBuf` shows.

## What the runs show

Bounds are named in the modules as constants and set in the `.cfg` files.

| Run | Instance | What it shows |
| --- | --- | --- |
| `Grabber_slices` | buffer of 7; every 2 bytes over {LF, FF, D8, D9} behind the first FF of a part, with four kinds of headers and a second part behind it; broken responses; allocations may fail; fair | types, the buffer holds the latest bytes, only received bytes are looked at, the pending image is where the anchor says, `FrameSlices` is implemented, and the parser returns |
| `Grabber_frames` | 147 scripts of two parts each: CRLF and LF, with and without dashes, also in front of a boundary that begins with one, images of known and unknown length, of exactly the buffer's size and too long, containing the boundary or an end marker | exactly the images sent are delivered, each as soon as it is complete; no boundary is missed |
| `RingBuf` | ring of 4, 25 frames, 2 that fail, a window closed at any time; the buffer spans times just below, at and above a minute, an hour and a day, and a clock set back | the readers, the frees and `FrameWindow`, through six wraparounds and a destruction at every fill level; the canvas paints live pixels, the label tells the true age, only the pixels of failed frames are lost |
| `Viewer_threads` | two cameras, threads may not start, connections may fail | no thread runs on freed data; the spinner is alive while it is drawn unless the connection has failed |
| `Viewer_close` | one camera, threads may not start, fair | closing the window ends the program |
| `Multi` | 3 sources of 2 frames with names easily confused, threads may not start, fair; every pattern of up to 4 characters over {%, f, n, x}, and numbers at every power of ten and 2^31 - 1 | structures outlive their threads; no two frames share a file; names are forged as the pattern asks and fit; a signal ends the program |
| `Single` | network and file sources with any string missing, credentials of up to 2 characters each over {97, 250}, 2 addresses, two signals, fair | each end of the pipe is closed once, none is left open; every block is freed on every exit; a source holds one descriptor; the request is sent in whole lines and its credentials decode; a signal ends the program |
| `Config` | 5 elements, any of which may fail or lack its file name | every walk returns all sources in order; a configuration that is gone has left none |
| `Framerate` | ring of 4, 14 ticks | the estimate never exceeds the rate of the frames and never rises while none comes in |

The bounds suffice for what they are for. A buffer of 7 is shorter than a part
and longer than a boundary line, so every state is cut, shifted and refilled, and
an image can be shorter than, equal to and longer than the buffer. `read()`
returns any number of bytes each time. Credentials of 0 to 2 characters
on each side of the colon give every remainder of the length by 3, which is all the
encoder distinguishes, and 250 sets the bits that 97 does not. A pattern of four
characters has two placeholders, or one and what can stand around it. More than
two frames, sources or cameras add no new kind of pair: cameras share the global
lock only, one pair of them contends for it, and a third source in `Multi` checks
the loops between. Liveness of the
viewer is checked with one camera because the two-camera graph is too large;
the main thread deals with cameras one at a time, and each worker needs only the
global lock, which a worker of another camera never holds while it waits.

Fairness. `Grabber`: its thread runs, and `source_read()` returns, after ten
seconds at the latest. `Multi`: each thread runs and `sleep()` returns. `Viewer`
uses strong fairness of each thread: the threads that take the global lock again
and again sleep in between, so whoever waits for it gets it. `Single` uses strong
fairness of `main()` and of the handler because signals interrupt them: they go
on once the signals leave time. Nobody has to send a signal or close a window.

A process killed by a signal, or ended by using a thread id that was never set,
counts as ended.

Deadlock is not checked where a program ends. The liveness runs would show a
deadlock in the viewer or in the dumpers as a program that does not end.

## Where the code differs from what is said of it

Three runs of the index are expected to find a violation; `PROJECT.json` quotes the
comments they are held against.

* `Viewer_open`: a failed connection frees the spinner while the canvas may be
  drawing it.
* `Config_fails`: the error path leaves a dangling list, which is destroyed again. The
  model stops there, so `Config`, whose properties speak of the configuration's end,
  says nothing of that path once a source has been made.
* `Multi_wait`: the main thread says it waits for its threads to terminate, but
  sleeps on when all of them have.

The others have a configuration of their own beside the index, for whoever wants to
see the counterexample: `tlc -config Grabber_stale.cfg MCGrabber` and so on (each
goes with the module it is named after). The
property carries the comment of the code it quotes:

| Configuration | Property | What the code does |
| --- | --- | --- |
| `Grabber_stale` | `OnlyLongImagesSkipped` | with LF line ends the length of a skipped image is held against the next one (`mjv_grabber.c:440`) |
| `Grabber_anchor` | `AnchorOnPartialMatch` | a skipped image leaves its anchor behind (`mjv_grabber.c:537`) |
| `Grabber_semicolon` | `BoundaryAsDeclared` | the semicolon behind a boundary becomes part of it (`mjv_grabber.c:244`) |
| `Grabber_newline` | `BoundaryStartsLine` | a boundary counts in the middle of a line too (`mjv_grabber.c:428`) |
| `Viewer_signal` | `SignalOnlyWakes` | SIGUSR1 before its handler is installed ends the program (`spinner.c:121`) |
| `Single_sigpipe` | `HandlerOnlyCancels` | a signal during the cleanup ends in SIGPIPE (`mjvsingle.c:297`) |
| `Single_credentials` | `EncodedFits` | the zero behind the encoded credentials is written past the buffer when user, colon and password have 1, 4, 7, ... characters (`source_network.c:100`); `RoomForCredentials` proves that it is just these lengths |
| `Framerate_gap` | `GapReportedAsStall` | the gap is measured in windows rather than in intervals (`framerate.c:85`) |

`Grabber_frames` therefore has cameras without these triggers: no semicolon follows
the boundary, an image that is skipped holds no line feed, and none is skipped before
another on a connection with LF line ends.

One thing the scan does is no deviation, since nothing is promised about it: a mismatch
takes it back to the second byte behind the anchor. A boundary that stands behind its
own first character, once or another odd number of times, is not found (`-b` in
`--b`); where a line starts with it, or where just two dashes precede one that begins
with a dash (`---b`), it is.

## What is proved

`GrabberProofs` proves for every buffer size, alphabet, set of streams and
reading of the header lines, under `GrabberAssumption` (the buffer is not empty,
the streams are sequences of symbols, the readings are records of the right
kind):

* `TypeCorrect`, `BufferCorrect`, `ReadsCorrect`, `PendingImageCorrect`: the four
  invariants of `Grabber_slices`. Their conjunction `IInv` is inductive, and no part
  is so alone: that a shift keeps the latest bytes needs `anchor < cur <= head`;
  that the cursor stays below `head` after an image of known length needs the
  length to fit the buffer, which is `ImageAtAnchor`; that a shift keeps the image
  needs the anchor to be set in the image states, which is `OnlyReceivedBytesRead`.
* `GrabberImplementsSlices`: every step is a step of `FrameSlices` or a stutter.
  The bytes copied out of the buffer are bytes of the stream by
  `BufferHoldsLatestBytes`, begin with FF D8 and overlap no earlier frame by
  `ImageAtAnchor`.
* `BoundaryLineFound`: the search passes no boundary by that starts a line, which is
  what the comment at `mjv_grabber.c:421` asks for, under the condition
  `CameraKeepsForm`: the boundary has no line ends and no bytes of image markers in
  it, and an image of announced length ends with its marker.
* `BoundaryFound`: nor one anywhere in a line, if the boundaries are `Visible`: the first
  character stands in front of them not at all, or just twice. `CamerasKeepForm`
  in `MCGrabber` has TLC confirm that the cameras of `Grabber_frames` keep to all this.
  The invariant `Search`, common to both, speaks of positions in the
  stream, which shifts and reads leave alone: no visible boundary line is under way at
  the cursor while there is no anchor, nor at the anchor when it was set; and where the
  scan begins anew the boundary's first character is in front of it not at all or
  twice (`Aligned`), since the scan steps over two bytes. A mismatch then
  rules out the line at the anchor and the form the one behind it, so that
  `RestartScan` may go on with the second byte after the anchor. The anchor left
  over from an image that was too long needs a case of its own.

`DeliveryProofs` proves the same module against a camera that is given:

* `ImagesDelivered`: for every size of the buffer, every set of scripts that are
  `WellFormed`, however `read()` cuts up what they send, and however many parts they
  have, the grabber has delivered exactly the images received in full that fit its
  buffer whenever it asks for more or returns (`DeliversWhatWasSent`).
  `WellFormed` says what the code can rely on: boundary lines that end in the
  declared boundary, made of ordinary characters, of which the first precedes it
  not at all or just twice; announced lengths that are true; an image of
  unannounced length has no thumbnail with an end marker in it; and an image that
  is skipped for its length holds no line feed, and is the last one if lines end in
  a line feed alone. Without the last of these `Grabber_stale` happens. `CamerasWellFormed` has TLC confirm that
  the cameras of `Grabber_frames` are well-formed. Memory is assumed not to run out.
* The argument: `PartLayout` and `LineLayout` compute from a script where each line, each
  boundary and each image lies in what is sent (`Lies`). The invariant `Track` says at
  which of these places the parser is, from its state, cursor and anchor, and that the
  frames delivered so far are those of the parts behind it (`Delivered`). One lemma per
  function of the parser shows that it moves to the right place; `SearchTo` is
  where the search for a boundary has to stop, and `NoFalseStart` why it does not stop
  before. Three cases are easily missed: an anchor is left in the image that was skipped,
  at which the search goes on as if a boundary had begun there; a boundary
  that has been read up to its carriage return is neither found nor a mismatch
  until the line feed arrives; and where two dashes precede a boundary that begins
  with one, the first of them is taken for its start, and giving that up leads just
  to the boundary itself (`DoubledTrack`). `SentIs` turns the parts behind the parser into the
  images that lie within the bytes received, which is what the property speaks of.

`FramesProofs` begins with the ring by itself, for every size and any number of appends,
under `RingBufAssumption` (the size is positive):

* `TypeCorrect`, `ReadersCorrect`, `NoDoubleFree`, `NoLeak`. The invariant says
  which frame each slot holds, as a function of `appended` and `next`
  (`SlotContents`), how `used` and `next` follow from `appended` (`Counters`), and
  that every frame handed over is in a slot or freed (`Accounted`).
* `RingBufImplementsWindow`: the ring implements `FrameWindow`; the slot at `next`
  holds the smallest frame once the ring is full.

Then come the frames of a camera, under `FramesAssumption` as well:

* `FramesImplementRing`: pixels, mutex and label only add to the ring, so that every
  theorem about it carries over; `FramesKeepWindow` is one.
* `PaintCorrect`, `FramesTypeCorrect`, `BufferCorrect`: `Locks` says who is where while
  the mutex is held, `Pixels` that the block on show and the one in hand are
  two and on the heap, and that at most one block is lost per failure.
* `StatusCorrect`: the label adds up for every time stamp. `AgeAddsUp` is the
  arithmetic; `Label` takes the readers' slots from the ring's invariant.

`ViewerProofs`, for any number of cameras (`ViewerAssumption`):

* `TypeCorrect`, `SpinnerThreadCorrect`, `SpinnerPaintedCorrect`, `DestroyCorrect`. The
  invariant says which points of a thread imply that it holds the global lock or
  the mutex (`LockHeld`, `MutexHeld`), how a camera's state follows from where its
  worker is (`Phase`), that the main thread is past a join only if the joined
  thread has ended (`Waited`), and what the canvas may be drawing (`Painted`). That a
  spinner is there while it is drawn although nobody reads the state under a lock
  comes from the last two together: between the state and the `free()` the worker
  has to pass the global lock, which the main thread holds while it draws.

`MultiProofs`, for any number of sources, with any names (`MultiAssumption`):

* `TypeCorrect` and `FreedCorrect`; `Progress` says which threads are started, cancelled
  and joined at each point of the main thread.
* `ForgeCorrect`: `filename_forge()` returns the pattern with its placeholders replaced
  and fills its buffer exactly, for every name, every pattern and every frame number
  an `unsigned int` holds (proved below 10^10). The loop over the pattern, the
  digits and the reference `Expanded` are recursive functions; what they compute is
  proved from the least argument at which it would fail (`Upwards`). No two
  placeholders overlap (`PlacesApart`), so that each byte of the pattern is copied, replaced
  or skipped once. `ForgedAsAsked` says so of the instances TLC checks.
* `FilesDiffer`: a file name comes from one frame number and one name only. Digits contain
  no underscore, so the last underscore of a file name ends the name of the source
  (`NamesApart`), and different numbers have different digits.

`SingleProofs`, for all strings, any number of addresses, and signals at any step:

* `EverythingFreed`, `DescriptorCorrect`, `RequestCorrect`: the source has an invariant of
  its own (`Memory`, `Descriptor`, `Sent`), kept by every step of its life, and
  `main()` only takes such steps.
* `DescriptorsCorrect`, `PipeClosed`: `Order`, `Objects` and `Reads` tie the source, the
  objects and the read end to where `main()` is; `Ends` does so for the
  write end, which the handlers on the stack may have closed.
* `RoomForCredentials`: the lengths for which the encoder stays in its buffer.
* `DecodesEncoded`: decoding undoes encoding for every sequence of bytes, whatever
  remains of its last group of three; `CredentialsSurvive` applies it to the
  credentials in the request, which an invariant (`Faithful`) traces back to the strings
  of the configuration.

`ConfigProofs`: `TypeCorrect`, `DestroyCorrect`, `WalkCorrect`, for any number of
elements: the nodes reached from the head are those created and not freed, in order
(`Linked`, `Built`), and an iterator has passed as many as the walk has
returned (`Walked`).

`FramerateProofs`: `TypeCorrect`, `EstimateCorrect`, `WaitingCorrect`, for every size
of the ring and all times. The timestamps are in order (`Sorted`), and
`LaggingIsLower` is the inequality between the three formulas.

Only checked by TLC: all liveness properties, since fairness and `ENABLED` are
out of the prover's reach. Every invariant and every step property that holds in a run
is a theorem. `BoundaryFound` and `GrabberImplementsSlices` hold for streams that no
script renders, too.

## Plan

Done in this order, the most important first: the grabber, its camera and its
promise; the ring and its promise; the viewer's threads; the self-pipe with the
two dumpers; the configuration; the estimator; the proofs about grabber and ring;
sources, credentials and their composition with `mjvsingle`; file names and their
composition with `mjvmulti`; frames and pixels on top of the ring; threads that do
not start; the proofs about all of these. What could still be added:

1. `spinner.c`'s wake-up times, once there is a promise to hold them against.
2. The digits of `Content-Length`, summed up in 32 bits, in place of the readings the
   grabber takes as a constant.

Not modelled: the tests and the build; logging, on which nothing depends; drawing,
the layout of the window and the details of option parsing, which have no state the
rest reads; the computation of the spinner's wake-up times; `close()` of a source,
which no program calls; the contents of image files. libconfig, libjpeg, GTK and
libc appear as the outcomes the code handles.
