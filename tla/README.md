# SP-AX3: verification project

SP-AX3 is the PC program of a shoe-gluing machine: a Windows (MFC, C++) application that
takes a picture of a shoe with an industrial camera, extracts the path a glue nozzle has to
follow, and sends it over Modbus TCP to the PLC/HMI of the machine. This directory holds
TLA+ models of the program's control, the TLC configurations that check them, and TLAPS
proofs of the results that matter most.

All line numbers are those of the source files at the commit modelled. `PROJECT.json` maps
every definition to the lines it stands for.

## 1. The system

### Threads

| thread | runs | shares |
|---|---|---|
| UI thread | all button handlers, all timers, and - because message boxes and file dialogs pump messages - timers *inside* handlers that show one | everything |
| acquisition workers | `WorkTab::GrabThread`; detached, one per press of Grab, never joined | `m_bGrabThread`, the Basler camera (exclusive), `m_mat` under `m_matMutex`, the path vectors without a lock |
| coordinate reader | `MachineTab::ReadCoordinatesThread` | `m_modbusCtx` under `m_modbusMutex` |

Timers: HMI synchronisation 500 ms (`WorkTab`), keep-alive 30 s (`MachineTab`), status bar
1 s (`SPDlg`), parameter page 1 s (`SystemParaTab`).

### Components

| component | state | operations | talks to |
|---|---|---|---|
| Image acquisition (`WorkTab.cpp` 1644-1834, 2414-2433) | `m_bGrabThread`, camera handle, `m_mat` | Grab, Stop, the worker's loop | clears the glue paths at every frame; writes register 139 |
| Automatic request flow (`WorkTab.cpp` 1000-1046, 1412-1641) | last synchronised blocks, baseline, `m_autoCreateToolPathWaitingForImage`, `...Busy`, `m_hmiSyncEnabled` | one tick = read function block (139), read configuration block (157), serve the request | calls Grab, Stop, Tool Path and GO; keep-alive changes 157's copy |
| Manual flow (`WorkTab.cpp` 2923-3117, 3219-3276, 3387-3623) | `m_OptimizedGluePath`, `toolPath`, generated reference | Tool Path, GO, Load Image | acquisition, the tick (which runs the same handlers, also behind the file dialog), configuration, calibration |
| Path conversion (`WorkTab.cpp` 342-458, 3485-3524, 4456-4543) | the rows shown and the register words | pairing, sort, ROI clip, machine coordinates, INT16 words | GO |
| Path transfer and journal (`WorkTab.cpp` 3526-3623, `ModbusPathCsv.h`) | three blocks of the PLC, the CSV journal | PREPARED rows, three FC16 writes, RESULT rows, lowering 157 | disk, link |
| Modbus channel (`SPDlg.cpp` 865-924, `MachineTab.cpp` 1254-1340, 1493-1549, `WorkTab.cpp`) | `m_modbusCtx`, `m_modbusMutex`, `m_hmiSyncEnabled`, `m_hmiSyncBusy` | connect once, requests from tick, keep-alive, buttons and coordinate thread | all of the above |
| Configuration synchronisation (`WorkTab.cpp` 1267-1293, 1529-1600, `MachineTab.cpp` 1493-1549) | registers 145-159, `m_SystemPara`, `m_lastSyncedSystemPara`, the work copies | compare with last synchronised, take over, SaveINI, the System Para page | HMI, INI file |
| `SystemConfig.ini` (`UAX/UAX.cpp` 2050-2617, `SystemParaTab.cpp`) | the file | load with defaults, save in place | start sequence |
| Machine commands (`MachineTab.cpp`) | coils, motion parameters | jog, switches, Save Motion | link; their page is never shown |
| Glue path optimisation (`UAX/GluePathOptimizer.cpp`, scan in `WorkTab.cpp`) | none | ROI filter, split in two sides, profiles, entry, sampling, bottom points, the scan of ToolPathType 1 | Tool Path |
| Contour extraction, calibration, template matching (`UAX/*.cpp`, `ShoeInsetMask.h`) | calibration file | image processing | Tool Path |
| Image display, ROI and reference editing (`WorkTab.cpp`, `ImagePro.cpp`) | zoom, ROI, mouse mode | drawing | configuration |
| Dialog shell, Modbus test page, database helpers | - | - | - |

### What is hard

* A worker that has been told to stop notices only after its next good frame, and nobody
  joins it. Meanwhile Grab may have started another. Retiring workers, fresh workers, the one
  flag they share and the camera only one of them can open overlap.
* A worker clears the glue path after it has left the lock, at any moment of Tool Path or GO.
* The request for a path (157) is a level, not an event, is read by two timers, lowered twice
  per service, and may be withdrawn or raised again by the HMI at any time.
* Message boxes pump timers, so that a handler is interleaved with handlers of its own thread.
* GO writes three axes with three requests; any may fail, or succeed with its answer lost;
  the program may die between any two; the journal must be right nevertheless.
* A path is generated with one reference point and sent later, when the reference point, the
  calibration or the image may be another.
* Coordinates go through mm, tenths of a millimetre, clamping and 16-bit two's complement.
* A box opened under `m_modbusMutex` lets in timers of the same thread that lock it again.
* The configuration exists in five copies, two timers, a page and a start-up move it between
  them, and the file is rewritten in place.
* Two algorithms put out points in one sequence whose meaning is told from its length.

`PROJECT.json` lists each hazard at its line with the properties that watch it, or why none
does yet.

### What makes each component correct

* Acquisition: a raised flag has a worker behind it; pictures are not published out of order;
  Stop ends all workers.
* Automatic flow: a request is answered with a picture not older than the request; it is
  answered at all; it is not wiped out unseen; the busy flag does not stay behind.
* Manual flow: a path comes from one picture; GO uses the reference the path was made with.
* Conversion: rows are the extracted pairs inside the ROI, in order; the words decode to them;
  what GO sends is what Tool Path has shown.
* Optimisation: the sides stay inside the outline, do not change places, nothing lies above
  the entry.
* Transfer: what the PLC holds can be told from the journal; GO announces a path only when
  the PLC has the whole of it. That 157 is 0 does not say so: a tick lowers it over a failed
  transmission too.
* Channel: one user at a time; ticks end, the coordinate thread gets on, synchronisation is
  not switched off by a lock conflict.
* Configuration: the copies differ only where a step in between explains it; a save is
  acknowledged only after a write of what the HMI shows, and tried until then.

## 2. The modules

| module | models | kind |
|---|---|---|
| `GrabThread` | Grab, Stop, `GrabThread` | component |
| `PathRequest` | what the HMI may expect of a request for a path (157) | abstract specification |
| `AutoRequest` (extends `GrabThread`) | the 500 ms tick with the workers, HMI, buttons, keep-alive; implements `PathRequest` | composition |
| `ToolPathGo` (extends `GrabThread`) | Tool Path, GO, Load Image and a tick's service, with workers and configuration | composition |
| `PathDelivery` | what the journal promises | abstract specification |
| `PathTransfer` | GO from the finished buffers on; implements `PathDelivery` | component |
| `GluePath` | from the outlines of an image to the two sides of a path | algorithm |
| `PathWords` (extends `GluePath`) | from the two sides to register words | algorithm and component |
| `ModbusChannel` | connection, mutex, the handlers nested in one another's boxes, coordinate thread | component |
| `SaveRequest` | what the HMI may expect of a request to save (159) | abstract specification |
| `ConfigSync` | the five copies of the configuration, page, file, crash; implements `SaveRequest` | component |
| `MCAutoRequest`, `MCToolPathGo`, `MCPathWords` | symmetry sets and the value sets of TLC | MC |
| `GrabThread_proof`, `AutoRequest_proof`, `ToolPathGo_proof`, `PathTransfer_proof`, `ConfigSync_proof`, `ModbusChannel_proof`, `GluePath_proof`, `PathWords_proof` | theorems | proofs |

### GrabThread

`bGrabThread` is `m_bGrabThread`, `mat` the shoe in `m_mat` (0: empty), `glue` the shoe
`m_OptimizedGluePath` was extracted from (0: empty), `phase[t]` where worker *t* is in
`GrabThread`, `held[t]` the frame it holds between RetrieveResult and publication, `scene` the
shoe under the camera (shoes are numbered, so that "older picture" can be said). A worker's
steps are: open the camera (refused while another worker has it), grab a good or a bad frame,
publish under the lock, clear the paths outside the lock, leave. Pixels are reduced to the
shoe they show.

### AutoRequest

One tick is cut wherever another actor gets in: `SyncFunction` (read of block 1 and reaction
to register 139), `SyncConfig` (read of block 2), then one of the branches of
`HandleAutoCreateToolPathRequest`. `uiPc` is the place in the tick. `pending`, `wanted` and
`sent` are history: what has become of the request in 157, which shoe it is about, and what
was sent last. Switches (`LinkFaults`, `CameraFaults`, `MayThrow`, `HmiMayCancel`,
`HmiMayGrab`, `ManualOps`, `PatientHmi`, `PromptCamera`) say which parts of the environment
misbehave, so that each property is stated with the weakest environment it holds in.

Simplifications: the read of the function block and the reaction to it are one step (no other
actor writes the state they relate in between, except the HMI's next value, which the next
tick sees); the taking over of a configuration because another field changed or SaveINI asked
for it is a nondeterministic choice here (`ConfigSync` has the fields); a configuration
rejected as invalid is a failed read; values of 157 other than 0 and 1 behave as 0. The saved
CreateToolPath of the INI file is 0 or 1 (the page and the HMI write nothing else).

`PathRequest` leaves out ticks, flags, copies and workers: a request is noticed, served and
finished with in that order, answered once at most, with a shoe not older than the one it is
about, and lost only if the HMI is impatient. `ImplementsRequest` maps its four variables to
`scene`, `pending`, `wanted` and `sent`.

### ToolPathGo

The paths of the UI thread, whoever starts them. Tool Path is cut into snapshot, ROI check,
calibration and extraction; GO into first check, conversion, writes. A tick runs the same two
handlers for a request (`auto`), in the main message loop or in the loop of Load Image's file
dialog (`dialog`): the operator's buttons are out of reach then, the timer is not. When
requests come is left open; `AutoRequest` has the registers and flags that decide it. A
reference point is a version number (the HMI sets new ones) and whether calibration has moved
it. `glueRef`, `loaded`, `behind` and `sent` are history; `sent` is the transmission under
way. Configuration is taken over when the UI thread dispatches messages: when idle, inside the
file dialog, and inside the boxes of the operator's GO (a tick is not entered twice).

### PathTransfer and PathDelivery

The three axes are `1..NumAxes`; the contents of a block are the batch number it belongs to.
Any disk operation, any write and the process may fail at any step; a failed write may have
reached the PLC. The connection is made at start only: GO's own attempt to connect
(3549-3565) is never reached without a context, because reading the angle has failed before.
`caller` is who has called GO. A tick's GO returns to `HandleAutoCreateToolPathRequest`, which
lowers 157 whatever GO did (1481-1487, `TickReturns`; `TickClears` where no batch was begun), so
157 goes to 0 over a mixed path. While the operator's GO shows that its RESULT rows were not
written (3597-3598, "warned"), a tick may come and run a GO of its own; `outer` is the batch
that waits under it and `Own` the one a GO announces. If the tick's GO fails there, the
operator's, all of whose writes succeeded, goes on to announce a path over which the PLC now
holds parts of a later one: `AnnouncedMeansArrived` allows later batches for this reason.
`PathDelivery` says what a reader of the journal may rely on: a batch is announced before any
of its words is on the machine, and results, once stated, are right.

### GluePath and PathWords

`GluePath` is `GluePathOptimizer::OptimizePath` with all it calls - filter by the mask, split
into the two chains between top and bottom, outermost profile per side, the entry at
`EntryPointX`, even sampling, interpolation of the left side, the bottom points - and the scan
`GetToolPath_Optimized_Mask` of ToolPathType 1, with the joining of outlines and the choice of
the largest. Its inputs are what `findContours` returns.

`PathWords` goes on: pairing by extrapolation, sort, ROI filter, machine coordinates, register
words. Points are integers in `1/Grain` pixel (`Grain = 2`: rounding has ties, truncation
shows); what the code interpolates in doubles is rounded down to that grain, so that a row can
be off by less than half a pixel from the program's, the same on both sides of a comparison.
`std::sort` is not stable: rows of equal height come out in any order. `Machines` are the
settings that change the numbers (scale, quarter-turn rotation); the clamp is at the real INT16
limits and words are modulo 2^16. Tool Path, GO and a new machine setting are actions.
`ToolPathType` 2 is treated by the code as 0.

### ModbusChannel

The UI thread is a stack of handlers: `top` runs, `below[h]` is what `h` interrupted, `pc[h]`
where it stands. `OnSuccess`, `OnFailure` and `AfterOther` are the control graphs of the
handlers from request to request and from box to box. Every request is one acquisition of the
mutex; two boxes (`LockedBoxes`) are opened while it is held: the one of the failed connection
attempt and the one of the failed keep-alive. A handler that locks a mutex its own thread holds
gets `std::system_error` (undefined behaviour by the standard, this in the runtime used):
`Refuse` is the helpers of `WorkTab` that catch it, `Throw` those that do not. An exception of
path generation in a tick (`Compute`) reaches `OnTimer`, which stops synchronisation for the
rest of the run; so does the page when it closes (`PageClosed`). The keep-alive
appears twice, since it may fire again inside its own box.

### ConfigSync

One field per way a field is treated: `mask` (with a copy of its own in `WorkTab`), `offset`
(edited on the System Para page), `create` (157), `save` (159). Copies are the registers
`reg`, `para` (`m_SystemPara`), `base` (`m_lastSyncedSystemPara`), `work`
(`MaskX`, `referenceX`, ...) and the `file`. The tick is cut at its requests and its box; the
keep-alive and `ClearCreateToolPathRequest` each move one copy only, which is where copies get
out of step. Saving truncates the file (`whole = FALSE`) and completes it later; a crash in
between, or a full disk - the stream is not looked at after it has been opened - leaves what
was written up to some digit of some key (`Cuts`), and the handler goes on as after a good
write. The next start reads the missing keys as zeros; it writes the file back when certain
keys are missing, which may fail in turn (`Load`). Offsets are counted in steps of `1/Unit`:
the page and the file have fractions, register 145 gets the rounded value (`InRegister`), so
after a start the HMI shows, and the first tick brings back, a whole number. The file keeps the
fraction until the next save. It is an assumption about the HMI that nothing is edited there while a save
is pending. `RefreshImageFlipFromSystemConfig`, called at the start and by Grab, Tool Path and
Load Image, is left out: it rewrites the file with the values read from it when its ImageFlip
is not 0.

`SaveRequest` sees what the HMI sees - the settings shown, the request, the file - and not the
copies in the program. While the program is up a request ends only after a write of the
settings shown, with no other write in between; the file has them, unless the disk cut it. A
start may drop the request, and then shows what a complete file has, as far as the registers
can (`Display`). The mapping reads the registers and the file and turns `pc` into "down",
"open" (starting), "up" or "ack" (between the write and the answer).

## 3. What is checked

| run | question | bounds |
|---|---|---|
| `grab` | flag/worker agreement, order of pictures, Stop quiesces | 3 workers, 2 shoes, camera faults |
| `auto_safety` | pictures sent are fresh; refinement of `PathRequest` | 2 workers, 3 shoes, camera faults, exceptions, buttons; no cancelling, prompt workers |
| `auto_faulty` | one frozen frame per service, busy flag not left behind, request not wiped out | 2 workers, 2 shoes, failing reads and writes, cancelling HMI, HMI driving 139, slow workers |
| `auto_liveness` | every request is served | 2 workers, 2 shoes, nothing fails, fairness |
| `tool_path_go` | remembered reference belongs to the stored path and is used; a loaded image keeps no other image's path | 2 workers, 2 shoes, 2 reference points, camera faults |
| `transfer` | results are a prefix, a path is announced only when it has arrived, refinement of `PathDelivery` (the journal tells the truth) | 3 axes, 3 batches, every failure, crash, restart |
| `path_words` | sides, rows and words are right | 515 images, 3 points per side, buffer 4, two machine settings, types 0 and 1 |
| `modbus_channel` | one user, lock and busy flag given back, ticks end, coordinates resume, what a lock conflict may do and what stops synchronisation | complete: no bound, any request fails |
| `config` | copies differ only where explained; a save is answered after a write of what is shown, also as refinement of `SaveRequest`; saves retried | 2 regions (one of width 0), 2 offsets (0 and 1/4), failing requests, files and writes, crash in a save |
| `auto_cancelled`, `auto_impatient`, `path_option1` | disagreements (section 6) | as small as shows them |

Why the bounds are enough. Two workers are needed for a retiring and a fresh one; three for
two retiring ones, which `grab` has. Three shoes let a picture be older than the request and
another newer. Two reference points distinguish old from new. Three batches are a mixed one,
the one over it and one after a restart; three axes are the machine's. Three points have a
first, a middle and a last pair. The outlines of `MCPathWords` have three and four heights,
every combination of a near and a far x per height and side, both windings, a second piece
that erosion has cut off, sides of different length, an empty image; entries lie on a corner,
on an edge and outside; points at 4000 saturate INT16 at the larger scale; the
PLC buffer of 4 makes padding visible. In `config` a region of width 0, which the HMI may
enter as well, tells the checked way of taking a configuration over from the unchecked one, and
an offset of a quarter tells the page's value and the file's from the register's.

Restrictions that are part of the statements: `PatientHmi` (the HMI raises no new request
while the last one is still being finished) for `RequestNotDropped`; `PromptCamera` (a worker
told to stop has ended when the next tick or button comes - a frame takes some 30 ms, a tick
500 ms), a working link, 139 left to the program and no cancelling for `FreshPath`; healthy
cameras for `RequestServed`; no edits during a save for `ImplementsSaving`. Two of these are
shown to be needed by the violation runs. `LoadedHasOwnPath`, `StaleOnlyIfSwallowed`,
`OnlyPathErrorStopsSync`, `OnlyKeepAliveEscapes` and `SidesDoNotCross` name their exception in
the formula: each says that the mishaps described there are the only ones.

### Fairness

`FairGrabSpec`: a worker that can step does (the operating system schedules threads), and an
open camera delivers a good frame again and again (strong fairness of `GoodFrame`): without
one, `Stop` is never noticed, since the flag is tested after a good frame only.

`FairAutoSpec`: the same, and the steps of the tick (`WM_TIMER` fires every 500 ms as long as
`m_hmiSyncEnabled`; `OnTimer` runs to its end; the completion box closes itself after 5 s).

`FairChannelSpec`: weak fairness of connecting, of the coordinate thread's read and of the
running handler's steps; strong fairness of getting a lock that is free again and again
(`LockUi`, `LockCoord`: the other side sleeps 200 ms or waits for a timer between its uses)
and of answering a box that comes to the top again and again (`CloseBox`).

`FairConfigSpec`: weak fairness of a handler that has begun; strong fairness of a tick that
reads (the timer), of opening the file and of the write that lowers 159: what is tried again
and again works in the end. The timer runs as long as nothing stops it: an exception of path
generation in a tick does (`ModbusChannel`), and a save asked for after it is not answered in
that run. No fairness is assumed of the HMI, the operator's other buttons,
crashes or failures.

## 4. What is proved

With TLAPS, for every value of the constants under the named assumptions of the modules:
`MaxScene`, `MaxRef`, `NumAxes` and `MaxBatch` are positive natural numbers, the switches are
Booleans, the sizes and settings of a path are in the ranges of `GlueAssumption` and
`SizeAssumption`, `ValidMasks` is part of `Masks` without the region of width 0, `Offsets` are
integers, 0 among them, closed under rounding to the register. `OutlineAssumption` says that outlines are
traced inside the region; only `StaysInOutline` rests on it, and the code gives it:
`BuildShoeInsetMask` (`UAX/ShoeInsetMask.h`) clears the mask outside the region before the
outlines are traced on it. The set of workers is arbitrary. Each module
proves the types first (`GrabTyped`, `AutoTyped`, `ToolTyped`, `TransferTyped`, `ConfigTyped`, `ChannelTyped`,
`WordsTyped`).

* `GrabThread_proof`: `FlagSafety`, `FrameOrder`. The invariant `GrabInv` adds to the types
  and the flag property that one worker at a time is in a phase that owns the camera
  (`OneCamera`) and that a frame held is not newer than the scene nor, between retrieval and
  publication, older than the image published (`FramesBehindScene`). Without the exclusive
  camera a slow worker could publish its old frame over a newer one, so the order of images
  cannot be proved without `OneCamera`.
* `AutoRequest_proof`: `BusySafety`, `OneFrameSent`, and, for a patient HMI,
  `PatientRequestKept`. `AutoInv` has one conjunct per property: the path between extraction
  and transmission is the snapshot's or empty (`PathOfSnapshot` - GO tests it again, which is
  why a worker that clears it in between is harmless), and a service in progress owns the
  request in 157 (`ServiceOwnsRequest`). All failures, cancelling, register 139 and late
  workers are included. `PatientHmi` is the hypothesis of the last theorem because the run
  `auto_impatient` refutes it without.
* `AutoRequest_proof`, second part: `FreshPathSent`, the property that takes both generations of workers to
  argue, under `FreshEnvironment` (the restrictions of `FreshPath` above; cameras may fail,
  extraction may throw, buttons may be pressed). `FreshInv` has four strengthenings. A worker
  left from an earlier acquisition has ended before a tick begins, so only one is alive
  (`OneWorker`). Register 139 and its copy agree, so the first block of a tick starts
  acquisition but never stops it (`GrabAgrees`). The copies of 157 are behind the register
  only, and a request is not served before it has been accepted (`RequestAgrees`). From its
  acceptance on an owed request is either about to restart acquisition, or waits with no
  image, or one at least as new as itself, and with no older frame in a worker's hand; the
  snapshot of a service inherits that (`FreshWaiting`). A cancelled request breaks the second
  and the last: this is what `auto_cancelled` shows.
* `AutoRequest_proof`, third part. `FlowFlagSafety` and `FlowFrameOrder` say of the whole flow
  what is proved of acquisition alone, in every environment: `FlowAcquisition` shows that each
  step of the flow is a step of `GrabThread`, spawns a worker with the flag and perhaps empties
  the image, lowers the flag, or leaves acquisition alone; `FlowInv` is `AutoInv` and `GrabInv`
  and that the snapshot is no newer than the scene. `RequestRefinement`: under
  `FreshEnvironment` the flow implements `PathRequest`. The steps that raise, accept and serve
  a request map to their namesakes by `RequestAgrees`, which for this says also that a request
  is served throughout extraction, check and GO (otherwise the end of a service could finish
  with a request that was never begun); that the frame sent is not older than wanted is
  `FreshWaiting` again.
* `ToolPathGo_proof`: `ReferenceSafety`, `RememberedSent`, `LoadedPathSafety`, `SnapshotOnly`,
  `ToolFlagSafety`.
  The pairing of path and reference is inductive because the only step that makes a path
  non-empty stores its reference with it, and every other step drops the path, drops the
  reference or leaves both alone; workers can only clear (`WorkersOnlyClear`). For a loaded
  image two facts are added: a path stored while the dialog is open is marked
  (`DialogPathIsBehind`), and a snapshot taken of a loaded image is of that image until it is
  replaced (`SnapOfLoaded`). The flag keeps its worker because the start of a service, the one
  step outside acquisition that writes it, spawns one with it (`FlagOfTool`).
* `PathTransfer_proof`: `JournalFirst`, `TrueResults`, `PrefixResults`, `AnnouncedArrived`,
  `Refinement`. The invariant ties the statuses to the loop variable and to the blocks while
  GO is under way, keeps every batch number in blocks and journal at most `batch`, and says
  that the results of the batch in hand have not been stated yet; under a tick's GO the batch of
  the operator's has arrived on every axis, or been followed there by the tick's. `Refinement` maps `Init` to
  the abstract `Init` and every step to an abstract step or a stutter. `JournalFirst` and
  `TrueResults` are what a reader takes from that promise, proved directly; the run checks the
  promise.
* `ConfigSync_proof`: `WorkFollowsBaseline`, `AckedIsSaved`, `SavingRefinement`, for any
  regions and offsets. A tick in the middle of a save works on the registers as they are
  (`SaveTracksRegisters`), so that what it has written when it answers is what they show; a
  file that is being written is not complete (`OpenClosed`); a start leaves all copies equal to
  a complete file until the registers have been written (`OpenInStep`: without it a start could
  show the HMI something else than the file has). Both sides of the refinement round alike
  (`DisplayOfConfig`).
* `ModbusChannel_proof`: `OneUserAtATime`, `ConflictsKeepSync`, `OnlyKeepAlive`,
  `EverythingGivenBack`, with any request
  failing at any time. The properties are about the lock; the argument is about the stack of
  handlers. `ChannelInv` says where each handler can be (`HandlerPlaces`), that a handler with
  another one on top of it sits in a box (`SuspendedInBox`), that connecting has the UI thread
  to itself (`OpenAlone`), that nothing but connecting runs before there is a link
  (`LinkedPlaces`), and that the second keep-alive never gets past the mutex that the first one
  holds (`AgainOnTop`). Of the two boxes opened under the lock, the one of a failed connection
  needs the link down and the one of a failed keep-alive needs it up, so they are not open at
  once and the lock belongs to one handler of the stack. Each request has a
  lemma that says where its handler goes from there (`AfterOpen` .. `AfterService`).
  `EverythingGivenBack` is the safe half of "ticks end and the coordinate thread gets on": the
  busy flag is set exactly while a tick is on the stack, a message loop runs with the mutex
  held only below a box that was opened under it, and with no handler running nothing is held.
  `ReturnInv` adds that the running handlers are linked through `below` in one stack without a
  gap or a repetition (`OneStack`), that the flag is set exactly while the tick runs
  (`BusyTicks`), and that the UI thread has the mutex for the request of the handler on top or
  for one of the two boxes (`LockedRequest`).
* `GluePath_proof`: `Extracted`, for outlines of any number and any length. What is extracted
  has as many left as right points, at most `MaxPoints` each, starts at its entry, and ends
  with a bottom row whose sides are in place (`LowestMeets`); a scan has them in place in
  every row but the entry (`NotCrossed`), since it takes the outermost crossings of each line,
  and the bottom row put in afterwards is made of the leftmost and the rightmost of the bottom
  points of two sides that both reach the lowest point (`BottomSidesMeet`). A path made from an
  outline crosses only where the outline's own two profiles do (`ProfilesApart`): each sampled
  row is a point of the right profile with the left profile at its height. Filters,
  sorting, profiles and samples are functions of sets of unknown size; since the induction
  theorems cannot be instantiated, a smallest counterexample is refuted wherever induction is
  needed (`LeastNat`, `Minimal`, from the library's well-founded orders). `ExtractedInside`:
  whatever rectangle holds the outlines holds the path too, the x of the entry apart. A value
  is interpolated between two points of a side, and the optimiser never asks for one above or
  below a side, where the last segment would be prolonged: both sides of a split reach from the
  topmost to the bottommost point (`SplitReaches`), and a scan line meets an outline between its
  extremes only (`CrossingsInside`).
* `PathWords_proof`: `WordsTyped`, `StaysInRoi`, `PairsStay`, `StartsAtEntry`,
  `ScansStayInOrder`, `BottomRowMeets`, `CrossesOnlyAsTheOutline`, `SendsWhatIsShown`, `DecodedWords`,
  `NearestCommands`, `StaysInOutline`, for every image, region, entry, angle, scale, reference point and buffer size. `WordsInv` ties the three copies of a path together:
  the extracted one is even, starts at its entry and has its sides in place as far as
  `Extracted` says; the stored one is level -
  the points of a row have the same height -, in the region, in order, and made of extracted
  rows; the rows shown are the stored ones, converted; the words encode the rows they were made
  from (`Derived`). GO sends what was shown because normalising a level path changes nothing.
  Saturation, two's complement and back is saturation (`RegRoundTrip`); rounding is within half
  a unit for every numerator and denominator, from the bounds of `\div`, for the right point
  turned back (`HmiIsNear`) and for the left one along the X axis (`XIsNear`). `OutlineInv` applies
  `ExtractedInside` to the least rectangle around the points of the image (`Enclosed`).

Only model-checked: liveness (`StopQuiesces`, `RequestServed`, `TickEnds`,
`CoordinatesResume`, `SaveRetried`: fairness and ENABLED are out of the prover's reach; of
`TickEnds` and `CoordinatesResume` the safe half is proved, `EverythingGivenBack`), and
`SidesDoNotCross` for a path that is split from the outline. For scans (`ScansStayInOrder`) and
for the bottom row (`BottomRowMeets`) it is proved for every image, and for all rows of every
image in which the profiles of the two chains do not cross (`CrossesOnlyAsTheOutline`). Whether
they cross depends on `SplitByCenter` alone, which takes the chain further right on average for
the right one, and not every polygon obliges. A thin outline that leans from the upper right to
the lower left, with more points near the top on its left chain and near the bottom on its right
one, has the means the wrong way round: (2000, 2), (2010, 3), (100, 20), (90, 21), (80, 22),
(0, 22), (1890, 4), (1950, 3) is split with left and right swapped. All outlines of `MCPathWords`
have profiles that do not cross; that the outline of a shoe has is an assumption about the
pictures.

## 5. Not modelled, and abstractions

* Image processing (thresholds, erosion, `findContours`, calibration mathematics) is OpenCV:
  its outcome is a set of outlines in `GluePath`, "a path of this frame, or none" elsewhere.
* The Machine page is created hidden and never shown (`SPDlg.cpp` 382-384): jog, coils and
  Save Motion cannot be reached. Its keep-alive timer and coordinate thread run, and are in
  `ModbusChannel`, `AutoRequest` and `ConfigSync`.
* Measuring a scale factor with the mouse (`WorkTab.cpp` 2453-2788) is switched off by the
  return at 4549. `FitCurve`, `PolyFit`, the smoothing helpers, the database and clustering
  helpers have no caller. Template matching, image saving, drawing, layout, the Modbus test
  page (with a connection of its own) do not take part in the way from request to path. Of
  `UAX.cpp`, what remains without these is the text of the INI file: `ConfigSync` has which
  keys are lost and defaulted, not how a number is parsed.
* About half of the source lines are the headers of SQLite, and most of the rest drawing,
  OpenCV calls and dialog code; the map covers the control flow that is left.
* Data races: workers clear vectors and read `m_bGrabThread` without a lock. Each access is one
  step; torn reads of a `std::vector` are not distinguished.
* Angles between quarter turns: the rotation is exact only there.
* A service nested inside the box that GO shows after a failed export: `ModbusChannel` has the
  nesting, `ToolPathGo` the data, no module both.

Observed with TLC and left without a run:

* With camera faults, `RequestServed` fails: a camera that fails to open while a request waits
  ends its worker, and nothing starts another, because acquisition is restarted only when the
  waiting flag is not set (`WorkTab.cpp` 1440-1453; `AutoLiveness.cfg` with
  `CameraFaults = TRUE`).
* `SentWithOwnReference` of `ToolPathGo` fails: a Tool Path that returns at its ROI check has
  forgotten the generated reference but kept the old path, and GO then uses the raw reference
  (`DOC/ToolPath_Flow_Design_Review.md` 214).
* A start while 159 is set writes the file's 0 over it, so that the register goes back without
  the settings being saved (`Modbus_Register_Map.md` 37). `SaveRequest` has this as its step
  `Show`, and `ImplementsSaving` says that it is the only way a request is dropped.
* 157 goes back to 0 after a failed transmission (`WorkTab.cpp` 1485), as after a good one: the
  HMI cannot tell them apart from 157, only the journal can.
* A region of width 0 that the HMI enters is saved and taken over unchecked by a save
  (`WorkTab.cpp` 1553-1564) and by the keep-alive (`MachineTab.cpp` 1532); only an ordinary tick
  checks it (1583).
* `DispayROI` is written and `DisplayROI` read (`UAX.cpp` 2133, 2414): the display flag does not
  survive a restart.
* Load Image clears the paths before it opens its dialog (comment at `WorkTab.cpp` 3223); a
  service that runs behind the dialog stores one that survives the load. This is the exception
  `behind` in `LoadedHasOwnPath`.
* The design review (192-196) describes words as magnitudes clamped to 0..65535; the code
  sends signed words clamped to INT16, which `WordsDecode` checks.
* The analysis of the optimiser describes a split at the middle of the region; the code splits
  at top and bottom. The described split is the mutant `SplitByCenter_AtCenter`, and with
  it points leave the outline.

## 6. Disagreements with the documents

Each is a run that TLC must find violated, and a finding in `PROJECT.json` that quotes the
document.

1. `auto_cancelled`: a request withdrawn while the program waits for its picture leaves the
   waiting flag set; the next request is served with the old picture.
2. `auto_impatient`: a request raised while GO's completion box is open is wiped out by the
   second clear of 157.
3. `path_option1`: with ToolPathType 1 a scan is recognised by its number of points alone. If
   the scan fails, the program falls back to the outline, and an outline of exactly 50 points
   is cut in halves as if it had been scanned: its left and right sides change places.

## 7. Plan

Done: acquisition, automatic flow, manual flow composed with the tick's service, transfer,
optimisation and conversion, channel, configuration; abstract specifications of the request
for a path, of the request to save and of the journal, each shown to be implemented; proofs for
all of them.

What would come next:

1. One module with the data of `ToolPathGo` and the nesting of `ModbusChannel`, for a service
   inside GO's export box.
2. Which outlines have profiles that do not cross (`ProfilesApart`): a condition on the density
   of the points of the two chains, which the approximation in `findContours` decides.
3. The text of the INI file: key spellings and the file of the old format.

## 8. Running it

    tlc -workers 2 -config AutoSafety.cfg MCAutoRequest.tla
    tlapm AutoRequest_proof.tla

The configuration and module of each run are in `PROJECT.json`.
