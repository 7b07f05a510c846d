---------------------------- MODULE ModbusChannel ----------------------------
(***************************************************************************)
(* The one Modbus/TCP connection of the program (CSPDlg::m_modbusCtx) and  *)
(* the mutex that guards it (m_modbusMutex).                               *)
(*                                                                         *)
(* Two threads use it.  The UI thread runs message handlers; a handler     *)
(* that opens a message box pumps messages, so that timer handlers run     *)
(* inside it, above it on the same stack.  The coordinate thread polls     *)
(* 60000..60005.  The handlers that touch the connection are               *)
(*                                                                         *)
(*   open    CSPDlg::OnInitDialog: OpenModBus, then Grab, once             *)
(*   tick    WorkTab::OnTimer, every 500 ms while the sync timer is on     *)
(*   keep    MachineTab::OnTimer, every 30 s                               *)
(*   again   the same handler, 30 s later, inside a box of the first       *)
(*   button  GO, Grab or Stop, pressed by the operator                     *)
(*                                                                         *)
(* A std::mutex that its own thread locks again is undefined behaviour;    *)
(* the runtime the program is built with throws std::system_error, which   *)
(* is what the try blocks of WorkTab's helpers are for.                    *)
(***************************************************************************)
EXTENDS Naturals

CONSTANT LinkFaults   \* TRUE: connecting and any request may fail

ASSUME LinkAssumption == LinkFaults \in BOOLEAN

VARIABLES
    connected,  \* m_modbusCtx is not null
    holder,     \* who has m_modbusMutex
    syncOn,     \* m_hmiSyncEnabled
    syncBusy,   \* m_hmiSyncBusy
    top,        \* the handler on top of the UI thread's stack
    below,      \* the handler each running handler interrupted
    pc,         \* where each handler is
    coord,      \* the coordinate thread
    escaped     \* an exception has left a window procedure

stackVars   == <<top, below, pc>>
channelVars == <<connected, holder, syncOn, syncBusy, stackVars, coord, escaped>>

Handlers   == {"open", "tick", "keep", "again", "button"}
KeepAlives == {"keep", "again"}
None       == "none"

\* Block requests, each under one acquisition of the mutex, named for what they
\* read or write and the place they are made at.  A GO or a Grab is the same code
\* whether the operator or the tick runs it.
OpenOps == {"w145", "w186", "r114open"}
KeepOps == {"r0", "r139keep", "r186keep", "r114keep"}
TickOps == {"r139fn", "w139fn", "r139", "r186", "w159", "r114", "w139end",
            "w157end"}
GoOps   == {"r186go", "path", "w139go", "w157go"}
GrabOps == {"w139grab"}
Ops     == OpenOps \cup KeepOps \cup TickOps \cup GoOps \cup GrabOps

\* A mutant of Caught: the writes of ClearCreateToolPathRequest are not guarded.
Caught_NotClear == (TickOps \ {"w139end", "w157end"}) \cup GoOps \cup GrabOps

\* The requests of WorkTab run inside try blocks that turn a std::system_error
\* into a failed request; those of MachineTab do not.
Caught == TickOps \cup GoOps \cup GrabOps

\* A mutant of LockedBoxes: GO reports a failed write inside the lock's scope.
LockedBoxes_Go == {"connectBox", "keepBox", "goBox"}

\* Message boxes.  Two of them are opened while the mutex is held.
LockedBoxes == {"connectBox", "keepBox"}
FreeBoxes   == {"openBox", "saveBox", "toolBox", "exportBox", "goBox", "logBox",
                "doneBox"}
Boxes       == LockedBoxes \cup FreeBoxes

\* Points where a handler computes without the connection.
Computing == {"auto", "prepare"}

Points == {"idle", "connect"} \cup Ops \cup Boxes \cup Computing

ChannelTypeOK ==
    /\ connected \in BOOLEAN
    /\ holder \in {"free", "ui", "coord"}
    /\ syncOn \in BOOLEAN
    /\ syncBusy \in BOOLEAN
    /\ top \in Handlers \cup {None}
    /\ below \in [Handlers -> Handlers \cup {None}]
    /\ pc \in [Handlers -> Points]
    /\ coord \in {"off", "idle", "read"}
    /\ escaped \in BOOLEAN

\* Some handler sits in a box that it opened under the lock.
LockedBelow == \E h \in Handlers : pc[h] \in LockedBoxes

\* A message is dispatched when nothing runs or the top handler is in a box.
Pumping == top = None \/ (top \in Handlers /\ pc[top] \in Boxes)

\* CSPDlg::OnInitDialog has created the pages and calls OpenModBus.
ChannelInit ==
    /\ connected = FALSE
    /\ holder = "free"
    /\ syncOn = FALSE
    /\ syncBusy = FALSE
    /\ top = "open"
    /\ below = [h \in Handlers |-> None]
    /\ pc = [h \in Handlers |-> IF h = "open" THEN "connect" ELSE "idle"]
    /\ coord = "off"
    /\ escaped = FALSE

-----------------------------------------------------------------------------
(* Where a handler goes from a point.  "goEnd" is the end of GO: the operator's  *)
(* button returns, the tick goes on to ClearCreateToolPathRequest.             *)

OnSuccess ==
    [w145     |-> {"w186"},
     w186     |-> {"r114open"},
     r114open |-> {"w139grab"},
     r0       |-> {"r139keep"},
     r139keep |-> {"r186keep"},
     r186keep |-> {"r114keep"},
     r114keep |-> {"idle"},
     r139fn   |-> {"w139fn", "r139"},
     w139fn   |-> {"r139"},
     r139     |-> {"r186"},
     r186     |-> {"w159", "saveBox", "r114"},
     w159     |-> {"r114"},
     r114     |-> {"auto"},
     w139end  |-> {"w157end"},
     w157end  |-> {"idle"},
     r186go   |-> {"prepare"},
     path     |-> {"logBox", "w139go"},
     w139go   |-> {"w157go"},
     w157go   |-> {"doneBox"},
     w139grab |-> {"idle"}]

\* The requests whose failure the code looks at; the others go on regardless.
OnFailure ==
    [w145     |-> {"openBox"},
     w186     |-> {"openBox"},
     r0       |-> {"keepBox"},
     r139keep |-> {"r114keep"},
     r139fn   |-> {"r139"},
     r139     |-> {"r114"},
     r186go   |-> {"goBox"},
     path     |-> {"goBox"}]

AfterRequest(p, ok) ==
    IF ok \/ p \notin DOMAIN OnFailure THEN OnSuccess[p] ELSE OnFailure[p]

\* HandleAutoCreateToolPathRequest (auto) has nothing to do, starts or stops
\* acquisition, fails to generate a path, or sends one.
AfterOther ==
    [auto       |-> {"idle", "w139grab", "toolBox", "w139end", "r186go"},
     prepare    |-> {"exportBox", "goBox", "path"},
     connectBox |-> {"idle"},
     openBox    |-> {"w139grab"},
     keepBox    |-> {"idle"},
     saveBox    |-> {"r114"},
     toolBox    |-> {"w139end"},
     exportBox  |-> {"path", "goBox"},
     logBox     |-> {"w139go"},
     goBox      |-> {"goEnd"},
     doneBox    |-> {"goEnd"}]

Goto(h, p) == pc' = [pc EXCEPT ![h] = p]

\* A handler starts above the one that is in a box.
Push(h, p) ==
    /\ top' = h
    /\ below' = [below EXCEPT ![h] = top]
    /\ Goto(h, p)

\* A mutant of Return: only a tick of the main message loop resets m_hmiSyncBusy.
Return_KeepsBusy(h) ==
    /\ top' = below[h]
    /\ below' = [below EXCEPT ![h] = None]
    /\ Goto(h, "idle")
    /\ syncBusy' = (syncBusy /\ (h # "tick" \/ below[h] # None))

\* A handler returns to the one it interrupted.
Return(h) ==
    /\ top' = below[h]
    /\ below' = [below EXCEPT ![h] = None]
    /\ Goto(h, "idle")
    /\ syncBusy' = (syncBusy /\ h # "tick")

\* A mutant of Proceed: GO does not come back to its caller.
Proceed_NoReturn(h, p) ==
    IF p = "idle" THEN Return(h)
                  ELSE Goto(h, p) /\ UNCHANGED <<top, below, syncBusy>>

Proceed(h, p) ==
    LET q == IF p # "goEnd" THEN p ELSE IF h = "tick" THEN "w139end" ELSE "idle"
    IN  IF q = "idle" THEN Return(h)
                      ELSE Goto(h, q) /\ UNCHANGED <<top, below, syncBusy>>

-----------------------------------------------------------------------------
(* Messages: timers in any message loop, buttons only when no box disables    *)
(* the main window.                                                           *)

\* A tick inside another tick's box is dropped at the test of m_hmiSyncBusy.
TickFires ==
    /\ Pumping
    /\ syncOn
    /\ ~syncBusy
    /\ syncBusy' = TRUE
    /\ Push("tick", "r139fn")
    /\ UNCHANGED <<connected, holder, syncOn, coord, escaped>>

\* Nothing keeps the keep-alive from running inside its own box.
KeepFires ==
    /\ Pumping
    /\ connected
    /\ \E h \in KeepAlives :
        /\ h = "keep" <=> pc["keep"] = "idle"
        /\ Push(h, "r0")
    /\ UNCHANGED <<connected, holder, syncOn, syncBusy, coord, escaped>>

ButtonPressed ==
    /\ top = None
    /\ \E p \in {"r186go", "goBox"} \cup {q \in GrabOps : connected} :
           Push("button", p)
    /\ UNCHANGED <<connected, holder, syncOn, syncBusy, coord, escaped>>

\* Enter or Esc on the Work page, which may be shown again: its OnOK and OnCancel
\* stop the sync timer.
PageClosed ==
    /\ top = None
    /\ syncOn
    /\ syncOn' = FALSE
    /\ UNCHANGED <<connected, holder, syncBusy, stackVars, coord, escaped>>

-----------------------------------------------------------------------------
(* Steps of the running handler. *)

\* InitModbusWithRetry under the mutex: one attempt per run.  Success shows the
\* state in the status bar, which starts the HMI sync timer; after a failure the
\* context is freed and the box comes while the mutex is still held.
Connect ==
    /\ top = "open"
    /\ pc["open"] = "connect"
    /\ holder = "free"
    /\ \/ /\ connected' = TRUE
          /\ syncOn' = TRUE
          /\ Goto("open", "w145")
          /\ UNCHANGED holder
       \/ /\ LinkFaults
          /\ Goto("open", "connectBox")
          /\ holder' = "ui"
          /\ UNCHANGED <<connected, syncOn>>
    /\ UNCHANGED <<syncBusy, top, below, coord, escaped>>

\* A mutant of LockUi: the request is made without the mutex.
LockUi_Not(h) ==
    /\ top = h
    /\ pc[h] \in Ops
    /\ connected
    /\ holder # "ui"
    /\ holder' = "ui"
    /\ UNCHANGED <<connected, syncOn, syncBusy, stackVars, coord, escaped>>

\* The test of the context and lock_guard.
LockUi(h) ==
    /\ top = h
    /\ pc[h] \in Ops
    /\ connected
    /\ holder = "free"
    /\ holder' = "ui"
    /\ UNCHANGED <<connected, syncOn, syncBusy, stackVars, coord, escaped>>

\* The request itself and the end of the lock's scope; only a failed keep-alive
\* keeps the lock for its box.  OpenModBus ends with StartCoordinateThread.
Transact(h) ==
    /\ top = h
    /\ pc[h] \in Ops
    /\ holder = "ui"
    /\ ~LockedBelow
    /\ \E ok \in IF LinkFaults THEN BOOLEAN ELSE {TRUE} :
       \E p \in AfterRequest(pc[h], ok) :
           /\ Proceed(h, p)
           /\ holder' = IF p \in LockedBoxes THEN "ui" ELSE "free"
    /\ coord' = IF pc[h] = "r114open" THEN "idle" ELSE coord
    /\ UNCHANGED <<connected, syncOn, escaped>>

\* A helper of WorkTab that finds no context, or whose lock_guard throws because
\* a box below it holds the mutex, reports a failed request.
Refuse(h) ==
    /\ top = h
    /\ pc[h] \in Caught
    /\ ~connected \/ LockedBelow
    /\ \E p \in AfterRequest(pc[h], FALSE) : Proceed(h, p)
    /\ UNCHANGED <<connected, holder, syncOn, coord, escaped>>

\* The lock_guard throws in a helper that does not catch.  WorkTab::OnTimer
\* catches and stops the sync timer; MachineTab::OnTimer lets it out.
Throw(h) ==
    /\ top = h
    /\ pc[h] \in Ops \ Caught
    /\ connected
    /\ LockedBelow
    /\ IF h = "tick"
       THEN Return(h) /\ syncOn' = FALSE /\ UNCHANGED escaped
       ELSE escaped' = TRUE /\ UNCHANGED <<stackVars, syncOn, syncBusy>>
    /\ UNCHANGED <<connected, holder, coord>>

\* Path generation and conversion.  GO reports an exception of its own (goBox); one
\* from path generation reaches WorkTab::OnTimer, which gives the tick up and stops
\* the sync timer.
Compute(h) ==
    /\ top = h
    /\ pc[h] \in Computing
    /\ \/ (\E p \in AfterOther[pc[h]] : Proceed(h, p)) /\ UNCHANGED syncOn
       \/ h = "tick" /\ pc[h] = "auto" /\ Return(h) /\ syncOn' = FALSE
    /\ UNCHANGED <<connected, holder, coord, escaped>>

\* A mutant of CloseBox: the keep-alive returns without unlocking.
CloseBox_KeepsLock(h) ==
    /\ top = h
    /\ pc[h] \in Boxes
    /\ \E p \in AfterOther[pc[h]] : Proceed(h, p)
    /\ UNCHANGED <<connected, holder, syncOn, coord, escaped>>

\* The operator answers the box on top.
CloseBox(h) ==
    /\ top = h
    /\ pc[h] \in Boxes
    /\ \E p \in AfterOther[pc[h]] : Proceed(h, p)
    /\ holder' = IF pc[h] \in LockedBoxes THEN "free" ELSE holder
    /\ UNCHANGED <<connected, syncOn, coord, escaped>>

-----------------------------------------------------------------------------
(* MachineTab::ReadCoordinatesThread. *)

LockCoord ==
    /\ coord = "idle"
    /\ connected
    /\ holder = "free"
    /\ holder' = "coord"
    /\ coord' = "read"
    /\ UNCHANGED <<connected, syncOn, syncBusy, stackVars, escaped>>

ReadCoord ==
    /\ coord = "read"
    /\ holder' = "free"
    /\ coord' = "idle"
    /\ UNCHANGED <<connected, syncOn, syncBusy, stackVars, escaped>>

-----------------------------------------------------------------------------

HandlerStep(h) ==
    LockUi(h) \/ Transact(h) \/ Refuse(h) \/ Throw(h) \/ Compute(h) \/ CloseBox(h)

Running ==
    \/ TickFires
    \/ KeepFires
    \/ ButtonPressed
    \/ PageClosed
    \/ Connect
    \/ \E h \in Handlers : HandlerStep(h)
    \/ LockCoord
    \/ ReadCoord

\* An exception that leaves a window procedure ends the program.
Ended == escaped /\ UNCHANGED channelVars

ChannelNext == (~escaped /\ Running) \/ Ended

\* The UI thread runs while it can; a lock that is free again and again is got
\* (the coordinate thread sleeps 200 ms after each read); the operator answers
\* a box that comes to the top again and again.
ChannelFairness ==
    /\ WF_channelVars(~escaped /\ Connect)
    /\ WF_channelVars(~escaped /\ ReadCoord)
    /\ SF_channelVars(~escaped /\ LockCoord)
    /\ \A h \in Handlers :
        /\ SF_channelVars(~escaped /\ LockUi(h))
        /\ SF_channelVars(~escaped /\ CloseBox(h))
        /\ WF_channelVars(~escaped /\ (Transact(h) \/ Refuse(h) \/ Throw(h) \/ Compute(h)))

ChannelSpec     == ChannelInit /\ [][ChannelNext]_channelVars
FairChannelSpec == ChannelSpec /\ ChannelFairness

-----------------------------------------------------------------------------
(* Properties. *)

\* The context is never used by both threads at once, nor by a handler while a
\* box below it holds the mutex: whoever makes a request is the holder alone.
OneUser ==
    /\ coord = "read" <=> holder = "coord"
    /\ LockedBelow => holder = "ui"
    /\ holder = "ui" => connected \/ LockedBelow

\* Synchronisation, which nothing would start again, is stopped only by an exception
\* from path generation inside a tick or by closing the Work page.  No failed request
\* and no lock conflict stops it: a tick that fires inside a box opened under the mutex
\* fails its requests one by one and ends as usual.
OnlyPathErrorStopsSync ==
    [][syncOn /\ ~syncOn' => top = None \/ (top = "tick" /\ pc["tick"] = "auto")]_channelVars

\* The only way a lock conflict ends the program is a keep-alive that fails and
\* is left unanswered for 30 s, until the next one runs inside its box.
OnlyKeepAliveEscapes ==
    escaped => pc["keep"] = "keepBox" /\ pc["again"] = "r0"

\* What a handler takes it gives back, however deep it runs inside the boxes of others:
\* m_hmiSyncBusy is up just while a tick is on the stack, messages are dispatched with
\* the mutex held only above a box that was opened under it, and the main message loop
\* is back only when every handler has returned.
NothingLeftBehind ==
    /\ syncBusy <=> pc["tick"] # "idle"
    /\ Pumping /\ holder = "ui" => LockedBelow
    /\ top = None => \A h \in Handlers : pc[h] = "idle"

\* A tick that has begun ends, whatever runs inside its boxes, as long as boxes are
\* answered.
TickEnds == syncBusy ~> (~syncBusy \/ escaped)

\* The coordinate thread, locked out while a keep-alive box is open, reads again
\* after the box has been answered.
CoordinatesResume == coord = "idle" ~> (coord = "read" \/ escaped)

=============================================================================
