----------------------------- MODULE ConfigSync ------------------------------
(***************************************************************************)
(* The copies of the configuration and how they follow each other:         *)
(*                                                                         *)
(*   reg    the registers 145..159 of the HMI                              *)
(*   para   CSPDlg::m_SystemPara, what the program works with              *)
(*   base   WorkTab::m_lastSyncedSystemPara, what the last tick saw        *)
(*   work   WorkTab::MaskX ..., referenceX ..., used by Tool Path and GO   *)
(*   file   SystemConfig.ini                                               *)
(*                                                                         *)
(* The tick (WorkTab::SyncHmiData) copies reg to para, base and work, and  *)
(* saves the file when register 159 asks for it; the keep-alive of         *)
(* MachineTab copies reg to para only; ClearCreateToolPathRequest copies   *)
(* para to base; the System Para page changes para and saves the file; a   *)
(* start copies file to everything.  The UI thread runs one handler at a   *)
(* time, except that a message box lets the keep-alive in.                 *)
(*                                                                         *)
(* One field stands for each way a field is treated: mask for the region   *)
(* and the reference, which have a work copy, offset for what the page     *)
(* edits, create for register 157, save for register 159.                  *)
(*                                                                         *)
(* Nobody looks at the stream of SystemConfig.ini after opening it: a full *)
(* disk cuts the file like a crash does, and the handler goes on as after  *)
(* a good write.                                                           *)
(***************************************************************************)
EXTENDS Integers

CONSTANTS
    Masks,       \* the regions of interest
    ValidMasks,  \* those that pass IsSystemConfigDisplayDataValid
    ZeroMask,    \* the region of width 0, which also stands in for missing keys
    Offsets,     \* values of OffsetValue, in steps of 1 / Unit
    Unit,        \* steps in a whole offset
    Faults       \* TRUE: requests, opening the file and writing it may fail

\* std::lround (halves away from zero), cast to uint16_t: what register 145 gets.
InRegister(v) ==
    LET up == (2 * (IF v < 0 THEN -v ELSE v) + Unit) \div (2 * Unit)
    IN  Unit * ((IF v < 0 THEN -up ELSE up) % 65536)

ASSUME MaskAssumption   == ValidMasks \subseteq Masks \ {ZeroMask} /\ ZeroMask \in Masks
ASSUME UnitAssumption   == Unit \in Nat \ {0}
ASSUME OffsetAssumption ==
    Offsets \subseteq Int /\ 0 \in Offsets /\ \A v \in Offsets : InRegister(v) \in Offsets
ASSUME FaultAssumption  == Faults \in BOOLEAN

\* What register 145 can hold, and what the System Para page saves.
WholeOffsets == {v \in Offsets : InRegister(v) = v}
PageOffsets  == {v \in Offsets : v \in 0 .. 65535 * Unit}

VARIABLES
    reg, para, base, work, file,
    whole,      \* the file is complete; FALSE from truncation to a good close
    remote,     \* remoteSystem, a local of the tick; Missing outside it
    linked,     \* the one connection attempt of this run has succeeded
    pc,         \* where the UI thread is
    swallowed   \* history: base took over a mask that work has not

copies     == <<reg, para, base, work, file, whole>>
configVars == <<copies, remote, linked, pc, swallowed>>

Config == [mask : Masks, offset : Offsets, create : 0 .. 1, save : 0 .. 1]

\* Every field zero, as m_SystemPara starts.
Missing == [mask |-> ZeroMask, offset |-> 0, create |-> 0, save |-> 0]

Places == {"down", "open", "idle", "save", "write", "ack", "saveBox", "take",
           "auto", "clear", "autoBox", "clearAgain", "commit"}

\* A message loop runs: the main one or that of a box inside the tick.
Pumping == pc \in {"idle", "saveBox", "autoBox"}

\* The outcome of a request or of opening the file.
Outcome == IF Faults THEN BOOLEAN ELSE {TRUE}

ConfigTypeOK ==
    /\ reg \in Config
    /\ para \in Config
    /\ base \in Config
    /\ work \in Masks
    /\ file \in Config
    /\ whole \in BOOLEAN
    /\ remote \in Config
    /\ linked \in BOOLEAN
    /\ pc \in Places
    /\ swallowed \in BOOLEAN

\* The program is not running; the file was written by an earlier run, and the HMI
\* still shows it.
ConfigInit ==
    /\ file \in [mask : Masks, offset : Offsets, create : {0}, save : {0}]
    /\ reg = [file EXCEPT !.offset = InRegister(@)]
    /\ para = file
    /\ base = file
    /\ remote = Missing
    /\ work = file.mask
    /\ whole = TRUE
    /\ linked = FALSE
    /\ pc = "down"
    /\ swallowed = FALSE

-----------------------------------------------------------------------------
(* The HMI.  It edits nothing while it waits for a save. *)

HmiEdit ==
    /\ reg.save = 0
    /\ \E m \in Masks, v \in WholeOffsets :
           reg' = [reg EXCEPT !.mask = m, !.offset = v]
    /\ UNCHANGED <<para, base, work, file, whole, remote, linked, pc, swallowed>>

HmiSave ==
    /\ reg.save = 0
    /\ reg' = [reg EXCEPT !.save = 1]
    /\ UNCHANGED <<para, base, work, file, whole, remote, linked, pc, swallowed>>

HmiCreate ==
    /\ reg.create = 0
    /\ reg' = [reg EXCEPT !.create = 1]
    /\ UNCHANGED <<para, base, work, file, whole, remote, linked, pc, swallowed>>

-----------------------------------------------------------------------------
(* The life of the program. *)

\* A mutant of Saved: the Mask keys are written under a name nobody reads.
Saved_OtherKey(c) == [c EXCEPT !.mask = ZeroMask]

\* What a completed WriteConfigToFile_SP leaves for ReadSystemConfig_SP.
Saved(c) == c

\* What a write that is cut short leaves, in the order the keys are written: the last
\* key has lost digits, those after it are missing.
Cuts(c) ==
    {Missing} \cup [mask : {ZeroMask}, offset : Offsets, create : {0}, save : {0}]
        \cup [mask : Masks, offset : {c.offset}, create : {0}, save : {0}]
        \cup [mask : {c.mask}, offset : {c.offset}, create : {0, c.create}, save : {0, c.save}]

\* The keys go out to the file opened for them; the result is not looked at.
WriteKeys ==
    \/ file' = Saved(para) /\ whole' = TRUE
    \/ Faults /\ file' \in Cuts(Saved(para)) /\ UNCHANGED whole

\* ReadSystemConfig_SP into a zeroed SystemConfigA.  A file that has lost certain keys
\* is completed with the defaults and written back; whether that works is not looked
\* at, and a file that has lost only its last keys stays as it is.
Load ==
    /\ pc = "down"
    /\ para' = file
    /\ \/ UNCHANGED <<file, whole>>
       \/ ~whole /\ file' = para' /\ whole' = TRUE
       \/ Faults /\ ~whole /\ file' \in Cuts(para') /\ UNCHANGED whole
    /\ base' = para'
    /\ work' = para'.mask
    /\ swallowed' = FALSE
    /\ \E ok \in Outcome :
        /\ linked' = ok
        /\ pc' = IF ok THEN "open" ELSE "idle"
    /\ UNCHANGED <<reg, remote>>

\* OpenModBus writes 145..159 from m_SystemPara, the offset rounded.  When that fails
\* the registers stay and the box only delays what follows: ticks run in it as well.
Open ==
    /\ pc = "open"
    /\ \E ok \in Outcome :
           reg' = IF ok THEN [para EXCEPT !.offset = InRegister(@)] ELSE reg
    /\ pc' = "idle"
    /\ UNCHANGED <<para, base, work, file, whole, remote, linked, swallowed>>

\* The program or the machine goes down, and with it all but the file, which keeps
\* what has been written of m_SystemPara; the HMI and its registers stay up.
Crash ==
    /\ pc # "down"
    /\ pc' = "down"
    /\ linked' = FALSE
    /\ file' \in IF pc \in {"write", "commit"} THEN Cuts(Saved(para)) ELSE {file}
    /\ para' = file'
    /\ base' = file'
    /\ work' = file'.mask
    /\ remote' = Missing
    /\ swallowed' = FALSE
    /\ UNCHANGED <<reg, whole>>

-----------------------------------------------------------------------------
(* The tick.  remote is m_SystemPara with the registers applied. *)

\* A mutant of TickRead: a save is asked for by a change of register 159.
TickRead_Edge ==
    /\ pc = "idle"
    /\ linked
    /\ \/ /\ remote' = reg
          /\ pc' = IF reg.save = 1 /\ para.save = 0 THEN "save" ELSE "take"
       \/ /\ Faults
          /\ pc' = "auto"
          /\ UNCHANGED remote
    /\ UNCHANGED <<copies, linked, swallowed>>

TickRead ==
    /\ pc = "idle"
    /\ linked
    /\ \/ /\ remote' = reg
          /\ pc' = IF reg.save = 1 THEN "save" ELSE "take"
       \/ /\ Faults
          /\ pc' = "auto"
          /\ UNCHANGED remote
    /\ UNCHANGED <<copies, linked, swallowed>>

\* A mutant of SaveBegin: the file is written from m_SystemPara before the
\* registers are taken over.
SaveBegin_Old ==
    /\ pc = "save"
    /\ remote' = [remote EXCEPT !.save = 0]
    /\ work' = remote.mask
    /\ swallowed' = FALSE
    /\ \E ok \in Outcome :
        /\ whole' = (whole /\ ~ok)
        /\ pc' = IF ok THEN "write" ELSE "saveBox"
    /\ UNCHANGED <<reg, para, base, file, linked>>

\* Everything is taken over, valid or not, before the file is opened.
SaveBegin ==
    /\ pc = "save"
    /\ remote' = [remote EXCEPT !.save = 0]
    /\ para' = remote'
    /\ work' = remote.mask
    /\ swallowed' = FALSE
    /\ \E ok \in Outcome :
        /\ whole' = (whole /\ ~ok)
        /\ pc' = IF ok THEN "write" ELSE "saveBox"
    /\ UNCHANGED <<reg, base, file, linked>>

SaveWrite ==
    /\ pc = "write"
    /\ WriteKeys
    /\ pc' = "ack"
    /\ UNCHANGED <<reg, para, base, work, remote, linked, swallowed>>

\* Register 159 is lowered; nobody looks whether that worked.
SaveAck ==
    /\ pc = "ack"
    /\ \E ok \in Outcome : reg' = IF ok THEN [reg EXCEPT !.save = 0] ELSE reg
    /\ base' = remote
    /\ swallowed' = (work # remote.mask)
    /\ pc' = "take"
    /\ UNCHANGED <<para, work, file, whole, remote, linked>>

SaveFailed ==
    /\ pc = "saveBox"
    /\ pc' = "take"
    /\ UNCHANGED <<copies, remote, linked, swallowed>>

\* A mutant of TakeOver: the work copies are refreshed only by a save.
TakeOver_NotWork ==
    /\ pc = "take"
    /\ IF remote.mask \in ValidMasks
       THEN /\ para' = IF remote = base THEN para ELSE remote
            /\ base' = remote
       ELSE UNCHANGED <<para, base>>
    /\ remote' = Missing
    /\ pc' = "auto"
    /\ UNCHANGED <<reg, work, file, whole, linked, swallowed>>

\* Valid values that differ from the last ones go to m_SystemPara and to the work
\* copies.
TakeOver ==
    /\ pc = "take"
    /\ IF remote.mask \in ValidMasks
       THEN /\ para' = IF remote = base THEN para ELSE remote
            /\ work' = IF remote = base THEN work ELSE remote.mask
            /\ swallowed' = (swallowed /\ remote = base)
            /\ base' = remote
       ELSE UNCHANGED <<para, base, work, swallowed>>
    /\ remote' = Missing
    /\ pc' = "auto"
    /\ UNCHANGED <<reg, file, whole, linked>>

-----------------------------------------------------------------------------
(* Requests for a path, as far as they touch the configuration. *)

\* HandleAutoCreateToolPathRequest: no request or still waiting for an image; GO
\* has sent; an error box; a path that is empty.
AutoService ==
    /\ pc = "auto"
    /\ pc' \in IF para.create = 1 THEN {"idle", "clear", "autoBox", "clearAgain"}
                                  ELSE {"idle"}
    /\ UNCHANGED <<copies, remote, linked, swallowed>>

CloseBox ==
    /\ pc = "autoBox"
    /\ pc' = "clearAgain"
    /\ UNCHANGED <<copies, remote, linked, swallowed>>

\* A mutant of ClearRequest: it counts requests down.
ClearRequest_CountsDown ==
    /\ para' = [para EXCEPT !.create = @ - 1]
    /\ base' = para'
    /\ swallowed' = (work # para.mask)
    /\ \E ok \in Outcome : reg' = IF ok THEN [reg EXCEPT !.create = 0] ELSE reg
    /\ UNCHANGED <<work, file, whole, remote, linked>>

\* ClearCreateToolPathRequest: m_lastSyncedSystemPara = m_SystemPara.
ClearRequest ==
    /\ para' = [para EXCEPT !.create = 0]
    /\ base' = para'
    /\ swallowed' = (work # para.mask)
    /\ \E ok \in Outcome : reg' = IF ok THEN [reg EXCEPT !.create = 0] ELSE reg
    /\ UNCHANGED <<work, file, whole, remote, linked>>

\* Inside the tick: at the end of GO, and after its box.
AutoClear ==
    /\ pc \in {"clear", "clearAgain"}
    /\ pc' = IF pc = "clear" THEN "autoBox" ELSE "idle"
    /\ ClearRequest

\* GO pressed by the operator.
GoButton ==
    /\ pc = "idle"
    /\ linked
    /\ UNCHANGED pc
    /\ ClearRequest

-----------------------------------------------------------------------------
(* The other handlers. *)

\* The keep-alive takes every register over, unchecked, and tells nobody.
KeepAlive ==
    /\ Pumping
    /\ linked
    /\ para' = reg
    /\ UNCHANGED <<reg, base, work, file, whole, remote, linked, pc, swallowed>>

\* Each key typed into the offset field of the System Para page.
PageType ==
    /\ pc = "idle"
    /\ \E v \in Offsets : para' = [para EXCEPT !.offset = v]
    /\ UNCHANGED <<reg, base, work, file, whole, remote, linked, pc, swallowed>>

\* Leaving the field stores what it shows, and saves; the Save button, a new
\* camera size, the factor dialogs and calibration save m_SystemPara as it is.
PageCommit ==
    /\ pc = "idle"
    /\ \/ UNCHANGED para
       \/ \E v \in PageOffsets : para' = [para EXCEPT !.offset = v]
    /\ \E ok \in Outcome :
        /\ whole' = (whole /\ ~ok)
        /\ pc' = IF ok THEN "commit" ELSE "idle"
    /\ UNCHANGED <<reg, base, work, file, remote, linked, swallowed>>

CommitWrite ==
    /\ pc = "commit"
    /\ WriteKeys
    /\ pc' = "idle"
    /\ UNCHANGED <<reg, para, base, work, remote, linked, swallowed>>

-----------------------------------------------------------------------------

Hmi     == HmiEdit \/ HmiSave \/ HmiCreate
Tick    == TickRead \/ SaveBegin \/ SaveWrite \/ SaveAck \/ SaveFailed \/ TakeOver
Service == AutoService \/ CloseBox \/ AutoClear \/ GoButton
Page    == PageType \/ PageCommit \/ CommitWrite

ConfigNext ==
    Hmi \/ Load \/ Open \/ Crash \/ Tick \/ Service \/ KeepAlive \/ Page

ConfigSpec == ConfigInit /\ [][ConfigNext]_configVars

\* A handler that has begun goes on.
Proceed == Open \/ SaveBegin \/ SaveWrite \/ SaveAck \/ SaveFailed \/ TakeOver
               \/ AutoService \/ CloseBox \/ AutoClear \/ CommitWrite

\* The UI thread is never stuck, the operator closes a box, the timer gets its
\* turn, and what is tried again and again works in the end.
ConfigFairness ==
    /\ WF_configVars(Proceed)
    /\ SF_configVars(TickRead /\ pc' # "auto")
    /\ SF_configVars(SaveBegin /\ pc' = "write")
    /\ SF_configVars(SaveAck /\ reg'.save = 0)

FairConfigSpec == ConfigSpec /\ ConfigFairness

-----------------------------------------------------------------------------
(* Properties. *)

HmiValues(c) == [mask |-> c.mask, offset |-> c.offset]

\* A tick that lowers register 159 has written the values the HMI shows beside it,
\* whatever the keep-alive and the page have done to m_SystemPara in between: the file
\* has them, unless the disk cut it.
AckMeansSaved ==
    [][Tick /\ reg.save = 1 /\ reg'.save = 0 =>
           IF whole' THEN HmiValues(file') = HmiValues(reg) ELSE Faults]_configVars

\* The region Tool Path works in is the one the synchronisation last took for
\* known, unless a save is pending (it takes the region first) or a keep-alive
\* brought a new mask and a request was cleared before the next tick: then no tick
\* sees a difference any more.
StaleOnlyIfSwallowed == work = base.mask \/ reg.save = 1 \/ swallowed

\* A save that fails, because the file cannot be opened or the answer is lost, is
\* tried again at every tick until it is answered, in any run that has the link.
SaveRetried == reg.save = 1 ~> (reg.save = 0 \/ ~linked)

\* With all its copies, ticks, keep-alives, pages, boxes, crashes and full disks the
\* program keeps the promise of SaveRequest: a save is answered after a write of what the
\* HMI shows, or dropped by a start, and then the HMI is shown what the file has, rounded.
Mailbox == INSTANCE SaveRequest
               WITH Values  <- [mask : Masks, offset : Offsets],
                    Display <- [v \in [mask : Masks, offset : Offsets] |->
                                   [v EXCEPT !.offset = InRegister(@)]],
                    shown   <- HmiValues(reg),
                    asked   <- reg.save = 1,
                    stored  <- HmiValues(file),
                    whole   <- whole,
                    program <- IF pc \in {"down", "open", "ack"} THEN pc ELSE "up"

ImplementsSaving == Mailbox!SaveSpec

=============================================================================
