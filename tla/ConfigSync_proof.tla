--------------------------- MODULE ConfigSync_proof ---------------------------
(***************************************************************************)
(* Proofs about ConfigSync, for any regions, any offsets, with and without *)
(* faults: what a tick acknowledges it has written, where the region of    *)
(* Tool Path can go stale, and that all of it implements SaveRequest.      *)
(***************************************************************************)
EXTENDS ConfigSync, TLAPS

\* The inductive invariant.

\* A save works on the registers as they are, until it has written them.
SaveTracksRegisters ==
    /\ pc \in {"save", "write", "ack"} =>
           reg.save = 1 /\ remote.mask = reg.mask /\ remote.offset = reg.offset
    /\ pc = "write" => para.mask = reg.mask /\ para.offset = reg.offset
    /\ pc = "ack" => IF whole THEN file.mask = reg.mask /\ file.offset = reg.offset
                              ELSE Faults

\* A start leaves all copies equal to the file, if that is complete, until the registers
\* have been written.
OpenInStep == pc = "open" => work = base.mask /\ (whole => para = file)

\* A file that is being written is not complete.
OpenClosed == pc \in {"write", "commit"} => ~whole

ConfigInv ==
    /\ ConfigTypeOK
    /\ SaveTracksRegisters
    /\ OpenClosed
    /\ OpenInStep
    /\ StaleOnlyIfSwallowed

-----------------------------------------------------------------------------

LEMMA ConfigFields ==
    ASSUME NEW c \in Config
    PROVE  /\ c.mask \in Masks /\ c.offset \in Offsets
           /\ c.create \in 0 .. 1 /\ c.save \in 0 .. 1
BY DEF Config

\* Fields are changed within their types.
LEMMA ConfigChanges ==
    \A c \in Config :
        /\ [c EXCEPT !.save = 0] \in Config
        /\ [c EXCEPT !.save = 1] \in Config
        /\ [c EXCEPT !.create = 0] \in Config
        /\ [c EXCEPT !.create = 1] \in Config
        /\ \A v \in Offsets : [c EXCEPT !.offset = v] \in Config
        /\ \A m \in Masks, v \in Offsets :
               [c EXCEPT !.mask = m, !.offset = v] \in Config
<1> SUFFICES ASSUME NEW c \in Config
             PROVE  /\ [c EXCEPT !.save = 0] \in Config
                    /\ [c EXCEPT !.save = 1] \in Config
                    /\ [c EXCEPT !.create = 0] \in Config
                    /\ [c EXCEPT !.create = 1] \in Config
                    /\ \A v \in Offsets : [c EXCEPT !.offset = v] \in Config
                    /\ \A m \in Masks, v \in Offsets :
                           [c EXCEPT !.mask = m, !.offset = v] \in Config
  OBVIOUS
<1>1. \A n \in 0 .. 1 : [c EXCEPT !.save = n] \in Config
  BY DEF Config
<1>2. \A n \in 0 .. 1 : [c EXCEPT !.create = n] \in Config
  BY DEF Config
<1>3. \A v \in Offsets : [c EXCEPT !.offset = v] \in Config
  BY DEF Config
<1>4. \A m \in Masks, v \in Offsets : [c EXCEPT !.mask = m, !.offset = v] \in Config
  BY DEF Config
<1>5. 0 \in 0 .. 1 /\ 1 \in 0 .. 1
  OBVIOUS
<1> QED BY <1>1, <1>2, <1>3, <1>4, <1>5, Zenon

LEMMA MissingConfig == Missing \in Config
BY MaskAssumption, OffsetAssumption DEF Missing, Config

\* The registers hold what a configuration is rounded to.
LEMMA RegisterConfig == \A c \in Config : [c EXCEPT !.offset = InRegister(@)] \in Config
BY OffsetAssumption DEF Config

\* A write that is cut short leaves a configuration, too.
LEMMA CutConfig == \A c \in Config : Saved(c) \in Config /\ Cuts(Saved(c)) \subseteq Config
<1> SUFFICES ASSUME NEW c \in Config, NEW d \in Cuts(c) PROVE d \in Config
  BY DEF Saved
<1>1. c.mask \in Masks /\ c.offset \in Offsets /\ c.create \in 0 .. 1 /\ c.save \in 0 .. 1
  BY ConfigFields
<1>2. ZeroMask \in Masks
  BY MaskAssumption
<1>3. CASE d = Missing
  BY <1>3, MissingConfig
<1>4. CASE d \in [mask : {ZeroMask}, offset : Offsets, create : {0}, save : {0}]
  BY <1>2, <1>4 DEF Config
<1>5. CASE d \in [mask : Masks, offset : {c.offset}, create : {0}, save : {0}]
  BY <1>1, <1>5 DEF Config
<1>6. CASE d \in [mask : {c.mask}, offset : {c.offset}, create : {0, c.create},
                 save : {0, c.save}]
  BY <1>1, <1>6 DEF Config
<1> QED BY <1>3, <1>4, <1>5, <1>6 DEF Cuts

LEMMA ConfigInitInv == ConfigInit => ConfigInv
<1> SUFFICES ASSUME ConfigInit PROVE ConfigInv
  OBVIOUS
<1>1. file \in Config /\ file.mask \in Masks
  BY DEF ConfigInit, Config
<1>2. reg \in Config
  BY <1>1, RegisterConfig DEF ConfigInit
<1>3. ConfigTypeOK
  BY <1>1, <1>2, MissingConfig DEF ConfigInit, ConfigTypeOK, Places
<1> QED BY <1>3
  DEF ConfigInit, ConfigInv, SaveTracksRegisters, OpenClosed, OpenInStep,
      StaleOnlyIfSwallowed

\* Types: the HMI, the life of the program, the tick, the rest.
LEMMA ConfigTypeStep == ConfigTypeOK /\ [ConfigNext]_configVars => ConfigTypeOK'
<1> SUFFICES ASSUME ConfigTypeOK, [ConfigNext]_configVars PROVE ConfigTypeOK'
  OBVIOUS
<1> USE MissingConfig DEF ConfigTypeOK
<1>1. CASE Hmi
  <2>1. reg' \in Config
    <3>1. CASE HmiEdit
      <4>1. PICK m \in Masks, v \in Offsets :
                reg' = [reg EXCEPT !.mask = m, !.offset = v]
        BY <3>1 DEF HmiEdit, WholeOffsets
      <4> QED BY <4>1, ConfigChanges
    <3>2. CASE HmiSave \/ HmiCreate
      BY <3>2, ConfigChanges DEF HmiSave, HmiCreate
    <3> QED BY <1>1, <3>1, <3>2 DEF Hmi
  <2> QED BY <1>1, <2>1 DEF Hmi, HmiEdit, HmiSave, HmiCreate
<1>2. CASE Load
  <2>1. para' = file /\ base' = para' /\ work' = para'.mask
    BY <1>2 DEF Load
  <2>2. pc' \in Places /\ linked' \in BOOLEAN /\ swallowed' \in BOOLEAN
    BY <1>2 DEF Load, Outcome, Places
  <2>3. work' \in Masks
    BY <2>1, ConfigFields
  <2>4. whole' \in BOOLEAN /\ file' \in {file} \cup Cuts(Saved(file))
    BY <1>2, <2>1 DEF Load, Saved
  <2>5. file' \in Config
    BY <2>4, CutConfig
  <2> QED BY <1>2, <2>1, <2>2, <2>3, <2>4, <2>5 DEF Load
<1>3. CASE Open
  <2>1. reg' \in Config
    BY <1>3, RegisterConfig DEF Open
  <2> QED BY <1>3, <2>1 DEF Open, Places
<1>4. CASE Crash
  <2>1. linked' \in BOOLEAN /\ swallowed' \in BOOLEAN /\ pc' \in Places
    BY <1>4 DEF Crash, Places
  <2>2. file' \in {file} \cup Cuts(Saved(para))
    BY <1>4 DEF Crash
  <2>3. file' \in Config
    BY <2>2, CutConfig
  <2>4. para' = file' /\ base' = file' /\ work' = file'.mask
    BY <1>4 DEF Crash
  <2>5. work' \in Masks
    BY <2>3, <2>4, ConfigFields
  <2> QED BY <1>4, <2>1, <2>3, <2>4, <2>5 DEF Crash
<1>5. CASE TickRead
  <2>1. remote' \in Config /\ pc' \in Places
    BY <1>5 DEF TickRead, Places
  <2> QED BY <1>5, <2>1 DEF TickRead, copies
<1>6. CASE SaveBegin
  <2>1. whole' \in BOOLEAN /\ pc' \in Places /\ swallowed' \in BOOLEAN
    BY <1>6 DEF SaveBegin, Outcome, Places
  <2>2. remote' \in Config /\ para' \in Config
    BY <1>6, ConfigChanges DEF SaveBegin
  <2>3. work' \in Masks
    BY <1>6, ConfigFields DEF SaveBegin
  <2> QED BY <1>6, <2>1, <2>2, <2>3 DEF SaveBegin
<1>7. CASE SaveWrite
  <2>1. whole' \in BOOLEAN /\ pc' \in Places /\ file' \in Config
    BY <1>7, CutConfig DEF SaveWrite, WriteKeys, Places
  <2> QED BY <1>7, <2>1 DEF SaveWrite
<1>8. CASE SaveAck
  <2>1. swallowed' \in BOOLEAN /\ pc' \in Places
    BY <1>8 DEF SaveAck, Places
  <2>2. reg' \in Config
    BY <1>8, ConfigChanges DEF SaveAck
  <2> QED BY <1>8, <2>1, <2>2 DEF SaveAck
<1>9. CASE SaveFailed
  BY <1>9 DEF SaveFailed, copies, Places
<1>10. CASE TakeOver
  <2>1. swallowed' \in BOOLEAN
    BY <1>10 DEF TakeOver
  <2>2. /\ para' \in Config /\ base' \in Config /\ remote' \in Config
        /\ work' \in Masks
    BY <1>10, ConfigFields DEF TakeOver
  <2> QED BY <1>10, <2>1, <2>2 DEF TakeOver, Places
<1>11. CASE Service
  <2>1. CASE AutoService \/ CloseBox
    <3>1. pc' \in Places
      BY <2>1 DEF AutoService, CloseBox, Places
    <3> QED BY <2>1, <3>1 DEF AutoService, CloseBox, copies
  <2>2. CASE AutoClear \/ GoButton
    <3>1. swallowed' \in BOOLEAN
      BY <2>2 DEF AutoClear, GoButton, ClearRequest
    <3>2. pc' \in Places
      BY <2>2 DEF AutoClear, GoButton, Places
    <3>3. para' \in Config /\ base' \in Config /\ reg' \in Config
      <4>1. /\ para' = [para EXCEPT !.create = 0]
            /\ base' = para'
            /\ reg' \in {reg, [reg EXCEPT !.create = 0]}
        BY <2>2 DEF AutoClear, GoButton, ClearRequest
      <4> QED BY <4>1, ConfigChanges
    <3> QED BY <2>2, <3>1, <3>2, <3>3 DEF AutoClear, GoButton, ClearRequest
  <2> QED BY <1>11, <2>1, <2>2 DEF Service
<1>12. CASE KeepAlive
  BY <1>12 DEF KeepAlive
<1>13. CASE Page
  <2>1. para' \in Config
    <3>1. para' = para \/ \E v \in Offsets : para' = [para EXCEPT !.offset = v]
      BY <1>13 DEF Page, PageType, PageCommit, PageOffsets, CommitWrite
    <3> QED BY <3>1, ConfigChanges
  <2>2. CASE PageType
    BY <2>1, <2>2 DEF PageType
  <2>3. CASE PageCommit
    <3>1. whole' \in BOOLEAN /\ pc' \in Places
      BY <2>3 DEF PageCommit, Outcome, Places
    <3> QED BY <2>1, <2>3, <3>1 DEF PageCommit
  <2>4. CASE CommitWrite
    <3>1. whole' \in BOOLEAN /\ pc' \in Places /\ file' \in Config
      BY <2>4, CutConfig DEF CommitWrite, WriteKeys, Places
    <3> QED BY <2>1, <2>4, <3>1 DEF CommitWrite
  <2> QED BY <1>13, <2>2, <2>3, <2>4 DEF Page
<1>14. CASE UNCHANGED configVars
  BY <1>14 DEF configVars, copies
<1> QED BY <1>1, <1>2, <1>3, <1>4, <1>5, <1>6, <1>7, <1>8, <1>9, <1>10, <1>11,
           <1>12, <1>13, <1>14
  DEF ConfigNext, Tick

-----------------------------------------------------------------------------

\* While a save is under way only the tick's own steps touch what it tracks.
LEMMA SaveTracksStep ==
    ConfigTypeOK /\ SaveTracksRegisters /\ OpenClosed /\ [ConfigNext]_configVars
        => SaveTracksRegisters'
<1> SUFFICES ASSUME ConfigTypeOK, SaveTracksRegisters, OpenClosed, [ConfigNext]_configVars
             PROVE  SaveTracksRegisters'
  OBVIOUS
<1> USE DEF SaveTracksRegisters
<1>1. CASE Hmi
  <2>1. UNCHANGED <<para, file, whole, remote, pc>>
    BY <1>1 DEF Hmi, HmiEdit, HmiSave, HmiCreate
  <2>2. CASE HmiEdit \/ HmiSave
    <3>1. reg.save = 0
      BY <2>2 DEF HmiEdit, HmiSave
    <3> QED BY <2>1, <3>1
  <2>3. CASE HmiCreate
    BY <2>1, <2>3 DEF HmiCreate, ConfigTypeOK, Config
  <2> QED BY <1>1, <2>2, <2>3 DEF Hmi
<1>2. CASE Load \/ Open \/ Crash
  BY <1>2 DEF Load, Open, Crash
<1>3. CASE TickRead
  BY <1>3 DEF TickRead, copies
<1>4. CASE SaveBegin
  BY <1>4, ConfigFields DEF SaveBegin, ConfigTypeOK, Config
<1>5. CASE SaveWrite
  <2>1. pc = "write" /\ pc' = "ack" /\ UNCHANGED <<reg, remote>>
    BY <1>5 DEF SaveWrite
  <2>2. ~whole
    BY <2>1 DEF OpenClosed
  <2>3. CASE file' = Saved(para) /\ whole' = TRUE
    BY <2>1, <2>3 DEF Saved
  <2>4. CASE Faults /\ UNCHANGED whole
    BY <2>1, <2>2, <2>4
  <2> QED BY <1>5, <2>3, <2>4 DEF SaveWrite, WriteKeys
<1>6. CASE SaveAck \/ SaveFailed \/ TakeOver
  BY <1>6 DEF SaveAck, SaveFailed, TakeOver
<1>7. CASE Service \/ KeepAlive \/ Page
  BY <1>7 DEF Service, AutoService, CloseBox, AutoClear, GoButton, KeepAlive,
              Pumping, Page, PageType, PageCommit, CommitWrite
<1>8. CASE UNCHANGED configVars
  BY <1>8 DEF configVars, copies
<1> QED BY <1>1, <1>2, <1>3, <1>4, <1>5, <1>6, <1>7, <1>8 DEF ConfigNext, Tick

LEMMA OpenClosedStep == OpenClosed /\ [ConfigNext]_configVars => OpenClosed'
BY DEF OpenClosed, ConfigNext, Hmi, HmiEdit, HmiSave, HmiCreate, Load, Open, Crash, Tick,
       TickRead, SaveBegin, SaveWrite, SaveAck, SaveFailed, TakeOver, Service, AutoService,
       CloseBox, AutoClear, GoButton, ClearRequest, KeepAlive, Pumping, Page, PageType,
       PageCommit, CommitWrite, configVars, copies

\* Work and baseline part only where the baseline moves without the work copies.
LEMMA StaleStep ==
    ConfigTypeOK /\ SaveTracksRegisters /\ OpenInStep /\ StaleOnlyIfSwallowed
      /\ [ConfigNext]_configVars
        => OpenInStep' /\ StaleOnlyIfSwallowed'
<1> SUFFICES ASSUME ConfigTypeOK, SaveTracksRegisters, OpenInStep,
                    StaleOnlyIfSwallowed, [ConfigNext]_configVars
             PROVE  OpenInStep' /\ StaleOnlyIfSwallowed'
  OBVIOUS
<1> USE DEF OpenInStep, StaleOnlyIfSwallowed
<1>1. CASE Hmi
  <2>1. reg'.save = reg.save \/ reg'.save = 1
    BY <1>1 DEF Hmi, HmiEdit, HmiSave, HmiCreate, ConfigTypeOK, Config
  <2>2. UNCHANGED <<para, base, work, file, whole, pc, swallowed>>
    BY <1>1 DEF Hmi, HmiEdit, HmiSave, HmiCreate
  <2> QED BY <2>1, <2>2
<1>2. CASE Load \/ Open \/ Crash
  <2>1. CASE Load
    <3>1. para' = file /\ base' = para' /\ work' = para'.mask
      BY <2>1 DEF Load
    <3>2. file' = file \/ ~whole'
      BY <2>1, <3>1 DEF Load
    <3>3. work' = base'.mask
      BY <3>1
    <3> QED BY <3>1, <3>2, <3>3
  <2>2. CASE Open \/ Crash
    BY <2>2 DEF Open, Crash
  <2> QED BY <1>2, <2>1, <2>2
<1>3. CASE TickRead \/ SaveFailed \/ SaveWrite
  BY <1>3 DEF TickRead, SaveFailed, SaveWrite, copies
<1>4. CASE SaveBegin
  BY <1>4 DEF SaveBegin, SaveTracksRegisters
<1>5. CASE SaveAck
  BY <1>5 DEF SaveAck
<1>6. CASE TakeOver
  BY <1>6 DEF TakeOver
<1>7. CASE Service
  <2>1. CASE AutoService \/ CloseBox
    BY <2>1 DEF AutoService, CloseBox, copies
  <2>2. CASE AutoClear \/ GoButton
    <3>1. base'.mask = para.mask /\ work' = work
      BY <2>2 DEF AutoClear, GoButton, ClearRequest, ConfigTypeOK, Config
    <3>2. swallowed' = (work # para.mask) /\ pc' # "open"
      BY <2>2 DEF AutoClear, GoButton, ClearRequest
    <3> QED BY <3>1, <3>2
  <2> QED BY <1>7, <2>1, <2>2 DEF Service
<1>8. CASE KeepAlive \/ Page
  BY <1>8 DEF KeepAlive, Pumping, Page, PageType, PageCommit, CommitWrite
<1>9. CASE UNCHANGED configVars
  BY <1>9 DEF configVars, copies
<1> QED BY <1>1, <1>2, <1>3, <1>4, <1>5, <1>6, <1>7, <1>8, <1>9
  DEF ConfigNext, Tick

-----------------------------------------------------------------------------

\* ConfigInv holds in every state.
LEMMA ConfigInvariant == ConfigSpec => []ConfigInv
<1>1. ConfigInit => ConfigInv
  BY ConfigInitInv
<1>2. ConfigInv /\ [ConfigNext]_configVars => ConfigInv'
  BY ConfigTypeStep, SaveTracksStep, OpenClosedStep, StaleStep DEF ConfigInv
<1> QED BY <1>1, <1>2, PTL DEF ConfigSpec

\* Every copy of the configuration stays within the ranges of its fields.
THEOREM ConfigTyped == ConfigSpec => []ConfigTypeOK
BY ConfigInvariant, PTL DEF ConfigInv

\* The work region lags behind the baseline only during a save or when a
\* keep-alive's mask was swallowed by the clearing of a request.
THEOREM WorkFollowsBaseline == ConfigSpec => []StaleOnlyIfSwallowed
BY ConfigInvariant, PTL DEF ConfigInv

\* A tick that lowers register 159 has written what the HMI shows, and without faults the
\* file is complete.
THEOREM AckedIsSaved == ConfigSpec => AckMeansSaved
<1> DEFINE Acked == Tick /\ reg.save = 1 /\ reg'.save = 0 =>
                        IF whole' THEN HmiValues(file') = HmiValues(reg) ELSE Faults
<1>1. ConfigInv /\ [ConfigNext]_configVars => [Acked]_configVars
  <2> SUFFICES ASSUME ConfigInv, Tick, reg.save = 1, reg'.save = 0
               PROVE  IF whole' THEN HmiValues(file') = HmiValues(reg) ELSE Faults
    OBVIOUS
  <2>1. SaveAck
    BY DEF Tick, TickRead, SaveBegin, SaveWrite, SaveFailed, TakeOver, copies
  <2> QED BY <2>1 DEF SaveAck, ConfigInv, SaveTracksRegisters, HmiValues
<1> QED BY <1>1, ConfigInvariant, PTL DEF ConfigSpec, AckMeansSaved

-----------------------------------------------------------------------------
(* ConfigSync implements SaveRequest. *)

MailboxInit == Mailbox!SaveInit
MailboxStep == [Mailbox!SaveNext]_(Mailbox!saveVars)

LEMMA ValuesOfConfig ==
    ASSUME NEW c \in Config
    PROVE  HmiValues(c) \in [mask : Masks, offset : Offsets]
BY ConfigFields DEF HmiValues

\* Both sides round alike.
LEMMA DisplayOfConfig ==
    ASSUME NEW c \in Config
    PROVE  HmiValues([c EXCEPT !.offset = InRegister(@)])
               = [v \in [mask : Masks, offset : Offsets] |->
                     [v EXCEPT !.offset = InRegister(@)]][HmiValues(c)]
<1>1. HmiValues(c) \in [mask : Masks, offset : Offsets]
  BY ValuesOfConfig
<1>2. HmiValues([c EXCEPT !.offset = InRegister(@)])
          = [mask |-> c.mask, offset |-> InRegister(c.offset)]
  BY DEF HmiValues, Config
<1>3. [HmiValues(c) EXCEPT !.offset = InRegister(@)]
          = [mask |-> c.mask, offset |-> InRegister(c.offset)]
  BY DEF HmiValues
<1> QED BY <1>1, <1>2, <1>3

LEMMA SaveRequestInit == ConfigInit => MailboxInit
<1> SUFFICES ASSUME ConfigInit PROVE MailboxInit
  OBVIOUS
<1>1. file \in Config
  BY ConfigInitInv DEF ConfigInv, ConfigTypeOK
<1>2. HmiValues(file) \in [mask : Masks, offset : Offsets]
  BY <1>1, ValuesOfConfig
<1>3. /\ reg = [file EXCEPT !.offset = InRegister(@)]
      /\ file.save = 0 /\ whole = TRUE /\ pc = "down"
  BY DEF ConfigInit
<1>4. reg.save = 0
  BY <1>1, <1>3 DEF Config
<1>5. HmiValues(reg) = [v \in [mask : Masks, offset : Offsets] |->
                           [v EXCEPT !.offset = InRegister(@)]][HmiValues(file)]
  BY <1>1, <1>3, DisplayOfConfig
<1> QED BY <1>2, <1>3, <1>4, <1>5 DEF MailboxInit, Mailbox!SaveInit

\* Each step is one of the promise or changes nothing the HMI can see.
LEMMA SaveRequestStep == ConfigInv /\ ConfigTypeOK' /\ [ConfigNext]_configVars => MailboxStep
<1> SUFFICES ASSUME ConfigInv, ConfigTypeOK', [ConfigNext]_configVars PROVE MailboxStep
  OBVIOUS
<1> DEFINE V == [mask : Masks, offset : Offsets]
           Special == {"down", "open", "ack"}
<1>t. /\ reg \in Config /\ file \in Config /\ whole \in BOOLEAN /\ reg.save \in 0 .. 1
      /\ HmiValues(reg') \in V /\ HmiValues(file') \in V /\ whole' \in BOOLEAN
      /\ reg'.save \in 0 .. 1
  BY ValuesOfConfig, ConfigFields DEF ConfigInv, ConfigTypeOK
<1> USE DEF MailboxStep, Mailbox!SaveNext, Mailbox!saveVars
<1>0. ASSUME UNCHANGED <<HmiValues(reg), reg.save, file, whole>>,
             pc' = pc \/ (pc \notin Special /\ pc' \notin Special)
      PROVE  MailboxStep
  BY <1>0
<1>1. CASE HmiEdit
  <2>1. reg.save = 0 /\ reg'.save = 0 /\ UNCHANGED <<file, whole, pc>>
    BY <1>1, <1>t DEF HmiEdit, Config
  <2> QED BY <2>1, <1>t DEF Mailbox!Edit
<1>2. CASE HmiSave
  <2>1. HmiValues(reg') = HmiValues(reg) /\ reg'.save = 1 /\ UNCHANGED <<file, whole, pc>>
    BY <1>2, <1>t DEF HmiSave, HmiValues, Config
  <2> QED BY <2>1 DEF Mailbox!Ask
<1>3. CASE HmiCreate
  <2>1. HmiValues(reg') = HmiValues(reg) /\ reg'.save = reg.save /\ UNCHANGED <<file, whole, pc>>
    BY <1>3, <1>t DEF HmiCreate, HmiValues, Config
  <2> QED BY <1>0, <2>1
<1>4. CASE Load
  <2>1. /\ pc = "down" /\ pc' \in {"open", "idle"} /\ reg' = reg
        /\ whole => file' = file /\ whole' = whole
    BY <1>4 DEF Load
  <2> QED BY <2>1, <1>t DEF Mailbox!Start
<1>5. CASE Open
  <2>1. /\ pc = "open" /\ pc' = "idle" /\ UNCHANGED <<file, whole>>
        /\ reg' \in {[para EXCEPT !.offset = InRegister(@)], reg}
        /\ whole => para = file
    BY <1>5 DEF Open, ConfigInv, OpenInStep
  <2>2. CASE reg' = reg
    BY <2>1, <2>2 DEF Mailbox!Show
  <2>3. CASE reg' = [para EXCEPT !.offset = InRegister(@)] /\ whole
    BY <1>t, <2>1, <2>3, DisplayOfConfig DEF Mailbox!Show
  <2>4. CASE ~whole
    BY <1>t, <2>1, <2>4 DEF Mailbox!Show
  <2> QED BY <2>1, <2>2, <2>3, <2>4
<1>6. CASE Crash
  <2>1. /\ pc # "down" /\ pc' = "down" /\ UNCHANGED <<reg, whole>>
        /\ pc \notin {"write", "commit"} => file' = file
    BY <1>6 DEF Crash
  <2>2. pc \in {"write", "commit"} => ~whole
    BY DEF ConfigInv, OpenClosed
  <2> QED BY <2>1, <2>2, <1>t DEF Mailbox!Stop
<1>7. CASE SaveBegin \/ PageCommit \/ CommitWrite
  <2>1. /\ pc \notin Special /\ pc' \notin Special /\ reg' = reg
    BY <1>7 DEF SaveBegin, PageCommit, CommitWrite
  <2> QED BY <2>1, <1>t DEF Mailbox!Store
<1>8. CASE SaveWrite
  <2>1. pc = "write" /\ pc' = "ack" /\ reg' = reg /\ reg.save = 1 /\ ~whole
    BY <1>8 DEF SaveWrite, ConfigInv, SaveTracksRegisters, OpenClosed
  <2>2. CASE file' = Saved(para) /\ whole' = TRUE
    <3>1. HmiValues(file') = HmiValues(reg)
      BY <2>1, <2>2 DEF Saved, HmiValues, ConfigInv, SaveTracksRegisters
    <3> QED BY <2>1, <2>2, <3>1 DEF Mailbox!Save
  <2>3. CASE UNCHANGED whole
    BY <2>1, <2>3, <1>t DEF Mailbox!Save
  <2> QED BY <1>8, <2>2, <2>3 DEF SaveWrite, WriteKeys
<1>9. CASE SaveAck
  <2>1. /\ pc = "ack" /\ pc' = "take" /\ UNCHANGED <<file, whole>>
        /\ reg' \in {reg, [reg EXCEPT !.save = 0]}
    BY <1>9 DEF SaveAck
  <2>2. HmiValues(reg') = HmiValues(reg)
    BY <1>t, <2>1 DEF HmiValues, Config
  <2> QED BY <2>1, <2>2 DEF Mailbox!Answer
<1>10. CASE TickRead \/ SaveFailed \/ TakeOver
  <2>1. UNCHANGED <<reg, file, whole>> /\ pc \notin Special /\ pc' \notin Special
    BY <1>10 DEF TickRead, SaveFailed, TakeOver, copies
  <2> QED BY <1>0, <2>1
<1>11. CASE AutoService \/ CloseBox
  <2>1. UNCHANGED <<reg, file, whole>> /\ pc \notin Special /\ pc' \notin Special
    BY <1>11 DEF AutoService, CloseBox, copies
  <2> QED BY <1>0, <2>1
<1>12. CASE AutoClear \/ GoButton
  <2>1. /\ UNCHANGED <<file, whole>> /\ reg' \in {reg, [reg EXCEPT !.create = 0]}
        /\ pc \notin Special /\ pc' \notin Special
    BY <1>12 DEF AutoClear, GoButton, ClearRequest
  <2>2. HmiValues(reg') = HmiValues(reg) /\ reg'.save = reg.save
    BY <1>t, <2>1 DEF HmiValues, Config
  <2> QED BY <1>0, <2>1, <2>2
<1>13. CASE KeepAlive \/ PageType \/ UNCHANGED configVars
  BY <1>0, <1>13 DEF KeepAlive, PageType, configVars, copies
<1> QED
  BY <1>1, <1>2, <1>3, <1>4, <1>5, <1>6, <1>7, <1>8, <1>9, <1>10, <1>11, <1>12, <1>13
  DEF ConfigNext, Hmi, Tick, Service, Page

\* The synchronisation implements the promise of SaveRequest: while the program is up, a
\* save the HMI asked for ends only after a write of what the HMI shows, which a complete
\* file has, and what the HMI shows is replaced only by a start, with what a complete file
\* has, rounded; for all regions and offsets, with crashes between any two steps and
\* writes that a full disk cuts short.
THEOREM SavingRefinement == ConfigSpec => ImplementsSaving
<1>1. ConfigInit => Mailbox!SaveInit
  BY SaveRequestInit DEF MailboxInit
<1>2. ConfigInv /\ ConfigInv' /\ [ConfigNext]_configVars
        => [Mailbox!SaveNext]_(Mailbox!saveVars)
  BY SaveRequestStep DEF MailboxStep, ConfigInv
<1> QED BY <1>1, <1>2, ConfigInvariant, PTL DEF ConfigSpec, ImplementsSaving, Mailbox!SaveSpec
=============================================================================
