-------------------------- MODULE PathTransfer_proof --------------------------
(***************************************************************************)
(* Proofs about PathTransfer, for any number of axes and transmissions:    *)
(* the journal is true of the PLC, GO announces a path only after it has   *)
(* arrived, and GO implements PathDelivery.                                *)
(***************************************************************************)
EXTENDS PathTransfer, TLAPS

\* The inductive invariant, part by part.

\* No block and no journal row is ahead of the transmission counter.
NothingAhead ==
    /\ \A a \in Axes : blocks[a] <= batch
    /\ \A b \in prepared : b <= batch
    /\ \A b \in Batches : b > batch => result[b] = NoResult

\* From the first write on, the batch is in the journal; until RESULT rows are
\* appended it has none.
JournalOpen ==
    /\ goPc \in {"write", "result"} => batch \in prepared
    /\ goPc \in {"prepare", "write", "result"} =>
          batch \in Batches /\ result[batch] = NoResult

\* While rows are being prepared nothing has been sent.
PrepareState ==
    goPc = "prepare" =>
        /\ axis = 1
        /\ \A a \in Axes : status[a] = "NOT_ATTEMPTED" /\ blocks[a] # batch

\* The loop has written the axes before the current one and no other.
WriteState ==
    goPc = "write" =>
        /\ axis \in Axes
        /\ \A a \in Axes : a < axis => status[a] = "SUCCESS" /\ blocks[a] = batch
        /\ \A a \in Axes : a >= axis => status[a] = "NOT_ATTEMPTED" /\ blocks[a] # batch

\* When the loop is left, writeResults is true and has the form of a prefix.
ResultState ==
    goPc = "result" =>
        /\ \A a \in Axes : status[a] = "SUCCESS" => blocks[a] = batch
        /\ \A a \in Axes : status[a] = "NOT_ATTEMPTED" => blocks[a] # batch
        /\ \A a, c \in Axes :
              a < c /\ status[c] \in {"SUCCESS", "FAILED"} => status[a] = "SUCCESS"

\* A GO that a tick interrupts has sent its whole path, which only later batches
\* replace; one that is still sending has interrupted, if anything, an operator's.
OuterState ==
    /\ \A a \in Axes : blocks[a] >= outer
    /\ goPc \in {"prepare", "write", "result"} => Own = batch

\* After the loop, a GO that says all axes are written is right.
ClearState ==
    /\ goPc \in {"warned", "clear"} /\ AllWritten => \A a \in Axes : blocks[a] >= Own
    /\ goPc = "clear" => AllWritten

TransferInv ==
    /\ TransferTypeOK
    /\ NothingAhead
    /\ JournalOpen
    /\ PrepareState
    /\ WriteState
    /\ ResultState
    /\ OuterState
    /\ ClearState
    /\ WrittenImpliesPrepared
    /\ ResultIsTrue
    /\ ResultIsAPrefix

-----------------------------------------------------------------------------

\* Every step keeps the variables in their types.  That a batch under way is a
\* transmission number is needed for the journal.
LEMMA TypeStep ==
    TransferTypeOK /\ JournalOpen /\ [TransferNext]_transferVars => TransferTypeOK'
<1> SUFFICES ASSUME TransferTypeOK, JournalOpen, [TransferNext]_transferVars
             PROVE  TransferTypeOK'
  OBVIOUS
<1> USE TransferAssumption
    DEF TransferTypeOK, GoPcs, Callers, Ended, Own, Lowered, Axes, Batches
<1>1. CASE GoBegin
  BY <1>1 DEF GoBegin, NotAttempted, Statuses
<1>2. CASE LogPrepared
  BY <1>2 DEF LogPrepared, JournalOpen
<1>3. CASE LogPreparedFails
  BY <1>3 DEF LogPreparedFails, JournalOpen
<1>4. CASE WriteAxis
  BY <1>4 DEF WriteAxis, Statuses
<1>5. CASE WriteAxisFails
  BY <1>5 DEF WriteAxisFails, Statuses
<1>6. CASE LogResult
  BY <1>6 DEF LogResult
<1>7. CASE CloseWarning
  BY <1>7 DEF CloseWarning
<1>8. CASE ClearRequest
  BY <1>8 DEF ClearRequest
<1>9. CASE DismissBox
  BY <1>9 DEF DismissBox
<1>10. CASE TickReturns
  BY <1>10 DEF TickReturns, Statuses
<1>11. CASE TickClears
  BY <1>11 DEF TickClears
<1>12. CASE HmiRequest
  BY <1>12 DEF HmiRequest
<1>13. CASE LinkBreaks
  BY <1>13 DEF LinkBreaks
<1>14. CASE Crash
  <2>1. goPc' \in GoPcs /\ outer' \in 0 .. MaxBatch
    BY <1>14 DEF Crash
  <2>2. ctx' \in BOOLEAN /\ linkUp' \in BOOLEAN
    BY <1>14, Zenon DEF Crash
  <2> QED BY <1>14, <2>1, <2>2 DEF Crash
<1>15. CASE Restart
  BY <1>15 DEF Restart
<1>16. CASE UNCHANGED transferVars
  BY <1>16 DEF transferVars
<1> QED
  BY <1>1, <1>2, <1>3, <1>4, <1>5, <1>6, <1>7, <1>8, <1>9, <1>10, <1>11, <1>12,
     <1>13, <1>14, <1>15, <1>16 DEF TransferNext

-----------------------------------------------------------------------------

\* The steps that neither send nor log anything: the batch, its results, the PLC
\* blocks and the journal stay, and the handler stays where it is, ends or dies.
Quiet ==
    /\ UNCHANGED <<caller, batch, axis, status, blocks, prepared, result>>
    /\ \/ UNCHANGED <<goPc, outer>>
       \/ goPc' \in {"idle", "box", "return", "down"} /\ outer' \in {0, outer}

\* An operator's GO goes on after its warning, or comes back to it.
Resume ==
    \/ CloseWarning /\ AllWritten
    \/ TickReturns /\ outer # 0

LEMMA QuietActions ==
    CloseWarning \/ ClearRequest \/ DismissBox \/ TickReturns \/ TickClears
      \/ HmiRequest \/ LinkBreaks \/ Crash \/ Restart \/ UNCHANGED transferVars
    => Quiet \/ Resume
BY DEF CloseWarning, ClearRequest, DismissBox, TickReturns, TickClears, HmiRequest,
       LinkBreaks, Crash, Restart, Ended, transferVars, Quiet, Resume

\* Everything of the invariant that is not typing survives a quiet step.
LEMMA QuietStep ==
    ASSUME TransferInv, Quiet, TransferTypeOK'
    PROVE  TransferInv'
<1>1. NothingAhead'
  BY DEF TransferInv, Quiet, NothingAhead
<1>2. JournalOpen'
  BY DEF TransferInv, Quiet, JournalOpen
<1>3. PrepareState' /\ WriteState'
  BY DEF TransferInv, Quiet, PrepareState, WriteState
<1>4. ResultState'
  BY DEF TransferInv, Quiet, ResultState
<1>5. OuterState' /\ ClearState'
  <2>1. \A a \in Axes : blocks[a] \in Nat
    BY TransferAssumption DEF TransferInv, TransferTypeOK
  <2> QED
    BY <2>1 DEF TransferInv, Quiet, OuterState, ClearState, AllWritten, Own
<1>6. WrittenImpliesPrepared' /\ ResultIsTrue' /\ ResultIsAPrefix'
  BY DEF TransferInv, Quiet, WrittenImpliesPrepared, ResultIsTrue, ResultIsAPrefix
<1> QED BY <1>1, <1>2, <1>3, <1>4, <1>5, <1>6 DEF TransferInv

\* What an operator's GO has sent is still there, or something later, when it goes on.
LEMMA ResumeStep ==
    ASSUME TransferInv, Resume, TransferTypeOK'
    PROVE  TransferInv'
<1>1. /\ UNCHANGED <<outer, batch, axis, blocks, prepared, result>>
      /\ \/ goPc = "warned" /\ goPc' = "clear" /\ AllWritten /\ UNCHANGED <<caller, status>>
         \/ outer # 0 /\ goPc' = "warned" /\ caller' = "operator"
  BY DEF Resume, CloseWarning, TickReturns
<1>2. NothingAhead' /\ JournalOpen' /\ PrepareState' /\ WriteState' /\ ResultState'
  BY <1>1 DEF TransferInv, NothingAhead, JournalOpen, PrepareState, WriteState, ResultState
<1>3. OuterState' /\ ClearState'
  BY <1>1 DEF TransferInv, OuterState, ClearState, AllWritten, Own
<1>4. WrittenImpliesPrepared' /\ ResultIsTrue' /\ ResultIsAPrefix'
  BY <1>1 DEF TransferInv, WrittenImpliesPrepared, ResultIsTrue, ResultIsAPrefix
<1> QED BY <1>1, <1>2, <1>3, <1>4 DEF TransferInv

-----------------------------------------------------------------------------

\* A new transmission: no block can hold its number yet.
LEMMA BeginStep ==
    ASSUME TransferInv, GoBegin, TransferTypeOK'
    PROVE  TransferInv'
<1> USE DEF TransferInv, GoBegin
<1>1. batch \in Nat /\ batch' = batch + 1 /\ batch' \in Batches
  BY TransferAssumption DEF TransferTypeOK, Batches
<1>2. \A a \in Axes : blocks[a] \in Nat /\ blocks[a] <= batch
  BY DEF TransferTypeOK, NothingAhead
<1>3. \A b \in Batches : b \in Nat
  BY TransferAssumption DEF Batches
<1>4. NothingAhead'
  BY <1>1, <1>2, <1>3 DEF NothingAhead, TransferTypeOK
<1>5. JournalOpen'
  BY <1>1 DEF NothingAhead, JournalOpen
<1>6. PrepareState'
  BY <1>1, <1>2 DEF PrepareState, NotAttempted
<1>7. WriteState' /\ ResultState' /\ ClearState'
  BY DEF WriteState, ResultState, ClearState
<1>9. OuterState'
  <2>1. outer' # 0 => goPc = "warned" /\ AllWritten /\ outer' = Own /\ caller' = "tick"
    BY DEF TickCanRun
  <2>2. \A a \in Axes : blocks[a] >= outer'
    BY <1>2, <2>1 DEF ClearState
  <2> QED BY <2>1, <2>2 DEF OuterState, Own
<1>8. WrittenImpliesPrepared' /\ ResultIsTrue' /\ ResultIsAPrefix'
  BY DEF WrittenImpliesPrepared, ResultIsTrue, ResultIsAPrefix
<1> QED BY <1>4, <1>5, <1>6, <1>7, <1>8, <1>9

\* PREPARED rows for the batch under way, whole or in part.
LEMMA PrepareStep ==
    ASSUME TransferInv, LogPrepared \/ LogPreparedFails, TransferTypeOK'
    PROVE  TransferInv'
<1> USE DEF TransferInv
<1>1. /\ goPc = "prepare" /\ goPc' \in {"write", "idle", "return"}
      /\ UNCHANGED <<caller, outer, batch, axis, status, blocks, result>>
      /\ prepared \subseteq prepared' /\ prepared' \subseteq prepared \cup {batch}
      /\ goPc' = "write" => batch \in prepared'
  BY DEF LogPrepared, LogPreparedFails, Ended
<1>2. batch \in Nat
  BY TransferAssumption DEF TransferTypeOK
<1>3. NothingAhead'
  BY <1>1, <1>2 DEF NothingAhead
<1>4. JournalOpen'
  BY <1>1 DEF JournalOpen
<1>5. WriteState'
  <2>1. \A a \in Axes : a \in Nat /\ a >= 1
    BY TransferAssumption DEF Axes
  <2>2. 1 \in Axes
    BY TransferAssumption DEF Axes
  <2> QED BY <1>1, <2>1, <2>2 DEF PrepareState, WriteState
<1>6. PrepareState' /\ ResultState' /\ OuterState' /\ ClearState'
  BY <1>1 DEF PrepareState, ResultState, OuterState, ClearState, Own
<1>7. WrittenImpliesPrepared' /\ ResultIsTrue' /\ ResultIsAPrefix'
  BY <1>1 DEF WrittenImpliesPrepared, ResultIsTrue, ResultIsAPrefix
<1> QED BY <1>3, <1>4, <1>5, <1>6, <1>7

\* One pass of the write loop that leaves a block holding the batch, or not.
\* Blocks only ever move on to the batch under way, which has no RESULT rows.
LEMMA BlockStep ==
    ASSUME TransferInv, WriteAxis \/ WriteAxisFails, TransferTypeOK'
    PROVE  /\ NothingAhead' /\ JournalOpen' /\ WrittenImpliesPrepared'
           /\ ResultIsTrue' /\ ResultIsAPrefix' /\ PrepareState' /\ OuterState'
           /\ ClearState'
<1> USE DEF TransferInv
<1>1. /\ goPc = "write" /\ goPc' \in {"write", "result"}
      /\ UNCHANGED <<caller, outer, batch, prepared, result>>
      /\ \A a \in Axes : blocks'[a] = blocks[a] \/ blocks'[a] = batch
  BY DEF WriteAxis, WriteAxisFails, TransferTypeOK
<1>2. batch \in Nat /\ batch \in Batches /\ batch \in prepared
      /\ result[batch] = NoResult
  BY <1>1, TransferAssumption DEF TransferTypeOK, JournalOpen
<1>3. \A a \in Axes : blocks[a] \in Nat /\ blocks[a] <= batch
  BY TransferAssumption DEF NothingAhead, TransferTypeOK
<1>4. NothingAhead'
  BY <1>1, <1>2, <1>3 DEF NothingAhead
<1>5. JournalOpen' /\ PrepareState' /\ ClearState'
  BY <1>1, <1>2 DEF JournalOpen, PrepareState, ClearState
<1>9. OuterState'
  <2>1. outer \in Nat /\ \A a \in Axes : blocks[a] >= outer
    BY TransferAssumption DEF OuterState, TransferTypeOK
  <2>2. outer <= batch
    <3>1. 1 \in Axes
      BY TransferAssumption DEF Axes
    <3> QED BY <1>2, <1>3, <2>1, <3>1
  <2> QED BY <1>1, <1>2, <2>1, <2>2 DEF OuterState, Own
<1>6. WrittenImpliesPrepared'
  BY <1>1, <1>2 DEF WrittenImpliesPrepared
<1>7. ResultIsTrue'
  <2> SUFFICES ASSUME NEW b \in Batches, NEW a \in Axes
               PROVE  /\ result[b][a] = "NOT_ATTEMPTED" => blocks'[a] # b
                      /\ result[b][a] = "SUCCESS" => blocks'[a] >= b
    BY <1>1 DEF ResultIsTrue
  <2>1. b \in Nat
    BY TransferAssumption DEF Batches
  <2>2. CASE b = batch
    BY <1>2, <2>2 DEF NoResult
  <2>3. CASE b # batch
    BY <1>1, <1>2, <1>3, <2>1, <2>3 DEF ResultIsTrue
  <2> QED BY <2>2, <2>3
<1>8. ResultIsAPrefix'
  BY <1>1 DEF ResultIsAPrefix
<1> QED BY <1>4, <1>5, <1>6, <1>7, <1>8, <1>9

\* The loop goes on, or ends after the last axis.
LEMMA WriteStep ==
    ASSUME TransferInv, WriteAxis, TransferTypeOK'
    PROVE  TransferInv'
<1> USE DEF TransferInv
<1>1. /\ axis \in Axes /\ axis \in Nat /\ NumAxes \in Nat
      /\ \A a \in Axes : a \in Nat /\ a <= NumAxes
  BY TransferAssumption DEF WriteAxis, Axes
<1>2. \A a \in Axes :
          /\ a <= axis => status'[a] = "SUCCESS" /\ blocks'[a] = batch'
          /\ a > axis => status'[a] = "NOT_ATTEMPTED" /\ blocks'[a] # batch'
  BY <1>1 DEF WriteAxis, WriteState, TransferTypeOK
<1>3. WriteState'
  <2> SUFFICES ASSUME goPc' = "write"  PROVE WriteState'
    BY DEF WriteState
  <2>1. axis # NumAxes /\ axis' = axis + 1
    BY DEF WriteAxis
  <2>2. axis' \in Axes
    BY <1>1, <2>1 DEF Axes
  <2>3. \A a \in Axes : (a < axis' => a <= axis) /\ (a >= axis' => a > axis)
    BY <1>1, <2>1
  <2> QED BY <1>2, <2>2, <2>3 DEF WriteState
<1>4. ResultState'
  <2>1. goPc' = "result" => \A a \in Axes : a <= axis
    BY <1>1 DEF WriteAxis
  <2> QED BY <1>2, <2>1 DEF ResultState
<1> QED BY <1>3, <1>4, BlockStep

\* The loop is left early: a success for every axis before the failure, and
\* nothing sent to the axes after it.
LEMMA WriteFailsStep ==
    ASSUME TransferInv, WriteAxisFails, TransferTypeOK'
    PROVE  TransferInv'
<1> USE DEF TransferInv
<1>1. axis \in Axes /\ \A a \in Axes : a \in Nat
  BY TransferAssumption DEF WriteAxisFails, Axes
<1>2. \A a \in Axes :
          /\ a < axis => status'[a] = "SUCCESS" /\ blocks'[a] = batch'
          /\ a = axis => status'[a] = "FAILED"
          /\ a > axis => status'[a] = "NOT_ATTEMPTED" /\ blocks'[a] # batch'
  BY <1>1 DEF WriteAxisFails, WriteState, TransferTypeOK
<1>3. ResultState'
  BY <1>1, <1>2 DEF ResultState
<1>4. WriteState'
  BY DEF WriteAxisFails, WriteState
<1> QED BY <1>3, <1>4, BlockStep

\* RESULT rows repeat writeResults, which are true at that moment.
LEMMA ResultStep ==
    ASSUME TransferInv, LogResult, TransferTypeOK'
    PROVE  TransferInv'
<1> USE DEF TransferInv
<1>1. /\ goPc = "result" /\ goPc' \in {"clear", "warned", "idle", "return"}
      /\ goPc' = "clear" => AllWritten
      /\ UNCHANGED <<caller, outer, batch, axis, status, blocks, prepared>>
      /\ batch \in Batches
      /\ \A b \in Batches : b # batch => result'[b] = result[b]
      /\ result'[batch] \in {result[batch], status}
  BY DEF LogResult, Ended, TransferTypeOK, JournalOpen
<1>2. batch \in Nat /\ \A a \in Axes : blocks[a] \in Nat
  BY TransferAssumption DEF TransferTypeOK
<1>3. NothingAhead'
  BY <1>1, <1>2 DEF NothingAhead
<1>4. JournalOpen'
  <2>1. batch \in prepared
    BY <1>1 DEF JournalOpen
  <2> QED BY <1>1, <2>1 DEF JournalOpen
<1>5. PrepareState' /\ WriteState' /\ ResultState'
  BY <1>1 DEF PrepareState, WriteState, ResultState
<1>6. OuterState' /\ ClearState'
  BY <1>1, <1>2 DEF AllWritten, Own, ResultState, OuterState, ClearState
<1>7. WrittenImpliesPrepared'
  BY <1>1 DEF WrittenImpliesPrepared
<1>8. ResultIsTrue'
  <2> SUFFICES ASSUME NEW b \in Batches, NEW a \in Axes
               PROVE  /\ result'[b][a] = "NOT_ATTEMPTED" => blocks[a] # b
                      /\ result'[b][a] = "SUCCESS" => blocks[a] >= b
    BY <1>1 DEF ResultIsTrue
  <2>1. CASE result'[b] = result[b]
    BY <2>1 DEF ResultIsTrue
  <2>2. CASE b = batch /\ result'[b] = status
    BY <1>1, <1>2, <2>2 DEF ResultState
  <2> QED BY <1>1, <2>1, <2>2
<1>9. ResultIsAPrefix'
  <2> SUFFICES ASSUME NEW b \in Batches, NEW a \in Axes, NEW c \in Axes, a < c,
                      result'[b][c] \in {"SUCCESS", "FAILED"}
               PROVE  result'[b][a] = "SUCCESS"
    BY DEF ResultIsAPrefix
  <2>1. CASE result'[b] = result[b]
    BY <2>1 DEF ResultIsAPrefix
  <2>2. CASE b = batch /\ result'[b] = status
    BY <1>1, <2>2 DEF ResultState
  <2> QED BY <1>1, <2>1, <2>2
<1> QED BY <1>3, <1>4, <1>5, <1>6, <1>7, <1>8, <1>9

-----------------------------------------------------------------------------

LEMMA InitInv == TransferInit => TransferInv
<1> SUFFICES ASSUME TransferInit PROVE TransferInv
  OBVIOUS
<1> USE TransferAssumption DEF TransferInit
<1>1. TransferTypeOK
  BY DEF TransferTypeOK, GoPcs, Callers, Axes, NotAttempted, Statuses
<1>2. NothingAhead /\ JournalOpen
  BY DEF NothingAhead, JournalOpen
<1>3. PrepareState /\ WriteState /\ ResultState /\ OuterState /\ ClearState
  BY DEF PrepareState, WriteState, ResultState, OuterState, ClearState
<1>4. WrittenImpliesPrepared /\ ResultIsTrue /\ ResultIsAPrefix
  BY DEF WrittenImpliesPrepared, ResultIsTrue, ResultIsAPrefix, NoResult
<1> QED BY <1>1, <1>2, <1>3, <1>4 DEF TransferInv

LEMMA NextInv == TransferInv /\ [TransferNext]_transferVars => TransferInv'
<1> SUFFICES ASSUME TransferInv, [TransferNext]_transferVars PROVE TransferInv'
  OBVIOUS
<1>1. TransferTypeOK'
  BY TypeStep DEF TransferInv
<1>2. CASE GoBegin
  BY <1>1, <1>2, BeginStep
<1>3. CASE LogPrepared \/ LogPreparedFails
  BY <1>1, <1>3, PrepareStep
<1>4. CASE WriteAxis
  BY <1>1, <1>4, WriteStep
<1>5. CASE WriteAxisFails
  BY <1>1, <1>5, WriteFailsStep
<1>6. CASE LogResult
  BY <1>1, <1>6, ResultStep
<1>7. CASE Quiet
  BY <1>1, <1>7, QuietStep
<1>8. CASE Resume
  BY <1>1, <1>8, ResumeStep
<1> QED
  BY <1>2, <1>3, <1>4, <1>5, <1>6, <1>7, <1>8, QuietActions DEF TransferNext

\* The invariant holds in every state of every run.
THEOREM TransferInvariance == TransferSpec => []TransferInv
BY InitInv, NextInv, PTL DEF TransferSpec

\* What the run checks on three axes holds for any number of them.  Every variable
\* has its type.
THEOREM TransferTyped == TransferSpec => []TransferTypeOK
BY TransferInvariance, PTL DEF TransferInv

\* No block holds a batch the journal has not announced.
THEOREM JournalFirst == TransferSpec => []WrittenImpliesPrepared
BY TransferInvariance, PTL DEF TransferInv

\* What a RESULT row says of its axis stays true.
THEOREM TrueResults == TransferSpec => []ResultIsTrue
BY TransferInvariance, PTL DEF TransferInv

\* The RESULT rows of a batch are successes up to the first failure.
THEOREM PrefixResults == TransferSpec => []ResultIsAPrefix
BY TransferInvariance, PTL DEF TransferInv

\* When GO announces its path, every block holds it or a path sent later.
THEOREM AnnouncedArrived == TransferSpec => []AnnouncedMeansArrived
<1>1. TransferInv => AnnouncedMeansArrived
  BY DEF TransferInv, ClearState, AnnouncedMeansArrived
<1> QED BY <1>1, TransferInvariance, PTL

-----------------------------------------------------------------------------
(* Refinement of PathDelivery: the mapping is the identity on the batch, the  *)
(* blocks and the journal; the program counter, the loop, the results in      *)
(* memory, the link and the request are hidden.                               *)

LEMMA InitRefines == TransferInit => Delivery!DeliveryInit
BY DEF TransferInit, Delivery!DeliveryInit, Delivery!Axes, Delivery!Batches,
       Delivery!NoResult, Axes, Batches, NoResult

LEMMA NextRefines ==
    TransferInv /\ [TransferNext]_transferVars
      => [Delivery!DeliveryNext]_(Delivery!deliveryVars)
<1> SUFFICES ASSUME TransferInv, [TransferNext]_transferVars
             PROVE  [Delivery!DeliveryNext]_(Delivery!deliveryVars)
  OBVIOUS
<1> USE TransferAssumption
    DEF Delivery!DeliveryNext, Delivery!deliveryVars, Delivery!Axes, Axes
<1>1. CASE GoBegin
  BY <1>1 DEF GoBegin, Delivery!Begin
<1>2. CASE LogPrepared \/ LogPreparedFails
  <2>1. batch > 0
    BY <1>2 DEF LogPrepared, LogPreparedFails, TransferInv, JournalOpen, Batches
  <2> QED BY <1>2, <2>1 DEF LogPrepared, LogPreparedFails, Delivery!Prepare
<1>3. CASE WriteAxis \/ WriteAxisFails
  <2>1. batch \in prepared /\ result[batch] = NoResult
    BY <1>3 DEF WriteAxis, WriteAxisFails, TransferInv, JournalOpen
  <2>2. axis \in 1 .. NumAxes
    BY <1>3 DEF WriteAxis, WriteAxisFails
  <2> QED
    BY <1>3, <2>1, <2>2
    DEF WriteAxis, WriteAxisFails, Delivery!WriteBlock, Delivery!NoResult, NoResult
<1>4. CASE LogResult
  <2>1. batch \in prepared /\ result[batch] = NoResult
    BY <1>4 DEF LogResult, TransferInv, JournalOpen
  <2>2. /\ status \in [1 .. NumAxes -> Delivery!Statuses]
        /\ \A a \in 1 .. NumAxes : status[a] = "SUCCESS" => blocks[a] = batch
        /\ \A a \in 1 .. NumAxes : status[a] = "NOT_ATTEMPTED" => blocks[a] # batch
    BY <1>4 DEF LogResult, TransferInv, TransferTypeOK, ResultState, Statuses,
                Delivery!Statuses
  <2> QED
    BY <1>4, <2>1, <2>2
    DEF LogResult, Delivery!Report, Delivery!NoResult, NoResult
<1>5. CASE Quiet
  BY <1>5 DEF Quiet
<1>6. CASE Resume
  BY <1>6 DEF Resume, CloseWarning, TickReturns
<1> QED
  BY <1>1, <1>2, <1>3, <1>4, <1>5, <1>6, QuietActions DEF TransferNext

\* GO, with every failure and crash of the model, implements the journal's
\* promise.
THEOREM Refinement == TransferSpec => ImplementsDelivery
<1>1. TransferSpec => []TransferInv
  BY TransferInvariance
<1> QED
  BY <1>1, InitRefines, NextRefines, PTL
  DEF TransferSpec, ImplementsDelivery, Delivery!DeliverySpec
=============================================================================
