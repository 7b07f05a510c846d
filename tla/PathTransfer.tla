----------------------------- MODULE PathTransfer -----------------------------
(***************************************************************************)
(* The second half of WorkTab::OnBnClickedIdcWorkGo: from the finished     *)
(* register buffers to the PLC.  GO appends PREPARED rows to the journal,  *)
(* writes the three path blocks in order (X1, Y, X2) with one FC16 request *)
(* each, stops at the first failure, appends RESULT rows, and after three  *)
(* successes lowers CreateToolPath (157) and announces completion.  GO is  *)
(* called by the operator's button or by a tick of the HMI timer; the tick *)
(* lowers 157 once more when GO has returned, whatever became of it.  A    *)
(* tick, and in it a second GO, may run while the operator's GO shows the  *)
(* warning that its RESULT rows could not be written.                      *)
(* The disk, the TCP connection and the process may fail at any step; a    *)
(* request that is reported as failed may have reached the PLC all the     *)
(* same.  There is one connection attempt per program run, at startup, so  *)
(* a run that starts without a connection, or loses it, never has one      *)
(* again.  The contents of a block are represented by the batch they       *)
(* belong to; which image and path a batch is made of is ToolPathGo's part. *)
(***************************************************************************)
EXTENDS Naturals

CONSTANTS
    NumAxes,    \* 3 in the code
    MaxBatch    \* bound on the number of transmissions

ASSUME TransferAssumption == NumAxes \in Nat \ {0} /\ MaxBatch \in Nat \ {0}

VARIABLES
    goPc,       \* where the UI thread is in the innermost GO
    caller,     \* who called it
    outer,      \* logBatch of an operator's GO that a tick has interrupted, or 0
    batch,      \* batchSequence, the number of the latest logBatch
    axis,       \* the loop variable of the write loop
    status,     \* writeResults, as AppendModbusPathCsv classifies them
    ctx,        \* m_modbusCtx is not null
    linkUp,     \* the TCP connection behind it is alive
    reg157,     \* PLC/HMI register 157: CreateToolPath
    blocks,     \* for each axis, the batch whose words the PLC block holds
    prepared,   \* batches with PREPARED rows in the journal
    result      \* for each batch, its RESULT rows

transferVars == <<goPc, caller, outer, batch, axis, status, ctx, linkUp, reg157,
                  blocks, prepared, result>>

Axes     == 1 .. NumAxes
Batches  == 1 .. MaxBatch
Callers  == {"operator", "tick"}
Statuses == {"NOT_ATTEMPTED", "SUCCESS", "FAILED"}
NoResult == [a \in Axes |-> "NONE"]

\* writeResults after its default initialisation (returned = -2).
NotAttempted == [a \in Axes |-> "NOT_ATTEMPTED"]

\* "warned", "box" and "return": the box about the RESULT rows, a tick's completion
\* box, and a tick between GO's return and its own clear.  Boxes of an operator's GO
\* after which nothing follows count as idle.
GoPcs == {"idle", "prepare", "write", "result", "warned", "clear", "box", "return", "down"}

TransferTypeOK ==
    /\ goPc \in GoPcs
    /\ caller \in Callers
    /\ outer \in 0 .. MaxBatch
    /\ batch \in 0 .. MaxBatch
    /\ axis \in 1 .. NumAxes + 1
    /\ status \in [Axes -> Statuses]
    /\ ctx \in BOOLEAN
    /\ linkUp \in BOOLEAN
    /\ reg157 \in 0 .. 1
    /\ blocks \in [Axes -> 0 .. MaxBatch]
    /\ prepared \in SUBSET Batches
    /\ result \in [Batches -> [Axes -> Statuses] \cup {NoResult}]

TransferInit ==
    /\ goPc = "idle"
    /\ caller = "operator"
    /\ outer = 0
    /\ batch = 0
    /\ axis = 1
    /\ status = NotAttempted
    /\ ctx \in BOOLEAN
    /\ linkUp = ctx
    /\ reg157 \in 0 .. 1
    /\ blocks = [a \in Axes |-> 0]
    /\ prepared = {}
    /\ result = [b \in Batches |-> NoResult]

-----------------------------------------------------------------------------

\* Nothing runs, or a tick arrives while the operator's GO shows its warning.
TickCanRun == goPc = "idle" \/ (goPc = "warned" /\ caller = "operator")

\* Where the UI thread is after a GO that has ended.
Ended == IF caller = "tick" THEN "return" ELSE "idle"

\* The batch of the innermost GO.
Own == IF caller = "operator" /\ outer # 0 THEN outer ELSE batch

AllWritten == \A a \in Axes : status[a] = "SUCCESS"

\* What 157 may be after a write of 0 whose failure goes unnoticed.
Lowered == IF linkUp THEN {0, reg157} ELSE {reg157}

\* A mutant of GoBegin: writeResults outlives the call and is not reset.
GoBegin_OldResults ==
    /\ ctx /\ linkUp
    /\ batch < MaxBatch
    /\ \/ goPc = "idle" /\ caller' = "operator"
       \/ TickCanRun /\ caller' = "tick"
    /\ outer' = IF goPc = "warned" /\ AllWritten THEN Own ELSE 0
    /\ batch' = batch + 1
    /\ axis' = 1
    /\ goPc' = "prepare"
    /\ UNCHANGED <<status, ctx, linkUp, reg157, blocks, prepared, result>>

\* GO has a path and has read the angle, which takes a live connection: without
\* one the handler has given up before this point, so that its own attempt to
\* connect further down is never reached.  An interrupted GO whose writes failed
\* has only its error box left and is not remembered.
GoBegin ==
    /\ ctx /\ linkUp
    /\ batch < MaxBatch
    /\ \/ goPc = "idle" /\ caller' = "operator"
       \/ TickCanRun /\ caller' = "tick"
    /\ outer' = IF goPc = "warned" /\ AllWritten THEN Own ELSE 0
    /\ batch' = batch + 1
    /\ status' = NotAttempted
    /\ axis' = 1
    /\ goPc' = "prepare"
    /\ UNCHANGED <<ctx, linkUp, reg157, blocks, prepared, result>>

\* A mutant of LogPrepared: the rows are still in a buffer when writing starts.
LogPrepared_Buffered ==
    /\ goPc = "prepare"
    /\ goPc' = "write"
    /\ UNCHANGED <<caller, outer, batch, axis, status, ctx, linkUp, reg157, blocks,
                   prepared, result>>

\* The rows are flushed before the first write.
LogPrepared ==
    /\ goPc = "prepare"
    /\ prepared' = prepared \cup {batch}
    /\ goPc' = "write"
    /\ UNCHANGED <<caller, outer, batch, axis, status, ctx, linkUp, reg157, blocks, result>>

\* A mutant of LogPreparedFails: a warning instead of a cancellation.
LogPreparedFails_GoesOn ==
    /\ goPc = "prepare"
    /\ prepared' \in {prepared, prepared \cup {batch}}
    /\ goPc' = "write"
    /\ UNCHANGED <<caller, outer, batch, axis, status, ctx, linkUp, reg157, blocks, result>>

\* The journal cannot be written, or not to the end: the batch is cancelled.
\* Some rows may be in the file nevertheless.
LogPreparedFails ==
    /\ goPc = "prepare"
    /\ prepared' \in {prepared, prepared \cup {batch}}
    /\ goPc' = Ended
    /\ UNCHANGED <<caller, outer, batch, axis, status, ctx, linkUp, reg157, blocks, result>>

\* A mutant of WriteAxis: the loop runs one axis too far.
WriteAxis_OneTooMany ==
    /\ goPc = "write"
    /\ linkUp
    /\ blocks' = [blocks EXCEPT ![axis] = batch]
    /\ status' = [status EXCEPT ![axis] = "SUCCESS"]
    /\ axis' = axis + 1
    /\ goPc' = IF axis = NumAxes + 1 THEN "result" ELSE "write"
    /\ UNCHANGED <<caller, outer, batch, ctx, linkUp, reg157, prepared, result>>

\* One modbus_write_registers call; the loop goes on to the next axis.
WriteAxis ==
    /\ goPc = "write"
    /\ axis \in Axes
    /\ linkUp
    /\ blocks' = [blocks EXCEPT ![axis] = batch]
    /\ status' = [status EXCEPT ![axis] = "SUCCESS"]
    /\ axis' = axis + 1
    /\ goPc' = IF axis = NumAxes THEN "result" ELSE "write"
    /\ UNCHANGED <<caller, outer, batch, ctx, linkUp, reg157, prepared, result>>

\* A mutant of WriteAxisFails: the loop is not left.
WriteAxisFails_GoesOn ==
    /\ goPc = "write"
    /\ axis \in Axes
    /\ \/ UNCHANGED blocks
       \/ linkUp /\ blocks' = [blocks EXCEPT ![axis] = batch]
    /\ status' = [status EXCEPT ![axis] = "FAILED"]
    /\ axis' = axis + 1
    /\ goPc' = IF axis = NumAxes THEN "result" ELSE "write"
    /\ UNCHANGED <<caller, outer, batch, ctx, linkUp, reg157, prepared, result>>

\* The call returns an error or a short count and the loop is left.  The request
\* may have been carried out if it is the answer that was lost.
WriteAxisFails ==
    /\ goPc = "write"
    /\ axis \in Axes
    /\ \/ UNCHANGED blocks
       \/ linkUp /\ blocks' = [blocks EXCEPT ![axis] = batch]
    /\ status' = [status EXCEPT ![axis] = "FAILED"]
    /\ goPc' = "result"
    /\ UNCHANGED <<caller, outer, batch, axis, ctx, linkUp, reg157, prepared, result>>

\* A mutant of LogResult: the early return on a write error is missing.
LogResult_NoReturn ==
    /\ goPc = "result"
    /\ \/ result' = [result EXCEPT ![batch] = status] /\ goPc' = "clear"
       \/ UNCHANGED result /\ goPc' = "warned"
    /\ UNCHANGED <<caller, outer, batch, axis, status, ctx, linkUp, reg157, blocks, prepared>>

\* RESULT rows are appended, or a box warns that they were not.  A write error ends
\* GO before its clear.
LogResult ==
    /\ goPc = "result"
    /\ \/ /\ result' = [result EXCEPT ![batch] = status]
          /\ goPc' = IF AllWritten THEN "clear" ELSE Ended
       \/ UNCHANGED result /\ goPc' = "warned"
    /\ UNCHANGED <<caller, outer, batch, axis, status, ctx, linkUp, reg157, blocks, prepared>>

\* The warning is dismissed and GO goes on with its own writeResults.
CloseWarning ==
    /\ goPc = "warned"
    /\ goPc' = IF AllWritten THEN "clear" ELSE Ended
    /\ UNCHANGED <<caller, outer, batch, axis, status, ctx, linkUp, reg157, blocks,
                   prepared, result>>

\* GO's ClearCreateToolPathRequest, and the completion box on the screen.
ClearRequest ==
    /\ goPc = "clear"
    /\ reg157' \in Lowered
    /\ goPc' = IF caller = "tick" THEN "box" ELSE "idle"
    /\ outer' = IF caller = "tick" THEN outer ELSE 0
    /\ UNCHANGED <<caller, batch, axis, status, ctx, linkUp, blocks, prepared, result>>

\* The completion box is dismissed or times out and a tick's GO returns.
DismissBox ==
    /\ goPc = "box"
    /\ goPc' = "return"
    /\ UNCHANGED <<caller, outer, batch, axis, status, ctx, linkUp, reg157, blocks,
                   prepared, result>>

\* HandleAutoCreateToolPathRequest lowers 157 after GO, whether GO has succeeded or
\* not, and the tick ends; a GO it interrupted has its warning on the screen again.
TickReturns ==
    /\ goPc = "return"
    /\ reg157' \in Lowered
    /\ \/ /\ outer = 0
          /\ goPc' = "idle"
          /\ UNCHANGED <<caller, status>>
       \/ /\ outer # 0
          /\ goPc' = "warned"
          /\ caller' = "operator"
          /\ status' = [a \in Axes |-> "SUCCESS"]
    /\ UNCHANGED <<outer, batch, axis, ctx, linkUp, blocks, prepared, result>>

\* A tick lowers 157 without a batch: Tool Path has left no path to send, or GO has
\* given up before its journal.
TickClears ==
    /\ TickCanRun
    /\ reg157' \in Lowered
    /\ UNCHANGED <<goPc, caller, outer, batch, axis, status, ctx, linkUp, blocks, prepared,
                   result>>

-----------------------------------------------------------------------------
(* The environment. *)

\* The HMI raises the request again; it may do so at any time.
HmiRequest ==
    /\ reg157 = 0
    /\ reg157' = 1
    /\ UNCHANGED <<goPc, caller, outer, batch, axis, status, ctx, linkUp, blocks, prepared,
                   result>>

\* The TCP connection breaks; libmodbus is not told to recover it.
LinkBreaks ==
    /\ linkUp
    /\ linkUp' = FALSE
    /\ UNCHANGED <<goPc, caller, outer, batch, axis, status, ctx, reg157, blocks, prepared,
                   result>>

\* The program ends, between any two steps; the disk and the PLC keep theirs.
Crash ==
    /\ goPc # "down"
    /\ goPc' = "down"
    /\ outer' = 0
    /\ ctx' = FALSE
    /\ linkUp' = FALSE
    /\ UNCHANGED <<caller, batch, axis, status, reg157, blocks, prepared, result>>

\* The program is started again: the one connection attempt, and with it the
\* saved CreateToolPath is written to 157.
Restart ==
    /\ goPc = "down"
    /\ goPc' = "idle"
    /\ ctx' \in BOOLEAN
    /\ linkUp' = ctx'
    /\ reg157' \in IF ctx' THEN 0 .. 1 ELSE {reg157}
    /\ UNCHANGED <<caller, outer, batch, axis, status, blocks, prepared, result>>

-----------------------------------------------------------------------------

TransferNext ==
    \/ GoBegin
    \/ LogPrepared \/ LogPreparedFails
    \/ WriteAxis \/ WriteAxisFails
    \/ LogResult \/ CloseWarning
    \/ ClearRequest \/ DismissBox
    \/ TickReturns \/ TickClears
    \/ HmiRequest \/ LinkBreaks \/ Crash \/ Restart

TransferSpec == TransferInit /\ [][TransferNext]_transferVars

-----------------------------------------------------------------------------
(* Properties. *)

\* When GO lowers CreateToolPath and announces that its path has been sent, every
\* block holds that path or a later one, also when a tick has sent another path
\* while the RESULT warning was on the screen.  This is GO's own clear only: a tick
\* lowers 157 after a failed GO as well, so that 157 = 0 by itself does not say
\* that the PLC has a whole path.
AnnouncedMeansArrived ==
    goPc = "clear" => \A a \in Axes : blocks[a] >= Own

\* Every word of a path in the PLC is accounted for: whatever fails and whenever
\* the program dies, a block holds a batch only if the journal had it before.
WrittenImpliesPrepared ==
    \A a \in Axes : blocks[a] # 0 => blocks[a] \in prepared

\* RESULT rows stay true for ever: an axis that is said not to have been
\* attempted never holds the batch, and an axis that is said to have succeeded
\* holds it or a later one.
ResultIsTrue ==
    \A b \in Batches, a \in Axes :
        /\ result[b][a] = "NOT_ATTEMPTED" => blocks[a] # b
        /\ result[b][a] = "SUCCESS" => blocks[a] >= b

\* The rows of one batch read as a run of successes, then at most one failure,
\* then axes that were left alone: a mixed path in the PLC can be told from the
\* journal axis by axis.
ResultIsAPrefix ==
    \A b \in Batches : \A a, c \in Axes :
        a < c /\ result[b][c] \in {"SUCCESS", "FAILED"} => result[b][a] = "SUCCESS"

\* The refinement mapping: the abstract journal and machine are the ones of GO; the
\* place in GO, the statuses in memory, the link and register 157 are its own business.
Delivery == INSTANCE PathDelivery
                WITH NumAxes <- NumAxes, MaxBatch <- MaxBatch,
                     batch <- batch, blocks <- blocks,
                     prepared <- prepared, result <- result

ImplementsDelivery == Delivery!DeliverySpec
=============================================================================
