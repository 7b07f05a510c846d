----------------------------- MODULE PathDelivery -----------------------------
(***************************************************************************)
(* What the path journal (ModbusPath_YYYY-MM-DD.csv) promises about the    *)
(* path blocks in the PLC, without saying how GO keeps the promise:        *)
(*   - a block is written only for a batch whose PREPARED rows are on disk *)
(*     (the batch is cancelled when they cannot be written);               *)
(*   - RESULT rows are written once, after the last write of the batch;    *)
(*   - SUCCESS is said of an axis only if its block holds the batch;       *)
(*   - NOT_ATTEMPTED only if nothing was sent to it; FAILED says neither.  *)
(* A batch with PREPARED rows and no RESULT rows says nothing either way.  *)
(***************************************************************************)
EXTENDS Naturals

CONSTANTS
    NumAxes,    \* path blocks in the PLC: X1, Y, X2
    MaxBatch    \* bound on the number of transmissions

VARIABLES
    batch,      \* the transmission under way, or the last one
    blocks,     \* for each axis, the batch whose 30 words its block holds
    prepared,   \* batches with PREPARED rows
    result      \* for each batch, its RESULT rows

deliveryVars == <<batch, blocks, prepared, result>>

Axes     == 1 .. NumAxes
Batches  == 1 .. MaxBatch
Statuses == {"NOT_ATTEMPTED", "SUCCESS", "FAILED"}
NoResult == [a \in Axes |-> "NONE"]     \* no RESULT rows yet

DeliveryInit ==
    /\ batch = 0
    /\ blocks = [a \in Axes |-> 0]
    /\ prepared = {}
    /\ result = [b \in Batches |-> NoResult]

\* The next transmission starts; earlier batches are never touched again.
Begin ==
    /\ batch < MaxBatch
    /\ batch' = batch + 1
    /\ UNCHANGED <<blocks, prepared, result>>

Prepare ==
    /\ batch > 0
    /\ prepared' = prepared \cup {batch}
    /\ UNCHANGED <<batch, blocks, result>>

WriteBlock ==
    /\ batch \in prepared
    /\ result[batch] = NoResult
    /\ \E a \in Axes : blocks' = [blocks EXCEPT ![a] = batch]
    /\ UNCHANGED <<batch, prepared, result>>

Report ==
    /\ batch \in prepared
    /\ result[batch] = NoResult
    /\ \E r \in [Axes -> Statuses] :
          /\ \A a \in Axes : r[a] = "SUCCESS" => blocks[a] = batch
          /\ \A a \in Axes : r[a] = "NOT_ATTEMPTED" => blocks[a] # batch
          /\ result' = [result EXCEPT ![batch] = r]
    /\ UNCHANGED <<batch, blocks, prepared>>

DeliveryNext == Begin \/ Prepare \/ WriteBlock \/ Report

DeliverySpec == DeliveryInit /\ [][DeliveryNext]_deliveryVars
=============================================================================
