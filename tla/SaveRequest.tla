------------------------------ MODULE SaveRequest ------------------------------
(***************************************************************************)
(* What the HMI may expect of a request to save its settings (register     *)
(* 159), without saying which copies of them the program keeps:            *)
(*   - while the program is up, a request ends only after the very         *)
(*     settings that the HMI shows have been written, and nothing else is  *)
(*     written before the answer; the file has them, unless the disk has   *)
(*     cut it, which nobody notices;                                       *)
(*   - nothing but the HMI changes what it shows, except a start, which    *)
(*     shows it what a complete file has, as far as the registers can, and *)
(*     may drop or repeat a request;                                       *)
(*   - a start does not change a complete file, and when the program goes  *)
(*     down a complete file stays.                                         *)
(* For reasons of its own the program may write anything to the file.      *)
(***************************************************************************)
CONSTANTS
    Values,     \* the settings
    Display     \* what the registers show of them

VARIABLES
    shown,      \* the settings the HMI shows
    asked,      \* it asks to have them saved
    stored,     \* the settings in the file
    whole,      \* the file is complete
    program     \* "down", "open" (starting), "up" or "ack" (about to answer)

saveVars == <<shown, asked, stored, whole, program>>

SaveInit ==
    /\ stored \in Values
    /\ shown = Display[stored]
    /\ asked = FALSE
    /\ whole = TRUE
    /\ program = "down"

Edit ==
    /\ ~asked
    /\ shown' \in Values
    /\ UNCHANGED <<asked, stored, whole, program>>

Ask ==
    /\ asked' = TRUE
    /\ UNCHANGED <<shown, stored, whole, program>>

Start ==
    /\ program = "down"
    /\ program' \in {"open", "up"}
    /\ IF whole THEN UNCHANGED <<stored, whole>>
                ELSE stored' \in Values /\ whole' \in BOOLEAN
    /\ UNCHANGED <<shown, asked>>

Show ==
    /\ program = "open"
    /\ program' = "up"
    /\ \/ UNCHANGED <<shown, asked>>
       \/ /\ shown' \in IF whole THEN {Display[stored]} ELSE Values
          /\ asked' \in BOOLEAN
    /\ UNCHANGED <<stored, whole>>

Store ==
    /\ program = "up"
    /\ stored' \in Values
    /\ whole' \in BOOLEAN
    /\ UNCHANGED <<shown, asked, program>>

Save ==
    /\ program = "up"
    /\ program' = "ack"
    /\ asked
    /\ \/ stored' = shown /\ whole' = TRUE
       \/ stored' \in Values /\ whole' = FALSE
    /\ UNCHANGED <<shown, asked>>

\* The answer may get lost.
Answer ==
    /\ program = "ack"
    /\ program' = "up"
    /\ asked' \in BOOLEAN
    /\ UNCHANGED <<shown, stored, whole>>

Stop ==
    /\ program # "down"
    /\ program' = "down"
    /\ stored' \in IF whole THEN {stored} ELSE Values
    /\ UNCHANGED <<shown, asked, whole>>

SaveNext == Edit \/ Ask \/ Start \/ Show \/ Store \/ Save \/ Answer \/ Stop

SaveSpec == SaveInit /\ [][SaveNext]_saveVars
=============================================================================
