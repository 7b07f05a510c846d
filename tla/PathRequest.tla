------------------------------ MODULE PathRequest ------------------------------
(***************************************************************************)
(* What the HMI may expect of a request for a path (register 157), without *)
(* saying how WorkTab's tick goes about it:                                *)
(*   - a request is noticed, then served, then finished with;              *)
(*   - it is answered once at most, and nothing is sent without one;       *)
(*   - the path sent is that of the shoe that was there when the request   *)
(*     was noticed, if acquisition was off then, or of a later one;        *)
(*   - a service may give up without a path;                               *)
(*   - a request is lost only if it was raised while an earlier one was    *)
(*     being finished, which a patient HMI does not do.                    *)
(* A service broken off by an exception finishes with nothing any more.    *)
(***************************************************************************)
EXTENDS Naturals

CONSTANTS
    MaxScene,   \* bound on the number of shoes
    Patient     \* the HMI waits for the end of a service before it asks again

VARIABLES
    scene,      \* the shoe under the camera
    request,    \* what has become of the request
    wanted,     \* the shoe it is about, 0 if any will do
    sent        \* the last path sent, with what had been wanted

requestVars == <<scene, request, wanted, sent>>

RequestInit ==
    /\ scene = 1
    /\ request \in {"none", "raised"}
    /\ wanted = 0
    /\ sent = [frame |-> 0, wanted |-> 0]

NextShoe ==
    /\ scene < MaxScene
    /\ scene' = scene + 1
    /\ UNCHANGED <<request, wanted, sent>>

Raise ==
    /\ request = "none"
    /\ request' = "raised"
    /\ UNCHANGED <<scene, wanted, sent>>

Notice ==
    /\ request = "raised"
    /\ request' = "accepted"
    /\ wanted' \in {0, scene}
    /\ UNCHANGED <<scene, sent>>

Serve ==
    /\ request = "accepted"
    /\ request' = "served"
    /\ UNCHANGED <<scene, wanted, sent>>

Answer ==
    /\ request = "served"
    /\ \E f \in 1 .. scene :
          /\ f >= wanted
          /\ sent' = [frame |-> f, wanted |-> wanted]
    /\ request' = "none"
    /\ wanted' = 0
    /\ UNCHANGED scene

GiveUp ==
    /\ request = "served"
    /\ request' = "none"
    /\ wanted' = 0
    /\ UNCHANGED <<scene, sent>>

Lose ==
    /\ ~Patient
    /\ request = "raised"
    /\ request' = "none"
    /\ UNCHANGED <<scene, wanted, sent>>

RequestNext == NextShoe \/ Raise \/ Notice \/ Serve \/ Answer \/ GiveUp \/ Lose

RequestSpec == RequestInit /\ [][RequestNext]_requestVars
=============================================================================
