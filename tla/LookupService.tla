---------------------------- MODULE LookupService ----------------------------
(***************************************************************************)
(* What the lookup accelerator promises its requester: one request at a    *)
(* time, at most one answer to it, the answer a correct one, and held      *)
(* until it is taken.  A reset may forget a request or its answer.         *)
(*                                                                         *)
(* Correct(r, a) says that a is an acceptable answer to the request r.     *)
(***************************************************************************)
CONSTANTS
    Requests,
    Correct(_, _)

VARIABLES
    phase,      \* "idle", "working" or "replying"
    request,    \* the request being served
    answer      \* the answer offered, when replying

serviceVars == <<phase, request, answer>>

ServiceInit ==
    /\ phase = "idle"
    /\ request \in Requests
    /\ answer = "none"

TakeRequest ==
    /\ phase = "idle"
    /\ phase' = "working"
    /\ request' \in Requests
    /\ UNCHANGED answer

Offer ==
    /\ phase = "working"
    /\ phase' = "replying"
    /\ Correct(request, answer')
    /\ UNCHANGED request

Finish ==
    /\ phase = "replying"
    /\ phase' = "idle"
    /\ answer' = "none"
    /\ UNCHANGED request

Forget ==
    /\ phase = "working"
    /\ phase' = "idle"
    /\ UNCHANGED <<request, answer>>

ServiceNext == TakeRequest \/ Offer \/ Finish \/ Forget

ServiceSpec == ServiceInit /\ [][ServiceNext]_serviceVars

==============================================================================
