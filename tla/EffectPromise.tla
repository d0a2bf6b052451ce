---------------------------- MODULE EffectPromise ----------------------------
(***************************************************************************)
(* What the effect lifecycle promises its users, with no ledger, identities *)
(* or commands (docs/architecture.md "Identities and cardinalities",       *)
(* docs/adr/0003): a delivery attempt belongs to one request, is begun at  *)
(* most once and ends at most once; a request is resolved at most once, by *)
(* the return of one of its own deliveries, and for good; once it is       *)
(* resolved no further delivery of it begins, but deliveries that already  *)
(* began may still end.                                                    *)
(***************************************************************************)
CONSTANTS Requests, Attempts, OutcomeKinds, None

VARIABLES
    delivery,     \* attempt -> None, or the request it serves and its status
    resolution    \* request -> None, or the attempt whose return resolved it

vars == <<delivery, resolution>>

Init ==
    /\ delivery = [a \in Attempts |-> None]
    /\ resolution = [r \in Requests |-> None]

Begin(a, r) ==
    /\ delivery[a] = None
    /\ resolution[r] = None
    /\ delivery' = [delivery EXCEPT ![a] = [request |-> r, status |-> "running"]]
    /\ UNCHANGED resolution

Finish(a, kind) ==
    /\ delivery[a] # None
    /\ delivery[a].status = "running"
    /\ delivery' =
           [delivery EXCEPT ![a] = [request |-> delivery[a].request, status |-> kind]]
    /\ UNCHANGED resolution

Resolve(r, a) ==
    /\ resolution[r] = None
    /\ delivery[a] = [request |-> r, status |-> "returned"]
    /\ resolution' = [resolution EXCEPT ![r] = a]
    /\ UNCHANGED delivery

Next ==
    \/ \E a \in Attempts, r \in Requests : Begin(a, r)
    \/ \E a \in Attempts, kind \in OutcomeKinds : Finish(a, kind)
    \/ \E r \in Requests, a \in Attempts : Resolve(r, a)

Spec == Init /\ [][Next]_vars
=============================================================================
