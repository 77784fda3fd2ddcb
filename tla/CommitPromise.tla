--------------------------- MODULE CommitPromise ---------------------------
(***************************************************************************)
(* What the effect gateway promises about deliveries, whatever goals,      *)
(* assignments and evidence do.  An offer is one proposed change of one    *)
(* target.  It is open while it may still be delivered; once it is void it *)
(* is never delivered; a delivery takes the next place in its target's     *)
(* order and at the same instant voids every other open offer for that     *)
(* target, because those were made against the version it replaced.  The   *)
(* caller may be left in doubt about a delivery, and only about one that   *)
(* happened; doubt ends when the outcome is looked up or the store is      *)
(* archived.                                                               *)
(*                                                                         *)
(* The promise of goal_native/store.py prepare_effect, approve, commit,    *)
(* reconcile and import_data, with everything they read left out.          *)
(***************************************************************************)
EXTENDS Naturals

CONSTANTS Offers, Targets, NoTarget

VARIABLES
    stage,      \* stage[o]: "none", "open", "void" or "delivered"
    aim,        \* aim[o]: the target of the offer, NoTarget before it is made
    place,      \* place[o]: the version the delivery produced, 0 without one
    length,     \* length[t]: how many deliveries the target has had
    doubt       \* delivered offers whose outcome the caller has not learnt

promiseVars == <<stage, aim, place, length, doubt>>

PromiseInit ==
    /\ stage = [o \in Offers |-> "none"]
    /\ aim = [o \in Offers |-> NoTarget]
    /\ place = [o \in Offers |-> 0]
    /\ length = [t \in Targets |-> 0]
    /\ doubt = {}

\* An offer may be void from the start: permission never comes afterwards.
Offer(o, t) ==
    /\ stage[o] = "none"
    /\ \E s \in {"open", "void"} : stage' = [stage EXCEPT ![o] = s]
    /\ aim' = [aim EXCEPT ![o] = t]
    /\ UNCHANGED <<place, length, doubt>>

Withdraw(withdrawn) ==
    /\ \A o \in withdrawn : stage[o] = "open"
    /\ stage' = [o \in Offers |-> IF o \in withdrawn THEN "void" ELSE stage[o]]
    /\ UNCHANGED <<aim, place, length, doubt>>

Deliver(o, response_lost) ==
    /\ stage[o] = "open"
    /\ stage' = [p \in Offers |->
            IF p = o THEN "delivered"
            ELSE IF stage[p] = "open" /\ aim[p] = aim[o] THEN "void"
            ELSE stage[p]]
    /\ length' = [length EXCEPT ![aim[o]] = @ + 1]
    /\ place' = [place EXCEPT ![o] = length[aim[o]] + 1]
    /\ doubt' = IF response_lost THEN doubt \cup {o} ELSE doubt
    /\ UNCHANGED aim

Resolve(o) ==
    /\ o \in doubt
    /\ doubt' = doubt \ {o}
    /\ UNCHANGED <<stage, aim, place, length>>

Archive ==
    /\ stage' = [o \in Offers |-> IF stage[o] = "open" THEN "void" ELSE stage[o]]
    /\ doubt' = {}
    /\ UNCHANGED <<aim, place, length>>

PromiseNext ==
    \/ \E o \in Offers, t \in Targets : Offer(o, t)
    \/ \E withdrawn \in SUBSET Offers : Withdraw(withdrawn)
    \/ \E o \in Offers, response_lost \in BOOLEAN : Deliver(o, response_lost)
    \/ \E o \in Offers : Resolve(o)
    \/ Archive

PromiseSpec == PromiseInit /\ [][PromiseNext]_promiseVars
=============================================================================
