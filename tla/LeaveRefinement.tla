--------------------------- MODULE LeaveRefinement ---------------------------
(***************************************************************************)
(* LeaveRequests implements LeaveLedger when handlers run one after the    *)
(* other and none stops half way.  A handler's two writes then look like   *)
(* the one step of the ledger, taken when the request document is written. *)
(***************************************************************************)
EXTENDS LeaveRequests

CONSTANT Amounts   \* the sums that HR's assignments may give, see AmountsAssumption

Carried == {0} \cup {a.carried : a \in {x \in Assignments : x.carried # Keep}}

ASSUME AmountsAssumption ==
    \A a \in Assignments : /\ \A n \in Carried : a.allocated + n \in Amounts
                           /\ a.used # Keep => a.used \in Amounts

\* Undoes the balance write of a handler that has not yet written its request.
Before(w, k) ==
    CASE k.at = "create" /\ k.effect = "hold"  -> ReleaseHold(w, k.days)
      [] k.at = "save" /\ k.effect = "release" -> Hold(w, k.days)
      [] k.at = "save" /\ k.effect = "consume" -> ConsumeHold(w, -k.days)
      [] OTHER -> w

\* The balance as the ledger sees it, the running handler's write taken back.
Seen(key) ==
    LET writers == {c \in Calls : Running(c) /\ call[c].key = key}
        w == IF writers = {} THEN wallet[key]
             ELSE Before(wallet[key], call[CHOOSE c \in writers : TRUE])
    IN  [granted |-> w.allocated + w.carried, used |-> w.used, pending |-> w.pending]

Ledger == INSTANCE LeaveLedger WITH
    PaidKeys <- {key \in Keys : HoldsBalance(key)},
    account  <- [key \in Keys |-> Seen(key)],
    claim    <- [r \in ReqIds |-> [key |-> request[r].key, days |-> request[r].days,
                                   status |-> request[r].status]]

\* The handlers implement the ledger: every step changes a request and its
\* balance together, or neither, and a balance blocks the days of its open
\* requests, no more and no fewer.
ImplementsLedger == Ledger!Spec /\ []Ledger!PendingIsOpen
=============================================================================
