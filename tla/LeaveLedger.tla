----------------------------- MODULE LeaveLedger -----------------------------
(***************************************************************************)
(* What the leave module promises about balances: applying, approving and  *)
(* closing a request each change the request and the balance together, so  *)
(* that a balance always blocks exactly the days of the open requests.     *)
(* The two collections are updated by separate writes in the code;         *)
(* LeaveRefinement shows when the handlers keep this promise all the same. *)
(***************************************************************************)
EXTENDS Integers, FiniteSetsExt

CONSTANTS
    Keys,         \* balances: employee, leave type and year
    PaidKeys,     \* those of them whose leave type holds a balance
    ReqIds,       \* identities of leave requests
    Durations,    \* days of an application, in half days
    Amounts       \* days that HR may grant, or correct the used days to

Open   == {"PENDING_MANAGER", "PENDING_HR"}
Closed == {"REJECTED", "CANCELLED"}

VARIABLES
    account,   \* granted, used and pending days of each balance
    claim      \* key, days and status of each request

ledger == <<account, claim>>

Available(a) == a.granted - a.used - a.pending

\* Days that a request on this key takes from the balance: none when unpaid.
Days(r) == IF claim[r].key \in PaidKeys THEN claim[r].days ELSE 0

Move(r, status) == claim' = [claim EXCEPT ![r].status = status]

Init ==
    /\ account = [key \in Keys |-> [granted |-> 0, used |-> 0, pending |-> 0]]
    /\ claim \in [ReqIds -> [key: Keys, days: {0}, status: {"NONE"}]]

\* An application the balance covers blocks its days.
Apply(r) ==
    \E key \in Keys, d \in Durations, stage \in Open :
        /\ claim[r].status = "NONE"
        /\ key \in PaidKeys => Available(account[key]) >= d
        /\ claim' = [claim EXCEPT ![r] = [key |-> key, days |-> d, status |-> stage]]
        /\ account' = [account EXCEPT ![key].pending =
                         IF key \in PaidKeys THEN @ + d ELSE @]

\* The manager's approval only passes the request on.
Pass(r) ==
    /\ claim[r].status = "PENDING_MANAGER"
    /\ Move(r, "PENDING_HR")
    /\ UNCHANGED account

\* HR's approval turns blocked days into used ones.
Approve(r) ==
    /\ claim[r].status = "PENDING_HR"
    /\ Move(r, "APPROVED")
    /\ account' = [account EXCEPT ![claim[r].key].pending = @ - Days(r),
                                  ![claim[r].key].used = @ + Days(r)]

\* A rejection or a cancellation gives the days back.
Close(r) ==
    /\ claim[r].status \in Open
    /\ \E status \in Closed : Move(r, status)
    /\ account' = [account EXCEPT ![claim[r].key].pending = @ - Days(r)]

\* HR assigns the granted days, and may correct the used ones.
Grant ==
    \E key \in Keys, granted \in Amounts :
        /\ \E used \in {account[key].used} \cup Amounts :
              account' = [account EXCEPT ![key].granted = granted, ![key].used = used]
        /\ UNCHANGED claim

Next == (\E r \in ReqIds : Apply(r) \/ Pass(r) \/ Approve(r) \/ Close(r)) \/ Grant

Spec == Init /\ [][Next]_ledger

-----------------------------------------------------------------------------
\* "Balance moves pending -> used only on final HR approval; rejections and
\* cancels release the pending hold" (leave-request.schema.ts:30): the days a
\* balance blocks are those of its open requests, no more and no fewer.
PendingIsOpen ==
    \A key \in PaidKeys :
        account[key].pending =
            MapThenSumSet(Days, {r \in ReqIds : /\ claim[r].status \in Open
                                                /\ claim[r].key = key})
=============================================================================
