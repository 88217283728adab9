---------------------------- MODULE LeaveRequests ----------------------------
(***************************************************************************)
(* The leave approval chain of LeaveRequestService: apply, the manager's   *)
(* decision, HR's decision, cancellation, and the balance assignment of    *)
(* LeaveService, over the leave-requests and leave-balances collections.   *)
(*                                                                         *)
(* A handler is a call.  Each of its database writes is one action, and so *)
(* are the reads before it together (another handler's write between two   *)
(* of them could as well have come before or after both).  Other calls run *)
(* between the actions; what a handler has read travels in its call        *)
(* record, and may be stale when it is used.  A call may                   *)
(* also stop between its two writes (Abort): a database error is thrown    *)
(* out of the handler and nothing that it already wrote is undone.         *)
(*                                                                         *)
(* Amounts are half days: totalDays is 0.5 or a whole number of days.  A   *)
(* balance that does not exist is a balance of zeros, which is how apply   *)
(* treats it; documents of this collection are never deleted.              *)
(***************************************************************************)
EXTENDS Integers, FiniteSets

CONSTANTS
    Employees,    \* employees who apply for leave
    Managers,     \* employees they may report to
    LeaveTypes,   \* its leave types
    LopTypes,     \* those whose code is LOP: unpaid, they hold no balance
    Years,        \* the year of a request's start date
    ReqIds,       \* identities of leave requests
    Calls,        \* handler executions, each used for one HTTP request
    Durations,    \* totalDays of an application, in half days
    Assignments,  \* what HR may assign to a balance
    Keep,         \* an assignment field that the request leaves out
    NoOne,        \* the employee has no reporting manager
    Widths,       \* how many handlers the server may run at the same time
    MaxAborts     \* bound on the calls that stop between two writes

Keys == Employees \X LeaveTypes \X Years

Open   == {"PENDING_MANAGER", "PENDING_HR"}
Closed == {"REJECTED", "CANCELLED"}
Statuses == Open \cup Closed \cup {"APPROVED"}
StepActions == {"PENDING", "APPROVED", "REJECTED", "SKIPPED"}

Assignment == [allocated: Nat, carried: Nat \cup {Keep}, used: Nat \cup {Keep}]

ASSUME LeaveAssumption ==
    /\ Keys # {} /\ ReqIds # {}
    /\ LopTypes \subseteq LeaveTypes
    /\ Durations \subseteq Nat \ {0}
    /\ Assignments \subseteq Assignment
    /\ Keep \notin Nat
    /\ NoOne \notin Managers
    /\ Widths \subseteq Nat \ {0}
    /\ MaxAborts \in Nat

VARIABLES
    wallet,   \* leave-balances, by employee, leave type and year
    request,  \* leave-requests; a request not yet created has status "NONE"
    manager,  \* managerId of each employee
    active,   \* leave types whose status is ACTIVE
    call,     \* the handler executions
    width     \* how many of them overlap at most, the same all along

vars == <<wallet, request, manager, active, call, width>>

Wallets  == [allocated: Nat, carried: Nat, used: Int, pending: Int]
Requests == [key: Keys, days: Nat, status: Statuses \cup {"NONE"},
             managerStep: StepActions, hrStep: StepActions]
CallStates ==
    [op     : {"none", "apply", "manager", "hr", "cancel"},
     at     : {"new", "hold", "create", "settle", "save", "done", "dead"},
     req    : ReqIds,
     key    : Keys,
     days   : Nat,
     routed : BOOLEAN,                          \* apply found a manager
     target : Statuses,                         \* status a decision will save
     step   : {"none", "manager", "hr"},        \* step it found PENDING
     effect : {"none", "hold", "release", "consume"}]  \* its balance write

TypeOK ==
    /\ wallet  \in [Keys -> Wallets]
    /\ request \in [ReqIds -> Requests]
    /\ manager \in [Employees -> Managers \cup {NoOne}]
    /\ active  \subseteq LeaveTypes
    /\ call    \in [Calls -> CallStates]
    /\ width   \in Widths

-----------------------------------------------------------------------------
(* Balances and calls *)

TypeOf(key) == key[2]
HoldsBalance(key) == TypeOf(key) \notin LopTypes

\* Faulty variant: the balance check forgets the days held by open requests.
AvailableIgnoringHolds(w) == w.allocated + w.carried - w.used
Available(w) == w.allocated + w.carried - w.used - w.pending

\* The $inc and $set updates of a balance, computed by the database on the
\* balance as it is when the update arrives.
Hold(w, d)        == [w EXCEPT !.pending = @ + d]
ReleaseHold(w, d) == [w EXCEPT !.pending = @ - d]

\* Faulty variant: an approval clears the hold and uses no days.
ConsumeNothing(w, d) == [w EXCEPT !.pending = @ - d]
ConsumeHold(w, d) == [w EXCEPT !.pending = @ - d, !.used = @ + d]
Assign(w, a)      == [w EXCEPT !.allocated = a.allocated,
                               !.carried = IF a.carried = Keep THEN @ ELSE a.carried,
                               !.used = IF a.used = Keep THEN @ ELSE a.used]

Deciding == {"manager", "hr", "cancel"}

Running(c) == call[c].at \in {"hold", "create", "settle", "save"}

\* A handler may start while fewer than width are running.
MayStart == Cardinality({d \in Calls : Running(d)}) < width
CanStart(c) == call[c].at = "new" /\ MayStart

Reserved(r) == \E c \in Calls : call[c].op = "apply" /\ call[c].req = r

\* The calls whose balance write for request r was e.
Effects(r, e) == {c \in Calls : call[c].req = r /\ call[c].effect = e}

-----------------------------------------------------------------------------
(* apply *)

\* Reads the employee, the leave type and the balance, and refuses an
\* application that the balance does not cover.
ApplyRead(c) ==
    \E key \in Keys, d \in Durations, r \in ReqIds :
        /\ CanStart(c)
        /\ request[r].status = "NONE" /\ ~Reserved(r)
        /\ TypeOf(key) \in active
        /\ HoldsBalance(key) => Available(wallet[key]) >= d
        /\ call' = [call EXCEPT ![c] =
             [@ EXCEPT !.op = "apply", !.req = r, !.key = key, !.days = d,
                       !.at = IF HoldsBalance(key) THEN "hold" ELSE "create",
                       !.routed = manager[key[1]] # NoOne]]
        /\ UNCHANGED <<wallet, request, manager, active, width>>

\* Faulty variant: the update matches no document and nobody notices.
ApplyHoldLost(c) ==
    /\ call[c].at = "hold"
    /\ call' = [call EXCEPT ![c].at = "create"]
    /\ UNCHANGED <<wallet, request, manager, active, width>>

\* The hold is placed on the balance as it is now, not as it was read.
ApplyHold(c) ==
    /\ call[c].at = "hold"
    /\ wallet' = [wallet EXCEPT ![call[c].key] = Hold(@, call[c].days)]
    /\ call' = [call EXCEPT ![c].at = "create", ![c].effect = "hold"]
    /\ UNCHANGED <<request, manager, active, width>>

\* Creates the request, waiting on the manager or, without one, on HR.
ApplyCreate(c) ==
    /\ call[c].at = "create"
    /\ request' = [request EXCEPT ![call[c].req] =
         [key |-> call[c].key, days |-> call[c].days,
          status |-> IF call[c].routed THEN "PENDING_MANAGER" ELSE "PENDING_HR",
          managerStep |-> IF call[c].routed THEN "PENDING" ELSE "SKIPPED",
          hrStep |-> "PENDING"]]
    /\ call' = [call EXCEPT ![c].at = "done"]
    /\ UNCHANGED <<wallet, manager, active, width>>

-----------------------------------------------------------------------------
(* Decisions: load and check, settle the hold, save the request *)

\* Faulty variant: a request that was already decided is loaded as well.
LoadDecided(c, r, op, target, settles, step) ==
    /\ CanStart(c)
    /\ request[r].status # "NONE"
    /\ call' = [call EXCEPT ![c] =
         [@ EXCEPT !.op = op, !.req = r, !.key = request[r].key,
                   !.days = request[r].days, !.target = target, !.step = step,
                   !.at = IF settles /\ HoldsBalance(request[r].key)
                          THEN "settle" ELSE "save"]]
    /\ UNCHANGED <<wallet, request, manager, active, width>>

\* Loads the request and remembers what the handler will do with it.  A
\* decision with no balance write to make goes straight to the save.
Load(c, r, op, target, settles, step) ==
    /\ CanStart(c)
    /\ request[r].status \in Open
    /\ call' = [call EXCEPT ![c] =
         [@ EXCEPT !.op = op, !.req = r, !.key = request[r].key,
                   !.days = request[r].days, !.target = target, !.step = step,
                   !.at = IF settles /\ HoldsBalance(request[r].key)
                          THEN "settle" ELSE "save"]]
    /\ UNCHANGED <<wallet, request, manager, active, width>>

\* Faulty variant: an approval leaves the request at the manager's stage.
ManagerReadStays(c) ==
    \E r \in ReqIds, approve \in BOOLEAN :
        /\ request[r].status = "PENDING_MANAGER"
        /\ Load(c, r, "manager", IF approve THEN "PENDING_MANAGER" ELSE "REJECTED",
                ~approve, "manager")

\* Faulty variant: a manager's rejection keeps the hold.
ManagerReadKeeps(c) ==
    \E r \in ReqIds, approve \in BOOLEAN :
        /\ request[r].status = "PENDING_MANAGER"
        /\ Load(c, r, "manager", IF approve THEN "PENDING_HR" ELSE "REJECTED",
                FALSE, "manager")

\* Only the requester's present reporting manager decides at this stage; a
\* rejection releases the hold, an approval passes the request on to HR.
ManagerRead(c) ==
    \E r \in ReqIds, approve \in BOOLEAN :
        /\ request[r].status = "PENDING_MANAGER"
        /\ manager[request[r].key[1]] # NoOne
        /\ Load(c, r, "manager", IF approve THEN "PENDING_HR" ELSE "REJECTED",
                ~approve,
                IF request[r].managerStep = "PENDING" THEN "manager" ELSE "none")

\* Faulty variant: the hold is settled on a rejection only.
HrReadForgets(c) ==
    \E r \in ReqIds, approve \in BOOLEAN :
        /\ request[r].status = "PENDING_HR"
        /\ Load(c, r, "hr", IF approve THEN "APPROVED" ELSE "REJECTED", ~approve, "hr")

\* Faulty variant: HR decides at either stage.
HrReadEarly(c) ==
    \E r \in ReqIds, approve \in BOOLEAN :
        Load(c, r, "hr", IF approve THEN "APPROVED" ELSE "REJECTED", TRUE, "hr")

\* HR's decision is final: it consumes the hold or releases it.
HrRead(c) ==
    \E r \in ReqIds, approve \in BOOLEAN :
        /\ request[r].status = "PENDING_HR"
        /\ Load(c, r, "hr", IF approve THEN "APPROVED" ELSE "REJECTED", TRUE,
                IF request[r].hrStep = "PENDING" THEN "hr" ELSE "none")

\* The requester withdraws an open request; no approval step is written.
CancelRead(c) ==
    \E r \in ReqIds : Load(c, r, "cancel", "CANCELLED", TRUE, "none")

\* releaseHold and consumeHold: one $inc on the balance of the request.
Settle(c) ==
    LET consume == call[c].target = "APPROVED"
    IN  /\ call[c].at = "settle"
        /\ wallet' = [wallet EXCEPT ![call[c].key] =
             IF consume THEN ConsumeHold(@, call[c].days)
                        ELSE ReleaseHold(@, call[c].days)]
        /\ call' = [call EXCEPT ![c].at = "save",
                    ![c].effect = IF consume THEN "consume" ELSE "release"]
        /\ UNCHANGED <<request, manager, active, width>>

\* Faulty variant: the request's new status is written into the step.
VerdictIsStatus(c) == call[c].target

\* The decision that a save writes into the step it found PENDING.
Verdict(c) == IF call[c].target = "REJECTED" THEN "REJECTED" ELSE "APPROVED"

\* The stored request after the handler's save.
Saved(c, q) ==
    [q EXCEPT !.status = call[c].target,
              !.managerStep = IF call[c].step = "manager" THEN Verdict(c) ELSE @,
              !.hrStep = IF call[c].step = "hr" THEN Verdict(c) ELSE @]

\* Document.save writes the paths the handler changed: the status, and the
\* step found PENDING.  It does not look at the status stored meanwhile.
Save(c) ==
    /\ call[c].at = "save"
    /\ request' = [request EXCEPT ![call[c].req] = Saved(c, @)]
    /\ call' = [call EXCEPT ![c].at = "done"]
    /\ UNCHANGED <<wallet, manager, active, width>>

\* The handler has written the balance and not yet the request.
HalfDone(c) == Running(c) /\ call[c].effect # "none"

\* A database error ends the handler between its two writes.  One that ends it
\* before the first changes nothing and is no step.
Abort(c) ==
    /\ HalfDone(c)
    /\ Cardinality({d \in Calls : call[d].at = "dead"}) < MaxAborts
    /\ call' = [call EXCEPT ![c].at = "dead"]
    /\ UNCHANGED <<wallet, request, manager, active, width>>

-----------------------------------------------------------------------------
(* HR's maintenance.  A toggle reads the status it inverts; two that overlap *)
(* write the same value twice, which changes nothing the second time.        *)

\* assignBalance: an upsert of the allocation and the fields that were sent.
AssignBalance ==
    \E key \in Keys, a \in Assignments :
        /\ MayStart
        /\ wallet' = [wallet EXCEPT ![key] = Assign(@, a)]
        /\ UNCHANGED <<request, manager, active, call, width>>

ToggleLeaveType ==
    \E t \in LeaveTypes :
        /\ MayStart
        /\ active' = IF t \in active THEN active \ {t} ELSE active \cup {t}
        /\ UNCHANGED <<wallet, request, manager, call, width>>

\* The employee record gets another reporting manager, or none.
ReassignManager ==
    \E e \in Employees, m \in Managers \cup {NoOne} :
        /\ MayStart
        /\ manager' = [manager EXCEPT ![e] = m]
        /\ UNCHANGED <<wallet, request, active, call, width>>

-----------------------------------------------------------------------------
NoKey == CHOOSE key \in Keys : TRUE

NewCall == [op |-> "none", at |-> "new", req |-> CHOOSE r \in ReqIds : TRUE,
            key |-> NoKey, days |-> 0, routed |-> FALSE,
            target |-> "CANCELLED", step |-> "none", effect |-> "none"]

Init ==
    /\ wallet  = [key \in Keys |-> [allocated |-> 0, carried |-> 0,
                                    used |-> 0, pending |-> 0]]
    /\ request = [r \in ReqIds |-> [key |-> NoKey, days |-> 0, status |-> "NONE",
                                    managerStep |-> "PENDING", hrStep |-> "PENDING"]]
    /\ manager \in [Employees -> Managers \cup {NoOne}]
    /\ active  = LeaveTypes
    /\ call    = [c \in Calls |-> NewCall]
    /\ width   \in Widths

Next ==
    \/ \E c \in Calls : \/ ApplyRead(c) \/ ApplyHold(c) \/ ApplyCreate(c)
                        \/ ManagerRead(c) \/ HrRead(c) \/ CancelRead(c)
                        \/ Settle(c) \/ Save(c) \/ Abort(c)
    \/ AssignBalance
    \/ ToggleLeaveType
    \/ ReassignManager

Spec == Init /\ [][Next]_vars

-----------------------------------------------------------------------------
(* What holds however the handlers interleave and wherever they stop *)

\* An approved request of a paid type has moved its days out of the hold:
\* hrDecide consumes the hold before it saves the approval.
ApprovedWasConsumed ==
    \A r \in ReqIds : request[r].status = "APPROVED" /\ HoldsBalance(request[r].key)
                      => Effects(r, "consume") # {}

\* A rejected or cancelled request of a paid type has released its hold: no
\* closed request keeps days of the employee blocked.
ClosedWasReleased ==
    \A r \in ReqIds : request[r].status \in Closed /\ HoldsBalance(request[r].key)
                      => Effects(r, "release") # {}

\* No request of a paid type exists without the hold that apply placed for it.
CreatedWasHeld ==
    \A r \in ReqIds : request[r].status # "NONE" /\ HoldsBalance(request[r].key)
                      => \E c \in Effects(r, "hold") :
                            /\ call[c].key = request[r].key
                            /\ call[c].days = request[r].days

\* A request that has left the manager's stage never waits on a manager again.
NeverBackToManager ==
    [][\A r \in ReqIds :
          request'[r].status = "PENDING_MANAGER"
            => request[r].status \in {"NONE", "PENDING_MANAGER"}]_request

\* A handler in state k, working on a request whose stored form is q.
Coherent(k, q) ==
    LET paid == HoldsBalance(k.key)
    IN  /\ k.at = "new"    => k.op = "none" /\ k.effect = "none"
        /\ k.at = "hold"   => k.op = "apply" /\ k.effect = "none"
        /\ k.at = "create" => k.op = "apply" /\ (paid => k.effect = "hold")
        /\ k.at = "settle" => k.op \in Deciding /\ k.effect = "none"
        /\ k.at = "save"   => /\ k.op \in Deciding
                              /\ paid /\ k.target = "APPROVED" => k.effect = "consume"
                              /\ paid /\ k.target \in Closed   => k.effect = "release"
        /\ k.at \in {"hold", "create"} => q.status = "NONE"
        /\ k.op \in Deciding => /\ q.status # "NONE"
                                /\ q.key = k.key
                                /\ k.target # "PENDING_MANAGER"

\* What a handler knows while it runs stays true of the stored documents,
\* however stale its copy is: a request being created does not exist yet, one
\* being decided does and keeps its key; a closing save follows its balance
\* write.  Two applications never share a request.
InFlight ==
    /\ \A c \in Calls : Coherent(call[c], request[call[c].req])
    /\ \A c, d \in Calls :
        call[c].op = "apply" /\ call[d].op = "apply" /\ call[c].req = call[d].req
            => c = d

-----------------------------------------------------------------------------
(* What holds when handlers run one after the other.  The code relies on it: *)
(* it reads, decides and writes with nothing that keeps another handler out. *)

OneAtATime == width = 1

\* And when none of them stopped half way.
Orderly == OneAtATime /\ \A c \in Calls : call[c].at # "dead"

\* The schema's "min: 0" on pending (leave-balance.schema.ts:37), which $inc
\* does not enforce.
PendingMin == \A key \in Keys : wallet[key].pending >= 0

\* A decided request is settled exactly once, an open one never: its days are
\* neither returned twice nor both returned and used, and no balance gives back
\* more than was held.
SettledOnce ==
    Orderly =>
        /\ \A r \in ReqIds :
             LET settled == Effects(r, "release") \cup Effects(r, "consume")
             IN  /\ request[r].status \in Open /\ MayStart => settled = {}
                 /\ \A c, d \in settled : c = d
        /\ PendingMin

\* "Manager -> HR approval chain" (leave-request.schema.ts:30): an approved
\* request was passed by its manager, or had none, and then by HR.
ApprovalChain ==
    OneAtATime => \A r \in ReqIds : request[r].status = "APPROVED"
        => /\ request[r].managerStep \in {"APPROVED", "SKIPPED"}
           /\ request[r].hrStep = "APPROVED"

DecisionsStand ==
    \A r \in ReqIds : request[r].status \in Closed \cup {"APPROVED"}
                         => request'[r] = request[r]

HoldsCovered ==
    \A key \in Keys : wallet'[key].pending > wallet[key].pending
                         => LET w == wallet'[key]
                            IN  w.used + w.pending <= w.allocated + w.carried

\* Approved, rejected and cancelled are final, and a hold is placed only while
\* the balance covers it (apply, managerDecide, hrDecide, cancel).
OrderlySteps == [][OneAtATime => DecisionsStand /\ HoldsCovered]_<<request, wallet>>
=============================================================================
