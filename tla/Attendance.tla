----------------------------- MODULE Attendance -----------------------------
(***************************************************************************)
(* One employee's day: checking in and out (AttendanceService), and the    *)
(* corrections of it that are requested and decided (RegularizationService)*)
(* on the arithmetic of shift-time.util.                                   *)
(*                                                                         *)
(* Times are minutes of the day; None is a time that is not set.  A        *)
(* handler's reads before a write are one action, each write is another.   *)
(***************************************************************************)
EXTENDS Integers, Sequences, FiniteSets, FiniteSetsExt

CONSTANT Calls  \* slots for handlers that run at the same time

VARIABLES record,    \* the record of the day
          requests,  \* correction requests, in the order they were created
          call, aborts, regime

vars == <<record, requests, call, aborts, regime>>

None   == -1
Day    == 24 * 60
Times  == 0..(Day - 1)
Rules  == [start: Times, end: Times, grace: Nat]

GENERAL == [start |-> 540, end |-> 1080, grace |-> 15]
NIGHT   == [start |-> 1320, end |-> 360, grace |-> 15]

Evaluations == [workMinutes: Nat, lateMinutes: Nat, earlyExitMinutes: Nat,
                overtimeMinutes: Nat, status: {"OPEN", "PRESENT", "HALF_DAY", "ABSENT"}]
Records  == [there: BOOLEAN, checkIn: Times \cup {None}, checkOut: Times \cup {None},
             day: Evaluations, regularized: BOOLEAN]
Requests == [checkIn: Times, checkOut: Times \cup {None},
             status: {"PENDING", "APPROVED", "REJECTED", "CANCELLED"}, applied: Nat]

TypeOK ==
    /\ record \in Records
    /\ requests \in Seq(Requests)
    /\ \A c \in Calls : call[c].at \in {"idle", "in", "out", "raise", "decide", "apply",
                                        "cancel"}

-----------------------------------------------------------------------------
(* A day against its shift *)

\* An end at or before the start is an end on the next day.
EndsNextDay(rule) == rule.end <= rule.start
EffectiveEnd(rule) == IF EndsNextDay(rule) THEN rule.end + Day ELSE rule.end
scheduledMinutes(rule) == EffectiveEnd(rule) - rule.start

\* Faulty variant: minutes to spare count as negative ones.
AtLeastUnclamped(n, m) == n

AtLeast(n, m) == IF n > m THEN n ELSE m

Status(in, out, work) ==
    CASE out = None -> "OPEN"
      [] out # None /\ work >= 480 -> "PRESENT"
      [] out # None /\ work \in 240..479 -> "HALF_DAY"
      [] OTHER -> "ABSENT"

\* Faulty variant: the end of a night shift is taken on the day it starts.
evaluateSameDay(in, out, rule) ==
    LET work   == IF out = None THEN 0 ELSE AtLeast(out - in, 0)
        excess == work - scheduledMinutes(rule)
    IN  [workMinutes |-> work, status |-> Status(in, out, work),
         lateMinutes |-> AtLeast(in - (rule.start + rule.grace), 0),
         earlyExitMinutes |-> IF out = None THEN 0
                              ELSE AtLeast(rule.end - rule.grace - out, 0),
         overtimeMinutes |-> IF out # None /\ excess > 30 THEN excess ELSE 0]

\* Without a check-out only lateness is known.
evaluateDay(in, out, rule) ==
    LET work   == IF out = None THEN 0 ELSE AtLeast(out - in, 0)
        outMin == IF EndsNextDay(rule) /\ out < in THEN out + Day ELSE out
        excess == work - scheduledMinutes(rule)
    IN  [workMinutes |-> work, status |-> Status(in, out, work),
         lateMinutes |-> AtLeast(in - (rule.start + rule.grace), 0),
         earlyExitMinutes |-> IF out = None THEN 0
                              ELSE AtLeast(EffectiveEnd(rule) - rule.grace - outMin, 0),
         overtimeMinutes |-> IF out # None /\ excess > 30 THEN excess ELSE 0]

-----------------------------------------------------------------------------
Idle == [at |-> "idle", item |-> 0, in |-> None, out |-> None, approve |-> FALSE]
Quiet == \A c \in Calls : call[c].at = "idle"

Begin(c, handler, record_) ==
    /\ handler \in regime.handlers
    /\ call[c].at = "idle"
    /\ Cardinality({d \in Calls : call[d].at # "idle"}) < regime.width
    /\ call' = [call EXCEPT ![c] = record_]
    /\ UNCHANGED <<record, requests, aborts, regime>>

End(c) == call' = [call EXCEPT ![c] = Idle]

(* Checking in and out *)

\* A record without a check-in is never written: there is one or there is none.
CheckInRead(c) ==
    /\ ~record.there
    /\ \E time \in regime.times : Begin(c, "punch", [Idle EXCEPT !.at = "in", !.in = time])

\* Faulty variant: a second record of the day takes the place of the first.
CheckInReplaces(c) ==
    /\ call[c].at = "in"
    /\ record' = [there |-> TRUE, checkIn |-> call[c].in, checkOut |-> None,
                  day |-> evaluateDay(call[c].in, None, regime.rule), regularized |-> FALSE]
    /\ End(c)
    /\ UNCHANGED <<requests, aborts, regime>>

\* The day has one record: a second one is refused by its unique key.
CheckInCreate(c) ==
    /\ call[c].at = "in"
    /\ record' = IF record.there THEN record
                 ELSE [there |-> TRUE, checkIn |-> call[c].in, checkOut |-> None,
                       day |-> evaluateDay(call[c].in, None, regime.rule),
                       regularized |-> FALSE]
    /\ End(c)
    /\ UNCHANGED <<requests, aborts, regime>>

CheckOutRead(c) ==
    /\ record.there /\ record.checkOut = None
    /\ \E time \in regime.times :
          /\ time > record.checkIn
          /\ Begin(c, "punch", [Idle EXCEPT !.at = "out", !.in = record.checkIn, !.out = time])

CheckOutWrite(c) ==
    /\ call[c].at = "out"
    /\ record' = [record EXCEPT !.checkOut = call[c].out,
                     !.day = evaluateDay(call[c].in, call[c].out, regime.rule)]
    /\ End(c)
    /\ UNCHANGED <<requests, aborts, regime>>

-----------------------------------------------------------------------------
(* Corrections *)

IsPending(i) == requests[i].status = "PENDING"

\* Faulty variant: only a request that was approved stands in the way.
NoneApproved == ~\E i \in DOMAIN requests : requests[i].status = "APPROVED"

NonePending == ~\E i \in DOMAIN requests : IsPending(i)

RaiseRead(c) ==
    /\ NonePending
    /\ \E in \in regime.times, out \in regime.times \cup {None} :
          /\ out = None => regime.openEnds
          /\ out # None => out > in
          /\ Begin(c, "raise", [Idle EXCEPT !.at = "raise", !.in = in, !.out = out])

RaiseCreate(c) ==
    /\ call[c].at = "raise" /\ Len(requests) < regime.requests
    /\ requests' = Append(requests, [checkIn |-> call[c].in, checkOut |-> call[c].out,
                                     status |-> "PENDING", applied |-> 0])
    /\ End(c)
    /\ UNCHANGED <<record, aborts, regime>>

DecideRead(c) ==
    \E i \in DOMAIN requests, approve \in BOOLEAN :
        /\ IsPending(i)
        /\ Begin(c, "decide", [Idle EXCEPT !.at = "decide", !.item = i, !.approve = approve])

\* Faulty variant: the times are applied, and the request is left to be decided.
DecideUnmarked(c) ==
    /\ call[c].at = "decide"
    /\ call' = [call EXCEPT ![c] = IF @.approve THEN [@ EXCEPT !.at = "apply"] ELSE Idle]
    /\ UNCHANGED <<record, requests, aborts, regime>>

DecideSave(c) ==
    /\ call[c].at = "decide"
    /\ requests' = [requests EXCEPT ![call[c].item].status =
                        IF call[c].approve THEN "APPROVED" ELSE "REJECTED"]
    /\ call' = [call EXCEPT ![c] = IF @.approve THEN [@ EXCEPT !.at = "apply"] ELSE Idle]
    /\ UNCHANGED <<record, aborts, regime>>

\* Faulty variant: a day that has been punched keeps its evaluation.
ApplyTimesOnly(c) ==
    LET request == requests[call[c].item]
    IN  /\ call[c].at = "apply"
        /\ record' = [there |-> TRUE, checkIn |-> request.checkIn, regularized |-> TRUE,
               checkOut |-> IF request.checkOut = None THEN record.checkOut
                                                       ELSE request.checkOut,
               day |-> IF record.there THEN record.day
                       ELSE evaluateDay(request.checkIn, request.checkOut, regime.rule)]
        /\ requests' = [requests EXCEPT ![call[c].item].applied = @ + 1]
        /\ End(c)
        /\ UNCHANGED <<aborts, regime>>

\* The request's times over the record's, with a check-out only if it names one.
ApplyToRecord(c) ==
    LET request == requests[call[c].item]
    IN  /\ call[c].at = "apply"
        /\ record' = [there |-> TRUE, checkIn |-> request.checkIn, regularized |-> TRUE,
               checkOut |-> IF request.checkOut = None THEN record.checkOut
                                                       ELSE request.checkOut,
               day |-> evaluateDay(request.checkIn, request.checkOut, regime.rule)]
        /\ requests' = [requests EXCEPT ![call[c].item].applied = @ + 1]
        /\ End(c)
        /\ UNCHANGED <<aborts, regime>>

CancelRead(c) ==
    \E i \in DOMAIN requests :
        IsPending(i) /\ Begin(c, "cancel", [Idle EXCEPT !.at = "cancel", !.item = i])

CancelSave(c) ==
    /\ call[c].at = "cancel"
    /\ requests' = [requests EXCEPT ![call[c].item].status = "CANCELLED"]
    /\ End(c)
    /\ UNCHANGED <<record, aborts, regime>>

\* The server stops, and the handler with it.
Stop(c) ==
    /\ call[c].at # "idle" /\ aborts < regime.aborts
    /\ aborts' = aborts + 1
    /\ End(c)
    /\ UNCHANGED <<record, requests, regime>>

Init ==
    /\ record = [there |-> FALSE, checkIn |-> None, checkOut |-> None,
                 day |-> evaluateDay(0, None, GENERAL), regularized |-> FALSE]
    /\ requests = <<>>
    /\ call = [c \in Calls |-> Idle]
    /\ aborts = 0

Next ==
    \E c \in Calls :
        \/ CheckInRead(c) \/ CheckInCreate(c) \/ CheckOutRead(c) \/ CheckOutWrite(c)
        \/ RaiseRead(c) \/ RaiseCreate(c) \/ DecideRead(c) \/ DecideSave(c)
        \/ ApplyToRecord(c) \/ CancelRead(c) \/ CancelSave(c) \/ Stop(c)

-----------------------------------------------------------------------------
Sequential == regime.width = 1

\* A punch never moves a check-in that is there, however requests overlap: only
\* an approved correction does (checkIn and the unique key of the record).
CheckInStep ==
    record.there /\ record'.checkIn # record.checkIn => record'.regularized
CheckInStands == [][CheckInStep]_vars

\* One request at a time, what a closed day shows is what its times say, after
\* any order of punches and corrections that name both times (evaluateDay).
DayAddsUp ==
    Sequential /\ ~regime.openEnds /\ record.there =>
        /\ record.day.status = "OPEN" <=> record.checkOut = None
        /\ record.checkOut # None => record.day.workMinutes = record.checkOut - record.checkIn

\* The minutes a day lacks of its shift are accounted for as late or early, the
\* grace aside, for day and night shifts alike (evaluateDay).
MissingIsFlagged ==
    Sequential /\ ~regime.openEnds /\ record.checkOut # None =>
        record.day.workMinutes + record.day.lateMinutes + record.day.earlyExitMinutes
            + 2 * regime.rule.grace >= scheduledMinutes(regime.rule)

\* One request at a time, a request that was approved has its times on the record,
\* once, and every later punch or correction is on top of it (applyToRecord).
ApprovedIsApplied ==
    Sequential /\ aborts = 0 /\ Quiet =>
        \A i \in DOMAIN requests :
            /\ requests[i].applied = (IF requests[i].status = "APPROVED" THEN 1 ELSE 0)
            /\ requests[i].applied = 1 /\ (\A j \in DOMAIN requests : j > i => requests[j].applied = 0)
                   => record.checkIn = requests[i].checkIn

\* Requests that overlap can leave one pending request each, and no more (raise).
OnePending ==
    Cardinality({i \in DOMAIN requests : IsPending(i)}) <= regime.width
=============================================================================
