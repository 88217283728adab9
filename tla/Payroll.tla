------------------------------ MODULE Payroll ------------------------------
(***************************************************************************)
(* The payroll rows of one employee and one period (PayrollService): they  *)
(* are created, edited, removed and mailed as payslips.                    *)
(*                                                                         *)
(* A handler reads its row, and later saves the fields it changed: amounts *)
(* are scalars, so a save is never refused and leaves other fields alone.  *)
(* Amounts are in cents.                                                   *)
(***************************************************************************)
EXTENDS Integers, Sequences, FiniteSets, TLC

CONSTANT Calls  \* slots for handlers that run at the same time

VARIABLES rows,  \* rows of the period, removed ones included
          call, aborts, regime

vars == <<rows, call, aborts, regime>>

Components == {"totalDays", "workingDays", "basicSalary", "extras", "deductions"}
Totals     == {"earnedBasic", "grossEarnings", "totalDeductions", "netPay", "lopDays"}
Rows == [pay: [Components -> Nat], totals: [Totals -> Nat], isDeleted: BOOLEAN,
         status: {"PENDING", "COMPLETED", "REJECTED"}, paid: BOOLEAN,
         email: {"NOT_SENT", "SENT", "FAILED"}, sendCount: Nat,
         slips: Seq([pay: [Components -> Nat], totals: [Totals -> Nat]])]

TypeOK ==
    /\ rows \in Seq(Rows)
    /\ \A c \in Calls : call[c].at \in {"idle", "insert", "update", "remove", "load", "mail",
                                        "record"}

-----------------------------------------------------------------------------
(* The money *)

Payable(pay) == pay.workingDays <= pay.totalDays

RoundedShare(amount, part, whole) == (2 * amount * part + whole) \div (2 * whole)

\* Pay is in proportion to the days worked, what is added and taken off is not.
calculate(pay) ==
    LET earned == RoundedShare(pay.basicSalary, pay.workingDays, pay.totalDays)
        gross  == earned + pay.extras
    IN  [earnedBasic |-> earned, grossEarnings |-> gross,
         totalDeductions |-> pay.deductions,
         netPay |-> IF gross > pay.deductions THEN gross - pay.deductions ELSE 0,
         lopDays |-> pay.totalDays - pay.workingDays]

-----------------------------------------------------------------------------
Idle == [at |-> "idle"]
Quiet == \A c \in Calls : call[c].at = "idle"
Live(i) == ~rows[i].isDeleted

Begin(c, handler, k) ==
    /\ handler \in regime.handlers
    /\ call[c].at = "idle"
    /\ Cardinality({d \in Calls : call[d].at # "idle"}) < regime.width
    /\ call' = [call EXCEPT ![c] = k]
    /\ UNCHANGED <<rows, aborts, regime>>

Goto(c, k) == call' = [call EXCEPT ![c] = k]

\* What a document's save writes: the fields that differ from those it was read with.
Changed(now, read, new) ==
    [f \in DOMAIN now |-> IF new[f] # read[f] THEN new[f] ELSE now[f]]

(* Creating a row *)

CreateRead(c) ==
    /\ ~\E i \in DOMAIN rows : Live(i)
    /\ \E pay \in regime.pays, status \in {"PENDING", "COMPLETED"}, send \in BOOLEAN :
          /\ Payable(pay)
          /\ send => "send" \in regime.handlers
          /\ Begin(c, "create", [at |-> "insert", pay |-> pay, status |-> status,
                                 send |-> send])

Row(pay, status) ==
    [pay |-> pay, totals |-> calculate(pay), isDeleted |-> FALSE, status |-> status,
     paid |-> FALSE, email |-> "NOT_SENT", sendCount |-> 0, slips |-> <<>>]

\* Faulty variant: only the look-up keeps a second row out.
CreateUnguarded(c) ==
    /\ call[c].at = "insert" /\ Len(rows) < regime.rows
    /\ rows' = Append(rows, Row(call[c].pay, call[c].status))
    /\ Goto(c, IF call[c].send THEN [at |-> "load", row |-> Len(rows) + 1] ELSE Idle)
    /\ UNCHANGED <<aborts, regime>>

\* A second live row of the period is refused by its unique key.
CreateInsert(c) ==
    /\ call[c].at = "insert" /\ Len(rows) < regime.rows
    /\ IF \E i \in DOMAIN rows : Live(i)
       THEN Goto(c, Idle) /\ UNCHANGED rows
       ELSE /\ rows' = Append(rows, Row(call[c].pay, call[c].status))
            /\ Goto(c, IF call[c].send THEN [at |-> "load", row |-> Len(rows) + 1] ELSE Idle)
    /\ UNCHANGED <<aborts, regime>>

-----------------------------------------------------------------------------
(* Editing and removing *)

\* Faulty variant: the totals are computed from the row, without the edit.
EditedFirst(row, edit, status) ==
    [row EXCEPT !.pay = edit @@ @, !.totals = calculate(row.pay), !.status = status,
                !.paid = @ \/ status = "COMPLETED"]

\* The edit over the row's components, and the totals of what they become.
Edited(row, edit, status) ==
    LET merged == edit @@ row.pay
    IN  [row EXCEPT !.pay = merged, !.totals = calculate(merged), !.status = status,
                    !.paid = @ \/ status = "COMPLETED"]

UpdateRead(c) ==
    \E i \in DOMAIN rows, edit \in regime.edits :
        /\ Live(i) /\ Payable(edit @@ rows[i].pay)
        /\ \E status \in {rows[i].status, "COMPLETED", "REJECTED"} :
              Begin(c, "update", [at |-> "update", row |-> i, read |-> rows[i],
                                  new |-> Edited(rows[i], edit, status)])

\* Faulty variant: the whole document is written back.
UpdateReplaces(c) ==
    /\ call[c].at = "update"
    /\ rows' = [rows EXCEPT ![call[c].row] = call[c].new]
    /\ Goto(c, Idle)
    /\ UNCHANGED <<aborts, regime>>

UpdateSave(c) ==
    /\ call[c].at = "update"
    /\ rows' = [rows EXCEPT ![call[c].row] =
                   [Changed(@, call[c].read, call[c].new) EXCEPT
                       !.pay = Changed(rows[call[c].row].pay, call[c].read.pay, call[c].new.pay),
                       !.totals = Changed(rows[call[c].row].totals, call[c].read.totals,
                                          call[c].new.totals)]]
    /\ Goto(c, Idle)
    /\ UNCHANGED <<aborts, regime>>

RemoveRead(c) ==
    \E i \in DOMAIN rows : Live(i) /\ Begin(c, "remove", [at |-> "remove", row |-> i])

RemoveSave(c) ==
    /\ call[c].at = "remove"
    /\ rows' = [rows EXCEPT ![call[c].row].isDeleted = TRUE]
    /\ Goto(c, Idle)
    /\ UNCHANGED <<aborts, regime>>

-----------------------------------------------------------------------------
(* Payslips *)

SendBegin(c) ==
    \E i \in DOMAIN rows :
        Live(i) /\ rows[i].sendCount < regime.sends
            /\ Begin(c, "send", [at |-> "load", row |-> i])

\* A row that was removed since it was created is not found.
SendRead(c) ==
    /\ call[c].at = "load"
    /\ Goto(c, IF Live(call[c].row)
               THEN [at |-> "mail", row |-> call[c].row, read |-> rows[call[c].row]]
               ELSE Idle)
    /\ UNCHANGED <<rows, aborts, regime>>

Mail(c) ==
    /\ call[c].at = "mail"
    /\ \E sent \in BOOLEAN :
          /\ Goto(c, [at |-> "record", row |-> call[c].row, read |-> call[c].read,
                      sent |-> sent])
          /\ rows' = IF sent
                     THEN [rows EXCEPT ![call[c].row].slips =
                              Append(@, [pay |-> call[c].read.pay,
                                         totals |-> call[c].read.totals])]
                     ELSE rows
    /\ UNCHANGED <<aborts, regime>>

\* Faulty variant: an attempt is counted, delivered or not.
RecordAttempt(c) ==
    /\ call[c].at = "record"
    /\ rows' = [rows EXCEPT ![call[c].row].email = IF call[c].sent THEN "SENT" ELSE "FAILED",
                            ![call[c].row].sendCount = call[c].read.sendCount + 1]
    /\ Goto(c, Idle)
    /\ UNCHANGED <<aborts, regime>>

SendRecord(c) ==
    LET new == [call[c].read EXCEPT !.email = IF call[c].sent THEN "SENT" ELSE "FAILED",
                                    !.sendCount = IF call[c].sent THEN @ + 1 ELSE @]
    IN  /\ call[c].at = "record"
        /\ rows' = [rows EXCEPT ![call[c].row] = Changed(@, call[c].read, new)]
        /\ Goto(c, Idle)
        /\ UNCHANGED <<aborts, regime>>

\* The server stops, and the handler with it.
Stop(c) ==
    /\ call[c].at # "idle" /\ aborts < regime.aborts
    /\ aborts' = aborts + 1
    /\ Goto(c, Idle)
    /\ UNCHANGED <<rows, regime>>

Init ==
    /\ rows = <<>>
    /\ call = [c \in Calls |-> Idle]
    /\ aborts = 0

Next ==
    \E c \in Calls :
        \/ CreateRead(c) \/ CreateInsert(c) \/ UpdateRead(c) \/ UpdateSave(c)
        \/ RemoveRead(c) \/ RemoveSave(c)
        \/ SendBegin(c) \/ SendRead(c) \/ Mail(c) \/ SendRecord(c) \/ Stop(c)

-----------------------------------------------------------------------------
\* One request at a time, an edit never leaves a row's totals at odds with the
\* components they come from, nor a payslip that was delivered (update).
TotalsFollowPay ==
    regime.width = 1 =>
        \A i \in DOMAIN rows :
            /\ rows[i].totals = calculate(rows[i].pay)
            /\ \A n \in DOMAIN rows[i].slips :
                  rows[i].slips[n].totals = calculate(rows[i].slips[n].pay)

\* However requests overlap, the period has one row that is not removed (create
\* and the unique key it relies on).
OneRowPerPeriod ==
    Cardinality({i \in DOMAIN rows : Live(i)}) <= 1

\* A row never counts more payslips than were delivered, whatever overlaps or
\* stops; one request at a time and none stopped, it counts them all (sendPayslip).
SentWasMailed ==
    \A i \in DOMAIN rows :
        /\ rows[i].sendCount <= Len(rows[i].slips)
        /\ regime.width = 1 /\ aborts = 0 /\ Quiet =>
              rows[i].sendCount = Len(rows[i].slips)

\* A row that was removed is not brought back by an edit or a payslip that was
\* under way when it was removed (save, which writes what it changed).
RemovedStep ==
    \A i \in DOMAIN rows : rows[i].isDeleted => rows'[i].isDeleted
RemovedStaysRemoved == [][RemovedStep]_vars
=============================================================================
