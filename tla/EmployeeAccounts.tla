--------------------------- MODULE EmployeeAccounts ---------------------------
(***************************************************************************)
(* The employee record and the login behind it: onboarding an employee,    *)
(* editing, suspending and archiving the record, and sending credentials   *)
(* again.  Every one of these handlers of EmployeesService writes two      *)
(* collections, employees and users, with no transaction around them.      *)
(*                                                                         *)
(* A handler is a call: its reads before a write are one action, each of   *)
(* its writes is another.  A call gives its name to what it makes: the     *)
(* employee record, the login and the temporary password.  A handler that  *)
(* refuses at its checks changes nothing, so it is not a step here.        *)
(* The welcome mail and the outcome noted on the record are left out.      *)
(***************************************************************************)
EXTENDS Naturals, FiniteSets, Functions

CONSTANTS
    Calls,      \* handler executions, each used for one HTTP request
    Standing,   \* logins that no onboarding made: invited users
    Emails,
    Handlers,   \* the handlers that a run may execute
    Widths,     \* how many handlers the server may run at the same time
    MaxAborts   \* bound on the calls that stop between two writes

ASSUME AccountsAssumption ==
    /\ Calls \cap Standing = {} /\ Emails # {}
    /\ Handlers \subseteq {"onboard", "update", "status", "resend", "archive"}
    /\ Widths \subseteq Nat \ {0}
    /\ MaxAborts \in Nat

Logins    == Calls \cup Standing
Passwords == Calls \cup Standing   \* each by the call, or login, it began with

\* Statuses of an employee, one for each status its login may be given.
Statuses == {"ACTIVE", "SUSPENDED", "TERMINATED"}
LoginStatuses == {"ACTIVE", "SUSPENDED", "INACTIVE"}

VARIABLES
    employee,   \* employees, by the call that onboards them
    login,      \* users, by the call that provisions them
    call,       \* the handler executions
    width       \* how many of them overlap at most, the same all along

vars == <<employee, login, call, width>>

Records == [state: {"NONE", "LIVE", "ARCHIVED"}, status: Statuses, work: Emails,
            code: Nat, login: Logins, password: Passwords]
Users == [there: BOOLEAN, email: Emails, status: LoginStatuses, deleted: BOOLEAN,
          password: Passwords]

TypeOK ==
    /\ employee \in [Calls -> Records]
    /\ login \in [Logins -> Users]
    /\ call \in [Calls -> [op: Handlers \cup {"none"},
                           at: {"new", "find", "make", "reuse", "insert", "discard",
                                "record", "login", "done", "failed", "dead"},
                           emp: Calls, work: Emails, personal: Emails, code: Nat,
                           login: Logins, made: BOOLEAN, seenActive: BOOLEAN,
                           status: Statuses]]
    /\ width \in Widths

Live(e) == employee[e].state = "LIVE"
Written(e) == employee[e].state # "NONE"
Running(c) == call[c].at \notin {"new", "done", "failed", "dead"}
Quiet == \A c \in Calls : ~Running(c)

CanStart(c, op) == /\ op \in Handlers
                   /\ call[c].at = "new"
                   /\ Cardinality({d \in Calls : Running(d)}) < width

Goto(c, at) == call' = [call EXCEPT ![c].at = at]

\* The login with an address; users have a unique index on it.
LoginOf(email) == {u \in Logins : login[u].there /\ login[u].email = email}

-----------------------------------------------------------------------------
(* createEmployee *)

\* generateUniqueEmployeeCode: one more than the highest code, archived
\* records included; the first is one.
Codes == {employee[e].code : e \in {d \in Calls : Written(d)}} \cup {0}

NextCode == 1 + CHOOSE n \in Codes : \A m \in Codes : m <= n

\* Faulty variant: a login that is already somebody's is taken over.
OwnedNever(email) == FALSE

\* The address is the login of an employee on the books.
Owned(email) == \E u \in LoginOf(email), e \in Calls :
                    ~login[u].deleted /\ Live(e) /\ employee[e].login = u

\* Code and duplicates are checked before anything is written.
OnboardCheck(c) ==
    \E work, personal \in Emails :
        /\ CanStart(c, "onboard")
        /\ ~\E e \in Calls : Live(e) /\ employee[e].work = work
        /\ ~Owned(personal)
        /\ call' = [call EXCEPT ![c] = [@ EXCEPT !.op = "onboard", !.at = "find",
                        !.emp = c, !.work = work, !.personal = personal,
                        !.code = NextCode]]
        /\ UNCHANGED <<employee, login, width>>

\* provisionUserAccount looks for a login with the address, deleted or not.
OnboardFind(c) ==
    /\ call[c].at = "find"
    /\ IF LoginOf(call[c].personal) = {}
       THEN Goto(c, "make")
       ELSE \E u \in LoginOf(call[c].personal) :
                call' = [call EXCEPT ![c] = [@ EXCEPT !.at = "reuse", !.login = u,
                                   !.seenActive = login[u].status = "ACTIVE"]]
    /\ UNCHANGED <<employee, login, width>>

\* A new login, unless another one took the address since: then the unique
\* index throws, before the try block.
OnboardMake(c) ==
    /\ call[c].at = "make"
    /\ IF LoginOf(call[c].personal) # {}
       THEN Goto(c, "failed") /\ UNCHANGED login
       ELSE /\ login' = [login EXCEPT ![c] =
                 [there |-> TRUE, email |-> call[c].personal, status |-> "ACTIVE",
                  deleted |-> FALSE, password |-> c]]
            /\ call' = [call EXCEPT ![c] = [@ EXCEPT !.at = "insert", !.login = c,
                                                     !.made = TRUE]]
    /\ UNCHANGED <<employee, width>>

\* Faulty variant: a suspended login gets the password and stays suspended.
OnboardReuseSuspended(c) ==
    LET u == call[c].login
    IN  /\ call[c].at = "reuse"
        /\ login' = [login EXCEPT ![u].password = c]
        /\ Goto(c, "insert")
        /\ UNCHANGED <<employee, width>>

\* The login found gets the new password.  Its save writes the status only if
\* it was another one when read, and throws if the document is gone.
OnboardReuse(c) ==
    LET u == call[c].login
    IN  /\ call[c].at = "reuse"
        /\ IF ~login[u].there
           THEN Goto(c, "failed") /\ UNCHANGED login
           ELSE /\ login' = [login EXCEPT ![u].password = c,
                       ![u].status = IF call[c].seenActive THEN @ ELSE "ACTIVE"]
                /\ Goto(c, "insert")
        /\ UNCHANGED <<employee, width>>

\* Work addresses and codes are unique over all records, archived or not.
Taken(k) == \E e \in Calls : /\ Written(e)
                             /\ employee[e].work = k.work \/ employee[e].code = k.code

\* Faulty variant: a login whose employee could not be written is kept.
OnboardInsertKeeps(c) ==
    /\ call[c].at = "insert"
    /\ IF Taken(call[c])
       THEN Goto(c, "failed") /\ UNCHANGED employee
       ELSE /\ employee' = [employee EXCEPT ![c] =
                 [state |-> "LIVE", status |-> "ACTIVE", work |-> call[c].work,
                  code |-> call[c].code, login |-> call[c].login, password |-> c]]
            /\ Goto(c, "done")
    /\ UNCHANGED <<login, width>>

\* The record after the login.  If the index refuses it, a login that this
\* call made is discarded.
OnboardInsert(c) ==
    /\ call[c].at = "insert"
    /\ IF Taken(call[c])
       THEN Goto(c, IF call[c].made THEN "discard" ELSE "failed") /\ UNCHANGED employee
       ELSE /\ employee' = [employee EXCEPT ![c] =
                 [state |-> "LIVE", status |-> "ACTIVE", work |-> call[c].work,
                  code |-> call[c].code, login |-> call[c].login, password |-> c]]
            /\ Goto(c, "done")
    /\ UNCHANGED <<login, width>>

OnboardDiscard(c) ==
    /\ call[c].at = "discard"
    /\ login' = [login EXCEPT ![call[c].login].there = FALSE]
    /\ Goto(c, "failed")
    /\ UNCHANGED <<employee, width>>

Onboard(c) == \/ OnboardCheck(c) \/ OnboardFind(c) \/ OnboardMake(c)
              \/ OnboardReuse(c) \/ OnboardInsert(c) \/ OnboardDiscard(c)

-----------------------------------------------------------------------------
(* Handlers on a record that is on the books: they read it, write it, and    *)
(* write the login that it named when it was read.                           *)

Begin(c, op, e, first, k) ==
    /\ CanStart(c, op) /\ Live(e)
    /\ call' = [call EXCEPT ![c] = [k EXCEPT !.op = op, !.at = first, !.emp = e,
                                             !.login = employee[e].login]]
    /\ UNCHANGED <<employee, login, width>>

\* The first write: what a handler does to the employee record it read.
WriteRecord(c, op, new) ==
    /\ call[c].at = "record" /\ call[c].op = op
    /\ employee' = [employee EXCEPT ![call[c].emp] = new]
    /\ Goto(c, "login")
    /\ UNCHANGED <<login, width>>

\* The write of the login, which does nothing if the document is gone.
WriteLogin(c, op, new, next) ==
    /\ call[c].at = "login" /\ call[c].op = op
    /\ login' = [login EXCEPT ![call[c].login] = IF @.there THEN new ELSE @]
    /\ Goto(c, next)
    /\ UNCHANGED <<employee, width>>

Record(c) == employee[call[c].emp]
Login(c)  == login[call[c].login]

\* updateEmployee, with a work address that no other record on the books has;
\* every update makes it the address of the login.
UpdateRead(c) ==
    \E e \in Calls, work \in Emails :
        /\ ~\E d \in Calls \ {e} : Live(d) /\ employee[d].work = work
        /\ Begin(c, "update", e, "record", [call[c] EXCEPT !.work = work])

UpdateRecord(c) ==
    IF \E d \in Calls \ {call[c].emp} : Written(d) /\ employee[d].work = call[c].work
    THEN /\ call[c].at = "record" /\ call[c].op = "update"
         /\ Goto(c, "failed")
         /\ UNCHANGED <<employee, login, width>>
    ELSE WriteRecord(c, "update", [Record(c) EXCEPT !.work = call[c].work])

UpdateLogin(c) ==
    IF LoginOf(call[c].work) \ {call[c].login} # {} /\ Login(c).there
    THEN /\ call[c].at = "login" /\ call[c].op = "update"
         /\ Goto(c, "failed")
         /\ UNCHANGED <<employee, login, width>>
    ELSE WriteLogin(c, "update", [Login(c) EXCEPT !.email = call[c].work], "done")

\* Faulty variant: the employee's status is copied as it is.
LoginStatusCopied(status) == status

\* Faulty variant: somebody who left may still sign in.
LoginStatusKeepsLeavers(status) == IF status = "SUSPENDED" THEN "SUSPENDED" ELSE "ACTIVE"

\* changeStatus decides whether the employee may still sign in.
LoginStatus(status) == IF status = "TERMINATED" THEN "INACTIVE" ELSE status

StatusRead(c) ==
    \E e \in Calls, s \in Statuses :
        Begin(c, "status", e, "record", [call[c] EXCEPT !.status = s])

StatusRecord(c) ==
    WriteRecord(c, "status", [Record(c) EXCEPT !.status = call[c].status])

\* Faulty variant: the login of somebody who left is removed.
StatusLoginRemoved(c) ==
    WriteLogin(c, "status", [Login(c) EXCEPT !.status = LoginStatus(call[c].status),
                                             !.there = call[c].status # "TERMINATED"], "done")

StatusLogin(c) ==
    WriteLogin(c, "status", [Login(c) EXCEPT !.status = LoginStatus(call[c].status)], "done")

\* Faulty variant: the record is archived and its login stays.
ArchiveLoginStays(c) == WriteLogin(c, "archive", Login(c), "done")

\* deleteEmployee: neither document is removed, both are marked deleted.
ArchiveRead(c) == \E e \in Calls : Begin(c, "archive", e, "record", call[c])

ArchiveRecord(c) ==
    WriteRecord(c, "archive", [Record(c) EXCEPT !.state = "ARCHIVED",
                                                !.status = "TERMINATED"])

ArchiveLogin(c) ==
    WriteLogin(c, "archive", [Login(c) EXCEPT !.deleted = TRUE, !.status = "INACTIVE"],
               "done")

\* Faulty variant: the new password is not noted on the record.
ResendLoginOnly(c) ==
    WriteLogin(c, "resend", [Login(c) EXCEPT !.password = c, !.status = "ACTIVE"], "done")

\* resendOnboardingCredentials: a new password, in the login and then in the
\* record; the login is made active whatever the status of the employee.
ResendRead(c) == \E e \in Calls : Begin(c, "resend", e, "login", call[c])

ResendLogin(c) ==
    WriteLogin(c, "resend", [Login(c) EXCEPT !.password = c, !.status = "ACTIVE"], "record")

ResendRecord(c) ==
    /\ call[c].at = "record" /\ call[c].op = "resend"
    /\ employee' = [employee EXCEPT ![call[c].emp].password = c]
    /\ Goto(c, "done")
    /\ UNCHANGED <<login, width>>

Maintain(c) == \/ UpdateRead(c)  \/ UpdateRecord(c)  \/ UpdateLogin(c)
               \/ StatusRead(c)  \/ StatusRecord(c)  \/ StatusLogin(c)
               \/ ArchiveRead(c) \/ ArchiveRecord(c) \/ ArchiveLogin(c)
               \/ ResendRead(c)  \/ ResendLogin(c)   \/ ResendRecord(c)

\* The handler has made its first write and not its last.
HalfDone(c) == \/ call[c].at \in {"insert", "discard"}
               \/ call[c].at = IF call[c].op = "resend" THEN "record" ELSE "login"

\* A database error ends a handler between two of its writes.  One that ends
\* it before the first changes nothing and is no step.
Abort(c) ==
    /\ HalfDone(c)
    /\ Cardinality({d \in Calls : call[d].at = "dead"}) < MaxAborts
    /\ Goto(c, "dead")
    /\ UNCHANGED <<employee, login, width>>

-----------------------------------------------------------------------------
AnyEmail == CHOOSE m \in Emails : TRUE

\* Invited users have a login, in use or suspended, and no employee record.
Init ==
    /\ employee = [c \in Calls |-> [state |-> "NONE", status |-> "ACTIVE",
                                    work |-> AnyEmail, code |-> 0, login |-> c,
                                    password |-> c]]
    /\ \E address \in Injection(Standing, Emails),
          status \in [Standing -> {"ACTIVE", "SUSPENDED"}] :
         login = [u \in Logins |->
           [there |-> u \in Standing, deleted |-> FALSE, password |-> u,
            email  |-> IF u \in Standing THEN address[u] ELSE AnyEmail,
            status |-> IF u \in Standing THEN status[u] ELSE "ACTIVE"]]
    /\ call = [c \in Calls |-> [op |-> "none", at |-> "new", emp |-> c,
                                work |-> AnyEmail, personal |-> AnyEmail, code |-> 0,
                                login |-> c, made |-> FALSE, seenActive |-> FALSE,
                                status |-> "ACTIVE"]]
    /\ width \in Widths

Next == \E c \in Calls : Onboard(c) \/ Maintain(c) \/ Abort(c)

Spec == Init /\ [][Next]_vars

-----------------------------------------------------------------------------
(* However the handlers interleave *)

\* "A login left behind by a failed onboarding is one nobody owns": a login
\* made by an onboarding that was answered has an employee record.
NoOrphanLogin ==
    \A c \in Calls : login[c].there /\ ~Running(c) /\ call[c].at # "dead"
                       => Written(c) /\ employee[c].login = c

\* An employee who was archived cannot sign in again with the login that the
\* archive closed: the login stays deleted whatever handlers come after it.
ArchivedSignsOut ==
    \A c \in Calls : call[c].op = "archive" /\ call[c].at = "done" /\ Login(c).there
                       => Login(c).deleted

-----------------------------------------------------------------------------
(* When handlers run one after the other, and none stops half way *)

Orderly == width = 1 /\ \A c \in Calls : call[c].at # "dead"

\* Some call ran this handler, or began to.
Used(op) == \E c \in Calls : call[c].op = op

\* The login that a record on the books names has not been discarded.
LoginExists ==
    Orderly => \A e \in Calls : Live(e) => login[employee[e].login].there

\* "An existing login that already belongs to somebody else is not ours to
\* take" (employees.service.ts:841): no two employees on the books share a
\* login, as long as no record was archived.
OneOwner ==
    Orderly /\ ~Used("archive") => \A e, d \in Calls :
        Live(e) /\ Live(d) /\ employee[e].login = employee[d].login => e = d

\* The temporary password on the record is the one that signs in, unless an
\* archived login is onboarded again.
PasswordWorks ==
    Orderly /\ ~Used("archive") /\ Quiet => \A e \in Calls :
        Live(e) => login[employee[e].login].password = employee[e].password

\* "Reflect on linked user account login eligibility" (:1179): the login of
\* somebody who is suspended or has left is not active, as long as nobody sends
\* credentials again.
LeaversLockedOut ==
    Orderly /\ ~Used("archive") /\ ~Used("resend") /\ Quiet => \A e \in Calls :
        Live(e) /\ employee[e].status # "ACTIVE" => login[employee[e].login].status # "ACTIVE"

\* "Creates or activates linked User credential" (employee-provisioning
\* .service.ts:202): an active employee can sign in, as long as no record was
\* archived.
ActiveCanSignIn ==
    Orderly /\ ~Used("archive") /\ Quiet => \A e \in Calls :
        Live(e) /\ employee[e].status = "ACTIVE"
          => LET u == login[employee[e].login]
             IN  u.there /\ ~u.deleted /\ u.status = "ACTIVE"

\* A login that was made for an employee has one, and an employee's login is
\* there and nobody else's (createEmployee, provisionUserAccount).
LoginsOwned == NoOrphanLogin /\ LoginExists /\ OneOwner

\* A login says of its employee what the record says: who may sign in, and with
\* which password (changeStatus, deleteEmployee, resendOnboardingCredentials).
LoginsFollow == ArchivedSignsOut /\ PasswordWorks /\ LeaversLockedOut /\ ActiveCanSignIn

\* "One that already existed belongs to somebody and is left exactly as it was
\* found" (:918): no login carries the password of an employee who was not
\* onboarded.
FailureLeavesLogins ==
    \A c \in Calls : call[c].op = "onboard" /\ call[c].at = "failed"
                       => \A u \in Logins : login[u].there => login[u].password # c
=============================================================================
