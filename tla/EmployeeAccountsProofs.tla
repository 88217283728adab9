------------------------- MODULE EmployeeAccountsProofs -------------------------
(***************************************************************************)
(* Proofs about EmployeeAccounts, for any number of handlers, of addresses *)
(* and of invited users, and whichever handlers are in use.                *)
(***************************************************************************)
EXTENDS EmployeeAccounts, FiniteSetTheorems, WellFoundedInduction, TLAPS

(***************************************************************************)
(* The inductive invariants                                                *)
(***************************************************************************)

\* The handlers that run; the width bounds them.
Busy == {c \in Calls : Running(c)}

WidthInv == IsFiniteSet(Busy) /\ Cardinality(Busy) <= width

\* The codes given have a highest one.
CodesInv == \E b \in Nat : \A c \in Calls : employee[c].code <= b /\ call[c].code <= b

Maintenance == {"update", "status", "resend", "archive"}

\* An onboarding makes one login, its own, before its record; every other handler
\* goes on with the login that its record names, which never changes.
Sound(c) ==
    LET k == call[c]
    IN  /\ k.at = "new" => k.op = "none"
        /\ k.at \in {"find", "make", "reuse", "insert", "discard"} => k.op = "onboard" /\ k.emp = c
        /\ k.at \in {"new", "find", "make", "reuse"} => ~k.made
        /\ k.at \in {"insert", "discard"} /\ k.made => k.login = c
        /\ k.at = "discard" => k.made
        /\ k.at \in {"record", "login"} => k.op \in Maintenance
        /\ k.op \in Maintenance => Written(k.emp) /\ employee[k.emp].login = k.login
        /\ Written(c) => k.at = "done" /\ k.op = "onboard"

\* A login that an onboarding makes is unknown to everybody else before that.
Appeared(u) == u \in Calls => call[u].at \notin {"new", "find", "make"}

LoginsInv ==
    /\ \A c \in Calls : Sound(c)
    /\ \A c \in Calls : login[c].there =>
          \/ call[c].at \in {"insert", "discard"} /\ call[c].made
          \/ call[c].at = "dead"
          \/ call[c].at = "done" /\ Written(c) /\ employee[c].login = c
    /\ \A c \in Calls : /\ call[c].login # c => Appeared(call[c].login)
                        /\ Written(c) => Appeared(employee[c].login)

\* The employee on the books who signs in with a login.
Owner(u, e) == Live(e) /\ employee[e].login = u

\* One handler at a time: the login that an onboarding works on is there, and one
\* that it may discard is nobody's.
ThereInv ==
    Orderly =>
        /\ LoginExists
        /\ \A c \in Calls : call[c].at = "insert" => login[call[c].login].there
        /\ \A c, e \in Calls :
              call[c].at \in {"insert", "discard"} /\ call[c].made => ~Owner(call[c].login, e)

\* The login that an onboarding takes over is nobody's.
Fresh(c) == \A e \in Calls : ~Owner(call[c].login, e)

\* What a handler needs of what it read: a login that is free, its status as it was
\* seen, and the first of two writes still in place when the second follows.
Ready(c) ==
    /\ call[c].at = "find" => ~Owned(call[c].personal)
    /\ call[c].at \in {"reuse", "insert"} => Fresh(c)
    /\ call[c].at = "reuse" => (call[c].seenActive <=> login[call[c].login].status = "ACTIVE")
    /\ call[c].at = "insert" => /\ login[call[c].login].password = c
                                /\ login[call[c].login].status = "ACTIVE"
    /\ call[c].at = "login" /\ call[c].op = "status" =>
          employee[call[c].emp].status = call[c].status
    /\ call[c].at = "record" /\ call[c].op = "resend" =>
          login[call[c].login].password = c

\* And while no record is archived, no two employees share a login.
NoArchive == Orderly /\ ~Used("archive")

OwnersInv ==
    /\ ~Used("archive") => /\ \A u \in Logins : ~login[u].deleted
                           /\ \A e \in Calls : Written(e) => Live(e)
    /\ NoArchive => OneOwner /\ \A c \in Calls : Ready(c)

\* The login says what the record says, but for the handler that has written one
\* of the two.
Between(op, at, e) == \E c \in Calls : call[c].op = op /\ call[c].at = at /\ call[c].emp = e

Follows(e) ==
    LET u == login[employee[e].login]
    IN  /\ u.password = employee[e].password \/ Between("resend", "record", e)
        /\ \/ employee[e].status = "ACTIVE" => u.status = "ACTIVE"
           \/ Between("status", "login", e)
        /\ \/ Used("resend")
           \/ employee[e].status # "ACTIVE" => u.status # "ACTIVE"
           \/ Between("status", "login", e)

FollowInv == NoArchive => \A e \in Calls : Live(e) => Follows(e)

(***************************************************************************)
(* Types                                                                   *)
(***************************************************************************)

Points == {"new", "find", "make", "reuse", "insert", "discard", "record", "login", "done",
           "failed", "dead"}

CallStates == [op: Handlers \cup {"none"}, at: Points, emp: Calls, work: Emails,
               personal: Emails, code: Nat, login: Logins, made: BOOLEAN,
               seenActive: BOOLEAN, status: Statuses]

LEMMA CallStatesAre ==
    CallStates = [op: Handlers \cup {"none"},
                  at: {"new", "find", "make", "reuse", "insert", "discard",
                       "record", "login", "done", "failed", "dead"},
                  emp: Calls, work: Emails, personal: Emails, code: Nat,
                  login: Logins, made: BOOLEAN, seenActive: BOOLEAN, status: Statuses]
  BY DEF CallStates, Points

LEMMA Types ==
    ASSUME TypeOK
    PROVE  /\ employee \in [Calls -> Records] /\ login \in [Logins -> Users]
           /\ call \in [Calls -> CallStates] /\ width \in Widths
           /\ width \in Nat /\ width > 0
           /\ Calls \cap Standing = {} /\ Calls \subseteq Logins
           /\ "onboard" \notin Maintenance /\ "none" \notin Maintenance
  <1>1. /\ employee \in [Calls -> Records] /\ login \in [Logins -> Users]
        /\ call \in [Calls -> CallStates] /\ width \in Widths
    BY CallStatesAre DEF TypeOK
  <1>2. width \in Nat /\ width > 0
    BY <1>1, AccountsAssumption
  <1>3. Calls \cap Standing = {} /\ Calls \subseteq Logins
    BY AccountsAssumption DEF Logins
  <1> QED
    BY <1>1, <1>2, <1>3 DEF Maintenance

\* Everything that is bounded by a natural number has a highest member.
Less == {p \in Nat \X Nat : p[1] < p[2]}

LEMMA LessWellFounded == IsWellFoundedOn(Less, Nat)
  BY NatLessThanWellFounded DEF OpToRel, Less

LEMMA Highest ==
    ASSUME NEW S, S \subseteq Nat, S # {}, NEW b \in Nat, \A m \in S : m <= b
    PROVE  \E n \in S : \A m \in S : m <= n
  <1> DEFINE T == {t \in Nat : \A m \in S : m <= t}
  <1>1. T \subseteq Nat /\ T # {}
    OBVIOUS
  <1>2. \E t \in T : \A y \in T : ~(<<y, t>> \in Less)
    <2> HIDE DEF T
    <2> QED
      BY <1>1, LessWellFounded, WFMin
  <1>3. \A x, y \in Nat : <<y, x>> \notin Less => ~(y < x)
    BY DEF Less
  <1>4. PICK t \in T : \A y \in T : ~(y < t)
    <2> HIDE DEF T
    <2> QED
      BY <1>1, <1>2, <1>3
  <1>5. t \in S
    <2> SUFFICES ASSUME t \notin S PROVE FALSE
      OBVIOUS
    <2>1. \A m \in S : m <= t - 1
      OBVIOUS
    <2>2. t - 1 \in Nat
      <3>1. PICK m \in S : TRUE
        OBVIOUS
      <3> QED
        BY <2>1, <3>1
    <2>3. t - 1 \in T
      BY <2>1, <2>2
    <2> QED
      BY <1>4, <2>2, <2>3
  <1> QED
    BY <1>5

LEMMA NextCodeGiven ==
    ASSUME TypeOK, CodesInv
    PROVE  NextCode \in Nat
  <1>1. PICK b \in Nat : \A c \in Calls : employee[c].code <= b /\ call[c].code <= b
    BY DEF CodesInv
  <1>2. \A c \in Calls : employee[c].code \in Nat
    BY Types DEF Records
  <1>3. Codes \subseteq Nat /\ Codes # {} /\ \A m \in Codes : m <= b
    BY <1>1, <1>2 DEF Codes
  <1>4. \E n \in Codes : \A m \in Codes : m <= n
    BY <1>3, Highest
  <1> DEFINE top == CHOOSE n \in Codes : \A m \in Codes : m <= n
  <1>5. top \in Codes
    BY <1>4
  <1>6. NextCode = 1 + top
    BY DEF NextCode
  <1> HIDE DEF top
  <1> QED
    BY <1>3, <1>5, <1>6

(***************************************************************************)
(* What a step does                                                        *)
(***************************************************************************)

\* The other handlers stay where they are.
Others(c) == \A d \in Calls \ {c} : call'[d] = call[d]

\* A handler goes on with what it holds.
Kept(c) ==
    /\ call'[c].op = call[c].op /\ call'[c].emp = call[c].emp
    /\ call'[c].work = call[c].work /\ call'[c].personal = call[c].personal
    /\ call'[c].code = call[c].code /\ call'[c].login = call[c].login
    /\ call'[c].made = call[c].made /\ call'[c].seenActive = call[c].seenActive
    /\ call'[c].status = call[c].status

LEMMA Moved ==
    ASSUME TypeOK, NEW c \in Calls, NEW at \in Points, Goto(c, at)
    PROVE  call' \in [Calls -> CallStates] /\ Others(c) /\ Kept(c) /\ call'[c].at = at
  <1> DEFINE k == [call[c] EXCEPT !.at = at]
  <1>1. call[c] \in CallStates
    BY Types
  <1>2. /\ k \in CallStates /\ k.at = at /\ k.op = call[c].op /\ k.emp = call[c].emp
        /\ k.work = call[c].work /\ k.personal = call[c].personal /\ k.code = call[c].code
        /\ k.login = call[c].login /\ k.made = call[c].made
        /\ k.seenActive = call[c].seenActive /\ k.status = call[c].status
    BY <1>1 DEF CallStates
  <1>3. call' = [call EXCEPT ![c] = k]
    BY DEF Goto
  <1> HIDE DEF k
  <1>4. call' \in [Calls -> CallStates] /\ Others(c) /\ call'[c] = k
    BY <1>2, <1>3, Types DEF Others
  <1> QED
    BY <1>2, <1>4 DEF Kept

\* A handler holds something new.
LEMMA Turned ==
    ASSUME TypeOK, NEW c \in Calls, NEW k \in CallStates, call' = [call EXCEPT ![c] = k]
    PROVE  call' \in [Calls -> CallStates] /\ Others(c) /\ call'[c] = k
  BY Types DEF Others

LEMMA Checked ==
    ASSUME TypeOK, CodesInv, NEW c \in Calls, OnboardCheck(c)
    PROVE  /\ call' \in [Calls -> CallStates] /\ Others(c)
           /\ CanStart(c, "onboard") /\ call[c].at = "new" /\ ~Owned(call'[c].personal)
           /\ call'[c].op = "onboard" /\ call'[c].at = "find" /\ call'[c].emp = c
           /\ call'[c].login = call[c].login /\ call'[c].made = call[c].made
           /\ call'[c].code = NextCode
           /\ UNCHANGED <<employee, login, width>>
  <1>1. PICK work \in Emails, personal \in Emails :
           /\ CanStart(c, "onboard") /\ ~Owned(personal)
           /\ call' = [call EXCEPT ![c] = [@ EXCEPT !.op = "onboard", !.at = "find",
                        !.emp = c, !.work = work, !.personal = personal, !.code = NextCode]]
    BY DEF OnboardCheck
  <1> DEFINE k == [call[c] EXCEPT !.op = "onboard", !.at = "find", !.emp = c, !.work = work,
                                  !.personal = personal, !.code = NextCode]
  <1>2. call[c] \in CallStates /\ NextCode \in Nat /\ "onboard" \in Handlers
    BY <1>1, Types, NextCodeGiven DEF CanStart
  <1>3. /\ k \in CallStates /\ k.op = "onboard" /\ k.at = "find" /\ k.emp = c
        /\ k.personal = personal /\ k.login = call[c].login /\ k.made = call[c].made
        /\ k.code = NextCode
    BY <1>2 DEF CallStates, Points
  <1>4. call' = [call EXCEPT ![c] = k]
    BY <1>1
  <1> HIDE DEF k
  <1>5. call' \in [Calls -> CallStates] /\ Others(c) /\ call'[c] = k
    BY <1>3, <1>4, Turned
  <1> QED
    BY <1>1, <1>3, <1>5 DEF OnboardCheck, CanStart

LEMMA FoundLogin ==
    ASSUME TypeOK, NEW c \in Calls, OnboardFind(c)
    PROVE  /\ call' \in [Calls -> CallStates] /\ Others(c) /\ call[c].at = "find"
           /\ UNCHANGED <<employee, login, width>>
           /\ call'[c].op = call[c].op /\ call'[c].emp = call[c].emp
           /\ call'[c].made = call[c].made /\ call'[c].code = call[c].code
           /\ \/ call'[c].at = "make" /\ call'[c].login = call[c].login
              \/ /\ call'[c].at = "reuse" /\ call'[c].login \in LoginOf(call[c].personal)
                 /\ call'[c].seenActive <=> login[call'[c].login].status = "ACTIVE"
  <1>1. CASE LoginOf(call[c].personal) = {}
    <2>1. Goto(c, "make")
      BY <1>1 DEF OnboardFind
    <2> QED
      BY <2>1, Moved DEF OnboardFind, Kept, Points
  <1>2. CASE LoginOf(call[c].personal) # {}
    <2>1. PICK u \in LoginOf(call[c].personal) :
             call' = [call EXCEPT ![c] = [@ EXCEPT !.at = "reuse", !.login = u,
                                   !.seenActive = login[u].status = "ACTIVE"]]
      BY <1>2 DEF OnboardFind
    <2> DEFINE seen == login[u].status = "ACTIVE"
               k == [call[c] EXCEPT !.at = "reuse", !.login = u, !.seenActive = seen]
    <2>2. call[c] \in CallStates /\ u \in Logins /\ seen \in BOOLEAN
      BY Types DEF LoginOf
    <2>3. call' = [call EXCEPT ![c] = k]
      BY <2>1
    <2>4. seen <=> login[u].status = "ACTIVE"
      OBVIOUS
    <2> HIDE DEF seen
    <2>5. /\ k \in CallStates /\ k.at = "reuse" /\ k.login = u /\ k.op = call[c].op
          /\ k.emp = call[c].emp /\ k.made = call[c].made /\ k.code = call[c].code
          /\ k.seenActive = seen
      BY <2>2 DEF CallStates, Points
    <2> HIDE DEF k
    <2>6. call' \in [Calls -> CallStates] /\ Others(c) /\ call'[c] = k
      BY <2>3, <2>5, Turned
    <2> QED
      BY <2>1, <2>4, <2>5, <2>6 DEF OnboardFind
  <1> QED
    BY <1>1, <1>2

\* One login is written.
Logged(u, x) ==
    /\ login' \in [Logins -> Users] /\ login'[u] = x
    /\ \A v \in Logins \ {u} : login'[v] = login[v]

LEMMA WroteLogin ==
    ASSUME TypeOK, NEW u \in Logins, NEW x \in Users, login' = [login EXCEPT ![u] = x]
    PROVE  Logged(u, x)
  BY Types DEF Logged

LEMMA MadeLogin ==
    ASSUME TypeOK, NEW c \in Calls, OnboardMake(c)
    PROVE  /\ call' \in [Calls -> CallStates] /\ Others(c) /\ call[c].at = "make"
           /\ UNCHANGED <<employee, width>>
           /\ call'[c].op = call[c].op /\ call'[c].emp = call[c].emp
           /\ call'[c].code = call[c].code
           /\ \/ call'[c].at = "failed" /\ login' = login /\ call'[c].login = call[c].login
              \/ /\ call'[c].at = "insert" /\ call'[c].login = c /\ call'[c].made
                 /\ Logged(c, [there |-> TRUE, email |-> call[c].personal, status |-> "ACTIVE",
                               deleted |-> FALSE, password |-> c])
  <1>1. CASE LoginOf(call[c].personal) # {}
    <2>1. Goto(c, "failed") /\ login' = login
      BY <1>1 DEF OnboardMake
    <2> QED
      BY <2>1, Moved DEF OnboardMake, Kept, Points
  <1>2. CASE LoginOf(call[c].personal) = {}
    <2> DEFINE x == [there |-> TRUE, email |-> call[c].personal, status |-> "ACTIVE",
                     deleted |-> FALSE, password |-> c]
               k == [call[c] EXCEPT !.at = "insert", !.login = c, !.made = TRUE]
    <2>1. call[c] \in CallStates /\ c \in Logins
      BY Types
    <2>2. x \in Users
      BY <2>1 DEF CallStates, Users, LoginStatuses, Passwords
    <2>3. /\ k \in CallStates /\ k.at = "insert" /\ k.login = c /\ k.made /\ k.op = call[c].op
          /\ k.emp = call[c].emp /\ k.code = call[c].code
      BY <2>1 DEF CallStates, Points
    <2>4. login' = [login EXCEPT ![c] = x] /\ call' = [call EXCEPT ![c] = k]
      BY <1>2 DEF OnboardMake
    <2> HIDE DEF k
    <2>5. call' \in [Calls -> CallStates] /\ Others(c) /\ call'[c] = k
      BY <2>3, <2>4, Turned
    <2>6. Logged(c, x)
      <3> HIDE DEF x
      <3> QED
        BY <2>1, <2>2, <2>4, WroteLogin
    <2> QED
      BY <2>3, <2>5, <2>6 DEF OnboardMake
  <1> QED
    BY <1>1, <1>2

LEMMA ReusedLogin ==
    ASSUME TypeOK, NEW c \in Calls, OnboardReuse(c)
    PROVE  /\ call' \in [Calls -> CallStates] /\ Others(c) /\ Kept(c)
           /\ call[c].at = "reuse" /\ call[c].login \in Logins
           /\ UNCHANGED <<employee, width>>
           /\ \/ call'[c].at = "failed" /\ login' = login
              \/ /\ call'[c].at = "insert"
                 /\ \E x \in Users :
                      /\ Logged(call[c].login, x)
                      /\ login[call[c].login].there /\ x.there
                      /\ x.deleted = login[call[c].login].deleted /\ x.password = c
                      /\ x.status = IF call[c].seenActive THEN login[call[c].login].status
                                                         ELSE "ACTIVE"
  <1>0. call[c].login \in Logins /\ c \in Passwords
    BY Types DEF CallStates, Passwords, Logins
  <1>1. CASE ~login[call[c].login].there
    <2>1. Goto(c, "failed") /\ login' = login
      BY <1>1 DEF OnboardReuse
    <2> QED
      BY <1>0, <2>1, Moved DEF OnboardReuse, Points
  <1>2. CASE login[call[c].login].there
    <2>1. PICK u \in Logins : u = call[c].login
      BY <1>0
    <2>2. login[u] \in Users
      BY Types
    <2> DEFINE s == IF call[c].seenActive THEN login[u].status ELSE "ACTIVE"
    <2>3. s \in LoginStatuses
      BY <2>2 DEF Users, LoginStatuses
    <2>4. /\ login' = [login EXCEPT ![u].password = c,
                        ![u].status = IF call[c].seenActive THEN @ ELSE "ACTIVE"]
          /\ Goto(c, "insert")
      BY <1>2, <2>1 DEF OnboardReuse
    <2> DEFINE x == [login[u] EXCEPT !.password = c, !.status = s]
    <2>5. login' = [login EXCEPT ![u] = x]
      BY <2>1, <2>2, <2>4, Types DEF Users
    <2>6. /\ x \in Users /\ x.there = login[u].there /\ x.deleted = login[u].deleted
          /\ x.password = c /\ x.status = s
      <3> HIDE DEF s
      <3> QED
        BY <1>0, <2>2, <2>3 DEF Users
    <2>7. Logged(u, x)
      <3> HIDE DEF x
      <3> QED
        BY <2>5, <2>6, WroteLogin
    <2>8. call' \in [Calls -> CallStates] /\ Others(c) /\ Kept(c) /\ call'[c].at = "insert"
      BY <2>4, Moved DEF Points
    <2>9. \E y \in Users :
            /\ Logged(u, y) /\ y.there /\ y.deleted = login[u].deleted
            /\ y.password = c /\ y.status = s
      BY <1>2, <2>1, <2>6, <2>7
    <2> QED
      BY <1>2, <2>1, <2>8, <2>9 DEF OnboardReuse
  <1> QED
    BY <1>1, <1>2

\* One record is written.
Recorded(e, x) ==
    /\ employee' \in [Calls -> Records] /\ employee'[e] = x
    /\ \A d \in Calls \ {e} : employee'[d] = employee[d]

LEMMA WroteRecord ==
    ASSUME TypeOK, NEW e \in Calls, NEW x \in Records, employee' = [employee EXCEPT ![e] = x]
    PROVE  Recorded(e, x)
  BY Types DEF Recorded

LEMMA Inserted ==
    ASSUME TypeOK, NEW c \in Calls, OnboardInsert(c)
    PROVE  /\ call' \in [Calls -> CallStates] /\ Others(c) /\ Kept(c) /\ call[c].at = "insert"
           /\ UNCHANGED <<login, width>>
           /\ \/ /\ call'[c].at = IF call[c].made THEN "discard" ELSE "failed"
                 /\ employee' = employee
              \/ /\ call'[c].at = "done"
                 /\ Recorded(c, [state |-> "LIVE", status |-> "ACTIVE", work |-> call[c].work,
                                 code |-> call[c].code, login |-> call[c].login, password |-> c])
  <1>1. CASE Taken(call[c])
    <2> DEFINE next == IF call[c].made THEN "discard" ELSE "failed"
    <2>1. Goto(c, next) /\ employee' = employee
      BY <1>1 DEF OnboardInsert
    <2>2. next \in Points
      BY DEF Points
    <2>3. call' \in [Calls -> CallStates] /\ Others(c) /\ Kept(c) /\ call'[c].at = next
      <3> HIDE DEF next
      <3> QED
        BY <2>1, <2>2, Moved
    <2> QED
      BY <2>1, <2>3 DEF OnboardInsert
  <1>2. CASE ~Taken(call[c])
    <2> DEFINE x == [state |-> "LIVE", status |-> "ACTIVE", work |-> call[c].work,
                     code |-> call[c].code, login |-> call[c].login, password |-> c]
    <2>1. employee' = [employee EXCEPT ![c] = x] /\ Goto(c, "done")
      BY <1>2 DEF OnboardInsert
    <2>2. call[c] \in CallStates
      BY Types
    <2>3. x \in Records
      BY <2>2 DEF CallStates, Records, Statuses, Passwords
    <2>4. Recorded(c, x)
      <3> HIDE DEF x
      <3> QED
        BY <2>1, <2>3, WroteRecord
    <2>5. call' \in [Calls -> CallStates] /\ Others(c) /\ Kept(c) /\ call'[c].at = "done"
      BY <2>1, Moved DEF Points
    <2> QED
      BY <2>4, <2>5 DEF OnboardInsert
  <1> QED
    BY <1>1, <1>2

LEMMA Discarded ==
    ASSUME TypeOK, NEW c \in Calls, OnboardDiscard(c)
    PROVE  /\ call' \in [Calls -> CallStates] /\ Others(c) /\ Kept(c) /\ call[c].at = "discard"
           /\ call'[c].at = "failed" /\ call[c].login \in Logins
           /\ UNCHANGED <<employee, width>>
           /\ Logged(call[c].login, [login[call[c].login] EXCEPT !.there = FALSE])
  <1>1. PICK u \in Logins : u = call[c].login
    BY Types DEF CallStates
  <1> DEFINE x == [login[u] EXCEPT !.there = FALSE]
  <1>2. login[u] \in Users
    BY Types
  <1>3. x \in Users
    BY <1>2 DEF Users
  <1>4. login' = [login EXCEPT ![u] = x] /\ Goto(c, "failed")
    BY <1>1 DEF OnboardDiscard
  <1>5. Logged(u, x)
    <2> HIDE DEF x
    <2> QED
      BY <1>3, <1>4, WroteLogin
  <1>6. call' \in [Calls -> CallStates] /\ Others(c) /\ Kept(c) /\ call'[c].at = "failed"
    BY <1>4, Moved DEF Points
  <1> QED
    BY <1>1, <1>5, <1>6 DEF OnboardDiscard

\* The four handlers on a record that is on the books.
Starts(c)       == UpdateRead(c) \/ StatusRead(c) \/ ArchiveRead(c) \/ ResendRead(c)
WritesRecord(c) == UpdateRecord(c) \/ StatusRecord(c) \/ ArchiveRecord(c) \/ ResendRecord(c)
WritesLogin(c)  == UpdateLogin(c) \/ StatusLogin(c) \/ ArchiveLogin(c) \/ ResendLogin(c)

LEMMA Steps ==
    [Next]_vars <=>
      \/ \E c \in Calls :
            \/ OnboardCheck(c) \/ OnboardFind(c) \/ OnboardMake(c) \/ OnboardReuse(c)
            \/ OnboardInsert(c) \/ OnboardDiscard(c)
            \/ Starts(c) \/ WritesRecord(c) \/ WritesLogin(c) \/ Abort(c)
      \/ UNCHANGED vars
  BY DEF Next, Onboard, Maintain, Starts, WritesRecord, WritesLogin

LEMMA Began ==
    ASSUME TypeOK, NEW c \in Calls, NEW op \in Maintenance, NEW e \in Calls,
           NEW at \in {"record", "login"}, NEW l \in CallStates, Begin(c, op, e, at, l)
    PROVE  /\ call' \in [Calls -> CallStates] /\ Others(c) /\ CanStart(c, op) /\ Live(e)
           /\ call'[c].op = op /\ call'[c].at = at /\ call'[c].emp = e
           /\ call'[c].login = employee[e].login
           /\ call'[c].code = l.code /\ call'[c].made = l.made
           /\ UNCHANGED <<employee, login, width>>
  <1> DEFINE k == [l EXCEPT !.op = op, !.at = at, !.emp = e, !.login = employee[e].login]
  <1>1. employee[e].login \in Logins /\ op \in Handlers
    BY Types DEF Records, Begin, CanStart
  <1>2. /\ k \in CallStates /\ k.op = op /\ k.at = at /\ k.emp = e /\ k.login = employee[e].login
        /\ k.code = l.code /\ k.made = l.made
    BY <1>1 DEF CallStates, Points
  <1>3. call' = [call EXCEPT ![c] = k]
    BY DEF Begin
  <1> HIDE DEF k
  <1>4. call' \in [Calls -> CallStates] /\ Others(c) /\ call'[c] = k
    BY <1>2, <1>3, Turned
  <1> QED
    BY <1>2, <1>4 DEF Begin

LEMMA Started ==
    ASSUME TypeOK, NEW c \in Calls, Starts(c)
    PROVE  /\ call' \in [Calls -> CallStates] /\ Others(c) /\ call[c].at = "new"
           /\ call'[c].op \in Maintenance /\ CanStart(c, call'[c].op)
           /\ call'[c].emp \in Calls /\ Live(call'[c].emp)
           /\ call'[c].login = employee[call'[c].emp].login
           /\ call'[c].at = IF call'[c].op = "resend" THEN "login" ELSE "record"
           /\ call'[c].code = call[c].code /\ call'[c].made = call[c].made
           /\ UNCHANGED <<employee, login, width>>
  <1>0. call[c] \in CallStates /\ {"update", "status", "archive", "resend"} \subseteq Maintenance
    BY Types DEF Maintenance
  <1>1. ASSUME NEW op \in Maintenance, NEW e \in Calls, NEW at \in {"record", "login"},
               at = (IF op = "resend" THEN "login" ELSE "record"),
               NEW l \in CallStates, l.code = call[c].code, l.made = call[c].made,
               Begin(c, op, e, at, l)
        PROVE  /\ call' \in [Calls -> CallStates] /\ Others(c) /\ call[c].at = "new"
               /\ call'[c].op \in Maintenance /\ CanStart(c, call'[c].op)
               /\ call'[c].emp \in Calls /\ Live(call'[c].emp)
               /\ call'[c].login = employee[call'[c].emp].login
               /\ call'[c].at = IF call'[c].op = "resend" THEN "login" ELSE "record"
               /\ call'[c].code = call[c].code /\ call'[c].made = call[c].made
               /\ UNCHANGED <<employee, login, width>>
    <2>1. /\ call' \in [Calls -> CallStates] /\ Others(c) /\ CanStart(c, op) /\ Live(e)
          /\ call'[c].op = op /\ call'[c].at = at /\ call'[c].emp = e
          /\ call'[c].login = employee[e].login
          /\ call'[c].code = l.code /\ call'[c].made = l.made
          /\ UNCHANGED <<employee, login, width>>
      BY <1>1, Began
    <2> QED
      BY <1>1, <2>1 DEF CanStart
  <1>2. CASE UpdateRead(c)
    <2>1. PICK e \in Calls, work \in Emails :
             Begin(c, "update", e, "record", [call[c] EXCEPT !.work = work])
      BY <1>2 DEF UpdateRead
    <2> DEFINE l == [call[c] EXCEPT !.work = work]
    <2>2. l \in CallStates /\ l.code = call[c].code /\ l.made = call[c].made
      BY <1>0 DEF CallStates
    <2>3. Begin(c, "update", e, "record", l)
      BY <2>1
    <2> HIDE DEF l
    <2> QED
      BY <1>0, <2>2, <2>3, <1>1
  <1>3. CASE StatusRead(c)
    <2>1. PICK e \in Calls, s \in Statuses :
             Begin(c, "status", e, "record", [call[c] EXCEPT !.status = s])
      BY <1>3 DEF StatusRead
    <2> DEFINE l == [call[c] EXCEPT !.status = s]
    <2>2. l \in CallStates /\ l.code = call[c].code /\ l.made = call[c].made
      BY <1>0 DEF CallStates
    <2>3. Begin(c, "status", e, "record", l)
      BY <2>1
    <2> HIDE DEF l
    <2> QED
      BY <1>0, <2>2, <2>3, <1>1
  <1>4. CASE ArchiveRead(c)
    <2>1. PICK e \in Calls : Begin(c, "archive", e, "record", call[c])
      BY <1>4 DEF ArchiveRead
    <2> QED
      BY <1>0, <2>1, <1>1
  <1>5. CASE ResendRead(c)
    <2>1. PICK e \in Calls : Begin(c, "resend", e, "login", call[c])
      BY <1>5 DEF ResendRead
    <2> QED
      BY <1>0, <2>1, <1>1
  <1> QED
    BY <1>2, <1>3, <1>4, <1>5 DEF Starts

\* What each of them writes to the record.
RecordFor(c, x) ==
    LET r == employee[call[c].emp]
    IN  /\ x.login = r.login /\ x.code = r.code
        /\ x.state = IF call[c].op = "archive" THEN "ARCHIVED" ELSE r.state
        /\ x.password = IF call[c].op = "resend" THEN c ELSE r.password
        /\ call[c].op \in {"update", "resend"} => x.status = r.status
        /\ call[c].op = "status" => x.status = call[c].status

LEMMA RecordWritten ==
    ASSUME TypeOK, NEW c \in Calls, WritesRecord(c)
    PROVE  /\ call' \in [Calls -> CallStates] /\ Others(c) /\ Kept(c)
           /\ call[c].at = "record" /\ call[c].op \in Maintenance /\ call[c].emp \in Calls
           /\ UNCHANGED <<login, width>>
           /\ \/ call'[c].at = "failed" /\ call[c].op = "update" /\ employee' = employee
              \/ /\ call'[c].at = IF call[c].op = "resend" THEN "done" ELSE "login"
                 /\ \E x \in Records : Recorded(call[c].emp, x) /\ RecordFor(c, x)
  <1>0. call[c] \in CallStates /\ call[c].emp \in Calls /\ c \in Passwords
    BY Types DEF CallStates, Passwords
  <1>1. PICK e \in Calls : e = call[c].emp
    BY <1>0
  <1>2. employee[e] \in Records /\ call[c].work \in Emails /\ call[c].status \in Statuses
    BY <1>0, Types DEF CallStates
  <1>3. ASSUME NEW x, employee' = [employee EXCEPT ![e] = x], Goto(c, "login"),
               x \in Records, RecordFor(c, x), call[c].op \in {"update", "status", "archive"},
               call[c].at = "record", UNCHANGED <<login, width>>
        PROVE  /\ call' \in [Calls -> CallStates] /\ Others(c) /\ Kept(c)
               /\ call'[c].at = "login" /\ Recorded(e, x)
    BY <1>3, Moved, WroteRecord DEF Points
  <1>4. CASE UpdateRecord(c) /\ ~WriteRecord(c, "update", [Record(c) EXCEPT !.work = call[c].work])
    <2>1. /\ Goto(c, "failed") /\ UNCHANGED <<employee, login, width>>
          /\ call[c].at = "record" /\ call[c].op = "update"
      BY <1>4 DEF UpdateRecord
    <2> QED
      BY <1>0, <2>1, Moved DEF Points, Maintenance
  <1>5. CASE WriteRecord(c, "update", [Record(c) EXCEPT !.work = call[c].work])
    <2> DEFINE x == [employee[e] EXCEPT !.work = call[c].work]
    <2>1. employee' = [employee EXCEPT ![e] = x] /\ Goto(c, "login") /\ call[c].op = "update"
          /\ call[c].at = "record" /\ UNCHANGED <<login, width>>
      BY <1>1, <1>5 DEF WriteRecord, Record
    <2>2. x \in Records /\ RecordFor(c, x)
      BY <1>1, <1>2, <2>1 DEF Records, RecordFor
    <2> HIDE DEF x
    <2> QED
      BY <1>0, <1>1, <1>3, <2>1, <2>2 DEF Maintenance
  <1>6. CASE StatusRecord(c)
    <2> DEFINE x == [employee[e] EXCEPT !.status = call[c].status]
    <2>1. employee' = [employee EXCEPT ![e] = x] /\ Goto(c, "login") /\ call[c].op = "status"
          /\ call[c].at = "record" /\ UNCHANGED <<login, width>>
      BY <1>1, <1>6 DEF StatusRecord, WriteRecord, Record
    <2>2. x \in Records /\ RecordFor(c, x)
      BY <1>1, <1>2, <2>1 DEF Records, RecordFor
    <2> HIDE DEF x
    <2> QED
      BY <1>0, <1>1, <1>3, <2>1, <2>2 DEF Maintenance
  <1>7. CASE ArchiveRecord(c)
    <2> DEFINE x == [employee[e] EXCEPT !.state = "ARCHIVED", !.status = "TERMINATED"]
    <2>1. employee' = [employee EXCEPT ![e] = x] /\ Goto(c, "login") /\ call[c].op = "archive"
          /\ call[c].at = "record" /\ UNCHANGED <<login, width>>
      BY <1>1, <1>7 DEF ArchiveRecord, WriteRecord, Record
    <2>2. x \in Records /\ RecordFor(c, x)
      BY <1>1, <1>2, <2>1 DEF Records, RecordFor, Statuses
    <2> HIDE DEF x
    <2> QED
      BY <1>0, <1>1, <1>3, <2>1, <2>2 DEF Maintenance
  <1>8. CASE ResendRecord(c)
    <2> DEFINE x == [employee[e] EXCEPT !.password = c]
    <2>1. employee' = [employee EXCEPT ![e] = x] /\ Goto(c, "done") /\ call[c].op = "resend"
          /\ call[c].at = "record" /\ UNCHANGED <<login, width>>
      BY <1>1, <1>8 DEF ResendRecord
    <2>2. x \in Records /\ RecordFor(c, x)
      BY <1>0, <1>1, <1>2, <2>1 DEF Records, RecordFor
    <2> HIDE DEF x
    <2>3. Recorded(e, x)
      BY <2>1, <2>2, WroteRecord
    <2>4. call' \in [Calls -> CallStates] /\ Others(c) /\ Kept(c) /\ call'[c].at = "done"
      BY <2>1, Moved DEF Points
    <2> QED
      BY <1>0, <1>1, <2>1, <2>2, <2>3, <2>4 DEF Maintenance
  <1> QED
    BY <1>4, <1>5, <1>6, <1>7, <1>8 DEF WritesRecord

\* What each of them writes to a login that is there.
LoginFor(c, x) ==
    LET u == login[call[c].login]
    IN  /\ x.there = u.there
        /\ ~u.there => x = u
        /\ u.there =>
             /\ x.deleted = IF call[c].op = "archive" THEN TRUE ELSE u.deleted
             /\ x.password = IF call[c].op = "resend" THEN c ELSE u.password
             /\ call[c].op = "update" => x.status = u.status
             /\ call[c].op = "status" => x.status = LoginStatus(call[c].status)
             /\ call[c].op = "resend" => x.status = "ACTIVE"

LEMMA LoginWritten ==
    ASSUME TypeOK, NEW c \in Calls, WritesLogin(c)
    PROVE  /\ call' \in [Calls -> CallStates] /\ Others(c) /\ Kept(c)
           /\ call[c].at = "login" /\ call[c].op \in Maintenance /\ call[c].login \in Logins
           /\ UNCHANGED <<employee, width>>
           /\ \/ call'[c].at = "failed" /\ call[c].op = "update" /\ login' = login
              \/ /\ call'[c].at = IF call[c].op = "resend" THEN "record" ELSE "done"
                 /\ \E x \in Users : Logged(call[c].login, x) /\ LoginFor(c, x)
  <1>0. call[c] \in CallStates /\ call[c].login \in Logins /\ c \in Passwords
    BY Types DEF CallStates, Passwords
  <1>1. PICK u \in Logins : u = call[c].login
    BY <1>0
  <1>2. login[u] \in Users /\ call[c].work \in Emails /\ call[c].status \in Statuses
    BY <1>0, Types DEF CallStates
  <1>3. ASSUME NEW op \in Maintenance, NEW next \in Points, NEW new \in Users,
               next = (IF op = "resend" THEN "record" ELSE "done"),
               WriteLogin(c, op, new, next),
               call[c].op = op /\ login[u].there => LoginFor(c, new)
        PROVE  /\ call' \in [Calls -> CallStates] /\ Others(c) /\ Kept(c)
               /\ call[c].at = "login" /\ call[c].op = op /\ call'[c].at = next
               /\ UNCHANGED <<employee, width>>
               /\ \E x \in Users : Logged(u, x) /\ LoginFor(c, x)
    <2> DEFINE x == IF login[u].there THEN new ELSE login[u]
    <2>1. login' = [login EXCEPT ![u] = x] /\ Goto(c, next) /\ call[c].op = op
          /\ call[c].at = "login" /\ UNCHANGED <<employee, width>>
      BY <1>1, <1>3 DEF WriteLogin
    <2>2. x \in Users
      BY <1>2
    <2>3. LoginFor(c, x)
      BY <1>1, <1>3, <2>1 DEF LoginFor
    <2> HIDE DEF x
    <2>4. Logged(u, x)
      BY <2>1, <2>2, WroteLogin
    <2>5. call' \in [Calls -> CallStates] /\ Others(c) /\ Kept(c) /\ call'[c].at = next
      BY <2>1, Moved
    <2> QED
      BY <2>1, <2>2, <2>3, <2>4, <2>5
  <1>4. CASE UpdateLogin(c) /\ ~WriteLogin(c, "update", [Login(c) EXCEPT !.email = call[c].work], "done")
    <2>1. /\ Goto(c, "failed") /\ UNCHANGED <<employee, login, width>>
          /\ call[c].at = "login" /\ call[c].op = "update"
      BY <1>4 DEF UpdateLogin
    <2> QED
      BY <1>0, <2>1, Moved DEF Points, Maintenance
  <1>5. CASE WriteLogin(c, "update", [Login(c) EXCEPT !.email = call[c].work], "done")
    <2> DEFINE new == [login[u] EXCEPT !.email = call[c].work]
    <2>1. WriteLogin(c, "update", new, "done")
      BY <1>1, <1>5 DEF Login
    <2>2. new \in Users /\ (call[c].op = "update" /\ login[u].there => LoginFor(c, new))
      BY <1>1, <1>2 DEF Users, LoginFor
    <2> HIDE DEF new
    <2> QED
      BY <1>1, <1>3, <2>1, <2>2 DEF Maintenance, Points
  <1>6. CASE StatusLogin(c)
    <2> DEFINE new == [login[u] EXCEPT !.status = LoginStatus(call[c].status)]
    <2>1. WriteLogin(c, "status", new, "done")
      BY <1>1, <1>6 DEF StatusLogin, Login
    <2>2. LoginStatus(call[c].status) \in LoginStatuses
      BY <1>2 DEF LoginStatus, Statuses, LoginStatuses
    <2>3. new \in Users /\ (call[c].op = "status" /\ login[u].there => LoginFor(c, new))
      BY <1>1, <1>2, <2>2 DEF Users, LoginFor
    <2> HIDE DEF new
    <2> QED
      BY <1>1, <1>3, <2>1, <2>3 DEF Maintenance, Points
  <1>7. CASE ArchiveLogin(c)
    <2> DEFINE new == [login[u] EXCEPT !.deleted = TRUE, !.status = "INACTIVE"]
    <2>1. WriteLogin(c, "archive", new, "done")
      BY <1>1, <1>7 DEF ArchiveLogin, Login
    <2>2. new \in Users /\ (call[c].op = "archive" /\ login[u].there => LoginFor(c, new))
      BY <1>1, <1>2 DEF Users, LoginFor, LoginStatuses
    <2> HIDE DEF new
    <2> QED
      BY <1>1, <1>3, <2>1, <2>2 DEF Maintenance, Points
  <1>8. CASE ResendLogin(c)
    <2> DEFINE new == [login[u] EXCEPT !.password = c, !.status = "ACTIVE"]
    <2>1. WriteLogin(c, "resend", new, "record")
      BY <1>1, <1>8 DEF ResendLogin, Login
    <2>2. new \in Users /\ (call[c].op = "resend" /\ login[u].there => LoginFor(c, new))
      BY <1>0, <1>1, <1>2 DEF Users, LoginFor, LoginStatuses
    <2> HIDE DEF new
    <2> QED
      BY <1>1, <1>3, <2>1, <2>2 DEF Maintenance, Points
  <1> QED
    BY <1>4, <1>5, <1>6, <1>7, <1>8 DEF WritesLogin, UpdateLogin

LEMMA Aborted ==
    ASSUME TypeOK, NEW c \in Calls, Abort(c)
    PROVE  /\ call' \in [Calls -> CallStates] /\ Others(c) /\ Kept(c)
           /\ call[c].at \in {"insert", "discard", "record", "login"} /\ call'[c].at = "dead"
           /\ UNCHANGED <<employee, login, width>>
  <1>1. Goto(c, "dead") /\ HalfDone(c) /\ UNCHANGED <<employee, login, width>>
    BY DEF Abort
  <1> QED
    BY <1>1, Moved DEF HalfDone, Points

(***************************************************************************)
(* Type correctness                                                        *)
(***************************************************************************)

LEMMA TypeInit == Init => TypeOK
  <1> SUFFICES ASSUME Init PROVE TypeOK
    OBVIOUS
  <1>1. AnyEmail \in Emails
    BY AccountsAssumption DEF AnyEmail
  <1>2. employee \in [Calls -> Records]
    <2> DEFINE r(c) == [state |-> "NONE", status |-> "ACTIVE", work |-> AnyEmail, code |-> 0,
                        login |-> c, password |-> c]
    <2>1. \A c \in Calls : r(c) \in Records
      BY <1>1 DEF Records, Statuses, Logins, Passwords
    <2>2. employee = [c \in Calls |-> r(c)]
      BY DEF Init
    <2> HIDE DEF r
    <2> QED
      BY <2>1, <2>2
  <1>3. login \in [Logins -> Users]
    <2>1. PICK address \in Injection(Standing, Emails), status \in [Standing -> {"ACTIVE", "SUSPENDED"}] :
             login = [u \in Logins |->
               [there |-> u \in Standing, deleted |-> FALSE, password |-> u,
                email  |-> IF u \in Standing THEN address[u] ELSE AnyEmail,
                status |-> IF u \in Standing THEN status[u] ELSE "ACTIVE"]]
      BY DEF Init
    <2> DEFINE m(u) == IF u \in Standing THEN address[u] ELSE AnyEmail
               s(u) == IF u \in Standing THEN status[u] ELSE "ACTIVE"
               t(u) == u \in Standing
               r(u) == [there |-> t(u), deleted |-> FALSE, password |-> u, email |-> m(u),
                        status |-> s(u)]
    <2>2. address \in [Standing -> Emails]
      BY DEF Injection
    <2>3. \A u \in Logins : m(u) \in Emails /\ s(u) \in LoginStatuses /\ t(u) \in BOOLEAN
      BY <1>1, <2>2 DEF LoginStatuses
    <2>4. login = [u \in Logins |-> r(u)]
      BY <2>1
    <2> HIDE DEF m, s, t
    <2>5. \A u \in Logins : r(u) \in Users
      BY <2>3 DEF Users, Logins, Passwords
    <2> HIDE DEF r
    <2> QED
      BY <2>4, <2>5
  <1>4. call \in [Calls -> CallStates]
    <2> DEFINE r(c) == [op |-> "none", at |-> "new", emp |-> c, work |-> AnyEmail,
                        personal |-> AnyEmail, code |-> 0, login |-> c, made |-> FALSE,
                        seenActive |-> FALSE, status |-> "ACTIVE"]
    <2>1. \A c \in Calls : r(c) \in CallStates
      BY <1>1 DEF CallStates, Points, Statuses, Logins
    <2>2. call = [c \in Calls |-> r(c)]
      BY DEF Init
    <2> HIDE DEF r
    <2> QED
      BY <2>1, <2>2
  <1>5. width \in Widths
    BY DEF Init
  <1> QED
    BY <1>2, <1>3, <1>4, <1>5, CallStatesAre DEF TypeOK

LEMMA TypeStep ==
    ASSUME TypeOK, CodesInv, [Next]_vars
    PROVE  TypeOK'
  <1>0. /\ employee \in [Calls -> Records] /\ login \in [Logins -> Users]
        /\ call \in [Calls -> CallStates] /\ width \in Widths
    BY Types
  <1>1. ASSUME employee' \in [Calls -> Records], login' \in [Logins -> Users],
               call' \in [Calls -> CallStates], width' \in Widths
        PROVE  TypeOK'
    BY <1>1, CallStatesAre DEF TypeOK
  <1>2. ASSUME NEW c \in Calls, OnboardCheck(c) PROVE TypeOK'
    BY <1>0, <1>1, <1>2, Checked
  <1>3. ASSUME NEW c \in Calls, OnboardFind(c) PROVE TypeOK'
    BY <1>0, <1>1, <1>3, FoundLogin
  <1>4. ASSUME NEW c \in Calls, OnboardMake(c) PROVE TypeOK'
    <2>1. call' \in [Calls -> CallStates] /\ employee' = employee /\ width' = width
      BY <1>4, MadeLogin
    <2>2. login' \in [Logins -> Users]
      BY <1>0, <1>4, MadeLogin DEF Logged
    <2> QED
      BY <1>0, <1>1, <2>1, <2>2
  <1>5. ASSUME NEW c \in Calls, OnboardReuse(c) PROVE TypeOK'
    BY <1>0, <1>1, <1>5, ReusedLogin DEF Logged
  <1>6. ASSUME NEW c \in Calls, OnboardInsert(c) PROVE TypeOK'
    BY <1>0, <1>1, <1>6, Inserted DEF Recorded
  <1>7. ASSUME NEW c \in Calls, OnboardDiscard(c) PROVE TypeOK'
    BY <1>0, <1>1, <1>7, Discarded DEF Logged
  <1>8. ASSUME NEW c \in Calls, Starts(c) PROVE TypeOK'
    BY <1>0, <1>1, <1>8, Started
  <1>9. ASSUME NEW c \in Calls, WritesRecord(c) PROVE TypeOK'
    BY <1>0, <1>1, <1>9, RecordWritten DEF Recorded
  <1>10. ASSUME NEW c \in Calls, WritesLogin(c) PROVE TypeOK'
    BY <1>0, <1>1, <1>10, LoginWritten DEF Logged
  <1>11. ASSUME NEW c \in Calls, Abort(c) PROVE TypeOK'
    BY <1>0, <1>1, <1>11, Aborted
  <1>12. CASE UNCHANGED vars
    BY <1>0, <1>1, <1>12 DEF vars
  <1> QED
    BY <1>2, <1>3, <1>4, <1>5, <1>6, <1>7, <1>8, <1>9, <1>10, <1>11, <1>12, Steps

(***************************************************************************)
(* The handlers at work                                                    *)
(***************************************************************************)

Starting(c) == OnboardCheck(c) \/ Starts(c)
GoingOn(c)  == \/ OnboardFind(c) \/ OnboardMake(c) \/ OnboardReuse(c) \/ OnboardInsert(c)
               \/ OnboardDiscard(c) \/ WritesRecord(c) \/ WritesLogin(c) \/ Abort(c)
Step(c)     == Starting(c) \/ GoingOn(c)

LEMMA StepsAre == [Next]_vars <=> (\E c \in Calls : Step(c)) \/ UNCHANGED vars
  BY Steps DEF Step, Starting, GoingOn

\* Where each step begins, and the steps that leave the login of the handler alone.
LEMMA From ==
    ASSUME TypeOK, CodesInv, NEW c \in Calls
    PROVE  /\ Starting(c) => call[c].at = "new"
           /\ OnboardFind(c) => call[c].at = "find"
           /\ OnboardMake(c) => call[c].at = "make"
           /\ OnboardReuse(c) => call[c].at = "reuse" /\ Kept(c)
           /\ OnboardInsert(c) => call[c].at = "insert" /\ Kept(c)
           /\ OnboardDiscard(c) => call[c].at = "discard" /\ Kept(c)
           /\ WritesRecord(c) => call[c].at = "record" /\ Kept(c)
           /\ WritesLogin(c) => call[c].at = "login" /\ Kept(c)
           /\ Abort(c) => /\ call[c].at \in {"insert", "discard", "record", "login"} /\ Kept(c)
                          /\ call'[c].at = "dead"
  <1>1. Starting(c) => call[c].at = "new"
    BY Checked, Started DEF Starting
  <1>2. OnboardFind(c) => call[c].at = "find"
    BY FoundLogin
  <1>3. OnboardMake(c) => call[c].at = "make"
    BY MadeLogin
  <1>4. OnboardReuse(c) => call[c].at = "reuse" /\ Kept(c)
    BY ReusedLogin
  <1>5. OnboardInsert(c) => call[c].at = "insert" /\ Kept(c)
    BY Inserted
  <1>6. OnboardDiscard(c) => call[c].at = "discard" /\ Kept(c)
    BY Discarded
  <1>7. WritesRecord(c) => call[c].at = "record" /\ Kept(c)
    BY RecordWritten
  <1>8. WritesLogin(c) => call[c].at = "login" /\ Kept(c)
    BY LoginWritten
  <1>9. Abort(c) => /\ call[c].at \in {"insert", "discard", "record", "login"} /\ Kept(c)
                    /\ call'[c].at = "dead"
    BY Aborted
  <1> QED
    BY <1>1, <1>2, <1>3, <1>4, <1>5, <1>6, <1>7, <1>8, <1>9

\* Where each step leads.
LEMMA Leads ==
    ASSUME TypeOK, CodesInv, NEW c \in Calls
    PROVE  /\ Starting(c) => call'[c].at \in {"find", "record", "login"}
           /\ OnboardFind(c) => call'[c].at \in {"make", "reuse"}
           /\ OnboardDiscard(c) => call'[c].at = "failed"
           /\ WritesRecord(c) => call'[c].at \in {"failed", "done", "login"}
           /\ WritesLogin(c) => call'[c].at \in {"failed", "done", "record"}
  <1>1. Starting(c) => call'[c].at \in {"find", "record", "login"}
    BY Checked, Started DEF Starting
  <1>2. OnboardFind(c) => call'[c].at \in {"make", "reuse"}
    BY FoundLogin
  <1>3. OnboardDiscard(c) => call'[c].at = "failed"
    BY Discarded
  <1>4. WritesRecord(c) => call'[c].at \in {"failed", "done", "login"}
    BY RecordWritten
  <1>5. WritesLogin(c) => call'[c].at \in {"failed", "done", "record"}
    BY LoginWritten
  <1> QED
    BY <1>1, <1>2, <1>3, <1>4, <1>5

\* The steps that write a record, and those that write a login.
LEMMA Writers ==
    ASSUME TypeOK, CodesInv, NEW c \in Calls, Step(c)
    PROVE  /\ employee' = employee \/ OnboardInsert(c) \/ WritesRecord(c)
           /\ \/ login' = login \/ OnboardMake(c) \/ OnboardReuse(c) \/ OnboardDiscard(c)
              \/ WritesLogin(c)
  <1>1. CASE Starting(c)
    BY <1>1, Checked, Started DEF Starting
  <1>2. CASE OnboardFind(c) \/ OnboardInsert(c)
    BY <1>2, FoundLogin, Inserted
  <1>3. CASE OnboardMake(c) \/ OnboardReuse(c) \/ OnboardDiscard(c)
    BY <1>3, MadeLogin, ReusedLogin, Discarded
  <1>4. CASE WritesRecord(c) \/ WritesLogin(c)
    BY <1>4, RecordWritten, LoginWritten
  <1>5. CASE Abort(c)
    BY <1>5, Aborted
  <1> QED
    BY <1>1, <1>2, <1>3, <1>4, <1>5 DEF Step, GoingOn

\* Where a handler is before and after a step of it.
LEMMA Places ==
    ASSUME TypeOK, CodesInv, NEW c \in Calls
    PROVE  /\ Starting(c) => /\ Others(c) /\ width' = width /\ Running(c)' /\ ~Running(c)
                             /\ Cardinality(Busy) < width /\ call[c].at = "new"
                             /\ call'[c].at \in {"find", "login", "record"}
           /\ GoingOn(c) => /\ Others(c) /\ width' = width /\ Running(c)
                            /\ call[c].at \notin {"new", "done", "failed", "dead"}
                            /\ call[c].at # "find" => call'[c].at # "make"
                            /\ call'[c].at \notin {"new", "find"}
                            /\ call'[c].op = call[c].op /\ call'[c].emp = call[c].emp
                            /\ call'[c].code = call[c].code
  <1>1. CASE Starting(c)
    <2>1. ~GoingOn(c)
      BY <1>1, From DEF GoingOn
    <2>2. CASE OnboardCheck(c)
      BY <2>1, <2>2, Checked DEF CanStart, Running, Busy
    <2>3. CASE Starts(c)
      <3>1. Cardinality(Busy) < width /\ call[c].at = "new" /\ width' = width /\ Others(c)
        BY <2>3, Started DEF CanStart, Busy
      <3>2. call'[c].at \in {"login", "record"}
        BY <2>3, Started
      <3> QED
        BY <2>1, <3>1, <3>2 DEF Running
    <2> QED
      BY <1>1, <2>2, <2>3 DEF Starting
  <1>2. CASE GoingOn(c)
    <2>0. ~Starting(c)
      BY <1>2, From DEF GoingOn
    <2>1. CASE OnboardFind(c)
      BY <2>0, <2>1, FoundLogin DEF Running
    <2>2. CASE OnboardMake(c)
      BY <2>0, <2>2, MadeLogin DEF Running
    <2>3. CASE OnboardReuse(c)
      BY <2>0, <2>3, ReusedLogin DEF Running, Kept
    <2>4. CASE OnboardInsert(c)
      BY <2>0, <2>4, Inserted DEF Running, Kept
    <2>5. CASE OnboardDiscard(c)
      BY <2>0, <2>5, Discarded DEF Running, Kept
    <2>6. CASE WritesRecord(c)
      BY <2>0, <2>6, RecordWritten DEF Running, Kept
    <2>7. CASE WritesLogin(c)
      BY <2>0, <2>7, LoginWritten DEF Running, Kept
    <2>8. CASE Abort(c)
      BY <2>0, <2>8, Aborted DEF Running, Kept
    <2> QED
      BY <1>2, <2>1, <2>2, <2>3, <2>4, <2>5, <2>6, <2>7, <2>8 DEF GoingOn
  <1> QED
    BY <1>1, <1>2

LEMMA WidthStep ==
    ASSUME TypeOK, CodesInv, WidthInv, [Next]_vars
    PROVE  WidthInv'
  <1>0. IsFiniteSet(Busy) /\ Cardinality(Busy) \in Nat /\ width \in Nat
    BY Types, FS_CardinalityType DEF WidthInv
  <1>1. ASSUME NEW c \in Calls, Starting(c) PROVE WidthInv'
    <2>1. /\ Others(c) /\ width' = width /\ Running(c)' /\ ~Running(c)
          /\ Cardinality(Busy) < width
      BY <1>1, Places
    <2>2. Busy' = Busy \cup {c} /\ c \notin Busy
      BY <2>1 DEF Busy, Running, Others
    <2>3. IsFiniteSet(Busy \cup {c}) /\ Cardinality(Busy \cup {c}) = Cardinality(Busy) + 1
      BY <1>0, <2>2, FS_AddElement
    <2> QED
      BY <1>0, <2>1, <2>2, <2>3 DEF WidthInv
  <1>2. ASSUME NEW c \in Calls, GoingOn(c) PROVE WidthInv'
    <2>1. Others(c) /\ width' = width /\ Running(c)
      BY <1>2, Places
    <2>2. Busy' \in SUBSET Busy
      BY <2>1 DEF Busy, Running, Others
    <2>3. IsFiniteSet(Busy') /\ Cardinality(Busy') <= Cardinality(Busy) /\ Cardinality(Busy') \in Nat
      BY <1>0, <2>2, FS_Subset, FS_CardinalityType
    <2> QED
      BY <1>0, <2>1, <2>3 DEF WidthInv
  <1>3. CASE UNCHANGED vars
    BY <1>3 DEF vars, WidthInv, Busy, Running
  <1> QED
    BY <1>1, <1>2, <1>3, StepsAre DEF Step

\* The records a step may write.
LEMMA RecordsStay ==
    ASSUME TypeOK, CodesInv, LoginsInv, NEW c \in Calls, Step(c)
    PROVE  /\ \A e \in Calls : Written(e) =>
                 /\ employee'[e].state # "NONE" /\ employee'[e].login = employee[e].login
                 /\ employee'[e].code = employee[e].code
           /\ \A e \in Calls : ~Written(e) =>
                 \/ employee'[e] = employee[e]
                 \/ /\ e = c /\ call[c].at = "insert" /\ call'[c].at = "done"
                    /\ employee'[e].login = call[c].login /\ employee'[e].code = call[c].code
  <1>0. Sound(c)
    BY DEF LoginsInv
  <1>1. CASE employee' = employee
    BY <1>1 DEF Written
  <1>2. CASE OnboardInsert(c) /\ employee' # employee
    <2> DEFINE x == [state |-> "LIVE", status |-> "ACTIVE", work |-> call[c].work,
                     code |-> call[c].code, login |-> call[c].login, password |-> c]
    <2>1. Recorded(c, x) /\ call'[c].at = "done" /\ call[c].at = "insert"
      BY <1>2, Inserted
    <2>2. x.login = call[c].login /\ x.code = call[c].code
      OBVIOUS
    <2>3. ~Written(c)
      BY <1>0, <2>1 DEF Sound
    <2> HIDE DEF x
    <2> QED
      BY <2>1, <2>2, <2>3 DEF Recorded, Written
  <1>3. CASE WritesRecord(c) /\ employee' # employee
    <2>1. PICK x \in Records : Recorded(call[c].emp, x) /\ RecordFor(c, x)
      BY <1>3, RecordWritten
    <2>2. PICK e \in Calls : e = call[c].emp
      BY <1>3, RecordWritten
    <2>3. call[c].op \in Maintenance
      BY <1>3, RecordWritten
    <2>4. Written(e)
      BY <1>0, <2>2, <2>3 DEF Sound
    <2>5. x.state # "NONE" /\ x.login = employee[e].login /\ x.code = employee[e].code
      BY <2>1, <2>2, <2>4 DEF RecordFor, Written
    <2> QED
      BY <2>1, <2>2, <2>4, <2>5 DEF Recorded, Written
  <1> QED
    BY <1>1, <1>2, <1>3, Writers

LEMMA CodesStep ==
    ASSUME TypeOK, CodesInv, LoginsInv, [Next]_vars
    PROVE  CodesInv'
  <1>0. /\ \A c \in Calls : employee[c].code \in Nat /\ call[c].code \in Nat
        /\ NextCode \in Nat
    BY Types, NextCodeGiven DEF Records, CallStates
  <1>1. PICK b \in Nat : \A c \in Calls : employee[c].code <= b /\ call[c].code <= b
    BY DEF CodesInv
  <1>2. ASSUME NEW c \in Calls, Step(c) PROVE CodesInv'
    <2>1. \A d \in Calls : \/ employee'[d].code = employee[d].code
                           \/ employee'[d].code = call[c].code
      BY <1>2, RecordsStay
    <2>2. Others(c) /\ (call'[c].code = call[c].code \/ call'[c].code = NextCode)
      BY <1>2, Places, Checked, Started DEF Step, Starting
    <2>3. \A d \in Calls : \/ call'[d].code = call[d].code
                           \/ call'[d].code = NextCode
      BY <2>2 DEF Others
    <2> DEFINE n == b + NextCode
    <2>4. n \in Nat /\ b <= n /\ NextCode <= n
      BY <1>0
    <2> HIDE DEF n
    <2>5. \A d \in Calls : employee'[d].code <= n /\ call'[d].code <= n
      BY <1>0, <1>1, <2>1, <2>3, <2>4
    <2> QED
      BY <2>4, <2>5 DEF CodesInv
  <1>3. CASE UNCHANGED vars
    BY <1>3 DEF vars, CodesInv
  <1> QED
    BY <1>2, <1>3, StepsAre

(***************************************************************************)
(* Logins, however the handlers interleave                                 *)
(***************************************************************************)

\* The logins a step may write: what becomes there, stays there, or is deleted.
LEMMA LoginsStay ==
    ASSUME TypeOK, CodesInv, LoginsInv, NEW c \in Calls, Step(c)
    PROVE  \A u \in Logins :
             \/ login'[u] = login[u]
             \/ u = c /\ call[c].at = "make" /\ call'[c].at = "insert" /\ call'[c].made
             \/ u = c /\ call[c].at = "discard" /\ ~login'[u].there
             \/ u = call[c].login /\ login'[u].there /\ login[u].there
                /\ (login[u].deleted => login'[u].deleted)
  <1>0. Sound(c)
    BY DEF LoginsInv
  <1>1. CASE login' = login
    BY <1>1
  <1>2. CASE OnboardMake(c) /\ login' # login
    <2>1. /\ call[c].at = "make" /\ call'[c].at = "insert" /\ call'[c].made
          /\ \A v \in Logins \ {c} : login'[v] = login[v]
      BY <1>2, MadeLogin DEF Logged
    <2> QED
      BY <2>1
  <1>3. CASE OnboardReuse(c) /\ login' # login
    <2>1. PICK u \in Logins : u = call[c].login
      BY <1>3, ReusedLogin
    <2>2. PICK x \in Users : Logged(call[c].login, x) /\ login[call[c].login].there /\ x.there
                             /\ x.deleted = login[call[c].login].deleted
      BY <1>3, ReusedLogin
    <2> QED
      BY <2>1, <2>2 DEF Logged
  <1>4. CASE OnboardDiscard(c)
    <2>1. call[c].login = c /\ call[c].at = "discard"
      BY <1>0, <1>4, Discarded DEF Sound
    <2>2. Logged(c, [login[c] EXCEPT !.there = FALSE])
      BY <1>4, <2>1, Discarded
    <2>3. login[c] \in Users
      BY Types
    <2>4. ~login'[c].there
      BY <2>2, <2>3 DEF Logged, Users
    <2> QED
      BY <2>1, <2>2, <2>4 DEF Logged
  <1>5. CASE WritesLogin(c) /\ login' # login
    <2>1. PICK u \in Logins : u = call[c].login
      BY <1>5, LoginWritten
    <2>2. PICK x \in Users : Logged(call[c].login, x) /\ LoginFor(c, x)
      BY <1>5, LoginWritten
    <2>3. login'[u] = x /\ \A v \in Logins \ {u} : login'[v] = login[v]
      BY <2>1, <2>2 DEF Logged
    <2>4. CASE ~login[u].there
      BY <2>1, <2>2, <2>3, <2>4 DEF LoginFor
    <2>5. CASE login[u].there
      BY <2>1, <2>2, <2>3, <2>5 DEF LoginFor
    <2> QED
      BY <2>4, <2>5
  <1> QED
    BY <1>1, <1>2, <1>3, <1>4, <1>5, Writers

\* What was sound for another handler stays so.
LEMMA SoundOthers ==
    ASSUME TypeOK, CodesInv, LoginsInv, NEW c \in Calls, Step(c), NEW d \in Calls \ {c}
    PROVE  Sound(d)'
  <1>1. Sound(d) /\ call'[d] = call[d]
    BY Places DEF LoginsInv, Step, Others
  <1>2. call[d].emp \in Calls
    BY Types DEF CallStates
  <1>3. call[d].op \in Maintenance => /\ employee'[call[d].emp].state # "NONE"
                                      /\ employee'[call[d].emp].login = call[d].login
    BY <1>1, <1>2, RecordsStay DEF Sound
  <1>4. employee'[d].state # "NONE" => Written(d)
    BY RecordsStay DEF Written
  <1> QED
    BY <1>1, <1>3, <1>4 DEF Sound, Written

LEMMA SoundSelf ==
    ASSUME TypeOK, CodesInv, LoginsInv, NEW c \in Calls, Step(c)
    PROVE  Sound(c)'
  <1>0. Sound(c) /\ "onboard" \notin Maintenance /\ "none" \notin Maintenance
    BY Types DEF LoginsInv
  <1>1. /\ call[c].at \notin {"done", "failed", "dead"}
        /\ ~Written(c)
        /\ employee'[c].state # "NONE" => call[c].at = "insert" /\ call'[c].at = "done"
    <2>1. call[c].at \notin {"done", "failed", "dead"}
      BY Places DEF Step
    <2>2. ~Written(c)
      BY <1>0, <2>1 DEF Sound
    <2> QED
      BY <2>1, <2>2, RecordsStay DEF Written
  <1>2. CASE OnboardCheck(c)
    BY <1>0, <1>1, <1>2, Checked DEF Sound, Written
  <1>3. CASE Starts(c)
    <2>1. /\ call'[c].op \in Maintenance /\ call'[c].at \in {"login", "record"}
          /\ Live(call'[c].emp) /\ call'[c].login = employee[call'[c].emp].login
          /\ employee' = employee /\ call[c].at = "new"
      BY <1>3, Started
    <2> QED
      BY <1>0, <1>1, <2>1 DEF Sound, Written, Live
  <1>4. CASE GoingOn(c)
    <2>0. /\ call'[c].op = call[c].op /\ call'[c].emp = call[c].emp
          /\ call'[c].at \notin {"new", "find"}
      BY <1>4, Places
    <2>1. CASE OnboardFind(c)
      BY <1>0, <1>1, <2>0, <2>1, FoundLogin DEF Sound, Written
    <2>2. CASE OnboardMake(c)
      BY <1>0, <1>1, <2>0, <2>2, MadeLogin DEF Sound, Written
    <2>3. CASE OnboardReuse(c)
      BY <1>0, <1>1, <2>0, <2>3, ReusedLogin DEF Sound, Written, Kept
    <2>4. CASE OnboardInsert(c)
      BY <1>0, <1>1, <2>0, <2>4, Inserted DEF Sound, Written, Kept
    <2>5. CASE OnboardDiscard(c)
      BY <1>0, <1>1, <2>0, <2>5, Discarded DEF Sound, Written, Kept
    <2>6. ASSUME call[c].op \in Maintenance, call'[c].at \in {"login", "record", "done", "failed", "dead"},
                 call'[c].login = call[c].login
          PROVE  Sound(c)'
      <3>1. PICK e \in Calls : e = call[c].emp
        BY Types DEF CallStates
      <3>2. employee'[e].state # "NONE" /\ employee'[e].login = call[c].login
        BY <1>0, <2>6, <3>1, RecordsStay DEF Sound
      <3>3. employee'[c].state = "NONE"
        BY <1>0, <1>1, <2>6 DEF Sound
      <3> QED
        BY <1>0, <2>0, <2>6, <3>1, <3>2, <3>3 DEF Sound, Written
    <2>7. CASE WritesRecord(c)
      BY <2>6, <2>7, RecordWritten DEF Kept
    <2>8. CASE WritesLogin(c)
      BY <2>6, <2>8, LoginWritten DEF Kept
    <2>9. CASE Abort(c)
      <3>1. CASE call[c].op \in Maintenance
        BY <2>6, <2>9, <3>1, Aborted DEF Kept
      <3>2. CASE call[c].op \notin Maintenance
        BY <1>0, <1>1, <2>0, <2>9, <3>2, Aborted DEF Sound, Written, Kept
      <3> QED
        BY <3>1, <3>2
    <2> QED
      BY <1>4, <2>1, <2>2, <2>3, <2>4, <2>5, <2>7, <2>8, <2>9 DEF GoingOn
  <1> QED
    BY <1>2, <1>3, <1>4 DEF Step, Starting

\* The login that a failed onboarding made is gone.
LEMMA DiscardedIsGone ==
    ASSUME TypeOK, LoginsInv, NEW c \in Calls, OnboardDiscard(c)
    PROVE  call[c].login = c /\ ~login'[c].there
  <1>1. call[c].login = c
    BY Discarded DEF LoginsInv, Sound
  <1>2. Logged(c, [login[c] EXCEPT !.there = FALSE])
    BY <1>1, Discarded
  <1>3. login[c] \in Users
    BY Types
  <1> QED
    BY <1>1, <1>2, <1>3 DEF Logged, Users

LEMMA AppearedStays ==
    ASSUME TypeOK, CodesInv, NEW c \in Calls, Step(c), NEW u \in Logins, Appeared(u)
    PROVE  u \in Calls => call'[u].at \notin {"new", "find", "make"}
  <1> SUFFICES ASSUME u \in Calls PROVE call'[u].at \notin {"new", "find", "make"}
    OBVIOUS
  <1>1. call[u].at \notin {"new", "find", "make"}
    BY DEF Appeared
  <1>2. CASE u # c
    BY <1>1, <1>2, Places DEF Step, Others
  <1>3. CASE u = c
    <2>1. GoingOn(c)
      BY <1>1, <1>3, Places DEF Step
    <2> QED
      BY <1>1, <1>3, <2>1, Places
  <1> QED
    BY <1>2, <1>3

LEMMA LoginsStep ==
    ASSUME TypeOK, CodesInv, LoginsInv, [Next]_vars
    PROVE  LoginsInv'
  <1>1. ASSUME NEW c \in Calls, Step(c) PROVE LoginsInv'
    <2>0. Others(c) /\ Sound(c) /\ Calls \subseteq Logins
      BY <1>1, Places, Types DEF Step, LoginsInv
    <2>1. \A d \in Calls : Sound(d)'
      BY <1>1, SoundOthers, SoundSelf
    <2>2. ASSUME NEW d \in Calls, login'[d].there
          PROVE  \/ call'[d].at \in {"insert", "discard"} /\ call'[d].made
                 \/ call'[d].at = "dead"
                 \/ call'[d].at = "done" /\ employee'[d].state # "NONE" /\ employee'[d].login = d
      <3>1. CASE d # c
        <4>1. login[d].there /\ call'[d] = call[d]
          BY <1>1, <2>0, <2>2, <3>1, LoginsStay DEF Others
        <4>2. Written(d) => employee'[d].state # "NONE" /\ employee'[d].login = employee[d].login
          BY <1>1, RecordsStay
        <4> QED
          BY <4>1, <4>2 DEF LoginsInv
      <3>2. CASE d = c /\ login[c].there
        <4>1. \/ call[c].at \in {"insert", "discard"} /\ call[c].made
              \/ call[c].at \in {"dead", "done"}
          BY <3>2 DEF LoginsInv
        <4>2. call[c].at \in {"insert", "discard"} /\ call[c].made /\ call[c].login = c
          BY <1>1, <2>0, <4>1, Places DEF Step, Sound
        <4>3. CASE OnboardInsert(c)
          <5> DEFINE x == [state |-> "LIVE", status |-> "ACTIVE", work |-> call[c].work,
                           code |-> call[c].code, login |-> call[c].login, password |-> c]
          <5>1. Kept(c) /\ (call'[c].at = "discard" \/ (call'[c].at = "done" /\ Recorded(c, x)))
            BY <4>2, <4>3, Inserted
          <5>2. x.state = "LIVE" /\ x.login = c
            BY <4>2
          <5> HIDE DEF x
          <5> QED
            BY <3>2, <4>2, <5>1, <5>2 DEF Kept, Recorded
        <4>4. CASE OnboardDiscard(c)
          BY <2>2, <3>2, <4>4, DiscardedIsGone
        <4>5. CASE Abort(c)
          BY <3>2, <4>5, Aborted
        <4> QED
          BY <1>1, <4>2, <4>3, <4>4, <4>5, From DEF Step, GoingOn
      <3>3. CASE d = c /\ ~login[c].there
        BY <1>1, <2>0, <2>2, <3>3, LoginsStay
      <3> QED
        BY <3>1, <3>2, <3>3
    <2>3. ASSUME NEW d \in Calls, call'[d].login # d
          PROVE  call'[d].login \in Calls => call'[call'[d].login].at \notin {"new", "find", "make"}
      <3>1. PICK u \in Logins : u = call'[d].login
        <4>1. TypeOK'
          BY <1>1, TypeStep, StepsAre
        <4>2. call'[d] \in CallStates
          BY <4>1, CallStatesAre DEF TypeOK
        <4> QED
          BY <4>2 DEF CallStates
      <3>2. CASE call[d].login = u
        <4>1. Appeared(u)
          BY <2>3, <3>1, <3>2 DEF LoginsInv
        <4> QED
          BY <1>1, <3>1, <4>1, AppearedStays
      <3>3. CASE call[d].login # u
        <4>1. d = c
          BY <2>0, <3>1, <3>3 DEF Others
        <4>2. \/ OnboardFind(c) /\ login[u].there
              \/ Starts(c) /\ Live(call'[c].emp) /\ u = employee[call'[c].emp].login
                 /\ call'[c].emp \in Calls
              \/ u = c
          <5>1. OnboardFind(c) \/ Starts(c) \/ OnboardMake(c)
            BY <1>1, <3>1, <3>3, <4>1, From, Checked DEF Step, Starting, GoingOn, Kept
          <5> QED
            BY <3>1, <3>3, <4>1, <5>1, FoundLogin, Started, MadeLogin DEF LoginOf
        <4>3. u # c
          BY <2>3, <3>1, <4>1
        <4>4. Appeared(u)
          BY <4>2, <4>3 DEF LoginsInv, Appeared, Live, Written
        <4> QED
          BY <1>1, <3>1, <4>4, AppearedStays
      <3> QED
        BY <3>2, <3>3
    <2>4. ASSUME NEW e \in Calls, employee'[e].state # "NONE"
          PROVE  employee'[e].login \in Calls => call'[employee'[e].login].at \notin {"new", "find", "make"}
      <3>1. CASE Written(e)
        <4>1. PICK u \in Logins : u = employee[e].login
          BY Types DEF Records
        <4>2. employee'[e].login = u /\ Appeared(u)
          BY <1>1, <3>1, <4>1, RecordsStay DEF LoginsInv
        <4> QED
          BY <1>1, <4>2, AppearedStays
      <3>2. CASE ~Written(e)
        <4>1. /\ e = c /\ call[c].at = "insert" /\ call'[c].at = "done"
              /\ employee'[e].login = call[c].login
          BY <1>1, <2>4, <3>2, RecordsStay DEF Written
        <4>2. PICK u \in Logins : u = call[c].login
          BY Types DEF CallStates
        <4>3. CASE u = c
          BY <4>1, <4>2, <4>3
        <4>4. CASE u # c
          <5>1. Appeared(u)
            BY <4>2, <4>4 DEF LoginsInv
          <5> QED
            BY <1>1, <4>1, <4>2, <5>1, AppearedStays
        <4> QED
          BY <4>3, <4>4
      <3> QED
        BY <3>1, <3>2
    <2> QED
      BY <2>1, <2>2, <2>3, <2>4 DEF LoginsInv, Appeared, Written
  <1>2. CASE UNCHANGED vars
    <2>1. \A d \in Calls : Sound(d)'
      BY <1>2 DEF vars, LoginsInv, Sound, Written
    <2> QED
      BY <1>2, <2>1 DEF vars, LoginsInv, Written, Appeared
  <1> QED
    BY <1>1, <1>2, StepsAre

(***************************************************************************)
(* One handler after the other                                             *)
(***************************************************************************)

LEMMA Alone ==
    ASSUME TypeOK, WidthInv, width = 1
    PROVE  /\ \A c, d \in Calls : Running(c) /\ Running(d) => c = d
           /\ Cardinality(Busy) < width => \A c \in Calls : ~Running(c)
  <1>1. Cardinality(Busy) \in Nat /\ Cardinality(Busy) <= 1 /\ IsFiniteSet(Busy)
    BY FS_CardinalityType DEF WidthInv
  <1>2. ASSUME NEW c \in Busy, NEW d \in Busy, c # d PROVE FALSE
    <2>1. IsFiniteSet(Busy \ {c}) /\ Cardinality(Busy \ {c}) = Cardinality(Busy) - 1
      BY <1>1, <1>2, FS_RemoveElement
    <2>2. Cardinality(Busy \ {c}) = 0
      BY <1>1, <2>1, FS_CardinalityType
    <2> QED
      BY <1>2, <2>1, <2>2, FS_EmptySet
  <1>3. ASSUME Cardinality(Busy) < 1 PROVE Busy = {}
    BY <1>1, <1>3, FS_EmptySet
  <1> QED
    BY <1>2, <1>3 DEF Busy

\* A handler that takes a step runs alone, and does not die in it.
LEMMA InTurn ==
    ASSUME TypeOK, CodesInv, WidthInv, Orderly', NEW c \in Calls, Step(c)
    PROVE  /\ Orderly /\ ~Abort(c) /\ Others(c)
           /\ \A d \in Calls \ {c} : ~Running(d) /\ call'[d] = call[d]
  <1>1. width = 1 /\ Others(c) /\ call[c].at # "dead" /\ call'[c].at # "dead"
    BY Places DEF Step, Orderly
  <1>2. Orderly
    <2>1. ASSUME NEW d \in Calls, d # c PROVE call[d].at # "dead"
      BY <1>1, <2>1 DEF Others, Orderly
    <2> QED
      BY <1>1, <2>1 DEF Orderly
  <1>3. ASSUME NEW d \in Calls, d # c PROVE ~Running(d)
    <2>1. CASE Running(c)
      BY <1>1, <1>3, <2>1, Alone
    <2>2. CASE ~Running(c)
      <3>1. Cardinality(Busy) < width
        BY <2>2, Places DEF Step
      <3> QED
        BY <1>1, <3>1, Alone
    <2> QED
      BY <2>1, <2>2
  <1> QED
    BY <1>1, <1>2, <1>3, Aborted DEF Others

\* Who is on the books after a step, and with which login.
LEMMA LiveLater ==
    ASSUME TypeOK, CodesInv, LoginsInv, NEW c \in Calls, Step(c), NEW e \in Calls,
           employee'[e].state = "LIVE"
    PROVE  /\ employee'[e].login \in Logins
           /\ \/ Live(e) /\ employee'[e].login = employee[e].login
              \/ /\ e = c /\ OnboardInsert(c) /\ employee'[e].login = call[c].login
                 /\ employee'[e].status = "ACTIVE" /\ employee'[e].password = c
  <1>0. employee'[e].login \in Logins
    <2>1. TypeOK'
      BY TypeStep, StepsAre
    <2>2. employee'[e] \in Records
      BY <2>1 DEF TypeOK
    <2> QED
      BY <2>2 DEF Records
  <1>1. CASE employee' = employee
    BY <1>0, <1>1 DEF Live
  <1>2. CASE OnboardInsert(c) /\ employee' # employee
    <2> DEFINE x == [state |-> "LIVE", status |-> "ACTIVE", work |-> call[c].work,
                     code |-> call[c].code, login |-> call[c].login, password |-> c]
    <2>1. Recorded(c, x)
      BY <1>2, Inserted
    <2>2. x.login = call[c].login /\ x.status = "ACTIVE" /\ x.password = c
      OBVIOUS
    <2> HIDE DEF x
    <2> QED
      BY <1>0, <1>2, <2>1, <2>2 DEF Recorded, Live
  <1>3. CASE WritesRecord(c) /\ employee' # employee
    <2>1. PICK x \in Records : Recorded(call[c].emp, x) /\ RecordFor(c, x)
      BY <1>3, RecordWritten
    <2>2. PICK d \in Calls : d = call[c].emp
      BY <1>3, RecordWritten
    <2>3. x.login = employee[d].login /\ (x.state = "LIVE" => Live(d))
      BY <2>1, <2>2 DEF RecordFor, Live
    <2> QED
      BY <1>0, <2>1, <2>2, <2>3 DEF Recorded, Live
  <1> QED
    BY <1>1, <1>2, <1>3, Writers

LEMMA MadeIs ==
    ASSUME TypeOK, NEW c \in Calls, OnboardMake(c)
    PROVE  \/ call'[c].at = "failed" /\ login' = login
           \/ /\ call'[c].at = "insert" /\ call'[c].login = c
              /\ login'[c].there /\ ~login'[c].deleted
              /\ login'[c].status = "ACTIVE" /\ login'[c].password = c
              /\ \A v \in Logins \ {c} : login'[v] = login[v]
  <1>1. CASE call'[c].at = "failed"
    BY <1>1, MadeLogin
  <1>2. CASE call'[c].at # "failed"
    <2> DEFINE x == [there |-> TRUE, email |-> call[c].personal, status |-> "ACTIVE",
                     deleted |-> FALSE, password |-> c]
    <2>1. call'[c].at = "insert" /\ call'[c].login = c /\ Logged(c, x)
      BY <1>2, MadeLogin
    <2>2. x.there /\ ~x.deleted /\ x.status = "ACTIVE" /\ x.password = c
      OBVIOUS
    <2> HIDE DEF x
    <2> QED
      BY <2>1, <2>2 DEF Logged
  <1> QED
    BY <1>1, <1>2

\* A login stays there unless the onboarding that made it discards it.
LEMMA ThereLater ==
    ASSUME TypeOK, CodesInv, LoginsInv, NEW c \in Calls, Step(c), NEW u \in Logins,
           login[u].there
    PROVE  \/ login'[u].there
           \/ OnboardDiscard(c) /\ u = c /\ call[c].login = c /\ call[c].made /\ call[c].at = "discard"
  <1>1. CASE OnboardDiscard(c)
    <2>1. call[c].login = c /\ call[c].made /\ call[c].at = "discard"
      BY <1>1, Discarded, DiscardedIsGone DEF LoginsInv, Sound
    <2>2. \A v \in Logins \ {c} : login'[v] = login[v]
      BY <1>1, <2>1, Discarded DEF Logged
    <2> QED
      BY <1>1, <2>1, <2>2
  <1>2. CASE OnboardMake(c)
    <2>1. login' = login \/ (login'[c].there /\ \A v \in Logins \ {c} : login'[v] = login[v])
      BY <1>2, MadeIs
    <2> QED
      BY <2>1
  <1>3. CASE ~OnboardDiscard(c) /\ ~OnboardMake(c)
    <2>1. call[c].at = "discard" => Abort(c)
      BY <1>3, From DEF Step, GoingOn
    <2>2. call[c].at # "make"
      BY <1>3, From DEF Step, GoingOn
    <2>3. Abort(c) => login' = login
      BY Aborted
    <2> QED
      BY <2>1, <2>2, <2>3, LoginsStay
  <1> QED
    BY <1>1, <1>2, <1>3

LEMMA ThereStep ==
    ASSUME TypeOK, CodesInv, WidthInv, LoginsInv, ThereInv, [Next]_vars
    PROVE  ThereInv'
  <1>1. ASSUME NEW c \in Calls, Step(c), Orderly' PROVE ThereInv'
    <2>0. /\ Orderly /\ ~Abort(c) /\ Others(c) /\ Sound(c) /\ c \in Logins
          /\ \A d \in Calls \ {c} : ~Running(d) /\ call'[d] = call[d]
      BY <1>1, InTurn, Types DEF LoginsInv
    <2>1. /\ \A e \in Calls : Live(e) => login[employee[e].login].there
          /\ call[c].at = "insert" => login[call[c].login].there
          /\ call[c].at \in {"insert", "discard"} /\ call[c].made =>
                \A e \in Calls : ~Owner(call[c].login, e)
      BY <2>0 DEF ThereInv, LoginExists
    <2>2. ASSUME NEW e \in Calls, employee'[e].state = "LIVE"
          PROVE  login'[employee'[e].login].there
      <3>1. PICK u \in Logins : u = employee'[e].login
        BY <1>1, <2>2, LiveLater
      <3>2. \/ Live(e) /\ u = employee[e].login
            \/ OnboardInsert(c) /\ u = call[c].login /\ call[c].at = "insert"
        <4>1. \/ Live(e) /\ employee'[e].login = employee[e].login
              \/ OnboardInsert(c) /\ employee'[e].login = call[c].login
          BY <1>1, <2>2, LiveLater
        <4> QED
          BY <3>1, <4>1, Inserted
      <3>3. login[u].there
        BY <2>1, <3>2
      <3>4. ~(OnboardDiscard(c) /\ u = c /\ call[c].login = c /\ call[c].made /\ call[c].at = "discard")
        BY <2>1, <3>2 DEF Owner
      <3> QED
        BY <1>1, <3>1, <3>3, <3>4, ThereLater
    <2>3. ASSUME NEW d \in Calls, call'[d].at = "insert"
          PROVE  login'[call'[d].login].there
      <3>1. d = c
        BY <2>0, <2>3 DEF Running
      <3>2. OnboardMake(c) \/ OnboardReuse(c)
        BY <1>1, <2>0, <2>3, <3>1, Leads, Inserted DEF Step, GoingOn
      <3>3. CASE OnboardMake(c)
        BY <2>3, <3>1, <3>3, MadeIs
      <3>4. CASE OnboardReuse(c)
        BY <2>3, <3>1, <3>4, ReusedLogin DEF Logged, Kept
      <3> QED
        BY <3>2, <3>3, <3>4
    <2>4. ASSUME NEW d \in Calls, NEW e \in Calls, call'[d].at \in {"insert", "discard"},
                 call'[d].made, employee'[e].state = "LIVE", employee'[e].login = call'[d].login
          PROVE  FALSE
      <3>1. d = c
        BY <2>0, <2>4 DEF Running
      <3>2. OnboardMake(c) \/ OnboardReuse(c) \/ OnboardInsert(c)
        BY <1>1, <2>0, <2>4, <3>1, Leads DEF Step, GoingOn
      <3>3. CASE OnboardMake(c)
        <4>1. call'[c].login = c /\ employee' = employee /\ call[c].at = "make"
          BY <2>4, <3>1, <3>3, MadeLogin
        <4> QED
          BY <2>4, <3>1, <4>1 DEF LoginsInv, Appeared, Written
      <3>4. CASE OnboardReuse(c)
        BY <2>0, <2>4, <3>1, <3>4, ReusedLogin DEF Sound, Kept
      <3>5. CASE OnboardInsert(c)
        <4>1. /\ employee' = employee /\ call[c].at = "insert"
              /\ call'[c].made = call[c].made /\ call'[c].login = call[c].login
          BY <2>4, <3>1, <3>5, Inserted DEF Kept
        <4> QED
          BY <2>1, <2>4, <3>1, <4>1 DEF Owner, Live
      <3> QED
        BY <3>2, <3>3, <3>4, <3>5
    <2> QED
      BY <2>2, <2>3, <2>4 DEF ThereInv, LoginExists, Live, Owner
  <1>2. CASE UNCHANGED vars
    BY <1>2 DEF vars, ThereInv, LoginExists, Orderly, Live, Owner
  <1> QED
    BY <1>1, <1>2, StepsAre DEF ThereInv

\* A login that an archive closed stays closed: nobody makes it again.
LEMMA ArchivedStep ==
    ASSUME TypeOK, CodesInv, LoginsInv, ArchivedSignsOut, [Next]_vars
    PROVE  ArchivedSignsOut'
  <1>1. ASSUME NEW c \in Calls, Step(c), NEW d \in Calls, call'[d].op = "archive",
               call'[d].at = "done", login'[call'[d].login].there
        PROVE  login'[call'[d].login].deleted
    <2>0. Others(c) /\ c \in Logins
      BY <1>1, Places, Types DEF Step
    <2>1. CASE d # c
      <3>1. call'[d] = call[d]
        BY <2>0, <2>1 DEF Others
      <3>2. PICK u \in Logins : u = call[d].login
        BY Types DEF CallStates
      <3>3. u = c => call[c].at # "make"
        BY <2>1, <3>2 DEF LoginsInv, Appeared
      <3>4. CASE login[u].there
        <4>1. login[u].deleted
          BY <1>1, <3>1, <3>2, <3>4 DEF ArchivedSignsOut, Login
        <4> QED
          BY <1>1, <3>1, <3>2, <3>3, <3>4, <4>1, LoginsStay
      <3>5. CASE ~login[u].there
        BY <1>1, <3>1, <3>2, <3>3, <3>5, LoginsStay
      <3> QED
        BY <3>4, <3>5
    <2>2. CASE d = c
      <3>0. Sound(c) /\ "archive" \in Maintenance
        BY DEF LoginsInv, Maintenance
      <3>1. WritesLogin(c) /\ call[c].op = "archive" /\ Kept(c)
        <4>1. GoingOn(c) /\ call[c].op = "archive" /\ call[c].at \notin {"find", "make", "reuse", "insert", "discard"}
          BY <1>1, <2>2, <3>0, Places DEF Step, Sound
        <4>2. WritesRecord(c) \/ WritesLogin(c) \/ Abort(c)
          BY <4>1, FoundLogin, MadeLogin, ReusedLogin, Inserted, Discarded DEF GoingOn
        <4> QED
          BY <1>1, <2>2, <4>1, <4>2, RecordWritten, LoginWritten, Aborted
      <3>2. PICK x \in Users : Logged(call[c].login, x) /\ LoginFor(c, x)
        BY <1>1, <2>2, <3>1, LoginWritten
      <3>3. call'[c].login = call[c].login /\ login'[call[c].login] = x
        BY <3>1, <3>2 DEF Kept, Logged
      <3> QED
        BY <1>1, <2>2, <3>1, <3>2, <3>3 DEF LoginFor
    <2> QED
      BY <2>1, <2>2
  <1>2. CASE UNCHANGED vars
    BY <1>2 DEF vars, ArchivedSignsOut, Login
  <1> QED
    BY <1>1, <1>2, StepsAre DEF ArchivedSignsOut, Login

\* What was used stays used.
LEMMA UsedStays ==
    ASSUME TypeOK, CodesInv, LoginsInv, NEW c \in Calls, Step(c), NEW op \in Maintenance, Used(op)
    PROVE  \E d \in Calls : call'[d].op = op
  <1>1. PICK d \in Calls : call[d].op = op
    BY DEF Used
  <1>2. CASE d # c
    BY <1>1, <1>2, Places DEF Step, Others
  <1>3. CASE d = c
    <2>1. call[c].at # "new"
      BY <1>1, <1>3, Types DEF LoginsInv, Sound
    <2>2. call'[c].op = call[c].op
      BY <2>1, Places DEF Step
    <2> QED
      BY <1>1, <1>3, <2>2
  <1> QED
    BY <1>2, <1>3

\* A login is marked deleted, and a record taken off the books, by an archive only.
LEMMA NoneArchived ==
    ASSUME TypeOK, CodesInv, LoginsInv, NEW c \in Calls, Step(c), call[c].op # "archive",
           \A u \in Logins : ~login[u].deleted, \A e \in Calls : Written(e) => Live(e)
    PROVE  /\ \A u \in Logins : ~login'[u].deleted
           /\ \A e \in Calls : employee'[e].state # "NONE" => employee'[e].state = "LIVE"
  <1>1. \A u \in Logins : ~login'[u].deleted
    <2>1. CASE login' = login
      BY <2>1
    <2>2. CASE OnboardMake(c) /\ login' # login
      BY <2>2, MadeIs
    <2>3. CASE OnboardReuse(c) /\ login' # login
      <3>1. PICK u \in Logins : u = call[c].login
        BY <2>3, ReusedLogin
      <3>2. PICK x \in Users : Logged(u, x) /\ x.deleted = login[u].deleted
        BY <2>3, <3>1, ReusedLogin
      <3> QED
        BY <3>2 DEF Logged
    <2>4. CASE OnboardDiscard(c)
      <3>1. PICK u \in Logins : u = call[c].login
        BY <2>4, Discarded
      <3> DEFINE x == [login[u] EXCEPT !.there = FALSE]
      <3>2. Logged(u, x) /\ login[u] \in Users
        BY <2>4, <3>1, Discarded, Types
      <3>3. x.deleted = login[u].deleted
        BY <3>2 DEF Users
      <3> HIDE DEF x
      <3> QED
        BY <3>2, <3>3 DEF Logged
    <2>5. CASE WritesLogin(c) /\ login' # login
      <3>1. PICK u \in Logins : u = call[c].login
        BY <2>5, LoginWritten
      <3>2. PICK x \in Users : Logged(u, x) /\ LoginFor(c, x)
        BY <2>5, <3>1, LoginWritten
      <3>3. x.deleted = login[u].deleted
        BY <3>1, <3>2 DEF LoginFor
      <3> QED
        BY <3>2, <3>3 DEF Logged
    <2> QED
      BY <2>1, <2>2, <2>3, <2>4, <2>5, Writers
  <1>2. ASSUME NEW e \in Calls, employee'[e].state # "NONE" PROVE employee'[e].state = "LIVE"
    <2>1. CASE employee' = employee
      BY <1>2, <2>1 DEF Written, Live
    <2>2. CASE OnboardInsert(c) /\ employee' # employee
      <3> DEFINE x == [state |-> "LIVE", status |-> "ACTIVE", work |-> call[c].work,
                       code |-> call[c].code, login |-> call[c].login, password |-> c]
      <3>1. Recorded(c, x)
        BY <2>2, Inserted
      <3>2. x.state = "LIVE"
        OBVIOUS
      <3> HIDE DEF x
      <3> QED
        BY <1>2, <3>1, <3>2 DEF Recorded, Written, Live
    <2>3. CASE WritesRecord(c) /\ employee' # employee
      <3>1. PICK d \in Calls : d = call[c].emp
        BY <2>3, RecordWritten
      <3>2. PICK x \in Records : Recorded(d, x) /\ RecordFor(c, x)
        BY <2>3, <3>1, RecordWritten
      <3>3. x.state = employee[d].state
        BY <3>1, <3>2 DEF RecordFor
      <3> QED
        BY <1>2, <3>2, <3>3 DEF Recorded, Written, Live
    <2> QED
      BY <2>1, <2>2, <2>3, Writers
  <1> QED
    BY <1>1, <1>2

LEMMA ReadySelf ==
    ASSUME TypeOK, CodesInv, LoginsInv, ThereInv, OwnersInv, NoArchive, NEW c \in Calls,
           Step(c), ~Abort(c), call'[c].op # "archive"
    PROVE  Ready(c)'
  <1>0. /\ Ready(c) /\ Sound(c) /\ "onboard" \notin Maintenance
        /\ \A u \in Logins : ~login[u].deleted /\ \A e \in Calls : Written(e) => Live(e)
        /\ \A e \in Calls : Live(e) => login[employee[e].login].there
    BY Types DEF NoArchive, OwnersInv, LoginsInv, ThereInv, LoginExists
  <1>1. CASE OnboardCheck(c)
    <2>1. PICK p : p = call'[c].personal
      OBVIOUS
    <2>2. ~Owned(p) /\ login' = login /\ employee' = employee
      BY <1>1, <2>1, Checked
    <2>3. ~Owned(p)'
      BY <2>2 DEF Owned, LoginOf, Live
    <2>4. call'[c].at = "find"
      BY <1>1, Checked
    <2> QED
      BY <2>1, <2>3, <2>4 DEF Ready, Owned, LoginOf
  <1>2. CASE Starts(c)
    <2>1. call'[c].at = IF call'[c].op = "resend" THEN "login" ELSE "record"
      BY <1>2, Started
    <2> QED
      BY <2>1 DEF Ready
  <1>3. CASE OnboardFind(c)
    <2>0. call'[c].at \in {"make", "reuse"}
      BY <1>3, FoundLogin
    <2>1. CASE call'[c].at = "reuse"
      <3>1. PICK u \in Logins : u = call'[c].login /\ u \in LoginOf(call[c].personal)
        BY <1>3, <2>1, FoundLogin DEF LoginOf
      <3>2. call'[c].seenActive <=> login[u].status = "ACTIVE"
        BY <1>3, <2>1, <3>1, FoundLogin
      <3>3. ~Owned(call[c].personal) /\ employee' = employee /\ login' = login
        BY <1>0, <1>3, FoundLogin DEF Ready
      <3>4. \A e \in Calls : ~Owner(u, e)
        BY <1>0, <3>1, <3>3 DEF Owned, Owner
      <3>5. Fresh(c)'
        BY <3>1, <3>3, <3>4 DEF Fresh, Owner, Live
      <3> QED
        BY <2>1, <3>1, <3>2, <3>3, <3>5 DEF Ready
    <2> QED
      BY <2>0, <2>1 DEF Ready
  <1>4. CASE OnboardMake(c)
    <2>0. call[c].at = "make" /\ employee' = employee
      BY <1>4, MadeLogin
    <2>1. CASE call'[c].at = "failed"
      BY <2>1 DEF Ready
    <2>2. CASE call'[c].at = "insert"
      <3>1. call'[c].login = c /\ login'[c].status = "ACTIVE" /\ login'[c].password = c
        BY <1>4, <2>2, MadeIs
      <3>2. \A e \in Calls : ~Owner(c, e)
        BY <2>0 DEF Owner, LoginsInv, Appeared, Live, Written
      <3>3. Fresh(c)'
        BY <2>0, <3>1, <3>2 DEF Fresh, Owner, Live
      <3> QED
        BY <2>2, <3>1, <3>3 DEF Ready
    <2> QED
      BY <1>4, <2>1, <2>2, MadeIs
  <1>5. CASE OnboardReuse(c)
    <2>0. call[c].at = "reuse" /\ employee' = employee /\ call'[c].login = call[c].login
      BY <1>5, ReusedLogin DEF Kept
    <2>1. CASE call'[c].at = "failed"
      BY <2>1 DEF Ready
    <2>2. CASE call'[c].at = "insert"
      <3>1. PICK u \in Logins : u = call[c].login
        BY <1>5, ReusedLogin
      <3>2. PICK x \in Users : /\ Logged(u, x) /\ x.password = c
                               /\ x.status = IF call[c].seenActive THEN login[u].status ELSE "ACTIVE"
        BY <1>5, <2>2, <3>1, ReusedLogin
      <3>3. x.status = "ACTIVE"
        BY <1>0, <2>0, <3>1, <3>2 DEF Ready
      <3>4. login'[call'[c].login].password = c /\ login'[call'[c].login].status = "ACTIVE"
        BY <2>0, <3>1, <3>2, <3>3 DEF Logged
      <3>5. Fresh(c)'
        BY <1>0, <2>0 DEF Ready, Fresh, Owner, Live
      <3> QED
        BY <2>2, <3>4, <3>5 DEF Ready
    <2> QED
      BY <1>5, <2>1, <2>2, ReusedLogin
  <1>6. CASE OnboardInsert(c) \/ OnboardDiscard(c)
    <2>1. call'[c].at \in {"discard", "failed", "done"}
      BY <1>6, Inserted, Discarded
    <2> QED
      BY <2>1 DEF Ready
  <1>7. CASE WritesRecord(c)
    <2>0. /\ call'[c].op = call[c].op /\ call'[c].emp = call[c].emp /\ call'[c].status = call[c].status
          /\ call'[c].at \in {"failed", "done", "login"}
      BY <1>7, RecordWritten DEF Kept
    <2>1. CASE call'[c].at = "login" /\ call'[c].op = "status"
      <3>1. PICK e \in Calls : e = call[c].emp
        BY <1>7, RecordWritten
      <3>2. PICK x \in Records : Recorded(e, x) /\ RecordFor(c, x)
        BY <1>7, <2>1, <3>1, RecordWritten
      <3>3. employee'[call'[c].emp].status = call'[c].status
        BY <2>0, <2>1, <3>1, <3>2 DEF Recorded, RecordFor
      <3> QED
        BY <2>1, <3>3 DEF Ready
    <2> QED
      BY <2>0, <2>1 DEF Ready
  <1>8. CASE WritesLogin(c)
    <2>0. /\ call'[c].op = call[c].op /\ call'[c].login = call[c].login
          /\ call'[c].at \in {"failed", "done", "record"} /\ call[c].op \in Maintenance
      BY <1>8, LoginWritten DEF Kept
    <2>1. CASE call'[c].at = "record" /\ call'[c].op = "resend"
      <3>1. PICK u \in Logins : u = call[c].login
        BY <1>8, LoginWritten
      <3>2. PICK x \in Users : Logged(u, x) /\ LoginFor(c, x)
        BY <1>8, <2>1, <3>1, LoginWritten
      <3>3. login[u].there
        <4>1. PICK e \in Calls : e = call[c].emp
          BY Types DEF CallStates
        <4> QED
          BY <1>0, <2>0, <3>1, <4>1 DEF Sound
      <3>4. login'[call'[c].login].password = c
        BY <2>0, <2>1, <3>1, <3>2, <3>3 DEF Logged, LoginFor
      <3> QED
        BY <2>1, <3>4 DEF Ready
    <2> QED
      BY <2>0, <2>1 DEF Ready
  <1> QED
    BY <1>1, <1>2, <1>3, <1>4, <1>5, <1>6, <1>7, <1>8 DEF Step, Starting, GoingOn

LEMMA OwnersStep ==
    ASSUME TypeOK, CodesInv, WidthInv, LoginsInv, ThereInv, OwnersInv, [Next]_vars
    PROVE  OwnersInv'
  <1>1. ASSUME NEW c \in Calls, Step(c) PROVE OwnersInv'
    <2>0. "archive" \in Maintenance
      BY DEF Maintenance
    <2>1. ASSUME ~Used("archive")'
          PROVE  /\ ~Used("archive") /\ call[c].op # "archive" /\ call'[c].op # "archive"
                 /\ \A u \in Logins : ~login'[u].deleted
                 /\ \A e \in Calls : employee'[e].state # "NONE" => employee'[e].state = "LIVE"
      <3>1. ~Used("archive")
        BY <1>1, <2>0, <2>1, UsedStays DEF Used
      <3>2. call[c].op # "archive" /\ call'[c].op # "archive"
        BY <2>1, <3>1 DEF Used
      <3> QED
        BY <1>1, <3>1, <3>2, NoneArchived DEF OwnersInv
    <2>2. ASSUME NoArchive' PROVE OneOwner' /\ \A d \in Calls : Ready(d)'
      <3>0. NoArchive /\ ~Abort(c) /\ \A d \in Calls \ {c} : ~Running(d) /\ call'[d] = call[d]
        BY <1>1, <2>1, <2>2, InTurn DEF NoArchive
      <3>1. Ready(c)'
        BY <1>1, <2>1, <2>2, <3>0, ReadySelf DEF NoArchive
      <3>2. ASSUME NEW d \in Calls, d # c PROVE Ready(d)'
        BY <3>0, <3>2 DEF Running, Ready
      <3>3. ASSUME NEW e \in Calls, NEW d \in Calls, employee'[e].state = "LIVE",
                   employee'[d].state = "LIVE", employee'[e].login = employee'[d].login
            PROVE  e = d
        <4>1. /\ \A f, g \in Calls : Live(f) /\ Live(g) /\ employee[f].login = employee[g].login => f = g
              /\ OnboardInsert(c) => Fresh(c)
          BY <3>0, Inserted DEF NoArchive, OwnersInv, OneOwner, Ready
        <4>2. \/ Live(e) /\ employee'[e].login = employee[e].login
              \/ e = c /\ OnboardInsert(c) /\ employee'[e].login = call[c].login
          BY <1>1, <3>3, LiveLater
        <4>3. \/ Live(d) /\ employee'[d].login = employee[d].login
              \/ d = c /\ OnboardInsert(c) /\ employee'[d].login = call[c].login
          BY <1>1, <3>3, LiveLater
        <4> QED
          BY <3>3, <4>1, <4>2, <4>3 DEF Fresh, Owner
      <3> QED
        BY <3>1, <3>2, <3>3 DEF OneOwner, Live
    <2> QED
      BY <2>1, <2>2 DEF OwnersInv, Written, Live
  <1>2. CASE UNCHANGED vars
    <2>1. \A c \in Calls : Ready(c) => Ready(c)'
      BY <1>2 DEF vars, Ready, Fresh, Owner, Owned, LoginOf, Live
    <2>2. /\ NoArchive' => NoArchive /\ (OneOwner => OneOwner')
          /\ Used("archive") => Used("archive")'
      BY <1>2 DEF vars, NoArchive, Orderly, Used, OneOwner, Live
    <2> QED
      BY <1>2, <2>1, <2>2 DEF vars, OwnersInv, Written, Live
  <1> QED
    BY <1>1, <1>2, StepsAre

\* The record and the login after a step that writes neither.
LEMMA FollowsStill ==
    ASSUME TypeOK, CodesInv, LoginsInv, NEW c \in Calls, Step(c), NEW e \in Calls, Live(e),
           Follows(e), \A d \in Calls \ {c} : ~Running(d),
           ~(call[c].at \in {"record", "login"} /\ call[c].emp = e),
           employee'[e] = employee[e], login'[employee[e].login] = login[employee[e].login]
    PROVE  Follows(e)'
  <1>1. \A op : ~Between(op, "record", e) /\ ~Between(op, "login", e)
    BY DEF Between, Running
  <1>2. Used("resend") => Used("resend")'
    BY UsedStays DEF Used, Maintenance
  <1> QED
    BY <1>1, <1>2 DEF Follows

\* A handler that is half way may leave the record and the login apart.
LEMMA FollowsMine ==
    ASSUME TypeOK, CodesInv, LoginsInv, ThereInv, OwnersInv, NoArchive, NEW c \in Calls,
           WritesRecord(c) \/ WritesLogin(c), call[c].op # "archive", NEW e \in Calls,
           e = call[c].emp, Follows(e), Live(e), \A d \in Calls \ {c} : ~Running(d)
    PROVE  Follows(e)'
  <1>0. /\ Step(c) /\ Ready(c) /\ Sound(c) /\ call[c].op \in {"update", "status", "resend"}
        /\ call'[c].op = call[c].op /\ call'[c].emp = call[c].emp
    BY Types, RecordWritten, LoginWritten
    DEF NoArchive, OwnersInv, LoginsInv, Step, GoingOn, Kept, Maintenance
  <1>1. e = call[c].emp
    OBVIOUS
  <1>2. /\ Live(e) /\ employee[e].login = call[c].login /\ call[c].login \in Logins
        /\ login[call[c].login].there
    BY <1>0, <1>1, Types DEF Sound, ThereInv, LoginExists, NoArchive, Maintenance, CallStates
  <1>3. PICK u \in Logins : u = call[c].login
    BY <1>2
  <1>4. Used("resend") => Used("resend")'
    BY <1>0, UsedStays DEF Used, Maintenance
  <1>5. \A op, at : call[c].op # op \/ call[c].at # at =>
                        (at \in {"record", "login"} => ~Between(op, at, e))
    BY DEF Between, Running
  <1>6. CASE WritesRecord(c)
    <2>0. call[c].at = "record" /\ login' = login
      BY <1>6, RecordWritten
    <2>1. /\ employee'[e].login = employee[e].login
          /\ call[c].op # "status" => employee'[e].status = employee[e].status
          /\ employee'[e].password = IF call[c].op = "resend" THEN c ELSE employee[e].password
          /\ call[c].op = "status" => call'[c].at = "login"
      <3>1. CASE call'[c].at = "failed" /\ call[c].op = "update" /\ employee' = employee
        BY <3>1
      <3>2. CASE ~(call'[c].at = "failed" /\ call[c].op = "update" /\ employee' = employee)
        <4>1. PICK x \in Records : Recorded(e, x) /\ RecordFor(c, x)
          BY <1>1, <1>6, <3>2, RecordWritten
        <4>2. call'[c].at = IF call[c].op = "resend" THEN "done" ELSE "login"
          BY <1>6, <3>2, RecordWritten
        <4> QED
          BY <1>0, <1>1, <4>1, <4>2 DEF Recorded, RecordFor
      <3> QED
        BY <3>1, <3>2
    <2>2. /\ ~Between("status", "login", e)
          /\ call[c].op # "resend" => ~Between("resend", "record", e)
      BY <1>5, <2>0
    <2>3. CASE call[c].op = "update"
      BY <1>1, <1>4, <2>0, <2>1, <2>2, <2>3 DEF Follows
    <2>4. CASE call[c].op = "status"
      <3>1. Between("status", "login", e)'
        BY <1>0, <1>1, <2>1, <2>4 DEF Between
      <3> QED
        BY <1>1, <2>0, <2>1, <2>2, <2>4, <3>1 DEF Follows
    <2>5. CASE call[c].op = "resend"
      <3>1. Used("resend")'
        BY <1>0, <2>5 DEF Used
      <3>2. login[employee[e].login].password = c
        BY <1>0, <1>2, <2>0, <2>5 DEF Ready
      <3> QED
        BY <1>1, <2>0, <2>1, <2>2, <2>5, <3>1, <3>2 DEF Follows
    <2> QED
      BY <1>0, <2>3, <2>4, <2>5
  <1>7. CASE WritesLogin(c)
    <2>0. call[c].at = "login" /\ employee' = employee
      BY <1>7, LoginWritten
    <2>1. /\ login'[u].password = IF call[c].op = "resend" THEN c ELSE login[u].password
          /\ call[c].op = "update" => login'[u].status = login[u].status
          /\ call[c].op = "status" => login'[u].status = LoginStatus(call[c].status)
          /\ call[c].op = "resend" => login'[u].status = "ACTIVE" /\ call'[c].at = "record"
      <3>1. CASE call'[c].at = "failed" /\ call[c].op = "update" /\ login' = login
        BY <3>1
      <3>2. CASE ~(call'[c].at = "failed" /\ call[c].op = "update" /\ login' = login)
        <4>1. PICK x \in Users : Logged(u, x) /\ LoginFor(c, x)
          BY <1>3, <1>7, <3>2, LoginWritten
        <4>2. call'[c].at = IF call[c].op = "resend" THEN "record" ELSE "done"
          BY <1>7, <3>2, LoginWritten
        <4> QED
          BY <1>0, <1>2, <1>3, <4>1, <4>2 DEF Logged, LoginFor
      <3> QED
        BY <3>1, <3>2
    <2>2. /\ ~Between("resend", "record", e)
          /\ call[c].op # "status" => ~Between("status", "login", e)
      BY <1>5, <2>0
    <2>3. CASE call[c].op = "update"
      BY <1>1, <1>2, <1>3, <1>4, <2>0, <2>1, <2>2, <2>3 DEF Follows
    <2>4. CASE call[c].op = "status"
      <3>1. employee[e].status = call[c].status
        BY <1>0, <1>1, <2>0, <2>4 DEF Ready
      <3>2. employee[e].status = "ACTIVE" <=> login'[u].status = "ACTIVE"
        BY <2>1, <2>4, <3>1 DEF LoginStatus
      <3> QED
        BY <1>1, <1>2, <1>3, <2>0, <2>1, <2>2, <2>4, <3>2 DEF Follows
    <2>5. CASE call[c].op = "resend"
      <3>1. Used("resend")' /\ Between("resend", "record", e)'
        BY <1>0, <1>1, <2>1, <2>5 DEF Used, Between
      <3> QED
        BY <1>1, <1>2, <1>3, <2>0, <2>1, <2>5, <3>1 DEF Follows
    <2> QED
      BY <1>0, <2>3, <2>4, <2>5
  <1> QED
    BY <1>6, <1>7

LEMMA FollowStep ==
    ASSUME TypeOK, CodesInv, WidthInv, LoginsInv, ThereInv, OwnersInv, FollowInv, [Next]_vars
    PROVE  FollowInv'
  <1>1. ASSUME NEW c \in Calls, Step(c), NoArchive', NEW e \in Calls, employee'[e].state = "LIVE"
        PROVE  Follows(e)'
    <2>0. /\ NoArchive /\ Orderly /\ ~Abort(c) /\ call[c].op # "archive"
          /\ \A d \in Calls \ {c} : ~Running(d)
      <3>1. Orderly /\ ~Abort(c) /\ \A d \in Calls \ {c} : ~Running(d)
        BY <1>1, InTurn DEF NoArchive
      <3>2. ~Used("archive")
        BY <1>1, UsedStays DEF NoArchive, Used, Maintenance
      <3> QED
        BY <3>1, <3>2 DEF NoArchive, Used
    <2>1. /\ Ready(c) /\ Sound(c) /\ "onboard" \notin Maintenance /\ OneOwner
          /\ \A d \in Calls : Written(d) => Live(d)
      BY <2>0, Types DEF NoArchive, OwnersInv, LoginsInv
    <2>2. CASE OnboardInsert(c) /\ ~Live(e)
      <3>1. /\ employee'[e].login = call[c].login /\ employee'[e].status = "ACTIVE"
            /\ employee'[e].password = c
        BY <1>1, <2>2, LiveLater
      <3>2. login' = login /\ call[c].at = "insert"
        BY <2>2, Inserted
      <3> QED
        BY <2>1, <3>1, <3>2 DEF Follows, Ready
    <2>3. CASE Live(e) /\ call[c].emp = e /\ (WritesRecord(c) \/ WritesLogin(c))
      BY <2>0, <2>3, FollowsMine DEF FollowInv
    <2>4. CASE Live(e) /\ ~(call[c].emp = e /\ (WritesRecord(c) \/ WritesLogin(c)))
      <3>1. ~(call[c].at \in {"record", "login"} /\ call[c].emp = e)
        BY <1>1, <2>0, <2>4, From DEF Step, GoingOn
      <3>2. employee'[e] = employee[e]
        <4>1. CASE WritesRecord(c) /\ employee' # employee
          <5>1. PICK x \in Records : Recorded(call[c].emp, x)
            BY <4>1, RecordWritten
          <5> QED
            BY <2>4, <4>1, <5>1 DEF Recorded
        <4>2. CASE OnboardInsert(c) /\ employee' # employee
          <5>1. call[c].at = "insert" /\ \A d \in Calls \ {c} : employee'[d] = employee[d]
            BY <4>2, Inserted DEF Recorded
          <5>2. e # c
            BY <2>1, <2>4, <5>1 DEF Sound, Live, Written
          <5> QED
            BY <5>1, <5>2
        <4> QED
          BY <1>1, <4>1, <4>2, Writers
      <3>3. login'[employee[e].login] = login[employee[e].login]
        <4>0. employee[e].login \in Logins /\ call[c].login \in Logins
          BY Types DEF Records, CallStates
        <4>1. CASE OnboardMake(c)
          <5>0. call[c].at = "make"
            BY <4>1, MadeLogin
          <5>1. employee[e].login # c
            BY <2>4, <5>0 DEF LoginsInv, Appeared, Live, Written
          <5> QED
            BY <4>0, <4>1, <5>1, MadeIs
        <4>2. CASE OnboardReuse(c) /\ login' # login
          <5>1. PICK x \in Users : Logged(call[c].login, x)
            BY <4>2, ReusedLogin
          <5>2. employee[e].login # call[c].login
            BY <2>1, <2>4, <4>2, ReusedLogin DEF Ready, Fresh, Owner
          <5> QED
            BY <4>0, <5>1, <5>2 DEF Logged
        <4>3. CASE OnboardDiscard(c)
          <5>1. call[c].at = "discard" /\ call[c].made
            BY <2>1, <4>3, Discarded DEF Sound
          <5>2. employee[e].login # call[c].login
            BY <2>0, <2>4, <5>1 DEF ThereInv, Owner
          <5>3. \A v \in Logins \ {call[c].login} : login'[v] = login[v]
            BY <4>3, Discarded DEF Logged
          <5> QED
            BY <4>0, <5>2, <5>3
        <4>4. CASE WritesLogin(c) /\ login' # login
          <5>1. PICK x \in Users : Logged(call[c].login, x)
            BY <4>4, LoginWritten
          <5>2. PICK d \in Calls : d = call[c].emp
            BY Types DEF CallStates
          <5>3. Live(d) /\ employee[d].login = call[c].login /\ d # e
            BY <2>1, <2>4, <4>4, <5>2, LoginWritten DEF Sound
          <5>4. \A f, g \in Calls : Live(f) /\ Live(g) /\ employee[f].login = employee[g].login => f = g
            BY <2>0, <2>1 DEF OneOwner, NoArchive
          <5>5. employee[e].login # call[c].login
            BY <2>4, <5>3, <5>4
          <5> QED
            BY <4>0, <5>1, <5>5 DEF Logged
        <4> QED
          BY <1>1, <4>1, <4>2, <4>3, <4>4, Writers
      <3> QED
        BY <1>1, <2>0, <2>4, <3>1, <3>2, <3>3, FollowsStill DEF FollowInv
    <2>5. Live(e) \/ OnboardInsert(c)
      BY <1>1, LiveLater
    <2> QED
      BY <2>2, <2>3, <2>4, <2>5
  <1>2. CASE UNCHANGED vars
    <2>1. /\ NoArchive' => NoArchive
          /\ \A e \in Calls : (Live(e)' => Live(e)) /\ (Follows(e) => Follows(e)')
      BY <1>2 DEF vars, NoArchive, Orderly, Used, Live, Follows, Between
    <2> QED
      BY <2>1 DEF FollowInv
  <1> QED
    BY <1>1, <1>2, StepsAre DEF FollowInv, Live

(***************************************************************************)
(* The initial state                                                       *)
(***************************************************************************)

LEMMA Empty ==
    ASSUME Init
    PROVE  /\ \A c \in Calls : /\ employee[c].state = "NONE" /\ employee[c].code = 0
                               /\ call[c].op = "none" /\ call[c].at = "new" /\ call[c].code = 0
                               /\ call[c].login = c /\ ~call[c].made
           /\ \A u \in Logins : ~login[u].deleted
           /\ \A c \in Calls : ~login[c].there
  <1>1. \A c \in Calls : employee[c] = [state |-> "NONE", status |-> "ACTIVE", work |-> AnyEmail,
                                        code |-> 0, login |-> c, password |-> c]
    BY DEF Init
  <1>2. \A c \in Calls : call[c] = [op |-> "none", at |-> "new", emp |-> c, work |-> AnyEmail,
                            personal |-> AnyEmail, code |-> 0, login |-> c, made |-> FALSE,
                            seenActive |-> FALSE, status |-> "ACTIVE"]
    BY DEF Init
  <1>3. \A u \in Logins : (login[u].there <=> u \in Standing) /\ ~login[u].deleted
    <2>1. PICK address \in Injection(Standing, Emails), status \in [Standing -> {"ACTIVE", "SUSPENDED"}] :
             login = [u \in Logins |->
               [there |-> u \in Standing, deleted |-> FALSE, password |-> u,
                email  |-> IF u \in Standing THEN address[u] ELSE AnyEmail,
                status |-> IF u \in Standing THEN status[u] ELSE "ACTIVE"]]
      BY DEF Init
    <2> QED
      BY <2>1
  <1>4. \A c \in Calls : c \in Logins /\ c \notin Standing
    BY AccountsAssumption DEF Logins
  <1>5. \A c \in Calls : employee[c].state = "NONE" /\ employee[c].code = 0
    <2> TAKE c \in Calls
    <2>1. employee[c] = [state |-> "NONE", status |-> "ACTIVE", work |-> AnyEmail,
                         code |-> 0, login |-> c, password |-> c]
      BY <1>1
    <2> QED
      BY <2>1
  <1>6. \A c \in Calls : /\ call[c].op = "none" /\ call[c].at = "new" /\ call[c].code = 0
                         /\ call[c].login = c /\ call[c].made = FALSE
    <2> TAKE c \in Calls
    <2>1. call[c] = [op |-> "none", at |-> "new", emp |-> c, work |-> AnyEmail,
                     personal |-> AnyEmail, code |-> 0, login |-> c, made |-> FALSE,
                     seenActive |-> FALSE, status |-> "ACTIVE"]
      BY <1>2
    <2> QED
      BY <2>1
  <1>7. \A c \in Calls : ~login[c].there
    BY <1>3, <1>4
  <1> QED
    BY <1>3, <1>5, <1>6, <1>7

AccountsInv ==
    /\ TypeOK /\ WidthInv /\ CodesInv /\ LoginsInv
    /\ ThereInv /\ OwnersInv /\ FollowInv /\ ArchivedSignsOut

LEMMA AccountsInit == Init => AccountsInv
  <1> SUFFICES ASSUME Init PROVE AccountsInv
    OBVIOUS
  <1>1. TypeOK
    BY TypeInit
  <1>2. WidthInv
    <2>1. Busy = {}
      BY Empty DEF Busy, Running
    <2>2. IsFiniteSet({}) /\ Cardinality({}) = 0
      BY FS_EmptySet
    <2> QED
      BY <1>1, <2>1, <2>2, Types DEF WidthInv
  <1>3. CodesInv
    <2>1. \A c \in Calls : employee[c].code <= 0 /\ call[c].code <= 0
      BY Empty
    <2> QED
      BY <2>1 DEF CodesInv
  <1>4. LoginsInv
    <2>1. \A c \in Calls : Sound(c)
      BY Empty DEF Sound, Written, Maintenance
    <2>2. \A c \in Calls : ~Written(c)
      BY Empty DEF Written
    <2> QED
      BY Empty, <2>1, <2>2 DEF LoginsInv
  <1>5. ThereInv
    BY Empty DEF ThereInv, LoginExists, Live
  <1>6. OwnersInv
    BY Empty DEF OwnersInv, OneOwner, Ready, Live, Written
  <1>7. FollowInv /\ ArchivedSignsOut
    BY Empty DEF FollowInv, ArchivedSignsOut, Live
  <1> QED
    BY <1>1, <1>2, <1>3, <1>4, <1>5, <1>6, <1>7 DEF AccountsInv

LEMMA AccountsKept == Spec => []AccountsInv
  <1>1. AccountsInv /\ [Next]_vars => AccountsInv'
    BY TypeStep, WidthStep, CodesStep, LoginsStep, ThereStep, OwnersStep, FollowStep, ArchivedStep
    DEF AccountsInv
  <1> QED
    BY AccountsInit, <1>1, PTL DEF Spec

(***************************************************************************)
(* The theorems                                                            *)
(***************************************************************************)

\* Employee records, logins and handlers stay what they are declared to be; the code
\* of a new employee is a number because the codes given have a highest one.
THEOREM TypeCorrect == Spec => []TypeOK
  BY AccountsKept, PTL DEF AccountsInv

\* However many handlers overlap and stop half way, a login that an answered onboarding
\* made has its employee; and when they run one after the other, an employee's login is
\* there, and nobody else's as long as no record was archived (createEmployee,
\* provisionUserAccount).
THEOREM LoginsStayOwned == Spec => []LoginsOwned
  <1>1. AccountsInv => LoginsOwned
    <2> SUFFICES ASSUME AccountsInv PROVE LoginsOwned
      OBVIOUS
    <2>1. NoOrphanLogin
      BY DEF AccountsInv, LoginsInv, NoOrphanLogin, Running
    <2>2. LoginExists
      BY DEF AccountsInv, ThereInv, LoginExists
    <2>3. OneOwner
      BY DEF AccountsInv, OwnersInv, OneOwner, NoArchive
    <2> QED
      BY <2>1, <2>2, <2>3 DEF LoginsOwned
  <1> QED
    BY AccountsKept, <1>1, PTL

\* A login says of its employee what the record says: an archived employee's login stays
\* deleted, however the handlers interleave; and when they run one after the other, the
\* password on the record signs in, and who may sign in is who the record says may
\* (changeStatus, deleteEmployee, resendOnboardingCredentials).
THEOREM LoginsKeepFollowing == Spec => []LoginsFollow
  <1>1. AccountsInv => LoginsFollow
    <2> SUFFICES ASSUME AccountsInv PROVE LoginsFollow
      OBVIOUS
    <2>0. TypeOK /\ ThereInv /\ OwnersInv /\ FollowInv /\ ArchivedSignsOut
      BY DEF AccountsInv
    <2>1. ASSUME NoArchive, Quiet, NEW e \in Calls, Live(e)
          PROVE  LET u == login[employee[e].login]
                 IN  /\ u.password = employee[e].password /\ u.there /\ ~u.deleted
                     /\ employee[e].status = "ACTIVE" => u.status = "ACTIVE"
                     /\ Used("resend") \/ (employee[e].status # "ACTIVE" => u.status # "ACTIVE")
      <3>1. Follows(e)
        BY <2>0, <2>1 DEF FollowInv
      <3>2. ~Between("resend", "record", e) /\ ~Between("status", "login", e)
        BY <2>1 DEF Between, Quiet, Running
      <3>3. login[employee[e].login].there
        BY <2>0, <2>1 DEF ThereInv, LoginExists, NoArchive
      <3>4. ~login[employee[e].login].deleted
        BY <2>0, <2>1, Types DEF OwnersInv, NoArchive, Records
      <3> QED
        BY <3>1, <3>2, <3>3, <3>4 DEF Follows
    <2>2. PasswordWorks
      BY <2>1 DEF PasswordWorks, NoArchive
    <2>3. LeaversLockedOut
      BY <2>1 DEF LeaversLockedOut, NoArchive
    <2>4. ActiveCanSignIn
      BY <2>1 DEF ActiveCanSignIn, NoArchive
    <2> QED
      BY <2>0, <2>2, <2>3, <2>4 DEF LoginsFollow
  <1> QED
    BY AccountsKept, <1>1, PTL
=============================================================================
