----------------------------- MODULE MCServices -----------------------------
(***************************************************************************)
(* Small instances of the components that share no state, checked in one   *)
(* run: a behaviour is of one part, in one regime of it, and leaves the    *)
(* variables of the other parts at 0.                                      *)
(***************************************************************************)
EXTENDS Integers, Sequences, FiniteSets, TLC

CONSTANTS Calls, People, Concepts, Users, Depts, Tabs, Fetches

VARIABLES part, call, aborts, regime,
          quiz, bank, assigned, reviewed, lost, texts,
          attempts, assignment, profile, loop, practice, folds,
          admins, inactive, role, held, invitations, account,
          record, requests,
          rows,
          edges, counts,
          employee, sessions, review, transitions,
          dept, staff,
          sends, refresh, stored, cookie, server,
          page, handler, submitted, paper, clock, storage, taken,
          order, question, sitting,
          wallets, holidays, opts, limit

quizVars   == <<quiz, bank, assigned, reviewed, lost, texts>>
arenaVars  == <<attempts, assignment, profile, loop, practice, folds>>
userVars   == <<admins, inactive, role, held, invitations, account>>
dayVars    == <<record, requests>>
payVars    == <<rows>>
followVars == <<edges, counts>>
lifeVars   == <<employee, sessions, review, transitions>>
deptVars   == <<dept, staff>>
clientVars == <<sends, refresh, stored, cookie, server>>
playVars   == <<page, handler, submitted, paper, clock, storage, taken>>
orderVars  == <<order>>
gradeVars  == <<question, sitting>>
yearVars   == <<wallets, holidays, opts, limit>>

Q == INSTANCE Quizzes
A == INSTANCE QuizArena
U == INSTANCE UserAdministration
D == INSTANCE Attendance
P == INSTANCE Payroll
F == INSTANCE FollowCounters
L == INSTANCE Lifecycle
O == INSTANCE Departments
C == INSTANCE ApiClient WITH Requests <- Fetches, requests <- sends
H == INSTANCE QuizPlay
M == INSTANCE QuestionOrders
G == INSTANCE Grading
Y == INSTANCE LeaveYear

Symm == Permutations(Calls) \cup Permutations(Concepts) \cup Permutations(Users)

-----------------------------------------------------------------------------
(* The regimes of each part: how many handlers run at once, which ones, and *)
(* the bounds on what they create                                           *)

QuizRegime(width, handlers, texts_, aborts_) ==
    [width |-> width, handlers |-> handlers, texts |-> texts_, aborts |-> aborts_]

QuizRegimes ==
    {QuizRegime(1, {"edit", "pull", "move"}, 2, 0),
     QuizRegime(1, {"rewrite", "move"}, 3, 0),
     QuizRegime(1, {"edit", "rewrite", "move", "assign", "unassign"}, 2, 1),
     QuizRegime(2, {"edit", "rewrite", "move"}, 2, 0),
     QuizRegime(2, {"edit", "pull"}, 2, 0),
     QuizRegime(2, {"rewrite", "pull"}, 2, 0),
     QuizRegime(2, {"move", "assign", "unassign"}, 1, 0)}

ArenaRegime(width, handlers, maxAttempts, attempts_, sets, questions, aborts_) ==
    [width |-> width, handlers |-> handlers, maxAttempts |-> maxAttempts,
     attempts |-> attempts_, sets |-> sets, aborts |-> aborts_, passing |-> 2,
     questions |-> questions]

ArenaRegimes ==
    {ArenaRegime(1, {"submit", "build", "practise"}, 2, 2, 2, 2, 1),
     ArenaRegime(1, {"submit", "coach", "build", "practise"}, 0, 3, 1, 2, 0),
     ArenaRegime(2, {"submit"}, 1, 2, 0, 1, 0),
     ArenaRegime(2, {"submit", "coach"}, 0, 2, 0, 1, 0),
     ArenaRegime(2, {"submit", "coach", "practise", "build"}, 0, 1, 1, 1, 0)}

UserRegime(width, handlers, invitations_, resends, aborts_) ==
    [width |-> width, handlers |-> handlers, invitations |-> invitations_,
     resends |-> resends, aborts |-> aborts_]

UserRegimes ==
    {UserRegime(1, {"roles", "status", "delete"}, 0, 0, 0),
     UserRegime(2, {"roles", "delete", "rename"}, 0, 0, 0),
     UserRegime(1, {"invite", "accept", "resend", "revoke"}, 1, 4, 0),
     UserRegime(1, {"invite", "accept", "resend", "revoke"}, 2, 1, 1),
     UserRegime(2, {"invite", "accept", "revoke"}, 2, 0, 0),
     UserRegime(2, {"invite", "accept", "resend"}, 1, 2, 0)}

DayRegime(width, handlers, rule, times, openEnds, requests_, aborts_) ==
    [width |-> width, handlers |-> handlers, rule |-> rule, times |-> times,
     openEnds |-> openEnds, requests |-> requests_, aborts |-> aborts_]

DayRegimes ==
    {DayRegime(1, {"punch", "raise", "decide", "cancel"}, D!GENERAL,
               {500, 570, 800, 1200}, FALSE, 1, 1),
     DayRegime(1, {"punch", "raise", "decide"}, D!GENERAL, {540, 570, 1080}, FALSE, 2, 0),
     DayRegime(1, {"punch", "raise", "decide"}, D!NIGHT, {400, 1330, 1400}, TRUE, 2, 0),
     DayRegime(1, {"punch", "raise", "decide"}, D!NIGHT, {400, 1330, 1400}, FALSE, 2, 0),
     DayRegime(2, {"punch", "raise", "decide", "cancel"}, D!GENERAL, {540, 1080}, FALSE, 2, 0)}

Pay(working, basic, deductions) ==
    [totalDays |-> 30, workingDays |-> working, basicSalary |-> basic, extras |-> 50,
     deductions |-> deductions]

PayRegime(width, handlers, edits, rows_, sends_, aborts_) ==
    [width |-> width, handlers |-> handlers, pays |-> {Pay(30, 1000, 100), Pay(31, 1000, 0)},
     edits |-> edits, rows |-> rows_, sends |-> sends_, aborts |-> aborts_]

\* An edit of days, one that takes off more than was earned, and one of nothing.
PayEdits == {"workingDays" :> 7, "deductions" :> 2000, <<>>}

PayRegimes ==
    {PayRegime(1, {"create", "update", "remove", "send"}, PayEdits, 1, 2, 1),
     PayRegime(1, {"create", "update", "remove"}, PayEdits, 2, 0, 0),
     PayRegime(2, {"create", "remove"}, {<<>>}, 3, 0, 0),
     PayRegime(2, {"create", "update", "remove", "send"}, {"workingDays" :> 7}, 1, 1, 0)}

FollowRegime(width, handlers, edges_, most, aborts_) ==
    [width |-> width, handlers |-> handlers, edges |-> edges_, most |-> most,
     aborts |-> aborts_]

FollowRegimes ==
    {FollowRegime(1, {"follow", "unfollow", "reconcile"}, 2, 2, 2),
     FollowRegime(2, {"follow", "unfollow"}, 2, 2, 1),
     FollowRegime(2, {"follow", "unfollow", "reconcile"}, 1, 1, 0)}

LifeRegime(width, handlers, status, tasks, bounds, aborts_) ==
    [width |-> width, handlers |-> handlers, status |-> status, tasks |-> tasks,
     sessions |-> bounds[1], end |-> bounds[2], transitions |-> bounds[3],
     places |-> bounds[4], aborts |-> aborts_]

LifeRegimes ==
    {LifeRegime(1, {"onboard", "task", "step"}, "JOINING", L!AllTasks, <<1, 0, 0, 0>>, 1),
     LifeRegime(1, {"onboard", "task", "sync", "evaluate", "sign"}, "ACTIVE", {"staff"},
                <<2, 2, 0, 0>>, 1),
     LifeRegime(1, {"sync", "evaluate", "sign"}, "PROBATION", {}, <<0, 2, 0, 0>>, 1),
     LifeRegime(1, {"move"}, "ACTIVE", {}, <<0, 0, 3, 2>>, 1),
     LifeRegime(2, {"move"}, "ACTIVE", {}, <<0, 0, 2, 2>>, 0),
     LifeRegime(2, {"onboard", "task", "step"}, "JOINING", {"policy", "staff"}, <<1, 0, 0, 0>>, 0),
     LifeRegime(2, {"sync", "evaluate", "sign"}, "PROBATION", {}, <<0, 1, 0, 0>>, 0)}

DeptRegime(width, handlers, stale, aborts_) ==
    [width |-> width, handlers |-> handlers, stale |-> stale, aborts |-> aborts_]

DeptRegimes ==
    {DeptRegime(1, {"create", "move", "delete", "staff"}, FALSE, 0),
     DeptRegime(1, {"create", "move", "delete"}, TRUE, 1),
     DeptRegime(1, {"create", "move", "toggle"}, FALSE, 0),
     DeptRegime(2, {"create", "move"}, FALSE, 0)}

ClientRegimes ==
    {[tabs |-> {CHOOSE t \in Tabs : TRUE}, expiries |-> 2, lost |-> 1],
     [tabs |-> Tabs, expiries |-> 1, lost |-> 1]}

PlayRegimes ==
    {[changes |-> 2, toasts |-> 1, failures |-> 1, loads |-> 1, hours |-> 3, limit |-> 2],
     [changes |-> 1, toasts |-> 0, failures |-> 0, loads |-> 2, hours |-> 4, limit |-> 2]}

\* Mixes of every size are looked at; a few of them are written.
OrderRegimes ==
    {[totals |-> 1..20, most |-> 4, run |-> FALSE],
     [totals |-> {4, 7}, most |-> 1, run |-> TRUE]}

YearRegime(width, handlers, active, late, aborts_) ==
    [width |-> width, handlers |-> handlers, active |-> active, late |-> late,
     aborts |-> aborts_]

YearRegimes ==
    {YearRegime(1, {"seed", "use"}, {"EL", "SL"}, FALSE, 1),
     YearRegime(1, {"seed", "assign", "use"}, {"EL"}, TRUE, 0),
     YearRegime(2, {"seed", "use"}, {"EL"}, TRUE, 0),
     YearRegime(2, {"seed"}, {"EL", "SL"}, FALSE, 0),
     YearRegime(1, {"avail", "cancel", "toggle", "change", "delete", "calendar"}, {}, FALSE, 0),
     YearRegime(2, {"avail", "change", "delete"}, {}, FALSE, 1)}

-----------------------------------------------------------------------------
(* One part is initialised and takes every step; the others are off *)

QuizzesInit ==
    IF part = "quizzes" THEN regime \in QuizRegimes /\ Q!Init
    ELSE quiz = 0 /\ bank = 0 /\ assigned = 0 /\ reviewed = 0 /\ lost = 0 /\ texts = 0

ArenaInit ==
    IF part = "arena" THEN regime \in ArenaRegimes /\ A!Init
    ELSE /\ attempts = 0 /\ assignment = 0 /\ profile = 0 /\ loop = 0 /\ practice = 0
         /\ folds = 0

UsersInit ==
    IF part = "users" THEN regime \in UserRegimes /\ U!Init
    ELSE admins = 0 /\ inactive = 0 /\ role = 0 /\ held = 0 /\ invitations = 0 /\ account = 0

DayInit ==
    IF part = "day" THEN regime \in DayRegimes /\ D!Init ELSE record = 0 /\ requests = 0

PayInit ==
    IF part = "payroll" THEN regime \in PayRegimes /\ P!Init ELSE rows = 0

FollowInit ==
    IF part = "follows" THEN regime \in FollowRegimes /\ F!Init ELSE edges = 0 /\ counts = 0

LifeInit ==
    IF part = "lifecycle" THEN regime \in LifeRegimes /\ L!Init
    ELSE employee = 0 /\ sessions = 0 /\ review = 0 /\ transitions = 0

DeptInit ==
    IF part = "departments" THEN regime \in DeptRegimes /\ O!Init ELSE dept = 0 /\ staff = 0

ClientInit ==
    IF part = "client" THEN regime \in ClientRegimes /\ C!Init
    ELSE sends = 0 /\ refresh = 0 /\ stored = 0 /\ cookie = 0 /\ server = 0

PlayInit ==
    IF part = "play" THEN regime \in PlayRegimes /\ H!Init
    ELSE /\ page = 0 /\ handler = 0 /\ submitted = 0 /\ paper = 0 /\ clock = 0
         /\ storage = 0 /\ taken = 0

OrderInit == IF part = "orders" THEN regime \in OrderRegimes /\ M!Init ELSE order = 0

GradeInit ==
    IF part = "grading" THEN regime = 0 /\ G!Init ELSE question = 0 /\ sitting = 0

YearInit ==
    IF part = "year" THEN regime \in YearRegimes /\ Y!Init
    ELSE wallets = 0 /\ holidays = 0 /\ opts = 0 /\ limit = 0

Init ==
    /\ part \in {"quizzes", "arena", "users", "day", "payroll", "follows", "lifecycle",
                 "departments", "client", "play", "orders", "grading", "year"}
    /\ QuizzesInit /\ ArenaInit /\ UsersInit /\ DayInit /\ PayInit /\ FollowInit
    /\ LifeInit /\ DeptInit /\ ClientInit /\ PlayInit /\ OrderInit /\ GradeInit /\ YearInit

Next ==
    /\ UNCHANGED part
    /\ IF part = "quizzes" THEN Q!Next ELSE UNCHANGED quizVars
    /\ IF part = "arena" THEN A!Next ELSE UNCHANGED arenaVars
    /\ IF part = "users" THEN U!Next ELSE UNCHANGED userVars
    /\ IF part = "day" THEN D!Next ELSE UNCHANGED dayVars
    /\ IF part = "payroll" THEN P!Next ELSE UNCHANGED payVars
    /\ IF part = "follows" THEN F!Next ELSE UNCHANGED followVars
    /\ IF part = "lifecycle" THEN L!Next ELSE UNCHANGED lifeVars
    /\ IF part = "departments" THEN O!Next ELSE UNCHANGED deptVars
    /\ IF part = "client" THEN C!Next ELSE UNCHANGED clientVars
    /\ IF part = "play" THEN H!Next ELSE UNCHANGED playVars
    /\ IF part = "orders" THEN M!Next ELSE UNCHANGED orderVars
    /\ IF part = "grading" THEN G!Next ELSE UNCHANGED gradeVars
    /\ IF part = "year" THEN Y!Next ELSE UNCHANGED yearVars

vars == <<part, call, aborts, regime, quizVars, arenaVars, userVars, dayVars, payVars,
          followVars, lifeVars, deptVars, clientVars, playVars, orderVars, gradeVars, yearVars>>
Spec == Init /\ [][Next]_vars

-----------------------------------------------------------------------------
\* The variables of the part that runs keep their types.
TypeOK ==
    /\ part = "quizzes" => Q!TypeOK
    /\ part = "arena" => A!TypeOK
    /\ part = "users" => U!TypeOK
    /\ part = "day" => D!TypeOK
    /\ part = "payroll" => P!TypeOK
    /\ part = "follows" => F!TypeOK
    /\ part = "lifecycle" => L!TypeOK
    /\ part = "departments" => O!TypeOK
    /\ part = "client" => C!TypeOK
    /\ part = "play" => H!TypeOK
    /\ part = "orders" => M!TypeOK
    /\ part = "grading" => G!TypeOK
    /\ part = "year" => Y!TypeOK

\* A quiz keeps its review: no edit overwrites questions it had not read, an
\* approval in force is on record, and only an approved quiz that exists is
\* assigned (updateQuiz, regenerateQuestion, transition, assignQuiz).
ReviewStands ==
    part = "quizzes" => /\ Q!NoEditLost /\ Q!ApprovalOnRecord
                        /\ Q!AssignedWasApproved /\ Q!AssignedQuizExists

\* Attempts stay within the policy and are credited and shown, answers count
\* once and stay counted, one practice set is open (submitAttempt, LearningLoop).
AttemptsAccounted ==
    part = "arena" => /\ A!AttemptsWithinPolicy /\ A!CreditHasAttempt
                      /\ A!AssignmentShowsLatest /\ A!CountedAnswersStay
                      /\ A!OneOpenSet /\ A!PracticeCountsOnce

\* Somebody is administrator, a role that is held exists, and an accepted
\* invitation led to one account (assignRoles, deleteRole, acceptInvitation).
UsersInOrder ==
    part = "users" => /\ U!AdminRemains /\ U!HeldRoleExists
                      /\ U!AcceptedHasAccount /\ U!OneAcceptance

\* A day shows what its times say, over midnight too, with the corrections that
\* were approved, one pending at a time (checkOut, evaluateDay, raise, decide).
DayAccounted ==
    part = "day" => /\ D!DayAddsUp /\ D!MissingIsFlagged
                    /\ D!ApprovedIsApplied /\ D!OnePending

\* A period has one payslip, whose totals follow its components and which counts
\* its deliveries (create, update, sendPayslip).
PayAccounted ==
    part = "payroll" => P!TotalsFollowPay /\ P!OneRowPerPeriod /\ P!SentWasMailed

\* A profile's counts are never negative nor below its edges (follow, unfollow).
FollowsCounted == part = "follows" => F!CountsNeverNegative /\ F!CountsCoverEdges

\* An employee and the documents about them agree: onboarding, probation and
\* transitions (updateTask, signoffProbation, createTransition).
EmployeeAgrees ==
    part = "lifecycle" => /\ L!CompletedIsVerified /\ L!CompletedLeftJoining
                          /\ L!ReviewAgrees /\ L!PlaceFollowsTransitions

\* The departments are a forest, and a deleted one is bare
\* (validateHierarchyChange, deleteDepartment).
ForestStands == part = "departments" => O!NoCycle /\ O!DeletedIsBare

\* Within a tab nobody is signed out of a session that is alive, no request is
\* sent more than twice, and the cookie keeps up with the session (apiClient).
ClientStaysIn ==
    part = "client" => C!StaysSignedIn /\ C!SentTwiceAtMost /\ C!CookieKeepsUp

\* A page hands in one attempt, with the single choices that stand on it
\* (QuizPlayPage).
PaperHandedIn == part = "play" => H!ChoicesHandedIn /\ H!OneAttemptPerPage

\* An order of questions comes to what was asked for, is never exceeded and is
\* chased while it is short; a question is graded as it was shown, and one that
\* passes review can be answered right (normalizeMix, generateQuestions, submitAttempt).
QuestionsSound ==
    /\ part = "orders" => /\ M!MixAddsUp /\ M!NeverMoreThanOrdered
                          /\ M!LargestFirst /\ M!ShortfallWasChased
    /\ part = "grading" => G!GradedAsPicked /\ G!ReviewedCanBeRight

\* A day of leave is not both taken and carried, and a restricted holiday that is
\* picked is there, and picked once (applyDefaultsToAll, availRestrictedHoliday).
YearAccounted == part = "year" => Y!NoDayTwice /\ Y!PicksExist /\ Y!PickedOnce

\* What no step undoes: the band that answers earned (masteryBand), a check-in
\* (checkIn), the removal of a payslip (remove), an exact repair
\* (reconcileCounters), the deadline of a paper (loadQuiz), the wallets a seeding
\* made and what is used of them (applyDefaultsToAll), the limit of picks (availRestrictedHoliday).
NothingUndone ==
    [][/\ part = "arena"   => A!BandStep
       /\ part = "day"     => D!CheckInStep
       /\ part = "payroll" => P!RemovedStep
       /\ part = "follows" => F!RepairStep
       /\ part = "play"    => H!DeadlineStep
       /\ part = "year"    => Y!SeededStep /\ Y!UseKeptStep /\ Y!PickStep]_vars

\* Every answer is handed in as it stands on the page, which a comment of
\* QuizPlayPage says and its memoised handler does not do.
EveryAnswerHandedIn == part = "play" => H!EveryAnswerHandedIn
=============================================================================
