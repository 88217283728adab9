----------------------------- MODULE Lifecycle -----------------------------
(***************************************************************************)
(* One employee from joining to confirmation: the onboarding sessions      *)
(* (OnboardingService), the probation review (ProbationService) and the    *)
(* transitions of place (TransitionsService).                              *)
(*                                                                         *)
(* All three write the employee's record and one of their own, in two      *)
(* steps.  A session's tasks are saved as a whole array, which a save only *)
(* does to the version it was read at; other saves write fields.           *)
(***************************************************************************)
EXTENDS Integers, Sequences, FiniteSets, FiniteSetsExt, TLC

CONSTANT Calls  \* slots for handlers that run at the same time

VARIABLES employee,     \* status, end of probation, and place
          sessions,     \* onboarding sessions, in the order they were created
          review,       \* the probation review
          transitions,  \* transitions of place, in the order they were created
          call, aborts, regime

vars == <<employee, sessions, review, transitions, call, aborts, regime>>

AllTasks  == {"policy", "bank", "contact", "staff"}  \* the last stands for the company's own
Tasks     == regime.tasks
TaskStatuses == {"PENDING", "SUBMITTED", "VERIFIED", "REJECTED"}
Fields    == {"department", "manager"}
Places    == [Fields -> Nat]
Open      == {"PENDING_EVALUATION", "UNDER_HR_REVIEW", "EXTENDED"}
Closed    == {"CONFIRMED", "TERMINATED"}

Sessions == [tasks: [Tasks -> TaskStatuses], progress: 0..Cardinality(Tasks),
             status: {"IN_PROGRESS", "COMPLETED"}]

TypeOK ==
    /\ employee.status \in {"JOINING", "PROBATION", "ACTIVE", "TERMINATED"}
    /\ employee.place \in Places /\ employee.end \in Nat
    /\ sessions \in Seq(Sessions)
    /\ review \in [there: BOOLEAN, status: Open \cup Closed, end: Nat]
    /\ transitions \in Seq([previous: Places, next: Places, fields: SUBSET Fields])
    /\ \A c \in Calls : call[c].at \in {"idle", "session", "join", "task", "promote", "step",
                                        "sync", "evaluate", "sign", "signed", "move", "apply"}

-----------------------------------------------------------------------------
Idle == [at |-> "idle"]
Quiet == \A c \in Calls : call[c].at = "idle"

Begin(c, handler, k) ==
    /\ handler \in regime.handlers
    /\ call[c].at = "idle"
    /\ Cardinality({d \in Calls : call[d].at # "idle"}) < regime.width
    /\ call' = [call EXCEPT ![c] = k]
    /\ UNCHANGED <<employee, sessions, review, transitions, aborts, regime>>

Goto(c, k) == call' = [call EXCEPT ![c] = k]

(* Onboarding *)

NoOpenSession == ~\E i \in DOMAIN sessions : sessions[i].status = "IN_PROGRESS"

InitializeRead(c) ==
    /\ Len(sessions) < regime.sessions
    /\ NoOpenSession
    /\ Begin(c, "onboard", [at |-> "session", joining |-> employee.status = "JOINING"])

InitializeSave(c) ==
    /\ call[c].at = "session"
    /\ sessions' = Append(sessions, [tasks |-> [t \in Tasks |-> "PENDING"],
                                     progress |-> 0, status |-> "IN_PROGRESS"])
    /\ Goto(c, IF call[c].joining THEN Idle ELSE [at |-> "join"])
    /\ UNCHANGED <<employee, review, transitions, aborts, regime>>

Join(c) ==
    /\ call[c].at = "join"
    /\ employee' = [employee EXCEPT !.status = "JOINING"]
    /\ Goto(c, Idle)
    /\ UNCHANGED <<sessions, review, transitions, aborts, regime>>

Verified(tasks) == Cardinality({t \in Tasks : tasks[t] = "VERIFIED"})

\* A session with a task of it set, counted again and closed or opened by the count.
Counted(session, task, status) ==
    LET tasks == [session.tasks EXCEPT ![task] = status]
    IN  [session EXCEPT !.tasks = tasks, !.progress = Verified(tasks),
                        !.status = IF Verified(tasks) = Cardinality(Tasks)
                                   THEN "COMPLETED" ELSE "IN_PROGRESS"]

\* What a save writes: the tasks, and the other fields that changed.
Written(old, new) == [f \in {f \in DOMAIN new : f = "tasks" \/ new[f] # old[f]} |-> new[f]]

TaskRead(c) ==
    \E i \in DOMAIN sessions, t \in Tasks, status \in {"VERIFIED", "REJECTED"} :
        LET new == Counted(sessions[i], t, status)
        IN  Begin(c, "task", [at |-> IF new.status = "COMPLETED" THEN "promote" ELSE "task",
                              session |-> i, set |-> Written(sessions[i], new), fresh |-> TRUE])

\* Faulty variant: the session is saved and the employee left as it is.
PromoteLater(c) ==
    /\ call[c].at = "promote"
    /\ Goto(c, [call[c] EXCEPT !.at = "task"])
    /\ UNCHANGED <<employee, sessions, review, transitions, aborts, regime>>

\* The employee first, the session that says so after.
Promote(c) ==
    /\ call[c].at = "promote"
    /\ employee' = [employee EXCEPT !.status = "PROBATION"]
    /\ Goto(c, [call[c] EXCEPT !.at = "task"])
    /\ UNCHANGED <<sessions, review, transitions, aborts, regime>>

\* Faulty variant: the array is saved over whatever is there.
SavesOver(c) == call[c].at \in {"task", "step"}

\* A save is refused when the session was saved since this handler read it.
Saves(c) == call[c].at \in {"task", "step"} /\ call[c].fresh

TaskSave(c) ==
    /\ Saves(c)
    /\ sessions' = [sessions EXCEPT ![call[c].session] = call[c].set @@ @]
    /\ call' = [d \in Calls |->
                   IF d = c THEN Idle
                   ELSE IF "fresh" \in DOMAIN call[d] /\ call[d].session = call[c].session
                   THEN [call[d] EXCEPT !.fresh = FALSE] ELSE call[d]]
    /\ UNCHANGED <<employee, review, transitions, aborts, regime>>

TaskRefused(c) ==
    /\ call[c].at \in {"task", "step"} /\ ~Saves(c)
    /\ Goto(c, Idle)
    /\ UNCHANGED <<employee, sessions, review, transitions, aborts, regime>>

\* What a step of the candidate sets; the progress is not counted again.
Submitted(session, step) ==
    CASE step = "policy"  -> [session EXCEPT !.tasks["policy"] = "VERIFIED"]
      [] step = "bank"    -> [session EXCEPT !.tasks["bank"] = "SUBMITTED"]
      [] step = "contact" -> [session EXCEPT !.tasks["contact"] =
                                 IF @ = "PENDING" THEN "SUBMITTED" ELSE @]

StepRead(c) ==
    \E i \in DOMAIN sessions, step \in Tasks \ {"staff"} :
        /\ sessions[i].status = "IN_PROGRESS"
        /\ Begin(c, "step", [at |-> "step", session |-> i,
                             set |-> Written(sessions[i], Submitted(sessions[i], step)),
                             fresh |-> TRUE])

-----------------------------------------------------------------------------
(* Probation *)

\* A review is opened for whoever is on probation and has none: listing does that.
SyncRead(c) ==
    /\ employee.status = "PROBATION" /\ ~review.there
    /\ Begin(c, "sync", [at |-> "sync", end |-> employee.end])

\* A second review is refused by its unique key.
SyncCreate(c) ==
    /\ call[c].at = "sync"
    /\ review' = IF review.there THEN review
                 ELSE [there |-> TRUE, status |-> "PENDING_EVALUATION", end |-> call[c].end]
    /\ Goto(c, Idle)
    /\ UNCHANGED <<employee, sessions, transitions, aborts, regime>>

EvaluateRead(c) ==
    /\ review.there /\ review.status \notin Closed
    /\ Begin(c, "evaluate", [at |-> "evaluate"])

EvaluateSave(c) ==
    /\ call[c].at = "evaluate"
    /\ review' = [review EXCEPT !.status = "UNDER_HR_REVIEW"]
    /\ Goto(c, Idle)
    /\ UNCHANGED <<employee, sessions, transitions, aborts, regime>>

\* A review that was signed off can be signed off again.
SignRead(c) ==
    /\ review.there
    /\ \E verdict \in Closed \cup {"EXTENDED"} :
          /\ verdict = "EXTENDED" => review.end < regime.end
          /\ Begin(c, "sign", [at |-> "sign", verdict |-> verdict, end |-> review.end + 1])

\* Faulty variant: an extension leaves the employee's own date.
SignEmployeeStatus(c) ==
    /\ call[c].at = "sign"
    /\ employee' = CASE call[c].verdict = "CONFIRMED"  -> [employee EXCEPT !.status = "ACTIVE"]
                     [] call[c].verdict = "TERMINATED" -> [employee EXCEPT !.status = "TERMINATED"]
                     [] call[c].verdict = "EXTENDED"   -> employee
    /\ Goto(c, [call[c] EXCEPT !.at = "signed"])
    /\ UNCHANGED <<sessions, review, transitions, aborts, regime>>

SignEmployee(c) ==
    /\ call[c].at = "sign"
    /\ employee' = CASE call[c].verdict = "CONFIRMED"  -> [employee EXCEPT !.status = "ACTIVE"]
                     [] call[c].verdict = "TERMINATED" -> [employee EXCEPT !.status = "TERMINATED"]
                     [] call[c].verdict = "EXTENDED"   -> [employee EXCEPT !.end = call[c].end]
    /\ Goto(c, [call[c] EXCEPT !.at = "signed"])
    /\ UNCHANGED <<sessions, review, transitions, aborts, regime>>

SignSave(c) ==
    /\ call[c].at = "signed"
    /\ review' = [review EXCEPT !.status = call[c].verdict,
                                !.end = IF call[c].verdict = "EXTENDED" THEN call[c].end ELSE @]
    /\ Goto(c, Idle)
    /\ UNCHANGED <<employee, sessions, transitions, aborts, regime>>

-----------------------------------------------------------------------------
(* Transitions *)

MoveRead(c) ==
    \E change \in UNION {[fields -> 1..regime.places] : fields \in SUBSET Fields \ {{}}} :
        /\ Len(transitions) < regime.transitions
        /\ Begin(c, "move", [at |-> "move", previous |-> employee.place, change |-> change])

MoveCreate(c) ==
    /\ call[c].at = "move"
    /\ transitions' = Append(transitions, [previous |-> call[c].previous,
                                           next |-> call[c].change @@ call[c].previous,
                                           fields |-> DOMAIN call[c].change])
    /\ Goto(c, [at |-> "apply", change |-> call[c].change])
    /\ UNCHANGED <<employee, sessions, review, aborts, regime>>

\* Faulty variant: a transfer takes the place a whole.
MoveApplyDepartment(c) ==
    /\ call[c].at = "apply"
    /\ employee' = [employee EXCEPT !.place = [f \in Fields |->
                       IF f \in DOMAIN call[c].change THEN call[c].change[f] ELSE 0]]
    /\ Goto(c, Idle)
    /\ UNCHANGED <<sessions, review, transitions, aborts, regime>>

\* The fields of the transition, and no others.
MoveApply(c) ==
    /\ call[c].at = "apply"
    /\ employee' = [employee EXCEPT !.place = call[c].change @@ @]
    /\ Goto(c, Idle)
    /\ UNCHANGED <<sessions, review, transitions, aborts, regime>>

\* The server stops, and the handler with it.
Stop(c) ==
    /\ call[c].at # "idle" /\ aborts < regime.aborts
    /\ aborts' = aborts + 1
    /\ Goto(c, Idle)
    /\ UNCHANGED <<employee, sessions, review, transitions, regime>>

Init ==
    /\ employee = [status |-> regime.status, end |-> 0, place |-> [f \in Fields |-> 0]]
    /\ sessions = <<>>
    /\ review = [there |-> FALSE, status |-> "PENDING_EVALUATION", end |-> 0]
    /\ transitions = <<>>
    /\ call = [c \in Calls |-> Idle]
    /\ aborts = 0

Next ==
    \E c \in Calls :
        \/ InitializeRead(c) \/ InitializeSave(c) \/ Join(c)
        \/ TaskRead(c) \/ Promote(c) \/ TaskSave(c) \/ TaskRefused(c) \/ StepRead(c)
        \/ SyncRead(c) \/ SyncCreate(c) \/ EvaluateRead(c) \/ EvaluateSave(c)
        \/ SignRead(c) \/ SignEmployee(c) \/ SignSave(c)
        \/ MoveRead(c) \/ MoveCreate(c) \/ MoveApply(c) \/ Stop(c)

-----------------------------------------------------------------------------
Sequential == regime.width = 1

\* A session that is completed has every task verified, however the candidate's
\* steps and the company's updates overlap (the version a session is saved at).
CompletedIsVerified ==
    \A i \in DOMAIN sessions :
        sessions[i].status = "COMPLETED" =>
            \A t \in Tasks : sessions[i].tasks[t] = "VERIFIED"

\* One request at a time, an employee whose session is completed is no longer
\* joining, even when the server stopped between the two (updateTask).
CompletedLeftJoining ==
    Sequential /\ regime.sessions = 1 =>
        \A i \in DOMAIN sessions :
            sessions[i].status = "COMPLETED" => employee.status # "JOINING"

\* One sign-off at a time and none stopped, the review and the employee agree on
\* the verdict and the date; a stopped one leaves the date on the employee alone,
\* never on the review alone (signoffProbation).
ReviewAgrees ==
    Sequential /\ review.there =>
        /\ review.end <= employee.end
        /\ aborts = 0 /\ Quiet /\ "task" \notin regime.handlers =>
              /\ review.end = employee.end
              /\ review.status = "CONFIRMED" => employee.status = "ACTIVE"
              /\ review.status = "TERMINATED" => employee.status = "TERMINATED"

\* With no transition stopped half way, a field of the employee's place is what
\* one of the transitions of it said, however they overlap; one at a time, each
\* starts where the one before it ended (createTransition).
PlaceFollowsTransitions ==
    aborts = 0 /\ Quiet =>
        /\ \A f \in Fields :
              LET moves == {i \in DOMAIN transitions : f \in transitions[i].fields}
              IN  moves # {} => \E i \in moves : employee.place[f] = transitions[i].next[f]
        /\ Sequential =>
              \A i \in DOMAIN transitions :
                  transitions[i].next = IF i = Len(transitions) THEN employee.place
                                        ELSE transitions[i + 1].previous
=============================================================================
