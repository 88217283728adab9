------------------------------ MODULE QuizArena ------------------------------
(***************************************************************************)
(* One employee sitting one quiz: QuizService.submitAttempt with the       *)
(* assignment and the gamification profile it updates, and the learning    *)
(* loop of LearningLoopService that it feeds, with coaching and practice.  *)
(*                                                                         *)
(* The quiz has one question for each concept.  A handler's reads before a *)
(* write are one action, each write is another.  The loop's tallies are a  *)
(* list, so saving them is bound to the version that was read; the profile *)
(* is saved unbound.                                                       *)
(***************************************************************************)
EXTENDS Integers, Sequences, FiniteSets, FiniteSetsExt

CONSTANTS Calls,    \* slots for handlers that run at the same time
          Concepts

VARIABLES attempts,    \* attempts, in the order they were saved
          assignment,  \* the employee's assignment of the quiz
          profile,     \* the gamification profile
          loop,        \* the learning loop
          practice,    \* practice sets, in the order they were created
          folds,       \* saves of the loop that counted answers
          call, aborts, regime

vars == <<attempts, assignment, profile, loop, practice, folds, call, aborts, regime>>

Bands   == <<"FRAGILE", "DEVELOPING", "SOLID", "MASTERED">>
Tallies == [Concepts -> [seen: Nat, correct: Nat]]
Loops   == [there: BOOLEAN, concepts: Tallies, weakConcepts: SUBSET Concepts,
            coached: SUBSET Concepts, attemptCount: Nat, practiceCount: Nat]
Profiles == [there: BOOLEAN, quizzesCompleted: Nat]

TypeOK ==
    /\ attempts \in Seq([right: SUBSET Concepts, passed: BOOLEAN])
    /\ assignment \in [status: {"NONE", "PENDING", "COMPLETED"}, passed: BOOLEAN]
    /\ profile \in Profiles
    /\ loop \in Loops
    /\ practice \in Seq([status: {"OPEN", "COMPLETED"}, concepts: SUBSET Concepts,
                         counted: Nat])
    /\ call \in [Calls -> [at: {"idle", "attempt", "assignment", "profile", "credit",
                    "loop", "fold", "coach", "close", "create", "grade", "practised",
                    "practice"},
                  right: SUBSET Concepts, item: Nat, profile: Profiles, loop: Loops,
                  raised: BOOLEAN]]

NoLoop    == [there |-> FALSE, concepts |-> [k \in Concepts |-> [seen |-> 0, correct |-> 0]],
              weakConcepts |-> {}, coached |-> {}, attemptCount |-> 0, practiceCount |-> 0]
NoProfile == [there |-> FALSE, quizzesCompleted |-> 0]
Idle == [at |-> "idle", right |-> {}, item |-> 0, profile |-> NoProfile, loop |-> NoLoop,
         raised |-> FALSE]
Quiet == \A c \in Calls : call[c].at = "idle"

Begin(c, handler, record) ==
    /\ handler \in regime.handlers
    /\ call[c].at = "idle"
    /\ Cardinality({d \in Calls : call[d].at # "idle"}) < regime.width
    /\ call' = [call EXCEPT ![c] = record]
    /\ UNCHANGED <<attempts, assignment, profile, loop, practice, folds, aborts, regime>>

Goto(c, at) == call' = [call EXCEPT ![c].at = at]
End(c) == call' = [call EXCEPT ![c] = Idle]

-----------------------------------------------------------------------------
(* What an answer says about a concept *)

\* Math.round of the share of right answers.
masteryPct(tally) ==
    IF tally.seen = 0 THEN 0
    ELSE (200 * tally.correct + tally.seen) \div (2 * tally.seen)

\* Faulty variant: sixty in a hundred is solid.
BandSixty(tally) ==
    LET pct == masteryPct(tally)
    IN  CASE tally.seen < 3 -> IF pct >= 50 THEN 2 ELSE 1
          [] OTHER -> CASE pct >= 90 -> 4
                        [] pct >= 60 /\ pct < 90 -> 3
                        [] pct >= 40 /\ pct < 60 -> 2
                        [] OTHER -> 1

\* The band as its place in Bands: below three answers at most DEVELOPING.
Band(tally) ==
    LET pct == masteryPct(tally)
    IN  CASE tally.seen < 3 -> IF pct >= 50 THEN 2 ELSE 1
          [] OTHER -> CASE pct >= 90 -> 4
                        [] pct >= 70 /\ pct < 90 -> 3
                        [] pct >= 40 /\ pct < 70 -> 2
                        [] OTHER -> 1

StillWeak(tally) == Bands[Band(tally)] \in {"FRAGILE", "DEVELOPING"}

\* n answers about each of the concepts, all of them right where in right.
applyOutcomes(tallies, concepts, right, n) ==
    [k \in Concepts |->
        IF k \notin concepts THEN tallies[k]
        ELSE [seen    |-> tallies[k].seen + n,
              correct |-> tallies[k].correct + (IF k \in right THEN n ELSE 0)]]

\* Faulty variant: the tallies are written over whatever others have counted.
LoopSaveBlind(c, new) ==
    /\ loop.there = call[c].loop.there
    /\ loop' = new
    /\ call' = [call EXCEPT ![c] = Idle]

\* A first save inserts under a unique key, a later one is bound to the version.
LoopSave(c, new) ==
    /\ loop.there = call[c].loop.there /\ ~call[c].raised
    /\ loop' = new
    /\ call' = [d \in Calls |-> IF d = c \/ call[d].at = "idle" THEN Idle
                                ELSE [call[d] EXCEPT !.raised = @ \/ call[d].loop.there]]

LoopStale(c) == loop.there # call[c].loop.there \/ call[c].raised

LoopFails(c) ==
    /\ LoopStale(c) /\ End(c)
    /\ UNCHANGED <<attempts, assignment, profile, loop, practice, folds, aborts, regime>>

ReadLoop(c, at) ==
    call' = [call EXCEPT ![c].at = at, ![c].loop = loop, ![c].raised = FALSE]

-----------------------------------------------------------------------------
(* Submitting an attempt *)

\* Faulty variant: only the number of attempts is looked at.
AttemptAllowedAgain == regime.maxAttempts > 0 => Len(attempts) < regime.maxAttempts

\* A pass closes the quiz, and 0 attempts means no limit.
AttemptAllowed ==
    /\ ~\E i \in DOMAIN attempts : attempts[i].passed
    /\ regime.maxAttempts > 0 => Len(attempts) < regime.maxAttempts

Assign ==
    /\ "submit" \in regime.handlers
    /\ assignment.status = "NONE"
    /\ assignment' = [status |-> "PENDING", passed |-> FALSE]
    /\ UNCHANGED <<attempts, profile, loop, practice, folds, call, aborts, regime>>

SubmitRead(c) ==
    /\ AttemptAllowed
    /\ Len(attempts) + Cardinality({d \in Calls : call[d].at = "attempt"}) < regime.attempts
    /\ \E right \in SUBSET Concepts :
          Begin(c, "submit", [Idle EXCEPT !.at = "attempt", !.right = right])

Passed(right) == Cardinality(right) >= regime.passing

SubmitSave(c) ==
    /\ call[c].at = "attempt"
    /\ attempts' = Append(attempts, [right |-> call[c].right, passed |-> Passed(call[c].right)])
    /\ Goto(c, "assignment")
    /\ UNCHANGED <<assignment, profile, loop, practice, folds, aborts, regime>>

\* Faulty variant: an assignment that was passed keeps the first result.
SubmitAssignmentOnce(c) ==
    /\ call[c].at = "assignment"
    /\ assignment' = IF assignment.status # "PENDING" THEN assignment
                     ELSE [status |-> "COMPLETED", passed |-> Passed(call[c].right)]
    /\ Goto(c, "profile")
    /\ UNCHANGED <<attempts, profile, loop, practice, folds, aborts, regime>>

SubmitAssignment(c) ==
    /\ call[c].at = "assignment"
    /\ assignment' = IF assignment.status = "NONE" THEN assignment
                     ELSE [status |-> "COMPLETED", passed |-> Passed(call[c].right)]
    /\ Goto(c, "profile")
    /\ UNCHANGED <<attempts, profile, loop, practice, folds, aborts, regime>>

CreditRead(c) ==
    /\ call[c].at = "profile"
    /\ call' = [call EXCEPT ![c].at = "credit", ![c].profile = profile]
    /\ UNCHANGED <<attempts, assignment, profile, loop, practice, folds, aborts, regime>>

\* Faulty variant: a new profile starts with one quiz to its name.
CreditSaveFromOne(c) ==
    /\ call[c].at = "credit"
    /\ IF profile.there /\ ~call[c].profile.there
       THEN End(c) /\ UNCHANGED profile
       ELSE /\ profile' = [there |-> TRUE,
                  quizzesCompleted |-> 1 + (IF call[c].profile.there
                                            THEN call[c].profile.quizzesCompleted ELSE 1)]
            /\ Goto(c, "loop")
    /\ UNCHANGED <<attempts, assignment, loop, practice, folds, aborts, regime>>

\* A second first profile breaks the unique key, and the request ends there.
CreditSave(c) ==
    /\ call[c].at = "credit"
    /\ IF profile.there /\ ~call[c].profile.there
       THEN End(c) /\ UNCHANGED profile
       ELSE /\ profile' = [there |-> TRUE,
                           quizzesCompleted |-> call[c].profile.quizzesCompleted + 1]
            /\ Goto(c, "loop")
    /\ UNCHANGED <<attempts, assignment, loop, practice, folds, aborts, regime>>

RecordRead(c) ==
    /\ call[c].at = "loop"
    /\ ReadLoop(c, "fold")
    /\ UNCHANGED <<attempts, assignment, profile, loop, practice, folds, aborts, regime>>

\* What was missed is now what is weak; a failure here is swallowed.
RecordSave(c) ==
    LET seen == call[c].loop
    IN  /\ call[c].at = "fold"
        /\ \/ /\ LoopSave(c, [seen EXCEPT !.there = TRUE, !.attemptCount = @ + 1,
                        !.weakConcepts = Concepts \ call[c].right,
                        !.concepts = applyOutcomes(@, Concepts, call[c].right, 1)])
              /\ folds' = folds + 1
              /\ UNCHANGED <<attempts, assignment, profile, practice, aborts, regime>>
           \/ LoopFails(c)

-----------------------------------------------------------------------------
(* Coaching and practice *)

CoachRead(c) ==
    /\ loop.there /\ loop.weakConcepts # {}
    /\ Begin(c, "coach", [Idle EXCEPT !.at = "coach", !.loop = loop])

\* The model has answered, and the list of concepts is saved with its coaching.
CoachSave(c) ==
    /\ call[c].at = "coach"
    /\ \/ /\ LoopSave(c, [loop EXCEPT !.concepts = call[c].loop.concepts,
                    !.coached = call[c].loop.coached \cup call[c].loop.weakConcepts])
          /\ UNCHANGED <<attempts, assignment, profile, practice, folds, aborts, regime>>
       \/ LoopFails(c)

BuildRead(c) ==
    /\ loop.there /\ loop.weakConcepts # {} /\ Len(practice) < regime.sets
    /\ Begin(c, "build", [Idle EXCEPT !.at = "close", !.right = loop.weakConcepts])

\* Faulty variant: the sets still open are left as they are.
BuildNothingClosed(c) ==
    /\ call[c].at = "close"
    /\ Goto(c, "create")
    /\ UNCHANGED <<attempts, assignment, profile, loop, practice, folds, aborts, regime>>

BuildClose(c) ==
    /\ call[c].at = "close"
    /\ practice' = [i \in DOMAIN practice |-> [practice[i] EXCEPT !.status = "COMPLETED"]]
    /\ Goto(c, "create")
    /\ UNCHANGED <<attempts, assignment, profile, loop, folds, aborts, regime>>

BuildCreate(c) ==
    /\ call[c].at = "create"
    /\ practice' = Append(practice, [status |-> "OPEN", concepts |-> call[c].right,
                                     counted |-> 0])
    /\ End(c)
    /\ UNCHANGED <<attempts, assignment, profile, loop, folds, aborts, regime>>

PracticeRead(c) ==
    \E i \in DOMAIN practice :
        /\ practice[i].status = "OPEN"
        /\ \E right \in SUBSET practice[i].concepts :
              Begin(c, "practise", [Idle EXCEPT !.at = "grade", !.item = i, !.right = right])

\* Faulty variant: the set is graded and left open.
PracticeLeftOpen(c) ==
    /\ call[c].at = "grade"
    /\ Goto(c, "practised")
    /\ UNCHANGED <<attempts, assignment, profile, loop, practice, folds, aborts, regime>>

PracticeSave(c) ==
    /\ call[c].at = "grade"
    /\ practice' = [practice EXCEPT ![call[c].item].status = "COMPLETED"]
    /\ Goto(c, "practised")
    /\ UNCHANGED <<attempts, assignment, profile, loop, folds, aborts, regime>>

PracticeLoopRead(c) ==
    /\ call[c].at = "practised"
    /\ ReadLoop(c, "practice")
    /\ UNCHANGED <<attempts, assignment, profile, loop, practice, folds, aborts, regime>>

\* Of the weak concepts, those that are solid by now stop being called weak.
PracticeLoopSave(c) ==
    LET i     == call[c].item
        seen  == call[c].loop
        asked == practice[i].concepts
    IN  /\ call[c].at = "practice"
        /\ \/ \E n \in 1..regime.questions :
                LET tallies == applyOutcomes(seen.concepts, asked, call[c].right, n)
                IN  /\ LoopSave(c, [seen EXCEPT !.concepts = tallies, !.practiceCount = @ + 1,
                                 !.weakConcepts = {k \in @ : StillWeak(tallies[k])}])
                    /\ folds' = folds + 1
                    /\ practice' = [practice EXCEPT ![i].counted = @ + 1]
                    /\ UNCHANGED <<attempts, assignment, profile, aborts, regime>>
           \/ LoopFails(c)

\* The server stops, and the handler with it.
Stop(c) ==
    /\ call[c].at # "idle" /\ aborts < regime.aborts
    /\ aborts' = aborts + 1
    /\ End(c)
    /\ UNCHANGED <<attempts, assignment, profile, loop, practice, folds, regime>>

Init ==
    /\ attempts = <<>> /\ practice = <<>> /\ folds = 0
    /\ assignment = [status |-> "NONE", passed |-> FALSE]
    /\ profile = NoProfile /\ loop = NoLoop
    /\ call = [c \in Calls |-> Idle]
    /\ aborts = 0

Next ==
    \/ Assign
    \/ \E c \in Calls :
          \/ SubmitRead(c) \/ SubmitSave(c) \/ SubmitAssignment(c) \/ CreditRead(c)
          \/ CreditSave(c) \/ RecordRead(c) \/ RecordSave(c) \/ CoachRead(c) \/ CoachSave(c)
          \/ BuildRead(c) \/ BuildClose(c) \/ BuildCreate(c)
          \/ PracticeRead(c) \/ PracticeSave(c) \/ PracticeLoopRead(c) \/ PracticeLoopSave(c)
          \/ Stop(c)

-----------------------------------------------------------------------------
Sequential == regime.width = 1

\* Requests that overlap can spend at most one attempt each beyond the policy;
\* one at a time, nobody sits a quiz again after a pass (assertAttemptAllowed).
AttemptsWithinPolicy ==
    /\ regime.maxAttempts > 0 => Len(attempts) <= regime.maxAttempts + regime.width - 1
    /\ Sequential => \A i \in DOMAIN attempts : attempts[i].passed => i = Len(attempts)

\* No quiz is credited without an attempt on record, wherever a request stops,
\* and one request at a time that runs to its end is credited (updateGamification).
CreditHasAttempt ==
    /\ profile.quizzesCompleted <= Len(attempts)
    /\ Sequential /\ aborts = 0 /\ Quiet => profile.quizzesCompleted = Len(attempts)

\* The assignment shows the latest attempt: when it is complete there is one, and
\* with one request at a time it shows that attempt's result (submitAttempt).
AssignmentShowsLatest ==
    assignment.status = "COMPLETED" =>
        /\ attempts # <<>>
        /\ Sequential /\ aborts = 0 /\ Quiet => assignment.passed = attempts[Len(attempts)].passed

\* No answers that were counted are lost again to another save of the loop, nor
\* to coaching that was read before a long call to the model.
CountedAnswersStay == loop.attemptCount + loop.practiceCount = folds

\* One request at a time, one practice set is open at most, also when the server
\* stops between closing the old one and creating the new (buildPractice).
OneOpenSet ==
    Sequential => Cardinality({i \in DOMAIN practice : practice[i].status = "OPEN"}) <= 1

\* One request at a time, the answers of a practice set count once, and those of
\* a set that a newer one replaced do not count afterwards (submitPractice).
PracticeCountsOnce == Sequential => \A i \in DOMAIN practice : practice[i].counted <= 1

\* Wrong answers alone never move a concept to a better band, and right answers
\* alone never to a worse one, whatever the few-answers rule does (masteryBand).
BandStep ==
    \A k \in Concepts :
        LET old == loop.concepts[k]
            new == loop'.concepts[k]
        IN  /\ new.correct = old.correct => Band(new) <= Band(old)
            /\ new.correct - old.correct = new.seen - old.seen => Band(new) >= Band(old)

BandFollowsAnswers == [][BandStep]_vars
=============================================================================
