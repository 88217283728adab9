------------------------------ MODULE QuizPlay ------------------------------
(***************************************************************************)
(* A quiz being taken in the browser (QuizPlayPage): answers change, the   *)
(* clock runs, the paper is handed in by hand or at the bell, the page is  *)
(* loaded again.                                                           *)
(*                                                                         *)
(* The handler that submits is memoised: it sees the answers there were    *)
(* when one of the things it depends on last changed.  An answer is known  *)
(* here by how often its kind was changed.                                 *)
(***************************************************************************)
EXTENDS Naturals

VARIABLES page,      \* answers, submitting, result, deadline of the page that is loaded
          handler,   \* what the memoised handler sees
          submitted, \* hasSubmittedRef
          paper,     \* the submission under way
          clock, storage, taken,
          call, aborts, regime

vars == <<page, handler, submitted, paper, clock, storage, taken, call, aborts, regime>>

\* Choices are the single ones; the rest is ticked or typed.
Answers == [choices: Nat, others: Nat]

TypeOK ==
    /\ page \in [answers: Answers, submitting: BOOLEAN, result: BOOLEAN, deadline: Nat]
    /\ handler \in [answers: Answers, submitting: BOOLEAN]
    /\ submitted \in BOOLEAN
    /\ paper \in [at: {"none", "sent", "graded"}, answers: Answers, written: Answers]
    /\ clock \in Nat
    /\ storage \in Nat  \* the stored deadline, 0 for none
    /\ taken \in [attempts: Nat, failures: Nat, toasts: Nat, loads: Nat]

Same == UNCHANGED <<call, aborts, regime>>
NoPaper == [at |-> "none", answers |-> [choices |-> 0, others |-> 0],
            written |-> [choices |-> 0, others |-> 0]]

\* The handler made again: it sees the page as it is.
Seen(p) == [answers |-> p.answers, submitting |-> p.submitting]

-----------------------------------------------------------------------------
(* Answering *)

\* Faulty variant: the choices are not among what the handler depends on.
SeenAfterNothing(p) == handler

\* The handler depends on the choices.
SeenAfterChoice(p) == Seen(p)

Choose ==
    LET p == [page EXCEPT !.answers.choices = @ + 1]
    IN  /\ ~page.result /\ page.answers.choices < regime.changes
        /\ page' = p
        /\ handler' = SeenAfterChoice(p)
        /\ UNCHANGED <<submitted, paper, clock, storage, taken>> /\ Same

\* It does not depend on boxes that are ticked and blanks that are filled.
TickOrType ==
    /\ ~page.result /\ page.answers.others < regime.changes
    /\ page' = [page EXCEPT !.answers.others = @ + 1]
    /\ UNCHANGED <<handler, submitted, paper, clock, storage, taken>> /\ Same

\* A notification comes or goes: the handler is made again.
Notice ==
    /\ taken.toasts < regime.toasts
    /\ taken' = [taken EXCEPT !.toasts = @ + 1]
    /\ handler' = Seen(page)
    /\ UNCHANGED <<page, submitted, paper, clock, storage>> /\ Same

-----------------------------------------------------------------------------
(* Handing in *)

\* Faulty variant: a submission that is under way does not hold the handler back.
MaySubmitAgain == TRUE

MaySubmit == ~handler.submitting

\* What the handler sends is what it sees.
handleSubmit ==
    IF MaySubmit
    THEN LET p == [page EXCEPT !.submitting = TRUE]
         IN  /\ page' = p /\ handler' = Seen(p)
             /\ paper' = [at |-> "sent", answers |-> handler.answers, written |-> page.answers]
    ELSE UNCHANGED <<page, handler, paper>>

Finish ==
    /\ ~page.result /\ ~page.submitting
    /\ handleSubmit
    /\ UNCHANGED <<submitted, clock, storage, taken>> /\ Same

\* The bell: once, and with whatever is answered.
Bell ==
    /\ ~page.result /\ clock >= page.deadline /\ ~submitted
    /\ submitted' = TRUE
    /\ handleSubmit
    /\ UNCHANGED <<clock, storage, taken>> /\ Same

\* The server, external: it records an attempt.
Grade ==
    /\ paper.at = "sent"
    /\ paper' = [paper EXCEPT !.at = "graded"]
    /\ taken' = [taken EXCEPT !.attempts = @ + 1]
    /\ UNCHANGED <<page, handler, submitted, clock, storage>> /\ Same

Result ==
    LET p == [page EXCEPT !.result = TRUE, !.submitting = FALSE]
    IN  /\ paper.at = "graded"
        /\ page' = p /\ handler' = Seen(p)
        /\ submitted' = TRUE
        /\ storage' = 0
        /\ paper' = NoPaper
        /\ UNCHANGED <<clock, taken>> /\ Same

\* The network, external: the submission or its answer is lost.
Lost ==
    LET p == [page EXCEPT !.submitting = FALSE]
    IN  /\ paper.at # "none" /\ taken.failures < regime.failures
        /\ page' = p /\ handler' = Seen(p)
        /\ paper' = NoPaper
        /\ taken' = [taken EXCEPT !.failures = @ + 1]
        /\ UNCHANGED <<submitted, clock, storage>> /\ Same

-----------------------------------------------------------------------------
(* The clock and the page *)

Pass ==
    /\ clock < regime.hours
    /\ clock' = clock + 1
    /\ UNCHANGED <<page, handler, submitted, paper, storage, taken>> /\ Same

\* Faulty variant: every load starts the time over.
EndsAtLater == clock + regime.limit

\* The deadline that was stored, while it is ahead.
EndsAt == IF storage > clock THEN storage ELSE clock + regime.limit

\* The page is loaded, again or after a visit elsewhere: answers are gone.
Load ==
    LET p == [answers |-> [choices |-> 0, others |-> 0], submitting |-> FALSE,
              result |-> FALSE, deadline |-> EndsAt]
    IN  /\ taken.loads < regime.loads
        /\ page' = p /\ handler' = Seen(p)
        /\ submitted' = FALSE /\ paper' = NoPaper
        /\ storage' = EndsAt
        /\ taken' = [taken EXCEPT !.loads = @ + 1, !.attempts = 0]
        /\ UNCHANGED clock /\ Same

Init ==
    /\ page = [answers |-> [choices |-> 0, others |-> 0], submitting |-> FALSE,
               result |-> FALSE, deadline |-> regime.limit]
    /\ handler = Seen(page)
    /\ submitted = FALSE /\ paper = NoPaper
    /\ clock = 0 /\ storage = regime.limit
    /\ taken = [attempts |-> 0, failures |-> 0, toasts |-> 0, loads |-> 0]
    /\ call = 0 /\ aborts = 0

Next ==
    \/ Choose \/ TickOrType \/ Notice \/ Finish \/ Bell \/ Grade \/ Result \/ Lost
    \/ Pass \/ Load

-----------------------------------------------------------------------------
\* What is handed in has every single choice as it stands on the page, by hand or
\* at the bell, after a submission that was lost too (handleSubmit).
ChoicesHandedIn ==
    paper.at # "none" => paper.answers.choices = paper.written.choices

\* Unless a submission was lost, a page hands in one attempt, though the bell rings
\* while one handed in by hand is under way (hasSubmittedRef, isSubmitting).
OneAttemptPerPage ==
    taken.failures = 0 => taken.attempts <= 1

\* Loading the page again before the time is up leaves the deadline where it was
\* (loadQuiz and the deadline it stores).
DeadlineStep ==
    ~page.result /\ clock < page.deadline => page'.deadline = page.deadline
DeadlineHolds == [][DeadlineStep]_vars

\* What a comment of the page says is sent, "for every question, whatever its
\* type" (QuizPlayPage.tsx:138): the answers as they stand on the page.
EveryAnswerHandedIn ==
    paper.at # "none" => paper.answers = paper.written
=============================================================================
