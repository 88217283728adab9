---------------------------- MODULE GenerationJobs ----------------------------
(***************************************************************************)
(* Writing quizzes in the background: QuizGenerationService.  A start      *)
(* creates a job document and leaves a runner behind in the API process;   *)
(* the runner asks the model for one batch of questions after another,     *)
(* records how far it has got, and saves a draft quiz.  A cancel marks the *)
(* job in the process's memory and in the database; a sweep closes jobs    *)
(* that have not moved for STALE_AFTER_MS.                                 *)
(*                                                                         *)
(* All jobs here are one person's: every query names the requester, so     *)
(* the jobs of two people never meet.  An action is a database or model    *)
(* round trip with the code that runs, without an await, after it.  The    *)
(* order's mix of question types is one type, in slices of BatchSize.      *)
(***************************************************************************)
EXTENDS Integers, FiniteSets

CONSTANTS
    Jobs,          \* identities of generation jobs
    Starts,        \* requests to start a job
    Cancels,       \* requests to cancel one
    Total,         \* questions ordered
    BatchSize,     \* questions asked for in one model call
    MaxTopups,     \* extra passes over what is still owed
    MaxEmpty,      \* empty batches in a row, with nothing yet, that end a job
    StaleBatches,  \* model calls without a save that outlast STALE_AFTER_MS
    Regimes,       \* the regimes to consider: calm (TRUE) or not, see below
    MaxErrors,     \* bound on the database errors a runner meets
    MaxRestarts    \* bound on the restarts of the process

ASSUME GenerationAssumption ==
    /\ {Total, BatchSize, MaxEmpty, StaleBatches} \subseteq Nat \ {0}
    /\ {MaxTopups, MaxErrors, MaxRestarts} \subseteq Nat
    /\ Regimes \subseteq BOOLEAN
    /\ Starts \cap Cancels = {}

Active   == {"QUEUED", "RUNNING"}
Terminal == {"COMPLETED", "FAILED", "CANCELLED"}
InFlight == {"swept", "free", "save"}

VARIABLES
    job,        \* job documents: status and questionsDone; "NONE": not created
    drafts,     \* draft quizzes saved for each job
    stale,      \* jobs whose updatedAt is older than the cutoff
    runner,     \* run(jobId), in the memory of the process
    cancelled,  \* the process's set of cancelled jobs
    call,       \* the start and cancel requests
    errors, restarts,
    calm        \* the regime, the same all along: starts wait for one another,
                \* nobody cancels, and no run of batches comes back empty for
                \* long enough to pass for a dead runner

vars == <<job, drafts, stale, runner, cancelled, call, errors, restarts, calm>>

\* ask: questions still to ask for in this pass; silent: batches since a save.
Runners == [at: {"none", "mark", "poll", "batch", "progress", "finish", "draft",
                 "complete", "fail", "gone"},
            got: 0..Total, ask: 0..Total, pass: 0..MaxTopups,
            empty: Nat, silent: Nat]

JobDocuments == [status: Active \cup Terminal \cup {"NONE"}, done: 0..Total]

TypeOK ==
    /\ job       \in [Jobs -> JobDocuments]
    /\ drafts    \in [Jobs -> Nat]
    /\ stale     \subseteq Jobs
    /\ runner    \in [Jobs -> Runners]
    /\ cancelled \subseteq Jobs
    /\ call      \in [Starts \cup Cancels ->
                        [at: InFlight \cup {"new", "done", "dead"}, job: Jobs \cup {"NONE"}]]
    /\ errors \in 0..MaxErrors /\ restarts \in 0..MaxRestarts
    /\ calm \in Regimes

Alive(j) == runner[j].at \notin {"none", "gone"}
Created(j) == job[j].status # "NONE"

-----------------------------------------------------------------------------
(* Starting, cancelling and sweeping *)

SetStatus(j, status) == job' = [job EXCEPT ![j].status = status]
Answer(c, at, j) == call' = [call EXCEPT ![c] = [at |-> at, job |-> j]]

\* Faulty variant: jobs that never got to RUNNING are left out.
FailStaleRunning ==
    /\ job' = [j \in Jobs |-> IF j \in stale /\ job[j].status = "RUNNING"
                              THEN [job[j] EXCEPT !.status = "FAILED"] ELSE job[j]]
    /\ stale' = {j \in stale : job[j].status # "RUNNING"}

\* failStaleJobs: one updateMany over the jobs that stopped moving.
FailStale ==
    /\ job' = [j \in Jobs |-> IF j \in stale /\ job[j].status \in Active
                              THEN [job[j] EXCEPT !.status = "FAILED"] ELSE job[j]]
    /\ stale' = {j \in stale : job[j].status \notin Active}

StartSweep(c) ==
    /\ call[c].at = "new"
    /\ calm => \A d \in Starts : call[d].at \notin InFlight
    /\ FailStale
    /\ Answer(c, "swept", "NONE")
    /\ UNCHANGED <<drafts, runner, cancelled, errors, restarts, calm>>

\* Faulty variant: a job that is only queued does not count.
StartCheckRunning(c) ==
    /\ call[c].at = "swept"
    /\ Answer(c, IF \E j \in Jobs : job[j].status = "RUNNING" THEN "done" ELSE "free",
              "NONE")
    /\ UNCHANGED <<job, drafts, stale, runner, cancelled, errors, restarts, calm>>

\* One job at a time per person: refused while one is queued or running.
StartCheck(c) ==
    /\ call[c].at = "swept"
    /\ Answer(c, IF \E j \in Jobs : job[j].status \in Active THEN "done" ELSE "free",
              "NONE")
    /\ UNCHANGED <<job, drafts, stale, runner, cancelled, errors, restarts, calm>>

\* The job is created and run() is left behind, not awaited.
StartCreate(c) ==
    /\ call[c].at = "free"
    /\ \E j \in Jobs :
          /\ ~Created(j)
          /\ SetStatus(j, "QUEUED")
          /\ runner' = [runner EXCEPT ![j].at = "mark", ![j].ask = Total]
          /\ Answer(c, "done", j)
    /\ UNCHANGED <<drafts, stale, cancelled, errors, restarts, calm>>

\* A job that has not ended is marked in memory as soon as it is read.
CancelRead(c) ==
    /\ call[c].at = "new" /\ ~calm
    /\ \E j \in Jobs :
          /\ job[j].status \in Active
          /\ cancelled' = cancelled \cup {j}
          /\ Answer(c, "save", j)
    /\ UNCHANGED <<job, drafts, stale, runner, errors, restarts, calm>>

\* The save writes CANCELLED whatever the status has become since the read.
CancelSave(c) ==
    /\ call[c].at = "save"
    /\ SetStatus(call[c].job, "CANCELLED")
    /\ stale' = stale \ {call[c].job}
    /\ Answer(c, "done", call[c].job)
    /\ UNCHANGED <<drafts, runner, cancelled, errors, restarts, calm>>

\* listMine sweeps too: the studio polls it while a job is being written.
ListMine ==
    /\ FailStale
    /\ UNCHANGED <<drafts, runner, cancelled, call, errors, restarts, calm>>

\* Five minutes pass without a save.  A live runner is silent for that long
\* only across several batches that came back empty.
GoStale(j) ==
    /\ job[j].status \in Active /\ j \notin stale
    /\ Alive(j) => /\ runner[j].at = "batch" /\ runner[j].silent >= StaleBatches
                   /\ ~calm
    /\ stale' = stale \cup {j}
    /\ UNCHANGED <<job, drafts, runner, cancelled, call, errors, restarts, calm>>

-----------------------------------------------------------------------------
(* The runner *)

\* Faulty variant: every pass asks for the whole order again.
AdvanceAsksAll(k) ==
    IF k.ask > 0 THEN [k EXCEPT !.at = "poll"]
    ELSE IF k.got < Total /\ k.pass < MaxTopups
    THEN [k EXCEPT !.at = "poll", !.pass = @ + 1, !.ask = Total]
    ELSE [k EXCEPT !.at = "finish"]

\* The loop of generateQuestions after a batch: the next slice, the next pass
\* over what is still owed, or the end.
Advance(k) ==
    IF k.ask > 0 /\ k.got < Total THEN [k EXCEPT !.at = "poll"]
    ELSE IF k.got < Total /\ k.pass < MaxTopups
    THEN [k EXCEPT !.at = "poll", !.pass = @ + 1, !.ask = Total - k.got]
    ELSE [k EXCEPT !.at = "finish"]

Goto(j, at) == runner' = [runner EXCEPT ![j].at = at]

\* RUNNING is saved over whatever status the job has by now.
RunMark(j) ==
    /\ runner[j].at = "mark"
    /\ SetStatus(j, "RUNNING")
    /\ stale' = stale \ {j}
    /\ Goto(j, "poll")
    /\ UNCHANGED <<drafts, cancelled, call, errors, restarts, calm>>

\* Faulty variant: the set in memory is not consulted.
RunPollDatabase(j) ==
    /\ runner[j].at = "poll"
    /\ Goto(j, IF job[j].status = "CANCELLED" THEN "finish" ELSE "batch")
    /\ UNCHANGED <<job, drafts, stale, cancelled, call, errors, restarts, calm>>

\* shouldStop: the set in memory, then the status in the database.
RunPoll(j) ==
    /\ runner[j].at = "poll"
    /\ Goto(j, IF j \in cancelled \/ job[j].status = "CANCELLED" THEN "finish" ELSE "batch")
    /\ UNCHANGED <<job, drafts, stale, cancelled, call, errors, restarts, calm>>

\* generateBatch: usable questions, none of them repeated and at most as many
\* as were asked for; none when the call fails.
Batches(asked) == 0..asked

\* An empty batch is not saved, and may end the job.
RunBatch(j) ==
    LET k == runner[j]
        asked == IF k.ask < BatchSize THEN k.ask ELSE BatchSize
    IN  /\ k.at = "batch"
        /\ \E n \in Batches(asked) :
             LET after == [k EXCEPT !.got = @ + n, !.ask = @ - asked,
                                    !.empty = IF n = 0 THEN @ + 1 ELSE 0,
                                    !.silent = @ + 1]
             IN  runner' = [runner EXCEPT ![j] =
                   CASE n > 0 -> [after EXCEPT !.at = "progress"]
                     [] n = 0 /\ after.empty >= MaxEmpty /\ after.got = 0
                          -> [after EXCEPT !.at = "fail"]
                     [] OTHER -> Advance(after)]
        /\ UNCHANGED <<job, drafts, stale, cancelled, call, errors, restarts, calm>>

\* onProgress saves the questions and their number; the status is not modified.
RunProgress(j) ==
    /\ runner[j].at = "progress"
    /\ job' = [job EXCEPT ![j].done = runner[j].got]
    /\ stale' = stale \ {j}
    /\ runner' = [runner EXCEPT ![j] = Advance([@ EXCEPT !.silent = 0])]
    /\ UNCHANGED <<drafts, cancelled, call, errors, restarts, calm>>

\* A cancel known to this process ends the run without a draft; a run without
\* questions fails.
RunFinish(j) ==
    /\ runner[j].at = "finish"
    /\ Goto(j, CASE j \in cancelled -> "gone"
                 [] j \notin cancelled /\ runner[j].got = 0 -> "fail"
                 [] OTHER -> "draft")
    /\ cancelled' = cancelled \ {j}
    /\ UNCHANGED <<job, drafts, stale, call, errors, restarts, calm>>

\* Faulty variant: an error while the draft is saved is swallowed.
RunDraftSwallowed(j) ==
    /\ runner[j].at = "draft"
    /\ \E n \in {0, 1} : drafts' = [drafts EXCEPT ![j] = @ + n]
    /\ Goto(j, "complete")
    /\ UNCHANGED <<job, stale, cancelled, call, errors, restarts, calm>>

RunDraft(j) ==
    /\ runner[j].at = "draft"
    /\ drafts' = [drafts EXCEPT ![j] = @ + 1]
    /\ Goto(j, "complete")
    /\ UNCHANGED <<job, stale, cancelled, call, errors, restarts, calm>>

\* Faulty variant: an error after the last save, from the cache, fails the job.
RunEndThenFail(j) ==
    /\ runner[j].at \in {"complete", "fail"}
    /\ SetStatus(j, IF runner[j].at = "complete" THEN "COMPLETED" ELSE "FAILED")
    /\ Goto(j, IF runner[j].at = "complete" THEN "fail" ELSE "gone")
    /\ UNCHANGED <<drafts, stale, cancelled, call, errors, restarts, calm>>

\* Faulty variant: a failed job forgets the questions it had.
RunEndForgets(j) ==
    /\ runner[j].at \in {"complete", "fail"}
    /\ job' = [job EXCEPT ![j] =
         IF runner[j].at = "complete"
         THEN [status |-> "COMPLETED", done |-> runner[j].got]
         ELSE [status |-> "FAILED", done |-> 0]]
    /\ Goto(j, "gone")
    /\ UNCHANGED <<drafts, stale, cancelled, call, errors, restarts, calm>>

\* The last save, successful or not, again over whatever the status is by now;
\* the finally block forgets a cancel that arrived too late.
RunEnd(j) ==
    /\ runner[j].at \in {"complete", "fail"}
    /\ job' = [job EXCEPT ![j] =
         IF runner[j].at = "complete"
         THEN [status |-> "COMPLETED", done |-> runner[j].got]
         ELSE [@ EXCEPT !.status = "FAILED"]]
    /\ stale' = stale \ {j}
    /\ cancelled' = cancelled \ {j}
    /\ Goto(j, "gone")
    /\ UNCHANGED <<drafts, call, errors, restarts, calm>>

\* A database error: inside the try block it leads to FAILED; in the first save
\* or in the last it ends run() with the job as it is.
RunThrows(j) ==
    /\ Alive(j) /\ errors < MaxErrors
    /\ runner[j].at \in {"mark", "poll", "progress", "draft", "complete", "fail"}
    /\ errors' = errors + 1
    /\ Goto(j, IF runner[j].at \in {"mark", "fail"} THEN "gone" ELSE "fail")
    /\ cancelled' = IF runner[j].at = "fail" THEN cancelled \ {j} ELSE cancelled
    /\ UNCHANGED <<job, drafts, stale, call, restarts, calm>>

\* The process restarts: its runners, its memory and its requests are gone.
Restart ==
    /\ restarts < MaxRestarts
    /\ restarts' = restarts + 1
    /\ runner' = [j \in Jobs |-> IF Alive(j) THEN [runner[j] EXCEPT !.at = "gone"]
                                 ELSE runner[j]]
    /\ cancelled' = {}
    /\ call' = [c \in Starts \cup Cancels |->
                  IF call[c].at \in InFlight THEN [call[c] EXCEPT !.at = "dead"] ELSE call[c]]
    /\ UNCHANGED <<job, drafts, stale, errors, calm>>

-----------------------------------------------------------------------------
Init ==
    /\ job       = [j \in Jobs |-> [status |-> "NONE", done |-> 0]]
    /\ drafts    = [j \in Jobs |-> 0]
    /\ stale     = {}
    /\ runner    = [j \in Jobs |-> [at |-> "none", got |-> 0, ask |-> 0, pass |-> 0,
                                    empty |-> 0, silent |-> 0]]
    /\ cancelled = {}
    /\ call      = [c \in Starts \cup Cancels |-> [at |-> "new", job |-> "NONE"]]
    /\ errors = 0 /\ restarts = 0
    /\ calm \in Regimes

Run(j) == \/ RunMark(j) \/ RunPoll(j) \/ RunBatch(j) \/ RunProgress(j)
          \/ RunFinish(j) \/ RunDraft(j) \/ RunEnd(j)

Next ==
    \/ \E c \in Starts : StartSweep(c) \/ StartCheck(c) \/ StartCreate(c)
    \/ \E c \in Cancels : CancelRead(c) \/ CancelSave(c)
    \/ \E j \in Jobs : Run(j) \/ RunThrows(j) \/ GoStale(j)
    \/ ListMine
    \/ Restart

Spec == Init /\ [][Next]_vars

\* A live process keeps running its loops and answering its requests, time
\* passes, and the studio keeps polling listMine.
FairSpec ==
    /\ Spec
    /\ \A j \in Jobs : WF_vars(Run(j)) /\ WF_vars(GoStale(j))
    /\ \A c \in Cancels : WF_vars(CancelSave(c))
    /\ WF_vars(ListMine)

-----------------------------------------------------------------------------
(* Under every interleaving, error and restart *)

\* A job is reported complete only with the one draft it made, and with the
\* questions that are in it.
CompletedHasDraft ==
    \A j \in Jobs : /\ drafts[j] <= 1
                    /\ job[j].status = "COMPLETED" => drafts[j] = 1 /\ job[j].done > 0

\* "Stops a running job at its next batch boundary": once a cancel has been
\* answered, no further batch of that job is asked of the model.
NoBatchAfterCancel ==
    \A j \in Jobs : runner[j].at = "poll" /\ runner'[j].at = "batch"
        => \A c \in Cancels : call[c].job = j => call[c].at # "done"

\* "Whatever has already been written is kept on the job": progress is never
\* taken back, by whichever end the job meets.
ProgressKept == \A j \in Jobs : job'[j].done >= job[j].done

\* A job never blocks its owner for good: whatever becomes of its runner, it
\* leaves QUEUED and RUNNING, by itself or through the sweep.
JobsClose == \A j \in Jobs : job[j].status \in Active ~> job[j].status \in Terminal

-----------------------------------------------------------------------------
(* What the comments promise, and only the calm regime keeps *)

\* "One job at a time per person" (quiz-generation.service.ts:154), through
\* restarts, database errors and sweeps.
OneActiveJob ==
    calm => Cardinality({j \in Jobs : job[j].status \in Active}) <= 1

\* "A job is finished, one way or another, in these states"
\* (quiz-generation-job.schema.ts:10): no late save of its runner, and no
\* sweep, takes it out of them or from one to another.
FinishedIsFinal ==
    calm => \A j \in Jobs : job[j].status \in Terminal
                                => job'[j].status = job[j].status

\* What a person finds: a complete job with its one draft, and one job at work.
JobsAccounted == CompletedHasDraft /\ OneActiveJob

\* What no step of a runner, a cancel or the sweep takes back: an answered
\* cancel, the progress of a job, and how it ended.
NothingTakenBack == [][NoBatchAfterCancel /\ ProgressKept /\ FinishedIsFinal]_<<job, runner>>
=============================================================================
