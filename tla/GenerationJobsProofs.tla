------------------------- MODULE GenerationJobsProofs -------------------------
(***************************************************************************)
(* Proofs about GenerationJobs, for any number of jobs, requests, batches, *)
(* errors and restarts.                                                    *)
(***************************************************************************)
EXTENDS GenerationJobs, FiniteSetTheorems, TLAPS

(***************************************************************************)
(* What a runner keeps in memory                                           *)
(***************************************************************************)

\* The questions a runner has and those it will still ask for in this pass
\* never exceed the order.
Room(k) == k.got + k.ask <= Total

\* Nothing runs, and nothing was written, for a job that does not exist.
RunnersSound ==
    \A j \in Jobs : /\ Room(runner[j])
                    /\ Created(j) \/ (runner[j].at = "none" /\ runner[j].got = 0)

LEMMA Bounds == Total \in Nat /\ BatchSize \in Nat /\ MaxTopups \in Nat /\ Total > 0
  BY GenerationAssumption

\* Wherever the loop goes next, it keeps the questions it has.
LEMMA Advanced ==
    ASSUME NEW k \in Runners, Room(k)
    PROVE  /\ Advance(k) \in Runners /\ Room(Advance(k))
           /\ Advance(k).got = k.got /\ Advance(k).at \in {"poll", "finish"}
  <1> USE Bounds
  <1>1. ASSUME NEW a, a = [k EXCEPT !.at = "poll"]
        PROVE  /\ a \in Runners /\ Room(a) /\ a.got = k.got /\ a.at = "poll"
    BY <1>1 DEF Runners, Room
  <1>2. ASSUME NEW a, a = [k EXCEPT !.at = "finish"]
        PROVE  /\ a \in Runners /\ Room(a) /\ a.got = k.got /\ a.at = "finish"
    BY <1>2 DEF Runners, Room
  <1>3. ASSUME k.pass < MaxTopups, k.got < Total,
               NEW a, a = [k EXCEPT !.at = "poll", !.pass = @ + 1, !.ask = Total - k.got]
        PROVE  /\ a \in Runners /\ Room(a) /\ a.got = k.got /\ a.at = "poll"
    <2>1. /\ a.at = "poll" /\ a.got = k.got /\ a.pass = k.pass + 1 /\ a.ask = Total - k.got
          /\ a.empty = k.empty /\ a.silent = k.silent
      BY <1>3 DEF Runners
    <2>2. a = [at |-> "poll", got |-> k.got, ask |-> Total - k.got, pass |-> k.pass + 1,
               empty |-> k.empty, silent |-> k.silent]
      BY <1>3 DEF Runners
    <2>3. /\ Total - k.got \in 0..Total /\ k.pass + 1 \in 0..MaxTopups
          /\ k.got + (Total - k.got) <= Total
      BY <1>3 DEF Runners
    <2> QED
      BY <2>1, <2>2, <2>3 DEF Runners, Room
  <1> QED
    BY <1>1, <1>2, <1>3 DEF Advance

\* What a batch leaves in memory: no question is lost, and a batch that ends the
\* job has none.
LEMMA BatchStep ==
    ASSUME TypeOK, RunnersSound, NEW j \in Jobs, RunBatch(j)
    PROVE  \E k \in Runners :
              /\ runner' = [runner EXCEPT ![j] = k]
              /\ Room(k) /\ k.got >= runner[j].got
              /\ k.at \in {"poll", "finish", "progress", "fail"}
  <1> USE Bounds
  <1> DEFINE k == runner[j]
             asked == IF k.ask < BatchSize THEN k.ask ELSE BatchSize
             after(n) == [k EXCEPT !.got = @ + n, !.ask = @ - asked,
                                   !.empty = IF n = 0 THEN @ + 1 ELSE 0,
                                   !.silent = @ + 1]
             next(n) == CASE n > 0 -> [after(n) EXCEPT !.at = "progress"]
                          [] n = 0 /\ after(n).empty >= MaxEmpty /\ after(n).got = 0
                               -> [after(n) EXCEPT !.at = "fail"]
                          [] OTHER -> Advance(after(n))
  <1>1. k \in Runners /\ Room(k) /\ k.at = "batch"
    BY DEF TypeOK, RunnersSound, RunBatch
  <1>2. PICK n \in Batches(asked) : runner' = [runner EXCEPT ![j] = next(n)]
    BY DEF RunBatch
  <1> DEFINE a == after(n)
  <1>3. n \in Nat /\ n <= asked /\ asked \in Nat /\ asked <= k.ask
    BY <1>1 DEF Batches, Runners
  <1>4. a \in Runners /\ Room(a) /\ a.got = k.got + n
    <2> HIDE DEF asked, k
    <2> DEFINE e == IF n = 0 THEN k.empty + 1 ELSE 0
    <2>1. a = [at |-> k.at, got |-> k.got + n, ask |-> k.ask - asked, pass |-> k.pass,
               empty |-> e, silent |-> k.silent + 1]
      <3>1. a = [k EXCEPT !.got = k.got + n, !.ask = k.ask - asked, !.empty = e,
                          !.silent = k.silent + 1]
        OBVIOUS
      <3> DEFINE g == k.got + n
                 left == k.ask - asked
                 silence == k.silent + 1
      <3>2. k \in Runners /\ a = [k EXCEPT !.got = g, !.ask = left, !.empty = e,
                                          !.silent = silence]
        BY <1>1, <3>1
      <3> HIDE DEF a, e, g, left, silence
      <3>3. a = [at |-> k.at, got |-> g, ask |-> left, pass |-> k.pass,
                 empty |-> e, silent |-> silence]
        BY <3>2 DEF Runners
      <3> QED
        BY <3>3 DEF g, left, silence
    <2>2. /\ k.got + n \in 0..Total /\ k.ask - asked \in 0..Total
          /\ (k.got + n) + (k.ask - asked) <= Total
          /\ e \in Nat /\ k.silent + 1 \in Nat
      BY <1>1, <1>3 DEF Runners, Room
    <2> HIDE DEF a, e
    <2>3. a \in Runners
      BY <1>1, <2>1, <2>2 DEF Runners
    <2>4. /\ a.got = k.got + n /\ a.ask = k.ask - asked /\ a.at = "batch"
      BY <1>1, <2>1
    <2>5. Room(a)
      BY <2>2, <2>4 DEF Room
    <2> QED
      BY <2>3, <2>4, <2>5
  <1> HIDE DEF a
  <1>5. ASSUME NEW b, b = [a EXCEPT !.at = "progress"] \/ b = [a EXCEPT !.at = "fail"]
        PROVE  /\ b \in Runners /\ Room(b) /\ b.got = a.got /\ b.at \in {"progress", "fail"}
    BY <1>4, <1>5 DEF Runners, Room
  <1>6. /\ Advance(a) \in Runners /\ Room(Advance(a))
        /\ Advance(a).got = a.got /\ Advance(a).at \in {"poll", "finish"}
    BY <1>4, Advanced
  <1>7. \/ next(n) = [a EXCEPT !.at = "progress"]
        \/ next(n) = [a EXCEPT !.at = "fail"]
        \/ next(n) = Advance(a)
    <2>1. n > 0 \/ n = 0
      BY <1>3
    <2>2. CASE n > 0
      BY <2>2 DEF a
    <2>3. CASE n = 0 /\ ~(n > 0)
      <3>1. CASE a.empty >= MaxEmpty /\ a.got = 0
        BY <2>3, <3>1 DEF a
      <3>2. CASE ~(a.empty >= MaxEmpty /\ a.got = 0)
        BY <2>3, <3>2 DEF a
      <3> QED
        BY <3>1, <3>2
    <2> QED
      BY <1>3, <2>1, <2>2, <2>3
  <1> DEFINE b == next(n)
  <1>8. /\ b \in Runners /\ Room(b) /\ b.got = a.got
        /\ b.at \in {"poll", "finish", "progress", "fail"}
    <2> HIDE DEF next
    <2> QED
      BY <1>5, <1>6, <1>7
  <1>9. a.got >= k.got
    BY <1>1, <1>3, <1>4 DEF Runners
  <1>10. runner' = [runner EXCEPT ![j] = b]
    BY <1>2
  <1> HIDE DEF b, k
  <1>11. b \in Runners /\ Room(b) /\ b.got >= k.got
    BY <1>8, <1>9
  <1> QED
    BY <1>8, <1>10, <1>11 DEF k

(***************************************************************************)
(* Types                                                                   *)
(***************************************************************************)

\* A step of a runner leaves every other job, and the requests, alone.
LEMMA RunnerStep ==
    ASSUME TypeOK, RunnersSound, NEW j \in Jobs, Run(j) \/ RunThrows(j)
    PROVE  /\ \A i \in Jobs \ {j} : /\ job'[i] = job[i] /\ drafts'[i] = drafts[i]
                                    /\ runner'[i] = runner[i]
                                    /\ i \in cancelled' <=> i \in cancelled
           /\ stale' \subseteq stale /\ cancelled' \subseteq cancelled
           /\ call' = call /\ restarts' = restarts /\ calm' = calm
           /\ runner[j].at \notin {"none", "gone"} /\ runner'[j].at # "none"
           /\ Created(j) /\ Created(j)'
  <1> USE DEF TypeOK, Runners, JobDocuments, Goto, SetStatus, RunnersSound, Created
  <1>1. CASE RunMark(j)
    BY <1>1 DEF RunMark
  <1>2. CASE RunPoll(j)
    BY <1>2 DEF RunPoll
  <1>3. CASE RunBatch(j)
    <2>1. PICK k \in Runners : /\ runner' = [runner EXCEPT ![j] = k]
                               /\ k.at \in {"poll", "finish", "progress", "fail"}
      BY <1>3, BatchStep
    <2>2. /\ runner[j].at = "batch"
          /\ UNCHANGED <<job, drafts, stale, cancelled, call, errors, restarts, calm>>
      BY <1>3 DEF RunBatch
    <2> QED
      BY <2>1, <2>2
  <1>4. CASE RunProgress(j)
    BY <1>4 DEF RunProgress, Advance
  <1>5. CASE RunFinish(j)
    BY <1>5 DEF RunFinish
  <1>6. CASE RunDraft(j)
    BY <1>6 DEF RunDraft
  <1>7. CASE RunEnd(j)
    BY <1>7 DEF RunEnd
  <1>8. CASE RunThrows(j)
    BY <1>8 DEF RunThrows, Alive
  <1> QED
    BY <1>1, <1>2, <1>3, <1>4, <1>5, <1>6, <1>7, <1>8 DEF Run

\* Where a runner goes next does not change what it has.
LEMMA Moved ==
    ASSUME TypeOK, RunnersSound, NEW j \in Jobs, NEW at,
           at \in {"mark", "poll", "batch", "progress", "finish", "draft",
                  "complete", "fail", "gone"},
           Goto(j, at)
    PROVE  /\ runner' \in [Jobs -> Runners]
           /\ \A i \in Jobs : /\ Room(runner'[i]) /\ runner'[i].got = runner[i].got
                             /\ runner'[i].at = IF i = j THEN at ELSE runner[i].at
  <1> DEFINE k == [runner[j] EXCEPT !.at = at]
  <1>1. runner[j] \in Runners /\ Room(runner[j])
    BY DEF TypeOK, RunnersSound
  <1>2. k \in Runners /\ Room(k) /\ k.got = runner[j].got /\ k.at = at
    BY <1>1 DEF Runners, Room
  <1>3. runner' = [runner EXCEPT ![j] = k]
    BY DEF Goto
  <1> HIDE DEF k
  <1> QED
    BY <1>2, <1>3 DEF TypeOK, RunnersSound

\* A new job's runner starts with the whole order to ask for.
LEMMA Ordered ==
    ASSUME NEW q \in Runners, q.got = 0,
           NEW k, k = [q EXCEPT !.at = "mark", !.ask = Total]
    PROVE  k \in Runners /\ Room(k)
  <1>1. ASSUME NEW n, k = [q EXCEPT !.at = "mark", !.ask = n]
        PROVE  k = [at |-> "mark", got |-> q.got, ask |-> n, pass |-> q.pass,
                    empty |-> q.empty, silent |-> q.silent]
    BY <1>1 DEF Runners
  <1>2. k = [at |-> "mark", got |-> q.got, ask |-> Total, pass |-> q.pass,
             empty |-> q.empty, silent |-> q.silent]
    BY <1>1
  <1> QED
    BY <1>2, Bounds DEF Runners, Room

\* What the sweep does to the jobs.
LEMMA Swept ==
    ASSUME TypeOK, FailStale
    PROVE  /\ job' \in [Jobs -> JobDocuments] /\ stale' \subseteq stale
           /\ \A j \in Jobs :
                 /\ job'[j].done = job[j].done
                 /\ job'[j].status = IF j \in stale /\ job[j].status \in Active
                                    THEN "FAILED" ELSE job[j].status
  BY DEF TypeOK, FailStale, JobDocuments, Active, Terminal

LEMMA TypeInit == Init => TypeOK /\ RunnersSound
  BY GenerationAssumption DEF Init, TypeOK, Runners, JobDocuments, RunnersSound, Room

LEMMA TypeStep == TypeOK /\ RunnersSound /\ [Next]_vars => TypeOK' /\ RunnersSound'
  <1> SUFFICES ASSUME TypeOK, RunnersSound, [Next]_vars PROVE TypeOK' /\ RunnersSound'
    OBVIOUS
  <1> USE Bounds DEF InFlight, Active, Terminal, Created
  <1> DEFINE Calls == [Starts \cup Cancels ->
                        [at: InFlight \cup {"new", "done", "dead"}, job: Jobs \cup {"NONE"}]]
  <1>0. /\ job \in [Jobs -> JobDocuments] /\ drafts \in [Jobs -> Nat] /\ stale \subseteq Jobs
        /\ runner \in [Jobs -> Runners] /\ cancelled \subseteq Jobs /\ call \in Calls
        /\ errors \in 0..MaxErrors /\ restarts \in 0..MaxRestarts /\ calm \in Regimes
    BY DEF TypeOK
  <1>1. ASSUME NEW c \in Starts, StartSweep(c) PROVE TypeOK' /\ RunnersSound'
    BY <1>0, <1>1, Swept DEF StartSweep, Answer, TypeOK, RunnersSound
  <1>2. ASSUME NEW c \in Starts, StartCheck(c) PROVE TypeOK' /\ RunnersSound'
    BY <1>0, <1>2 DEF StartCheck, Answer, TypeOK, RunnersSound
  <1>3. ASSUME NEW c \in Starts, StartCreate(c) PROVE TypeOK' /\ RunnersSound'
    <2>1. PICK j \in Jobs : /\ SetStatus(j, "QUEUED") /\ Answer(c, "done", j)
                            /\ runner' = [runner EXCEPT ![j].at = "mark", ![j].ask = Total]
                            /\ ~Created(j)
      BY <1>3 DEF StartCreate
    <2> DEFINE k == [runner[j] EXCEPT !.at = "mark", !.ask = Total]
    <2>2. runner[j] \in Runners /\ Room(runner[j]) /\ runner[j].got = 0
      BY <1>0, <2>1 DEF RunnersSound
    <2>3. k \in Runners /\ Room(k)
      <3>1. k = [runner[j] EXCEPT !.at = "mark", !.ask = Total]
        OBVIOUS
      <3> HIDE DEF k
      <3> QED
        BY <2>2, <3>1, Ordered
    <2>4. runner' = [runner EXCEPT ![j] = k]
      BY <1>0, <2>1
    <2>5. UNCHANGED <<drafts, stale, cancelled, errors, restarts, calm>>
      BY <1>3 DEF StartCreate
    <2> HIDE DEF k
    <2>6. job' \in [Jobs -> JobDocuments] /\ call' \in Calls
      BY <1>0, <2>1 DEF Answer, SetStatus, JobDocuments
    <2>7. TypeOK'
      BY <1>0, <2>3, <2>4, <2>5, <2>6 DEF TypeOK
    <2>8. job'[j].status = "QUEUED" /\ \A i \in Jobs \ {j} : job'[i] = job[i]
      BY <1>0, <2>1 DEF SetStatus, JobDocuments
    <2> QED
      BY <1>0, <2>3, <2>4, <2>7, <2>8 DEF RunnersSound
  <1>4. ASSUME NEW c \in Cancels, CancelRead(c) PROVE TypeOK' /\ RunnersSound'
    BY <1>0, <1>4 DEF CancelRead, Answer, TypeOK, RunnersSound
  <1>5. ASSUME NEW c \in Cancels, CancelSave(c) PROVE TypeOK' /\ RunnersSound'
    BY ZenonT(40), <1>0, <1>5 DEF CancelSave, Answer, SetStatus, JobDocuments, TypeOK, RunnersSound
  <1>6. ASSUME NEW j \in Jobs, GoStale(j) PROVE TypeOK' /\ RunnersSound'
    BY <1>0, <1>6 DEF GoStale, TypeOK, RunnersSound
  <1>7. CASE ListMine
    BY <1>0, <1>7, Swept DEF ListMine, TypeOK, RunnersSound
  <1>8. CASE Restart
    <2>1. \A j \in Jobs : runner'[j] = runner[j] \/ runner'[j] = [runner[j] EXCEPT !.at = "gone"]
      BY <1>0, <1>8 DEF Restart
    <2>2. \A j \in Jobs : /\ runner'[j] \in Runners
                          /\ runner'[j].got = runner[j].got /\ runner'[j].ask = runner[j].ask
                          /\ runner[j].at = "none" => runner'[j].at = "none"
      <3> SUFFICES ASSUME NEW j \in Jobs
                   PROVE  /\ runner'[j] \in Runners
                          /\ runner'[j].got = runner[j].got /\ runner'[j].ask = runner[j].ask
                          /\ runner[j].at = "none" => runner'[j].at = "none"
        OBVIOUS
      <3>1. runner[j] \in Runners
        BY <1>0
      <3>2. runner[j].at = "none" => runner'[j] = runner[j]
        BY <1>8 DEF Restart, Alive
      <3>3. ASSUME NEW k \in Runners, NEW h, h = [k EXCEPT !.at = "gone"]
            PROVE  h \in Runners /\ h.got = k.got /\ h.ask = k.ask
        BY <3>3 DEF Runners
      <3> QED
        BY <2>1, <3>1, <3>2, <3>3
    <2>3. runner' \in [Jobs -> Runners]
      BY <1>8, <2>2 DEF Restart
    <2>4. call' \in Calls /\ restarts' \in 0..MaxRestarts
      BY <1>0, <1>8, GenerationAssumption DEF Restart
    <2>5. RunnersSound'
      BY <1>8, <2>2 DEF Restart, RunnersSound, Room
    <2> QED
      BY <1>0, <1>8, <2>3, <2>4, <2>5 DEF Restart, TypeOK
  <1>9. ASSUME NEW j \in Jobs, Run(j) \/ RunThrows(j) PROVE TypeOK' /\ RunnersSound'
    <2>1. /\ \A i \in Jobs \ {j} : job'[i] = job[i] /\ runner'[i] = runner[i]
          /\ Created(j)'
      BY <1>9, RunnerStep
    <2>2. ASSUME runner' \in [Jobs -> Runners], Room(runner'[j]) PROVE RunnersSound'
      BY <2>1, <2>2 DEF RunnersSound, Created
    <2> USE DEF TypeOK, JobDocuments, SetStatus
    <2>3. CASE RunMark(j)
      BY <1>0, <2>2, <2>3, Moved DEF RunMark
    <2>4. CASE RunPoll(j)
      BY <1>0, <2>2, <2>4, Moved DEF RunPoll
    <2>5. CASE RunBatch(j)
      <3>1. PICK k \in Runners : runner' = [runner EXCEPT ![j] = k] /\ Room(k)
        BY <2>5, BatchStep
      <3>2. UNCHANGED <<job, drafts, stale, cancelled, call, errors, restarts, calm>>
        BY <2>5 DEF RunBatch
      <3> QED
        BY <1>0, <2>2, <3>1, <3>2
    <2>6. CASE RunProgress(j)
      <3> DEFINE k == [runner[j] EXCEPT !.silent = 0]
      <3>1. k \in Runners /\ Room(k) /\ runner[j] \in Runners
        BY <1>0 DEF RunnersSound, Room, Runners
      <3>2. runner' = [runner EXCEPT ![j] = Advance(k)]
        BY <2>6 DEF RunProgress
      <3> HIDE DEF k
      <3>3. Advance(k) \in Runners /\ Room(Advance(k))
        BY <3>1, Advanced
      <3>4. runner' \in [Jobs -> Runners] /\ RunnersSound'
        BY <1>0, <2>2, <3>2, <3>3
      <3>5. runner[j].got \in 0..Total
        BY <3>1 DEF Runners
      <3> QED
        BY <1>0, <2>6, <3>4, <3>5 DEF RunProgress
    <2>7. CASE RunFinish(j)
      BY <1>0, <2>2, <2>7, Moved DEF RunFinish
    <2>8. CASE RunDraft(j)
      BY <1>0, <2>2, <2>8, Moved DEF RunDraft
    <2>9. CASE RunEnd(j)
      <3>1. runner' \in [Jobs -> Runners] /\ RunnersSound'
        BY <1>0, <2>2, <2>9, Moved DEF RunEnd
      <3>2. runner[j].got \in 0..Total
        BY <1>0 DEF Runners
      <3>3. job' \in [Jobs -> JobDocuments]
        BY <1>0, <2>9, <3>2 DEF RunEnd
      <3> QED
        BY <1>0, <2>9, <3>1, <3>3 DEF RunEnd
    <2>10. CASE RunThrows(j)
      <3>1. runner' \in [Jobs -> Runners] /\ RunnersSound'
        BY <1>0, <2>2, <2>10, Moved DEF RunThrows
      <3>2. errors' \in 0..MaxErrors
        BY <1>0, <2>10, GenerationAssumption DEF RunThrows
      <3> QED
        BY <1>0, <2>10, <3>1, <3>2 DEF RunThrows
    <2> QED
      BY <1>9, <2>3, <2>4, <2>5, <2>6, <2>7, <2>8, <2>9, <2>10 DEF Run
  <1>10. CASE UNCHANGED vars
    BY <1>10 DEF vars, TypeOK, RunnersSound
  <1> QED
    BY <1>1, <1>2, <1>3, <1>4, <1>5, <1>6, <1>7, <1>8, <1>9, <1>10 DEF Next

\* Every reachable state has the right types: a runner's counters stay within
\* the order, because a batch never adds more than it asked for.
THEOREM TypeCorrect == Spec => []TypeOK
  <1>1. Spec => [](TypeOK /\ RunnersSound)
    BY TypeInit, TypeStep, PTL DEF Spec
  <1> QED
    BY <1>1, PTL

LEMMA SoundAlways == Spec => []RunnersSound
  <1> QED
    BY TypeInit, TypeStep, PTL DEF Spec

(***************************************************************************)
(* The draft, the progress and the cancel of a job                         *)
(***************************************************************************)

\* Where a runner has neither ended its loop nor looked at the cancels again.
Looping == {"mark", "poll", "batch", "progress", "finish"}

\* What has been written for a job follows from where its runner is: the draft
\* is saved between "draft" and "complete" and never again, and COMPLETED is
\* the last thing a runner writes.
Written(j) ==
    LET k == runner[j]
    IN  /\ job[j].status = "NONE" <=> k.at = "none"
        /\ k.at \in Looping \cup {"none", "draft"} => drafts[j] = 0
        /\ k.at = "complete" => drafts[j] = 1
        /\ drafts[j] <= 1
        /\ k.at \in {"draft", "complete"} => k.got > 0
        /\ job[j].status = "COMPLETED" => k.at = "gone" /\ drafts[j] = 1 /\ job[j].done > 0
        /\ job[j].done <= k.got

\* A cancel that has read its job stays known to the process for as long as
\* the job's runner is in its loop.
Marked(c) ==
    /\ call[c].at \in {"new", "save", "done", "dead"}
    /\ call[c].at \in {"save", "done"} =>
         /\ call[c].job \in Jobs /\ Created(call[c].job)
         /\ runner[call[c].job].at \in Looping => call[c].job \in cancelled

JobsInv ==
    /\ \A j \in Jobs : Written(j)
    /\ \A j \in stale : Created(j)
    /\ \A c \in Cancels : Marked(c)

LEMMA JobsInit == Init => JobsInv
  BY GenerationAssumption DEF Init, JobsInv, Written, Marked, Looping

\* A runner's step keeps its job's record: a question saved stays saved, and a
\* runner that is still in its loop has forgotten no cancel.
LEMMA RunnerWrites ==
    ASSUME TypeOK, RunnersSound, NEW j \in Jobs, Written(j), Run(j) \/ RunThrows(j)
    PROVE  /\ Written(j)' /\ job'[j].done >= job[j].done
           /\ runner'[j].at \in Looping => runner[j].at \in Looping /\ cancelled' = cancelled
           /\ runner'[j].at = "batch" /\ runner[j].at = "poll" => j \notin cancelled
           /\ runner[j].at # "mark" /\ Alive(j)' => job'[j].status = job[j].status
           /\ runner[j].at = "mark" /\ Alive(j)' => job'[j].status = "RUNNING"
           /\ runner'[j].at # "mark"
  <1> USE Bounds DEF Looping
  <1>0. /\ job[j] \in JobDocuments /\ drafts[j] \in Nat /\ runner[j] \in Runners
        /\ runner[j].got \in Nat /\ job[j].done \in Nat
    BY DEF TypeOK, Runners, JobDocuments
  <1>1. CASE RunMark(j)
    <2>1. runner'[j].at = "poll" /\ runner'[j].got = runner[j].got /\ runner[j].at = "mark"
      BY <1>1, Moved DEF RunMark
    <2>2. job'[j].status = "RUNNING" /\ job'[j].done = job[j].done /\ drafts' = drafts
      BY <1>0, <1>1 DEF RunMark, SetStatus, TypeOK, JobDocuments
    <2> QED
      BY <1>0, <1>1, <2>1, <2>2 DEF RunMark, Written, Alive
  <1>2. CASE RunPoll(j)
    <2>1. /\ runner'[j].at \in {"finish", "batch"} /\ runner'[j].got = runner[j].got
          /\ runner[j].at = "poll" /\ (runner'[j].at = "batch" => j \notin cancelled)
      BY <1>2, Moved DEF RunPoll
    <2> QED
      BY <1>0, <1>2, <2>1 DEF RunPoll, Written
  <1>3. CASE RunBatch(j)
    <2>1. PICK k \in Runners : /\ runner' = [runner EXCEPT ![j] = k] /\ k.got >= runner[j].got
                               /\ k.at \in {"poll", "finish", "progress", "fail"}
      BY <1>3, BatchStep
    <2>2. /\ runner'[j].at \in {"poll", "finish", "progress", "fail"}
          /\ runner'[j].got >= runner[j].got /\ runner'[j].got \in Nat
      BY <2>1 DEF TypeOK, Runners
    <2>3. runner[j].at = "batch" /\ UNCHANGED <<job, drafts, cancelled>>
      BY <1>3 DEF RunBatch
    <2> QED
      BY <1>0, <2>2, <2>3 DEF Written
  <1>4. CASE RunProgress(j)
    <2> DEFINE k == [runner[j] EXCEPT !.silent = 0]
    <2>1. k \in Runners /\ Room(k) /\ k.got = runner[j].got
      BY <1>0 DEF RunnersSound, Room, Runners
    <2>2. runner'[j] = Advance(k)
      BY <1>4 DEF RunProgress, TypeOK
    <2> HIDE DEF k
    <2>3. runner'[j].at \in {"poll", "finish"} /\ runner'[j].got = runner[j].got
      BY <2>1, <2>2, Advanced
    <2>4. job'[j].status = job[j].status /\ job'[j].done = runner[j].got
      BY <1>0, <1>4 DEF RunProgress, TypeOK, JobDocuments
    <2> QED
      BY <1>0, <1>4, <2>3, <2>4 DEF RunProgress, Written
  <1>5. CASE RunFinish(j)
    <2>1. /\ runner'[j].at \in {"gone", "fail", "draft"} /\ runner'[j].got = runner[j].got
          /\ runner[j].at = "finish" /\ (runner'[j].at = "draft" => runner[j].got # 0)
      <3>1. \/ j \in cancelled /\ Goto(j, "gone")
            \/ runner[j].got = 0 /\ Goto(j, "fail")
            \/ runner[j].got # 0 /\ Goto(j, "draft")
        BY <1>5 DEF RunFinish
      <3> QED
        BY <1>5, <3>1, Moved DEF RunFinish
    <2> QED
      BY <1>0, <1>5, <2>1 DEF RunFinish, Written
  <1>6. CASE RunDraft(j)
    <2>1. runner'[j].at = "complete" /\ runner'[j].got = runner[j].got /\ runner[j].at = "draft"
      BY <1>6, Moved DEF RunDraft
    <2>2. drafts'[j] = drafts[j] + 1
      BY <1>6 DEF RunDraft, TypeOK
    <2> QED
      BY <1>0, <1>6, <2>1, <2>2 DEF RunDraft, Written
  <1>7. CASE RunEnd(j)
    <2>1. /\ runner'[j].at = "gone" /\ runner'[j].got = runner[j].got
          /\ runner[j].at \in {"complete", "fail"}
      BY <1>7, Moved DEF RunEnd
    <2>2. CASE runner[j].at = "complete"
      <3>1. job'[j].status = "COMPLETED" /\ job'[j].done = runner[j].got
        BY <1>7, <2>2 DEF RunEnd, TypeOK
      <3> QED
        BY <1>0, <1>7, <2>1, <2>2, <3>1 DEF RunEnd, Written, Alive
    <2>3. CASE runner[j].at = "fail"
      <3>1. job'[j].status = "FAILED" /\ job'[j].done = job[j].done
        BY <1>0, <1>7, <2>3 DEF RunEnd, TypeOK, JobDocuments
      <3> QED
        BY <1>0, <1>7, <2>1, <2>3, <3>1 DEF RunEnd, Written, Alive
    <2> QED
      BY <2>1, <2>2, <2>3
  <1>8. CASE RunThrows(j)
    <2>1. /\ runner'[j].at \in {"gone", "fail"} /\ runner'[j].got = runner[j].got
          /\ runner[j].at \notin {"none", "gone"}
          /\ runner[j].at = "mark" => runner'[j].at = "gone"
      BY <1>8, Moved DEF RunThrows, Alive
    <2> QED
      BY <1>0, <1>8, <2>1 DEF RunThrows, Written, Alive
  <1> QED
    BY <1>1, <1>2, <1>3, <1>4, <1>5, <1>6, <1>7, <1>8 DEF Run

LEMMA JobsStep == TypeOK /\ RunnersSound /\ JobsInv /\ [Next]_vars => JobsInv'
  <1> SUFFICES ASSUME TypeOK, RunnersSound, JobsInv, [Next]_vars PROVE JobsInv'
    OBVIOUS
  <1>0. /\ job \in [Jobs -> JobDocuments] /\ runner \in [Jobs -> Runners]
        /\ \A j \in Jobs : Written(j)
        /\ \A j \in stale : Created(j)
        /\ \A c \in Cancels : Marked(c)
        /\ call \in [Starts \cup Cancels ->
                       [at: InFlight \cup {"new", "done", "dead"}, job: Jobs \cup {"NONE"}]]
    BY DEF TypeOK, JobsInv
  <1> USE DEF JobsInv, Marked, Created
  <1>1. ASSUME NEW c \in Starts, StartSweep(c) PROVE JobsInv'
    <2>1. \A d \in Cancels : call'[d] = call[d]
      BY <1>0, <1>1, GenerationAssumption DEF StartSweep, Answer
    <2>2. /\ stale' \subseteq stale /\ UNCHANGED <<drafts, runner, cancelled>>
          /\ \A j \in Jobs : /\ job'[j].done = job[j].done
                            /\ job'[j].status = IF j \in stale /\ job[j].status \in Active
                                               THEN "FAILED" ELSE job[j].status
      BY <1>1, Swept DEF StartSweep
    <2>3. \A j \in Jobs : Written(j)'
      BY <1>0, <2>2 DEF Written, Active
    <2>4. \A d \in Cancels : Marked(d)'
      BY <1>0, <2>1, <2>2
    <2> QED
      BY <1>0, <2>2, <2>3, <2>4 DEF TypeOK
  <1>2. ASSUME NEW c \in Starts, StartCheck(c) PROVE JobsInv'
    <2>1. \A d \in Cancels : call'[d] = call[d]
      BY <1>0, <1>2, GenerationAssumption DEF StartCheck, Answer
    <2> QED
      BY <1>0, <1>2, <2>1 DEF StartCheck, Written
  <1>3. ASSUME NEW c \in Starts, StartCreate(c) PROVE JobsInv'
    <2>1. PICK j \in Jobs : /\ SetStatus(j, "QUEUED") /\ Answer(c, "done", j) /\ ~Created(j)
                            /\ runner' = [runner EXCEPT ![j].at = "mark", ![j].ask = Total]
      BY <1>3 DEF StartCreate
    <2>2. UNCHANGED <<drafts, stale, cancelled>>
      BY <1>3 DEF StartCreate
    <2>3. /\ \A i \in Jobs : /\ job'[i].status = IF i = j THEN "QUEUED" ELSE job[i].status
                            /\ job'[i].done = job[i].done
          /\ \A i \in Jobs : /\ runner'[i].at = IF i = j THEN "mark" ELSE runner[i].at
                            /\ runner'[i].got = runner[i].got
      BY <1>0, <2>1 DEF SetStatus, JobDocuments, Runners
    <2>4. \A d \in Cancels : call'[d] = call[d]
      BY <1>0, <2>1, GenerationAssumption DEF Answer
    <2>5. \A i \in Jobs : Written(i)'
      BY <1>0, <2>1, <2>2, <2>3 DEF Written, Looping
    <2>6. ASSUME NEW d \in Cancels PROVE Marked(d)'
      <3>1. Marked(d) /\ call'[d] = call[d]
        BY <1>0, <2>4
      <3>2. call[d].at \in {"save", "done"} => call[d].job \in Jobs /\ call[d].job # j
        BY <2>1, <3>1
      <3> QED
        BY <2>2, <2>3, <3>1, <3>2
    <2> QED
      BY <1>0, <2>2, <2>3, <2>5, <2>6 DEF TypeOK
  <1>4. ASSUME NEW c \in Cancels, CancelRead(c) PROVE JobsInv'
    BY <1>0, <1>4 DEF CancelRead, Answer, Written, Active, TypeOK
  <1>5. ASSUME NEW c \in Cancels, CancelSave(c) PROVE JobsInv'
    <2>1. call[c].job \in Jobs /\ Created(call[c].job)
      BY <1>0, <1>5 DEF CancelSave
    <2>2. \A i \in Jobs : /\ job'[i].status = IF i = call[c].job THEN "CANCELLED"
                                             ELSE job[i].status
                          /\ job'[i].done = job[i].done
      BY <1>0, <1>5, <2>1 DEF CancelSave, SetStatus, JobDocuments
    <2>3. \A i \in Jobs : Written(i)'
      BY <1>0, <1>5, <2>1, <2>2 DEF CancelSave, Written
    <2>4. \A d \in Cancels : /\ call'[d].job = call[d].job
                             /\ call'[d].at = IF d = c THEN "done" ELSE call[d].at
      BY <1>0, <1>5 DEF CancelSave, Answer
    <2>5. \A d \in Cancels : Marked(d)'
      BY <1>0, <1>5, <2>2, <2>4 DEF CancelSave
    <2> QED
      BY <1>0, <1>5, <2>2, <2>3, <2>5 DEF CancelSave, TypeOK
  <1>6. ASSUME NEW j \in Jobs, GoStale(j) PROVE JobsInv'
    BY <1>0, <1>6 DEF GoStale, Written, Active
  <1>7. CASE ListMine
    BY <1>0, <1>7, Swept DEF ListMine, Written, Active, TypeOK
  <1>8. CASE Restart
    <2>1. \A j \in Jobs : /\ runner'[j].got = runner[j].got
                          /\ runner'[j].at = IF Alive(j) THEN "gone" ELSE runner[j].at
      BY <1>0, <1>8 DEF Restart, Runners
    <2>2. \A c \in Cancels : /\ call'[c].job = call[c].job
                             /\ call'[c].at = IF call[c].at \in InFlight THEN "dead"
                                             ELSE call[c].at
      BY <1>0, <1>8 DEF Restart
    <2>3. job' = job /\ drafts' = drafts /\ stale' = stale
      BY <1>8 DEF Restart
    <2>4. \A j \in Jobs : Written(j)'
      BY <1>0, <2>1, <2>3 DEF Written, Alive, Looping
    <2>5. \A c \in Cancels : Marked(c)'
      BY <1>0, <2>1, <2>2, <2>3 DEF Alive, Looping, InFlight
    <2> QED
      BY <1>0, <2>3, <2>4, <2>5
  <1>9. ASSUME NEW j \in Jobs, Run(j) \/ RunThrows(j) PROVE JobsInv'
    <2>1. /\ \A i \in Jobs \ {j} : /\ job'[i] = job[i] /\ drafts'[i] = drafts[i]
                                   /\ runner'[i] = runner[i]
                                   /\ i \in cancelled' <=> i \in cancelled
          /\ stale' \subseteq stale /\ call' = call
          /\ Created(j) /\ Created(j)'
      BY <1>9, RunnerStep
    <2>2. /\ Written(j)'
          /\ runner'[j].at \in Looping => runner[j].at \in Looping /\ cancelled' = cancelled
      BY <1>0, <1>9, RunnerWrites
    <2>3. \A i \in Jobs : Written(i)'
      BY <1>0, <2>1, <2>2 DEF Written
    <2>4. \A c \in Cancels : Marked(c)'
      BY <1>0, <2>1, <2>2
    <2> QED
      BY <1>0, <2>1, <2>3, <2>4 DEF TypeOK
  <1>10. CASE UNCHANGED vars
    BY <1>0, <1>10 DEF vars, Written
  <1> QED
    BY <1>1, <1>2, <1>3, <1>4, <1>5, <1>6, <1>7, <1>8, <1>9, <1>10 DEF Next

LEMMA JobsAlways == Spec => []JobsInv
  <1> QED
    BY JobsInit, JobsStep, TypeCorrect, SoundAlways, PTL DEF Spec

\* A job is reported complete only with the one draft it made, through every
\* interleaving of runners, cancels and sweeps, database errors and restarts.
THEOREM CompleteWithDraft == Spec => []CompletedHasDraft
  <1>1. TypeOK /\ JobsInv => CompletedHasDraft
    BY DEF JobsInv, Written, CompletedHasDraft, TypeOK
  <1> QED
    BY <1>1, JobsAlways, TypeCorrect, PTL

(***************************************************************************)
(* The calm regime                                                         *)
(***************************************************************************)

\* Nobody cancels and no live runner looks dead; so a live runner's job is the
\* one it is working on, only one start is between its check and its job, and
\* what that check found still holds.
Calm ==
    /\ \A c \in Cancels : call[c].at = "new"
    /\ cancelled = {}
    /\ \A j \in stale : ~Alive(j)
    /\ \A j \in Jobs : Alive(j) =>
          job[j].status = IF runner[j].at = "mark" THEN "QUEUED" ELSE "RUNNING"
    /\ \A c, d \in Starts : call[c].at \in InFlight /\ call[d].at \in InFlight => c = d
    /\ \A c \in Starts : call[c].at = "free" => \A j \in Jobs : job[j].status \notin Active
    /\ \A i, j \in Jobs : job[i].status \in Active /\ job[j].status \in Active => i = j

CalmInv == calm => Calm

LEMMA CalmInit == Init => CalmInv
  BY DEF Init, CalmInv, Calm, Active, Alive, InFlight

LEMMA CalmStep ==
    TypeOK /\ RunnersSound /\ JobsInv /\ CalmInv /\ [Next]_vars => CalmInv'
  <1> SUFFICES ASSUME TypeOK, RunnersSound, JobsInv, CalmInv, [Next]_vars, calm'
               PROVE  Calm'
    BY DEF CalmInv
  <1>0. /\ job \in [Jobs -> JobDocuments] /\ runner \in [Jobs -> Runners]
        /\ call \in [Starts \cup Cancels ->
                       [at: InFlight \cup {"new", "done", "dead"}, job: Jobs \cup {"NONE"}]]
        /\ stale \subseteq Jobs
        /\ \A j \in Jobs : Written(j)
        /\ \A j \in stale : Created(j)
        /\ Starts \cap Cancels = {}
    BY GenerationAssumption DEF TypeOK, JobsInv
  <1>c. calm /\ Calm
    BY DEF CalmInv, Next, StartSweep, StartCheck, StartCreate, CancelRead, CancelSave, Run,
           RunMark, RunPoll, RunBatch, RunProgress, RunFinish, RunDraft, RunEnd, RunThrows,
           GoStale, ListMine, Restart, vars
  \* The sweep closes dead runners' jobs only.
  <1>s. ASSUME FailStale, UNCHANGED <<runner, cancelled>>
        PROVE  /\ \A j \in stale' : ~Alive(j)'
               /\ \A j \in Jobs : Alive(j)' =>
                     job'[j].status = IF runner'[j].at = "mark" THEN "QUEUED" ELSE "RUNNING"
               /\ \A j \in Jobs : job'[j].status \in Active => job[j].status \in Active
    BY <1>0, <1>c, <1>s, Swept DEF Calm, Alive, Active
  <1>1. ASSUME NEW c \in Starts, StartSweep(c) PROVE Calm'
    <2>1. /\ \A d \in Starts : call[d].at \notin InFlight
          /\ FailStale /\ UNCHANGED <<runner, cancelled>>
      BY <1>1, <1>c DEF StartSweep
    <2>2. \A d \in Starts \cup Cancels :
            call'[d].at = IF d = c THEN "swept" ELSE call[d].at
      BY <1>0, <1>1 DEF StartSweep, Answer
    <2> QED
      BY <1>0, <1>c, <1>s, <2>1, <2>2 DEF Calm, InFlight
  <1>2. ASSUME NEW c \in Starts, StartCheck(c) PROVE Calm'
    <2>1. call[c].at \in InFlight /\ UNCHANGED <<job, stale, runner, cancelled>>
      BY <1>2 DEF StartCheck, InFlight
    <2>2. \A d \in Starts \cup Cancels :
            call'[d].at = IF d # c THEN call[d].at
                          ELSE IF \E j \in Jobs : job[j].status \in Active THEN "done"
                          ELSE "free"
      BY <1>0, <1>2 DEF StartCheck, Answer
    <2>3. \A d \in Starts : call'[d].at \in InFlight => call[d].at \in InFlight
      BY <2>1, <2>2
    <2> QED
      BY <1>0, <1>c, <2>1, <2>2, <2>3 DEF Calm, Alive
  <1>3. ASSUME NEW c \in Starts, StartCreate(c) PROVE Calm'
    <2>1. PICK j \in Jobs : /\ SetStatus(j, "QUEUED") /\ Answer(c, "done", j) /\ ~Created(j)
                            /\ runner' = [runner EXCEPT ![j].at = "mark", ![j].ask = Total]
      BY <1>3 DEF StartCreate
    <2>2. call[c].at = "free" /\ UNCHANGED <<stale, cancelled>>
      BY <1>3 DEF StartCreate
    <2>3. /\ \A i \in Jobs : job'[i].status = IF i = j THEN "QUEUED" ELSE job[i].status
          /\ \A i \in Jobs : runner'[i].at = IF i = j THEN "mark" ELSE runner[i].at
          /\ \A d \in Starts \cup Cancels : call'[d].at = IF d = c THEN "done" ELSE call[d].at
      BY <1>0, <2>1 DEF SetStatus, Answer, JobDocuments, Runners
    <2>4. \A i \in Jobs : job[i].status \notin Active
      BY <1>c, <2>2 DEF Calm
    <2>5. \A d \in Starts : d # c => call[d].at # "free"
      BY <1>c, <2>2 DEF Calm, InFlight
    <2>6. j \notin stale
      BY <1>0, <2>1
    <2> QED
      BY SMTT(30), <1>0, <1>c, <2>2, <2>3, <2>4, <2>5, <2>6 DEF Calm, Alive, InFlight, Active
  <1>4. ASSUME NEW c \in Cancels, CancelRead(c) \/ CancelSave(c) PROVE Calm'
    BY <1>4, <1>c DEF CancelRead, CancelSave, Calm
  <1>5. ASSUME NEW j \in Jobs, GoStale(j) PROVE Calm'
    BY <1>0, <1>5, <1>c DEF GoStale, Calm, Alive
  <1>6. CASE ListMine
    <2>1. FailStale /\ UNCHANGED <<runner, cancelled, call>>
      BY <1>6 DEF ListMine
    <2> QED
      BY <1>0, <1>c, <1>s, <2>1 DEF Calm
  <1>7. CASE Restart
    <2>1. \A j \in Jobs : runner'[j].at = IF Alive(j) THEN "gone" ELSE runner[j].at
      BY <1>0, <1>7 DEF Restart, Runners
    <2>2. \A c \in Starts \cup Cancels :
            call'[c].at = IF call[c].at \in InFlight THEN "dead" ELSE call[c].at
      BY <1>0, <1>7 DEF Restart
    <2>3. job' = job /\ stale' = stale /\ cancelled' = {}
      BY <1>7 DEF Restart
    <2>4. \A j \in Jobs : ~Alive(j)'
      BY <2>1 DEF Alive
    <2> QED
      BY <1>0, <1>c, <2>2, <2>3, <2>4 DEF Calm, InFlight
  <1>8. ASSUME NEW j \in Jobs, Run(j) \/ RunThrows(j) PROVE Calm'
    <2>1. /\ \A i \in Jobs \ {j} : job'[i] = job[i] /\ runner'[i] = runner[i]
          /\ stale' \subseteq stale /\ cancelled' \subseteq cancelled /\ call' = call
          /\ Alive(j)
      BY <1>8, RunnerStep DEF Alive
    <2>2. /\ runner[j].at # "mark" /\ Alive(j)' => job'[j].status = job[j].status
          /\ runner[j].at = "mark" /\ Alive(j)' => job'[j].status = "RUNNING"
          /\ runner'[j].at # "mark"
      BY <1>0, <1>8, RunnerWrites
    <2>3. job[j].status \in Active
      BY <1>c, <2>1 DEF Calm, Active
    <2>4. \A i \in Jobs : job'[i].status \in Active => job[i].status \in Active
      BY <2>1, <2>3
    <2>5. \A i \in Jobs : Alive(i)' =>
            job'[i].status = IF runner'[i].at = "mark" THEN "QUEUED" ELSE "RUNNING"
      BY <1>c, <2>1, <2>2 DEF Calm, Alive
    <2>6. \A i \in stale' : ~Alive(i)'
      BY <1>0, <1>c, <2>1 DEF Calm, Alive
    <2> QED
      BY <1>c, <2>1, <2>4, <2>5, <2>6 DEF Calm
  <1>9. CASE UNCHANGED vars
    BY <1>9, <1>c DEF vars, Calm, Alive
  <1> QED
    BY <1>1, <1>2, <1>3, <1>4, <1>5, <1>6, <1>7, <1>8, <1>9 DEF Next

LEMMA CalmAlways == Spec => []CalmInv
  <1> QED
    BY CalmInit, CalmStep, TypeCorrect, SoundAlways, JobsAlways, PTL DEF Spec

\* What a person finds: complete jobs with their one draft and, in the calm
\* regime, one job at work, whatever errors and restarts do to its runner.
THEOREM JobsStayAccounted == Spec => []JobsAccounted
  <1>1. ASSUME CalmInv PROVE OneActiveJob
    <2> SUFFICES ASSUME calm
                 PROVE  Cardinality({j \in Jobs : job[j].status \in Active}) <= 1
      BY DEF OneActiveJob
    <2> DEFINE S == {j \in Jobs : job[j].status \in Active}
    <2>1. \A i, j \in S : i = j
      BY <1>1 DEF CalmInv, Calm
    <2>2. CASE S = {}
      BY <2>2, FS_EmptySet
    <2>3. CASE S # {}
      <3>1. PICK j : S = {j}
        BY <2>1, <2>3
      <3> QED
        BY <3>1, FS_Singleton
    <2> QED
      BY <2>2, <2>3
  <1> QED
    BY <1>1, CalmAlways, CompleteWithDraft, PTL DEF JobsAccounted

(***************************************************************************)
(* What no step takes back                                                 *)
(***************************************************************************)

\* What a step may do to one job's document and runner.
LEMMA JobChange ==
    ASSUME TypeOK, RunnersSound, JobsInv, [Next]_vars, NEW j \in Jobs
    PROVE  /\ job'[j].done >= job[j].done
           /\ runner[j].at = "poll" /\ runner'[j].at = "batch" => j \notin cancelled
           /\ CalmInv /\ calm /\ job[j].status \in Terminal => job'[j].status = job[j].status
  <1>0. /\ job \in [Jobs -> JobDocuments] /\ runner \in [Jobs -> Runners]
        /\ \A i \in Jobs : Written(i) /\ job[i].done \in Nat
    BY DEF TypeOK, JobsInv, JobDocuments
  <1>1. ASSUME NEW i \in Jobs, Run(i) \/ RunThrows(i)
        PROVE  /\ job'[j].done >= job[j].done
               /\ runner[j].at = "poll" /\ runner'[j].at = "batch" => j \notin cancelled
               /\ CalmInv /\ calm /\ job[j].status \in Terminal
                    => job'[j].status = job[j].status
    <2>1. CASE i # j
      BY <1>0, <1>1, <2>1, RunnerStep
    <2>2. CASE i = j
      <3>1. Alive(j)
        BY <1>1, <2>2, RunnerStep DEF Alive
      <3>2. ~(CalmInv /\ calm /\ job[j].status \in Terminal)
        BY <3>1 DEF CalmInv, Calm, Terminal
      <3> QED
        BY <1>0, <1>1, <2>2, <3>2, RunnerWrites
    <2> QED
      BY <2>1, <2>2
  <1>2. ASSUME NEW c \in Starts, StartSweep(c) \/ StartCheck(c) \/ StartCreate(c)
        PROVE  /\ job'[j].done = job[j].done
               /\ runner'[j].at = runner[j].at \/ runner'[j].at = "mark"
               /\ job[j].status \in Terminal => job'[j].status = job[j].status
    <2>1. CASE StartSweep(c)
      BY <2>1, Swept DEF StartSweep, Active, Terminal
    <2>2. CASE StartCheck(c)
      BY <2>2 DEF StartCheck
    <2>3. CASE StartCreate(c)
      <3>1. PICK i \in Jobs :
              /\ ~Created(i) /\ SetStatus(i, "QUEUED")
              /\ runner' = [runner EXCEPT ![i].at = "mark", ![i].ask = Total]
        BY <2>3 DEF StartCreate
      <3> QED
        BY <1>0, <3>1 DEF SetStatus, Created, JobDocuments, Runners, Terminal
    <2> QED
      BY <1>2, <2>1, <2>2, <2>3
  <1>3. ASSUME NEW c \in Cancels, CancelRead(c) \/ CancelSave(c)
        PROVE  /\ job'[j].done = job[j].done /\ runner' = runner
               /\ CalmInv /\ calm => job' = job
    BY <1>0, <1>3 DEF CancelRead, CancelSave, SetStatus, JobDocuments, CalmInv, Calm
  <1>4. ASSUME NEW i \in Jobs, GoStale(i)
        PROVE  job' = job /\ runner' = runner
    BY <1>4 DEF GoStale
  <1>5. ASSUME ListMine
        PROVE  /\ job'[j].done = job[j].done /\ runner' = runner
               /\ job[j].status \in Terminal => job'[j].status = job[j].status
    BY <1>5, Swept DEF ListMine, Active, Terminal
  <1>6. ASSUME Restart
        PROVE  job' = job /\ (runner'[j].at = runner[j].at \/ runner'[j].at = "gone")
    BY <1>0, <1>6 DEF Restart, Runners
  <1>7. ASSUME UNCHANGED vars PROVE job' = job /\ runner' = runner
    BY <1>7 DEF vars
  <1> QED
    BY <1>0, <1>1, <1>2, <1>3, <1>4, <1>5, <1>6, <1>7 DEF Next

\* No batch is asked for once a cancel was answered, no progress is taken back
\* and, in the calm regime, no end of a job is overwritten.
THEOREM NothingGoesBack == Spec => NothingTakenBack
  <1>1. ASSUME TypeOK, RunnersSound, JobsInv, CalmInv, [Next]_vars
        PROVE  NoBatchAfterCancel /\ ProgressKept /\ FinishedIsFinal
    <2>1. \A j \in Jobs :
            /\ job'[j].done >= job[j].done
            /\ runner[j].at = "poll" /\ runner'[j].at = "batch" => j \notin cancelled
            /\ calm /\ job[j].status \in Terminal => job'[j].status = job[j].status
      BY <1>1, JobChange
    <2>2. NoBatchAfterCancel
      BY <1>1, <2>1 DEF NoBatchAfterCancel, JobsInv, Marked, Looping
    <2> QED
      BY <2>1, <2>2 DEF ProgressKept, FinishedIsFinal
  <1>2. TypeOK /\ RunnersSound /\ JobsInv /\ CalmInv /\ [Next]_vars
          => [NoBatchAfterCancel /\ ProgressKept /\ FinishedIsFinal]_<<job, runner>>
    BY <1>1
  <1> QED
    BY <1>2, TypeCorrect, SoundAlways, JobsAlways, CalmAlways, PTL
       DEF Spec, NothingTakenBack
=============================================================================
