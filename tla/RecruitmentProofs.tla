--------------------------- MODULE RecruitmentProofs ---------------------------
(***************************************************************************)
(* Proofs about RecruitmentPipeline, for any number of applications,       *)
(* addresses, handlers, offers and interviews, and every regime.           *)
(***************************************************************************)
EXTENDS RecruitmentPipeline, SequenceTheorems, FiniteSetTheorems, TLAPS

(***************************************************************************)
(* The inductive invariants                                                *)
(***************************************************************************)

\* The handlers that run; a regime's width bounds them.
Busy == {c \in Calls : call[c].at # "idle"}

WidthInv == IsFiniteSet(Busy) /\ Cardinality(Busy) <= regime.width

\* A handler works on documents that exist, and on an application that was sent
\* in, unless it is the one that is sending it in.
Sound(k) ==
    /\ k.at # "idle" => k.app \in Applications
    /\ k.at = "stage" => k.value \in Stages \ {"HIRED"}
    /\ k.at = "schedule" => k.value \in {"SHORTLISTED", "INTERVIEWING"}
    /\ k.at = "interview" => k.item \in DOMAIN interviews /\ k.value \in Interviewed
    /\ k.at = "decide" => k.item \in DOMAIN offers /\ k.value \in Decisions
    /\ k.at = "apply" => Status(k.app) = "NONE"
    /\ k.at \notin {"idle", "apply", "interview"} => Status(k.app) # "NONE"

ItemsInv ==
    /\ \A c \in Calls : Sound(call[c])
    /\ \A c, d \in Calls :
          call[c].at = "apply" /\ call[d].at = "apply" /\ call[c].app = call[d].app => c = d
    /\ \A i \in DOMAIN offers : Status(offers[i].app) # "NONE"

\* An employee who was hired from an application has its address; the handler
\* that hired goes on with that application.
RecordsInv ==
    /\ \A m \in Emails : employee[m] \in Applications =>
          app[employee[m]].email = m /\ Status(employee[m]) # "NONE"
    /\ \A c \in Calls : call[c].at \in {"hired", "uncount"} => Hired(call[c].app)

\* The vacancy counts the applications that wait, but for the handlers that have
\* sent one in or hired one and have not counted it yet.
Waiting    == {a \in Applications : Status(a) # "NONE" /\ ~Hired(a)}
Counting   == {c \in Calls : call[c].at = "count"}
Uncounting == {c \in Calls : call[c].at \in {"hired", "uncount"}}

CountInv ==
    /\ IsFiniteSet(Waiting)
    /\ aborts = 0 =>
          applied = Cardinality(Waiting) - Cardinality(Counting) + Cardinality(Uncounting)

\* One handler at a time: what a handler has read is what is stored.
Current(k) ==
    /\ k.at = "stage" => k.value = "WITHDRAWN" \/ Status(k.app) \notin Closed
    /\ k.at = "schedule" => /\ k.item = Rounds(k.app) + 1
                            /\ Status(k.app) \in {"SHORTLISTED", "INTERVIEWING"}
    /\ k.at = "offer" => /\ Status(k.app) \in {"INTERVIEWING", "OFFERED"}
                         /\ \A i \in OffersTo(k.app) : offers[i].status \notin ActiveOffer
    /\ k.at \in {"hire", "hired"} => Status(k.app) \in {"INTERVIEWING", "OFFERED"}
    /\ k.at = "decide" => offers[k.item].status = "SENT" /\ offers[k.item].app = k.app
    /\ k.at = "interview" => \/ k.value = "COMPLETED"
                             \/ interviews[k.item].status # "COMPLETED"

ReadInv == OneAtATime => \A c \in Calls : Current(call[c])

\* A candidate whose offer was declined or withdrawn is out, or is just being
\* taken out by the handler that recorded it.
Leaving(a) == \E c \in Calls : /\ call[c].at = "stage" /\ call[c].value = "WITHDRAWN"
                               /\ call[c].app = a

OutInv ==
    Orderly => \A i \in DOMAIN offers :
        offers[i].status \in {"DECLINED", "WITHDRAWN"} =>
            Status(offers[i].app) = "WITHDRAWN" \/ Leaving(offers[i].app)

(***************************************************************************)
(* Handlers                                                                *)
(***************************************************************************)

Points == {"idle", "apply", "count", "schedule", "interview", "offer", "decide", "hire",
           "hired", "uncount", "stage"}

Values == Stages \cup OfferStatuses \cup Interviewed \cup {""}

CallStates == [at: Points, app: Applications \cup {Nobody}, item: Nat, value: Values]

LEMMA RegimeType ==
    ASSUME TypeOK
    PROVE  /\ regime.width \in Nat /\ regime.width > 0 /\ regime.aborts \in Nat
           /\ aborts \in Nat /\ applied \in Int
           /\ app \in [Applications -> JobApplications]
           /\ offers \in Seq(Offers) /\ interviews \in Seq(Interviews)
           /\ employee \in [Emails -> Applications \cup {Nobody, Earlier}]
           /\ call \in [Calls -> CallStates]
           /\ Nobody \notin Applications /\ Earlier \notin Applications /\ Nobody # Earlier
  <1>1. Nobody \notin Applications /\ Earlier \notin Applications /\ Nobody # Earlier
    BY PipelineAssumption
  <1>2. call \in [Calls -> CallStates]
    BY DEF TypeOK, CallStates, Points, Values
  <1>3. regime.width \in Nat /\ regime.width > 0 /\ regime.aborts \in Nat
    <2>1. regime \in [width: Nat \ {0}, handlers: SUBSET Handlers,
                      aborts: Nat, offers: Nat, rounds: Nat]
      BY PipelineAssumption DEF TypeOK
    <2> QED
      BY <2>1
  <1>4. aborts \in Nat
    <2>1. aborts \in 0..regime.aborts
      BY DEF TypeOK
    <2> QED
      BY <1>3, <2>1
  <1>5. /\ app \in [Applications -> JobApplications] /\ applied \in Int
        /\ offers \in Seq(Offers) /\ interviews \in Seq(Interviews)
        /\ employee \in [Emails -> Applications \cup {Nobody, Earlier}]
    BY DEF TypeOK
  <1> QED
    BY <1>1, <1>2, <1>3, <1>4, <1>5

\* In a regime of one handler at a time no two run, and none runs when one may
\* start.
LEMMA Alone ==
    ASSUME TypeOK, WidthInv, OneAtATime
    PROVE  /\ \A c, d \in Calls : call[c].at # "idle" /\ call[d].at # "idle" => c = d
           /\ \A e \in Calls : MayStart(e) => \A c \in Calls : call[c].at = "idle"
  <1>1. Cardinality(Busy) \in Nat /\ Cardinality(Busy) <= 1 /\ IsFiniteSet(Busy)
    BY FS_CardinalityType DEF WidthInv, OneAtATime
  <1>2. ASSUME NEW c \in Busy, NEW d \in Busy, c # d PROVE FALSE
    <2>1. IsFiniteSet(Busy \ {c}) /\ Cardinality(Busy \ {c}) = Cardinality(Busy) - 1
      BY <1>1, <1>2, FS_RemoveElement
    <2>2. Cardinality(Busy \ {c}) = 0
      BY <1>1, <2>1, FS_CardinalityType
    <2> QED
      BY <1>2, <2>1, <2>2, FS_EmptySet
  <1>3. ASSUME NEW e \in Calls, MayStart(e) PROVE Busy = {}
    <2>1. Cardinality(Busy) < 1
      BY <1>3 DEF MayStart, OneAtATime, Busy
    <2> QED
      BY <1>1, <2>1, FS_EmptySet
  <1> QED
    BY <1>2, <1>3 DEF Busy

\* A handler that starts is one more; one that goes on keeps its application;
\* one that ends is idle.
LEMMA Began ==
    ASSUME TypeOK, NEW c \in Calls, NEW handler, NEW at \in Points, NEW a \in Applications,
           NEW item \in Nat, NEW value \in Values, Begin(c, handler, at, a, item, value)
    PROVE  /\ call' \in [Calls -> CallStates]
           /\ MayStart(c) /\ handler \in regime.handlers
           /\ \A d \in Calls \ {c} : call'[d] = call[d]
           /\ call'[c] = [at |-> at, app |-> a, item |-> item, value |-> value]
           /\ UNCHANGED <<app, offers, interviews, applied, employee, aborts, overridden, regime>>
  <1> DEFINE k == [at |-> at, app |-> a, item |-> item, value |-> value]
  <1>1. k \in CallStates
    BY DEF CallStates
  <1>2. call' = [call EXCEPT ![c] = k]
    BY DEF Begin
  <1> HIDE DEF k
  <1>3. call' \in [Calls -> CallStates] /\ call'[c] = k /\ \A d \in Calls \ {c} : call'[d] = call[d]
    BY <1>1, <1>2, RegimeType
  <1> QED
    BY <1>3 DEF Begin, k

LEMMA Went ==
    ASSUME TypeOK, NEW c \in Calls, NEW at \in Points, Goto(c, at)
    PROVE  /\ call' \in [Calls -> CallStates]
           /\ \A d \in Calls \ {c} : call'[d] = call[d]
           /\ call'[c].at = at /\ call'[c].app = call[c].app
  BY RegimeType DEF Goto, CallStates

LEMMA Ended ==
    ASSUME TypeOK, NEW c \in Calls, End(c)
    PROVE  /\ call' \in [Calls -> CallStates]
           /\ \A d \in Calls \ {c} : call'[d] = call[d]
           /\ call'[c].at = "idle"
  <1>1. Idle \in CallStates /\ Idle.at = "idle"
    BY DEF Idle, CallStates, Points, Values
  <1> QED
    BY <1>1, RegimeType DEF End

LEMMA WentToStage ==
    ASSUME TypeOK, NEW c \in Calls, NEW status \in Stages, StageThen(c, status)
    PROVE  /\ call' \in [Calls -> CallStates]
           /\ \A d \in Calls \ {c} : call'[d] = call[d]
           /\ call'[c].at = "stage" /\ call'[c].app = call[c].app /\ call'[c].value = status
  <1> DEFINE k == [call[c] EXCEPT !.at = "stage", !.value = status]
  <1>1. call[c] \in CallStates /\ status \in Values /\ "stage" \in Points
    BY RegimeType DEF Values, Points
  <1>2. k \in CallStates /\ k.at = "stage" /\ k.app = call[c].app /\ k.value = status
    BY <1>1 DEF CallStates
  <1>3. call' = [call EXCEPT ![c] = k]
    BY RegimeType DEF StageThen
  <1> HIDE DEF k
  <1> QED
    BY <1>2, <1>3, RegimeType

(***************************************************************************)
(* What a step does to the handler that takes it                           *)
(***************************************************************************)

Read(c) ==
    \/ ApplyRead(c) \/ MoveRead(c) \/ ScheduleRead(c) \/ InterviewRead(c) \/ OfferRead(c)
    \/ DecideRead(c) \/ HireRead(c)

Write(c) ==
    \/ ApplyCreate(c) \/ ApplyCount(c) \/ SetStage(c) \/ ScheduleCreate(c) \/ InterviewSave(c)
    \/ OfferCreate(c) \/ DecideSave(c) \/ HireEmployee(c) \/ HireStage(c) \/ HireUncount(c)
    \/ Abort(c)

LEMMA Steps ==
    [Next]_vars <=> (\E c \in Calls : Read(c) \/ Write(c) \/ Override(c)) \/ UNCHANGED vars
  BY DEF Next, Read, Write

\* The moves that are allowed lead on from an open stage, and never to a hire.
LEMMA MovesAllowed ==
    ASSUME NEW stage, NEW to \in NextStages(stage)
    PROVE  /\ stage \in {"APPLIED", "SHORTLISTED", "INTERVIEWING", "OFFERED"}
           /\ to \in Stages \ {"HIRED", "APPLIED"}
  BY DEF NextStages, Stages, Closed

\* What a handler has found when it goes to its first write.
Found(k) ==
    /\ k.app \in Applications
    /\ k.at \in {"apply", "stage", "schedule", "interview", "offer", "decide", "hire"}
    /\ k.at = "apply" => /\ Status(k.app) = "NONE"
                         /\ \A d \in Calls : call[d].at = "apply" => call[d].app # k.app
    /\ k.at = "stage" => k.value \in NextStages(Status(k.app))
    /\ k.at = "schedule" => /\ Status(k.app) \in {"SHORTLISTED", "INTERVIEWING"}
                            /\ k.item = Rounds(k.app) + 1 /\ k.value = Status(k.app)
    /\ k.at = "interview" => /\ k.item \in DOMAIN interviews /\ k.value \in Interviewed
                             /\ \/ k.value = "COMPLETED"
                                \/ interviews[k.item].status # "COMPLETED"
    /\ k.at = "offer" => /\ Status(k.app) \in {"INTERVIEWING", "OFFERED"}
                         /\ \A i \in OffersTo(k.app) : offers[i].status \notin ActiveOffer
    /\ k.at = "decide" => /\ k.item \in DOMAIN offers /\ k.value \in Decisions
                          /\ offers[k.item].status = "SENT" /\ offers[k.item].app = k.app
    /\ k.at = "hire" => Status(k.app) \in {"OFFERED", "INTERVIEWING"}

\* The documents of the two collections.
LEMMA Documents ==
    ASSUME TypeOK
    PROVE  /\ DOMAIN offers = 1..Len(offers) /\ Len(offers) \in Nat
           /\ \A i \in DOMAIN offers : i \in Nat /\ offers[i] \in Offers
           /\ DOMAIN interviews = 1..Len(interviews) /\ Len(interviews) \in Nat
           /\ \A i \in DOMAIN interviews : i \in Nat /\ interviews[i] \in Interviews
  <1>1. offers \in Seq(Offers) /\ interviews \in Seq(Interviews)
    BY RegimeType
  <1>2. /\ DOMAIN offers = 1..Len(offers) /\ Len(offers) \in Nat
        /\ DOMAIN interviews = 1..Len(interviews) /\ Len(interviews) \in Nat
    BY <1>1, LenProperties
  <1>3. /\ \A i \in 1..Len(offers) : offers[i] \in Offers
        /\ \A i \in 1..Len(interviews) : interviews[i] \in Interviews
    BY <1>1, ElementOfSeq
  <1> QED
    BY <1>2, <1>3

LEMMA RoundsCounted ==
    ASSUME TypeOK, NEW a
    PROVE  Rounds(a) \in Nat
  <1> DEFINE S == {i \in DOMAIN interviews : interviews[i].app = a}
  <1>1. DOMAIN interviews = 1..Len(interviews) /\ Len(interviews) \in Nat
    BY LenProperties DEF TypeOK
  <1>2. IsFiniteSet(1..Len(interviews)) /\ S \in SUBSET (1..Len(interviews))
    BY <1>1, FS_Interval
  <1>3. IsFiniteSet(S)
    BY <1>2, FS_Subset
  <1> QED
    BY <1>3, FS_CardinalityType DEF Rounds

LEMMA Reads ==
    ASSUME TypeOK, NEW c \in Calls, Read(c)
    PROVE  \E handler \in Handlers, at \in Points, a \in Applications, item \in Nat,
              value \in Values :
              /\ Begin(c, handler, at, a, item, value)
              /\ Found([at |-> at, app |-> a, item |-> item, value |-> value])
  <1>0. /\ \A i \in DOMAIN offers : i \in Nat /\ offers[i] \in Offers
        /\ \A i \in DOMAIN interviews : i \in Nat /\ interviews[i] \in Interviews
    BY RegimeType, Documents
  <1>1. CASE ApplyRead(c)
    <2>1. PICK a \in Applications :
             /\ Status(a) = "NONE"
             /\ \A d \in Calls : call[d].at = "apply" => call[d].app # a
             /\ Begin(c, "apply", "apply", a, 0, "APPLIED")
      BY <1>1 DEF ApplyRead
    <2>2. Found([at |-> "apply", app |-> a, item |-> 0, value |-> "APPLIED"])
      BY <2>1 DEF Found
    <2> QED
      BY <2>1, <2>2 DEF Points, Handlers, Values, Stages
  <1>2. CASE MoveRead(c)
    <2>1. PICK a \in Applications : \E to \in NextStages(Status(a)) : Begin(c, "move", "stage", a, 0, to)
      BY <1>2 DEF MoveRead
    <2>2. PICK to \in NextStages(Status(a)) : Begin(c, "move", "stage", a, 0, to)
      BY <2>1
    <2>3. to \in Values
      BY <2>2, MovesAllowed DEF Values
    <2> QED
      BY <2>2, <2>3 DEF Found, Points, Handlers
  <1>3. CASE ScheduleRead(c)
    <2>1. PICK a \in Applications :
             /\ Status(a) \in {"SHORTLISTED", "INTERVIEWING"}
             /\ Begin(c, "schedule", "schedule", a, Rounds(a) + 1, Status(a))
      BY <1>3 DEF ScheduleRead
    <2>2. Rounds(a) + 1 \in Nat /\ Status(a) \in Values
      <3>1. Rounds(a) \in Nat
        BY RoundsCounted
      <3>2. Rounds(a) + 1 \in Nat
        BY <3>1
      <3>3. Status(a) \in Values
        BY <2>1 DEF Values, Stages
      <3> QED
        BY <3>2, <3>3
    <2> DEFINE n == Rounds(a) + 1
               st == Status(a)
    <2>3. n = Rounds(a) + 1 /\ st = Status(a) /\ st \in {"SHORTLISTED", "INTERVIEWING"}
      BY <2>1
    <2>4. Begin(c, "schedule", "schedule", a, n, st) /\ n \in Nat /\ st \in Values
      BY <2>1, <2>2
    <2> HIDE DEF n, st
    <2>5. Found([at |-> "schedule", app |-> a, item |-> n, value |-> st])
      BY <2>3 DEF Found
    <2> QED
      BY <2>4, <2>5 DEF Points, Handlers
  <1>4. CASE InterviewRead(c)
    <2>1. PICK i \in DOMAIN interviews, to \in Interviewed :
             /\ \/ to = "COMPLETED"
                \/ interviews[i].status # "COMPLETED"
             /\ Begin(c, "interview", "interview", interviews[i].app, i, to)
      BY <1>4 DEF InterviewRead
    <2>2. interviews[i].app \in Applications /\ i \in Nat /\ to \in Values
      BY <1>0 DEF Interviews, Values
    <2> QED
      BY <2>1, <2>2 DEF Found, Points, Handlers
  <1>5. CASE OfferRead(c)
    <2>1. PICK a \in Applications :
             /\ Status(a) \in {"INTERVIEWING", "OFFERED"}
             /\ \A i \in OffersTo(a) : offers[i].status \notin ActiveOffer
             /\ Begin(c, "offer", "offer", a, 0, "SENT")
      BY <1>5 DEF OfferRead
    <2>2. Found([at |-> "offer", app |-> a, item |-> 0, value |-> "SENT"])
      BY <2>1 DEF Found
    <2>3. "SENT" \in Values /\ "offer" \in Points /\ "offer" \in Handlers
      BY DEF Points, Handlers, Values, OfferStatuses
    <2> QED
      BY <2>1, <2>2, <2>3
  <1>6. CASE DecideRead(c)
    <2>1. PICK i \in DOMAIN offers, decision \in Decisions :
             /\ offers[i].status = "SENT"
             /\ Begin(c, "decide", "decide", offers[i].app, i, decision)
      BY <1>6 DEF DecideRead
    <2>2. offers[i].app \in Applications /\ i \in Nat /\ decision \in Values
      BY <1>0 DEF Offers, Values, OfferStatuses
    <2> QED
      BY <2>1, <2>2 DEF Found, Points, Handlers
  <1>7. CASE HireRead(c)
    <2>1. PICK a \in Applications :
             /\ Status(a) \in {"OFFERED", "INTERVIEWING"}
             /\ Begin(c, "hire", "hire", a, 0, "HIRED")
      BY <1>7 DEF HireRead
    <2>2. Found([at |-> "hire", app |-> a, item |-> 0, value |-> "HIRED"])
      BY <2>1 DEF Found
    <2>3. "HIRED" \in Values /\ "hire" \in Points /\ "hire" \in Handlers
      BY DEF Points, Handlers, Values, Stages, Closed
    <2> QED
      BY <2>1, <2>2, <2>3
  <1> QED
    BY <1>1, <1>2, <1>3, <1>4, <1>5, <1>6, <1>7 DEF Read

\* What a handler that starts does.
LEMMA ReadEffect ==
    ASSUME TypeOK, NEW c \in Calls, Read(c)
    PROVE  /\ call' \in [Calls -> CallStates] /\ MayStart(c) /\ call[c].at = "idle"
           /\ \A d \in Calls \ {c} : call'[d] = call[d]
           /\ Found(call'[c])
           /\ UNCHANGED <<app, offers, interviews, applied, employee, aborts, overridden, regime>>
  <1>1. PICK handler \in Handlers, at \in Points, a \in Applications, item \in Nat,
              value \in Values :
              /\ Begin(c, handler, at, a, item, value)
              /\ Found([at |-> at, app |-> a, item |-> item, value |-> value])
    BY Reads
  <1>2. /\ call' \in [Calls -> CallStates] /\ MayStart(c)
        /\ \A d \in Calls \ {c} : call'[d] = call[d]
        /\ call'[c] = [at |-> at, app |-> a, item |-> item, value |-> value]
        /\ UNCHANGED <<app, offers, interviews, applied, employee, aborts, overridden, regime>>
    BY <1>1, Began
  <1> QED
    BY <1>1, <1>2 DEF MayStart

\* Where a handler goes after a write.
LEMMA Follows ==
    ASSUME TypeOK, NEW c \in Calls, Write(c)
    PROVE  /\ call' \in [Calls -> CallStates] /\ call[c].at # "idle"
           /\ \A d \in Calls \ {c} : call'[d] = call[d]
           /\ call'[c].at # "idle" => call'[c].app = call[c].app
           /\ \/ call'[c].at = "idle"
              \/ call[c].at = "apply" /\ call'[c].at = "count"
              \/ call[c].at = "schedule" /\ call'[c].at = "stage" /\ call'[c].value = "INTERVIEWING"
              \/ call[c].at = "offer" /\ call'[c].at = "stage" /\ call'[c].value = "OFFERED"
              \/ call[c].at = "decide" /\ call'[c].at = "stage" /\ call'[c].value = "WITHDRAWN"
              \/ call[c].at = "hire" /\ call'[c].at = "hired"
              \/ call[c].at = "hired" /\ call'[c].at = "uncount"
  <1>0. /\ {"count", "hired", "uncount"} \subseteq Points
        /\ {"INTERVIEWING", "OFFERED", "WITHDRAWN"} \subseteq Stages
    BY DEF Points, Stages, Closed
  <1>1. CASE End(c) /\ call[c].at # "idle"
    BY <1>1, Ended
  <1>2. CASE Goto(c, "count") /\ call[c].at = "apply"
    BY <1>0, <1>2, Went
  <1>3. CASE StageThen(c, "INTERVIEWING") /\ call[c].at = "schedule"
    BY <1>0, <1>3, WentToStage
  <1>4. CASE StageThen(c, "OFFERED") /\ call[c].at = "offer"
    BY <1>0, <1>4, WentToStage
  <1>5. CASE StageThen(c, "WITHDRAWN") /\ call[c].at = "decide"
    BY <1>0, <1>5, WentToStage
  <1>6. CASE Goto(c, "hired") /\ call[c].at = "hire"
    BY <1>0, <1>6, Went
  <1>7. CASE Goto(c, "uncount") /\ call[c].at = "hired"
    BY <1>0, <1>7, Went
  <1> QED
    BY <1>1, <1>2, <1>3, <1>4, <1>5, <1>6, <1>7
       DEF Write, ApplyCreate, ApplyCount, SetStage, ScheduleCreate, InterviewSave, OfferCreate,
           DecideSave, HireEmployee, HireStage, HireUncount, Abort

(***************************************************************************)
(* Type correctness                                                        *)
(***************************************************************************)

LEMMA CallStatesAre ==
    CallStates = [at: {"idle", "apply", "count", "schedule", "interview",
                       "offer", "decide", "hire", "hired", "uncount", "stage"},
                  app: Applications \cup {Nobody}, item: Nat,
                  value: Stages \cup OfferStatuses \cup Interviewed \cup {""}]
  BY DEF CallStates, Points, Values

LEMMA TypeInit == Init => TypeOK
  <1> SUFFICES ASSUME Init PROVE TypeOK
    OBVIOUS
  <1>1. app \in [Applications -> JobApplications]
    BY DEF Init, JobApplications
  <1>2. offers \in Seq(Offers) /\ interviews \in Seq(Interviews)
    BY EmptySeq DEF Init
  <1>3. employee \in [Emails -> Applications \cup {Nobody, Earlier}]
    BY DEF Init
  <1>4. Idle \in CallStates
    BY DEF Idle, CallStates, Points, Values
  <1>5. call \in [Calls -> CallStates]
    BY <1>4 DEF Init
  <1>6. regime \in Regimes /\ regime.aborts \in Nat
    BY PipelineAssumption DEF Init
  <1>7. aborts \in 0..regime.aborts /\ applied \in Int /\ overridden \in BOOLEAN
    <2>1. aborts = 0 /\ applied = 0 /\ overridden = FALSE
      BY DEF Init
    <2>2. 0 \in 0..regime.aborts
      BY <1>6
    <2>3. aborts \in 0..regime.aborts
      BY <2>1, <2>2
    <2>4. applied \in Int
      BY <2>1
    <2> QED
      BY <2>1, <2>3, <2>4
  <1> QED
    BY <1>1, <1>2, <1>3, <1>5, <1>6, <1>7, CallStatesAre DEF TypeOK

LEMMA StatusSet ==
    ASSUME app \in [Applications -> JobApplications], NEW b \in Applications,
           NEW status \in Stages, SetStatus(b, status)
    PROVE  /\ app' \in [Applications -> JobApplications]
           /\ \A a \in Applications : app'[a].email = app[a].email
           /\ \A a \in Applications \ {b} : app'[a] = app[a]
           /\ app'[b].status = status
  <1> DEFINE e == [app[b] EXCEPT !.status = status]
  <1>1. e \in JobApplications /\ e.email = app[b].email /\ e.status = status
    BY DEF JobApplications
  <1>2. app' = [app EXCEPT ![b] = e]
    BY DEF SetStatus
  <1> HIDE DEF e
  <1> QED
    BY <1>1, <1>2

(***************************************************************************)
(* Documents                                                               *)
(***************************************************************************)

\* One document of a collection is replaced.
LEMMA Replaced ==
    ASSUME NEW S, NEW docs \in Seq(S), NEW i \in DOMAIN docs, NEW e \in S,
           NEW new, new = [docs EXCEPT ![i] = e]
    PROVE  /\ new \in Seq(S) /\ DOMAIN new = DOMAIN docs /\ new[i] = e
           /\ \A j \in DOMAIN docs \ {i} : new[j] = docs[j]
  <1>1. DOMAIN docs = 1..Len(docs)
    BY LenProperties
  <1>2. new \in Seq(S)
    BY <1>1, ExceptSeq
  <1> QED
    BY <1>1, <1>2

\* One document is added to a collection.
LEMMA Added ==
    ASSUME NEW S, NEW docs \in Seq(S), NEW e \in S, NEW new, new = Append(docs, e)
    PROVE  /\ new \in Seq(S) /\ Len(docs) \in Nat /\ Len(new) = Len(docs) + 1
           /\ DOMAIN docs = 1..Len(docs) /\ DOMAIN new = 1..(Len(docs) + 1)
           /\ DOMAIN new = DOMAIN docs \cup {Len(docs) + 1} /\ Len(docs) + 1 \notin DOMAIN docs
           /\ \A j \in DOMAIN docs : new[j] = docs[j]
           /\ new[Len(docs) + 1] = e
  <1>1. DOMAIN docs = 1..Len(docs) /\ Len(docs) \in Nat
    BY LenProperties
  <1>2. /\ new \in Seq(S) /\ Len(new) = Len(docs) + 1
        /\ \A j \in 1..Len(docs) : new[j] = docs[j] 
        /\ new[Len(docs) + 1] = e
    BY AppendProperties
  <1>3. DOMAIN new = 1..Len(new)
    BY <1>2, LenProperties
  <1>4. 1..(Len(docs) + 1) = (1..Len(docs)) \cup {Len(docs) + 1} /\ Len(docs) + 1 \notin 1..Len(docs)
    BY <1>1
  <1> QED
    BY <1>1, <1>2, <1>3, <1>4

\* createOffer and decideOffer.
LEMMA OffersEvolve ==
    ASSUME TypeOK, ItemsInv, NEW c \in Calls, Write(c)
    PROVE  /\ offers' \in Seq(Offers) /\ DOMAIN offers \subseteq DOMAIN offers'
           /\ \A i \in DOMAIN offers : offers'[i].app = offers[i].app
           /\ \A i \in DOMAIN offers : offers'[i] # offers[i] =>
                 /\ call[c].at = "decide" /\ call[c].item = i /\ offers'[i].status = call[c].value
           /\ \A i \in DOMAIN offers' \ DOMAIN offers :
                 /\ call[c].at = "offer" /\ i = Len(offers) + 1
                 /\ offers'[i] = [app |-> call[c].app, status |-> "SENT"]
  <1>0. offers \in Seq(Offers) /\ Sound(call[c]) /\ call[c] \in CallStates
    BY RegimeType DEF ItemsInv
  <1>1. CASE OfferCreate(c)
    <2> DEFINE e == [app |-> call[c].app, status |-> "SENT"]
    <2>1. e \in Offers
      BY <1>0, <1>1 DEF OfferCreate, Sound, Offers, OfferStatuses
    <2>2. offers' = Append(offers, e) /\ call[c].at = "offer"
      BY <1>1 DEF OfferCreate
    <2> HIDE DEF e
    <2>3. /\ offers' \in Seq(Offers) /\ DOMAIN offers' = DOMAIN offers \cup {Len(offers) + 1}
          /\ Len(offers) + 1 \notin DOMAIN offers
          /\ \A j \in DOMAIN offers : offers'[j] = offers[j]
          /\ offers'[Len(offers) + 1] = e
      BY <1>0, <2>1, <2>2, Added
    <2> QED
      BY <2>2, <2>3 DEF e
  <1>2. CASE DecideSave(c)
    <2>1. /\ call[c].at = "decide" /\ call[c].item \in DOMAIN offers
          /\ call[c].value \in Decisions
      BY <1>0, <1>2 DEF DecideSave, Sound
    <2> DEFINE i == call[c].item
               e == [offers[i] EXCEPT !.status = call[c].value]
    <2>2. offers[i] \in Offers
      BY <2>1, Documents
    <2>3. e \in Offers /\ e.app = offers[i].app /\ e.status = call[c].value
      BY <2>1, <2>2 DEF Offers, OfferStatuses
    <2>4. offers' = [offers EXCEPT ![i] = e]
      BY <1>2 DEF DecideSave
    <2>5. i \in DOMAIN offers /\ i = call[c].item
      BY <2>1
    <2> HIDE DEF e, i
    <2>6. /\ offers' \in Seq(Offers) /\ DOMAIN offers' = DOMAIN offers /\ offers'[i] = e
          /\ \A j \in DOMAIN offers \ {i} : offers'[j] = offers[j]
      BY <1>0, <2>3, <2>4, <2>5, Replaced
    <2> QED
      BY <2>1, <2>3, <2>5, <2>6
  <1>3. CASE offers' = offers
    BY <1>0, <1>3
  <1> QED
    BY <1>1, <1>2, <1>3
       DEF Write, ApplyCreate, ApplyCount, SetStage, ScheduleCreate, InterviewSave,
           HireEmployee, HireStage, HireUncount, Abort

\* scheduleInterview, and the updates of an interview.
LEMMA InterviewsEvolve ==
    ASSUME TypeOK, ItemsInv, NEW c \in Calls, Write(c)
    PROVE  /\ interviews' \in Seq(Interviews) /\ DOMAIN interviews \subseteq DOMAIN interviews'
           /\ \A i \in DOMAIN interviews : /\ interviews'[i].app = interviews[i].app
                                           /\ interviews'[i].round = interviews[i].round
           /\ \A i \in DOMAIN interviews : interviews'[i] # interviews[i] =>
                 /\ call[c].at = "interview" /\ call[c].item = i
                 /\ interviews'[i].status = call[c].value
           /\ \A i \in DOMAIN interviews' \ DOMAIN interviews :
                 /\ call[c].at = "schedule" /\ i = Len(interviews) + 1
                 /\ interviews'[i].app = call[c].app /\ interviews'[i].round = call[c].item
  <1>0. interviews \in Seq(Interviews) /\ Sound(call[c]) /\ call[c] \in CallStates
    BY RegimeType DEF ItemsInv
  <1>1. CASE ScheduleCreate(c)
    <2> DEFINE e == [app |-> call[c].app, round |-> call[c].item, status |-> "SCHEDULED"]
    <2>1. e \in Interviews
      BY <1>0, <1>1 DEF ScheduleCreate, Sound, Interviews, Interviewed, CallStates
    <2>2. interviews' = Append(interviews, e) /\ call[c].at = "schedule"
      BY <1>1 DEF ScheduleCreate
    <2>3. e.app = call[c].app /\ e.round = call[c].item
      OBVIOUS
    <2> HIDE DEF e
    <2>4. /\ interviews' \in Seq(Interviews)
          /\ DOMAIN interviews' = DOMAIN interviews \cup {Len(interviews) + 1}
          /\ Len(interviews) + 1 \notin DOMAIN interviews
          /\ \A j \in DOMAIN interviews : interviews'[j] = interviews[j]
          /\ interviews'[Len(interviews) + 1] = e
      BY <1>0, <2>1, <2>2, Added
    <2> QED
      BY <2>2, <2>3, <2>4
  <1>2. CASE InterviewSave(c)
    <2>1. /\ call[c].at = "interview" /\ call[c].item \in DOMAIN interviews
          /\ call[c].value \in Interviewed
      BY <1>0, <1>2 DEF InterviewSave, Sound
    <2> DEFINE i == call[c].item
               e == [interviews[i] EXCEPT !.status = call[c].value]
    <2>2. interviews[i] \in Interviews
      BY <2>1, Documents
    <2>3. /\ e \in Interviews /\ e.app = interviews[i].app /\ e.round = interviews[i].round
          /\ e.status = call[c].value
      BY <2>1, <2>2 DEF Interviews
    <2>4. interviews' = [interviews EXCEPT ![i] = e]
      BY <1>2 DEF InterviewSave
    <2>5. i \in DOMAIN interviews /\ i = call[c].item
      BY <2>1
    <2> HIDE DEF e, i
    <2>6. /\ interviews' \in Seq(Interviews) /\ DOMAIN interviews' = DOMAIN interviews
          /\ interviews'[i] = e
          /\ \A j \in DOMAIN interviews \ {i} : interviews'[j] = interviews[j]
      BY <1>0, <2>3, <2>4, <2>5, Replaced
    <2> QED
      BY <2>1, <2>3, <2>5, <2>6
  <1>3. CASE interviews' = interviews
    BY <1>0, <1>3
  <1> QED
    BY <1>1, <1>2, <1>3
       DEF Write, ApplyCreate, ApplyCount, SetStage, OfferCreate, DecideSave,
           HireEmployee, HireStage, HireUncount, Abort

(***************************************************************************)
(* Applications and employees                                              *)
(***************************************************************************)

\* The stages a handler writes.
LEMMA AppEvolves ==
    ASSUME TypeOK, ItemsInv, NEW c \in Calls, Write(c)
    PROVE  /\ app' \in [Applications -> JobApplications]
           /\ \A a \in Applications : app'[a] # app[a] => call[c].app = a
           /\ \A a \in Applications : app'[a] # app[a] =>
                \/ call[c].at = "apply" /\ call'[c].at = "count" /\ app'[a].status = "APPLIED"
                \/ /\ call[c].at \in {"stage", "hired"} /\ app'[a].email = app[a].email
                   /\ \/ call[c].at = "stage" /\ app'[a].status = call[c].value
                      \/ call[c].at = "hired" /\ app'[a].status = "HIRED"
           /\ call[c].at = "apply" => app'[call[c].app].status = "APPLIED" /\ call'[c].at = "count"
           /\ call'[c].at = "uncount" => app'[call[c].app].status = "HIRED"
  <1>0. /\ app \in [Applications -> JobApplications] /\ Sound(call[c])
        /\ {"APPLIED", "HIRED"} \subseteq Stages
    BY RegimeType DEF ItemsInv, Stages, Closed
  <1>1. CASE ApplyCreate(c)
    <2>1. PICK m \in Emails : app' = [app EXCEPT ![call[c].app] = [status |-> "APPLIED", email |-> m]]
      BY <1>1 DEF ApplyCreate
    <2> DEFINE e == [status |-> "APPLIED", email |-> m]
    <2>2. e \in JobApplications /\ e.status = "APPLIED"
      BY <1>0 DEF JobApplications
    <2>3. app' = [app EXCEPT ![call[c].app] = e]
      BY <2>1
    <2>4. call[c].at = "apply" /\ call[c].app \in Applications
      BY <1>0, <1>1 DEF ApplyCreate, Sound
    <2>5. call'[c].at = "count"
      BY <1>1, Went DEF ApplyCreate, Points
    <2> HIDE DEF e
    <2> QED
      BY <1>0, <2>2, <2>3, <2>4, <2>5
  <1>2. CASE SetStage(c)
    <2>1. call[c].at = "stage" /\ call[c].app \in Applications /\ call[c].value \in Stages
      BY <1>0, <1>2 DEF SetStage, Sound
    <2>2. SetStatus(call[c].app, call[c].value) /\ call'[c].at = "idle"
      BY <1>2, Ended DEF SetStage
    <2>3. /\ app' \in [Applications -> JobApplications]
          /\ \A a \in Applications : app'[a].email = app[a].email
          /\ \A a \in Applications \ {call[c].app} : app'[a] = app[a]
          /\ app'[call[c].app].status = call[c].value
      BY <1>0, <2>1, <2>2, StatusSet
    <2> QED
      BY <2>1, <2>2, <2>3
  <1>3. CASE HireStage(c)
    <2>1. call[c].at = "hired" /\ call[c].app \in Applications
      BY <1>0, <1>3 DEF HireStage, Sound
    <2>2. SetStatus(call[c].app, "HIRED") /\ call'[c].at = "uncount"
      BY <1>3, Went DEF HireStage, Points
    <2>3. /\ app' \in [Applications -> JobApplications]
          /\ \A a \in Applications : app'[a].email = app[a].email
          /\ \A a \in Applications \ {call[c].app} : app'[a] = app[a]
          /\ app'[call[c].app].status = "HIRED"
      BY <1>0, <2>1, <2>2, StatusSet
    <2> QED
      BY <2>1, <2>2, <2>3
  <1>4. CASE app' = app /\ call[c].at # "apply" /\ call[c].at # "hired"
    <2>1. call'[c].at # "uncount"
      BY <1>4, Follows
    <2> QED
      BY <1>0, <1>4, <2>1
  <1>5. CASE app' = app /\ End(c) /\ call[c].at # "apply"
    BY <1>0, <1>5, Ended
  <1> QED
    BY <1>1, <1>2, <1>3, <1>4, <1>5
       DEF Write, ApplyCount, ScheduleCreate, InterviewSave, OfferCreate, DecideSave,
           HireEmployee, HireUncount, Abort

\* The stage that is set by hand.
LEMMA Overrides ==
    ASSUME TypeOK, NEW c \in Calls, Override(c)
    PROVE  /\ app' \in [Applications -> JobApplications] /\ overridden' = TRUE
           /\ \A a \in Applications : app'[a].email = app[a].email
           /\ \A a \in Applications : Status(a) # "NONE" <=> app'[a].status # "NONE"
           /\ UNCHANGED <<offers, interviews, applied, employee, call, aborts, regime>>
  <1>1. PICK a \in Applications, to \in Stages : Status(a) # "NONE" /\ SetStatus(a, to)
    BY DEF Override
  <1>2. to # "NONE"
    BY <1>1 DEF Stages, Closed
  <1>3. /\ app' \in [Applications -> JobApplications]
        /\ \A b \in Applications : app'[b].email = app[b].email
        /\ \A b \in Applications \ {a} : app'[b] = app[b]
        /\ app'[a].status = to
    BY <1>1, RegimeType, StatusSet
  <1> QED
    BY <1>1, <1>2, <1>3 DEF Override, Status

\* createEmployee.
LEMMA EmployeesEvolve ==
    ASSUME TypeOK, ItemsInv, NEW c \in Calls, Write(c)
    PROVE  /\ employee' \in [Emails -> Applications \cup {Nobody, Earlier}]
           /\ call'[c].at # "hired" => employee' = employee
           /\ call'[c].at = "hired" =>
                /\ call[c].at = "hire" /\ call[c].app \in Applications
                /\ app[call[c].app].email \in Emails
                /\ employee[app[call[c].app].email] = Nobody
                /\ employee'[app[call[c].app].email] = call[c].app
                /\ \A m \in Emails \ {app[call[c].app].email} : employee'[m] = employee[m]
  <1>0. /\ app \in [Applications -> JobApplications] /\ Sound(call[c])
        /\ employee \in [Emails -> Applications \cup {Nobody, Earlier}]
    BY RegimeType DEF ItemsInv
  <1>1. CASE HireEmployee(c) /\ employee[app[call[c].app].email] = Nobody
    <2> DEFINE m == app[call[c].app].email
    <2>1. call[c].at = "hire" /\ call[c].app \in Applications
      BY <1>0, <1>1 DEF HireEmployee, Sound
    <2>2. m \in Emails
      BY <1>0, <2>1 DEF JobApplications
    <2>3. employee' = [employee EXCEPT ![m] = call[c].app] /\ employee[m] = Nobody
      BY <1>1 DEF HireEmployee
    <2>4. m = app[call[c].app].email
      OBVIOUS
    <2> HIDE DEF m
    <2>5. /\ employee' \in [Emails -> Applications \cup {Nobody, Earlier}]
          /\ employee'[m] = call[c].app /\ \A n \in Emails \ {m} : employee'[n] = employee[n]
      BY <1>0, <2>1, <2>2, <2>3
    <2>6. call'[c].at = "hired"
      BY <1>1, Went DEF HireEmployee, Points
    <2> QED
      BY <2>1, <2>2, <2>3, <2>4, <2>5, <2>6
  <1>2. CASE employee' = employee /\ End(c)
    BY <1>0, <1>2, Ended
  <1>3. CASE employee' = employee /\ call[c].at # "hire"
    <2>1. call'[c].at # "hired"
      BY <1>3, Follows
    <2> QED
      BY <1>0, <1>3, <2>1
  <1> QED
    BY <1>1, <1>2, <1>3
       DEF Write, ApplyCreate, ApplyCount, SetStage, ScheduleCreate, InterviewSave, OfferCreate,
           DecideSave, HireEmployee, HireStage, HireUncount, Abort

\* The counters.
LEMMA CountersEvolve ==
    ASSUME TypeOK, ItemsInv, NEW c \in Calls, Write(c)
    PROVE  /\ applied' \in Int /\ aborts' \in 0..regime.aborts
           /\ overridden' = overridden /\ regime' = regime
           /\ aborts' # 0 \/ aborts' = aborts
           /\ aborts' = aborts =>
                /\ call[c].at = "count" => applied' = applied + 1 /\ call'[c].at = "idle"
                /\ call[c].at = "uncount" => applied' = applied - 1 /\ call'[c].at = "idle"
                /\ call[c].at \notin {"count", "uncount"} => applied' = applied
                /\ call[c].at = "hired" => call'[c].at = "uncount"
                /\ call[c].at = "stage" => app'[call[c].app].status = call[c].value
  <1>0. /\ aborts \in Nat /\ regime.aborts \in Nat /\ applied \in Int
        /\ aborts \in 0..regime.aborts
    BY RegimeType DEF TypeOK
  <1>1. CASE Abort(c)
    <2>1. aborts' = aborts + 1 /\ aborts < regime.aborts /\ applied' = applied
          /\ overridden' = overridden /\ regime' = regime
      BY <1>1 DEF Abort
    <2>2. aborts + 1 \in 0..regime.aborts /\ aborts + 1 # 0 /\ aborts + 1 # aborts
      BY <1>0, <2>1
    <2> QED
      BY <1>0, <2>1, <2>2
  <1>2. CASE ApplyCount(c)
    <2>1. applied' = applied + 1 /\ call[c].at = "count" /\ End(c)
          /\ UNCHANGED <<aborts, overridden, regime>>
      BY <1>2 DEF ApplyCount
    <2>2. applied + 1 \in Int
      BY <1>0
    <2>3. call'[c].at = "idle"
      BY <2>1, Ended
    <2> QED
      BY <1>0, <2>1, <2>2, <2>3
  <1>3. CASE HireUncount(c)
    <2>1. applied' = applied - 1 /\ call[c].at = "uncount" /\ End(c)
          /\ UNCHANGED <<aborts, overridden, regime>>
      BY <1>3 DEF HireUncount
    <2>2. applied - 1 \in Int
      BY <1>0
    <2>3. call'[c].at = "idle"
      BY <2>1, Ended
    <2> QED
      BY <1>0, <2>1, <2>2, <2>3
  <1>4. CASE HireStage(c)
    <2>1. call[c].at = "hired" /\ call'[c].at = "uncount"
          /\ UNCHANGED <<applied, aborts, overridden, regime>>
      BY <1>4, Went DEF HireStage, Points
    <2> QED
      BY <1>0, <2>1
  <1>5. CASE SetStage(c)
    <2>1. call[c].at = "stage" /\ SetStatus(call[c].app, call[c].value)
          /\ UNCHANGED <<applied, aborts, overridden, regime>>
      BY <1>5 DEF SetStage
    <2>2. call[c].app \in Applications /\ call[c].value \in Stages
      BY <2>1 DEF ItemsInv, Sound
    <2>3. app'[call[c].app].status = call[c].value
      BY <2>1, <2>2, RegimeType, StatusSet
    <2> QED
      BY <1>0, <2>1, <2>3
  <1>6. CASE /\ call[c].at \notin {"count", "uncount", "hired", "stage"}
             /\ UNCHANGED <<applied, aborts, overridden, regime>>
    BY <1>0, <1>6
  <1> QED
    BY <1>1, <1>2, <1>3, <1>4, <1>5, <1>6
       DEF Write, ApplyCreate, ScheduleCreate, InterviewSave, OfferCreate, DecideSave, HireEmployee

LEMMA TypeStep ==
    ASSUME TypeOK, ItemsInv, [Next]_vars
    PROVE  TypeOK'
  <1>0. /\ app \in [Applications -> JobApplications] /\ offers \in Seq(Offers)
        /\ interviews \in Seq(Interviews) /\ applied \in Int
        /\ employee \in [Emails -> Applications \cup {Nobody, Earlier}]
        /\ call \in [Calls -> CallStates] /\ overridden \in BOOLEAN /\ regime \in Regimes
        /\ aborts \in 0..regime.aborts
    BY RegimeType DEF TypeOK
  <1>1. ASSUME NEW c \in Calls, Read(c) PROVE TypeOK'
    BY <1>0, <1>1, ReadEffect, CallStatesAre DEF TypeOK
  <1>2. ASSUME NEW c \in Calls, Write(c) PROVE TypeOK'
    <2>1. call' \in [Calls -> CallStates]
      BY <1>2, Follows
    <2>2. app' \in [Applications -> JobApplications]
      BY <1>2, AppEvolves
    <2>3. offers' \in Seq(Offers) /\ interviews' \in Seq(Interviews)
      BY <1>2, OffersEvolve, InterviewsEvolve
    <2>4. employee' \in [Emails -> Applications \cup {Nobody, Earlier}]
      BY <1>2, EmployeesEvolve
    <2>5. /\ applied' \in Int /\ aborts' \in 0..regime'.aborts
          /\ overridden' \in BOOLEAN /\ regime' \in Regimes
      BY <1>0, <1>2, CountersEvolve
    <2> QED
      BY <2>1, <2>2, <2>3, <2>4, <2>5, CallStatesAre DEF TypeOK
  <1>3. ASSUME NEW c \in Calls, Override(c) PROVE TypeOK'
    BY <1>0, <1>3, Overrides, CallStatesAre DEF TypeOK
  <1>4. CASE UNCHANGED vars
    BY <1>0, <1>4, CallStatesAre DEF TypeOK, vars
  <1> QED
    BY <1>1, <1>2, <1>3, <1>4, Steps

(***************************************************************************)
(* The handlers at work                                                    *)
(***************************************************************************)

LEMMA WidthStep ==
    ASSUME TypeOK, WidthInv, [Next]_vars
    PROVE  WidthInv'
  <1>0. IsFiniteSet(Busy) /\ Cardinality(Busy) \in Nat /\ regime.width \in Nat
    BY RegimeType, FS_CardinalityType DEF WidthInv
  <1>1. ASSUME NEW c \in Calls, Read(c) PROVE WidthInv'
    <2>1. /\ Cardinality(Busy) < regime.width /\ c \notin Busy /\ regime' = regime
          /\ \A d \in Calls \ {c} : call'[d] = call[d]
      BY <1>1, ReadEffect DEF MayStart, Busy
    <2>2. Found(call'[c])
      BY <1>1, ReadEffect
    <2>3. Busy' = Busy \cup {c}
      BY <2>1, <2>2 DEF Busy, Found
    <2>4. IsFiniteSet(Busy \cup {c}) /\ Cardinality(Busy \cup {c}) = Cardinality(Busy) + 1
      BY <1>0, <2>1, FS_AddElement
    <2> QED
      BY <1>0, <2>1, <2>3, <2>4 DEF WidthInv
  <1>2. ASSUME NEW c \in Calls, Write(c) PROVE WidthInv'
    <2>1. Busy' \in SUBSET Busy
      BY <1>2, Follows DEF Busy
    <2>2. IsFiniteSet(Busy') /\ Cardinality(Busy') <= Cardinality(Busy) /\ Cardinality(Busy') \in Nat
      BY <1>0, <2>1, FS_Subset, FS_CardinalityType
    <2>3. regime' = regime
      BY <1>2 DEF Write, ApplyCreate, ApplyCount, SetStage, ScheduleCreate, InterviewSave,
                  OfferCreate, DecideSave, HireEmployee, HireStage, HireUncount, Abort
    <2> QED
      BY <1>0, <2>2, <2>3 DEF WidthInv
  <1>3. ASSUME NEW c \in Calls, Override(c) PROVE WidthInv'
    BY <1>3 DEF Override, WidthInv, Busy
  <1>4. CASE UNCHANGED vars
    BY <1>4 DEF vars, WidthInv, Busy
  <1> QED
    BY <1>1, <1>2, <1>3, <1>4, Steps

\* An application that was sent in stays sent in, from the same address; one
\* handler at most sends it in.
LEMMA AppsStay ==
    ASSUME TypeOK, ItemsInv, NEW c \in Calls, Write(c)
    PROVE  /\ \A a \in Applications : Status(a) # "NONE" =>
                 app'[a].status # "NONE" /\ app'[a].email = app[a].email
           /\ \A a \in Applications : Status(a) = "NONE" /\ app'[a].status # "NONE" =>
                 call[c].at = "apply" /\ call[c].app = a /\ call'[c].at = "count"
  <1>0. Sound(call[c])
    BY DEF ItemsInv
  <1>1. ASSUME NEW a \in Applications, app'[a] # app[a], Status(a) # "NONE"
        PROVE  app'[a].status # "NONE" /\ app'[a].email = app[a].email
    <2>1. /\ call[c].app = a
          /\ \/ call[c].at = "apply"
             \/ /\ call[c].at \in {"stage", "hired"} /\ app'[a].email = app[a].email
                /\ \/ call[c].at = "stage" /\ app'[a].status = call[c].value
                   \/ call[c].at = "hired" /\ app'[a].status = "HIRED"
      BY <1>1, AppEvolves
    <2>2. "NONE" \notin Stages
      BY DEF Stages, Closed
    <2> QED
      BY <1>0, <1>1, <2>1, <2>2 DEF Sound
  <1>2. ASSUME NEW a \in Applications, app'[a] # app[a], Status(a) = "NONE"
        PROVE  call[c].at = "apply" /\ call[c].app = a /\ call'[c].at = "count"
    <2>1. /\ call[c].app = a
          /\ \/ call[c].at = "apply" /\ call'[c].at = "count"
             \/ call[c].at \in {"stage", "hired"}
      BY <1>2, AppEvolves
    <2> QED
      BY <1>0, <1>2, <2>1 DEF Sound
  <1> QED
    BY <1>1, <1>2 DEF Status

\* What was sound for another handler stays so.
LEMMA SoundStays ==
    ASSUME TypeOK, ItemsInv, NEW c \in Calls, Write(c), NEW d \in Calls \ {c}
    PROVE  Sound(call[d])'
  <1>0. Sound(call[d]) /\ call'[d] = call[d]
    BY Follows DEF ItemsInv
  <1>1. DOMAIN offers \subseteq DOMAIN offers' /\ DOMAIN interviews \subseteq DOMAIN interviews'
    BY OffersEvolve, InterviewsEvolve
  <1>2. call[d].at \notin {"idle", "apply", "interview"} => app'[call[d].app].status # "NONE"
    BY <1>0, AppsStay DEF Sound
  <1>3. ASSUME call[d].at = "apply" PROVE app'[call[d].app].status = "NONE"
    <2>1. call[d].app \in Applications /\ Status(call[d].app) = "NONE"
      BY <1>0, <1>3 DEF Sound
    <2>2. ~(call[c].at = "apply" /\ call[c].app = call[d].app)
      BY <1>3 DEF ItemsInv
    <2> QED
      BY <2>1, <2>2, AppsStay
  <1> QED
    BY <1>0, <1>1, <1>2, <1>3 DEF Sound, Status

LEMMA FoundIsSound ==
    ASSUME ItemsInv, NEW k, Found(k)
    PROVE  Sound(k)
  <1>1. k.at = "stage" => k.value \in Stages \ {"HIRED"} /\ Status(k.app) # "NONE"
    BY MovesAllowed DEF Found
  <1>2. k.at = "decide" => Status(k.app) # "NONE"
    BY DEF Found, ItemsInv
  <1> QED
    BY <1>1, <1>2 DEF Found, Sound

LEMMA ItemsInit == Init => ItemsInv
  <1> SUFFICES ASSUME Init PROVE ItemsInv
    OBVIOUS
  <1>1. \A c \in Calls : call[c].at = "idle"
    BY DEF Init, Idle
  <1>2. DOMAIN offers = {}
    BY DEF Init
  <1> QED
    BY <1>1, <1>2 DEF ItemsInv, Sound

LEMMA ItemsStep ==
    ASSUME TypeOK, ItemsInv, [Next]_vars
    PROVE  ItemsInv'
  <1>1. ASSUME NEW c \in Calls, Read(c) PROVE ItemsInv'
    <2>0. /\ UNCHANGED <<app, offers, interviews>>
          /\ \A d \in Calls \ {c} : call'[d] = call[d]
      BY <1>1, ReadEffect
    <2>1. Found(call'[c])
      BY <1>1, ReadEffect
    <2>2. Sound(call'[c])
      BY <2>1, FoundIsSound
    <2>3. ASSUME NEW d \in Calls PROVE Sound(call[d])'
      <3>1. Sound(call'[d])
        BY <2>0, <2>2 DEF ItemsInv
      <3> QED
        BY <2>0, <3>1 DEF Sound, Status
    <2>4. \A d \in Calls \ {c} :
             ~(call'[c].at = "apply" /\ call'[d].at = "apply" /\ call'[c].app = call'[d].app)
      BY <2>0, <2>1 DEF Found
    <2>5. \A d, e \in Calls :
             call'[d].at = "apply" /\ call'[e].at = "apply" /\ call'[d].app = call'[e].app => d = e
      BY <2>0, <2>4 DEF ItemsInv
    <2>6. (\A i \in DOMAIN offers : Status(offers[i].app) # "NONE")'
      BY <2>0 DEF ItemsInv, Status
    <2> QED
      BY <2>3, <2>5, <2>6 DEF ItemsInv
  <1>2. ASSUME NEW c \in Calls, Write(c) PROVE ItemsInv'
    <2>0. /\ \A d \in Calls \ {c} : call'[d] = call[d]
          /\ call'[c].at # "idle" => call'[c].app = call[c].app
          /\ Sound(call[c])
      BY <1>2, Follows DEF ItemsInv
    <2>1. /\ call'[c].at \in {"idle", "count", "stage", "hired", "uncount"}
          /\ call'[c].at = "stage" => call'[c].value \in Stages \ {"HIRED"}
          /\ call[c].at \notin {"idle", "interview"} \/ call'[c].at = "idle"
      BY <1>2, Follows DEF Stages, Closed
    <2>2. call'[c].at # "idle" => app'[call[c].app].status # "NONE"
      <3>1. CASE call[c].at = "apply"
        BY <1>2, <3>1, AppEvolves
      <3>2. CASE call[c].at \notin {"idle", "apply", "interview"}
        BY <1>2, <2>0, <3>2, AppsStay DEF Sound
      <3> QED
        BY <2>1, <3>1, <3>2
    <2>3. Sound(call[c])'
      BY <2>0, <2>1, <2>2 DEF Sound, Status
    <2>4. \A d \in Calls : Sound(call[d])'
      BY <1>2, <2>3, SoundStays
    <2>5. \A d, e \in Calls :
             call'[d].at = "apply" /\ call'[e].at = "apply" /\ call'[d].app = call'[e].app => d = e
      BY <2>0, <2>1 DEF ItemsInv
    <2>6. ASSUME NEW i \in DOMAIN offers' PROVE app'[offers'[i].app].status # "NONE"
      <3>1. CASE i \in DOMAIN offers
        <4>1. offers'[i].app = offers[i].app /\ Status(offers[i].app) # "NONE"
          BY <1>2, <3>1, OffersEvolve DEF ItemsInv
        <4>2. offers[i].app \in Applications
          BY <3>1, Documents DEF Offers
        <4> QED
          BY <1>2, <4>1, <4>2, AppsStay
      <3>2. CASE i \notin DOMAIN offers
        <4>1. call[c].at = "offer" /\ offers'[i].app = call[c].app
          BY <1>2, <2>6, <3>2, OffersEvolve
        <4>2. call[c].app \in Applications /\ Status(call[c].app) # "NONE"
          BY <2>0, <4>1 DEF Sound
        <4> QED
          BY <1>2, <4>1, <4>2, AppsStay
      <3> QED
        BY <3>1, <3>2
    <2> QED
      BY <2>4, <2>5, <2>6 DEF ItemsInv, Status
  <1>3. ASSUME NEW c \in Calls, Override(c) PROVE ItemsInv'
    <2>1. /\ \A a \in Applications : Status(a) # "NONE" <=> app'[a].status # "NONE"
          /\ UNCHANGED <<offers, interviews, call>>
      BY <1>3, Overrides
    <2>2. \A i \in DOMAIN offers : offers[i].app \in Applications
      BY Documents DEF Offers
    <2>3. \A d \in Calls : Sound(call[d])'
      BY <2>1 DEF ItemsInv, Sound, Status
    <2> QED
      BY <2>1, <2>2, <2>3 DEF ItemsInv, Status
  <1>4. CASE UNCHANGED vars
    BY <1>4 DEF vars, ItemsInv, Sound, Status
  <1> QED
    BY <1>1, <1>2, <1>3, <1>4, Steps

(***************************************************************************)
(* Hires                                                                   *)
(***************************************************************************)

\* Who was hired stays so; a handler hires whom nobody has hired yet.
LEMMA HiredStays ==
    ASSUME TypeOK, ItemsInv, RecordsInv, NEW c \in Calls, Write(c)
    PROVE  /\ \A a \in Applications : Hired(a) => Hired(a)'
           /\ \A a \in Applications : Hired(a)' /\ ~Hired(a) =>
                 call'[c].at = "hired" /\ call[c].app = a
           /\ call'[c].at = "hired" => Hired(call[c].app)' /\ ~Hired(call[c].app)
  <1>0. /\ employee \in [Emails -> Applications \cup {Nobody, Earlier}]
        /\ Nobody \notin Applications
    BY RegimeType
  <1>1. CASE call'[c].at # "hired"
    <2>1. employee' = employee
      BY <1>1, EmployeesEvolve
    <2> QED
      BY <1>1, <2>1 DEF Hired
  <1>2. CASE call'[c].at = "hired"
    <2> DEFINE b == call[c].app
               n == app[b].email
    <2>1. /\ b \in Applications /\ n \in Emails /\ employee[n] = Nobody /\ employee'[n] = b
          /\ \A m \in Emails \ {n} : employee'[m] = employee[m]
      BY <1>2, EmployeesEvolve
    <2>2. \A m \in Emails : employee[m] # b
      BY <1>0, <2>1 DEF RecordsInv
    <2>3. b = call[c].app
      OBVIOUS
    <2> HIDE DEF n, b
    <2>4. \A a \in Applications : Hired(a) => Hired(a)'
      BY <1>0, <2>1 DEF Hired
    <2>5. \A a \in Applications : Hired(a)' /\ ~Hired(a) => a = b
      BY <2>1 DEF Hired
    <2>6. ~Hired(b)
      BY <2>1, <2>2 DEF Hired
    <2>7. Hired(call[c].app)'
      <3>1. call'[c].app = b
        BY <1>2, <2>3, Follows
      <3> QED
        BY <2>1, <3>1 DEF Hired
    <2> QED
      BY <1>2, <2>3, <2>4, <2>5, <2>6, <2>7
  <1> QED
    BY <1>1, <1>2

LEMMA RecordsStep ==
    ASSUME TypeOK, ItemsInv, RecordsInv, [Next]_vars
    PROVE  RecordsInv'
  <1>1. ASSUME NEW c \in Calls, Read(c) PROVE RecordsInv'
    <2>1. /\ UNCHANGED <<app, employee>> /\ call'[c].at \notin {"hired", "uncount"}
          /\ \A d \in Calls \ {c} : call'[d] = call[d]
      BY <1>1, ReadEffect DEF Found
    <2> QED
      BY <2>1 DEF RecordsInv, Status, Hired
  <1>2. ASSUME NEW c \in Calls, Write(c) PROVE RecordsInv'
    <2>0. /\ \A d \in Calls \ {c} : call'[d] = call[d]
          /\ call'[c].at # "idle" => call'[c].app = call[c].app
          /\ \A d \in Calls : Sound(call[d])
      BY <1>2, Follows DEF ItemsInv
    <2>1. ASSUME NEW m \in Emails, employee'[m] \in Applications
          PROVE  app'[employee'[m]].email = m /\ app'[employee'[m]].status # "NONE"
      <3>1. CASE employee'[m] = employee[m]
        BY <1>2, <2>1, <3>1, AppsStay DEF RecordsInv
      <3>2. CASE employee'[m] # employee[m]
        <4>1. /\ call[c].at = "hire" /\ call[c].app \in Applications
              /\ m = app[call[c].app].email /\ employee'[m] = call[c].app
          BY <1>2, <3>2, EmployeesEvolve
        <4>2. Status(call[c].app) # "NONE"
          BY <2>0, <4>1 DEF Sound
        <4> QED
          BY <1>2, <4>1, <4>2, AppsStay
      <3> QED
        BY <3>1, <3>2
    <2>2. ASSUME NEW d \in Calls, call'[d].at \in {"hired", "uncount"}
          PROVE  Hired(call[d].app)'
      <3>1. CASE d = c /\ call'[c].at = "hired"
        BY <1>2, <3>1, HiredStays
      <3>2. CASE d # c \/ call'[c].at = "uncount"
        <4>1. call[d].at \in {"hired", "uncount"} /\ call'[d].app = call[d].app
          BY <1>2, <2>0, <2>2, <3>2, Follows
        <4>2. PICK a \in Applications : a = call[d].app /\ Hired(a)
          BY <2>0, <4>1 DEF RecordsInv, Sound
        <4>3. Hired(a)'
          BY <1>2, <4>2, HiredStays
        <4> QED
          BY <4>1, <4>2, <4>3 DEF Hired
      <3> QED
        BY <2>2, <3>1, <3>2
    <2> QED
      BY <2>1, <2>2 DEF RecordsInv, Status
  <1>3. ASSUME NEW c \in Calls, Override(c) PROVE RecordsInv'
    BY <1>3, Overrides DEF RecordsInv, Status, Hired
  <1>4. CASE UNCHANGED vars
    BY <1>4 DEF vars, RecordsInv, Status, Hired
  <1> QED
    BY <1>1, <1>2, <1>3, <1>4, Steps

\* A candidate is marked as hired by the handler that made the record, or by hand.
LEMMA HiredStep ==
    ASSUME TypeOK, ItemsInv, RecordsInv, HiredIsEmployee, [Next]_vars
    PROVE  HiredIsEmployee'
  <1>1. ASSUME NEW c \in Calls, Read(c) PROVE HiredIsEmployee'
    BY <1>1, ReadEffect DEF HiredIsEmployee, Status, Hired
  <1>2. ASSUME NEW c \in Calls, Write(c) PROVE HiredIsEmployee'
    <2>0. overridden' = overridden /\ Sound(call[c])
      BY <1>2, CountersEvolve DEF ItemsInv
    <2>1. ASSUME ~overridden, NEW a \in Applications, app'[a].status = "HIRED" PROVE Hired(a)'
      <3>1. CASE app'[a] = app[a]
        BY <1>2, <2>1, <3>1, HiredStays DEF HiredIsEmployee, Status
      <3>2. CASE app'[a] # app[a]
        <4>1. call[c].at = "hired" /\ call[c].app = a
          BY <1>2, <2>0, <2>1, <3>2, AppEvolves DEF Sound
        <4>2. Hired(a)
          BY <4>1 DEF RecordsInv
        <4> QED
          BY <1>2, <4>2, HiredStays
      <3> QED
        BY <3>1, <3>2
    <2> QED
      BY <2>0, <2>1 DEF HiredIsEmployee, Status
  <1>3. ASSUME NEW c \in Calls, Override(c) PROVE HiredIsEmployee'
    BY <1>3, Overrides DEF HiredIsEmployee
  <1>4. CASE UNCHANGED vars
    BY <1>4 DEF vars, HiredIsEmployee, Status, Hired
  <1> QED
    BY <1>1, <1>2, <1>3, <1>4, Steps

(***************************************************************************)
(* The count of the vacancy                                                *)
(***************************************************************************)

LEMMA WaitingEvolves ==
    ASSUME TypeOK, ItemsInv, RecordsInv, NEW c \in Calls, Write(c)
    PROVE  /\ call[c].at = "apply" =>
                Waiting' = Waiting \cup {call[c].app} /\ call[c].app \notin Waiting
           /\ call'[c].at = "hired" =>
                Waiting' = Waiting \ {call[c].app} /\ call[c].app \in Waiting
           /\ call[c].at # "apply" /\ call'[c].at # "hired" => Waiting' = Waiting
  <1>0. Sound(call[c]) /\ Waiting \subseteq Applications
    BY DEF ItemsInv, Waiting
  <1>1. \A a \in Applications : a \in Waiting' <=> app'[a].status # "NONE" /\ ~Hired(a)'
    BY DEF Waiting, Status
  <1>2. \A a \in Applications : a \in Waiting <=> Status(a) # "NONE" /\ ~Hired(a)
    BY DEF Waiting
  <1>3. \A x \in Waiting' : x \in Applications
    BY DEF Waiting
  <1>4. CASE call[c].at = "apply"
    <2>1. PICK b \in Applications : b = call[c].app /\ Status(b) = "NONE"
      BY <1>0, <1>4 DEF Sound
    <2>2. app'[b].status # "NONE" /\ call'[c].at = "count"
      BY <1>4, <2>1, AppEvolves
    <2>3. ~Hired(b)
      BY <2>1 DEF RecordsInv, Hired
    <2>4. \A a \in Applications : Hired(a)' <=> Hired(a)
      BY <2>2, HiredStays
    <2>5. \A a \in Applications \ {b} : app'[a].status # "NONE" <=> Status(a) # "NONE"
      BY <2>1, AppsStay
    <2>6. b \in Waiting' /\ b \notin Waiting
      BY <1>1, <1>2, <2>1, <2>2, <2>3, <2>4
    <2>7. \A a \in Applications \ {b} : a \in Waiting' <=> a \in Waiting
      BY <1>1, <1>2, <2>4, <2>5
    <2>8. Waiting' = Waiting \cup {b} /\ b \notin Waiting
      BY <1>0, <1>3, <2>1, <2>6, <2>7
    <2> QED
      BY <1>4, <2>1, <2>2, <2>8
  <1>5. CASE call'[c].at = "hired"
    <2>1. call[c].at = "hire"
      BY <1>5, Follows
    <2>2. PICK b \in Applications : b = call[c].app /\ Status(b) # "NONE"
      BY <1>0, <2>1 DEF Sound
    <2>3. ~Hired(b) /\ Hired(call[c].app)' /\ call'[c].app = b
      BY <1>5, <2>2, HiredStays, Follows
    <2>4. Hired(b)'
      BY <2>3 DEF Hired
    <2>5. \A a \in Applications \ {b} : Hired(a)' <=> Hired(a)
      BY <2>2, HiredStays
    <2>6. \A a \in Applications : app'[a].status # "NONE" <=> Status(a) # "NONE"
      BY <2>1, AppsStay
    <2>7. b \notin Waiting' /\ b \in Waiting
      BY <1>1, <1>2, <2>2, <2>3, <2>4
    <2>8. \A a \in Applications \ {b} : a \in Waiting' <=> a \in Waiting
      BY <1>1, <1>2, <2>5, <2>6
    <2>9. Waiting' = Waiting \ {b}
      BY <1>0, <1>3, <2>7, <2>8
    <2> QED
      BY <1>5, <2>1, <2>2, <2>7, <2>9
  <1>6. CASE call[c].at # "apply" /\ call'[c].at # "hired"
    <2>1. \A a \in Applications : Hired(a)' <=> Hired(a)
      BY <1>6, HiredStays
    <2>2. \A a \in Applications : app'[a].status # "NONE" <=> Status(a) # "NONE"
      BY <1>6, AppsStay
    <2>3. \A a \in Applications : a \in Waiting' <=> a \in Waiting
      BY <1>1, <1>2, <2>1, <2>2
    <2>4. Waiting' = Waiting
      BY <1>0, <1>3, <2>3
    <2> QED
      BY <1>6, <2>4
  <1> QED
    BY <1>4, <1>5, <1>6

LEMMA CountInit == Init => CountInv
  <1> SUFFICES ASSUME Init PROVE CountInv
    OBVIOUS
  <1>1. PICK m \in Emails : app = [a \in Applications |-> [status |-> "NONE", email |-> m]]
    BY DEF Init
  <1>2. \A a \in Applications : Status(a) = "NONE"
    BY <1>1 DEF Status
  <1>3. \A c \in Calls : call[c].at = "idle"
    BY DEF Init, Idle
  <1>4. Waiting = {}
    BY <1>2 DEF Waiting
  <1>5. Counting = {} /\ Uncounting = {}
    BY <1>3 DEF Counting, Uncounting
  <1>6. IsFiniteSet({}) /\ Cardinality({}) = 0 /\ applied = 0
    BY FS_EmptySet DEF Init
  <1> QED
    BY <1>4, <1>5, <1>6 DEF CountInv

\* A set whose members other than c stay: c joins, leaves, or neither.
LEMMA Joins ==
    ASSUME NEW S, NEW T, NEW c, IsFiniteSet(S), T \subseteq S \cup {c}, S \ {c} \subseteq T
    PROVE  /\ IsFiniteSet(T) /\ Cardinality(S) \in Nat /\ Cardinality(T) \in Nat
           /\ c \notin S /\ c \in T => Cardinality(T) = Cardinality(S) + 1
           /\ c \in S /\ c \notin T => Cardinality(T) = Cardinality(S) - 1
           /\ (c \in S <=> c \in T) => Cardinality(T) = Cardinality(S)
  <1>1. Cardinality(S) \in Nat
    BY FS_CardinalityType
  <1>2. CASE c \notin S /\ c \in T
    <2>1. T = S \cup {c}
      BY <1>2
    <2> QED
      BY <1>1, <1>2, <2>1, FS_AddElement
  <1>3. CASE c \in S /\ c \notin T
    <2>1. T = S \ {c}
      BY <1>3
    <2>2. IsFiniteSet(T) /\ Cardinality(T) = Cardinality(S) - 1
      BY <1>3, <2>1, FS_RemoveElement
    <2> QED
      BY <1>1, <1>3, <2>2, FS_CardinalityType
  <1>4. CASE c \in S <=> c \in T
    <2>1. T = S
      BY <1>4
    <2> QED
      BY <1>1, <2>1, <1>4
  <1> QED
    BY <1>2, <1>3, <1>4

LEMMA CountStep ==
    ASSUME TypeOK, WidthInv, ItemsInv, RecordsInv, CountInv, [Next]_vars
    PROVE  CountInv'
  <1>0. /\ IsFiniteSet(Waiting) /\ IsFiniteSet(Counting) /\ IsFiniteSet(Uncounting)
        /\ applied \in Int
    <2>1. Counting \in SUBSET Busy /\ Uncounting \in SUBSET Busy
      BY DEF Counting, Uncounting, Busy
    <2> QED
      BY <2>1, FS_Subset, RegimeType DEF CountInv, WidthInv
  <1>1. ASSUME NEW c \in Calls, Read(c) PROVE CountInv'
    <2>1. /\ call[c].at = "idle" /\ \A d \in Calls \ {c} : call'[d] = call[d]
          /\ UNCHANGED <<app, employee, applied, aborts>>
          /\ call'[c].at \notin {"count", "hired", "uncount"}
      BY <1>1, ReadEffect DEF Found
    <2>2. Counting' = Counting /\ Uncounting' = Uncounting
      BY <2>1 DEF Counting, Uncounting
    <2>3. Waiting' = Waiting
      BY <2>1 DEF Waiting, Status, Hired
    <2> QED
      BY <2>1, <2>2, <2>3 DEF CountInv
  <1>2. ASSUME NEW c \in Calls, Write(c) PROVE CountInv'
    <2>0. /\ \A d \in Calls \ {c} : call'[d] = call[d]
          /\ \/ call'[c].at = "idle"
             \/ call[c].at = "apply" /\ call'[c].at = "count"
             \/ call[c].at = "hire" /\ call'[c].at = "hired"
             \/ call[c].at = "hired" /\ call'[c].at = "uncount"
             \/ call[c].at \in {"schedule", "offer", "decide"} /\ call'[c].at = "stage"
          /\ call[c].at = "apply" => call'[c].at = "count"
      BY <1>2, Follows, AppEvolves
    <2> DEFINE C == Cardinality(Counting)
               C1 == Cardinality(Counting')
               U == Cardinality(Uncounting)
               U1 == Cardinality(Uncounting')
               W == Cardinality(Waiting)
               W1 == Cardinality(Waiting')
    <2>1. /\ Counting' \subseteq Counting \cup {c} /\ Counting \ {c} \subseteq Counting'
          /\ c \in Counting <=> call[c].at = "count"
          /\ c \in Counting' <=> call'[c].at = "count"
      BY <2>0 DEF Counting
    <2>2. /\ Uncounting' \subseteq Uncounting \cup {c} /\ Uncounting \ {c} \subseteq Uncounting'
          /\ c \in Uncounting <=> call[c].at \in {"hired", "uncount"}
          /\ c \in Uncounting' <=> call'[c].at \in {"hired", "uncount"}
      BY <2>0 DEF Uncounting
    <2>3. /\ C \in Nat /\ C1 \in Nat
          /\ call[c].at # "count" /\ call'[c].at = "count" => C1 = C + 1
          /\ call[c].at = "count" /\ call'[c].at # "count" => C1 = C - 1
          /\ (call[c].at = "count" <=> call'[c].at = "count") => C1 = C
      BY <1>0, <2>1, Joins
    <2>4. /\ U \in Nat /\ U1 \in Nat
          /\ call[c].at \notin {"hired", "uncount"} /\ call'[c].at \in {"hired", "uncount"} => U1 = U + 1
          /\ call[c].at \in {"hired", "uncount"} /\ call'[c].at \notin {"hired", "uncount"} => U1 = U - 1
          /\ (call[c].at \in {"hired", "uncount"} <=> call'[c].at \in {"hired", "uncount"}) => U1 = U
      BY <1>0, <2>2, Joins
    <2>5. /\ IsFiniteSet(Waiting') /\ W \in Nat /\ W1 \in Nat
          /\ call[c].at = "apply" => W1 = W + 1
          /\ call'[c].at = "hired" => W1 = W - 1
          /\ call[c].at # "apply" /\ call'[c].at # "hired" => W1 = W
      <3>1. CASE call[c].at = "apply"
        <4>1. Waiting' = Waiting \cup {call[c].app} /\ call[c].app \notin Waiting
          BY <1>2, <3>1, WaitingEvolves
        <4>2. IsFiniteSet(Waiting') /\ W \in Nat /\ W1 = W + 1
          BY <1>0, <4>1, FS_AddElement, FS_CardinalityType
        <4> QED
          BY <2>0, <3>1, <4>2
      <3>2. CASE call'[c].at = "hired"
        <4>1. Waiting' = Waiting \ {call[c].app} /\ call[c].app \in Waiting
          BY <1>2, <3>2, WaitingEvolves
        <4>2. IsFiniteSet(Waiting') /\ W \in Nat /\ W1 = W - 1 /\ W1 \in Nat
          BY <1>0, <4>1, FS_RemoveElement, FS_CardinalityType
        <4> QED
          BY <2>0, <3>2, <4>2
      <3>3. CASE call[c].at # "apply" /\ call'[c].at # "hired"
        <4>1. Waiting' = Waiting
          BY <1>2, <3>3, WaitingEvolves
        <4>2. W \in Nat
          BY <1>0, FS_CardinalityType
        <4> QED
          BY <1>0, <3>3, <4>1, <4>2
      <3> QED
        BY <3>1, <3>2, <3>3
    <2> HIDE DEF C, C1, U, U1, W, W1
    <2>6. /\ aborts' # 0 \/ aborts' = aborts
          /\ aborts' = aborts =>
                /\ call[c].at = "count" => applied' = applied + 1 /\ call'[c].at = "idle"
                /\ call[c].at = "uncount" => applied' = applied - 1 /\ call'[c].at = "idle"
                /\ call[c].at \notin {"count", "uncount"} => applied' = applied
                /\ call[c].at = "hired" => call'[c].at = "uncount"
      BY <1>2, CountersEvolve
    <2>7. aborts = 0 => applied = W - C + U
      BY DEF CountInv, W, C, U
    <2>8. ASSUME aborts' = 0 PROVE applied' = W1 - C1 + U1
      <3>1. aborts = 0 /\ applied = W - C + U
        BY <2>6, <2>7, <2>8
      <3>2. CASE call[c].at = "apply"
        BY <2>0, <2>3, <2>4, <2>5, <2>6, <2>8, <3>1, <3>2
      <3>3. CASE call[c].at = "count"
        BY <2>0, <2>3, <2>4, <2>5, <2>6, <2>8, <3>1, <3>3
      <3>4. CASE call[c].at = "hire"
        BY <2>0, <2>3, <2>4, <2>5, <2>6, <2>8, <3>1, <3>4
      <3>5. CASE call[c].at = "hired"
        BY <2>0, <2>3, <2>4, <2>5, <2>6, <2>8, <3>1, <3>5
      <3>6. CASE call[c].at = "uncount"
        BY <2>0, <2>3, <2>4, <2>5, <2>6, <2>8, <3>1, <3>6
      <3>7. CASE call[c].at \notin {"apply", "count", "hire", "hired", "uncount"}
        BY <2>0, <2>3, <2>4, <2>5, <2>6, <2>8, <3>1, <3>7
      <3> QED
        BY <3>2, <3>3, <3>4, <3>5, <3>6, <3>7
    <2> QED
      BY <2>5, <2>8 DEF CountInv, W1, C1, U1
  <1>3. ASSUME NEW c \in Calls, Override(c) PROVE CountInv'
    <2>1. /\ \A a \in Applications : Status(a) # "NONE" <=> app'[a].status # "NONE"
          /\ UNCHANGED <<applied, employee, call, aborts>>
      BY <1>3, Overrides
    <2>2. Waiting' = Waiting /\ Counting' = Counting /\ Uncounting' = Uncounting
      BY <2>1 DEF Waiting, Counting, Uncounting, Status, Hired
    <2> QED
      BY <2>1, <2>2 DEF CountInv
  <1>4. CASE UNCHANGED vars
    <2>1. Waiting' = Waiting /\ Counting' = Counting /\ Uncounting' = Uncounting
      BY <1>4 DEF vars, Waiting, Counting, Uncounting, Status, Hired
    <2> QED
      BY <1>4, <2>1 DEF vars, CountInv
  <1> QED
    BY <1>1, <1>2, <1>3, <1>4, Steps

(***************************************************************************)
(* One handler at a time                                                   *)
(***************************************************************************)

LEMMA RegimeStays ==
    ASSUME [Next]_vars
    PROVE  regime' = regime
  <1>1. ASSUME NEW c \in Calls, Read(c) PROVE regime' = regime
    BY <1>1 DEF Read, ApplyRead, MoveRead, ScheduleRead, InterviewRead, OfferRead, DecideRead,
                HireRead, Begin
  <1>2. ASSUME NEW c \in Calls, Write(c) PROVE regime' = regime
    BY <1>2 DEF Write, ApplyCreate, ApplyCount, SetStage, ScheduleCreate, InterviewSave,
                OfferCreate, DecideSave, HireEmployee, HireStage, HireUncount, Abort
  <1>3. ASSUME NEW c \in Calls, Override(c) PROVE regime' = regime
    BY <1>3 DEF Override
  <1> QED
    BY <1>1, <1>2, <1>3, Steps DEF vars

\* The handler that writes is the only one.
LEMMA Only ==
    ASSUME TypeOK, WidthInv, OneAtATime, NEW c \in Calls, Write(c)
    PROVE  \A d \in Calls \ {c} : call[d].at = "idle" /\ call'[d].at = "idle"
  <1>1. call[c].at # "idle" /\ \A d \in Calls \ {c} : call'[d] = call[d]
    BY Follows
  <1> QED
    BY <1>1, Alone

LEMMA FoundIsCurrent ==
    ASSUME NEW k, Found(k)
    PROVE  Current(k)
  <1>1. k.at = "stage" => Status(k.app) \notin Closed
    BY MovesAllowed DEF Found, Closed
  <1> QED
    BY <1>1 DEF Found, Current

LEMMA ReadStep ==
    ASSUME TypeOK, WidthInv, ItemsInv, ReadInv, [Next]_vars
    PROVE  ReadInv'
  <1> SUFFICES ASSUME OneAtATime', NEW d \in Calls PROVE Current(call[d])'
    BY DEF ReadInv
  <1>0. OneAtATime
    BY RegimeStays DEF OneAtATime
  <1>1. ASSUME call'[d].at = "idle" PROVE Current(call[d])'
    BY <1>1 DEF Current
  <1>2. ASSUME NEW c \in Calls, Read(c) PROVE Current(call[d])'
    <2>1. /\ Found(call'[c]) /\ UNCHANGED <<app, offers, interviews>>
          /\ \A e \in Calls \ {c} : call'[e] = call[e]
          /\ MayStart(c)
      BY <1>2, ReadEffect
    <2>2. CASE d = c
      <3>1. Current(call'[c])
        BY <2>1, FoundIsCurrent
      <3>2. (Current(call[c]))'
        BY <2>1, <3>1 DEF Current, Status, Rounds, OffersTo
      <3> QED
        BY <2>2, <3>2
    <2>3. CASE d # c
      BY <1>0, <1>1, <2>1, <2>3, Alone
    <2> QED
      BY <2>2, <2>3
  <1>3. ASSUME NEW c \in Calls, Write(c) PROVE Current(call[d])'
    <2>1. CASE d # c
      BY <1>0, <1>1, <1>3, <2>1, Only
    <2>2. CASE d = c
      <3>0. Current(call[c]) /\ Sound(call[c])
        BY <1>0 DEF ReadInv, ItemsInv
      <3>1. call[c].at \notin {"idle", "apply", "stage", "hired"} =>
               call[c].app \in Applications /\ app'[call[c].app] = app[call[c].app]
        BY <1>3, <3>0, AppEvolves DEF Sound
      <3>2. /\ call'[c].at # "idle" => call'[c].app = call[c].app
            /\ \/ call'[c].at \in {"idle", "count", "uncount"}
               \/ /\ call[c].at = "schedule" /\ call'[c].at = "stage"
               \/ /\ call[c].at = "offer" /\ call'[c].at = "stage"
               \/ /\ call[c].at = "decide" /\ call'[c].at = "stage" /\ call'[c].value = "WITHDRAWN"
               \/ call[c].at = "hire" /\ call'[c].at = "hired"
        BY <1>3, Follows
      <3>3. CASE call'[c].at \in {"idle", "count", "uncount"}
        BY <2>2, <3>3 DEF Current
      <3>4. CASE call[c].at = "schedule" /\ call'[c].at = "stage"
        <4>1. app'[call'[c].app].status \in {"SHORTLISTED", "INTERVIEWING"}
          BY <3>0, <3>1, <3>2, <3>4 DEF Current, Status
        <4> QED
          BY <2>2, <3>4, <4>1 DEF Current, Status, Closed
      <3>5. CASE call[c].at = "offer" /\ call'[c].at = "stage"
        <4>1. app'[call'[c].app].status \in {"INTERVIEWING", "OFFERED"}
          BY <3>0, <3>1, <3>2, <3>5 DEF Current, Status
        <4> QED
          BY <2>2, <3>5, <4>1 DEF Current, Status, Closed
      <3>6. CASE call'[c].at = "stage" /\ call'[c].value = "WITHDRAWN"
        BY <2>2, <3>6 DEF Current
      <3>7. CASE call[c].at = "hire" /\ call'[c].at = "hired"
        <4>1. app'[call'[c].app].status \in {"INTERVIEWING", "OFFERED"}
          BY <3>0, <3>1, <3>2, <3>7 DEF Current, Status
        <4> QED
          BY <2>2, <3>7, <4>1 DEF Current, Status
      <3> QED
        BY <3>2, <3>3, <3>4, <3>5, <3>6, <3>7
    <2> QED
      BY <2>1, <2>2
  <1>4. ASSUME NEW c \in Calls, Override(c) PROVE Current(call[d])'
    <2>1. call[d].at = "idle" /\ call' = call
      BY <1>0, <1>4, Alone, Overrides DEF Override
    <2> QED
      BY <1>1, <2>1
  <1>5. CASE UNCHANGED vars
    <2>1. Current(call[d])
      BY <1>0 DEF ReadInv
    <2> QED
      BY <1>5, <2>1 DEF vars, Current, Status, Rounds, OffersTo
  <1> QED
    BY <1>2, <1>3, <1>4, <1>5, Steps

(***************************************************************************)
(* Offers and interviews                                                   *)
(***************************************************************************)

\* createOffer looked, and nobody has made an offer since.
LEMMA OneOfferStep ==
    ASSUME TypeOK, WidthInv, ItemsInv, ReadInv, OneActiveOffer, [Next]_vars
    PROVE  OneActiveOffer'
  <1> SUFFICES ASSUME OneAtATime', NEW a \in Applications,
                      NEW i \in DOMAIN offers', NEW j \in DOMAIN offers',
                      offers'[i].app = a, offers'[j].app = a,
                      offers'[i].status \in ActiveOffer, offers'[j].status \in ActiveOffer,
                      i # j
               PROVE  FALSE
    BY DEF OneActiveOffer, OffersTo
  <1>0. OneAtATime
    BY RegimeStays DEF OneAtATime
  <1>1. CASE offers' = offers
    BY <1>0, <1>1 DEF OneActiveOffer, OffersTo
  <1>2. ASSUME NEW c \in Calls, Write(c) PROVE FALSE
    <2>0. Current(call[c]) /\ Sound(call[c])
      BY <1>0 DEF ReadInv, ItemsInv
    <2>1. ASSUME NEW n \in DOMAIN offers, offers'[n].app = a, offers'[n].status \in ActiveOffer
          PROVE  offers[n].app = a /\ offers[n].status \in ActiveOffer
      <3>1. offers[n].app = a
        BY <1>2, <2>1, OffersEvolve
      <3>2. CASE offers'[n] = offers[n]
        BY <2>1, <3>1, <3>2
      <3>3. CASE offers'[n] # offers[n]
        <4>1. call[c].at = "decide" /\ call[c].item = n
          BY <1>2, <3>3, OffersEvolve
        <4>2. offers[n].status = "SENT"
          BY <2>0, <4>1 DEF Current
        <4> QED
          BY <3>1, <4>2 DEF ActiveOffer
      <3> QED
        BY <3>2, <3>3
    <2>2. ASSUME NEW n \in DOMAIN offers' \ DOMAIN offers, offers'[n].app = a,
                 NEW m \in DOMAIN offers, offers'[m].app = a, offers'[m].status \in ActiveOffer
          PROVE  FALSE
      <3>1. call[c].at = "offer" /\ call[c].app = a
        BY <1>2, <2>2, OffersEvolve
      <3>2. offers[m].app = a /\ offers[m].status \in ActiveOffer
        BY <2>1, <2>2
      <3> QED
        BY <2>0, <3>1, <3>2 DEF Current, OffersTo
    <2>3. ASSUME NEW n \in DOMAIN offers' \ DOMAIN offers PROVE n = Len(offers) + 1
      BY <1>2, <2>3, OffersEvolve
    <2>4. CASE i \in DOMAIN offers /\ j \in DOMAIN offers
      BY <1>0, <2>1, <2>4 DEF OneActiveOffer, OffersTo
    <2>5. CASE i \notin DOMAIN offers /\ j \in DOMAIN offers
      BY <2>2, <2>5
    <2>6. CASE i \in DOMAIN offers /\ j \notin DOMAIN offers
      BY <2>2, <2>6
    <2>7. CASE i \notin DOMAIN offers /\ j \notin DOMAIN offers
      BY <2>3, <2>7
    <2> QED
      BY <2>4, <2>5, <2>6, <2>7
  <1> QED
    BY <1>1, <1>2, Steps, ReadEffect, Overrides DEF vars

\* A declined offer takes the candidate out, and no handler has anything older
\* to write.
LEMMA OutStep ==
    ASSUME TypeOK, WidthInv, ItemsInv, ReadInv, OutInv, [Next]_vars
    PROVE  OutInv'
  <1> SUFFICES ASSUME Orderly', NEW i \in DOMAIN offers',
                      offers'[i].status \in {"DECLINED", "WITHDRAWN"}
               PROVE  Status(offers[i].app)' = "WITHDRAWN" \/ Leaving(offers[i].app)'
    BY DEF OutInv
  <1>0. OneAtATime
    BY RegimeStays DEF OneAtATime, Orderly
  <1>1. ASSUME NEW c \in Calls, Read(c)
        PROVE  Status(offers[i].app)' = "WITHDRAWN" \/ Leaving(offers[i].app)'
    <2>1. UNCHANGED <<app, offers, aborts, overridden, regime>> /\ MayStart(c)
      BY <1>1, ReadEffect
    <2>2. Orderly
      BY <2>1 DEF Orderly, OneAtATime
    <2>3. ~Leaving(offers[i].app)
      BY <1>0, <2>1, Alone DEF Leaving
    <2> QED
      BY <2>1, <2>2, <2>3 DEF OutInv, Status
  <1>2. ASSUME NEW c \in Calls, Write(c)
        PROVE  Status(offers[i].app)' = "WITHDRAWN" \/ Leaving(offers[i].app)'
    <2>0. Current(call[c]) /\ Sound(call[c])
      BY <1>0 DEF ReadInv, ItemsInv
    <2>1. Orderly /\ aborts' = aborts
      <3>1. aborts' = 0 /\ ~overridden'
        BY DEF Orderly
      <3>2. aborts' = aborts /\ overridden' = overridden
        BY <1>2, <3>1, CountersEvolve
      <3> QED
        BY <1>0, <3>1, <3>2 DEF Orderly
    <2>2. CASE i \in DOMAIN offers /\ offers'[i] = offers[i]
      <3>1. PICK a \in Applications : a = offers[i].app
        BY <2>2, Documents DEF Offers
      <3>2. Status(a) = "WITHDRAWN" \/ Leaving(a)
        BY <2>1, <2>2, <3>1 DEF OutInv
      <3>3. CASE Leaving(a)
        <4>1. call[c].at = "stage" /\ call[c].value = "WITHDRAWN" /\ call[c].app = a
          BY <1>0, <1>2, <3>3, Only DEF Leaving
        <4>2. app'[a].status = "WITHDRAWN"
          BY <1>2, <2>1, <4>1, CountersEvolve
        <4> QED
          BY <2>2, <3>1, <4>2 DEF Status
      <3>4. CASE Status(a) = "WITHDRAWN"
        <4>1. app'[a] = app[a] \/ app'[a].status = "WITHDRAWN"
          <5> SUFFICES ASSUME app'[a] # app[a] PROVE app'[a].status = "WITHDRAWN"
            OBVIOUS
          <5>1. /\ call[c].app = a
                /\ \/ call[c].at = "apply"
                   \/ call[c].at = "stage" /\ app'[a].status = call[c].value
                   \/ call[c].at = "hired"
            BY <1>2, AppEvolves
          <5> QED
            BY <2>0, <3>4, <5>1 DEF Current, Sound, Closed
        <4> QED
          BY <2>2, <3>1, <3>4, <4>1 DEF Status
      <3> QED
        BY <3>2, <3>3, <3>4
    <2>3. CASE i \in DOMAIN offers /\ offers'[i] # offers[i]
      <3>1. /\ call[c].at = "decide" /\ call[c].item = i /\ offers'[i].status = call[c].value
            /\ offers'[i].app = offers[i].app
        BY <1>2, <2>3, OffersEvolve
      <3>2. offers[i].app = call[c].app
        BY <2>0, <3>1 DEF Current
      <3>3. StageThen(c, "WITHDRAWN")
        BY <1>2, <3>1 DEF Write, ApplyCreate, ApplyCount, SetStage, ScheduleCreate, InterviewSave,
           OfferCreate, DecideSave, HireEmployee, HireStage, HireUncount, Abort
      <3>4. call'[c].at = "stage" /\ call'[c].app = call[c].app /\ call'[c].value = "WITHDRAWN"
        BY <3>3, WentToStage DEF Stages, Closed
      <3> QED
        BY <3>1, <3>2, <3>4 DEF Leaving
    <2>4. CASE i \notin DOMAIN offers
      BY <1>2, <2>4, OffersEvolve
    <2> QED
      BY <2>2, <2>3, <2>4
  <1>3. ASSUME NEW c \in Calls, Override(c) PROVE FALSE
    BY <1>3, Overrides DEF Orderly
  <1>4. CASE UNCHANGED vars
    <2>1. Orderly /\ i \in DOMAIN offers /\ offers[i].status \in {"DECLINED", "WITHDRAWN"}
      BY <1>4 DEF vars, Orderly, OneAtATime
    <2> QED
      BY <1>4, <2>1 DEF vars, OutInv, Status, Leaving
  <1> QED
    BY <1>1, <1>2, <1>3, <1>4, Steps

\* scheduleInterview counted the rounds, and nobody has added one since.
LEMMA RoundsStep ==
    ASSUME TypeOK, WidthInv, ItemsInv, ReadInv, RoundsNumbered, [Next]_vars
    PROVE  RoundsNumbered'
  <1> SUFFICES ASSUME OneAtATime', NEW i \in DOMAIN interviews'
               PROVE  interviews'[i].round =
                        Cardinality({j \in 1..i : interviews'[j].app = interviews'[i].app})
    BY DEF RoundsNumbered
  <1>0. OneAtATime
    BY RegimeStays DEF OneAtATime
  <1>1. CASE interviews' = interviews
    BY <1>0, <1>1 DEF RoundsNumbered
  <1>2. ASSUME NEW c \in Calls, Write(c)
        PROVE  interviews'[i].round =
                 Cardinality({j \in 1..i : interviews'[j].app = interviews'[i].app})
    <2>0. DOMAIN interviews = 1..Len(interviews) /\ Len(interviews) \in Nat
      BY Documents
    <2>1. CASE i \in DOMAIN interviews
      <3>1. \A j \in 1..i : j \in DOMAIN interviews
        BY <2>0, <2>1
      <3>2. \A j \in 1..i : interviews'[j].app = interviews[j].app
        BY <1>2, <3>1, InterviewsEvolve
      <3>3. interviews'[i].app = interviews[i].app /\ interviews'[i].round = interviews[i].round
        BY <1>2, <2>1, InterviewsEvolve
      <3>4. {j \in 1..i : interviews'[j].app = interviews'[i].app}
              = {j \in 1..i : interviews[j].app = interviews[i].app}
        BY <3>2, <3>3
      <3> QED
        BY <1>0, <2>1, <3>3, <3>4 DEF RoundsNumbered
    <2>2. CASE i \notin DOMAIN interviews
      <3> DEFINE a == call[c].app
                 R == {j \in DOMAIN interviews : interviews[j].app = a}
      <3>1. /\ call[c].at = "schedule" /\ i = Len(interviews) + 1
            /\ interviews'[i].app = a /\ interviews'[i].round = call[c].item
        BY <1>2, <2>2, InterviewsEvolve
      <3>2. call[c].item = Rounds(a) + 1
        BY <1>0, <3>1 DEF ReadInv, Current
      <3>3. \A j \in DOMAIN interviews : interviews'[j].app = interviews[j].app
        BY <1>2, InterviewsEvolve
      <3>4. 1..i = DOMAIN interviews \cup {i} /\ i \notin DOMAIN interviews
        BY <2>0, <3>1
      <3>5. {j \in 1..i : interviews'[j].app = interviews'[i].app} = R \cup {i} /\ i \notin R
        BY <3>1, <3>3, <3>4
      <3>6. IsFiniteSet(R)
        <4>1. IsFiniteSet(1..Len(interviews)) /\ R \in SUBSET (1..Len(interviews))
          BY <2>0, FS_Interval
        <4> QED
          BY <4>1, FS_Subset
      <3>7. Cardinality(R \cup {i}) = Cardinality(R) + 1
        BY <3>5, <3>6, FS_AddElement
      <3>8. Rounds(a) = Cardinality(R)
        BY DEF Rounds
      <3> QED
        BY <3>1, <3>2, <3>5, <3>7, <3>8
    <2> QED
      BY <2>1, <2>2
  <1> QED
    BY <1>1, <1>2, Steps, ReadEffect, Overrides DEF vars

\* What is closed stays so.
LEMMA ClosedStep ==
    ASSUME TypeOK, WidthInv, ItemsInv, ReadInv, [Next]_vars
    PROVE  FeedbackIsFinal /\ NeverReopened
  <1>1. ASSUME OneAtATime, NEW i \in DOMAIN interviews, interviews[i].status = "COMPLETED"
        PROVE  interviews'[i].status = "COMPLETED"
    <2>1. CASE interviews' = interviews
      BY <1>1, <2>1
    <2>2. ASSUME NEW c \in Calls, Write(c) PROVE interviews'[i].status = "COMPLETED"
      <3>1. CASE interviews'[i] = interviews[i]
        BY <1>1, <3>1
      <3>2. CASE interviews'[i] # interviews[i]
        <4>1. /\ call[c].at = "interview" /\ call[c].item = i
              /\ interviews'[i].status = call[c].value
          BY <1>1, <2>2, <3>2, InterviewsEvolve
        <4> QED
          BY <1>1, <4>1 DEF ReadInv, Current
      <3> QED
        BY <3>1, <3>2
    <2> QED
      BY <2>1, <2>2, Steps, ReadEffect, Overrides DEF vars
  <1>2. ASSUME Orderly', NEW a \in Applications, Status(a) \in Closed
        PROVE  Status(a)' \in Closed
    <2>0. OneAtATime
      BY <1>2, RegimeStays DEF OneAtATime, Orderly
    <2>1. CASE app' = app
      BY <1>2, <2>1 DEF Status
    <2>2. ASSUME NEW c \in Calls, Write(c) PROVE Status(a)' \in Closed
      <3>0. Current(call[c]) /\ Sound(call[c])
        BY <2>0 DEF ReadInv, ItemsInv
      <3>1. CASE app'[a] = app[a]
        BY <1>2, <3>1 DEF Status
      <3>2. CASE app'[a] # app[a]
        <4>1. /\ call[c].app = a
              /\ \/ call[c].at = "apply"
                 \/ call[c].at = "stage" /\ app'[a].status = call[c].value
                 \/ call[c].at = "hired"
          BY <2>2, <3>2, AppEvolves
        <4> QED
          BY <1>2, <3>0, <4>1 DEF Current, Sound, Closed, Status
      <3> QED
        BY <3>1, <3>2
    <2>3. ASSUME NEW c \in Calls, Override(c) PROVE FALSE
      BY <1>2, <2>3, Overrides DEF Orderly
    <2> QED
      BY <2>1, <2>2, <2>3, Steps, ReadEffect DEF vars
  <1> QED
    BY <1>1, <1>2 DEF FeedbackIsFinal, NeverReopened

(***************************************************************************)
(* Theorems                                                                *)
(***************************************************************************)

\* What every other part rests on; the hires, however the handlers interleave;
\* and what one handler at a time adds.
Core == TypeOK /\ WidthInv /\ ItemsInv
Hires == RecordsInv /\ CountInv /\ HiredIsEmployee
InTurn == ReadInv /\ OneActiveOffer /\ OutInv /\ RoundsNumbered

LEMMA CoreInvariant == Spec => []Core
  <1>1. Init => Core
    <2> SUFFICES ASSUME Init PROVE WidthInv
      BY TypeInit, ItemsInit DEF Core
    <2>1. Busy = {}
      BY DEF Init, Busy, Idle
    <2>2. regime.width \in Nat
      BY TypeInit, RegimeType
    <2> QED
      BY <2>1, <2>2, FS_EmptySet DEF WidthInv
  <1>2. Core /\ [Next]_vars => Core'
    BY TypeStep, WidthStep, ItemsStep DEF Core
  <1> QED
    BY <1>1, <1>2, PTL DEF Spec

LEMMA HiresInvariant == Spec => []Hires
  <1>1. Init => Hires
    <2> SUFFICES ASSUME Init PROVE RecordsInv /\ HiredIsEmployee
      BY CountInit DEF Hires
    <2>1. Nobody \notin Applications /\ Earlier \notin Applications
      BY PipelineAssumption
    <2>2. \A m \in Emails : employee[m] \notin Applications
      <3>1. employee \in [Emails -> {Nobody, Earlier}]
        BY DEF Init
      <3> QED
        BY <2>1, <3>1
    <2>3. \A c \in Calls : call[c].at = "idle"
      BY DEF Init, Idle
    <2>4. \A a \in Applications : Status(a) = "NONE"
      <3>1. PICK m \in Emails : app = [a \in Applications |-> [status |-> "NONE", email |-> m]]
        BY DEF Init
      <3> QED
        BY <3>1 DEF Status
    <2>5. RecordsInv
      BY <2>2, <2>3 DEF RecordsInv
    <2>6. HiredIsEmployee
      BY <2>4 DEF HiredIsEmployee
    <2> QED
      BY <2>5, <2>6
  <1>2. Core /\ Hires /\ [Next]_vars => Hires'
    BY RecordsStep, CountStep, HiredStep DEF Core, Hires
  <1> QED
    BY <1>1, <1>2, CoreInvariant, PTL DEF Spec

LEMMA InTurnInvariant == Spec => []InTurn
  <1>1. Init => InTurn
    <2> SUFFICES ASSUME Init PROVE InTurn
      OBVIOUS
    <2>1. DOMAIN offers = {} /\ DOMAIN interviews = {}
      BY DEF Init
    <2>2. ReadInv
      <3> SUFFICES ASSUME NEW c \in Calls PROVE Current(call[c])
        BY DEF ReadInv
      <3>1. call[c].at = "idle"
        BY DEF Init, Idle
      <3> QED
        BY <3>1 DEF Current
    <2>3. OneActiveOffer
      BY <2>1 DEF OneActiveOffer, OffersTo
    <2>4. OutInv /\ RoundsNumbered
      BY <2>1 DEF OutInv, RoundsNumbered
    <2> QED
      BY <2>2, <2>3, <2>4 DEF InTurn
  <1>2. Core /\ InTurn /\ [Next]_vars => InTurn'
    BY ReadStep, OneOfferStep, OutStep, RoundsStep DEF Core, InTurn
  <1> QED
    BY <1>1, <1>2, CoreInvariant, PTL DEF Spec

\* The handlers of PipelineService and the two of RecruitmentService keep every
\* document, every handler's state and the counters in their types.
THEOREM TypeCorrect == Spec => []TypeOK
  <1>1. Core => TypeOK
    BY DEF Core
  <1> QED
    BY <1>1, CoreInvariant, PTL

\* However apply and hire interleave with each other and with every other
\* handler, a candidate who is HIRED is an employee unless the stage was set by
\* hand, and the vacancy's appliedCount is the number of applications that wait
\* whenever no handler runs and none stopped half way.
THEOREM HiresStayAccounted == Spec => []HiresAccounted
  <1>1. Hires => HiresAccounted
    <2> SUFFICES ASSUME Hires PROVE HiresAccounted
      OBVIOUS
    <2>1. HiredIsEmployee
      BY DEF Hires
    <2>2. ASSUME Quiet, aborts = 0 PROVE applied = Cardinality(Waiting)
      <3>1. Counting = {} /\ Uncounting = {}
        BY <2>2 DEF Quiet, Counting, Uncounting
      <3>2. IsFiniteSet(Waiting)
        BY DEF Hires, CountInv
      <3>3. Cardinality({}) = 0 /\ Cardinality(Waiting) \in Nat
        BY <3>2, FS_EmptySet, FS_CardinalityType
      <3>4. applied = Cardinality(Waiting) - Cardinality(Counting) + Cardinality(Uncounting)
        BY <2>2 DEF Hires, CountInv
      <3> QED
        BY <3>1, <3>3, <3>4
    <2> QED
      BY <2>1, <2>2 DEF HiresAccounted, VacancyCounts, Waiting
  <1> QED
    BY <1>1, HiresInvariant, PTL

\* One handler at a time: a candidate has one active offer (createOffer), a
\* declined or withdrawn one takes the candidate out (decideOffer), and rounds
\* are numbered in a row (scheduleInterview).
THEOREM OffersStayInOrder == Spec => []OffersInOrder
  <1>1. InTurn => OffersInOrder
    <2> SUFFICES ASSUME InTurn PROVE OffersInOrder
      OBVIOUS
    <2>1. Quiet => \A a : ~Leaving(a)
      BY DEF Quiet, Leaving
    <2>2. DeclinedIsOut
      BY <2>1 DEF InTurn, OutInv, DeclinedIsOut
    <2> QED
      BY <2>2 DEF InTurn, OffersInOrder
  <1> QED
    BY <1>1, InTurnInvariant, PTL

\* One handler at a time: feedback that was given stays given (updateInterview,
\* submitFeedback), and no handler but the override brings back an application
\* that is hired, rejected or withdrawn.
THEOREM ClosedStays == Spec => ClosedStaysClosed
  <1>1. Core /\ InTurn /\ [Next]_vars => [FeedbackIsFinal /\ NeverReopened]_<<interviews, app>>
    BY ClosedStep DEF Core, InTurn
  <1> QED
    BY <1>1, CoreInvariant, InTurnInvariant, PTL DEF Spec, ClosedStaysClosed
=============================================================================
