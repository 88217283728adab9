-------------------------- MODULE RecruitmentPipeline --------------------------
(***************************************************************************)
(* From application to employee: the handlers of PipelineService, and the  *)
(* public application and the status override of RecruitmentService, for   *)
(* the applications to one vacancy.                                        *)
(*                                                                         *)
(* A handler reads, checks, and writes; its reads before a write are one   *)
(* action, each write is another.  A slot of Calls runs one handler after  *)
(* the other.  A handler that refuses changes nothing and is no step.      *)
(* Onboarding is the module EmployeeAccounts; hire meets it here as one    *)
(* write of the employees collection, whose work addresses are unique.     *)
(* Edits of the texts of an offer or an interview are left out.            *)
(***************************************************************************)
EXTENDS Integers, Sequences, FiniteSets

CONSTANTS
    Applications,  \* applications to the vacancy
    Emails,        \* addresses of the candidates
    Calls,         \* slots for handlers that run at the same time
    Regimes,       \* the handlers in use, how many of them may overlap, and bounds
                   \* on those that stop half way, the offers and the interviews
    Nobody,        \* no employee has the address
    Earlier        \* an employee who was not hired from here has it

Handlers == {"apply", "move", "schedule", "interview", "offer", "decide",
             "hire", "override"}

ASSUME PipelineAssumption ==
    /\ Regimes \subseteq [width: Nat \ {0}, handlers: SUBSET Handlers,
                   aborts: Nat, offers: Nat, rounds: Nat]
    /\ Nobody # Earlier /\ {Nobody, Earlier} \cap Applications = {}

Closed == {"HIRED", "REJECTED", "WITHDRAWN"}
Stages == {"APPLIED", "SHORTLISTED", "INTERVIEWING", "OFFERED"} \cup Closed
ActiveOffer    == {"SENT", "ACCEPTED"}
Decisions      == {"ACCEPTED", "DECLINED", "EXPIRED", "WITHDRAWN"}
OfferStatuses  == Decisions \cup {"SENT"}
Interviewed    == {"SCHEDULED", "CANCELLED", "NO_SHOW", "COMPLETED"}

VARIABLES
    app,        \* job_applications; status "NONE": not yet sent in
    offers,     \* offers, in the order they were created
    interviews, \* interviews, in the order they were created
    applied,    \* the vacancy's appliedCount
    employee,   \* the application from which an address was hired
    call,       \* the handlers
    aborts,
    overridden, \* some stage was set by hand
    regime      \* one of Regimes, the same all along

vars == <<app, offers, interviews, applied, employee, call, aborts, overridden, regime>>

JobApplications == [status: Stages \cup {"NONE"}, email: Emails]
Offers          == [app: Applications, status: OfferStatuses]
Interviews      == [app: Applications, round: Nat, status: Interviewed]

TypeOK ==
    /\ app \in [Applications -> JobApplications]
    /\ offers \in Seq(Offers)
    /\ interviews \in Seq(Interviews)
    /\ applied \in Int
    /\ employee \in [Emails -> Applications \cup {Nobody, Earlier}]
    /\ call \in [Calls -> [at: {"idle", "apply", "count", "schedule", "interview",
                                "offer", "decide", "hire", "hired", "uncount", "stage"},
                           app: Applications \cup {Nobody}, item: Nat,
                           value: Stages \cup OfferStatuses \cup Interviewed \cup {""}]]
    /\ overridden \in BOOLEAN
    /\ regime \in Regimes
    /\ aborts \in 0..regime.aborts

Quiet == \A c \in Calls : call[c].at = "idle"
Status(a) == app[a].status

MayStart(c) == /\ call[c].at = "idle"
               /\ Cardinality({d \in Calls : call[d].at # "idle"}) < regime.width

\* A handler starts: it has read and checked, its first write is next.
Begin(c, handler, at, a, item, value) ==
    /\ handler \in regime.handlers
    /\ MayStart(c)
    /\ call' = [call EXCEPT ![c] = [at |-> at, app |-> a, item |-> item, value |-> value]]
    /\ UNCHANGED <<app, offers, interviews, applied, employee, aborts, overridden, regime>>

Idle == [at |-> "idle", app |-> Nobody, item |-> 0, value |-> ""]

Goto(c, at) == call' = [call EXCEPT ![c].at = at]
End(c) == call' = [call EXCEPT ![c] = Idle]
SetStatus(a, status) == app' = [app EXCEPT ![a].status = status]

\* The last write of several handlers: the stage of the application, whatever
\* it has become since it was read.
StageThen(c, status) == call' = [call EXCEPT ![c].at = "stage", ![c].value = status]

SetStage(c) ==
    /\ call[c].at = "stage"
    /\ SetStatus(call[c].app, call[c].value)
    /\ End(c)
    /\ UNCHANGED <<offers, interviews, applied, employee, aborts, overridden, regime>>

-----------------------------------------------------------------------------
(* Applications *)

ApplyRead(c) == \E a \in Applications :
    /\ Status(a) = "NONE"
    /\ \A d \in Calls : call[d].at = "apply" => call[d].app # a
    /\ Begin(c, "apply", "apply", a, 0, "APPLIED")

ApplyCreate(c) ==
    /\ call[c].at = "apply"
    /\ \E m \in Emails : app' = [app EXCEPT ![call[c].app] = [status |-> "APPLIED", email |-> m]]
    /\ Goto(c, "count")
    /\ UNCHANGED <<offers, interviews, applied, employee, aborts, overridden, regime>>

ApplyCount(c) ==
    /\ call[c].at = "count"
    /\ applied' = applied + 1
    /\ End(c)
    /\ UNCHANGED <<app, offers, interviews, employee, aborts, overridden, regime>>

\* Allowed forward moves; an application that is hired has none.
NextStages(stage) ==
    CASE stage = "APPLIED"      -> {"SHORTLISTED", "REJECTED", "WITHDRAWN"}
      [] stage = "SHORTLISTED"  -> {"INTERVIEWING", "REJECTED", "WITHDRAWN"}
      [] stage = "INTERVIEWING" -> {"OFFERED", "REJECTED", "WITHDRAWN"}
      [] stage = "OFFERED"      -> {"REJECTED", "WITHDRAWN"}
      [] OTHER                  -> {}

\* Faulty variant: an applicant is moved without a look at the present stage.
MoveAnywhere(c) == \E a \in Applications, to \in Stages \ {"HIRED", "APPLIED"} :
    /\ Status(a) # "NONE"
    /\ Begin(c, "move", "stage", a, 0, to)

\* moveStage: the save writes the stage that was allowed when it was read.
MoveRead(c) == \E a \in Applications : \E to \in NextStages(Status(a)) :
    Begin(c, "move", "stage", a, 0, to)

\* updateApplicationStatus sets any stage, without a look at the present one.
Override(c) == \E a \in Applications, to \in Stages :
    /\ "override" \in regime.handlers /\ MayStart(c)
    /\ Status(a) # "NONE"
    /\ SetStatus(a, to)
    /\ overridden' = TRUE
    /\ UNCHANGED <<offers, interviews, applied, employee, call, aborts, regime>>

-----------------------------------------------------------------------------
(* Interviews *)

Rounds(a) == Cardinality({i \in DOMAIN interviews : interviews[i].app = a})

\* The round number is counted before the interview is created; value is the
\* stage that was read.
ScheduleRead(c) == \E a \in Applications :
    /\ Status(a) \in {"SHORTLISTED", "INTERVIEWING"}
    /\ Len(interviews) < regime.rounds
    /\ Begin(c, "schedule", "schedule", a, Rounds(a) + 1, Status(a))

\* Faulty variant: rounds are numbered from the number of earlier rounds.
ScheduleCreateLate(c) ==
    /\ call[c].at = "schedule"
    /\ interviews' = Append(interviews, [app |-> call[c].app, status |-> "SCHEDULED",
             round |-> IF call[c].item > 1 THEN call[c].item - 1 ELSE 1])
    /\ IF call[c].value = "SHORTLISTED" THEN StageThen(c, "INTERVIEWING") ELSE End(c)
    /\ UNCHANGED <<app, offers, applied, employee, aborts, overridden, regime>>

ScheduleCreate(c) ==
    /\ call[c].at = "schedule"
    /\ interviews' = Append(interviews, [app |-> call[c].app, round |-> call[c].item,
                                         status |-> "SCHEDULED"])
    /\ IF call[c].value = "SHORTLISTED" THEN StageThen(c, "INTERVIEWING") ELSE End(c)
    /\ UNCHANGED <<app, offers, applied, employee, aborts, overridden, regime>>

\* Faulty variant: a completed interview can be edited.
InterviewReadAny(c) == \E i \in DOMAIN interviews, to \in Interviewed :
    /\ interviews[i].status # to
    /\ Begin(c, "interview", "interview", interviews[i].app, i, to)

\* updateInterview changes the status of a round that is not completed;
\* submitFeedback completes one that is not cancelled.
InterviewRead(c) == \E i \in DOMAIN interviews, to \in Interviewed :
    /\ interviews[i].status # to
    /\ IF to = "COMPLETED" THEN interviews[i].status # "CANCELLED"
                           ELSE interviews[i].status # "COMPLETED"
    /\ Begin(c, "interview", "interview", interviews[i].app, i, to)

InterviewSave(c) ==
    /\ call[c].at = "interview"
    /\ interviews' = [interviews EXCEPT ![call[c].item].status = call[c].value]
    /\ End(c)
    /\ UNCHANGED <<app, offers, applied, employee, aborts, overridden, regime>>

-----------------------------------------------------------------------------
(* Offers *)

OffersTo(a) == {i \in DOMAIN offers : offers[i].app = a}

\* Faulty variant: only an accepted offer stands in the way of another one.
OfferReadSent(c) == \E a \in Applications :
    /\ Status(a) \in {"INTERVIEWING", "OFFERED"}
    /\ \A i \in OffersTo(a) : offers[i].status # "ACCEPTED"
    /\ Len(offers) < regime.offers
    /\ Begin(c, "offer", "offer", a, 0, "SENT")

\* createOffer: refused while an offer to the candidate is active.
OfferRead(c) == \E a \in Applications :
    /\ Status(a) \in {"INTERVIEWING", "OFFERED"}
    /\ \A i \in OffersTo(a) : offers[i].status \notin ActiveOffer
    /\ Len(offers) < regime.offers
    /\ Begin(c, "offer", "offer", a, 0, "SENT")

OfferCreate(c) ==
    /\ call[c].at = "offer"
    /\ offers' = Append(offers, [app |-> call[c].app, status |-> "SENT"])
    /\ StageThen(c, "OFFERED")
    /\ UNCHANGED <<app, interviews, applied, employee, aborts, overridden, regime>>

\* decideOffer: only an offer that is still SENT can be decided.
DecideRead(c) == \E i \in DOMAIN offers, decision \in Decisions :
    /\ offers[i].status = "SENT"
    /\ Begin(c, "decide", "decide", offers[i].app, i, decision)

\* Faulty variant: a declined offer leaves the candidate at the offer stage.
DecideSaveOnly(c) ==
    /\ call[c].at = "decide"
    /\ offers' = [offers EXCEPT ![call[c].item].status = call[c].value]
    /\ End(c)
    /\ UNCHANGED <<app, interviews, applied, employee, aborts, overridden, regime>>

\* Faulty variant: the application gets the status of the offer.
DecideSaveCopies(c) ==
    /\ call[c].at = "decide"
    /\ offers' = [offers EXCEPT ![call[c].item].status = call[c].value]
    /\ StageThen(c, call[c].value)
    /\ UNCHANGED <<app, interviews, applied, employee, aborts, overridden, regime>>

\* An offer that is declined or withdrawn takes the application with it.
DecideSave(c) ==
    /\ call[c].at = "decide"
    /\ offers' = [offers EXCEPT ![call[c].item].status = call[c].value]
    /\ IF call[c].value \in {"DECLINED", "WITHDRAWN"}
       THEN StageThen(c, "WITHDRAWN") ELSE End(c)
    /\ UNCHANGED <<app, interviews, applied, employee, aborts, overridden, regime>>

-----------------------------------------------------------------------------
(* Hiring *)

\* The offer that counts is the one created last, if there is one.
OfferStands(a) == \A i \in OffersTo(a) :
    (\A j \in OffersTo(a) : j <= i) => offers[i].status \in ActiveOffer

HireRead(c) == \E a \in Applications :
    /\ Status(a) \in {"OFFERED", "INTERVIEWING"}
    /\ OfferStands(a)
    /\ Begin(c, "hire", "hire", a, 0, "HIRED")

\* Faulty variant: an address that is already an employee's is no obstacle.
HireEmployeeAnyway(c) ==
    /\ call[c].at = "hire"
    /\ Goto(c, "hired")
    /\ employee' = [employee EXCEPT ![app[call[c].app].email] =
                      IF @ = Nobody THEN call[c].app ELSE @]
    /\ UNCHANGED <<app, offers, interviews, applied, aborts, overridden, regime>>

\* createEmployee, which refuses an address that an employee has.
HireEmployee(c) ==
    LET email == app[call[c].app].email
    IN  /\ call[c].at = "hire"
        /\ IF employee[email] # Nobody
           THEN End(c) /\ UNCHANGED employee
           ELSE /\ employee' = [employee EXCEPT ![email] = call[c].app]
                /\ Goto(c, "hired")
        /\ UNCHANGED <<app, offers, interviews, applied, aborts, overridden, regime>>

\* Faulty variant: the vacancy keeps counting the candidate.
HireStageOnly(c) ==
    /\ call[c].at = "hired"
    /\ SetStatus(call[c].app, "HIRED")
    /\ End(c)
    /\ UNCHANGED <<offers, interviews, applied, employee, aborts, overridden, regime>>

HireStage(c) ==
    /\ call[c].at = "hired"
    /\ SetStatus(call[c].app, "HIRED")
    /\ Goto(c, "uncount")
    /\ UNCHANGED <<offers, interviews, applied, employee, aborts, overridden, regime>>

HireUncount(c) ==
    /\ call[c].at = "uncount"
    /\ applied' = applied - 1
    /\ End(c)
    /\ UNCHANGED <<app, offers, interviews, employee, aborts, overridden, regime>>

\* A database error ends a handler after its first write; one in the count of
\* the vacancy is swallowed, with the same effect.
Abort(c) ==
    /\ call[c].at \in {"count", "stage", "hired", "uncount"}
    /\ aborts < regime.aborts
    /\ aborts' = aborts + 1
    /\ End(c)
    /\ UNCHANGED <<app, offers, interviews, applied, employee, overridden, regime>>

-----------------------------------------------------------------------------
Init ==
    /\ \E m \in Emails : app = [a \in Applications |-> [status |-> "NONE", email |-> m]]
    /\ offers = <<>> /\ interviews = <<>> /\ applied = 0
    /\ employee \in [Emails -> {Nobody, Earlier}]
    /\ call = [c \in Calls |-> Idle]
    /\ aborts = 0
    /\ overridden = FALSE
    /\ regime \in Regimes

Next == \E c \in Calls :
    \/ ApplyRead(c) \/ ApplyCreate(c) \/ ApplyCount(c)
    \/ MoveRead(c) \/ SetStage(c) \/ Override(c)
    \/ ScheduleRead(c) \/ ScheduleCreate(c)
    \/ InterviewRead(c) \/ InterviewSave(c)
    \/ OfferRead(c) \/ OfferCreate(c) \/ DecideRead(c) \/ DecideSave(c)
    \/ HireRead(c) \/ HireEmployee(c) \/ HireStage(c) \/ HireUncount(c)
    \/ Abort(c)

Spec == Init /\ [][Next]_vars

Hired(a) == \E m \in Emails : employee[m] = a

-----------------------------------------------------------------------------
(* However the handlers interleave *)

\* A candidate who is HIRED is an employee: hire marks the application only
\* after the record exists, and no other handler but the override sets that
\* stage.
HiredIsEmployee ==
    ~overridden => \A a \in Applications : Status(a) = "HIRED" => Hired(a)

\* The vacancy counts the applications that were sent in and not hired, once
\* no handler is between its two writes, and none stopped there.
VacancyCounts ==
    Quiet /\ aborts = 0 =>
        applied = Cardinality({a \in Applications : Status(a) # "NONE" /\ ~Hired(a)})

-----------------------------------------------------------------------------
(* When one handler runs at a time *)

OneAtATime == regime.width = 1

\* And when no stage is set by hand, and no handler stops half way.
Orderly == OneAtATime /\ ~overridden /\ aborts = 0

\* "An active offer already exists for this candidate" (pipeline.service.ts:199).
OneActiveOffer ==
    OneAtATime => \A a \in Applications : \A i, j \in OffersTo(a) :
        offers[i].status \in ActiveOffer /\ offers[j].status \in ActiveOffer => i = j

\* A candidate whose offer was declined or withdrawn is out: neither hired nor
\* waiting at a stage.
DeclinedIsOut ==
    Orderly /\ Quiet => \A i \in DOMAIN offers :
        offers[i].status \in {"DECLINED", "WITHDRAWN"} => Status(offers[i].app) = "WITHDRAWN"

\* The rounds of a candidate are numbered one, two, three.
RoundsNumbered ==
    OneAtATime => \A i \in DOMAIN interviews :
        interviews[i].round =
            Cardinality({j \in 1..i : interviews[j].app = interviews[i].app})

\* "Completed interviews cannot be edited": feedback given stays given.
FeedbackIsFinal ==
    OneAtATime => \A i \in DOMAIN interviews :
        interviews[i].status = "COMPLETED" => interviews'[i].status = "COMPLETED"

\* A candidate who is out of the process returns to one of its stages by hand
\* only.
NeverReopened ==
    Orderly' => \A a \in Applications : Status(a) \in Closed => Status(a)' \in Closed

\* Hires are counted: whoever is HIRED is an employee, and the vacancy no longer
\* counts the application (hire, applyForJob).
HiresAccounted == HiredIsEmployee /\ VacancyCounts

\* A candidate has one active offer, follows it out, and has rounds in a row
\* (createOffer, decideOffer, scheduleInterview).
OffersInOrder == OneActiveOffer /\ DeclinedIsOut /\ RoundsNumbered

\* What has been closed stays closed: feedback and applications
\* (submitFeedback, updateInterview, moveStage).
ClosedStaysClosed == [][FeedbackIsFinal /\ NeverReopened]_<<interviews, app>>

\* "REJECTED / WITHDRAWN reachable from any open stage": not from HIRED.
HiredIsFinal ==
    [][\A a \in Applications : Status(a) = "HIRED" => Status(a)' = "HIRED"]_app
=============================================================================
