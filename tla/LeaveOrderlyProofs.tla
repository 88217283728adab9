-------------------------- MODULE LeaveOrderlyProofs --------------------------
(***************************************************************************)
(* Proofs about LeaveRequests when handlers run one after the other, for   *)
(* any number of them.  The code has nothing that makes them wait for one  *)
(* another; these are the promises it keeps when they happen to.           *)
(***************************************************************************)
EXTENDS LeaveRequestsProofs, FiniteSetTheorems

(***************************************************************************)
(* One handler at a time                                                   *)
(***************************************************************************)

\* At most one handler is between its first and its last step.
Serial == \A c, d \in Calls : Running(c) /\ Running(d) => c = d

\* What a handler may do to a request stored as q: its new status, and the
\* approval step it writes.
Decides(q, op, target, step) ==
    /\ q.status \in Open
    /\ op = "manager" => /\ q.status = "PENDING_MANAGER"
                         /\ target \in {"PENDING_HR", "REJECTED"}
                         /\ step = "manager"
    /\ op = "hr" => /\ q.status = "PENDING_HR"
                    /\ target \in {"APPROVED", "REJECTED"}
                    /\ step = "hr"
    /\ op = "cancel" => target = "CANCELLED" /\ step = "none"

\* A running handler's copies are still what is stored: the balance covers the
\* hold it is about to place, and the request it decides has not moved on.
Fresh(k, q, w) ==
    /\ k.at = "hold" => Available(w) >= k.days
    /\ k.at = "settle" => HoldsBalance(k.key) /\ k.target # "PENDING_HR"
    /\ k.at \in {"settle", "save"} => /\ k.days = q.days
                                      /\ Decides(q, k.op, k.target, k.step)

\* The approval steps of a request agree with its stage.
Staged(q) ==
    /\ q.status = "PENDING_MANAGER" => q.managerStep = "PENDING" /\ q.hrStep = "PENDING"
    /\ q.status = "PENDING_HR" => /\ q.managerStep \in {"APPROVED", "SKIPPED"}
                                  /\ q.hrStep = "PENDING"
    /\ q.status = "APPROVED" => /\ q.managerStep \in {"APPROVED", "SKIPPED"}
                                /\ q.hrStep = "APPROVED"

FreshCall(c) == Fresh(call[c], request[call[c].req], wallet[call[c].key])

SerialInv ==
    OneAtATime => /\ Serial
                  /\ \A c \in Calls : FreshCall(c)
                  /\ \A r \in ReqIds : Staged(request[r])

\* A handler starts only when no other one runs.
LEMMA StartsAlone ==
    ASSUME Serial, OneAtATime, MayStart
    PROVE  \A c \in Calls : ~Running(c)
  <1> SUFFICES ASSUME NEW c \in Calls, Running(c) PROVE FALSE
    OBVIOUS
  <1>1. {d \in Calls : Running(d)} = {c}
    BY DEF Serial
  <1>2. Cardinality({d \in Calls : Running(d)}) = 1
    BY <1>1, FS_Singleton
  <1> QED
    BY <1>2 DEF MayStart, OneAtATime

\* What one handler's step does when every other handler rests: the copies of
\* the others need not be looked at.
LEMMA LoneStep ==
    ASSUME TypeOK, NEW c \in Calls, NEW k \in CallStates,
           call' = [call EXCEPT ![c] = k],
           \A d \in Calls \ {c} : ~Running(d),
           Fresh(k, request'[k.req], wallet'[k.key]),
           \A r \in ReqIds : Staged(request'[r])
    PROVE  SerialInv'
  <1>1. \A d \in Calls : call'[d] = IF d = c THEN k ELSE call[d]
    BY DEF TypeOK
  <1>2. Serial'
    BY <1>1 DEF Serial, Running
  <1>3. \A d \in Calls : FreshCall(d)'
    <2> SUFFICES ASSUME NEW d \in Calls, d # c PROVE FreshCall(d)'
      BY <1>1 DEF FreshCall
    <2> QED
      BY <1>1 DEF FreshCall, Fresh, Running
  <1> QED
    BY <1>2, <1>3 DEF SerialInv

LEMMA SerialInit == Init => SerialInv
  BY DEF Init, SerialInv, Serial, Running, FreshCall, Fresh, Staged, NewCall

LEMMA LoadSerial ==
    ASSUME TypeOK, SerialInv, OneAtATime, NEW c \in Calls, NEW r \in ReqIds,
           NEW op \in Deciding, NEW target \in Statuses, NEW settles \in BOOLEAN,
           NEW step \in {"none", "manager", "hr"},
           Load(c, r, op, target, settles, step),
           settles => target # "PENDING_HR",
           Decides(request[r], op, target, step)
    PROVE  SerialInv'
  <1> DEFINE k == [call[c] EXCEPT
                     !.op = op, !.req = r, !.key = request[r].key,
                     !.days = request[r].days, !.target = target, !.step = step,
                     !.at = IF settles /\ HoldsBalance(request[r].key)
                            THEN "settle" ELSE "save"]
  <1>1. request[r] \in Requests /\ call[c] \in CallStates
    BY DEF TypeOK
  <1>2. request[r].key \in Keys /\ request[r].days \in Nat
    BY <1>1 DEF Requests
  <1>3. k \in CallStates
    BY ZenonT(40), <1>1, <1>2 DEF CallStates, Deciding
  <1>4. call' = [call EXCEPT ![c] = k]
    BY DEF Load
  <1>5. /\ request[r].status \in Open /\ request' = request /\ wallet' = wallet
        /\ \A d \in Calls : ~Running(d)
    BY StartsAlone DEF Load, CanStart, SerialInv
  <1>6. /\ k.req = r /\ k.op = op /\ k.key = request[r].key /\ k.target = target
        /\ k.days = request[r].days /\ k.step = step
        /\ k.at = IF settles /\ HoldsBalance(k.key) THEN "settle" ELSE "save"
    BY <1>1 DEF CallStates
  <1>7. \A q \in ReqIds : Staged(request[q])
    BY DEF SerialInv
  <1> HIDE DEF k
  <1>8. Fresh(k, request'[k.req], wallet'[k.key])
    BY <1>5, <1>6 DEF Fresh
  <1> QED
    BY <1>3, <1>4, <1>5, <1>7, <1>8, LoneStep

LEMMA SerialStep == TypeOK /\ InFlight /\ SerialInv /\ [Next]_vars => SerialInv'
  <1> SUFFICES ASSUME TypeOK, InFlight, SerialInv, OneAtATime, [Next]_vars
               PROVE  SerialInv'
    BY ZenonT(40) DEF SerialInv, OneAtATime, Next, ApplyRead, ApplyHold, ApplyCreate,
           ManagerRead, HrRead, CancelRead, Load, Settle, Save, Abort,
           AssignBalance, ToggleLeaveType, ReassignManager, vars
  <1> USE LeaveAssumption
  <1>0. /\ Serial
        /\ \A c \in Calls : /\ call[c] \in CallStates
                            /\ call[c].req \in ReqIds /\ call[c].key \in Keys
                            /\ call[c].days \in Nat
                            /\ FreshCall(c)
                            /\ Coherent(call[c], request[call[c].req])
        /\ \A r \in ReqIds : request[r] \in Requests /\ Staged(request[r])
        /\ \A key \in Keys : wallet[key] \in Wallets
    BY DEF SerialInv, TypeOK, CallStates, InFlight
  <1>1. ASSUME NEW c \in Calls, ApplyRead(c) PROVE SerialInv'
    <2>1. PICK key \in Keys, d \in Durations, r \in ReqIds :
            /\ CanStart(c)
            /\ HoldsBalance(key) => Available(wallet[key]) >= d
            /\ call' = [call EXCEPT ![c] =
                 [@ EXCEPT !.op = "apply", !.req = r, !.key = key, !.days = d,
                           !.at = IF HoldsBalance(key) THEN "hold" ELSE "create",
                           !.routed = manager[key[1]] # NoOne]]
            /\ request' = request /\ wallet' = wallet
      BY <1>1 DEF ApplyRead
    <2> DEFINE k == [call[c] EXCEPT
                       !.op = "apply", !.req = r, !.key = key, !.days = d,
                       !.at = IF HoldsBalance(key) THEN "hold" ELSE "create",
                       !.routed = manager[key[1]] # NoOne]
    <2>2. k \in CallStates
      BY ZenonT(40), <1>0 DEF CallStates
    <2>3. call' = [call EXCEPT ![c] = k]
      BY <2>1
    <2>4. /\ k.key = key /\ k.days = d
          /\ k.at = IF HoldsBalance(key) THEN "hold" ELSE "create"
      BY <1>0 DEF CallStates
    <2> HIDE DEF k
    <2>5. Fresh(k, request'[k.req], wallet'[k.key])
      BY <2>1, <2>4 DEF Fresh
    <2>6. \A e \in Calls : ~Running(e)
      BY <1>0, <2>1, StartsAlone DEF CanStart
    <2> QED
      BY <1>0, <2>1, <2>2, <2>3, <2>5, <2>6, LoneStep
  <1>2. ASSUME NEW c \in Calls, ApplyHold(c) PROVE SerialInv'
    <2> DEFINE k == [call[c] EXCEPT !.at = "create", !.effect = "hold"]
    <2>1. call' = [call EXCEPT ![c] = k] /\ request' = request
      BY <1>2 DEF ApplyHold, TypeOK
    <2>2. k \in CallStates
      BY <1>0 DEF CallStates
    <2>3. k.at = "create"
      BY <1>0 DEF CallStates
    <2> HIDE DEF k
    <2>4. \A d \in Calls \ {c} : ~Running(d)
      BY <1>0, <1>2 DEF Serial, Running, ApplyHold
    <2>5. Fresh(k, request'[k.req], wallet'[k.key])
      BY <2>3 DEF Fresh
    <2> QED
      BY <1>0, <2>1, <2>2, <2>4, <2>5, LoneStep
  <1>3. ASSUME NEW c \in Calls, ApplyCreate(c) PROVE SerialInv'
    <2> DEFINE k == [call[c] EXCEPT !.at = "done"]
    <2>1. call' = [call EXCEPT ![c] = k]
      BY <1>3 DEF ApplyCreate, TypeOK
    <2>2. k \in CallStates
      BY <1>0 DEF CallStates
    <2>3. k.at = "done"
      BY <1>0 DEF CallStates
    <2> HIDE DEF k
    <2>4. \A d \in Calls \ {c} : ~Running(d)
      BY <1>0, <1>3 DEF Serial, Running, ApplyCreate
    <2>5. Fresh(k, request'[k.req], wallet'[k.key])
      BY <2>3 DEF Fresh
    <2>6. Staged(request'[call[c].req])
      BY <1>0, <1>3 DEF ApplyCreate, TypeOK, Staged
    <2>7. \A r \in ReqIds : Staged(request'[r])
      BY <1>0, <1>3, <2>6 DEF ApplyCreate, TypeOK
    <2> QED
      BY <2>1, <2>2, <2>4, <2>5, <2>7, LoneStep
  <1>4. ASSUME NEW c \in Calls, ManagerRead(c) PROVE SerialInv'
    <2>1. PICK r \in ReqIds, approve \in BOOLEAN :
            /\ request[r].status = "PENDING_MANAGER"
            /\ Load(c, r, "manager", IF approve THEN "PENDING_HR" ELSE "REJECTED",
                    ~approve,
                    IF request[r].managerStep = "PENDING" THEN "manager" ELSE "none")
      BY <1>4 DEF ManagerRead
    <2>2. Decides(request[r], "manager",
                     IF approve THEN "PENDING_HR" ELSE "REJECTED", "manager")
      BY <2>1 DEF Decides, Load, Open
    <2> QED
      BY <1>0, <2>1, <2>2, LoadSerial DEF Staged, Statuses, Open, Closed, Deciding
  <1>5. ASSUME NEW c \in Calls, HrRead(c) PROVE SerialInv'
    <2>1. PICK r \in ReqIds, approve \in BOOLEAN :
            /\ request[r].status = "PENDING_HR"
            /\ Load(c, r, "hr", IF approve THEN "APPROVED" ELSE "REJECTED", TRUE,
                    IF request[r].hrStep = "PENDING" THEN "hr" ELSE "none")
      BY <1>5 DEF HrRead
    <2>2. Decides(request[r], "hr", IF approve THEN "APPROVED" ELSE "REJECTED", "hr")
      BY <2>1 DEF Decides, Load, Open
    <2> QED
      BY <1>0, <2>1, <2>2, LoadSerial DEF Staged, Statuses, Open, Closed, Deciding
  <1>6. ASSUME NEW c \in Calls, CancelRead(c) PROVE SerialInv'
    <2>1. PICK r \in ReqIds : Load(c, r, "cancel", "CANCELLED", TRUE, "none")
      BY <1>6 DEF CancelRead
    <2>2. Decides(request[r], "cancel", "CANCELLED", "none")
      BY <2>1 DEF Decides, Load, Open
    <2> QED
      BY <1>0, <2>1, <2>2, LoadSerial DEF Staged, Statuses, Open, Closed, Deciding
  <1>7. ASSUME NEW c \in Calls, Settle(c) PROVE SerialInv'
    <2> DEFINE k == [call[c] EXCEPT !.at = "save",
                       !.effect = IF call[c].target = "APPROVED"
                                  THEN "consume" ELSE "release"]
    <2>1. call' = [call EXCEPT ![c] = k] /\ request' = request /\ call[c].at = "settle"
      BY <1>7 DEF Settle, TypeOK
    <2>2. k \in CallStates
      BY ZenonT(40), <1>0 DEF CallStates
    <2>3. /\ k.at = "save" /\ k.req = call[c].req /\ k.op = call[c].op
          /\ k.days = call[c].days /\ k.target = call[c].target
          /\ k.step = call[c].step
      BY <1>0 DEF CallStates
    <2> HIDE DEF k
    <2>4. \A d \in Calls \ {c} : ~Running(d)
      BY <1>0, <2>1 DEF Serial, Running
    <2>5. Fresh(k, request'[k.req], wallet'[k.key])
      BY <1>0, <2>1, <2>3 DEF FreshCall, Fresh
    <2> QED
      BY <1>0, <2>1, <2>2, <2>4, <2>5, LoneStep
  <1>8. ASSUME NEW c \in Calls, Save(c) PROVE SerialInv'
    <2> DEFINE k == [call[c] EXCEPT !.at = "done"]
               q == request[call[c].req]
    <2>1. call' = [call EXCEPT ![c] = k] /\ call[c].at = "save"
      BY <1>8 DEF Save, TypeOK
    <2>2. k \in CallStates
      BY <1>0 DEF CallStates
    <2>3. k.at = "done"
      BY <1>0 DEF CallStates
    <2> HIDE DEF k
    <2>4. \A d \in Calls \ {c} : ~Running(d)
      BY <1>0, <2>1 DEF Serial, Running
    <2>5. Fresh(k, request'[k.req], wallet'[k.key])
      BY <2>3 DEF Fresh
    <2>6. Staged(Saved(c, q))
      <3>1. /\ Saved(c, q).status = call[c].target
            /\ Saved(c, q).managerStep = IF call[c].step = "manager" THEN Verdict(c)
                                         ELSE q.managerStep
            /\ Saved(c, q).hrStep = IF call[c].step = "hr" THEN Verdict(c)
                                    ELSE q.hrStep
        BY <1>0 DEF Saved, Requests
      <3>2. Fresh(call[c], q, wallet[call[c].key]) /\ Staged(q)
            /\ call[c].op \in Deciding
        BY <1>0, <2>1 DEF FreshCall, Coherent
      <3> HIDE DEF q
      <3> QED
        BY <2>1, <3>1, <3>2 DEF Fresh, Decides, Staged, Deciding, Verdict
    <2>7. \A r \in ReqIds : Staged(request'[r])
      BY <1>0, <1>8, <2>6 DEF Save, TypeOK
    <2> QED
      BY <2>1, <2>2, <2>4, <2>5, <2>7, LoneStep
  <1>9. ASSUME NEW c \in Calls, Abort(c) PROVE SerialInv'
    <2> DEFINE k == [call[c] EXCEPT !.at = "dead"]
    <2>1. call' = [call EXCEPT ![c] = k] /\ request' = request
      BY <1>9 DEF Abort, TypeOK
    <2>2. k \in CallStates
      BY <1>0 DEF CallStates
    <2>3. k.at = "dead"
      BY <1>0 DEF CallStates
    <2> HIDE DEF k
    <2>4. \A d \in Calls \ {c} : ~Running(d)
      BY <1>0, <1>9 DEF Serial, Abort, HalfDone
    <2>5. Fresh(k, request'[k.req], wallet'[k.key])
      BY <2>3 DEF Fresh
    <2> QED
      BY <1>0, <2>1, <2>2, <2>4, <2>5, LoneStep
  <1>10. CASE AssignBalance \/ ToggleLeaveType \/ ReassignManager
    <2>1. UNCHANGED <<request, call, width>> /\ \A c \in Calls : ~Running(c)
      BY <1>0, <1>10, StartsAlone
         DEF AssignBalance, ToggleLeaveType, ReassignManager
    <2>2. \A c \in Calls : FreshCall(c)'
      BY <2>1 DEF FreshCall, Fresh, Running
    <2> QED
      BY <1>0, <2>1, <2>2 DEF SerialInv, Serial, Running
  <1>11. CASE UNCHANGED vars
    BY <1>0, <1>11 DEF vars, SerialInv, Serial, Running, FreshCall
  <1> QED
    BY <1>1, <1>2, <1>3, <1>4, <1>5, <1>6, <1>7, <1>8, <1>9, <1>10, <1>11 DEF Next

(***************************************************************************)
(* The approval chain                                                      *)
(***************************************************************************)

\* When handlers run one after the other, each works on what is stored.
THEOREM HandlersFresh == Spec => []SerialInv
  <1> QED
    BY SerialInit, SerialStep, TypeCorrect, HandlersCoherent, PTL DEF Spec

\* An approved request was passed by its manager, or had none, and then by HR.
THEOREM ChainKept == Spec => []ApprovalChain
  <1>1. SerialInv => ApprovalChain
    BY DEF SerialInv, ApprovalChain, Staged
  <1> QED
    BY <1>1, HandlersFresh, PTL

(***************************************************************************)
(* Final decisions and covered holds                                       *)
(***************************************************************************)

\* Only an open request is written by a decision.
LEMMA StandingStep ==
    TypeOK /\ InFlight /\ SerialInv /\ OneAtATime /\ [Next]_vars => DecisionsStand
  <1> SUFFICES ASSUME TypeOK, InFlight, SerialInv, OneAtATime, [Next]_vars,
                      NEW r \in ReqIds, request'[r] # request[r]
               PROVE  request[r].status \in Open \cup {"NONE"}
    BY DEF DecisionsStand, Open, Closed
  <1>1. \A c \in Calls : FreshCall(c)
    BY DEF SerialInv
  <1> QED
    BY <1>1, RequestWriters DEF FreshCall, Fresh, Decides

\* A balance blocks more days only when an application places its hold, and
\* then still has the days that the application saw.
LEMMA CoveredStep ==
    TypeOK /\ InFlight /\ SerialInv /\ OneAtATime /\ [Next]_vars => HoldsCovered
  <1> SUFFICES ASSUME TypeOK, InFlight, SerialInv, OneAtATime, [Next]_vars,
                      NEW key \in Keys, wallet'[key].pending > wallet[key].pending
               PROVE  wallet'[key].used + wallet'[key].pending
                        <= wallet'[key].allocated + wallet'[key].carried
    BY DEF HoldsCovered
  <1>0. /\ \A c \in Calls : /\ call[c] \in CallStates /\ call[c].key \in Keys
                            /\ call[c].days \in Nat /\ FreshCall(c)
        /\ wallet[key] \in Wallets
        /\ wallet[key].pending \in Int
    BY DEF SerialInv, TypeOK, CallStates, Wallets
  <1>1. ASSUME NEW c \in Calls, Settle(c) PROVE FALSE
    <2>1. \/ wallet'[key] = wallet[key]
          \/ wallet'[key] = ConsumeHold(wallet[key], call[c].days)
          \/ wallet'[key] = ReleaseHold(wallet[key], call[c].days)
      BY <1>1 DEF Settle, TypeOK
    <2>2. wallet'[key].pending \in {wallet[key].pending,
                                    wallet[key].pending - call[c].days}
      BY <1>0, <2>1 DEF ConsumeHold, ReleaseHold, Wallets
    <2> QED
      BY <1>0, <2>2
  <1>2. ASSUME AssignBalance PROVE FALSE
    <2>1. \/ wallet'[key] = wallet[key]
          \/ \E a \in Assignments : wallet'[key] = Assign(wallet[key], a)
      BY <1>2 DEF AssignBalance, TypeOK
    <2>2. wallet'[key].pending = wallet[key].pending
      BY <1>0, <2>1 DEF Assign, Wallets
    <2> QED
      BY <1>0, <2>2
  <1>3. PICK c \in Calls : ApplyHold(c)
    <2>1. wallet' # wallet
      BY <1>0
    <2> QED
      BY ZenonT(40), <1>1, <1>2, <2>1
         DEF Next, ApplyRead, ApplyCreate, ManagerRead, HrRead, CancelRead, Load,
             Save, Abort, ToggleLeaveType, ReassignManager, vars
  <1>4. call[c].key = key /\ wallet'[key] = Hold(wallet[key], call[c].days)
    BY <1>0, <1>3 DEF ApplyHold, TypeOK
  <1>5. /\ wallet'[key].pending = wallet[key].pending + call[c].days
        /\ wallet'[key].used = wallet[key].used
        /\ wallet'[key].allocated = wallet[key].allocated
        /\ wallet'[key].carried = wallet[key].carried
    BY <1>0, <1>4 DEF Hold, Wallets
  <1>6. Available(wallet[key]) >= call[c].days
    BY <1>0, <1>3, <1>4 DEF FreshCall, Fresh, ApplyHold
  <1> QED
    BY <1>0, <1>5, <1>6 DEF Available, Wallets

\* Approved, rejected and cancelled are final, and a hold is placed only while
\* the balance covers it.
THEOREM StepsOrderly == Spec => OrderlySteps
  <1>1. TypeOK /\ InFlight /\ SerialInv /\ [Next]_vars
          => [OneAtATime => DecisionsStand /\ HoldsCovered]_<<request, wallet>>
    BY StandingStep, CoveredStep
  <1> QED
    BY <1>1, TypeCorrect, HandlersCoherent, HandlersFresh, PTL DEF Spec, OrderlySteps

(***************************************************************************)
(* Settled once, and never below zero                                      *)
(***************************************************************************)

SettledBy(c, r) == call[c].req = r /\ call[c].effect \in {"release", "consume"}
IsSettled(r) == \E c \in Calls : SettledBy(c, r)

\* Which handlers have made a balance write, and of which kind.
EffectShape(c) ==
    /\ call[c].effect = "hold" => /\ call[c].op = "apply"
                                  /\ call[c].at \in {"create", "done", "dead"}
    /\ call[c].effect \in {"release", "consume"} =>
          /\ call[c].op \in Deciding
          /\ call[c].target \notin Open
          /\ call[c].at \in {"save", "done", "dead"}
          /\ call[c].at = "done" => request[call[c].req].status \notin Open

\* The days that handler c's hold still blocks on the balance of key.
Blocks(c, key) ==
    IF /\ call[c].effect = "hold" /\ call[c].key = key
       /\ ~IsSettled(call[c].req)
    THEN call[c].days ELSE 0

Blocked(key) == [c \in Calls |-> Blocks(c, key)]

\* g sums the weights f over every set of handlers.
Sums(g, f) ==
    /\ g \in [SUBSET Calls -> Nat]
    /\ g[{}] = 0
    /\ \A S \in SUBSET Calls, c \in Calls : c \notin S => g[S \cup {c}] = g[S] + f[c]

\* A balance blocks the days of the unsettled holds, no more and no fewer.
PendingIsBlocked ==
    \A key \in Keys : \E g : Sums(g, Blocked(key)) /\ wallet[key].pending = g[Calls]

\* No request is settled by two handlers.
SettledByOne ==
    \A r \in ReqIds, c, d \in Calls : SettledBy(c, r) /\ SettledBy(d, r) => c = d

SettledInv ==
    Orderly => /\ \A c \in Calls : EffectShape(c)
               /\ SettledByOne
               /\ PendingIsBlocked

\* Changing one weight changes the sum by the difference.
LEMMA SumsChange ==
    ASSUME NEW f \in [Calls -> Nat], NEW g, Sums(g, f), NEW c \in Calls, NEW v \in Nat
    PROVE  /\ \E h : /\ Sums(h, [f EXCEPT ![c] = v])
                     /\ h[Calls] = g[Calls] - f[c] + v
           /\ g[Calls] \in Nat
  <1> DEFINE h == [S \in SUBSET Calls |-> IF c \in S THEN g[S \ {c}] + v ELSE g[S]]
             e == [f EXCEPT ![c] = v]
  <1>1. /\ \A S \in SUBSET Calls : g[S] \in Nat
        /\ \A d \in Calls : f[d] \in Nat
        /\ \A S \in SUBSET Calls, d \in Calls : d \notin S => g[S \cup {d}] = g[S] + f[d]
    BY DEF Sums
  <1>2. h \in [SUBSET Calls -> Nat]
    BY <1>1
  <1>3. h[{}] = 0
    BY DEF Sums
  <1>4. ASSUME NEW S \in SUBSET Calls, NEW d \in Calls, d \notin S
        PROVE  h[S \cup {d}] = h[S] + e[d]
    <2>1. CASE d = c
      <3>1. (S \cup {d}) \ {c} = S
        BY <1>4, <2>1
      <3> QED
        BY <1>1, <1>4, <2>1, <3>1
    <2>2. CASE d # c /\ c \in S
      <3>1. (S \cup {d}) \ {c} = (S \ {c}) \cup {d}
        BY <2>2
      <3>2. g[(S \ {c}) \cup {d}] = g[S \ {c}] + f[d]
        BY <1>1, <1>4
      <3>3. h[S \cup {d}] = g[(S \cup {d}) \ {c}] + v /\ h[S] = g[S \ {c}] + v
        BY <2>2
      <3>4. e[d] = f[d] /\ g[S \ {c}] \in Nat /\ f[d] \in Nat
        BY <1>1, <2>2
      <3>5. h[S \cup {d}] = (g[S \ {c}] + f[d]) + v
        BY <3>1, <3>2, <3>3
      <3> HIDE DEF h, e
      <3> QED
        BY <3>3, <3>4, <3>5
    <2>3. CASE d # c /\ c \notin S
      BY <1>1, <1>4, <2>3
    <2> QED
      BY <2>1, <2>2, <2>3
  <1>5. h[Calls] = g[Calls] - f[c] + v
    <2>1. (Calls \ {c}) \cup {c} = Calls
      OBVIOUS
    <2>2. g[Calls] = g[Calls \ {c}] + f[c]
      BY <1>1, <2>1
    <2> QED
      BY <1>1, <2>2
  <1>6. Sums(h, e)
    BY <1>2, <1>3, <1>4 DEF Sums
  <1> HIDE DEF h
  <1> QED
    BY <1>1, <1>5, <1>6

\* A handler that died stays dead, so an orderly history was orderly before.
LEMMA OrderlyBefore == TypeOK /\ [Next]_vars /\ Orderly' => Orderly
  <1> SUFFICES ASSUME TypeOK, [Next]_vars, Orderly', NEW c \in Calls,
                      call[c].at = "dead"
               PROVE  call'[c].at = "dead"
    BY ZenonT(40) DEF Orderly, OneAtATime, Next, ApplyRead, ApplyHold, ApplyCreate,
           ManagerRead, HrRead, CancelRead, Load, Settle, Save, Abort,
           AssignBalance, ToggleLeaveType, ReassignManager, vars
  <1>1. ASSUME NEW d \in Calls,
               \/ ApplyRead(d) \/ ApplyHold(d) \/ ApplyCreate(d)
               \/ ManagerRead(d) \/ HrRead(d) \/ CancelRead(d)
               \/ Settle(d) \/ Save(d) \/ Abort(d)
        PROVE  call'[c] = call[c]
    <2>1. call[d].at # "dead"
      BY <1>1 DEF ApplyRead, ApplyHold, ApplyCreate, ManagerRead, HrRead, CancelRead,
                  Load, CanStart, Settle, Save, Abort, HalfDone, Running
    <2>2. call' = [call EXCEPT ![d] = call'[d]]
      BY <1>1 DEF ApplyRead, ApplyHold, ApplyCreate, ManagerRead, HrRead, CancelRead,
                  Load, Settle, Save, Abort, TypeOK
    <2> QED
      BY <2>1, <2>2 DEF TypeOK
  <1> QED
    BY <1>1 DEF Next, AssignBalance, ToggleLeaveType, ReassignManager, vars

\* Only a hold being placed and a settlement are new balance writes.
LEMMA EffectsKept ==
    ASSUME TypeOK, InFlight, [Next]_vars,
           \A c \in Calls : ~ApplyHold(c) /\ ~Settle(c)
    PROVE  /\ \A c \in Calls : call'[c].effect = call[c].effect
           /\ \A key \in Keys : wallet'[key].pending = wallet[key].pending
  <1>0. \A c \in Calls : call[c] \in CallStates
    BY DEF TypeOK
  <1>1. ASSUME NEW c \in Calls PROVE call'[c].effect = call[c].effect
    <2>1. ASSUME NEW d \in Calls, ApplyRead(d)
          PROVE  call'[c].effect = call[c].effect
      BY <1>0, <2>1 DEF ApplyRead, TypeOK, CallStates
    <2>2. ASSUME NEW d \in Calls, ManagerRead(d) \/ HrRead(d) \/ CancelRead(d)
          PROVE  call'[c].effect = call[c].effect
      <3>1. PICK r, op, target, settles, step : Load(d, r, op, target, settles, step)
        BY <2>2 DEF ManagerRead, HrRead, CancelRead
      <3> QED
        BY <1>0, <3>1 DEF Load, TypeOK, CallStates
    <2>3. ASSUME NEW d \in Calls, ApplyCreate(d) \/ Save(d) \/ Abort(d)
          PROVE  call'[c].effect = call[c].effect
      BY <1>0, <2>3 DEF ApplyCreate, Save, Abort, TypeOK, CallStates
    <2> QED
      BY <2>1, <2>2, <2>3 DEF Next, AssignBalance, ToggleLeaveType, ReassignManager, vars
  <1>2. ASSUME NEW key \in Keys PROVE wallet'[key].pending = wallet[key].pending
    <2>1. CASE AssignBalance
      <3>1. \/ wallet'[key] = wallet[key]
            \/ \E a \in Assignments : wallet'[key] = Assign(wallet[key], a)
        BY <2>1 DEF AssignBalance, TypeOK
      <3> QED
        BY ZenonT(40), <3>1 DEF Assign, TypeOK, Wallets
    <2>2. CASE UNCHANGED wallet
      BY <2>2
    <2> QED
      BY ZenonT(40), <2>1, <2>2 DEF Next, ApplyRead, ApplyCreate, ManagerRead, HrRead, CancelRead,
                        Load, Save, Abort, ToggleLeaveType, ReassignManager, vars
  <1> QED
    BY <1>1, <1>2

\* Placing a hold or settling one is the one balance write of its handler.
LEMMA BalanceWrite ==
    ASSUME TypeOK, NEW c \in Calls, ApplyHold(c) \/ Settle(c)
    PROVE  /\ \A d \in Calls \ {c} : call'[d] = call[d]
           /\ call'[c].req = call[c].req /\ call'[c].key = call[c].key
           /\ call'[c].days = call[c].days /\ call'[c].op = call[c].op
           /\ call'[c].target = call[c].target
           /\ ApplyHold(c) => call'[c].effect = "hold" /\ call'[c].at = "create"
           /\ Settle(c) => /\ call'[c].effect \in {"release", "consume"}
                           /\ call'[c].at = "save"
           /\ \A key \in Keys :
                wallet'[key].pending =
                  IF key # call[c].key THEN wallet[key].pending
                  ELSE IF call[c].at = "hold" THEN wallet[key].pending + call[c].days
                  ELSE wallet[key].pending - call[c].days
  <1>0. call[c] \in CallStates /\ \A key \in Keys : wallet[key] \in Wallets
    BY DEF TypeOK
  <1>1. CASE ApplyHold(c)
    BY <1>0, <1>1 DEF ApplyHold, Settle, Hold, TypeOK, CallStates, Wallets
  <1>2. CASE Settle(c)
    <2>1. \A key \in Keys :
            wallet'[key] = IF key # call[c].key THEN wallet[key]
                           ELSE IF call[c].target = "APPROVED"
                           THEN ConsumeHold(wallet[key], call[c].days)
                           ELSE ReleaseHold(wallet[key], call[c].days)
      BY <1>2 DEF Settle, TypeOK
    <2>2. \A key \in Keys :
            wallet'[key].pending = IF key # call[c].key THEN wallet[key].pending
                                   ELSE wallet[key].pending - call[c].days
      BY <1>0, <2>1 DEF ConsumeHold, ReleaseHold, Wallets
    <2>3. call[c].at = "settle" /\ ~ApplyHold(c)
      BY <1>2 DEF Settle, ApplyHold
    <2> QED
      BY <1>0, <1>2, <2>2, <2>3 DEF Settle, TypeOK, CallStates
  <1> QED
    BY <1>1, <1>2

\* The shape of every handler's balance write is kept.
LEMMA ShapeStep ==
    TypeOK /\ InFlight /\ SerialInv /\ Orderly /\ (\A c \in Calls : EffectShape(c))
    /\ [Next]_vars => \A c \in Calls : EffectShape(c)'
  <1> SUFFICES ASSUME TypeOK, InFlight, SerialInv, Orderly, [Next]_vars, NEW c \in Calls,
                      EffectShape(c)
               PROVE  EffectShape(c)'
    OBVIOUS
  <1>0. /\ call[c] \in CallStates /\ call[c].req \in ReqIds
        /\ Coherent(call[c], request[call[c].req]) /\ FreshCall(c)
        /\ OneAtATime
    BY DEF TypeOK, CallStates, InFlight, SerialInv, Orderly
  <1>1. CASE call'[c] = call[c]
    <2>1. /\ call[c].effect \in {"release", "consume"} /\ call[c].at = "done"
             => request[call[c].req].status \in Closed \cup {"APPROVED"}
      BY <1>0 DEF EffectShape, Coherent, TypeOK, Requests, Statuses
    <2>2. /\ call[c].effect \in {"release", "consume"} /\ call[c].at = "done"
             => request'[call[c].req].status \notin Open
      BY <1>0, <2>1, StandingStep DEF DecisionsStand, Open, Closed
    <2> QED
      BY <1>1, <2>2 DEF EffectShape
  <1>2. CASE ApplyRead(c)
    <2>1. call[c].at = "new" /\ call'[c].effect = call[c].effect
          /\ call'[c].at # "save"
      BY <1>0, <1>2 DEF ApplyRead, CanStart, TypeOK, CallStates
    <2> QED
      BY <1>0, <2>1 DEF EffectShape, Coherent
  <1>3. CASE ApplyCreate(c)
    <2>1. /\ call[c].at = "create" /\ call'[c].effect = call[c].effect
          /\ call'[c].op = call[c].op /\ call'[c].at = "done"
      BY <1>0, <1>3 DEF ApplyCreate, TypeOK, CallStates
    <2> QED
      BY <2>1 DEF EffectShape
  <1>4. CASE ManagerRead(c) \/ HrRead(c) \/ CancelRead(c)
    <2>1. PICK r, op, target, settles, step : Load(c, r, op, target, settles, step)
      BY <1>4 DEF ManagerRead, HrRead, CancelRead
    <2>2. call[c].at = "new" /\ call'[c].effect = call[c].effect
      BY <1>0, <2>1 DEF Load, CanStart, TypeOK, CallStates
    <2> QED
      BY <1>0, <2>2 DEF EffectShape, Coherent
  <1>5. CASE ApplyHold(c) \/ Settle(c)
    <2>1. /\ call[c].at = "hold" => call[c].op = "apply"
          /\ call[c].at = "settle" => call[c].op \in Deciding
                                      /\ call[c].target \notin Open
      BY <1>0 DEF Coherent, FreshCall, Fresh, Open
    <2> QED
      BY <1>5, <2>1, BalanceWrite DEF EffectShape, ApplyHold, Settle
  <1>6. CASE Save(c)
    <2>1. /\ call[c].at = "save" /\ call'[c].effect = call[c].effect
          /\ call'[c].op = call[c].op /\ call'[c].at = "done"
          /\ call'[c].req = call[c].req /\ call'[c].target = call[c].target
          /\ request'[call[c].req].status = call[c].target
      BY <1>0, <1>6 DEF Save, Saved, TypeOK, CallStates, Requests
    <2> QED
      BY <2>1 DEF EffectShape
  <1>7. CASE Abort(c)
    <2>1. /\ call'[c].at = "dead" /\ call'[c].effect = call[c].effect
          /\ call'[c].op = call[c].op /\ call'[c].target = call[c].target
      BY <1>0, <1>7 DEF Abort, TypeOK, CallStates
    <2> QED
      BY <2>1 DEF EffectShape
  <1>8. ASSUME NEW d \in Calls, d # c,
               \/ ApplyRead(d) \/ ApplyHold(d) \/ ApplyCreate(d)
               \/ ManagerRead(d) \/ HrRead(d) \/ CancelRead(d)
               \/ Settle(d) \/ Save(d) \/ Abort(d)
        PROVE  call'[c] = call[c]
    BY <1>8 DEF ApplyRead, ApplyHold, ApplyCreate, ManagerRead, HrRead, CancelRead,
                Load, Settle, Save, Abort, TypeOK
  <1> QED
    BY <1>1, <1>2, <1>3, <1>4, <1>5, <1>6, <1>7, <1>8
       DEF Next, AssignBalance, ToggleLeaveType, ReassignManager, vars

\* A request being settled was not settled before.
LEMMA UnsettledYet ==
    ASSUME TypeOK, InFlight, SerialInv, Orderly,
           \A d \in Calls : EffectShape(d), NEW c \in Calls,
           call[c].at \in {"hold", "settle"}
    PROVE  ~IsSettled(call[c].req)
  <1> SUFFICES ASSUME NEW d \in Calls, SettledBy(d, call[c].req) PROVE FALSE
    BY DEF IsSettled
  <1>1. /\ call[d].at \in {"save", "done"} /\ call[d].req = call[c].req
        /\ call[d].op \in Deciding
        /\ call[d].at = "done" => request[call[c].req].status \notin Open
    BY DEF EffectShape, Orderly, SettledBy
  <1>2. request[call[c].req].status # "NONE"
    BY <1>1 DEF InFlight, Coherent
  <1>3. call[d].at = "done"
    BY <1>1 DEF SerialInv, Serial, Orderly, Running
  <1>4. CASE call[c].at = "hold"
    BY <1>2, <1>4 DEF InFlight, Coherent
  <1>5. CASE call[c].at = "settle"
    BY <1>1, <1>3, <1>5 DEF SerialInv, Orderly, FreshCall, Fresh, Decides
  <1> QED
    BY <1>4, <1>5

LEMMA SettledByOneStep ==
    ASSUME TypeOK, InFlight, SerialInv, Orderly, \A d \in Calls : EffectShape(d),
           SettledByOne, [Next]_vars
    PROVE  SettledByOne'
  <1>1. CASE \E c \in Calls : ApplyHold(c) \/ Settle(c)
    <2>1. PICK c \in Calls : ApplyHold(c) \/ Settle(c)
      BY <1>1
    <2>2. ~IsSettled(call[c].req)
      BY <2>1, UnsettledYet DEF ApplyHold, Settle
    <2>3. /\ \A d \in Calls \ {c} : call'[d] = call[d]
          /\ call'[c].req = call[c].req
      BY <2>1, BalanceWrite
    <2> QED
      BY <2>2, <2>3 DEF SettledByOne, SettledBy, IsSettled
  <1>2. CASE \A c \in Calls : ~ApplyHold(c) /\ ~Settle(c)
    <2>1. \A c \in Calls : call'[c].effect = call[c].effect
      BY <1>2, EffectsKept
    <2>2. \A c \in Calls : call[c].effect # "none" => call'[c].req = call[c].req
      BY EffectsStay
    <2> QED
      BY <2>1, <2>2 DEF SettledByOne, SettledBy
  <1> QED
    BY <1>1, <1>2

LEMMA BlockedStep ==
    ASSUME TypeOK, InFlight, CreatedWasHeld, SerialInv, Orderly,
           \A d \in Calls : EffectShape(d), PendingIsBlocked, [Next]_vars
    PROVE  PendingIsBlocked'
  <1> SUFFICES ASSUME NEW key \in Keys
               PROVE  \E g : Sums(g, Blocked(key)') /\ wallet'[key].pending = g[Calls]
    BY DEF PendingIsBlocked, Sums
  <1>0. /\ \A c \in Calls : /\ call[c] \in CallStates /\ call[c].days \in Nat
                            /\ Coherent(call[c], request[call[c].req])
        /\ wallet[key].pending \in Int
    BY DEF TypeOK, CallStates, Wallets, InFlight
  <1>1. PICK g : Sums(g, Blocked(key)) /\ wallet[key].pending = g[Calls]
    BY DEF PendingIsBlocked
  <1>2. Blocked(key) \in [Calls -> Nat]
    BY <1>0 DEF Blocked, Blocks
  <1>3. ASSUME NEW c \in Calls, NEW v \in Nat,
               Blocked(key)' = [Blocked(key) EXCEPT ![c] = v],
               wallet'[key].pending = wallet[key].pending - Blocks(c, key) + v
        PROVE  \E h : Sums(h, Blocked(key)') /\ wallet'[key].pending = h[Calls]
    <2>1. \E h : /\ Sums(h, [Blocked(key) EXCEPT ![c] = v])
                 /\ h[Calls] = g[Calls] - Blocked(key)[c] + v
      <3> DEFINE f == Blocked(key)
      <3>1. f \in [Calls -> Nat] /\ Sums(g, f)
        BY <1>1, <1>2
      <3> HIDE DEF f
      <3>2. \E h : Sums(h, [f EXCEPT ![c] = v]) /\ h[Calls] = g[Calls] - f[c] + v
        BY ZenonT(40), <3>1, SumsChange
      <3> QED
        BY <3>2 DEF f
    <2>2. Blocked(key)[c] = Blocks(c, key)
      BY DEF Blocked
    <2> QED
      BY <1>1, <1>3, <2>1, <2>2
  <1>4. ASSUME NEW c \in Calls, ApplyHold(c)
        PROVE  \E h : Sums(h, Blocked(key)') /\ wallet'[key].pending = h[Calls]
    <2> DEFINE v == IF key = call[c].key THEN call[c].days ELSE 0
    <2>1. call[c].at = "hold" /\ call[c].effect = "none"
      BY <1>0, <1>4 DEF ApplyHold, Coherent
    <2>2. ~IsSettled(call[c].req)
      BY <2>1, UnsettledYet
    <2>3. /\ \A d \in Calls \ {c} : call'[d] = call[d]
          /\ call'[c].req = call[c].req /\ call'[c].key = call[c].key
          /\ call'[c].days = call[c].days /\ call'[c].effect = "hold"
      BY <1>4, BalanceWrite
    <2>4. \A r : IsSettled(r)' <=> IsSettled(r)
      BY <2>1, <2>3 DEF IsSettled, SettledBy
    <2>5. \A d \in Calls : Blocks(d, key)' = IF d = c THEN v ELSE Blocks(d, key)
      BY <2>2, <2>3, <2>4 DEF Blocks
    <2>6. Blocked(key)' = [Blocked(key) EXCEPT ![c] = v]
      BY <2>5 DEF Blocked
    <2>7. Blocks(c, key) = 0
      BY <2>1 DEF Blocks
    <2>8. wallet'[key].pending = wallet[key].pending - Blocks(c, key) + v
      BY <1>0, <1>4, <2>1, <2>7, BalanceWrite
    <2> QED
      BY <1>0, <1>3, <2>6, <2>8
  <1>5. ASSUME NEW c \in Calls, Settle(c)
        PROVE  \E h : Sums(h, Blocked(key)') /\ wallet'[key].pending = h[Calls]
    <2> DEFINE r == call[c].req
    <2>1. call[c].at = "settle" /\ call[c].effect = "none"
      BY <1>0, <1>5 DEF Settle, Coherent
    <2>2. ~IsSettled(r)
      BY <2>1, UnsettledYet
    <2>3. /\ request[r].status # "NONE" /\ HoldsBalance(request[r].key)
          /\ request[r].key = call[c].key /\ request[r].days = call[c].days
          /\ r \in ReqIds
      BY <1>0, <2>1 DEF Coherent, SerialInv, Orderly, FreshCall, Fresh, CallStates
    <2>4. PICK a \in Calls : /\ call[a].req = r /\ call[a].effect = "hold"
                            /\ call[a].key = call[c].key
                            /\ call[a].days = call[c].days
      BY <2>3 DEF CreatedWasHeld, Effects
    <2>5. /\ \A d \in Calls \ {c} : call'[d] = call[d]
          /\ call'[c].req = r /\ call'[c].effect \in {"release", "consume"}
      BY <1>5, BalanceWrite
    <2>6. ASSUME NEW d \in Calls, call[d].effect = "hold", d # a PROVE call[d].req # r
      BY <2>4, <2>6 DEF InFlight, EffectShape
    <2>7. \A q : IsSettled(q)' <=> IsSettled(q) \/ q = r
      BY <2>1, <2>5 DEF IsSettled, SettledBy
    <2>8. Blocks(a, key) = IF key = call[c].key THEN call[c].days ELSE 0
      BY <2>2, <2>4 DEF Blocks
    <2>9. \A d \in Calls : Blocks(d, key)' = IF d = a THEN 0 ELSE Blocks(d, key)
      BY <2>1, <2>4, <2>5, <2>6, <2>7 DEF Blocks
    <2>10. Blocked(key)' = [Blocked(key) EXCEPT ![a] = 0]
      BY <2>9 DEF Blocked
    <2>11. wallet'[key].pending = wallet[key].pending - Blocks(a, key) + 0
      BY <1>0, <1>5, <2>1, <2>8, BalanceWrite
    <2> QED
      BY <1>3, <2>10, <2>11
  <1>6. CASE \A c \in Calls : ~ApplyHold(c) /\ ~Settle(c)
    <2>1. /\ \A c \in Calls : call'[c].effect = call[c].effect
          /\ wallet'[key].pending = wallet[key].pending
      BY <1>6, EffectsKept
    <2>2. \A c \in Calls : call[c].effect # "none" =>
                /\ call'[c].req = call[c].req /\ call'[c].key = call[c].key
                /\ call'[c].days = call[c].days
      BY EffectsStay
    <2>3. \A r : IsSettled(r)' <=> IsSettled(r)
      BY <2>1, <2>2 DEF IsSettled, SettledBy
    <2>4. Blocked(key)' = Blocked(key)
      BY <2>1, <2>2, <2>3 DEF Blocked, Blocks
    <2> QED
      BY <1>1, <2>1, <2>4
  <1> QED
    BY <1>4, <1>5, <1>6

LEMMA SettledInit == Init => SettledInv
  <1> SUFFICES ASSUME Init PROVE SettledInv
    OBVIOUS
  <1>1. \A c \in Calls : EffectShape(c)
    BY DEF Init, EffectShape, NewCall
  <1>2. SettledByOne
    BY DEF Init, SettledByOne, SettledBy, NewCall
  <1>3. ASSUME NEW key \in Keys
        PROVE  \E g : Sums(g, Blocked(key)) /\ wallet[key].pending = g[Calls]
    <2> DEFINE g == [S \in SUBSET Calls |-> 0]
    <2>1. \A c \in Calls : Blocked(key)[c] = 0
      BY DEF Init, Blocked, Blocks, NewCall
    <2>2. Sums(g, Blocked(key))
      BY <2>1 DEF Sums
    <2>3. wallet[key].pending = g[Calls]
      BY DEF Init
    <2> QED
      BY <2>2, <2>3
  <1> QED
    BY <1>1, <1>2, <1>3 DEF SettledInv, PendingIsBlocked

LEMMA SettledStep ==
    TypeOK /\ InFlight /\ CreatedWasHeld /\ SerialInv /\ SettledInv /\ [Next]_vars
      => SettledInv'
  BY OrderlyBefore, ShapeStep, SettledByOneStep, BlockedStep DEF SettledInv

\* What the inductive invariant says of the balances and the requests.
LEMMA SettledImplies == TypeOK /\ SerialInv /\ SettledInv => SettledOnce
  <1> SUFFICES ASSUME TypeOK, SerialInv, SettledInv, Orderly
               PROVE  /\ \A r \in ReqIds :
                           LET settled == Effects(r, "release") \cup Effects(r, "consume")
                           IN  /\ request[r].status \in Open /\ MayStart => settled = {}
                               /\ \A c, d \in settled : c = d
                      /\ PendingMin
    BY DEF SettledOnce
  <1>1. ASSUME NEW r \in ReqIds, request[r].status \in Open, MayStart,
               NEW c \in Calls, SettledBy(c, r)
        PROVE  FALSE
    <2>1. ~Running(c)
      BY <1>1, StartsAlone DEF SerialInv, Orderly
    <2> QED
      BY <1>1, <2>1 DEF SettledInv, EffectShape, SettledBy, Running, Orderly
  <1>2. \A r \in ReqIds : Effects(r, "release") \cup Effects(r, "consume")
                            = {c \in Calls : SettledBy(c, r)}
    BY DEF Effects, SettledBy
  <1>3. PendingMin
    <2> SUFFICES ASSUME NEW key \in Keys PROVE wallet[key].pending >= 0
      BY DEF PendingMin
    <2>1. PICK g : Sums(g, Blocked(key)) /\ wallet[key].pending = g[Calls]
      BY DEF SettledInv, PendingIsBlocked
    <2>2. g[Calls] \in Nat
      BY <2>1 DEF Sums
    <2> QED
      BY <2>1, <2>2
  <1> QED
    BY <1>1, <1>2, <1>3 DEF SettledInv, SettledByOne

\* While handlers run one after the other and none stops half way, a balance
\* blocks exactly the days of the holds that no handler has settled yet.
THEOREM BalancesAccounted == Spec => []SettledInv
  <1> QED
    BY SettledInit, SettledStep, TypeCorrect, HandlersCoherent, CreationHolds,
       HandlersFresh, PTL DEF Spec

\* A decided request is settled exactly once, an open one never, and no balance
\* gives back more than was held: pending stays at or above the schema's 0.
THEOREM SettlesOnce == Spec => []SettledOnce
  <1> QED
    BY SettledImplies, BalancesAccounted, TypeCorrect, HandlersFresh, PTL
=============================================================================
