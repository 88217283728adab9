------------------------- MODULE LeaveRequestsProofs -------------------------
(***************************************************************************)
(* Proofs about LeaveRequests, for any number of employees, leave types,   *)
(* requests and handlers, however these interleave and wherever they stop. *)
(***************************************************************************)
EXTENDS LeaveRequests, TLAPS

(***************************************************************************)
(* Types                                                                   *)
(***************************************************************************)

\* Giving one handler another well-formed record keeps all of them so.
LEMMA CallUpdate ==
    ASSUME TypeOK, NEW c \in Calls, NEW x \in CallStates,
           call' = [call EXCEPT ![c] = x]
    PROVE  call' \in [Calls -> CallStates]
  BY DEF TypeOK

\* The three updates of a balance keep it well formed.
LEMMA WalletUpdate ==
    ASSUME NEW w \in Wallets, NEW d \in Nat
    PROVE  /\ Hold(w, d) \in Wallets
           /\ ReleaseHold(w, d) \in Wallets
           /\ ConsumeHold(w, d) \in Wallets
           /\ \A a \in Assignments : Assign(w, a) \in Wallets
  <1>0. /\ w.pending \in Int /\ w.used \in Int
        /\ w.pending - d \in Int /\ w.used + d \in Int
    BY DEF Wallets
  <1>1. Hold(w, d) \in Wallets
    BY DEF Hold, Wallets
  <1>2. ReleaseHold(w, d) \in Wallets
    BY DEF ReleaseHold, Wallets
  <1>3. ConsumeHold(w, d) \in Wallets
    BY <1>0 DEF ConsumeHold, Wallets
  <1>4. \A a \in Assignments : Assign(w, a) \in Wallets
    <2> SUFFICES ASSUME NEW a \in Assignments PROVE Assign(w, a) \in Wallets
      OBVIOUS
    <2>1. a \in Assignment
      BY LeaveAssumption
    <2>2. /\ a.allocated \in Nat
          /\ (IF a.carried = Keep THEN w.carried ELSE a.carried) \in Nat
          /\ (IF a.used = Keep THEN w.used ELSE a.used) \in Int
      BY <2>1 DEF Assignment, Wallets
    <2> QED
      BY <2>2 DEF Assign, Wallets
  <1> QED
    BY <1>1, <1>2, <1>3, <1>4

LEMMA InitType == Init => TypeOK
  <1> SUFFICES ASSUME Init PROVE TypeOK
    OBVIOUS
  <1>1. NoKey \in Keys
    BY LeaveAssumption DEF NoKey
  <1>2. (CHOOSE r \in ReqIds : TRUE) \in ReqIds
    BY LeaveAssumption
  <1>3. NewCall \in CallStates
    BY <1>1, <1>2 DEF NewCall, CallStates, Statuses, Open, Closed
  <1> QED
    BY <1>1, <1>3 DEF Init, TypeOK, Wallets, Requests, Statuses, Open, Closed,
                      StepActions

\* The three handlers that read a request before they decide.
LEMMA LoadType ==
    ASSUME TypeOK, NEW c \in Calls, NEW r \in ReqIds,
           NEW op \in {"manager", "hr", "cancel"}, NEW target \in Statuses,
           NEW settles \in BOOLEAN, NEW step \in {"none", "manager", "hr"},
           Load(c, r, op, target, settles, step)
    PROVE  TypeOK'
  <1>1. request[r] \in Requests /\ call[c] \in CallStates
    BY DEF TypeOK
  <1>2. request[r].key \in Keys /\ request[r].days \in Nat
    BY <1>1 DEF Requests
  <1>3. [call[c] EXCEPT !.op = op, !.req = r, !.key = request[r].key,
            !.days = request[r].days, !.target = target, !.step = step,
            !.at = IF settles /\ HoldsBalance(request[r].key)
                   THEN "settle" ELSE "save"] \in CallStates
    BY ZenonT(40), <1>1, <1>2 DEF CallStates
  <1>4. call' = [call EXCEPT ![c] = [call[c] EXCEPT
            !.op = op, !.req = r, !.key = request[r].key,
            !.days = request[r].days, !.target = target, !.step = step,
            !.at = IF settles /\ HoldsBalance(request[r].key)
                   THEN "settle" ELSE "save"]]
    BY DEF Load
  <1>5. call' \in [Calls -> CallStates]
    BY <1>3, <1>4, CallUpdate
  <1> QED
    BY <1>5 DEF Load, TypeOK

LEMMA StepType == TypeOK /\ [Next]_vars => TypeOK'
  <1> SUFFICES ASSUME TypeOK, [Next]_vars PROVE TypeOK'
    OBVIOUS
  <1> USE LeaveAssumption
  <1>0. \A c \in Calls : call[c] \in CallStates
    BY DEF TypeOK
  <1>1. ASSUME NEW c \in Calls, ApplyRead(c) PROVE TypeOK'
    <2>1. PICK key \in Keys, d \in Durations, r \in ReqIds :
            call' = [call EXCEPT ![c] =
              [@ EXCEPT !.op = "apply", !.req = r, !.key = key, !.days = d,
                        !.at = IF HoldsBalance(key) THEN "hold" ELSE "create",
                        !.routed = manager[key[1]] # NoOne]]
      BY <1>1 DEF ApplyRead
    <2>2. [call[c] EXCEPT !.op = "apply", !.req = r, !.key = key, !.days = d,
                          !.at = IF HoldsBalance(key) THEN "hold" ELSE "create",
                          !.routed = manager[key[1]] # NoOne] \in CallStates
      BY ZenonT(40), <1>0 DEF CallStates
    <2>3. call' \in [Calls -> CallStates]
      BY <2>1, <2>2, CallUpdate
    <2> QED
      BY <1>1, <2>3 DEF ApplyRead, TypeOK
  <1>2. ASSUME NEW c \in Calls, ApplyHold(c) PROVE TypeOK'
    <2>1. [call[c] EXCEPT !.at = "create", !.effect = "hold"] \in CallStates
      BY <1>0 DEF CallStates
    <2> call' = [call EXCEPT ![c] =
                   [call[c] EXCEPT !.at = "create", !.effect = "hold"]]
      BY <1>2 DEF ApplyHold, TypeOK
    <2>2. call' \in [Calls -> CallStates]
      BY <2>1, CallUpdate
    <2>3. call[c].key \in Keys /\ call[c].days \in Nat
      BY <1>0 DEF CallStates
    <2>4. Hold(wallet[call[c].key], call[c].days) \in Wallets
      BY <2>3, WalletUpdate DEF TypeOK
    <2>5. wallet' \in [Keys -> Wallets]
      BY <1>2, <2>4 DEF ApplyHold, TypeOK
    <2> QED
      BY <1>2, <2>2, <2>5 DEF ApplyHold, TypeOK
  <1>3. ASSUME NEW c \in Calls, ApplyCreate(c) PROVE TypeOK'
    <2>1. [call[c] EXCEPT !.at = "done"] \in CallStates
      BY <1>0 DEF CallStates
    <2>2. call' \in [Calls -> CallStates]
      BY <1>3, <2>1, CallUpdate DEF ApplyCreate
    <2>3. request' \in [ReqIds -> Requests]
      BY <1>0, <1>3 DEF ApplyCreate, TypeOK, CallStates, Requests, Statuses, Open,
                        StepActions
    <2> QED
      BY <1>3, <2>2, <2>3 DEF ApplyCreate, TypeOK
  <1>4. ASSUME NEW c \in Calls, ManagerRead(c) PROVE TypeOK'
    BY <1>4, LoadType DEF ManagerRead, Statuses, Open, Closed
  <1>5. ASSUME NEW c \in Calls, HrRead(c) PROVE TypeOK'
    BY <1>5, LoadType DEF HrRead, Statuses, Open, Closed
  <1>6. ASSUME NEW c \in Calls, CancelRead(c) PROVE TypeOK'
    BY <1>6, LoadType DEF CancelRead, Statuses, Open, Closed
  <1>7. ASSUME NEW c \in Calls, Settle(c) PROVE TypeOK'
    <2> DEFINE consume == call[c].target = "APPROVED"
    <2>1. [call[c] EXCEPT !.at = "save",
             !.effect = IF consume THEN "consume" ELSE "release"] \in CallStates
      BY <1>0 DEF CallStates
    <2> call' = [call EXCEPT ![c] = [call[c] EXCEPT !.at = "save",
                   !.effect = IF consume THEN "consume" ELSE "release"]]
      BY <1>7 DEF Settle, TypeOK
    <2>2. call' \in [Calls -> CallStates]
      BY <2>1, CallUpdate
    <2>3. call[c].key \in Keys /\ call[c].days \in Nat
      BY <1>0 DEF CallStates
    <2>4. /\ ConsumeHold(wallet[call[c].key], call[c].days) \in Wallets
          /\ ReleaseHold(wallet[call[c].key], call[c].days) \in Wallets
      BY <2>3, WalletUpdate DEF TypeOK
    <2>5. wallet' \in [Keys -> Wallets]
      BY <1>7, <2>4 DEF Settle, TypeOK
    <2> QED
      BY <1>7, <2>2, <2>5 DEF Settle, TypeOK
  <1>8. ASSUME NEW c \in Calls, Save(c) PROVE TypeOK'
    <2>1. [call[c] EXCEPT !.at = "done"] \in CallStates
      BY <1>0 DEF CallStates
    <2>2. call' \in [Calls -> CallStates]
      BY <1>8, <2>1, CallUpdate DEF Save
    <2>3. call[c].target \in Statuses /\ Verdict(c) \in StepActions
      BY <1>0 DEF Verdict, StepActions, CallStates
    <2>4. \A q \in Requests : Saved(c, q) \in Requests
      BY <2>3 DEF Saved, Requests
    <2>5. request' \in [ReqIds -> Requests]
      BY <1>0, <1>8, <2>4 DEF Save, TypeOK, CallStates
    <2> QED
      BY <1>8, <2>2, <2>5 DEF Save, TypeOK
  <1>9. ASSUME NEW c \in Calls, Abort(c) PROVE TypeOK'
    <2>1. [call[c] EXCEPT !.at = "dead"] \in CallStates
      BY <1>0 DEF CallStates
    <2> QED
      BY <1>9, <2>1, CallUpdate DEF Abort, TypeOK
  <1>10. CASE AssignBalance
    <2>1. wallet' \in [Keys -> Wallets]
      BY <1>10, WalletUpdate DEF AssignBalance, TypeOK
    <2> QED
      BY <1>10, <2>1 DEF AssignBalance, TypeOK
  <1>11. CASE ToggleLeaveType
    BY <1>11 DEF ToggleLeaveType, TypeOK
  <1>12. CASE ReassignManager
    BY <1>12 DEF ReassignManager, TypeOK
  <1>13. CASE UNCHANGED vars
    BY <1>13 DEF vars, TypeOK
  <1> QED
    BY <1>1, <1>2, <1>3, <1>4, <1>5, <1>6, <1>7, <1>8, <1>9, <1>10, <1>11,
       <1>12, <1>13 DEF Next

\* The collections and the handlers keep their shape: amounts stay numbers and
\* every status is one of the schema's.
THEOREM TypeCorrect == Spec => []TypeOK
  <1> QED
    BY InitType, StepType, PTL DEF Spec

(***************************************************************************)
(* The inductive invariant                                                 *)
(***************************************************************************)

\* A request keeps its key and, once created, never becomes uncreated.
Persists(q, p) == \/ p = q
                  \/ q.status # "NONE" /\ p.status # "NONE" /\ p.key = q.key

LEMMA Persistent ==
    ASSUME NEW k, NEW q, NEW p, Coherent(k, q), Persists(q, p)
    PROVE  Coherent(k, p)
  BY DEF Coherent, Persists

\* A step of handler c preserves InFlight if it leaves c coherent, and keeps
\* the requests of the others.
LEMMA HandlerStep ==
    ASSUME TypeOK, InFlight, NEW c \in Calls, NEW k \in CallStates,
           call' = [call EXCEPT ![c] = k],
           Coherent(k, request'[k.req]),
           \A d \in Calls \ {c} :
              Coherent(call[d], request'[call[d].req]),
           \/ k.op # "apply"
           \/ call[c].op = "apply" /\ call[c].req = k.req
           \/ ~Reserved(k.req)
    PROVE  InFlight'
  <1>1. \A d \in Calls : call'[d] = IF d = c THEN k ELSE call[d]
    BY DEF TypeOK
  <1>2. \A d \in Calls : Coherent(call'[d], request'[call'[d].req])
    BY <1>1
  <1>3. ASSUME NEW d \in Calls, NEW e \in Calls, call'[d].op = "apply",
               call'[e].op = "apply", call'[d].req = call'[e].req
        PROVE  d = e
    BY <1>1, <1>3 DEF InFlight, Reserved
  <1> QED
    BY <1>2, <1>3 DEF InFlight

LEMMA InFlightInit == Init => InFlight
  BY DEF Init, InFlight, Coherent, NewCall, Deciding, Closed

LEMMA LoadInFlight ==
    ASSUME TypeOK, InFlight, NEW c \in Calls, NEW r \in ReqIds,
           NEW op \in Deciding, NEW target \in Statuses \ {"PENDING_MANAGER"},
           NEW settles \in BOOLEAN, NEW step \in {"none", "manager", "hr"},
           settles \/ target = "PENDING_HR",
           Load(c, r, op, target, settles, step)
    PROVE  InFlight'
  <1> DEFINE k == [call[c] EXCEPT
                     !.op = op, !.req = r, !.key = request[r].key,
                     !.days = request[r].days, !.target = target, !.step = step,
                     !.at = IF settles /\ HoldsBalance(request[r].key)
                            THEN "settle" ELSE "save"]
  <1>1. request[r] \in Requests /\ call[c] \in CallStates
    BY DEF TypeOK
  <1>2. request[r].key \in Keys /\ request[r].days \in Nat
    BY <1>1 DEF Requests
  <1>3. k \in CallStates
    BY ZenonT(40), <1>1, <1>2 DEF CallStates, Deciding
  <1>4. call' = [call EXCEPT ![c] = k]
    BY DEF Load
  <1>5. call[c].at = "new" /\ request[r].status \in Open /\ request' = request
    BY DEF Load, CanStart
  <1>6. Coherent(call[c], request[call[c].req])
    BY DEF InFlight
  <1>7. /\ k.req = r /\ k.op = op /\ k.key = request[r].key /\ k.target = target
        /\ k.effect = call[c].effect
        /\ k.at = IF settles /\ HoldsBalance(k.key) THEN "settle" ELSE "save"
    BY <1>1 DEF CallStates
  <1>8. Coherent(k, request'[k.req])
    <2> HIDE DEF k
    <2> QED
      BY <1>5, <1>6, <1>7 DEF Coherent, Deciding, Open, Closed
  <1>9. k.op # "apply"
    BY <1>7 DEF Deciding
  <1> HIDE DEF k
  <1> QED
    BY <1>3, <1>4, <1>5, <1>8, <1>9, HandlerStep DEF InFlight

LEMMA InFlightStep == TypeOK /\ InFlight /\ [Next]_vars => InFlight'
  <1> SUFFICES ASSUME TypeOK, InFlight, [Next]_vars PROVE InFlight'
    OBVIOUS
  <1> USE LeaveAssumption
  <1>0. \A c \in Calls : /\ call[c] \in CallStates
                         /\ call[c].req \in ReqIds
                         /\ Coherent(call[c], request[call[c].req])
    BY DEF TypeOK, CallStates, InFlight
  <1>1. ASSUME NEW c \in Calls, ApplyRead(c) PROVE InFlight'
    <2>1. PICK key \in Keys, d \in Durations, r \in ReqIds :
            /\ CanStart(c)
            /\ request[r].status = "NONE" /\ ~Reserved(r)
            /\ call' = [call EXCEPT ![c] =
                 [@ EXCEPT !.op = "apply", !.req = r, !.key = key, !.days = d,
                           !.at = IF HoldsBalance(key) THEN "hold" ELSE "create",
                           !.routed = manager[key[1]] # NoOne]]
            /\ request' = request
      BY <1>1 DEF ApplyRead
    <2> DEFINE k == [call[c] EXCEPT
                       !.op = "apply", !.req = r, !.key = key, !.days = d,
                       !.at = IF HoldsBalance(key) THEN "hold" ELSE "create",
                       !.routed = manager[key[1]] # NoOne]
    <2>2. k \in CallStates
      BY ZenonT(40), <1>0 DEF CallStates
    <2>3. call' = [call EXCEPT ![c] = k]
      BY <2>1
    <2>4. /\ k.req = r /\ k.op = "apply" /\ k.key = key
          /\ k.effect = call[c].effect
          /\ k.at = IF HoldsBalance(key) THEN "hold" ELSE "create"
      BY <1>0 DEF CallStates
    <2> HIDE DEF k
    <2>5. Coherent(k, request'[k.req])
      BY <1>0, <2>1, <2>4 DEF Coherent, CanStart, Deciding
    <2> QED
      BY <1>0, <2>1, <2>2, <2>3, <2>4, <2>5, HandlerStep
  <1>2. ASSUME NEW c \in Calls, ApplyHold(c) PROVE InFlight'
    <2> DEFINE k == [call[c] EXCEPT !.at = "create", !.effect = "hold"]
    <2>1. call' = [call EXCEPT ![c] = k] /\ request' = request
      BY <1>2 DEF ApplyHold, TypeOK
    <2>2. k \in CallStates
      BY <1>0 DEF CallStates
    <2>3. /\ k.at = "create" /\ k.effect = "hold" /\ k.req = call[c].req
          /\ k.op = call[c].op /\ k.key = call[c].key /\ call[c].at = "hold"
      BY <1>0, <1>2 DEF ApplyHold, CallStates
    <2> HIDE DEF k
    <2>4. Coherent(k, request'[k.req])
      BY <1>0, <2>1, <2>3 DEF Coherent, Deciding
    <2> QED
      BY ZenonT(40), <1>0, <2>1, <2>2, <2>3, <2>4, HandlerStep DEF Coherent
  <1>3. ASSUME NEW c \in Calls, ApplyCreate(c) PROVE InFlight'
    <2> DEFINE k == [call[c] EXCEPT !.at = "done"]
    <2>1. call' = [call EXCEPT ![c] = k]
      BY <1>3 DEF ApplyCreate, TypeOK
    <2>2. k \in CallStates
      BY <1>0 DEF CallStates
    <2>3. /\ k.at = "done" /\ k.req = call[c].req /\ k.op = call[c].op
          /\ call[c].at = "create" /\ call[c].op = "apply"
          /\ request[call[c].req].status = "NONE"
      BY <1>0, <1>3 DEF ApplyCreate, CallStates, Coherent
    <2> HIDE DEF k
    <2>4. Coherent(k, request'[k.req])
      BY <2>3 DEF Coherent, Deciding
    <2>5. \A r \in ReqIds : r # call[c].req => request'[r] = request[r]
      BY <1>3 DEF ApplyCreate, TypeOK
    <2>6. ASSUME NEW d \in Calls \ {c}
          PROVE  Coherent(call[d], request'[call[d].req])
      <3>1. CASE call[d].req # call[c].req
        BY <1>0, <2>5, <3>1
      <3>2. CASE call[d].req = call[c].req
        <4>1. call[d].op # "apply" /\ call[d].op \notin Deciding
          BY <1>0, <2>3, <3>2 DEF InFlight, Coherent
        <4> QED
          BY <1>0, <4>1 DEF Coherent
      <3> QED
        BY <3>1, <3>2
    <2> QED
      BY <2>1, <2>2, <2>3, <2>4, <2>6, HandlerStep
  <1>4. ASSUME NEW c \in Calls, ManagerRead(c) PROVE InFlight'
    BY <1>4, LoadInFlight DEF ManagerRead, Statuses, Open, Closed, Deciding
  <1>5. ASSUME NEW c \in Calls, HrRead(c) PROVE InFlight'
    BY <1>5, LoadInFlight DEF HrRead, Statuses, Open, Closed, Deciding
  <1>6. ASSUME NEW c \in Calls, CancelRead(c) PROVE InFlight'
    BY <1>6, LoadInFlight DEF CancelRead, Statuses, Open, Closed, Deciding
  <1>7. ASSUME NEW c \in Calls, Settle(c) PROVE InFlight'
    <2> DEFINE k == [call[c] EXCEPT !.at = "save",
                       !.effect = IF call[c].target = "APPROVED"
                                  THEN "consume" ELSE "release"]
    <2>1. call' = [call EXCEPT ![c] = k] /\ request' = request
      BY <1>7 DEF Settle, TypeOK
    <2>2. k \in CallStates
      BY <1>0 DEF CallStates
    <2>3. /\ k.at = "save" /\ k.req = call[c].req /\ k.op = call[c].op
          /\ k.key = call[c].key /\ k.target = call[c].target
          /\ k.effect = IF k.target = "APPROVED" THEN "consume" ELSE "release"
          /\ call[c].at = "settle"
      BY <1>0, <1>7 DEF Settle, CallStates
    <2> HIDE DEF k
    <2>4. Coherent(k, request'[k.req])
      BY <1>0, <2>1, <2>3 DEF Coherent, Closed
    <2> QED
      BY ZenonT(40), <1>0, <2>1, <2>2, <2>3, <2>4, HandlerStep DEF Coherent, Deciding
  <1>8. ASSUME NEW c \in Calls, Save(c) PROVE InFlight'
    <2> DEFINE k == [call[c] EXCEPT !.at = "done"]
               r == call[c].req
    <2>1. call' = [call EXCEPT ![c] = k]
      BY <1>8 DEF Save, TypeOK
    <2>2. k \in CallStates
      BY <1>0 DEF CallStates
    <2>3. /\ k.at = "done" /\ k.req = r /\ k.op = call[c].op
          /\ k.key = call[c].key /\ k.target = call[c].target
          /\ call[c].at = "save" /\ call[c].target \in Statuses
      BY <1>0, <1>8 DEF Save, CallStates
    <2> HIDE DEF k
    <2>4. request[r].status # "NONE"
      BY <1>0, <2>3 DEF Coherent
    <2>5. /\ request'[r].status = call[c].target
          /\ request'[r].key = request[r].key
      BY <1>0, <1>8 DEF Save, Saved, TypeOK, Requests
    <2>6. \A q \in ReqIds : Persists(request[q], request'[q])
      <3>1. \A q \in ReqIds : q # r => request'[q] = request[q]
        BY <1>8 DEF Save, TypeOK
      <3> QED
        BY <2>3, <2>4, <2>5, <3>1 DEF Persists, Statuses, Open, Closed
    <2>7. \A d \in Calls : Coherent(call[d], request'[call[d].req])
      BY <1>0, <2>6, Persistent
    <2>8. Coherent(k, request'[k.req])
      BY <1>0, <2>3, <2>7 DEF Coherent
    <2> QED
      BY <1>0, <2>1, <2>2, <2>3, <2>7, <2>8, HandlerStep
  <1>9. ASSUME NEW c \in Calls, Abort(c) PROVE InFlight'
    <2> DEFINE k == [call[c] EXCEPT !.at = "dead"]
    <2>1. call' = [call EXCEPT ![c] = k] /\ request' = request
      BY <1>9 DEF Abort, TypeOK
    <2>2. k \in CallStates
      BY <1>0 DEF CallStates
    <2>3. /\ k.at = "dead" /\ k.req = call[c].req /\ k.op = call[c].op
          /\ k.key = call[c].key /\ k.target = call[c].target
      BY <1>0 DEF CallStates
    <2> HIDE DEF k
    <2>4. Coherent(k, request'[k.req])
      BY <1>0, <2>1, <2>3 DEF Coherent
    <2> QED
      BY <1>0, <2>1, <2>2, <2>3, <2>4, HandlerStep
  <1>10. CASE UNCHANGED <<request, call>>
    BY <1>10 DEF InFlight
  <1> QED
    BY <1>1, <1>2, <1>3, <1>4, <1>5, <1>6, <1>7, <1>8, <1>9, <1>10
       DEF Next, AssignBalance, ToggleLeaveType, ReassignManager, vars

(***************************************************************************)
(* Every closed request was settled                                        *)
(***************************************************************************)

\* A balance write, once made, is remembered by its handler.
LEMMA EffectsStay ==
    ASSUME TypeOK, InFlight, [Next]_vars, NEW c \in Calls, call[c].effect # "none"
    PROVE  /\ call'[c].effect = call[c].effect /\ call'[c].req = call[c].req
           /\ call'[c].key = call[c].key /\ call'[c].days = call[c].days
  <1>0. call[c] \in CallStates /\ Coherent(call[c], request[call[c].req])
    BY DEF TypeOK, InFlight
  <1>1. call[c].at \notin {"new", "hold", "settle"}
    BY <1>0 DEF Coherent
  <1> DEFINE Kept == /\ call'[c].effect = call[c].effect
                     /\ call'[c].req = call[c].req
                     /\ call'[c].key = call[c].key
                     /\ call'[c].days = call[c].days
  <1>2. ASSUME NEW d \in Calls, ApplyRead(d) \/ ManagerRead(d) \/ HrRead(d) \/ CancelRead(d)
        PROVE  Kept
    <2>1. d # c
      BY <1>1, <1>2 DEF ApplyRead, ManagerRead, HrRead, CancelRead, Load, CanStart
    <2> QED
      BY <1>2, <2>1 DEF ApplyRead, ManagerRead, HrRead, CancelRead, Load, TypeOK
  <1>3. ASSUME NEW d \in Calls, ApplyHold(d) \/ Settle(d)
        PROVE  Kept
    <2>1. d # c
      BY <1>1, <1>3 DEF ApplyHold, Settle
    <2> QED
      BY <1>3, <2>1 DEF ApplyHold, Settle, TypeOK
  <1>4. ASSUME NEW d \in Calls, ApplyCreate(d) \/ Save(d) \/ Abort(d)
        PROVE  Kept
    BY <1>0, <1>4 DEF ApplyCreate, Save, Abort, TypeOK, CallStates
  <1>5. CASE UNCHANGED call
    BY <1>5
  <1> QED
    BY <1>2, <1>3, <1>4, <1>5
       DEF Next, AssignBalance, ToggleLeaveType, ReassignManager, vars

\* The only writers of a request are its creation and the saves of decisions.
LEMMA RequestWriters ==
    ASSUME TypeOK, InFlight, [Next]_vars, NEW r \in ReqIds,
           request'[r] # request[r]
    PROVE  \E c \in Calls :
             /\ call[c].req = r
             /\ \/ ApplyCreate(c) /\ call[c].at = "create"
                   /\ request[r].status = "NONE"
                   /\ request'[r].status \in Open
                   /\ request'[r].key = call[c].key
                   /\ request'[r].days = call[c].days
                \/ Save(c) /\ call[c].at = "save"
                   /\ request[r].status # "NONE"
                   /\ request'[r].status = call[c].target
                   /\ request'[r].key = request[r].key
                   /\ request'[r].days = request[r].days
                   /\ request[r].key = call[c].key
                   /\ call[c].target # "PENDING_MANAGER"
  <1>0. \A c \in Calls : /\ call[c] \in CallStates /\ call[c].req \in ReqIds
                         /\ Coherent(call[c], request[call[c].req])
    BY DEF TypeOK, CallStates, InFlight
  <1>1. PICK c \in Calls : ApplyCreate(c) \/ Save(c)
    BY ZenonT(40) DEF Next, ApplyRead, ApplyHold, ManagerRead, HrRead, CancelRead, Load,
           Settle, Abort, AssignBalance, ToggleLeaveType, ReassignManager, vars
  <1>2. CASE ApplyCreate(c)
    <2>1. call[c].req = r
      BY <1>2 DEF ApplyCreate, TypeOK
    <2>2. call[c].at = "create" /\ request[r].status = "NONE"
      BY <1>0, <1>2, <2>1 DEF ApplyCreate, Coherent
    <2>3. /\ request'[r].status \in Open /\ request'[r].key = call[c].key
          /\ request'[r].days = call[c].days
      BY <1>2, <2>1 DEF ApplyCreate, TypeOK, Open
    <2> QED
      BY <1>2, <2>1, <2>2, <2>3
  <1>3. CASE Save(c)
    <2>1. call[c].req = r
      BY <1>3 DEF Save, TypeOK
    <2>2. /\ call[c].at = "save" /\ request[r].status # "NONE"
          /\ request[r].key = call[c].key /\ call[c].target # "PENDING_MANAGER"
      BY <1>0, <1>3, <2>1 DEF Save, Coherent
    <2>3. /\ request'[r].status = call[c].target
          /\ request'[r].key = request[r].key /\ request'[r].days = request[r].days
      BY <1>3, <2>1 DEF Save, Saved, TypeOK, Requests
    <2> QED
      BY <1>3, <2>1, <2>2, <2>3
  <1> QED
    BY <1>1, <1>2, <1>3

LEMMA ConsumedStep ==
    TypeOK /\ InFlight /\ ApprovedWasConsumed /\ [Next]_vars => ApprovedWasConsumed'
  <1> SUFFICES ASSUME TypeOK, InFlight, ApprovedWasConsumed, [Next]_vars,
                      NEW r \in ReqIds, request'[r].status = "APPROVED",
                      HoldsBalance(request'[r].key)
               PROVE  \E c \in Calls : call'[c].req = r /\ call'[c].effect = "consume"
    BY DEF ApprovedWasConsumed, Effects
  <1>1. CASE request'[r] = request[r]
    <2>1. PICK c \in Calls : call[c].req = r /\ call[c].effect = "consume"
      BY <1>1 DEF ApprovedWasConsumed, Effects
    <2> QED
      BY <2>1, EffectsStay
  <1>2. CASE request'[r] # request[r]
    <2>1. PICK c \in Calls :
            /\ call[c].req = r /\ Save(c) /\ call[c].at = "save"
            /\ call[c].target = "APPROVED"
            /\ HoldsBalance(call[c].key)
      BY <1>2, RequestWriters DEF Open
    <2>2. call[c].effect = "consume"
      BY <2>1 DEF InFlight, Coherent
    <2> QED
      BY <2>1, <2>2, EffectsStay
  <1> QED
    BY <1>1, <1>2

LEMMA ReleasedStep ==
    TypeOK /\ InFlight /\ ClosedWasReleased /\ [Next]_vars => ClosedWasReleased'
  <1> SUFFICES ASSUME TypeOK, InFlight, ClosedWasReleased, [Next]_vars,
                      NEW r \in ReqIds, request'[r].status \in Closed,
                      HoldsBalance(request'[r].key)
               PROVE  \E c \in Calls : call'[c].req = r /\ call'[c].effect = "release"
    BY DEF ClosedWasReleased, Effects
  <1>1. CASE request'[r] = request[r]
    <2>1. PICK c \in Calls : call[c].req = r /\ call[c].effect = "release"
      BY <1>1 DEF ClosedWasReleased, Effects
    <2> QED
      BY <2>1, EffectsStay
  <1>2. CASE request'[r] # request[r]
    <2>1. PICK c \in Calls :
            /\ call[c].req = r /\ Save(c) /\ call[c].at = "save"
            /\ call[c].target \in Closed
            /\ HoldsBalance(call[c].key)
      BY <1>2, RequestWriters DEF Open, Closed
    <2>2. call[c].effect = "release"
      BY <2>1 DEF InFlight, Coherent
    <2> QED
      BY <2>1, <2>2, EffectsStay
  <1> QED
    BY <1>1, <1>2

LEMMA HeldStep ==
    TypeOK /\ InFlight /\ CreatedWasHeld /\ [Next]_vars => CreatedWasHeld'
  <1> SUFFICES ASSUME TypeOK, InFlight, CreatedWasHeld, [Next]_vars,
                      NEW r \in ReqIds, request'[r].status # "NONE",
                      HoldsBalance(request'[r].key)
               PROVE  \E c \in Calls :
                        /\ call'[c].req = r /\ call'[c].effect = "hold"
                        /\ call'[c].key = request'[r].key
                        /\ call'[c].days = request'[r].days
    BY DEF CreatedWasHeld, Effects
  <1>1. CASE /\ request[r].status # "NONE"
             /\ request'[r].key = request[r].key /\ request'[r].days = request[r].days
    <2>1. PICK c \in Calls : /\ call[c].req = r /\ call[c].effect = "hold"
                             /\ call[c].key = request[r].key
                             /\ call[c].days = request[r].days
      BY <1>1 DEF CreatedWasHeld, Effects
    <2> QED
      BY <1>1, <2>1, EffectsStay
  <1>2. ASSUME NEW c \in Calls, call[c].req = r, call[c].at = "create",
               request'[r].key = call[c].key, request'[r].days = call[c].days
        PROVE  \E d \in Calls :
                 /\ call'[d].req = r /\ call'[d].effect = "hold"
                 /\ call'[d].key = request'[r].key
                 /\ call'[d].days = request'[r].days
    <2>1. call[c].effect = "hold"
      BY <1>2 DEF InFlight, Coherent
    <2> QED
      BY <1>2, <2>1, EffectsStay
  <1> QED
    BY <1>1, <1>2, RequestWriters

LEMMA ForwardStep ==
    ASSUME TypeOK, InFlight, [Next]_vars, NEW r \in ReqIds,
           request'[r].status = "PENDING_MANAGER"
    PROVE  request[r].status \in {"NONE", "PENDING_MANAGER"}
  BY RequestWriters

(***************************************************************************)
(* Theorems                                                                *)
(***************************************************************************)

\* However stale the copy a handler works on, a request being created does
\* not exist yet, one being decided keeps its key, and no two applications
\* share a request.
THEOREM HandlersCoherent == Spec => []InFlight
  <1> QED
    BY InFlightInit, InFlightStep, InitType, StepType, PTL DEF Spec

\* An approved request of a paid type has had its hold consumed.
THEOREM ApprovalConsumes == Spec => []ApprovedWasConsumed
  <1>1. Init => ApprovedWasConsumed
    BY DEF Init, ApprovedWasConsumed
  <1> QED
    BY <1>1, ConsumedStep, TypeCorrect, HandlersCoherent, PTL DEF Spec

\* A rejected or cancelled request of a paid type has had its hold released.
THEOREM ClosingReleases == Spec => []ClosedWasReleased
  <1>1. Init => ClosedWasReleased
    BY DEF Init, ClosedWasReleased, Closed
  <1> QED
    BY <1>1, ReleasedStep, TypeCorrect, HandlersCoherent, PTL DEF Spec

\* Every request of a paid type was created after its own hold was placed.
THEOREM CreationHolds == Spec => []CreatedWasHeld
  <1>1. Init => CreatedWasHeld
    BY DEF Init, CreatedWasHeld
  <1> QED
    BY <1>1, HeldStep, TypeCorrect, HandlersCoherent, PTL DEF Spec

\* No decision, however late its save arrives, sends a request back to the
\* manager's stage.
THEOREM StageMovesForward == Spec => NeverBackToManager
  <1>1. TypeOK /\ InFlight /\ [Next]_vars
          => [\A r \in ReqIds : request'[r].status = "PENDING_MANAGER"
                 => request[r].status \in {"NONE", "PENDING_MANAGER"}]_request
    BY ForwardStep
  <1> QED
    BY <1>1, TypeCorrect, HandlersCoherent, PTL DEF Spec, NeverBackToManager
=============================================================================
