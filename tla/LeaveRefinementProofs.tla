------------------------ MODULE LeaveRefinementProofs ------------------------
(***************************************************************************)
(* Proof that the handlers implement the ledger while they run one after   *)
(* the other and none stops half way, for any number of requests, handlers *)
(* and balances.                                                           *)
(***************************************************************************)
EXTENDS LeaveRefinement, LeaveOrderlyProofs

(***************************************************************************)
(* What the ledger sees                                                    *)
(***************************************************************************)

Plain(w) == [granted |-> w.allocated + w.carried, used |-> w.used, pending |-> w.pending]

\* Between handlers the ledger is the stored balance.
Resting ==
    (\A c \in Calls : ~Running(c)) => \A key \in Keys : Seen(key) = Plain(wallet[key])

\* While one runs, its balance write is taken back.
Working ==
    \A c \in Calls : Running(c) /\ (\A d \in Calls \ {c} : ~Running(d)) =>
        \A key \in Keys :
            Seen(key) = Plain(IF call[c].key = key THEN Before(wallet[key], call[c])
                                                   ELSE wallet[key])

LEMMA SeenIdle == Resting
  <1> SUFFICES ASSUME \A c \in Calls : ~Running(c), NEW key \in Keys
               PROVE  Seen(key) = Plain(wallet[key])
    BY DEF Resting
  <1>1. {c \in Calls : Running(c) /\ call[c].key = key} = {}
    OBVIOUS
  <1> QED
    BY <1>1 DEF Seen, Plain

LEMMA SeenRunning == Working
  <1> SUFFICES ASSUME NEW c \in Calls, Running(c), \A d \in Calls \ {c} : ~Running(d),
                      NEW key \in Keys
               PROVE  Seen(key) = Plain(IF call[c].key = key
                                        THEN Before(wallet[key], call[c])
                                        ELSE wallet[key])
    BY DEF Working
  <1>1. CASE call[c].key = key
    <2>1. {d \in Calls : Running(d) /\ call[d].key = key} = {c}
      BY <1>1
    <2>2. (CHOOSE d \in {c} : TRUE) = c
      OBVIOUS
    <2> QED
      BY <1>1, <2>1, <2>2 DEF Seen, Plain
  <1>2. CASE call[c].key # key
    <2>1. {d \in Calls : Running(d) /\ call[d].key = key} = {}
      BY <1>2
    <2> QED
      BY <1>2, <2>1 DEF Seen, Plain
  <1> QED
    BY <1>1, <1>2

\* A balance with these four fields.
Balance(w, allocated, carried, used, pending) ==
    /\ w.allocated = allocated /\ w.carried = carried
    /\ w.used = used /\ w.pending = pending

\* What each update makes of the four fields.
LEMMA UpdatedFields ==
    ASSUME NEW w \in Wallets, NEW d \in Int
    PROVE  /\ Balance(Hold(w, d), w.allocated, w.carried, w.used, w.pending + d)
           /\ Balance(ReleaseHold(w, d), w.allocated, w.carried, w.used, w.pending - d)
           /\ Balance(ConsumeHold(w, d), w.allocated, w.carried, w.used + d,
                      w.pending - d)
           /\ Hold(w, d) \in Wallets /\ ReleaseHold(w, d) \in Wallets
           /\ ConsumeHold(w, d) \in Wallets
  <1>1. /\ w.allocated \in Nat /\ w.carried \in Nat
        /\ w.used \in Int /\ w.pending \in Int
        /\ w.used + d \in Int /\ w.pending + d \in Int /\ w.pending - d \in Int
    BY DEF Wallets
  <1>2. /\ Balance(Hold(w, d), w.allocated, w.carried, w.used, w.pending + d)
        /\ Hold(w, d) \in Wallets
    BY <1>1 DEF Hold, Balance, Wallets
  <1>3. /\ Balance(ReleaseHold(w, d), w.allocated, w.carried, w.used, w.pending - d)
        /\ ReleaseHold(w, d) \in Wallets
    BY <1>1 DEF ReleaseHold, Balance, Wallets
  <1>4. /\ Balance(ConsumeHold(w, d), w.allocated, w.carried, w.used + d, w.pending - d)
        /\ ConsumeHold(w, d) \in Wallets
    BY <1>1 DEF ConsumeHold, Balance, Wallets
  <1> QED
    BY <1>2, <1>3, <1>4

\* Taking a write back gives the ledger the balance before it.
LEMMA TakenBack ==
    ASSUME NEW w \in Wallets, NEW d \in Nat
    PROVE  /\ Plain(ReleaseHold(Hold(w, d), d)) = Plain(w)
           /\ Plain(Hold(ReleaseHold(w, d), d)) = Plain(w)
           /\ Plain(ConsumeHold(ConsumeHold(w, d), -d)) = Plain(w)
  <1>1. d \in Int /\ -d \in Int /\ w.used \in Int /\ w.pending \in Int
    BY DEF Wallets
  <1>2. ASSUME NEW x \in Wallets, Balance(x, w.allocated, w.carried, w.used, w.pending + d)
        PROVE  Plain(ReleaseHold(x, d)) = Plain(w)
    <2>1. Balance(ReleaseHold(x, d), x.allocated, x.carried, x.used, x.pending - d)
      BY <1>1, UpdatedFields
    <2> QED
      BY <1>1, <1>2, <2>1 DEF Balance, Plain
  <1>3. ASSUME NEW x \in Wallets, Balance(x, w.allocated, w.carried, w.used, w.pending - d)
        PROVE  Plain(Hold(x, d)) = Plain(w)
    <2>1. Balance(Hold(x, d), x.allocated, x.carried, x.used, x.pending + d)
      BY <1>1, UpdatedFields
    <2> QED
      BY <1>1, <1>3, <2>1 DEF Balance, Plain
  <1>4. ASSUME NEW x \in Wallets,
               Balance(x, w.allocated, w.carried, w.used + d, w.pending - d)
        PROVE  Plain(ConsumeHold(x, -d)) = Plain(w)
    <2>1. Balance(ConsumeHold(x, -d), x.allocated, x.carried, x.used + (-d), x.pending - (-d))
      BY <1>1, UpdatedFields
    <2> QED
      BY <1>1, <1>4, <2>1 DEF Balance, Plain
  <1> QED
    BY <1>1, <1>2, <1>3, <1>4, UpdatedFields

\* Both hold after a step as well.
LEMMA SeenAfter == Resting' /\ Working'
  BY SeenIdle, SeenRunning, PTL

(***************************************************************************)
(* What the mapping needs beyond the handlers being fresh                  *)
(***************************************************************************)

\* An application asks for a duration on offer, its hold left the balance
\* covered, and only paid leave types have balance writes.
Priced(k, w) ==
    /\ k.at \in {"hold", "create"} => k.days \in Durations
    /\ k.at \in {"create", "save"} /\ k.effect # "none" => HoldsBalance(k.key)
    /\ k.at = "hold" => HoldsBalance(k.key)
    /\ k.at = "create" /\ k.effect = "hold" => Available(w) >= 0

PricedCall(c) == Priced(call[c], wallet[call[c].key])

LedgerInv ==
    OneAtATime => /\ \A c \in Calls : PricedCall(c)
                  /\ \A key \in Keys : wallet[key].carried \in Carried

LEMMA LedgerInit == Init => LedgerInv
  BY DEF Init, LedgerInv, PricedCall, Priced, NewCall, Carried

\* A handler's step, while the others rest, is judged by the handler alone.
LEMMA LonePriced ==
    ASSUME TypeOK, NEW c \in Calls, \A d \in Calls \ {c} : ~Running(d) /\ call'[d] = call[d],
           PricedCall(c)',
           \A key \in Keys : wallet'[key].carried \in Carried
    PROVE  LedgerInv'
  BY DEF LedgerInv, PricedCall, Priced, Running

LEMMA LedgerStep ==
    TypeOK /\ InFlight /\ SerialInv /\ LedgerInv /\ [Next]_vars => LedgerInv'
  <1> SUFFICES ASSUME TypeOK, InFlight, SerialInv, LedgerInv, OneAtATime, [Next]_vars
               PROVE  LedgerInv'
    BY ZenonT(40) DEF LedgerInv, OneAtATime, Next, ApplyRead, ApplyHold, ApplyCreate,
           ManagerRead, HrRead, CancelRead, Load, Settle, Save, Abort,
           AssignBalance, ToggleLeaveType, ReassignManager, vars
  <1> USE LeaveAssumption
  <1>0. /\ Serial
        /\ \A c \in Calls : /\ call[c] \in CallStates
                            /\ call[c].key \in Keys /\ call[c].days \in Nat
                            /\ FreshCall(c) /\ PricedCall(c)
                            /\ Coherent(call[c], request[call[c].req])
        /\ \A key \in Keys : wallet[key] \in Wallets /\ wallet[key].carried \in Carried
    BY DEF SerialInv, LedgerInv, TypeOK, CallStates, InFlight
  <1>1. ASSUME NEW c \in Calls, ApplyRead(c) PROVE LedgerInv'
    <2>1. /\ \A d \in Calls \ {c} : ~Running(d) /\ call'[d] = call[d]
          /\ wallet' = wallet
      BY <1>0, <1>1, StartsAlone DEF ApplyRead, CanStart, TypeOK
    <2>2. PICK key \in Keys, d \in Durations, r \in ReqIds :
            call' = [call EXCEPT ![c] =
              [@ EXCEPT !.op = "apply", !.req = r, !.key = key, !.days = d,
                        !.at = IF HoldsBalance(key) THEN "hold" ELSE "create",
                        !.routed = manager[key[1]] # NoOne]]
      BY <1>1 DEF ApplyRead
    <2>3. /\ call'[c].days \in Durations /\ call'[c].effect = "none"
          /\ call'[c].at = IF HoldsBalance(call'[c].key) THEN "hold" ELSE "create"
      <3>1. call[c].at = "new" => call[c].effect = "none"
        BY <1>0 DEF Coherent
      <3> QED
        BY <1>0, <1>1, <2>2, <3>1 DEF ApplyRead, CanStart, TypeOK, CallStates
    <2>4. PricedCall(c)'
      BY <2>3 DEF PricedCall, Priced
    <2> QED
      BY <1>0, <2>1, <2>4, LonePriced
  <1>2. ASSUME NEW c \in Calls, ApplyHold(c) PROVE LedgerInv'
    <2> DEFINE w == wallet[call[c].key]
    <2>1. /\ \A d \in Calls \ {c} : ~Running(d) /\ call'[d] = call[d]
          /\ call[c].at = "hold"
      BY <1>0, <1>2 DEF ApplyHold, Serial, Running, TypeOK
    <2>2. /\ call'[c].at = "create" /\ call'[c].days = call[c].days
          /\ call'[c].key = call[c].key /\ call'[c].effect = "hold"
          /\ wallet'[call[c].key] = Hold(w, call[c].days)
      BY <1>0, <1>2 DEF ApplyHold, TypeOK, CallStates
    <2>3. Balance(wallet'[call[c].key], w.allocated, w.carried, w.used,
                  w.pending + call[c].days)
      <3>1. w \in Wallets /\ call[c].days \in Int
        BY <1>0
      <3>2. Balance(Hold(w, call[c].days), w.allocated, w.carried, w.used,
                    w.pending + call[c].days)
        <4> HIDE DEF w
        <4> QED
          BY <3>1, UpdatedFields
      <3> QED
        BY <2>2, <3>2
    <2>4. Available(wallet'[call[c].key]) >= 0
      <3>1. Available(w) >= call[c].days
        BY <1>0, <2>1 DEF FreshCall, Fresh
      <3>2. /\ w.allocated \in Nat /\ w.carried \in Nat
            /\ w.used \in Int /\ w.pending \in Int /\ call[c].days \in Nat
        BY <1>0 DEF Wallets
      <3> QED
        BY <2>3, <3>1, <3>2 DEF Balance, Available
    <2>5. PricedCall(c)'
      BY <1>0, <2>1, <2>2, <2>4 DEF PricedCall, Priced
    <2>6. \A key \in Keys : wallet'[key].carried \in Carried
      BY <1>0, <1>2, <2>3 DEF ApplyHold, TypeOK, Balance
    <2> QED
      BY <2>1, <2>5, <2>6, LonePriced
  <1>3. ASSUME NEW c \in Calls, ApplyCreate(c) \/ Save(c) \/ Abort(c) PROVE LedgerInv'
    <2>1. /\ \A d \in Calls \ {c} : ~Running(d) /\ call'[d] = call[d]
          /\ wallet' = wallet /\ call'[c].at \in {"done", "dead"}
      BY <1>0, <1>3 DEF ApplyCreate, Save, Abort, HalfDone, Serial, Running, TypeOK,
                        CallStates
    <2>2. PricedCall(c)'
      BY <2>1 DEF PricedCall, Priced
    <2> QED
      BY <1>0, <2>1, <2>2, LonePriced
  <1>4. ASSUME NEW c \in Calls, ManagerRead(c) \/ HrRead(c) \/ CancelRead(c)
        PROVE  LedgerInv'
    <2>1. PICK r, op, target, settles, step : Load(c, r, op, target, settles, step)
      BY <1>4 DEF ManagerRead, HrRead, CancelRead
    <2>2. /\ \A d \in Calls \ {c} : ~Running(d) /\ call'[d] = call[d]
          /\ wallet' = wallet /\ call[c].at = "new"
      BY <1>0, <2>1, StartsAlone DEF Load, CanStart, TypeOK
    <2>3. call'[c].effect = "none" /\ call'[c].at \in {"settle", "save"}
      <3>1. call[c].effect = "none"
        BY <1>0, <2>2 DEF Coherent
      <3> QED
        BY <1>0, <2>1, <3>1 DEF Load, TypeOK, CallStates
    <2>4. PricedCall(c)'
      BY <2>3 DEF PricedCall, Priced
    <2> QED
      BY <1>0, <2>2, <2>4, LonePriced
  <1>5. ASSUME NEW c \in Calls, Settle(c) PROVE LedgerInv'
    <2> DEFINE w == wallet[call[c].key]
    <2>1. /\ \A d \in Calls \ {c} : ~Running(d) /\ call'[d] = call[d]
          /\ call[c].at = "settle"
      BY <1>0, <1>5 DEF Settle, Serial, Running, TypeOK
    <2>2. call'[c].at = "save" /\ call'[c].key = call[c].key
      BY <1>0, <1>5 DEF Settle, TypeOK, CallStates
    <2>3. PricedCall(c)'
      BY <1>0, <2>1, <2>2 DEF PricedCall, Priced, FreshCall, Fresh
    <2>4. wallet'[call[c].key] = IF call[c].target = "APPROVED"
                                 THEN ConsumeHold(w, call[c].days)
                                 ELSE ReleaseHold(w, call[c].days)
      BY <1>0, <1>5 DEF Settle, TypeOK
    <2>5. wallet'[call[c].key].carried = w.carried
      <3>1. w \in Wallets /\ call[c].days \in Int
        BY <1>0
      <3>2. /\ ConsumeHold(w, call[c].days).carried = w.carried
            /\ ReleaseHold(w, call[c].days).carried = w.carried
        <4> HIDE DEF w
        <4> QED
          BY <3>1, UpdatedFields DEF Balance
      <3> QED
        BY <2>4, <3>2
    <2>6. \A key \in Keys : wallet'[key].carried \in Carried
      BY <1>0, <1>5, <2>5 DEF Settle, TypeOK
    <2> QED
      BY <2>1, <2>3, <2>6, LonePriced
  <1>6. CASE AssignBalance
    <2>1. call' = call /\ \A c \in Calls : ~Running(c)
      BY <1>0, <1>6, StartsAlone DEF AssignBalance
    <2>2. \A key \in Keys : wallet'[key].carried \in Carried
      <3> SUFFICES ASSUME NEW key \in Keys PROVE wallet'[key].carried \in Carried
        OBVIOUS
      <3>1. \/ wallet'[key] = wallet[key]
            \/ \E a \in Assignments : wallet'[key] = Assign(wallet[key], a)
        BY <1>6 DEF AssignBalance, TypeOK
      <3>2. ASSUME NEW a \in Assignments, wallet'[key] = Assign(wallet[key], a)
            PROVE  wallet'[key].carried \in Carried
        <4>1. wallet'[key].carried = IF a.carried = Keep THEN wallet[key].carried
                                     ELSE a.carried
          BY <1>0, <3>2 DEF Assign, Wallets
        <4> QED
          BY <1>0, <4>1 DEF Carried
      <3> QED
        BY <1>0, <3>1, <3>2
    <2> QED
      BY <2>1, <2>2 DEF LedgerInv, PricedCall, Priced, Running
  <1>7. CASE ToggleLeaveType \/ ReassignManager \/ UNCHANGED vars
    BY <1>0, <1>7 DEF ToggleLeaveType, ReassignManager, vars, LedgerInv, PricedCall
  <1> QED
    BY <1>1, <1>2, <1>3, <1>4, <1>5, <1>6, <1>7 DEF Next

(***************************************************************************)
(* Every step is a step of the ledger, or none                             *)
(***************************************************************************)

Account == [key \in Keys |-> Seen(key)]
Claim == [r \in ReqIds |-> [key |-> request[r].key, days |-> request[r].days,
                            status |-> request[r].status]]

\* The invariants that hold along an orderly history.
OrderlyInv == TypeOK /\ InFlight /\ SerialInv /\ SettledInv /\ LedgerInv /\ Orderly

LEMMA InitMapped == Init => Ledger!Init
  <1> SUFFICES ASSUME Init PROVE Ledger!Init
    OBVIOUS
  <1>1. \A c \in Calls : ~Running(c)
    BY DEF Init, Running, NewCall
  <1>2. \A key \in Keys : Seen(key) = [granted |-> 0, used |-> 0, pending |-> 0]
    <2> SUFFICES ASSUME NEW key \in Keys
                 PROVE  Seen(key) = [granted |-> 0, used |-> 0, pending |-> 0]
      OBVIOUS
    <2>1. Seen(key) = Plain(wallet[key])
      BY <1>1, SeenIdle DEF Resting
    <2> QED
      BY <2>1 DEF Init, Plain
  <1>3. NoKey \in Keys
    BY LeaveAssumption DEF NoKey
  <1> QED
    BY <1>2, <1>3 DEF Init, Ledger!Init

\* The ledger does not see a step that leaves the requests alone and whose
\* balance write, if any, is taken back.
LEMMA Unseen ==
    ASSUME request' = request, \A key \in Keys : Seen(key)' = Seen(key)
    PROVE  UNCHANGED Ledger!ledger
  BY DEF Ledger!ledger

\* Placing a hold and settling one is unseen, and so is reading.
LEMMA HandlerUnseen ==
    ASSUME OrderlyInv, [Next]_vars, NEW c \in Calls,
           \/ ApplyRead(c) \/ ApplyHold(c) \/ ManagerRead(c) \/ HrRead(c)
           \/ CancelRead(c) \/ Settle(c)
    PROVE  UNCHANGED Ledger!ledger
  <1>0. /\ call[c] \in CallStates /\ call[c].key \in Keys /\ call[c].days \in Nat
        /\ Coherent(call[c], request[call[c].req]) /\ Serial
        /\ \A key \in Keys : wallet[key] \in Wallets
    BY DEF OrderlyInv, Orderly, SerialInv, TypeOK, CallStates, InFlight
  <1>1. CASE ApplyRead(c) \/ ManagerRead(c) \/ HrRead(c) \/ CancelRead(c)
    <2>1. /\ CanStart(c) /\ wallet' = wallet /\ request' = request
          /\ \A d \in Calls \ {c} : call'[d] = call[d]
      BY <1>1 DEF ApplyRead, ManagerRead, HrRead, CancelRead, Load, OrderlyInv, TypeOK
    <2>2. \A d \in Calls : ~Running(d)
      BY <1>0, <2>1, StartsAlone DEF CanStart, OrderlyInv, Orderly
    <2>3. call'[c].effect = "none" /\ call'[c].at \in {"hold", "create", "settle", "save"}
      <3>1. call[c].effect = "none"
        BY <1>0, <2>1 DEF CanStart, Coherent
      <3>2. CASE ApplyRead(c)
        <4>1. PICK key \in Keys, d \in Durations, r \in ReqIds :
                call' = [call EXCEPT ![c] =
                  [@ EXCEPT !.op = "apply", !.req = r, !.key = key, !.days = d,
                            !.at = IF HoldsBalance(key) THEN "hold" ELSE "create",
                            !.routed = manager[key[1]] # NoOne]]
          BY <3>2 DEF ApplyRead
        <4> QED
          BY <1>0, <3>1, <4>1 DEF OrderlyInv, TypeOK, CallStates
      <3>3. CASE ManagerRead(c) \/ HrRead(c) \/ CancelRead(c)
        <4>1. PICK r, op, target, settles, step : Load(c, r, op, target, settles, step)
          BY <3>3 DEF ManagerRead, HrRead, CancelRead
        <4> QED
          BY <1>0, <3>1, <4>1 DEF Load, OrderlyInv, TypeOK, CallStates
      <3> QED
        BY <1>1, <3>2, <3>3
    <2>4. /\ Running(c)' /\ \A d \in Calls \ {c} : ~Running(d)'
      BY <2>1, <2>2, <2>3 DEF Running
    <2>5. \A w : Before(w, call'[c]) = w
      BY <2>3 DEF Before
    <2>6. ASSUME NEW key \in Keys PROVE Seen(key)' = Seen(key)
      <3>1. Seen(key) = Plain(wallet[key])
        BY <2>2, SeenIdle DEF Resting
      <3>2. Seen(key)' = Plain(IF call'[c].key = key
                               THEN Before(wallet[key], call'[c]) ELSE wallet[key])
        BY <2>1, <2>4, SeenAfter DEF Working
      <3>3. Seen(key)' = Plain(wallet[key])
        BY <2>5, <3>2
      <3> QED
        BY <3>1, <3>3
    <2> QED
      BY <2>1, <2>6, Unseen
  <1>2. CASE ApplyHold(c) \/ Settle(c)
    <2> DEFINE k == call[c].key
               d == call[c].days
    <2>1. /\ call[c].at \in {"hold", "settle"} /\ Running(c) /\ request' = request
          /\ \A e \in Calls \ {c} : call'[e] = call[e] /\ ~Running(e)
      BY <1>0, <1>2 DEF ApplyHold, Settle, Running, Serial, OrderlyInv, TypeOK
    <2>2. /\ Running(c)' /\ \A e \in Calls \ {c} : ~Running(e)'
      BY <1>0, <1>2, <2>1, BalanceWrite DEF Running, OrderlyInv
    <2>3. Before(wallet[k], call[c]) = wallet[k]
      BY <2>1 DEF Before
    <2>4. Plain(Before(wallet'[k], call'[c])) = Plain(wallet[k])
      <3>1. wallet[k] \in Wallets /\ d \in Nat
        BY <1>0
      <3>2. CASE ApplyHold(c)
        <4>1. /\ wallet'[k] = Hold(wallet[k], d) /\ call'[c].at = "create"
              /\ call'[c].effect = "hold" /\ call'[c].days = d
          BY <1>0, <3>2 DEF ApplyHold, OrderlyInv, TypeOK, CallStates
        <4>2. Before(wallet'[k], call'[c]) = ReleaseHold(Hold(wallet[k], d), d)
          BY <4>1 DEF Before
        <4> QED
          BY <3>1, <4>2, TakenBack
      <3>3. CASE Settle(c) /\ call[c].target = "APPROVED"
        <4>1. /\ wallet'[k] = ConsumeHold(wallet[k], d) /\ call'[c].at = "save"
              /\ call'[c].effect = "consume" /\ call'[c].days = d
          BY <1>0, <3>3 DEF Settle, OrderlyInv, TypeOK, CallStates
        <4>2. Before(wallet'[k], call'[c]) = ConsumeHold(ConsumeHold(wallet[k], d), -d)
          BY <4>1 DEF Before
        <4> QED
          BY <3>1, <4>2, TakenBack
      <3>4. CASE Settle(c) /\ call[c].target # "APPROVED"
        <4>1. /\ wallet'[k] = ReleaseHold(wallet[k], d) /\ call'[c].at = "save"
              /\ call'[c].effect = "release" /\ call'[c].days = d
          BY <1>0, <3>4 DEF Settle, OrderlyInv, TypeOK, CallStates
        <4>2. Before(wallet'[k], call'[c]) = Hold(ReleaseHold(wallet[k], d), d)
          BY <4>1 DEF Before
        <4> QED
          BY <3>1, <4>2, TakenBack
      <3> QED
        BY <1>2, <3>2, <3>3, <3>4
    <2>5. /\ call'[c].key = k
          /\ \A key \in Keys : key # k => wallet'[key] = wallet[key]
      BY <1>0, <1>2 DEF ApplyHold, Settle, OrderlyInv, TypeOK, CallStates
    <2>6. ASSUME NEW key \in Keys PROVE Seen(key)' = Seen(key)
      <3>1. Seen(key) = Plain(IF k = key THEN Before(wallet[key], call[c])
                                         ELSE wallet[key])
        BY <2>1, SeenRunning DEF Working
      <3>2. Seen(key)' = Plain(IF call'[c].key = key
                               THEN Before(wallet'[key], call'[c]) ELSE wallet'[key])
        BY <2>2, SeenAfter DEF Working
      <3> QED
        BY <2>3, <2>4, <2>5, <3>1, <3>2
    <2> QED
      BY <2>1, <2>6, Unseen
  <1> QED
    BY <1>1, <1>2

\* A handler that writes its request is seen: the ledger gets its balance write.
LEMMA HandlerSeen ==
    ASSUME OrderlyInv, NEW c \in Calls, ApplyCreate(c) \/ Save(c)
    PROVE  /\ \A key \in Keys :
                Seen(key) = Plain(IF call[c].key = key THEN Before(wallet[key], call[c])
                                                       ELSE wallet[key])
           /\ \A key \in Keys : Seen(key)' = Plain(wallet[key])
           /\ Account' = [Account EXCEPT ![call[c].key] = Plain(wallet[call[c].key])]
  <1>0. call[c] \in CallStates /\ call[c].key \in Keys /\ Serial
    BY DEF OrderlyInv, Orderly, SerialInv, TypeOK, CallStates
  <1>1. /\ Running(c) /\ wallet' = wallet
        /\ \A e \in Calls \ {c} : call'[e] = call[e] /\ ~Running(e)
        /\ call'[c].at = "done"
    BY <1>0 DEF ApplyCreate, Save, Running, Serial, OrderlyInv, TypeOK, CallStates
  <1>2. \A key \in Keys :
            Seen(key) = Plain(IF call[c].key = key THEN Before(wallet[key], call[c])
                                                   ELSE wallet[key])
    BY <1>1, SeenRunning DEF Working
  <1>3. \A e \in Calls : ~Running(e)'
    BY <1>1 DEF Running
  <1>4. \A key \in Keys : Seen(key)' = Plain(wallet[key])
    BY <1>1, <1>3, SeenAfter DEF Resting
  <1>5. Account' = [Account EXCEPT ![call[c].key] = Plain(wallet[call[c].key])]
    BY <1>0, <1>2, <1>4 DEF Account
  <1> QED
    BY <1>2, <1>4, <1>5

\* An account of the ledger, and what its actions make of it.
Entry(granted, used, pending) == [granted |-> granted, used |-> used, pending |-> pending]

LEMMA EntrySet ==
    ASSUME NEW a, NEW g, NEW u, NEW q, NEW n, a = Entry(g, u, q)
    PROVE  [a EXCEPT !.pending = n] = Entry(g, u, n)
  <1> DEFINE v == [a EXCEPT !.pending = n]
  <1>1. v = Entry(g, u, n)
    BY DEF Entry
  <1> QED
    BY <1>1

LEMMA EntryBlocks ==
    ASSUME NEW a, NEW g, NEW u, NEW q, NEW d, NEW n, NEW paid \in BOOLEAN,
           a = Entry(g, u, q), q + d = n
    PROVE  [a EXCEPT !.pending = IF paid THEN @ + d ELSE @]
             = Entry(g, u, IF paid THEN n ELSE q)
  <1>1. a.pending = q
    BY DEF Entry
  <1>2. [a EXCEPT !.pending = IF paid THEN @ + d ELSE @]
          = [a EXCEPT !.pending = IF paid THEN n ELSE q]
    BY <1>1
  <1>3. [a EXCEPT !.pending = IF paid THEN n ELSE q] = Entry(g, u, IF paid THEN n ELSE q)
    BY EntrySet
  <1> QED
    BY <1>2, <1>3

LEMMA EntryReleases ==
    ASSUME NEW a, NEW g, NEW u, NEW q, NEW d, NEW n, a = Entry(g, u, q), q - d = n
    PROVE  [a EXCEPT !.pending = @ - d] = Entry(g, u, n)
  <1>1. a.pending = q
    BY DEF Entry
  <1>2. [a EXCEPT !.pending = @ - d] = [a EXCEPT !.pending = n]
    BY <1>1
  <1>3. [a EXCEPT !.pending = n] = Entry(g, u, n)
    BY EntrySet
  <1> QED
    BY <1>2, <1>3

\* Two fields of one entry updated one after the other.
LEMMA TwoFields ==
    ASSUME NEW S, NEW f, f = [key \in S |-> f[key]], NEW k \in S, NEW d
    PROVE  [f EXCEPT ![k].pending = @ - d, ![k].used = @ + d]
             = [f EXCEPT ![k] = [f[k] EXCEPT !.pending = @ - d, !.used = @ + d]]
  <1> DEFINE h == [f EXCEPT ![k].pending = @ - d]
  <1>1. h = [f EXCEPT ![k] = [f[k] EXCEPT !.pending = @ - d]]
    OBVIOUS
  <1>2. [f EXCEPT ![k].pending = @ - d, ![k].used = @ + d] = [h EXCEPT ![k].used = @ + d]
    OBVIOUS
  <1>3. h[k] = [f[k] EXCEPT !.pending = @ - d]
    BY <1>1
  <1>4. [h EXCEPT ![k].used = @ + d] = [h EXCEPT ![k] = [h[k] EXCEPT !.used = @ + d]]
    OBVIOUS
  <1>5. [h EXCEPT ![k] = [h[k] EXCEPT !.used = @ + d]]
          = [f EXCEPT ![k] = [h[k] EXCEPT !.used = @ + d]]
    BY <1>1
  <1>6. [h[k] EXCEPT !.used = @ + d] = [f[k] EXCEPT !.pending = @ - d, !.used = @ + d]
    BY <1>3
  <1> QED
    BY <1>2, <1>4, <1>5, <1>6

\* The ledger's account of a balance, with the write of a handler taken back.
LEMMA PlainEntry ==
    ASSUME NEW w \in Wallets, NEW d \in Nat
    PROVE  LET g == w.allocated + w.carried
           IN  /\ Plain(w) = Entry(g, w.used, w.pending)
               /\ Plain(Hold(w, d)) = Entry(g, w.used, w.pending + d)
               /\ Plain(ReleaseHold(w, d)) = Entry(g, w.used, w.pending - d)
               /\ Plain(ConsumeHold(w, -d)) = Entry(g, w.used - d, w.pending + d)
  <1>1. d \in Int /\ -d \in Int /\ w.used \in Int /\ w.pending \in Int
    BY DEF Wallets
  <1>2. Balance(Hold(w, d), w.allocated, w.carried, w.used, w.pending + d)
    BY <1>1, UpdatedFields
  <1>3. Balance(ReleaseHold(w, d), w.allocated, w.carried, w.used, w.pending - d)
    BY <1>1, UpdatedFields
  <1>4. Balance(ConsumeHold(w, -d), w.allocated, w.carried, w.used + (-d), w.pending - (-d))
    BY <1>1, UpdatedFields
  <1>5. w.used + (-d) = w.used - d /\ w.pending - (-d) = w.pending + d
    BY <1>1
  <1> QED
    BY <1>2, <1>3, <1>4, <1>5 DEF Plain, Entry, Balance

\* Creating a request is the ledger's application.
LEMMA CreateMapped ==
    ASSUME OrderlyInv, NEW c \in Calls, ApplyCreate(c),
           NEW r \in ReqIds, r = call[c].req
    PROVE  Ledger!Apply(r)
  <1> DEFINE k == call[c].key
             d == call[c].days
             w == wallet[k]
             stage == IF call[c].routed THEN "PENDING_MANAGER" ELSE "PENDING_HR"
  <1>0. /\ call[c] \in CallStates /\ k \in Keys /\ d \in Nat /\ r \in ReqIds
        /\ w \in Wallets /\ call[c].at = "create" /\ d \in Durations
        /\ request[r].status = "NONE"
        /\ HoldsBalance(k) => call[c].effect = "hold" /\ Available(w) >= 0
        /\ call[c].effect # "none" => HoldsBalance(k)
    BY DEF OrderlyInv, Orderly, SerialInv, LedgerInv, PricedCall, Priced, InFlight,
           Coherent, ApplyCreate, TypeOK, CallStates
  <1>1. Before(w, call[c]) = IF HoldsBalance(k) THEN ReleaseHold(w, d) ELSE w
    BY <1>0 DEF Before
  <1>2. /\ Seen(k) = Plain(IF HoldsBalance(k) THEN ReleaseHold(w, d) ELSE w)
        /\ Account' = [Account EXCEPT ![k] = Plain(w)]
    BY <1>0, <1>1, HandlerSeen
  <1>3. [Seen(k) EXCEPT !.pending = IF HoldsBalance(k) THEN @ + d ELSE @] = Plain(w)
    <2> DEFINE g == w.allocated + w.carried
               q == IF HoldsBalance(k) THEN w.pending - d ELSE w.pending
    <2>1. /\ Seen(k) = Entry(g, w.used, q)
          /\ Plain(w) = Entry(g, w.used, w.pending)
      <3> HIDE DEF w, d, k
      <3> QED
        BY <1>0, <1>2, PlainEntry
    <2>2. w.pending - d + d = w.pending
      BY <1>0 DEF Wallets
    <2>3. HoldsBalance(k) \in BOOLEAN
      BY DEF HoldsBalance
    <2> HIDE DEF w, d, k, g
    <2>4. [Seen(k) EXCEPT !.pending = IF HoldsBalance(k) THEN @ + d ELSE @]
            = Entry(g, w.used, IF HoldsBalance(k) THEN q + d ELSE q)
      <3> HIDE DEF q
      <3> QED
        BY <2>1, <2>3, EntryBlocks
    <2> QED
      BY <2>1, <2>2, <2>4
  <1>4. Account' = [Account EXCEPT ![k].pending = IF HoldsBalance(k) THEN @ + d ELSE @]
    BY <1>0, <1>2, <1>3 DEF Account
  <1>5. HoldsBalance(k) => Ledger!Available(Account[k]) >= d
    <2> SUFFICES ASSUME HoldsBalance(k) PROVE Ledger!Available(Account[k]) >= d
      OBVIOUS
    <2>1. Account[k] = Plain(ReleaseHold(w, d))
      BY <1>0, <1>2 DEF Account
    <2>2. Balance(ReleaseHold(w, d), w.allocated, w.carried, w.used, w.pending - d)
      <3> HIDE DEF w, d
      <3> QED
        BY <1>0, UpdatedFields
    <2>3. /\ w.allocated \in Nat /\ w.carried \in Nat /\ w.used \in Int
          /\ w.pending \in Int /\ Available(w) >= 0
      BY <1>0 DEF Wallets
    <2> HIDE DEF w, d
    <2> QED
      BY <1>0, <2>1, <2>2, <2>3 DEF Ledger!Available, Available, Plain, Balance
  <1>6. Claim' = [Claim EXCEPT ![r] = [key |-> k, days |-> d, status |-> stage]]
    BY <1>0 DEF ApplyCreate, Claim, OrderlyInv, TypeOK
  <1>7. Claim[r].status = "NONE" /\ stage \in Ledger!Open
    BY <1>0 DEF Claim, Ledger!Open
  <1>8. k \in {key \in Keys : HoldsBalance(key)} <=> HoldsBalance(k)
    BY <1>0
  <1> HIDE DEF k, d, stage, w
  <1>9. Account' = [Account EXCEPT ![k].pending =
                      IF k \in {key \in Keys : HoldsBalance(key)} THEN @ + d ELSE @]
    BY <1>4, <1>8
  <1>10. \E key \in Keys, days \in Durations, first \in Ledger!Open :
           /\ Claim[r].status = "NONE"
           /\ key \in {key_1 \in Keys : HoldsBalance(key_1)} =>
                Ledger!Available(Account[key]) >= days
           /\ Claim' = [Claim EXCEPT ![r] = [key |-> key, days |-> days, status |-> first]]
           /\ Account' = [Account EXCEPT ![key].pending =
                            IF key \in {key_1 \in Keys : HoldsBalance(key_1)}
                            THEN @ + days ELSE @]
    <2> k \in Keys /\ d \in Durations /\ stage \in Ledger!Open
      BY <1>0, <1>7
    <2> WITNESS k \in Keys, d \in Durations, stage \in Ledger!Open
    <2> QED
      BY <1>5, <1>6, <1>7, <1>8, <1>9
  <1> QED
    BY <1>10 DEF Ledger!Apply, Account, Claim

\* Saving a decision is the ledger's passing on, approving or closing.
LEMMA SaveMapped ==
    ASSUME OrderlyInv, NEW c \in Calls, Save(c),
           NEW r \in ReqIds, r = call[c].req
    PROVE  Ledger!Pass(r) \/ Ledger!Approve(r) \/ Ledger!Close(r)
  <1> DEFINE k == call[c].key
             w == wallet[k]
             d == call[c].days
             days == IF HoldsBalance(k) THEN d ELSE 0
             target == call[c].target
             g == w.allocated + w.carried
  <1>0. /\ call[c] \in CallStates /\ k \in Keys /\ d \in Nat /\ r \in ReqIds
        /\ w \in Wallets /\ w.used \in Int /\ w.pending \in Int
        /\ call[c].at = "save" /\ call[c].op \in Deciding
        /\ request[r].key = k /\ request[r].days = d
        /\ Decides(request[r], call[c].op, target, call[c].step)
        /\ HoldsBalance(k) /\ target = "APPROVED" => call[c].effect = "consume"
        /\ HoldsBalance(k) /\ target \in Closed => call[c].effect = "release"
        /\ ~HoldsBalance(k) => call[c].effect = "none"
        /\ target = "PENDING_HR" => call[c].effect = "none"
    <2>1. /\ Coherent(call[c], request[r]) /\ FreshCall(c) /\ PricedCall(c)
          /\ EffectShape(c) /\ call[c].at = "save" /\ call[c] \in CallStates
      BY DEF OrderlyInv, Orderly, SerialInv, LedgerInv, SettledInv, InFlight, Save, TypeOK
    <2>2. /\ w \in Wallets /\ k \in Keys /\ w.used \in Int /\ w.pending \in Int
      BY <2>1 DEF OrderlyInv, TypeOK, CallStates, Wallets
    <2> QED
      BY <2>1, <2>2 DEF Coherent, FreshCall, Fresh, PricedCall, Priced, EffectShape,
                        CallStates, Deciding, Open
  <1>1. /\ Seen(k) = Plain(Before(w, call[c]))
        /\ Account' = [Account EXCEPT ![k] = Plain(w)]
    BY <1>0, HandlerSeen
  <1>2. Account[k] = Seen(k)
    BY <1>0 DEF Account
  <1>3. Claim' = [Claim EXCEPT ![r].status = target]
    <2>1. /\ Claim'[r].key = Claim[r].key /\ Claim'[r].days = Claim[r].days
          /\ Claim'[r].status = target
      BY SMTT(30), <1>0 DEF Save, Saved, Claim, OrderlyInv, TypeOK, Requests
    <2>2. \A q \in ReqIds : q # r => Claim'[q] = Claim[q]
      BY <1>0 DEF Save, Claim, OrderlyInv, TypeOK
    <2> QED
      BY ZenonT(40), <1>0, <2>1, <2>2 DEF Claim
  <1>4. Claim[r].key = k /\ Claim[r].days = d /\ Claim[r].status = request[r].status
    BY <1>0 DEF Claim
  <1>5. (IF Claim[r].key \in {key \in Keys : HoldsBalance(key)}
         THEN Claim[r].days ELSE 0) = days
    BY <1>0, <1>4
  <1>6. CASE target = "PENDING_HR"
    <2>1. Account' = Account
      BY <1>0, <1>1, <1>2, <1>6 DEF Before, Account
    <2>2. Claim[r].status = "PENDING_MANAGER"
      BY <1>0, <1>4, <1>6 DEF Decides, Deciding
    <2>3. Ledger!Pass(r)
      BY <1>3, <1>6, <2>1, <2>2 DEF Ledger!Pass, Ledger!Move, Account, Claim
    <2> QED
      BY <2>3
  <1>7. CASE target = "APPROVED"
    <2>1. Claim[r].status = "PENDING_HR"
      BY <1>0, <1>4, <1>7 DEF Decides, Deciding
    <2>2. Seen(k) = Entry(g, w.used - days, w.pending + days)
      <3>1. Before(w, call[c]) = IF HoldsBalance(k) THEN ConsumeHold(w, -d) ELSE w
        BY <1>0, <1>7 DEF Before
      <3>2. w.used - 0 = w.used /\ w.pending + 0 = w.pending
        BY <1>0
      <3> HIDE DEF w, d, k
      <3> QED
        BY <1>0, <1>1, <3>1, <3>2, PlainEntry
    <2>3. [Seen(k) EXCEPT !.pending = @ - days, !.used = @ + days] = Plain(w)
      <3>1. Plain(w) = Entry(g, w.used, w.pending)
        <4> HIDE DEF w, d
        <4> QED
          BY <1>0, PlainEntry
      <3>2. w.used - days + days = w.used /\ w.pending + days - days = w.pending
        BY <1>0
      <3> DEFINE a == Seen(k)
                 u == w.used - days
                 q == w.pending + days
                 v == [a EXCEPT !.pending = @ - days]
      <3>3. a = Entry(g, u, q)
        <4> HIDE DEF days, g, w, k
        <4> QED
          BY <2>2
      <3>4. q - days = w.pending /\ u + days = w.used
        BY <1>0
      <3>5. [a EXCEPT !.pending = @ - days, !.used = @ + days]
              = [v EXCEPT !.used = @ + days]
        OBVIOUS
      <3> HIDE DEF a, u, q, g, days, w
      <3>6. v = Entry(g, u, w.pending)
        BY <3>3, <3>4, EntryReleases
      <3> HIDE DEF v
      <3>7. [v EXCEPT !.used = @ + days] = Entry(g, w.used, w.pending)
        BY <3>4, <3>6 DEF Entry
      <3> QED
        BY <3>1, <3>5, <3>7 DEF a
    <2>4. Account' = [Account EXCEPT ![k].pending = @ - days, ![k].used = @ + days]
      <3>1. Account = [key \in Keys |-> Account[key]]
        BY DEF Account
      <3> HIDE DEF days, k, w
      <3> QED
        BY <1>0, <1>1, <1>2, <2>3, <3>1, TwoFields
    <2>5. Ledger!Approve(r)
      <3> HIDE DEF days, k, target
      <3>1. Claim' = [Claim EXCEPT ![r].status = "APPROVED"]
        BY <1>3, <1>7
      <3> QED
        BY <1>4, <1>5, <2>1, <2>4, <3>1
           DEF Ledger!Approve, Ledger!Move, Ledger!Days, Account, Claim
    <2> QED
      BY <2>5
  <1>8. CASE target \in Closed
    <2>1. Claim[r].status \in Ledger!Open
      BY <1>0, <1>4, <1>8 DEF Decides, Open, Ledger!Open
    <2>2. Seen(k) = Entry(g, w.used, w.pending + days)
      <3>1. Before(w, call[c]) = IF HoldsBalance(k) THEN Hold(w, d) ELSE w
        BY <1>0, <1>8 DEF Before
      <3>2. w.pending + 0 = w.pending
        BY <1>0
      <3> HIDE DEF w, d, k
      <3> QED
        BY <1>0, <1>1, <3>1, <3>2, PlainEntry
    <2>3. [Seen(k) EXCEPT !.pending = @ - days] = Plain(w)
      <3>1. Plain(w) = Entry(g, w.used, w.pending)
        <4> HIDE DEF w, d
        <4> QED
          BY <1>0, PlainEntry
      <3>2. w.pending + days - days = w.pending
        BY <1>0
      <3> DEFINE a == Seen(k)
                 q == w.pending + days
      <3>3. a = Entry(g, w.used, q)
        <4> HIDE DEF days, g, w, k
        <4> QED
          BY <2>2
      <3>4. q - days = w.pending
        BY <1>0
      <3> HIDE DEF a, q, g, days, w
      <3>5. [a EXCEPT !.pending = @ - days] = Entry(g, w.used, w.pending)
        BY <3>3, <3>4, EntryReleases
      <3> QED
        BY <3>1, <3>5 DEF a
    <2>4. Account' = [Account EXCEPT ![k].pending = @ - days]
      <3> HIDE DEF days, k, w
      <3> QED
        BY <1>1, <1>2, <2>3
    <2>5. Ledger!Close(r)
      <3>0. target \in Ledger!Closed
        BY <1>8 DEF Closed, Ledger!Closed
      <3> HIDE DEF days, k, target
      <3>1. \E status \in Ledger!Closed : Claim' = [Claim EXCEPT ![r].status = status]
        BY <1>3, <3>0
      <3> QED
        BY <1>4, <1>5, <2>1, <2>4, <3>1
           DEF Ledger!Close, Ledger!Move, Ledger!Days, Account, Claim
    <2> QED
      BY <2>5
  <1>9. target \in {"PENDING_HR", "APPROVED"} \cup Closed
    BY <1>0 DEF Decides, Deciding, Closed
  <1> QED
    BY <1>6, <1>7, <1>8, <1>9

\* HR's assignment is the ledger's grant: it comes when no handler runs.
LEMMA GrantMapped ==
    ASSUME OrderlyInv, AssignBalance
    PROVE  Ledger!Grant
  <1> USE AmountsAssumption, LeaveAssumption
  <1>1. /\ \A c \in Calls : ~Running(c)
        /\ \A c \in Calls : ~Running(c)'
    BY StartsAlone DEF OrderlyInv, Orderly, SerialInv, AssignBalance, Running
  <1>2. \A key \in Keys : /\ Seen(key) = Plain(wallet[key])
                          /\ Seen(key)' = Plain(wallet'[key])
    BY <1>1, SeenIdle, SeenAfter DEF Resting, Plain
  <1>3. PICK k \in Keys, a \in Assignments :
          wallet' = [wallet EXCEPT ![k] = Assign(wallet[k], a)]
    BY DEF AssignBalance
  <1> DEFINE w == wallet[k]
             x == Assign(w, a)
             granted == a.allocated + (IF a.carried = Keep THEN w.carried ELSE a.carried)
             used == IF a.used = Keep THEN w.used ELSE a.used
  <1>4. w \in Wallets /\ w.carried \in Carried /\ a \in Assignment
    BY DEF OrderlyInv, LedgerInv, Orderly, TypeOK
  <1>5. granted \in Amounts /\ used \in {Seen(k).used} \cup Amounts
    <2>1. Seen(k).used = w.used
      BY <1>2 DEF Plain
    <2>2. (IF a.carried = Keep THEN w.carried ELSE a.carried) \in Carried
      BY <1>4 DEF Carried
    <2>3. granted \in Amounts
      <3> DEFINE n == IF a.carried = Keep THEN w.carried ELSE a.carried
      <3>1. n \in Carried
        BY <2>2
      <3> HIDE DEF n
      <3>2. a.allocated + n \in Amounts
        BY <3>1
      <3> QED
        BY <3>2 DEF n
    <2>4. a.used # Keep => a.used \in Amounts
      OBVIOUS
    <2> QED
      BY <2>1, <2>3, <2>4
  <1>6. Plain(x) = Entry(granted, used, w.pending)
    <2>1. /\ x.allocated = a.allocated /\ x.used = used /\ x.pending = w.pending
          /\ x.carried = IF a.carried = Keep THEN w.carried ELSE a.carried
      BY <1>4 DEF Assign, Wallets
    <2> QED
      BY <2>1 DEF Plain, Entry
  <1>7. [Seen(k) EXCEPT !.granted = granted, !.used = used] = Entry(granted, used, w.pending)
    <2>1. Seen(k) = Plain(w)
      BY <1>2
    <2> DEFINE e == Seen(k)
               v == [e EXCEPT !.granted = granted]
    <2>2. [e EXCEPT !.granted = granted, !.used = used] = [v EXCEPT !.used = used]
      OBVIOUS
    <2> HIDE DEF granted, used, w, e
    <2>3. v = Entry(granted, w.used, w.pending)
      BY <2>1 DEF Plain, Entry, e
    <2> HIDE DEF v
    <2>4. [v EXCEPT !.used = used] = Entry(granted, used, w.pending)
      BY <2>3 DEF Entry
    <2> QED
      BY <2>2, <2>4 DEF e
  <1>8. Account' = [Account EXCEPT ![k] = Plain(x)]
    BY <1>2, <1>3 DEF Account, OrderlyInv, TypeOK
  <1>9. [Account EXCEPT ![k].granted = granted, ![k].used = used]
          = [Account EXCEPT ![k] = [Seen(k) EXCEPT !.granted = granted, !.used = used]]
    <2> DEFINE h == [Account EXCEPT ![k].granted = granted]
    <2> HIDE DEF granted, used
    <2>1. h = [Account EXCEPT ![k] = [Seen(k) EXCEPT !.granted = granted]]
      BY DEF Account
    <2>2. [h EXCEPT ![k].used = used]
            = [Account EXCEPT ![k] = [Seen(k) EXCEPT !.granted = granted, !.used = used]]
      BY <2>1 DEF Account
    <2> QED
      BY <2>2
  <1>10. Account' = [Account EXCEPT ![k].granted = granted, ![k].used = used]
    BY <1>6, <1>7, <1>8, <1>9
  <1>11. used \in {Account[k].used} \cup Amounts
    BY <1>5 DEF Account
  <1> HIDE DEF granted, used
  <1>12. UNCHANGED Claim
    BY DEF AssignBalance, Claim
  <1>13. \E key \in Keys, days \in Amounts :
           \E spent \in {Account[key].used} \cup Amounts :
              Account' = [Account EXCEPT ![key].granted = days, ![key].used = spent]
    <2> k \in Keys /\ granted \in Amounts /\ used \in {Account[k].used} \cup Amounts
      BY <1>5, <1>11
    <2> WITNESS k \in Keys, granted \in Amounts
    <2> WITNESS used \in {Account[k].used} \cup Amounts
    <2> QED
      BY <1>10
  <1> QED
    BY ZenonT(40), <1>12, <1>13 DEF Ledger!Grant, Account, Claim

\* Each step of the handlers is one step of the ledger, or one it does not see.
LEMMA StepMapped ==
    OrderlyInv /\ Orderly' /\ [Next]_vars => [Ledger!Next]_(Ledger!ledger)
  <1> SUFFICES ASSUME OrderlyInv, Orderly', [Next]_vars
               PROVE  Ledger!Next \/ UNCHANGED Ledger!ledger
    OBVIOUS
  <1>1. ASSUME NEW c \in Calls,
               \/ ApplyRead(c) \/ ApplyHold(c) \/ ManagerRead(c) \/ HrRead(c)
               \/ CancelRead(c) \/ Settle(c)
        PROVE  UNCHANGED Ledger!ledger
    BY <1>1, HandlerUnseen
  <1>2. ASSUME NEW c \in Calls, ApplyCreate(c) \/ Save(c)
        PROVE  Ledger!Next
    <2>1. PICK r \in ReqIds : r = call[c].req
      BY DEF OrderlyInv, TypeOK, CallStates
    <2>2. CASE ApplyCreate(c)
      <3>1. Ledger!Apply(r)
        BY <2>1, <2>2, CreateMapped
      <3> QED
        BY <2>1, <3>1 DEF Ledger!Next
    <2>3. CASE Save(c)
      <3>1. Ledger!Pass(r) \/ Ledger!Approve(r) \/ Ledger!Close(r)
        BY <2>1, <2>3, SaveMapped
      <3> QED
        BY <2>1, <3>1 DEF Ledger!Next
    <2> QED
      BY <1>2, <2>2, <2>3
  <1>3. ASSUME NEW c \in Calls, Abort(c) PROVE FALSE
    BY <1>3 DEF Abort, Orderly, OrderlyInv, TypeOK
  <1>4. CASE AssignBalance
    BY <1>4, GrantMapped DEF Ledger!Next
  <1>5. CASE ToggleLeaveType \/ ReassignManager \/ UNCHANGED vars
    <2>1. wallet' = wallet /\ request' = request /\ call' = call
      BY <1>5 DEF ToggleLeaveType, ReassignManager, vars
    <2>2. \A key \in Keys : Seen(key)' = Seen(key)
      BY <2>1 DEF Seen, Running, Before
    <2> QED
      BY <2>1, <2>2, Unseen
  <1> QED
    BY <1>1, <1>2, <1>3, <1>4, <1>5 DEF Next

\* A handler asks for a duration on offer and writes balances of paid types
\* only; carried days are always ones that HR assigned.
THEOREM HandlersPriced == Spec => []LedgerInv
  <1> QED
    BY LedgerInit, LedgerStep, TypeCorrect, HandlersCoherent, HandlersFresh, PTL DEF Spec

\* Handlers that run one after the other, none of which stops half way,
\* implement the ledger: a request and its balance change together, an
\* application only when the balance covers it.
THEOREM HandlersImplementLedger == Spec /\ []Orderly => Ledger!Spec
  <1>1. Init => Ledger!Init
    BY InitMapped
  <1>2. OrderlyInv /\ Orderly' /\ [Next]_vars => [Ledger!Next]_(Ledger!ledger)
    BY StepMapped
  <1>3. Spec /\ []Orderly => []OrderlyInv
    BY TypeCorrect, HandlersCoherent, HandlersFresh, BalancesAccounted, HandlersPriced,
       PTL DEF OrderlyInv
  <1> QED
    BY <1>1, <1>2, <1>3, PTL DEF Spec, Ledger!Spec
=============================================================================
