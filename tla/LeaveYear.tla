----------------------------- MODULE LeaveYear -----------------------------
(***************************************************************************)
(* The turn of a leave year for one employee: the wallets that are made    *)
(* for it with what last year left, wallets assigned by hand, and the      *)
(* restricted holidays that are picked (LeaveService).                     *)
(*                                                                         *)
(* Requests of leave are LeaveRequests' matter; here they only use wallets.*)
(***************************************************************************)
EXTENDS Integers, FiniteSets, Sequences, SequencesExt

CONSTANT Calls  \* slots for handlers that run at the same time

VARIABLES wallets,   \* of a year and a leave type: the wallet, if there is one
          holidays,  \* of each holiday: its state, type and year
          opts,      \* restricted holidays picked, each under a year
          limit,     \* of a year: how many may be picked
          call, aborts, regime

vars == <<wallets, holidays, opts, limit, call, aborts, regime>>

Past == 1
This == 2
Years == {Past, This}
LeaveTypes == {"EL", "SL"}
Holidays == {"onam", "holi"}

\* The defaults of the types, smaller than the code's.
defaultAllocation == [EL |-> 2, SL |-> 1]
carryForwardAllowed == [EL |-> TRUE, SL |-> FALSE]
maxCarryForward == [EL |-> 1, SL |-> 0]
MostDays == 2

None == [exists |-> FALSE, allocated |-> 0, carried |-> 0, used |-> 0, pending |-> 0]
Wallet(allocated, carried) ==
    [None EXCEPT !.exists = TRUE, !.allocated = allocated, !.carried = carried]

TypeOK ==
    /\ wallets \in [Years \X LeaveTypes ->
                       [exists: BOOLEAN, allocated: Nat, carried: Nat, used: Nat, pending: Nat]]
    /\ opts \subseteq [holiday: Holidays, year: Years]
    /\ limit \in [Years -> 0..2]

-----------------------------------------------------------------------------
Idle == [at |-> "idle"]

Room(handler) ==
    /\ handler \in regime.handlers
    /\ Cardinality({d \in Calls : call[d].at # "idle"}) < regime.width

Begin(c, handler, k) ==
    /\ Room(handler)
    /\ call[c].at = "idle"
    /\ call' = [call EXCEPT ![c] = k]

Go(c, k) == call' = [call EXCEPT ![c] = k]
End(c) == call' = [call EXCEPT ![c] = Idle]

SameWallets == UNCHANGED <<wallets, aborts, regime>>
SameHolidays == UNCHANGED <<holidays, opts, limit>>
SameOpts == UNCHANGED <<wallets, limit, aborts, regime>>

-----------------------------------------------------------------------------
(* The wallets of a year *)

Left(w) == w.allocated + w.carried - w.used - w.pending
Within(low, i, high) == IF i < low \/ high < low THEN low ELSE IF i > high THEN high ELSE i

\* Faulty variant: days that are asked for are not taken off.
computeCarryEarly(t) ==
    LET w == wallets[Past, t]
    IN  IF carryForwardAllowed[t] /\ w.exists
        THEN Within(0, Left(w) + w.pending, maxCarryForward[t]) ELSE 0

\* What is carried from last year's wallet, capped.
computeCarry(t) ==
    IF carryForwardAllowed[t] /\ wallets[Past, t].exists
    THEN Within(0, Left(wallets[Past, t]), maxCarryForward[t]) ELSE 0

\* The active types are read once; their wallets are looked for one by one.
SeedRead(c) ==
    /\ \E overwrite \in BOOLEAN :
          Begin(c, "seed", [at |-> "seed", todo |-> SetToSeq(regime.active),
                            overwrite |-> overwrite, carry |-> 0])
    /\ SameWallets /\ SameHolidays

Type(c) == Head(call[c].todo)
Seeding(c, at) == call[c].at = at /\ call[c].todo # <<>>
NextType(c) == Go(c, [call[c] EXCEPT !.at = "seed", !.todo = Tail(@)])

\* Faulty variant: the run ends at the first wallet that it need not make.
NothingMore(c) == End(c)

NothingToDo(c) == NextType(c)

SeedLook(c) ==
    LET w == wallets[This, Type(c)]
    IN  /\ Seeding(c, "seed")
        /\ \/ ~w.exists /\ Go(c, [call[c] EXCEPT !.at = "carry"])
           \/ /\ w.exists /\ call[c].overwrite /\ w.allocated # defaultAllocation[Type(c)]
              /\ Go(c, [call[c] EXCEPT !.at = "reset"])
           \/ /\ w.exists /\ ~(call[c].overwrite /\ w.allocated # defaultAllocation[Type(c)])
              /\ NothingToDo(c)
        /\ SameWallets /\ SameHolidays

\* Faulty variant: the wallet is made anew.
ResetAnew(t) == Wallet(defaultAllocation[t], wallets[This, t].carried)

\* Only the allocation is set.
Reset(t) == [wallets[This, t] EXCEPT !.allocated = defaultAllocation[t]]

SeedReset(c) ==
    /\ Seeding(c, "reset")
    /\ wallets' = [wallets EXCEPT ![This, Type(c)] = Reset(Type(c))]
    /\ NextType(c)
    /\ UNCHANGED <<aborts, regime>> /\ SameHolidays

SeedCarry(c) ==
    /\ Seeding(c, "carry")
    /\ Go(c, [call[c] EXCEPT !.at = "create", !.carry = computeCarry(Type(c))])
    /\ SameWallets /\ SameHolidays

\* A wallet that somebody else made meanwhile ends the run: the key is unique.
SeedCreate(c) ==
    /\ Seeding(c, "create")
    /\ IF wallets[This, Type(c)].exists THEN End(c) /\ UNCHANGED wallets
       ELSE /\ wallets' = [wallets EXCEPT ![This, Type(c)] =
                              Wallet(defaultAllocation[Type(c)], call[c].carry)]
            /\ NextType(c)
    /\ UNCHANGED <<aborts, regime>> /\ SameHolidays

SeedEnd(c) ==
    call[c].at = "seed" /\ call[c].todo = <<>> /\ End(c) /\ SameWallets /\ SameHolidays

\* HR sets a wallet, which is made if there is none, and what was used if they say so.
assignBalance ==
    /\ Room("assign")
    /\ \E y \in Years, t \in regime.active, allocated \in {0, MostDays} :
          \E carried \in {wallets[y, t].carried, 1}, used \in {wallets[y, t].used, 1} :
              wallets' = [wallets EXCEPT ![y, t] =
                  [@ EXCEPT !.exists = TRUE, !.allocated = allocated,
                            !.carried = carried, !.used = used]]
    /\ UNCHANGED <<call, aborts, regime>> /\ SameHolidays

\* Once this year has its wallets, last year's are done with unless the regime is late.
MayUse(y, t) ==
    y = This \/ regime.late \/ (~wallets[This, t].exists /\ \A c \in Calls : call[c].at = "idle")

\* A request of a day is submitted, approved, or refused; the type that carries
\* days over stands for all.
UseWallet ==
    /\ "use" \in regime.handlers
    /\ \E y \in Years, t \in {"EL"} :
          LET w == wallets[y, t]
          IN  /\ w.exists /\ MayUse(y, t)
              /\ \/ Left(w) > 0 /\ wallets' = [wallets EXCEPT ![y, t].pending = @ + 1]
                 \/ w.pending > 0 /\ wallets' = [wallets EXCEPT ![y, t].pending = @ - 1,
                                                                ![y, t].used = @ + 1]
                 \/ w.pending > 0 /\ wallets' = [wallets EXCEPT ![y, t].pending = @ - 1]
    /\ UNCHANGED <<call, aborts, regime>> /\ SameHolidays

-----------------------------------------------------------------------------
(* Restricted holidays *)

Picked(y) == {o \in opts : o.year = y}

\* Faulty variant: the limit may be passed by one.
RoomToPick(y) == Cardinality(Picked(y)) <= limit[y]

MayPick(y) == Cardinality(Picked(y)) < limit[y]

AvailRead(c) ==
    /\ \E h \in Holidays :
          /\ holidays[h].state = "live" /\ holidays[h].type = "RESTRICTED"
          /\ ~\E o \in opts : o.holiday = h
          /\ MayPick(holidays[h].year)
          /\ Begin(c, "avail", [at |-> "avail", holiday |-> h, year |-> holidays[h].year])
    /\ SameWallets /\ SameHolidays

\* Faulty variant: nothing keeps a holiday from being picked twice.
Twice(h) == FALSE

\* A holiday that was picked meanwhile is refused: the key is unique.
Taken(h) == \E o \in opts : o.holiday = h

AvailCreate(c) ==
    /\ call[c].at = "avail"
    /\ opts' = IF Taken(call[c].holiday) THEN opts
               ELSE opts \cup {[holiday |-> call[c].holiday, year |-> call[c].year]}
    /\ End(c)
    /\ SameOpts /\ UNCHANGED holidays

cancelRestrictedHoliday ==
    /\ Room("cancel")
    /\ \E o \in opts : opts' = opts \ {o}
    /\ SameOpts /\ UNCHANGED <<holidays, call>>

\* A holiday is switched on or off, moved to another year, or changes its type.
updateHoliday ==
    /\ \E h \in Holidays :
          /\ holidays[h].state # "deleted"
          /\ \/ /\ Room("toggle")
                /\ holidays' = [holidays EXCEPT ![h].state = IF @ = "live" THEN "off" ELSE "live"]
             \/ /\ Room("change")
                /\ \E y \in Years, type \in {"RESTRICTED", "FIXED"} :
                      holidays' = [holidays EXCEPT ![h].year = y, ![h].type = type]
    /\ SameOpts /\ UNCHANGED <<opts, call>>

DeleteHoliday(c) ==
    /\ \E h \in Holidays :
          /\ holidays[h].state # "deleted"
          /\ Begin(c, "delete", [at |-> "delete", holiday |-> h])
          /\ holidays' = [holidays EXCEPT ![h].state = "deleted"]
    /\ SameOpts /\ UNCHANGED opts

\* Faulty variant: the picks of a deleted holiday stay.
OptsKept(h) == opts

OptsLeft(h) == {o \in opts : o.holiday # h}

DeleteOpts(c) ==
    /\ call[c].at = "delete"
    /\ opts' = OptsLeft(call[c].holiday)
    /\ End(c)
    /\ SameOpts /\ UNCHANGED holidays

updateCalendar ==
    /\ Room("calendar")
    /\ \E y \in Years, n \in 0..2 : limit' = [limit EXCEPT ![y] = n]
    /\ UNCHANGED <<wallets, holidays, opts, call, aborts, regime>>

\* The server stops, and the handler with it.
Stop(c) ==
    /\ call[c].at # "idle" /\ aborts < regime.aborts
    /\ aborts' = aborts + 1
    /\ End(c)
    /\ UNCHANGED <<wallets, holidays, opts, limit, regime>>

Init ==
    /\ wallets \in [Years \X LeaveTypes -> {None, Wallet(MostDays, 0)}]
    /\ \A t \in LeaveTypes :
          /\ ~wallets[This, t].exists
          /\ wallets[Past, t].exists => "seed" \in regime.handlers
    /\ holidays = [h \in Holidays |-> [state |-> "live", type |-> "RESTRICTED", year |-> This]]
    /\ opts = {}
    /\ limit = [y \in Years |-> 1]
    /\ call = [c \in Calls |-> Idle]
    /\ aborts = 0

Next ==
    \/ assignBalance \/ UseWallet
    \/ cancelRestrictedHoliday \/ updateHoliday \/ updateCalendar
    \/ \E c \in Calls :
          \/ SeedRead(c) \/ SeedLook(c) \/ SeedReset(c) \/ SeedCarry(c) \/ SeedCreate(c)
          \/ SeedEnd(c) \/ AvailRead(c) \/ AvailCreate(c) \/ DeleteHoliday(c) \/ DeleteOpts(c)
          \/ Stop(c)

-----------------------------------------------------------------------------
Sequential == regime.width = 1

\* A day of last year is not both taken and carried, and no more days are carried
\* than the type allows, provided last year's wallets are done with when this
\* year's are made and nobody set one by hand (computeCarry).
NoDayTwice ==
    ~regime.late /\ "assign" \notin regime.handlers =>
        \A t \in LeaveTypes :
            /\ wallets[This, t].carried <= maxCarryForward[t]
            /\ wallets[This, t].carried > 0 => wallets[This, t].carried <= Left(wallets[Past, t])

\* A run of seeding that comes to its end leaves a wallet of every active type,
\* whoever made it (applyDefaultsToAll).
SeededStep ==
    \A c \in Calls :
        call[c].at = "seed" /\ aborts' = aborts /\ call'[c].at = "idle" =>
            \A t \in regime.active : wallets'[This, t].exists

\* What is used and asked for changes only as requests do, whoever resets the
\* wallet meanwhile (applyDefaultsToAll, assignBalance).
UseKeptStep ==
    \A y \in Years, t \in LeaveTypes :
        LET w == wallets[y, t]
            v == wallets'[y, t]
        IN  call' # call => v.used = w.used /\ v.pending = w.pending

\* One request at a time, a holiday that was deleted is nobody's pick: it would
\* use up the limit for good (deleteHoliday).
PicksExist ==
    Sequential /\ regime.aborts = 0 =>
        \A o \in opts :
            holidays[o.holiday].state = "deleted" => \E c \in Calls : call[c].at = "delete"

\* One request at a time, nobody picks beyond the limit of the year (availRestrictedHoliday).
PickStep ==
    Sequential => \A y \in Years :
        Picked(y)' \subseteq Picked(y) \/ Cardinality(Picked(y)') <= limit[y]

\* A holiday is picked once, under one year, even when it moves (availRestrictedHoliday).
PickedOnce == \A o, p \in opts : o.holiday = p.holiday => o = p
=============================================================================
