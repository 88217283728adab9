--------------------------- MODULE QuestionOrders ---------------------------
(***************************************************************************)
(* An order of questions: the mix of kinds it comes to, and the passes in  *)
(* which a model writes them (question-mix.util, generateQuestions).       *)
(*                                                                         *)
(* A mix says how many of each kind; 0 stands for a kind that is absent.   *)
(***************************************************************************)
EXTENDS Integers, Sequences, SequencesExt

VARIABLES order,  \* the order and how far it has come
          call, aborts, regime

vars == <<order, call, aborts, regime>>

QUESTION_TYPES == <<"SINGLE", "MULTI", "TRUE_FALSE", "FILL_BLANK">>
Kinds == {QUESTION_TYPES[i] : i \in 1..4}

BATCH_SIZE == 3
MAX_TOPUP_PASSES == 3
MAX_EMPTY_BATCHES == 3

TypeOK ==
    /\ order.mix \in [Kinds -> Nat] /\ order.have \in [Kinds -> Nat]
    /\ order.at \in {"writing", "done", "stopped", "failed"}
    /\ order.pass \in 0..MAX_TOPUP_PASSES

-----------------------------------------------------------------------------
(* Mixes *)

mixTotal(mix) == mix["SINGLE"] + mix["MULTI"] + mix["TRUE_FALSE"] + mix["FILL_BLANK"]

\* a / b, halves up; the code's floating point agrees for mixes of 30 questions or fewer.
Rounded(a, b) == (2 * a + b) \div (2 * b)
AtLeast(n, i) == IF i < n THEN n ELSE i

Mix(single, multi, trueFalse, fill) ==
    [k \in Kinds |-> CASE k = "SINGLE" -> single [] k = "MULTI" -> multi
                       [] k = "TRUE_FALSE" -> trueFalse [] OTHER -> fill]

defaultMix(total) ==
    LET trueFalse == AtLeast(1, Rounded(15 * total, 100))
        multi     == AtLeast(1, Rounded(total, 5))
        fill      == AtLeast(1, Rounded(total, 10))
        single    == total - trueFalse - multi - fill
    IN  CASE total <= 3 -> Mix(total, 0, 0, 0)
          [] total \in 4..6 -> Mix(total - 2, 1, 1, 0)
          [] OTHER -> IF single < 1 THEN Mix(total, 0, 0, 0)
                      ELSE Mix(single, multi, trueFalse, fill)

\* The kinds that a mix has, as the object's keys come: in the order of the types.
Keys(mix) == SelectSeq(QUESTION_TYPES, LAMBDA k : mix[k] > 0)

\* Every kind has its share, rounded, and the last one what is left.
Shares(total, requested) ==
    LET asked   == mixTotal(requested)
        rounded == [k \in Kinds |-> IF k = Last(Keys(requested)) THEN 0
                                    ELSE Rounded(requested[k] * total, asked)]
    IN  [rounded EXCEPT ![Last(Keys(requested))] = AtLeast(0, total - mixTotal(rounded))]

\* Shares that rounding made too many are taken off the first kind.
Settled(total, scaled) ==
    LET first == IF Keys(scaled) = <<>> THEN "SINGLE" ELSE Head(Keys(scaled))
    IN  [scaled EXCEPT ![first] = AtLeast(0, @ + total - mixTotal(scaled))]

\* Faulty variant: the last kind is rounded like the others.
RoundedMix(total, requested) ==
    IF mixTotal(requested) = 0 THEN defaultMix(total)
    ELSE [k \in Kinds |-> Rounded(requested[k] * total, mixTotal(requested))]

\* The mix that was asked for, scaled to the number of questions.
normalizeMix(total, requested) ==
    LET scaled == Settled(total, Shares(total, requested))
    IN  CASE mixTotal(requested) = 0 -> defaultMix(total)
          [] mixTotal(requested) = total -> requested
          [] OTHER -> IF mixTotal(scaled) = total THEN scaled ELSE defaultMix(total)

-----------------------------------------------------------------------------
(* Work to do *)

ByName == [FILL_BLANK |-> 1, MULTI |-> 2, SINGLE |-> 3, TRUE_FALSE |-> 4]

Before(mix, a, b) == mix[a] > mix[b] \/ (mix[a] = mix[b] /\ ByName[a] < ByName[b])

\* The count of one kind, cut into batches.
Slices(k, count) ==
    [i \in 1..((count + BATCH_SIZE - 1) \div BATCH_SIZE) |->
        [type |-> k, count |-> IF i * BATCH_SIZE <= count THEN BATCH_SIZE
                               ELSE count % BATCH_SIZE]]

\* Faulty variants: only whole batches are ordered; or the types come as they are listed.
mixToWholeSlices(mix) ==
    FlattenSeq([i \in 1..Len(Keys(mix)) |->
        SelectSeq(Slices(Keys(mix)[i], mix[Keys(mix)[i]]), LAMBDA s : s.count = BATCH_SIZE)])
mixToListedSlices(mix) ==
    FlattenSeq([i \in 1..Len(Keys(mix)) |-> Slices(Keys(mix)[i], mix[Keys(mix)[i]])])

\* The batches of a mix, the largest kind first.
mixToSlices(mix) ==
    LET kinds == SortSeq(Keys(mix), LAMBDA a, b : Before(mix, a, b))
    IN  FlattenSeq([i \in 1..Len(kinds) |-> Slices(kinds[i], mix[kinds[i]])])

\* Faulty variant: what there is already is ordered again.
outstandingAgain(wanted, have) == [k \in Kinds |-> IF have[k] < wanted[k] THEN wanted[k] ELSE 0]

\* What is still owed of each kind.
outstandingMix(wanted, have) == [k \in Kinds |-> AtLeast(0, wanted[k] - have[k])]

-----------------------------------------------------------------------------
Same == UNCHANGED <<call, aborts, regime>>

Order(total, requested) ==
    LET mix == normalizeMix(total, requested)
    IN  [total |-> total, asked |-> {k \in Kinds : requested[k] > 0}, mix |-> mix,
         have |-> [k \in Kinds |-> 0], at |-> "writing", pass |-> 0,
         slices |-> mixToSlices(mix), empty |-> 0, short |-> FALSE]

Writing == regime.run /\ order.at = "writing"
Asking == Writing /\ order.slices # <<>> /\ mixTotal(order.have) < order.total

\* A batch brings some of what it was asked for; the error of a provider is none.
Batch ==
    /\ Asking
    /\ LET slice == Head(order.slices)
       IN  \E n \in 0..slice.count :
              LET empty == IF n = 0 THEN order.empty + 1 ELSE 0
                  gone  == empty >= MAX_EMPTY_BATCHES /\ mixTotal(order.have) = 0
              IN  order' = [order EXCEPT
                    !.at = IF gone THEN "failed" ELSE @,
                    !.have[slice.type] = @ + n,
                    !.slices = Tail(@),
                    !.empty = IF gone THEN @ ELSE empty,
                    !.short = @ \/ n < slice.count]
    /\ Same

\* A cancelled run keeps what it has.
Stop ==
    Writing /\ order.slices # <<>> /\ order' = [order EXCEPT !.at = "stopped"] /\ Same

\* Faulty variant: the run settles for what the first pass brought.
MorePassesNever(owed) == FALSE

MorePasses(owed) == mixTotal(owed) > 0 /\ order.pass < MAX_TOPUP_PASSES

\* After a pass, what is owed is ordered again, a few times.
EndPass ==
    /\ Writing /\ ~Asking
    /\ LET owed == outstandingMix(order.mix, order.have)
       IN  order' = IF MorePasses(owed)
                    THEN [order EXCEPT !.pass = @ + 1, !.slices = mixToSlices(owed)]
                    ELSE [order EXCEPT !.at = "done", !.slices = <<>>]
    /\ Same

Init ==
    /\ \E total \in regime.totals, requested \in [Kinds -> 0..regime.most] :
          order = Order(total, requested)
    /\ call = 0 /\ aborts = 0

Next == Batch \/ Stop \/ EndPass

-----------------------------------------------------------------------------
\* An order comes to the number of questions that was asked for, and to no kind
\* that was not asked for when some were (normalizeMix).
MixAddsUp ==
    /\ mixTotal(order.mix) = order.total
    /\ order.asked # {} => \A k \in Kinds : order.mix[k] > 0 => k \in order.asked

\* However batches fall short, no kind gets more than was ordered (outstandingMix).
NeverMoreThanOrdered == \A k \in Kinds : order.have[k] <= order.mix[k]

\* Unless a batch is short, the batches bring all of the order, and a kind is
\* begun when every larger one is there (mixToSlices, the loop of generateQuestions).
LargestFirst ==
    ~order.short =>
        /\ order.at = "done" => order.have = order.mix
        /\ \A j, k \in Kinds :
              order.mix[j] > order.mix[k] /\ order.have[k] > 0 => order.have[j] = order.mix[j]

\* A run that ends short of its order has used every pass (generateQuestions).
ShortfallWasChased ==
    order.at = "done" /\ order.have # order.mix => order.pass = MAX_TOPUP_PASSES
=============================================================================
