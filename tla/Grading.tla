------------------------------ MODULE Grading ------------------------------
(***************************************************************************)
(* How a question is shown and an answer to it graded: the review of       *)
(* questions, the shuffle of options and the grade                         *)
(* (question-grading.util, getQuizForPlay, submitAttempt).                 *)
(*                                                                         *)
(* An option is its position in the stored question, from 0; -1 is none.   *)
(* A text is its normal form.                                              *)
(***************************************************************************)
EXTENDS Integers, FiniteSets, Sequences

VARIABLES question, sitting, call, aborts, regime

vars == <<question, sitting, call, aborts, regime>>

QUESTION_TYPES == {"SINGLE", "MULTI", "TRUE_FALSE", "FILL_BLANK"}
MostOptions == 3
Options(n) == 0..(n - 1)
Texts == {"", "known", "other"}

\* What may be stored: blank says that the prompt or an option is.
Questions ==
    LET stored(types, options, singles, manies, accepted) ==
            [type: types, options: options, blank: BOOLEAN, correctOptionIndex: singles,
             correctOptionIndexes: manies, acceptedAnswers: accepted]
        some == 0..MostOptions
    IN  stored({"SINGLE", "TRUE_FALSE"}, some, -1..MostOptions, {{}}, {{}})
        \cup stored({"MULTI"}, some, -1..1, SUBSET some, {{}})
        \cup stored({"FILL_BLANK"}, {0}, {-1}, {{}}, SUBSET {"", "known"})

NoAnswer == [shown |-> -1, many |-> {}, text |-> ""]

TypeOK ==
    /\ question \in Questions
    /\ sitting.at \in {"stored", "shown", "graded"}
    /\ sitting.right \in BOOLEAN

-----------------------------------------------------------------------------
canShuffleOptions(type) == type \in {"SINGLE", "MULTI"}

correctIndexes(q) ==
    LET many   == {i \in q.correctOptionIndexes : i >= 0}
        single == {i \in {q.correctOptionIndex} : i >= 0}
    IN  IF q.type = "MULTI" /\ many # {} THEN many ELSE single

\* Faulty variant: a key past the end of the options is not looked for.
looseDefect(q) ==
    IF q.type = "FILL_BLANK" THEN q.blank \/ q.acceptedAnswers \ {""} = {}
    ELSE \/ q.blank \/ q.options < 2
         \/ q.type = "TRUE_FALSE" /\ q.options # 2
         \/ correctIndexes(q) = {}
         \/ q.type = "MULTI" /\ Cardinality(correctIndexes(q)) < 2

\* A question that review refuses.
questionDefect(q) ==
    IF q.type = "FILL_BLANK" THEN q.blank \/ q.acceptedAnswers \ {""} = {}
    ELSE \/ q.blank \/ q.options < 2
         \/ q.type = "TRUE_FALSE" /\ q.options # 2
         \/ correctIndexes(q) = {}
         \/ \E i \in correctIndexes(q) : i >= q.options
         \/ q.type = "MULTI" /\ Cardinality(correctIndexes(q)) < 2

\* Faulty variant: a question of several answers takes any of them.
isAnswerPartlyCorrect(q, selected, many, text) ==
    CASE q.type = "FILL_BLANK" -> text # "" /\ text \in q.acceptedAnswers
      [] q.type = "MULTI" -> many \cap correctIndexes(q) # {}
      [] OTHER -> selected >= 0 /\ selected \in correctIndexes(q)

isAnswerCorrect(q, selected, many, text) ==
    CASE q.type = "FILL_BLANK" -> text # "" /\ text \in q.acceptedAnswers
      [] q.type = "MULTI" -> LET chosen == {i \in many : i >= 0}
                             IN  chosen # {} /\ chosen = correctIndexes(q)
      [] OTHER -> selected >= 0 /\ selected \in correctIndexes(q)

\* Faulty variants: positions are taken as shown; or the mapping is turned round.
mapStraight(shown, optionOrder) == shown
mapBack(shown, optionOrder) ==
    IF shown \notin DOMAIN optionOrder THEN shown
    ELSE CHOOSE i \in DOMAIN optionOrder : optionOrder[i] = shown

\* The stored option behind a position on the screen.
mapThroughShuffle(shown, optionOrder) ==
    IF shown \in DOMAIN optionOrder THEN optionOrder[shown] ELSE shown

\* What an answer to q, shown in an order, is graded.
Graded(q, optionOrder, answer) ==
    isAnswerCorrect(q, mapThroughShuffle(answer.shown, optionOrder),
                    {mapThroughShuffle(i, optionOrder) : i \in answer.many}, answer.text)

-----------------------------------------------------------------------------
Same == UNCHANGED <<question, call, aborts, regime>>

\* The orders in which options may be shown.
Orders(q) ==
    LET positions == Options(q.options)
    IN  IF canShuffleOptions(q.type)
        THEN {f \in [positions -> positions] : {f[i] : i \in positions} = positions}
        ELSE {[i \in positions |-> i]}

\* What the page lets a person answer.
Answers(q) ==
    {NoAnswer} \cup
    CASE q.type = "FILL_BLANK" -> {[NoAnswer EXCEPT !.text = t] : t \in Texts}
      [] q.type = "MULTI" -> {[NoAnswer EXCEPT !.many = s] : s \in SUBSET Options(q.options)}
      [] OTHER -> {[NoAnswer EXCEPT !.shown = i] : i \in Options(q.options)}

Show ==
    /\ sitting.at = "stored"
    /\ \E optionOrder \in Orders(question) :
          sitting' = [sitting EXCEPT !.at = "shown", !.order = optionOrder]
    /\ Same

Submit ==
    /\ sitting.at = "shown"
    /\ \E answer \in Answers(question) :
          sitting' = [sitting EXCEPT !.at = "graded", !.answer = answer,
                                     !.right = Graded(question, sitting.order, answer)]
    /\ Same

Init ==
    /\ question \in Questions
    /\ sitting = [at |-> "stored", order |-> <<>>, answer |-> NoAnswer, right |-> FALSE]
    /\ call = 0 /\ aborts = 0

Next == Show \/ Submit

-----------------------------------------------------------------------------
\* The options a person picked, as the screen showed them.
Picked ==
    {sitting.order[i] : i \in {j \in sitting.answer.many \cup {sitting.answer.shown} : j >= 0}}

\* However options are shuffled, an answer is right exactly when what was picked on
\* the screen is what is marked correct, and a blank never is (submitAttempt).
GradedAsPicked ==
    sitting.at = "graded" =>
        IF question.type = "FILL_BLANK"
        THEN sitting.right <=> sitting.answer.text \in question.acceptedAnswers \ {""}
        ELSE sitting.right <=> Picked # {} /\ Picked = correctIndexes(question)

\* A question that passes review can be answered right on any screen it is shown
\* on (questionDefect, getQuizForPlay).
ReviewedCanBeRight ==
    sitting.at = "shown" /\ ~questionDefect(question) =>
        \E answer \in Answers(question) : Graded(question, sitting.order, answer)
=============================================================================
