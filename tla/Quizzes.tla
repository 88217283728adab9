------------------------------- MODULE Quizzes -------------------------------
(***************************************************************************)
(* Writing one quiz and getting it in front of people: the edits, the      *)
(* review, the question bank, the assignment and the removal of            *)
(* QuizService and QuizAuthoringService.                                   *)
(*                                                                         *)
(* A question is the number of its text and its flag isApproved; wording,  *)
(* options and keys are left out (a question that cannot be graded is      *)
(* refused before any write).  Documents are saved by their changed paths: *)
(* setting the whole list of questions is bound to the version read and    *)
(* raises it, a push raises it unbound, the status alone does neither.  Of *)
(* the version all that counts is whether it was raised since it was read. *)
(***************************************************************************)
EXTENDS Integers, Sequences, FiniteSets, SequencesExt

CONSTANTS Calls,   \* slots for handlers that run at the same time
          People   \* employees a quiz can be assigned to

VARIABLES quiz,      \* the document
          bank,      \* texts kept in the question bank
          assigned,  \* employees with an assignment of the quiz
          reviewed,  \* texts that were in the quiz when somebody approved it
          lost,      \* texts overwritten by a handler that had not read them
          texts,     \* texts written so far
          call, aborts, regime

vars == <<quiz, bank, assigned, reviewed, lost, texts, call, aborts, regime>>

QUIZ_STATUSES == {"DRAFT", "IN_REVIEW", "APPROVED", "PUBLISHED", "ARCHIVED"}
ASSIGNABLE_STATUSES == {"APPROVED", "PUBLISHED"}

Questions == [text: Nat, isApproved: BOOLEAN]
Documents == [there: BOOLEAN, status: QUIZ_STATUSES, questions: Seq(Questions),
              approved: BOOLEAN]

TypeOK ==
    /\ quiz \in Documents
    /\ bank \cup reviewed \cup lost \subseteq 1..texts
    /\ assigned \subseteq People
    /\ call \in [Calls -> [at: {"idle", "edit", "move", "rewrite", "pull", "assign",
                                "unassign", "remove"},
                           seen: Documents, raised: BOOLEAN, with: [to: QUIZ_STATUSES,
                           index: Nat, texts: SUBSET (1..texts), people: SUBSET People]]]

TextsOf(questions) == {questions[i].text : i \in DOMAIN questions}
Fresh(isApproved) == [text |-> texts + 1, isApproved |-> isApproved]

Nothing == [to |-> "DRAFT", index |-> 0, texts |-> {}, people |-> {}]
Blank   == [there |-> TRUE, status |-> "DRAFT", questions |-> <<>>, approved |-> FALSE]
Idle    == [at |-> "idle", seen |-> Blank, raised |-> FALSE, with |-> Nothing]

Begin(c, at, with) ==
    /\ quiz.there /\ at \in regime.handlers
    /\ call[c].at = "idle"
    /\ Cardinality({d \in Calls : call[d].at # "idle"}) < regime.width
    /\ call' = [call EXCEPT ![c] = [at |-> at, raised |-> FALSE, with |-> with,
                  seen |-> IF at \in {"assign", "unassign"} THEN Blank ELSE quiz]]
    /\ UNCHANGED <<quiz, bank, assigned, reviewed, lost, texts, aborts, regime>>

End(c) == call' = [call EXCEPT ![c] = Idle]

\* The same, with the version raised under everybody who has read the quiz.
EndRaising(c) ==
    call' = [d \in Calls |-> IF d = c \/ call[d].at = "idle" THEN Idle
                             ELSE [call[d] EXCEPT !.raised = TRUE]]

\* The handler's save finds nothing to update and throws.
Fails(c) == End(c) /\ UNCHANGED <<quiz, bank, assigned, reviewed, lost, texts, aborts, regime>>

\* Faulty variant: the list is written whatever happened to it since.
SetsQuestionsBlindly(c, questions) ==
    /\ quiz.there
    /\ quiz' = [quiz EXCEPT !.questions = questions]
    /\ EndRaising(c)
    /\ lost' = lost \cup (TextsOf(quiz.questions) \ TextsOf(call[c].seen.questions))

\* The whole list is set, on the version that was read.
SetsQuestions(c, questions) ==
    /\ quiz.there /\ ~call[c].raised
    /\ quiz' = [quiz EXCEPT !.questions = questions]
    /\ EndRaising(c)
    /\ lost' = lost \cup (TextsOf(quiz.questions) \ TextsOf(call[c].seen.questions))

Stale(c) == ~quiz.there \/ call[c].raised

-----------------------------------------------------------------------------
(* Editing *)

UpdateRead(c) ==
    /\ quiz.status \notin {"PUBLISHED", "ARCHIVED"}
    /\ Begin(c, "edit", Nothing)

\* The caller sends the whole list, with the flag of every question.
UpdateSave(c) ==
    /\ call[c].at = "edit"
    /\ \/ /\ texts < regime.texts
          /\ \E isApproved \in BOOLEAN :
                \/ SetsQuestions(c, <<Fresh(isApproved)>>)
                \/ SetsQuestions(c, Append(call[c].seen.questions, Fresh(isApproved)))
          /\ texts' = texts + 1
          /\ UNCHANGED <<bank, assigned, reviewed, aborts, regime>>
       \/ Stale(c) /\ Fails(c)

RegenerateRead(c) ==
    \E i \in DOMAIN quiz.questions :
        Begin(c, "rewrite", [Nothing EXCEPT !.index = i])

\* The model has answered with a new text.
RegenerateSave(c) ==
    /\ call[c].at = "rewrite"
    /\ \/ /\ texts < regime.texts
          /\ SetsQuestions(c, [call[c].seen.questions EXCEPT
                                   ![call[c].with.index] = Fresh(FALSE)])
          /\ texts' = texts + 1
          /\ UNCHANGED <<bank, assigned, reviewed, aborts, regime>>
       \/ Stale(c) /\ Fails(c)

AddToBank ==
    /\ "pull" \in regime.handlers
    /\ \E t \in TextsOf(quiz.questions) \ bank : bank' = bank \cup {t}
    /\ UNCHANGED <<quiz, assigned, reviewed, lost, texts, call, aborts, regime>>

RemoveFromBank ==
    /\ \E t \in bank : bank' = bank \ {t}
    /\ UNCHANGED <<quiz, assigned, reviewed, lost, texts, call, aborts, regime>>

PullRead(c) ==
    \E entries \in (SUBSET bank) \ {{}} : Begin(c, "pull", [Nothing EXCEPT !.texts = entries])

\* Entries not asked yet are pushed; with none of them the list is set as read.
PullSave(c) ==
    LET new    == call[c].with.texts \ TextsOf(call[c].seen.questions)
        pushed == SetToSeq({[text |-> t, isApproved |-> TRUE] : t \in new})
    IN  /\ call[c].at = "pull"
        /\ \/ /\ new # {} /\ quiz.there
              /\ quiz' = [quiz EXCEPT !.questions = @ \o pushed]
              /\ EndRaising(c)
              /\ UNCHANGED lost
              /\ UNCHANGED <<bank, assigned, reviewed, texts, aborts, regime>>
           \/ /\ new = {} /\ SetsQuestions(c, call[c].seen.questions)
              /\ UNCHANGED <<bank, assigned, reviewed, texts, aborts, regime>>
           \/ (IF new = {} THEN Stale(c) ELSE ~quiz.there) /\ Fails(c)

-----------------------------------------------------------------------------
(* Review *)

\* Faulty variant: a retired quiz can be brought straight back.
AllowedBack(status) ==
    CASE status = "DRAFT"     -> {"IN_REVIEW", "ARCHIVED"}
      [] status = "IN_REVIEW" -> {"APPROVED", "DRAFT", "ARCHIVED"}
      [] status = "APPROVED"  -> {"PUBLISHED", "DRAFT", "ARCHIVED"}
      [] status = "PUBLISHED" -> {"ARCHIVED"}
      [] status = "ARCHIVED"  -> {"DRAFT", "PUBLISHED"}

Allowed(status) ==
    CASE status = "DRAFT"     -> {"IN_REVIEW", "ARCHIVED"}
      [] status = "IN_REVIEW" -> {"APPROVED", "DRAFT", "ARCHIVED"}
      [] status = "APPROVED"  -> {"PUBLISHED", "DRAFT", "ARCHIVED"}
      [] status = "PUBLISHED" -> {"ARCHIVED"}
      [] status = "ARCHIVED"  -> {"DRAFT"}

TransitionRead(c) ==
    \E target \in Allowed(quiz.status) :
        /\ target \in {"APPROVED", "IN_REVIEW"} => quiz.questions # <<>>
        /\ Begin(c, "move", [Nothing EXCEPT !.to = target])

\* Approving accepts every question, and so writes the whole list.
Approve(c) ==
    /\ call[c].at = "move" /\ call[c].with.to = "APPROVED"
    /\ \/ /\ ~Stale(c)
          /\ quiz' = [quiz EXCEPT !.status = "APPROVED", !.approved = TRUE,
                         !.questions = [i \in DOMAIN call[c].seen.questions |->
                             [text |-> call[c].seen.questions[i].text, isApproved |-> TRUE]]]
          /\ reviewed' = reviewed \cup TextsOf(call[c].seen.questions)
          /\ EndRaising(c)
          /\ UNCHANGED <<bank, assigned, lost, texts, aborts, regime>>
       \/ Stale(c) /\ Fails(c)

\* Faulty variant: going back to draft keeps the name under the approval.
MoveKeepingApproval(c) ==
    /\ call[c].at = "move" /\ call[c].with.to # "APPROVED"
    /\ \/ /\ quiz.there
          /\ quiz' = [quiz EXCEPT !.status = call[c].with.to]
          /\ End(c)
          /\ UNCHANGED <<bank, assigned, reviewed, lost, texts, aborts, regime>>
       \/ ~quiz.there /\ Fails(c)

\* Back to draft, an approval that was read is taken away.
Move(c) ==
    LET to == call[c].with.to
    IN  /\ call[c].at = "move" /\ to # "APPROVED"
        /\ \/ /\ quiz.there
              /\ quiz' = [quiz EXCEPT !.status = to,
                             !.approved = @ /\ ~(to = "DRAFT" /\ call[c].seen.approved)]
              /\ End(c)
              /\ UNCHANGED <<bank, assigned, reviewed, lost, texts, aborts, regime>>
           \/ ~quiz.there /\ Fails(c)

-----------------------------------------------------------------------------
(* Assignment and removal *)

AssignRead(c) ==
    /\ quiz.status \in ASSIGNABLE_STATUSES
    /\ \E people \in (SUBSET People) \ {{}} :
          Begin(c, "assign", [Nothing EXCEPT !.people = people])

AssignWrite(c) ==
    /\ call[c].at = "assign"
    /\ assigned' = assigned \cup call[c].with.people
    /\ End(c)
    /\ UNCHANGED <<quiz, bank, reviewed, lost, texts, aborts, regime>>

DeleteRead(c) == quiz.status # "PUBLISHED" /\ Begin(c, "unassign", Nothing)

\* Faulty variant: the quiz goes first, and its assignments are left for last.
DeleteQuizFirst(c) ==
    /\ call[c].at = "unassign"
    /\ quiz' = [quiz EXCEPT !.there = FALSE]
    /\ call' = [call EXCEPT ![c].at = "remove"]
    /\ UNCHANGED <<bank, assigned, reviewed, lost, texts, aborts, regime>>

DeleteAssignments(c) ==
    /\ call[c].at = "unassign"
    /\ assigned' = {}
    /\ call' = [call EXCEPT ![c].at = "remove"]
    /\ UNCHANGED <<quiz, bank, reviewed, lost, texts, aborts, regime>>

DeleteQuiz(c) ==
    /\ call[c].at = "remove"
    /\ quiz' = [quiz EXCEPT !.there = FALSE]
    /\ End(c)
    /\ UNCHANGED <<bank, assigned, reviewed, lost, texts, aborts, regime>>

\* The server stops, and the handler with it.
Stop(c) ==
    /\ call[c].at # "idle" /\ aborts < regime.aborts
    /\ aborts' = aborts + 1
    /\ End(c)
    /\ UNCHANGED <<quiz, bank, assigned, reviewed, lost, texts, regime>>

\* A quiz is created as a draft, with or without questions.
Init ==
    /\ \E questions \in {<<>>, <<[text |-> 1, isApproved |-> FALSE]>>} :
          /\ quiz = [Blank EXCEPT !.questions = questions]
          /\ texts = Len(questions)
    /\ bank = {} /\ assigned = {} /\ reviewed = {} /\ lost = {}
    /\ call = [c \in Calls |-> Idle]
    /\ aborts = 0

Next ==
    \/ AddToBank
    \/ RemoveFromBank
    \/ \E c \in Calls :
          \/ UpdateRead(c) \/ UpdateSave(c) \/ RegenerateRead(c) \/ RegenerateSave(c)
          \/ PullRead(c) \/ PullSave(c) \/ TransitionRead(c) \/ Approve(c) \/ Move(c)
          \/ AssignRead(c) \/ AssignWrite(c)
          \/ DeleteRead(c) \/ DeleteAssignments(c) \/ DeleteQuiz(c) \/ Stop(c)

-----------------------------------------------------------------------------
Sequential == regime.width = 1

\* However edits, rewrites, pulls and approvals overlap, no handler overwrites
\* a question it had not read (the version Mongoose binds a set list to).
NoEditLost == lost = {}

\* An approval is on record exactly while it is in force, or behind an archived
\* quiz, one handler at a time (QuizService.transition).
ApprovalOnRecord ==
    Sequential =>
        /\ quiz.status \in ASSIGNABLE_STATUSES => quiz.approved
        /\ quiz.status \in {"DRAFT", "IN_REVIEW"} => ~quiz.approved

\* Nobody is assigned a quiz no version of which was ever approved
\* (assertAssignable, over every way through the lifecycle).
AssignedWasApproved == assigned # {} => reviewed # {}

\* One handler at a time, an assignment never points at a quiz that is gone,
\* not even when the server stops halfway through the removal (deleteQuiz).
AssignedQuizExists == Sequential /\ ~quiz.there => assigned = {}
=============================================================================
