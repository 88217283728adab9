------------------------- MODULE MCRecruitmentPipeline -------------------------
(* Small instances of RecruitmentPipeline.                                   *)
EXTENDS RecruitmentPipeline, TLC

Applying == {"apply", "move"}
Offering == {"offer", "decide", "hire"}

\* Everything but the override, one handler after the other.
MCOrderly == {[width |-> 1, handlers |-> Handlers \ {"override"},
               aborts |-> 0, offers |-> 2, rounds |-> 2]}

\* And the parts that meet in one document, two handlers at a time.
MCRegimes ==
    MCOrderly \cup
    {[width |-> 2, handlers |-> Applying \cup Offering,
      aborts |-> 1, offers |-> 1, rounds |-> 0],
     [width |-> 2, handlers |-> Applying \cup {"hire", "override"},
      aborts |-> 1, offers |-> 0, rounds |-> 0]}

Symm == Permutations(Applications) \cup Permutations(Emails) \cup Permutations(Calls)
=============================================================================
