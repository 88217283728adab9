---------------------------- MODULE Departments ----------------------------
(***************************************************************************)
(* The tree of departments and who is in it (OrganizationService).         *)
(*                                                                         *)
(* A handler walks the tree or counts children and employees, and then     *)
(* writes one department; nothing is checked again at the write.           *)
(***************************************************************************)
EXTENDS Naturals, FiniteSets

CONSTANTS Calls,  \* slots for handlers that run at the same time
          Depts   \* departments that may be created

VARIABLES dept,   \* of each department: its state, its parent, whether it is active
          staff,  \* departments that have an employee
          call, aborts, regime

vars == <<dept, staff, call, aborts, regime>>

Root == "root"  \* no parent

TypeOK ==
    /\ dept \in [Depts -> [state: {"none", "live", "deleted"}, active: BOOLEAN,
                           parent: Depts \cup {Root}]]
    /\ staff \subseteq Depts
    /\ \A c \in Calls : call[c].at \in {"idle", "create", "move", "toggle", "delete"}

-----------------------------------------------------------------------------
(* The tree *)

Live(d) == dept[d].state = "live"
Children(d) == {e \in Depts : Live(e) /\ dept[e].parent = d}

\* The next step of a walk to the root, which ends at a department that is not there.
Above(d) == IF d \in Depts /\ Live(d) THEN dept[d].parent ELSE Root

\* Those a walk from d meets: it stops at the root, or where it has been before.
Walk(d) ==
    LET met[n \in 0..Cardinality(Depts)] ==
            IF n = 0 THEN {d} ELSE met[n - 1] \cup {Above(e) : e \in met[n - 1]}
    IN  met[Cardinality(Depts)] \ {Root}

\* Faulty variant: only the new parent and its own parent are looked at.
NearlyAcyclic(d, parent) == d \notin {parent, Above(parent)}

\* A department is not moved below itself or one of its own.
Acyclic(d, parent) == d \notin Walk(parent)

-----------------------------------------------------------------------------
Idle == [at |-> "idle"]

Room(handler) ==
    /\ handler \in regime.handlers
    /\ Cardinality({d \in Calls : call[d].at # "idle"}) < regime.width

Begin(c, handler, k) ==
    /\ Room(handler)
    /\ call[c].at = "idle"
    /\ call' = [call EXCEPT ![c] = k]
    /\ UNCHANGED <<dept, staff, aborts, regime>>

End(c) == call' = [call EXCEPT ![c] = Idle]

CreateRead(c) ==
    \E d \in Depts, parent \in {e \in Depts : Live(e)} \cup {Root} :
        /\ dept[d].state = "none"
        /\ Begin(c, "create", [at |-> "create", dept |-> d, parent |-> parent])

\* A code that is taken is refused by its unique key.
CreateSave(c) ==
    LET d == call[c].dept
    IN  /\ call[c].at = "create"
        /\ dept' = IF dept[d].state # "none" THEN dept
                   ELSE [dept EXCEPT ![d] = [state |-> "live", active |-> TRUE,
                                             parent |-> call[c].parent]]
        /\ End(c)
        /\ UNCHANGED <<staff, aborts, regime>>

\* The new parent is walked from, not looked for: it may be one that was deleted.
MoveRead(c) ==
    \E d \in Depts, parent \in Depts \cup {Root} :
        /\ Live(d)
        /\ parent \in Depts =>
              /\ dept[parent].state \in IF regime.stale THEN {"live", "deleted"} ELSE {"live"}
              /\ Acyclic(d, parent)
        /\ Begin(c, "move", [at |-> "move", dept |-> d, parent |-> parent])

MoveSave(c) ==
    /\ call[c].at = "move"
    /\ dept' = [dept EXCEPT ![call[c].dept].parent = call[c].parent]
    /\ End(c)
    /\ UNCHANGED <<staff, aborts, regime>>

\* A department with active children stays active.
MayToggle(d) == dept[d].active => ~\E e \in Children(d) : dept[e].active

ToggleRead(c) ==
    \E d \in Depts :
        /\ Live(d) /\ MayToggle(d)
        /\ Begin(c, "toggle", [at |-> "toggle", dept |-> d, active |-> ~dept[d].active])

ToggleSave(c) ==
    /\ call[c].at = "toggle"
    /\ dept' = [dept EXCEPT ![call[c].dept].active = call[c].active]
    /\ End(c)
    /\ UNCHANGED <<staff, aborts, regime>>

\* Faulty variant: employees are not counted.
MayDeleteStaffed(d) == Children(d) = {}

\* Children of any status and employees keep a department.
MayDelete(d) == Children(d) = {} /\ d \notin staff

DeleteRead(c) ==
    \E d \in Depts :
        Live(d) /\ MayDelete(d) /\ Begin(c, "delete", [at |-> "delete", dept |-> d])

DeleteSave(c) ==
    /\ call[c].at = "delete"
    /\ dept' = [dept EXCEPT ![call[c].dept].state = "deleted"]
    /\ End(c)
    /\ UNCHANGED <<staff, aborts, regime>>

\* An employee is put into a department, or the last one leaves it.
Staff ==
    /\ Room("staff")
    /\ \E d \in Depts :
          \/ Live(d) /\ d \notin staff /\ staff' = staff \cup {d}
          \/ d \in staff /\ staff' = staff \ {d}
    /\ UNCHANGED <<dept, call, aborts, regime>>

\* The server stops, and the handler with it.
Stop(c) ==
    /\ call[c].at # "idle" /\ aborts < regime.aborts
    /\ aborts' = aborts + 1
    /\ End(c)
    /\ UNCHANGED <<dept, staff, regime>>

Init ==
    /\ dept = [d \in Depts |-> [state |-> "none", active |-> FALSE, parent |-> Root]]
    /\ staff = {}
    /\ call = [c \in Calls |-> Idle]
    /\ aborts = 0

Next ==
    \/ Staff
    \/ \E c \in Calls :
          \/ CreateRead(c) \/ CreateSave(c) \/ MoveRead(c) \/ MoveSave(c)
          \/ ToggleRead(c) \/ ToggleSave(c) \/ DeleteRead(c) \/ DeleteSave(c) \/ Stop(c)

-----------------------------------------------------------------------------
Sequential == regime.width = 1

\* One request at a time, no department is above itself, though a parent may be
\* one that was deleted (validateHierarchyChange).
NoCycle ==
    Sequential => \A d \in Depts : Live(d) => d \notin Walk(Above(d))

\* One request at a time, with parents chosen among the departments there are, a
\* department that was deleted has neither children nor employees (deleteDepartment).
DeletedIsBare ==
    Sequential /\ ~regime.stale =>
        \A d \in Depts : dept[d].state = "deleted" => Children(d) = {} /\ d \notin staff
=============================================================================
