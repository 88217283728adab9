------------------------- MODULE UserAdministration -------------------------
(***************************************************************************)
(* Who may use the system: the roles of UsersService (assignment, the      *)
(* protection of the last super administrator, one custom role) and the    *)
(* invitations of InvitationsService for one e-mail address.               *)
(*                                                                         *)
(* A user holds a role under its code or under its display name at the     *)
(* time.  Users are saved by their changed paths; the roles are a list, so *)
(* saving them is bound to the version of the user that was read.          *)
(***************************************************************************)
EXTENDS Integers, Sequences, FiniteSets

CONSTANTS Calls,  \* slots for handlers that run at the same time
          Users

VARIABLES admins,       \* users with the super administrator role
          inactive,     \* users with status INACTIVE
          role,         \* the custom role
          held,         \* the label under which each user holds it
          invitations,  \* invitations of the address, in the order they were created
          account,      \* whether the address has an account
          call, aborts, regime

vars == <<admins, inactive, role, held, invitations, account, call, aborts, regime>>

Names  == {"name", "other name"}
Labels == Names \cup {"code"}
InvitationStatus == {"PENDING", "ACCEPTED", "EXPIRED", "REVOKED"}
MAX_RESENDS_PER_WINDOW == 3

Roles       == [there: BOOLEAN, name: Names]
Invitations == [status: InvitationStatus, over: BOOLEAN, resendCount: Nat, recent: BOOLEAN]

TypeOK ==
    /\ admins \cup inactive \subseteq Users
    /\ role \in Roles
    /\ held \in [Users -> Labels \cup {"none"}]
    /\ invitations \in Seq(Invitations)
    /\ account \in BOOLEAN
    /\ \A c \in Calls : call[c].at \in {"idle", "roles", "delete", "invite", "resend",
                                        "revoke", "account", "accept"}

Unread == [status |-> "PENDING", over |-> FALSE, resendCount |-> 0, recent |-> FALSE]
Idle == [at |-> "idle", user |-> "", admin |-> FALSE, label |-> "none", raised |-> FALSE,
         item |-> 0, seen |-> Unread]

Begin(c, handler, record) ==
    /\ handler \in regime.handlers
    /\ call[c].at = "idle"
    /\ Cardinality({d \in Calls : call[d].at # "idle"}) < regime.width
    /\ call' = [call EXCEPT ![c] = record]
    /\ UNCHANGED <<admins, inactive, role, held, invitations, account, aborts, regime>>

Goto(c, at) == call' = [call EXCEPT ![c].at = at]
End(c) == call' = [call EXCEPT ![c] = Idle]

-----------------------------------------------------------------------------
(* Roles *)

\* Faulty variant: the user who is to lose the role is counted as well.
OthersAndSelf(u) == admins \ inactive

\* Super administrators that remain, those with an inactive account aside.
Others(u) == (admins \ {u}) \ inactive

AssignRead(c) ==
    \E u \in Users, admin \in BOOLEAN :
        /\ u \in admins /\ ~admin => Others(u) # {}
        /\ \E label \in {"none"} \cup (IF role.there THEN {role.name, "code"} ELSE {}) :
              Begin(c, "roles", [Idle EXCEPT !.at = "roles", !.user = u, !.admin = admin,
                                             !.label = label])

AssignSave(c) ==
    LET u == call[c].user
    IN  /\ call[c].at = "roles"
        /\ IF call[c].raised
           THEN End(c) /\ UNCHANGED <<admins, held>>
           ELSE /\ admins' = IF call[c].admin THEN admins \cup {u} ELSE admins \ {u}
                /\ held' = [held EXCEPT ![u] = call[c].label]
                /\ call' = [d \in Calls |-> IF d = c THEN Idle
                                ELSE [call[d] EXCEPT !.raised = @ \/ call[d].user = u]]
        /\ UNCHANGED <<inactive, role, invitations, account, aborts, regime>>

\* Any status may be set, on anybody.
UpdateUserStatus ==
    /\ "status" \in regime.handlers
    /\ \E u \in Users : inactive' \in {inactive \cup {u}, inactive \ {u}}
    /\ UNCHANGED <<admins, role, held, invitations, account, call, aborts, regime>>

UpdateRole ==
    /\ "rename" \in regime.handlers /\ role.there
    /\ \E name \in Names : role' = [role EXCEPT !.name = name]
    /\ UNCHANGED <<admins, inactive, held, invitations, account, call, aborts, regime>>

\* Faulty variant: only those who hold the role under its code are counted.
HoldersByCode == {u \in Users : held[u] = "code"}

Holders == {u \in Users : held[u] \in {role.name, "code"}}

DeleteRoleRead(c) ==
    /\ role.there /\ Holders = {}
    /\ Begin(c, "delete", [Idle EXCEPT !.at = "delete"])

DeleteRole(c) ==
    /\ call[c].at = "delete"
    /\ role' = [role EXCEPT !.there = FALSE]
    /\ End(c)
    /\ UNCHANGED <<admins, inactive, held, invitations, account, aborts, regime>>

-----------------------------------------------------------------------------
(* Invitations *)

SweepExpired ==
    [i \in DOMAIN invitations |->
        IF invitations[i].status = "PENDING" /\ invitations[i].over
        THEN [invitations[i] EXCEPT !.status = "EXPIRED"] ELSE invitations[i]]

Pending(all) == {i \in DOMAIN all : all[i].status = "PENDING"}

\* Listing the invitations, or opening the link of one, sweeps them.
ListInvitations ==
    /\ "invite" \in regime.handlers
    /\ invitations' = SweepExpired
    /\ UNCHANGED <<admins, inactive, role, held, account, call, aborts, regime>>

\* Without a pending invitation, swept first, and without an account there.
InviteRead(c) ==
    /\ "invite" \in regime.handlers
    /\ call[c].at = "idle" /\ ~account /\ Len(invitations) < regime.invitations
    /\ Cardinality({d \in Calls : call[d].at # "idle"}) < regime.width
    /\ invitations' = SweepExpired
    /\ Pending(SweepExpired) = {}
    /\ call' = [call EXCEPT ![c].at = "invite"]
    /\ UNCHANGED <<admins, inactive, role, held, account, aborts, regime>>

InviteCreate(c) ==
    /\ call[c].at = "invite"
    /\ Len(invitations) < regime.invitations
    /\ invitations' = Append(invitations, Unread)
    /\ End(c)
    /\ UNCHANGED <<admins, inactive, role, held, account, aborts, regime>>

ResendRead(c) ==
    \E i \in DOMAIN invitations :
        /\ invitations[i].status \in {"PENDING", "EXPIRED"}
        /\ ~(invitations[i].recent /\ invitations[i].resendCount >= MAX_RESENDS_PER_WINDOW)
        /\ invitations[i].resendCount < regime.resends
        /\ Begin(c, "resend", [Idle EXCEPT !.at = "resend", !.item = i,
                                           !.seen = invitations[i]])

\* The status is written only where it is not the one that was read.
Write(c, status) ==
    IF call[c].seen.status = status THEN invitations[call[c].item].status ELSE status

ResendSave(c) ==
    /\ call[c].at = "resend"
    /\ invitations' = [invitations EXCEPT ![call[c].item] =
          [status |-> Write(c, "PENDING"), over |-> FALSE, recent |-> TRUE,
           resendCount |-> call[c].seen.resendCount + 1]]
    /\ End(c)
    /\ UNCHANGED <<admins, inactive, role, held, account, aborts, regime>>

RevokeRead(c) ==
    \E i \in DOMAIN invitations :
        /\ invitations[i].status # "ACCEPTED"
        /\ Begin(c, "revoke", [Idle EXCEPT !.at = "revoke", !.item = i,
                                           !.seen = invitations[i]])

RevokeSave(c) ==
    /\ call[c].at = "revoke"
    /\ invitations' = [invitations EXCEPT ![call[c].item].status = Write(c, "REVOKED")]
    /\ End(c)
    /\ UNCHANGED <<admins, inactive, role, held, account, aborts, regime>>

AcceptRead(c) ==
    \E i \in DOMAIN invitations :
        /\ invitations[i].status = "PENDING" /\ ~invitations[i].over /\ ~account
        /\ Begin(c, "accept", [Idle EXCEPT !.at = "account", !.item = i])

\* Faulty variant: the invitation is marked first, the account comes after it.
AcceptMarkFirst(c) ==
    /\ call[c].at = "account"
    /\ invitations' = [invitations EXCEPT ![call[c].item].status = "ACCEPTED"]
    /\ Goto(c, "accept")
    /\ UNCHANGED <<admins, inactive, role, held, account, aborts, regime>>

\* Faulty variant: whoever comes second takes the account over.
AcceptCreateAgain(c) ==
    /\ call[c].at = "account"
    /\ account' = TRUE
    /\ Goto(c, "accept")
    /\ UNCHANGED <<admins, inactive, role, held, invitations, aborts, regime>>

\* The e-mail address of an account is unique: a second one is refused there.
AcceptCreate(c) ==
    /\ call[c].at = "account"
    /\ IF account THEN End(c) /\ UNCHANGED account
                  ELSE Goto(c, "accept") /\ account' = TRUE
    /\ UNCHANGED <<admins, inactive, role, held, invitations, aborts, regime>>

AcceptSave(c) ==
    /\ call[c].at = "accept"
    /\ invitations' = [invitations EXCEPT ![call[c].item].status = "ACCEPTED"]
    /\ End(c)
    /\ UNCHANGED <<admins, inactive, role, held, account, aborts, regime>>

\* Time passes: an invitation reaches its end, or its last resend is a day ago.
PassExpiry ==
    /\ "invite" \in regime.handlers
    /\ \E i \in DOMAIN invitations :
          invitations' \in {[invitations EXCEPT ![i].over = TRUE],
                            [invitations EXCEPT ![i].recent = FALSE]}
    /\ UNCHANGED <<admins, inactive, role, held, account, call, aborts, regime>>

\* The server stops, and the handler with it.
Stop(c) ==
    /\ call[c].at # "idle" /\ aborts < regime.aborts
    /\ aborts' = aborts + 1
    /\ End(c)
    /\ UNCHANGED <<admins, inactive, role, held, invitations, account, regime>>

\* One super administrator has been seeded.
Init ==
    /\ \E u \in Users : admins = {u}
    /\ inactive = {}
    /\ role = [there |-> TRUE, name |-> "name"]
    /\ held = [u \in Users |-> "none"]
    /\ invitations = <<>> /\ account = FALSE
    /\ call = [c \in Calls |-> Idle]
    /\ aborts = 0

Next ==
    \/ UpdateUserStatus \/ UpdateRole \/ ListInvitations \/ PassExpiry
    \/ \E c \in Calls :
          \/ AssignRead(c) \/ AssignSave(c) \/ DeleteRoleRead(c) \/ DeleteRole(c)
          \/ InviteRead(c) \/ InviteCreate(c) \/ ResendRead(c) \/ ResendSave(c)
          \/ RevokeRead(c) \/ RevokeSave(c)
          \/ AcceptRead(c) \/ AcceptCreate(c) \/ AcceptSave(c) \/ Stop(c)

-----------------------------------------------------------------------------
Sequential == regime.width = 1

\* One request at a time, somebody always holds the super administrator role,
\* whatever accounts are deactivated in between (assignRoles).
AdminRemains == Sequential => admins # {}

\* One request at a time and as long as the role keeps its name, nobody is left
\* holding a role that was deleted (deleteRole, assignRoles).
HeldRoleExists ==
    Sequential /\ "rename" \notin regime.handlers /\ ~role.there =>
        \A u \in Users : held[u] = "none"

\* An accepted invitation has led to an account, wherever its handler stopped
\* and whatever was revoked or sent again meanwhile (acceptInvitation).
AcceptedHasAccount ==
    (\E i \in DOMAIN invitations : invitations[i].status = "ACCEPTED") => account

\* However acceptances overlap with each other, and with what is revoked and
\* sent again, an address is welcomed once (acceptInvitation).
OneAcceptance ==
    Cardinality({i \in DOMAIN invitations : invitations[i].status = "ACCEPTED"}) <= 1
=============================================================================
