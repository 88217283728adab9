------------------------------- MODULE MCSignIn -------------------------------
(* Small instances of SignIn.                                                *)
EXTENDS SignIn, TLC

Regime(width, handlers, sessions_, codes, aborts_) ==
    [width |-> width, handlers |-> handlers, sessions |-> sessions_,
     codes |-> codes, aborts |-> aborts_]

Devices == {"login", "refresh", "logout", "revoke"}
Codes   == {"forgot", "otp", "link"}

MCRegimes ==
    {Regime(1, {"login", "unlock", "change"}, 2, 0, 0),
     Regime(1, {"login", "unlock", "status", "refresh"}, 2, 0, 0),
     Regime(1, Devices \cup {"status"}, 3, 0, 1),
     Regime(1, Devices, 4, 0, 1),
     Regime(2, {"login", "refresh", "logout"}, 3, 0, 1),
     Regime(1, Codes \cup {"login", "refresh"}, 2, 1, 0),
     Regime(1, Codes \cup {"login", "status"}, 1, 1, 0),
     Regime(1, Codes, 0, 2, 1),
     Regime(2, {"forgot", "otp"}, 0, 1, 0)}

\* Sign-ins alone, for the lock.
LockRegimes == {Regime(1, {"login"}, 1, 0, 0)}

Symm == Permutations(Calls)
=============================================================================
