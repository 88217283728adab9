------------------------------- MODULE SignIn -------------------------------
(***************************************************************************)
(* Signing in and staying signed in: AuthService, with the status and      *)
(* unlock operations of UsersService, for one user.  Every query names its *)
(* user, so two users meet only in the limit of attempts per address,      *)
(* which refuses a sign-in without a trace in these collections.           *)
(*                                                                         *)
(* A session document is one generation of a refresh token: a refresh      *)
(* retires it and creates the next one, of the same family (the device).   *)
(* A handler's reads before a write are one action, each write is another; *)
(* a handler that refuses without a write is no step.                      *)
(***************************************************************************)
EXTENDS Integers, Sequences, FiniteSets

CONSTANTS
    Calls,      \* slots for handlers that run at the same time
    MaxFailed,  \* maxFailedAttempts of the security policy
    MaxTries,   \* wrong entries after which a one-time code is given up
    MaxMisses,  \* bound on wrong passwords in a row
    Regimes     \* the handlers in use, how many may overlap, and bounds on
                \* sessions, on reset requests and on handlers that stop

Handlers == {"login", "refresh", "logout", "revoke", "forgot", "otp", "link",
             "change", "status", "unlock"}

ASSUME SignInAssumption ==
    /\ {MaxFailed, MaxTries, MaxMisses} \subseteq Nat \ {0}
    /\ Regimes \subseteq [width: Nat \ {0}, handlers: SUBSET Handlers,
                          sessions: Nat, codes: Nat, aborts: Nat]

\* INACTIVE is treated as SUSPENDED is.
UserStatuses == {"ACTIVE", "SUSPENDED", "LOCKED"}
SessionStates == {"LIVE", "EXPIRED", "REVOKED", "ROTATED", "LOGOUT", "REVOKED_BY_USER"}

VARIABLES
    user,      \* status, failedLoginAttempts, and lockedUntil against the clock
    sessions,  \* session documents, in the order they were created
    otps,      \* one-time codes, in the order they were created
    links,     \* reset links, likewise
    call,      \* the handlers
    aborts,
    misses,    \* wrong passwords since the count was last set to zero
    resets,    \* passwords set by a code or a link
    regime     \* one of Regimes, the same all along

vars == <<user, sessions, otps, links, call, aborts, misses, resets, regime>>

Users    == [status: UserStatuses, fails: Nat, lock: {"none", "running", "over"}]
Sessions == [family: Nat, parent: Nat, since: Nat, state: SessionStates]
Otps     == [used: BOOLEAN, over: BOOLEAN, tries: Nat, served: Nat]
Links    == [used: BOOLEAN, over: BOOLEAN, served: Nat]

TypeOK ==
    /\ user \in Users
    /\ sessions \in Seq(Sessions) /\ otps \in Seq(Otps) /\ links \in Seq(Links)
    /\ call \in [Calls -> [at: {"idle", "fail", "pass", "issue", "retire", "deny",
                    "logout", "voidotps", "voidlinks", "newotp", "newlink", "burn",
                    "miss", "use", "setotp", "setlink", "setown", "uselink",
                    "revoke", "status", "unlock"},
                  item: Nat, seen: Users]]
    /\ regime \in Regimes
    /\ aborts \in 0..regime.aborts
    /\ {misses, resets} \subseteq Nat

Quiet == \A c \in Calls : call[c].at = "idle"

Cleared == [status |-> "ACTIVE", fails |-> 0, lock |-> "none"]
Idle    == [at |-> "idle", item |-> 0, seen |-> Cleared]

\* A handler may start while fewer than the regime's width are running.
MayStart == Cardinality({d \in Calls : call[d].at # "idle"}) < regime.width

\* A handler starts: it has read and checked, its first write is next.
Begin(c, handler, at, item) ==
    /\ handler \in regime.handlers
    /\ call[c].at = "idle"
    /\ MayStart
    /\ call' = [call EXCEPT ![c] = [at |-> at, item |-> item,
                  seen |-> IF at \in {"fail", "status", "unlock"} THEN user ELSE Cleared]]
    /\ UNCHANGED <<user, sessions, otps, links, aborts, misses, resets, regime>>

Goto(c, at) == call' = [call EXCEPT ![c].at = at]
End(c) == call' = [call EXCEPT ![c] = Idle]

-----------------------------------------------------------------------------
(* Signing in *)

PastLock == user.status # "LOCKED" /\ user.lock # "running"

Room == Len(sessions) < regime.sessions

\* Faulty variant: only a lock that is running keeps somebody out.
LoginReadSuspended(c) ==
    /\ user.lock # "running"
    /\ \/ misses < MaxMisses /\ user.fails < MaxMisses /\ Begin(c, "login", "fail", 0)
       \/ Room /\ Begin(c, "login", "pass", 0)

\* The lock, the status, and then the password, right or wrong.
LoginRead(c) ==
    /\ PastLock /\ user.status # "SUSPENDED"
    /\ \/ misses < MaxMisses /\ user.fails < MaxMisses /\ Begin(c, "login", "fail", 0)
       \/ Room /\ Begin(c, "login", "pass", 0)

\* Faulty variant: the account is locked one attempt late.
LoginFailLate(c) ==
    LET n == call[c].seen.fails + 1
    IN  /\ call[c].at = "fail"
        /\ user' = IF n > MaxFailed
                   THEN [status |-> "LOCKED", fails |-> n, lock |-> "running"]
                   ELSE [status |-> call[c].seen.status, fails |-> n, lock |-> "none"]
        /\ misses' = misses + 1
        /\ End(c)
        /\ UNCHANGED <<sessions, otps, links, aborts, resets, regime>>

\* Faulty variant: the account is locked, and no end of the lock is set.
LoginFailOpenEnd(c) ==
    LET n == call[c].seen.fails + 1
    IN  /\ call[c].at = "fail"
        /\ user' = [status |-> IF n >= MaxFailed THEN "LOCKED" ELSE call[c].seen.status,
                    fails |-> n, lock |-> "none"]
        /\ misses' = misses + 1
        /\ End(c)
        /\ UNCHANGED <<sessions, otps, links, aborts, resets, regime>>

\* The count, the lock and the status are written from what was read.
LoginFail(c) ==
    LET n == call[c].seen.fails + 1
    IN  /\ call[c].at = "fail"
        /\ user' = IF n >= MaxFailed
                   THEN [status |-> "LOCKED", fails |-> n, lock |-> "running"]
                   ELSE [status |-> call[c].seen.status, fails |-> n, lock |-> "none"]
        /\ misses' = misses + 1
        /\ End(c)
        /\ UNCHANGED <<sessions, otps, links, aborts, resets, regime>>

LoginPass(c) ==
    /\ call[c].at = "pass"
    /\ user' = Cleared
    /\ misses' = 0
    /\ Goto(c, "issue")
    /\ UNCHANGED <<sessions, otps, links, aborts, resets, regime>>

\* issueSession: a fresh sign-in begins a family, a refresh continues one.
Issue(c) ==
    LET parent == call[c].item
        family == IF parent = 0 THEN Len(sessions) + 1 ELSE sessions[parent].family
    IN  /\ call[c].at = "issue"
        /\ sessions' = Append(sessions, [family |-> family, parent |-> parent,
                                         since |-> resets, state |-> "LIVE"])
        /\ End(c)
        /\ UNCHANGED <<user, otps, links, aborts, misses, resets, regime>>

-----------------------------------------------------------------------------
(* Sessions *)

Live == {i \in DOMAIN sessions : sessions[i].state = "LIVE"}

Mark(S, state) ==
    sessions' = [i \in DOMAIN sessions |->
                    IF i \in S THEN [sessions[i] EXCEPT !.state = state] ELSE sessions[i]]

\* Faulty variant: any session that this server issued may be presented.
RefreshReadAny(c) == \E i \in DOMAIN sessions :
    /\ Room
    /\ Begin(c, "refresh", IF user.status = "ACTIVE" THEN "retire" ELSE "deny", i)

\* The token's session, if it is live; then its user.
RefreshRead(c) == \E i \in Live :
    /\ Room
    /\ Begin(c, "refresh", IF user.status = "ACTIVE" THEN "retire" ELSE "deny", i)

\* Faulty variant: the replacement is created first.
RefreshRetireLate(c) ==
    /\ call[c].at = "retire"
    /\ sessions' = Append(sessions, [family |-> sessions[call[c].item].family,
                                     parent |-> call[c].item, since |-> resets,
                                     state |-> "LIVE"])
    /\ Goto(c, "deny")
    /\ UNCHANGED <<user, otps, links, aborts, misses, resets, regime>>

\* The presented session is retired, whatever has become of it.
RefreshRetire(c) ==
    /\ call[c].at = "retire"
    /\ Mark({call[c].item}, "ROTATED")
    /\ Goto(c, "issue")
    /\ UNCHANGED <<user, otps, links, aborts, misses, resets, regime>>

\* The account is no longer active: the presented session ends.
RefreshDeny(c) ==
    /\ call[c].at = "deny"
    /\ Mark({call[c].item} \cap Live, "REVOKED")
    /\ End(c)
    /\ UNCHANGED <<user, otps, links, aborts, misses, resets, regime>>

\* logout: the session of the token, or else the latest that is live.
LogoutRead(c) == \E i \in Live : Begin(c, "logout", "logout", i)

LogoutSave(c) ==
    /\ call[c].at = "logout"
    /\ Mark({call[c].item} \cap Live, "REVOKED")
    /\ End(c)
    /\ UNCHANGED <<user, otps, links, aborts, misses, resets, regime>>

OfFamily(f) == {i \in Live : sessions[i].family = f}

\* revokeSession, revokeOtherSessions and logoutAll, one updateMany each.
Revoke ==
    /\ "revoke" \in regime.handlers /\ MayStart
    /\ \E i \in Live :
         \/ Mark(OfFamily(sessions[i].family), "REVOKED_BY_USER")
         \/ Mark(Live \ OfFamily(sessions[i].family), "REVOKED_BY_USER")
         \/ Mark(Live, "LOGOUT")
    /\ UNCHANGED <<user, otps, links, call, aborts, misses, resets, regime>>

-----------------------------------------------------------------------------
(* Forgotten passwords *)

UsableOtps  == {i \in DOMAIN otps : ~otps[i].used /\ ~otps[i].over}
UsableLinks == {i \in DOMAIN links : ~links[i].used /\ ~links[i].over}

AllUsed(codes) == [i \in DOMAIN codes |-> [codes[i] EXCEPT !.used = TRUE]]

\* Faulty variant: the codes of earlier requests stay in use.
ForgotReadKeeps(c) ==
    /\ Len(otps) < regime.codes
    /\ Begin(c, "forgot", "voidlinks", 0)

ForgotRead(c) ==
    /\ Len(otps) < regime.codes
    /\ Begin(c, "forgot", "voidotps", 0)

ForgotVoidOtps(c) ==
    /\ call[c].at = "voidotps"
    /\ otps' = AllUsed(otps)
    /\ Goto(c, "voidlinks")
    /\ UNCHANGED <<user, sessions, links, aborts, misses, resets, regime>>

ForgotVoidLinks(c) ==
    /\ call[c].at = "voidlinks"
    /\ links' = AllUsed(links)
    /\ Goto(c, "newotp")
    /\ UNCHANGED <<user, sessions, otps, aborts, misses, resets, regime>>

ForgotNewOtp(c) ==
    /\ call[c].at = "newotp"
    /\ otps' = Append(otps, [used |-> FALSE, over |-> FALSE, tries |-> 0, served |-> 0])
    /\ Goto(c, "newlink")
    /\ UNCHANGED <<user, sessions, links, aborts, misses, resets, regime>>

ForgotNewLink(c) ==
    /\ call[c].at = "newlink"
    /\ links' = Append(links, [used |-> FALSE, over |-> FALSE, served |-> 0])
    /\ End(c)
    /\ UNCHANGED <<user, sessions, otps, aborts, misses, resets, regime>>

\* Faulty variant: a code is given up only after the limit was passed.
OtpReadLenient(c) == \E i \in UsableOtps :
    /\ \A j \in UsableOtps : j <= i
    /\ \/ otps[i].tries > MaxTries /\ Begin(c, "otp", "burn", i)
       \/ otps[i].tries <= MaxTries /\ (Begin(c, "otp", "miss", i) \/ Begin(c, "otp", "use", i))

\* The latest code that can be used; tried too often it is given up, and it is
\* entered rightly or wrongly otherwise.
OtpRead(c) == \E i \in UsableOtps :
    /\ \A j \in UsableOtps : j <= i
    /\ \/ otps[i].tries >= MaxTries /\ Begin(c, "otp", "burn", i)
       \/ otps[i].tries < MaxTries /\ (Begin(c, "otp", "miss", i) \/ Begin(c, "otp", "use", i))

OtpBurn(c) ==
    /\ call[c].at = "burn"
    /\ otps' = [otps EXCEPT ![call[c].item].used = TRUE]
    /\ End(c)
    /\ UNCHANGED <<user, sessions, links, aborts, misses, resets, regime>>

OtpMiss(c) ==
    /\ call[c].at = "miss"
    /\ otps' = [otps EXCEPT ![call[c].item].tries = @ + 1]
    /\ End(c)
    /\ UNCHANGED <<user, sessions, links, aborts, misses, resets, regime>>

\* Faulty variant: the code stays good for another time.
OtpUseKeeps(c) ==
    /\ call[c].at = "use"
    /\ Goto(c, "setotp")
    /\ UNCHANGED <<user, sessions, otps, links, aborts, misses, resets, regime>>

OtpUse(c) ==
    /\ call[c].at = "use"
    /\ otps' = [otps EXCEPT ![call[c].item].used = TRUE]
    /\ Goto(c, "setotp")
    /\ UNCHANGED <<user, sessions, links, aborts, misses, resets, regime>>

LinkRead(c) == \E i \in UsableLinks : Begin(c, "link", "setlink", i)

ChangeRead(c) == user.status = "ACTIVE" /\ Begin(c, "change", "setown", 0)

\* The password is set, and the account is unlocked and made active with it.
SetOtp(c) ==
    /\ call[c].at = "setotp"
    /\ user' = Cleared /\ misses' = 0 /\ resets' = resets + 1
    /\ otps' = [otps EXCEPT ![call[c].item].served = @ + 1]
    /\ Goto(c, "revoke")
    /\ UNCHANGED <<sessions, links, aborts, regime>>

SetLink(c) ==
    /\ call[c].at = "setlink"
    /\ user' = Cleared /\ misses' = 0 /\ resets' = resets + 1
    /\ links' = [links EXCEPT ![call[c].item].served = @ + 1]
    /\ Goto(c, "uselink")
    /\ UNCHANGED <<sessions, otps, aborts, regime>>

SetOwn(c) ==
    /\ call[c].at = "setown"
    /\ user' = Cleared /\ misses' = 0
    /\ End(c)
    /\ UNCHANGED <<sessions, otps, links, aborts, resets, regime>>

LinkUse(c) ==
    /\ call[c].at = "uselink"
    /\ links' = [links EXCEPT ![call[c].item].used = TRUE]
    /\ Goto(c, "revoke")
    /\ UNCHANGED <<user, sessions, otps, aborts, misses, resets, regime>>

\* Faulty variant: the newest session, taken for the caller's, is spared.
RevokeAllButOne(c) ==
    /\ call[c].at = "revoke"
    /\ Mark({i \in Live : i < Len(sessions)}, "REVOKED")
    /\ End(c)
    /\ UNCHANGED <<user, otps, links, aborts, misses, resets, regime>>

\* "Revoke all existing sessions for this user".
RevokeAll(c) ==
    /\ call[c].at = "revoke"
    /\ Mark(Live, "REVOKED")
    /\ End(c)
    /\ UNCHANGED <<user, otps, links, aborts, misses, resets, regime>>

-----------------------------------------------------------------------------
(* Administration, errors and time *)

\* updateUserStatus saves the status that was asked for, unless it was so.
StatusRead(c) == Begin(c, "status", "status", 0)

StatusSave(c) ==
    /\ call[c].at = "status"
    /\ \E s \in UserStatuses \ {call[c].seen.status} :
           user' = [user EXCEPT !.status = s]
    /\ End(c)
    /\ UNCHANGED <<sessions, otps, links, aborts, misses, resets, regime>>

UnlockRead(c) == Begin(c, "unlock", "unlock", 0)

\* Faulty variant: one failure is forgiven.
UnlockSaveOne(c) ==
    /\ call[c].at = "unlock"
    /\ user' = [status |-> "ACTIVE", fails |-> user.fails - 1, lock |-> "none"]
    /\ misses' = 0
    /\ End(c)
    /\ UNCHANGED <<sessions, otps, links, aborts, resets, regime>>

\* unlockUser saves the fields in which the copy it read was changed.
UnlockSave(c) ==
    LET seen == call[c].seen
    IN  /\ call[c].at = "unlock"
        /\ user' = [fails  |-> IF seen.fails # 0 THEN 0 ELSE user.fails,
                    lock   |-> IF seen.lock # "none" THEN "none" ELSE user.lock,
                    status |-> IF seen.status = "LOCKED" THEN "ACTIVE" ELSE user.status]
        /\ misses' = 0
        /\ End(c)
        /\ UNCHANGED <<sessions, otps, links, aborts, resets, regime>>

\* A database error ends a handler after its first write.
Abort(c) ==
    /\ call[c].at \in {"issue", "voidlinks", "newotp", "newlink", "setotp", "uselink", "revoke"}
    /\ aborts < regime.aborts
    /\ aborts' = aborts + 1
    /\ End(c)
    /\ UNCHANGED <<user, sessions, otps, links, misses, resets, regime>>

LockEnds ==
    /\ user.lock = "running"
    /\ user' = [user EXCEPT !.lock = "over"]
    /\ UNCHANGED <<sessions, otps, links, call, aborts, misses, resets, regime>>

SessionExpires == \E i \in Live :
    /\ Mark({i}, "EXPIRED")
    /\ UNCHANGED <<user, otps, links, call, aborts, misses, resets, regime>>

CodesExpire ==
    \/ /\ \E i \in UsableOtps : otps' = [otps EXCEPT ![i].over = TRUE]
       /\ UNCHANGED <<user, sessions, links, call, aborts, misses, resets, regime>>
    \/ /\ \E i \in UsableLinks : links' = [links EXCEPT ![i].over = TRUE]
       /\ UNCHANGED <<user, sessions, otps, call, aborts, misses, resets, regime>>

-----------------------------------------------------------------------------
Init ==
    /\ user = Cleared
    /\ sessions = <<>> /\ otps = <<>> /\ links = <<>>
    /\ call = [c \in Calls |-> Idle]
    /\ aborts = 0 /\ misses = 0 /\ resets = 0
    /\ regime \in Regimes

Next ==
    \/ \E c \in Calls :
         \/ LoginRead(c) \/ LoginFail(c) \/ LoginPass(c) \/ Issue(c)
         \/ RefreshRead(c) \/ RefreshRetire(c) \/ RefreshDeny(c)
         \/ LogoutRead(c) \/ LogoutSave(c)
         \/ ForgotRead(c) \/ ForgotVoidOtps(c) \/ ForgotVoidLinks(c)
         \/ ForgotNewOtp(c) \/ ForgotNewLink(c)
         \/ OtpRead(c) \/ OtpBurn(c) \/ OtpMiss(c) \/ OtpUse(c) \/ LinkRead(c)
         \/ ChangeRead(c) \/ SetOtp(c) \/ SetLink(c) \/ SetOwn(c) \/ LinkUse(c)
         \/ RevokeAll(c)
         \/ StatusRead(c) \/ StatusSave(c) \/ UnlockRead(c) \/ UnlockSave(c)
         \/ Abort(c)
    \/ Revoke \/ LockEnds \/ SessionExpires \/ CodesExpire

Spec == Init /\ [][Next]_vars

-----------------------------------------------------------------------------
(* However the handlers interleave *)

\* "Retire the presented session before minting its replacement": at no moment,
\* and however a refresh is cut short, are a session and one that replaced it
\* both live.
RetiredBeforeReplaced ==
    \A i, j \in Live : sessions[j].parent # i

\* "Check attempts to protect against guessing": a code is tried at most as
\* often as the limit says, plus once for each handler that overlapped.
TriesBounded ==
    \A i \in DOMAIN otps : otps[i].tries <= MaxTries + regime.width - 1

-----------------------------------------------------------------------------
(* When one handler runs at a time *)

OneAtATime == regime.width = 1

\* Every wrong password counts, and the one that reaches the limit locks the
\* account, unless the status is set by hand.
EveryFailureCounts ==
    OneAtATime =>
        /\ user.fails = misses
        /\ misses >= MaxFailed /\ "status" \notin regime.handlers => user.status = "LOCKED"

\* A locked account has an end of its lock: login computes the minutes that
\* remain from it, and has none to compute from when the status was set to
\* LOCKED by hand.
LockHasEnd ==
    OneAtATime /\ user.status = "LOCKED" /\ "status" \notin regime.handlers
        => user.lock # "none"

\* "One live record per device": rotation carries the family forward.
OneSessionPerDevice ==
    OneAtATime => \A i, j \in Live : sessions[i].family = sessions[j].family => i = j

\* A device that was signed out, from the list or with all others, is not
\* signed in again by the token it still holds.
SignedOutStaysOut ==
    OneAtATime => \A i \in DOMAIN sessions, j \in Live :
        sessions[i].state \in {"REVOKED_BY_USER", "LOGOUT"}
            => sessions[i].family # sessions[j].family

\* After a reset was answered, nobody stays signed in from before it.
ResetEndsSessions ==
    OneAtATime /\ Quiet /\ aborts = 0 => \A i \in Live : sessions[i].since = resets

\* A new request for a code takes the earlier codes and links out of use.
LatestCodeOnly ==
    OneAtATime => Cardinality(UsableOtps) <= 1 /\ Cardinality(UsableLinks) <= 1

\* A code, and a link, set one password.
CodeServesOnce ==
    OneAtATime /\ aborts = 0 =>
        /\ \A i \in DOMAIN otps : otps[i].served <= 1
        /\ \A i \in DOMAIN links : links[i].served <= 1

\* A suspended account becomes active by hand or by a reset, never by a sign-in
\* or a refresh.
SuspensionHolds ==
    [][OneAtATime /\ user.status = "SUSPENDED" =>
          \/ user'.status = "SUSPENDED"
          \/ \E c \in Calls : call[c].at \in {"status", "setotp", "setlink"}]_user

\* Sessions follow one another: none beside its replacement, one to a device,
\* none after a sign-out or from before a reset (refreshSession, revokeSession).
SessionsInOrder ==
    RetiredBeforeReplaced /\ OneSessionPerDevice /\ SignedOutStaysOut /\ ResetEndsSessions

\* A code is the latest, serves once, and is guessed at a few times
\* (forgotPassword, verifyOtp, resetPassword).
CodesInOrder == TriesBounded /\ LatestCodeOnly /\ CodeServesOnce

\* Wrong passwords lead to a lock, and the lock to its end (login, unlockUser).
LocksInOrder == EveryFailureCounts /\ LockHasEnd

-----------------------------------------------------------------------------
\* "Please try again after N minutes" (auth.service.ts:587): a lock that is
\* over keeps nobody out.
LockWearsOff == user.lock = "over" => PastLock
=============================================================================
