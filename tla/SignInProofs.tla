----------------------------- MODULE SignInProofs -----------------------------
(***************************************************************************)
(* Proofs about SignIn, for any number of handlers, sessions and codes and *)
(* every regime.                                                           *)
(***************************************************************************)
EXTENDS SignIn, SequenceTheorems, FiniteSetTheorems, TLAPS

(***************************************************************************)
(* The inductive invariants                                                *)
(***************************************************************************)

\* The handlers that run; a regime's width bounds them.
Busy == {c \in Calls : call[c].at # "idle"}

WidthInv == IsFiniteSet(Busy) /\ Cardinality(Busy) <= regime.width

\* A handler works on documents that exist, and one that is about to issue a
\* session replaces one that has been retired, or none.
ItemsInv ==
    \A c \in Calls :
        LET k == call[c]
        IN  /\ k.at \in {"retire", "deny", "logout"} => k.item \in DOMAIN sessions
            /\ k.at = "pass" => k.item = 0
            /\ k.at = "issue" => \/ k.item = 0
                                 \/ /\ k.item \in DOMAIN sessions
                                    /\ sessions[k.item].state # "LIVE"
            /\ k.at \in {"burn", "miss", "use", "setotp"} => k.item \in DOMAIN otps
            /\ k.at \in {"setlink", "uselink"} => k.item \in DOMAIN links

\* A replaced session came first, and is not live.
LineageInv ==
    \A i \in DOMAIN sessions :
        /\ sessions[i].parent < i
        /\ sessions[i].family \in 1..i
        /\ \A j \in DOMAIN sessions : sessions[j].parent = i => sessions[i].state # "LIVE"

\* Sessions that the user, or a sign-out everywhere, ended.
SignedOut == {i \in DOMAIN sessions : sessions[i].state \in {"REVOKED_BY_USER", "LOGOUT"}}

\* One handler at a time: a device's live session is the only one, and while it
\* is being replaced there is none beside it.
DevicesInv ==
    OneAtATime =>
        /\ OneSessionPerDevice /\ SignedOutStaysOut
        /\ \A c \in Calls :
             LET k == call[c]
             IN  k.at \in {"retire", "issue"} /\ k.item # 0 =>
                   /\ \A j \in Live : sessions[j].family = sessions[k.item].family
                                         => k.at = "retire" /\ j = k.item
                   /\ \A i \in SignedOut : sessions[i].family # sessions[k.item].family

\* Sessions from before a reset are live only while the reset goes on.
ResetInv ==
    OneAtATime /\ aborts = 0 =>
        \/ \A i \in Live : sessions[i].since = resets
        \/ \E c \in Calls : call[c].at \in {"uselink", "revoke"}

\* The wrong entries that running handlers are about to count are counted here.
Missing(i) == {c \in Calls : call[c].at = "miss" /\ call[c].item = i}

TriesInv ==
    \A i \in DOMAIN otps :
        otps[i].tries + Cardinality(Missing(i)) <= MaxTries + regime.width - 1

\* One handler at a time: at most one code and one link can be used, and none
\* between the withdrawal of the earlier ones and the issue of the next.
LatestInv ==
    OneAtATime =>
        /\ \A i, j \in UsableOtps : i = j
        /\ \A i, j \in UsableLinks : i = j
        /\ \A c \in Calls :
             /\ call[c].at \in {"voidlinks", "newotp"} => UsableOtps = {}
             /\ call[c].at \in {"newotp", "newlink"} => UsableLinks = {}

\* What has not been used has set no password, or is just setting its first.
ServedInv ==
    OneAtATime /\ aborts = 0 =>
        /\ \A i \in DOMAIN otps : /\ otps[i].served <= 1
                                  /\ ~otps[i].used => otps[i].served = 0
        /\ \A i \in DOMAIN links :
             /\ links[i].served <= 1
             /\ ~links[i].used => \/ links[i].served = 0
                                  \/ \E c \in Calls : call[c].at = "uselink" /\ call[c].item = i
        /\ \A c \in Calls :
             LET k == call[c]
             IN  /\ k.at = "use" => ~otps[k.item].used
                 /\ k.at = "setotp" => otps[k.item].served = 0 /\ otps[k.item].used
                 /\ k.at = "setlink" => links[k.item].served = 0

\* One handler at a time: what a handler has read of the user is what is stored,
\* apart from a lock that has come to its end.
ReadInv ==
    OneAtATime =>
        \A c \in Calls :
            LET k == call[c]
            IN  /\ k.at = "fail" => k.seen = user
                /\ k.at = "unlock" => /\ k.seen.fails = user.fails
                                      /\ k.seen.status = user.status
                                      /\ k.seen.lock = "none" <=> user.lock = "none"
                /\ k.at \in {"fail", "pass"} => user.status = "ACTIVE" /\ user.lock # "running"
                /\ k.at = "setown" => user.status = "ACTIVE"
                /\ k.at = "status" => "status" \in regime.handlers

(***************************************************************************)
(* Handlers                                                                *)
(***************************************************************************)

Stages == {"idle", "fail", "pass", "issue", "retire", "deny", "logout", "voidotps",
           "voidlinks", "newotp", "newlink", "burn", "miss", "use", "setotp", "setlink",
           "setown", "uselink", "revoke", "status", "unlock"}

CallStates == [at: Stages, item: Nat, seen: Users]

LEMMA RegimeType ==
    ASSUME TypeOK
    PROVE  /\ regime.width \in Nat /\ regime.width > 0 /\ regime.aborts \in Nat
           /\ MaxFailed \in Nat /\ MaxTries \in Nat /\ MaxFailed > 0
           /\ user \in Users /\ misses \in Nat /\ resets \in Nat /\ aborts \in Nat
           /\ call \in [Calls -> CallStates]
  BY SignInAssumption DEF TypeOK, CallStates, Stages

\* In a regime of one handler at a time no two run, and none runs when one may
\* start.
LEMMA Alone ==
    ASSUME TypeOK, WidthInv, OneAtATime
    PROVE  /\ \A c, d \in Calls : call[c].at # "idle" /\ call[d].at # "idle" => c = d
           /\ MayStart => \A c \in Calls : call[c].at = "idle"
  <1>1. Cardinality(Busy) \in Nat /\ Cardinality(Busy) <= 1 /\ IsFiniteSet(Busy)
    BY FS_CardinalityType DEF WidthInv, OneAtATime
  <1>2. ASSUME NEW c \in Busy, NEW d \in Busy, c # d PROVE FALSE
    <2>1. IsFiniteSet(Busy \ {c}) /\ Cardinality(Busy \ {c}) = Cardinality(Busy) - 1
      BY <1>1, <1>2, FS_RemoveElement
    <2>2. Cardinality(Busy \ {c}) = 0
      BY <1>1, <2>1, FS_CardinalityType
    <2> QED
      BY <1>2, <2>1, <2>2, FS_EmptySet
  <1>3. MayStart => Busy = {}
    BY <1>1, FS_EmptySet DEF MayStart, OneAtATime, Busy
  <1> QED
    BY <1>2, <1>3 DEF Busy

\* A handler that starts is one more, and the only one of its kind to change.
LEMMA Began ==
    ASSUME TypeOK, NEW c \in Calls, NEW handler, NEW at \in Stages, NEW item \in Nat,
           Begin(c, handler, at, item)
    PROVE  /\ TypeOK'
           /\ call[c].at = "idle" /\ MayStart /\ handler \in regime.handlers
           /\ \A d \in Calls \ {c} : call'[d] = call[d]
           /\ call'[c].at = at /\ call'[c].item = item
           /\ at \in {"fail", "status", "unlock"} => call'[c].seen = user
           /\ UNCHANGED <<user, sessions, otps, links, aborts, misses, resets, regime>>
  <1> DEFINE seen == IF at \in {"fail", "status", "unlock"} THEN user ELSE Cleared
             k == [at |-> at, item |-> item, seen |-> seen]
  <1>1. k \in CallStates
    BY RegimeType DEF CallStates, Cleared, Users, UserStatuses
  <1>2. call' = [call EXCEPT ![c] = k]
    BY DEF Begin
  <1>3. k.at = at /\ k.item = item /\ k.seen = seen
    OBVIOUS
  <1> HIDE DEF k
  <1>4. call' \in [Calls -> CallStates] /\ call'[c] = k
    BY <1>1, <1>2, RegimeType
  <1>5. \A d \in Calls \ {c} : call'[d] = call[d]
    BY <1>2, RegimeType
  <1> QED
    BY <1>3, <1>4, <1>5 DEF Begin, TypeOK, CallStates, Stages

\* One that goes on keeps what it works on.
LEMMA Went ==
    ASSUME TypeOK, NEW c \in Calls, NEW at \in Stages, Goto(c, at)
    PROVE  /\ call' \in [Calls -> CallStates]
           /\ \A d \in Calls \ {c} : call'[d] = call[d]
           /\ call'[c].at = at /\ call'[c].item = call[c].item
  BY RegimeType DEF Goto, CallStates

LEMMA Ended ==
    ASSUME TypeOK, NEW c \in Calls, End(c)
    PROVE  /\ call' \in [Calls -> CallStates]
           /\ \A d \in Calls \ {c} : call'[d] = call[d]
           /\ call'[c].at = "idle"
  <1>1. Idle \in CallStates /\ Idle.at = "idle"
    BY DEF Idle, CallStates, Stages, Cleared, Users, UserStatuses
  <1> QED
    BY <1>1, RegimeType DEF End

(***************************************************************************)
(* Sessions and codes                                                      *)
(***************************************************************************)

\* Ending sessions changes their state and nothing else.
LEMMA MarkEffect ==
    ASSUME sessions \in Seq(Sessions), NEW S, NEW state \in SessionStates, Mark(S, state)
    PROVE  /\ sessions' \in Seq(Sessions)
           /\ DOMAIN sessions' = DOMAIN sessions
           /\ \A i \in DOMAIN sessions :
                 /\ sessions'[i].family = sessions[i].family
                 /\ sessions'[i].parent = sessions[i].parent
                 /\ sessions'[i].since = sessions[i].since
                 /\ sessions'[i].state = IF i \in S THEN state ELSE sessions[i].state
  <1>1. /\ Len(sessions) \in Nat /\ DOMAIN sessions = 1..Len(sessions)
        /\ \A i \in DOMAIN sessions : sessions[i] \in Sessions
    BY LenProperties, ElementOfSeq
  <1>2. \A i \in DOMAIN sessions :
          sessions'[i] = IF i \in S THEN [sessions[i] EXCEPT !.state = state] ELSE sessions[i]
    BY DEF Mark
  <1>3. ASSUME NEW q \in Sessions, NEW h, h = [q EXCEPT !.state = state]
        PROVE  /\ h \in Sessions /\ h.family = q.family /\ h.parent = q.parent
               /\ h.since = q.since /\ h.state = state
    BY <1>3 DEF Sessions
  <1>4. \A i \in DOMAIN sessions :
                 /\ sessions'[i] \in Sessions
                 /\ sessions'[i].family = sessions[i].family
                 /\ sessions'[i].parent = sessions[i].parent
                 /\ sessions'[i].since = sessions[i].since
                 /\ sessions'[i].state = IF i \in S THEN state ELSE sessions[i].state
    BY ZenonT(40), <1>1, <1>2, <1>3
  <1>5. DOMAIN sessions' = DOMAIN sessions
        /\ sessions' = [i \in DOMAIN sessions |-> sessions'[i]]
    BY DEF Mark
  <1>6. sessions' \in [1..Len(sessions) -> Sessions]
    BY <1>1, <1>4, <1>5
  <1>7. sessions' \in Seq(Sessions)
    BY <1>1, <1>6, SeqDef
  <1> QED
    BY <1>4, <1>5, <1>7

\* Issuing one appends a live session.
LEMMA IssueEffect ==
    ASSUME TypeOK, ItemsInv, LineageInv, NEW c \in Calls, Issue(c)
    PROVE  LET n == Len(sessions) + 1
               parent == call[c].item
           IN  /\ sessions' \in Seq(Sessions)
               /\ Len(sessions) \in Nat /\ DOMAIN sessions = 1..Len(sessions)
               /\ DOMAIN sessions' = 1..n
               /\ \A i \in DOMAIN sessions : sessions'[i] = sessions[i]
               /\ sessions'[n].parent = parent /\ sessions'[n].since = resets
               /\ sessions'[n].state = "LIVE"
               /\ sessions'[n].family = IF parent = 0 THEN n ELSE sessions[parent].family
  <1> DEFINE parent == call[c].item
             family == IF parent = 0 THEN Len(sessions) + 1 ELSE sessions[parent].family
             s == [family |-> family, parent |-> parent, since |-> resets, state |-> "LIVE"]
  <1>1. /\ Len(sessions) \in Nat /\ DOMAIN sessions = 1..Len(sessions)
        /\ \A i \in DOMAIN sessions : sessions[i] \in Sessions
        /\ sessions \in Seq(Sessions)
    BY LenProperties, ElementOfSeq DEF TypeOK
  <1>2. parent \in Nat /\ (parent = 0 \/ parent \in DOMAIN sessions)
    BY RegimeType DEF ItemsInv, Issue, CallStates
  <1>3. family \in Nat
    BY <1>1, <1>2 DEF Sessions
  <1>4. s \in Sessions /\ sessions' = Append(sessions, s)
    BY <1>2, <1>3, RegimeType DEF Issue, Sessions, SessionStates
  <1>5. /\ s.parent = parent /\ s.since = resets /\ s.state = "LIVE" /\ s.family = family
    OBVIOUS
  <1> HIDE DEF s
  <1>6. /\ sessions' \in Seq(Sessions) /\ Len(sessions') = Len(sessions) + 1
        /\ \A i \in 1..Len(sessions) : sessions'[i] = sessions[i]
        /\ sessions'[Len(sessions) + 1] = s
    BY <1>1, <1>4, AppendProperties
  <1>7. DOMAIN sessions' = 1..(Len(sessions) + 1)
    BY <1>6, LenProperties
  <1> QED
    BY <1>1, <1>5, <1>6, <1>7

\* One document of a sequence is replaced.
LEMMA Replaced ==
    ASSUME NEW R, NEW s \in Seq(R), NEW i \in DOMAIN s, NEW e \in R,
           NEW t, t = [s EXCEPT ![i] = e]
    PROVE  /\ t \in Seq(R) /\ DOMAIN t = DOMAIN s
           /\ t[i] = e /\ \A j \in DOMAIN s \ {i} : t[j] = s[j]
  <1>1. DOMAIN s = 1..Len(s)
    BY LenProperties
  <1>2. t \in Seq(R)
    BY <1>1, ExceptSeq
  <1> QED
    BY <1>1, <1>2

\* Every document of a sequence is rewritten within its type.
LEMMA Rewritten ==
    ASSUME NEW R, NEW s \in Seq(R), NEW t, t = [i \in DOMAIN s |-> t[i]],
           \A i \in DOMAIN s : t[i] \in R
    PROVE  t \in Seq(R) /\ DOMAIN t = DOMAIN s
  <1>1. DOMAIN s = 1..Len(s) /\ Len(s) \in Nat
    BY LenProperties
  <1>2. t \in [1..Len(s) -> R]
    BY <1>1
  <1> QED
    BY <1>1, <1>2, SeqDef

\* The documents of two sequences of codes agree but for these fields.
OtpsKeep(fields) ==
    /\ otps' \in Seq(Otps) /\ DOMAIN otps' = DOMAIN otps
    /\ \A i \in DOMAIN otps :
          /\ "used" \in fields => otps'[i].used = otps[i].used
          /\ "over" \in fields => otps'[i].over = otps[i].over
          /\ "tries" \in fields => otps'[i].tries = otps[i].tries
          /\ "served" \in fields => otps'[i].served = otps[i].served

LinksKeep(fields) ==
    /\ links' \in Seq(Links) /\ DOMAIN links' = DOMAIN links
    /\ \A i \in DOMAIN links :
          /\ "used" \in fields => links'[i].used = links[i].used
          /\ "over" \in fields => links'[i].over = links[i].over
          /\ "served" \in fields => links'[i].served = links[i].served

LEMMA OtpChange ==
    ASSUME otps \in Seq(Otps), NEW i \in DOMAIN otps
    PROVE  /\ otps' = [otps EXCEPT ![i].used = TRUE] =>
                /\ OtpsKeep({"over", "tries", "served"})
                /\ \A j \in DOMAIN otps : otps'[j].used = IF j = i THEN TRUE ELSE otps[j].used
           /\ otps' = [otps EXCEPT ![i].over = TRUE] =>
                /\ OtpsKeep({"used", "tries", "served"})
                /\ \A j \in DOMAIN otps : otps'[j].over = IF j = i THEN TRUE ELSE otps[j].over
           /\ otps' = [otps EXCEPT ![i].tries = @ + 1] =>
                /\ OtpsKeep({"used", "over", "served"})
                /\ \A j \in DOMAIN otps :
                      otps'[j].tries = IF j = i THEN otps[j].tries + 1 ELSE otps[j].tries
           /\ otps' = [otps EXCEPT ![i].served = @ + 1] =>
                /\ OtpsKeep({"used", "over", "tries"})
                /\ \A j \in DOMAIN otps :
                      otps'[j].served = IF j = i THEN otps[j].served + 1 ELSE otps[j].served
  <1> DEFINE q == otps[i]
  <1>0. q \in Otps
    BY LenProperties, ElementOfSeq
  <1>1. ASSUME otps' = [otps EXCEPT ![i].used = TRUE]
        PROVE  /\ OtpsKeep({"over", "tries", "served"})
               /\ \A j \in DOMAIN otps : otps'[j].used = IF j = i THEN TRUE ELSE otps[j].used
    <2> DEFINE e == [q EXCEPT !.used = TRUE]
    <2>1. /\ e \in Otps /\ e.used = TRUE /\ e.over = q.over /\ e.tries = q.tries
          /\ e.served = q.served
      BY <1>0 DEF Otps
    <2>2. otps' = [otps EXCEPT ![i] = e]
      BY <1>1
    <2> HIDE DEF e
    <2> QED
      BY <2>1, <2>2, Replaced DEF OtpsKeep
  <1>2. ASSUME otps' = [otps EXCEPT ![i].over = TRUE]
        PROVE  /\ OtpsKeep({"used", "tries", "served"})
               /\ \A j \in DOMAIN otps : otps'[j].over = IF j = i THEN TRUE ELSE otps[j].over
    <2> DEFINE e == [q EXCEPT !.over = TRUE]
    <2>1. /\ e \in Otps /\ e.over = TRUE /\ e.used = q.used /\ e.tries = q.tries
          /\ e.served = q.served
      BY <1>0 DEF Otps
    <2>2. otps' = [otps EXCEPT ![i] = e]
      BY <1>2
    <2> HIDE DEF e
    <2> QED
      BY <2>1, <2>2, Replaced DEF OtpsKeep
  <1>3. ASSUME otps' = [otps EXCEPT ![i].tries = @ + 1]
        PROVE  /\ OtpsKeep({"used", "over", "served"})
               /\ \A j \in DOMAIN otps :
                      otps'[j].tries = IF j = i THEN otps[j].tries + 1 ELSE otps[j].tries
    <2> DEFINE e == [q EXCEPT !.tries = @ + 1]
    <2>1. /\ e \in Otps /\ e.tries = q.tries + 1 /\ e.used = q.used /\ e.over = q.over
          /\ e.served = q.served
      BY <1>0 DEF Otps
    <2>2. otps' = [otps EXCEPT ![i] = e]
      BY <1>3
    <2> HIDE DEF e
    <2> QED
      BY <2>1, <2>2, Replaced DEF OtpsKeep
  <1>4. ASSUME otps' = [otps EXCEPT ![i].served = @ + 1]
        PROVE  /\ OtpsKeep({"used", "over", "tries"})
               /\ \A j \in DOMAIN otps :
                      otps'[j].served = IF j = i THEN otps[j].served + 1 ELSE otps[j].served
    <2> DEFINE e == [q EXCEPT !.served = @ + 1]
    <2>1. /\ e \in Otps /\ e.served = q.served + 1 /\ e.used = q.used /\ e.over = q.over
          /\ e.tries = q.tries
      BY <1>0 DEF Otps
    <2>2. otps' = [otps EXCEPT ![i] = e]
      BY <1>4
    <2> HIDE DEF e
    <2> QED
      BY <2>1, <2>2, Replaced DEF OtpsKeep
  <1> QED
    BY <1>1, <1>2, <1>3, <1>4

LEMMA LinkChange ==
    ASSUME links \in Seq(Links), NEW i \in DOMAIN links
    PROVE  /\ links' = [links EXCEPT ![i].used = TRUE] =>
                /\ LinksKeep({"over", "served"})
                /\ \A j \in DOMAIN links : links'[j].used = IF j = i THEN TRUE ELSE links[j].used
           /\ links' = [links EXCEPT ![i].over = TRUE] =>
                /\ LinksKeep({"used", "served"})
                /\ \A j \in DOMAIN links : links'[j].over = IF j = i THEN TRUE ELSE links[j].over
           /\ links' = [links EXCEPT ![i].served = @ + 1] =>
                /\ LinksKeep({"used", "over"})
                /\ \A j \in DOMAIN links :
                      links'[j].served = IF j = i THEN links[j].served + 1 ELSE links[j].served
  <1> DEFINE q == links[i]
  <1>0. q \in Links
    BY LenProperties, ElementOfSeq
  <1>1. ASSUME links' = [links EXCEPT ![i].used = TRUE]
        PROVE  /\ LinksKeep({"over", "served"})
               /\ \A j \in DOMAIN links : links'[j].used = IF j = i THEN TRUE ELSE links[j].used
    <2> DEFINE e == [q EXCEPT !.used = TRUE]
    <2>1. e \in Links /\ e.used = TRUE /\ e.over = q.over /\ e.served = q.served
      BY <1>0 DEF Links
    <2>2. links' = [links EXCEPT ![i] = e]
      BY <1>1
    <2> HIDE DEF e
    <2> QED
      BY <2>1, <2>2, Replaced DEF LinksKeep
  <1>2. ASSUME links' = [links EXCEPT ![i].over = TRUE]
        PROVE  /\ LinksKeep({"used", "served"})
               /\ \A j \in DOMAIN links : links'[j].over = IF j = i THEN TRUE ELSE links[j].over
    <2> DEFINE e == [q EXCEPT !.over = TRUE]
    <2>1. e \in Links /\ e.over = TRUE /\ e.used = q.used /\ e.served = q.served
      BY <1>0 DEF Links
    <2>2. links' = [links EXCEPT ![i] = e]
      BY <1>2
    <2> HIDE DEF e
    <2> QED
      BY <2>1, <2>2, Replaced DEF LinksKeep
  <1>3. ASSUME links' = [links EXCEPT ![i].served = @ + 1]
        PROVE  /\ LinksKeep({"used", "over"})
               /\ \A j \in DOMAIN links :
                      links'[j].served = IF j = i THEN links[j].served + 1 ELSE links[j].served
    <2> DEFINE e == [q EXCEPT !.served = @ + 1]
    <2>1. e \in Links /\ e.served = q.served + 1 /\ e.used = q.used /\ e.over = q.over
      BY <1>0 DEF Links
    <2>2. links' = [links EXCEPT ![i] = e]
      BY <1>3
    <2> HIDE DEF e
    <2> QED
      BY <2>1, <2>2, Replaced DEF LinksKeep
  <1> QED
    BY <1>1, <1>2, <1>3

\* A new request withdraws every earlier code, and every earlier link.
LEMMA OtpsWithdrawn ==
    ASSUME otps \in Seq(Otps), otps' = AllUsed(otps)
    PROVE  OtpsKeep({"over", "tries", "served"}) /\ \A j \in DOMAIN otps : otps'[j].used
  <1>1. \A j \in DOMAIN otps : otps[j] \in Otps
    BY LenProperties, ElementOfSeq
  <1>2. ASSUME NEW q \in Otps, NEW e, e = [q EXCEPT !.used = TRUE]
        PROVE  e \in Otps /\ e.used /\ e.over = q.over /\ e.tries = q.tries /\ e.served = q.served
    BY <1>2 DEF Otps
  <1>3. /\ \A j \in DOMAIN otps : otps'[j] = [otps[j] EXCEPT !.used = TRUE]
        /\ otps' = [j \in DOMAIN otps |-> otps'[j]]
    BY DEF AllUsed
  <1>4. \A j \in DOMAIN otps :
          /\ otps'[j] \in Otps /\ otps'[j].used /\ otps'[j].over = otps[j].over
          /\ otps'[j].tries = otps[j].tries /\ otps'[j].served = otps[j].served
    BY <1>1, <1>2, <1>3
  <1>5. otps' \in Seq(Otps) /\ DOMAIN otps' = DOMAIN otps
    BY <1>3, <1>4, Rewritten
  <1> QED
    BY <1>4, <1>5 DEF OtpsKeep

LEMMA LinksWithdrawn ==
    ASSUME links \in Seq(Links), links' = AllUsed(links)
    PROVE  LinksKeep({"over", "served"}) /\ \A j \in DOMAIN links : links'[j].used
  <1>1. \A j \in DOMAIN links : links[j] \in Links
    BY LenProperties, ElementOfSeq
  <1>2. ASSUME NEW q \in Links, NEW e, e = [q EXCEPT !.used = TRUE]
        PROVE  e \in Links /\ e.used /\ e.over = q.over /\ e.served = q.served
    BY <1>2 DEF Links
  <1>3. /\ \A j \in DOMAIN links : links'[j] = [links[j] EXCEPT !.used = TRUE]
        /\ links' = [j \in DOMAIN links |-> links'[j]]
    BY DEF AllUsed
  <1>4. \A j \in DOMAIN links :
          /\ links'[j] \in Links /\ links'[j].used /\ links'[j].over = links[j].over
          /\ links'[j].served = links[j].served
    BY <1>1, <1>2, <1>3
  <1>5. links' \in Seq(Links) /\ DOMAIN links' = DOMAIN links
    BY <1>3, <1>4, Rewritten
  <1> QED
    BY <1>4, <1>5 DEF LinksKeep

\* A new code, and a new link, is unused and has no history.
LEMMA OtpIssued ==
    ASSUME otps \in Seq(Otps), NEW c, ForgotNewOtp(c)
    PROVE  LET n == Len(otps) + 1
           IN  /\ otps' \in Seq(Otps) /\ Len(otps) \in Nat
               /\ DOMAIN otps = 1..Len(otps) /\ DOMAIN otps' = 1..n
               /\ \A i \in DOMAIN otps : otps'[i] = otps[i]
               /\ ~otps'[n].used /\ otps'[n].tries = 0 /\ otps'[n].served = 0
  <1> DEFINE q == [used |-> FALSE, over |-> FALSE, tries |-> 0, served |-> 0]
  <1>1. q \in Otps /\ ~q.used /\ q.tries = 0 /\ q.served = 0
    BY DEF Otps
  <1>2. otps' = Append(otps, q)
    BY DEF ForgotNewOtp
  <1> HIDE DEF q
  <1>3. /\ otps' \in Seq(Otps) /\ Len(otps') = Len(otps) + 1
        /\ \A i \in 1..Len(otps) : otps'[i] = otps[i]
        /\ otps'[Len(otps) + 1] = q
    BY <1>1, <1>2, AppendProperties
  <1> QED
    BY <1>1, <1>3, LenProperties

LEMMA LinkIssued ==
    ASSUME links \in Seq(Links), NEW c, ForgotNewLink(c)
    PROVE  LET n == Len(links) + 1
           IN  /\ links' \in Seq(Links) /\ Len(links) \in Nat
               /\ DOMAIN links = 1..Len(links) /\ DOMAIN links' = 1..n
               /\ \A i \in DOMAIN links : links'[i] = links[i]
               /\ ~links'[n].used /\ links'[n].served = 0
  <1> DEFINE q == [used |-> FALSE, over |-> FALSE, served |-> 0]
  <1>1. q \in Links /\ ~q.used /\ q.served = 0
    BY DEF Links
  <1>2. links' = Append(links, q)
    BY DEF ForgotNewLink
  <1> HIDE DEF q
  <1>3. /\ links' \in Seq(Links) /\ Len(links') = Len(links) + 1
        /\ \A i \in 1..Len(links) : links'[i] = links[i]
        /\ links'[Len(links) + 1] = q
    BY <1>1, <1>2, AppendProperties
  <1> QED
    BY <1>1, <1>3, LenProperties

(***************************************************************************)
(* What a step does to the handler that takes it                           *)
(***************************************************************************)

Read(c) ==
    \/ LoginRead(c) \/ RefreshRead(c) \/ LogoutRead(c) \/ ForgotRead(c) \/ OtpRead(c)
    \/ LinkRead(c) \/ ChangeRead(c) \/ StatusRead(c) \/ UnlockRead(c)

Write(c) ==
    \/ LoginFail(c) \/ LoginPass(c) \/ Issue(c) \/ RefreshRetire(c) \/ RefreshDeny(c)
    \/ LogoutSave(c) \/ ForgotVoidOtps(c) \/ ForgotVoidLinks(c) \/ ForgotNewOtp(c)
    \/ ForgotNewLink(c) \/ OtpBurn(c) \/ OtpMiss(c) \/ OtpUse(c) \/ SetOtp(c) \/ SetLink(c)
    \/ SetOwn(c) \/ LinkUse(c) \/ RevokeAll(c) \/ StatusSave(c) \/ UnlockSave(c) \/ Abort(c)

LEMMA Steps ==
    [Next]_vars <=> \/ \E c \in Calls : Read(c) \/ Write(c)
                    \/ Revoke \/ LockEnds \/ SessionExpires \/ CodesExpire
                    \/ UNCHANGED vars
  BY DEF Next, Read, Write

\* What a handler has found when it goes to its first write.
Found(handler, at, item) ==
    /\ at \in {"fail", "pass", "retire", "deny", "logout", "voidotps", "burn", "miss", "use",
              "setlink", "setown", "status", "unlock"}
    /\ at \in {"fail", "pass"} => /\ user.status \notin {"LOCKED", "SUSPENDED"}
                                 /\ user.lock # "running" /\ item = 0
    /\ at \in {"retire", "deny", "logout"} => item \in Live
    /\ at \in {"burn", "miss", "use"} => item \in UsableOtps
    /\ at = "miss" => otps[item].tries < MaxTries
    /\ at = "setlink" => item \in UsableLinks
    /\ at = "setown" => user.status = "ACTIVE"
    /\ at = "status" => handler = "status"

LEMMA Reads ==
    ASSUME TypeOK, NEW c \in Calls, Read(c)
    PROVE  \E handler \in Handlers, at \in Stages, item \in Nat :
              Begin(c, handler, at, item) /\ Found(handler, at, item)
  <1> DEFINE Goal == \E handler \in Handlers, at \in Stages, item \in Nat :
                        Begin(c, handler, at, item) /\ Found(handler, at, item)
  <1>0. /\ \A i \in DOMAIN sessions : i \in Nat
        /\ \A i \in DOMAIN otps : i \in Nat
        /\ \A i \in DOMAIN links : i \in Nat
    BY LenProperties DEF TypeOK
  <1>1. CASE LoginRead(c)
    BY <1>1 DEF LoginRead, PastLock, Found, Stages, Handlers
  <1>2. CASE RefreshRead(c)
    BY <1>0, <1>2 DEF RefreshRead, Live, Found, Stages, Handlers
  <1>3. CASE LogoutRead(c)
    BY <1>0, <1>3 DEF LogoutRead, Live, Found, Stages, Handlers
  <1>4. CASE ForgotRead(c)
    BY <1>4 DEF ForgotRead, Found, Stages, Handlers
  <1>5. CASE OtpRead(c)
    BY <1>0, <1>5 DEF OtpRead, UsableOtps, Found, Stages, Handlers
  <1>6. CASE LinkRead(c)
    BY <1>0, <1>6 DEF LinkRead, UsableLinks, Found, Stages, Handlers
  <1>7. CASE ChangeRead(c)
    BY <1>7 DEF ChangeRead, Found, Stages, Handlers
  <1>8. CASE StatusRead(c)
    BY <1>8 DEF StatusRead, Found, Stages, Handlers
  <1>9. CASE UnlockRead(c)
    BY <1>9 DEF UnlockRead, Found, Stages, Handlers
  <1> QED
    BY <1>1, <1>2, <1>3, <1>4, <1>5, <1>6, <1>7, <1>8, <1>9 DEF Read

\* A handler that has read goes to its first write, and nothing else changes.
LEMMA ReadEffect ==
    ASSUME TypeOK, NEW c \in Calls, Read(c)
    PROVE  /\ TypeOK'
           /\ call[c].at = "idle" /\ MayStart /\ call'[c].at # "idle"
           /\ \A d \in Calls \ {c} : call'[d] = call[d]
           /\ \E handler \in regime.handlers : Found(handler, call'[c].at, call'[c].item)
           /\ call'[c].at \in {"fail", "unlock"} => call'[c].seen = user
           /\ UNCHANGED <<user, sessions, otps, links, aborts, misses, resets, regime>>
  <1>1. ASSUME NEW handler \in Handlers, NEW at \in Stages, NEW item \in Nat,
               Begin(c, handler, at, item), Found(handler, at, item)
        PROVE  /\ TypeOK'
               /\ call[c].at = "idle" /\ MayStart /\ call'[c].at # "idle"
               /\ \A d \in Calls \ {c} : call'[d] = call[d]
               /\ handler \in regime.handlers /\ call'[c].at = at /\ call'[c].item = item
               /\ call'[c].at \in {"fail", "unlock"} => call'[c].seen = user
               /\ UNCHANGED <<user, sessions, otps, links, aborts, misses, resets, regime>>
    <2>1. at # "idle"
      BY <1>1 DEF Found
    <2>2. TypeOK'
      BY <1>1, Began
    <2>3. call[c].at = "idle" /\ MayStart /\ handler \in regime.handlers
      BY <1>1, Began
    <2>4. \A d \in Calls \ {c} : call'[d] = call[d]
      BY <1>1, Began
    <2>5. call'[c].at = at /\ call'[c].item = item
      BY <1>1, RegimeType DEF Begin
    <2>6. at \in {"fail", "status", "unlock"} => call'[c].seen = user
      BY <1>1, Began
    <2>7. UNCHANGED <<user, sessions, otps, links, aborts, misses, resets, regime>>
      BY <1>1, Began
    <2> QED
      BY <2>1, <2>2, <2>3, <2>4, <2>5, <2>6, <2>7
  <1> QED
    BY <1>1, Reads

\* Where a write takes its handler.
Follows(at, next) ==
    \/ next = "idle"
    \/ at \in {"pass", "retire"} /\ next = "issue"
    \/ at = "voidotps" /\ next = "voidlinks"
    \/ at = "voidlinks" /\ next = "newotp"
    \/ at = "newotp" /\ next = "newlink"
    \/ at = "use" /\ next = "setotp"
    \/ at = "setlink" /\ next = "uselink"
    \/ at \in {"setotp", "uselink"} /\ next = "revoke"

LEMMA Writes ==
    ASSUME TypeOK, NEW c \in Calls, Write(c)
    PROVE  /\ call' \in [Calls -> CallStates] /\ regime' = regime
           /\ \A d \in Calls \ {c} : call'[d] = call[d]
           /\ call[c].at # "idle" /\ Follows(call[c].at, call'[c].at)
           /\ call'[c].at # "idle" => call'[c].item = call[c].item
  <1>1. CASE LoginFail(c)
    BY <1>1, Ended DEF LoginFail, Follows, Stages
  <1>2. CASE LoginPass(c)
    BY <1>2, Went DEF LoginPass, Follows, Stages
  <1>3. CASE Issue(c)
    BY <1>3, Ended DEF Issue, Follows, Stages
  <1>4. CASE RefreshRetire(c)
    BY <1>4, Went DEF RefreshRetire, Follows, Stages
  <1>5. CASE RefreshDeny(c)
    BY <1>5, Ended DEF RefreshDeny, Follows, Stages
  <1>6. CASE LogoutSave(c)
    BY <1>6, Ended DEF LogoutSave, Follows, Stages
  <1>7. CASE ForgotVoidOtps(c)
    BY <1>7, Went DEF ForgotVoidOtps, Follows, Stages
  <1>8. CASE ForgotVoidLinks(c)
    BY <1>8, Went DEF ForgotVoidLinks, Follows, Stages
  <1>9. CASE ForgotNewOtp(c)
    BY <1>9, Went DEF ForgotNewOtp, Follows, Stages
  <1>10. CASE ForgotNewLink(c)
    BY <1>10, Ended DEF ForgotNewLink, Follows, Stages
  <1>11. CASE OtpBurn(c)
    BY <1>11, Ended DEF OtpBurn, Follows, Stages
  <1>12. CASE OtpMiss(c)
    BY <1>12, Ended DEF OtpMiss, Follows, Stages
  <1>13. CASE OtpUse(c)
    BY <1>13, Went DEF OtpUse, Follows, Stages
  <1>14. CASE SetOtp(c)
    BY <1>14, Went DEF SetOtp, Follows, Stages
  <1>15. CASE SetLink(c)
    BY <1>15, Went DEF SetLink, Follows, Stages
  <1>16. CASE SetOwn(c)
    BY <1>16, Ended DEF SetOwn, Follows, Stages
  <1>17. CASE LinkUse(c)
    BY <1>17, Went DEF LinkUse, Follows, Stages
  <1>18. CASE RevokeAll(c)
    BY <1>18, Ended DEF RevokeAll, Follows, Stages
  <1>19. CASE StatusSave(c)
    BY <1>19, Ended DEF StatusSave, Follows, Stages
  <1>20. CASE UnlockSave(c)
    BY <1>20, Ended DEF UnlockSave, Follows, Stages
  <1>21. CASE Abort(c)
    BY <1>21, Ended DEF Abort, Follows, Stages
  <1> QED
    BY <1>1, <1>2, <1>3, <1>4, <1>5, <1>6, <1>7, <1>8, <1>9, <1>10, <1>11, <1>12, <1>13, <1>14, <1>15, <1>16, <1>17, <1>18, <1>19, <1>20, <1>21 DEF Write

(***************************************************************************)
(* Types, widths and items                                                 *)
(***************************************************************************)

LEMMA TypeInit == Init => TypeOK /\ WidthInv /\ ItemsInv /\ LineageInv
  <1> SUFFICES ASSUME Init PROVE TypeOK /\ WidthInv /\ ItemsInv /\ LineageInv
    OBVIOUS
  <1>1. Busy = {} /\ DOMAIN sessions = {}
    BY DEF Init, Busy, Idle
  <1>2. WidthInv
    BY <1>1, FS_EmptySet, SignInAssumption DEF Init, WidthInv
  <1>3. TypeOK
    BY SignInAssumption, EmptySeq
       DEF Init, TypeOK, Idle, Cleared, Users, UserStatuses
  <1> QED
    BY <1>1, <1>2, <1>3 DEF Init, ItemsInv, LineageInv, Idle

LEMMA WriteType ==
    ASSUME TypeOK, ItemsInv, LineageInv, NEW c \in Calls, Write(c)
    PROVE  TypeOK'
  <1> USE RegimeType
  <1>0. /\ call' \in [Calls -> CallStates] /\ regime' = regime /\ regime \in Regimes
        /\ sessions \in Seq(Sessions) /\ otps \in Seq(Otps) /\ links \in Seq(Links)
        /\ aborts \in 0..regime.aborts
    BY Writes DEF TypeOK
  <1>1. ASSUME user' \in Users, sessions' \in Seq(Sessions), otps' \in Seq(Otps),
               links' \in Seq(Links), aborts' \in 0..regime.aborts,
               misses' \in Nat, resets' \in Nat
        PROVE  TypeOK'
    BY <1>0, <1>1 DEF TypeOK, CallStates, Stages
  <1>2. call[c] \in CallStates /\ call[c].seen \in Users /\ Cleared \in Users
    BY DEF CallStates, Cleared, Users, UserStatuses
  <1>3. CASE LoginFail(c)
    <2>1. user' \in Users
      BY <1>2, <1>3 DEF LoginFail, Users, UserStatuses
    <2> QED
      BY <1>0, <1>1, <1>3, <2>1 DEF LoginFail
  <1>4. CASE LoginPass(c)
    BY <1>0, <1>1, <1>2, <1>4 DEF LoginPass
  <1>5. CASE Issue(c)
    BY <1>0, <1>1, <1>5, IssueEffect DEF Issue
  <1>6. CASE RefreshRetire(c)
    BY <1>0, <1>1, <1>6, MarkEffect DEF RefreshRetire, SessionStates
  <1>7. CASE RefreshDeny(c) \/ LogoutSave(c) \/ RevokeAll(c)
    BY <1>0, <1>1, <1>7, MarkEffect DEF RefreshDeny, LogoutSave, RevokeAll, SessionStates
  <1>8. CASE ForgotVoidOtps(c)
    BY <1>0, <1>1, <1>8, OtpsWithdrawn DEF ForgotVoidOtps, OtpsKeep
  <1>9. CASE ForgotVoidLinks(c)
    BY <1>0, <1>1, <1>9, LinksWithdrawn DEF ForgotVoidLinks, LinksKeep
  <1>10. CASE ForgotNewOtp(c)
    BY <1>0, <1>1, <1>10, OtpIssued DEF ForgotNewOtp
  <1>11. CASE ForgotNewLink(c)
    BY <1>0, <1>1, <1>11, LinkIssued DEF ForgotNewLink
  <1>12. CASE OtpBurn(c) \/ OtpMiss(c) \/ OtpUse(c)
    <2>1. call[c].item \in DOMAIN otps
      BY <1>12 DEF ItemsInv, OtpBurn, OtpMiss, OtpUse
    <2> QED
      BY <1>0, <1>1, <1>12, <2>1, OtpChange DEF OtpBurn, OtpMiss, OtpUse, OtpsKeep
  <1>13. CASE SetOtp(c)
    <2>1. call[c].item \in DOMAIN otps
      BY <1>13 DEF ItemsInv, SetOtp
    <2>2. otps' \in Seq(Otps)
      BY <1>0, <1>13, <2>1, OtpChange DEF SetOtp, OtpsKeep
    <2>3. user' = Cleared /\ misses' = 0 /\ resets' = resets + 1 /\ UNCHANGED <<sessions, links, aborts>>
      BY <1>13 DEF SetOtp
    <2> QED
      BY <1>0, <1>1, <1>2, <2>2, <2>3
  <1>14. CASE SetLink(c)
    <2>1. call[c].item \in DOMAIN links
      BY <1>14 DEF ItemsInv, SetLink
    <2>2. links' \in Seq(Links)
      BY <1>0, <1>14, <2>1, LinkChange DEF SetLink, LinksKeep
    <2>3. user' = Cleared /\ misses' = 0 /\ resets' = resets + 1 /\ UNCHANGED <<sessions, otps, aborts>>
      BY <1>14 DEF SetLink
    <2> QED
      BY <1>0, <1>1, <1>2, <2>2, <2>3
  <1>15. CASE SetOwn(c)
    BY <1>0, <1>1, <1>2, <1>15 DEF SetOwn
  <1>16. CASE LinkUse(c)
    <2>1. call[c].item \in DOMAIN links
      BY <1>16 DEF ItemsInv, LinkUse
    <2> QED
      BY <1>0, <1>1, <1>16, <2>1, LinkChange DEF LinkUse, LinksKeep
  <1>17. CASE StatusSave(c)
    <2>1. user' \in Users
      BY <1>17 DEF StatusSave, Users
    <2> QED
      BY <1>0, <1>1, <1>17, <2>1 DEF StatusSave
  <1>18. CASE UnlockSave(c)
    <2>1. user' \in Users
      BY <1>2, <1>18 DEF UnlockSave, Users, UserStatuses
    <2> QED
      BY <1>0, <1>1, <1>18, <2>1 DEF UnlockSave
  <1>19. CASE Abort(c)
    BY <1>0, <1>1, <1>19 DEF Abort
  <1> QED
    BY <1>3, <1>4, <1>5, <1>6, <1>7, <1>8, <1>9, <1>10, <1>11, <1>12, <1>13, <1>14,
       <1>15, <1>16, <1>17, <1>18, <1>19 DEF Write

\* What happens on its own, or in one write: the sign-outs and the clock.
LEMMA OtherType ==
    ASSUME TypeOK, Revoke \/ LockEnds \/ SessionExpires \/ CodesExpire \/ UNCHANGED vars
    PROVE  TypeOK' /\ call' = call /\ regime' = regime
  <1>1. CASE Revoke
    BY <1>1, MarkEffect DEF Revoke, TypeOK, SessionStates
  <1>2. CASE LockEnds
    BY <1>2 DEF LockEnds, TypeOK, Users
  <1>3. CASE SessionExpires
    BY <1>3, MarkEffect DEF SessionExpires, TypeOK, SessionStates
  <1>4. CASE CodesExpire
    <2>1. otps' \in Seq(Otps) /\ links' \in Seq(Links)
      BY <1>4, OtpChange, LinkChange
         DEF CodesExpire, UsableOtps, UsableLinks, OtpsKeep, LinksKeep, TypeOK
    <2> QED
      BY <1>4, <2>1 DEF CodesExpire, TypeOK
  <1>5. CASE UNCHANGED vars
    BY <1>5 DEF vars, TypeOK
  <1> QED
    BY <1>1, <1>2, <1>3, <1>4, <1>5

LEMMA TypeStep == TypeOK /\ ItemsInv /\ LineageInv /\ [Next]_vars => TypeOK'
  <1>1. ASSUME TypeOK, NEW c \in Calls, Read(c) PROVE TypeOK'
    BY <1>1, Reads, Began
  <1> QED
    BY <1>1, Steps, WriteType, OtherType

LEMMA WidthStep == TypeOK /\ WidthInv /\ [Next]_vars => WidthInv'
  <1> SUFFICES ASSUME TypeOK, WidthInv, [Next]_vars PROVE WidthInv'
    OBVIOUS
  <1>0. /\ IsFiniteSet(Busy) /\ Cardinality(Busy) \in Nat
        /\ Cardinality(Busy) <= regime.width /\ regime.width \in Nat
    BY RegimeType, FS_CardinalityType DEF WidthInv
  <1>1. ASSUME NEW c \in Calls, Read(c) PROVE WidthInv'
    <2>1. /\ call[c].at = "idle" /\ Cardinality(Busy) < regime.width /\ regime' = regime
          /\ call'[c].at # "idle" /\ \A d \in Calls \ {c} : call'[d] = call[d]
      BY <1>1, Reads, Began DEF MayStart, Busy, Found
    <2>2. Busy' = Busy \cup {c} /\ c \notin Busy
      BY <2>1 DEF Busy
    <2>3. IsFiniteSet(Busy \cup {c}) /\ Cardinality(Busy \cup {c}) = Cardinality(Busy) + 1
      BY <1>0, <2>2, FS_AddElement
    <2>4. IsFiniteSet(Busy') /\ Cardinality(Busy') = Cardinality(Busy) + 1
      BY <2>2, <2>3
    <2> QED
      BY <1>0, <2>1, <2>4 DEF WidthInv
  <1>2. ASSUME NEW c \in Calls, Write(c) PROVE WidthInv'
    <2>1. Busy' \subseteq Busy /\ regime' = regime
      BY <1>2, Writes DEF Busy
    <2>2. IsFiniteSet(Busy') /\ Cardinality(Busy') <= Cardinality(Busy)
      BY <1>0, <2>1, FS_Subset
    <2>3. Cardinality(Busy') \in Nat
      BY <2>2, FS_CardinalityType
    <2> QED
      BY <1>0, <2>1, <2>2, <2>3 DEF WidthInv
  <1>3. CASE Revoke \/ LockEnds \/ SessionExpires \/ CodesExpire \/ UNCHANGED vars
    <2>1. call' = call /\ regime' = regime
      BY <1>3, OtherType
    <2> QED
      BY <1>0, <2>1 DEF WidthInv, Busy
  <1> QED
    BY <1>1, <1>2, <1>3, Steps

\* Sessions are issued or ended, a step at a time.
Ends == \E S : \E state \in {"EXPIRED", "REVOKED", "ROTATED"} : Mark(S, state)

LEMMA SessionsChange ==
    ASSUME [Next]_vars
    PROVE  UNCHANGED sessions \/ Ends \/ Revoke \/ \E c \in Calls : Issue(c)
  <1>1. ASSUME NEW c \in Calls, Read(c) PROVE UNCHANGED sessions
    BY <1>1 DEF Read, Begin, LoginRead, RefreshRead, LogoutRead, ForgotRead, OtpRead, LinkRead,
                ChangeRead, StatusRead, UnlockRead
  <1>2. ASSUME NEW c \in Calls, RefreshRetire(c) \/ RefreshDeny(c) \/ LogoutSave(c) \/ RevokeAll(c)
        PROVE Ends
    BY <1>2 DEF RefreshRetire, RefreshDeny, LogoutSave, RevokeAll, Ends
  <1>3. ASSUME NEW c \in Calls, Write(c),
               ~(RefreshRetire(c) \/ RefreshDeny(c) \/ LogoutSave(c) \/ RevokeAll(c)), ~Issue(c)
        PROVE UNCHANGED sessions
    BY <1>3 DEF Write, LoginFail, LoginPass, ForgotVoidOtps, ForgotVoidLinks, ForgotNewOtp,
                ForgotNewLink, OtpBurn, OtpMiss, OtpUse, SetOtp, SetLink, SetOwn, LinkUse,
                StatusSave, UnlockSave, Abort
  <1>4. SessionExpires => Ends
    BY DEF SessionExpires, Ends
  <1>5. LockEnds \/ CodesExpire \/ UNCHANGED vars => UNCHANGED sessions
    BY DEF LockEnds, CodesExpire, vars
  <1> QED
    BY <1>1, <1>2, <1>3, <1>4, <1>5, Steps

\* What is written of a session stays, and what has ended stays ended.
SessionsEvolve ==
    /\ DOMAIN sessions \subseteq DOMAIN sessions'
    /\ \A i \in DOMAIN sessions :
          /\ sessions'[i].family = sessions[i].family
          /\ sessions'[i].parent = sessions[i].parent
          /\ sessions'[i].since = sessions[i].since
          /\ sessions'[i].state = "LIVE" => sessions[i].state = "LIVE"

LEMMA EndsEffect ==
    ASSUME TypeOK, Ends
    PROVE  /\ SessionsEvolve /\ DOMAIN sessions' = DOMAIN sessions
           /\ Live' \subseteq Live /\ SignedOut' \subseteq SignedOut
  <1>1. PICK S : \E state \in {"EXPIRED", "REVOKED", "ROTATED"} : Mark(S, state)
    BY DEF Ends
  <1>2. PICK state \in {"EXPIRED", "REVOKED", "ROTATED"} : Mark(S, state)
    BY <1>1
  <1>3. state \in SessionStates /\ state # "LIVE" /\ sessions \in Seq(Sessions)
    BY <1>2 DEF SessionStates, TypeOK
  <1>4. /\ DOMAIN sessions' = DOMAIN sessions
        /\ \A i \in DOMAIN sessions :
              /\ sessions'[i].family = sessions[i].family
              /\ sessions'[i].parent = sessions[i].parent
              /\ sessions'[i].since = sessions[i].since
              /\ sessions'[i].state = IF i \in S THEN state ELSE sessions[i].state
    BY <1>2, <1>3, MarkEffect
  <1>5. SessionsEvolve
    BY <1>3, <1>4 DEF SessionsEvolve
  <1>6. \A i \in DOMAIN sessions :
          /\ sessions'[i].state = "LIVE" => sessions[i].state = "LIVE"
          /\ sessions'[i].state \in {"REVOKED_BY_USER", "LOGOUT"}
                => sessions[i].state \in {"REVOKED_BY_USER", "LOGOUT"}
    BY <1>2, <1>4
  <1> QED
    BY <1>4, <1>5, <1>6 DEF Live, SignedOut

LEMMA RevokeEffect ==
    ASSUME TypeOK, Revoke
    PROVE  /\ SessionsEvolve /\ DOMAIN sessions' = DOMAIN sessions
           /\ Live' \subseteq Live
           /\ \E i \in Live :
                LET f == sessions[i].family
                IN  \/ \A j \in DOMAIN sessions :
                          /\ j \in Live' => sessions[j].family # f
                          /\ j \in SignedOut' => j \in SignedOut \/ sessions[j].family = f
                    \/ \A j \in DOMAIN sessions :
                          /\ j \in Live' => sessions[j].family = f
                          /\ j \in SignedOut' => j \in SignedOut \/ sessions[j].family # f
                    \/ Live' = {}
  <1>1. PICK i \in Live :
            \/ Mark(OfFamily(sessions[i].family), "REVOKED_BY_USER")
            \/ Mark(Live \ OfFamily(sessions[i].family), "REVOKED_BY_USER")
            \/ Mark(Live, "LOGOUT")
    BY DEF Revoke
  <1> DEFINE f == sessions[i].family
  \* What each of the three updates does, to whichever sessions it is applied.
  <1>2. ASSUME NEW S, NEW state \in {"REVOKED_BY_USER", "LOGOUT"}, Mark(S, state)
        PROVE  /\ SessionsEvolve /\ DOMAIN sessions' = DOMAIN sessions
               /\ \A j \in DOMAIN sessions :
                     sessions'[j].state = IF j \in S THEN state ELSE sessions[j].state
    <2>1. state \in SessionStates /\ state # "LIVE" /\ sessions \in Seq(Sessions)
      BY <1>2 DEF SessionStates, TypeOK
    <2>2. /\ DOMAIN sessions' = DOMAIN sessions
          /\ \A j \in DOMAIN sessions :
                /\ sessions'[j].family = sessions[j].family
                /\ sessions'[j].parent = sessions[j].parent
                /\ sessions'[j].since = sessions[j].since
                /\ sessions'[j].state = IF j \in S THEN state ELSE sessions[j].state
      BY <1>2, <2>1, MarkEffect
    <2> QED
      BY <2>1, <2>2 DEF SessionsEvolve
  \* The sessions live afterwards, and the sessions signed out, come from before.
  <1>3. ASSUME NEW S \in SUBSET Live, NEW state \in {"REVOKED_BY_USER", "LOGOUT"},
               Mark(S, state)
        PROVE  /\ SessionsEvolve /\ DOMAIN sessions' = DOMAIN sessions
               /\ Live' = Live \ S /\ SignedOut' \subseteq SignedOut \cup S
    <2>1. /\ SessionsEvolve /\ DOMAIN sessions' = DOMAIN sessions
          /\ \A j \in DOMAIN sessions :
                sessions'[j].state = IF j \in S THEN state ELSE sessions[j].state
      BY <1>2, <1>3
    <2> QED
      BY <1>3, <2>1 DEF Live, SignedOut
  <1>4. CASE Mark(OfFamily(f), "REVOKED_BY_USER")
    <2>1. /\ SessionsEvolve /\ DOMAIN sessions' = DOMAIN sessions
          /\ Live' = Live \ OfFamily(f) /\ SignedOut' \subseteq SignedOut \cup OfFamily(f)
      BY <1>3, <1>4 DEF OfFamily
    <2> QED
      BY <1>1, <2>1 DEF OfFamily
  <1>5. CASE Mark(Live \ OfFamily(f), "REVOKED_BY_USER")
    <2> DEFINE S == Live \ OfFamily(f)
    <2>1. /\ SessionsEvolve /\ DOMAIN sessions' = DOMAIN sessions
          /\ Live' = Live \ S /\ SignedOut' \subseteq SignedOut \cup S
      <3>1. S \in SUBSET Live /\ Mark(S, "REVOKED_BY_USER")
        BY <1>5
      <3> HIDE DEF S
      <3> QED
        BY <1>3, <3>1
    <2>2. \A j \in DOMAIN sessions :
            /\ j \in Live' => sessions[j].family = f
            /\ j \in SignedOut' => j \in SignedOut \/ sessions[j].family # f
      BY <2>1 DEF OfFamily
    <2> QED
      BY <1>1, <2>1, <2>2
  <1>6. CASE Mark(Live, "LOGOUT")
    BY <1>1, <1>3, <1>6
  <1> QED
    BY <1>1, <1>4, <1>5, <1>6

LEMMA SessionsStay ==
    ASSUME TypeOK, ItemsInv, LineageInv, [Next]_vars
    PROVE  SessionsEvolve
  <1>1. CASE UNCHANGED sessions
    BY <1>1 DEF SessionsEvolve
  <1>2. CASE Ends
    BY <1>2, EndsEffect
  <1>3. ASSUME NEW c \in Calls, Issue(c) PROVE SessionsEvolve
    BY <1>3, IssueEffect DEF SessionsEvolve
  <1> QED
    BY <1>1, <1>2, <1>3, RevokeEffect, SessionsChange

LEMMA CodesStay ==
    ASSUME TypeOK, ItemsInv, [Next]_vars
    PROVE  DOMAIN otps \subseteq DOMAIN otps' /\ DOMAIN links \subseteq DOMAIN links'
  <1>0. otps \in Seq(Otps) /\ links \in Seq(Links)
    BY DEF TypeOK
  <1>1. ASSUME NEW c \in Calls, Read(c) PROVE UNCHANGED <<otps, links>>
    BY <1>1 DEF Read, Begin, LoginRead, RefreshRead, LogoutRead, ForgotRead, OtpRead, LinkRead,
                ChangeRead, StatusRead, UnlockRead
  <1>2. ASSUME NEW c \in Calls,
               OtpBurn(c) \/ OtpMiss(c) \/ OtpUse(c) \/ SetOtp(c)
        PROVE  DOMAIN otps' = DOMAIN otps /\ UNCHANGED links
    BY <1>2 DEF OtpBurn, OtpMiss, OtpUse, SetOtp
  <1>3. ASSUME NEW c \in Calls, SetLink(c) \/ LinkUse(c)
        PROVE  DOMAIN links' = DOMAIN links /\ UNCHANGED otps
    BY <1>3 DEF SetLink, LinkUse
  <1>4. ASSUME NEW c \in Calls, ForgotVoidOtps(c) \/ ForgotVoidLinks(c)
        PROVE  DOMAIN otps' = DOMAIN otps /\ DOMAIN links' = DOMAIN links
    BY <1>4 DEF ForgotVoidOtps, ForgotVoidLinks, AllUsed
  <1>5. ASSUME NEW c \in Calls, ForgotNewOtp(c)
        PROVE  DOMAIN otps \subseteq DOMAIN otps' /\ UNCHANGED links
    BY <1>0, <1>5, OtpIssued DEF ForgotNewOtp
  <1>6. ASSUME NEW c \in Calls, ForgotNewLink(c)
        PROVE  DOMAIN links \subseteq DOMAIN links' /\ UNCHANGED otps
    BY <1>0, <1>6, LinkIssued DEF ForgotNewLink
  <1>7. ASSUME NEW c \in Calls,
               \/ LoginFail(c) \/ LoginPass(c) \/ Issue(c) \/ RefreshRetire(c) \/ RefreshDeny(c)
               \/ LogoutSave(c) \/ SetOwn(c) \/ RevokeAll(c) \/ StatusSave(c) \/ UnlockSave(c)
               \/ Abort(c)
        PROVE UNCHANGED <<otps, links>>
    BY <1>7 DEF LoginFail, LoginPass, Issue, RefreshRetire, RefreshDeny, LogoutSave, SetOwn,
                RevokeAll, StatusSave, UnlockSave, Abort
  <1>8. Revoke \/ LockEnds \/ SessionExpires \/ UNCHANGED vars => UNCHANGED <<otps, links>>
    BY DEF Revoke, LockEnds, SessionExpires, vars
  <1>9. CodesExpire => DOMAIN otps' = DOMAIN otps /\ DOMAIN links' = DOMAIN links
    BY DEF CodesExpire
  <1>10. ASSUME NEW c \in Calls, Write(c)
         PROVE  DOMAIN otps \subseteq DOMAIN otps' /\ DOMAIN links \subseteq DOMAIN links'
    BY <1>10, <1>2, <1>3, <1>4, <1>5, <1>6, <1>7 DEF Write
  <1> QED
    BY <1>1, <1>8, <1>9, <1>10, Steps

\* A session that is about to be replaced has just been retired.
LEMMA RetireEffect ==
    ASSUME TypeOK, ItemsInv, NEW c \in Calls, Write(c),
           call[c].at = "retire", call'[c].at = "issue"
    PROVE  /\ DOMAIN sessions' = DOMAIN sessions /\ call[c].item \in DOMAIN sessions
           /\ Live' = Live \ {call[c].item}
           /\ UNCHANGED <<aborts, resets>>
  <1>1. RefreshRetire(c) \/ Abort(c)
    BY DEF Write, LoginFail, LoginPass, Issue, RefreshDeny, LogoutSave, ForgotVoidOtps,
           ForgotVoidLinks, ForgotNewOtp, ForgotNewLink, OtpBurn, OtpMiss, OtpUse, SetOtp,
           SetLink, SetOwn, LinkUse, RevokeAll, StatusSave, UnlockSave
  <1>2. RefreshRetire(c)
    BY <1>1 DEF Abort
  <1>3. /\ Mark({call[c].item}, "ROTATED") /\ call[c].item \in DOMAIN sessions
        /\ UNCHANGED <<aborts, resets>>
    BY <1>2 DEF RefreshRetire, ItemsInv
  <1>4. /\ DOMAIN sessions' = DOMAIN sessions
        /\ \A i \in DOMAIN sessions : sessions'[i].state =
              IF i \in {call[c].item} THEN "ROTATED" ELSE sessions[i].state
    BY <1>3, MarkEffect DEF TypeOK, SessionStates
  <1> QED
    BY <1>3, <1>4 DEF Live

LEMMA ItemsStep == TypeOK /\ ItemsInv /\ LineageInv /\ [Next]_vars => ItemsInv'
  <1> SUFFICES ASSUME TypeOK, ItemsInv, LineageInv, [Next]_vars PROVE ItemsInv'
    OBVIOUS
  <1> DEFINE Sound(k) ==
        /\ k.at \in {"retire", "deny", "logout"} => k.item \in DOMAIN sessions
        /\ k.at = "pass" => k.item = 0
        /\ k.at = "issue" => \/ k.item = 0
                             \/ k.item \in DOMAIN sessions /\ sessions[k.item].state # "LIVE"
        /\ k.at \in {"burn", "miss", "use", "setotp"} => k.item \in DOMAIN otps
        /\ k.at \in {"setlink", "uselink"} => k.item \in DOMAIN links
  <1>0. \A d \in Calls : Sound(call[d])
    BY DEF ItemsInv
  <1>1. SessionsEvolve /\ DOMAIN otps \subseteq DOMAIN otps' /\ DOMAIN links \subseteq DOMAIN links'
    BY SessionsStay, CodesStay
  <1>2. ASSUME NEW d \in Calls, call'[d] = call[d] PROVE Sound(call[d])'
    BY <1>0, <1>1, <1>2 DEF SessionsEvolve
  <1>3. ASSUME NEW c \in Calls, Read(c) PROVE Sound(call[c])'
    <2> DEFINE at == call'[c].at
               item == call'[c].item
    <2>1. PICK handler \in regime.handlers : Found(handler, at, item)
      BY <1>3, ReadEffect
    <2> HIDE DEF at, item
    <2>2. /\ at \notin {"issue", "setotp", "uselink"}
          /\ at \in {"retire", "deny", "logout"} => item \in DOMAIN sessions
          /\ at = "pass" => item = 0
          /\ at \in {"burn", "miss", "use"} => item \in DOMAIN otps
          /\ at = "setlink" => item \in DOMAIN links
      BY <2>1 DEF Found, Live, UsableOtps, UsableLinks
    <2> QED
      BY <1>1, <2>2 DEF SessionsEvolve, at, item
  <1>4. ASSUME NEW c \in Calls, Write(c) PROVE Sound(call[c])'
    <2>1. /\ Follows(call[c].at, call'[c].at)
          /\ call'[c].at # "idle" => call'[c].item = call[c].item
      BY <1>4, Writes
    <2>2. call[c].at = "retire" /\ call'[c].at = "issue" => sessions'[call[c].item].state # "LIVE"
      BY <1>4, RetireEffect DEF Live
    <2> QED
      BY <1>0, <1>1, <2>1, <2>2 DEF Follows, SessionsEvolve
  <1>5. \A d \in Calls : Sound(call[d])'
    <2>1. ASSUME NEW c \in Calls, Read(c) \/ Write(c) PROVE \A d \in Calls : Sound(call[d])'
      <3>1. \A d \in Calls \ {c} : call'[d] = call[d]
        BY <2>1, Reads, Began, Writes
      <3> QED
        BY <1>2, <1>3, <1>4, <2>1, <3>1
    <2> QED
      BY <1>2, <2>1, Steps, OtherType
  <1> QED
    BY <1>5 DEF ItemsInv

LEMMA LineageStep == TypeOK /\ ItemsInv /\ LineageInv /\ [Next]_vars => LineageInv'
  <1> SUFFICES ASSUME TypeOK, ItemsInv, LineageInv, [Next]_vars PROVE LineageInv'
    OBVIOUS
  <1>1. CASE UNCHANGED sessions
    BY <1>1 DEF LineageInv
  <1>2. CASE Ends \/ Revoke
    BY <1>2, EndsEffect, RevokeEffect DEF LineageInv, SessionsEvolve
  <1>3. ASSUME NEW c \in Calls, Issue(c) PROVE LineageInv'
    <2> DEFINE n == Len(sessions) + 1
               p == call[c].item
    <2>1. /\ Len(sessions) \in Nat /\ DOMAIN sessions = 1..Len(sessions)
          /\ DOMAIN sessions' = 1..n
          /\ \A i \in DOMAIN sessions : sessions'[i] = sessions[i]
          /\ sessions'[n].parent = p
          /\ sessions'[n].family = IF p = 0 THEN n ELSE sessions[p].family
      BY <1>3, IssueEffect
    <2>2. p = 0 \/ (p \in DOMAIN sessions /\ sessions[p].state # "LIVE")
      BY <1>3 DEF ItemsInv, Issue
    <2>3. /\ p < n
          /\ sessions'[n].family \in 1..n
      BY <2>1, <2>2 DEF LineageInv
    <2>4. ASSUME NEW i \in DOMAIN sessions', NEW j \in DOMAIN sessions', sessions'[j].parent = i
          PROVE  sessions'[i].state # "LIVE"
      <3>1. CASE j = n
        BY <2>1, <2>2, <2>4, <3>1
      <3>2. CASE j # n
        BY <2>1, <2>4, <3>2 DEF LineageInv
      <3> QED
        BY <3>1, <3>2
    <2> HIDE DEF n, p
    <2>5. ASSUME NEW i \in DOMAIN sessions', i # n
          PROVE  sessions'[i].parent < i /\ sessions'[i].family \in 1..i
      BY <2>1, <2>5 DEF LineageInv, n
    <2> QED
      BY <2>1, <2>3, <2>4, <2>5 DEF LineageInv
  <1> QED
    BY <1>1, <1>2, <1>3, SessionsChange

(***************************************************************************)
(* One handler at a time                                                   *)
(***************************************************************************)

\* While one handler takes a step, no other runs.
LEMMA Turn ==
    ASSUME TypeOK, WidthInv, OneAtATime, NEW c \in Calls, Read(c) \/ Write(c)
    PROVE  /\ \A d \in Calls \ {c} : call[d].at = "idle" /\ call'[d].at = "idle"
           /\ Read(c) => call[c].at = "idle"
           /\ Write(c) => call[c].at # "idle"
  <1>1. CASE Read(c)
    BY <1>1, Alone, ReadEffect, Writes
  <1>2. CASE Write(c)
    <2>1. call[c].at # "idle" /\ \A d \in Calls \ {c} : call'[d] = call[d]
      BY <1>2, Writes
    <2>2. \A d \in Calls \ {c} : call[d].at = "idle"
      BY <2>1, Alone
    <2>3. ~Read(c)
      BY <2>1, ReadEffect
    <2> QED
      BY <1>2, <2>1, <2>2, <2>3
  <1> QED
    BY <1>1, <1>2

\* The part of DevicesInv that is about one handler.
Replacing(k) ==
    k.at \in {"retire", "issue"} /\ k.item # 0 =>
        /\ \A j \in Live : sessions[j].family = sessions[k.item].family
                              => k.at = "retire" /\ j = k.item
        /\ \A i \in SignedOut : sessions[i].family # sessions[k.item].family

LEMMA DevicesStep ==
    TypeOK /\ WidthInv /\ ItemsInv /\ LineageInv /\ DevicesInv /\ [Next]_vars => DevicesInv'
  <1> SUFFICES ASSUME TypeOK, WidthInv, ItemsInv, LineageInv, DevicesInv, [Next]_vars,
                      OneAtATime'
               PROVE  /\ (OneSessionPerDevice /\ SignedOutStaysOut)'
                      /\ \A d \in Calls : Replacing(call[d])'
    BY DEF DevicesInv, Replacing
  <1>0. regime' = regime
    BY Steps, ReadEffect, Writes, OtherType
  <1>1. OneAtATime
    BY <1>0 DEF OneAtATime
  <1>2. /\ \A i, j \in Live : sessions[i].family = sessions[j].family => i = j
        /\ \A i \in SignedOut, j \in Live : sessions[i].family # sessions[j].family
        /\ \A d \in Calls : Replacing(call[d])
    BY <1>1 DEF DevicesInv, OneSessionPerDevice, SignedOutStaysOut, SignedOut, Replacing
  <1>3. ASSUME \A i, j \in Live' : sessions'[i].family = sessions'[j].family => i = j,
               \A i \in SignedOut', j \in Live' : sessions'[i].family # sessions'[j].family
        PROVE  (OneSessionPerDevice /\ SignedOutStaysOut)'
    BY <1>3 DEF OneSessionPerDevice, SignedOutStaysOut, SignedOut
  <1>4. ASSUME NEW d \in Calls, call'[d].at = "idle" PROVE Replacing(call[d])'
    BY <1>4 DEF Replacing
  <1>5. \A i \in DOMAIN sessions' : sessions'[i].state = "LIVE" <=> i \in Live'
    BY DEF Live
  <1>6. Live \subseteq DOMAIN sessions /\ SignedOut \subseteq DOMAIN sessions
    BY DEF Live, SignedOut
  \* Sessions that only end leave the device's order as it is.
  <1>7. ASSUME DOMAIN sessions' = DOMAIN sessions, SessionsEvolve,
               Live' \subseteq Live, SignedOut' \subseteq SignedOut
        PROVE  /\ (OneSessionPerDevice /\ SignedOutStaysOut)'
               /\ \A d \in Calls : call'[d] = call[d] => Replacing(call[d])'
    <2>1. (OneSessionPerDevice /\ SignedOutStaysOut)'
      BY <1>2, <1>3, <1>6, <1>7 DEF SessionsEvolve
    <2>2. ASSUME NEW d \in Calls, call'[d] = call[d] PROVE Replacing(call[d])'
      <3>1. Replacing(call[d])
        BY <1>2
      <3>2. call[d].at \in {"retire", "issue"} /\ call[d].item # 0 => call[d].item \in DOMAIN sessions
        BY DEF ItemsInv
      <3> QED
        BY <1>6, <1>7, <2>2, <3>1, <3>2 DEF Replacing, SessionsEvolve
    <2> QED
      BY <2>1, <2>2
  <1>8. CASE UNCHANGED <<sessions, call>>
    BY <1>2, <1>3, <1>8 DEF Live, SignedOut, Replacing
  <1>9. CASE \E c \in Calls : Issue(c)
    <2>1. PICK c \in Calls : Issue(c)
      BY <1>9
    <2> DEFINE n == Len(sessions) + 1
               p == call[c].item
    <2>2. Write(c)
      BY <2>1 DEF Write
    <2>3. \A d \in Calls : call'[d].at = "idle"
      BY <1>1, <2>1, <2>2, Turn, Ended DEF Issue
    <2>4. /\ Len(sessions) \in Nat /\ DOMAIN sessions = 1..Len(sessions)
          /\ DOMAIN sessions' = 1..n
          /\ \A i \in DOMAIN sessions : sessions'[i] = sessions[i]
          /\ sessions'[n].state = "LIVE"
          /\ sessions'[n].family = IF p = 0 THEN n ELSE sessions[p].family
      BY <2>1, IssueEffect
    <2>5. Live' = Live \cup {n} /\ SignedOut' = SignedOut
      BY <2>4 DEF Live, SignedOut
    <2>6. \A i \in Live \cup SignedOut : sessions[i].family # sessions'[n].family
      <3>1. CASE p = 0
        <4>1. \A i \in DOMAIN sessions : sessions[i].family \in 1..i
          BY DEF LineageInv
        <4> QED
          BY <1>6, <2>4, <3>1, <4>1
      <3>2. CASE p # 0
        <4>1. call[c].at = "issue" /\ Replacing(call[c])
          BY <1>2, <2>1 DEF Issue
        <4> QED
          BY <2>4, <3>2, <4>1 DEF Replacing
      <3> QED
        BY <3>1, <3>2
    <2> HIDE DEF n, p
    <2>7. \A i, j \in Live' : sessions'[i].family = sessions'[j].family => i = j
      BY <1>2, <1>6, <2>4, <2>5, <2>6
    <2>8. \A i \in SignedOut', j \in Live' : sessions'[i].family # sessions'[j].family
      BY <1>2, <1>6, <2>4, <2>5, <2>6
    <2> QED
      BY <1>3, <1>4, <2>3, <2>7, <2>8
  <1>10. CASE Revoke
    <2>1. \A d \in Calls : call'[d].at = "idle"
      BY <1>1, <1>10, Alone DEF Revoke
    <2>2. /\ SessionsEvolve /\ DOMAIN sessions' = DOMAIN sessions /\ Live' \subseteq Live
      BY <1>10, RevokeEffect
    <2>3. PICK i \in Live :
            \/ \A j \in DOMAIN sessions :
                  /\ j \in Live' => sessions[j].family # sessions[i].family
                  /\ j \in SignedOut' => \/ j \in SignedOut
                                         \/ sessions[j].family = sessions[i].family
            \/ \A j \in DOMAIN sessions :
                  /\ j \in Live' => sessions[j].family = sessions[i].family
                  /\ j \in SignedOut' => \/ j \in SignedOut
                                         \/ sessions[j].family # sessions[i].family
            \/ Live' = {}
      BY <1>10, RevokeEffect
    <2>4. SignedOut' \subseteq DOMAIN sessions
      BY <2>2 DEF SignedOut
    <2>5. \A j \in Live', k \in SignedOut' : sessions[k].family # sessions[j].family
      BY <1>2, <1>6, <2>2, <2>3, <2>4
    <2>6. \A k \in DOMAIN sessions : sessions'[k].family = sessions[k].family
      BY <2>2 DEF SessionsEvolve
    <2>7. /\ \A k, j \in Live' : sessions'[k].family = sessions'[j].family => k = j
          /\ \A k \in SignedOut', j \in Live' : sessions'[k].family # sessions'[j].family
      BY <1>2, <1>6, <2>2, <2>4, <2>5, <2>6
    <2> QED
      BY <1>3, <1>4, <2>1, <2>7
  <1>11. CASE Ends \/ UNCHANGED sessions
    <2>1. /\ DOMAIN sessions' = DOMAIN sessions /\ SessionsEvolve
          /\ Live' \subseteq Live /\ SignedOut' \subseteq SignedOut
      BY <1>11, EndsEffect DEF SessionsEvolve, Live, SignedOut
    <2>2. /\ (OneSessionPerDevice /\ SignedOutStaysOut)'
          /\ \A d \in Calls : call'[d] = call[d] => Replacing(call[d])'
      BY <1>7, <2>1
    <2>3. ASSUME NEW c \in Calls, Read(c) PROVE Replacing(call[c])'
      <3> DEFINE at == call'[c].at
                 item == call'[c].item
      <3>1. PICK handler \in regime.handlers : Found(handler, at, item)
        BY <2>3, ReadEffect
      <3>2. UNCHANGED sessions
        BY <2>3, ReadEffect
      <3>3. at # "issue" /\ (at = "retire" => item \in Live)
        BY <3>1 DEF Found
      <3>4. Live' = Live /\ SignedOut' = SignedOut
        BY <3>2 DEF Live, SignedOut
      <3> QED
        BY <1>2, <3>2, <3>3, <3>4 DEF Replacing
    <2>4. ASSUME NEW c \in Calls, Write(c) PROVE Replacing(call[c])'
      <3> SUFFICES ASSUME call'[c].at \in {"retire", "issue"}, call'[c].item # 0
                   PROVE  Replacing(call[c])'
        BY DEF Replacing
      <3>1. call[c].at \in {"pass", "retire"} /\ call'[c].at = "issue" /\ call'[c].item = call[c].item
        BY <2>4, Writes DEF Follows
      <3>2. call[c].at = "retire"
        BY <3>1 DEF ItemsInv
      <3>3. call[c].item \in DOMAIN sessions /\ Live' = Live \ {call[c].item}
        BY <2>4, <3>1, <3>2, RetireEffect
      <3>4. Replacing(call[c])
        BY <1>2
      <3> QED
        BY <1>6, <2>1, <3>1, <3>2, <3>3, <3>4 DEF Replacing, SessionsEvolve
    <2>5. ASSUME NEW c \in Calls, Read(c) \/ Write(c) PROVE \A d \in Calls : Replacing(call[d])'
      <3>1. \A d \in Calls \ {c} : call'[d].at = "idle"
        BY <1>1, <2>5, Turn
      <3> QED
        BY <1>4, <2>3, <2>4, <2>5, <3>1
    <2> QED
      BY <2>2, <2>5, Steps, OtherType
  <1> QED
    BY <1>9, <1>10, <1>11, SessionsChange

LEMMA ResetStep ==
    TypeOK /\ WidthInv /\ ItemsInv /\ LineageInv /\ ResetInv /\ [Next]_vars => ResetInv'
  <1> SUFFICES ASSUME TypeOK, WidthInv, ItemsInv, LineageInv, ResetInv, [Next]_vars,
                      OneAtATime', aborts' = 0
               PROVE  \/ (\A i \in Live : sessions[i].since = resets)'
                      \/ \E c \in Calls : call'[c].at \in {"uselink", "revoke"}
    BY DEF ResetInv
  <1>0. regime' = regime
    BY Steps, ReadEffect, Writes, OtherType
  <1>1. OneAtATime
    BY <1>0 DEF OneAtATime
  <1> DEFINE Settled == \A i \in Live : sessions[i].since = resets
             Setting == \E c \in Calls : call[c].at \in {"uselink", "revoke"}
  <1>2. aborts = 0 => Settled \/ Setting
    BY <1>1 DEF ResetInv
  <1>3. ASSUME Settled, UNCHANGED resets, SessionsEvolve,
               DOMAIN sessions' = DOMAIN sessions
        PROVE  Settled'
    BY <1>3 DEF SessionsEvolve, Live
  <1> HIDE DEF Settled
  <1>4. ASSUME NEW c \in Calls, Read(c) PROVE Settled'
    <2>1. \A d \in Calls : call[d].at = "idle"
      BY <1>1, <1>4, Turn
    <2>2. UNCHANGED <<sessions, resets, aborts>>
      BY <1>4, ReadEffect
    <2> QED
      BY <1>2, <1>3, <2>1, <2>2 DEF SessionsEvolve
  <1>5. ASSUME NEW c \in Calls, Issue(c) PROVE Settled'
    <2>1. call[c].at = "issue" /\ UNCHANGED <<resets, aborts>> /\ Write(c)
      BY <1>5 DEF Issue, Write
    <2>2. Settled
      BY <1>1, <1>2, <2>1, Turn
    <2>3. /\ Len(sessions) \in Nat /\ DOMAIN sessions = 1..Len(sessions)
          /\ DOMAIN sessions' = 1..(Len(sessions) + 1)
          /\ \A i \in DOMAIN sessions : sessions'[i] = sessions[i]
          /\ sessions'[Len(sessions) + 1].since = resets
      BY <1>5, IssueEffect
    <2> QED
      BY <2>1, <2>2, <2>3 DEF Settled, Live
  <1>6. ASSUME NEW c \in Calls, SetOtp(c) \/ SetLink(c) \/ LinkUse(c) PROVE Setting'
    BY <1>6, Went DEF SetOtp, SetLink, LinkUse, Stages
  <1>7. ASSUME NEW c \in Calls, RevokeAll(c) PROVE Settled'
    <2>1. Mark(Live, "REVOKED")
      BY <1>7 DEF RevokeAll
    <2>2. /\ DOMAIN sessions' = DOMAIN sessions
          /\ \A i \in DOMAIN sessions :
                sessions'[i].state = IF i \in Live THEN "REVOKED" ELSE sessions[i].state
      BY <2>1, MarkEffect DEF TypeOK, SessionStates
    <2>3. Live' = {}
      BY <2>2 DEF Live
    <2> QED
      BY <2>3 DEF Settled
  <1>8. ASSUME NEW c \in Calls, Write(c),
               ~(Issue(c) \/ SetOtp(c) \/ SetLink(c) \/ LinkUse(c) \/ RevokeAll(c))
        PROVE  Settled'
    <2>1. ~Abort(c)
      BY RegimeType DEF Abort
    <2>2. UNCHANGED <<aborts, resets>> /\ call[c].at \notin {"uselink", "revoke"}
      BY <1>8, <2>1 DEF Write, LoginFail, LoginPass, RefreshRetire, RefreshDeny, LogoutSave,
           ForgotVoidOtps, ForgotVoidLinks, ForgotNewOtp, ForgotNewLink, OtpBurn, OtpMiss,
           OtpUse, SetOwn, StatusSave, UnlockSave
    <2>3. Settled
      BY <1>1, <1>2, <1>8, <2>2, Turn
    <2>4. DOMAIN sessions' = DOMAIN sessions
      BY <1>8, <2>1 DEF Write, LoginFail, LoginPass, RefreshRetire, RefreshDeny, LogoutSave,
           ForgotVoidOtps, ForgotVoidLinks, ForgotNewOtp, ForgotNewLink, OtpBurn, OtpMiss,
           OtpUse, SetOwn, StatusSave, UnlockSave, Mark
    <2> QED
      BY <1>3, <2>2, <2>3, <2>4, SessionsStay
  <1>9. CASE Revoke \/ LockEnds \/ SessionExpires \/ CodesExpire \/ UNCHANGED vars
    <2>1. UNCHANGED <<aborts, resets, call>> /\ DOMAIN sessions' = DOMAIN sessions
      BY <1>9 DEF Revoke, LockEnds, SessionExpires, CodesExpire, vars, Mark
    <2>2. Settled \/ Setting
      BY <1>2, <2>1
    <2>3. Settled => Settled'
      BY <1>3, <2>1, SessionsStay
    <2> QED
      BY <2>1, <2>2, <2>3 DEF Settled
  <1> QED
    BY <1>4, <1>5, <1>6, <1>7, <1>8, <1>9, Steps DEF Settled

(***************************************************************************)
(* Codes and links                                                         *)
(***************************************************************************)

\* Codes are issued, or used up; their counts change where they are counted.
OtpsOnly ==
    /\ DOMAIN otps' = DOMAIN otps
    /\ \A i \in DOMAIN otps :
          /\ otps[i].used => otps'[i].used
          /\ otps[i].over => otps'[i].over
    /\ (\E c \in Calls : OtpMiss(c)) \/ \A i \in DOMAIN otps : otps'[i].tries = otps[i].tries
    /\ (\E c \in Calls : SetOtp(c)) \/ \A i \in DOMAIN otps : otps'[i].served = otps[i].served

LinksOnly ==
    /\ DOMAIN links' = DOMAIN links
    /\ \A i \in DOMAIN links :
          /\ links[i].used => links'[i].used
          /\ links[i].over => links'[i].over
    /\ (\E c \in Calls : SetLink(c)) \/ \A i \in DOMAIN links : links'[i].served = links[i].served

LEMMA OtpsChange ==
    ASSUME TypeOK, ItemsInv, [Next]_vars
    PROVE  OtpsOnly \/ \E c \in Calls : ForgotNewOtp(c)
  <1>0. otps \in Seq(Otps)
    BY DEF TypeOK
  <1>1. UNCHANGED otps => OtpsOnly
    BY DEF OtpsOnly
  <1>2. ASSUME NEW c \in Calls, Read(c) PROVE UNCHANGED otps
    BY <1>2, ReadEffect
  <1>3. ASSUME NEW c \in Calls, OtpBurn(c) \/ OtpMiss(c) \/ OtpUse(c) \/ SetOtp(c)
        PROVE  OtpsOnly
    <2> DEFINE i == call[c].item
    <2>1. i \in DOMAIN otps
      BY <1>3 DEF ItemsInv, OtpBurn, OtpMiss, OtpUse, SetOtp
    <2>2. CASE OtpBurn(c) \/ OtpUse(c)
      <3>1. otps' = [otps EXCEPT ![i].used = TRUE]
        BY <2>2 DEF OtpBurn, OtpUse
      <3> HIDE DEF i
      <3> QED
        BY <1>0, <2>1, <3>1, OtpChange DEF OtpsOnly, OtpsKeep
    <2>3. CASE OtpMiss(c)
      <3>1. otps' = [otps EXCEPT ![i].tries = @ + 1]
        BY <2>3 DEF OtpMiss
      <3> HIDE DEF i
      <3>2. OtpsKeep({"used", "over", "served"})
        BY <1>0, <2>1, <3>1, OtpChange
      <3> QED
        BY <2>3, <3>2 DEF OtpsOnly, OtpsKeep
    <2>4. CASE SetOtp(c)
      <3>1. otps' = [otps EXCEPT ![i].served = @ + 1]
        BY <2>4 DEF SetOtp
      <3> HIDE DEF i
      <3>2. OtpsKeep({"used", "over", "tries"})
        BY <1>0, <2>1, <3>1, OtpChange
      <3> QED
        BY <2>4, <3>2 DEF OtpsOnly, OtpsKeep
    <2> QED
      BY <1>3, <2>2, <2>3, <2>4
  <1>4. ASSUME NEW c \in Calls, ForgotVoidOtps(c) PROVE OtpsOnly
    BY <1>0, <1>4, OtpsWithdrawn DEF ForgotVoidOtps, OtpsOnly, OtpsKeep
  <1>5. ASSUME NEW c \in Calls, Write(c), ~ForgotNewOtp(c), ~ForgotVoidOtps(c),
               ~(OtpBurn(c) \/ OtpMiss(c) \/ OtpUse(c) \/ SetOtp(c))
        PROVE  UNCHANGED otps
    BY <1>5 DEF Write, LoginFail, LoginPass, Issue, RefreshRetire, RefreshDeny, LogoutSave,
         ForgotVoidLinks, ForgotNewLink, SetLink, SetOwn, LinkUse, RevokeAll, StatusSave,
         UnlockSave, Abort
  <1>6. Revoke \/ LockEnds \/ SessionExpires \/ UNCHANGED vars => UNCHANGED otps
    BY DEF Revoke, LockEnds, SessionExpires, vars
  <1>7. CodesExpire => OtpsOnly
    <2>1. ASSUME NEW i \in UsableOtps, otps' = [otps EXCEPT ![i].over = TRUE] PROVE OtpsOnly
      BY <1>0, <2>1, OtpChange DEF OtpsOnly, OtpsKeep, UsableOtps
    <2> QED
      BY <1>1, <2>1 DEF CodesExpire
  <1> QED
    BY <1>1, <1>2, <1>3, <1>4, <1>5, <1>6, <1>7, Steps

LEMMA LinksChange ==
    ASSUME TypeOK, ItemsInv, [Next]_vars
    PROVE  LinksOnly \/ \E c \in Calls : ForgotNewLink(c)
  <1>0. links \in Seq(Links)
    BY DEF TypeOK
  <1>1. UNCHANGED links => LinksOnly
    BY DEF LinksOnly
  <1>2. ASSUME NEW c \in Calls, Read(c) PROVE UNCHANGED links
    BY <1>2, ReadEffect
  <1>3. ASSUME NEW c \in Calls, SetLink(c) \/ LinkUse(c) PROVE LinksOnly
    <2> DEFINE i == call[c].item
    <2>1. i \in DOMAIN links
      BY <1>3 DEF ItemsInv, SetLink, LinkUse
    <2>2. CASE LinkUse(c)
      <3>1. links' = [links EXCEPT ![i].used = TRUE]
        BY <2>2 DEF LinkUse
      <3> HIDE DEF i
      <3> QED
        BY <1>0, <2>1, <3>1, LinkChange DEF LinksOnly, LinksKeep
    <2>3. CASE SetLink(c)
      <3>1. links' = [links EXCEPT ![i].served = @ + 1]
        BY <2>3 DEF SetLink
      <3> HIDE DEF i
      <3>2. LinksKeep({"used", "over"})
        BY <1>0, <2>1, <3>1, LinkChange
      <3> QED
        BY <2>3, <3>2 DEF LinksOnly, LinksKeep
    <2> QED
      BY <1>3, <2>2, <2>3
  <1>4. ASSUME NEW c \in Calls, ForgotVoidLinks(c) PROVE LinksOnly
    BY <1>0, <1>4, LinksWithdrawn DEF ForgotVoidLinks, LinksOnly, LinksKeep
  <1>5. ASSUME NEW c \in Calls, Write(c), ~ForgotNewLink(c), ~ForgotVoidLinks(c),
               ~(SetLink(c) \/ LinkUse(c))
        PROVE  UNCHANGED links
    BY <1>5 DEF Write, LoginFail, LoginPass, Issue, RefreshRetire, RefreshDeny, LogoutSave,
         ForgotVoidOtps, ForgotNewOtp, OtpBurn, OtpMiss, OtpUse, SetOtp, SetOwn, RevokeAll,
         StatusSave, UnlockSave, Abort
  <1>6. Revoke \/ LockEnds \/ SessionExpires \/ UNCHANGED vars => UNCHANGED links
    BY DEF Revoke, LockEnds, SessionExpires, vars
  <1>7. CodesExpire => LinksOnly
    <2>1. ASSUME NEW i \in UsableLinks, links' = [links EXCEPT ![i].over = TRUE] PROVE LinksOnly
      BY <1>0, <2>1, LinkChange DEF LinksOnly, LinksKeep, UsableLinks
    <2> QED
      BY <1>1, <2>1 DEF CodesExpire
  <1> QED
    BY <1>1, <1>2, <1>3, <1>4, <1>5, <1>6, <1>7, Steps

\* Part of a finite set is no larger than a bound of it.
LEMMA PartBound ==
    ASSUME NEW B, IsFiniteSet(B), NEW w \in Nat, Cardinality(B) <= w, NEW M \in SUBSET B
    PROVE  IsFiniteSet(M) /\ Cardinality(M) \in Nat /\ Cardinality(M) <= w
  <1>1. IsFiniteSet(M) /\ Cardinality(M) <= Cardinality(B)
    BY FS_Subset
  <1>2. Cardinality(M) \in Nat /\ Cardinality(B) \in Nat
    BY <1>1, FS_CardinalityType
  <1> QED
    BY <1>1, <1>2

LEMMA OtpTypes ==
    ASSUME TypeOK, NEW k \in DOMAIN otps
    PROVE  otps[k].tries \in Nat /\ otps[k].served \in Nat
  <1>1. otps \in Seq(Otps)
    BY DEF TypeOK
  <1>2. otps[k] \in Otps
    BY <1>1, LenProperties, ElementOfSeq
  <1> QED
    BY <1>2 DEF Otps

LEMMA TriesStep ==
    TypeOK /\ WidthInv /\ ItemsInv /\ LineageInv /\ TriesInv /\ [Next]_vars => TriesInv'
  <1> SUFFICES ASSUME TypeOK, WidthInv, ItemsInv, LineageInv, TriesInv, [Next]_vars,
                      NEW i \in DOMAIN otps'
               PROVE  (otps[i].tries + Cardinality(Missing(i)) <= MaxTries + regime.width - 1)'
    BY DEF TriesInv
  <1>0. /\ regime' = regime /\ regime.width \in Nat /\ regime.width > 0
        /\ MaxTries \in Nat /\ MaxTries > 0
        /\ TypeOK' /\ WidthInv'
    BY Steps, ReadEffect, Writes, OtherType, RegimeType, TypeStep, WidthStep, SignInAssumption
  <1>1. /\ IsFiniteSet(Missing(i)) /\ Cardinality(Missing(i)) \in Nat
        /\ IsFiniteSet(Missing(i)') /\ Cardinality(Missing(i)') \in Nat
        /\ Cardinality(Missing(i)') <= regime.width
    <2>1. Missing(i) \in SUBSET Busy /\ Missing(i)' \in SUBSET Busy'
      BY DEF Missing, Busy
    <2>2. /\ IsFiniteSet(Busy) /\ Cardinality(Busy) <= regime.width
          /\ IsFiniteSet(Busy') /\ Cardinality(Busy') <= regime.width
      BY <1>0 DEF WidthInv
    <2> QED
      BY <1>0, <2>1, <2>2, PartBound
  \* What is tried as often as before, by as many as before or fewer.
  <1>2. ASSUME i \in DOMAIN otps, otps'[i].tries = otps[i].tries, Missing(i)' \subseteq Missing(i)
        PROVE  otps'[i].tries + Cardinality(Missing(i)') <= MaxTries + regime.width - 1
    <2>1. Cardinality(Missing(i)') <= Cardinality(Missing(i))
      BY <1>1, <1>2, FS_Subset
    <2>2. otps[i].tries + Cardinality(Missing(i)) <= MaxTries + regime.width - 1
      BY <1>2 DEF TriesInv
    <2>3. otps[i].tries \in Nat
      BY <1>2, OtpTypes
    <2> QED
      BY <1>0, <1>1, <1>2, <2>1, <2>2, <2>3
  <1>3. ASSUME NEW c \in Calls, Read(c)
        PROVE  otps'[i].tries + Cardinality(Missing(i)') <= MaxTries + regime.width - 1
    <2> DEFINE at == call'[c].at
               item == call'[c].item
    <2>1. PICK handler \in regime.handlers : Found(handler, at, item)
      BY <1>3, ReadEffect
    <2>2. /\ UNCHANGED otps /\ call[c].at = "idle"
          /\ \A d \in Calls \ {c} : call'[d] = call[d]
      BY <1>3, ReadEffect
    <2>3. CASE at = "miss" /\ item = i
      <3>1. otps[i].tries < MaxTries
        BY <2>1, <2>3 DEF Found
      <3>2. otps[i].tries \in Nat
        BY <2>2, OtpTypes
      <3> QED
        BY <1>0, <1>1, <2>2, <3>1, <3>2
    <2>4. CASE ~(at = "miss" /\ item = i)
      <3>1. Missing(i)' \subseteq Missing(i)
        BY <2>2, <2>4 DEF Missing
      <3> QED
        BY <1>2, <2>2, <3>1
    <2> QED
      BY <2>3, <2>4
  <1>4. ASSUME NEW c \in Calls, Write(c)
        PROVE  Missing(i)' = Missing(i) \ {c}
    <2>1. /\ call'[c].at # "miss" /\ \A d \in Calls \ {c} : call'[d] = call[d]
      BY <1>4, Writes DEF Follows
    <2> QED
      BY <2>1 DEF Missing
  <1>5. ASSUME NEW c \in Calls, OtpMiss(c)
        PROVE  otps'[i].tries + Cardinality(Missing(i)') <= MaxTries + regime.width - 1
    <2> DEFINE item == call[c].item
    <2>1. call[c].at = "miss" /\ otps' = [otps EXCEPT ![item].tries = @ + 1] /\ item \in DOMAIN otps
      BY <1>5 DEF OtpMiss, ItemsInv
    <2>2. Missing(i)' = Missing(i) \ {c}
      BY <1>4, <1>5 DEF Write
    <2>3. /\ i \in DOMAIN otps
          /\ otps'[i].tries = IF i = item THEN otps[i].tries + 1 ELSE otps[i].tries
      BY <2>1, OtpChange DEF TypeOK, OtpsKeep
    <2>4. CASE i = item
      <3>1. c \in Missing(i)
        BY <2>1, <2>4 DEF Missing
      <3>2. Cardinality(Missing(i) \ {c}) = Cardinality(Missing(i)) - 1
        BY <1>1, <3>1, FS_RemoveElement
      <3>3. otps[i].tries \in Nat
        BY <2>3, OtpTypes
      <3>4. otps[i].tries + Cardinality(Missing(i)) <= MaxTries + regime.width - 1
        BY <2>3 DEF TriesInv
      <3> HIDE DEF item
      <3> QED
        BY <1>0, <1>1, <2>2, <2>3, <2>4, <3>2, <3>3, <3>4
    <2>5. CASE i # item
      BY <1>2, <2>2, <2>3, <2>5
    <2> QED
      BY <2>4, <2>5
  <1>6. ASSUME NEW c \in Calls, ForgotNewOtp(c)
        PROVE  otps'[i].tries + Cardinality(Missing(i)') <= MaxTries + regime.width - 1
    <2>1. /\ Len(otps) \in Nat /\ DOMAIN otps = 1..Len(otps)
          /\ DOMAIN otps' = 1..(Len(otps) + 1)
          /\ \A k \in DOMAIN otps : otps'[k] = otps[k]
          /\ otps'[Len(otps) + 1].tries = 0
      BY <1>6, OtpIssued DEF TypeOK
    <2>2. Missing(i)' = Missing(i) \ {c}
      BY <1>4, <1>6 DEF Write
    <2>3. CASE i \in DOMAIN otps
      BY <1>2, <2>1, <2>2, <2>3
    <2>4. CASE i \notin DOMAIN otps
      <3>1. i = Len(otps) + 1
        BY <2>1, <2>4
      <3>2. Missing(i) = {}
        BY <2>4 DEF Missing, ItemsInv
      <3>3. Cardinality(Missing(i)') = 0
        BY <2>2, <3>2, FS_EmptySet
      <3> QED
        BY <1>0, <2>1, <3>1, <3>3
    <2> QED
      BY <2>3, <2>4
  <1>7. ASSUME OtpsOnly, ~ \E c \in Calls : OtpMiss(c), ~ \E c \in Calls : Read(c)
        PROVE  otps'[i].tries + Cardinality(Missing(i)') <= MaxTries + regime.width - 1
    <2>1. i \in DOMAIN otps /\ otps'[i].tries = otps[i].tries
      BY <1>7 DEF OtpsOnly
    <2>2. (\E c \in Calls : Write(c)) \/ call' = call
      BY <1>7, Steps, OtherType
    <2>3. Missing(i)' \subseteq Missing(i)
      BY <1>4, <2>2 DEF Missing
    <2> QED
      BY <1>2, <2>1, <2>3
  <1>8. otps'[i].tries + Cardinality(Missing(i)') <= MaxTries + regime.width - 1
    BY <1>3, <1>5, <1>6, <1>7, OtpsChange
  <1> QED
    BY <1>0, <1>8

\* The part of LatestInv that is about one handler.
Renewing(k) ==
    /\ k.at \in {"voidlinks", "newotp"} => UsableOtps = {}
    /\ k.at \in {"newotp", "newlink"} => UsableLinks = {}

LEMMA LatestStep ==
    TypeOK /\ WidthInv /\ ItemsInv /\ LineageInv /\ LatestInv /\ [Next]_vars => LatestInv'
  <1> SUFFICES ASSUME TypeOK, WidthInv, ItemsInv, LineageInv, LatestInv, [Next]_vars,
                      OneAtATime'
               PROVE  /\ \A i, j \in UsableOtps' : i = j
                      /\ \A i, j \in UsableLinks' : i = j
                      /\ \A d \in Calls : Renewing(call[d])'
    BY DEF LatestInv, Renewing
  <1>0. regime' = regime
    BY Steps, ReadEffect, Writes, OtherType
  <1>1. OneAtATime
    BY <1>0 DEF OneAtATime
  <1>2. /\ \A i, j \in UsableOtps : i = j
        /\ \A i, j \in UsableLinks : i = j
        /\ \A d \in Calls : Renewing(call[d])
    BY <1>1 DEF LatestInv, Renewing
  <1>3. /\ OtpsOnly => UsableOtps' \subseteq UsableOtps
        /\ LinksOnly => UsableLinks' \subseteq UsableLinks
    BY DEF OtpsOnly, LinksOnly, UsableOtps, UsableLinks
  <1>4. ASSUME NEW d \in Calls, call'[d].at = "idle" PROVE Renewing(call[d])'
    BY <1>4 DEF Renewing
  <1>5. CASE \E c \in Calls : ForgotNewOtp(c)
    <2>1. PICK c \in Calls : ForgotNewOtp(c)
      BY <1>5
    <2>2. call[c].at = "newotp" /\ UNCHANGED links /\ Write(c) /\ Renewing(call[c])
      BY <1>2, <2>1 DEF ForgotNewOtp, Write
    <2>3. UsableOtps = {} /\ UsableLinks = {} /\ UsableLinks' = UsableLinks
      BY <2>2 DEF Renewing, UsableLinks
    <2>4. /\ DOMAIN otps' \subseteq DOMAIN otps \cup {Len(otps) + 1}
          /\ \A i \in DOMAIN otps : otps'[i] = otps[i]
      BY <2>1, OtpIssued DEF TypeOK
    <2>5. UsableOtps' \subseteq {Len(otps) + 1}
      BY <2>3, <2>4 DEF UsableOtps
    <2>6. call'[c].at = "newlink" /\ \A d \in Calls \ {c} : call'[d].at = "idle"
      BY <1>1, <2>1, <2>2, Turn, Went DEF ForgotNewOtp, Stages
    <2>7. Renewing(call[c])'
      BY <2>3, <2>6 DEF Renewing
    <2> QED
      BY <1>4, <2>3, <2>5, <2>6, <2>7
  <1>6. CASE \E c \in Calls : ForgotNewLink(c)
    <2>1. PICK c \in Calls : ForgotNewLink(c)
      BY <1>6
    <2>2. call[c].at = "newlink" /\ UNCHANGED otps /\ Write(c) /\ Renewing(call[c])
      BY <1>2, <2>1 DEF ForgotNewLink, Write
    <2>3. UsableLinks = {} /\ UsableOtps' = UsableOtps
      BY <2>2 DEF Renewing, UsableOtps
    <2>4. /\ DOMAIN links' \subseteq DOMAIN links \cup {Len(links) + 1}
          /\ \A i \in DOMAIN links : links'[i] = links[i]
      BY <2>1, LinkIssued DEF TypeOK
    <2>5. UsableLinks' \subseteq {Len(links) + 1}
      BY <2>3, <2>4 DEF UsableLinks
    <2>6. call'[c].at = "idle" /\ \A d \in Calls \ {c} : call'[d].at = "idle"
      BY <1>1, <2>1, <2>2, Turn, Ended DEF ForgotNewLink
    <2> QED
      BY <1>2, <1>4, <2>3, <2>5, <2>6
  <1>7. CASE OtpsOnly /\ LinksOnly
    <2>1. UsableOtps' \subseteq UsableOtps /\ UsableLinks' \subseteq UsableLinks
      BY <1>3, <1>7
    <2>2. ASSUME NEW d \in Calls, call'[d] = call[d] PROVE Renewing(call[d])'
      <3>1. Renewing(call[d])
        BY <1>2
      <3> QED
        BY <2>1, <2>2, <3>1 DEF Renewing
    <2>3. ASSUME NEW c \in Calls, Read(c) PROVE Renewing(call[c])'
      <3> DEFINE at == call'[c].at
                 item == call'[c].item
      <3>1. PICK handler \in regime.handlers : Found(handler, at, item)
        BY <2>3, ReadEffect
      <3>2. at \notin {"voidlinks", "newotp", "newlink"}
        BY <3>1 DEF Found
      <3> QED
        BY <3>2 DEF Renewing
    <2>4. ASSUME NEW c \in Calls, Write(c), call'[c].at = "voidlinks" PROVE UsableOtps' = {}
      <3>1. call[c].at = "voidotps"
        BY <2>4, Writes DEF Follows
      <3>2. ForgotVoidOtps(c)
        BY <2>4, <3>1 DEF Write, LoginFail, LoginPass, Issue, RefreshRetire, RefreshDeny,
             LogoutSave, ForgotVoidLinks, ForgotNewOtp, ForgotNewLink, OtpBurn, OtpMiss, OtpUse,
             SetOtp, SetLink, SetOwn, LinkUse, RevokeAll, StatusSave, UnlockSave, Abort
      <3>3. OtpsKeep({"over", "tries", "served"}) /\ \A j \in DOMAIN otps : otps'[j].used
        BY <3>2, OtpsWithdrawn DEF ForgotVoidOtps, TypeOK
      <3> QED
        BY <3>3 DEF OtpsKeep, UsableOtps
    <2>5. ASSUME NEW c \in Calls, Write(c), call'[c].at = "newotp"
          PROVE  UsableOtps' = {} /\ UsableLinks' = {}
      <3>1. call[c].at = "voidlinks" /\ Renewing(call[c])
        BY <1>2, <2>5, Writes DEF Follows
      <3>0. ~Abort(c)
        BY <2>5, Ended DEF Abort
      <3>2. ForgotVoidLinks(c)
        BY <2>5, <3>0, <3>1 DEF Write, LoginFail, LoginPass, Issue, RefreshRetire, RefreshDeny,
             LogoutSave, ForgotVoidOtps, ForgotNewOtp, ForgotNewLink, OtpBurn, OtpMiss, OtpUse,
             SetOtp, SetLink, SetOwn, LinkUse, RevokeAll, StatusSave, UnlockSave
      <3>3. LinksKeep({"over", "served"}) /\ \A j \in DOMAIN links : links'[j].used
        BY <3>2, LinksWithdrawn DEF ForgotVoidLinks, TypeOK
      <3>4. UsableLinks' = {}
        BY <3>3 DEF LinksKeep, UsableLinks
      <3> QED
        BY <2>1, <3>1, <3>4 DEF Renewing
    <2>6. ASSUME NEW c \in Calls, Write(c) PROVE Renewing(call[c])'
      <3>1. CASE call'[c].at = "newlink"
        <4>1. call[c].at = "newotp" /\ Renewing(call[c])
          BY <1>2, <2>6, <3>1, Writes DEF Follows
        <4> QED
          BY <2>1, <3>1, <4>1 DEF Renewing
      <3> QED
        BY <2>4, <2>5, <2>6, <3>1 DEF Renewing
    <2>7. ASSUME NEW c \in Calls, Read(c) \/ Write(c) PROVE \A d \in Calls : Renewing(call[d])'
      <3>1. \A d \in Calls \ {c} : call'[d].at = "idle"
        BY <1>1, <2>7, Turn
      <3> QED
        BY <1>4, <2>3, <2>6, <2>7, <3>1
    <2> QED
      BY <1>2, <2>1, <2>2, <2>7, Steps, OtherType
  <1> QED
    BY <1>5, <1>6, <1>7, OtpsChange, LinksChange

\* The parts of ServedInv: about one handler, about the codes, about the links.
Setting(k) ==
    /\ k.at = "use" => ~otps[k.item].used
    /\ k.at = "setotp" => otps[k.item].served = 0 /\ otps[k.item].used
    /\ k.at = "setlink" => links[k.item].served = 0

OtpsServed == \A i \in DOMAIN otps : otps[i].served <= 1 /\ (~otps[i].used => otps[i].served = 0)

LinksServed ==
    \A i \in DOMAIN links :
        /\ links[i].served <= 1
        /\ ~links[i].used => \/ links[i].served = 0
                             \/ \E c \in Calls : call[c].at = "uselink" /\ call[c].item = i

LEMMA ServedParts ==
    /\ ServedInv <=>
          (OneAtATime /\ aborts = 0 => OtpsServed /\ LinksServed /\ \A c \in Calls : Setting(call[c]))
    /\ ServedInv' <=>
          (OneAtATime' /\ aborts' = 0
              => OtpsServed' /\ LinksServed' /\ \A c \in Calls : Setting(call[c])')
  BY DEF ServedInv, OtpsServed, LinksServed, Setting

LEMMA ServedStep ==
    TypeOK /\ WidthInv /\ ItemsInv /\ LineageInv /\ ServedInv /\ [Next]_vars => ServedInv'
  <1> SUFFICES ASSUME TypeOK, WidthInv, ItemsInv, LineageInv, ServedInv, [Next]_vars,
                      OneAtATime', aborts' = 0
               PROVE  OtpsServed' /\ LinksServed' /\ \A d \in Calls : Setting(call[d])'
    BY ServedParts
  <1>0. regime' = regime /\ OneAtATime
    BY Steps, ReadEffect, Writes, OtherType DEF OneAtATime
  <1>1. \A c \in Calls : ~Abort(c)
    BY RegimeType DEF Abort
  <1>2. aborts = 0
    <2>1. ASSUME NEW c \in Calls, Write(c) PROVE aborts' = aborts
      BY <1>1, <2>1 DEF Write, LoginFail, LoginPass, Issue, RefreshRetire, RefreshDeny,
             LogoutSave, ForgotVoidOtps, ForgotVoidLinks, ForgotNewOtp, ForgotNewLink, OtpBurn,
             OtpMiss, OtpUse, SetOtp, SetLink, SetOwn, LinkUse, RevokeAll, StatusSave, UnlockSave
    <2>2. Revoke \/ LockEnds \/ SessionExpires \/ CodesExpire \/ UNCHANGED vars => aborts' = aborts
      BY DEF Revoke, LockEnds, SessionExpires, CodesExpire, vars
    <2> QED
      BY <2>1, <2>2, Steps, ReadEffect
  <1>3. OtpsServed /\ LinksServed /\ \A d \in Calls : Setting(call[d])
    BY <1>0, <1>2, ServedParts
  <1>4. ASSUME NEW d \in Calls, call'[d].at = "idle" PROVE Setting(call[d])'
    BY <1>4 DEF Setting
  \* While no link is about to be used up, what is unused has set no password.
  <1>5. ASSUME NEW c \in Calls, Read(c) \/ Write(c), call[c].at # "uselink"
        PROVE  \A i \in DOMAIN links : links[i].served <= 1 /\ (~links[i].used => links[i].served = 0)
    <2>1. \A d \in Calls : call[d].at # "uselink"
      BY <1>0, <1>5, Turn
    <2> QED
      BY <1>3, <2>1 DEF LinksServed
  <1>6. ASSUME NEW c \in Calls, Read(c)
        PROVE  OtpsServed' /\ LinksServed' /\ Setting(call[c])'
    <2> DEFINE at == call'[c].at
               item == call'[c].item
    <2>1. PICK handler \in regime.handlers : Found(handler, at, item)
      BY <1>6, ReadEffect
    <2>2. UNCHANGED <<otps, links>> /\ call[c].at = "idle"
      BY <1>6, ReadEffect
    <2>3. \A i \in DOMAIN links : links[i].served <= 1 /\ (~links[i].used => links[i].served = 0)
      BY <1>5, <1>6, <2>2
    <2>4. /\ at # "setotp"
          /\ at = "use" => ~otps[item].used
          /\ at = "setlink" => item \in DOMAIN links /\ ~links[item].used
      BY <2>1 DEF Found, UsableOtps, UsableLinks
    <2>5. OtpsServed' /\ LinksServed'
      BY <1>3, <2>2, <2>3 DEF OtpsServed, LinksServed
    <2>6. Setting(call[c])'
      BY <2>2, <2>3, <2>4 DEF Setting
    <2> QED
      BY <2>5, <2>6
  <1>7. ASSUME NEW c \in Calls, ForgotNewOtp(c) PROVE OtpsServed' /\ LinksServed' /\ Setting(call[c])'
    <2>1. call[c].at = "newotp" /\ UNCHANGED links /\ Write(c)
      BY <1>7 DEF ForgotNewOtp, Write
    <2>2. /\ Len(otps) \in Nat
          /\ DOMAIN otps = 1..Len(otps) /\ DOMAIN otps' = 1..(Len(otps) + 1)
          /\ \A i \in DOMAIN otps : otps'[i] = otps[i]
          /\ otps'[Len(otps) + 1].served = 0
      BY <1>7, OtpIssued DEF TypeOK
    <2>3. OtpsServed'
      BY <1>3, <2>2 DEF OtpsServed
    <2>4. LinksServed'
      BY <1>5, <2>1 DEF LinksServed
    <2>5. call'[c].at = "newlink"
      BY <1>7, Went DEF ForgotNewOtp, Stages
    <2> QED
      BY <2>3, <2>4, <2>5 DEF Setting
  <1>8. ASSUME NEW c \in Calls, ForgotNewLink(c) PROVE OtpsServed' /\ LinksServed' /\ Setting(call[c])'
    <2>1. call[c].at = "newlink" /\ UNCHANGED otps /\ Write(c)
      BY <1>8 DEF ForgotNewLink, Write
    <2>2. /\ Len(links) \in Nat
          /\ DOMAIN links = 1..Len(links) /\ DOMAIN links' = 1..(Len(links) + 1)
          /\ \A i \in DOMAIN links : links'[i] = links[i]
          /\ links'[Len(links) + 1].served = 0
      BY <1>8, LinkIssued DEF TypeOK
    <2>3. OtpsServed'
      BY <1>3, <2>1 DEF OtpsServed
    <2>4. \A i \in DOMAIN links : links[i].served <= 1 /\ (~links[i].used => links[i].served = 0)
      BY <1>5, <2>1
    <2>5. LinksServed'
      BY <2>2, <2>4 DEF LinksServed
    <2>6. call'[c].at = "idle"
      BY <1>8, Ended DEF ForgotNewLink
    <2> QED
      BY <2>3, <2>5, <2>6 DEF Setting
  <1>9. ASSUME NEW c \in Calls, SetOtp(c) PROVE OtpsServed' /\ LinksServed' /\ Setting(call[c])'
    <2> DEFINE i == call[c].item
    <2>1. /\ call[c].at = "setotp" /\ UNCHANGED links /\ Write(c)
          /\ otps' = [otps EXCEPT ![i].served = @ + 1] /\ i \in DOMAIN otps
      BY <1>9 DEF SetOtp, ItemsInv, Write
    <2>2. otps[i].served = 0 /\ otps[i].used
      BY <1>3, <2>1 DEF Setting
    <2>3. LinksServed'
      BY <1>5, <2>1 DEF LinksServed
    <2>4. call'[c].at = "revoke"
      BY <1>9, Went DEF SetOtp, Stages
    <2> HIDE DEF i
    <2>5. OtpsKeep({"used", "over", "tries"}) /\ \A j \in DOMAIN otps :
              otps'[j].served = IF j = i THEN otps[j].served + 1 ELSE otps[j].served
      BY <2>1, OtpChange DEF TypeOK
    <2>6. OtpsServed'
      BY <1>3, <2>2, <2>5 DEF OtpsKeep, OtpsServed
    <2> QED
      BY <2>3, <2>4, <2>6 DEF Setting
  <1>10. ASSUME NEW c \in Calls, SetLink(c) PROVE OtpsServed' /\ LinksServed' /\ Setting(call[c])'
    <2> DEFINE i == call[c].item
    <2>1. /\ call[c].at = "setlink" /\ UNCHANGED otps /\ Write(c)
          /\ links' = [links EXCEPT ![i].served = @ + 1] /\ i \in DOMAIN links
      BY <1>10 DEF SetLink, ItemsInv, Write
    <2>2. links[i].served = 0
      BY <1>3, <2>1 DEF Setting
    <2>3. OtpsServed'
      BY <1>3, <2>1 DEF OtpsServed
    <2>4. call'[c].at = "uselink" /\ call'[c].item = i
      BY <1>10, Went DEF SetLink, Stages
    <2>5. \A j \in DOMAIN links : links[j].served <= 1 /\ (~links[j].used => links[j].served = 0)
      BY <1>5, <2>1
    <2> HIDE DEF i
    <2>6. LinksKeep({"used", "over"}) /\ \A j \in DOMAIN links :
              links'[j].served = IF j = i THEN links[j].served + 1 ELSE links[j].served
      BY <2>1, LinkChange DEF TypeOK
    <2>7. LinksServed'
      BY <2>2, <2>4, <2>5, <2>6 DEF LinksKeep, LinksServed
    <2> QED
      BY <2>3, <2>4, <2>7 DEF Setting
  <1>11. ASSUME NEW c \in Calls, LinkUse(c) PROVE OtpsServed' /\ LinksServed' /\ Setting(call[c])'
    <2> DEFINE i == call[c].item
    <2>1. /\ call[c].at = "uselink" /\ UNCHANGED otps /\ Write(c)
          /\ links' = [links EXCEPT ![i].used = TRUE] /\ i \in DOMAIN links
      BY <1>11 DEF LinkUse, ItemsInv, Write
    <2>2. OtpsServed'
      BY <1>3, <2>1 DEF OtpsServed
    <2>3. call'[c].at = "revoke"
      BY <1>11, Went DEF LinkUse, Stages
    <2>4. \A d \in Calls \ {c} : call[d].at = "idle"
      BY <1>0, <2>1, Turn
    <2>5. \A j \in DOMAIN links : links[j].served <= 1 /\ (~links[j].used => links[j].served = 0 \/ j = i)
      BY <1>3, <2>4 DEF LinksServed
    <2> HIDE DEF i
    <2>6. LinksKeep({"over", "served"}) /\ \A j \in DOMAIN links :
              links'[j].used = IF j = i THEN TRUE ELSE links[j].used
      BY <2>1, LinkChange DEF TypeOK
    <2>7. LinksServed'
      BY <2>5, <2>6 DEF LinksKeep, LinksServed
    <2> QED
      BY <2>2, <2>3, <2>7 DEF Setting
  <1>12. ASSUME NEW c \in Calls, Write(c), ~(\/ ForgotNewOtp(c) \/ ForgotNewLink(c)
                                            \/ SetOtp(c) \/ SetLink(c) \/ LinkUse(c))
         PROVE  OtpsServed' /\ LinksServed' /\ Setting(call[c])'
    <2>1. call[c].at \notin {"newotp", "newlink", "setotp", "setlink", "uselink"}
      BY <1>1, <1>12 DEF Write, LoginFail, LoginPass, Issue, RefreshRetire, RefreshDeny,
             LogoutSave, ForgotVoidOtps, ForgotVoidLinks, OtpBurn, OtpMiss, OtpUse, SetOwn,
             RevokeAll, StatusSave, UnlockSave
    <2>2. \A d \in Calls : call[d].at \notin {"newotp", "newlink", "setotp", "setlink", "uselink"}
      BY <1>0, <1>12, <2>1, Turn
    <2>3. /\ OtpsOnly /\ \A i \in DOMAIN otps : otps'[i].served = otps[i].served
          /\ LinksOnly /\ \A i \in DOMAIN links : links'[i].served = links[i].served
      <3>1. \A d \in Calls : ~(\/ ForgotNewOtp(d) \/ ForgotNewLink(d) \/ SetOtp(d) \/ SetLink(d))
        BY <2>2 DEF ForgotNewOtp, ForgotNewLink, SetOtp, SetLink
      <3>2. OtpsOnly /\ LinksOnly
        BY <3>1, OtpsChange, LinksChange
      <3> QED
        BY <3>1, <3>2 DEF OtpsOnly, LinksOnly
    <2>4. OtpsServed'
      BY <1>3, <2>3 DEF OtpsServed, OtpsOnly
    <2>5. \A i \in DOMAIN links : links[i].served <= 1 /\ (~links[i].used => links[i].served = 0)
      BY <1>5, <1>12, <2>1
    <2>6. LinksServed'
      BY <2>3, <2>5 DEF LinksServed, LinksOnly
    <2>7. /\ call'[c].at \notin {"use", "setlink"}
          /\ call'[c].at = "setotp" => call[c].at = "use" /\ call'[c].item = call[c].item
      BY <1>12, <2>1, Writes DEF Follows
    <2>8. ASSUME call'[c].at = "setotp"
          PROVE  otps'[call'[c].item].served = 0 /\ otps'[call'[c].item].used
      <3> DEFINE i == call[c].item
      <3>1. OtpUse(c)
        <4>1. ~End(c)
          BY <2>8, Ended
        <4> QED
          BY <1>1, <1>12, <2>7, <2>8, <4>1 DEF Write, LoginFail, LoginPass, Issue, RefreshRetire,
             RefreshDeny, LogoutSave, ForgotVoidOtps, ForgotVoidLinks, OtpBurn, OtpMiss, SetOwn,
             RevokeAll, StatusSave, UnlockSave
      <3>2. /\ call[c].at = "use" /\ i \in DOMAIN otps
            /\ otps' = [otps EXCEPT ![i].used = TRUE]
        BY <3>1 DEF OtpUse, ItemsInv
      <3>3. ~otps[i].used
        BY <1>3, <3>2 DEF Setting
      <3>4. otps[i].served = 0
        BY <1>3, <3>2, <3>3 DEF OtpsServed
      <3>5. call'[c].item = i
        BY <2>7, <2>8
      <3> HIDE DEF i
      <3>6. otps'[i].used
        BY <3>2, OtpChange DEF TypeOK
      <3> QED
        BY <2>3, <3>2, <3>4, <3>5, <3>6
    <2>9. Setting(call[c])'
      BY <2>7, <2>8 DEF Setting
    <2> QED
      BY <2>4, <2>6, <2>9
  <1>13. ASSUME NEW c \in Calls, Read(c) \/ Write(c)
         PROVE  OtpsServed' /\ LinksServed' /\ \A d \in Calls : Setting(call[d])'
    <2>1. \A d \in Calls \ {c} : call'[d].at = "idle"
      BY <1>0, <1>13, Turn
    <2>2. OtpsServed' /\ LinksServed' /\ Setting(call[c])'
      BY <1>6, <1>7, <1>8, <1>9, <1>10, <1>11, <1>12, <1>13
    <2> QED
      BY <1>4, <2>1, <2>2
  <1>14. CASE Revoke \/ LockEnds \/ SessionExpires \/ UNCHANGED vars
    <2>1. UNCHANGED <<otps, links, call>>
      BY <1>14 DEF Revoke, LockEnds, SessionExpires, vars
    <2> QED
      BY <1>3, <2>1 DEF OtpsServed, LinksServed, Setting
  <1>15. CASE CodesExpire
    <2>1. OtpsKeep({"used", "tries", "served"}) /\ LinksKeep({"used", "served"}) /\ call' = call
      <3>0. call' = call
        BY <1>15 DEF CodesExpire
      <3>1. CASE \E i \in UsableOtps : otps' = [otps EXCEPT ![i].over = TRUE] /\ UNCHANGED links
        <4>1. PICK i \in DOMAIN otps : otps' = [otps EXCEPT ![i].over = TRUE]
          BY <3>1 DEF UsableOtps
        <4>2. OtpsKeep({"used", "tries", "served"})
          BY <4>1, OtpChange DEF TypeOK
        <4>3. links' = links /\ links \in Seq(Links)
          BY <3>1 DEF TypeOK
        <4> QED
          BY <3>0, <4>2, <4>3 DEF LinksKeep
      <3>2. CASE \E i \in UsableLinks : links' = [links EXCEPT ![i].over = TRUE] /\ UNCHANGED otps
        <4>1. PICK i \in DOMAIN links : links' = [links EXCEPT ![i].over = TRUE]
          BY <3>2 DEF UsableLinks
        <4>2. LinksKeep({"used", "served"})
          BY <4>1, LinkChange DEF TypeOK
        <4>3. otps' = otps /\ otps \in Seq(Otps)
          BY <3>2 DEF TypeOK
        <4> QED
          BY <3>0, <4>2, <4>3 DEF OtpsKeep
      <3> QED
        BY <1>15, <3>1, <3>2 DEF CodesExpire
    <2>2. \A d \in Calls : /\ call[d].at \in {"use", "setotp"} => call[d].item \in DOMAIN otps
                           /\ call[d].at = "setlink" => call[d].item \in DOMAIN links
      BY DEF ItemsInv
    <2>3. OtpsServed' /\ LinksServed'
      BY <1>3, <2>1 DEF OtpsKeep, LinksKeep, OtpsServed, LinksServed
    <2>4. \A d \in Calls : Setting(call[d])'
      BY <1>3, <2>1, <2>2 DEF OtpsKeep, LinksKeep, Setting
    <2> QED
      BY <2>3, <2>4
  <1> QED
    BY <1>13, <1>14, <1>15, Steps

(***************************************************************************)
(* The user                                                                *)
(***************************************************************************)

\* The steps that write the user.
UserWrite(c) ==
    \/ LoginFail(c) \/ LoginPass(c) \/ SetOtp(c) \/ SetLink(c) \/ SetOwn(c)
    \/ StatusSave(c) \/ UnlockSave(c)

LEMMA UserChange ==
    ASSUME TypeOK, [Next]_vars
    PROVE  \/ UNCHANGED <<user, misses>> \/ LockEnds
           \/ \E c \in Calls : UserWrite(c) /\ Write(c)
  <1>1. ASSUME NEW c \in Calls, Write(c), ~UserWrite(c) PROVE UNCHANGED <<user, misses>>
    BY <1>1 DEF Write, UserWrite, Issue, RefreshRetire, RefreshDeny, LogoutSave, ForgotVoidOtps,
         ForgotVoidLinks, ForgotNewOtp, ForgotNewLink, OtpBurn, OtpMiss, OtpUse, LinkUse,
         RevokeAll, Abort
  <1>2. Revoke \/ SessionExpires \/ CodesExpire \/ UNCHANGED vars => UNCHANGED <<user, misses>>
    BY DEF Revoke, SessionExpires, CodesExpire, vars
  <1> QED
    BY <1>1, <1>2, Steps, ReadEffect

\* The part of ReadInv that is about one handler.
Knows(k) ==
    /\ k.at = "fail" => k.seen = user
    /\ k.at = "unlock" => /\ k.seen.fails = user.fails
                          /\ k.seen.status = user.status
                          /\ k.seen.lock = "none" <=> user.lock = "none"
    /\ k.at \in {"fail", "pass"} => user.status = "ACTIVE" /\ user.lock # "running"
    /\ k.at = "setown" => user.status = "ACTIVE"
    /\ k.at = "status" => "status" \in regime.handlers

LEMMA ReadStep ==
    TypeOK /\ WidthInv /\ ItemsInv /\ LineageInv /\ ReadInv /\ [Next]_vars => ReadInv'
  <1> SUFFICES ASSUME TypeOK, WidthInv, ItemsInv, LineageInv, ReadInv, [Next]_vars,
                      OneAtATime'
               PROVE  \A d \in Calls : Knows(call[d])'
    BY DEF ReadInv, Knows
  <1>0. regime' = regime /\ OneAtATime
    BY Steps, ReadEffect, Writes, OtherType DEF OneAtATime
  <1>1. \A d \in Calls : Knows(call[d])
    BY <1>0 DEF ReadInv, Knows
  <1>2. ASSUME NEW d \in Calls, call'[d].at = "idle" PROVE Knows(call[d])'
    BY <1>2 DEF Knows
  <1>3. ASSUME NEW c \in Calls, Read(c) PROVE Knows(call[c])'
    <2> DEFINE at == call'[c].at
               item == call'[c].item
    <2>1. PICK handler \in regime.handlers : Found(handler, at, item)
      BY <1>3, ReadEffect
    <2>2. user' = user /\ (at \in {"fail", "unlock"} => call'[c].seen = user)
      BY <1>3, ReadEffect
    <2>3. /\ at \in {"fail", "pass"} => user.status = "ACTIVE" /\ user.lock # "running"
          /\ at = "setown" => user.status = "ACTIVE"
          /\ at = "status" => "status" \in regime.handlers
      BY <2>1, RegimeType DEF Found, Users, UserStatuses
    <2> HIDE DEF at, item
    <2> QED
      BY <1>0, <2>2, <2>3 DEF Knows, at
  <1>4. ASSUME NEW c \in Calls, Write(c) PROVE Knows(call[c])'
    <2>1. call'[c].at \notin {"fail", "unlock", "pass", "setown", "status"}
      BY <1>4, Writes DEF Follows
    <2> QED
      BY <2>1 DEF Knows
  <1>5. ASSUME NEW c \in Calls, Read(c) \/ Write(c) PROVE \A d \in Calls : Knows(call[d])'
    <2>1. \A d \in Calls \ {c} : call'[d].at = "idle"
      BY <1>0, <1>5, Turn
    <2> QED
      BY <1>2, <1>3, <1>4, <1>5, <2>1
  <1>6. CASE LockEnds
    <2>1. /\ user.lock = "running" /\ user'.lock = "over" /\ user'.status = user.status
          /\ user'.fails = user.fails /\ call' = call
      BY <1>6, RegimeType DEF LockEnds, Users
    <2>2. \A d \in Calls : call[d].at \notin {"fail", "pass"}
      BY <1>1, <2>1 DEF Knows
    <2> QED
      BY <1>0, <1>1, <2>1, <2>2 DEF Knows
  <1>7. CASE Revoke \/ SessionExpires \/ CodesExpire \/ UNCHANGED vars
    <2>1. UNCHANGED <<user, call>>
      BY <1>7 DEF Revoke, SessionExpires, CodesExpire, vars
    <2> QED
      BY <1>0, <1>1, <2>1 DEF Knows
  <1> QED
    BY <1>5, <1>6, <1>7, Steps

\* What a write does to the user of one handler at a time.
LEMMA UserEffect ==
    ASSUME TypeOK, ReadInv, OneAtATime, NEW c \in Calls, UserWrite(c)
    PROVE  \/ /\ call[c].at = "fail" /\ user.status = "ACTIVE"
              /\ misses' = misses + 1 /\ user'.fails = user.fails + 1
              /\ IF user.fails + 1 >= MaxFailed
                 THEN user'.status = "LOCKED" /\ user'.lock = "running"
                 ELSE user'.status = "ACTIVE"
           \/ /\ call[c].at \in {"pass", "setown"} /\ user.status = "ACTIVE"
              /\ misses' = 0 /\ user' = Cleared
           \/ /\ call[c].at \in {"setotp", "setlink"} /\ misses' = 0 /\ user' = Cleared
           \/ /\ call[c].at = "status" /\ "status" \in regime.handlers
              /\ misses' = misses /\ user'.fails = user.fails
           \/ /\ call[c].at = "unlock" /\ misses' = 0 /\ user'.fails = 0
              /\ user'.status = IF user.status = "LOCKED" THEN "ACTIVE" ELSE user.status
  <1>0. user \in Users /\ MaxFailed \in Nat
    BY RegimeType
  <1>1. CASE LoginFail(c)
    <2>1. call[c].at = "fail" /\ call[c].seen = user /\ user.status = "ACTIVE"
      BY <1>1 DEF LoginFail, ReadInv
    <2>2. /\ misses' = misses + 1
          /\ user' = IF user.fails + 1 >= MaxFailed
                     THEN [status |-> "LOCKED", fails |-> user.fails + 1, lock |-> "running"]
                     ELSE [status |-> user.status, fails |-> user.fails + 1, lock |-> "none"]
      BY <1>1, <2>1 DEF LoginFail
    <2> QED
      BY <2>1, <2>2
  <1>2. CASE LoginPass(c) \/ SetOwn(c)
    BY <1>2 DEF LoginPass, SetOwn, ReadInv
  <1>3. CASE SetOtp(c) \/ SetLink(c)
    BY <1>3 DEF SetOtp, SetLink
  <1>4. CASE StatusSave(c)
    <2>1. call[c].at = "status" /\ "status" \in regime.handlers /\ misses' = misses
      BY <1>4 DEF StatusSave, ReadInv
    <2>2. user'.fails = user.fails
      BY <1>0, <1>4 DEF StatusSave, Users
    <2> QED
      BY <2>1, <2>2
  <1>5. CASE UnlockSave(c)
    <2> DEFINE seen == call[c].seen
    <2>1. /\ call[c].at = "unlock" /\ misses' = 0
          /\ seen.fails = user.fails /\ seen.status = user.status
      BY <1>5 DEF UnlockSave, ReadInv
    <2>2. user' = [fails  |-> IF seen.fails # 0 THEN 0 ELSE user.fails,
                   lock   |-> IF seen.lock # "none" THEN "none" ELSE user.lock,
                   status |-> IF seen.status = "LOCKED" THEN "ACTIVE" ELSE user.status]
      BY <1>5 DEF UnlockSave
    <2> HIDE DEF seen
    <2> QED
      BY <2>1, <2>2
  <1> QED
    BY <1>1, <1>2, <1>3, <1>4, <1>5 DEF UserWrite

LEMMA LocksStep ==
    TypeOK /\ ReadInv /\ LocksInOrder /\ [Next]_vars => LocksInOrder'
  <1> SUFFICES ASSUME TypeOK, ReadInv, LocksInOrder, [Next]_vars, OneAtATime'
               PROVE  /\ user'.fails = misses'
                      /\ "status" \notin regime'.handlers =>
                            /\ misses' >= MaxFailed => user'.status = "LOCKED"
                            /\ user'.status = "LOCKED" => user'.lock # "none"
    BY DEF LocksInOrder, EveryFailureCounts, LockHasEnd
  <1>0. regime' = regime /\ OneAtATime
    BY Steps, ReadEffect, Writes, OtherType DEF OneAtATime
  <1>1. /\ user.fails = misses
        /\ "status" \notin regime.handlers =>
              /\ misses >= MaxFailed => user.status = "LOCKED"
              /\ user.status = "LOCKED" => user.lock # "none"
    BY <1>0 DEF LocksInOrder, EveryFailureCounts, LockHasEnd
  <1>2. user \in Users /\ misses \in Nat /\ MaxFailed \in Nat /\ MaxFailed > 0
    BY RegimeType
  <1>3. CASE UNCHANGED <<user, misses>>
    BY <1>0, <1>1, <1>3
  <1>4. CASE LockEnds
    <2>1. /\ user'.lock = "over" /\ user'.status = user.status
          /\ user'.fails = user.fails /\ misses' = misses
      BY <1>2, <1>4 DEF LockEnds, Users
    <2> QED
      BY <1>0, <1>1, <2>1
  <1>5. CASE \E c \in Calls : UserWrite(c)
    <2>1. PICK c \in Calls : UserWrite(c)
      BY <1>5
    <2>2. Cleared.status = "ACTIVE" /\ Cleared.fails = 0
      BY DEF Cleared
    <2> QED
      BY <1>0, <1>1, <1>2, <2>1, <2>2, UserEffect
  <1> QED
    BY <1>3, <1>4, <1>5, UserChange

(***************************************************************************)
(* What every behaviour keeps                                              *)
(***************************************************************************)

Core == TypeOK /\ WidthInv /\ ItemsInv /\ LineageInv

LEMMA CoreKept == Spec => []Core
  <1>1. Init => Core
    BY TypeInit DEF Core
  <1>2. Core /\ [Next]_vars => Core'
    BY TypeStep, WidthStep, ItemsStep, LineageStep DEF Core
  <1> QED
    BY <1>1, <1>2, PTL DEF Spec

\* Every document and every handler keeps its type (auth.schema.ts).
THEOREM TypeCorrect == Spec => []TypeOK
  <1>1. Core => TypeOK
    BY DEF Core
  <1> QED
    BY <1>1, CoreKept, PTL

\* No session is live beside its replacement, with any number of handlers; one
\* handler at a time leaves one live session to a device, none after a sign-out,
\* and none from before a reset that was answered.
THEOREM SessionsStayInOrder == Spec => []SessionsInOrder
  <1>1. Init => DevicesInv /\ ResetInv
    BY DEF Init, DevicesInv, ResetInv, OneSessionPerDevice, SignedOutStaysOut, Live,
           SignedOut, Idle
  <1>2. Core /\ DevicesInv /\ ResetInv /\ [Next]_vars => DevicesInv' /\ ResetInv'
    BY DevicesStep, ResetStep DEF Core
  <1>3. Core /\ DevicesInv /\ ResetInv => SessionsInOrder
    <2> SUFFICES ASSUME Core, DevicesInv, ResetInv PROVE SessionsInOrder
      OBVIOUS
    <2>1. RetiredBeforeReplaced
      BY DEF Core, LineageInv, RetiredBeforeReplaced, Live
    <2>2. OneSessionPerDevice /\ SignedOutStaysOut
      BY DEF DevicesInv, OneSessionPerDevice, SignedOutStaysOut
    <2>3. ResetEndsSessions
      BY DEF ResetInv, ResetEndsSessions, Quiet
    <2> QED
      BY <2>1, <2>2, <2>3 DEF SessionsInOrder
  <1> QED
    BY <1>1, <1>2, <1>3, CoreKept, PTL DEF Spec

\* A code is tried a bounded number of times; one handler at a time leaves only
\* the latest code in use, and lets a code set one password.
THEOREM CodesStayInOrder == Spec => []CodesInOrder
  <1>1. Init => TriesInv /\ LatestInv /\ ServedInv
    BY DEF Init, TriesInv, LatestInv, ServedInv, UsableOtps, UsableLinks, Idle
  <1>2. Core /\ TriesInv /\ LatestInv /\ ServedInv /\ [Next]_vars
            => TriesInv' /\ LatestInv' /\ ServedInv'
    BY TriesStep, LatestStep, ServedStep DEF Core
  <1>3. Core /\ TriesInv /\ LatestInv /\ ServedInv => CodesInOrder
    <2> SUFFICES ASSUME Core, TriesInv, LatestInv, ServedInv PROVE CodesInOrder
      OBVIOUS
    <2>1. TypeOK /\ WidthInv
      BY DEF Core
    <2>2. TriesBounded
      <3> SUFFICES ASSUME NEW i \in DOMAIN otps
                   PROVE  otps[i].tries <= MaxTries + regime.width - 1
        BY DEF TriesBounded
      <3>1. Missing(i) \in SUBSET Busy
        BY DEF Missing, Busy
      <3>2. Cardinality(Missing(i)) \in Nat
        BY <2>1, <3>1, PartBound, RegimeType DEF WidthInv
      <3>3. otps[i].tries \in Nat /\ MaxTries \in Nat /\ regime.width \in Nat
        BY <2>1, OtpTypes, RegimeType
      <3> QED
        BY <3>2, <3>3 DEF TriesInv
    <2>3. LatestCodeOnly
      <3>1. ASSUME NEW S, \A i, j \in S : i = j PROVE Cardinality(S) <= 1
        <4>1. CASE S = {}
          BY <4>1, FS_EmptySet
        <4>2. CASE S # {}
          <5>1. PICK x \in S : S = {x}
            BY <3>1, <4>2
          <5> QED
            BY <5>1, FS_Singleton
        <4> QED
          BY <4>1, <4>2
      <3> QED
        BY <3>1 DEF LatestInv, LatestCodeOnly
    <2>4. CodeServesOnce
      BY DEF ServedInv, CodeServesOnce
    <2> QED
      BY <2>2, <2>3, <2>4 DEF CodesInOrder
  <1> QED
    BY <1>1, <1>2, <1>3, CoreKept, PTL DEF Spec

LEMMA ReadKept == Spec => []ReadInv
  <1>1. Init => ReadInv
    BY DEF Init, ReadInv, Idle
  <1>2. Core /\ ReadInv /\ [Next]_vars => ReadInv'
    BY ReadStep DEF Core
  <1> QED
    BY <1>1, <1>2, CoreKept, PTL DEF Spec

\* One handler at a time counts every wrong password, locks the account at the
\* limit, and gives the lock an end.
THEOREM LocksStayInOrder == Spec => []LocksInOrder
  <1>1. Init => LocksInOrder
    BY SignInAssumption
       DEF Init, LocksInOrder, EveryFailureCounts, LockHasEnd, Cleared
  <1>2. TypeOK /\ ReadInv /\ LocksInOrder /\ [Next]_vars => LocksInOrder'
    BY LocksStep
  <1> QED
    BY <1>1, <1>2, TypeCorrect, ReadKept, PTL DEF Spec

\* One handler at a time never makes a suspended account active by a sign-in or
\* a refresh: only by hand, or by a reset.
THEOREM SuspensionStands == Spec => SuspensionHolds
  <1>1. TypeOK /\ ReadInv /\ [Next]_vars
          => [OneAtATime /\ user.status = "SUSPENDED" =>
                \/ user'.status = "SUSPENDED"
                \/ \E c \in Calls : call[c].at \in {"status", "setotp", "setlink"}]_user
    <2> SUFFICES ASSUME TypeOK, ReadInv, [Next]_vars, OneAtATime, user.status = "SUSPENDED",
                        ~ \E c \in Calls : call[c].at \in {"status", "setotp", "setlink"}
                 PROVE  user'.status = "SUSPENDED"
      OBVIOUS
    <2>1. CASE UNCHANGED <<user, misses>>
      BY <2>1
    <2>2. CASE LockEnds
      BY <2>2, RegimeType DEF LockEnds, Users
    <2>3. CASE \E c \in Calls : UserWrite(c)
      BY <2>3, UserEffect
    <2> QED
      BY <2>1, <2>2, <2>3, UserChange
  <1> QED
    BY <1>1, TypeCorrect, ReadKept, PTL DEF Spec, SuspensionHolds
=============================================================================
