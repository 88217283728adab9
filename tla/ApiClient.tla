----------------------------- MODULE ApiClient -----------------------------
(***************************************************************************)
(* How the browser keeps a session (apiClient): a request that is refused  *)
(* for its access token waits for a refresh, which others refused in the   *)
(* same tab share, and is sent once more.  Tabs share the stored token and *)
(* the cookie.                                                             *)
(*                                                                         *)
(* Tokens are numbered as they are issued.  The server is external here:   *)
(* it answers by the token's age, and a refresh replaces the one before it.*)
(***************************************************************************)
EXTENDS Naturals, FiniteSets

CONSTANTS Tabs, Requests

VARIABLES requests,   \* of each: its tab, where it is, the token it carries
          refresh,    \* of each tab: the refresh its requests wait for
          stored,     \* the access token in local storage, 0 for none
          cookie,     \* the refresh token in the cookie jar
          server,     \* the refresh token the session is at, the tokens that expired
          call, aborts, regime

vars == <<requests, refresh, stored, cookie, server, call, aborts, regime>>

Where == {"idle", "sent", "refused", "answered", "waiting", "failed", "done"}

TypeOK ==
    /\ requests \in [Requests -> [tab: Tabs, at: Where, token: Nat, retried: BOOLEAN,
                                  sends: Nat]]
    /\ refresh \in [Tabs -> [at: {"none", "sent", "refused", "lost", "issued"}, cookie: Nat,
                             token: Nat]]
    /\ stored \in Nat /\ cookie \in Nat
    /\ server \in [current: Nat, expired: Nat, expiries: Nat, lost: Nat]

NoRefresh == [at |-> "none", cookie |-> 0, token |-> 0]
Put(r, at) == requests' = [requests EXCEPT ![r].at = at]
Same == UNCHANGED <<call, aborts, regime>>

-----------------------------------------------------------------------------
(* Requests and their answers *)

Send(r, tab) ==
    /\ requests[r].at = "idle" /\ tab \in regime.tabs
    /\ requests' = [requests EXCEPT ![r] = [tab |-> tab, at |-> "sent", token |-> stored,
                                            retried |-> FALSE, sends |-> 1]]
    /\ UNCHANGED <<refresh, stored, cookie, server>> /\ Same

\* The server, external: a token that expired, or none, is refused.
Serve(r) ==
    /\ requests[r].at = "sent"
    /\ Put(r, IF requests[r].token > server.expired THEN "answered" ELSE "refused")
    /\ UNCHANGED <<refresh, stored, cookie, server>> /\ Same

Answer(r) ==
    /\ requests[r].at = "answered"
    /\ Put(r, "done")
    /\ UNCHANGED <<refresh, stored, cookie, server>> /\ Same

\* Whoever is signed out leaves the page: what its tab had under way is dropped.
SignOut(tab) ==
    /\ stored' = 0
    /\ refresh' = [refresh EXCEPT ![tab] = NoRefresh]
    /\ requests' = [r \in Requests |->
                       IF requests[r].tab = tab /\ requests[r].at # "idle"
                       THEN [requests[r] EXCEPT !.at = "failed"] ELSE requests[r]]

\* Faulty variant: each refusal starts a refresh.
SharedAfresh(tab) == [at |-> "sent", cookie |-> cookie, token |-> 0]

\* The refresh of the tab, started if there is none.
Shared(tab) ==
    IF refresh[tab].at # "none" THEN refresh[tab]
    ELSE [at |-> "sent", cookie |-> cookie, token |-> 0]

\* Faulty variant: that the request was refused before is not remembered.
RefusedForgets(r) ==
    LET tab == requests[r].tab
    IN  /\ requests[r].at = "refused" /\ requests[r].sends < 4
        /\ Put(r, "waiting")
        /\ refresh' = [refresh EXCEPT ![tab] = Shared(tab)]
        /\ UNCHANGED <<stored, cookie, server>> /\ Same

\* A first refusal waits for the tab's refresh.
Refused(r) ==
    LET tab == requests[r].tab
    IN  /\ requests[r].at = "refused" /\ ~requests[r].retried
        /\ requests' = [requests EXCEPT ![r].at = "waiting", ![r].retried = TRUE]
        /\ refresh' = [refresh EXCEPT ![tab] = Shared(tab)]
        /\ UNCHANGED <<stored, cookie, server>> /\ Same

\* A second one ends the session in this browser.
RefusedAgain(r) ==
    /\ requests[r].at = "refused" /\ requests[r].retried
    /\ SignOut(requests[r].tab)
    /\ UNCHANGED <<cookie, server>> /\ Same

-----------------------------------------------------------------------------
(* Refreshing *)

\* The server, external: the token the session is at is replaced, any other refused.
ServeRefresh(tab) ==
    /\ refresh[tab].at = "sent"
    /\ IF refresh[tab].cookie = server.current
       THEN /\ server' = [server EXCEPT !.current = @ + 1]
            /\ refresh' = [refresh EXCEPT ![tab].at = "issued",
                                          ![tab].token = server.current + 1]
       ELSE /\ refresh' = [refresh EXCEPT ![tab].at = "refused"]
            /\ UNCHANGED server
    /\ UNCHANGED <<requests, stored, cookie>> /\ Same

\* The network, external: the answer to a refresh, or the question, is lost.
LoseRefresh(tab) ==
    /\ refresh[tab].at \in {"sent", "issued"} /\ server.lost < regime.lost
    /\ refresh' = [refresh EXCEPT ![tab].at = "lost"]
    /\ server' = [server EXCEPT !.lost = @ + 1]
    /\ UNCHANGED <<requests, stored, cookie>> /\ Same

Resent(r) == [requests[r] EXCEPT !.at = "sent", !.token = refresh[requests[r].tab].token,
                                 !.sends = @ + 1]

\* Faulty variant: asked without credentials, the browser keeps its cookie.
CredentialsOmitted(tab) == cookie

Credentials(tab) == refresh[tab].token

\* The cookie comes with the answer; the token is stored, and all that waited
\* are sent again with it.
RefreshDone(tab) ==
    /\ refresh[tab].at = "issued"
    /\ cookie' = Credentials(tab) /\ stored' = refresh[tab].token
    /\ requests' = [r \in Requests |->
                       IF requests[r].at = "waiting" /\ requests[r].tab = tab
                       THEN Resent(r) ELSE requests[r]]
    /\ refresh' = [refresh EXCEPT ![tab] = NoRefresh]
    /\ UNCHANGED server /\ Same

RefreshFailed(tab) ==
    /\ refresh[tab].at \in {"refused", "lost"}
    /\ SignOut(tab)
    /\ UNCHANGED <<cookie, server>> /\ Same

\* Every access token issued so far runs out.
Expire ==
    /\ server.expiries < regime.expiries
    /\ server' = [server EXCEPT !.expiries = @ + 1, !.expired = server.current]
    /\ UNCHANGED <<requests, refresh, stored, cookie>> /\ Same

Init ==
    /\ requests = [r \in Requests |-> [tab |-> CHOOSE t \in Tabs : TRUE, at |-> "idle",
                                       token |-> 0, retried |-> FALSE, sends |-> 0]]
    /\ refresh = [t \in Tabs |-> NoRefresh]
    /\ stored = 1 /\ cookie = 1
    /\ server = [current |-> 1, expired |-> 0, expiries |-> 0, lost |-> 0]
    /\ call = 0 /\ aborts = 0

Next ==
    \/ \E r \in Requests :
          \/ \E tab \in Tabs : Send(r, tab)
          \/ Serve(r) \/ Answer(r) \/ Refused(r) \/ RefusedAgain(r)
    \/ \E tab \in Tabs :
          ServeRefresh(tab) \/ LoseRefresh(tab) \/ RefreshDone(tab) \/ RefreshFailed(tab)
    \/ Expire

-----------------------------------------------------------------------------
OneTab == Cardinality(regime.tabs) = 1

\* In one tab, and unless access tokens run out twice or an answer is lost, nobody
\* is signed out of a session that is alive, however many requests are refused at
\* once and whenever their answers arrive (refreshPromise).
StaysSignedIn ==
    OneTab /\ server.expiries <= 1 /\ server.lost = 0 => stored # 0

\* No request is sent more than twice, in any number of tabs (_retried).
SentTwiceAtMost ==
    \A r \in Requests : requests[r].sends <= 2

\* While no answer is lost and access tokens run out once, the cookie is the one
\* the session is at whenever no refresh is under way, in any number of tabs: a
\* browser that lost its access token to another tab's refresh can still have a
\* new one (requestRefreshedToken).
CookieKeepsUp ==
    server.lost = 0 /\ server.expiries <= 1 /\ (\A tab \in Tabs : refresh[tab].at = "none") =>
        cookie = server.current
=============================================================================
