--------------------------- MODULE FollowCounters ---------------------------
(***************************************************************************)
(* Who follows whom in the Atrium, and the two counts each profile keeps   *)
(* of it (AtriumFollowService).                                            *)
(*                                                                         *)
(* An edge is written first and the counts after it, side by side; the     *)
(* repair reads edges and counts side by side and writes what differs.     *)
(***************************************************************************)
EXTENDS Integers, FiniteSets

CONSTANTS Calls,  \* slots for handlers that run at the same time
          Users   \* employees with an active profile

VARIABLES edges,   \* pairs of a follower and the one followed
          counts,  \* of a profile, by Kinds
          call, aborts, regime

vars == <<edges, counts, call, aborts, regime>>

Kinds == {"followers", "following"}

TypeOK ==
    /\ edges \subseteq Users \X Users
    /\ counts \in [Users -> [Kinds -> Int]]
    /\ \A c \in Calls : call[c].at \in {"idle", "inc", "dec", "read", "fix"}

Edges(kind, u) ==
    {e \in edges : (kind = "followers" /\ e[2] = u) \/ (kind = "following" /\ e[1] = u)}
TrueCounts == [u \in Users |-> [kind \in Kinds |-> Cardinality(Edges(kind, u))]]

-----------------------------------------------------------------------------
Idle == [at |-> "idle"]
Quiet == \A c \in Calls : call[c].at = "idle"

May(c, handler) ==
    /\ handler \in regime.handlers
    /\ call[c].at = "idle"
    /\ Cardinality({d \in Calls : call[d].at # "idle"}) < regime.width

Goto(c, k) == call' = [call EXCEPT ![c] = k]

\* The profile an edge counts in, of each kind.
Counted(edge, kind) == IF kind = "followers" THEN edge[2] ELSE edge[1]

\* Bounds: overlap can leave a count too high any number of times.
Countable(u, v) ==
    /\ Cardinality(edges) < regime.edges
    /\ counts[v]["followers"] < regime.most
    /\ counts[u]["following"] < regime.most

\* Faulty variant: following again counts again.
FollowAgain(c) ==
    /\ May(c, "follow")
    /\ \E u, v \in Users :
          /\ u # v /\ Countable(u, v)
          /\ edges' = edges \cup {<<u, v>>}
          /\ Goto(c, [at |-> "inc", edge |-> <<u, v>>, todo |-> Kinds])
    /\ UNCHANGED <<counts, aborts, regime>>

\* An edge that is there is refused by its unique key, and nothing is counted.
Follow(c) ==
    /\ May(c, "follow")
    /\ \E u, v \in Users :
          /\ u # v /\ <<u, v>> \notin edges /\ Countable(u, v)
          /\ edges' = edges \cup {<<u, v>>}
          /\ Goto(c, [at |-> "inc", edge |-> <<u, v>>, todo |-> Kinds])
    /\ UNCHANGED <<counts, aborts, regime>>

Done(c, kind) ==
    IF call[c].todo = {kind} THEN Goto(c, Idle)
    ELSE Goto(c, [call[c] EXCEPT !.todo = @ \ {kind}])

Increment(c) ==
    /\ call[c].at = "inc"
    /\ \E kind \in call[c].todo :
          /\ counts' = [counts EXCEPT ![Counted(call[c].edge, kind)][kind] = @ + 1]
          /\ Done(c, kind)
    /\ UNCHANGED <<edges, aborts, regime>>

Unfollow(c) ==
    /\ May(c, "unfollow")
    /\ \E e \in edges :
          /\ edges' = edges \ {e}
          /\ Goto(c, [at |-> "dec", edge |-> e, todo |-> Kinds])
    /\ UNCHANGED <<counts, aborts, regime>>

\* Faulty variant: a count that has drifted goes below zero.
DecrementAlways(c) ==
    /\ call[c].at = "dec"
    /\ \E kind \in call[c].todo :
          /\ counts' = [counts EXCEPT ![Counted(call[c].edge, kind)][kind] = @ - 1]
          /\ Done(c, kind)
    /\ UNCHANGED <<edges, aborts, regime>>

\* A count that is zero stays there.
Decrement(c) ==
    /\ call[c].at = "dec"
    /\ \E kind \in call[c].todo :
          /\ counts' = [counts EXCEPT ![Counted(call[c].edge, kind)][kind] =
                           IF @ > 0 THEN @ - 1 ELSE @]
          /\ Done(c, kind)
    /\ UNCHANGED <<edges, aborts, regime>>

-----------------------------------------------------------------------------
(* The repair *)

ReconcileBegin(c) ==
    /\ May(c, "reconcile")
    /\ Goto(c, [at |-> "read", todo |-> {"followers", "following", "profiles"},
                actual |-> [kind \in Kinds |-> [u \in Users |-> 0]],
                seen |-> [u \in Users |-> [kind \in Kinds |-> 0]]])
    /\ UNCHANGED <<edges, counts, aborts, regime>>

\* Edges by follower, edges by followed, and the counts, in any order.
ReconcileRead(c) ==
    /\ call[c].at = "read" /\ call[c].todo # {}
    /\ \E part \in call[c].todo :
          Goto(c, [call[c] EXCEPT
              !.todo = @ \ {part},
              !.actual = IF part = "profiles" THEN @
                         ELSE [@ EXCEPT ![part] = [u \in Users |-> TrueCounts[u][part]]],
              !.seen = IF part = "profiles" THEN counts ELSE @])
    /\ UNCHANGED <<edges, counts, aborts, regime>>

\* Faulty variant: a profile is repaired when its followers differ.
FixesForFollowers(k) == {u \in Users : k.seen[u]["followers"] # k.actual["followers"][u]}

Fixes(k) == {u \in Users : \E kind \in Kinds : k.seen[u][kind] # k.actual[kind][u]}

ReconcileCompare(c) ==
    /\ call[c].at = "read" /\ call[c].todo = {}
    /\ Goto(c, IF Fixes(call[c]) = {} THEN Idle
               ELSE [call[c] EXCEPT !.at = "fix", !.todo = Fixes(call[c])])
    /\ UNCHANGED <<edges, counts, aborts, regime>>

ReconcileFix(c) ==
    /\ call[c].at = "fix"
    /\ \E u \in call[c].todo :
          /\ counts' = [counts EXCEPT ![u] = [kind \in Kinds |-> call[c].actual[kind][u]]]
          /\ Done(c, u)
    /\ UNCHANGED <<edges, aborts, regime>>

\* The server stops, and the handler with it.
Stop(c) ==
    /\ call[c].at # "idle" /\ aborts < regime.aborts
    /\ aborts' = aborts + 1
    /\ Goto(c, Idle)
    /\ UNCHANGED <<edges, counts, regime>>

Init ==
    /\ edges = {}
    /\ counts = [u \in Users |-> [kind \in Kinds |-> 0]]
    /\ call = [c \in Calls |-> Idle]
    /\ aborts = 0

Next ==
    \E c \in Calls :
        \/ Follow(c) \/ Increment(c) \/ Unfollow(c) \/ Decrement(c)
        \/ ReconcileBegin(c) \/ ReconcileRead(c) \/ ReconcileCompare(c) \/ ReconcileFix(c)
        \/ Stop(c)

-----------------------------------------------------------------------------
\* No profile shows a negative count, whatever overlaps or stops half way
\* (unfollow, whose guard is there for counts that have drifted).
CountsNeverNegative ==
    \A u \in Users, kind \in Kinds : counts[u][kind] >= 0

\* Unless a handler was stopped, or a repair ran among others, every count is at
\* least the number of edges once all is quiet: overlap can only leave it too high.
\* One request at a time, it is exact (follow, unfollow).
CountsCoverEdges ==
    aborts = 0 /\ Quiet /\ (regime.width = 1 \/ "reconcile" \notin regime.handlers) =>
        \A u \in Users, kind \in Kinds :
            /\ counts[u][kind] >= TrueCounts[u][kind]
            /\ regime.width = 1 => counts[u][kind] = TrueCounts[u][kind]

\* A repair that runs alone and to its end leaves every count exact, whatever
\* a stopped handler had left (reconcileCounters).
RepairStep ==
    \A c \in Calls :
        /\ regime.width = 1 /\ aborts' = aborts
        /\ call[c].at \in {"read", "fix"} /\ call'[c].at = "idle"
        => counts' = TrueCounts'
RepairIsExact == [][RepairStep]_vars
=============================================================================
