------------------------------ MODULE MCOracle ------------------------------
(***************************************************************************)
(* Instances for TLC of the two halves of the oracle engine, one after the *)
(* other: queries on two nodes that sign for three of four computors, the  *)
(* fourth committing to anything; and the schedule of the subscriptions of *)
(* two contracts, which all nodes compute alike.                           *)
(***************************************************************************)
EXTENDS OracleEngine, TLC

CONSTANTS
  c1, c2, c3, c4, n1, n2, a, b,
  Contracts, Queries, Periods, Minute, MaxSubscriptions, MaxSubscribers,
  Capacity, Steps, LastTime

VARIABLES
  part, \* the half that moves
  now, stage, subscriptions, subscribers, queue, queries, notification, current,
  informed, failed

subsVars == <<now, stage, subscriptions, subscribers, queue, queries, notification,
              current, informed, failed>>

Subs == INSTANCE OracleSubscriptions

OwnThree == (n1 :> {c1, c2}) @@ (n2 :> {c3})
Disputed == (n1 :> {a}) @@ (n2 :> {a, b})

\* One query is explored in every interleaving.  Others may be started until it
\* is answered; from then on replies arrive at the end of a tick, commits are
\* executed in the order of their computors, no transaction is lost, and no
\* faulty commit is sent.
Rank == (c1 :> 1) @@ (c2 :> 2) @@ (c3 :> 3) @@ (c4 :> 4)
Several(e) == Len(e.queries) >= 2
Started(n) == Len(eng'[n].queries) > Len(eng[n].queries) /\ Several(eng'[n])
Calm ==
  \A n \in Nodes :
    /\ Started(n) => /\ \A s \in 1..Slots : eng[n].slots[s].own = None
                     /\ cast = {}
    /\ Several(eng[n]) =>
         /\ /\ eng'[n].pendingCommit # eng[n].pendingCommit
            /\ cast' = cast /\ phase' = phase
            => phase = "notify" /\ eng[n].notification = {}
         /\ phase' = "notify" => \A tx \in sent : tx.tick > tick
         /\ \A y \in cast' \ cast :
              /\ y.c \notin Faulty
              /\ \A z \in cast : z.tick = tick => Rank[z.c] <= Rank[y.c]

----------------------------------------------------------------------------
MCInit == part \in {"engine", "subscriptions"} /\ Init /\ Subs!Init

MCNext ==
  \/ part = "engine" /\ Next /\ UNCHANGED <<subsVars, part>>
  \/ part = "subscriptions" /\ Subs!Next /\ UNCHANGED <<vars, part>>

MCSpec == MCInit /\ [][MCNext]_<<vars, subsVars, part>>

\* What follows a query that could not be started is left to the reader of
\* generateSubscriptionQueries: the next round finds nobody who is due.
Healthy == failed = {}


\* The queries of a subscriber are whole periods apart; generateSubscriptionQueries
\* leaves nobody overdue, and nobody more than a period away from the next query.
RhythmKept == Subs!RhythmKept

=============================================================================
