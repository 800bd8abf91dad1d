----------------------------- MODULE MCTicking -----------------------------
(***************************************************************************)
(* Instances of Ticking for TLC.  Spec itself is explored for one node     *)
(* (the race between its threads).  For several nodes MCNext explores      *)
(* coarser schedules, each a behaviour of Spec: a loop iteration that has  *)
(* begun is finished first, a handler stores at once what it received, the *)
(* votes of one broadcast arrive together, and faulty votes are sent early.*)
(***************************************************************************)
EXTENDS Ticking, TLC

CONSTANTS c1, c2, c3, c4, n1, n2, d1, d2

Fresh == [t \in Ticks |-> NotDone]

\* Who runs which computor.
OwnOne == n1 :> {c1}
OwnOneFollowed == (n1 :> {c1}) @@ (n2 :> {})
OwnTwo == (n1 :> {c1, c2}) @@ (n2 :> {c3, c4})
OwnThreeOfFour == (n1 :> {c1, c2}) @@ (n2 :> {c3})
OwnFollowed == (n1 :> {c1, c2, c3}) @@ (n2 :> {})

AlwaysC1 == [t \in Ticks |-> c1]
AlwaysC4 == [t \in Ticks |-> c4]

\* The TickData of tick 2, published when the nodes were at tick 0, and one
\* whose leader was not in the common state then.
Valid2 == [tick |-> 2, v |-> d1, lock |-> Fresh]
Stale2 == [tick |-> 2, v |-> d2, lock |-> [Fresh EXCEPT ![1] = d2]]
OneSeed == {Valid2}
TwoSeeds == {Valid2, Stale2}

\* Votes of a computor that expects no TickData and then signs the outcome
\* with it, and of one whose node executed something else than the others.
Second(x) == [c |-> c4, tick |-> 2,
              state |-> [Fresh EXCEPT ![1] = Empty, ![2] = x],
              td |-> IF x = d1 THEN Valid2 ELSE Empty, exp |-> Empty]
Doubting == {[c |-> c4, tick |-> 1, state |-> [Fresh EXCEPT ![1] = Empty],
              td |-> Empty, exp |-> Empty], Second(d1)}
Misled == {[c |-> c4, tick |-> t,
            state |-> [u \in Ticks |-> IF u < t THEN d2
                                       ELSE IF u = t THEN Empty ELSE NotDone],
            td |-> Empty, exp |-> Empty] : t \in 1..2}

----------------------------------------------------------------------------
\* A vote of a broadcast of which n has stored other votes already.
Partial(n, v) ==
  /\ v.tick >= tick[n]
  /\ \A w \in ticks[n] : w.c # v.c \/ w.tick # v.tick
  /\ \E w \in ticks[n] : /\ w.tick = v.tick /\ w.exp = v.exp
                         /\ \E m \in Nodes : {v.c, w.c} \subseteq Own[m]

Busy(n) ==
  \/ pc[n] \in {"vote", "count"}
  \/ tick[n] < LastTick /\ tick[n] > latestProcessedTick[n]
  \/ handling[n] # {}
  \/ \E v \in sentVotes : Partial(n, v)

Finish(n) ==
  \/ tickProcessor(n) /\ (pc[n] # "loop" \/ tick[n] > latestProcessedTick[n])
  \/ \E d \in handling[n] : storeTickData(n, d)
  \/ \E v \in sentVotes : Partial(n, v) /\ processBroadcastTick(n, v)

MCNext ==
  IF \E v \in FaultyVotes : v \notin sentVotes
  THEN faultyVote(CHOOSE v \in FaultyVotes : v \notin sentVotes)
  ELSE IF \E n \in Nodes : Busy(n)
  THEN Finish(CHOOSE n \in Nodes : Busy(n))
  ELSE Next

MCSpec == Init /\ [][MCNext]_vars

\* The same with transactions that are known as soon as they are published.
Lacks(n) == {d \in sentTickData : d \notin transactions[n]}
MCPromptNext ==
  IF \E n \in Nodes : Lacks(n) # {}
  THEN LET n == CHOOSE n \in Nodes : Lacks(n) # {}
       IN receiveTransactions(n, CHOOSE d \in Lacks(n) : TRUE)
  ELSE MCNext
MCPromptSpec == Init /\ [][MCPromptNext]_vars

\* Spec with stronger priorities, as an action constraint: TLC then follows
\* every action of Next by name.  Published TickData arrive at once too.
Undelivered(n) ==
  {d \in sentTickData : d.tick > tick[n] /\ tickData[n][d.tick] = NoData}

Prompt ==
  LET lacking == {n \in Nodes : Lacks(n) # {}}
      storing == {n \in Nodes : handling[n] # {}}
      busy == {n \in Nodes : Busy(n)}
      waiting == {n \in Nodes : Undelivered(n) # {}}
      First(S) == CHOOSE n \in S : TRUE
  IN CASE lacking # {} ->
            ~(transactions'[First(lacking)] \subseteq transactions[First(lacking)])
       [] lacking = {} /\ storing # {} ->
            handling'[First(storing)] \subseteq handling[First(storing)]
              /\ handling' # handling
       [] lacking = {} /\ storing = {} /\ busy # {} ->
            pc'[First(busy)] # pc[First(busy)] \/ ticks' # ticks
       [] lacking = {} /\ storing = {} /\ busy = {} /\ waiting # {} ->
            handling'[First(waiting)] # handling[First(waiting)]
       [] OTHER -> TRUE

MCFairSpec == MCSpec /\ Fairness
=============================================================================
