---------------------------- MODULE OracleEngine ----------------------------
(***************************************************************************)
(* Oracle queries (src/oracle_core/oracle_engine.h) on the nodes of the    *)
(* network.  All nodes execute the same transactions in the same order;    *)
(* what a node's own oracle machine replied, and when, differs.            *)
(*                                                                         *)
(* eng[n] is the OracleEngine of node n, and the operators from startQuery *)
(* to processTimeouts are its methods, from an engine to an engine.  A     *)
(* digest stands for the reply it is computed from, a knowledge proof for  *)
(* whether it is right, the time of a tick is its number, and the map from *)
(* query ids to indices (a QPI hash map) is the lookup IndexOf.            *)
(***************************************************************************)
EXTENDS Naturals, FiniteSets, Sequences, SequencesExt, FiniteSetsExt

CONSTANTS
  Nodes, Computors, Own,  \* Own[n]: the computors node n signs for
  Quorum,
  Faulty,                 \* computors whose commits are arbitrary
  Digests, None,          \* replies of oracle machines, and no reply
  Views,                  \* Views[n]: what n's oracle machines may reply
  Slots,                  \* MAX_SIMULTANEOUS_ORACLE_QUERIES
  MaxQueries,             \* MAX_ORACLE_QUERIES
  Timeouts,               \* timeouts of queries, in ticks
  CommitOffset, RevealOffset, \* ORACLE_REPLY_*_PUBLICATION_OFFSET
  EpochStarts,            \* first ticks of further epochs
  MaxStarts,              \* bound: contract queries started in one tick
  LastTick                \* bound: ticks explored

ASSUME QuorumAssumption == Quorum \in 1..Cardinality(Computors)

VARIABLES
  tick, phase,            \* of the tick processors
  eng,
  sent,                   \* commit and reveal transactions of coming ticks
  told,                   \* told[n]: <<id, status>> of the notifications
  cast                    \* history: the commits that were executed in time

vars == <<tick, phase, eng, sent, told, cast>>

N == Cardinality(Computors)

\* The id of no query; an id is <<tick, index in tick>>.  Index 0 is a user's
\* transaction, contracts get the indices from NUMBER_OF_TRANSACTIONS_PER_TICK.
NoQuery == <<0, 0>>
TransactionsPerTick == 1

\* A reply state that is not in use: memory set to zero.
FreeSlot ==
  [id |-> NoQuery, own |-> None,
   scheduled |-> [c \in Computors |-> 0], commits |-> [c \in Computors |-> None],
   hist |-> <<>>, most |-> 1, expected |-> 0]

reset ==
  [queries |-> <<>>, slots |-> [s \in 1..Slots |-> FreeSlot], next |-> 1,
   pending |-> <<>>, pendingCommit |-> <<>>, pendingReveal |-> <<>>,
   notification |-> {}, finished |-> {}, lastId |-> NoQuery,
   revenue |-> [c \in Computors |-> 0]]

Init ==
  /\ tick = 1 /\ phase = "transactions"
  /\ eng = [n \in Nodes |-> reset]
  /\ sent = {}
  /\ told = [n \in Nodes |-> <<>>]
  /\ cast = {}

----------------------------------------------------------------------------
\* UnsortedMultiset: the last value fills the gap of a removed one.
removeByValue(values, v) ==
  IF v \notin Range(values) THEN values
  ELSE LET i == CHOOSE i \in DOMAIN values : values[i] = v
       IN Front([values EXCEPT ![i] = Last(values)])


\* MinHeap::insert, whose result is not looked at: a full queue drops.
insert(queue, i) == IF Cardinality(queue) < Slots THEN queue \cup {i} ELSE queue

IndexOf(e, id) ==
  IF \E i \in DOMAIN e.queries : e.queries[i].id = id
  THEN CHOOSE i \in DOMAIN e.queries : e.queries[i].id = id ELSE 0

\* Cyclic search from where the last search ended; 0 if all are in use.
getEmptyReplyStateSlot(e) ==
  LET At(k) == ((e.next + k - 1) % Slots) + 1
      free == {k \in 0..Slots - 1 : e.slots[At(k)].id = NoQuery}
  IN IF free = {} THEN 0 ELSE At(Min(free))

startQuery(e, id, type, timeout) ==
  LET s == getEmptyReplyStateSlot(e)
  IN IF Len(e.queries) >= MaxQueries \/ Len(e.pending) >= Slots \/ s = 0 THEN e
     ELSE [e EXCEPT
             !.next = s,
             !.pending = Append(@, Len(e.queries) + 1),
             !.slots[s] = [FreeSlot EXCEPT !.id = id],
             !.queries = Append(@, [id |-> id, type |-> type, status |-> "pending",
                                    tick |-> tick, timeout |-> timeout, slot |-> s,
                                    reply |-> None, fake |-> FALSE])]

getNewNonTxQueryId(e) ==
  IF e.lastId[1] < tick THEN <<tick, TransactionsPerTick>>
  ELSE <<tick, e.lastId[2] + 1>>

startUserQuery(e, delay) == startQuery(e, <<tick, 0>>, "user", tick + delay)

startContractQuery(e, delay) ==
  LET id == getNewNonTxQueryId(e)
  IN startQuery([e EXCEPT !.lastId = id], id, "contract", tick + delay)

----------------------------------------------------------------------------
\* The end of query i: it leaves the list of pending queries, its reply state
\* is freed, and its contract's notification is scheduled.
finish(e, i, status) ==
  LET q == e.queries[i]
  IN [e EXCEPT
        !.queries[i].status = status,
        !.pending = removeByValue(@, i),
        !.slots[q.slot] = FreeSlot,
        !.notification = IF q.type # "user" THEN insert(@, i) ELSE @,
        !.finished = IF q.type = "user" THEN insert(@, i) ELSE @]

processOracleMachineReply(e, id, digest) ==
  LET i == IndexOf(e, id)
      s == e.queries[i].slot
  IN IF \/ i = 0
        \/ e.queries[i].status # "pending"
        \/ e.slots[s].id # id
        \/ e.slots[s].own # None
     THEN e
     ELSE [e EXCEPT !.slots[s].own = digest, !.pendingCommit = Append(@, s)]

\* The commits that computor c still has to send: replies that are known, not
\* committed to by c in an executed transaction, and not on their way.
DueCommits(e, c) ==
  {s \in Range(e.pendingCommit) :
     /\ e.slots[s].id # NoQuery /\ e.slots[s].own # None
     /\ e.slots[s].commits[c] = None
     /\ e.slots[s].scheduled[c] < tick}

getReplyCommitTransaction(e, c) ==
  [kind |-> "commit", c |-> c, tick |-> tick + CommitOffset,
   items |-> {[id |-> e.slots[s].id, digest |-> e.slots[s].own, proof |-> TRUE] :
                s \in DueCommits(e, c)}]

\* The digest of a histogram bin is that of the computor who opened it.
BinDigest(state, h) == state.commits[state.hist[h].by].digest
MostCommits(state) ==
  IF state.hist = <<>> THEN 0 ELSE state.hist[state.most].count
TotalCommits(state) == Cardinality({c \in Computors : state.commits[c] # None})
QuorumDigest(state) == BinDigest(state, state.most)

\* Mutation of AddCommit: the bin is compared before it has grown.
AddCommit_BeforeCount(state, c, item) ==
  LET saved == [state EXCEPT !.commits[c] = [digest |-> item.digest,
                                             proof |-> item.proof, tick |-> tick]]
      found == {h \in DOMAIN state.hist : BinDigest(saved, h) = item.digest}
      h == IF found = {} THEN Len(state.hist) + 1 ELSE Min(found)
      hist == IF found = {} THEN Append(state.hist, [by |-> c, count |-> 1])
              ELSE [state.hist EXCEPT ![h].count = @ + 1]
  IN [saved EXCEPT !.hist = hist,
                   !.most = IF hist[h].count - 1 > hist[@].count THEN h ELSE @]

\* The commit of one computor enters the histogram of the digests.
AddCommit(state, c, item) ==
  LET saved == [state EXCEPT !.commits[c] = [digest |-> item.digest,
                                             proof |-> item.proof, tick |-> tick]]
      found == {h \in DOMAIN state.hist : BinDigest(saved, h) = item.digest}
      h == IF found = {} THEN Len(state.hist) + 1 ELSE Min(found)
      hist == IF found = {} THEN Append(state.hist, [by |-> c, count |-> 1])
              ELSE [state.hist EXCEPT ![h].count = @ + 1]
  IN [saved EXCEPT !.hist = hist,
                   !.most = IF hist[h].count > hist[@].count THEN h ELSE @]

\* No digest can gather a quorum any more.
Hopeless(state) == TotalCommits(state) - MostCommits(state) > N - Quorum

commitItem(e, c, item) ==
  LET i == IndexOf(e, item.id)
      q == e.queries[i]
      counted == AddCommit(e.slots[q.slot], c, item)
      stored == [e EXCEPT !.slots[q.slot] = counted]
  IN IF \/ i = 0
        \/ q.status \notin {"pending", "committed"}
        \/ e.slots[q.slot].id # item.id
        \/ e.slots[q.slot].commits[c] # None
     THEN e
     ELSE IF MostCommits(counted) >= Quorum
     THEN IF q.status = "committed" THEN stored
          ELSE [stored EXCEPT !.queries[i].status = "committed",
                              !.pendingCommit = removeByValue(@, q.slot),
                              !.pendingReveal = Append(@, q.slot)]
     ELSE IF Hopeless(counted)
     THEN [finish(stored, i, "unresolvable") EXCEPT
             !.pendingCommit = removeByValue(@, q.slot)]
     ELSE stored

processOracleReplyCommitTransaction(e, tx) ==
  FoldSet(LAMBDA item, f : commitItem(f, tx.c, item), e, tx.items)

----------------------------------------------------------------------------
\* The replies whose reveal is due: this node knows the reply of the quorum and
\* has neither scheduled nor seen a transaction that reveals it.
DueReveals(e) ==
  {s \in Range(e.pendingReveal) :
     /\ e.slots[s].id # NoQuery /\ e.slots[s].own # None
     /\ MostCommits(e.slots[s]) >= Quorum
     /\ e.slots[s].expected < tick
     /\ QuorumDigest(e.slots[s]) = e.slots[s].own}

RevealTransaction(e, c, s) ==
  [kind |-> "reveal", c |-> c, tick |-> tick + RevealOffset,
   id |-> e.slots[s].id, digest |-> e.slots[s].own]

\* Mutation of checkReplyRevealTransaction: compared with the node's own reply.
checkReplyRevealTransaction_Own(e, tx) ==
  LET i == IndexOf(e, tx.id)
  IN /\ i # 0
     /\ e.queries[i].status = "committed"
     /\ e.slots[e.queries[i].slot].id = tx.id
     /\ tx.digest = e.slots[e.queries[i].slot].own

checkReplyRevealTransaction(e, tx) ==
  LET i == IndexOf(e, tx.id)
  IN /\ i # 0
     /\ e.queries[i].status = "committed"
     /\ e.slots[e.queries[i].slot].id = tx.id
     /\ tx.digest = QuorumDigest(e.slots[e.queries[i].slot])

announceExpectedRevealTransaction(e, tx) ==
  LET s == e.queries[IndexOf(e, tx.id)].slot
  IN IF checkReplyRevealTransaction(e, tx)
     THEN [e EXCEPT !.slots[s].expected = IF @ = 0 \/ @ > tx.tick THEN tx.tick ELSE @]
     ELSE e

\* Those who committed to the revealed reply and knew it.
CorrectCommits(state) ==
  {c \in Computors : /\ state.commits[c] # None
                     /\ state.commits[c].digest = QuorumDigest(state)
                     /\ state.commits[c].proof}

\* Mutation of Rewarded: exactly the first QUORUM.
Rewarded_NoTies(state) ==
  LET Before(a, b) == state.commits[a].tick < state.commits[b].tick
      sorted == SortSeq(SetToSeq(CorrectCommits(state)), Before)
  IN {sorted[i] : i \in 1..Min({Quorum, Len(sorted)})}

\* The loop over the correct commits sorted by tick: it ends at the first one
\* after QUORUM of them whose tick differs from the tick before it.
Rewarded(state) ==
  LET Before(a, b) == state.commits[a].tick < state.commits[b].tick
      sorted == SortSeq(SetToSeq(CorrectCommits(state)), Before)
      t(i) == state.commits[sorted[i]].tick
  IN {sorted[i] : i \in {k \in DOMAIN sorted :
                           \A j \in Quorum + 1..k : t(j) = t(j - 1)}}

processOracleReplyRevealTransaction(e, tx) ==
  LET i == IndexOf(e, tx.id)
      s == e.queries[i].slot
      state == e.slots[s]
      paid == [e EXCEPT !.revenue = [c \in Computors |->
                 e.revenue[c] + (IF c \in Rewarded(state) THEN 1 ELSE 0)]]
      status == IF Cardinality(CorrectCommits(state)) < Quorum
                THEN "unresolvable" ELSE "success"
  IN IF checkReplyRevealTransaction(e, tx)
     THEN [finish(paid, i, status) EXCEPT
             !.pendingReveal = removeByValue(@, s),
             !.queries[i].fake = status = "unresolvable",
             !.queries[i].reply = IF status = "success" THEN tx.digest ELSE None]
     ELSE e

\* The loop of processTimeouts runs over the array that removeByValue changes
\* under it: the last of the num values moves to the place of the removed one
\* and also stays where it was, behind the end of the shorter array.
Visited(e) ==
  LET step(a, i) ==
        IF e.queries[a.values[i]].timeout > tick THEN a
        ELSE LET p == CHOOSE p \in 1..a.num : a.values[p] = a.values[i]
             IN [a EXCEPT !.values[p] = a.values[a.num], !.num = @ - 1,
                          !.out = Append(@, a.values[i])]
  IN FoldLeft(step, [values |-> e.pending, num |-> Len(e.pending), out |-> <<>>],
              [i \in DOMAIN e.pending |-> i]).out

\* Mutation of processTimeouts: the reply state stays in the list of reveals.
processTimeouts_KeepsReveal(e) ==
  LET expire(f, i) ==
        [finish(f, i, "timeout") EXCEPT
           !.pendingCommit = removeByValue(@, f.queries[i].slot)]
  IN FoldLeft(expire, e, Visited(e))

processTimeouts(e) ==
  LET expire(f, i) ==
        [finish(f, i, "timeout") EXCEPT
           !.pendingCommit = removeByValue(@, f.queries[i].slot),
           !.pendingReveal = removeByValue(@, f.queries[i].slot)]
  IN FoldLeft(expire, e, Visited(e))

----------------------------------------------------------------------------
\* A transaction is executed on every node.
OnAllNodes(method(_)) == eng' = [n \in Nodes |-> method(eng[n])]

Open(id) ==
  \E n \in Nodes : \E i \in DOMAIN eng[n].queries :
    eng[n].queries[i].id = id /\ eng[n].queries[i].status \in {"pending", "committed"}

\* History of the first commit of a computor to a query that is not finished.
Record(tx) ==
  cast' = cast \cup {[id |-> item.id, c |-> tx.c, digest |-> item.digest,
                      proof |-> item.proof, tick |-> tick] :
                       item \in {x \in tx.items :
                                   /\ Open(x.id)
                                   /\ \A y \in cast : y.id # x.id \/ y.c # tx.c}}

userQuery ==
  /\ phase = "transactions"
  /\ \A n \in Nodes : IndexOf(eng[n], <<tick, 0>>) = 0
  /\ \E delay \in Timeouts : OnAllNodes(LAMBDA e : startUserQuery(e, delay))
  /\ UNCHANGED <<tick, phase, sent, told, cast>>

\* A procedure of a contract, run by a transaction, calls QUERY_ORACLE.
contractQuery ==
  /\ phase = "transactions"
  /\ \A n \in Nodes : getNewNonTxQueryId(eng[n])[2] < TransactionsPerTick + MaxStarts
  /\ \E delay \in Timeouts : OnAllNodes(LAMBDA e : startContractQuery(e, delay))
  /\ UNCHANGED <<tick, phase, sent, told, cast>>

executeCommit ==
  /\ phase = "transactions"
  /\ \E tx \in sent :
       /\ tx.kind = "commit" /\ tx.tick = tick
       /\ OnAllNodes(LAMBDA e : processOracleReplyCommitTransaction(e, tx))
       /\ Record(tx)
       /\ sent' = sent \ {tx}
  /\ UNCHANGED <<tick, phase, told>>

\* A computor that commits to something else, or to a reply it does not know.
faultyCommit ==
  /\ phase = "transactions"
  /\ \E c \in Faulty, n \in Nodes : \E i \in DOMAIN eng[n].queries :
       \E digest \in Digests, proof \in BOOLEAN :
         LET tx == [c |-> c, items |-> {[id |-> eng[n].queries[i].id,
                                         digest |-> digest, proof |-> proof]}]
         IN /\ OnAllNodes(LAMBDA e : processOracleReplyCommitTransaction(e, tx))
            /\ Record(tx)
  /\ UNCHANGED <<tick, phase, sent, told>>

executeReveal ==
  /\ phase = "transactions"
  /\ \E tx \in sent :
       /\ tx.kind = "reveal" /\ tx.tick = tick
       /\ OnAllNodes(LAMBDA e : processOracleReplyRevealTransaction(e, tx))
       /\ sent' = sent \ {tx}
  /\ UNCHANGED <<tick, phase, told, cast>>

\* Request processor of node n: a reply of an oracle machine, at any time.
machineReply(n) ==
  /\ \E i \in DOMAIN eng[n].queries, digest \in Views[n] :
       eng' = [eng EXCEPT ![n] =
                 processOracleMachineReply(@, eng[n].queries[i].id, digest)]
  /\ UNCHANGED <<tick, phase, sent, told, cast>>

\* Request processor of node n: a reveal transaction of a coming tick arrives.
announce(n) ==
  /\ \E tx \in sent : /\ tx.kind = "reveal"
                      /\ eng' = [eng EXCEPT ![n] =
                                   announceExpectedRevealTransaction(@, tx)]
  /\ UNCHANGED <<tick, phase, sent, told, cast>>

timeouts ==
  /\ phase = "transactions"
  /\ phase' = "notify"
  /\ OnAllNodes(processTimeouts)
  /\ UNCHANGED <<tick, sent, told, cast>>

\* getNotification and the contract's notification procedure, which may start
\* a query.
notify ==
  /\ phase = "notify"
  /\ \A n \in Nodes : eng[n].notification # {}
  /\ LET i(n) == Min(eng[n].notification)
         drop(e) == [e EXCEPT !.notification = @ \ {Min(e.notification)}]
     IN /\ told' = [n \in Nodes |-> Append(told[n], <<eng[n].queries[i(n)].id,
                                                      eng[n].queries[i(n)].status>>)]
        /\ \/ OnAllNodes(drop)
           \/ /\ \A n \in Nodes :
                   getNewNonTxQueryId(eng[n])[2] < TransactionsPerTick + MaxStarts
              /\ \E delay \in Timeouts :
                   OnAllNodes(LAMBDA e : startContractQuery(drop(e), delay))
  /\ UNCHANGED <<tick, phase, sent, cast>>

\* The transactions node n sends at the end of a tick, and the marks that it
\* sets so as not to send them again before their tick has passed.
Published(n) ==
  {tx \in {getReplyCommitTransaction(eng[n], c) : c \in Own[n]} : tx.items # {}}
    \cup {RevealTransaction(eng[n], CHOOSE c \in Own[n] : TRUE, s) :
            s \in DueReveals(eng[n])}

Marked(n) ==
  [eng[n] EXCEPT
     !.finished = {},
     !.slots = [s \in 1..Slots |->
        [eng[n].slots[s] EXCEPT
           !.scheduled = [c \in Computors |->
              IF c \in Own[n] /\ s \in DueCommits(eng[n], c)
              THEN tick + CommitOffset ELSE @[c]],
           !.expected = IF s \in DueReveals(eng[n]) THEN tick + RevealOffset ELSE @]]]

\* The rest of processTick: finished user queries are handed out, transactions
\* are published, and the next tick, maybe of a new epoch, begins.
publish ==
  /\ phase = "notify" /\ tick < LastTick
  /\ \A n \in Nodes : eng[n].notification = {}
  /\ sent' = {tx \in sent : tx.tick > tick} \cup UNION {Published(n) : n \in Nodes}
  /\ tick' = tick + 1
  /\ phase' = "transactions"
  /\ IF tick + 1 \in EpochStarts
     THEN /\ eng' = [n \in Nodes |-> reset]
          /\ told' = [n \in Nodes |-> <<>>]
          /\ cast' = {}
     ELSE /\ eng' = [n \in Nodes |-> Marked(n)]
          /\ UNCHANGED <<told, cast>>

Next ==
  \/ userQuery \/ contractQuery
  \/ executeCommit \/ faultyCommit \/ executeReveal
  \/ timeouts \/ notify \/ publish
  \/ \E n \in Nodes : machineReply(n) \/ announce(n)

Spec == Init /\ [][Next]_vars

----------------------------------------------------------------------------
\* Types of the engine's fields, and what is kept where.
Statuses == {"pending", "committed", "success", "timeout", "unresolvable"}
TypeOK ==
  /\ tick \in 1..LastTick /\ phase \in {"transactions", "notify"}
  /\ \A n \in Nodes :
       LET e == eng[n]
       IN /\ e.next \in 1..Slots /\ Len(e.queries) <= MaxQueries
          /\ e.notification \cup e.finished \subseteq DOMAIN e.queries
          /\ Range(e.pending) \subseteq DOMAIN e.queries
          /\ Range(e.pendingCommit) \cup Range(e.pendingReveal) \subseteq 1..Slots
          /\ \A i \in DOMAIN e.queries : /\ e.queries[i].status \in Statuses
                                         /\ e.queries[i].slot \in 1..Slots

\* What all nodes must agree on: everything but the reply of the own oracle
\* machine and what was scheduled because of it.
Consensus(e) ==
  [e EXCEPT !.pendingCommit = <<>>,
            !.slots = [s \in 1..Slots |->
               [e.slots[s] EXCEPT !.own = None, !.expected = 0,
                                  !.scheduled = [c \in Computors |-> 0]]]]

\* Nodes that execute the same transactions hold the same queries, commits,
\* revenue and notifications, whatever their oracle machines reply and
\* whenever: local state never leaks into what the state digests depend on.
NodesAgree ==
  \A m, n \in Nodes : Consensus(eng[m]) = Consensus(eng[n]) /\ told[m] = told[n]

CastFor(id) == {x \in cast : x.id = id}
CastDigest(id, digest) == {x \in CastFor(id) : x.digest = digest}

\* The status follows from the commits that were executed: COMMITTED if and
\* only if a quorum named one digest, UNRESOLVABLE (before a reveal) if and
\* only if no digest can reach a quorum with the computors that are left,
\* although the code only looks at one bin of an incremental histogram; and a
\* reply that a contract receives was committed to by a quorum of computors
\* that knew it when they committed.
DecisionExact ==
  \A n \in Nodes : \A i \in DOMAIN eng[n].queries :
    LET q == eng[n].queries[i]
        quorum == \E d \in Digests : Cardinality(CastDigest(q.id, d)) >= Quorum
        possible == \E d \in Digests :
          Cardinality(CastDigest(q.id, d)) + N - Cardinality(CastFor(q.id)) >= Quorum
    IN /\ q.status = "pending" => ~quorum /\ possible
       /\ q.status = "committed" => quorum
       /\ q.status = "unresolvable" => (q.fake <=> quorum) /\ (q.fake \/ ~possible)
       /\ q.status = "success" =>
            Cardinality({x \in CastDigest(q.id, q.reply) : x.proof}) >= Quorum

\* The index structures describe the same queries: the pending list holds the
\* open queries, each once (removeByValue would never end on a duplicate),
\* every reply state in use belongs to one of them, and the commit and reveal
\* lists hold reply states in the matching status.  When contracts are notified,
\* no query of an earlier tick is still open after its timeout, although the
\* loop of processTimeouts removes from the array it runs over.
IndexesConsistent ==
  \A n \in Nodes :
    LET e == eng[n]
        open == {i \in DOMAIN e.queries : e.queries[i].status \in {"pending", "committed"}}
        SlotsIn(status) == {e.queries[i].slot : i \in {j \in open : e.queries[j].status = status}}
    IN /\ IsInjective(e.pending) /\ IsInjective(e.pendingCommit)
       /\ IsInjective(e.pendingReveal)
       /\ Range(e.pending) = open
       /\ {s \in 1..Slots : e.slots[s].id # NoQuery} = {e.queries[i].slot : i \in open}
       /\ \A i \in open : e.slots[e.queries[i].slot].id = e.queries[i].id
       /\ Range(e.pendingCommit) = {s \in SlotsIn("pending") : e.slots[s].own # None}
       /\ Range(e.pendingReveal) = SlotsIn("committed")
       /\ phase = "notify" =>
            \A i \in open : e.queries[i].timeout > tick \/ e.queries[i].tick = tick


\* One point for every computor with a correct commit such that fewer than
\* QUORUM correct commits were executed in earlier ticks, and points for
\* nothing else (the comment at the loop: "first 451 computors (+ the ones with
\* commit in the same tick)").
RevenueExact ==
  \A n \in Nodes, c \in Computors :
    LET earned(q) ==
          \E d \in Digests :
            LET correct == {x \in CastDigest(q.id, d) : x.proof}
            IN /\ Cardinality(CastDigest(q.id, d)) >= Quorum
               /\ \E x \in correct :
                    x.c = c /\ Cardinality({y \in correct : y.tick < x.tick}) < Quorum
    IN eng[n].revenue[c] =
         Cardinality({i \in DOMAIN eng[n].queries :
                        /\ eng[n].queries[i].status = "success" \/ eng[n].queries[i].fake
                        /\ earned(eng[n].queries[i])})
=============================================================================
