------------------------------ MODULE Ticking ------------------------------
(***************************************************************************)
(* Consensus on ticks: the loop of tickProcessor in src/qubic.cpp, the two *)
(* request handlers that fill its tick storage, and the network between    *)
(* the nodes.  Every computor signs one vote per tick about the state its  *)
(* node reached; a node completes a tick when Quorum stored votes match    *)
(* its own state and the content of the next tick is known to it.          *)
(*                                                                         *)
(* Data abstraction.  Execution is deterministic, so the spectrum,         *)
(* universe and computer digests of a node are represented by what the     *)
(* node executed in each tick (done[n]).  A TickData is its tick, a        *)
(* payload and its timelock; its digest is the record itself, and the zero *)
(* digest is Empty.  The last tick of an epoch is not modelled here.       *)
(***************************************************************************)
EXTENDS Integers, FiniteSets

CONSTANTS
  Computors,    \* the NUMBER_OF_COMPUTORS voters of the epoch
  Quorum,       \* QUORUM
  Faulty,       \* computors that may sign anything
  FaultyVotes,  \* the votes they may sign
  Nodes,        \* the nodes that run this code
  Own,          \* ownComputorIndices of each node
  Leader,       \* the computor that publishes the TickData of a tick
  LastTick,     \* bound: the last tick of the tick storage
  InitialTick,  \* 1: the model starts at the epoch's first tick; 0: later
  Payloads,     \* what a leader can put into a TickData
  Seeded,       \* TickData already published when the model starts
  MainNodes,    \* nodes that start in MAIN mode
  Modulus,      \* 2^32, the range of the unsigned latestCreatedTick
  Reissuers,    \* nodes that resend their votes (timeout, F9)
  Commanded,    \* nodes that receive SPECIAL_COMMAND_REISSUE_VOTE
  Forcers,      \* nodes on which forceNextTick may be set
  Switchers,    \* nodes whose MAIN/AUX mode may be switched
  Empty, NotDone, NoData, Invalidated, Unknown

N == Cardinality(Computors)

Ticks == 1..LastTick

\* What a tick can execute, and what a node has executed so far.
Values == Payloads \cup {Empty}
Histories == [Ticks -> Values \cup {NotDone}]

TickData == [tick : Ticks, v : Payloads, lock : Histories]

Digests == TickData \cup {Empty}

\* A Tick message: state stands for the prev* and salted* digests and the time
\* stamp, td is transactionDigest, exp is expectedNextTickTransactionDigest.
Votes == [c : Computors, tick : Ticks, state : Histories, td : Digests,
          exp : Digests]

Specials == {Empty, NotDone, NoData, Invalidated, Unknown}

\* At most NUMBER_OF_COMPUTORS - QUORUM computors are faulty, a quorum is more
\* than two thirds, and one computor runs in MAIN mode on one node only.
ASSUME ComputorsAssumption ==
  /\ IsFiniteSet(Computors)
  /\ Faulty \subseteq Computors
  /\ Quorum \in Nat
  /\ Cardinality(Faulty) + Quorum <= N
  /\ 3 * Quorum > 2 * N
  /\ \A v \in FaultyVotes : v \in Votes /\ v.c \in Faulty

ASSUME NodesAssumption ==
  /\ Own \in [Nodes -> SUBSET (Computors \ Faulty)]
  /\ \A m, n \in Nodes : m # n => Own[m] \cap Own[n] = {}
  /\ MainNodes \subseteq Nodes

ASSUME DataAssumption ==
  /\ LastTick \in Nat \ {0} /\ Modulus \in Nat /\ LastTick < Modulus
  /\ InitialTick \in {0, 1}
  /\ Commanded # {} => InitialTick = 1  \* only there is 0 really zero
  /\ Leader \in [Ticks -> Computors]
  /\ Seeded \subseteq TickData
  /\ Empty # NotDone /\ NoData # Invalidated /\ Empty # Unknown
  /\ \A s \in Specials : s \notin Payloads /\ s \notin TickData

VARIABLES
  tick,                 \* system.tick
  latestProcessedTick,
  latestCreatedTick,    \* system.latestCreatedTick
  main,                 \* isMainMode()
  done,                 \* executed content of every processed tick
  tickData,             \* ts.tickData; the epoch field is NoData/Invalidated
  ticks,                \* ts.ticks: the stored votes of the unfinished ticks
  target,               \* targetNextTickDataDigest, Unknown if not IsKnown
  nextTickData,         \* the tick processor's copy
  futureVotes,          \* gFutureTickTotalNumberOfComputors > N - QUORUM
  pc,                   \* where the iteration of the loop is
  elapsed,              \* 0: tick is young, 1: TARGET_TICK_DURATION is over,
                        \* 2: NEXT_TICK_TIMEOUT_THRESHOLD times that is over
  forceNextTick,
  transactions,         \* TickData whose transactions are all known
  handling,             \* TickData a request processor is about to store
  sentVotes,            \* every vote ever sent: delivery may lose, repeat,
  sentTickData          \* reorder or delay, never invent

vars == <<tick, latestProcessedTick, latestCreatedTick, main, done, tickData,
          ticks, target, nextTickData, futureVotes, pc, elapsed, forceNextTick,
          transactions, handling, sentVotes, sentTickData>>

TypeOK ==
  /\ tick \in [Nodes -> Ticks]
  /\ latestProcessedTick \in [Nodes -> 0..LastTick]
  /\ latestCreatedTick \in [Nodes -> 0..(Modulus - 1)]
  /\ main \in [Nodes -> BOOLEAN]
  /\ done \in [Nodes -> Histories]
  /\ tickData \in [Nodes -> [Ticks -> TickData \cup {NoData, Invalidated}]]
  /\ ticks \in [Nodes -> SUBSET Votes]
  /\ target \in [Nodes -> Digests \cup {Unknown}]
  /\ nextTickData \in [Nodes -> TickData \cup {NoData, Invalidated}]
  /\ futureVotes \in [Nodes -> BOOLEAN]
  /\ pc \in [Nodes -> {"loop", "processed", "vote", "count", "halted"}]
  /\ elapsed \in [Nodes -> 0..2]
  /\ forceNextTick \in [Nodes -> BOOLEAN]
  /\ transactions \in [Nodes -> SUBSET TickData]
  /\ handling \in [Nodes -> SUBSET TickData]
  /\ sentVotes \subseteq Votes
  /\ sentTickData \subseteq TickData

\* All nodes are aligned at tick 1, not yet processed, with nothing received.
Init ==
  /\ tick = [n \in Nodes |-> 1]
  /\ latestProcessedTick = [n \in Nodes |-> 0]
  /\ latestCreatedTick = [n \in Nodes |-> 0]
  /\ main = [n \in Nodes |-> n \in MainNodes]
  /\ done = [n \in Nodes |-> [t \in Ticks |-> NotDone]]
  /\ tickData = [n \in Nodes |-> [t \in Ticks |-> NoData]]
  /\ ticks = [n \in Nodes |-> {}]
  /\ target = [n \in Nodes |-> Unknown]
  /\ nextTickData = [n \in Nodes |-> NoData]
  /\ futureVotes = [n \in Nodes |-> FALSE]
  /\ pc = [n \in Nodes |-> "loop"]
  /\ elapsed = [n \in Nodes |-> 0]
  /\ forceNextTick = [n \in Nodes |-> FALSE]
  /\ transactions = [n \in Nodes |-> {}]
  /\ handling = [n \in Nodes |-> {}]
  /\ sentVotes = {}
  /\ sentTickData = Seeded


----------------------------------------------------------------------------
(* What votes and tick data say *)

HasData(d) == d \notin {NoData, Invalidated}

\* The state a node was in at the end of tick t.
Prefix(h, t) == [u \in Ticks |-> IF u <= t THEN h[u] ELSE NotDone]

\* The digest of a slot of the tick storage.
DigestOf(d) == IF HasData(d) THEN d ELSE Empty

VotesAt(n, t) == {v \in ticks[n] : v.tick = t}

\* Mutation of Veto: one empty vote too few cancels the tick data.
Veto_OffByOne == N - Quorum - 1

\* More empty votes than this, and no other digest can reach the quorum.
Veto == N - Quorum

\* The decision both find functions take on a set of <<computor, digest>>:
\* the digest of a quorum; Empty if empty votes have a veto or if no digest
\* can reach a quorum any more; otherwise what was known before.
FindDigest(ballots, known) ==
  LET Count(d) == Cardinality({b \in ballots : b[2] = d})
      Cast == {b[2] : b \in ballots}
      Won == {d \in Cast : Count(d) >= Quorum}
  IN IF Won # {} THEN CHOOSE d \in Won : TRUE
     ELSE IF \/ Count(Empty) > Veto
             \/ \A d \in Cast : Count(d) + (N - Cardinality(ballots)) < Quorum
          THEN Empty ELSE known

NextTickBallots(n) ==
  {<<v.c, v.td>> : v \in VotesAt(n, tick[n] + 1)}

CurrentTickBallots(n) == {<<v.c, v.exp>> : v \in VotesAt(n, tick[n])}

findNextTickDataDigestFromNextTickVotes(n, enough) ==
  IF enough THEN FindDigest(NextTickBallots(n), target[n]) ELSE target[n]

findNextTickDataDigestFromCurrentTickVotes(n, known) ==
  IF known = Unknown /\ main[n] /\ CurrentTickBallots(n) # {}
  THEN FindDigest(CurrentTickBallots(n), known) ELSE known


\* findCurrentDigestsFromNextTickVotes: the states that a quorum of the votes
\* of the next tick name as the outcome of the current one.
QuorumStates(n) ==
  {s \in {Prefix(v.state, tick[n]) : v \in VotesAt(n, tick[n] + 1)} :
     Cardinality({v \in VotesAt(n, tick[n] + 1) :
                    Prefix(v.state, tick[n]) = s}) >= Quorum}

\* All votes are there, none has a quorum, and an empty next tick does not
\* excuse it: the function fails.
NoQuorumState(n) ==
  /\ QuorumStates(n) = {}
  /\ Cardinality(VotesAt(n, tick[n] + 1)) = N
  /\ target[n] = Empty =>
       \A w \in VotesAt(n, tick[n] + 1) :
         Cardinality({v \in VotesAt(n, tick[n] + 1) :
           Prefix(v.state, tick[n]) = Prefix(w.state, tick[n])}) <= N - Quorum

----------------------------------------------------------------------------
(* The tick processor *)

\* The loop works only while the next tick is in the tick storage.
InLoop(n, at) == pc[n] = at /\ tick[n] < LastTick

\* More votes of the next tick are stored than computors may be faulty.
updateFutureTickCount(n) == Cardinality(VotesAt(n, tick[n] + 1)) > N - Quorum

\* The state after the transactions of the stored TickData, or none, ran.
Executed(n) ==
  [done[n] EXCEPT ![tick[n]] = IF HasData(tickData[n][tick[n]])
                               THEN tickData[n][tick[n]].v ELSE Empty]

\* A MAIN node with the leader of the second next tick publishes its TickData,
\* locked to the state just reached.
publishTickData(n) ==
  IF main[n] /\ tick[n] + 2 <= LastTick /\ Leader[tick[n] + 2] \in Own[n]
  THEN \E p \in Payloads : sentTickData' = sentTickData \cup
         {[tick |-> tick[n] + 2, v |-> p, lock |-> Executed(n)]}
  ELSE UNCHANGED sentTickData

\* Count the votes of the next tick, then process this one, once.
processTick(n) ==
  /\ InLoop(n, "loop")
  /\ tick[n] > latestProcessedTick[n]
  /\ done' = [done EXCEPT ![n] = Executed(n)]
  /\ publishTickData(n)
  /\ latestProcessedTick' = [latestProcessedTick EXCEPT ![n] = tick[n]]
  /\ futureVotes' = [futureVotes EXCEPT ![n] = updateFutureTickCount(n)]
  /\ pc' = [pc EXCEPT ![n] = "processed"]
  /\ UNCHANGED <<tick, latestCreatedTick, main, tickData, ticks, target,
                 nextTickData, elapsed, forceNextTick, transactions, handling,
                 sentVotes>>

\* Look for the digest of the next tick's TickData, and copy what is stored
\* for it.  Right after processTick the count of votes is an old one.
findTarget(n) ==
  /\ tick[n] = latestProcessedTick[n]
  /\ \/ /\ InLoop(n, "loop")
        /\ futureVotes' = [futureVotes EXCEPT ![n] = updateFutureTickCount(n)]
     \/ InLoop(n, "processed") /\ UNCHANGED futureVotes
  /\ target' = [target EXCEPT ![n] =
       findNextTickDataDigestFromCurrentTickVotes(n,
         findNextTickDataDigestFromNextTickVotes(n, futureVotes'[n]))]
  /\ nextTickData' = [nextTickData EXCEPT ![n] = tickData[n][tick[n] + 1]]
  /\ pc' = [pc EXCEPT ![n] = "vote"]
  /\ UNCHANGED <<tick, latestProcessedTick, latestCreatedTick, main, done,
                 tickData, ticks, elapsed, forceNextTick, transactions,
                 handling, sentVotes, sentTickData>>

\* The timelock of the local copy does not name the state before this tick.
LockMismatch(n) ==
  HasData(nextTickData[n]) /\ nextTickData[n].lock # Prefix(done[n], tick[n] - 1)

\* The local copy after the timelock check and the check for an empty target,
\* and what these checks leave in the tick storage.
CheckedData(n) ==
  IF LockMismatch(n) \/ target[n] = Empty THEN NoData ELSE nextTickData[n]

StoredData(n) ==
  IF target[n] = Empty THEN Invalidated
  ELSE IF LockMismatch(n) THEN NoData ELSE tickData[n][tick[n] + 1]

\* Mutation of tickDataSuits: wait for the TickData however long it takes.
tickDataSuits_NoTimeout(n) ==
  CASE target[n] = Unknown -> HasData(CheckedData(n)) \/ futureVotes[n]
    [] target[n] = Empty -> TRUE
    [] OTHER -> CheckedData(n) = target[n]

tickDataSuits(n) ==
  CASE target[n] = Unknown ->
         HasData(CheckedData(n)) \/ futureVotes[n] \/ elapsed[n] >= 1
    [] target[n] = Empty -> TRUE
    [] OTHER -> CheckedData(n) = target[n]

\* An AUX node that knows the target compares its state with the quorum's.
ComparesState(n) == ~main[n] /\ target[n] # Unknown

Misaligned(n) ==
  /\ ComparesState(n)
  /\ NoQuorumState(n) \/ \E s \in QuorumStates(n) : s # done[n]

mustSkip(n) == ComparesState(n) /\ QuorumStates(n) = {}

\* Mutation of MissesTransactions: it does not matter once there is a target.
MissesTransactions_Trusted(n) ==
  /\ target[n] = Unknown
  /\ HasData(CheckedData(n)) /\ CheckedData(n) \notin transactions[n]

\* prepareNextTickTransactions found that some transaction is not known yet.
MissesTransactions(n) ==
  HasData(CheckedData(n)) /\ CheckedData(n) \notin transactions[n]

isTickTimeOut(n) == elapsed[n] = 2

Discards(n) == MissesTransactions(n) /\ target[n] = Unknown /\ isTickTimeOut(n)

\* Endless "Error" loops: the state differs from the quorum's, or the votes of
\* the next tick name no quorum state at all.
halt(n) ==
  /\ InLoop(n, "vote")
  /\ Misaligned(n)
  /\ pc' = [pc EXCEPT ![n] = "halted"]
  /\ UNCHANGED <<tick, latestProcessedTick, latestCreatedTick, main, done,
                 tickData, ticks, target, nextTickData, futureVotes, elapsed,
                 forceNextTick, transactions, handling, sentVotes, sentTickData>>

\* The copies the loop made are taken anew in the next iteration.
EndIteration(n) ==
  /\ pc' = [pc EXCEPT ![n] = "loop"]
  /\ nextTickData' = [nextTickData EXCEPT ![n] = NoData]
  /\ futureVotes' = [futureVotes EXCEPT ![n] = FALSE]

\* The TickData or a transaction of it is missing: wait and iterate again.
waitForData(n) ==
  /\ InLoop(n, "vote")
  /\ ~Misaligned(n)
  /\ \/ ~tickDataSuits(n)
     \/ mustSkip(n)
     \/ MissesTransactions(n) /\ ~Discards(n)
  /\ tickData' = [tickData EXCEPT ![n][tick[n] + 1] = StoredData(n)]
  /\ EndIteration(n)
  /\ UNCHANGED <<tick, latestProcessedTick, latestCreatedTick, main, done, ticks,
                 target, elapsed, forceNextTick, transactions, handling,
                 sentVotes, sentTickData>>

MayVote(n) == tick[n] > latestCreatedTick[n] \/ tick[n] = InitialTick

\* broadcastTickVotes: one signed vote per own computor, none stored locally.
broadcastTickVotes(n, expected) ==
  IF MayVote(n) /\ main[n]
  THEN sentVotes \cup {[c |-> c, tick |-> tick[n], state |-> done[n],
                        td |-> DigestOf(tickData[n][tick[n]]),
                        exp |-> expected] : c \in Own[n]}
  ELSE sentVotes

\* All is there, or a timeout discards the TickData whose transactions are
\* missing: settle expectedNextTickTransactionDigest and vote.
vote(n) ==
  /\ InLoop(n, "vote")
  /\ ~Misaligned(n)
  /\ tickDataSuits(n)
  /\ ~mustSkip(n)
  /\ MissesTransactions(n) => Discards(n)
  /\ LET data == IF Discards(n) THEN NoData ELSE CheckedData(n)
     IN /\ tickData' = [tickData EXCEPT ![n][tick[n] + 1] =
                          IF Discards(n) THEN NoData ELSE StoredData(n)]
        /\ nextTickData' = [nextTickData EXCEPT ![n] = data]
        /\ sentVotes' =
             broadcastTickVotes(n, DigestOf(data))
  /\ latestCreatedTick' = [latestCreatedTick EXCEPT ![n] =
       IF MayVote(n) /\ tick[n] # InitialTick THEN tick[n] ELSE @]
  /\ pc' = [pc EXCEPT ![n] = "count"]
  /\ UNCHANGED <<tick, latestProcessedTick, main, done, ticks, target,
                 futureVotes, elapsed, forceNextTick, transactions, handling,
                 sentTickData>>

\* Mutation of updateVotesCount: votes on any state are counted.
updateVotesCount_AnyState(n) == Cardinality(VotesAt(n, tick[n]))

\* tickNumberOfComputors: the stored votes that name this node's state and
\* TickData.  The expected next digest is not compared.
updateVotesCount(n) ==
  Cardinality({v \in VotesAt(n, tick[n]) :
                 v.state = done[n] /\ v.td = DigestOf(tickData[n][tick[n]])})

\* No quorum on this state yet.
countTooFew(n) ==
  /\ InLoop(n, "count")
  /\ updateVotesCount(n) < Quorum
  /\ EndIteration(n)
  /\ UNCHANGED <<tick, latestProcessedTick, latestCreatedTick, main, done,
                 tickData, ticks, target, elapsed, forceNextTick, transactions,
                 handling, sentVotes, sentTickData>>

tryForceEmptyNextTick(n) ==
  IF target[n] = Unknown /\ forceNextTick[n] THEN Empty ELSE target[n]

\* The second check of the TickData against the target, after the votes.
Settled(n) ==
  LET known == tryForceEmptyNextTick(n)
  IN known = Empty \/ (known # Unknown /\ known = nextTickData[n])

\* A quorum agrees with this node, but the next tick is not settled.
awaitTarget(n) ==
  /\ InLoop(n, "count")
  /\ updateVotesCount(n) >= Quorum
  /\ ~Settled(n)
  /\ forceNextTick' = [forceNextTick EXCEPT ![n] = FALSE]
  /\ EndIteration(n)
  /\ UNCHANGED <<tick, latestProcessedTick, latestCreatedTick, main, done,
                 tickData, ticks, target, elapsed, transactions, handling,
                 sentVotes, sentTickData>>

\* Mutation of NextSlot: an empty next tick leaves its slot open.
NextSlot_LeftOpen(n) ==
  IF tryForceEmptyNextTick(n) = Empty THEN NoData ELSE tickData[n][tick[n] + 1]

\* The slot of the next tick when it begins: barred if the tick is empty.
NextSlot(n) ==
  IF tryForceEmptyNextTick(n) = Empty THEN Invalidated
  ELSE tickData[n][tick[n] + 1]

\* system.tick++ and the resets after it.  The stored votes of the completed
\* tick are not read by this loop again, so the model drops them.
completeTick(n) ==
  /\ InLoop(n, "count")
  /\ updateVotesCount(n) >= Quorum
  /\ Settled(n)
  /\ tickData' = [tickData EXCEPT ![n][tick[n] + 1] = NextSlot(n)]
  /\ tick' = [tick EXCEPT ![n] = @ + 1]
  /\ ticks' = [ticks EXCEPT ![n] = {v \in @ : v.tick > tick[n]}]
  /\ target' = [target EXCEPT ![n] = Unknown]
  /\ elapsed' = [elapsed EXCEPT ![n] = 0]
  /\ forceNextTick' = [forceNextTick EXCEPT ![n] = FALSE]
  /\ EndIteration(n)
  /\ UNCHANGED <<latestProcessedTick, latestCreatedTick, main, done,
                 transactions, handling, sentVotes, sentTickData>>

\* Auto-flush at the head of an iteration that is not the first of the tick:
\* stuck, although a peer is beyond the next tick, with a stored TickData that
\* may be corrupt.  Its transactions may still be found in the pool.
autoFlush(n) ==
  /\ InLoop(n, "loop")
  /\ tick[n] = latestProcessedTick[n]
  /\ elapsed[n] = 2
  /\ HasData(tickData[n][tick[n] + 1])
  /\ \E m \in Nodes : tick[m] > tick[n] + 1
  /\ tickData' = [tickData EXCEPT ![n][tick[n] + 1] = NoData]
  /\ \E lost \in SUBSET {d \in transactions[n] : d.tick = tick[n] + 1} :
       transactions' = [transactions EXCEPT ![n] = @ \ lost]
  /\ UNCHANGED <<tick, latestProcessedTick, latestCreatedTick, main, done, ticks,
                 target, nextTickData, futureVotes, pc, elapsed, forceNextTick,
                 handling, sentVotes, sentTickData>>

----------------------------------------------------------------------------
(* The request processors *)

procVars == <<tick, latestProcessedTick, main, done, target, nextTickData,
              futureVotes, pc>>

\* The first vote of a computor for a tick is kept; a differing second one
\* only sets a flag that is displayed.
StoredVotes(n, v) ==
  IF \E w \in ticks[n] : w.c = v.c /\ w.tick = v.tick THEN ticks[n]
  ELSE ticks[n] \cup {v}

\* A vote of the current or a later tick arrives.
processBroadcastTick(n, v) ==
  /\ v \in sentVotes
  /\ v.tick >= tick[n]
  /\ ticks' = [ticks EXCEPT ![n] = StoredVotes(n, v)]
  /\ UNCHANGED <<procVars, latestCreatedTick, tickData, elapsed, forceNextTick,
                 transactions, handling, sentVotes, sentTickData>>

\* processBroadcastFutureTickData up to the lock: the tick is checked before
\* the signature is verified, and may be over when the lock is taken.
receiveTickData(n, d) ==
  /\ d \in sentTickData \ handling[n]
  /\ d.tick > tick[n]
  /\ handling' = [handling EXCEPT ![n] = @ \cup {d}]
  /\ UNCHANGED <<procVars, latestCreatedTick, tickData, ticks, elapsed,
                 forceNextTick, transactions, sentVotes, sentTickData>>

\* Under the lock: a barred slot stays; the next tick takes only the targeted
\* TickData once there is a target; a slot that has data keeps it.
MayStore(n, d) ==
  /\ tickData[n][d.tick] # Invalidated
  /\ IF d.tick = tick[n] + 1 /\ target[n] # Unknown THEN d = target[n]
     ELSE ~HasData(tickData[n][d.tick])

storeTickData(n, d) ==
  /\ d \in handling[n]
  /\ handling' = [handling EXCEPT ![n] = @ \ {d}]
  /\ tickData' = IF MayStore(n, d) THEN [tickData EXCEPT ![n][d.tick] = d]
                 ELSE tickData
  /\ UNCHANGED <<procVars, latestCreatedTick, ticks, elapsed, forceNextTick,
                 transactions, sentVotes, sentTickData>>

\* The last missing transaction of a published TickData becomes known.
receiveTransactions(n, d) ==
  /\ d \in sentTickData
  /\ d \notin transactions[n]
  /\ transactions' = [transactions EXCEPT ![n] = @ \cup {d}]
  /\ UNCHANGED <<procVars, latestCreatedTick, tickData, ticks, elapsed,
                 forceNextTick, handling, sentVotes, sentTickData>>

----------------------------------------------------------------------------
(* Time, operators and faulty computors *)

passTime(n) ==
  /\ elapsed[n] < 2
  /\ elapsed' = [elapsed EXCEPT ![n] = @ + 1]
  /\ UNCHANGED <<procVars, latestCreatedTick, tickData, ticks, forceNextTick,
                 transactions, handling, sentVotes, sentTickData>>

\* tryResendTickVotes after a minute without progress, or the F9 key.
resendVotes(n) ==
  /\ n \in Reissuers
  /\ latestCreatedTick[n] > 0
  /\ latestCreatedTick' = [latestCreatedTick EXCEPT ![n] = @ - 1]
  /\ UNCHANGED <<procVars, tickData, ticks, elapsed, forceNextTick,
                 transactions, handling, sentVotes, sentTickData>>

\* SPECIAL_COMMAND_REISSUE_VOTE: the same decrement, without the test for 0.
reissueCommand(n) ==
  /\ n \in Commanded
  /\ latestCreatedTick' = [latestCreatedTick EXCEPT ![n] = (@ - 1) % Modulus]
  /\ UNCHANGED <<procVars, tickData, ticks, elapsed, forceNextTick,
                 transactions, handling, sentVotes, sentTickData>>

\* F5, SPECIAL_COMMAND_FORCE_NEXT_TICK, or the automatic F5 of a stuck node.
setForceNextTick(n) ==
  /\ n \in Forcers
  /\ forceNextTick' = [forceNextTick EXCEPT ![n] = TRUE]
  /\ UNCHANGED <<procVars, latestCreatedTick, tickData, ticks, elapsed,
                 transactions, handling, sentVotes, sentTickData>>

\* SPECIAL_COMMAND_TOGGLE_MAIN_MODE_REQUEST, or F12 at the next tick.
switchMode(n) ==
  /\ n \in Switchers
  /\ main' = [main EXCEPT ![n] = ~@]
  /\ UNCHANGED <<tick, latestProcessedTick, latestCreatedTick, done, tickData,
                 ticks, target, nextTickData, futureVotes, pc, elapsed,
                 forceNextTick, transactions, handling, sentVotes, sentTickData>>

faultyVote(v) ==
  /\ sentVotes' = sentVotes \cup {v}
  /\ UNCHANGED <<procVars, latestCreatedTick, tickData, ticks, elapsed,
                 forceNextTick, transactions, handling, sentTickData>>

iteration(n) ==
  \/ processTick(n) \/ findTarget(n) \/ halt(n) \/ waitForData(n) \/ vote(n)
  \/ countTooFew(n) \/ awaitTarget(n) \/ completeTick(n)

tickProcessor(n) == iteration(n) \/ autoFlush(n)

requestProcessor(n) ==
  \/ \E v \in sentVotes : processBroadcastTick(n, v)
  \/ \E d \in sentTickData : receiveTickData(n, d) \/ receiveTransactions(n, d)
  \/ \E d \in handling[n] : storeTickData(n, d)

environment(n) ==
  \/ passTime(n) \/ resendVotes(n) \/ reissueCommand(n) \/ setForceNextTick(n)
  \/ switchMode(n)

Next ==
  \/ \E n \in Nodes : tickProcessor(n) \/ requestProcessor(n) \/ environment(n)
  \/ \E v \in FaultyVotes : faultyVote(v)

Spec == Init /\ [][Next]_vars

\* The loop keeps running, time passes, and the requests that the main loop
\* repeats while something is missing are answered in the end.
Fairness ==
  \A n \in Nodes :
    /\ WF_vars(iteration(n))
    /\ WF_vars(passTime(n))
    /\ WF_vars(\E v \in sentVotes : processBroadcastTick(n, v))
    /\ WF_vars(\E d \in sentTickData : receiveTickData(n, d))
    /\ WF_vars(\E d \in handling[n] : storeTickData(n, d))
    /\ WF_vars(\E d \in sentTickData : receiveTransactions(n, d))

----------------------------------------------------------------------------
(* Properties *)

\* Finality.  Two nodes that both completed a tick executed the same content
\* in it and in every tick before it: what updateVotesCount compares and the
\* quorum of the loop make the state of completed ticks unique, whatever was
\* lost, delayed, sent again, forced or signed by faulty computors.
Finality ==
  \A m, n \in Nodes : \A t \in Ticks :
    t < tick[m] /\ t < tick[n] => Prefix(done[m], t) = Prefix(done[n], t)

\* Why Finality holds.  A tick is processed once, before it is voted on and
\* completed, and nothing is executed ahead of it.
ProcessedOnce ==
  \A n \in Nodes :
    /\ latestProcessedTick[n] \in {tick[n] - 1, tick[n]}
    /\ pc[n] # "loop" => latestProcessedTick[n] = tick[n]
    /\ \A t \in Ticks : t > latestProcessedTick[n] => done[n][t] = NotDone

\* The votes of a computor that is not faulty tell what its node executed.
VotesTrue ==
  \A v \in sentVotes : v.c \notin Faulty =>
    \E n \in Nodes : /\ v.c \in Own[n]
                     /\ v.tick <= latestProcessedTick[n]
                     /\ v.state = Prefix(done[n], v.tick)

\* The tick storage holds votes that were sent, at most one per slot.
StoredVotesReal ==
  \A n \in Nodes :
    /\ ticks[n] \subseteq sentVotes
    /\ \A v, w \in ticks[n] : v.c = w.c /\ v.tick = w.tick => v = w

\* The computors that signed state h of tick t.
Signers(h, t) ==
  {c \in Computors :
     \E v \in sentVotes : v.c = c /\ v.tick = t /\ v.state = Prefix(h, t)}

\* A quorum signed what a node executed up to a tick it completed.
CompletedByQuorum ==
  \A n \in Nodes : \A t \in Ticks :
    t < tick[n] => Cardinality(Signers(done[n], t)) >= Quorum

IInv ==
  TypeOK /\ ProcessedOnce /\ VotesTrue /\ StoredVotesReal /\ CompletedByQuorum

\* A tick that is about to be executed has all its transactions: processTick
\* does not get into its endless criticalSituation loop, although TickData are
\* discarded, flushed and replaced until the tick begins.
TransactionsComplete ==
  \A n \in Nodes :
    latestProcessedTick[n] < tick[n] /\ HasData(tickData[n][tick[n]])
      => tickData[n][tick[n]] \in transactions[n]

\* Why it holds.  The loop goes on to count votes only with a local copy whose
\* transactions it has, and completes the tick only with that copy.
CopyComplete ==
  \A n \in Nodes :
    pc[n] = "count" /\ HasData(nextTickData[n])
      => nextTickData[n] \in transactions[n]

\* A computor that is not faulty never signs two different states of a tick,
\* however often its votes are sent again: a receiver that keeps only the
\* first vote counts the same state as one that got a later vote.
OneStatePerTick ==
  \A v, w \in sentVotes :
    v.c = w.c /\ v.tick = w.tick /\ v.c \notin Faulty
      => v.state = w.state /\ v.td = w.td

\* Why it holds.  The slots of the current and the completed ticks hold data or
\* are barred, so that no late handler fills them; the loop completes a tick
\* only with the targeted TickData in the next slot.
Slots(n) ==
  /\ \A t \in Ticks : 1 < t /\ t <= tick[n] => tickData[n][t] # NoData
  /\ \A d \in handling[n] : d.tick > 1
  /\ pc[n] # "loop" => tick[n] < LastTick
  /\ /\ pc[n] \in {"vote", "count", "halted"}
     /\ target[n] \in TickData /\ nextTickData[n] = target[n]
     => tickData[n][tick[n] + 1] = target[n]

SlotsTaken == \A n \in Nodes : Slots(n)

\* The votes of a computor that is not faulty name the TickData of its node.
VotesNameData ==
  \A v \in sentVotes : v.c \notin Faulty =>
    \E n \in Nodes : /\ v.c \in Own[n]
                     /\ v.tick <= tick[n]
                     /\ v.td = DigestOf(tickData[n][v.tick])

\* The TickData of the current tick is not touched: neither the handler that
\* checked the tick before it advanced, nor a discard, a flush or a timelock
\* mismatch changes what the node executes and votes on.
TickDataFrozen ==
  [][\A n \in Nodes : tick'[n] = tick[n] =>
       tickData'[n][tick[n]] = tickData[n][tick[n]]]_vars

\* Every computor signed one vote for the tick.
Uncontested(t) ==
  \A v, w \in sentVotes : v.tick = t /\ w.tick = t /\ v.c = w.c => v = w

\* If nobody forces an empty tick and no computor changes its expectation,
\* then all nodes begin a tick with the same content, from whatever subset of
\* the votes each of them derived its target: the veto of N - QUORUM empty
\* votes and the quorum exclude each other.
UniformContent ==
  Forcers = {} =>
    \A m, n \in Nodes : \A t \in Ticks :
      t <= tick[m] /\ t <= tick[n] /\ (\A u \in 1..(t - 1) : Uncontested(u))
        => tickData[m][t] = tickData[n][t] \/ t = 1

\* Under the same conditions no node waits for a TickData whose slot it has
\* barred: INVALIDATED_TICK_DATA is never undone, so this would stall it for
\* good.
NoDeadEnd ==
  Forcers = {} =>
    \A n \in Nodes :
      /\ tick[n] < LastTick
      /\ \A u \in 1..tick[n] : Uncontested(u)
      /\ tickData[n][tick[n] + 1] = Invalidated
      => target[n] \in {Unknown, Empty}


\* With reliable delivery, and as long as nobody forces ticks or changes its
\* votes, every MAIN node gets through every tick, whether the TickData, its
\* transactions or the votes of the others come in time or not.
TicksAdvance == \A n \in MainNodes : <>(tick[n] = LastTick)

=============================================================================
