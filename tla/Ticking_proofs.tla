-------------------------- MODULE Ticking_proofs --------------------------
(***************************************************************************)
(* Type correctness of Ticking, for every set of computors and nodes, every *)
(* quorum and every placement of faulty computors within                   *)
(* ComputorsAssumption.                                                    *)
(***************************************************************************)
EXTENDS Ticking, TLAPS

----------------------------------------------------------------------------
(* Types *)

\* The initial state is well typed.
LEMMA InitTypeOK == Init => TypeOK
<1> SUFFICES ASSUME Init PROVE TypeOK
  OBVIOUS
<1> USE DataAssumption, NodesAssumption
<1>1. 1 \in Ticks /\ 0 \in 0..LastTick /\ 0 \in 0..(Modulus - 1)
  BY DEF Ticks
<1>2. done \in [Nodes -> Histories]
  BY DEF Init, Histories
<1>3. main \in [Nodes -> BOOLEAN] /\ futureVotes \in [Nodes -> BOOLEAN]
      /\ forceNextTick \in [Nodes -> BOOLEAN]
  BY DEF Init
<1>4. /\ tick \in [Nodes -> Ticks]
      /\ latestProcessedTick \in [Nodes -> 0..LastTick]
      /\ latestCreatedTick \in [Nodes -> 0..(Modulus - 1)]
      /\ elapsed \in [Nodes -> 0..2]
  BY <1>1 DEF Init
<1>5. /\ tickData \in [Nodes -> [Ticks -> TickData \cup {NoData, Invalidated}]]
      /\ target \in [Nodes -> Digests \cup {Unknown}]
      /\ nextTickData \in [Nodes -> TickData \cup {NoData, Invalidated}]
      /\ pc \in [Nodes -> {"loop", "processed", "vote", "count", "halted"}]
  BY DEF Init
<1>6. /\ ticks \in [Nodes -> SUBSET Votes]
      /\ transactions \in [Nodes -> SUBSET TickData]
      /\ handling \in [Nodes -> SUBSET TickData]
      /\ sentVotes \subseteq Votes
      /\ sentTickData \subseteq TickData
  BY DEF Init
<1> QED
  BY <1>2, <1>3, <1>4, <1>5, <1>6 DEF TypeOK

\* What the find functions decide is a digest or what was known before.
LEMMA FindDigestType ==
  ASSUME NEW ballots, NEW known \in Digests \cup {Unknown},
         \A b \in ballots : b[2] \in Digests
  PROVE  FindDigest(ballots, known) \in Digests \cup {Unknown}
<1> DEFINE Count(d) == Cardinality({b \in ballots : b[2] = d})
           Cast == {b[2] : b \in ballots}
           Won == {d \in Cast : Count(d) >= Quorum}
<1>1. CASE Won # {}
  <2>1. FindDigest(ballots, known) = CHOOSE d \in Won : TRUE
    BY <1>1, Zenon DEF FindDigest
  <2>2. (CHOOSE d \in Won : TRUE) \in Won
    BY <1>1, Zenon
  <2>3. Won \subseteq Digests
    OBVIOUS
  <2> QED
    BY <2>1, <2>2, <2>3, Zenon
<1>2. CASE Won = {}
  <2>1. FindDigest(ballots, known) \in {Empty, known}
    BY <1>2, Zenon DEF FindDigest
  <2> QED
    BY <2>1 DEF Digests
<1> QED
  BY <1>1, <1>2, Zenon

\* The tick data in the slot of an existing tick, and of the next one.
LEMMA SlotType ==
  ASSUME TypeOK, NEW n \in Nodes
  PROVE  /\ tick[n] \in Ticks
         /\ tickData[n][tick[n]] \in TickData \cup {NoData, Invalidated}
         /\ tick[n] < LastTick =>
              /\ tick[n] + 1 \in Ticks
              /\ tickData[n][tick[n] + 1] \in TickData \cup {NoData, Invalidated}
BY DataAssumption DEF TypeOK, Ticks

\* processTick keeps the types.
LEMMA TypeProcessTick ==
  ASSUME TypeOK, NEW n \in Nodes, processTick(n)
  PROVE  TypeOK'
<1> DEFINE td == tickData[n][tick[n]]
<1>1. Executed(n) \in Histories
  <2>1. (IF HasData(td) THEN td.v ELSE Empty) \in Values
    BY SlotType DEF HasData, TickData, Values
  <2>2. done[n] \in Histories /\ tick[n] \in Ticks
    BY SlotType DEF TypeOK
  <2> QED
    BY <2>1, <2>2 DEF Histories, Executed
<1>2. done' \in [Nodes -> Histories]
  BY <1>1 DEF TypeOK, processTick
<1>3. latestProcessedTick' \in [Nodes -> 0..LastTick]
  BY SlotType, DataAssumption DEF TypeOK, processTick, Ticks
<1>4. sentTickData' \subseteq TickData
  <2>1. \/ UNCHANGED sentTickData
        \/ /\ tick[n] + 2 <= LastTick
           /\ \E p \in Payloads : sentTickData' = sentTickData \cup
                {[tick |-> tick[n] + 2, v |-> p, lock |-> Executed(n)]}
    BY DEF processTick, publishTickData
  <2>2. CASE UNCHANGED sentTickData
    BY <2>2 DEF TypeOK
  <2>3. ASSUME tick[n] + 2 <= LastTick, NEW p \in Payloads,
               sentTickData' = sentTickData \cup
                 {[tick |-> tick[n] + 2, v |-> p, lock |-> Executed(n)]}
        PROVE  sentTickData' \subseteq TickData
    <3>1. tick[n] + 2 \in Ticks
      BY <2>3, SlotType, DataAssumption DEF Ticks
    <3>2. [tick |-> tick[n] + 2, v |-> p, lock |-> Executed(n)] \in TickData
      BY <3>1, <1>1 DEF TickData
    <3>3. sentTickData \subseteq TickData
      BY DEF TypeOK
    <3> QED
      BY <2>3, <3>2, <3>3
  <2> QED
    BY <2>1, <2>2, <2>3
<1>5. futureVotes' \in [Nodes -> BOOLEAN]
  BY DEF TypeOK, processTick, updateFutureTickCount
<1>6. pc' \in [Nodes -> {"loop", "processed", "vote", "count", "halted"}]
  BY DEF TypeOK, processTick
<1> QED
  BY <1>2, <1>3, <1>4, <1>5, <1>6 DEF TypeOK, processTick

\* findTarget keeps the types.
LEMMA TypeFindTarget ==
  ASSUME TypeOK, NEW n \in Nodes, findTarget(n)
  PROVE  TypeOK'
<1>1. \A t : \A v \in VotesAt(n, t) : v.td \in Digests /\ v.exp \in Digests
  BY DEF TypeOK, VotesAt, Votes
<1>2. target[n] \in Digests \cup {Unknown}
  BY DEF TypeOK
<1> DEFINE known ==
             findNextTickDataDigestFromNextTickVotes(n, futureVotes'[n])
<1>3. known \in Digests \cup {Unknown}
  <2>1. \A b \in NextTickBallots(n) : b[2] \in Digests
    BY <1>1 DEF NextTickBallots
  <2>2. FindDigest(NextTickBallots(n), target[n]) \in Digests \cup {Unknown}
    BY <2>1, <1>2, FindDigestType
  <2> QED
    BY <2>2, <1>2 DEF findNextTickDataDigestFromNextTickVotes
<1>4. findNextTickDataDigestFromCurrentTickVotes(n, known)
        \in Digests \cup {Unknown}
  <2>1. \A b \in CurrentTickBallots(n) : b[2] \in Digests
    BY <1>1 DEF CurrentTickBallots
  <2>2. FindDigest(CurrentTickBallots(n), known) \in Digests \cup {Unknown}
    BY <2>1, <1>3, FindDigestType
  <2> QED
    BY <2>2, <1>3 DEF findNextTickDataDigestFromCurrentTickVotes
<1>5. target' \in [Nodes -> Digests \cup {Unknown}]
  <2> HIDE DEF known
  <2> QED
    BY <1>4 DEF TypeOK, findTarget, known
<1>6. nextTickData' \in [Nodes -> TickData \cup {NoData, Invalidated}]
  BY SlotType DEF TypeOK, findTarget, InLoop
<1>7. futureVotes' \in [Nodes -> BOOLEAN]
  <2>1. \/ futureVotes' = futureVotes
        \/ futureVotes' = [futureVotes EXCEPT ![n] = updateFutureTickCount(n)]
    BY DEF findTarget
  <2>2. updateFutureTickCount(n) \in BOOLEAN
    BY DEF updateFutureTickCount
  <2> QED
    BY <2>1, <2>2, Zenon DEF TypeOK
<1>8. pc' \in [Nodes -> {"loop", "processed", "vote", "count", "halted"}]
  BY DEF TypeOK, findTarget
<1> QED
  BY <1>5, <1>6, <1>7, <1>8 DEF TypeOK, findTarget

\* What the checks of an iteration leave in the local copy and in the slot.
LEMMA CheckedType ==
  ASSUME TypeOK, NEW n \in Nodes, tick[n] < LastTick
  PROVE  /\ CheckedData(n) \in TickData \cup {NoData, Invalidated}
         /\ StoredData(n) \in TickData \cup {NoData, Invalidated}
         /\ NextSlot(n) \in TickData \cup {NoData, Invalidated}
<1>1. nextTickData[n] \in TickData \cup {NoData, Invalidated}
  BY DEF TypeOK
<1>2. tickData[n][tick[n] + 1] \in TickData \cup {NoData, Invalidated}
  BY SlotType
<1> QED
  BY <1>1, <1>2 DEF CheckedData, StoredData, NextSlot

\* Writing a well typed TickData into the slot of the next tick.
LEMMA SlotWrite ==
  ASSUME TypeOK, NEW n \in Nodes, NEW t \in Ticks,
         NEW d \in TickData \cup {NoData, Invalidated},
         tickData' = [tickData EXCEPT ![n][t] = d]
  PROVE  tickData' \in [Nodes -> [Ticks -> TickData \cup {NoData, Invalidated}]]
BY DEF TypeOK

\* The end of an iteration resets the local copies.
LEMMA EndIterationType ==
  ASSUME TypeOK, NEW n \in Nodes, EndIteration(n)
  PROVE  /\ pc' \in [Nodes -> {"loop", "processed", "vote", "count", "halted"}]
         /\ nextTickData' \in [Nodes -> TickData \cup {NoData, Invalidated}]
         /\ futureVotes' \in [Nodes -> BOOLEAN]
BY DEF TypeOK, EndIteration

\* waitForData keeps the types.
LEMMA TypeWaitForData ==
  ASSUME TypeOK, NEW n \in Nodes, waitForData(n)
  PROVE  TypeOK'
<1>1. tick[n] < LastTick /\ tick[n] + 1 \in Ticks
  BY SlotType DEF waitForData, InLoop
<1>2. tickData' \in [Nodes -> [Ticks -> TickData \cup {NoData, Invalidated}]]
  BY <1>1, CheckedType, SlotWrite, Zenon DEF waitForData
<1>3. EndIteration(n)
  BY SMTT(60) DEF waitForData
<1> QED
  BY <1>2, <1>3, EndIterationType DEF TypeOK, waitForData

\* The votes a node broadcasts are votes.
LEMMA BroadcastType ==
  ASSUME TypeOK, NEW n \in Nodes, NEW e \in Digests
  PROVE  broadcastTickVotes(n, e) \subseteq Votes
<1>1. DigestOf(tickData[n][tick[n]]) \in Digests
  BY SlotType DEF DigestOf, HasData, Digests
<1>2. \A c \in Own[n] : [c |-> c, tick |-> tick[n], state |-> done[n],
                         td |-> DigestOf(tickData[n][tick[n]]), exp |-> e] \in Votes
  BY <1>1, NodesAssumption, SlotType DEF TypeOK, Votes
<1> QED
  BY <1>2 DEF broadcastTickVotes, TypeOK

\* vote keeps the types.
LEMMA TypeVote ==
  ASSUME TypeOK, NEW n \in Nodes, vote(n)
  PROVE  TypeOK'
<1> DEFINE data == IF Discards(n) THEN NoData ELSE CheckedData(n)
           slot == IF Discards(n) THEN NoData ELSE StoredData(n)
<1>1. tick[n] < LastTick /\ tick[n] + 1 \in Ticks /\ tick[n] \in Ticks
  BY SlotType DEF vote, InLoop
<1>2. /\ data \in TickData \cup {NoData, Invalidated}
      /\ slot \in TickData \cup {NoData, Invalidated}
  BY <1>1, CheckedType
<1>3. tickData' \in [Nodes -> [Ticks -> TickData \cup {NoData, Invalidated}]]
  BY <1>1, <1>2, SlotWrite, Zenon DEF vote
<1>4. nextTickData' \in [Nodes -> TickData \cup {NoData, Invalidated}]
  <2> nextTickData' = [nextTickData EXCEPT ![n] = data]
    BY DEF vote
  <2> HIDE DEF data
  <2> QED
    BY <1>2 DEF TypeOK
<1>5. sentVotes' \subseteq Votes
  <2>1. sentVotes' = broadcastTickVotes(n, DigestOf(data))
    BY DEF vote
  <2>2. DigestOf(data) \in Digests
    BY <1>2 DEF DigestOf, HasData, Digests
  <2> HIDE DEF data
  <2> QED
    BY <2>1, <2>2, BroadcastType
<1>6. latestCreatedTick' \in [Nodes -> 0..(Modulus - 1)]
  <2>1. tick[n] \in 0..(Modulus - 1)
    BY <1>1, DataAssumption DEF Ticks
  <2>2. latestCreatedTick[n] \in 0..(Modulus - 1)
    BY DEF TypeOK
  <2> QED
    BY <2>1, <2>2 DEF TypeOK, vote
<1>7. pc' \in [Nodes -> {"loop", "processed", "vote", "count", "halted"}]
  BY DEF TypeOK, vote
<1> QED
  BY <1>3, <1>4, <1>5, <1>6, <1>7 DEF TypeOK, vote

\* The steps after the votes were counted keep the types.
LEMMA TypeCount ==
  ASSUME TypeOK, NEW n \in Nodes,
         countTooFew(n) \/ awaitTarget(n) \/ completeTick(n)
  PROVE  TypeOK'
<1>1. CASE countTooFew(n)
  BY <1>1, EndIterationType DEF TypeOK, countTooFew
<1>2. CASE awaitTarget(n)
  <2>1. forceNextTick' \in [Nodes -> BOOLEAN]
    BY <1>2, SMTT(60) DEF TypeOK, awaitTarget
  <2> QED
    BY <1>2, <2>1, EndIterationType DEF TypeOK, awaitTarget
<1>3. CASE completeTick(n)
  <2>1. tick[n] < LastTick /\ tick[n] + 1 \in Ticks
    BY <1>3, SlotType DEF completeTick, InLoop
  <2>2. tickData' \in [Nodes -> [Ticks -> TickData \cup {NoData, Invalidated}]]
    BY <1>3, <2>1, CheckedType, SlotWrite, Zenon DEF completeTick
  <2>3. tick' \in [Nodes -> Ticks]
    BY <1>3, <2>1 DEF TypeOK, completeTick
  <2>4. /\ forceNextTick' \in [Nodes -> BOOLEAN]
        /\ target' \in [Nodes -> Digests \cup {Unknown}]
        /\ elapsed' \in [Nodes -> 0..2]
    BY <1>3 DEF TypeOK, completeTick
  <2>5. ticks' \in [Nodes -> SUBSET Votes]
    <3>1. {v \in ticks[n] : v.tick > tick[n]} \in SUBSET Votes
      BY DEF TypeOK
    <3> QED
      BY <1>3, <3>1 DEF TypeOK, completeTick
  <2>6. EndIteration(n)
    BY <1>3 DEF completeTick
  <2> QED
    BY <1>3, <2>2, <2>3, <2>4, <2>5, <2>6, EndIterationType
       DEF TypeOK, completeTick
<1> QED
  BY <1>1, <1>2, <1>3

\* Every step of the tick processor keeps the types.
LEMMA TypeTickProcessor ==
  ASSUME TypeOK, NEW n \in Nodes, tickProcessor(n)
  PROVE  TypeOK'
<1>1. CASE halt(n)
  BY <1>1 DEF TypeOK, halt
<1>2. CASE autoFlush(n)
  <2>1. tick[n] < LastTick /\ tick[n] + 1 \in Ticks
    BY <1>2, SlotType DEF autoFlush, InLoop
  <2>2. tickData' \in [Nodes -> [Ticks -> TickData \cup {NoData, Invalidated}]]
    BY <1>2, <2>1, SlotWrite, Zenon DEF autoFlush
  <2>3. transactions' \in [Nodes -> SUBSET TickData]
    BY <1>2 DEF TypeOK, autoFlush
  <2> QED
    BY <1>2, <2>2, <2>3 DEF TypeOK, autoFlush
<1> QED
  BY <1>1, <1>2, TypeProcessTick, TypeFindTarget, TypeWaitForData, TypeVote,
     TypeCount DEF tickProcessor, iteration

\* Every step of the request processors keeps the types.
LEMMA TypeRequestProcessor ==
  ASSUME TypeOK, NEW n \in Nodes, requestProcessor(n)
  PROVE  TypeOK'
<1>1. ASSUME NEW v \in sentVotes, processBroadcastTick(n, v) PROVE TypeOK'
  <2>1. ticks' \in [Nodes -> SUBSET Votes]
    BY <1>1 DEF TypeOK, processBroadcastTick, StoredVotes
  <2> QED
    BY <1>1, <2>1 DEF TypeOK, processBroadcastTick, procVars
<1>2. ASSUME NEW d \in sentTickData, receiveTickData(n, d) PROVE TypeOK'
  <2>1. handling' \in [Nodes -> SUBSET TickData]
    BY <1>2 DEF TypeOK, receiveTickData
  <2> QED
    BY <1>2, <2>1 DEF TypeOK, receiveTickData, procVars
<1>3. ASSUME NEW d \in sentTickData, receiveTransactions(n, d) PROVE TypeOK'
  <2>1. d \in TickData
    BY DEF TypeOK
  <2>2. transactions' \in [Nodes -> SUBSET TickData]
    BY <1>3, <2>1 DEF TypeOK, receiveTransactions
  <2> QED
    BY <1>3, <2>2 DEF TypeOK, receiveTransactions, procVars
<1>4. ASSUME NEW d \in handling[n], storeTickData(n, d) PROVE TypeOK'
  <2>1. d \in TickData /\ d.tick \in Ticks
    BY DEF TypeOK, TickData
  <2>2. tickData' \in [Nodes -> [Ticks -> TickData \cup {NoData, Invalidated}]]
    BY <1>4, <2>1, SlotWrite DEF TypeOK, storeTickData
  <2>3. handling' \in [Nodes -> SUBSET TickData]
    BY <1>4 DEF TypeOK, storeTickData
  <2> QED
    BY <1>4, <2>2, <2>3 DEF TypeOK, storeTickData, procVars
<1> QED
  BY <1>1, <1>2, <1>3, <1>4 DEF requestProcessor

\* Time, operators and faulty computors keep the types.
LEMMA TypeEnvironment ==
  ASSUME TypeOK
  PROVE  /\ \A n \in Nodes : environment(n) => TypeOK'
         /\ \A v \in FaultyVotes : faultyVote(v) => TypeOK'
<1>1. ASSUME NEW n \in Nodes, passTime(n) PROVE TypeOK'
  BY <1>1, SMTT(60) DEF TypeOK, passTime, procVars
<1>2. ASSUME NEW n \in Nodes, resendVotes(n) PROVE TypeOK'
  <2>1. latestCreatedTick' \in [Nodes -> 0..(Modulus - 1)]
    BY <1>2, DataAssumption DEF TypeOK, resendVotes
  <2> QED
    BY <1>2, <2>1 DEF TypeOK, resendVotes, procVars
<1>3. ASSUME NEW n \in Nodes, reissueCommand(n) PROVE TypeOK'
  <2>1. Modulus \in Nat \ {0}
    BY DataAssumption
  <2>2. (latestCreatedTick[n] - 1) % Modulus \in 0..(Modulus - 1)
    BY <2>1 DEF TypeOK
  <2>3. latestCreatedTick' \in [Nodes -> 0..(Modulus - 1)]
    BY <1>3, <2>2 DEF TypeOK, reissueCommand
  <2> QED
    BY <1>3, <2>3 DEF TypeOK, reissueCommand, procVars
<1>4. ASSUME NEW n \in Nodes, setForceNextTick(n) PROVE TypeOK'
  BY <1>4 DEF TypeOK, setForceNextTick, procVars
<1>5. ASSUME NEW n \in Nodes, switchMode(n) PROVE TypeOK'
  <2>1. main' \in [Nodes -> BOOLEAN]
    BY <1>5 DEF TypeOK, switchMode
  <2> QED
    BY <1>5, <2>1 DEF TypeOK, switchMode
<1>6. ASSUME NEW v \in FaultyVotes, faultyVote(v) PROVE TypeOK'
  BY <1>6, ComputorsAssumption DEF TypeOK, faultyVote, procVars
<1> QED
  BY <1>1, <1>2, <1>3, <1>4, <1>5, <1>6 DEF environment

\* The variables have their types in every reachable state: in particular the
\* loop never indexes the tick storage outside the epoch.
THEOREM TypeCorrect == Spec => []TypeOK
<1>1. TypeOK /\ [Next]_vars => TypeOK'
  <2> SUFFICES ASSUME TypeOK, [Next]_vars PROVE TypeOK'
    OBVIOUS
  <2>1. CASE UNCHANGED vars
    BY <2>1 DEF TypeOK, vars
  <2> QED
    BY <2>1, TypeTickProcessor, TypeRequestProcessor, TypeEnvironment DEF Next
<1> QED
  BY InitTypeOK, <1>1, PTL DEF Spec

=============================================================================
