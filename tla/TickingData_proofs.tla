------------------------ MODULE TickingData_proofs ------------------------
(***************************************************************************)
(* Tick data in Ticking: the current tick's data is frozen, votes do not   *)
(* contradict each other, and no tick begins with missing transactions.    *)
(***************************************************************************)
EXTENDS TickingFinality_proofs

----------------------------------------------------------------------------
(* The TickData of a tick and the votes that name it *)

\* What the tick processor writes goes to the slot of the next tick, and what
\* a handler writes to a slot that has neither data nor a bar.
LEMMA SlotsFrozen ==
  ASSUME TypeOK, SlotsTaken, [Next]_vars
  PROVE  \A n \in Nodes : \A t \in Ticks :
           t <= tick[n] => tickData'[n][t] = tickData[n][t]
<1>0. \A n \in Nodes : tick[n] \in Int
  BY DEF TypeOK, Ticks
<1>1. CASE UNCHANGED tickData
  BY <1>1
<1>2. ASSUME NEW n \in Nodes, NEW x,
             tickData' = [tickData EXCEPT ![n][tick[n] + 1] = x]
      PROVE  \A m \in Nodes : \A t \in Ticks :
               t <= tick[m] => tickData'[m][t] = tickData[m][t]
  <2> SUFFICES ASSUME NEW m \in Nodes, NEW t \in Ticks, t <= tick[m]
               PROVE  tickData'[m][t] = tickData[m][t]
    OBVIOUS
  <2>1. m = n => t # tick[n] + 1
    BY <1>0 DEF Ticks
  <2> QED
    BY <1>2, <2>1 DEF TypeOK
<1>3. ASSUME NEW n \in Nodes, NEW d \in handling[n], storeTickData(n, d)
      PROVE  \A m \in Nodes : \A t \in Ticks :
               t <= tick[m] => tickData'[m][t] = tickData[m][t]
  <2> SUFFICES ASSUME NEW m \in Nodes, NEW t \in Ticks, t <= tick[m],
                      MayStore(n, d), m = n, t = d.tick
               PROVE  FALSE
    BY <1>3 DEF storeTickData, TypeOK
  <2>1. tickData[n][t] # NoData /\ tickData[n][t] # Invalidated
    BY Zenon DEF SlotsTaken, Slots, MayStore
  <2>2. t # tick[n] + 1
    BY <1>0 DEF Ticks
  <2> QED
    BY <2>1, <2>2 DEF MayStore, HasData
<1>4. ASSUME NEW n \in Nodes, tickProcessor(n)
      PROVE  UNCHANGED tickData \/
             \E x : tickData' = [tickData EXCEPT ![n][tick[n] + 1] = x]
  BY <1>4, Zenon DEF tickProcessor, iteration, processTick, findTarget, halt,
              waitForData, vote, countTooFew, awaitTarget, completeTick, autoFlush
<1>5. ASSUME NEW n \in Nodes, environment(n) PROVE UNCHANGED tickData
  BY <1>5 DEF environment, passTime, resendVotes, reissueCommand,
              setForceNextTick, switchMode
<1> QED
  BY <1>1, <1>2, <1>3, <1>4, <1>5
     DEF Next, requestProcessor, processBroadcastTick, receiveTickData,
         receiveTransactions, faultyVote, vars

\* Every iteration of the loop leaves the next slot taken when it advances.
LEMMA SlotsIteration ==
  ASSUME TypeOK, SlotsTaken, NEW n \in Nodes, tickProcessor(n)
  PROVE  Slots(n)'
<1> DEFINE next == tick[n] + 1
<1>0. /\ tick[n] \in Int /\ LastTick \in Int
      /\ tickData[n] \in [Ticks -> TickData \cup {NoData, Invalidated}]
      /\ NoData \notin TickData /\ Empty \notin TickData /\ NoData # Invalidated
      /\ Unknown \notin TickData
  BY DataAssumption DEF TypeOK, Ticks, Specials
<1>1. Slots(n)
  BY DEF SlotsTaken
<1>2. \A t \in Ticks : t <= tick[n] => tickData'[n][t] = tickData[n][t]
  BY SlotsFrozen DEF Next
<1>3. handling' = handling
  BY Zenon DEF tickProcessor, iteration, processTick, findTarget, halt, waitForData,
         vote, countTooFew, awaitTarget, completeTick, autoFlush
<1>4. CASE pc'[n] = "loop" /\ tick' = tick
  BY <1>1, <1>2, <1>3, <1>4, Zenon DEF Slots
<1>5. CASE findTarget(n)
  <2>1. /\ UNCHANGED <<tick, tickData>>
        /\ nextTickData'[n] = tickData[n][tick[n] + 1]
        /\ tick[n] < LastTick
    BY <1>5, SMTT(60) DEF findTarget, InLoop, TypeOK
  <2> QED
    BY <1>1, <1>3, <2>1, Zenon DEF Slots
<1>6. CASE halt(n)
  BY <1>1, <1>6 DEF halt, InLoop, Slots
<1>7. CASE vote(n)
  <2>1. /\ tick' = tick /\ target' = target /\ pc[n] = "vote"
        /\ tick[n] < LastTick
    BY <1>7, SMTT(60) DEF vote, InLoop
  <2>2. next \in Ticks
    BY <2>1, SlotType, SMTT(60)
  <2>3. /\ tickData'[n][next] = IF Discards(n) THEN NoData ELSE StoredData(n)
        /\ nextTickData'[n] = IF Discards(n) THEN NoData ELSE CheckedData(n)
    BY <1>0, <1>7, <2>2 DEF vote, TypeOK
  <2>4. ASSUME target[n] \in TickData, nextTickData'[n] = target[n]
        PROVE  tickData'[n][next] = target[n]
    <3>1. ~Discards(n) /\ CheckedData(n) = target[n]
      BY <1>0, <2>3, <2>4
    <3>2. ~LockMismatch(n) /\ target[n] # Empty /\ nextTickData[n] = target[n]
      BY <1>0, <2>4, <3>1, SMTT(60) DEF CheckedData
    <3>3. tickData[n][next] = target[n]
      BY <1>1, <2>1, <2>4, <3>2 DEF Slots
    <3> QED
      BY <2>3, <3>1, <3>2, <3>3, Zenon DEF StoredData
  <2> QED
    BY <1>1, <1>2, <1>3, <2>1, <2>4, Zenon DEF Slots
<1>8. CASE completeTick(n)
  <2>1. /\ tick'[n] = next /\ pc'[n] = "loop" /\ pc[n] = "count" /\ Settled(n)
        /\ tick[n] < LastTick
    BY <1>8 DEF completeTick, InLoop, EndIteration, TypeOK
  <2>2. next \in Ticks
    BY <2>1, SlotType, Zenon
  <2>3. tickData'[n][next] = NextSlot(n)
    BY <1>0, <1>8, <2>2 DEF completeTick, TypeOK
  <2>4. NextSlot(n) # NoData
    <3>1. CASE tryForceEmptyNextTick(n) = Empty
      BY <1>0, <3>1 DEF NextSlot
    <3>2. CASE tryForceEmptyNextTick(n) # Empty
      <4>1. target[n] # Empty /\ target[n] # Unknown /\ nextTickData[n] = target[n]
        BY <2>1, <3>2 DEF Settled, tryForceEmptyNextTick
      <4>2. target[n] \in TickData
        BY <4>1 DEF TypeOK, Digests
      <4>3. tickData[n][next] = target[n]
        BY <1>1, <2>1, <4>1, <4>2, Zenon DEF Slots
      <4> QED
        BY <1>0, <3>2, <4>2, <4>3, Zenon DEF NextSlot
    <3> QED
      BY <3>1, <3>2
  <2>5. \A t \in Ticks : 1 < t /\ t <= next => tickData'[n][t] # NoData
    <3> SUFFICES ASSUME NEW t \in Ticks, 1 < t, t <= next
                 PROVE  tickData'[n][t] # NoData
      OBVIOUS
    <3>1. t <= tick[n] \/ t = next
      BY <1>0, SMTT(60) DEF Ticks
    <3> QED
      BY <1>1, <1>2, <2>3, <2>4, <3>1 DEF Slots
  <2> QED
    BY <1>1, <1>3, <2>1, <2>5, Zenon DEF Slots
<1>9. CASE processTick(n)
  <2>1. /\ UNCHANGED <<tick, tickData>> /\ tick[n] < LastTick
        /\ pc'[n] = "processed"
    BY <1>9, SMTT(60) DEF processTick, InLoop, TypeOK
  <2> QED
    BY <1>1, <1>3, <2>1, SMTT(60) DEF Slots
<1>10. waitForData(n) \/ countTooFew(n) \/ awaitTarget(n)
        \/ autoFlush(n) => pc'[n] = "loop" /\ tick' = tick
  BY DEF waitForData, countTooFew, awaitTarget, autoFlush, EndIteration, InLoop,
         TypeOK
<1> QED
  BY <1>4, <1>5, <1>6, <1>7, <1>8, <1>9, <1>10 DEF tickProcessor, iteration

\* The handlers store into open slots only, and into the next one, once it has
\* a target, only that.
LEMMA SlotsHandlers ==
  ASSUME TypeOK, SlotsTaken, NEW n \in Nodes, requestProcessor(n)
  PROVE  Slots(n)'
<1>0. tick[n] \in Int /\ 1 <= tick[n] /\ NoData \notin TickData
  BY DataAssumption, SMTT(60) DEF TypeOK, Ticks, Specials
<1>1. Slots(n)
  BY DEF SlotsTaken
<1>2. UNCHANGED <<tick, target, nextTickData, pc>>
  BY SMTT(60) DEF requestProcessor, processBroadcastTick, receiveTickData,
         receiveTransactions, storeTickData, procVars
<1>3. CASE UNCHANGED <<tickData, handling>>
  BY <1>1, <1>2, <1>3 DEF Slots
<1>4. ASSUME NEW d \in sentTickData, receiveTickData(n, d) PROVE Slots(n)'
  <2>1. /\ handling'[n] = handling[n] \cup {d} /\ tickData' = tickData
        /\ d.tick > tick[n]
    BY <1>4 DEF receiveTickData, TypeOK
  <2>2. d.tick > 1
    BY <1>0, <2>1 DEF TypeOK, TickData, Ticks
  <2> QED
    BY <1>1, <1>2, <2>1, <2>2, Zenon DEF Slots
<1>5. ASSUME NEW d \in handling[n], storeTickData(n, d) PROVE Slots(n)'
  <2>1. d \in TickData /\ d.tick \in Ticks
    BY DEF TypeOK, TickData
  <2>2. /\ handling'[n] \subseteq handling[n]
        /\ \A t \in Ticks :
             tickData'[n][t] = IF t = d.tick /\ MayStore(n, d) THEN d
                               ELSE tickData[n][t]
    BY <1>5, <2>1 DEF storeTickData, TypeOK
  <2>3. pc[n] # "loop" => tick[n] + 1 \in Ticks
    BY <1>1, SlotType, Zenon DEF Slots
  <2>4. d.tick = tick[n] + 1 /\ MayStore(n, d) /\ target[n] \in TickData
          => d = target[n]
    BY DataAssumption, Zenon DEF MayStore, Specials
  <2> QED
    BY <1>0, <1>1, <1>2, <2>1, <2>2, <2>3, <2>4, Zenon DEF Slots
<1> QED
  BY <1>3, <1>4, <1>5, Zenon
     DEF requestProcessor, processBroadcastTick, receiveTransactions

\* The slots stay taken.
LEMMA SlotsTakenStep ==
  ASSUME TypeOK, SlotsTaken, [Next]_vars
  PROVE  SlotsTaken'
<1>1. ASSUME NEW n \in Nodes, NEW m \in Nodes, m # n,
             tickProcessor(n) \/ requestProcessor(n)
      PROVE  /\ tick'[m] = tick[m] /\ tickData'[m] = tickData[m]
             /\ handling'[m] = handling[m] /\ pc'[m] = pc[m]
             /\ target'[m] = target[m] /\ nextTickData'[m] = nextTickData[m]
  <2>1. CASE tickProcessor(n)
    BY <1>1, <2>1, Zenon
       DEF tickProcessor, iteration, processTick, findTarget, halt, waitForData,
           vote, countTooFew, awaitTarget, completeTick, autoFlush,
           EndIteration, TypeOK
  <2>2. CASE requestProcessor(n)
    <3>1. ASSUME NEW d, storeTickData(n, d)
          PROVE  /\ UNCHANGED procVars /\ handling'[m] = handling[m]
                 /\ tickData'[m] = tickData[m]
      BY <1>1, <3>1 DEF storeTickData, TypeOK
    <3>2. ASSUME NEW d, receiveTickData(n, d)
          PROVE  /\ UNCHANGED <<procVars, tickData>> /\ handling'[m] = handling[m]
      BY <1>1, <3>2 DEF receiveTickData, TypeOK
    <3> QED
      BY <2>2, <3>1, <3>2, Zenon
         DEF requestProcessor, processBroadcastTick, receiveTransactions, procVars
  <2> QED
    BY <1>1, <2>1, <2>2, Zenon
<1>2. ASSUME NEW n \in Nodes, tickProcessor(n) \/ requestProcessor(n)
      PROVE  SlotsTaken'
  <2> SUFFICES ASSUME NEW m \in Nodes PROVE Slots(m)'
    BY DEF SlotsTaken
  <2>1. CASE m = n
    BY <1>2, <2>1, SlotsIteration, SlotsHandlers
  <2>2. CASE m # n
    BY <1>1, <1>2, <2>2, ZenonT(60) DEF SlotsTaken, Slots
  <2> QED
    BY <2>1, <2>2
<1>3. CASE UNCHANGED <<tick, tickData, handling, pc, target, nextTickData>>
  BY <1>3, Zenon DEF SlotsTaken, Slots
<1>4. ASSUME NEW n \in Nodes, environment(n)
      PROVE  UNCHANGED <<tick, tickData, handling, pc, target, nextTickData>>
  BY <1>4, SMTT(60) DEF environment, passTime, resendVotes, reissueCommand,
              setForceNextTick, switchMode, procVars
<1> QED
  BY <1>2, <1>3, <1>4 DEF Next, faultyVote, procVars, vars

\* A node names its TickData, which stays as it is.
LEMMA VotesNameDataStep ==
  ASSUME TypeOK, ProcessedOnce, SlotsTaken, VotesNameData, [Next]_vars
  PROVE  VotesNameData'
<1>0. \A n \in Nodes : tick[n] \in Ticks /\ tick'[n] \in {tick[n], tick[n] + 1}
  <2>1. \A n \in Nodes : tick[n] \in Ticks
    BY DEF TypeOK
  <2>2. CASE UNCHANGED tick
    BY <2>1, <2>2, SMTT(60)
  <2>3. ASSUME NEW n \in Nodes, completeTick(n)
        PROVE  \A m \in Nodes : tick'[m] \in {tick[m], tick[m] + 1}
    BY <2>3 DEF completeTick, TypeOK
  <2> QED
    BY <2>1, <2>2, <2>3, QuietSteps
       DEF Quiet, processTick, vote, processBroadcastTick, faultyVote, procVars
<1> SUFFICES ASSUME NEW v \in sentVotes', v.c \notin Faulty
             PROVE  \E n \in Nodes :
                      /\ v.c \in Own[n]
                      /\ v.tick <= tick'[n]
                      /\ v.td = DigestOf(tickData'[n][v.tick])
  BY Zenon DEF VotesNameData, DigestOf, HasData
<1>1. CASE v \in sentVotes
  <2>1. PICK n \in Nodes : /\ v.c \in Own[n]
                           /\ v.tick <= tick[n]
                           /\ v.td = DigestOf(tickData[n][v.tick])
    BY <1>1 DEF VotesNameData
  <2>2. v.tick \in Ticks
    BY <1>1 DEF TypeOK, Votes
  <2>3. v.tick <= tick'[n]
    BY <1>0, <2>1, <2>2, SMTT(60) DEF Ticks
  <2> QED
    BY <2>1, <2>2, <2>3, SlotsFrozen, SMTT(60)
<1>2. CASE v \notin sentVotes
  <2>1. \A n \in Nodes : ~processTick(n) /\ ~completeTick(n)
    BY <1>2 DEF processTick, completeTick
  <2>2. \A n \in Nodes : \A w \in sentVotes : ~processBroadcastTick(n, w)
    BY <1>2, Zenon DEF processBroadcastTick
  <2>3. \A w \in FaultyVotes : ~faultyVote(w)
    BY <1>2, ComputorsAssumption, SMTT(60) DEF faultyVote
  <2>4. PICK n \in Nodes : vote(n)
    BY <1>2, <2>1, <2>2, <2>3, QuietSteps, SMTT(60) DEF Quiet
  <2>5. /\ v.c \in Own[n] /\ v.tick = tick[n]
        /\ v.td = DigestOf(tickData[n][tick[n]])
    BY <1>2, <2>4 DEF vote, broadcastTickVotes
  <2>6. tick'[n] = tick[n] /\ tick[n] <= tick[n]
    BY <1>0, <2>4 DEF vote, Ticks
  <2>7. tickData'[n][tick[n]] = tickData[n][tick[n]]
    BY <1>0, <2>6, SlotsFrozen
  <2> QED
    BY <2>5, <2>6, <2>7
<1> QED
  BY <1>1, <1>2, SMTT(60)

\* Both facts hold of every reachable state.
LEMMA SlotsInvariant == Spec => [](IInv /\ SlotsTaken /\ VotesNameData)
<1>1. Init => SlotsTaken /\ VotesNameData
  BY DEF Init, SlotsTaken, Slots, VotesNameData, Ticks
<1>2. IInv /\ SlotsTaken /\ VotesNameData /\ [Next]_vars
        => SlotsTaken' /\ VotesNameData'
  BY SlotsTakenStep, VotesNameDataStep DEF IInv
<1> QED
  BY <1>1, <1>2, Induction, PTL DEF Spec

\* Neither the tick processor nor a handler that checked the tick before it
\* advanced changes the TickData of the current tick.
THEOREM CurrentTickDataFrozen == Spec => TickDataFrozen
<1>1. IInv /\ SlotsTaken /\ VotesNameData /\ [Next]_vars
        => [\A n \in Nodes : tick'[n] = tick[n] =>
              tickData'[n][tick[n]] = tickData[n][tick[n]]]_vars
  <2> SUFFICES ASSUME IInv, SlotsTaken, [Next]_vars, NEW n \in Nodes
               PROVE  tickData'[n][tick[n]] = tickData[n][tick[n]]
    OBVIOUS
  <2>1. tick[n] \in Ticks /\ tick[n] <= tick[n]
    BY DEF IInv, TypeOK, Ticks
  <2> QED
    BY <2>1, SlotsFrozen DEF IInv
<1> QED
  BY <1>1, SlotsInvariant, PTL DEF Spec, TickDataFrozen

\* However often votes are sent again, a computor that is not faulty signs one
\* state and one TickData per tick.
THEOREM VotesDoNotContradict == Spec => []OneStatePerTick
<1>1. IInv /\ SlotsTaken /\ VotesNameData => OneStatePerTick
  <2> SUFFICES ASSUME IInv, VotesNameData, NEW v \in sentVotes, NEW w \in sentVotes,
                      v.c = w.c, v.tick = w.tick, v.c \notin Faulty
               PROVE  v.state = w.state /\ v.td = w.td
    BY DEF OneStatePerTick
  <2>1. v.state = w.state
    BY NodesAssumption DEF IInv, VotesTrue
  <2>2. v.td = w.td
    BY NodesAssumption DEF VotesNameData
  <2> QED
    BY <2>1, <2>2
<1> QED
  BY <1>1, SlotsInvariant, PTL

----------------------------------------------------------------------------
(* The transactions of a tick that is executed *)

\* The two facts about a single node.
Complete(n) ==
  /\ latestProcessedTick[n] < tick[n] /\ HasData(tickData[n][tick[n]])
       => tickData[n][tick[n]] \in transactions[n]
  /\ pc[n] = "count" /\ HasData(nextTickData[n])
       => nextTickData[n] \in transactions[n]

\* vote checks the transactions, completeTick relies on them.
LEMMA CompleteIteration ==
  ASSUME TypeOK, ProcessedOnce, SlotsTaken, NEW n \in Nodes, Complete(n),
         tickProcessor(n)
  PROVE  Complete(n)'
<1>0. /\ tick[n] \in Ticks /\ tick[n] \in Int /\ latestProcessedTick[n] \in Int
      /\ tickData[n] \in [Ticks -> TickData \cup {NoData, Invalidated}]
  BY DEF TypeOK, Ticks
<1>1. tickData'[n][tick[n]] = tickData[n][tick[n]]
  <2>1. [Next]_vars
    BY DEF Next
  <2>2. tick[n] <= tick[n]
    BY <1>0, SMTT(60)
  <2> QED
    BY <1>0, <2>1, <2>2, SlotsFrozen, Zenon
<1>2. CASE /\ UNCHANGED <<tick, latestProcessedTick, transactions>>
           /\ pc'[n] # "count"
  BY <1>1, <1>2 DEF Complete, HasData
<1>3. findTarget(n) \/ halt(n) \/ waitForData(n) \/ countTooFew(n)
        \/ awaitTarget(n)
      => /\ UNCHANGED <<tick, latestProcessedTick, transactions>>
         /\ pc'[n] # "count"
  BY Zenon DEF findTarget, halt, waitForData, countTooFew, awaitTarget, EndIteration,
         TypeOK
<1>4. CASE processTick(n)
  <2>1. tick' = tick /\ latestProcessedTick'[n] = tick[n] /\ pc'[n] = "processed"
    BY <1>4, SMTT(60) DEF processTick, TypeOK
  <2>2. ~(latestProcessedTick'[n] < tick'[n])
    BY <1>0, <2>1
  <2> QED
    BY <2>1, <2>2, Zenon DEF Complete
<1>5. CASE autoFlush(n)
  <2>1. /\ UNCHANGED <<tick, latestProcessedTick, pc>>
        /\ pc[n] = "loop" /\ latestProcessedTick[n] = tick[n]
    BY <1>5 DEF autoFlush, InLoop
  <2>2. ~(latestProcessedTick'[n] < tick'[n])
    BY <1>0, <2>1
  <2> QED
    BY <2>1, <2>2, Zenon DEF Complete
<1>6. CASE vote(n)
  <2>1. /\ latestProcessedTick[n] = tick[n]
        /\ UNCHANGED <<tick, latestProcessedTick, transactions>>
        /\ nextTickData'[n] = IF Discards(n) THEN NoData ELSE CheckedData(n)
        /\ MissesTransactions(n) => Discards(n)
    BY <1>6, Zenon DEF vote, InLoop, ProcessedOnce, TypeOK
  <2>2. HasData(nextTickData'[n]) => nextTickData'[n] \in transactions[n]
    BY <2>1, Zenon DEF HasData, MissesTransactions
  <2>3. ~(latestProcessedTick'[n] < tick'[n])
    BY <1>0, <2>1
  <2> QED
    BY <2>1, <2>2, <2>3, Zenon DEF Complete, HasData
<1>7. CASE completeTick(n)
  <2>1. /\ tick'[n] = tick[n] + 1 /\ pc'[n] = "loop" /\ pc[n] = "count"
        /\ tickData'[n][tick[n] + 1] = NextSlot(n)
        /\ transactions' = transactions /\ Settled(n)
        /\ tick[n] < LastTick
    <3>1. tick[n] + 1 \in Ticks
      BY <1>7, SlotType DEF completeTick, InLoop
    <3> QED
      BY <1>0, <1>7, <3>1 DEF completeTick, InLoop, EndIteration, TypeOK
  <2>2. HasData(NextSlot(n)) => NextSlot(n) \in transactions[n]
    <3>1. CASE tryForceEmptyNextTick(n) = Empty
      BY <3>1 DEF NextSlot, HasData
    <3>2. CASE tryForceEmptyNextTick(n) # Empty
      <4>1. target[n] # Empty /\ target[n] # Unknown /\ nextTickData[n] = target[n]
        BY <2>1, <3>2, Zenon DEF Settled, tryForceEmptyNextTick
      <4>2. target[n] \in TickData
        BY <4>1, SMTT(60) DEF TypeOK, Digests
      <4>3. NextSlot(n) = nextTickData[n]
        BY <2>1, <3>2, <4>1, <4>2 DEF SlotsTaken, Slots, NextSlot
      <4> QED
        BY <2>1, <4>3, Zenon DEF Complete
    <3> QED
      BY <3>1, <3>2, Zenon
  <2>3. tickData'[n][tick'[n]] = NextSlot(n) /\ pc'[n] # "count"
    BY <2>1
  <2> QED
    BY <2>1, <2>2, <2>3, Zenon DEF Complete, HasData
<1> QED
  BY <1>2, <1>3, <1>4, <1>5, <1>6, <1>7, SMTT(60) DEF tickProcessor, iteration

\* Nothing else takes a transaction or a local copy away.
LEMMA CompleteElsewhere ==
  ASSUME TypeOK, SlotsTaken, [Next]_vars, NEW n \in Nodes, Complete(n),
         ~tickProcessor(n)
  PROVE  Complete(n)'
<1>0. tick[n] \in Ticks /\ tick[n] <= tick[n]
  BY SMTT(60) DEF TypeOK, Ticks
<1>1. tickData'[n][tick[n]] = tickData[n][tick[n]]
  BY <1>0, SlotsFrozen
<1>2. ASSUME /\ tick'[n] = tick[n]
             /\ latestProcessedTick'[n] = latestProcessedTick[n]
             /\ pc'[n] = pc[n] /\ nextTickData'[n] = nextTickData[n]
             /\ transactions[n] \subseteq transactions'[n]
      PROVE  Complete(n)'
  BY <1>1, <1>2, SMTT(60) DEF Complete, HasData
<1>3. ASSUME NEW m \in Nodes, m # n, tickProcessor(m)
      PROVE  Complete(n)'
  <2>1. /\ tick'[n] = tick[n]
        /\ latestProcessedTick'[n] = latestProcessedTick[n]
        /\ pc'[n] = pc[n] /\ nextTickData'[n] = nextTickData[n]
        /\ transactions'[n] = transactions[n]
    BY <1>3, Zenon DEF tickProcessor, iteration, processTick, findTarget, halt,
         waitForData, vote, countTooFew, awaitTarget, completeTick, autoFlush,
         EndIteration, TypeOK
  <2> QED
    BY <1>2, <2>1
<1>4. ASSUME NEW m \in Nodes, requestProcessor(m) \/ environment(m)
      PROVE  Complete(n)'
  <2>1. UNCHANGED <<tick, latestProcessedTick, pc, nextTickData>>
    BY <1>4, Zenon DEF requestProcessor, processBroadcastTick, receiveTickData,
         receiveTransactions, storeTickData, environment, passTime, resendVotes,
         reissueCommand, setForceNextTick, switchMode, procVars
  <2>2. \/ UNCHANGED transactions
        \/ \E d \in sentTickData : receiveTransactions(m, d)
    BY <1>4, Zenon DEF requestProcessor, processBroadcastTick, receiveTickData,
         storeTickData, environment, passTime, resendVotes, reissueCommand,
         setForceNextTick, switchMode, procVars
  <2>3. transactions[n] \subseteq transactions'[n]
    BY <2>2, SMTT(60) DEF receiveTransactions, TypeOK
  <2> QED
    BY <1>2, <2>1, <2>3, Zenon
<1>5. CASE \E v \in FaultyVotes : faultyVote(v)
  BY <1>2, <1>5, Zenon DEF faultyVote, procVars
<1>6. CASE UNCHANGED vars
  BY <1>2, <1>6, Zenon DEF vars
<1> QED
  BY <1>3, <1>4, <1>5, <1>6 DEF Next

\* processTick never meets a transaction that is not in the tick storage.
THEOREM NoCriticalSituation == Spec => []TransactionsComplete
<1> DEFINE Inv == TransactionsComplete /\ CopyComplete
<1>1. Inv <=> \A n \in Nodes : Complete(n)
  BY Zenon DEF TransactionsComplete, CopyComplete, Complete
<1>2. Init => Inv
  BY DataAssumption DEF Init, TransactionsComplete, CopyComplete, HasData, Ticks
<1>3. IInv /\ SlotsTaken /\ VotesNameData /\ Inv /\ [Next]_vars => Inv'
  <2> SUFFICES ASSUME IInv, SlotsTaken, \A n \in Nodes : Complete(n),
                      [Next]_vars, NEW n \in Nodes
               PROVE  Complete(n)'
    BY <1>1, Zenon DEF TransactionsComplete, CopyComplete, Complete
  <2> QED
    BY CompleteIteration, CompleteElsewhere DEF IInv
<1> QED
  BY <1>2, <1>3, SlotsInvariant, PTL DEF Spec

=============================================================================
