---------------------- MODULE TickingFinality_proofs ----------------------
(***************************************************************************)
(* Finality of Ticking: two nodes never complete a tick with different     *)
(* content, whatever at most N - Quorum faulty computors sign.             *)
(***************************************************************************)
EXTENDS Ticking_proofs, FiniteSetTheorems

----------------------------------------------------------------------------
(* Finality *)

\* A step that executes nothing, sends no vote, stores none and advances no
\* tick, and enters the body of the loop only after the tick was processed.
Quiet ==
  /\ UNCHANGED <<tick, latestProcessedTick, done, ticks, sentVotes>>
  /\ \A n \in Nodes : pc'[n] # "loop" =>
       pc[n] # "loop" \/ latestProcessedTick[n] = tick[n]

\* Five actions matter to Finality, all the other ones are quiet.
LEMMA QuietSteps ==
  ASSUME TypeOK, [Next]_vars
  PROVE  \/ Quiet
         \/ \E n \in Nodes : processTick(n) \/ vote(n) \/ completeTick(n)
         \/ \E n \in Nodes : \E v \in sentVotes : processBroadcastTick(n, v)
         \/ \E v \in FaultyVotes : faultyVote(v)
<1>1. CASE UNCHANGED vars
  BY <1>1, Zenon DEF Quiet, vars
<1>2. ASSUME NEW n \in Nodes, findTarget(n) PROVE Quiet
  BY <1>2 DEF Quiet, findTarget, TypeOK
<1>3. ASSUME NEW n \in Nodes,
             halt(n) \/ waitForData(n) \/ countTooFew(n) \/ awaitTarget(n)
      PROVE  Quiet
  BY <1>3 DEF Quiet, halt, waitForData, countTooFew, awaitTarget, EndIteration,
              InLoop, TypeOK
<1>4. ASSUME NEW n \in Nodes, autoFlush(n) PROVE Quiet
  BY <1>4 DEF Quiet, autoFlush
<1>5. ASSUME NEW n \in Nodes, NEW d,
             receiveTickData(n, d) \/ receiveTransactions(n, d)
               \/ storeTickData(n, d)
      PROVE  Quiet
  BY <1>5 DEF Quiet, receiveTickData, receiveTransactions, storeTickData,
              procVars
<1>6. ASSUME NEW n \in Nodes, environment(n) PROVE Quiet
  BY <1>6 DEF Quiet, environment, passTime, resendVotes, reissueCommand,
              setForceNextTick, switchMode, procVars
<1> QED
  BY <1>1, <1>2, <1>3, <1>4, <1>5, <1>6, Zenon
     DEF Next, tickProcessor, iteration, requestProcessor

\* processTick, the loop and system.tick++ take turns.
LEMMA ProcessedOnceStep ==
  ASSUME TypeOK, ProcessedOnce, [Next]_vars
  PROVE  ProcessedOnce'
<1>1. CASE Quiet
  BY <1>1 DEF Quiet, ProcessedOnce
<1>2. ASSUME NEW n \in Nodes, processTick(n) PROVE ProcessedOnce'
  <2>1. tick[n] \in Ticks /\ tick[n] \in Int
    BY DEF TypeOK, Ticks
  <2>2. /\ tick' = tick /\ pc' = [pc EXCEPT ![n] = "processed"]
        /\ latestProcessedTick' = [latestProcessedTick EXCEPT ![n] = tick[n]]
    BY <1>2 DEF processTick, InLoop
  <2>3. tick[n] > latestProcessedTick[n] /\ latestProcessedTick[n] \in Int
    BY <1>2 DEF processTick, TypeOK
  <2>4. \A m \in Nodes : \A t \in Ticks :
          m # n \/ t # tick[n] => done'[m][t] = done[m][t]
    BY <1>2 DEF processTick, Executed, TypeOK, Histories
  <2>5. \A m \in Nodes : m # n => latestProcessedTick'[m] = latestProcessedTick[m]
    BY <2>2 DEF TypeOK
  <2>6. latestProcessedTick'[n] = tick[n]
    BY <2>2 DEF TypeOK
  <2>7. \A m \in Nodes : m # n => pc'[m] = pc[m]
    BY <2>2 DEF TypeOK
  <2> QED
    BY <2>1, <2>2, <2>3, <2>4, <2>5, <2>6, <2>7 DEF ProcessedOnce, Ticks
<1>3. ASSUME NEW n \in Nodes, vote(n) PROVE ProcessedOnce'
  BY <1>3 DEF vote, InLoop, ProcessedOnce, TypeOK
<1>4. ASSUME NEW n \in Nodes, completeTick(n) PROVE ProcessedOnce'
  <2>1. latestProcessedTick[n] = tick[n] /\ tick[n] \in Int
    BY <1>4 DEF completeTick, InLoop, ProcessedOnce, TypeOK, Ticks
  <2>2. /\ UNCHANGED <<latestProcessedTick, done>>
        /\ tick' = [tick EXCEPT ![n] = @ + 1]
        /\ pc' = [pc EXCEPT ![n] = "loop"]
    BY <1>4 DEF completeTick, EndIteration
  <2> QED
    BY <2>1, <2>2 DEF ProcessedOnce, TypeOK
<1>5. ASSUME NEW n \in Nodes, NEW v \in sentVotes, processBroadcastTick(n, v)
      PROVE  ProcessedOnce'
  BY <1>5 DEF processBroadcastTick, procVars, ProcessedOnce
<1>6. ASSUME NEW v \in FaultyVotes, faultyVote(v) PROVE ProcessedOnce'
  BY <1>6 DEF faultyVote, procVars, ProcessedOnce
<1> QED
  BY <1>1, <1>2, <1>3, <1>4, <1>5, <1>6, QuietSteps, SMTT(60)

\* Only processTick executes, and only in a tick not yet processed: what a
\* node did before stays, and so do the votes sent.
LEMMA PastKept ==
  ASSUME TypeOK, ProcessedOnce, [Next]_vars
  PROVE  /\ sentVotes \subseteq sentVotes'
         /\ \A n \in Nodes :
              /\ latestProcessedTick[n] <= latestProcessedTick'[n]
              /\ \A t \in Ticks : t <= latestProcessedTick[n] =>
                   Prefix(done[n], t)' = Prefix(done[n], t)
<1>0. \A n \in Nodes : latestProcessedTick[n] \in Int /\ tick[n] \in Int
  BY DEF TypeOK, Ticks
<1>1. CASE UNCHANGED <<latestProcessedTick, done>> /\ sentVotes \subseteq sentVotes'
  BY <1>0, <1>1 DEF Prefix
<1>2. ASSUME NEW n \in Nodes, processTick(n)
      PROVE  /\ sentVotes \subseteq sentVotes'
             /\ \A m \in Nodes :
                  /\ latestProcessedTick[m] <= latestProcessedTick'[m]
                  /\ \A t \in Ticks : t <= latestProcessedTick[m] =>
                       Prefix(done[m], t)' = Prefix(done[m], t)
  <2>1. tick[n] > latestProcessedTick[n]
    BY <1>2 DEF processTick
  <2>2. \A m \in Nodes : latestProcessedTick[m] <= latestProcessedTick'[m]
    BY <1>0, <1>2, <2>1 DEF processTick, TypeOK
  <2>3. \A m \in Nodes : \A t \in Ticks :
          m # n \/ t # tick[n] => done'[m][t] = done[m][t]
    BY <1>2 DEF processTick, Executed, TypeOK, Histories
  <2>4. ASSUME NEW m \in Nodes, NEW t \in Ticks, t <= latestProcessedTick[m]
        PROVE  Prefix(done[m], t)' = Prefix(done[m], t)
    <3>1. \A u \in Ticks : u <= t => done'[m][u] = done[m][u]
      BY <1>0, <2>1, <2>3, <2>4 DEF Ticks
    <3> QED
      BY <3>1 DEF Prefix
  <2> QED
    BY <1>2, <2>2, <2>4 DEF processTick
<1>3. ASSUME NEW n \in Nodes, vote(n)
      PROVE  UNCHANGED <<latestProcessedTick, done>> /\ sentVotes \subseteq sentVotes'
  BY <1>3 DEF vote, broadcastTickVotes
<1>4. ASSUME NEW n \in Nodes, completeTick(n)
      PROVE  UNCHANGED <<latestProcessedTick, done>> /\ sentVotes \subseteq sentVotes'
  BY <1>4 DEF completeTick
<1>5. ASSUME NEW n \in Nodes, NEW v \in sentVotes, processBroadcastTick(n, v)
      PROVE  UNCHANGED <<latestProcessedTick, done>> /\ sentVotes \subseteq sentVotes'
  BY <1>5 DEF processBroadcastTick, procVars
<1>6. ASSUME NEW v \in FaultyVotes, faultyVote(v)
      PROVE  UNCHANGED <<latestProcessedTick, done>> /\ sentVotes \subseteq sentVotes'
  BY <1>6 DEF faultyVote, procVars
<1>7. CASE Quiet
  BY <1>1, <1>7 DEF Quiet
<1> QED
  BY <1>1, <1>2, <1>3, <1>4, <1>5, <1>6, <1>7, QuietSteps

\* A node signs the state it is in, and does not change it afterwards.
LEMMA VotesTrueStep ==
  ASSUME TypeOK, ProcessedOnce, VotesTrue, [Next]_vars
  PROVE  VotesTrue'
<1>0. \A n \in Nodes :
        /\ latestProcessedTick[n] \in Int /\ tick[n] \in Ticks
        /\ latestProcessedTick'[n] \in Int
  <2>1. TypeOK'
    BY TypeTickProcessor, TypeRequestProcessor, TypeEnvironment, SMTT(60)
       DEF Next, TypeOK, vars
  <2> QED
    BY <2>1, SMTT(60) DEF TypeOK
<1> SUFFICES ASSUME NEW v \in sentVotes', v.c \notin Faulty
             PROVE  \E n \in Nodes :
                      /\ v.c \in Own[n]
                      /\ v.tick <= latestProcessedTick'[n]
                      /\ v.state = Prefix(done[n], v.tick)'
  BY Zenon DEF VotesTrue, Prefix
<1>1. CASE v \in sentVotes
  <2>1. PICK n \in Nodes : /\ v.c \in Own[n]
                           /\ v.tick <= latestProcessedTick[n]
                           /\ v.state = Prefix(done[n], v.tick)
    BY <1>1 DEF VotesTrue
  <2>2. v.tick \in Ticks
    BY <1>1 DEF TypeOK, Votes
  <2>3. v.tick <= latestProcessedTick'[n]
    BY <1>0, <2>1, <2>2, PastKept DEF Ticks
  <2> QED
    BY <2>1, <2>2, <2>3, PastKept
<1>2. CASE v \notin sentVotes
  <2>1. ~Quiet
    BY <1>2 DEF Quiet
  <2>2. \A n \in Nodes : ~processTick(n) /\ ~completeTick(n)
    BY <1>2, SMTT(60) DEF processTick, completeTick
  <2>3. \A n \in Nodes : \A w \in sentVotes : ~processBroadcastTick(n, w)
    BY <1>2, SMTT(60) DEF processBroadcastTick
  <2>4. \A w \in FaultyVotes : ~faultyVote(w)
    BY <1>2, ComputorsAssumption DEF faultyVote
  <2>5. PICK n \in Nodes : vote(n)
    BY <2>1, <2>2, <2>3, <2>4, QuietSteps
  <2>6. /\ v.c \in Own[n]
        /\ v.tick = tick[n]
        /\ v.state = done[n]
    BY <1>2, <2>5 DEF vote, broadcastTickVotes
  <2>7. latestProcessedTick[n] = tick[n] /\ UNCHANGED <<latestProcessedTick, done>>
    BY <2>5 DEF vote, InLoop, ProcessedOnce
  <2>8. done[n] = Prefix(done[n], tick[n])
    <3>1. \A t \in Ticks : ~(t <= tick[n]) => done[n][t] = NotDone
      BY <1>0, <2>7 DEF ProcessedOnce, Ticks
    <3>2. done[n] \in [Ticks -> Values \cup {NotDone}]
      BY DEF TypeOK, Histories
    <3> QED
      BY <3>1, <3>2 DEF Prefix
  <2>9. Prefix(done[n], v.tick)' = Prefix(done[n], v.tick)
    BY <2>7 DEF Prefix
  <2> QED
    BY <1>0, <2>6, <2>7, <2>8, <2>9 DEF Ticks
<1> QED
  BY <1>1, <1>2

\* Only received votes are stored, and a taken slot is not overwritten.
LEMMA StoredVotesRealStep ==
  ASSUME TypeOK, ProcessedOnce, StoredVotesReal, [Next]_vars
  PROVE  StoredVotesReal'
<1>1. CASE UNCHANGED ticks
  BY <1>1, PastKept DEF StoredVotesReal
<1>2. ASSUME NEW n \in Nodes, completeTick(n) PROVE StoredVotesReal'
  <2>1. /\ \A m \in Nodes : ticks'[m] \subseteq ticks[m]
        /\ sentVotes' = sentVotes
    BY <1>2 DEF completeTick, TypeOK
  <2> QED
    BY <2>1 DEF StoredVotesReal
<1>3. ASSUME NEW n \in Nodes, NEW v \in sentVotes, processBroadcastTick(n, v)
      PROVE  StoredVotesReal'
  <2>1. /\ \A m \in Nodes : m # n => ticks'[m] = ticks[m]
        /\ sentVotes' = sentVotes
        /\ ticks'[n] = StoredVotes(n, v)
    BY <1>3 DEF processBroadcastTick, TypeOK
  <2>2. /\ StoredVotes(n, v) \subseteq sentVotes
        /\ \A x, y \in StoredVotes(n, v) :
             x.c = y.c /\ x.tick = y.tick => x = y
    BY SMTT(60) DEF StoredVotes, StoredVotesReal
  <2> QED
    BY <2>1, <2>2 DEF StoredVotesReal
<1> QED
  BY <1>1, <1>2, <1>3, QuietSteps
     DEF Quiet, processTick, vote, faultyVote

\* Every vote that updateVotesCount counts is the vote of another computor.
LEMMA CountedVotesSigned ==
  ASSUME TypeOK, ProcessedOnce, StoredVotesReal, NEW n \in Nodes,
         pc[n] # "loop"
  PROVE  /\ updateVotesCount(n) \in Nat
         /\ updateVotesCount(n) <= Cardinality(Signers(done[n], tick[n]))
<1> DEFINE V == {v \in VotesAt(n, tick[n]) :
                   v.state = done[n] /\ v.td = DigestOf(tickData[n][tick[n]])}
           S == Signers(done[n], tick[n])
           f == [v \in V |-> v.c]
<1>1. done[n] = Prefix(done[n], tick[n])
  <2>1. \A t \in Ticks : ~(t <= tick[n]) => done[n][t] = NotDone
    BY DEF ProcessedOnce, Ticks, TypeOK
  <2>2. done[n] \in [Ticks -> Values \cup {NotDone}]
    BY DEF TypeOK, Histories
  <2> QED
    BY <2>1, <2>2 DEF Prefix
<1>2. \A v \in V : v \in sentVotes /\ v.c \in Computors /\ v.tick = tick[n]
                   /\ v.state = done[n] /\ v \in ticks[n]
  BY SMTT(60) DEF VotesAt, StoredVotesReal, TypeOK, Votes
<1>3. \A v \in V : v.c \in S
  BY <1>1, <1>2, SMTT(60) DEF Signers
<1>4. \A v, w \in V : v.c = w.c => v = w
  BY <1>2 DEF StoredVotesReal
<1>5. f \in Injection(V, S)
  <2> HIDE DEF V, S
  <2> QED
    BY <1>3, <1>4 DEF Injection, IsInjective
<1>6. IsFiniteSet(S)
  <2>1. S \in SUBSET Computors
    BY DEF Signers
  <2> HIDE DEF S
  <2> QED
    BY <2>1, FS_Subset, ComputorsAssumption
<1>7. Cardinality(V) <= Cardinality(S) /\ Cardinality(V) \in Nat
  <2> HIDE DEF V, S, f
  <2> QED
    BY <1>5, <1>6, FS_Injection, FS_CardinalityType, SMTT(60)
<1> QED
  BY <1>7 DEF updateVotesCount

\* A tick is completed by a quorum of signatures, which are not taken back.
LEMMA CompletedByQuorumStep ==
  ASSUME TypeOK, ProcessedOnce, StoredVotesReal, CompletedByQuorum, [Next]_vars
  PROVE  CompletedByQuorum'
<1>0. \A n \in Nodes : latestProcessedTick[n] \in Int /\ tick[n] \in Ticks
                       /\ tick[n] \in Int
  BY DEF TypeOK, Ticks
<1>1. ASSUME NEW n \in Nodes, NEW t \in Ticks, t <= latestProcessedTick[n],
             Cardinality(Signers(done[n], t)) >= Quorum
      PROVE  Cardinality(Signers(done[n], t)') >= Quorum
  <2> DEFINE S == Signers(done[n], t)
             T == Signers(done[n], t)'
  <2>1. S \in SUBSET T
    BY <1>1, PastKept DEF Signers
  <2>2. T \in SUBSET Computors /\ S \in SUBSET Computors
    BY DEF Signers
  <2>3. Cardinality(S) >= Quorum
    BY <1>1
  <2> HIDE DEF S, T
  <2>4. IsFiniteSet(T) /\ IsFiniteSet(S)
    BY <2>2, FS_Subset, ComputorsAssumption
  <2>5. Cardinality(S) <= Cardinality(T)
    BY <2>1, <2>4, FS_Subset
  <2>6. Cardinality(S) \in Nat /\ Cardinality(T) \in Nat
    BY <2>4, FS_CardinalityType
  <2>7. Cardinality(T) >= Quorum
    BY <2>3, <2>5, <2>6, ComputorsAssumption
  <2> QED
    BY <2>7, SMTT(60) DEF T
<1>2. \A n \in Nodes : \A t \in Ticks : t < tick[n] => t <= latestProcessedTick[n]
  BY <1>0 DEF ProcessedOnce, Ticks
<1>3. CASE UNCHANGED tick
  <2> SUFFICES ASSUME NEW n \in Nodes, NEW t \in Ticks, t < tick[n]
               PROVE  Cardinality(Signers(done[n], t)') >= Quorum
    BY <1>3, Zenon DEF CompletedByQuorum, Signers, Prefix
  <2> QED
    BY <1>1, <1>2 DEF CompletedByQuorum
<1>4. ASSUME NEW n \in Nodes, completeTick(n) PROVE CompletedByQuorum'
  <2>1. /\ pc[n] # "loop" /\ updateVotesCount(n) >= Quorum
        /\ tick' = [tick EXCEPT ![n] = @ + 1]
    BY <1>4 DEF completeTick, InLoop
  <2>2. latestProcessedTick[n] = tick[n]
    BY <2>1 DEF ProcessedOnce
  <2>3. Cardinality(Signers(done[n], tick[n])) >= Quorum
    <3> DEFINE S == Signers(done[n], tick[n])
    <3>1. updateVotesCount(n) <= Cardinality(S)
      BY <2>1, CountedVotesSigned
    <3>2. S \in SUBSET Computors
      BY DEF Signers
    <3> HIDE DEF S
    <3>3. Cardinality(S) \in Nat
      BY <3>2, FS_Subset, FS_CardinalityType, ComputorsAssumption, SMTT(60)
    <3>4. updateVotesCount(n) \in Int
      BY <2>1, CountedVotesSigned
    <3>5. Cardinality(S) >= Quorum
      BY <2>1, <3>1, <3>3, <3>4, ComputorsAssumption, SMTT(60)
    <3> QED
      BY <3>5 DEF S
  <2> SUFFICES ASSUME NEW m \in Nodes, NEW t \in Ticks, t < tick'[m]
               PROVE  Cardinality(Signers(done[m], t)') >= Quorum
    BY SMTT(60) DEF CompletedByQuorum, Signers, Prefix
  <2>4. CASE t < tick[m]
    BY <1>1, <1>2, <2>4, SMTT(60) DEF CompletedByQuorum
  <2>5. CASE ~(t < tick[m])
    <3>1. m = n /\ t = tick[n]
      BY <1>0, <2>1, <2>5 DEF TypeOK, Ticks
    <3> QED
      BY <1>0, <1>1, <2>2, <2>3, <3>1, SMTT(60)
  <2> QED
    BY <2>4, <2>5
<1> QED
  BY <1>3, <1>4, QuietSteps
     DEF Quiet, processTick, vote, processBroadcastTick, faultyVote, procVars

\* The conjunction is inductive.
LEMMA Induction == Spec => []IInv
<1>1. Init => IInv
  <2> SUFFICES ASSUME Init PROVE IInv
    OBVIOUS
  <2>1. TypeOK
    BY InitTypeOK
  <2>2. ProcessedOnce
    BY SMTT(60) DEF Init, ProcessedOnce, Ticks
  <2>3. VotesTrue /\ StoredVotesReal
    BY DEF Init, VotesTrue, StoredVotesReal
  <2>4. CompletedByQuorum
    BY DEF Init, CompletedByQuorum, Ticks
  <2> QED
    BY <2>1, <2>2, <2>3, <2>4 DEF IInv
<1>2. IInv /\ [Next]_vars => IInv'
  <2> SUFFICES ASSUME IInv, [Next]_vars PROVE IInv'
    OBVIOUS
  <2> USE DEF IInv
  <2>1. TypeOK'
    BY TypeTickProcessor, TypeRequestProcessor, TypeEnvironment, Zenon
       DEF Next, TypeOK, vars
  <2> QED
    BY <2>1, ProcessedOnceStep, VotesTrueStep, StoredVotesRealStep,
       CompletedByQuorumStep
<1> QED
  BY <1>1, <1>2, PTL DEF Spec

\* Two quorums have a computor in common that is not faulty.
LEMMA QuorumsMeet ==
  ASSUME NEW S \in SUBSET Computors, NEW T \in SUBSET Computors,
         Cardinality(S) >= Quorum, Cardinality(T) >= Quorum
  PROVE  \E c \in S \cap T : c \notin Faulty
<1>1. IsFiniteSet(S) /\ IsFiniteSet(T) /\ IsFiniteSet(Faulty)
      /\ IsFiniteSet(S \cup T) /\ IsFiniteSet(S \cap T)
  <2>1. S \cup T \in SUBSET Computors /\ S \cap T \in SUBSET Computors
    OBVIOUS
  <2> QED
    BY <2>1, FS_Subset, ComputorsAssumption
<1>2. Cardinality(S \cup T) = Cardinality(S) + Cardinality(T) - Cardinality(S \cap T)
  BY <1>1, FS_Union
<1>3. Cardinality(S \cup T) <= N
  <2>1. S \cup T \in SUBSET Computors
    OBVIOUS
  <2> QED
    BY <2>1, FS_Subset, ComputorsAssumption DEF N
<1>4. /\ Cardinality(S) \in Nat /\ Cardinality(T) \in Nat /\ N \in Nat
      /\ Cardinality(S \cap T) \in Nat /\ Cardinality(Faulty) \in Nat
      /\ Cardinality(S \cup T) \in Nat
  BY <1>1, FS_CardinalityType, ComputorsAssumption DEF N
<1>5. Cardinality(S \cap T) > Cardinality(Faulty)
  BY <1>2, <1>3, <1>4, ComputorsAssumption
<1>6. ~(S \cap T \subseteq Faulty)
  <2> SUFFICES ASSUME S \cap T \in SUBSET Faulty PROVE FALSE
    OBVIOUS
  <2>1. Cardinality(S \cap T) <= Cardinality(Faulty)
    BY <1>1, FS_Subset
  <2> QED
    BY <1>4, <1>5, <2>1
<1> QED
  BY <1>6

\* Nodes that completed the same tick executed the same in it and before it:
\* a common correct signer belongs to one node, whose state both have.
THEOREM TicksAreFinal == Spec => []Finality
<1>1. IInv => Finality
  <2> SUFFICES ASSUME IInv, NEW m \in Nodes, NEW n \in Nodes, NEW t \in Ticks,
                      t < tick[m], t < tick[n]
               PROVE  Prefix(done[m], t) = Prefix(done[n], t)
    BY DEF Finality
  <2> DEFINE S == Signers(done[m], t)
             T == Signers(done[n], t)
  <2>1. S \in SUBSET Computors /\ T \in SUBSET Computors
    BY DEF Signers
  <2>2. Cardinality(S) >= Quorum /\ Cardinality(T) >= Quorum
    BY DEF IInv, CompletedByQuorum
  <2>3. PICK c \in S \cap T : c \notin Faulty
    <3> HIDE DEF S, T
    <3> QED
      BY <2>1, <2>2, QuorumsMeet
  <2>4. PICK v \in sentVotes : v.c = c /\ v.tick = t /\ v.state = Prefix(done[m], t)
    BY <2>3 DEF Signers
  <2>5. PICK w \in sentVotes : w.c = c /\ w.tick = t /\ w.state = Prefix(done[n], t)
    BY <2>3 DEF Signers
  <2>6. PICK p \in Nodes : c \in Own[p] /\ v.state = Prefix(done[p], t)
    BY <2>3, <2>4, SMTT(60) DEF IInv, VotesTrue
  <2>7. PICK q \in Nodes : c \in Own[q] /\ w.state = Prefix(done[q], t)
    BY <2>3, <2>5, SMTT(60) DEF IInv, VotesTrue
  <2>8. p = q
    BY <2>6, <2>7, NodesAssumption
  <2> QED
    BY <2>4, <2>5, <2>6, <2>7, <2>8, SMTT(60)
<1> QED
  BY <1>1, Induction, PTL

=============================================================================
