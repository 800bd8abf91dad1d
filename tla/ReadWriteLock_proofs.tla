------------------------ MODULE ReadWriteLock_proofs ------------------------
(***************************************************************************)
(* Mutual exclusion and writer priority of the contract state lock, and    *)
(* its refinement of the abstract lock, for any number of threads.         *)
(***************************************************************************)
EXTENDS MCReadWriteLock, FiniteSetTheorems, TLAPS

\* The three sets the counters count are finite.
LEMMA SetsFinite ==
  /\ IsFiniteSet(Readers)
  /\ IsFiniteSet(Writers)
  /\ IsFiniteSet(WaitingWriters)
BY ThreadsFinite, FS_Subset DEF Readers, Writers, WaitingWriters

\* Every initial state satisfies the inductive invariant.
LEMMA InitIInv == LockInit => LockIInv
<1> SUFFICES ASSUME LockInit PROVE LockIInv
  OBVIOUS
<1>1. Readers = {} /\ Writers = {} /\ WaitingWriters = {}
  BY DEF LockInit, Readers, Writers, WaitingWriters
<1>2. LockTypeOK
  BY DEF LockInit, LockTypeOK, Locations
<1>3. CountersExact
  BY <1>1, FS_EmptySet DEF LockInit, CountersExact
<1> QED
  BY <1>1, <1>2, <1>3 DEF LockInit, LockIInv, MutualExclusion

\* A step that moves thread t between two locations outside the lock and
\* leaves both shared words alone keeps the counters exact.
LEMMA UncountedMove ==
  ASSUME LockIInv, UNCHANGED <<readers, writersWaiting>>,
         NEW t \in Threads, NEW from, NEW to \in Locations, Goto(t, from, to),
         from \notin {"reading", "wTry", "wDec", "writing"},
         to \notin {"reading", "wTry", "wDec", "writing"}
  PROVE  MutualExclusion' /\ CountersExact'
<1>1. Readers' = Readers /\ Writers' = Writers /\ WaitingWriters' = WaitingWriters
  BY DEF LockIInv, LockTypeOK, Goto, Readers, Writers, WaitingWriters
<1> QED
  BY <1>1 DEF LockIInv, MutualExclusion, CountersExact

\* Every step of every thread keeps the inductive invariant.
LEMMA NextIInv == LockIInv /\ [LockNext]_lockVars => LockIInv'
<1> SUFFICES ASSUME LockIInv, [LockNext]_lockVars PROVE LockIInv'
  OBVIOUS
<1> USE DEF LockIInv
<1>0. CASE UNCHANGED lockVars
  BY <1>0 DEF lockVars, LockTypeOK, MutualExclusion, CountersExact, Readers, Writers,
              WaitingWriters
<1>1. ASSUME NEW t \in Threads, NEW b \in BOOLEAN, BeginRead(t, b) PROVE LockIInv'
  BY <1>1, UncountedMove, Zenon DEF BeginRead, Goto, LockTypeOK, Locations
<1>2. ASSUME NEW t \in Threads, BeginWrite(t) PROVE LockIInv'
  BY <1>2, UncountedMove, Zenon DEF BeginWrite, Goto, LockTypeOK, Locations
<1>3. ASSUME NEW t \in Threads, PassWriterCheck(t) PROVE LockIInv'
  BY <1>3, UncountedMove, Zenon DEF PassWriterCheck, Goto, LockTypeOK, Locations
<1>4. ASSUME NEW t \in Threads, RefuseForWaitingWriter(t) PROVE LockIInv'
  BY <1>4, UncountedMove, Zenon DEF RefuseForWaitingWriter, Goto, LockTypeOK, Locations
<1>5. ASSUME NEW t \in Threads, LoadReaders(t) PROVE LockIInv'
  <2>1. MutualExclusion' /\ CountersExact'
    BY <1>5, UncountedMove, Zenon DEF LoadReaders, Goto, LockTypeOK, Locations
  <2> QED
    BY <1>5, <2>1 DEF LoadReaders, Goto, LockTypeOK, Locations
<1>6. ASSUME NEW t \in Threads, CasReaders(t) PROVE LockIInv'
  <2>1. CASE ~CasSucceeds(t)
    BY <1>6, <2>1, UncountedMove DEF CasReaders, Goto, LockTypeOK, Locations
  <2>2. CASE CasSucceeds(t)
    <3>1. /\ readers >= 0 /\ readers' = readers + 1 /\ t \notin Readers
      BY <1>6, <2>2 DEF CasReaders, CasSucceeds, Goto, Readers, LockTypeOK
    <3>2. Writers = {} /\ readers = Cardinality(Readers)
      BY <3>1 DEF CountersExact
    <3>3. /\ Readers' = Readers \cup {t}
          /\ Writers' = Writers
          /\ WaitingWriters' = WaitingWriters
      BY <1>6, <2>2 DEF CasReaders, Goto, Readers, Writers, WaitingWriters, LockTypeOK
    <3>4. Cardinality(Readers') = readers + 1
      BY <3>1, <3>2, <3>3, SetsFinite, FS_AddElement, Zenon
    <3>5. MutualExclusion' /\ CountersExact'
      BY <1>6, <2>2, <3>1, <3>2, <3>3, <3>4
      DEF CasReaders, MutualExclusion, CountersExact
    <3> QED
      BY <1>6, <2>2, <3>5 DEF CasReaders, Goto, LockTypeOK, Locations
  <2> QED
    BY <2>1, <2>2
<1>7. ASSUME NEW t \in Threads, releaseRead(t) PROVE LockIInv'
  <2>1. t \in Readers
    BY <1>7 DEF releaseRead, Goto, Readers
  <2>2. Writers = {} /\ readers = Cardinality(Readers)
    BY <2>1 DEF MutualExclusion, CountersExact
  <2>3. /\ Readers' = Readers \ {t}
        /\ Writers' = Writers
        /\ WaitingWriters' = WaitingWriters
    BY <1>7 DEF releaseRead, Goto, Readers, Writers, WaitingWriters, LockTypeOK
  <2>4. Cardinality(Readers') = readers - 1
    BY <2>1, <2>2, <2>3, SetsFinite, FS_RemoveElement, Zenon
  <2>5. MutualExclusion' /\ CountersExact'
    BY <1>7, <2>2, <2>3, <2>4 DEF releaseRead, MutualExclusion, CountersExact
  <2>6. readers' \in Nat
    <3>1. IsFiniteSet(Readers \ {t})
      BY SetsFinite, FS_RemoveElement
    <3>2. Cardinality(Readers \ {t}) \in Nat
      BY <3>1, FS_CardinalityType
    <3> QED
      BY <1>7, <2>3, <2>4, <3>2 DEF releaseRead
  <2> QED
    BY <1>7, <2>5, <2>6 DEF releaseRead, Goto, LockTypeOK, Locations
<1>8. ASSUME NEW t \in Threads, IncWaiting(t) PROVE LockIInv'
  <2>1. /\ Readers' = Readers
        /\ Writers' = Writers
        /\ WaitingWriters' = WaitingWriters \cup {t}
        /\ t \notin WaitingWriters
    BY <1>8 DEF IncWaiting, Goto, Readers, Writers, WaitingWriters, LockTypeOK
  <2>2. Cardinality(WaitingWriters') = Cardinality(WaitingWriters) + 1
    BY <2>1, SetsFinite, FS_AddElement, Zenon
  <2>3. MutualExclusion' /\ CountersExact'
    BY <1>8, <2>1, <2>2 DEF IncWaiting, MutualExclusion, CountersExact
  <2> QED
    BY <1>8, <2>3 DEF IncWaiting, Goto, LockTypeOK, Locations
<1>9. ASSUME NEW t \in Threads, CasWriter(t) PROVE LockIInv'
  <2>1. Writers = {} /\ Readers = {}
    BY <1>9, SetsFinite, FS_EmptySet DEF CasWriter, CountersExact
  <2>2. /\ Readers' = Readers
        /\ Writers' = {t}
        /\ WaitingWriters' = WaitingWriters
    BY <1>9, <2>1 DEF CasWriter, Goto, Readers, Writers, WaitingWriters, LockTypeOK
  <2>3. MutualExclusion' /\ CountersExact'
    BY <1>9, <2>1, <2>2 DEF CasWriter, MutualExclusion, CountersExact
  <2> QED
    BY <1>9, <2>3 DEF CasWriter, Goto, LockTypeOK, Locations
<1>10. ASSUME NEW t \in Threads, DecWaiting(t) PROVE LockIInv'
  <2>1. /\ Readers' = Readers
        /\ Writers' = Writers
        /\ WaitingWriters' = WaitingWriters \ {t}
        /\ t \in WaitingWriters
    BY <1>10 DEF DecWaiting, Goto, Readers, Writers, WaitingWriters, LockTypeOK
  <2>2. Cardinality(WaitingWriters') = Cardinality(WaitingWriters) - 1
    BY <2>1, SetsFinite, FS_RemoveElement, Zenon
  <2>3. MutualExclusion' /\ CountersExact'
    BY <1>10, <2>1, <2>2 DEF DecWaiting, MutualExclusion, CountersExact
  <2>4. writersWaiting' \in Nat
    BY <1>10, <2>1, <2>2, SetsFinite, FS_RemoveElement, FS_CardinalityType
    DEF DecWaiting, CountersExact
  <2> QED
    BY <1>10, <2>3, <2>4 DEF DecWaiting, Goto, LockTypeOK, Locations
<1>11. ASSUME NEW t \in Threads, tryAcquireWrite(t) PROVE LockIInv'
  <2>1. Writers = {} /\ Readers = {}
    BY <1>11, SetsFinite, FS_EmptySet DEF tryAcquireWrite, CountersExact
  <2>2. /\ Readers' = Readers
        /\ Writers' = {t}
        /\ WaitingWriters' = WaitingWriters
    BY <1>11, <2>1
    DEF tryAcquireWrite, Goto, Readers, Writers, WaitingWriters, LockTypeOK
  <2>3. MutualExclusion' /\ CountersExact'
    BY <1>11, <2>1, <2>2 DEF tryAcquireWrite, MutualExclusion, CountersExact
  <2> QED
    BY <1>11, <2>3 DEF tryAcquireWrite, Goto, LockTypeOK, Locations
<1>12. ASSUME NEW t \in Threads, releaseWrite(t) PROVE LockIInv'
  <2>1. Writers = {t} /\ Readers = {}
    BY <1>12 DEF releaseWrite, Goto, Writers, MutualExclusion
  <2>2. /\ Readers' = Readers
        /\ Writers' = {}
        /\ WaitingWriters' = WaitingWriters
    BY <1>12, <2>1
    DEF releaseWrite, Goto, Readers, Writers, WaitingWriters, LockTypeOK
  <2>3. MutualExclusion' /\ CountersExact'
    BY <1>12, <2>1, <2>2, FS_EmptySet DEF releaseWrite, MutualExclusion, CountersExact
  <2> QED
    BY <1>12, <2>3 DEF releaseWrite, Goto, LockTypeOK, Locations
<1> QED
  BY <1>0, <1>1, <1>2, <1>3, <1>4, <1>5, <1>6, <1>7, <1>8, <1>9, <1>10, <1>11,
     <1>12 DEF LockNext, Progress

\* The inductive invariant holds in every reachable state of the lock.
THEOREM LockInvariant == LockSpec => []LockIInv
BY InitIInv, NextIInv, PTL DEF LockSpec

\* For any number of processors, a contract state is never written while
\* another processor reads or writes it.
THEOREM LockIsExclusive == LockSpec => []MutualExclusion
<1>1. LockIInv => MutualExclusion
  BY DEF LockIInv
<1> QED
  BY <1>1, LockInvariant, PTL

\* For any number of processors, readers and writersWaiting count exactly the
\* threads that hold, or wait for, the lock.
THEOREM LockCountersExact == LockSpec => []CountersExact
<1>1. LockIInv => CountersExact
  BY DEF LockIInv
<1> QED
  BY <1>1, LockInvariant, PTL

\* The readers that passed the test for waiting writers and are not in yet.
Admitted == {t \in Threads : location[t] \in {"rLoad", "rCas"}}

\* Every step of the lock is a step of the abstract lock, or changes nothing
\* there: the invariant turns each test of a shared word into a statement
\* about the threads it counts.
LEMMA StepImplements == LockIInv /\ [LockNext]_lockVars => [Abstract!Next]_(Abstract!lockVars)
<1> SUFFICES ASSUME LockIInv, [LockNext]_lockVars PROVE [Abstract!Next]_(Abstract!lockVars)
  OBVIOUS
<1> USE DEF LockIInv
<1> DEFINE Same == /\ Readers' = Readers
                   /\ Writers' = Writers
                   /\ WaitingWriters' = WaitingWriters
                   /\ Admitted' = Admitted
<1>0. ASSUME Same PROVE UNCHANGED Abstract!lockVars
  BY <1>0 DEF Abstract!lockVars, Admitted
<1>1. CASE UNCHANGED lockVars
  <2>1. Same
    BY <1>1 DEF lockVars, Readers, Writers, WaitingWriters, Admitted
  <2> QED
    BY <2>1, <1>0
<1>2. ASSUME NEW t \in Threads, NEW b \in BOOLEAN, BeginRead(t, b) PROVE Same
  BY <1>2 DEF BeginRead, Goto, LockTypeOK, Readers, Writers, WaitingWriters, Admitted
<1>3. ASSUME NEW t \in Threads, BeginWrite(t) PROVE Same
  BY <1>3 DEF BeginWrite, Goto, LockTypeOK, Readers, Writers, WaitingWriters, Admitted
<1>4. ASSUME NEW t \in Threads, RefuseForWaitingWriter(t) PROVE Same
  BY <1>4 DEF RefuseForWaitingWriter, Goto, LockTypeOK, Readers, Writers,
              WaitingWriters, Admitted
<1>5. ASSUME NEW t \in Threads, PassWriterCheck(t) PROVE Abstract!Admit(t)
  <2>1. WaitingWriters = {}
    BY <1>5, SetsFinite, FS_EmptySet DEF PassWriterCheck, CountersExact
  <2> QED
    BY <1>5, <2>1 DEF PassWriterCheck, Goto, LockTypeOK, Readers, Writers,
                      WaitingWriters, Abstract!Admit
<1>6. ASSUME NEW t \in Threads, LoadReaders(t) PROVE Same \/ Abstract!TurnAway(t)
  <2>1. CASE readers >= 0
    BY <1>6, <2>1 DEF LoadReaders, Goto, LockTypeOK, Readers, Writers,
                      WaitingWriters, Admitted
  <2>2. CASE readers < 0
    <3>1. Writers # {}
      BY <2>2, SetsFinite, FS_CardinalityType DEF CountersExact
    <3> QED
      BY <1>6, <2>2, <3>1 DEF LoadReaders, Goto, LockTypeOK, Readers, Writers,
                              WaitingWriters, Abstract!TurnAway
  <2> QED
    BY <2>1, <2>2 DEF LockTypeOK
<1>7. ASSUME NEW t \in Threads, CasReaders(t) PROVE Same \/ Abstract!EnterRead(t)
  <2>1. CASE ~CasSucceeds(t)
    BY <1>7, <2>1 DEF CasReaders, Goto, LockTypeOK, Readers, Writers,
                      WaitingWriters, Admitted
  <2>2. CASE CasSucceeds(t)
    <3>1. Writers = {}
      BY <1>7, <2>2 DEF CasReaders, CasSucceeds, Goto, CountersExact
    <3> QED
      BY <1>7, <2>2, <3>1 DEF CasReaders, Goto, LockTypeOK, Readers, Writers,
                              WaitingWriters, Abstract!EnterRead
  <2> QED
    BY <2>1, <2>2
<1>8. ASSUME NEW t \in Threads, releaseRead(t) PROVE Abstract!LeaveRead(t)
  BY <1>8 DEF releaseRead, Goto, LockTypeOK, Readers, Writers, WaitingWriters,
              Abstract!LeaveRead
<1>9. ASSUME NEW t \in Threads, IncWaiting(t) PROVE Abstract!Announce(t)
  BY <1>9 DEF IncWaiting, Goto, LockTypeOK, Readers, Writers, WaitingWriters,
              Abstract!Announce
<1>10. ASSUME readers = 0 PROVE Readers = {} /\ Writers = {}
  BY <1>10, SetsFinite, FS_EmptySet DEF CountersExact
<1>11. ASSUME NEW t \in Threads, CasWriter(t) PROVE Abstract!EnterWrite(t)
  BY <1>10, <1>11 DEF CasWriter, Goto, LockTypeOK, Readers, Writers,
                      WaitingWriters, Abstract!EnterWrite
<1>12. ASSUME NEW t \in Threads, tryAcquireWrite(t) PROVE Abstract!EnterWrite(t)
  BY <1>10, <1>12 DEF tryAcquireWrite, Goto, LockTypeOK, Readers, Writers,
                      WaitingWriters, Abstract!EnterWrite
<1>13. ASSUME NEW t \in Threads, DecWaiting(t) PROVE Abstract!Withdraw(t)
  BY <1>13 DEF DecWaiting, Goto, LockTypeOK, Readers, Writers, WaitingWriters,
               Abstract!Withdraw
<1>14. ASSUME NEW t \in Threads, releaseWrite(t) PROVE Abstract!LeaveWrite(t)
  BY <1>14 DEF releaseWrite, Goto, LockTypeOK, Readers, Writers, WaitingWriters,
               MutualExclusion, Abstract!LeaveWrite
<1> HIDE DEF Same
<1> QED
  BY <1>0, <1>1, <1>2, <1>3, <1>4, <1>5, <1>6, <1>7, <1>8, <1>9, <1>11, <1>12,
     <1>13, <1>14 DEF LockNext, Progress, Abstract!Next

\* For any finite number of processors, the lock made of loads and
\* compare-exchanges on two words implements the abstract lock of StateLock.
THEOREM LockImplementsStateLock == LockSpec => ImplementsStateLock
<1>1. LockInit => Abstract!Init
  BY DEF LockInit, Abstract!Init, Readers, Writers, WaitingWriters
<1> QED
  BY <1>1, StepImplements, LockInvariant, PTL
  DEF LockSpec, ImplementsStateLock, Abstract!Spec

\* The words, program counters and locals of the lock keep their types for
\* any finite number of processors: readers is -1 or a count.
THEOREM LockTypeCorrect == LockSpec => []LockTypeOK
<1>1. LockIInv => LockTypeOK
  BY DEF LockIInv
<1> QED
  BY <1>1, LockInvariant, PTL

----------------------------------------------------------------------------
(* Writer priority *)

\* A reader that overtook a waiting writer is not past the test of
\* writersWaiting a second time.
OvertakenInv ==
  /\ overtakes \in [Threads -> [Threads -> {0, 1}]]
  /\ \A w, r \in Threads : Waiting(w) /\ overtakes[w][r] = 1 => location[r] \notin {"rLoad", "rCas"}

\* A thread starts to read only by a compare-exchange, and gets past the test
\* of writersWaiting only while no writer waits.
LEMMA ReadersYield ==
  ASSUME LockIInv, LockNext, NEW r \in Threads
  PROVE  /\ Entered(r) => location[r] = "rCas"
         /\ location'[r] \in {"rLoad", "rCas"} /\ location[r] \notin {"rLoad", "rCas"}
              => \A w \in Threads : ~Waiting(w)
<1> USE DEF LockIInv, LockTypeOK, Goto, Entered
<1>1. PICK t \in Threads : \/ \E b \in BOOLEAN : BeginRead(t, b)
                           \/ BeginWrite(t)
                           \/ tryAcquireWrite(t)
                           \/ Progress(t)
  BY Zenon DEF LockNext
<1>2. CASE PassWriterCheck(t)
  <2>1. \A w \in Threads : ~Waiting(w)
    BY <1>2, SetsFinite, FS_EmptySet DEF PassWriterCheck, CountersExact, WaitingWriters, Waiting
  <2> QED BY <1>2, <2>1 DEF PassWriterCheck
<1>3. CASE (\E b \in BOOLEAN : BeginRead(t, b)) \/ BeginWrite(t) \/ tryAcquireWrite(t)
  BY <1>3 DEF BeginRead, BeginWrite, tryAcquireWrite
<1>4. CASE RefuseForWaitingWriter(t) \/ LoadReaders(t) \/ CasReaders(t) \/ releaseRead(t)
  BY <1>4 DEF RefuseForWaitingWriter, LoadReaders, CasReaders, releaseRead
<1>5. CASE IncWaiting(t) \/ CasWriter(t) \/ DecWaiting(t) \/ releaseWrite(t)
  BY <1>5 DEF IncWaiting, CasWriter, DecWaiting, releaseWrite
<1> QED BY <1>1, <1>2, <1>3, <1>4, <1>5, Zenon DEF Progress

\* Every step keeps the readers that overtook a writer from a second overtaking.
LEMMA OvertakenStep == LockIInv /\ OvertakenInv /\ [MCNext]_mcvars => OvertakenInv'
<1> SUFFICES ASSUME LockIInv, OvertakenInv, [MCNext]_mcvars PROVE OvertakenInv'
  OBVIOUS
<1>1. CASE UNCHANGED mcvars
  BY <1>1 DEF mcvars, lockVars, OvertakenInv, Waiting
<1>2. CASE MCNext
  <2>1. ASSUME NEW w \in Threads, NEW r \in Threads
        PROVE  /\ overtakes'[w][r] \in {0, 1}
               /\ Waiting(w)' /\ overtakes'[w][r] = 1 => location'[r] \notin {"rLoad", "rCas"}
    <3>1. /\ Entered(r) => location[r] = "rCas"
          /\ location'[r] \in {"rLoad", "rCas"} /\ location[r] \notin {"rLoad", "rCas"}
               => ~Waiting(w)
      BY <1>2, ReadersYield DEF MCNext
    <3>2. overtakes'[w][r] = IF ~Waiting(w) THEN 0
                             ELSE IF Entered(r) /\ overtakes[w][r] < MaxCount
                                    THEN overtakes[w][r] + 1
                                    ELSE overtakes[w][r]
      BY <1>2 DEF MCNext
    <3>3. overtakes[w][r] \in {0, 1}
      BY DEF OvertakenInv
    <3> QED BY <3>1, <3>2, <3>3 DEF OvertakenInv, Entered
  <2>2. overtakes' \in [Threads -> [Threads -> {0, 1}]]
    BY <1>2, <2>1 DEF MCNext
  <2> QED BY <2>1, <2>2 DEF OvertakenInv
<1> QED BY <1>1, <1>2

\* For any finite number of processors, a processor that waits in acquireWrite
\* is overtaken at most once by each reader: tryAcquireRead tests
\* writersWaiting before every attempt that starts after the announcement.
THEOREM WritersOvertakenOnce == MCSpec => []BoundedOvertaking
<1>1. MCInit => LockInit /\ OvertakenInv
  BY DEF MCInit, OvertakenInv
<1>2. [MCNext]_mcvars => [LockNext]_lockVars
  BY DEF MCNext, mcvars
<1>3. OvertakenInv => BoundedOvertaking
  <2> SUFFICES ASSUME OvertakenInv, NEW w \in Threads, NEW r \in Threads
               PROVE  overtakes[w][r] <= 1
    BY DEF BoundedOvertaking
  <2>1. overtakes[w][r] \in {0, 1}
    BY DEF OvertakenInv
  <2> QED BY <2>1
<1> QED
  BY <1>1, <1>2, <1>3, InitIInv, NextIInv, OvertakenStep, PTL DEF MCSpec

=============================================================================
