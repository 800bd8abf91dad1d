--------------------------- MODULE ReadWriteLock ---------------------------
(***************************************************************************)
(* The spin lock of src/platform/read_write_lock.h that guards every       *)
(* contract state: many readers or one writer, with priority for waiting   *)
(* writers.  One action is one access to a shared word: the load of        *)
(* writersWaiting, the load of readers, each compare-exchange, increment,  *)
(* decrement and store.  A failed spin iteration that changes nothing is a *)
(* stuttering step.                                                        *)
(***************************************************************************)
EXTENDS Integers, FiniteSets

CONSTANT Threads          \* the processors that share one lock

ASSUME ThreadsFinite == IsFiniteSet(Threads)

VARIABLES
  readers,         \* -1: held for writing, otherwise the number of read locks
  writersWaiting,  \* writers between the increment and the decrement
  location,              \* where each thread is inside the lock's methods
  blocking,        \* TRUE in acquireRead, FALSE in a bare tryAcquireRead
  currentReaders   \* the local of tryAcquireRead

lockVars == <<readers, writersWaiting, location, blocking, currentReaders>>

Locations == {"idle", "rCheck", "rLoad", "rCas", "reading",
              "wInc", "wTry", "wDec", "writing"}

LockTypeOK ==
  /\ readers \in Nat \cup {-1}
  /\ writersWaiting \in Nat
  /\ location \in [Threads -> Locations]
  /\ blocking \in [Threads -> BOOLEAN]
  /\ currentReaders \in [Threads -> Int]

LockInit ==
  /\ readers = 0
  /\ writersWaiting = 0
  /\ location = [t \in Threads |-> "idle"]
  /\ blocking = [t \in Threads |-> FALSE]
  /\ currentReaders = [t \in Threads |-> 0]

Goto(t, from, to) == location[t] = from /\ location' = [location EXCEPT ![t] = to]

----------------------------------------------------------------------------
(* Readers *)

\* acquireRead (b = TRUE) or tryAcquireRead (b = FALSE) is called.
BeginRead(t, b) ==
  /\ Goto(t, "idle", "rCheck")
  /\ blocking' = [blocking EXCEPT ![t] = b]
  /\ UNCHANGED <<readers, writersWaiting, currentReaders>>

\* Mutation of PassWriterCheck: readers do not yield to waiting writers.
PassWriterCheck_NoPriority(t) ==
  /\ Goto(t, "rCheck", "rLoad")
  /\ UNCHANGED <<readers, writersWaiting, blocking, currentReaders>>

\* No writer is waiting: go on to the compare-exchange loop.
PassWriterCheck(t) ==
  /\ writersWaiting = 0
  /\ Goto(t, "rCheck", "rLoad")
  /\ UNCHANGED <<readers, writersWaiting, blocking, currentReaders>>

\* A writer is waiting: tryAcquireRead returns false.  acquireRead spins, so
\* only the bare try leaves the method.
RefuseForWaitingWriter(t) ==
  /\ writersWaiting # 0
  /\ ~blocking[t]
  /\ Goto(t, "rCheck", "idle")
  /\ UNCHANGED <<readers, writersWaiting, blocking, currentReaders>>

\* currentReaders = readers, and the return when a writer holds the lock.
LoadReaders(t) ==
  /\ currentReaders' = [currentReaders EXCEPT ![t] = readers]
  /\ Goto(t, "rLoad", IF readers >= 0 THEN "rCas"
                      ELSE IF blocking[t] THEN "rCheck" ELSE "idle")
  /\ UNCHANGED <<readers, writersWaiting, blocking>>

\* Mutation of CasSucceeds: a plain store instead of the compare-exchange.
CasSucceeds_PlainStore(t) == TRUE

CasSucceeds(t) == readers = currentReaders[t]

\* _InterlockedCompareExchange(&readers, currentReaders + 1, currentReaders)
CasReaders(t) ==
  /\ IF CasSucceeds(t)
       THEN Goto(t, "rCas", "reading") /\ readers' = currentReaders[t] + 1
       ELSE Goto(t, "rCas", "rLoad") /\ UNCHANGED readers
  /\ UNCHANGED <<writersWaiting, blocking, currentReaders>>

releaseRead(t) ==
  /\ Goto(t, "reading", "idle")
  /\ readers' = readers - 1
  /\ UNCHANGED <<writersWaiting, blocking, currentReaders>>

----------------------------------------------------------------------------
(* Writers *)

BeginWrite(t) ==
  /\ Goto(t, "idle", "wInc")
  /\ UNCHANGED <<readers, writersWaiting, blocking, currentReaders>>

IncWaiting(t) ==
  /\ Goto(t, "wInc", "wTry")
  /\ writersWaiting' = writersWaiting + 1
  /\ UNCHANGED <<readers, blocking, currentReaders>>

\* tryAcquireWrite inside acquireWrite's wait loop.
CasWriter(t) ==
  /\ readers = 0
  /\ Goto(t, "wTry", "wDec")
  /\ readers' = -1
  /\ UNCHANGED <<writersWaiting, blocking, currentReaders>>

DecWaiting(t) ==
  /\ Goto(t, "wDec", "writing")
  /\ writersWaiting' = writersWaiting - 1
  /\ UNCHANGED <<readers, blocking, currentReaders>>

\* A bare tryAcquireWrite; its failure changes nothing.
tryAcquireWrite(t) ==
  /\ readers = 0
  /\ Goto(t, "idle", "writing")
  /\ readers' = -1
  /\ UNCHANGED <<writersWaiting, blocking, currentReaders>>

releaseWrite(t) ==
  /\ Goto(t, "writing", "idle")
  /\ readers' = 0
  /\ UNCHANGED <<writersWaiting, blocking, currentReaders>>

----------------------------------------------------------------------------
\* Steps a thread inside a method, or inside its critical section, takes
\* without being asked.
Progress(t) ==
  \/ PassWriterCheck(t)
  \/ RefuseForWaitingWriter(t)
  \/ LoadReaders(t)
  \/ CasReaders(t)
  \/ releaseRead(t)
  \/ IncWaiting(t)
  \/ CasWriter(t)
  \/ DecWaiting(t)
  \/ releaseWrite(t)

LockNext ==
  \E t \in Threads :
    \/ \E b \in BOOLEAN : BeginRead(t, b)
    \/ BeginWrite(t)
    \/ tryAcquireWrite(t)
    \/ Progress(t)

LockSpec == LockInit /\ [][LockNext]_lockVars

\* Every processor keeps running and every critical section ends.
Fairness == \A t \in Threads : WF_lockVars(Progress(t))

----------------------------------------------------------------------------
(* Properties *)

Readers == {t \in Threads : location[t] = "reading"}
Writers == {t \in Threads : location[t] \in {"wDec", "writing"}}
WaitingWriters == {t \in Threads : location[t] \in {"wTry", "wDec"}}

\* Whatever the interleaving of the loads and compare-exchanges, a contract
\* state is never written by two processors at once, nor read by one while
\* another writes it (tryAcquireRead, tryAcquireWrite, the releases).
MutualExclusion ==
  /\ Writers = {} \/ Readers = {}
  /\ \A s, t \in Writers : s = t

\* The shared words never drift from the threads they count, which is what
\* the ASSERTs of every method and getCurrentReaderLockCount rely on.
CountersExact ==
  /\ readers = IF Writers # {} THEN -1 ELSE Cardinality(Readers)
  /\ writersWaiting = Cardinality(WaitingWriters)

\* The inductive invariant: a thread about to compare-exchange read a count,
\* never the writer's mark.
LockIInv ==
  /\ LockTypeOK
  /\ MutualExclusion
  /\ CountersExact
  /\ \A t \in Threads : location[t] = "rCas" => currentReaders[t] >= 0

\* A waiting writer is not starved by readers: once one waits in acquireWrite,
\* some writer gets the lock.
SomeWriterGetsIn ==
  (\E t \in Threads : location[t] = "wTry") ~> (Writers # {})

\* The abstract lock seen through the words and program counters of this one.
Abstract == INSTANCE StateLock WITH
  reading   <- Readers,
  writing   <- Writers,
  announced <- WaitingWriters,
  admitted  <- {t \in Threads : location[t] \in {"rLoad", "rCas"}}

\* The lock of loads and compare-exchanges implements the abstract lock: every
\* access to a shared word is one step of StateLock or changes nothing there,
\* so readers are admitted only while no writer waits, get in only while
\* nobody writes, and a writer only when the lock is free.
ImplementsStateLock == Abstract!Spec

=============================================================================
