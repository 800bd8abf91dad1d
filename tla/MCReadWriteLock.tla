-------------------------- MODULE MCReadWriteLock --------------------------
(***************************************************************************)
(* ReadWriteLock with a history variable that counts, for every waiting    *)
(* writer, how often each other thread got the read lock ahead of it.      *)
(***************************************************************************)
EXTENDS ReadWriteLock

VARIABLE overtakes   \* overtakes[w][r]: reads r started while w waited

MaxCount == 2        \* the history saturates here; the property needs 1

Waiting(t) == location[t] = "wTry"

mcvars == <<lockVars, overtakes>>

MCInit == LockInit /\ overtakes = [w \in Threads |-> [r \in Threads |-> 0]]

Entered(r) == location[r] # "reading" /\ location'[r] = "reading"

MCNext ==
  /\ LockNext
  /\ overtakes' = [w \in Threads |-> [r \in Threads |->
       IF ~Waiting(w) THEN 0
       ELSE IF Entered(r) /\ overtakes[w][r] < MaxCount
              THEN overtakes[w][r] + 1
              ELSE overtakes[w][r]]]

MCSpec == MCInit /\ [][MCNext]_mcvars /\ Fairness

\* Writer priority of tryAcquireRead: while a writer waits, a thread that was
\* already past the writersWaiting check may still get in, but only once, so a
\* writer is overtaken at most once by each reader.
BoundedOvertaking == \A w, r \in Threads : overtakes[w][r] <= 1

=============================================================================
