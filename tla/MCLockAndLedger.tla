-------------------------- MODULE MCLockAndLedger --------------------------
(***************************************************************************)
(* One run for two models that share no state, the lock of a contract      *)
(* state and the spectrum: a behaviour is one of the one or of the other.  *)
(* In the part of the ledger no thread is at the lock, where Fairness asks *)
(* for nothing.                                                            *)
(***************************************************************************)
EXTENDS MCReadWriteLock, Spectrum, TLC

CONSTANTS a, b, c, q

VARIABLE part

----------------------------------------------------------------------------
(* The instance: a and b collide at slot 0, c has the last slot and wraps *)
(* around, and b, moved on by a, is where the contract q belongs.         *)

Home == (a :> 0) @@ (b :> 0) @@ (c :> 3) @@ (q :> 1)

Holding(k, amount) == [key |-> k, balance |-> amount, latestIn |-> 0, latestOut |-> 0]
TwoEntities ==
  {[i \in 0..3 |-> CASE i = 0 -> Holding(a, 4) [] i = 1 -> Holding(b, 2)
                     [] OTHER -> Holding(Zero, 0)]}

----------------------------------------------------------------------------
LockStep == part = "lock" /\ MCNext /\ UNCHANGED <<part, vars>>
LedgerStep == part = "ledger" /\ Next /\ UNCHANGED <<part, mcvars>>

\* The last tick of the instance is over.
Finished ==
  /\ part = "ledger" /\ pc = "digested" /\ tick = LastTick
  /\ UNCHANGED <<part, mcvars, vars>>

StatesInit == MCInit /\ Init /\ part \in {"lock", "ledger"}

StatesSpec ==
  StatesInit /\ [][LockStep \/ LedgerStep \/ Finished]_<<part, mcvars, vars>> /\ Fairness
=============================================================================
