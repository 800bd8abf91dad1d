------------------------------- MODULE Ledger -------------------------------
(***************************************************************************)
(* What the spectrum promises to its users: a balance for every identity.  *)
(* Nothing is said of slots, probing or digests; that the map is rebuilt   *)
(* from time to time shows only in that nothing else happens meanwhile.    *)
(***************************************************************************)
EXTENDS Integers

CONSTANT Keys

VARIABLES balances, rebuilding

Init == balances \in [Keys -> Nat] /\ rebuilding = FALSE

Open == ~rebuilding /\ ~rebuilding'

\* A deposit names its receiver.
Credit ==
  /\ Open
  /\ \E k \in Keys :
       /\ balances'[k] \in Nat /\ balances'[k] >= balances[k]
       /\ balances' = [balances EXCEPT ![k] = balances'[k]]

\* A withdrawal is never larger than the balance it is taken from.
Debit ==
  /\ Open
  /\ \E k \in Keys : \E amount \in 0..balances[k] :
       balances' = [balances EXCEPT ![k] = @ - amount]

\* A rebuilding begins, possibly with the burning of dust: that takes all or
\* nothing of a balance, and nobody loses a balance twice as large as one that
\* is kept.
Burn ==
  /\ ~rebuilding /\ rebuilding'
  /\ balances' = [k \in Keys |-> IF balances'[k] = 0 THEN 0 ELSE balances[k]]
  /\ \A k, other \in Keys :
       balances'[k] = 0 /\ balances'[other] > 0 /\ balances[k] # 0
         => balances[k] < 2 * balances[other]

\* The rebuilding itself changes no balance.
Rebuilt == rebuilding /\ ~rebuilding' /\ UNCHANGED balances

Next == Credit \/ Debit \/ Burn \/ Rebuilt

Spec == Init /\ [][Next]_<<balances, rebuilding>>
=============================================================================
