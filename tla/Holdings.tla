------------------------------ MODULE Holdings ------------------------------
(***************************************************************************)
(* What the universe promises: how many shares of an asset an identity     *)
(* holds under the management of a contract.  Nothing is said of records,  *)
(* lists or digests.  The actions relate the holdings before and after.    *)
(***************************************************************************)
EXTENDS Integers

CONSTANTS Assets, Identities, Zero, Contracts, Escrow

Accounts == Assets \X Identities \X Contracts
Of(asset) == {x \in Accounts : x[1] = asset}

VARIABLE holdings

Init == holdings \in [Accounts -> Nat]

\* An asset that nobody holds is issued.
Issue(before, after) ==
  /\ after \in [Accounts -> Nat]
  /\ \E asset \in Assets :
       /\ \A x \in Of(asset) : before[x] = 0
       /\ \A x \in Accounts \ Of(asset) : after[x] = before[x]

\* Shares go to another identity or under another management.
Move(before, after) ==
  \E x, y \in Accounts :
    /\ x[1] = y[1] /\ (x[2] = y[2] \/ x[3] = y[3])
    /\ \E n \in 1..before[x] : after = [before EXCEPT ![x] = @ - n, ![y] = @ + n]

\* Shares are burned, but not those of contracts.
Burn(before, after) ==
  \E x \in Accounts :
    /\ x[1].issuer # Zero
    /\ \E n \in 1..before[x] : after = [before EXCEPT ![x] = @ - n]

\* Everything an identity holds goes to the escrow.
Seize(before, after) ==
  \E frozen \in Identities \ {Escrow} :
    after = [x \in Accounts |->
      CASE x[2] = frozen -> 0
        [] x[2] = Escrow -> before[x] + before[<<x[1], frozen, x[3]>>]
        [] OTHER -> before[x]]

Next ==
  \E before \in {holdings}, after \in {holdings'} :
    /\ before # after
    /\ \/ Issue(before, after) \/ Move(before, after)
       \/ Burn(before, after) \/ Seize(before, after)

Spec == Init /\ [][Next]_holdings
=============================================================================
