---------------------------- MODULE MCContracts ----------------------------
(***************************************************************************)
(* One run for two models that share no state: contract execution with     *)
(* three contracts, and the universe that contracts work on.  A behaviour  *)
(* is one of the one or of the other.  In the part of the universe every   *)
(* processor is idle, where Fairness asks for nothing.                     *)
(***************************************************************************)
EXTENDS ContractExec, TLC

CONSTANTS alice, bob, carol, Zero

VARIABLES
  part,
  assets, indexLists, assetChangeFlags, leaves, nodes, pending, operations,
  possessed   \* what numberOfPossessedShares finds, kept so that TLC computes it once a step

universeVars == <<assets, indexLists, assetChangeFlags, leaves, nodes, pending, operations,
                  possessed>>

MCHolders == {<<3>>, <<1, 2>>}

\* A request processor only runs functions, which read: one call inside another
\* holds two locks at a time.
MCMaxCalls == [x \in Actors |-> IF x = Processor THEN 3 ELSE 1]

----------------------------------------------------------------------------
(* The instance of the universe: alice has the last slot, all others share *)
(* the first, and bob and carol have the same low bits.                    *)

Home == (Zero :> 0) @@ (alice :> 7) @@ (bob :> 0) @@ (carol :> 0)
LowBits == (Zero :> 0) @@ (alice :> 1) @@ (bob :> 2) @@ (carol :> 2)

U == INSTANCE Universe WITH
  Keys <- {alice, bob, carol}, home <- Home, low192 <- LowBits, Capacity <- 8,
  Names <- {"x"}, Contracts <- {1, 2}, QX <- 1, Issued <- {2}, Amounts <- {1},
  Winners <- {<<alice, bob>>}, Frozen <- {bob}, Escrow <- carol, MaxOperations <- 3

ASSUME UniverseWellFormed == U!UniverseAssumption

----------------------------------------------------------------------------
ContractStep == part = "contracts" /\ Next /\ UNCHANGED <<part, universeVars>>

UniverseStep ==
  /\ part = "universe"
  /\ U!Next /\ possessed' = U!Possessed(assets')
  /\ UNCHANGED <<part, vars>>

MCInit ==
  /\ Init /\ U!Init /\ possessed = U!Possessed(assets)
  /\ part \in {"contracts", "universe"}
  /\ part = "universe" => contractError = {}

MCSpec == MCInit /\ [][ContractStep \/ UniverseStep]_<<part, vars, universeVars>> /\ Fairness

----------------------------------------------------------------------------
\* Iterating over lists and searching the map give the same answers: the lists
\* that addIssuance, addOwnership, addPossession and rebuild keep connect all
\* records and only those; no two records say the same, which acquireShares and
\* releaseShares assert; and the shares of an ownership are those of its
\* possessions, under the same manager.
RecordsAgree == part = "universe" => U!RecordsAgree

\* When no entry is marked, getUniverseDigest has covered the universe as it is:
\* no operation forgets to mark what it changes, and the reorganisation at the
\* end of an epoch marks everything.
UniverseDigestExact == part = "universe" => U!DigestExact

\* What numberOfPossessedShares finds changes only as Holdings allows: shares
\* are neither lost nor invented by collisions, by shares moved while a transfer
\* of management rights waits for callbacks, or by the reorganisation.
Promised == INSTANCE Holdings WITH
  Assets <- U!Assets, Identities <- {Zero, alice, bob, carol}, Contracts <- {1, 2}, Escrow <- carol,
  holdings <- possessed
ImplementsHoldings == Promised!Spec
=============================================================================
