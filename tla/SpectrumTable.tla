--------------------------- MODULE SpectrumTable ---------------------------
(***************************************************************************)
(* The hash map of spectrum/spectrum.h as a value: where entries are and   *)
(* what a search finds.  Capacity is SPECTRUM_CAPACITY.                    *)
(***************************************************************************)
EXTENDS Integers, Sequences, FiniteSets, FiniteSetsExt, MerkleTree

CONSTANTS
  Keys,            \* public keys of entities
  Zero,            \* the zero key, which marks an empty slot
  home,            \* the slot that the low bits of a key name
  Saved,           \* spectrum files the node may have started from
  DirtyCapacity,   \* SPECTRUM_DIRTY_CAPACITY
  Computor, Arbitrator, Donee, \* who is paid at the end of an epoch
  Contract,        \* the contract whose shares are sold
  Shares,          \* NUMBER_OF_COMPUTORS
  Categories,      \* entityCategoryCount
  Bidders, Prices, \* who bids, and prices that are bid
  Amounts,         \* amounts that are transferred
  ISSUANCE_RATE, MAX_SUPPLY,
  LastTick, MaxOperations      \* bounds

Entry == [key : Keys \cup {Zero}, balance : Nat, latestIn : Nat, latestOut : Nat]
EmptyEntry == [key |-> Zero, balance |-> 0, latestIn |-> 0, latestOut |-> 0]
EmptyTable == [i \in Slots |-> EmptyEntry]

\* The slot a key is looked for after d steps.
Slot(k, d) == (home[k] + d) % Capacity

\* Every key of a table is found: there is no empty slot, and not the key
\* itself, on the way to it.
Placed(t) ==
  \A i \in Slots : t[i].key # Zero =>
    \E d \in Slots :
      /\ Slot(t[i].key, d) = i
      /\ \A e \in 0..d - 1 : t[Slot(t[i].key, e)].key \notin {t[i].key, Zero}

ASSUME KeysAssumption == Zero \notin Keys
ASSUME SizeAssumption == Capacity \in Nat \ {0} /\ home \in [Keys -> Slots]
ASSUME BiddersAssumption == Contract \in Keys /\ Bidders \subseteq Keys /\ Shares \in Nat \ {0}
ASSUME PaidAssumption == {Computor, Arbitrator, Donee} \subseteq Keys
ASSUME AmountsAssumption ==
  /\ Amounts \subseteq Nat /\ Prices \subseteq Nat \ {0}
  /\ ISSUANCE_RATE \in Nat /\ MAX_SUPPLY \in Nat /\ DirtyCapacity \in Nat
  /\ LastTick \in Nat /\ MaxOperations \in Nat
ASSUME CategoriesAssumption == Categories \in Nat /\ MAX_SUPPLY < 2^Categories
ASSUME SavedAssumption ==
  \A t \in Saved :
    /\ t \in [Slots -> Entry] /\ Placed(t)
    /\ \A i \in Slots : t[i].key = Zero => t[i].balance = 0

----------------------------------------------------------------------------
(* The hash map *)

Stops(t, k, d) ==
  /\ t[Slot(k, d)].key \in {k, Zero}
  /\ \A e \in 0..d - 1 : t[Slot(k, e)].key \notin {k, Zero}

\* The loops at "iteration" end where the key or an empty slot is; they run for
\* ever if there is neither.
Ends(t, k) == \E d \in Slots : Stops(t, k, d)
Probe(t, k) == Slot(k, CHOOSE d \in Slots : Stops(t, k, d))

\* -1 if the key is not in the spectrum.
spectrumIndex(t, k) ==
  LET i == Probe(t, k) IN
  IF k \in Keys /\ Ends(t, k) /\ t[i].key = k THEN i ELSE -1

energy(t, k) ==
  LET i == spectrumIndex(t, k) IN IF i = -1 THEN 0 ELSE t[i].balance

Occupied(t) == {i \in Slots : t[i].key # Zero}
Total(t) == MapThenSumSet(LAMBDA i : t[i].balance, Slots)
InfoOf(t) == [numberOfEntities |-> Cardinality(Occupied(t)), totalAmount |-> Total(t)]

----------------------------------------------------------------------------
(* Dust *)

\* The richest balances, down to a power of two, that would fill half of the map.
Richer(t, c) == Cardinality({i \in Slots : t[i].balance >= 2^c})
Crowded(t) == {c \in 0..Categories - 1 : Richer(t, c) >= Capacity \div 2}

\* updateAndAnalzeEntityCategoryPopulations stops at the highest of them, if there
\* is one: everything up to that category is dust; if that is everything, every
\* second one of the category is kept.
DustCategory(t) == {c \in Crowded(t) : \A e \in Crowded(t) : e <= c}
dustThresholdBurnAll(t, c) == IF Richer(t, c + 1) = 0 THEN 2^c - 1 ELSE 2 * 2^c - 1
dustThresholdBurnHalf(t, c) == IF Richer(t, c + 1) = 0 THEN 2 * 2^c - 1 ELSE 0

Dust(t) ==
  LET all == {i \in Slots : \E c \in DustCategory(t) :
                t[i].balance \in 1..dustThresholdBurnAll(t, c)}
      candidates == {i \in Slots \ all : \E c \in DustCategory(t) :
                       t[i].balance \in 1..dustThresholdBurnHalf(t, c)}
  IN all \cup {i \in candidates : Cardinality({j \in candidates : j <= i}) % 2 = 1}
=============================================================================
