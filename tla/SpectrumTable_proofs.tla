------------------------ MODULE SpectrumTable_proofs ------------------------
(***************************************************************************)
(* What searches find in a table of the spectrum, for every capacity and   *)
(* every hash of keys to slots, and what deposits, withdrawals, the        *)
(* burning of dust and insertions make of it.                              *)
(***************************************************************************)
EXTENDS SpectrumTable, TLAPS

\* A table of entries in which nothing is held by an empty slot.
Table(t) ==
  /\ t \in [Slots -> Entry]
  /\ \A i \in Slots : t[i].key = Zero => t[i].balance = 0

----------------------------------------------------------------------------
(* Lookups *)

\* Probing stays inside the table.
LEMMA SlotInTable ==
  ASSUME NEW k \in Keys, NEW d \in Nat
  PROVE  Slot(k, d) \in Slots
BY SizeAssumption DEF Slot, Slots

\* In a table where every key is placed, a key has one entry.
LEMMA OneEntry ==
  ASSUME NEW t, Table(t), Placed(t),
         NEW i \in Slots, NEW j \in Slots,
         t[i].key # Zero, t[i].key = t[j].key
  PROVE  i = j
<1>1. PICK d \in Slots : /\ Slot(t[i].key, d) = i
                         /\ \A e \in 0..d - 1 : t[Slot(t[i].key, e)].key \notin {t[i].key, Zero}
  BY DEF Placed
<1>2. PICK f \in Slots : /\ Slot(t[i].key, f) = j
                         /\ \A e \in 0..f - 1 : t[Slot(t[i].key, e)].key \notin {t[i].key, Zero}
  BY DEF Placed
<1>3. ~(d < f)
  <2>1. SUFFICES ASSUME d < f PROVE FALSE
    OBVIOUS
  <2>2. d \in 0..f - 1
    BY <2>1, SizeAssumption DEF Slots
  <2> QED BY <1>1, <1>2, <2>2
<1>4. ~(f < d)
  <2>1. SUFFICES ASSUME f < d PROVE FALSE
    OBVIOUS
  <2>2. f \in 0..d - 1
    BY <2>1, SizeAssumption DEF Slots
  <2> QED BY <1>1, <1>2, <2>2
<1>5. d = f
  BY <1>3, <1>4, SizeAssumption DEF Slots
<1> QED BY <1>1, <1>2, <1>5

\* A search ends at one place only.
LEMMA StopsOnce ==
  ASSUME NEW t, NEW k \in Keys, NEW d \in Slots, NEW f \in Slots,
         Stops(t, k, d), Stops(t, k, f)
  PROVE  d = f
<1>1. ~(d < f)
  <2>1. SUFFICES ASSUME d < f PROVE FALSE
    OBVIOUS
  <2>2. d \in 0..f - 1
    BY <2>1, SizeAssumption DEF Slots
  <2> QED BY <2>2 DEF Stops
<1>2. ~(f < d)
  <2>1. SUFFICES ASSUME f < d PROVE FALSE
    OBVIOUS
  <2>2. f \in 0..d - 1
    BY <2>1, SizeAssumption DEF Slots
  <2> QED BY <2>2 DEF Stops
<1> QED BY <1>1, <1>2, SizeAssumption DEF Slots

\* spectrumIndex finds every entry.
LEMMA Found ==
  ASSUME NEW t, Table(t), Placed(t), NEW i \in Slots, t[i].key # Zero
  PROVE  spectrumIndex(t, t[i].key) = i /\ Ends(t, t[i].key) /\ Probe(t, t[i].key) = i
<1> DEFINE k == t[i].key
<1>1. k \in Keys
  BY DEF Table, Entry
<1>2. PICK d \in Slots : /\ Slot(k, d) = i
                         /\ \A e \in 0..d - 1 : t[Slot(k, e)].key \notin {k, Zero}
  BY DEF Placed
<1>3. Stops(t, k, d)
  BY <1>2 DEF Stops
<1>4. Ends(t, k)
  BY <1>3 DEF Ends
<1>5. (CHOOSE f \in Slots : Stops(t, k, f)) = d
  BY <1>1, <1>3, StopsOnce
<1>6. Probe(t, k) = i
  BY <1>2, <1>5 DEF Probe
<1> QED BY <1>1, <1>4, <1>6 DEF spectrumIndex

\* The balance that lookups see.
LEMMA EnergyOfEntry ==
  ASSUME NEW t, Table(t), Placed(t), NEW i \in Slots, t[i].key # Zero
  PROVE  energy(t, t[i].key) = t[i].balance
<1>1. spectrumIndex(t, t[i].key) = i
  BY Found
<1>2. i # -1
  BY SizeAssumption DEF Slots
<1> QED BY <1>1, <1>2 DEF energy

\* An identity without an entry has no balance.
LEMMA EnergyOfStranger ==
  ASSUME NEW t, NEW k \in Keys, \A i \in Slots : t[i].key # k
  PROVE  energy(t, k) = 0
<1>1. ASSUME Ends(t, k)
      PROVE  t[Probe(t, k)].key # k
  <2>1. (CHOOSE d \in Slots : Stops(t, k, d)) \in Slots
    BY <1>1 DEF Ends
  <2>2. Probe(t, k) \in Slots
    BY <2>1, SlotInTable, SizeAssumption DEF Probe, Slots
  <2> QED BY <2>2
<1> QED BY <1>1 DEF energy, spectrumIndex

\* A balance is a natural number.
LEMMA EnergyType ==
  ASSUME NEW t, Table(t), Placed(t), NEW k \in Keys
  PROVE  energy(t, k) \in Nat
<1>1. CASE \A i \in Slots : t[i].key # k
  BY <1>1, EnergyOfStranger
<1>2. CASE \E i \in Slots : t[i].key = k
  <2>1. PICK i \in Slots : t[i].key = k
    BY <1>2
  <2>2. energy(t, k) = t[i].balance
    BY <2>1, EnergyOfEntry, KeysAssumption
  <2> QED BY <2>2 DEF Table, Entry
<1> QED BY <1>1, <1>2

----------------------------------------------------------------------------
(* Changes of a table *)

\* Changing entries but not keys leaves every key where it is found.
LEMMA SameKeys ==
  ASSUME NEW t, NEW u, Table(t), Placed(t),
         \A i \in Slots : u[i].key = t[i].key
  PROVE  Placed(u)
<1> SUFFICES ASSUME NEW i \in Slots, u[i].key # Zero
             PROVE  \E d \in Slots :
                      /\ Slot(u[i].key, d) = i
                      /\ \A e \in 0..d - 1 : u[Slot(u[i].key, e)].key \notin {u[i].key, Zero}
  BY DEF Placed
<1>1. t[i].key \in Keys
  BY DEF Table, Entry
<1>2. PICK d \in Slots : /\ Slot(t[i].key, d) = i
                         /\ \A e \in 0..d - 1 : t[Slot(t[i].key, e)].key \notin {t[i].key, Zero}
  BY DEF Placed
<1>3. \A e \in 0..d - 1 : Slot(t[i].key, e) \in Slots
  BY <1>1, SlotInTable, SizeAssumption DEF Slots
<1> QED BY <1>2, <1>3

\* A new entry at the first empty slot on its way is found, and hides no other.
LEMMA NewEntry ==
  ASSUME NEW t, NEW u, Table(t), Placed(t), NEW k \in Keys, NEW d \in Slots,
         t[Slot(k, d)].key = Zero,
         \A e \in 0..d - 1 : t[Slot(k, e)].key \notin {k, Zero},
         u[Slot(k, d)].key = k,
         \A i \in Slots \ {Slot(k, d)} : u[i] = t[i]
  PROVE  Placed(u)
<1> DEFINE n == Slot(k, d)
<1>1. n \in Slots
  BY SlotInTable, SizeAssumption DEF Slots
<1>2. ASSUME NEW i \in Slots, u[i].key # Zero
      PROVE  \E c \in Slots :
               /\ Slot(u[i].key, c) = i
               /\ \A e \in 0..c - 1 : u[Slot(u[i].key, e)].key \notin {u[i].key, Zero}
  <2>1. CASE i = n
    <3>1. \A e \in 0..d - 1 : Slot(k, e) \in Slots
      BY SlotInTable, SizeAssumption DEF Slots
    <3>2. \A e \in 0..d - 1 : Slot(k, e) # n
      OBVIOUS
    <3>3. \A e \in 0..d - 1 : u[Slot(k, e)].key \notin {k, Zero}
      BY <3>1, <3>2
    <3> QED BY <2>1, <3>3
  <2>2. CASE i # n
    <3>1. u[i] = t[i] /\ t[i].key \in Keys
      BY <1>2, <2>2 DEF Table, Entry
    <3>2. PICK c \in Slots :
            /\ Slot(t[i].key, c) = i
            /\ \A e \in 0..c - 1 : t[Slot(t[i].key, e)].key \notin {t[i].key, Zero}
      BY <1>2, <3>1 DEF Placed
    <3>3. \A e \in 0..c - 1 : Slot(t[i].key, e) \in Slots
      BY <3>1, SlotInTable, SizeAssumption DEF Slots
    <3>4. \A e \in 0..c - 1 : Slot(t[i].key, e) # n
      BY <3>2
    <3>5. \A e \in 0..c - 1 : u[Slot(t[i].key, e)].key \notin {t[i].key, Zero}
      BY <3>2, <3>3, <3>4
    <3> QED BY <3>1, <3>2, <3>5
  <2> QED BY <2>1, <2>2
<1> QED BY <1>2 DEF Placed

\* What lookups see after one entry was changed or added.
LEMMA EnergyAfter ==
  ASSUME NEW t, NEW u, Table(t), Placed(t), Table(u), Placed(u),
         NEW i \in Slots, \A j \in Slots \ {i} : u[j] = t[j],
         t[i].key \in {u[i].key, Zero}, NEW k \in Keys
  PROVE  energy(u, k) = IF k = u[i].key THEN u[i].balance ELSE energy(t, k)
<1>1. CASE k = u[i].key
  BY <1>1, EnergyOfEntry, KeysAssumption
<1>2. CASE k # u[i].key /\ \E j \in Slots : t[j].key = k
  <2>1. PICK j \in Slots : t[j].key = k
    BY <1>2
  <2>2. j # i /\ u[j] = t[j]
    BY <1>2, <2>1, KeysAssumption
  <2>3. energy(t, k) = t[j].balance /\ energy(u, k) = u[j].balance
    BY <2>1, <2>2, EnergyOfEntry, KeysAssumption
  <2> QED BY <1>2, <2>2, <2>3
<1>3. CASE k # u[i].key /\ \A j \in Slots : t[j].key # k
  <2>1. \A j \in Slots : u[j].key # k
    BY <1>3
  <2> QED BY <1>3, <2>1, EnergyOfStranger
<1> QED BY <1>1, <1>2, <1>3

\* increaseEnergy puts the amount where the key is found from then on.
LEMMA DepositTable ==
  ASSUME NEW t, NEW u, Table(t), Placed(t), u \in [Slots -> Entry],
         NEW k \in Keys, NEW amount \in Nat, Ends(t, k),
         u[Probe(t, k)].key = k,
         u[Probe(t, k)].balance = t[Probe(t, k)].balance + amount,
         \A j \in Slots \ {Probe(t, k)} : u[j] = t[j]
  PROVE  /\ Table(u) /\ Placed(u)
         /\ \A j \in Keys : energy(u, j) = IF j = k THEN energy(t, k) + amount ELSE energy(t, j)
<1> DEFINE d == CHOOSE f \in Slots : Stops(t, k, f)
           i == Probe(t, k)
<1>1. d \in Slots /\ Stops(t, k, d)
  BY DEF Ends
<1>2. i = Slot(k, d) /\ i \in Slots /\ d \in Nat
  BY <1>1, SlotInTable, SizeAssumption DEF Probe, Slots
<1>3. t[i].key \in {k, Zero} /\ \A e \in 0..d - 1 : t[Slot(k, e)].key \notin {k, Zero}
  BY <1>1, <1>2 DEF Stops
<1>4. k # Zero
  BY KeysAssumption
<1>5. Table(u)
  BY <1>2, <1>4 DEF Table
<1>6. Placed(u)
  <2>1. CASE t[i].key = k
    <3>1. \A j \in Slots : u[j].key = t[j].key
      BY <2>1
    <3> QED BY <3>1, SameKeys
  <2>2. CASE t[i].key = Zero
    <3> HIDE DEF d
    <3> QED BY <1>1, <1>2, <1>3, <2>2, NewEntry
  <2> QED BY <1>3, <2>1, <2>2
<1>7. energy(t, k) = t[i].balance
  <2>1. CASE t[i].key = k
    BY <1>2, <1>4, <2>1, EnergyOfEntry
  <2>2. CASE t[i].key = Zero
    <3>1. \A j \in Slots : t[j].key # k
      BY <1>2, <1>4, <2>2, Found
    <3> QED BY <1>2, <2>2, <3>1, EnergyOfStranger DEF Table
  <2> QED BY <1>3, <2>1, <2>2
<1>8. ASSUME NEW j \in Keys
      PROVE  energy(u, j) = IF j = k THEN energy(t, k) + amount ELSE energy(t, j)
  <2>1. energy(u, j) = IF j = u[i].key THEN u[i].balance ELSE energy(t, j)
    BY <1>2, <1>3, <1>5, <1>6, EnergyAfter
  <2> QED BY <1>7, <2>1
<1> QED BY <1>5, <1>6, <1>8

\* decreaseEnergy takes the amount from whoever is at the slot.
LEMMA WithdrawTable ==
  ASSUME NEW t, NEW u, Table(t), Placed(t), u \in [Slots -> Entry],
         NEW i \in Slots, NEW amount \in Nat,
         u[i].key = t[i].key, u[i].balance = t[i].balance - amount,
         \A j \in Slots \ {i} : u[j] = t[j]
  PROVE  /\ Table(u) /\ Placed(u)
         /\ \A j \in Keys : energy(u, j) = IF j = t[i].key THEN energy(t, j) - amount
                                                            ELSE energy(t, j)
<1>1. Table(u)
  <2>1. ASSUME NEW j \in Slots, u[j].key = Zero PROVE u[j].balance = 0
    <3>1. CASE j = i
      <4>1. t[i].balance = 0 /\ u[i].balance \in Nat
        BY <2>1, <3>1 DEF Table, Entry
      <4> QED BY <3>1, <4>1
    <3>2. CASE j # i
      BY <2>1, <3>2 DEF Table
    <3> QED BY <3>1, <3>2
  <2> QED BY <2>1 DEF Table
<1>2. \A j \in Slots : u[j].key = t[j].key
  OBVIOUS
<1>3. Placed(u)
  BY <1>2, SameKeys
<1>4. ASSUME NEW j \in Keys
      PROVE  energy(u, j) = IF j = t[i].key THEN energy(t, j) - amount ELSE energy(t, j)
  <2>1. energy(u, j) = IF j = u[i].key THEN u[i].balance ELSE energy(t, j)
    BY <1>1, <1>3, EnergyAfter
  <2>2. j = t[i].key => energy(t, j) = t[i].balance
    BY EnergyOfEntry, KeysAssumption
  <2> QED BY <2>1, <2>2
<1> QED BY <1>1, <1>3, <1>4

\* Burning dust: balances become 0, keys stay.
LEMMA BurnTable ==
  ASSUME NEW t, NEW u, Table(t), Placed(t), u \in [Slots -> Entry], NEW S \in SUBSET Slots,
         \A i \in Slots : u[i].key = t[i].key,
         \A i \in S : u[i].balance = 0,
         \A i \in Slots \ S : u[i].balance = t[i].balance
  PROVE  /\ Table(u) /\ Placed(u)
         /\ \A k \in Keys : energy(u, k) = IF \E i \in S : t[i].key = k THEN 0 ELSE energy(t, k)
<1>1. Table(u)
  BY DEF Table
<1>2. Placed(u)
  BY SameKeys
<1>3. ASSUME NEW k \in Keys
      PROVE  energy(u, k) = IF \E i \in S : t[i].key = k THEN 0 ELSE energy(t, k)
  <2>1. CASE \E i \in Slots : t[i].key = k
    <3>1. PICK i \in Slots : t[i].key = k
      BY <2>1
    <3>2. energy(t, k) = t[i].balance /\ energy(u, k) = u[i].balance
      BY <1>1, <1>2, <3>1, EnergyOfEntry, KeysAssumption
    <3>3. (\E j \in S : t[j].key = k) <=> i \in S
      BY <3>1, OneEntry, KeysAssumption
    <3> QED BY <3>2, <3>3
  <2>2. CASE \A i \in Slots : t[i].key # k
    <3>1. energy(t, k) = 0 /\ energy(u, k) = 0
      BY <2>2, EnergyOfStranger
    <3> QED BY <2>2, <3>1
  <2> QED BY <2>1, <2>2
<1> QED BY <1>1, <1>2, <1>3

\* An empty table.
LEMMA EmptyPlaced == Table(EmptyTable) /\ Placed(EmptyTable)
BY DEF Table, Placed, EmptyTable, EmptyEntry, Entry

\* A search that found its key.
LEMMA IndexInTable ==
  ASSUME NEW t, NEW k \in Keys, spectrumIndex(t, k) # -1
  PROVE  spectrumIndex(t, k) \in Slots /\ energy(t, k) = t[spectrumIndex(t, k)].balance
<1>1. Ends(t, k) /\ spectrumIndex(t, k) = Probe(t, k)
  BY DEF spectrumIndex
<1>2. (CHOOSE d \in Slots : Stops(t, k, d)) \in Slots
  BY <1>1 DEF Ends
<1>3. Probe(t, k) \in Slots
  BY <1>2, SlotInTable, SizeAssumption DEF Probe, Slots
<1> QED BY <1>1, <1>3 DEF energy
\* What is burned is less than twice what is not: a category is burned only with
\* all that are below it.
LEMMA DustIsPoor ==
  ASSUME NEW t \in [Slots -> Entry], NEW i \in Dust(t),
         NEW j \in Slots, j \notin Dust(t), t[j].balance > 0
  PROVE  i \in Slots /\ t[i].balance < 2 * t[j].balance
<1> DEFINE all == {n \in Slots : \E c \in DustCategory(t) :
                     t[n].balance \in 1..dustThresholdBurnAll(t, c)}
           candidates == {n \in Slots \ all : \E c \in DustCategory(t) :
                            t[n].balance \in 1..dustThresholdBurnHalf(t, c)}
<1>1. i \in all \cup candidates /\ j \notin all
  BY DEF Dust
<1>2. i \in Slots /\ t[i].balance \in Nat /\ t[j].balance \in Nat
  BY <1>1 DEF Entry
<1>3. \A c \in DustCategory(t) : c \in Nat /\ 2^c \in Int
  <2>1. \A c \in DustCategory(t) : c \in Nat
    BY CategoriesAssumption DEF DustCategory, Crowded
  <2> QED BY <2>1
<1>4. CASE i \in all
  <2>1. PICK c \in DustCategory(t) : t[i].balance \in 1..dustThresholdBurnAll(t, c)
    BY <1>4
  <2>2. t[j].balance \notin 1..dustThresholdBurnAll(t, c)
    BY <1>1
  <2>3. dustThresholdBurnAll(t, c) \in Int
    BY <1>3 DEF dustThresholdBurnAll
  <2> QED BY <1>2, <2>1, <2>2, <2>3
<1>5. CASE i \in candidates
  <2>1. PICK c \in DustCategory(t) : t[i].balance \in 1..dustThresholdBurnHalf(t, c)
    BY <1>5
  <2>2. t[j].balance \notin 1..dustThresholdBurnAll(t, c)
    BY <1>1
  <2>3. c \in Nat /\ 2^c \in Int
    BY <1>3
  <2>4. CASE Richer(t, c + 1) = 0
    <3>1. t[i].balance \in 1..2 * 2^c - 1 /\ t[j].balance \notin 1..2^c - 1
      BY <2>1, <2>2, <2>4 DEF dustThresholdBurnAll, dustThresholdBurnHalf
    <3> QED BY ONLY <1>2, <2>3, <3>1, t[j].balance > 0
  <2>5. CASE Richer(t, c + 1) # 0
    BY <1>2, <2>1, <2>5 DEF dustThresholdBurnHalf
  <2> QED BY <2>4, <2>5
<1> QED BY <1>1, <1>4, <1>5
=============================================================================
