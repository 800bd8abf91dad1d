--------------------------- MODULE Spectrum_proofs ---------------------------
(***************************************************************************)
(* Every entity of the spectrum is found, at one place, whatever was       *)
(* inserted, burned and reorganised, for every capacity and every hash of  *)
(* keys to slots; what lookups return is a ledger; and the digests of the  *)
(* entries are exact at the end of every tick.                             *)
(***************************************************************************)
EXTENDS Spectrum, SpectrumTable_proofs

----------------------------------------------------------------------------
(* The inductive invariant *)

Bid == [key : Keys \cup {Zero}, price : Nat]
Offer == [index : Slots, key : Keys, price : Nat, quantity : Nat, back : {"tick", "epochEnd"}]
Holds == {"bidding", "placing"}

\* What the thread that writes still has to do.
Work ==
  /\ pc \in Places \cup {"placing", "refunding", "paying", "inserting", "reorganizing",
                         "digested"}
  /\ after \in Places
  /\ payments \in Seq(Payment)
  /\ pc \in Places \cup {"digested"} => payments = <<>>
  /\ pc \in {"paying", "inserting"} => payments # <<>>
  /\ pc \in {"inserting", "reorganizing"} /\ payments # <<>> => Head(payments).key # Zero
  /\ after = "bidding" =>
       \/ pc \in Holds
       \/ pc \in {"paying", "inserting", "reorganizing"} /\ payments # <<>>
  /\ pc \in Holds \/ after = "bidding" => bid \in Offer
  /\ ipo \in [1..Shares -> Bid]
  /\ sale \in [final : Nat, next : 1..Shares]

\* The reorganisation copies what is worth keeping, and nothing else.
Copied ==
  /\ reorg \in [into : [Slots -> Entry], next : 0..Capacity]
  /\ Table(reorg.into) /\ Placed(reorg.into)
  /\ pc = "reorganizing" =>
       /\ \A i \in Slots : i < reorg.next /\ spectrum[i].balance # 0 =>
            \E j \in Slots : reorg.into[j] = spectrum[i]
       /\ \A j \in Slots : reorg.into[j].key # Zero =>
            \E i \in Slots : i < reorg.next /\ reorg.into[j] = spectrum[i]

\* Whatever is not hashed yet will be.
Hashed ==
  /\ leaves \in [Slots -> Entry]
  /\ spectrumDirtyList \in Seq(Slots)
  /\ pc # "reorganizing" => \A i \in Slots : leaves[i] # spectrum[i] =>
       /\ i \in Touched
       /\ spectrumDirtyOverflow \/ i \in Range(spectrumDirtyList)
  /\ pc = "digested" => leaves = spectrum

IInv ==
  /\ tick \in Nat
  /\ Table(spectrum) /\ Placed(spectrum)
  /\ Work /\ Copied /\ Hashed

\* A saved spectrum satisfies the inductive invariant.
LEMMA InitIInv == Init => IInv
<1> SUFFICES ASSUME Init PROVE IInv
  OBVIOUS
<1>1. Table(spectrum) /\ Placed(spectrum) /\ tick \in Nat
  BY SavedAssumption DEF Init, Table
<1>2. Work
  BY BiddersAssumption DEF Init, Work, Places, NoBids, NoSale, Bid, Payment, Holds
<1>3. Copied
  BY EmptyPlaced, SizeAssumption DEF Init, Copied, Table
<1>4. Hashed
  BY <1>1 DEF Init, Hashed, Table
<1> QED BY <1>1, <1>2, <1>3, <1>4 DEF IInv

----------------------------------------------------------------------------
(* Parts of steps *)

\* A slot that was written in this tick is on the list, or the list overflowed.
LEMMA MarkedDirty ==
  ASSUME spectrumDirtyList \in Seq(Slots), NEW i \in Slots, MarkDirty(i)
  PROVE  /\ spectrumDirtyList' \in Seq(Slots)
         /\ spectrumDirtyOverflow => spectrumDirtyOverflow'
         /\ spectrumDirtyOverflow' \/ i \in Range(spectrumDirtyList')
         /\ spectrumDirtyOverflow' \/ Range(spectrumDirtyList) \subseteq Range(spectrumDirtyList')
<1>1. CASE Len(spectrumDirtyList) < DirtyCapacity
  <2>1. spectrumDirtyList' = Append(spectrumDirtyList, i) /\ UNCHANGED spectrumDirtyOverflow
    BY <1>1 DEF MarkDirty
  <2>2. spectrumDirtyList' \in Seq(Slots)
    BY <2>1
  <2>3. /\ Len(spectrumDirtyList') = Len(spectrumDirtyList) + 1
        /\ spectrumDirtyList'[Len(spectrumDirtyList) + 1] = i
        /\ \A j \in 1..Len(spectrumDirtyList) : spectrumDirtyList'[j] = spectrumDirtyList[j]
    BY <2>1
  <2>4. i \in Range(spectrumDirtyList')
    BY <2>2, <2>3 DEF Range
  <2>5. Range(spectrumDirtyList) \subseteq Range(spectrumDirtyList')
    BY <2>2, <2>3 DEF Range
  <2> QED BY <2>1, <2>2, <2>4, <2>5
<1>2. CASE ~(Len(spectrumDirtyList) < DirtyCapacity)
  BY <1>2 DEF MarkDirty
<1> QED BY <1>1, <1>2

\* Writing one slot in this tick keeps the digests recoverable.
LEMMA WriteHashed ==
  ASSUME Hashed, pc \notin {"reorganizing", "digested"}, pc' # "digested",
         spectrum \in [Slots -> Entry], NEW i \in Slots,
         \A j \in Slots \ {i} : spectrum'[j] = spectrum[j],
         tick \in {spectrum'[i].latestIn, spectrum'[i].latestOut},
         MarkDirty(i), UNCHANGED <<leaves, tick>>
  PROVE  Hashed'
<1>1. spectrumDirtyList \in Seq(Slots) /\ leaves \in [Slots -> Entry]
  BY DEF Hashed
<1>2. /\ spectrumDirtyList' \in Seq(Slots)
      /\ spectrumDirtyOverflow => spectrumDirtyOverflow'
      /\ spectrumDirtyOverflow' \/ i \in Range(spectrumDirtyList')
      /\ spectrumDirtyOverflow' \/ Range(spectrumDirtyList) \subseteq Range(spectrumDirtyList')
  BY <1>1, MarkedDirty
<1>3. ASSUME NEW j \in Slots, leaves'[j] # spectrum'[j]
      PROVE  j \in Touched' /\ (spectrumDirtyOverflow' \/ j \in Range(spectrumDirtyList'))
  <2>1. CASE j = i
    BY <1>2, <2>1 DEF Touched
  <2>2. CASE j # i
    <3>1. leaves[j] # spectrum[j] /\ spectrum'[j] = spectrum[j]
      BY <1>3, <2>2
    <3>2. j \in Touched /\ (spectrumDirtyOverflow \/ j \in Range(spectrumDirtyList))
      BY <3>1 DEF Hashed
    <3>3. j \in Touched'
      BY <3>1, <3>2 DEF Touched
    <3> QED BY <1>2, <3>2, <3>3
  <2> QED BY <2>1, <2>2
<1> QED BY <1>1, <1>2, <1>3 DEF Hashed

Balances == [k \in Keys |-> energy(spectrum, k)]

\* A step of the spectrum that is none of the ledger.
Unseen == Balances' = Balances /\ (pc = "reorganizing" <=> pc' = "reorganizing")

\* What a step has to keep of the table, and what it may do to the ledger.
Kept ==
  /\ Table(spectrum)' /\ Placed(spectrum)'
  /\ Copied' /\ Hashed'
  /\ Promise!Next \/ Unseen

\* decreaseEnergy
LEMMA WithdrawStep ==
  ASSUME IInv, NEW i \in Slots, NEW amount \in Nat, amount <= spectrum[i].balance,
         Withdraw(i, amount), UNCHANGED <<tick, reorg>>,
         pc \notin {"reorganizing", "digested"}, pc' \notin {"reorganizing", "digested"}
  PROVE  Kept
<1>1. tick \in Nat /\ Table(spectrum) /\ Placed(spectrum) /\ Copied /\ Hashed
  BY DEF IInv
<1>2. spectrum \in [Slots -> Entry] /\ spectrum[i] \in Entry
  BY <1>1 DEF Table
<1> DEFINE x == [key |-> spectrum[i].key, balance |-> spectrum[i].balance - amount,
                 latestIn |-> spectrum[i].latestIn, latestOut |-> tick]
<1>3. x \in Entry
  BY <1>1, <1>2 DEF Entry
<1>4. spectrum' = [spectrum EXCEPT ![i].balance = @ - amount, ![i].latestOut = tick]
  BY DEF Withdraw
<1>5. spectrum'[i] = x /\ \A j \in Slots \ {i} : spectrum'[j] = spectrum[j]
  <2>1. spectrum'[i] = x
    BY <1>2, <1>4 DEF Entry
  <2>2. \A j \in Slots \ {i} : spectrum'[j] = spectrum[j]
    BY <1>2, <1>4
  <2> QED BY <2>1, <2>2
<1>6. spectrum' \in [Slots -> Entry]
  BY <1>2, <1>3, <1>4, <1>5
<1>7. /\ spectrum'[i].key = spectrum[i].key
      /\ spectrum'[i].balance = spectrum[i].balance - amount
      /\ spectrum'[i].latestOut = tick
  BY <1>5
<1> HIDE DEF x
<1>8. /\ Table(spectrum') /\ Placed(spectrum')
      /\ \A j \in Keys : energy(spectrum', j) =
           IF j = spectrum[i].key THEN energy(spectrum, j) - amount ELSE energy(spectrum, j)
  BY <1>1, <1>5, <1>6, <1>7, WithdrawTable
<1>9. Hashed'
  BY <1>1, <1>2, <1>5, <1>7, WriteHashed DEF Withdraw
<1>10. Copied'
  BY <1>1 DEF Copied, Table, Placed
<1>11. Promise!Next \/ Unseen
  <2>1. CASE spectrum[i].key = Zero
    <3>1. \A j \in Keys : energy(spectrum', j) = energy(spectrum, j)
      BY <1>8, <2>1, KeysAssumption
    <3> QED BY <3>1 DEF Balances, Unseen
  <2>2. CASE spectrum[i].key # Zero
    <3> DEFINE k == spectrum[i].key
    <3>1. k \in Keys
      BY <1>2, <2>2 DEF Entry
    <3>2. energy(spectrum, k) = spectrum[i].balance
      BY <1>1, <2>2, EnergyOfEntry
    <3>3. amount \in 0..Balances[k]
      BY <1>2, <3>1, <3>2 DEF Balances, Entry
    <3>4. Balances' = [Balances EXCEPT ![k] = Balances[k] - amount]
      BY <1>8, <3>1 DEF Balances
    <3>5. Promise!Debit
      BY <3>1, <3>3, <3>4 DEF Promise!Debit, Promise!Open, Balances
    <3> QED BY <3>5 DEF Promise!Next
  <2> QED BY <2>1, <2>2
<1> QED BY <1>8, <1>9, <1>10, <1>11 DEF Kept

\* increaseEnergy at "iteration"
LEMMA DepositStep ==
  ASSUME IInv, NEW p \in Payment, p.key # Zero, Deposit(p), UNCHANGED <<tick, reorg>>,
         pc \notin {"reorganizing", "digested"}, pc' \notin {"reorganizing", "digested"}
  PROVE  Kept
<1>1. tick \in Nat /\ Table(spectrum) /\ Placed(spectrum) /\ Copied /\ Hashed
  BY DEF IInv
<1> DEFINE k == p.key
           i == Probe(spectrum, k)
           x == [key |-> k, balance |-> spectrum[i].balance + p.amount,
                 latestIn |-> tick, latestOut |-> spectrum[i].latestOut]
<1>2. k \in Keys /\ p.amount \in Nat
  BY DEF Payment
<1>3. Ends(spectrum, k) /\ i \in Slots
  BY <1>2, SlotInTable, SizeAssumption DEF Deposit, Ends, Probe, Slots
<1>4. spectrum \in [Slots -> Entry] /\ spectrum[i] \in Entry
  BY <1>1, <1>3 DEF Table
<1>5. x \in Entry
  BY <1>1, <1>2, <1>4 DEF Entry
<1>6. spectrum' = [spectrum EXCEPT ![i] = x] /\ MarkDirty(i) /\ UNCHANGED leaves
  BY <1>3, <1>4 DEF Deposit
<1>7. spectrum'[i] = x /\ \A j \in Slots \ {i} : spectrum'[j] = spectrum[j]
  BY <1>3, <1>4, <1>6
<1>8. spectrum' \in [Slots -> Entry]
  BY <1>4, <1>5, <1>6
<1>9. /\ spectrum'[i].key = k
      /\ spectrum'[i].balance = spectrum[i].balance + p.amount
      /\ spectrum'[i].latestIn = tick
  BY <1>7
<1> HIDE DEF x, k
<1>10. /\ Table(spectrum') /\ Placed(spectrum')
       /\ \A j \in Keys : energy(spectrum', j) =
            IF j = k THEN energy(spectrum, k) + p.amount ELSE energy(spectrum, j)
  BY <1>1, <1>2, <1>3, <1>7, <1>8, <1>9, DepositTable
<1>11. Hashed'
  BY <1>1, <1>3, <1>4, <1>6, <1>7, <1>9, WriteHashed
<1>12. Copied'
  BY <1>1 DEF Copied, Table, Placed
<1>13. Promise!Next
  <2>1. energy(spectrum, k) \in Nat
    BY <1>1, <1>2, EnergyType
  <2>2. Balances[k] = energy(spectrum, k) /\ Balances'[k] = energy(spectrum, k) + p.amount
    BY <1>2, <1>10 DEF Balances
  <2>3. Balances' = [Balances EXCEPT ![k] = Balances'[k]]
    BY <1>2, <1>10 DEF Balances
  <2>4. Balances'[k] \in Nat /\ Balances'[k] >= Balances[k]
    BY <1>2, <2>1, <2>2
  <2>5. \E j \in Keys : /\ Balances'[j] \in Nat /\ Balances'[j] >= Balances[j]
                        /\ Balances' = [Balances EXCEPT ![j] = Balances'[j]]
    BY <1>2, <2>3, <2>4
  <2>6. Promise!Credit
    BY <2>5 DEF Promise!Credit, Promise!Open, Balances
  <2> QED BY <2>6 DEF Promise!Next
<1> QED BY <1>10, <1>11, <1>12, <1>13 DEF Kept

\* Balances depend on the spectrum only.
LEMMA SameBalances ==
  ASSUME spectrum' = spectrum
  PROVE  UNCHANGED Balances
<1>1. \A k : energy(spectrum', k) = energy(spectrum, k)
  OBVIOUS
<1>2. Balances' = [k \in Keys |-> energy(spectrum', k)]
  BY Zenon DEF Balances, energy, spectrumIndex, Ends, Probe, Stops
<1> QED BY <1>1, <1>2 DEF Balances

\* Steps that do not write the spectrum.
LEMMA QuietStep ==
  ASSUME IInv, UNCHANGED <<tick, spectrum, leaves, dirtyVars, reorg>>,
         pc \notin {"reorganizing", "digested"}, pc' \notin {"reorganizing", "digested"}
  PROVE  Kept
<1>1. Table(spectrum)' /\ Placed(spectrum)'
  BY DEF IInv, Table, Placed
<1>2. Copied'
  BY DEF IInv, Copied, Table, Placed
<1>3. Hashed'
  BY DEF IInv, Hashed, Touched, dirtyVars
<1>4. UNCHANGED Balances
  BY SameBalances
<1> QED BY <1>1, <1>2, <1>3, <1>4 DEF Kept, Unseen

\* The first half of increaseEnergy in a crowded map.
LEMMA BurnStep ==
  ASSUME IInv, burnDust
  PROVE  Kept
<1> DEFINE S == Dust(spectrum)
<1>1. Table(spectrum) /\ Placed(spectrum) /\ spectrum \in [Slots -> Entry] /\ Hashed
  BY DEF IInv, Table
<1>2. S \in SUBSET Slots
  BY DEF Dust
<1>3. spectrum' = [i \in Slots |-> IF i \in S THEN [spectrum[i] EXCEPT !.balance = 0]
                                              ELSE spectrum[i]]
  BY DEF burnDust
<1> HIDE DEF S
<1>4. \A i \in Slots : /\ spectrum'[i] \in Entry /\ spectrum'[i].key = spectrum[i].key
                       /\ i \in S => spectrum'[i].balance = 0
                       /\ i \notin S => spectrum'[i].balance = spectrum[i].balance
  BY <1>1, <1>3 DEF Entry
<1>5. spectrum' \in [Slots -> Entry]
  BY <1>3, <1>4
<1>6. /\ Table(spectrum') /\ Placed(spectrum')
      /\ \A k \in Keys : energy(spectrum', k) =
           IF \E i \in S : spectrum[i].key = k THEN 0 ELSE energy(spectrum, k)
  <2>1. \A i \in Slots : spectrum'[i].key = spectrum[i].key
    BY <1>4
  <2>2. \A i \in S : spectrum'[i].balance = 0
    BY <1>2, <1>4
  <2>3. \A i \in Slots \ S : spectrum'[i].balance = spectrum[i].balance
    BY <1>4
  <2>4. Table(spectrum) /\ Placed(spectrum)
    BY <1>1
  <2> QED BY ONLY <1>2, <1>5, <2>1, <2>2, <2>3, <2>4, BurnTable
<1>7. Copied'
  <2>1. reorg' = [into |-> EmptyTable, next |-> 0]
    BY DEF burnDust
  <2>2. reorg'.into = EmptyTable /\ reorg'.next = 0
    BY <2>1
  <2>3. reorg' \in [into : [Slots -> Entry], next : 0..Capacity]
    BY <2>1, EmptyPlaced, SizeAssumption DEF Table
  <2>4. \A j \in Slots : reorg'.into[j].key = Zero
    BY <2>2 DEF EmptyTable, EmptyEntry
  <2>5. \A i \in Slots : ~(i < 0)
    BY SizeAssumption DEF Slots
  <2> QED BY <2>2, <2>3, <2>4, <2>5, EmptyPlaced DEF Copied
<1>8. Hashed'
  BY <1>1 DEF Hashed, burnDust
<1>9. Promise!Next
  <2> DEFINE K == {k \in Keys : \E i \in S : spectrum[i].key = k}
  <2>1. Balances' = [k \in Keys |-> IF k \in K THEN 0 ELSE Balances[k]]
    BY <1>6 DEF Balances
  <2>2. Balances' = [k \in Keys |-> IF Balances'[k] = 0 THEN 0 ELSE Balances[k]]
    BY <2>1
  <2>3. ASSUME NEW k \in Keys, NEW other \in Keys,
               Balances'[k] = 0, Balances'[other] > 0, Balances[k] # 0
        PROVE  Balances[k] < 2 * Balances[other]
    <3>1. k \in K /\ other \notin K /\ Balances[other] > 0 /\ k # Zero /\ other # Zero
      BY <2>1, <2>3, KeysAssumption
    <3>2. PICK i \in S : spectrum[i].key = k
      BY <3>1
    <3>3. PICK j \in Slots : spectrum[j].key = other
      BY <3>1, EnergyOfStranger DEF Balances
    <3>4. Balances[k] = spectrum[i].balance /\ Balances[other] = spectrum[j].balance
      BY <1>1, <1>2, <3>1, <3>2, <3>3, EnergyOfEntry DEF Balances
    <3>5. j \notin S
      BY <3>1, <3>3
    <3> QED BY <1>1, <3>1, <3>2, <3>4, <3>5, DustIsPoor DEF S
  <2>4. pc # "reorganizing" /\ pc' = "reorganizing"
    BY DEF burnDust, NextPayment
  <2>5. Promise!Burn
    BY <2>2, <2>3, <2>4 DEF Promise!Burn, Balances
  <2> QED BY <2>5 DEF Promise!Next
<1> QED BY <1>6, <1>7, <1>8, <1>9 DEF Kept

\* reorganizeSpectrum begins.
LEMMA ReorganizeBeginStep ==
  ASSUME IInv, reorganizeBegin
  PROVE  Kept
<1>1. Table(spectrum)' /\ Placed(spectrum)'
  BY DEF IInv, reorganizeBegin, tableVars, Table, Placed
<1>2. Copied'
  <2>1. reorg' = [into |-> EmptyTable, next |-> 0]
    BY DEF reorganizeBegin
  <2>2. reorg'.into = EmptyTable /\ reorg'.next = 0
    BY <2>1
  <2>3. reorg' \in [into : [Slots -> Entry], next : 0..Capacity]
    BY <2>1, EmptyPlaced, SizeAssumption DEF Table
  <2>4. \A j \in Slots : reorg'.into[j].key = Zero
    BY <2>2 DEF EmptyTable, EmptyEntry
  <2>5. \A i \in Slots : ~(i < 0)
    BY SizeAssumption DEF Slots
  <2> QED BY <2>2, <2>3, <2>4, <2>5, EmptyPlaced DEF Copied
<1>3. Hashed'
  BY DEF IInv, Hashed, reorganizeBegin, tableVars
<1>4. UNCHANGED Balances
  BY SameBalances DEF reorganizeBegin, tableVars
<1>5. Promise!Next
  <2>1. Balances' = [k \in Keys |-> IF Balances'[k] = 0 THEN 0 ELSE Balances[k]]
    BY <1>4 DEF Balances
  <2>2. \A k \in Keys : ~(Balances'[k] = 0 /\ Balances[k] # 0)
    BY <1>4
  <2>3. pc # "reorganizing" /\ pc' = "reorganizing"
    BY DEF reorganizeBegin
  <2>4. Promise!Burn
    BY <2>1, <2>2, <2>3 DEF Promise!Burn, Balances
  <2> QED BY <2>4 DEF Promise!Next
<1> QED BY <1>1, <1>2, <1>3, <1>5 DEF Kept

\* One entity moves: its key is not in the new table yet, so that the first empty
\* slot is the end of a search for it.
LEMMA ReorganizeEntryStep ==
  ASSUME IInv, reorganizeEntry
  PROVE  Kept
<1> DEFINE n == reorg.next
           e == spectrum[n]
           t == reorg.into
           u == reorg'.into
<1>1. /\ Table(spectrum) /\ Placed(spectrum) /\ Table(t) /\ Placed(t)
      /\ pc = "reorganizing" /\ pc' = "reorganizing" /\ spectrum' = spectrum
      /\ reorg \in [into : [Slots -> Entry], next : 0..Capacity]
  BY DEF IInv, Copied, reorganizeEntry, tableVars
<1>2. n \in Slots /\ n \in Nat /\ reorg'.next = n + 1 /\ n + 1 \in 0..Capacity
  <2>1. reorg.next \in 0..Capacity
    BY <1>1
  <2>2. reorg.next < Capacity /\ reorg'.next = reorg.next + 1
    BY Zenon DEF reorganizeEntry
  <2> QED BY <2>1, <2>2, SizeAssumption DEF Slots
<1>3. e \in Entry
  BY <1>1, <1>2 DEF Table
<1>4. /\ \A i \in Slots : i < n /\ spectrum[i].balance # 0 => \E j \in Slots : t[j] = spectrum[i]
      /\ \A j \in Slots : t[j].key # Zero => \E i \in Slots : i < n /\ t[j] = spectrum[i]
  BY <1>1 DEF IInv, Copied
<1>5. Copied'
  <2>1. CASE e.balance = 0
    <3>1. reorg' = [next |-> n + 1, into |-> t]
      BY <2>1 DEF reorganizeEntry
    <3>2. u = t /\ reorg' \in [into : [Slots -> Entry], next : 0..Capacity]
      BY <1>1, <1>2, <3>1
    <3>3. \A i \in Slots : i < n + 1 => i < n \/ i = n
      BY <1>2, SizeAssumption DEF Slots
    <3>4. \A i \in Slots : i < n => i < n + 1
      BY <1>2, SizeAssumption DEF Slots
    <3>5. \A i \in Slots : i < n + 1 /\ spectrum[i].balance # 0 =>
            \E j \in Slots : t[j] = spectrum[i]
      BY <1>4, <2>1, <3>3
    <3>6. \A j \in Slots : t[j].key # Zero => \E i \in Slots : i < n + 1 /\ t[j] = spectrum[i]
      BY <1>4, <3>4
    <3> QED BY <1>1, <1>2, <3>2, <3>5, <3>6 DEF Copied
  <2>2. CASE e.balance # 0
    <3> DEFINE d == CHOOSE f \in Slots : EmptyAfter(t, e.key, f)
               s == Slot(e.key, d)
    <3>1. e.key \in Keys /\ e.key # Zero
      BY <1>1, <1>2, <1>3, <2>2 DEF Table, Entry
    <3>2. d \in Slots /\ EmptyAfter(t, e.key, d)
      BY <2>2 DEF reorganizeEntry
    <3>3. s \in Slots
      BY <3>1, <3>2, SlotInTable, SizeAssumption DEF Slots
    <3>4. reorg' = [next |-> n + 1, into |-> [t EXCEPT ![s] = e]]
      BY <2>2 DEF reorganizeEntry, FirstEmpty
    <3>5. u = [t EXCEPT ![s] = e]
      BY <3>4
    <3>6. u[s] = e /\ (\A j \in Slots \ {s} : u[j] = t[j]) /\ u \in [Slots -> Entry]
      BY <1>1, <1>3, <3>3, <3>5 DEF Table
    <3>7. reorg' \in [into : [Slots -> Entry], next : 0..Capacity]
      BY <1>2, <3>4, <3>5, <3>6
    <3>8. \A j \in Slots : t[j].key # e.key
      <4>1. SUFFICES ASSUME NEW j \in Slots, t[j].key = e.key PROVE FALSE
        OBVIOUS
      <4>2. PICK i \in Slots : i < n /\ t[j] = spectrum[i]
        BY <1>4, <3>1, <4>1
      <4>3. i = n
        BY <1>1, <1>2, <3>1, <4>1, <4>2, OneEntry
      <4> QED BY <1>2, <4>2, <4>3
    <3>9. Table(u)
      BY <1>1, <3>1, <3>3, <3>6 DEF Table
    <3> HIDE DEF d, e
    <3>10. t[s].key = Zero /\ \A f \in 0..d - 1 : t[Slot(e.key, f)].key # Zero
      BY <3>2 DEF EmptyAfter
    <3>11. \A f \in 0..d - 1 : Slot(e.key, f) \in Slots
      BY <3>1, <3>2, SlotInTable, SizeAssumption DEF Slots
    <3>12. \A f \in 0..d - 1 : t[Slot(e.key, f)].key \notin {e.key, Zero}
      BY <3>8, <3>10, <3>11
    <3>13. Placed(u)
      BY <1>1, <3>1, <3>2, <3>6, <3>10, <3>12, NewEntry
    <3>14. \A i \in Slots : i < n + 1 /\ spectrum[i].balance # 0 =>
             \E j \in Slots : u[j] = spectrum[i]
      <4>1. SUFFICES ASSUME NEW i \in Slots, i < n + 1, spectrum[i].balance # 0
                     PROVE  \E j \in Slots : u[j] = spectrum[i]
        OBVIOUS
      <4>2. CASE i = n
        BY <3>3, <3>6, <4>2 DEF e
      <4>3. CASE i # n
        <5>1. i < n
          BY <1>2, <4>1, <4>3, SizeAssumption DEF Slots
        <5>2. PICK j \in Slots : t[j] = spectrum[i]
          BY <1>4, <4>1, <5>1
        <5>3. t[j].key # Zero
          BY <1>1, <4>1, <5>2 DEF Table
        <5>4. j # s
          BY <3>10, <5>3
        <5> QED BY <3>6, <5>2, <5>4
      <4> QED BY <4>2, <4>3
    <3>15. \A j \in Slots : u[j].key # Zero =>
             \E i \in Slots : i < n + 1 /\ u[j] = spectrum[i]
      <4>1. SUFFICES ASSUME NEW j \in Slots, u[j].key # Zero
                     PROVE  \E i \in Slots : i < n + 1 /\ u[j] = spectrum[i]
        OBVIOUS
      <4>2. CASE j = s
        BY <1>2, <3>6, <4>2 DEF e
      <4>3. CASE j # s
        <5>1. PICK i \in Slots : i < n /\ t[j] = spectrum[i]
          BY <1>4, <3>6, <4>1, <4>3
        <5>2. i < n + 1
          BY <1>2, <5>1, SizeAssumption DEF Slots
        <5> QED BY <3>6, <4>3, <5>1, <5>2
      <4> QED BY <4>2, <4>3
    <3> QED BY <1>1, <1>2, <3>7, <3>9, <3>13, <3>14, <3>15 DEF Copied
  <2> QED BY <2>1, <2>2
<1>6. Table(spectrum)' /\ Placed(spectrum)'
  BY <1>1 DEF Table, Placed
<1>7. Hashed'
  BY <1>1 DEF IInv, Hashed, reorganizeEntry, tableVars, dirtyVars
<1>8. UNCHANGED Balances
  BY <1>1, SameBalances
<1>9. pc' = pc
  BY <1>1
<1> HIDE DEF n, e, t, u
<1> QED BY <1>1, <1>5, <1>6, <1>7, <1>8, <1>9 DEF Kept, Unseen

\* reorganizeSpectrum ends: only balances of 0 are gone.
LEMMA ReorganizeEndStep ==
  ASSUME IInv, reorganizeEnd
  PROVE  Kept
<1> DEFINE u == reorg.into
<1>1. /\ Table(spectrum) /\ Placed(spectrum) /\ Table(u) /\ Placed(u)
      /\ pc = "reorganizing" /\ pc' \in {"tick", "inserting"}
      /\ spectrum' = u /\ leaves' = u
      /\ reorg.next = Capacity /\ u \in [Slots -> Entry]
  BY DEF IInv, Copied, reorganizeEnd, Table
<1>2. /\ \A i \in Slots : spectrum[i].balance # 0 => \E j \in Slots : u[j] = spectrum[i]
      /\ \A j \in Slots : u[j].key # Zero => \E i \in Slots : u[j] = spectrum[i]
  <2>1. \A i \in Slots : i < Capacity
    BY SizeAssumption DEF Slots
  <2> QED BY <1>1, <2>1 DEF IInv, Copied
<1>3. ASSUME NEW k \in Keys
      PROVE  energy(u, k) = energy(spectrum, k)
  <2>0. k # Zero
    BY KeysAssumption
  <2>1. CASE \E j \in Slots : u[j].key = k
    <3>1. PICK j \in Slots : u[j].key = k
      BY <2>1
    <3>2. PICK i \in Slots : u[j] = spectrum[i]
      BY <1>2, <2>0, <3>1
    <3> QED BY <1>1, <2>0, <3>1, <3>2, EnergyOfEntry
  <2>2. CASE \A j \in Slots : u[j].key # k
    <3>1. energy(u, k) = 0
      BY <2>2, EnergyOfStranger
    <3>2. CASE \E i \in Slots : spectrum[i].key = k
      <4>1. PICK i \in Slots : spectrum[i].key = k
        BY <3>2
      <4>2. spectrum[i].balance = 0
        BY <1>2, <2>2, <4>1
      <4> QED BY <1>1, <2>0, <3>1, <4>1, <4>2, EnergyOfEntry
    <3>3. CASE \A i \in Slots : spectrum[i].key # k
      BY <3>1, <3>3, EnergyOfStranger
    <3> QED BY <3>2, <3>3
  <2> QED BY <2>1, <2>2
<1>4. UNCHANGED Balances
  BY <1>1, <1>3 DEF Balances
<1>5. Copied'
  <2>1. reorg' = [into |-> EmptyTable, next |-> 0]
    BY DEF reorganizeEnd
  <2>2. reorg'.into = EmptyTable
    BY <2>1
  <2>3. reorg' \in [into : [Slots -> Entry], next : 0..Capacity]
    BY <2>1, EmptyPlaced, SizeAssumption DEF Table
  <2> QED BY <1>1, <2>2, <2>3, EmptyPlaced DEF Copied
<1>6. Hashed'
  <2>1. spectrumDirtyList' \in Seq(Slots)
    BY DEF IInv, Hashed, reorganizeEnd, dirtyVars
  <2> QED BY <1>1, <2>1 DEF Hashed
<1>7. Promise!Rebuilt
  BY <1>1, <1>4 DEF Promise!Rebuilt, Balances
<1> QED BY <1>1, <1>5, <1>6, <1>7 DEF Kept, Promise!Next

\* getSpectrumDigest brings the digests of all entries up to date.
LEMMA DigestStep ==
  ASSUME IInv, getSpectrumDigest
  PROVE  Kept
<1> DEFINE changed == IF spectrumDirtyOverflow THEN Touched
                                              ELSE Touched \cap Range(spectrumDirtyList)
<1>1. /\ Table(spectrum) /\ Placed(spectrum) /\ Copied /\ Hashed
      /\ pc = "tick" /\ pc' = "digested" /\ spectrum' = spectrum /\ reorg' = reorg
      /\ spectrumDirtyList' = <<>>
  BY DEF IInv, getSpectrumDigest
<1>2. leaves' = [i \in Slots |-> IF i \in changed THEN spectrum[i] ELSE leaves[i]]
  BY DEF getSpectrumDigest
<1>3. \A i \in Slots : i \notin changed => leaves[i] = spectrum[i]
  BY <1>1 DEF Hashed
<1> HIDE DEF changed
<1>4. \A i \in Slots : leaves'[i] = spectrum[i]
  BY <1>2, <1>3
<1>5. leaves' = spectrum
  BY <1>1, <1>2, <1>4 DEF Table
<1>6. Hashed'
  BY <1>1, <1>5 DEF Hashed, Table
<1>7. Copied'
  BY <1>1 DEF Copied, Table, Placed
<1>8. UNCHANGED Balances
  BY <1>1, SameBalances
<1>9. Table(spectrum)' /\ Placed(spectrum)'
  BY <1>1 DEF Table, Placed
<1> QED BY <1>1, <1>6, <1>7, <1>8, <1>9 DEF Kept, Unseen

\* The next tick begins with exact digests.
LEMMA TickStep ==
  ASSUME IInv, nextTick
  PROVE  Kept /\ tick' \in Nat
<1>1. /\ Table(spectrum) /\ Placed(spectrum) /\ Copied /\ Hashed /\ tick \in Nat
      /\ pc = "digested" /\ pc' \in {"tick", "epochEnd"} /\ spectrum' = spectrum
      /\ reorg' = reorg /\ leaves' = leaves /\ spectrumDirtyList' = spectrumDirtyList
      /\ tick' = tick + 1
  BY DEF IInv, nextTick, tableVars, dirtyVars
<1>2. Hashed'
  BY <1>1 DEF Hashed
<1>3. Copied'
  BY <1>1 DEF Copied, Table, Placed
<1>4. UNCHANGED Balances
  BY <1>1, SameBalances
<1>5. Table(spectrum)' /\ Placed(spectrum)'
  BY <1>1 DEF Table, Placed
<1> QED BY <1>1, <1>2, <1>3, <1>4, <1>5 DEF Kept, Unseen

----------------------------------------------------------------------------
(* What is still to be paid *)

\* Amounts collected per identity are payments.
LEMMA ReleaseType ==
  ASSUME NEW list \in Seq(Payment), NEW k \in Keys \cup {Zero}, NEW amount \in Nat
  PROVE  Release(list, k, amount) \in Seq(Payment)
<1>1. CASE amount = 0
  BY <1>1 DEF Release
<1>2. CASE amount # 0 /\ \E j \in DOMAIN list : list[j].key = k
  <2> DEFINE n == Len(list)
             more == [j \in 1..n |-> IF list[j].key = k THEN [list[j] EXCEPT !.amount = @ + amount]
                                                        ELSE list[j]]
  <2>1. n \in Nat /\ DOMAIN list = 1..n /\ \A j \in 1..n : list[j] \in Payment
    OBVIOUS
  <2>2. ASSUME NEW j \in 1..n PROVE [list[j] EXCEPT !.amount = @ + amount] \in Payment
    <3>1. list[j] \in Payment
      BY <2>1
    <3>2. list[j].amount + amount \in Nat
      BY <3>1 DEF Payment
    <3> HIDE DEF n
    <3> QED BY <3>1, <3>2 DEF Payment
  <2>3. more \in [1..n -> Payment]
    BY <2>1, <2>2
  <2>4. more \in Seq(Payment)
    BY <2>1, <2>3
  <2> QED BY <1>2, <2>1, <2>4 DEF Release
<1>3. CASE amount # 0 /\ ~\E j \in DOMAIN list : list[j].key = k
  <2>1. [key |-> k, amount |-> amount] \in Payment
    BY DEF Payment
  <2> QED BY <1>3, <2>1 DEF Release
<1> QED BY <1>1, <1>2, <1>3

\* A bid or the refund of a bid that was placed.
LEMMA BidTypes ==
  ASSUME Work, NEW i \in 1..Shares
  PROVE  ipo[i] \in Bid /\ Refund(ipo[i]) \in Nat
<1>1. ipo[i] \in Bid /\ sale.final \in Nat
  BY DEF Work
<1>2. ipo[i].price \in Nat
  BY <1>1 DEF Bid
<1> QED BY <1>1, <1>2 DEF Refund

\* The bids with a new one.
LEMMA RankedType ==
  ASSUME Work, NEW k \in Keys, NEW price \in Nat
  PROVE  Ranked(k, price) \in [1..Shares -> Bid]
<1> DEFINE ahead == {i \in 1..Shares - 1 : ipo[i].price >= price}
           x == [key |-> k, price |-> price]
<1>1. x \in Bid /\ ipo \in [1..Shares -> Bid]
  BY DEF Work, Bid
<1>2. \A i \in 1..Shares : i = 1 \/ i - 1 \in 1..Shares
  BY BiddersAssumption
<1> HIDE DEF ahead, x
<1>3. [i \in 1..Shares |-> IF i \in ahead THEN ipo[i]
                           ELSE IF i = 1 \/ i - 1 \in ahead THEN x ELSE ipo[i - 1]]
        \in [1..Shares -> Bid]
  BY <1>1, <1>2
<1> QED BY <1>3 DEF Ranked, ahead, x

\* A payment has been made.
LEMMA PaidWork ==
  ASSUME Work, payments # <<>>, pc \in {"paying", "inserting"}, Paid,
         UNCHANGED <<after, bid, ipo, sale>>
  PROVE  Work'
<1>1. payments \in Seq(Payment) /\ after \in Places
  BY DEF Work
<1>2. payments' = Tail(payments) /\ payments' \in Seq(Payment)
  BY <1>1 DEF Paid
<1>3. CASE payments' = <<>>
  <2>1. pc' = after /\ after' = after
    BY <1>2, <1>3 DEF Paid
  <2>2. after' = "bidding" => pc' \in Holds
    BY <2>1 DEF Holds
  <2>3. pc' \in Holds => after = "bidding"
    BY <1>1, <2>1 DEF Holds, Places
  <2>4. pc' \in Places
    BY <1>1, <2>1
  <2>5. pc' \notin {"paying", "inserting", "reorganizing"}
    BY <2>4 DEF Places
  <2>6. pc' \in Holds \/ after' = "bidding" => bid' \in Offer
    BY <2>1, <2>3 DEF Work
  <2>7. ipo' \in [1..Shares -> Bid] /\ sale' \in [final : Nat, next : 1..Shares]
    BY DEF Work
  <2> QED BY ONLY <1>1, <1>2, <1>3, <2>1, <2>2, <2>4, <2>5, <2>6, <2>7 DEF Work
<1>4. CASE payments' # <<>>
  <2>1. pc' = "paying"
    BY <1>2, <1>4 DEF Paid
  <2> QED BY <1>1, <1>2, <1>4, <2>1 DEF Work, Places, Holds
<1> QED BY <1>3, <1>4

\* Payments begin.
LEMMA PayWork ==
  ASSUME Work, NEW list \in Seq(Payment), NEW next \in Places, Pay(list, next),
         next = "bidding" => bid' \in Offer,
         ipo' \in [1..Shares -> Bid], sale' \in [final : Nat, next : 1..Shares]
  PROVE  Work'
<1>1. payments' = list /\ after' = next
  BY DEF Pay
<1>2. CASE list = <<>>
  <2>1. pc' = next
    BY <1>2 DEF Pay
  <2>2. after' = "bidding" => pc' \in Holds
    BY <1>1, <2>1 DEF Holds
  <2>3. pc' \in Holds => next = "bidding"
    BY <2>1 DEF Holds, Places
  <2>4. pc' \in Places /\ pc' \notin {"paying", "inserting", "reorganizing"}
    BY <2>1 DEF Places
  <2>5. pc' \in Holds \/ after' = "bidding" => bid' \in Offer
    BY <1>1, <2>3
  <2>6. /\ ipo' \in [1..Shares -> Bid] /\ sale' \in [final : Nat, next : 1..Shares]
        /\ payments' \in Seq(Payment) /\ payments' = <<>> /\ after' \in Places
    BY <1>1, <1>2
  <2> QED BY ONLY <2>2, <2>4, <2>5, <2>6 DEF Work
<1>3. CASE list # <<>>
  <2>1. pc' = "paying"
    BY <1>3 DEF Pay
  <2> QED BY <1>1, <1>3, <2>1 DEF Work, Places, Holds
<1> QED BY <1>2, <1>3

----------------------------------------------------------------------------
(* Every step *)

\* A transfer keeps the invariant and moves balances as the ledger allows.
LEMMA TransferStep ==
  ASSUME IInv, NEW source \in Keys, NEW destination \in Keys \cup {Zero}, NEW amount \in Amounts,
         transfer(source, destination, amount)
  PROVE  Kept /\ Work' /\ tick' \in Nat
<1> DEFINE i == spectrumIndex(spectrum, source)
           list == <<[key |-> destination, amount |-> amount]>>
<1>1. amount \in Nat /\ Work /\ tick \in Nat
  BY AmountsAssumption DEF IInv
<1>2. i \in Slots /\ amount <= spectrum[i].balance
  BY <1>1, IndexInTable DEF transfer
<1>3. list \in Seq(Payment) /\ list # <<>>
  BY <1>1 DEF Payment
<1>4. pc' = "paying" /\ Pay(list, pc) /\ pc \in {"tick", "epochEnd"}
  BY <1>3 DEF transfer, Pay
<1>5. Kept
  BY <1>1, <1>2, <1>4, WithdrawStep DEF transfer
<1>6. Work'
  <2>1. /\ pc \in Places /\ pc # "bidding"
        /\ ipo' \in [1..Shares -> Bid] /\ sale' \in [final : Nat, next : 1..Shares]
    BY <1>1, <1>4 DEF Places, Work, transfer
  <2> HIDE DEF list
  <2> QED BY <1>1, <1>3, <1>4, <2>1, PayWork
<1> QED BY <1>1, <1>5, <1>6 DEF transfer

\* A burn by the contract debits the contract alone.
LEMMA BurnQusStep ==
  ASSUME IInv, NEW amount \in Amounts, burn(amount)
  PROVE  Kept /\ Work' /\ tick' \in Nat
<1> DEFINE i == spectrumIndex(spectrum, Contract)
<1>1. amount \in Nat /\ Work /\ tick \in Nat
  BY AmountsAssumption DEF IInv
<1>2. i \in Slots /\ amount <= spectrum[i].balance
  BY <1>1, IndexInTable, BiddersAssumption DEF burn
<1>3. Kept
  BY <1>1, <1>2, WithdrawStep DEF burn
<1>4. Work'
  BY <1>1 DEF Work, burn
<1> QED BY <1>1, <1>3, <1>4 DEF burn

\* A transaction with a bid moves its amount 0 and keeps the index for the bid.
LEMMA BidTransactionStep ==
  ASSUME IInv, NEW source \in Bidders, NEW price \in Prices, NEW quantity \in 1..Shares,
         bidTransaction(source, price, quantity)
  PROVE  Kept /\ Work' /\ tick' \in Nat
<1> DEFINE i == spectrumIndex(spectrum, source)
           list == <<[key |-> Contract, amount |-> 0]>>
<1>1. Work /\ tick \in Nat /\ Table(spectrum) /\ source \in Keys
  BY BiddersAssumption DEF IInv
<1>2. i \in Slots /\ 0 <= spectrum[i].balance
  <2>1. i # -1
    BY DEF bidTransaction
  <2>2. i \in Slots
    BY <1>1, <2>1, IndexInTable
  <2> HIDE DEF i
  <2> QED BY <1>1, <2>2 DEF Table, Entry
<1>3. list \in Seq(Payment) /\ list # <<>>
  BY BiddersAssumption DEF Payment
<1>4. pc' = "paying" /\ Pay(list, "bidding") /\ pc = "tick"
  BY <1>3 DEF bidTransaction, Pay
<1>5. Kept
  BY <1>1, <1>2, <1>4, WithdrawStep DEF bidTransaction
<1>6. bid' \in Offer
  <2>1. bid' = [index |-> i, key |-> source, price |-> price, quantity |-> quantity,
                back |-> "tick"]
    BY DEF bidTransaction
  <2> HIDE DEF i
  <2> QED BY <1>1, <1>2, <2>1, AmountsAssumption, BiddersAssumption DEF Offer
<1>7. Work'
  <2>1. /\ "bidding" \in Places
        /\ ipo' \in [1..Shares -> Bid] /\ sale' \in [final : Nat, next : 1..Shares]
    BY <1>1, <1>4 DEF Places, Work, bidTransaction
  <2> HIDE DEF list
  <2> QED BY <1>1, <1>3, <1>4, <1>6, <2>1, PayWork
<1> QED BY <1>1, <1>5, <1>7 DEF bidTransaction

\* bidInIPO looks the bidder up and touches no balance.
LEMMA BidInIPOStep ==
  ASSUME IInv, NEW source \in Bidders, NEW price \in Prices, NEW quantity \in 1..Shares,
         bidInIPO(source, price, quantity)
  PROVE  Kept /\ Work' /\ tick' \in Nat
<1> DEFINE i == spectrumIndex(spectrum, source)
<1>1. Work /\ tick \in Nat /\ source \in Keys /\ pc \in {"tick", "epochEnd"} /\ pc' = "bidding"
  BY BiddersAssumption DEF IInv, bidInIPO
<1>2. i \in Slots
  BY <1>1, IndexInTable DEF bidInIPO
<1>3. Kept
  BY <1>1, QuietStep DEF bidInIPO, tableVars
<1>4. bid' \in Offer
  <2>1. bid' = [index |-> i, key |-> source, price |-> price, quantity |-> quantity, back |-> pc]
    BY DEF bidInIPO
  <2> HIDE DEF i
  <2> QED BY <1>1, <1>2, <2>1, AmountsAssumption, BiddersAssumption DEF Offer
<1>5. Work'
  BY <1>1, <1>4 DEF Work, bidInIPO, Places, Holds
<1> QED BY <1>1, <1>3, <1>5 DEF bidInIPO

\* bidInContractIPO debits the entry at the index of the bid, or does nothing.
LEMMA BidInContractIPOStep ==
  ASSUME IInv, bidInContractIPO
  PROVE  Kept /\ Work' /\ tick' \in Nat
<1>1. Work /\ tick \in Nat /\ bid \in Offer /\ pc = "bidding" /\ payments = <<>>
  BY DEF IInv, Work, bidInContractIPO, Places, Holds
<1> DEFINE amount == bid.price * bid.quantity
<1>2. bid.index \in Slots /\ bid.back \in {"tick", "epochEnd"} /\ amount \in Nat
  BY <1>1 DEF Offer
<1>3. CASE spectrum[bid.index].balance >= amount
  <2>1. Withdraw(bid.index, amount) /\ pc' = "placing" /\ UNCHANGED <<tick, reorg, bid>>
    BY <1>3 DEF bidInContractIPO
  <2>2. amount <= spectrum[bid.index].balance
    BY <1>2, <1>3 DEF IInv, Table, Entry
  <2> HIDE DEF amount
  <2>3. Kept
    BY <1>1, <1>2, <2>1, <2>2, WithdrawStep
  <2>4. Work'
    <3>1. UNCHANGED <<after, payments, bid, ipo, sale>>
      BY <1>3 DEF bidInContractIPO, amount
    <3> QED BY <1>1, <2>1, <3>1 DEF Work, Places, Holds
  <2> QED BY <1>1, <2>1, <2>3, <2>4
<1>4. CASE ~(spectrum[bid.index].balance >= amount)
  <2>1. /\ pc' = bid.back /\ after' = bid.back
        /\ UNCHANGED <<tick, reorg, spectrum, leaves, dirtyVars, payments, ipo, sale>>
    BY <1>4 DEF bidInContractIPO, tableVars
  <2>2. Kept
    BY <1>1, <1>2, <2>1, QuietStep
  <2>3. Work'
    BY <1>1, <1>2, <2>1 DEF Work, Places, Holds
  <2> QED BY <1>1, <2>1, <2>2, <2>3
<1> QED BY <1>3, <1>4

\* A round of the bidding ranks the bid and notes what it displaces as a payment.
LEMMA PlaceBidStep ==
  ASSUME IInv, placeBid
  PROVE  Kept /\ Work' /\ tick' \in Nat
<1>1. Work /\ tick \in Nat /\ bid \in Offer /\ pc = "placing"
  BY DEF IInv, Work, placeBid, Holds
<1>2. /\ bid.key \in Keys /\ bid.price \in Nat /\ bid.quantity \in Nat
      /\ bid.back \in {"tick", "epochEnd"}
  BY <1>1 DEF Offer
<1>3. Shares \in 1..Shares
  BY BiddersAssumption
<1>4. ipo[Shares].key \in Keys \cup {Zero} /\ ipo[Shares].price \in Nat
  BY <1>1, <1>3, BidTypes DEF Bid
<1>5. Displaced.key \in Keys \cup {Zero} /\ Displaced.price \in Nat
  BY <1>2, <1>4 DEF Displaced
<1> DEFINE released == Release(payments, Displaced.key, Displaced.price)
<1>6. released \in Seq(Payment)
  BY <1>1, <1>5, ReleaseType DEF Work
<1>7. ipo' \in [1..Shares -> Bid] /\ sale' \in [final : Nat, next : 1..Shares]
  BY <1>1, <1>2, RankedType DEF placeBid, Work
<1>8. UNCHANGED <<tick, reorg, spectrum, leaves, dirtyVars>>
  BY DEF placeBid, tableVars
<1>9. CASE bid.quantity > 1
  <2>1. pc' = pc /\ after' = after /\ payments' = released
        /\ bid' = [bid EXCEPT !.quantity = @ - 1]
    BY <1>9 DEF placeBid
  <2>2. bid' \in Offer
    BY <1>1, <1>2, <1>9, <2>1 DEF Offer
  <2> HIDE DEF released
  <2>3. pc' \notin Places /\ pc' \in Holds
    BY <1>1, <2>1 DEF Places, Holds
  <2>4. Work'
    <3>1. pc' = "placing" /\ after' \in Places /\ payments' \in Seq(Payment)
      BY <1>1, <1>6, <2>1 DEF Work
    <3> QED BY ONLY <1>7, <2>2, <2>3, <3>1 DEF Work
  <2>5. Kept
    BY <1>1, <1>8, <2>1, QuietStep
  <2> QED BY <1>1, <1>8, <2>4, <2>5
<1>10. CASE ~(bid.quantity > 1)
  <2>1. Pay(released, bid.back)
    BY <1>10 DEF placeBid
  <2>2. bid.back \in Places /\ bid.back # "bidding"
    BY <1>2 DEF Places
  <2> HIDE DEF released
  <2>3. Work'
    BY <1>1, <1>6, <1>7, <2>1, <2>2, PayWork
  <2>4. pc' \in {"tick", "epochEnd", "paying"}
    BY <1>2, <2>1 DEF Pay
  <2>5. Kept
    BY <1>1, <1>8, <2>4, QuietStep
  <2> QED BY <1>1, <1>8, <2>3, <2>5
<1> QED BY <1>9, <1>10

\* increaseEnergy, and its last part after a reorganisation.
LEMMA IncreaseEnergyStep ==
  ASSUME IInv, increaseEnergy \/ insert
  PROVE  Kept /\ Work' /\ tick' \in Nat
<1> DEFINE p == Head(payments)
<1>1. /\ Work /\ tick \in Nat /\ pc \in {"paying", "inserting"}
      /\ payments # <<>> /\ payments \in Seq(Payment) /\ p.key # Zero
  BY DEF IInv, Work, increaseEnergy, insert, NextPayment
<1>2. p \in Payment
  BY <1>1
<1>3. Deposit(p) /\ Paid /\ UNCHANGED <<tick, after, bid, reorg, ipo, sale>>
  BY DEF increaseEnergy, insert
<1>4. Work'
  BY <1>1, <1>3, PaidWork
<1>5. pc' \in Places \cup {"paying"}
  BY <1>1, <1>3 DEF Paid, Work
<1> HIDE DEF p
<1>6. Kept
  BY <1>1, <1>2, <1>3, <1>5, DepositStep DEF Places
<1> QED BY <1>1, <1>3, <1>4, <1>6

\* A payment to the zero key changes no balance.
LEMMA IgnoreZeroStep ==
  ASSUME IInv, ignoreZero
  PROVE  Kept /\ Work' /\ tick' \in Nat
<1>1. Work /\ tick \in Nat /\ pc = "paying" /\ payments # <<>>
  BY DEF IInv, ignoreZero
<1>2. /\ Paid /\ UNCHANGED <<tick, after, bid, reorg, ipo, sale>>
      /\ UNCHANGED <<spectrum, leaves, dirtyVars>>
  BY DEF ignoreZero, tableVars
<1>3. Work'
  BY <1>1, <1>2, PaidWork
<1>4. pc' \in Places \cup {"paying"}
  BY <1>1, <1>2 DEF Paid, Work
<1>5. Kept
  BY <1>1, <1>2, <1>4, QuietStep DEF Places
<1> QED BY <1>1, <1>2, <1>3, <1>5

\* Steps of a reorganisation leave what is to be paid.
LEMMA ReorganizeWork ==
  ASSUME IInv, burnDust \/ reorganizeBegin \/ reorganizeEntry \/ reorganizeEnd
  PROVE  Work' /\ tick' \in Nat
<1>1. Work /\ tick \in Nat
  BY DEF IInv
<1>2. CASE burnDust
  BY <1>1, <1>2 DEF Work, burnDust, NextPayment, Places, Holds
<1>3. CASE reorganizeBegin
  BY <1>1, <1>3 DEF Work, reorganizeBegin, Places, Holds
<1>4. CASE reorganizeEntry
  BY <1>1, <1>4 DEF Work, reorganizeEntry, Places, Holds
<1>5. CASE reorganizeEnd
  <2>1. pc = "reorganizing" /\ pc' = IF payments = <<>> THEN "tick" ELSE "inserting"
    BY <1>5 DEF reorganizeEnd
  <2>2. UNCHANGED <<tick, after, payments, bid, ipo, sale>>
    BY <1>5 DEF reorganizeEnd
  <2>3. payments = <<>> => after # "bidding"
    BY <1>1, <2>1 DEF Work, Holds
  <2> QED BY <1>1, <2>1, <2>2, <2>3 DEF Work, Places, Holds
<1> QED BY <1>2, <1>3, <1>4, <1>5

\* finishIPOs fixes the final price.
LEMMA FinishIPOsStep ==
  ASSUME IInv, finishIPOs
  PROVE  Kept /\ Work' /\ tick' \in Nat
<1>1. Work /\ tick \in Nat /\ pc = "epochEnd" /\ pc' = "refunding"
  BY DEF IInv, finishIPOs
<1>2. /\ UNCHANGED <<tick, after, payments, bid, reorg, ipo>>
      /\ UNCHANGED <<spectrum, leaves, dirtyVars>>
  BY DEF finishIPOs, tableVars
<1>3. Kept
  BY <1>1, <1>2, QuietStep
<1>4. sale' \in [final : Nat, next : 1..Shares]
  <2>1. ipo[Shares].price \in Nat /\ 1 \in 1..Shares
    BY <1>1, BidTypes, BiddersAssumption DEF Bid
  <2>2. PICK final \in {0, ipo[Shares].price} : sale' = [final |-> final, next |-> 1]
    BY DEF finishIPOs
  <2>3. final \in Nat
    BY <2>1
  <2> QED BY <2>1, <2>2, <2>3
<1>5. Work'
  BY <1>1, <1>2, <1>4 DEF Work, Places, Holds
<1> QED BY <1>1, <1>2, <1>3, <1>5

\* A round of finishIPOs notes as a payment what the final price leaves of a bid.
LEMMA RefundStep ==
  ASSUME IInv, refund
  PROVE  Kept /\ Work' /\ tick' \in Nat
<1>1. Work /\ tick \in Nat /\ pc = "refunding" /\ sale \in [final : Nat, next : 1..Shares]
  BY DEF IInv, Work, refund
<1> DEFINE x == ipo[sale.next]
           released == Release(payments, x.key, Refund(x))
<1>2. sale.next \in 1..Shares /\ Shares \in Nat
  BY <1>1, BiddersAssumption
<1>3. x.key \in Keys \cup {Zero} /\ Refund(x) \in Nat
  BY <1>1, <1>2, BidTypes DEF Bid
<1>4. released \in Seq(Payment)
  BY <1>1, <1>3, ReleaseType DEF Work
<1>5. ipo' \in [1..Shares -> Bid]
  <2>1. [key |-> Zero, price |-> 0] \in Bid
    BY DEF Bid
  <2>2. ipo' = [ipo EXCEPT ![sale.next] = [key |-> Zero, price |-> 0]]
    BY DEF refund
  <2> QED BY <1>1, <2>1, <2>2 DEF Work
<1>6. UNCHANGED <<tick, reorg, spectrum, leaves, dirtyVars, bid>>
  BY DEF refund, tableVars
<1>7. CASE sale.next < Shares
  <2>1. /\ pc' = pc /\ after' = after /\ payments' = released
        /\ sale' = [sale EXCEPT !.next = @ + 1]
    BY <1>7 DEF refund
  <2>2. sale' \in [final : Nat, next : 1..Shares]
    BY <1>1, <1>2, <1>7, <2>1
  <2> HIDE DEF released
  <2>3. Work'
    BY <1>1, <1>4, <1>5, <1>6, <2>1, <2>2 DEF Work, Places, Holds
  <2>4. Kept
    BY <1>1, <1>6, <2>1, QuietStep
  <2> QED BY <1>1, <1>6, <2>3, <2>4
<1>8. CASE ~(sale.next < Shares)
  <2>1. Pay(released, "issuing") /\ sale' = NoSale
    BY <1>8 DEF refund
  <2>2. sale' \in [final : Nat, next : 1..Shares] /\ "issuing" \in Places
    <3>1. NoSale \in [final : Nat, next : 1..Shares]
      BY BiddersAssumption DEF NoSale
    <3> QED BY <2>1, <3>1 DEF Places
  <2> HIDE DEF released
  <2>3. Work'
    BY <1>1, <1>4, <1>5, <2>1, <2>2, PayWork
  <2>4. pc' \in {"issuing", "paying"}
    BY <2>1 DEF Pay
  <2>5. Kept
    BY <1>1, <1>6, <2>4, QuietStep
  <2> QED BY <1>1, <1>6, <2>3, <2>5
<1> QED BY <1>7, <1>8

\* endEpoch notes the revenues as payments.
LEMMA IssueStep ==
  ASSUME IInv, issue
  PROVE  Kept /\ Work' /\ tick' \in Nat
<1>1. Work /\ tick \in Nat /\ pc = "issuing" /\ payments = <<>> /\ after # "bidding"
  BY DEF IInv, Work, issue, Places, Holds
<1>2. UNCHANGED <<tick, reorg, spectrum, leaves, dirtyVars, bid, ipo, sale>>
  BY DEF issue, tableVars
<1>3. CASE spectrumInfo.totalAmount + ISSUANCE_RATE <= MAX_SUPPLY
  <2>1. PICK revenue \in 0..ISSUANCE_RATE : \E donation \in 0..revenue :
          Pay(<<[key |-> Donee, amount |-> donation],
                [key |-> Computor, amount |-> revenue - donation],
                [key |-> Arbitrator, amount |-> ISSUANCE_RATE - revenue]>>, "closing")
    BY <1>3 DEF issue, MayIssue
  <2>2. PICK donation \in 0..revenue :
          Pay(<<[key |-> Donee, amount |-> donation],
                [key |-> Computor, amount |-> revenue - donation],
                [key |-> Arbitrator, amount |-> ISSUANCE_RATE - revenue]>>, "closing")
    BY <2>1
  <2> DEFINE list == <<[key |-> Donee, amount |-> donation],
                       [key |-> Computor, amount |-> revenue - donation],
                       [key |-> Arbitrator, amount |-> ISSUANCE_RATE - revenue]>>
  <2>3. donation \in Nat /\ revenue - donation \in Nat /\ ISSUANCE_RATE - revenue \in Nat
    BY AmountsAssumption
  <2>4. list \in Seq(Payment) /\ list # <<>>
    BY <2>3, PaidAssumption DEF Payment
  <2>5. Pay(list, "closing") /\ "closing" \in Places
    BY <2>2 DEF Places
  <2> HIDE DEF list
  <2>6. ipo' \in [1..Shares -> Bid] /\ sale' \in [final : Nat, next : 1..Shares]
    BY <1>1, <1>2 DEF Work
  <2>7. Work'
    BY <1>1, <2>4, <2>5, <2>6, PayWork
  <2>8. pc' \in {"closing", "paying"}
    BY <2>5 DEF Pay
  <2>9. Kept
    BY <1>1, <1>2, <2>8, QuietStep
  <2> QED BY <1>1, <1>2, <2>7, <2>9
<1>4. CASE ~(spectrumInfo.totalAmount + ISSUANCE_RATE <= MAX_SUPPLY)
  <2>1. pc' = "closing" /\ UNCHANGED <<after, payments>>
    BY <1>4 DEF issue, MayIssue
  <2>2. Kept
    BY <1>1, <1>2, <2>1, QuietStep
  <2>3. Work'
    BY <1>1, <1>2, <2>1 DEF Work, Places, Holds
  <2> QED BY <1>1, <1>2, <2>2, <2>3
<1> QED BY <1>3, <1>4

\* The digest and the next tick leave what is to be paid: nothing.
LEMMA TickWork ==
  ASSUME IInv, getSpectrumDigest \/ nextTick
  PROVE  Work'
<1>1. Work
  BY DEF IInv
<1>2. CASE getSpectrumDigest
  BY <1>1, <1>2 DEF Work, getSpectrumDigest, Places, Holds
<1>3. CASE nextTick
  BY <1>1, <1>3 DEF Work, nextTick, Places, Holds
<1> QED BY <1>2, <1>3

\* One step of the writing thread.
LEMMA EveryStep ==
  ASSUME IInv, Next
  PROVE  Kept /\ Work' /\ tick' \in Nat
<1>1. CASE \E source \in Keys, destination \in Keys \cup {Zero}, amount \in Amounts :
             transfer(source, destination, amount)
  BY <1>1, TransferStep
<1>2. CASE \E amount \in Amounts : burn(amount)
  BY <1>2, BurnQusStep
<1>3. CASE \E source \in Bidders, price \in Prices, quantity \in 1..Shares :
             bidTransaction(source, price, quantity) \/ bidInIPO(source, price, quantity)
  BY <1>3, BidTransactionStep, BidInIPOStep
<1>4. CASE bidInContractIPO \/ placeBid
  BY <1>4, BidInContractIPOStep, PlaceBidStep
<1>5. CASE increaseEnergy \/ ignoreZero \/ insert
  BY <1>5, IncreaseEnergyStep, IgnoreZeroStep
<1>6. CASE burnDust \/ reorganizeBegin \/ reorganizeEntry \/ reorganizeEnd
  BY <1>6, BurnStep, ReorganizeBeginStep, ReorganizeEntryStep, ReorganizeEndStep, ReorganizeWork
<1>7. CASE getSpectrumDigest
  <2>1. tick' \in Nat
    BY <1>7 DEF IInv, getSpectrumDigest
  <2> QED BY <1>7, <2>1, DigestStep, TickWork
<1>8. CASE nextTick
  BY <1>8, TickStep, TickWork
<1>9. CASE finishIPOs \/ refund \/ issue
  BY <1>9, FinishIPOsStep, RefundStep, IssueStep
<1> QED BY <1>1, <1>2, <1>3, <1>4, <1>5, <1>6, <1>7, <1>8, <1>9 DEF Next

\* Every step of the writing thread keeps the inductive invariant.
LEMMA NextIInv == IInv /\ [Next]_vars => IInv'
<1>1. ASSUME IInv, Next PROVE IInv'
  BY <1>1, EveryStep DEF Kept, IInv
<1>2. ASSUME IInv, UNCHANGED vars PROVE IInv'
  <2>1. /\ UNCHANGED <<tick, spectrum, leaves, spectrumDirtyList, spectrumDirtyOverflow>>
        /\ UNCHANGED <<pc, after, payments, bid, reorg, ipo, sale>>
    BY <1>2 DEF vars, tableVars, dirtyVars
  <2>2. Table(spectrum)' /\ Placed(spectrum)' /\ tick' \in Nat
    BY <1>2, <2>1 DEF IInv, Table, Placed
  <2>3. Work'
    BY <1>2, <2>1 DEF IInv, Work
  <2>4. Copied'
    BY <1>2, <2>1 DEF IInv, Copied, Table, Placed
  <2>5. Hashed'
    BY <1>2, <2>1 DEF IInv, Hashed, Touched
  <2> QED BY <2>2, <2>3, <2>4, <2>5 DEF IInv
<1> QED BY <1>1, <1>2

----------------------------------------------------------------------------
(* Theorems *)

\* The inductive invariant holds in every reachable state of the spectrum.
LEMMA Invariance == Spec => []IInv
BY InitIInv, NextIInv, PTL DEF Spec

\* Every entity is found by spectrumIndex, at one place, whatever was inserted,
\* burned and reorganised (spectrum/spectrum.h).
THEOREM SpectrumEntitiesFound == Spec => []EntitiesFound
<1>1. IInv => EntitiesFound
  BY Found DEF IInv, EntitiesFound, Occupied
<1> QED BY <1>1, Invariance, PTL

\* At the end of a tick the digest of every entry is that of the entry, although
\* getSpectrumDigest hashed only what was marked dirty.
THEOREM SpectrumLeavesExact == Spec => []LeavesExact
<1>1. IInv => LeavesExact
  BY DEF IInv, Hashed, LeavesExact
<1> QED BY <1>1, Invariance, PTL

\* What lookups return is a ledger: deposits and withdrawals concern one identity
\* and dust is burned whole; probing and reorganisations are not seen.
THEOREM SpectrumImplementsLedger == Spec => ImplementsLedger
<1>1. Init => Promise!Init
  <2>1. ASSUME IInv, Init PROVE Promise!Init
    BY <2>1, EnergyType DEF IInv, Promise!Init, Init
  <2> QED BY <2>1, InitIInv
<1>2. IInv /\ [Next]_vars => [Promise!Next]_<<Balances, pc = "reorganizing">>
  <2>1. ASSUME IInv, Next PROVE Promise!Next \/ Unseen
    BY <2>1, EveryStep DEF Kept
  <2>2. ASSUME UNCHANGED vars PROVE Unseen
    BY <2>2, SameBalances DEF vars, tableVars, Unseen
  <2>3. ASSUME Unseen PROVE UNCHANGED <<Balances, pc = "reorganizing">>
    BY <2>3 DEF Unseen
  <2> QED BY <2>1, <2>2, <2>3
<1> QED BY <1>1, <1>2, Invariance, PTL DEF Spec, ImplementsLedger, Promise!Spec, Balances
=============================================================================
