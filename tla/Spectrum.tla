------------------------------ MODULE Spectrum ------------------------------
(***************************************************************************)
(* The spectrum: the hash map of all balances (spectrum/spectrum.h), its   *)
(* Merkle tree, and the operations that move qus: transfers, the payments  *)
(* of an IPO (contract_core/ipo.h), the emission at the end of an epoch    *)
(* and the burning of dust when the map is three quarters full.            *)
(*                                                                         *)
(* Only one thread at a time changes the spectrum: the tick processor and  *)
(* the contract processor hand over to each other.  spectrumLock is        *)
(* released between a withdrawal and the deposit that follows it, and held *)
(* through a deposit with its reorganisation.  A digest is represented by  *)
(* what was hashed.                                                        *)
(***************************************************************************)
EXTENDS SpectrumTable

VARIABLES
  tick,                  \* system.tick
  spectrum,
  spectrumInfo,          \* numberOfEntities and totalAmount
  leaves, nodes,         \* spectrumDigests: of the slots, and above them
  spectrumDirtyList, spectrumDirtyOverflow,
  pc, after,             \* where the writing thread is, and goes when all is paid
  payments,              \* deposits it still has to make
  bid,                   \* the bid of the transaction it executes
  reorg,                 \* reorgSpectrum and the slot it is copied from next
  ipo,                   \* the bids that would get a share, best first
  sale,                  \* the final price, and the share it is paid for next
  supply,                \* history: qus that should exist
  operations             \* history: operations begun, for a bound

tableVars == <<spectrum, spectrumInfo, leaves, nodes>>
dirtyVars == <<spectrumDirtyList, spectrumDirtyOverflow>>
vars == <<tick, tableVars, dirtyVars, pc, after, payments, bid, reorg, ipo, sale,
          supply, operations>>

----------------------------------------------------------------------------
(* Withdrawals and deposits *)

\* Mutation of MarkDirty: an entry that does not fit is forgotten.
MarkDirty_Forget(i) ==
  /\ spectrumDirtyList' = IF Len(spectrumDirtyList) < DirtyCapacity
                            THEN Append(spectrumDirtyList, i) ELSE spectrumDirtyList
  /\ UNCHANGED spectrumDirtyOverflow

\* spectrumMarkDirty
MarkDirty(i) ==
  IF Len(spectrumDirtyList) < DirtyCapacity
    THEN /\ spectrumDirtyList' = Append(spectrumDirtyList, i)
         /\ UNCHANGED spectrumDirtyOverflow
    ELSE /\ spectrumDirtyOverflow' = TRUE
         /\ UNCHANGED spectrumDirtyList

\* Mutation of Withdraw: an entry without a balance is taken out of the map.
Withdraw_Deletes(i, amount) ==
  /\ spectrum' = [spectrum EXCEPT ![i] = IF @.balance = amount THEN EmptyEntry
       ELSE [@ EXCEPT !.balance = @ - amount, !.latestOut = tick]]
  /\ spectrumInfo' = [spectrumInfo EXCEPT !.totalAmount = @ - amount]
  /\ MarkDirty(i)
  /\ UNCHANGED <<leaves, nodes>>

\* decreaseEnergy at a slot the caller has looked up before.
Withdraw(i, amount) ==
  /\ spectrum' = [spectrum EXCEPT ![i].balance = @ - amount, ![i].latestOut = tick]
  /\ spectrumInfo' = [spectrumInfo EXCEPT !.totalAmount = @ - amount]
  /\ MarkDirty(i)
  /\ UNCHANGED <<leaves, nodes>>

\* The end of increaseEnergy: at "iteration".
Deposit(p) ==
  LET i == Probe(spectrum, p.key) IN
  /\ Ends(spectrum, p.key)
  /\ spectrum' = [spectrum EXCEPT ![i] =
       [key |-> p.key, balance |-> @.balance + p.amount, latestIn |-> tick,
        latestOut |-> @.latestOut]]
  /\ spectrumInfo' = [numberOfEntities |-> spectrumInfo.numberOfEntities
                                           + (IF spectrum[i].key = Zero THEN 1 ELSE 0),
                      totalAmount |-> spectrumInfo.totalAmount + p.amount]
  /\ MarkDirty(i)
  /\ UNCHANGED <<leaves, nodes>>

----------------------------------------------------------------------------
(* Deposits, and the burning of dust *)

ThreeQuarters == (Capacity \div 2) + (Capacity \div 4)
\* Mutation of MustBurn: one entity too late.
MustBurn_Late == spectrumInfo.numberOfEntities > ThreeQuarters

MustBurn == spectrumInfo.numberOfEntities >= ThreeQuarters

\* The payment is made in increaseEnergy, which ignores the zero key.
NextPayment ==
  /\ pc = "paying" /\ payments # <<>>
  /\ Head(payments).key # Zero

Paid ==
  /\ payments' = Tail(payments)
  /\ IF Tail(payments) = <<>> THEN pc' = after ELSE pc' = "paying"

\* increaseEnergy while the map is not crowded.
increaseEnergy ==
  /\ NextPayment /\ ~MustBurn
  /\ Deposit(Head(payments))
  /\ Paid
  /\ UNCHANGED <<tick, after, bid, reorg, ipo, sale, supply, operations>>

\* A payment to the zero key burns the amount.
ignoreZero ==
  /\ pc = "paying" /\ payments # <<>> /\ Head(payments).key = Zero
  /\ Paid
  /\ supply' = supply - Head(payments).amount
  /\ UNCHANGED <<tick, tableVars, dirtyVars, after, bid, reorg, ipo, sale, operations>>

\* increaseEnergy when it is: first the dust is burned, then the map is
\* reorganised, and the deposit comes last.
burnDust ==
  /\ NextPayment /\ MustBurn
  /\ spectrum' = [i \in Slots |->
       IF i \in Dust(spectrum) THEN [spectrum[i] EXCEPT !.balance = 0] ELSE spectrum[i]]
  /\ supply' = supply - MapThenSumSet(LAMBDA i : spectrum[i].balance, Dust(spectrum))
  /\ pc' = "reorganizing"
  /\ reorg' = [into |-> EmptyTable, next |-> 0]
  /\ spectrumDirtyOverflow' = TRUE /\ spectrumDirtyList' = <<>>
  /\ UNCHANGED <<tick, spectrumInfo, leaves, nodes, after, payments, bid, ipo, sale, operations>>

\* One round of the loop of reorganizeSpectrum: an entity with a balance moves to
\* the first empty slot after its home.
EmptyAfter(t, k, d) ==
  /\ t[Slot(k, d)].key = Zero
  /\ \A e \in 0..d - 1 : t[Slot(k, e)].key # Zero
\* Mutation of FirstEmpty: an entity is written to its home whatever is there.
FirstEmpty_Home(t, k) == home[k]

FirstEmpty(t, k) == Slot(k, CHOOSE d \in Slots : EmptyAfter(t, k, d))

reorganizeEntry ==
  LET e == spectrum[reorg.next] IN
  /\ pc = "reorganizing" /\ reorg.next < Capacity
  /\ e.balance # 0 => \E d \in Slots : EmptyAfter(reorg.into, e.key, d)
  /\ reorg' = [next |-> reorg.next + 1,
               into |-> IF e.balance = 0 THEN reorg.into
                        ELSE [reorg.into EXCEPT ![FirstEmpty(reorg.into, e.key)] = e]]
  /\ UNCHANGED <<tick, tableVars, dirtyVars, pc, after, payments, bid, ipo, sale, supply,
                 operations>>

\* The end of reorganizeSpectrum: all digests are computed again.
reorganizeEnd ==
  /\ pc = "reorganizing" /\ reorg.next = Capacity
  /\ spectrum' = reorg.into
  /\ leaves' = reorg.into /\ nodes' = FullTree(reorg.into)
  /\ spectrumInfo' = InfoOf(reorg.into)
  /\ reorg' = [into |-> EmptyTable, next |-> 0]
  /\ pc' = IF payments = <<>> THEN "tick" ELSE "inserting"
  /\ UNCHANGED <<tick, dirtyVars, after, payments, bid, ipo, sale, supply, operations>>

\* The deposit after a reorganisation.
insert ==
  /\ pc = "inserting"
  /\ Deposit(Head(payments))
  /\ Paid
  /\ UNCHANGED <<tick, after, bid, reorg, ipo, sale, supply, operations>>

----------------------------------------------------------------------------
(* Transactions and contract procedures *)

NoSale == [final |-> 0, next |-> 1]
NoBid == [index |-> -1, key |-> Zero, price |-> 0, quantity |-> 0, back |-> "tick"]

Pay(list, next) ==
  /\ payments' = list /\ after' = next
  /\ pc' = IF list = <<>> THEN next ELSE "paying"

Begin == operations < MaxOperations /\ operations' = operations + 1

\* A transfer by a transaction or a contract: it is executed only if the source
\* has enough.
transfer(source, destination, amount) ==
  /\ pc \in {"tick", "epochEnd"} /\ Begin
  /\ spectrumIndex(spectrum, source) # -1
  /\ energy(spectrum, source) >= amount
  /\ Withdraw(spectrumIndex(spectrum, source), amount)
  /\ Pay(<<[key |-> destination, amount |-> amount]>>, pc)
  /\ UNCHANGED <<tick, bid, reorg, ipo, sale, supply>>

\* QpiContextProcedureCall::burn: the amount goes to a fee reserve.
burn(amount) ==
  /\ pc \in {"tick", "epochEnd"} /\ Begin
  /\ spectrumIndex(spectrum, Contract) # -1
  /\ energy(spectrum, Contract) >= amount
  /\ Withdraw(spectrumIndex(spectrum, Contract), amount)
  /\ supply' = supply - amount
  /\ UNCHANGED <<tick, pc, after, payments, bid, reorg, ipo, sale>>

\* A transaction with a bid: it has amount 0, which is moved to the contract like
\* any other amount before the bid is made with the index found at the start.
bidTransaction(source, price, quantity) ==
  /\ pc = "tick" /\ Begin
  /\ spectrumIndex(spectrum, source) # -1
  /\ Withdraw(spectrumIndex(spectrum, source), 0)
  /\ bid' = [index |-> spectrumIndex(spectrum, source), key |-> source,
             price |-> price, quantity |-> quantity, back |-> "tick"]
  /\ Pay(<<[key |-> Contract, amount |-> 0]>>, "bidding")
  /\ UNCHANGED <<tick, reorg, ipo, sale, supply>>

\* QpiContextProcedureCall::bidInIPO
bidInIPO(source, price, quantity) ==
  /\ pc \in {"tick", "epochEnd"} /\ Begin
  /\ spectrumIndex(spectrum, source) # -1
  /\ bid' = [index |-> spectrumIndex(spectrum, source), key |-> source,
             price |-> price, quantity |-> quantity, back |-> pc]
  /\ pc' = "bidding"
  /\ UNCHANGED <<tick, tableVars, dirtyVars, after, payments, reorg, ipo, sale, supply>>

\* The worst bid that would get a share is 0 as long as there are too few.
NoBids == [i \in 1..Shares |-> [key |-> Zero, price |-> 0]]

\* Amounts to pay back are collected per identity.
Release(list, k, amount) ==
  IF amount = 0 THEN list
  ELSE IF \E j \in DOMAIN list : list[j].key = k
    THEN [j \in DOMAIN list |->
            IF list[j].key = k THEN [list[j] EXCEPT !.amount = @ + amount] ELSE list[j]]
    ELSE Append(list, [key |-> k, amount |-> amount])

\* decreaseEnergy for the bid; it fails if the balance is too small.
bidInContractIPO ==
  /\ pc = "bidding"
  /\ IF spectrum[bid.index].balance >= bid.price * bid.quantity
       THEN /\ Withdraw(bid.index, bid.price * bid.quantity)
            /\ pc' = "placing"
            /\ UNCHANGED <<after, bid>>
       ELSE /\ pc' = bid.back /\ after' = bid.back /\ bid' = NoBid
            /\ UNCHANGED <<tableVars, dirtyVars>>
  /\ UNCHANGED <<tick, payments, reorg, ipo, sale, supply, operations>>

\* The bids with a better one inserted: it stays behind the equal ones.
Ranked(k, price) ==
  LET ahead == {i \in 1..Shares - 1 : ipo[i].price >= price} IN
  [i \in 1..Shares |->
     IF i \in ahead THEN ipo[i]
     ELSE IF i = 1 \/ i - 1 \in ahead THEN [key |-> k, price |-> price]
     ELSE ipo[i - 1]]

\* Mutation of Displaced: a displaced bid is paid back at the price of the new one.
Displaced_NewPrice ==
  IF bid.price <= ipo[Shares].price THEN [key |-> bid.key, price |-> bid.price]
                                    ELSE [key |-> ipo[Shares].key, price |-> bid.price]

\* Who is paid back: the new bid if it is not better than the worst, or the worst.
Displaced ==
  IF bid.price <= ipo[Shares].price THEN [key |-> bid.key, price |-> bid.price]
                                    ELSE ipo[Shares]

\* One round of the loop of bidInContractIPO; the last one is followed by the
\* payments.
placeBid ==
  LET released == Release(payments, Displaced.key, Displaced.price) IN
  /\ pc = "placing"
  /\ ipo' = IF bid.price <= ipo[Shares].price THEN ipo ELSE Ranked(bid.key, bid.price)
  /\ IF bid.quantity > 1
       THEN /\ payments' = released
            /\ bid' = [bid EXCEPT !.quantity = @ - 1]
            /\ UNCHANGED <<pc, after>>
       ELSE /\ Pay(released, bid.back)
            /\ bid' = NoBid
  /\ UNCHANGED <<tick, tableVars, dirtyVars, reorg, sale, supply, operations>>

----------------------------------------------------------------------------
(* Ends of ticks and epochs *)

\* Entries whose last transfer was in this tick.
Touched == {i \in Slots : tick \in {spectrum[i].latestIn, spectrum[i].latestOut}}

\* getSpectrumDigest: the entries on the list, or all of them if it overflowed,
\* are hashed again if they were touched in this tick.
getSpectrumDigest ==
  LET changed == IF spectrumDirtyOverflow THEN Touched
                                          ELSE Touched \cap Range(spectrumDirtyList)
      hashed == [i \in Slots |-> IF i \in changed THEN spectrum[i] ELSE leaves[i]]
  IN
  /\ pc = "tick"
  /\ leaves' = hashed
  /\ nodes' = Climb(hashed, nodes, changed)
  /\ spectrumDirtyList' = <<>> /\ spectrumDirtyOverflow' = FALSE
  /\ pc' = "digested"
  /\ UNCHANGED <<tick, spectrum, spectrumInfo, after, payments, bid, reorg, ipo, sale, supply,
                 operations>>

\* The tick is completed, and possibly the epoch.
nextTick ==
  /\ pc = "digested" /\ tick < LastTick
  /\ tick' = tick + 1
  /\ pc' \in {"tick", "epochEnd"}
  /\ UNCHANGED <<tableVars, dirtyVars, after, payments, bid, reorg, ipo, sale, supply, operations>>

\* finishIPOs, after the contracts' END_EPOCH procedures.  Without enough bids,
\* or if the shares cannot be issued, the final price is 0.
finishIPOs ==
  /\ pc = "epochEnd"
  /\ pc' = "refunding"
  /\ \E final \in {0, ipo[Shares].price} : sale' = [final |-> final, next |-> 1]
  /\ UNCHANGED <<tick, tableVars, dirtyVars, after, payments, bid, reorg, ipo, supply, operations>>

\* Everybody pays the lowest price that gets a share; the rest is paid back.
Refund(x) == IF x.price > sale.final THEN x.price - sale.final ELSE 0

\* One round of the loop of finishIPOs; the last one is followed by the payments.
\* The final price goes to the contract's fee reserve.
refund ==
  LET x == ipo[sale.next]
      released == Release(payments, x.key, Refund(x))
  IN
  /\ pc = "refunding"
  /\ supply' = supply - sale.final
  /\ ipo' = [ipo EXCEPT ![sale.next] = [key |-> Zero, price |-> 0]]
  /\ IF sale.next < Shares
       THEN /\ payments' = released
            /\ sale' = [sale EXCEPT !.next = @ + 1]
            /\ UNCHANGED <<pc, after>>
       ELSE /\ Pay(released, "issuing")
            /\ sale' = NoSale
  /\ UNCHANGED <<tick, tableVars, dirtyVars, bid, reorg, operations>>

MayIssue == spectrumInfo.totalAmount + ISSUANCE_RATE <= MAX_SUPPLY

\* endEpoch: a computor's revenue, less a donation, and the arbitrator's.
issue ==
  /\ pc = "issuing"
  /\ IF MayIssue
       THEN \E revenue \in 0..ISSUANCE_RATE : \E donation \in 0..revenue :
              /\ Pay(<<[key |-> Donee, amount |-> donation],
                       [key |-> Computor, amount |-> revenue - donation],
                       [key |-> Arbitrator, amount |-> ISSUANCE_RATE - revenue]>>, "closing")
              /\ supply' = supply + ISSUANCE_RATE
       ELSE /\ pc' = "closing"
            /\ UNCHANGED <<after, payments, supply>>
  /\ UNCHANGED <<tick, tableVars, dirtyVars, bid, reorg, ipo, sale, operations>>

\* reorganizeSpectrum begins, called from endEpoch.
reorganizeBegin ==
  /\ pc = "closing"
  /\ pc' = "reorganizing"
  /\ reorg' = [into |-> EmptyTable, next |-> 0]
  /\ spectrumDirtyOverflow' = TRUE /\ spectrumDirtyList' = <<>>
  /\ UNCHANGED <<tick, tableVars, after, payments, bid, ipo, sale, supply, operations>>

----------------------------------------------------------------------------
Init ==
  /\ tick = 1
  /\ spectrum \in Saved
  /\ spectrumInfo = InfoOf(spectrum)
  /\ leaves = spectrum /\ nodes = FullTree(spectrum)
  /\ spectrumDirtyList = <<>> /\ spectrumDirtyOverflow = TRUE
  /\ pc = "tick" /\ after = "tick"
  /\ payments = <<>> /\ bid = NoBid
  /\ reorg = [into |-> EmptyTable, next |-> 0]
  /\ ipo = NoBids /\ sale = NoSale
  /\ supply = Total(spectrum)
  /\ operations = 0

Next ==
  \/ \E source \in Keys, destination \in Keys \cup {Zero}, amount \in Amounts :
       transfer(source, destination, amount)
  \/ \E amount \in Amounts : burn(amount)
  \/ \E source \in Bidders, price \in Prices, quantity \in 1..Shares :
       bidTransaction(source, price, quantity) \/ bidInIPO(source, price, quantity)
  \/ bidInContractIPO \/ placeBid
  \/ increaseEnergy \/ ignoreZero \/ burnDust \/ insert
  \/ reorganizeBegin \/ reorganizeEntry \/ reorganizeEnd
  \/ getSpectrumDigest \/ nextTick
  \/ finishIPOs \/ refund \/ issue

Spec == Init /\ [][Next]_vars

----------------------------------------------------------------------------
(* Properties *)

Payment == [key : Keys \cup {Zero}, amount : Nat]
Places == {"tick", "epochEnd", "bidding", "issuing", "closing"}

\* The variables have their types, and a bid is being made only between the
\* start of its transaction and bidInContractIPO.
TypeOK ==
  /\ tick \in Nat /\ supply \in Nat /\ operations \in Nat
  /\ spectrum \in [Slots -> Entry] /\ leaves \in [Slots -> Entry]
  /\ spectrumInfo \in [numberOfEntities : Nat, totalAmount : Nat]
  /\ spectrumDirtyList \in Seq(Slots) /\ spectrumDirtyOverflow \in BOOLEAN
  /\ pc \in Places \cup {"placing", "refunding", "paying", "inserting",
                      "reorganizing", "digested"}
  /\ after \in Places
  /\ payments \in Seq(Payment)
  /\ bid = NoBid \/ /\ bid.index \in Slots /\ bid.key \in Keys
                    /\ bid.price \in Prices /\ bid.quantity \in 1..Shares
                    /\ bid.back \in {"tick", "epochEnd"}
  /\ pc \in {"paying", "inserting"} => payments # <<>>
  /\ reorg.into \in [Slots -> Entry] /\ reorg.next \in 0..Capacity
  /\ ipo \in [1..Shares -> [key : Keys \cup {Zero}, price : Nat]]
  /\ sale.final \in Nat /\ sale.next \in 1..Shares

\* Whatever was inserted, burned and reorganised, every entity is found by
\* spectrumIndex, and it has one entry only.
EntitiesFound ==
  \A i \in Occupied(spectrum) : spectrumIndex(spectrum, spectrum[i].key) = i

\* The anti-dust feature keeps the map at most three quarters full, so that
\* every search ends, and leaves less than half of it after burning.
NeverCrowded ==
  /\ Cardinality(Occupied(spectrum)) <= ThreeQuarters
  /\ pc = "inserting" => Cardinality(Occupied(spectrum)) < Capacity \div 2

\* The running totals of spectrumInfo are those of the map, and no qu appears or
\* disappears but by issuing and burning: what is not in the map is being paid, or
\* bid, or held by the IPO.  The emission of endEpoch, which trusts the running
\* total, stops before the supply would exceed its maximum.
Conserved ==
  /\ pc # "reorganizing" => spectrumInfo = InfoOf(spectrum)
  /\ Total(spectrum) + SumFunction([j \in DOMAIN payments |-> payments[j].amount])
       + SumFunction([j \in DOMAIN ipo |-> ipo[j].price])
       + (IF pc = "placing" THEN bid.price * bid.quantity ELSE 0) = supply
  /\ supply <= MAX_SUPPLY

\* At the end of a tick every entry is hashed as it is.
LeavesExact == pc = "digested" => leaves = spectrum

\* The digest voted on covers the whole spectrum as it is at the end of the
\* tick, although only the entries on the list were hashed again.
DigestExact == LeavesExact /\ (pc = "digested" => nodes = FullTree(spectrum))

\* The spectrum implements a ledger: what the lookups return changes only as the
\* ledger allows, and a reorganisation changes nothing at all.
Promise == INSTANCE Ledger WITH
  balances   <- [k \in Keys |-> energy(spectrum, k)],
  rebuilding <- pc = "reorganizing"
ImplementsLedger == Promise!Spec
=============================================================================
