------------------------------ MODULE Universe ------------------------------
(***************************************************************************)
(* The universe (assets/assets.h): issuances, ownerships and possessions   *)
(* of shares are records of one open-addressed hash map, found from the    *)
(* low bits of an identity.  A record names the one it belongs to by its   *)
(* index, lists connect the records that belong to the same one, and flags *)
(* mark what the next digest has to hash.  Records are never removed but   *)
(* by the reorganisation at the end of an epoch, which drops empty ones.   *)
(***************************************************************************)
EXTENDS Integers, Sequences, SequencesExt, MerkleTree

CONSTANTS
  Keys, Zero,      \* identities; Zero issues the shares of contracts
  home,            \* the slot that the low bits of an identity name
  low192,          \* what the low 192 bits of an identity are
  Names,           \* names of assets
  Contracts, QX,   \* contracts that manage shares; QX is the first to do so
  Issued, Amounts, \* numbers of shares that are issued and moved
  Winners,         \* sequences of identities that IPOs may give shares to
  Frozen, Escrow,  \* identities that are frozen, and who gets what they hold
  MaxOperations    \* bound on operations

Identities == Keys \cup {Zero}
Assets == [issuer : Identities, name : Names]
NoIndex == -1

\* What is assumed of the constants.
UniverseAssumption ==
  /\ Zero \notin Keys /\ QX \in Contracts /\ Escrow \in Keys \ Frozen
  /\ home \in [Identities -> Slots]
  /\ \A k, l \in Identities : low192[k] = low192[l] => home[k] = home[l]

VARIABLES
  assets,           \* the hash map
  indexLists,       \* first: of the issuances; head: of what belongs to a record; next
  assetChangeFlags, \* entries to hash again
  leaves, nodes,    \* assetDigests
  pending,          \* a transfer of management rights that waits for callbacks
  operations        \* operations so far

vars == <<assets, indexLists, assetChangeFlags, leaves, nodes, pending, operations>>

Record(type, k, name, manager, parent, shares) ==
  [type |-> type, key |-> k, name |-> name, manager |-> manager,
   parent |-> parent, shares |-> shares]
EmptyRecord == Record("empty", Zero, "", 0, NoIndex, 0)
Unhashed == [i \in Slots |-> <<>>]

----------------------------------------------------------------------------
(* Searching *)

After(i) == (i + 1) % Capacity

\* The loops "goto iteration" go from a slot to the first that is empty or one
\* of those that match; they run for ever, universeLock being held, if there is
\* none.
Search(t, from, matching) ==
  LET stops == {d \in 0..Capacity - 1 :
                  LET i == (from + d) % Capacity IN t[i].type = "empty" \/ i \in matching}
  IN IF stops = {} THEN NoIndex ELSE (from + Min(stops)) % Capacity

\* ... and a search for an existing record fails at an empty slot.
Found(t, from, matching) ==
  LET i == Search(t, from, matching) IN
  IF i # NoIndex /\ t[i].type = "empty" THEN NoIndex ELSE i

\* The slots that hold an issuance.
Issuances(t, name, issuer) ==
  {i \in Slots : t[i].type = "issuance" /\ t[i].name = name /\ t[i].key = issuer}

issuanceIndex(t, asset) ==
  Found(t, home[asset.issuer], Issuances(t, asset.name, asset.issuer))

\* The slots that hold an ownership or possession of identity k under a manager.
HeldBy(t, type, parent, k, manager) ==
  {i \in Slots : /\ t[i].type = type /\ t[i].parent = parent
                 /\ t[i].key = k /\ t[i].manager = manager}

ownershipIndex(t, i, k, manager) ==
  Found(t, home[k], HeldBy(t, "ownership", i, k, manager))

\* The QPI call takes the first possession record of the identity, whoever
\* manages it, and then looks at the manager.
possessionIndex(t, o, k) ==
  Found(t, home[k],
        {i \in Slots : t[i].type = "possession" /\ t[i].parent = o /\ t[i].key = k})

\* The shares of the possession found under the ownership found under the
\* issuance found; none when one of the searches fails.
numberOfPossessedShares(t, asset, k, manager) ==
  LET Find(type, parent) == Found(t, home[k], HeldBy(t, type, parent, k, manager))
      owned == {Find("ownership", i) : i \in {issuanceIndex(t, asset)} \ {NoIndex}}
      possessed == {Find("possession", o) : o \in owned \ {NoIndex}}
  IN MapThenSumSet(LAMBDA p : t[p].shares, possessed \ {NoIndex})

----------------------------------------------------------------------------
(* Lists *)

EmptyLists == [first |-> NoIndex, head |-> [i \in Slots |-> NoIndex],
               next |-> [i \in Slots |-> NoIndex]]

addIssuance(l, i) == [l EXCEPT !.next[i] = l.first, !.first = i]

\* Mutation of AddChild: the rest of the list is not kept.
AddChild_Replaces(l, parent, i) == [l EXCEPT !.head[parent] = i]

\* addOwnership and addPossession
AddChild(l, parent, i) == [l EXCEPT !.next[i] = l.head[parent], !.head[parent] = i]

Link(l, r, i) == IF r.type = "issuance" THEN addIssuance(l, i) ELSE AddChild(l, r.parent, i)

rebuild(t) ==
  LET Add(l, i) == IF t[i].type = "empty" THEN l ELSE Link(l, t[i], i)
  IN FoldLeft(Add, EmptyLists, [n \in 1..Capacity |-> Capacity - n])

----------------------------------------------------------------------------
(* Changing records.  An operation is a sequence of changes of a state     *)
(* with the last index used; ends is FALSE once a search has no end.       *)

State == [t |-> assets, lists |-> indexLists, flags |-> assetChangeFlags, at |-> 0, ends |-> TRUE]

\* n shares are added to the record that matches, or to a new one.
Place(s, from, matching, new, n) ==
  LET i == Search(s.t, from, matching) IN
  IF i = NoIndex THEN [s EXCEPT !.ends = FALSE]
  ELSE IF s.t[i].type = "empty"
    THEN [s EXCEPT !.t[i] = [new EXCEPT !.shares = n], !.lists = Link(@, new, i),
                   !.flags = @ \cup {i}, !.at = i]
    ELSE [s EXCEPT !.t[i].shares = @ + n, !.flags = @ \cup {i}, !.at = i]

\* Mutation of Take: the entry is not marked as changed.
Take_Unmarked(s, i, n) == [s EXCEPT !.t[i].shares = @ - n]

Take(s, i, n) == [s EXCEPT !.t[i].shares = @ - n, !.flags = @ \cup {i}]

Hold(s, type, parent, k, manager, n) ==
  Place(s, home[k], HeldBy(s.t, type, parent, k, manager),
        Record(type, k, "", manager, parent, 0), n)

\* n shares go from the records o and p to those of an owner and a possessor.
Move(s, o, p, owner, possessor, ownerManager, possessorManager, n) ==
  LET owned == Hold(Take(s, o, n), "ownership", s.t[o].parent, owner, ownerManager, n)
  IN Hold(Take(owned, p, n), "possession", owned.at, possessor, possessorManager, n)

\* The test that both transfers begin with.
Sufficient(t, o, p, n) ==
  /\ t[o].type = "ownership" /\ t[o].shares >= n
  /\ t[p].type = "possession" /\ t[p].shares >= n /\ t[p].parent = o

\* transferShareOwnershipAndPossession, which burns shares that go to nobody
\* unless they are those of a contract.
Transfer(s, o, p, destination, n) ==
  IF ~Sufficient(s.t, o, p, n) \/ (destination = Zero /\ s.t[s.t[o].parent].key = Zero) THEN s
  ELSE IF destination = Zero THEN Take(Take(s, o, n), p, n)
  ELSE Move(s, o, p, destination, destination, s.t[o].manager, s.t[p].manager, n)

\* transferShareManagementRights
TransferRights(s, o, p, manager, n) ==
  IF ~Sufficient(s.t, o, p, n) THEN s
  ELSE Move(s, o, p, s.t[o].key, s.t[p].key, manager, manager, n)

\* issueAsset: the three records follow each other where there is room.
Issue(s, asset, n, manager) ==
  LET k == asset.issuer
      alike == {i \in Slots : /\ s.t[i].type = "issuance" /\ s.t[i].name = asset.name
                              /\ low192[s.t[i].key] = low192[k]}
      issued == Place(s, home[k], alike, Record("issuance", k, asset.name, 0, NoIndex, 0), 0)
      owned == Place(issued, After(issued.at), {},
                     Record("ownership", k, "", manager, issued.at, 0), n)
      exists == Found(s.t, home[k], alike) # NoIndex
  IN IF exists THEN s
     ELSE Place(owned, After(owned.at), {},
                Record("possession", k, "", manager, owned.at, 0), n)

----------------------------------------------------------------------------
(* Operations *)

\* An operation that would not end is not a step: nothing follows it.
Becomes(s) ==
  /\ s.ends
  /\ assets' = s.t /\ indexLists' = s.lists /\ assetChangeFlags' = s.flags
  /\ UNCHANGED <<leaves, nodes>>

Operation == operations < MaxOperations /\ operations' = operations + 1

\* A contract issues an asset for itself or for whoever invokes it.
issueAsset(asset, n, contract) ==
  /\ Operation
  /\ asset.issuer # Zero
  /\ Becomes(Issue(State, asset, n, contract))
  /\ UNCHANGED pending

\* A contract moves shares that it manages.
transferShareOwnershipAndPossession(contract, asset, owner, possessor, n, destination) ==
  LET i == issuanceIndex(assets, asset)
      o == ownershipIndex(assets, i, owner, contract)
      p == possessionIndex(assets, o, possessor)
  IN
  /\ Operation
  /\ NoIndex \notin {i, o, p}
  /\ assets[p].manager = contract
  /\ Becomes(Transfer(State, o, p, destination, n))
  /\ UNCHANGED pending

NoTransfer == [o |-> NoIndex, p |-> NoIndex, manager |-> 0, n |-> 0]

\* acquireShares and releaseShares find the records first; then callbacks of the
\* other contract run, which may move the same shares but not their rights.
beginRightsTransfer(asset, holder, manager, n, destination) ==
  LET i == issuanceIndex(assets, asset)
      o == ownershipIndex(assets, i, holder, manager)
      p == Found(assets, home[holder], HeldBy(assets, "possession", o, holder, manager))
  IN
  /\ Operation
  /\ pending = NoTransfer
  /\ manager # destination
  /\ NoIndex \notin {i, o, p}
  /\ assets[p].shares >= n
  /\ pending' = [o |-> o, p |-> p, manager |-> destination, n |-> n]
  /\ UNCHANGED <<assets, indexLists, assetChangeFlags, leaves, nodes>>

\* The other contract agreed and was paid.
endRightsTransfer ==
  /\ pending # NoTransfer
  /\ Becomes(TransferRights(State, pending.o, pending.p, pending.manager, pending.n))
  /\ pending' = NoTransfer
  /\ UNCHANGED operations

\* The other contract refused or could not be paid.
refuseRightsTransfer ==
  /\ pending # NoTransfer
  /\ pending' = NoTransfer
  /\ UNCHANGED <<assets, indexLists, assetChangeFlags, leaves, nodes, operations>>

\* finishIPOs gives each winner a share of the new contract; nobody gets one if
\* the asset exists already.
finishIPOs(name, winners) ==
  LET issued == Issue(State, [issuer |-> Zero, name |-> name], Len(winners), QX)
      p == issued.at
      Give(s, k) == Transfer(s, s.t[p].parent, p, k, 1)
  IN
  /\ Operation
  /\ pending = NoTransfer
  /\ IF issued = State THEN Becomes(issued)
     ELSE issued.ends /\ Becomes(FoldLeft(Give, issued, winners))
  /\ UNCHANGED pending

\* transferFrozenAssetsToEscrow, as far as shares are concerned: the loop goes on
\* to the first empty slot, over records that it adds itself.
transferFrozenAssetsToEscrow(frozen) ==
  LET Round(s, d) ==
        LET p == (home[frozen] + d) % Capacity
            r == s.t[p]
        IN CASE r.type = "empty" -> [s EXCEPT !.met = TRUE]
             [] /\ ~s.met /\ r.type = "possession" /\ r.key = frozen /\ r.shares > 0
                /\ s.t[r.parent].key = frozen
                -> Transfer(s, r.parent, p, Escrow, r.shares)
             [] OTHER -> s
      done == FoldLeft(Round, State @@ [met |-> FALSE], [d \in 1..Capacity |-> d - 1])
  IN
  /\ Operation
  /\ pending = NoTransfer
  /\ done.met /\ Becomes(done)
  /\ UNCHANGED pending

----------------------------------------------------------------------------
(* Digest, end of an epoch, restart *)

\* Marked entries are hashed again, and what is above them.
getUniverseDigest ==
  LET hashed == [i \in Slots |-> IF i \in assetChangeFlags THEN assets[i] ELSE leaves[i]]
  IN
  /\ pending = NoTransfer
  /\ leaves' = hashed
  /\ nodes' = Climb(hashed, nodes, assetChangeFlags)
  /\ assetChangeFlags' = {}
  /\ UNCHANGED <<assets, indexLists, pending, operations>>

\* Mutation of Reorganized: a possession keeps the index of its old ownership.
Reorganized_OldIndex(t) ==
  LET Round(s, i) ==
        LET p == t[i]  o == t[p.parent]  x == t[o.parent]
            issued == Place(s, home[x.key], Issuances(s.t, x.name, x.key), x, 0)
            owned == Hold(issued, "ownership", issued.at, o.key, o.manager, p.shares)
        IN IF p.type = "possession" /\ p.shares > 0
             THEN Hold(owned, "possession", p.parent, p.key, p.manager, p.shares) ELSE s
  IN FoldLeft(Round, [t |-> [i \in Slots |-> EmptyRecord], lists |-> EmptyLists, flags |-> {},
                      at |-> 0, ends |-> TRUE], [n \in 1..Capacity |-> n - 1]).t

\* Every possession that is not empty is put into a new map, with the ownership
\* and the issuance it belongs to; owned shares are counted anew.
Reorganized(t) ==
  LET Round(s, i) ==
        LET p == t[i]  o == t[p.parent]  x == t[o.parent]
            issued == Place(s, home[x.key], Issuances(s.t, x.name, x.key), x, 0)
            owned == Hold(issued, "ownership", issued.at, o.key, o.manager, p.shares)
        IN IF p.type = "possession" /\ p.shares > 0
             THEN Hold(owned, "possession", owned.at, p.key, p.manager, p.shares) ELSE s
  IN FoldLeft(Round, [t |-> [i \in Slots |-> EmptyRecord], lists |-> EmptyLists, flags |-> {},
                      at |-> 0, ends |-> TRUE], [n \in 1..Capacity |-> n - 1]).t

assetsEndEpoch ==
  /\ pending = NoTransfer
  /\ assets' = Reorganized(assets)
  /\ indexLists' = rebuild(assets')
  /\ assetChangeFlags' = Slots
  /\ UNCHANGED <<leaves, nodes, pending, operations>>

\* A node that starts again loads the map it saved and knows no digest.
loadUniverse ==
  /\ pending = NoTransfer
  /\ indexLists' = rebuild(assets)
  /\ assetChangeFlags' = Slots
  /\ leaves' = Unhashed /\ nodes' = [n \in Inner |-> <<>>]
  /\ UNCHANGED <<assets, pending, operations>>

Init ==
  /\ assets = [i \in Slots |-> EmptyRecord]
  /\ indexLists = EmptyLists
  /\ assetChangeFlags = Slots
  /\ leaves = Unhashed /\ nodes = [n \in Inner |-> <<>>]
  /\ pending = NoTransfer
  /\ operations = 0

Next ==
  \/ \E asset \in Assets, n \in Issued, contract \in Contracts : issueAsset(asset, n, contract)
  \/ \E contract \in Contracts, asset \in Assets, owner, possessor, destination \in Identities,
        n \in Amounts :
       transferShareOwnershipAndPossession(contract, asset, owner, possessor, n, destination)
  \/ \E asset \in Assets, holder \in Identities, manager, destination \in Contracts, n \in Amounts :
       beginRightsTransfer(asset, holder, manager, n, destination)
  \/ endRightsTransfer \/ refuseRightsTransfer
  \/ \E name \in Names, winners \in Winners : finishIPOs(name, winners)
  \/ \E frozen \in Frozen : transferFrozenAssetsToEscrow(frozen)
  \/ getUniverseDigest \/ assetsEndEpoch \/ loadUniverse

Spec == Init /\ [][Next]_vars

----------------------------------------------------------------------------
(* Properties *)

\* The list from an index on has the given members, once each.
Lists(start, members) ==
  LET walk[j \in 0..Capacity] ==
        IF j = 0 THEN start
        ELSE IF walk[j - 1] = NoIndex THEN NoIndex ELSE indexLists.next[walk[j - 1]]
  IN /\ {walk[j] : j \in 0..Cardinality(members) - 1} = members
     /\ walk[Cardinality(members)] = NoIndex

OfType(type) == {i \in Slots : assets[i].type = type}
Children(i) == {j \in Slots : assets[j].parent = i}

\* Iterating over lists and searching the map give the same answers: the lists
\* connect all records and only those; no two records say the same, which
\* acquireShares and releaseShares assert; and the shares of an ownership are
\* those of its possessions, under the same manager.
RecordsAgree ==
  /\ Lists(indexLists.first, OfType("issuance"))
  /\ \A i \in Slots : Lists(indexLists.head[i], Children(i))
  /\ \A i, j \in Slots :
       /\ i # j /\ assets[i].type = assets[j].type /\ assets[i].type # "empty"
       /\ assets[i].key = assets[j].key /\ assets[i].parent = assets[j].parent
       => assets[i].manager # assets[j].manager \/ assets[i].name # assets[j].name
  /\ \A o \in OfType("ownership") :
       /\ assets[o].shares = MapThenSumSet(LAMBDA p : assets[p].shares, Children(o))
       /\ \A p \in Children(o) : assets[p].manager = assets[o].manager

\* When nothing is marked, the digest covers the universe as it is: no operation
\* forgets to mark what it changes, and the reorganisation marks everything.
DigestExact ==
  assetChangeFlags = {} => leaves = assets /\ nodes = FullTree(assets)

\* What numberOfPossessedShares finds, for every asset, identity and contract.
Possessed(t) ==
  [x \in Assets \X Identities \X Contracts |-> numberOfPossessedShares(t, x[1], x[2], x[3])]
=============================================================================
