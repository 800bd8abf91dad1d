----------------------------- MODULE MerkleTree -----------------------------
(***************************************************************************)
(* The tree of digests over the entries of the spectrum and over those of  *)
(* the universe, one array of 2 * Capacity - 1 digests that begins with    *)
(* the leaves.  A digest is represented by what was hashed.                *)
(***************************************************************************)
EXTENDS Integers, FiniteSets, FiniteSetsExt

CONSTANT Capacity   \* number of leaves, a power of two

Slots == 0..Capacity - 1

\* Node n >= Capacity has the children 2 * (n - Capacity) and the one after it;
\* levels follow each other.

Inner == Capacity..2 * Capacity - 2
Child(n) == 2 * (n - Capacity)
LevelBegin(n) == Max({b \in {2 * Capacity - (2 * Capacity) \div 2^k : k \in 0..Capacity} : b <= n})
DigestAt(l, inner, n) == IF n < Capacity THEN l[n] ELSE inner[n]

\* The whole tree, as at the start of a node and after a reorganisation.
FullTree(l) ==
  LET digest[n \in 0..2 * Capacity - 2] ==
        IF n < Capacity THEN l[n] ELSE <<digest[Child(n)], digest[Child(n) + 1]>>
  IN [n \in Inner |-> digest[n]]

\* The part above changed leaves.  The flags of a level are kept in the words
\* that held those of the level below, as far as they have been dealt with.
Climb(l, inner, changed) ==
  LET Round(n, s) ==
        LET i == Child(n) - LevelBegin(Child(n)) IN
        IF s.flags \cap {i, i + 1} = {} THEN s
        ELSE [inner |-> [s.inner EXCEPT ![n] =
                  <<DigestAt(l, s.inner, Child(n)), DigestAt(l, s.inner, Child(n) + 1)>>],
              flags |-> (s.flags \ {i, i + 1}) \cup {i \div 2}]
  IN MapThenFoldSet(Round, [inner |-> inner, flags |-> changed], LAMBDA n : n, Max, Inner).inner
=============================================================================
