----------------------------- MODULE ScanSplit -----------------------------
(* How one target is shared between scanners (server/src/lib/scanSplit.ts).*)
(* The target is cut into blocks, and every block goes to the scanner with *)
(* the highest hash of scanner and block, the smaller id winning a tie:    *)
(* rendezvous hashing. The hash is an arbitrary function of the two. Which *)
(* size the blocks have depends on the team as well: it is the smallest at *)
(* which no part of the team is too long a text for one argument.          *)
(*                                                                         *)
(* The target is a set of pieces that stay whole at every size: what each  *)
(* /28 has of it, and its names. A name is a block of its own.             *)
EXTENDS Integers, FiniteSets

CONSTANTS
  Agents,    \* scanner agents
  Pieces,    \* what the target consists of
  Sizes,     \* block sizes that cut it into at most MAX_BLOCKS blocks
  Keys,      \* the blocks, of all sizes, as they are hashed
  BlockOf,   \* per size, the block a piece lies in
  Score,     \* the hash of a scanner and a block
  Rank,      \* the order of the ids
  Length,    \* the length of some pieces written as ranges and names
  MaxLength  \* MAX_TARGET_SPEC_LENGTH

ASSUME BlockAssumption ==
  /\ Sizes \subseteq Nat
  /\ BlockOf \in [Sizes -> [Pieces -> Keys]]
  /\ Length \in [SUBSET Pieces -> Nat]
  /\ MaxLength \in Nat
ASSUME ScoreAssumption ==
  Score \in [Agents -> [Keys -> Nat]]
ASSUME RankAssumption ==
  /\ Rank \in [Agents -> Nat]
  /\ \A a, x \in Agents : Rank[a] = Rank[x] => a = x
  /\ IsFiniteSet(Agents)

Beats(a, x, key) ==
  \/ Score[a][key] > Score[x][key]
  \/ Score[a][key] = Score[x][key] /\ Rank[a] <= Rank[x]

\* Not the code: blocks dealt out by their hash modulo the number of scanners.
OwnerByPosition(key, ids) ==
  LET hash == Score[CHOOSE a \in Agents : TRUE][key] IN
  CHOOSE a \in ids : Cardinality({x \in ids : Rank[x] < Rank[a]}) = hash % Cardinality(ids)

\* The loop of ownerOf ends with the one that beats all it has seen.
OwnerOf(key, ids) == CHOOSE a \in ids : \A x \in ids : Beats(a, x, key)

\* What one scanner of the set gets; one that gets nothing has no part.
Share(a, ids, size) == {p \in Pieces : OwnerOf(BlockOf[size][p], ids) = a}
PartsAt ==
  [ids \in SUBSET Agents |-> [size \in Sizes |->
     {part \in {[agent |-> a, share |-> Share(a, ids, size)] : a \in ids} : part.share # {}}]]

\* Sizes are tried from the smallest on, and one that fits is taken.
Fitting ==
  [ids \in SUBSET Agents |->
     {size \in Sizes : \A part \in PartsAt[ids][size] : Length[part.share] <= MaxLength}]
Smallest == [sizes \in SUBSET Sizes |-> CHOOSE size \in sizes : \A other \in sizes : size <= other]
BlockSize(ids) == Smallest[Fitting[ids]]

\* splitTargetSpec: one scanner gets the target as it is typed. If no size
\* fits there is no split.
Splits(ids) == Cardinality(ids) = 1 \/ Fitting[ids] # {}
Parts ==
  [ids \in {ids \in SUBSET Agents : Splits(ids)} |->
     IF Cardinality(ids) = 1 THEN {[agent |-> a, share |-> Pieces] : a \in ids}
     ELSE PartsAt[ids][BlockSize(ids)]]
=============================================================================
