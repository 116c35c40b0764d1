------------------------------ MODULE TargetRanges ------------------------------
(***************************************************************************)
(* From what an operator types to what masscan is told. A target is typed  *)
(* as tokens: addresses, CIDRs and ranges, address patterns ("10.46.*.2"), *)
(* names, and exclusions of any of the first three. The webserver writes   *)
(* it down as plain ranges (lib/targetPattern.ts) and may deal it out to   *)
(* several scanners (lib/scanSplit.ts); a scanner takes the excluded       *)
(* addresses out and cuts the rest into blocks (chunks.go), and writes     *)
(* down what is left of them when it stops. The webserver also measures    *)
(* how much of a network scans have covered (lib/ipRange.ts).              *)
(*                                                                         *)
(* An address is a number in 0 .. Top, of Octets digits of base Base. A    *)
(* CIDR is the range it stands for. Text is measured in addresses written. *)
(***************************************************************************)
EXTENDS Integers, FiniteSets, Sequences, SequencesExt

CONSTANTS
    Base,           \* 256
    Octets,         \* 4
    Ranges,         \* ranges that may be typed
    Patterns,       \* patterns that may be typed: a range for every octet
    MaxTokens,      \* tokens of a target
    MaxEntries,     \* those and the entries of the exclude list
    Limit,          \* MAX_PATTERN_ADDRESSES and MAX_EXCLUDE_PATTERN_SCOPE
    MaxText,        \* MAX_TARGET_SPEC_LENGTH
    MinAddresses,   \* chunkMinAddresses
    BlockTime,      \* chunkTargetDuration
    LongTime,       \* chunkThreshold
    PortCounts,     \* ports of a scan
    Rates,          \* masscan_rate
    SplitSizes,     \* SPLIT_BLOCK_PREFIXES, as numbers of addresses
    MaxBlocks,      \* MAX_BLOCKS
    ScannerIds,
    Owner           \* ownerOf, of <<size, base>> of a block and of <<0, 0>>, the name

\* Addresses that differ in the last k octets only.
Weight[k \in 0 .. Octets] == IF k = 0 THEN 1 ELSE Base * Weight[k - 1]
Top == Weight[Octets] - 1
Space == 0 .. Top

ASSUME TargetAssumption ==
    /\ Base \in Nat \ {0} /\ Octets \in Nat \ {0}
    /\ Ranges \subseteq {r \in [lo : Space, hi : Space] : r.lo <= r.hi}
    /\ \A p \in Patterns : \E n \in 1 .. Octets :
         p \in [1 .. n -> {o \in [lo : 0 .. Base - 1, hi : 0 .. Base - 1] : o.lo <= o.hi}]
    /\ MinAddresses \in Nat \ {0} /\ BlockTime \in Nat \ {0} /\ LongTime \in Nat
    /\ PortCounts \subseteq Nat /\ Rates \subseteq Nat
    /\ SplitSizes \in Seq(Nat \ {0})
    /\ Owner[<<0, 0>>] \in ScannerIds

VARIABLES
    typed,      \* the target, token by token
    kept        \* the global exclude list

targetVars == <<typed, kept>>

InOrder(S) == [i \in 1 .. Cardinality(S) |-> CHOOSE a \in S : Cardinality({b \in S : b < a}) = i - 1]
Picked(s, positions) == LET order == InOrder(positions) IN [k \in DOMAIN order |-> s[order[k]]]
Smaller(a, b) == IF a < b THEN a ELSE b
Larger(a, b) == IF a < b THEN b ELSE a
Size(r) == r.hi - r.lo + 1
Addresses(rs) == UNION {rs[i].lo .. rs[i].hi : i \in DOMAIN rs}
Amount(rs) ==
    LET upTo[i \in 0 .. Len(rs)] == IF i = 0 THEN 0 ELSE upTo[i - 1] + Size(rs[i])
    IN  upTo[Len(rs)]
TextLength(rs) == Len(rs) + Cardinality({i \in DOMAIN rs : rs[i].lo # rs[i].hi})

(***************************************************************************)
(* Ranges: the same three functions in chunks.go, targetPattern.ts and     *)
(* scanSplit.ts.                                                           *)
(***************************************************************************)

\* By the first address; of those with the same one, in the order given.
Sorted(rs) ==
    LET before(j) == {i \in DOMAIN rs : rs[i].lo < rs[j].lo \/ (rs[i].lo = rs[j].lo /\ i < j)}
    IN  [k \in DOMAIN rs |-> rs[CHOOSE j \in DOMAIN rs : Cardinality(before(j)) = k - 1]]

\* Not the code: the end of the last range is overwritten by an earlier one.
AddRangeShort(out, r) ==
    IF out # <<>> /\ r.lo <= out[Len(out)].hi + 1 THEN [out EXCEPT ![Len(out)].hi = r.hi]
    ELSE Append(out, r)

\* A range that overlaps or touches the last one lengthens it.
AddRange(out, r) ==
    IF out # <<>> /\ r.lo <= out[Len(out)].hi + 1 THEN [out EXCEPT ![Len(out)].hi = Larger(@, r.hi)]
    ELSE Append(out, r)
Joined(rs) ==
    LET upTo[i \in 0 .. Len(rs)] == IF i = 0 THEN <<>> ELSE AddRange(upTo[i - 1], rs[i])
    IN  upTo[Len(rs)]
MergeRanges(rs) == Joined(Sorted(rs))

\* Not the code: the address after an excluded range, in as many bits as an address.
CutRangeNarrow(s, x, t) ==
    IF x.hi < s.cur \/ x.lo > t.hi THEN s
    ELSE [out |-> IF x.lo > s.cur THEN Append(s.out, [lo |-> s.cur, hi |-> x.lo - 1]) ELSE s.out,
          cur |-> (x.hi + 1) % (Top + 1)]

\* What is left of a range before an excluded one, and where it goes on.
CutRange(s, x, t) ==
    IF x.hi < s.cur \/ x.lo > t.hi THEN s
    ELSE [out |-> IF x.lo > s.cur THEN Append(s.out, [lo |-> s.cur, hi |-> x.lo - 1]) ELSE s.out,
          cur |-> x.hi + 1]
LeftOf(t, xs) ==
    LET upTo[i \in 0 .. Len(xs)] ==
            IF i = 0 THEN [out |-> <<>>, cur |-> t.lo] ELSE CutRange(upTo[i - 1], xs[i], t)
        end == upTo[Len(xs)]
    IN  IF end.cur <= t.hi THEN Append(end.out, [lo |-> end.cur, hi |-> t.hi]) ELSE end.out
SubtractRanges(ts, xs) ==
    LET targets == MergeRanges(ts)
        excluded == MergeRanges(xs)
    IN  FlattenSeq([i \in DOMAIN targets |-> LeftOf(targets[i], excluded)])

(***************************************************************************)
(* Patterns (targetPattern.ts).                                            *)
(***************************************************************************)

Octet(a, i) == (a \div Weight[Octets - i]) % Base

\* Not the code: a short pattern is matched against the leading octets.
PatternMatchesLeading(p, a) ==
    \A i \in DOMAIN p : p[i].lo <= Octet(a, i) /\ Octet(a, i) <= p[i].hi

\* A short pattern is matched against the trailing octets.
PatternMatches(p, a) ==
    \A i \in DOMAIN p :
        LET octet == Octet(a, Octets - Len(p) + i) IN p[i].lo <= octet /\ octet <= p[i].hi

\* A range for every choice of the leading octets, in order.
PatternBases(p) ==
    {a \in Space : a % Base = 0 /\ \A i \in 1 .. Octets - 1 : Octet(a, i) \in p[i].lo .. p[i].hi}
PatternRanges(p) ==
    LET bases == InOrder(PatternBases(p))
    IN  [i \in DOMAIN bases |-> [lo |-> bases[i] + p[Octets].lo, hi |-> bases[i] + p[Octets].hi]]

\* The longest runs of addresses, in order.
Points(as) == LET order == InOrder(as) IN [k \in DOMAIN order |-> [lo |-> order[k], hi |-> order[k]]]
Stretches(as) == Joined(Points(as))

FilterByPatterns(rs, ps, keepMatches) ==
    FlattenSeq([i \in DOMAIN rs |->
        Stretches({a \in rs[i].lo .. rs[i].hi : (\E p \in ps : PatternMatches(p, a)) = keepMatches})])

NoRange == [lo |-> 0, hi |-> 0]
RangeTokens == [bang : BOOLEAN, kind : {"range"}, range : Ranges, pattern : {<<>>}]
PatternTokens == [bang : BOOLEAN, kind : {"pattern"}, range : {NoRange}, pattern : Patterns]
NameToken == [bang |-> FALSE, kind |-> "name", range |-> NoRange, pattern |-> <<>>]

\* Only in an exclusion may a pattern be short.
TargetTokens ==
    RangeTokens \cup {NameToken} \cup {t \in PatternTokens : t.bang \/ Len(t.pattern) = Octets}
\* What the form accepts on the exclude list: a range, or a pattern within one.
ExcludeEntries ==
    {t \in RangeTokens : ~t.bang}
        \cup {t \in [bang : {FALSE}, kind : {"pattern"}, range : Ranges, pattern : Patterns] :
                 t.range.hi - t.range.lo < Limit}

Tokens(bang, kind) == Picked(typed, {i \in DOMAIN typed : typed[i].bang = bang /\ typed[i].kind = kind})
RangesOf(t) ==
    CASE t.kind = "range" -> <<t.range>>
      [] t.kind = "pattern" -> PatternRanges(t.pattern)
      [] OTHER -> <<>>
Included ==
    LET plain == Picked(typed, {i \in DOMAIN typed : ~typed[i].bang})
    IN  FlattenSeq([i \in DOMAIN plain |-> RangesOf(plain[i])])
ExcludedPatterns == {typed[i].pattern : i \in {i \in DOMAIN typed : typed[i].bang /\ typed[i].kind = "pattern"}}
Named == NameToken \in {typed[i] : i \in DOMAIN typed}
UsesPatterns == \E i \in DOMAIN typed : typed[i].bang \/ typed[i].kind = "pattern"

\* What is left of the ranges typed, in order; and whether they may be scanned.
Plain ==
    LET bangs == Tokens(TRUE, "range")
    IN  SubtractRanges(Included, [i \in DOMAIN bangs |-> bangs[i].range])
LeftOver ==
    IF ExcludedPatterns = {} THEN Plain ELSE MergeRanges(FilterByPatterns(Plain, ExcludedPatterns, FALSE))
Expandable ==
    LET full == Tokens(FALSE, "pattern")
    IN  /\ \A i \in DOMAIN full : Cardinality(PatternBases(full[i].pattern)) <= Limit
        /\ ExcludedPatterns # {} => Amount(Plain) <= Limit
        /\ LeftOver # <<>> \/ Named
        /\ TextLength(LeftOver) + (IF Named THEN 1 ELSE 0) <= MaxText

\* expandTargetPattern: a target without a pattern is left as it was typed.
ExpandTarget ==
    IF UsesPatterns THEN [ok |-> Expandable, ranges |-> LeftOver, named |-> Named]
    ELSE [ok |-> typed # <<>>, ranges |-> Included, named |-> Named]

\* What a scanner is sent of the exclude list (expandExcludePattern).
FetchedExcludes ==
    LET entry(t) == IF t.kind = "range" THEN <<t.range>>
                    ELSE MergeRanges(FilterByPatterns(<<t.range>>, {t.pattern}, TRUE))
    IN  FlattenSeq([i \in DOMAIN kept |-> entry(kept[i])])

(***************************************************************************)
(* Shares of scanners (scanSplit.ts).                                      *)
(***************************************************************************)

\* The block that holds an address starts at this one.
BlockOf(a, size) == (a \div size) * size

\* Not the code: a piece goes to the owner of the block its range begins in.
PiecesByRange(rs, size) ==
    LET merged == MergeRanges(rs)
        cut(r) == LET n == r.hi \div size - r.lo \div size + 1
                  IN  [k \in 1 .. n |->
                         [lo |-> Larger(r.lo, BlockOf(r.lo, size) + (k - 1) * size),
                          hi |-> Smaller(r.hi, BlockOf(r.lo, size) + k * size - 1),
                          owner |-> Owner[<<size, BlockOf(r.lo, size)>>]]]
    IN  FlattenSeq([i \in DOMAIN merged |-> cut(merged[i])])

Pieces(rs, size) ==
    LET merged == MergeRanges(rs)
        cut(r) == LET n == r.hi \div size - r.lo \div size + 1
                  IN  [k \in 1 .. n |->
                         LET base == BlockOf(r.lo, size) + (k - 1) * size
                         IN  [lo |-> Larger(r.lo, base), hi |-> Smaller(r.hi, base + size - 1),
                              owner |-> Owner[<<size, base>>]]]
    IN  FlattenSeq([i \in DOMAIN merged |-> cut(merged[i])])

\* Pieces come in order; those that touch are written as one range.
ShareOf(id, rs, size) ==
    LET pieces == Pieces(rs, size)
        own == Picked(pieces, {i \in DOMAIN pieces : pieces[i].owner = id})
    IN  Joined([i \in DOMAIN own |-> [lo |-> own[i].lo, hi |-> own[i].hi]])
HasName(id, target) == target.named /\ Owner[<<0, 0>>] = id

\* The first block size whose shares can all be written down; 0 if none can.
SplitSize(target) ==
    LET fits(size) ==
            /\ Len(Pieces(target.ranges, size)) <= MaxBlocks
            /\ \A id \in ScannerIds :
                 TextLength(ShareOf(id, target.ranges, size)) + (IF HasName(id, target) THEN 1 ELSE 0) <= MaxText
        fitting == {i \in DOMAIN SplitSizes : fits(SplitSizes[i])}
    IN  IF fitting = {} THEN 0 ELSE SplitSizes[CHOOSE i \in fitting : \A j \in fitting : i <= j]

(***************************************************************************)
(* Blocks of a scanner (chunks.go).                                        *)
(***************************************************************************)

Effective(target) == SubtractRanges(target.ranges, FetchedExcludes)

\* Addresses of a block: a multiple of MinAddresses.
PerBlock(ports, rate) ==
    LET per == Larger(MinAddresses, (rate * BlockTime) \div ports)
    IN  ((per + MinAddresses - 1) \div MinAddresses) * MinAddresses

\* Whether discovery is worth cutting up. A name is not planned around.
Splits(target, ports, rate) ==
    LET amount == Amount(Effective(target))
    IN  /\ ports > 0 /\ rate > 0 /\ ~target.named
        /\ amount > MinAddresses
        /\ amount * ports > LongTime * rate
        /\ PerBlock(ports, rate) < amount

\* One turn of the loop: what fits of the range under way goes into the block.
Fill(s, rs, per) ==
    LET r == rs[s.at]
        from == r.lo + s.took
        take == Smaller(per - Amount(s.block), r.hi - from + 1)
        block == Append(s.block, [lo |-> from, hi |-> from + take - 1])
        full == Amount(block) = per
    IN  IF s.at > Len(rs) THEN s
        ELSE [at |-> IF from + take > r.hi THEN s.at + 1 ELSE s.at,
              took |-> IF from + take > r.hi THEN 0 ELSE s.took + take,
              block |-> IF full THEN <<>> ELSE block,
              blocks |-> IF full THEN Append(s.blocks, block) ELSE s.blocks]
Blocks(rs, per) ==
    LET upTo[n \in 0 .. Amount(rs)] ==
            IF n = 0 THEN [at |-> 1, took |-> 0, block |-> <<>>, blocks |-> <<>>]
            ELSE Fill(upTo[n - 1], rs, per)
        end == upTo[Amount(rs)]
    IN  IF end.block = <<>> THEN end.blocks ELSE Append(end.blocks, end.block)

\* planIPv4Chunks
PlanBlocks(target, ports, rate) == Blocks(Effective(target), PerBlock(ports, rate))

\* Not the code: a host still pending is left out, its block being done.
RemainingOfBlocks(blocks, done, pending) ==
    MergeRanges(FlattenSeq(SubSeq(blocks, done + 1, Len(blocks))))

\* Remaining, of several blocks, the first "done" of which are discovered.
Remaining(blocks, done, pending) ==
    MergeRanges(FlattenSeq(SubSeq(blocks, done + 1, Len(blocks))) \o Points(pending))

\* What of the ranges is in the network.
Clipped(network, rs) ==
    LET over == Picked(rs, {i \in DOMAIN rs : rs[i].lo <= network.hi /\ network.lo <= rs[i].hi})
    IN  [i \in DOMAIN over |-> [lo |-> Larger(over[i].lo, network.lo), hi |-> Smaller(over[i].hi, network.hi)]]

\* Not the code: ranges that overlap are not joined, and what they share counts twice.
CoveredTwice(network, rs) == Amount(Clipped(network, rs))

\* coveredFraction, as a number of addresses.
Covered(network, rs) == Amount(MergeRanges(Clipped(network, rs)))

(***************************************************************************)
(* Typing.                                                                 *)
(***************************************************************************)

TypeToken(t) ==
    /\ Len(typed) < MaxTokens /\ kept = <<>>
    /\ typed' = Append(typed, t)
    /\ UNCHANGED kept

ExcludeEntry(t) ==
    /\ Len(typed) + Len(kept) < MaxEntries /\ typed # <<>>
    /\ kept' = Append(kept, t)
    /\ UNCHANGED typed

TargetInit == typed = <<>> /\ kept = <<>>
TargetNext ==
    \/ \E t \in TargetTokens : TypeToken(t)
    \/ \E t \in ExcludeEntries : ExcludeEntry(t)
TargetSpec == TargetInit /\ [][TargetNext]_targetVars

(***************************************************************************)
(* Properties. What a token and an entry mean, address by address:         *)
(***************************************************************************)
Meant(t) ==
    CASE t.kind = "range" -> t.range.lo .. t.range.hi
      [] t.kind = "pattern" ->
           {a \in Space : \A i \in 1 .. Len(t.pattern) :
               t.pattern[Len(t.pattern) + 1 - i].lo <= (a \div Weight[i - 1]) % Base
                 /\ (a \div Weight[i - 1]) % Base <= t.pattern[Len(t.pattern) + 1 - i].hi}
      [] OTHER -> {}
MeantTarget ==
    (UNION {Meant(typed[i]) : i \in {i \in DOMAIN typed : ~typed[i].bang}})
        \ (UNION {Meant(typed[i]) : i \in {i \in DOMAIN typed : typed[i].bang}})
MeantExcludes ==
    UNION {Meant(kept[i]) \cap (IF kept[i].kind = "range" THEN Space ELSE kept[i].range.lo .. kept[i].range.hi) :
              i \in DOMAIN kept}

\* Ranges in order that neither overlap nor touch.
Tidy(rs) == \A i \in 1 .. Len(rs) - 1 : rs[i].hi + 1 < rs[i + 1].lo

\* A target written with patterns stands for the addresses they mean without
\* those that are excluded, each once, and for no other (targetPattern.ts: the
\* pattern of a target and that of an exclusion agree on what they match).
ExpansionIsExact ==
    UsesPatterns =>
        \A target \in {ExpandTarget} :
            target.ok => Tidy(target.ranges) /\ Addresses(target.ranges) = MeantTarget

\* A long target is discovered in blocks that together are what was typed without
\* what is excluded, in order, no address twice and none left out. Every block but
\* the last is full, and none is planned to take longer than BlockTime and what
\* MinAddresses take (chunks.go: a block is never below the floor).
BlocksAreExact ==
    \A target \in {ExpandTarget}, ports \in PortCounts, rate \in Rates :
        target.ok /\ Splits(target, ports, rate) =>
          \A blocks \in {PlanBlocks(target, ports, rate)} : \A flat \in {FlattenSeq(blocks)} :
              /\ Addresses(flat) = MeantTarget \ MeantExcludes
              /\ \A i \in 1 .. Len(flat) - 1 : flat[i].hi < flat[i + 1].lo
              /\ \A i \in 1 .. Len(blocks) - 1 : Amount(blocks[i]) = Amount(blocks[1])
              /\ Amount(blocks[1]) >= MinAddresses /\ Amount(Last(blocks)) <= Amount(blocks[1])
              /\ Amount(blocks[1]) * ports < (BlockTime * rate) + MinAddresses * ports
              /\ Len(blocks) > 1

\* What is queued to resume a scan is what its blocks not yet discovered hold and
\* the hosts that were not finished, whatever blocks were done (chunks.go, and
\* ScanPipeline, which counts by blocks).
RemainderIsExact ==
    \A target \in {ExpandTarget}, ports \in PortCounts, rate \in Rates :
        target.ok /\ Splits(target, ports, rate) =>
          \A blocks \in {PlanBlocks(target, ports, rate)} : \A done \in 0 .. Len(blocks) :
              \A before \in {Addresses(FlattenSeq(SubSeq(blocks, 1, done)))} :
                  \A pending \in {{}} \cup {{b} : b \in before} :
                      \A left \in {Remaining(blocks, done, pending)} :
                          /\ Tidy(left)
                          /\ Addresses(left) = pending \cup ((MeantTarget \ MeantExcludes) \ before)

\* A target dealt out to several scanners: each address goes to one of them, the
\* owner of its block, whatever else is in the target, and so does the name
\* (scanSplit.ts: "the same address always goes to the same scanner").
SplitIsExact ==
    \A target \in {ExpandTarget} : \A size \in {SplitSize(target)} :
        target.ok /\ size # 0 =>
          /\ \A id \in ScannerIds : \A share \in {ShareOf(id, target.ranges, size)} :
               /\ Addresses(share) = {a \in MeantTarget : Owner[<<size, BlockOf(a, size)>>] = id}
               /\ Amount(share) = Cardinality(Addresses(share))
          /\ target.named => Cardinality({id \in ScannerIds : HasName(id, target)}) = 1

\* The share of a network that scans covered counts every address once, however
\* their targets overlap (ipRange.ts: overlapping scans are the normal case).
CoverageIsExact ==
    \A network \in Ranges :
        Covered(network, Included) = Cardinality(Addresses(Included) \cap (network.lo .. network.hi))

\* What one scanner discovers of a target, and queues of it when it stops, is
\* exactly what was asked for; so it is with a target several scanners share, and
\* with what is said to have been covered in the end.
PlanIsExact ==
    typed # <<>> =>
        ExpansionIsExact /\ BlocksAreExact /\ RemainderIsExact /\ SplitIsExact /\ CoverageIsExact

=================================================================================
