------------------------------- MODULE PortSpecs -------------------------------
(***************************************************************************)
(* Port specs: "80,443,8000-8010,U:53" is a sequence of parts, each with a *)
(* prefix or none and a range. The scanner parses one (excludes.go), takes *)
(* the excluded ports out and writes the rest down again for masscan; the  *)
(* webserver parses the same one by itself (lib/portSpec.ts), to know what *)
(* a scan covered; and both say whether one of the fixed UDP probes is     *)
(* meant (udpprobes.go). What is excluded for one address is filtered from *)
(* the results. A dry run (preview.go) and the dashboard's estimate        *)
(* (scanEstimate/estimate.ts) count the ports.                             *)
(*                                                                         *)
(* A spec is typed part by part, and so are the exclude lists. The scanner *)
(* converts a number with Atoi and the webserver with Number, which reads  *)
(* more, so it matters in which form a part is typed:                      *)
(*   - "plain": both read it;                                              *)
(*   - "numeral": 80.0, 1e3 or 0x50, which only Number reads;              *)
(*   - "spaced": white space follows the prefix. Number ignores it, and so *)
(*     does Atoi of a range, whose bounds are trimmed, but not of a port;  *)
(*   - "blank": an empty part, which both skip.                            *)
(* A part that neither reads has a bound outside 1 .. MaxPort or the wrong *)
(* way round, and stands for a foreign prefix and for words too. A range   *)
(* of one port is typed as that port.                                      *)
(*                                                                         *)
(* How masscan and nmap take a prefix is not in this repository, which     *)
(* says of it two things: the comments and both parsers have it hold for   *)
(* its own part only ("exactly as masscan and nmap read it"); but what     *)
(* serializeProtoPortSet and nmapPortSpec write, T:80,443,U:53,161, means  *)
(* the same ports again only if a prefix holds on until the next. ToolPorts*)
(* is the second reading, ProtoPortSet the first.                          *)
(***************************************************************************)
EXTENDS Integers, FiniteSets, Sequences

CONSTANTS
    MaxPort,        \* 65535
    Probes,         \* ports of the fixed UDP probes
    MaxParts        \* parts of a spec

ASSUME PortAssumption == MaxPort \in Nat \ {0} /\ MaxParts \in Nat /\ Probes \subseteq 1 .. MaxPort

Numbered == 1 .. MaxPort
Protocols == {"tcp", "udp"}
Bounds == 0 .. MaxPort + 1

VARIABLES
    spec,       \* the port spec, as typed
    barred,     \* the ports of the global exclude list
    scoped      \* those excluded for one address

portVars == <<spec, barred, scoped>>

\* The check of the bounds, which the parsers do share.
InRange(part) == 1 <= part.lo /\ part.lo <= part.hi /\ part.hi <= MaxPort
Skipped(part) == part.form = "blank"

\* What can be typed. The form is of interest only where the bounds are in range.
Part ==
    {part \in [prefix : {"none", "T", "U"}, form : {"plain", "numeral", "spaced", "blank"}, lo : Bounds, hi : Bounds] :
        /\ part.form \in {"numeral", "spaced"} => InRange(part)
        /\ part.form = "spaced" => part.prefix # "none"
        /\ part.form = "blank" => part.prefix = "none" /\ part.lo = 1 /\ part.hi = 0}

(***************************************************************************)
(* The scanner.                                                            *)
(***************************************************************************)

Protocol(part) == IF part.prefix = "U" THEN "udp" ELSE "tcp"

\* strconv.Atoi, of the bounds of a range without the space around them and of a
\* port as it stands.
AtoiReads(part) == part.form = "plain" \/ (part.form = "spaced" /\ part.lo # part.hi)

\* parseProtoPortSet: a prefix is of its own part only. One bad part spoils the
\* spec.
Parses(s) == \A i \in DOMAIN s : Skipped(s[i]) \/ (AtoiReads(s[i]) /\ InRange(s[i]))
ProtoPortSet(s) == UNION {{Protocol(s[i])} \X (s[i].lo .. s[i].hi) : i \in DOMAIN s}

\* Not the code: a port on the list is only taken out of TCP.
RemainderTcp(s, excluded) == {pp \in ProtoPortSet(s) : pp[1] = "udp" \/ pp[2] \notin excluded}

\* An excluded number is taken out of both protocols.
Remainder(s, excluded) == {pp \in ProtoPortSet(s) : pp[2] \notin excluded}

\* serializePortSet, at one port: it lengthens the last run or begins one.
WithPort(runs, p) ==
    IF runs # <<>> /\ runs[Len(runs)].hi = p - 1 THEN [runs EXCEPT ![Len(runs)].hi = p]
    ELSE Append(runs, [lo |-> p, hi |-> p])

\* serializePortSet: the longest runs of ports, in order.
Runs(ports) ==
    LET upTo[p \in 0 .. MaxPort] ==
            IF p = 0 THEN <<>> ELSE IF p \in ports THEN WithPort(upTo[p - 1], p) ELSE upTo[p - 1]
    IN  upTo[MaxPort]

\* Each run of a protocol is a part; the prefix is written before the first.
Written(ports, prefix) ==
    [i \in DOMAIN Runs(ports) |-> [prefix |-> IF i = 1 THEN prefix ELSE "none", form |-> "plain",
                                   lo |-> Runs(ports)[i].lo, hi |-> Runs(ports)[i].hi]]

\* Not the code: TCP comes without a prefix, and last.
SerializeTcpLast(ports) ==
    LET of(protocol) == {p \in Numbered : <<protocol, p>> \in ports}
    IN  Written(of("udp"), "U") \o Written(of("tcp"), "none")

\* serializeProtoPortSet: without UDP there is no prefix.
Serialize(ports) ==
    LET of(protocol) == {p \in Numbered : <<protocol, p>> \in ports}
    IN  IF of("udp") = {} THEN Written(of("tcp"), "none")
        ELSE Written(of("tcp"), "T") \o Written(of("udp"), "U")

\* subtractPorts
EffectiveSpec == Serialize(Remainder(spec, barred))

\* How the tool that is given the spec must read a part if what is written is to
\* be what was meant: its prefix holds until the next one.
ReadPart(read, part) ==
    LET prefix == IF part.prefix = "none" THEN read.prefix ELSE part.prefix
    IN  [prefix |-> prefix,
         ports |-> read.ports \cup ({IF prefix = "U" THEN "udp" ELSE "tcp"} \X (part.lo .. part.hi))]
ToolPorts(s) ==
    LET upTo[i \in 0 .. Len(s)] ==
            IF i = 0 THEN [prefix |-> "T", ports |-> {}] ELSE ReadPart(upTo[i - 1], s[i])
    IN  upTo[Len(s)].ports

\* Not the code: an address's own exclude list is taken for TCP only.
FilterResultsTcp(found) == {pp \in found : pp[1] = "udp" \/ pp[2] \notin scoped}

\* filterIPPortExcludes, of what masscan found on the address.
FilterResults(found) == {pp \in found : pp[2] \notin scoped}

\* fixedUDPProbeInScope: a part for TCP does not count.
ProbeInScope(s, p) == \E i \in DOMAIN s : s[i].prefix # "T" /\ s[i].lo <= p /\ p <= s[i].hi

\* isPortExcludedForHost
PortExcludedForHost(p) == p \in barred \/ p \in scoped

\* The ports of the address that are looked at after discovery, if all of them answer.
Enriched ==
    FilterResults(ToolPorts(EffectiveSpec))
        \cup {<<"udp", p>> : p \in {p \in Probes : ProbeInScope(spec, p) /\ ~PortExcludedForHost(p)}}

\* CountPorts: what an unreadable spec counts is 0.
CountPorts(s) == IF Parses(s) THEN Cardinality(ProtoPortSet(s)) ELSE 0

(***************************************************************************)
(* The webserver.                                                          *)
(***************************************************************************)

\* Not the code: white space is refused.
NumberReadsUnspaced(part) == part.form \in {"plain", "numeral"}

\* Number, which ignores white space and knows more numerals than Atoi.
NumberReads(part) == part.form \in {"plain", "numeral", "spaced"}

\* parsePortSpec: null, also of a spec of blanks, or singles as a set and ranges
\* as a list, here by position.
ServerParses(s) ==
    /\ \A i \in DOMAIN s : Skipped(s[i]) \/ (NumberReads(s[i]) /\ InRange(s[i]))
    /\ \E i \in DOMAIN s : ~Skipped(s[i])
Singles(s) == {<<Protocol(s[i]), s[i].lo>> : i \in {i \in DOMAIN s : s[i].lo = s[i].hi}}
Spans(s) == {i \in DOMAIN s : s[i].lo < s[i].hi}

\* Not the code: the end of a range is not part of it.
PortSpecCoversShort(s, pp) ==
    \/ pp \in Singles(s)
    \/ \E i \in Spans(s) : Protocol(s[i]) = pp[1] /\ s[i].lo <= pp[2] /\ pp[2] < s[i].hi

PortSpecCovers(s, pp) ==
    \/ pp \in Singles(s)
    \/ \E i \in Spans(s) : Protocol(s[i]) = pp[1] /\ s[i].lo <= pp[2] /\ pp[2] <= s[i].hi

\* Not the code: a range counts one too few.
RangeSizeShort(part) == part.hi - part.lo

RangeSize(part) == part.hi - part.lo + 1

\* countPorts of the estimate.
EstimatePorts(s) ==
    LET upTo[i \in 0 .. Len(s)] ==
            IF i = 0 THEN Cardinality(Singles(s))
            ELSE IF i \in Spans(s) THEN upTo[i - 1] + RangeSize(s[i]) ELSE upTo[i - 1]
    IN  upTo[Len(s)]

(***************************************************************************)
(* Typing.                                                                 *)
(***************************************************************************)

\* A spec that neither side can read is not continued: it stays so.
TypePart(part) ==
    /\ Len(spec) < MaxParts /\ (Parses(spec) \/ ServerParses(spec))
    /\ barred = {} /\ scoped = {}
    /\ spec' = Append(spec, part)
    /\ UNCHANGED <<barred, scoped>>

\* An entry is a port or a range.
ExcludePorts(lo, hi) ==
    /\ Parses(spec)
    /\ \/ barred = {} /\ barred' = lo .. hi /\ UNCHANGED scoped
       \/ scoped = {} /\ scoped' = lo .. hi /\ UNCHANGED barred
    /\ UNCHANGED spec

PortInit == spec = <<>> /\ barred = {} /\ scoped = {}

PortNext ==
    \/ \E part \in Part : TypePart(part)
    \/ \E lo, hi \in Numbered : lo <= hi /\ ExcludePorts(lo, hi)

PortSpec == PortInit /\ [][PortNext]_portVars

(***************************************************************************)
(* Properties.                                                             *)
(***************************************************************************)

\* A spec that is written down again can be read again.
PortTypeOK ==
    /\ spec \in Seq(Part)
    /\ barred \in SUBSET Numbered /\ scoped \in SUBSET Numbered
    /\ Parses(spec) => EffectiveSpec \in Seq(Part) /\ Parses(EffectiveSpec)

\* The two parsers, which share nothing, agree about every scan there is: where
\* the scanner finds ports to scan, the webserver reads the spec too, and takes
\* the scan to have covered just these (lib/portSpec.ts:3-15). It reads more, but
\* only by a numeral or a space that Atoi refuses: such a scan fails at once,
\* and so reports no port and covers none.
ParsersAgree ==
    /\ Parses(spec) /\ ProtoPortSet(spec) # {} => ServerParses(spec)
    /\ Parses(spec) /\ ServerParses(spec) =>
           \A pp \in Protocols \X Numbered : PortSpecCovers(spec, pp) <=> pp \in ProtoPortSet(spec)
    /\ ServerParses(spec) /\ ~Parses(spec) => \E i \in DOMAIN spec : spec[i].form \in {"numeral", "spaced"}

\* What masscan is told to scan is what was asked for less what is excluded,
\* however prefixes and runs are written (excludes.go:57-84), if a prefix holds
\* on. If it holds for its part only, as the comments say, that is so of specs
\* that leave at most one run of UDP ports.
EffectiveIsTheRest ==
    LET rest == {pp \in ProtoPortSet(spec) : pp[2] \notin barred}
    IN  Parses(spec) =>
            /\ ToolPorts(EffectiveSpec) = rest
            /\ Len(Runs({p \in Numbered : <<"udp", p>> \in rest})) <= 1 => ProtoPortSet(EffectiveSpec) = rest

\* No excluded port of an address is looked at after discovery, by nmap or by a
\* fixed probe: three mechanisms, one promise (excludes.go:11-14, 123-132).
ExcludedIsLeftAlone ==
    Parses(spec) => \A pp \in Enriched : pp[2] \notin barred \cup scoped

\* The dashboard's estimate counts what the scanner scans (estimate.ts:4-13),
\* unless parts overlap: then it counts too many, and never too few.
EstimateCountsPorts ==
    LET overlap == \E i, j \in DOMAIN spec :
                       i # j /\ Protocol(spec[i]) = Protocol(spec[j])
                       /\ spec[i].lo <= spec[j].hi /\ spec[j].lo <= spec[i].hi
    IN  Parses(spec) /\ ServerParses(spec) =>
            /\ EstimatePorts(spec) >= CountPorts(spec)
            /\ ~overlap => EstimatePorts(spec) = CountPorts(spec)

\* The scanner and the webserver read a port spec as the same ports, and what is
\* scanned of it is those less the excluded ones.
PortsAgree ==
    PortTypeOK /\ ParsersAgree /\ EffectiveIsTheRest /\ ExcludedIsLeftAlone /\ EstimateCountsPorts

=============================================================================
