------------------------------ MODULE AddressProofs ------------------------------
(***************************************************************************)
(* What is proved about the pure arithmetic of PortSpecs and TargetRanges: *)
(* the parsers of a port spec agree, and what a target is cut into is what *)
(* was typed. The functions under proof are loops over a list; a lemma for *)
(* each says what one turn keeps, and AlongRecursion takes that to the end *)
(* of the list.                                                            *)
(***************************************************************************)
EXTENDS PortSpecs, TargetRanges, FiniteSetTheorems, SequenceTheorems, TLAPS

(***************************************************************************)
(* Loops.                                                                  *)
(***************************************************************************)

\* Of numbers that are not all in a set, there is a least one that is not.
LEMMA Climb ==
  ASSUME NEW S, 0 \in S, \A n \in Nat : n \in S => n + 1 \in S
  PROVE  \A n \in Nat : n \in S
<1> DEFINE Out == {n \in Nat : n \notin S}
           Less == {ss \in Nat \X Nat : ss[1] < ss[2]}
<1>1. SUFFICES ASSUME Out # {} PROVE FALSE OBVIOUS
<1>2. IsWellFoundedOn(Less, Nat) BY NatLessThanWellFounded DEF OpToRel
<1>3. PICK x \in Out : \A y \in Out : ~(<<y, x>> \in Less) BY <1>1, <1>2, WFMin
<1>4. x \in Nat /\ x # 0 /\ x \notin S OBVIOUS
<1>5. x - 1 \in Nat /\ x - 1 < x /\ (x - 1) + 1 = x BY <1>4
<1>6. <<x - 1, x>> \in Less BY <1>4, <1>5
<1>7. x - 1 \in S BY <1>3, <1>5, <1>6
<1> QED BY <1>4, <1>5, <1>7

\* A function of 0 .. n that begins with b and goes on by st.
Computes(g, n, b, st) == g[0] = b /\ \A i \in 1 .. n : g[i] = st[i][g[i - 1]]

\* There is one.
LEMMA Recursion ==
  ASSUME NEW n \in Nat, NEW B, NEW b \in B, NEW st \in [1 .. n -> [B -> B]]
  PROVE  \E g \in [0 .. n -> B] : Computes(g, n, b, st)
<1> DEFINE Upto(m) == \E g \in [0 .. m -> B] : g[0] = b /\ \A i \in 1 .. m : g[i] = st[i][g[i - 1]]
           S == {m \in Nat : m <= n => Upto(m)}
<1>1. 0 \in S
  <2>1. Upto(0)
    <3> DEFINE g == [i \in 0 .. 0 |-> b]
    <3>1. g \in [0 .. 0 -> B] /\ g[0] = b OBVIOUS
    <3>2. \A i \in 1 .. 0 : g[i] = st[i][g[i - 1]] OBVIOUS
    <3> QED BY <3>1, <3>2
  <2> HIDE DEF Upto
  <2> QED BY <2>1
<1>2. ASSUME NEW m \in Nat, m \in S PROVE m + 1 \in S
  <2> SUFFICES ASSUME m + 1 <= n PROVE Upto(m + 1) OBVIOUS
  <2>1. PICK g \in [0 .. m -> B] : g[0] = b /\ \A i \in 1 .. m : g[i] = st[i][g[i - 1]] BY <1>2
  <2> DEFINE h == [i \in 0 .. m + 1 |-> IF i <= m THEN g[i] ELSE st[i][g[m]]]
  <2>2. g[m] \in B /\ m + 1 \in 1 .. n BY <2>1
  <2>3. st[m + 1][g[m]] \in B BY <2>2
  <2>4. h \in [0 .. m + 1 -> B] BY <2>1, <2>3
  <2>5. h[0] = b BY <2>1
  <2>6. ASSUME NEW i \in 1 .. m + 1 PROVE h[i] = st[i][h[i - 1]]
    <3>1. h[i - 1] = g[i - 1] OBVIOUS
    <3>2. CASE i <= m BY <3>1, <3>2, <2>1
    <3>3. CASE i = m + 1 BY <3>1, <3>3
    <3> QED BY <3>2, <3>3
  <2> QED BY <2>4, <2>5, <2>6
<1> HIDE DEF S
<1>3. n \in S BY <1>1, <1>2, Climb
<1>4. Upto(n) BY <1>3 DEF S
<1>5. PICK g \in [0 .. n -> B] : g[0] = b /\ \A i \in 1 .. n : g[i] = st[i][g[i - 1]] BY <1>4
<1> QED BY <1>5 DEF Computes

\* What holds of its values holds of all.
LEMMA AlongRecursion ==
  ASSUME NEW n \in Nat, NEW B, NEW f, f[0] \in B, \A i \in 1 .. n : f[i - 1] \in B => f[i] \in B
  PROVE  \A i \in 0 .. n : f[i] \in B
<1> DEFINE S == {m \in Nat : m <= n => f[m] \in B}
<1>1. 0 \in S OBVIOUS
<1>2. ASSUME NEW m \in Nat, m \in S PROVE m + 1 \in S
  <2>1. SUFFICES ASSUME m + 1 <= n PROVE f[m + 1] \in B OBVIOUS
  <2>2. m + 1 \in 1 .. n /\ (m + 1) - 1 = m /\ f[m] \in B BY <1>2, <2>1
  <2> QED BY <2>2
<1> HIDE DEF S
<1>3. \A m \in Nat : m \in S BY <1>1, <1>2, Climb
<1> QED BY <1>3 DEF S

(***************************************************************************)
(* PortSpecs.                                                              *)
(***************************************************************************)

\* What a run of ports is.
Run == [lo : Nat, hi : Nat]

\* One more port makes runs of runs.
LEMMA WithPortType ==
  ASSUME NEW runs \in Seq(Run), NEW p \in Nat
  PROVE  WithPort(runs, p) \in Seq(Run)
<1>1. [lo |-> p, hi |-> p] \in Run BY DEF Run
<1>2. CASE runs # <<>>
  <2>1. Len(runs) \in 1 .. Len(runs) /\ runs[Len(runs)] \in Run BY <1>2
  <2>2. [runs[Len(runs)] EXCEPT !.hi = p] \in Run BY <2>1 DEF Run
  <2>3. [runs EXCEPT ![Len(runs)].hi = p] = [runs EXCEPT ![Len(runs)] = [runs[Len(runs)] EXCEPT !.hi = p]] OBVIOUS
  <2>4. [runs EXCEPT ![Len(runs)].hi = p] \in Seq(Run) BY <2>1, <2>2, <2>3
  <2> QED BY <1>1, <2>4 DEF WithPort
<1> QED BY <1>1, <1>2 DEF WithPort

\* Runs is what its definition says.
\* The runs of the ports up to each port.
RunsUpTo(g, ports) ==
    /\ g[0] = <<>> /\ Runs(ports) = g[MaxPort]
    /\ \A p \in Numbered : g[p] = IF p \in ports THEN WithPort(g[p - 1], p) ELSE g[p - 1]

\* Runs takes the ports one after the other.
LEMMA RunsDef ==
  ASSUME NEW ports, PortAssumption
  PROVE  \E g \in [0 .. MaxPort -> Seq(Run)] : RunsUpTo(g, ports)
<1> DEFINE B == Seq(Run)
           st == [p \in 1 .. MaxPort |-> [x \in B |-> IF p \in ports THEN WithPort(x, p) ELSE x]]
           F(g) == [p \in 0 .. MaxPort |-> IF p = 0 THEN <<>> ELSE IF p \in ports THEN WithPort(g[p - 1], p) ELSE g[p - 1]]
           upTo == CHOOSE g : g = F(g)
<1>1. MaxPort \in Nat BY PortAssumption
<1>2. <<>> \in B /\ \A x \in B : \A p \in Nat : WithPort(x, p) \in B BY WithPortType
<1>8. Runs(ports) = upTo[MaxPort] BY DEF Runs
<1> HIDE DEF B
<1>3. st \in [1 .. MaxPort -> [B -> B]] BY <1>1, <1>2
<1>13. <<>> \in B BY <1>2
<1> HIDE DEF st, upTo, F
<1>4. PICK g \in [0 .. MaxPort -> B] : Computes(g, MaxPort, <<>>, st)
  BY <1>1, <1>13, <1>3, Recursion
<1>5. ASSUME NEW p \in 1 .. MaxPort PROVE g[p] = IF p \in ports THEN WithPort(g[p - 1], p) ELSE g[p - 1]
  <2>1. g[p - 1] \in B BY <1>1, <1>4
  <2> QED BY <1>4, <2>1 DEF st, Computes
<1>6. g = F(g) BY <1>1, <1>4, <1>5 DEF F, Computes
<1>7. upTo = F(upTo) BY <1>6 DEF upTo
<1> USE DEF F
<1>9. upTo[0] = <<>> BY <1>1, <1>7
<1>10. \A p \in 1 .. MaxPort : upTo[p] = IF p \in ports THEN WithPort(upTo[p - 1], p) ELSE upTo[p - 1] BY <1>1, <1>7
<1>11. \A p \in 0 .. MaxPort : upTo[p] \in B
  <2>1. \A p \in 1 .. MaxPort : upTo[p - 1] \in B => upTo[p] \in B BY <1>1, <1>2, <1>10
  <2> QED BY <1>1, <1>2, <1>9, <2>1, AlongRecursion
<1>12. upTo \in [0 .. MaxPort -> B] BY <1>7, <1>11
<1> QED BY <1>8, <1>9, <1>10, <1>12 DEF B, Numbered, RunsUpTo

\* The runs hold the ports, and each of them is one of ports.
RunsOf(runs, ports, top) ==
    /\ \A i \in 1 .. Len(runs) : 1 <= runs[i].lo /\ runs[i].lo <= runs[i].hi /\ runs[i].hi <= top
    /\ \A p \in 1 .. top : p \in ports <=> \E i \in 1 .. Len(runs) : runs[i].lo <= p /\ p <= runs[i].hi

\* At every port the runs go on to hold the ports so far.
LEMMA WithPortHolds ==
  ASSUME NEW ports, NEW runs \in Seq(Run), NEW p \in Nat \ {0}, RunsOf(runs, ports, p - 1)
  PROVE  /\ p \in ports => RunsOf(WithPort(runs, p), ports, p)
         /\ p \notin ports => RunsOf(runs, ports, p)
<1> DEFINE n == Len(runs)
           more == WithPort(runs, p)
<1>1. n \in Nat /\ \A i \in 1 .. n : runs[i].lo \in Nat /\ runs[i].hi \in Nat
  <2>1. \A i \in 1 .. n : runs[i] \in Run OBVIOUS
  <2> QED BY <2>1 DEF Run
<1>2. \A i \in 1 .. n : 1 <= runs[i].lo /\ runs[i].lo <= runs[i].hi /\ runs[i].hi <= p - 1 BY DEF RunsOf
<1>3. \A q \in 1 .. p - 1 : q \in ports <=> \E i \in 1 .. n : runs[i].lo <= q /\ q <= runs[i].hi BY DEF RunsOf
<1>4. CASE p \notin ports
  <2> HIDE DEF n
  <2>2. \A i \in 1 .. n : 1 <= runs[i].lo /\ runs[i].lo <= runs[i].hi /\ runs[i].hi <= p BY <1>1, <1>2
  <2>3. ASSUME NEW q \in 1 .. p PROVE q \in ports <=> \E i \in 1 .. n : runs[i].lo <= q /\ q <= runs[i].hi
    <3>1. CASE q = p BY <1>1, <1>2, <1>4, <3>1
    <3>2. CASE q # p
      <4>1. q \in 1 .. p - 1 BY <3>2
      <4> QED BY <1>3, <4>1
    <3> QED BY <3>1, <3>2
  <2>1. RunsOf(runs, ports, p) BY <2>2, <2>3 DEF RunsOf, n
  <2> QED BY <1>4, <2>1
<1>5. CASE p \in ports /\ runs # <<>> /\ runs[n].hi = p - 1
  <2>1. n \in 1 .. n BY <1>1, <1>5
  <2>2. more = [runs EXCEPT ![n] = [runs[n] EXCEPT !.hi = p]] BY <1>5 DEF WithPort
  <2>3. Len(more) = n BY <2>2
  <2>4. \A i \in 1 .. n : i # n => more[i] = runs[i] BY <2>2
  <2>5. more[n] = [runs[n] EXCEPT !.hi = p] BY <2>1, <2>2
  <2>6. more[n].lo = runs[n].lo /\ more[n].hi = p
    <3>1. runs[n] \in Run BY <2>1
    <3> QED BY <2>5, <3>1 DEF Run
  <2> HIDE DEF more, n
  <2>7. \A i \in 1 .. n : 1 <= more[i].lo /\ more[i].lo <= more[i].hi /\ more[i].hi <= p
    <3> SUFFICES ASSUME NEW i \in 1 .. n PROVE 1 <= more[i].lo /\ more[i].lo <= more[i].hi /\ more[i].hi <= p OBVIOUS
    <3>1. runs[i].lo \in Nat /\ runs[i].hi \in Nat /\ 1 <= runs[i].lo /\ runs[i].lo <= runs[i].hi /\ runs[i].hi <= p - 1
      BY <1>1, <1>2
    <3>2. CASE i = n BY <2>6, <3>1, <3>2
    <3>3. CASE i # n BY <2>4, <3>1, <3>3
    <3> QED BY <3>2, <3>3
  <2>8. ASSUME NEW q \in 1 .. p PROVE q \in ports <=> \E i \in 1 .. n : more[i].lo <= q /\ q <= more[i].hi
    <3>1. CASE q = p BY <1>1, <1>2, <1>5, <2>1, <2>6, <3>1
    <3>2. CASE q # p
      <4>1. q \in ports <=> \E i \in 1 .. n : runs[i].lo <= q /\ q <= runs[i].hi BY <1>3, <3>2
      <4>2. \A i \in 1 .. n : (runs[i].lo <= q /\ q <= runs[i].hi) <=> (more[i].lo <= q /\ q <= more[i].hi)
        BY <1>1, <1>5, <2>1, <2>4, <2>6, <3>2 DEF n
      <4> QED BY <4>1, <4>2
    <3> QED BY <3>1, <3>2
  <2> QED BY <1>5, <2>3, <2>7, <2>8 DEF RunsOf, more
<1>6. CASE p \in ports /\ ~(runs # <<>> /\ runs[n].hi = p - 1)
  <2>1. more = Append(runs, [lo |-> p, hi |-> p]) BY <1>6 DEF WithPort
  <2>2. Len(more) = n + 1 BY <2>1
  <2>3. \A i \in 1 .. n : more[i] = runs[i] BY <2>1
  <2>4. more[n + 1].lo = p /\ more[n + 1].hi = p BY <2>1
  <2> HIDE DEF more, n
  <2>5. \A i \in 1 .. n + 1 : 1 <= more[i].lo /\ more[i].lo <= more[i].hi /\ more[i].hi <= p
    BY <1>1, <1>2, <2>3, <2>4
  <2>6. ASSUME NEW q \in 1 .. p PROVE q \in ports <=> \E i \in 1 .. n + 1 : more[i].lo <= q /\ q <= more[i].hi
    <3>1. CASE q = p
      <4>1. q \in ports BY <1>6, <3>1
      <4>2. n + 1 \in 1 .. n + 1 /\ more[n + 1].lo <= q /\ q <= more[n + 1].hi BY <1>1, <2>4, <3>1
      <4> QED BY <4>1, <4>2
    <3>2. CASE q # p
      <4>1. q \in 1 .. p - 1 BY <3>2
      <4>2. q \in ports <=> \E i \in 1 .. n : runs[i].lo <= q /\ q <= runs[i].hi BY <1>3, <4>1
      <4>3. \A i \in 1 .. n + 1 : i \in 1 .. n \/ i = n + 1 BY <1>1
      <4>4. ~(more[n + 1].lo <= q) BY <2>4, <4>1
      <4>5. \A i \in 1 .. n : i \in 1 .. n + 1 BY <1>1
      <4> QED BY <2>3, <4>2, <4>3, <4>4, <4>5
    <3> QED BY <3>1, <3>2
  <2> QED BY <1>6, <2>2, <2>5, <2>6 DEF RunsOf, more
<1> QED BY <1>4, <1>5, <1>6

\* The runs of some ports are these ports, and no others (excludes.go: what
\* serializePortSet writes).
LEMMA RunsAreExact ==
  ASSUME NEW ports, PortAssumption
  PROVE  Runs(ports) \in Seq(Run) /\ RunsOf(Runs(ports), ports, MaxPort)
<1>1. MaxPort \in Nat BY PortAssumption
<1>0. PICK g \in [0 .. MaxPort -> Seq(Run)] : RunsUpTo(g, ports) BY RunsDef
<1>2. /\ g[0] = <<>> /\ Runs(ports) = g[MaxPort]
      /\ \A p \in Numbered : g[p] = IF p \in ports THEN WithPort(g[p - 1], p) ELSE g[p - 1]
  BY <1>0 DEF RunsUpTo
<1> DEFINE S == {m \in Nat : m <= MaxPort => RunsOf(g[m], ports, m)}
<1>3. 0 \in S
  <2>1. RunsOf(<<>>, ports, 0) BY DEF RunsOf
  <2> QED BY <1>2, <2>1
<1>4. ASSUME NEW m \in Nat, m \in S PROVE m + 1 \in S
  <2>1. SUFFICES ASSUME m + 1 <= MaxPort PROVE RunsOf(g[m + 1], ports, m + 1) OBVIOUS
  <2>2. g[m] \in Seq(Run) /\ RunsOf(g[m], ports, (m + 1) - 1) BY <1>1, <1>2, <1>4, <2>1
  <2>3. m + 1 \in Numbered /\ (m + 1) - 1 = m BY <1>1, <2>1 DEF Numbered
  <2>4. g[m + 1] = IF m + 1 \in ports THEN WithPort(g[m], m + 1) ELSE g[m] BY <1>2, <2>3
  <2>5. m + 1 \in Nat \ {0} OBVIOUS
  <2> QED BY <2>2, <2>4, <2>5, WithPortHolds
<1> HIDE DEF S
<1>5. MaxPort \in S BY <1>1, <1>3, <1>4, Climb
<1>6. RunsOf(g[MaxPort], ports, MaxPort) BY <1>1, <1>5 DEF S
<1> QED BY <1>1, <1>2, <1>6

\* What a part leaves behind in the tool that reads it.
Read == [prefix : {"none", "T", "U"}, ports : SUBSET (Protocols \X Int)]

\* A part adds its ports to those read, under the prefix that holds.
LEMMA ReadPartType ==
  ASSUME NEW read \in Read, NEW part \in Part, PortAssumption
  PROVE  ReadPart(read, part) \in Read
<1>1. part.lo \in Int /\ part.hi \in Int /\ part.prefix \in {"none", "T", "U"} BY PortAssumption DEF Part, Bounds
<1>2. (part.lo .. part.hi) \subseteq Int BY <1>1
<1>3. \A pr \in Protocols : {pr} \X (part.lo .. part.hi) \subseteq Protocols \X Int BY <1>2
<1> QED BY <1>1, <1>3 DEF ReadPart, Read, Protocols

\* Before the first part, a port is a TCP port.
Unread == [prefix |-> "T", ports |-> {}]

\* The tool takes the parts one after the other.
LEMMA ToolPortsDef ==
  ASSUME NEW s \in Seq(Part), PortAssumption
  PROVE  \E g \in [0 .. Len(s) -> Read] :
            /\ g[0] = Unread /\ ToolPorts(s) = g[Len(s)].ports
            /\ \A i \in 1 .. Len(s) : g[i] = ReadPart(g[i - 1], s[i])
<1> DEFINE n == Len(s)
           st == [i \in 1 .. n |-> [x \in Read |-> ReadPart(x, s[i])]]
           F(g) == [i \in 0 .. n |-> IF i = 0 THEN Unread ELSE ReadPart(g[i - 1], s[i])]
           upTo == CHOOSE g : g = F(g)
<1>1. n \in Nat /\ \A i \in 1 .. n : s[i] \in Part OBVIOUS
<1>2. Unread \in Read BY DEF Unread, Read
<1>3. \A x \in Read : \A i \in 1 .. n : ReadPart(x, s[i]) \in Read BY <1>1, ReadPartType
<1>4. ToolPorts(s) = upTo[n].ports BY DEF ToolPorts, Unread
<1>5. st \in [1 .. n -> [Read -> Read]] BY <1>3
<1> HIDE DEF st, upTo, F, n
<1>6. PICK g \in [0 .. n -> Read] : Computes(g, n, Unread, st) BY <1>1, <1>2, <1>5, Recursion
<1>7. ASSUME NEW i \in 1 .. n PROVE g[i] = ReadPart(g[i - 1], s[i])
  <2>1. g[i - 1] \in Read BY <1>1, <1>6
  <2> QED BY <1>6, <2>1 DEF st, Computes
<1>8. g = F(g) BY <1>1, <1>6, <1>7 DEF F, Computes
<1>9. upTo = F(upTo) BY <1>8 DEF upTo
<1>10. upTo[0] = Unread BY <1>1, <1>9 DEF F
<1>11. \A i \in 1 .. n : upTo[i] = ReadPart(upTo[i - 1], s[i]) BY <1>1, <1>9 DEF F
<1>12. \A i \in 0 .. n : upTo[i] \in Read
  <2>1. \A i \in 1 .. n : upTo[i - 1] \in Read => upTo[i] \in Read BY <1>1, <1>3, <1>11
  <2> QED BY <1>1, <1>2, <1>10, <2>1, AlongRecursion
<1>13. upTo \in [0 .. n -> Read] BY <1>9, <1>12 DEF F
<1> QED BY <1>4, <1>10, <1>11, <1>13 DEF n

\* Of a spec whose parts for TCP come first, and where the first for UDP says so.
Tells(i, m) == IF i <= m THEN "tcp" ELSE "udp"

\* A spec that names TCP before UDP is read as its parts say, with one prefix.
LEMMA ToolReads ==
  ASSUME NEW s \in Seq(Part), PortAssumption, NEW m \in 0 .. Len(s),
         \A i \in 1 .. m : s[i].prefix \in {"none", "T"},
         \A i \in m + 1 .. Len(s) : s[i].prefix \in {"none", "U"},
         m < Len(s) => s[m + 1].prefix = "U"
  PROVE  \A pp \in Protocols \X Int :
            pp \in ToolPorts(s) <=> \E i \in 1 .. Len(s) : pp[1] = Tells(i, m) /\ s[i].lo <= pp[2] /\ pp[2] <= s[i].hi
<1> DEFINE n == Len(s)
<1>1. n \in Nat /\ m \in Nat /\ m <= n OBVIOUS
<1>2. \A i \in 1 .. n : s[i].lo \in Int /\ s[i].hi \in Int
  <2>1. \A i \in 1 .. n : s[i] \in Part OBVIOUS
  <2> QED BY <2>1, PortAssumption DEF Part, Bounds
<1>3. PICK g \in [0 .. n -> Read] :
            /\ g[0] = Unread /\ ToolPorts(s) = g[n].ports
            /\ \A i \in 1 .. n : g[i] = ReadPart(g[i - 1], s[i])
  BY ToolPortsDef
<1> HIDE DEF n
<1> DEFINE Done(k) ==
             /\ g[k].prefix = IF k <= m THEN "T" ELSE "U"
             /\ \A pp \in Protocols \X Int :
                  pp \in g[k].ports <=> \E i \in 1 .. k : pp[1] = Tells(i, m) /\ s[i].lo <= pp[2] /\ pp[2] <= s[i].hi
           S == {k \in Nat : k <= n => Done(k)}
<1>4. 0 \in S
  <2>1. Done(0) BY <1>1, <1>3 DEF Unread
  <2> QED BY <2>1
<1>5. ASSUME NEW k \in Nat, k \in S PROVE k + 1 \in S
  <2> SUFFICES ASSUME k + 1 <= n PROVE Done(k + 1) OBVIOUS
  <2>1. Done(k) /\ k + 1 \in 1 .. n /\ (k + 1) - 1 = k BY <1>1, <1>5
  <2>2. g[k + 1] = ReadPart(g[k], s[k + 1]) BY <1>3, <2>1
  <2>3. g[k + 1].prefix = IF s[k + 1].prefix = "none" THEN g[k].prefix ELSE s[k + 1].prefix BY <2>2 DEF ReadPart
  <2>4. g[k + 1].prefix = IF k + 1 <= m THEN "T" ELSE "U"
    <3>1. CASE k + 1 <= m
      <4>1. s[k + 1].prefix \in {"none", "T"} BY <1>1, <2>1, <3>1
      <4> QED BY <1>1, <2>1, <2>3, <3>1, <4>1
    <3>2. CASE k = m
      <4>1. s[k + 1].prefix = "U" BY <1>1, <2>1, <3>2 DEF n
      <4> QED BY <1>1, <2>3, <3>2, <4>1
    <3>3. CASE k > m
      <4>1. s[k + 1].prefix \in {"none", "U"} BY <1>1, <2>1, <3>3 DEF n
      <4> QED BY <1>1, <2>1, <2>3, <3>3, <4>1
    <3> QED BY <1>1, <3>1, <3>2, <3>3
  <2>5. g[k + 1].ports = g[k].ports \cup ({Tells(k + 1, m)} \X (s[k + 1].lo .. s[k + 1].hi))
    <3>1. g[k + 1].ports = g[k].ports \cup ({IF g[k + 1].prefix = "U" THEN "udp" ELSE "tcp"} \X (s[k + 1].lo .. s[k + 1].hi))
      BY <2>2, <2>3 DEF ReadPart
    <3> QED BY <1>1, <2>4, <3>1 DEF Tells
  <2>6. ASSUME NEW pp \in Protocols \X Int
        PROVE  pp \in g[k + 1].ports <=> \E i \in 1 .. k + 1 : pp[1] = Tells(i, m) /\ s[i].lo <= pp[2] /\ pp[2] <= s[i].hi
    <3>1. pp \in g[k].ports <=> \E i \in 1 .. k : pp[1] = Tells(i, m) /\ s[i].lo <= pp[2] /\ pp[2] <= s[i].hi BY <2>1
    <3>2. pp \in ({Tells(k + 1, m)} \X (s[k + 1].lo .. s[k + 1].hi))
            <=> pp[1] = Tells(k + 1, m) /\ s[k + 1].lo <= pp[2] /\ pp[2] <= s[k + 1].hi BY <1>2, <2>1
    <3>3. \A i : i \in 1 .. k + 1 <=> i \in 1 .. k \/ i = k + 1 OBVIOUS
    <3> QED BY <2>5, <3>1, <3>2, <3>3
  <2> QED BY <2>4, <2>6
<1> HIDE DEF S
<1>6. n \in S BY <1>1, <1>4, <1>5, Climb
<1>7. Done(n) BY <1>1, <1>6 DEF S
<1> QED BY <1>3, <1>7 DEF n

\* A spec in which each part but those for TCP says what it is for, is read as the
\* same ports by who takes a prefix for its own part only.
LEMMA ReadingsMeet ==
  ASSUME NEW s \in Seq(Part), PortAssumption, NEW m \in 0 .. Len(s), Len(s) <= m + 1,
         \A i \in 1 .. m : s[i].prefix \in {"none", "T"},
         m < Len(s) => s[m + 1].prefix = "U"
  PROVE  \A pp \in Protocols \X Int : pp \in ToolPorts(s) <=> pp \in ProtoPortSet(s)
<1>1. \A i \in m + 1 .. Len(s) : i = m + 1 /\ s[i].prefix = "U" OBVIOUS
<1>2. \A pp \in Protocols \X Int :
         pp \in ToolPorts(s) <=> \E i \in 1 .. Len(s) : pp[1] = Tells(i, m) /\ s[i].lo <= pp[2] /\ pp[2] <= s[i].hi
  BY <1>1, ToolReads
<1>3. ASSUME NEW i \in 1 .. Len(s) PROVE Protocol(s[i]) = Tells(i, m)
  <2>1. CASE i <= m BY <2>1 DEF Protocol, Tells
  <2>2. CASE i > m BY <1>1, <2>2 DEF Protocol, Tells
  <2> QED BY <2>1, <2>2
<1>4. ASSUME NEW i \in 1 .. Len(s) PROVE s[i].lo \in Int /\ s[i].hi \in Int
  <2>1. s[i] \in Part OBVIOUS
  <2> QED BY <2>1, PortAssumption DEF Part, Bounds
<1>5. ASSUME NEW pp \in Protocols \X Int
      PROVE  pp \in ProtoPortSet(s) <=>
                \E i \in 1 .. Len(s) : pp[1] = Tells(i, m) /\ s[i].lo <= pp[2] /\ pp[2] <= s[i].hi
  <2>1. pp = <<pp[1], pp[2]>> /\ pp[2] \in Int OBVIOUS
  <2>2. pp \in ProtoPortSet(s) <=> \E i \in DOMAIN s : pp \in {Protocol(s[i])} \X (s[i].lo .. s[i].hi)
    BY DEF ProtoPortSet
  <2>3. DOMAIN s = 1 .. Len(s) OBVIOUS
  <2>4. \A i \in 1 .. Len(s) : pp \in {Protocol(s[i])} \X (s[i].lo .. s[i].hi)
                                 <=> pp[1] = Protocol(s[i]) /\ s[i].lo <= pp[2] /\ pp[2] <= s[i].hi
    BY <1>4, <2>1
  <2> QED BY <1>3, <2>2, <2>3, <2>4
<1> QED BY <1>2, <1>5

\* Ports of one protocol.
Of(protocol, ports) == {p \in Numbered : <<protocol, p>> \in ports}

\* Runs are written as parts, the first of which has the prefix.
Writes(w, runs, prefix) ==
    /\ w \in Seq(Part) /\ Len(w) = Len(runs) /\ Parses(w)
    /\ \A i \in 1 .. Len(w) : /\ w[i].prefix = IF i = 1 THEN prefix ELSE "none"
                              /\ w[i].lo = runs[i].lo /\ w[i].hi = runs[i].hi

\* A run that is written is a part that can be read.
LEMMA WrittenIsRuns ==
  ASSUME NEW ports, NEW prefix \in {"none", "T", "U"}, PortAssumption
  PROVE  Writes(Written(ports, prefix), Runs(ports), prefix)
<1> DEFINE runs == Runs(ports)
           w == Written(ports, prefix)
           n == Len(runs)
<1>1. MaxPort \in Nat BY PortAssumption
<1>2. runs \in Seq(Run) /\ RunsOf(runs, ports, MaxPort) BY RunsAreExact
<1> HIDE DEF runs
<1>3. n \in Nat /\ DOMAIN runs = 1 .. n BY <1>2
<1>4. \A i \in 1 .. n : /\ runs[i].lo \in Nat /\ runs[i].hi \in Nat
                        /\ 1 <= runs[i].lo /\ runs[i].lo <= runs[i].hi /\ runs[i].hi <= MaxPort
  <2>1. \A i \in 1 .. n : runs[i] \in Run BY <1>2
  <2> QED BY <1>2, <2>1 DEF Run, RunsOf
<1>5. w = [i \in 1 .. n |-> [prefix |-> IF i = 1 THEN prefix ELSE "none", form |-> "plain",
                            lo |-> runs[i].lo, hi |-> runs[i].hi]]
  BY <1>3 DEF Written, runs
<1> HIDE DEF w, n
<1>6. \A i \in 1 .. n : /\ w[i].prefix = IF i = 1 THEN prefix ELSE "none"
                        /\ w[i].lo = runs[i].lo /\ w[i].hi = runs[i].hi BY <1>5
<1>7. ASSUME NEW i \in 1 .. n PROVE w[i] \in Part /\ AtoiReads(w[i]) /\ InRange(w[i])
  <2>1. w[i] = [prefix |-> IF i = 1 THEN prefix ELSE "none", form |-> "plain", lo |-> runs[i].lo, hi |-> runs[i].hi]
    BY <1>5
  <2>2. runs[i].lo \in Bounds /\ runs[i].hi \in Bounds BY <1>1, <1>4 DEF Bounds
  <2>3. w[i] \in Part BY <2>1, <2>2 DEF Part
  <2> QED BY <1>1, <1>4, <2>1, <2>3 DEF AtoiReads, InRange
<1>8. w \in [1 .. n -> Part] BY <1>5, <1>7
<1>9. w \in Seq(Part) /\ Len(w) = n BY <1>3, <1>8
<1> QED BY <1>3, <1>6, <1>7, <1>8, <1>9 DEF Writes, Parses, w, n, runs

\* What two lists of parts hold together.
LEMMA PartsTogether ==
  ASSUME NEW a \in Seq(Part), NEW b \in Seq(Part)
  PROVE  /\ a \o b \in Seq(Part) /\ Len(a \o b) = Len(a) + Len(b)
         /\ \A i \in 1 .. Len(a) : (a \o b)[i] = a[i]
         /\ \A i \in 1 .. Len(b) : (a \o b)[Len(a) + i] = b[i]
         /\ Parses(a) /\ Parses(b) => Parses(a \o b)
<1>1. a \o b \in Seq(Part) /\ Len(a \o b) = Len(a) + Len(b) OBVIOUS
<1>2. \A i \in 1 .. Len(a) : (a \o b)[i] = a[i] OBVIOUS
<1>3. \A i \in 1 .. Len(b) : (a \o b)[Len(a) + i] = b[i] OBVIOUS
<1>4. ASSUME Parses(a), Parses(b), NEW i \in 1 .. Len(a) + Len(b) PROVE Skipped((a \o b)[i]) \/ (AtoiReads((a \o b)[i]) /\ InRange((a \o b)[i]))
  <2>1. CASE i <= Len(a) BY <1>2, <1>4, <2>1 DEF Parses
  <2>2. CASE i > Len(a)
    <3>1. i - Len(a) \in 1 .. Len(b) /\ Len(a) + (i - Len(a)) = i BY <2>2
    <3> QED BY <1>3, <1>4, <3>1 DEF Parses
  <2> QED BY <2>1, <2>2
<1>5. DOMAIN (a \o b) = 1 .. Len(a) + Len(b) BY <1>1
<1> QED BY <1>1, <1>2, <1>3, <1>4, <1>5 DEF Parses

\* The ports of a protocol are those of its runs.
LEMMA RunsOfProtocol ==
  ASSUME NEW ports \in SUBSET (Protocols \X Numbered), NEW pr \in Protocols, NEW p \in Int, PortAssumption
  PROVE  <<pr, p>> \in ports <=>
            \E i \in 1 .. Len(Runs(Of(pr, ports))) : Runs(Of(pr, ports))[i].lo <= p /\ p <= Runs(Of(pr, ports))[i].hi
<1> DEFINE runs == Runs(Of(pr, ports))
<1>1. runs \in Seq(Run) /\ RunsOf(runs, Of(pr, ports), MaxPort) BY RunsAreExact
<1>2. MaxPort \in Nat BY PortAssumption
<1>3. <<pr, p>> \in ports <=> p \in Of(pr, ports) BY DEF Of
<1> HIDE DEF runs
<1>4. \A i \in 1 .. Len(runs) : runs[i].lo \in Nat /\ runs[i].hi \in Nat
  <2>1. \A i \in 1 .. Len(runs) : runs[i] \in Run BY <1>1
  <2> QED BY <2>1 DEF Run
<1>5. CASE p \in 1 .. MaxPort BY <1>1, <1>3, <1>5 DEF RunsOf, runs
<1>6. CASE p \notin 1 .. MaxPort
  <2>1. p \notin Of(pr, ports) BY <1>6 DEF Of, Numbered
  <2>2. \A i \in 1 .. Len(runs) : ~(runs[i].lo <= p /\ p <= runs[i].hi) BY <1>1, <1>2, <1>4, <1>6 DEF RunsOf
  <2> QED BY <1>3, <2>1, <2>2 DEF runs
<1> QED BY <1>5, <1>6

\* What is written down again can be read again, and is read by masscan as the
\* same ports; in the scanner's own way of reading, if the UDP ports are one run.
LEMMA SerializeReads ==
  ASSUME NEW ports \in SUBSET (Protocols \X Numbered), PortAssumption
  PROVE  /\ Serialize(ports) \in Seq(Part) /\ Parses(Serialize(ports))
         /\ \A pp \in Protocols \X Int : pp \in ToolPorts(Serialize(ports)) <=> pp \in ports
         /\ Len(Runs(Of("udp", ports))) <= 1 =>
               \A pp \in Protocols \X Int : pp \in ToolPorts(Serialize(ports)) <=> pp \in ProtoPortSet(Serialize(ports))
<1> DEFINE tcp == Of("tcp", ports)
           udp == Of("udp", ports)
           tr == Runs(tcp)
           ur == Runs(udp)
           s == Serialize(ports)
<1>1. \A pp \in Protocols \X Int : pp = <<pp[1], pp[2]>> /\ pp[1] \in Protocols /\ pp[2] \in Int OBVIOUS
<1>2. \A p \in Int : <<"tcp", p>> \in ports <=> \E i \in 1 .. Len(tr) : tr[i].lo <= p /\ p <= tr[i].hi
  BY RunsOfProtocol DEF Protocols
<1>3. \A p \in Int : <<"udp", p>> \in ports <=> \E i \in 1 .. Len(ur) : ur[i].lo <= p /\ p <= ur[i].hi
  BY RunsOfProtocol DEF Protocols
<1>4. CASE udp = {}
  <2> DEFINE w == Written(tcp, "none")
  <2>1. s = w BY <1>4 DEF Serialize, Of
  <2>2. /\ w \in Seq(Part) /\ Len(w) = Len(tr) /\ Parses(w)
        /\ \A i \in 1 .. Len(w) : w[i].prefix = "none" /\ w[i].lo = tr[i].lo /\ w[i].hi = tr[i].hi
    <3>1. Writes(w, tr, "none") BY WrittenIsRuns
    <3> QED BY <3>1 DEF Writes
  <2> HIDE DEF w, tr
  <2>3. \A pp \in Protocols \X Int :
            pp \in ToolPorts(w) <=> \E i \in 1 .. Len(w) : pp[1] = Tells(i, Len(w)) /\ w[i].lo <= pp[2] /\ pp[2] <= w[i].hi
    <3>1. Len(w) \in 0 .. Len(w) BY <2>2
    <3>2. \A i \in 1 .. Len(w) : w[i].prefix \in {"none", "T"} BY <2>2
    <3>3. \A i \in Len(w) + 1 .. Len(w) : w[i].prefix \in {"none", "U"} BY <2>2
    <3>4. ~(Len(w) < Len(w)) BY <2>2
    <3> QED BY <2>2, <3>1, <3>2, <3>3, <3>4, ToolReads
  <2>4. ASSUME NEW pp \in Protocols \X Int PROVE pp \in ToolPorts(w) <=> pp \in ports
    <3>1. Len(w) \in Nat /\ \A i \in 1 .. Len(w) : Tells(i, Len(w)) = "tcp" BY <2>2 DEF Tells
    <3>2. pp \in ToolPorts(w) <=> pp[1] = "tcp" /\ \E i \in 1 .. Len(tr) : tr[i].lo <= pp[2] /\ pp[2] <= tr[i].hi
      BY <2>2, <2>3, <3>1
    <3>3. pp[1] = "udp" => pp \notin ports
      <4>1. ASSUME pp[1] = "udp", pp \in ports PROVE FALSE
        <5>1. pp[2] \in udp BY <4>1, <1>1 DEF Of
        <5> QED BY <5>1, <1>4
      <4> QED BY <4>1
    <3>4. pp[1] = "tcp" => (pp \in ports <=> \E i \in 1 .. Len(tr) : tr[i].lo <= pp[2] /\ pp[2] <= tr[i].hi)
      BY <1>1, <1>2
    <3> QED BY <1>1, <3>2, <3>3, <3>4 DEF Protocols
  <2>5. \A pp \in Protocols \X Int : pp \in ToolPorts(w) <=> pp \in ProtoPortSet(w)
    <3>1. Len(w) \in 0 .. Len(w) /\ Len(w) <= Len(w) + 1 /\ ~(Len(w) < Len(w)) BY <2>2
    <3>2. \A i \in 1 .. Len(w) : w[i].prefix \in {"none", "T"} BY <2>2
    <3> QED BY <2>2, <3>1, <3>2, ReadingsMeet
  <2> QED BY <2>1, <2>2, <2>4, <2>5
<1>5. CASE udp # {}
  <2> DEFINE a == Written(tcp, "T")
             b == Written(udp, "U")
             w == a \o b
             m == Len(a)
  <2>1. s = w BY <1>5 DEF Serialize, Of
  <2>2. /\ a \in Seq(Part) /\ Len(a) = Len(tr) /\ Parses(a)
        /\ \A i \in 1 .. Len(a) : a[i].prefix \in {"none", "T"} /\ a[i].lo = tr[i].lo /\ a[i].hi = tr[i].hi
    <3>1. Writes(a, tr, "T") BY WrittenIsRuns
    <3> HIDE DEF a, tr
    <3> QED BY <3>1 DEF Writes
  <2>3. /\ b \in Seq(Part) /\ Len(b) = Len(ur) /\ Parses(b)
        /\ \A i \in 1 .. Len(b) : /\ b[i].prefix = (IF i = 1 THEN "U" ELSE "none")
                                  /\ b[i].lo = ur[i].lo /\ b[i].hi = ur[i].hi
    <3>1. Writes(b, ur, "U") BY WrittenIsRuns
    <3> HIDE DEF b, ur
    <3> QED BY <3>1 DEF Writes
  <2> HIDE DEF a, b, tr, ur
  <2>4. /\ w \in Seq(Part) /\ Len(w) = m + Len(b) /\ Parses(w)
        /\ \A i \in 1 .. m : w[i] = a[i]
        /\ \A i \in 1 .. Len(b) : w[m + i] = b[i]
    <3>1. a \in Seq(Part) /\ b \in Seq(Part) /\ Parses(a) /\ Parses(b) BY <2>2, <2>3
    <3>2. /\ a \o b \in Seq(Part) /\ Len(a \o b) = Len(a) + Len(b)
          /\ \A i \in 1 .. Len(a) : (a \o b)[i] = a[i]
          /\ \A i \in 1 .. Len(b) : (a \o b)[Len(a) + i] = b[i]
          /\ Parses(a \o b)
      BY <3>1, PartsTogether, Zenon
    <3> QED BY <3>2
  <2>5. m \in Nat /\ Len(b) \in Nat BY <2>2, <2>3
  <2> HIDE DEF w, m
  <2>6. \A i \in 1 .. m : w[i].prefix \in {"none", "T"} /\ w[i].lo = tr[i].lo /\ w[i].hi = tr[i].hi BY <2>2, <2>4 DEF m
  <2>7. \A i \in m + 1 .. Len(w) : /\ i - m \in 1 .. Len(b) /\ w[i] = b[i - m]
    <3>1. ASSUME NEW i \in m + 1 .. Len(w) PROVE i - m \in 1 .. Len(b) /\ w[i] = b[i - m]
      <4>1. i - m \in 1 .. Len(b) /\ m + (i - m) = i BY <2>4, <2>5
      <4> QED BY <2>4, <4>1
    <3> QED BY <3>1
  <2>8. \A i \in m + 1 .. Len(w) : w[i].prefix \in {"none", "U"} BY <2>3, <2>7
  <2>9. m < Len(w) => w[m + 1].prefix = "U"
    <3>1. m < Len(w) => 1 \in 1 .. Len(b) BY <2>4, <2>5
    <3> QED BY <2>3, <2>4, <3>1
  <2>10. \A pp \in Protocols \X Int :
            pp \in ToolPorts(w) <=> \E i \in 1 .. Len(w) : pp[1] = Tells(i, m) /\ w[i].lo <= pp[2] /\ pp[2] <= w[i].hi
    <3>1. m \in 0 .. Len(w) BY <2>4, <2>5
    <3>2. \A i \in 1 .. m : w[i].prefix \in {"none", "T"} BY <2>6
    <3> QED BY <2>4, <2>8, <2>9, <3>1, <3>2, ToolReads
  <2>11. ASSUME NEW pp \in Protocols \X Int PROVE pp \in ToolPorts(w) <=> pp \in ports
    <3>1. \A i \in 1 .. m : i \in 1 .. Len(w) /\ Tells(i, m) = "tcp" BY <2>4, <2>5 DEF Tells
    <3>2. \A i \in m + 1 .. Len(w) : Tells(i, m) = "udp" BY <2>4, <2>5 DEF Tells
    <3>3. CASE pp[1] = "tcp"
      <4>1. pp \in ToolPorts(w) <=> \E i \in 1 .. m : w[i].lo <= pp[2] /\ pp[2] <= w[i].hi
        <5>1. \A i \in 1 .. Len(w) : i \in 1 .. m \/ i \in m + 1 .. Len(w) BY <2>4, <2>5
        <5>2. \A i \in 1 .. Len(w) : Tells(i, m) = "tcp" <=> i \in 1 .. m BY <3>1, <3>2, <5>1 DEF Tells
        <5> QED BY <2>10, <3>1, <3>3, <5>2
      <4>2. pp \in ToolPorts(w) <=> \E i \in 1 .. m : tr[i].lo <= pp[2] /\ pp[2] <= tr[i].hi BY <2>6, <4>1
      <4> QED BY <1>1, <1>2, <2>2, <3>3, <4>2 DEF m
    <3>4. CASE pp[1] = "udp"
      <4>1. pp \in ToolPorts(w) <=> \E i \in m + 1 .. Len(w) : w[i].lo <= pp[2] /\ pp[2] <= w[i].hi
        <5>1. \A i \in 1 .. Len(w) : i \in 1 .. m \/ i \in m + 1 .. Len(w) BY <2>4, <2>5
        <5>2. \A i \in m + 1 .. Len(w) : i \in 1 .. Len(w) BY <2>4, <2>5
        <5>3. \A i \in 1 .. Len(w) : Tells(i, m) = "udp" <=> i \in m + 1 .. Len(w) BY <3>1, <3>2, <5>1
        <5> QED BY <2>10, <3>4, <5>2, <5>3
      <4>2. pp \in ToolPorts(w) => \E i \in 1 .. Len(ur) : ur[i].lo <= pp[2] /\ pp[2] <= ur[i].hi BY <2>3, <2>7, <4>1
      <4>3. \A i \in 1 .. Len(b) : m + i \in m + 1 .. Len(w) /\ w[m + i].lo = ur[i].lo /\ w[m + i].hi = ur[i].hi
        BY <2>3, <2>4, <2>5
      <4>4. (\E i \in 1 .. Len(ur) : ur[i].lo <= pp[2] /\ pp[2] <= ur[i].hi) => pp \in ToolPorts(w) BY <2>3, <4>1, <4>3
      <4>5. pp \in ToolPorts(w) <=> \E i \in 1 .. Len(ur) : ur[i].lo <= pp[2] /\ pp[2] <= ur[i].hi BY <4>2, <4>4
      <4> QED BY <1>1, <1>3, <3>4, <4>5
    <3> QED BY <1>1, <3>3, <3>4 DEF Protocols
  <2>12. ASSUME Len(ur) <= 1 PROVE \A pp \in Protocols \X Int : pp \in ToolPorts(w) <=> pp \in ProtoPortSet(w)
    <3>1. m \in 0 .. Len(w) /\ Len(w) <= m + 1 BY <2>3, <2>4, <2>5, <2>12
    <3>2. \A i \in 1 .. m : w[i].prefix \in {"none", "T"} BY <2>6
    <3> QED BY <2>4, <2>9, <3>1, <3>2, ReadingsMeet
  <2> QED BY <2>1, <2>4, <2>11, <2>12 DEF ur
<1> QED BY <1>4, <1>5

\* The ports of the first k parts, and the single ones among these.
Ports(s, k) == UNION {{Protocol(s[i])} \X (s[i].lo .. s[i].hi) : i \in 1 .. k}
Alone(s, k) == {<<Protocol(s[i]), s[i].lo>> : i \in {i \in 1 .. k : s[i].lo = s[i].hi}}
Overlap(s) == \E i, j \in DOMAIN s :
    i # j /\ Protocol(s[i]) = Protocol(s[j]) /\ s[i].lo <= s[j].hi /\ s[j].lo <= s[i].hi

\* One part more.
LEMMA OnePartMore ==
  ASSUME NEW s, NEW k \in Nat, \A i \in 1 .. k + 1 : s[i].lo \in Int /\ s[i].hi \in Int
  PROVE  /\ Ports(s, k + 1) = Ports(s, k) \cup ({Protocol(s[k + 1])} \X (s[k + 1].lo .. s[k + 1].hi))
         /\ Alone(s, k + 1) = Alone(s, k) \cup (IF s[k + 1].lo = s[k + 1].hi
                                                 THEN {<<Protocol(s[k + 1]), s[k + 1].lo>>} ELSE {})
<1>1. \A i : i \in 1 .. k + 1 <=> i \in 1 .. k \/ i = k + 1 OBVIOUS
<1>2. Ports(s, k + 1) = Ports(s, k) \cup ({Protocol(s[k + 1])} \X (s[k + 1].lo .. s[k + 1].hi))
  BY <1>1, Zenon DEF Ports
<1>3. Alone(s, k + 1) = Alone(s, k) \cup (IF s[k + 1].lo = s[k + 1].hi
                                           THEN {<<Protocol(s[k + 1]), s[k + 1].lo>>} ELSE {})
  BY <1>1 DEF Alone
<1> QED BY <1>2, <1>3

\* As many as there are from lo to hi.
CountsAs(Q, lo, hi) ==
    /\ IsFiniteSet(Q)
    /\ lo <= hi => Cardinality(Q) = hi - lo + 1
    /\ lo > hi => Cardinality(Q) = 0

\* A part stands for as many ports as it is long.
LEMMA BlockOfPorts ==
  ASSUME NEW pr, NEW lo \in Int, NEW hi \in Int
  PROVE  CountsAs({pr} \X (lo .. hi), lo, hi)
<1>1. IsFiniteSet(lo .. hi) /\ Cardinality(lo .. hi) = IF lo <= hi THEN hi - lo + 1 ELSE 0
  <2>1. IsFiniteSet(lo .. hi) /\ Cardinality(lo .. hi) = IF lo > hi THEN 0 ELSE hi - lo + 1 BY FS_Interval
  <2> QED BY <2>1
<1>2. IsFiniteSet({pr}) /\ Cardinality({pr}) = 1 BY FS_Singleton
<1>3. Cardinality({pr} \X (lo .. hi)) = 1 * Cardinality(lo .. hi) /\ IsFiniteSet({pr} \X (lo .. hi))
  BY <1>1, <1>2, FS_Product
<1> QED BY <1>1, <1>3 DEF CountsAs

\* The estimate adds the parts that are ranges one after the other.
LEMMA EstimateDef ==
  ASSUME NEW s \in Seq(Part), PortAssumption, Cardinality(Singles(s)) \in Int
  PROVE  \E g \in [0 .. Len(s) -> Int] :
            /\ g[0] = Cardinality(Singles(s)) /\ EstimatePorts(s) = g[Len(s)]
            /\ \A i \in 1 .. Len(s) : g[i] = IF i \in Spans(s) THEN g[i - 1] + RangeSize(s[i]) ELSE g[i - 1]
<1> DEFINE n == Len(s)
           b == Cardinality(Singles(s))
           Add(x, i) == IF i \in Spans(s) THEN x + RangeSize(s[i]) ELSE x
           st == [i \in 1 .. n |-> [x \in Int |-> Add(x, i)]]
           F(g) == [i \in 0 .. n |-> IF i = 0 THEN b ELSE IF i \in Spans(s) THEN g[i - 1] + RangeSize(s[i]) ELSE g[i - 1]]
           upTo == CHOOSE g : g = F(g)
<1>1. n \in Nat /\ b \in Int OBVIOUS
<1>2. \A i \in 1 .. n : RangeSize(s[i]) \in Int
  <2>1. \A i \in 1 .. n : s[i] \in Part OBVIOUS
  <2> QED BY <2>1, PortAssumption DEF Part, Bounds, RangeSize
<1>3. \A x \in Int : \A i \in 1 .. n : Add(x, i) \in Int BY <1>2
<1>4. EstimatePorts(s) = upTo[n] BY DEF EstimatePorts
<1> HIDE DEF Add
<1>5. st \in [1 .. n -> [Int -> Int]] BY <1>3
<1> HIDE DEF st, upTo, F, n, b
<1>6. PICK g \in [0 .. n -> Int] : Computes(g, n, b, st) BY <1>1, <1>5, Recursion
<1>7. ASSUME NEW i \in 1 .. n PROVE g[i] = Add(g[i - 1], i)
  <2>1. g[i - 1] \in Int BY <1>1, <1>6
  <2> QED BY <1>6, <2>1 DEF st, Computes
<1>8. g = F(g) BY <1>1, <1>6, <1>7 DEF F, Computes, Add
<1>9. upTo = F(upTo) BY <1>8 DEF upTo
<1>10. upTo[0] = b BY <1>1, <1>9 DEF F
<1>11. \A i \in 1 .. n : upTo[i] = Add(upTo[i - 1], i) BY <1>1, <1>9 DEF F, Add
<1>12. \A i \in 0 .. n : upTo[i] \in Int
  <2>1. \A i \in 1 .. n : upTo[i - 1] \in Int => upTo[i] \in Int BY <1>1, <1>3, <1>11
  <2> QED BY <1>1, <1>10, <2>1, AlongRecursion
<1>13. upTo \in [0 .. n -> Int] BY <1>9, <1>12 DEF F
<1> QED BY <1>4, <1>10, <1>11, <1>13 DEF n, b, Add

\* What the estimate counts of the first k parts.
LEMMA EstimateOfParts ==
  ASSUME NEW s \in Seq(Part), PortAssumption
  PROVE  /\ EstimatePorts(s) >= Cardinality(ProtoPortSet(s))
         /\ ~Overlap(s) => EstimatePorts(s) = Cardinality(ProtoPortSet(s))
<1> DEFINE n == Len(s)
           P(i) == {Protocol(s[i])} \X (s[i].lo .. s[i].hi)
           p(i) == <<Protocol(s[i]), s[i].lo>>
           c == Cardinality(Singles(s))
<1>1. n \in Nat /\ DOMAIN s = 1 .. n OBVIOUS
<1>2. \A i \in 1 .. n : s[i].lo \in Int /\ s[i].hi \in Int
  <2>1. \A i \in 1 .. n : s[i] \in Part OBVIOUS
  <2> QED BY <2>1, PortAssumption DEF Part, Bounds
<1>3. ProtoPortSet(s) = Ports(s, n) /\ Singles(s) = Alone(s, n) BY <1>1 DEF ProtoPortSet, Singles, Ports, Alone
<1>4. ASSUME NEW k \in Nat, k + 1 <= n
      PROVE  /\ Ports(s, k + 1) = Ports(s, k) \cup P(k + 1)
             /\ Alone(s, k + 1) = Alone(s, k) \cup (IF s[k + 1].lo = s[k + 1].hi THEN {p(k + 1)} ELSE {})
  <2>1. \A i \in 1 .. k + 1 : s[i].lo \in Int /\ s[i].hi \in Int BY <1>1, <1>2, <1>4
  <2> QED BY <2>1, OnePartMore
<1>5. \A k \in Nat : k <= n => IsFiniteSet(Ports(s, k)) /\ IsFiniteSet(Alone(s, k)) /\ Alone(s, k) \subseteq Ports(s, k)
  <2> DEFINE S == {k \in Nat : k <= n => IsFiniteSet(Ports(s, k)) /\ IsFiniteSet(Alone(s, k)) /\ Alone(s, k) \subseteq Ports(s, k)}
  <2>1. 0 \in S
    <3>1. Ports(s, 0) = {} /\ Alone(s, 0) = {} BY DEF Ports, Alone
    <3> QED BY <3>1, FS_EmptySet
  <2>2. ASSUME NEW k \in Nat, k \in S PROVE k + 1 \in S
    <3> SUFFICES ASSUME k + 1 <= n
                 PROVE IsFiniteSet(Ports(s, k + 1)) /\ IsFiniteSet(Alone(s, k + 1)) /\ Alone(s, k + 1) \subseteq Ports(s, k + 1)
      OBVIOUS
    <3>1. k + 1 \in 1 .. n /\ k <= n BY <1>1
    <3>2. IsFiniteSet(P(k + 1))
      <4>1. s[k + 1].lo \in Int /\ s[k + 1].hi \in Int BY <1>2, <3>1
      <4>2. CountsAs(P(k + 1), s[k + 1].lo, s[k + 1].hi) BY <4>1, BlockOfPorts, Zenon
      <4> QED BY <4>2 DEF CountsAs
    <3>3. s[k + 1].lo = s[k + 1].hi => p(k + 1) \in P(k + 1)
      <4>1. s[k + 1].lo = s[k + 1].hi => s[k + 1].lo \in s[k + 1].lo .. s[k + 1].hi BY <1>2, <3>1
      <4> QED BY <4>1
    <3> HIDE DEF P, p
    <3>4. IsFiniteSet(Ports(s, k)) /\ IsFiniteSet(Alone(s, k)) /\ Alone(s, k) \subseteq Ports(s, k) BY <2>2, <3>1
    <3>7. Ports(s, k + 1) = Ports(s, k) \cup P(k + 1) BY <1>4
    <3>8. IsFiniteSet(Ports(s, k) \cup P(k + 1)) BY <3>2, <3>4, FS_Union
    <3>5. IsFiniteSet(Ports(s, k + 1)) BY <3>7, <3>8
    <3>6. Alone(s, k + 1) \subseteq Ports(s, k + 1) BY <1>4, <3>3, <3>4
    <3> QED BY <3>5, <3>6, FS_Subset
  <2> HIDE DEF S
  <2>3. \A k \in Nat : k \in S BY <2>1, <2>2, Climb
  <2> QED BY <2>3 DEF S
<1>6. c \in Int BY <1>1, <1>3, <1>5, FS_CardinalityType
<1>7. PICK g \in [0 .. n -> Int] :
            /\ g[0] = c /\ EstimatePorts(s) = g[n]
            /\ \A i \in 1 .. n : g[i] = IF i \in Spans(s) THEN g[i - 1] + RangeSize(s[i]) ELSE g[i - 1]
  BY <1>6, EstimateDef
<1> DEFINE Counted(k) == /\ Cardinality(Ports(s, k)) <= Cardinality(Alone(s, k)) + g[k] - c
                         /\ ~Overlap(s) => Cardinality(Ports(s, k)) = Cardinality(Alone(s, k)) + g[k] - c
           S == {k \in Nat : k <= n => Counted(k)}
<1> HIDE DEF c
<1>8. 0 \in S
  <2>1. Ports(s, 0) = {} /\ Alone(s, 0) = {} BY DEF Ports, Alone
  <2>2. Cardinality(Ports(s, 0)) = 0 /\ Cardinality(Alone(s, 0)) = 0 BY <2>1, FS_EmptySet
  <2>3. Counted(0) BY <1>6, <1>7, <2>2
  <2> QED BY <2>3
<1>9. ASSUME NEW k \in Nat, k \in S PROVE k + 1 \in S
  <2> SUFFICES ASSUME k + 1 <= n PROVE Counted(k + 1) OBVIOUS
  <2>1. k + 1 \in 1 .. n /\ k <= n /\ k \in 0 .. n /\ k + 1 \in 0 .. n /\ (k + 1) - 1 = k BY <1>1
  <2> DEFINE U == Ports(s, k)
             A == Alone(s, k)
             x == p(k + 1)
             Q == P(k + 1)
  <2>2. IsFiniteSet(U) /\ IsFiniteSet(A) /\ A \subseteq U BY <1>5, <2>1
  <2>3. /\ IsFiniteSet(Q)
        /\ s[k + 1].lo <= s[k + 1].hi => Cardinality(Q) = s[k + 1].hi - s[k + 1].lo + 1
        /\ s[k + 1].lo > s[k + 1].hi => Cardinality(Q) = 0
    <3>1. s[k + 1].lo \in Int /\ s[k + 1].hi \in Int BY <1>2, <2>1
    <3>2. CountsAs(Q, s[k + 1].lo, s[k + 1].hi) BY <3>1, BlockOfPorts, Zenon
    <3> QED BY <3>2 DEF CountsAs
  <2>4. ~Overlap(s) => U \cap Q = {}
    <3>1. ASSUME NEW y \in U \cap Q PROVE Overlap(s)
      <4>1. PICK i \in 1 .. k : y \in P(i) BY DEF Ports
      <4>2. i \in 1 .. n /\ i # k + 1 BY <1>1, <2>1
      <4>3. y[1] = Protocol(s[i]) /\ s[i].lo <= y[2] /\ y[2] <= s[i].hi /\ y[2] \in Int BY <1>2, <4>1, <4>2
      <4>4. y[1] = Protocol(s[k + 1]) /\ s[k + 1].lo <= y[2] /\ y[2] <= s[k + 1].hi BY <1>2, <2>1
      <4>5. s[i].lo <= s[k + 1].hi /\ s[k + 1].lo <= s[i].hi BY <1>2, <2>1, <4>2, <4>3, <4>4
      <4> QED BY <1>1, <2>1, <4>2, <4>3, <4>4, <4>5 DEF Overlap
    <3> QED BY <3>1
  <2>5. s[k + 1].lo = s[k + 1].hi => x \in Q BY <1>2, <2>1
  <2>6. Counted(k) BY <1>9, <2>1
  <2>7. g[k] \in Int /\ g[k + 1] \in Int /\ s[k + 1].lo \in Int /\ s[k + 1].hi \in Int BY <1>2, <1>7, <2>1
  <2>8. Cardinality(U) \in Nat /\ Cardinality(A) \in Nat BY <2>2, FS_CardinalityType
  <2>9. CASE s[k + 1].lo = s[k + 1].hi
    <3>1. g[k + 1] = g[k]
      <4>1. k + 1 \notin Spans(s) BY <2>7, <2>9 DEF Spans
      <4> QED BY <1>7, <2>1, <4>1
    <3>2. Q = {x} BY <2>7, <2>9
    <3>3. Ports(s, k + 1) = U \cup {x} /\ Alone(s, k + 1) = A \cup {x} BY <1>4, <2>9, <3>2
    <3> HIDE DEF U, A, x, Q
    <3>4. Cardinality(U \cup {x}) = (IF x \in U THEN Cardinality(U) ELSE Cardinality(U) + 1)
          /\ Cardinality(A \cup {x}) = (IF x \in A THEN Cardinality(A) ELSE Cardinality(A) + 1) BY <2>2, FS_AddElement
    <3>5. Cardinality(U) <= Cardinality(A) + g[k] - c /\ (~Overlap(s) => Cardinality(U) = Cardinality(A) + g[k] - c)
      BY <2>6 DEF U, A
    <3>6. ~Overlap(s) => x \notin U BY <2>4, <2>5, <2>9
    <3>7. x \in A => x \in U BY <2>2
    <3>8. Cardinality(U \cup {x}) <= Cardinality(A \cup {x}) + g[k] - c BY <1>6, <2>7, <2>8, <3>4, <3>5, <3>7
    <3>9. ~Overlap(s) => Cardinality(U \cup {x}) = Cardinality(A \cup {x}) + g[k] - c
      BY <1>6, <2>7, <2>8, <3>4, <3>5, <3>6, <3>7
    <3> QED BY <3>1, <3>3, <3>8, <3>9
  <2>10. CASE s[k + 1].lo # s[k + 1].hi
    <3>1. g[k + 1] = g[k] + Cardinality(Q)
      <4>1. CASE s[k + 1].lo < s[k + 1].hi
        <5>1. k + 1 \in Spans(s) BY <1>1, <2>1, <4>1 DEF Spans
        <5> QED BY <1>7, <2>1, <2>3, <2>7, <4>1, <5>1 DEF RangeSize
      <4>2. CASE s[k + 1].hi < s[k + 1].lo
        <5>1. k + 1 \notin Spans(s) BY <2>7, <4>2 DEF Spans
        <5>2. Cardinality(Q) = 0 BY <2>3, <2>7, <4>2
        <5> QED BY <1>7, <2>1, <2>7, <5>1, <5>2
      <4> QED BY <2>7, <2>10, <4>1, <4>2
    <3>2. Ports(s, k + 1) = U \cup Q /\ Alone(s, k + 1) = A BY <1>4, <2>10
    <3> HIDE DEF U, A, Q
    <3>3. Cardinality(U \cup Q) = Cardinality(U) + Cardinality(Q) - Cardinality(U \cap Q) BY <2>2, <2>3, FS_Union
    <3>4. Cardinality(U) <= Cardinality(A) + g[k] - c /\ (~Overlap(s) => Cardinality(U) = Cardinality(A) + g[k] - c)
      BY <2>6 DEF U, A
    <3>5. Cardinality(U \cap Q) \in Nat /\ Cardinality(Q) \in Nat BY <2>2, <2>3, FS_Intersection, FS_CardinalityType
    <3>6. ~Overlap(s) => Cardinality(U \cap Q) = 0 BY <2>4, FS_EmptySet
    <3> DEFINE u == Cardinality(U)
               a == Cardinality(A)
               q == Cardinality(Q)
               both == Cardinality(U \cap Q)
               all == Cardinality(U \cup Q)
               old == g[k]
               new == g[k + 1]
               few == c
    <3>9. /\ u \in Nat /\ a \in Nat /\ q \in Nat /\ both \in Nat /\ all = u + q - both
          /\ old \in Int /\ new \in Int /\ few \in Int /\ new = old + q /\ u <= a + old - few
      BY <1>6, <2>7, <2>8, <3>1, <3>3, <3>4, <3>5
    <3>10. ~Overlap(s) => u = a + old - few /\ both = 0 BY <3>4, <3>6
    <3> HIDE DEF u, a, q, both, all, old, new, few
    <3>7. all <= a + new - few BY <3>9
    <3>8. u = a + old - few /\ both = 0 => all = a + new - few BY <3>9
    <3> QED BY <3>2, <3>7, <3>8, <3>10 DEF all, a, new, few
  <2> QED BY <2>9, <2>10
<1> HIDE DEF S
<1>10. n \in S BY <1>1, <1>8, <1>9, Climb
<1>11. Counted(n) BY <1>1, <1>10 DEF S
<1>12. g[n] \in Int BY <1>1, <1>7
<1> QED BY <1>3, <1>6, <1>7, <1>11, <1>12 DEF c

\* What was typed: parts, and ports on the exclude lists.
Typed == /\ \E n \in Nat : spec \in [1 .. n -> Part]
         /\ barred \in SUBSET Numbered /\ scoped \in SUBSET Numbered

\* A spec begins empty,
LEMMA TypedInit == PortInit => Typed
<1>1. PortInit => spec \in [1 .. 0 -> Part] BY DEF PortInit
<1> QED BY <1>1 DEF Typed, PortInit

\* and only grows.
LEMMA TypedStep == Typed /\ [PortNext]_portVars => Typed'
<1> SUFFICES ASSUME Typed, [PortNext]_portVars PROVE Typed' OBVIOUS
<1>1. CASE UNCHANGED portVars BY <1>1 DEF Typed, portVars
<1>2. ASSUME NEW part \in Part, TypePart(part) PROVE Typed'
  <2>1. PICK n \in Nat : spec \in [1 .. n -> Part] BY DEF Typed
  <2>2. spec' \in [1 .. n + 1 -> Part]
    <3>1. spec \in Seq(Part) /\ Len(spec) = n BY <2>1
    <3>2. spec' \in Seq(Part) /\ Len(spec') = n + 1 BY <1>2, <3>1 DEF TypePart
    <3> QED BY <3>2
  <2> QED BY <1>2, <2>2 DEF Typed, TypePart
<1>3. ASSUME NEW lo \in Numbered, NEW hi \in Numbered, ExcludePorts(lo, hi) PROVE Typed'
  <2>1. lo .. hi \subseteq Numbered BY PortAssumption DEF Numbered
  <2> QED BY <1>3, <2>1 DEF Typed, ExcludePorts
<1> QED BY <1>1, <1>2, <1>3 DEF PortNext

\* What is typed is a sequence of parts, with numbers for bounds.
LEMMA SpecIsParts ==
  ASSUME Typed
  PROVE  spec \in Seq(Part)
BY DEF Typed

\* Only ports there are can be meant by a spec that parses.
LEMMA PortsOfSpec ==
  ASSUME NEW s \in Seq(Part), Parses(s), PortAssumption
  PROVE  ProtoPortSet(s) \in SUBSET (Protocols \X Numbered)
<1>1. \A i \in DOMAIN s : Protocol(s[i]) \in Protocols /\ s[i].lo .. s[i].hi \subseteq Numbered
  <2>1. \A i \in DOMAIN s : s[i] \in Part /\ (Skipped(s[i]) \/ InRange(s[i])) BY DEF Parses
  <2>2. \A i \in DOMAIN s : s[i].lo \in Int /\ s[i].hi \in Int /\ (s[i].lo > s[i].hi \/ InRange(s[i]))
    BY <2>1, PortAssumption DEF Part, Bounds, Skipped
  <2> QED BY <2>2, PortAssumption DEF InRange, Numbered, Protocol, Protocols
<1> QED BY <1>1 DEF ProtoPortSet

\* What the tool reads are ports of the two protocols.
LEMMA PortsRead ==
  ASSUME NEW s \in Seq(Part), PortAssumption
  PROVE  ToolPorts(s) \in SUBSET (Protocols \X Int)
<1>1. PICK g \in [0 .. Len(s) -> Read] : ToolPorts(s) = g[Len(s)].ports BY ToolPortsDef
<1>2. g[Len(s)] \in Read OBVIOUS
<1> QED BY <1>1, <1>2 DEF Read

\* Of the ports left, the scanner writes what masscan reads as these ports.
LEMMA RestIsExact ==
  ASSUME Typed, Parses(spec), PortAssumption
  PROVE  /\ EffectiveSpec \in Seq(Part) /\ Parses(EffectiveSpec)
         /\ ToolPorts(EffectiveSpec) = {pp \in ProtoPortSet(spec) : pp[2] \notin barred}
         /\ EffectiveIsTheRest
<1> DEFINE rest == Remainder(spec, barred)
<1>1. rest \in SUBSET (Protocols \X Numbered) BY SpecIsParts, PortsOfSpec DEF Remainder
<1> HIDE DEF rest
<1>2. /\ Serialize(rest) \in Seq(Part) /\ Parses(Serialize(rest))
      /\ \A pp \in Protocols \X Int : pp \in ToolPorts(Serialize(rest)) <=> pp \in rest
      /\ Len(Runs(Of("udp", rest))) <= 1 =>
            \A pp \in Protocols \X Int : pp \in ToolPorts(Serialize(rest)) <=> pp \in ProtoPortSet(Serialize(rest))
  BY <1>1, SerializeReads
<1>3. ToolPorts(Serialize(rest)) \in SUBSET (Protocols \X Int) BY <1>2, PortsRead
<1>4. Numbered \subseteq Int BY PortAssumption DEF Numbered
<1>5. rest \in SUBSET (Protocols \X Int) BY <1>1, <1>4
<1>6. ToolPorts(Serialize(rest)) = rest BY <1>2, <1>3, <1>5
<1>7. ProtoPortSet(Serialize(rest)) \in SUBSET (Protocols \X Int) BY <1>2, <1>4, PortsOfSpec
<1>8. Len(Runs(Of("udp", rest))) <= 1 => ProtoPortSet(Serialize(rest)) = rest BY <1>2, <1>3, <1>6, <1>7
<1>9. EffectiveIsTheRest
  <2>1. rest = {pp \in ProtoPortSet(spec) : pp[2] \notin barred} BY DEF rest, Remainder
  <2> QED BY <1>6, <1>8, <2>1 DEF EffectiveIsTheRest, EffectiveSpec, Of, rest
<1> QED BY <1>2, <1>6, <1>9 DEF EffectiveSpec, rest, Remainder

\* An excluded number is left in neither protocol.
LEMMA RestIsLeft ==
  ASSUME Typed, PortAssumption
  PROVE  PortTypeOK /\ EffectiveIsTheRest /\ ExcludedIsLeftAlone
<1>1. PortTypeOK BY SpecIsParts, RestIsExact DEF PortTypeOK, Typed
<1>2. EffectiveIsTheRest
  <2>1. CASE Parses(spec) BY <2>1, RestIsExact
  <2> QED BY <2>1 DEF EffectiveIsTheRest
<1>3. ASSUME Parses(spec), NEW pp \in Enriched PROVE pp[2] \notin barred \cup scoped
  <2>1. CASE pp \in FilterResults(ToolPorts(EffectiveSpec)) BY <1>3, <2>1, RestIsExact DEF FilterResults
  <2>2. CASE pp \in {<<"udp", p>> : p \in {p \in Probes : ProbeInScope(spec, p) /\ ~PortExcludedForHost(p)}}
    BY <2>2 DEF PortExcludedForHost
  <2> QED BY <1>3, <2>1, <2>2 DEF Enriched
<1> QED BY <1>1, <1>2, <1>3 DEF ExcludedIsLeftAlone

\* The estimate never counts too few, and counts a spec without overlaps exactly.
LEMMA EstimateHolds == ASSUME Typed, PortAssumption PROVE EstimateCountsPorts
<1> SUFFICES ASSUME Parses(spec)
             PROVE  /\ EstimatePorts(spec) >= CountPorts(spec)
                    /\ ~Overlap(spec) => EstimatePorts(spec) = CountPorts(spec)
  BY DEF EstimateCountsPorts, Overlap
<1>1. spec \in Seq(Part) BY SpecIsParts
<1>2. CountPorts(spec) = Cardinality(ProtoPortSet(spec)) BY DEF CountPorts
<1> QED BY <1>1, <1>2, EstimateOfParts

\* What the scanner can read, the webserver can; and where they read a spec both,
\* they ask of the same parts whether they have a port.
LEMMA ParsersMeet == ASSUME Typed, PortAssumption PROVE ParsersAgree
<1>1. PICK n \in Nat : spec \in [1 .. n -> Part] BY DEF Typed
<1>2. \A i \in DOMAIN spec : spec[i] \in Part /\ spec[i].lo \in Int /\ spec[i].hi \in Int
  BY <1>1, PortAssumption DEF Part, Bounds
<1>3. \A i \in DOMAIN spec : AtoiReads(spec[i]) => NumberReads(spec[i]) BY DEF AtoiReads, NumberReads
<1>4. ASSUME Parses(spec), ProtoPortSet(spec) # {} PROVE ServerParses(spec)
  <2>1. \A i \in DOMAIN spec : Skipped(spec[i]) \/ (NumberReads(spec[i]) /\ InRange(spec[i])) BY <1>3, <1>4 DEF Parses
  <2>2. PICK i \in DOMAIN spec : {Protocol(spec[i])} \X (spec[i].lo .. spec[i].hi) # {} BY <1>4 DEF ProtoPortSet
  <2>3. spec[i].lo <= spec[i].hi BY <1>2, <2>2
  <2>4. ~Skipped(spec[i]) BY <1>2, <2>3 DEF Part, Skipped
  <2> QED BY <2>1, <2>4 DEF ServerParses
<1>5. ASSUME NEW pp \in Protocols \X Numbered
      PROVE  PortSpecCovers(spec, pp) <=> pp \in ProtoPortSet(spec)
  <2>1. pp = <<pp[1], pp[2]>> /\ pp[2] \in Int BY PortAssumption DEF Numbered
  <2>2. pp \in ProtoPortSet(spec) <=>
          \E i \in DOMAIN spec : Protocol(spec[i]) = pp[1] /\ spec[i].lo =< pp[2] /\ pp[2] =< spec[i].hi
    BY <1>2, <2>1 DEF ProtoPortSet
  <2>3. pp \in Singles(spec) <=>
          \E i \in DOMAIN spec : spec[i].lo = spec[i].hi /\ Protocol(spec[i]) = pp[1] /\ spec[i].lo = pp[2]
    BY <2>1 DEF Singles
  <2>4. PortSpecCovers(spec, pp) <=>
          \/ \E i \in DOMAIN spec : spec[i].lo = spec[i].hi /\ Protocol(spec[i]) = pp[1] /\ spec[i].lo = pp[2]
          \/ \E i \in DOMAIN spec : spec[i].lo < spec[i].hi /\ Protocol(spec[i]) = pp[1]
                                      /\ spec[i].lo =< pp[2] /\ pp[2] =< spec[i].hi
    BY <2>3 DEF PortSpecCovers, Spans
  <2> QED BY <1>2, <2>1, <2>2, <2>4
<1>6. ASSUME ServerParses(spec), ~Parses(spec) PROVE \E i \in DOMAIN spec : spec[i].form \in {"numeral", "spaced"}
  <2>1. PICK i \in DOMAIN spec : ~Skipped(spec[i]) /\ ~(AtoiReads(spec[i]) /\ InRange(spec[i])) BY <1>6 DEF Parses
  <2>2. NumberReads(spec[i]) /\ InRange(spec[i]) BY <1>6, <2>1 DEF ServerParses
  <2>3. spec[i].form # "plain" BY <2>1, <2>2 DEF AtoiReads
  <2> QED BY <2>2, <2>3 DEF NumberReads
<1> QED BY <1>4, <1>5, <1>6 DEF ParsersAgree

\* What the scanner finds ports in, the webserver reads as just these ports, though
\* their parsers share nothing (lib/portSpec.ts) and convert numbers differently;
\* it reads more only by a numeral or a space: for every number of ports.
THEOREM ParsersStayAgreed == PortSpec => []ParsersAgree
BY TypedInit, TypedStep, ParsersMeet, PortAssumption, PTL DEF PortSpec

\* What masscan is told to scan of a port spec is what was asked for less what is
\* excluded, however long the spec and whatever its runs (excludes.go), no
\* excluded port is looked at afterwards, and the estimate never counts too few.
THEOREM PortsStayAgreed == PortSpec => []PortsAgree
<1>1. Typed => PortsAgree BY RestIsLeft, EstimateHolds, ParsersMeet, PortAssumption DEF PortsAgree
<1> QED BY <1>1, TypedInit, TypedStep, PTL DEF PortSpec

(***************************************************************************)
(* TargetRanges.                                                           *)
(***************************************************************************)

(***************************************************************************)
(* A finite set in a strict order: how many come before an element is its  *)
(* place.                                                                  *)
(***************************************************************************)

\* What comes before x; and a strict order of all of S.
Before(x, S, R) == {y \in S : <<y, x>> \in R}
IsOrder(S, R) ==
    /\ \A x \in S : <<x, x>> \notin R
    /\ \A x, y, z \in S : <<x, y>> \in R /\ <<y, z>> \in R => <<x, z>> \in R
    /\ \A x, y \in S : x = y \/ <<x, y>> \in R \/ <<y, x>> \in R

\* There are finitely many before each element, fewer than there are in all.
LEMMA RankType ==
  ASSUME NEW S, NEW R, IsFiniteSet(S), IsOrder(S, R), NEW x \in S
  PROVE  Cardinality(Before(x, S, R)) \in 0 .. Cardinality(S) - 1
<1> DEFINE b == Before(x, S, R)
<1>1. b \in SUBSET S /\ x \notin b BY DEF Before, IsOrder
<1>2. IsFiniteSet(b) /\ Cardinality(b) <= Cardinality(S) /\ Cardinality(b) # Cardinality(S) BY <1>1, FS_Subset
<1>3. Cardinality(b) \in Nat /\ Cardinality(S) \in Nat BY <1>2, FS_CardinalityType
<1> HIDE DEF b
<1>4. Cardinality(b) \in 0 .. Cardinality(S) - 1 BY <1>2, <1>3
<1> QED BY <1>4 DEF b

\* More come before a later element,
LEMMA RankGrows ==
  ASSUME NEW S, NEW R, IsFiniteSet(S), IsOrder(S, R), NEW x \in S, NEW y \in S, <<x, y>> \in R
  PROVE  Cardinality(Before(x, S, R)) < Cardinality(Before(y, S, R))
<1> DEFINE a == Before(x, S, R)
           b == Before(y, S, R)
<1>1. a \in SUBSET b /\ x \in b /\ x \notin a BY DEF Before, IsOrder
<1>2. b \in SUBSET S BY DEF Before
<1>3. IsFiniteSet(b) BY <1>2, FS_Subset
<1>4. IsFiniteSet(a) /\ Cardinality(a) <= Cardinality(b) /\ Cardinality(a) # Cardinality(b) BY <1>1, <1>3, FS_Subset
<1>5. Cardinality(a) \in Nat /\ Cardinality(b) \in Nat BY <1>3, <1>4, FS_CardinalityType
<1> HIDE DEF a, b
<1>6. Cardinality(a) < Cardinality(b) BY <1>4, <1>5
<1> QED BY <1>6 DEF a, b

\* so no two have as many before them,
LEMMA RankIsOwn ==
  ASSUME NEW S, NEW R, IsFiniteSet(S), IsOrder(S, R), NEW x \in S, NEW y \in S,
         Cardinality(Before(x, S, R)) = Cardinality(Before(y, S, R))
  PROVE  x = y
<1>1. Cardinality(Before(x, S, R)) \in 0 .. Cardinality(S) - 1 BY RankType
<1>2. ~(<<x, y>> \in R)
  <2>1. <<x, y>> \in R => Cardinality(Before(x, S, R)) < Cardinality(Before(y, S, R)) BY RankGrows
  <2> QED BY <1>1, <2>1
<1>3. ~(<<y, x>> \in R)
  <2>1. <<y, x>> \in R => Cardinality(Before(y, S, R)) < Cardinality(Before(x, S, R)) BY RankGrows
  <2> QED BY <1>1, <2>1
<1> QED BY <1>2, <1>3 DEF IsOrder

\* and each place is taken, there being as many places as elements.
LEMMA RankIsTaken ==
  ASSUME NEW S, NEW R, IsFiniteSet(S), IsOrder(S, R), NEW k \in 0 .. Cardinality(S) - 1
  PROVE  \E x \in S : Cardinality(Before(x, S, R)) = k
<1> DEFINE T == 0 .. Cardinality(S) - 1
           f == [x \in S |-> Cardinality(Before(x, S, R))]
<1>1. Cardinality(S) \in Nat BY FS_CardinalityType
<1>2. f \in [S -> T] BY RankType
<1>3. \A x, y \in S : f[x] = f[y] => x = y BY RankIsOwn
<1>4. f \in Injection(S, T) BY <1>2, <1>3 DEF Injection, IsInjective
<1>5. IsFiniteSet(T) /\ Cardinality(T) = Cardinality(S) BY <1>1, FS_Interval
<1> HIDE DEF T, f
<1>6. f \in Surjection(S, T) BY <1>4, <1>5, FS_Injection
<1>7. \E x \in S : f[x] = k BY <1>6 DEF Surjection, T
<1> QED BY <1>7 DEF f

\* The element at place k.
NthOf(S, R, k) == CHOOSE x \in S : Cardinality(Before(x, S, R)) = k - 1

\* So there is a first, a second and so on to the last.
LEMMA NthIsThere ==
  ASSUME NEW S, NEW R, IsFiniteSet(S), IsOrder(S, R)
  PROVE  /\ \A k \in 1 .. Cardinality(S) : /\ NthOf(S, R, k) \in S
                                           /\ Cardinality(Before(NthOf(S, R, k), S, R)) = k - 1
         /\ \A x \in S : \E k \in 1 .. Cardinality(S) : NthOf(S, R, k) = x
         /\ \A j, k \in 1 .. Cardinality(S) : j < k => <<NthOf(S, R, j), NthOf(S, R, k)>> \in R
<1>1. Cardinality(S) \in Nat BY FS_CardinalityType
<1>2. ASSUME NEW k \in 1 .. Cardinality(S)
      PROVE  NthOf(S, R, k) \in S /\ Cardinality(Before(NthOf(S, R, k), S, R)) = k - 1
  <2>1. k - 1 \in 0 .. Cardinality(S) - 1 BY <1>1
  <2>2. \E x \in S : Cardinality(Before(x, S, R)) = k - 1 BY <2>1, RankIsTaken
  <2> QED BY <2>2 DEF NthOf
<1>3. ASSUME NEW x \in S PROVE \E k \in 1 .. Cardinality(S) : NthOf(S, R, k) = x
  <2> DEFINE k == Cardinality(Before(x, S, R)) + 1
  <2>1. Cardinality(Before(x, S, R)) \in 0 .. Cardinality(S) - 1 BY RankType
  <2>2. k \in 1 .. Cardinality(S) /\ Cardinality(Before(x, S, R)) = k - 1 BY <1>1, <2>1
  <2> HIDE DEF k
  <2>3. Cardinality(Before(NthOf(S, R, k), S, R)) = Cardinality(Before(x, S, R)) /\ NthOf(S, R, k) \in S BY <1>2, <2>2
  <2> QED BY <2>2, <2>3, RankIsOwn
<1>4. ASSUME NEW j \in 1 .. Cardinality(S), NEW k \in 1 .. Cardinality(S), j < k
      PROVE  <<NthOf(S, R, j), NthOf(S, R, k)>> \in R
  <2> DEFINE x == NthOf(S, R, j)
             y == NthOf(S, R, k)
  <2>1. x \in S /\ y \in S /\ Cardinality(Before(x, S, R)) = j - 1 /\ Cardinality(Before(y, S, R)) = k - 1 BY <1>2
  <2> HIDE DEF x, y
  <2>2. x # y BY <1>4, <2>1
  <2>3. ~(<<y, x>> \in R)
    <3>1. <<y, x>> \in R => Cardinality(Before(y, S, R)) < Cardinality(Before(x, S, R)) BY <2>1, RankGrows
    <3> QED BY <1>4, <2>1, <3>1
  <2>4. <<x, y>> \in R BY <2>1, <2>2, <2>3 DEF IsOrder
  <2> QED BY <2>4 DEF x, y
<1> QED BY <1>2, <1>3, <1>4

\* Numbers in order.
LEMMA InOrderHolds ==
  ASSUME NEW S, S \subseteq Int, IsFiniteSet(S)
  PROVE  /\ Cardinality(S) \in Nat /\ InOrder(S) \in [1 .. Cardinality(S) -> S]
         /\ \A x \in S : \E k \in 1 .. Cardinality(S) : InOrder(S)[k] = x
         /\ \A j, k \in 1 .. Cardinality(S) : j < k => InOrder(S)[j] < InOrder(S)[k]
<1> DEFINE R == {ss \in S \X S : ss[1] < ss[2]}
<1>1. IsOrder(S, R) BY DEF IsOrder
<1>2. \A x \in S : Before(x, S, R) = {b \in S : b < x} BY DEF Before
<1>3. \A k \in 1 .. Cardinality(S) : NthOf(S, R, k) = InOrder(S)[k]
  <2>1. ASSUME NEW k \in 1 .. Cardinality(S) PROVE NthOf(S, R, k) = CHOOSE a \in S : Cardinality({b \in S : b < a}) = k - 1
    <3>1. \A x \in S : Cardinality(Before(x, S, R)) = k - 1 <=> Cardinality({b \in S : b < x}) = k - 1 BY <1>2
    <3> HIDE DEF R
    <3> QED BY <3>1 DEF NthOf
  <2> QED BY <2>1 DEF InOrder
<1>4. \A x, y \in S : <<x, y>> \in R <=> x < y OBVIOUS
<1> HIDE DEF R
<1>5. /\ \A k \in 1 .. Cardinality(S) : NthOf(S, R, k) \in S
      /\ \A x \in S : \E k \in 1 .. Cardinality(S) : NthOf(S, R, k) = x
      /\ \A j, k \in 1 .. Cardinality(S) : j < k => <<NthOf(S, R, j), NthOf(S, R, k)>> \in R
  BY <1>1, NthIsThere
<1>6. InOrder(S) \in [1 .. Cardinality(S) -> S] BY <1>3, <1>5 DEF InOrder
<1>7. Cardinality(S) \in Nat BY FS_CardinalityType
<1> QED BY <1>3, <1>4, <1>5, <1>6, <1>7

\* A range is never empty.
Rgs == {r \in [lo : Int, hi : Int] : r.lo <= r.hi}

\* In order, "gap" apart.
Spaced(rs, gap) == \A i, j \in 1 .. Len(rs) : i < j => rs[i].hi + gap < rs[j].lo

\* An address is one of a range.
LEMMA AddressIn ==
  ASSUME NEW rs \in Seq(Rgs)
  PROVE  /\ Addresses(rs) \subseteq Int
         /\ \A a : a \in Addresses(rs) <=> a \in Int /\ \E i \in 1 .. Len(rs) : rs[i].lo <= a /\ a <= rs[i].hi
         /\ \A i \in 1 .. Len(rs) : rs[i] \in Rgs /\ rs[i].lo \in Int /\ rs[i].hi \in Int /\ rs[i].lo <= rs[i].hi
<1>1. DOMAIN rs = 1 .. Len(rs) OBVIOUS
<1>2. \A i \in 1 .. Len(rs) : rs[i] \in Rgs /\ rs[i].lo \in Int /\ rs[i].hi \in Int /\ rs[i].lo <= rs[i].hi
  <2>1. \A i \in 1 .. Len(rs) : rs[i] \in Rgs OBVIOUS
  <2> QED BY <2>1 DEF Rgs
<1>3. \A a : a \in Addresses(rs) <=> \E i \in 1 .. Len(rs) : a \in rs[i].lo .. rs[i].hi BY <1>1 DEF Addresses
<1>4. ASSUME NEW a PROVE a \in Addresses(rs) <=> a \in Int /\ \E i \in 1 .. Len(rs) : rs[i].lo <= a /\ a <= rs[i].hi
  BY <1>2, <1>3
<1> QED BY <1>2, <1>3, <1>4

\* The order of the first addresses, then of places.
FirstFirst(rs) ==
    {ij \in (1 .. Len(rs)) \X (1 .. Len(rs)) :
        rs[ij[1]].lo < rs[ij[2]].lo \/ (rs[ij[1]].lo = rs[ij[2]].lo /\ ij[1] < ij[2])}

\* Sorting keeps the ranges and puts them in order.
LEMMA SortedHolds ==
  ASSUME NEW rs \in Seq(Rgs)
  PROVE  /\ Sorted(rs) \in Seq(Rgs) /\ Len(Sorted(rs)) = Len(rs)
         /\ Addresses(Sorted(rs)) = Addresses(rs)
         /\ \A j, k \in 1 .. Len(rs) : j < k => Sorted(rs)[j].lo <= Sorted(rs)[k].lo
<1> DEFINE S == 1 .. Len(rs)
           R == FirstFirst(rs)
           n == Len(rs)
           out == Sorted(rs)
<1>1. n \in Nat /\ DOMAIN rs = 1 .. n OBVIOUS
<1>2. \A i \in S : rs[i] \in Rgs /\ rs[i].lo \in Int /\ rs[i].hi \in Int /\ rs[i].lo <= rs[i].hi BY AddressIn
<1>3. IsFiniteSet(S) /\ Cardinality(S) = n BY <1>1, FS_Interval
<1>4. \A x, y \in S : <<x, y>> \in R <=> rs[x].lo < rs[y].lo \/ (rs[x].lo = rs[y].lo /\ x < y) BY DEF FirstFirst
<1>5. IsOrder(S, R)
  <2> HIDE DEF R
  <2>1. \A x \in S : <<x, x>> \notin R BY <1>2, <1>4
  <2>2. \A x, y, z \in S : <<x, y>> \in R /\ <<y, z>> \in R => <<x, z>> \in R
    <3>1. SUFFICES ASSUME NEW x \in S, NEW y \in S, NEW z \in S, <<x, y>> \in R, <<y, z>> \in R PROVE <<x, z>> \in R
      OBVIOUS
    <3>2. rs[x].lo \in Int /\ rs[y].lo \in Int /\ rs[z].lo \in Int /\ x \in Int /\ y \in Int /\ z \in Int BY <1>2
    <3>3. rs[x].lo < rs[y].lo \/ (rs[x].lo = rs[y].lo /\ x < y) BY <1>4, <3>1
    <3>4. rs[y].lo < rs[z].lo \/ (rs[y].lo = rs[z].lo /\ y < z) BY <1>4, <3>1
    <3>5. rs[x].lo < rs[z].lo \/ (rs[x].lo = rs[z].lo /\ x < z) BY <3>2, <3>3, <3>4
    <3> QED BY <1>4, <3>5
  <2>3. ASSUME NEW x \in S, NEW y \in S PROVE x = y \/ <<x, y>> \in R \/ <<y, x>> \in R
    <3>1. rs[x].lo \in Int /\ rs[y].lo \in Int /\ x \in Int /\ y \in Int BY <1>2
    <3>2. CASE rs[x].lo < rs[y].lo BY <1>4, <3>2
    <3>3. CASE rs[y].lo < rs[x].lo BY <1>4, <3>3
    <3>4. CASE rs[x].lo = rs[y].lo BY <1>4, <3>1, <3>4
    <3> QED BY <3>1, <3>2, <3>3, <3>4
  <2> QED BY <2>1, <2>2, <2>3 DEF IsOrder
<1>6. \A x \in S : Before(x, S, R) = {i \in DOMAIN rs : rs[i].lo < rs[x].lo \/ (rs[i].lo = rs[x].lo /\ i < x)}
  BY <1>1, <1>4 DEF Before
<1>7. ASSUME NEW k \in S PROVE out[k] = rs[NthOf(S, R, k)]
  <2>1. \A x \in S : Cardinality(Before(x, S, R)) = k - 1
            <=> Cardinality({i \in DOMAIN rs : rs[i].lo < rs[x].lo \/ (rs[i].lo = rs[x].lo /\ i < x)}) = k - 1 BY <1>6
  <2> HIDE DEF R
  <2>2. out[k] = rs[CHOOSE j \in S :
            Cardinality({i \in DOMAIN rs : rs[i].lo < rs[j].lo \/ (rs[i].lo = rs[j].lo /\ i < j)}) = k - 1]
    BY <1>1 DEF Sorted
  <2>3. NthOf(S, R, k) = CHOOSE j \in S :
            Cardinality({i \in DOMAIN rs : rs[i].lo < rs[j].lo \/ (rs[i].lo = rs[j].lo /\ i < j)}) = k - 1
    BY <2>1 DEF NthOf
  <2> QED BY <2>2, <2>3
<1>8. DOMAIN out = 1 .. n BY <1>1 DEF Sorted
<1> HIDE DEF R, out
<1>9. /\ \A k \in 1 .. n : NthOf(S, R, k) \in S
      /\ \A x \in S : \E k \in 1 .. n : NthOf(S, R, k) = x
      /\ \A j, k \in 1 .. n : j < k => <<NthOf(S, R, j), NthOf(S, R, k)>> \in R
  <2> HIDE DEF S, n
  <2>1. /\ \A k \in 1 .. Cardinality(S) : NthOf(S, R, k) \in S
        /\ \A x \in S : \E k \in 1 .. Cardinality(S) : NthOf(S, R, k) = x
        /\ \A j, k \in 1 .. Cardinality(S) : j < k => <<NthOf(S, R, j), NthOf(S, R, k)>> \in R
    BY <1>3, <1>5, NthIsThere
  <2> QED BY <1>3, <2>1
<1>10. out \in Seq(Rgs) /\ Len(out) = n
  <2>1. \A k \in 1 .. n : out[k] \in Rgs BY <1>2, <1>7, <1>9
  <2>2. out = [k \in 1 .. n |-> out[k]] BY <1>1, <1>8 DEF out, Sorted
  <2>3. out \in [1 .. n -> Rgs] BY <2>1, <2>2
  <2> QED BY <1>1, <2>3
<1>11. Addresses(out) = Addresses(rs)
  <2>1. ASSUME NEW a \in Int, NEW i \in 1 .. n, rs[i].lo <= a, a <= rs[i].hi
        PROVE  \E k \in 1 .. n : out[k].lo <= a /\ a <= out[k].hi
    BY <1>7, <1>9, <2>1
  <2>2. ASSUME NEW a \in Int, NEW k \in 1 .. n, out[k].lo <= a, a <= out[k].hi
        PROVE  \E i \in 1 .. n : rs[i].lo <= a /\ a <= rs[i].hi
    BY <1>7, <1>9, <2>2
  <2>3. \A a : a \in Addresses(out) <=> a \in Int /\ \E i \in 1 .. n : out[i].lo <= a /\ a <= out[i].hi
    BY <1>10, AddressIn
  <2>4. \A a : a \in Addresses(rs) <=> a \in Int /\ \E i \in 1 .. n : rs[i].lo <= a /\ a <= rs[i].hi BY AddressIn
  <2>5. \A a : a \in Addresses(out) <=> a \in Addresses(rs) BY <2>1, <2>2, <2>3, <2>4
  <2> QED BY <2>5
<1>12. ASSUME NEW j \in 1 .. n, NEW k \in 1 .. n, j < k PROVE out[j].lo <= out[k].lo
  <2>1. NthOf(S, R, j) \in S /\ NthOf(S, R, k) \in S /\ <<NthOf(S, R, j), NthOf(S, R, k)>> \in R BY <1>9, <1>12
  <2> QED BY <1>2, <1>4, <1>7, <2>1
<1> QED BY <1>10, <1>11, <1>12 DEF out

\* The elements at some places of a sequence, in order: "f" says from where.
Picks(q, s, P, n, f) ==
    /\ Len(q) = n
    /\ \A k \in 1 .. n : q[k] = s[f[k]]
    /\ \A i \in P : \E k \in 1 .. n : f[k] = i
    /\ \A j, k \in 1 .. n : j < k => f[j] < f[k]

\* What is picked is in the order in which it was.
LEMMA PickedHolds ==
  ASSUME NEW T, NEW s \in Seq(T), NEW P, P \subseteq 1 .. Len(s)
  PROVE  Picked(s, P) \in Seq(T) /\ \E n \in Nat : \E f \in [1 .. n -> P] : Picks(Picked(s, P), s, P, n, f)
<1> DEFINE n == Cardinality(P)
           f == InOrder(P)
<1>1. P \subseteq Int OBVIOUS
<1>2. IsFiniteSet(P)
  <2>1. IsFiniteSet(1 .. Len(s)) BY FS_Interval
  <2> QED BY <2>1, FS_Subset
<1>3. n \in Nat /\ f \in [1 .. n -> P] /\ (\A x \in P : \E k \in 1 .. n : f[k] = x)
      /\ \A j, k \in 1 .. n : j < k => f[j] < f[k]
  BY <1>1, <1>2, InOrderHolds
<1> HIDE DEF n
<1>4. Picked(s, P) = [k \in 1 .. n |-> s[f[k]]] BY <1>3 DEF Picked
<1> HIDE DEF f
<1>5. \A k \in 1 .. n : s[f[k]] \in T
  <2>1. \A k \in 1 .. n : f[k] \in 1 .. Len(s) BY <1>3
  <2> QED BY <2>1
<1>6. Picked(s, P) \in [1 .. n -> T] BY <1>4, <1>5
<1>7. Picked(s, P) \in Seq(T) /\ Len(Picked(s, P)) = n BY <1>3, <1>6
<1>8. Picks(Picked(s, P), s, P, n, f) BY <1>3, <1>4, <1>7 DEF Picks
<1> QED BY <1>3, <1>7, <1>8

\* The loops, turn by turn: the amount,
LEMMA AmountDef ==
  ASSUME NEW rs \in Seq(Rgs)
  PROVE  \E g \in [0 .. Len(rs) -> Int] :
            g[0] = 0 /\ Amount(rs) = g[Len(rs)] /\ \A i \in 1 .. Len(rs) : g[i] = g[i - 1] + Size(rs[i])
<1> DEFINE n == Len(rs)
           B == Int
           st == [i \in 1 .. n |-> [x \in B |-> x + Size(rs[i])]]
           F(g) == [i \in 0 .. n |-> IF i = 0 THEN 0 ELSE g[i - 1] + Size(rs[i])]
           upTo == CHOOSE g : g = F(g)
<1>1. n \in Nat /\ 0 \in B OBVIOUS
<1>2. \A i \in 1 .. n : Size(rs[i]) \in Int BY AddressIn DEF Size
<1>a. \A x \in B : \A i \in 1 .. n : x + Size(rs[i]) \in B BY <1>2
<1>3. Amount(rs) = upTo[n] BY DEF Amount
<1> HIDE DEF B
<1>4. st \in [1 .. n -> [B -> B]] BY <1>a
<1> HIDE DEF st, upTo, F, n
<1>5. PICK g \in [0 .. n -> B] : Computes(g, n, 0, st) BY <1>1, <1>4, Recursion
<1>6. ASSUME NEW i \in 1 .. n PROVE g[i] = g[i - 1] + Size(rs[i])
  <2>1. g[i - 1] \in B BY <1>1, <1>5
  <2> QED BY <1>5, <2>1 DEF st, Computes
<1>7. g = F(g) BY <1>1, <1>5, <1>6 DEF F, Computes
<1>8. upTo = F(upTo) BY <1>7 DEF upTo
<1>9. upTo[0] = 0 BY <1>1, <1>8 DEF F
<1>10. \A i \in 1 .. n : upTo[i] = upTo[i - 1] + Size(rs[i]) BY <1>1, <1>8 DEF F
<1>11. \A i \in 0 .. n : upTo[i] \in B
  <2>1. \A i \in 1 .. n : upTo[i - 1] \in B => upTo[i] \in B BY <1>1, <1>a, <1>10
  <2> QED BY <1>1, <1>9, <2>1, AlongRecursion
<1>12. upTo \in [0 .. n -> B] BY <1>8, <1>11 DEF F
<1> QED BY <1>3, <1>9, <1>10, <1>12 DEF n, B

\* what is joined,
LEMMA JoinedDef ==
  ASSUME NEW rs \in Seq(Rgs), \A out \in Seq(Rgs) : \A i \in 1 .. Len(rs) : AddRange(out, rs[i]) \in Seq(Rgs)
  PROVE  \E g \in [0 .. Len(rs) -> Seq(Rgs)] :
            g[0] = <<>> /\ Joined(rs) = g[Len(rs)] /\ \A i \in 1 .. Len(rs) : g[i] = AddRange(g[i - 1], rs[i])
<1> DEFINE n == Len(rs)
           B == Seq(Rgs)
           st == [i \in 1 .. n |-> [x \in B |-> AddRange(x, rs[i])]]
           F(g) == [i \in 0 .. n |-> IF i = 0 THEN <<>> ELSE AddRange(g[i - 1], rs[i])]
           upTo == CHOOSE g : g = F(g)
<1>1. n \in Nat /\ <<>> \in B OBVIOUS
<1>2. \A x \in B : \A i \in 1 .. n : AddRange(x, rs[i]) \in B OBVIOUS
<1>3. Joined(rs) = upTo[n] BY DEF Joined
<1> HIDE DEF B
<1>4. st \in [1 .. n -> [B -> B]] BY <1>2
<1> HIDE DEF st, upTo, F, n
<1>5. PICK g \in [0 .. n -> B] : Computes(g, n, <<>>, st) BY <1>1, <1>4, Recursion
<1>6. ASSUME NEW i \in 1 .. n PROVE g[i] = AddRange(g[i - 1], rs[i])
  <2>1. g[i - 1] \in B BY <1>1, <1>5
  <2> QED BY <1>5, <2>1 DEF st, Computes
<1>7. g = F(g) BY <1>1, <1>5, <1>6 DEF F, Computes
<1>8. upTo = F(upTo) BY <1>7 DEF upTo
<1>9. upTo[0] = <<>> BY <1>1, <1>8 DEF F
<1>10. \A i \in 1 .. n : upTo[i] = AddRange(upTo[i - 1], rs[i]) BY <1>1, <1>8 DEF F
<1>11. \A i \in 0 .. n : upTo[i] \in B
  <2>1. \A i \in 1 .. n : upTo[i - 1] \in B => upTo[i] \in B BY <1>1, <1>2, <1>10
  <2> QED BY <1>1, <1>9, <2>1, AlongRecursion
<1>12. upTo \in [0 .. n -> B] BY <1>8, <1>11 DEF F
<1> QED BY <1>3, <1>9, <1>10, <1>12 DEF n, B

\* and what is put one after the other (the fold of the community modules).
LEMMA FlattenDef ==
  ASSUME NEW T, NEW ss \in Seq(Seq(T))
  PROVE  \E g \in [0 .. Len(ss) -> Seq(T)] :
            g[0] = <<>> /\ FlattenSeq(ss) = g[Len(ss)] /\ \A i \in 1 .. Len(ss) : g[i] = g[i - 1] \o ss[i]
<1> DEFINE n == Len(ss)
           B == Seq(T)
           st == [i \in 1 .. n |-> [x \in B |-> x \o ss[i]]]
           F(g) == [i \in 1 .. n |-> IF i = 1 THEN ss[i] ELSE g[i - 1] \o ss[i]]
           flatten == CHOOSE g : g = F(g)
<1>1. n \in Nat /\ <<>> \in B OBVIOUS
<1>2. \A i \in 1 .. n : ss[i] \in B OBVIOUS
<1>3. \A x \in B : \A i \in 1 .. n : x \o ss[i] \in B BY <1>2
<1>4. \A x \in B : <<>> \o x = x OBVIOUS
<1>5. FlattenSeq(ss) = IF n = 0 THEN ss ELSE flatten[n] BY DEF FlattenSeq
<1>6. n = 0 => ss = <<>> OBVIOUS
<1> HIDE DEF B
<1>7. st \in [1 .. n -> [B -> B]] BY <1>3
<1> HIDE DEF st, flatten, F, n
<1>8. PICK g \in [0 .. n -> B] : Computes(g, n, <<>>, st) BY <1>1, <1>7, Recursion
<1>9. ASSUME NEW i \in 1 .. n PROVE g[i] = g[i - 1] \o ss[i]
  <2>1. g[i - 1] \in B BY <1>1, <1>8
  <2> QED BY <1>8, <2>1 DEF st, Computes
<1> DEFINE h == [i \in 1 .. n |-> g[i]]
<1>10. h = F(h)
  <2>1. ASSUME NEW i \in 1 .. n PROVE h[i] = IF i = 1 THEN ss[i] ELSE h[i - 1] \o ss[i]
    <3>1. CASE i = 1
      <4>0. 1 \in 1 .. n /\ 1 - 1 = 0 BY <3>1
      <4>1. g[1] = g[0] \o ss[1] /\ g[0] = <<>> BY <1>8, <1>9, <4>0 DEF Computes
      <4> QED BY <1>2, <1>4, <3>1, <4>1
    <3>2. CASE i # 1
      <4>1. i - 1 \in 1 .. n /\ h[i - 1] = g[i - 1] BY <1>1, <3>2
      <4> QED BY <1>9, <3>2, <4>1
    <3> QED BY <3>1, <3>2
  <2> HIDE DEF h
  <2>2. h = [i \in 1 .. n |-> h[i]] BY DEF h
  <2> QED BY <2>1, <2>2 DEF F
<1> HIDE DEF h
<1>11. flatten = F(flatten) BY <1>10 DEF flatten
<1>12. \A i \in 1 .. n : flatten[i] = IF i = 1 THEN ss[i] ELSE flatten[i - 1] \o ss[i] BY <1>11 DEF F
<1>13. \A i \in 1 .. n : flatten[i] = g[i]
  <2> DEFINE S == {i \in Nat : i \in 1 .. n => flatten[i] = g[i]}
  <2>1. 0 \in S OBVIOUS
  <2>2. ASSUME NEW i \in Nat, i \in S PROVE i + 1 \in S
    <3> SUFFICES ASSUME i + 1 \in 1 .. n PROVE flatten[i + 1] = g[i + 1] OBVIOUS
    <3>1. g[i + 1] = g[i] \o ss[i + 1]
      <4>1. (i + 1) - 1 = i OBVIOUS
      <4> QED BY <1>9, <4>1
    <3>2. CASE i = 0
      <4>1. g[0] = <<>> BY <1>8 DEF Computes
      <4> QED BY <1>2, <1>4, <1>12, <3>1, <3>2, <4>1
    <3>3. CASE i # 0
      <4>1. i \in 1 .. n /\ i + 1 # 1 /\ (i + 1) - 1 = i BY <1>1, <3>3
      <4>2. flatten[i] = g[i] BY <2>2, <4>1
      <4>3. flatten[i + 1] = flatten[i] \o ss[i + 1] BY <1>12, <4>1
      <4> QED BY <3>1, <4>2, <4>3
    <3> QED BY <3>2, <3>3
  <2> HIDE DEF S
  <2>3. \A i \in Nat : i \in S BY <2>1, <2>2, Climb
  <2> QED BY <2>3 DEF S
<1>14. FlattenSeq(ss) = g[n]
  <2>1. CASE n = 0 BY <1>5, <1>6, <1>8, <2>1 DEF Computes
  <2>2. CASE n # 0
    <3>1. n \in 1 .. n BY <1>1, <2>2
    <3> QED BY <1>5, <1>13, <2>2, <3>1
  <2> QED BY <2>1, <2>2
<1> QED BY <1>8, <1>9, <1>14 DEF n, B, Computes

\* Two sequences of ranges stand for the same addresses.
Until(rs, n) == {a \in Int : \E i \in 1 .. n : rs[i].lo <= a /\ a <= rs[i].hi}

\* All the ranges hold is what they hold up to the last,
LEMMA UntilAll ==
  ASSUME NEW rs \in Seq(Rgs)
  PROVE  Addresses(rs) = Until(rs, Len(rs))
<1>1. \A a : a \in Addresses(rs) <=> a \in Int /\ \E i \in 1 .. Len(rs) : rs[i].lo <= a /\ a <= rs[i].hi BY AddressIn
<1> QED BY <1>1 DEF Until

\* one range more holds its addresses more,
LEMMA UntilNext ==
  ASSUME NEW rs \in Seq(Rgs), NEW i \in 1 .. Len(rs)
  PROVE  Until(rs, i) = Until(rs, i - 1) \cup {a \in Int : rs[i].lo <= a /\ a <= rs[i].hi}
<1>1. \A k \in 1 .. i : k \in 1 .. i - 1 \/ k = i OBVIOUS
<1>2. \A k \in 1 .. i - 1 : k \in 1 .. i OBVIOUS
<1>3. i \in 1 .. i OBVIOUS
<1> QED BY <1>1, <1>2, <1>3 DEF Until

\* and no range holds none.
LEMMA UntilNone == ASSUME NEW rs PROVE Until(rs, 0) = {}
  BY DEF Until

\* A range appended adds its addresses,
LEMMA AppendAddresses ==
  ASSUME NEW rs \in Seq(Rgs), NEW r \in Rgs
  PROVE  /\ Append(rs, r) \in Seq(Rgs)
         /\ Addresses(Append(rs, r)) = Addresses(rs) \cup {a \in Int : r.lo <= a /\ a <= r.hi}
<1> DEFINE q == Append(rs, r)
           n == Len(rs)
<1>1. q \in Seq(Rgs) /\ Len(q) = n + 1 /\ n \in Nat OBVIOUS
<1>2. \A k \in 1 .. n : q[k] = rs[k] OBVIOUS
<1>3. q[n + 1] = r OBVIOUS
<1> HIDE DEF q
<1>4. Until(q, n + 1) = Until(q, n) \cup {a \in Int : r.lo <= a /\ a <= r.hi}
  <2>1. n + 1 \in 1 .. Len(q) /\ (n + 1) - 1 = n BY <1>1
  <2>2. Until(q, n + 1) = Until(q, (n + 1) - 1) \cup {a \in Int : q[n + 1].lo <= a /\ a <= q[n + 1].hi}
    BY <1>1, <2>1, UntilNext
  <2> QED BY <1>3, <2>1, <2>2
<1>5. Until(q, n) = Until(rs, n) BY <1>2 DEF Until
<1>6. Addresses(q) = Until(q, n + 1) /\ Addresses(rs) = Until(rs, n) BY <1>1, UntilAll
<1> QED BY <1>1, <1>4, <1>5, <1>6 DEF q

\* and is apart from all when it is from the last.
LEMMA AppendSpaced ==
  ASSUME NEW rs \in Seq(Rgs), NEW r \in Rgs, NEW gap \in Int, Spaced(rs, gap),
         rs # <<>> => rs[Len(rs)].hi + gap < r.lo, 0 <= gap
  PROVE  Spaced(Append(rs, r), gap)
<1> DEFINE q == Append(rs, r)
           n == Len(rs)
<1>1. Len(q) = n + 1 /\ n \in Nat OBVIOUS
<1>2. \A k \in 1 .. n : q[k] = rs[k] /\ rs[k].lo \in Int /\ rs[k].hi \in Int /\ rs[k].lo <= rs[k].hi BY AddressIn
<1>3. q[n + 1] = r /\ r.lo \in Int /\ r.hi \in Int BY DEF Rgs
<1>4. n # 0 => rs # <<>> OBVIOUS
<1> HIDE DEF q, n
<1>5. ASSUME NEW i \in 1 .. n + 1, NEW j \in 1 .. n + 1, i < j PROVE q[i].hi + gap < q[j].lo
  <2>1. i \in 1 .. n /\ n # 0 BY <1>1, <1>5
  <2>2. CASE j \in 1 .. n BY <1>2, <1>5, <2>1, <2>2 DEF Spaced, n
  <2>3. CASE j = n + 1
    <3>1. rs[n].hi + gap < r.lo BY <1>4, <2>1 DEF n
    <3>2. i = n \/ (i < n /\ rs[i].hi + gap < rs[n].lo)
      <4>1. CASE i < n
        <5>1. n \in 1 .. Len(rs) /\ i \in 1 .. Len(rs) BY <1>1, <2>1 DEF n
        <5> QED BY <4>1, <5>1 DEF Spaced
      <4> QED BY <1>1, <2>1, <4>1
    <3>3. n \in 1 .. n BY <1>1, <2>1
    <3>4. rs[n].lo \in Int /\ rs[n].hi \in Int /\ rs[n].lo <= rs[n].hi /\ rs[i].hi \in Int BY <1>2, <2>1, <3>3
    <3>5. rs[i].hi + gap < r.lo
      <4>1. CASE i = n BY <3>1, <4>1
      <4>2. CASE i < n /\ rs[i].hi + gap < rs[n].lo
        <5>1. \A w, x, y, z, d \in Int : w + d < x /\ x <= y /\ y + d < z /\ 0 <= d => w + d < z OBVIOUS
        <5> QED BY <1>3, <3>1, <3>4, <4>2, <5>1
      <4> QED BY <3>2, <4>1, <4>2
    <3> QED BY <1>2, <1>3, <2>1, <2>3, <3>5
  <2> QED BY <1>1, <2>2, <2>3
<1> QED BY <1>1, <1>5 DEF Spaced, q

\* Adding a range that begins no earlier than the last one.
LEMMA AddRangeHolds ==
  ASSUME NEW out \in Seq(Rgs), NEW r \in Rgs
  PROVE  /\ AddRange(out, r) \in Seq(Rgs) /\ AddRange(out, r) # <<>>
         /\ Spaced(out, 1) /\ (out # <<>> => out[Len(out)].lo <= r.lo) =>
              /\ Spaced(AddRange(out, r), 1)
              /\ AddRange(out, r)[Len(AddRange(out, r))].lo <= r.lo
              /\ Addresses(AddRange(out, r)) = Addresses(out) \cup {a \in Int : r.lo <= a /\ a <= r.hi}
<1> DEFINE n == Len(out)
           q == AddRange(out, r)
<1>1. r.lo \in Int /\ r.hi \in Int /\ r.lo <= r.hi BY DEF Rgs
<1>2. n \in Nat /\ \A k \in 1 .. n : out[k] \in Rgs /\ out[k].lo \in Int /\ out[k].hi \in Int /\ out[k].lo <= out[k].hi
  BY AddressIn
<1>3. CASE ~(out # <<>> /\ r.lo <= out[n].hi + 1)
  <2>1. q = Append(out, r) BY <1>3 DEF AddRange
  <2>2. q # <<>> /\ Len(q) = n + 1 /\ q[n + 1] = r BY <2>1
  <2>3. q \in Seq(Rgs) /\ Addresses(q) = Addresses(out) \cup {a \in Int : r.lo <= a /\ a <= r.hi} BY <2>1, AppendAddresses
  <2> HIDE DEF q
  <2>4. ASSUME Spaced(out, 1), out # <<>> => out[Len(out)].lo <= r.lo PROVE Spaced(q, 1)
    <3>1. out # <<>> => out[n].hi + 1 < r.lo
      <4>1. out # <<>> => n \in 1 .. n OBVIOUS
      <4> QED BY <1>1, <1>2, <1>3, <4>1
    <3> HIDE DEF n
    <3>2. Spaced(Append(out, r), 1) BY <2>4, <3>1, AppendSpaced DEF n
    <3> QED BY <2>1, <3>2
  <2> QED BY <1>1, <2>2, <2>3, <2>4 DEF q
<1>4. CASE out # <<>> /\ r.lo <= out[n].hi + 1
  <2>1. q = [out EXCEPT ![n].hi = Larger(@, r.hi)] BY <1>4 DEF AddRange
  <2>2. n \in 1 .. n BY <1>4
  <2> DEFINE l == [lo |-> out[n].lo, hi |-> Larger(out[n].hi, r.hi)]
  <2>3. l \in Rgs /\ l.lo = out[n].lo /\ l.hi = Larger(out[n].hi, r.hi) BY <1>1, <1>2, <2>2 DEF Rgs, Larger
  <2>4. [out[n] EXCEPT !.hi = Larger(@, r.hi)] = l
    <3>1. out[n] \in [lo : Int, hi : Int] BY <1>2, <2>2 DEF Rgs
    <3> QED BY <3>1
  <2>5. q = [k \in 1 .. n |-> IF k = n THEN l ELSE out[k]]
    <3>1. out = [k \in 1 .. n |-> out[k]] OBVIOUS
    <3>2. q = [out EXCEPT ![n] = l] BY <2>1, <2>4
    <3> HIDE DEF l
    <3> QED BY <3>1, <3>2, <2>2
  <2> HIDE DEF l, q
  <2>6. q \in Seq(Rgs) /\ Len(q) = n /\ q # <<>>
    <3>1. q \in [1 .. n -> Rgs] BY <1>2, <2>3, <2>5
    <3> QED BY <1>2, <2>2, <3>1
  <2>7. q[n] = l /\ \A k \in 1 .. n - 1 : k \in 1 .. n /\ q[k] = out[k] BY <2>2, <2>5
  <2>8. ASSUME Spaced(out, 1), out # <<>> => out[Len(out)].lo <= r.lo
        PROVE  /\ Spaced(q, 1)
               /\ q[Len(q)].lo <= r.lo
               /\ Addresses(q) = Addresses(out) \cup {a \in Int : r.lo <= a /\ a <= r.hi}
    <3>1. q[Len(q)].lo <= r.lo BY <1>4, <2>3, <2>6, <2>7, <2>8
    <3>2. ASSUME NEW i \in 1 .. n, NEW j \in 1 .. n, i < j PROVE q[i].hi + 1 < q[j].lo
      <4>1. i \in 1 .. n - 1 BY <1>2, <3>2
      <4>2. q[i] = out[i] /\ out[i].hi + 1 < out[j].lo BY <2>7, <2>8, <3>2, <4>1 DEF Spaced
      <4>3. q[j].lo = out[j].lo BY <1>2, <2>3, <2>5
      <4> QED BY <4>2, <4>3
    <3>3. Addresses(out) = Until(out, n) /\ Addresses(q) = Until(q, n) BY <2>6, UntilAll
    <3>4. Until(out, n) = Until(out, n - 1) \cup {a \in Int : out[n].lo <= a /\ a <= out[n].hi} BY <2>2, UntilNext
    <3>5. Until(q, n) = Until(q, n - 1) \cup {a \in Int : q[n].lo <= a /\ a <= q[n].hi} BY <2>2, <2>6, UntilNext
    <3>6. Until(q, n - 1) = Until(out, n - 1) BY <2>7 DEF Until
    <3>7. \A a \in Int : l.lo <= a /\ a <= l.hi <=> (out[n].lo <= a /\ a <= out[n].hi) \/ (r.lo <= a /\ a <= r.hi)
      <4>1. out[n].lo <= r.lo BY <1>4, <2>8
      <4>2. out[n].lo \in Int /\ out[n].hi \in Int /\ out[n].lo <= out[n].hi /\ r.lo <= out[n].hi + 1 BY <1>2, <1>4, <2>2
      <4> QED BY <1>1, <2>3, <4>1, <4>2 DEF Larger
    <3>8. Addresses(q) = Addresses(out) \cup {a \in Int : r.lo <= a /\ a <= r.hi}
      BY <2>7, <3>3, <3>4, <3>5, <3>6, <3>7
    <3> QED BY <2>6, <3>1, <3>2, <3>8 DEF Spaced
  <2> QED BY <2>6, <2>8 DEF q
<1> QED BY <1>3, <1>4

\* Ranges in the order of their first addresses are joined into the longest ones.
LEMMA JoinedHolds ==
  ASSUME NEW rs \in Seq(Rgs), \A j, k \in 1 .. Len(rs) : j < k => rs[j].lo <= rs[k].lo
  PROVE  Joined(rs) \in Seq(Rgs) /\ Spaced(Joined(rs), 1) /\ Addresses(Joined(rs)) = Addresses(rs)
<1> DEFINE n == Len(rs)
<1>1. n \in Nat /\ \A k \in 1 .. n : rs[k] \in Rgs /\ rs[k].lo \in Int BY AddressIn
<1>2. \A out \in Seq(Rgs) : \A i \in 1 .. n : AddRange(out, rs[i]) \in Seq(Rgs) BY <1>1, AddRangeHolds
<1>3. PICK g \in [0 .. n -> Seq(Rgs)] :
        g[0] = <<>> /\ Joined(rs) = g[n] /\ \A i \in 1 .. n : g[i] = AddRange(g[i - 1], rs[i])
  BY <1>2, JoinedDef
<1> DEFINE P(i) == /\ Spaced(g[i], 1) /\ Addresses(g[i]) = Until(rs, i)
                   /\ g[i] # <<>> => i # 0 /\ g[i][Len(g[i])].lo <= rs[i].lo
           S == {i \in Nat : i <= n => P(i)}
<1> HIDE DEF n
<1>4. 0 \in S
  <2>1. Spaced(<<>>, 1) BY DEF Spaced
  <2>2. Addresses(<<>>) = {} BY DEF Addresses
  <2> QED BY <1>3, <2>1, <2>2, UntilNone
<1>5. ASSUME NEW i \in Nat, i \in S PROVE i + 1 \in S
  <2> SUFFICES ASSUME i + 1 <= n PROVE P(i + 1) OBVIOUS
  <2>1. P(i) BY <1>1, <1>5
  <2>2. i + 1 \in 1 .. n /\ (i + 1) - 1 = i /\ g[i] \in Seq(Rgs) BY <1>1, <1>3
  <2> DEFINE r == rs[i + 1]
             q == AddRange(g[i], r)
  <2>3. g[i + 1] = q BY <1>3, <2>2
  <2>4. r \in Rgs BY <1>1, <2>2
  <2>5. g[i] # <<>> => g[i][Len(g[i])].lo <= r.lo
    <3>1. SUFFICES ASSUME g[i] # <<>> PROVE g[i][Len(g[i])].lo <= r.lo OBVIOUS
    <3>2. i \in 1 .. n /\ i < i + 1 BY <1>1, <2>1, <2>2, <3>1
    <3>3. rs[i].lo <= r.lo BY <2>2, <3>2 DEF n
    <3>4. rs[i].lo \in Int /\ r.lo \in Int BY <1>1, <2>2, <3>2
    <3>5. Len(g[i]) \in 1 .. Len(g[i]) BY <2>2, <3>1
    <3>6. g[i][Len(g[i])].lo \in Int BY <2>2, <3>5, AddressIn
    <3> QED BY <2>1, <3>1, <3>3, <3>4, <3>6
  <2> HIDE DEF r, q
  <2>6. /\ q \in Seq(Rgs) /\ q # <<>> /\ Spaced(q, 1) /\ q[Len(q)].lo <= r.lo
        /\ Addresses(q) = Addresses(g[i]) \cup {a \in Int : r.lo <= a /\ a <= r.hi}
    BY <2>1, <2>2, <2>4, <2>5, AddRangeHolds DEF q
  <2>7. Until(rs, i + 1) = Until(rs, i) \cup {a \in Int : r.lo <= a /\ a <= r.hi}
    <3>1. Until(rs, i + 1) = Until(rs, (i + 1) - 1) \cup {a \in Int : rs[i + 1].lo <= a /\ a <= rs[i + 1].hi}
      BY <2>2, UntilNext DEF n
    <3> QED BY <2>2, <3>1 DEF r
  <2> QED BY <2>1, <2>3, <2>6, <2>7 DEF r
<1> HIDE DEF S
<1>6. n \in S BY <1>1, <1>4, <1>5, Climb
<1>7. P(n) BY <1>1, <1>6 DEF S
<1>8. g[n] \in Seq(Rgs) BY <1>1, <1>3
<1>9. Addresses(rs) = Until(rs, n) BY UntilAll DEF n
<1> QED BY <1>3, <1>7, <1>8, <1>9

\* Merging keeps every address and leaves ranges in order that neither overlap
\* nor touch, whatever the ranges were (mergeRanges of targetPattern.ts and
\* scanSplit.ts, and of chunks.go).
THEOREM MergeHolds ==
  ASSUME NEW rs \in Seq(Rgs)
  PROVE  MergeRanges(rs) \in Seq(Rgs) /\ Spaced(MergeRanges(rs), 1) /\ Addresses(MergeRanges(rs)) = Addresses(rs)
<1> DEFINE q == Sorted(rs)
<1>1. /\ q \in Seq(Rgs) /\ Len(q) = Len(rs) /\ Addresses(q) = Addresses(rs)
      /\ \A j, k \in 1 .. Len(rs) : j < k => q[j].lo <= q[k].lo
  BY SortedHolds
<1> HIDE DEF q
<1>2. Joined(q) \in Seq(Rgs) /\ Spaced(Joined(q), 1) /\ Addresses(Joined(q)) = Addresses(q) BY <1>1, JoinedHolds
<1> QED BY <1>1, <1>2 DEF MergeRanges, q

(***************************************************************************)
(* What is left of a range.                                                *)
(***************************************************************************)

\* The addresses of a range.
Hull(r) == {a \in Int : r.lo <= a /\ a <= r.hi}

\* Before the next address to look at, everything but the excluded ranges is out.
CutSoFar(s, xs, n, t) ==
    /\ s.out \in Seq(Rgs) /\ s.cur \in Int /\ Spaced(s.out, 1)
    /\ t.lo <= s.cur /\ (s.cur = t.lo \/ \E i \in 1 .. n : s.cur = xs[i].hi + 1)
    /\ s.out # <<>> => s.out[Len(s.out)].hi + 1 < s.cur
    /\ Addresses(s.out) = {a \in Hull(t) : a < s.cur /\ a \notin Until(xs, n)}
    /\ \A i \in 1 .. n : xs[i].hi < s.cur \/ xs[i].lo > t.hi

\* One excluded range more.
LEMMA CutHolds ==
  ASSUME NEW t \in Rgs, NEW xs \in Seq(Rgs), Spaced(xs, 1), NEW i \in 1 .. Len(xs), NEW s, CutSoFar(s, xs, i - 1, t),
         s \in [out : Seq(Rgs), cur : Int]
  PROVE  CutRange(s, xs[i], t) \in [out : Seq(Rgs), cur : Int] /\ CutSoFar(CutRange(s, xs[i], t), xs, i, t)
<1> DEFINE x == xs[i]
           q == CutRange(s, x, t)
<1>1. i \in Nat /\ i # 0 /\ Len(xs) \in Nat OBVIOUS
<1>2. /\ \A k \in 1 .. Len(xs) : xs[k] \in Rgs /\ xs[k].lo \in Int /\ xs[k].hi \in Int /\ xs[k].lo <= xs[k].hi
      /\ t.lo \in Int /\ t.hi \in Int /\ t.lo <= t.hi
  BY AddressIn DEF Rgs
<1>3. x.lo \in Int /\ x.hi \in Int /\ x.lo <= x.hi BY <1>2
<1>4. Until(xs, i) = Until(xs, i - 1) \cup Hull(x) BY UntilNext DEF Hull
<1>5. \A k \in 1 .. i - 1 : k \in 1 .. Len(xs) /\ xs[k].hi + 1 < x.lo
  <2>1. ASSUME NEW k \in 1 .. i - 1 PROVE k \in 1 .. Len(xs) /\ k < i BY <1>1
  <2> QED BY <2>1 DEF Spaced
<1>6. \A k \in 1 .. i : k \in 1 .. i - 1 \/ k = i BY <1>1
<1>7. i \in 1 .. i /\ \A k \in 1 .. i - 1 : k \in 1 .. i BY <1>1
<1>8. s.cur \in Int /\ t.lo <= s.cur BY DEF CutSoFar
<1> HIDE DEF x
<1>9. \A a \in Until(xs, i - 1) : a \in Int /\ a + 1 < x.lo
  <2> SUFFICES ASSUME NEW a \in Until(xs, i - 1) PROVE a \in Int /\ a + 1 < x.lo OBVIOUS
  <2>1. PICK k \in 1 .. i - 1 : xs[k].lo <= a /\ a <= xs[k].hi BY DEF Until
  <2>2. a \in Int BY DEF Until
  <2>3. xs[k].hi + 1 < x.lo /\ xs[k].hi \in Int BY <1>2, <1>5
  <2> QED BY <1>3, <2>1, <2>2, <2>3
<1>10. CASE x.hi < s.cur \/ x.lo > t.hi
  <2>1. q = s BY <1>10 DEF CutRange
  <2>2. \A a \in Hull(x) : ~(a \in Hull(t) /\ a < s.cur /\ a \notin Until(xs, i - 1)) \/ x.hi < s.cur
    <3>1. CASE x.hi < s.cur BY <3>1
    <3>2. CASE x.lo > t.hi
      <4>1. \A a \in Hull(x) : a \notin Hull(t) BY <1>2, <1>3, <3>2 DEF Hull
      <4> QED BY <4>1
    <3> QED BY <1>10, <3>1, <3>2
  <2>3. s.cur <= x.lo \/ x.hi < s.cur
    <3>1. CASE s.cur = t.lo
      <4> QED BY <1>2, <1>3, <1>8, <1>10, <3>1
    <3>2. CASE \E k \in 1 .. i - 1 : s.cur = xs[k].hi + 1
      <4>1. PICK k \in 1 .. i - 1 : s.cur = xs[k].hi + 1 BY <3>2
      <4>2. s.cur < x.lo BY <1>5, <4>1
      <4> QED BY <1>3, <1>8, <4>2
    <3> QED BY <3>1, <3>2 DEF CutSoFar
  <2>4. x.hi < s.cur => FALSE \/ s.cur = t.lo
    <3>1. ASSUME x.hi < s.cur, NEW k \in 1 .. i - 1, s.cur = xs[k].hi + 1 PROVE FALSE
      <4>1. s.cur < x.lo BY <1>5, <3>1
      <4> QED BY <1>3, <1>8, <3>1, <4>1
    <3> QED BY <3>1 DEF CutSoFar
  <2>5. \A a \in Hull(t) : a < s.cur => a \notin Hull(x)
    <3> SUFFICES ASSUME NEW a \in Hull(t), a < s.cur, a \in Hull(x) PROVE FALSE OBVIOUS
    <3>1. a \in Int /\ t.lo <= a /\ a <= t.hi /\ x.lo <= a /\ a <= x.hi BY DEF Hull
    <3>2. CASE x.hi < s.cur BY <1>8, <2>4, <3>1, <3>2, <1>2
    <3>3. CASE x.lo > t.hi BY <1>2, <1>3, <3>1, <3>3
    <3> QED BY <1>10, <3>2, <3>3
  <2>6. {a \in Hull(t) : a < s.cur /\ a \notin Until(xs, i)} = {a \in Hull(t) : a < s.cur /\ a \notin Until(xs, i - 1)}
    BY <1>4, <2>5
  <2>7. \A k \in 1 .. i : xs[k].hi < s.cur \/ xs[k].lo > t.hi BY <1>6, <1>10 DEF CutSoFar, x
  <2>8. s.cur = t.lo \/ \E k \in 1 .. i : s.cur = xs[k].hi + 1 BY <1>7 DEF CutSoFar
  <2>9. CutSoFar(s, xs, i, t) BY <2>6, <2>7, <2>8 DEF CutSoFar
  <2> QED BY <2>1, <2>9 DEF x
<1>11. CASE ~(x.hi < s.cur \/ x.lo > t.hi)
  <2> DEFINE piece == [lo |-> s.cur, hi |-> x.lo - 1]
             out == IF x.lo > s.cur THEN Append(s.out, piece) ELSE s.out
  <2>1. q = [out |-> out, cur |-> x.hi + 1] BY <1>11 DEF CutRange
  <2>2. out \in Seq(Rgs) /\ Spaced(out, 1)
    <3>1. CASE x.lo > s.cur
      <4>1. piece \in Rgs /\ piece.lo = s.cur BY <1>3, <1>8, <3>1 DEF Rgs
      <4>2. s.out # <<>> => s.out[Len(s.out)].hi + 1 < piece.lo BY <4>1 DEF CutSoFar
      <4>3. s.out \in Seq(Rgs) /\ Spaced(s.out, 1) BY DEF CutSoFar
      <4> HIDE DEF piece
      <4>4. Append(s.out, piece) \in Seq(Rgs) /\ Spaced(Append(s.out, piece), 1)
        BY <4>1, <4>2, <4>3, AppendAddresses, AppendSpaced
      <4> QED BY <3>1, <4>4
    <3>2. CASE ~(x.lo > s.cur) BY <3>2 DEF CutSoFar
    <3> QED BY <3>1, <3>2
  <2>3. Addresses(out) = Addresses(s.out) \cup {a \in Int : s.cur <= a /\ a < x.lo}
    <3>1. CASE x.lo > s.cur
      <4>1. piece \in Rgs /\ piece.lo = s.cur /\ piece.hi = x.lo - 1 BY <1>3, <1>8, <3>1 DEF Rgs
      <4>2. s.out \in Seq(Rgs) BY DEF CutSoFar
      <4> HIDE DEF piece
      <4>3. Addresses(Append(s.out, piece)) = Addresses(s.out) \cup {a \in Int : piece.lo <= a /\ a <= piece.hi}
        BY <4>1, <4>2, AppendAddresses
      <4>4. \A a \in Int : a <= piece.hi <=> a < x.lo BY <1>3, <4>1
      <4> QED BY <3>1, <4>1, <4>3, <4>4
    <3>2. CASE ~(x.lo > s.cur)
      <4>1. {a \in Int : s.cur <= a /\ a < x.lo} = {} BY <1>3, <1>8, <3>2
      <4> QED BY <3>2, <4>1
    <3> QED BY <3>1, <3>2
  <2>4. out # <<>> => out[Len(out)].hi + 1 < x.hi + 1
    <3>1. CASE x.lo > s.cur
      <4>1. piece.hi = x.lo - 1 OBVIOUS
      <4>2. s.out \in Seq(Rgs) BY DEF CutSoFar
      <4> HIDE DEF piece
      <4>3. out[Len(out)] = piece BY <3>1, <4>2
      <4>4. (x.lo - 1) + 1 < x.hi + 1 BY <1>3
      <4> QED BY <4>1, <4>3, <4>4
    <3>2. CASE ~(x.lo > s.cur)
      <4>1. s.out # <<>> => s.out[Len(s.out)].hi \in Int
        <5>1. s.out \in Seq(Rgs) BY DEF CutSoFar
        <5>2. s.out # <<>> => Len(s.out) \in 1 .. Len(s.out) BY <5>1
        <5> QED BY <5>1, <5>2, AddressIn
      <4>2. s.out # <<>> => s.out[Len(s.out)].hi + 1 < s.cur BY DEF CutSoFar
      <4>3. s.cur <= x.hi BY <1>3, <1>8, <1>11
      <4> QED BY <1>3, <1>8, <3>2, <4>1, <4>2, <4>3
    <3> QED BY <3>1, <3>2
  <2>5. s.cur <= x.hi /\ x.lo <= t.hi BY <1>2, <1>3, <1>8, <1>11
  <2>6. \A k \in 1 .. i : xs[k].hi < x.hi + 1 \/ xs[k].lo > t.hi
    <3>1. ASSUME NEW k \in 1 .. i - 1 PROVE xs[k].hi < x.hi + 1 BY <1>2, <1>3, <1>5
    <3> QED BY <1>3, <1>6, <3>1 DEF x
  <2>7. Addresses(out) = {a \in Hull(t) : a < x.hi + 1 /\ a \notin Until(xs, i)}
    <3>1. Addresses(s.out) = {a \in Hull(t) : a < s.cur /\ a \notin Until(xs, i - 1)} BY DEF CutSoFar
    <3>2. ASSUME NEW a \in Int, s.cur <= a, a < x.lo PROVE a \in Hull(t) /\ a < x.hi + 1 /\ a \notin Until(xs, i)
      <4>1. a \in Hull(t) BY <1>2, <1>3, <1>8, <2>5, <3>2 DEF Hull
      <4>2. a \notin Hull(x) BY <1>3, <3>2 DEF Hull
      <4>3. a \notin Until(xs, i - 1)
        <5>1. SUFFICES ASSUME a \in Until(xs, i - 1) PROVE FALSE OBVIOUS
        <5>2. PICK k \in 1 .. i - 1 : xs[k].lo <= a /\ a <= xs[k].hi BY <5>1 DEF Until
        <5>3. xs[k].hi < s.cur \/ xs[k].lo > t.hi BY DEF CutSoFar
        <5>4. xs[k].hi \in Int /\ xs[k].lo \in Int BY <1>2, <1>5
        <5> QED BY <1>2, <1>8, <3>2, <4>1, <5>2, <5>3, <5>4 DEF Hull
      <4> QED BY <1>3, <1>4, <3>2, <4>1, <4>2, <4>3
    <3>3. ASSUME NEW a \in Hull(t), a < s.cur, a \notin Until(xs, i - 1) PROVE a < x.hi + 1 /\ a \notin Until(xs, i)
      <4>1. a \in Int /\ t.lo <= a BY DEF Hull
      <4>2. a < x.hi + 1 BY <1>3, <1>8, <2>5, <3>3, <4>1
      <4>3. a \notin Hull(x)
        <5>1. SUFFICES ASSUME a \in Hull(x) PROVE FALSE OBVIOUS
        <5>2. x.lo <= a BY <5>1 DEF Hull
        <5>3. CASE s.cur = t.lo BY <1>2, <3>3, <4>1, <5>3
        <5>4. ASSUME NEW k \in 1 .. i - 1, s.cur = xs[k].hi + 1 PROVE FALSE
          <6>1. s.cur < x.lo BY <1>5, <5>4
          <6> QED BY <1>3, <1>8, <3>3, <4>1, <5>2, <6>1
        <5> QED BY <5>3, <5>4 DEF CutSoFar
      <4> QED BY <1>4, <3>3, <4>2, <4>3
    <3>4. ASSUME NEW a \in Hull(t), a < x.hi + 1, a \notin Until(xs, i)
          PROVE  (a < s.cur /\ a \notin Until(xs, i - 1)) \/ (s.cur <= a /\ a < x.lo)
      <4>1. a \in Int BY DEF Hull
      <4>2. a < x.lo BY <1>3, <1>4, <3>4, <4>1 DEF Hull
      <4> QED BY <1>3, <1>4, <1>8, <3>4, <4>1, <4>2
    <3>5. \A a \in Hull(t) : a \in Int BY DEF Hull
    <3> HIDE DEF out
    <3> QED BY <2>3, <3>1, <3>2, <3>3, <3>4, <3>5
  <2> HIDE DEF out
  <2>8. q.out = out /\ q.cur = x.hi + 1 /\ q \in [out : Seq(Rgs), cur : Int] BY <1>3, <2>1, <2>2
  <2>9. t.lo <= q.cur BY <1>2, <1>3, <1>8, <2>5, <2>8
  <2>10. \E k \in 1 .. i : q.cur = xs[k].hi + 1 BY <1>7, <2>8 DEF x
  <2> HIDE DEF q
  <2>11. CutSoFar(q, xs, i, t) BY <1>3, <2>2, <2>4, <2>6, <2>7, <2>8, <2>9, <2>10 DEF CutSoFar
  <2> QED BY <2>8, <2>11 DEF q, x
<1> QED BY <1>10, <1>11

\* What is left of a range is its addresses without the excluded ones, in order.
LEMMA LeftOfHolds ==
  ASSUME NEW t \in Rgs, NEW xs \in Seq(Rgs), Spaced(xs, 1)
  PROVE  /\ LeftOf(t, xs) \in Seq(Rgs) /\ Spaced(LeftOf(t, xs), 1)
         /\ Addresses(LeftOf(t, xs)) = Hull(t) \ Addresses(xs)
<1> DEFINE n == Len(xs)
           B == [out : Seq(Rgs), cur : Int]
           D == {s \in B : TRUE}
           b == [out |-> <<>>, cur |-> t.lo]
           Turn(s, i) == IF s \in B /\ CutSoFar(s, xs, i - 1, t) THEN CutRange(s, xs[i], t) ELSE b
           st == [i \in 1 .. n |-> [s \in B |-> Turn(s, i)]]
           F(g) == [i \in 0 .. n |-> IF i = 0 THEN [out |-> <<>>, cur |-> t.lo] ELSE CutRange(g[i - 1], xs[i], t)]
           upTo == CHOOSE g : g = F(g)
           end == upTo[n]
<1>1. n \in Nat /\ t.lo \in Int /\ t.hi \in Int /\ t.lo <= t.hi BY DEF Rgs
<1>2. b \in B /\ b.out = <<>> /\ b.cur = t.lo BY <1>1
<1>3. CutSoFar(b, xs, 0, t)
  <2>1. Spaced(<<>>, 1) BY DEF Spaced
  <2>2. Addresses(<<>>) = {} BY DEF Addresses
  <2>3. {a \in Hull(t) : a < t.lo /\ a \notin Until(xs, 0)} = {} BY <1>1 DEF Hull
  <2> HIDE DEF b
  <2>4. \A i \in 1 .. 0 : xs[i].hi < b.cur \/ xs[i].lo > t.hi OBVIOUS
  <2> QED BY <1>1, <1>2, <2>1, <2>2, <2>3, <2>4 DEF CutSoFar
<1>4. LeftOf(t, xs) = IF end.cur <= t.hi THEN Append(end.out, [lo |-> end.cur, hi |-> t.hi]) ELSE end.out BY DEF LeftOf
<1> HIDE DEF n, B, b
<1>5. \A s \in B : \A i \in 1 .. n : Turn(s, i) \in B
  <2> SUFFICES ASSUME NEW s \in B, NEW i \in 1 .. n PROVE Turn(s, i) \in B OBVIOUS
  <2>1. CASE CutSoFar(s, xs, i - 1, t)
    <3>1. CutRange(s, xs[i], t) \in B BY <2>1, CutHolds DEF n, B
    <3> QED BY <2>1, <3>1
  <2>2. CASE ~CutSoFar(s, xs, i - 1, t) BY <1>2, <2>2
  <2> QED BY <2>1, <2>2
<1> HIDE DEF Turn
<1>6. st \in [1 .. n -> [B -> B]] BY <1>5
<1> HIDE DEF st, F, upTo
<1>7. PICK g \in [0 .. n -> B] : Computes(g, n, b, st) BY <1>1, <1>2, <1>6, Recursion
<1> DEFINE S == {i \in Nat : i <= n => CutSoFar(g[i], xs, i, t)}
<1>8. 0 \in S BY <1>3, <1>7 DEF Computes
<1>9. ASSUME NEW i \in 1 .. n, CutSoFar(g[i - 1], xs, i - 1, t)
      PROVE  g[i] = CutRange(g[i - 1], xs[i], t) /\ CutSoFar(g[i], xs, i, t)
  <2>1. i - 1 \in 0 .. n BY <1>1
  <2>2. g[i - 1] \in B BY <1>7, <2>1
  <2>3. g[i] = CutRange(g[i - 1], xs[i], t) BY <1>7, <1>9, <2>2 DEF Computes, st, Turn
  <2>4. CutSoFar(CutRange(g[i - 1], xs[i], t), xs, i, t) BY <1>9, <2>2, CutHolds DEF n, B
  <2> QED BY <2>3, <2>4
<1>10. ASSUME NEW i \in Nat, i \in S PROVE i + 1 \in S
  <2> SUFFICES ASSUME i + 1 <= n PROVE CutSoFar(g[i + 1], xs, i + 1, t) OBVIOUS
  <2>1. i + 1 \in 1 .. n /\ (i + 1) - 1 = i BY <1>1
  <2>2. CutSoFar(g[i], xs, i, t) BY <1>1, <1>10
  <2>3. CutSoFar(g[(i + 1) - 1], xs, (i + 1) - 1, t) BY <2>1, <2>2
  <2> QED BY <1>9, <2>1, <2>3
<1> HIDE DEF S
<1>11. \A i \in Nat : i \in S BY <1>8, <1>10, Climb
<1>12. \A i \in 0 .. n : CutSoFar(g[i], xs, i, t) BY <1>1, <1>11 DEF S
<1>13. g = F(g)
  <2>1. ASSUME NEW i \in 1 .. n PROVE g[i] = CutRange(g[i - 1], xs[i], t)
    <3>1. i - 1 \in 0 .. n BY <1>1
    <3> QED BY <1>9, <1>12, <3>1
  <2>2. g[0] = [out |-> <<>>, cur |-> t.lo] BY <1>7 DEF Computes, b
  <2>3. ASSUME NEW i \in 0 .. n
        PROVE  g[i] = IF i = 0 THEN [out |-> <<>>, cur |-> t.lo] ELSE CutRange(g[i - 1], xs[i], t)
    <3>1. i = 0 \/ i \in 1 .. n BY <1>1
    <3> QED BY <2>1, <2>2, <3>1
  <2> QED BY <2>3 DEF F
<1>14. upTo = F(upTo) BY <1>13 DEF upTo
<1> DEFINE E == {i \in Nat : i <= n => upTo[i] = g[i]}
<1>15. 0 \in E
  <2>1. upTo[0] = [out |-> <<>>, cur |-> t.lo] /\ g[0] = [out |-> <<>>, cur |-> t.lo] BY <1>1, <1>13, <1>14 DEF F
  <2> QED BY <2>1
<1>16. ASSUME NEW i \in Nat, i \in E PROVE i + 1 \in E
  <2> SUFFICES ASSUME i + 1 <= n PROVE upTo[i + 1] = g[i + 1] OBVIOUS
  <2>1. i + 1 \in 1 .. n /\ i + 1 \in 0 .. n /\ (i + 1) - 1 = i /\ i + 1 # 0 /\ upTo[i] = g[i] BY <1>1, <1>16
  <2>2. upTo[i + 1] = CutRange(upTo[i], xs[i + 1], t)
    <3>1. \A j \in 0 .. n : j # 0 => upTo[j] = CutRange(upTo[j - 1], xs[j], t) BY <1>14 DEF F
    <3> QED BY <2>1, <3>1
  <2>3. g[i + 1] = CutRange(g[i], xs[i + 1], t)
    <3>1. \A j \in 0 .. n : j # 0 => g[j] = CutRange(g[j - 1], xs[j], t) BY <1>13 DEF F
    <3> QED BY <2>1, <3>1
  <2> QED BY <2>1, <2>2, <2>3
<1> HIDE DEF E
<1>17. \A i \in Nat : i \in E BY <1>15, <1>16, Climb
<1>18. upTo[n] = g[n] BY <1>1, <1>17 DEF E
<1>19. n \in 0 .. n BY <1>1
<1>20. end \in [out : Seq(Rgs), cur : Int] /\ CutSoFar(end, xs, n, t) BY <1>7, <1>12, <1>18, <1>19 DEF B
<1> HIDE DEF end
<1>21. Addresses(end.out) = {a \in Hull(t) : a < end.cur /\ a \notin Until(xs, n)} BY <1>20 DEF CutSoFar
<1>22. Addresses(xs) = Until(xs, n) BY UntilAll DEF n
<1>23. end.out \in Seq(Rgs) /\ end.cur \in Int /\ t.lo <= end.cur /\ Spaced(end.out, 1) BY <1>20 DEF CutSoFar
<1>24. CASE end.cur <= t.hi
  <2> DEFINE last == [lo |-> end.cur, hi |-> t.hi]
  <2>1. last \in Rgs /\ last.lo = end.cur /\ last.hi = t.hi BY <1>1, <1>23, <1>24 DEF Rgs
  <2>2. LeftOf(t, xs) = Append(end.out, last) BY <1>4, <1>24
  <2> HIDE DEF last
  <2>3. end.out # <<>> => end.out[Len(end.out)].hi + 1 < last.lo BY <1>20, <2>1 DEF CutSoFar
  <2>4. Append(end.out, last) \in Seq(Rgs) /\ Spaced(Append(end.out, last), 1)
    BY <1>23, <2>1, <2>3, AppendAddresses, AppendSpaced
  <2>5. Addresses(Append(end.out, last)) = Addresses(end.out) \cup {a \in Int : last.lo <= a /\ a <= last.hi}
    BY <1>23, <2>1, AppendAddresses
  <2>6. ASSUME NEW a \in Int, end.cur <= a, a <= t.hi PROVE a \in Hull(t) /\ a \notin Until(xs, n)
    <3>1. a \in Hull(t) BY <1>1, <1>23, <2>6 DEF Hull
    <3>2. \A k \in 1 .. n : xs[k].hi \in Int /\ xs[k].lo \in Int BY AddressIn DEF n
    <3>3. \A k \in 1 .. n : xs[k].hi < end.cur \/ xs[k].lo > t.hi BY <1>20 DEF CutSoFar
    <3>4. ASSUME NEW k \in 1 .. n PROVE ~(xs[k].lo <= a /\ a <= xs[k].hi)
      <4>1. xs[k].hi \in Int /\ xs[k].lo \in Int /\ (xs[k].hi < end.cur \/ xs[k].lo > t.hi) BY <3>2, <3>3
      <4> QED BY <1>1, <1>23, <2>6, <4>1
    <3> QED BY <3>1, <3>4 DEF Until
  <2>7. \A a \in Hull(t) : a \in Int /\ a <= t.hi /\ (a < end.cur \/ end.cur <= a) BY <1>23 DEF Hull
  <2>8. Addresses(Append(end.out, last)) = Hull(t) \ Until(xs, n) BY <1>21, <2>1, <2>5, <2>6, <2>7
  <2> QED BY <1>22, <2>2, <2>4, <2>8
<1>25. CASE ~(end.cur <= t.hi)
  <2>1. LeftOf(t, xs) = end.out BY <1>4, <1>25
  <2>2. \A a \in Hull(t) : a < end.cur BY <1>1, <1>23, <1>25 DEF Hull
  <2>3. Addresses(end.out) = Hull(t) \ Until(xs, n) BY <1>21, <2>2
  <2> QED BY <1>22, <1>23, <2>1, <2>3
<1> QED BY <1>24, <1>25

(***************************************************************************)
(* Sequences one after the other.                                          *)
(***************************************************************************)

\* Two sequences, element by element.
LEMMA ConcatHolds ==
  ASSUME NEW T, NEW a \in Seq(T), NEW b \in Seq(T)
  PROVE  /\ a \o b \in Seq(T) /\ Len(a \o b) = Len(a) + Len(b) /\ Len(a) \in Nat /\ Len(b) \in Nat
         /\ \A k \in 1 .. Len(a) : k \in 1 .. Len(a \o b) /\ (a \o b)[k] = a[k]
         /\ \A k \in 1 .. Len(b) : k + Len(a) \in 1 .. Len(a \o b) /\ (a \o b)[k + Len(a)] = b[k]
         /\ \A k \in 1 .. Len(a \o b) :
               k \notin 1 .. Len(a) => k - Len(a) \in 1 .. Len(b) /\ (a \o b)[k] = b[k - Len(a)]
<1>1. a \o b \in Seq(T) /\ Len(a \o b) = Len(a) + Len(b) /\ Len(a) \in Nat /\ Len(b) \in Nat OBVIOUS
<1>2. \A k \in 1 .. Len(a) : (a \o b)[k] = a[k] OBVIOUS
<1>3. \A k \in 1 .. Len(b) : (a \o b)[k + Len(a)] = b[k]
  <2>1. ASSUME NEW k \in 1 .. Len(b) PROVE (a \o b)[k + Len(a)] = b[k]
    <3>1. k + Len(a) \in 1 .. Len(a) + Len(b) /\ ~(k + Len(a) <= Len(a)) /\ (k + Len(a)) - Len(a) = k BY <1>1
    <3> QED BY <1>1, <3>1
  <2> QED BY <2>1
<1>4. ASSUME NEW k \in 1 .. Len(a \o b), k \notin 1 .. Len(a)
      PROVE  k - Len(a) \in 1 .. Len(b) /\ (a \o b)[k] = b[k - Len(a)]
  <2>1. k - Len(a) \in 1 .. Len(b) /\ (k - Len(a)) + Len(a) = k BY <1>1, <1>4
  <2> QED BY <1>3, <2>1
<1>5. (\A k \in 1 .. Len(a) : k \in 1 .. Len(a \o b)) /\ \A k \in 1 .. Len(b) : k + Len(a) \in 1 .. Len(a \o b) BY <1>1
<1> QED BY <1>1, <1>2, <1>3, <1>4, <1>5

\* The elements of the parts, in their order.
Chained(q, ss, T, R) ==
    /\ q \in Seq(T)
    /\ \A k \in 1 .. Len(q) : \E i \in 1 .. Len(ss) : \E j \in 1 .. Len(ss[i]) : q[k] = ss[i][j]
    /\ \A i \in 1 .. Len(ss) : \A j \in 1 .. Len(ss[i]) : \E k \in 1 .. Len(q) : q[k] = ss[i][j]
    /\ \A j, k \in 1 .. Len(q) : j < k => <<q[j], q[k]>> \in R

\* Whatever holds of every two elements in the order of the parts holds of the whole.
LEMMA FlattenHolds ==
  ASSUME NEW T, NEW R, NEW ss \in Seq(Seq(T)),
         \A i \in 1 .. Len(ss) : \A j, k \in 1 .. Len(ss[i]) : j < k => <<ss[i][j], ss[i][k]>> \in R,
         \A h, i \in 1 .. Len(ss) : h < i =>
             \A j \in 1 .. Len(ss[h]), k \in 1 .. Len(ss[i]) : <<ss[h][j], ss[i][k]>> \in R
  PROVE  Chained(FlattenSeq(ss), ss, T, R)
<1> DEFINE n == Len(ss)
<1>1. PICK g \in [0 .. n -> Seq(T)] :
        g[0] = <<>> /\ FlattenSeq(ss) = g[n] /\ \A i \in 1 .. n : g[i] = g[i - 1] \o ss[i]
  BY FlattenDef
<1> DEFINE From(m) == \A k \in 1 .. Len(g[m]) : \E i \in 1 .. m : \E j \in 1 .. Len(ss[i]) : g[m][k] = ss[i][j]
           Into(m) == \A i \in 1 .. m : \A j \in 1 .. Len(ss[i]) : \E k \in 1 .. Len(g[m]) : g[m][k] = ss[i][j]
           Order(m) == \A j, k \in 1 .. Len(g[m]) : j < k => <<g[m][j], g[m][k]>> \in R
           S == {m \in Nat : m <= n => From(m) /\ Into(m) /\ Order(m)}
<1>2. n \in Nat /\ \A i \in 1 .. n : ss[i] \in Seq(T) OBVIOUS
<1>3. \A i \in 1 .. n : \A j, k \in 1 .. Len(ss[i]) : j < k => <<ss[i][j], ss[i][k]>> \in R OBVIOUS
<1>4. \A h, i \in 1 .. n : h < i => \A j \in 1 .. Len(ss[h]), k \in 1 .. Len(ss[i]) : <<ss[h][j], ss[i][k]>> \in R OBVIOUS
<1> HIDE DEF n
<1>5. 0 \in S
  <2>1. Len(g[0]) = 0 BY <1>1
  <2> QED BY <2>1
<1>6. ASSUME NEW m \in Nat, m \in S PROVE m + 1 \in S
  <2> SUFFICES ASSUME m + 1 <= n PROVE From(m + 1) /\ Into(m + 1) /\ Order(m + 1)
    <3> HIDE DEF From, Into, Order
    <3>1. m + 1 \in Nat OBVIOUS
    <3> QED BY <3>1
  <2>1. From(m) /\ Into(m) /\ Order(m)
    <3> HIDE DEF From, Into, Order
    <3> QED BY <1>2, <1>6
  <2>2. m + 1 \in 1 .. n /\ (m + 1) - 1 = m /\ m \in 0 .. n BY <1>2
  <2> DEFINE a == g[m]
             b == ss[m + 1]
             c == a \o b
  <2>3. a \in Seq(T) /\ b \in Seq(T) BY <1>1, <1>2, <2>2
  <2>4. g[m + 1] = c BY <1>1, <2>2
  <2>5. /\ Len(c) = Len(a) + Len(b) /\ Len(a) \in Nat /\ Len(b) \in Nat
        /\ \A k \in 1 .. Len(a) : k \in 1 .. Len(c) /\ c[k] = a[k]
        /\ \A k \in 1 .. Len(b) : k + Len(a) \in 1 .. Len(c) /\ c[k + Len(a)] = b[k]
        /\ \A k \in 1 .. Len(c) : k \notin 1 .. Len(a) => k - Len(a) \in 1 .. Len(b) /\ c[k] = b[k - Len(a)]
    <3> HIDE DEF a, b
    <3> QED BY <2>3, ConcatHolds
  <2> HIDE DEF c
  <2>6. \A i \in 1 .. m : i \in 1 .. n /\ i \in 1 .. m + 1 /\ i < m + 1 BY <1>2, <2>2
  <2>7. \A i \in 1 .. m + 1 : i \in 1 .. m \/ i = m + 1 BY <2>2
  <2>8. m + 1 \in 1 .. m + 1 BY <2>2
  <2>9. From(m + 1)
    <3> SUFFICES ASSUME NEW k \in 1 .. Len(c) PROVE \E i \in 1 .. m + 1 : \E j \in 1 .. Len(ss[i]) : c[k] = ss[i][j]
      BY <2>4
    <3>1. CASE k \in 1 .. Len(a)
      <4>1. \E i \in 1 .. m : \E j \in 1 .. Len(ss[i]) : a[k] = ss[i][j] BY <2>1, <3>1
      <4> QED BY <2>5, <2>6, <3>1, <4>1
    <3>2. CASE k \notin 1 .. Len(a) BY <2>5, <2>8, <3>2
    <3> QED BY <3>1, <3>2
  <2>10. Into(m + 1)
    <3> SUFFICES ASSUME NEW i \in 1 .. m + 1, NEW j \in 1 .. Len(ss[i]) PROVE \E k \in 1 .. Len(c) : c[k] = ss[i][j]
      BY <2>4
    <3>1. CASE i \in 1 .. m
      <4>1. \E k \in 1 .. Len(a) : a[k] = ss[i][j] BY <2>1, <3>1
      <4> QED BY <2>5, <4>1
    <3>2. CASE i = m + 1 BY <2>5, <3>2
    <3> QED BY <2>7, <3>1, <3>2
  <2>11. Order(m + 1)
    <3> SUFFICES ASSUME NEW j \in 1 .. Len(c), NEW k \in 1 .. Len(c), j < k PROVE <<c[j], c[k]>> \in R
      BY <2>4
    <3>0. j < k OBVIOUS
    <3>1. CASE k \in 1 .. Len(a)
      <4>1. j \in 1 .. Len(a) BY <2>5, <3>1
      <4>2. <<a[j], a[k]>> \in R BY <2>1, <3>1, <4>1
      <4> QED BY <2>5, <3>1, <4>1, <4>2
    <3>2. CASE j \in 1 .. Len(a) /\ k \notin 1 .. Len(a)
      <4>1. PICK i \in 1 .. m : \E jj \in 1 .. Len(ss[i]) : a[j] = ss[i][jj] BY <2>1, <3>2
      <4>2. PICK jj \in 1 .. Len(ss[i]) : a[j] = ss[i][jj] BY <4>1
      <4>3. k - Len(a) \in 1 .. Len(b) /\ c[k] = b[k - Len(a)] BY <2>5, <3>2
      <4>4. <<ss[i][jj], ss[m + 1][k - Len(a)]>> \in R BY <1>4, <2>2, <2>6, <4>3
      <4> QED BY <2>5, <3>2, <4>2, <4>3, <4>4
    <3>3. CASE j \notin 1 .. Len(a) /\ k \notin 1 .. Len(a)
      <4>1. j - Len(a) \in 1 .. Len(b) /\ k - Len(a) \in 1 .. Len(b) BY <2>5, <3>3
      <4>3. j - Len(a) < k - Len(a)
        <5>1. Len(a) \in Int /\ j \in Int /\ k \in Int BY <2>5
        <5> QED BY <3>0, <5>1
      <4>2. <<ss[m + 1][j - Len(a)], ss[m + 1][k - Len(a)]>> \in R BY <1>3, <2>2, <4>1, <4>3
      <4> QED BY <2>5, <3>3, <4>1, <4>2
    <3> QED BY <3>1, <3>2, <3>3
  <2> QED BY <2>9, <2>10, <2>11
<1> HIDE DEF S
<1>7. \A m \in Nat : m \in S BY <1>5, <1>6, Climb
<1>8. From(n) /\ Into(n) /\ Order(n)
  <2> HIDE DEF From, Into, Order
  <2> QED BY <1>2, <1>7 DEF S
<1>9. n \in 0 .. n BY <1>2
<1>10. g[n] \in Seq(T) BY <1>1, <1>9
<1> QED BY <1>1, <1>8, <1>10 DEF n, Chained

\* Pairs of ranges in order, "gap" apart.
Gaps(gap) == {rr \in Rgs \X Rgs : rr[1].hi + gap < rr[2].lo}

\* Ranges put one after the other hold what each of them holds,
LEMMA FlattenRanges ==
  ASSUME NEW ss \in Seq(Seq(Rgs))
  PROVE  /\ FlattenSeq(ss) \in Seq(Rgs)
         /\ Addresses(FlattenSeq(ss)) = UNION {Addresses(ss[i]) : i \in 1 .. Len(ss)}
<1> DEFINE R == Rgs \X Rgs
           q == FlattenSeq(ss)
<1>1. \A i \in 1 .. Len(ss) : ss[i] \in Seq(Rgs) /\ \A j \in 1 .. Len(ss[i]) : ss[i][j] \in Rgs OBVIOUS
<1>2. \A i \in 1 .. Len(ss) : \A j, k \in 1 .. Len(ss[i]) : j < k => <<ss[i][j], ss[i][k]>> \in R BY <1>1
<1>3. \A h, i \in 1 .. Len(ss) : h < i =>
             \A j \in 1 .. Len(ss[h]), k \in 1 .. Len(ss[i]) : <<ss[h][j], ss[i][k]>> \in R BY <1>1
<1> HIDE DEF R
<1>c. Chained(q, ss, Rgs, R) BY <1>2, <1>3, FlattenHolds
<1>4. /\ q \in Seq(Rgs)
      /\ \A k \in 1 .. Len(q) : \E i \in 1 .. Len(ss) : \E j \in 1 .. Len(ss[i]) : q[k] = ss[i][j]
      /\ \A i \in 1 .. Len(ss) : \A j \in 1 .. Len(ss[i]) : \E k \in 1 .. Len(q) : q[k] = ss[i][j]
  BY <1>c DEF Chained
<1> HIDE DEF q
<1>5. \A a : a \in Addresses(q) <=> a \in Int /\ \E k \in 1 .. Len(q) : q[k].lo <= a /\ a <= q[k].hi BY <1>4, AddressIn
<1>6. \A i \in 1 .. Len(ss) : \A a : a \in Addresses(ss[i]) <=> a \in Int /\ \E j \in 1 .. Len(ss[i]) : ss[i][j].lo <= a /\ a <= ss[i][j].hi
  BY <1>1, AddressIn
<1>7. ASSUME NEW a, a \in Addresses(q) PROVE \E i \in 1 .. Len(ss) : a \in Addresses(ss[i])
  <2>1. PICK k \in 1 .. Len(q) : a \in Int /\ q[k].lo <= a /\ a <= q[k].hi BY <1>5, <1>7
  <2>2. PICK i \in 1 .. Len(ss) : \E j \in 1 .. Len(ss[i]) : q[k] = ss[i][j] BY <1>4
  <2> QED BY <1>6, <2>1, <2>2
<1>8. ASSUME NEW i \in 1 .. Len(ss), NEW a, a \in Addresses(ss[i]) PROVE a \in Addresses(q)
  <2>1. PICK j \in 1 .. Len(ss[i]) : a \in Int /\ ss[i][j].lo <= a /\ a <= ss[i][j].hi BY <1>6, <1>8
  <2>2. PICK k \in 1 .. Len(q) : q[k] = ss[i][j] BY <1>4
  <2> QED BY <1>5, <2>1, <2>2
<1> QED BY <1>4, <1>7, <1>8 DEF q

\* and are apart when those of each are, and each from the next.
LEMMA FlattenSpaced ==
  ASSUME NEW ss \in Seq(Seq(Rgs)), NEW gap \in Int,
         \A i \in 1 .. Len(ss) : Spaced(ss[i], gap),
         \A h, i \in 1 .. Len(ss) : h < i =>
             \A j \in 1 .. Len(ss[h]), k \in 1 .. Len(ss[i]) : ss[h][j].hi + gap < ss[i][k].lo
  PROVE  Spaced(FlattenSeq(ss), gap)
<1> DEFINE R == Gaps(gap)
           q == FlattenSeq(ss)
<1>1. \A i \in 1 .. Len(ss) : \A j \in 1 .. Len(ss[i]) : ss[i][j] \in Rgs OBVIOUS
<1>2. \A i \in 1 .. Len(ss) : \A j, k \in 1 .. Len(ss[i]) : j < k => <<ss[i][j], ss[i][k]>> \in R BY <1>1 DEF Gaps, Spaced
<1>3. \A h, i \in 1 .. Len(ss) : h < i =>
             \A j \in 1 .. Len(ss[h]), k \in 1 .. Len(ss[i]) : <<ss[h][j], ss[i][k]>> \in R BY <1>1 DEF Gaps
<1> HIDE DEF R
<1>c. Chained(q, ss, Rgs, R) BY <1>2, <1>3, FlattenHolds
<1>4. \A j, k \in 1 .. Len(q) : j < k => <<q[j], q[k]>> \in R BY <1>c DEF Chained
<1> HIDE DEF q
<1>5. \A j, k \in 1 .. Len(q) : j < k => q[j].hi + gap < q[k].lo BY <1>4 DEF R, Gaps
<1> QED BY <1>5 DEF Spaced, q

\* As TLA+ writes a range.
LEMMA HullIs == ASSUME NEW r \in Rgs PROVE Hull(r) = r.lo .. r.hi
  BY DEF Hull, Rgs

\* Subtracting leaves exactly the addresses that are not excluded, in ranges
\* that neither overlap nor touch, whatever order the ranges come in
\* (subtractRanges of chunks.go and targetPattern.ts).
THEOREM SubtractHolds ==
  ASSUME NEW ts \in Seq(Rgs), NEW xs \in Seq(Rgs)
  PROVE  /\ SubtractRanges(ts, xs) \in Seq(Rgs) /\ Spaced(SubtractRanges(ts, xs), 1)
         /\ Addresses(SubtractRanges(ts, xs)) = Addresses(ts) \ Addresses(xs)
<1> DEFINE m == MergeRanges(ts)
           x == MergeRanges(xs)
           ss == [i \in DOMAIN m |-> LeftOf(m[i], x)]
<1>1. m \in Seq(Rgs) /\ Spaced(m, 1) /\ Addresses(m) = Addresses(ts) BY MergeHolds
<1>2. x \in Seq(Rgs) /\ Spaced(x, 1) /\ Addresses(x) = Addresses(xs) BY MergeHolds
<1>3. SubtractRanges(ts, xs) = FlattenSeq(ss) BY DEF SubtractRanges
<1> HIDE DEF m, x
<1>4. \A i \in 1 .. Len(m) : m[i] \in Rgs /\ m[i].lo \in Int /\ m[i].hi \in Int /\ m[i].lo <= m[i].hi BY <1>1, AddressIn
<1>5. \A i \in 1 .. Len(m) : /\ LeftOf(m[i], x) \in Seq(Rgs) /\ Spaced(LeftOf(m[i], x), 1)
                             /\ Addresses(LeftOf(m[i], x)) = Hull(m[i]) \ Addresses(x)
  BY <1>2, <1>4, LeftOfHolds
<1>6. ss \in Seq(Seq(Rgs)) /\ Len(ss) = Len(m) /\ \A i \in 1 .. Len(m) : ss[i] = LeftOf(m[i], x)
  <2>1. DOMAIN m = 1 .. Len(m) /\ Len(m) \in Nat BY <1>1
  <2>2. ss \in [1 .. Len(m) -> Seq(Rgs)] BY <1>5, <2>1
  <2> QED BY <2>1, <2>2
<1> HIDE DEF ss
<1>7. \A h, i \in 1 .. Len(ss) : h < i => \A j \in 1 .. Len(ss[h]), k \in 1 .. Len(ss[i]) : ss[h][j].hi + 1 < ss[i][k].lo
  <2> SUFFICES ASSUME NEW h \in 1 .. Len(ss), NEW i \in 1 .. Len(ss), h < i,
                      NEW j \in 1 .. Len(ss[h]), NEW k \in 1 .. Len(ss[i])
               PROVE  ss[h][j].hi + 1 < ss[i][k].lo
    OBVIOUS
  <2>1. m[h].hi + 1 < m[i].lo BY <1>1, <1>6 DEF Spaced
  <2>2. ss[h] \in Seq(Rgs) /\ ss[i] \in Seq(Rgs) BY <1>6
  <2>3. /\ ss[h][j].lo \in Int /\ ss[h][j].hi \in Int /\ ss[h][j].lo <= ss[h][j].hi
        /\ ss[i][k].lo \in Int /\ ss[i][k].hi \in Int /\ ss[i][k].lo <= ss[i][k].hi
    BY <2>2, AddressIn
  <2>4. ss[h][j].hi \in Addresses(ss[h]) /\ ss[i][k].lo \in Addresses(ss[i])
    <3>1. ss[h][j].hi \in Addresses(ss[h]) BY <2>2, <2>3, AddressIn
    <3>2. ss[i][k].lo \in Addresses(ss[i]) BY <2>2, <2>3, AddressIn
    <3> QED BY <3>1, <3>2
  <2>5. ss[h][j].hi \in Hull(m[h]) /\ ss[i][k].lo \in Hull(m[i]) BY <1>5, <1>6, <2>4
  <2>6. ss[h][j].hi <= m[h].hi /\ m[i].lo <= ss[i][k].lo BY <2>5 DEF Hull
  <2>7. m[h].hi \in Int /\ m[i].lo \in Int BY <1>4, <1>6
  <2>8. \A a, b, c, d \in Int : a <= b /\ b + 1 < c /\ c <= d => a + 1 < d OBVIOUS
  <2> QED BY <2>1, <2>3, <2>6, <2>7, <2>8
<1>8. \A i \in 1 .. Len(ss) : Spaced(ss[i], 1) BY <1>5, <1>6
<1>9. FlattenSeq(ss) \in Seq(Rgs) /\ Addresses(FlattenSeq(ss)) = UNION {Addresses(ss[i]) : i \in 1 .. Len(ss)}
  BY <1>6, FlattenRanges
<1>10. Spaced(FlattenSeq(ss), 1)
  <2>1. ss \in Seq(Seq(Rgs)) /\ 1 \in Int BY <1>6
  <2> QED BY <1>7, <1>8, <2>1, FlattenSpaced
<1>11. UNION {Addresses(ss[i]) : i \in 1 .. Len(ss)} = Addresses(m) \ Addresses(x)
  <2>1. \A i \in 1 .. Len(m) : Hull(m[i]) = m[i].lo .. m[i].hi BY <1>4, HullIs
  <2>2. Addresses(m) = UNION {Hull(m[i]) : i \in 1 .. Len(m)}
    <3>1. DOMAIN m = 1 .. Len(m) BY <1>1
    <3> QED BY <2>1, <3>1 DEF Addresses
  <2>3. \A i \in 1 .. Len(m) : Addresses(ss[i]) = Hull(m[i]) \ Addresses(x) BY <1>5, <1>6
  <2>4. ASSUME NEW a, a \in Addresses(m) \ Addresses(x) PROVE \E i \in 1 .. Len(m) : a \in Addresses(ss[i])
    BY <2>2, <2>3, <2>4
  <2>5. ASSUME NEW i \in 1 .. Len(m), NEW a \in Addresses(ss[i]) PROVE a \in Addresses(m) \ Addresses(x)
    BY <2>2, <2>3
  <2>6. Len(ss) = Len(m) BY <1>6
  <2> HIDE DEF ss
  <2> QED BY <2>4, <2>5, <2>6
<1> QED BY <1>1, <1>2, <1>3, <1>9, <1>10, <1>11

(***************************************************************************)
(* How many addresses.                                                     *)
(***************************************************************************)
LEMMA AmountAppend ==
  ASSUME NEW rs \in Seq(Rgs), NEW r \in Rgs
  PROVE  Amount(Append(rs, r)) = Amount(rs) + Size(r)
<1> DEFINE q == Append(rs, r)
           n == Len(rs)
<1>1. q \in Seq(Rgs) /\ Len(q) = n + 1 /\ n \in Nat /\ q[n + 1] = r /\ \A i \in 1 .. n : q[i] = rs[i] OBVIOUS
<1> HIDE DEF q
<1>2. PICK g \in [0 .. n -> Int] : g[0] = 0 /\ Amount(rs) = g[n] /\ \A i \in 1 .. n : g[i] = g[i - 1] + Size(rs[i])
  BY AmountDef
<1>3. PICK h \in [0 .. Len(q) -> Int] :
        h[0] = 0 /\ Amount(q) = h[Len(q)] /\ \A i \in 1 .. Len(q) : h[i] = h[i - 1] + Size(q[i])
  BY <1>1, AmountDef
<1> HIDE DEF n
<1> DEFINE S == {i \in Nat : i <= n => h[i] = g[i]}
<1>4. 0 \in S BY <1>2, <1>3
<1>5. ASSUME NEW i \in Nat, i \in S PROVE i + 1 \in S
  <2> SUFFICES ASSUME i + 1 <= n PROVE h[i + 1] = g[i + 1] OBVIOUS
  <2>4. i <= n /\ h[i] = g[i] BY <1>1, <1>5
  <2>1. i + 1 \in 1 .. n /\ i + 1 \in 1 .. Len(q) /\ (i + 1) - 1 = i /\ h[i] = g[i] BY <1>1, <2>4
  <2>2. h[i + 1] = h[i] + Size(q[i + 1]) BY <1>3, <2>1
  <2>3. g[i + 1] = g[i] + Size(rs[i + 1]) BY <1>2, <2>1
  <2> QED BY <1>1, <2>1, <2>2, <2>3
<1> HIDE DEF S
<1>6. \A i \in Nat : i \in S BY <1>4, <1>5, Climb
<1>7. h[n] = g[n] BY <1>1, <1>6 DEF S
<1>8. n + 1 \in 1 .. Len(q) /\ (n + 1) - 1 = n BY <1>1
<1>9. h[n + 1] = h[n] + Size(q[n + 1]) BY <1>3, <1>8
<1> QED BY <1>1, <1>2, <1>3, <1>7, <1>9 DEF q

\* No ranges, no addresses.
LEMMA AmountNone == Amount(<<>>) = 0
<1>1. <<>> \in Seq(Rgs) /\ Len(<<>>) = 0 OBVIOUS
<1>2. PICK g \in [0 .. Len(<<>>) -> Int] : g[0] = 0 /\ Amount(<<>>) = g[Len(<<>>)] BY <1>1, AmountDef
<1> QED BY <1>1, <1>2

\* The amount of ranges that do not overlap is the number of their addresses.
LEMMA AmountHolds ==
  ASSUME NEW rs \in Seq(Rgs)
  PROVE  /\ Amount(rs) \in Nat /\ (rs # <<>> => Amount(rs) > 0)
         /\ Spaced(rs, 0) => IsFiniteSet(Addresses(rs)) /\ Cardinality(Addresses(rs)) = Amount(rs)
<1> DEFINE n == Len(rs)
<1>1. n \in Nat /\ \A i \in 1 .. n : rs[i] \in Rgs /\ rs[i].lo \in Int /\ rs[i].hi \in Int /\ rs[i].lo <= rs[i].hi BY AddressIn
<1>2. PICK g \in [0 .. n -> Int] : g[0] = 0 /\ Amount(rs) = g[n] /\ \A i \in 1 .. n : g[i] = g[i - 1] + Size(rs[i])
  BY AmountDef
<1>3. \A i \in 1 .. n : Size(rs[i]) \in Nat /\ Size(rs[i]) > 0 BY <1>1 DEF Size
<1> DEFINE P(i) == /\ g[i] \in Nat /\ i <= g[i]
                   /\ Spaced(rs, 0) => IsFiniteSet(Until(rs, i)) /\ Cardinality(Until(rs, i)) = g[i]
           S == {i \in Nat : i <= n => P(i)}
<1>a. Until(rs, n) = Addresses(rs) BY UntilAll
<1>b. \A i \in 1 .. n : Until(rs, i) = Until(rs, i - 1) \cup Hull(rs[i]) BY UntilNext DEF Hull
<1>c. n = 0 => rs = <<>> OBVIOUS
<1>d. Spaced(rs, 0) => \A i \in 1 .. n : \A k \in 1 .. i - 1 : rs[k].hi < rs[i].lo
  <2> SUFFICES ASSUME Spaced(rs, 0), NEW i \in 1 .. n, NEW k \in 1 .. i - 1 PROVE rs[k].hi < rs[i].lo OBVIOUS
  <2>1. k \in 1 .. n /\ k < i BY <1>1
  <2>2. rs[k].hi + 0 < rs[i].lo BY <2>1 DEF Spaced
  <2> QED BY <1>1, <2>1, <2>2
<1> HIDE DEF n
<1>4. 0 \in S
  <2>1. IsFiniteSet({}) /\ Cardinality({}) = 0 BY FS_EmptySet
  <2>2. Until(rs, 0) = {} BY UntilNone
  <2>3. IsFiniteSet(Until(rs, 0)) /\ Cardinality(Until(rs, 0)) = 0 BY <2>1, <2>2, Zenon
  <2>4. P(0) BY <1>2, <2>3
  <2> HIDE DEF P
  <2> QED BY <2>4
<1>5. ASSUME NEW i \in Nat, i \in S PROVE i + 1 \in S
  <2> SUFFICES ASSUME i + 1 <= n PROVE P(i + 1) OBVIOUS
  <2>1. i + 1 \in 1 .. n /\ (i + 1) - 1 = i BY <1>1
  <2>2. P(i)
    <3> HIDE DEF P
    <3> QED BY <1>1, <1>5
  <2>3. g[i + 1] = g[i] + Size(rs[i + 1]) BY <1>2, <2>1
  <2>4. Size(rs[i + 1]) \in Nat /\ Size(rs[i + 1]) > 0 BY <1>3, <2>1
  <2>5. g[i + 1] \in Nat /\ i + 1 <= g[i + 1] BY <2>2, <2>3, <2>4
  <2>6. ASSUME Spaced(rs, 0) PROVE IsFiniteSet(Until(rs, i + 1)) /\ Cardinality(Until(rs, i + 1)) = g[i + 1]
    <3> DEFINE U == Until(rs, i)
               H == Hull(rs[i + 1])
    <3>1. Until(rs, i + 1) = U \cup H BY <1>b, <2>1
    <3>2. IsFiniteSet(U) /\ Cardinality(U) = g[i] BY <2>2, <2>6
    <3>3. IsFiniteSet(H) /\ Cardinality(H) = Size(rs[i + 1])
      <4> DEFINE r == rs[i + 1]
      <4>1. r \in Rgs /\ r.lo \in Int /\ r.hi \in Int /\ r.lo <= r.hi BY <1>1, <2>1
      <4>2. H = r.lo .. r.hi BY <4>1, HullIs
      <4>3. IsFiniteSet(r.lo .. r.hi) /\ Cardinality(r.lo .. r.hi) = IF r.lo > r.hi THEN 0 ELSE r.hi - r.lo + 1
        BY <4>1, FS_Interval
      <4> HIDE DEF H
      <4> QED BY <4>1, <4>2, <4>3 DEF Size
    <3>4. U \cap H = {}
      <4> SUFFICES ASSUME NEW a \in U, a \in H PROVE FALSE OBVIOUS
      <4>1. PICK k \in 1 .. i : rs[k].lo <= a /\ a <= rs[k].hi BY DEF Until
      <4>2. a \in Int /\ rs[i + 1].lo <= a BY DEF Hull
      <4>3. k \in 1 .. (i + 1) - 1 /\ k \in 1 .. n BY <1>1, <2>1
      <4>4. rs[k].hi < rs[i + 1].lo BY <1>d, <2>1, <2>6, <4>3
      <4>5. rs[k].hi \in Int /\ rs[i + 1].lo \in Int BY <1>1, <2>1, <4>3
      <4> QED BY <4>1, <4>2, <4>4, <4>5
    <3> HIDE DEF U, H
    <3>5. IsFiniteSet(U \cup H) /\ Cardinality(U \cup H) = Cardinality(U) + Cardinality(H) - Cardinality(U \cap H)
      BY <3>2, <3>3, FS_Union
    <3>6. Cardinality(U \cap H) = 0 BY <3>4, FS_EmptySet
    <3>7. g[i] \in Nat BY <2>2
    <3>8. Cardinality(U \cup H) = g[i] + Size(rs[i + 1]) BY <2>4, <3>2, <3>3, <3>5, <3>6, <3>7
    <3> QED BY <2>3, <3>1, <3>5, <3>8
  <2> QED BY <2>5, <2>6
<1> HIDE DEF S
<1>6. \A i \in Nat : i \in S BY <1>4, <1>5, Climb
<1>7. P(n)
  <2> HIDE DEF P
  <2> QED BY <1>1, <1>6 DEF S
<1>8. rs # <<>> => n > 0 BY <1>1, <1>c
<1> QED BY <1>1, <1>2, <1>7, <1>8, <1>a

(***************************************************************************)
(* Octets.                                                                 *)
(***************************************************************************)

\* Quotient and remainder,
LEMMA Division ==
  ASSUME NEW n \in Int, NEW d \in Nat \ {0}
  PROVE  /\ n \div d \in Int /\ n % d \in Nat /\ n % d < d
         /\ n = (n \div d) * d + (n % d)
<1>1. n \div d \in Int /\ n % d \in Int /\ 0 <= n % d /\ n % d < d OBVIOUS
<1>2. n = d * (n \div d) + (n % d) OBVIOUS
<1>3. d * (n \div d) = (n \div d) * d
  <2>1. \A x, y \in Int : x * y = y * x OBVIOUS
  <2> QED BY <1>1, <2>1
<1> QED BY <1>1, <1>2, <1>3

\* which are the only ones,
LEMMA DivideIs ==
  ASSUME NEW n \in Int, NEW d \in Nat \ {0}, NEW q \in Int, q * d <= n, n < q * d + d
  PROVE  n \div d = q
<1>1. n = (n \div d) * d + (n % d) /\ 0 <= n % d /\ n % d < d /\ n % d \in Int /\ n \div d \in Int BY Division
<1>2. ~(n \div d < q)
  <2>1. n \div d < q => (n \div d) + 1 <= q BY <1>1
  <2>2. n \div d < q => ((n \div d) + 1) * d <= q * d BY <1>1, <2>1
  <2> QED BY <1>1, <2>2
<1>3. ~(q < n \div d)
  <2>1. q < n \div d => q + 1 <= n \div d BY <1>1
  <2>2. q < n \div d => (q + 1) * d <= (n \div d) * d BY <1>1, <2>1
  <2> QED BY <1>1, <2>2
<1> QED BY <1>1, <1>2, <1>3

\* and by a product as by its factors.
LEMMA DivideTwice ==
  ASSUME NEW a \in Nat, NEW b \in Nat \ {0}, NEW w \in Nat \ {0}
  PROVE  a \div (b * w) = (a \div b) \div w
<1> DEFINE q == a \div b
           r == a % b
           q2 == q \div w
           r2 == q % w
<1>1. a = q * b + r /\ 0 <= r /\ r <= b - 1 /\ q \in Nat /\ r \in Nat OBVIOUS
<1> HIDE DEF q, r
<1>2. q = q2 * w + r2 /\ 0 <= r2 /\ r2 <= w - 1 /\ q2 \in Nat /\ r2 \in Nat BY <1>1
<1> HIDE DEF q2, r2
<1>3. b * w \in Nat \ {0} /\ q2 * (b * w) = (q2 * w) * b BY <1>2
<1>4. a = q2 * (b * w) + (r2 * b + r) BY <1>1, <1>2, <1>3
<1>5. r2 * b <= (w - 1) * b BY <1>2
<1>6. 0 <= r2 * b + r /\ r2 * b + r < b * w BY <1>1, <1>2, <1>5
<1>7. q2 * (b * w) <= a /\ a < q2 * (b * w) + b * w BY <1>1, <1>2, <1>3, <1>4, <1>6
<1> DEFINE d == b * w
<1>8. d \in Nat \ {0} /\ a \in Int /\ q2 \in Int /\ q2 * d <= a /\ a < q2 * d + d BY <1>2, <1>3, <1>7
<1> HIDE DEF d
<1>9. a \div d = q2 BY <1>8, DivideIs
<1> QED BY <1>9 DEF d, q2, q

\* A digit has Base times the weight of the one after it.
LEMMA WeightDef ==
  /\ Weight[0] = 1
  /\ \A k \in 0 .. Octets : Weight[k] \in Nat \ {0}
  /\ \A k \in 1 .. Octets : Weight[k] = Base * Weight[k - 1]
<1> DEFINE n == Octets
           B == Nat \ {0}
           st == [i \in 1 .. n |-> [x \in B |-> Base * x]]
           F(g) == [k \in 0 .. n |-> IF k = 0 THEN 1 ELSE Base * g[k - 1]]
           upTo == CHOOSE g : g = F(g)
<1>1. n \in Nat /\ 1 \in B /\ \A x \in B : Base * x \in B
  <2>1. Octets \in Nat \ {0} /\ Base \in Nat \ {0} BY TargetAssumption
  <2>2. \A x, y \in Nat \ {0} : x * y \in Nat \ {0} OBVIOUS
  <2> QED BY <2>1, <2>2
<1>2. Weight = upTo BY DEF Weight
<1> HIDE DEF B
<1>3. st \in [1 .. n -> [B -> B]] BY <1>1
<1> HIDE DEF st, upTo, F, n
<1>4. PICK g \in [0 .. n -> B] : Computes(g, n, 1, st) BY <1>1, <1>3, Recursion
<1>5. ASSUME NEW i \in 1 .. n PROVE g[i] = Base * g[i - 1]
  <2>1. g[i - 1] \in B BY <1>1, <1>4
  <2> QED BY <1>4, <2>1 DEF st, Computes
<1>6. g = F(g) BY <1>1, <1>4, <1>5 DEF F, Computes
<1>7. upTo = F(upTo) BY <1>6 DEF upTo
<1>8. upTo[0] = 1 BY <1>1, <1>7 DEF F
<1>9. \A i \in 1 .. n : upTo[i] = Base * upTo[i - 1] BY <1>1, <1>7 DEF F
<1>10. \A i \in 0 .. n : upTo[i] \in B
  <2>1. \A i \in 1 .. n : upTo[i - 1] \in B => upTo[i] \in B BY <1>1, <1>9
  <2> QED BY <1>1, <1>8, <2>1, AlongRecursion
<1> QED BY <1>2, <1>8, <1>9, <1>10 DEF n, B

\* There are finitely many addresses.
LEMMA SpaceType == Top \in Nat /\ Space \subseteq Nat /\ IsFiniteSet(Space)
<1>1. Octets \in 0 .. Octets BY TargetAssumption
<1>2. Top \in Nat BY <1>1, WeightDef DEF Top
<1>3. IsFiniteSet(0 .. Top) BY <1>2, FS_Interval
<1> QED BY <1>2, <1>3 DEF Space

\* What a pattern asks of an octet.
Digits == {o \in [lo : 0 .. Base - 1, hi : 0 .. Base - 1] : o.lo <= o.hi}

\* A pattern asks something of each of its octets.
LEMMA PatternType ==
  ASSUME NEW p \in Patterns
  PROVE  /\ Len(p) \in 1 .. Octets /\ p \in Seq(Digits) /\ DOMAIN p = 1 .. Len(p)
         /\ \A i \in 1 .. Len(p) : p[i].lo \in 0 .. Base - 1 /\ p[i].hi \in 0 .. Base - 1 /\ p[i].lo <= p[i].hi
<1>1. PICK n \in 1 .. Octets : p \in [1 .. n -> Digits] BY TargetAssumption DEF Digits
<1>2. Octets \in Nat BY TargetAssumption
<1>3. p \in Seq(Digits) /\ Len(p) = n /\ DOMAIN p = 1 .. n BY <1>1, <1>2
<1>4. \A i \in 1 .. n : p[i] \in Digits BY <1>1
<1> QED BY <1>3, <1>4 DEF Digits

\* What a pattern means, octet by octet from the end.
MeantBy(p) ==
    {a \in Space : \A i \in 1 .. Len(p) :
        p[Len(p) + 1 - i].lo <= (a \div Weight[i - 1]) % Base
          /\ (a \div Weight[i - 1]) % Base <= p[Len(p) + 1 - i].hi}

\* An address that is matched is one that is meant.
LEMMA MatchIsMeant ==
  ASSUME NEW p \in Patterns, NEW a \in Space
  PROVE  PatternMatches(p, a) <=> a \in MeantBy(p)
<1> DEFINE n == Len(p)
           In(o, x) == o.lo <= x /\ x <= o.hi
           Digit(i) == (a \div Weight[i]) % Base
<1>1. n \in Nat /\ Octets \in Nat /\ DOMAIN p = 1 .. n BY PatternType, TargetAssumption
<1>2. PatternMatches(p, a) <=> \A i \in 1 .. n : In(p[i], Octet(a, Octets - n + i)) BY <1>1 DEF PatternMatches
<1>3. a \in MeantBy(p) <=> \A i \in 1 .. n : In(p[n + 1 - i], Digit(i - 1)) BY DEF MeantBy
<1> HIDE DEF In
<1>4. \A i \in 1 .. n : Octet(a, Octets - n + i) = Digit(n - i)
  <2>1. \A i \in 1 .. n : Octets - (Octets - n + i) = n - i BY <1>1
  <2> QED BY <2>1 DEF Octet
<1> HIDE DEF n, Digit
<1>5. ASSUME \A i \in 1 .. n : In(p[i], Digit(n - i)), NEW i \in 1 .. n PROVE In(p[n + 1 - i], Digit(i - 1))
  <2>1. n + 1 - i \in 1 .. n /\ n - (n + 1 - i) = i - 1 BY <1>1
  <2>2. In(p[n + 1 - i], Digit(n - (n + 1 - i))) BY <1>5, <2>1
  <2> QED BY <2>1, <2>2
<1>6. ASSUME \A i \in 1 .. n : In(p[n + 1 - i], Digit(i - 1)), NEW i \in 1 .. n PROVE In(p[i], Digit(n - i))
  <2>1. n + 1 - i \in 1 .. n /\ n + 1 - (n + 1 - i) = i /\ (n + 1 - i) - 1 = n - i BY <1>1
  <2>2. In(p[n + 1 - (n + 1 - i)], Digit((n + 1 - i) - 1)) BY <1>6, <2>1
  <2> QED BY <2>1, <2>2
<1> QED BY <1>2, <1>3, <1>4, <1>5, <1>6

\* The octets of an address but the last are those of the number without it.
LEMMA OctetOfBase ==
  ASSUME NEW a \in Space, NEW b \in Space, a \div Base = b \div Base, NEW i \in 1 .. Octets - 1
  PROVE  Octet(a, i) = Octet(b, i)
<1> DEFINE k == Octets - i
<1>1. Octets \in Nat /\ Base \in Nat \ {0} BY TargetAssumption
<1>2. k \in 1 .. Octets /\ k - 1 \in 0 .. Octets BY <1>1
<1>3. a \in Nat /\ b \in Nat BY SpaceType
<1> HIDE DEF k
<1>4. Weight[k - 1] \in Nat \ {0} /\ Weight[k] = Base * Weight[k - 1] BY <1>2, WeightDef
<1>5. a \div (Base * Weight[k - 1]) = (a \div Base) \div Weight[k - 1] BY <1>1, <1>3, <1>4, DivideTwice
<1>6. b \div (Base * Weight[k - 1]) = (b \div Base) \div Weight[k - 1] BY <1>1, <1>3, <1>4, DivideTwice
<1>7. a \div Weight[k] = b \div Weight[k] BY <1>4, <1>5, <1>6
<1> QED BY <1>7 DEF Octet, k

\* The ranges of a full pattern are the addresses it means.
LEMMA PatternRangesHold ==
  ASSUME NEW p \in Patterns, Len(p) = Octets
  PROVE  PatternRanges(p) \in Seq(Rgs) /\ Addresses(PatternRanges(p)) = MeantBy(p)
<1> DEFINE PB == PatternBases(p)
           bases == InOrder(PB)
           n == Cardinality(PB)
           o == p[Octets]
           q == PatternRanges(p)
<1>1. Octets \in Nat /\ Octets \in 1 .. Octets /\ Octets \in 0 .. Octets /\ Base \in Nat \ {0} BY TargetAssumption
<1>2. o.lo \in Nat /\ o.hi \in Nat /\ o.lo <= o.hi /\ o.hi <= Base - 1 BY <1>1, PatternType
<1>3. PB \subseteq Space /\ PB \subseteq Int /\ IsFiniteSet(PB)
  <2>1. PB \in SUBSET Space BY DEF PatternBases
  <2>2. IsFiniteSet(Space) /\ Space \subseteq Nat BY SpaceType
  <2> HIDE DEF PB
  <2>3. IsFiniteSet(PB) BY <2>1, <2>2, FS_Subset
  <2> QED BY <2>1, <2>2, <2>3
<1> HIDE DEF PB
<1>4. n \in Nat /\ bases \in [1 .. n -> PB] /\ \A x \in PB : \E k \in 1 .. n : bases[k] = x BY <1>3, InOrderHolds
<1>5. q = [i \in 1 .. n |-> [lo |-> bases[i] + o.lo, hi |-> bases[i] + o.hi]]
  <2>1. DOMAIN bases = 1 .. n BY <1>4
  <2>2. q = [i \in DOMAIN bases |-> [lo |-> bases[i] + o.lo, hi |-> bases[i] + o.hi]] BY DEF PatternRanges, PB
  <2> QED BY <2>1, <2>2
<1>6. \A i \in 1 .. n : bases[i] \in PB /\ bases[i] \in Int BY <1>3, <1>4
<1> HIDE DEF bases, n, o, q
<1>7. q \in Seq(Rgs) /\ Len(q) = n /\ \A i \in 1 .. n : q[i].lo = bases[i] + o.lo /\ q[i].hi = bases[i] + o.hi
  <2>1. \A i \in 1 .. n : [lo |-> bases[i] + o.lo, hi |-> bases[i] + o.hi] \in Rgs BY <1>2, <1>6 DEF Rgs
  <2>2. q \in [1 .. n -> Rgs] BY <1>5, <2>1
  <2>3. q \in Seq(Rgs) /\ Len(q) = n BY <1>4, <2>2
  <2> QED BY <1>5, <2>3
<1>8. \A a : a \in Addresses(q) <=> a \in Int /\ \E i \in 1 .. n : q[i].lo <= a /\ a <= q[i].hi BY <1>7, AddressIn
<1>9. \A a : a \in Addresses(q) <=> a \in Int /\ \E b \in PB : b + o.lo <= a /\ a <= b + o.hi
  <2>1. ASSUME NEW a \in Int, NEW i \in 1 .. n, q[i].lo <= a, a <= q[i].hi
        PROVE  \E b \in PB : b + o.lo <= a /\ a <= b + o.hi
    BY <1>6, <1>7, <2>1
  <2>2. ASSUME NEW a \in Int, NEW b \in PB, b + o.lo <= a, a <= b + o.hi
        PROVE  \E i \in 1 .. n : q[i].lo <= a /\ a <= q[i].hi
    <3>1. PICK i \in 1 .. n : bases[i] = b BY <1>4
    <3> QED BY <1>7, <2>2, <3>1
  <2> QED BY <1>8, <2>1, <2>2
<1>10. \A a \in Space : a \in MeantBy(p) <=> \A i \in 1 .. Octets : p[i].lo <= Octet(a, i) /\ Octet(a, i) <= p[i].hi
  <2>1. DOMAIN p = 1 .. Octets BY PatternType
  <2>2. \A i \in 1 .. Octets : Octets - Len(p) + i = i BY <1>1
  <2>3. \A a \in Space : PatternMatches(p, a) <=> \A i \in 1 .. Octets : p[i].lo <= Octet(a, i) /\ Octet(a, i) <= p[i].hi
    BY <2>1, <2>2 DEF PatternMatches
  <2> QED BY <2>3, MatchIsMeant
<1>11. \A a \in Space : a \in Nat /\ Octet(a, Octets) = a % Base
  <2>1. Weight[Octets - Octets] = 1 BY <1>1, WeightDef
  <2>2. \A a \in Nat : a \div 1 = a OBVIOUS
  <2>3. Space \subseteq Nat BY SpaceType
  <2> QED BY <2>1, <2>2, <2>3 DEF Octet
<1>12. \A b : b \in PB <=> b \in Space /\ b % Base = 0 /\ \A i \in 1 .. Octets - 1 : p[i].lo <= Octet(b, i) /\ Octet(b, i) <= p[i].hi
  <2>1. ASSUME NEW b \in Space, NEW i \in 1 .. Octets - 1
        PROVE  Octet(b, i) \in p[i].lo .. p[i].hi <=> p[i].lo <= Octet(b, i) /\ Octet(b, i) <= p[i].hi
    <3>1. i \in 1 .. Octets BY <1>1
    <3>2. p[i].lo \in Int /\ p[i].hi \in Int BY <3>1, PatternType
    <3>3. Octet(b, i) \in Int
      <4>1. Octets - i \in 0 .. Octets BY <1>1
      <4>2. Weight[Octets - i] \in Nat \ {0} BY <4>1, WeightDef
      <4>3. b \in Nat BY <1>11
      <4>4. b \div Weight[Octets - i] \in Int BY <4>2, <4>3
      <4> QED BY <1>1, <4>4 DEF Octet
    <3> QED BY <3>2, <3>3
  <2> QED BY <2>1 DEF PB, PatternBases
<1>13. \A i \in 1 .. Octets : i \in 1 .. Octets - 1 \/ i = Octets BY <1>1
<1>14. \A i \in 1 .. Octets - 1 : i \in 1 .. Octets BY <1>1
<1>15. ASSUME NEW a \in MeantBy(p) PROVE a \in Addresses(q)
  <2> DEFINE b == (a \div Base) * Base
  <2>1. a \in Space /\ a \in Nat /\ a <= Top /\ Top \in Nat
    <3>1. a \in Space BY DEF MeantBy
    <3> QED BY <1>11, <3>1, SpaceType DEF Space
  <2>2. a = b + (a % Base) /\ a % Base \in Nat /\ a % Base < Base /\ b \in Nat /\ b <= a
    <3>0. a \in Int BY <2>1
    <3>1. a \div Base \in Int /\ a % Base \in Nat /\ a % Base < Base /\ a = b + (a % Base) BY <1>1, <3>0, Division
    <3>2. a \div Base \in Nat BY <1>1, <2>1
    <3>3. b \in Nat BY <1>1, <3>2
    <3> HIDE DEF b
    <3> QED BY <2>1, <3>1, <3>3
  <2>3. b \div Base = a \div Base /\ b % Base = 0
    <3>1. a \div Base \in Int /\ b \in Int BY <1>1, <2>1, <2>2
    <3>2. (a \div Base) * Base <= b /\ b < (a \div Base) * Base + Base
      <4>1. (a \div Base) * Base = b OBVIOUS
      <4> HIDE DEF b
      <4> QED BY <1>1, <3>1, <4>1
    <3> HIDE DEF b
    <3>3. b \div Base = a \div Base BY <1>1, <3>1, <3>2, DivideIs
    <3>4. b = (b \div Base) * Base + (b % Base) /\ b % Base \in Int BY <1>1, <3>1, Division
    <3>5. b = (a \div Base) * Base BY DEF b
    <3>6. b = b + (b % Base) BY <3>3, <3>4, <3>5
    <3> QED BY <3>1, <3>3, <3>4, <3>6
  <2> HIDE DEF b
  <2>4. b \in Space BY <2>1, <2>2 DEF Space
  <2>5. \A i \in 1 .. Octets - 1 : Octet(b, i) = Octet(a, i) BY <2>1, <2>3, <2>4, OctetOfBase
  <2>6. \A i \in 1 .. Octets : p[i].lo <= Octet(a, i) /\ Octet(a, i) <= p[i].hi BY <1>10, <2>1
  <2>7. b \in PB BY <1>12, <1>14, <2>3, <2>4, <2>5, <2>6
  <2>8. o.lo <= a % Base /\ a % Base <= o.hi BY <1>1, <1>11, <2>1, <2>6 DEF o
  <2>9. b + o.lo <= a /\ a <= b + o.hi
    <3> DEFINE y == a % Base
    <3>1. a = b + y /\ y \in Nat /\ b \in Nat /\ o.lo <= y /\ y <= o.hi BY <2>2, <2>8
    <3> HIDE DEF y
    <3> QED BY <1>2, <3>1
  <2> QED BY <1>9, <2>1, <2>7, <2>9
<1>16. ASSUME NEW a \in Addresses(q) PROVE a \in MeantBy(p)
  <2>1. PICK b \in PB : a \in Int /\ b + o.lo <= a /\ a <= b + o.hi BY <1>9
  <2>2. b \in Space /\ b \in Nat /\ b % Base = 0 /\ b <= Top /\ Top \in Nat
    <3>1. b \in Space BY <1>12
    <3> QED BY <1>11, <1>12, <3>1, SpaceType DEF Space
  <2> DEFINE m == b \div Base
             w == Weight[Octets - 1]
  <2>3. m \in Nat /\ b = m * Base BY <1>1, <2>2
  <2>4. a \in Nat /\ m * Base <= a /\ a < m * Base + Base BY <1>1, <1>2, <2>1, <2>2, <2>3
  <2>5. w \in Nat \ {0} /\ Top = Base * w - 1
    <3>1. Octets - 1 \in 0 .. Octets BY <1>1
    <3> QED BY <1>1, <3>1, WeightDef DEF Top
  <2> HIDE DEF w, m
  <2>6. m < w
    <3>1. SUFFICES ASSUME w <= m PROVE FALSE BY <2>3, <2>5
    <3>2. Base * w <= m * Base BY <1>1, <2>3, <2>5, <3>1
    <3> QED BY <1>1, <2>2, <2>3, <2>5, <3>2
  <2>7. a <= Top
    <3>1. (m + 1) * Base <= w * Base BY <1>1, <2>3, <2>5, <2>6
    <3>2. (m + 1) * Base = m * Base + Base /\ w * Base = Base * w BY <1>1, <2>3, <2>5
    <3> QED BY <1>1, <2>3, <2>4, <2>5, <3>1, <3>2
  <2>8. a \in Space BY <2>2, <2>4, <2>7 DEF Space
  <2>9. a \div Base = m /\ b \div Base = m BY <1>1, <2>3, <2>4, DivideIs DEF m
  <2>10. \A i \in 1 .. Octets - 1 : Octet(a, i) = Octet(b, i) BY <2>2, <2>8, <2>9, OctetOfBase
  <2>11. o.lo <= a % Base /\ a % Base <= o.hi
    <3> DEFINE y == a % Base
    <3>0. a \in Int BY <2>4
    <3>1. y \in Int /\ a = (a \div Base) * Base + y BY <1>1, <3>0, Division
    <3>2. b = m * Base /\ a \div Base = m BY <2>3, <2>9
    <3>3. a = b + y BY <3>1, <3>2
    <3> HIDE DEF y
    <3>4. o.lo <= y /\ y <= o.hi BY <1>2, <2>1, <2>2, <3>1, <3>3
    <3> QED BY <3>4 DEF y
  <2>12. \A i \in 1 .. Octets : p[i].lo <= Octet(a, i) /\ Octet(a, i) <= p[i].hi
    BY <1>11, <1>12, <1>13, <2>8, <2>10, <2>11 DEF o
  <2> QED BY <1>10, <2>8, <2>12
<1> QED BY <1>7, <1>15, <1>16 DEF q

\* One range by itself,
LEMMA OneRange ==
  ASSUME NEW r \in Rgs
  PROVE  <<r>> \in Seq(Rgs) /\ Addresses(<<r>>) = r.lo .. r.hi
<1>1. <<r>> \in Seq(Rgs) /\ DOMAIN <<r>> = {1} /\ <<r>>[1] = r OBVIOUS
<1>2. Addresses(<<r>>) = UNION {<<r>>[i].lo .. <<r>>[i].hi : i \in {1}} BY <1>1 DEF Addresses
<1>3. UNION {<<r>>[i].lo .. <<r>>[i].hi : i \in {1}} = r.lo .. r.hi BY <1>1
<1> QED BY <1>1, <1>2, <1>3

\* every address by itself,
LEMMA PointsHold ==
  ASSUME NEW S, S \subseteq Int, IsFiniteSet(S)
  PROVE  /\ Points(S) \in Seq(Rgs) /\ Addresses(Points(S)) = S
         /\ \A j, k \in 1 .. Len(Points(S)) : j < k => Points(S)[j].lo <= Points(S)[k].lo
<1> DEFINE order == InOrder(S)
           n == Cardinality(S)
           q == Points(S)
<1>1. /\ n \in Nat /\ order \in [1 .. n -> S]
      /\ \A x \in S : \E k \in 1 .. n : order[k] = x
      /\ \A j, k \in 1 .. n : j < k => order[j] < order[k]
  BY InOrderHolds
<1>2. q = [k \in 1 .. n |-> [lo |-> order[k], hi |-> order[k]]]
  <2>1. DOMAIN order = 1 .. n BY <1>1
  <2> QED BY <2>1 DEF Points
<1> HIDE DEF order, n, q
<1>3. \A k \in 1 .. n : order[k] \in S /\ order[k] \in Int BY <1>1
<1>4. q \in Seq(Rgs) /\ Len(q) = n /\ \A k \in 1 .. n : q[k].lo = order[k] /\ q[k].hi = order[k]
  <2>1. \A k \in 1 .. n : [lo |-> order[k], hi |-> order[k]] \in Rgs BY <1>3 DEF Rgs
  <2>2. q \in [1 .. n -> Rgs] BY <1>2, <2>1
  <2>3. q \in Seq(Rgs) /\ Len(q) = n BY <1>1, <2>2
  <2> QED BY <1>2, <2>3
<1>5. \A j, k \in 1 .. Len(q) : j < k => q[j].lo <= q[k].lo BY <1>1, <1>3, <1>4
<1>6. \A a : a \in Addresses(q) <=> a \in Int /\ \E i \in 1 .. n : q[i].lo <= a /\ a <= q[i].hi BY <1>4, AddressIn
<1>7. ASSUME NEW a, a \in Addresses(q) PROVE a \in S
  <2>1. PICK i \in 1 .. n : a \in Int /\ q[i].lo <= a /\ a <= q[i].hi BY <1>6, <1>7
  <2>2. a = order[i] BY <1>3, <1>4, <2>1
  <2> QED BY <1>3, <2>2
<1>8. ASSUME NEW a \in S PROVE a \in Addresses(q)
  <2>1. PICK k \in 1 .. n : order[k] = a BY <1>1
  <2>2. a \in Int /\ q[k].lo <= a /\ a <= q[k].hi BY <1>4, <2>1
  <2> QED BY <1>6, <2>2
<1>9. Addresses(q) = S BY <1>7, <1>8
<1> QED BY <1>4, <1>5, <1>9 DEF q

\* and as few ranges as there can be.
LEMMA StretchesHold ==
  ASSUME NEW S, S \subseteq Int, IsFiniteSet(S)
  PROVE  Stretches(S) \in Seq(Rgs) /\ Spaced(Stretches(S), 1) /\ Addresses(Stretches(S)) = S
<1> DEFINE q == Points(S)
<1>1. q \in Seq(Rgs) /\ Addresses(q) = S /\ \A j, k \in 1 .. Len(q) : j < k => q[j].lo <= q[k].lo BY PointsHold
<1> HIDE DEF q
<1>2. Joined(q) \in Seq(Rgs) /\ Spaced(Joined(q), 1) /\ Addresses(Joined(q)) = Addresses(q) BY <1>1, JoinedHolds
<1> QED BY <1>1, <1>2 DEF Stretches, q

\* Whether the filter lets an address through.
Kept(a, ps, keepMatches) == (\E p \in ps : PatternMatches(p, a)) = keepMatches

\* The filter leaves the addresses it lets through.
LEMMA FilterHolds ==
  ASSUME NEW rs \in Seq(Rgs), NEW ps, NEW keepMatches
  PROVE  /\ FilterByPatterns(rs, ps, keepMatches) \in Seq(Rgs)
         /\ Addresses(FilterByPatterns(rs, ps, keepMatches)) = {a \in Addresses(rs) : Kept(a, ps, keepMatches)}
<1> DEFINE n == Len(rs)
           K(i) == {a \in rs[i].lo .. rs[i].hi : Kept(a, ps, keepMatches)}
           ss == [i \in 1 .. n |-> Stretches(K(i))]
<1>1. n \in Nat /\ DOMAIN rs = 1 .. n OBVIOUS
<1>2. FilterByPatterns(rs, ps, keepMatches) = FlattenSeq(ss) BY <1>1 DEF FilterByPatterns, Kept
<1>3. \A i \in 1 .. n : rs[i] \in Rgs /\ rs[i].lo \in Int /\ rs[i].hi \in Int BY AddressIn
<1> HIDE DEF n
<1>4. \A i \in 1 .. n : Stretches(K(i)) \in Seq(Rgs) /\ Addresses(Stretches(K(i))) = K(i)
  <2> SUFFICES ASSUME NEW i \in 1 .. n PROVE Stretches(K(i)) \in Seq(Rgs) /\ Addresses(Stretches(K(i))) = K(i) OBVIOUS
  <2>1. IsFiniteSet(rs[i].lo .. rs[i].hi) BY <1>3, FS_Interval
  <2>2. K(i) \in SUBSET (rs[i].lo .. rs[i].hi) /\ K(i) \subseteq Int BY <1>3
  <2> HIDE DEF K
  <2>3. IsFiniteSet(K(i)) BY <2>1, <2>2, FS_Subset
  <2> QED BY <2>2, <2>3, StretchesHold
<1>5. Addresses(rs) = UNION {rs[i].lo .. rs[i].hi : i \in 1 .. n} BY <1>1 DEF Addresses, n
<1>6. UNION {K(i) : i \in 1 .. n} = {a \in Addresses(rs) : Kept(a, ps, keepMatches)} BY <1>5
<1> HIDE DEF K
<1>7. ss \in Seq(Seq(Rgs)) /\ Len(ss) = n /\ \A i \in 1 .. n : ss[i] = Stretches(K(i))
  <2>1. ss \in [1 .. n -> Seq(Rgs)] BY <1>4
  <2> QED BY <1>1, <2>1 DEF n
<1> HIDE DEF ss
<1>8. FlattenSeq(ss) \in Seq(Rgs) /\ Addresses(FlattenSeq(ss)) = UNION {Addresses(ss[i]) : i \in 1 .. Len(ss)}
  BY <1>7, FlattenRanges
<1>9. \A i \in 1 .. n : Addresses(ss[i]) = K(i) BY <1>4, <1>7
<1>10. UNION {Addresses(ss[i]) : i \in 1 .. n} = UNION {K(i) : i \in 1 .. n} BY <1>9
<1> QED BY <1>2, <1>6, <1>7, <1>8, <1>10

(***************************************************************************)
(* What is typed.                                                          *)
(***************************************************************************)

\* What is entered are tokens, and entries of the exclude list.
Entered == typed \in Seq(TargetTokens) /\ kept \in Seq(ExcludeEntries)

\* A range that is typed is one of the addresses there are.
LEMMA RangeType ==
  ASSUME NEW r \in Ranges
  PROVE  r \in Rgs /\ r.lo \in Space /\ r.hi \in Space /\ r.lo <= r.hi /\ r.lo .. r.hi \subseteq Space
<1>1. r \in {q \in [lo : Space, hi : Space] : q.lo <= q.hi} BY TargetAssumption
<1>2. r.lo \in Space /\ r.hi \in Space /\ r.lo <= r.hi /\ r \in [lo : Space, hi : Space] BY <1>1
<1>3. Space \subseteq Int /\ Top \in Nat /\ Space = 0 .. Top BY SpaceType DEF Space
<1>4. r \in [lo : Int, hi : Int] BY <1>2, <1>3
<1>5. r \in Rgs BY <1>2, <1>4 DEF Rgs
<1>6. r.lo .. r.hi \subseteq Space BY <1>2, <1>3
<1> QED BY <1>2, <1>5, <1>6

\* The kinds of tokens,
LEMMA TokenType ==
  ASSUME NEW t \in TargetTokens
  PROVE  /\ t.bang \in BOOLEAN
         /\ \/ t.kind = "range" /\ t.range \in Ranges
            \/ t.kind = "pattern" /\ t.pattern \in Patterns /\ (t.bang \/ Len(t.pattern) = Octets)
            \/ t.kind = "name" /\ ~t.bang
<1>1. CASE t \in RangeTokens BY <1>1 DEF RangeTokens
<1>2. CASE t \in PatternTokens /\ (t.bang \/ Len(t.pattern) = Octets)
  <2>1. t.bang \in BOOLEAN /\ t.kind = "pattern" /\ t.pattern \in Patterns BY <1>2 DEF PatternTokens
  <2> QED BY <1>2, <2>1
<1>3. CASE t = NameToken BY <1>3 DEF NameToken
<1> QED BY <1>1, <1>2, <1>3 DEF TargetTokens

\* what each of them means,
LEMMA MeantIs ==
  ASSUME NEW t
  PROVE  /\ t.kind = "range" => Meant(t) = t.range.lo .. t.range.hi
         /\ t.kind = "pattern" => Meant(t) = MeantBy(t.pattern)
         /\ t.kind = "name" => Meant(t) = {}
<1>1. "range" # "pattern" /\ "range" # "name" /\ "pattern" # "name" OBVIOUS
<1>2. t.kind = "range" => Meant(t) = t.range.lo .. t.range.hi BY <1>1 DEF Meant
<1>3. t.kind = "pattern" => Meant(t) = MeantBy(t.pattern)
  <2>1. \A i \in 1 .. Len(t.pattern) : Len(t.pattern) + 1 - i = (Len(t.pattern) + 1) - i OBVIOUS
  <2> QED BY <1>1 DEF Meant, MeantBy
<1>4. t.kind = "name" => Meant(t) = {} BY <1>1 DEF Meant
<1> QED BY <1>2, <1>3, <1>4

\* all of it addresses there are,
LEMMA MeantInSpace ==
  ASSUME NEW t \in TargetTokens
  PROVE  Meant(t) \subseteq Space
<1>1. CASE t.kind = "range" /\ t.range \in Ranges BY <1>1, MeantIs, RangeType
<1>2. CASE t.kind = "pattern"
  <2>1. MeantBy(t.pattern) \subseteq Space BY DEF MeantBy
  <2> QED BY <1>2, <2>1, MeantIs
<1>3. CASE t.kind = "name" BY <1>3, MeantIs
<1> QED BY <1>1, <1>2, <1>3, TokenType

\* and the ranges it is written down as.
LEMMA RangesOfHolds ==
  ASSUME NEW t \in TargetTokens, ~t.bang
  PROVE  RangesOf(t) \in Seq(Rgs) /\ Addresses(RangesOf(t)) = Meant(t)
<1>0. "range" # "pattern" /\ "range" # "name" /\ "pattern" # "name" OBVIOUS
<1>1. CASE t.kind = "range" /\ t.range \in Ranges
  <2>1. RangesOf(t) = <<t.range>> BY <1>0, <1>1 DEF RangesOf
  <2>2. <<t.range>> \in Seq(Rgs) /\ Addresses(<<t.range>>) = t.range.lo .. t.range.hi BY <1>1, RangeType, OneRange
  <2>3. Meant(t) = t.range.lo .. t.range.hi BY <1>1, MeantIs
  <2> QED BY <2>1, <2>2, <2>3
<1>2. CASE t.kind = "pattern" /\ t.pattern \in Patterns /\ Len(t.pattern) = Octets
  <2>1. RangesOf(t) = PatternRanges(t.pattern) BY <1>0, <1>2 DEF RangesOf
  <2>2. PatternRanges(t.pattern) \in Seq(Rgs) /\ Addresses(PatternRanges(t.pattern)) = MeantBy(t.pattern)
    BY <1>2, PatternRangesHold
  <2>3. Meant(t) = MeantBy(t.pattern) BY <1>2, MeantIs
  <2> QED BY <2>1, <2>2, <2>3
<1>3. CASE t.kind = "name"
  <2>1. RangesOf(t) = <<>> BY <1>0, <1>3 DEF RangesOf
  <2>2. <<>> \in Seq(Rgs) OBVIOUS
  <2>3. Addresses(<<>>) = {} BY DEF Addresses
  <2>4. Meant(t) = {} BY <1>3, MeantIs
  <2> QED BY <2>1, <2>2, <2>3, <2>4
<1> QED BY <1>1, <1>2, <1>3, TokenType

\* What is included is what the tokens mean,
LEMMA IncludedHolds ==
  ASSUME Entered
  PROVE  /\ Included \in Seq(Rgs)
         /\ Addresses(Included) = UNION {Meant(typed[i]) : i \in {i \in DOMAIN typed : ~typed[i].bang}}
<1> DEFINE P == {i \in DOMAIN typed : ~typed[i].bang}
           plain == Picked(typed, P)
<1>1. typed \in Seq(TargetTokens) /\ P \subseteq 1 .. Len(typed) BY DEF Entered
<1>2. \A i \in P : typed[i] \in TargetTokens /\ ~typed[i].bang BY <1>1
<1> HIDE DEF P
<1>3. Picked(typed, P) \in Seq(TargetTokens) /\ \E n \in Nat : \E f \in [1 .. n -> P] : Picks(Picked(typed, P), typed, P, n, f)
  BY <1>1, PickedHolds
<1>p. PICK n \in Nat : \E f \in [1 .. n -> P] : Picks(Picked(typed, P), typed, P, n, f) BY <1>3
<1>q. PICK f \in [1 .. n -> P] : Picks(Picked(typed, P), typed, P, n, f) BY <1>p
<1>4. /\ plain \in Seq(TargetTokens) /\ Len(plain) = n
      /\ \A k \in 1 .. n : plain[k] = typed[f[k]]
      /\ \A i \in P : \E k \in 1 .. n : f[k] = i
  BY <1>3, <1>q DEF Picks
<1> DEFINE ss == [i \in DOMAIN plain |-> RangesOf(plain[i])]
<1>5. Included = FlattenSeq(ss) BY DEF Included, P
<1> HIDE DEF plain
<1>6. \A k \in 1 .. n : f[k] \in P OBVIOUS
<1>7. \A k \in 1 .. n : RangesOf(plain[k]) \in Seq(Rgs) /\ Addresses(RangesOf(plain[k])) = Meant(typed[f[k]])
  BY <1>2, <1>4, <1>6, RangesOfHolds
<1>8. ss \in Seq(Seq(Rgs)) /\ Len(ss) = n /\ \A k \in 1 .. n : ss[k] = RangesOf(plain[k])
  <2>1. DOMAIN plain = 1 .. n BY <1>4
  <2>2. ss \in [1 .. n -> Seq(Rgs)] BY <1>7, <2>1
  <2> QED BY <2>1, <2>2
<1> HIDE DEF ss
<1>9. FlattenSeq(ss) \in Seq(Rgs) /\ Addresses(FlattenSeq(ss)) = UNION {Addresses(ss[i]) : i \in 1 .. Len(ss)}
  BY <1>8, FlattenRanges
<1>10. UNION {Addresses(ss[i]) : i \in 1 .. n} = UNION {Meant(typed[i]) : i \in P}
  <2>1. \A k \in 1 .. n : Addresses(ss[k]) = Meant(typed[f[k]]) BY <1>7, <1>8
  <2>2. ASSUME NEW a, NEW i \in P, a \in Meant(typed[i]) PROVE \E k \in 1 .. n : a \in Addresses(ss[k])
    <3>1. PICK k \in 1 .. n : f[k] = i BY <1>4
    <3> QED BY <2>1, <2>2, <3>1
  <2>3. ASSUME NEW a, NEW k \in 1 .. n, a \in Addresses(ss[k]) PROVE \E i \in P : a \in Meant(typed[i])
    BY <1>6, <2>1, <2>3
  <2> QED BY <2>2, <2>3
<1> QED BY <1>5, <1>8, <1>9, <1>10 DEF P

\* The ranges of the excluded ones.
Barred == LET bangs == Tokens(TRUE, "range") IN [i \in DOMAIN bangs |-> bangs[i].range]

\* what is barred is what the exclusions that are ranges mean,
LEMMA BarredHolds ==
  ASSUME Entered
  PROVE  /\ Barred \in Seq(Rgs)
         /\ Addresses(Barred) = UNION {Meant(typed[i]) : i \in {i \in DOMAIN typed : typed[i].bang /\ typed[i].kind = "range"}}
<1> DEFINE P == {i \in DOMAIN typed : typed[i].bang = TRUE /\ typed[i].kind = "range"}
           bangs == Picked(typed, P)
<1>0. "range" # "pattern" /\ "range" # "name" OBVIOUS
<1>1. typed \in Seq(TargetTokens) /\ P \subseteq 1 .. Len(typed) BY DEF Entered
<1>2. \A i \in P : typed[i].range \in Ranges /\ typed[i].range \in Rgs /\ Meant(typed[i]) = typed[i].range.lo .. typed[i].range.hi
  <2> SUFFICES ASSUME NEW i \in P
               PROVE  /\ typed[i].range \in Ranges /\ typed[i].range \in Rgs
                      /\ Meant(typed[i]) = typed[i].range.lo .. typed[i].range.hi
    OBVIOUS
  <2>1. typed[i] \in TargetTokens /\ typed[i].kind = "range" BY <1>1
  <2>2. typed[i].range \in Ranges BY <1>0, <2>1, TokenType
  <2> QED BY <2>1, <2>2, MeantIs, RangeType
<1>a. Barred = [i \in DOMAIN bangs |-> bangs[i].range] BY DEF Barred, Tokens
<1>b. P = {i \in DOMAIN typed : typed[i].bang /\ typed[i].kind = "range"}
  <2>1. \A i \in DOMAIN typed : typed[i].bang \in BOOLEAN BY <1>1, TokenType
  <2> QED BY <2>1
<1> HIDE DEF P
<1>3. Picked(typed, P) \in Seq(TargetTokens) /\ \E n \in Nat : \E f \in [1 .. n -> P] : Picks(Picked(typed, P), typed, P, n, f)
  BY <1>1, PickedHolds
<1>p. PICK n \in Nat : \E f \in [1 .. n -> P] : Picks(Picked(typed, P), typed, P, n, f) BY <1>3
<1>q. PICK f \in [1 .. n -> P] : Picks(Picked(typed, P), typed, P, n, f) BY <1>p
<1>4. /\ bangs \in Seq(TargetTokens) /\ Len(bangs) = n
      /\ \A k \in 1 .. n : bangs[k] = typed[f[k]]
      /\ \A i \in P : \E k \in 1 .. n : f[k] = i
  BY <1>3, <1>q DEF Picks
<1> HIDE DEF bangs
<1>6. \A k \in 1 .. n : f[k] \in P OBVIOUS
<1> DEFINE q == Barred
<1>7. q \in Seq(Rgs) /\ DOMAIN q = 1 .. n /\ \A k \in 1 .. n : q[k] = typed[f[k]].range
  <2>1. DOMAIN bangs = 1 .. n BY <1>4
  <2>2. \A k \in 1 .. n : bangs[k].range = typed[f[k]].range /\ bangs[k].range \in Rgs BY <1>2, <1>4, <1>6
  <2>3. q \in [1 .. n -> Rgs] BY <1>a, <2>1, <2>2
  <2> QED BY <1>a, <2>1, <2>2, <2>3
<1> HIDE DEF q
<1>8. Addresses(q) = UNION {Meant(typed[i]) : i \in P}
  <2>1. \A k \in 1 .. n : q[k].lo .. q[k].hi = Meant(typed[f[k]]) BY <1>2, <1>6, <1>7
  <2>2. Addresses(q) = UNION {q[k].lo .. q[k].hi : k \in 1 .. n} BY <1>7 DEF Addresses
  <2>3. ASSUME NEW a, NEW i \in P, a \in Meant(typed[i]) PROVE \E k \in 1 .. n : a \in q[k].lo .. q[k].hi
    <3>1. PICK k \in 1 .. n : f[k] = i BY <1>4
    <3> QED BY <2>1, <2>3, <3>1
  <2>4. ASSUME NEW a, NEW k \in 1 .. n, a \in q[k].lo .. q[k].hi PROVE \E i \in P : a \in Meant(typed[i])
    BY <1>6, <2>1, <2>4
  <2> QED BY <2>2, <2>3, <2>4
<1> QED BY <1>7, <1>8, <1>b DEF q

\* The addresses that patterns take out.
LEMMA ExcludedHolds ==
  ASSUME Entered
  PROVE  /\ ExcludedPatterns \subseteq Patterns
         /\ \A a \in Space : (\E p \in ExcludedPatterns : PatternMatches(p, a))
               <=> \E i \in DOMAIN typed : typed[i].bang /\ typed[i].kind = "pattern" /\ a \in Meant(typed[i])
<1>0. "range" # "pattern" /\ "name" # "pattern" OBVIOUS
<1>1. typed \in Seq(TargetTokens) BY DEF Entered
<1>2. \A i \in DOMAIN typed : typed[i].bang /\ typed[i].kind = "pattern" =>
          typed[i].pattern \in Patterns /\ Meant(typed[i]) = MeantBy(typed[i].pattern)
  <2> SUFFICES ASSUME NEW i \in DOMAIN typed, typed[i].kind = "pattern"
               PROVE  typed[i].pattern \in Patterns /\ Meant(typed[i]) = MeantBy(typed[i].pattern)
    OBVIOUS
  <2>1. typed[i] \in TargetTokens BY <1>1
  <2>2. typed[i].pattern \in Patterns BY <1>0, <2>1, TokenType
  <2> QED BY <2>2, MeantIs
<1>3. \A p : p \in ExcludedPatterns <=> \E i \in DOMAIN typed : typed[i].bang /\ typed[i].kind = "pattern" /\ p = typed[i].pattern
  BY DEF ExcludedPatterns
<1>4. \A p \in ExcludedPatterns : p \in Patterns BY <1>2, <1>3
<1>5. \A p \in Patterns : \A a \in Space : PatternMatches(p, a) <=> a \in MeantBy(p) BY MatchIsMeant
<1>6. ASSUME NEW a \in Space, NEW p \in ExcludedPatterns, PatternMatches(p, a)
      PROVE  \E i \in DOMAIN typed : typed[i].bang /\ typed[i].kind = "pattern" /\ a \in Meant(typed[i])
  <2>1. PICK i \in DOMAIN typed : typed[i].bang /\ typed[i].kind = "pattern" /\ p = typed[i].pattern BY <1>3
  <2> QED BY <1>2, <1>4, <1>5, <1>6, <2>1
<1>7. ASSUME NEW a \in Space, NEW i \in DOMAIN typed, typed[i].bang, typed[i].kind = "pattern", a \in Meant(typed[i])
      PROVE  \E p \in ExcludedPatterns : PatternMatches(p, a)
  BY <1>2, <1>3, <1>5, <1>7
<1> QED BY <1>4, <1>6, <1>7

\* What is left after the exclusions.
LEMMA LeftOverHolds ==
  ASSUME Entered
  PROVE  LeftOver \in Seq(Rgs) /\ Spaced(LeftOver, 1) /\ Addresses(LeftOver) = MeantTarget
<1> DEFINE In == UNION {Meant(typed[i]) : i \in {i \in DOMAIN typed : ~typed[i].bang}}
           Out == UNION {Meant(typed[i]) : i \in {i \in DOMAIN typed : typed[i].bang}}
           OutR == UNION {Meant(typed[i]) : i \in {i \in DOMAIN typed : typed[i].bang /\ typed[i].kind = "range"}}
           OutP == UNION {Meant(typed[i]) : i \in {i \in DOMAIN typed : typed[i].bang /\ typed[i].kind = "pattern"}}
<1>1. typed \in Seq(TargetTokens) /\ \A i \in DOMAIN typed : typed[i] \in TargetTokens BY DEF Entered
<1>2. Out = OutR \cup OutP
  <2>1. \A i \in DOMAIN typed : typed[i].bang => typed[i].kind = "range" \/ typed[i].kind = "pattern" BY <1>1, TokenType
  <2> QED BY <2>1
<1>3. In \subseteq Space BY <1>1, MeantInSpace
<1>4. MeantTarget = In \ Out BY Zenon DEF MeantTarget
<1>5. Included \in Seq(Rgs) /\ Addresses(Included) = In BY IncludedHolds
<1>6. Barred \in Seq(Rgs) /\ Addresses(Barred) = OutR BY BarredHolds
<1>7. \A a \in Space : (\E p \in ExcludedPatterns : PatternMatches(p, a)) <=> a \in OutP BY ExcludedHolds
<1>8. ExcludedPatterns = {} => OutP = {} BY DEF ExcludedPatterns
<1> HIDE DEF In, Out, OutR, OutP
<1>9. Plain = SubtractRanges(Included, Barred) BY DEF Plain, Barred
<1>10. Plain \in Seq(Rgs) /\ Spaced(Plain, 1) /\ Addresses(Plain) = In \ OutR BY <1>5, <1>6, <1>9, SubtractHolds
<1>11. CASE ExcludedPatterns = {}
  <2>1. LeftOver = Plain BY <1>11 DEF LeftOver
  <2> QED BY <1>2, <1>4, <1>8, <1>10, <1>11, <2>1
<1>12. CASE ExcludedPatterns # {}
  <2> DEFINE F == FilterByPatterns(Plain, ExcludedPatterns, FALSE)
  <2>1. LeftOver = MergeRanges(F) BY <1>12 DEF LeftOver
  <2>2. F \in Seq(Rgs) /\ Addresses(F) = {a \in Addresses(Plain) : Kept(a, ExcludedPatterns, FALSE)} BY <1>10, FilterHolds
  <2> HIDE DEF F
  <2>3. MergeRanges(F) \in Seq(Rgs) /\ Spaced(MergeRanges(F), 1) /\ Addresses(MergeRanges(F)) = Addresses(F) BY <2>2, MergeHolds
  <2>4. \A a \in Space : Kept(a, ExcludedPatterns, FALSE) <=> a \notin OutP BY <1>7 DEF Kept
  <2>5. Addresses(F) = (In \ OutR) \ OutP BY <1>3, <1>10, <2>2, <2>4
  <2> QED BY <1>2, <1>4, <2>1, <2>3, <2>5
<1> QED BY <1>11, <1>12

\* The target, whether or not it may be scanned.
LEMMA TargetHolds ==
  ASSUME Entered
  PROVE  /\ ExpandTarget.ranges \in Seq(Rgs) /\ Addresses(ExpandTarget.ranges) = MeantTarget
         /\ UsesPatterns => Spaced(ExpandTarget.ranges, 1)
         /\ MeantTarget \subseteq Space
<1>1. typed \in Seq(TargetTokens) /\ \A i \in DOMAIN typed : typed[i] \in TargetTokens BY DEF Entered
<1>4. MeantTarget \subseteq Space BY <1>1, MeantInSpace DEF MeantTarget
<1>2. CASE UsesPatterns
  <2>1. ExpandTarget.ranges = LeftOver BY <1>2 DEF ExpandTarget
  <2>2. LeftOver \in Seq(Rgs) /\ Spaced(LeftOver, 1) /\ Addresses(LeftOver) = MeantTarget BY LeftOverHolds
  <2> QED BY <1>4, <2>1, <2>2
<1>3. CASE ~UsesPatterns
  <2>1. ExpandTarget.ranges = Included BY <1>3 DEF ExpandTarget
  <2>2. \A i \in DOMAIN typed : ~typed[i].bang BY <1>3 DEF UsesPatterns
  <2>3. Included \in Seq(Rgs) /\ Addresses(Included) = UNION {Meant(typed[i]) : i \in {i \in DOMAIN typed : ~typed[i].bang}}
    BY IncludedHolds
  <2>4. MeantTarget = UNION {Meant(typed[i]) : i \in {i \in DOMAIN typed : ~typed[i].bang}} BY <2>2 DEF MeantTarget
  <2> QED BY <1>3, <1>4, <2>1, <2>3, <2>4
<1> QED BY <1>2, <1>3

\* Ranges that are apart are tidy.
LEMMA SpacedIsTidy ==
  ASSUME NEW rs \in Seq(Rgs), Spaced(rs, 1)
  PROVE  Tidy(rs)
<1>1. ASSUME NEW i \in 1 .. Len(rs) - 1 PROVE rs[i].hi + 1 < rs[i + 1].lo
  <2>1. i \in 1 .. Len(rs) /\ i + 1 \in 1 .. Len(rs) /\ i < i + 1 OBVIOUS
  <2> QED BY <2>1 DEF Spaced
<1> QED BY <1>1 DEF Tidy

\* So the expansion is exact.
LEMMA ExpansionHolds == ASSUME Entered PROVE ExpansionIsExact
<1> DEFINE target == ExpandTarget
<1>1. target.ranges \in Seq(Rgs) /\ Addresses(target.ranges) = MeantTarget /\ (UsesPatterns => Spaced(target.ranges, 1))
  BY TargetHolds
<1> HIDE DEF target
<1>2. UsesPatterns => Tidy(target.ranges) BY <1>1, SpacedIsTidy
<1> QED BY <1>1, <1>2 DEF ExpansionIsExact, target

\* An entry of the exclude list, and the range it is limited to.
Entry(t) == IF t.kind = "range" THEN <<t.range>> ELSE MergeRanges(FilterByPatterns(<<t.range>>, {t.pattern}, TRUE))
Scope(t) == IF t.kind = "range" THEN Space ELSE t.range.lo .. t.range.hi

\* An entry is what it means, within its range,
LEMMA EntryHolds ==
  ASSUME NEW t \in ExcludeEntries
  PROVE  Entry(t) \in Seq(Rgs) /\ Addresses(Entry(t)) = Meant(t) \cap Scope(t)
<1>0. "range" # "pattern" OBVIOUS
<1>1. CASE t \in RangeTokens
  <2>1. t.kind = "range" /\ t.range \in Ranges BY <1>1 DEF RangeTokens
  <2>2. Entry(t) = <<t.range>> /\ Scope(t) = Space BY <2>1 DEF Entry, Scope
  <2>3. t.range \in Rgs /\ t.range.lo .. t.range.hi \subseteq Space BY <2>1, RangeType
  <2>4. Meant(t) = t.range.lo .. t.range.hi BY <2>1, MeantIs
  <2>5. <<t.range>> \in Seq(Rgs) /\ Addresses(<<t.range>>) = t.range.lo .. t.range.hi BY <2>3, OneRange
  <2> QED BY <2>2, <2>3, <2>4, <2>5
<1>2. CASE t \in [bang : {FALSE}, kind : {"pattern"}, range : Ranges, pattern : Patterns]
  <2> DEFINE rs == <<t.range>>
             F == FilterByPatterns(rs, {t.pattern}, TRUE)
  <2>1. t.kind = "pattern" /\ t.range \in Ranges /\ t.pattern \in Patterns BY <1>2
  <2>2. Entry(t) = MergeRanges(F) /\ Scope(t) = t.range.lo .. t.range.hi BY <1>0, <2>1 DEF Entry, Scope
  <2>3. t.range \in Rgs /\ t.range.lo .. t.range.hi \subseteq Space BY <2>1, RangeType
  <2>4. Meant(t) = MeantBy(t.pattern) BY <2>1, MeantIs
  <2>5. rs \in Seq(Rgs) /\ Addresses(rs) = t.range.lo .. t.range.hi BY <2>3, OneRange
  <2> HIDE DEF rs
  <2>6. F \in Seq(Rgs) /\ Addresses(F) = {a \in Addresses(rs) : Kept(a, {t.pattern}, TRUE)} BY <2>5, FilterHolds
  <2> HIDE DEF F
  <2>7. MergeRanges(F) \in Seq(Rgs) /\ Addresses(MergeRanges(F)) = Addresses(F) BY <2>6, MergeHolds
  <2>8. \A a \in Space : Kept(a, {t.pattern}, TRUE) <=> a \in MeantBy(t.pattern)
    <3>1. \A a \in Space : PatternMatches(t.pattern, a) <=> a \in MeantBy(t.pattern) BY <2>1, MatchIsMeant
    <3> QED BY <3>1 DEF Kept
  <2> QED BY <2>2, <2>3, <2>4, <2>5, <2>6, <2>7, <2>8
<1> QED BY <1>1, <1>2 DEF ExcludeEntries

\* and so is the list.
LEMMA FetchedHolds ==
  ASSUME Entered
  PROVE  FetchedExcludes \in Seq(Rgs) /\ Addresses(FetchedExcludes) = MeantExcludes
<1> DEFINE n == Len(kept)
           ss == [i \in 1 .. n |-> Entry(kept[i])]
<1>1. n \in Nat /\ DOMAIN kept = 1 .. n /\ \A i \in 1 .. n : kept[i] \in ExcludeEntries BY DEF Entered
<1>2. FetchedExcludes = FlattenSeq(ss) BY <1>1 DEF FetchedExcludes, Entry
<1>3. \A i \in 1 .. n : Entry(kept[i]) \in Seq(Rgs) /\ Addresses(Entry(kept[i])) = Meant(kept[i]) \cap Scope(kept[i])
  BY <1>1, EntryHolds
<1>4. MeantExcludes = UNION {Meant(kept[i]) \cap Scope(kept[i]) : i \in 1 .. n} BY <1>1 DEF MeantExcludes, Scope
<1> HIDE DEF n
<1>5. ss \in Seq(Seq(Rgs)) /\ Len(ss) = n /\ \A i \in 1 .. n : ss[i] = Entry(kept[i])
  <2>1. ss \in [1 .. n -> Seq(Rgs)] BY <1>3
  <2> QED BY <1>1, <2>1
<1> HIDE DEF ss
<1>6. FlattenSeq(ss) \in Seq(Rgs) /\ Addresses(FlattenSeq(ss)) = UNION {Addresses(ss[i]) : i \in 1 .. Len(ss)}
  BY <1>5, FlattenRanges
<1>7. UNION {Addresses(ss[i]) : i \in 1 .. n} = UNION {Meant(kept[i]) \cap Scope(kept[i]) : i \in 1 .. n} BY <1>3, <1>5
<1> QED BY <1>2, <1>4, <1>5, <1>6, <1>7

\* What is in the network is in both.
LEMMA ClippedHolds ==
  ASSUME NEW network \in Ranges, NEW rs \in Seq(Rgs)
  PROVE  /\ Clipped(network, rs) \in Seq(Rgs)
         /\ Addresses(Clipped(network, rs)) = Addresses(rs) \cap (network.lo .. network.hi)
<1> DEFINE P == {i \in DOMAIN rs : rs[i].lo <= network.hi /\ network.lo <= rs[i].hi}
           over == Picked(rs, P)
           Clip(r) == [lo |-> Larger(r.lo, network.lo), hi |-> Smaller(r.hi, network.hi)]
           q == Clipped(network, rs)
<1>1. network.lo \in Int /\ network.hi \in Int /\ network.lo <= network.hi
  <2>1. network \in Rgs BY RangeType
  <2> QED BY <2>1 DEF Rgs
<1>2. P \subseteq 1 .. Len(rs) OBVIOUS
<1>3. \A i \in 1 .. Len(rs) : rs[i] \in Rgs /\ rs[i].lo \in Int /\ rs[i].hi \in Int /\ rs[i].lo <= rs[i].hi BY AddressIn
<1>4. \A i \in P : rs[i].lo <= network.hi /\ network.lo <= rs[i].hi OBVIOUS
<1>5. \A i \in 1 .. Len(rs) : rs[i].lo <= network.hi /\ network.lo <= rs[i].hi => i \in P OBVIOUS
<1>6. q = [i \in DOMAIN over |-> Clip(over[i])] BY DEF Clipped
<1> HIDE DEF P
<1>7. over \in Seq(Rgs) /\ \E n \in Nat : \E f \in [1 .. n -> P] : Picks(over, rs, P, n, f) BY <1>2, PickedHolds
<1>8. PICK n \in Nat : \E f \in [1 .. n -> P] : Picks(over, rs, P, n, f) BY <1>7
<1>9. PICK f \in [1 .. n -> P] : Picks(over, rs, P, n, f) BY <1>8
<1>10. Len(over) = n /\ (\A k \in 1 .. n : over[k] = rs[f[k]]) /\ \A i \in P : \E k \in 1 .. n : f[k] = i BY <1>9 DEF Picks
<1>11. \A k \in 1 .. n : f[k] \in P /\ f[k] \in 1 .. Len(rs) BY <1>2
<1> HIDE DEF over, q
<1>12. \A i \in P : Clip(rs[i]) \in Rgs /\ Clip(rs[i]).lo = Larger(rs[i].lo, network.lo) /\ Clip(rs[i]).hi = Smaller(rs[i].hi, network.hi)
  <2> SUFFICES ASSUME NEW i \in P PROVE Clip(rs[i]) \in Rgs OBVIOUS
  <2>1. rs[i].lo \in Int /\ rs[i].hi \in Int /\ rs[i].lo <= rs[i].hi /\ rs[i].lo <= network.hi /\ network.lo <= rs[i].hi
    BY <1>2, <1>3, <1>4
  <2>2. Larger(rs[i].lo, network.lo) \in Int /\ Smaller(rs[i].hi, network.hi) \in Int
        /\ Larger(rs[i].lo, network.lo) <= Smaller(rs[i].hi, network.hi)
    BY <1>1, <2>1 DEF Larger, Smaller
  <2> QED BY <2>2 DEF Rgs
<1> HIDE DEF Clip
<1>13. q \in Seq(Rgs) /\ Len(q) = n /\ \A k \in 1 .. n : q[k] = Clip(rs[f[k]])
  <2>1. DOMAIN over = 1 .. n BY <1>7, <1>10
  <2>2. \A k \in 1 .. n : Clip(over[k]) = Clip(rs[f[k]]) /\ Clip(over[k]) \in Rgs BY <1>10, <1>11, <1>12
  <2>3. q = [k \in 1 .. n |-> Clip(over[k])] BY <1>6, <2>1
  <2>4. q \in [1 .. n -> Rgs] BY <2>2, <2>3
  <2> QED BY <2>2, <2>3, <2>4
<1>14. \A a : a \in Addresses(q) <=> a \in Int /\ \E k \in 1 .. n : q[k].lo <= a /\ a <= q[k].hi BY <1>13, AddressIn
<1>15. \A a : a \in Addresses(rs) <=> a \in Int /\ \E i \in 1 .. Len(rs) : rs[i].lo <= a /\ a <= rs[i].hi BY AddressIn
<1>16. \A i \in P : \A a \in Int : Clip(rs[i]).lo <= a /\ a <= Clip(rs[i]).hi
                <=> rs[i].lo <= a /\ a <= rs[i].hi /\ network.lo <= a /\ a <= network.hi
  <2> SUFFICES ASSUME NEW i \in P, NEW a \in Int
               PROVE  Larger(rs[i].lo, network.lo) <= a /\ a <= Smaller(rs[i].hi, network.hi)
                <=> rs[i].lo <= a /\ a <= rs[i].hi /\ network.lo <= a /\ a <= network.hi
    BY <1>12
  <2>1. rs[i].lo \in Int /\ rs[i].hi \in Int BY <1>2, <1>3
  <2> QED BY <1>1, <2>1 DEF Larger, Smaller
<1>17. ASSUME NEW a, a \in Addresses(q) PROVE a \in Addresses(rs) /\ a \in network.lo .. network.hi
  <2>1. PICK k \in 1 .. n : a \in Int /\ q[k].lo <= a /\ a <= q[k].hi BY <1>14, <1>17
  <2>2. rs[f[k]].lo <= a /\ a <= rs[f[k]].hi /\ network.lo <= a /\ a <= network.hi BY <1>11, <1>13, <1>16, <2>1
  <2> QED BY <1>1, <1>11, <1>15, <2>1, <2>2
<1>18. ASSUME NEW a, a \in Addresses(rs), a \in network.lo .. network.hi PROVE a \in Addresses(q)
  <2>1. PICK i \in 1 .. Len(rs) : a \in Int /\ rs[i].lo <= a /\ a <= rs[i].hi BY <1>15, <1>18
  <2>2. network.lo <= a /\ a <= network.hi BY <1>1, <1>18
  <2>3. rs[i].lo <= network.hi /\ network.lo <= rs[i].hi BY <1>1, <1>3, <2>1, <2>2
  <2>4. i \in P BY <1>5, <2>3
  <2>5. PICK k \in 1 .. n : f[k] = i BY <1>10, <2>4
  <2>6. q[k].lo <= a /\ a <= q[k].hi BY <1>13, <1>16, <2>1, <2>2, <2>4, <2>5
  <2> QED BY <1>14, <2>1, <2>6
<1> QED BY <1>13, <1>17, <1>18 DEF q

\* Ranges that do not touch do not overlap.
LEMMA SpacedCloser ==
  ASSUME NEW rs \in Seq(Rgs), Spaced(rs, 1)
  PROVE  Spaced(rs, 0)
<1>1. ASSUME NEW i \in 1 .. Len(rs), NEW j \in 1 .. Len(rs), i < j PROVE rs[i].hi + 0 < rs[j].lo
  <2>1. rs[i].hi + 1 < rs[j].lo BY <1>1 DEF Spaced
  <2>2. rs[i].hi \in Int /\ rs[j].lo \in Int BY AddressIn
  <2> QED BY <2>1, <2>2
<1> QED BY <1>1 DEF Spaced

\* So the coverage counts every address once.
LEMMA CoverageHolds == ASSUME Entered PROVE CoverageIsExact
<1>1. SUFFICES ASSUME NEW network \in Ranges
               PROVE  Covered(network, Included) = Cardinality(Addresses(Included) \cap (network.lo .. network.hi))
  BY DEF CoverageIsExact
<1> DEFINE c == Clipped(network, Included)
           m == MergeRanges(c)
<1>2. Included \in Seq(Rgs) BY IncludedHolds
<1>3. c \in Seq(Rgs) /\ Addresses(c) = Addresses(Included) \cap (network.lo .. network.hi) BY <1>2, ClippedHolds
<1> HIDE DEF c
<1>4. m \in Seq(Rgs) /\ Spaced(m, 1) /\ Addresses(m) = Addresses(c) BY <1>3, MergeHolds
<1> HIDE DEF m
<1>5. Spaced(m, 0) BY <1>4, SpacedCloser
<1>6. Cardinality(Addresses(m)) = Amount(m) BY <1>4, <1>5, AmountHolds
<1> QED BY <1>3, <1>4, <1>6 DEF Covered, m, c

\* The owner of the block an address is in.
OwnerOf(a, size) == Owner[<<size, BlockOf(a, size)>>]

\* A piece is of one owner.
PieceSet(size) ==
    {p \in [lo : Int, hi : Int, owner : {OwnerOf(a, size) : a \in Int}] :
        p.lo <= p.hi /\ \A a \in Int : p.lo <= a /\ a <= p.hi => OwnerOf(a, size) = p.owner}
PieceOf(r, size, k) ==
    LET base == BlockOf(r.lo, size) + (k - 1) * size
    IN  [lo |-> Larger(r.lo, base), hi |-> Smaller(r.hi, base + size - 1), owner |-> Owner[<<size, base>>]]
PieceCount(r, size) == r.hi \div size - r.lo \div size + 1
CutUp(r, size) == [k \in 1 .. PieceCount(r, size) |-> PieceOf(r, size, k)]

\* Where the block of a piece begins.
LEMMA BaseIs ==
  ASSUME NEW r \in Rgs, NEW size \in Nat \ {0}, NEW k \in 1 .. PieceCount(r, size)
  PROVE  \E b \in Int :
            /\ b = BlockOf(r.lo, size) + (k - 1) * size /\ b = (r.lo \div size + (k - 1)) * size
            /\ b <= r.hi /\ r.lo < b + size
            /\ \A a \in Int : b <= a /\ a < b + size => BlockOf(a, size) = b
<1> DEFINE l == r.lo \div size
           h == r.hi \div size
           m == l + (k - 1)
           b == m * size
<1>1. r.lo \in Int /\ r.hi \in Int /\ r.lo <= r.hi /\ size \in Nat \ {0} BY DEF Rgs
<1>2. l \in Int /\ h \in Int /\ l * size <= r.lo /\ r.lo < l * size + size /\ h * size <= r.hi
  <2>1. l \in Int /\ r.lo % size \in Nat /\ r.lo % size < size /\ r.lo = l * size + (r.lo % size) BY <1>1, Division
  <2>2. h \in Int /\ r.hi % size \in Nat /\ r.hi % size < size /\ r.hi = h * size + (r.hi % size) BY <1>1, Division
  <2> DEFINE x == r.lo % size
             y == r.hi % size
  <2> HIDE DEF x, y, l, h
  <2>3. l * size \in Int /\ h * size \in Int BY <1>1, <2>1, <2>2
  <2> QED BY <1>1, <2>1, <2>2, <2>3 DEF x, y
<1>3. BlockOf(r.lo, size) + (k - 1) * size = l * size + (k - 1) * size BY DEF BlockOf
<1>4. k \in Int /\ 1 <= k /\ k <= h - l + 1 BY <1>2 DEF PieceCount
<1> HIDE DEF l, h
<1>5. l * size + (k - 1) * size = b /\ b \in Int BY <1>1, <1>2, <1>4
<1>6. m \in Int /\ m <= h /\ l <= m BY <1>2, <1>4
<1> HIDE DEF m
<1>7. b <= h * size /\ l * size <= b BY <1>1, <1>2, <1>6
<1>8. \A a \in Int : b <= a /\ a < b + size => BlockOf(a, size) = b
  <2> SUFFICES ASSUME NEW a \in Int, b <= a, a < b + size PROVE BlockOf(a, size) = b OBVIOUS
  <2>1. a \div size = m BY <1>1, <1>6, DivideIs
  <2> QED BY <2>1 DEF BlockOf
<1>9. b <= r.hi /\ r.lo < b + size
  <2>1. h * size \in Int /\ l * size \in Int BY <1>1, <1>2
  <2> HIDE DEF b
  <2> QED BY <1>1, <1>2, <1>5, <1>7, <2>1
<1> QED BY <1>3, <1>5, <1>8, <1>9 DEF m, l

\* A piece is what its range and its block have in common, and the owner is the block's.
LEMMA PieceHolds ==
  ASSUME NEW r \in Rgs, NEW size \in Nat \ {0}, NEW k \in 1 .. PieceCount(r, size)
  PROVE  /\ PieceOf(r, size, k) \in PieceSet(size)
         /\ r.lo <= PieceOf(r, size, k).lo /\ PieceOf(r, size, k).hi <= r.hi
         /\ (r.lo \div size + (k - 1)) * size <= PieceOf(r, size, k).lo
         /\ PieceOf(r, size, k).hi < (r.lo \div size + (k - 1)) * size + size
         /\ \A a \in Int : r.lo <= a /\ a <= r.hi
               /\ (r.lo \div size + (k - 1)) * size <= a /\ a < (r.lo \div size + (k - 1)) * size + size
               => PieceOf(r, size, k).lo <= a /\ a <= PieceOf(r, size, k).hi
<1>1. PICK b \in Int :
            /\ b = BlockOf(r.lo, size) + (k - 1) * size /\ b = (r.lo \div size + (k - 1)) * size
            /\ b <= r.hi /\ r.lo < b + size
            /\ \A a \in Int : b <= a /\ a < b + size => BlockOf(a, size) = b
  BY BaseIs
<1> DEFINE p == [lo |-> Larger(r.lo, b), hi |-> Smaller(r.hi, b + size - 1), owner |-> Owner[<<size, b>>]]
<1>2. PieceOf(r, size, k) = p BY <1>1 DEF PieceOf
<1>3. r.lo \in Int /\ r.hi \in Int /\ r.lo <= r.hi /\ size \in Nat \ {0} BY DEF Rgs
<1>4. /\ p.lo \in Int /\ p.hi \in Int /\ p.lo <= p.hi /\ r.lo <= p.lo /\ p.hi <= r.hi /\ b <= p.lo /\ p.hi < b + size
      /\ \A a \in Int : r.lo <= a /\ a <= r.hi /\ b <= a /\ a < b + size => p.lo <= a /\ a <= p.hi
  BY <1>1, <1>3 DEF Larger, Smaller
<1>5. \A a \in Int : p.lo <= a /\ a <= p.hi => OwnerOf(a, size) = p.owner
  <2> SUFFICES ASSUME NEW a \in Int, p.lo <= a, a <= p.hi PROVE OwnerOf(a, size) = p.owner OBVIOUS
  <2>1. b <= a /\ a < b + size
    <3> HIDE DEF p
    <3> QED BY <1>1, <1>3, <1>4
  <2>2. BlockOf(a, size) = b BY <1>1, <2>1
  <2> QED BY <2>2 DEF OwnerOf
<1>6. p.owner \in {OwnerOf(a, size) : a \in Int}
  <2>1. p.lo <= p.lo BY <1>4
  <2> QED BY <1>4, <1>5, <2>1
<1>7. p \in [lo : Int, hi : Int, owner : {OwnerOf(a, size) : a \in Int}] BY <1>4, <1>6
<1> HIDE DEF p
<1>8. p \in PieceSet(size) BY <1>4, <1>5, <1>7 DEF PieceSet
<1> QED BY <1>1, <1>2, <1>4, <1>8

\* The pieces of a range, in order, are all of it.
LEMMA CutUpHolds ==
  ASSUME NEW r \in Rgs, NEW size \in Nat \ {0}
  PROVE  /\ CutUp(r, size) \in Seq(PieceSet(size))
         /\ \A k \in 1 .. Len(CutUp(r, size)) : r.lo <= CutUp(r, size)[k].lo /\ CutUp(r, size)[k].hi <= r.hi
         /\ \A a \in Int : r.lo <= a /\ a <= r.hi =>
               \E k \in 1 .. Len(CutUp(r, size)) : CutUp(r, size)[k].lo <= a /\ a <= CutUp(r, size)[k].hi
         /\ \A j, k \in 1 .. Len(CutUp(r, size)) : j < k => CutUp(r, size)[j].hi < CutUp(r, size)[k].lo
<1> DEFINE n == PieceCount(r, size)
           q == CutUp(r, size)
           l == r.lo \div size
           h == r.hi \div size
<1>1. r.lo \in Int /\ r.hi \in Int /\ r.lo <= r.hi /\ size \in Nat \ {0} BY DEF Rgs
<1>2. l \in Int /\ h \in Int BY <1>1, Division
<1>3. \A x, y \in Int : x <= y => x \div size <= y \div size
  <2> SUFFICES ASSUME NEW x \in Int, NEW y \in Int, x <= y PROVE x \div size <= y \div size OBVIOUS
  <2> DEFINE u == x \div size
             v == y \div size
             s == x % size
             t == y % size
  <2>1. u \in Int /\ s \in Nat /\ s < size /\ x = u * size + s BY <1>1, Division
  <2>2. v \in Int /\ t \in Nat /\ t < size /\ y = v * size + t BY <1>1, Division
  <2> HIDE DEF u, v, s, t
  <2>3. SUFFICES ASSUME v < u PROVE FALSE BY <2>1, <2>2 DEF u, v
  <2>4. v * size + size <= u * size
    <3>1. v + 1 <= u BY <2>1, <2>2, <2>3
    <3>2. (v + 1) * size <= u * size BY <1>1, <2>1, <2>2, <3>1
    <3> QED BY <1>1, <2>1, <2>2, <3>2
  <2>5. v * size \in Int /\ u * size \in Int BY <1>1, <2>1, <2>2
  <2> QED BY <1>1, <2>1, <2>2, <2>4, <2>5
<1>4. n = h - l + 1 /\ n \in Nat BY <1>1, <1>2, <1>3 DEF PieceCount
<1>5. q = [k \in 1 .. n |-> PieceOf(r, size, k)] BY DEF CutUp
<1>6. \A k \in 1 .. n : PieceOf(r, size, k) \in PieceSet(size) BY PieceHolds
<1> HIDE DEF n, q
<1>7. q \in Seq(PieceSet(size)) /\ Len(q) = n /\ \A k \in 1 .. n : q[k] = PieceOf(r, size, k)
  <2>1. q \in [1 .. n -> PieceSet(size)] BY <1>5, <1>6
  <2> QED BY <1>4, <1>5, <2>1
<1>8. \A k \in 1 .. n : /\ r.lo <= q[k].lo /\ q[k].hi <= r.hi
                        /\ (l + (k - 1)) * size <= q[k].lo /\ q[k].hi < (l + (k - 1)) * size + size
  BY <1>7, PieceHolds DEF n
<1>9. ASSUME NEW a \in Int, r.lo <= a, a <= r.hi PROVE \E k \in 1 .. n : q[k].lo <= a /\ a <= q[k].hi
  <2> DEFINE m == a \div size
             k == m - l + 1
             s == a % size
  <2>1. m \in Int /\ s \in Nat /\ s < size /\ a = m * size + s BY <1>1, Division
  <2>2. l <= m /\ m <= h BY <1>1, <1>3, <1>9
  <2> HIDE DEF m, l, h, s
  <2>3. k \in 1 .. n /\ l + (k - 1) = m BY <1>2, <1>4, <2>1, <2>2
  <2> HIDE DEF k
  <2>4. m * size <= a /\ a < m * size + size
    <3>1. m * size \in Int BY <1>1, <2>1
    <3> QED BY <1>1, <2>1, <3>1
  <2>5. (l + (k - 1)) * size <= a /\ a < (l + (k - 1)) * size + size BY <2>3, <2>4
  <2>6. PieceOf(r, size, k).lo <= a /\ a <= PieceOf(r, size, k).hi BY <1>9, <2>3, <2>5, PieceHolds DEF l, n
  <2> QED BY <1>7, <2>3, <2>6
<1>10. ASSUME NEW j \in 1 .. n, NEW k \in 1 .. n, j < k PROVE q[j].hi < q[k].lo
  <2> DEFINE x == (l + (j - 1)) * size
             y == (l + (k - 1)) * size
  <2> HIDE DEF l
  <2>1. j \in Int /\ k \in Int /\ j + 1 <= k BY <1>10
  <2>2. x + size <= y /\ x \in Int /\ y \in Int
    <3>1. (l + (j - 1)) + 1 <= l + (k - 1) BY <1>2, <2>1
    <3>2. ((l + (j - 1)) + 1) * size <= (l + (k - 1)) * size BY <1>1, <1>2, <2>1, <3>1
    <3>3. ((l + (j - 1)) + 1) * size = x + size BY <1>1, <1>2, <2>1
    <3> QED BY <1>1, <1>2, <2>1, <3>2, <3>3
  <2>3. q[j].hi < x + size /\ y <= q[k].lo BY <1>8
  <2>4. q[j].hi \in Int /\ q[k].lo \in Int
    <3>1. q[j] \in PieceSet(size) /\ q[k] \in PieceSet(size) BY <1>6, <1>7
    <3> QED BY <3>1 DEF PieceSet
  <2> HIDE DEF x, y
  <2> QED BY <1>1, <2>2, <2>3, <2>4
<1> QED BY <1>7, <1>8, <1>9, <1>10 DEF q

\* All of a target is in its pieces, which come in order,
LEMMA PiecesHold ==
  ASSUME NEW rs \in Seq(Rgs), NEW size \in Nat \ {0}
  PROVE  /\ Pieces(rs, size) \in Seq(PieceSet(size))
         /\ \A j, k \in 1 .. Len(Pieces(rs, size)) : j < k => Pieces(rs, size)[j].hi < Pieces(rs, size)[k].lo
         /\ \A a \in Int : a \in Addresses(rs)
               <=> \E k \in 1 .. Len(Pieces(rs, size)) : Pieces(rs, size)[k].lo <= a /\ a <= Pieces(rs, size)[k].hi
<1> DEFINE m == MergeRanges(rs)
           n == Len(m)
           T == PieceSet(size)
           R == {pp \in T \X T : pp[1].hi < pp[2].lo}
           ss == [i \in DOMAIN m |-> CutUp(m[i], size)]
           q == Pieces(rs, size)
<1>1. m \in Seq(Rgs) /\ Spaced(m, 1) /\ Addresses(m) = Addresses(rs) BY MergeHolds
<1>2. q = FlattenSeq(ss) BY DEF Pieces, CutUp, PieceCount, PieceOf
<1> HIDE DEF m, q
<1>3. n \in Nat /\ DOMAIN m = 1 .. n BY <1>1
<1>4. \A i \in 1 .. n : m[i] \in Rgs /\ m[i].lo \in Int /\ m[i].hi \in Int /\ m[i].lo <= m[i].hi BY <1>1, AddressIn
<1>5. \A i \in 1 .. n : CutUp(m[i], size) \in Seq(T) BY <1>4, CutUpHolds
<1> HIDE DEF T
<1>6. ss \in Seq(Seq(T)) /\ Len(ss) = n /\ \A i \in 1 .. n : ss[i] = CutUp(m[i], size)
  <2>1. ss \in [1 .. n -> Seq(T)] BY <1>3, <1>5
  <2> QED BY <1>3, <2>1
<1> HIDE DEF ss
<1>7. \A i \in 1 .. n : \A k \in 1 .. Len(ss[i]) : m[i].lo <= ss[i][k].lo /\ ss[i][k].hi <= m[i].hi
  BY <1>4, <1>6, CutUpHolds
<1>8. \A i \in 1 .. n : \A a \in Int : m[i].lo <= a /\ a <= m[i].hi =>
          \E k \in 1 .. Len(ss[i]) : ss[i][k].lo <= a /\ a <= ss[i][k].hi
  <2>1. \A i \in 1 .. n : \A a \in Int : m[i].lo <= a /\ a <= m[i].hi =>
          \E k \in 1 .. Len(CutUp(m[i], size)) : CutUp(m[i], size)[k].lo <= a /\ a <= CutUp(m[i], size)[k].hi
    BY <1>4, CutUpHolds
  <2> QED BY <1>6, <2>1
<1>9. \A i \in 1 .. n : \A k \in 1 .. Len(ss[i]) : ss[i][k] \in T
  <2> SUFFICES ASSUME NEW i \in 1 .. n PROVE \A k \in 1 .. Len(ss[i]) : ss[i][k] \in T OBVIOUS
  <2>1. ss[i] \in Seq(T) BY <1>6
  <2> QED BY <2>1
<1>10. \A p \in T : p.lo \in Int /\ p.hi \in Int /\ p.lo <= p.hi BY DEF T, PieceSet
<1>11. ASSUME NEW i \in 1 .. n, NEW j \in 1 .. Len(ss[i]), NEW k \in 1 .. Len(ss[i]), j < k
       PROVE  <<ss[i][j], ss[i][k]>> \in R
  <2>1. \A x, y \in 1 .. Len(ss[i]) : x < y => ss[i][x].hi < ss[i][y].lo BY <1>4, <1>6, CutUpHolds
  <2> QED BY <1>9, <1>11, <2>1
<1>12. ASSUME NEW g \in 1 .. n, NEW i \in 1 .. n, g < i, NEW j \in 1 .. Len(ss[g]), NEW k \in 1 .. Len(ss[i])
       PROVE  <<ss[g][j], ss[i][k]>> \in R
  <2>1. m[g].hi + 1 < m[i].lo BY <1>1, <1>12 DEF Spaced
  <2>2. ss[g][j].hi <= m[g].hi /\ m[i].lo <= ss[i][k].lo BY <1>7
  <2>3. ss[g][j] \in T /\ ss[i][k] \in T BY <1>9
  <2>4. ss[g][j].hi \in Int /\ ss[i][k].lo \in Int /\ m[g].hi \in Int /\ m[i].lo \in Int BY <1>4, <1>10, <2>3
  <2>5. ss[g][j].hi < ss[i][k].lo
    <3>1. \A v, w, x, y \in Int : v <= w /\ w + 1 < x /\ x <= y => v < y OBVIOUS
    <3> QED BY <2>1, <2>2, <2>4, <3>1
  <2> QED BY <2>3, <2>5
<1>13. Chained(FlattenSeq(ss), ss, T, R)
  <2> HIDE DEF R, n
  <2>1. \A i \in 1 .. Len(ss) : \A j, k \in 1 .. Len(ss[i]) : j < k => <<ss[i][j], ss[i][k]>> \in R BY <1>6, <1>11
  <2>2. \A g, i \in 1 .. Len(ss) : g < i =>
           \A j \in 1 .. Len(ss[g]), k \in 1 .. Len(ss[i]) : <<ss[g][j], ss[i][k]>> \in R BY <1>6, <1>12
  <2>3. ss \in Seq(Seq(T)) BY <1>6
  <2> QED BY <2>1, <2>2, <2>3, FlattenHolds
<1>14. /\ q \in Seq(T)
       /\ \A k \in 1 .. Len(q) : \E i \in 1 .. n : \E j \in 1 .. Len(ss[i]) : q[k] = ss[i][j]
       /\ \A i \in 1 .. n : \A j \in 1 .. Len(ss[i]) : \E k \in 1 .. Len(q) : q[k] = ss[i][j]
       /\ \A j, k \in 1 .. Len(q) : j < k => <<q[j], q[k]>> \in R
  BY <1>2, <1>6, <1>13 DEF Chained
<1>15. \A j, k \in 1 .. Len(q) : j < k => q[j].hi < q[k].lo
  <2> SUFFICES ASSUME NEW j \in 1 .. Len(q), NEW k \in 1 .. Len(q), j < k PROVE q[j].hi < q[k].lo OBVIOUS
  <2>1. <<q[j], q[k]>> \in R BY <1>14
  <2> QED BY <2>1
<1> HIDE DEF R, n
<1>16. \A a : a \in Addresses(m) <=> a \in Int /\ \E i \in 1 .. n : m[i].lo <= a /\ a <= m[i].hi BY <1>1, AddressIn DEF n
<1>17. ASSUME NEW a \in Int, a \in Addresses(m) PROVE \E k \in 1 .. Len(q) : q[k].lo <= a /\ a <= q[k].hi
  <2>1. PICK i \in 1 .. n : m[i].lo <= a /\ a <= m[i].hi BY <1>16, <1>17
  <2>2. PICK j \in 1 .. Len(ss[i]) : ss[i][j].lo <= a /\ a <= ss[i][j].hi BY <1>8, <2>1
  <2>3. PICK k \in 1 .. Len(q) : q[k] = ss[i][j] BY <1>14
  <2> QED BY <2>2, <2>3
<1>18. ASSUME NEW a \in Int, NEW k \in 1 .. Len(q), q[k].lo <= a, a <= q[k].hi PROVE a \in Addresses(m)
  <2>1. PICK i \in 1 .. n : \E j \in 1 .. Len(ss[i]) : q[k] = ss[i][j] BY <1>14
  <2>2. PICK j \in 1 .. Len(ss[i]) : q[k] = ss[i][j] BY <2>1
  <2>3. m[i].lo <= ss[i][j].lo /\ ss[i][j].hi <= m[i].hi /\ ss[i][j] \in T BY <1>7, <1>9
  <2>4. ss[i][j].lo \in Int /\ ss[i][j].hi \in Int /\ m[i].lo \in Int /\ m[i].hi \in Int BY <1>4, <1>10, <2>3
  <2>5. m[i].lo <= a /\ a <= m[i].hi
    <3>1. ss[i][j].lo <= a /\ a <= ss[i][j].hi BY <1>18, <2>2
    <3> QED BY <2>3, <2>4, <3>1
  <2> QED BY <1>16, <2>5
<1> QED BY <1>1, <1>14, <1>15, <1>17, <1>18 DEF q, T

\* What an owner gets: the addresses of its blocks, each once.
LEMMA ShareHolds ==
  ASSUME NEW rs \in Seq(Rgs), NEW size \in Nat \ {0}, NEW id
  PROVE  /\ ShareOf(id, rs, size) \in Seq(Rgs)
         /\ Addresses(ShareOf(id, rs, size)) = {a \in Addresses(rs) : OwnerOf(a, size) = id}
         /\ Amount(ShareOf(id, rs, size)) = Cardinality(Addresses(ShareOf(id, rs, size)))
<1> DEFINE T == PieceSet(size)
           p == Pieces(rs, size)
           P == {i \in DOMAIN p : p[i].owner = id}
           own == Picked(p, P)
           q == [i \in DOMAIN own |-> [lo |-> own[i].lo, hi |-> own[i].hi]]
           out == ShareOf(id, rs, size)
<1>1. /\ p \in Seq(T)
      /\ \A j, k \in 1 .. Len(p) : j < k => p[j].hi < p[k].lo
      /\ \A a \in Int : a \in Addresses(rs) <=> \E k \in 1 .. Len(p) : p[k].lo <= a /\ a <= p[k].hi
  BY PiecesHold
<1>2. out = Joined(q) BY DEF ShareOf
<1>3. \A x \in T : /\ x.lo \in Int /\ x.hi \in Int /\ x.lo <= x.hi
                   /\ \A a \in Int : x.lo <= a /\ a <= x.hi => OwnerOf(a, size) = x.owner
  BY DEF PieceSet
<1> HIDE DEF p, T, out
<1>4. \A k \in 1 .. Len(p) : p[k] \in T BY <1>1
<1>5. P \subseteq 1 .. Len(p) /\ \A k \in 1 .. Len(p) : k \in P <=> p[k].owner = id
  <2>1. DOMAIN p = 1 .. Len(p) BY <1>1
  <2> QED BY <2>1
<1> HIDE DEF P
<1>6. own \in Seq(T) /\ \E n \in Nat : \E f \in [1 .. n -> P] : Picks(own, p, P, n, f) BY <1>1, <1>5, PickedHolds
<1>7. PICK n \in Nat : \E f \in [1 .. n -> P] : Picks(own, p, P, n, f) BY <1>6
<1>8. PICK f \in [1 .. n -> P] : Picks(own, p, P, n, f) BY <1>7
<1>9. /\ Len(own) = n /\ \A k \in 1 .. n : own[k] = p[f[k]]
      /\ \A i \in P : \E k \in 1 .. n : f[k] = i
      /\ \A j, k \in 1 .. n : j < k => f[j] < f[k]
  BY <1>8 DEF Picks
<1> HIDE DEF own
<1>10. \A k \in 1 .. n : f[k] \in P /\ f[k] \in 1 .. Len(p) /\ p[f[k]] \in T /\ p[f[k]].owner = id
  <2> SUFFICES ASSUME NEW k \in 1 .. n PROVE f[k] \in P /\ f[k] \in 1 .. Len(p) /\ p[f[k]] \in T /\ p[f[k]].owner = id OBVIOUS
  <2>1. f[k] \in P OBVIOUS
  <2> QED BY <1>4, <1>5, <2>1
<1>11. q \in Seq(Rgs) /\ Len(q) = n /\ \A k \in 1 .. n : q[k].lo = p[f[k]].lo /\ q[k].hi = p[f[k]].hi
  <2>1. DOMAIN own = 1 .. n BY <1>6, <1>9
  <2>2. \A k \in 1 .. n : [lo |-> own[k].lo, hi |-> own[k].hi] \in Rgs BY <1>3, <1>9, <1>10 DEF Rgs
  <2>3. q \in [1 .. n -> Rgs] BY <2>1, <2>2
  <2>4. q \in Seq(Rgs) /\ Len(q) = n BY <2>3
  <2> QED BY <1>9, <2>1, <2>4
<1> HIDE DEF q
<1>12. \A j, k \in 1 .. n : j < k => q[j].lo <= q[k].lo
  <2> SUFFICES ASSUME NEW j \in 1 .. n, NEW k \in 1 .. n, j < k PROVE q[j].lo <= q[k].lo OBVIOUS
  <2>1. f[j] < f[k] BY <1>9
  <2>2. p[f[j]].hi < p[f[k]].lo BY <1>1, <1>10, <2>1
  <2>3. p[f[j]].lo \in Int /\ p[f[j]].hi \in Int /\ p[f[j]].lo <= p[f[j]].hi /\ p[f[k]].lo \in Int BY <1>3, <1>10
  <2> QED BY <1>11, <2>2, <2>3
<1>13. out \in Seq(Rgs) /\ Spaced(out, 1) /\ Addresses(out) = Addresses(q) BY <1>2, <1>11, <1>12, JoinedHolds
<1>14. Amount(out) = Cardinality(Addresses(out))
  <2>1. Spaced(out, 0) BY <1>13, SpacedCloser
  <2> QED BY <1>13, <2>1, AmountHolds
<1>15. \A a : a \in Addresses(q) <=> a \in Int /\ \E k \in 1 .. n : q[k].lo <= a /\ a <= q[k].hi BY <1>11, AddressIn
<1>16. Addresses(rs) \subseteq Int BY AddressIn
<1>17. ASSUME NEW a, a \in Addresses(q) PROVE a \in Addresses(rs) /\ OwnerOf(a, size) = id
  <2>1. PICK k \in 1 .. n : a \in Int /\ q[k].lo <= a /\ a <= q[k].hi BY <1>15, <1>17
  <2>2. p[f[k]].lo <= a /\ a <= p[f[k]].hi BY <1>11, <2>1
  <2>3. f[k] \in 1 .. Len(p) /\ p[f[k]] \in T /\ p[f[k]].owner = id BY <1>10
  <2> QED BY <1>1, <1>3, <2>1, <2>2, <2>3
<1>18. ASSUME NEW a \in Addresses(rs), OwnerOf(a, size) = id PROVE a \in Addresses(q)
  <2>1. PICK i \in 1 .. Len(p) : p[i].lo <= a /\ a <= p[i].hi BY <1>1, <1>16
  <2>2. p[i].owner = id BY <1>3, <1>4, <1>16, <1>18, <2>1
  <2>3. PICK k \in 1 .. n : f[k] = i BY <1>5, <1>9, <2>2
  <2> QED BY <1>11, <1>15, <1>16, <2>1, <2>3
<1> QED BY <1>13, <1>14, <1>17, <1>18 DEF out

\* Of numbers there is a least.
LEMMA LeastOf ==
  ASSUME NEW S, S \subseteq Nat, S # {}
  PROVE  \E x \in S : \A y \in S : x <= y
<1> DEFINE Less == {ss \in Nat \X Nat : ss[1] < ss[2]}
<1>1. IsWellFoundedOn(Less, Nat) BY NatLessThanWellFounded DEF OpToRel
<1>2. PICK x \in S : \A y \in S : ~(<<y, x>> \in Less) BY <1>1, WFMin
<1>3. \A y \in S : ~(y < x) BY <1>2
<1> QED BY <1>3

\* A size that is found is one of those tried.
LEMMA SizeType == ASSUME NEW target PROVE SplitSize(target) = 0 \/ SplitSize(target) \in Nat \ {0}
<1> DEFINE fits(size) ==
               /\ Len(Pieces(target.ranges, size)) <= MaxBlocks
               /\ \A id \in ScannerIds :
                    TextLength(ShareOf(id, target.ranges, size)) + (IF HasName(id, target) THEN 1 ELSE 0) <= MaxText
           S == {i \in DOMAIN SplitSizes : fits(SplitSizes[i])}
           first == CHOOSE i \in S : \A j \in S : i <= j
<1>1. SplitSize(target) = IF S = {} THEN 0 ELSE SplitSizes[first] BY DEF SplitSize
<1>2. SplitSizes \in Seq(Nat \ {0}) BY TargetAssumption
<1>3. S \subseteq Nat /\ S \subseteq 1 .. Len(SplitSizes) BY <1>2
<1> HIDE DEF S
<1>4. CASE S # {}
  <2>1. \E i \in S : \A j \in S : i <= j BY <1>3, <1>4, LeastOf
  <2>2. first \in S BY <2>1
  <2> HIDE DEF first
  <2>3. SplitSizes[first] \in Nat \ {0} BY <1>2, <1>3, <2>2
  <2> QED BY <1>1, <1>4, <2>3
<1> QED BY <1>1, <1>4

\* So the split is exact.
LEMMA SplitHolds == ASSUME Entered PROVE SplitIsExact
<1> DEFINE target == ExpandTarget
           size == SplitSize(target)
<1>1. target.ranges \in Seq(Rgs) /\ Addresses(target.ranges) = MeantTarget BY TargetHolds
<1> HIDE DEF target
<1>2. size = 0 \/ size \in Nat \ {0} BY SizeType
<1> HIDE DEF size
<1>3. ASSUME size # 0, NEW id \in ScannerIds
      PROVE  /\ Addresses(ShareOf(id, target.ranges, size)) = {a \in MeantTarget : Owner[<<size, BlockOf(a, size)>>] = id}
             /\ Amount(ShareOf(id, target.ranges, size)) = Cardinality(Addresses(ShareOf(id, target.ranges, size)))
  <2>1. size \in Nat \ {0} BY <1>2, <1>3
  <2>2. /\ Addresses(ShareOf(id, target.ranges, size)) = {a \in Addresses(target.ranges) : OwnerOf(a, size) = id}
        /\ Amount(ShareOf(id, target.ranges, size)) = Cardinality(Addresses(ShareOf(id, target.ranges, size)))
    BY <1>1, <2>1, ShareHolds
  <2> QED BY <1>1, <2>2 DEF OwnerOf
<1>4. ASSUME target.named PROVE Cardinality({id \in ScannerIds : HasName(id, target)}) = 1
  <2>1. Owner[<<0, 0>>] \in ScannerIds BY TargetAssumption
  <2>2. {id \in ScannerIds : HasName(id, target)} = {Owner[<<0, 0>>]} BY <1>4, <2>1 DEF HasName
  <2> QED BY <2>2, FS_Singleton
<1> QED BY <1>3, <1>4 DEF SplitIsExact, target, size

(***************************************************************************)
(* Blocks, one after the other.                                            *)
(***************************************************************************)
Laid(ss) ==
    /\ ss \in Seq(Seq(Rgs))
    /\ \A i \in 1 .. Len(ss) : Spaced(ss[i], 0)
    /\ \A g, i \in 1 .. Len(ss) : g < i => \A j \in 1 .. Len(ss[g]), k \in 1 .. Len(ss[i]) : ss[g][j].hi < ss[i][k].lo
Covers(ss) == UNION {Addresses(ss[i]) : i \in 1 .. Len(ss)}

\* One more at the end.
LEMMA AppendHolds ==
  ASSUME NEW T, NEW s \in Seq(T), NEW x \in T
  PROVE  /\ Append(s, x) \in Seq(T) /\ Len(Append(s, x)) = Len(s) + 1 /\ Len(s) \in Nat
         /\ Append(s, x)[Len(s) + 1] = x /\ \A k \in 1 .. Len(s) : Append(s, x)[k] = s[k]
OBVIOUS

\* A block more covers its addresses more.
LEMMA CoversAppend ==
  ASSUME NEW ss \in Seq(Seq(Rgs)), NEW b \in Seq(Rgs)
  PROVE  Covers(Append(ss, b)) = Covers(ss) \cup Addresses(b)
<1> DEFINE q == Append(ss, b)
           n == Len(ss)
<1>1. Len(q) = n + 1 /\ n \in Nat /\ q[n + 1] = b /\ \A k \in 1 .. n : q[k] = ss[k] BY AppendHolds
<1> HIDE DEF q, n
<1>2. \A k \in 1 .. n + 1 : k \in 1 .. n \/ k = n + 1 BY <1>1
<1>3. n + 1 \in 1 .. n + 1 /\ \A k \in 1 .. n : k \in 1 .. n + 1 BY <1>1
<1>4. \A a : a \in Covers(q) <=> \E k \in 1 .. n + 1 : a \in Addresses(q[k]) BY <1>1 DEF Covers
<1>5. \A a : a \in Covers(ss) <=> \E k \in 1 .. n : a \in Addresses(ss[k]) BY DEF Covers, n
<1>6. \A a : a \in Covers(q) <=> a \in Covers(ss) \/ a \in Addresses(b) BY <1>1, <1>2, <1>3, <1>4, <1>5
<1> QED BY <1>6 DEF q

\* Every end of a range is an address.
LEMMA EndsAreIn ==
  ASSUME NEW ss \in Seq(Seq(Rgs)), NEW i \in 1 .. Len(ss), NEW j \in 1 .. Len(ss[i])
  PROVE  /\ ss[i][j] \in Rgs /\ ss[i][j].lo \in Int /\ ss[i][j].hi \in Int /\ ss[i][j].lo <= ss[i][j].hi
         /\ ss[i][j].lo \in Addresses(ss[i]) /\ ss[i][j].hi \in Addresses(ss[i]) /\ ss[i][j].hi \in Covers(ss)
<1>1. ss[i] \in Seq(Rgs) OBVIOUS
<1>2. ss[i][j] \in Rgs /\ ss[i][j].lo \in Int /\ ss[i][j].hi \in Int /\ ss[i][j].lo <= ss[i][j].hi BY <1>1, AddressIn
<1>3. \A a : a \in Addresses(ss[i]) <=> a \in Int /\ \E k \in 1 .. Len(ss[i]) : ss[i][k].lo <= a /\ a <= ss[i][k].hi
  BY <1>1, AddressIn
<1>4. ss[i][j].lo <= ss[i][j].lo /\ ss[i][j].hi <= ss[i][j].hi BY <1>2
<1>5. ss[i][j].lo \in Addresses(ss[i]) /\ ss[i][j].hi \in Addresses(ss[i]) BY <1>2, <1>3, <1>4
<1> QED BY <1>2, <1>5 DEF Covers

\* A block after all others.
LEMMA LaidAppend ==
  ASSUME NEW ss, Laid(ss), NEW b \in Seq(Rgs), Spaced(b, 0), \A a \in Covers(ss) : \A k \in 1 .. Len(b) : a < b[k].lo
  PROVE  Laid(Append(ss, b))
<1> DEFINE q == Append(ss, b)
           n == Len(ss)
<1>0. ss \in Seq(Seq(Rgs)) BY DEF Laid
<1>1. q \in Seq(Seq(Rgs)) /\ Len(q) = n + 1 /\ n \in Nat /\ q[n + 1] = b /\ \A k \in 1 .. n : q[k] = ss[k]
  BY <1>0, AppendHolds
<1> HIDE DEF q
<1>2. \A k \in 1 .. n + 1 : k \in 1 .. n \/ k = n + 1 BY <1>1
<1>3. \A i \in 1 .. n + 1 : Spaced(q[i], 0) BY <1>1, <1>2 DEF Laid
<1>4. ASSUME NEW g \in 1 .. n + 1, NEW i \in 1 .. n + 1, g < i, NEW j \in 1 .. Len(q[g]), NEW k \in 1 .. Len(q[i])
      PROVE  q[g][j].hi < q[i][k].lo
  <2>1. g \in 1 .. n BY <1>1, <1>4
  <2>2. q[g] = ss[g] BY <1>1, <2>1
  <2>3. CASE i \in 1 .. n
    <3>1. q[i] = ss[i] BY <1>1, <2>3
    <3> QED BY <1>4, <2>1, <2>2, <2>3, <3>1 DEF Laid
  <2>4. CASE i = n + 1
    <3>1. ss[g][j].hi \in Covers(ss) BY <1>0, <2>1, <2>2, EndsAreIn
    <3> QED BY <1>1, <2>2, <2>4, <3>1
  <2> QED BY <1>2, <2>3, <2>4
<1> QED BY <1>1, <1>3, <1>4 DEF Laid, q

\* Without the last.
LEMMA LaidFront ==
  ASSUME NEW ss \in Seq(Seq(Rgs)), NEW b \in Seq(Rgs), Laid(Append(ss, b))
  PROVE  /\ Laid(ss) /\ Spaced(b, 0) /\ \A a \in Covers(ss) : \A k \in 1 .. Len(b) : a < b[k].lo
<1> DEFINE q == Append(ss, b)
           n == Len(ss)
<1>1. q \in Seq(Seq(Rgs)) /\ Len(q) = n + 1 /\ n \in Nat /\ q[n + 1] = b /\ \A k \in 1 .. n : q[k] = ss[k]
  BY AppendHolds
<1>2. Laid(q) OBVIOUS
<1> HIDE DEF q
<1>3. n + 1 \in 1 .. n + 1 /\ \A k \in 1 .. n : k \in 1 .. n + 1 /\ k < n + 1 BY <1>1
<1>4. Spaced(b, 0) /\ \A k \in 1 .. n : Spaced(ss[k], 0) BY <1>1, <1>2, <1>3 DEF Laid
<1>5. \A g, i \in 1 .. n : g < i => \A j \in 1 .. Len(ss[g]), k \in 1 .. Len(ss[i]) : ss[g][j].hi < ss[i][k].lo
  BY <1>1, <1>2, <1>3 DEF Laid
<1>6. ASSUME NEW a \in Covers(ss), NEW k \in 1 .. Len(b) PROVE a < b[k].lo
  <2>1. PICK g \in 1 .. n : a \in Addresses(ss[g]) BY DEF Covers
  <2>2. ss[g] \in Seq(Rgs) OBVIOUS
  <2>3. PICK j \in 1 .. Len(ss[g]) : a \in Int /\ a <= ss[g][j].hi BY <2>1, <2>2, AddressIn
  <2>4. ss[g][j].hi < b[k].lo BY <1>1, <1>2, <1>3 DEF Laid
  <2>5. ss[g][j].hi \in Int /\ b[k].lo \in Int
    <3>1. ss[g][j].hi \in Int BY EndsAreIn
    <3>2. b[k].lo \in Int BY AddressIn
    <3> QED BY <3>1, <3>2
  <2> QED BY <2>3, <2>4, <2>5
<1> QED BY <1>4, <1>5, <1>6 DEF Laid

\* A range at the end of the last block.
LEMMA LaidFurther ==
  ASSUME NEW ss \in Seq(Seq(Rgs)), NEW b \in Seq(Rgs), Laid(Append(ss, b)), NEW r \in Rgs,
         \A a \in Covers(Append(ss, b)) : a < r.lo
  PROVE  /\ Laid(Append(ss, Append(b, r)))
         /\ Covers(Append(ss, Append(b, r))) = Covers(Append(ss, b)) \cup Hull(r)
<1> DEFINE c == Append(b, r)
<1>1. Laid(ss) /\ Spaced(b, 0) /\ \A a \in Covers(ss) : \A k \in 1 .. Len(b) : a < b[k].lo BY LaidFront
<1>2. c \in Seq(Rgs) /\ Len(c) = Len(b) + 1 /\ Len(b) \in Nat /\ c[Len(b) + 1] = r /\ \A k \in 1 .. Len(b) : c[k] = b[k]
  BY AppendHolds
<1>3. Addresses(c) = Addresses(b) \cup Hull(r) BY AppendAddresses DEF Hull
<1>4. Covers(Append(ss, b)) = Covers(ss) \cup Addresses(b) BY CoversAppend
<1>5. Spaced(c, 0)
  <2>1. b # <<>> => b[Len(b)].hi + 0 < r.lo
    <3>1. SUFFICES ASSUME b # <<>> PROVE b[Len(b)].hi + 0 < r.lo OBVIOUS
    <3>2. Len(b) \in 1 .. Len(b) BY <3>1
    <3>3. b[Len(b)].lo \in Int /\ b[Len(b)].hi \in Int /\ b[Len(b)].lo <= b[Len(b)].hi BY <3>2, AddressIn
    <3>4. \A a : a \in Addresses(b) <=> a \in Int /\ \E k \in 1 .. Len(b) : b[k].lo <= a /\ a <= b[k].hi BY AddressIn
    <3>5. b[Len(b)].hi \in Addresses(b) BY <3>2, <3>3, <3>4
    <3> QED BY <1>4, <3>3, <3>5
  <2>2. 0 \in Int /\ 0 <= 0 OBVIOUS
  <2> QED BY <1>1, <2>1, <2>2, AppendSpaced
<1>6. \A a \in Covers(ss) : \A k \in 1 .. Len(c) : a < c[k].lo
  <2>1. \A k \in 1 .. Len(c) : k \in 1 .. Len(b) \/ k = Len(b) + 1 BY <1>2
  <2> QED BY <1>1, <1>2, <1>4, <2>1
<1> HIDE DEF c
<1>7. Laid(Append(ss, c)) BY <1>1, <1>2, <1>5, <1>6, LaidAppend
<1>8. Covers(Append(ss, c)) = Covers(ss) \cup Addresses(c) BY <1>2, CoversAppend
<1> QED BY <1>3, <1>4, <1>7, <1>8 DEF c

\* An empty block more changes nothing.
LEMMA LaidEmpty ==
  ASSUME NEW ss \in Seq(Seq(Rgs))
  PROVE  /\ Laid(ss) <=> Laid(Append(ss, <<>>))
         /\ Covers(Append(ss, <<>>)) = Covers(ss)
<1>1. <<>> \in Seq(Rgs) /\ Len(<<>>) = 0 OBVIOUS
<1>2. Addresses(<<>>) = {} /\ Spaced(<<>>, 0) BY DEF Addresses, Spaced
<1>3. Covers(Append(ss, <<>>)) = Covers(ss) \cup Addresses(<<>>) BY <1>1, CoversAppend
<1>4. Laid(ss) => Laid(Append(ss, <<>>))
  <2>1. \A a \in Covers(ss) : \A k \in 1 .. Len(<<>>) : a < <<>>[k].lo BY <1>1
  <2> QED BY <1>1, <1>2, <2>1, LaidAppend
<1>5. Laid(Append(ss, <<>>)) => Laid(ss) BY <1>1, LaidFront
<1> QED BY <1>2, <1>3, <1>4, <1>5

\* The variables of the loop.
FillStates == [at : Nat, took : Nat, block : Seq(Rgs), blocks : Seq(Seq(Rgs))]

\* The addresses before the place the loop has come to.
TakenSet(s, rs) ==
    Until(rs, s.at - 1) \cup {a \in Int : s.at <= Len(rs) /\ rs[s.at].lo <= a /\ a < rs[s.at].lo + s.took}

\* They are in the blocks made so far, in order, and all of those but the last are full.
Filled(s, rs, per) ==
    /\ s.at \in 1 .. Len(rs) + 1
    /\ s.at <= Len(rs) => s.took < Size(rs[s.at])
    /\ Amount(s.block) < per
    /\ \A i \in 1 .. Len(s.blocks) : Amount(s.blocks[i]) = per
    /\ Laid(Append(s.blocks, s.block))
    /\ Covers(Append(s.blocks, s.block)) = TakenSet(s, rs)

\* Part of the range under way goes on to the end of the last block.
LEMMA FillHolds ==
  ASSUME NEW rs \in Seq(Rgs), Spaced(rs, 0), NEW per \in Nat \ {0}, NEW s \in FillStates, Filled(s, rs, per)
  PROVE  /\ Fill(s, rs, per) \in FillStates /\ Filled(Fill(s, rs, per), rs, per)
         /\ s.at > Len(rs) => Fill(s, rs, per).at > Len(rs)
         /\ s.at <= Len(rs) =>
              \/ Fill(s, rs, per).at = s.at /\ Fill(s, rs, per).took > s.took
              \/ Fill(s, rs, per).at = s.at + 1 /\ Fill(s, rs, per).took = 0
<1> DEFINE r == rs[s.at]
           from == r.lo + s.took
           take == Smaller(per - Amount(s.block), r.hi - from + 1)
           piece == [lo |-> from, hi |-> from + take - 1]
           block == Append(s.block, piece)
           full == Amount(block) = per
           over == from + take > r.hi
           q == Fill(s, rs, per)
<1>1. s.at \in Nat /\ s.took \in Nat /\ s.block \in Seq(Rgs) /\ s.blocks \in Seq(Seq(Rgs)) /\ Len(rs) \in Nat
      /\ s.at \in 1 .. Len(rs) + 1
  BY DEF FillStates, Filled
<1>2. CASE s.at > Len(rs)
  <2>1. q = s BY <1>2 DEF Fill
  <2> QED BY <1>1, <1>2, <2>1
<1>3. CASE s.at <= Len(rs)
  <2>1. s.at \in 1 .. Len(rs) BY <1>1, <1>3
  <2>2. r \in Rgs /\ r.lo \in Int /\ r.hi \in Int /\ r.lo <= r.hi BY <2>1, AddressIn
  <2>3. from \in Int /\ from <= r.hi /\ r.lo <= from /\ Size(r) = r.hi - r.lo + 1
    <3>1. s.took < Size(r) BY <1>3 DEF Filled
    <3>2. Size(r) = r.hi - r.lo + 1 BY DEF Size
    <3>3. s.took \in Nat BY <1>1
    <3> HIDE DEF r
    <3>4. \A l, h, t \in Int : 0 <= t /\ t < h - l + 1 => l + t \in Int /\ l + t <= h /\ l <= l + t OBVIOUS
    <3> QED BY <2>2, <3>1, <3>2, <3>3, <3>4
  <2>4. Amount(s.block) \in Nat /\ Amount(s.block) < per
    <3>1. Amount(s.block) \in Nat BY <1>1, AmountHolds
    <3> QED BY <3>1 DEF Filled
  <2>5. q = [at |-> IF over THEN s.at + 1 ELSE s.at, took |-> IF over THEN 0 ELSE s.took + take,
             block |-> IF full THEN <<>> ELSE block, blocks |-> IF full THEN Append(s.blocks, block) ELSE s.blocks]
    <3>1. ~(s.at > Len(rs)) BY <1>1, <1>3
    <3> QED BY <3>1 DEF Fill
  <2> HIDE DEF r, from, q
  <2>6. take \in Nat /\ 1 <= take /\ take <= per - Amount(s.block) /\ take <= r.hi - from + 1
    <3>1. \A u, v \in Int : 1 <= u /\ 1 <= v =>
            Smaller(u, v) \in Nat /\ 1 <= Smaller(u, v) /\ Smaller(u, v) <= u /\ Smaller(u, v) <= v
      BY DEF Smaller
    <3>2. per - Amount(s.block) \in Int /\ 1 <= per - Amount(s.block) BY <2>4
    <3>3. r.hi - from + 1 \in Int /\ 1 <= r.hi - from + 1 BY <2>2, <2>3
    <3> QED BY <3>1, <3>2, <3>3
  <2> HIDE DEF take
  <2>7. piece \in Rgs /\ piece.lo = from /\ piece.hi = from + take - 1 /\ Size(piece) = take
    <3>1. from <= from + take - 1 BY <2>3, <2>6
    <3>2. piece \in Rgs BY <2>3, <2>6, <3>1 DEF Rgs
    <3> QED BY <2>3, <2>6, <3>2 DEF Size
  <2> HIDE DEF piece
  <2>8. block \in Seq(Rgs) /\ Amount(block) = Amount(s.block) + take
    <3>1. Amount(Append(s.block, piece)) = Amount(s.block) + Size(piece) BY <1>1, <2>7, AmountAppend
    <3> QED BY <1>1, <2>7, <3>1
  <2>9. Amount(block) \in Nat /\ Amount(block) <= per
    <3> HIDE DEF block
    <3> QED BY <2>4, <2>6, <2>8
  <2>10. Laid(Append(s.blocks, s.block)) /\ Covers(Append(s.blocks, s.block)) = TakenSet(s, rs) BY DEF Filled
  <2>11. \A a \in TakenSet(s, rs) : a < piece.lo
    <3> SUFFICES ASSUME NEW a \in TakenSet(s, rs) PROVE a < from BY <2>7
    <3>1. CASE a \in Until(rs, s.at - 1)
      <4>1. PICK i \in 1 .. s.at - 1 : a \in Int /\ rs[i].lo <= a /\ a <= rs[i].hi BY <3>1 DEF Until
      <4>2. i \in 1 .. Len(rs) /\ i < s.at BY <1>1, <1>3
      <4>3. rs[i].hi + 0 < r.lo BY <2>1, <4>2 DEF Spaced, r
      <4>4. rs[i].hi \in Int BY <4>2, AddressIn
      <4> QED BY <2>2, <2>3, <4>1, <4>3, <4>4
    <3>2. CASE a \notin Until(rs, s.at - 1)
      <4>1. a \in Int /\ a < rs[s.at].lo + s.took BY <3>2 DEF TakenSet
      <4> QED BY <4>1 DEF from, r
    <3> QED BY <3>1, <3>2
  <2>12. /\ Laid(Append(s.blocks, block))
         /\ Covers(Append(s.blocks, block)) = TakenSet(s, rs) \cup Hull(piece)
    <3>1. \A a \in Covers(Append(s.blocks, s.block)) : a < piece.lo BY <2>10, <2>11
    <3>2. /\ Laid(Append(s.blocks, Append(s.block, piece)))
          /\ Covers(Append(s.blocks, Append(s.block, piece))) = Covers(Append(s.blocks, s.block)) \cup Hull(piece)
      BY <1>1, <2>7, <2>10, <3>1, LaidFurther
    <3> QED BY <2>10, <3>2
  <2> HIDE DEF block
  <2>13. q.at = (IF over THEN s.at + 1 ELSE s.at) /\ q.took = (IF over THEN 0 ELSE s.took + take) BY <2>5
  <2> DEFINE Blocked == /\ q.block \in Seq(Rgs) /\ q.blocks \in Seq(Seq(Rgs)) /\ Amount(q.block) < per
                        /\ \A i \in 1 .. Len(q.blocks) : Amount(q.blocks[i]) = per
                        /\ Laid(Append(q.blocks, q.block))
                        /\ Covers(Append(q.blocks, q.block)) = TakenSet(s, rs) \cup Hull(piece)
  <2>14. ASSUME full PROVE Blocked
    <3> DEFINE bs == Append(s.blocks, block)
    <3>1. q.block = <<>> /\ q.blocks = bs BY <2>5, <2>14
    <3>2. bs \in Seq(Seq(Rgs)) /\ Len(bs) = Len(s.blocks) + 1 /\ Len(s.blocks) \in Nat /\ bs[Len(s.blocks) + 1] = block
          /\ \A k \in 1 .. Len(s.blocks) : bs[k] = s.blocks[k]
      BY <1>1, <2>8, AppendHolds
    <3> HIDE DEF bs
    <3>3. \A i \in 1 .. Len(bs) : Amount(bs[i]) = per
      <4>1. \A i \in 1 .. Len(bs) : i \in 1 .. Len(s.blocks) \/ i = Len(s.blocks) + 1 BY <3>2
      <4> QED BY <2>14, <3>2, <4>1 DEF Filled
    <3>4. Laid(Append(bs, <<>>)) /\ Covers(Append(bs, <<>>)) = Covers(bs)
      <4>1. Laid(bs) BY <2>12 DEF bs
      <4> QED BY <3>2, <4>1, LaidEmpty
    <3>5. Covers(bs) = TakenSet(s, rs) \cup Hull(piece) BY <2>12 DEF bs
    <3>6. q.block \in Seq(Rgs) /\ q.blocks \in Seq(Seq(Rgs)) /\ Amount(q.block) < per
      <4>1. Amount(<<>>) = 0 /\ <<>> \in Seq(Rgs) BY AmountNone
      <4> QED BY <3>1, <3>2, <4>1
    <3>7. /\ q.block \in Seq(Rgs) /\ q.blocks \in Seq(Seq(Rgs)) /\ Amount(q.block) < per
          /\ \A i \in 1 .. Len(q.blocks) : Amount(q.blocks[i]) = per
          /\ Laid(Append(q.blocks, q.block))
          /\ Covers(Append(q.blocks, q.block)) = TakenSet(s, rs) \cup Hull(piece)
      BY <3>1, <3>3, <3>4, <3>5, <3>6
    <3> QED BY <3>7
  <2>15. ASSUME ~full PROVE Blocked
    <3>1. q.block = block /\ q.blocks = s.blocks BY <2>5, <2>15
    <3>2. Amount(block) < per BY <2>9, <2>15
    <3>3. \A i \in 1 .. Len(s.blocks) : Amount(s.blocks[i]) = per BY DEF Filled
    <3> QED BY <1>1, <2>8, <2>12, <3>1, <3>2, <3>3
  <2>16. Blocked BY <2>14, <2>15
  <2>17. Hull(piece) = {a \in Int : from <= a /\ a < from + take}
    <3>1. \A a \in Int : a <= from + take - 1 <=> a < from + take BY <2>3, <2>6
    <3> QED BY <2>7, <3>1 DEF Hull
  <2>18. from = r.lo + s.took BY DEF from
  <2>19. TakenSet(s, rs) \cup Hull(piece) = TakenSet(q, rs)
    <3>1. TakenSet(s, rs) = Until(rs, s.at - 1) \cup {a \in Int : r.lo <= a /\ a < from} BY <1>3 DEF TakenSet, from, r
    <3>2. {a \in Int : r.lo <= a /\ a < from} \cup {a \in Int : from <= a /\ a < from + take}
             = {a \in Int : r.lo <= a /\ a < from + take}
      BY <2>2, <2>3, <2>6
    <3>3. TakenSet(s, rs) \cup Hull(piece) = Until(rs, s.at - 1) \cup {a \in Int : r.lo <= a /\ a < from + take}
      BY <2>17, <3>1, <3>2
    <3>4. CASE over
      <4>1. q.at = s.at + 1 /\ q.took = 0 /\ q.at - 1 = s.at BY <1>1, <2>13, <3>4
      <4>2. {a \in Int : q.at <= Len(rs) /\ rs[q.at].lo <= a /\ a < rs[q.at].lo + q.took} = {}
        <5>1. SUFFICES ASSUME NEW a \in Int, q.at <= Len(rs), rs[q.at].lo <= a, a < rs[q.at].lo + q.took PROVE FALSE
          OBVIOUS
        <5>2. q.at \in 1 .. Len(rs) BY <1>1, <4>1, <5>1
        <5>3. rs[q.at].lo \in Int BY <5>2, AddressIn
        <5> QED BY <4>1, <5>1, <5>3
      <4>3. TakenSet(q, rs) = Until(rs, s.at) BY <4>1, <4>2 DEF TakenSet
      <4>4. Until(rs, s.at) = Until(rs, s.at - 1) \cup {a \in Int : r.lo <= a /\ a <= r.hi} BY <2>1, UntilNext DEF r
      <4>5. \A a \in Int : a < from + take <=> a <= r.hi BY <2>2, <2>3, <2>6, <3>4
      <4> QED BY <3>3, <4>3, <4>4, <4>5
    <3>5. CASE ~over
      <4>1. q.at = s.at /\ q.took = s.took + take BY <2>13, <3>5
      <4>2. r.lo + q.took = from + take BY <1>1, <2>2, <2>6, <2>18, <4>1
      <4>3. TakenSet(q, rs) = Until(rs, s.at - 1) \cup {a \in Int : r.lo <= a /\ a < r.lo + q.took}
        BY <1>3, <4>1 DEF TakenSet, r
      <4> QED BY <3>3, <4>2, <4>3
    <3> QED BY <3>4, <3>5
  <2>20. q.at \in 1 .. Len(rs) + 1 /\ q.at \in Nat /\ q.took \in Nat /\ (q.at <= Len(rs) => q.took < Size(rs[q.at]))
    <3>1. CASE over
      <4>1. q.at = s.at + 1 /\ q.took = 0 BY <2>13, <3>1
      <4>2. q.at \in 1 .. Len(rs) + 1 BY <1>1, <1>3, <4>1
      <4>3. q.at <= Len(rs) => 0 < Size(rs[q.at])
        <5>1. SUFFICES ASSUME q.at <= Len(rs) PROVE 0 < Size(rs[q.at]) OBVIOUS
        <5>2. q.at \in 1 .. Len(rs) BY <1>1, <4>2, <5>1
        <5>3. rs[q.at].lo \in Int /\ rs[q.at].hi \in Int /\ rs[q.at].lo <= rs[q.at].hi BY <5>2, AddressIn
        <5> QED BY <5>3 DEF Size
      <4> QED BY <1>1, <4>1, <4>2, <4>3
    <3>2. CASE ~over
      <4>1. q.at = s.at /\ q.took = s.took + take BY <2>13, <3>2
      <4>2. q.took < Size(r)
        <5>1. from + take <= r.hi BY <2>2, <2>3, <2>6, <3>2
        <5>2. q.took = (from - r.lo) + take BY <1>1, <2>2, <2>3, <2>6, <2>18, <4>1
        <5>3. \A f, l, h, t \in Int : f + t <= h => (f - l) + t < h - l + 1 OBVIOUS
        <5>4. (from - r.lo) + take < r.hi - r.lo + 1 BY <2>2, <2>3, <2>6, <5>1, <5>3
        <5> QED BY <2>3, <5>2, <5>4
      <4> QED BY <1>1, <2>6, <4>1, <4>2 DEF r
    <3> QED BY <3>1, <3>2
  <2>21. Filled(q, rs, per) BY <2>16, <2>19, <2>20 DEF Filled
  <2>22. q \in FillStates
    <3>1. q = [at |-> q.at, took |-> q.took, block |-> q.block, blocks |-> q.blocks] BY <2>5
    <3>2. q.at \in Nat /\ q.took \in Nat /\ q.block \in Seq(Rgs) /\ q.blocks \in Seq(Seq(Rgs)) BY <2>16, <2>20
    <3> HIDE DEF Blocked
    <3> QED BY <3>1, <3>2 DEF FillStates
  <2>23. (q.at = s.at /\ q.took > s.took) \/ (q.at = s.at + 1 /\ q.took = 0) BY <1>1, <2>6, <2>13
  <2> QED BY <1>1, <1>3, <2>21, <2>22, <2>23 DEF q
<1> QED BY <1>1, <1>2, <1>3

\* The sums of a sequence of ranges grow.
LEMMA SumsGrow ==
  ASSUME NEW rs \in Seq(Rgs), NEW g \in [0 .. Len(rs) -> Int], \A i \in 1 .. Len(rs) : g[i] = g[i - 1] + Size(rs[i]),
         NEW k \in 0 .. Len(rs)
  PROVE  g[k] <= g[Len(rs)]
<1> DEFINE n == Len(rs)
           S == {m \in Nat : k + m <= n => g[k] <= g[k + m]}
<1>1. n \in Nat /\ k \in Nat /\ k <= n OBVIOUS
<1>2. \A i \in 1 .. n : Size(rs[i]) \in Nat
  <2> SUFFICES ASSUME NEW i \in 1 .. n PROVE Size(rs[i]) \in Nat OBVIOUS
  <2>1. rs[i].lo \in Int /\ rs[i].hi \in Int /\ rs[i].lo <= rs[i].hi BY AddressIn
  <2> QED BY <2>1 DEF Size
<1>3. \A i \in 1 .. n : g[i] = g[i - 1] + Size(rs[i]) OBVIOUS
<1>4. \A i \in 0 .. n : g[i] \in Int OBVIOUS
<1> HIDE DEF n
<1>5. 0 \in S BY <1>1, <1>4
<1>6. ASSUME NEW m \in Nat, m \in S PROVE m + 1 \in S
  <2> SUFFICES ASSUME k + (m + 1) <= n PROVE g[k] <= g[k + (m + 1)] OBVIOUS
  <2>1. k + (m + 1) \in 1 .. n /\ (k + (m + 1)) - 1 = k + m /\ k + m \in 0 .. n /\ k \in 0 .. n BY <1>1
  <2>2. g[k] <= g[k + m] BY <1>1, <1>6
  <2>3. g[k + (m + 1)] = g[k + m] + Size(rs[k + (m + 1)]) BY <1>3, <2>1
  <2> QED BY <1>2, <1>4, <2>1, <2>2, <2>3
<1> HIDE DEF S
<1>7. \A m \in Nat : m \in S BY <1>5, <1>6, Climb
<1>8. n - k \in Nat /\ k + (n - k) = n BY <1>1
<1>9. n - k \in S BY <1>7, <1>8
<1> QED BY <1>1, <1>8, <1>9 DEF S, n

\* The blocks of ranges are all of them, in order, and full but for the last.
Blocked(bs, rs, per) ==
    /\ Laid(bs) /\ Covers(bs) = Addresses(rs)
    /\ \A i \in 1 .. Len(bs) - 1 : Amount(bs[i]) = per
    /\ bs # <<>> => Amount(bs[Len(bs)]) <= per

\* Cutting ranges into blocks keeps every address once, in order, and fills each
\* block but the last, for blocks of any size (planIPv4Chunks of chunks.go).
THEOREM BlocksHold ==
  ASSUME NEW rs \in Seq(Rgs), Spaced(rs, 0), NEW per \in Nat \ {0}
  PROVE  Blocked(Blocks(rs, per), rs, per)
<1> DEFINE n == Amount(rs)
           l == Len(rs)
           B == FillStates
           b == [at |-> 1, took |-> 0, block |-> <<>>, blocks |-> <<>>]
           Turn(s) == IF Filled(s, rs, per) THEN Fill(s, rs, per) ELSE b
           st == [i \in 1 .. n |-> [s \in B |-> Turn(s)]]
           F(f) == [i \in 0 .. n |-> IF i = 0 THEN [at |-> 1, took |-> 0, block |-> <<>>, blocks |-> <<>>]
                                     ELSE Fill(f[i - 1], rs, per)]
           upTo == CHOOSE f : f = F(f)
           end == upTo[n]
<1>1. n \in Nat /\ l \in Nat BY AmountHolds
<1>2. b \in B
  <2>1. <<>> \in Seq(Rgs) /\ <<>> \in Seq(Seq(Rgs)) OBVIOUS
  <2> QED BY <2>1 DEF FillStates
<1>3. Filled(b, rs, per)
  <2>1. b.at = 1 /\ b.took = 0 /\ b.block = <<>> /\ b.blocks = <<>> OBVIOUS
  <2>2. Amount(<<>>) < per BY AmountNone
  <2>3. Laid(<<>>) /\ Covers(<<>>) = {}
    <3>1. <<>> \in Seq(Seq(Rgs)) /\ Len(<<>>) = 0 OBVIOUS
    <3> QED BY <3>1 DEF Laid, Covers
  <2>4. Laid(Append(<<>>, <<>>)) /\ Covers(Append(<<>>, <<>>)) = {}
    <3>1. <<>> \in Seq(Seq(Rgs)) OBVIOUS
    <3> QED BY <2>3, <3>1, LaidEmpty
  <2>5. 1 <= l => 0 < Size(rs[1])
    <3>1. SUFFICES ASSUME 1 <= l PROVE 0 < Size(rs[1]) OBVIOUS
    <3>2. 1 \in 1 .. l BY <1>1, <3>1
    <3>3. rs[1].lo \in Int /\ rs[1].hi \in Int /\ rs[1].lo <= rs[1].hi BY <3>2, AddressIn
    <3> QED BY <3>3 DEF Size
  <2>6. TakenSet(b, rs) = {}
    <3>1. Until(rs, 1 - 1) = {} BY UntilNone
    <3>2. {a \in Int : 1 <= l /\ rs[1].lo <= a /\ a < rs[1].lo + 0} = {}
      <4>1. SUFFICES ASSUME NEW a \in Int, 1 <= l, rs[1].lo <= a, a < rs[1].lo + 0 PROVE FALSE OBVIOUS
      <4>2. 1 \in 1 .. l BY <1>1, <4>1
      <4>3. rs[1].lo \in Int BY <4>2, AddressIn
      <4> QED BY <4>1, <4>3
    <3> QED BY <2>1, <3>1, <3>2 DEF TakenSet
  <2> HIDE DEF b
  <2> QED BY <1>1, <2>1, <2>2, <2>4, <2>5, <2>6 DEF Filled
<1>4. Blocks(rs, per) = IF end.block = <<>> THEN end.blocks ELSE Append(end.blocks, end.block) BY DEF Blocks
<1> HIDE DEF n, B, b
<1>5. \A s \in B : Turn(s) \in B
  <2> SUFFICES ASSUME NEW s \in B PROVE Turn(s) \in B OBVIOUS
  <2>1. CASE Filled(s, rs, per)
    <3>1. Fill(s, rs, per) \in B BY <2>1, FillHolds DEF B
    <3> QED BY <2>1, <3>1
  <2>2. CASE ~Filled(s, rs, per) BY <1>2, <2>2
  <2> QED BY <2>1, <2>2
<1> HIDE DEF Turn
<1>6. st \in [1 .. n -> [B -> B]] BY <1>5
<1> HIDE DEF st, F, upTo
<1>7. PICK f \in [0 .. n -> B] : Computes(f, n, b, st) BY <1>1, <1>2, <1>6, Recursion
<1>8. PICK g \in [0 .. l -> Int] : g[0] = 0 /\ n = g[l] /\ \A i \in 1 .. l : g[i] = g[i - 1] + Size(rs[i])
  BY AmountDef DEF n
<1> DEFINE Ahead(s, i) == s.at > l \/ i <= g[s.at - 1] + s.took
           P(i) == Filled(f[i], rs, per) /\ Ahead(f[i], i)
           S == {i \in Nat : i <= n => P(i)}
<1>9. 0 \in S
  <2>1. f[0] = b /\ b.at = 1 /\ b.took = 0 BY <1>7 DEF Computes, b
  <2>2. Ahead(b, 0) BY <1>8, <2>1
  <2>3. P(0) BY <1>3, <2>1, <2>2
  <2> HIDE DEF P
  <2> QED BY <2>3
<1>10. ASSUME NEW i \in 1 .. n, P(i - 1)
       PROVE  f[i] = Fill(f[i - 1], rs, per) /\ P(i)
  <2> DEFINE s == f[i - 1]
             q == Fill(s, rs, per)
  <2>1. i - 1 \in 0 .. n /\ i \in Nat BY <1>1
  <2>2. s \in B BY <1>7, <2>1
  <2>3. f[i] = q BY <1>7, <1>10, <2>2 DEF Computes, st, Turn
  <2>4. s \in FillStates /\ Filled(s, rs, per) BY <1>10, <2>2 DEF B
  <2> HIDE DEF s
  <2>5. /\ q \in FillStates /\ Filled(q, rs, per)
        /\ s.at > l => q.at > l
        /\ s.at <= l => \/ q.at = s.at /\ q.took > s.took
                        \/ q.at = s.at + 1 /\ q.took = 0
    BY <2>4, FillHolds
  <2> HIDE DEF q
  <2>6. s.at \in 1 .. l + 1 /\ s.took \in Nat /\ q.took \in Nat BY <2>4, <2>5 DEF Filled, FillStates
  <2>7. Ahead(q, i)
    <3>1. CASE s.at > l BY <2>5, <3>1
    <3>2. CASE s.at <= l
      <4>1. s.at \in 1 .. l /\ s.at - 1 \in 0 .. l /\ s.at \in 0 .. l BY <1>1, <2>6, <3>2
      <4>2. i - 1 <= g[s.at - 1] + s.took
        <5>1. Ahead(s, i - 1) BY <1>10 DEF s
        <5> QED BY <1>1, <2>6, <3>2, <5>1
      <4>3. g[s.at - 1] \in Int /\ g[s.at] \in Int BY <4>1
      <4>4. CASE q.at = s.at /\ q.took > s.took
        <5>1. i <= g[s.at - 1] + q.took BY <2>1, <2>6, <4>2, <4>3, <4>4
        <5> QED BY <4>4, <5>1
      <4>5. CASE q.at = s.at + 1 /\ q.took = 0
        <5>1. s.took < Size(rs[s.at]) BY <2>4, <3>2 DEF Filled
        <5>2. g[s.at] = g[s.at - 1] + Size(rs[s.at]) BY <1>8, <4>1
        <5>3. Size(rs[s.at]) \in Int
          <6>1. rs[s.at].lo \in Int /\ rs[s.at].hi \in Int BY <4>1, AddressIn
          <6> QED BY <6>1 DEF Size
        <5>4. i <= g[s.at] BY <2>1, <2>6, <4>2, <4>3, <5>1, <5>2, <5>3
        <5>5. q.at - 1 = s.at BY <4>1, <4>5
        <5>6. i <= g[q.at - 1] + q.took BY <4>3, <4>5, <5>4, <5>5
        <5> QED BY <5>6
      <4> QED BY <2>5, <3>2, <4>4, <4>5
    <3> QED BY <1>1, <2>6, <3>1, <3>2
  <2>8. Filled(f[i], rs, per) /\ Ahead(f[i], i)
    <3> HIDE DEF Ahead
    <3> QED BY <2>3, <2>5, <2>7 DEF q, s
  <2> QED BY <2>3, <2>8 DEF q, s
<1>11. ASSUME NEW i \in Nat, i \in S PROVE i + 1 \in S
  <2> SUFFICES ASSUME i + 1 <= n PROVE P(i + 1) BY DEF S
  <2> HIDE DEF P
  <2>1. i + 1 \in 1 .. n /\ (i + 1) - 1 = i BY <1>1
  <2>2. P(i) BY <1>1, <1>11
  <2>3. P((i + 1) - 1) BY <2>1, <2>2
  <2> QED BY <1>10, <2>1, <2>3
<1> HIDE DEF S
<1>12. \A i \in Nat : i \in S BY <1>9, <1>11, Climb
<1>13. \A i \in 0 .. n : P(i)
  <2> HIDE DEF P
  <2> QED BY <1>1, <1>12 DEF S
<1>14. f = F(f)
  <2>1. ASSUME NEW i \in 1 .. n PROVE f[i] = Fill(f[i - 1], rs, per)
    <3> HIDE DEF P
    <3>1. i - 1 \in 0 .. n BY <1>1
    <3> QED BY <1>10, <1>13, <3>1
  <2>2. f[0] = [at |-> 1, took |-> 0, block |-> <<>>, blocks |-> <<>>] BY <1>7 DEF Computes, b
  <2>3. ASSUME NEW i \in 0 .. n
        PROVE  f[i] = IF i = 0 THEN [at |-> 1, took |-> 0, block |-> <<>>, blocks |-> <<>>] ELSE Fill(f[i - 1], rs, per)
    <3>1. i = 0 \/ i \in 1 .. n BY <1>1
    <3> QED BY <2>1, <2>2, <3>1
  <2> QED BY <2>3 DEF F
<1>15. upTo = F(upTo) BY <1>14 DEF upTo
<1> DEFINE E == {i \in Nat : i <= n => upTo[i] = f[i]}
<1>16. 0 \in E
  <2>1. upTo[0] = [at |-> 1, took |-> 0, block |-> <<>>, blocks |-> <<>>] BY <1>1, <1>15 DEF F
  <2>2. f[0] = [at |-> 1, took |-> 0, block |-> <<>>, blocks |-> <<>>] BY <1>7 DEF Computes, b
  <2> QED BY <2>1, <2>2
<1>17. ASSUME NEW i \in Nat, i \in E PROVE i + 1 \in E
  <2> SUFFICES ASSUME i + 1 <= n PROVE upTo[i + 1] = f[i + 1] OBVIOUS
  <2>1. i + 1 \in 0 .. n /\ (i + 1) - 1 = i /\ i + 1 # 0 /\ upTo[i] = f[i] BY <1>1, <1>17
  <2>2. upTo[i + 1] = Fill(upTo[i], rs, per)
    <3>1. \A j \in 0 .. n : j # 0 => upTo[j] = Fill(upTo[j - 1], rs, per) BY <1>15 DEF F
    <3> QED BY <2>1, <3>1
  <2>3. f[i + 1] = Fill(f[i], rs, per)
    <3>1. \A j \in 0 .. n : j # 0 => f[j] = Fill(f[j - 1], rs, per) BY <1>14 DEF F
    <3> QED BY <2>1, <3>1
  <2> QED BY <2>1, <2>2, <2>3
<1> HIDE DEF E
<1>18. \A i \in Nat : i \in E BY <1>16, <1>17, Climb
<1>19. upTo[n] = f[n] BY <1>1, <1>18 DEF E
<1>20. n \in 0 .. n BY <1>1
<1>21. end \in FillStates /\ Filled(end, rs, per) /\ Ahead(end, n) BY <1>7, <1>13, <1>19, <1>20 DEF B
<1> HIDE DEF end
<1>22. end.at \in 1 .. l + 1 /\ end.took \in Nat /\ end.block \in Seq(Rgs) /\ end.blocks \in Seq(Seq(Rgs))
  BY <1>21 DEF Filled, FillStates
<1>23. end.at = l + 1
  <2>1. SUFFICES ASSUME end.at <= l PROVE FALSE BY <1>1, <1>22
  <2>2. end.at \in 1 .. l /\ end.at - 1 \in 0 .. l /\ end.at \in 0 .. l BY <1>1, <1>22, <2>1
  <2>3. end.took < Size(rs[end.at]) BY <1>21, <2>1 DEF Filled
  <2>4. g[end.at] = g[end.at - 1] + Size(rs[end.at]) BY <1>8, <2>2
  <2>5. g[end.at] <= g[l] BY <1>8, <2>2, SumsGrow
  <2>6. g[end.at - 1] \in Int /\ g[end.at] \in Int /\ g[l] \in Int BY <1>1, <2>2
  <2>7. n <= g[end.at - 1] + end.took BY <1>1, <1>21, <1>22, <2>1
  <2>8. Size(rs[end.at]) \in Int
    <3>1. rs[end.at].lo \in Int /\ rs[end.at].hi \in Int BY <2>2, AddressIn
    <3> QED BY <3>1 DEF Size
  <2> QED BY <1>8, <1>22, <2>3, <2>4, <2>5, <2>6, <2>7, <2>8
<1>24. TakenSet(end, rs) = Addresses(rs)
  <2>1. Addresses(rs) = Until(rs, l) BY UntilAll
  <2>2. {a \in Int : end.at <= l /\ rs[end.at].lo <= a /\ a < rs[end.at].lo + end.took} = {} BY <1>1, <1>23
  <2>3. end.at - 1 = l BY <1>1, <1>23
  <2> QED BY <2>1, <2>2, <2>3 DEF TakenSet
<1>25. /\ Amount(end.block) < per /\ Laid(Append(end.blocks, end.block)) /\ Covers(Append(end.blocks, end.block)) = Addresses(rs)
       /\ \A i \in 1 .. Len(end.blocks) : Amount(end.blocks[i]) = per
  BY <1>21, <1>24 DEF Filled
<1>26. CASE end.block = <<>>
  <2>1. Blocks(rs, per) = end.blocks BY <1>4, <1>26
  <2>2. Laid(end.blocks) /\ Covers(end.blocks) = Addresses(rs) BY <1>22, <1>25, <1>26, LaidEmpty
  <2>3. \A i \in 1 .. Len(end.blocks) - 1 : i \in 1 .. Len(end.blocks) BY <1>22
  <2>4. end.blocks # <<>> => Len(end.blocks) \in 1 .. Len(end.blocks) BY <1>22
  <2>5. per <= per OBVIOUS
  <2> QED BY <1>25, <2>1, <2>2, <2>3, <2>4, <2>5 DEF Blocked
<1>27. CASE end.block # <<>>
  <2> DEFINE bs == Append(end.blocks, end.block)
             m == Len(end.blocks)
  <2>1. Blocks(rs, per) = bs BY <1>4, <1>27
  <2>2. Len(bs) = m + 1 /\ m \in Nat /\ bs[m + 1] = end.block /\ \A k \in 1 .. m : bs[k] = end.blocks[k]
    BY <1>22, AppendHolds
  <2> HIDE DEF bs
  <2>3. \A i \in 1 .. Len(bs) - 1 : i \in 1 .. m BY <2>2
  <2>4. Amount(end.block) <= per
    <3>1. Amount(end.block) \in Nat BY <1>22, AmountHolds
    <3> QED BY <1>25, <3>1
  <2>5. Laid(bs) /\ Covers(bs) = Addresses(rs) BY <1>25 DEF bs
  <2>6. \A i \in 1 .. Len(bs) - 1 : Amount(bs[i]) = per BY <1>25, <2>2, <2>3
  <2>7. Amount(bs[Len(bs)]) <= per BY <2>2, <2>4
  <2> QED BY <2>1, <2>5, <2>6, <2>7 DEF Blocked
<1> QED BY <1>26, <1>27

\* A block is a multiple of the floor, and never longer than asked for by one of it or more.
LEMMA PerBlockHolds ==
  ASSUME NEW ports \in Nat \ {0}, NEW rate \in Nat \ {0}
  PROVE  /\ PerBlock(ports, rate) \in Nat \ {0} /\ PerBlock(ports, rate) >= MinAddresses
         /\ PerBlock(ports, rate) * ports < (BlockTime * rate) + MinAddresses * ports
<1> DEFINE m == MinAddresses
           work == rate * BlockTime
           q == work \div ports
           per == Larger(m, q)
           sum == per + m - 1
           times == sum \div m
           block == times * m
<1>1. m \in Nat \ {0} /\ BlockTime \in Nat \ {0} BY TargetAssumption
<1>2. work \in Nat \ {0} /\ work = BlockTime * rate
  <2>1. \A x, y \in Nat : x # 0 /\ y # 0 => x * y \in Nat /\ x * y > 0 /\ x * y = y * x OBVIOUS
  <2> QED BY <1>1, <2>1
<1>3. PerBlock(ports, rate) = block BY DEF PerBlock
<1> HIDE DEF m, work
<1>4. q \in Nat /\ q * ports <= work
  <2>0. work \in Int BY <1>2
  <2>1. /\ work \div ports \in Int /\ work % ports \in Nat /\ work % ports < ports
        /\ work = (work \div ports) * ports + (work % ports)
    BY <2>0, Division
  <2>3. q >= 0 BY <1>2
  <2>2. q >= 0 /\ q \in Int /\ work = (q * ports) + (work % ports) BY <2>1, <2>3
  <2> HIDE DEF q
  <2>4. q * ports \in Int BY <2>2
  <2> QED BY <2>1, <2>2, <2>4
<1> HIDE DEF q
<1>5. per \in Nat /\ per >= m /\ (per = m \/ (per = q /\ q > m)) BY <1>1, <1>4 DEF Larger
<1>6. sum \in Nat /\ sum = (per + m) - 1 BY <1>1, <1>5
<1> HIDE DEF per
<1>7. times \in Int /\ sum % m \in Nat /\ sum % m < m /\ sum = (times * m) + (sum % m)
  <2>1. sum \in Int BY <1>6
  <2> HIDE DEF sum
  <2>2. sum \div m \in Int /\ sum % m \in Nat /\ sum % m < m /\ sum = (sum \div m) * m + (sum % m)
    BY <1>1, <2>1, Division
  <2> QED BY <2>2
<1> HIDE DEF times
<1>8. block \in Int /\ sum = block + (sum % m) BY <1>1, <1>7
<1> HIDE DEF block, sum
<1>9. block <= sum /\ sum < block + m BY <1>1, <1>6, <1>7, <1>8
<1>10. block >= per /\ block <= (per + m) - 1 BY <1>1, <1>5, <1>6, <1>8, <1>9
<1>11. block \in Nat \ {0} /\ block >= m BY <1>1, <1>5, <1>8, <1>10
<1>12. CASE per = m
  <2>1. times < 2
    <3>1. times >= 2 => times * m >= 2 * m BY <1>1, <1>7
    <3>2. times * m <= (m + m) - 1 BY <1>10, <1>12 DEF block
    <3> QED BY <1>1, <1>7, <3>1, <3>2
  <2>2. block = m
    <3>1. times <= 1 BY <1>7, <2>1
    <3>2. times * m <= 1 * m BY <1>1, <1>7, <3>1
    <3>3. block <= m BY <1>1, <3>2 DEF block
    <3> QED BY <1>1, <1>8, <1>11, <3>3
  <2> QED BY <1>1, <1>2, <1>3, <1>11, <2>2 DEF m
<1>13. CASE per = q
  <2>1. block < q + m BY <1>1, <1>4, <1>8, <1>10, <1>13
  <2>2. block * ports < (q + m) * ports
    <3>1. \A x, y \in Int : x < y => x * ports < y * ports OBVIOUS
    <3> QED BY <1>1, <1>4, <1>8, <2>1, <3>1
  <2>3. (q + m) * ports = q * ports + m * ports BY <1>1, <1>4
  <2>4. q * ports \in Int /\ m * ports \in Int /\ block * ports \in Int BY <1>1, <1>4, <1>8
  <2>5. block * ports < work + m * ports BY <1>2, <1>4, <2>2, <2>3, <2>4
  <2> QED BY <1>2, <1>3, <1>11, <2>5 DEF m
<1> QED BY <1>5, <1>12, <1>13

\* What a scanner is left with is what was typed without what is excluded.
LEMMA EffectiveHolds ==
  ASSUME Entered
  PROVE  /\ Effective(ExpandTarget) \in Seq(Rgs) /\ Spaced(Effective(ExpandTarget), 0)
         /\ Addresses(Effective(ExpandTarget)) = MeantTarget \ MeantExcludes
<1> DEFINE e == Effective(ExpandTarget)
<1>1. ExpandTarget.ranges \in Seq(Rgs) /\ Addresses(ExpandTarget.ranges) = MeantTarget BY TargetHolds
<1>2. FetchedExcludes \in Seq(Rgs) /\ Addresses(FetchedExcludes) = MeantExcludes BY FetchedHolds
<1>3. /\ SubtractRanges(ExpandTarget.ranges, FetchedExcludes) \in Seq(Rgs)
      /\ Spaced(SubtractRanges(ExpandTarget.ranges, FetchedExcludes), 1)
      /\ Addresses(SubtractRanges(ExpandTarget.ranges, FetchedExcludes)) = MeantTarget \ MeantExcludes
  BY <1>1, <1>2, SubtractHolds
<1>4. e = SubtractRanges(ExpandTarget.ranges, FetchedExcludes) BY DEF Effective
<1> HIDE DEF e
<1>5. e \in Seq(Rgs) /\ Spaced(e, 1) /\ Addresses(e) = MeantTarget \ MeantExcludes BY <1>3, <1>4
<1>6. Spaced(e, 0) BY <1>5, SpacedCloser
<1> QED BY <1>5, <1>6 DEF e

\* The blocks one after the other are ranges in order, of all that the blocks hold.
LEMMA LaidFlat ==
  ASSUME NEW ss, Laid(ss)
  PROVE  FlattenSeq(ss) \in Seq(Rgs) /\ Spaced(FlattenSeq(ss), 0) /\ Addresses(FlattenSeq(ss)) = Covers(ss)
<1>1. ss \in Seq(Seq(Rgs)) BY DEF Laid
<1>2. FlattenSeq(ss) \in Seq(Rgs) /\ Addresses(FlattenSeq(ss)) = Covers(ss) BY <1>1, FlattenRanges DEF Covers
<1>3. \A i \in 1 .. Len(ss) : Spaced(ss[i], 0) BY DEF Laid
<1>4. \A h, i \in 1 .. Len(ss) : h < i =>
        \A j \in 1 .. Len(ss[h]), k \in 1 .. Len(ss[i]) : ss[h][j].hi + 0 < ss[i][k].lo
  <2>1. ASSUME NEW h \in 1 .. Len(ss), NEW i \in 1 .. Len(ss), h < i, NEW j \in 1 .. Len(ss[h]), NEW k \in 1 .. Len(ss[i])
        PROVE  ss[h][j].hi + 0 < ss[i][k].lo
    <3>1. ss[h][j].hi < ss[i][k].lo BY <2>1 DEF Laid
    <3>2. ss[h][j].hi \in Int BY <1>1, EndsAreIn
    <3> QED BY <3>1, <3>2
  <2> QED BY <2>1
<1>5. Spaced(FlattenSeq(ss), 0) BY <1>1, <1>3, <1>4, FlattenSpaced
<1> QED BY <1>2, <1>5

\* Ranges too many for one block.
LEMMA SeveralBlocks ==
  ASSUME NEW bs, NEW rs \in Seq(Rgs), Spaced(rs, 0), NEW per \in Nat \ {0}, Blocked(bs, rs, per), Amount(rs) > per
  PROVE  Len(bs) \in Nat /\ Len(bs) > 1 /\ Amount(bs[1]) = per /\ Amount(bs[Len(bs)]) <= per
<1>1. bs \in Seq(Seq(Rgs)) /\ Laid(bs) BY DEF Blocked, Laid
<1>2. Len(bs) \in Nat /\ Covers(bs) = Addresses(rs) BY <1>1 DEF Blocked
<1>3. Cardinality(Addresses(rs)) = Amount(rs) /\ Amount(rs) \in Nat BY AmountHolds
<1>4. Len(bs) # 0
  <2>1. SUFFICES ASSUME Len(bs) = 0 PROVE FALSE OBVIOUS
  <2>2. 1 .. 0 = {} OBVIOUS
  <2>3. Covers(bs) = {} BY <2>1, <2>2 DEF Covers
  <2>4. Cardinality({}) = 0 BY FS_EmptySet
  <2> QED BY <1>2, <1>3, <2>3, <2>4
<1>5. bs # <<>> BY <1>1, <1>4
<1>6. Amount(bs[Len(bs)]) <= per BY <1>5 DEF Blocked
<1>7. Len(bs) # 1
  <2>1. SUFFICES ASSUME Len(bs) = 1 PROVE FALSE OBVIOUS
  <2>2. 1 \in 1 .. Len(bs) BY <2>1
  <2>7. bs[1] \in Seq(Rgs) BY <1>1, <2>2
  <2>8. Spaced(bs[1], 0) BY <1>1, <2>2 DEF Laid
  <2>3. 1 .. 1 = {1} OBVIOUS
  <2>4. Covers(bs) = Addresses(bs[1]) BY <2>1, <2>3 DEF Covers
  <2>5. Cardinality(Addresses(bs[1])) = Amount(bs[1]) BY <2>7, <2>8, AmountHolds
  <2>6. Amount(bs[1]) = Amount(rs) BY <1>2, <1>3, <2>4, <2>5
  <2> QED BY <1>3, <1>6, <2>1, <2>6
<1>8. Len(bs) > 1 /\ 1 \in 1 .. Len(bs) - 1
  <2>1. \A n \in Nat : n # 0 /\ n # 1 => n > 1 /\ 1 \in 1 .. n - 1 OBVIOUS
  <2> QED BY <1>2, <1>4, <1>7, <2>1
<1>9. Amount(bs[1]) = per BY <1>8 DEF Blocked
<1> QED BY <1>2, <1>6, <1>8, <1>9

\* A target planned in blocks.
Planned(target, ports, rate) ==
    LET bs == PlanBlocks(target, ports, rate)
        per == PerBlock(ports, rate)
    IN  /\ per \in Nat \ {0} /\ Blocked(bs, Effective(target), per)
        /\ per >= MinAddresses /\ per * ports < (BlockTime * rate) + MinAddresses * ports
        /\ Len(bs) \in Nat /\ Len(bs) > 1 /\ Amount(bs[1]) = per /\ Amount(bs[Len(bs)]) <= per

\* A target that is split is planned so.
LEMMA PlanHolds ==
  ASSUME Entered, NEW ports \in PortCounts, NEW rate \in Rates, Splits(ExpandTarget, ports, rate)
  PROVE  Planned(ExpandTarget, ports, rate)
<1> DEFINE e == Effective(ExpandTarget)
           per == PerBlock(ports, rate)
           bs == PlanBlocks(ExpandTarget, ports, rate)
<1>1. ports \in Nat \ {0} /\ rate \in Nat \ {0}
  <2>1. ports \in Nat /\ rate \in Nat BY TargetAssumption
  <2> QED BY <2>1 DEF Splits
<1>2. per \in Nat \ {0} /\ per >= MinAddresses /\ per * ports < (BlockTime * rate) + MinAddresses * ports
  BY <1>1, PerBlockHolds
<1>3. e \in Seq(Rgs) /\ Spaced(e, 0) BY EffectiveHolds
<1>4. per < Amount(e) BY DEF Splits
<1>5. Amount(e) \in Nat BY <1>3, AmountHolds
<1>6. bs = Blocks(e, per) BY DEF PlanBlocks
<1>9. Planned(ExpandTarget, ports, rate) <=>
        /\ per \in Nat \ {0} /\ Blocked(bs, e, per)
        /\ per >= MinAddresses /\ per * ports < (BlockTime * rate) + MinAddresses * ports
        /\ Len(bs) \in Nat /\ Len(bs) > 1 /\ Amount(bs[1]) = per /\ Amount(bs[Len(bs)]) <= per
  BY DEF Planned
<1> HIDE DEF e, per, bs
<1>7. Blocked(bs, e, per) BY <1>2, <1>3, <1>6, BlocksHold
<1>8. Len(bs) \in Nat /\ Len(bs) > 1 /\ Amount(bs[1]) = per /\ Amount(bs[Len(bs)]) <= per
  BY <1>2, <1>3, <1>4, <1>5, <1>7, SeveralBlocks
<1> QED BY <1>2, <1>7, <1>8, <1>9

\* So the blocks are exact.
LEMMA BlocksExact == ASSUME Entered PROVE BlocksAreExact
<1> DEFINE target == ExpandTarget
<1>1. ASSUME NEW ports \in PortCounts, NEW rate \in Rates, Splits(target, ports, rate),
             NEW bs, bs = PlanBlocks(target, ports, rate), NEW flat, flat = FlattenSeq(bs)
      PROVE  /\ Addresses(flat) = MeantTarget \ MeantExcludes
             /\ \A i \in 1 .. Len(flat) - 1 : flat[i].hi < flat[i + 1].lo
             /\ \A i \in 1 .. Len(bs) - 1 : Amount(bs[i]) = Amount(bs[1])
             /\ Amount(bs[1]) >= MinAddresses /\ Amount(Last(bs)) <= Amount(bs[1])
             /\ Amount(bs[1]) * ports < (BlockTime * rate) + MinAddresses * ports
             /\ Len(bs) > 1
  <2> DEFINE per == PerBlock(ports, rate)
             e == Effective(target)
  <2>1. Planned(target, ports, rate) BY <1>1, PlanHolds
  <2>2. /\ per \in Nat \ {0} /\ Blocked(bs, e, per)
        /\ per >= MinAddresses /\ per * ports < (BlockTime * rate) + MinAddresses * ports
        /\ Len(bs) \in Nat /\ Len(bs) > 1 /\ Amount(bs[1]) = per /\ Amount(bs[Len(bs)]) <= per
    BY <1>1, <2>1 DEF Planned
  <2>3. Addresses(e) = MeantTarget \ MeantExcludes BY EffectiveHolds
  <2> HIDE DEF target, per, e
  <2>4. Laid(bs) /\ Covers(bs) = Addresses(e) /\ \A i \in 1 .. Len(bs) - 1 : Amount(bs[i]) = per BY <2>2 DEF Blocked
  <2>5. flat \in Seq(Rgs) /\ Spaced(flat, 0) /\ Addresses(flat) = Covers(bs) BY <1>1, <2>4, LaidFlat
  <2>6. ASSUME NEW i \in 1 .. Len(flat) - 1 PROVE flat[i].hi < flat[i + 1].lo
    <3>1. i \in 1 .. Len(flat) /\ i + 1 \in 1 .. Len(flat) /\ i < i + 1 BY <2>5
    <3>2. flat[i].hi + 0 < flat[i + 1].lo BY <2>5, <3>1 DEF Spaced
    <3>3. flat[i].hi \in Int BY <2>5, <3>1, AddressIn
    <3> QED BY <3>2, <3>3
  <2>7. Last(bs) = bs[Len(bs)] BY DEF Last
  <2> QED BY <2>2, <2>3, <2>4, <2>5, <2>6, <2>7
<1> QED BY <1>1 DEF BlocksAreExact

(***************************************************************************)
(* What is left of the blocks.                                             *)
(***************************************************************************)
LEMMA FrontHolds ==
  ASSUME NEW T, NEW s \in Seq(T), NEW d \in 0 .. Len(s)
  PROVE  /\ SubSeq(s, 1, d) \in Seq(T) /\ Len(SubSeq(s, 1, d)) = d
         /\ \A k \in 1 .. d : SubSeq(s, 1, d)[k] = s[k]
OBVIOUS

\* and those after them.
LEMMA RestHolds ==
  ASSUME NEW T, NEW s \in Seq(T), NEW d \in 0 .. Len(s)
  PROVE  /\ SubSeq(s, d + 1, Len(s)) \in Seq(T) /\ Len(SubSeq(s, d + 1, Len(s))) = Len(s) - d
         /\ \A k \in 1 .. Len(s) - d : SubSeq(s, d + 1, Len(s))[k] = s[k + d]
<1> DEFINE q == SubSeq(s, d + 1, Len(s))
<1>1. Len(s) \in Nat /\ d \in Nat /\ d <= Len(s) OBVIOUS
<1>2. Len(s) - d \in Nat /\ Len(s) - (d + 1) + 1 = Len(s) - d BY <1>1
<1>3. \A k \in 1 .. Len(s) - d : (d + 1) + k - 1 = k + d /\ k + d \in 1 .. Len(s) BY <1>1
<1>6. \A k \in d + 1 .. Len(s) : s[k] \in T BY <1>1
<1>7. /\ q \in Seq(T) /\ Len(q) = (IF d + 1 <= Len(s) THEN Len(s) - (d + 1) + 1 ELSE 0)
      /\ \A k \in 1 .. Len(s) - (d + 1) + 1 : q[k] = s[(d + 1) + k - 1]
  <2>1. d + 1 \in Int /\ Len(s) \in Int BY <1>1
  <2> QED BY <1>6, <2>1, SubSeqProperties
<1>4. q \in Seq(T) /\ Len(q) = Len(s) - d BY <1>1, <1>7
<1>5. \A k \in 1 .. Len(s) - d : q[k] = s[(d + 1) + k - 1] BY <1>2, <1>7
<1> QED BY <1>3, <1>4, <1>5

\* No address is in two blocks.
LEMMA LaidApart ==
  ASSUME NEW ss, Laid(ss), NEW g \in 1 .. Len(ss), NEW i \in 1 .. Len(ss), g < i,
         NEW a \in Addresses(ss[g])
  PROVE  a \notin Addresses(ss[i])
<1>1. ss \in Seq(Seq(Rgs)) /\ ss[g] \in Seq(Rgs) /\ ss[i] \in Seq(Rgs) BY DEF Laid
<1>2. a \in Int /\ \E j \in 1 .. Len(ss[g]) : ss[g][j].lo <= a /\ a <= ss[g][j].hi BY <1>1, AddressIn
<1>3. PICK j \in 1 .. Len(ss[g]) : a <= ss[g][j].hi BY <1>2
<1>4. SUFFICES ASSUME a \in Addresses(ss[i]) PROVE FALSE OBVIOUS
<1>5. PICK k \in 1 .. Len(ss[i]) : ss[i][k].lo <= a BY <1>1, <1>4, AddressIn
<1>6. ss[g][j].hi < ss[i][k].lo BY DEF Laid
<1>7. ss[g][j].hi \in Int /\ ss[i][k].lo \in Int BY <1>1, EndsAreIn
<1> QED BY <1>2, <1>3, <1>5, <1>6, <1>7

\* The blocks done and those that are not share no address and are all there is.
LEMMA LaidParts ==
  ASSUME NEW ss, Laid(ss), NEW d \in 0 .. Len(ss)
  PROVE  /\ SubSeq(ss, 1, d) \in Seq(Seq(Rgs)) /\ SubSeq(ss, d + 1, Len(ss)) \in Seq(Seq(Rgs))
         /\ Covers(SubSeq(ss, d + 1, Len(ss))) = Covers(ss) \ Covers(SubSeq(ss, 1, d))
         /\ Covers(SubSeq(ss, 1, d)) \subseteq Covers(ss)
<1> DEFINE f == SubSeq(ss, 1, d)
           r == SubSeq(ss, d + 1, Len(ss))
           n == Len(ss)
<1>1. ss \in Seq(Seq(Rgs)) /\ n \in Nat /\ d \in Nat /\ d <= n BY DEF Laid
<1>2. f \in Seq(Seq(Rgs)) /\ Len(f) = d /\ \A k \in 1 .. d : f[k] = ss[k] BY <1>1, FrontHolds
<1>3. r \in Seq(Seq(Rgs)) /\ Len(r) = n - d /\ \A k \in 1 .. n - d : r[k] = ss[k + d] BY <1>1, RestHolds
<1> HIDE DEF f, r
<1>4. \A a : a \in Covers(f) <=> \E k \in 1 .. d : a \in Addresses(ss[k]) BY <1>2 DEF Covers
<1>5. \A a : a \in Covers(r) <=> \E k \in 1 .. n - d : a \in Addresses(ss[k + d])
  <2>1. \A a : a \in Covers(r) <=> \E k \in 1 .. n - d : a \in Addresses(r[k]) BY <1>3 DEF Covers
  <2> QED BY <1>3, <2>1
<1>6. \A a : a \in Covers(ss) <=> \E k \in 1 .. n : a \in Addresses(ss[k]) BY DEF Covers
<1>7. \A k \in 1 .. d : k \in 1 .. n BY <1>1
<1>8. \A k \in 1 .. n - d : k + d \in 1 .. n /\ \A j \in 1 .. d : j < k + d BY <1>1
<1>9. \A k \in 1 .. n : k \notin 1 .. d => k - d \in 1 .. n - d /\ (k - d) + d = k BY <1>1
<1>10. ASSUME NEW a \in Covers(r) PROVE a \in Covers(ss) /\ a \notin Covers(f)
  <2>1. PICK k \in 1 .. n - d : a \in Addresses(ss[k + d]) BY <1>5
  <2>2. ASSUME NEW j \in 1 .. d, a \in Addresses(ss[j]) PROVE FALSE BY <1>7, <1>8, <2>1, <2>2, LaidApart
  <2> QED BY <1>4, <1>6, <1>8, <2>1, <2>2
<1>11. ASSUME NEW a \in Covers(ss), a \notin Covers(f) PROVE a \in Covers(r) BY <1>4, <1>5, <1>6, <1>9, <1>11
<1>12. Covers(f) \subseteq Covers(ss) BY <1>4, <1>6, <1>7
<1> QED BY <1>2, <1>3, <1>10, <1>11, <1>12 DEF f, r

\* Ranges one after the other hold what each of them holds.
LEMMA BothAddresses ==
  ASSUME NEW a \in Seq(Rgs), NEW b \in Seq(Rgs)
  PROVE  a \o b \in Seq(Rgs) /\ Addresses(a \o b) = Addresses(a) \cup Addresses(b)
<1> DEFINE c == a \o b
<1>1. /\ c \in Seq(Rgs) /\ Len(c) = Len(a) + Len(b) /\ Len(a) \in Nat /\ Len(b) \in Nat
      /\ \A k \in 1 .. Len(a) : k \in 1 .. Len(c) /\ c[k] = a[k]
      /\ \A k \in 1 .. Len(b) : k + Len(a) \in 1 .. Len(c) /\ c[k + Len(a)] = b[k]
      /\ \A k \in 1 .. Len(c) : k \notin 1 .. Len(a) => k - Len(a) \in 1 .. Len(b) /\ c[k] = b[k - Len(a)]
  BY ConcatHolds
<1> HIDE DEF c
<1>2. \A x : x \in Addresses(a) <=> x \in Int /\ \E k \in 1 .. Len(a) : a[k].lo <= x /\ x <= a[k].hi BY AddressIn
<1>3. \A x : x \in Addresses(b) <=> x \in Int /\ \E k \in 1 .. Len(b) : b[k].lo <= x /\ x <= b[k].hi BY AddressIn
<1>4. \A x : x \in Addresses(c) <=> x \in Int /\ \E k \in 1 .. Len(c) : c[k].lo <= x /\ x <= c[k].hi
  BY <1>1, AddressIn
<1>5. ASSUME NEW x \in Addresses(c) PROVE x \in Addresses(a) \cup Addresses(b)
  <2>1. x \in Int BY <1>4
  <2>2. PICK k \in 1 .. Len(c) : c[k].lo <= x /\ x <= c[k].hi BY <1>4
  <2>3. CASE k \in 1 .. Len(a) BY <1>1, <1>2, <2>1, <2>2, <2>3
  <2>4. CASE k \notin 1 .. Len(a) BY <1>1, <1>3, <2>1, <2>2, <2>4
  <2> QED BY <2>3, <2>4
<1>6. ASSUME NEW x \in Addresses(a) PROVE x \in Addresses(c)
  <2>1. PICK k \in 1 .. Len(a) : x \in Int /\ a[k].lo <= x /\ x <= a[k].hi BY <1>2
  <2> QED BY <1>1, <1>4, <2>1
<1>7. ASSUME NEW x \in Addresses(b) PROVE x \in Addresses(c)
  <2>1. PICK k \in 1 .. Len(b) : x \in Int /\ b[k].lo <= x /\ x <= b[k].hi BY <1>3
  <2>2. k + Len(a) \in 1 .. Len(c) /\ c[k + Len(a)] = b[k] BY <1>1
  <2> QED BY <1>4, <2>1, <2>2
<1> QED BY <1>1, <1>5, <1>6, <1>7 DEF c

\* So the remainder is exact.
LEMMA RemainderHolds == ASSUME Entered PROVE RemainderIsExact
<1> DEFINE target == ExpandTarget
           whole == MeantTarget \ MeantExcludes
<1>1. ASSUME NEW ports \in PortCounts, NEW rate \in Rates, Splits(target, ports, rate),
             NEW bs, bs = PlanBlocks(target, ports, rate), NEW done \in 0 .. Len(bs),
             NEW before, before = Addresses(FlattenSeq(SubSeq(bs, 1, done))),
             NEW pending \in {{}} \cup {{b} : b \in before},
             NEW left, left = Remaining(bs, done, pending)
      PROVE  Tidy(left) /\ Addresses(left) = pending \cup (whole \ before)
  <2> DEFINE e == Effective(target)
             front == SubSeq(bs, 1, done)
             rest == SubSeq(bs, done + 1, Len(bs))
             flat == FlattenSeq(rest)
             points == Points(pending)
  <2>1. Planned(target, ports, rate) BY <1>1, PlanHolds
  <2>2. Laid(bs) /\ Covers(bs) = Addresses(e) BY <1>1, <2>1 DEF Planned, Blocked
  <2>3. Addresses(e) = whole BY EffectiveHolds
  <2>4. left = MergeRanges(flat \o points) BY <1>1 DEF Remaining
  <2> HIDE DEF target, whole, e
  <2>5. front \in Seq(Seq(Rgs)) /\ rest \in Seq(Seq(Rgs)) /\ Covers(rest) = Covers(bs) \ Covers(front)
    BY <2>2, LaidParts
  <2>6. before = Addresses(FlattenSeq(front)) BY <1>1
  <2> HIDE DEF front, rest
  <2>7. FlattenSeq(front) \in Seq(Rgs) /\ Addresses(FlattenSeq(front)) = Covers(front) BY <2>5, FlattenRanges DEF Covers
  <2>8. flat \in Seq(Rgs) /\ Addresses(flat) = Covers(rest) BY <2>5, FlattenRanges DEF Covers
  <2>9. before \subseteq Int BY <2>6, <2>7, AddressIn
  <2>10. pending \subseteq Int /\ IsFiniteSet(pending)
    <3>1. CASE pending = {} BY <3>1, FS_EmptySet
    <3>2. CASE pending \in {{b} : b \in before}
      <4>1. PICK b \in before : pending = {b} BY <3>2
      <4> QED BY <2>9, <4>1, FS_Singleton
    <3> QED BY <3>1, <3>2
  <2>11. points \in Seq(Rgs) /\ Addresses(points) = pending BY <2>10, PointsHold
  <2> HIDE DEF flat, points
  <2>12. flat \o points \in Seq(Rgs) /\ Addresses(flat \o points) = Addresses(flat) \cup Addresses(points)
    BY <2>8, <2>11, BothAddresses
  <2>13. left \in Seq(Rgs) /\ Spaced(left, 1) /\ Addresses(left) = Addresses(flat \o points) BY <2>4, <2>12, MergeHolds
  <2>14. Tidy(left) BY <2>13, SpacedIsTidy
  <2> QED BY <2>2, <2>3, <2>5, <2>6, <2>7, <2>8, <2>11, <2>12, <2>13, <2>14
<1> QED BY <1>1 DEF RemainderIsExact

(***************************************************************************)
(* Typing.                                                                 *)
(***************************************************************************)

\* At first nothing is entered,
LEMMA EnteredInit == TargetInit => Entered
BY DEF TargetInit, Entered

\* and then a token or an entry at a time.
LEMMA EnteredStep == Entered /\ [TargetNext]_targetVars => Entered'
<1> SUFFICES ASSUME Entered, [TargetNext]_targetVars PROVE Entered' OBVIOUS
<1>1. ASSUME NEW t \in TargetTokens, TypeToken(t) PROVE Entered' BY <1>1 DEF Entered, TypeToken
<1>2. ASSUME NEW t \in ExcludeEntries, ExcludeEntry(t) PROVE Entered' BY <1>2 DEF Entered, ExcludeEntry
<1>3. CASE UNCHANGED targetVars BY <1>3 DEF Entered, targetVars
<1> QED BY <1>1, <1>2, <1>3 DEF TargetNext

\* All of this follows from what is entered alone.
LEMMA PlanIsAlways == Entered => PlanIsExact
BY ExpansionHolds, BlocksExact, RemainderHolds, SplitHolds, CoverageHolds DEF PlanIsExact

\* What an operator types is discovered in blocks, queued again, dealt out to
\* scanners and counted as covered exactly as it was meant (chunks.go,
\* targetPattern.ts, scanSplit.ts and ipRange.ts), for addresses of any number
\* of digits, any ranges, patterns and rates, and any owner of the blocks.
THEOREM PlanStaysExact == TargetSpec => []PlanIsExact
<1>1. TargetSpec => []Entered BY EnteredInit, EnteredStep, PTL DEF TargetSpec
<1> QED BY <1>1, PlanIsAlways, PTL
==================================================================================
