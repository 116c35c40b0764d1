--------------------------- MODULE ScanPipelineMC ---------------------------
(* Small instances of ScanPipeline: three addresses, at most three of them *)
(* hosts, with sub-tasks of two kinds.                                      *)
EXTENDS ScanPipeline, TLC

CONSTANTS h1, h2, h3, t1, t2, t3, shot, tls

\* The first address is a block of its own.
TwoBlocks == [a \in Addrs |-> IF a = h1 THEN 1 ELSE 2]

\* h1 has a screenshot and a certificate to fetch, h2 a certificate.
Hosts == [t \in Tasks |-> IF t \in {t1, t2} THEN h1 ELSE h2]
KindsOf == [t \in Tasks |-> IF t = t1 THEN shot ELSE tls]
Workers == [k \in Kinds |-> 1]
=============================================================================
