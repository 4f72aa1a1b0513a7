-------------------------- MODULE MCConcurrentTree --------------------------
(* Small instances of ConcurrentTree for TLC.                              *)
EXTENDS ConcurrentTreeInv, TLC

CONSTANTS t1, t2, t3

Ins(k) == [kind |-> "insert", key |-> k, count |-> 0]
Scan(k, n) == [kind |-> "scan", key |-> k, count |-> n]

Three == 1 .. 3
Four == 1 .. 4
Five == 1 .. 5

\* three threads; t3 inserts a key another thread inserts too
LoadThree == (t1 :> {Ins(1), Ins(4)}) @@ (t2 :> {Ins(2), Ins(5)}) @@ (t3 :> {Ins(3), Ins(4)})
LoadLive == (t1 :> {Ins(1), Ins(2), Ins(4)}) @@ (t2 :> {Ins(3), Scan(1, 9), Scan(4, 0)})
\* inserts against a scan
LoadAndScan == (t1 :> {Ins(1), Ins(2), Ins(3)}) @@ (t2 :> {Scan(2, 9)})
LoadAndScanDeep == (t1 :> {Ins(k) : k \in Five}) @@ (t2 :> {Scan(1, 9)})
\* two threads insert the same key
Twice == (t1 :> {Ins(1), Ins(2)}) @@ (t2 :> {Ins(2), Ins(3)})
============================================================================
