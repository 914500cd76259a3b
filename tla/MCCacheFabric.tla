---------------------------- MODULE MCCacheFabric ----------------------------
(***************************************************************************)
(* A small instance of CacheFabric: a process with two threads and one     *)
(* with a single thread, over a source that changes once.                  *)
(***************************************************************************)
EXTENDS CacheFabric

MCProcesses == {"here", "there"}
MCThreads   == {"t1", "t2", "t3"}
MCProcessOf == [t \in MCThreads |-> IF t = "t3" THEN "there" ELSE "here"]
MCCallsOf   == [t1 |-> {"NORMAL", "REFRESH"}, t2 |-> {"VERIFY"} \cup Removals,
                t3 |-> {"NORMAL", "READ_ONLY"}]

\* For the liveness of flights and leases.
MCReadersOf == [t \in MCThreads |-> IF t = "t2" THEN {"REFRESH"} ELSE {"NORMAL"}]
=============================================================================
