----------------------------- MODULE CacheFabric -----------------------------
(***************************************************************************)
(* One key of the computation cache of autofde_lab (_cache/coordinator and *)
(* _cache/stores): every process has a CacheFabric with a memory tier, and *)
(* all of them share one SQLite tier.                                      *)
(*                                                                         *)
(* A call that misses joins the flight of its process.  The leader of the  *)
(* flight takes a lease against the other processes, or polls for what its *)
(* holder stores; it computes, stores in both tiers, and wakes the others. *)
(* What is computed is a version of a source that may change at any time,  *)
(* after which callers invalidate.  Other keys are seen as evictions, the  *)
(* clock as records and leases that expire; each copy of a record expires  *)
(* on its own.                                                             *)
(***************************************************************************)
EXTENDS Integers

CONSTANTS
  Processes,   \* the processes, each with its fabric
  Threads,     \* the threads that call
  ProcessOf,   \* the process of every thread
  CallsOf,     \* what every thread may ask for
  MaxVersion,  \* how often the source changes
  MaxCalls,    \* calls of all threads
  MaxFaults    \* records and leases that expire, and crashes

\* "nobody" and "gone" stand for what is no process and no thread.
ASSUME CacheAssumption ==
  /\ ProcessOf \in [Threads -> Processes]
  /\ "nobody" \notin Threads \cup Processes /\ "gone" \notin Processes
  /\ MaxVersion \in Nat

VARIABLES
  version,   \* what a computation that starts now computes
  l1,        \* the record in the memory of each process
  l2,        \* the record in the shared SQLite store
  lease,     \* the row of cache_leases: its owner, and whether it has expired
  flights,   \* the flight of each process
  call,      \* where the call of each thread stands
  floor,     \* history: the version that an undisturbed invalidation was about
  bounds     \* how many calls and faults there were

vars == <<version, l1, l2, lease, flights, call, floor, bounds>>

\* The result of a call that raised, and of a flight that goes on.
Raised  == -1
Pending == -2

\* A record that is stored has the tags of its key.
NoRecord == [value |-> Raised, stale |-> FALSE, tagged |-> FALSE]
Fresh(value) == [value |-> value, stale |-> FALSE, tagged |-> TRUE]

\* The owner that a crashed process had: the next one has a new name.
Gone == "gone"
NoLease == [owner |-> "nobody", valid |-> FALSE]

NoFlight == [leader |-> "nobody", result |-> Raised]

\* mode is what was asked for, and later why the call still looks for a
\* record: as holder of the lease, polling for its holder's, or as a follower.
\* since, alone and outdated are history, for InvalidationSticks.
Idle == [at |-> "idle", mode |-> "NORMAL", record |-> NoRecord, stale |-> NoRecord, value |-> Raised,
         lease |-> "none", since |-> 0, alone |-> FALSE, outdated |-> FALSE]

Modes == {"NORMAL", "READ_ONLY", "REFRESH", "VERIFY"}
\* invalidate by method or namespace, by tags, and clear.
Removals == {"INVALIDATE", "INVALIDATE_TAGS", "CLEAR"}

\* On the way of a removal.
Removing == {"dropL1", "selectL2", "deleteL2", "commitL2"}

At(t, place) == call[t].at = place

Counted(what, bound) == bounds[what] < bound /\ bounds' = [bounds EXCEPT ![what] = @ + 1]

\* The call is over: it answered with a value, or raised.
Answered(c, value) == [Idle EXCEPT !.outdated = c.outdated \/ value \in 0..c.since-1]

Leads(c) == c.mode \in {"lease", "poll"}

\* A call that leads a flight has its lease to release and its flight to settle.
Concluded(c, value) ==
  IF Leads(c) THEN [c EXCEPT !.at = "release", !.value = value, !.record = NoRecord, !.stale = NoRecord]
  ELSE Answered(c, value)

-----------------------------------------------------------------------------
(* The beginning and the end of a call *)

\* An invalidation is alone while its process has no other call.
Undisturbed(t, c) ==
  [u \in Threads |-> IF u = t THEN c
                     ELSE IF ProcessOf[u] = ProcessOf[t] THEN [call[u] EXCEPT !.alone = FALSE]
                     ELSE call[u]]

Begin(t, mode) ==
  /\ At(t, "idle") /\ Counted("calls", MaxCalls)
  /\ call' = Undisturbed(t, [Idle EXCEPT !.at = IF mode = "REFRESH" THEN "join" ELSE "lookup",
                                         !.mode = mode, !.since = floor[ProcessOf[t]]])
  /\ UNCHANGED <<version, l1, l2, lease, flights, floor>>

BeginRemoval(t, mode) ==
  /\ At(t, "idle") /\ Counted("calls", MaxCalls)
  /\ LET others == {u \in Threads \ {t} : ProcessOf[u] = ProcessOf[t]}
     IN call' = Undisturbed(t, [Idle EXCEPT !.at = "dropL1", !.mode = mode, !.since = version,
                                            !.alone = \A u \in others : At(u, "idle")])
  /\ UNCHANGED <<version, l1, l2, lease, flights, floor>>

-----------------------------------------------------------------------------
(* A lookup: memory, then SQLite with a promotion *)

\* Where a call goes on after its lookup: the first one of a call, the one
\* under the lease, a poll for the lease holder's record, a follower's.
AfterLookup(c, r) ==
  LET fresh == r # NoRecord /\ ~r.stale
      next == [c EXCEPT !.record = NoRecord]
  IN CASE fresh /\ c.mode \in {"NORMAL", "READ_ONLY", "follow"} -> Answered(c, r.value)
       [] fresh /\ c.mode \in {"lease", "poll"}   -> Concluded(c, r.value)
       [] fresh /\ c.mode = "VERIFY"              -> [c EXCEPT !.at = "verify", !.record = r]
       [] ~fresh /\ c.mode \in {"NORMAL", "VERIFY"} -> [next EXCEPT !.at = "join", !.stale = r]
       [] ~fresh /\ c.mode = "READ_ONLY"          -> Answered(c, Raised)
       [] ~fresh /\ c.mode = "lease" -> [next EXCEPT !.at = "compute", !.stale = IF @ = NoRecord THEN r ELSE @]
       [] ~fresh /\ c.mode = "poll"               -> [next EXCEPT !.at = "wait"]
       [] ~fresh /\ c.mode = "follow"             -> Answered(c, c.value)

\* A record in memory, stale or not, hides the one in SQLite.  A call that
\* waits for the lease polls.
LookupL1(t) ==
  /\ At(t, "lookup") \/ At(t, "wait")
  /\ LET r == l1[ProcessOf[t]]
     IN call' = [call EXCEPT ![t] = IF r # NoRecord THEN AfterLookup(@, r) ELSE [@ EXCEPT !.at = "lookupL2"]]
  /\ UNCHANGED <<version, l1, l2, lease, flights, floor, bounds>>

\* The row of the record, and then its tags: each is a statement of its own.
LookupL2(t) ==
  /\ At(t, "lookupL2")
  /\ call' = [call EXCEPT ![t] = IF l2 = NoRecord THEN AfterLookup(@, NoRecord)
                                 ELSE [@ EXCEPT !.at = "tags", !.record = l2]]
  /\ UNCHANGED <<version, l1, l2, lease, flights, floor, bounds>>

\* A row that has gone meanwhile has taken its tags with it.
ReadTags(t) ==
  /\ At(t, "tags")
  /\ call' = [call EXCEPT ![t].at = "promote", ![t].record.tagged = l2 # NoRecord]
  /\ UNCHANGED <<version, l1, l2, lease, flights, floor, bounds>>

\* Memory stores the record, or loses what it had when it prefers another
\* key's, or keeps what it had when the record is larger than all of it.
PutL1(p, r) == \E kept \in {r, NoRecord, l1[p]} : l1' = [l1 EXCEPT ![p] = kept]

Promote(t) ==
  /\ At(t, "promote")
  /\ PutL1(ProcessOf[t], call[t].record)
  /\ call' = [call EXCEPT ![t] = AfterLookup(@, @.record)]
  /\ UNCHANGED <<version, l2, lease, flights, floor, bounds>>

-----------------------------------------------------------------------------
(* The flight of a process *)

\* A follower goes on: the leader's error is its own.
Woken(c, result) ==
  IF result = Raised THEN Answered(c, Raised)
  ELSE [c EXCEPT !.at = "lookup", !.mode = "follow", !.value = result, !.stale = NoRecord]

\* Mutant: the flight is not looked for.
JoinAlone(t) ==
  /\ At(t, "join")
  /\ flights' = [flights EXCEPT ![ProcessOf[t]] = [leader |-> t, result |-> Pending]]
  /\ call' = [call EXCEPT ![t].at = "lease"]
  /\ UNCHANGED <<version, l1, l2, lease, floor, bounds>>

Join(t) ==
  LET p == ProcessOf[t]
      flight == flights[p]
  IN /\ At(t, "join")
     /\ IF flight = NoFlight
        THEN /\ flights' = [flights EXCEPT ![p] = [leader |-> t, result |-> Pending]]
             /\ call' = [call EXCEPT ![t].at = "lease"]
        ELSE /\ call' = [call EXCEPT ![t] = IF flight.result = Pending
                                            THEN [@ EXCEPT !.at = "follow", !.stale = NoRecord]
                                            ELSE Woken(@, flight.result)]
             /\ UNCHANGED flights
     /\ UNCHANGED <<version, l1, l2, lease, floor, bounds>>

\* The followers of t: there is never a second leader in its process.
Followers(t) == {u \in Threads : ProcessOf[u] = ProcessOf[t] /\ At(u, "follow")}

\* Mutant: the event is set when there is a result, and not for an error.
SettleResults(t) ==
  LET result == call[t].value
  IN /\ At(t, "settle")
     /\ flights' = [flights EXCEPT ![ProcessOf[t]].result = result]
     /\ call' = [u \in Threads |-> IF u = t THEN [call[t] EXCEPT !.at = "pop"]
                                   ELSE IF u \in Followers(t) /\ result # Raised THEN Woken(call[u], result)
                                   ELSE call[u]]
     /\ UNCHANGED <<version, l1, l2, lease, floor, bounds>>

\* event.set(): whoever waits goes on with the result.
Settle(t) ==
  LET result == call[t].value
  IN /\ At(t, "settle")
     /\ flights' = [flights EXCEPT ![ProcessOf[t]].result = result]
     /\ call' = [u \in Threads |-> IF u = t THEN [call[t] EXCEPT !.at = "pop"]
                                   ELSE IF u \in Followers(t) THEN Woken(call[u], result)
                                   ELSE call[u]]
     /\ UNCHANGED <<version, l1, l2, lease, floor, bounds>>

Pop(t) ==
  /\ At(t, "pop")
  /\ flights' = [flights EXCEPT ![ProcessOf[t]] = NoFlight]
  /\ call' = [call EXCEPT ![t] = Answered(@, @.value)]
  /\ UNCHANGED <<version, l1, l2, lease, floor, bounds>>

-----------------------------------------------------------------------------
(* The lease against other processes *)

AcquireLease(t) ==
  LET p == ProcessOf[t]
      c == call[t]
  IN /\ At(t, "lease")
     /\ IF lease.valid /\ lease.owner # p
        THEN call' = [call EXCEPT ![t].at = "wait", ![t].mode = "poll"] /\ UNCHANGED lease
        ELSE /\ lease' = [owner |-> p, valid |-> TRUE]
             /\ call' = [call EXCEPT ![t] = [c EXCEPT !.lease = "held", !.mode = "lease",
                                                      !.at = IF c.mode = "REFRESH" THEN "compute" ELSE "lookup"]]
     /\ UNCHANGED <<version, l1, l2, flights, floor, bounds>>

\* The deadline of the wait has come.  lease_timeout: compute without the lease, or raise.
WaitEnds(t) ==
  /\ At(t, "wait")
  /\ \/ call' = [call EXCEPT ![t].at = "compute"]
     \/ call' = [call EXCEPT ![t] = Concluded(@, Raised)]
  /\ UNCHANGED <<version, l1, l2, lease, flights, floor, bounds>>

\* Mutant: the row goes whoever owns it.
ReleaseLeaseOfAnyone(t) ==
  /\ At(t, "release")
  /\ lease' = IF call[t].lease # "none" THEN NoLease ELSE lease
  /\ call' = [call EXCEPT ![t].at = "settle", ![t].lease = "none"]
  /\ UNCHANGED <<version, l1, l2, flights, floor, bounds>>

\* Only one's own row is deleted, and only by a call that acquired it.
ReleaseLease(t) ==
  /\ At(t, "release")
  /\ lease' = IF call[t].lease # "none" /\ lease.owner = ProcessOf[t] THEN NoLease ELSE lease
  /\ call' = [call EXCEPT ![t].at = "settle", ![t].lease = "none"]
  /\ UNCHANGED <<version, l1, l2, flights, floor, bounds>>

-----------------------------------------------------------------------------
(* The computation and its storage *)

Compute(t) ==
  /\ At(t, "compute") \/ At(t, "verify")
  /\ call' = [call EXCEPT ![t].at = IF @ = "compute" THEN "computing" ELSE "verifying", ![t].value = version]
  /\ UNCHANGED <<version, l1, l2, lease, flights, floor, bounds>>

\* The value goes to the stores, or to nobody but the caller (cache_none).
ComputeReturns(t) ==
  /\ At(t, "computing")
  /\ \/ call' = [call EXCEPT ![t] = [@ EXCEPT !.at = "storeL1", !.stale = NoRecord]]
     \/ call' = [call EXCEPT ![t] = Concluded(@, @.value)]
  /\ UNCHANGED <<version, l1, l2, lease, flights, floor, bounds>>

\* Mutant: an exception passes by the release of the lease.
ComputeRaisesPastRelease(t) ==
  /\ At(t, "computing")
  /\ call' = [call EXCEPT ![t] = [Concluded(@, Raised) EXCEPT !.at = "settle", !.lease = "none"]]
  /\ UNCHANGED <<version, l1, l2, lease, flights, floor, bounds>>

\* The stale record that was found before serves, unless it has become too old.
ComputeRaises(t) ==
  /\ At(t, "computing")
  /\ \/ call[t].stale # NoRecord /\ call' = [call EXCEPT ![t] = Concluded(@, @.stale.value)]
     \/ call' = [call EXCEPT ![t] = Concluded(@, Raised)]
  /\ UNCHANGED <<version, l1, l2, lease, flights, floor, bounds>>

\* VERIFY compares what it computed with the record; a mismatch is dropped and
\* replaced, without a flight or a lease.
VerifyEnds(t) ==
  /\ At(t, "verifying")
  /\ \/ call' = [call EXCEPT ![t] = IF @.value = @.record.value THEN Answered(@, @.value)
                                    ELSE [@ EXCEPT !.at = "dropL1", !.record = NoRecord]]
     \/ call' = [call EXCEPT ![t] = Answered(@, Raised)]
  /\ UNCHANGED <<version, l1, l2, lease, flights, floor, bounds>>

StoreL1(t) ==
  /\ At(t, "storeL1")
  /\ PutL1(ProcessOf[t], Fresh(call[t].value))
  /\ call' = [call EXCEPT ![t].at = "storeL2"]
  /\ UNCHANGED <<version, l2, lease, flights, floor, bounds>>

\* The transaction commits, or is rolled back and the call raises.
StoreL2(t) ==
  /\ At(t, "storeL2")
  /\ \/ l2' = Fresh(call[t].value) /\ call' = [call EXCEPT ![t] = Concluded(@, @.value)]
     \/ UNCHANGED l2 /\ call' = [call EXCEPT ![t] = Concluded(@, Raised)]
  /\ UNCHANGED <<version, l1, lease, flights, floor, bounds>>

-----------------------------------------------------------------------------
(* Removal: memory first, then SQLite *)

\* VERIFY drops by the tag of its key.  A record that was promoted without
\* its tags is missed in memory; what SQLite has was stored with them.
Missed(c, r) == c.mode \in {"VERIFY", "INVALIDATE_TAGS"} /\ r # NoRecord /\ ~r.tagged

DropL1(t) ==
  LET p == ProcessOf[t]
      missed == Missed(call[t], l1[p])
  IN /\ At(t, "dropL1")
     /\ l1' = [l1 EXCEPT ![p] = IF missed THEN @ ELSE NoRecord]
     /\ call' = [call EXCEPT ![t].at = "selectL2", ![t].alone = @ /\ ~missed]
     /\ UNCHANGED <<version, l2, lease, flights, floor, bounds>>

\* A computation of u that began before and may still reach a store.
Unstored(u, since) ==
  /\ \/ call[u].at \in {"computing", "verifying", "storeL1", "storeL2"}
     \/ call[u].mode = "VERIFY" /\ call[u].at \in Removing
  /\ call[u].value < since

NoneOlder(since) == \A u \in Threads : ~Unstored(u, since)

\* Which keys have a record, before the transaction that deletes them: what is
\* stored under a key that had none stays.  clear() counts, and deletes all.
SelectL2(t) ==
  LET some == call[t].mode = "CLEAR" \/ l2 # NoRecord
  IN /\ At(t, "selectL2")
     /\ call' = [call EXCEPT ![t].at = IF some THEN "deleteL2" ELSE "commitL2",
                             ![t].alone = @ /\ (some \/ NoneOlder(call[t].since))]
     /\ UNCHANGED <<version, l1, l2, lease, flights, floor, bounds>>

\* A holder whose lease is not in the table any more, or has expired.
Lapsed(p) == [u \in Threads |-> IF ProcessOf[u] = p /\ call[u].lease = "held"
                                THEN [call[u] EXCEPT !.lease = "lapsed"] ELSE call[u]]

\* The end of a removal that left after in SQLite.  VERIFY stores what it
\* computed, or does not (cache_none); clear() deletes the leases as well.
RemovedL2(t, after) ==
  LET c == call[t]
  IN /\ c.at \in {"deleteL2", "commitL2"}
     /\ l2' = after
     /\ floor' = IF c.alone /\ NoneOlder(c.since) THEN [floor EXCEPT ![ProcessOf[t]] = c.since] ELSE floor
     /\ \/ c.mode = "VERIFY" /\ UNCHANGED lease
          /\ call' \in {[call EXCEPT ![t].at = "storeL1"], [call EXCEPT ![t] = Answered(c, c.value)]}
        \/ c.mode \in Removals \ {"CLEAR"} /\ call' = [call EXCEPT ![t] = Idle] /\ UNCHANGED lease
        \/ c.mode = "CLEAR" /\ lease' = NoLease /\ call' = [Lapsed(lease.owner) EXCEPT ![t] = Idle]
     /\ UNCHANGED <<version, l1, flights, bounds>>

\* Mutant: SQLite keeps its record.
DropL2Never(t) == RemovedL2(t, l2)

DropL2(t) == RemovedL2(t, IF At(t, "deleteL2") THEN NoRecord ELSE l2)

\* The transaction is not begun, or rolled back: the removal raises.
DropL2Raises(t) ==
  /\ call[t].at \in {"deleteL2", "commitL2"}
  /\ call' = [call EXCEPT ![t] = Answered(@, Raised)]
  /\ UNCHANGED <<version, l1, l2, lease, flights, floor, bounds>>

-----------------------------------------------------------------------------
(* The world around *)

SourceChanges ==
  /\ version < MaxVersion
  /\ version' = version + 1
  /\ UNCHANGED <<l1, l2, lease, flights, call, floor, bounds>>

\* A record passes its expires_at; or it is evicted, or passes its stale_until.
RecordAges ==
  /\ Counted("faults", MaxFaults)
  /\ \/ \E p \in Processes : l1[p] # NoRecord /\ UNCHANGED l2
          /\ \E r \in {NoRecord, [l1[p] EXCEPT !.stale = TRUE]} : l1' = [l1 EXCEPT ![p] = r]
     \/ l2 # NoRecord /\ UNCHANGED l1 /\ l2' \in {NoRecord, [l2 EXCEPT !.stale = TRUE]}
  /\ UNCHANGED <<version, lease, flights, call, floor>>

LeaseExpires ==
  /\ Counted("faults", MaxFaults)
  /\ lease.valid
  /\ lease' = [lease EXCEPT !.valid = FALSE]
  /\ call' = Lapsed(lease.owner)
  /\ UNCHANGED <<version, l1, l2, flights, floor>>

\* The memory of the process is lost, its lease is nobody's until it expires.
Crash(p) ==
  /\ Counted("faults", MaxFaults)
  /\ \E t \in Threads : ProcessOf[t] = p /\ ~At(t, "idle")
  /\ l1' = [l1 EXCEPT ![p] = NoRecord]
  /\ flights' = [flights EXCEPT ![p] = NoFlight]
  /\ call' = [t \in Threads |-> IF ProcessOf[t] = p THEN Idle ELSE call[t]]
  /\ lease' = IF lease.owner = p THEN [lease EXCEPT !.owner = Gone] ELSE lease
  /\ UNCHANGED <<version, l2, floor>>

Init ==
  /\ version = 0
  /\ l1 = [p \in Processes |-> NoRecord] /\ l2 = NoRecord
  /\ lease = NoLease
  /\ flights = [p \in Processes |-> NoFlight]
  /\ call = [t \in Threads |-> Idle]
  /\ floor = [p \in Processes |-> 0]
  /\ bounds = [calls |-> 0, faults |-> 0]

\* What a thread does by itself once its call has begun.
Step(t) ==
  \/ LookupL1(t) \/ LookupL2(t) \/ ReadTags(t) \/ Promote(t) \/ Join(t) \/ Settle(t) \/ Pop(t)
  \/ AcquireLease(t) \/ WaitEnds(t) \/ ReleaseLease(t)
  \/ Compute(t) \/ ComputeReturns(t) \/ ComputeRaises(t) \/ VerifyEnds(t)
  \/ StoreL1(t) \/ StoreL2(t)
  \/ DropL1(t) \/ SelectL2(t) \/ DropL2(t) \/ DropL2Raises(t)

Next ==
  \/ \E t \in Threads : \/ \E m \in Modes \cap CallsOf[t] : Begin(t, m)
                        \/ \E m \in Removals \cap CallsOf[t] : BeginRemoval(t, m)
                        \/ Step(t)
  \/ SourceChanges \/ RecordAges \/ LeaseExpires
  \/ \E p \in Processes : Crash(p)

\* Threads are scheduled, computations end, and the deadline of a wait comes
\* however often it polls before.
Fairness == \A t \in Threads : WF_vars(Step(t)) /\ SF_vars(WaitEnds(t))

Spec == Init /\ [][Next]_vars /\ Fairness

-----------------------------------------------------------------------------
(* Properties *)

Results == 0..MaxVersion \cup {Raised}

Records == [value : Results, stale : BOOLEAN, tagged : BOOLEAN]

Places == Removing \cup
  {"idle", "lookup", "lookupL2", "tags", "promote", "join", "follow", "lease", "wait", "compute", "computing",
   "verify", "verifying", "storeL1", "storeL2", "release", "settle", "pop"}

\* The types of the variables: records hold versions that there were, and a
\* flight has a leader in its process that is on its way.
TypeOK ==
  /\ version \in 0..MaxVersion
  /\ \A r \in {l2} \cup {l1[p] : p \in Processes} : r \in Records /\ r.value <= version
  /\ lease.owner \in Processes \cup {Gone, NoLease.owner} /\ lease.valid \in BOOLEAN
  /\ \A p \in Processes : flights[p] # NoFlight =>
       /\ flights[p].result \in Results \cup {Pending}
       /\ ProcessOf[flights[p].leader] = p
       /\ flights[p].result = Pending <=> ~At(flights[p].leader, "pop")
       /\ call[flights[p].leader].at \notin {"idle", "join", "follow"}
  /\ \A t \in Threads :
       /\ call[t].at \in Places /\ call[t].value \in Results
       /\ {call[t].record, call[t].stale} \subseteq Records
       /\ call[t].lease \in {"none", "held", "lapsed"}
       /\ call[t].since \in 0..version
  /\ floor \in [Processes -> 0..version]

\* Between its lease and its stores.
Constructing(t) == Leads(call[t]) /\ call[t].at \in {"compute", "computing", "storeL1", "storeL2"}

\* No value is computed twice at a time for want of a lookup: constructions
\* of one process never overlap, and those of two processes only when one
\* of them gave up its wait, or its lease expired or was cleared under it.
ComputationsAreExclusive ==
  \A t, u \in Threads : t # u /\ Constructing(t) /\ Constructing(u) =>
    ProcessOf[t] # ProcessOf[u] /\ ~(call[t].lease = "held" /\ call[u].lease = "held")

\* The lease of a process that lives is backed by a call of it that will
\* release it, however the computation ends; and whoever counts on a lease
\* has it: no other process' release, and no cleanup, took it away.
LeasesAreBacked ==
  /\ lease.owner \in Processes => \E t \in Threads : ProcessOf[t] = lease.owner /\ call[t].lease # "none"
  /\ \A t \in Threads : call[t].lease = "held" => lease = [owner |-> ProcessOf[t], valid |-> TRUE]

\* An invalidation sticks: later calls of its process never answer with an
\* older version, whatever other processes have in memory.  It does when it
\* returns, when no call of its process overlaps it, when its tags find the
\* record in memory, and when no process still has an older computation on
\* its way to a store as SQLite deletes, or, if there is nothing to delete,
\* already as SQLite is asked what there is.
InvalidationSticks == \A t \in Threads : ~call[t].outdated

\* Every call ends: nobody waits for a flight whose leader failed, for a lease
\* whose holder crashed, or for a wait that others renew.
CallsEnd == \A t \in Threads : ~At(t, "idle") ~> At(t, "idle")
=============================================================================
