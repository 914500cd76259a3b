----------------------------- MODULE CacheProofs -----------------------------
(***************************************************************************)
(* Theorems of CacheFabric, for every number of processes and threads and  *)
(* every length of a run.                                                  *)
(*                                                                         *)
(* The invariant adds to the two properties what makes them inductive: a   *)
(* thread that may construct is the leader of its process' flight, and     *)
(* the place of a call says whether it leads.  Nearly every action moves   *)
(* one call and nothing that the invariant relates it to: LEMMA Moves.     *)
(***************************************************************************)
EXTENDS CacheFabric, TLAPS

USE CacheAssumption DEF Removing

IsCall(c) == DOMAIN c = {"at", "mode", "record", "stale", "value", "lease", "since", "alone", "outdated"}

\* A call that has made the flight of its process, or is about to construct.
OnLead(c) == c.at = "lease" \/ Leads(c)

Lookups == {"NORMAL", "READ_ONLY", "VERIFY", "lease", "poll", "follow"}

\* What the place of a call says of it.
Placed(c) ==
  /\ c.at \in {"wait", "compute", "computing", "release", "settle", "pop"} => Leads(c)
  /\ c.at \in {"idle", "join", "follow", "lease", "verify", "verifying"} \cup Removing => ~Leads(c)
  /\ c.at \in {"lookup", "lookupL2", "tags", "promote"} => c.mode \in Lookups
  /\ c.lease # "none" => c.mode = "lease" /\ c.at \notin {"settle", "pop"}

Shapes ==
  /\ DOMAIN call = Threads /\ \A t \in Threads : IsCall(call[t])
  /\ DOMAIN flights = Processes /\ \A p \in Processes : DOMAIN flights[p] = {"leader", "result"}
  /\ DOMAIN lease = {"owner", "valid"}

CallsPlaced == \A t \in Threads : Placed(call[t])

LeadersFly == \A t \in Threads : OnLead(call[t]) => flights[ProcessOf[t]].leader = t

IInv == Shapes /\ CallsPlaced /\ LeadersFly /\ LeasesAreBacked

-----------------------------------------------------------------------------
(* Calls *)

\* A call that neither leads nor has a lease, and one that only lost or kept
\* the part in its process that it had: what may follow call c.
Free(c) == IsCall(c) /\ Placed(c) /\ ~OnLead(c) /\ c.lease = "none"

Follows(d, c) == IsCall(d) /\ Placed(d) /\ (OnLead(d) => OnLead(c)) /\ d.lease = c.lease

\* A thread without a call leads nothing.
LEMMA IdleFree == Free(Idle)
BY DEF Free, IsCall, Placed, OnLead, Leads, Idle

\* An answer ends a call.
LEMMA AnsweredFree == ASSUME NEW c, NEW v PROVE Free(Answered(c, v))
BY DEF Free, IsCall, Placed, OnLead, Leads, Idle, Answered

\* A call that leads goes to its release and keeps its lease, another one ends.
LEMMA ConcludedFollows ==
  ASSUME NEW c, IsCall(c), Placed(c), NEW v
  PROVE  Follows(Concluded(c, v), c)
<1>1. CASE ~Leads(c)
  BY <1>1, AnsweredFree DEF Concluded, Follows, Free, Placed, Leads
<1>2. CASE Leads(c)
  BY <1>2 DEF Concluded, Follows, IsCall, Placed, OnLead, Leads
<1>3. QED
  BY <1>1, <1>2

\* A step that moves calls where they may go, and leaves the lease and the
\* leaders of the flights as they are, keeps the invariant.
LEMMA AllMove ==
  ASSUME IInv, DOMAIN call' = Threads, \A u \in Threads : Follows(call'[u], call[u]),
         DOMAIN flights' = Processes, UNCHANGED lease,
         \A p \in Processes : DOMAIN flights'[p] = {"leader", "result"} /\ flights'[p].leader = flights[p].leader
  PROVE  IInv'
<1>. USE DEF IInv, Follows
<1>1. Shapes'
  BY DEF Shapes
<1>2. CallsPlaced'
  BY DEF CallsPlaced
<1>3. LeadersFly'
  BY DEF LeadersFly
<1>4. LeasesAreBacked'
  BY DEF LeasesAreBacked
<1>5. QED
  BY <1>1, <1>2, <1>3, <1>4

\* The usual case: one call moves.
LEMMA Moves ==
  ASSUME IInv, NEW t \in Threads, NEW c, Follows(c, call[t]),
         call' = [call EXCEPT ![t] = c], UNCHANGED <<lease, flights>>
  PROVE  IInv'
<1>1. \A u \in Threads : Follows(call[u], call[u])
  BY DEF IInv, Shapes, CallsPlaced, Follows
<1>2. DOMAIN call' = Threads /\ \A u \in Threads : Follows(call'[u], call[u])
  BY <1>1 DEF IInv, Shapes
<1>3. QED
  BY <1>2, AllMove DEF IInv, Shapes

\* Two calls of one process never both lead.
LEMMA OneLeader ==
  ASSUME IInv, NEW t \in Threads, NEW u \in Threads, ProcessOf[t] = ProcessOf[u],
         OnLead(call[t]), OnLead(call[u])
  PROVE  t = u
BY DEF IInv, LeadersFly

\* A lookup leads nowhere but where its call may go.
LEMMA AfterLookupFollows ==
  ASSUME NEW c, IsCall(c), Placed(c), NEW r, c.at \in {"lookup", "wait", "lookupL2", "promote"}
  PROVE  Follows(AfterLookup(c, r), c)
<1>. DEFINE fresh == r # NoRecord /\ ~r.stale
<1>0. c.mode \in Lookups
  BY DEF Placed, Leads, Lookups
<1>1. CASE fresh /\ c.mode \in {"NORMAL", "READ_ONLY", "follow"}
  <2>1. AfterLookup(c, r) = Answered(c, r.value)
    BY <1>1 DEF AfterLookup
  <2>2. QED
    BY <1>1, <2>1, AnsweredFree DEF Follows, Free, Placed
<1>2. CASE fresh /\ c.mode \in {"lease", "poll"}
  <2>1. AfterLookup(c, r) = Concluded(c, r.value)
    BY <1>2 DEF AfterLookup
  <2>2. QED
    BY <2>1, ConcludedFollows
<1>3. CASE fresh /\ c.mode = "VERIFY"
  BY <1>3 DEF AfterLookup, Follows, IsCall, Placed, OnLead, Leads
<1>4. CASE ~fresh /\ c.mode \in {"NORMAL", "VERIFY"}
  BY <1>4 DEF AfterLookup, Follows, IsCall, Placed, OnLead, Leads
<1>5. CASE ~fresh /\ c.mode = "READ_ONLY"
  <2>1. AfterLookup(c, r) = Answered(c, Raised)
    BY <1>5 DEF AfterLookup
  <2>2. QED
    BY <1>5, <2>1, AnsweredFree DEF Follows, Free, Placed
<1>6. CASE ~fresh /\ c.mode \in {"lease", "poll"}
  BY <1>6 DEF AfterLookup, Follows, IsCall, Placed, OnLead, Leads
<1>7. CASE ~fresh /\ c.mode = "follow"
  <2>1. AfterLookup(c, r) = Answered(c, c.value)
    BY <1>7 DEF AfterLookup
  <2>2. QED
    BY <1>7, <2>1, AnsweredFree DEF Follows, Free, Placed
<1>8. QED
  BY <1>0, <1>1, <1>2, <1>3, <1>4, <1>5, <1>6, <1>7 DEF Lookups

-----------------------------------------------------------------------------
(* Steps that move one call *)

\* A lookup moves its call by AfterLookup, or one tier on.
LEMMA LookupStep ==
  ASSUME IInv, NEW t \in Threads, LookupL1(t) \/ LookupL2(t) \/ ReadTags(t) \/ Promote(t)
  PROVE  IInv'
<1>1. IsCall(call[t]) /\ Placed(call[t])
  BY DEF IInv, Shapes, CallsPlaced
<1>. DEFINE c == call[t]
            asking == [c EXCEPT !.at = "lookupL2"]
            found == [c EXCEPT !.at = "tags", !.record = l2]
            read == [c EXCEPT !.at = "promote", !.record.tagged = l2 # NoRecord]
<1>2. CASE LookupL1(t)
  <2>1. \E r : call' = [call EXCEPT ![t] = AfterLookup(c, r)] \/ call' = [call EXCEPT ![t] = asking]
    BY <1>2 DEF LookupL1
  <2>2. c.at \in {"lookup", "wait"}
    BY <1>2 DEF LookupL1, At
  <2>3. Follows(asking, c)
    BY <1>1, <2>2 DEF Follows, IsCall, Placed, OnLead, Leads, Lookups
  <2>4. \A r : Follows(AfterLookup(c, r), c)
    BY <1>1, <2>2, AfterLookupFollows
  <2>5. QED
    BY <1>2, <2>1, <2>3, <2>4, Moves DEF LookupL1
<1>3. CASE LookupL2(t)
  <2>1. call' = [call EXCEPT ![t] = AfterLookup(c, NoRecord)] \/ call' = [call EXCEPT ![t] = found]
    BY <1>3 DEF LookupL2
  <2>2. c.at = "lookupL2"
    BY <1>3 DEF LookupL2, At
  <2>3. Follows(found, c)
    BY <1>1, <2>2 DEF Follows, IsCall, Placed, OnLead, Leads
  <2>4. Follows(AfterLookup(c, NoRecord), c)
    BY <1>1, <2>2, AfterLookupFollows
  <2>5. QED
    BY <1>3, <2>1, <2>3, <2>4, Moves DEF LookupL2
<1>4. CASE Promote(t)
  <2>1. call' = [call EXCEPT ![t] = AfterLookup(c, c.record)] /\ c.at = "promote"
    BY <1>4 DEF Promote, At
  <2>2. Follows(AfterLookup(c, c.record), c)
    BY <1>1, <2>1, AfterLookupFollows
  <2>3. QED
    BY <1>4, <2>1, <2>2, Moves DEF Promote
<1>5. CASE ReadTags(t)
  <2>1. call' = [call EXCEPT ![t] = read] /\ c.at = "tags"
    BY <1>5 DEF ReadTags, At
  <2>2. Follows(read, c)
    BY <1>1, <2>1 DEF Follows, IsCall, Placed, OnLead, Leads
  <2>3. QED
    BY <1>5, <2>1, <2>2, Moves DEF ReadTags
<1>6. QED
  BY <1>2, <1>3, <1>4, <1>5

\* A computation begins and ends within its call.
LEMMA ComputeStep ==
  ASSUME IInv, NEW t \in Threads,
         WaitEnds(t) \/ Compute(t) \/ ComputeReturns(t) \/ ComputeRaises(t) \/ VerifyEnds(t)
  PROVE  IInv'
<1>1. IsCall(call[t]) /\ Placed(call[t])
  BY DEF IInv, Shapes, CallsPlaced
<1>. DEFINE c == call[t]
<1>2. \A v : Follows(Concluded(c, v), c)
  BY <1>1, ConcludedFollows
<1>3. CASE WaitEnds(t)
  <2>. DEFINE d == [c EXCEPT !.at = "compute"]
  <2>1. call' = [call EXCEPT ![t] = d] \/ call' = [call EXCEPT ![t] = Concluded(c, Raised)]
    BY <1>3 DEF WaitEnds
  <2>2. Follows(d, c)
    BY <1>1, <1>3 DEF WaitEnds, At, Follows, IsCall, Placed, OnLead, Leads
  <2>3. QED
    BY <1>2, <1>3, <2>1, <2>2, Moves DEF WaitEnds
<1>4. CASE Compute(t)
  <2>. DEFINE d == [c EXCEPT !.at = IF c.at = "compute" THEN "computing" ELSE "verifying", !.value = version]
  <2>1. call' = [call EXCEPT ![t] = d]
    BY <1>4 DEF Compute
  <2>2. Follows(d, c)
    BY <1>1, <1>4 DEF Compute, At, Follows, IsCall, Placed, OnLead, Leads
  <2>3. QED
    BY <1>4, <2>1, <2>2, Moves DEF Compute
<1>5. CASE ComputeReturns(t)
  <2>. DEFINE d == [c EXCEPT !.at = "storeL1", !.stale = NoRecord]
  <2>1. call' = [call EXCEPT ![t] = d] \/ call' = [call EXCEPT ![t] = Concluded(c, c.value)]
    BY <1>5 DEF ComputeReturns
  <2>2. Follows(d, c)
    BY <1>1, <1>5 DEF ComputeReturns, At, Follows, IsCall, Placed, OnLead, Leads
  <2>3. QED
    BY <1>2, <1>5, <2>1, <2>2, Moves DEF ComputeReturns
<1>6. CASE ComputeRaises(t)
  <2>1. \E v : call' = [call EXCEPT ![t] = Concluded(c, v)]
    BY <1>6 DEF ComputeRaises
  <2>2. QED
    BY <1>2, <1>6, <2>1, Moves DEF ComputeRaises
<1>7. CASE VerifyEnds(t)
  <2>. DEFINE d == [c EXCEPT !.at = "dropL1", !.record = NoRecord]
  <2>1. \/ \E v : call' = [call EXCEPT ![t] = Answered(c, v)]
        \/ call' = [call EXCEPT ![t] = d]
    BY <1>7 DEF VerifyEnds
  <2>2. ~OnLead(c) /\ c.lease = "none" /\ Follows(d, c)
    BY <1>1, <1>7 DEF VerifyEnds, At, Follows, IsCall, Placed, OnLead, Leads
  <2>3. \A v : Follows(Answered(c, v), c)
    BY <2>2, AnsweredFree DEF Follows, Free
  <2>4. QED
    BY <1>7, <2>1, <2>2, <2>3, Moves DEF VerifyEnds
<1>8. QED
  BY <1>3, <1>4, <1>5, <1>6, <1>7

\* What is stored and dropped is not what the invariant is about.
LEMMA StoreStep ==
  ASSUME IInv, NEW t \in Threads, StoreL1(t) \/ StoreL2(t) \/ DropL1(t) \/ SelectL2(t) \/ DropL2Raises(t)
  PROVE  IInv'
<1>1. IsCall(call[t]) /\ Placed(call[t])
  BY DEF IInv, Shapes, CallsPlaced
<1>. DEFINE c == call[t]
            stored == [c EXCEPT !.at = "storeL2"]
<1>2. CASE StoreL1(t)
  <2>1. call' = [call EXCEPT ![t] = stored]
    BY <1>2 DEF StoreL1
  <2>2. Follows(stored, c)
    BY <1>1, <1>2 DEF StoreL1, At, Follows, IsCall, Placed, OnLead, Leads
  <2>3. QED
    BY <1>2, <2>1, <2>2, Moves DEF StoreL1
<1>3. CASE StoreL2(t)
  <2>1. \E v : call' = [call EXCEPT ![t] = Concluded(c, v)]
    BY <1>3 DEF StoreL2
  <2>2. QED
    BY <1>1, <1>3, <2>1, ConcludedFollows, Moves DEF StoreL2
<1>4. CASE DropL1(t)
  <2>. DEFINE b == c.alone /\ ~Missed(c, l1[ProcessOf[t]])
              d == [c EXCEPT !.at = "selectL2", !.alone = b]
  <2>1. call' = [call EXCEPT ![t] = d]
    BY <1>4 DEF DropL1
  <2>. HIDE DEF b
  <2>2. Follows(d, c)
    BY <1>1, <1>4 DEF DropL1, At, Follows, IsCall, Placed, OnLead, Leads
  <2>. HIDE DEF d
  <2>3. QED
    BY <1>4, <2>1, <2>2, Moves DEF DropL1
<1>5. CASE SelectL2(t)
  <2>. DEFINE some == c.mode = "CLEAR" \/ l2 # NoRecord
              b == c.alone /\ (some \/ NoneOlder(c.since))
              d == [c EXCEPT !.at = IF some THEN "deleteL2" ELSE "commitL2", !.alone = b]
  <2>1. call' = [call EXCEPT ![t] = d]
    BY <1>5 DEF SelectL2
  <2>. HIDE DEF b, some
  <2>2. Follows(d, c)
    BY <1>1, <1>5 DEF SelectL2, At, Follows, IsCall, Placed, OnLead, Leads
  <2>. HIDE DEF d
  <2>3. QED
    BY <1>5, <2>1, <2>2, Moves DEF SelectL2
<1>6. CASE DropL2Raises(t)
  <2>1. call' = [call EXCEPT ![t] = Answered(c, Raised)]
    BY <1>6 DEF DropL2Raises
  <2>2. ~OnLead(c) /\ c.lease = "none"
    BY <1>1, <1>6 DEF DropL2Raises, Placed, OnLead, Leads
  <2>3. Follows(Answered(c, Raised), c)
    BY <2>2, AnsweredFree DEF Follows, Free
  <2>4. QED
    BY <1>6, <2>1, <2>3, Moves DEF DropL2Raises
<1>7. QED
  BY <1>2, <1>3, <1>4, <1>5, <1>6

-----------------------------------------------------------------------------
(* Calls begin, flights are made and settled *)

\* A new call is free, and the others of its process only lose that they are alone.
LEMMA BeginStep ==
  ASSUME IInv, NEW t \in Threads,
         (\E m \in Modes \cap CallsOf[t] : Begin(t, m)) \/ (\E m \in Removals \cap CallsOf[t] : BeginRemoval(t, m))
  PROVE  IInv'
<1>1. PICK c : call' = Undisturbed(t, c) /\ Free(c)
  <2>1. ASSUME NEW m \in Modes, Begin(t, m)
        PROVE  \E c : call' = Undisturbed(t, c) /\ Free(c)
    <3>. DEFINE c == [Idle EXCEPT !.at = IF m = "REFRESH" THEN "join" ELSE "lookup",
                                  !.mode = m, !.since = floor[ProcessOf[t]]]
    <3>1. call' = Undisturbed(t, c)
      BY <2>1 DEF Begin
    <3>2. Free(c)
      BY DEF Free, IsCall, Placed, OnLead, Leads, Lookups, Idle, Modes
    <3>3. QED
      BY <3>1, <3>2
  <2>2. ASSUME NEW m \in Removals, BeginRemoval(t, m)
        PROVE  \E c : call' = Undisturbed(t, c) /\ Free(c)
    <3>. DEFINE others == {u \in Threads \ {t} : ProcessOf[u] = ProcessOf[t]}
                c == [Idle EXCEPT !.at = "dropL1", !.mode = m, !.since = version,
                                  !.alone = \A u \in others : At(u, "idle")]
    <3>1. call' = Undisturbed(t, c)
      BY <2>2 DEF BeginRemoval
    <3>2. Free(c)
      BY DEF Free, IsCall, Placed, OnLead, Leads, Idle, Removals
    <3>3. QED
      BY <3>1, <3>2
  <2>3. QED
    BY <2>1, <2>2
<1>2. At(t, "idle") /\ UNCHANGED <<lease, flights>>
  BY DEF Begin, BeginRemoval
<1>3. \A u \in Threads : IsCall(call[u]) /\ Placed(call[u])
  BY DEF IInv, Shapes, CallsPlaced
<1>4. Follows(c, call[t])
  BY <1>1, <1>2, <1>3 DEF At, Follows, Free, Placed, Leads
<1>5. \A u \in Threads : Follows(call[u], call[u]) /\ Follows([call[u] EXCEPT !.alone = FALSE], call[u])
  BY <1>3 DEF Follows, IsCall, Placed, OnLead, Leads
<1>6. DOMAIN call' = Threads /\ \A u \in Threads : Follows(call'[u], call[u])
  BY <1>1, <1>4, <1>5 DEF Undisturbed
<1>7. QED
  BY <1>2, <1>6, AllMove DEF IInv, Shapes

\* Whoever is woken goes on without leading.
LEMMA WokenFree ==
  ASSUME NEW c, IsCall(c), NEW result, c.lease = "none"
  PROVE  Free(Woken(c, result))
<1>1. CASE result = Raised
  BY <1>1, AnsweredFree DEF Woken
<1>2. CASE result # Raised
  BY <1>2 DEF Woken, Free, IsCall, Placed, OnLead, Leads, Lookups
<1>3. QED
  BY <1>1, <1>2

\* Who finds no flight becomes the leader, and there was no other.
LEMMA JoinStep ==
  ASSUME IInv, NEW t \in Threads, Join(t)
  PROVE  IInv'
<1>. DEFINE p == ProcessOf[t]
            c == call[t]
            leading == [c EXCEPT !.at = "lease"]
            following == [c EXCEPT !.at = "follow", !.stale = NoRecord]
<1>1. IsCall(c) /\ Placed(c) /\ c.at = "join" /\ ~Leads(c) /\ c.lease = "none"
  BY DEF IInv, Shapes, CallsPlaced, Placed, Leads, Join, At
<1>2. CASE flights[p] = NoFlight
  <2>1. /\ call' = [call EXCEPT ![t] = leading]
        /\ flights' = [flights EXCEPT ![p] = [leader |-> t, result |-> Pending]] /\ UNCHANGED lease
    BY <1>2 DEF Join
  <2>2. IsCall(leading) /\ Placed(leading) /\ leading.lease = "none"
    BY <1>1 DEF IsCall, Placed, Leads
  <2>3. \A u \in Threads : ProcessOf[u] = p => ~OnLead(call[u])
    BY <1>2 DEF IInv, LeadersFly, NoFlight
  <2>4. call'[t] = leading /\ \A u \in Threads \ {t} : call'[u] = call[u]
    BY <2>1 DEF IInv, Shapes
  <2>5. flights'[p].leader = t /\ \A q \in Processes \ {p} : flights'[q] = flights[q]
    BY <2>1 DEF IInv, Shapes
  <2>6. Shapes'
    BY <2>1, <2>2 DEF IInv, Shapes
  <2>7. CallsPlaced'
    BY <2>2, <2>4 DEF IInv, CallsPlaced
  <2>8. LeadersFly'
    BY <2>3, <2>4, <2>5 DEF IInv, LeadersFly
  <2>9. LeasesAreBacked'
    BY <1>1, <2>1, <2>2, <2>4 DEF IInv, LeasesAreBacked
  <2>10. QED
    BY <2>6, <2>7, <2>8, <2>9 DEF IInv
<1>3. CASE flights[p] # NoFlight
  <2>1. /\ \/ call' = [call EXCEPT ![t] = following]
           \/ call' = [call EXCEPT ![t] = Woken(c, flights[p].result)]
        /\ UNCHANGED <<lease, flights>>
    BY <1>3 DEF Join
  <2>2. Follows(following, c)
    BY <1>1 DEF Follows, IsCall, Placed, OnLead, Leads
  <2>3. Follows(Woken(c, flights[p].result), c)
    BY <1>1, WokenFree DEF Follows, Free
  <2>4. QED
    BY <2>1, <2>2, <2>3, Moves
<1>4. QED
  BY <1>2, <1>3

\* The leader wakes its followers, none of which leads.
LEMMA SettleStep ==
  ASSUME IInv, NEW t \in Threads, Settle(t)
  PROVE  IInv'
<1>. DEFINE settled == [call[t] EXCEPT !.at = "pop"]
<1>1. \A u \in Threads : IsCall(call[u]) /\ Placed(call[u])
  BY DEF IInv, Shapes, CallsPlaced
<1>2. Follows(settled, call[t])
  BY <1>1 DEF Settle, At, Follows, IsCall, Placed, OnLead, Leads
<1>3. \A u \in Followers(t) : Follows(Woken(call[u], call[t].value), call[u])
  BY <1>1, WokenFree DEF Followers, At, Follows, Free, Placed, Leads
<1>4. \A u \in Threads : Follows(call[u], call[u])
  BY <1>1 DEF Follows
<1>5. DOMAIN call' = Threads /\ \A u \in Threads : Follows(call'[u], call[u])
  BY <1>2, <1>3, <1>4 DEF Settle
<1>6. /\ DOMAIN flights' = Processes
      /\ \A p \in Processes : DOMAIN flights'[p] = {"leader", "result"} /\ flights'[p].leader = flights[p].leader
  BY DEF Settle, IInv, Shapes
<1>7. QED
  BY <1>5, <1>6, AllMove DEF Settle

\* The flight that goes is that of the leader, the only call it could matter to.
LEMMA PopStep ==
  ASSUME IInv, NEW t \in Threads, Pop(t)
  PROVE  IInv'
<1>. DEFINE p == ProcessOf[t]
            done == Answered(call[t], call[t].value)
<1>1. Free(done)
  BY AnsweredFree
<1>2. OnLead(call[t]) /\ call[t].lease = "none"
  BY DEF IInv, CallsPlaced, Placed, OnLead, Pop, At
<1>3. /\ call' = [call EXCEPT ![t] = done] /\ UNCHANGED lease
      /\ flights' = [flights EXCEPT ![p] = NoFlight]
  BY DEF Pop
<1>4. call'[t] = done /\ \A u \in Threads \ {t} : call'[u] = call[u]
  BY <1>3 DEF IInv, Shapes
<1>5. \A u \in Threads \ {t} : OnLead(call[u]) => ProcessOf[u] # p
  BY <1>2, OneLeader
<1>6. Shapes'
  BY <1>1, <1>3, <1>4 DEF IInv, Shapes, Free, NoFlight
<1>7. CallsPlaced'
  BY <1>1, <1>4 DEF IInv, CallsPlaced, Free
<1>8. LeadersFly'
  BY <1>1, <1>3, <1>4, <1>5 DEF IInv, Shapes, LeadersFly, Free
<1>9. LeasesAreBacked'
  BY <1>1, <1>2, <1>3, <1>4 DEF IInv, LeasesAreBacked, Free
<1>10. QED
  BY <1>6, <1>7, <1>8, <1>9 DEF IInv

-----------------------------------------------------------------------------
(* The lease *)

\* Who takes the row takes it from nobody that still holds it.
LEMMA AcquireStep ==
  ASSUME IInv, NEW t \in Threads, AcquireLease(t)
  PROVE  IInv'
<1>. DEFINE p == ProcessOf[t]
            c == call[t]
            waiting == [c EXCEPT !.at = "wait", !.mode = "poll"]
            holding == [c EXCEPT !.lease = "held", !.mode = "lease",
                                 !.at = IF c.mode = "REFRESH" THEN "compute" ELSE "lookup"]
<1>1. IsCall(c) /\ Placed(c) /\ c.at = "lease" /\ OnLead(c) /\ c.lease = "none"
  BY DEF IInv, Shapes, CallsPlaced, Placed, Leads, OnLead, AcquireLease, At
<1>2. CASE lease.valid /\ lease.owner # p
  <2>1. call' = [call EXCEPT ![t] = waiting] /\ UNCHANGED <<lease, flights>>
    BY <1>2 DEF AcquireLease, IInv, Shapes, IsCall
  <2>2. Follows(waiting, c)
    BY <1>1 DEF Follows, IsCall, Placed, OnLead, Leads
  <2>3. QED
    BY <2>1, <2>2, Moves
<1>3. CASE ~(lease.valid /\ lease.owner # p)
  <2>1. /\ call' = [call EXCEPT ![t] = holding] /\ UNCHANGED flights
        /\ lease' = [owner |-> p, valid |-> TRUE]
    BY <1>3 DEF AcquireLease
  <2>2. IsCall(holding) /\ Placed(holding) /\ holding.lease = "held"
    BY <1>1 DEF IsCall, Placed, Leads, Lookups
  <2>3. call'[t] = holding /\ \A u \in Threads \ {t} : call'[u] = call[u]
    BY <2>1 DEF IInv, Shapes
  <2>4. Shapes'
    BY <2>1, <2>2, <2>3 DEF IInv, Shapes
  <2>5. CallsPlaced'
    BY <2>2, <2>3 DEF IInv, CallsPlaced
  <2>6. LeadersFly'
    BY <1>1, <2>1, <2>3 DEF IInv, LeadersFly
  <2>7. \A u \in Threads \ {t} : call[u].lease # "held"
    <3>1. SUFFICES ASSUME NEW u \in Threads \ {t}, call[u].lease = "held" PROVE FALSE
      OBVIOUS
    <3>2. lease = [owner |-> ProcessOf[u], valid |-> TRUE]
      BY <3>1 DEF IInv, LeasesAreBacked
    <3>3. OnLead(call[u])
      BY <3>1 DEF IInv, CallsPlaced, Placed, OnLead, Leads
    <3>4. QED
      BY <1>1, <1>3, <3>1, <3>2, <3>3, OneLeader
  <2>8. LeasesAreBacked'
    BY <2>1, <2>2, <2>3, <2>7 DEF LeasesAreBacked
  <2>9. QED
    BY <2>4, <2>5, <2>6, <2>8 DEF IInv
<1>4. QED
  BY <1>2, <1>3

\* Who releases its row leaves no other call of its process with one.
LEMMA ReleaseStep ==
  ASSUME IInv, NEW t \in Threads, ReleaseLease(t)
  PROVE  IInv'
<1>. DEFINE p == ProcessOf[t]
            c == call[t]
            released == [c EXCEPT !.at = "settle", !.lease = "none"]
<1>1. IsCall(c) /\ Placed(c) /\ c.at = "release" /\ OnLead(c)
  BY DEF IInv, Shapes, CallsPlaced, Placed, OnLead, ReleaseLease, At
<1>2. /\ call' = [call EXCEPT ![t] = released] /\ UNCHANGED flights
      /\ lease' = IF c.lease # "none" /\ lease.owner = p THEN NoLease ELSE lease
  BY DEF ReleaseLease, IInv, Shapes, IsCall
<1>3. IsCall(released) /\ Placed(released) /\ released.lease = "none"
  BY <1>1 DEF IsCall, Placed, Leads
<1>4. call'[t] = released /\ \A u \in Threads \ {t} : call'[u] = call[u]
  BY <1>2 DEF IInv, Shapes
<1>5. Shapes'
  BY <1>2, <1>3, <1>4 DEF IInv, Shapes, NoLease
<1>6. CallsPlaced'
  BY <1>3, <1>4 DEF IInv, CallsPlaced
<1>7. LeadersFly'
  BY <1>1, <1>2, <1>4 DEF IInv, LeadersFly
<1>8. \A u \in Threads \ {t} : call[u].lease # "none" => ProcessOf[u] # p
  BY <1>1, OneLeader DEF IInv, CallsPlaced, Placed, OnLead, Leads
<1>9. LeasesAreBacked'
  <2>1. CASE c.lease # "none" /\ lease.owner = p
    <3>1. lease'.owner \notin Processes
      BY <1>2, <2>1 DEF NoLease
    <3>2. \A u \in Threads \ {t} : call[u].lease = "held" => lease.owner = ProcessOf[u]
      BY DEF IInv, LeasesAreBacked
    <3>3. \A u \in Threads : call'[u].lease # "held"
      BY <1>3, <1>4, <1>8, <2>1, <3>2
    <3>4. QED
      BY <3>1, <3>3 DEF LeasesAreBacked
  <2>2. CASE c.lease # "none" /\ lease.owner # p
    BY <1>2, <1>3, <1>4, <2>2 DEF IInv, LeasesAreBacked
  <2>3. CASE c.lease = "none"
    BY <1>2, <1>3, <1>4, <2>3 DEF IInv, LeasesAreBacked
  <2>4. QED
    BY <2>1, <2>2, <2>3
<1>10. QED
  BY <1>5, <1>6, <1>7, <1>9 DEF IInv

\* Whoever held a lapsed lease is unaware of it: the rest of its call is as before.
LEMMA LapsedCalls ==
  ASSUME IInv, NEW p
  PROVE  /\ DOMAIN Lapsed(p) = Threads
         /\ \A u \in Threads :
              /\ IsCall(Lapsed(p)[u]) /\ Placed(Lapsed(p)[u])
              /\ OnLead(Lapsed(p)[u]) => OnLead(call[u])
              /\ Lapsed(p)[u].lease = "none" <=> call[u].lease = "none"
              /\ Lapsed(p)[u].lease = "held" => ProcessOf[u] # p /\ call[u].lease = "held"
<1>1. DOMAIN Lapsed(p) = Threads
  BY DEF Lapsed
<1>2. ASSUME NEW u \in Threads
      PROVE  /\ IsCall(Lapsed(p)[u]) /\ Placed(Lapsed(p)[u])
             /\ OnLead(Lapsed(p)[u]) => OnLead(call[u])
             /\ Lapsed(p)[u].lease = "none" <=> call[u].lease = "none"
             /\ Lapsed(p)[u].lease = "held" => ProcessOf[u] # p /\ call[u].lease = "held"
  <2>1. IsCall(call[u]) /\ Placed(call[u])
    BY DEF IInv, Shapes, CallsPlaced
  <2>2. CASE ProcessOf[u] = p /\ call[u].lease = "held"
    <3>1. Lapsed(p)[u] = [call[u] EXCEPT !.lease = "lapsed"]
      BY <2>2 DEF Lapsed
    <3>2. QED
      BY <2>1, <2>2, <3>1 DEF IsCall, Placed, OnLead, Leads
  <2>3. CASE ~(ProcessOf[u] = p /\ call[u].lease = "held")
    <3>1. Lapsed(p)[u] = call[u]
      BY <2>3 DEF Lapsed
    <3>2. QED
      BY <2>1, <2>3, <3>1
  <2>4. QED
    BY <2>2, <2>3
<1>3. QED
  BY <1>1, <1>2

\* The one who held the row has lapsed.
LEMMA ExpireStep ==
  ASSUME IInv, LeaseExpires
  PROVE  IInv'
<1>1. /\ call' = Lapsed(lease.owner) /\ UNCHANGED flights
      /\ lease' = [lease EXCEPT !.valid = FALSE]
  BY DEF LeaseExpires
<1>2. lease'.owner = lease.owner /\ DOMAIN lease' = {"owner", "valid"}
  BY <1>1 DEF IInv, Shapes
<1>3. Shapes'
  BY <1>1, <1>2, LapsedCalls DEF IInv, Shapes
<1>4. CallsPlaced'
  BY <1>1, LapsedCalls DEF CallsPlaced
<1>5. LeadersFly'
  BY <1>1, LapsedCalls DEF IInv, LeadersFly
<1>6. \A u \in Threads : call'[u].lease # "held"
  <2>1. \A u \in Threads : call[u].lease = "held" => lease.owner = ProcessOf[u]
    BY DEF IInv, LeasesAreBacked
  <2>2. QED
    BY <1>1, <2>1, LapsedCalls
<1>7. \A u \in Threads : call'[u].lease = "none" <=> call[u].lease = "none"
  BY <1>1, LapsedCalls
<1>8. LeasesAreBacked'
  BY <1>2, <1>6, <1>7 DEF IInv, LeasesAreBacked
<1>9. QED
  BY <1>3, <1>4, <1>5, <1>8 DEF IInv

\* The end of a removal; a cleanup takes the lease from its holder.
LEMMA DropStep ==
  ASSUME IInv, NEW t \in Threads, DropL2(t)
  PROVE  IInv'
<1>. DEFINE c == call[t]
            verified == [c EXCEPT !.at = "storeL1"]
<1>0. PICK after : RemovedL2(t, after)
  BY DEF DropL2
<1>. USE <1>0
<1>1. /\ IsCall(c) /\ Placed(c) /\ ~OnLead(c) /\ c.lease = "none" /\ UNCHANGED flights
      /\ c.mode \in Removals \cup {"VERIFY"}
  BY DEF IInv, Shapes, CallsPlaced, Placed, OnLead, Leads, RemovedL2, Removals
<1>2. CASE c.mode = "VERIFY"
  <2>1. /\ call' = [call EXCEPT ![t] = verified] \/ call' = [call EXCEPT ![t] = Answered(c, c.value)]
        /\ UNCHANGED lease
    BY <1>2 DEF RemovedL2, Removals
  <2>2. Follows(verified, c)
    BY <1>1, <1>2 DEF Follows, IsCall, Placed, OnLead, Leads
  <2>3. Follows(Answered(c, c.value), c)
    BY <1>1, AnsweredFree DEF Follows, Free
  <2>4. QED
    BY <1>1, <2>1, <2>2, <2>3, Moves
<1>3. CASE c.mode \in Removals \ {"CLEAR"}
  <2>1. call' = [call EXCEPT ![t] = Idle] /\ UNCHANGED lease
    BY <1>3 DEF RemovedL2, Removals
  <2>2. QED
    BY <1>1, <2>1, IdleFree, Moves DEF Follows, Free
<1>4. CASE c.mode = "CLEAR"
  <2>1. call' = [Lapsed(lease.owner) EXCEPT ![t] = Idle] /\ lease' = NoLease
    BY <1>4 DEF RemovedL2
  <2>2. call'[t] = Idle /\ DOMAIN call' = Threads
        /\ \A u \in Threads \ {t} : call'[u] = Lapsed(lease.owner)[u]
    BY <2>1, LapsedCalls
  <2>3. Shapes'
    BY <1>1, <2>1, <2>2, LapsedCalls, IdleFree DEF IInv, Shapes, NoLease, Free
  <2>4. CallsPlaced'
    BY <2>2, LapsedCalls, IdleFree DEF CallsPlaced, Free
  <2>5. LeadersFly'
    BY <1>1, <2>2, LapsedCalls, IdleFree DEF IInv, LeadersFly, Free
  <2>6. \A u \in Threads : call'[u].lease # "held"
    <3>1. \A u \in Threads : call[u].lease = "held" => lease.owner = ProcessOf[u]
      BY DEF IInv, LeasesAreBacked
    <3>2. QED
      BY <2>2, <3>1, LapsedCalls, IdleFree DEF Free
  <2>7. LeasesAreBacked'
    BY <2>1, <2>6 DEF LeasesAreBacked, NoLease
  <2>8. QED
    BY <2>3, <2>4, <2>5, <2>7 DEF IInv
<1>5. QED
  BY <1>1, <1>2, <1>3, <1>4

\* A process crashes: its calls are gone, and its lease is nobody's.
LEMMA CrashStep ==
  ASSUME IInv, NEW p \in Processes, Crash(p)
  PROVE  IInv'
<1>1. /\ \A t \in Threads : call'[t] = IF ProcessOf[t] = p THEN Idle ELSE call[t]
      /\ DOMAIN call' = Threads
      /\ flights' = [flights EXCEPT ![p] = NoFlight]
      /\ lease' = IF lease.owner = p THEN [lease EXCEPT !.owner = Gone] ELSE lease
  BY DEF Crash
<1>2. Shapes'
  BY <1>1, IdleFree DEF IInv, Shapes, Free, NoFlight
<1>3. CallsPlaced'
  BY <1>1, IdleFree DEF IInv, CallsPlaced, Free
<1>4. LeadersFly'
  BY <1>1, IdleFree DEF IInv, Shapes, LeadersFly, Free
<1>5. LeasesAreBacked'
  <2>1. CASE lease.owner = p
    <3>1. lease'.owner \notin Processes
      BY <1>1, <2>1 DEF IInv, Shapes, Gone
    <3>2. \A u \in Threads : call[u].lease = "held" => lease.owner = ProcessOf[u]
      BY DEF IInv, LeasesAreBacked
    <3>3. \A u \in Threads : call'[u].lease # "held"
      BY <1>1, <2>1, <3>2, IdleFree DEF Free
    <3>4. QED
      BY <3>1, <3>3 DEF LeasesAreBacked
  <2>2. CASE lease.owner # p
    BY <1>1, <2>2, IdleFree DEF IInv, LeasesAreBacked, Free
  <2>3. QED
    BY <2>1, <2>2
<1>6. QED
  BY <1>2, <1>3, <1>4, <1>5 DEF IInv

-----------------------------------------------------------------------------
(* Theorems *)

\* Nobody leads and nobody holds anything at the start.
LEMMA Begins == Init => IInv
<1>1. SUFFICES ASSUME Init PROVE IInv
  OBVIOUS
<1>2. Shapes
  BY <1>1, IdleFree DEF Init, Shapes, Free, NoFlight, NoLease
<1>3. CallsPlaced
  BY <1>1, IdleFree DEF Init, CallsPlaced, Free
<1>4. LeadersFly
  BY <1>1, IdleFree DEF Init, LeadersFly, Free
<1>5. LeasesAreBacked
  BY <1>1, IdleFree DEF Init, LeasesAreBacked, Free, NoLease
<1>6. QED
  BY <1>2, <1>3, <1>4, <1>5 DEF IInv

\* The invariant is inductive.
LEMMA NextKeeps == IInv /\ [Next]_vars => IInv'
<1>1. SUFFICES ASSUME IInv, [Next]_vars PROVE IInv'
  OBVIOUS
<1>2. ASSUME UNCHANGED <<lease, flights, call>> PROVE IInv'
  BY <1>1, <1>2 DEF IInv, Shapes, CallsPlaced, LeadersFly, LeasesAreBacked
<1>3. ASSUME NEW t \in Threads,
             (\E m \in Modes \cap CallsOf[t] : Begin(t, m)) \/ (\E m \in Removals \cap CallsOf[t] : BeginRemoval(t, m))
      PROVE  IInv'
  BY <1>1, <1>3, BeginStep
<1>4. ASSUME NEW t \in Threads, Step(t) PROVE IInv'
  BY <1>1, <1>4, LookupStep, ComputeStep, StoreStep, JoinStep, SettleStep, PopStep, AcquireStep, ReleaseStep, DropStep
     DEF Step
<1>5. CASE SourceChanges \/ RecordAges
  BY <1>2, <1>5 DEF SourceChanges, RecordAges
<1>6. CASE LeaseExpires
  BY <1>1, <1>6, ExpireStep
<1>7. ASSUME NEW p \in Processes, Crash(p) PROVE IInv'
  BY <1>1, <1>7, CrashStep
<1>8. CASE UNCHANGED vars
  BY <1>2, <1>8 DEF vars
<1>9. QED
  BY <1>1, <1>3, <1>4, <1>5, <1>6, <1>7, <1>8 DEF Next

\* The invariant holds in every state of every run.
THEOREM InvariantHolds == Spec => []IInv
BY Begins, NextKeeps, PTL DEF Spec

\* The lease of a living process is always backed by a call that will release
\* it, and whoever counts on a lease has it.
THEOREM LeasesStayBacked == Spec => []LeasesAreBacked
<1>1. IInv => LeasesAreBacked
  BY DEF IInv
<1>2. QED
  BY <1>1, InvariantHolds, PTL

\* Constructions of one process never overlap, and those of two processes only
\* when one of them has no lease that it may still count on.
THEOREM ConstructionsExclude == Spec => []ComputationsAreExclusive
<1>1. IInv => ComputationsAreExclusive
  <2>1. SUFFICES ASSUME IInv, NEW t \in Threads, NEW u \in Threads, t # u, Constructing(t), Constructing(u)
                 PROVE  ProcessOf[t] # ProcessOf[u] /\ ~(call[t].lease = "held" /\ call[u].lease = "held")
    BY DEF ComputationsAreExclusive
  <2>2. OnLead(call[t]) /\ OnLead(call[u])
    BY <2>1 DEF Constructing, OnLead
  <2>3. ProcessOf[t] # ProcessOf[u]
    BY <2>1, <2>2, OneLeader
  <2>4. \A v \in Threads : call[v].lease = "held" => lease.owner = ProcessOf[v]
    BY <2>1 DEF IInv, LeasesAreBacked
  <2>5. QED
    BY <2>1, <2>3, <2>4
<1>2. QED
  BY <1>1, InvariantHolds, PTL

-----------------------------------------------------------------------------
(* Freshness *)

\* f is the floor of the process that a record or a call belongs to, and now
\* is the version of the source.
Known(r, f, now) == r = NoRecord \/ (r \in Records /\ r.value \in f..now)

Dropping(c) == c.at \in Removing

\* Its process' memory has nothing that it was to remove.
PastMemory(c) == c.at \in Removing \ {"dropL1"}

Fine(c, f, now) ==
  /\ c.at \in Places /\ c.lease \in {"none", "held", "lapsed"} /\ c.since \in 0..now
  /\ c.value \in {Raised} \cup f..now
  /\ Known(c.record, f, now) /\ Known(c.stale, f, now)
  /\ c.at = "idle" => c = Idle
  /\ c.alone => c.mode \in Removals
  /\ c.mode \in Removals =>
       Dropping(c) /\ c.value = Raised /\ c.record = NoRecord /\ c.stale = NoRecord
  /\ c.at # "idle" /\ c.mode \notin Removals => c.since = f
  /\ Dropping(c) => c.mode \in Removals \cup {"VERIFY"}
  /\ c.at \in {"verify", "verifying"} => c.mode = "VERIFY"
  /\ c.at = "tags" => c.record # NoRecord
  /\ ~c.outdated

\* What the call computed, or will have when it stores, goes to the stores.
MayStore(c) ==
  c.at \in {"computing", "verifying", "storeL1", "storeL2"} \/ (c.mode = "VERIFY" /\ Dropping(c))

Floors == version \in 0..MaxVersion /\ floor \in [Processes -> 0..version]

CallsFine == \A t \in Threads : Fine(call[t], floor[ProcessOf[t]], version)

StoresFine ==
  \A t \in Threads : MayStore(call[t]) => \A p \in Processes : call[t].value \in floor[p]..version

TiersFine ==
  /\ DOMAIN l1 = Processes
  /\ \A p \in Processes : Known(l1[p], floor[p], version) /\ Known(l2, floor[p], version)
  /\ Known(l2, 0, version)

\* While a removal is alone, nothing in its process puts back what it removed;
\* and nobody puts an older record where it found none to delete.
AloneFine ==
  \A t \in Threads : call[t].alone =>
    /\ \A u \in Threads \ {t} : ProcessOf[u] = ProcessOf[t] => At(u, "idle")
    /\ PastMemory(call[t]) => l1[ProcessOf[t]] = NoRecord
    /\ At(t, "commitL2") => Known(l2, call[t].since, version) /\ NoneOlder(call[t].since)

\* A flight has a leader on its way, and a result that is not outdated.
FlightFine(p) ==
  flights[p] # NoFlight =>
    LET u == flights[p].leader
    IN  /\ u \in Threads /\ ProcessOf[u] = p /\ OnLead(call[u])
        /\ flights[p].result = Pending <=> ~At(u, "pop")
        /\ flights[p].result \in {Pending, Raised} \cup floor[p]..version

FlightsFine == \A p \in Processes : FlightFine(p)

LeaseFine == lease.owner \in Processes \cup {Gone, NoLease.owner} /\ lease.valid \in BOOLEAN

JInv == Floors /\ CallsFine /\ StoresFine /\ TiersFine /\ AloneFine /\ FlightsFine /\ LeaseFine

-----------------------------------------------------------------------------
(* Calls *)

\* How a call goes on: with nothing outdated, it stores only what it was to store
\* or what the source is now, and it is alone only if it was, with what it is about.
Goes(d, c, f, now) ==
  /\ Fine(d, f, now)
  /\ c.at # "idle"
  /\ MayStore(d) => (MayStore(c) /\ d.value = c.value) \/ d.value = now
  /\ d.alone => c.alone /\ d.since = c.since

\* What flights know of a call.
Keeps(d, c) == OnLead(c) => OnLead(d) /\ (d.at = "pop" <=> c.at = "pop")

\* It goes on, and leads as before.
Proceeds(d, c, f, now) == Goes(d, c, f, now) /\ Keeps(d, c)

\* A thread without a call has nothing that could be outdated.
LEMMA IdleFine ==
  ASSUME NEW now \in Nat, NEW f \in 0..now
  PROVE  Fine(Idle, f, now) /\ ~MayStore(Idle) /\ ~Idle.alone /\ Idle.at = "idle" /\ Idle.value = Raised
BY DEF Fine, MayStore, Idle, Known, Dropping, Removals, Places, NoRecord, Raised

\* An answer that is not older than the floor leaves no trace.
LEMMA AnsweredIdle ==
  ASSUME NEW now \in Nat, NEW f \in 0..now, NEW c, Fine(c, f, now), c.at # "idle",
         NEW v \in {Raised} \cup f..now, c.mode \notin Removals \/ v = Raised
  PROVE  Answered(c, v) = Idle
<1>. DEFINE late == c.outdated \/ v \in 0..c.since-1
<1>1. (c.since = f \/ v = Raised) /\ c.since \in 0..now /\ ~c.outdated
  BY DEF Fine
<1>2. late = FALSE
  BY <1>1 DEF Raised
<1>3. Answered(c, v) = [Idle EXCEPT !.outdated = late]
  BY DEF Answered
<1>4. [Idle EXCEPT !.outdated = FALSE] = Idle
  <2>1. Idle = [k \in DOMAIN Idle |-> Idle[k]] /\ Idle.outdated = FALSE
    BY DEF Idle
  <2>2. ASSUME NEW g, g = [k \in DOMAIN g |-> g[k]], NEW x PROVE [g EXCEPT ![x] = g[x]] = g
    BY <2>2
  <2>3. QED
    BY <2>1, <2>2
<1>. HIDE DEF late
<1>5. QED
  BY <1>2, <1>3, <1>4

\* An answer, when it comes to the call, proceeds.
LEMMA AnsweredProceeds ==
  ASSUME NEW now \in Nat, NEW f \in 0..now, NEW c, Fine(c, f, now), c.at \notin {"idle", "pop"},
         ~OnLead(c), NEW v \in {Raised} \cup f..now, c.mode \notin Removals \/ v = Raised
  PROVE  Proceeds(Answered(c, v), c, f, now) /\ ~Answered(c, v).alone
BY AnsweredIdle, IdleFine DEF Proceeds, Goes, Keeps

LEMMA ConcludedProceeds ==
  ASSUME NEW now \in Nat, NEW f \in 0..now, NEW c, IsCall(c), Placed(c), Fine(c, f, now),
         c.at \notin {"idle", "pop", "lease"}, c.mode \notin Removals, NEW v \in {Raised} \cup f..now
  PROVE  Proceeds(Concluded(c, v), c, f, now)
<1>1. CASE ~Leads(c)
  BY <1>1, AnsweredProceeds DEF Concluded, OnLead
<1>2. CASE Leads(c)
  <2>. DEFINE d == [c EXCEPT !.at = "release", !.value = v, !.record = NoRecord, !.stale = NoRecord]
  <2>1. Concluded(c, v) = d
    BY <1>2 DEF Concluded
  <2>2. /\ d.at = "release" /\ d.value = v /\ d.record = NoRecord /\ d.stale = NoRecord
        /\ d.mode = c.mode /\ d.lease = c.lease /\ d.since = c.since /\ d.alone = c.alone
        /\ d.outdated = c.outdated
    BY DEF IsCall
  <2>3. c.mode \in {"lease", "poll"}
    BY <1>2 DEF Leads
  <2>4. Fine(d, f, now)
    BY <2>2, <2>3 DEF Fine, Known, Dropping, Places, Removals
  <2>5. QED
    BY <2>1, <2>2, <2>3, <2>4 DEF Proceeds, Goes, Keeps, OnLead, Leads, MayStore, Dropping
<1>3. QED
  BY <1>1, <1>2

\* A lookup that finds nothing outdated goes on with nothing outdated.
LEMMA AfterLookupProceeds ==
  ASSUME NEW now \in 0..MaxVersion, NEW f \in 0..now, NEW c, IsCall(c), Placed(c), Fine(c, f, now),
         c.at \in {"lookup", "wait", "lookupL2", "promote"}, NEW r, Known(r, f, now)
  PROVE  Proceeds(AfterLookup(c, r), c, f, now)
<1>. DEFINE fresh == r # NoRecord /\ ~r.stale
            next == [c EXCEPT !.record = NoRecord]
<1>0. /\ c.mode \in Lookups /\ c.mode \notin Removals /\ c.since = f
      /\ c.at \notin {"idle", "pop", "lease"}
      /\ now \in Nat /\ c.value \in {Raised} \cup f..now
  BY DEF Placed, Leads, Lookups, Fine, Removals
<1>1. CASE fresh /\ c.mode \in {"NORMAL", "READ_ONLY", "follow"}
  <2>1. AfterLookup(c, r) = Answered(c, r.value)
    BY <1>1 DEF AfterLookup
  <2>2. ~OnLead(c) /\ r.value \in {Raised} \cup f..now
    BY <1>0, <1>1 DEF OnLead, Leads, Known
  <2>3. QED
    BY <1>0, <2>1, <2>2, AnsweredProceeds
<1>2. CASE fresh /\ c.mode \in {"lease", "poll"}
  <2>1. AfterLookup(c, r) = Concluded(c, r.value)
    BY <1>2 DEF AfterLookup
  <2>2. r.value \in {Raised} \cup f..now
    BY <1>2 DEF Known
  <2>3. QED
    BY <1>0, <2>1, <2>2, ConcludedProceeds
<1>3. CASE fresh /\ c.mode = "VERIFY"
  <2>. DEFINE d == [c EXCEPT !.at = "verify", !.record = r]
  <2>1. AfterLookup(c, r) = d
    BY <1>3 DEF AfterLookup
  <2>2. /\ d.at = "verify" /\ d.record = r /\ d.value = c.value /\ d.stale = c.stale
        /\ d.mode = c.mode /\ d.lease = c.lease /\ d.since = c.since /\ d.alone = c.alone
        /\ d.outdated = c.outdated
    BY DEF IsCall
  <2>3. Fine(d, f, now)
    BY <1>0, <1>3, <2>2 DEF Fine, Dropping, Places, Removals
  <2>4. QED
    BY <1>0, <1>3, <2>1, <2>2, <2>3 DEF Proceeds, Goes, Keeps, OnLead, Leads, MayStore, Dropping
<1>4. CASE ~fresh /\ c.mode \in {"NORMAL", "VERIFY"}
  <2>. DEFINE d == [next EXCEPT !.at = "join", !.stale = r]
  <2>1. AfterLookup(c, r) = d
    BY <1>4 DEF AfterLookup
  <2>2. /\ d.at = "join" /\ d.record = NoRecord /\ d.value = c.value /\ d.stale = r
        /\ d.mode = c.mode /\ d.lease = c.lease /\ d.since = c.since /\ d.alone = c.alone
        /\ d.outdated = c.outdated
    BY DEF IsCall
  <2>3. Fine(d, f, now)
    BY <1>0, <1>4, <2>2 DEF Fine, Dropping, Places, Removals, Known
  <2>4. QED
    BY <1>0, <1>4, <2>1, <2>2, <2>3 DEF Proceeds, Goes, Keeps, OnLead, Leads, MayStore, Dropping
<1>5. CASE ~fresh /\ c.mode = "READ_ONLY"
  <2>1. AfterLookup(c, r) = Answered(c, Raised) /\ ~OnLead(c)
    BY <1>0, <1>5 DEF AfterLookup, OnLead, Leads
  <2>2. QED
    BY <1>0, <2>1, AnsweredProceeds
<1>6. CASE ~fresh /\ c.mode = "lease"
  <2>. DEFINE d == [next EXCEPT !.at = "compute", !.stale = IF @ = NoRecord THEN r ELSE @]
  <2>1. AfterLookup(c, r) = d
    BY <1>6 DEF AfterLookup
  <2>2. /\ d.at = "compute" /\ d.record = NoRecord /\ d.value = c.value
        /\ d.stale = IF c.stale = NoRecord THEN r ELSE c.stale
        /\ d.mode = c.mode /\ d.lease = c.lease /\ d.since = c.since /\ d.alone = c.alone
        /\ d.outdated = c.outdated
    BY DEF IsCall
  <2>3. Fine(d, f, now)
    BY <1>0, <1>6, <2>2 DEF Fine, Dropping, Places, Removals, Known
  <2>4. QED
    BY <1>0, <1>6, <2>1, <2>2, <2>3 DEF Proceeds, Goes, Keeps, OnLead, Leads, MayStore, Dropping
<1>7. CASE ~fresh /\ c.mode = "poll"
  <2>. DEFINE d == [next EXCEPT !.at = "wait"]
  <2>1. AfterLookup(c, r) = d
    BY <1>7 DEF AfterLookup
  <2>2. /\ d.at = "wait" /\ d.record = NoRecord /\ d.value = c.value /\ d.stale = c.stale
        /\ d.mode = c.mode /\ d.lease = c.lease /\ d.since = c.since /\ d.alone = c.alone
        /\ d.outdated = c.outdated
    BY DEF IsCall
  <2>3. Fine(d, f, now)
    BY <1>0, <1>7, <2>2 DEF Fine, Dropping, Places, Removals, Known
  <2>4. QED
    BY <1>0, <1>7, <2>1, <2>2, <2>3 DEF Proceeds, Goes, Keeps, OnLead, Leads, MayStore, Dropping
<1>8. CASE ~fresh /\ c.mode = "follow"
  <2>1. AfterLookup(c, r) = Answered(c, c.value) /\ ~OnLead(c)
    BY <1>0, <1>8 DEF AfterLookup, OnLead, Leads
  <2>2. QED
    BY <1>0, <2>1, AnsweredProceeds
<1>9. QED
  BY <1>0, <1>1, <1>2, <1>3, <1>4, <1>5, <1>6, <1>7, <1>8 DEF Lookups

\* What a call is about is no later than the source.
LEMMA Sources ==
  ASSUME JInv, NEW t \in Threads
  PROVE  call[t].since \in 0..version /\ version \in Nat /\ floor[ProcessOf[t]] \in 0..version
BY DEF JInv, CallsFine, Fine, Floors

\* A step in which calls go on keeps the invariant, whatever it does to leases
\* and flights and in the tiers, as long as those stay fine.
LEMMA AllGo ==
  ASSUME IInv, JInv, UNCHANGED <<version, floor>>,
         \A u \in Threads : call'[u] = call[u] \/ Goes(call'[u], call[u], floor[ProcessOf[u]], version),
         LeaseFine', TiersFine', FlightsFine',
         \A u \in Threads : call'[u].alone =>
           /\ PastMemory(call'[u]) => l1'[ProcessOf[u]] = NoRecord
           /\ call'[u].at = "commitL2" => Known(l2', call[u].since, version) /\ NoneOlder(call[u].since)
  PROVE  JInv'
<1>. USE DEF JInv
<1>1. Floors'
  BY DEF Floors
<1>2. CallsFine'
  BY DEF CallsFine, Goes
<1>3. StoresFine'
  <2>1. SUFFICES ASSUME NEW u \in Threads, MayStore(call'[u]), NEW p \in Processes
                 PROVE  call'[u].value \in floor[p]..version
    BY DEF StoresFine
  <2>2. version \in floor[p]..version
    BY DEF Floors
  <2>3. QED
    BY <2>1, <2>2 DEF StoresFine, Goes
<1>4. AloneFine'
  <2>1. SUFFICES ASSUME NEW u \in Threads, call'[u].alone
                 PROVE  /\ \A w \in Threads \ {u} : ProcessOf[w] = ProcessOf[u] => call'[w].at = "idle"
                        /\ call'[u].at = "commitL2" => call'[u].since = call[u].since /\ NoneOlder(call[u].since)'
    BY DEF AloneFine, At
  <2>2. call[u].alone /\ call'[u].since = call[u].since
    BY <2>1 DEF Goes
  <2>3. \A w \in Threads \ {u} : ProcessOf[w] = ProcessOf[u] => call'[w].at = "idle"
    BY <2>2 DEF AloneFine, At, Goes
  <2>4. NoneOlder(call[u].since) => NoneOlder(call[u].since)'
    <3>1. call[u].since \in 0..version /\ version \in Nat
      BY Sources
    <3>2. SUFFICES ASSUME NoneOlder(call[u].since), NEW w \in Threads, MayStore(call'[w])
                   PROVE  ~(call'[w].value < call'[u].since)
      BY <2>2 DEF NoneOlder, Unstored, MayStore, Dropping
    <3>3. MayStore(call[w]) => ~(call[w].value < call[u].since)
      BY <3>2 DEF NoneOlder, Unstored, MayStore, Dropping
    <3>4. (MayStore(call[w]) /\ call'[w].value = call[w].value) \/ call'[w].value = version
      BY <3>2 DEF Goes
    <3>5. QED
      BY <2>2, <3>1, <3>3, <3>4
  <2>5. QED
    BY <2>1, <2>2, <2>3, <2>4
<1>5. QED
  BY <1>1, <1>2, <1>3, <1>4

\* Flights that stay are led as before.
LEMMA FlightsStay ==
  ASSUME JInv, UNCHANGED <<version, floor, flights>>, \A u \in Threads : Keeps(call'[u], call[u])
  PROVE  FlightsFine'
<1>1. SUFFICES ASSUME NEW p \in Processes, flights[p] # NoFlight
               PROVE  FlightFine(p)'
  BY DEF FlightsFine, FlightFine
<1>. DEFINE u == flights[p].leader
<1>2. /\ u \in Threads /\ ProcessOf[u] = p /\ OnLead(call[u])
      /\ flights[p].result = Pending <=> call[u].at # "pop"
      /\ flights[p].result \in {Pending, Raised} \cup floor[p]..version
  BY <1>1 DEF JInv, FlightsFine, FlightFine, At
<1>. HIDE DEF u
<1>3. OnLead(call'[u]) /\ (call'[u].at # "pop" <=> call[u].at # "pop")
  BY <1>2 DEF Keeps
<1>4. QED
  BY <1>2, <1>3 DEF FlightFine, At, u

\* The case of one call.
LEMMA ProceedStep ==
  ASSUME IInv, JInv, NEW t \in Threads, NEW d, Proceeds(d, call[t], floor[ProcessOf[t]], version),
         call' = [call EXCEPT ![t] = d], UNCHANGED <<version, floor, flights>>,
         LeaseFine', TiersFine', \A q \in Processes \ {ProcessOf[t]} : l1'[q] = l1[q],
         d.alone => /\ l1'[ProcessOf[t]] = NoRecord
                    /\ d.at = "commitL2" => Known(l2', call[t].since, version) /\ NoneOlder(call[t].since),
         \A u \in Threads \ {t} : call[u].alone /\ call[u].at = "commitL2" => Known(l2', call[u].since, version)
  PROVE  JInv'
<1>1. call'[t] = d /\ \A u \in Threads \ {t} : call'[u] = call[u]
  BY DEF IInv, Shapes
<1>2. FlightsFine'
  BY <1>1, FlightsStay DEF Keeps, Proceeds
<1>3. ASSUME NEW u \in Threads, u # t, call[u].alone
      PROVE  /\ PastMemory(call[u]) => l1'[ProcessOf[u]] = NoRecord
             /\ call[u].at = "commitL2" => Known(l2', call[u].since, version) /\ NoneOlder(call[u].since)
  <2>1. ProcessOf[u] # ProcessOf[t]
    BY <1>3 DEF JInv, AloneFine, At, Proceeds, Goes
  <2>2. /\ PastMemory(call[u]) => l1[ProcessOf[u]] = NoRecord
        /\ call[u].at = "commitL2" => NoneOlder(call[u].since)
    BY <1>3 DEF JInv, AloneFine, At
  <2>3. QED
    BY <1>3, <2>1, <2>2
<1>4. QED
  BY <1>1, <1>2, <1>3, AllGo DEF Proceeds

-----------------------------------------------------------------------------
(* Steps in which one call proceeds *)

LEMMA Facts ==
  ASSUME IInv, JInv, NEW t \in Threads
  PROVE  /\ IsCall(call[t]) /\ Placed(call[t]) /\ Fine(call[t], floor[ProcessOf[t]], version)
         /\ ProcessOf[t] \in Processes
         /\ version \in 0..MaxVersion /\ version \in Nat /\ floor[ProcessOf[t]] \in 0..version
         /\ Known(l1[ProcessOf[t]], floor[ProcessOf[t]], version) /\ Known(l2, floor[ProcessOf[t]], version)
BY DEF IInv, Shapes, CallsPlaced, JInv, CallsFine, Floors, TiersFine

\* The usual case: nothing changes but the call, and perhaps the lease.
LEMMA CallProceeds ==
  ASSUME IInv, JInv, NEW t \in Threads, NEW d, Proceeds(d, call[t], floor[ProcessOf[t]], version),
         call' = [call EXCEPT ![t] = d], UNCHANGED <<version, l1, l2, flights, floor>>, LeaseFine',
         ~Dropping(call[t])
  PROVE  JInv'
<1>1. ~d.alone
  BY Facts DEF Proceeds, Goes, Fine
<1>2. TiersFine' /\ \A q \in Processes \ {ProcessOf[t]} : l1'[q] = l1[q]
  BY DEF JInv, TiersFine
<1>3. \A u \in Threads : call[u].alone /\ call[u].at = "commitL2" => Known(l2', call[u].since, version)
  BY DEF JInv, AloneFine, At
<1>4. QED
  BY <1>1, <1>2, <1>3, ProceedStep

\* Memory takes what is not outdated.
LEMMA PutFine ==
  ASSUME JInv, NEW p \in Processes, NEW r, Known(r, floor[p], version), PutL1(p, r),
         UNCHANGED <<version, floor, l2>>
  PROVE  TiersFine' /\ \A q \in Processes \ {p} : l1'[q] = l1[q]
<1>1. PICK kept \in {r, NoRecord, l1[p]} : l1' = [l1 EXCEPT ![p] = kept]
  BY DEF PutL1
<1>2. Known(kept, floor[p], version)
  BY <1>1 DEF JInv, TiersFine, Known
<1>3. DOMAIN l1' = Processes /\ l1'[p] = kept /\ \A q \in Processes \ {p} : l1'[q] = l1[q]
  BY <1>1 DEF JInv, TiersFine
<1>4. QED
  BY <1>2, <1>3 DEF JInv, TiersFine

\* A lookup brings what its tier has.
LEMMA LookupFine ==
  ASSUME IInv, JInv, NEW t \in Threads, LookupL1(t) \/ LookupL2(t) \/ ReadTags(t) \/ Promote(t)
  PROVE  JInv'
<1>. DEFINE p == ProcessOf[t]
            c == call[t]
            asking == [c EXCEPT !.at = "lookupL2"]
            found == [c EXCEPT !.at = "tags", !.record = l2]
            read == [c EXCEPT !.at = "promote", !.record.tagged = l2 # NoRecord]
<1>1. /\ IsCall(c) /\ Placed(c) /\ Fine(c, floor[p], version) /\ p \in Processes
      /\ version \in 0..MaxVersion /\ version \in Nat /\ floor[p] \in 0..version
      /\ Known(l1[p], floor[p], version) /\ Known(l2, floor[p], version)
  BY Facts
<1>2. CASE LookupL1(t)
  <2>1. /\ c.at \in {"lookup", "wait"} /\ UNCHANGED <<version, l1, l2, lease, flights, floor>>
        /\ \/ call' = [call EXCEPT ![t] = AfterLookup(c, l1[p])]
           \/ call' = [call EXCEPT ![t] = asking]
    BY <1>2 DEF LookupL1, At
  <2>2. Proceeds(AfterLookup(c, l1[p]), c, floor[p], version)
    BY <1>1, <2>1, AfterLookupProceeds
  <2>3. Proceeds(asking, c, floor[p], version)
    <3>1. /\ asking.at = "lookupL2" /\ asking.record = c.record /\ asking.value = c.value
          /\ asking.stale = c.stale /\ asking.mode = c.mode /\ asking.lease = c.lease
          /\ asking.since = c.since /\ asking.alone = c.alone /\ asking.outdated = c.outdated
      BY <1>1 DEF IsCall
    <3>2. c.mode \in Lookups
      BY <1>1, <2>1 DEF Placed, Leads, Lookups
    <3>3. Fine(asking, floor[p], version)
      BY <1>1, <2>1, <3>1, <3>2 DEF Fine, Dropping, Places, Removals, Lookups
    <3>4. QED
      BY <2>1, <3>1, <3>3 DEF Proceeds, Goes, Keeps, OnLead, Leads, MayStore, Dropping
  <2>4. LeaseFine' /\ ~Dropping(c)
    BY <2>1 DEF JInv, LeaseFine, Dropping
  <2>. HIDE DEF c, asking
  <2>5. QED
    BY <2>1, <2>2, <2>3, <2>4, CallProceeds DEF c
<1>3. CASE LookupL2(t)
  <2>1. /\ c.at = "lookupL2" /\ UNCHANGED <<version, l1, l2, lease, flights, floor>>
        /\ \/ call' = [call EXCEPT ![t] = AfterLookup(c, NoRecord)]
           \/ call' = [call EXCEPT ![t] = found] /\ l2 # NoRecord
    BY <1>3 DEF LookupL2, At
  <2>2. Proceeds(AfterLookup(c, NoRecord), c, floor[p], version)
    BY <1>1, <2>1, AfterLookupProceeds DEF Known
  <2>3. ASSUME l2 # NoRecord PROVE Proceeds(found, c, floor[p], version)
    <3>1. /\ found.at = "tags" /\ found.record = l2 /\ found.value = c.value
          /\ found.stale = c.stale /\ found.mode = c.mode /\ found.lease = c.lease
          /\ found.since = c.since /\ found.alone = c.alone /\ found.outdated = c.outdated
      BY <1>1 DEF IsCall
    <3>2. c.mode \in Lookups
      BY <1>1, <2>1 DEF Placed
    <3>3. Fine(found, floor[p], version)
      BY <1>1, <2>1, <2>3, <3>1, <3>2 DEF Fine, Dropping, Places, Removals, Lookups
    <3>4. QED
      BY <2>1, <3>1, <3>3 DEF Proceeds, Goes, Keeps, OnLead, Leads, MayStore, Dropping
  <2>4. LeaseFine' /\ ~Dropping(c)
    BY <2>1 DEF JInv, LeaseFine, Dropping
  <2>. HIDE DEF c, found
  <2>5. QED
    BY <2>1, <2>2, <2>3, <2>4, CallProceeds DEF c
<1>4. CASE Promote(t)
  <2>1. /\ c.at = "promote" /\ call' = [call EXCEPT ![t] = AfterLookup(c, c.record)]
        /\ PutL1(p, c.record) /\ UNCHANGED <<version, l2, lease, flights, floor>>
    BY <1>4 DEF Promote, At
  <2>2. Known(c.record, floor[p], version) /\ ~c.alone
    BY <1>1, <2>1 DEF Fine, Dropping
  <2>. DEFINE d == AfterLookup(c, c.record)
  <2>3. Proceeds(d, c, floor[p], version)
    BY <1>1, <2>1, <2>2, AfterLookupProceeds
  <2>4. ~d.alone /\ LeaseFine'
    BY <2>1, <2>2, <2>3 DEF JInv, LeaseFine, Proceeds, Goes
  <2>5. TiersFine' /\ \A q \in Processes \ {p} : l1'[q] = l1[q]
    BY <1>1, <2>1, <2>2, PutFine
  <2>. HIDE DEF d
  <2>6. \A u \in Threads : call[u].alone /\ call[u].at = "commitL2" => Known(l2', call[u].since, version)
    BY <2>1 DEF JInv, AloneFine, At
  <2>7. QED
    BY <2>1, <2>3, <2>4, <2>5, <2>6, ProceedStep DEF d
<1>5. CASE ReadTags(t)
  <2>1. /\ c.at = "tags" /\ call' = [call EXCEPT ![t] = read]
        /\ UNCHANGED <<version, l1, l2, lease, flights, floor>>
    BY <1>5 DEF ReadTags, At
  <2>. DEFINE b == l2 # NoRecord
              tagged == [c.record EXCEPT !.tagged = b]
  <2>2. /\ read.at = "promote" /\ read.record = tagged /\ read.value = c.value
        /\ read.stale = c.stale /\ read.mode = c.mode /\ read.lease = c.lease
        /\ read.since = c.since /\ read.alone = c.alone /\ read.outdated = c.outdated
    BY <1>1 DEF IsCall
  <2>3. c.mode \in Lookups /\ c.record # NoRecord
    BY <1>1, <2>1 DEF Placed, Fine
  <2>4. Known(tagged, floor[p], version)
    <3>1. c.record \in Records /\ c.record.value \in floor[p]..version
      BY <1>1, <2>3 DEF Fine, Known
    <3>. HIDE DEF b
    <3>2. b \in BOOLEAN
      BY DEF b
    <3>3. tagged \in Records /\ tagged.value = c.record.value
      BY <3>1, <3>2 DEF Records
    <3>4. QED
      BY <3>1, <3>3 DEF Known
  <2>. HIDE DEF tagged, b
  <2>5. Fine(read, floor[p], version)
    BY <1>1, <2>1, <2>2, <2>3, <2>4 DEF Fine, Dropping, Places, Removals, Lookups
  <2>6. Proceeds(read, c, floor[p], version)
    BY <2>1, <2>2, <2>5 DEF Proceeds, Goes, Keeps, OnLead, Leads, MayStore, Dropping
  <2>7. LeaseFine' /\ ~Dropping(c)
    BY <2>1 DEF JInv, LeaseFine, Dropping
  <2>. HIDE DEF c, read
  <2>8. QED
    BY <2>1, <2>6, <2>7, CallProceeds DEF c
<1>6. QED
  BY <1>2, <1>3, <1>4, <1>5

\* A computation computes the version of its time, which no floor exceeds.
LEMMA ComputeFine ==
  ASSUME IInv, JInv, NEW t \in Threads,
         WaitEnds(t) \/ Compute(t) \/ ComputeReturns(t) \/ ComputeRaises(t) \/ VerifyEnds(t)
  PROVE  JInv'
<1>. DEFINE p == ProcessOf[t]
            c == call[t]
<1>1. /\ IsCall(c) /\ Placed(c) /\ Fine(c, floor[p], version) /\ p \in Processes
      /\ version \in 0..MaxVersion /\ version \in Nat /\ floor[p] \in 0..version
  BY Facts
<1>2. /\ UNCHANGED <<version, l1, l2, lease, flights, floor>> /\ LeaseFine'
      /\ c.at \in {"wait", "compute", "verify", "computing", "verifying"}
  BY DEF WaitEnds, Compute, ComputeReturns, ComputeRaises, VerifyEnds, At, JInv, LeaseFine
<1>3. /\ ~Dropping(c) /\ c.mode \notin Removals
      /\ c.at \notin {"idle", "pop", "lease"}
  BY <1>1, <1>2 DEF Fine, Dropping
<1>4. \A v \in {Raised} \cup floor[p]..version : Proceeds(Concluded(c, v), c, floor[p], version)
  BY <1>1, <1>3, ConcludedProceeds
<1>5. ASSUME NEW d, Proceeds(d, c, floor[p], version), call' = [call EXCEPT ![t] = d]
      PROVE  JInv'
  BY <1>2, <1>3, <1>5, CallProceeds
<1>6. Raised \in {Raised} \cup floor[p]..version /\ c.value \in {Raised} \cup floor[p]..version
  BY <1>1 DEF Fine
<1>7. CASE WaitEnds(t)
  <2>. DEFINE d == [c EXCEPT !.at = "compute"]
  <2>1. /\ c.at = "wait"
        /\ call' = [call EXCEPT ![t] = d] \/ call' = [call EXCEPT ![t] = Concluded(c, Raised)]
    BY <1>7 DEF WaitEnds, At
  <2>2. /\ d.at = "compute" /\ d.record = c.record /\ d.value = c.value /\ d.stale = c.stale
        /\ d.mode = c.mode /\ d.lease = c.lease /\ d.since = c.since /\ d.alone = c.alone
        /\ d.outdated = c.outdated
    BY <1>1 DEF IsCall
  <2>3. Fine(d, floor[p], version)
    BY <1>1, <1>3, <2>2 DEF Fine, Dropping, Places
  <2>4. Proceeds(d, c, floor[p], version)
    BY <1>1, <1>3, <2>1, <2>2, <2>3 DEF Proceeds, Goes, Keeps, OnLead, Leads, MayStore, Dropping
  <2>. HIDE DEF d
  <2>5. QED
    BY <1>4, <1>5, <1>6, <2>1, <2>4
<1>8. CASE Compute(t)
  <2>. DEFINE d == [c EXCEPT !.at = IF c.at = "compute" THEN "computing" ELSE "verifying", !.value = version]
  <2>1. c.at \in {"compute", "verify"} /\ call' = [call EXCEPT ![t] = d]
    BY <1>8 DEF Compute, At
  <2>2. /\ d.at = (IF c.at = "compute" THEN "computing" ELSE "verifying")
        /\ d.record = c.record /\ d.value = version /\ d.stale = c.stale
        /\ d.mode = c.mode /\ d.lease = c.lease /\ d.since = c.since /\ d.alone = c.alone
        /\ d.outdated = c.outdated
    BY <1>1 DEF IsCall
  <2>3. Fine(d, floor[p], version)
    BY <1>1, <1>3, <2>1, <2>2 DEF Fine, Dropping, Places
  <2>4. Proceeds(d, c, floor[p], version)
    BY <1>1, <1>3, <2>1, <2>2, <2>3 DEF Proceeds, Goes, Keeps, OnLead, Leads
  <2>. HIDE DEF d
  <2>5. QED
    BY <1>5, <2>1, <2>4
<1>9. CASE ComputeReturns(t)
  <2>. DEFINE d == [c EXCEPT !.at = "storeL1", !.stale = NoRecord]
  <2>1. /\ c.at = "computing"
        /\ call' = [call EXCEPT ![t] = d] \/ call' = [call EXCEPT ![t] = Concluded(c, c.value)]
    BY <1>9 DEF ComputeReturns, At
  <2>2. /\ d.at = "storeL1" /\ d.record = c.record /\ d.value = c.value /\ d.stale = NoRecord
        /\ d.mode = c.mode /\ d.lease = c.lease /\ d.since = c.since /\ d.alone = c.alone
        /\ d.outdated = c.outdated
    BY <1>1 DEF IsCall
  <2>3. Fine(d, floor[p], version)
    BY <1>1, <1>3, <2>2 DEF Fine, Dropping, Places, Known
  <2>4. Proceeds(d, c, floor[p], version)
    BY <1>1, <1>3, <2>1, <2>2, <2>3 DEF Proceeds, Goes, Keeps, OnLead, Leads, MayStore
  <2>. HIDE DEF d
  <2>5. QED
    BY <1>4, <1>5, <1>6, <2>1, <2>4
<1>10. CASE ComputeRaises(t)
  <2>1. \E v \in {c.stale.value, Raised} :
          call' = [call EXCEPT ![t] = Concluded(c, v)] /\ (v # Raised => c.stale # NoRecord)
    BY <1>10 DEF ComputeRaises
  <2>2. c.stale # NoRecord => c.stale.value \in {Raised} \cup floor[p]..version
    BY <1>1 DEF Fine, Known
  <2>3. QED
    BY <1>4, <1>5, <1>6, <2>1, <2>2
<1>11. CASE VerifyEnds(t)
  <2>. DEFINE d == [c EXCEPT !.at = "dropL1", !.record = NoRecord]
  <2>1. /\ c.at = "verifying"
        /\ \/ \E v \in {c.value, Raised} : call' = [call EXCEPT ![t] = Answered(c, v)]
           \/ call' = [call EXCEPT ![t] = d]
    BY <1>11 DEF VerifyEnds, At
  <2>2. ~OnLead(c) /\ c.mode = "VERIFY"
    BY <1>1, <2>1 DEF Placed, OnLead, Fine
  <2>3. \A v \in {c.value, Raised} : Proceeds(Answered(c, v), c, floor[p], version)
    BY <1>1, <1>3, <1>6, <2>2, AnsweredProceeds
  <2>4. /\ d.at = "dropL1" /\ d.record = NoRecord /\ d.value = c.value /\ d.stale = c.stale
        /\ d.mode = c.mode /\ d.lease = c.lease /\ d.since = c.since /\ d.alone = c.alone
        /\ d.outdated = c.outdated
    BY <1>1 DEF IsCall
  <2>5. Fine(d, floor[p], version)
    BY <1>1, <1>3, <2>2, <2>4 DEF Fine, Dropping, Places, Known
  <2>6. Proceeds(d, c, floor[p], version)
    BY <1>1, <1>3, <2>1, <2>2, <2>4, <2>5 DEF Proceeds, Goes, Keeps, OnLead, Leads, MayStore
  <2>. HIDE DEF d
  <2>7. QED
    BY <1>5, <2>1, <2>3, <2>6
<1>12. QED
  BY <1>7, <1>8, <1>9, <1>10, <1>11

\* Stores get what was computed, memory first.
LEMMA StoreFine ==
  ASSUME IInv, JInv, NEW t \in Threads, StoreL1(t) \/ StoreL2(t)
  PROVE  JInv'
<1>. DEFINE p == ProcessOf[t]
            c == call[t]
            stored == [c EXCEPT !.at = "storeL2"]
<1>1. /\ IsCall(c) /\ Placed(c) /\ Fine(c, floor[p], version) /\ p \in Processes
      /\ version \in 0..MaxVersion /\ version \in Nat /\ floor[p] \in 0..version
  BY Facts
<1>2. LeaseFine'
  BY DEF StoreL1, StoreL2, JInv, LeaseFine
<1>3. ASSUME c.at \in {"storeL1", "storeL2"}
      PROVE  /\ c.mode \notin Removals /\ ~c.alone
             /\ \A q \in Processes : c.value \in floor[q]..version /\ Known(Fresh(c.value), floor[q], version)
             /\ Known(Fresh(c.value), 0, version)
  <2>1. c.mode \notin Removals /\ ~c.alone
    BY <1>1, <1>3 DEF Fine, Dropping
  <2>2. \A q \in Processes : c.value \in floor[q]..version /\ floor[q] \in 0..version
    BY <1>3 DEF JInv, StoresFine, MayStore, Floors
  <2>3. c.value \in 0..version
    BY <1>1, <2>2
  <2>4. Fresh(c.value) \in Records /\ Fresh(c.value).value = c.value
    BY <1>1, <2>3 DEF Fresh, Records, Results
  <2>5. QED
    BY <2>1, <2>2, <2>3, <2>4 DEF Known
<1>4. CASE StoreL1(t)
  <2>1. /\ c.at = "storeL1" /\ call' = [call EXCEPT ![t] = stored]
        /\ PutL1(p, Fresh(c.value)) /\ UNCHANGED <<version, l2, lease, flights, floor>>
    BY <1>4 DEF StoreL1, At
  <2>2. /\ stored.at = "storeL2" /\ stored.record = c.record /\ stored.value = c.value
        /\ stored.stale = c.stale /\ stored.mode = c.mode /\ stored.lease = c.lease
        /\ stored.since = c.since /\ stored.alone = c.alone /\ stored.outdated = c.outdated
    BY <1>1 DEF IsCall
  <2>3. Fine(stored, floor[p], version)
    BY <1>1, <1>3, <2>1, <2>2 DEF Fine, Dropping, Places
  <2>4. Proceeds(stored, c, floor[p], version) /\ ~stored.alone
    BY <1>3, <2>1, <2>2, <2>3 DEF Proceeds, Goes, Keeps, OnLead, Leads, MayStore
  <2>5. TiersFine' /\ \A q \in Processes \ {p} : l1'[q] = l1[q]
    BY <1>1, <1>3, <2>1, PutFine
  <2>6. \A u \in Threads : call[u].alone /\ call[u].at = "commitL2" => Known(l2', call[u].since, version)
    BY <2>1 DEF JInv, AloneFine, At
  <2>. HIDE DEF stored
  <2>7. QED
    BY <1>2, <2>1, <2>4, <2>5, <2>6, ProceedStep
<1>5. CASE StoreL2(t)
  <2>1. PICK v \in {c.value, Raised} : call' = [call EXCEPT ![t] = Concluded(c, v)]
    BY <1>5 DEF StoreL2
  <2>2. /\ c.at = "storeL2" /\ l2' \in {l2, Fresh(c.value)}
        /\ UNCHANGED <<version, l1, lease, flights, floor>>
    BY <1>5 DEF StoreL2, At
  <2>3. v \in {Raised} \cup floor[p]..version
    BY <1>1, <1>3, <2>2
  <2>. DEFINE d == Concluded(c, v)
  <2>4. Proceeds(d, c, floor[p], version)
    BY <1>1, <1>3, <2>2, <2>3, ConcludedProceeds
  <2>5. TiersFine' /\ \A q \in Processes \ {p} : l1'[q] = l1[q]
    BY <1>3, <2>2 DEF JInv, TiersFine
  <2>6. ~d.alone
    BY <1>3, <2>2, <2>4 DEF Proceeds, Goes
  <2>7. ASSUME NEW u \in Threads, call[u].alone, call[u].at = "commitL2"
        PROVE  Known(l2', call[u].since, version)
    <3>1. Known(l2, call[u].since, version) /\ ~(c.value < call[u].since)
      BY <2>2, <2>7 DEF JInv, AloneFine, At, NoneOlder, Unstored
    <3>2. call[u].since \in 0..version /\ version \in Nat
      BY Sources
    <3>3. Known(Fresh(c.value), call[u].since, version)
      BY <1>1, <1>3, <2>2, <3>1, <3>2 DEF Known, Fresh, NoRecord
    <3>4. QED
      BY <2>2, <3>1, <3>3
  <2>. HIDE DEF d
  <2>8. QED
    BY <1>2, <2>1, <2>2, <2>4, <2>5, <2>6, <2>7, ProceedStep DEF d
<1>6. QED
  BY <1>4, <1>5

\* The lease is taken, waited for or released by a call that goes on leading.
LEMMA LeaseStep ==
  ASSUME IInv, JInv, NEW t \in Threads, AcquireLease(t) \/ ReleaseLease(t)
  PROVE  JInv'
<1>. DEFINE p == ProcessOf[t]
            c == call[t]
            waiting == [c EXCEPT !.at = "wait", !.mode = "poll"]
            holding == [c EXCEPT !.lease = "held", !.mode = "lease",
                                 !.at = IF c.mode = "REFRESH" THEN "compute" ELSE "lookup"]
            released == [c EXCEPT !.at = "settle", !.lease = "none"]
<1>1. /\ IsCall(c) /\ Placed(c) /\ Fine(c, floor[p], version) /\ p \in Processes
      /\ version \in 0..MaxVersion /\ version \in Nat /\ floor[p] \in 0..version
  BY Facts
<1>2. c.at \in {"lease", "release"} /\ UNCHANGED <<version, l1, l2, flights, floor>> /\ LeaseFine'
  <2>1. CASE AcquireLease(t)
    <3>1. At(t, "lease") /\ UNCHANGED <<version, l1, l2, flights, floor>>
      BY <2>1 DEF AcquireLease
    <3>2. lease' \in {lease, [owner |-> p, valid |-> TRUE]}
      BY <2>1 DEF AcquireLease
    <3>3. c.at = "lease"
      BY <3>1 DEF At
    <3>4. LeaseFine'
      <4>1. CASE lease' = lease
        BY <4>1 DEF JInv, LeaseFine
      <4>2. CASE lease' = [owner |-> p, valid |-> TRUE]
        <5>1. lease'.owner = p /\ lease'.valid = TRUE
          BY <4>2
        <5>2. QED
          BY <1>1, <5>1 DEF LeaseFine
      <4>3. QED
        BY <3>2, <4>1, <4>2
    <3>5. QED
      BY <3>1, <3>3, <3>4
  <2>2. CASE ReleaseLease(t)
    BY <1>1, <2>2 DEF ReleaseLease, At, JInv, LeaseFine, NoLease
  <2>3. QED
    BY <2>1, <2>2
<1>3. ~Dropping(c) /\ c.mode \notin Removals
  BY <1>1, <1>2 DEF Fine, Dropping
<1>4. ASSUME NEW d, call' = [call EXCEPT ![t] = d], d.at \in {"wait", "compute", "lookup", "settle"},
             d.mode \in {"lease", "poll"} \cup {c.mode}, d.lease \in {"held", "none"} \cup {c.lease},
             d.at # "settle" => d.mode \in {"lease", "poll"}, d.at = "settle" => c.at = "release" /\ d.mode = c.mode,
             d.record = c.record, d.value = c.value, d.stale = c.stale, d.since = c.since,
             d.alone = c.alone, d.outdated = c.outdated
      PROVE  JInv'
  <2>1. Fine(d, floor[p], version)
    BY <1>1, <1>2, <1>3, <1>4 DEF Fine, Dropping, Places, Removals
  <2>2. Proceeds(d, c, floor[p], version)
    BY <1>1, <1>2, <1>4, <2>1 DEF Proceeds, Goes, Keeps, OnLead, Leads, MayStore, Dropping, Placed
  <2>3. QED
    BY <1>2, <1>3, <1>4, <2>2, CallProceeds
<1>5. CASE AcquireLease(t)
  <2>1. c.at = "lease" /\ (call' = [call EXCEPT ![t] = waiting] \/ call' = [call EXCEPT ![t] = holding])
    BY <1>1, <1>5 DEF AcquireLease, At, IInv, Shapes, IsCall
  <2>2. /\ waiting.at = "wait" /\ waiting.mode = "poll" /\ waiting.lease = c.lease
        /\ waiting.record = c.record /\ waiting.value = c.value /\ waiting.stale = c.stale
        /\ waiting.since = c.since /\ waiting.alone = c.alone /\ waiting.outdated = c.outdated
    BY <1>1 DEF IsCall
  <2>3. /\ holding.at \in {"compute", "lookup"} /\ holding.mode = "lease" /\ holding.lease = "held"
        /\ holding.record = c.record /\ holding.value = c.value /\ holding.stale = c.stale
        /\ holding.since = c.since /\ holding.alone = c.alone /\ holding.outdated = c.outdated
    BY <1>1 DEF IsCall
  <2>. HIDE DEF waiting, holding
  <2>4. QED
    BY <1>4, <2>1, <2>2, <2>3
<1>6. CASE ReleaseLease(t)
  <2>1. c.at = "release" /\ call' = [call EXCEPT ![t] = released]
    BY <1>1, <1>6 DEF ReleaseLease, At, IInv, Shapes, IsCall
  <2>2. /\ released.at = "settle" /\ released.mode = c.mode /\ released.lease = "none"
        /\ released.record = c.record /\ released.value = c.value /\ released.stale = c.stale
        /\ released.since = c.since /\ released.alone = c.alone /\ released.outdated = c.outdated
    BY <1>1 DEF IsCall
  <2>. HIDE DEF released
  <2>3. QED
    BY <1>4, <2>1, <2>2
<1>7. QED
  BY <1>5, <1>6

-----------------------------------------------------------------------------
(* Flights *)

\* Calls that go on and are not alone, over a memory that stays.
LEMMA AllGoOn ==
  ASSUME IInv, JInv, UNCHANGED <<version, floor, l1>>,
         \A u \in Threads : \/ call'[u] = call[u]
                            \/ Goes(call'[u], call[u], floor[ProcessOf[u]], version) /\ ~call'[u].alone,
         LeaseFine', TiersFine', FlightsFine', l2' \in {l2, NoRecord}
  PROVE  JInv'
<1>1. \A u \in Threads : call'[u].alone =>
         /\ PastMemory(call'[u]) => l1'[ProcessOf[u]] = NoRecord
         /\ call'[u].at = "commitL2" => Known(l2', call[u].since, version) /\ NoneOlder(call[u].since)
  BY DEF JInv, AloneFine, At, Known
<1>2. QED
  BY <1>1, AllGo

\* Flights of which neither the record nor the leader changes.
LEMMA OtherFlights ==
  ASSUME JInv, NEW p \in Processes, UNCHANGED <<version, floor>>, flights'[p] = flights[p],
         \A u \in Threads : ProcessOf[u] = p => call'[u] = call[u]
  PROVE  FlightFine(p)'
<1>1. SUFFICES ASSUME flights[p] # NoFlight PROVE FlightFine(p)'
  BY DEF FlightFine
<1>. DEFINE u == flights[p].leader
<1>2. /\ u \in Threads /\ ProcessOf[u] = p /\ OnLead(call[u])
      /\ flights[p].result = Pending <=> call[u].at # "pop"
      /\ flights[p].result \in {Pending, Raised} \cup floor[p]..version
  BY <1>1 DEF JInv, FlightsFine, FlightFine, At
<1>. HIDE DEF u
<1>3. QED
  BY <1>2 DEF FlightFine, At, u

\* The result of a flight is no older than what its process may know.
LEMMA WokenGoes ==
  ASSUME NEW now \in Nat, NEW f \in 0..now, NEW c, IsCall(c), Placed(c), Fine(c, f, now),
         c.at \in {"join", "follow"}, NEW result \in {Raised} \cup f..now
  PROVE  Proceeds(Woken(c, result), c, f, now) /\ ~Woken(c, result).alone
<1>1. ~OnLead(c) /\ c.mode \notin Removals /\ ~c.alone /\ c.at \notin {"idle", "pop"}
  BY DEF Placed, OnLead, Leads, Fine, Dropping
<1>2. CASE result = Raised
  BY <1>1, <1>2, AnsweredIdle, IdleFine, AnsweredProceeds DEF Woken
<1>3. CASE result # Raised
  <2>. DEFINE d == [c EXCEPT !.at = "lookup", !.mode = "follow", !.value = result, !.stale = NoRecord]
  <2>1. Woken(c, result) = d
    BY <1>3 DEF Woken
  <2>2. /\ d.at = "lookup" /\ d.record = c.record /\ d.value = result /\ d.stale = NoRecord
        /\ d.mode = "follow" /\ d.lease = c.lease /\ d.since = c.since /\ d.alone = c.alone
        /\ d.outdated = c.outdated
    BY DEF IsCall
  <2>3. Fine(d, f, now)
    BY <1>1, <2>2 DEF Fine, Dropping, Places, Known, Removals
  <2>4. QED
    BY <1>1, <2>1, <2>2, <2>3 DEF Proceeds, Goes, Keeps, MayStore, Dropping
<1>4. QED
  BY <1>2, <1>3

\* Who joins leads, follows, or comes after the result.
LEMMA JoinFine ==
  ASSUME IInv, JInv, NEW t \in Threads, Join(t)
  PROVE  JInv'
<1>. DEFINE p == ProcessOf[t]
            c == call[t]
            leading == [c EXCEPT !.at = "lease"]
            following == [c EXCEPT !.at = "follow", !.stale = NoRecord]
<1>1. /\ IsCall(c) /\ Placed(c) /\ Fine(c, floor[p], version) /\ p \in Processes
      /\ version \in 0..MaxVersion /\ version \in Nat /\ floor[p] \in 0..version
  BY Facts
<1>2. c.at = "join" /\ UNCHANGED <<version, l1, l2, lease, floor>>
  BY DEF Join, At
<1>3. /\ ~OnLead(c) /\ c.mode \notin Removals /\ ~c.alone /\ ~Dropping(c)
      /\ LeaseFine' /\ TiersFine'
  BY <1>1, <1>2 DEF Placed, OnLead, Leads, Fine, Dropping, JInv, LeaseFine, TiersFine
<1>4. CASE flights[p] = NoFlight
  <2>1. call' = [call EXCEPT ![t] = leading] /\ flights' = [flights EXCEPT ![p] = [leader |-> t, result |-> Pending]]
    BY <1>4 DEF Join
  <2>2. /\ leading.at = "lease" /\ leading.record = c.record /\ leading.value = c.value
        /\ leading.stale = c.stale /\ leading.mode = c.mode /\ leading.lease = c.lease
        /\ leading.since = c.since /\ leading.alone = c.alone /\ leading.outdated = c.outdated
    BY <1>1 DEF IsCall
  <2>3. Fine(leading, floor[p], version)
    BY <1>1, <1>2, <1>3, <2>2 DEF Fine, Dropping, Places
  <2>4. Goes(leading, c, floor[p], version) /\ ~leading.alone /\ OnLead(leading)
    BY <1>2, <1>3, <2>2, <2>3 DEF Goes, OnLead, MayStore, Dropping
  <2>. HIDE DEF leading
  <2>5. call'[t] = leading /\ \A u \in Threads \ {t} : call'[u] = call[u]
    BY <2>1 DEF IInv, Shapes
  <2>6. /\ flights'[p].leader = t /\ flights'[p].result = Pending
        /\ \A q \in Processes \ {p} : flights'[q] = flights[q]
    BY <1>1, <2>1 DEF IInv, Shapes
  <2>7. FlightFine(p)'
    BY <2>2, <2>4, <2>5, <2>6 DEF FlightFine, At
  <2>8. \A q \in Processes \ {p} : FlightFine(q)'
    BY <1>2, <2>5, <2>6, OtherFlights
  <2>9. FlightsFine'
    BY <2>7, <2>8 DEF FlightsFine
  <2>10. QED
    BY <1>2, <1>3, <2>4, <2>5, <2>9, AllGoOn
<1>5. CASE flights[p] # NoFlight
  <2>1. /\ \/ flights[p].result = Pending /\ call' = [call EXCEPT ![t] = following]
           \/ flights[p].result # Pending /\ call' = [call EXCEPT ![t] = Woken(c, flights[p].result)]
        /\ UNCHANGED flights
    BY <1>5 DEF Join
  <2>2. /\ following.at = "follow" /\ following.record = c.record /\ following.value = c.value
        /\ following.stale = NoRecord /\ following.mode = c.mode /\ following.lease = c.lease
        /\ following.since = c.since /\ following.alone = c.alone /\ following.outdated = c.outdated
    BY <1>1 DEF IsCall
  <2>3. Fine(following, floor[p], version)
    BY <1>1, <1>2, <1>3, <2>2 DEF Fine, Dropping, Places, Known
  <2>4. Proceeds(following, c, floor[p], version)
    BY <1>2, <1>3, <2>2, <2>3 DEF Proceeds, Goes, Keeps, MayStore, Dropping
  <2>5. flights[p].result # Pending => flights[p].result \in {Raised} \cup floor[p]..version
    BY <1>1, <1>5 DEF JInv, FlightsFine, FlightFine
  <2>6. flights[p].result # Pending => Proceeds(Woken(c, flights[p].result), c, floor[p], version)
    BY <1>1, <1>2, <2>5, WokenGoes
  <2>. HIDE DEF following
  <2>7. QED
    BY <1>2, <1>3, <2>1, <2>4, <2>6, CallProceeds
<1>6. QED
  BY <1>4, <1>5

\* The leader's result becomes that of its flight and of its followers.
LEMMA SettleFine ==
  ASSUME IInv, JInv, NEW t \in Threads, Settle(t)
  PROVE  JInv'
<1>. DEFINE p == ProcessOf[t]
            c == call[t]
            settled == [c EXCEPT !.at = "pop"]
<1>1. /\ IsCall(c) /\ Placed(c) /\ Fine(c, floor[p], version) /\ p \in Processes
      /\ version \in 0..MaxVersion /\ version \in Nat /\ floor[p] \in 0..version
  BY Facts
<1>2. /\ c.at = "settle" /\ UNCHANGED <<version, l1, l2, lease, floor>>
      /\ flights' = [flights EXCEPT ![p].result = c.value]
      /\ call' = [u \in Threads |-> IF u = t THEN settled
                                    ELSE IF u \in Followers(t) THEN Woken(call[u], c.value) ELSE call[u]]
  BY DEF Settle, At
<1>3. /\ Leads(c) /\ c.mode \notin Removals /\ ~c.alone /\ c.value \in {Raised} \cup floor[p]..version
      /\ LeaseFine' /\ TiersFine'
  BY <1>1, <1>2 DEF Placed, Leads, Fine, Dropping, JInv, LeaseFine, TiersFine
<1>4. /\ settled.at = "pop" /\ settled.record = c.record /\ settled.value = c.value
      /\ settled.stale = c.stale /\ settled.mode = c.mode /\ settled.lease = c.lease
      /\ settled.since = c.since /\ settled.alone = c.alone /\ settled.outdated = c.outdated
  BY <1>1 DEF IsCall
<1>5. Fine(settled, floor[p], version)
  BY <1>1, <1>2, <1>3, <1>4 DEF Fine, Dropping, Places
<1>6. Goes(settled, c, floor[p], version) /\ ~settled.alone /\ OnLead(settled)
  BY <1>2, <1>3, <1>4, <1>5 DEF Goes, OnLead, Leads, MayStore, Dropping, Removals
<1>7. \A u \in Followers(t) : /\ ProcessOf[u] = p
                              /\ Goes(Woken(call[u], c.value), call[u], floor[p], version)
                              /\ ~Woken(call[u], c.value).alone
  <2>1. SUFFICES ASSUME NEW u \in Followers(t)
                 PROVE  /\ ProcessOf[u] = p
                        /\ Goes(Woken(call[u], c.value), call[u], floor[p], version)
                        /\ ~Woken(call[u], c.value).alone
    OBVIOUS
  <2>2. u \in Threads /\ ProcessOf[u] = p /\ call[u].at = "follow"
    BY DEF Followers, At
  <2>3. IsCall(call[u]) /\ Placed(call[u]) /\ Fine(call[u], floor[p], version)
    BY <2>2, Facts
  <2>4. QED
    BY <1>1, <1>3, <2>2, <2>3, WokenGoes DEF Proceeds
<1>. HIDE DEF settled
<1>8. flights[p].leader = t
  BY <1>3 DEF IInv, LeadersFly, OnLead
<1>9. /\ flights'[p].leader = t /\ flights'[p].result = c.value
      /\ \A q \in Processes \ {p} : flights'[q] = flights[q]
  BY <1>1, <1>2, <1>8 DEF IInv, Shapes
<1>10. c.value # Pending
  BY <1>1, <1>3 DEF Pending, Raised
<1>11. FlightFine(p)'
  BY <1>2, <1>3, <1>4, <1>6, <1>9, <1>10 DEF FlightFine, At
<1>12. ASSUME NEW q \in Processes \ {p} PROVE FlightFine(q)'
  <2>1. \A u \in Threads : ProcessOf[u] = q => call'[u] = call[u]
    BY <1>2, <1>7
  <2>2. QED
    BY <1>2, <1>9, <2>1, OtherFlights
<1>13. FlightsFine'
  BY <1>11, <1>12 DEF FlightsFine
<1>14. \A u \in Threads : \/ call'[u] = call[u]
                          \/ Goes(call'[u], call[u], floor[ProcessOf[u]], version) /\ ~call'[u].alone
  BY <1>2, <1>6, <1>7
<1>15. QED
  BY <1>2, <1>3, <1>13, <1>14, AllGoOn

\* The leader answers, and its flight is over.
LEMMA PopFine ==
  ASSUME IInv, JInv, NEW t \in Threads, Pop(t)
  PROVE  JInv'
<1>. DEFINE p == ProcessOf[t]
            c == call[t]
<1>1. /\ Placed(c) /\ Fine(c, floor[p], version) /\ p \in Processes
      /\ version \in Nat /\ floor[p] \in 0..version
  BY Facts
<1>2. /\ c.at = "pop" /\ UNCHANGED <<version, l1, l2, lease, floor>>
      /\ call' = [call EXCEPT ![t] = Answered(c, c.value)]
      /\ flights' = [flights EXCEPT ![p] = NoFlight]
  BY DEF Pop, At
<1>3. c.mode \notin Removals /\ LeaseFine' /\ TiersFine'
  BY <1>1, <1>2 DEF Fine, Dropping, JInv, LeaseFine, TiersFine
<1>4. Answered(c, c.value) = Idle
  BY <1>1, <1>2, <1>3, AnsweredIdle DEF Fine
<1>5. call'[t] = Idle /\ \A u \in Threads \ {t} : call'[u] = call[u]
  BY <1>2, <1>4 DEF IInv, Shapes
<1>6. flights'[p] = NoFlight /\ \A q \in Processes \ {p} : flights'[q] = flights[q]
  BY <1>1, <1>2 DEF IInv, Shapes
<1>7. \A q \in Processes \ {p} : FlightFine(q)'
  BY <1>2, <1>5, <1>6, OtherFlights
<1>8. FlightsFine'
  BY <1>6, <1>7 DEF FlightsFine, FlightFine
<1>9. Goes(Idle, c, floor[p], version) /\ ~Idle.alone
  BY <1>1, <1>2, IdleFine DEF Goes
<1>10. QED
  BY <1>2, <1>3, <1>5, <1>8, <1>9, AllGoOn

-----------------------------------------------------------------------------
(* Calls begin *)

\* Whoever was alone in the process is not any more; nobody else notices.
LEMMA BeginFine ==
  ASSUME IInv, JInv, NEW t \in Threads,
         (\E m \in Modes \cap CallsOf[t] : Begin(t, m)) \/ (\E m \in Removals \cap CallsOf[t] : BeginRemoval(t, m))
  PROVE  JInv'
<1>. DEFINE p == ProcessOf[t]
<1>1. /\ p \in Processes /\ version \in 0..MaxVersion /\ version \in Nat /\ floor[p] \in 0..version
      /\ Fine(Idle, floor[p], version)
  BY Facts, IdleFine
<1>2. At(t, "idle") /\ UNCHANGED <<version, l1, l2, lease, flights, floor>>
  BY DEF Begin, BeginRemoval
<1>3. PICK c : /\ call' = Undisturbed(t, c) /\ Fine(c, floor[p], version)
               /\ c.at \in {"lookup", "join", "dropL1"} /\ ~MayStore(c)
               /\ c.alone => \A u \in Threads \ {t} : ProcessOf[u] = p => At(u, "idle")
  <2>1. ASSUME NEW m \in Modes, Begin(t, m)
        PROVE  \E c : /\ call' = Undisturbed(t, c) /\ Fine(c, floor[p], version)
                      /\ c.at \in {"lookup", "join", "dropL1"} /\ ~MayStore(c) /\ ~c.alone
    <3>. DEFINE c == [Idle EXCEPT !.at = IF m = "REFRESH" THEN "join" ELSE "lookup",
                                  !.mode = m, !.since = floor[p]]
    <3>1. call' = Undisturbed(t, c)
      BY <2>1 DEF Begin
    <3>2. /\ c.at \in {"join", "lookup"} /\ c.mode = m /\ c.since = floor[p] /\ c.lease = "none"
          /\ c.value = Raised /\ c.record = NoRecord /\ c.stale = NoRecord /\ ~c.alone /\ ~c.outdated
      BY DEF Idle
    <3>. HIDE DEF c
    <3>3. Fine(c, floor[p], version)
      BY <1>1, <2>1, <3>2 DEF Fine, Dropping, Places, Known, Removals, Modes
    <3>4. ~MayStore(c)
      BY <3>2 DEF MayStore, Dropping
    <3>5. QED
      BY <3>1, <3>2, <3>3, <3>4
  <2>2. ASSUME NEW m \in Removals, BeginRemoval(t, m)
        PROVE  \E c : /\ call' = Undisturbed(t, c) /\ Fine(c, floor[p], version)
                      /\ c.at \in {"lookup", "join", "dropL1"} /\ ~MayStore(c)
                      /\ c.alone => \A u \in Threads \ {t} : ProcessOf[u] = p => At(u, "idle")
    <3>. DEFINE others == {u \in Threads \ {t} : ProcessOf[u] = p}
                b == \A u \in others : At(u, "idle")
                c == [Idle EXCEPT !.at = "dropL1", !.mode = m, !.since = version, !.alone = b]
    <3>1. call' = Undisturbed(t, c)
      BY <2>2 DEF BeginRemoval
    <3>2. b => \A u \in Threads \ {t} : ProcessOf[u] = p => At(u, "idle")
      OBVIOUS
    <3>. HIDE DEF b
    <3>3. /\ c.at = "dropL1" /\ c.mode = m /\ c.since = version /\ c.lease = "none"
          /\ c.value = Raised /\ c.record = NoRecord /\ c.stale = NoRecord /\ c.alone = b /\ ~c.outdated
      BY DEF Idle
    <3>. HIDE DEF c
    <3>4. Fine(c, floor[p], version)
      BY <1>1, <2>2, <3>3 DEF Fine, Dropping, Places, Known, Removals
    <3>5. ~MayStore(c)
      BY <2>2, <3>3 DEF MayStore, Dropping, Removals
    <3>6. QED
      BY <3>1, <3>2, <3>3, <3>4, <3>5
  <2>3. QED
    BY <2>1, <2>2
<1>. DEFINE Shy(d) == [d EXCEPT !.alone = FALSE]
<1>4. /\ call'[t] = c
      /\ \A u \in Threads \ {t} : call'[u] = IF ProcessOf[u] = p THEN Shy(call[u]) ELSE call[u]
  BY <1>3 DEF Undisturbed
<1>5. \A u \in Threads : /\ Shy(call[u]).at = call[u].at /\ Shy(call[u]).mode = call[u].mode
                         /\ Shy(call[u]).value = call[u].value /\ Shy(call[u]).record = call[u].record
                         /\ Shy(call[u]).stale = call[u].stale /\ Shy(call[u]).lease = call[u].lease
                         /\ Shy(call[u]).since = call[u].since /\ Shy(call[u]).outdated = call[u].outdated
                         /\ ~Shy(call[u]).alone
  BY Facts DEF IsCall
<1>6. Shy(Idle) = Idle
  <2>1. Idle = [k \in DOMAIN Idle |-> Idle[k]] /\ Idle.alone = FALSE
    BY DEF Idle
  <2>2. ASSUME NEW g, g = [k \in DOMAIN g |-> g[k]], NEW x PROVE [g EXCEPT ![x] = g[x]] = g
    BY <2>2
  <2>3. QED
    BY <2>1, <2>2
<1>. HIDE DEF Shy
<1>7. \A u \in Threads \ {t} :
        /\ call'[u].at = call[u].at /\ call'[u].mode = call[u].mode /\ call'[u].value = call[u].value
        /\ Fine(call'[u], floor[ProcessOf[u]], version)
        /\ call'[u].alone => call[u].alone /\ ProcessOf[u] # p
  <2>1. SUFFICES ASSUME NEW u \in Threads \ {t}
                 PROVE  /\ call'[u].at = call[u].at /\ call'[u].mode = call[u].mode
                        /\ call'[u].value = call[u].value
                        /\ Fine(call'[u], floor[ProcessOf[u]], version)
                        /\ call'[u].alone => call[u].alone /\ ProcessOf[u] # p
    OBVIOUS
  <2>2. Fine(call[u], floor[ProcessOf[u]], version)
    BY Facts
  <2>3. CASE ProcessOf[u] # p
    BY <1>4, <2>2, <2>3
  <2>4. CASE ProcessOf[u] = p
    <3>1. call'[u] = Shy(call[u])
      BY <1>4, <2>4
    <3>2. call[u].at = "idle" => Shy(call[u]) = Idle
      BY <1>6, <2>2 DEF Fine
    <3>3. Fine(Shy(call[u]), floor[ProcessOf[u]], version)
      BY <1>5, <2>2, <3>2 DEF Fine, Dropping
    <3>4. QED
      BY <1>5, <3>1, <3>3
  <2>5. QED
    BY <2>3, <2>4
<1>8. CallsFine'
  BY <1>2, <1>3, <1>4, <1>7 DEF CallsFine
<1>9. StoresFine'
  BY <1>2, <1>3, <1>4, <1>7 DEF JInv, StoresFine, MayStore, Dropping
<1>10. AloneFine'
  <2>1. SUFFICES ASSUME NEW u \in Threads, call'[u].alone
                 PROVE  /\ \A w \in Threads \ {u} : ProcessOf[w] = ProcessOf[u] => call'[w].at = "idle"
                        /\ PastMemory(call'[u]) => l1[ProcessOf[u]] = NoRecord
                        /\ call'[u].at = "commitL2" =>
                             Known(l2, call'[u].since, version) /\ NoneOlder(call[u].since)'
    BY <1>2 DEF AloneFine, At
  <2>2. CASE u = t
    BY <1>3, <1>4, <1>7, <2>1, <2>2 DEF At, PastMemory
  <2>3. CASE u # t
    <3>1. call'[u] = call[u] /\ call[u].alone
      BY <1>4, <1>7, <2>1, <2>3
    <3>2. NoneOlder(call[u].since) => NoneOlder(call[u].since)'
      BY <1>3, <1>4, <1>7, <3>1 DEF NoneOlder, Unstored, MayStore, Dropping
    <3>3. QED
      BY <1>4, <1>7, <2>3, <3>1, <3>2 DEF JInv, AloneFine, At, PastMemory
  <2>4. QED
    BY <2>2, <2>3
<1>11. FlightsFine'
  <2>1. \A u \in Threads : Keeps(call'[u], call[u])
    <3>1. ~OnLead(call[t])
      BY <1>2, Facts DEF Placed, OnLead, At
    <3>2. \A u \in Threads \ {t} : Keeps(call'[u], call[u])
      BY <1>7 DEF Keeps, OnLead, Leads
    <3>3. c.at # "pop" /\ call[t].at # "pop"
      BY <1>2, <1>3 DEF At
    <3>4. QED
      BY <1>4, <3>1, <3>2, <3>3 DEF Keeps
  <2>2. QED
    BY <1>2, <2>1, FlightsStay
<1>12. Floors' /\ TiersFine' /\ LeaseFine'
  BY <1>2 DEF JInv, Floors, TiersFine, LeaseFine
<1>13. QED
  BY <1>8, <1>9, <1>10, <1>11, <1>12 DEF JInv

-----------------------------------------------------------------------------
(* Removals and leases that go *)

\* A call whose lease is gone is otherwise as it was.
LEMMA LapsedGoes ==
  ASSUME IInv, JInv, NEW o, NEW u \in Threads
  PROVE  \/ Lapsed(o)[u] = call[u]
         \/ /\ Proceeds(Lapsed(o)[u], call[u], floor[ProcessOf[u]], version) /\ ~Lapsed(o)[u].alone
            /\ Lapsed(o)[u].at = call[u].at /\ Lapsed(o)[u].mode = call[u].mode
            /\ Lapsed(o)[u].value = call[u].value
<1>. DEFINE c == call[u]
            d == [c EXCEPT !.lease = "lapsed"]
<1>1. IsCall(c) /\ Placed(c) /\ Fine(c, floor[ProcessOf[u]], version)
  BY Facts
<1>2. CASE ProcessOf[u] = o /\ c.lease = "held"
  <2>1. Lapsed(o)[u] = d
    BY <1>2 DEF Lapsed
  <2>2. /\ d.at = c.at /\ d.record = c.record /\ d.value = c.value /\ d.stale = c.stale
        /\ d.mode = c.mode /\ d.lease = "lapsed" /\ d.since = c.since /\ d.alone = c.alone
        /\ d.outdated = c.outdated
    BY <1>1 DEF IsCall
  <2>3. c.mode = "lease" /\ c.at # "idle" /\ ~c.alone
    BY <1>1, <1>2 DEF Placed, Leads, Fine, Removals
  <2>4. Fine(d, floor[ProcessOf[u]], version)
    BY <1>1, <2>2, <2>3 DEF Fine, Dropping, Removals
  <2>5. Proceeds(d, c, floor[ProcessOf[u]], version)
    BY <2>2, <2>3, <2>4 DEF Proceeds, Goes, Keeps, OnLead, Leads, MayStore, Dropping
  <2>. HIDE DEF d
  <2>6. QED
    BY <2>1, <2>2, <2>3, <2>5
<1>3. CASE ~(ProcessOf[u] = o /\ c.lease = "held")
  BY <1>3 DEF Lapsed
<1>4. QED
  BY <1>2, <1>3

LEMMA ExpireFine ==
  ASSUME IInv, JInv, LeaseExpires
  PROVE  JInv'
<1>1. /\ call' = Lapsed(lease.owner) /\ UNCHANGED <<version, l1, l2, flights, floor>>
      /\ lease' = [lease EXCEPT !.valid = FALSE]
  BY DEF LeaseExpires
<1>2. lease'.owner = lease.owner /\ lease'.valid = FALSE
  BY <1>1 DEF IInv, Shapes
<1>3. LeaseFine' /\ TiersFine'
  BY <1>1, <1>2 DEF JInv, LeaseFine, TiersFine
<1>4. FlightsFine'
  BY <1>1, LapsedGoes, FlightsStay DEF Proceeds, Keeps
<1>5. QED
  BY <1>1, <1>3, <1>4, LapsedGoes, AllGoOn DEF Proceeds

\* The first steps of a removal: memory has nothing of what it finds there, and
\* it stays alone only if nothing older may come where SQLite has nothing.
LEMMA RemovalFine ==
  ASSUME IInv, JInv, NEW t \in Threads, DropL1(t) \/ SelectL2(t) \/ DropL2Raises(t)
  PROVE  JInv'
<1>. DEFINE p == ProcessOf[t]
            c == call[t]
<1>1. /\ IsCall(c) /\ Placed(c) /\ Fine(c, floor[p], version) /\ p \in Processes
      /\ version \in 0..MaxVersion /\ version \in Nat /\ floor[p] \in 0..version
  BY Facts
<1>2. LeaseFine' /\ UNCHANGED <<version, l2, lease, flights, floor>> /\ c.at \in Removing
  BY DEF DropL1, SelectL2, DropL2Raises, At, JInv, LeaseFine
<1>3. \A u \in Threads : call[u].alone /\ call[u].at = "commitL2" => Known(l2', call[u].since, version)
  BY <1>2 DEF JInv, AloneFine, At
<1>4. ASSUME NEW place \in Removing, NEW b \in BOOLEAN, b => c.alone,
             call' = [call EXCEPT ![t] = [c EXCEPT !.at = place, !.alone = b]]
      PROVE  \E d : /\ call' = [call EXCEPT ![t] = d] /\ Proceeds(d, c, floor[p], version)
                    /\ d.at = place /\ d.alone = b
  <2>. DEFINE d == [c EXCEPT !.at = place, !.alone = b]
  <2>1. /\ d.at = place /\ d.record = c.record /\ d.value = c.value
        /\ d.stale = c.stale /\ d.mode = c.mode /\ d.lease = c.lease
        /\ d.since = c.since /\ d.alone = b /\ d.outdated = c.outdated
    BY <1>1 DEF IsCall
  <2>. HIDE DEF d
  <2>2. Fine(d, floor[p], version)
    BY <1>1, <1>2, <1>4, <2>1 DEF Fine, Dropping, Places
  <2>3. Proceeds(d, c, floor[p], version)
    BY <1>1, <1>2, <1>4, <2>1, <2>2 DEF Proceeds, Goes, Keeps, OnLead, Leads, MayStore, Dropping, Placed
  <2>4. QED
    BY <1>4, <2>1, <2>3 DEF d
<1>5. CASE DropL1(t)
  <2>. DEFINE missed == Missed(c, l1[p])
              b == c.alone /\ ~missed
  <2>1. /\ call' = [call EXCEPT ![t] = [c EXCEPT !.at = "selectL2", !.alone = b]]
        /\ l1' = [l1 EXCEPT ![p] = IF missed THEN @ ELSE NoRecord]
    BY <1>5 DEF DropL1
  <2>2. b \in BOOLEAN /\ (b => c.alone /\ ~missed)
    OBVIOUS
  <2>3. /\ \A q \in Processes \ {p} : l1'[q] = l1[q]
        /\ l1'[p] \in {l1[p], NoRecord} /\ DOMAIN l1' = Processes /\ (~missed => l1'[p] = NoRecord)
    <3>. HIDE DEF missed
    <3>1. QED
      BY <1>1, <2>1 DEF JInv, TiersFine
  <2>4. TiersFine'
    BY <1>1, <1>2, <2>3 DEF JInv, TiersFine, Known
  <2>. HIDE DEF b, missed
  <2>5. PICK d : /\ call' = [call EXCEPT ![t] = d] /\ Proceeds(d, c, floor[p], version)
                 /\ d.at = "selectL2" /\ d.alone = b
    BY <1>4, <2>1, <2>2
  <2>6. QED
    BY <1>2, <1>3, <2>2, <2>3, <2>4, <2>5, ProceedStep
<1>6. CASE SelectL2(t)
  <2>. DEFINE some == c.mode = "CLEAR" \/ l2 # NoRecord
              b == c.alone /\ (some \/ NoneOlder(c.since))
              place == IF some THEN "deleteL2" ELSE "commitL2"
  <2>1. /\ call' = [call EXCEPT ![t] = [c EXCEPT !.at = place, !.alone = b]]
        /\ c.at = "selectL2" /\ UNCHANGED l1
    BY <1>6 DEF SelectL2, At
  <2>2. /\ b \in BOOLEAN /\ (b => c.alone) /\ place \in Removing
        /\ b /\ place = "commitL2" => l2 = NoRecord /\ NoneOlder(c.since)
    OBVIOUS
  <2>3. TiersFine' /\ \A q \in Processes \ {p} : l1'[q] = l1[q]
    BY <1>2, <2>1 DEF JInv, TiersFine
  <2>. HIDE DEF b, place
  <2>4. PICK d : /\ call' = [call EXCEPT ![t] = d] /\ Proceeds(d, c, floor[p], version)
                 /\ d.at = place /\ d.alone = b
    BY <1>4, <2>1, <2>2
  <2>5. d.alone => l1'[p] = NoRecord
    BY <2>1, <2>2, <2>4 DEF JInv, AloneFine, PastMemory
  <2>6. d.alone => (d.at = "commitL2" => Known(l2', c.since, version) /\ NoneOlder(c.since))
    <3>1. b /\ place = "commitL2" => Known(l2', c.since, version) /\ NoneOlder(c.since)
      BY <1>2, <2>2 DEF Known
    <3>2. QED
      BY <2>4, <3>1
  <2>7. QED
    BY <1>2, <1>3, <2>3, <2>4, <2>5, <2>6, ProceedStep
<1>7. CASE DropL2Raises(t)
  <2>1. call' = [call EXCEPT ![t] = Answered(c, Raised)] /\ UNCHANGED l1
    BY <1>7 DEF DropL2Raises
  <2>2. ~OnLead(c) /\ c.at \notin {"idle", "pop"}
    BY <1>1, <1>2 DEF Placed, OnLead
  <2>3. Proceeds(Answered(c, Raised), c, floor[p], version) /\ ~Answered(c, Raised).alone
    BY <1>1, <2>2, AnsweredProceeds
  <2>4. TiersFine' /\ \A q \in Processes \ {p} : l1'[q] = l1[q]
    BY <1>2, <2>1 DEF JInv, TiersFine
  <2>5. QED
    BY <1>2, <1>3, <2>1, <2>3, <2>4, ProceedStep
<1>8. QED
  BY <1>5, <1>6, <1>7

\* The end of a removal. When it was alone, and no computation that is
\* older than its version may still store, its version becomes the floor: what
\* its process has left is nothing, and SQLite has nothing older.
LEMMA DropFine ==
  ASSUME IInv, JInv, NEW t \in Threads, DropL2(t)
  PROVE  JInv'
<1>. DEFINE p == ProcessOf[t]
            c == call[t]
            verified == [c EXCEPT !.at = "storeL1"]
            after == IF At(t, "deleteL2") THEN NoRecord ELSE l2
<1>0. RemovedL2(t, after)
  BY DEF DropL2
<1>1. /\ IsCall(c) /\ Placed(c) /\ Fine(c, floor[p], version) /\ p \in Processes
      /\ version \in 0..MaxVersion /\ version \in Nat /\ floor[p] \in 0..version
  BY Facts
<1>2. /\ c.at \in {"deleteL2", "commitL2"} /\ l2' \in {l2, NoRecord}
      /\ c.at = "deleteL2" => l2' = NoRecord
      /\ UNCHANGED <<version, l1, flights>>
  BY <1>0 DEF RemovedL2, At
<1>3. ~OnLead(c) /\ LeaseFine'
  <2>1. lease' = lease \/ lease' = NoLease
    BY <1>0 DEF RemovedL2
  <2>2. ~OnLead(c)
    BY <1>1, <1>2 DEF Placed, OnLead
  <2>3. CASE lease' = lease
    BY <2>2, <2>3 DEF JInv, LeaseFine
  <2>4. CASE lease' = NoLease
    BY <2>2, <2>4 DEF LeaseFine, NoLease
  <2>5. QED
    BY <2>1, <2>2, <2>3, <2>4
<1>. HIDE DEF after
<1>4. CASE c.mode = "VERIFY"
  <2>1. /\ call' = [call EXCEPT ![t] = verified] \/ call' = [call EXCEPT ![t] = Answered(c, c.value)]
        /\ ~c.alone /\ UNCHANGED floor
    BY <1>0, <1>1, <1>4 DEF RemovedL2, Removals, Fine
  <2>2. /\ verified.at = "storeL1" /\ verified.record = c.record /\ verified.value = c.value
        /\ verified.stale = c.stale /\ verified.mode = c.mode /\ verified.lease = c.lease
        /\ verified.since = c.since /\ verified.alone = c.alone /\ verified.outdated = c.outdated
    BY <1>1 DEF IsCall
  <2>3. Fine(verified, floor[p], version) /\ ~verified.alone
    BY <1>1, <1>2, <1>4, <2>1, <2>2 DEF Fine, Dropping, Places, Removals
  <2>4. Proceeds(verified, c, floor[p], version)
    BY <1>2, <1>3, <1>4, <2>2, <2>3 DEF Proceeds, Goes, Keeps, MayStore, Dropping
  <2>5. c.value \in {Raised} \cup floor[p]..version /\ c.mode \notin Removals /\ c.at \notin {"idle", "pop"}
    BY <1>1, <1>2, <1>4 DEF Fine, Removals
  <2>6. Proceeds(Answered(c, c.value), c, floor[p], version) /\ ~Answered(c, c.value).alone
    BY <1>1, <1>3, <2>5, AnsweredProceeds
  <2>7. TiersFine' /\ \A q \in Processes \ {p} : l1'[q] = l1[q]
    BY <1>2, <2>1 DEF JInv, TiersFine, Known
  <2>8. \A u \in Threads : call[u].alone /\ call[u].at = "commitL2" => Known(l2', call[u].since, version)
    BY <1>2 DEF JInv, AloneFine, At, Known
  <2>. HIDE DEF verified
  <2>9. QED
    BY <1>2, <1>3, <2>1, <2>3, <2>4, <2>6, <2>7, <2>8, ProceedStep
<1>5. CASE c.mode # "VERIFY"
  <2>1. /\ call'[t] = Idle
        /\ \A u \in Threads \ {t} : call'[u] \in {call[u], Lapsed(lease.owner)[u]}
    <3>1. CASE c.mode = "CLEAR"
      <4>1. call' = [Lapsed(lease.owner) EXCEPT ![t] = Idle]
        BY <1>0, <3>1 DEF RemovedL2, Removals
      <4>2. QED
        BY <4>1, LapsedCalls
    <3>2. CASE c.mode # "CLEAR"
      <4>1. call' = [call EXCEPT ![t] = Idle]
        BY <1>0, <1>5, <3>2 DEF RemovedL2, Removals
      <4>2. QED
        BY <4>1 DEF IInv, Shapes
    <3>3. QED
      BY <3>1, <3>2
  <2>2. \A u \in Threads \ {t} :
          \/ call'[u] = call[u]
          \/ /\ Proceeds(call'[u], call[u], floor[ProcessOf[u]], version) /\ ~call'[u].alone
             /\ call'[u].at = call[u].at /\ call'[u].mode = call[u].mode /\ call'[u].value = call[u].value
    BY <2>1, LapsedGoes
  <2>3. Goes(Idle, c, floor[p], version) /\ ~Idle.alone
    BY <1>1, <1>2, IdleFine DEF Goes
  <2>4. CASE UNCHANGED floor
    <3>1. TiersFine'
      BY <1>2, <2>4 DEF JInv, TiersFine, Known
    <3>2. \A u \in Threads : Keeps(call'[u], call[u])
      BY <1>2, <1>3, <2>1, <2>2, IdleFine DEF Keeps, Proceeds
    <3>3. FlightsFine'
      BY <1>2, <2>4, <3>2, FlightsStay
    <3>4. \A u \in Threads : \/ call'[u] = call[u]
                             \/ Goes(call'[u], call[u], floor[ProcessOf[u]], version) /\ ~call'[u].alone
      BY <2>1, <2>2, <2>3 DEF Proceeds
    <3>5. QED
      BY <1>2, <1>3, <2>4, <3>1, <3>3, <3>4, AllGoOn
  <2>5. ASSUME c.alone, NoneOlder(c.since), floor' = [floor EXCEPT ![p] = c.since]
        PROVE  JInv'
    <3>1. /\ c.since \in 0..version /\ floor'[p] = c.since
          /\ floor' \in [Processes -> 0..version]
          /\ \A q \in Processes \ {p} : floor'[q] = floor[q]
      BY <1>1, <2>5 DEF Fine, JInv, Floors
    <3>2. /\ l1[p] = NoRecord /\ Known(l2', c.since, version)
          /\ \A u \in Threads \ {t} : ProcessOf[u] = p => call[u].at = "idle"
      BY <1>2, <2>5 DEF JInv, AloneFine, At, PastMemory, Known
    <3>3. \A u \in Threads \ {t} : ProcessOf[u] = p => call'[u] = Idle
      <4>1. SUFFICES ASSUME NEW u \in Threads \ {t}, ProcessOf[u] = p PROVE call'[u] = Idle
        OBVIOUS
      <4>2. call[u].at = "idle" /\ call[u] = Idle
        BY <3>2, <4>1, Facts DEF Fine
      <4>3. QED
        BY <2>2, <4>2 DEF Proceeds, Goes
    <3>4. Floors'
      BY <1>1, <1>2, <3>1 DEF Floors
    <3>5. CallsFine'
      <4>1. SUFFICES ASSUME NEW u \in Threads PROVE Fine(call'[u], floor'[ProcessOf[u]], version)
        BY <1>2 DEF CallsFine
      <4>2. CASE ProcessOf[u] = p
        BY <1>1, <2>1, <3>1, <3>3, <4>2, IdleFine
      <4>3. CASE ProcessOf[u] # p
        BY <2>2, <3>1, <4>3, Facts DEF Proceeds, Goes
      <4>4. QED
        BY <4>2, <4>3
    <3>6. StoresFine'
      <4>1. SUFFICES ASSUME NEW u \in Threads, MayStore(call'[u]), NEW q \in Processes
                     PROVE  call'[u].value \in floor'[q]..version
        BY <1>2 DEF StoresFine
      <4>2. u # t /\ MayStore(call[u]) /\ call'[u].value = call[u].value
        BY <1>1, <2>1, <2>2, <4>1, IdleFine DEF MayStore, Dropping
      <4>3. \A r \in Processes : call[u].value \in floor[r]..version /\ floor[r] \in 0..version
        BY <4>2 DEF JInv, StoresFine, Floors
      <4>4. ~(call[u].value < c.since)
        BY <2>5, <4>2 DEF NoneOlder, Unstored, MayStore, Dropping
      <4>5. QED
        BY <1>1, <3>1, <4>2, <4>3, <4>4
    <3>7. TiersFine'
      BY <1>2, <3>1, <3>2 DEF JInv, TiersFine, Known
    <3>8. AloneFine'
      <4>1. SUFFICES ASSUME NEW u \in Threads, call'[u].alone
                     PROVE  /\ \A w \in Threads \ {u} : ProcessOf[w] = ProcessOf[u] => call'[w].at = "idle"
                            /\ PastMemory(call'[u]) => l1[ProcessOf[u]] = NoRecord
                            /\ call'[u].at = "commitL2" =>
                                 Known(l2', call'[u].since, version) /\ NoneOlder(call[u].since)'
        BY <1>2 DEF AloneFine, At
      <4>2. u # t /\ call'[u] = call[u]
        BY <2>1, <2>2, <2>3, <4>1
      <4>3. /\ \A w \in Threads \ {u} : ProcessOf[w] = ProcessOf[u] => call[w].at = "idle"
            /\ PastMemory(call'[u]) => l1[ProcessOf[u]] = NoRecord
            /\ call'[u].at = "commitL2" => Known(l2', call'[u].since, version) /\ NoneOlder(call[u].since)
        BY <1>2, <4>1, <4>2 DEF JInv, AloneFine, At, Known
      <4>4. NoneOlder(call[u].since) => NoneOlder(call[u].since)'
        <5>1. \A w \in Threads : MayStore(call'[w]) => MayStore(call[w]) /\ call'[w].value = call[w].value
          BY <1>1, <2>1, <2>2, IdleFine DEF MayStore, Dropping
        <5>2. QED
          BY <4>2, <5>1 DEF NoneOlder, Unstored, MayStore, Dropping
      <4>5. \A w \in Threads \ {u} : call[w].at = "idle" => call'[w].at = "idle"
        BY <1>1, <2>1, <2>2, IdleFine
      <4>6. QED
        BY <4>2, <4>3, <4>4, <4>5
    <3>9. FlightsFine'
      <4>1. SUFFICES ASSUME NEW q \in Processes, flights[q] # NoFlight
                     PROVE  FlightFine(q)'
        BY <1>2 DEF FlightsFine, FlightFine
      <4>. DEFINE u == flights[q].leader
      <4>2. /\ u \in Threads /\ ProcessOf[u] = q /\ OnLead(call[u])
            /\ flights[q].result = Pending <=> call[u].at # "pop"
            /\ flights[q].result \in {Pending, Raised} \cup floor[q]..version
        BY <4>1 DEF JInv, FlightsFine, FlightFine, At
      <4>. HIDE DEF u
      <4>3. u # t
        BY <1>3, <4>2
      <4>4. q # p
        <5>1. call[u].at = "idle" => ~OnLead(call[u])
          BY <4>2, Facts DEF Placed, OnLead
        <5>2. QED
          BY <3>2, <4>2, <4>3, <5>1
      <4>5. OnLead(call'[u]) /\ (call'[u].at # "pop" <=> call[u].at # "pop")
        BY <2>2, <4>2, <4>3 DEF Proceeds, Keeps
      <4>6. floor'[q] = floor[q]
        BY <3>1, <4>4
      <4>7. QED
        BY <1>2, <4>2, <4>5, <4>6 DEF FlightFine, At, u
    <3>10. QED
      BY <1>3, <3>4, <3>5, <3>6, <3>7, <3>8, <3>9 DEF JInv
  <2>6. \/ UNCHANGED floor
        \/ c.alone /\ NoneOlder(c.since) /\ floor' = [floor EXCEPT ![p] = c.since]
    BY <1>0 DEF RemovedL2
  <2>7. QED
    BY <2>4, <2>5, <2>6
<1>6. QED
  BY <1>4, <1>5

-----------------------------------------------------------------------------
(* The world around *)

\* A newer source outdates nothing that was not invalidated.
LEMMA SourceFine ==
  ASSUME IInv, JInv, SourceChanges
  PROVE  JInv'
<1>1. /\ version \in Nat /\ version' = version + 1 /\ version' \in 0..MaxVersion
      /\ UNCHANGED <<l1, l2, lease, flights, call, floor>>
  BY DEF SourceChanges, JInv, Floors
<1>2. \A p \in Processes : floor[p] \in 0..version
  BY DEF JInv, Floors
<1>3. \A p \in Processes : \A r : Known(r, floor[p], version) => Known(r, floor[p], version')
  BY <1>1, <1>2 DEF Known
<1>4. Floors' /\ LeaseFine'
  BY <1>1 DEF JInv, Floors, LeaseFine
<1>5. TiersFine'
  <2>1. Known(l2, 0, version')
    BY <1>1 DEF JInv, TiersFine, Known
  <2>2. QED
    BY <1>1, <1>3, <2>1 DEF JInv, TiersFine
<1>6. StoresFine'
  BY <1>1, <1>2 DEF JInv, StoresFine
<1>7. FlightsFine'
  BY <1>1, <1>2 DEF JInv, FlightsFine, FlightFine, At
<1>8. CallsFine'
  <2>1. SUFFICES ASSUME NEW t \in Threads PROVE Fine(call[t], floor[ProcessOf[t]], version')
    BY <1>1 DEF CallsFine
  <2>2. Fine(call[t], floor[ProcessOf[t]], version) /\ ProcessOf[t] \in Processes
    BY Facts
  <2>3. QED
    BY <1>1, <1>2, <1>3, <2>2 DEF Fine
<1>9. AloneFine'
  <2>1. \A t \in Threads : Known(l2, call[t].since, version) => Known(l2, call[t].since, version')
    BY <1>1, Sources DEF Known
  <2>2. \A t \in Threads : NoneOlder(call[t].since) => NoneOlder(call[t].since)'
    BY <1>1 DEF NoneOlder, Unstored
  <2>3. QED
    BY <1>1, <2>1, <2>2 DEF JInv, AloneFine, At
<1>10. QED
  BY <1>4, <1>5, <1>6, <1>7, <1>8, <1>9 DEF JInv

\* A record that ages, or goes, is not outdated by it.
LEMMA AgesFine ==
  ASSUME IInv, JInv, RecordAges
  PROVE  JInv'
<1>. DEFINE Old(r) == [r EXCEPT !.stale = TRUE]
<1>1. UNCHANGED <<version, lease, flights, call, floor>>
  BY DEF RecordAges
<1>2. \A r, f : r # NoRecord /\ Known(r, f, version) => Known(Old(r), f, version)
  BY DEF Known, Records
<1>. HIDE DEF Old
<1>3. /\ LeaseFine' /\ FlightsFine'
  BY <1>1 DEF JInv, LeaseFine, FlightsFine, FlightFine, At
<1>4. TiersFine' /\ \A p \in Processes : l1[p] = NoRecord => l1'[p] = NoRecord
  <2>1. CASE UNCHANGED l1 /\ l2 # NoRecord /\ l2' \in {NoRecord, Old(l2)}
    BY <1>1, <1>2, <2>1 DEF JInv, TiersFine, Known
  <2>2. ASSUME NEW p \in Processes, l1[p] # NoRecord, UNCHANGED l2,
               NEW r \in {NoRecord, Old(l1[p])}, l1' = [l1 EXCEPT ![p] = r]
        PROVE  TiersFine' /\ \A q \in Processes : l1[q] = NoRecord => l1'[q] = NoRecord
    <3>1. DOMAIN l1' = Processes /\ l1'[p] = r /\ \A q \in Processes \ {p} : l1'[q] = l1[q]
      BY <2>2 DEF JInv, TiersFine
    <3>2. Known(r, floor[p], version)
      BY <1>2, <2>2 DEF JInv, TiersFine, Known
    <3>3. QED
      BY <1>1, <2>2, <3>1, <3>2 DEF JInv, TiersFine
  <2>3. QED
    BY <2>1, <2>2 DEF RecordAges, Old
<1>5. \A u \in Threads : call'[u].alone =>
         /\ PastMemory(call'[u]) => l1'[ProcessOf[u]] = NoRecord
         /\ call'[u].at = "commitL2" => Known(l2', call[u].since, version) /\ NoneOlder(call[u].since)
  <2>1. l2' \in {l2, NoRecord} \/ (l2 # NoRecord /\ l2' = Old(l2))
    BY DEF RecordAges, Old
  <2>2. \A f : Known(l2, f, version) => Known(l2', f, version)
    BY <1>2, <2>1 DEF Known
  <2>3. QED
    BY <1>1, <1>4, <2>2 DEF JInv, AloneFine, At
<1>6. QED
  BY <1>1, <1>3, <1>4, <1>5, AllGo

\* A crash leaves the process nothing.
LEMMA CrashFine ==
  ASSUME IInv, JInv, NEW p \in Processes, Crash(p)
  PROVE  JInv'
<1>1. /\ l1' = [l1 EXCEPT ![p] = NoRecord] /\ flights' = [flights EXCEPT ![p] = NoFlight]
      /\ \A u \in Threads : call'[u] = IF ProcessOf[u] = p THEN Idle ELSE call[u]
      /\ lease' = (IF lease.owner = p THEN [lease EXCEPT !.owner = Gone] ELSE lease)
      /\ UNCHANGED <<version, l2, floor>>
  BY DEF Crash
<1>2. LeaseFine'
  <2>1. lease'.owner \in {lease.owner, Gone} /\ lease'.valid = lease.valid
    BY <1>1 DEF IInv, Shapes
  <2>2. QED
    BY <2>1 DEF JInv, LeaseFine
<1>3. DOMAIN l1' = Processes /\ l1'[p] = NoRecord /\ \A q \in Processes \ {p} : l1'[q] = l1[q]
  BY <1>1 DEF JInv, TiersFine
<1>4. TiersFine'
  BY <1>1, <1>3 DEF JInv, TiersFine, Known
<1>5. flights'[p] = NoFlight /\ \A q \in Processes \ {p} : flights'[q] = flights[q]
  BY <1>1 DEF IInv, Shapes
<1>6. \A q \in Processes \ {p} : FlightFine(q)'
  BY <1>1, <1>5, OtherFlights
<1>7. FlightsFine'
  BY <1>5, <1>6 DEF FlightsFine, FlightFine
<1>8. ASSUME NEW u \in Threads
      PROVE  \/ call'[u] = call[u]
             \/ Goes(call'[u], call[u], floor[ProcessOf[u]], version)
  <2>1. CASE ProcessOf[u] = p /\ call[u].at # "idle"
    BY <1>1, <2>1, Facts, IdleFine DEF Goes
  <2>2. CASE ~(ProcessOf[u] = p /\ call[u].at # "idle")
    BY <1>1, <2>2, Facts DEF Fine
  <2>3. QED
    BY <2>1, <2>2
<1>9. \A u \in Threads : call'[u].alone =>
         /\ PastMemory(call'[u]) => l1'[ProcessOf[u]] = NoRecord
         /\ call'[u].at = "commitL2" => Known(l2', call[u].since, version) /\ NoneOlder(call[u].since)
  <2>1. ~Idle.alone
    BY DEF Idle
  <2>2. QED
    BY <1>1, <1>3, <2>1 DEF JInv, AloneFine, At
<1>10. QED
  BY <1>1, <1>2, <1>4, <1>7, <1>8, <1>9, AllGo

-----------------------------------------------------------------------------
(* Theorems *)

LEMMA BeginsFine == Init => JInv
<1>1. SUFFICES ASSUME Init PROVE JInv
  OBVIOUS
<1>. USE DEF Init
<1>2. version = 0 /\ \A p \in Processes : floor[p] = 0
  BY <1>1
<1>3. Floors
  BY <1>1 DEF Floors
<1>4. \A t \in Threads : call[t] = Idle /\ ProcessOf[t] \in Processes
  BY <1>1
<1>5. Fine(Idle, 0, 0) /\ ~MayStore(Idle) /\ ~Idle.alone
  BY IdleFine
<1>6. CallsFine /\ StoresFine /\ AloneFine
  BY <1>2, <1>4, <1>5 DEF CallsFine, StoresFine, AloneFine
<1>7. TiersFine /\ FlightsFine
  BY <1>1 DEF TiersFine, Known, FlightsFine, FlightFine
<1>8. LeaseFine
  BY <1>1 DEF LeaseFine, NoLease
<1>9. QED
  BY <1>3, <1>6, <1>7, <1>8 DEF JInv

LEMMA NextKeepsFine == IInv /\ JInv /\ [Next]_vars => JInv'
<1>1. SUFFICES ASSUME IInv, JInv, [Next]_vars PROVE JInv'
  OBVIOUS
<1>2. ASSUME NEW t \in Threads,
             (\E m \in Modes \cap CallsOf[t] : Begin(t, m)) \/ (\E m \in Removals \cap CallsOf[t] : BeginRemoval(t, m))
      PROVE  JInv'
  BY <1>1, <1>2, BeginFine
<1>3. ASSUME NEW t \in Threads, Step(t) PROVE JInv'
  BY <1>1, <1>3, LookupFine, ComputeFine, StoreFine, LeaseStep, JoinFine, SettleFine, PopFine, RemovalFine, DropFine
     DEF Step
<1>4. CASE SourceChanges \/ RecordAges \/ LeaseExpires
  BY <1>1, <1>4, SourceFine, AgesFine, ExpireFine
<1>5. ASSUME NEW p \in Processes, Crash(p) PROVE JInv'
  BY <1>1, <1>5, CrashFine
<1>6. CASE UNCHANGED vars
  BY <1>1, <1>6 DEF vars, JInv, Floors, CallsFine, StoresFine, TiersFine, AloneFine, FlightsFine, FlightFine,
     LeaseFine, At, NoneOlder, Unstored
<1>7. QED
  BY <1>1, <1>2, <1>3, <1>4, <1>5, <1>6 DEF Next

LEMMA FinenessHolds == Spec => []JInv
BY BeginsFine, NextKeepsFine, InvariantHolds, PTL DEF Spec

\* Records hold versions that there were, and a flight has a leader in its
\* process that is on its way, through every failure, expiry and crash.
THEOREM TypeCorrect == Spec => []TypeOK
<1>1. IInv /\ JInv => TypeOK
  <2>1. SUFFICES ASSUME IInv, JInv PROVE TypeOK
    OBVIOUS
  <2>2. version \in 0..MaxVersion /\ floor \in [Processes -> 0..version]
    BY <2>1 DEF JInv, Floors
  <2>3. NoRecord \in Records /\ NoRecord.value <= version
    BY <2>2 DEF NoRecord, Records, Results, Raised
  <2>4. \A r \in {l2} \cup {l1[p] : p \in Processes} : r \in Records /\ r.value <= version
    <3>1. \A f \in 0..version : \A r : Known(r, f, version) => r \in Records /\ r.value <= version
      BY <2>2, <2>3 DEF Known
    <3>2. Known(l2, 0, version) /\ \A p \in Processes : Known(l1[p], floor[p], version)
      BY <2>1 DEF JInv, TiersFine
    <3>3. QED
      BY <2>2, <3>1, <3>2
  <2>5. ASSUME NEW p \in Processes, flights[p] # NoFlight
        PROVE  /\ flights[p].result \in Results \cup {Pending}
               /\ ProcessOf[flights[p].leader] = p
               /\ flights[p].result = Pending <=> ~At(flights[p].leader, "pop")
               /\ call[flights[p].leader].at \notin {"idle", "join", "follow"}
    <3>. DEFINE u == flights[p].leader
    <3>1. /\ u \in Threads /\ ProcessOf[u] = p /\ OnLead(call[u])
          /\ flights[p].result = Pending <=> ~At(u, "pop")
          /\ flights[p].result \in {Pending, Raised} \cup floor[p]..version
      BY <2>1, <2>5 DEF JInv, FlightsFine, FlightFine
    <3>2. call[u].at \notin {"idle", "join", "follow"}
      BY <2>1, <3>1, Facts DEF Placed, OnLead
    <3>3. flights[p].result \in Results \cup {Pending}
      BY <2>2, <3>1 DEF Results
    <3>4. QED
      BY <3>1, <3>2, <3>3
  <2>6. ASSUME NEW t \in Threads
        PROVE  /\ call[t].at \in Places /\ call[t].value \in Results
               /\ {call[t].record, call[t].stale} \subseteq Records
               /\ call[t].lease \in {"none", "held", "lapsed"}
               /\ call[t].since \in 0..version
    <3>1. Fine(call[t], floor[ProcessOf[t]], version) /\ floor[ProcessOf[t]] \in 0..version
      BY <2>1, Facts
    <3>2. QED
      BY <2>2, <2>3, <3>1 DEF Fine, Known, Results
  <2>7. QED
    BY <2>1, <2>2, <2>4, <2>5, <2>6 DEF TypeOK, JInv, LeaseFine
<1>2. QED
  BY <1>1, InvariantHolds, FinenessHolds, PTL

\* No call of a process answers with an older version than that of an
\* invalidation which no call of the process overlapped, whose tags found what
\* memory had, and beside which no older computation may store once SQLite's
\* records are deleted, or were found to be none; whatever ages, expires,
\* crashes or is computed later, in this process or another.
THEOREM InvalidationsStick == Spec => []InvalidationSticks
<1>1. JInv => InvalidationSticks
  BY DEF JInv, CallsFine, Fine, InvalidationSticks
<1>2. QED
  BY <1>1, FinenessHolds, PTL
=============================================================================
