# A TLA+ development of the chatman-ecosystem runtime

This directory holds TLA+ modules that model the Rust runtime of the repository and the
planning and caching core of its Python package `autofde_lab`, TLC configurations that
check them on small instances, and proofs that TLAPS checks for every instance. Every definition is translated from the code; `PROJECT.json` maps each one to
the lines it stands for.

Run a check with `tlc -config MCBrce.cfg MCBrce`, and the proofs with
`tlapm BrceProofs.tla` (and every other `*Proofs` module, and `NaturalSets`).

## 1. The system

The repository is large (13,454 files), but most of it is data, documentation, generated
projections and vendored material. Behaviour that can go wrong in more than one step lives
in the four Rust crates, and in the parts of `autofde_lab` that execute workflow models and
share computations between threads and processes. Paths below are relative to the repository;
`AL` is `platform-console/services/autofde-lab-mcp/src/autofde_lab`.

| Component | Source | State it keeps | Operations | Modelled in |
|---|---|---|---|---|
| DfCM kernel | `crates/hditc/src/lib.rs` 58-621 | none: values with digests | `Candidate::project`, `dfcm_frontier`, `AuthorityGrant::verify_for`, `PreparedDo::prepare`, `PreparedDo::verify` | `Dfcm`, `DfcmSearch` |
| BRCE executor | `crates/hditc/src/lib.rs` 623-955 | journal: reservations, receipts | `execute`, `reserve`, `finalize`, `replay` | `Brce`, `BrceLaw`, `BrceProofs` |
| Governor runtime | `crates/ecosystem-runtime/src/lib.rs` 218-319 | completed results by key; the fields of each job | `execute` | `Governor` |
| Commerce ledger | `crates/ecosystem-runtime/src/commerce.rs` | commercial state, entitlement, totals, receipt chain, idempotency table | `observe` (8 kinds of event), 7 local calls, `replay_verify` | `Commerce` |
| POWL language | `AL/powl/algebra.py`, `frequency.py`, `identity.py`, `semantics.py` | none: trees | constructors, `language`, `enabled_labels` | `Powl` |
| POWL executor and checks | `AL/powl/executor.py`, `conformance.py`, `membership.py` | none: markings are values | `enabled`, `fire`, `is_final`, `classify_stall`, `replay`, `check_ocel_conformance`, `trace_in_language` | `PowlExecutor`, `PowlMembership` |
| Agent session | `AL/agent/session.py`, `epoch.py`, `ledger.py`, `bridge.py`, `replan.py`, `AL/utils.py` 690-750 | stack of epochs, two-phase ledger, pending intent, receipts | `open_epoch`, `replan`, `step`, `advance`, `seal_epoch`, `close` | `AgentSession`, `AgentSessionProofs` |
| Cache fabric | `AL/_cache/coordinator.py`, `stores.py` | memory tier and flights per process; shared SQLite records and leases | `execute_with_receipt` in five modes, `invalidate`, `clear` | `CacheFabric`, `CacheProofs` |
| Cache layers | `AL/_cache/domain.py`, `governance.py`, `enterprise.py`, `rollout.py`, `quotas.py`, ... | breaker, quotas, rollout stage, provenance file | admission around the fabric | not modelled |
| POWL guard executor, pipeline runner, mutations, bridges | `AL/powl/guard_executor.py`, `runner.py`, `mutations.py`, `*_bridge.py` | traces, files | guarded execution, one fixed pipeline, edits, conversions | not modelled |
| AutoFDE universes, OFMF, builders, hub | `AL/reasoning`, `AL/ofmf`, `AL/builders`, `AL/hub` | none shared | tables of cases, planner domains, adapters | not modelled |
| StateStore | `crates/ecosystem-runtime/src/lib.rs` 30-213 | versioned records, in memory or in SQLite | `put`, `get` | not modelled yet |
| MCP boundary, connectors | `crates/ecosystem-runtime/src/lib.rs` 322-530 | tool registry; none | admission of a tool call; fetch | not modelled |
| Agent Lightning service | `crates/ecosystem-runtime/src/agent_lightning_service.rs` | entitlement, quotas, jobs, receipts | bind, events, admit, authorize, reconcile | not modelled yet |
| Agent Lightning commercial plane | `crates/ecosystem-runtime/src/agent_lightning_commercial_plane.rs` | identities, runs, meterings, settlements; a registry file | admit and authorize a run, meter, settle; save and load | not modelled yet |
| Gall | `crates/gall/src/lib.rs` | policy, broker sessions, gateway | grant, invoke, receipt; WASM host | not modelled yet |
| Ecosystem core | `crates/ecosystem-core/src/lib.rs` | none: values | standing, authority, transitions, receipts, crown report | not modelled yet |
| CLI, platform console, scripts | `apps/`, `platform-console/`, `scripts/` | files, external services | | not modelled |

How they interact. The core crate supplies `Authority`, `Standing`, `ExactSubject` and
`Receipt` to all the others. `hditc` is a closed loop: a `World` is observed, candidates
are projected over a copy of it, one is prepared under a grant into a `PreparedDo`, the
executor reserves a receipt in the journal, calls the actuator, observes, reconciles and
finalizes. The governor runs any asynchronous operation once per idempotency key. The
commerce ledger consumes provider observations and emits chained receipts; the Agent
Lightning service takes an entitlement from one of those receipts, and the commercial plane
composes the two.

In `autofde_lab`, a session plans with POWL trees: the executor says what may run next, a policy
samples an action, the bridge resolves it to one enabled leaf and writes an intent to the ledger, the
domain acts, and the rollout's callback fires the leaf and commits. A replan opens a
new epoch over a new tree and seeds it with the ledger's committed work. A domain may be wrapped by
the cache fabric, which decides whether a call of a method is computed, and shares the result
between threads (flights) and processes (SQLite).

What is hard in each, and what makes it correct:

* **BRCE.** Every `await` of `execute` lets other callers, a moving world, a journal failure
  or a cancellation in. `PreparedDo` and `ReceiptReservation` are cloneable, serializable and have
  public fields, so a carrier may be executed twice, late, or altered, and a reservation may be sealed
  by a caller instead of by `prepare`. Correct means: nothing is actuated without
  a durable reservation that binds exactly what was actuated; nothing is Done that was not
  acknowledged and observed; what the journal holds never changes; answers and recovery
  handles are borne out by it.
* **DfCM.** Mutations are ordered and refused when stale; the frontier must contain every
  lawful option, no other, in an order that does not depend on arrival.
* **Governor.** The lookup of a key and the recording of its result are two critical sections
  with an operation, bounded by five seconds, in between.
* **Commerce.** Providers repeat and reorder; the handlers write fields before `apply`
  decides; amounts saturate.
* **POWL.** A marking keeps completed leaves, cursors, round and visit counters of nested
  composites, and purges them in an order. Three accounts of one tree - the executor, the language
  and the static check - were written apart and must agree.
* **Session.** Between intent and commit the domain may act, raise, or the process may die. A replan
  turns the history of one tree into the initial marking of another.
* **Cache.** A lookup is two tiers, a store is two tiers, a removal is two tiers, SQLite itself is asked in
  several statements, and everything else may happen in between; leases expire under their holders; followers wait
  without a timeout.

`PROJECT.json` lists the hazards, each at its line with the properties that would
catch it, or the reason why none does.

## 2. Modules

| Module | Role |
|---|---|
| `Dfcm` | The pure operators: constraints, projection with its refusals in order, the frontier, grant verification, admission (`Admits`), carrier verification (`Verifies`). A digest is the value it digests. |
| `DfcmSearch` | A search over `Dfcm`: offer candidates, observe a new world. |
| `DfcmProofs` | Ranks, stable sorts, folded mutations, and the theorems about the frontier. |
| `BrceLaw` | The abstract promise, per reservation: reserve, attempt, conclude. |
| `Brce` | `execute` by any number of callers, one action per stretch between awaits, over a journal that may fail before or after it stores; also `prepare`, carriers that callers alter or seal themselves, and world drift. |
| `BrceProofs` | The inductive invariant and the theorems about `Brce`. |
| `Governor` | `execute` by any number of jobs over one table of results. |
| `GovernorProofs` | What a key answers, for any number of jobs. |
| `Commerce` | `CommerceLedger`, one action per handler. |
| `CommerceProofs` | The ledger replays, and its money is receipted usage. |
| `NaturalSets` | Induction stated of a set of natural numbers, and sums defined by recursion. |
| `Powl` | Trees as functions from paths to nodes, their language up to `MaxUnrolls`, the labels that may come first. |
| `PowlExecutor` | Markings, enabling, firing, stalls, replay, and token replay of observed events. |
| `PowlExecutorProofs` | What is enabled, what a fire enters and which rounds it closes, that runs replay and never deadlock, for every tree; that constructors make trees. |
| `PowlMembership` | The static check of a trace against a tree whose composites run once. |
| `AgentSession` | One session after the other over one ledger: one action per call, and per stretch of a rollout between the policy, the domain and the callback. |
| `AgentSessionProofs` | The ledger is written ahead; types; loops are capped; records replay; traversals go on. |
| `CacheFabric` | One key of the cache: threads of several processes, two tiers, flights, leases. |
| `CacheProofs` | Leases and exclusive constructions; types, and invalidations that stick. |
| `MC*` | Small instances. |

### Correspondence

`Brce`: `pc[c]` is the await at which the call of caller `c` stands.

| Phase | Point in `execute` (hditc lib.rs) | Left by |
|---|---|---|
| `reserving` | 784, `reserve` is awaited | `Reserve`, `ReserveCollides`, `ReserveFails` |
| `reserved` | 787, `actuate` is awaited | `Actuate` |
| `actuated` | 788, `observe` is awaited | `Observe`, which also does 790-853: no await is left until `finalize` |
| `sealed` | 937, first lock of `finalize` | `FinalizeLookup` |
| `storing` | 945, second lock of `finalize` | `FinalizeStore`, `FinalizeConflicts`, `FinalizeFails` |

`Cancel` leaves any of them: a future dropped or a process that dies. The journal
survives, as the contract of the `ReceiptJournal` trait ("durably reserves") asks of an
implementation. `ReserveFails` and `FinalizeFails` are what an implementation over real
storage may do; `MemoryReceiptJournal` itself only has the other ones. `Drift` and the effect of `Actuate` are the
actuated system. `selfSealed`, `actuated`, `acked` and `handles` are history.

`Prepare`, `Alter` and `Reseal` are the callers who hold carriers. Both structures are public data, and the digest of a
reservation can be computed anew, so the constant `Altered` may be any set of carriers: `Alter` circulates one under a
reservation that is in circulation already, with another candidate, grant, postconditions or projection, and `Reseal` one
whose reservation the caller sealed. `PreparedDo::verify` (593-621) compares a reservation with its carrier in every field but two: nothing is
compared with its `before_digest` and its `id`. A reservation that a caller sealed over a world that never admitted it, or under the id of
another, therefore verifies and is actuated, in the model as in the code (`selfSealed`). One whose own digest does not
match is refused by `verify` before anything changes and is left out.

`Governor`: `pc[j]` is the call that borrows job `j`: `looking` waits for the lock at 285-289,
`running` is in the operation at 298, `recording` waits for the lock at 300-302. The
timeout covers the operation only. `succeeded`, `answers` and `raced` are history.

`Commerce`: the variables are the fields of `CommerceLedger` except `context` (constants) and
`plan` (no decision reads it beyond its being blank, which is the field `named` of an
observation). Each handler writes the fields that its code writes before
it calls `apply`, and these writes stay when `Apply` refuses. Derived keys are tuples
`<<prefix, event>>`. Every handler passes the authority that its receipt kind requires, so
that check of `apply` cannot fail and is left out. The ledger is borrowed mutably: no calls
interleave.

`AgentSession` extends `PowlExecutor` and `PowlMembership`, which extend `Powl`; these three have no
variables. A path counts children from 1, the program from 0. A digest
is what it digests: an activity is its label, an epoch's identity is its index, tree and lineage.
`call.at` is where the call in progress stands:

| Place | Point in the code | Left by |
|---|---|---|
| `idle` | no call; also a session that is closed, since only `open_epoch` asks (session.py 153) | every call, `Crash` |
| `stepping` | session.py 311, the intent of `step` is written | `StepFire`, `StepRefused` |
| `sampling` | utils.py 700, the policy is asked | `SampleAction`, `SampleUnresolved`, `SampleRefused`, `AtEpisodeEnd` |
| `acting` | utils.py 703, the domain has the action | `DomainStep`, `DomainRaises` |
| `committing` | utils.py 722 or 748, the callback | `AtEpisodeStep`, `CommitRaises` |
| `down` | the process died; the ledger is left | `Resume`, if nothing is outstanding |

The last commit of a rollout and the receipt that follows it are one action (`CommitIntent(TRUE)`): no
other party runs in between. Policy and domain are any answer: an action that names one enabled
leaf, several, or none; a termination; an exception before or after the effect. `performed` is
history. The preserve map of a replan is the inferred one (`infer_preserve_map`), validated and seeded as
`agent/replan.py` does.

`CacheFabric`: `call[t].at` is where thread `t` stands in `execute_with_receipt`, `_construct` or
`_store_computed`. Each access to a store is a step, memory and SQLite apart, as are the two
critical sections of the flight table, the lease statements, and the beginning and end of a
computation. SQLite is read and emptied in more than one statement: a lookup reads the row (`LookupL2`), then its tags
(`ReadTags`), so that a row which goes in between is promoted without tags; `invalidate` selects the keys in autocommit
(`SelectL2`), and then deletes only those in a transaction (`DropL2`, or `DropL2Raises` when it fails), so that a record
stored in between stays if there was none before; `clear` counts, and deletes whatever there is. `Missed` is the record without tags that memory keeps
when it is asked to drop by tag. `mode` is what the call was asked for, and once it is past its first lookup, why it
looks again: as holder of the lease (492-496), polling for it (463-487), or as a woken follower
(420-424). The computed value is the version of an outside source at the moment the computation starts.
Other keys show as records that a `PutL1` loses or refuses and as evictions; the clock shows as
`RecordAges`, `LeaseExpires` and `WaitEnds`. `floor`, `since`, `alone`, `outdated` and the distinction of
`held` and `lapsed` are history.

## 3. Runs

| Run | Question | Bounds | Result |
|---|---|---|---|
| `dfcm_search` | Is the frontier maximal, sound, deterministic, undisturbed by failing candidates and by lost knowledge? | every sequence of up to 3 of 12 candidates over 5 worlds | passes, 9,425 states |
| `brce` | Do racing, failing, cancelled executions of altered and self-sealed carriers keep the journal's promises? | 2 callers, 2 executions, 2 carriers, 5 worlds, 2 candidates, 4 grants, 2 sets of postconditions, 6 carriers that callers alter (each field once) or seal; all ids collide; callers symmetric | passes, 394,996 states |
| `brce_law` | Does the executor implement `BrceLaw`, and does a sealed call end? | 2 callers, 2 executions, 2 carriers, 3 worlds, 1 candidate, 2 grants with an id for each, 1 carrier sealed under the id of the other grant; no symmetry | passes, 67,276 states |
| `governor` | What may a key answer, and does every call end? | 4 calls over 4 jobs, two of them with one key, one with none | passes, 38,097 states |
| `governor_duplicates` | Is an operation repeated under one key? | 2 calls | violated |
| `commerce` | Does the ledger replay, receipt once, and keep money within usage? | 17 events, blank ones among them, 3 caller keys of which one is a derived key too, `MaxU64` = 3, at most 11 receipts | passes, 447,567 states |
| `commerce_credits` | Is every credit receipted? | fewer events | violated |
| `commerce_fulfillment` | Is every fulfillment entitled by its receipts? | 4 receipts | violated |
| `agent_session` | Do executor, language, static check, records, seeds and ledger agree, whatever policy, domain and crashes do? | 4 trees over 3 activities, 2 epochs, 5 intents, 4 fires, 2 visits, 1 fault | passes, 392,283 states |
| `agent_session_rejected` | Does a rejected step leave a ledger that can be resumed? | the same | violated |
| `cache_fabric` | Who computes, who holds the lease, and which version may answer? | 3 threads in 2 processes, 3 calls of every mode and removal, 1 change of the source, 1 fault | passes, 1,788,052 states |
| `cache_liveness` | Does every call end? | 3 threads in 2 processes, 3 calls that compute, 1 fault | passes, 126,454 states |

**Why the bounds are enough.** A candidate interferes with another one only through the sort and
the exclusion list, so three candidates see every relation of two and one bystander. Two callers
are enough for every race on a journal slot: a slot is written once, and a third caller meets what
the second did. The colliding instance makes every pair of reservations contend; the distinct one
shows reservations under different grants apart, and one that a caller put under the id of another. In `commerce` a full life takes nine receipts; eleven leave
room for credits, refunds or status changes, and `MaxU64` = 3 makes price and totals saturate.
Four calls under one key let a race be followed by a replay and a retry.

The four trees of `agent_session` have, between them, an order that a replan may violate, a composite that repeats, a
choice below an order, and a loop inside an unbounded repetition - each the smallest of its kind; the
largest completed run has four fires, and in the loop the bound of four is met with leaves still enabled, which
`agent_session_rejected` needs. Two epochs are one replan; a second one starts from the same
kind of marking. `MaxUnrolls` = 3 exceeds what 4 fires under 2 visits can run of any loop, so that the bounded language
holds every word an epoch can reach.

In `cache_fabric`, three calls are a leader, a follower of it or an invalidation beside it, and a contender for the lease
in another process; a lease that expires or is cleared while its holder computes, then taken by another process and again
by a third call, is within them, and so is a crash of a holder. A record that a memory tier loses or refuses costs no
fault. One change of the source tells old from new. The three calls of an invalidation that does
not stick are a computation in one process, the invalidation in another, and a call that answers: its select and delete around the store of the first are among the
states, and so is a row that goes before its tags are read. A call that meets such a record after an invalidation by its tags would be
the fourth, and is left to the proof of `InvalidationSticks`. `cache_liveness` leaves the change out, which no wait depends on.

**Deadlock.** `CHECK_DEADLOCK FALSE` is given where the system may rest: a ledger a
governor, a session or a cache with no calls left to come under the bounds, a session whose ledger cannot be resumed. `Brce` and `DfcmSearch` are never stuck,
because the world may always move.

**Fairness.** `Brce` assumes weak fairness of the two critical sections of `finalize` only:
they hold in-memory locks across no await. Nothing is assumed of the actuator, and `SealedCallsEnd`
therefore starts at the sealed receipt. `Governor` assumes it of the critical sections and of the
timer (`tokio::time::timeout`), not of the operation, which may hang for ever. Callers never
have to call, nor to stay: `Cancel` is always possible, and never fair.

`CacheFabric` assumes weak fairness of the steps of each thread inside a call: threads are
scheduled, SQLite statements answer (they have a busy timeout), and computations return or raise - the
fabric bounds none of them, so `CallsEnd` says what the fabric itself adds: no wait of its own is endless.
It assumes strong fairness of `WaitEnds`, because a call polls in turns (465, 483) and the deadline
(463-464) passes between two of them, however often the poll itself is enabled first. Nobody has to call; no expiry, crash
or change of the source is assumed. `AgentSession` states no fairness: callers decide whether anything goes on, and
that a traversal can always be continued, up to the bounds, is the invariant `OnlyBoundsStopATraversal`, which is also proved.

### What the violations show

* `governor_duplicates` - `docs/OPERATIONS.md:84`: "Duplicate idempotency keys replay the prior
  outcome rather than silently repeating the effect." Two jobs with one key that run at
  the same time both pass the lookup (lib.rs 285-295) before either records (300-303). The run
  `governor` shows what does hold: no answer without an operation, one answer unless operations
  overlap, nothing started once a result is recorded.
* `commerce_credits` - `docs/MARKETPLACE-COMMERCE.md:29`: "zero unreceipted commercial
  transitions". `credits_micros` grows (commerce.rs 531) before `apply` recognises the key.
  `AdjustmentsWithinSettlement` shows that the error is on the safe side: it never
  gives back more than was settled.
* `commerce_fulfillment` - `docs/MARKETPLACE-COMMERCE.md:28`: "zero unentitled fulfillment". A
  repeated entitlement notification sets `entitlement` to Active (348) before `apply` answers it from
  the table, after a revocation too.
* `agent_session_rejected` - `AL/agent/session.py:299`: "checked before the intent is written, so a
  rejected step cannot leave the ledger unresumable". Only enabledness is checked before. `fire` (311) comes
  after `intend` (308) and raises `BOUND_EXHAUSTED` at the bounds, which `enabled` does not look
  at: the intent stays outstanding, and no later step, advance, close or session over that ledger is possible.

### What the passing runs leave open, on purpose

Each of these is behaviour of the code that the models have, and that a property excludes by name rather than denies.

* `SeededEpochsStayInLanguage` is about trees of partial orders that need one round at most. With a choice,
  `validate_preserve_map` accepts two exclusive branches as preserved; with a composite that must
  repeat, a seed whose body is complete but whose rounds are zero has nothing enabled; with one that may not run
  at all (`max` = 0), a seed that preserves any of it can neither finish nor go on.
* `OnlyBoundsStopATraversal` is about trees that are `Continuable`. An order that must run twice, and all of whose children may be
  skipped, is complete below before anything ran: nothing is ready, no fire can close a round, and the traversal stops
  though no bound was met. The constructors and `validate_model` accept such a tree, and also
  a choice graph with a child that may not run at all, where the executor may find no leaf to enter.
* The trees of `agent_session` put no skippable or repeatable composite inside a partial order: the executor
  passes such a child as soon as it may be skipped, while the language also has the words in which it runs.
* `InvalidationSticks` is about invalidations that return, with no call of the process beside them, and no older computation
  still on its way to a store when SQLite deletes: neither `put` nor the promotion of a record compares ages, so that such a
  computation stores its older value after the invalidation. If SQLite had nothing to delete, there must be no such
  computation from the select on (stores.py 618), because the transaction deletes only the keys that were found: what another process stores between the
  two survives, and answers later calls. And an invalidation by tags must find the tags of what memory has: a record promoted by a lookup whose
  row went before its tags were read (470) has none, and memory keeps it.
* `OnlyAdmittedActuation` says *admitted by `prepare`* only of what is actuated under a reservation of `prepare`'s, whatever else of the
  carrier was altered. Under a reservation that a caller sealed, nothing says that the world it binds ever admitted the
  candidate; what remains is a valid subject, a key, and a grant that covers the candidate. Its journal entry, its Done and its replay are
  held to everything else: `ZeroUnreceiptedActuation`, `DoneIsEarned` and the others make no such exception.
* `ComputationsAreExclusive` lets two processes compute at once when one gave up its wait, or its lease expired
  or was cleared: the code says so with `lease_timeout`.
* The first half of `RecordsReplay` excludes runs in which a domain step raised: the pending intent is then committed by a
  later advance, with the enabled set of the moment it was written, perhaps in a later epoch. Its second half needs no such
  exclusion, since token replay asks only what fired. It is about epochs that started empty, because token replay does, and about
  trees that do not use a label twice (`Unambiguous`), because token replay takes the first of the leaves that a label
  names. That the property waits for calls to end is for the run's sake; the theorem `EveryEpochReplays` does not.

## 4. Proofs

`BrceProofs` proves, for any callers, candidates, grants, worlds, ids and bounds:

| Theorem | Statement |
|---|---|
| `TypeCorrect` | `Spec => []TypeOK` |
| `ZeroUnreceipted` | `Spec => []ZeroUnreceiptedActuation` |
| `OnlyAdmitted` | `Spec => []OnlyAdmittedActuation` |
| `DoneEarned` | `Spec => []DoneIsEarned` |
| `AnswersBorneOut` | `Spec => []AcknowledgedReceiptsAreFinal` |
| `HandlesBorneOut` | `Spec => []RecoveryHandlesAreDurable` |
| `ReplayExact` | `Spec => []ReplayIsExact` |
| `AppendOnly` | `Spec => JournalIsAppendOnly` |
| `ExecutorImplementsLaw` | `Spec => ImplementsLaw` |

The only assumption is `BrceAssumption`: `IdOf` gives what a reservation is made of some id, `Altered` is a set of
carriers, and the "nothing here" values are none of the real ones. Ids may collide arbitrarily, and the fields of an altered carrier need not fit
each other.

None of the invariants is inductive alone. What the journal holds was put there by a call, and a
call carries locals across awaits; so `IInv` adds to the properties: where a call stands,
and what it may therefore rely on (from `reserved` on, its
reservation is durable; from `actuated` on, it was actuated; from `sealed` on, its receipt is of that
reservation, and says Done only if earned) - `CallerInv`; that a call in progress executes a carrier
that verifies (`JobsVerify`); that the reservation of a carrier in circulation was admitted by `prepare`
or sealed by a caller, whatever else of the carrier was altered (`CarriersAdmitted`); that a durable receipt sits under
the id of an actuated reservation (`ReceiptsInv`); and that the world of a subject is of that subject. The proof has one lemma per group of actions, and the
refinement maps each step to a step of the law or a stutter, a Done verdict being lawful only if `Earned`.

`AgentSessionProofs` proves, for any trees, steps, faults and bounds:

| Theorem | Statement |
|---|---|
| `LedgerIsWrittenAhead` | `Spec => WriteAhead` |
| `TypeCorrect` | `Spec => []TypeOK` |
| `LoopsStayCapped` | `Spec => []LoopsAreCapped` |
| `RecordsSuffice` | `Spec => []RecordsReplay` |
| `EveryEpochReplays` | `Spec => [](\A e \in Range(epochs) : EpochReplays(e, faults.raises))` |
| `TraversalsGoOn` | `Spec => []OnlyBoundsStopATraversal` |

The first uses no assumption. `LedgerAlternates` - odd lines intend, even lines commit the line before, every effect and
every pending intent is outstanding - is not inductive, because a commit is appended for a token that a call holds.
`IInv` is its two halves (`Alternates`, `Unsettled`), that the ledger is a sequence (`Sequential`), and what the place
of a call says of intents (`CallsIntend`): a call at or after the domain has a pending one, and a
`step` past its intent has written the last line, while nothing else is pending or performed.
What the executor computes plays no part: `Fire` and `Enabled` stay unexpanded.

Types and caps need what the executor computes, which `PowlExecutorProofs` establishes for every tree: LEMMA `FireIs`. A fire that is
not refused is the fire of a leaf; if the parent of the leaf is a choice graph, the visits of the leaf were below
`MaxNodeVisits` and are one more afterwards; those of all other leaves are as before. The code does not say so in one place. `enabled`
skips the cap when the cursor is already on the child ("it was already counted on entry"), and `fire` counts only when it
is *entering*, so that a cursor on a leaf that is not complete would let it run uncounted. That no marking has such a cursor is
`Arrived`: entering a composite leaves the cursor on no leaf, a leaf that is entered is completed by the same fire, a purge that takes a leaf off the record
takes the cursor on it away, and a seed puts the cursor only on a leaf that it preserves. `SessionInv` is `IInv` and, of
every epoch, that its marking fits its tree (`Fits`) and is `Arrived`, that each leaf was entered at least as often as the records show
it fired (`FiresAreCounted`; more often if it was preserved), and below the cap unless it never fired; and of the ledger,
that an intent leaves room for its commit (`LedgerFits`).

`Complete`, `EnabledUnder`, `EnterChoices` and `CloseRounds` are recursive functions, and each must be shown to have a value before anything can be said of
it: by `NaturalInduction` over the distance from the deepest level of the tree (`CompleteSome`, `OfferedSome`) or along the path (`EnteredSome`,
`ClosedSome`). The proof expands one level at a time, so one level is a definition: `NodeComplete`, `Offers`, `Enter`, `Bank`.

Records and traversals rest on one lemma about the session: whatever a step does, every epoch afterwards is one of before, one that begins, or the
current one after one more fire (`Evolves`). While no domain step raised, the enabled set that a fire records is that of the marking it
fires on (`Timely`: a pending intent is only there during the rollout that wrote it). `RecordsInv` says of every epoch that there is a sequence
of markings (`Runs`) from its seed to its marking, each the fire of the one before, and as long as nothing raised, that the records tell what was enabled
(`Telling`). `Replay` and `TokenReplay` are recursive functions whose only solution is that sequence: the second up to `Alike`, because it fires with an empty
context. Markings that differ only in the occurrences they count enable and complete the same (`OffersAlike`, `CompleteAlike`), and their fires are alike again
(`FireAlike`). Where events tell the leaves apart, the candidate that token replay chooses is the leaf that fired.

`TraversalsGoOn` is about *every* traversal, so its invariant says of a marking why it has a next step. `Going`: no composite has more rounds than its
frequency permits, none has begun anything after the last permitted one (`Limited`), and one whose body is complete is one that may bank (`Banked`).
Then a node that is not complete offers a leaf (`OffersOn`), and a node that is looked at with its progress forgotten offers one if it may run
(`OffersAfresh`); both are by induction from the deepest level (`OffersUp`). The case that needs the shape of the tree is an order: of its children that are not complete,
one comes first, since the closure is a strict order on finitely many (`FirstSome`). That a fire keeps `Going` (`FireGoing`) is where the order of the code's own
steps matters. On the way down to the leaf, each composite has room for another round and the next is as it was or without progress (`OnTrack`); on the way up,
those below have banked what they finished and those above still have the room (`Closing`). A composite that banked its last
permitted round has nothing in progress, because banking purges all but its own count.

The assumption `SessionAssumption` says that callers plan with well-formed trees (`WellFormed`, what the constructors refuse; `IsTree`, the shape that nested Python tuples have by themselves), and types the bounds;
`ExecutionBoundAssumption` says that the executor's bounds are natural numbers. That `IsTree` asks nothing of a caller is `ConstructorsMakeTrees` of
`PowlExecutorProofs`: atoms and silent leaves are trees, and so is every order of trees and every choice between trees. Its part about the algebra is `ClosureIs`:
`TransitiveClosure` of edges between n children is the least transitive relation that has them, because a node reaches at least one more with each round until it reaches no
further (`ReachedAll`), and there are n of them.

`CacheProofs` proves, for any processes, threads and bounds, from `CacheAssumption` (each thread has its process; the names
for nobody are nobody's):

| Theorem | Statement |
|---|---|
| `InvariantHolds` | `Spec => []IInv` |
| `LeasesStayBacked` | `Spec => []LeasesAreBacked` |
| `ConstructionsExclude` | `Spec => []ComputationsAreExclusive` |

`IInv` is the shape of calls and flights (`Shapes`), that a call which leads or holds a lease stands between its
lease and its release (`CallsPlaced`), that whoever leads is the leader of its process' flight (`LeadersFly`) - hence there is one
per process - and `LeasesAreBacked` itself. Two holders of one row would have one process, and one process has
one leader: that is `ComputationsAreExclusive`.

The same module then adds its types and the freshness of answers: `TypeCorrect == Spec => []TypeOK` and `InvalidationsStick == Spec => []InvalidationSticks`.
`outdated` is history that says nothing of the stores, so the invariant speaks of *floors*: the version that the last undisturbed
invalidation of a process was about. `JInv` says that nothing a process may still answer with is below its floor: what its memory and
the shared store hold (`TiersFine`), what its flight came to (`FlightsFine`), what its calls carry (`CallsFine`). The part that
was hard to find is `StoresFine`: a computation of *any* process that may still reach the shared store is above *every* floor, which
is what the history variables of an invalidation must ask for, or an older value returns through another process. `AloneFine`
says of a removal that nobody disturbs that memory stays empty between its steps, and that once SQLite had nothing for it to
delete, no older computation may still store, nor has stored: this is what `alone` must ask of `SelectL2`, and why it must ask of `DropL1` that
the tags were found. It adds `MaxVersion \in Nat` to the assumption.

`GovernorProofs` proves, for any set of jobs (an infinite one too) and any assignment of keys:

| Theorem | Statement |
|---|---|
| `TypeCorrect` | `Spec => []TypeOK` |
| `SuccessesAreRecorded` | `Spec => []SuccessIsRecorded` |
| `NoAnswerIsMadeUp` | `Spec => []AnswersAreProduced` |
| `UnracedKeysAnswerOnce` | `Spec => []OneAnswerUnlessRaced` |
| `SuccessIsFinal` | `Spec => SucceededJobsNeverRerun` |
| `CompletionStopsStarts` | `Spec => CompletedKeysStartNothing` |

Between the operation and its recording a result is in no table, so that counting `answers` is not inductive: the invariant counts
`Produced`, the answers and the results that wait for the lock. The other parts are that a call under way has its job Running
(`BusyJobsRun`), that the table has a result for a key exactly when one was answered (`TableAnswers`), and that a key which was never
raced has one operation at most, and none once it has an answer (`OneOperation`, `UnracedAnswersOnce`). The assumption is that the blank
key and the absent result are not real ones.

`CommerceProofs` proves, for any observations, sources, caller keys, amounts, price, `MaxU64` and bound on the ledger:

| Theorem | Statement |
|---|---|
| `TypeCorrect` | `Spec => []TypeOK` |
| `LedgerReplays` | `Spec => []StandingIsReplayable` |
| `NothingIsReceiptedTwice` | `Spec => []ReceiptedOnce` |
| `KeysFindTheirReceipts` | `Spec => []IdempotencyIsExact` |
| `MoneyIsReceiptedUsage` | `Spec => []MoneyFollowsUsage` |
| `AdjustmentsStayWithin` | `Spec => []AdjustmentsWithinSettlement` |

`LedgerInv` is about the receipts: the state has passed every stage that is receipted (`StagesPassed`), and a status that is
receipted has its notification's key in the table (`StatusesKeyed`), which is why none is receipted twice. `MoneyInv` says which totals are
still zero before which stage (`TotalsWritten`), and what the receipt of a usage says of `usage` afterwards (`UsageReceipted`). One lemma states
what `Apply` does to a ledger that satisfies it, and each handler's lemma supplies what the handler wrote before.

The proof corrected two properties. `MoneyFollowsUsage` used to equate the receipted units with the totals in every state. That is
false after a notification that `apply` refuses for a blank field, because the handler has already written its totals, and
after a caller took a key of the form that the ledger derives for a usage (`UsageKeyTaken`): the property now says what holds of these, and the run has
both. `AdjustmentsWithinSettlement` is about settlements below `MaxU64` throughout; at the maximum the guard of a credit passes for any amount, and the totals
saturate below the sum of the receipts. `CommerceAssumption` says that amounts are u64 values, that a digest is
a source receipt, that the price is positive (the constructor refuses zero), and that blanks are not keys.

Sums over receipts are recursive functions. The provers cannot instantiate an induction theorem over predicates, but they can use one
that is stated of a *set*: `NaturalSets` proves `NaturalInduction` from the well-foundedness of the natural numbers, and a set
comprehension takes the place of the predicate.

`DfcmProofs` proves, for any candidates, worlds, dimensions and constraints, and for searches of any length:

| Theorem | Statement |
|---|---|
| `TypeCorrect` | `Spec => []TypeOK` |
| `FrontierHoldsTheLawful` | `Spec => []FrontierIsMaximal` |
| `ArrivalOrderIsIgnored` | `Spec => []FrontierIgnoresArrivalOrder` |
| `IgnoranceAdmitsNothing` | `Spec => []UnknownNeverAdmits` |
| `OptionsSurviveOffers` | `Spec => []OfferKeepsTheFrontier` |

The frontier is a function of a world and of what was offered: `TypeOK` is the inductive invariant, and the work is in what the
function computes. The comparators are strict total orders once ties go to the earlier index (`ScoresOrder`, `IdsOrder`); ranks under such an order number the
sorted indices from 1 without a gap, by counting (`RanksNumber`), so that a stable sort puts each element at its rank (`SortsByScore`, `SortsById`). From
there, a permuted input with distinct ids sorts to the same sequence (`SortsTravel`), and one more element leaves the others in their
order (`SortsMakeRoom`). Which elements are sorted is `LawIs`: the refusals of `project` and of each mutation, in their order, amount to the law that `IsLawful` states item by item,
where the code folds the mutations, each refusing a blank dimension or a stale `before`, and the law asks of every mutation that its dimension is not blank and looks up the last one that touched it (`ProjectionIs`, by `NaturalInduction`).
`SearchAssumption` types the candidates and the worlds: scores are unsigned, ids are totally ordered (strings in the code, numbers here), and a world
says of every dimension that a mutation names what it has there, `NoValue` when it is absent.

**Model-checked only.**

* Liveness: `SealedCallsEnd` of `Brce`, and the `CallsEnd` of `Governor` and of `CacheFabric`. Fairness conditions need ENABLED, which the prover does not reason about.
* Of `AgentSession`: `EpochsStayInLanguage` and `SeededEpochsStayInLanguage`. They compare traces with the *bounded* language, which holds every word that
  an epoch can reach only when `MaxUnrolls` exceeds what the executor's bounds let it run, so that they are not true of every value of the constants. The language
  itself is a recursion over repetitions, and over merges, inside one over nodes.

## 5. Plan

Done: the DfCM kernel, BRCE with its law, the governor, the commerce ledger, POWL with its executor and
sessions, the cache fabric. What is left, the more important first:

1. **Proofs** - a language without `MaxUnrolls`, and that the executor stays in it: the part of `EpochsStayInLanguage` that is true of all bounds.
2. **`Service` and `Plane`** - entitlement binding, job admission against quotas, usage; a run is
   metered at most once across service and plane; the identity store's file under a crash.
3. **`Store`** - a versioned register, and the SQLite store shown to implement it.
4. **`Gall`** - no sequence of requests widens an authority.
5. **Cache layers** - the circuit breaker's half-open slot and the staged rollout over `CacheFabric`.

## 6. Not modelled

Serialization, digests and signatures (a digest is its content), wording of errors, provider payload
parsing, the WASM host, HTTP adapters, the CLI, the web console, the Python generators, and
the documents. The bulk of the Python code by size - fault universes, OFMF, scheduling builders, gym domains, topology
migration, release courts - is tables, definitions and tools that run once, without interleavings, retries or
recovery to explore.

Refusals of size that no bound of the runs reaches: `BoundedPower`, `LabelOptions` and `WellFormed` leave out the limits on the words of a
language (`max_traces`, a finite maximum above `max_unrolls`), on the options of a label (`MAX_LABEL_OPTIONS`) and on the depth of a tree (`MAX_POWL_DEPTH`).

Of the session: preserve maps that a caller writes instead of inferring, redo keys
(`redo_occurrence_key`), an unbounded rollout (`max_steps=None`), rollouts of several episodes, guards of edges and the payload
actions of atoms (the executor ignores both). Of the cache fabric: `BYPASS` and unhashable keys (no state), `replay` of a stored result, policies that switch the flight or the
lease off, statistics, receipts and their sink, codecs, errors of the lease statements, a key whose records are stored with different tags (a record has the tags of its key, or lost them), several keys (a computation that calls the cache for another key may
wait for one that waits for it), SQLite without the memory tier. Of the runner: its batches, of which one step may close
the branch of the next (listed as a hazard). At-most-once actuation of a carrier is not stated: the code does not promise it, and
the actuator receives the idempotency key to provide it.
