# Verification of Jackstay's acquisition arena

Jackstay hands video frames, audio and input between processes on one machine, over
shared memory and file descriptors. These modules model its core, the *acquisition
arena* of the crate `jackstay`: how frames are published, claimed, leased, waited for
and released, and how the memory under them is replaced and given back. TLC checks the
models on small instances; TLAPS proves the central safety properties for every value
of the constants.

`PROJECT.json` lists the components, the runs, one mutant per checked property, the
source lines each definition stands for, the hazards the properties are about, and the
theorems. Source paths below are relative to `crates/jackstay/src/acquisition/`.

## The parts and how they meet

| Part | Source | Modules |
| --- | --- | --- |
| publication, claims, leases, stop | `arena.rs`, `arena/writer.rs` | `ArenaClaims`, abstract `FrameStore` |
| ledger of holding credits and bytes | `../acquisition.rs`, `allocation.rs` | `AdmissionBook` |
| replacing the allocation, shutdown | `arena/reconfiguration.rs`, with `arena.rs`, `arena/cleanup.rs`, `arena/retirement.rs` | `ArenaReconfiguration` |
| deferred (GPU) release, process exit | `arena/retirement.rs`, `arena/cleanup.rs` | `DeferredRelease` |
| coalescing waits | `arena/wait.rs`, `arena/wait/unix.rs` | `ArenaWait` |

A producer owns a table of resources, a control page with the publication ring, and a
claim page per admitted consumer. A consumer acquires a frame by writing its cursor into
a slot of its own page and validating the resource's state afterwards, with no call to
the producer. The producer retires a resource, then scans all pages before it rewrites
it. The ledger decides how many claims can exist, so that the scan finds a resource. An
allocation can be replaced while consumers still use the old one; its bytes go back to
the ledger when no mapping word and no claim names it. A deferred release keeps a claim
until the GPU has passed a value and the consumer has dropped its mapping. A wait sleeps
on a channel that publication, returned credit, reconfiguration and closing write to.

## How the models correspond to the code

The VARIABLES of a module are the shared words and the fields of the structures it is
about; an action is one operation or, where other threads or processes can run in
between, a part of it. The comment of an action names the function.

- `ArenaClaims`. State: `state`, `memory` (the cursor whose bytes a resource holds),
  `ring`, `latest`, `terminal`, the claim pages (`active`, `quiescent`, `slot`), the
  producer's fields and program point, and each acquiring thread's. Producer: `Attach`,
  `Close`, `Stop`, `PollCleanup`, `BeginScan`, `SkipResource`, `Retire`, `CheckClaim`,
  `BeginWrite`, `EndWrite`, `TakeReservation`, `Commit`, `Abandon`, `StoreState`,
  `StoreRing`, `StoreLatest`. Consumer: `AcquireLatest`, `AcquireNext`, `AcquireExact`,
  then `ReadRing`, `ClaimSlot`, `Validate`, `CheckOpen`, `ReadDescriptor` or `Unclaim`;
  `Release`, `DropConsumer`, `EndLifetime`, `Exit`, `ObserveExit`. On the ring, the
  resource states and the claim words every access is a step. Some accesses are taken
  together, each a reduction that loses no behaviour of the properties: the loads at the
  entry of acquire (what is selected there can be arbitrarily stale at `ReadRing`
  anyway), the two loads of `is_closed` (both words only go one way), and the visits of
  a whole page by `collect_quiescent` and `observe_process` (a page that is quiescent or
  whose process is gone has no other writer). `has_mappings`, which `collect_quiescent`
  also asks, belongs to the two modules below.
- `AdmissionBook`. The fields of the ledger and its methods under their own names; a
  call is one step, as it has `&mut self`.
- `ArenaReconfiguration` extends `AdmissionBook`: the ledger in it is the real one. On
  top are the configuration word, the tables of all allocations, the retired ones, the
  pages with their `H + 2` mapping words, and the objects in each consumer's process
  (grant, current mapping, leases, mappings kept by leases and by deferred uses). A
  frame is published, retired or claimed in one step here; that race is `ArenaClaims`'s.
  The calls of the producer are broken up wherever they visit pages or allocations one
  by one. `EndUse` is the end of a CPU reservation, an exported writer or queued GPU
  writes of the producer.
- `DeferredRelease`. One incarnation: its page, the consumer's handle, leases and
  retirement worker (`Retire...`), the producer's observer thread (`Observer...`), a
  backend whose timelines advance and whose callbacks run late, and the host. Each
  owner's poll holds its own mutex and is broken up per slot and, within a slot, where
  the other owner or the backend can run. The mapping words of the consumer are taken
  together in `mapped` (some object in its process keeps a mapping); the word of an
  offered configuration is `offered`. The clearing of the last one wakes the observer
  (`ClearMapping`, `DropOffer`), also after quiescence was acknowledged, since the handle
  drops its lifetime before its resources. Waking and draining a channel is one step
  (only the sleeper reads it). Deadlines end a sleep (`Expire`, `DeadlineWake`);
  otherwise they change only what is reported, except that an expired consumer refuses
  further handoffs. Whether the resources are native is read only when an exit is
  observed, so it is chosen there.
- `ArenaWait`. One waiter (arm, drain, the five loads of the recheck, sleep), the
  producer, threads that return credit, and a canceller. Every load, store and write to
  the channel is a step. The capacity epoch wraps and closes the incarnation, as
  `fetch_add` does; at the end of the other epochs the arena stops. A full channel drops
  the byte, as the non-blocking write does.

`ArenaClaims` implements `FrameStore` (`ImplementsStore`, an INSTANCE with the leases as
refinement mapping): to its users the arena is a store in which a held frame is never
overwritten. Definitions named `X_Something` before `X` are mutants: plausible bugs which
TLC finds when they replace `X`.

## Runs

| Run | Checks | Instance |
| --- | --- | --- |
| `claim_race` | `TypeOK`, `LeaseStable`, `DescriptorAgrees`, `ClaimsTracked`, `ClaimOwned`, `ImplementsStore` | 3 resources, 1 retained frame, two threads of one consumer with one claim slot, 3 publications: the second and third reuse resources under racing claims |
| `history` | `RingAdvertised`, `HistoryRetained`, `RingLeadsToHistory` | ring of two, 5 publications: it wraps twice |
| `capacity` | `NeverDropped` | three interchangeable consumers compete for the credits of two |
| `shutdown` | `ShutdownDrains` (liveness), `LeaseNotRevoked` | two threads of one consumer; stop, close, drop and exit at every point |
| `ledger` | `BookTypeOK`, `ReserveKept`, `CountersAgree`, `WithinBudget`, `RetryFits`, `IdsNeverReused` | 2 incarnations at a time, 4 identities of each kind, a budget that is reached |
| `retire` | `ArenaTypeOK`, `MappedCharged`, `UseCharged`, `LedgerMatches`, `ShutdownReadySafe`, `OfferFitsSettled` | one GPU consumer (`Asynchronous = {1}`), two replacements with offers and stale offers, and a producer that itself keeps using the first allocation |
| `progress` | `ReplacementCompletes` (liveness) | a budget for one allocation, so that every replacement has to wait |
| `mapping_capacity` | `OfferFits`, violated | one consumer without GPU work, two replacements |
| `wait` | `WaitTypeOK`, `NoLostWake`, `ChangedIsReal` | waits for data, for capacity and for both; epochs that end after one step; a channel of two bytes of which a drain leaves one |
| `wait_progress` | `WaitReturns`, `CancelReturns` (liveness) | waits for data and for capacity; a channel of one byte |
| `deferred` | `ReleaseTypeOK`, `FreshLease`, `CallbacksBounded`, `SleepIsWatched`, `CreditFollowsCompletion`, `QuarantineKept` | one slot, uses of two values so that the slot is reused before a late callback, one fault or deadline at any point |
| `deferred_progress` | `CreditReturns`, `DrainEnds` (liveness) | one slot, one value, offered configurations, no faults |

The comment on each property says what it means for the code. What the runs show beyond
unit tests: a claim that races a scan; a slot, a resource, an identity and a mapping word
that are used again; a process that dies at every step; wakes against going to sleep.

`mapping_capacity` states what `docs/design/acquisition-reconfiguration.md` says of the
`H + 2` mapping words, and TLC refutes it: `Claim::drop` returns the claim before the
lease's mapping, so that a consumer can take its next lease while earlier ones still
occupy their words, and an offer then fails. `OfferFitsSettled` is what does hold: the
words suffice when no lease is half dropped, whatever installs and the retirement worker
are doing.

Bounds. Identities, publications, timeline values, epochs and faults are bounded by the
constants `Last...` and `Max...`; `Offers` and `Written` switch inputs on. One consumer
and one claim slot are enough where a property speaks of one page; properties that
relate pages (`NeverDropped`, the ledger) have more. Two limits of the kept instances
were examined with larger ones that take too long to keep:

- `deferred` has `H = 1`, so that a handoff is never refused because of another slot's
  failure (`Refused`). With `H = 2` and one value (27.5 million states) all its
  properties hold.
- `progress` has no GPU consumer, so that the exception for a quarantined claim in
  `ReplacementCompletes` is not reached. With `Asynchronous = {1}` (0.5 million states)
  the property holds too, and the exception is needed.

`deferred` has no offers, because no property of it speaks of them except through
`Drained`; `deferred_progress` has. Deadlock checking is off where the system may really
stop: the host stopped the arena, all identities are used, or all processes have ended.

## Fairness

- `Fairness` of `ArenaClaims`: a thread inside acquire goes on, the host polls, an exit
  is observed, and after stop consumers drop what they hold. The last is what the
  property needs of applications: a lease that is never dropped blocks shutdown.
- `HostFairness`, `StepFairness`, `ConsumerFairness` of `ArenaReconfiguration`: the host
  polls and retries `advance_reconfiguration`; steps that have begun end; GPU work
  completes; a consumer that sees the configuration gone relinquishes its mapping, drops
  stale offers and ends its leases. Strong fairness is used for the retry and for the
  end of leases, which other steps can disable for a moment.
- `FairSpec` of `ArenaWait`: a thread that has begun a signal, a cancellation or a wait
  goes on. Deadlines and interruptions are not fair: a wait must end without them.
- `FairSpec` of `DeferredRelease`: the two worker threads run, a poll that holds a mutex
  and a drop that has begun go on, and callbacks of reached values run. The host need
  not poll, and nothing makes anybody install or drop an offer; `DrainEnds` excepts an
  offer that is out.

## Proofs

`tlapm <module>.tla` checks each from nothing. The theorems hold for all constants that
the named ASSUMEs allow: sizes and bounds are natural numbers (positive where the code
rejects zero), `History + Reserve <= Resources` (or `Capacity`) and the initial charge is
within the budget, as the constructors check, and the producer's thread is not one of the
releasers.

- `ArenaClaimsProof`. `TypeCorrect`, `LeaseSafety`, `DescriptorSafety`, `TrackingSafety`
  and `OwnershipSafety` follow from the inductive `Inv`. None of them is inductive:
  that a lease is intact depends on where the producer's scan is. The core is
  `Protected`: the claim of a lease, or of a thread that has validated, names the frame
  its resource holds, the producer does not own that resource, and if it is being
  scanned this very claim word is still to be loaded. A validated thread is protected
  because a resource is retired before its scan starts. `ProducerInv` and `StateInv` say
  what is half written, `LifeInv`, `HoldInv` and `OwnerInv` that each claim is in a
  scanned page and has one owner.
  `Refinement` proves `Spec => ImplementsStore` from the same invariant: each step is a
  step of `FrameStore` or changes nothing it sees.
- `AdmissionBookProof`. `ReserveSafety`, `BudgetSafety` and `IdentitySafety`, from
  `LedgerInv`: recorded identities were issued and recorded amounts are natural numbers,
  so a cleanup never raises a sum and a new identity is new.
- `ArenaWaitProof`. `WakeSafety` from `WaitInv`: while a wait is armed its channel is
  read (`Listening`), and a word that changed after the recheck loaded it has a byte in
  the channel or a thread on its way to write one (`Owed`, by load). `ChangeSafety` from
  `Grown`: words only grow past the snapshot, except that a wrapped capacity epoch
  closes.

Only model-checked: all liveness (fairness and ENABLED are out of the prover's reach);
`CountersAgree` and `RetryFits` (sums over records, which need induction over data);
`NeverDropped` (a count of resources); the ring's properties; and everything in
`ArenaReconfiguration` and `DeferredRelease`.

## What is abstracted or not modelled

- A frame's content is its cursor. Layout, validation of malformed pages and of received
  descriptors, and logging are left out.
- `NeverDropped` is stated for a producer that only publishes while no claim moves during
  a scan (`QuietSpec`): a claim that moves to a resource the scan has yet to reach makes
  `publish` drop a frame, which the contract calls transient.
- `ArenaReconfiguration` and `DeferredRelease` are not composed: the first has all
  mappings and a one-step retirement of a deferred use, the second one incarnation with
  the threads in detail.
- `arena/wait/windows.rs` (event objects), the doorbell, and `arena/process.rs` beyond
  "the exit is seen" are not modelled.
- Outside the arena: CPU and GPU setup sessions, local endpoints, the native track and
  its control page, capture, audio, input, the handshake, affordances, the source pump,
  the C interface, GPU backends, the registry and the graph vocabulary. `PROJECT.json`
  gives the reason for each; most are independent of the arena or hosts of it, whose
  calls are the nondeterministic calls of the models.
