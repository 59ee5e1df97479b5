----------------------------- MODULE ArenaClaims -----------------------------
(***************************************************************************)
(* The shared-memory claim protocol of the acquisition arena               *)
(* (crates/jackstay/src/acquisition/arena.rs and arena/writer.rs).         *)
(*                                                                         *)
(* One producer publishes frames into a table of resources and advertises  *)
(* them in a publication ring.  Threads of several consumer incarnations   *)
(* acquire frames by storing a claim in their own page, validating the     *)
(* resource's generation and only then touching its bytes.  All atomics of *)
(* the code are SeqCst, so the steps of all actors interleave freely.  On  *)
(* the ring, the resource states and the claim words each load, store and  *)
(* compare-exchange is a step.  Taken together are the entry of acquire,   *)
(* the two loads of is_closed, and the visit of a whole page by            *)
(* collect_quiescent and observe_process, when nobody else writes it.      *)
(*                                                                         *)
(* This module is about one allocation of resources; replacement of the    *)
(* allocation, deferred (GPU) release and wakeups are other components.    *)
(***************************************************************************)
EXTENDS Integers, FiniteSets

CONSTANTS
  Resources,      \* layout.resources: number of resources in the table
  History,        \* layout.history: length of the publication ring
  Reserve,        \* producer_reserve: resources admission keeps for the producer
  Frames,         \* holding: claim slots in one consumer's page
  Consumers,      \* consumer incarnations; an incarnation is admitted once
  Threads,        \* threads that call acquire_*
  Owner,          \* the incarnation each thread belongs to
  MaxGeneration   \* MAX_GENERATION: publication stops at this cursor

ASSUME ArenaAssumption ==
  /\ Resources \in Nat /\ History \in Nat \ {0} /\ Reserve \in Nat \ {0}
  /\ Resources > History /\ History + Reserve <= Resources
  /\ Frames \in Nat \ {0}
  /\ MaxGeneration \in Nat \ {0}
  /\ Owner \in [Threads -> Consumers]

VARIABLES
  \* The control map and the resource map, shared with every consumer.
  state,        \* per resource: its generation and the Published bit
  memory,       \* per resource: the cursor whose descriptor and bytes it holds
  ring,         \* per ring position: advertised index + 1, 0 when never written
  latest,       \* LATEST
  terminal,     \* TERMINAL
  \* The claim pages, one per incarnation, shared with the producer.
  active,       \* ACTIVE
  quiescent,    \* QUIESCENT
  slot,         \* claimed cursor per claim slot, 0 when empty
  \* The producer.
  cursor,       \* ArenaProducer::cursor
  next_slot,    \* ArenaProducer::next_slot
  reserved,     \* ResourceMap::reserved: an outstanding CpuReservation
  claims,       \* ArenaProducer::claims: incarnations whose pages are scanned
  ppc, pop,     \* program point and operation of the call in progress
  offset, pidx, \* scan offset and resource index under consideration
  unscanned,    \* claim slots ClaimMap::contains has still to load
  \* The consumers.
  life,         \* lifetime of the incarnation's owner object and process
  lease,        \* per claim slot: index + 1 of the FrameLease on it, 0 if none
  tpc,          \* program point of a thread inside acquire
  tcur, tidx,   \* cursor it selected, resource index the ring advertised
  tslot         \* claim slot it tries or holds

shared   == <<state, memory, ring, latest, terminal>>
pages    == <<active, quiescent, slot>>
producer == <<cursor, next_slot, reserved, claims, ppc, pop, offset, pidx, unscanned>>
threads  == <<tpc, tcur, tidx, tslot>>
vars     == <<shared, pages, producer, life, lease, threads>>

Index  == 0 .. Resources - 1
Slots  == 1 .. Frames
Cursor == 1 .. MaxGeneration

\* ControlMap::ring: the ring position of a cursor.
RingPosition(c) == (c - 1) % History

\* `cursor.saturating_sub(history - 1).max(1)`: the oldest retained cursor.
Oldest(c) == IF c > History THEN c - (History - 1) ELSE 1

IsClosed(c) == ~active[c] \/ terminal

Init ==
  /\ state = [i \in Index |-> [gen |-> 0, pub |-> FALSE]]
  /\ memory = [i \in Index |-> 0]
  /\ ring = [p \in 0 .. History - 1 |-> 0]
  /\ latest = 0 /\ terminal = FALSE
  /\ active = [c \in Consumers |-> TRUE]
  /\ quiescent = [c \in Consumers |-> FALSE]
  /\ slot = [c \in Consumers |-> [s \in Slots |-> 0]]
  /\ cursor = 0 /\ next_slot = 0
  /\ reserved = [i \in Index |-> FALSE]
  /\ claims = {}
  /\ ppc = "idle" /\ pop = "publish" /\ offset = 0 /\ pidx = 0 /\ unscanned = {}
  /\ life = [c \in Consumers |-> "free"]
  /\ lease = [c \in Consumers |-> [s \in Slots |-> 0]]
  /\ tpc = [t \in Threads |-> "idle"]
  /\ tcur = [t \in Threads |-> 0]
  /\ tidx = [t \in Threads |-> 0]
  /\ tslot = [t \in Threads |-> 1]

-----------------------------------------------------------------------------
(* The producer's calls: `&mut self` serializes them. *)

\* Mutant: forgets a page before its owner acknowledged shutdown.
Collectable_Early == {c \in claims : \A s \in Slots : slot[c][s] = 0}

\* collect_quiescent: pages whose owner acknowledged shutdown and left no claim.  It also
\* waits for the page's mapping words (has_mappings), which are ArenaReconfiguration's and
\* DeferredRelease's: a page is collected here no later than in the code.
Collectable == {c \in claims : quiescent[c] /\ \A s \in Slots : slot[c][s] = 0}

\* The producer's call returns; its locals go out of scope.
Finish == ppc' = "idle" /\ pop' = "publish" /\ offset' = 0 /\ pidx' = 0 /\ unscanned' = {}

\* poll_cleanup, called by the host and first thing in attach, publish and reserve.
PollCleanup ==
  /\ ppc = "idle"
  /\ claims' = claims \ Collectable
  /\ UNCHANGED <<shared, pages, life, lease, threads,
                 cursor, next_slot, reserved, ppc, pop, offset, pidx, unscanned>>

\* attach_with_recipient: admission, then a fresh page with every slot empty.
Attach(c) ==
  LET kept == claims \ Collectable IN
  /\ ppc = "idle" /\ ~terminal
  /\ life[c] = "free"
  /\ Frames <= Resources - History - Reserve - Frames * Cardinality(kept)
  /\ claims' = kept \cup {c}
  /\ life' = [life EXCEPT ![c] = "granted"]
  /\ UNCHANGED <<shared, pages, lease, threads,
                 cursor, next_slot, reserved, ppc, pop, offset, pidx, unscanned>>

\* Mutant: closing takes the claims back at once.
Close_Revoking(c) ==
  /\ ppc = "idle" /\ c \in claims
  /\ active' = [active EXCEPT ![c] = FALSE]
  /\ slot' = [slot EXCEPT ![c] = [s \in Slots |-> 0]]
  /\ UNCHANGED <<shared, quiescent, producer, life, lease, threads>>

\* ArenaProducer::close.
Close(c) ==
  /\ ppc = "idle" /\ c \in claims
  /\ active' = [active EXCEPT ![c] = FALSE]
  /\ UNCHANGED <<shared, quiescent, slot, producer, life, lease, threads>>

\* ArenaProducer::stop, also run when the producer is dropped.
Stop ==
  /\ ppc = "idle" /\ ~terminal
  /\ terminal' = TRUE
  /\ active' = [c \in Consumers |-> active[c] /\ c \notin claims]
  /\ UNCHANGED <<state, memory, ring, latest, quiescent, slot, producer,
                 life, lease, threads>>

\* Mutant: no check for the last generation.
BeginScan_Unbounded(op) ==
  /\ ppc = "idle" /\ ~terminal
  /\ claims' = claims \ Collectable
  /\ ppc' = "scan" /\ pop' = op /\ offset' = 0
  /\ UNCHANGED <<shared, pages, cursor, next_slot, reserved, pidx, unscanned,
                 life, lease, threads>>

\* publish_prepared and reserve: the entry checks, then the scan begins.
BeginScan(op) ==
  /\ ppc = "idle" /\ ~terminal
  /\ claims' = claims \ Collectable
  /\ \/ /\ cursor = MaxGeneration          \* GenerationsExhausted
        /\ terminal' = TRUE
        /\ active' = [c \in Consumers |-> active[c] /\ c \notin claims']
        /\ UNCHANGED <<ppc, pop, offset>>
     \/ /\ cursor < MaxGeneration
        /\ ppc' = "scan" /\ pop' = op /\ offset' = 0
        /\ UNCHANGED <<terminal, active>>
  /\ UNCHANGED <<state, memory, ring, latest, quiescent, slot,
                 cursor, next_slot, reserved, pidx, unscanned, life, lease, threads>>

\* The resource the scan looks at.
Candidate == (next_slot + offset) % Resources

\* Mutant: the retained window is one frame short.
Passed_ShortWindow(i) == reserved[i] \/ (state[i].gen # 0 /\ state[i].gen > Oldest(cursor))

\* Reserved, or retained by history.
Passed(i) == reserved[i] \/ (state[i].gen # 0 /\ state[i].gen >= Oldest(cursor))

\* The scan passes over a reserved or retained resource.
SkipResource ==
  /\ ppc = "scan" /\ offset < Resources
  /\ Passed(Candidate)
  /\ offset' = offset + 1
  /\ UNCHANGED <<shared, pages, cursor, next_slot, reserved, claims, ppc, pop, pidx,
                 unscanned, life, lease, threads>>

\* Mutant: scans claims without retiring the resource first.
Retire_KeepsPublished ==
  /\ ppc = "scan" /\ offset < Resources
  /\ ~Passed(Candidate)
  /\ pidx' = Candidate
  /\ ppc' = "check"
  /\ unscanned' = IF state[Candidate].gen = 0 THEN {} ELSE claims \X Slots
  /\ UNCHANGED <<shared, pages, cursor, next_slot, reserved, claims, pop, offset,
                 life, lease, threads>>

\* Retire BEFORE scanning claims; a resource never published has no claims.
Retire ==
  /\ ppc = "scan" /\ offset < Resources
  /\ ~Passed(Candidate)
  /\ pidx' = Candidate
  /\ state' = [state EXCEPT ![Candidate].pub = FALSE]
  /\ ppc' = "check"
  /\ unscanned' = IF state[Candidate].gen = 0 THEN {} ELSE claims \X Slots
  /\ UNCHANGED <<memory, ring, latest, terminal, pages, cursor, next_slot, reserved,
                 claims, pop, offset, life, lease, threads>>

\* Mutant: any claim blocks the resource, whatever its generation.
CheckClaim_AnyClaim(c, s) ==
  /\ ppc = "check" /\ <<c, s>> \in unscanned
  /\ \/ /\ slot[c][s] # 0
        /\ ppc' = "scan" /\ offset' = offset + 1 /\ unscanned' = {}
     \/ /\ slot[c][s] = 0
        /\ unscanned' = unscanned \ {<<c, s>>}
        /\ UNCHANGED <<ppc, offset>>
  /\ UNCHANGED <<shared, pages, cursor, next_slot, reserved, claims, pop, pidx,
                 life, lease, threads>>

\* ClaimMap::contains loads one claim slot; a match makes the scan move on.
CheckClaim(c, s) ==
  /\ ppc = "check" /\ <<c, s>> \in unscanned
  /\ \/ /\ slot[c][s] = state[pidx].gen
        /\ ppc' = "scan" /\ offset' = offset + 1 /\ unscanned' = {}
     \/ /\ slot[c][s] # state[pidx].gen
        /\ unscanned' = unscanned \ {<<c, s>>}
        /\ UNCHANGED <<ppc, offset>>
  /\ UNCHANGED <<shared, pages, cursor, next_slot, reserved, claims, pop, pidx,
                 life, lease, threads>>

\* The scan found no writable resource: PublishOutcome::Dropped, or no reservation.
Drop ==
  /\ ppc = "scan" /\ offset = Resources
  /\ Finish
  /\ UNCHANGED <<shared, pages, cursor, next_slot, reserved, claims, life, lease, threads>>

\* `prepare` returned None, the backend still uses this resource, or an error.
PrepareRefuses ==
  /\ ppc = "check" /\ unscanned = {} /\ pop = "publish"
  /\ \/ ppc' = "scan" /\ offset' = offset + 1 /\ UNCHANGED <<pop, pidx, unscanned>>
     \/ Finish
  /\ UNCHANGED <<shared, pages, cursor, next_slot, reserved, claims, life, lease, threads>>

\* publish copies the payload and the descriptor: not atomic, so first torn bytes ...
BeginWrite ==
  /\ ppc = "check" /\ unscanned = {} /\ pop = "publish"
  /\ memory' = [memory EXCEPT ![pidx] = 0]
  /\ ppc' = "write"
  /\ UNCHANGED <<state, ring, latest, terminal, pages, cursor, next_slot, reserved, claims,
                 pop, offset, pidx, unscanned, life, lease, threads>>

\* ... then the whole frame.  commit writes the descriptor over finished pixels.
EndWrite ==
  /\ ppc = "write"
  /\ memory' = [memory EXCEPT ![pidx] = cursor + 1]
  /\ ppc' = "publish"
  /\ UNCHANGED <<state, ring, latest, terminal, pages, cursor, next_slot, reserved, claims,
                 pop, offset, pidx, unscanned, life, lease, threads>>

\* reserve hands the retired, unclaimed resource to a writer, who may store any bytes.
TakeReservation ==
  /\ ppc = "check" /\ unscanned = {} /\ pop = "reserve"
  /\ reserved' = [reserved EXCEPT ![pidx] = TRUE]
  /\ memory' = [memory EXCEPT ![pidx] = 0]
  /\ Finish
  /\ UNCHANGED <<state, ring, latest, terminal, pages, cursor, next_slot, claims,
                 life, lease, threads>>

\* commit consumes a reservation; every error path only drops it.
Commit(i) ==
  /\ ppc = "idle" /\ reserved[i] /\ ~terminal
  /\ \/ /\ cursor < MaxGeneration
        /\ ppc' = "write" /\ pop' = "commit" /\ pidx' = i
        /\ UNCHANGED <<terminal, active, reserved>>
     \/ /\ cursor = MaxGeneration          \* GenerationsExhausted
        /\ terminal' = TRUE
        /\ active' = [c \in Consumers |-> active[c] /\ c \notin claims]
        /\ reserved' = [reserved EXCEPT ![i] = FALSE]
        /\ UNCHANGED <<ppc, pop, pidx>>
  /\ UNCHANGED <<state, memory, ring, latest, quiescent, slot, cursor, next_slot, claims,
                 offset, unscanned, life, lease, threads>>

\* CpuReservation::drop, from abandon, a failed commit or any thread that owns it.
Abandon(i) ==
  /\ reserved[i] /\ ~(ppc \in {"write", "publish", "ring", "latest"} /\ pop = "commit" /\ pidx = i)
  /\ reserved' = [reserved EXCEPT ![i] = FALSE]
  /\ UNCHANGED <<shared, pages, cursor, next_slot, claims, ppc, pop, offset, pidx,
                 unscanned, life, lease, threads>>

\* Mutant: LATEST is stored, the ring entry is not.
StoreState_SkipsRing ==
  /\ ppc = "publish"
  /\ state' = [state EXCEPT ![pidx] = [gen |-> cursor + 1, pub |-> TRUE]]
  /\ ppc' = "latest"
  /\ UNCHANGED <<memory, ring, latest, terminal, pages, cursor, next_slot, reserved, claims,
                 pop, offset, pidx, unscanned, life, lease, threads>>

\* The three publishing stores of publish_prepared and commit, in their order.
StoreState ==
  /\ ppc = "publish"
  /\ state' = [state EXCEPT ![pidx] = [gen |-> cursor + 1, pub |-> TRUE]]
  /\ ppc' = "ring"
  /\ UNCHANGED <<memory, ring, latest, terminal, pages, cursor, next_slot, reserved, claims,
                 pop, offset, pidx, unscanned, life, lease, threads>>

\* Mutant: the ring position of the next cursor.
StoreRing_OffByOne ==
  /\ ppc = "ring"
  /\ ring' = [ring EXCEPT ![(cursor + 1) % History] = pidx + 1]
  /\ ppc' = "latest"
  /\ UNCHANGED <<state, memory, latest, terminal, pages, cursor, next_slot, reserved, claims,
                 pop, offset, pidx, unscanned, life, lease, threads>>

StoreRing ==
  /\ ppc = "ring"
  /\ ring' = [ring EXCEPT ![RingPosition(cursor + 1)] = pidx + 1]
  /\ ppc' = "latest"
  /\ UNCHANGED <<state, memory, latest, terminal, pages, cursor, next_slot, reserved, claims,
                 pop, offset, pidx, unscanned, life, lease, threads>>

StoreLatest ==
  /\ ppc = "latest"
  /\ latest' = cursor + 1
  /\ cursor' = cursor + 1
  /\ next_slot' = (pidx + 1) % Resources
  /\ reserved' = IF pop = "commit" THEN [reserved EXCEPT ![pidx] = FALSE] ELSE reserved
  /\ Finish
  /\ UNCHANGED <<state, memory, ring, terminal, pages, claims, life, lease, threads>>

Producer ==
  \/ PollCleanup \/ Stop
  \/ \E c \in Consumers : Attach(c) \/ Close(c)
  \/ \E op \in {"publish", "reserve"} : BeginScan(op)
  \/ SkipResource \/ Retire \/ Drop
  \/ \E c \in Consumers, s \in Slots : CheckClaim(c, s)
  \/ PrepareRefuses \/ BeginWrite \/ EndWrite \/ TakeReservation
  \/ \E i \in Index : Commit(i) \/ Abandon(i)
  \/ StoreState \/ StoreRing \/ StoreLatest

-----------------------------------------------------------------------------
(* A consumer: its owner object, its process and its acquiring threads. *)

\* from_grant_with_resources maps the pages.
Import(c) ==
  /\ life[c] = "granted"
  /\ life' = [life EXCEPT ![c] = "open"]
  /\ UNCHANGED <<shared, pages, producer, lease, threads>>

\* ConsumerGrant::drop without import: close, then acknowledge quiescence.
AbandonGrant(c) ==
  /\ life[c] = "granted"
  /\ life' = [life EXCEPT ![c] = "gone"]
  /\ active' = [active EXCEPT ![c] = FALSE]
  /\ quiescent' = [quiescent EXCEPT ![c] = TRUE]
  /\ UNCHANGED <<shared, slot, producer, lease, threads>>

\* ArenaConsumer::drop: no call borrows it any more; leases may outlive it.
DropConsumer(c) ==
  /\ life[c] = "open"
  /\ \A t \in Threads : Owner[t] = c => tpc[t] = "idle"
  /\ life' = [life EXCEPT ![c] = "dropped"]
  /\ active' = [active EXCEPT ![c] = FALSE]
  /\ UNCHANGED <<shared, quiescent, slot, producer, lease, threads>>

\* ConsumerLifetime::drop, with the last lease: retirement acknowledges quiescence.
EndLifetime(c) ==
  /\ life[c] = "dropped"
  /\ \A s \in Slots : lease[c][s] = 0
  /\ life' = [life EXCEPT ![c] = "gone"]
  /\ quiescent' = [quiescent EXCEPT ![c] = TRUE]
  /\ UNCHANGED <<shared, active, slot, producer, lease, threads>>

\* The consumer's process dies anywhere: its threads and leases are no more.
Exit(c) ==
  /\ life[c] \in {"granted", "open", "dropped"}
  /\ life' = [life EXCEPT ![c] = "exited"]
  /\ lease' = [lease EXCEPT ![c] = [s \in Slots |-> 0]]
  /\ tpc' = [t \in Threads |-> IF Owner[t] = c THEN "idle" ELSE tpc[t]]
  /\ tcur' = [t \in Threads |-> IF Owner[t] = c THEN 0 ELSE tcur[t]]
  /\ tidx' = [t \in Threads |-> IF Owner[t] = c THEN 0 ELSE tidx[t]]
  /\ tslot' = [t \in Threads |-> IF Owner[t] = c THEN 1 ELSE tslot[t]]
  /\ UNCHANGED <<shared, pages, producer>>

\* Mutant: exit returns the claims but does not acknowledge quiescence.
ObserveExit_NotQuiescent(c) ==
  /\ life[c] = "exited"
  /\ life' = [life EXCEPT ![c] = "gone"]
  /\ active' = [active EXCEPT ![c] = FALSE]
  /\ slot' = [slot EXCEPT ![c] = [s \in Slots |-> 0]]
  /\ UNCHANGED <<shared, quiescent, producer, lease, threads>>

\* ObservationState::observe_process: exit proof returns every CPU claim.
ObserveExit(c) ==
  /\ life[c] = "exited"
  /\ life' = [life EXCEPT ![c] = "gone"]
  /\ active' = [active EXCEPT ![c] = FALSE]
  /\ quiescent' = [quiescent EXCEPT ![c] = TRUE]
  /\ slot' = [slot EXCEPT ![c] = [s \in Slots |-> 0]]
  /\ UNCHANGED <<shared, producer, lease, threads>>

\* The call of t returns; its locals go out of scope.
Return(t) ==
  /\ tpc' = [tpc EXCEPT ![t] = "idle"]
  /\ tcur' = [tcur EXCEPT ![t] = 0]
  /\ tidx' = [tidx EXCEPT ![t] = 0]
  /\ tslot' = [tslot EXCEPT ![t] = 1]

\* A thread selected `cur`: it goes on to acquire(cur).
Select(t, cur) ==
  /\ tpc[t] = "idle" /\ life[Owner[t]] = "open" /\ ~IsClosed(Owner[t])
  /\ tcur' = [tcur EXCEPT ![t] = cur]
  /\ tpc' = [tpc EXCEPT ![t] = "ring"]
  /\ UNCHANGED <<shared, pages, producer, life, lease, tidx, tslot>>

\* acquire_latest; its other outcomes change nothing.
AcquireLatest(t, after) == latest # 0 /\ latest > after /\ Select(t, latest)

\* acquire_next; Empty and Gap change nothing.
AcquireNext(t, after) ==
  LET cur == IF after = 0 THEN Oldest(latest) ELSE after + 1 IN
  /\ latest # 0 /\ after < latest
  /\ cur >= Oldest(latest) /\ cur <= latest
  /\ Select(t, cur)

\* acquire_exact; Empty and Miss change nothing.
AcquireExact(t, cur) == cur <= latest /\ cur >= Oldest(latest) /\ Select(t, cur)

\* acquire: load the advertised index.
ReadRing(t) ==
  /\ tpc[t] = "ring"
  /\ \/ /\ ring[RingPosition(tcur[t])] = 0   \* ArenaError::Mapping
        /\ Return(t)
     \/ /\ ring[RingPosition(tcur[t])] # 0
        /\ tidx' = [tidx EXCEPT ![t] = ring[RingPosition(tcur[t])] - 1]
        /\ tpc' = [tpc EXCEPT ![t] = "claim"]
        /\ UNCHANGED <<tcur, tslot>>
  /\ UNCHANGED <<shared, pages, producer, life, lease>>

\* Mutant: a plain store instead of the compare-exchange.
ClaimSlot_Unconditional(t) ==
  /\ tpc[t] = "claim"
  /\ slot' = [slot EXCEPT ![Owner[t]][tslot[t]] = tcur[t]]
  /\ tpc' = [tpc EXCEPT ![t] = "validate"]
  /\ UNCHANGED <<shared, active, quiescent, producer, life, lease, tcur, tidx, tslot>>

\* One compare_exchange(0, cursor); all of them failing is HoldingLimit.
ClaimSlot(t) ==
  LET c == Owner[t] s == tslot[t] IN
  /\ tpc[t] = "claim"
  /\ \/ /\ slot[c][s] = 0
        /\ slot' = [slot EXCEPT ![c][s] = tcur[t]]
        /\ tpc' = [tpc EXCEPT ![t] = "validate"]
        /\ UNCHANGED <<tcur, tidx, tslot>>
     \/ /\ slot[c][s] # 0 /\ s < Frames
        /\ tslot' = [tslot EXCEPT ![t] = s + 1]
        /\ UNCHANGED <<slot, tpc, tcur, tidx>>
     \/ /\ slot[c][s] # 0 /\ s = Frames
        /\ Return(t)
        /\ UNCHANGED slot
  /\ UNCHANGED <<shared, active, quiescent, producer, life, lease>>

\* Mutant: compares the generation and forgets the Published bit.
Validate_IgnoresBit(t) ==
  /\ tpc[t] = "validate"
  /\ tpc' = [tpc EXCEPT ![t] = IF state[tidx[t]].gen = tcur[t] THEN "open" ELSE "unclaim"]
  /\ UNCHANGED <<shared, pages, producer, life, lease, tcur, tidx, tslot>>

\* The resource must still be Published with the claimed generation, or Miss.
Validate(t) ==
  /\ tpc[t] = "validate"
  /\ tpc' = [tpc EXCEPT ![t] =
       IF state[tidx[t]] = [gen |-> tcur[t], pub |-> TRUE] THEN "open" ELSE "unclaim"]
  /\ UNCHANGED <<shared, pages, producer, life, lease, tcur, tidx, tslot>>

\* is_closed after validation: Closed drops the claim.
CheckOpen(t) ==
  /\ tpc[t] = "open"
  /\ tpc' = [tpc EXCEPT ![t] = IF IsClosed(Owner[t]) THEN "unclaim" ELSE "read"]
  /\ UNCHANGED <<shared, pages, producer, life, lease, tcur, tidx, tslot>>

\* Copy the descriptor; one that contradicts the cursor is ArenaError::Mapping.
ReadDescriptor(t) ==
  /\ tpc[t] = "read"
  /\ \/ /\ memory[tidx[t]] # tcur[t]
        /\ tpc' = [tpc EXCEPT ![t] = "unclaim"]
        /\ UNCHANGED <<lease, tcur, tidx, tslot>>
     \/ /\ memory[tidx[t]] = tcur[t]
        /\ lease' = [lease EXCEPT ![Owner[t]][tslot[t]] = tidx[t] + 1]
        /\ Return(t)
  /\ UNCHANGED <<shared, pages, producer, life>>

\* Claim::drop of an acquisition that failed: return_credit.
Unclaim(t) ==
  /\ tpc[t] = "unclaim"
  /\ slot' = [slot EXCEPT ![Owner[t]][tslot[t]] = 0]
  /\ Return(t)
  /\ UNCHANGED <<shared, active, quiescent, producer, life, lease>>

\* Claim::drop of a FrameLease: return_credit.
Release(c, s) ==
  /\ lease[c][s] # 0
  /\ lease' = [lease EXCEPT ![c][s] = 0]
  /\ slot' = [slot EXCEPT ![c][s] = 0]
  /\ UNCHANGED <<shared, active, quiescent, producer, life, threads>>

Acquire(t) == ReadRing(t) \/ ClaimSlot(t) \/ Validate(t) \/ CheckOpen(t) \/ ReadDescriptor(t) \/ Unclaim(t)

Consumer(c) ==
  \/ Import(c) \/ AbandonGrant(c) \/ DropConsumer(c) \/ EndLifetime(c)
  \/ Exit(c) \/ ObserveExit(c)
  \/ \E s \in Slots : Release(c, s)

Next ==
  \/ Producer
  \/ \E c \in Consumers : Consumer(c)
  \/ \E t \in Threads :
       \/ Acquire(t)
       \/ \E after \in 0 .. MaxGeneration : AcquireLatest(t, after) \/ AcquireNext(t, after)
       \/ \E cur \in Cursor : AcquireExact(t, cur)

Spec == Init /\ [][Next]_vars

\* The host polls, the observer thread runs, an acquiring thread returns from its
\* call, and a consumer of a closed arena lets go of its leases and of itself.
Fairness ==
  /\ WF_vars(PollCleanup)
  /\ \A t \in Threads : WF_vars(Acquire(t))
  /\ \A c \in Consumers :
       /\ WF_vars(terminal /\ (Import(c) \/ AbandonGrant(c)))
       /\ WF_vars(terminal /\ DropConsumer(c))
       /\ WF_vars(EndLifetime(c))
       /\ WF_vars(ObserveExit(c))
       /\ \A s \in Slots : WF_vars(terminal /\ Release(c, s))

FairSpec == Spec /\ Fairness

-----------------------------------------------------------------------------
SharedType ==
  /\ state \in [Index -> [gen : 0 .. MaxGeneration, pub : BOOLEAN]]
  /\ memory \in [Index -> 0 .. MaxGeneration]
  /\ ring \in [0 .. History - 1 -> 0 .. Resources]
  /\ latest \in 0 .. MaxGeneration
  /\ terminal \in BOOLEAN

ProducerType ==
  /\ cursor \in 0 .. MaxGeneration
  /\ next_slot \in Index
  /\ reserved \in [Index -> BOOLEAN]
  /\ claims \in SUBSET Consumers
  /\ ppc \in {"idle", "scan", "check", "write", "publish", "ring", "latest"}
  /\ pop \in {"publish", "reserve", "commit"}
  /\ offset \in 0 .. Resources
  /\ pidx \in Index
  /\ unscanned \in SUBSET (Consumers \X Slots)

ConsumerType ==
  /\ active \in [Consumers -> BOOLEAN]
  /\ quiescent \in [Consumers -> BOOLEAN]
  /\ slot \in [Consumers -> [Slots -> 0 .. MaxGeneration]]
  /\ life \in [Consumers -> {"free", "granted", "open", "dropped", "exited", "gone"}]
  /\ lease \in [Consumers -> [Slots -> 0 .. Resources]]

ThreadType ==
  /\ tpc \in [Threads -> {"idle", "ring", "claim", "validate", "open", "read", "unclaim"}]
  /\ tcur \in [Threads -> 0 .. MaxGeneration]
  /\ tidx \in [Threads -> Index]
  /\ tslot \in [Threads -> Slots]

\* Every variable stays in its range; in particular no cursor passes MAX_GENERATION
\* and no ring entry names a resource the table does not have.
TypeOK == SharedType /\ ProducerType /\ ConsumerType /\ ThreadType

\* The promise of a FrameLease: from the moment acquire returns it until it is
\* dropped, its resource holds exactly the frame of the claimed cursor, whatever
\* publish, reserve, commit, stop and other consumers do meanwhile.
LeaseStable ==
  \A c \in Consumers, s \in Slots :
    lease[c][s] # 0 => slot[c][s] # 0 /\ memory[lease[c][s] - 1] = slot[c][s]

\* A thread that passed validation copies the descriptor of its own cursor: the
\* "descriptor contradicts resource" error of acquire is never returned.
DescriptorAgrees ==
  \A t \in Threads : tpc[t] = "read" => memory[tidx[t]] = tcur[t]

\* The ring never sends an acquiring thread to an entry that was never written:
\* the "missing or invalid resource publication" error of acquire is never returned.
RingAdvertised ==
  \A t \in Threads : tpc[t] = "ring" => ring[RingPosition(tcur[t])] # 0

\* The last History published frames stay Published and intact: the scan's
\* window keeps every retained resource from being retired or rewritten.
HistoryRetained ==
  \A g \in Cursor :
    g <= latest /\ g >= Oldest(latest) =>
      \E i \in Index : state[i] = [gen |-> g, pub |-> TRUE] /\ memory[i] = g

\* Between publications the ring leads to every retained frame.
RingLeadsToHistory ==
  ppc \notin {"ring", "latest"} =>
    \A g \in Cursor :
      g <= latest /\ g >= Oldest(latest) =>
        /\ ring[RingPosition(g)] # 0
        /\ state[ring[RingPosition(g)] - 1] = [gen |-> g, pub |-> TRUE]

\* No claim outlives the page that carries it: the producer forgets a page in
\* collect_quiescent only when no thread or lease can still rely on its claims.
ClaimsTracked ==
  /\ \A c \in Consumers, s \in Slots : slot[c][s] # 0 => c \in claims
  /\ \A t \in Threads : tpc[t] # "idle" => Owner[t] \in claims

\* Every claim has exactly one owner to return it: a FrameLease, or one thread
\* inside acquire, or the exit observer.
ClaimOwned ==
  \A c \in Consumers, s \in Slots :
    LET holders == {t \in Threads : /\ Owner[t] = c /\ tslot[t] = s
                                    /\ tpc[t] \in {"validate", "open", "read", "unclaim"}}
    IN  /\ \A t, u \in holders : t = u
        /\ holders # {} => lease[c][s] = 0 /\ slot[c][s] # 0
        /\ slot[c][s] # 0 => holders # {} \/ lease[c][s] # 0 \/ life[c] = "exited"

\* Admission makes the producer's reserve real: with no outstanding reservation, a
\* backend that takes every resource and no claim word that moves while publish
\* scans, a publication always finds a resource to write.
NeverDropped == ~(ppc = "scan" /\ offset = Resources)

\* Closing revokes nothing: only its holder, or the holder's death, ends a lease.
LeaseNotRevoked ==
  [][\A c \in Consumers, s \in Slots :
       lease[c][s] # 0 /\ slot'[c][s] # slot[c][s] => lease'[c][s] = 0]_vars

\* After stop every admitted incarnation is eventually collected, however its
\* consumer ended: the claims no longer keep poll_shutdown_ready false.  The mapping words
\* it waits for too are cleared after the acknowledgement, and the host polls until then; an
\* arena that was never reconfigured has no retired allocation.
ShutdownDrains == terminal ~> (claims = {})

\* The arena as a FrameStore: a lease is a held frame, a claim alone is not.
Leased == [h \in Consumers \X Slots |->
             IF lease[h[1]][h[2]] = 0 THEN {} ELSE {lease[h[1]][h[2]] - 1}]

Store == INSTANCE FrameStore WITH
  Places <- Index, Holders <- Consumers \X Slots,
  frame <- memory, newest <- latest, held <- Leased

\* The claim protocol implements the frame store: acquire hands out complete,
\* announced frames only, and publish and reserve take a resource only when no
\* lease is on it and history does not need it.
ImplementsStore == Store!StoreSpec
=============================================================================
