---------------------------- MODULE AdmissionBook ----------------------------
(***************************************************************************)
(* The producer's accounting of frames and bytes                           *)
(* (crates/jackstay/src/acquisition.rs and acquisition/allocation.rs):     *)
(* holding credits of consumer incarnations, and the byte budget shared by *)
(* claim mappings and the resource allocations of successive               *)
(* configurations.  An operation that fails changes nothing, so only the   *)
(* successful path of each operation is an action.                         *)
(***************************************************************************)
EXTENDS Integers, FiniteSets, Functions

CONSTANTS
  Capacity, History, Reserve,     \* resource_capacity, retained_history, producer_reserve
  Allocated, Fixed, Budget,       \* allocated_bytes, fixed_bytes, memory_budget
  MaxIncarnations,                \* max_incarnations
  LastIncarnation, LastAllocation \* u64::MAX, the end of both identity spaces

\* The checks of AdmissionBook::new.
ASSUME LimitsAssumption ==
  /\ Capacity \in Nat /\ History \in Nat /\ Reserve \in Nat \ {0}
  /\ History + Reserve <= Capacity
  /\ Allocated \in Nat /\ Fixed \in Nat /\ Budget \in Nat
  /\ Allocated + Fixed <= Budget
  /\ MaxIncarnations \in Nat \ {0}
  /\ LastIncarnation \in Nat \ {0} /\ LastAllocation \in Nat /\ LastAllocation >= 2

VARIABLES
  next_incarnation, reservations, reserved_frames, committed_bytes,
  allocations, current_allocation, next_allocation,
  pending       \* pending_allocation; upper_bound is 0 when there is none

\* Option<AllocationId>: identities start at 1.
None == 0

credits == <<next_incarnation, reservations, reserved_frames>>
storage == <<allocations, current_allocation, next_allocation, pending>>
bookVars == <<credits, committed_bytes, storage>>

NoPending == [upper_bound |-> 0, reserved |-> None]

BookInit ==
  /\ next_incarnation = 1
  /\ reservations = [id \in {} |-> 0]
  /\ reserved_frames = 0
  /\ committed_bytes = Allocated + Fixed
  /\ allocations = [id \in {1} |-> Allocated]
  /\ current_allocation = 1
  /\ next_allocation = 2
  /\ pending = NoPending

available_frames == Capacity - History - Reserve - reserved_frames

\* BTreeMap::insert and BTreeMap::remove.
With(f, id, value) == [x \in DOMAIN f \cup {id} |-> IF x = id THEN value ELSE f[x]]

Without(f, id) == Restrict(f, DOMAIN f \ {id})

\* The bytes of all unreclaimed resource allocations.
ResourceBytes == SumFunction(allocations)

-----------------------------------------------------------------------------
(* Holding credits. *)

\* Mutant: admission goes on while a replacement is pending.
Admissible_WhilePending(frames, claim_bytes) ==
  /\ frames <= available_frames
  /\ Cardinality(DOMAIN reservations) < MaxIncarnations
  /\ claim_bytes <= Budget - committed_bytes
  /\ next_incarnation < LastIncarnation

\* Mutant: the history is not set aside.
Admissible_IntoHistory(frames, claim_bytes) ==
  /\ pending = NoPending
  /\ frames <= Capacity - Reserve - reserved_frames
  /\ Cardinality(DOMAIN reservations) < MaxIncarnations
  /\ claim_bytes <= Budget - committed_bytes
  /\ next_incarnation < LastIncarnation

\* The checks of admit.
Admissible(frames, claim_bytes) ==
  /\ pending = NoPending
  /\ frames <= available_frames
  /\ Cardinality(DOMAIN reservations) < MaxIncarnations
  /\ claim_bytes <= Budget - committed_bytes
  /\ next_incarnation < LastIncarnation

admit(frames, claim_bytes) ==
  /\ Admissible(frames, claim_bytes)
  /\ next_incarnation' = next_incarnation + 1
  /\ reserved_frames' = reserved_frames + frames
  /\ committed_bytes' = committed_bytes + claim_bytes
  /\ reservations' = With(reservations, next_incarnation,
       [frames |-> frames, claim_bytes |-> claim_bytes, closing |-> FALSE])
  /\ UNCHANGED storage

close(id) ==
  /\ id \in DOMAIN reservations
  /\ reservations' = [reservations EXCEPT ![id].closing = TRUE]
  /\ UNCHANGED <<next_incarnation, reserved_frames, committed_bytes, storage>>

\* Mutant: the frames come back, the claim mapping's bytes do not.
Reclaim_KeepsBytes(id) ==
  /\ id \in DOMAIN reservations
  /\ reservations' = Without(reservations, id)
  /\ reserved_frames' = reserved_frames - reservations[id].frames
  /\ UNCHANGED <<next_incarnation, committed_bytes, storage>>

\* The record goes, and its frames and bytes come back.
Reclaim(id) ==
  /\ id \in DOMAIN reservations
  /\ reservations' = Without(reservations, id)
  /\ reserved_frames' = reserved_frames - reservations[id].frames
  /\ committed_bytes' = committed_bytes - reservations[id].claim_bytes
  /\ UNCHANGED <<next_incarnation, storage>>

complete_cleanup(id) ==
  /\ id \in DOMAIN reservations /\ reservations[id].closing
  /\ Reclaim(id)

-----------------------------------------------------------------------------
(* Resource allocations. *)

\* A proposal must fit once every old allocation is reclaimed.
begin_reconfiguration(upper_bound) ==
  /\ pending = NoPending
  /\ upper_bound # 0
  /\ upper_bound <= Budget - (committed_bytes - ResourceBytes)
  /\ next_allocation < LastAllocation
  /\ pending' = [upper_bound |-> upper_bound, reserved |-> None]
  /\ current_allocation' = None
  /\ UNCHANGED <<credits, committed_bytes, allocations, next_allocation>>

\* Mutant: reserves against the whole budget, as begin_reconfiguration does.
reserve_reconfiguration_Overlapping ==
  /\ pending # NoPending /\ pending.reserved = None
  /\ pending.upper_bound <= Budget - (committed_bytes - ResourceBytes)
  /\ next_allocation < LastAllocation
  /\ next_allocation' = next_allocation + 1
  /\ committed_bytes' = committed_bytes + pending.upper_bound
  /\ allocations' = With(allocations, next_allocation, pending.upper_bound)
  /\ pending' = [pending EXCEPT !.reserved = next_allocation]
  /\ UNCHANGED <<credits, current_allocation>>

\* Retrying an existing reservation changes nothing; too little room leaves it pending.
reserve_reconfiguration ==
  /\ pending # NoPending /\ pending.reserved = None
  /\ pending.upper_bound <= Budget - committed_bytes
  /\ next_allocation < LastAllocation
  /\ next_allocation' = next_allocation + 1
  /\ committed_bytes' = committed_bytes + pending.upper_bound
  /\ allocations' = With(allocations, next_allocation, pending.upper_bound)
  /\ pending' = [pending EXCEPT !.reserved = next_allocation]
  /\ UNCHANGED <<credits, current_allocation>>

install_reconfiguration(actual_bytes) ==
  /\ pending.reserved # None
  /\ actual_bytes # 0 /\ actual_bytes <= pending.upper_bound
  /\ committed_bytes' = committed_bytes - (pending.upper_bound - actual_bytes)
  /\ allocations' = With(allocations, pending.reserved, actual_bytes)
  /\ current_allocation' = pending.reserved
  /\ pending' = NoPending
  /\ UNCHANGED <<credits, next_allocation>>

\* Mutant: the failed allocation's identity is given out again.
abandon_reconfiguration_ReusesId ==
  /\ pending.reserved # None
  /\ committed_bytes' = committed_bytes - allocations[pending.reserved]
  /\ allocations' = Without(allocations, pending.reserved)
  /\ pending' = [pending EXCEPT !.reserved = None]
  /\ next_allocation' = pending.reserved
  /\ UNCHANGED <<credits, current_allocation>>

abandon_reconfiguration_allocation ==
  /\ pending.reserved # None
  /\ committed_bytes' = committed_bytes - allocations[pending.reserved]
  /\ allocations' = Without(allocations, pending.reserved)
  /\ pending' = [pending EXCEPT !.reserved = None]
  /\ UNCHANGED <<credits, current_allocation, next_allocation>>

\* Mutant: reclaims the allocation that is being installed.
complete_allocation_cleanup_InUse(id) ==
  /\ id # current_allocation
  /\ id \in DOMAIN allocations
  /\ committed_bytes' = committed_bytes - allocations[id]
  /\ allocations' = Without(allocations, id)
  /\ UNCHANGED <<credits, current_allocation, next_allocation, pending>>

complete_allocation_cleanup(id) ==
  /\ id \notin {current_allocation, pending.reserved}
  /\ id \in DOMAIN allocations
  /\ committed_bytes' = committed_bytes - allocations[id]
  /\ allocations' = Without(allocations, id)
  /\ UNCHANGED <<credits, current_allocation, next_allocation, pending>>

-----------------------------------------------------------------------------
\* Any caller of the ledger, with requests of 1 .. Budget bytes.
BookNext ==
  \/ \E frames \in 1 .. Capacity, claim_bytes \in 1 .. Budget : admit(frames, claim_bytes)
  \/ \E id \in 1 .. LastIncarnation : close(id) \/ complete_cleanup(id)
  \/ \E id \in 1 .. LastAllocation : complete_allocation_cleanup(id)
  \/ \E bytes \in 1 .. Budget : begin_reconfiguration(bytes) \/ install_reconfiguration(bytes)
  \/ reserve_reconfiguration \/ abandon_reconfiguration_allocation

BookSpec == BookInit /\ [][BookNext]_bookVars

BookTypeOK ==
  /\ next_incarnation \in 1 .. LastIncarnation /\ next_allocation \in 2 .. LastAllocation
  /\ DOMAIN reservations \subseteq 1 .. next_incarnation - 1
  /\ \A id \in DOMAIN reservations : reservations[id] \in
       [frames : 1 .. Capacity, claim_bytes : 1 .. Budget, closing : BOOLEAN]
  /\ DOMAIN allocations \subseteq 1 .. next_allocation - 1
  /\ \A id \in DOMAIN allocations : allocations[id] \in 0 .. Budget
  /\ reserved_frames \in Nat /\ committed_bytes \in Nat
  /\ current_allocation \in DOMAIN allocations \cup {None}
  /\ pending.upper_bound \in 0 .. Budget
  /\ pending.reserved \in DOMAIN allocations \cup {None}

\* Whatever is admitted, the history and the producer's reserve stay uncovered by
\* holding credits, and so does available_frames stay a natural number (u32).
ReserveKept == History + Reserve + reserved_frames <= Capacity

\* The counters never drift from the records they summarize: every byte and every
\* frame of admit, reserve, install, abandon and the two cleanups is paired.
CountersAgree ==
  /\ reserved_frames = SumFunction([id \in DOMAIN reservations |-> reservations[id].frames])
  /\ committed_bytes = Fixed + ResourceBytes
       + SumFunction([id \in DOMAIN reservations |-> reservations[id].claim_bytes])

\* No sequence of operations commits more than memory_budget.
WithinBudget == committed_bytes <= Budget

\* "Another admission cannot consume its retry capacity" (allocation.rs): a pending
\* proposal always fits once the old allocations are reclaimed.
RetryFits ==
  pending # NoPending =>
    pending.upper_bound <= Budget - (committed_bytes - ResourceBytes)

\* "Never reuse an old identity for a replacement": an identity that enters the
\* ledger was never in it before, not even after a failed allocation.
IdsNeverReused ==
  [][/\ \A id \in DOMAIN allocations' \ DOMAIN allocations : id >= next_allocation /\ next_allocation' > id
     /\ \A id \in DOMAIN reservations' \ DOMAIN reservations : id >= next_incarnation /\ next_incarnation' > id
     /\ next_allocation' >= next_allocation /\ next_incarnation' >= next_incarnation]_bookVars
=============================================================================
