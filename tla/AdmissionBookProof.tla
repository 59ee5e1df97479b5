------------------------- MODULE AdmissionBookProof -------------------------
(***************************************************************************)
(* The ledger's limits for every configuration that AdmissionBook::new     *)
(* accepts.  The sums of CountersAgree and RetryFits need induction over   *)
(* the records and stay with TLC; the limits follow from the guards.       *)
(***************************************************************************)
EXTENDS AdmissionBook, TLAPS

\* Identities in the ledger were issued, and every amount is a natural number.
Records ==
  /\ next_incarnation \in Nat /\ next_allocation \in Nat
  /\ \A id \in DOMAIN reservations :
       /\ id \in Int /\ id < next_incarnation
       /\ reservations[id].frames \in Nat /\ reservations[id].claim_bytes \in Nat
  /\ \A id \in DOMAIN allocations :
       id \in Int /\ id < next_allocation /\ allocations[id] \in Nat
  /\ pending \in [upper_bound : Nat, reserved : Int]
  /\ pending.reserved # None => pending.reserved \in DOMAIN allocations

\* The limits, over integers: nothing is said here about the amounts left.
Limits ==
  /\ reserved_frames \in Int /\ committed_bytes \in Int
  /\ ReserveKept /\ WithinBudget

\* Both are inductive together: a cleanup returns only natural amounts.
LedgerInv == Records /\ Limits

\* AdmissionBook::new establishes the invariant from the checks on its limits.
LEMMA LedgerInit == BookInit => LedgerInv
<1> SUFFICES ASSUME BookInit PROVE LedgerInv
  OBVIOUS
<1>1. Records
  BY LimitsAssumption DEF BookInit, Records, NoPending, None
<1>2. Limits
  BY LimitsAssumption DEF BookInit, Limits, ReserveKept, WithinBudget
<1> QED
  BY <1>1, <1>2 DEF LedgerInv

\* Every operation of the ledger keeps the invariant.
LEMMA LedgerStep == LedgerInv /\ [BookNext]_bookVars => LedgerInv'
<1> SUFFICES ASSUME LedgerInv, [BookNext]_bookVars PROVE LedgerInv'
  OBVIOUS
<1> USE LimitsAssumption
<1>1. ASSUME NEW frames \in 1 .. Capacity, NEW claim_bytes \in 1 .. Budget,
             admit(frames, claim_bytes)
      PROVE  LedgerInv'
  <2> DEFINE record == [frames |-> frames, claim_bytes |-> claim_bytes, closing |-> FALSE]
  <2>1. /\ DOMAIN reservations' = DOMAIN reservations \cup {next_incarnation}
        /\ reservations'[next_incarnation] = record
        /\ \A x \in DOMAIN reservations : x # next_incarnation => reservations'[x] = reservations[x]
    BY <1>1 DEF admit, Admissible, With, Without, Restrict
  <2>2. next_incarnation' = next_incarnation + 1 /\ next_incarnation \in Nat /\ UNCHANGED storage
    BY <1>1 DEF admit, Admissible, LedgerInv, Records
  <2>3. \A x \in DOMAIN reservations' :
          /\ x \in Int /\ x < next_incarnation'
          /\ reservations'[x].frames \in Nat /\ reservations'[x].claim_bytes \in Nat
    <3> SUFFICES ASSUME NEW x \in DOMAIN reservations'
                 PROVE  /\ x \in Int /\ x < next_incarnation'
                        /\ reservations'[x].frames \in Nat /\ reservations'[x].claim_bytes \in Nat
      OBVIOUS
    <3>1. CASE x = next_incarnation
      BY <1>1, <2>1, <3>1 DEF admit, Admissible, LedgerInv, Records
    <3>2. CASE x # next_incarnation
      <4>1. x \in DOMAIN reservations /\ reservations'[x] = reservations[x]
        BY <2>1, <3>2
      <4>2. /\ x \in Int /\ x < next_incarnation
            /\ reservations[x].frames \in Nat /\ reservations[x].claim_bytes \in Nat
        BY <4>1 DEF LedgerInv, Records
      <4> QED
        BY <4>1, <4>2, <2>2
    <3> QED
      BY <3>1, <3>2
  <2>4. Records'
    BY <2>3, <2>2 DEF LedgerInv, Records, storage
  <2>5. Limits'
    BY <1>1 DEF admit, Admissible, LedgerInv, Limits, ReserveKept, WithinBudget, available_frames
  <2> QED
    BY <2>4, <2>5 DEF LedgerInv
<1>2. ASSUME NEW id \in 1 .. LastIncarnation, close(id) PROVE LedgerInv'
  <2>1. Records'
    BY <1>2 DEF close, LedgerInv, Records, storage
  <2> QED
    BY <1>2, <2>1 DEF close, LedgerInv, Limits, ReserveKept, WithinBudget
<1>3. ASSUME NEW id \in 1 .. LastIncarnation, complete_cleanup(id) PROVE LedgerInv'
  <2>1. /\ DOMAIN reservations' = DOMAIN reservations \ {id}
        /\ \A x \in DOMAIN reservations : x # id => reservations'[x] = reservations[x]
    BY <1>3 DEF complete_cleanup, Reclaim, With, Without, Restrict
  <2>2. Records'
    BY <1>3, <2>1 DEF complete_cleanup, Reclaim, LedgerInv, Records, storage
  <2>3. reservations[id].frames \in Nat /\ reservations[id].claim_bytes \in Nat
    BY <1>3 DEF complete_cleanup, Reclaim, LedgerInv, Records
  <2>4. Limits'
    BY <1>3, <2>3 DEF complete_cleanup, Reclaim, LedgerInv, Limits, ReserveKept, WithinBudget
  <2> QED
    BY <2>2, <2>4 DEF LedgerInv
<1>4. ASSUME NEW id \in 1 .. LastAllocation, complete_allocation_cleanup(id) PROVE LedgerInv'
  <2>1. /\ DOMAIN allocations' = DOMAIN allocations \ {id}
        /\ \A x \in DOMAIN allocations : x # id => allocations'[x] = allocations[x]
    BY <1>4 DEF complete_allocation_cleanup, With, Without, Restrict
  <2>2. Records'
    BY <1>4, <2>1 DEF complete_allocation_cleanup, LedgerInv, Records, credits
  <2>3. Limits'
    BY <1>4 DEF complete_allocation_cleanup, LedgerInv, Records, Limits, ReserveKept,
                WithinBudget, credits
  <2> QED
    BY <2>2, <2>3 DEF LedgerInv
<1>5. ASSUME NEW bytes \in 1 .. Budget, begin_reconfiguration(bytes) PROVE LedgerInv'
  <2>1. Records'
    BY <1>5 DEF begin_reconfiguration, LedgerInv, Records, credits, None
  <2> QED
    BY <1>5, <2>1 DEF begin_reconfiguration, LedgerInv, Limits, ReserveKept, WithinBudget, credits
<1>6. ASSUME NEW bytes \in 1 .. Budget, install_reconfiguration(bytes) PROVE LedgerInv'
  <2>1. /\ DOMAIN allocations' = DOMAIN allocations \cup {pending.reserved}
        /\ allocations'[pending.reserved] = bytes
        /\ \A x \in DOMAIN allocations : x # pending.reserved => allocations'[x] = allocations[x]
    BY <1>6 DEF install_reconfiguration, With, Without, Restrict
  <2>2. Records'
    BY <1>6, <2>1 DEF install_reconfiguration, LedgerInv, Records, credits, NoPending, None
  <2>3. Limits'
    BY <1>6 DEF install_reconfiguration, LedgerInv, Records, Limits, ReserveKept,
                WithinBudget, credits
  <2> QED
    BY <2>2, <2>3 DEF LedgerInv
<1>7. ASSUME reserve_reconfiguration PROVE LedgerInv'
  <2>1. /\ DOMAIN allocations' = DOMAIN allocations \cup {next_allocation}
        /\ allocations'[next_allocation] = pending.upper_bound
        /\ \A x \in DOMAIN allocations : x # next_allocation => allocations'[x] = allocations[x]
    BY <1>7 DEF reserve_reconfiguration, With, Without, Restrict
  <2>2. Records'
    BY <1>7, <2>1 DEF reserve_reconfiguration, LedgerInv, Records, credits
  <2>3. Limits'
    BY <1>7 DEF reserve_reconfiguration, LedgerInv, Records, Limits, ReserveKept,
                WithinBudget, credits
  <2> QED
    BY <2>2, <2>3 DEF LedgerInv
<1>8. ASSUME abandon_reconfiguration_allocation PROVE LedgerInv'
  <2>1. /\ DOMAIN allocations' = DOMAIN allocations \ {pending.reserved}
        /\ \A x \in DOMAIN allocations : x # pending.reserved => allocations'[x] = allocations[x]
    BY <1>8 DEF abandon_reconfiguration_allocation, With, Without, Restrict
  <2>2. Records'
    BY <1>8, <2>1 DEF abandon_reconfiguration_allocation, LedgerInv, Records, credits, None
  <2>3. Limits'
    BY <1>8 DEF abandon_reconfiguration_allocation, LedgerInv, Records, Limits, ReserveKept,
                WithinBudget, credits
  <2> QED
    BY <2>2, <2>3 DEF LedgerInv
<1>9. CASE UNCHANGED bookVars
  BY <1>9 DEF bookVars, credits, storage, LedgerInv, Records, Limits, ReserveKept, WithinBudget
<1> QED
  BY <1>1, <1>2, <1>3, <1>4, <1>5, <1>6, <1>7, <1>8, <1>9 DEF BookNext

\* The invariant holds in every reachable state of the ledger.
LEMMA LedgerInvariance == BookSpec => []LedgerInv
BY LedgerInit, LedgerStep, PTL DEF BookSpec

\* For every capacity, history and reserve: holding credits never reach into the
\* history or the producer's reserve, whatever admit and complete_cleanup do.
THEOREM ReserveSafety == BookSpec => []ReserveKept
<1>1. LedgerInv => ReserveKept
  BY DEF LedgerInv, Limits
<1> QED
  BY <1>1, LedgerInvariance, PTL

\* For every budget: admissions and replacement allocations together never commit
\* more than memory_budget.
THEOREM BudgetSafety == BookSpec => []WithinBudget
<1>1. LedgerInv => WithinBudget
  BY DEF LedgerInv, Limits
<1> QED
  BY <1>1, LedgerInvariance, PTL

\* Identities of incarnations and allocations are never reused.
THEOREM IdentitySafety == BookSpec => IdsNeverReused
<1> DEFINE Fresh ==
      /\ \A id \in DOMAIN allocations' \ DOMAIN allocations : id >= next_allocation /\ next_allocation' > id
      /\ \A id \in DOMAIN reservations' \ DOMAIN reservations : id >= next_incarnation /\ next_incarnation' > id
      /\ next_allocation' >= next_allocation /\ next_incarnation' >= next_incarnation
<1>1. LedgerInv /\ [BookNext]_bookVars => [Fresh]_bookVars
  <2> SUFFICES ASSUME LedgerInv, BookNext PROVE Fresh
    BY DEF bookVars
  <2> USE DEF LedgerInv, Records, With, Without, Restrict
  <2>1. ASSUME NEW frames \in 1 .. Capacity, NEW claim_bytes \in 1 .. Budget,
               admit(frames, claim_bytes)
        PROVE  Fresh
    BY <2>1 DEF admit, Admissible, storage
  <2>2. ASSUME NEW id, close(id) \/ complete_cleanup(id) \/ complete_allocation_cleanup(id)
        PROVE  Fresh
    BY <2>2 DEF close, complete_cleanup, Reclaim, complete_allocation_cleanup, storage, credits
  <2>3. ASSUME NEW bytes \in 1 .. Budget,
               begin_reconfiguration(bytes) \/ install_reconfiguration(bytes)
        PROVE  Fresh
    BY <2>3 DEF begin_reconfiguration, install_reconfiguration, credits
  <2>4. CASE reserve_reconfiguration
    BY <2>4 DEF reserve_reconfiguration, credits
  <2>5. CASE abandon_reconfiguration_allocation
    BY <2>5 DEF abandon_reconfiguration_allocation, credits
  <2> QED
    BY <2>1, <2>2, <2>3, <2>4, <2>5 DEF BookNext
<1> QED
  BY <1>1, LedgerInvariance, PTL DEF BookSpec, IdsNeverReused
=============================================================================
