-------------------------- MODULE ArenaClaimsProof --------------------------
(***************************************************************************)
(* Theorems about ArenaClaims for every number of resources, consumers,    *)
(* threads and claim slots.  The argument is the one of the code's comment *)
(* in arena.rs: a consumer claims before it validates and the producer     *)
(* retires before it scans, so a validation that succeeds happened before  *)
(* the retirement, and the scan that follows sees the claim.               *)
(***************************************************************************)
EXTENDS ArenaClaims, TLAPS

\* Thread t has stored its claim and not yet returned or handed it over.
Holding(t) == tpc[t] \in {"validate", "open", "read", "unclaim"}

\* The producer or a writer may store to resource i.
Owned(i) ==
  reserved[i] \/ (ppc \in {"write", "publish", "ring", "latest"} /\ pidx = i)

\* The claim in slot s of c protects frame g in resource i: the producer cannot
\* take i, and a scan of i in progress has yet to load this very slot.
Protected(c, s, i, g) ==
  /\ g # 0 /\ slot[c][s] = g
  /\ state[i].gen = g /\ memory[i] = g
  /\ ~Owned(i)
  /\ ppc = "check" /\ pidx = i => <<c, s>> \in unscanned

ProducerInv ==
  /\ latest = cursor
  /\ ppc # "idle" => cursor < MaxGeneration
  /\ ppc \in {"scan", "check"} => pop # "commit"
  /\ ppc \in {"write", "publish", "ring", "latest"} => pop # "reserve"
  /\ ppc \in {"check", "write", "publish", "ring", "latest"} =>
       (reserved[pidx] <=> pop = "commit")
  /\ ppc = "check" => offset < Resources
  /\ ppc = "check" => ~state[pidx].pub /\ state[pidx].gen < Oldest(cursor)
  /\ ppc \in {"write", "publish"} => ~state[pidx].pub
  /\ ppc \in {"ring", "latest"} => state[pidx] = [gen |-> cursor + 1, pub |-> TRUE]
  /\ ppc = "write" => memory[pidx] = 0
  /\ ppc \in {"publish", "ring", "latest"} => memory[pidx] = cursor + 1

StateInv ==
  \A i \in Index :
    /\ state[i].pub => state[i].gen # 0 /\ memory[i] = state[i].gen
    /\ state[i].gen <= cursor \/ (ppc \in {"ring", "latest"} /\ i = pidx)
    /\ memory[i] \in {0, state[i].gen} \/ (ppc = "publish" /\ i = pidx)
    /\ reserved[i] /\ ~(ppc \in {"publish", "ring", "latest"} /\ i = pidx) =>
         ~state[i].pub /\ memory[i] = 0

LifeInv ==
  \A c \in Consumers :
    /\ life[c] \in {"granted", "open", "dropped", "exited"} => c \in claims
    /\ quiescent[c] => life[c] = "gone"
    /\ \A s \in Slots : slot[c][s] # 0 => life[c] \in {"open", "dropped", "exited"}

LeaseInv ==
  \A c \in Consumers, s \in Slots :
    lease[c][s] # 0 =>
      /\ life[c] \in {"open", "dropped"}
      /\ slot[c][s] <= cursor
      /\ Protected(c, s, lease[c][s] - 1, slot[c][s])

ThreadInv ==
  \A t \in Threads :
    tpc[t] # "idle" => life[Owner[t]] = "open" /\ tcur[t] # 0 /\ tcur[t] <= cursor

ValidInv ==
  \A t \in Threads :
    tpc[t] \in {"open", "read"} => Protected(Owner[t], tslot[t], tidx[t], tcur[t])

HoldInv ==
  \A t \in Threads : Holding(t) =>
    /\ slot[Owner[t]][tslot[t]] = tcur[t]
    /\ lease[Owner[t]][tslot[t]] = 0
    /\ \A u \in Threads :
         Holding(u) /\ u # t /\ Owner[u] = Owner[t] => tslot[u] # tslot[t]

\* Every claim has an owner.
OwnerInv ==
  \A c \in Consumers, s \in Slots :
    slot[c][s] # 0 =>
      \/ lease[c][s] # 0
      \/ life[c] = "exited"
      \/ \E t \in Threads : Owner[t] = c /\ tslot[t] = s /\ Holding(t)

Inv ==
  /\ TypeOK /\ ProducerInv /\ StateInv
  /\ LifeInv /\ LeaseInv /\ ThreadInv /\ ValidInv /\ HoldInv /\ OwnerInv

-----------------------------------------------------------------------------
\* The bounds of the index sets, from the assumption on the constants.
LEMMA Ranges ==
  /\ \A n \in Nat : n % Resources \in Index
  /\ \A n \in Nat : n % History \in 0 .. History - 1
  /\ 0 \in Index /\ 1 \in Slots /\ 0 \in 0 .. MaxGeneration /\ 0 \in 0 .. Resources
  /\ \A i \in Index : i + 1 \in 0 .. Resources /\ i \in Nat
BY ArenaAssumption DEF Index, Slots

\* A freshly created arena satisfies the inductive invariant.
LEMMA InitInv == Init => Inv
<1> SUFFICES ASSUME Init PROVE Inv
  BY Zenon
<1> USE ArenaAssumption DEF Init
<1>1. TypeOK
  BY Ranges, Zenon DEF TypeOK, SharedType, ProducerType, ConsumerType, ThreadType
<1>2. ProducerInv /\ StateInv
  BY DEF ProducerInv, StateInv, Index
<1>3. LifeInv /\ LeaseInv
  BY Zenon DEF LifeInv, LeaseInv, Slots
<1>4. ThreadInv /\ ValidInv /\ HoldInv
  BY Zenon DEF ThreadInv, ValidInv, HoldInv, Holding
<1>5. OwnerInv
  BY Zenon DEF OwnerInv, Slots
<1> QED
  BY <1>1, <1>2, <1>3, <1>4, <1>5, Zenon DEF Inv

-----------------------------------------------------------------------------
(* Types. *)

\* The producer's own types are kept by a call that returns.
LEMMA FinishType ==
  ASSUME Finish
  PROVE  /\ ppc' = "idle" /\ pop' = "publish" /\ offset' \in 0 .. Resources
         /\ pidx' \in Index /\ unscanned' \in SUBSET (Consumers \X Slots)
BY ArenaAssumption, Ranges, Zenon DEF Finish

\* Updating one claim word keeps the claim pages well typed.
LEMMA SlotUpdate ==
  ASSUME ConsumerType, NEW c \in Consumers, NEW s \in Slots
  PROVE  /\ \A v \in 0 .. MaxGeneration :
               [slot EXCEPT ![c][s] = v] \in [Consumers -> [Slots -> 0 .. MaxGeneration]]
         /\ \A v \in 0 .. Resources :
               [lease EXCEPT ![c][s] = v] \in [Consumers -> [Slots -> 0 .. Resources]]
BY Zenon DEF ConsumerType

\* A thread that leaves acquire has well-typed locals again.
LEMMA ReturnType ==
  ASSUME ThreadType, NEW t \in Threads, Return(t) PROVE ThreadType'
BY Ranges, Zenon DEF ThreadType, Return

\* The scan in publish and reserve only visits resources of the arena.
LEMMA CandidateInIndex == TypeOK => Candidate \in Index
<1> SUFFICES ASSUME TypeOK PROVE Candidate \in Index
  BY Zenon
<1>1. next_slot + offset \in Nat
  BY ArenaAssumption DEF TypeOK, ProducerType, Index
<1> QED
  BY <1>1, Ranges, Zenon DEF Candidate

\* What the scan retires has left the retained window.
LEMMA RetiredIsOld ==
  ASSUME TypeOK, Retire PROVE state[Candidate].gen < Oldest(cursor)
<1>1. Oldest(cursor) \in Nat /\ 0 < Oldest(cursor)
  BY ArenaAssumption DEF TypeOK, ProducerType, Oldest
<1>2. state[Candidate].gen \in Nat
  BY CandidateInIndex DEF TypeOK, SharedType
<1>3. state[Candidate].gen = 0 \/ ~(state[Candidate].gen >= Oldest(cursor))
  BY Zenon DEF Retire, Passed
<1> QED
  BY <1>1, <1>2, <1>3

\* A lease names a resource of the table.
LEMMA LeaseInTable ==
  ASSUME TypeOK, NEW c \in Consumers, NEW s \in Slots, lease[c][s] # 0
  PROVE  lease[c][s] - 1 \in Index /\ slot[c][s] \in 0 .. MaxGeneration
<1>1. lease[c][s] \in 0 .. Resources /\ slot[c][s] \in 0 .. MaxGeneration
  BY Zenon DEF TypeOK, ConsumerType
<1> QED
  BY <1>1, ArenaAssumption DEF Index

\* Every producer step (publish, reserve, commit, attach, close, cleanup) keeps the types.
LEMMA ProducerTypes ==
  ASSUME Inv, Producer PROVE TypeOK'
<1> USE DEF shared, pages, producer, threads
<1> TypeOK /\ ProducerInv
  BY Zenon DEF Inv
<1> cursor < MaxGeneration => cursor + 1 \in 0 .. MaxGeneration
  BY ArenaAssumption DEF TypeOK, ProducerType
<1> USE DEF TypeOK
<1>1. ThreadType' /\ ConsumerType'
  <2>1. UNCHANGED <<quiescent, slot, lease, threads>> /\ active' \in [Consumers -> BOOLEAN]
    BY ZenonT(30) DEF Producer, PollCleanup, Stop, Attach, Close, BeginScan, SkipResource, Retire, Drop,
           CheckClaim, PrepareRefuses, BeginWrite, EndWrite, TakeReservation, Commit, Abandon,
           StoreState, StoreRing, StoreLatest, ConsumerType
  <2>2. UNCHANGED life \/ \E c \in Consumers : life' = [life EXCEPT ![c] = "granted"]
    BY Zenon DEF Producer, PollCleanup, Stop, Attach, Close, BeginScan, SkipResource, Retire, Drop,
           CheckClaim, PrepareRefuses, BeginWrite, EndWrite, TakeReservation, Commit, Abandon,
           StoreState, StoreRing, StoreLatest
  <2> QED
    BY <2>1, <2>2, Zenon DEF ThreadType, ConsumerType
<1>2. SharedType'
  <2>1. CASE UNCHANGED <<state, memory, ring, latest>> /\ terminal' \in BOOLEAN
    BY <2>1, Zenon DEF SharedType
  <2>2. CASE Retire
    BY <2>2, Ranges, Zenon DEF Retire, SharedType, ProducerType, Candidate, Index
  <2>3. CASE BeginWrite \/ TakeReservation
    BY <2>3, Ranges, Zenon DEF BeginWrite, TakeReservation, SharedType, ProducerType
  <2>4. CASE EndWrite
    BY <2>4, Zenon DEF EndWrite, SharedType, ProducerType, ProducerInv
  <2>5. CASE StoreState
    BY <2>5, Zenon DEF StoreState, SharedType, ProducerType, ProducerInv
  <2>6. CASE StoreRing
    BY <2>6, Ranges, ArenaAssumption, Zenon
       DEF StoreRing, RingPosition, SharedType, ProducerType, ProducerInv
  <2>7. CASE StoreLatest
    BY <2>7, Zenon DEF StoreLatest, SharedType, ProducerType, ProducerInv
  <2> QED
    BY <2>1, <2>2, <2>3, <2>4, <2>5, <2>6, <2>7, Zenon
       DEF Producer, PollCleanup, Stop, Attach, Close, BeginScan, SkipResource, Drop, CheckClaim,
           PrepareRefuses, Commit, Abandon, SharedType
<1>3. ProducerType'
  <2>1. CASE \/ PollCleanup \/ Stop
             \/ \E c \in Consumers : Attach(c) \/ Close(c)
             \/ \E op \in {"publish", "reserve"} : BeginScan(op)
    BY <2>1, ArenaAssumption DEF PollCleanup, Stop, Attach, Close, BeginScan, ProducerType
  <2>2. CASE SkipResource \/ PrepareRefuses \/ (\E c \in Consumers, s \in Slots : CheckClaim(c, s))
    <3>1. offset < Resources => offset + 1 \in 0 .. Resources
      BY ArenaAssumption DEF ProducerType
    <3> QED
      BY <2>2, <3>1, FinishType, Zenon
         DEF SkipResource, PrepareRefuses, CheckClaim, ProducerType, ProducerInv
  <2>3. CASE Retire
    BY <2>3, Ranges DEF Retire, ProducerType, Candidate, Index
  <2>4. CASE BeginWrite \/ EndWrite \/ StoreState \/ StoreRing
    BY <2>4, Zenon DEF BeginWrite, EndWrite, StoreState, StoreRing, ProducerType
  <2>5. CASE Drop \/ TakeReservation
    BY <2>5, FinishType, Zenon DEF Drop, TakeReservation, ProducerType
  <2>6. CASE StoreLatest
    BY <2>6, FinishType, Ranges DEF StoreLatest, ProducerType, ProducerInv
  <2>7. CASE \E i \in Index : Commit(i) \/ Abandon(i)
    BY <2>7, Zenon DEF Commit, Abandon, ProducerType
  <2> QED
    BY <2>1, <2>2, <2>3, <2>4, <2>5, <2>6, <2>7, Zenon DEF Producer
<1> QED
  BY <1>1, <1>2, <1>3, Zenon

\* Every step on the consumer object, its lifetime or its process keeps the types.
LEMMA ConsumerTypes ==
  ASSUME Inv, NEW c \in Consumers, Consumer(c) PROVE TypeOK'
<1> USE DEF shared, pages, producer, threads
<1>1. TypeOK
  BY Zenon DEF Inv
<1>2. SharedType' /\ ProducerType'
  <2>1. UNCHANGED <<shared, producer>>
    BY Zenon DEF Consumer, Import, AbandonGrant, DropConsumer, EndLifetime, Exit, ObserveExit, Release
  <2> QED
    BY <1>1, <2>1, Zenon DEF TypeOK, SharedType, ProducerType
<1>3. ThreadType'
  <2>1. CASE Exit(c)
    BY <1>1, <2>1, Ranges, Zenon DEF TypeOK, Exit, ThreadType
  <2>2. CASE UNCHANGED threads
    BY <1>1, <2>2, Zenon DEF TypeOK, ThreadType
  <2> QED
    BY <2>1, <2>2, Zenon
       DEF Consumer, Import, AbandonGrant, DropConsumer, EndLifetime, ObserveExit, Release
<1>4. ConsumerType'
  <2>1. CASE Import(c) \/ AbandonGrant(c) \/ DropConsumer(c) \/ EndLifetime(c)
    BY <1>1, <2>1, Zenon
       DEF TypeOK, Import, AbandonGrant, DropConsumer, EndLifetime, ConsumerType
  <2>2. CASE Exit(c) \/ ObserveExit(c)
    <3>1. /\ [s \in Slots |-> 0] \in [Slots -> 0 .. MaxGeneration]
          /\ [s \in Slots |-> 0] \in [Slots -> 0 .. Resources]
      BY Ranges, Zenon
    <3>2. CASE Exit(c)
      <4>1. lease' \in [Consumers -> [Slots -> 0 .. Resources]]
        BY <1>1, <3>1, <3>2, Zenon DEF TypeOK, Exit, ConsumerType
      <4> QED
        BY <1>1, <3>2, <4>1, Zenon DEF TypeOK, Exit, ConsumerType
    <3>3. CASE ObserveExit(c)
      <4>1. slot' \in [Consumers -> [Slots -> 0 .. MaxGeneration]]
        BY <1>1, <3>1, <3>3, Zenon DEF TypeOK, ObserveExit, ConsumerType
      <4> QED
        BY <1>1, <3>3, <4>1, Zenon DEF TypeOK, ObserveExit, ConsumerType
    <3> QED
      BY <2>2, <3>2, <3>3, Zenon
  <2>3. ASSUME NEW s \in Slots, Release(c, s) PROVE ConsumerType'
    BY <1>1, <2>3, Ranges, Zenon DEF TypeOK, Release, ConsumerType
  <2> QED
    BY <2>1, <2>2, <2>3, Zenon DEF Consumer
<1> QED
  BY <1>2, <1>3, <1>4, Zenon DEF TypeOK

\* Selecting a cursor to acquire: all three calls choose a published one.
LEMMA SelectFacts ==
  ASSUME Inv, NEW t \in Threads,
         \/ \E after \in 0 .. MaxGeneration : AcquireLatest(t, after) \/ AcquireNext(t, after)
         \/ \E cur \in Cursor : AcquireExact(t, cur)
  PROVE  \E cur \in 1 .. latest : Select(t, cur)
BY ArenaAssumption
   DEF Inv, TypeOK, SharedType, AcquireLatest, AcquireNext, AcquireExact, Oldest, Cursor

\* Every step of a thread inside acquire, and every lease drop, keeps the types.
LEMMA ThreadTypes ==
  ASSUME Inv, NEW t \in Threads, Acquire(t) \/ \E cur \in 1 .. latest : Select(t, cur)
  PROVE  TypeOK'
<1> USE DEF shared, pages, producer, threads
<1>1. TypeOK
  BY Zenon DEF Inv
<1>2. SharedType' /\ ProducerType'
  <2>1. UNCHANGED <<shared, producer>>
    BY Zenon DEF Acquire, Select, ReadRing, ClaimSlot, Validate, CheckOpen, ReadDescriptor, Unclaim
  <2> QED
    BY <1>1, <2>1, Zenon DEF TypeOK, SharedType, ProducerType
<1>3. ThreadType'
  <2>1. CASE Return(t)
    BY <1>1, <2>1, ReturnType, Zenon DEF TypeOK
  <2>2. ASSUME NEW cur \in 1 .. latest, Select(t, cur) PROVE ThreadType'
    <3>1. cur \in 0 .. MaxGeneration
      BY <1>1, ArenaAssumption DEF TypeOK, SharedType
    <3> QED
      BY <1>1, <2>2, <3>1, Zenon DEF TypeOK, Select, ThreadType
  <2>3. CASE ReadRing(t) /\ ~Return(t)
    <3>1. RingPosition(tcur[t]) \in 0 .. History - 1
      <4>1. tcur[t] - 1 \in Nat
        BY <1>1, <2>3 DEF Inv, TypeOK, ThreadType, ThreadInv, ReadRing
      <4> QED
        BY <4>1, Ranges, Zenon DEF RingPosition
    <3>2. ring[RingPosition(tcur[t])] # 0 => ring[RingPosition(tcur[t])] - 1 \in Index
      BY <1>1, <3>1, ArenaAssumption, SMTT(20) DEF TypeOK, SharedType, Index
    <3> QED
      BY <1>1, <2>3, <3>2 DEF TypeOK, ReadRing, ThreadType
  <2>4. CASE ClaimSlot(t) /\ ~Return(t)
    <3>1. tslot[t] < Frames => tslot[t] + 1 \in Slots
      BY <1>1, ArenaAssumption DEF TypeOK, ThreadType, Slots
    <3> QED
      BY <1>1, <2>4, <3>1, Zenon DEF TypeOK, ClaimSlot, ThreadType
  <2>5. CASE Validate(t) \/ CheckOpen(t) \/ (ReadDescriptor(t) /\ ~Return(t))
    BY <1>1, <2>5, Zenon DEF TypeOK, Validate, CheckOpen, ReadDescriptor, ThreadType
  <2> QED
    BY <2>1, <2>2, <2>3, <2>4, <2>5, Zenon DEF Acquire, Unclaim
<1>4. ConsumerType'
  <2> Owner[t] \in Consumers /\ tslot[t] \in Slots /\ tcur[t] \in 0 .. MaxGeneration
    BY <1>1, ArenaAssumption, Zenon DEF TypeOK, ThreadType
  <2> tidx[t] + 1 \in 0 .. Resources
    BY <1>1, Ranges, Zenon DEF TypeOK, ThreadType
  <2>1. CASE UNCHANGED <<pages, life, lease>>
    BY <1>1, <2>1, Zenon DEF TypeOK, ConsumerType
  <2>2. CASE ClaimSlot(t)
    <3>1. UNCHANGED <<active, quiescent, life, lease>>
      BY <2>2, Zenon DEF ClaimSlot
    <3> PICK c \in Consumers, s \in Slots, v \in 0 .. MaxGeneration :
             c = Owner[t] /\ s = tslot[t] /\ v = tcur[t]
      BY Zenon
    <3>2. slot' = slot \/ slot' = [slot EXCEPT ![c][s] = v]
      BY <2>2, Zenon DEF ClaimSlot
    <3>3. ConsumerType
      BY <1>1, Zenon DEF TypeOK
    <3>4. slot' \in [Consumers -> [Slots -> 0 .. MaxGeneration]]
      <4>1. CASE UNCHANGED slot
        BY <3>3, <4>1, Zenon DEF ConsumerType
      <4>2. CASE slot' = [slot EXCEPT ![c][s] = v]
        BY <3>3, <4>2, SlotUpdate, Zenon
      <4> QED
        BY <3>2, <4>1, <4>2, Zenon
    <3> QED
      BY <3>1, <3>3, <3>4, Zenon DEF ConsumerType
  <2>3. CASE ReadDescriptor(t)
    <3>1. UNCHANGED <<active, quiescent, slot, life>>
      BY <2>3, Zenon DEF ReadDescriptor
    <3> PICK c \in Consumers, s \in Slots, v \in 0 .. Resources :
             c = Owner[t] /\ s = tslot[t] /\ v = tidx[t] + 1
      BY Zenon
    <3>2. lease' = lease \/ lease' = [lease EXCEPT ![c][s] = v]
      BY <2>3, Zenon DEF ReadDescriptor
    <3>3. ConsumerType
      BY <1>1, Zenon DEF TypeOK
    <3>4. lease' \in [Consumers -> [Slots -> 0 .. Resources]]
      <4>1. CASE UNCHANGED lease
        BY <3>3, <4>1, Zenon DEF ConsumerType
      <4>2. CASE lease' = [lease EXCEPT ![c][s] = v]
        BY <3>3, <4>2, SlotUpdate, Zenon
      <4> QED
        BY <3>2, <4>1, <4>2, Zenon
    <3> QED
      BY <3>1, <3>3, <3>4, Zenon DEF ConsumerType
  <2>4. CASE Unclaim(t)
    BY <1>1, <2>4, Ranges, Zenon DEF TypeOK, Unclaim, ConsumerType
  <2> QED
    BY <2>1, <2>2, <2>3, <2>4, Zenon DEF Acquire, Select, ReadRing, Validate, CheckOpen
<1> QED
  BY <1>2, <1>3, <1>4, Zenon DEF TypeOK

-----------------------------------------------------------------------------
(* The producer's steps.  They leave the consumers' side alone except for the *)
(* set of tracked pages, so what matters is that they protect what claims     *)
(* protect.                                                                   *)

\* What a producer step leaves alone suffices for the conjuncts about consumers.
LEMMA ProducerFrame ==
  ASSUME Inv, TypeOK',
         UNCHANGED <<slot, quiescent, life, lease, threads>>,
         cursor <= cursor',
         \A c \in Consumers :
           life[c] \in {"granted", "open", "dropped", "exited"} => c \in claims',
         \A c \in Consumers, s \in Slots, i \in Index, g \in 0 .. MaxGeneration :
           c \in claims /\ g <= cursor /\ Protected(c, s, i, g) => Protected(c, s, i, g)'
  PROVE  LifeInv' /\ LeaseInv' /\ ThreadInv' /\ ValidInv' /\ HoldInv' /\ OwnerInv'
<1> USE DEF threads, Inv
<1>1. LifeInv' /\ OwnerInv' /\ HoldInv'
  BY DEF LifeInv, OwnerInv, HoldInv, Holding
<1>2. ThreadInv'
  BY DEF ThreadInv, TypeOK, ThreadType, ProducerType
<1>3. LeaseInv'
  <2> SUFFICES ASSUME NEW c \in Consumers, NEW s \in Slots, lease[c][s] # 0
               PROVE  /\ life[c] \in {"open", "dropped"}
                      /\ slot[c][s] <= cursor'
                      /\ Protected(c, s, lease[c][s] - 1, slot[c][s])'
    BY DEF LeaseInv, Protected, Owned
  <2>1. lease[c][s] - 1 \in Index /\ slot[c][s] \in 0 .. MaxGeneration
    BY ArenaAssumption DEF TypeOK, ConsumerType, Index
  <2>2. /\ life[c] \in {"open", "dropped"} /\ slot[c][s] <= cursor
        /\ Protected(c, s, lease[c][s] - 1, slot[c][s])
    BY Zenon DEF LeaseInv
  <2>3. c \in claims
    BY <2>2, Zenon DEF LifeInv
  <2>4. Protected(c, s, lease[c][s] - 1, slot[c][s])'
    BY <2>1, <2>2, <2>3 DEF Protected, Owned
  <2> QED
    BY <2>1, <2>2, <2>4 DEF TypeOK, ProducerType
<1>4. ValidInv'
  <2> SUFFICES ASSUME NEW t \in Threads, tpc[t] \in {"open", "read"}
               PROVE  Protected(Owner[t], tslot[t], tidx[t], tcur[t])'
    BY Zenon DEF ValidInv
  <2>1. /\ Owner[t] \in Consumers /\ tslot[t] \in Slots /\ tidx[t] \in Index
        /\ tcur[t] \in 0 .. MaxGeneration
    BY ArenaAssumption, Zenon DEF TypeOK, ThreadType
  <2>2. tcur[t] <= cursor /\ Protected(Owner[t], tslot[t], tidx[t], tcur[t])
    BY Zenon DEF ThreadInv, ValidInv
  <2>3. Owner[t] \in claims
    BY <2>1, Zenon DEF LifeInv, ThreadInv
  <2> QED
    BY <2>1, <2>2, <2>3 DEF Protected, Owned
<1> QED
  BY <1>1, <1>2, <1>3, <1>4, Zenon

\* Every producer step keeps the producer's own invariant and protects claims.
LEMMA ProducerPreserves ==
  ASSUME Inv, Producer PROVE Inv'
<1> USE DEF shared, pages, producer, threads
<1>1. TypeOK'
  BY ProducerTypes, Zenon
<1> TypeOK /\ ProducerInv /\ StateInv /\ LifeInv
  BY Zenon DEF Inv
<1>2. ProducerInv' /\ StateInv'
  <2> USE ArenaAssumption DEF TypeOK, SharedType, ProducerType, ProducerInv, StateInv, Index, Oldest
  <2>1. CASE PollCleanup
    BY <2>1, Zenon DEF PollCleanup
  <2>2. CASE Stop
    BY <2>2, Zenon DEF Stop
  <2>3. CASE \E c \in Consumers : Attach(c)
    BY <2>3 DEF Attach
  <2>4. CASE \E c \in Consumers : Close(c)
    BY <2>4 DEF Close
  <2>5. CASE \E op \in {"publish", "reserve"} : BeginScan(op)
    BY <2>5, SMTT(20) DEF BeginScan
  <2>6. CASE SkipResource
    BY <2>6, Zenon DEF SkipResource
  <2>7. CASE Drop
    BY <2>7, Zenon DEF Drop, Finish
  <2>8. CASE \E c \in Consumers, s \in Slots : CheckClaim(c, s)
    <3> PICK c \in Consumers, s \in Slots : CheckClaim(c, s)
      BY <2>8, Zenon
    <3>1. ProducerInv'
      BY Zenon DEF CheckClaim
    <3>2. StateInv'
      BY Zenon DEF CheckClaim
    <3> QED
      BY <3>1, <3>2, Zenon
  <2>9. CASE PrepareRefuses
    BY <2>9, Zenon DEF PrepareRefuses, Finish
  <2>10. CASE BeginWrite
    BY <2>10, Zenon DEF BeginWrite
  <2>11. CASE EndWrite
    BY <2>11, Zenon DEF EndWrite
  <2>12. CASE TakeReservation
    BY <2>12, Zenon DEF TakeReservation, Finish
  <2>13. CASE \E i \in Index : Commit(i)
    <3> PICK i \in Index : Commit(i)
      BY <2>13, Zenon
    <3>1. ProducerInv'
      BY Zenon DEF Commit
    <3>2. StateInv'
      BY ZenonT(20) DEF Commit
    <3> QED
      BY <3>1, <3>2, Zenon
  <2>14. CASE \E i \in Index : Abandon(i)
    <3> PICK i \in Index : Abandon(i)
      BY <2>14, Zenon
    <3>1. ProducerInv'
      BY Zenon DEF Abandon
    <3>2. StateInv'
      BY Zenon DEF Abandon
    <3> QED
      BY <3>1, <3>2, Zenon
  <2>15. CASE StoreState
    BY <2>15, SMTT(20) DEF StoreState
  <2>16. CASE StoreRing
    BY <2>16, Zenon DEF StoreRing
  <2>17. CASE StoreLatest
    <3>1. ProducerInv'
      BY <2>17, Zenon DEF StoreLatest, Finish
    <3>2. StateInv'
      <4> SUFFICES ASSUME NEW i \in Index
                   PROVE  /\ state[i].pub => state[i].gen # 0 /\ memory[i] = state[i].gen
                          /\ state[i].gen <= cursor + 1
                          /\ memory[i] \in {0, state[i].gen}
                          /\ reserved'[i] => ~state[i].pub /\ memory[i] = 0
        BY <2>17, Zenon DEF StoreLatest, Finish
      <4>1. CASE i = pidx
        BY <2>17, <4>1, SMTT(20) DEF StoreLatest
      <4>2. CASE i # pidx
        BY <2>17, <4>2, SMTT(20) DEF StoreLatest
      <4> QED
        BY <4>1, <4>2, Zenon
    <3> QED
      BY <3>1, <3>2, Zenon
  <2>18. CASE Retire
    <3>1. Candidate \in Index
      BY CandidateInIndex, Zenon
    <3>2. ProducerInv'
      <4>1. /\ ppc' = "check" /\ pidx' = Candidate /\ offset < Resources /\ pop # "commit"
            /\ ~reserved[Candidate] /\ ~state'[Candidate].pub
            /\ state'[Candidate].gen = state[Candidate].gen
            /\ UNCHANGED <<latest, cursor, reserved, pop, offset, memory>>
            /\ cursor < MaxGeneration
        BY <2>18, <3>1, Zenon DEF Retire, Passed
      <4>2. state[Candidate].gen < Oldest(cursor)
        BY <2>18, RetiredIsOld, Zenon
      <4> QED
        BY <4>1, <4>2, Zenon
    <3>3. StateInv'
      BY <2>18, <3>1, ZenonT(40) DEF Retire, Passed
    <3> QED
      BY <3>2, <3>3, Zenon
  <2> QED
    BY <2>1, <2>2, <2>3, <2>4, <2>5, <2>6, <2>7, <2>8, <2>9,
       <2>10, <2>11, <2>12, <2>13, <2>14, <2>15, <2>16, <2>17, <2>18, Zenon DEF Producer
<1>3. cursor <= cursor'
  <2>1. cursor' = cursor \/ cursor' = cursor + 1
    BY Zenon DEF Producer, PollCleanup, Stop, Attach, Close, BeginScan, SkipResource, Retire, Drop,
         CheckClaim, PrepareRefuses, BeginWrite, EndWrite, TakeReservation, Commit, Abandon,
         StoreState, StoreRing, StoreLatest
  <2> QED
    BY <2>1 DEF TypeOK, ProducerType
<1>4. UNCHANGED <<slot, quiescent, lease, threads>>
  BY Zenon DEF Producer, PollCleanup, Stop, Attach, Close, BeginScan, SkipResource, Retire, Drop,
       CheckClaim, PrepareRefuses, BeginWrite, EndWrite, TakeReservation, Commit, Abandon,
       StoreState, StoreRing, StoreLatest
<1>5. CASE \E c \in Consumers : Attach(c)
  <2> PICK c \in Consumers : Attach(c)
    BY <1>5, Zenon
  <2>1. /\ UNCHANGED <<shared, ppc, pidx, reserved, cursor, unscanned>>
        /\ life[c] = "free" /\ life' = [life EXCEPT ![c] = "granted"]
        /\ claims \ Collectable \subseteq claims' /\ c \in claims'
    BY Zenon DEF Attach
  <2>2. \A d \in Consumers, s \in Slots : \A i, g : Protected(d, s, i, g)' <=> Protected(d, s, i, g)
    BY <2>1, <1>4 DEF Protected, Owned
  <2>3. LifeInv'
    BY <2>1, <1>4, Zenon DEF LifeInv, Collectable, TypeOK, ConsumerType
  <2>4. LeaseInv' /\ ThreadInv' /\ ValidInv'
    <3>1. LeaseInv'
      BY <2>1, <2>2, <1>4, Zenon DEF Inv, LeaseInv, TypeOK, ConsumerType
    <3>2. ThreadInv'
      BY <2>1, <1>4, ArenaAssumption, Zenon DEF Inv, ThreadInv, TypeOK, ConsumerType
    <3>3. ValidInv'
      BY <2>2, <1>4, ArenaAssumption, Zenon DEF Inv, ValidInv, TypeOK, ThreadType
    <3> QED
      BY <3>1, <3>2, <3>3, Zenon
  <2>5. HoldInv' /\ OwnerInv'
    BY <2>1, <1>4 DEF Inv, HoldInv, OwnerInv, Holding, TypeOK, ConsumerType
  <2> QED
    BY <1>1, <1>2, <2>3, <2>4, <2>5, Zenon DEF Inv
<1>6. CASE UNCHANGED life
  <2>1. \A c \in Consumers :
           life[c] \in {"granted", "open", "dropped", "exited"} => c \in claims'
    BY <1>6, Zenon DEF LifeInv, Collectable, Producer, PollCleanup, Stop, Attach, Close, BeginScan,
         SkipResource, Retire, Drop, CheckClaim, PrepareRefuses, BeginWrite, EndWrite,
         TakeReservation, Commit, Abandon, StoreState, StoreRing, StoreLatest
  <2>2. ASSUME NEW c \in Consumers, NEW s \in Slots, NEW i \in Index, NEW g \in 0 .. MaxGeneration,
               c \in claims, g <= cursor, Protected(c, s, i, g)
        PROVE  Protected(c, s, i, g)'
    <3> USE <2>2 DEF Protected, Owned
    <3>1. CASE PollCleanup
      BY <3>1, Zenon DEF PollCleanup, TypeOK, SharedType, ProducerType, ProducerInv
    <3>2. CASE Stop
      BY <3>2, Zenon DEF Stop, TypeOK, SharedType, ProducerType, ProducerInv
    <3>3. CASE \E d \in Consumers : Close(d)
      BY <3>3, Zenon DEF Close, TypeOK, SharedType, ProducerType, ProducerInv
    <3>4. CASE \E op \in {"publish", "reserve"} : BeginScan(op)
      BY <3>4, Zenon DEF BeginScan, TypeOK, SharedType, ProducerType, ProducerInv
    <3>5. CASE SkipResource
      BY <3>5, Zenon DEF SkipResource, TypeOK, SharedType, ProducerType, ProducerInv
    <3>6. CASE Drop
      BY <3>6, Zenon DEF Drop, Finish, TypeOK, SharedType, ProducerType, ProducerInv
    <3>7. CASE \E d \in Consumers, r \in Slots : CheckClaim(d, r)
      BY <3>7, Zenon DEF CheckClaim, TypeOK, SharedType, ProducerType, ProducerInv
    <3>8. CASE PrepareRefuses
      BY <3>8, Zenon DEF PrepareRefuses, Finish, TypeOK, SharedType, ProducerType, ProducerInv
    <3>9. CASE BeginWrite
      BY <3>9, Zenon DEF BeginWrite, TypeOK, SharedType, ProducerType, ProducerInv
    <3>10. CASE EndWrite
      BY <3>10, Zenon DEF EndWrite, TypeOK, SharedType, ProducerType, ProducerInv
    <3>11. CASE TakeReservation
      BY <3>11, Zenon DEF TakeReservation, Finish, TypeOK, SharedType, ProducerType, ProducerInv
    <3>12. CASE \E j \in Index : Commit(j)
      BY <3>12, Zenon DEF Commit, TypeOK, SharedType, ProducerType, ProducerInv
    <3>13. CASE \E j \in Index : Abandon(j)
      BY <3>13, Zenon DEF Abandon, TypeOK, SharedType, ProducerType, ProducerInv
    <3>14. CASE StoreState
      BY <3>14, Zenon DEF StoreState, TypeOK, SharedType, ProducerType, ProducerInv
    <3>15. CASE StoreRing
      BY <3>15, Zenon DEF StoreRing, TypeOK, SharedType, ProducerType, ProducerInv
    <3>16. CASE StoreLatest
      BY <3>16, Zenon DEF StoreLatest, Finish, TypeOK, SharedType, ProducerType, ProducerInv
    <3>17. CASE Retire
      <4>1. Candidate \in Index
        BY CandidateInIndex, Zenon
      <4> QED
        BY <3>17, <4>1, Zenon DEF Retire, Passed, TypeOK, SharedType, ProducerType
    <3>18. CASE \E d \in Consumers : Attach(d)
      BY <3>18, <1>6, Zenon DEF Attach, TypeOK, ConsumerType
    <3> QED
      BY <3>1, <3>2, <3>3, <3>4, <3>5, <3>6, <3>7, <3>8, <3>9,
         <3>10, <3>11, <3>12, <3>13, <3>14, <3>15, <3>16, <3>17, <3>18, Zenon DEF Producer
  <2> QED
    BY <1>1, <1>2, <1>3, <1>4, <1>6, <2>1, <2>2, ProducerFrame, Zenon DEF Inv
<1> QED
  BY <1>5, <1>6, Zenon DEF Producer, PollCleanup, Stop, Close, BeginScan, SkipResource, Retire, Drop,
       CheckClaim, PrepareRefuses, BeginWrite, EndWrite, TakeReservation, Commit, Abandon,
       StoreState, StoreRing, StoreLatest

-----------------------------------------------------------------------------
(* The consumers' steps leave the producer's side alone. *)

\* What a step on a consumer object leaves alone suffices for the conjuncts about the producer.
LEMMA ConsumerFrame ==
  ASSUME Inv, TypeOK', UNCHANGED <<shared, producer>>
  PROVE  /\ ProducerInv' /\ StateInv'
         /\ \A c \in Consumers, s \in Slots, i \in Index, g \in 0 .. MaxGeneration :
              slot'[c][s] = slot[c][s] /\ Protected(c, s, i, g) => Protected(c, s, i, g)'
<1> USE DEF shared, producer, Inv
<1>1. ProducerInv'
  BY Zenon DEF ProducerInv
<1>2. StateInv'
  BY Zenon DEF StateInv
<1>3. \A c \in Consumers, s \in Slots, i \in Index, g \in 0 .. MaxGeneration :
        slot'[c][s] = slot[c][s] /\ Protected(c, s, i, g) => Protected(c, s, i, g)'
  BY DEF Protected, Owned
<1> QED
  BY <1>1, <1>2, <1>3, Zenon

\* Leases and validated claims whose slots did not change stay protected.
LEMMA LeaseFrame ==
  ASSUME Inv, TypeOK', UNCHANGED <<shared, producer>>,
         NEW c \in Consumers, NEW s \in Slots,
         lease[c][s] # 0, lease'[c][s] = lease[c][s], slot'[c][s] = slot[c][s],
         life'[c] \in {"open", "dropped"}
  PROVE  /\ life'[c] \in {"open", "dropped"} /\ slot'[c][s] <= cursor'
         /\ Protected(c, s, lease[c][s] - 1, slot[c][s])'
<1>1. lease[c][s] - 1 \in Index /\ slot[c][s] \in 0 .. MaxGeneration
  BY LeaseInTable, Zenon DEF Inv
<1>2. slot[c][s] <= cursor /\ Protected(c, s, lease[c][s] - 1, slot[c][s])
  BY Zenon DEF Inv, LeaseInv
<1>3. Protected(c, s, lease[c][s] - 1, slot[c][s])'
  BY <1>1, <1>2, ConsumerFrame, Zenon
<1> QED
  BY <1>2, <1>3, Zenon DEF producer

\* A validated claim whose slot did not change stays valid.
LEMMA ValidFrame ==
  ASSUME Inv, TypeOK', UNCHANGED <<shared, producer>>,
         NEW t \in Threads, tpc[t] \in {"open", "read"},
         tcur'[t] = tcur[t], tidx'[t] = tidx[t], tslot'[t] = tslot[t],
         slot'[Owner[t]][tslot[t]] = slot[Owner[t]][tslot[t]]
  PROVE  Protected(Owner[t], tslot[t], tidx[t], tcur[t])'
<1>1. /\ Owner[t] \in Consumers /\ tslot[t] \in Slots /\ tidx[t] \in Index
      /\ tcur[t] \in 0 .. MaxGeneration
  BY ArenaAssumption, Zenon DEF Inv, TypeOK, ThreadType
<1>2. Protected(Owner[t], tslot[t], tidx[t], tcur[t])
  BY Zenon DEF Inv, ValidInv
<1>3. \A c \in Consumers, s \in Slots, i \in Index, g \in 0 .. MaxGeneration :
        slot'[c][s] = slot[c][s] /\ Protected(c, s, i, g) => Protected(c, s, i, g)'
  BY ConsumerFrame, Zenon
<1> QED
  BY <1>1, <1>2, <1>3 DEF Protected, Owned

\* The owner object's steps: import, drop, end of lifetime, abandoned grant.
LEMMA OwnerObjectPreserves ==
  ASSUME Inv, NEW c \in Consumers,
         Import(c) \/ AbandonGrant(c) \/ DropConsumer(c) \/ EndLifetime(c)
  PROVE  Inv'
<1> USE DEF shared, pages, producer, threads
<1>1. TypeOK'
  BY ConsumerTypes, Zenon DEF Consumer
<1>2. /\ UNCHANGED <<shared, producer, slot, lease, threads>>
      /\ \A d \in Consumers \ {c} : life'[d] = life[d] /\ quiescent'[d] = quiescent[d]
  BY Zenon DEF Import, AbandonGrant, DropConsumer, EndLifetime, Inv, TypeOK, ConsumerType
<1>3. ProducerInv' /\ StateInv'
  BY <1>1, <1>2, ConsumerFrame, Zenon
<1>4. \A s \in Slots : life'[c] = "gone" => slot[c][s] = 0 /\ lease[c][s] = 0
  <2>1. CASE Import(c) \/ DropConsumer(c)
    BY <2>1, Zenon DEF Import, DropConsumer, Inv, TypeOK, ConsumerType
  <2>2. CASE AbandonGrant(c)
    BY <2>2, ZenonT(40) DEF AbandonGrant, Inv, LifeInv, LeaseInv
  <2>3. CASE EndLifetime(c)
    <3>1. \A t \in Threads : Owner[t] = c => ~Holding(t)
      BY <2>3, Zenon DEF EndLifetime, Inv, ThreadInv, Holding
    <3> QED
      BY <2>3, <3>1, ZenonT(30) DEF EndLifetime, Inv, OwnerInv
  <2> QED
    BY <2>1, <2>2, <2>3, Zenon
<1>5. \A t \in Threads : Owner[t] = c /\ life'[c] # "open" => tpc[t] = "idle"
  BY Zenon DEF Import, AbandonGrant, DropConsumer, EndLifetime, Inv, TypeOK, ConsumerType, ThreadInv
<1>6. /\ life[c] \in {"granted", "open", "dropped"}
      /\ life'[c] \in {"open", "dropped", "gone"}
      /\ quiescent'[c] => life'[c] = "gone"
      /\ life[c] = "granted" => life'[c] \in {"open", "gone"}
  BY Zenon DEF Import, AbandonGrant, DropConsumer, EndLifetime, Inv, TypeOK, ConsumerType, LifeInv
<1>7. LifeInv'
  BY <1>2, <1>4, <1>6, Zenon DEF Inv, LifeInv
<1>8. LeaseInv'
  <2> SUFFICES ASSUME NEW d \in Consumers, NEW s \in Slots, lease[d][s] # 0
               PROVE  /\ life'[d] \in {"open", "dropped"} /\ slot'[d][s] <= cursor'
                      /\ Protected(d, s, lease[d][s] - 1, slot[d][s])'
    BY <1>2, Zenon DEF LeaseInv
  <2>1. life'[d] \in {"open", "dropped"}
    BY <1>2, <1>4, <1>6, Zenon DEF Inv, LeaseInv
  <2> QED
    BY <1>1, <1>2, <2>1, LeaseFrame, Zenon
<1>9. ThreadInv'
  BY <1>2, <1>5, ArenaAssumption, Zenon DEF Inv, ThreadInv
<1>10. ValidInv'
  BY <1>1, <1>2, ValidFrame, Zenon DEF ValidInv, Protected, Owned
<1>11. HoldInv' /\ OwnerInv'
  BY <1>2, <1>4, <1>6 DEF Inv, HoldInv, OwnerInv, Holding
<1> QED
  BY <1>1, <1>3, <1>7, <1>8, <1>9, <1>10, <1>11, Zenon DEF Inv

\* Process exit, its observation, and the drop of a lease.
LEMMA ExitPreserves ==
  ASSUME Inv, NEW c \in Consumers, Exit(c) PROVE Inv'
<1> USE DEF shared, pages, producer, threads
<1>1. TypeOK'
  BY ConsumerTypes, Zenon DEF Consumer
<1>2. /\ UNCHANGED <<shared, producer, slot, quiescent>>
      /\ life[c] \in {"granted", "open", "dropped"} /\ life'[c] = "exited"
      /\ \A d \in Consumers \ {c} : life'[d] = life[d] /\ lease'[d] = lease[d]
      /\ \A s \in Slots : lease'[c][s] = 0
  BY Zenon DEF Exit, Inv, TypeOK, ConsumerType
<1>3. \A t \in Threads :
        IF Owner[t] = c THEN tpc'[t] = "idle"
        ELSE /\ tpc'[t] = tpc[t] /\ tcur'[t] = tcur[t]
             /\ tidx'[t] = tidx[t] /\ tslot'[t] = tslot[t]
  BY Zenon DEF Exit
<1>4. ProducerInv' /\ StateInv'
  BY <1>1, <1>2, ConsumerFrame, Zenon
<1>5. LifeInv'
  BY <1>2, Zenon DEF Inv, LifeInv
<1>6. LeaseInv'
  <2> SUFFICES ASSUME NEW d \in Consumers, NEW s \in Slots, lease'[d][s] # 0
               PROVE  /\ life'[d] \in {"open", "dropped"} /\ slot'[d][s] <= cursor'
                      /\ Protected(d, s, lease[d][s] - 1, slot[d][s])'
    BY <1>2, Zenon DEF LeaseInv
  <2>1. d # c /\ lease'[d][s] = lease[d][s] /\ life'[d] = life[d]
    BY <1>2, Zenon
  <2>2. life'[d] \in {"open", "dropped"}
    BY <2>1, Zenon DEF Inv, LeaseInv
  <2>3. Protected(d, s, lease[d][s] - 1, slot[d][s])' /\ slot'[d][s] <= cursor'
    BY <1>1, <1>2, <2>1, <2>2, LeaseFrame, Zenon
  <2> QED
    BY <2>2, <2>3, Zenon
<1>7. ThreadInv'
  BY <1>2, <1>3, ArenaAssumption, Zenon DEF Inv, ThreadInv
<1>8. ValidInv'
  <2> SUFFICES ASSUME NEW t \in Threads, tpc'[t] \in {"open", "read"}
               PROVE  Protected(Owner[t], tslot[t], tidx[t], tcur[t])'
    BY Zenon DEF ValidInv
  <2> QED
    BY <1>1, <1>2, <1>3, ValidFrame, Zenon
<1>9. HoldInv'
  BY <1>2, <1>3, ArenaAssumption DEF Inv, HoldInv, Holding
<1>10. OwnerInv'
  BY <1>2, <1>3 DEF Inv, OwnerInv, Holding
<1> QED
  BY <1>1, <1>4, <1>5, <1>6, <1>7, <1>8, <1>9, <1>10, Zenon DEF Inv

\* Returning the credits of an exited process (observe_process) keeps the invariant.
LEMMA ObserveExitPreserves ==
  ASSUME Inv, NEW c \in Consumers, ObserveExit(c) PROVE Inv'
<1> USE DEF shared, pages, producer, threads
<1>1. TypeOK'
  BY ConsumerTypes, Zenon DEF Consumer
<1>2. /\ UNCHANGED <<shared, producer, lease, threads>>
      /\ life[c] = "exited" /\ life'[c] = "gone"
      /\ \A d \in Consumers \ {c} :
           life'[d] = life[d] /\ quiescent'[d] = quiescent[d] /\ slot'[d] = slot[d]
      /\ \A s \in Slots : slot'[c][s] = 0
  BY Zenon DEF ObserveExit, Inv, TypeOK, ConsumerType
<1>3. /\ \A s \in Slots : lease[c][s] = 0
      /\ \A t \in Threads : Owner[t] = c => tpc[t] = "idle"
  BY <1>2, Zenon DEF Inv, LeaseInv, ThreadInv
<1>4. ProducerInv' /\ StateInv'
  BY <1>1, <1>2, ConsumerFrame, Zenon
<1>5. LifeInv'
  BY <1>2 DEF Inv, LifeInv
<1>6. LeaseInv'
  <2> SUFFICES ASSUME NEW d \in Consumers, NEW s \in Slots, lease[d][s] # 0
               PROVE  /\ life'[d] \in {"open", "dropped"} /\ slot'[d][s] <= cursor'
                      /\ Protected(d, s, lease[d][s] - 1, slot[d][s])'
    BY <1>2, Zenon DEF LeaseInv
  <2>1. d # c /\ slot'[d][s] = slot[d][s] /\ life'[d] \in {"open", "dropped"}
    BY <1>2, <1>3, Zenon DEF Inv, LeaseInv
  <2>2. Protected(d, s, lease[d][s] - 1, slot[d][s])' /\ slot'[d][s] <= cursor'
    BY <1>1, <1>2, <2>1, LeaseFrame, Zenon
  <2> QED
    BY <2>1, <2>2, Zenon
<1>7. ThreadInv'
  BY <1>2, <1>3, ArenaAssumption DEF Inv, ThreadInv
<1>8. ValidInv'
  <2> SUFFICES ASSUME NEW t \in Threads, tpc[t] \in {"open", "read"}
               PROVE  Protected(Owner[t], tslot[t], tidx[t], tcur[t])'
    BY <1>2, Zenon DEF ValidInv
  <2>1. slot'[Owner[t]] = slot[Owner[t]]
    BY <1>2, <1>3, ArenaAssumption, Zenon
  <2> QED
    BY <1>1, <1>2, <2>1, ValidFrame, Zenon
<1>9. HoldInv'
  BY <1>2, <1>3, ArenaAssumption DEF Inv, HoldInv, Holding
<1>10. OwnerInv'
  BY <1>2 DEF Inv, OwnerInv, Holding
<1> QED
  BY <1>1, <1>4, <1>5, <1>6, <1>7, <1>8, <1>9, <1>10, Zenon DEF Inv

\* A claim slot is emptied by the one that owns it.
LEMMA ReleasePreserves ==
  ASSUME Inv, NEW c \in Consumers, NEW s \in Slots, Release(c, s) PROVE Inv'
<1> USE DEF shared, pages, producer, threads
<1>1. TypeOK'
  BY ConsumerTypes, Zenon DEF Consumer
<1>2. /\ UNCHANGED <<shared, producer, quiescent, life, threads>>
      /\ lease[c][s] # 0 /\ slot'[c][s] = 0 /\ lease'[c][s] = 0
      /\ \A d \in Consumers, r \in Slots : d # c \/ r # s =>
           slot'[d][r] = slot[d][r] /\ lease'[d][r] = lease[d][r]
  BY Zenon DEF Release, Inv, TypeOK, ConsumerType
<1>3. \A t \in Threads : Owner[t] = c /\ tslot[t] = s => ~Holding(t)
  BY <1>2, Zenon DEF Inv, HoldInv
<1>4. ProducerInv' /\ StateInv'
  BY <1>1, <1>2, ConsumerFrame, Zenon
<1>5. LifeInv'
  BY <1>2 DEF Inv, LifeInv
<1>6. LeaseInv'
  <2> SUFFICES ASSUME NEW d \in Consumers, NEW r \in Slots, lease'[d][r] # 0
               PROVE  /\ life'[d] \in {"open", "dropped"} /\ slot'[d][r] <= cursor'
                      /\ Protected(d, r, lease[d][r] - 1, slot[d][r])'
    BY Zenon DEF LeaseInv
  <2>1. slot'[d][r] = slot[d][r] /\ lease'[d][r] = lease[d][r]
    BY <1>2, Zenon
  <2>2. life'[d] \in {"open", "dropped"}
    BY <1>2, <2>1, Zenon DEF Inv, LeaseInv
  <2> QED
    BY <1>1, <1>2, <2>1, <2>2, LeaseFrame, Zenon
<1>7. ThreadInv'
  BY <1>2, Zenon DEF Inv, ThreadInv
<1>8. ValidInv'
  <2> SUFFICES ASSUME NEW t \in Threads, tpc[t] \in {"open", "read"}
               PROVE  Protected(Owner[t], tslot[t], tidx[t], tcur[t])'
    BY <1>2, Zenon DEF ValidInv
  <2>1. slot'[Owner[t]][tslot[t]] = slot[Owner[t]][tslot[t]]
    BY <1>2, <1>3, ArenaAssumption, SMTT(20) DEF Holding, Inv, TypeOK, ThreadType
  <2> QED
    BY <1>1, <1>2, <2>1, ValidFrame, Zenon
<1>9. HoldInv'
  <2>1. \A t \in Threads : Owner[t] \in Consumers /\ tslot[t] \in Slots
    BY ArenaAssumption, Zenon DEF Inv, TypeOK, ThreadType
  <2> QED
    BY <1>2, <1>3, <2>1 DEF Inv, HoldInv, Holding
<1>10. OwnerInv'
  BY <1>2 DEF Inv, OwnerInv, Holding
<1> QED
  BY <1>1, <1>4, <1>5, <1>6, <1>7, <1>8, <1>9, <1>10, Zenon DEF Inv

-----------------------------------------------------------------------------
(* An acquiring thread.  Steps that touch no page only move the thread. *)

\* Thread t moves; pages, leases and the other threads do not.
LEMMA ThreadMoves ==
  ASSUME Inv, TypeOK', NEW t \in Threads,
         UNCHANGED <<shared, producer, quiescent, slot, life, lease>>,
         \A u \in Threads \ {t} : /\ tpc'[u] = tpc[u] /\ tcur'[u] = tcur[u]
                                   /\ tidx'[u] = tidx[u] /\ tslot'[u] = tslot[u],
         tpc'[t] # "idle" => /\ life[Owner[t]] = "open"
                             /\ tcur'[t] # 0 /\ tcur'[t] <= cursor,
         Holding(t)' <=> Holding(t),
         Holding(t) => tcur'[t] = tcur[t] /\ tslot'[t] = tslot[t] /\ tidx'[t] = tidx[t],
         tpc'[t] \in {"open", "read"} =>
           Protected(Owner[t], tslot[t], tidx[t], tcur[t])
  PROVE  Inv'
<1> USE DEF shared, pages, producer, threads
<1>1. ProducerInv' /\ StateInv'
  BY ConsumerFrame, Zenon
<1>2. LifeInv'
  BY Zenon DEF Inv, LifeInv
<1>3. LeaseInv'
  <2> SUFFICES ASSUME NEW d \in Consumers, NEW r \in Slots, lease[d][r] # 0
               PROVE  /\ life'[d] \in {"open", "dropped"} /\ slot'[d][r] <= cursor'
                      /\ Protected(d, r, lease[d][r] - 1, slot[d][r])'
    BY Zenon DEF LeaseInv
  <2>1. life'[d] \in {"open", "dropped"}
    BY Zenon DEF Inv, LeaseInv
  <2> QED
    BY <2>1, LeaseFrame, Zenon
<1>4. ThreadInv'
  BY Zenon DEF Inv, ThreadInv
<1>5. ValidInv'
  <2> SUFFICES ASSUME NEW u \in Threads, tpc'[u] \in {"open", "read"}
               PROVE  Protected(Owner[u], tslot[u], tidx[u], tcur[u])'
    BY Zenon DEF ValidInv
  <2>1. CASE u = t
    BY <2>1, Zenon DEF Protected, Owned, Holding
  <2>2. CASE u # t
    BY <2>2, ValidFrame, Zenon
  <2> QED
    BY <2>1, <2>2, Zenon
<1>6. HoldInv'
  BY DEF Inv, HoldInv, Holding
<1>7. OwnerInv'
  BY DEF Inv, OwnerInv, Holding
<1> QED
  BY <1>1, <1>2, <1>3, <1>4, <1>5, <1>6, <1>7, Zenon DEF Inv

\* Choosing a cursor (acquire_latest, acquire_next, acquire_exact) keeps the invariant.
LEMMA SelectPreserves ==
  ASSUME Inv, NEW t \in Threads, NEW cur \in 1 .. latest, Select(t, cur) PROVE Inv'
<1> USE DEF shared, pages, producer, threads
<1>1. TypeOK'
  BY ThreadTypes, Zenon
<1>2. /\ UNCHANGED <<shared, producer, quiescent, slot, life, lease>>
      /\ tpc[t] = "idle" /\ tpc'[t] = "ring" /\ tcur'[t] = cur /\ life[Owner[t]] = "open"
      /\ \A u \in Threads \ {t} : /\ tpc'[u] = tpc[u] /\ tcur'[u] = tcur[u]
                                   /\ tidx'[u] = tidx[u] /\ tslot'[u] = tslot[u]
  BY Zenon DEF Select, Inv, TypeOK, ThreadType
<1>3. cur # 0 /\ cur <= cursor
  BY DEF Inv, TypeOK, SharedType, ProducerInv
<1> QED
  BY <1>1, <1>2, <1>3, ThreadMoves, Zenon DEF Holding

\* The steps of acquire that only read shared words keep the invariant.
LEMMA MovePreserves ==
  ASSUME Inv, NEW t \in Threads,
         \/ ReadRing(t) \/ Validate(t) \/ CheckOpen(t)
         \/ (ClaimSlot(t) /\ slot[Owner[t]][tslot[t]] # 0)
         \/ (ReadDescriptor(t) /\ memory[tidx[t]] # tcur[t])
  PROVE  Inv'
<1> USE DEF shared, pages, producer, threads
<1>1. TypeOK'
  BY ThreadTypes, Zenon DEF Acquire
<1>2. UNCHANGED <<shared, producer, quiescent, slot, life, lease>>
  BY Zenon DEF ReadRing, Validate, CheckOpen, ClaimSlot, ReadDescriptor
<1>3. \A u \in Threads \ {t} : /\ tpc'[u] = tpc[u] /\ tcur'[u] = tcur[u]
                                /\ tidx'[u] = tidx[u] /\ tslot'[u] = tslot[u]
  BY Zenon DEF ReadRing, Validate, CheckOpen, ClaimSlot, ReadDescriptor, Return, Inv, TypeOK, ThreadType
<1>4. life[Owner[t]] = "open" /\ tcur[t] # 0 /\ tcur[t] <= cursor
  BY Zenon DEF ReadRing, Validate, CheckOpen, ClaimSlot, ReadDescriptor, Inv, ThreadInv
<1>5. tpc'[t] # "idle" => tcur'[t] = tcur[t]
  BY Zenon DEF ReadRing, Validate, CheckOpen, ClaimSlot, ReadDescriptor, Return, Inv, TypeOK, ThreadType
<1>6. /\ Holding(t)' <=> Holding(t)
      /\ Holding(t) => tcur'[t] = tcur[t] /\ tslot'[t] = tslot[t] /\ tidx'[t] = tidx[t]
  BY Zenon DEF ReadRing, Validate, CheckOpen, ClaimSlot, ReadDescriptor, Return, Holding,
         Inv, TypeOK, ThreadType
<1>7. ASSUME tpc'[t] \in {"open", "read"} PROVE Protected(Owner[t], tslot[t], tidx[t], tcur[t])
  <2>1. CASE tpc[t] \in {"open", "read"}
    BY <2>1, Zenon DEF Inv, ValidInv
  <2>2. CASE Validate(t)
    <3>1. /\ tidx[t] \in Index /\ state[tidx[t]] = [gen |-> tcur[t], pub |-> TRUE]
          /\ slot[Owner[t]][tslot[t]] = tcur[t]
      BY <2>2, <1>7, Zenon DEF Validate, Inv, TypeOK, ThreadType, HoldInv, Holding
    <3>2. state[tidx[t]].gen = tcur[t] /\ state[tidx[t]].pub /\ memory[tidx[t]] = tcur[t]
      BY <3>1 DEF Inv, StateInv
    <3>3. ~(ppc \in {"ring", "latest"} /\ pidx = tidx[t])
      BY <1>4, <3>2 DEF Inv, ProducerInv, TypeOK, ProducerType
    <3>4. ~Owned(tidx[t])
      BY <3>1, <3>2, <3>3, <1>4, Zenon DEF Owned, Inv, ProducerInv, StateInv
    <3>5. ~(ppc = "check" /\ pidx = tidx[t])
      BY <3>2, Zenon DEF Inv, ProducerInv
    <3> QED
      BY <1>4, <3>1, <3>2, <3>4, <3>5, Zenon DEF Protected
  <2> QED
    BY <1>7, <2>1, <2>2, Zenon DEF ReadRing, CheckOpen, ClaimSlot, ReadDescriptor, Return,
       Inv, TypeOK, ThreadType
<1> QED
  BY <1>1, <1>2, <1>3, <1>4, <1>5, <1>6, <1>7, ThreadMoves, Zenon

\* The claim: an empty slot of the thread's own page.
LEMMA ClaimPreserves ==
  ASSUME Inv, NEW t \in Threads, ClaimSlot(t), slot[Owner[t]][tslot[t]] = 0 PROVE Inv'
<1> USE DEF shared, pages, producer, threads
<1>1. TypeOK'
  BY ThreadTypes, Zenon DEF Acquire
<1>0. /\ Owner[t] \in Consumers /\ tslot[t] \in Slots
      /\ \A u \in Threads : Owner[u] \in Consumers /\ tslot[u] \in Slots
  BY ArenaAssumption, Zenon DEF Inv, TypeOK, ThreadType
<1>2. /\ UNCHANGED <<shared, producer, quiescent, life, lease, tcur, tidx, tslot>>
      /\ tpc[t] = "claim" /\ tpc'[t] = "validate"
      /\ \A u \in Threads \ {t} : tpc'[u] = tpc[u]
  BY Zenon DEF ClaimSlot, Inv, TypeOK, ThreadType
<1>3. /\ slot'[Owner[t]][tslot[t]] = tcur[t]
      /\ \A d \in Consumers, r \in Slots : d # Owner[t] \/ r # tslot[t] => slot'[d][r] = slot[d][r]
  <2> PICK c \in Consumers, s \in Slots : c = Owner[t] /\ s = tslot[t]
    BY <1>0, Zenon
  <2>1. slot' = [slot EXCEPT ![c][s] = tcur[t]]
    BY Zenon DEF ClaimSlot
  <2> QED
    BY <2>1, Zenon DEF Inv, TypeOK, ConsumerType
<1>4. life[Owner[t]] = "open" /\ tcur[t] # 0 /\ tcur[t] <= cursor
  BY <1>2, Zenon DEF Inv, ThreadInv
<1>5. /\ lease[Owner[t]][tslot[t]] = 0
      /\ \A u \in Threads : Holding(u) => Owner[u] # Owner[t] \/ tslot[u] # tslot[t]
  <2>1. lease[Owner[t]][tslot[t]] = 0
    BY <1>0, Zenon DEF Inv, LeaseInv, Protected
  <2>2. \A u \in Threads : Holding(u) => slot[Owner[u]][tslot[u]] # 0
    BY DEF Inv, HoldInv, ThreadInv, Holding
  <2> QED
    BY <2>1, <2>2, Zenon
<1>6. ProducerInv' /\ StateInv'
  BY <1>1, <1>2, ConsumerFrame, Zenon
<1>7. LifeInv'
  BY <1>2, <1>3, <1>4 DEF Inv, LifeInv
<1>8. LeaseInv'
  <2> SUFFICES ASSUME NEW d \in Consumers, NEW r \in Slots, lease[d][r] # 0
               PROVE  /\ life'[d] \in {"open", "dropped"} /\ slot'[d][r] <= cursor'
                      /\ Protected(d, r, lease[d][r] - 1, slot[d][r])'
    BY <1>2, Zenon DEF LeaseInv
  <2>1. life'[d] \in {"open", "dropped"} /\ slot'[d][r] = slot[d][r]
    BY <1>2, <1>3, <1>5, Zenon DEF Inv, LeaseInv
  <2> QED
    BY <1>1, <1>2, <2>1, LeaseFrame, Zenon
<1>9. ThreadInv'
  BY <1>2, <1>4, Zenon DEF Inv, ThreadInv
<1>10. ValidInv'
  <2> SUFFICES ASSUME NEW u \in Threads, tpc'[u] \in {"open", "read"}
               PROVE  Protected(Owner[u], tslot[u], tidx[u], tcur[u])'
    BY Zenon DEF ValidInv
  <2>1. u # t /\ tpc[u] \in {"open", "read"}
    BY <1>2, Zenon
  <2>2. slot'[Owner[u]][tslot[u]] = slot[Owner[u]][tslot[u]]
    BY <1>0, <1>3, <1>5, <2>1, Zenon DEF Holding
  <2> QED
    BY <1>1, <1>2, <2>1, <2>2, ValidFrame, Zenon
<1>11. HoldInv'
  BY <1>0, <1>2, <1>3, <1>5 DEF Inv, HoldInv, Holding
<1>12. OwnerInv'
  BY <1>0, <1>2, <1>3 DEF Inv, OwnerInv, Holding
<1> QED
  BY <1>1, <1>6, <1>7, <1>8, <1>9, <1>10, <1>11, <1>12, Zenon DEF Inv

\* The claim becomes a lease.
LEMMA LeasePreserves ==
  ASSUME Inv, NEW t \in Threads, ReadDescriptor(t), memory[tidx[t]] = tcur[t] PROVE Inv'
<1> USE DEF shared, pages, producer, threads
<1>1. TypeOK'
  BY ThreadTypes, Zenon DEF Acquire
<1>0. /\ Owner[t] \in Consumers /\ tslot[t] \in Slots /\ tidx[t] \in Index
      /\ tcur[t] \in 0 .. MaxGeneration
      /\ \A u \in Threads : Owner[u] \in Consumers /\ tslot[u] \in Slots
  BY ArenaAssumption, Zenon DEF Inv, TypeOK, ThreadType
<1>2. /\ UNCHANGED <<shared, producer, quiescent, slot, life>>
      /\ tpc[t] = "read" /\ tpc'[t] = "idle"
      /\ \A u \in Threads \ {t} : /\ tpc'[u] = tpc[u] /\ tcur'[u] = tcur[u]
                                   /\ tidx'[u] = tidx[u] /\ tslot'[u] = tslot[u]
  BY Zenon DEF ReadDescriptor, Return, Inv, TypeOK, ThreadType
<1>3. /\ lease'[Owner[t]][tslot[t]] = tidx[t] + 1
      /\ \A d \in Consumers, r \in Slots :
           d # Owner[t] \/ r # tslot[t] => lease'[d][r] = lease[d][r]
  <2> PICK c \in Consumers, s \in Slots : c = Owner[t] /\ s = tslot[t]
    BY <1>0, Zenon
  <2>1. lease' = [lease EXCEPT ![c][s] = tidx[t] + 1]
    BY Zenon DEF ReadDescriptor
  <2> QED
    BY <2>1, Zenon DEF Inv, TypeOK, ConsumerType
<1>4. /\ life[Owner[t]] = "open" /\ tcur[t] <= cursor
      /\ slot[Owner[t]][tslot[t]] = tcur[t]
      /\ Protected(Owner[t], tslot[t], tidx[t], tcur[t])
  BY <1>2, Zenon DEF Inv, ThreadInv, HoldInv, Holding, ValidInv
<1>5. \A u \in Threads \ {t} : Holding(u) => Owner[u] # Owner[t] \/ tslot[u] # tslot[t]
  BY <1>2, Zenon DEF Inv, HoldInv, Holding
<1>6. ProducerInv' /\ StateInv'
  BY <1>1, <1>2, ConsumerFrame, Zenon
<1>7. LifeInv'
  BY <1>2, Zenon DEF Inv, LifeInv
<1>8. LeaseInv'
  <2> SUFFICES ASSUME NEW d \in Consumers, NEW r \in Slots, lease'[d][r] # 0
               PROVE  /\ life'[d] \in {"open", "dropped"} /\ slot'[d][r] <= cursor'
                      /\ Protected(d, r, lease[d][r] - 1, slot[d][r])'
    BY Zenon DEF LeaseInv
  <2>1. CASE d = Owner[t] /\ r = tslot[t]
    <3>1. lease'[d][r] - 1 = tidx[t]
      BY <1>0, <1>3, <2>1, Ranges
    <3> QED
      BY <1>2, <1>4, <2>1, <3>1, Zenon DEF Protected, Owned
  <2>2. CASE d # Owner[t] \/ r # tslot[t]
    <3>1. lease'[d][r] = lease[d][r]
      BY <1>3, <2>2, Zenon
    <3>2. life'[d] \in {"open", "dropped"}
      BY <1>2, <3>1, Zenon DEF Inv, LeaseInv
    <3> QED
      BY <1>1, <1>2, <3>1, <3>2, LeaseFrame, Zenon
  <2> QED
    BY <2>1, <2>2, Zenon
<1>9. ThreadInv'
  BY <1>2, Zenon DEF Inv, ThreadInv
<1>10. ValidInv'
  <2> SUFFICES ASSUME NEW u \in Threads, tpc'[u] \in {"open", "read"}
               PROVE  Protected(Owner[u], tslot[u], tidx[u], tcur[u])'
    BY Zenon DEF ValidInv
  <2> QED
    BY <1>1, <1>2, ValidFrame, Zenon
<1>11. HoldInv'
  BY <1>0, <1>2, <1>3, <1>5 DEF Inv, HoldInv, Holding
<1>12. OwnerInv'
  <2> SUFFICES ASSUME NEW d \in Consumers, NEW r \in Slots, slot[d][r] # 0,
                      lease'[d][r] = 0, life[d] # "exited"
               PROVE  \E u \in Threads : Owner[u] = d /\ tslot'[u] = r /\ Holding(u)'
    BY <1>2, Zenon DEF OwnerInv
  <2>1. lease[d][r] = 0 /\ (d # Owner[t] \/ r # tslot[t])
    BY <1>0, <1>3, Ranges
  <2>2. PICK u \in Threads : Owner[u] = d /\ tslot[u] = r /\ Holding(u)
    BY <2>1 DEF Inv, OwnerInv
  <2> QED
    BY <1>2, <2>1, <2>2, Zenon DEF Holding
<1> QED
  BY <1>1, <1>6, <1>7, <1>8, <1>9, <1>10, <1>11, <1>12, Zenon DEF Inv

\* A failed acquisition returns its claim.
LEMMA UnclaimPreserves ==
  ASSUME Inv, NEW t \in Threads, Unclaim(t) PROVE Inv'
<1> USE DEF shared, pages, producer, threads
<1>1. TypeOK'
  BY ThreadTypes, Zenon DEF Acquire
<1>0. /\ Owner[t] \in Consumers /\ tslot[t] \in Slots
      /\ \A u \in Threads : Owner[u] \in Consumers /\ tslot[u] \in Slots
  BY ArenaAssumption, Zenon DEF Inv, TypeOK, ThreadType
<1>2. /\ UNCHANGED <<shared, producer, quiescent, lease, life>>
      /\ tpc[t] = "unclaim" /\ tpc'[t] = "idle"
      /\ \A u \in Threads \ {t} : /\ tpc'[u] = tpc[u] /\ tcur'[u] = tcur[u]
                                   /\ tidx'[u] = tidx[u] /\ tslot'[u] = tslot[u]
  BY Zenon DEF Unclaim, Return, Inv, TypeOK, ThreadType
<1>3. /\ slot'[Owner[t]][tslot[t]] = 0
      /\ \A d \in Consumers, r \in Slots : d # Owner[t] \/ r # tslot[t] => slot'[d][r] = slot[d][r]
  <2> PICK c \in Consumers, s \in Slots : c = Owner[t] /\ s = tslot[t]
    BY <1>0, Zenon
  <2>1. slot' = [slot EXCEPT ![c][s] = 0]
    BY Zenon DEF Unclaim
  <2> QED
    BY <2>1, Zenon DEF Inv, TypeOK, ConsumerType
<1>4. /\ lease[Owner[t]][tslot[t]] = 0
      /\ \A u \in Threads \ {t} : Holding(u) => Owner[u] # Owner[t] \/ tslot[u] # tslot[t]
  BY <1>2, Zenon DEF Inv, HoldInv, Holding
<1>6. ProducerInv' /\ StateInv'
  BY <1>1, <1>2, ConsumerFrame, Zenon
<1>7. LifeInv'
  BY <1>2, <1>3 DEF Inv, LifeInv
<1>8. LeaseInv'
  <2> SUFFICES ASSUME NEW d \in Consumers, NEW r \in Slots, lease[d][r] # 0
               PROVE  /\ life'[d] \in {"open", "dropped"} /\ slot'[d][r] <= cursor'
                      /\ Protected(d, r, lease[d][r] - 1, slot[d][r])'
    BY <1>2, Zenon DEF LeaseInv
  <2>1. life'[d] \in {"open", "dropped"} /\ slot'[d][r] = slot[d][r]
    BY <1>2, <1>3, <1>4, Zenon DEF Inv, LeaseInv
  <2> QED
    BY <1>1, <1>2, <2>1, LeaseFrame, Zenon
<1>9. ThreadInv'
  BY <1>2, Zenon DEF Inv, ThreadInv
<1>10. ValidInv'
  <2> SUFFICES ASSUME NEW u \in Threads, tpc'[u] \in {"open", "read"}
               PROVE  Protected(Owner[u], tslot[u], tidx[u], tcur[u])'
    BY Zenon DEF ValidInv
  <2>1. u # t /\ tpc[u] \in {"open", "read"}
    BY <1>2, Zenon
  <2>2. slot'[Owner[u]][tslot[u]] = slot[Owner[u]][tslot[u]]
    BY <1>0, <1>3, <1>4, <2>1, Zenon DEF Holding
  <2> QED
    BY <1>1, <1>2, <2>1, <2>2, ValidFrame, Zenon
<1>11. HoldInv'
  BY <1>0, <1>2, <1>3, <1>4 DEF Inv, HoldInv, Holding
<1>12. OwnerInv'
  <2> SUFFICES ASSUME NEW d \in Consumers, NEW r \in Slots, slot'[d][r] # 0,
                      lease[d][r] = 0, life[d] # "exited"
               PROVE  \E u \in Threads : Owner[u] = d /\ tslot'[u] = r /\ Holding(u)'
    BY <1>2, Zenon DEF OwnerInv
  <2>1. slot[d][r] # 0 /\ (d # Owner[t] \/ r # tslot[t])
    BY <1>3, Zenon
  <2>2. PICK u \in Threads : Owner[u] = d /\ tslot[u] = r /\ Holding(u)
    BY <2>1, Zenon DEF Inv, OwnerInv
  <2> QED
    BY <1>2, <2>1, <2>2, Zenon DEF Holding
<1> QED
  BY <1>1, <1>6, <1>7, <1>8, <1>9, <1>10, <1>11, <1>12, Zenon DEF Inv

-----------------------------------------------------------------------------
\* Inv is inductive.
LEMMA StepInv == Inv /\ [Next]_vars => Inv'
<1> SUFFICES ASSUME Inv, [Next]_vars PROVE Inv'
  BY Zenon
<1>1. CASE Producer
  BY <1>1, ProducerPreserves, Zenon
<1>2. ASSUME NEW c \in Consumers, Consumer(c) PROVE Inv'
  BY <1>2, OwnerObjectPreserves, ExitPreserves, ObserveExitPreserves, ReleasePreserves, Zenon DEF Consumer
<1>3. ASSUME NEW t \in Threads, Acquire(t) PROVE Inv'
  BY <1>3, MovePreserves, ClaimPreserves, LeasePreserves, UnclaimPreserves, Zenon DEF Acquire
<1>4. ASSUME NEW t \in Threads,
             \/ \E after \in 0 .. MaxGeneration : AcquireLatest(t, after) \/ AcquireNext(t, after)
             \/ \E cur \in Cursor : AcquireExact(t, cur)
      PROVE  Inv'
  BY <1>4, SelectFacts, SelectPreserves, Zenon
<1>5. CASE UNCHANGED vars
  <2> USE <1>5 DEF vars, shared, pages, producer, threads, Inv
  <2>1. TypeOK'
    BY Zenon DEF TypeOK, SharedType, ProducerType, ConsumerType, ThreadType
  <2>2. ProducerInv' /\ StateInv' /\ LifeInv'
    BY Zenon DEF ProducerInv, StateInv, LifeInv
  <2>3. LeaseInv'
    BY ZenonT(30) DEF LeaseInv, Protected, Owned
  <2>4. ThreadInv'
    BY Zenon DEF ThreadInv, Protected, Owned
  <2>5. ValidInv'
    BY Zenon DEF ValidInv, Protected, Owned
  <2>6. HoldInv'
    BY Zenon DEF HoldInv, Holding
  <2>7. OwnerInv'
    BY ZenonT(30) DEF OwnerInv, Holding
  <2> QED
    BY <2>1, <2>2, <2>3, <2>4, <2>5, <2>6, <2>7, Zenon
<1> QED
  BY <1>1, <1>2, <1>3, <1>4, <1>5, Zenon DEF Next

\* The inductive invariant holds in every state of every behaviour.
LEMMA Invariance == Spec => []Inv
BY InitInv, StepInv, PTL DEF Spec

\* Every variable keeps its type: cursors never pass MAX_GENERATION and the ring
\* never names a resource the table does not have.
THEOREM TypeCorrect == Spec => []TypeOK
BY Invariance, PTL DEF Inv

\* A FrameLease keeps its frame: no publish, reservation, stop or crash of another
\* consumer changes the resource under it.
THEOREM LeaseSafety == Spec => []LeaseStable
<1>1. Inv => LeaseStable
  BY Zenon DEF Inv, LeaseInv, Protected, LeaseStable
<1> QED
  BY <1>1, Invariance, PTL

\* Validation is enough: the descriptor acquire reads is the claimed cursor's.
THEOREM DescriptorSafety == Spec => []DescriptorAgrees
<1>1. Inv => DescriptorAgrees
  BY Zenon DEF Inv, ValidInv, Protected, DescriptorAgrees
<1> QED
  BY <1>1, Invariance, PTL

\* The producer scans every page a claim can be in.
THEOREM TrackingSafety == Spec => []ClaimsTracked
<1>1. Inv => ClaimsTracked
  BY ArenaAssumption, Zenon DEF Inv, LifeInv, ThreadInv, ClaimsTracked
<1> QED
  BY <1>1, Invariance, PTL

\* Every claim has exactly one owner who will return it.
THEOREM OwnershipSafety == Spec => []ClaimOwned
<1>1. Inv => ClaimOwned
  <2> SUFFICES ASSUME Inv, NEW c \in Consumers, NEW s \in Slots
               PROVE  LET holders == {t \in Threads : Owner[t] = c /\ tslot[t] = s /\ Holding(t)}
                      IN  /\ \A t, u \in holders : t = u
                          /\ holders # {} => lease[c][s] = 0 /\ slot[c][s] # 0
                          /\ slot[c][s] # 0 =>
                               holders # {} \/ lease[c][s] # 0 \/ life[c] = "exited"
    BY Zenon DEF ClaimOwned, Holding
  <2>1. \A t \in Threads : Holding(t) => tcur[t] # 0
    BY Zenon DEF Inv, ThreadInv, Holding
  <2> QED
    BY <2>1 DEF Inv, HoldInv, OwnerInv
<1> QED
  BY <1>1, Invariance, PTL

-----------------------------------------------------------------------------
(* The claim protocol implements FrameStore. *)

\* A resource the producer is about to write is neither leased nor retained.
LEMMA TakenIsFree ==
  ASSUME Inv, ppc = "check", unscanned = {}
  PROVE  /\ \A c \in Consumers, s \in Slots : lease[c][s] # pidx + 1
         /\ memory[pidx] = 0 \/ memory[pidx] < Oldest(cursor)
<1>1. pidx \in Index /\ pidx \in Nat
  BY Ranges, Zenon DEF Inv, TypeOK, ProducerType
<1>2. \A c \in Consumers, s \in Slots : lease[c][s] # pidx + 1
  <2> SUFFICES ASSUME NEW c \in Consumers, NEW s \in Slots, lease[c][s] = pidx + 1 PROVE FALSE
    BY Zenon
  <2>1. lease[c][s] # 0 /\ lease[c][s] - 1 = pidx
    BY <1>1
  <2> QED
    BY <2>1, Zenon DEF Inv, LeaseInv, Protected
<1>3. memory[pidx] = 0 \/ memory[pidx] < Oldest(cursor)
  BY <1>1, Zenon DEF Inv, StateInv, ProducerInv
<1> QED
  BY <1>2, <1>3, Zenon

\* A resource whose bytes are being written is leased by nobody.
LEMMA WrittenIsFree ==
  ASSUME Inv, ppc \in {"write", "publish", "ring", "latest"}
  PROVE  \A c \in Consumers, s \in Slots : lease[c][s] # pidx + 1
<1> SUFFICES ASSUME NEW c \in Consumers, NEW s \in Slots, lease[c][s] = pidx + 1 PROVE FALSE
  BY Zenon
<1>1. lease[c][s] # 0 /\ lease[c][s] - 1 = pidx
  BY Ranges, SMTT(20) DEF Inv, TypeOK, ProducerType
<1> QED
  BY <1>1, Zenon DEF Inv, LeaseInv, Protected, Owned

\* What Held means under the refinement mapping.
LEMMA HeldMeans ==
  ASSUME TypeOK, NEW i \in Index
  PROVE  Store!Held(i) => \E c \in Consumers, s \in Slots : lease[c][s] = i + 1
<1> SUFFICES ASSUME Store!Held(i)
             PROVE  \E c \in Consumers, s \in Slots : lease[c][s] = i + 1
  BY Zenon
<1>1. PICK h \in Consumers \X Slots :
        i \in (IF lease[h[1]][h[2]] = 0 THEN {} ELSE {lease[h[1]][h[2]] - 1})
  BY Zenon DEF Store!Held, Leased
<1>2. h[1] \in Consumers /\ h[2] \in Slots /\ lease[h[1]][h[2]] - 1 = i
  BY <1>1, Zenon
<1>3. lease[h[1]][h[2]] \in 0 .. Resources
  BY <1>2, Zenon DEF TypeOK, ConsumerType
<1> QED
  BY <1>2, <1>3

\* Taking a resource for writing is an Overwrite of the abstract store, or a stutter.
LEMMA OverwriteStep ==
  ASSUME Inv, BeginWrite \/ TakeReservation PROVE Store!Overwrite(pidx)
<1>1. ppc = "check" /\ unscanned = {} /\ memory' = [memory EXCEPT ![pidx] = 0]
  BY Zenon DEF BeginWrite, TakeReservation
<1>2. UNCHANGED <<latest, lease>>
  BY Zenon DEF BeginWrite, TakeReservation
<1>3. ~Store!Held(pidx)
  BY <1>1, TakenIsFree, HeldMeans, Zenon DEF Inv, TypeOK, ProducerType
<1>4. ~Store!Retained(memory[pidx])
  <2>1. memory[pidx] \in Nat /\ cursor \in Nat /\ latest = cursor
    BY DEF Inv, TypeOK, SharedType, ProducerType, ProducerInv
  <2>2. memory[pidx] = 0 \/ memory[pidx] < Oldest(cursor)
    BY <1>1, TakenIsFree, Zenon
  <2> QED
    BY <2>1, <2>2, ArenaAssumption DEF Store!Retained, Oldest
<1> QED
  BY <1>1, <1>2, <1>3, <1>4, Zenon DEF Store!Overwrite, Leased

\* Finishing a payload is a Fill of the abstract store.
LEMMA FillStep ==
  ASSUME Inv, EndWrite PROVE Store!Fill(pidx)
<1>1. ~Store!Held(pidx)
  BY WrittenIsFree, HeldMeans, Zenon DEF EndWrite, Inv, TypeOK, ProducerType
<1>2. memory[pidx] = 0 /\ latest = cursor
  BY Zenon DEF EndWrite, Inv, ProducerInv
<1> QED
  BY <1>1, <1>2, Zenon DEF EndWrite, Store!Fill, Leased

\* Storing LATEST is an Announce of the abstract store.
LEMMA AnnounceStep ==
  ASSUME Inv, StoreLatest PROVE Store!Announce
<1>1. latest = cursor /\ memory[pidx] = cursor + 1 /\ pidx \in Index
  BY Zenon DEF StoreLatest, Inv, TypeOK, ProducerType, ProducerInv
<1> QED
  BY <1>1, Zenon DEF StoreLatest, Store!Announce, Leased

\* A successful acquire is a Hold of the abstract store.
LEMMA HoldStep ==
  ASSUME Inv, NEW t \in Threads, ReadDescriptor(t), memory[tidx[t]] = tcur[t]
  PROVE  \E h \in Consumers \X Slots : Store!Hold(h, tidx[t])
<1>1. PICK c \in Consumers, s \in Slots : c = Owner[t] /\ s = tslot[t]
  BY ArenaAssumption, Zenon DEF Inv, TypeOK, ThreadType
<1>2. /\ tidx[t] \in Index /\ tcur[t] # 0 /\ tcur[t] <= latest /\ lease[c][s] = 0
  BY <1>1, Zenon DEF ReadDescriptor, Inv, TypeOK, ThreadType, ThreadInv, ProducerInv, HoldInv, Holding
<1>3. lease' = [lease EXCEPT ![c][s] = tidx[t] + 1] /\ UNCHANGED <<memory, latest>>
  BY <1>1, Zenon DEF ReadDescriptor, shared
<1>4. Leased[<<c, s>>] = {}
  BY <1>2, Zenon DEF Leased
<1>5. Leased' = [Leased EXCEPT ![<<c, s>>] = {tidx[t]}]
  <2>1. tidx[t] + 1 # 0 /\ (tidx[t] + 1) - 1 = tidx[t]
    BY <1>2, Ranges
  <2>2. \A d \in Consumers, r \in Slots :
          lease'[d][r] = IF <<d, r>> = <<c, s>> THEN tidx[t] + 1 ELSE lease[d][r]
    BY <1>3, Zenon DEF Inv, TypeOK, ConsumerType
  <2>3. \A h \in Consumers \X Slots :
          /\ h[1] \in Consumers /\ h[2] \in Slots /\ h = <<h[1], h[2]>>
    OBVIOUS
  <2>4. ASSUME NEW h \in Consumers \X Slots
        PROVE  (IF lease'[h[1]][h[2]] = 0 THEN {} ELSE {lease'[h[1]][h[2]] - 1})
                 = IF h = <<c, s>> THEN {tidx[t]} ELSE Leased[h]
    <3>1. CASE h = <<c, s>>
      BY <2>1, <2>2, <3>1, Zenon
    <3>2. CASE h # <<c, s>>
      BY <2>2, <2>3, <3>2, ZenonT(40) DEF Leased
    <3> QED
      BY <3>1, <3>2, Zenon
  <2>5. [Leased EXCEPT ![<<c, s>>] = {tidx[t]}]
          = [h \in Consumers \X Slots |-> IF h = <<c, s>> THEN {tidx[t]} ELSE Leased[h]]
    BY Zenon DEF Leased
  <2>6. Leased' = [h \in Consumers \X Slots |->
                     IF lease'[h[1]][h[2]] = 0 THEN {} ELSE {lease'[h[1]][h[2]] - 1}]
    BY Zenon DEF Leased
  <2>7. Leased' = [h \in Consumers \X Slots |-> IF h = <<c, s>> THEN {tidx[t]} ELSE Leased[h]]
    BY <2>4, <2>6, Zenon
  <2> QED
    BY <2>5, <2>7, Zenon
<1> QED
  BY <1>2, <1>3, <1>4, <1>5, Zenon DEF Store!Hold

\* Dropping a lease, or the exit of its process, is a LetGo of the abstract store.
LEMMA LetGoStep ==
  ASSUME Inv, NEW c \in Consumers, Exit(c) \/ \E s \in Slots : Release(c, s)
  PROVE  \E hs \in SUBSET (Consumers \X Slots) : Store!LetGo(hs)
<1> USE DEF shared
<1>1. CASE Exit(c)
  <2>1. Store!LetGo({c} \X Slots)
    <3>1. UNCHANGED <<memory, latest>>
      BY <1>1, Zenon DEF Exit
    <3>2. \A d \in Consumers, r \in Slots : lease'[d][r] = IF d = c THEN 0 ELSE lease[d][r]
      BY <1>1, Zenon DEF Exit, Inv, TypeOK, ConsumerType
    <3>3. \A h \in Consumers \X Slots :
            h[1] \in Consumers /\ h[2] \in Slots /\ (h \in {c} \X Slots <=> h[1] = c)
      BY Zenon
    <3> QED
      BY <3>1, <3>2, <3>3 DEF Store!LetGo, Leased
  <2> QED
    BY <2>1, Zenon
<1>2. ASSUME NEW s \in Slots, Release(c, s)
      PROVE  \E hs \in SUBSET (Consumers \X Slots) : Store!LetGo(hs)
  <2>1. Store!LetGo({<<c, s>>})
    <3>1. UNCHANGED <<memory, latest>>
      BY <1>2, Zenon DEF Release
    <3>2. \A d \in Consumers, r \in Slots :
            lease'[d][r] = IF <<d, r>> = <<c, s>> THEN 0 ELSE lease[d][r]
      BY <1>2 DEF Release, Inv, TypeOK, ConsumerType
    <3>3. \A h \in Consumers \X Slots :
            /\ h[1] \in Consumers /\ h[2] \in Slots /\ h = <<h[1], h[2]>>
      OBVIOUS
    <3> QED
      BY <3>1, <3>2, <3>3 DEF Store!LetGo, Leased
  <2> QED
    BY <2>1
<1> QED
  BY <1>1, <1>2, Zenon

\* The claim protocol implements the frame store, for every number of resources,
\* consumers, threads and slots.
THEOREM Refinement == Spec => ImplementsStore
<1>1. Init => Store!StoreInit
  BY DEF Init, Store!StoreInit, Leased, Slots
<1>2. Inv /\ [Next]_vars => [Store!StoreNext]_(Store!storeVars)
  <2> SUFFICES ASSUME Inv, [Next]_vars
               PROVE  Store!StoreNext \/ UNCHANGED <<memory, latest, lease>>
    BY Zenon DEF Store!storeVars, Leased
  <2> USE DEF shared, pages, producer, threads
  <2>1. CASE Producer
    <3>1. pidx \in Index
      BY Zenon DEF Inv, TypeOK, ProducerType
    <3>2. CASE BeginWrite \/ TakeReservation \/ EndWrite \/ StoreLatest
      BY <3>1, <3>2, OverwriteStep, FillStep, AnnounceStep, Zenon DEF Store!StoreNext
    <3> QED
      BY <2>1, <3>2, Zenon DEF Producer, PollCleanup, Stop, Attach, Close, BeginScan, SkipResource,
         Retire, Drop, CheckClaim, PrepareRefuses, Commit, Abandon, StoreState, StoreRing
  <2>2. ASSUME NEW c \in Consumers, Consumer(c)
        PROVE  Store!StoreNext \/ UNCHANGED <<memory, latest, lease>>
    BY <2>2, LetGoStep, Zenon DEF Consumer, Import, AbandonGrant, DropConsumer, EndLifetime, ObserveExit,
       Store!StoreNext
  <2>3. ASSUME NEW t \in Threads, Acquire(t)
        PROVE  Store!StoreNext \/ UNCHANGED <<memory, latest, lease>>
    <3>1. tidx[t] \in Index
      BY Zenon DEF Inv, TypeOK, ThreadType
    <3>2. CASE ReadDescriptor(t) /\ memory[tidx[t]] = tcur[t]
      BY <3>1, <3>2, HoldStep, Zenon DEF Store!StoreNext
    <3>3. CASE ~(ReadDescriptor(t) /\ memory[tidx[t]] = tcur[t])
      BY <2>3, <3>3, Zenon DEF Acquire, ReadRing, ClaimSlot, Validate, CheckOpen, ReadDescriptor, Unclaim
    <3> QED
      BY <3>2, <3>3, Zenon
  <2>4. ASSUME NEW t \in Threads,
               \/ \E after \in 0 .. MaxGeneration : AcquireLatest(t, after) \/ AcquireNext(t, after)
               \/ \E cur \in Cursor : AcquireExact(t, cur)
        PROVE  UNCHANGED <<memory, latest, lease>>
    BY <2>4, SelectFacts, Zenon DEF Select
  <2>5. CASE UNCHANGED vars
    BY <2>5, Zenon DEF vars
  <2> QED
    BY <2>1, <2>2, <2>3, <2>4, <2>5, Zenon DEF Next
<1> QED
  BY <1>1, <1>2, Invariance, PTL DEF Spec, ImplementsStore, Store!StoreSpec
=============================================================================
