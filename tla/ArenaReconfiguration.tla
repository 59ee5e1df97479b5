------------------------ MODULE ArenaReconfiguration ------------------------
(***************************************************************************)
(* Replacement of the arena's resource allocation while consumers hold     *)
(* mappings, offers, leases and GPU work on earlier ones                   *)
(* (crates/jackstay/src/acquisition/arena/reconfiguration.rs, with the     *)
(* parts of arena.rs, cleanup.rs and retirement.rs it meets), on top of    *)
(* the producer's ledger.                                                  *)
(*                                                                         *)
(* An allocation's bytes go back to the ledger only when no mapping slot   *)
(* of a claim page names it and no claim names one of its frames.  The     *)
(* claim protocol on one allocation is ArenaClaims: here a frame is        *)
(* published, retired or claimed in one step.                              *)
(***************************************************************************)
EXTENDS AdmissionBook

CONSTANTS
  Frames,           \* holding: claim slots of an incarnation
  ClaimBytes,       \* bytes of a claim mapping
  AllocationBytes,  \* bytes of a replacement allocation
  Asynchronous,     \* incarnations whose frames may be in use by a GPU
  MaxCursor,        \* bound on publications
  Written           \* bound: the allocations the producer itself keeps using

ASSUME SizesAssumption ==
  /\ Frames \in Nat \ {0} /\ ClaimBytes \in Nat \ {0} /\ AllocationBytes \in Nat \ {0}
  /\ MaxCursor \in Nat /\ Written \subseteq 1 .. LastAllocation

VARIABLES
  \* The control mapping.
  configuration,  \* CONFIGURATION: the generation to map, 0 while there is none
  first_cursor,   \* FIRST_CURSOR
  cursor,         \* LATEST, and the producer's own cursor
  terminal,       \* TERMINAL
  \* The producer.
  table,          \* per allocation: the cursors its resource states name
  published,      \* the cursors whose state has the Published bit
  retired,        \* ArenaProducer::retired
  claims,         \* ArenaProducer::claims: the tracked incarnations
  users,          \* allocations a CpuReservation, an export or queued GPU work uses
  ppc, todo,      \* program point of the call in progress and what it has to visit
  \* The incarnations.
  page,           \* the claim page, shared with the producer
  peer,           \* the objects in the consumer's process
  gpu             \* <<incarnation, slot, cursor>> in use by the consumer's GPU work

control   == <<configuration, first_cursor, cursor, terminal>>
producer  == <<table, published, retired, claims, users, ppc, todo>>
arenaVars == <<bookVars, control, producer, page, peer, gpu>>

Incarnations == 1 .. LastIncarnation - 1
Generations  == 1 .. LastAllocation
Slots        == 1 .. Frames

\* H + 2 mapping references.
MapSlots == 1 .. Frames + 2

FreshPage == [active |-> TRUE, quiescent |-> FALSE, offered |-> None,
              mapping |-> [m \in MapSlots |-> None],
              slot |-> [s \in Slots |-> 0], pend |-> [s \in Slots |-> 0]]

\* What a consumer process owns: `grant`, `current` and `hold` are mapping slots, 0 for
\* none; `mapped` are the mapping slots mapped into its memory; `dropping` are those
\* whose Arc a thread still holds after it returned its claim; `old` and `via` name the
\* mapping whose last Arc the owner thread or the retirement worker is dropping.
NoPeer == [life |-> "none", grant |-> 0, mapped |-> {}, current |-> 0, old |-> 0,
           installing |-> FALSE, acquiring |-> 0, dropping |-> {},
           phase |-> [s \in Slots |-> "free"], hold |-> [s \in Slots |-> 0],
           via |-> [s \in Slots |-> 0]]

Init ==
  /\ BookInit
  /\ configuration = 1 /\ first_cursor = 1 /\ cursor = 0 /\ terminal = FALSE
  /\ table = [g \in Generations |-> {}] /\ published = {}
  /\ retired = {} /\ claims = {} /\ users = {}
  /\ ppc = "idle" /\ todo = {}
  /\ page = [c \in Incarnations |-> FreshPage]
  /\ peer = [c \in Incarnations |-> NoPeer]
  /\ gpu = {}

\* The search for a zero word that ends at the first one: {} if there is none.
FirstFree(words) ==
  {i \in DOMAIN words : words[i] = 0 /\ \A j \in DOMAIN words : words[j] = 0 => i <= j}

\* An Arc<ConsumerResources> for mapping slot m exists in the process.
Arcs(p, m) ==
  p.current = m \/ m \in p.dropping \/ \E s \in Slots : p.hold[s] = m

Generation(c) == page[c].mapping[peer[c].current]

IsClosed(c) == ~page[c].active \/ terminal

is_configured(c) == peer[c].current # 0 /\ Generation(c) = configuration

-----------------------------------------------------------------------------
(* The producer's calls: `&mut self` serializes them. *)

\* The producer's call returns.
Return == ppc' = "idle" /\ todo' = {}

\* poll_cleanup, called by the host and first in attach, publish, reserve and advance.
BeginPoll ==
  /\ ppc = "idle"
  /\ ppc' = "collect" /\ todo' = claims
  /\ UNCHANGED <<bookVars, control, table, published, retired, claims, users, page, peer, gpu>>

\* Mutant: an acknowledged shutdown without mappings is enough.
Drained_WithClaims(c) ==
  /\ page[c].quiescent
  /\ \A m \in MapSlots : page[c].mapping[m] = None

\* collect_quiescent: shutdown was acknowledged and no mapping or claim is left.
Drained(c) ==
  /\ page[c].quiescent
  /\ \A m \in MapSlots : page[c].mapping[m] = None
  /\ \A s \in Slots : page[c].slot[s] = 0

CollectQuiescent(c) ==
  /\ ppc = "collect" /\ c \in todo
  /\ todo' = todo \ {c}
  /\ IF Drained(c) THEN Reclaim(c) /\ claims' = claims \ {c}
                   ELSE UNCHANGED <<bookVars, claims>>
  /\ UNCHANGED <<control, table, published, retired, users, ppc, page, peer, gpu>>

BeginRetired ==
  /\ ppc = "collect" /\ todo = {}
  /\ ppc' = "reclaim" /\ todo' = retired
  /\ UNCHANGED <<bookVars, control, table, published, retired, claims, users, page, peer, gpu>>

\* Mutant: an allocation goes once no mapping slot names it.
Retained_MappingsOnly(id) == \E c \in claims : \E m \in MapSlots : page[c].mapping[m] = id

\* Mutant: an allocation goes once no claim names one of its frames.
Retained_ClaimsOnly(id) == \E c \in claims : \E s \in Slots : page[c].slot[s] \in table[id]

\* Some page names the allocation, or claims one of its frames.  Both only disappear
\* for a retired allocation, so the scan's loads act as one.
Retained(id) ==
  \E c \in claims :
    \/ \E m \in MapSlots : page[c].mapping[m] = id
    \/ \E s \in Slots : page[c].slot[s] \in table[id]

\* collect_retired_allocations.
CollectRetired(id) ==
  /\ ppc = "reclaim" /\ id \in todo
  /\ todo' = todo \ {id}
  /\ IF Retained(id) \/ id \in users
     THEN UNCHANGED <<bookVars, retired, table>>
     ELSE /\ complete_allocation_cleanup(id)
          /\ retired' = retired \ {id}
          /\ table' = [table EXCEPT ![id] = {}]
  /\ UNCHANGED <<control, published, claims, users, ppc, page, peer, gpu>>

\* The poll is over; what follows is the rest of the call that made it.
Polled == ppc = "reclaim" /\ todo = {}

\* The host polled, or the call fails or has nothing to do.
EndPoll ==
  /\ Polled /\ Return
  /\ UNCHANGED <<bookVars, control, table, published, retired, claims, users, page, peer, gpu>>

\* attach_with_recipient: the new page names the current generation.
Attach ==
  LET c == next_incarnation IN
  /\ Polled /\ Return /\ ~terminal
  /\ admit(Frames, ClaimBytes)
  /\ claims' = claims \cup {c}
  /\ page' = [page EXCEPT ![c].mapping[1] = current_allocation,
                          ![c].offered = current_allocation]
  /\ peer' = [peer EXCEPT ![c].life = "granted", ![c].grant = 1]
  /\ UNCHANGED <<control, table, published, retired, users, gpu>>

\* Setup failed after admit: close and complete_cleanup return the credit at once.
AttachFails ==
  /\ Polled /\ Return /\ ~terminal
  /\ Admissible(Frames, ClaimBytes)
  /\ next_incarnation' = next_incarnation + 1
  /\ UNCHANGED <<reservations, reserved_frames, committed_bytes, storage, control, table,
                 published, retired, claims, users, page, peer, gpu>>

\* A frame outside the history that no page claims: its resource can be written.
Writable(v) ==
  /\ v <= cursor - History
  /\ \A c \in claims : \A s \in Slots : page[c].slot[s] # v

\* publish: a new frame takes a free resource or that of an old unclaimed frame.
Publish ==
  /\ Polled /\ Return /\ ~terminal
  /\ current_allocation # None /\ cursor < MaxCursor
  /\ \E victim \in {{}} \cup {{v} : v \in {k \in table[current_allocation] : Writable(k)}} :
       /\ victim = {} => Cardinality(table[current_allocation]) < Capacity
       /\ table' = [table EXCEPT ![current_allocation] = (@ \ victim) \cup {cursor + 1}]
       /\ published' = (published \ victim) \cup {cursor + 1}
  /\ cursor' = cursor + 1
  /\ UNCHANGED <<bookVars, configuration, first_cursor, terminal, retired, claims, users,
                 page, peer, gpu>>

\* reserve, export_writer or a queued GPU write: the producer itself uses the allocation.
UseAllocation ==
  /\ Polled /\ Return /\ ~terminal
  /\ current_allocation \in Written
  /\ users' = users \cup {current_allocation}
  /\ UNCHANGED <<bookVars, control, table, published, retired, claims, page, peer, gpu>>

\* The drop of the CpuReservation or writer ends its use, or RetiredResource::ready sees the
\* GPU write complete.
EndUse(id) ==
  /\ id \in users
  /\ users' = users \ {id}
  /\ UNCHANGED <<bookVars, control, table, published, retired, claims, ppc, todo, page, peer, gpu>>

\* begin_reconfiguration: first the configuration word is cleared ...
BeginReconfiguration ==
  /\ ppc = "idle" /\ ~terminal
  /\ begin_reconfiguration(AllocationBytes)
  /\ configuration' = None
  /\ ppc' = "retire" /\ todo' = {current_allocation}
  /\ UNCHANGED <<first_cursor, cursor, terminal, table, published, retired, claims, users,
                 page, peer, gpu>>

\* Mutant: the next configuration starts one cursor late.
RetirePublications_SkipsOne ==
  /\ ppc = "retire" /\ Return
  /\ published' = {}
  /\ retired' = retired \cup todo
  /\ first_cursor' = cursor + 2
  /\ UNCHANGED <<bookVars, configuration, cursor, terminal, table, claims, users, page, peer, gpu>>

\* Mutant: the old allocation is not put on the retired list.
RetirePublications_Forgets ==
  /\ ppc = "retire" /\ Return
  /\ published' = {}
  /\ first_cursor' = cursor + 1
  /\ UNCHANGED <<bookVars, configuration, cursor, terminal, table, retired, claims, users, page, peer, gpu>>

\* ... then every Published bit; an acquisition reads only one of them.
RetirePublications ==
  /\ ppc = "retire" /\ Return
  /\ published' = {}
  /\ retired' = retired \cup todo
  /\ first_cursor' = cursor + 1
  /\ UNCHANGED <<bookVars, configuration, cursor, terminal, table, claims, users, page, peer, gpu>>

\* advance_with_allocation: reserve the bytes; with too few the transition stays paused.
ReserveReplacement ==
  /\ Polled /\ ~terminal
  /\ reserve_reconfiguration
  /\ ppc' = "allocate" /\ todo' = {}
  /\ UNCHANGED <<control, table, published, retired, claims, users, page, peer, gpu>>

InstallReplacement ==
  /\ ppc = "allocate" /\ Return
  /\ install_reconfiguration(AllocationBytes)
  /\ configuration' = pending.reserved
  /\ UNCHANGED <<first_cursor, cursor, terminal, table, published, retired, claims, users,
                 page, peer, gpu>>

\* Mapping or allocating failed: the reservation goes back, the proposal stays.
AllocationFails ==
  /\ ppc = "allocate" /\ Return
  /\ abandon_reconfiguration_allocation
  /\ UNCHANGED <<control, table, published, retired, claims, users, page, peer, gpu>>

\* configuration_offer takes a free mapping slot for the grant, also for a consumer that has
\* the configuration already ...
Offer(c) ==
  /\ ppc = "idle" /\ c \in claims
  /\ page[c].active /\ current_allocation # None /\ page[c].offered = None
  /\ \E m \in FirstFree(page[c].mapping) :
       /\ page' = [page EXCEPT ![c].mapping[m] = current_allocation,
                               ![c].offered = current_allocation]
       /\ peer' = [peer EXCEPT ![c].grant = m]
  /\ ppc' = "offer" /\ todo' = {c}
  /\ UNCHANGED <<bookVars, control, table, published, retired, claims, users, gpu>>

\* Mutant: the offer is given back, its mapping slot is not.
PageWithoutGrant_KeepsSlot(c) == [page EXCEPT ![c].offered = None]

\* ConfigurationGrant::drop gives the mapping slot and the offer back.
PageWithoutGrant(c) ==
  [page EXCEPT ![c].mapping[peer[c].grant] = None, ![c].offered = None]

\* ... and drops it if the incarnation was closed meanwhile.
FinishOffer(c) ==
  /\ ppc = "offer" /\ c \in todo /\ Return
  /\ IF page[c].active
     THEN UNCHANGED <<page, peer>>
     ELSE /\ page' = PageWithoutGrant(c)
          /\ peer' = [peer EXCEPT ![c].grant = 0]
  /\ UNCHANGED <<bookVars, control, table, published, retired, claims, users, gpu>>

\* ArenaProducer::close.
Close(c) ==
  /\ ppc = "idle" /\ c \in claims
  /\ close(c)
  /\ page' = [page EXCEPT ![c].active = FALSE]
  /\ UNCHANGED <<control, producer, peer, gpu>>

Stop ==
  /\ ppc = "idle" /\ ~terminal
  /\ terminal' = TRUE
  /\ page' = [c \in Incarnations |-> [page[c] EXCEPT !.active = @ /\ c \notin claims]]
  /\ UNCHANGED <<bookVars, configuration, first_cursor, cursor, producer, peer, gpu>>

-----------------------------------------------------------------------------
(* A consumer's process.  One thread owns the ArenaConsumer; leases may be dropped by
   any thread, and the retirement worker ends deferred ones. *)

Alive(c) == peer[c].life \in {"granted", "live", "dropped"}

\* The owner thread is between two calls of `&mut self` methods.
OwnerIdle(c) ==
  /\ peer[c].life = "live"
  /\ peer[c].old = 0 /\ ~peer[c].installing /\ peer[c].acquiring = 0

\* The grant was handed over.
Delivered(c) == peer[c].grant # 0 /\ ~(ppc = "offer" /\ c \in todo)

\* from_grant_with_resources.
Import(c) ==
  /\ peer[c].life = "granted"
  /\ peer' = [peer EXCEPT ![c].life = "live", ![c].grant = 0,
                          ![c].current = peer[c].grant, ![c].mapped = {peer[c].grant}]
  /\ page' = [page EXCEPT ![c].offered = None]
  /\ UNCHANGED <<bookVars, control, producer, gpu>>

\* ConsumerGrant::drop.
AbandonGrant(c) ==
  /\ peer[c].life = "granted"
  /\ peer' = [peer EXCEPT ![c].life = "gone", ![c].grant = 0]
  /\ page' = [PageWithoutGrant(c) EXCEPT ![c].active = FALSE, ![c].quiescent = TRUE]
  /\ UNCHANGED <<bookVars, control, producer, gpu>>

\* An offer is dropped unused, or install_configuration finds it closed or stale.
DropOffer(c) ==
  /\ peer[c].life \in {"live", "dropped"} /\ Delivered(c)
  /\ page' = PageWithoutGrant(c)
  /\ peer' = [peer EXCEPT ![c].grant = 0]
  /\ UNCHANGED <<bookVars, control, producer, gpu>>

\* The owner puts another value in self.resources: is it dropping the last Arc?
LastArc(c) ==
  LET p == [peer[c] EXCEPT !.current = 0] IN
  IF peer[c].current # 0 /\ ~Arcs(p, peer[c].current) THEN peer[c].current ELSE 0

\* install_with_resources: the new mapping replaces the old one ...
Install(c) ==
  /\ OwnerIdle(c) /\ Delivered(c)
  /\ ~IsClosed(c) /\ page[c].mapping[peer[c].grant] = configuration
  /\ peer' = [peer EXCEPT ![c].current = peer[c].grant, ![c].grant = 0,
                          ![c].mapped = @ \cup {peer[c].grant},
                          ![c].old = LastArc(c), ![c].installing = TRUE]
  /\ UNCHANGED <<bookVars, control, producer, page, gpu>>

\* ... whose Arc is dropped before the next offer is allowed.
FinishInstall(c) ==
  /\ peer[c].installing /\ peer[c].old = 0
  /\ peer' = [peer EXCEPT ![c].installing = FALSE]
  /\ page' = [page EXCEPT ![c].offered = None]
  /\ UNCHANGED <<bookVars, control, producer, gpu>>

relinquish_configuration(c) ==
  /\ OwnerIdle(c) /\ peer[c].current # 0
  /\ peer' = [peer EXCEPT ![c].current = 0, ![c].old = LastArc(c)]
  /\ UNCHANGED <<bookVars, control, producer, page, gpu>>

\* Drop of the ArenaConsumer: begin_drain, then its fields one after the other.
DropConsumer(c) ==
  /\ OwnerIdle(c)
  /\ peer' = [peer EXCEPT ![c].life = "dropped"]
  /\ page' = [page EXCEPT ![c].active = FALSE]
  /\ UNCHANGED <<bookVars, control, producer, gpu>>

DropResources(c) ==
  /\ peer[c].life = "dropped" /\ peer[c].current # 0
  /\ peer' = [peer EXCEPT ![c].current = 0, ![c].old = LastArc(c)]
  /\ UNCHANGED <<bookVars, control, producer, page, gpu>>

\* Mapping slots of leases that returned their claim and still hold, or are dropping,
\* their Arc: Claim::drop runs before the drop of the field `owner`.
Lingering(c) ==
  {m \in MapSlots :
     \/ m \in peer[c].dropping
     \/ /\ page[c].mapping[m] # None /\ ~Arcs(peer[c], m)
        /\ m \notin {peer[c].grant, peer[c].old} /\ \A s \in Slots : peer[c].via[s] # m}

\* The last owner of the lifetime is gone and no deferred use is pending.
AcknowledgeQuiescent(c) ==
  /\ peer[c].life = "dropped" /\ ~page[c].quiescent
  /\ Lingering(c) = {}
  /\ \A s \in Slots : peer[c].hold[s] = 0 /\ peer[c].phase[s] # "retiring"
  /\ page' = [page EXCEPT ![c].quiescent = TRUE]
  /\ UNCHANGED <<bookVars, control, producer, peer, gpu>>

\* ConsumerResources::drop, run by whoever dropped the last Arc: unmap ...
Unmap(c, m) ==
  /\ m \in peer[c].mapped /\ ~Arcs(peer[c], m)
  /\ peer' = [peer EXCEPT ![c].mapped = @ \ {m}]
  /\ UNCHANGED <<bookVars, control, producer, page, gpu>>

\* ... then acknowledge.
AcknowledgeMapping(c, m) ==
  /\ peer[c].life \in {"live", "dropped"}
  /\ page[c].mapping[m] # None /\ peer[c].grant # m
  /\ m \notin peer[c].mapped /\ ~Arcs(peer[c], m)
  /\ page' = [page EXCEPT ![c].mapping[m] = None]
  /\ peer' = [peer EXCEPT ![c].old = IF @ = m THEN 0 ELSE @,
                          ![c].via = [s \in Slots |-> IF @[s] = m THEN 0 ELSE @[s]]]
  /\ UNCHANGED <<bookVars, control, producer, gpu>>

-----------------------------------------------------------------------------
(* Acquisition and release. *)

\* acquire_latest, acquire_next and acquire_exact select a cursor of this configuration.
Select(c) ==
  /\ OwnerIdle(c) /\ ~IsClosed(c) /\ is_configured(c)
  /\ \E k \in first_cursor .. cursor :
       /\ k > cursor - History
       /\ peer' = [peer EXCEPT ![c].acquiring = k]
  /\ UNCHANGED <<bookVars, control, producer, page, gpu>>

\* acquire stores the claim, or meets the holding limit.
Claim(c) ==
  /\ peer[c].acquiring # 0 /\ \A s \in Slots : peer[c].phase[s] # "claimed"
  /\ \/ \E s \in FirstFree(page[c].slot) :
          /\ page' = [page EXCEPT ![c].slot[s] = peer[c].acquiring]
          /\ peer' = [peer EXCEPT ![c].phase[s] = "claimed", ![c].hold[s] = peer[c].current]
     \/ /\ FirstFree(page[c].slot) = {}
        /\ peer' = [peer EXCEPT ![c].acquiring = 0]
        /\ UNCHANGED page
  /\ UNCHANGED <<bookVars, control, producer, gpu>>

\* Validation, then the closure and configuration checks.  All three only ever turn
\* false for a cursor, so the outcome is that of one look at them.
Validate(c, s) ==
  /\ peer[c].phase[s] = "claimed"
  /\ IF page[c].slot[s] \in published \cap table[Generation(c)] /\ ~IsClosed(c) /\ is_configured(c)
     THEN /\ peer' = [peer EXCEPT ![c].phase[s] = "lease", ![c].acquiring = 0]
          /\ UNCHANGED page
     ELSE /\ peer' = [peer EXCEPT ![c].phase[s] = "free", ![c].hold[s] = 0, ![c].acquiring = 0]
          /\ page' = [page EXCEPT ![c].slot[s] = 0]
  /\ UNCHANGED <<bookVars, control, producer, gpu>>

Using(c, s) == <<c, s, page[c].slot[s]>> \in gpu

\* The application submits GPU work that reads the leased frame.
Submit(c, s) ==
  /\ c \in Asynchronous /\ peer[c].phase[s] = "lease"
  /\ gpu' = gpu \cup {<<c, s, page[c].slot[s]>>}
  /\ UNCHANGED <<bookVars, control, producer, page, peer>>

\* The work completes: both timelines show it, whoever is still alive.
Complete(c, s, k) ==
  /\ <<c, s, k>> \in gpu
  /\ gpu' = gpu \ {<<c, s, k>>}
  /\ UNCHANGED <<bookVars, control, producer, page, peer>>

\* Claim::drop returns the claim; its Arc goes afterwards.  Of several threads that
\* drop leases of one mapping, one at a time is in between.
Release(c, s) ==
  /\ peer[c].phase[s] = "lease" /\ ~Using(c, s)
  /\ peer[c].hold[s] \notin peer[c].dropping
  /\ page' = [page EXCEPT ![c].slot[s] = 0]
  /\ peer' = [peer EXCEPT ![c].phase[s] = "free", ![c].hold[s] = 0,
                          ![c].dropping = @ \cup {peer[c].hold[s]}]
  /\ UNCHANGED <<bookVars, control, producer, gpu>>

DropArc(c, m) ==
  /\ m \in peer[c].dropping
  /\ peer' = [peer EXCEPT ![c].dropping = @ \ {m}]
  /\ UNCHANGED <<bookVars, control, producer, page, gpu>>

\* defer_release: the lease moves to the retirement worker, release state 1.
Defer(c, s) ==
  /\ c \in Asynchronous /\ peer[c].phase[s] = "lease"
  /\ page' = [page EXCEPT ![c].pend[s] = 1]
  /\ peer' = [peer EXCEPT ![c].phase[s] = "deferred"]
  /\ UNCHANGED <<bookVars, control, producer, gpu>>

\* The retirement worker sees the completion and drops its Arc ...
RetireLocal(c, s) ==
  LET m == peer[c].hold[s]
      p == [peer[c] EXCEPT !.hold[s] = 0] IN
  /\ peer[c].phase[s] = "deferred" /\ ~Using(c, s)
  /\ peer' = [peer EXCEPT ![c].phase[s] = "retiring", ![c].hold[s] = 0,
                          ![c].via[s] = IF Arcs(p, m) THEN 0 ELSE m]
  /\ UNCHANGED <<bookVars, control, producer, page, gpu>>

\* Mutant: release state 2 is stored before the mapping is gone.
FinishRetire_CreditFirst(c, s) ==
  /\ peer[c].phase[s] = "retiring"
  /\ page' = [page EXCEPT ![c].pend[s] = 2]
  /\ peer' = [peer EXCEPT ![c].phase[s] = "free"]
  /\ UNCHANGED <<bookVars, control, producer, gpu>>

\* ... before it stores release state 2.
FinishRetire(c, s) ==
  /\ peer[c].phase[s] = "retiring" /\ peer[c].via[s] = 0
  /\ page' = [page EXCEPT ![c].pend[s] = 2]
  /\ peer' = [peer EXCEPT ![c].phase[s] = "free"]
  /\ UNCHANGED <<bookVars, control, producer, gpu>>

-----------------------------------------------------------------------------
(* The producer's observer of an incarnation. *)

\* ObservationState::poll: retired by the consumer and seen complete by the producer.
ReturnCredit(c, s) ==
  /\ c \in claims /\ page[c].pend[s] = 2 /\ ~Using(c, s)
  /\ page' = [page EXCEPT ![c].slot[s] = 0, ![c].pend[s] = 0]
  /\ UNCHANGED <<bookVars, control, producer, peer, gpu>>

\* The consumer's process ends; its GPU work does not.
Exit(c) ==
  /\ Alive(c)
  /\ peer' = [peer EXCEPT ![c] = [NoPeer EXCEPT !.life = "exited",
                                    !.grant = IF Delivered(c) THEN 0 ELSE peer[c].grant]]
  /\ UNCHANGED <<bookVars, control, producer, page, gpu>>

\* observe_process: mappings are gone, and so are claims no GPU can be using.  A claim
\* without completion evidence stays.
ObserveExit(c) ==
  LET Returned(s) == page[c].pend[s] = 0 /\ c \notin Asynchronous IN
  /\ c \in claims /\ peer[c].life = "exited"
  /\ peer' = [peer EXCEPT ![c].life = "gone"]
  /\ page' = [page EXCEPT ![c].active = FALSE, ![c].quiescent = TRUE,
                ![c].mapping = [m \in MapSlots |-> None],
                ![c].slot = [s \in Slots |-> IF Returned(s) THEN 0 ELSE @[s]],
                ![c].pend = [s \in Slots |-> IF @[s] = 0 THEN 0 ELSE 2]]
  /\ UNCHANGED <<bookVars, control, producer, gpu>>

-----------------------------------------------------------------------------
ProducerNext ==
  \/ BeginPoll \/ BeginRetired \/ EndPoll \/ Attach \/ AttachFails \/ Publish \/ UseAllocation
  \/ \E c \in Incarnations : CollectQuiescent(c) \/ Offer(c) \/ FinishOffer(c) \/ Close(c)
  \/ \E id \in Generations : CollectRetired(id) \/ EndUse(id)
  \/ BeginReconfiguration \/ RetirePublications \/ ReserveReplacement
  \/ InstallReplacement \/ AllocationFails \/ Stop

ConsumerNext(c) ==
  \/ Import(c) \/ AbandonGrant(c) \/ DropOffer(c) \/ Install(c) \/ FinishInstall(c)
  \/ relinquish_configuration(c) \/ DropConsumer(c) \/ DropResources(c)
  \/ AcknowledgeQuiescent(c) \/ Select(c) \/ Claim(c) \/ Exit(c) \/ ObserveExit(c)
  \/ \E m \in MapSlots : Unmap(c, m) \/ AcknowledgeMapping(c, m) \/ DropArc(c, m)
  \/ \E s \in Slots : Validate(c, s) \/ Submit(c, s) \/ Release(c, s) \/ Defer(c, s)
                        \/ RetireLocal(c, s) \/ FinishRetire(c, s) \/ ReturnCredit(c, s)
  \/ \E s \in Slots, k \in 1 .. MaxCursor : Complete(c, s, k)

Next == ProducerNext \/ \E c \in Incarnations : ConsumerNext(c)

Spec == Init /\ [][Next]_arenaVars

\* A producer's call in progress comes to its end.
CallStep ==
  \/ BeginRetired \/ EndPoll \/ RetirePublications \/ InstallReplacement \/ AllocationFails
  \/ \E c \in Incarnations : CollectQuiescent(c) \/ FinishOffer(c)
  \/ \E id \in Generations : CollectRetired(id)

\* The host keeps polling and retries advance_reconfiguration, its own uses end.
HostFairness ==
  /\ WF_arenaVars(CallStep) /\ WF_arenaVars(BeginPoll) /\ SF_arenaVars(ReserveReplacement)
  /\ WF_arenaVars(\E id \in Generations : EndUse(id))

OwnerStep(c) ==
  FinishInstall(c) \/ Claim(c) \/ DropResources(c) \/ \E s \in Slots : Validate(c, s)

DropStep(c) ==
  \/ AcknowledgeQuiescent(c)
  \/ \E m \in MapSlots : Unmap(c, m) \/ DropArc(c, m) \/ AcknowledgeMapping(c, m)

\* Threads of both processes run, and GPU work completes.
StepFairness(c) ==
  /\ WF_arenaVars(OwnerStep(c)) /\ WF_arenaVars(DropStep(c))
  /\ WF_arenaVars(\E s \in Slots : RetireLocal(c, s) \/ FinishRetire(c, s))
  /\ WF_arenaVars(ObserveExit(c) \/ \E s \in Slots : ReturnCredit(c, s))
  /\ WF_arenaVars(\E s \in Slots, k \in 1 .. MaxCursor : Complete(c, s, k))

\* What a consumer owes the others: it imports or drops its grant, drops a stale offer,
\* relinquishes a mapping that is not the configuration, and ends its leases.
ConsumerFairness(c) ==
  /\ WF_arenaVars(Import(c) \/ AbandonGrant(c))
  /\ WF_arenaVars(DropOffer(c) /\ page[c].mapping[peer[c].grant] # configuration)
  /\ WF_arenaVars(relinquish_configuration(c) /\ ~is_configured(c))
  /\ \A s \in Slots : SF_arenaVars(Release(c, s) \/ Defer(c, s))

FairSpec ==
  /\ Spec /\ HostFairness
  /\ \A c \in Incarnations : StepFairness(c) /\ ConsumerFairness(c)

-----------------------------------------------------------------------------
ArenaTypeOK ==
  /\ configuration \in Generations \cup {None}
  /\ first_cursor \in 1 .. MaxCursor + 1 /\ cursor \in 0 .. MaxCursor
  /\ published \subseteq 1 .. cursor /\ retired \subseteq Generations
  /\ claims \subseteq Incarnations /\ users \subseteq Generations
  /\ \A c \in Incarnations :
       /\ page[c] \in [active : BOOLEAN, quiescent : BOOLEAN, offered : 0 .. LastAllocation,
                       mapping : [MapSlots -> 0 .. LastAllocation],
                       slot : [Slots -> 0 .. MaxCursor], pend : [Slots -> 0 .. 2]]
       /\ peer[c].grant \in MapSlots \cup {0} /\ peer[c].current \in MapSlots \cup {0}
       /\ peer[c].mapped \subseteq MapSlots /\ peer[c].dropping \subseteq MapSlots

\* collect_retired_allocations never returns the bytes of an allocation that a living
\* consumer maps or holds an offer for: unmapping precedes the acknowledgement, and
\* the acknowledgement precedes the cleanup.
MappedCharged ==
  \A c \in Incarnations : Alive(c) =>
    \A m \in (peer[c].mapped \cup {peer[c].grant}) \ {0} :
      page[c].mapping[m] \in DOMAIN allocations

\* A leased frame stays in the allocation its mapping names, and a frame that GPU work
\* still reads stays in a charged allocation, even after its process is gone.
UseCharged ==
  /\ \A c \in Incarnations : \A s \in Slots : peer[c].phase[s] = "lease" =>
       \E g \in DOMAIN allocations :
         g = page[c].mapping[peer[c].hold[s]] /\ page[c].slot[s] \in table[g]
  /\ \A use \in gpu : \E g \in DOMAIN allocations : use[3] \in table[g]

\* The ledger charges exactly what the arena tracks: the `expect`s of collect_quiescent
\* and collect_retired_allocations never fail, and nothing stays charged by accident.
LedgerMatches ==
  /\ claims = DOMAIN reservations
  /\ retired \cap {current_allocation, pending.reserved} = {}
  /\ ppc # "retire" =>
       DOMAIN allocations = retired \cup ({current_allocation, pending.reserved} \ {None})

\* poll_shutdown_ready: "all admitted mappings, leases and retired allocations have
\* drained", so the owner may destroy what is left.
ShutdownReadySafe ==
  terminal /\ claims = {} /\ retired = {} =>
    /\ gpu = {}
    /\ \A c \in Incarnations : peer[c].mapped = {} /\ \A s \in Slots : peer[c].phase[s] = "free"

\* configuration_offer would search for a free mapping slot of c.
MayOffer(c) ==
  /\ ppc = "idle" /\ c \in claims /\ page[c].active
  /\ current_allocation # None /\ page[c].offered = None

HasFreeSlot(c) == FirstFree(page[c].mapping) # {}

\* "H + 2 mapping-reference slots: at most H generations retained by leases, one current
\* mapping, and one outstanding offer": a consumer between two calls can be offered the
\* configuration.
OfferFits == \A c \in Incarnations : OwnerIdle(c) /\ MayOffer(c) => HasFreeSlot(c)

\* An offer finds a mapping slot unless some lease returned its claim but not yet its
\* mapping: neither install_configuration, which drops the old mapping before it clears
\* OFFERED_GENERATION, nor the retirement worker, which drops it before it returns the
\* claim, can use up the slots.
OfferFitsSettled ==
  \A c \in Incarnations : MayOffer(c) /\ Lingering(c) = {} => HasFreeSlot(c)

\* A claim whose process exited without completion evidence: it stays for good.
Quarantined(c, s) == peer[c].life = "gone" /\ page[c].slot[s] # 0 /\ page[c].pend[s] = 0

\* Failed allocations used up the identities of the bound.
OutOfIds == next_allocation = LastAllocation /\ pending.reserved = None

\* A paused reconfiguration is installed even when the budget has no room for old and
\* new allocation at once: consumers give back old mappings without waiting for new
\* ones.  Only a stop of the arena or a quarantined claim prevents it; no claim of a
\* consumer outside Asynchronous is ever quarantined.
ReplacementCompletes ==
  current_allocation = None ~>
    \/ current_allocation # None \/ terminal \/ OutOfIds
    \/ \E c \in Incarnations : \E s \in Slots : Quarantined(c, s)
=============================================================================
