--------------------------- MODULE DeferredRelease ---------------------------
(***************************************************************************)
(* The two owners of a deferred release of one incarnation: the consumer's *)
(* retirement worker (crates/jackstay/src/acquisition/arena/retirement.rs) *)
(* and the producer's observer of the incarnation (arena/cleanup.rs).      *)
(*                                                                         *)
(* Each owner polls under its own mutex, slot by slot: it reads a          *)
(* completion, and releases the slot or asks the backend for a one-shot    *)
(* notification.  The backend, the other owner, the process and the host   *)
(* run between those steps.  RELEASE_PENDING is 1 after the handoff and 2  *)
(* once the consumer has dropped its mapping or is gone.                   *)
(*                                                                         *)
(* The observer also waits for the mapping words of the page.  The words   *)
(* of the consumer's mappings are taken together: one is set while the     *)
(* handle, a lease or a deferred use keeps a mapping.  The word of an      *)
(* offered configuration is apart.  Which mapping is which, and            *)
(* relinquish_configuration, are ArenaReconfiguration's.                   *)
(***************************************************************************)
EXTENDS Integers, FiniteSets

CONSTANTS
  H,             \* holding credit: claim slots, and the most timelines
  MaxTimelines,  \* bound: timelines the consumer registers
  MaxValue,      \* bound: the last value of a timeline
  Offers,        \* bound: whether the host offers the consumer new configurations
  MaxFaults      \* bound: how often a backend or a channel fails or a deadline passes

ASSUME ReleaseAssumption ==
  /\ H \in Nat \ {0} /\ MaxTimelines \in 0 .. H
  /\ MaxValue \in Nat /\ Offers \in BOOLEAN /\ MaxFaults \in Nat

Slots     == 1 .. H
Timelines == 1 .. MaxTimelines
Values    == 0 .. MaxValue
None      == <<>>

\* A use: the timeline and the value that completes it.
Uses == Timelines \X (Values \ {0})

VARIABLES
  claimed, pending, release,  \* the claim page: slot # 0, RELEASE_PENDING, RELEASE_ID and _VALUE
  active, quiescent,          \* ACTIVE, QUIESCENT
  completed,                  \* what each timeline has reached
  faults,
  lease,      \* per slot: the consumer's FrameLease, "none", "held" or "returning"
  handle,     \* the ArenaConsumer: "open", "dropped" while it keeps its mapping, or "gone"
  exited,     \* the consumer's process ended
  bound,      \* consumer: timelines with a local source
  resources,  \* consumer State.slots: the use that retains a mapping, or None
  closed, rfailed, expired,   \* consumer State: closed, failure, deadline passed
  rpc, rpoll, rwake,          \* retirement worker, the poll under its mutex, LocalWake
  registered, \* observer: number of timelines
  unresolved, ofailed, dead,  \* observer: quarantined claims, failure, notification_failed
  process,    \* observer: the watch is still in the state
  opc, watch, opoll, owake,   \* observer worker, its clone of the watch, the poll, the channel
  armed, callbacks,           \* per owner: the slot's notification, and those not yet fired
  mapped,     \* a mapping word of the consumer's resources is set
  offered,    \* OFFERED_GENERATION # 0: a ConfigurationGrant keeps a mapping word
  waking,     \* a handoff has yet to signal the LocalWake
  native      \* observer: native_resources; read at the exit only, and chosen there

page     == <<claimed, pending, release, active, quiescent>>
consumer == <<lease, handle, exited, bound, resources, closed, rfailed, expired, rpc, rpoll, rwake>>
observer == <<registered, unresolved, ofailed, dead, process, opc, watch, opoll, owake>>
backend  == <<completed, faults, armed, callbacks>>
maps     == <<mapped, offered, waking, native>>
releaseVars == <<page, consumer, observer, backend, maps>>

Owners == {"consumer", "producer"}

\* No poll holds the mutex; a poll is at a step of a slot, for the worker or another caller.
Idle == [by |-> "none", slot |-> 1, at |-> "slot"]
Polling(who) == [by |-> who, slot |-> 1, at |-> "slot"]

Init ==
  /\ claimed = [s \in Slots |-> FALSE] /\ pending = [s \in Slots |-> 0]
  /\ release = [s \in Slots |-> None]
  /\ active = TRUE /\ quiescent = FALSE
  /\ completed = [t \in Timelines |-> 0] /\ faults = 0
  /\ lease = [s \in Slots |-> "none"] /\ handle = "open" /\ exited = FALSE /\ bound = {}
  /\ resources = [s \in Slots |-> None]
  /\ closed = FALSE /\ rfailed = FALSE /\ expired = FALSE
  /\ rpc = "lock" /\ rpoll = Idle /\ rwake = FALSE
  /\ registered = 0 /\ unresolved = FALSE /\ ofailed = FALSE /\ dead = FALSE /\ process = TRUE
  /\ opc = "lock" /\ watch = FALSE /\ opoll = Idle /\ owake = FALSE
  /\ armed = [o \in Owners |-> [s \in Slots |-> None]]
  /\ callbacks = [o \in Owners |-> {}]
  /\ mapped = TRUE /\ offered = FALSE /\ waking = FALSE /\ native = FALSE

Empty == \A s \in Slots : resources[s] = None

\* Something in the consumer's process keeps an Arc<ConsumerResources>.
Retained ==
  \/ handle # "gone"
  \/ \E s \in Slots : lease[s] # "none" \/ resources[s] # None

\* The last Arc<ConsumerResources> clears its mapping word and tells the observer.
ClearMapping == mapped' = (mapped /\ Retained')

has_mappings == mapped \/ offered

Drained == quiescent /\ ~has_mappings /\ \A s \in Slots : ~claimed[s]

\* The host's thread is in no call of the producer.
HostIdle == opoll.by # "host"

Done(use) == completed[use[1]] >= use[2]

-----------------------------------------------------------------------------
(* Backend.  A callback runs once, at or after its value, on any thread. *)

Tick(t) ==
  /\ completed[t] < MaxValue
  /\ completed' = [completed EXCEPT ![t] = @ + 1]
  /\ UNCHANGED <<maps, page, consumer, observer, faults, armed, callbacks>>

Fire(o, c) ==
  /\ c \in callbacks[o] /\ Done(c.use)
  /\ callbacks' = [callbacks EXCEPT ![o] = @ \ {c}]
  /\ IF o = "producer" THEN owake' = TRUE /\ UNCHANGED rwake
                       ELSE rwake' = TRUE /\ UNCHANGED owake
  /\ UNCHANGED <<maps, page, completed, faults, armed, lease, handle, exited, bound, resources,
                 closed, rfailed, expired, rpc, rpoll, registered, unresolved, ofailed, dead,
                 process, opc, watch, opoll>>

\* has_fired
Fired(o, s) == armed[o][s] # None /\ [slot |-> s, use |-> armed[o][s]] \notin callbacks[o]

\* Mutant: the notification is forgotten with the release it was for.
Disarmed_Early(o, s) ==
  [armed EXCEPT ![o][s] =
     IF Fired(o, s) \/ (o = "producer" /\ pending[s] = 0) THEN None ELSE @]

\* Mutant: a fired notification is kept.
Disarmed_Never(o, s) == armed

\* Owner o forgets the slot's notification once it has fired.
Disarmed(o, s) == [armed EXCEPT ![o][s] = IF Fired(o, s) THEN None ELSE @]

\* notify_at, for the use of slot s.
NotifyAt(o, s, use) ==
  /\ armed' = [armed EXCEPT ![o][s] = use]
  /\ callbacks' = [callbacks EXCEPT ![o] = @ \cup {[slot |-> s, use |-> use]}]

-----------------------------------------------------------------------------
(* Setup. *)

\* register_release_timeline
Register ==
  /\ active /\ opoll = Idle /\ HostIdle /\ opc # "gone" /\ registered < MaxTimelines
  /\ registered' = registered + 1
  /\ UNCHANGED <<maps, page, consumer, backend, unresolved, ofailed, dead, process, opc, watch,
                 opoll, owake>>

\* Mutant: the registration is not looked up.
Bind_Unregistered(t) ==
  /\ handle = "open" /\ ~exited /\ active /\ rpoll = Idle /\ t \notin bound
  /\ bound' = bound \cup {t}
  /\ UNCHANGED <<maps, page, observer, backend, lease, handle, exited, resources, closed, rfailed,
                 expired, rpc, rpoll, rwake>>

\* bind_release_timeline
Bind(t) ==
  /\ handle = "open" /\ ~exited /\ active /\ rpoll = Idle /\ t <= registered /\ t \notin bound
  /\ bound' = bound \cup {t}
  /\ UNCHANGED <<maps, page, observer, backend, lease, handle, exited, resources, closed, rfailed,
                 expired, rpc, rpoll, rwake>>

\* acquire, and return_credit by the drop of the lease, in its two stores.
Acquire(s) ==
  /\ handle = "open" /\ ~exited /\ active /\ ~claimed[s]
  /\ claimed' = [claimed EXCEPT ![s] = TRUE] /\ lease' = [lease EXCEPT ![s] = "held"]
  /\ UNCHANGED <<maps, pending, release, active, quiescent, handle, exited, bound, resources,
                 closed, rfailed, expired, rpc, rpoll, rwake, observer, backend>>

DropLease(s) ==
  /\ lease[s] = "held" /\ ~exited
  /\ lease' = [lease EXCEPT ![s] = "returning"] /\ pending' = [pending EXCEPT ![s] = 0]
  /\ UNCHANGED <<maps, claimed, release, active, quiescent, handle, exited, bound, resources,
                 closed, rfailed, expired, rpc, rpoll, rwake, observer, backend>>

\* The claim is cleared, a closed incarnation's observer is told, and the field `owner` of the
\* Claim is dropped; the lifetime goes last, so no quiescence comes between the two.
ReturnLease(s) ==
  /\ lease[s] = "returning" /\ ~exited
  /\ lease' = [lease EXCEPT ![s] = "none"] /\ claimed' = [claimed EXCEPT ![s] = FALSE]
  /\ UNCHANGED <<offered, waking, native, pending, release, active, quiescent, handle, exited,
                 bound, resources, closed, rfailed, expired, rpc, rpoll, rwake, registered,
                 unresolved, ofailed, dead, process, opc, watch, opoll, backend>>
  /\ ClearMapping /\ owake' = (owake \/ ~active \/ ~Retained')

\* Retirement::failure_reason
Refused == ~Empty /\ (rfailed \/ expired)

\* Retirement::handoff.  The mutex keeps the local owner away until state 1 is published,
\* and the producer reads the use only then, so it is one step; the wake comes after it.
Handoff(s, use) ==
  /\ lease[s] = "held" /\ ~exited /\ rpoll = Idle /\ use[1] \in bound
  /\ ~Refused /\ resources[s] = None /\ ~waking
  /\ lease' = [lease EXCEPT ![s] = "none"] /\ waking' = TRUE
  /\ resources' = [resources EXCEPT ![s] = use]
  /\ release' = [release EXCEPT ![s] = use] /\ pending' = [pending EXCEPT ![s] = 1]
  /\ owake' = TRUE
  /\ UNCHANGED <<mapped, offered, native, claimed, active, quiescent, handle, exited, bound,
                 closed, rfailed, expired, rpc, rpoll, rwake, registered, unresolved, ofailed,
                 dead, process, opc, watch, opoll, backend>>

\* Mutant: the local owner is not woken.
HandoffWake_Forgotten ==
  /\ waking /\ ~exited
  /\ waking' = FALSE
  /\ UNCHANGED <<mapped, offered, native, page, consumer, observer, backend>>

HandoffWake ==
  /\ waking /\ ~exited
  /\ waking' = FALSE /\ rwake' = TRUE
  /\ UNCHANGED <<mapped, offered, native, page, observer, backend, lease, handle, exited, bound,
                 resources, closed, rfailed, expired, rpc, rpoll>>

\* ClaimMap::close: the observer is told once.
ClosePage == active' = FALSE /\ owake' = (owake \/ active)

\* Drop of the ArenaConsumer: begin_drain, then its fields.
DropHandle ==
  /\ handle = "open" /\ ~exited /\ rpoll = Idle
  /\ handle' = "dropped" /\ ClosePage /\ rwake' = TRUE
  /\ UNCHANGED <<maps, claimed, pending, release, quiescent, lease, exited, bound, resources,
                 closed, rfailed, expired, rpc, rpoll, registered, unresolved, ofailed, dead,
                 process, opc, watch, opoll, backend>>

\* The field `lifetime`.  Drop of the ConsumerLifetime, when no lease keeps it: closed, and
\* a poll by this thread.
CloseLifetime ==
  /\ handle # "open" /\ ~exited /\ ~closed /\ rpoll = Idle
  /\ ~waking /\ \A s \in Slots : lease[s] = "none"
  /\ closed' = TRUE /\ rpoll' = Polling("owner")
  /\ UNCHANGED <<maps, page, observer, backend, lease, handle, exited, bound, resources, rfailed,
                 expired, rpc, rwake>>

\* Mutant: the observer is not told that the mapping is gone.
DropResources_Silent ==
  /\ handle = "dropped" /\ ~exited
  /\ handle' = "gone"
  /\ UNCHANGED <<offered, waking, native, page, observer, backend, lease, exited, bound, resources,
                 closed, rfailed, expired, rpc, rpoll, rwake>>
  /\ ClearMapping

\* The field `resources` comes after `lifetime`, so quiescence may be acknowledged first.
DropResources ==
  /\ handle = "dropped" /\ ~exited
  /\ handle' = "gone"
  /\ UNCHANGED <<offered, waking, native, page, backend, lease, exited, bound, resources, closed,
                 rfailed, expired, rpc, rpoll, rwake, registered, unresolved, ofailed, dead,
                 process, opc, watch, opoll>>
  /\ ClearMapping /\ owake' = (owake \/ ~Retained')

\* The drain deadline of the consumer passes: LocalWake::wait returns once, and from then on
\* failure_reason has the deadline to report.
Expire ==
  /\ handle # "open" /\ ~exited /\ ~expired /\ faults < MaxFaults
  /\ faults' = faults + 1 /\ expired' = TRUE /\ rwake' = (rwake \/ rpc = "asleep")
  /\ UNCHANGED <<maps, page, observer, completed, armed, callbacks, lease, handle, exited, bound,
                 resources, closed, rfailed, rpc, rpoll>>

\* ConsumerReleaseTimeline::retry_cleanup
RetryConsumer ==
  /\ ~exited /\ rpoll = Idle /\ rpc # "done" /\ rfailed
  /\ rfailed' = FALSE /\ rwake' = TRUE
  /\ UNCHANGED <<maps, page, observer, backend, lease, handle, exited, bound, resources, closed,
                 expired, rpc, rpoll>>

\* The process ends: its memory, its threads and its callbacks are gone; the
\* page is as it was.
Exit ==
  /\ ~exited
  /\ exited' = TRUE /\ lease' = [s \in Slots |-> "none"] /\ handle' = "gone"
  /\ waking' = FALSE /\ bound' = {} /\ closed' = FALSE /\ rfailed' = FALSE /\ expired' = FALSE
  /\ resources' = [s \in Slots |-> None] /\ rpc' = "done" /\ rpoll' = Idle /\ rwake' = FALSE
  /\ callbacks' = [callbacks EXCEPT !["consumer"] = {}]
  /\ armed' = [armed EXCEPT !["consumer"] = [s \in Slots |-> None]]
  /\ UNCHANGED <<mapped, offered, native, page, observer, completed, faults>>

-----------------------------------------------------------------------------
(* The consumer's retirement worker. *)

\* A poll goes to its next slot, or to its end.
NextSlot(poll) ==
  IF poll.slot < H THEN [poll EXCEPT !.slot = @ + 1, !.at = "slot"] ELSE [poll EXCEPT !.at = "end"]

RetireLock ==
  /\ rpc = "lock" /\ rpoll = Idle
  /\ rpc' = "poll" /\ rpoll' = Polling("worker")
  /\ UNCHANGED <<maps, page, observer, backend, lease, handle, exited, bound, resources, closed,
                 rfailed, expired, rwake>>

\* State::poll, one slot: the mapping goes before state 2 is published.
RetireSlot ==
  /\ rpoll.by # "none" /\ rpoll.at = "slot" /\ ~rfailed
  /\ LET s == rpoll.slot
         use == resources[s]
         finished == use # None /\ Done(use)
     IN /\ armed' = Disarmed("consumer", s)
        /\ rpoll' = IF use # None /\ ~finished /\ armed'["consumer"][s] = None
                    THEN [rpoll EXCEPT !.at = "arm"] ELSE NextSlot(rpoll)
        /\ resources' = [resources EXCEPT ![s] = IF finished THEN None ELSE @]
        /\ pending' = [pending EXCEPT ![s] = IF finished THEN 2 ELSE @]
        /\ owake' = (owake \/ finished)
  /\ UNCHANGED <<offered, waking, native, claimed, release, active, quiescent, lease, handle,
                 exited, bound, closed, rfailed, expired, rpc, rwake, registered, unresolved,
                 ofailed, dead, process, opc, watch, opoll, completed, faults, callbacks>>
  /\ ClearMapping

RetireArm ==
  /\ rpoll.at = "arm"
  /\ NotifyAt("consumer", rpoll.slot, resources[rpoll.slot])
  /\ rpoll' = NextSlot(rpoll)
  /\ UNCHANGED <<maps, page, observer, completed, faults, lease, handle, exited, bound, resources,
                 closed, rfailed, expired, rpc, rwake>>

\* The backend fails: State::fail closes the incarnation and the mappings stay.
RetireFails ==
  /\ rpoll.by # "none" /\ rpoll.at \in {"slot", "arm"} /\ ~rfailed /\ faults < MaxFaults
  /\ resources[rpoll.slot] # None
  /\ faults' = faults + 1 /\ rfailed' = TRUE /\ ClosePage
  /\ rpoll' = [rpoll EXCEPT !.at = "end"]
  /\ UNCHANGED <<maps, claimed, pending, release, quiescent, lease, handle, exited, bound,
                 resources, closed, expired, rpc, rwake, registered, unresolved, ofailed, dead,
                 process, opc, watch, opoll, completed, armed, callbacks>>

\* The end of a poll that met no failure acknowledges quiescence; the mutex is released.
RetireEnd ==
  /\ rpoll.by # "none" /\ (rpoll.at = "end" \/ rfailed)
  /\ LET last == closed /\ Empty
     IN /\ quiescent' = (quiescent \/ (last /\ ~rfailed))
        /\ owake' = (owake \/ (last /\ ~rfailed))
        /\ rpc' = IF rpoll.by = "worker" THEN (IF last THEN "done" ELSE "asleep") ELSE rpc
  /\ rwake' = (rwake \/ rpoll.by = "owner")
  /\ rpoll' = Idle
  /\ UNCHANGED <<maps, claimed, pending, release, active, lease, handle, exited, bound, resources,
                 closed, rfailed, expired, registered, unresolved, ofailed, dead, process, opc,
                 watch, opoll, backend>>

\* wait returns and the flag is drained: nothing reads it in between.
RetireWake ==
  /\ rpc = "asleep" /\ rwake
  /\ rpc' = "lock" /\ rwake' = FALSE
  /\ UNCHANGED <<maps, page, observer, backend, lease, handle, exited, bound, resources, closed,
                 rfailed, expired, rpoll>>

-----------------------------------------------------------------------------
(* The producer's observer of the incarnation. *)

\* Mutant: the exit of the process is evidence for every claim.
AtExit_ForceReleases(s) ==
  [claimed |-> claimed[s] /\ pending[s] # 0, pending |-> IF pending[s] # 0 THEN 2 ELSE 0]

\* observe_process, slot s: a submitted use waits for its completion only; a claim without
\* one goes free if nothing can use it asynchronously.
AtExit(s) ==
  [claimed |-> claimed[s] /\ (pending[s] # 0 \/ native' \/ registered > 0),
   pending |-> IF claimed[s] /\ pending[s] # 0 THEN 2 ELSE pending[s]]

\* poll, up to the slots, by the worker or by poll_cleanup on the host's thread.  The exit
\* clears the mapping words, an offered configuration's too.  observe_deadline only reports,
\* see DeadlineWake.
ObserverBegin(who) ==
  /\ opoll = Idle /\ opc # "gone" /\ (IF who = "worker" THEN opc = "lock" ELSE HostIdle)
  /\ opc' = IF who = "worker" THEN "poll" ELSE opc
  /\ opoll' = Polling(who)
  /\ IF process /\ exited
     THEN /\ native' \in BOOLEAN
          /\ process' = FALSE /\ active' = FALSE /\ quiescent' = TRUE /\ owake' = TRUE
          /\ claimed' = [s \in Slots |-> AtExit(s).claimed]
          /\ pending' = [s \in Slots |-> AtExit(s).pending]
          /\ unresolved' = \E s \in Slots : claimed'[s] /\ pending'[s] = 0
          /\ mapped' = FALSE /\ offered' = FALSE
     ELSE UNCHANGED <<native, page, process, unresolved, owake, mapped, offered>>
  /\ UNCHANGED <<waking, release, consumer, backend, registered, ofailed, dead, watch>>

\* One slot: RELEASE_PENDING and the completion are loaded.
ObserverSlot ==
  /\ opoll.by # "none" /\ opoll.at = "slot" /\ ~ofailed
  /\ LET s == opoll.slot
     IN /\ armed' = Disarmed("producer", s)
        /\ opoll' = IF pending[s] = 0 THEN NextSlot(opoll)
                    ELSE IF Done(release[s]) THEN [opoll EXCEPT !.at = "claim"]
                    ELSE IF armed'["producer"][s] = None THEN [opoll EXCEPT !.at = "arm"]
                    ELSE NextSlot(opoll)
  /\ UNCHANGED <<maps, page, consumer, completed, faults, callbacks, registered, unresolved,
                 ofailed, dead, process, opc, watch, owake>>

ObserverArm ==
  /\ opoll.at = "arm"
  /\ NotifyAt("producer", opoll.slot, release[opoll.slot])
  /\ opoll' = NextSlot(opoll)
  /\ UNCHANGED <<maps, page, consumer, completed, faults, registered, unresolved, ofailed, dead,
                 process, opc, watch, owake>>

\* Mutant: the producer's completion is enough.
ObserverClaim_One ==
  /\ opoll.at = "claim"
  /\ pending' = [pending EXCEPT ![opoll.slot] = 0]
  /\ opoll' = [opoll EXCEPT !.at = "credit"]
  /\ UNCHANGED <<maps, claimed, release, active, quiescent, consumer, backend, registered,
                 unresolved, ofailed, dead, process, opc, watch, owake>>

\* Mutant: the slot is freed before the handoff is reset.
ObserverClaim_SlotFirst ==
  /\ opoll.at = "claim"
  /\ IF pending[opoll.slot] = 2
     THEN /\ claimed' = [claimed EXCEPT ![opoll.slot] = FALSE]
          /\ opoll' = [opoll EXCEPT !.at = "credit"]
     ELSE UNCHANGED claimed /\ opoll' = NextSlot(opoll)
  /\ UNCHANGED <<maps, pending, release, active, quiescent, consumer, backend, registered,
                 unresolved, ofailed, dead, process, opc, watch, owake>>

\* The completed use of a consumer that let go: return_credit resets the handoff first ...
ObserverClaim ==
  /\ opoll.at = "claim"
  /\ IF pending[opoll.slot] = 2
     THEN /\ pending' = [pending EXCEPT ![opoll.slot] = 0]
          /\ opoll' = [opoll EXCEPT !.at = "credit"]
     ELSE UNCHANGED pending /\ opoll' = NextSlot(opoll)
  /\ UNCHANGED <<maps, claimed, release, active, quiescent, consumer, backend, registered,
                 unresolved, ofailed, dead, process, opc, watch, owake>>

\* ... and frees the slot.
ObserverCredit ==
  /\ opoll.at = "credit"
  /\ claimed' = [claimed EXCEPT ![opoll.slot] = FALSE]
  /\ owake' = (owake \/ ~active)
  /\ opoll' = NextSlot(opoll)
  /\ UNCHANGED <<maps, pending, release, active, quiescent, consumer, backend, registered,
                 unresolved, ofailed, dead, process, opc, watch>>

\* The backend fails: the claims stay.
ObserverFails ==
  /\ opoll.by # "none" /\ opoll.at \in {"slot", "arm"} /\ ~ofailed /\ faults < MaxFaults
  /\ pending[opoll.slot] # 0
  /\ faults' = faults + 1 /\ ofailed' = TRUE /\ ClosePage
  /\ opoll' = [opoll EXCEPT !.at = "end"]
  /\ UNCHANGED <<maps, claimed, pending, release, quiescent, consumer, completed, armed, callbacks,
                 registered, unresolved, dead, process, opc, watch>>

\* The mutex is released; the host's thread removes a drained observer.
ObserverEnd ==
  /\ opoll.by # "none" /\ (opoll.at = "end" \/ (opoll.at = "slot" /\ ofailed))
  /\ opc' = IF opoll.by = "worker" THEN "check" ELSE IF Drained THEN "gone" ELSE opc
  /\ opoll' = Idle
  /\ UNCHANGED <<maps, page, consumer, backend, registered, unresolved, ofailed, dead, process,
                 watch, owake>>

\* The worker ends when everything is drained, or sleeps with its own reference to the watch.
ObserverCheck ==
  /\ opc = "check" /\ opoll = Idle
  /\ IF Drained THEN opc' = "done" /\ UNCHANGED watch ELSE opc' = "asleep" /\ watch' = process
  /\ UNCHANGED <<maps, page, consumer, backend, registered, unresolved, ofailed, dead, process,
                 opoll, owake>>

\* A byte or the exit ends the sleep, and the channel is drained.
ObserverWake ==
  /\ opc = "asleep" /\ (owake \/ (watch /\ exited))
  /\ opc' = "lock" /\ owake' = FALSE
  /\ UNCHANGED <<maps, page, consumer, backend, registered, unresolved, ofailed, dead, process,
                 watch, opoll>>

\* wake_deadline: the drain deadline of a closed incarnation passes and the sleep ends once.
DeadlineWake ==
  /\ opc = "asleep" /\ ~active /\ ~ofailed /\ ~unresolved /\ faults < MaxFaults
  /\ faults' = faults + 1 /\ opc' = "lock" /\ owake' = FALSE
  /\ UNCHANGED <<maps, page, consumer, completed, armed, callbacks, registered, unresolved,
                 ofailed, dead, process, watch, opoll>>

\* observe_process cannot tell whether the process lives: no retry helps.
WatchFails(who) ==
  /\ opoll = Idle /\ opc # "gone" /\ (IF who = "worker" THEN opc = "lock" ELSE HostIdle)
  /\ process /\ faults < MaxFaults
  /\ faults' = faults + 1 /\ process' = FALSE /\ ofailed' = TRUE /\ dead' = TRUE /\ ClosePage
  /\ opc' = IF who = "worker" THEN "poll" ELSE opc
  /\ opoll' = Polling(who)
  /\ UNCHANGED <<maps, claimed, pending, release, quiescent, consumer, completed, armed, callbacks,
                 registered, unresolved, watch>>

\* drain or sleep fails: the worker ends and no retry helps.
ChannelFails ==
  /\ opc \in {"lock", "asleep"} /\ opoll = Idle /\ faults < MaxFaults
  /\ faults' = faults + 1 /\ ofailed' = TRUE /\ dead' = TRUE /\ opc' = "done" /\ ClosePage
  /\ UNCHANGED <<maps, claimed, pending, release, quiescent, consumer, completed, armed, callbacks,
                 registered, unresolved, process, watch, opoll>>

\* ArenaProducer::retry_cleanup and ::close.
RetryProducer ==
  /\ opoll = Idle /\ HostIdle /\ opc # "gone" /\ ofailed /\ ~dead
  /\ ofailed' = FALSE /\ owake' = TRUE
  /\ UNCHANGED <<maps, page, consumer, backend, registered, unresolved, dead, process, opc, watch,
                 opoll>>

Close ==
  /\ HostIdle /\ active /\ ClosePage
  /\ UNCHANGED <<maps, claimed, pending, release, quiescent, consumer, backend, registered,
                 unresolved, ofailed, dead, process, opc, watch, opoll>>

-----------------------------------------------------------------------------
(* An offered configuration. *)

\* configuration_offer takes a mapping slot for it.  When the incarnation was closed
\* meanwhile the grant is dropped again at once, which is DropOffer.
Offer ==
  /\ Offers /\ HostIdle /\ opc # "gone" /\ active /\ ~offered
  /\ offered' = TRUE
  /\ UNCHANGED <<mapped, waking, native, page, consumer, observer, backend>>

\* Drop of the ConfigurationGrant by whoever has it.
DropOffer ==
  /\ offered
  /\ offered' = FALSE /\ owake' = TRUE
  /\ UNCHANGED <<mapped, waking, native, page, consumer, backend, registered, unresolved, ofailed,
                 dead, process, opc, watch, opoll>>

\* install_with_resources: the grant's word becomes the consumer's; the word of the replaced
\* mapping is cleared, with a wake, if no lease keeps it.
Install ==
  /\ offered /\ handle = "open" /\ ~exited /\ active
  /\ offered' = FALSE /\ owake' \in {owake, TRUE}
  /\ UNCHANGED <<mapped, waking, native, page, consumer, backend, registered, unresolved, ofailed,
                 dead, process, opc, watch, opoll>>

-----------------------------------------------------------------------------
RetireStep == RetireSlot \/ RetireArm \/ RetireEnd

RetireWorker == RetireLock \/ RetireWake

ObserverStep == ObserverSlot \/ ObserverArm \/ ObserverClaim \/ ObserverCredit \/ ObserverEnd

ObserverWorker == ObserverBegin("worker") \/ ObserverCheck \/ ObserverWake

LeaseStep == HandoffWake \/ \E s \in Slots : ReturnLease(s)

HandleStep == CloseLifetime \/ DropResources

Callback == \E o \in Owners : \E c \in callbacks[o] : Fire(o, c)

Next ==
  \/ \E t \in Timelines : Tick(t) \/ Bind(t)
  \/ Callback \/ Register
  \/ \E s \in Slots : Acquire(s) \/ DropLease(s) \/ (\E use \in Uses : Handoff(s, use))
  \/ LeaseStep \/ DropHandle \/ HandleStep \/ Expire \/ RetryConsumer \/ Exit
  \/ RetireWorker \/ RetireStep \/ RetireFails
  \/ ObserverWorker \/ ObserverBegin("host") \/ ObserverStep \/ ObserverFails \/ ChannelFails
  \/ WatchFails("worker") \/ WatchFails("host")
  \/ RetryProducer \/ Close \/ DeadlineWake
  \/ Offer \/ DropOffer \/ Install

Spec == Init /\ [][Next]_releaseVars

\* Both worker threads, a poll that holds a mutex, a drop that began and the
\* backend's callbacks go on.  The host need not poll, the GPU need not finish and nothing
\* makes a grant be installed or dropped.
FairSpec ==
  /\ Spec
  /\ WF_releaseVars(RetireWorker) /\ WF_releaseVars(RetireStep)
  /\ WF_releaseVars(ObserverWorker) /\ WF_releaseVars(ObserverStep)
  /\ WF_releaseVars(LeaseStep) /\ WF_releaseVars(HandleStep)
  /\ WF_releaseVars(Callback)

-----------------------------------------------------------------------------
ReleaseTypeOK ==
  /\ claimed \in [Slots -> BOOLEAN] /\ pending \in [Slots -> 0 .. 2]
  /\ release \in [Slots -> Uses \cup {None}] /\ active \in BOOLEAN /\ quiescent \in BOOLEAN
  /\ completed \in [Timelines -> Values] /\ faults \in 0 .. MaxFaults
  /\ lease \in [Slots -> {"none", "held", "returning"}]
  /\ handle \in {"open", "dropped", "gone"} /\ exited \in BOOLEAN /\ bound \subseteq 1 .. registered
  /\ resources \in [Slots -> Uses \cup {None}]
  /\ closed \in BOOLEAN /\ rfailed \in BOOLEAN /\ expired \in BOOLEAN
  /\ rpc \in {"lock", "poll", "asleep", "done"} /\ rwake \in BOOLEAN
  /\ registered \in 0 .. MaxTimelines
  /\ unresolved \in BOOLEAN /\ ofailed \in BOOLEAN /\ dead \in BOOLEAN
  /\ process \in BOOLEAN /\ watch \in BOOLEAN /\ owake \in BOOLEAN
  /\ opc \in {"lock", "poll", "check", "asleep", "done", "gone"}
  /\ armed \in [Owners -> [Slots -> Uses \cup {None}]]
  /\ mapped \in BOOLEAN /\ offered \in BOOLEAN
  /\ waking \in BOOLEAN /\ native \in BOOLEAN

\* "A new acquirer may reuse it immediately and must never inherit an old pending
\* release": a lease starts with no handoff state and no retirement record of its slot's
\* last holder, so defer_release never meets a retirement slot still in use.
FreshLease ==
  \A s \in Slots : lease[s] = "held" => pending[s] = 0 /\ resources[s] = None

\* The credit of a deferred release comes back only when the GPU has reached its value and
\* the consumer has dropped its mapping.
CreditFollowsCompletion ==
  [][\A s \in Slots :
       pending[s] # 0 /\ pending'[s] = 0 => Done(release[s]) /\ resources[s] = None]_releaseVars

\* A claim a dead process left without completion evidence, on resources a GPU may still
\* read, is never given back, and reported once the exit is observed.
QuarantineKept ==
  [][\A s \in Slots :
       /\ exited /\ claimed[s] /\ pending[s] = 0 /\ (native' \/ registered > 0)
       /\ ~(opoll.slot = s /\ opoll.at = "credit")
       => claimed'[s] /\ (process' \/ unresolved' \/ dead')]_releaseVars

\* "Queued native callbacks remain bounded": each owner has at most one notification per
\* slot in the backend, also when the slot is reused before an old callback runs.
CallbacksBounded ==
  \A o \in Owners, s \in Slots : Cardinality({c \in callbacks[o] : c.slot = s}) <= 1

\* An observer's thread that sleeps with an empty channel misses nothing: the incarnation is
\* not drained, and each handed off slot waits for the consumer or has a notification in the
\* backend, also when the slot was reused before the callback of its last use ran and the
\* new use asked for none.
SleepIsWatched ==
  opc = "asleep" /\ opoll = Idle /\ ~owake /\ ~(watch /\ exited) /\ ~ofailed =>
    /\ ~Drained
    /\ \A s \in Slots : pending[s] # 0 =>
         \/ pending[s] = 1 /\ Done(release[s])
         \/ \E c \in callbacks["producer"] : c.slot = s

\* A deferred release whose value is reached gets its credit back with no help from the
\* host, unless an owner reports a failure.
CreditReturns ==
  \A s \in Slots :
    pending[s] # 0 /\ Done(release[s]) ~> pending[s] = 0 \/ ofailed \/ rfailed

\* When a consumer was dropped with its leases, or its process ended, and the GPU has
\* finished, the observer's thread ends with no help from the host: the clearing of the last
\* mapping word wakes it, also after QUIESCENT.  Only a reported failure, an unresolved claim
\* or a grant that a living consumer was offered and nobody dropped keeps it.
DrainEnds ==
  (/\ exited \/ (handle # "open" /\ ~offered /\ \A s \in Slots : lease[s] # "held")
   /\ \A s \in Slots : pending[s] # 0 => Done(release[s]))
    ~> opc \in {"done", "gone"} \/ ofailed \/ rfailed \/ unresolved
=============================================================================
