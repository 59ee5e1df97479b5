------------------------------ MODULE ArenaWait ------------------------------
(***************************************************************************)
(* A consumer's wait for the arena, and the wakes that end it              *)
(* (crates/jackstay/src/acquisition/arena/wait.rs and wait/unix.rs, with   *)
(* the callers of ClaimMap::signal in arena.rs, cleanup.rs and             *)
(* reconfiguration.rs).                                                    *)
(*                                                                         *)
(* The waiter arms, drains its channel, rechecks five shared words and     *)
(* sleeps in poll.  The producer and the threads that return credit change *)
(* a word, load WAIT_INTEREST and write a byte if it names their event.    *)
(* Each load, store and write is a step.                                   *)
(***************************************************************************)
EXTENDS Integers

CONSTANTS
  Producer,     \* the thread that publishes, reconfigures, closes and stops
  Releasers,    \* threads that return credit: lease owners, workers, observers
  MaxCursor,    \* MAX_GENERATION
  MaxEpoch,     \* u64::MAX of both epochs
  Buffer,       \* bytes the channel holds
  DrainBytes,   \* bytes one drain reads
  Interests     \* the WaitInterest values the callers use: DATA, CAPACITY, ALL

Threads == {Producer} \cup Releasers

ASSUME WaitAssumption ==
  /\ Producer \notin Releasers
  /\ MaxCursor \in Nat /\ MaxEpoch \in Nat
  /\ Buffer \in Nat \ {0} /\ DrainBytes \in Nat \ {0}

ASSUME InterestAssumption == Interests \subseteq SUBSET {"data", "capacity"}

VARIABLES
  word,       \* the shared words the recheck loads
  armed,      \* WAIT_INTEREST: the set of events that write a byte
  bytes,      \* bytes in the wake channel
  reader,     \* the consumer's end of the channel is open
  cancelled,  \* the token's flag
  token,      \* a byte is in the token's channel
  cpc,        \* the cancelling thread
  wpc, at, observed, interest, hit,  \* the waiter: at counts its loads
  pc, kind, again  \* per thread: program point, event to signal, capacity signal due

shared == <<word, armed, bytes, reader>>
cancel == <<cancelled, token, cpc>>
waiter == <<wpc, at, observed, interest, hit>>
raise  == <<pc, kind, again>>
waitVars == <<shared, cancel, waiter, raise>>

\* The loads of events(), in order: is_closed reads ACTIVE, then TERMINAL.
Loads == <<"data", "capacity", "reconfiguration", "active", "terminal">>

Words  == {"data", "capacity", "reconfiguration", "active", "terminal"}
Epochs == {"data", "capacity", "reconfiguration"}
Events == {"data", "capacity", "reconfiguration", "closed"}

Init ==
  /\ word = [w \in Words |-> IF w = "active" THEN 1 ELSE 0]
  /\ armed = {} /\ bytes = 0 /\ reader = TRUE
  /\ cancelled = FALSE /\ token = FALSE /\ cpc = "idle"
  /\ wpc = "idle" /\ at = 1 /\ observed = [w \in Epochs |-> 0]
  /\ interest = {} /\ hit = FALSE
  /\ pc = [t \in Threads |-> "idle"]
  /\ kind = [t \in Threads |-> "data"]
  /\ again = [t \in Threads |-> FALSE]

-----------------------------------------------------------------------------
(* Signalling threads. *)

\* Thread t changed a word and goes on at point p to signal event e.
Raise(t, p, e) ==
  /\ pc' = [pc EXCEPT ![t] = p] /\ kind' = [kind EXCEPT ![t] = e]

\* Mutant: the last generation is not checked for.
Publish_Unbounded ==
  /\ pc[Producer] = "idle" /\ word["terminal"] = 0
  /\ word' = [word EXCEPT !["data"] = @ + 1] /\ Raise(Producer, "load", "data")
  /\ UNCHANGED <<armed, bytes, reader, cancel, waiter, again>>

\* publish_prepared: a new LATEST, or the end of the generations.
Publish ==
  /\ pc[Producer] = "idle" /\ word["terminal"] = 0
  /\ IF word["data"] < MaxCursor
     THEN word' = [word EXCEPT !["data"] = @ + 1] /\ Raise(Producer, "load", "data")
     ELSE word' = [word EXCEPT !["terminal"] = 1] /\ Raise(Producer, "close", "closed")
  /\ UNCHANGED <<armed, bytes, reader, cancel, waiter, again>>

\* signal_reconfiguration: a new epoch, or the end of the epochs.
Reconfigure ==
  /\ pc[Producer] = "idle" /\ word["terminal"] = 0
  /\ IF word["reconfiguration"] < MaxEpoch
     THEN /\ word' = [word EXCEPT !["reconfiguration"] = @ + 1]
          /\ Raise(Producer, "load", "reconfiguration")
     ELSE word' = [word EXCEPT !["terminal"] = 1] /\ Raise(Producer, "close", "closed")
  /\ UNCHANGED <<armed, bytes, reader, cancel, waiter, again>>

\* ArenaProducer::stop.
Stop ==
  /\ pc[Producer] = "idle"
  /\ word' = [word EXCEPT !["terminal"] = 1]
  /\ Raise(Producer, "close", "closed")
  /\ UNCHANGED <<armed, bytes, reader, cancel, waiter, again>>

\* ArenaProducer::close, and the failures of an observer or retirement worker.
Close(t) ==
  /\ pc[t] = "idle"
  /\ Raise(t, "close", "closed")
  /\ UNCHANGED <<shared, cancel, waiter, again>>

\* return_credit: fetch_add on CAPACITY_EPOCH; a wrap closes before it signals.
ReturnCredit(t) ==
  /\ pc[t] = "idle"
  /\ IF word["capacity"] = MaxEpoch
     THEN /\ word' = [word EXCEPT !["capacity"] = 0]
          /\ Raise(t, "close", "closed")
          /\ again' = [again EXCEPT ![t] = TRUE]
     ELSE /\ word' = [word EXCEPT !["capacity"] = @ + 1]
          /\ Raise(t, "load", "capacity")
          /\ UNCHANGED again
  /\ UNCHANGED <<armed, bytes, reader, cancel, waiter>>

\* The thread is done with one signal: a wrapped epoch has a second one due.
Signalled(t) ==
  /\ again' = [again EXCEPT ![t] = FALSE]
  /\ IF again[t] THEN Raise(t, "load", "capacity") ELSE Raise(t, "idle", "data")

\* ClaimMap::close: only the thread that turns ACTIVE off signals.
TurnInactive(t) ==
  /\ pc[t] = "close"
  /\ word' = [word EXCEPT !["active"] = 0]
  /\ IF word["active"] = 1 THEN Raise(t, "load", "closed") /\ UNCHANGED again
                           ELSE Signalled(t)
  /\ UNCHANGED <<armed, bytes, reader, cancel, waiter>>

\* ClaimMap::signal loads WAIT_INTEREST (the doorbell it rings before is a hint to a host
\* without a wait) ...
LoadInterest(t) ==
  /\ pc[t] = "load"
  /\ IF kind[t] \in armed THEN Raise(t, "write", kind[t]) /\ UNCHANGED again
                          ELSE Signalled(t)
  /\ UNCHANGED <<shared, cancel, waiter>>

\* ... and writes a byte: a full channel has one already, a closed one ends the
\* incarnation.  Other errors do not happen to a valid descriptor and are left out.
WriteWake(t) ==
  /\ pc[t] = "write"
  /\ IF reader THEN bytes' = (IF bytes < Buffer THEN bytes + 1 ELSE bytes) /\ UNCHANGED word
               ELSE word' = [word EXCEPT !["active"] = 0] /\ UNCHANGED bytes
  /\ Signalled(t)
  /\ UNCHANGED <<armed, reader, cancel, waiter>>

-----------------------------------------------------------------------------
(* Cancellation. *)

\* Mutant: the flag is set and no byte is written.
Cancel_FlagOnly ==
  /\ cpc = "idle" /\ ~cancelled
  /\ cancelled' = TRUE
  /\ UNCHANGED <<shared, token, cpc, waiter, raise>>

\* Cancellation::cancel: the first caller sets the flag, then writes the byte.
Cancel ==
  /\ cpc = "idle" /\ ~cancelled
  /\ cancelled' = TRUE /\ cpc' = "wake"
  /\ UNCHANGED <<shared, token, waiter, raise>>

CancelWake ==
  /\ cpc = "wake"
  /\ token' = TRUE /\ cpc' = "idle"
  /\ UNCHANGED <<shared, cancelled, waiter, raise>>

-----------------------------------------------------------------------------
(* The waiter. *)

\* events(), called before the acquisition predicate; `closed` is not compared.
Snapshot ==
  /\ wpc = "idle" /\ at <= 3
  /\ observed' = [observed EXCEPT ![Loads[at]] = word[Loads[at]]]
  /\ at' = at + 1
  /\ UNCHANGED <<shared, cancel, wpc, interest, hit, raise>>

\* Mutant: only the caller's interest is armed.
Arm_InterestOnly ==
  /\ wpc = "idle" /\ at = 4
  /\ interest' \in Interests
  /\ armed' = interest'
  /\ wpc' = "drain"
  /\ UNCHANGED <<word, bytes, reader, cancel, at, observed, hit, raise>>

\* wait stores its interest; closure and reconfiguration always count.
Arm ==
  /\ wpc = "idle" /\ at = 4
  /\ interest' \in Interests
  /\ armed' = interest' \cup {"closed", "reconfiguration"}
  /\ wpc' = "drain"
  /\ UNCHANGED <<word, bytes, reader, cancel, at, observed, hit, raise>>

\* One bounded read.
Drain ==
  /\ wpc = "drain"
  /\ bytes' = IF bytes > DrainBytes THEN bytes - DrainBytes ELSE 0
  /\ wpc' = "cancelled"
  /\ UNCHANGED <<word, armed, reader, cancel, at, observed, interest, hit, raise>>

\* The waiter's locals end with its call.
Leave(p) ==
  /\ wpc' = p /\ at' = 1 /\ hit' = FALSE
  /\ interest' = {} /\ observed' = [w \in Epochs |-> 0]

\* wait returns Cancelled, Changed or TimedOut: Disarm clears WAIT_INTEREST.
Return ==
  /\ armed' = {} /\ Leave("idle")
  /\ UNCHANGED <<word, bytes, reader, cancel, raise>>

CheckCancelled ==
  /\ wpc = "cancelled"
  /\ IF cancelled
     THEN Return
     ELSE /\ wpc' = "recheck" /\ at' = 1 /\ hit' = FALSE
          /\ UNCHANGED <<shared, cancel, observed, interest, raise>>

\* WaitInterest::changed, one word at a time.
Differs(w) ==
  CASE w = "active"          -> word["active"] = 0
    [] w = "terminal"        -> word["terminal"] = 1
    [] w = "reconfiguration" -> word[w] # observed[w]
    [] OTHER                 -> w \in interest /\ word[w] # observed[w]

\* Mutant: a change of any word ends the wait.
Recheck_AnyWord ==
  /\ wpc = "recheck" /\ at <= 5
  /\ hit' = (hit \/ (IF Loads[at] \in Epochs THEN word[Loads[at]] # observed[Loads[at]]
                                            ELSE Differs(Loads[at])))
  /\ at' = at + 1
  /\ UNCHANGED <<shared, cancel, wpc, observed, interest, raise>>

\* events() again.
Recheck ==
  /\ wpc = "recheck" /\ at <= 5
  /\ hit' = (hit \/ Differs(Loads[at]))
  /\ at' = at + 1
  /\ UNCHANGED <<shared, cancel, wpc, observed, interest, raise>>

\* Changed, or the deadline: return.  Else poll.
Decide ==
  /\ wpc = "recheck" /\ at = 6
  /\ \/ Return
     \/ /\ ~hit /\ wpc' = "sleep"
        /\ UNCHANGED <<shared, cancel, at, observed, interest, hit, raise>>

\* Mutant: poll watches only the cancellation channel.
WakeUp_TokenOnly ==
  /\ wpc = "sleep" /\ token
  /\ wpc' = "drain"
  /\ UNCHANGED <<shared, cancel, at, observed, interest, hit, raise>>

\* poll returns for a byte in either channel, at the deadline or interrupted.
WakeUp ==
  /\ wpc = "sleep" /\ (bytes > 0 \/ token)
  /\ wpc' = "drain"
  /\ UNCHANGED <<shared, cancel, at, observed, interest, hit, raise>>

Interrupted ==
  /\ wpc = "sleep"
  /\ wpc' = "drain"
  /\ UNCHANGED <<shared, cancel, at, observed, interest, hit, raise>>

\* Drop of the ArenaConsumer closes the incarnation and then its receiver; a process
\* that ends leaves WAIT_INTEREST as it is.
DropConsumer ==
  /\ wpc = "idle"
  /\ word' = [word EXCEPT !["active"] = 0]
  /\ Leave("dropped")
  /\ UNCHANGED <<armed, bytes, reader, cancel, raise>>

\* The producer's ClaimMap keeps a duplicate of this end (release_wake), so its own writes
\* meet no broken pipe before that is gone too: closing here may come too early.
CloseReader ==
  /\ reader /\ wpc \in {"dropped", "exited"}
  /\ reader' = FALSE
  /\ UNCHANGED <<word, armed, bytes, cancel, waiter, raise>>

Exit ==
  /\ wpc \notin {"dropped", "exited"}
  /\ Leave("exited")
  /\ UNCHANGED <<shared, cancel, raise>>

-----------------------------------------------------------------------------
SignalStep(t) == TurnInactive(t) \/ LoadInterest(t) \/ WriteWake(t)

WaitStep == Drain \/ CheckCancelled \/ Recheck \/ Decide \/ WakeUp

Next ==
  \/ Publish \/ Reconfigure \/ Stop
  \/ \E t \in Releasers : ReturnCredit(t)
  \/ \E t \in Threads : Close(t) \/ SignalStep(t)
  \/ Cancel \/ CancelWake
  \/ Snapshot \/ Arm \/ WaitStep \/ Interrupted
  \/ DropConsumer \/ CloseReader \/ Exit

Spec == Init /\ [][Next]_waitVars

\* Threads that began a signal or a wait go on; poll returns when a byte is there.
\* Nothing makes a deadline or an interruption come.
FairSpec ==
  /\ Spec /\ WF_waitVars(WaitStep) /\ WF_waitVars(CancelWake)
  /\ \A t \in Threads : WF_waitVars(SignalStep(t))

-----------------------------------------------------------------------------
WaitTypeOK ==
  /\ word \in [Words -> Nat]
  /\ word["data"] <= MaxCursor /\ word["capacity"] <= MaxEpoch
  /\ word["reconfiguration"] <= MaxEpoch
  /\ word["active"] <= 1 /\ word["terminal"] <= 1
  /\ armed \subseteq Events /\ bytes \in 0 .. Buffer
  /\ reader \in BOOLEAN /\ cancelled \in BOOLEAN /\ token \in BOOLEAN /\ cpc \in {"idle", "wake"}
  /\ wpc \in {"idle", "drain", "cancelled", "recheck", "sleep", "dropped", "exited"}
  /\ at \in 1 .. 6 /\ observed \in [Epochs -> Nat]
  /\ interest \subseteq {"data", "capacity"} /\ hit \in BOOLEAN
  /\ pc \in [Threads -> {"idle", "close", "load", "write"}]
  /\ kind \in [Threads -> Events] /\ again \in [Threads -> BOOLEAN]

\* The state a caller of wait is waiting for.
Outdated == \E w \in Words : Differs(w)

\* A thread is on its way to write a byte that word w owes the waiter.
Coming(w) ==
  \E t \in Threads :
    \/ pc[t] = "write"
    \/ w \in Epochs /\ pc[t] = "load" /\ kind[t] = w
    \/ w = "capacity" /\ again[t]
    \/ w = "active" /\ pc[t] = "load" /\ kind[t] = "closed"
    \/ w = "terminal" /\ pc[t] = "close"

\* "A writer either precedes the recheck (its state change is seen) or observes the arm
\* and signals the poll": a waiter asleep with an empty channel although what it waits
\* for happened is about to be sent a byte.
NoLostWake ==
  wpc = "sleep" /\ Outdated /\ bytes = 0 => \E w \in Words : Coming(w)

\* wait returns once closure, reconfiguration or an event of its interest has happened,
\* also when the capacity epoch has wrapped to the observed value in between.
WaitReturns ==
  wpc = "sleep" /\ Outdated ~> wpc \in {"idle", "exited"}

\* A cancelled wait returns, whoever wrote or did not write a byte.
CancelReturns ==
  cancelled /\ wpc \in {"drain", "cancelled", "recheck", "sleep"} ~> wpc \in {"idle", "exited"}

\* wait reports Changed only for closure, a reconfiguration or an event of its interest
\* that is still there to see, although it loaded the words one after the other; an
\* epoch that has wrapped meanwhile is closing the incarnation.
ChangedIsReal ==
  hit => Outdated \/ \E t \in Threads : pc[t] = "close"
=============================================================================
