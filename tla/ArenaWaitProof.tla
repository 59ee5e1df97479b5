--------------------------- MODULE ArenaWaitProof ---------------------------
(***************************************************************************)
(* No wake is lost, and no wait reports a change that did not happen, for  *)
(* any number of threads that return credit and any bounds.                *)
(***************************************************************************)
EXTENDS ArenaWait, TLAPS

\* Between Arm and Return the caller's interest, closure and reconfiguration are armed
\* and the waiter still reads its channel.
Listening ==
  /\ wpc \in {"drain", "cancelled", "recheck", "sleep"} =>
       reader /\ armed = interest \cup {"closed", "reconfiguration"}
  /\ reader = FALSE => wpc \in {"dropped", "exited"}
  /\ wpc = "sleep" => at = 6 /\ ~hit
  /\ wpc = "idle" => at <= 4
  /\ wpc # "recheck" => ~hit

\* A byte is in the channel or on its way for word w.
Noticed(w) == bytes > 0 \/ Coming(w)

\* A word that changed after the recheck loaded it is owed a byte; a TERMINAL set after
\* its load is followed by a close.
Owed ==
  wpc \in {"recheck", "sleep"} /\ ~hit =>
    /\ at > 1 /\ Differs("data") => Noticed("data")
    /\ at > 2 /\ Differs("capacity") => Noticed("capacity")
    /\ at > 3 /\ Differs("reconfiguration") => Noticed("reconfiguration")
    /\ at > 4 /\ word["active"] = 0 => Noticed("active")
    /\ at > 5 /\ word["terminal"] = 1 /\ word["active"] = 1 =>
         \E t \in Threads : pc[t] = "close"

WaitInv == WaitTypeOK /\ Listening /\ Owed

\* The snapshot a waiter starts from.
LEMMA NoSnapshot == [w \in Epochs |-> 0] \in [Epochs -> Nat]
  OBVIOUS

\* What a waiter leaves behind when its call, its handle or its process ends.
LEMMA LeaveType ==
  ASSUME NEW p \in {"idle", "dropped", "exited"}, Leave(p)
  PROVE  /\ wpc' \in {"idle", "drain", "cancelled", "recheck", "sleep", "dropped", "exited"}
         /\ at' \in 1 .. 6 /\ observed' \in [Epochs -> Nat]
         /\ interest' \subseteq {"data", "capacity"} /\ hit' \in BOOLEAN
<1>1. observed' \in [Epochs -> Nat]
  BY NoSnapshot, Zenon DEF Leave
<1>2. at' \in 1 .. 6
  BY DEF Leave
<1> QED
  BY <1>1, <1>2, Zenon DEF Leave

LEMMA InitInv == Init => WaitInv
<1> SUFFICES ASSUME Init PROVE WaitInv
  OBVIOUS
<1>1. /\ word \in [Words -> Nat]
      /\ word["data"] <= MaxCursor /\ word["capacity"] <= MaxEpoch
      /\ word["reconfiguration"] <= MaxEpoch
      /\ word["active"] <= 1 /\ word["terminal"] <= 1
  BY WaitAssumption DEF Init, Words
<1>2. /\ pc \in [Threads -> {"idle", "close", "load", "write"}]
      /\ kind \in [Threads -> Events] /\ again \in [Threads -> BOOLEAN]
  BY DEF Init, Events
<1>3. WaitTypeOK
  <2>1. observed \in [Epochs -> Nat]
    BY NoSnapshot, Zenon DEF Init
  <2>2. bytes \in 0 .. Buffer /\ at \in 1 .. 6
    BY WaitAssumption, SMTT(30) DEF Init
  <2> QED
    BY <1>1, <1>2, <2>1, <2>2, Zenon DEF Init, WaitTypeOK
<1> QED
  BY <1>3 DEF Init, WaitInv, Listening, Owed

LEMMA TypeStep == WaitTypeOK /\ [Next]_waitVars => WaitTypeOK'
<1> SUFFICES ASSUME WaitTypeOK, [Next]_waitVars PROVE WaitTypeOK'
  OBVIOUS
<1> USE WaitAssumption DEF WaitTypeOK, Words, Epochs, Events, Threads
<1>1. CASE Publish
  BY <1>1 DEF Publish, Raise, cancel, waiter
<1>2. CASE Reconfigure
  BY <1>2 DEF Reconfigure, Raise, cancel, waiter
<1>3. CASE Stop
  BY <1>3 DEF Stop, Raise, cancel, waiter
<1>4. ASSUME NEW t \in Releasers, ReturnCredit(t) PROVE WaitTypeOK'
  <2>1. word' \in [Words -> Nat] /\ word'["data"] <= MaxCursor
        /\ word'["capacity"] <= MaxEpoch /\ word'["reconfiguration"] <= MaxEpoch
        /\ word'["active"] <= 1 /\ word'["terminal"] <= 1
    BY <1>4 DEF ReturnCredit
  <2>2. /\ pc' \in [Threads -> {"idle", "close", "load", "write"}]
        /\ kind' \in [Threads -> Events]
    BY <1>4 DEF ReturnCredit, Raise
  <2>3. again' \in [Threads -> BOOLEAN]
    <3>1. CASE UNCHANGED again
      BY <3>1, Zenon
    <3>2. CASE again' = [again EXCEPT ![t] = TRUE]
      BY <3>2, Zenon
    <3> QED
      BY <1>4, <3>1, <3>2, Zenon DEF ReturnCredit
  <2> QED
    BY <1>4, <2>1, <2>2, <2>3 DEF ReturnCredit, cancel, waiter
<1>5. CASE \E t \in Threads : Close(t)
  BY <1>5 DEF Close, Raise, shared, cancel, waiter
<1>0. ASSUME NEW t \in Threads, Signalled(t)
      PROVE  /\ pc' \in [Threads -> {"idle", "close", "load", "write"}]
             /\ kind' \in [Threads -> Events] /\ again' \in [Threads -> BOOLEAN]
  <2>1. again' \in [Threads -> BOOLEAN]
    BY <1>0, Zenon DEF Signalled
  <2>2. CASE again[t]
    BY <1>0, <2>1, <2>2 DEF Signalled, Raise
  <2>3. CASE ~again[t]
    BY <1>0, <2>1, <2>3 DEF Signalled, Raise
  <2> QED
    BY <2>2, <2>3
<1>6. ASSUME NEW t \in Threads, TurnInactive(t) PROVE WaitTypeOK'
  <2>1. word' \in [Words -> Nat] /\ word'["data"] <= MaxCursor
        /\ word'["capacity"] <= MaxEpoch /\ word'["reconfiguration"] <= MaxEpoch
        /\ word'["active"] <= 1 /\ word'["terminal"] <= 1
    BY <1>6 DEF TurnInactive
  <2>2. /\ pc' \in [Threads -> {"idle", "close", "load", "write"}]
        /\ kind' \in [Threads -> Events] /\ again' \in [Threads -> BOOLEAN]
    BY <1>6, <1>0 DEF TurnInactive, Raise
  <2> QED
    BY <1>6, <2>1, <2>2 DEF TurnInactive, cancel, waiter
<1>7. ASSUME NEW t \in Threads, LoadInterest(t) PROVE WaitTypeOK'
  <2>1. /\ pc' \in [Threads -> {"idle", "close", "load", "write"}]
        /\ kind' \in [Threads -> Events] /\ again' \in [Threads -> BOOLEAN]
    BY <1>7, <1>0 DEF LoadInterest, Raise
  <2> QED
    BY <1>7, <2>1 DEF LoadInterest, shared, cancel, waiter
<1>8. ASSUME NEW t \in Threads, WriteWake(t) PROVE WaitTypeOK'
  BY <1>8, <1>0 DEF WriteWake, cancel, waiter
<1>9. CASE Cancel \/ CancelWake
  BY <1>9, Zenon DEF Cancel, CancelWake, shared, waiter, raise
<1>10. CASE Snapshot
  BY <1>10 DEF Snapshot, shared, cancel, raise, Loads
<1>11. CASE Arm \/ Drain
  <2>1. CASE Arm
    <3>1. interest' \subseteq {"data", "capacity"} /\ armed' \subseteq Events
      BY <2>1, InterestAssumption DEF Arm
    <3> QED
      BY <2>1, <3>1 DEF Arm, cancel, raise
  <2>2. CASE Drain
    BY <2>2 DEF Drain, cancel, raise
  <2> QED
    BY <1>11, <2>1, <2>2
<1>12. CASE CheckCancelled
  <2>1. CASE cancelled
    BY <1>12, <2>1, LeaveType DEF CheckCancelled, Return, cancel, raise
  <2>2. CASE ~cancelled
    <3>1. at' = 1 /\ hit' = FALSE /\ wpc' = "recheck"
          /\ UNCHANGED <<shared, cancel, observed, interest, raise>>
      BY <1>12, <2>2, Zenon DEF CheckCancelled
    <3>2. at' \in 1 .. 6
      BY <3>1
    <3> QED
      BY <3>1, <3>2, Zenon DEF shared, cancel, raise
  <2> QED
    BY <2>1, <2>2
<1>13. CASE Recheck
  BY <1>13 DEF Recheck, shared, cancel, raise
<1>14. CASE Decide
  BY <1>14, LeaveType, Zenon DEF Decide, Return, shared, cancel, raise
<1>15. CASE WakeUp \/ Interrupted
  BY <1>15, Zenon DEF WakeUp, Interrupted, shared, cancel, raise
<1>16. CASE DropConsumer \/ Exit
  <2>1. CASE DropConsumer
    BY <2>1, LeaveType DEF DropConsumer, cancel, raise
  <2>2. CASE Exit
    BY <2>2, LeaveType DEF Exit, shared, cancel, raise
  <2> QED
    BY <1>16, <2>1, <2>2
<1>17. CASE CloseReader
  BY <1>17, Zenon DEF CloseReader, cancel, waiter, raise
<1>18. CASE UNCHANGED waitVars
  BY <1>18 DEF waitVars, shared, cancel, waiter, raise
<1> QED
  BY <1>1, <1>2, <1>3, <1>4, <1>5, <1>6, <1>7, <1>8, <1>9, <1>10, <1>11, <1>12, <1>13,
     <1>14, <1>15, <1>16, <1>17, <1>18 DEF Next, SignalStep, WaitStep

LEMMA ListeningStep == WaitTypeOK /\ Listening /\ [Next]_waitVars => Listening'
<1> SUFFICES ASSUME WaitTypeOK, Listening, [Next]_waitVars PROVE Listening'
  OBVIOUS
<1> USE DEF Listening
<1>1. CASE \/ Publish \/ Reconfigure \/ Stop
           \/ \E t \in Releasers : ReturnCredit(t)
           \/ \E t \in Threads : Close(t) \/ SignalStep(t)
           \/ Cancel \/ CancelWake
  BY <1>1 DEF Publish, Reconfigure, Stop, ReturnCredit, Close, SignalStep, TurnInactive,
     LoadInterest, WriteWake, Cancel, CancelWake, shared, waiter
<1>2. CASE Snapshot \/ Arm \/ Drain \/ WakeUp \/ Interrupted
  BY <1>2 DEF Snapshot, Arm, Drain, WakeUp, Interrupted, shared, WaitTypeOK
<1>3. CASE CheckCancelled \/ Recheck \/ Decide
  BY <1>3 DEF CheckCancelled, Recheck, Decide, Return, Leave, shared, WaitTypeOK
<1>4. CASE DropConsumer \/ CloseReader \/ Exit
  BY <1>4 DEF DropConsumer, CloseReader, Exit, Leave, shared, waiter, WaitTypeOK
<1>5. CASE UNCHANGED waitVars
  BY <1>5 DEF waitVars, shared, waiter
<1> QED
  BY <1>1, <1>2, <1>3, <1>4, <1>5, Zenon DEF Next, WaitStep

LEMMA OwedStep == WaitInv /\ [Next]_waitVars => Owed'
<1> SUFFICES ASSUME WaitInv, [Next]_waitVars,
                    wpc' \in {"recheck", "sleep"}, ~hit'
             PROVE  Owed'
  BY DEF Owed
<1> USE DEF WaitInv
<1>1. CASE Publish
  BY <1>1, WaitAssumption DEF Publish, Raise, cancel, waiter, Owed, Noticed, Coming, Differs,
     WaitTypeOK, Words, Epochs, Events, Threads
<1>2. CASE Reconfigure
  BY <1>2, WaitAssumption DEF Reconfigure, Raise, cancel, waiter, Owed, Noticed, Coming, Differs,
     WaitTypeOK, Words, Epochs, Events, Threads
<1>3. CASE Stop
  BY <1>3, WaitAssumption DEF Stop, Raise, cancel, waiter, Owed, Noticed, Coming, Differs,
     WaitTypeOK, Words, Epochs, Events, Threads
<1>4. ASSUME NEW t \in Releasers, ReturnCredit(t) PROVE Owed'
  BY <1>4, WaitAssumption DEF ReturnCredit, Raise, cancel, waiter, Owed, Noticed, Coming, Differs,
     WaitTypeOK, Words, Epochs, Events, Threads
<1>5. ASSUME NEW t \in Threads, Close(t) PROVE Owed'
  BY <1>5 DEF Close, Raise, shared, cancel, waiter, Owed, Noticed, Coming, Differs,
     WaitTypeOK, Words, Epochs, Events
<1>6. ASSUME NEW t \in Threads, TurnInactive(t) PROVE Owed'
  BY <1>6 DEF TurnInactive, Signalled, Raise, cancel, waiter, Owed, Noticed, Coming, Differs,
     WaitTypeOK, Words, Epochs, Events
<1>7. ASSUME NEW t \in Threads, LoadInterest(t) PROVE Owed'
  BY <1>7 DEF LoadInterest, Signalled, Raise, shared, cancel, waiter, Owed, Noticed, Coming, Differs,
     WaitTypeOK, Words, Epochs, Events, Listening
<1>8. ASSUME NEW t \in Threads, WriteWake(t) PROVE Owed'
  <2>1. bytes' > 0 /\ UNCHANGED <<word, waiter>>
    BY <1>8, WaitAssumption DEF WriteWake, waiter, WaitTypeOK, Listening
  <2>2. \A u \in Threads : pc[u] = "close" => pc'[u] = "close"
    BY <1>8 DEF WriteWake, Signalled, Raise, WaitTypeOK
  <2> QED
    BY <2>1, <2>2 DEF waiter, Owed, Noticed
<1>9. CASE Cancel \/ CancelWake
  BY <1>9 DEF Cancel, CancelWake, shared, waiter, raise, Owed, Noticed, Coming, Differs
<1>10. CASE Recheck
  <2>1. /\ \A w : Noticed(w) => Noticed(w)'
        /\ \A w : Differs(w)' = Differs(w)
        /\ word' = word /\ pc' = pc
    BY <1>10, Zenon DEF Recheck, shared, raise, Noticed, Coming, Differs
  <2>2. at \in 1 .. 5 /\ at' = at + 1 /\ ~hit /\ ~Differs(Loads[at]) /\ wpc = "recheck"
    <3>1. ~hit /\ ~Differs(Loads[at]) /\ wpc = "recheck" /\ at' = at + 1
      BY <1>10, Zenon DEF Recheck
    <3> QED
      BY <1>10, <3>1 DEF Recheck, WaitTypeOK
  <2>3. Loads[1] = "data" /\ Loads[2] = "capacity" /\ Loads[3] = "reconfiguration"
        /\ Loads[4] = "active" /\ Loads[5] = "terminal"
    BY DEF Loads
  <2>4. /\ at = 4 => word["active"] # 0
        /\ at = 5 => word["terminal"] # 1
    BY <2>2, <2>3 DEF Differs
  <2>5. /\ at' > 1 /\ Differs("data") => Noticed("data")
        /\ at' > 2 /\ Differs("capacity") => Noticed("capacity")
        /\ at' > 3 /\ Differs("reconfiguration") => Noticed("reconfiguration")
        /\ at' > 4 /\ word["active"] = 0 => Noticed("active")
        /\ at' > 5 => word["terminal"] # 1
    <3>1. CASE at = 1
      BY <2>2, <2>3, <3>1
    <3>2. CASE at = 2
      BY <2>2, <2>3, <3>2 DEF Owed
    <3>3. CASE at = 3
      BY <2>2, <2>3, <3>3 DEF Owed
    <3>4. CASE at = 4
      BY <2>2, <2>3, <2>4, <3>4 DEF Owed
    <3>5. CASE at = 5
      BY <2>2, <2>3, <2>4, <3>5 DEF Owed
    <3> QED
      BY <2>2, <3>1, <3>2, <3>3, <3>4, <3>5
  <2> QED
    BY <2>1, <2>5, Zenon DEF Owed
<1>11. CASE CheckCancelled
  BY <1>11 DEF CheckCancelled, Return, Leave, Owed
<1>12. CASE Decide
  BY <1>12 DEF Decide, Return, Leave, shared, raise, Owed, Noticed, Coming, Differs
<1>13. CASE \/ Snapshot \/ Arm \/ Drain \/ WakeUp \/ Interrupted
            \/ DropConsumer \/ CloseReader \/ Exit
  BY <1>13 DEF Snapshot, Arm, Drain, WakeUp, Interrupted, DropConsumer, CloseReader, Exit,
     Leave, waiter
<1>14. CASE UNCHANGED waitVars
  BY <1>14 DEF waitVars, shared, waiter, raise, Owed, Noticed, Coming, Differs
<1> QED
  BY <1>1, <1>2, <1>3, <1>4, <1>5, <1>6, <1>7, <1>8, <1>9, <1>10, <1>11, <1>12, <1>13,
     <1>14 DEF Next, SignalStep, WaitStep

LEMMA InvImplies == WaitInv => NoLostWake
<1> SUFFICES ASSUME WaitInv, wpc = "sleep", NEW w \in Words, Differs(w), bytes = 0
             PROVE  \E v \in Words : Coming(v)
  BY DEF NoLostWake, Outdated
<1>1. at = 6 /\ ~hit /\ word["active"] \in {0, 1} /\ ~(bytes > 0)
  BY DEF WaitInv, WaitTypeOK, Listening, Words
<1>2. CASE w \in Epochs
  BY <1>1, <1>2 DEF WaitInv, Owed, Noticed, Epochs, Words
<1>3. CASE word["active"] = 0
  BY <1>1, <1>3 DEF WaitInv, Owed, Noticed, Words
<1>4. CASE w \in {"active", "terminal"} /\ word["active"] = 1
  <2>1. word["terminal"] = 1
    BY <1>4 DEF Differs
  <2>2. Coming("terminal")
    BY <1>1, <1>4, <2>1 DEF WaitInv, Owed, Coming
  <2> QED
    BY <2>2 DEF Words
<1> QED
  BY <1>1, <1>2, <1>3, <1>4 DEF Words, Epochs

LEMMA WaitInvHolds == Spec => []WaitInv
<1>1. WaitInv /\ [Next]_waitVars => WaitInv'
  BY TypeStep, ListeningStep, OwedStep DEF WaitInv
<1> QED
  BY <1>1, InitInv, PTL DEF Spec

\* Whatever the number of threads and the bounds: a consumer asleep in poll with an empty
\* channel, although closure, a reconfiguration or an event of its interest happened since
\* its snapshot, is about to be sent a byte by a thread inside ClaimMap::signal or close.
THEOREM WakeSafety == Spec => []NoLostWake
  BY WaitInvHolds, InvImplies, PTL

-----------------------------------------------------------------------------
\* The incarnation is closed or a thread is about to close it.  Nothing undoes it.
Closing ==
  word["active"] = 0 \/ word["terminal"] = 1 \/ \E t \in Threads : pc[t] = "close"

\* Words only grow past the snapshot, except that a wrapped capacity epoch closes; a hit
\* stays visible.
Grown ==
  /\ observed["data"] <= word["data"] /\ observed["reconfiguration"] <= word["reconfiguration"]
  /\ Closing \/ observed["capacity"] <= word["capacity"]
  /\ hit => \/ Closing
            \/ "data" \in interest /\ observed["data"] < word["data"]
            \/ "capacity" \in interest /\ observed["capacity"] < word["capacity"]
            \/ observed["reconfiguration"] < word["reconfiguration"]

LEMMA ClosingStep == WaitTypeOK /\ Closing /\ [Next]_waitVars => Closing'
<1> SUFFICES ASSUME WaitTypeOK, Closing, [Next]_waitVars PROVE Closing'
  OBVIOUS
<1> USE DEF WaitTypeOK, Words, Closing
<1>1. CASE Publish \/ Reconfigure \/ Stop
  BY <1>1 DEF Publish, Reconfigure, Stop, Raise
<1>2. ASSUME NEW t \in Releasers, ReturnCredit(t) PROVE Closing'
  BY <1>2 DEF ReturnCredit, Raise
<1>3. ASSUME NEW t \in Threads, Close(t) PROVE Closing'
  BY <1>3 DEF Close, Raise, shared
<1>4. ASSUME NEW t \in Threads, SignalStep(t) PROVE Closing'
  <2>1. CASE TurnInactive(t)
    BY <2>1 DEF TurnInactive
  <2>2. CASE LoadInterest(t)
    BY <2>2 DEF LoadInterest, Signalled, Raise, shared
  <2>3. CASE WriteWake(t)
    BY <2>3 DEF WriteWake, Signalled, Raise
  <2> QED
    BY <1>4, <2>1, <2>2, <2>3 DEF SignalStep
<1>5. CASE DropConsumer
  BY <1>5 DEF DropConsumer
<1>6. CASE UNCHANGED <<word, pc>>
  BY <1>6
<1>7. CASE \/ Cancel \/ CancelWake \/ Snapshot \/ Arm \/ WaitStep \/ Interrupted
           \/ CloseReader \/ Exit \/ UNCHANGED waitVars
  <2>1. UNCHANGED <<word, pc>>
    BY <1>7, Zenon DEF Cancel, CancelWake, Snapshot, Arm, WaitStep, Drain, CheckCancelled, Recheck,
       Decide, Return, WakeUp, Interrupted, CloseReader, Exit, waitVars, shared, raise
  <2> QED
    BY <2>1, <1>6
<1> QED
  BY <1>1, <1>2, <1>3, <1>4, <1>5, <1>7 DEF Next

LEMMA GrownStep == WaitTypeOK /\ Listening /\ Grown /\ [Next]_waitVars => Grown'
<1> SUFFICES ASSUME WaitTypeOK, Listening, Grown, [Next]_waitVars PROVE Grown'
  OBVIOUS
<1>0. Closing => Closing'
  BY ClosingStep
<1> USE DEF WaitTypeOK, Words, Epochs
<1>1. CASE \/ Publish \/ Reconfigure \/ Stop
           \/ \E t \in Threads : Close(t) \/ SignalStep(t)
           \/ Cancel \/ CancelWake \/ CloseReader
  <2>1. /\ word'["data"] >= word["data"] /\ word'["capacity"] = word["capacity"]
        /\ word'["reconfiguration"] >= word["reconfiguration"]
    BY <1>1 DEF Publish, Reconfigure, Stop, Close, SignalStep, TurnInactive, LoadInterest,
       WriteWake, Cancel, CancelWake, CloseReader, shared
  <2>2. UNCHANGED waiter
    BY <1>1, Zenon DEF Publish, Reconfigure, Stop, Close, SignalStep, TurnInactive, LoadInterest,
       WriteWake, Cancel, CancelWake, CloseReader
  <2>3. word' \in [Words -> Nat]
    BY TypeStep
  <2> QED
    BY <1>0, <2>1, <2>2, <2>3 DEF waiter, Grown
<1>2. ASSUME NEW t \in Releasers, ReturnCredit(t) PROVE Grown'
  <2>1. CASE word["capacity"] = MaxEpoch
    <3>1. Closing'
      BY <1>2, <2>1 DEF ReturnCredit, Raise, Closing, Threads
    <3> QED
      BY <1>2, <3>1 DEF ReturnCredit, waiter, Grown
  <2>2. CASE word["capacity"] # MaxEpoch
    BY <1>0, <1>2, <2>2 DEF ReturnCredit, waiter, Grown
  <2> QED
    BY <2>1, <2>2
<1>3. CASE Snapshot
  <2>1. ~hit' /\ UNCHANGED <<word, pc>>
    BY <1>3, Zenon DEF Snapshot, shared, raise, Listening
  <2>2. at = 1 \/ at = 2 \/ at = 3
    BY <1>3 DEF Snapshot
  <2>3. /\ at = 1 => observed' = [observed EXCEPT !["data"] = word["data"]]
        /\ at = 2 => observed' = [observed EXCEPT !["capacity"] = word["capacity"]]
        /\ at = 3 => observed' = [observed EXCEPT !["reconfiguration"] = word["reconfiguration"]]
    <3>1. Loads[1] = "data" /\ Loads[2] = "capacity" /\ Loads[3] = "reconfiguration"
      BY DEF Loads
    <3>2. observed' = [observed EXCEPT ![Loads[at]] = word[Loads[at]]]
      BY <1>3, Zenon DEF Snapshot
    <3> QED
      BY <3>1, <3>2, Zenon
  <2> QED
    BY <1>0, <2>1, <2>2, <2>3 DEF Grown
<1>4. CASE Recheck
  <2>1. UNCHANGED <<word, observed, interest>>
    BY <1>4, Zenon DEF Recheck, shared
  <2>2. ASSUME Differs(Loads[at]) PROVE Closing \/ \E w \in Epochs :
          (w = "reconfiguration" \/ w \in interest) /\ observed[w] < word[w]
    BY <1>4, <2>2 DEF Recheck, Differs, Loads, Grown, Closing
  <2> QED
    BY <1>0, <1>4, <2>1, <2>2 DEF Recheck, Grown
<1>5. CASE \E p \in {"idle", "dropped", "exited"} : Leave(p)
  <2>1. observed' = [w \in Epochs |-> 0] /\ hit' = FALSE
    BY <1>5, Zenon DEF Leave
  <2>2. word' \in [Words -> Nat]
    BY TypeStep
  <2> QED
    BY <2>1, <2>2 DEF Grown
<1>6. CASE UNCHANGED <<word, observed, hit, pc>> /\ (hit => interest' = interest)
  BY <1>0, <1>6 DEF Grown
<1>7. CASE Arm \/ Drain \/ WakeUp \/ Interrupted \/ UNCHANGED waitVars
  <2>1. UNCHANGED <<word, observed, hit, pc>>
    BY <1>7, Zenon DEF Arm, Drain, WakeUp, Interrupted, waitVars, shared, waiter, raise
  <2>2. ~Arm => interest' = interest
    BY <1>7, Zenon DEF Drain, WakeUp, Interrupted, waitVars, waiter
  <2>3. Arm => ~hit
    BY DEF Arm, Listening
  <2> QED
    BY <1>6, <2>1, <2>2, <2>3
<1>8. CASE CheckCancelled \/ Decide
  <2>1. CASE Leave("idle")
    BY <1>5, <2>1
  <2>2. CASE ~Leave("idle")
    <3>1. UNCHANGED <<word, observed, interest>> /\ (hit' => hit)
      <4>1. CASE CheckCancelled
        BY <4>1, <2>2, Zenon DEF CheckCancelled, Return, shared
      <4>2. CASE Decide
        <5>1. UNCHANGED <<shared, observed, interest, hit>>
          BY <4>2, <2>2 DEF Decide, Return
        <5> QED
          BY <5>1, Zenon DEF shared
      <4> QED
        BY <1>8, <4>1, <4>2
    <3> QED
      BY <1>0, <3>1 DEF Grown
  <2> QED
    BY <2>1, <2>2
<1>9. CASE DropConsumer \/ Exit
  BY <1>5, <1>9, Zenon DEF DropConsumer, Exit
<1> QED
  BY <1>1, <1>2, <1>3, <1>4, <1>7, <1>8, <1>9 DEF Next, WaitStep

\* For any bounds: a recheck that saw a change can still see one, or the incarnation is
\* being closed, whatever the other threads did between its loads.
THEOREM ChangeSafety == Spec => []ChangedIsReal
<1>1. Init => Grown
  BY DEF Init, Grown, Words, Epochs
<1>2. Grown /\ WaitInv /\ [Next]_waitVars => Grown'
  BY GrownStep DEF WaitInv
<1>3. Grown /\ WaitInv => ChangedIsReal
  BY DEF Grown, WaitInv, WaitTypeOK, ChangedIsReal, Outdated, Differs, Closing, Words, Epochs
<1> QED
  BY <1>1, <1>2, <1>3, WaitInvHolds, PTL DEF Spec
=============================================================================
