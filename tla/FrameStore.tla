----------------------------- MODULE FrameStore -----------------------------
(***************************************************************************)
(* What the acquisition arena promises, without pages, claims or scans: a  *)
(* table of frames in which the last History announced frames stay, and in *)
(* which a frame somebody holds is never touched.                          *)
(***************************************************************************)
EXTENDS Integers

CONSTANTS Places, Holders, History

VARIABLES
  frame,      \* per place: the cursor of the complete frame in it, 0 if none
  newest,     \* the newest announced cursor
  held        \* per holder: the set of places it holds, none or one

storeVars == <<frame, newest, held>>

StoreInit ==
  /\ frame = [p \in Places |-> 0]
  /\ newest = 0
  /\ held = [h \in Holders |-> {}]

Held(p) == \E h \in Holders : p \in held[h]

Retained(g) == g # 0 /\ g <= newest /\ g > newest - History

\* The producer takes a place that nobody holds and that history does not need.
Overwrite(p) ==
  /\ ~Held(p) /\ ~Retained(frame[p])
  /\ frame' = [frame EXCEPT ![p] = 0]
  /\ UNCHANGED <<newest, held>>

\* The next frame becomes complete.
Fill(p) ==
  /\ frame[p] = 0 /\ ~Held(p)
  /\ frame' = [frame EXCEPT ![p] = newest + 1]
  /\ UNCHANGED <<newest, held>>

\* The next frame becomes visible.
Announce ==
  /\ \E p \in Places : frame[p] = newest + 1
  /\ newest' = newest + 1
  /\ UNCHANGED <<frame, held>>

\* A holder gets a complete, announced frame.
Hold(h, p) ==
  /\ held[h] = {}
  /\ frame[p] # 0 /\ frame[p] <= newest
  /\ held' = [held EXCEPT ![h] = {p}]
  /\ UNCHANGED <<frame, newest>>

\* Any set of holders lets go: one drops its lease, or a process dies.
LetGo(hs) ==
  /\ held' = [h \in Holders |-> IF h \in hs THEN {} ELSE held[h]]
  /\ UNCHANGED <<frame, newest>>

StoreNext ==
  \/ \E p \in Places : Overwrite(p) \/ Fill(p) \/ (\E h \in Holders : Hold(h, p))
  \/ Announce
  \/ \E hs \in SUBSET Holders : LetGo(hs)

StoreSpec == StoreInit /\ [][StoreNext]_storeVars
=============================================================================
