--------------------------- MODULE MCArenaClaims ---------------------------
(* Small instances of ArenaClaims for TLC. *)
EXTENDS ArenaClaims, TLC

CONSTANTS c1, c2, c3, t1, t2, t3

\* Three incarnations with one thread each.
OneThreadEach == t1 :> c1 @@ t2 :> c2 @@ t3 :> c3

\* The incarnations are interchangeable together with their threads.
Renaming == {p \in Permutations({c1, c2, c3}) \X Permutations({t1, t2, t3}) :
               \A t \in {t1, t2, t3} : OneThreadEach[p[2][t]] = p[1][OneThreadEach[t]]}

Symmetry == {p[1] @@ p[2] : p \in Renaming}

\* One incarnation with one thread.
OneThread == t1 :> c1

\* Two threads of one incarnation race for its claim slots.
TwoThreadsOfOne == t1 :> c1 @@ t2 :> c1

\* A CPU producer that only calls publish, while no claim is taken or returned
\* during a scan.  A claim that moves to a resource the scan has yet to reach can
\* make publish drop a frame: the contract calls that transient exhaustion.
QuietSpec ==
  Init /\ [][/\ Next
             /\ pop' # "reserve" /\ ~PrepareRefuses
             /\ ppc \in {"scan", "check"} => slot' = slot]_vars
=============================================================================
