----------------------------- MODULE RunLedger -----------------------------
(***************************************************************************)
(* What the journal of an autonomous run promises to those who read it: an *)
(* atomic count of the continuations of every item, the items that were    *)
(* reported as blocked, and the set of holdout scenarios the run is judged *)
(* by, replaced only by a decision that is counted.                        *)
(***************************************************************************)
EXTENDS Naturals

CONSTANTS Items, Caps, Dirs, Sums, None

VARIABLES used, blocked, baseline, decisions

vars == <<used, blocked, baseline, decisions>>

Init ==
    /\ used = [i \in Items |-> 0]
    /\ blocked = {}
    /\ baseline = None
    /\ decisions = 0

\* A continuation is granted below the cap of the call, and counted.
Grant(i) ==
    /\ \E cap \in Caps : used[i] < cap
    /\ used' = [used EXCEPT ![i] = @ + 1]
    /\ UNCHANGED <<blocked, baseline, decisions>>

\* An item is blocked once, at the cap.
Block(i) ==
    /\ i \notin blocked
    /\ \E cap \in Caps : used[i] >= cap
    /\ blocked' = blocked \cup {i}
    /\ UNCHANGED <<used, baseline, decisions>>

Register ==
    /\ baseline = None
    /\ baseline' \in Dirs \X Sums
    /\ UNCHANGED <<used, blocked, decisions>>

Rebaseline ==
    /\ baseline # None
    /\ baseline' \in (Dirs \X Sums) \ {baseline}
    /\ decisions' = decisions + 1
    /\ UNCHANGED <<used, blocked>>

Next ==
    \/ \E i \in Items : Grant(i) \/ Block(i)
    \/ Register
    \/ Rebaseline

Spec == Init /\ [][Next]_vars
=============================================================================
