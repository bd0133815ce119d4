--------------------------- MODULE MCFollowupGate ---------------------------
(* FollowupGate with a CLI that opens a forwarded segment late.  The other    *)
(* habits run in MCHarness.                                                   *)
EXTENDS FollowupGate, TLC

CONSTANTS t1, t2

Late == {{"late"}}
=============================================================================
