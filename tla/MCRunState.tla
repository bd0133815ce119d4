----------------------------- MODULE MCRunState -----------------------------
(* RunState with a few commands, for TLC. *)
EXTENDS RunState, TLC

\* Every call names the same cap.
OneCap   == {1}

\* Commits, directories, digests and processes are interchangeable: the
\* properties are all safety properties.
Symmetry == Permutations(Procs) \cup Permutations(Heads) \cup Permutations(Dirs)
              \cup Permutations(Sums)

\* A repository that no run was started in before.
FreshInit == Init /\ ~exclude.listed
FreshSpec == FreshInit /\ [][Next]_vars
=============================================================================
