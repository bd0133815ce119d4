---------------------------- MODULE MCStudyResume ----------------------------
(* StudyResume with a short schedule, for TLC. *)
EXTENDS StudyResume, TLC

Symmetry == Permutations(Versions) \cup Permutations(Configs)
=============================================================================
