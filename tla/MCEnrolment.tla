---------------------------- MODULE MCEnrolment ----------------------------
(* Small instances of Enrolment for TLC. *)
EXTENDS Enrolment, TLC

Symmetry == Permutations(Groups) \cup Permutations(Phrases) \cup Permutations(Handlers)
            \cup Permutations(Names)
=============================================================================
