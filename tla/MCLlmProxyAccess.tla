------------------------- MODULE MCLlmProxyAccess -------------------------
(* Small instances of LlmProxyAccess for TLC. *)
EXTENDS LlmProxyAccess, TLC

\* Users and handlers are interchangeable (safety runs only; no instance gives
\* a single user rights of its own).
Symmetry == Permutations(Users) \cup Permutations(Handlers)
=============================================================================
