------------------------ MODULE MCLlmProxyMetering ------------------------
(* Small instances of LlmProxyMetering for TLC. *)
EXTENDS LlmProxyMetering, TLC

\* Call slots are interchangeable (safety runs only).
Symmetry == Permutations(Requests)
============================================================================
