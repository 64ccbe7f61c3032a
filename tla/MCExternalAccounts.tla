------------------------ MODULE MCExternalAccounts ------------------------
(* Small instances of ExternalAccounts for TLC. *)
EXTENDS ExternalAccounts
===========================================================================
