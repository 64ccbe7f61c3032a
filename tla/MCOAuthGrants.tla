--------------------------- MODULE MCOAuthGrants ---------------------------
(* Small instances of OAuthGrants for TLC. *)
EXTENDS OAuthGrants

CONSTANTS s1, s2

\* A request names no scope, which means all that the client is allowed, or one of
\* the two.
AskedScopes == {{}, {s1}}
=============================================================================
