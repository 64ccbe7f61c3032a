------------------------------ MODULE MCSignIn ------------------------------
(* Small instances of SignIn for TLC. *)
EXTENDS SignIn

\* One address of staff and one of a student, who has a second provider too.
People == {<<"google", "staff">>, <<"google", "student">>, <<"github", "student">>,
           <<"username", "student">>}
=============================================================================
