--------------------------- MODULE MCLaptopRoster ---------------------------
(* Small instances of LaptopRoster for TLC. *)
EXTENDS LaptopRoster

\* Everything that can be asked for.
EveryOp == AllOps
=============================================================================
