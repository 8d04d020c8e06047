----------------------------- MODULE MCStartup -----------------------------
(***************************************************************************)
(* Startup on a chain of up to MaxPoint points; all constants are numbers, *)
(* flags and strings, given in the configurations.                         *)
(***************************************************************************)
EXTENDS StartupInvariant
=============================================================================
