----------------------------- MODULE MCPidfile -----------------------------
(***************************************************************************)
(* Small instances of Pidfile.  The invocations are alike, but for -d, -p. *)
(***************************************************************************)
EXTENDS Pidfile, TLC

Alike == Permutations(Background \ Pathless)

=============================================================================
