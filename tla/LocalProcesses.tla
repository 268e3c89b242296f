---------------------------- MODULE LocalProcesses ----------------------------
(***************************************************************************)
(* What the file protocols beside the memory writer share: the processes of *)
(* one user's machine, a value for "no file", and a budget of crashes.      *)
(***************************************************************************)
EXTENDS Naturals, Sequences, FiniteSets

CONSTANTS
    Process,
    NULL,          \* no file, no value
    MaxCrashes     \* bound: processes that die

ASSUME LocalProcessesAssumption == MaxCrashes \in Nat /\ NULL \notin Process
=============================================================================
