---------------------------- MODULE MCEventQueue -----------------------------
(***************************************************************************)
(* The event queue on small instances: at most two user threads, two       *)
(* worker threads, a pipe of one or two items and a provider that makes    *)
(* up to three.  The cfg files give the constants their values.            *)
(***************************************************************************)
EXTENDS EventQueue, TLC

\* No action tells the worker threads or the payloads apart.
Symmetry == Permutations(Workers) \cup Permutations(Payloads)
==============================================================================
