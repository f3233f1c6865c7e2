----------------------------- MODULE MCHubRegistry -----------------------------
(* Small instances of HubRegistry for TLC. *)
EXTENDS HubRegistry, TLC

\* Threads are interchangeable: every property quantifies over all of them.
ThreadSymmetry == Permutations(Threads)
================================================================================
