------------------------------ MODULE MCHubAlerts ------------------------------
(* Small instances of HubAlerts for TLC. *)
EXTENDS HubAlerts, TLC

CONSTANTS ci, ciLint

\* Titles that do not contain each other.
DistinctTitles == {<<k, k>> : k \in Keys}

\* Keys with distinct titles are interchangeable.
KeySymmetry == Permutations(Keys)
================================================================================
