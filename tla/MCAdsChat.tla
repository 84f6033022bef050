------------------------------ MODULE MCAdsChat ------------------------------
(* An instance of AdsChat for TLC: no watches.                             *)
EXTENDS AdsChat

NoWatchUrl == [w \in Watchers |-> Cluster]
=============================================================================
