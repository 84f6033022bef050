----------------------------- MODULE MCAdsClient -----------------------------
(* Instances of AdsClient for TLC.                                         *)
EXTENDS AdsClient, TLC

CONSTANTS Endpoint, c1

(* No watch, as in main.cpp.                                               *)
NoWatchUrl == [w \in Watchers |-> Cluster]

(* One watch of the type of the constructor, one of another type.          *)
BothWatchUrl == [w \in Watchers |-> IF w = c1 THEN Cluster ELSE Endpoint]

(* Nothing tells one version from another.                                 *)
VersionSymmetry == Permutations(Versions)
=============================================================================
