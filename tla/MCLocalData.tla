----------------------------- MODULE MCLocalData -----------------------------
(* Small instances, for TLC, of what moves data of the host: the placement *)
(* of local data, and the standalone runtime.  They share no state, so     *)
(* that one behaviour needs one of them: the first state says which one is *)
(* at work, and the other stays as it begins.                              *)
EXTENDS PlacementProperties, DistributionProperties, TLC

CONSTANTS
    p1, p2,                 \* invocations
    c1, c2,                 \* clones
    t1, t2,                 \* a task of each
    v1, v2,
    Managers                \* what may be at work

VARIABLE manager

all == <<manager, placementVars, vars>>

(* Invocations, and the clones together with their tasks, are alike.       *)
Symmetry ==
    Permutations({p1, p2}) \cup {(c1 :> c2) @@ (c2 :> c1) @@ (t1 :> t2) @@ (t2 :> t1)}

Owners == (t1 :> c1) @@ (t2 :> c2)

ASSUME PlacementAssumption /\ DistributionAssumption

MCInit ==
    /\ manager \in Managers
    /\ PlacementInit /\ Init
    /\ manager = "placement" => version[current] = v1

PlacementStep ==
    manager = "placement" /\ PlacementNext /\ UNCHANGED <<manager, vars>>

DistributionStep ==
    manager = "distribution" /\ Next /\ UNCHANGED <<manager, placementVars>>

(* A runtime that was uninstalled, or has used up its slots, rests. *)
Rest ==
    /\ manager = "distribution"
    /\ UNCHANGED all

MCNext == PlacementStep \/ DistributionStep \/ Rest

MCSpec == MCInit /\ [][MCNext]_all
=============================================================================
