----------------------------- MODULE MCSnapshot ------------------------------
(* An entity that comes and goes, one that stays as it is and one that      *)
(* changes.                                                                 *)
EXTENDS Snapshot

MCViews == {[world |-> (1 :> 1) @@ (2 :> 1) @@ (3 :> 1), others |-> 0],
            [world |-> (2 :> 1) @@ (3 :> 2), others |-> 3]}
=============================================================================
