---------------------------- MODULE MCSelfUpdate ----------------------------
(***************************************************************************)
(* Small instances of SelfUpdate: an installation of two roots, one with the  *)
(* daemon's and one with the broker's binary.                              *)
(***************************************************************************)
EXTENDS SelfUpdate

MCPlan == <<"bin/uffsd", "svc/uffs-broker">>
MCStem == [t \in {"bin/uffsd", "svc/uffs-broker"} |->
             IF t = "bin/uffsd" THEN "uffsd" ELSE "uffs-broker"]

=============================================================================
