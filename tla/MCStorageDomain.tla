---------------------------- MODULE MCStorageDomain ----------------------------
(* One storage domain on small instances.                                  *)
EXTENDS StorageDomain

CONSTANTS v1, v2

(* An update that depends on what it finds.                                *)
MCChange == [v \in Values |-> IF v = v1 THEN v2 ELSE v1]
==============================================================================
