------------------------- MODULE MCCacheMaintenance -------------------------
(* Instance of CacheMaintenance for TLC: one directory of artifacts, two of packages. *)
EXTENDS CacheMaintenance

CONSTANTS art, crate, pack

DirNames == <<"artifacts", "cargo", "npm">>
Where == [f \in {art, crate, pack} |->
            IF f = art THEN "artifacts" ELSE IF f = pack THEN "npm" ELSE "cargo"]
Sizes == [f \in {art, crate, pack} |-> IF f = pack THEN 2 ELSE 1]
=============================================================================
