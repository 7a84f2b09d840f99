------------------------- MODULE MCCuratorWorkers -------------------------
(* Values for model checking CuratorWorkers: see the .cfg files.           *)
EXTENDS CuratorWorkers

TurnsOnly == {"turn"}
AllKinds  == {"turn", "session_end"}
===========================================================================
