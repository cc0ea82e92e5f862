---------------------------- MODULE MCWorkerJobs ----------------------------
(***************************************************************************)
(* Two workers, of which only the second may execute.                      *)
(***************************************************************************)
EXTENDS WorkerJobs

MCCan == [i \in Machines |-> IF i = 1 THEN {"compile"} ELSE {"compile", "execute"}]
=============================================================================
