------------------------------ MODULE MCVaults ------------------------------
(***************************************************************************)
(* A customer's vault, the keystore worker that serves it and the monitor  *)
(* that watches it, for TLC.  What each sees of the others on the chain is *)
(* an input of its own, so a behaviour moves one of them, and the choices  *)
(* of the others are fixed.                                                *)
(***************************************************************************)
EXTENDS Vault, TLC, KeystoreWorker, VaultMonitor, FiniteSetsExt

VARIABLE part

-----------------------------------------------------------------------------
\* Small instances of the vault: two TEE keys besides the deployed one, a cap
\* of two, and delays of a few ticks.
CONSTANTS k0, k1, k2, p1, s1, s2

Matched == {<<k0, k0>>, <<None, k0>>}   \* the second a legacy deploy, key not pinned
Mismatched == {<<k1, k0>>}               \* the recorded key is not the installed one
Deployments == Matched \cup Mismatched

\* The slots differ in nothing, nor do the keys of a role.
SlotSymmetry == Permutations(Slots) \cup Permutations(ParentKeys)

-----------------------------------------------------------------------------
Mpc(v, p) == [kind |-> "mpc", vault |-> v, path |-> p]
Log(k, v) == [kind |-> k, vault |-> v]
MCLakes ==
    {<<<<Mpc("a", 1)>>, <<Mpc("a", 1), Mpc("b", 1)>>, <<>>, <<Mpc("a", 1), Mpc("b", 1)>>,
       <<Log("recovery_finalized", "b")>>, <<Mpc("a", 1)>>>>,
     <<<<>>, <<Mpc("a", 1)>>, <<Log("vault_banned", "a"), Mpc("a", 2)>>, <<>>,
       <<Mpc("a", 1), Log("vault_unbanned", "a")>>, <<Mpc("a", 2)>>>>}

MCVars == <<vars, workerVars, monitorVars, part>>

MCInit ==
    /\ part \in {"vault", "keystore", "monitor"}
    /\ Init /\ WorkerInit /\ MonitorInit
    /\ part # "vault" => /\ exit_window = Min(Windows)
                         /\ <<initial_tee_key, DOMAIN access_keys>> = <<k0, {k0}>>
    /\ part # "monitor" => lake = (CHOOSE l \in Lakes : TRUE) /\ ~auto_ban

\* The vault and the keystore worker go on for ever; the monitor's chain ends.
MCNext ==
    /\ UNCHANGED part
    /\ \/ part = "vault" /\ Next /\ UNCHANGED <<workerVars, monitorVars>>
       \/ part = "keystore" /\ WorkerNext /\ UNCHANGED <<vars, monitorVars>>
       \/ /\ part = "monitor" /\ UNCHANGED <<vars, workerVars>>
          /\ MonitorNext \/ UNCHANGED monitorVars

MCSpec == MCInit /\ [][MCNext]_MCVars
=============================================================================
