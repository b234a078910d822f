---------------------------- MODULE MCSharedRecords -----------------------------
(***************************************************************************)
(* Records that requests and loops, on several processes, read, think      *)
(* about and write, side by side: the lease of a job, host keys, the       *)
(* patch status, the vault and the licence.  They share no state, so in    *)
(* each behaviour one of them, `part`, moves and the others stay where     *)
(* they began; every behaviour of every module is among them.              *)
(***************************************************************************)
EXTENDS JobLock, HostKeys, Patches, Vault, License, TLC

CONSTANTS r1, r2

\* The second replica's clock is one unit ahead of the first one's.
MCOffset == (r1 :> 0) @@ (r2 :> 1)

VARIABLE part

allVars == <<part, lockVars, hostKeyVars, patchVars, vaultVars, licenseVars>>

\* What a component that stays put began with is of no interest.
Plainly == part = "patch" \/ published

Init ==
  /\ part \in {"lock", "keys", "patch", "vault", "licence"}
  /\ LockInit /\ HostKeyInit /\ PatchInit /\ VaultInit /\ LicenseInit
  /\ Plainly

Next ==
  /\ UNCHANGED part
  /\ \/ /\ part = "lock" /\ LockNext
        /\ UNCHANGED <<hostKeyVars, patchVars, vaultVars, licenseVars>>
     \/ /\ part = "keys" /\ HostKeyNext
        /\ UNCHANGED <<lockVars, patchVars, vaultVars, licenseVars>>
     \/ /\ part = "patch" /\ PatchNext
        /\ UNCHANGED <<lockVars, hostKeyVars, vaultVars, licenseVars>>
     \/ /\ part = "vault" /\ VaultNext
        /\ UNCHANGED <<lockVars, hostKeyVars, patchVars, licenseVars>>
     \/ /\ part = "licence" /\ LicenseNext
        /\ UNCHANGED <<lockVars, hostKeyVars, patchVars, vaultVars>>

Spec == Init /\ [][Next]_allVars
=================================================================================
