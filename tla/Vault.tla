--------------------------------- MODULE Vault ---------------------------------
(***************************************************************************)
(* The credential vault (services/vault.service.ts): one row that wraps a  *)
(* data key (DEK) under a passphrase, the unlocked sessions each process   *)
(* holds in memory, and the credentials encrypted under a DEK.             *)
(*                                                                         *)
(* A key is a number, a session is the DEK it holds, 0 when it is locked.  *)
(* Every operation reads the row, computes, and then either stores its     *)
(* session at once or writes the row first: the read and the write are     *)
(* different statements.                                                   *)
(***************************************************************************)
EXTENDS Integers

CONSTANTS
  Process,      \* API processes, each with its own activeSessions
  Token,        \* session tokens of operators
  Passphrase,
  EnvPassphrase,   \* VAULT_PASSPHRASE, a passphrase or something else for none
  Credential,
  MaxDeks       \* bound: data keys ever generated

ASSUME VaultAssumption == MaxDeks \in Nat
ASSUME SystemAssumption == "system" \notin Token

VARIABLES
  vault,      \* the row: [dek, pass], dek 0 when there is none
  sessions,   \* activeSessions of each process, "system" among them
  job,        \* the operation each process is at, and what it has read
  cred,       \* the DEK each stored credential is encrypted under; 0: v3 or none
  deks,
  destroyed,  \* DEKs discarded by forceDestroy
  overwritten \* a reset has written over a row that was not the one it read

vaultVars == <<vault, sessions, job, cred, deks, destroyed, overwritten>>

------------------------------------------------------------------------------

Holder == Token \cup {"system"}
VaultRow == [dek : 0 .. MaxDeks, pass : Passphrase \cup {"nopass"}]
NoVault == [dek |-> 0, pass |-> "nopass"]
NoJob == [op |-> "none", holder |-> "system", read |-> NoVault, new |-> NoVault]
Locked == [h \in Holder |-> 0]

VaultTypeOK ==
  /\ vault \in VaultRow
  /\ sessions \in [Process -> [Holder -> 0 .. MaxDeks]]
  /\ job \in [Process -> [op : {"none", "unlock", "init", "reset", "destroy"},
                          holder : Holder, read : VaultRow, new : VaultRow]]
  /\ cred \in [Credential -> 0 .. MaxDeks]
  /\ deks \in 0 .. MaxDeks
  /\ destroyed \subseteq 1 .. MaxDeks
  /\ overwritten \in BOOLEAN

VaultInit ==
  /\ vault = NoVault
  /\ sessions = [p \in Process |-> Locked]
  /\ job = [p \in Process |-> NoJob]
  /\ cred = [c \in Credential |-> 0]
  /\ deks = 0 /\ destroyed = {} /\ overwritten = FALSE

Working(p, op) == job[p].op = op
StoreSession(p, h, dek) == sessions' = [sessions EXCEPT ![p][h] = dek]

------------------------------------------------------------------------------
(* Unlocking and locking *)

\* unlockVault, unlockVaultGlobal and autoInitVaultFromEnv read the row; a
\* passphrase that is not the vault's is refused.
ReadToUnlock(p) ==
  /\ Working(p, "none") /\ vault # NoVault
  /\ \E h \in Holder :
       job' = [job EXCEPT ![p] = [op |-> "unlock", holder |-> h, read |-> vault,
                                  new |-> NoVault]]
  /\ UNCHANGED <<vault, sessions, cred, deks, destroyed, overwritten>>

\* The key is derived and the session stored without another await.
Unlock(p) ==
  /\ Working(p, "unlock")
  /\ StoreSession(p, job[p].holder, job[p].read.dek)
  /\ job' = [job EXCEPT ![p] = NoJob]
  /\ UNCHANGED <<vault, cred, deks, destroyed, overwritten>>

\* lockVault and lockVaultGlobal; the auto-lock deadline, which the system's
\* session does not have.
Lock(p, h) ==
  /\ sessions[p][h] # 0
  /\ StoreSession(p, h, 0)
  /\ UNCHANGED <<vault, job, cred, deks, destroyed, overwritten>>

\* A process restarts: its keys were only in memory.
Restart(p) ==
  /\ sessions' = [sessions EXCEPT ![p] = Locked]
  /\ job' = [job EXCEPT ![p] = NoJob]
  /\ UNCHANGED <<vault, cred, deks, destroyed, overwritten>>

------------------------------------------------------------------------------
(* Initialization and re-keying *)

NewDek == deks < MaxDeks /\ deks' = deks + 1

\* initVault generates the first DEK once it has found no row.
ReadToInit(p) ==
  /\ Working(p, "none") /\ vault = NoVault
  /\ NewDek
  /\ \E h \in Holder, w \in Passphrase :
       job' = [job EXCEPT ![p] = [op |-> "init", holder |-> h, read |-> vault,
                                  new |-> [dek |-> deks', pass |-> w]]]
  /\ UNCHANGED <<vault, sessions, cred, destroyed, overwritten>>

\* The primary key lets one initialization in.
InitVault(p) ==
  /\ Working(p, "init")
  /\ IF vault = NoVault
     THEN vault' = job[p].new /\ StoreSession(p, job[p].holder, job[p].new.dek)
     ELSE UNCHANGED <<vault, sessions>>
  /\ job' = [job EXCEPT ![p] = NoJob]
  /\ UNCHANGED <<cred, deks, destroyed, overwritten>>

\* The key that will be wrapped under the new passphrase: the one just read,
\* unless there is none.
RekeyedDek(read, fresh) == IF read = NoVault THEN fresh ELSE read.dek

\* Mutant: a change of passphrase makes a new key.
ReadToResetAnew(p) ==
  /\ Working(p, "none")
  /\ NewDek
  /\ \E h \in Token, w \in Passphrase :
       job' = [job EXCEPT ![p] = [op |-> "reset", holder |-> h, read |-> vault,
                                  new |-> [dek |-> deks', pass |-> w]]]
  /\ UNCHANGED <<vault, sessions, cred, destroyed, overwritten>>

\* resetVault with the current passphrase, or on a vault that is not initialized.
ReadToReset(p) ==
  /\ Working(p, "none")
  /\ IF vault = NoVault THEN NewDek ELSE UNCHANGED deks
  /\ \E h \in Token, w \in Passphrase :
       job' = [job EXCEPT ![p] = [op |-> "reset", holder |-> h, read |-> vault,
                                  new |-> [dek |-> RekeyedDek(vault, deks'), pass |-> w]]]
  /\ UNCHANGED <<vault, sessions, cred, destroyed, overwritten>>

\* resetVault with forceDestroy.
ReadToDestroy(p) ==
  /\ Working(p, "none") /\ vault # NoVault
  /\ NewDek
  /\ \E h \in Token, w \in Passphrase :
       job' = [job EXCEPT ![p] = [op |-> "destroy", holder |-> h, read |-> vault,
                                  new |-> [dek |-> deks', pass |-> w]]]
  /\ UNCHANGED <<vault, sessions, cred, destroyed, overwritten>>

\* The upsert does not look at the row; then the sessions, in this process.
WriteReset(p) ==
  /\ Working(p, "reset") \/ Working(p, "destroy")
  /\ vault' = job[p].new
  /\ overwritten' = (overwritten \/ vault # job[p].read)
  /\ destroyed' = IF Working(p, "destroy") THEN destroyed \cup {job[p].read.dek} ELSE destroyed
  /\ LET kept == IF Working(p, "destroy") THEN Locked ELSE sessions[p]
         own == [kept EXCEPT ![job[p].holder] = job[p].new.dek]
     IN sessions' = [sessions EXCEPT ![p] =
          IF job[p].new.pass = EnvPassphrase
          THEN [own EXCEPT !["system"] = job[p].new.dek] ELSE own]
  /\ job' = [job EXCEPT ![p] = NoJob]
  /\ UNCHANGED <<cred, deks>>

------------------------------------------------------------------------------
(* Credentials *)

\* encryptPasswordWithVault: the session's own key, else the system's, else none.
KeyFor(p, h) == IF sessions[p][h] # 0 THEN sessions[p][h] ELSE sessions[p]["system"]

SaveCredential(p, h) ==
  /\ \E c \in Credential : cred' = [cred EXCEPT ![c] = KeyFor(p, h)]
  /\ UNCHANGED <<vault, sessions, job, deks, destroyed, overwritten>>

\* decryptPasswordWithVault.
Readable(p, h, c) ==
  cred[c] = 0 \/ sessions[p][h] = cred[c] \/ sessions[p]["system"] = cred[c]

VaultNext ==
  \E p \in Process :
    \/ ReadToUnlock(p) \/ Unlock(p) \/ Restart(p)
    \/ ReadToInit(p) \/ InitVault(p)
    \/ ReadToReset(p) \/ ReadToDestroy(p) \/ WriteReset(p)
    \/ \E h \in Holder : Lock(p, h) \/ SaveCredential(p, h)

VaultSpec == VaultInit /\ [][VaultNext]_vaultVars

------------------------------------------------------------------------------
(* Properties *)

\* Changing the passphrase, restarting, locking and unlocking on any process never
\* costs a credential: each stored one is under the vault's key, or under one that
\* an operator destroyed on purpose, and so is every key held in memory.  Only two
\* resets that overlap (or a reset and an initialization) are excepted.
CredentialsSurvive ==
  ~overwritten =>
    /\ \A c \in Credential : cred[c] \in {0, vault.dek} \cup destroyed
    /\ \A p \in Process, h \in Holder : sessions[p][h] \in {0, vault.dek} \cup destroyed

\* Whoever has unlocked the vault reads every credential that was not encrypted
\* under a destroyed key.
UnlockedReads ==
  ~overwritten =>
    \A p \in Process, h \in Holder, c \in Credential :
      sessions[p][h] = vault.dek /\ cred[c] \notin destroyed => Readable(p, h, c)

\* After a destruction nothing is encrypted under the old key any more ("every
\* in-memory DEK now refers to data that can no longer be read", so all sessions are
\* dropped): false, since the sessions of other processes, and an unlock that has
\* read the old row, survive it.
DestroyedKeysAreDropped ==
  \A p \in Process, h \in Holder : sessions[p][h] \notin destroyed
=================================================================================
