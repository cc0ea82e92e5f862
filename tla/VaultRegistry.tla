---------------------------- MODULE VaultRegistry ----------------------------
(***************************************************************************)
(* The vault registry of the keystore DAO (keystore-dao-contract/src/      *)
(* lib.rs): the cessation flag, the whitelist of vault code hashes voted   *)
(* on by hash, and the vaults marked verified or banned.  It shares the    *)
(* members and their threshold, and the keystores' access keys, with       *)
(* KeystoreDao, whose steps interleave with these.                         *)
(***************************************************************************)
EXTENDS KeystoreDao

CONSTANTS
    Hashes,     \* code hashes of vault contracts
    ArgsSet,    \* (label, audit_url) of an approval, as one value
    Vaults      \* vault accounts

VARIABLES
    ceased_operations,
    approved_vault_code_hashes, vault_versions,
    vault_version_votes,          \* <<kind, hash>> -> voters
    vault_version_approval_args,
    verified_vaults, banned_vaults,
    asked                         \* history: what each member's last approval call passed

versions == <<approved_vault_code_hashes, vault_versions, vault_version_votes,
              vault_version_approval_args, asked>>
vaultSets == <<verified_vaults, banned_vaults>>
registryVars == <<ceased_operations, versions, vaultSets>>
vars == <<daoVars, registryVars>>

Init ==
    /\ DaoInit
    /\ ceased_operations = FALSE
    /\ approved_vault_code_hashes = {} /\ vault_versions = EmptyMap
    /\ vault_version_votes = EmptyMap /\ vault_version_approval_args = EmptyMap
    /\ verified_vaults = {} /\ banned_vaults = {}
    /\ asked = EmptyMap

-----------------------------------------------------------------------------
\* Any member flips the flag, either way.
DeclareCessation(m) ==
    /\ m \in dao_members /\ ~ceased_operations
    /\ ceased_operations' = TRUE
    /\ UNCHANGED <<versions, vaultSets>>

RevokeCessation(m) ==
    /\ m \in dao_members /\ ceased_operations
    /\ ceased_operations' = FALSE
    /\ UNCHANGED <<versions, vaultSets>>

\* The voters of an action with m among them, those who left the DAO dropped.
VotersKept(action, m) == GetOr(vault_version_votes, action, {}) \cup {m}
Voters(action, m) == (GetOr(vault_version_votes, action, {}) \cap dao_members) \cup {m}
Quorum(action, m) == Cardinality(Voters(action, m)) >= approval_threshold

\* The first proposer's metadata binds the others until the vote is over.
ArgsMatch(hash, args) == GetOr(vault_version_approval_args, hash, args) = args

\* internal_approve_vault_version, once the quorum is reached.
ApproveVaultVersion(m, hash, args) ==
    LET action == <<"Approve", hash>>
    IN /\ m \in dao_members
       /\ ArgsMatch(hash, args)
       /\ asked' = Put(asked, <<hash, m>>, args)
       /\ IF Quorum(action, m)
          THEN /\ vault_version_votes' = Drop(vault_version_votes, action)
               /\ vault_version_approval_args' = Drop(vault_version_approval_args, hash)
               /\ approved_vault_code_hashes' = approved_vault_code_hashes \cup {hash}
               /\ vault_versions' = Put(vault_versions, hash,
                                        [args |-> args, deprecated |-> FALSE])
          ELSE /\ vault_version_votes' = Put(vault_version_votes, action, Voters(action, m))
               /\ vault_version_approval_args' = Put(vault_version_approval_args, hash, args)
               /\ UNCHANGED <<approved_vault_code_hashes, vault_versions>>
       /\ UNCHANGED <<ceased_operations, vaultSets>>

\* One member suffices: the hash stays approved.
DeprecateVaultVersion(m, hash) ==
    /\ m \in dao_members
    /\ hash \in DOMAIN vault_versions
    /\ vault_versions' = [vault_versions EXCEPT ![hash].deprecated = TRUE]
    /\ UNCHANGED <<ceased_operations, approved_vault_code_hashes, vault_version_votes,
                   vault_version_approval_args, asked, vaultSets>>

\* internal_revoke_vault_version removes the hash and its metadata.
MetadataWithout(hash) == Drop(vault_versions, hash)

RevokeVaultVersion(m, hash) ==
    LET action == <<"Revoke", hash>>
    IN /\ m \in dao_members
       /\ IF Quorum(action, m)
          THEN /\ vault_version_votes' = Drop(vault_version_votes, action)
               /\ approved_vault_code_hashes' = approved_vault_code_hashes \ {hash}
               /\ vault_versions' = MetadataWithout(hash)
          ELSE /\ vault_version_votes' = Put(vault_version_votes, action, Voters(action, m))
               /\ UNCHANGED <<approved_vault_code_hashes, vault_versions>>
      
       /\ UNCHANGED <<ceased_operations, vault_version_approval_args, asked, vaultSets>>

-----------------------------------------------------------------------------
\* Calls signed with a keystore's access key on the contract's own account.
SignedByKeystore(k) == k \in access_keys

MarkVaultVerified(k, v) ==
    /\ SignedByKeystore(k)
    /\ v \notin banned_vaults
    /\ verified_vaults' = verified_vaults \cup {v}
    /\ UNCHANGED <<ceased_operations, versions, banned_vaults>>

BanVault(v) ==
    /\ access_keys # {} \/ dao_members # {}
    /\ banned_vaults' = banned_vaults \cup {v}
    /\ UNCHANGED <<ceased_operations, versions, verified_vaults>>

UnbanVault(m, v) ==
    /\ m \in dao_members
    /\ banned_vaults' = banned_vaults \ {v}
    /\ UNCHANGED <<ceased_operations, versions, verified_vaults>>

RegistryStep ==
    \/ \E m \in Members : \/ DeclareCessation(m) \/ RevokeCessation(m)
                          \/ \E hash \in Hashes, args \in ArgsSet : ApproveVaultVersion(m, hash, args)
                          \/ \E hash \in Hashes : \/ DeprecateVaultVersion(m, hash)
                                                  \/ RevokeVaultVersion(m, hash)
                          \/ \E v \in Vaults : UnbanVault(m, v)
    \/ \E v \in Vaults : BanVault(v) \/ \E k \in Keys : MarkVaultVerified(k, v)

Next ==
    \/ RegistryStep /\ UNCHANGED daoVars
    \/ DaoNext /\ UNCHANGED registryVars

Spec == Init /\ [][Next]_vars

-----------------------------------------------------------------------------

\* More than half of the current members, among a set of voters.
MajorityOf(voters) == 2 * Cardinality(voters \cap dao_members) > Cardinality(dao_members)

\* The votes on record for an action, and the one of the caller that ends it.
VotedFor(action, caller) == GetOr(vault_version_votes, action, {}) \cup {caller}

\* Metadata enters the registry by the vote of more than half of the current
\* members, each of whom passed that very metadata in their last call for the
\* hash: nobody who left counts, and nobody voted for one text and saw another
\* recorded.
ApprovedAsAsked ==
    \A hash \in DOMAIN vault_versions' :
       (hash \notin DOMAIN vault_versions
          \/ vault_versions'[hash].args # vault_versions[hash].args)
       => \E caller \in dao_members :
             MajorityOf({m \in VotedFor(<<"Approve", hash>>, caller) :
                            /\ <<hash, m>> \in DOMAIN asked'
                            /\ asked'[<<hash, m>>] = vault_versions'[hash].args})

\* A hash leaves the whitelist by the vote of more than half of the current
\* members.
RevokedByMajority ==
    \A hash \in approved_vault_code_hashes \ approved_vault_code_hashes' :
       \E caller \in dao_members : MajorityOf(VotedFor(<<"Revoke", hash>>, caller))

\* The list of vault versions changes only as majorities of the council of that
\* moment asked (vote_approve_vault_version, vote_revoke_vault_version).
VersionsDecided == [][ApprovedAsAsked /\ RevokedByMajority]_vars
=============================================================================
