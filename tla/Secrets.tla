------------------------------ MODULE Secrets -------------------------------
(***************************************************************************)
(* Ordinary and agent secrets: the rows of contract/src/secrets.rs, their  *)
(* vault bindings, owner index and storage deposits, and the two           *)
(* signatures the keystore gives for an agent (keystore-worker/src/api.rs, *)
(* sign-secret-store and sign-secret-delete).  Payment keys, the System    *)
(* rows of the same table, are the subject of PaymentKeys.                 *)
(*                                                                         *)
(* An agent is one of the wallets of WalletPolicy; its account is the      *)
(* implicit account of its key, and its name as a profile is that account. *)
(* The rows are apart from those of the policies, and no step here reads   *)
(* or writes them: a frozen wallet's secrets can still be filed.  A call   *)
(* that panics changes nothing and is not a step.  A call attaches what it *)
(* must and its excess comes back inside it, so that only the difference   *)
(* between the old and the new deposit changes hands.                      *)
(***************************************************************************)
EXTENDS WalletPolicy

CONSTANTS
    Keys,         \* SecretKeys in use: accessor, profile, owner
    Repos,        \* accessors: repositories,
    Hashes,       \*   WASM hashes; and projects
    Texts,        \* ciphertexts
    Conditions,   \* access conditions within their bounds
    Vaults,
    TextCost,     \* storage price of a row with its key and index entry, by ciphertext
    ConditionCost,\* and what an access condition adds,
    BindingCost,  \* and what an entry of secret_vault_bindings adds
    MaxConsents   \* bound on the signatures given out

\* Whose account may be a caller: a wallet's is the implicit account of its key.
Callers == Accounts \cup Wallets

ASSUME SecretsAssumption ==
    /\ TextCost \in [Texts -> Nat] /\ ConditionCost \in [Conditions -> Nat]
    /\ BindingCost \in Nat /\ MaxConsents \in Nat
    /\ None \notin Vaults
    /\ Accounts \cap Wallets = {}
    /\ \A k \in Keys : k.accessor \in Repos \cup Hashes \cup ProjectIds /\ k.owner \in Callers

Rows == [text: Texts, access: Conditions, deposit: Nat]
VaultArg == Vaults \cup {None}

\* secret_store_message and secret_delete_message: the key names the agent.
StoreConsents == [door: {"store"}, key: Keys, payer: Callers, text: Texts, access: Conditions,
                  vault: VaultArg]
DeleteConsents == [door: {"delete"}, key: Keys, payer: Callers]

VARIABLES
    secrets_storage,        \* SecretKey -> SecretProfile
    secret_vault_bindings,  \* SecretKey -> vault
    user_secrets_index,     \* owner -> its keys; no row when empty
    deposits,               \* NEAR taken for these rows and not paid back
    consents,               \* signatures the keystore has given out
    staked                  \* history: what a person paid at their own doors, less refunds

secretRows == <<secrets_storage, secret_vault_bindings, user_secrets_index>>
secretVars == <<secretRows, deposits, consents, staked>>

SecretsInit ==
    /\ secrets_storage = EmptyMap
    /\ secret_vault_bindings = EmptyMap
    /\ user_secrets_index = EmptyMap
    /\ deposits = 0
    /\ consents = {}
    /\ staked = [a \in Accounts |-> 0]

Bound(k) == k \in DOMAIN secret_vault_bindings
DepositOf(k) == IF k \in DOMAIN secrets_storage THEN secrets_storage[k].deposit ELSE 0

\* calculate_secret_storage_size, priced.
SecretCost(text, access, bound) ==
    TextCost[text] + ConditionCost[access] + IF bound THEN BindingCost ELSE 0

\* Whether the row has a binding once the call is over: None leaves one alone.
BoundAfterCallAsGiven(k, vault) == vault # None
BoundAfterCall(k, vault) == vault # None \/ Bound(k)

\* `payer` pays what the deposit grows by, or gets back what it shrinks by.
Settle(payer, owner, old, new) ==
    /\ deposits' = deposits + new - old
    /\ staked' = IF payer = owner /\ payer \in Accounts
                 THEN [staked EXCEPT ![payer] = @ + new - old] ELSE staked

\* A project must exist; a profile shaped like an implicit account is that agent's.
Storable(k) ==
    /\ k.accessor \in ProjectIds => k.accessor \in DOMAIN projects
    /\ k.profile \in Wallets => k.profile = k.owner

\* store_secrets_internal
StoreRow(payer, k, text, access, vault) ==
    LET required == SecretCost(text, access, BoundAfterCall(k, vault))
    IN /\ Storable(k)
       /\ Settle(payer, k.owner, DepositOf(k), required)
       /\ secrets_storage' = Put(secrets_storage, k,
                                 [text |-> text, access |-> access, deposit |-> required])
       /\ secret_vault_bindings' = IF vault = None THEN secret_vault_bindings
                                   ELSE Put(secret_vault_bindings, k, vault)
       /\ user_secrets_index' = IF k \in DOMAIN secrets_storage THEN user_secrets_index
                                ELSE Put(user_secrets_index, k.owner,
                                         GetOr(user_secrets_index, k.owner, {}) \cup {k})
       /\ UNCHANGED consents

\* delete_secrets_internal: the index entry that goes is the owner's, whoever asked.
DeleteRow(payer, k) ==
    LET left == GetOr(user_secrets_index, k.owner, {}) \ {k}
    IN /\ k \in DOMAIN secrets_storage
       /\ Settle(payer, k.owner, DepositOf(k), 0)
       /\ secrets_storage' = Drop(secrets_storage, k)
       /\ secret_vault_bindings' = Drop(secret_vault_bindings, k)
       /\ user_secrets_index' = IF left = {} THEN Drop(user_secrets_index, k.owner)
                                ELSE Put(user_secrets_index, k.owner, left)
       /\ UNCHANGED consents

-----------------------------------------------------------------------------
StoreSecrets(k, text, access, vault) == StoreRow(k.owner, k, text, access, vault)

DeleteSecrets(k) == DeleteRow(k.owner, k)

\* Its deposit stays with the row until the row is next priced.
UnbindSecretVault(k) ==
    /\ k \in DOMAIN secrets_storage
    /\ secret_vault_bindings' = Drop(secret_vault_bindings, k)
    /\ UNCHANGED <<secrets_storage, user_secrets_index, deposits, consents, staked>>

UpdateAccess(k, access) ==
    /\ k \in DOMAIN secrets_storage
    /\ LET required == SecretCost(secrets_storage[k].text, access, Bound(k))
       IN /\ Settle(k.owner, k.owner, DepositOf(k), required)
          /\ secrets_storage' =
                [secrets_storage EXCEPT ![k].access = access, ![k].deposit = required]
    /\ UNCHANGED <<secret_vault_bindings, user_secrets_index, consents>>

\* Neither a repository nor a payment key is an agent's secret.
AgentKey(k) == k.owner \in Wallets /\ k.accessor \in Hashes \cup ProjectIds

StoreAgentSecret(c) ==
    /\ c.door = "store"
    /\ AgentKey(c.key)
    /\ StoreRow(c.payer, c.key, c.text, c.access, c.vault)

DeleteAgentSecret(c) ==
    /\ c.door = "delete"
    /\ AgentKey(c.key)
    /\ DeleteRow(c.payer, c.key)

-----------------------------------------------------------------------------
\* wallet_sign_secret_store_handler: the profile is the agent's own name, and the
\* ciphertext decrypts under the agent's seed.
SignSecretStore(k, payer, text, access, vault) ==
    /\ Cardinality(consents) < MaxConsents
    /\ AgentKey(k) /\ k.profile = k.owner
    /\ consents' = consents \cup {[door |-> "store", key |-> k, payer |-> payer, text |-> text,
                                   access |-> access, vault |-> vault]}
    /\ UNCHANGED <<secretRows, deposits, staked>>

\* wallet_sign_secret_delete_handler
SignSecretDelete(k, payer) ==
    /\ Cardinality(consents) < MaxConsents
    /\ AgentKey(k) /\ k.profile = k.owner
    /\ consents' = consents \cup {[door |-> "delete", key |-> k, payer |-> payer]}
    /\ UNCHANGED <<secretRows, deposits, staked>>

-----------------------------------------------------------------------------
SecretsNext ==
    \/ \E k \in Keys, t \in Texts, a \in Conditions, v \in VaultArg :
          \/ StoreSecrets(k, t, a, v)
          \/ \E p \in Accounts : SignSecretStore(k, p, t, a, v)
    \/ \E k \in Keys : \/ DeleteSecrets(k)
                       \/ UnbindSecretVault(k)
                       \/ \E a \in Conditions : UpdateAccess(k, a)
                       \/ \E p \in Accounts : SignSecretDelete(k, p)
    \/ \E c \in consents : StoreAgentSecret(c) \/ DeleteAgentSecret(c)

SecretsSpec ==
    /\ ProjectsInit /\ SecretsInit
    /\ [][\/ SecretsNext /\ UNCHANGED projectVars
          \/ ProjectsNext /\ UNCHANGED secretVars]_<<projectVars, secretVars>>

-----------------------------------------------------------------------------
SecretsTypeOK ==
    /\ DOMAIN secrets_storage \subseteq Keys
    /\ secrets_storage \in [DOMAIN secrets_storage -> Rows]
    /\ secret_vault_bindings \in [DOMAIN secret_vault_bindings -> Vaults]
    /\ consents \subseteq StoreConsents \cup DeleteConsents
    /\ deposits \in Nat
    /\ staked \in [Accounts -> Int]

\* A binding exists only beside its row, a row's deposit pays for the row and for its
\* binding while there is one, and the index lists exactly an owner's rows.
RowsInPlace ==
    /\ DOMAIN secret_vault_bindings \subseteq DOMAIN secrets_storage
    /\ \A k \in DOMAIN secrets_storage : LET r == secrets_storage[k] IN
          r.deposit \in {SecretCost(r.text, r.access, b) : b \in {Bound(k), TRUE}}
    /\ \A a \in DOMAIN user_secrets_index : user_secrets_index[a] # {}
    /\ \A a \in Callers : GetOr(user_secrets_index, a, {}) =
                             {k \in DOMAIN secrets_storage : k.owner = a}

\* Whatever the order of stores, re-stores with or without a vault, edits, unbindings and
\* deletions, through the owner's door or the agent's: rows, bindings, deposits and index
\* agree; the contract holds the sum of the deposits; and a person who uses the ordinary
\* doors has paid in exactly the deposits of their own rows.
SecretRowsFunded ==
    /\ RowsInPlace
    /\ deposits = MapThenSumSet(DepositOf, DOMAIN secrets_storage)
    /\ \A a \in Accounts : staked[a] =
          MapThenSumSet(DepositOf, {k \in DOMAIN secrets_storage : k.owner = a})

=============================================================================
