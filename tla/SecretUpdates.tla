--------------------------- MODULE SecretUpdates ----------------------------
(***************************************************************************)
(* The doors by which a person's secrets pass through the keystore on      *)
(* their way to the contract (keystore-worker/src/api.rs): /pubkey,        *)
(* /add_generated_secret and /update_user_secrets.  The keystore only      *)
(* returns a ciphertext; the owner files it in a transaction of their own, *)
(* later, and other rows may be filed between.  An update may also move a  *)
(* row to another accessor, another vault, or both.                        *)
(*                                                                         *)
(* A ciphertext is what opens it, a master and a seed, with the keys and   *)
(* values inside.  A master is a vault, or NoRow for the default one.  The *)
(* values generated by one call are new; the call's number stands for      *)
(* them.  The rows are those of one owner and one profile.  A page         *)
(* encrypts what it showed to /pubkey.                                     *)
(* Left out: the summary of an update, and the shape of a generated value. *)
(***************************************************************************)
EXTENDS Maps, Integers, Sequences, FiniteSets

CONSTANTS
    NoRow,            \* no row, no accessor to move to, no vault
    Accessors,        \* [kind, name, branch] as a caller may spell them
    Normalised,       \* normalize_repo_url, on the repositories' names
    RootedNames,      \* names that start at a root of declared keys
    VaultArgs,
    PlainKeys, ReservedKeys, ProtectedKeys,   \* names of secrets
    Written,          \* the value a caller writes
    LegacyRows,       \* what the table may hold at first
    UpdateRequests,   \* bodies of /update_user_secrets
    GeneratedRequests,\* bodies of /add_generated_secret, less the ciphertext
    MaxGenerated,     \* MAX_GENERATED_SECRETS
    MaxBatches        \* bound on the calls that generate values

SecretNames == PlainKeys \cup ReservedKeys \cup ProtectedKeys
SecretValues == {Written} \cup 1..MaxBatches
Scopes == VaultArgs \cup {NoRow}

IsAccessor(a) ==
    a \in [kind: STRING, name: STRING, branch: STRING] /\ (a.kind = "repo" => a.name \in DOMAIN Normalised)

ASSUME SecretUpdatesAssumption ==
    /\ NoRow \notin VaultArgs \cup Accessors /\ Written \notin Int
    \* the names one call of normalize_repo_url is enough for: not "x.git.git"
    /\ \A n \in DOMAIN Normalised : Normalised[n] \in STRING /\ Normalised[Normalised[n]] = Normalised[n]
    \* no name of RESERVED_SECRET_KEYS has the prefix PROTECTED_
    /\ ReservedKeys \cap ProtectedKeys = {}
    /\ \A a \in Accessors : IsAccessor(a)
    /\ \A r \in GeneratedRequests : IsAccessor(r.accessor)
    /\ \A r \in UpdateRequests : /\ IsAccessor(r.accessor) /\ (r.moveTo # NoRow => IsAccessor(r.moveTo))
                                 /\ r.mode \in {"append", "reset"}
    \* nobody is given a key to write a protected name with
    /\ \A old \in LegacyRows : \A a \in DOMAIN old :
          \A k \in DOMAIN old[a].blob.secrets \cap ProtectedKeys : old[a].blob.secrets[k] # Written
    /\ MaxGenerated \in Nat /\ MaxBatches \in Nat

VARIABLES
    shelf,      \* accessor as the contract keys it -> [blob, vault]
    updating,   \* the update in progress, or NoRow
    handed,     \* the last ciphertext given out with where it is to be filed, or NoRow
    generated   \* calls that generated values so far

updateVars == <<shelf, updating, handed, generated>>

UpdatesInit ==
    /\ shelf \in LegacyRows
    /\ updating = NoRow
    /\ handed = NoRow
    /\ generated = 0

-----------------------------------------------------------------------------
\* accessor_to_contract_json, and the contract's own key of a row: no branch is "".
Canonical(a) == IF a.kind = "repo" THEN [a EXCEPT !.name = Normalised[a.name]] ELSE a

\* repo_seed_root refuses a name that would spell a declared key's derivation.
HasSeed(a) == a.kind = "repo" => Normalised[a.name] \notin RootedNames

\* The seed of a row: an empty branch adds nothing.
SeedOf(a) ==
    CASE a.kind = "repo" /\ a.branch # "" -> <<Normalised[a.name], a.branch>>
      [] a.kind = "repo" -> <<Normalised[a.name]>>
      [] OTHER -> <<a.kind, a.name>>

\* refuse_declared_key_seed, on a seed a caller spells.
SpelledSeed(seed) == Head(seed) \notin RootedNames

SealedUnder(master, seed, secrets) == [master |-> master, seed |-> seed, secrets |-> secrets]
OpensWith(blob, master, seed) == blob.master = master /\ blob.seed = seed

\* Fresh values under the names of a sequence.
WithGenerated(secrets, names) ==
    [k \in DOMAIN secrets \cup {names[i] : i \in DOMAIN names} |->
        IF k \in DOMAIN secrets THEN secrets[k] ELSE generated + 1]
GeneratedBy(names) == generated + IF names = <<>> THEN 0 ELSE 1

-----------------------------------------------------------------------------
\* pubkey_handler and what the page does with the key: a caller encrypts what passed.
\* A vault's key is only given to an authenticated caller.
PubkeyFor(keys, seed, vault, authenticated) ==
    /\ keys \cap (ReservedKeys \cup ProtectedKeys) = {}
    /\ SpelledSeed(seed)
    /\ vault # NoRow => authenticated

EncryptByHand(a, keys, vault, authenticated) ==
    /\ updating = NoRow
    /\ PubkeyFor(keys, SeedOf(a), vault, authenticated)
    /\ handed' = [blob |-> SealedUnder(vault, SeedOf(a), [k \in keys |-> Written]),
                    at |-> Canonical(a), vault |-> vault, mode |-> "new",
                    read |-> NoRow, on |-> NoRow]
    /\ UNCHANGED <<shelf, updating, generated>>

\* add_generated_secret_handler: the ciphertext a caller sends, if any, must open under
\* the seed and the vault of the request, and hold nothing generated.  A name asked for
\* twice is generated twice and the later value stays.
AddGenerated(r) ==
    /\ updating = NoRow
    /\ Len(r.names) <= MaxGenerated
    /\ SpelledSeed(SeedOf(r.accessor))
    /\ r.sent => /\ handed # NoRow
                 /\ OpensWith(handed.blob, r.vault, SeedOf(r.accessor))
    /\ \A i \in DOMAIN r.names : r.names[i] \in ProtectedKeys
    /\ GeneratedBy(r.names) <= MaxBatches
    /\ LET old == IF r.sent THEN handed.blob.secrets ELSE EmptyMap
           merged == WithGenerated(old, r.names)
       IN /\ DOMAIN old \cap ProtectedKeys = {}
          /\ DOMAIN merged \cap ReservedKeys = {}
          /\ handed' = [blob |-> SealedUnder(r.vault, SeedOf(r.accessor), merged),
                          at |-> Canonical(r.accessor), vault |-> r.vault, mode |-> "new",
                          read |-> NoRow, on |-> NoRow]
    /\ generated' = GeneratedBy(r.names)
    /\ UNCHANGED <<shelf, updating>>

-----------------------------------------------------------------------------
\* update_user_secrets_handler, up to its read of the chain: reserved names are looked
\* for in what is asked alone, and the signed message lists what is asked.
BeginUpdate(r) ==
    /\ updating = NoRow
    /\ r.keys \cap ReservedKeys = {}
    /\ r.signed = <<r.keys, r.names>>
    /\ r.owned
    /\ r.keys \cap ProtectedKeys = {}
    /\ updating' = [req |-> r, row |-> NoRow, on |-> NoRow, pc |-> "read"]
    /\ handed' = NoRow
    /\ UNCHANGED <<shelf, generated>>

\* get_secret_with_vault: a row just filed may not be visible yet.
ReadFiled(visible) ==
    /\ updating # NoRow /\ updating.pc = "read"
    /\ LET at == Canonical(updating.req.accessor)
           there == GetOr(shelf, at, NoRow)
       IN updating' = [req |-> updating.req, row |-> IF visible THEN there ELSE NoRow, on |-> there,
                       pc |-> "merge"]
    /\ UNCHANGED <<shelf, handed, generated>>

\* The row opens under the vault it is bound to, never under the one the body names.
OpensAsFiled(row, accessor) ==
    HasSeed(accessor) /\ OpensWith(row.blob, row.vault, SeedOf(accessor))

\* Append merges into a row; a row that cannot be seen is not an empty one.
MayMergeBlindly(mode, row) == TRUE
MayMerge(mode, row) == row # NoRow \/ mode = "reset"

KeptBy(mode, secrets) ==
    IF mode = "reset" THEN DOMAIN secrets \cap ProtectedKeys ELSE DOMAIN secrets

\* A blob is written under the body's vault and the seed of where the row moves to.
MovesTo(req) == IF req.moveTo = NoRow THEN req.accessor ELSE req.moveTo

\* SecretNames to generate are taken in order, so that a second of the same name is refused.
Generable(names, present) ==
    \A i \in DOMAIN names :
        /\ names[i] \in ProtectedKeys
        /\ names[i] \notin present
        /\ \A j \in 1..(i - 1) : names[j] # names[i]

MergeUpdate ==
    /\ updating # NoRow /\ updating.pc = "merge"
    /\ LET req == updating.req
           row == updating.row
           old == IF row = NoRow THEN EmptyMap ELSE row.blob.secrets
           merged == [k \in req.keys \cup KeptBy(req.mode, old) |-> IF k \in req.keys THEN Written ELSE old[k]]
       IN /\ row # NoRow => OpensAsFiled(row, req.accessor)
          /\ MayMerge(req.mode, row)
          /\ Generable(req.names, DOMAIN merged)
          /\ GeneratedBy(req.names) <= MaxBatches
          /\ HasSeed(MovesTo(req))
          /\ handed' = [blob |-> SealedUnder(req.vault, SeedOf(MovesTo(req)),
                                        WithGenerated(merged, req.names)),
                          at |-> Canonical(MovesTo(req)), vault |-> req.vault,
                          mode |-> req.mode, read |-> row, on |-> updating.on]
          /\ generated' = GeneratedBy(req.names)
    /\ updating' = NoRow
    /\ UNCHANGED shelf

\* Any of the handler's errors.
RefuseUpdate ==
    /\ updating # NoRow
    /\ updating' = NoRow
    /\ UNCHANGED <<shelf, handed, generated>>

\* The owner's transaction (external).  store_secrets without a vault leaves a binding in
\* place, so that a row that leaves its vault is unbound after it.
FileReturned ==
    /\ handed # NoRow
    /\ shelf' = Put(shelf, handed.at, [blob |-> handed.blob, vault |-> handed.vault])
    /\ handed' = NoRow
    /\ UNCHANGED <<updating, generated>>

UpdatesNext ==
    \/ \E a \in Accessors, keys \in SUBSET SecretNames, v \in Scopes, auth \in BOOLEAN :
          EncryptByHand(a, keys, v, auth)
    \/ \E r \in GeneratedRequests : AddGenerated(r)
    \/ \E r \in UpdateRequests : BeginUpdate(r)
    \/ \E visible \in BOOLEAN : ReadFiled(visible)
    \/ MergeUpdate
    \/ RefuseUpdate
    \/ FileReturned

UpdatesSpec == UpdatesInit /\ [][UpdatesNext]_updateVars

-----------------------------------------------------------------------------
SealedBlobs == [master: Scopes, seed: Seq(STRING), secrets: UNION {[S -> SecretValues] : S \in SUBSET SecretNames}]

UpdatesTypeOK ==
    /\ \A a \in DOMAIN shelf : shelf[a].vault \in Scopes /\ shelf[a].blob \in SealedBlobs
    /\ updating # NoRow => updating.pc \in {"read", "merge"}
    /\ handed # NoRow => handed.blob \in SealedBlobs
    /\ generated \in 0..MaxBatches

SameUnder(keys, secrets, old) ==
    \A k \in keys \cap DOMAIN old : k \in DOMAIN secrets /\ secrets[k] = old[k]

\* What the keystore gives out can be filed without loss.  It opens with the vault and
\* the seed a reader of the row it is meant for will use, through moves between accessors
\* and vaults; appending drops no key of the row that was on chain at the read, seen or
\* not; a generated value the handler saw is carried over as it was in either mode; a
\* name with the PROTECTED_ prefix always has a value the keystore generated; and a
\* reserved name is only ever one the row had before.
FiledWithoutLoss ==
    handed # NoRow =>
        LET secrets == handed.blob.secrets
            old(row) == IF row = NoRow THEN EmptyMap ELSE row.blob.secrets
        IN /\ OpensWith(handed.blob, handed.vault, SeedOf(handed.at))
           /\ handed.mode = "append" => DOMAIN old(handed.on) \subseteq DOMAIN secrets
           /\ SameUnder(ProtectedKeys, secrets, old(handed.read))
           /\ \A k \in DOMAIN secrets \cap ProtectedKeys : secrets[k] # Written
           /\ DOMAIN secrets \cap ReservedKeys \subseteq DOMAIN old(handed.read)

=============================================================================
