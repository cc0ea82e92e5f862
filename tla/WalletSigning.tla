---------------------------- MODULE WalletSigning ---------------------------
(***************************************************************************)
(* What the keystore signs with a wallet's keys                            *)
(* (keystore-worker/src/api.rs, ephemeral_keys.rs): wallet/sign with its   *)
(* three ways of producing an artifact, the EVM and Solana doors, the      *)
(* address a caller is shown and the keys that are handed out.             *)
(*                                                                         *)
(* A request reads the policy on chain (WalletPolicy) and is judged; then  *)
(* it waits for approvers' keys and the chain, and signs.  The keystore    *)
(* keeps nothing of it.  A refused request changes nothing and is not a    *)
(* step.  A seed is the sequence of its segments: a ':' in a field of the  *)
(* request makes two segments of it.  The policy engine (evaluate and the  *)
(* decisions per chain) is a library: a policy is the capabilities it      *)
(* opens, the kinds of operation it asks approval for and the recipients   *)
(* it lists.                                                               *)
(***************************************************************************)
EXTENDS WalletPolicy, Sequences, Functions

CONSTANTS
    Segments,      \* what may stand between two ':' of a seed
    Requests,      \* requests that may come, by what they ask
    KeyTables,     \* the tables <<approver, key>> the chain may show
    SubPaths,      \* paths is_valid_sub_path admits
    DepositViews,  \* answers of a token contract: [min, registered]
    DepositCeiling,\* the most a storage deposit may pay
    MaxVotes       \* MAX_APPROVAL_VOTES

EvmChains == {"evm", "base"}
SolanaChains == {"solana", "sol"}
Verifiers == {"intents.near", "intents.far"}
GateOnly == {"gate"}

BuiltKinds == {"transfer", "call", "delete", "withdraw", "intents_transfer", "storage_deposit", "jwt", "auth"}
TrustedKinds == {"swap"}

ASSUME SigningAssumption ==
    /\ {"wallet", "subkey", "evm", "solana", "near"} \cup SubPaths \subseteq Segments
    /\ IsFiniteSet(Approvers)
    \* a string has at least one segment; sub_path of an export is checked on its own
    /\ \A r \in Requests :
          /\ r.id \in Seq(Segments)
          /\ r.what = "sign" => r.op.chain \in Seq(Segments) \ {<<>>}
          /\ r.what # "sign" => r.chain \in Seq(Segments) \ {<<>>}
          /\ r.what = "export" => r.path \in Seq(Segments)
          /\ r.what = "solana" => r.form \in {"message", "transaction"}

VARIABLES
    signing,   \* the request a handler is serving, with the policy it was judged by
    given,     \* what the last request was answered with
    exported   \* history: seeds whose private key was handed out

signingVars == <<signing, given, exported>>

SigningInit == signing = None /\ given = None /\ exported = {}

-----------------------------------------------------------------------------
\* Keys.

\* A wallet id may not contain ':'.
ValidWalletId(id) == Len(id) = 1

IsEvmChain(chain) == Len(chain) = 1 /\ chain[1] \in EvmChains
IsSolanaChain(chain) == Len(chain) = 1 /\ chain[1] \in SolanaChains

\* All EVM chains share one key, both spellings of Solana another.
WalletSeed(id, chain) ==
    <<"wallet">> \o id \o (CASE IsEvmChain(chain) -> <<"evm">>
                             [] IsSolanaChain(chain) -> <<"solana">>
                             [] OTHER -> chain)

\* A root of its own, out of the exporter's reach.
SubkeySeed(id, path) == <<"subkey">> \o id \o <<"evm", path>>

ValidSubPath(path) == path = None \/ path \in SubPaths

KeyFor(id, chain, path) == IF path # None THEN SubkeySeed(id, path) ELSE WalletSeed(id, chain)

\* derive-address: a caller is shown the address of a key.
DeriveAddress(r) ==
    /\ r.what = "derive"
    /\ ValidWalletId(r.id) /\ ValidSubPath(r.path)
    /\ r.path # None => IsEvmChain(r.chain)
    /\ IsEvmChain(r.chain) \/ IsSolanaChain(r.chain) \/ r.chain = <<"near">>
    /\ signing = None
    /\ given' = [form |-> "address", seed |-> KeyFor(r.id, r.chain, r.path), req |-> r]
    /\ UNCHANGED <<signing, exported>>

\* derive-ephemeral-key: the private key of a seed with a path is the answer.
DeriveEphemeralKey(r) ==
    /\ r.what = "export"
    /\ ValidWalletId(r.id) /\ r.path # <<>>
    /\ signing = None
    /\ LET seed == <<"wallet">> \o r.id \o r.chain \o r.path
       IN given' = [form |-> "key", seed |-> seed, req |-> r] /\ exported' = exported \cup {seed}
    /\ UNCHANGED signing

-----------------------------------------------------------------------------
\* The policy.

\* evaluate names the capability an operation needs; the others need none.
Needs(op) ==
    CASE op.kind = "raw" -> {IF op.chain = <<"near">> THEN "raw_sign_near" ELSE "raw_sign"}
      [] op.kind \in TrustedKinds -> {"trusted"}
      [] op.kind = "call" /\ op.to \in Verifiers -> {"intents_call"}
      [] OTHER -> {}

\* A wallet without a policy is open, but not to raw signatures of its NEAR key nor to
\* calls of the intents contract.
PolicyToJudgeBy(stated) ==
    IF stated # None THEN stated
    ELSE [approvers |-> {}, pins |-> EmptyMap, threshold |-> 0, locked |-> FALSE,
          may |-> {"raw_sign", "trusted"}, asks |-> {}, recipients |-> {}]

Decision(policy, op) ==
    IF ~(Needs(op) \subseteq policy.may) THEN "Deny"
    ELSE IF op.kind \in policy.asks THEN "RequiresApproval" ELSE "Allow"

\* evm_sign_decision and solana_sign_decision: no policy, no restriction.
ChainDecision(stated, base, raw_tx, want_raw_tx) ==
    stated # None => base \in stated.may /\ (want_raw_tx => raw_tx \in stated.may)

\* Solana has nothing that tells a message from a transaction but its bytes.
NotATransaction(r) == r.bytes # "transaction"

\* Refusals that need no policy: the nested request's decoder, a policy update, the
\* chain, a message that is a transaction.
Admissible(r) ==
    /\ ValidWalletId(r.id)
    /\ CASE r.what = "sign" -> r.op.kind # "policy_update" /\ (r.op.kind = "call" => r.known)
         [] r.what = "evm" -> ValidSubPath(r.path) /\ IsEvmChain(r.chain)
         [] r.what = "solana" -> IsSolanaChain(r.chain) /\ (r.form = "message" => NotATransaction(r))

Judged(r, stated) ==
    CASE r.what = "sign" -> Decision(PolicyToJudgeBy(stated), r.op) # "Deny"
      [] r.what = "evm" -> ChainDecision(stated, "evm_sign", "evm_raw_tx", r.form = "transaction")
      [] r.what = "solana" -> ChainDecision(stated, "solana_sign", "solana_raw_tx", r.form = "transaction")

\* load_wallet_policy: a frozen wallet signs nothing.
NotFrozen(w) == w \in DOMAIN wallet_policies => ~wallet_policies[w].frozen

BeginRequest(r) ==
    /\ r.what \in {"sign", "evm", "solana"}
    /\ signing = None
    /\ Admissible(r)
    /\ NotFrozen(r.id[1])
    /\ Judged(r, PolicyOf(r.id[1]))
    /\ signing' = [req |-> r, stated |-> PolicyOf(r.id[1]), stopped |-> r.id[1] \in stopped]
    /\ given' = None
    /\ UNCHANGED exported

\* check-policy: the same judgement, nothing signed.
CheckPolicy(r) ==
    /\ r.what = "sign"
    /\ signing = None
    /\ ValidWalletId(r.id)
    /\ LET policy == PolicyToJudgeBy(PolicyOf(r.id[1]))
           decision == IF r.op.kind = "call" /\ ~r.known THEN "Deny"
                       ELSE IF ~NotFrozen(r.id[1]) THEN "Frozen" ELSE Decision(policy, r.op)
       IN given' = [form |-> "verdict", req |-> r, decision |-> decision]
    /\ UNCHANGED <<signing, exported>>

-----------------------------------------------------------------------------
\* Approvals.  A vote is signed over the verb, the wallet and the operation.

\* A pin means "only this key".
AdmitsKey(policy, v) ==
    v.by \in policy.approvers /\ (v.by \in DOMAIN policy.pins => policy.pins[v.by] = v.key)
AdmitsContractVote(policy, v) == v.by \in policy.approvers \ DOMAIN policy.pins

ForThisAny(v, r) == v.wallet = r.id[1]
ForThis(v, r) == v.wallet = r.id[1] /\ v.op = r.op

\* The votes that are looked at further, by their place among the approvals.
Standing(policy, r, votes) == {i \in DOMAIN votes : AdmitsKey(policy, votes[i]) /\ ForThis(votes[i], r)}

\* An approver counts once, by the first such vote; one by a key its account does not
\* hold fails the operation.
KeysOwned(policy, r, owned, votes) ==
    \A i \in Standing(policy, r, votes) :
        \/ \E j \in Standing(policy, r, votes) : j < i /\ votes[j].by = votes[i].by
        \/ <<votes[i].by, votes[i].key>> \in owned
KeyVotes(policy, r, votes) == {votes[i].by : i \in Standing(policy, r, votes)}

\* The contract of the approver answers for itself.
ContractVotes(policy, r, votes) ==
    {v.by : v \in {x \in Range(votes) : AdmitsContractVote(policy, x) /\ ForThis(x, r) /\ x.answers}}

\* A NO of any approver refuses the operation.
Vetoed(policy, r, b) ==
    \/ \E v \in Range(b.rejections) : AdmitsKey(policy, v) /\ ForThis(v, r)
    \/ ContractVotes(policy, r, b.contract_rejections) # {}

\* verify_approvals: the bundle is small, for this keystore's contract, and holds the
\* votes of enough approvers.
VerifyApprovals(policy, r, owned) ==
    LET b == r.bundle
        approved_by == KeyVotes(policy, r, b.approvals) \cup ContractVotes(policy, r, b.contract_approvals)
    IN /\ policy.approvers # {}
       /\ b # None
       /\ Max({Len(b.approvals), Len(b.rejections), Len(b.contract_approvals),
               Len(b.contract_rejections)}) <= MaxVotes
       /\ b.here
       /\ KeysOwned(policy, r, owned, b.approvals)
       /\ ~Vetoed(policy, r, b)
       /\ Cardinality(approved_by) >= Max({policy.threshold, 1})

-----------------------------------------------------------------------------
\* Artifacts.

\* `moves`: the signed text may be an intent that moves money.
Artifact(r, seed, form, to, moves) ==
    [form |-> form, seed |-> seed, to |-> to, moves |-> moves, req |-> r,
     stated |-> signing.stated, stopped |-> signing.stopped]

\* intents.near keeps what a deposit pays too much, and one for a registered account.
StorageDepositLosesNothing(op, view) ==
    op.pays <= DepositCeiling /\ op.pays = view.min /\ ~view.registered

\* The keystore builds the artifact from the operation: a transaction of the wallet's
\* account, an intent, a challenge without intents, or a string with a prefix of its own.
\* A deletion goes to the account itself; a gate-only method is never a transaction.
NearTransaction(r) ==
    /\ r.op.kind \in {"transfer", "call", "delete"}
    /\ ~(r.op.kind = "call" /\ r.op.to \in Verifiers /\ r.op.method \in GateOnly)
    /\ given' = Artifact(r, WalletSeed(r.id, <<"near">>), "near_tx",
                         IF r.op.kind = "delete" THEN None ELSE r.op.to, TRUE)

BuiltIntent(r, view) ==
    /\ r.op.kind \in {"withdraw", "intents_transfer", "storage_deposit"}
    /\ r.op.kind = "storage_deposit" => StorageDepositLosesNothing(r.op, view)
    /\ given' = Artifact(r, WalletSeed(r.id, <<"near">>), "nep413", "intents.near", TRUE)

JwtChallenge(r) ==
    /\ r.op.kind = "jwt"
    /\ given' = Artifact(r, WalletSeed(r.id, <<"near">>), "nep413", "intents.near", FALSE)

AuthText(r) ==
    /\ r.op.kind = "auth"
    /\ given' = Artifact(r, WalletSeed(r.id, <<"near">>), "auth", None, FALSE)

SignBuilt(r, view) == NearTransaction(r) \/ BuiltIntent(r, view) \/ JwtChallenge(r) \/ AuthText(r)

\* sign_message never targets a verifier, whatever the owner listed; a stated policy
\* lists the recipients it allows.
MessageRecipient(stated, to) == to \notin Verifiers /\ (stated # None => to \in stated.recipients)

\* Raw bytes are signed for the two chains whose keys are ed25519.
RawChain(chain) == chain = <<"near">> \/ IsSolanaChain(chain)

\* The bytes or the message supplied are the ones whose hash the operation names.
SignHashPinned(r) ==
    /\ r.artifact # None /\ r.artifact.hash = r.op.hash
    /\ \/ /\ r.op.kind = "raw"
          /\ RawChain(r.op.chain)
          /\ given' = Artifact(r, WalletSeed(r.id, r.op.chain), "raw", None, TRUE)
       \/ /\ r.op.kind = "sign_message"
          /\ MessageRecipient(signing.stated, r.op.to)
          /\ given' = Artifact(r, WalletSeed(r.id, <<"near">>), "nep413", r.op.to, TRUE)

\* The artifact comes from outside and is bound to an intents verifier.
SignTrusted(r) ==
    /\ r.op.kind \in TrustedKinds
    /\ r.artifact # None /\ r.artifact.to \in Verifiers
    /\ given' = Artifact(r, WalletSeed(r.id, <<"near">>), "nep413", r.artifact.to, TRUE)

FinishSign(owned, view) ==
    LET r == signing.req
        policy == PolicyToJudgeBy(signing.stated)
    IN /\ signing # None /\ r.what = "sign"
       /\ Decision(policy, r.op) = "RequiresApproval" => VerifyApprovals(policy, r, owned)
       /\ SignBuilt(r, view) \/ SignHashPinned(r) \/ SignTrusted(r)
       /\ signing' = None
       /\ UNCHANGED exported

\* evm_sign_digest and solana_sign_bytes after the decision.
FinishChainSign ==
    LET r == signing.req
    IN /\ signing # None /\ r.what \in {"evm", "solana"}
       /\ given' = Artifact(r, IF r.what = "evm" THEN KeyFor(r.id, r.chain, r.path)
                               ELSE WalletSeed(r.id, r.chain), r.what, None, TRUE)
       /\ signing' = None
       /\ UNCHANGED exported

\* Any refusal after the policy was read: votes, an artifact, a read of the chain.
RefuseRequest ==
    /\ signing # None
    /\ signing' = None
    /\ UNCHANGED <<given, exported>>

SigningNext ==
    /\ \/ \E r \in Requests : BeginRequest(r) \/ CheckPolicy(r) \/ DeriveAddress(r) \/ DeriveEphemeralKey(r)
       \/ \E owned \in KeyTables, view \in DepositViews : FinishSign(owned, view)
       \/ FinishChainSign
       \/ RefuseRequest
    /\ UNCHANGED walletVars

SigningSpec ==
    /\ ProjectsInit /\ WalletInit /\ SigningInit
    /\ [][\/ SigningNext /\ UNCHANGED projectVars
          \/ WalletNext /\ UNCHANGED <<projectVars, signingVars>>
          \/ ProjectsNext /\ UNCHANGED <<walletVars, signingVars>>]_<<projectVars, walletVars, signingVars>>

-----------------------------------------------------------------------------
Signed == given # None /\ given.form \notin {"address", "key", "verdict"}

\* A wallet that its controller froze signs no request that came after, until the
\* controller thaws it or deletes the policy; editing the policy does not reopen it.
FreezeStopsSigning == Signed => ~given.stopped

\* What the other side takes the signature for, as the capabilities that may open it:
\* raw bytes of the NEAR key are any transaction, a call of a verifier and an intent
\* are what they are whoever wrote them, and a Solana transaction is one through whichever door its bytes came.
Opens(g) ==
    CASE g.form = "near_tx" /\ g.req.op.kind = "call" /\ g.to \in Verifiers -> {"intents_call", "raw_sign_near"}
      [] g.form = "raw" /\ g.seed[3] = "near" -> {"raw_sign_near"}
      [] g.form = "raw" /\ g.seed[3] # "near" -> {"raw_sign"}
      [] g.form = "nep413" /\ g.to \in Verifiers /\ g.moves /\ g.req.op.kind \notin BuiltKinds -> {"trusted"}
      [] g.form = "evm" -> {IF g.req.form = "transaction" THEN "evm_raw_tx" ELSE "evm_sign"}
      [] g.form = "solana" -> {IF g.req.bytes = "transaction" THEN "solana_raw_tx" ELSE "solana_sign"}
      [] OTHER -> {}

\* The approvers of p whose vote for this operation of this wallet came with the request,
\* by a key they may use.
Backing(p, r) ==
    {a \in p.approvers : \E v \in Range(r.bundle.approvals) \cup Range(r.bundle.contract_approvals) :
        /\ v.by = a /\ v.wallet = r.id[1] /\ v.op = r.op
        /\ a \in DOMAIN p.pins => v.key = p.pins[a]}

\* Whatever door a request took, the policy that was read opens what its signature can
\* be used for, a login reaches only the recipients the owner listed, and an operation
\* the policy asks approval for has the votes of as many of its approvers.
SignedWithinPolicy ==
    (Signed /\ given.stated # None) =>
      LET p == given.stated
          r == given.req
      IN /\ Opens(given) # {} => Opens(given) \cap p.may # {}
         /\ given.form = "nep413" /\ given.to \notin Verifiers => given.to \in p.recipients
         /\ (r.what = "sign" /\ r.op.kind \in p.asks) => Cardinality(Backing(p, r)) >= p.threshold

\* A key that was handed out is never one the wallet signs with or receives to, and the
\* key that signs is the one whose address the caller was shown.
KeysApart ==
    /\ Signed => given.seed \notin exported
    /\ given # None => (given.form = "address" => given.seed \notin exported)
    /\ Signed => (given.form = "evm" => given.seed = KeyFor(given.req.id, <<"evm">>, given.req.path))

\* What the keystore signs it signs as the wallet's owner allowed, with a key that never
\* left the keystore, through policies that change and freezes while requests are served.
SignsAsAllowed == SignedWithinPolicy /\ KeysApart
=============================================================================
