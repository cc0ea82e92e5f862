----------------------------- MODULE KeystoreDao -----------------------------
(***************************************************************************)
(* The keystore DAO (keystore-dao-contract/src/lib.rs): which keystore     *)
(* workers hold an access key on the contract's account.  A worker's       *)
(* attested registration opens a proposal, the members vote, and a key the *)
(* DAO let in leaves again by a vote on a revoke proposal.                 *)
(*                                                                         *)
(* Every method is one action; the owner and the init account appear only  *)
(* as the callers of theirs.  AddKey and DeleteKey are detached promises   *)
(* of the account to itself: they run later, those for one key in the      *)
(* order they were issued.  A call that panics changes nothing and is not  *)
(* a step.  The tallies a proposal keeps for display are left out.         *)
(***************************************************************************)
EXTENDS Integers, Sequences, FiniteSets, Functions, Maps

CONSTANTS
    Members,         \* accounts that may be DAO members
    InitialMembers,  \* the list `new` is given, duplicates and all
    Keys,            \* public keys of keystore workers
    Quotes,          \* external: TDX quotes that verify, as read from the report
    Platforms,       \* FMSPCs of quotes and of collateral
    Measurements,    \* measurements of quotes, five registers as one value
    MaxCollaterals,  \* MAX_COLLATERALS
    MaxRevokeBatch,  \* MAX_REVOKE_BATCH
    MaxProposals     \* bound on the proposals ever opened

ASSUME DaoAssumption ==
    /\ IsFiniteSet(Members)
    /\ InitialMembers \in Seq(Members) /\ InitialMembers # <<>>
    /\ Quotes \subseteq [public_key: Keys, fmspc: Platforms, measurements: Measurements]
    /\ MaxCollaterals \in Nat /\ MaxRevokeBatch \in Nat /\ MaxProposals \in Nat

VARIABLES
    dao_members, approval_threshold,
    proposals, revoke_proposals, next_proposal_id,
    votes,                  \* <<proposal id, member>> -> approve
    approved_keystores,
    approved_measurements, collaterals,
    access_keys,            \* external: function-call keys on the account
    key_ops                 \* external: per key, the actions issued and not yet run

council == <<dao_members, approval_threshold>>
ballots == <<proposals, revoke_proposals, next_proposal_id, votes>>
attestation == <<approved_measurements, collaterals>>
keys == <<approved_keystores, access_keys, key_ops>>
daoVars == <<council, ballots, attestation, keys>>

Statuses == {"Pending", "Rejected", "Executed"}
Proposals == [public_key: Keys, measurements: Measurements, status: Statuses]
RevokeProposals == [public_keys: SUBSET Keys, status: Statuses]

\* More than half, of a list counted with its duplicates in `new` and of the
\* set of members afterwards.
Threshold(n) == (n \div 2) + 1

DaoInit ==
    /\ dao_members = Range(InitialMembers)
    /\ approval_threshold = Threshold(Len(InitialMembers))
    /\ proposals = EmptyMap /\ revoke_proposals = EmptyMap
    /\ next_proposal_id = 1
    /\ votes = EmptyMap
    /\ approved_keystores = {}
    /\ approved_measurements = {} /\ collaterals = <<>>
    /\ access_keys = {}
    /\ key_ops = [k \in Keys |-> <<>>]

-----------------------------------------------------------------------------
\* The owner's settings.

\* update_collateral: slots are filled without gaps and replaced one by one.
SlotFree(i) == i < MaxCollaterals /\ i <= Len(collaterals)

UpdateCollateral(fmspc, i) ==
    /\ SlotFree(i)
    /\ collaterals' = IF i < Len(collaterals) THEN [collaterals EXCEPT ![i + 1] = fmspc]
                                              ELSE Append(collaterals, fmspc)
    /\ UNCHANGED <<council, ballots, approved_measurements, keys>>

AddApprovedMeasurements(m, clear_others) ==
    /\ approved_measurements' = (IF clear_others THEN {} ELSE approved_measurements) \cup {m}
    /\ UNCHANGED <<council, ballots, collaterals, keys>>

ClearAllApprovedMeasurements ==
    /\ approved_measurements' = {}
    /\ UNCHANGED <<council, ballots, collaterals, keys>>

RemoveApprovedMeasurements(m) ==
    /\ approved_measurements' = approved_measurements \ {m}
    /\ UNCHANGED <<council, ballots, collaterals, keys>>

AddDaoMember(m) ==
    /\ dao_members' = dao_members \cup {m}
    /\ approval_threshold' = Threshold(Cardinality(dao_members'))
    /\ UNCHANGED <<ballots, attestation, keys>>

ThresholdWithout(m) == Threshold(Cardinality(dao_members \ {m}))

RemoveDaoMember(m) ==
    /\ Cardinality(dao_members) > 1
    /\ dao_members' = dao_members \ {m}
    /\ approval_threshold' = ThresholdWithout(m)
    /\ UNCHANGED <<ballots, attestation, keys>>

-----------------------------------------------------------------------------
\* Ballots.

\* submit_keystore_registration: the quote verifies against the collateral of
\* its platform, its measurements are approved now, and it carries the key.
SubmitKeystoreRegistration(quote) ==
    /\ next_proposal_id <= MaxProposals
    /\ quote.public_key \notin approved_keystores
    /\ quote.fmspc \in Range(collaterals)
    /\ quote.measurements \in approved_measurements
    /\ proposals' = Put(proposals, next_proposal_id,
                        [public_key |-> quote.public_key,
                         measurements |-> quote.measurements, status |-> "Pending"])
    /\ next_proposal_id' = next_proposal_id + 1
    /\ UNCHANGED <<council, revoke_proposals, votes, attestation, keys>>

\* The votes of current members: a removed member's stay on record and do not
\* count.
EverCast(cast, id, approve) ==
    {m \in Members : <<id, m>> \in DOMAIN cast /\ cast[<<id, m>>] = approve}
Live(cast, id, approve) ==
    {m \in dao_members : <<id, m>> \in DOMAIN cast /\ cast[<<id, m>>] = approve}

\* What a proposal's votes decide, and the subtraction that must not overflow.
Carries(cast, id) == Cardinality(Live(cast, id, TRUE)) >= approval_threshold
Fails(cast, id) ==
    Cardinality(Live(cast, id, FALSE)) > Cardinality(dao_members) - approval_threshold
Decision(cast, id) == IF Carries(cast, id) THEN "Executed"
                      ELSE IF Fails(cast, id) THEN "Rejected" ELSE "Pending"
Decidable(cast, id) == Carries(cast, id) \/ Cardinality(dao_members) >= approval_threshold

MayVote(m, id, status) ==
    /\ m \in dao_members
    /\ status = "Pending"
    /\ <<id, m>> \notin DOMAIN votes

\* internal_execute_proposal: the key is approved and its AddKey issued.
IssueAdd(k) == [key_ops EXCEPT ![k] = Append(@, "add")]

\* vote, on a registration.
Vote(m, id, approve) ==
    /\ id \in DOMAIN proposals \ DOMAIN revoke_proposals
    /\ MayVote(m, id, proposals[id].status)
    /\ votes' = Put(votes, <<id, m>>, approve)
    /\ Decidable(votes', id)
    /\ proposals' = [proposals EXCEPT ![id].status = Decision(votes', id)]
    /\ IF Decision(votes', id) = "Executed"
       THEN /\ approved_keystores' = approved_keystores \cup {proposals[id].public_key}
            /\ key_ops' = IssueAdd(proposals[id].public_key)
       ELSE UNCHANGED <<approved_keystores, key_ops>>
    /\ UNCHANGED <<council, revoke_proposals, next_proposal_id, attestation, access_keys>>

\* internal_execute_revoke: keys that are gone by now are skipped.
DeleteForgotten(public_keys) == key_ops
IssueDelete(public_keys) ==
    [k \in Keys |-> IF k \in public_keys \cap approved_keystores
                    THEN Append(key_ops[k], "delete") ELSE key_ops[k]]

\* internal_vote_revoke, on a proposal just opened or opened before.
CastRevoke(m, id, public_keys, status, approve) ==
    /\ MayVote(m, id, status)
    /\ votes' = Put(votes, <<id, m>>, approve)
    /\ Decidable(votes', id)
    /\ revoke_proposals' = Put(revoke_proposals, id,
                               [public_keys |-> public_keys, status |-> Decision(votes', id)])
    /\ IF Decision(votes', id) = "Executed"
       THEN /\ approved_keystores' = approved_keystores \ public_keys
            /\ key_ops' = IssueDelete(public_keys)
       ELSE UNCHANGED <<approved_keystores, key_ops>>
    /\ UNCHANGED <<council, proposals, attestation, access_keys>>

ProposeRevokeKeystoreKeys(m, public_keys) ==
    /\ next_proposal_id <= MaxProposals
    /\ public_keys # {} /\ Cardinality(public_keys) <= MaxRevokeBatch
    /\ public_keys \subseteq approved_keystores
    /\ next_proposal_id' = next_proposal_id + 1
    /\ CastRevoke(m, next_proposal_id, public_keys, "Pending", TRUE)

VoteRevoke(m, id, approve) ==
    /\ id \in DOMAIN revoke_proposals
    /\ CastRevoke(m, id, revoke_proposals[id].public_keys, revoke_proposals[id].status, approve)
    /\ UNCHANGED next_proposal_id

-----------------------------------------------------------------------------
\* The chain runs the oldest action on key k; an AddKey of a key that is there
\* and a DeleteKey of one that is not fail, and leave the key as it was.
RunKeyOp(k) ==
    /\ key_ops[k] # <<>>
    /\ access_keys' = IF Head(key_ops[k]) = "add" THEN access_keys \cup {k}
                                                  ELSE access_keys \ {k}
    /\ key_ops' = [key_ops EXCEPT ![k] = Tail(@)]
    /\ UNCHANGED <<council, ballots, attestation, approved_keystores>>

OwnerStep ==
    \/ \E fmspc \in Platforms, i \in 0..MaxCollaterals : UpdateCollateral(fmspc, i)
    \/ \E m \in Measurements : \/ \E clear \in BOOLEAN : AddApprovedMeasurements(m, clear)
                               \/ RemoveApprovedMeasurements(m)
    \/ ClearAllApprovedMeasurements
    \/ \E m \in Members : AddDaoMember(m) \/ RemoveDaoMember(m)

BallotStep ==
    \/ \E quote \in Quotes : SubmitKeystoreRegistration(quote)
    \/ \E m \in Members, approve \in BOOLEAN :
         \/ \E id \in DOMAIN proposals : Vote(m, id, approve)
         \/ \E id \in DOMAIN revoke_proposals : VoteRevoke(m, id, approve)
    \/ \E m \in Members, ks \in SUBSET approved_keystores : ProposeRevokeKeystoreKeys(m, ks)

DaoNext == OwnerStep \/ BallotStep \/ (\E k \in Keys : RunKeyOp(k))

DaoSpec == DaoInit /\ [][DaoNext]_daoVars

-----------------------------------------------------------------------------
\* Every variable has the type of the field it models.
DaoTypeOK ==
    /\ dao_members \subseteq Members /\ dao_members # {}
    /\ approval_threshold \in Nat
    /\ DOMAIN proposals \subseteq 1..(next_proposal_id - 1)
    /\ proposals \in [DOMAIN proposals -> Proposals]
    /\ DOMAIN revoke_proposals \subseteq 1..(next_proposal_id - 1)
    /\ revoke_proposals \in [DOMAIN revoke_proposals -> RevokeProposals]
    /\ next_proposal_id \in Nat \ {0}
    /\ DOMAIN votes \subseteq (DOMAIN proposals \cup DOMAIN revoke_proposals) \X Members
    /\ votes \in [DOMAIN votes -> BOOLEAN]
    /\ approved_keystores \subseteq Keys
    /\ approved_measurements \subseteq Measurements
    /\ collaterals \in Seq(Platforms) /\ Len(collaterals) <= MaxCollaterals
    /\ access_keys \subseteq Keys
    /\ key_ops \in [Keys -> Seq({"add", "delete"})]

\* A quorum is more than half of the members whatever the owner adds and
\* removes, and within reach of them when `new` was given a list without
\* duplicates (a member listed twice counts twice in the first threshold).
QuorumIsMajority ==
    /\ 2 * approval_threshold > Cardinality(dao_members)
    /\ Cardinality(Range(InitialMembers)) = Len(InitialMembers)
         => approval_threshold <= Cardinality(dao_members)

\* The operation issued last.
LastIssued(q) == q[Len(q)]

\* Key k is on the account once everything issued for it has run.
Installed(k) == IF key_ops[k] = <<>> THEN k \in access_keys ELSE LastIssued(key_ops[k]) = "add"

\* The account follows the DAO: when the chain has caught up, the keys on the
\* account are the approved keystores, through any overlap of registrations of
\* one key and revocations of it (internal_execute_proposal and
\* internal_execute_revoke issue what they record).
KeysFollowTheDao == approved_keystores = {k \in Keys : Installed(k)}

\* More than half of the members there are now approve proposal id.
Approvers(id) == {m \in dao_members : <<id, m>> \in DOMAIN votes' /\ votes'[<<id, m>>] = TRUE}
Majority(id) == 2 * Cardinality(Approvers(id)) > Cardinality(dao_members)

\* A key is let in by the vote of more than half of the current members on a
\* registration of that very key: votes of removed members, votes on other
\* proposals and votes cast twice bring nothing.
LetInByMajority ==
    \A k \in approved_keystores' \ approved_keystores :
       \E id \in DOMAIN proposals :
          /\ proposals[id].public_key = k
          /\ proposals[id].status = "Pending" /\ proposals'[id].status = "Executed"
          /\ Majority(id)

\* A key goes by the vote of more than half of the current members on a
\* proposal that names it and had not been decided.
StruckByMajority ==
    \A k \in approved_keystores \ approved_keystores' :
       \E id \in DOMAIN revoke_proposals' :
          /\ k \in revoke_proposals'[id].public_keys
          /\ revoke_proposals'[id].status = "Executed"
          /\ id \in DOMAIN revoke_proposals => revoke_proposals[id].status = "Pending"
          /\ Majority(id)

\* What is decided stays decided, what a proposal asks never changes, and a
\* vote once cast is never changed or cast again.
DecidedStays ==
    /\ \A id \in DOMAIN proposals :
          /\ proposals'[id].public_key = proposals[id].public_key
          /\ proposals[id].status # "Pending" => proposals'[id] = proposals[id]
    /\ \A id \in DOMAIN revoke_proposals :
          /\ revoke_proposals'[id].public_keys = revoke_proposals[id].public_keys
          /\ revoke_proposals[id].status # "Pending" => revoke_proposals'[id] = revoke_proposals[id]
    /\ \A v \in DOMAIN votes : v \in DOMAIN votes' /\ votes'[v] = votes[v]

\* Ballots decide, and nothing else does: keys come and go by majorities of the
\* members of that moment, and decisions and votes are final, through any
\* departures, re-admissions and overlapping proposals.
BallotsDecide == [][LetInByMajority /\ StruckByMajority /\ DecidedStays]_daoVars
=============================================================================
