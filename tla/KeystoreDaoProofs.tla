-------------------------- MODULE KeystoreDaoProofs --------------------------
(***************************************************************************)
(* Proofs about the keystore DAO, for any members, keys, quotes and any    *)
(* number of proposals: types, the quorum, and that keys come to the       *)
(* account and leave it by the vote of a majority of the current members;  *)
(* the votes on vault versions; and the keystore that enrols with the DAO. *)
(***************************************************************************)
EXTENDS VaultRegistry, KeystoreEnrolment, FiniteSetTheorems, TLAPS

\* The type invariant by the variables it is about.
CouncilType == dao_members \subseteq Members /\ dao_members # {} /\ approval_threshold \in Nat
IdsType ==
    /\ next_proposal_id \in Nat \ {0}
    /\ \A id \in DOMAIN proposals : id \in Nat \ {0} /\ id < next_proposal_id
    /\ \A id \in DOMAIN revoke_proposals : id \in Nat \ {0} /\ id < next_proposal_id
ProposalsType ==
    /\ proposals \in [DOMAIN proposals -> Proposals]
    /\ revoke_proposals \in [DOMAIN revoke_proposals -> RevokeProposals]
VotesType ==
    /\ DOMAIN votes \subseteq (DOMAIN proposals \cup DOMAIN revoke_proposals) \X Members
    /\ votes \in [DOMAIN votes -> BOOLEAN]
AttestationType ==
    /\ approved_measurements \subseteq Measurements
    /\ collaterals \in Seq(Platforms) /\ Len(collaterals) <= MaxCollaterals
KeysType ==
    /\ approved_keystores \subseteq Keys /\ access_keys \subseteq Keys
    /\ key_ops \in [Keys -> Seq({"add", "delete"})]

\* The parts make up the whole, in this state and in the next.
LEMMA TypeParts ==
    /\ DaoTypeOK <=> /\ CouncilType /\ IdsType /\ ProposalsType /\ VotesType
                     /\ AttestationType /\ KeysType
    /\ DaoTypeOK' <=> /\ CouncilType' /\ IdsType' /\ ProposalsType' /\ VotesType'
                      /\ AttestationType' /\ KeysType'
BY DEF DaoTypeOK, CouncilType, IdsType, ProposalsType, VotesType, AttestationType, KeysType

\* The inductive invariant.
Inv == DaoTypeOK /\ QuorumIsMajority /\ KeysFollowTheDao

\* A step that leaves a group of variables alone leaves their facts alone.
LEMMA Kept ==
    ASSUME Inv
    PROVE  /\ UNCHANGED council => CouncilType' /\ QuorumIsMajority'
           /\ UNCHANGED ballots => IdsType' /\ ProposalsType' /\ VotesType'
           /\ UNCHANGED attestation => AttestationType'
           /\ UNCHANGED keys => KeysType' /\ KeysFollowTheDao'
<1>1. UNCHANGED council => CouncilType' /\ QuorumIsMajority'
    BY TypeParts, Zenon DEF Inv, council, CouncilType, QuorumIsMajority
<1>2. UNCHANGED ballots => IdsType' /\ ProposalsType' /\ VotesType'
    BY TypeParts, Zenon DEF Inv, ballots, IdsType, ProposalsType, VotesType
<1>3. UNCHANGED attestation => AttestationType'
    BY TypeParts, Zenon DEF Inv, attestation, AttestationType
<1>4. UNCHANGED keys => KeysType' /\ KeysFollowTheDao'
    BY TypeParts, Zenon DEF Inv, keys, KeysType, KeysFollowTheDao, Installed
<1>5. QED BY <1>1, <1>2, <1>3, <1>4, Zenon

\* A threshold over n members is a majority of n, and within n.
LEMMA ThresholdFacts ==
    ASSUME NEW n \in Nat
    PROVE  Threshold(n) \in Nat /\ 2 * Threshold(n) > n /\ (n > 0 => Threshold(n) <= n)
BY DEF Threshold

\* The members are finitely many.
LEMMA FiniteCouncil ==
    ASSUME NEW S \in SUBSET Members
    PROVE  IsFiniteSet(S) /\ Cardinality(S) \in Nat /\ (S # {} => Cardinality(S) > 0)
<1>1. IsFiniteSet(S) BY DaoAssumption, FS_Subset, Zenon
<1>2. QED BY <1>1, FS_CardinalityType, FS_EmptySet

\* The list given to `new` has at least as many entries as members.
LEMMA ListedMembers ==
    /\ Range(InitialMembers) \subseteq Members /\ Range(InitialMembers) # {}
    /\ Len(InitialMembers) \in Nat
    /\ Cardinality(Range(InitialMembers)) <= Len(InitialMembers)
<1> DEFINE n == Len(InitialMembers)
           S == Range(InitialMembers)
<1>1. n \in Nat /\ n > 0 /\ InitialMembers \in [1..n -> Members] BY DaoAssumption
<1>2. S \subseteq Members /\ S # {} BY <1>1 DEF Range
<1>3. InitialMembers \in Surjection(1..n, S) BY <1>1, Zenon DEF Range, Surjection
<1>4. ExistsSurjection(1..n, S) BY <1>3, Zenon DEF ExistsSurjection
<1>5. Cardinality(S) <= n BY <1>1, <1>4, FS_SurjCardinalityBound, Zenon
<1>6. QED BY <1>1, <1>2, <1>5, Zenon

\* A DAO just deployed satisfies the invariant.
LEMMA InitInv == ASSUME DaoInit PROVE Inv
<1>1. CouncilType BY ListedMembers, ThresholdFacts, Zenon DEF DaoInit, CouncilType
<1>2. IdsType /\ ProposalsType /\ VotesType
    BY DEF DaoInit, EmptyMap, IdsType, ProposalsType, VotesType
<1>3. AttestationType BY DaoAssumption DEF DaoInit, AttestationType
<1>4. KeysType BY DEF DaoInit, KeysType
<1>5. QuorumIsMajority
    <2>1. Cardinality(Range(InitialMembers)) \in Nat /\ Cardinality(Range(InitialMembers)) > 0
        BY ListedMembers, FiniteCouncil, Zenon
    <2>2. /\ 2 * Threshold(Len(InitialMembers)) > Len(InitialMembers)
          /\ Len(InitialMembers) > 0 => Threshold(Len(InitialMembers)) <= Len(InitialMembers)
          /\ Threshold(Len(InitialMembers)) \in Nat
        BY ListedMembers, ThresholdFacts, Zenon
    <2>3. dao_members = Range(InitialMembers) /\ approval_threshold = Threshold(Len(InitialMembers))
        BY Zenon DEF DaoInit
    <2>4. QED BY <2>1, <2>2, <2>3, ListedMembers DEF QuorumIsMajority
<1>6. KeysFollowTheDao BY Zenon DEF DaoInit, KeysFollowTheDao, Installed
<1>7. QED BY <1>1, <1>2, <1>3, <1>4, <1>5, <1>6, TypeParts, Zenon DEF Inv

-----------------------------------------------------------------------------
\* The owner's settings.

\* A change of members that leaves one recomputes the threshold for the rest.
LEMMA CouncilChange ==
    ASSUME Inv, dao_members' \subseteq Members, dao_members' # {},
           approval_threshold' = Threshold(Cardinality(dao_members')),
           UNCHANGED <<ballots, attestation, keys>>
    PROVE  Inv'
<1>1. Cardinality(dao_members') \in Nat /\ Cardinality(dao_members') > 0 BY FiniteCouncil, Zenon
<1>2. /\ approval_threshold' \in Nat
      /\ 2 * approval_threshold' > Cardinality(dao_members')
      /\ approval_threshold' <= Cardinality(dao_members')
    BY <1>1, ThresholdFacts, Zenon
<1>3. CouncilType' BY <1>2, Zenon DEF CouncilType
<1>4. QuorumIsMajority' BY <1>2, Zenon DEF QuorumIsMajority
<1>5. QED BY <1>3, <1>4, Kept, TypeParts, Zenon DEF Inv

\* Members, measurements and collateral change and the invariant stays.
LEMMA OwnerStepInv == ASSUME Inv, OwnerStep PROVE Inv'
<1>1. ASSUME NEW m \in Members, AddDaoMember(m) PROVE Inv'
    <2>1. dao_members' \subseteq Members /\ dao_members' # {}
        BY <1>1, TypeParts, Zenon DEF Inv, CouncilType, AddDaoMember
    <2>2. QED BY <1>1, <2>1, CouncilChange, Zenon DEF AddDaoMember
<1>2. ASSUME NEW m \in Members, RemoveDaoMember(m) PROVE Inv'
    <2>1. IsFiniteSet(dao_members) /\ Cardinality(dao_members) > 1
          /\ dao_members' = dao_members \ {m} /\ dao_members \subseteq Members
        BY <1>2, FiniteCouncil, TypeParts, Zenon DEF Inv, CouncilType, RemoveDaoMember
    <2>2. Cardinality(dao_members \ {m}) > 0
        <3>1. Cardinality(dao_members) \in Nat BY <2>1, FS_CardinalityType, Zenon
        <3>2. Cardinality(dao_members \ {m})
                = IF m \in dao_members THEN Cardinality(dao_members) - 1 ELSE Cardinality(dao_members)
            BY <2>1, FS_RemoveElement, Zenon
        <3>3. QED BY <2>1, <3>1, <3>2
    <2>3. dao_members' # {} BY <2>1, <2>2, FS_EmptySet
    <2>4. approval_threshold' = Threshold(Cardinality(dao_members'))
        BY <1>2, <2>1, Zenon DEF RemoveDaoMember, ThresholdWithout
    <2>5. UNCHANGED <<ballots, attestation, keys>> BY <1>2, Zenon DEF RemoveDaoMember
    <2>6. QED BY <2>1, <2>3, <2>4, <2>5, CouncilChange, Zenon
<1>3. ASSUME AttestationType', UNCHANGED <<council, ballots, keys>> PROVE Inv'
    BY <1>3, Kept, TypeParts, Zenon DEF Inv
<1>4. ASSUME NEW fmspc \in Platforms, NEW i \in 0..MaxCollaterals, UpdateCollateral(fmspc, i)
      PROVE  Inv'
    <2>1. i \in Nat /\ i < MaxCollaterals /\ i <= Len(collaterals)
          /\ collaterals \in Seq(Platforms) /\ Len(collaterals) <= MaxCollaterals
        BY <1>4, DaoAssumption, TypeParts DEF Inv, AttestationType, UpdateCollateral, SlotFree
    <2>2. collaterals' \in Seq(Platforms) /\ Len(collaterals') <= MaxCollaterals
        <3>1. CASE i < Len(collaterals)
            <4>1. collaterals' = [collaterals EXCEPT ![i + 1] = fmspc]
                BY <1>4, <3>1, Zenon DEF UpdateCollateral
            <4>2. DOMAIN collaterals' = 1..Len(collaterals) /\ Len(collaterals) \in Nat
                BY <2>1, <4>1
            <4>3. ASSUME NEW j \in 1..Len(collaterals) PROVE collaterals'[j] \in Platforms
                BY <2>1, <4>1
            <4>4. collaterals' \in [1..Len(collaterals) -> Platforms] BY <4>1, <4>2, <4>3, Zenon
            <4>5. QED BY <2>1, <4>2, <4>4
        <3>2. CASE ~(i < Len(collaterals))
            <4>1. collaterals' = Append(collaterals, fmspc) BY <1>4, <3>2, Zenon DEF UpdateCollateral
            <4>2. QED BY <2>1, <3>2, <4>1, DaoAssumption
        <3>3. QED BY <3>1, <3>2, Zenon
    <2>3. UNCHANGED <<council, ballots, approved_measurements, keys>>
        BY <1>4, Zenon DEF UpdateCollateral
    <2>4. QED BY <1>3, <2>2, <2>3, TypeParts, Zenon DEF Inv, AttestationType
<1>5. ASSUME NEW m \in Measurements, NEW clear \in BOOLEAN, AddApprovedMeasurements(m, clear)
      PROVE  Inv'
    BY <1>3, <1>5, TypeParts, Zenon DEF Inv, AttestationType, AddApprovedMeasurements
<1>6. ASSUME NEW m \in Measurements, RemoveApprovedMeasurements(m) PROVE Inv'
    BY <1>3, <1>6, TypeParts, Zenon DEF Inv, AttestationType, RemoveApprovedMeasurements
<1>7. CASE ClearAllApprovedMeasurements
    BY <1>3, <1>7, TypeParts, Zenon DEF Inv, AttestationType, ClearAllApprovedMeasurements
<1>8. QED BY <1>1, <1>2, <1>4, <1>5, <1>6, <1>7, Zenon DEF OwnerStep

-----------------------------------------------------------------------------
\* Ballots and the keys they move.

\* What is issued last for a key decides whether it ends up on the account.
LEMMA AppendOp ==
    ASSUME NEW q \in Seq({"add", "delete"}), NEW op \in {"add", "delete"}
    PROVE  /\ Append(q, op) \in Seq({"add", "delete"})
           /\ Append(q, op) # <<>> /\ LastIssued(Append(q, op)) = op
BY DEF LastIssued

\* Approving a key and issuing its AddKey keep account and record together.
LEMMA AddKeepsKeys ==
    ASSUME Inv, NEW k \in Keys, approved_keystores' = approved_keystores \cup {k},
           key_ops' = IssueAdd(k), access_keys' = access_keys
    PROVE  KeysType' /\ KeysFollowTheDao'
<1>1. KeysType BY TypeParts, Zenon DEF Inv
<1>2. key_ops' = [key_ops EXCEPT ![k] = Append(key_ops[k], "add")] BY Zenon DEF IssueAdd
<1>3. /\ Append(key_ops[k], "add") \in Seq({"add", "delete"})
      /\ Append(key_ops[k], "add") # <<>> /\ LastIssued(Append(key_ops[k], "add")) = "add"
    BY <1>1, AppendOp, Zenon DEF KeysType
<1>4. KeysType' BY <1>1, <1>2, <1>3, Zenon DEF KeysType
<1>5. key_ops'[k] = Append(key_ops[k], "add") BY <1>1, <1>2, Zenon DEF KeysType
<1>6. Installed(k)' BY <1>3, <1>5, Zenon DEF Installed
<1>7. ASSUME NEW j \in Keys, j # k PROVE Installed(j)' <=> Installed(j)
    BY <1>1, <1>2, <1>7, Zenon DEF Installed, KeysType
<1>8. QED BY <1>4, <1>6, <1>7, Zenon DEF Inv, KeysFollowTheDao

\* So do striking keys and issuing their DeleteKeys.
LEMMA DeleteKeepsKeys ==
    ASSUME Inv, NEW ks, approved_keystores' = approved_keystores \ ks,
           key_ops' = IssueDelete(ks), access_keys' = access_keys
    PROVE  KeysType' /\ KeysFollowTheDao'
<1>1. KeysType BY TypeParts, Zenon DEF Inv
<1>2. ASSUME NEW k \in Keys
      PROVE  /\ Append(key_ops[k], "delete") \in Seq({"add", "delete"})
             /\ Append(key_ops[k], "delete") # <<>> /\ LastIssued(Append(key_ops[k], "delete")) = "delete"
    BY <1>1, AppendOp, Zenon DEF KeysType
<1>3. KeysType' BY <1>1, <1>2, Zenon DEF KeysType, IssueDelete
<1>4. ASSUME NEW k \in Keys, k \in ks \cap approved_keystores PROVE ~Installed(k)'
    <2>1. key_ops'[k] = Append(key_ops[k], "delete") BY <1>4, Zenon DEF IssueDelete
    <2>2. QED BY <1>2, <2>1, Zenon DEF Installed
<1>5. ASSUME NEW k \in Keys, k \notin ks \cap approved_keystores
      PROVE  Installed(k)' <=> Installed(k)
    <2>1. key_ops'[k] = key_ops[k] BY <1>5, Zenon DEF IssueDelete
    <2>2. QED BY <2>1, Zenon DEF Installed
<1>6. QED BY <1>3, <1>4, <1>5, Zenon DEF Inv, KeysFollowTheDao

\* A vote is recorded once, for a proposal that exists.
LEMMA CastKeepsVotes ==
    ASSUME VotesType, NEW id, NEW m \in Members, NEW approve \in BOOLEAN,
           votes' = Put(votes, <<id, m>>, approve),
           id \in DOMAIN proposals' \cup DOMAIN revoke_proposals',
           DOMAIN proposals \subseteq DOMAIN proposals',
           DOMAIN revoke_proposals \subseteq DOMAIN revoke_proposals'
    PROVE  VotesType'
<1>1. votes' \in [DOMAIN votes' -> BOOLEAN] BY Zenon DEF VotesType, Put
<1>2. DOMAIN votes' = DOMAIN votes \cup {<<id, m>>} BY Zenon DEF Put
<1>3. QED BY <1>1, <1>2 DEF VotesType

\* A vote leaves a proposal in one of its statuses.
LEMMA DecisionType == ASSUME NEW cast, NEW id PROVE Decision(cast, id) \in Statuses
BY Zenon DEF Decision, Statuses

\* A registration waits for its votes.
LEMMA SubmitInv ==
    ASSUME Inv, NEW quote \in [public_key: Keys, fmspc: Platforms, measurements: Measurements],
           SubmitKeystoreRegistration(quote)
    PROVE  Inv'
<1> DEFINE p == [public_key |-> quote.public_key,
                 measurements |-> quote.measurements, status |-> "Pending"]
<1>1. /\ proposals' = Put(proposals, next_proposal_id, p)
      /\ next_proposal_id' = next_proposal_id + 1
      /\ UNCHANGED <<council, revoke_proposals, votes, attestation, keys>>
    BY Zenon DEF SubmitKeystoreRegistration
<1>2. p \in Proposals BY Zenon DEF Proposals, Statuses
<1> HIDE DEF p
<1>3. IdsType /\ ProposalsType /\ VotesType BY TypeParts, Zenon DEF Inv
<1>4. DOMAIN proposals' = DOMAIN proposals \cup {next_proposal_id} BY <1>1, Zenon DEF Put
<1>5. IdsType' BY <1>1, <1>3, <1>4 DEF IdsType
<1>6. ProposalsType' BY <1>1, <1>2, <1>3, Zenon DEF ProposalsType, Put
<1>7. VotesType' BY <1>1, <1>3, <1>4, Zenon DEF VotesType
<1>8. QED BY <1>1, <1>5, <1>6, <1>7, Kept, TypeParts, Zenon DEF Inv

\* A vote on a registration.
LEMMA VoteInv ==
    ASSUME Inv, NEW m \in Members, NEW id \in DOMAIN proposals, NEW approve \in BOOLEAN,
           Vote(m, id, approve)
    PROVE  Inv'
<1> DEFINE k == proposals[id].public_key
           st == Decision(votes', id)
<1>1. /\ votes' = Put(votes, <<id, m>>, approve)
      /\ proposals' = [proposals EXCEPT ![id].status = st]
      /\ UNCHANGED <<council, revoke_proposals, next_proposal_id, attestation, access_keys>>
    BY Zenon DEF Vote
<1>2. IdsType /\ ProposalsType /\ VotesType BY TypeParts, Zenon DEF Inv
<1>3. k \in Keys BY <1>2, Zenon DEF ProposalsType, Proposals
<1>4. KeysType' /\ KeysFollowTheDao'
    <2>1. CASE st = "Executed"
        <3>1. approved_keystores' = approved_keystores \cup {k} /\ key_ops' = IssueAdd(k)
            BY <2>1, Zenon DEF Vote
        <3>2. QED BY <1>1, <1>3, <3>1, AddKeepsKeys, Zenon
    <2>2. CASE st # "Executed"
        <3>1. UNCHANGED keys BY <1>1, <2>2, Zenon DEF Vote, keys
        <3>2. QED BY <3>1, Kept, Zenon
    <2>3. QED BY <2>1, <2>2, Zenon
<1>5. st \in Statuses BY DecisionType, Zenon
<1> HIDE DEF st, k
<1>6. ProposalsType' /\ DOMAIN proposals' = DOMAIN proposals
    BY <1>1, <1>2, <1>5, Zenon DEF ProposalsType, Proposals
<1>7. IdsType' BY <1>1, <1>2, <1>6, Zenon DEF IdsType
<1>8. VotesType' BY <1>1, <1>2, <1>6, CastKeepsVotes, Zenon
<1>9. QED BY <1>1, <1>4, <1>6, <1>7, <1>8, Kept, TypeParts, Zenon DEF Inv

\* A vote on a revocation, the proposer's own included.
LEMMA CastRevokeInv ==
    ASSUME Inv, NEW m \in Members, NEW id \in Nat \ {0}, NEW ks \in SUBSET Keys, NEW status,
           NEW approve \in BOOLEAN, CastRevoke(m, id, ks, status, approve),
           next_proposal_id' \in Nat, next_proposal_id <= next_proposal_id',
           id < next_proposal_id'
    PROVE  Inv'
<1> DEFINE st == Decision(votes', id)
           r == [public_keys |-> ks, status |-> st]
<1>1. /\ votes' = Put(votes, <<id, m>>, approve)
      /\ revoke_proposals' = Put(revoke_proposals, id, r)
      /\ UNCHANGED <<council, proposals, attestation, access_keys>>
    BY Zenon DEF CastRevoke
<1>2. IdsType /\ ProposalsType /\ VotesType BY TypeParts, Zenon DEF Inv
<1>3. KeysType' /\ KeysFollowTheDao'
    <2>1. CASE st = "Executed"
        <3>1. approved_keystores' = approved_keystores \ ks /\ key_ops' = IssueDelete(ks)
            BY <2>1, Zenon DEF CastRevoke
        <3>2. QED BY <1>1, <3>1, DeleteKeepsKeys, Zenon
    <2>2. CASE st # "Executed"
        <3>1. UNCHANGED keys BY <1>1, <2>2, Zenon DEF CastRevoke, keys
        <3>2. QED BY <3>1, Kept, Zenon
    <2>3. QED BY <2>1, <2>2, Zenon
<1>4. r \in RevokeProposals BY DecisionType, Zenon DEF RevokeProposals
<1> HIDE DEF r
<1>5. DOMAIN revoke_proposals' = DOMAIN revoke_proposals \cup {id} BY <1>1, Zenon DEF Put
<1>6. ProposalsType' BY <1>1, <1>2, <1>4, Zenon DEF ProposalsType, Put
<1>7. IdsType' BY <1>1, <1>2, <1>5 DEF IdsType
<1>8. VotesType' BY <1>1, <1>2, <1>5, CastKeepsVotes, Zenon
<1>9. QED BY <1>1, <1>3, <1>6, <1>7, <1>8, Kept, TypeParts, Zenon DEF Inv

\* Every ballot step keeps the invariant.
LEMMA BallotStepInv == ASSUME Inv, BallotStep PROVE Inv'
<1>1. IdsType /\ ProposalsType /\ KeysType BY TypeParts, Zenon DEF Inv
<1>2. ASSUME NEW m \in Members, NEW ks \in SUBSET approved_keystores,
             ProposeRevokeKeystoreKeys(m, ks)
      PROVE  Inv'
    <2>1. CastRevoke(m, next_proposal_id, ks, "Pending", TRUE)
          /\ next_proposal_id' = next_proposal_id + 1
        BY <1>2, Zenon DEF ProposeRevokeKeystoreKeys
    <2>2. /\ next_proposal_id \in Nat \ {0} /\ next_proposal_id' \in Nat
          /\ next_proposal_id <= next_proposal_id' /\ next_proposal_id < next_proposal_id'
        BY <1>1, <2>1 DEF IdsType
    <2>3. ks \in SUBSET Keys BY <1>1, Zenon DEF KeysType
    <2>4. QED BY <2>1, <2>2, <2>3, CastRevokeInv, Zenon
<1>3. ASSUME NEW m \in Members, NEW approve \in BOOLEAN, NEW id \in DOMAIN revoke_proposals,
             VoteRevoke(m, id, approve)
      PROVE  Inv'
    <2> DEFINE r == revoke_proposals[id]
    <2>1. CastRevoke(m, id, r.public_keys, r.status, approve)
          /\ next_proposal_id' = next_proposal_id
        BY <1>3, Zenon DEF VoteRevoke
    <2>2. r.public_keys \in SUBSET Keys BY <1>1, Zenon DEF ProposalsType, RevokeProposals
    <2>3. /\ id \in Nat \ {0} /\ next_proposal_id' \in Nat
          /\ next_proposal_id <= next_proposal_id' /\ id < next_proposal_id'
        BY <1>1, <2>1 DEF IdsType
    <2>4. QED BY <2>1, <2>2, <2>3, CastRevokeInv, Zenon
<1>4. QED BY <1>2, <1>3, SubmitInv, VoteInv, DaoAssumption, Zenon DEF BallotStep

\* Taking the oldest action off a queue leaves its last one, unless it was the
\* only one.
LEMMA TailOp ==
    ASSUME NEW q \in Seq({"add", "delete"}), q # <<>>
    PROVE  IF Tail(q) = <<>> THEN Head(q) = LastIssued(q) ELSE LastIssued(Tail(q)) = LastIssued(q)
<1>1. Len(q) \in Nat /\ Len(q) > 0 /\ Len(Tail(q)) = Len(q) - 1 BY SMT
<1>2. CASE Tail(q) = <<>>
    <2>1. Len(q) = 1 BY <1>1, <1>2
    <2>2. QED BY <1>2, <2>1 DEF LastIssued
<1>3. CASE Tail(q) # <<>>
    <2>1. Tail(q) \in Seq({"add", "delete"}) OBVIOUS
    <2>2. Len(q) > 1 BY <1>1, <1>3, <2>1
    <2>3. Tail(q)[Len(q) - 1] = q[Len(q)] BY <1>1, <2>2
    <2>4. QED BY <1>1, <1>3, <2>3, Zenon DEF LastIssued
<1>4. QED BY <1>2, <1>3, Zenon

\* The chain running an action does not change where a key ends up.
LEMMA RunKeyOpInv == ASSUME Inv, NEW k \in Keys, RunKeyOp(k) PROVE Inv'
<1> DEFINE q == key_ops[k]
<1>1. /\ q # <<>>
      /\ access_keys' = IF Head(q) = "add" THEN access_keys \cup {k} ELSE access_keys \ {k}
      /\ key_ops' = [key_ops EXCEPT ![k] = Tail(q)]
      /\ UNCHANGED <<council, ballots, attestation, approved_keystores>>
    BY Zenon DEF RunKeyOp
<1>2. KeysType BY TypeParts, Zenon DEF Inv
<1>3. q \in Seq({"add", "delete"}) BY <1>2, Zenon DEF KeysType
<1>4. Tail(q) \in Seq({"add", "delete"}) BY <1>1, <1>3
<1>5. KeysType' BY <1>1, <1>2, <1>4, Zenon DEF KeysType
<1>6. key_ops'[k] = Tail(q) BY <1>1, <1>2, Zenon DEF KeysType
<1>7. Installed(k)' <=> Installed(k)
    <2>1. Installed(k) <=> LastIssued(q) = "add" BY <1>1, Zenon DEF Installed
    <2>2. CASE Tail(q) = <<>>
        <3>1. Head(q) = LastIssued(q) BY ONLY <1>1, <1>3, <2>2, TailOp, Zenon
        <3>2. Installed(k)' <=> k \in access_keys' BY <1>6, <2>2, Zenon DEF Installed
        <3>3. QED BY <1>1, <2>1, <3>1, <3>2, Zenon
    <2>3. CASE Tail(q) # <<>>
        <3>1. LastIssued(Tail(q)) = LastIssued(q) BY ONLY <1>1, <1>3, <2>3, TailOp, Zenon
        <3>2. QED BY <1>6, <2>1, <2>3, <3>1, Zenon DEF Installed
    <2>4. QED BY <2>2, <2>3, Zenon
<1> HIDE DEF q
<1>8. ASSUME NEW j \in Keys, j # k PROVE Installed(j)' <=> Installed(j)
    <2>1. key_ops'[j] = key_ops[j] BY <1>1, <1>2, <1>8, Zenon DEF KeysType
    <2>2. j \in access_keys' <=> j \in access_keys BY <1>1, <1>8, Zenon
    <2>3. QED BY <2>1, <2>2, Zenon DEF Installed
<1>9. KeysFollowTheDao' BY <1>1, <1>7, <1>8, Zenon DEF Inv, KeysFollowTheDao
<1>10. QED BY <1>1, <1>5, <1>9, Kept, TypeParts, Zenon DEF Inv

\* Every step of the DAO keeps the invariant.
LEMMA DaoStepInv == ASSUME Inv, [DaoNext]_daoVars PROVE Inv'
<1>1. CASE UNCHANGED daoVars
    <2>1. UNCHANGED council /\ UNCHANGED ballots /\ UNCHANGED attestation /\ UNCHANGED keys
        BY <1>1, Zenon DEF daoVars
    <2>2. QED BY <2>1, Kept, TypeParts, Zenon DEF Inv
<1>2. QED BY <1>1, OwnerStepInv, BallotStepInv, RunKeyOpInv, Zenon DEF DaoNext

\* The invariant holds in every reachable state.
THEOREM DaoInvAlways == DaoSpec => []Inv
BY DaoStepInv, InitInv, PTL DEF DaoSpec

\* Every field of the DAO keeps its type, whatever the members vote on.
THEOREM DaoTypeCorrect == DaoSpec => []DaoTypeOK
BY DaoInvAlways, PTL DEF Inv

\* The quorum is a majority of the members however the owner changes them.
THEOREM QuorumAlwaysMajority == DaoSpec => []QuorumIsMajority
BY DaoInvAlways, PTL DEF Inv

\* The keys on the account follow the DAO's record of approved keystores.
THEOREM KeysAlwaysFollowTheDao == DaoSpec => []KeysFollowTheDao
BY DaoInvAlways, PTL DEF Inv

-----------------------------------------------------------------------------
\* Who decides.

\* A proposal carries only with a majority of the members there are now.
LEMMA CarriesIsMajority ==
    ASSUME Inv, NEW id, Decision(votes', id) = "Executed"
    PROVE  Majority(id)
<1> DEFINE S == Approvers(id)
<1>1. Cardinality(S) >= approval_threshold BY Zenon DEF Decision, Carries, Live, Approvers
<1>2. S \subseteq dao_members BY Zenon DEF Approvers
<1>3. CouncilType /\ QuorumIsMajority BY TypeParts, Zenon DEF Inv
<1>4. dao_members \in SUBSET Members /\ S \in SUBSET Members BY <1>2, <1>3, Zenon DEF CouncilType
<1>5. Cardinality(S) \in Nat /\ Cardinality(dao_members) \in Nat BY <1>4, FiniteCouncil, Zenon
<1> HIDE DEF S
<1>6. approval_threshold \in Nat /\ 2 * approval_threshold > Cardinality(dao_members)
    BY <1>3, Zenon DEF CouncilType, QuorumIsMajority
<1>7. 2 * Cardinality(S) > Cardinality(dao_members) BY <1>1, <1>5, <1>6
<1>8. QED BY <1>7, Zenon DEF Majority, S

\* What the owner and the chain do leaves ballots and record alone.
LEMMA QuietSteps ==
    ASSUME OwnerStep \/ (\E k \in Keys : RunKeyOp(k)) \/ UNCHANGED daoVars
    PROVE  UNCHANGED <<approved_keystores, proposals, revoke_proposals, votes>>
<1>1. ASSUME OwnerStep PROVE UNCHANGED ballots /\ UNCHANGED keys
    <2>1. ASSUME NEW fmspc, NEW i, UpdateCollateral(fmspc, i)
          PROVE  UNCHANGED ballots /\ UNCHANGED keys
        BY ONLY <2>1, Zenon DEF UpdateCollateral
    <2>2. ASSUME NEW mm, NEW clear, AddApprovedMeasurements(mm, clear)
          PROVE  UNCHANGED ballots /\ UNCHANGED keys
        BY ONLY <2>2, Zenon DEF AddApprovedMeasurements
    <2>3. ASSUME NEW mm, RemoveApprovedMeasurements(mm) PROVE UNCHANGED ballots /\ UNCHANGED keys
        BY ONLY <2>3, Zenon DEF RemoveApprovedMeasurements
    <2>4. ASSUME ClearAllApprovedMeasurements PROVE UNCHANGED ballots /\ UNCHANGED keys
        BY ONLY <2>4, Zenon DEF ClearAllApprovedMeasurements
    <2>5. ASSUME NEW m, AddDaoMember(m) PROVE UNCHANGED ballots /\ UNCHANGED keys
        BY ONLY <2>5, Zenon DEF AddDaoMember
    <2>6. ASSUME NEW m, RemoveDaoMember(m) PROVE UNCHANGED ballots /\ UNCHANGED keys
        BY ONLY <2>6, Zenon DEF RemoveDaoMember
    <2>7. QED BY ONLY <1>1, <2>1, <2>2, <2>3, <2>4, <2>5, <2>6, Zenon DEF OwnerStep
<1>2. ASSUME NEW k \in Keys, RunKeyOp(k)
      PROVE  UNCHANGED <<approved_keystores, proposals, revoke_proposals, votes>>
    BY <1>2, Zenon DEF RunKeyOp, ballots
<1>3. CASE UNCHANGED daoVars BY <1>3, Zenon DEF daoVars, keys, ballots
<1>4. QED BY <1>1, <1>2, <1>3, Zenon DEF keys, ballots

\* A registration moves no key and decides nothing.
LEMMA SubmitDecidesNothing ==
    ASSUME Inv, NEW quote, SubmitKeystoreRegistration(quote)
    PROVE  /\ approved_keystores' = approved_keystores
           /\ LetInByMajority /\ StruckByMajority /\ DecidedStays
<1>1. IdsType BY TypeParts, Zenon DEF Inv
<1>2. \A id \in DOMAIN proposals : proposals'[id] = proposals[id]
    BY <1>1 DEF SubmitKeystoreRegistration, IdsType, Put
<1>3. UNCHANGED <<approved_keystores, revoke_proposals, votes>>
    BY Zenon DEF SubmitKeystoreRegistration, keys
<1>4. QED BY <1>2, <1>3, Zenon DEF LetInByMajority, StruckByMajority, DecidedStays

\* A vote on a registration lets in no key but the one it is about, and only
\* with a majority.
LEMMA VoteDecides ==
    ASSUME Inv, NEW m \in Members, NEW id \in DOMAIN proposals, NEW approve \in BOOLEAN,
           Vote(m, id, approve)
    PROVE  LetInByMajority /\ StruckByMajority /\ DecidedStays
<1> DEFINE st == Decision(votes', id)
<1>1. /\ proposals[id].status = "Pending" /\ <<id, m>> \notin DOMAIN votes
      /\ votes' = Put(votes, <<id, m>>, approve)
      /\ proposals' = [proposals EXCEPT ![id].status = st]
      /\ revoke_proposals' = revoke_proposals
      /\ \/ st # "Executed" /\ approved_keystores' = approved_keystores
         \/ /\ st = "Executed"
            /\ approved_keystores' = approved_keystores \cup {proposals[id].public_key}
    BY Zenon DEF Vote, MayVote
<1>2. st = "Executed" => Majority(id) BY CarriesIsMajority, Zenon
<1>3. ProposalsType BY TypeParts, Zenon DEF Inv
<1>4. proposals'[id].status = st BY <1>1, <1>3, Zenon DEF ProposalsType, Proposals
<1> HIDE DEF st
<1>5. LetInByMajority BY <1>1, <1>2, <1>4, Zenon DEF LetInByMajority
<1>6. StruckByMajority BY <1>1, Zenon DEF StruckByMajority
<1>7. \A v \in DOMAIN votes : v \in DOMAIN votes' /\ votes'[v] = votes[v] BY <1>1, Zenon DEF Put
<1>8. \A i \in DOMAIN proposals :
         /\ proposals'[i].public_key = proposals[i].public_key
         /\ proposals[i].status # "Pending" => proposals'[i] = proposals[i]
    BY <1>1, <1>3, Zenon DEF ProposalsType, Proposals
<1>9. QED BY <1>1, <1>5, <1>6, <1>7, <1>8, Zenon DEF DecidedStays

\* A vote on a revocation strikes no key but those it names, and only with a
\* majority.
LEMMA CastRevokeDecides ==
    ASSUME Inv, NEW m \in Members, NEW id, NEW ks, NEW status, NEW approve \in BOOLEAN,
           CastRevoke(m, id, ks, status, approve),
           id \in DOMAIN revoke_proposals =>
              revoke_proposals[id].status = status /\ revoke_proposals[id].public_keys = ks
    PROVE  LetInByMajority /\ StruckByMajority /\ DecidedStays
<1> DEFINE st == Decision(votes', id)
           r == [public_keys |-> ks, status |-> st]
<1>1. /\ status = "Pending" /\ <<id, m>> \notin DOMAIN votes
      /\ votes' = Put(votes, <<id, m>>, approve)
      /\ revoke_proposals' = Put(revoke_proposals, id, r)
      /\ proposals' = proposals
      /\ \/ st # "Executed" /\ approved_keystores' = approved_keystores
         \/ st = "Executed" /\ approved_keystores' = approved_keystores \ ks
    BY Zenon DEF CastRevoke, MayVote
<1>2. st = "Executed" => Majority(id) BY CarriesIsMajority, Zenon
<1>3. r.public_keys = ks /\ r.status = st BY Zenon
<1> HIDE DEF st, r
<1>4. /\ id \in DOMAIN revoke_proposals' /\ revoke_proposals'[id] = r
      /\ \A i \in DOMAIN revoke_proposals : i # id => revoke_proposals'[i] = revoke_proposals[i]
    BY <1>1, Zenon DEF Put
<1>5. LetInByMajority BY <1>1, Zenon DEF LetInByMajority
<1>6. StruckByMajority
    <2>1. SUFFICES ASSUME NEW k \in approved_keystores \ approved_keystores'
                   PROVE  /\ k \in revoke_proposals'[id].public_keys
                          /\ revoke_proposals'[id].status = "Executed"
                          /\ Majority(id)
        BY <1>1, <1>4, Zenon DEF StruckByMajority
    <2>2. QED BY <1>1, <1>2, <1>3, <1>4, Zenon
<1>7. \A v \in DOMAIN votes : v \in DOMAIN votes' /\ votes'[v] = votes[v] BY <1>1, Zenon DEF Put
<1>8. \A i \in DOMAIN revoke_proposals :
         /\ revoke_proposals'[i].public_keys = revoke_proposals[i].public_keys
         /\ revoke_proposals[i].status # "Pending" => revoke_proposals'[i] = revoke_proposals[i]
    BY <1>1, <1>3, <1>4, Zenon
<1>9. QED BY <1>1, <1>5, <1>6, <1>7, <1>8, Zenon DEF DecidedStays

\* Every step decides by majority, and for good.
LEMMA StepsDecide ==
    ASSUME Inv, [DaoNext]_daoVars
    PROVE  LetInByMajority /\ StruckByMajority /\ DecidedStays
<1>1. CASE OwnerStep \/ (\E k \in Keys : RunKeyOp(k)) \/ UNCHANGED daoVars
    <2>1. UNCHANGED <<approved_keystores, proposals, revoke_proposals, votes>>
        BY <1>1, QuietSteps, Zenon
    <2>2. QED BY <2>1, Zenon DEF LetInByMajority, StruckByMajority, DecidedStays
<1>2. ASSUME NEW m \in Members, NEW ks \in SUBSET approved_keystores,
             ProposeRevokeKeystoreKeys(m, ks)
      PROVE  LetInByMajority /\ StruckByMajority /\ DecidedStays
    <2>1. IdsType BY TypeParts, Zenon DEF Inv
    <2>2. next_proposal_id \notin DOMAIN revoke_proposals BY <2>1 DEF IdsType
    <2>3. CastRevoke(m, next_proposal_id, ks, "Pending", TRUE)
        BY <1>2, Zenon DEF ProposeRevokeKeystoreKeys
    <2>4. QED BY <2>2, <2>3, CastRevokeDecides, Zenon
<1>3. ASSUME NEW m \in Members, NEW approve \in BOOLEAN, NEW id \in DOMAIN revoke_proposals,
             VoteRevoke(m, id, approve)
      PROVE  LetInByMajority /\ StruckByMajority /\ DecidedStays
    BY <1>3, CastRevokeDecides, Zenon DEF VoteRevoke
<1>4. QED BY <1>1, <1>2, <1>3, SubmitDecidesNothing, VoteDecides, Zenon DEF DaoNext, BallotStep

\* Keys are let in and struck out only by majorities of the current members,
\* and decisions, and the votes they rest on, are final.
THEOREM BallotsAlwaysDecide == DaoSpec => BallotsDecide
BY DaoInvAlways, StepsDecide, PTL DEF DaoSpec, BallotsDecide

-----------------------------------------------------------------------------
\* The votes on vault versions.

\* Whoever's approval of a hash is on record passed, in their last call for it,
\* the metadata that the first of them locked.
VotesAsAsked ==
    \A hash \in Hashes : <<"Approve", hash>> \in DOMAIN vault_version_votes =>
       /\ hash \in DOMAIN vault_version_approval_args
       /\ \A m \in vault_version_votes[<<"Approve", hash>>] :
             <<hash, m>> \in DOMAIN asked /\ asked[<<hash, m>>] = vault_version_approval_args[hash]
VersionsType ==
    /\ DOMAIN vault_versions \subseteq Hashes
    /\ vault_versions \in [DOMAIN vault_versions -> [args: ArgsSet, deprecated: BOOLEAN]]
RegistryInv == Inv /\ VersionsType /\ VotesAsAsked

\* Votes that reach the quorum are those of a majority of the current members.
LEMMA QuorumIsCouncil ==
    ASSUME Inv, NEW action, NEW m \in dao_members, Quorum(action, m),
           NEW S, Voters(action, m) \subseteq S
    PROVE  MajorityOf(S)
<1> DEFINE V == Voters(action, m)
           T == S \cap dao_members
<1>1. V \subseteq T BY Zenon DEF Voters
<1>2. CouncilType /\ QuorumIsMajority BY TypeParts, Zenon DEF Inv
<1>3. T \in SUBSET Members /\ dao_members \in SUBSET Members BY <1>2, Zenon DEF CouncilType
<1>4. IsFiniteSet(T) /\ Cardinality(T) \in Nat /\ Cardinality(dao_members) \in Nat
    BY <1>3, FiniteCouncil, Zenon
<1>5. Cardinality(V) <= Cardinality(T) /\ Cardinality(V) \in Nat BY <1>1, <1>4, FS_Subset, FS_CardinalityType, Zenon
<1>6. Cardinality(V) >= approval_threshold BY Zenon DEF Quorum
<1>7. approval_threshold \in Nat /\ 2 * approval_threshold > Cardinality(dao_members)
    BY <1>2, Zenon DEF CouncilType, QuorumIsMajority
<1> HIDE DEF V, T
<1>8. 2 * Cardinality(T) > Cardinality(dao_members) BY <1>4, <1>5, <1>6, <1>7
<1>9. QED BY <1>8, Zenon DEF MajorityOf, T

\* An approval: the metadata it passes is that of every vote on record with it.
LEMMA ApproveKeeps ==
    ASSUME RegistryInv, NEW m \in Members, NEW hash \in Hashes, NEW args \in ArgsSet,
           ApproveVaultVersion(m, hash, args)
    PROVE  VersionsType' /\ VotesAsAsked' /\ ApprovedAsAsked /\ RevokedByMajority
<1> DEFINE action == <<"Approve", hash>>
           V == Voters(action, m)
           row == [args |-> args, deprecated |-> FALSE]
<1>1. /\ m \in dao_members /\ ArgsMatch(hash, args) /\ asked' = Put(asked, <<hash, m>>, args)
      /\ \/ /\ Quorum(action, m)
            /\ vault_version_votes' = Drop(vault_version_votes, action)
            /\ vault_version_approval_args' = Drop(vault_version_approval_args, hash)
            /\ approved_vault_code_hashes' = approved_vault_code_hashes \cup {hash}
            /\ vault_versions' = Put(vault_versions, hash, row)
         \/ /\ vault_version_votes' = Put(vault_version_votes, action, V)
            /\ vault_version_approval_args' = Put(vault_version_approval_args, hash, args)
            /\ UNCHANGED <<approved_vault_code_hashes, vault_versions>>
    BY Zenon DEF ApproveVaultVersion
<1>2. row \in [args: ArgsSet, deprecated: BOOLEAN] /\ row.args = args BY Zenon
<1>3. VersionsType /\ VotesAsAsked BY Zenon DEF RegistryInv
<1>4. /\ <<hash, m>> \in DOMAIN asked' /\ asked'[<<hash, m>>] = args
      /\ \A p \in DOMAIN asked : p # <<hash, m>> => p \in DOMAIN asked' /\ asked'[p] = asked[p]
    BY <1>1, Zenon DEF Put
<1>5. ASSUME NEW v \in V PROVE <<hash, v>> \in DOMAIN asked' /\ asked'[<<hash, v>>] = args
    <2>1. CASE v = m BY <2>1, <1>4, Zenon
    <2>2. CASE v # m
        <3>1. action \in DOMAIN vault_version_votes /\ v \in vault_version_votes[action]
            BY <2>2, Zenon DEF Voters, GetOr
        <3>2. /\ hash \in DOMAIN vault_version_approval_args
              /\ <<hash, v>> \in DOMAIN asked /\ asked[<<hash, v>>] = vault_version_approval_args[hash]
            BY <3>1, <1>3, Zenon DEF VotesAsAsked
        <3>3. vault_version_approval_args[hash] = args BY <3>2, <1>1, Zenon DEF ArgsMatch, GetOr
        <3>4. <<hash, v>> # <<hash, m>> BY <2>2, Zenon
        <3> QED BY <3>2, <3>3, <3>4, <1>4, Zenon
    <2> QED BY <2>1, <2>2, Zenon
<1>6. ASSUME NEW h \in Hashes, h # hash, <<"Approve", h>> \in DOMAIN vault_version_votes'
      PROVE  /\ h \in DOMAIN vault_version_approval_args'
             /\ \A v \in vault_version_votes'[<<"Approve", h>>] :
                   <<h, v>> \in DOMAIN asked' /\ asked'[<<h, v>>] = vault_version_approval_args'[h]
    <2>1. <<"Approve", h>> # action /\ \A v : <<h, v>> # <<hash, m>> BY <1>6, Zenon
    <2> HIDE DEF action
    <2>2. /\ <<"Approve", h>> \in DOMAIN vault_version_votes
          /\ vault_version_votes'[<<"Approve", h>>] = vault_version_votes[<<"Approve", h>>]
        BY <1>1, <1>6, <2>1, Zenon DEF Put, Drop
    <2>3. /\ h \in DOMAIN vault_version_approval_args
          /\ \A v \in vault_version_votes[<<"Approve", h>>] :
                <<h, v>> \in DOMAIN asked /\ asked[<<h, v>>] = vault_version_approval_args[h]
        BY <1>3, <2>2, Zenon DEF VotesAsAsked
    <2>4. h \in DOMAIN vault_version_approval_args' /\ vault_version_approval_args'[h] = vault_version_approval_args[h]
        BY <1>1, <1>6, <2>3, Zenon DEF Put, Drop
    <2> QED BY <1>4, <2>1, <2>2, <2>3, <2>4, Zenon
<1>7. ASSUME action \in DOMAIN vault_version_votes'
      PROVE  /\ hash \in DOMAIN vault_version_approval_args'
             /\ \A v \in vault_version_votes'[action] :
                   <<hash, v>> \in DOMAIN asked' /\ asked'[<<hash, v>>] = vault_version_approval_args'[hash]
    <2> HIDE DEF action
    <2>1. /\ vault_version_votes'[action] = V
          /\ hash \in DOMAIN vault_version_approval_args' /\ vault_version_approval_args'[hash] = args
        BY <1>1, <1>7, Zenon DEF Put, Drop
    <2> QED BY <1>5, <2>1, Zenon
<1>8. VotesAsAsked' BY <1>6, <1>7, Zenon DEF VotesAsAsked
<1>9. RevokedByMajority BY <1>1, Zenon DEF RevokedByMajority
<1> HIDE DEF row
<1>10. VersionsType' BY <1>1, <1>2, <1>3, Zenon DEF VersionsType, Put
<1>11. ApprovedAsAsked
    <2>1. CASE UNCHANGED vault_versions BY <2>1, Zenon DEF ApprovedAsAsked
    <2>2. CASE Quorum(action, m) /\ vault_versions' = Put(vault_versions, hash, row)
        <3>1. vault_versions'[hash] = row BY <2>2, Zenon DEF Put
        <3>2. \A h \in DOMAIN vault_versions' : h # hash => h \in DOMAIN vault_versions /\ vault_versions'[h] = vault_versions[h]
            BY <2>2, Zenon DEF Put
        <3> DEFINE S == {v \in VotedFor(action, m) :
                            <<hash, v>> \in DOMAIN asked' /\ asked'[<<hash, v>>] = vault_versions'[hash].args}
        <3>3. V \subseteq VotedFor(action, m) BY Zenon DEF Voters, VotedFor
        <3>4. V \subseteq S BY <1>2, <1>5, <3>1, <3>3, Zenon
        <3>5. MajorityOf(S) BY <1>1, <2>2, <3>4, QuorumIsCouncil, Zenon DEF RegistryInv
        <3> QED BY <1>1, <3>2, <3>5, Zenon DEF ApprovedAsAsked
    <2> QED BY <1>1, <2>1, <2>2, Zenon
<1> QED BY <1>8, <1>9, <1>10, <1>11, Zenon

\* A step that leaves the list of versions and its votes alone.
LEMMA VersionsKept ==
    ASSUME RegistryInv, UNCHANGED versions
    PROVE  VersionsType' /\ VotesAsAsked' /\ ApprovedAsAsked /\ RevokedByMajority
<1>1. UNCHANGED <<approved_vault_code_hashes, vault_versions, vault_version_votes,
                  vault_version_approval_args, asked>>
    BY Zenon DEF versions
<1> QED BY <1>1, Zenon DEF RegistryInv, VersionsType, VotesAsAsked, ApprovedAsAsked, RevokedByMajority

\* A deprecation changes no metadata.
LEMMA DeprecateKeeps ==
    ASSUME RegistryInv, NEW m, NEW hash, DeprecateVaultVersion(m, hash)
    PROVE  VersionsType' /\ VotesAsAsked' /\ ApprovedAsAsked /\ RevokedByMajority
<1>1. /\ UNCHANGED <<approved_vault_code_hashes, vault_version_votes, vault_version_approval_args, asked>>
      /\ vault_versions' = [vault_versions EXCEPT ![hash].deprecated = TRUE]
    BY Zenon DEF DeprecateVaultVersion
<1>2. VersionsType BY Zenon DEF RegistryInv
<1>3. /\ VersionsType' /\ DOMAIN vault_versions' = DOMAIN vault_versions
      /\ \A h \in DOMAIN vault_versions : vault_versions'[h].args = vault_versions[h].args
    BY <1>1, <1>2, Zenon DEF VersionsType
<1> QED BY <1>1, <1>3, Zenon DEF RegistryInv, VotesAsAsked, ApprovedAsAsked, RevokedByMajority

\* A revocation strikes its own hash, and only with a majority.
LEMMA RevokeKeeps ==
    ASSUME RegistryInv, NEW m \in Members, NEW hash \in Hashes, RevokeVaultVersion(m, hash)
    PROVE  VersionsType' /\ VotesAsAsked' /\ ApprovedAsAsked /\ RevokedByMajority
<1> DEFINE action == <<"Revoke", hash>>
<1>1. /\ m \in dao_members /\ UNCHANGED <<vault_version_approval_args, asked>>
      /\ \/ /\ Quorum(action, m)
            /\ vault_version_votes' = Drop(vault_version_votes, action)
            /\ approved_vault_code_hashes' = approved_vault_code_hashes \ {hash}
            /\ vault_versions' = Drop(vault_versions, hash)
         \/ /\ vault_version_votes' = Put(vault_version_votes, action, Voters(action, m))
            /\ UNCHANGED <<approved_vault_code_hashes, vault_versions>>
    BY Zenon DEF RevokeVaultVersion, MetadataWithout
<1>2. VersionsType /\ VotesAsAsked BY Zenon DEF RegistryInv
<1>3. VersionsType' /\ ApprovedAsAsked
    BY <1>1, <1>2, Zenon DEF VersionsType, ApprovedAsAsked, Drop
<1>4. \A h : <<"Approve", h>> # action BY Zenon
<1>5. VotesAsAsked'
    <2> HIDE DEF action
    <2>1. ASSUME NEW h, <<"Approve", h>> \in DOMAIN vault_version_votes'
          PROVE  /\ <<"Approve", h>> \in DOMAIN vault_version_votes
                 /\ vault_version_votes'[<<"Approve", h>>] = vault_version_votes[<<"Approve", h>>]
        BY <1>1, <1>4, <2>1, Zenon DEF Put, Drop
    <2> QED BY <1>1, <1>2, <2>1, Zenon DEF VotesAsAsked
<1>6. RevokedByMajority
    <2>1. Voters(action, m) \subseteq VotedFor(action, m) BY Zenon DEF Voters, VotedFor
    <2>2. Quorum(action, m) => MajorityOf(VotedFor(action, m))
        BY <1>1, <2>1, QuorumIsCouncil, Zenon DEF RegistryInv
    <2> QED BY <1>1, <2>2, Zenon DEF RevokedByMajority
<1> QED BY <1>3, <1>5, <1>6, Zenon

\* Every step of the registry and of the DAO beside it.
LEMMA RegistryStepKeeps ==
    ASSUME RegistryInv, [Next]_vars
    PROVE  RegistryInv' /\ ApprovedAsAsked /\ RevokedByMajority
<1>1. [DaoNext]_daoVars BY Zenon DEF Next, vars
<1>2. Inv' BY <1>1, DaoStepInv, Zenon DEF RegistryInv
<1>3. VersionsType' /\ VotesAsAsked' /\ ApprovedAsAsked /\ RevokedByMajority
    <2>1. CASE UNCHANGED registryVars
        <3>1. UNCHANGED versions BY <2>1, Zenon DEF registryVars
        <3> QED BY <3>1, VersionsKept, Zenon
    <2>2. ASSUME NEW m \in Members,
                 \/ DeclareCessation(m) \/ RevokeCessation(m) \/ \E v \in Vaults : UnbanVault(m, v)
          PROVE  UNCHANGED versions
        BY <2>2, Zenon DEF DeclareCessation, RevokeCessation, UnbanVault
    <2>3. ASSUME NEW v \in Vaults, BanVault(v) \/ \E k \in Keys : MarkVaultVerified(k, v)
          PROVE  UNCHANGED versions
        BY <2>3, Zenon DEF BanVault, MarkVaultVerified
    <2>4. CASE RegistryStep
        BY <2>2, <2>3, <2>4, VersionsKept, ApproveKeeps, DeprecateKeeps, RevokeKeeps, Zenon DEF RegistryStep
    <2> QED BY <2>1, <2>4, Zenon DEF Next, vars
<1> QED BY <1>2, <1>3, Zenon DEF RegistryInv

\* The votes on record for a version are of members who asked for what is locked.
THEOREM RegistryInvAlways == Spec => []RegistryInv
<1>1. Init => RegistryInv
    BY InitInv, Zenon DEF Init, RegistryInv, VersionsType, VotesAsAsked, EmptyMap
<1> QED BY <1>1, RegistryStepKeeps, PTL DEF Spec

\* The list of vault versions (vote_approve_vault_version, vote_revoke_vault_version)
\* changes only as majorities of the council of that moment asked, each of whom passed
\* the very metadata that is recorded.
THEOREM VersionsAlwaysDecided == Spec => VersionsDecided
BY RegistryInvAlways, RegistryStepKeeps, PTL DEF Spec, VersionsDecided

-----------------------------------------------------------------------------
\* The enrolment of a keystore.

\* The DAO let key k in on a registration; a key that is approved, on the account or
\* about to be there was let in; and registrations of this instance's keys are of its image.
LetIn(k) ==
    \E id \in DOMAIN proposals : proposals[id].public_key = k /\ proposals[id].status = "Executed"
OnItsWay(k) == \E i \in DOMAIN key_ops[k] : key_ops[k][i] = "add"
KeysLetIn ==
    \A k \in Keys : k \in access_keys \/ k \in approved_keystores \/ OnItsWay(k) => LetIn(k)
OwnRegistrations ==
    \A id \in DOMAIN proposals :
       proposals[id].public_key \in Range(Booted) => proposals[id].measurements = Image.measurements
DaoFacts == Inv /\ KeysLetIn /\ OwnRegistrations

\* A registration opens a proposal and changes no other.
LEMMA SubmitFacts ==
    ASSUME DaoFacts, NEW quote \in [public_key: Keys, fmspc: Platforms, measurements: Measurements],
           quote.public_key \in Range(Booted) => quote.measurements = Image.measurements,
           SubmitKeystoreRegistration(quote)
    PROVE  DaoFacts' /\ \A k : LetIn(k) => LetIn(k)'
<1> DEFINE p == [public_key |-> quote.public_key,
                 measurements |-> quote.measurements, status |-> "Pending"]
<1>1. Inv' BY SubmitInv, Zenon DEF DaoFacts
<1>2. proposals' = Put(proposals, next_proposal_id, p) /\ UNCHANGED keys
    BY Zenon DEF SubmitKeystoreRegistration
<1>3. IdsType BY TypeParts, Zenon DEF DaoFacts, Inv
<1>4. next_proposal_id \notin DOMAIN proposals BY <1>3 DEF IdsType
<1>5. p.public_key = quote.public_key /\ p.measurements = quote.measurements BY Zenon
<1> HIDE DEF p
<1>6. /\ DOMAIN proposals' = DOMAIN proposals \cup {next_proposal_id} /\ proposals'[next_proposal_id] = p
      /\ \A id \in DOMAIN proposals : proposals'[id] = proposals[id]
    BY <1>2, <1>4, Zenon DEF Put
<1>7. \A k : LetIn(k) => LetIn(k)' BY <1>6, Zenon DEF LetIn
<1>8. KeysLetIn' BY <1>2, <1>7, Zenon DEF DaoFacts, KeysLetIn, OnItsWay, keys
<1>9. OwnRegistrations' BY <1>5, <1>6, Zenon DEF DaoFacts, OwnRegistrations
<1> QED BY <1>1, <1>7, <1>8, <1>9, Zenon DEF DaoFacts

\* A step that leaves the proposals as they are, and brings no key nearer.
LEMMA NoKeyComes ==
    ASSUME DaoFacts, Inv', proposals' = proposals,
           \A k \in Keys : (k \in access_keys \/ k \in approved_keystores \/ OnItsWay(k))'
                             => k \in access_keys \/ k \in approved_keystores \/ OnItsWay(k)
    PROVE  DaoFacts' /\ \A k : LetIn(k) => LetIn(k)'
<1>1. \A k : LetIn(k)' <=> LetIn(k) BY Zenon DEF LetIn
<1>2. KeysLetIn' BY <1>1, Zenon DEF DaoFacts, KeysLetIn
<1>3. OwnRegistrations' BY Zenon DEF DaoFacts, OwnRegistrations
<1> QED BY <1>1, <1>2, <1>3, Zenon DEF DaoFacts

\* The vote that carries a registration lets its key in.
LEMMA VoteFacts ==
    ASSUME DaoFacts, NEW m \in Members, NEW id \in DOMAIN proposals, NEW approve \in BOOLEAN,
           Vote(m, id, approve)
    PROVE  DaoFacts' /\ \A k : LetIn(k) => LetIn(k)'
<1> DEFINE st == Decision(votes', id)
           key == proposals[id].public_key
<1>1. Inv' BY VoteInv, Zenon DEF DaoFacts
<1>2. /\ proposals[id].status = "Pending" /\ access_keys' = access_keys
      /\ proposals' = [proposals EXCEPT ![id].status = st]
      /\ \/ UNCHANGED <<approved_keystores, key_ops>>
         \/ /\ st = "Executed"
            /\ approved_keystores' = approved_keystores \cup {key} /\ key_ops' = IssueAdd(key)
    BY Zenon DEF Vote, MayVote
<1>3. ProposalsType /\ KeysType BY TypeParts, Zenon DEF DaoFacts, Inv
<1>4. /\ DOMAIN proposals' = DOMAIN proposals /\ proposals'[id].status = st
      /\ \A i \in DOMAIN proposals :
            /\ proposals'[i].public_key = proposals[i].public_key
            /\ proposals'[i].measurements = proposals[i].measurements
            /\ i # id => proposals'[i].status = proposals[i].status
    BY <1>2, <1>3, Zenon DEF ProposalsType, Proposals
<1> HIDE DEF st
<1>5. \A k : LetIn(k) => LetIn(k)' BY <1>2, <1>4, Zenon DEF LetIn
<1>6. OwnRegistrations' BY <1>4, Zenon DEF DaoFacts, OwnRegistrations
<1>7. KeysLetIn'
    <2>1. CASE UNCHANGED <<approved_keystores, key_ops>>
        BY <1>2, <1>5, <2>1, Zenon DEF DaoFacts, KeysLetIn, OnItsWay
    <2>2. CASE st = "Executed" /\ approved_keystores' = approved_keystores \cup {key} /\ key_ops' = IssueAdd(key)
        <3>1. \A k : k = key => LetIn(k)' BY <1>4, <2>2, Zenon DEF LetIn
        <3>2. ASSUME NEW k \in Keys, k # key PROVE key_ops'[k] = key_ops[k]
            BY <1>3, <2>2, <3>2, Zenon DEF IssueAdd, KeysType
        <3>3. ASSUME NEW k \in Keys, k # key, (k \in access_keys \/ k \in approved_keystores \/ OnItsWay(k))'
              PROVE  LetIn(k)'
            <4>1. OnItsWay(k)' => OnItsWay(k) BY <3>2, <3>3, Zenon DEF OnItsWay
            <4> QED BY <1>2, <1>5, <2>2, <3>3, <4>1, Zenon DEF DaoFacts, KeysLetIn
        <3> QED BY <3>1, <3>3, Zenon DEF KeysLetIn
    <2> QED BY <1>2, <2>1, <2>2, Zenon
<1> QED BY <1>1, <1>5, <1>6, <1>7, Zenon DEF DaoFacts

\* A revocation only takes keys away.
LEMMA RevokeFacts ==
    ASSUME DaoFacts, Inv', NEW m, NEW id, NEW ks, NEW status, NEW approve,
           CastRevoke(m, id, ks, status, approve)
    PROVE  DaoFacts' /\ \A k : LetIn(k) => LetIn(k)'
<1>1. /\ UNCHANGED <<proposals, access_keys>>
      /\ \/ UNCHANGED <<approved_keystores, key_ops>>
         \/ approved_keystores' = approved_keystores \ ks /\ key_ops' = IssueDelete(ks)
    BY Zenon DEF CastRevoke
<1>2. KeysType BY TypeParts, Zenon DEF DaoFacts, Inv
<1>3. ASSUME NEW k \in Keys, OnItsWay(k)' PROVE OnItsWay(k)
    <2>1. CASE key_ops'[k] = key_ops[k] BY <1>3, <2>1, Zenon DEF OnItsWay
    <2>2. CASE key_ops'[k] = Append(key_ops[k], "delete")
        <3>1. key_ops[k] \in Seq({"add", "delete"}) BY <1>2, Zenon DEF KeysType
        <3>2. PICK i \in DOMAIN key_ops'[k] : key_ops'[k][i] = "add" BY <1>3, Zenon DEF OnItsWay
        <3>3. i \in DOMAIN key_ops[k] /\ key_ops[k][i] = "add" BY <2>2, <3>1, <3>2
        <3> QED BY <3>3, Zenon DEF OnItsWay
    <2>3. key_ops'[k] = key_ops[k] \/ key_ops'[k] = Append(key_ops[k], "delete")
        BY <1>1, Zenon DEF IssueDelete
    <2> QED BY <2>1, <2>2, <2>3, Zenon
<1> QED BY <1>1, <1>3, NoKeyComes, Zenon

\* The chain runs an AddKey that was issued, or a DeleteKey.
LEMMA RunFacts ==
    ASSUME DaoFacts, NEW key \in Keys, RunKeyOp(key)
    PROVE  DaoFacts' /\ \A k : LetIn(k) => LetIn(k)'
<1> DEFINE q == key_ops[key]
<1>1. Inv' BY RunKeyOpInv, Zenon DEF DaoFacts
<1>2. /\ q # <<>> /\ key_ops' = [key_ops EXCEPT ![key] = Tail(q)]
      /\ access_keys' = IF Head(q) = "add" THEN access_keys \cup {key} ELSE access_keys \ {key}
      /\ UNCHANGED <<proposals, approved_keystores>>
    BY Zenon DEF RunKeyOp, ballots
<1>3. KeysType BY TypeParts, Zenon DEF DaoFacts, Inv
<1>4. q \in Seq({"add", "delete"}) BY <1>3, Zenon DEF KeysType
<1>5. key_ops'[key] = Tail(q) /\ \A k \in Keys : k # key => key_ops'[k] = key_ops[k]
    BY <1>2, <1>3, Zenon DEF KeysType
<1>6. ASSUME NEW k \in Keys, OnItsWay(k)' PROVE OnItsWay(k)
    <2>1. CASE k # key BY <1>5, <1>6, <2>1, Zenon DEF OnItsWay
    <2>2. CASE k = key
        <3>1. PICK i \in DOMAIN Tail(q) : Tail(q)[i] = "add" BY <1>5, <1>6, <2>2, Zenon DEF OnItsWay
        <3>2. i + 1 \in DOMAIN q /\ q[i + 1] = "add" BY <1>2, <1>4, <3>1
        <3> QED BY <2>2, <3>2, Zenon DEF OnItsWay
    <2> QED BY <2>1, <2>2, Zenon
<1>7. Head(q) = "add" => OnItsWay(key)
    <2>1. 1 \in DOMAIN q /\ Head(q) = q[1] BY <1>2, <1>4
    <2> QED BY <2>1, Zenon DEF OnItsWay
<1> HIDE DEF q
<1>8. ASSUME NEW k \in Keys PROVE k \in access_keys' => k \in access_keys \/ OnItsWay(k)
    <2>1. CASE k = key BY <1>2, <1>7, <2>1, Zenon
    <2>2. CASE k # key BY <1>2, <2>2, Zenon
    <2> QED BY <2>1, <2>2, Zenon
<1> QED BY <1>1, <1>2, <1>6, <1>8, NoKeyComes, Zenon

\* What every step of the DAO keeps, and that it forgets no key it let in.
LEMMA DaoStepFacts ==
    ASSUME DaoFacts, [DaoNext]_daoVars
    PROVE  DaoFacts' /\ \A k : LetIn(k) => LetIn(k)'
<1>1. Inv' BY DaoStepInv, Zenon DEF DaoFacts
<1>2. CASE UNCHANGED daoVars \/ OwnerStep
    <2>1. UNCHANGED keys /\ UNCHANGED ballots
        <3>1. CASE UNCHANGED daoVars BY <3>1, Zenon DEF daoVars
        <3>2. CASE OwnerStep
            BY <3>2, Zenon DEF OwnerStep, UpdateCollateral, AddApprovedMeasurements, RemoveApprovedMeasurements,
                               ClearAllApprovedMeasurements, AddDaoMember, RemoveDaoMember
        <3> QED BY <1>2, <3>1, <3>2, Zenon
    <2>2. UNCHANGED <<proposals, access_keys, approved_keystores, key_ops>> BY <2>1, Zenon DEF keys, ballots
    <2>3. \A k : OnItsWay(k)' <=> OnItsWay(k) BY <2>2, Zenon DEF OnItsWay
    <2> QED BY <1>1, <2>2, <2>3, NoKeyComes, Zenon
<1>3. ASSUME NEW quote \in Quotes, SubmitKeystoreRegistration(quote)
      PROVE  DaoFacts' /\ \A k : LetIn(k) => LetIn(k)'
    BY <1>3, SubmitFacts, DaoAssumption, EnrolmentAssumption, Zenon
<1>4. ASSUME NEW m, NEW id, NEW ks, NEW status, NEW approve, CastRevoke(m, id, ks, status, approve)
      PROVE  DaoFacts' /\ \A k : LetIn(k) => LetIn(k)'
    BY <1>1, <1>4, RevokeFacts, Zenon
<1>5. CASE BallotStep
    BY <1>3, <1>4, <1>5, VoteFacts, Zenon DEF BallotStep, VoteRevoke, ProposeRevokeKeystoreKeys
<1> QED BY <1>2, <1>5, RunFacts, Zenon DEF DaoNext

\* Where a start is before it has submitted; the starts and their keys; that each start
\* submits once; and what a keystore that serves has.
BeforeSubmitted == {"asks", "checks_key", "quotes", "submits"}
EnrolType ==
    /\ boot \in 0..Len(Booted) /\ key_file \in 0..boot /\ is_tee_mode \in BOOLEAN
    /\ step # "off" => boot # 0 /\ (is_tee_mode \/ key_file # 0)
SubmittedOnce ==
    /\ submitted \in Seq([boot: Nat, key: Keys])
    /\ \A i \in DOMAIN submitted :
          submitted[i].boot <= boot /\ (step \in BeforeSubmitted => submitted[i].boot # boot)
    /\ \A i, j \in DOMAIN submitted : submitted[i].boot = submitted[j].boot => i = j
ServesLetIn == IF step = "serves" THEN master = Master /\ LetIn(public_key) ELSE master = NoMaster
EnrolInv == DaoFacts /\ EnrolType /\ SubmittedOnce /\ ServesLetIn

\* The key of a start is one of the instance's own.
LEMMA OwnKey ==
    ASSUME EnrolType, step # "off"
    PROVE  public_key \in Keys /\ public_key \in Range(Booted)
<1> DEFINE n == IF is_tee_mode THEN boot ELSE key_file
<1>1. n \in DOMAIN Booted BY EnrolmentAssumption DEF EnrolType
<1>2. public_key = Booted[n] BY Zenon DEF public_key
<1> HIDE DEF n
<1> QED BY <1>1, <1>2, EnrolmentAssumption DEF Range

\* A step that leaves the DAO alone, submits nothing and does not come to serve.
LEMMA OnTheWay ==
    ASSUME EnrolInv, UNCHANGED <<boot, is_tee_mode, key_file, master, submitted, daoVars>>,
           step \notin {"off", "serves"}, step' \notin {"off", "serves"},
           step' \in BeforeSubmitted => step \in BeforeSubmitted
    PROVE  EnrolInv'
<1>1. DaoFacts' BY DaoStepFacts, Zenon DEF EnrolInv
<1>2. EnrolType' BY Zenon DEF EnrolInv, EnrolType
<1>3. SubmittedOnce' BY Zenon DEF EnrolInv, SubmittedOnce
<1>4. ServesLetIn' BY Zenon DEF EnrolInv, ServesLetIn
<1> QED BY <1>1, <1>2, <1>3, <1>4, Zenon DEF EnrolInv

\* The calls of a start between the first and the last but the submission.
LEMMA CallsKeep ==
    ASSUME EnrolInv,
           \/ AskApproval \/ CheckAccessKey \/ (\E answered \in BOOLEAN : CheckMeasurements(answered))
           \/ PollApproval \/ PollProposal \/ ReadAccessKey \/ CallFails
    PROVE  EnrolInv'
<1>1. UNCHANGED <<boot, is_tee_mode, key_file, master, submitted, daoVars>>
    BY Zenon DEF AskApproval, CheckAccessKey, CheckMeasurements, PollApproval, PollProposal, ReadAccessKey,
                 CallFails, GoTo
<1>2. /\ step \notin {"off", "serves"} /\ step' \notin {"off", "serves"}
      /\ step' \in BeforeSubmitted => step \in BeforeSubmitted
    BY Zenon DEF AskApproval, CheckAccessKey, CheckMeasurements, PollApproval, PollProposal, CountAndPoll, ReadAccessKey,
           CallFails, GoTo, BeforeSubmitted
<1> QED BY <1>1, <1>2, OnTheWay, Zenon

\* The submission: this start has submitted nothing before.
LEMMA SubmissionKeeps ==
    ASSUME EnrolInv, NEW heard \in BOOLEAN, SubmitRegistration(heard)
    PROVE  EnrolInv'
<1> DEFINE entry == [boot |-> boot, key |-> public_key]
<1>1. /\ step = "submits" /\ step' \in {"polls", "hangs"} /\ SubmitKeystoreRegistration(OwnQuote)
      /\ submitted' = Append(submitted, entry) /\ UNCHANGED <<boot, is_tee_mode, key_file, master>>
    BY Zenon DEF SubmitRegistration
<1>2. EnrolType /\ SubmittedOnce /\ ServesLetIn /\ DaoFacts BY Zenon DEF EnrolInv
<1>3. public_key \in Keys /\ public_key \in Range(Booted) BY <1>1, <1>2, OwnKey, Zenon
<1>4. /\ OwnQuote \in [public_key: Keys, fmspc: Platforms, measurements: Measurements]
      /\ OwnQuote.measurements = Image.measurements
    BY <1>3, EnrolmentAssumption, Zenon DEF OwnQuote
<1>5. DaoFacts' BY <1>1, <1>2, <1>4, SubmitFacts, Zenon
<1>6. EnrolType' BY <1>1, <1>2, Zenon DEF EnrolType
<1>7. ServesLetIn' BY <1>1, <1>2, Zenon DEF ServesLetIn
<1>8. SubmittedOnce'
    <2>1. boot \in Nat BY <1>2 DEF EnrolType
    <2>2. entry \in [boot: Nat, key: Keys] /\ entry.boot = boot BY <1>3, <2>1, Zenon
    <2> HIDE DEF entry
    <2>3. /\ submitted \in Seq([boot: Nat, key: Keys])
          /\ \A i \in DOMAIN submitted : submitted[i].boot <= boot /\ submitted[i].boot # boot
          /\ \A i, j \in DOMAIN submitted : submitted[i].boot = submitted[j].boot => i = j
        BY <1>1, <1>2, Zenon DEF SubmittedOnce, BeforeSubmitted
    <2>4. /\ submitted' \in Seq([boot: Nat, key: Keys])
          /\ DOMAIN submitted' = DOMAIN submitted \cup {Len(submitted) + 1}
          /\ submitted'[Len(submitted) + 1] = entry
          /\ \A i \in DOMAIN submitted : submitted'[i] = submitted[i]
        BY <1>1, <2>2, <2>3
    <2>5. \A i \in DOMAIN submitted' : submitted'[i].boot <= boot BY <2>1, <2>2, <2>3, <2>4
    <2>6. \A i, j \in DOMAIN submitted' : submitted'[i].boot = submitted'[j].boot => i = j
        BY <2>2, <2>3, <2>4, Zenon
    <2> QED BY <1>1, <2>4, <2>5, <2>6, Zenon DEF SubmittedOnce, BeforeSubmitted
<1> QED BY <1>5, <1>6, <1>7, <1>8, Zenon DEF EnrolInv

\* The derivation is taken from a key on the account, which the DAO let in.
LEMMA DerivationKeeps == ASSUME EnrolInv, DeriveMaster PROVE EnrolInv'
<1>1. /\ step = "derives" /\ public_key \in access_keys /\ step' = "serves" /\ master' = Master
      /\ UNCHANGED <<boot, is_tee_mode, key_file, submitted, daoVars>>
    BY Zenon DEF DeriveMaster
<1>2. EnrolType /\ SubmittedOnce /\ DaoFacts BY Zenon DEF EnrolInv
<1>3. public_key \in Keys BY <1>1, <1>2, OwnKey, Zenon
<1>4. LetIn(public_key) BY <1>1, <1>2, <1>3, Zenon DEF DaoFacts, KeysLetIn
<1>5. DaoFacts' /\ \A k : LetIn(k) => LetIn(k)' BY <1>1, <1>2, DaoStepFacts, Zenon
<1>6. public_key' = public_key BY <1>1, Zenon DEF public_key
<1>7. ServesLetIn' BY <1>1, <1>4, <1>5, <1>6, Zenon DEF ServesLetIn, LetIn
<1>8. EnrolType' BY <1>1, <1>2, Zenon DEF EnrolType
<1>9. SubmittedOnce' BY <1>1, <1>2, Zenon DEF SubmittedOnce, BeforeSubmitted
<1> QED BY <1>5, <1>7, <1>8, <1>9, Zenon DEF EnrolInv

\* The entries of a sequence are of its set.
LEMMA EntryType == ASSUME NEW S, NEW q \in Seq(S), NEW i \in DOMAIN q PROVE q[i] \in S
OBVIOUS

\* A new start has a number no submission carries.
LEMMA StartKeeps == ASSUME EnrolInv, NEW retyped \in BOOLEAN, Start(retyped) PROVE EnrolInv'
<1>1. /\ boot < Len(Booted) /\ boot' = boot + 1 /\ step' = "asks" /\ master' = NoMaster
      /\ key_file' = IF ~is_tee_mode /\ (retyped \/ key_file = 0) THEN boot + 1 ELSE key_file
      /\ UNCHANGED <<is_tee_mode, submitted, daoVars>>
    BY Zenon DEF Start
<1>2. EnrolType /\ SubmittedOnce /\ DaoFacts BY Zenon DEF EnrolInv
<1>3. DaoFacts' BY <1>1, <1>2, DaoStepFacts, Zenon
<1>4. Len(Booted) \in Nat BY EnrolmentAssumption
<1>5. EnrolType' BY <1>1, <1>2, <1>4 DEF EnrolType
<1>6. SubmittedOnce'
    <2>1. /\ boot \in Nat /\ submitted \in Seq([boot: Nat, key: Keys])
          /\ \A i \in DOMAIN submitted : submitted[i].boot \in Nat /\ submitted[i].boot <= boot
        <3>1. boot \in Nat BY <1>2 DEF EnrolType
        <3>2. /\ submitted \in Seq([boot: Nat, key: Keys])
              /\ \A i \in DOMAIN submitted : submitted[i].boot <= boot
            BY <1>2, Zenon DEF SubmittedOnce
        <3>3. ASSUME NEW i \in DOMAIN submitted PROVE submitted[i].boot \in Nat
            <4>1. submitted[i] \in [boot: Nat, key: Keys] BY <3>2, EntryType, Zenon
            <4> QED BY <4>1, Zenon
        <3> QED BY <3>1, <3>2, <3>3, Zenon
    <2>2. \A i \in DOMAIN submitted : submitted[i].boot <= boot + 1 /\ submitted[i].boot # boot + 1
        BY <2>1
    <2> QED BY <1>1, <1>2, <2>2, Zenon DEF SubmittedOnce
<1>7. ServesLetIn' BY <1>1, Zenon DEF ServesLetIn
<1> QED BY <1>3, <1>5, <1>6, <1>7, Zenon DEF EnrolInv

\* Every step of an enrolment, and of the DAO meanwhile.
LEMMA EnrolStepKeeps == ASSUME EnrolInv, [EnrolNext]_<<daoVars, enrolVars>> PROVE EnrolInv'
<1>1. CASE [DaoNext]_daoVars /\ UNCHANGED enrolVars
    <2>1. UNCHANGED <<boot, is_tee_mode, key_file, step, master, submitted>> BY <1>1, Zenon DEF enrolVars
    <2>2. DaoFacts' /\ \A k : LetIn(k) => LetIn(k)' BY <1>1, DaoStepFacts, Zenon DEF EnrolInv
    <2>3. public_key' = public_key BY <2>1, Zenon DEF public_key
    <2>4. ServesLetIn' BY <2>1, <2>2, <2>3, Zenon DEF EnrolInv, ServesLetIn, LetIn
    <2>5. EnrolType' /\ SubmittedOnce' BY <2>1, Zenon DEF EnrolInv, EnrolType, SubmittedOnce
    <2> QED BY <2>2, <2>4, <2>5, Zenon DEF EnrolInv
<1>2. CASE EnrolStep
    BY <1>2, CallsKeep, SubmissionKeeps, DerivationKeeps, Zenon DEF EnrolStep
<1> QED BY <1>1, <1>2, StartKeeps, Zenon DEF EnrolNext

\* Every key on the account was let in on an executed registration, of this instance's
\* image when the key is its own, and each start submits once.
THEOREM EnrolInvAlways == EnrolSpec => []EnrolInv
<1>1. ASSUME DaoInit, EnrolInit PROVE EnrolInv
    <2>1. Inv BY <1>1, InitInv, Zenon
    <2>2. KeysLetIn BY <1>1 DEF DaoInit, KeysLetIn, OnItsWay
    <2>3. OwnRegistrations BY <1>1, Zenon DEF DaoInit, OwnRegistrations, EmptyMap
    <2>4. EnrolType /\ SubmittedOnce /\ ServesLetIn
        BY <1>1, EnrolmentAssumption DEF EnrolInit, EnrolType, SubmittedOnce, ServesLetIn
    <2> QED BY <2>1, <2>2, <2>3, <2>4, Zenon DEF EnrolInv, DaoFacts
<1> QED BY <1>1, EnrolStepKeeps, PTL DEF EnrolSpec

\* A keystore (perform_tee_registration) serves with the account's master, only after the
\* DAO executed a registration of its key from its image, and no start submits twice.
THEOREM AlwaysServesWhenLetIn == EnrolSpec => []ServesWhenLetIn
<1>1. ASSUME EnrolInv PROVE ServesWhenLetIn
    <2>1. CASE step = "serves"
        <3>1. master = Master /\ LetIn(public_key) BY <1>1, <2>1, Zenon DEF EnrolInv, ServesLetIn
        <3>2. public_key \in Range(Booted) BY <1>1, <2>1, OwnKey, Zenon DEF EnrolInv
        <3>3. PICK id \in DOMAIN proposals : proposals[id].public_key = public_key /\ proposals[id].status = "Executed"
            BY <3>1, Zenon DEF LetIn
        <3>4. proposals[id].measurements = Image.measurements
            BY <1>1, <3>2, <3>3, Zenon DEF EnrolInv, DaoFacts, OwnRegistrations
        <3> QED BY <1>1, <2>1, <3>1, <3>3, <3>4, Zenon DEF ServesWhenLetIn, EnrolInv, SubmittedOnce
    <2>2. CASE step # "serves"
        BY <1>1, <2>2, Zenon DEF ServesWhenLetIn, EnrolInv, ServesLetIn, SubmittedOnce
    <2> QED BY <2>1, <2>2, Zenon
<1> QED BY <1>1, EnrolInvAlways, PTL
=============================================================================
