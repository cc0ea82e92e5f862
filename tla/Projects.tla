------------------------------ MODULE Projects ------------------------------
(***************************************************************************)
(* The project registry of the OutLayer contract (contract/src/projects.rs *)
(* and the owner's price list in admin.rs).                                *)
(*                                                                         *)
(* A project id is the pair <<account, name>>: the contract spells it      *)
(* "account/name".  A call that panics changes nothing and is not a step.  *)
(* Excess deposits come back inside the call, so a payable call takes      *)
(* exactly what it requires: `held` is the NEAR the registry has taken and *)
(* not paid back.                                                          *)
(***************************************************************************)
EXTENDS Integers, FiniteSets, FiniteSetsExt, Maps

CONSTANTS
    Accounts,        \* account ids that call the contract
    Names,           \* project names
    Versions,        \* version keys: a wasm hash or repo@commit
    Operations,      \* operation names a price list may carry
    Pricings,        \* price lists the contract owner may set
    None,            \* Option::None
    Creators,        \* accounts that register projects
    Acceptors,       \* accounts that accept transfers
    Pauses,          \* values set_paused is called with
    ProjectDeposit,  \* storage price of a project record, by project id
    VersionDeposit,  \* storage price of a version record, by version key
    AcceptDeposit,   \* storage price of an acceptance record
    MaxProjects      \* bound on next_project_id

ProjectIds == Accounts \X Names
Uuids == 1..MaxProjects
Acceptances == [new_owner: Accounts, from: Accounts, name: Names]
ProjectRecords == [uuid: Uuids, owner: Accounts, active: Versions, deposit: Nat]

ASSUME ProjectsAssumption ==
    /\ MaxProjects \in Nat
    /\ Creators \subseteq Accounts
    /\ Acceptors \subseteq Accounts
    /\ Pauses \subseteq BOOLEAN
    /\ ProjectDeposit \in [ProjectIds -> Nat]
    /\ VersionDeposit \in [Versions -> Nat]
    /\ AcceptDeposit \in Nat
    /\ None \notin ProjectIds \cup Versions \cup Operations
    \* the connector's author and a row per operation sold, at least one
    /\ \A p \in Pricings : /\ p.author \in Accounts
                           /\ DOMAIN p.rows \subseteq Operations
                           /\ DOMAIN p.rows # {}
                           /\ \A op \in DOMAIN p.rows :
                                 /\ p.rows[op].price \in Nat
                                 /\ p.rows[op].share_bp \in Nat /\ p.rows[op].share_bp <= 10000

VARIABLES
    paused,              \* Contract.paused
    next_project_id,     \* Contract.next_project_id: the last uuid given
    projects,            \* project id -> Project
    project_versions,    \* uuid -> (version key -> its storage deposit)
    user_projects_index, \* account -> the ids it owns; no row when empty
    project_pricing,     \* project id -> price list
    acceptances,         \* acceptance -> its storage deposit
    held                 \* NEAR taken for registry records and not paid back

registry == <<next_project_id, projects, project_versions, user_projects_index,
              project_pricing, acceptances, held>>
projectVars == <<paused, registry>>

ProjectsInit ==
    /\ paused = FALSE
    /\ next_project_id = 0
    /\ projects = EmptyMap
    /\ project_versions = EmptyMap
    /\ user_projects_index = EmptyMap
    /\ project_pricing = EmptyMap
    /\ acceptances = EmptyMap
    /\ held = 0

-----------------------------------------------------------------------------
\* The uuid create_project gives: "p" and the incremented counter in hex.
NextUuid == next_project_id + 1

\* user_projects_index with `id` added to, or taken from, `account`'s set.
IndexAdd(index, account, id) ==
    Put(index, account, GetOr(index, account, {}) \cup {id})

IndexRemoveNothing(index, account, id) == index
IndexRemove(index, account, id) ==
    IF account \notin DOMAIN index THEN index
    ELSE IF index[account] \ {id} = {} THEN Drop(index, account)
    ELSE Put(index, account, index[account] \ {id})

CreateProject(caller, name, version) ==
    LET id == <<caller, name>>
        uuid == NextUuid
    IN /\ ~paused
       /\ id \notin DOMAIN projects
       /\ next_project_id < MaxProjects
       /\ next_project_id' = next_project_id + 1
       /\ projects' = Put(projects, id,
              [uuid |-> uuid, owner |-> caller, active |-> version,
               deposit |-> ProjectDeposit[id]])
       /\ project_versions' = Put(project_versions, uuid,
              [v \in {version} |-> VersionDeposit[v]])
       /\ user_projects_index' = IndexAdd(user_projects_index, caller, id)
       /\ held' = held + ProjectDeposit[id] + VersionDeposit[version]
       /\ UNCHANGED <<paused, project_pricing, acceptances>>

\* The project `caller/name` exists and the caller owns it.
OwnsProject(caller, id) ==
    /\ id \in DOMAIN projects
    /\ projects[id].owner = caller

AddVersion(caller, name, version, set_active) ==
    LET id == <<caller, name>>
    IN /\ ~paused
       /\ OwnsProject(caller, id)
       /\ LET uuid == projects[id].uuid
          IN /\ uuid \in DOMAIN project_versions
             /\ version \notin DOMAIN project_versions[uuid]
             /\ project_versions' = [project_versions EXCEPT ![uuid] =
                                        Put(@, version, VersionDeposit[version])]
       /\ projects' = IF set_active THEN [projects EXCEPT ![id].active = version]
                                    ELSE projects
       /\ held' = held + VersionDeposit[version]
       /\ UNCHANGED <<paused, next_project_id, user_projects_index, project_pricing,
                      acceptances>>

SetActiveVersion(caller, name, version) ==
    LET id == <<caller, name>>
    IN /\ OwnsProject(caller, id)
       /\ projects[id].uuid \in DOMAIN project_versions
       /\ version \in DOMAIN project_versions[projects[id].uuid]
       /\ projects' = [projects EXCEPT ![id].active = version]
       /\ UNCHANGED <<paused, next_project_id, project_versions, user_projects_index,
                      project_pricing, acceptances, held>>

\* "Cannot remove active version. Switch to another version first."
Removable(id, version) == projects[id].active # version

RemoveVersion(caller, name, version) ==
    LET id == <<caller, name>>
    IN /\ OwnsProject(caller, id)
       /\ Removable(id, version)
       /\ LET uuid == projects[id].uuid
          IN /\ uuid \in DOMAIN project_versions
             /\ version \in DOMAIN project_versions[uuid]
             /\ project_versions' = [project_versions EXCEPT ![uuid] = Drop(@, version)]
             /\ held' = held - project_versions[uuid][version]
       /\ UNCHANGED <<paused, next_project_id, projects, user_projects_index,
                      project_pricing, acceptances>>

\* What delete_project pays back: the deposit recorded when the project was made.
ProjectRefundRecomputed(id) == ProjectDeposit[id]
ProjectRefund(id) == projects[id].deposit

\* Removes the project and its versions map; refunds the project's own deposit.
DeleteProject(caller, name) ==
    LET id == <<caller, name>>
    IN /\ OwnsProject(caller, id)
       /\ projects' = Drop(projects, id)
       /\ project_versions' = Drop(project_versions, projects[id].uuid)
       /\ user_projects_index' = IndexRemove(user_projects_index, caller, id)
       /\ held' = held - ProjectRefund(id)
       /\ UNCHANGED <<paused, next_project_id, project_pricing, acceptances>>

-----------------------------------------------------------------------------
\* Moving a project to another account takes that account's acceptance first.

AcceptProjectTransfer(caller, from, name) ==
    LET a == [new_owner |-> caller, from |-> from, name |-> name]
    IN /\ ~paused
       /\ <<caller, name>> \notin DOMAIN projects
       /\ a \notin DOMAIN acceptances
       /\ acceptances' = Put(acceptances, a, AcceptDeposit)
       /\ held' = held + AcceptDeposit
       /\ UNCHANGED <<paused, next_project_id, projects, project_versions,
                      user_projects_index, project_pricing>>

RevokeProjectTransfer(caller, from, name) ==
    LET a == [new_owner |-> caller, from |-> from, name |-> name]
    IN /\ a \in DOMAIN acceptances
       /\ acceptances' = Drop(acceptances, a)
       /\ held' = held - acceptances[a]
       /\ UNCHANGED <<paused, next_project_id, projects, project_versions,
                      user_projects_index, project_pricing>>

\* The checks and updates of transfer_project that the properties turn on.
MayMove(id) == id \notin DOMAIN project_pricing

AcceptanceConsumed(a) == Drop(acceptances, a)

OwnerKept(project, new_owner) == project
MovedTo(project, new_owner) == [project EXCEPT !.owner = new_owner]

TransferProject(caller, name, new_owner) ==
    LET old_id == <<caller, name>>
        new_id == <<new_owner, name>>
        a == [new_owner |-> new_owner, from |-> caller, name |-> name]
    IN /\ MayMove(old_id)
       /\ a \in DOMAIN acceptances
       /\ OwnsProject(caller, old_id)
       /\ new_id \notin DOMAIN Drop(projects, old_id)
       /\ acceptances' = AcceptanceConsumed(a)
       /\ projects' = Put(Drop(projects, old_id), new_id, MovedTo(projects[old_id], new_owner))
       /\ user_projects_index' =
              IndexAdd(IndexRemove(user_projects_index, caller, old_id), new_owner, new_id)
       /\ held' = held - acceptances[a]
       /\ UNCHANGED <<paused, next_project_id, project_versions, project_pricing>>

-----------------------------------------------------------------------------
\* The contract owner's calls (admin.rs).

SetPaused(b) ==
    /\ paused' = b
    /\ UNCHANGED registry

SetProjectPricing(id, pricing) ==
    /\ id \in DOMAIN projects
    /\ project_pricing' = Put(project_pricing, id, pricing)
    /\ UNCHANGED <<paused, next_project_id, projects, project_versions,
                   user_projects_index, acceptances, held>>

RemoveProjectPricing(id) ==
    /\ project_pricing' = Drop(project_pricing, id)
    /\ UNCHANGED <<paused, next_project_id, projects, project_versions,
                   user_projects_index, acceptances, held>>

\* The calls that change which projects there are and who owns them.
MoveProjects ==
    \/ \E c \in Creators, n \in Names, v \in Versions : CreateProject(c, n, v)
    \/ \E c \in Accounts, n \in Names : DeleteProject(c, n)
    \/ \E c \in Acceptors, f \in Accounts, n \in Names : AcceptProjectTransfer(c, f, n)
    \/ \E c \in Acceptors, f \in Accounts, n \in Names : RevokeProjectTransfer(c, f, n)
    \/ \E c, o \in Accounts, n \in Names : TransferProject(c, n, o)

ChangeVersions ==
    \/ \E c \in Accounts, n \in Names, v \in Versions, b \in BOOLEAN : AddVersion(c, n, v, b)
    \/ \E c \in Accounts, n \in Names, v \in Versions : SetActiveVersion(c, n, v)
    \/ \E c \in Accounts, n \in Names, v \in Versions : RemoveVersion(c, n, v)

ChangePrices ==
    \/ \E id \in ProjectIds, p \in Pricings : SetProjectPricing(id, p)
    \/ \E id \in DOMAIN project_pricing : RemoveProjectPricing(id)

ProjectsNext ==
    \/ MoveProjects
    \/ ChangeVersions
    \/ ChangePrices
    \/ \E b \in Pauses : SetPaused(b)

ProjectsSpec == ProjectsInit /\ [][ProjectsNext]_projectVars

-----------------------------------------------------------------------------
\* Every variable has the type of the field it models.
ProjectsTypeOK ==
    /\ paused \in BOOLEAN
    /\ next_project_id \in 0..MaxProjects
    /\ DOMAIN projects \subseteq ProjectIds
    /\ projects \in [DOMAIN projects -> ProjectRecords]
    /\ DOMAIN project_versions \subseteq Uuids
    /\ \A u \in DOMAIN project_versions :
          /\ DOMAIN project_versions[u] \subseteq Versions
          /\ project_versions[u] \in [DOMAIN project_versions[u] -> Nat]
    /\ DOMAIN user_projects_index \subseteq Accounts
    /\ user_projects_index \in [DOMAIN user_projects_index -> SUBSET ProjectIds]
    /\ DOMAIN project_pricing \subseteq ProjectIds
    /\ project_pricing \in [DOMAIN project_pricing -> Pricings]
    /\ DOMAIN acceptances \subseteq Acceptances
    /\ acceptances \in [DOMAIN acceptances -> Nat]
    /\ held \in Int

\* A project lives under its owner's own name: the prefix of its id is its
\* owner, through create_project and through every chain of transfers.
OwnerIsPrefix == \A id \in DOMAIN projects : projects[id].owner = id[1]

\* A uuid, which names a project's storage namespace, belongs to one project
\* and to no other, and was handed out by create_project; the versions map of
\* every live project is the one under its uuid and no versions map outlives
\* its project (create_project, transfer_project, delete_project).
UuidsDistinct ==
    /\ \A i, j \in DOMAIN projects : projects[i].uuid = projects[j].uuid => i = j
    /\ \A i \in DOMAIN projects : projects[i].uuid <= next_project_id
    /\ DOMAIN project_versions = {projects[i].uuid : i \in DOMAIN projects}

\* request_execution without a version_key resolves: the active version of a
\* live project is always one of its versions (add_version, set_active_version,
\* remove_version refuse what would break it).
ActiveVersionExists ==
    \A id \in DOMAIN projects :
       /\ projects[id].uuid \in DOMAIN project_versions
       /\ projects[id].active \in DOMAIN project_versions[projects[id].uuid]

\* The per-account index lists exactly the projects the account owns, and holds
\* no empty row, after any sequence of creations, deletions and transfers.
IndexMatches ==
    /\ \A a \in DOMAIN user_projects_index :
          /\ user_projects_index[a] # {}
          /\ user_projects_index[a] = {id \in DOMAIN projects : projects[id].owner = a}
    /\ \A id \in DOMAIN projects : projects[id].owner \in DOMAIN user_projects_index

\* The three tables of the registry agree: owners, uuids, versions and the index,
\* as stated one by one above, after any sequence of calls by several accounts.
RecordsAgree == OwnerIsPrefix /\ UuidsDistinct /\ ActiveVersionExists /\ IndexMatches

\* The deposits the registry's records name: what their removal would pay back.
VersionsDeposit(u) ==
    MapThenSumSet(LAMBDA v : project_versions[u][v], DOMAIN project_versions[u])
OwedDeposits ==
    MapThenSumSet(LAMBDA id : projects[id].deposit, DOMAIN projects)
      + MapThenSumSet(VersionsDeposit, DOMAIN project_versions)
      + MapThenSumSet(LAMBDA a : acceptances[a], DOMAIN acceptances)

\* Every deposit is taken when its record is made and paid back, at the figure
\* it was taken at, when the record goes; the one exception is delete_project,
\* which keeps the deposits of the versions it drops, and exactly those.
DepositAccounting ==
    [][ (held' - OwedDeposits') - (held - OwedDeposits) =
           MapThenSumSet(VersionsDeposit, DOMAIN project_versions \ DOMAIN project_versions')
      ]_projectVars

=============================================================================
