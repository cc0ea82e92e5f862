--------------------------- MODULE ProjectsProofs ---------------------------
(***************************************************************************)
(* Proofs about the project registry: its types, who owns what, and what a *)
(* transfer may do, for any set of accounts, names, versions and prices.   *)
(***************************************************************************)
EXTENDS Projects, TLAPS

USE ProjectsAssumption

\* The rows of the per-account index are sets of project ids.
IndexType(index) ==
    /\ DOMAIN index \subseteq Accounts
    /\ index \in [DOMAIN index -> SUBSET ProjectIds]

\* Adding an id to an account's row keeps the index well typed.
LEMMA IndexAddType ==
    ASSUME NEW index, IndexType(index), NEW a \in Accounts, NEW id \in ProjectIds
    PROVE  IndexType(IndexAdd(index, a, id))
<1> DEFINE row == GetOr(index, a, {}) \cup {id}
<1>1. row \in SUBSET ProjectIds BY DEF GetOr, IndexType
<1> HIDE DEF row
<1>2. IndexAdd(index, a, id) = Put(index, a, row) BY DEF row, IndexAdd
<1>3. QED BY <1>1, <1>2 DEF IndexType, Put

\* So does taking one away, the emptied row included.
LEMMA IndexRemoveType ==
    ASSUME NEW index, IndexType(index), NEW a \in Accounts, NEW id \in ProjectIds
    PROVE  IndexType(IndexRemove(index, a, id))
<1>1. CASE a \notin DOMAIN index BY <1>1 DEF IndexRemove
<1>2. CASE a \in DOMAIN index /\ index[a] \ {id} = {}
    <2>1. IndexRemove(index, a, id) = Drop(index, a) BY <1>2 DEF IndexRemove
    <2>2. QED BY <2>1 DEF IndexType, Drop
<1>3. CASE a \in DOMAIN index /\ index[a] \ {id} # {}
    <2>1. IndexRemove(index, a, id) = Put(index, a, index[a] \ {id}) BY <1>3 DEF IndexRemove
    <2>2. index[a] \ {id} \in SUBSET ProjectIds BY <1>3 DEF IndexType
    <2>3. QED BY <2>1, <2>2 DEF IndexType, Put
<1>4. QED BY <1>1, <1>2, <1>3

-----------------------------------------------------------------------------
\* The parts of the type invariant, by the variable they are about.
ProjectsType ==
    /\ DOMAIN projects \subseteq ProjectIds
    /\ projects \in [DOMAIN projects -> ProjectRecords]
VersionsType ==
    /\ DOMAIN project_versions \subseteq Uuids
    /\ \A u \in DOMAIN project_versions :
          /\ DOMAIN project_versions[u] \subseteq Versions
          /\ project_versions[u] \in [DOMAIN project_versions[u] -> Nat]
PricingType ==
    /\ DOMAIN project_pricing \subseteq ProjectIds
    /\ project_pricing \in [DOMAIN project_pricing -> Pricings]
AcceptancesType ==
    /\ DOMAIN acceptances \subseteq Acceptances
    /\ acceptances \in [DOMAIN acceptances -> Nat]

\* The type invariant is its parts.
LEMMA TypeParts ==
    ProjectsTypeOK <=> /\ paused \in BOOLEAN
                       /\ next_project_id \in 0..MaxProjects
                       /\ ProjectsType /\ VersionsType
                       /\ IndexType(user_projects_index)
                       /\ PricingType /\ AcceptancesType
                       /\ held \in Int
BY DEF ProjectsTypeOK, ProjectsType, VersionsType, IndexType, PricingType, AcceptancesType

\* The same parts, put together after a step.
LEMMA TypePartsAfter ==
    ASSUME paused' \in BOOLEAN, next_project_id' \in 0..MaxProjects, ProjectsType',
           VersionsType', IndexType(user_projects_index'), PricingType', AcceptancesType',
           held' \in Int
    PROVE  ProjectsTypeOK'
<1>1. DOMAIN projects' \subseteq ProjectIds /\ projects' \in [DOMAIN projects' -> ProjectRecords]
    BY DEF ProjectsType
<1>2. /\ DOMAIN project_versions' \subseteq Uuids
      /\ \A u \in DOMAIN project_versions' :
            /\ DOMAIN project_versions'[u] \subseteq Versions
            /\ project_versions'[u] \in [DOMAIN project_versions'[u] -> Nat]
    BY DEF VersionsType
<1>3. /\ DOMAIN user_projects_index' \subseteq Accounts
      /\ user_projects_index' \in [DOMAIN user_projects_index' -> SUBSET ProjectIds]
    BY DEF IndexType
<1>4. /\ DOMAIN project_pricing' \subseteq ProjectIds
      /\ project_pricing' \in [DOMAIN project_pricing' -> Pricings]
    BY DEF PricingType
<1>5. /\ DOMAIN acceptances' \subseteq Acceptances
      /\ acceptances' \in [DOMAIN acceptances' -> Nat]
    BY DEF AcceptancesType
<1>6. QED BY ONLY <1>1, <1>2, <1>3, <1>4, <1>5, paused' \in BOOLEAN, held' \in Int,
          next_project_id' \in 0..MaxProjects, Zenon DEF ProjectsTypeOK

\* What a step leaves alone keeps its type.
LEMMA TypePartsKept ==
    ASSUME ProjectsTypeOK
    PROVE  /\ UNCHANGED paused => paused' \in BOOLEAN
           /\ UNCHANGED next_project_id => next_project_id' \in 0..MaxProjects
           /\ UNCHANGED projects => ProjectsType'
           /\ UNCHANGED project_versions => VersionsType'
           /\ UNCHANGED user_projects_index => IndexType(user_projects_index')
           /\ UNCHANGED project_pricing => PricingType'
           /\ UNCHANGED acceptances => AcceptancesType'
<1>1. UNCHANGED projects => ProjectsType' BY DEF ProjectsTypeOK, ProjectsType
<1>2. UNCHANGED project_versions => VersionsType' BY DEF ProjectsTypeOK, VersionsType
<1>3. UNCHANGED user_projects_index => IndexType(user_projects_index')
    BY DEF ProjectsTypeOK, IndexType
<1>4. UNCHANGED project_pricing => PricingType' BY DEF ProjectsTypeOK, PricingType
<1>5. UNCHANGED acceptances => AcceptancesType' BY DEF ProjectsTypeOK, AcceptancesType
<1>6. /\ UNCHANGED paused => paused' \in BOOLEAN
      /\ UNCHANGED next_project_id => next_project_id' \in 0..MaxProjects
    BY DEF ProjectsTypeOK
<1>7. QED BY <1>1, <1>2, <1>3, <1>4, <1>5, <1>6

\* A fresh contract is well typed.
LEMMA ProjectsInitType == ASSUME ProjectsInit PROVE ProjectsTypeOK
<1>0. paused \in BOOLEAN
    <2>1. paused = FALSE BY DEF ProjectsInit
    <2>2. QED BY ONLY <2>1, Zenon
<1>1. next_project_id \in 0..MaxProjects /\ held \in Int BY DEF ProjectsInit
<1>2. ProjectsType
    <2>1. projects = EmptyMap /\ DOMAIN EmptyMap = {} BY DEF ProjectsInit, EmptyMap
    <2>2. QED BY <2>1 DEF ProjectsType, EmptyMap
<1>3. VersionsType BY DEF ProjectsInit, VersionsType, EmptyMap
<1>4. IndexType(user_projects_index) BY DEF ProjectsInit, IndexType, EmptyMap
<1>5. PricingType BY DEF ProjectsInit, PricingType, EmptyMap
<1>6. AcceptancesType BY DEF ProjectsInit, AcceptancesType, EmptyMap
<1>7. QED BY <1>0, <1>1, <1>2, <1>3, <1>4, <1>5, <1>6, TypeParts

\* create_project records a well-typed project, versions map and index row.
LEMMA CreateProjectType ==
    ASSUME ProjectsTypeOK, NEW c \in Accounts, NEW n \in Names, NEW v \in Versions,
           CreateProject(c, n, v)
    PROVE  ProjectsTypeOK'
<1> DEFINE id == <<c, n>>
           project == [uuid |-> NextUuid, owner |-> c, active |-> v,
                       deposit |-> ProjectDeposit[id]]
           versions == [x \in {v} |-> VersionDeposit[x]]
<1>1. id \in ProjectIds BY DEF ProjectIds
<1>2. NextUuid \in Uuids /\ next_project_id' \in 0..MaxProjects
    BY DEF CreateProject, NextUuid, Uuids, ProjectsTypeOK
<1>3. project \in ProjectRecords BY <1>1, <1>2 DEF ProjectRecords
<1>4. ProjectsType'
    <2> HIDE DEF project, id
    <2>1. projects' = Put(projects, id, project) BY DEF CreateProject, id, project
    <2>2. QED BY <1>1, <1>3, <2>1 DEF ProjectsTypeOK, ProjectsType, Put
<1>5. VersionsType'
    <2>1. project_versions' = Put(project_versions, NextUuid, versions) BY DEF CreateProject
    <2>2. DOMAIN versions \subseteq Versions /\ versions \in [DOMAIN versions -> Nat] OBVIOUS
    <2> HIDE DEF versions
    <2>3. QED BY <1>2, <2>1, <2>2 DEF ProjectsTypeOK, VersionsType, Put
<1>6. IndexType(user_projects_index')
    BY <1>1, IndexAddType, TypeParts DEF CreateProject
<1>7. held' \in Int BY <1>1 DEF CreateProject, ProjectsTypeOK
<1>8. UNCHANGED <<paused, project_pricing, acceptances>> BY DEF CreateProject
<1>9. QED BY <1>2, <1>4, <1>5, <1>6, <1>7, <1>8, TypePartsKept, TypePartsAfter

\* add_version, set_active_version and remove_version keep the types.
LEMMA ChangeVersionsType ==
    ASSUME ProjectsTypeOK, ChangeVersions
    PROVE  ProjectsTypeOK'
<1>1. ASSUME NEW c \in Accounts, NEW n \in Names, NEW v \in Versions, NEW b \in BOOLEAN,
             AddVersion(c, n, v, b)
      PROVE  ProjectsTypeOK'
    <2> DEFINE id == <<c, n>>
               uuid == projects[id].uuid
    <2>1. id \in DOMAIN projects /\ uuid \in DOMAIN project_versions
        BY <1>1 DEF AddVersion, OwnsProject
    <2>2. ProjectsType'
        <3>1. CASE projects' = projects BY <3>1 DEF ProjectsTypeOK, ProjectsType
        <3>2. CASE projects' = [projects EXCEPT ![id].active = v]
            BY <2>1, <3>2 DEF ProjectsTypeOK, ProjectsType, ProjectRecords
        <3>3. QED BY <1>1, <3>1, <3>2 DEF AddVersion
    <2>3. VersionsType'
        <3>1. project_versions' =
                [project_versions EXCEPT ![uuid] = Put(@, v, VersionDeposit[v])]
            BY <1>1 DEF AddVersion
        <3> HIDE DEF uuid
        <3>2. QED BY <2>1, <3>1 DEF ProjectsTypeOK, VersionsType, Put
    <2>4. held' \in Int BY <1>1 DEF AddVersion, ProjectsTypeOK
    <2>5. UNCHANGED <<paused, next_project_id, user_projects_index, project_pricing, acceptances>>
        BY <1>1 DEF AddVersion
    <2>6. QED BY <2>2, <2>3, <2>4, <2>5, TypePartsKept, TypePartsAfter
<1>2. ASSUME NEW c \in Accounts, NEW n \in Names, NEW v \in Versions,
             SetActiveVersion(c, n, v)
      PROVE  ProjectsTypeOK'
    <2>1. ProjectsType'
        BY <1>2 DEF SetActiveVersion, OwnsProject, ProjectsTypeOK, ProjectsType, ProjectRecords
    <2>2. /\ UNCHANGED <<paused, next_project_id, project_versions, user_projects_index,
                         project_pricing, acceptances>>
          /\ held' \in Int
        BY <1>2 DEF SetActiveVersion, ProjectsTypeOK
    <2>3. QED BY <2>1, <2>2, TypePartsKept, TypePartsAfter
<1>3. ASSUME NEW c \in Accounts, NEW n \in Names, NEW v \in Versions,
             RemoveVersion(c, n, v)
      PROVE  ProjectsTypeOK'
    <2> DEFINE uuid == projects[<<c, n>>].uuid
    <2>1. /\ uuid \in DOMAIN project_versions /\ v \in DOMAIN project_versions[uuid]
          /\ project_versions' = [project_versions EXCEPT ![uuid] = Drop(@, v)]
          /\ held' = held - project_versions[uuid][v]
        BY <1>3 DEF RemoveVersion
    <2> HIDE DEF uuid
    <2>2. VersionsType' BY <2>1 DEF ProjectsTypeOK, VersionsType, Drop
    <2>3. held' \in Int BY <2>1 DEF ProjectsTypeOK
    <2>4. UNCHANGED <<paused, next_project_id, projects, user_projects_index, project_pricing,
                      acceptances>>
        BY <1>3 DEF RemoveVersion
    <2>5. QED BY <2>2, <2>3, <2>4, TypePartsKept, TypePartsAfter
<1>4. QED BY <1>1, <1>2, <1>3 DEF ChangeVersions

\* set_project_pricing and remove_project_pricing keep the types.
LEMMA ChangePricesType ==
    ASSUME ProjectsTypeOK, ChangePrices
    PROVE  ProjectsTypeOK'
<1>1. PricingType'
    <2>1. ASSUME NEW id \in ProjectIds, NEW p \in Pricings, SetProjectPricing(id, p)
          PROVE  PricingType'
        <3>1. project_pricing' = Put(project_pricing, id, p) BY <2>1 DEF SetProjectPricing
        <3>2. QED BY <3>1 DEF ProjectsTypeOK, PricingType, Put
    <2>2. ASSUME NEW id \in DOMAIN project_pricing, RemoveProjectPricing(id)
          PROVE  PricingType'
        <3>1. project_pricing' = Drop(project_pricing, id) BY <2>2 DEF RemoveProjectPricing
        <3>2. QED BY <3>1 DEF ProjectsTypeOK, PricingType, Drop
    <2>3. QED BY <2>1, <2>2 DEF ChangePrices
<1>2. UNCHANGED <<paused, next_project_id, projects, project_versions, user_projects_index,
                  acceptances, held>>
    BY DEF ChangePrices, SetProjectPricing, RemoveProjectPricing
<1>3. held' \in Int BY <1>2 DEF ProjectsTypeOK
<1>4. QED BY <1>1, <1>2, <1>3, TypePartsKept, TypePartsAfter

\* An acceptance is recorded with its deposit or removed.
LEMMA AcceptanceType ==
    ASSUME ProjectsTypeOK, NEW c \in Accounts, NEW f \in Accounts, NEW n \in Names,
           NEW a, a = [new_owner |-> c, from |-> f, name |-> n]
    PROVE  /\ acceptances' = Put(acceptances, a, AcceptDeposit) => AcceptancesType'
           /\ acceptances' = Drop(acceptances, a) => AcceptancesType'
           /\ a \in DOMAIN acceptances => acceptances[a] \in Nat
<1>1. a \in Acceptances BY DEF Acceptances
<1>2. acceptances' = Put(acceptances, a, AcceptDeposit) => AcceptancesType'
    BY <1>1 DEF ProjectsTypeOK, AcceptancesType, Put
<1>3. acceptances' = Drop(acceptances, a) => AcceptancesType'
    BY <1>1 DEF ProjectsTypeOK, AcceptancesType, Drop
<1>4. a \in DOMAIN acceptances => acceptances[a] \in Nat BY DEF ProjectsTypeOK
<1>5. QED BY <1>2, <1>3, <1>4

\* transfer_project re-keys the project, both index rows and the acceptance.
LEMMA TransferType ==
    ASSUME ProjectsTypeOK, NEW c \in Accounts, NEW n \in Names, NEW o \in Accounts,
           TransferProject(c, n, o)
    PROVE  ProjectsTypeOK'
<1> DEFINE old_id == <<c, n>>
           new_id == <<o, n>>
           a == [new_owner |-> o, from |-> c, name |-> n]
           moved == [projects[old_id] EXCEPT !.owner = o]
           without == IndexRemove(user_projects_index, c, old_id)
<1>1. old_id \in ProjectIds /\ new_id \in ProjectIds BY DEF ProjectIds
<1>2. old_id \in DOMAIN projects BY DEF TransferProject, OwnsProject
<1>3. moved \in ProjectRecords
    <2>1. projects[old_id] \in ProjectRecords BY <1>2 DEF ProjectsTypeOK
    <2> HIDE DEF old_id
    <2>2. QED BY <2>1 DEF ProjectRecords
<1>4. ProjectsType'
    <2>1. projects' = Put(Drop(projects, old_id), new_id, moved)
        BY DEF TransferProject, MovedTo
    <2> HIDE DEF moved, old_id, new_id
    <2>2. QED BY <1>1, <1>3, <2>1 DEF ProjectsTypeOK, ProjectsType, Put, Drop
<1>5. IndexType(user_projects_index')
    <2>1. IndexType(without) BY <1>1, IndexRemoveType, TypeParts
    <2>2. user_projects_index' = IndexAdd(without, o, new_id) BY DEF TransferProject
    <2> HIDE DEF without, old_id, new_id
    <2>3. QED BY <1>1, <2>1, <2>2, IndexAddType
<1>6. AcceptancesType' /\ acceptances[a] \in Nat
    BY AcceptanceType DEF TransferProject, AcceptanceConsumed
<1>7. held' \in Int
    <2>1. held' = held - acceptances[a] BY DEF TransferProject
    <2> HIDE DEF a
    <2>2. QED BY <1>6, <2>1 DEF ProjectsTypeOK
<1>8. UNCHANGED <<paused, next_project_id, project_versions, project_pricing>>
    BY DEF TransferProject
<1>9. QED BY <1>4, <1>5, <1>6, <1>7, <1>8, TypePartsKept, TypePartsAfter

\* Creation, deletion, acceptance and transfer keep the types.
LEMMA MoveProjectsType ==
    ASSUME ProjectsTypeOK, MoveProjects
    PROVE  ProjectsTypeOK'
<1>1. ASSUME NEW c \in Accounts, NEW n \in Names, DeleteProject(c, n)
      PROVE  ProjectsTypeOK'
    <2> DEFINE id == <<c, n>>
    <2>1. id \in ProjectIds BY DEF ProjectIds
    <2>2. ProjectsType'
        BY <1>1 DEF DeleteProject, ProjectsTypeOK, ProjectsType, Drop
    <2>3. VersionsType'
        <3> DEFINE u == projects[id].uuid
        <3>1. project_versions' = Drop(project_versions, u) BY <1>1 DEF DeleteProject
        <3> HIDE DEF u
        <3>2. QED BY <3>1 DEF ProjectsTypeOK, VersionsType, Drop
    <2>4. IndexType(user_projects_index')
        BY <1>1, <2>1, IndexRemoveType, TypeParts DEF DeleteProject
    <2>5. held' \in Int
        <3>1. projects[id] \in ProjectRecords /\ held' = held - projects[id].deposit
            BY <1>1 DEF DeleteProject, OwnsProject, ProjectRefund, ProjectsTypeOK
        <3> HIDE DEF id
        <3>2. QED BY <3>1 DEF ProjectRecords, ProjectsTypeOK
    <2>6. UNCHANGED <<paused, next_project_id, project_pricing, acceptances>>
        BY <1>1 DEF DeleteProject
    <2>7. QED BY <2>2, <2>3, <2>4, <2>5, <2>6, TypePartsKept, TypePartsAfter
<1>2. ASSUME NEW c \in Accounts, NEW f \in Accounts, NEW n \in Names,
             AcceptProjectTransfer(c, f, n) \/ RevokeProjectTransfer(c, f, n)
      PROVE  ProjectsTypeOK'
    <2> DEFINE a == [new_owner |-> c, from |-> f, name |-> n]
    <2>1. \/ acceptances' = Put(acceptances, a, AcceptDeposit) /\ held' = held + AcceptDeposit
          \/ /\ acceptances' = Drop(acceptances, a) /\ a \in DOMAIN acceptances
             /\ held' = held - acceptances[a]
        BY <1>2 DEF AcceptProjectTransfer, RevokeProjectTransfer
    <2> HIDE DEF a
    <2>2. AcceptancesType' /\ (a \in DOMAIN acceptances => acceptances[a] \in Nat)
        BY <2>1, AcceptanceType DEF a
    <2>3. held' \in Int BY <2>1, <2>2 DEF ProjectsTypeOK
    <2>4. UNCHANGED <<paused, next_project_id, projects, project_versions, user_projects_index,
                      project_pricing>>
        BY <1>2 DEF AcceptProjectTransfer, RevokeProjectTransfer
    <2>5. QED BY <2>2, <2>3, <2>4, TypePartsKept, TypePartsAfter
<1>3. QED BY <1>1, <1>2, CreateProjectType, TransferType DEF MoveProjects

\* Every call to the registry keeps the types.
LEMMA ProjectsNextType ==
    ASSUME ProjectsTypeOK, [ProjectsNext]_projectVars
    PROVE  ProjectsTypeOK'
<1>1. ASSUME NEW b \in Pauses, SetPaused(b)
      PROVE  ProjectsTypeOK'
    <2>1. paused' \in BOOLEAN BY <1>1 DEF SetPaused
    <2>2. UNCHANGED registry BY <1>1 DEF SetPaused
    <2>3. QED BY <2>1, <2>2 DEF registry, ProjectsTypeOK
<1>2. CASE UNCHANGED projectVars BY <1>2 DEF projectVars, registry, ProjectsTypeOK
<1>3. QED
    BY <1>1, <1>2, MoveProjectsType, ChangeVersionsType, ChangePricesType DEF ProjectsNext

\* Every field of the registry keeps its type in every reachable state.
THEOREM ProjectsTypeCorrect == ProjectsSpec => []ProjectsTypeOK
<1>1. ProjectsInit => ProjectsTypeOK BY ProjectsInitType
<1>2. ProjectsTypeOK /\ [ProjectsNext]_projectVars => ProjectsTypeOK' BY ProjectsNextType
<1>3. QED BY <1>1, <1>2, PTL DEF ProjectsSpec

-----------------------------------------------------------------------------
\* The calls that touch projects and their versions; the others do not.
OtherCalls ==
    \/ \E c \in Acceptors, f \in Accounts, n \in Names :
          AcceptProjectTransfer(c, f, n) \/ RevokeProjectTransfer(c, f, n)
    \/ ChangePrices
    \/ \E b \in Pauses : SetPaused(b)
    \/ UNCHANGED projectVars

\* Those others leave the projects, their versions, the uuid counter and the index alone.
LEMMA OtherCallsFrame ==
    ASSUME OtherCalls PROVE UNCHANGED <<projects, project_versions, next_project_id, user_projects_index>>
<1>1. ASSUME NEW c, NEW f, NEW n, AcceptProjectTransfer(c, f, n) \/ RevokeProjectTransfer(c, f, n)
      PROVE  UNCHANGED <<projects, project_versions, next_project_id, user_projects_index>>
    BY <1>1 DEF AcceptProjectTransfer, RevokeProjectTransfer
<1>2. CASE ChangePrices BY <1>2 DEF ChangePrices, SetProjectPricing, RemoveProjectPricing
<1>3. ASSUME NEW b, SetPaused(b)
      PROVE  UNCHANGED <<projects, project_versions, next_project_id, user_projects_index>>
    BY <1>3 DEF SetPaused, registry
<1>4. CASE UNCHANGED projectVars BY <1>4 DEF projectVars, registry
<1>5. QED BY <1>1, <1>2, <1>3, <1>4 DEF OtherCalls

\* Every step is one of the calls the ownership proofs tell apart.
LEMMA ProjectCalls ==
    ASSUME [ProjectsNext]_projectVars
    PROVE  \/ \E c \in Accounts, n \in Names, v \in Versions : CreateProject(c, n, v)
           \/ \E c \in Accounts, n \in Names : DeleteProject(c, n)
           \/ \E c, o \in Accounts, n \in Names : TransferProject(c, n, o)
           \/ ChangeVersions
           \/ OtherCalls
BY DEF ProjectsNext, MoveProjects, OtherCalls

\* Ownership.  OwnerIsPrefix is inductive as it stands.
LEMMA OwnerIsPrefixStep ==
    ASSUME ProjectsTypeOK, OwnerIsPrefix, [ProjectsNext]_projectVars
    PROVE  OwnerIsPrefix'
<1>1. ASSUME NEW c \in Accounts, NEW n \in Names, NEW v \in Versions, CreateProject(c, n, v)
      PROVE  OwnerIsPrefix'
    BY <1>1 DEF CreateProject, OwnerIsPrefix, Put
<1>2. ASSUME NEW c \in Accounts, NEW n \in Names, DeleteProject(c, n)
      PROVE  OwnerIsPrefix'
    BY <1>2 DEF DeleteProject, OwnerIsPrefix, Drop
<1>3. ASSUME NEW c \in Accounts, NEW n \in Names, NEW o \in Accounts, TransferProject(c, n, o)
      PROVE  OwnerIsPrefix'
    <2> DEFINE old_id == <<c, n>>
               moved == [projects[old_id] EXCEPT !.owner = o]
    <2>1. projects' = Put(Drop(projects, old_id), <<o, n>>, moved)
        BY <1>3 DEF TransferProject, MovedTo
    <2>2. projects[old_id] \in ProjectRecords
        BY <1>3 DEF TransferProject, OwnsProject, ProjectsTypeOK
    <2>3. moved.owner = o BY <2>2 DEF ProjectRecords
    <2> HIDE DEF moved, old_id
    <2>4. QED BY <2>1, <2>3 DEF OwnerIsPrefix, Put, Drop
<1>4. ASSUME NEW c, NEW n, NEW v, NEW b, AddVersion(c, n, v, b) \/ SetActiveVersion(c, n, v)
      PROVE  OwnerIsPrefix'
    <2> DEFINE id == <<c, n>>
    <2>1. id \in DOMAIN projects BY <1>4 DEF AddVersion, SetActiveVersion, OwnsProject
    <2>2. projects' = projects \/ projects' = [projects EXCEPT ![id].active = v]
        BY <1>4 DEF AddVersion, SetActiveVersion
    <2> HIDE DEF id
    <2>3. QED BY <2>1, <2>2 DEF OwnerIsPrefix, ProjectsTypeOK, ProjectRecords
<1>5. CASE UNCHANGED projects BY <1>5 DEF OwnerIsPrefix
<1>6. CASE ChangeVersions
    <2>1. ASSUME NEW c, NEW n, NEW v, RemoveVersion(c, n, v) PROVE UNCHANGED projects
        BY <2>1 DEF RemoveVersion
    <2>2. QED BY <1>4, <1>5, <1>6, <2>1 DEF ChangeVersions
<1>7. QED BY <1>1, <1>2, <1>3, <1>5, <1>6, ProjectCalls, OtherCallsFrame

\* A project lives under its owner's own name, through any chain of transfers.
THEOREM OwnerIsPrefixAlways == ProjectsSpec => []OwnerIsPrefix
<1>1. ProjectsInit => OwnerIsPrefix BY DEF ProjectsInit, OwnerIsPrefix, EmptyMap
<1>2. QED BY <1>1, OwnerIsPrefixStep, ProjectsTypeCorrect, PTL DEF ProjectsSpec

-----------------------------------------------------------------------------
\* The tables agree.

\* What create_project, delete_project and transfer_project do to the tables.
Created(id, c, v) ==
    /\ id \notin DOMAIN projects /\ DOMAIN projects' = DOMAIN projects \cup {id}
    /\ projects'[id].uuid = next_project_id + 1 /\ projects'[id].owner = c /\ projects'[id].active = v
    /\ \A i \in DOMAIN projects : projects'[i] = projects[i]
    /\ DOMAIN project_versions' = DOMAIN project_versions \cup {next_project_id + 1}
    /\ DOMAIN project_versions'[next_project_id + 1] = {v}
    /\ \A u \in DOMAIN project_versions : u # next_project_id + 1 => project_versions'[u] = project_versions[u]
    /\ next_project_id' = next_project_id + 1
    /\ user_projects_index' = IndexAdd(user_projects_index, c, id)
Deleted(id, c) ==
    /\ id \in DOMAIN projects /\ projects[id].owner = c /\ DOMAIN projects' = DOMAIN projects \ {id}
    /\ \A i \in DOMAIN projects' : projects'[i] = projects[i]
    /\ DOMAIN project_versions' = DOMAIN project_versions \ {projects[id].uuid}
    /\ \A u \in DOMAIN project_versions' : project_versions'[u] = project_versions[u]
    /\ next_project_id' = next_project_id
    /\ user_projects_index' = IndexRemove(user_projects_index, c, id)
Moved(old, new, c, o) ==
    /\ old \in DOMAIN projects /\ projects[old].owner = c
    /\ new \notin DOMAIN projects \ {old} /\ DOMAIN projects' = (DOMAIN projects \ {old}) \cup {new}
    /\ projects'[new].uuid = projects[old].uuid /\ projects'[new].owner = o /\ projects'[new].active = projects[old].active
    /\ \A i \in DOMAIN projects' : i # new => projects'[i] = projects[i]
    /\ UNCHANGED <<project_versions, next_project_id>>
    /\ user_projects_index' = IndexAdd(IndexRemove(user_projects_index, c, old), o, new)

\* The calls do just that.
LEMMA CreateFacts ==
    ASSUME ProjectsTypeOK, NEW c \in Accounts, NEW n \in Names, NEW v \in Versions, CreateProject(c, n, v)
    PROVE  Created(<<c, n>>, c, v)
<1> DEFINE id == <<c, n>>
           project == [uuid |-> NextUuid, owner |-> c, active |-> v, deposit |-> ProjectDeposit[id]]
           versions == [x \in {v} |-> VersionDeposit[x]]
<1>1. /\ projects' = Put(projects, id, project) /\ id \notin DOMAIN projects
      /\ project_versions' = Put(project_versions, NextUuid, versions)
      /\ next_project_id' = next_project_id + 1
      /\ user_projects_index' = IndexAdd(user_projects_index, c, id)
    BY DEF CreateProject
<1>2. project.uuid = NextUuid /\ project.owner = c /\ project.active = v /\ DOMAIN versions = {v}  OBVIOUS
<1> HIDE DEF project, versions, id
<1>3. /\ DOMAIN projects' = DOMAIN projects \cup {id} /\ projects'[id] = project
      /\ \A i \in DOMAIN projects : projects'[i] = projects[i]
    BY <1>1 DEF Put
<1>4. /\ DOMAIN project_versions' = DOMAIN project_versions \cup {NextUuid} /\ project_versions'[NextUuid] = versions
      /\ \A u \in DOMAIN project_versions : u # NextUuid => project_versions'[u] = project_versions[u]
    BY <1>1 DEF Put
<1>5. Created(id, c, v)  BY <1>1, <1>2, <1>3, <1>4 DEF NextUuid, Created
<1> QED BY <1>5 DEF id
\* delete_project: the project, its versions map and its index entry go.
LEMMA DeleteFacts ==
    ASSUME ProjectsTypeOK, NEW c \in Accounts, NEW n \in Names, DeleteProject(c, n)
    PROVE  Deleted(<<c, n>>, c)
BY DEF DeleteProject, OwnsProject, Drop, Deleted
\* transfer_project: one project moves to another id and row, with its uuid and versions.
LEMMA TransferFacts ==
    ASSUME ProjectsTypeOK, NEW c \in Accounts, NEW n \in Names, NEW o \in Accounts, TransferProject(c, n, o)
    PROVE  Moved(<<c, n>>, <<o, n>>, c, o)
<1> DEFINE old == <<c, n>>
           new == <<o, n>>
           moved == [projects[old] EXCEPT !.owner = o]
<1>1. /\ projects' = Put(Drop(projects, old), new, moved)
      /\ old \in DOMAIN projects /\ projects[old].owner = c /\ new \notin DOMAIN Drop(projects, old)
      /\ UNCHANGED <<project_versions, next_project_id>>
      /\ user_projects_index' = IndexAdd(IndexRemove(user_projects_index, c, old), o, new)
    BY DEF TransferProject, OwnsProject, MovedTo
<1>2. projects[old] \in ProjectRecords  BY <1>1 DEF ProjectsTypeOK
<1>3. moved.uuid = projects[old].uuid /\ moved.owner = o /\ moved.active = projects[old].active
    BY <1>2 DEF ProjectRecords
<1> HIDE DEF old, new, moved
<1>4. DOMAIN Drop(projects, old) = DOMAIN projects \ {old} /\ \A i \in DOMAIN projects : i # old => Drop(projects, old)[i] = projects[i]
    BY DEF Drop
<1>5. /\ DOMAIN projects' = (DOMAIN projects \ {old}) \cup {new} /\ projects'[new] = moved
      /\ \A i \in DOMAIN projects' : i # new => projects'[i] = projects[i]
    BY <1>1, <1>4 DEF Put
<1>6. Moved(old, new, c, o)  BY <1>1, <1>3, <1>4, <1>5 DEF Moved
<1> QED BY <1>6 DEF old, new

\* A call on versions moves no project, changes only the row of one uuid, and leaves the
\* active version of each project in its row if it was there.
LEMMA VersionFacts ==
    ASSUME ProjectsTypeOK, UuidsDistinct, ActiveVersionExists, ChangeVersions
    PROVE  /\ DOMAIN projects' = DOMAIN projects
           /\ \A i \in DOMAIN projects : projects'[i].uuid = projects[i].uuid /\ projects'[i].owner = projects[i].owner
           /\ UNCHANGED <<next_project_id, user_projects_index>>
           /\ DOMAIN project_versions' = DOMAIN project_versions
           /\ ActiveVersionExists'
<1> DEFINE Activated(id, v) == projects' = [projects EXCEPT ![id].active = v]
<1>1. \A i \in DOMAIN projects : projects[i] \in ProjectRecords  BY DEF ProjectsTypeOK
<1>2. ASSUME NEW id \in DOMAIN projects, NEW v, Activated(id, v)
      PROVE  /\ DOMAIN projects' = DOMAIN projects /\ projects'[id].active = v
             /\ \A i \in DOMAIN projects : projects'[i].uuid = projects[i].uuid /\ projects'[i].owner = projects[i].owner /\ (i # id => projects'[i] = projects[i])
    <2>1. projects[id] \in ProjectRecords  BY <1>1
    <2> QED BY <1>2, <2>1 DEF ProjectsTypeOK, ProjectRecords
<1> HIDE DEF Activated
<1>3. ASSUME NEW c \in Accounts, NEW n \in Names, NEW v \in Versions, NEW b \in BOOLEAN, AddVersion(c, n, v, b)
      PROVE  /\ DOMAIN projects' = DOMAIN projects
             /\ \A i \in DOMAIN projects : projects'[i].uuid = projects[i].uuid /\ projects'[i].owner = projects[i].owner
             /\ UNCHANGED <<next_project_id, user_projects_index>>
             /\ DOMAIN project_versions' = DOMAIN project_versions
             /\ ActiveVersionExists'
    <2> DEFINE id == <<c, n>>
               u == projects[id].uuid
    <2>1. id \in DOMAIN projects /\ u \in DOMAIN project_versions  BY <1>3 DEF AddVersion, OwnsProject
    <2>2. /\ project_versions' = [project_versions EXCEPT ![u] = Put(@, v, VersionDeposit[v])]
          /\ projects' = projects \/ Activated(id, v)
          /\ UNCHANGED <<next_project_id, user_projects_index>>
        BY <1>3 DEF AddVersion, Activated
    <2> HIDE DEF id, u
    <2>3. /\ DOMAIN projects' = DOMAIN projects /\ (projects' = projects \/ projects'[id].active = v)
          /\ \A i \in DOMAIN projects : projects'[i].uuid = projects[i].uuid /\ projects'[i].owner = projects[i].owner /\ (i # id => projects'[i] = projects[i])
        BY <1>2, <2>1, <2>2
    <2>4. /\ DOMAIN project_versions' = DOMAIN project_versions
          /\ DOMAIN project_versions'[u] = DOMAIN project_versions[u] \cup {v}
          /\ \A w \in DOMAIN project_versions : w # u => project_versions'[w] = project_versions[w]
        BY <2>1, <2>2 DEF Put
    <2>5. ActiveVersionExists'
        BY <2>1, <2>3, <2>4 DEF ActiveVersionExists, u
    <2> QED BY <2>2, <2>3, <2>4, <2>5
<1>4. ASSUME NEW c \in Accounts, NEW n \in Names, NEW v \in Versions, SetActiveVersion(c, n, v)
      PROVE  /\ DOMAIN projects' = DOMAIN projects
             /\ \A i \in DOMAIN projects : projects'[i].uuid = projects[i].uuid /\ projects'[i].owner = projects[i].owner
             /\ UNCHANGED <<next_project_id, user_projects_index>>
             /\ DOMAIN project_versions' = DOMAIN project_versions
             /\ ActiveVersionExists'
    <2> DEFINE id == <<c, n>>
    <2>1. id \in DOMAIN projects /\ v \in DOMAIN project_versions[projects[id].uuid]  BY <1>4 DEF SetActiveVersion, OwnsProject
    <2>2. Activated(id, v) /\ UNCHANGED <<next_project_id, user_projects_index, project_versions>>
        BY <1>4 DEF SetActiveVersion, Activated
    <2> HIDE DEF id
    <2>3. /\ DOMAIN projects' = DOMAIN projects /\ projects'[id].active = v
          /\ \A i \in DOMAIN projects : projects'[i].uuid = projects[i].uuid /\ projects'[i].owner = projects[i].owner /\ (i # id => projects'[i] = projects[i])
        BY <1>2, <2>1, <2>2
    <2>4. UNCHANGED <<next_project_id, user_projects_index, project_versions>>  BY <2>2
    <2>5. ActiveVersionExists'  BY <2>1, <2>3, <2>4 DEF ActiveVersionExists
    <2> QED BY <2>3, <2>4, <2>5
<1>5. ASSUME NEW c \in Accounts, NEW n \in Names, NEW v \in Versions, RemoveVersion(c, n, v)
      PROVE  /\ UNCHANGED <<projects, next_project_id, user_projects_index>>
             /\ DOMAIN project_versions' = DOMAIN project_versions
             /\ ActiveVersionExists'
    <2> DEFINE id == <<c, n>>
               u == projects[id].uuid
    <2>1. id \in DOMAIN projects /\ u \in DOMAIN project_versions /\ projects[id].active # v
        BY <1>5 DEF RemoveVersion, OwnsProject, Removable
    <2>2. project_versions' = [project_versions EXCEPT ![u] = Drop(@, v)] /\ UNCHANGED <<projects, next_project_id, user_projects_index>>
        BY <1>5 DEF RemoveVersion
    <2> HIDE DEF id, u
    <2>3. /\ DOMAIN project_versions' = DOMAIN project_versions
          /\ DOMAIN project_versions'[u] = DOMAIN project_versions[u] \ {v}
          /\ \A w \in DOMAIN project_versions : w # u => project_versions'[w] = project_versions[w]
        BY <2>1, <2>2 DEF Drop
    <2>4. \A i \in DOMAIN projects : projects[i].uuid = u => i = id  BY <2>1 DEF UuidsDistinct, u
    <2>5. ActiveVersionExists'  BY <2>1, <2>2, <2>3, <2>4 DEF ActiveVersionExists
    <2> QED BY <2>2, <2>3, <2>5
<1> QED BY <1>3, <1>4, <1>5 DEF ChangeVersions

\* uuids stay apart: a new project takes the next number, a moved one keeps its own.
LEMMA UuidsStep ==
    ASSUME ProjectsTypeOK, UuidsDistinct, ActiveVersionExists, [ProjectsNext]_projectVars
    PROVE  UuidsDistinct'
<1>0. next_project_id \in Nat /\ \A i \in DOMAIN projects : projects[i].uuid \in Nat
    BY DEF ProjectsTypeOK, ProjectRecords, Uuids
<1>1. ASSUME NEW c \in Accounts, NEW n \in Names, NEW v \in Versions, CreateProject(c, n, v)
      PROVE  UuidsDistinct'
    <2> DEFINE id == <<c, n>>
    <2>0. Created(id, c, v)  BY <1>1, CreateFacts
    <2>1. /\ id \notin DOMAIN projects /\ DOMAIN projects' = DOMAIN projects \cup {id}
          /\ projects'[id].uuid = next_project_id + 1
          /\ \A i \in DOMAIN projects : projects'[i] = projects[i]
          /\ DOMAIN project_versions' = DOMAIN project_versions \cup {next_project_id + 1}
          /\ next_project_id' = next_project_id + 1
        BY <2>0 DEF Created
    <2> HIDE DEF id
    <2>2. \A i \in DOMAIN projects : projects[i].uuid # next_project_id + 1  BY <1>0 DEF UuidsDistinct
    <2>3. \A i, j \in DOMAIN projects' : projects'[i].uuid = projects'[j].uuid => i = j  BY <2>1, <2>2 DEF UuidsDistinct
    <2>4. \A i \in DOMAIN projects' : projects'[i].uuid <= next_project_id'  BY <1>0, <2>1 DEF UuidsDistinct
    <2>5. DOMAIN project_versions' = {projects'[i].uuid : i \in DOMAIN projects'}  BY <2>1 DEF UuidsDistinct
    <2> QED BY <2>3, <2>4, <2>5 DEF UuidsDistinct
<1>2. ASSUME NEW c \in Accounts, NEW n \in Names, DeleteProject(c, n)
      PROVE  UuidsDistinct'
    <2> DEFINE id == <<c, n>>
    <2>0. Deleted(id, c)  BY <1>2, DeleteFacts
    <2>1. /\ id \in DOMAIN projects /\ DOMAIN projects' = DOMAIN projects \ {id}
          /\ \A i \in DOMAIN projects' : projects'[i] = projects[i]
          /\ DOMAIN project_versions' = DOMAIN project_versions \ {projects[id].uuid}
          /\ next_project_id' = next_project_id
        BY <2>0 DEF Deleted
    <2> HIDE DEF id
    <2>2. \A i \in DOMAIN projects' : projects[i].uuid # projects[id].uuid  BY <2>1 DEF UuidsDistinct
    <2> QED BY <2>1, <2>2 DEF UuidsDistinct
<1>3. ASSUME NEW c \in Accounts, NEW n \in Names, NEW o \in Accounts, TransferProject(c, n, o)
      PROVE  UuidsDistinct'
    <2> DEFINE old == <<c, n>>
               new == <<o, n>>
    <2>0. Moved(old, new, c, o)  BY <1>3, TransferFacts
    <2>1. /\ old \in DOMAIN projects /\ DOMAIN projects' = (DOMAIN projects \ {old}) \cup {new}
          /\ new \notin DOMAIN projects \ {old} /\ projects'[new].uuid = projects[old].uuid
          /\ \A i \in DOMAIN projects' : i # new => projects'[i] = projects[i]
          /\ UNCHANGED <<project_versions, next_project_id>>
        BY <2>0 DEF Moved
    <2> HIDE DEF old, new
    <2>2. \A i, j \in DOMAIN projects' : projects'[i].uuid = projects'[j].uuid => i = j  BY <2>1 DEF UuidsDistinct
    <2>3. \A i \in DOMAIN projects' : projects'[i].uuid <= next_project_id'  BY <2>1 DEF UuidsDistinct
    <2>4. {projects'[i].uuid : i \in DOMAIN projects'} = {projects[i].uuid : i \in DOMAIN projects}
        BY <2>1
    <2> QED BY <2>1, <2>2, <2>3, <2>4 DEF UuidsDistinct
<1>4. CASE ChangeVersions
    <2>1. /\ DOMAIN projects' = DOMAIN projects /\ DOMAIN project_versions' = DOMAIN project_versions
          /\ \A i \in DOMAIN projects : projects'[i].uuid = projects[i].uuid
          /\ UNCHANGED next_project_id
        BY <1>4, VersionFacts
    <2> QED BY <2>1 DEF UuidsDistinct
<1>5. CASE OtherCalls  BY <1>5, OtherCallsFrame DEF UuidsDistinct
<1> QED BY <1>1, <1>2, <1>3, <1>4, <1>5, ProjectCalls

\* The active version stays one of the project's versions.
LEMMA ActiveVersionStep ==
    ASSUME ProjectsTypeOK, UuidsDistinct, ActiveVersionExists, [ProjectsNext]_projectVars
    PROVE  ActiveVersionExists'
<1>0. next_project_id \in Nat /\ \A i \in DOMAIN projects : projects[i].uuid \in Nat
    BY DEF ProjectsTypeOK, ProjectRecords, Uuids
<1>1. ASSUME NEW c \in Accounts, NEW n \in Names, NEW v \in Versions, CreateProject(c, n, v)
      PROVE  ActiveVersionExists'
    <2> DEFINE id == <<c, n>>
               u == next_project_id + 1
    <2>0. Created(id, c, v)  BY <1>1, CreateFacts
    <2>1. /\ DOMAIN projects' = DOMAIN projects \cup {id}
          /\ projects'[id].uuid = u /\ projects'[id].active = v
          /\ \A i \in DOMAIN projects : projects'[i] = projects[i]
          /\ DOMAIN project_versions' = DOMAIN project_versions \cup {u} /\ DOMAIN project_versions'[u] = {v}
          /\ \A w \in DOMAIN project_versions : w # u => project_versions'[w] = project_versions[w]
        BY <2>0 DEF Created
    <2>2. id \notin DOMAIN projects  BY <2>0 DEF Created
    <2>3. \A i \in DOMAIN projects : projects[i].uuid # u  BY <1>0 DEF UuidsDistinct
    <2> HIDE DEF id, u
    <2> QED BY <2>1, <2>2, <2>3 DEF ActiveVersionExists
<1>2. ASSUME NEW c \in Accounts, NEW n \in Names, DeleteProject(c, n)
      PROVE  ActiveVersionExists'
    <2> DEFINE id == <<c, n>>
    <2>0. Deleted(id, c)  BY <1>2, DeleteFacts
    <2>1. /\ id \in DOMAIN projects /\ DOMAIN projects' = DOMAIN projects \ {id}
          /\ \A i \in DOMAIN projects' : projects'[i] = projects[i]
          /\ DOMAIN project_versions' = DOMAIN project_versions \ {projects[id].uuid}
          /\ \A u \in DOMAIN project_versions' : project_versions'[u] = project_versions[u]
        BY <2>0 DEF Deleted
    <2> HIDE DEF id
    <2>2. \A i \in DOMAIN projects' : projects[i].uuid # projects[id].uuid  BY <2>1 DEF UuidsDistinct
    <2> QED BY <2>1, <2>2 DEF ActiveVersionExists
<1>3. ASSUME NEW c \in Accounts, NEW n \in Names, NEW o \in Accounts, TransferProject(c, n, o)
      PROVE  ActiveVersionExists'
    <2> DEFINE old == <<c, n>>
               new == <<o, n>>
    <2>0. Moved(old, new, c, o)  BY <1>3, TransferFacts
    <2>1. /\ old \in DOMAIN projects /\ DOMAIN projects' = (DOMAIN projects \ {old}) \cup {new}
          /\ projects'[new].uuid = projects[old].uuid /\ projects'[new].active = projects[old].active
          /\ \A i \in DOMAIN projects' : i # new => projects'[i] = projects[i]
          /\ UNCHANGED project_versions
        BY <2>0 DEF Moved
    <2> HIDE DEF old, new
    <2> QED BY <2>1 DEF ActiveVersionExists
<1>4. CASE ChangeVersions  BY <1>4, VersionFacts
<1>5. CASE OtherCalls  BY <1>5, OtherCallsFrame DEF ActiveVersionExists
<1> QED BY <1>1, <1>2, <1>3, <1>4, <1>5, ProjectCalls

-----------------------------------------------------------------------------
\* The index, read by row: an account with no row has an empty one.
Row(index, a) == GetOr(index, a, {})
NoEmptyRow(index) == \A a \in DOMAIN index : index[a] # {}
OwnedBy(prj, a) == {id \in DOMAIN prj : prj[id].owner = a}
ByRows(index, prj) == NoEmptyRow(index) /\ \A a : Row(index, a) = OwnedBy(prj, a)

\* add and remove put an id in one row, or take it out, and leave no row empty.
LEMMA IndexAddRow ==
    ASSUME NEW index, NEW a, NEW id, NoEmptyRow(index)
    PROVE  /\ NoEmptyRow(IndexAdd(index, a, id))
           /\ Row(IndexAdd(index, a, id), a) = Row(index, a) \cup {id}
           /\ \A b : b # a => Row(IndexAdd(index, a, id), b) = Row(index, b)
<1> DEFINE row == GetOr(index, a, {}) \cup {id}
           added == Put(index, a, row)
<1>1. IndexAdd(index, a, id) = added  BY DEF IndexAdd, Row
<1>a. row = Row(index, a) \cup {id}  BY DEF Row
<1>b. row # {}  OBVIOUS
<1> HIDE DEF row
<1>2. /\ DOMAIN added = DOMAIN index \cup {a} /\ added[a] = row
      /\ \A b \in DOMAIN index : b # a => added[b] = index[b]
    BY DEF Put
<1> HIDE DEF added
<1>3. NoEmptyRow(added)
    <2> SUFFICES ASSUME NEW b \in DOMAIN added PROVE added[b] # {} BY DEF NoEmptyRow
    <2>1. CASE b = a BY <1>2, <1>b, <2>1
    <2>2. CASE b # a BY <1>2, <2>2 DEF NoEmptyRow
    <2> QED BY <2>1, <2>2
<1>4. Row(added, a) = row BY <1>2 DEF Row, GetOr
<1>5. \A b : b # a => Row(added, b) = Row(index, b)
    BY <1>2 DEF Row, GetOr
<1>6. NoEmptyRow(IndexAdd(index, a, id)) BY ONLY <1>1, <1>3
<1>7. Row(IndexAdd(index, a, id), a) = Row(index, a) \cup {id} BY ONLY <1>1, <1>4, <1>a
<1>8.  \A b : b # a => Row(IndexAdd(index, a, id), b) = Row(index, b) BY ONLY <1>1, <1>5
<1> QED BY <1>6, <1>7, <1>8
\* remove takes the id out of its row, and the row out of the index when it was the last.
LEMMA IndexRemoveRow ==
    ASSUME NEW index, NEW a, NEW id, NoEmptyRow(index)
    PROVE  /\ NoEmptyRow(IndexRemove(index, a, id))
           /\ Row(IndexRemove(index, a, id), a) = Row(index, a) \ {id}
           /\ \A b : b # a => Row(IndexRemove(index, a, id), b) = Row(index, b)
<1>1. CASE a \notin DOMAIN index  BY <1>1 DEF IndexRemove, Row, GetOr
<1>2. CASE a \in DOMAIN index /\ index[a] \ {id} = {}
    <2>1. IndexRemove(index, a, id) = Drop(index, a)  BY <1>2 DEF IndexRemove
    <2> QED BY <1>2, <2>1 DEF Drop, NoEmptyRow, Row, GetOr
<1>3. CASE a \in DOMAIN index /\ index[a] \ {id} # {}
    <2> DEFINE row == index[a] \ {id}
    <2>1. IndexRemove(index, a, id) = Put(index, a, row)  BY <1>3 DEF IndexRemove
    <2>2. row # {} /\ Row(index, a) = index[a]  BY <1>3 DEF Row, GetOr
    <2>3. Row(index, a) \ {id} = row  BY <2>2
    <2> HIDE DEF row
    <2>4. /\ DOMAIN Put(index, a, row) = DOMAIN index \cup {a} /\ Put(index, a, row)[a] = row
          /\ \A b \in DOMAIN index : b # a => Put(index, a, row)[b] = index[b]
        BY DEF Put
    <2> QED BY <2>1, <2>2, <2>3, <2>4 DEF NoEmptyRow, Row, GetOr
<1> QED BY <1>1, <1>2, <1>3

\* IndexMatches, by rows.
LEMMA IndexToRows == ASSUME IndexMatches PROVE ByRows(user_projects_index, projects)
<1>1. ASSUME NEW a PROVE Row(user_projects_index, a) = OwnedBy(projects, a)
    <2>1. CASE a \in DOMAIN user_projects_index  BY <2>1 DEF IndexMatches, Row, GetOr, OwnedBy
    <2>2. CASE a \notin DOMAIN user_projects_index  BY <2>2 DEF IndexMatches, Row, GetOr, OwnedBy
    <2> QED BY <2>1, <2>2
<1> QED BY <1>1 DEF IndexMatches, NoEmptyRow, ByRows
\* And back.
LEMMA RowsToIndex ==
    ASSUME NEW index, NEW prj, ByRows(index, prj)
    PROVE  /\ \A a \in DOMAIN index : index[a] # {} /\ index[a] = {id \in DOMAIN prj : prj[id].owner = a}
           /\ \A id \in DOMAIN prj : prj[id].owner \in DOMAIN index
<1>1. \A a \in DOMAIN index : index[a] # {} /\ index[a] = OwnedBy(prj, a)
    BY DEF ByRows, NoEmptyRow, Row, GetOr
<1>2. ASSUME NEW id \in DOMAIN prj PROVE prj[id].owner \in DOMAIN index
    <2>1. id \in OwnedBy(prj, prj[id].owner)  BY DEF OwnedBy
    <2>2. id \in Row(index, prj[id].owner)  BY <2>1 DEF ByRows
    <2> QED BY <2>2 DEF Row, GetOr
<1> QED BY <1>1, <1>2 DEF OwnedBy

\* Each call moves ids between rows as it moves projects between owners.
LEMMA IndexStep ==
    ASSUME ProjectsTypeOK, ProjectsTypeOK', UuidsDistinct, ActiveVersionExists, IndexMatches, [ProjectsNext]_projectVars
    PROVE  IndexMatches'
<1> DEFINE Matches == ByRows(user_projects_index', projects')
<1> HIDE DEF Matches
<1>0. NoEmptyRow(user_projects_index) /\ \A a : Row(user_projects_index, a) = OwnedBy(projects, a)
    BY IndexToRows DEF ByRows
<1>1. ASSUME NEW c \in Accounts, NEW n \in Names, NEW v \in Versions, CreateProject(c, n, v)
      PROVE  Matches
    <2> DEFINE id == <<c, n>>
    <2>0. Created(id, c, v)  BY <1>1, CreateFacts
    <2>1. /\ id \notin DOMAIN projects /\ DOMAIN projects' = DOMAIN projects \cup {id} /\ projects'[id].owner = c
          /\ \A i \in DOMAIN projects : projects'[i] = projects[i]
          /\ user_projects_index' = IndexAdd(user_projects_index, c, id)
        BY <2>0 DEF Created
    <2> HIDE DEF id
    <2>2. /\ NoEmptyRow(user_projects_index') /\ Row(user_projects_index', c) = Row(user_projects_index, c) \cup {id}
          /\ \A b : b # c => Row(user_projects_index', b) = Row(user_projects_index, b)
        BY <1>0, <2>1, IndexAddRow
    <2>3. \A a : OwnedBy(projects', a) = Row(user_projects_index', a)  BY <1>0, <2>1, <2>2 DEF OwnedBy
    <2> QED BY <2>2, <2>3 DEF Matches, ByRows
<1>2. ASSUME NEW c \in Accounts, NEW n \in Names, DeleteProject(c, n)
      PROVE  Matches
    <2> DEFINE id == <<c, n>>
    <2>0. Deleted(id, c)  BY <1>2, DeleteFacts
    <2>1. /\ id \in DOMAIN projects /\ projects[id].owner = c /\ DOMAIN projects' = DOMAIN projects \ {id}
          /\ \A i \in DOMAIN projects' : projects'[i] = projects[i]
          /\ user_projects_index' = IndexRemove(user_projects_index, c, id)
        BY <2>0 DEF Deleted
    <2> HIDE DEF id
    <2>2. /\ NoEmptyRow(user_projects_index') /\ Row(user_projects_index', c) = Row(user_projects_index, c) \ {id}
          /\ \A b : b # c => Row(user_projects_index', b) = Row(user_projects_index, b)
        BY <1>0, <2>1, IndexRemoveRow
    <2>3. \A a : OwnedBy(projects', a) = Row(user_projects_index', a)  BY <1>0, <2>1, <2>2 DEF OwnedBy
    <2> QED BY <2>2, <2>3 DEF Matches, ByRows
<1>3. ASSUME NEW c \in Accounts, NEW n \in Names, NEW o \in Accounts, TransferProject(c, n, o)
      PROVE  Matches
    <2> DEFINE old == <<c, n>>
               new == <<o, n>>
               between == IndexRemove(user_projects_index, c, old)
    <2>0. Moved(old, new, c, o)  BY <1>3, TransferFacts
    <2>1. /\ old \in DOMAIN projects /\ projects[old].owner = c
          /\ DOMAIN projects' = (DOMAIN projects \ {old}) \cup {new} /\ projects'[new].owner = o
          /\ new \notin DOMAIN projects \ {old}
          /\ \A i \in DOMAIN projects' : i # new => projects'[i] = projects[i]
          /\ user_projects_index' = IndexAdd(between, o, new)
        BY <2>0 DEF Moved
    <2> HIDE DEF old, new
    <2>2. /\ NoEmptyRow(between) /\ Row(between, c) = Row(user_projects_index, c) \ {old}
          /\ \A b : b # c => Row(between, b) = Row(user_projects_index, b)
        BY <1>0, IndexRemoveRow
    <2> HIDE DEF between
    <2>3. /\ NoEmptyRow(user_projects_index') /\ Row(user_projects_index', o) = Row(between, o) \cup {new}
          /\ \A b : b # o => Row(user_projects_index', b) = Row(between, b)
        BY <2>1, <2>2, IndexAddRow
    <2>4. \A b : Row(between, b) = {i \in DOMAIN projects \ {old} : projects[i].owner = b}  BY <1>0, <2>1, <2>2 DEF OwnedBy
    <2>5. \A b : b # o => OwnedBy(projects', b) = {i \in DOMAIN projects \ {old} : projects[i].owner = b}
        BY <2>1 DEF OwnedBy
    <2>6. OwnedBy(projects', o) = {i \in DOMAIN projects \ {old} : projects[i].owner = o} \cup {new}
        BY <2>1 DEF OwnedBy
    <2>7. \A b : Row(user_projects_index', b) = OwnedBy(projects', b)  BY ONLY <2>3, <2>4, <2>5, <2>6
    <2> QED BY ONLY <2>3, <2>7 DEF Matches, ByRows
<1>4. ASSUME ChangeVersions PROVE Matches
    <2>1. /\ DOMAIN projects' = DOMAIN projects /\ UNCHANGED user_projects_index
          /\ \A i \in DOMAIN projects : projects'[i].owner = projects[i].owner
        BY <1>4, VersionFacts
    <2>2. \A a : OwnedBy(projects', a) = OwnedBy(projects, a)  BY <2>1 DEF OwnedBy
    <2> QED BY ONLY <1>0, <2>1, <2>2 DEF Matches, ByRows
<1>5. ASSUME OtherCalls PROVE Matches
    <2>1. UNCHANGED <<projects, user_projects_index>>  BY <1>5, OtherCallsFrame
    <2> QED BY ONLY <1>0, <2>1 DEF Matches, ByRows
<1>6. Matches  BY <1>1, <1>2, <1>3, <1>4, <1>5, ProjectCalls
<1> QED BY <1>6, RowsToIndex DEF Matches, IndexMatches

\* The three tables of the registry - projects, versions and the per-account index -
\* agree after any sequence of calls, for any accounts, names, versions and deposits.
THEOREM RecordsAlwaysAgree == ProjectsSpec => []RecordsAgree
<1>1. ProjectsInit => RecordsAgree
    BY DEF ProjectsInit, RecordsAgree, OwnerIsPrefix, UuidsDistinct, ActiveVersionExists, IndexMatches, EmptyMap
<1>2. ProjectsTypeOK /\ ProjectsTypeOK' /\ RecordsAgree /\ [ProjectsNext]_projectVars => RecordsAgree'
    BY OwnerIsPrefixStep, UuidsStep, ActiveVersionStep, IndexStep DEF RecordsAgree
<1> QED BY <1>1, <1>2, ProjectsTypeCorrect, PTL DEF ProjectsSpec
=============================================================================
