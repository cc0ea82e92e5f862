------------------------------ MODULE RunKeys -------------------------------
(***************************************************************************)
(* One /decrypt request of a run (keystore-worker/src/api.rs,              *)
(* decrypt_with_keys) and what the worker makes of the answer              *)
(* (worker/src/keystore_client.rs, decrypt_keyed): the keys the run's code *)
(* declares, its task key and its secret row.                              *)
(*                                                                         *)
(* Every await of the handler is a step.  Between two of them the project  *)
(* may be deleted and created again under its name, the row rewritten, the *)
(* clock may pass a limit, and an admin may evict a vault.  A keystore of  *)
(* the fleet may predate some family of keys.                              *)
(***************************************************************************)
EXTENDS AccessConditions, FiniteSets

CONSTANTS
    Requests,      \* [project, keys, task, row, real]
    Rows,          \* the rows an owner may store, Missing among them
    Worlds,        \* what a condition is judged in
    OwnVaults,     \* named under the project's owner, who is their parent
    Ages,          \* the members each keystore of the fleet knows
    MaxBlocks, MaxTime

VARIABLES
    blocks,        \* final blocks: the project's uuid, if any, and how the build is published
    minted,        \* uuids given out
    row, world,
    loaded,        \* vaults whose master the keystore holds
    knows,         \* the answering keystore's age
    req, at,       \* the run's request, and how far its handler is
    got,           \* what the handler holds
    paid           \* history: vaults loaded for this request, and on which ground

runKeysVars == <<blocks, minted, row, world, loaded, knows, req, at, got, paid>>
outside == <<blocks, minted, row, world>>
request == <<knows, req>>

Nothing == [uuid |-> 0, row |-> Missing, opened |-> FALSE, by_name |-> FALSE,
            keys |-> {}, task |-> Missing]

RunKeysInit ==
    /\ blocks = <<[uuid |-> 1, source |-> "WasmUrl"]>> /\ minted = 1
    /\ row \in Rows /\ world \in Worlds /\ loaded = {}
    /\ knows \in Ages /\ req \in Requests
    /\ at = "asked" /\ got = Nothing /\ paid = {}

-----------------------------------------------------------------------------
\* The members of the body the keystore reads; the rest it does not see.
AskedKeys == {k \in req.keys : k.family \in knows}
AsksTask == req.task /\ "task" \in knows
Keyed == AskedKeys # {} \/ AsksTask

Go(next) == at' = next /\ UNCHANGED <<outside, request, loaded, got, paid>>

\* signing_keys::validate_request, for each family.
ValidKeys ==
    /\ req.real
    /\ \A k \in AskedKeys : (k.bind = "project") = req.project /\ (k.vault # Missing => k.bind = "project")

\* The task key the request may still get: asked for alone, by a run of no
\* account, it is withheld.
TaskRun == AsksTask /\ (AskedKeys # {} \/ req.real)

SecretsOnly == IF req.row THEN Go("row") ELSE Go("unreadable")

\* decrypt_handler, body_shape and what is checked before any chain read.
Validate ==
    /\ at = "asked"
    /\ IF ~Keyed THEN SecretsOnly
       ELSE IF AsksTask /\ ~(req.project /\ req.row) THEN Go("refused")
       ELSE IF AskedKeys # {} /\ ~ValidKeys THEN Go("refused")
       ELSE Go(IF req.project /\ (AskedKeys # {} \/ TaskRun) THEN "project" ELSE IF req.row THEN "row" ELSE "derive")

\* project_at_one_block: the version and the project, each read at a final
\* block; at two blocks, the newer answer is read again at the older.
EachAtItsOwn(version_at, project_at) == <<version_at, project_at>>
AtOneBlock(version_at, project_at) ==
    LET older == IF version_at <= project_at THEN version_at ELSE project_at
    IN <<older, older>>

\* published_project.
PublishedProject(version_at, project_at) ==
    LET reads == AtOneBlock(version_at, project_at)
        version == blocks[reads[1]]  project == blocks[reads[2]]
    IN IF version.uuid # 0 /\ version.source = "WasmUrl" /\ project.uuid # 0
       THEN project.uuid ELSE 0

ReadProject(version_at, project_at) ==
    /\ at = "project"
    /\ LET uuid == PublishedProject(version_at, project_at)
       IN IF uuid = 0 THEN Go("refused")
          ELSE /\ got' = [got EXCEPT !.uuid = uuid] /\ at' = "vaults"
               /\ UNCHANGED <<outside, request, loaded, paid>>

vault_belongs_to(v) == v \in OwnVaults
KeyVaults == {k.vault : k \in AskedKeys} \ {Missing}

\* The names of the vaults, then what each says of its parent; authorize_keys
\* goes on to load them.
CheckVaults ==
    /\ at = "vaults"
    /\ IF \A v \in KeyVaults : vault_belongs_to(v) THEN Go("load") ELSE Go("refused")

\* ensure_customer_loaded: a first load is paid for by the vault.
Load(v, ground) ==
    /\ loaded' = loaded \cup {v}
    /\ paid' = IF v \in loaded THEN paid ELSE paid \cup {<<v, ground>>}

LoadKeyVault(v) ==
    /\ at = "load" /\ v \in KeyVaults \ loaded
    /\ Load(v, "owner") /\ UNCHANGED <<outside, request, at, got>>

AllLoaded ==
    /\ at = "load" /\ KeyVaults \subseteq loaded
    /\ Go(IF req.row THEN "row" ELSE "derive")

\* A vault that may not be served or cannot pay refuses the keys; a chain or
\* MPC that does not answer is an error, here and at every other read.
LoadRefused == at = "load" /\ ~(KeyVaults \subseteq loaded) /\ Go("refused")
ReadFails == at \in {"project", "vaults", "load", "row", "judge", "open"} /\ Go("error")

-----------------------------------------------------------------------------
\* decrypt_secret_row: the row and its vault in one view; a row named after
\* another agent is refused.
ReadRow ==
    /\ at = "row"
    /\ IF row = Missing THEN (IF Keyed THEN Go("derive") ELSE Go("not found"))
       ELSE IF row.foreign THEN Go("unauthorized")
       ELSE /\ got' = [got EXCEPT !.row = row] /\ at' = "judge"
            /\ UNCHANGED <<outside, request, loaded, paid>>

AfterVerdictLoadAnyway(verdict) == "open"
AfterVerdict(verdict) ==
    CASE verdict = "true" -> "open" [] verdict = "false" -> "unauthorized" [] OTHER -> "error"

\* judge_access.
JudgeRow == at = "judge" /\ Go(AfterVerdict(evaluate(got.row.access, Caller, world)))

LoadRowVault ==
    /\ at = "open" /\ at' = "decrypt"
    /\ IF got.row.vault = Missing THEN UNCHANGED <<loaded, paid>> ELSE Load(got.row.vault, "row")
    /\ UNCHANGED <<outside, request, got>>

Holds(v) == v = Missing \/ v \in loaded

DecryptRow ==
    /\ at = "decrypt"
    /\ IF ~Holds(got.row.vault) THEN Go("error")
       ELSE /\ got' = [got EXCEPT !.opened = TRUE, !.by_name = admits_by_name(got.row.access, Caller, world)]
            /\ at' = IF Keyed THEN "derive" ELSE "served"
            /\ UNCHANGED <<outside, request, loaded, paid>>

\* derive_keys: a vault evicted since it was checked is a 503.
MasterOf(vault) == vault
CanDerive(vault) == Holds(MasterOf(vault))

Derive ==
    /\ at = "derive"
    /\ IF \A k \in AskedKeys : CanDerive(k.vault)
       THEN /\ got' = [got EXCEPT !.keys = {[k EXCEPT !.vault = MasterOf(k.vault)] : k \in AskedKeys}]
            /\ at' = "task" /\ UNCHANGED <<outside, request, loaded, paid>>
       ELSE Go("unavailable")

\* The task key, beside a row that opened, under the row's own vault.
DeriveTaskKey ==
    /\ at = "task"
    /\ IF TaskRun /\ got.opened
       THEN IF Holds(got.row.vault)
            THEN /\ got' = [got EXCEPT !.task = [uuid |-> got.uuid, vault |-> got.row.vault, by_name |-> got.by_name]]
                 /\ at' = "served" /\ UNCHANGED <<outside, request, loaded, paid>>
            ELSE Go("error")
       ELSE Go("served")

\* decrypt_keyed: every family asked for must be answered, and the task key
\* beside a row that opened; anything else refuses the run.
FamiliesAnswered == \A k \in req.keys : \E g \in got.keys : g.family = k.family
TaskAnswered == req.task /\ got.opened => got.task # Missing

ReadAnswer ==
    /\ at \in {"served", "refused", "error", "unavailable", "unauthorized", "not found", "unreadable"}
    /\ Go(IF at = "served" /\ FamiliesAnswered /\ TaskAnswered THEN "runs" ELSE "run refused")

-----------------------------------------------------------------------------
\* External: the project on the contract, the row, the clock, an eviction.
RunDecided == at \in {"runs", "run refused"}
Now == blocks[Len(blocks)]
Block(project) ==
    /\ ~RunDecided /\ Len(blocks) < MaxBlocks /\ blocks' = Append(blocks, project)
    /\ UNCHANGED <<row, world, request, at, got, loaded, paid>>
DeleteProject == Now.uuid # 0 /\ Block([uuid |-> 0, source |-> "none"]) /\ UNCHANGED minted
CreateProject(source) ==
    /\ Now.uuid = 0 /\ Block([uuid |-> minted + 1, source |-> source]) /\ minted' = minted + 1
StoreRow(r) ==
    /\ ~RunDecided /\ row # r /\ row' = r
    /\ UNCHANGED <<blocks, minted, world, request, at, got, loaded, paid>>
TimePasses ==
    /\ ~RunDecided /\ world.now < MaxTime /\ world' = [world EXCEPT !.now = @ + 1]
    /\ UNCHANGED <<blocks, minted, row, request, at, got, loaded, paid>>
EvictVault(v) ==
    /\ ~RunDecided /\ v \in loaded /\ loaded' = loaded \ {v}
    /\ UNCHANGED <<outside, request, at, got, paid>>

HandlerStep ==
    \/ Validate \/ CheckVaults \/ AllLoaded \/ LoadRefused \/ ReadFails
    \/ \E i, j \in 1..Len(blocks) : ReadProject(i, j)
    \/ \E v \in KeyVaults : LoadKeyVault(v)
    \/ ReadRow \/ JudgeRow \/ LoadRowVault \/ DecryptRow \/ Derive \/ DeriveTaskKey
    \/ ReadAnswer
RunKeysNext ==
    \/ HandlerStep \/ DeleteProject
    \/ \E s \in {"WasmUrl", "GitHub"} : CreateProject(s)
    \/ \E r \in Rows : StoreRow(r)
    \/ \E v \in loaded : EvictVault(v)
    \/ TimePasses

RunKeysSpec == RunKeysInit /\ [][RunKeysNext]_runKeysVars

-----------------------------------------------------------------------------
\* Keys are bound to a project only while, in one block, it had the uuid they
\* are bound to and this build among its versions, whatever is deleted and
\* created again between the two reads; and the task key to the same one.
KeysOfOneProject ==
    got.uuid # 0 => \E i \in DOMAIN blocks :
                       blocks[i].uuid = got.uuid /\ blocks[i].source = "WasmUrl"

\* A run starts only with every key its code declares, each of the master its
\* declaration names, whatever was evicted meanwhile and however old the
\* keystore; and it holds a task key only beside a row that opened, under that
\* row's vault.
StartsWithItsKeys ==
    at = "runs" =>
       /\ req.keys = got.keys
       /\ got.task # Missing => got.opened /\ got.task.vault = got.row.vault /\ got.task.uuid = got.uuid

\* A vault pays for the loading of its master only for its owner's project, or
\* for a row that names it and admitted the caller.
StrangersPayNothing ==
    [][\A p \in paid' \ paid :
          \/ p[2] = "owner" /\ p[1] \in OwnVaults
          \/ p[2] = "row" /\ p[1] = got.row.vault /\ \E t \in 0..world.now :
                evaluate(got.row.access, Caller, [world EXCEPT !.now = t]) = "true"]_runKeysVars

\* The verdict on a row stands: it is the same however the branches of the
\* condition are ordered, and one given without some answer of the chain or
\* some fact of the run is the verdict whatever the answer is.
VerdictStands ==
    row # Missing =>
       LET verdict == evaluate(row.access, Caller, world)
       IN /\ evaluate(Mirror(row.access), Caller, world) = verdict
          /\ verdict # "unknown" =>
                \A w \in FilledIn(world, {"b1", "b2"}, {"ann", "bob"}) : evaluate(row.access, Caller, w) = verdict

\* A run's keys are its own project's and all that it declared, while the project is
\* recreated, vaults are evicted and rows rewritten under it.
KeysAsDeclared == KeysOfOneProject /\ StartsWithItsKeys
=============================================================================
