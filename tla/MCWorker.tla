------------------------------ MODULE MCWorker ------------------------------
(***************************************************************************)
(* The worker for TLC, one of its parts at a time: the monitor that reads  *)
(* the chain's events, the loop that claims and answers jobs, the code it  *)
(* builds, fetches and keeps, and the storage its guests share.  What each *)
(* sees of the others is an input of its own module.                       *)
(***************************************************************************)
EXTENDS MCEventMonitor, MCWorkerJobs, CodeCache, GuestStorage

VARIABLE part

-----------------------------------------------------------------------------
\* Two builders, of which one is native, and one executor, for TLC.  The
\* scopes: repositories that are refused; two builds of one commit, over two
\* days, with each kind of lock file; and runs beside builds, altered files and
\* restarts, with caches that hold the larger code alone.

MCSize(c) == IF c = UrlCode THEN 2 ELSE 1
OneBuilder == CHOOSE b \in Builders : TRUE
MCMode == [b \in Builders |-> IF b = OneBuilder THEN "native" ELSE "docker"]

UrlHost(addresses) == [https |-> TRUE, addresses |-> addresses]
MCPaths == {<<UrlHost({"public"})>>, <<UrlHost({"public"}), UrlHost({"public", "blocked"})>>}

Repo(lockfile, binaries) == [flaws |-> {}, lockfile |-> lockfile, binaries |-> binaries]
Flawed(flaw) == [Repo("none", {1}) EXCEPT !.flaws = {flaw}]
CodeScope(repo, builders, n, m, k) ==
    [project |-> repo, days |-> IF m = 0 THEN {1, 2} ELSE {1}, builders |-> builders,
     builds |-> n, runs |-> m, mishaps |-> k]
Running(n, m, k) == CodeScope(Repo("none", {1}), {OneBuilder}, n, m, k)
MCScopes ==
    {CodeScope(Flawed(f), Builders, 1, 0, 0) : f \in {"url", "scripts"}}
    \cup {CodeScope(Repo(l, {1, 2}), Builders, 2, 0, 0) : l \in {"current", "stale", "none"}}
    \cup {Running(2, 2, 0), Running(1, 2, 1), Running(1, 1, 2)}

-----------------------------------------------------------------------------
\* Two runs of a project, of two versions, that share its storage, for TLC: a
\* counter, a cell written sealed and raw, inserts, a published cell, and a new
\* version's reading.
CONSTANTS g1, g2

Op(what, mode, value, expected) ==
    [what |-> what, key |-> "k", mode |-> mode, value |-> value, expected |-> expected]
OnWorker(o) == [o EXCEPT !.key = "w"]
Counting == {Op("increment", "encrypted", 1, 0), Op("decrement", "encrypted", 1, 0)}
Sealing == {Op("set", "encrypted", 1, 0), Op("get", "encrypted", 0, 0), Op("set_if_equals", "encrypted", 0, 1),
            Op("set", "raw", 0, 0), Op("get", "raw", 0, 0), Op("set_if_equals", "raw", 1, 0),
            Op("delete", "raw", 0, 0)}
Inserting == {Op("set_if_absent", "encrypted", 7, 0), Op("set_if_absent", "raw", 1, 0),
              Op("increment", "encrypted", 1, 0), Op("has", "raw", 0, 0), Op("clear_all", "raw", 0, 0),
              Op("list_keys", "raw", 0, 0), Op("delete_unchecked", "raw", 0, 0)}
Publishing == {OnWorker(Op("set", "raw", 1, 0)), OnWorker(Op("set", "encrypted", 1, 0)),
               OnWorker(Op("get_worker", "encrypted", 0, 0)), OnWorker(Op("get_public", "raw", 0, 0)),
               Op("clear_all", "raw", 0, 0)}
Migrating == {Op("set", "encrypted", 1, 0), Op("get_by_version", "encrypted", 0, "v1"),
              Op("clear_version", "raw", 0, "v1"), Op("set_if_equals", "encrypted", 0, 1)}
MCPrograms == {Counting, Sealing, Inserting, Publishing, Migrating}
MCIntMin == -2
MCWasmHash == [g \in Guests |-> IF g = g1 THEN "v1" ELSE "v2"]

-----------------------------------------------------------------------------
MCVars == <<eventsVars, jobsVars, codeVars, storageVars, part>>

MCInit ==
    /\ part \in {"events", "jobs", "code", "storage"}
    /\ EventsInit /\ JobsInit /\ CodeInit /\ StorageInit
    /\ part # "events" => blocks = CHOOSE c \in Chains : TRUE
    /\ part # "jobs" => kind = [r \in Requests |-> [door |-> "chain", compile_only |-> FALSE]]
    /\ part # "code" => scope = CHOOSE s \in CodeScopes : TRUE
    /\ part # "storage" => program = Counting

\* Each of them ends: a chain that is read, a queue that is empty, runs that are over.
MCNext ==
    /\ UNCHANGED part
    /\ \/ /\ part = "events" /\ UNCHANGED <<jobsVars, codeVars, storageVars>>
          /\ EventsNext \/ UNCHANGED eventsVars
       \/ /\ part = "jobs" /\ UNCHANGED <<eventsVars, codeVars, storageVars>>
          /\ JobsNext \/ UNCHANGED jobsVars
       \/ /\ part = "code" /\ UNCHANGED <<eventsVars, jobsVars, storageVars>>
          /\ CodeNext \/ UNCHANGED codeVars
       \/ /\ part = "storage" /\ UNCHANGED <<eventsVars, jobsVars, codeVars>>
          /\ StorageNext \/ UNCHANGED storageVars

MCSpec == MCInit /\ [][MCNext]_MCVars
=============================================================================
