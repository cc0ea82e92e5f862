------------------------------ MODULE CodeCache ------------------------------
(***************************************************************************)
(* Where the code of a run comes from (worker/src/compiler, wasm_cache.rs, *)
(* compiled_cache.rs and the fetch of main.rs).  Two builders compile one  *)
(* commit and fetch one `wasm_url`, and upload to the coordinator.  One    *)
(* executor takes the bytes from its raw cache or from the coordinator,    *)
(* measures them, and runs the component its compiled cache or the engine  *)
(* makes of them.  A hash stands for the bytes it is of: the key of a      *)
(* `wasm_url` is its bytes, the key of a build is Coordinates and no       *)
(* bytes at all.  The files of both caches can be altered on disk, and the *)
(* executor can stop at any moment and start again.                        *)
(***************************************************************************)
EXTENDS Naturals, Sequences, FiniteSets, SequencesExt

CONSTANTS
    Builders,      \* workers that can compile
    Mode,          \* builder -> COMPILATION_MODE, "docker" or "native"
    Coordinates,   \* the key of a build: a hash of repo, commit and target
    UrlCode,       \* the bytes whose hash a `wasm_url` source names
    Stray,         \* other bytes
    SizeOf(_),     \* the size of some bytes
    MaxCacheSize,  \* WASM_CACHE_MAX_SIZE_MB
    MaxRedirects,  \* MAX_REDIRECTS
    UrlPaths,      \* the hosts a fetch is led through: sequences of [https, addresses]
    Nil,       \* nothing stored, read or held
    CodeScopes     \* bounds, as sets of behaviours: builders, builds, runs and mishaps (files
                   \* altered, uploads by others, restarts), the repository, and the days
                   \* on which crates.io resolves its manifest differently

VARIABLES
    scope,    \* the bounds of the behaviour at hand
    project,  \* the repository: its flaws, its lockfile, its binaries (by name)
    day,      \* today
    stored,     \* key -> the bytes the coordinator holds
    lock,     \* the builder that holds the build's lock
    builds,   \* builder -> the job in progress
    begun,    \* builds begun
    rawIndex, rawTotal, rawDisk,  \* WasmCache: entries, least recently used first; total_size; files
    compiled, compiledTotal, compiledDisk, \* CompiledCache, likewise
    software, \* the executor's engine and signing key, by number
    run,      \* the run in progress
    runs,     \* runs begun
    mishaps,
    outcomes      \* history: what builds of the commit came to, with the mode

codeVars == <<scope, project, day, stored, lock, builds, begun, rawIndex, rawTotal, rawDisk, compiled, compiledTotal,
              compiledDisk, software, run, runs, mishaps, outcomes>>
buildVars == <<lock, builds, begun, outcomes>>
rawVars == <<rawIndex, rawTotal, rawDisk>>
compiledVars == <<compiled, compiledTotal, compiledDisk>>
runVars == <<run, runs, software>>

NoRun == [step |-> "idle", key |-> Nil, meta |-> Nil, bytes |-> Nil, native |-> Nil, seen |-> {}]
NoBuild == [step |-> "idle", force |-> FALSE, result |-> Nil]
NoFile == [code |-> Nil, sig |-> Nil]
Keys == {Coordinates, UrlCode}
BuiltCode == [deps : {0} \cup UNION {s.days : s \in CodeScopes}, bin : UNION {s.project.binaries : s \in CodeScopes}, by : {"native", "docker"}]
Code == BuiltCode \cup {UrlCode, Stray}

\* History: what the coordinator held under the run's key since the run began.
WatchHeld == run' = IF run.key = Nil THEN run ELSE [run EXCEPT !.seen = @ \cup {stored'[run.key]}]

-----------------------------------------------------------------------------
(* Builds *)

\* The binary a build ships: of those cargo made, the first by name.
FindWasmFile(names) == CHOOSE n \in names : \A m \in names : n <= m

\* Cargo is held to a lock file that matches; with none, or on docker with one
\* that no longer matches, it resolves afresh: as the lock has it (0) or as
\* the day does.  Native refuses the stale lock.
Resolved(mode) ==
    IF project.lockfile = "current" THEN 0
    ELSE IF project.lockfile = "stale" /\ mode = "native" THEN Nil
    ELSE day

\* compile_with_isolation: build, then pick the file.
NativeBuild == [deps |-> Resolved("native"), bin |-> FindWasmFile(project.binaries), by |-> "native"]

\* compile_script: build, pick the file, then strip or optimise it.
DockerBuild == [deps |-> Resolved("docker"), bin |-> FindWasmFile(project.binaries), by |-> "docker"]

BuildOf(mode) == IF mode = "native" THEN NativeBuild ELSE DockerBuild

ValidRepoUrl == "url" \notin project.flaws
ValidGitRef == "ref" \notin project.flaws
ValidBuildTarget == "target" \notin project.flaws
CloneRepo == "clone" \notin project.flaws
NoBuildScripts == "scripts" \notin project.flaws

\* What a build is refused for. Only the native one reads the manifest for
\* build scripts and git dependencies.
Buildable(mode) ==
    /\ ValidRepoUrl /\ ValidGitRef /\ ValidBuildTarget /\ CloneRepo
    /\ mode = "native" => NoBuildScripts
    /\ project.binaries # {} /\ Resolved(mode) # Nil

-----------------------------------------------------------------------------
(* The coordinator *)

WasmMeta(key) == stored[key]
DownloadWasm(key) == stored[key]
UploadWasm(key, bytes) == stored' = [stored EXCEPT ![key] = bytes]
LockFree == lock = Nil

\* The release is by the key of the lock, whoever holds it; one that fails
\* leaves it to expire.
ReleaseLock == lock' \in {lock, Nil}

-----------------------------------------------------------------------------
(* A compile job *)

\* compile_local_with_options, to its first call: the coordinator is asked
\* unless the build is forced.
BeginBuild(b, force) ==
    /\ builds[b].step = "idle" /\ b \in scope.builders /\ begun < scope.builds
    /\ builds' = [builds EXCEPT ![b] = [NoBuild EXCEPT !.step = IF force THEN "lock" ELSE "ask", !.force = force]]
    /\ begun' = begun + 1
    /\ UNCHANGED <<scope, project, day, stored, lock, outcomes, rawVars, compiledVars, runVars, mishaps>>

\* What is stored is downloaded and returned; the caller uploads it again.
AskCoordinator(b) ==
    /\ builds[b].step = "ask"
    /\ builds' = [builds EXCEPT ![b] = IF WasmMeta(Coordinates) # Nil
                                       THEN [@ EXCEPT !.step = "upload", !.result = DownloadWasm(Coordinates)]
                                       ELSE [@ EXCEPT !.step = "lock"]]
    /\ UNCHANGED <<scope, project, day, stored, lock, begun, outcomes, rawVars, compiledVars, runVars, mishaps>>

\* The lock: another holder's build is taken if it is there by now, and
\* otherwise the job fails.
AcquireLock(b) ==
    /\ builds[b].step = "lock"
    /\ IF LockFree
       THEN /\ lock' = b
            /\ builds' = [builds EXCEPT ![b].step = "build"]
       ELSE /\ UNCHANGED lock
            /\ builds' = [builds EXCEPT ![b] = IF ~@.force /\ WasmMeta(Coordinates) # Nil
                                               THEN [@ EXCEPT !.step = "upload", !.result = DownloadWasm(Coordinates)]
                                               ELSE NoBuild]
    /\ UNCHANGED <<scope, project, day, stored, begun, outcomes, rawVars, compiledVars, runVars, mishaps>>

\* A call to the coordinator that fails ends the job.
CallFails(b) ==
    /\ builds[b].step \in {"ask", "lock"}
    /\ builds' = [builds EXCEPT ![b] = NoBuild]
    /\ UNCHANGED <<scope, project, day, stored, lock, begun, outcomes, rawVars, compiledVars, runVars, mishaps>>

\* COMPILATION_LOCK_TTL_SECONDS are over.
ExpireLock ==
    /\ lock # Nil
    /\ lock' = Nil
    /\ UNCHANGED <<scope, project, day, stored, builds, begun, outcomes, rawVars, compiledVars, runVars, mishaps>>

\* compile_from_github comes to an end: the directories or the container go,
\* whatever it came to; the lock is released; a failure ends the job.
FinishBuild(b) ==
    /\ builds[b].step = "build"
    /\ ReleaseLock
    /\ \/ /\ Buildable(Mode[b])
          /\ LET code == BuildOf(Mode[b]) IN
             /\ builds' = [builds EXCEPT ![b] = [@ EXCEPT !.step = "upload", !.result = code]]
             /\ outcomes' = outcomes \cup {code}
       \/ builds' = [builds EXCEPT ![b] = NoBuild] /\ UNCHANGED outcomes
    /\ UNCHANGED <<scope, project, day, stored, begun, rawVars, compiledVars, runVars, mishaps>>

\* The job's own time limit drops the build where it stands: what follows the
\* await inside it, the clean-up among it, is never reached.
TimeOutBuild(b) ==
    /\ builds[b].step = "build"
    /\ ReleaseLock
    /\ builds' = [builds EXCEPT ![b] = NoBuild]
    /\ UNCHANGED <<scope, project, day, stored, begun, outcomes, rawVars, compiledVars, runVars, mishaps>>

\* handle_compile_job uploads; an upload that fails is only logged.
UploadBuild(b) ==
    /\ builds[b].step = "upload"
    /\ \/ UploadWasm(Coordinates, builds[b].result)
       \/ UNCHANGED stored
    /\ builds' = [builds EXCEPT ![b] = NoBuild]
    /\ WatchHeld
    /\ UNCHANGED <<scope, project, day, lock, begun, outcomes, rawVars, compiledVars, runs, software, mishaps>>

\* https_url and checked_addresses, for the URL and for every redirect.
CheckedAddresses(addrs) == addrs # {} /\ "blocked" \notin addrs
FetchChecked(path) ==
    /\ Len(path) <= MaxRedirects + 1
    /\ \A i \in DOMAIN path : path[i].https /\ CheckedAddresses(path[i].addresses)

\* download_wasm_from_url: what was read within the limit, if it hashes to
\* what the source names.
DownloadWasmFromUrl(path, body, expected) ==
    IF FetchChecked(path) /\ SizeOf(body) <= MaxCacheSize /\ body = expected THEN body ELSE Nil

\* download_and_cache_wasm: whatever the coordinator already holds, or the file.
FetchUrl(b) ==
    /\ builds[b].step = "idle" /\ b \in scope.builders /\ begun < scope.builds
    /\ begun' = begun + 1
    /\ stored[UrlCode] = Nil
    /\ \E path \in UrlPaths, body \in {UrlCode, Stray} :
          LET got == DownloadWasmFromUrl(path, body, UrlCode) IN
          \/ got # Nil /\ UploadWasm(UrlCode, got)
          \/ UNCHANGED stored
    /\ WatchHeld
    /\ UNCHANGED <<scope, project, day, lock, builds, outcomes, rawVars, compiledVars, runs, software, mishaps>>

NextDay ==
    /\ day + 1 \in scope.days
    /\ day' = day + 1
    /\ UNCHANGED <<scope, project, stored, buildVars, rawVars, compiledVars, runVars, mishaps>>

-----------------------------------------------------------------------------
(* The two caches *)

SizeSum(entries) == FoldSeq(LAMBDA e, n : n + e.size, 0, entries)
Less(total, size) == IF total >= size THEN total - size ELSE 0
LessFile(entries, key) == SelectSeq(entries, LAMBDA e : e.key # key)
Indexed(entries, key) == \E i \in DOMAIN entries : entries[i].key = key
Entry(entries, key) == CHOOSE e \in ToSet(entries) : e.key = key

\* evict_oldest, for as long as what is to come does not fit.
Evict(entries, total, size) ==
    LET left(n) == Less(total, SizeSum(SubSeq(entries, 1, n)))
        n == CHOOSE n \in 0..Len(entries) : /\ n = Len(entries) \/ left(n) + size <= MaxCacheSize
                                            /\ \A m \in 0..(n - 1) : left(m) + size > MaxCacheSize
    IN [entries |-> SubSeq(entries, n + 1, Len(entries)), total |-> left(n),
        gone |-> {entries[i].key : i \in 1..n}]

RoomFor(disk, keys, none) == [k \in DOMAIN disk |-> IF k \in keys THEN none ELSE disk[k]]

\* WasmCache::get: an entry under a key that is not its hash is only good
\* while the coordinator reports that hash, and no file is good that does not
\* have the recorded hash.  Anything else is dropped, file and all.
RawGet(key, reported) ==
    IF ~Indexed(rawIndex, key) THEN [bytes |-> Nil, drop |-> FALSE]
    ELSE LET e == Entry(rawIndex, key) IN
         IF (e.hash = key \/ e.hash = reported) /\ rawDisk[key] = e.hash
         THEN [bytes |-> rawDisk[key], drop |-> FALSE]
         ELSE [bytes |-> Nil, drop |-> TRUE]

RawTouch(key) == Append(LessFile(rawIndex, key), Entry(rawIndex, key))

OldSize(entries, key) == IF Indexed(entries, key) THEN Entry(entries, key).size ELSE 0

\* WasmCache::put: make room, write the file, replace the entry.
RawPut(key, bytes) ==
    LET room == Evict(rawIndex, rawTotal, SizeOf(bytes))
    IN IF SizeOf(bytes) > MaxCacheSize THEN UNCHANGED rawVars
       ELSE \/ /\ rawDisk' = [RoomFor(rawDisk, room.gone, Nil) EXCEPT ![key] = bytes]
               /\ rawIndex' = Append(LessFile(room.entries, key), [key |-> key, hash |-> bytes, size |-> SizeOf(bytes)])
               /\ rawTotal' = Less(room.total, OldSize(room.entries, key)) + SizeOf(bytes)
            \* The write fails part of the way: the entry, if any, stays.
            \/ /\ rawDisk' = [RoomFor(rawDisk, room.gone, Nil) EXCEPT ![key] = Stray]
               /\ rawIndex' = room.entries /\ rawTotal' = room.total

\* What a signature of the compiled cache is over, and by which key.
Signature(key, code) == [by |-> software.key, key |-> key, code |-> code]

\* Mutant of Verified: the signature is not compared with the code.
VerifiedUnread(key, file) == file.sig # Nil /\ file.sig.by = software.key /\ file.sig.key = key

Verified(key, file) == file.sig = Signature(key, file.code)

\* CompiledCache::get: the signature first, then the engine takes the code or
\* does not.
CompiledGet(key) ==
    IF Indexed(compiled, key) /\ Verified(key, compiledDisk[key]) /\ compiledDisk[key].code.engine = software.engine
    THEN compiledDisk[key].code ELSE Nil

\* An entry get() would not serve is gone; Component::from_binary; then
\* CompiledCache::put: make room, write the code, then its signature.
CompiledPut(key, bytes) ==
    LET code == [of |-> bytes, engine |-> software.engine]
        kept == IF Indexed(compiled, key) THEN LessFile(compiled, key) ELSE compiled
        total == IF Indexed(compiled, key) THEN Less(compiledTotal, Entry(compiled, key).size) ELSE compiledTotal
        room == Evict(kept, total, SizeOf(bytes))
    IN IF SizeOf(bytes) > MaxCacheSize
       THEN /\ compiled' = kept /\ compiledTotal' = total
            /\ compiledDisk' = IF kept = compiled THEN compiledDisk ELSE [compiledDisk EXCEPT ![key] = NoFile]
       ELSE /\ compiledDisk' = [RoomFor(compiledDisk, room.gone, NoFile)
                                   EXCEPT ![key] = [code |-> code, sig |-> Signature(key, code)]]
            /\ compiled' = Append(LessFile(room.entries, key), [key |-> key, size |-> SizeOf(bytes)])
            /\ compiledTotal' = room.total + SizeOf(bytes)

-----------------------------------------------------------------------------
(* A run of the executor *)

BeginRun(key) ==
    /\ run.step = "idle" /\ runs < scope.runs
    /\ run' = [NoRun EXCEPT !.step = "meta", !.key = key, !.seen = {stored[key]}]
    /\ runs' = runs + 1
    /\ UNCHANGED <<scope, project, day, stored, buildVars, rawVars, compiledVars, software, mishaps>>

\* A worker that built the code a moment ago runs its own bytes.
BeginOwnRun(code) ==
    /\ run.step = "idle" /\ runs < scope.runs
    /\ run' = [NoRun EXCEPT !.step = "measure", !.key = Coordinates, !.bytes = code, !.seen = {code}]
    /\ runs' = runs + 1
    /\ UNCHANGED <<scope, project, day, stored, buildVars, rawVars, compiledVars, software, mishaps>>

\* wasm_meta: the hash of what is stored now, unless the call fails.
ReadMeta ==
    /\ run.step = "meta"
    /\ \E hash \in {WasmMeta(run.key), Nil} : run' = [run EXCEPT !.step = "fetch", !.meta = hash]
    /\ UNCHANGED <<scope, project, day, stored, buildVars, rawVars, compiledVars, runs, software, mishaps>>

\* fetch_wasm_bytes, first half.
FetchFromCache ==
    /\ run.step = "fetch"
    /\ LET got == RawGet(run.key, run.meta) IN
       /\ run' = IF got.bytes = Nil THEN [run EXCEPT !.step = "download"]
                 ELSE [run EXCEPT !.step = "measure", !.bytes = got.bytes]
       /\ IF got.drop
          THEN /\ rawIndex' = LessFile(rawIndex, run.key)
               /\ rawTotal' = Less(rawTotal, Entry(rawIndex, run.key).size)
               /\ rawDisk' = [rawDisk EXCEPT ![run.key] = Nil]
          ELSE /\ rawIndex' = IF got.bytes = Nil THEN rawIndex ELSE RawTouch(run.key)
               /\ UNCHANGED <<rawTotal, rawDisk>>
    /\ UNCHANGED <<scope, project, day, stored, buildVars, compiledVars, runs, software, mishaps>>

\* fetch_wasm_bytes, second half; a run whose download fails is refused.
DownloadCode ==
    /\ run.step = "download"
    /\ \/ /\ DownloadWasm(run.key) # Nil
          /\ run' = [run EXCEPT !.step = "measure", !.bytes = DownloadWasm(run.key)]
       \/ run' = NoRun
    /\ UNCHANGED <<scope, project, day, stored, buildVars, rawVars, compiledVars, runs, software, mishaps>>

\* executed_wasm_sha256: a `wasm_url` run of other bytes is refused.
Measure ==
    /\ run.step = "measure"
    /\ run' = IF run.key # Coordinates /\ run.bytes # run.key THEN NoRun ELSE [run EXCEPT !.step = "load"]
    /\ UNCHANGED <<scope, project, day, stored, buildVars, rawVars, compiledVars, runs, software, mishaps>>

\* The component to run, from the compiled cache under the measured hash or
\* from the bytes; with no compiled cache (P1, or none configured), from the
\* bytes.
LoadComponent ==
    /\ run.step = "load"
    /\ LET key == run.bytes
           cached == CompiledGet(key)
       IN \/ /\ cached # Nil
             /\ run' = [run EXCEPT !.step = "running", !.native = cached]
             /\ compiled' = Append(LessFile(compiled, key), Entry(compiled, key))
             /\ UNCHANGED <<compiledTotal, compiledDisk>>
          \/ /\ cached = Nil
             /\ run' = [run EXCEPT !.step = "running", !.native = [of |-> run.bytes, engine |-> software.engine]]
             /\ CompiledPut(key, run.bytes)
          \/ /\ run' = [run EXCEPT !.step = "running", !.native = [of |-> run.bytes, engine |-> software.engine]]
             /\ UNCHANGED compiledVars
    /\ UNCHANGED <<scope, project, day, stored, buildVars, rawVars, runs, software, mishaps>>

\* The guest has exited: the raw bytes are cached.
FinishRun ==
    /\ run.step = "running"
    /\ RawPut(run.key, run.bytes)
    /\ run' = NoRun
    /\ UNCHANGED <<scope, project, day, stored, buildVars, compiledVars, runs, software, mishaps>>

-----------------------------------------------------------------------------
(* What may befall the caches *)

Codes == {file.code : file \in Range(compiledDisk) \ {NoFile}} \cup {[of |-> Stray, engine |-> software.engine]}

\* A file of either cache is altered, or replaced by another.
AlterRaw(key, bytes) ==
    /\ mishaps < scope.mishaps
    /\ mishaps' = mishaps + 1
    /\ rawDisk[key] \notin {Nil, bytes}
    /\ rawDisk' = [rawDisk EXCEPT ![key] = bytes]
    /\ UNCHANGED <<scope, project, day, stored, buildVars, rawIndex, rawTotal, compiledVars, runVars>>

AlterCompiled(key, code, other) ==
    /\ mishaps < scope.mishaps
    /\ mishaps' = mishaps + 1
    /\ compiledDisk[key] # NoFile
    /\ compiledDisk' = [compiledDisk EXCEPT ![key] = [code |-> code, sig |-> compiledDisk[other].sig]]
    /\ UNCHANGED <<scope, project, day, stored, buildVars, rawVars, compiled, compiledTotal, runVars>>

\* The coordinator comes to hold other bytes under a key.
OtherUpload(key) ==
    /\ mishaps < scope.mishaps
    /\ mishaps' = mishaps + 1
    /\ stored' = [stored EXCEPT ![key] = Stray]
    /\ WatchHeld
    /\ UNCHANGED <<scope, project, day, buildVars, rawVars, compiledVars, runs, software>>

\* load_existing_entries of both caches, in whatever order the directory
\* lists them: a raw file is kept if it is named by its hash, a compiled one
\* if its signature is this worker's; the rest is removed.
Reloaded(kept, size(_)) ==
    {Evict(order, SizeSum(order), 0) : order \in
        {[i \in DOMAIN s |-> [key |-> s[i], hash |-> s[i], size |-> size(s[i])]] : s \in SetToSeqs(kept)}}

\* The executor stops, perhaps between the two files of a compiled entry, and
\* starts with the same or another engine and key.
RestartExecutor(sameKey, sameEngine, torn) ==
    /\ mishaps < scope.mishaps
    /\ mishaps' = mishaps + 1
    /\ torn => run.step = "load" /\ CompiledGet(run.bytes) = Nil
    /\ software' = [key |-> software.key + (IF sameKey THEN 0 ELSE 1),
                    engine |-> software.engine + (IF sameEngine THEN 0 ELSE 1)]
    /\ LET files == IF torn THEN [compiledDisk EXCEPT ![run.bytes].code = [of |-> run.bytes, engine |-> software.engine]]
                    ELSE compiledDisk
           raw == {k \in DOMAIN rawDisk : rawDisk[k] = k}
           good == {k \in DOMAIN files : files[k].sig # Nil /\ files[k].sig = [by |-> software'.key, key |-> k, code |-> files[k].code]}
       IN /\ \E r \in Reloaded(raw, SizeOf) :
                /\ rawIndex' = r.entries /\ rawTotal' = r.total
                /\ rawDisk' = RoomFor(rawDisk, (DOMAIN rawDisk \ raw) \cup r.gone, Nil)
          /\ \E c \in Reloaded(good, LAMBDA k : SizeOf(files[k].code.of)) :
                /\ compiled' = [i \in DOMAIN c.entries |-> [key |-> c.entries[i].key, size |-> c.entries[i].size]]
                /\ compiledTotal' = c.total
                /\ compiledDisk' = RoomFor(files, (DOMAIN files \ good) \cup c.gone, NoFile)
    /\ run' = NoRun
    /\ UNCHANGED <<scope, project, day, stored, buildVars, runs>>

CodeInit ==
    /\ scope \in CodeScopes /\ project = scope.project /\ day = 1
    /\ stored = [k \in Keys |-> Nil] /\ lock = Nil
    /\ builds = [b \in Builders |-> NoBuild] /\ begun = 0
    /\ rawIndex = <<>> /\ rawTotal = 0 /\ rawDisk = [k \in Keys |-> Nil]
    /\ compiled = <<>> /\ compiledTotal = 0 /\ compiledDisk = [c \in Code |-> NoFile]
    /\ software = [key |-> 1, engine |-> 1]
    /\ run = NoRun /\ runs = 0 /\ mishaps = 0
    /\ outcomes = {}

CodeNext ==
    \/ \E b \in Builders : \/ \E force \in BOOLEAN : BeginBuild(b, force)
                           \/ AskCoordinator(b) \/ AcquireLock(b) \/ CallFails(b) \/ FinishBuild(b) \/ TimeOutBuild(b)
                           \/ UploadBuild(b) \/ FetchUrl(b)
    \/ ExpireLock \/ NextDay
    \/ \E key \in Keys : BeginRun(key) \/ OtherUpload(key) \/ \E bytes \in {Stray} \cup Range(stored) : AlterRaw(key, bytes)
    \/ \E code \in outcomes : BeginOwnRun(code)
    \/ ReadMeta \/ FetchFromCache \/ DownloadCode \/ Measure \/ LoadComponent \/ FinishRun
    \/ \E key, other \in Code : \E code \in Codes : AlterCompiled(key, code, other)
    \/ \E sameKey, sameEngine, torn \in BOOLEAN : RestartExecutor(sameKey, sameEngine, torn)

CodeSpec == CodeInit /\ [][CodeNext]_codeVars

-----------------------------------------------------------------------------
\* A run executes what was measured and nothing else: the component it was
\* given is compiled from the measured bytes by this engine, the bytes of a
\* `wasm_url` are those the project names, and the bytes of a build are what
\* the coordinator stored under its coordinates at some moment of the run, or
\* what this worker built itself, whatever became of the files of the two caches.
RunsMeasuredCode ==
    run.step = "running" =>
        /\ run.native = [of |-> run.bytes, engine |-> software.engine]
        /\ run.key = UrlCode => run.bytes = UrlCode
        /\ run.key = Coordinates => run.bytes \in run.seen

\* Two builds of a commit that ships a matching lock file come to the same
\* bytes in the same compiler, on whichever day.
PinnedBuildsAgree ==
    project.lockfile = "current" => \A c, d \in outcomes : c.by = d.by => c = d

\* Both caches know their size and keep to it: total_size is the sum of the
\* entries through replacements, evictions, failed writes and restarts.
CachesWithinSize ==
    /\ rawTotal = SizeSum(rawIndex) /\ rawTotal <= MaxCacheSize
    /\ compiledTotal = SizeSum(compiled) /\ compiledTotal <= MaxCacheSize

\* Code is built, kept and run as it was measured, on every path it may come by.
CodeInOrder == RunsMeasuredCode /\ PinnedBuildsAgree /\ CachesWithinSize
=============================================================================
