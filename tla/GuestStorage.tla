---------------------------- MODULE GuestStorage ----------------------------
(***************************************************************************)
(* The storage host functions of a run (worker/src/outlayer_storage) and   *)
(* the keystore's two storage handlers.  Several runs may share the cell   *)
(* of one account of one project.  Every function is a sequence of calls   *)
(* to the coordinator, which keeps the records and handles one call at a   *)
(* time, and to the keystore, which seals each text under fresh randomness *)
(* and opens it.  Any call may fail, and one whose answer is lost may have *)
(* been carried out.                                                       *)
(***************************************************************************)
EXTENDS Integers, Sequences, FiniteSets, FiniteSetsExt

CONSTANTS
    Guests,          \* runs of the project
    WasmHash,        \* guest -> the version of the code it runs
    Cells,           \* the records' keys
    WorkerCells,     \* those of the account `@worker`
    StoragePrograms, \* for each project, the calls its code makes: what, key, mode, value,
                     \* expected (the version, for a call about one)
    IntMin, IntMax,  \* i64's range
    Garbage,         \* a value that is not eight bytes
    Absent,          \* no record; nothing read
    MaxRetries,      \* MAX_RETRIES of increment
    MaxGuestOps,     \* bound: calls of a guest
    MaxStorageFaults \* bound: failed or lost requests

VARIABLES
    program,  \* the calls of the project at hand
    cell,     \* key -> the record: its mode and bytes
    seals,    \* encryptions made so far
    call,     \* guest -> the host call in progress
    faulted,  \* requests that failed or were lost
    made,     \* guest -> calls made
    answers,  \* history: the answers given, with what each was for
    landed    \* history: the changes the counters' calls made to a cell

storageVars == <<program, cell, seals, call, faulted, made, answers, landed>>
own == <<program, faulted, made>>

\* Bytes are a text as given, or a text sealed by one of the encryptions.
Plain(v) == [value |-> v, seal |-> 0]
Sealed(v, n) == [value |-> v, seal |-> n]
NoCall == [what |-> "none", step |-> "idle"]
CounterCalls == {"increment", "decrement"}

StorageInit ==
    /\ program \in StoragePrograms
    /\ cell = [k \in Cells |-> Absent] /\ seals = 0
    /\ call = [g \in Guests |-> NoCall]
    /\ faulted = 0 /\ made = [g \in Guests |-> 0]
    /\ answers = {} /\ landed = {}

CallName(g) == <<g, made[g]>>

-----------------------------------------------------------------------------
\* The answer a guest gets ends its call.
Answer(g, said) ==
    /\ answers' = answers \cup {[for |-> CallName(g), op |-> call[g], said |-> said]}
    /\ call' = [call EXCEPT ![g] = NoCall]

\* The same call goes on at `step`.
GoOn(g, step) == call' = [call EXCEPT ![g].step = step] /\ UNCHANGED answers

\* -delta on an i64, which wraps.
Negated(d) == IF d = IntMin THEN IntMin ELSE -d
DeltaOf(o) == IF o.what = "decrement" THEN Negated(o.value) ELSE o.value

\* Which request a function makes first.
FirstStep(o) ==
    CASE o.what \in {"set", "set_if_absent"} /\ o.mode = "encrypted" -> "seal"
      [] o.what = "set_if_equals" /\ o.mode = "encrypted" -> "reread"
      [] o.what \in {"get", "get_worker", "get_by_version"} \cup CounterCalls -> "read"
      [] OTHER -> "request"

BeginStorageCall(g, o) ==
    /\ call[g] = NoCall /\ made[g] < MaxGuestOps
    /\ call' = [call EXCEPT ![g] = [what |-> o.what, key |-> o.key, mode |-> o.mode,
                  value |-> o.value, expected |-> o.expected, step |-> FirstStep(o),
                  by |-> WasmHash[g], seen |-> Absent, text |-> Plain(o.value), tries |-> 0]]
    /\ made' = [made EXCEPT ![g] = @ + 1]
    /\ UNCHANGED <<program, cell, seals, faulted, answers, landed>>

\* An increment that found the cell changed tries again, a few times.
TryAgain(g) ==
    IF call[g].tries + 1 = MaxRetries THEN Answer(g, [error |-> "retries"])
    ELSE /\ call' = [call EXCEPT ![g].tries = @ + 1, ![g].step = "read"]
         /\ UNCHANGED answers

\* set_if_equals found another value, or none, at the key.
NotEqual(g, current) ==
    IF call[g].what \in CounterCalls THEN TryAgain(g) ELSE Answer(g, [done |-> FALSE, value |-> current])

-----------------------------------------------------------------------------
\* The keystore seals the text a write will carry (encrypt_via_keystore).
SealText(g) ==
    /\ call[g].step = "seal"
    /\ seals' = seals + 1
    /\ call' = [call EXCEPT ![g].text = Sealed(@.value, seals + 1),
                            ![g].step = IF call[g].seen = Absent THEN "request" ELSE "swap"]
    /\ UNCHANGED <<cell, own, answers, landed>>

\* The functions that read a cell first: get and its kin, and an increment.  A
\* record of the other mode is refused, except to the project's own worker read.
OtherVersion(g) ==
    call[g].what = "get_by_version" /\ cell[call[g].key] # Absent /\ cell[call[g].key].by # call[g].expected
Found(g) == IF OtherVersion(g) THEN Absent ELSE cell[call[g].key]
WrongMode(g) ==
    /\ Found(g) # Absent /\ call[g].what # "get_worker"
    /\ Found(g).mode # call[g].mode

GetWorkerOwn(g) == Found(g).mode = "raw"
GetRaw(g) == call[g].mode = "raw"
ReadsAsGiven(g) == IF call[g].what = "get_worker" THEN GetWorkerOwn(g) ELSE GetRaw(g)

ReadCell(g) ==
    /\ call[g].step = "read"
    /\ LET found == Found(g)
       IN IF WrongMode(g) THEN Answer(g, [error |-> "mode"])
          ELSE IF found = Absent
          THEN IF call[g].what \in CounterCalls
               THEN /\ call' = [call EXCEPT ![g].step = "seal", ![g].seen = Absent,
                                            ![g].text = Plain(DeltaOf(call[g]))]
                    /\ UNCHANGED answers
               ELSE Answer(g, [done |-> TRUE, value |-> Absent])
          ELSE IF ReadsAsGiven(g) THEN Answer(g, [done |-> TRUE, value |-> found.bytes])
          ELSE /\ call' = [call EXCEPT ![g].seen = found.bytes, ![g].step = "open"]
               /\ UNCHANGED answers
    /\ UNCHANGED <<cell, seals, own, landed>>

\* The keystore opens what was read.  A get answers it; an increment computes
\* the new value, which must fit, and compares and swaps.
OpenText(g) ==
    /\ call[g].step = "open"
    /\ LET read == call[g].seen.value
           new == read + DeltaOf(call[g])
       IN IF call[g].what \notin CounterCalls THEN Answer(g, [done |-> TRUE, value |-> Plain(read)])
          ELSE IF read = Garbage THEN Answer(g, [error |-> "format"])
          ELSE IF new \notin IntMin..IntMax THEN Answer(g, [error |-> "overflow"])
          ELSE /\ call' = [call EXCEPT ![g].step = "reread", ![g].expected = read,
                                       ![g].text = Plain(new)]
               /\ UNCHANGED answers
    /\ UNCHANGED <<cell, seals, own, landed>>

\* set_if_equals reads the record anew: the sealed bytes it will compare by.
RereadCell(g) ==
    /\ call[g].step = "reread"
    /\ LET found == cell[call[g].key]
       IN IF found = Absent THEN NotEqual(g, Absent)
          ELSE IF found.mode = "raw" THEN Answer(g, [error |-> "mode"])
          ELSE /\ call' = [call EXCEPT ![g].seen = found.bytes, ![g].step = "compare"]
               /\ UNCHANGED answers
    /\ UNCHANGED <<cell, seals, own, landed>>

CompareText(g) ==
    /\ call[g].step = "compare"
    /\ IF call[g].seen.value = call[g].expected THEN GoOn(g, "seal")
       ELSE NotEqual(g, Plain(call[g].seen.value))
    /\ UNCHANGED <<cell, seals, own, landed>>

-----------------------------------------------------------------------------
\* External: what the coordinator does with a request that reaches it: the cells
\* after it, and its answer.  A write in the other mode is refused.
Stored(k, mode, bytes, by) == [cell EXCEPT ![k] = [mode |-> mode, bytes |-> bytes, by |-> by]]
Untouched(said) == [cells |-> cell, said |-> said]
OtherMode(k, mode) == cell[k] # Absent /\ cell[k].mode # mode

\* Compared by the bytes the caller names.
Swap(k, mode, bytes, new, by) ==
    IF cell[k] = Absent THEN Untouched([done |-> FALSE, value |-> Absent])
    ELSE IF OtherMode(k, mode) THEN Untouched([error |-> "mode"])
    ELSE IF cell[k].bytes # bytes THEN Untouched([done |-> FALSE, value |-> cell[k].bytes])
    ELSE [cells |-> Stored(k, mode, new, by), said |-> [done |-> TRUE, value |-> Absent]]

InsertIfAbsent(k, mode, bytes, by) ==
    IF cell[k] # Absent THEN Untouched([done |-> FALSE, value |-> Absent])
    ELSE [cells |-> Stored(k, mode, bytes, by), said |-> [done |-> TRUE, value |-> Absent]]

\* What a swap is compared by: the sealed bytes its expected value was opened from.
LatestBytes(o) == IF cell[o.key] = Absent THEN o.seen ELSE cell[o.key].bytes
ExpectedBytes(o) == o.seen

Done(value) == [done |-> TRUE, value |-> value]

SetCell(o, mode) ==
    IF OtherMode(o.key, mode) THEN Untouched([error |-> "mode"])
    ELSE [cells |-> Stored(o.key, mode, o.text, o.by), said |-> Done(Absent)]
SetSealed(o) == SetCell(o, "encrypted")
SetRaw(o) == SetCell(o, "raw")
SetPublic(o) == SetCell(o, "raw")
SetIfAbsent(o) == InsertIfAbsent(o.key, "encrypted", o.text, o.by)
SetIfAbsentRaw(o) == InsertIfAbsent(o.key, "raw", o.text, o.by)

SetIfEqualsRaw(o) == Swap(o.key, "raw", Plain(o.expected), o.text, o.by)
SetIfEqualsSealed(o) == Swap(o.key, "encrypted", ExpectedBytes(o), o.text, o.by)

HasKey(o) == Untouched([done |-> cell[o.key] # Absent, value |-> Absent])

DeleteKey(o) ==
    [cells |-> [cell EXCEPT ![o.key] = Absent],
     said |-> [done |-> cell[o.key] # Absent, value |-> Absent]]

\* The account's records go, all or those one build wrote; the project's stay.
Cleared(goes(_)) ==
    [cells |-> [k \in Cells |-> IF k \notin WorkerCells /\ cell[k] # Absent /\ goes(k) THEN Absent ELSE cell[k]],
     said |-> Done(Absent)]
ClearAll == Cleared(LAMBDA k : TRUE)
ClearVersion(o) == Cleared(LAMBDA k : cell[k].by = o.expected)

\* A record another project published: only one kept as given.
GetPublic(o) ==
    IF cell[o.key] # Absent /\ cell[o.key].mode = "encrypted" THEN Untouched([error |-> "mode"])
    ELSE Untouched(Done(IF cell[o.key] = Absent THEN Absent ELSE cell[o.key].bytes))

Coordinator(o) ==
    CASE o.what = "set" /\ o.mode = "encrypted" -> SetSealed(o)
      [] o.what = "set" /\ o.mode = "raw" -> IF o.key \in WorkerCells THEN SetPublic(o) ELSE SetRaw(o)
      [] o.step = "swap" -> SetIfEqualsSealed(o)
      [] o.what = "set_if_equals" /\ o.mode = "raw" -> SetIfEqualsRaw(o)
      [] o.what = "set_if_absent" /\ o.mode = "raw" -> SetIfAbsentRaw(o)
      [] o.step = "request" /\ (o.what \in CounterCalls \/ (o.what = "set_if_absent" /\ o.mode = "encrypted"))
           -> SetIfAbsent(o)
      [] o.what \in {"has", "has_unchecked"} -> HasKey(o)
      [] o.what \in {"delete", "delete_unchecked"} -> DeleteKey(o)
      [] o.what = "clear_all" -> ClearAll
      [] o.what = "clear_version" -> ClearVersion(o)
      [] o.what = "get_public" -> GetPublic(o)

Changes(g, after) ==
    landed' = IF after # cell /\ call[g].what \in CounterCalls
              THEN landed \cup {[for |-> CallName(g), try |-> call[g].tries, op |-> call[g]]} ELSE landed

\* What an answered request means to the function that made it.  A swap another
\* writer beat is opened for the caller, or tried again.
Heard(g, said) ==
    IF "error" \in DOMAIN said THEN Answer(g, said)
    ELSE IF call[g].what \in CounterCalls
    THEN IF said.done THEN Answer(g, [done |-> TRUE, value |-> Plain(call[g].text.value)]) ELSE TryAgain(g)
    ELSE IF call[g].step = "swap" /\ ~said.done /\ said.value # Absent
    THEN Answer(g, [done |-> FALSE, value |-> Plain(said.value.value)])
    ELSE Answer(g, said)

Request(g) ==
    /\ call[g].step \in {"request", "swap"} /\ call[g].what # "list_keys"
    /\ LET outcome == Coordinator(call[g])
       IN /\ cell' = outcome.cells /\ Changes(g, outcome.cells)
          /\ Heard(g, outcome.said)
    /\ UNCHANGED <<seals, own>>

\* A request that fails, or whose answer is lost after it was carried out, is an
\* error to the guest; has and delete of the first interface answer FALSE.
FailedAs(g) ==
    IF call[g].what \in {"has_unchecked", "delete_unchecked"} THEN [done |-> FALSE, value |-> Absent]
    ELSE [error |-> "failed"]

StorageCallFails(g) ==
    /\ call[g] # NoCall /\ faulted < MaxStorageFaults /\ faulted' = faulted + 1
    /\ \/ UNCHANGED <<cell, landed>>
       \/ /\ call[g].step \in {"request", "swap"} /\ call[g].what # "list_keys"
          /\ cell' = Coordinator(call[g]).cells /\ Changes(g, cell')
    /\ Answer(g, FailedAs(g))
    /\ UNCHANGED <<program, seals, made>>

\* list_keys: the account's records; a sealed name the keystore does not open is
\* left out.
ListKeys(g) ==
    /\ call[g].what = "list_keys"
    /\ LET there == {k \in Cells \ WorkerCells : cell[k] # Absent}
           sealed == {k \in there : cell[k].mode = "encrypted"}
       IN \E missed \in SUBSET sealed :
            /\ Cardinality(missed) + faulted <= MaxStorageFaults
            /\ faulted' = faulted + Cardinality(missed)
            /\ Answer(g, [listed |-> there \ missed, stored |-> there])
    /\ UNCHANGED <<program, cell, seals, made, landed>>

StorageNext ==
    \E g \in Guests :
       \/ \E o \in program : BeginStorageCall(g, o)
       \/ SealText(g) \/ ReadCell(g) \/ OpenText(g) \/ RereadCell(g) \/ CompareText(g)
       \/ Request(g) \/ ListKeys(g) \/ StorageCallFails(g)

StorageSpec == StorageInit /\ [][StorageNext]_storageVars

-----------------------------------------------------------------------------
\* What a counter's call asks to be added.
Asked(o) == IF o.what = "decrement" THEN -o.value ELSE o.value

\* Counters add up under concurrent runs, retries and lost answers: a cell that
\* only increments and decrements touch holds the sum of the calls that reached
\* it, each of them once; a call answered with a value is among them, and one
\* that ran out of retries is not.
CountsAddUp ==
    \A k \in Cells :
       (\A o \in program : o.key = k => o.what \in CounterCalls) =>
          LET there == {x \in landed : x.op.key = k}
          IN /\ \A x, y \in there : x.for = y.for => x = y
             /\ (IF cell[k] = Absent THEN 0 ELSE cell[k].bytes.value)
                   = MapThenSumSet(LAMBDA x : Asked(x.op), there)
             /\ \A a \in answers : a.op.key = k =>
                   /\ "done" \in DOMAIN a.said => \E x \in there : x.for = a.for
                   /\ a.said = [error |-> "retries"] => ~ \E x \in there : x.for = a.for

\* A guest is only ever handed a text as some guest gave it, never sealed bytes,
\* whichever writes, deletions and changes of mode come between a call's steps.
HandedAsWritten ==
    \A a \in answers :
       ("value" \in DOMAIN a.said /\ a.said.value # Absent) => a.said.value.seal = 0

\* Storage keeps its word to two runs that use it at once.
StorageAsWritten == CountsAddUp /\ HandedAsWritten
=============================================================================
