---------------------------- MODULE VaultMonitor ----------------------------
(***************************************************************************)
(* The vault monitor (outlayer-monitor/src): it reads final blocks in      *)
(* order from an indexer, flags a vault that asks MPC for one path twice   *)
(* within a window of blocks, and passes vault events on.  The next height *)
(* is kept in a checkpoint file, everything else in memory.                *)
(*                                                                         *)
(* One loop does all the work; each call it awaits is a step, after which  *)
(* the process may be gone.  An event is named <<height, position>>.       *)
(***************************************************************************)
EXTENDS Maps, Integers, SequencesExt

CONSTANTS
    Lakes,         \* the indexers' chains: a sequence of events per height
    WindowBlocks,  \* window_blocks
    FirstHeight,   \* start_block_height
    Unset,         \* no checkpoint file; no event in hand
    MaxRuns        \* bound: starts of the process

VARIABLES
    lake, last_final,            \* external: the chain, and its last final block
    checkpoint,                  \* last_processed_block in the file, or Unset
    next_height, buffer,         \* StreamState
    seen, high_water,            \* Detector
    hand,                        \* the event being handled and the call it waits for
    run, auto_ban,               \* which start of the process this is; its auto_ban_enabled
    calls,                       \* the requests made: <<what, event>>
    observed, flagged            \* history: <<run, event>>s, the first in order

source == <<checkpoint, next_height, buffer>>
process == <<run, auto_ban>>
detector == <<seen, high_water>>
monitorVars == <<lake, last_final, source, detector, hand, process, calls, observed, flagged>>

\* An MPC request names its vault and path; a vault event its kind.
EventAt(id) == lake[id[1]][id[2]]
Pair(id) == <<EventAt(id).vault, EventAt(id).path>>

MonitorInit ==
    /\ lake \in Lakes /\ last_final = FirstHeight
    /\ checkpoint = Unset /\ next_height = FirstHeight /\ buffer = <<>>
    /\ seen = EmptyMap /\ high_water = 0
    /\ hand = Unset /\ run = 1 /\ auto_ban \in BOOLEAN
    /\ calls = {} /\ observed = <<>> /\ flagged = {}

-----------------------------------------------------------------------------
\* fetch_one_block: the events of the next final block, none for a height the
\* chain skipped, join the buffer; the checkpoint is written, or that fails.
NextHeight(written) == next_height + 1

FetchOneBlock(written) ==
    /\ hand = Unset /\ buffer = <<>>
    /\ next_height <= last_final
    /\ buffer' = [i \in DOMAIN lake[next_height] |-> <<next_height, i>>]
    /\ next_height' = NextHeight(written)
    /\ checkpoint' = IF written THEN next_height ELSE checkpoint
    /\ UNCHANGED <<lake, last_final, detector, hand, process, calls, observed, flagged>>

\* evict_aged_out, once the high water rises to `height`.
InsideWindow(height) ==
    {p \in DOMAIN seen : seen[p][1] > height - WindowBlocks}
Fresh(height) ==
    {p \in DOMAIN seen : seen[p][1] >= height - WindowBlocks}

\* Detector::observe: the older of two receipts stays on record.
Observe(id) ==
    LET kept == IF id[1] > high_water THEN DropAll(seen, DOMAIN seen \ Fresh(id[1])) ELSE seen
        first == Pair(id) \notin DOMAIN kept
        older == IF first \/ id[1] < kept[Pair(id)][1] THEN id ELSE kept[Pair(id)]
    IN /\ high_water' = IF id[1] > high_water THEN id[1] ELSE high_water
       /\ seen' = Put(kept, Pair(id), older)
       /\ observed' = Append(observed, <<run, id>>)
       /\ IF first THEN hand' = Unset /\ UNCHANGED flagged
          ELSE hand' = [event |-> id, call |-> "alert"] /\ flagged' = flagged \cup {<<run, id>>}

\* The loop takes the next event: a request goes to the detector, a vault
\* event to the forwarder.
TakeEvent ==
    /\ hand = Unset /\ buffer # <<>>
    /\ buffer' = Tail(buffer)
    /\ IF EventAt(Head(buffer)).kind = "mpc" THEN Observe(Head(buffer))
       ELSE /\ hand' = [event |-> Head(buffer), call |-> "forward"]
            /\ UNCHANGED <<detector, observed, flagged>>
    /\ UNCHANGED <<lake, last_final, checkpoint, next_height, process, calls>>

\* The call in hand is made, `next` is the one after it, or none.
Call(next) ==
    /\ calls' = calls \cup {<<hand.call, hand.event>>}
    /\ hand' = IF next = Unset THEN Unset ELSE [hand EXCEPT !.call = next]
    /\ UNCHANGED <<lake, last_final, source, detector, process, observed, flagged>>
Pass(next) ==
    /\ hand' = IF next = Unset THEN Unset ELSE [hand EXCEPT !.call = next]
    /\ UNCHANGED <<lake, last_final, source, detector, process, calls, observed, flagged>>

InHand(call) == hand # Unset /\ hand.call = call

\* handle_verdict: the alert first, delivered or not, then the keystore.
Alert == InHand("alert") /\ Call("ban")

\* ban_and_evict: with the switch off only the alert; an answer in the 500s
\* may hide a ban that landed, so the eviction follows; a refusal or no answer
\* ends it.
Ban ==
    /\ InHand("ban")
    /\ IF auto_ban THEN Call("evict") \/ Call(Unset) ELSE Pass(Unset)

Evict == InHand("evict") /\ Call(Unset)

\* External: what the chain says now of the event's subject: no later event of
\* the vault in a final block says otherwise.
StillSo(id) ==
    ~ \E h \in id[1]..last_final : \E i \in DOMAIN lake[h] :
         /\ h > id[1] \/ i > id[2]
         /\ lake[h][i].kind # "mpc" /\ lake[h][i].vault = EventAt(id).vault
         /\ {lake[h][i].kind, EventAt(id).kind} = {"vault_banned", "vault_unbanned"}

\* forward: an event the chain no longer bears out, or cannot be asked about,
\* is dropped.  A finished recovery evicts the vault in any case.
AfterForward == IF EventAt(hand.event).kind = "recovery_finalized" THEN "evict" ELSE Unset

Forward ==
    /\ InHand("forward")
    /\ \/ StillSo(hand.event) /\ Call(AfterForward)
       \/ Pass(AfterForward)

\* LakeSource::new and Detector::new: from the block after the checkpoint, or
\* the configured one; the buffer and the window are empty.
StartMonitor ==
    /\ run < MaxRuns /\ run' = run + 1 /\ auto_ban' \in BOOLEAN
    /\ next_height' = IF checkpoint = Unset THEN FirstHeight ELSE checkpoint + 1
    /\ buffer' = <<>> /\ seen' = EmptyMap /\ high_water' = 0 /\ hand' = Unset
    /\ UNCHANGED <<lake, last_final, checkpoint, calls, observed, flagged>>

\* External: a block becomes final.
Finalize ==
    /\ last_final < Len(lake) /\ last_final' = last_final + 1
    /\ UNCHANGED <<lake, source, detector, hand, process, calls, observed, flagged>>

MonitorNext ==
    \/ \E written \in BOOLEAN : FetchOneBlock(written)
    \/ TakeEvent \/ Alert \/ Ban \/ Evict \/ Forward
    \/ StartMonitor \/ Finalize

MonitorSpec == MonitorInit /\ [][MonitorNext]_monitorVars

-----------------------------------------------------------------------------
\* Two receipts of a pair no further apart than the window.
Repeats(x, y) ==
    /\ x # y /\ Pair(x) = Pair(y)
    /\ x[1] - y[1] <= WindowBlocks /\ y[1] - x[1] <= WindowBlocks

\* No repetition within the window goes unflagged while the process lives:
\* through any aging-out, and with the older receipt kept on record, a pair of
\* which two receipts within the window were observed has been flagged, and the
\* alert sent before the loop goes on.
RepeatsFlagged ==
    \A x, y \in Range(observed) :
       (x[1] = y[1] /\ Repeats(x[2], y[2])) =>
          \E f \in flagged :
             /\ f[1] = x[1] /\ Pair(f[2]) = Pair(x[2])
             /\ (f[1] = run /\ hand = Unset) => <<"alert", f[2]>> \in calls
=============================================================================
