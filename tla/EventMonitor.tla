---------------------------- MODULE EventMonitor ----------------------------
(***************************************************************************)
(* The worker's event monitor (worker/src/event_monitor.rs).  The head     *)
(* reads the chain's blocks in order and relays the contract's events to   *)
(* the coordinator; a block it cannot read, or cannot finish, is deferred  *)
(* and delivered later, out of order.  The queue of deferred blocks lives  *)
(* in memory, the head is saved with every heartbeat.                      *)
(*                                                                         *)
(* A block holds at most one event of each kind.  "plain" stands for the   *)
(* events relayed as they are whatever their order: a top-up, a storage    *)
(* cleanup, a project's transfer.  "meta" is an execution request made by  *)
(* a Delegate in the block before; read without that Delegate on record    *)
(* it is "bare", in the shape of a "call" that a contract makes.           *)
(***************************************************************************)
EXTENDS Maps, Integers, FiniteSets, FiniteSetsExt

CONSTANTS
    Chains,         \* the chains: sequences of sets of kinds, one per block
    LateAfter,      \* LATE_AFTER_BLOCKS
    TipAge,         \* blocks in which a tip read is reused (TIP_REUSE)
    MaxAge,         \* DEFERRED_MAX_AGE_BLOCKS
    MaxLen,         \* DEFERRED_MAX_LEN
    Lookback,       \* DELEGATE_LOOKBACK_BLOCKS
    DelegatedTtl,   \* DELEGATED_TTL_BLOCKS
    Backfill,       \* DELEGATED_BACKFILL_BLOCKS
    ProbeAhead,     \* PROBE_AHEAD_BLOCKS
    FarSteps,       \* FAR_PROBE_STEPS
    MaxCatchup,     \* MAX_CATCHUP_BLOCKS
    StartBlock,     \* START_BLOCK_HEIGHT
    Nothing,        \* no value
    MaxRestarts     \* bound: restarts of the worker

VARIABLES
    blocks, tip,    \* the chain and its final block
    head,           \* current_block
    held_events,    \* what is left of the head's block while it is held, or Nothing
    deferred,       \* DeferredBlocks: height -> Nothing (unread) or the events left
    delegated,      \* blocks whose Delegates are remembered
    cursor,         \* the head as the coordinator last saved it
    restarts,
    wallet,         \* the block of the wallet's state that the coordinator applied last
    fate,           \* history: <<height, kind>> -> how its delivery ended
    lost            \* history: blocks given up, or forgotten in a restart

queue == <<head, held_events, deferred, delegated>>
eventsVars == <<blocks, tip, queue, cursor, restarts, wallet, fate, lost>>

Heights == DOMAIN blocks
KindOf(event) == IF event = "bare" THEN "meta" ELSE event

EventsInit ==
    /\ blocks \in Chains
    /\ tip = StartBlock /\ head = StartBlock /\ cursor = StartBlock
    /\ held_events = Nothing /\ deferred = EmptyMap
    /\ delegated = {} /\ restarts = 0
    /\ wallet = 0 /\ fate = EmptyMap /\ lost = {}

-----------------------------------------------------------------------------
\* A delete whose yield may be gone is dropped; `late` is TRUE, FALSE or, when
\* the chain tip could not be read, Nothing.
DeleteDecision(late) ==
    CASE late = FALSE -> "AsIs" [] late = TRUE -> "Drop" [] late = Nothing -> "Later"

\* The one place each event's late and out-of-order handling is decided.
RelayDecision(event, delivery, late) ==
    CASE event \in {"request", "meta", "bare", "call"} ->
            IF delivery = "InOrder" /\ late = FALSE THEN "AsIs" ELSE "IfPendingAtFinal"
      [] event = "create" -> IF delivery = "InOrder" THEN "AsIs" ELSE "IfKeyExistsAtFinal"
      [] event = "delete" -> DeleteDecision(late)
      [] event = "wallet" -> IF delivery = "InOrder" THEN "AsIs" ELSE "WalletStateAtFinal"
      [] event \in {"plain", "purchase"} -> "AsIs"

\* How carrying out a decision may end: relayed to the coordinator, closed
\* without (dropped, refused, or failed and logged), or to be delivered again.
RelayResults(event, decision) ==
    CASE decision = "AsIs" -> {"relayed", "closed"} \cup (IF event = "purchase" THEN {"again"} ELSE {})
      [] decision \in {"IfPendingAtFinal", "IfKeyExistsAtFinal"} -> {"relayed", "closed", "again"}
      [] decision = "WalletStateAtFinal" -> {"relayed", "again"}
      [] decision = "Later" -> {"again"}
      [] decision = "Drop" -> {"closed"}

\* The age of a block, against a tip that may be a little old, or unknown.
Lateness(height) ==
    {Nothing} \cup {t - height > LateAfter : t \in Max({1, tip - TipAge})..tip}

\* An unread block just before `height`, and the calls that then wait.
UnreadJustBefore(height) ==
    \E h \in DOMAIN deferred : h \in (height - Lookback)..(height - 1) /\ deferred[h] = Nothing
MustWait(height, events) ==
    IF UnreadJustBefore(height) THEN events \cap {"bare", "call"} ELSE {}

\* The wallet's state at a block: the last wallet event up to it.  A final
\* block below NotBefore may predate what the head has relayed.
WalletStateAt(at) == Max({0} \cup {h \in Heights : h <= at /\ "wallet" \in blocks[h]})
NotBefore(height) == Max({height, head - 1})

WalletAfter(height, delivery) ==
    IF delivery = "InOrder" THEN {height}
    ELSE {WalletStateAt(at) : at \in NotBefore(height)..tip}

\* deliver: relay what does not wait and say what is `left`.
Deliver(height, events, delivery, left) ==
    LET waiting == MustWait(height, events)
        tried == events \ waiting
    IN \E late \in Lateness(height) :
       \E result \in [tried -> {"relayed", "closed", "again"}] :
          /\ \A e \in tried : result[e] \in RelayResults(e, RelayDecision(e, delivery, late))
          /\ left = waiting \cup {e \in tried : result[e] = "again"}
          /\ fate' = [x \in DOMAIN fate \cup {<<height, KindOf(e)>> : e \in tried \ left} |->
                        IF x \in DOMAIN fate THEN fate[x]
                        ELSE LET e == CHOOSE e \in tried : KindOf(e) = x[2]
                             IN IF e = "bare" /\ result[e] = "relayed" THEN "as a call" ELSE result[e]]
          /\ IF "wallet" \in tried /\ result["wallet"] = "relayed"
             THEN wallet' \in WalletAfter(height, delivery)
             ELSE wallet' = wallet

-----------------------------------------------------------------------------
\* process_shards: the Delegates remembered once `height` is read, and its
\* events, each request attributed as far as they tell.
Remembered(height) == {d \in delegated : d + DelegatedTtl >= height} \cup {height}
EventsOf(height) ==
    {IF k = "meta" /\ height - 1 \notin Remembered(height) THEN "bare" ELSE k : k \in blocks[height]}

\* The queue holds the newest MaxLen blocks, and every turn of the loop begins
\* by giving up what is too far behind the head.
WithinLen(q) == {h \in DOMAIN q : Cardinality({x \in DOMAIN q : x > h}) < MaxLen}
WithinAge(q, next) ==
    {h \in DOMAIN q : h >= next - (IF q[h] = Nothing THEN MaxAge ELSE 2 * MaxAge)}

\* set_head, after the queue became q, and the start of the next turn.
SetHead(next, q) ==
    LET given_up == DOMAIN q \ (WithinLen(q) \cap WithinAge(q, next))
    IN /\ head' = next /\ held_events' = Nothing
       /\ deferred' = DropAll(q, given_up)
       /\ lost' = lost \cup given_up

\* The head's block is read, or tried again while it is held, and delivered.
\* With events left it is held, unless some wait for an unread block or it was
\* held long enough; then they are queued.
ScanHead ==
    LET events == IF held_events = Nothing THEN EventsOf(head) ELSE held_events
    IN /\ head <= tip
       /\ delegated' = IF held_events = Nothing THEN Remembered(head) ELSE delegated
       /\ \E left \in SUBSET events :
             /\ Deliver(head, events, "InOrder", left)
             /\ \/ left = {} /\ SetHead(head + 1, deferred)
                \/ left # {} /\ SetHead(head + 1, Put(deferred, head, left))
                \/ /\ left # {} /\ MustWait(head, events) = {}
                   /\ held_events' = left
                   /\ UNCHANGED <<head, deferred, lost>>
       /\ UNCHANGED <<blocks, tip, cursor, restarts>>

\* The blocks from the head up to `next` join the queue unread.
HeadDeferred(next) == Put(deferred, head, Nothing)
Deferred(next) == [h \in DOMAIN deferred \cup head..(next - 1) |-> GetOr(deferred, h, Nothing)]

\* The head's block does not read: a block that reads is found just ahead, or
\* after an outage further on, or the head gives its one block up for now.
ProbedAhead == (head + 1)..Min({head + ProbeAhead, tip})
ProbedFar == {head + 1} \cup {h \in {head + step : step \in FarSteps} : h < tip}

SkipUnreadable(next) ==
    /\ held_events = Nothing
    /\ head < tip
    /\ next \in ProbedAhead \cup ProbedFar
    /\ SetHead(next, Deferred(next))
    /\ UNCHANGED <<blocks, tip, delegated, cursor, restarts, wallet, fate>>

\* A due block of the queue is read, if it was not, and delivered out of order.
ServeDeferred(height) ==
    LET events == IF deferred[height] = Nothing THEN EventsOf(height) ELSE deferred[height]
    IN /\ held_events = Nothing
       /\ height \in DOMAIN deferred
       /\ delegated' = IF deferred[height] = Nothing THEN Remembered(height) ELSE delegated
       /\ \E left \in SUBSET events :
             /\ Deliver(height, events, "OutOfOrder", left)
             /\ deferred' = IF left = {} THEN Drop(deferred, height) ELSE Put(deferred, height, left)
       /\ UNCHANGED <<blocks, tip, head, held_events, cursor, restarts, lost>>

\* The heartbeat task saves the head; the coordinator keeps it.
Heartbeat ==
    /\ cursor # head /\ cursor' = head
    /\ UNCHANGED <<blocks, tip, queue, restarts, wallet, fate, lost>>

\* EventMonitor::new: from the saved block, or the latest when that is too far
\* behind and could be read; without an answer from the coordinator from the
\* configured block.  The queue is gone, the Delegates of the blocks just
\* before that read are remembered again.
StartBlocks ==
    {StartBlock, cursor} \cup (IF tip > cursor + MaxCatchup THEN {tip} ELSE {})

Backfilled(start) == SUBSET ((start - Backfill)..(start - 1) \cap Heights)

Restart(start) ==
    /\ restarts < MaxRestarts /\ restarts' = restarts + 1
    /\ head' = start /\ held_events' = Nothing /\ deferred' = EmptyMap
    /\ delegated' \in Backfilled(start)
    /\ lost' = {h \in lost \cup DOMAIN deferred \cup head..start : h < start}
    /\ fate' = [x \in {x \in DOMAIN fate : x[1] < start} |-> fate[x]]
    /\ UNCHANGED <<blocks, tip, cursor, wallet>>

\* External: the chain makes a final block.
NewBlock ==
    /\ tip + 1 \in Heights /\ tip' = tip + 1
    /\ UNCHANGED <<blocks, queue, cursor, restarts, wallet, fate, lost>>

EventsNext ==
    \/ ScanHead \/ Heartbeat \/ NewBlock
    \/ \E h \in Heights : SkipUnreadable(h) \/ ServeDeferred(h)
    \/ \E start \in StartBlocks : Restart(start)

EventsSpec == EventsInit /\ [][EventsNext]_eventsVars

-----------------------------------------------------------------------------
\* Every event behind the head is in one place: its delivery has ended, or its
\* block is queued with the event still to deliver, or the block was given up;
\* no event is both done and queued, and no block queued and still ahead.
OnePlace ==
    /\ \A h \in DOMAIN deferred : h < head
    /\ \A h \in StartBlock..(head - 1) : \A k \in blocks[h] :
          LET done == <<h, k>> \in DOMAIN fate
              queued == /\ h \in DOMAIN deferred
                        /\ deferred[h] = Nothing \/ \E e \in deferred[h] : KindOf(e) = k
          IN (done \/ queued \/ h \in lost) /\ ~(done /\ queued)

\* The comment in deliver: a meta-transaction whose Delegate is unread waits,
\* and is not run as a call of the relayer.  Only where the Delegate's block
\* was given up can it be told no better.
MetaAttributed ==
    \A h \in Heights :
       (<<h, "meta">> \in DOMAIN fate /\ fate[<<h, "meta">>] = "as a call") => h - 1 \in lost
=============================================================================
