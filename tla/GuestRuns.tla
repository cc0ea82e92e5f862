---------------------------- MODULE GuestRuns ----------------------------
(***************************************************************************)
(* One run of a guest after another on the worker's two shared engines:    *)
(* the executor tries the formats a binary may have, gives the store its   *)
(* fuel and its epoch deadline, starts the ticker that advances the        *)
(* engine's epoch, and ends the run by the guest's own answer, by fuel, by *)
(* the epoch, by the wall clock or by two requests of the guest's that     *)
(* timed out.  What the job is charged is decided from how it ended.       *)
(*                                                                         *)
(* The epoch of an engine is kept as the ticks a store has left before its *)
(* deadline; the first tick of a ticker comes with its start.              *)
(***************************************************************************)
EXTENDS Integers, FiniteSets, Sequences

CONSTANTS
    Binaries,      \* what may be asked to run: records of GuestBinary
    Hosts,         \* the hosts a guest may name; NoHost is a request with none
    NoHost,
    Unset,
    MinSeconds,    \* the least time a run is given
    Grace,         \* the seconds the wall clock allows past the epoch deadline
    Spare,         \* the ticks a ticker makes past the deadline
    MaxInstructions,
    MemoryFloor, MemoryCeiling,
    DefaultHttpTimeout,
    AbortThreshold,
    MaxInFlight,   \* bound on a guest's requests on the wire
    Attached,      \* the USD attached to each job
    MaxGuestRuns   \* bound on the jobs run

GuestBinary ==
    [format : {"p1", "p2", "neither"}, target : {"p1", "p2", Unset},
     keys : BOOLEAN,                     \* the keys it declares are the keys it is given
     imports : BOOLEAN,                  \* what it imports is configured for this job
     minimum : Nat,                      \* the memory it declares
     start : BOOLEAN,                    \* its instantiation executes guest code
     seconds : Nat, memory : Nat,        \* what the request asks
     curated : BOOLEAN,                  \* its project is under the connectors' account
     connector : BOOLEAN,                \* its manifest names a connector
     network : {Unset} \cup UNION {[h -> Nat] : h \in SUBSET Hosts}]

VARIABLES
    guest,      \* the run under way
    tickers,    \* the live tickers, by engine: the run of each and the ticks it still has to make
    inFlight,   \* the guest's requests on the wire: the seconds each still has
    egress,     \* the run's record of outbound requests
    reached,    \* the hosts a connection was opened to
    ended,      \* how the last run ended
    guestRuns

guestVars == <<guest, tickers, inFlight, egress, reached, ended, guestRuns>>

Engines == {"p1", "p2"}
NoBinary == [format |-> "neither"]
IdleGuest == [step |-> "idle", binary |-> NoBinary, tries |-> <<>>, left |-> 0, wall |-> 0, fuel |-> 0,
              elapsed |-> 0, at |-> "wasm", timeouts |-> 0, refund |-> 0, refunded |-> FALSE]
NoEnding == [ok |-> FALSE, charged |-> 0, penalty |-> FALSE, ran |-> FALSE, refund |-> 0,
             spent |-> 0, elapsed |-> 0, limit |-> 0, timeouts |-> 0]

GuestInit ==
    /\ guest = IdleGuest
    /\ tickers = [e \in Engines |-> {}]
    /\ inFlight = <<>>
    /\ egress = {} /\ reached = {}
    /\ ended = NoEnding
    /\ guestRuns = 0

---------------------------------------------------------------------------
(* The network the binary's own manifest allows it.                        *)

Unrestricted == Unset

ResolveNetworkPolicy(b) ==
    IF b.network # Unset THEN b.network
    ELSE IF b.curated \/ b.connector THEN [h \in {} |-> 0] ELSE Unrestricted

Allows(policy, h) == policy = Unrestricted \/ h \in DOMAIN policy

\* The time a host's entry names; an entry that names none is 0.
TimeoutFor(policy, h) ==
    IF policy # Unrestricted /\ h \in DOMAIN policy /\ policy[h] > 0 THEN policy[h] ELSE DefaultHttpTimeout

DecideEgress(policy, h) == h # NoHost /\ Allows(policy, h)

---------------------------------------------------------------------------
(* Bounds of a run.                                                        *)

Larger(a, b) == IF a > b THEN a ELSE b
Smaller(a, b) == IF a < b THEN a ELSE b

TimeLimit(b) == Larger(b.seconds, MinSeconds)
EffectiveMemory(b) == Larger(MemoryFloor, Smaller(b.memory, MemoryCeiling))
RequestTimeoutSecs(configured, left) == Larger(Smaller(configured, left), 1)

TimeLeftOfRun == IF guest.elapsed < TimeLimit(guest.binary) THEN TimeLimit(guest.binary) - guest.elapsed ELSE 0

\* One advance of an engine's epoch: the store on it is a tick nearer.
Nearer(n) == IF n = 0 THEN 0 ELSE n - 1

---------------------------------------------------------------------------
(* Starting: the keys, then the formats.                                   *)

TryOrder(b) == IF b.target = Unset THEN <<"p2", "p1">> ELSE <<b.target>>

\* The job's answer; its tasks on the wire and its ticker go with the run.
EndedAs(ok, penalty, ran) ==
    LET spent == MaxInstructions - guest.fuel IN
    [ok |-> ok, penalty |-> penalty, ran |-> ran,
     charged |-> IF ~ran THEN 0 ELSE IF penalty THEN MaxInstructions ELSE spent,
     refund |-> IF ok THEN guest.refund ELSE 0,
     spent |-> spent, elapsed |-> guest.elapsed, limit |-> TimeLimit(guest.binary), timeouts |-> guest.timeouts]

\* Mutant of DropTickers: the ticker is left to run out by itself.
TickersLeft == tickers

DropTickers == [e \in Engines |-> {}]

End(ok, penalty, ran) ==
    /\ ended' = EndedAs(ok, penalty, ran)
    /\ guest' = IdleGuest
    /\ tickers' = DropTickers
    /\ inFlight' = <<>>
    /\ UNCHANGED <<egress, reached, guestRuns>>

BeginGuest(b) ==
    /\ guest.step = "idle" /\ guestRuns < MaxGuestRuns
    /\ guestRuns' = guestRuns + 1
    /\ egress' = {} /\ reached' = {}
    /\ guest' = IF b.keys
                THEN [IdleGuest EXCEPT !.step = "loading", !.binary = b, !.tries = TryOrder(b), !.fuel = MaxInstructions]
                ELSE IdleGuest
    /\ ended' = NoEnding
    /\ UNCHANGED <<tickers, inFlight>>

\* A format that did not load or link: the next one is tried, if any is left,
\* and nothing was consumed.
NotThisFormat ==
    IF Len(guest.tries) > 1
    THEN /\ guest' = [guest EXCEPT !.step = "loading", !.tries = Tail(@), !.fuel = MaxInstructions]
         /\ tickers' = DropTickers
         /\ UNCHANGED <<inFlight, egress, reached, ended, guestRuns>>
    ELSE End(FALSE, FALSE, FALSE)

\* The binary is read as the format tried, its imports are linked and the store
\* is given its bounds; the ticker starts with it.
LoadGuest ==
    LET e == Head(guest.tries)
        b == guest.binary
    IN /\ guest.step = "loading"
       /\ IF b.format = e /\ (e = "p2" => b.imports)
          THEN /\ guest' = [guest EXCEPT !.step = "instantiating", !.left = Nearer(TimeLimit(b)), !.elapsed = 0]
               /\ tickers' = [tickers EXCEPT ![e] = @ \cup {<<guestRuns, TimeLimit(b) + Spare - 1>>}]
               /\ UNCHANGED <<inFlight, egress, reached, ended, guestRuns>>
          ELSE NotThisFormat

\* Guest code in the instantiation burns fuel like any other.
StartSection ==
    /\ guest.step = "instantiating" /\ guest.binary.start /\ guest.left > 0
    /\ IF guest.fuel > 0
       THEN /\ guest' = [guest EXCEPT !.fuel = @ - 1]
            /\ UNCHANGED <<tickers, inFlight, egress, reached, ended, guestRuns>>
       ELSE NotThisFormat

InstantiateGuest ==
    /\ guest.step = "instantiating"
    /\ IF \/ guest.binary.minimum > EffectiveMemory(guest.binary)
          \/ guest.binary.start /\ guest.left = 0
       THEN NotThisFormat
       ELSE /\ guest' = [guest EXCEPT !.step = "running", !.wall = TimeLimit(guest.binary) + Grace]
            /\ UNCHANGED <<tickers, inFlight, egress, reached, ended, guestRuns>>

---------------------------------------------------------------------------
(* What the guest does.                                                    *)

InWasm == guest.step = "running" /\ guest.at = "wasm" /\ guest.left > 0

\* How a call that returned is judged: two requests that timed out come first.
Returned(ok) ==
    LET abused == guest.timeouts >= AbortThreshold IN
    End(ok /\ ~abused, abused, TRUE)

Compute ==
    /\ InWasm
    /\ IF guest.fuel > 0
       THEN /\ guest' = [guest EXCEPT !.fuel = @ - 1]
            /\ UNCHANGED <<tickers, inFlight, egress, reached, ended, guestRuns>>
       ELSE Returned(FALSE)

\* Returning from main, exiting with status 0 and an output that reads as asked
\* succeed; an error, another status, a trap or an output that is not JSON do not.
\* The epoch is looked at in loops and on entering a function, so a guest may
\* return although its time is up.
GuestReturns(ok) == guest.step = "running" /\ guest.at = "wasm" /\ Returned(ok)

EnterHost ==
    /\ InWasm
    /\ guest' = [guest EXCEPT !.at = "host"]
    /\ UNCHANGED <<tickers, inFlight, egress, reached, ended, guestRuns>>

LeaveHost ==
    /\ guest.step = "running" /\ guest.at = "host"
    /\ guest' = [guest EXCEPT !.at = "wasm"]
    /\ UNCHANGED <<tickers, inFlight, egress, reached, ended, guestRuns>>

RefundUsd(amount) ==
    /\ InWasm /\ guest.binary.format = "p2"
    /\ ~guest.refunded /\ amount <= Attached
    /\ guest' = [guest EXCEPT !.refund = amount, !.refunded = TRUE]
    /\ UNCHANGED <<tickers, inFlight, egress, reached, ended, guestRuns>>

SendRequest(h) ==
    LET policy == ResolveNetworkPolicy(guest.binary)
        time == RequestTimeoutSecs(TimeoutFor(policy, h), TimeLeftOfRun)
        allowed == DecideEgress(policy, h)
    IN /\ InWasm /\ guest.binary.format = "p2" /\ Len(inFlight) < MaxInFlight
       /\ guest.timeouts < AbortThreshold
       /\ egress' = egress \cup {[host |-> h, allowed |-> allowed]}
       /\ inFlight' = IF allowed THEN Append(inFlight, [host |-> h, left |-> time]) ELSE inFlight
       /\ UNCHANGED <<guest, tickers, reached, ended, guestRuns>>

LessRequest(s, i) == SubSeq(s, 1, i - 1) \o SubSeq(s, i + 1, Len(s))

\* An answer, a name that does not resolve or an address that is not public.
RequestEnds(i, connected) ==
    /\ inFlight' = LessRequest(inFlight, i)
    /\ reached' = reached \cup (IF connected THEN {inFlight[i].host} ELSE {})
    /\ UNCHANGED <<guest, tickers, egress, ended, guestRuns>>

\* The request's time is up. The second one ends the run: the engine's epoch is
\* advanced past every deadline.
RequestTimesOut(i) ==
    LET n == guest.timeouts + 1 IN
    /\ inFlight[i].left = 0
    /\ inFlight' = LessRequest(inFlight, i)
    /\ reached' = reached \cup {inFlight[i].host}
    /\ guest' = [guest EXCEPT !.timeouts = n, !.left = IF n >= AbortThreshold THEN 0 ELSE @]
    /\ UNCHANGED <<tickers, egress, ended, guestRuns>>

---------------------------------------------------------------------------
(* Time.                                                                   *)

\* A second passes, after everything that was due: every live ticker of the
\* run's engine advances its epoch.
Second ==
    LET live == tickers[guest.binary.format] IN
    /\ \/ guest.step = "instantiating" /\ guest.binary.start /\ guest.left > 0
       \/ guest.step = "running" /\ IF guest.at = "wasm" THEN guest.left > 0 ELSE guest.wall > 0
    /\ \A i \in DOMAIN inFlight : inFlight[i].left > 0
    /\ guest' = [guest EXCEPT !.elapsed = @ + 1,
                              !.left = IF Cardinality(live) >= @ THEN 0 ELSE @ - Cardinality(live),
                              !.wall = Nearer(@)]
    /\ tickers' = [e \in Engines |-> {<<t[1], t[2] - 1>> : t \in {t \in tickers[e] : t[2] > 1}}]
    /\ inFlight' = [i \in DOMAIN inFlight |-> [inFlight[i] EXCEPT !.left = Nearer(@)]]
    /\ UNCHANGED <<egress, reached, ended, guestRuns>>

\* The epoch traps where wasm executes.
EpochTrap ==
    /\ guest.step = "running" /\ guest.at = "wasm" /\ guest.left = 0
    /\ End(FALSE, TRUE, TRUE)

\* Mutant of WallClock: the clock is only looked at where wasm executes.
WallClockInWasm ==
    /\ guest.step = "running" /\ guest.at = "wasm" /\ guest.wall = 0
    /\ End(FALSE, TRUE, TRUE)

\* The wall clock ends a guest that waits in a host call.
WallClock ==
    /\ guest.step = "running" /\ guest.at = "host" /\ guest.wall = 0
    /\ End(FALSE, TRUE, TRUE)

GuestNext ==
    \/ \E b \in Binaries : BeginGuest(b)
    \/ LoadGuest \/ StartSection \/ InstantiateGuest
    \/ Compute \/ EnterHost \/ LeaveHost \/ Second \/ EpochTrap \/ WallClock
    \/ \E ok \in BOOLEAN : GuestReturns(ok)
    \/ \E n \in 0..(Attached + 1) : RefundUsd(n)
    \/ \E h \in Hosts \cup {NoHost} : SendRequest(h)
    \/ \E i \in DOMAIN inFlight : RequestTimesOut(i) \/ \E c \in BOOLEAN : RequestEnds(i, c)

\* The executor's own steps and the clocks; the guest owes nothing.
GuestFairness ==
    /\ WF_guestVars(LoadGuest) /\ WF_guestVars(InstantiateGuest \/ StartSection)
    /\ WF_guestVars(Second) /\ WF_guestVars(EpochTrap) /\ WF_guestVars(WallClock)
    /\ WF_guestVars(\E i \in DOMAIN inFlight : RequestTimesOut(i))

---------------------------------------------------------------------------
(* Properties.                                                             *)

GuestTypeOK ==
    /\ guest.step \in {"idle", "loading", "instantiating", "running"}
    /\ guest.fuel \in 0..MaxInstructions /\ guest.timeouts \in 0..(AbortThreshold + MaxInFlight)
    /\ Len(inFlight) <= MaxInFlight

\* A run answers for itself only. It is charged its whole limit only when its
\* own time is up (to the second) or two requests of its own timed out, however
\* the runs before it on the same engine ended; a run that is paid as a success
\* had neither; and it opened connections only to hosts that its record shows
\* as allowed and its own manifest does not keep out.
RunAccounted ==
    /\ ended.penalty => ended.elapsed + 1 >= ended.limit \/ ended.timeouts >= AbortThreshold
    /\ ended.ok => ended.timeouts < AbortThreshold
    /\ ended.refund > 0 => ended.ok /\ ended.refund <= Attached
    /\ ended.ran => ended.charged >= ended.spent
    /\ \A h \in reached : [host |-> h, allowed |-> TRUE] \in egress
    /\ guest.step = "running" => \A h \in reached : Allows(ResolveNetworkPolicy(guest.binary), h)

\* A run that was begun ends, whatever the guest does: computing for ever,
\* waiting in a host call for ever or holding requests nobody answers.
EveryRunEnds == (guest.step # "idle") ~> (guest.step = "idle")

============================================================================
