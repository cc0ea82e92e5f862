----------------------------- MODULE MCRequests -----------------------------
(***************************************************************************)
(* An execution request for TLC, where it must end: the contract that      *)
(* admits and settles it, and the run of the guest on a worker.  What each *)
(* sees of the other is an input of its own module, so that a behaviour    *)
(* moves one of them.                                                      *)
(***************************************************************************)
EXTENDS MCExecution, GuestRuns

VARIABLE part

-----------------------------------------------------------------------------
\* Three runs of guests of both formats, of connectors with and without a
\* network manifest, and of binaries that are refused at each of the checks,
\* for TLC.

PlainGuest ==
    [format |-> "p2", target |-> "p2", keys |-> TRUE, imports |-> TRUE, minimum |-> 1,
     start |-> FALSE, seconds |-> 2, memory |-> 1, curated |-> FALSE, connector |-> FALSE,
     network |-> Unset]
MCBinaries ==
    {[PlainGuest EXCEPT !.network = [h \in {"a"} |-> 1]],
     [PlainGuest EXCEPT !.target = Unset, !.connector = TRUE, !.seconds = 3],
     [PlainGuest EXCEPT !.minimum = 3, !.target = Unset, !.curated = TRUE],
     [PlainGuest EXCEPT !.format = "p1", !.target = Unset, !.start = TRUE, !.seconds = 1,
                        !.memory = 9],
     [PlainGuest EXCEPT !.format = "neither", !.target = Unset],
     [PlainGuest EXCEPT !.imports = FALSE],
     [PlainGuest EXCEPT !.keys = FALSE]}

-----------------------------------------------------------------------------
MCVars == <<vars, guestVars, part>>

MCInit ==
    /\ part \in {"contract", "guest"}
    /\ Init /\ GuestInit

\* The contract goes on for ever; the runs of a guest end.
MCNext ==
    /\ UNCHANGED part
    /\ \/ part = "contract" /\ Next /\ UNCHANGED guestVars
       \/ /\ part = "guest" /\ UNCHANGED vars
          /\ GuestNext \/ UNCHANGED guestVars

MCFairSpec == MCInit /\ [][MCNext]_MCVars /\ Fairness /\ GuestFairness
=============================================================================
