----------------------------- MODULE MCKeystores -----------------------------
(***************************************************************************)
(* Keystores for TLC, a part at a time.  A DAO of two members, whose       *)
(* quorum changes when one leaves, and two keystores' keys, revoked one by *)
(* one or in a batch.  One keystore, started twice, that enrols with the   *)
(* DAO while the council stays as it is.  And a worker with two keystores: *)
(* two calls at a time and one fault, or one call and two faults.          *)
(***************************************************************************)
EXTENDS KeystoreEnrolment, KeystoreClient

CONSTANTS a, b, k1, k2, m1, f1, c1, c2

VARIABLE part

TwoMembers == <<a, b>>
TwoQuotes == {[public_key |-> k, fmspc |-> f1, measurements |-> m1] : k \in {k1, k2}}
TwoBoots == <<k1, k2>>
OneImage == [fmspc |-> f1, measurements |-> m1]

MCVars == <<daoVars, enrolVars, clientVars, part>>

MCInit ==
    /\ part \in {"dao", "enrolment", "client", "alone"}
    /\ DaoInit /\ EnrolInit /\ ClientInit
    /\ part # "enrolment" => is_tee_mode
    /\ part \in {"dao", "enrolment"} => has_key

\* What the DAO does meanwhile: votes, a revocation, and the owner's settings.
Meanwhile ==
    /\ DaoNext /\ UNCHANGED <<council, enrolVars>>
    /\ DOMAIN proposals' = DOMAIN proposals

DaoPart == part = "dao" /\ UNCHANGED <<enrolVars, clientVars, part>>
EnrolmentPart == part = "enrolment" /\ UNCHANGED <<clientVars, part>>
ClientPart == part \in {"client", "alone"} /\ UNCHANGED <<daoVars, enrolVars, part>>
Within == IF part = "client" THEN faults' <= 1 ELSE call'[c2] = call[c2]

\* A worker that could make no session stops.
MCNext ==
    \/ DaoPart /\ DaoNext
    \/ EnrolmentPart /\ (EnrolStep \/ (\E retyped \in BOOLEAN : Start(retyped)) \/ Meanwhile)
    \/ ClientPart /\ (ClientNext \/ (worker = "stopped" /\ UNCHANGED clientVars)) /\ Within

MCSpec ==
    /\ MCInit /\ [][MCNext]_MCVars
    /\ WF_MCVars(EnrolmentPart /\ EnrolStep)
    /\ \A c \in Calls : WF_MCVars(ClientPart /\ Proceed(c) /\ Within)
    /\ \A i \in Instances : WF_MCVars(ClientPart /\ MarkLapses(i))
=============================================================================
