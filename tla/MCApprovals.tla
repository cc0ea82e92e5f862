----------------------------- MODULE MCApprovals -----------------------------
(***************************************************************************)
(* What people have agreed to, for TLC, a part at a time.  A DAO of three  *)
(* members that votes on vault code; the operator who approves workers'    *)
(* builds, and a worker that registers; the condition an owner put on a    *)
(* row and the keys a run is given beside it; the tasks an owner approves. *)
(***************************************************************************)
EXTENDS VaultRegistry, WorkerRegistration, RunKeys, Tasks, TLC

CONSTANTS a, b, c, owner, heir, k1, m1, f1, h1, t1, t2, v1

VARIABLE part

ThreeMembers == <<a, b, c>>
OneQuote == {[public_key |-> k1, fmspc |-> f1, measurements |-> m1]}

\* The votes on versions share with the rest of the DAO only its members, the
\* vaults' marks only its keystores' keys.
VersionVotes == Next /\ UNCHANGED <<ballots, attestation, keys, ceased_operations, vaultSets>>
VaultMarks == Next /\ UNCHANGED versions

-----------------------------------------------------------------------------
\* Three keys of two types, and collateral for the worker's platform, current or
\* not, and for another.
MCKeys == <<[name |-> "k1", type |-> "ed25519"], [name |-> "k2", type |-> "ml_dsa"],
            [name |-> "k3", type |-> "ed25519"]>>
MCCollaterals == {[fmspc |-> "phala", current |-> TRUE], [fmspc |-> "phala", current |-> FALSE],
                  [fmspc |-> "own", current |-> TRUE]}
MCImage == [fmspc |-> "phala", measurements |-> "m1"]

-----------------------------------------------------------------------------
\* Conditions of every kind two levels deep, and some of three, each in every
\* world: what the chain says of ann's balance, the time, the build, the caller.
Leaves == {AllowAll, Whitelist({"ann"}), Whitelist({"bob"}), OnChain("near", "Gte", 1),
           ValidUntil(1), WasmHash("b1")}
Simple == Leaves \cup {Not(l) : l \in Leaves}
            \cup {Predecessor(l) : l \in {Whitelist({"bob"}), OnChain("near", "Gte", 1)}}
Pairs(set) == {And(<<x, y>>) : x, y \in set} \cup {Or(<<x, y>>) : x, y \in set}
Trees == Pairs(Simple) \cup {Not(p) : p \in Pairs(Leaves)}
            \cup UNION {{And(<<p, l>>), Or(<<p, l>>)} : p \in Pairs(Leaves), l \in Leaves}

World(anns, now, build, caller) ==
    [chain |-> (<<"near", "ann">> :> anns @@ <<"near", "bob">> :> 1), now |-> now, build |-> build,
     predecessor |-> caller]
AllWorlds == {World(n, t, h, p) : n \in {0, 2, Missing}, t \in 0..1,
                                  h \in {"b1", "b2", Missing}, p \in {"bob", Missing}}
FewWorlds == {World(n, 0, "b1", Missing) : n \in {2, Missing}}

SecretRow(access, vault) == [access |-> access, vault |-> vault, foreign |-> FALSE]
FewRows == {Missing, SecretRow(And(<<Whitelist({"ann"}), ValidUntil(1)>>), "own"),
            SecretRow(Or(<<OnChain("near", "Gte", 1), Whitelist({"bob"})>>), "strange"),
            [access |-> AllowAll, vault |-> Missing, foreign |-> TRUE]}

\* What a worker asks for: a task key only beside a row.
RunKey(f, bind, vault) == [family |-> f, bind |-> bind, vault |-> vault]
KeySets == {{}, {RunKey("signing", "project", "own"), RunKey("encryption", "project", Missing)},
            {RunKey("signing", "wasm", Missing)}, {RunKey("signing", "project", "strange")}}
KeyRequests == {q \in [project : BOOLEAN, keys : KeySets, task : BOOLEAN, row : BOOLEAN, real : BOOLEAN] :
                  (q.keys # {} \/ q.task) /\ (q.task => q.row)}
FleetAges == {{}, {"signing"}, {"signing", "encryption"}, {"signing", "encryption", "task"}}

-----------------------------------------------------------------------------
\* Runs that come one after another and overlap: an agent of ann's and the same
\* agent with another build; an agent that names bob's row too, and ann themselves.
TaskRow(who, by) == [owner |-> who, profile |-> "p", by_name |-> by]
Facts(who, rows, key) ==
    [caller |-> who, predecessor |-> who, rows |-> rows, key |-> key, build |-> "b1", policy |-> "q"]
OneKey == [nonce |-> 1, compute |-> 1]
AgentRun == Facts("agt", <<TaskRow("ann", TRUE)>>, OneKey)
BothOwners == Facts("agt", <<TaskRow("ann", TRUE), TaskRow("bob", TRUE)>>, OneKey)
OtherBuild == [AgentRun EXCEPT !.build = "b2"]
OwnerRun == Facts("ann", <<TaskRow("ann", FALSE)>>, NoKey)
MCPlans == {<<AgentRun, OtherBuild>>, <<BothOwners, OwnerRun>>}
MCDevices == {[owner |-> who, signer |-> 1, valid_until |-> 1] : who \in {"ann", "bob"}}

-----------------------------------------------------------------------------
MCVars == <<vars, registrationVars, runKeysVars, tasksVars, part>>

NoRequest == [project |-> FALSE, keys |-> {}, task |-> FALSE, row |-> FALSE, real |-> FALSE]

\* In the part "conditions" nothing moves: each condition in each world is a state.
MCInit ==
    /\ part \in {"versions", "marks", "registration", "keys", "conditions", "tasks"}
    /\ Init /\ TasksInit /\ RegistrationInit
    /\ part # "registration" => owner_id = owner
    /\ IF part = "keys" THEN RunKeysInit
       ELSE /\ blocks = <<>> /\ minted = 0 /\ loaded = {} /\ knows = {} /\ req = NoRequest
            /\ at = "run refused" /\ got = Nothing /\ paid = {}
            /\ IF part = "conditions"
               THEN world \in AllWorlds /\ row \in {SecretRow(t, Missing) : t \in Trees}
               ELSE world = World(0, 0, Missing, Missing) /\ row = Missing

\* The councils go on for ever; a run is decided on, and tasks come to an end.
MCNext ==
    /\ UNCHANGED part
    /\ \/ /\ \/ part = "versions" /\ VersionVotes
             \/ part = "marks" /\ VaultMarks
          /\ UNCHANGED <<registrationVars, runKeysVars, tasksVars>>
       \/ part = "registration" /\ RegistrationNext /\ UNCHANGED <<vars, runKeysVars, tasksVars>>
       \/ /\ part = "keys" /\ UNCHANGED <<vars, registrationVars, tasksVars>>
          /\ RunKeysNext \/ (RunDecided /\ UNCHANGED runKeysVars)
       \/ part = "conditions" /\ UNCHANGED <<vars, registrationVars, runKeysVars, tasksVars>>
       \/ /\ part = "tasks" /\ UNCHANGED <<vars, registrationVars, runKeysVars>>
          /\ TasksNext \/ UNCHANGED tasksVars

MCSpec == MCInit /\ [][MCNext]_MCVars
=============================================================================
