------------------------------ MODULE MCTables ------------------------------
(***************************************************************************)
(* The tables of the OutLayer contract for TLC.  Two accounts; projects    *)
(* with one name, two versions and three uuids, so that one can be created,*)
(* moved, deleted and created again; one wallet, whose policy is open or   *)
(* locked to a quorum and whose row may be from before versions; two       *)
(* secrets of alice, one of the wallet, and one that names the wallet      *)
(* without being its own.                                                  *)
(*                                                                         *)
(* The three tables meet only where a secret asks for its project and in   *)
(* the pause switch, so a behaviour moves one of them and, of the others,  *)
(* only that.  Two more parts are the keystore's: the requests to sign     *)
(* with a wallet's keys under its policy, and the updates of a person's    *)
(* secrets on their way to the table.                                      *)
(***************************************************************************)
EXTENDS Secrets, MCWalletSigning, SecretUpdates

CONSTANTS bob, app, v1, v2, send, repo

VARIABLE part

-----------------------------------------------------------------------------
\* Updates of a person's secrets for TLC: a row of one repository, spelled in
\* two ways, and what becomes of it when it moves to a project; one vault; a
\* name of each kind; at first no row, or one from before the list of reserved
\* names.

At(k, n, b) == [kind |-> k, name |-> n, branch |-> b]
MCAccessors == {At("repo", "Repo", ""), At("repo", "task-key", "")}
MCNormalised == [n \in {"Repo", "repo", "task-key"} |-> IF n = "Repo" THEN "repo" ELSE n]
OldSecrets(keys) == (At("repo", "repo", "") :> [vault |-> NoRow,
                 blob |-> [master |-> NoRow, seed |-> <<"repo">>,
                           secrets |-> [k \in keys |-> Written]]])
MCLegacyRows == {EmptyMap, OldSecrets({"LD_PRELOAD"})}
Update(a, to, v, m, keys, names) ==
    [accessor |-> a, moveTo |-> to, vault |-> v, mode |-> m, keys |-> keys, names |-> names,
     signed |-> <<keys, names>>, owned |-> TRUE]
MCUpdateRequests == {Update(a, to, v, m, {"token"}, n) :
                 a \in {At("repo", "Repo", "")},
                 to \in {NoRow, At("project", "p", ""), At("repo", "task-key", "")},
                 v \in Scopes, m \in {"append", "reset"},
                 n \in {<<>>, <<"PROTECTED_A">>}}
             \cup {Update(At("repo", "Repo", ""), NoRow, NoRow, "append", k, n) :
                      k \in {{"LD_PRELOAD"}, {"PROTECTED_A"}, {}},
                      n \in {<<"token">>, <<"PROTECTED_A", "PROTECTED_A">>}}
             \cup {[Update(At("repo", "Repo", ""), NoRow, NoRow, "append", {"token"}, <<>>)
                      EXCEPT !.signed = <<{}, <<>>>>],
                   [Update(At("repo", "Repo", ""), NoRow, NoRow, "append", {"token"}, <<>>)
                      EXCEPT !.owned = FALSE]}
MCGeneratedRequests == {[accessor |-> a, vault |-> v, names |-> n, sent |-> b] :
                   a \in MCAccessors, v \in Scopes, b \in BOOLEAN,
                   n \in {<<>>, <<"PROTECTED_A">>, <<"token">>}}
               \cup {[accessor |-> At("repo", "repo", ""), vault |-> NoRow, sent |-> TRUE,
                      names |-> n] :
                        n \in {<<"PROTECTED_A", "PROTECTED_A">>, <<"PROTECTED_A", "PROTECTED_A", "PROTECTED_A">>}}

-----------------------------------------------------------------------------
MCProjectDeposit == [id \in ProjectIds |-> IF id[1] = alice THEN 2 ELSE 3]
MCVersionDeposit == [v \in Versions |-> IF v = v1 THEN 1 ELSE 2]
MCPricings == {[author |-> bob, rows |-> [op \in {send} |-> [price |-> 1, share_bp |-> 5000]]]}

MCKeys == {[accessor |-> <<repo>>, profile |-> app, owner |-> alice],
           [accessor |-> <<bob, app>>, profile |-> app, owner |-> alice],
           [accessor |-> <<bob, app>>, profile |-> w1, owner |-> w1],
           [accessor |-> <<bob, app>>, profile |-> w1, owner |-> alice]}
MCRepos == {<<repo>>}
MCTextCost == [t \in Texts |-> 2]
MCConditionCost == [c \in Conditions |-> IF c = "AllowAll" THEN 1 ELSE 2]

\* What the secrets see of the registry: bob's project comes and goes once.
BobsProject == (next_project_id = 0 /\ CreateProject(bob, app, v1)) \/ DeleteProject(bob, app)

-----------------------------------------------------------------------------
MCVars == <<projectVars, walletVars, signingVars, secretVars, updateVars, part>>

MCInit ==
    /\ part \in {"projects", "policies", "signing", "secrets", "updates"}
    /\ ProjectsInit /\ WalletInit /\ SecretsInit /\ SigningInit /\ UpdatesInit
    /\ part # "signing" => wallet_policies \in {EmptyMap, OldRow(MCOpen)}
    /\ part \notin {"policies", "signing"} => wallet_policies = EmptyMap
    /\ part # "updates" => shelf = EmptyMap

MCNext ==
    /\ UNCHANGED part
    /\ \/ /\ part = "projects" /\ ProjectsNext
          /\ UNCHANGED <<walletVars, signingVars, secretVars, updateVars>>
       \/ /\ part = "policies"
          /\ \/ WalletNext /\ UNCHANGED projectVars
             \/ (\E b \in Pauses : SetPaused(b)) /\ UNCHANGED walletVars
          /\ job' # None => job'.policy # MCBoard
          /\ UNCHANGED <<signingVars, secretVars, updateVars>>
       \/ /\ part = "signing" /\ MCSigningNext
          /\ UNCHANGED <<projectVars, secretVars, updateVars>>
       \/ /\ part = "secrets"
          /\ \/ SecretsNext /\ UNCHANGED projectVars
             \/ BobsProject /\ UNCHANGED secretVars
          /\ UNCHANGED <<walletVars, signingVars, updateVars>>
       \/ /\ part = "updates" /\ UpdatesNext
          /\ UNCHANGED <<projectVars, walletVars, signingVars, secretVars>>

MCSpec == MCInit /\ [][MCNext]_MCVars
=============================================================================
