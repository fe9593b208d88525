----------------------------- MODULE MCServices -----------------------------
(*****************************************************************************)
(* The processes around the row store and the API in front of it, each a     *)
(* part of its own: signers and witness, tenant keys, the rate limiter,      *)
(* boards, the import, the access checks, the connector client, its          *)
(* background processes, the jobs over the tenants, the guards of the start  *)
(* and of every connection, the stdio MCP servers, the drift watcher and     *)
(* governed generation.  A behaviour chooses its part in the first state, so *)
(* their state spaces add up.                                                *)
(*****************************************************************************)
EXTENDS Boards, TenantKeys, NxBackground, KeyLimiter, McpServers, LedgerImport, Drift, AmulLlm,
        Signing, FrontDoor, Pipes, TLC

CONSTANTS Parts, OneSigner
VARIABLE part

\* Only the part chosen moves; the variables of the others stand still.
MCInit ==
  /\ part \in Parts
  /\ BdInit /\ TkInit /\ NbInit /\ KlInit /\ MsInit /\ ImInit /\ DfInit /\ LlInit /\ SgInit
  /\ part # "mcp" => keyFile = "good" /\ setup = CHOOSE x \in Setups : TRUE
  /\ part # "import" => file = CHOOSE d \in Sources : TRUE
  /\ part # "drift" => recorded = CHOOSE d \in Drafts : TRUE
  /\ AcInit /\ (part # "access" => deployment = CHOOSE d \in Deployment : StartsWith(d))
  /\ NxInit /\ (part # "client" => keeps)
  /\ TrInit /\ (part # "tenants" => job.kind = "seal" /\ job.given = CHOOSE list \in Lists : TRUE)
  /\ SvInit /\ (part # "serving" => /\ database = CHOOSE d \in Databases : TRUE
                                   /\ ~server.strict /\ ~server.keyed /\ ~server.ignore)

\* Two signers without backups; one signer, and few rows, with backups that may be restored.
NoBackup == backups = <<>>
ShortLogs ==
  /\ Len(stmts) <= 2 /\ Len(atts) <= 2
  /\ \A n \in DOMAIN stmts : stmts[n].key \in OneSigner \cup PinnedRoots
  /\ \A n \in DOMAIN atts : atts[n].key \in OneSigner

MCNext ==
  \/ part = "signers" /\ SgNext /\ NoBackup' /\ UNCHANGED <<part, tkVars, klVars, bdVars, imVars,
       acVars, nxVars, nbVars, trVars, svVars, msVars, dfVars, llVars>>
  \/ part = "witness" /\ (Surroundings \/ \E k \in OneSigner : Signer(k)) /\ ShortLogs'
     /\ UNCHANGED <<part, tkVars, klVars, bdVars, imVars,
       acVars, nxVars, nbVars, trVars, svVars, msVars, dfVars, llVars>>
  \/ part = "keys" /\ TkNext /\ UNCHANGED <<part, sgVars, klVars, bdVars, imVars, acVars,
       nxVars, nbVars, trVars, svVars, msVars, dfVars, llVars>>
  \/ part = "limiter" /\ KlNext /\ UNCHANGED <<part, sgVars, tkVars, bdVars, imVars,
       acVars, nxVars, nbVars, trVars, svVars, msVars, dfVars, llVars>>
  \/ part = "boards" /\ BdNext /\ UNCHANGED <<part, sgVars, tkVars, klVars, imVars,
       acVars, nxVars, nbVars, trVars, svVars, msVars, dfVars, llVars>>
  \/ part = "import" /\ ImNext /\ UNCHANGED <<part, sgVars, tkVars, klVars, bdVars,
       acVars, nxVars, nbVars, trVars, svVars, msVars, dfVars, llVars>>
  \/ part = "access" /\ AcNext /\ UNCHANGED <<part, sgVars, tkVars, klVars, bdVars,
       imVars, nxVars, nbVars, trVars, svVars, msVars, dfVars, llVars>>
  \/ part = "client" /\ NxNext /\ UNCHANGED <<part, sgVars, tkVars, klVars, bdVars,
       imVars, acVars, nbVars, trVars, svVars, msVars, dfVars, llVars>>
  \/ part = "background" /\ NbNext /\ UNCHANGED <<part, sgVars, tkVars, klVars, bdVars,
       imVars, acVars, nxVars, trVars, svVars, msVars, dfVars, llVars>>
  \/ part = "tenants" /\ TrNext /\ UNCHANGED <<part, sgVars, tkVars, klVars, bdVars,
       imVars, acVars, nxVars, nbVars, svVars, msVars, dfVars, llVars>>
  \/ part = "serving" /\ SvNext /\ UNCHANGED <<part, sgVars, tkVars, klVars, bdVars,
       imVars, acVars, nxVars, nbVars, trVars, msVars, dfVars, llVars>>
  \/ part = "mcp" /\ MsNext /\ UNCHANGED <<part, sgVars, tkVars, klVars, bdVars, imVars,
       acVars, nxVars, nbVars, trVars, svVars, dfVars, llVars>>
  \/ part = "drift" /\ DfNext /\ UNCHANGED <<part, sgVars, tkVars, klVars, bdVars, imVars,
       acVars, nxVars, nbVars, trVars, svVars, msVars, llVars>>
  \/ part = "llm" /\ LlNext /\ UNCHANGED <<part, sgVars, tkVars, klVars, bdVars, imVars,
       acVars, nxVars, nbVars, trVars, svVars, msVars, dfVars>>

MCSpec == MCInit /\ [][MCNext]_<<part, sgVars, tkVars, klVars, bdVars, imVars, acVars,
            nxVars, nbVars, trVars, svVars, msVars, dfVars, llVars>>

-----------------------------------------------------------------------------
(* Values of the constants *)

\* --tenants: blanks and repeats, the operator named last, the operator alone, nobody.
MCLists == {<<"t1", "", "operator", "t1">>, <<"operator">>, <<"t1", "t2">>, <<"">>}

\* A sound database, empty or filled, and some with one thing wrong; three deployments.
Sound == [up |-> TRUE, version |-> TRUE, role |-> TRUE, tables |-> "forced", history |-> TRUE, control |-> TRUE,
          legacy |-> [t \in Ledgers |-> "none"], populated |-> [t \in Ledgers |-> FALSE]]
Filled == [Sound EXCEPT !.populated = [t \in Ledgers |-> TRUE]]
MCDatabases ==
  {Sound, Filled, [Sound EXCEPT !.legacy = [t \in Ledgers |-> "filled"]],
   [Sound EXCEPT !.legacy["t1"] = "hidden"], [Sound EXCEPT !.up = FALSE],
   [Filled EXCEPT !.version = FALSE], [Filled EXCEPT !.role = FALSE], [Filled EXCEPT !.tables = "open"]}
MCDeployments ==
  {[strict |-> b, keyed |-> b, ignore |-> FALSE] : b \in BOOLEAN}
    \cup {[strict |-> FALSE, keyed |-> FALSE, ignore |-> TRUE]}

\* Documents to import: a chain, one whose target is missing, a cycle.
MCSources ==
  {[records |-> (1 :> [content |-> "x", supersedes |-> 2]) @@ (2 :> [content |-> "y", supersedes |-> None]), board |-> "b"],
   [records |-> 1 :> [content |-> "x", supersedes |-> 2], board |-> "c"],
   [records |-> (1 :> [content |-> "x", supersedes |-> 2]) @@ (2 :> [content |-> "x", supersedes |-> 1]), board |-> "b"]}

\* Every deployment of a stdio server: address, keys in the environment, key file, write tools.
MCSetups ==
  [server : {"ledger", "emr"}, url : {"none", "http", "loopback"},
   keys : {{}, {"ledger"}, {"recall", "writer"}}, file : BOOLEAN, write : BOOLEAN]

\* Drift: what a record says, a record that replaces another, and claims of every family.
Said(d, c, sl, n, st, w) == [did |-> d, commits |-> c, slotted |-> sl, numbers |-> n, state |-> st, words |-> w]
MCWordings == {Said({"claude"}, {"c1"}, TRUE, {<<"schema", 9>>}, "against", {"deploy"}),
            Said({}, {"c2"}, FALSE, {<<"schema", 7>>, <<"port", 8>>}, "for", {"deploy", "always"})}
Noted(a, st, s, t) == [agent |-> a, status |-> st, supersedes |-> s, text |-> t]
MCDrafts == {[i \in {"a", "b"} |-> IF i = "a" THEN Noted("codex", "draft", "none", CHOOSE t \in MCWordings : t.slotted)
                              ELSE Noted("claude", "verified", "a", CHOOSE t \in MCWordings : ~t.slotted)],
             [i \in {"a"} |-> Noted("claude", "draft", "none", CHOOSE t \in MCWordings : t.slotted)]}
Deed(a, d) == [family |-> "actor", actor |-> a, deed |-> d]
Status(f, w, i) == [family |-> "status", field |-> f, word |-> w, about |-> i]
Sup(a, b) == [family |-> "supersede", newer |-> a, older |-> b]
Named(p) == IF p.family = "status" THEN {p.about} \ {"none"} ELSE IF p.family = "supersede" THEN {p.newer, p.older} \cap {"a", "b"} ELSE {}
Clause(cites, assertion) == [cites |-> cites \cup Named(assertion), parts |-> {assertion}, words |-> {"deploy"}, skipped |-> FALSE]
Assertions == {Deed("claude", "wrote"), Deed("codex", "wrote"), Deed("claude", "did"), Deed("codex", "did"),
  Status("status", "verified", "none"), Status("status", "draft", "b"), Status("lifecycle", "active", "a"), Status("lifecycle", "superseded", "none"),
  Sup("new", "old"), Sup("old", "new"), Sup("b", "a"), Sup("claude", "codex"), Sup("a", "b"),
  [family |-> "commit", commit |-> "c1", slotted |-> TRUE], [family |-> "commit", commit |-> "c3", slotted |-> TRUE], [family |-> "commit", commit |-> "c2", slotted |-> FALSE],
  [family |-> "number", number |-> 9, near |-> "schema"], [family |-> "number", number |-> 8, near |-> "schema"], [family |-> "state"],
  [family |-> "absolute", word |-> "always"], [family |-> "entity", word |-> "codex"]}
MCSummaries == {{Clause(cites, p)} : cites \in {{}, {"a"}, {"c"}}, p \in Assertions}
  \cup {{Clause({}, Deed("claude", "wrote")), Clause({"a"}, Sup("new", "old"))}, {Clause({"a"}, p) : p \in Assertions},
        {[Clause({}, Sup("new","old")) EXCEPT !.skipped = TRUE]}}

\* Generations: with and without recall, of every route.
Prompt(i, m, r, s, o) == [intent |-> i, mode |-> m, recall |-> r, subjects |-> s, own |-> o]
MCPrompts == {Prompt("chat", "none", TRUE, {}, <<"own">>), Prompt("safety_sensitive", "none", TRUE, {"theme"}, <<>>),
              Prompt("chat", "safety_mode", FALSE, {}, <<"own">>), Prompt("safety_sensitive", "reasoning_mode", TRUE, {"theme"}, <<>>),
              Prompt("chat", "unknown", TRUE, {}, <<>>)}

\* The sessions, attempts, writers, imports, callers, starters, calls, handlers and askers
\* are the same two model values, and none of them matters more than another: one swap is
\* a symmetry of every part.
MCSymmetry == Permutations(Calls)
=============================================================================
