----------------------------- MODULE McpServers -----------------------------
(***************************************************************************)
(* The two stdio MCP servers, agents' way to the ledger over HTTP:         *)
(* "ledger" (mcp_server/ledger_stdio.py) and "emr"                         *)
(* (mcp_server/emr_stdio.py with mcp_server/protocol.py).  Each reads one  *)
(* message at a time, checks what it may send with which key, sends one    *)
(* request and turns what comes back, or does not, into a tool result.     *)
(*                                                                         *)
(* External: the network, which may lose the request or the reply or       *)
(* deliver the request after the server gave up, and the ledger behind it, *)
(* which refuses or stores as it likes.  The rest of the environment is    *)
(* read at each call; of it the key file may change meanwhile.             *)
(***************************************************************************)
EXTENDS Sequences, FiniteSets

CONSTANTS Calls, Setups     \* Setups: [server, url, keys, file, write], the environment of the process

VARIABLES setup,
          keyFile,    \* what JARVIS_API_KEY_FILE holds: "good" or "bad"
          tool,       \* per call: [pc, name, args, said]
          wire,       \* the calls whose request is under way
          replies,    \* call -> what the ledger answered, until it is heard
          sent,       \* (call, key) of every request sent (history)
          records     \* calls whose record the ledger holds

msVars == <<setup, keyFile, tool, wire, replies, sent, records>>

Untouched == [pc |-> "new", name |-> "", args |-> "", said |-> ""]
MsInit ==
  /\ setup \in Setups
  /\ keyFile \in {"good", "bad"}
  /\ tool = [c \in Calls |-> Untouched]
  /\ wire = {} /\ replies = <<>> /\ sent = {} /\ records = {}

\* MCP_TOOLS and TOOLS, by what a credential may do with them.
ReadTools == {"recall"}
DraftTools == {"write"}
Tools == ReadTools \cup DraftTools \cup (IF setup.server = "emr" THEN {"drift"} ELSE {})
Arguments(name) ==
  {"good"} \cup CASE name = "write" -> {"not a decision", "not asked for", "secret"}
                [] name = "recall" -> {"malformed"}
                [] OTHER -> {}
Serving(c) == tool[c].pc \in {"read", "waiting"}

\* One line of stdin: a tools/call; the server takes the next when this is answered.
Receive(c) ==
  /\ tool[c].pc = "new" /\ ~\E b \in Calls : Serving(b)
  /\ \E n \in Tools : \E a \in Arguments(n) : tool' = [tool EXCEPT ![c] = [pc |-> "read", name |-> n, args |-> a, said |-> ""]]
  /\ UNCHANGED <<setup, keyFile, wire, replies, sent, records>>

\* _find_secrets: a filter that fails counts as a match.
FailsOpen(a, works) == a = "secret" /\ works   \* mutant: only what the filter found is refused
LooksSecret(a, works) == a = "secret" \/ ~works

FileUsable == setup.file /\ keyFile = "good"
LedgerKey == IF "ledger" \in setup.keys \/ FileUsable THEN "ledger" ELSE ""
Preferred(order) == LET usable == SelectSeq(order, LAMBDA k : k \in setup.keys \cup {LedgerKey}) IN IF usable = <<>> THEN "" ELSE Head(usable)

\* api_key(tool): least privilege first; the drift check needs the ledger key.
EmrKey(n) ==
  IF n = "drift" /\ LedgerKey # "" THEN LedgerKey
  ELSE IF n \in DraftTools THEN Preferred(<<"writer", "ledger", "recall">>)
  ELSE Preferred(<<"recall", "writer", "ledger">>)
KeyFor(n) == IF setup.server = "emr" THEN EmrKey(n) ELSE LedgerKey
BadFile == setup.file /\ keyFile = "bad"
KeyMayTravel == setup.url \in {"https", "loopback"}

\* tool_write's checks, and those of tool_recall and tool_get, in their order; the EMR tools
\* are checked by the ledger.
WriteRefusal(a, works) ==
  IF ~setup.write THEN "write_disabled"
  ELSE IF a = "not a decision" THEN "bad_argument"
  ELSE IF a = "not asked for" THEN "user_request_required"
  ELSE IF LooksSecret(a, works) THEN "secret_refused" ELSE ""
ReadRefusal(a) == IF a = "malformed" THEN "bad_argument" ELSE ""

\* What _request and _http_post check before anything is sent; only emr_stdio sends without a key.
NoKey ==
  \/ BadFile /\ (setup.server = "emr" \/ "ledger" \notin setup.keys)
  \/ setup.server = "ledger" /\ LedgerKey = ""
SendRefusal(n) ==
  IF setup.url = "none" THEN "no_url"
  ELSE IF NoKey THEN "no_key"
  ELSE IF KeyFor(n) # "" /\ ~KeyMayTravel THEN "key_not_allowed" ELSE ""

Refusal(n, a, works) ==
  LET own == IF setup.server # "ledger" THEN ""
             ELSE IF n = "recall" THEN ReadRefusal(a) ELSE WriteRefusal(a, works)
  IN IF own # "" THEN own ELSE SendRefusal(n)

Answers(c, code) == tool' = [tool EXCEPT ![c].pc = "done", ![c].said = code]
Handle(c, works) ==
  /\ tool[c].pc = "read"
  /\ LET code == Refusal(tool[c].name, tool[c].args, works)
     IN IF code # "" THEN Answers(c, code) /\ UNCHANGED <<wire, sent>>
        ELSE /\ tool' = [tool EXCEPT ![c].pc = "waiting"]
             /\ wire' = wire \cup {c}
             /\ sent' = sent \cup {<<c, KeyFor(tool[c].name)>>}
  /\ UNCHANGED <<setup, keyFile, replies, records>>

\* The ledger behind the routes, and the network: external.
Outcomes(c) == {"http_error"} \cup IF tool[c].name \in DraftTools THEN {"stored", "clause_v_violation"} ELSE {"ok", "not_found"}
Deliver(c) ==
  /\ c \in wire
  /\ wire' = wire \ {c}
  /\ \E o \in Outcomes(c), heard \in BOOLEAN :
       /\ records' = IF o = "stored" THEN records \cup {c} ELSE records
       /\ replies' = IF heard /\ tool[c].pc = "waiting" THEN [x \in {c} |-> o] ELSE replies
  /\ UNCHANGED <<setup, keyFile, tool, sent>>
Lost(c) ==
  /\ c \in wire
  /\ wire' = wire \ {c}
  /\ UNCHANGED <<setup, keyFile, tool, replies, sent, records>>

\* _request, _http_post: what came back becomes the result; what did not is "unreachable".
Hear(c) ==
  /\ tool[c].pc = "waiting" /\ c \in DOMAIN replies
  /\ Answers(c, replies[c])
  /\ replies' = <<>>
  /\ UNCHANGED <<setup, keyFile, wire, sent, records>>
GiveUp(c) ==
  /\ tool[c].pc = "waiting"
  /\ Answers(c, "unreachable")
  /\ replies' = <<>>
  /\ UNCHANGED <<setup, keyFile, wire, sent, records>>
FileChanges ==
  /\ setup.file
  /\ keyFile' = IF keyFile = "good" THEN "bad" ELSE "good"
  /\ UNCHANGED <<setup, tool, wire, replies, sent, records>>

MsNext ==
  \/ \E c \in Calls :
       Receive(c) \/ (\E works \in BOOLEAN : Handle(c, works)) \/ Deliver(c) \/ Lost(c) \/ Hear(c) \/ GiveUp(c)
  \/ FileChanges

MsSpec == MsInit /\ [][MsNext]_msVars

-----------------------------------------------------------------------------
(* Property *)

\* What a tool result says of the ledger is true and stays true, whatever the network still
\* delivers: "nothing was sent" means no request ever left, "nothing was stored" that there is
\* no record, "stored" that there is one.  A key leaves only over https or to this machine,
\* and what the ledger server wrote was a decision, asked for, without a credential, with
\* writing switched on (tool_write, _request, _http_post, api_key).
ResultsAreTrue ==
  /\ \A c \in Calls : tool[c].pc = "done" =>
       CASE tool[c].said = "stored" -> c \in records
         [] tool[c].said = "clause_v_violation" -> c \notin records
         [] tool[c].said \in {"http_error", "unreachable", "ok", "not_found"} -> TRUE
         [] OTHER -> c \notin records \cup {s[1] : s \in sent}
  /\ \A s \in sent : s[2] # "" => KeyMayTravel
  /\ setup.server = "ledger" => \A c \in records : tool[c].args = "good" /\ setup.write
=============================================================================
