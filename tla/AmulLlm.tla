------------------------------ MODULE AmulLlm ------------------------------
(***************************************************************************)
(* Governed generation: POST /api/jarvis/llm/generate (app/main.py), the   *)
(* recall it makes through app/emr_tool.py, and the loop of                *)
(* app/amul_llm.py: route, ask the model or the stub, check, log.          *)
(*                                                                         *)
(* Beside a request the ledger is written and the model comes and goes.    *)
(* Which memories answer a query is EmrBundle's; here a recall takes any   *)
(* of them, one claim for a subject.  Texts are their length in lines.     *)
(***************************************************************************)
EXTENDS Integers, Sequences, FiniteSets, SequencesExt

CONSTANTS Asking,       \* the requests
          Themes,       \* what memories are about
          Notes,     \* ids
          Prompts,      \* [intent, mode, recall, subjects, own]: what a caller may ask
          MaxMemories, Context

\* The caller's own lines, the lead and the warning are no memories.
OwnLines == UNION {ToSet(ask.own) : ask \in Prompts}
ASSUME LlConstantsOK ==
  /\ Context \in Nat
  /\ \A ask \in Prompts : ask.own \in Seq(OwnLines)
  /\ (OwnLines \cup {"lead", "conflicts"}) \cap Notes = {}

VARIABLES notes,        \* the live memories: id -> [theme, claim]
          discovered,   \* _discovered_model: "unset", "" or the model's name
          asking,       \* per request: [pc, ask, recall, conflicts, context, cut, answer]
          generated,    \* the requests whose record the replay log holds
          heard         \* what the model was sent, by request under way (history)

llVars == <<notes, discovered, asking, generated, heard>>

Unasked == [pc |-> "new"]
LlInit ==
  /\ notes = <<>> /\ discovered = "unset" /\ generated = {}
  /\ asking = [q \in Asking |-> Unasked]
  /\ heard = <<>>

-----------------------------------------------------------------------------
(* Recall: emr_recall, _recalled_context *)

Remembered == \E m \in Notes, t \in Themes, c \in {1, 2} :
  /\ m \notin DOMAIN notes
  /\ notes' = [n \in DOMAIN notes \cup {m} |-> IF n = m THEN [theme |-> t, claim |-> c] ELSE notes[n]]
  /\ UNCHANGED <<discovered, asking, generated, heard>>
Forgotten == \E m \in DOMAIN notes :
  /\ notes' = [n \in DOMAIN notes \ {m} |-> notes[n]]
  /\ UNCHANGED <<discovered, asking, generated, heard>>

\* A request as it comes in, before anything is recalled or routed.
Asked(ask, pc, recall) ==
  [pc |-> pc, ask |-> ask, recall |-> recall, conflicts |-> {}, context |-> ask.own, cut |-> FALSE,
   mode |-> ask.mode, backend |-> "none", answer |-> "none"]

\* The records are read once; the excitation is over what was read.  A subject asked for
\* filters, but does not lift the gate: nothing may be recalled.
Recall(q) == \E ask \in Prompts :
  /\ asking[q].pc = "new"
  /\ IF ~ask.recall
     THEN asking' = [asking EXCEPT ![q] = Asked(ask, "route", <<>>)]
     ELSE \E bundle \in SUBSET DOMAIN notes :
       /\ Cardinality(bundle) <= MaxMemories
       /\ \A m \in bundle : ask.subjects # {} => notes[m].theme \in ask.subjects
       /\ \A m, n \in bundle : notes[m].theme = notes[n].theme => notes[m].claim = notes[n].claim
       /\ asking' = [asking EXCEPT ![q] = Asked(ask, "conflicts", [m \in bundle |-> notes[m].theme])]
  /\ UNCHANGED <<notes, discovered, generated, heard>>

Conflicting == {t \in Themes : \E m, n \in DOMAIN notes : notes[m].theme = t /\ notes[n].theme = t
                                                        /\ notes[m].claim # notes[n].claim}
\* A second reading of the ledger: the conflicts about what was recalled or asked for.
ReadConflicts(q) ==
  /\ asking[q].pc = "conflicts"
  /\ LET r == asking[q]
         met == Conflicting \cap (r.ask.subjects \cup {r.recall[m] : m \in DOMAIN r.recall})
     IN asking' = [asking EXCEPT ![q] = [r EXCEPT !.pc = "merge", !.conflicts = met]]
  /\ UNCHANGED <<notes, discovered, generated, heard>>

\* A line for each memory, below a first one that says what they are; conflicts come last.
Recalled(r) ==
  (IF DOMAIN r.recall = {} THEN <<>> ELSE <<"lead">> \o SetToSeq(DOMAIN r.recall))
    \o (IF r.conflicts = {} THEN <<>> ELSE <<"conflicts">>)
\* mutant: conflicts with nothing recalled are not worth a context
BundleOnly(r) == DOMAIN r.recall # {}
Worth(r) == DOMAIN r.recall # {} \/ r.conflicts # {}

\* What does not fit in the context is cut off at its end.
MergeContext(q) ==
  /\ asking[q].pc = "merge"
  /\ LET r == asking[q]
         whole == IF Worth(r) THEN Recalled(r) \o r.ask.own ELSE r.ask.own
     IN asking' = [asking EXCEPT ![q] = [r EXCEPT !.pc = "route", !.cut = Len(whole) > Context,
          !.context = SubSeq(whole, 1, IF Len(whole) < Context THEN Len(whole) ELSE Context)]]
  /\ UNCHANGED <<notes, discovered, generated, heard>>
-----------------------------------------------------------------------------
(* The loop: generate, routing_contract, core_model_generate *)

ModeOf(intent) ==
  CASE intent = "safety_sensitive" -> "safety_mode"
    [] intent \in {"reasoning", "math"} -> "reasoning_mode"
    [] intent = "coding" -> "tool_mode"
    [] intent = "creative_writing" -> "creative_mode"
    [] OTHER -> "chat_mode"
FirstIntent(mode) ==
  CASE mode = "safety_mode" -> "safety_sensitive" [] mode = "reasoning_mode" -> "math"
    [] mode = "tool_mode" -> "coding" [] mode = "creative_mode" -> "creative_writing" [] OTHER -> "chat"

\* A mode the caller names replaces what the query was classified as; an unknown one is refused.
Route(q) ==
  /\ asking[q].pc = "route"
  /\ LET r == asking[q]
         intent == IF r.ask.mode = "none" THEN r.ask.intent ELSE FirstIntent(r.ask.mode)
     IN asking' = [asking EXCEPT ![q] =
          IF r.ask.mode = "unknown" THEN [pc |-> "refused"]
          ELSE [r EXCEPT !.pc = IF intent = "safety_sensitive" THEN "log" ELSE "resolve", !.mode = ModeOf(intent),
                         !.backend = "logical-layer", !.answer = "refusal"]]
  /\ UNCHANGED <<notes, discovered, generated, heard>>

\* _resolve_model: the first to ask leaves "" while it asks the server which models there are;
\* a request that sees it names none, and which model answers is the server's.
Resolve(q) ==
  /\ asking[q].pc = "resolve"
  /\ IF discovered = "unset"
     THEN discovered' = "" /\ asking' = [asking EXCEPT ![q].pc = "discover"]
     ELSE UNCHANGED discovered /\ asking' = [asking EXCEPT ![q].pc = "send"]
  /\ UNCHANGED <<notes, generated, heard>>
Discover(q) == \E name \in {"", "m"} :
  /\ asking[q].pc = "discover"
  /\ discovered' = name
  /\ asking' = [asking EXCEPT ![q].pc = "send"]
  /\ UNCHANGED <<notes, generated, heard>>

Hears(q) == [p \in DOMAIN heard \cup {q} |-> IF p = q THEN asking[q].context ELSE heard[p]]

\* The model may have heard a request whose answer is lost; the stub answers then.
Send(q) ==
  /\ asking[q].pc = "send"
  /\ \/ /\ heard' = Hears(q)
        /\ asking' = [asking EXCEPT ![q] = [@ EXCEPT !.pc = "log", !.backend = "model", !.answer = "model's"]]
     \/ /\ heard' \in {heard, Hears(q)}
        /\ asking' = [asking EXCEPT ![q] = [@ EXCEPT !.pc = "log", !.backend = "echo-stub", !.answer = "stub's"]]
  /\ UNCHANGED <<notes, discovered, generated>>

Confidence(r) == IF r.backend # "model" THEN 45 ELSE IF r.context # <<>> THEN 85 ELSE 60
Record(r) ==
  [mode |-> r.mode, backend |-> r.backend, answer |-> r.answer, confidence |-> Confidence(r),
   memories |-> DOMAIN r.recall, conflicts |-> r.conflicts]

\* append_jsonl says whether it wrote the record; nobody asks.
Log(q) ==
  /\ asking[q].pc = "log"
  /\ generated' \in {generated, generated \cup {q}}
  /\ asking' = [asking EXCEPT ![q] = [pc |-> "answered"]]
  /\ heard' = [p \in DOMAIN heard \ {q} |-> heard[p]]
  /\ UNCHANGED <<notes, discovered>>

LlNext ==
  \/ Remembered \/ Forgotten
  \/ \E q \in Asking : \/ Recall(q) \/ ReadConflicts(q) \/ MergeContext(q) \/ Route(q)
                       \/ Resolve(q) \/ Discover(q) \/ Send(q) \/ Log(q)
LlSpec == LlInit /\ [][LlNext]_llVars
-----------------------------------------------------------------------------
(* Properties *)

\* An answer goes with a record that tells where it comes from: a model is named only if one
\* was asked, a request for safety mode was never sent to one, what the model saw of the
\* ledger is in the record, and unless the context was cut it saw all of it, the warning that
\* claims conflict too.  (app/amul_llm.py: generate; app/main.py: llm_generate)
RecordIsHonest == \A q \in Asking : asking[q].pc = "log" =>
  LET r == asking[q]
      record == Record(r)
      saw == IF q \in DOMAIN heard THEN ToSet(heard[q]) ELSE {}
  IN /\ record.backend = "model" => q \in DOMAIN heard
     /\ q \in DOMAIN heard => record.mode # "safety_mode"
     /\ saw \cap Notes \subseteq record.memories
     /\ q \in DOMAIN heard /\ ~r.cut =>
          record.memories \subseteq saw /\ (record.conflicts # {} => "conflicts" \in saw)
=============================================================================
