------------------------------ MODULE JsonStore ------------------------------
(***************************************************************************)
(* The document ledger of app/store.py: JarvisStore keeps a whole ledger   *)
(* in memory and replaces a JSON file on every change; PostgresJarvisStore *)
(* is the same with one JSONB row for the file.  One process; the threads  *)
(* that serve requests are Threads.                                        *)
(*                                                                         *)
(* A mutator holds the lock from its checks to the end of its save (or of  *)
(* the undo when the save fails); a reader takes it only to load.  A       *)
(* record is its version, a mark of its content, and the evidence object   *)
(* it links to; the board is a record that always exists.                  *)
(***************************************************************************)
EXTENDS Integers, FiniteSets

CONSTANTS Threads,      \* threads of the process
          Slots,        \* record ids (uuid: never used twice) 
          Board,        \* the slot of the board, not in Slots
          Marks,        \* contents that tell two writes apart
          Objects,      \* evidence objects
          NoObject,
          MaxVersion    \* bound: updates of one record

VARIABLES backend,      \* "file" or "blob"
          disk,         \* the file or the row
          memory,       \* what the process holds
          loaded,       \* _loaded
          job,          \* per thread: the mutation whose save is under way
          evidence,     \* objects whole in the sidecar file
          torn,         \* the sidecar ends in a torn line
          used,         \* ids handed out (history variable)
          mayHold       \* per slot, the versions the ledger may hold after what the
                        \* callers were told (history variable)

jsVars == <<backend, disk, memory, loaded, job, evidence, torn, used, mayHold>>

Absent == [version |-> 0, mark |-> 0, link |-> NoObject]
Record == [version : 0..MaxVersion, mark : Marks \cup {0}, link : Objects \cup {NoObject}]
Ledger == [Slots \cup {Board} -> Record]
EmptyLedger == [s \in Slots \cup {Board} |-> Absent]

\* On disk: a document (legacy: some row still has the old fields or no hash), no
\* file at all, or a file that does not parse or has a record that does not validate.
NoFile == [kind |-> "none", legacy |-> FALSE, ledger |-> EmptyLedger]
Damaged == [kind |-> "damaged", legacy |-> FALSE, ledger |-> EmptyLedger]
Document(l) == [kind |-> "document", legacy |-> FALSE, ledger |-> l]

LegacyFile(s) ==
  [kind |-> "document", legacy |-> TRUE,
   ledger |-> [EmptyLedger EXCEPT ![s] = [Absent EXCEPT !.version = 1]]]

NoJob == [slot |-> Board, undo |-> Absent, busy |-> FALSE]
LockFree == \A t \in Threads : ~job[t].busy

-----------------------------------------------------------------------------
(* Loading: under the lock, once; nothing is kept of a document that fails. *)

\* _hydrate of a document with legacy rows saves the migrated ledger at once.
Load ==
  /\ ~loaded /\ LockFree
  /\ disk.kind # "damaged"
  /\ memory' = disk.ledger
  /\ loaded' = TRUE
  /\ disk' = [disk EXCEPT !.legacy = FALSE]
  /\ UNCHANGED <<backend, job, evidence, torn, used, mayHold>>

\* The save of the migration fails: the parsed ledger stays in memory, not loaded.
LoadFails ==
  /\ ~loaded /\ LockFree
  /\ disk.legacy
  /\ memory' = disk.ledger
  /\ UNCHANGED <<backend, disk, loaded, job, evidence, torn, used, mayHold>>

-----------------------------------------------------------------------------
(* Mutators: change the memory, save, undo the change if the save fails. *)

\* Load is part of every mutator's call: a thread that has the lock has loaded.
Mutate(t, slot, record) ==
  /\ loaded /\ LockFree
  /\ memory' = [memory EXCEPT ![slot] = record]
  /\ job' = [job EXCEPT ![t] = [slot |-> slot, undo |-> memory[slot], busy |-> TRUE]]
  /\ UNCHANGED <<backend, disk, loaded, evidence, torn, mayHold>>

\* check_links: an evidence link must resolve to a whole object of the sidecar, and a
\* sidecar with a torn line cannot be read at all; the blob ledger has no objects.
Resolves(link) == link = NoObject \/ (backend = "file" /\ link \in evidence /\ ~torn)

CreateMemory(t) ==
  \E s \in Slots \ used, m \in Marks, link \in Objects \cup {NoObject} :
    /\ Resolves(link)
    /\ used' = used \cup {s}
    /\ Mutate(t, s, [version |-> 1, mark |-> m, link |-> link])

\* With expected_version the caller's version is compared under the lock: nothing to
\* add, the version it passes is the one there is or the call ends.
UpdateMemory(t) ==
  \E s \in Slots, m \in Marks, link \in Objects \cup {NoObject} :
    /\ memory[s].version \in 1..(MaxVersion - 1)
    /\ link # memory[s].link => Resolves(link)
    /\ Mutate(t, s, [version |-> memory[s].version + 1, mark |-> m, link |-> link])
    /\ UNCHANGED used

DeleteMemory(t) ==
  \E s \in Slots :
    /\ memory[s].version > 0
    /\ Mutate(t, s, Absent)
    /\ UNCHANGED used

\* set_board and patch_board; the board has no version.
SwapBoard(t) ==
  \E m \in Marks :
    /\ Mutate(t, Board, [Absent EXCEPT !.mark = m])
    /\ UNCHANGED used

\* mutant: the caller is answered although the save was cut short
AnsweredEarly(t) ==
  /\ job[t].busy
  /\ job' = [job EXCEPT ![t] = NoJob]
  /\ mayHold' = [mayHold EXCEPT ![job[t].slot] = {memory[job[t].slot].version}]
  /\ UNCHANGED <<backend, disk, memory, loaded, evidence, torn, used>>
\* os.replace, or the COMMIT of the upsert, succeeds and the caller is answered.
SaveSucceeds(t) ==
  /\ job[t].busy
  /\ disk' = Document(memory)
  /\ job' = [job EXCEPT ![t] = NoJob]
  /\ mayHold' = [mayHold EXCEPT ![job[t].slot] = {memory[job[t].slot].version}]
  /\ UNCHANGED <<backend, memory, loaded, evidence, torn, used>>

\* The caller is not told whether the change took effect.
Untold(t) == mayHold' = [mayHold EXCEPT ![job[t].slot] = @ \cup {memory[job[t].slot].version}]

\* mutant: the memory keeps a change whose save failed
ForgottenUndo(t) == UNCHANGED memory
Undo(t) == memory' = [memory EXCEPT ![job[t].slot] = job[t].undo]

\* The save raises; of the blob's COMMIT nobody knows whether it took effect.
SaveFails(t) ==
  /\ job[t].busy
  /\ Undo(t)
  /\ job' = [job EXCEPT ![t] = NoJob]
  /\ \/ UNCHANGED <<disk, mayHold>>
     \/ backend = "blob" /\ disk' = Document(memory) /\ Untold(t)
  /\ UNCHANGED <<backend, loaded, evidence, torn, used>>

-----------------------------------------------------------------------------
(* Evidence objects, crashes, and an editor that damages the file. *)

\* FileEvidenceStore.put reads every line first, so a torn line stops it.
PutEvidence ==
  /\ backend = "file" /\ LockFree /\ ~torn
  /\ \E o \in Objects \ evidence : evidence' = evidence \cup {o}
  /\ UNCHANGED <<backend, disk, memory, loaded, job, torn, used, mayHold>>

\* The process dies: before or after the file was replaced, or within an append to
\* the sidecar (only when no save has the lock).
Crash ==
  /\ memory' = EmptyLedger /\ loaded' = FALSE
  /\ job' = [t \in Threads |-> NoJob]
  /\ \/ LockFree /\ UNCHANGED <<disk, torn, mayHold>>
     \/ LockFree /\ backend = "file" /\ torn' = TRUE /\ UNCHANGED <<disk, mayHold>>
     \/ \E t \in Threads :
          /\ job[t].busy
          /\ disk' \in {disk, Document(memory)}
          /\ Untold(t)
          /\ UNCHANGED torn
  /\ UNCHANGED <<backend, evidence, used>>

\* Something outside the process leaves a file that cannot be loaded (it is down).
DamageFile ==
  /\ ~loaded
  /\ backend = "file" /\ disk.kind = "document"
  /\ disk' = Damaged
  /\ UNCHANGED <<backend, memory, loaded, job, evidence, torn, used, mayHold>>

JsInit ==
  /\ backend \in {"file", "blob"}
  /\ disk \in {NoFile} \cup {LegacyFile(s) : s \in Slots}
  /\ memory = EmptyLedger
  /\ loaded = FALSE
  /\ job = [t \in Threads |-> NoJob]
  /\ evidence = {} /\ torn = FALSE
  /\ used = {s \in Slots : disk.ledger[s] # Absent}
  /\ mayHold = [s \in Slots \cup {Board} |-> {disk.ledger[s].version}]

JsNext ==
  \/ Load \/ LoadFails \/ PutEvidence \/ Crash \/ DamageFile
  \/ \E t \in Threads :
       \/ CreateMemory(t) \/ UpdateMemory(t) \/ DeleteMemory(t) \/ SwapBoard(t)
       \/ SaveSucceeds(t) \/ SaveFails(t)

JsSpec == JsInit /\ [][JsNext]_jsVars

JsTypeOK ==
  /\ backend \in {"file", "blob"}
  /\ disk \in [kind : {"none", "document", "damaged"}, legacy : BOOLEAN, ledger : Ledger]
  /\ memory \in Ledger /\ loaded \in BOOLEAN
  /\ job \in [Threads -> [slot : Slots \cup {Board}, undo : Record, busy : BOOLEAN]]
  /\ evidence \in SUBSET Objects /\ torn \in BOOLEAN
  /\ used \in SUBSET Slots
  /\ mayHold \in [Slots \cup {Board} -> SUBSET (0..MaxVersion)]

-----------------------------------------------------------------------------
(* Safety *)

\* "Memory never leads disk": what a reader, which takes no lock, is given is what the
\* file holds, except in the one slot whose save is under way; there the mutation can
\* still be undone to what the file holds (_save_or_restore).
MemoryIsDisk ==
  backend = "file" /\ loaded =>
    \A s \in Slots \cup {Board} :
      \/ memory[s] = disk.ledger[s]
      \/ \E t \in Threads :
           job[t].busy /\ job[t].slot = s /\ job[t].undo = disk.ledger[s]

\* Across failed saves, crashes and restarts the ledger holds, of every record, the
\* version last acknowledged, or one whose outcome its caller was not told.
AckedSurvives ==
  disk.kind # "damaged" =>
    \A s \in Slots : disk.ledger[s].version \in mayHold[s]

\* The file is the ledger: for readers now, and for whoever loads it later.
\* (app/store.py: _save_or_restore, _load)
DiskIsTheLedger == MemoryIsDisk /\ AckedSurvives
=============================================================================
