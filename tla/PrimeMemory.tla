----------------------------- MODULE PrimeMemory -----------------------------
(* What the agent writes with a model's help, and what it keeps of its work: *)
(* agent/prime-content.js asks agent/llm-router.js within a budget that is   *)
(* counted in an audit log; agent/prime-retrieval.js keeps an archive whose  *)
(* index is one file, read whole and written whole.  Makers are processes    *)
(* (the Prime orchestrator, the v1 agent) that share these files.            *)
(* seedPrimeArchive and updateArchiveOutcome have no caller and are left out,*)
(* and so is the completion summary, whose handler is never dispatched.      *)
EXTENDS Naturals, FiniteSets, Sequences, SequencesExt

CONSTANTS
    Unset,
    Makers,
    Providers,      \* PROVIDERS of the router in their order, ollama last
    PromptIsList,   \* does llmCall get the list of messages it expects?
    MaxItems,       \* bound: archive items
    MaxDrafts,      \* bound: contents begun
    MaxMishaps      \* bound: deaths of makers and appends that fail

MemoryAssumption == MaxItems \in Nat /\ MaxDrafts \in Nat /\ MaxMishaps \in Nat
ASSUME MemoryAssumption

VARIABLES
    env,       \* what the processes run with: [keys, preferred, ollama, image]
    packet,    \* per phase: the retrieval packet, Unset or the items it lists
    content,   \* per phase: Unset or [source, tried] of content_generation_log.json
    spent,     \* [asked, audited]: models that answered, calls in the audit log
    index,     \* archive/index.json: a set of [id, phase, quality]
    record,    \* per terminal: Unset or the archiveId of completion_archive_record.json
    maker,     \* per process: [op, at, entry, copy, source, tried]
    items, drafts,  \* archive items and contents begun so far
    mishaps    \* deaths of makers and failed appends so far

memoryVars == <<env, packet, content, spent, index, record, maker, items, drafts, mishaps>>
llmVars    == <<content, spent, drafts>>
archive    == <<index, record, items>>

Drafts    == {"application", "trial"}
(* The trial is kept by the Prime orchestrator, a completion by v1's submit  *)
(* before the operator signs it and by every poll of reconcile-completion.   *)
Terminals == {"trial", "submit", "poll"}
LlmBudget == 2

Free == [op |-> "free", at |-> "free", entry |-> Unset, copy |-> {}, source |-> "", tried |-> {}]

MemoryInit ==
    /\ env \in [keys : SUBSET (Range(Providers) \ {Last(Providers)}),
                preferred : Range(Providers) \cup {""}, ollama : BOOLEAN, image : BOOLEAN]
    /\ packet = [c \in Drafts |-> Unset] /\ content = [c \in Drafts |-> Unset]
    /\ spent = [asked |-> 0, audited |-> 0]
    /\ index = {} /\ record = [t \in Terminals |-> Unset]
    /\ maker = [p \in Makers |-> Free]
    /\ items = 0 /\ drafts = 0 /\ mishaps = 0

---------------------------------------------------------------------------
(* prime-content.js and llm-router.js *)

(* searchArchive filters by phase, then by keyword, acceptance or quality.   *)
Matches(c) == {hits \in SUBSET {e.id : e \in {x \in index : x.phase = c}} :
                  \A e \in index : e.phase = c /\ e.quality > 0 => e.id \in hits}

(* Mutant: the last call of the budget is counted as left. *)
BudgetConsumedLate == spent.audited > LlmBudget

BudgetConsumed == spent.audited >= LlmBudget

(* generateApplicationContent, generateTrialContent up to the choice: the    *)
(* packet is written, then the audit log is read.                            *)
Draft(p, c) ==
    /\ maker[p] = Free /\ drafts < MaxDrafts
    /\ \E hits \in Matches(c) : packet' = [packet EXCEPT ![c] = hits]
    /\ maker' = [maker EXCEPT ![p] =
          IF ~BudgetConsumed /\ env.ollama
          THEN [Free EXCEPT !.op = c, !.at = "call"]
          ELSE [Free EXCEPT !.op = c, !.at = "log",
                            !.source = IF BudgetConsumed THEN "template-budget-exhausted"
                                                         ELSE "template"]]
    /\ drafts' = drafts + 1
    /\ UNCHANGED <<env, content, spent, archive, mishaps>>

ProviderEnabled(id) == id \in env.keys \cup {Last(Providers)}

(* resolveCallOrder: the preferred provider, then the others that have keys. *)
CallOrder ==
    LET enabled == SelectSeq(Providers, ProviderEnabled)
        Other(id) == id # env.preferred
    IN  IF ProviderEnabled(env.preferred)
        THEN <<env.preferred>> \o SelectSeq(enabled, Other)
        ELSE enabled

FallBack(p, tried) ==
    /\ maker' = [maker EXCEPT ![p].at = "log", ![p].source = "template-fallback", ![p].tried = tried]
    /\ spent' = spent

(* llmCall on a prompt that is no list of messages throws at once.  Else the *)
(* first provider that answers; a job for images is declined before any.     *)
CallLlm(p) ==
    /\ maker[p].at = "call"
    /\ IF ~PromptIsList THEN FallBack(p, {})
       ELSE IF env.image THEN FallBack(p, {"declined"})
       ELSE \/ FallBack(p, Range(CallOrder))
            \/ \E n \in DOMAIN CallOrder :
                  /\ maker' = [maker EXCEPT ![p].at = "audit", ![p].source = "llm",
                                            ![p].tried = Range(SubSeq(CallOrder, 1, n))]
                  /\ spent' = [spent EXCEPT !.asked = @ + 1]
    /\ UNCHANGED <<env, packet, content, archive, drafts, mishaps>>

AppendLlmCallAudit(p) ==
    /\ maker[p].at = "audit"
    /\ spent' = [spent EXCEPT !.audited = @ + 1]
    /\ maker' = [maker EXCEPT ![p].at = "log"]
    /\ UNCHANGED <<env, packet, content, archive, drafts, mishaps>>

(* An append that fails is caught with the call's own errors: the answer is  *)
(* dropped for a template, and the call is counted nowhere.                  *)
AppendFails(p) ==
    /\ maker[p].at = "audit" /\ mishaps < MaxMishaps
    /\ maker' = [maker EXCEPT ![p].at = "log", ![p].source = "template-fallback"]
    /\ mishaps' = mishaps + 1
    /\ UNCHANGED <<env, packet, llmVars, archive>>

WriteContent(p) ==
    /\ maker[p].at = "log"
    /\ content' = [content EXCEPT ![maker[p].op] = [source |-> maker[p].source, tried |-> maker[p].tried]]
    /\ maker' = [maker EXCEPT ![p] = Free]
    /\ UNCHANGED <<env, packet, spent, archive, drafts, mishaps>>

(* setPreferredProvider, from mission control. *)
SetPreferredProvider(id) ==
    /\ env' = [env EXCEPT !.preferred = id]
    /\ UNCHANGED <<packet, llmVars, archive, maker, mishaps>>

---------------------------------------------------------------------------
(* prime-retrieval.js *)

(* resolveCanonicalRetrievalPacketPath: a procurement's packet is where it   *)
(* is looked for; execute.js puts a job's one directory higher, so submit    *)
(* never finds it.  The poll does not ask.                                   *)
PacketFound(t) == CASE t = "trial"  -> \E c \in Drafts : packet[c] # Unset
                    [] t = "submit" -> FALSE
                    [] t = "poll"   -> TRUE

(* A record that is there is returned as it is; a poll makes a new one each  *)
(* time, for the status it then sets is refused and the job keeps nothing.   *)
AlreadyKept(t) == t # "poll" /\ record[t] # Unset

(* Mutant: the record is written together with the item. *)
ExtractRecording(p, t) ==
    /\ maker[p] = Free /\ PacketFound(t) /\ ~AlreadyKept(t) /\ items < MaxItems
    /\ items' = items + 1
    /\ record' = [record EXCEPT ![t] = items + 1]
    /\ \E q \in {0, 1} :
          maker' = [maker EXCEPT ![p] = [Free EXCEPT !.op = t, !.at = "index",
                        !.entry = [id |-> items + 1, phase |-> IF t = "trial" THEN t ELSE "completion",
                                   quality |-> q]]]
    /\ UNCHANGED <<env, packet, llmVars, index, mishaps>>

(* ensureTerminalCompoundingArtifacts or ensureCompletionArchiveExtraction   *)
(* begins extractSteppingStone: the item and the stone are written.          *)
Extract(p, t) ==
    /\ maker[p] = Free /\ PacketFound(t) /\ ~AlreadyKept(t) /\ items < MaxItems
    /\ items' = items + 1
    /\ \E q \in {0, 1} :
          maker' = [maker EXCEPT ![p] = [Free EXCEPT !.op = t, !.at = "index",
                        !.entry = [id |-> items + 1, phase |-> IF t = "trial" THEN t ELSE "completion",
                                   quality |-> q]]]
    /\ UNCHANGED <<env, packet, llmVars, index, record, mishaps>>

LoadIndex(p) ==
    /\ maker[p].at = "index"
    /\ maker' = [maker EXCEPT ![p].at = "save", ![p].copy = index]
    /\ UNCHANGED <<env, packet, llmVars, archive, mishaps>>

SaveIndex(p) ==
    /\ maker[p].at = "save"
    /\ index' = maker[p].copy \cup {maker[p].entry}
    /\ maker' = [maker EXCEPT ![p].at = "record"]
    /\ UNCHANGED <<env, packet, llmVars, record, items, mishaps>>

(* The record, after a second look at the index; the poll does not look.     *)
WriteRecord(p) ==
    /\ maker[p].at = "record"
    /\ record' = IF maker[p].op = "poll" \/ maker[p].entry \in index
                 THEN [record EXCEPT ![maker[p].op] = maker[p].entry.id]
                 ELSE record
    /\ maker' = [maker EXCEPT ![p] = Free]
    /\ UNCHANGED <<env, packet, llmVars, index, items, mishaps>>

MakerDies(p) ==
    /\ maker[p] # Free /\ mishaps < MaxMishaps
    /\ maker' = [maker EXCEPT ![p] = Free]
    /\ mishaps' = mishaps + 1
    /\ UNCHANGED <<env, packet, llmVars, archive>>

MemoryNext ==
    \/ \E p \in Makers :
          \/ \E c \in Drafts : Draft(p, c)
          \/ CallLlm(p) \/ AppendLlmCallAudit(p) \/ AppendFails(p) \/ WriteContent(p)
          \/ \E t \in Terminals : Extract(p, t)
          \/ LoadIndex(p) \/ SaveIndex(p) \/ WriteRecord(p)
          \/ MakerDies(p)
    \/ \E id \in Range(Providers) : SetPreferredProvider(id)

MemorySpec == MemoryInit /\ [][MemoryNext]_memoryVars

---------------------------------------------------------------------------
(* A record of kept work names an entry that the archive's index still has,  *)
(* whatever died in between (prime-retrieval.js:339 asserts it once, when    *)
(* the record is written).                                                   *)
RecordIsIndexed ==
    \A t \in Terminals : record[t] # Unset => record[t] \in {e.id : e \in index}

(* The models answer at most as often as the budget says, and once more for  *)
(* each death or failed append between an answer and its entry in the log.   *)
BudgetHolds == spent.asked <= LlmBudget + mishaps
=============================================================================
