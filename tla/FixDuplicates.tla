---------------------------- MODULE FixDuplicates ----------------------------
(***************************************************************************)
(* scripts/fix_duplicates.py and the merge that must respect it.  The      *)
(* script replaces known wrong records of actions.json by corrected ones,  *)
(* and only then records the removals in _removed_actions.json, with       *)
(* another key than the one the merge computes and without a temporary     *)
(* file.  It may be killed between any two file operations.                *)
(***************************************************************************)
EXTENDS RegistryData

CONSTANTS
    RemoveIds,      \* REMOVE_IDS
    AddEntries,     \* ADD_ENTRIES
    Registries,     \* the registries the script is first run on
    HandEntries,    \* reject-list entries maintainers write
    Feeds,          \* fetched files
    MaxRuns         \* bound on the number of runs of the script

Entry == [isin : Isin, type : ActionType, ex : MaybeDay, amount : MaybeAmount]

(* What the records named by REMOVE_IDS are: dividends with an ex-date. *)
Sound(seq) ==
    \A i \in DOMAIN seq : WellFormed(seq[i]) /\ (seq[i].id \in RemoveIds => seq[i].ex # None)

ASSUME ScriptAssumption ==
    /\ AddEntries \in Seq(Action) /\ Sound(AddEntries) /\ UniqueIds(AddEntries)
    /\ \A i \in DOMAIN AddEntries : AddEntries[i].id \notin RemoveIds
ASSUME InputsAssumption ==
    /\ \A seq \in Registries : seq \in Seq(Action) /\ Sound(seq) /\ UniqueIds(seq)
    /\ \A seq \in Feeds : seq \in Seq(Action) /\ Sound(seq)
    /\ HandEntries \subseteq Entry
    /\ MaxRuns \in Nat

VARIABLES
    registry,   \* actions.json
    rejects,    \* the entries of _removed_actions.json
    torn,       \* it was emptied for a write that is not finished: it does not parse
    pc, runs,
    before,     \* actions.json as the script loaded it
    doc,        \* the reject list the script is about to write
    gone,       \* history: the keys of the records the script removed
    interrupted \* history: a run was killed or crashed half-way

vars == <<registry, rejects, torn, pc, runs, before, doc, gone, interrupted>>

Ids(seq) == {a.id : a \in Range(seq)}

Init ==
    /\ registry \in Registries
    /\ rejects = {} /\ torn = FALSE
    /\ pc = "idle" /\ runs = 0
    /\ before = << >> /\ doc = {}
    /\ gone = {} /\ interrupted = FALSE

-----------------------------------------------------------------------------
(* The reject list as its two readers see it *)

(* Mutant: the entry records the effective date. *)
EntryByEffectiveDate(a) == [isin |-> a.isin, type |-> a.type, ex |-> a.eff, amount |-> CashOf(a)]
EntryOf(a) == [isin |-> a.isin, type |-> a.type, ex |-> a.ex, amount |-> CashOf(a)]

(* reject_key_from_entry of the merge *)
EntryKey(e) == <<e.isin, Family(e.type), e.ex, AmountKey(e)>>

(* load_reject_set: both readers take a list that does not parse for an    *)
(* empty one.                                                              *)
Listed == IF torn THEN {} ELSE rejects
RejectSet == {EntryKey(e) : e \in Listed}

(* The key the script compares entries by: the type, not its family. *)
ScriptKey(e) == <<e.isin, e.type, e.ex, Round4(e.amount)>>

-----------------------------------------------------------------------------
(* The surroundings *)

Merge(feed) ==
    /\ pc = "idle"
    /\ registry' = MergeInto(registry, feed, RejectSet)
    /\ UNCHANGED <<rejects, torn, pc, runs, before, doc, gone, interrupted>>

AddHandEntry(e) ==
    /\ pc = "idle" /\ ~torn
    /\ rejects' = rejects \cup {e}
    /\ UNCHANGED <<registry, torn, pc, runs, before, doc, gone, interrupted>>

-----------------------------------------------------------------------------
(* One run of the script *)

Start ==
    /\ pc = "idle" /\ runs < MaxRuns
    /\ runs' = runs + 1
    /\ before' = registry
    /\ pc' = "plan"
    /\ UNCHANGED <<registry, rejects, torn, doc, gone, interrupted>>

Exit ==
    /\ pc' = "idle" /\ before' = << >> /\ doc' = {}
    /\ UNCHANGED runs

(* The records of a list whose id is none of ids, in their order. *)
Without(seq, ids) ==
    LET kept[n \in 0..Len(seq)] ==
            IF n = 0 THEN << >>
            ELSE IF seq[n].id \in ids THEN kept[n - 1] ELSE Append(kept[n - 1], seq[n])
    IN  kept[Len(seq)]

RemovedPresent == {i \in DOMAIN before : before[i].id \in RemoveIds}
AddedAlways    == AddEntries    \* mutant: entries already there are added again
AddedMissing   == Without(AddEntries, Ids(before))
Kept == Without(before, RemoveIds)

AlreadyApplied ==
    /\ pc = "plan"
    /\ RemovedPresent = {} /\ AddedMissing = << >>
    /\ Exit
    /\ UNCHANGED <<registry, rejects, torn, gone, interrupted>>

(* The backup is copied and the new list renamed over actions.json. *)
ReplaceActions ==
    /\ pc = "plan"
    /\ RemovedPresent # {} \/ AddedMissing # << >>
    /\ registry' = Kept \o AddedMissing
    /\ gone' = gone \cup {RejectKey(before[i]) : i \in RemovedPresent}
    /\ pc' = "record"
    /\ UNCHANGED <<rejects, torn, runs, before, doc, interrupted>>

NewEntries ==
    LET known == {ScriptKey(e) : e \in Listed}
    IN  {e \in {EntryOf(before[i]) : i \in RemovedPresent} : ScriptKey(e) \notin known}

(* round(None, 4) is a TypeError. *)
CanRound == \A e \in Listed : e.amount # None

ComposeRejects ==
    /\ pc = "record" /\ CanRound
    /\ doc' = Listed \cup NewEntries
    /\ pc' = "truncate"
    /\ UNCHANGED <<registry, rejects, torn, runs, before, gone, interrupted>>

(* Mutant: the write is never finished. *)
TruncateOnly ==
    /\ pc = "truncate"
    /\ torn' = TRUE /\ rejects' = {}
    /\ Exit
    /\ UNCHANGED <<registry, gone, interrupted>>

(* write_text opens the file for writing, which empties it, ... *)
TruncateRejects ==
    /\ pc = "truncate"
    /\ torn' = TRUE /\ rejects' = {}
    /\ pc' = "rewrite"
    /\ UNCHANGED <<registry, runs, before, doc, gone, interrupted>>

(* ... and then writes it. *)
WriteRejects ==
    /\ pc = "rewrite"
    /\ torn' = FALSE /\ rejects' = doc
    /\ Exit
    /\ UNCHANGED <<registry, gone, interrupted>>

Crash ==
    /\ pc = "record" /\ ~CanRound
    /\ interrupted' = TRUE
    /\ Exit
    /\ UNCHANGED <<registry, rejects, torn, gone>>

Kill ==
    /\ pc # "idle"
    /\ interrupted' = TRUE
    /\ Exit
    /\ UNCHANGED <<registry, rejects, torn, gone>>

Next ==
    \/ \E feed \in Feeds : Merge(feed)
    \/ \E e \in HandEntries : AddHandEntry(e)
    \/ Start \/ AlreadyApplied \/ ReplaceActions
    \/ ComposeRejects \/ TruncateRejects \/ WriteRejects
    \/ Crash \/ Kill

Spec == Init /\ [][Next]_vars

-----------------------------------------------------------------------------
(* Properties *)

(* A torn reject list is one the script is writing or was killed writing.  *)
TypeOK ==
    /\ registry \in Seq(Action) /\ before \in Seq(Action)
    /\ rejects \subseteq Entry /\ torn \in BOOLEAN /\ doc \subseteq Entry
    /\ pc \in {"idle", "plan", "record", "truncate", "rewrite"}
    /\ runs \in 0..MaxRuns /\ interrupted \in BOOLEAN
    /\ torn => pc = "rewrite" \/ interrupted

(* The two tools agree on keys: what an uninterrupted script removed, the  *)
(* merge bars, though the script writes and compares other keys than the   *)
(* merge computes.                                                         *)
RemovalsBarred == pc = "idle" /\ ~interrupted => gone \subseteq RejectSet

(* Whatever is killed when, actions.json holds no id twice.                *)
IdsStayUnique == UniqueIds(registry)

(* "Record the removals so the merge step cannot re-introduce them."       *)
RemovedNeverReturns ==
    [][\A a \in Range(registry') : RejectKey(a) \in gone /\ a.id \in RemoveIds
           => a \in Range(registry)]_vars
=============================================================================
