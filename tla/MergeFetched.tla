---------------------------- MODULE MergeFetched ----------------------------
(***************************************************************************)
(* tools/merge_fetched.py run over and over on one checkout: each run      *)
(* loads actions.json, the fetched file and the reject list, walks the     *)
(* fetched actions in order and renames a complete new actions.json into   *)
(* place.  A run may be killed at any point.  Between runs the fetched     *)
(* file is replaced and a maintainer removes actions by the protocol of    *)
(* the README: first the reject-list entry, then the action.               *)
(***************************************************************************)
EXTENDS RegistryData

CONSTANTS
    Event,      \* the action records the sources and the registry can hold
    Feeds,      \* the fetched_actions.json documents: sequences of events
    Registries, \* the initial contents of actions.json
    BadFile,    \* stands for a file that is missing or does not parse
    MaxRuns     \* bound on the number of merge runs

ASSUME EventAssumption == Event \subseteq {a \in Action : WellFormed(a)}
ASSUME FeedsAssumption == Feeds \subseteq Seq(Event)
ASSUME RegistriesAssumption ==
    /\ Registries \subseteq Seq(Event)
    /\ \A r \in Registries : SemanticallyUnique(r) /\ UniqueIds(r)
ASSUME BadFileAssumption == BadFile \notin Seq(Event)
ASSUME MaxRunsAssumption == MaxRuns \in Nat

RejectKeys == {RejectKey(a) : a \in Event}

VARIABLES
    actions,    \* actions.json
    tmp,        \* actions.json.tmp
    fetched,    \* fetched_actions.json, or BadFile
    removed,    \* the keys of the entries of _removed_actions.json
    legible,    \* that file is present and parses
    pc, dryRun, runs,
    current,    \* the registry as loaded by this run
    rejectSet,  \* the reject set as loaded by this run
    pos,        \* candidates before this position are decided
    added, rejectedRemoved, rejectedSemantic

files  == <<actions, tmp, fetched, removed, legible>>
locals == <<current, rejectSet, pos, added, rejectedRemoved, rejectedSemantic>>
flags  == <<dryRun, runs>>
vars   == <<files, locals, flags, pc>>

(* Every file holds events, and a run is at the rename only with a         *)
(* complete temporary file.                                                *)
TypeOK ==
    /\ actions \in Seq(Event) /\ current \in Seq(Event) /\ added \in Seq(Event)
    /\ tmp \in Seq(Event) \cup {BadFile}
    /\ fetched \in Feeds \cup {BadFile}
    /\ removed \subseteq RejectKeys /\ rejectSet \subseteq RejectKeys
    /\ legible \in BOOLEAN /\ dryRun \in BOOLEAN
    /\ pc \in {"idle", "load", "merge", "write", "rename", "report"}
    /\ pc = "merge" => fetched # BadFile
    /\ pc = "rename" => tmp # BadFile
    /\ pos \in Nat \ {0} /\ runs \in Nat
    /\ rejectedRemoved \subseteq Event /\ rejectedSemantic \subseteq Event

(* The list merge() grows, and the keys of everything in it. *)
Working == current \o added
(* Mutant: the keys of what this run accepted are not added. *)
LoadedKeys == {FuzzyKey(a) : a \in Range(current)}
ExistingKeys == {FuzzyKey(a) : a \in Range(Working)}

Init ==
    /\ actions \in Registries
    /\ tmp = BadFile
    /\ fetched \in Feeds \cup {BadFile}
    /\ removed = {} /\ legible = TRUE
    /\ pc = "idle" /\ runs = 0
    /\ dryRun = FALSE
    /\ current = << >> /\ rejectSet = {} /\ pos = 1
    /\ added = << >> /\ rejectedRemoved = {} /\ rejectedSemantic = {}

-----------------------------------------------------------------------------
(* Between runs *)

Fetch(feed) ==
    /\ pc = "idle"
    /\ fetched' = feed
    /\ UNCHANGED <<actions, tmp, removed, legible, locals, flags, pc>>

(* A hand edit of the reject list breaks its JSON, or mends it. *)
EditRejectList ==
    /\ pc = "idle"
    /\ legible' = ~legible
    /\ UNCHANGED <<actions, tmp, fetched, removed, locals, flags, pc>>

AddRejectEntry(key) ==
    /\ pc = "idle" /\ legible
    /\ \E a \in Range(actions) : RejectKey(a) = key
    /\ removed' = removed \cup {key}
    /\ UNCHANGED <<actions, tmp, fetched, legible, locals, flags, pc>>

RemoveAction(i) ==
    /\ pc = "idle"
    /\ RejectKey(actions[i]) \in removed
    /\ actions' = RemoveAt(actions, i)
    /\ UNCHANGED <<tmp, fetched, removed, legible, locals, flags, pc>>

-----------------------------------------------------------------------------
(* One run *)

Start(dry) ==
    /\ pc = "idle" /\ runs < MaxRuns
    /\ runs' = runs + 1
    /\ dryRun' = dry
    /\ pc' = "load"
    /\ UNCHANGED <<files, locals>>

(* The process is gone, and its memory with it. *)
Exit ==
    /\ pc' = "idle"
    /\ current' = << >> /\ rejectSet' = {} /\ pos' = 1
    /\ added' = << >> /\ rejectedRemoved' = {} /\ rejectedSemantic' = {}
    /\ dryRun' = FALSE /\ runs' = runs

LoadFails ==
    /\ pc = "load"
    /\ fetched = BadFile
    /\ Exit
    /\ UNCHANGED files

(* Mutant: the reject list is read by the first run only. *)
LoadOnce ==
    /\ pc = "load"
    /\ fetched # BadFile
    /\ current' = actions
    /\ rejectSet' = IF legible /\ runs = 1 THEN removed ELSE rejectSet
    /\ pos' = 1
    /\ added' = << >> /\ rejectedRemoved' = {} /\ rejectedSemantic' = {}
    /\ pc' = "merge"
    /\ UNCHANGED <<files, flags>>

Load ==
    /\ pc = "load"
    /\ fetched # BadFile
    /\ current' = actions
    /\ rejectSet' = IF legible THEN removed ELSE {}
    /\ pos' = 1
    /\ added' = << >> /\ rejectedRemoved' = {} /\ rejectedSemantic' = {}
    /\ pc' = "merge"
    /\ UNCHANGED <<files, flags>>

Candidate == fetched[pos]

Deciding ==
    /\ pc = "merge"
    /\ pos <= Len(fetched)

IsKnown(a) == FuzzyKey(a) \in ExistingKeys

(* Mutant: the key holds the type instead of its family. *)
IsRejectedByType(a) == <<a.isin, a.type, RefDate(a), AmountKey(a)>> \in rejectSet
IsRejected(a) == RejectKey(a) \in rejectSet

(* Mutants: the trial list lacks what this run accepted; the amount and    *)
(* the ratio are not compared.                                             *)
IsDuplicateOfLoaded(a) == ~SemanticallyUnique(Append(current, a))
IsNearInTime(a) ==
    \E b \in Range(Working) : /\ a.isin = b.isin /\ Family(a.type) = Family(b.type)
                            /\ DaysApart(a, b) <= SemanticDays
IsDuplicate(a) == ~SemanticallyUnique(Append(Working, a))

Advance == pos' = pos + 1

SkipKnown ==
    /\ Deciding /\ IsKnown(Candidate)
    /\ Advance
    /\ UNCHANGED <<files, flags, pc, current, rejectSet,
                   added, rejectedRemoved, rejectedSemantic>>

RejectRemoved ==
    /\ Deciding /\ ~IsKnown(Candidate) /\ IsRejected(Candidate)
    /\ rejectedRemoved' = rejectedRemoved \cup {Candidate}
    /\ Advance
    /\ UNCHANGED <<files, flags, pc, current, rejectSet, added, rejectedSemantic>>

RejectSemantic ==
    /\ Deciding /\ ~IsKnown(Candidate) /\ ~IsRejected(Candidate) /\ IsDuplicate(Candidate)
    /\ rejectedSemantic' = rejectedSemantic \cup {Candidate}
    /\ Advance
    /\ UNCHANGED <<files, flags, pc, current, rejectSet, added, rejectedRemoved>>

Accept ==
    /\ Deciding /\ ~IsKnown(Candidate) /\ ~IsRejected(Candidate) /\ ~IsDuplicate(Candidate)
    /\ added' = Append(added, Candidate)
    /\ Advance
    /\ UNCHANGED <<files, flags, pc, current, rejectSet,
                   rejectedRemoved, rejectedSemantic>>

Merged ==
    /\ pc = "merge"
    /\ pos > Len(fetched)
    /\ pc' = IF added # << >> /\ ~dryRun THEN "write" ELSE "report"
    /\ UNCHANGED <<files, locals, flags>>

(* Mutants: a torn payload reaches the rename; only the first accepted     *)
(* record is written.                                                      *)
WriteTorn ==
    /\ pc = "write"
    /\ tmp' \in {Working, BadFile}
    /\ pc' = "rename"
    /\ UNCHANGED <<actions, fetched, removed, legible, locals, flags>>
WritePart ==
    /\ pc = "write"
    /\ tmp' = Append(current, added[1])
    /\ pc' = "rename"
    /\ UNCHANGED <<actions, fetched, removed, legible, locals, flags>>

(* write_atomic: the whole payload goes to the .tmp file ... *)
WriteTmp ==
    /\ pc = "write"
    /\ tmp' = Working
    /\ pc' = "rename"
    /\ UNCHANGED <<actions, fetched, removed, legible, locals, flags>>

(* ... which then replaces actions.json. *)
Rename ==
    /\ pc = "rename"
    /\ actions' = tmp /\ tmp' = BadFile
    /\ pc' = "report"
    /\ UNCHANGED <<fetched, removed, legible, locals, flags>>

Report ==
    /\ pc = "report"
    /\ Exit
    /\ UNCHANGED files

(* The process is killed.  In the middle of the write the .tmp file is torn. *)
Kill ==
    /\ pc # "idle"
    /\ tmp' \in IF pc = "write" THEN {tmp, BadFile} ELSE {tmp}
    /\ Exit
    /\ UNCHANGED <<actions, fetched, removed, legible>>

Step ==
    \/ LoadFails \/ Load
    \/ SkipKnown \/ RejectRemoved \/ RejectSemantic \/ Accept
    \/ Merged \/ WriteTmp \/ Rename \/ Report

Next ==
    \/ \E feed \in Feeds \cup {BadFile} : Fetch(feed)
    \/ EditRejectList
    \/ \E key \in RejectKeys : AddRejectEntry(key)
    \/ \E i \in DOMAIN actions : RemoveAction(i)
    \/ \E dry \in BOOLEAN : Start(dry)
    \/ Step
    \/ Kill

Spec == Init /\ [][Next]_vars

-----------------------------------------------------------------------------
(* The inductive invariant *)

Running == pc \in {"merge", "write", "rename"}

(* Nothing touches actions.json or the reject list while a run works on    *)
(* its copies, so what the run decides about the copies holds of the files *)
(* when it renames.                                                        *)
CopiesCurrent ==
    Running => /\ current = actions
               /\ rejectSet = IF legible THEN removed ELSE {}

WorkingSound ==
    /\ SemanticallyUnique(Working)
    /\ UniqueIds(Working)
    /\ \A a \in Range(added) : RejectKey(a) \notin rejectSet

IInv ==
    /\ TypeOK
    /\ SemanticallyUnique(actions)
    /\ UniqueIds(actions)
    /\ CopiesCurrent
    /\ WorkingSound
    /\ pc = "rename" => tmp = Working
    /\ \A c \in rejectedSemantic : \E a \in Range(Working) : SameEvent(a, c)

-----------------------------------------------------------------------------
(* Properties *)

(* merge(): actions.json never holds two records of one underlying event,  *)
(* whatever the fetched files hold and wherever runs are killed.           *)
RegistrySemanticallyUnique == SemanticallyUnique(actions)

(* merge() compares no action_id, yet no two records ever share one: equal *)
(* ids force an equal fuzzy key or a semantic match.                       *)
RegistryIdsUnique == UniqueIds(actions)

KeysOf(seq) == {RejectKey(a) : a \in Range(seq)}

(* An event on the reject list that has left the registry never comes      *)
(* back, under either type of its family, in a run that can read the list. *)
RemovedStaysOut ==
    [][legible => \A key \in removed :
            key \notin KeysOf(actions) => key \notin KeysOf(actions')]_vars

(* A candidate reported as a semantic duplicate is one: the check runs on  *)
(* the whole list, so it would also blame a pair the list already held.    *)
RejectionJustified ==
    \A c \in rejectedSemantic : \E a \in Range(Working) : SameEvent(a, c)

(* The registry grows only by the whole result of one run over the files   *)
(* as they are, never by a part of it and never from a stale copy.         *)
GrowsByWholeMerges ==
    [][Len(actions') > Len(actions) =>
           actions' = MergeInto(actions, fetched, IF legible THEN removed ELSE {})]_vars

(* What the merge promises, on the registry as a set. *)
IdOf(a) == a.id
Promise == INSTANCE CuratedRegistry
               WITH registry <- Range(actions), barred <- removed, enforced <- legible,
                    Key <- RejectKey, Id <- IdOf, Same <- SameEvent
PromiseKept == Promise!Spec
=============================================================================
