--------------------------- MODULE UpdatePipeline ---------------------------
(***************************************************************************)
(* scripts/run_update.sh: fetch, merge, derive, validate, test, build,     *)
(* notify and commit, each a process of its own that reads actions.json    *)
(* afresh and whose failure ends the script (set -euo pipefail).  A run    *)
(* may be killed between any two file operations.  Between runs a          *)
(* maintainer edits the registry, classifies it, rewrites its ids and      *)
(* commits what is staged by hand.  The merge is one step here:            *)
(* MergeFetched shows that its process replaces actions.json in one.       *)
(***************************************************************************)
EXTENDS RegistryData

CONSTANTS
    Feeds,      \* what a fetcher can write to fetched_actions.json
    Edits,      \* what a maintainer can make of actions.json by hand
    Barred,     \* the keys of the reject list
    Options,    \* the command lines in use
    MinActions, \* --min-actions
    Absent,     \* no file, or no stored hash
    MaxRuns     \* bound on the number of runs

(* --dry-run switches tests and build off, --tests and --build on again:   *)
(* "tests" and "build" are what is left of the whole command line.         *)
Flags == [dry : BOOLEAN, fetch : BOOLEAN, tests : BOOLEAN, build : BOOLEAN,
          url : BOOLEAN, commit : BOOLEAN, tag : BOOLEAN]

ASSUME OptionsAssumption == Options \subseteq Flags
ASSUME FilesAssumption ==
    /\ Feeds \subseteq Seq(Action)
    /\ Edits \subseteq Seq(Action)
    /\ Absent \notin Seq(Action)
ASSUME BoundsAssumption == MinActions \in Nat \ {0} /\ MaxRuns \in Nat

(* The files of build.py in the order it writes them; the sidecar carries  *)
(* a timestamp, here the registry it was written for.                      *)
Artifacts == <<"dist.json", "min.json", "csv", "sql", "meta.json">>

VARIABLES
    registry,               \* actions.json
    backup,                 \* its last copy by rewrite_action_ids.py
    fetched,                \* the fetchers' output file
    index, head, remote,    \* actions.json as staged, committed and pushed
    dist,                   \* the artifacts, each with the registry it renders
    state,                  \* the registry whose hash notify_on_change.py stored
    attempted,              \* the registries a webhook call was made for
    pc, flags, runs,
    payload,                \* the registry build.py rendered
    next,                   \* the artifact build.py writes next
    newHash                 \* the registry notify_on_change.py hashed

git    == <<index, head, remote>>
notice == <<state, attempted>>
locals == <<payload, next, newHash>>
run    == <<flags, runs>>
vars   == <<registry, backup, fetched, git, dist, notice, pc, run, locals>>

NoFlags == [dry |-> FALSE, fetch |-> FALSE, tests |-> FALSE, build |-> FALSE,
            url |-> FALSE, commit |-> FALSE, tag |-> FALSE]

Published(content) == RegistryOK(content, MinActions) /\ content = WithImpacts(content)

Init ==
    /\ registry \in {r \in Edits : Published(r)}
    /\ index = registry /\ head = registry /\ remote = registry
    /\ dist \in {[f \in Range(Artifacts) |-> Absent], [f \in Range(Artifacts) |-> registry]}
    /\ backup = Absent /\ fetched = Absent
    /\ state \in {Absent, registry} /\ attempted = {state} \ {Absent}
    /\ pc = "idle" /\ flags = NoFlags /\ runs = 0
    /\ payload = Absent /\ next = 1 /\ newHash = Absent

-----------------------------------------------------------------------------
(* Between runs *)

(* A process is over, whether it succeeds, fails or is killed. *)
Exit ==
    /\ pc' = "idle" /\ flags' = NoFlags /\ runs' = runs
    /\ payload' = Absent /\ next' = 1 /\ newHash' = Absent

HandEdit(content) ==
    /\ pc = "idle"
    /\ registry' = content
    /\ UNCHANGED <<backup, fetched, git, dist, notice, pc, run, locals>>

(* tools/derive_redistribution.py *)
Classify ==
    /\ pc = "idle"
    /\ Classifiable(registry)
    /\ registry' = WithRedistribution(registry)
    /\ UNCHANGED <<backup, fetched, git, dist, notice, pc, run, locals>>

(* tools/rewrite_action_ids.py copies the registry aside ... *)
BackUp ==
    /\ pc = "idle"
    /\ Rewritable(registry) /\ WithCanonicalIds(registry) # registry
    /\ backup' = registry
    /\ pc' = "rewrite"
    /\ UNCHANGED <<registry, fetched, git, dist, notice, run, locals>>

(* ... and renames the new list over it. *)
RewriteIds ==
    /\ pc = "rewrite"
    /\ registry' = WithCanonicalIds(registry)
    /\ Exit
    /\ UNCHANGED <<backup, fetched, git, dist, notice>>

(* git commit and git push of what the pipeline staged *)
CommitByHand ==
    /\ pc = "idle"
    /\ head' = index /\ remote' = index
    /\ UNCHANGED <<registry, backup, fetched, index, dist, notice, pc, run, locals>>

-----------------------------------------------------------------------------
(* One run *)

(* A step that changes nothing but the place in the script. *)
GoTo(place) ==
    /\ pc' = place
    /\ UNCHANGED <<registry, backup, fetched, git, dist, notice, run, locals>>

Start(options) ==
    /\ pc = "idle" /\ runs < MaxRuns
    /\ options.tag => options.commit
    /\ flags' = [options EXCEPT !.tag = options.tag /\ ~options.dry]
    /\ runs' = runs + 1
    /\ pc' = "fetch"
    /\ UNCHANGED <<registry, backup, fetched, git, dist, notice, locals>>

Fetch(feed) ==
    /\ pc = "fetch" /\ flags.fetch
    /\ fetched' = feed
    /\ pc' = "merge"
    /\ UNCHANGED <<registry, backup, git, dist, notice, run, locals>>

SkipFetch ==
    /\ pc = "fetch" /\ ~flags.fetch
    /\ GoTo("derive")

(* Mutant: a dry run merges into the file. *)
MergeAlways ==
    /\ pc = "merge"
    /\ registry' = MergeInto(registry, fetched, Barred)
    /\ pc' = "derive"
    /\ UNCHANGED <<backup, fetched, git, dist, notice, run, locals>>

Merge ==
    /\ pc = "merge"
    /\ registry' = IF flags.dry THEN registry ELSE MergeInto(registry, fetched, Barred)
    /\ pc' = "derive"
    /\ UNCHANGED <<backup, fetched, git, dist, notice, run, locals>>

DeriveImpacts ==
    /\ pc = "derive"
    /\ ~flags.dry => Derivable(registry)
    /\ registry' = IF flags.dry THEN registry ELSE WithImpacts(registry)
    /\ pc' = "validate"
    /\ UNCHANGED <<backup, fetched, git, dist, notice, run, locals>>

(* Mutant: the validator's verdict is ignored. *)
ValidateWarnsOnly ==
    /\ pc = "validate"
    /\ GoTo(IF flags.tests THEN "tests" ELSE "build")

Validate ==
    /\ pc = "validate"
    /\ RegistryOK(registry, MinActions)
    /\ GoTo(IF flags.tests THEN "tests" ELSE "build")

TestsPass ==
    /\ pc = "tests"
    /\ GoTo("build")

(* Mutant: the rendering is thrown away. *)
RenderNothing ==
    /\ pc = "build" /\ flags.build
    /\ registry # << >>
    /\ pc' = "write"
    /\ UNCHANGED <<registry, backup, fetched, git, dist, notice, run, locals>>

(* Phase 1 of build.py: every artifact is rendered in memory. *)
Render ==
    /\ pc = "build" /\ flags.build
    /\ registry # << >>
    /\ payload' = registry /\ next' = 1
    /\ pc' = "write"
    /\ UNCHANGED <<registry, backup, fetched, git, dist, notice, run, newHash>>

SkipBuild ==
    /\ pc = "build" /\ ~flags.build
    /\ GoTo("notify")

(* Mutants: the sidecar is left out; the loop starts over.  *)
WriteAllButSidecar ==
    /\ pc = "write"
    /\ dist' = [dist EXCEPT ![Artifacts[next]] = payload]
    /\ next' = next + 1
    /\ pc' = IF next = Len(Artifacts) - 1 THEN "notify" ELSE "write"
    /\ UNCHANGED <<registry, backup, fetched, git, notice, run, payload, newHash>>
WriteRoundAndRound ==
    /\ pc = "write"
    /\ dist' = [dist EXCEPT ![Artifacts[next]] = payload]
    /\ next' = IF next = Len(Artifacts) THEN 1 ELSE next + 1
    /\ UNCHANGED <<registry, backup, fetched, git, notice, run, pc, payload, newHash>>

(* Phase 2: the artifacts are written one after the other. *)
WriteArtifact ==
    /\ pc = "write"
    /\ dist' = [dist EXCEPT ![Artifacts[next]] = payload]
    /\ next' = next + 1
    /\ pc' = IF next = Len(Artifacts) THEN "notify" ELSE "write"
    /\ UNCHANGED <<registry, backup, fetched, git, notice, run, payload, newHash>>

(* Mutant: the new hash is stored before the webhook is called. *)
NotifyAndStore ==
    /\ pc = "notify" /\ flags.url /\ state # registry
    /\ newHash' = registry /\ state' = registry
    /\ pc' = "webhook"
    /\ UNCHANGED <<registry, backup, fetched, git, dist, attempted, run, payload, next>>

NotifyHash ==
    /\ pc = "notify" /\ flags.url /\ state # registry
    /\ newHash' = registry
    /\ pc' = "webhook"
    /\ UNCHANGED <<registry, backup, fetched, git, dist, notice, run, payload, next>>

SkipNotify ==
    /\ pc = "notify" /\ (~flags.url \/ state = registry)
    /\ GoTo("commit")

(* A webhook that fails is only warned about. *)
CallWebhook ==
    /\ pc = "webhook"
    /\ attempted' = attempted \cup {newHash}
    /\ pc' = "save"
    /\ UNCHANGED <<registry, backup, fetched, git, dist, state, run, locals>>

SaveState ==
    /\ pc = "save"
    /\ state' = newHash
    /\ pc' = "commit"
    /\ UNCHANGED <<registry, backup, fetched, git, dist, attempted, run, locals>>

SkipCommit ==
    /\ pc = "commit" /\ (~flags.commit \/ flags.dry)
    /\ GoTo("done")

(* git add "$ACTIONS_PATH" 2>/dev/null || true *)
GitAdd ==
    /\ pc = "commit" /\ flags.commit /\ ~flags.dry
    /\ index' \in {registry, index}
    /\ pc' = "diff"
    /\ UNCHANGED <<registry, backup, fetched, head, remote, dist, notice, run, locals>>

(* Something is staged: the script has no branch for it. *)
LeaveStaged ==
    /\ pc = "diff" /\ index # head
    /\ GoTo("done")

PushUnchanged ==
    /\ pc = "diff" /\ index = head
    /\ remote' = head
    /\ pc' = IF flags.tag THEN "refuse" ELSE "done"
    /\ UNCHANGED <<registry, backup, fetched, index, head, dist, notice, run, locals>>

Succeed ==
    /\ pc = "done"
    /\ Exit
    /\ UNCHANGED <<registry, backup, fetched, git, dist, notice>>

(* A command exits nonzero: fetch, derive, validate, tests, a failed       *)
(* artifact or state write, a detached HEAD, a refused push or tag.        *)
CanFail ==
    \/ pc = "fetch" /\ flags.fetch
    \/ pc = "derive" /\ ~flags.dry /\ ~Derivable(registry)
    \/ pc = "validate" /\ ~RegistryOK(registry, MinActions)
    \/ pc = "build" /\ flags.build /\ registry = << >>
    \/ pc \in {"tests", "write", "save", "refuse", "rewrite"}
    \/ pc = "commit" /\ flags.commit /\ ~flags.dry
    \/ pc = "diff" /\ index = head

Fail ==
    /\ CanFail
    /\ Exit
    /\ UNCHANGED <<registry, backup, fetched, git, dist, notice>>

Kill ==
    /\ pc # "idle"
    /\ Exit
    /\ UNCHANGED <<registry, backup, fetched, git, dist, notice>>

Step ==
    \/ \E feed \in Feeds : Fetch(feed)
    \/ SkipFetch \/ Merge \/ DeriveImpacts \/ Validate \/ TestsPass
    \/ Render \/ SkipBuild \/ WriteArtifact
    \/ NotifyHash \/ SkipNotify \/ CallWebhook \/ SaveState
    \/ SkipCommit \/ GitAdd \/ LeaveStaged \/ PushUnchanged
    \/ Succeed \/ Fail \/ RewriteIds

Next ==
    \/ \E content \in Edits : HandEdit(content)
    \/ Classify \/ CommitByHand \/ BackUp
    \/ \E options \in Options : Start(options)
    \/ Step
    \/ Kill

(* The shell goes on with the script it has begun. *)
Spec == Init /\ [][Next]_vars /\ WF_vars(Step)

-----------------------------------------------------------------------------
(* Properties *)

Content == Seq(Action)

(* Every step finds the input an earlier one has left it.                  *)
TypeOK ==
    /\ registry \in Content /\ index \in Content /\ head \in Content /\ remote \in Content
    /\ backup \in Content \cup {Absent} /\ fetched \in Feeds \cup {Absent}
    /\ dist \in [Range(Artifacts) -> Content \cup {Absent}]
    /\ state \in Content \cup {Absent} /\ attempted \subseteq Content
    /\ payload \in Content \cup {Absent} /\ newHash \in Content \cup {Absent}
    /\ next \in 1..Len(Artifacts) + 1 /\ runs \in 0..MaxRuns /\ flags \in Flags
    /\ pc \in {"idle", "fetch", "merge", "derive", "validate", "tests", "build", "write",
               "notify", "webhook", "save", "commit", "diff", "refuse", "done", "rewrite"}
    /\ pc = "merge" => fetched # Absent
    /\ pc = "write" => payload # Absent /\ next <= Len(Artifacts)
    /\ pc \in {"webhook", "save"} => newHash # Absent

(* The gate of step 4: whatever a maintainer or a fetcher put into         *)
(* actions.json, nothing is staged, built or announced that the validator  *)
(* rejects, and nothing is staged, committed or pushed with impacts other  *)
(* than the derived ones.                                                  *)
NothingUnvalidated ==
    /\ \A content \in {index, head, remote} : Published(content)
    /\ \A content \in (attempted \cup {state} \cup Range(dist)) \ {Absent} :
            RegistryOK(content, MinActions)

(* Exit 0 means that every artifact asked for renders the registry on disk *)
(* and that notify_on_change.py has seen it, whatever earlier runs that    *)
(* failed or were killed left behind.                                      *)
SuccessMeansCurrent ==
    pc = "done" =>
        /\ flags.build => Range(dist) = {registry}
        /\ flags.url => state = registry

(* The state file never runs ahead of the webhook: a run killed between    *)
(* the two notifies again, it does not lose the change.                    *)
StateFollowsWebhook == state # Absent => state \in attempted

(* A dry run, with --build and --commit too, leaves the registry and the   *)
(* repository alone.                                                       *)
DryRunKeepsRepository == [][flags.dry => UNCHANGED <<registry, git>>]_vars

WrittenPlainly(a) == a.type \in RatioTypes => a.ratio = Numbers(a.ratio)

(* rewrite_action_ids.py, interrupted anywhere: the registry it replaces   *)
(* is in the backup, and the one it writes is the old one but for the ids, *)
(* of which no two are the same.  The validator builds no ids but compares *)
(* texts: it accepts every one of them but those of the records whose      *)
(* ratio has leading zeros, which the rewriting names by its numbers.      *)
RewriteRepairs ==
    [][pc = "rewrite" /\ registry' # registry =>
            /\ backup = registry
            /\ UniqueIds(registry')
            /\ \A i \in DOMAIN registry :
                 /\ registry'[i] = [registry[i] EXCEPT !.id = registry'[i].id]
                 /\ IdFormatOK(registry'[i]) <=> WrittenPlainly(registry[i])]_vars

(* Every run comes to an end. *)
RunEnds == pc # "idle" ~> pc = "idle"
=============================================================================
