--------------------------- MODULE PipelineProofs ---------------------------
(***************************************************************************)
(* Theorems about UpdatePipeline for every feed, hand edit and command     *)
(* line, any number of runs, failing or killed anywhere.                   *)
(***************************************************************************)
EXTENDS UpdatePipeline, RegistryProofs

(* The first rendering, and the first file. *)
LEMMA ArtifactsAreFive ==
    /\ Len(Artifacts) = 5
    /\ \A i \in 1..5 : Artifacts[i] \in Range(Artifacts)
    /\ \A f \in Range(Artifacts) : \E i \in 1..5 : Artifacts[i] = f
<1>1. Len(Artifacts) = 5 /\ DOMAIN Artifacts = 1..5
    BY DEF Artifacts
<1> HIDE DEF Artifacts
<1> QED
    BY <1>1 DEF Range

-----------------------------------------------------------------------------
(* Type correctness *)

LEMMA InitTypeOK == Init => TypeOK
<1> SUFFICES ASSUME Init PROVE TypeOK
    OBVIOUS
<1>1. registry \in Content
    BY FilesAssumption DEF Init, Content
<1>2. dist \in [Range(Artifacts) -> Content \cup {Absent}]
    BY <1>1 DEF Init
<1>3. NoFlags \in Flags
    BY DEF NoFlags, Flags
<1> QED
    BY <1>1, <1>2, <1>3, BoundsAssumption, ArtifactsAreFive DEF Init, TypeOK

(* A process that is over leaves the files as they are. *)
LEMMA ExitTypeOK ==
    ASSUME TypeOK, Exit, UNCHANGED <<backup, fetched, git, dist, notice>>,
           registry' \in Content
    PROVE  TypeOK'
<1>1. NoFlags \in Flags
    BY DEF NoFlags, Flags
<1> QED
    BY <1>1, ArtifactsAreFive DEF TypeOK, Exit, git, notice

(* So does a step that only goes on. *)
LEMMA GoToTypeOK ==
    ASSUME TypeOK, NEW place, GoTo(place),
           place \in {"derive", "tests", "build", "notify", "commit", "done"}
    PROVE  TypeOK'
    BY DEF TypeOK, GoTo, git, notice, run, locals

(* The rewriting of the ids has the registry in its backup, and an id for  *)
(* each of its records: without one, it would write no records.            *)
RewriteSound == pc = "rewrite" => backup = registry /\ Rewritable(registry)

LEMMA NextTypeOK == TypeOK /\ RewriteSound /\ [Next]_vars => TypeOK'
<1> SUFFICES ASSUME TypeOK, RewriteSound, [Next]_vars PROVE TypeOK'
    OBVIOUS
<1> USE DEF git, notice, run, locals
<1>1. ASSUME NEW content \in Edits, HandEdit(content) PROVE TypeOK'
    BY <1>1, FilesAssumption DEF TypeOK, HandEdit, Content
<1>2. CASE Classify
  <2>1. registry' \in Content
    BY <1>2, WithRedistributionOfRecords DEF TypeOK, Classify, Content
  <2> QED
    BY <1>2, <2>1 DEF TypeOK, Classify
<1>3. CASE CommitByHand
    BY <1>3 DEF TypeOK, CommitByHand
<1>4. CASE BackUp
    BY <1>4 DEF TypeOK, BackUp
<1>5. ASSUME NEW options \in Options, Start(options) PROVE TypeOK'
  <2>1. flags' \in Flags
    BY <1>5, OptionsAssumption DEF Start, Flags
  <2>2. runs' \in 0..MaxRuns
    BY <1>5, BoundsAssumption DEF Start, TypeOK
  <2> QED
    BY <1>5, <2>1, <2>2 DEF TypeOK, Start
<1>6. ASSUME NEW feed \in Feeds, Fetch(feed) PROVE TypeOK'
    BY <1>6, FilesAssumption DEF TypeOK, Fetch
<1>7. CASE Merge
  <2>1. fetched \in Seq(Action)
    BY <1>7, FilesAssumption DEF TypeOK, Merge
  <2>2. registry' \in Content
    BY <1>7, <2>1, MergeOfRecords DEF TypeOK, Merge, Content
  <2> QED
    BY <1>7, <2>2 DEF TypeOK, Merge
<1>8. CASE DeriveImpacts
  <2>1. registry' \in Content
    BY <1>8, WithImpactsOfRecords DEF TypeOK, DeriveImpacts, Content
  <2> QED
    BY <1>8, <2>1 DEF TypeOK, DeriveImpacts
<1>9. CASE SkipFetch \/ Validate \/ TestsPass \/ SkipBuild \/ SkipNotify \/ SkipCommit \/ LeaveStaged
    BY <1>9, GoToTypeOK
       DEF SkipFetch, Validate, TestsPass, SkipBuild, SkipNotify, SkipCommit, LeaveStaged
<1>10. CASE Render
    BY <1>10, ArtifactsAreFive, FilesAssumption DEF TypeOK, Render, Content
<1>11. CASE WriteArtifact
  <2>1. dist' \in [Range(Artifacts) -> Content \cup {Absent}]
    BY <1>11 DEF TypeOK, WriteArtifact
  <2> QED
    BY <1>11, <2>1, ArtifactsAreFive DEF TypeOK, WriteArtifact
<1>12. CASE NotifyHash
    BY <1>12, FilesAssumption DEF TypeOK, NotifyHash, Content
<1>13. CASE CallWebhook \/ SaveState
    BY <1>13 DEF TypeOK, CallWebhook, SaveState
<1>14. CASE GitAdd \/ PushUnchanged
    BY <1>14 DEF TypeOK, GitAdd, PushUnchanged
<1>15. CASE Succeed \/ Fail \/ Kill
    BY <1>15, ExitTypeOK DEF TypeOK, Succeed, Fail, Kill
<1>16. CASE RewriteIds
  <2>1. registry' \in Content
    BY <1>16, WithCanonicalIdsOfRecords DEF TypeOK, RewriteIds, RewriteSound, Content
  <2> QED
    BY <1>16, <2>1, ExitTypeOK DEF RewriteIds
<1>17. CASE UNCHANGED vars
    BY <1>17 DEF TypeOK, vars
<1> QED
    BY <1>1, <1>2, <1>3, <1>4, <1>5, <1>6, <1>7, <1>8, <1>9, <1>10, <1>11, <1>12, <1>13,
       <1>14, <1>15, <1>16, <1>17 DEF Next, Step

-----------------------------------------------------------------------------
(* The invariant *)

(* The places behind the validator, behind the build and behind the        *)
(* notification.                                                           *)
Notified == {"commit", "diff", "refuse", "done"}
Built    == {"notify", "webhook", "save"} \cup Notified
Passed   == {"tests", "build", "write"} \cup Built

(* No run has flags that is not under way, and a dry run stages nothing. *)
FlagsFit ==
    /\ pc \in {"idle", "rewrite"} => flags = NoFlags
    /\ pc \in {"diff", "refuse"} => ~flags.dry

(* What the validator has passed is still the registry. *)
Gate ==
    /\ pc \in Passed => RegistryOK(registry, MinActions)
    /\ pc \in Passed \cup {"validate"} /\ ~flags.dry => registry = WithImpacts(registry)

(* The artifacts written so far render it. *)
BuildSound ==
    /\ pc = "write" =>
         /\ payload = registry
         /\ \A i \in 1..5 : i < next => dist[Artifacts[i]] = registry
    /\ pc \in Built /\ flags.build => \A i \in 1..5 : dist[Artifacts[i]] = registry

(* The hash under way is its own, and stored after the webhook only. *)
NoticeSound ==
    /\ pc \in {"webhook", "save"} => newHash = registry
    /\ pc = "save" => newHash \in attempted
    /\ pc \in Notified /\ flags.url => state = registry

IInv ==
    /\ TypeOK /\ FlagsFit /\ Gate /\ BuildSound /\ NoticeSound /\ RewriteSound
    /\ NothingUnvalidated /\ StateFollowsWebhook

LEMMA InitIInv == Init => IInv
<1> SUFFICES ASSUME Init PROVE IInv
    OBVIOUS
<1>1. TypeOK
    BY InitTypeOK
<1>2. FlagsFit /\ Gate /\ BuildSound /\ NoticeSound /\ RewriteSound
    BY DEF Init, FlagsFit, Gate, BuildSound, NoticeSound, RewriteSound, Passed, Built, Notified
<1>3. Published(registry) /\ RegistryOK(registry, MinActions)
    BY DEF Init, Published
<1>4. NothingUnvalidated
  <2>1. \A content \in Range(dist) \ {Absent} : content = registry
    BY DEF Init, Range
  <2> QED
    BY <1>3, <2>1 DEF Init, NothingUnvalidated
<1>5. StateFollowsWebhook
    BY DEF Init, StateFollowsWebhook
<1> QED
    BY <1>1, <1>2, <1>4, <1>5 DEF IInv

(* Without a process under way, the parts that speak of one say nothing;   *)
(* the others hold as long as the files they speak of stay.                *)
LEMMA IdleIInv ==
    ASSUME IInv, TypeOK', pc' = "idle", flags' = NoFlags, UNCHANGED <<git, dist, notice>>
    PROVE  IInv'
<1>1. FlagsFit' /\ Gate' /\ BuildSound' /\ NoticeSound' /\ RewriteSound'
    BY DEF FlagsFit, Gate, BuildSound, NoticeSound, RewriteSound, Passed, Built, Notified
<1>2. NothingUnvalidated' /\ StateFollowsWebhook'
    BY DEF IInv, NothingUnvalidated, StateFollowsWebhook, git, notice
<1> QED
    BY <1>1, <1>2 DEF IInv

(* A step that only goes on to a place it may go to. *)
LEMMA GoToIInv ==
    ASSUME IInv, TypeOK', NEW place, GoTo(place),
           \/ pc = "fetch" /\ place = "derive"
           \/ pc = "validate" /\ RegistryOK(registry, MinActions) /\ place \in {"tests", "build"}
           \/ pc = "tests" /\ place = "build"
           \/ pc = "build" /\ ~flags.build /\ place = "notify"
           \/ pc = "notify" /\ (~flags.url \/ state = registry) /\ place = "commit"
           \/ pc = "commit" /\ place = "done"
           \/ pc = "diff" /\ place = "done"
    PROVE  IInv'
<1> USE DEF GoTo, git, notice, run, locals, Passed, Built, Notified
<1>1. FlagsFit' /\ Gate' /\ RewriteSound'
    BY DEF IInv, FlagsFit, Gate, RewriteSound
<1>2. BuildSound'
    BY DEF IInv, BuildSound
<1>3. NoticeSound'
    BY DEF IInv, NoticeSound
<1>4. NothingUnvalidated' /\ StateFollowsWebhook'
    BY DEF IInv, NothingUnvalidated, StateFollowsWebhook
<1> QED
    BY <1>1, <1>2, <1>3, <1>4 DEF IInv

LEMMA NextIInv == IInv /\ [Next]_vars => IInv'
<1> SUFFICES ASSUME IInv, [Next]_vars PROVE IInv'
    OBVIOUS
<1>0. /\ TypeOK /\ FlagsFit /\ Gate /\ BuildSound /\ NoticeSound /\ RewriteSound
      /\ NothingUnvalidated /\ StateFollowsWebhook /\ TypeOK'
    BY NextTypeOK DEF IInv
<1> USE DEF git, notice, run, locals
<1>1. ASSUME NEW content \in Edits, HandEdit(content) PROVE IInv'
    BY <1>0, <1>1, IdleIInv DEF HandEdit, FlagsFit
<1>2. CASE Classify
    BY <1>0, <1>2, IdleIInv DEF Classify, FlagsFit
<1>3. CASE CommitByHand
  <2>1. Published(index)
    BY <1>0 DEF NothingUnvalidated
  <2>2. NothingUnvalidated'
    BY <1>0, <1>3, <2>1 DEF NothingUnvalidated, CommitByHand
  <2>3. FlagsFit' /\ Gate' /\ BuildSound' /\ NoticeSound' /\ RewriteSound' /\ StateFollowsWebhook'
    BY <1>0, <1>3
       DEF CommitByHand, FlagsFit, Gate, BuildSound, NoticeSound, RewriteSound,
           StateFollowsWebhook, Passed, Built, Notified
  <2> QED
    BY <1>0, <2>2, <2>3 DEF IInv
<1>4. CASE BackUp
  <2>1. NothingUnvalidated' /\ StateFollowsWebhook'
    BY <1>0, <1>4 DEF BackUp, NothingUnvalidated, StateFollowsWebhook
  <2>2. FlagsFit' /\ Gate' /\ BuildSound' /\ NoticeSound' /\ RewriteSound'
    BY <1>0, <1>4
       DEF BackUp, FlagsFit, Gate, BuildSound, NoticeSound, RewriteSound, Passed, Built, Notified
  <2> QED
    BY <1>0, <2>1, <2>2 DEF IInv
<1>5. ASSUME pc' \in {"fetch", "merge", "derive"}, UNCHANGED <<git, dist, notice>> PROVE IInv'
  <2>1. NothingUnvalidated' /\ StateFollowsWebhook'
    BY <1>0, <1>5 DEF NothingUnvalidated, StateFollowsWebhook
  <2>2. FlagsFit' /\ Gate' /\ BuildSound' /\ NoticeSound' /\ RewriteSound'
    BY <1>5 DEF FlagsFit, Gate, BuildSound, NoticeSound, RewriteSound, Passed, Built, Notified
  <2> QED
    BY <1>0, <2>1, <2>2 DEF IInv
<1>6. ASSUME NEW options \in Options, Start(options) PROVE IInv'
    BY <1>5, <1>6 DEF Start
<1>7. ASSUME NEW feed \in Feeds, Fetch(feed) PROVE IInv'
    BY <1>5, <1>7 DEF Fetch
<1>8. CASE Merge
    BY <1>5, <1>8 DEF Merge
<1>9. CASE DeriveImpacts
  <2>1. ~flags'.dry => registry' = WithImpacts(registry')
    BY <1>0, <1>9, WithImpactsOfRecords DEF DeriveImpacts, TypeOK, Content
  <2>2. FlagsFit' /\ Gate' /\ BuildSound' /\ NoticeSound' /\ RewriteSound'
    BY <1>9, <2>1
       DEF DeriveImpacts, FlagsFit, Gate, BuildSound, NoticeSound, RewriteSound,
           Passed, Built, Notified
  <2>3. NothingUnvalidated' /\ StateFollowsWebhook'
    BY <1>0, <1>9 DEF DeriveImpacts, NothingUnvalidated, StateFollowsWebhook
  <2> QED
    BY <1>0, <2>2, <2>3 DEF IInv
<1>10. CASE SkipFetch \/ Validate \/ TestsPass \/ SkipBuild \/ SkipNotify \/ SkipCommit \/ LeaveStaged
    BY <1>0, <1>10, GoToIInv
       DEF SkipFetch, Validate, TestsPass, SkipBuild, SkipNotify, SkipCommit, LeaveStaged
<1>11. CASE Render
  <2>1. FlagsFit' /\ Gate' /\ BuildSound' /\ NoticeSound' /\ RewriteSound'
    BY <1>0, <1>11
       DEF Render, FlagsFit, Gate, BuildSound, NoticeSound, RewriteSound, Passed, Built, Notified
  <2>2. NothingUnvalidated' /\ StateFollowsWebhook'
    BY <1>0, <1>11 DEF Render, NothingUnvalidated, StateFollowsWebhook
  <2> QED
    BY <1>0, <2>1, <2>2 DEF IInv
<1>12. CASE WriteArtifact
  <2>1. /\ payload = registry /\ RegistryOK(registry, MinActions)
        /\ next \in 1..5 /\ dist \in [Range(Artifacts) -> Content \cup {Absent}]
    BY <1>0, <1>12, ArtifactsAreFive DEF WriteArtifact, BuildSound, Gate, Passed, TypeOK
  <2>2. dist' = [dist EXCEPT ![Artifacts[next]] = registry]
    BY <1>12, <2>1 DEF WriteArtifact
  <2>3. \A i \in 1..5 : i < next' => dist'[Artifacts[i]] = registry
    <3> SUFFICES ASSUME NEW i \in 1..5, i < next' PROVE dist'[Artifacts[i]] = registry
        OBVIOUS
    <3>1. i = next \/ i < next
        BY <1>12, <2>1 DEF WriteArtifact
    <3> QED
        BY <1>0, <1>12, <2>1, <2>2, <3>1, ArtifactsAreFive DEF WriteArtifact, BuildSound
  <2>4. BuildSound'
    BY <1>12, <2>1, <2>3, ArtifactsAreFive DEF WriteArtifact, BuildSound, Built, Notified
  <2>5. FlagsFit' /\ Gate' /\ NoticeSound' /\ RewriteSound'
    BY <1>0, <1>12
       DEF WriteArtifact, FlagsFit, Gate, NoticeSound, RewriteSound, Passed, Built, Notified
  <2>6. NothingUnvalidated'
    <3>1. \A content \in Range(dist') : content = registry \/ content \in Range(dist)
        BY <2>1, <2>2 DEF Range
    <3> QED
        BY <1>0, <1>12, <2>1, <3>1 DEF WriteArtifact, NothingUnvalidated
  <2>7. StateFollowsWebhook'
    BY <1>0, <1>12 DEF WriteArtifact, StateFollowsWebhook
  <2> QED
    BY <1>0, <2>4, <2>5, <2>6, <2>7 DEF IInv
<1>13. CASE NotifyHash
  <2>1. FlagsFit' /\ Gate' /\ BuildSound' /\ NoticeSound' /\ RewriteSound'
    BY <1>0, <1>13
       DEF NotifyHash, FlagsFit, Gate, BuildSound, NoticeSound, RewriteSound,
           Passed, Built, Notified
  <2>2. NothingUnvalidated' /\ StateFollowsWebhook'
    BY <1>0, <1>13 DEF NotifyHash, NothingUnvalidated, StateFollowsWebhook
  <2> QED
    BY <1>0, <2>1, <2>2 DEF IInv
<1>14. CASE CallWebhook
  <2>1. newHash = registry /\ RegistryOK(registry, MinActions)
    BY <1>0, <1>14 DEF CallWebhook, NoticeSound, Gate, Passed, Built
  <2>2. FlagsFit' /\ Gate' /\ BuildSound' /\ NoticeSound' /\ RewriteSound'
    BY <1>0, <1>14
       DEF CallWebhook, FlagsFit, Gate, BuildSound, NoticeSound, RewriteSound,
           Passed, Built, Notified
  <2>3. NothingUnvalidated' /\ StateFollowsWebhook'
    BY <1>0, <1>14, <2>1 DEF CallWebhook, NothingUnvalidated, StateFollowsWebhook
  <2> QED
    BY <1>0, <2>2, <2>3 DEF IInv
<1>15. CASE SaveState
  <2>1. newHash = registry /\ newHash \in attempted /\ RegistryOK(registry, MinActions)
    BY <1>0, <1>15 DEF SaveState, NoticeSound, Gate, Passed, Built
  <2>2. FlagsFit' /\ Gate' /\ BuildSound' /\ NoticeSound' /\ RewriteSound'
    BY <1>0, <1>15, <2>1
       DEF SaveState, FlagsFit, Gate, BuildSound, NoticeSound, RewriteSound,
           Passed, Built, Notified
  <2>3. NothingUnvalidated' /\ StateFollowsWebhook'
    BY <1>0, <1>15, <2>1 DEF SaveState, NothingUnvalidated, StateFollowsWebhook
  <2> QED
    BY <1>0, <2>2, <2>3 DEF IInv
<1>16. CASE GitAdd
  <2>1. Published(registry)
    BY <1>0, <1>16 DEF GitAdd, Gate, Published, Passed, Built, Notified
  <2>2. FlagsFit' /\ Gate' /\ BuildSound' /\ NoticeSound' /\ RewriteSound'
    BY <1>0, <1>16
       DEF GitAdd, FlagsFit, Gate, BuildSound, NoticeSound, RewriteSound, Passed, Built, Notified
  <2>3. NothingUnvalidated' /\ StateFollowsWebhook'
    BY <1>0, <1>16, <2>1 DEF GitAdd, NothingUnvalidated, StateFollowsWebhook
  <2> QED
    BY <1>0, <2>2, <2>3 DEF IInv
<1>17. CASE PushUnchanged
  <2>1. FlagsFit' /\ Gate' /\ BuildSound' /\ NoticeSound' /\ RewriteSound'
    BY <1>0, <1>17
       DEF PushUnchanged, FlagsFit, Gate, BuildSound, NoticeSound, RewriteSound,
           Passed, Built, Notified
  <2>2. NothingUnvalidated' /\ StateFollowsWebhook'
    BY <1>0, <1>17 DEF PushUnchanged, NothingUnvalidated, StateFollowsWebhook
  <2> QED
    BY <1>0, <2>1, <2>2 DEF IInv
<1>18. CASE Succeed \/ Fail \/ Kill \/ RewriteIds
    BY <1>0, <1>18, IdleIInv DEF Succeed, Fail, Kill, RewriteIds, Exit
<1>19. CASE UNCHANGED vars
  <2>1. FlagsFit' /\ Gate' /\ BuildSound' /\ NoticeSound' /\ RewriteSound'
    BY <1>0, <1>19 DEF vars, FlagsFit, Gate, BuildSound, NoticeSound, RewriteSound
  <2>2. NothingUnvalidated' /\ StateFollowsWebhook'
    BY <1>0, <1>19 DEF vars, NothingUnvalidated, StateFollowsWebhook
  <2> QED
    BY <1>0, <2>1, <2>2 DEF IInv
<1> QED
    BY <1>1, <1>2, <1>3, <1>4, <1>6, <1>7, <1>8, <1>9, <1>10, <1>11, <1>12, <1>13,
       <1>14, <1>15, <1>16, <1>17, <1>18, <1>19 DEF Next, Step

(* The inductive invariant of the pipeline. *)
THEOREM Invariance == Spec => []IInv
    BY InitIInv, NextIInv, PTL DEF Spec

-----------------------------------------------------------------------------
(* What follows from it *)

(* Every step of a run finds the input an earlier one has left it. *)
THEOREM TypeCorrect == Spec => []TypeOK
<1>1. IInv => TypeOK
    BY DEF IInv
<1> QED
    BY <1>1, Invariance, PTL

(* Step 4 is a gate: nothing unvalidated is staged, built or announced,    *)
(* and nothing without derived impacts staged, committed or pushed.        *)
THEOREM GateHolds == Spec => []NothingUnvalidated
<1>1. IInv => NothingUnvalidated
    BY DEF IInv
<1> QED
    BY <1>1, Invariance, PTL

(* Exit 0: no artifact and no stored hash of another registry. *)
THEOREM SuccessIsCurrent == Spec => []SuccessMeansCurrent
<1>1. IInv => SuccessMeansCurrent
  <2> SUFFICES ASSUME IInv, pc = "done"
               PROVE  /\ flags.build => Range(dist) = {registry}
                      /\ flags.url => state = registry
    BY DEF SuccessMeansCurrent
  <2>1. ASSUME flags.build PROVE Range(dist) = {registry}
    <3>1. \A i \in 1..5 : dist[Artifacts[i]] = registry
        BY <2>1 DEF IInv, BuildSound, Built, Notified
    <3>2. DOMAIN dist = Range(Artifacts)
        BY DEF IInv, TypeOK
    <3> QED
        BY <3>1, <3>2, ArtifactsAreFive DEF Range
  <2>2. flags.url => state = registry
    BY DEF IInv, NoticeSound, Notified
  <2> QED
    BY <2>1, <2>2
<1> QED
    BY <1>1, Invariance, PTL

(* notify_on_change.py never stores a hash nobody was told of. *)
THEOREM NoChangeIsLost == Spec => []StateFollowsWebhook
<1>1. IInv => StateFollowsWebhook
    BY DEF IInv
<1> QED
    BY <1>1, Invariance, PTL

(* --dry-run, whatever other flags there are. *)
THEOREM DryRunIsDry == Spec => DryRunKeepsRepository
<1> USE DEF git, notice, run, locals
<1>1. IInv /\ [Next]_vars => [flags.dry => UNCHANGED <<registry, git>>]_vars
  <2> SUFFICES ASSUME IInv, [Next]_vars, flags.dry PROVE UNCHANGED <<registry, git>>
    OBVIOUS
  <2>1. pc \notin {"idle", "rewrite", "diff", "refuse"}
    BY DEF IInv, FlagsFit, NoFlags
  <2>2. CASE \/ \E content \in Edits : HandEdit(content)
             \/ Classify \/ CommitByHand \/ BackUp \/ RewriteIds
             \/ \E options \in Options : Start(options)
    BY <2>1, <2>2 DEF HandEdit, Classify, CommitByHand, BackUp, RewriteIds, Start
  <2>3. CASE \/ \E feed \in Feeds : Fetch(feed)
             \/ Merge \/ DeriveImpacts \/ GitAdd \/ PushUnchanged
    BY <2>1, <2>3 DEF Fetch, Merge, DeriveImpacts, GitAdd, PushUnchanged
  <2>4. CASE \/ SkipFetch \/ Validate \/ TestsPass \/ SkipBuild \/ SkipNotify
             \/ SkipCommit \/ LeaveStaged
    BY <2>4 DEF SkipFetch, Validate, TestsPass, SkipBuild, SkipNotify, SkipCommit,
                LeaveStaged, GoTo
  <2>5. CASE Render \/ WriteArtifact \/ NotifyHash \/ CallWebhook \/ SaveState
    BY <2>5 DEF Render, WriteArtifact, NotifyHash, CallWebhook, SaveState
  <2>6. CASE Succeed \/ Fail \/ Kill \/ UNCHANGED vars
    BY <2>6 DEF Succeed, Fail, Kill, vars
  <2> QED
    BY <2>2, <2>3, <2>4, <2>5, <2>6 DEF Next, Step
<1> QED
    BY <1>1, Invariance, PTL DEF Spec, DryRunKeepsRepository

(* rewrite_action_ids.py gives every record an id of its own, changes      *)
(* nothing else and keeps what it replaced; the validator refuses the ids  *)
(* of ratios written with leading zeros, and no others.                    *)
THEOREM RewritingRepairs == Spec => RewriteRepairs
<1> DEFINE Repaired ==
        /\ backup = registry
        /\ UniqueIds(registry')
        /\ \A i \in DOMAIN registry :
             /\ registry'[i] = [registry[i] EXCEPT !.id = registry'[i].id]
             /\ IdFormatOK(registry'[i]) <=> WrittenPlainly(registry[i])
<1> USE DEF git, notice, run, locals
<1>1. IInv /\ [Next]_vars => [pc = "rewrite" /\ registry' # registry => Repaired]_vars
  <2> SUFFICES ASSUME IInv, [Next]_vars, pc = "rewrite", registry' # registry PROVE Repaired
    OBVIOUS
  <2>1. registry' = WithCanonicalIds(registry)
    BY DEF Next, Step, HandEdit, Classify, CommitByHand, BackUp, Start, Fetch, SkipFetch, Merge,
           DeriveImpacts, Validate, TestsPass, Render, SkipBuild, WriteArtifact, NotifyHash,
           SkipNotify, CallWebhook, SaveState, SkipCommit, GitAdd, LeaveStaged, PushUnchanged,
           Succeed, Fail, RewriteIds, Kill, GoTo, vars
  <2>2. registry \in Seq(Action) /\ backup = registry /\ Rewritable(registry)
    BY DEF IInv, TypeOK, Content, RewriteSound
  <2>3. UniqueIds(registry')
    BY <2>1, <2>2, WithCanonicalIdsOfRecords
  <2>4. ASSUME NEW i \in DOMAIN registry
        PROVE  /\ registry'[i] = [registry[i] EXCEPT !.id = registry'[i].id]
               /\ IdFormatOK(registry'[i]) <=> WrittenPlainly(registry[i])
    <3>1. /\ registry[i] \in Action /\ HasCanonicalId(registry[i])
          /\ registry'[i] = Renamed(registry[i])
        BY <2>1, <2>2 DEF WithCanonicalIds, Rewritable
    <3>2. registry'[i] = [registry[i] EXCEPT !.id = registry'[i].id]
        BY <3>1, RenamedIsRecord DEF Renamed
    <3> QED
        BY <3>1, <3>2, RenamedIsRecord DEF WrittenPlainly
  <2> QED
    BY <2>2, <2>3, <2>4
<1> QED
    BY <1>1, Invariance, PTL DEF Spec, RewriteRepairs

-----------------------------------------------------------------------------
(* The length of a run *)

(* The steps a run has at most before it. *)
StepsLeft ==
    CASE pc = "fetch"              -> 18
      [] pc = "merge"              -> 17
      [] pc = "derive"             -> 16
      [] pc = "validate"           -> 15
      [] pc = "tests"              -> 14
      [] pc = "build"              -> 13
      [] pc = "write"              -> 13 - next
      [] pc = "notify"             -> 7
      [] pc = "webhook"            -> 6
      [] pc = "save"               -> 5
      [] pc = "commit"             -> 4
      [] pc = "diff"               -> 3
      [] pc \in {"done", "refuse"} -> 2
      [] pc = "rewrite"            -> 1
      [] pc = "idle"               -> 0

(* Once a script has begun nothing happens that does not bring its end     *)
(* nearer, in whatever state it found the files and whatever its flags:    *)
(* no place of the script leads back, and no artifact is written twice.    *)
RunShrinks ==
    [][pc # "idle" => StepsLeft' \in Nat /\ StepsLeft' < StepsLeft]_vars

LEMMA StepShrinks ==
    ASSUME TypeOK, [Next]_vars, pc # "idle"
    PROVE  UNCHANGED vars \/ (StepsLeft' \in Nat /\ StepsLeft' < StepsLeft)
<1> DEFINE Lower == StepsLeft' \in Nat /\ StepsLeft' < StepsLeft
<1>0. next \in 1..6 /\ (pc = "write" => next \in 1..5) /\ Len(Artifacts) = 5
    BY ArtifactsAreFive DEF TypeOK
<1>1. CASE \/ \E feed \in Feeds : Fetch(feed)
           \/ SkipFetch \/ Merge \/ DeriveImpacts \/ Validate \/ TestsPass \/ SkipBuild
    BY <1>1 DEF StepsLeft, Fetch, SkipFetch, Merge, DeriveImpacts, Validate, TestsPass,
                SkipBuild, GoTo
<1>2. CASE Render
    BY <1>2 DEF StepsLeft, Render
<1>3. CASE WriteArtifact
  <2>1. pc = "write" /\ next' = next + 1 /\ pc' = IF next = 5 THEN "notify" ELSE "write"
    BY <1>0, <1>3 DEF WriteArtifact
  <2>2. StepsLeft = 13 - next
    BY <2>1 DEF StepsLeft
  <2>3. StepsLeft' = IF next = 5 THEN 7 ELSE 13 - (next + 1)
    BY <2>1 DEF StepsLeft
  <2> QED
    BY <1>0, <2>1, <2>2, <2>3
<1>4. CASE NotifyHash \/ SkipNotify \/ CallWebhook \/ SaveState
    BY <1>4 DEF StepsLeft, NotifyHash, SkipNotify, CallWebhook, SaveState, GoTo
<1>5. CASE SkipCommit \/ GitAdd \/ LeaveStaged \/ PushUnchanged
    BY <1>5 DEF StepsLeft, SkipCommit, GitAdd, LeaveStaged, PushUnchanged, GoTo
<1>6. CASE Succeed \/ Fail \/ RewriteIds \/ Kill
  <2>1. pc' = "idle"
    BY <1>6 DEF Succeed, Fail, RewriteIds, Kill, Exit
  <2>2. StepsLeft' = 0
    BY <2>1 DEF StepsLeft
  <2>3. StepsLeft \in Nat /\ StepsLeft > 0
    <3>1. pc \in {"fetch", "merge", "derive", "validate", "tests", "build", "write", "notify",
                  "webhook", "save", "commit", "diff", "refuse", "done", "rewrite"}
        BY DEF TypeOK
    <3>2. /\ pc = "fetch" => StepsLeft = 18
          /\ pc = "merge" => StepsLeft = 17
          /\ pc = "derive" => StepsLeft = 16
          /\ pc = "validate" => StepsLeft = 15
          /\ pc = "tests" => StepsLeft = 14
          /\ pc = "build" => StepsLeft = 13
          /\ pc = "write" => StepsLeft = 13 - next
          /\ pc = "notify" => StepsLeft = 7
          /\ pc = "webhook" => StepsLeft = 6
          /\ pc = "save" => StepsLeft = 5
          /\ pc = "commit" => StepsLeft = 4
          /\ pc = "diff" => StepsLeft = 3
          /\ pc \in {"done", "refuse"} => StepsLeft = 2
          /\ pc = "rewrite" => StepsLeft = 1
        BY DEF StepsLeft
    <3> QED
        BY <1>0, <3>1, <3>2
  <2> QED
    BY <2>2, <2>3
<1> QED
    BY <1>1, <1>2, <1>3, <1>4, <1>5, <1>6
       DEF Next, Step, HandEdit, Classify, CommitByHand, BackUp, Start

(* A run has at most eighteen steps, so that it ends if the shell is       *)
(* allowed to go on.                                                       *)
THEOREM RunsAreBounded == Spec => RunShrinks
<1>1. TypeOK /\ [Next]_vars =>
        [pc # "idle" => StepsLeft' \in Nat /\ StepsLeft' < StepsLeft]_vars
    BY StepShrinks
<1> QED
    BY <1>1, TypeCorrect, PTL DEF Spec, RunShrinks
=============================================================================
