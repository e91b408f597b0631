----------------------------- MODULE MergeProofs -----------------------------
(***************************************************************************)
(* Theorems about MergeFetched for every set of events, every fetched      *)
(* file and any number of runs and kills.                                  *)
(***************************************************************************)
EXTENDS MergeFetched, RegistryProofs

-----------------------------------------------------------------------------
(* The pair test *)

(* The test is symmetric on records: the order in which a run meets two    *)
(* records of one event does not matter to whether it sees the match.      *)
LEMMA SameEventSymmetric ==
    ASSUME NEW a \in Action, NEW b \in Action
    PROVE  SameEvent(a, b) <=> SameEvent(b, a)
<1>1. a.eff \in Nat /\ b.eff \in Nat
    BY DEF Action, Day
<1>2. DaysApart(a, b) = DaysApart(b, a)
    BY <1>1 DEF DaysApart
<1>3. SameAmount(a, b) <=> SameAmount(b, a)
    BY DEF SameAmount
<1> QED
    BY <1>2, <1>3 DEF SameEvent

(* Events are well-formed records. *)
LEMMA EventIsAction == \A a \in Event : a \in Action /\ WellFormed(a)
    BY EventAssumption

-----------------------------------------------------------------------------
(* Lists of records *)

(* Accept: the grown list is the loaded one followed by what was added. *)
LEMMA WorkingAppend ==
    ASSUME NEW S, NEW s \in Seq(S), NEW t \in Seq(S), NEW x \in S
    PROVE  s \o Append(t, x) = Append(s \o t, x)
    OBVIOUS

(* merge()'s trial list: over a list without duplicates it is flagged      *)
(* exactly when the candidate matches a record of the list.                *)
LEMMA TrialList ==
    ASSUME NEW seq \in Seq(Event), NEW c \in Event, SemanticallyUnique(seq)
    PROVE  SemanticallyUnique(Append(seq, c)) <=> \A a \in Range(seq) : ~SameEvent(a, c)
<1> DEFINE trial == Append(seq, c)
<1>1. DOMAIN trial = 1..(Len(seq) + 1) /\ DOMAIN seq = 1..Len(seq) /\ Len(seq) \in Nat
    OBVIOUS
<1>2. \A i \in 1..Len(seq) : trial[i] = seq[i] /\ seq[i] \in Event
    OBVIOUS
<1>3. trial[Len(seq) + 1] = c
    OBVIOUS
<1> HIDE DEF trial
<1>4. ASSUME SemanticallyUnique(trial), NEW i \in DOMAIN seq
      PROVE  ~SameEvent(seq[i], c)
  <2>1. i \in DOMAIN trial /\ Len(seq) + 1 \in DOMAIN trial /\ i # Len(seq) + 1
    BY <1>1
  <2>2. ~SameEvent(trial[i], trial[Len(seq) + 1])
    BY <2>1, <1>4 DEF SemanticallyUnique
  <2> QED
    BY <2>2, <1>1, <1>2, <1>3
<1>5. ASSUME \A a \in Range(seq) : ~SameEvent(a, c),
             NEW i \in DOMAIN trial, NEW j \in DOMAIN trial, i # j
      PROVE  ~SameEvent(trial[i], trial[j])
  <2>1. \A k \in 1..Len(seq) : ~SameEvent(trial[k], c)
    BY <1>5, <1>1, <1>2 DEF Range
  <2>2. \A k \in 1..Len(seq) : ~SameEvent(c, trial[k])
    BY <2>1, <1>2, SameEventSymmetric, EventIsAction
  <2>3. CASE i \in 1..Len(seq) /\ j \in 1..Len(seq)
    BY <2>3, <1>1, <1>2, <1>5 DEF SemanticallyUnique
  <2>4. CASE i = Len(seq) + 1
    <3>1. j \in 1..Len(seq)
        BY <2>4, <1>1, <1>5
    <3> QED
        BY <3>1, <2>4, <2>2, <1>3
  <2>5. CASE j = Len(seq) + 1
    <3>1. i \in 1..Len(seq)
        BY <2>5, <1>1, <1>5
    <3> QED
        BY <3>1, <2>5, <2>1, <1>3
  <2> QED
    BY <2>3, <2>4, <2>5, <1>1
<1> QED
    BY <1>4, <1>5 DEF trial, SemanticallyUnique, Range

-----------------------------------------------------------------------------
(* Types *)

(* The initial files are well typed. *)
LEMMA InitTypeOK == Init => TypeOK
<1>1. Registries \subseteq Seq(Event)
    BY RegistriesAssumption
<1>2. << >> \in Seq(Event)
    BY EmptySeq
<1> SUFFICES ASSUME Init PROVE TypeOK
    OBVIOUS
<1>3. actions \in Seq(Event) /\ current \in Seq(Event) /\ added \in Seq(Event)
    BY <1>1, <1>2 DEF Init
<1>4. /\ tmp \in Seq(Event) \cup {BadFile} /\ fetched \in Feeds \cup {BadFile}
      /\ pc = "idle"
    BY DEF Init
<1>5. /\ removed \subseteq RejectKeys /\ rejectSet \subseteq RejectKeys
      /\ rejectedRemoved \subseteq Event /\ rejectedSemantic \subseteq Event
    BY DEF Init
<1>6. legible \in BOOLEAN /\ dryRun \in BOOLEAN
    BY Zenon DEF Init
<1>7. pos \in Nat \ {0} /\ runs \in Nat
    BY DEF Init
<1> QED
    BY <1>3, <1>4, <1>5, <1>6, <1>7 DEF TypeOK

(* So is what every action makes of them. *)
LEMMA NextTypeOK == TypeOK /\ [Next]_vars => TypeOK'
<1> SUFFICES ASSUME TypeOK, [Next]_vars PROVE TypeOK'
    OBVIOUS
<1> USE DEF TypeOK
<1>0. /\ fetched # BadFile => fetched \in Seq(Event)
      /\ Working \in Seq(Event) /\ Working # BadFile
    BY FeedsAssumption, BadFileAssumption, ConcatProperties DEF Working
<1>a. << >> \in Seq(Event)
    BY EmptySeq
<1>b. ASSUME Exit PROVE /\ current' \in Seq(Event) /\ added' \in Seq(Event) /\ rejectSet' \subseteq RejectKeys
                        /\ pc' = "idle" /\ dryRun' \in BOOLEAN /\ runs' \in Nat
                        /\ pos' = 1 /\ rejectedRemoved' \subseteq Event
                        /\ rejectedSemantic' \subseteq Event
    BY <1>a, <1>b DEF Exit
<1>1. ASSUME NEW feed \in Feeds \cup {BadFile}, Fetch(feed) PROVE TypeOK'
    BY <1>1 DEF Fetch, locals, flags
<1>2. CASE EditRejectList
    BY <1>2 DEF EditRejectList, locals, flags
<1>3. ASSUME NEW key \in RejectKeys, AddRejectEntry(key) PROVE TypeOK'
    BY <1>3 DEF AddRejectEntry, locals, flags
<1>4. ASSUME NEW i \in DOMAIN actions, RemoveAction(i) PROVE TypeOK'
    BY <1>4, RemoveAtProperties DEF RemoveAction, locals, flags
<1>5. ASSUME NEW dry \in BOOLEAN, Start(dry) PROVE TypeOK'
    BY <1>5 DEF Start, files, locals
<1>6. CASE LoadFails
    BY <1>6, <1>b DEF LoadFails, files
<1>7. CASE Load
    BY <1>7, <1>a DEF Load, files, flags
<1>8. ASSUME Deciding PROVE Candidate \in Event
    BY <1>8, <1>0, ElementOfSeq DEF Deciding, Candidate
<1>9. CASE SkipKnown
    BY <1>9 DEF SkipKnown, Advance, files, flags
<1>10. CASE RejectRemoved
    BY <1>10, <1>8 DEF RejectRemoved, Advance, files, flags
<1>11. CASE RejectSemantic
    BY <1>11, <1>8 DEF RejectSemantic, Advance, files, flags
<1>12. CASE Accept
    BY <1>12, <1>8, AppendProperties DEF Accept, Advance, files, flags
<1>13. CASE Merged
    BY <1>13 DEF Merged, files, locals, flags
<1>14. CASE WriteTmp
    BY <1>14, <1>0 DEF WriteTmp, locals, flags
<1>15. CASE Rename
    BY <1>15 DEF Rename, locals, flags
<1>16. CASE Report
    BY <1>16, <1>b DEF Report, files
<1>17. CASE Kill
    BY <1>17, <1>b DEF Kill
<1>18. CASE UNCHANGED vars
    BY <1>18 DEF vars, files, locals, flags
<1> QED
    BY <1>1, <1>2, <1>3, <1>4, <1>5, <1>6, <1>7, <1>9, <1>10, <1>11, <1>12, <1>13,
       <1>14, <1>15, <1>16, <1>17, <1>18 DEF Next, Step

(* Every reachable state is well typed. *)
THEOREM TypeCorrect == Spec => []TypeOK
    BY InitTypeOK, NextTypeOK, PTL DEF Spec

-----------------------------------------------------------------------------
(* The inductive invariant *)

(* Between runs nothing is added and nothing blamed. *)
LEMMA EmptyListSound ==
    /\ << >> \o << >> = << >>
    /\ SemanticallyUnique(<< >>) /\ UniqueIds(<< >>)
    /\ Range(<< >>) = {}
<1>1. DOMAIN << >> = {}
    OBVIOUS
<1>2. << >> \o << >> = << >>
    OBVIOUS
<1> QED
    BY <1>1, <1>2 DEF SemanticallyUnique, UniqueIds, Range

(* The registries a checkout starts from are valid. *)
LEMMA InitIInv == Init => IInv
<1> SUFFICES ASSUME Init PROVE IInv
    OBVIOUS
<1>1. TypeOK
    BY InitTypeOK
<1>2. SemanticallyUnique(actions) /\ UniqueIds(actions)
    BY RegistriesAssumption DEF Init
<1>3. pc = "idle" /\ added = << >> /\ Working = << >> /\ rejectedSemantic = {}
    BY EmptyListSound DEF Init, Working
<1>4. WorkingSound
    BY <1>3, EmptyListSound DEF WorkingSound
<1> QED
    BY <1>1, <1>2, <1>3, <1>4 DEF IInv, CopiesCurrent, Running

(* A process that starts or ends leaves the files as they are. *)
LEMMA ExitIInv ==
    ASSUME IInv, TypeOK', Exit, UNCHANGED actions
    PROVE  IInv'
<1>1. pc' = "idle" /\ added' = << >> /\ Working' = << >> /\ rejectedSemantic' = {}
    BY EmptyListSound DEF Exit, Working
<1>2. WorkingSound'
    BY <1>1, EmptyListSound DEF WorkingSound
<1> QED
    BY <1>1, <1>2 DEF IInv, CopiesCurrent, Running

(* Every step of a run, of a maintainer and of a killer keeps the          *)
(* invariant.                                                              *)
LEMMA NextIInv == IInv /\ [Next]_vars => IInv'
<1> SUFFICES ASSUME IInv, [Next]_vars PROVE IInv'
    OBVIOUS
<1>0. TypeOK /\ TypeOK'
    BY NextTypeOK DEF IInv
<1>a. /\ Working \in Seq(Event) /\ current \in Seq(Event) /\ added \in Seq(Event)
      /\ actions \in Seq(Event)
    BY <1>0, ConcatProperties DEF TypeOK, Working
<1>b. ASSUME UNCHANGED <<current, added, rejectSet>> PROVE WorkingSound' /\ Working' = Working
    BY <1>b DEF IInv, WorkingSound, Working
<1>c. ASSUME Deciding PROVE pc = "merge" /\ Candidate \in Event
  <2>1. pc = "merge" /\ fetched \in Seq(Event) /\ pos \in 1..Len(fetched)
    BY <1>c, <1>0, FeedsAssumption DEF Deciding, TypeOK
  <2> QED
    BY <2>1, ElementOfSeq DEF Candidate
<1>1. ASSUME NEW feed \in Feeds \cup {BadFile}, Fetch(feed) PROVE IInv'
    BY <1>0, <1>1, <1>b DEF Fetch, locals, flags, IInv, CopiesCurrent, Running
<1>2. CASE EditRejectList
    BY <1>0, <1>2, <1>b DEF EditRejectList, locals, flags, IInv, CopiesCurrent, Running
<1>3. ASSUME NEW key \in RejectKeys, AddRejectEntry(key) PROVE IInv'
    BY <1>0, <1>3, <1>b DEF AddRejectEntry, locals, flags, IInv, CopiesCurrent, Running
<1>4. ASSUME NEW i \in DOMAIN actions, RemoveAction(i) PROVE IInv'
  <2>1. SemanticallyUnique(actions') /\ UniqueIds(actions')
    BY <1>4, <1>a, UniqueAfterRemoveAt DEF RemoveAction, IInv
  <2> QED
    BY <2>1, <1>0, <1>4, <1>b DEF RemoveAction, locals, flags, IInv, CopiesCurrent, Running
<1>5. ASSUME NEW dry \in BOOLEAN, Start(dry) PROVE IInv'
    BY <1>0, <1>5, <1>b DEF Start, files, locals, IInv, CopiesCurrent, Running
<1>6. CASE LoadFails
    BY <1>0, <1>6, ExitIInv DEF LoadFails, files
<1>7. CASE Load
  <2>1. Working' = actions
    BY <1>7, <1>a, ConcatEmptySeq DEF Load, Working
  <2>2. WorkingSound'
    BY <1>7, <2>1, EmptyListSound DEF Load, IInv, WorkingSound
  <2>3. CopiesCurrent' /\ rejectedSemantic' = {} /\ pc' # "rename" /\ UNCHANGED actions
    BY <1>7 DEF Load, CopiesCurrent, files, Running
  <2> QED
    BY <2>2, <2>3, <1>0 DEF IInv
<1>8. CASE SkipKnown
    BY <1>0, <1>8, <1>b, <1>c DEF SkipKnown, files, flags, IInv, CopiesCurrent, Running
<1>9. CASE RejectRemoved
    BY <1>0, <1>9, <1>b, <1>c DEF RejectRemoved, files, flags, IInv, CopiesCurrent, Running
<1>10. CASE RejectSemantic
  <2>1. WorkingSound' /\ Working' = Working
    BY <1>10, <1>b DEF RejectSemantic
  <2>2. \E a \in Range(Working) : SameEvent(a, Candidate)
    BY <1>10, <1>a, <1>c, TrialList DEF RejectSemantic, IsDuplicate, IInv, WorkingSound
  <2>3. CopiesCurrent' /\ pc' # "rename" /\ UNCHANGED actions
    BY <1>10, <1>c DEF RejectSemantic, files, flags, IInv, CopiesCurrent, Running
  <2>4. \A c \in rejectedSemantic' : \E a \in Range(Working') : SameEvent(a, c)
    BY <1>10, <2>1, <2>2 DEF RejectSemantic, IInv
  <2> QED
    BY <1>0, <2>1, <2>3, <2>4 DEF IInv
<1>11. CASE Accept
  <2>1. Working' = Append(Working, Candidate)
    BY <1>11, <1>a, <1>c, WorkingAppend DEF Accept, Working
  <2>2. SemanticallyUnique(Working')
    BY <1>11, <2>1 DEF Accept, IsDuplicate
  <2>3. \A a \in Range(Working) : ~SameEvent(a, Candidate)
    BY <1>11, <1>a, <1>c, TrialList DEF Accept, IsDuplicate, IInv, WorkingSound
  <2>4. UniqueIds(Working')
    BY <1>11, <1>a, <1>c, <2>1, <2>3, EventIsAction, AcceptedIdIsNew
        DEF Accept, IsKnown, ExistingKeys, IInv, WorkingSound
  <2>5. Range(added') = Range(added) \cup {Candidate}
    BY <1>11, <1>a, <1>c, RangeOfAppend DEF Accept
  <2>6. \A a \in Range(added') : RejectKey(a) \notin rejectSet'
    BY <1>11, <2>5 DEF Accept, IsRejected, IInv, WorkingSound
  <2>7. CopiesCurrent' /\ pc' # "rename" /\ UNCHANGED <<actions, rejectedSemantic>>
    BY <1>11, <1>c DEF Accept, files, flags, IInv, CopiesCurrent, Running
  <2>8. Range(Working) \subseteq Range(Working')
    BY <1>11, <2>1, <1>a, <1>c, RangeOfAppend DEF Accept
  <2>9. \A c \in rejectedSemantic' : \E a \in Range(Working') : SameEvent(a, c)
    BY <2>7, <2>8 DEF IInv
  <2> QED
    BY <1>0, <2>2, <2>4, <2>6, <2>7, <2>9 DEF IInv, WorkingSound
<1>12. CASE Merged
    BY <1>0, <1>12, <1>b DEF Merged, files, locals, flags, IInv, CopiesCurrent, Running
<1>13. CASE WriteTmp
    BY <1>0, <1>13, <1>b DEF WriteTmp, locals, flags, IInv, CopiesCurrent, Running
<1>14. CASE Rename
  <2>1. actions' = Working /\ pc' = "report"
    BY <1>14 DEF Rename, IInv
  <2>2. SemanticallyUnique(actions') /\ UniqueIds(actions')
    BY <2>1 DEF IInv, WorkingSound
  <2> QED
    BY <1>0, <1>14, <1>b, <2>1, <2>2 DEF Rename, locals, flags, IInv, CopiesCurrent, Running
<1>15. CASE Report
    BY <1>0, <1>15, ExitIInv DEF Report, files
<1>16. CASE Kill
    BY <1>0, <1>16, ExitIInv DEF Kill
<1>17. CASE UNCHANGED vars
    BY <1>0, <1>17, <1>b DEF vars, files, locals, flags, IInv, CopiesCurrent, Running
<1> QED
    BY <1>1, <1>2, <1>3, <1>4, <1>5, <1>6, <1>7, <1>8, <1>9, <1>10, <1>11, <1>12, <1>13,
       <1>14, <1>15, <1>16, <1>17 DEF Next, Step

(* Every reachable state satisfies the inductive invariant. *)
THEOREM Invariance == Spec => []IInv
    BY InitIInv, NextIInv, PTL DEF Spec

(* However the fetched files look and wherever runs are killed,            *)
(* actions.json never holds two records of one event.                      *)
THEOREM NeverTwoOfOneEvent == Spec => []RegistrySemanticallyUnique
<1>1. IInv => RegistrySemanticallyUnique
    BY DEF IInv, RegistrySemanticallyUnique
<1> QED
    BY <1>1, Invariance, PTL

(* ... nor two records with one action_id, though merge() compares no ids. *)
THEOREM NeverTwoOfOneId == Spec => []RegistryIdsUnique
<1>1. IInv => RegistryIdsUnique
    BY DEF IInv, RegistryIdsUnique
<1> QED
    BY <1>1, Invariance, PTL

(* A run blames only candidates that do match a record it works on.        *)
THEOREM BlameIsJust == Spec => []RejectionJustified
<1>1. IInv => RejectionJustified
    BY DEF IInv, RejectionJustified
<1> QED
    BY <1>1, Invariance, PTL

-----------------------------------------------------------------------------
(* Whole merges *)

(* The lists a merge goes through, record by record. *)
Stages(seq, feed, barred) == CHOOSE g : g = Growth(g, Len(feed), seq, feed, barred)
Lists == Stages(current, fetched, rejectSet)

(* The list of a run under way is the one after the records it has seen,   *)
(* and at the end the outcome of the merge.                                *)
Progress ==
    /\ pc = "merge" =>
         pos \in 1..(Len(fetched) + 1) /\ Working = Lists[pos - 1]
    /\ pc \in {"write", "rename"} => Working = MergeInto(current, fetched, rejectSet)

(* From one list to the next a record is offered; the last is the outcome. *)
LEMMA StagesGrow ==
    ASSUME NEW seq, NEW feed, NEW barred, Len(feed) \in Nat
    PROVE  LET g == Stages(seq, feed, barred)
           IN  /\ g[0] = seq
               /\ \A n \in 1..Len(feed) : g[n] = Offer(g[n - 1], feed[n], barred)
               /\ g[Len(feed)] = MergeInto(seq, feed, barred)
<1> DEFINE g == Stages(seq, feed, barred)
<1>1. g = Growth(g, Len(feed), seq, feed, barred)
    BY GrowthExists DEF Stages
<1>2. g[Len(feed)] = MergeInto(seq, feed, barred)
    BY DEF Stages, MergeInto, Growth
<1> HIDE DEF g
<1>3. \A n \in 0..Len(feed) : g[n] = IF n = 0 THEN seq ELSE Offer(g[n - 1], feed[n], barred)
    BY <1>1 DEF Growth
<1>4. g[0] = seq /\ \A n \in 1..Len(feed) : g[n] = Offer(g[n - 1], feed[n], barred)
    BY <1>3
<1> QED
    BY <1>2, <1>4 DEF g

(* A run goes through the lists in order, whichever branch of the loop a   *)
(* record takes.                                                           *)
LEMMA NextProgress == IInv /\ Progress /\ [Next]_vars => Progress'
<1> SUFFICES ASSUME IInv, Progress, [Next]_vars PROVE Progress'
    OBVIOUS
<1>0. TypeOK /\ Working \in Seq(Event) /\ current \in Seq(Event) /\ actions \in Seq(Event)
    BY ConcatProperties DEF IInv, TypeOK, Working
<1>a. ASSUME UNCHANGED <<current, fetched, rejectSet>> PROVE UNCHANGED Lists
    BY <1>a DEF Lists
<1>b. ASSUME pc = "merge" PROVE fetched \in Seq(Event) /\ Len(fetched) \in Nat
    BY <1>0, <1>b, FeedsAssumption DEF TypeOK
<1>1. ASSUME UNCHANGED <<pc, pos, current, added, fetched, rejectSet>> PROVE Progress'
    BY <1>1, <1>a DEF Progress, Working
<1>2. ASSUME pc' \in {"idle", "load", "report"} PROVE Progress'
    BY <1>2 DEF Progress
<1>3. CASE Load
  <2>1. fetched' = fetched /\ fetched \in Seq(Event)
    BY <1>0, <1>3, FeedsAssumption DEF Load, files, TypeOK
  <2>2. Len(fetched') \in Nat
    BY <2>1
  <2>3. Lists'[0] = current'
    BY <2>2, StagesGrow DEF Lists
  <2>4. Working' = current' /\ pos' = 1 /\ pc' = "merge"
    BY <1>0, <1>3, ConcatEmptySeq DEF Load, Working
  <2> QED
    BY <2>2, <2>3, <2>4 DEF Progress
<1>4. ASSUME Deciding, Advance, UNCHANGED <<pc, current, fetched, rejectSet>>,
             Working' = Offer(Working, Candidate, rejectSet)
      PROVE  Progress'
  <2>1. pc = "merge" /\ Len(fetched) \in Nat /\ pos \in 1..Len(fetched) /\ Working = Lists[pos - 1]
    BY <1>4, <1>b DEF Deciding, Progress
  <2>2. Lists[pos] = Offer(Lists[pos - 1], fetched[pos], rejectSet)
    BY <2>1, StagesGrow DEF Lists
  <2>3. pos' = pos + 1 /\ pos' \in 1..(Len(fetched') + 1) /\ pos' - 1 = pos
    BY <1>4, <2>1 DEF Advance
  <2> QED
    BY <1>4, <1>a, <2>1, <2>2, <2>3 DEF Progress, Candidate
<1>5. ASSUME Deciding PROVE Candidate \in Event
    BY <1>5, <1>b, <1>0, ElementOfSeq DEF Deciding, Candidate, TypeOK
<1>6. CASE SkipKnown
  <2>1. Clashes(Working, Candidate)
    BY <1>6 DEF SkipKnown, IsKnown, ExistingKeys, Clashes
  <2>2. Working' = Offer(Working, Candidate, rejectSet)
    BY <1>6, <2>1 DEF SkipKnown, Working, Offer
  <2> QED
    BY <1>4, <1>6, <2>2 DEF SkipKnown, files
<1>7. CASE RejectRemoved
  <2>1. Working' = Offer(Working, Candidate, rejectSet)
    BY <1>7 DEF RejectRemoved, IsRejected, Working, Offer
  <2> QED
    BY <1>4, <1>7, <2>1 DEF RejectRemoved, files
<1>8. CASE RejectSemantic
  <2>1. \E a \in Range(Working) : SameEvent(a, Candidate)
    BY <1>0, <1>5, <1>8, TrialList DEF RejectSemantic, IsDuplicate, IInv, WorkingSound
  <2>2. Working' = Offer(Working, Candidate, rejectSet)
    BY <1>8, <2>1 DEF RejectSemantic, Working, Offer, Clashes
  <2> QED
    BY <1>4, <1>8, <2>2 DEF RejectSemantic, files
<1>9. CASE Accept
  <2>1. \A a \in Range(Working) : ~SameEvent(a, Candidate)
    BY <1>0, <1>5, <1>9, TrialList DEF Accept, IsDuplicate, IInv, WorkingSound
  <2>2. ~Clashes(Working, Candidate)
    BY <1>9, <2>1 DEF Accept, IsKnown, ExistingKeys, Clashes
  <2>3. Working' = Append(Working, Candidate)
    BY <1>0, <1>5, <1>9, WorkingAppend DEF Accept, Working, TypeOK
  <2>4. Working' = Offer(Working, Candidate, rejectSet)
    BY <1>9, <2>2, <2>3 DEF Accept, IsRejected, Offer
  <2> QED
    BY <1>4, <1>9, <2>4 DEF Accept, files
<1>10. CASE Merged
  <2>1. Len(fetched) \in Nat /\ pos = Len(fetched) + 1 /\ Working = Lists[pos - 1]
    BY <1>10, <1>b DEF Merged, Progress
  <2>2. Working = MergeInto(current, fetched, rejectSet)
    BY <2>1, StagesGrow DEF Lists
  <2>3. pc' \in {"write", "report"} /\ UNCHANGED <<current, added, fetched, rejectSet>>
    BY <1>10 DEF Merged, files, locals
  <2> QED
    BY <2>2, <2>3 DEF Progress, Working
<1>11. CASE WriteTmp
    BY <1>11 DEF WriteTmp, locals, Progress, Working
<1> QED
    BY <1>1, <1>2, <1>3, <1>6, <1>7, <1>8, <1>9, <1>10, <1>11
       DEF Next, Step, vars, files, locals, flags, Fetch, EditRejectList, AddRejectEntry,
           RemoveAction, Start, LoadFails, Rename, Report, Kill, Exit, Progress

(* actions.json grows by the whole outcome of one merge of the files as    *)
(* they are: never by a part of it, never from a stale copy.               *)
THEOREM GrowthIsWhole == Spec => GrowsByWholeMerges
<1> DEFINE Grown == Len(actions') > Len(actions) =>
              actions' = MergeInto(actions, fetched, IF legible THEN removed ELSE {})
<1>1. Init => Progress
    BY DEF Init, Progress
<1>2. IInv /\ Progress /\ [Next]_vars => [Grown]_vars
  <2> SUFFICES ASSUME IInv, Progress, [Next]_vars, Len(actions') > Len(actions)
               PROVE  actions' = MergeInto(actions, fetched, IF legible THEN removed ELSE {})
    OBVIOUS
  <2>0. actions \in Seq(Event) /\ Len(actions) \in Nat
    BY DEF IInv, TypeOK
  <2>1. CASE Rename
    BY <2>1 DEF Rename, IInv, CopiesCurrent, Running, Progress
  <2>2. ASSUME NEW i \in DOMAIN actions, RemoveAction(i) PROVE FALSE
    <3>1. Len(actions') = Len(actions) - 1
        BY <2>0, <2>2, RemoveAtProperties DEF RemoveAction
    <3> QED
        BY <2>0, <3>1
  <2>3. CASE UNCHANGED actions
    BY <2>0, <2>3
  <2> QED
    BY <2>1, <2>2, <2>3 DEF Next, Step, vars, files, Fetch, EditRejectList, AddRejectEntry,
       Start, LoadFails, Load, SkipKnown, RejectRemoved, RejectSemantic, Accept, Merged,
       WriteTmp, Report, Kill
<1> QED
    BY <1>1, <1>2, Invariance, NextProgress, PTL DEF Spec, GrowsByWholeMerges

-----------------------------------------------------------------------------
(* Removed actions, and the promise of the registry *)

(* The one step that adds records: the run renames a list whose new part   *)
(* holds no key of a reject list it could read.                            *)
LEMMA RenameGrows ==
    ASSUME IInv, Rename
    PROVE  /\ Range(actions') = Range(actions) \cup Range(added)
           /\ legible => \A a \in Range(added) : RejectKey(a) \notin removed
           /\ Range(added) \subseteq Event
<1>1. current \in Seq(Event) /\ added \in Seq(Event)
    BY DEF IInv, TypeOK
<1>2. /\ actions' = current \o added /\ current = actions
      /\ legible => rejectSet = removed
    BY DEF Rename, IInv, CopiesCurrent, Running, Working
<1>3. Range(actions') = Range(actions) \cup Range(added)
    BY <1>1, <1>2, RangeConcatenation
<1>4. \A a \in Range(added) : RejectKey(a) \notin rejectSet
    BY DEF IInv, WorkingSound
<1>5. Range(added) \subseteq Event
    BY <1>1, RangeOfSeq
<1> QED
    BY <1>2, <1>3, <1>4, <1>5

(* Every step but Rename keeps or shrinks the set of records. *)
LEMMA OthersDoNotGrow ==
    ASSUME IInv, [Next]_vars, ~Rename
    PROVE  Range(actions') \subseteq Range(actions)
<1>1. ASSUME NEW i \in DOMAIN actions, RemoveAction(i)
      PROVE  Range(actions') \subseteq Range(actions)
    BY <1>1, RangeOfRemoveAt DEF RemoveAction, IInv, TypeOK
<1>2. CASE UNCHANGED actions
    BY <1>2
<1> QED
    BY <1>1, <1>2 DEF Next, Step, vars, files, Fetch, EditRejectList, AddRejectEntry, Start,
       LoadFails, Load, SkipKnown, RejectRemoved, RejectSemantic, Accept, Merged, WriteTmp,
       Report, Kill

(* A listed event that has left the registry does not come back while the  *)
(* reject list can be read.                                                *)
THEOREM RemovedForGood == Spec => RemovedStaysOut
<1> DEFINE Stays == legible => \A key \in removed :
                        key \notin KeysOf(actions) => key \notin KeysOf(actions')
<1>1. IInv /\ [Next]_vars => [Stays]_vars
  <2> SUFFICES ASSUME IInv, [Next]_vars, legible, NEW key \in removed,
                      key \notin KeysOf(actions), key \in KeysOf(actions')
               PROVE  FALSE
    OBVIOUS
  <2>1. PICK a \in Range(actions') : RejectKey(a) = key
    BY DEF KeysOf
  <2>2. a \notin Range(actions)
    BY <2>1 DEF KeysOf
  <2>3. CASE Rename
    BY <2>1, <2>2, <2>3, RenameGrows
  <2>4. CASE ~Rename
    BY <2>1, <2>2, <2>4, OthersDoNotGrow
  <2> QED
    BY <2>3, <2>4
<1> QED
    BY <1>1, Invariance, PTL DEF Spec, RemovedStaysOut

(* A list without duplicates is, as a set, what the promise asks of one.   *)
LEMMA UniqueListIsConsistent ==
    ASSUME NEW seq \in Seq(Event), SemanticallyUnique(seq), UniqueIds(seq)
    PROVE  Promise!Consistent(Range(seq))
<1> SUFFICES ASSUME NEW a \in Range(seq), NEW b \in Range(seq), a # b
             PROVE  ~SameEvent(a, b) /\ a.id # b.id
    BY DEF Promise!Consistent, IdOf
<1>1. PICK i, j \in DOMAIN seq : a = seq[i] /\ b = seq[j]
    BY DEF Range
<1> QED
    BY <1>1 DEF SemanticallyUnique, UniqueIds

(* merge_fetched.py, run for run and kill for kill, implements the promise *)
(* of the registry: Rename is its only Grow, everything else a run does    *)
(* is invisible.                                                           *)
THEOREM MergeKeepsPromise == Spec => PromiseKept
<1>1. Init => Promise!Init
  <2> SUFFICES ASSUME Init PROVE Promise!Init
    OBVIOUS
  <2>1. actions \in Seq(Event) /\ SemanticallyUnique(actions) /\ UniqueIds(actions)
    BY RegistriesAssumption DEF Init
  <2>2. Range(actions) \subseteq Event /\ Promise!Consistent(Range(actions))
    BY <2>1, RangeOfSeq, UniqueListIsConsistent
  <2> QED
    BY <2>2 DEF Init, Promise!Init
<1>2. IInv /\ IInv' /\ [Next]_vars
        => [Promise!Next]_<<Range(actions), removed, legible>>
  <2> SUFFICES ASSUME IInv, IInv', [Next]_vars
               PROVE  \/ Promise!Next
                      \/ UNCHANGED <<Range(actions), removed, legible>>
    OBVIOUS
  <2>1. CASE EditRejectList
    <3>1. Promise!Edit
        BY <2>1 DEF EditRejectList, Promise!Edit
    <3> QED
        BY <3>1 DEF Promise!Next
  <2>2. ASSUME NEW key \in RejectKeys, AddRejectEntry(key) PROVE Promise!Next
    <3>1. PICK a \in Range(actions) : RejectKey(a) = key
        BY <2>2 DEF AddRejectEntry
    <3>2. Promise!Bar(a)
        BY <2>2, <3>1 DEF AddRejectEntry, Promise!Bar
    <3> QED
        BY <3>2 DEF Promise!Next
  <2>3. ASSUME NEW i \in DOMAIN actions, RemoveAction(i) PROVE Promise!Next
    <3>1. Range(actions') = Range(actions) \ {actions[i]}
        BY <2>3, RangeOfRemoveAt DEF RemoveAction, IInv, TypeOK
    <3>2. actions[i] \in Range(actions)
        BY DEF Range
    <3>3. Promise!Drop(actions[i])
        BY <2>3, <3>1, <3>2 DEF RemoveAction, Promise!Drop
    <3> QED
        BY <3>2, <3>3 DEF Promise!Next
  <2>4. CASE Rename
    <3>1. Promise!Consistent(Range(actions'))
        BY UniqueListIsConsistent DEF IInv, TypeOK
    <3>2. Promise!Grow(Range(added))
        BY <2>4, <3>1, RenameGrows DEF Rename, Promise!Grow
    <3>3. Range(added) \in SUBSET Event
        BY <2>4, RenameGrows
    <3> QED
        BY <3>2, <3>3 DEF Promise!Next
  <2>5. CASE UNCHANGED <<actions, removed, legible>>
    BY <2>5
  <2> QED
    BY <2>1, <2>2, <2>3, <2>4, <2>5 DEF Next, Step, vars, files, Fetch, Start, LoadFails, Load,
       SkipKnown, RejectRemoved, RejectSemantic, Accept, Merged, WriteTmp, Report, Kill
<1> QED
    BY <1>1, <1>2, Invariance, PTL DEF Spec, PromiseKept, Promise!Spec
=============================================================================
