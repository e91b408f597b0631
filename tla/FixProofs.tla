------------------------------ MODULE FixProofs ------------------------------
(***************************************************************************)
(* Theorems about fix_duplicates.py for every choice of wrong and          *)
(* corrected records, registries, fetched files and hand-written entries,  *)
(* and for any number of runs and kills.                                   *)
(***************************************************************************)
EXTENDS FixDuplicates, RegistryProofs

(* The records the script meets: well formed, the wrong ones with ex-date. *)
Met == {a \in Action : WellFormed(a) /\ (a.id \in RemoveIds => a.ex # None)}

(* The inputs are made of such records. *)
LEMMA InputsMet ==
    /\ AddEntries \in Seq(Met)
    /\ \A seq \in Registries : seq \in Seq(Met) /\ UniqueIds(seq)
    /\ \A seq \in Feeds : seq \in Seq(Met)
<1>1. ASSUME NEW seq \in Seq(Action), Sound(seq) PROVE seq \in Seq(Met)
  <2>1. \A i \in 1..Len(seq) : seq[i] \in Met
    BY <1>1 DEF Sound, Met
  <2> QED
    BY <2>1
<1> QED
    BY <1>1, ScriptAssumption, InputsAssumption

-----------------------------------------------------------------------------
(* Filtering a list by ids *)

(* The lists after each record of seq, as far as n. *)
Filtering(g, n, seq, ids) ==
    [k \in 0..n |-> IF k = 0 THEN << >>
                    ELSE IF seq[k].id \in ids THEN g[k - 1] ELSE Append(g[k - 1], seq[k])]

(* There are such lists. *)
LEMMA FilteringExists ==
    ASSUME NEW seq, NEW ids, NEW n \in Nat
    PROVE  \E g : g = Filtering(g, n, seq, ids)
<1> DEFINE T == {m \in Nat : \E g : g = Filtering(g, m, seq, ids)}
<1>1. 0 \in T
  <2> DEFINE g == [k \in 0..0 |-> << >>]
  <2>1. g = Filtering(g, 0, seq, ids)
    BY DEF Filtering
  <2> QED
    BY <2>1
<1>2. ASSUME NEW m \in Nat, m \in T PROVE m + 1 \in T
  <2>1. PICK g : g = Filtering(g, m, seq, ids)
    BY <1>2
  <2> DEFINE last == IF seq[m + 1].id \in ids THEN g[m] ELSE Append(g[m], seq[m + 1])
             h == [k \in 0..(m + 1) |-> IF k = m + 1 THEN last ELSE g[k]]
  <2>2. \A k \in 0..m : g[k] = IF k = 0 THEN << >>
                               ELSE IF seq[k].id \in ids THEN g[k - 1] ELSE Append(g[k - 1], seq[k])
    BY <2>1 DEF Filtering
  <2>3. \A k \in 0..m : h[k] = g[k]
    OBVIOUS
  <2>4. \A k \in 0..(m + 1) :
            h[k] = IF k = 0 THEN << >>
                   ELSE IF seq[k].id \in ids THEN h[k - 1] ELSE Append(h[k - 1], seq[k])
    <3> TAKE k \in 0..(m + 1)
    <3>1. CASE k = m + 1
        BY <2>3, <3>1
    <3>2. CASE k # m + 1
        BY <2>2, <2>3, <3>2
    <3> QED
        BY <3>1, <3>2
  <2>5. h = Filtering(h, m + 1, seq, ids)
    <3> HIDE DEF h
    <3>1. h = [k \in 0..(m + 1) |-> h[k]]
        BY DEF h
    <3> QED
        BY <2>4, <3>1 DEF Filtering
  <2> QED
    BY <2>5
<1>3. Nat \subseteq T
    BY <1>1, <1>2, InductiveSetHasAll
<1> QED
    BY <1>3

(* A record appended to a list whose ids are others keeps ids unique. *)
LEMMA AppendNewId ==
    ASSUME NEW S, NEW list \in Seq(S), NEW c \in S, UniqueIds(list),
           \A i \in DOMAIN list : list[i].id # c.id
    PROVE  UniqueIds(Append(list, c))
<1>1. /\ DOMAIN Append(list, c) = 1..(Len(list) + 1) /\ DOMAIN list = 1..Len(list)
      /\ Len(list) \in Nat /\ Append(list, c)[Len(list) + 1] = c
      /\ \A i \in 1..Len(list) : Append(list, c)[i] = list[i]
    OBVIOUS
<1> SUFFICES ASSUME NEW i \in DOMAIN Append(list, c), NEW j \in DOMAIN Append(list, c), i # j
             PROVE  Append(list, c)[i].id # Append(list, c)[j].id
    BY DEF UniqueIds
<1>2. CASE i \in 1..Len(list) /\ j \in 1..Len(list)
    BY <1>1, <1>2 DEF UniqueIds
<1>3. CASE i = Len(list) + 1 /\ j \in 1..Len(list)
    BY <1>1, <1>3
<1>4. CASE j = Len(list) + 1 /\ i \in 1..Len(list)
    BY <1>1, <1>4
<1> QED
    BY <1>1, <1>2, <1>3, <1>4

(* What is left of a list are records of it, with none of the ids, and no  *)
(* id twice if the list held none twice.                                   *)
LEMMA WithoutProperties ==
    ASSUME NEW S, NEW seq \in Seq(S), NEW ids, UniqueIds(seq)
    PROVE  /\ Without(seq, ids) \in Seq(S)
           /\ UniqueIds(Without(seq, ids))
           /\ \A i \in DOMAIN Without(seq, ids) :
                /\ Without(seq, ids)[i].id \notin ids
                /\ \E j \in DOMAIN seq : Without(seq, ids)[i] = seq[j]
<1> DEFINE N == Len(seq)
           kept == CHOOSE g : g = Filtering(g, N, seq, ids)
           Good(list, n) ==
               /\ list \in Seq(S) /\ UniqueIds(list)
               /\ \A i \in DOMAIN list :
                    list[i].id \notin ids /\ \E j \in 1..n : list[i] = seq[j]
           T == {n \in Nat : n <= N => Good(kept[n], n)}
<1>0. N \in Nat /\ DOMAIN seq = 1..N /\ \A j \in 1..N : seq[j] \in S
    OBVIOUS
<1>1. Without(seq, ids) = kept[N]
    BY DEF Without, Filtering
<1>2. kept = Filtering(kept, N, seq, ids)
    BY <1>0, FilteringExists
<1> HIDE DEF kept
<1>3. \A n \in 0..N : kept[n] = IF n = 0 THEN << >>
                                ELSE IF seq[n].id \in ids THEN kept[n - 1]
                                     ELSE Append(kept[n - 1], seq[n])
    BY <1>2 DEF Filtering
<1>4. 0 \in T
  <2>1. kept[0] = << >>
    BY <1>0, <1>3
  <2>2. << >> \in Seq(S) /\ DOMAIN << >> = {}
    OBVIOUS
  <2>3. Good(<< >>, 0)
    BY <2>2 DEF UniqueIds
  <2> QED
    BY <2>1, <2>3
<1>5. ASSUME NEW n \in Nat, n \in T PROVE n + 1 \in T
  <2> SUFFICES ASSUME n + 1 <= N PROVE Good(kept[n + 1], n + 1)
    OBVIOUS
  <2>1. Good(kept[n], n) /\ n + 1 \in 1..N /\ seq[n + 1] \in S
    BY <1>0, <1>5
  <2>2. kept[n + 1] = IF seq[n + 1].id \in ids THEN kept[n] ELSE Append(kept[n], seq[n + 1])
    BY <1>0, <1>3
  <2>3. CASE seq[n + 1].id \in ids
    BY <2>1, <2>2, <2>3
  <2>4. CASE seq[n + 1].id \notin ids
    <3> DEFINE list == kept[n]
               new == Append(list, seq[n + 1])
    <3>1. \A i \in DOMAIN list : list[i].id # seq[n + 1].id
        BY <1>0, <2>1 DEF UniqueIds
    <3>2. new \in Seq(S) /\ UniqueIds(new)
        BY <2>1, <3>1, AppendNewId
    <3>3. \A i \in DOMAIN new :
              IF i \in DOMAIN list THEN new[i] = list[i] ELSE new[i] = seq[n + 1]
        BY <2>1
    <3>4. \A i \in DOMAIN new : new[i].id \notin ids /\ \E j \in 1..(n + 1) : new[i] = seq[j]
        BY <2>1, <2>4, <3>3
    <3> QED
        BY <2>2, <2>4, <3>2, <3>4
  <2> QED
    BY <2>3, <2>4
<1>6. N \in T
    BY <1>0, <1>4, <1>5, InductiveSetHasAll
<1>7. Good(kept[N], N)
    BY <1>0, <1>6
<1> QED
    BY <1>0, <1>1, <1>7

(* Two lists with no id in common make one. *)
LEMMA UniqueIdsOfConcatenation ==
    ASSUME NEW S, NEW s \in Seq(S), NEW t \in Seq(S), UniqueIds(s), UniqueIds(t),
           \A i \in DOMAIN s, j \in DOMAIN t : s[i].id # t[j].id
    PROVE  UniqueIds(s \o t)
<1>1. /\ DOMAIN (s \o t) = 1..(Len(s) + Len(t)) /\ Len(s) \in Nat /\ Len(t) \in Nat
      /\ DOMAIN s = 1..Len(s) /\ DOMAIN t = 1..Len(t)
      /\ \A i \in 1..(Len(s) + Len(t)) : (s \o t)[i] = IF i <= Len(s) THEN s[i] ELSE t[i - Len(s)]
    OBVIOUS
<1> SUFFICES ASSUME NEW i \in 1..(Len(s) + Len(t)), NEW j \in 1..(Len(s) + Len(t)), i # j
             PROVE  (s \o t)[i].id # (s \o t)[j].id
    BY <1>1 DEF UniqueIds
<1>2. CASE i <= Len(s) /\ j <= Len(s)
    BY <1>1, <1>2 DEF UniqueIds
<1>3. CASE i <= Len(s) /\ ~(j <= Len(s))
  <2>1. i \in DOMAIN s /\ j - Len(s) \in DOMAIN t
    BY <1>1, <1>3
  <2> QED
    BY <1>1, <1>3, <2>1
<1>4. CASE ~(i <= Len(s)) /\ j <= Len(s)
  <2>1. j \in DOMAIN s /\ i - Len(s) \in DOMAIN t
    BY <1>1, <1>4
  <2> QED
    BY <1>1, <1>4, <2>1
<1>5. CASE ~(i <= Len(s)) /\ ~(j <= Len(s))
  <2>1. i - Len(s) \in DOMAIN t /\ j - Len(s) \in DOMAIN t /\ i - Len(s) # j - Len(s)
    BY <1>1, <1>5
  <2> QED
    BY <1>1, <1>5, <2>1 DEF UniqueIds
<1> QED
    BY <1>2, <1>3, <1>4, <1>5

(* merge() gives no id twice to a list that holds none twice. *)
LEMMA MergeKeepsIds ==
    ASSUME NEW seq \in Seq(Met), NEW feed \in Seq(Met), NEW barred, UniqueIds(seq)
    PROVE  MergeInto(seq, feed, barred) \in Seq(Met) /\ UniqueIds(MergeInto(seq, feed, barred))
<1> DEFINE lists == {list \in Seq(Met) : UniqueIds(list)}
<1>1. ASSUME NEW list \in lists, NEW i \in 1..Len(feed)
      PROVE  Offer(list, feed[i], barred) \in lists
  <2>1. feed[i] \in Met /\ \A a \in Met : a \in Action /\ WellFormed(a)
    BY DEF Met
  <2>2. CASE Offer(list, feed[i], barred) = list
    BY <2>2
  <2>3. CASE ~Clashes(list, feed[i]) /\ Offer(list, feed[i], barred) = Append(list, feed[i])
    <3>1. /\ FuzzyKey(feed[i]) \notin {FuzzyKey(a) : a \in Range(list)}
          /\ \A a \in Range(list) : ~SameEvent(a, feed[i])
        BY <2>3 DEF Clashes
    <3>2. UniqueIds(Append(list, feed[i]))
        BY <2>1, <3>1, AcceptedIdIsNew
    <3> QED
        BY <2>1, <2>3, <3>2
  <2> QED
    BY <2>2, <2>3 DEF Offer
<1>2. Len(feed) \in Nat /\ seq \in lists
    OBVIOUS
<1> HIDE DEF lists
<1>3. MergeInto(seq, feed, barred) \in lists
    BY <1>1, <1>2, MergeKeeps
<1> QED
    BY <1>3 DEF lists

-----------------------------------------------------------------------------
(* Keys *)

(* The entry the script writes for a record has the key the merge computes *)
(* for the record, if the record has an ex-date.                           *)
LEMMA EntryHasRecordKey ==
    ASSUME NEW a \in Action, a.ex # None
    PROVE  EntryOf(a) \in Entry /\ EntryKey(EntryOf(a)) = RejectKey(a)
<1>1. /\ a.isin \in Isin /\ a.type \in ActionType /\ a.ex \in MaybeDay
      /\ a.amount \in Nat \/ a.amount = None
    BY DEF Action, MaybeAmount
<1>2. CashOf(a) \in Nat /\ CashOf(a) # None
    BY <1>1 DEF CashOf, None
<1>3. EntryOf(a) \in Entry
    BY <1>1, <1>2 DEF EntryOf, Entry, MaybeAmount
<1>4. AmountKey(EntryOf(a)) = AmountKey(a)
    BY <1>1, <1>2 DEF EntryOf, AmountKey, CashOf, Round4, None
<1> QED
    BY <1>3, <1>4 DEF EntryOf, EntryKey, RejectKey, RefDate

(* Entries the script takes for the same are the same for the merge.       *)
LEMMA ScriptKeyIsFiner ==
    ASSUME NEW d \in Entry, NEW e \in Entry, ScriptKey(d) = ScriptKey(e),
           d.amount # None, e.amount # None
    PROVE  EntryKey(d) = EntryKey(e)
    BY DEF ScriptKey, EntryKey, AmountKey

-----------------------------------------------------------------------------
(* The inductive invariant *)

(* A run has to record what it removed, and until it has, the keys are in  *)
(* its hands: first the records of the list it loaded, then the list it is *)
(* about to write.                                                         *)
Removing  == {RejectKey(before[i]) : i \in RemovedPresent}
KeysOf(entries) == {EntryKey(e) : e \in entries}

Recorded ==
    ~interrupted =>
        /\ pc \in {"idle", "plan"} => gone \subseteq RejectSet
        /\ pc = "record" => gone \subseteq RejectSet \cup Removing
        /\ pc \in {"truncate", "rewrite"} => gone \subseteq KeysOf(doc)

IInv ==
    /\ TypeOK
    /\ registry \in Seq(Met) /\ before \in Seq(Met)
    /\ UniqueIds(registry) /\ UniqueIds(before)
    /\ Recorded

LEMMA InitIInv == Init => IInv
<1> SUFFICES ASSUME Init PROVE IInv
    OBVIOUS
<1>1. << >> \in Seq(Met) /\ DOMAIN << >> = {}
    OBVIOUS
<1>2. registry \in Seq(Met) /\ before \in Seq(Met) /\ UniqueIds(registry) /\ UniqueIds(before)
    BY <1>1, InputsMet DEF Init, UniqueIds
<1>3. registry \in Seq(Action) /\ before \in Seq(Action)
    BY InputsAssumption DEF Init
<1>4. TypeOK
  <2>1. torn \in BOOLEAN /\ interrupted \in BOOLEAN /\ ~torn
    BY Zenon DEF Init
  <2>2. rejects \subseteq Entry /\ doc \subseteq Entry /\ pc = "idle" /\ runs \in 0..MaxRuns
    BY InputsAssumption DEF Init
  <2> QED
    BY <1>3, <2>1, <2>2 DEF TypeOK
<1> QED
    BY <1>2, <1>4 DEF Init, IInv, Recorded

LEMMA NextIInv == IInv /\ [Next]_vars => IInv'
<1> SUFFICES ASSUME IInv, [Next]_vars PROVE IInv'
    OBVIOUS
<1> USE DEF IInv
<1>0. \A seq \in Seq(Met) : seq \in Seq(Action)
    BY DEF Met
<1>a. << >> \in Seq(Met) /\ DOMAIN << >> = {} /\ UniqueIds(<< >>)
  <2>1. << >> \in Seq(Met) /\ DOMAIN << >> = {}
    OBVIOUS
  <2> QED
    BY <2>1 DEF UniqueIds
<1>1. ASSUME NEW feed \in Feeds, Merge(feed) PROVE IInv'
  <2>1. registry' \in Seq(Met) /\ UniqueIds(registry')
    BY <1>1, InputsMet, MergeKeepsIds DEF Merge
  <2>2. TypeOK'
    BY <1>0, <1>1, <2>1 DEF Merge, TypeOK
  <2> QED
    BY <1>1, <2>1, <2>2 DEF Merge, Recorded, RejectSet, Listed
<1>2. ASSUME NEW e \in HandEntries, AddHandEntry(e) PROVE IInv'
  <2>1. TypeOK'
    BY <1>2, InputsAssumption DEF AddHandEntry, TypeOK
  <2>2. RejectSet \subseteq RejectSet' /\ pc = "idle"
    BY <1>2 DEF AddHandEntry, RejectSet, Listed
  <2>3. Recorded'
    BY <1>2, <2>2 DEF AddHandEntry, Recorded
  <2> QED
    BY <1>2, <2>1, <2>3 DEF AddHandEntry
<1>3. CASE Start
  <2>1. TypeOK'
    BY <1>3, InputsAssumption DEF Start, TypeOK
  <2> QED
    BY <1>3, <2>1 DEF Start, Recorded, RejectSet, Listed
\* A run that ends leaves the registry alone and what it removed recorded.
<1>4. ASSUME Exit, UNCHANGED <<registry, gone>>,
             rejects' \subseteq Entry, torn' \in BOOLEAN, interrupted' \in BOOLEAN,
             torn' => interrupted',
             ~interrupted' => gone \subseteq RejectSet'
      PROVE  IInv'
  <2>1. TypeOK'
    BY <1>0, <1>4, <1>a DEF Exit, TypeOK
  <2> QED
    BY <1>4, <1>a, <2>1 DEF Exit, Recorded
<1>5. CASE AlreadyApplied
  <2>1. RejectSet' = RejectSet
    BY <1>5 DEF AlreadyApplied, RejectSet, Listed
  <2> QED
    BY <1>4, <1>5, <2>1 DEF AlreadyApplied, TypeOK, Recorded
<1>6. CASE ReplaceActions
  <2>1. /\ Kept \in Seq(Met) /\ UniqueIds(Kept)
        /\ \A i \in DOMAIN Kept : \E j \in DOMAIN before : Kept[i] = before[j]
    BY WithoutProperties DEF Kept
  <2>2. /\ AddedMissing \in Seq(Met) /\ UniqueIds(AddedMissing)
        /\ \A i \in DOMAIN AddedMissing : AddedMissing[i].id \notin Ids(before)
    BY WithoutProperties, InputsMet, ScriptAssumption DEF AddedMissing
  <2>3. \A i \in DOMAIN Kept : Kept[i].id \in Ids(before)
    BY <2>1 DEF Ids, Range
  <2>4. registry' = Kept \o AddedMissing
    BY <1>6 DEF ReplaceActions
  <2>5. registry' \in Seq(Met) /\ UniqueIds(registry')
    <3>1. \A i \in DOMAIN Kept, j \in DOMAIN AddedMissing : Kept[i].id # AddedMissing[j].id
        BY <2>2, <2>3
    <3>2. UniqueIds(Kept \o AddedMissing)
        BY <2>1, <2>2, <3>1, UniqueIdsOfConcatenation
    <3>3. Kept \o AddedMissing \in Seq(Met)
        BY <2>1, <2>2, ConcatProperties
    <3> QED
        BY <2>4, <3>2, <3>3
  <2>6. TypeOK'
    BY <1>0, <1>6, <2>5 DEF ReplaceActions, TypeOK
  <2>7. RejectSet' = RejectSet /\ gone' = gone \cup Removing /\ Removing' = Removing
    BY <1>6 DEF ReplaceActions, RejectSet, Listed, Removing, RemovedPresent
  <2>8. Recorded'
    BY <1>6, <2>7 DEF ReplaceActions, Recorded
  <2> QED
    BY <1>6, <2>5, <2>6, <2>8 DEF ReplaceActions
<1>7. CASE ComposeRejects
  <2>1. ASSUME NEW i \in RemovedPresent
        PROVE  /\ EntryOf(before[i]) \in Entry
               /\ EntryKey(EntryOf(before[i])) = RejectKey(before[i])
    <3>1. before[i] \in Met /\ before[i].id \in RemoveIds
        BY DEF RemovedPresent
    <3> QED
        BY <3>1, EntryHasRecordKey DEF Met
  <2>2. Listed \subseteq Entry /\ doc' = Listed \cup NewEntries /\ doc' \subseteq Entry
    BY <1>7, <2>1 DEF ComposeRejects, NewEntries, Listed, TypeOK
  <2>3. ASSUME NEW i \in RemovedPresent PROVE RejectKey(before[i]) \in KeysOf(doc')
    <3> DEFINE e == EntryOf(before[i])
    <3>1. e \in Entry /\ EntryKey(e) = RejectKey(before[i]) /\ e.amount # None
      <4>1. before[i] \in Action
        BY DEF RemovedPresent, Met
      <4>2. CashOf(before[i]) # None
        BY <4>1 DEF CashOf, Action, MaybeAmount, None
      <4> QED
        BY <2>1, <4>2 DEF EntryOf
    <3>2. CASE ScriptKey(e) \notin {ScriptKey(d) : d \in Listed}
      <4>1. e \in NewEntries
        BY <3>2 DEF NewEntries
      <4> QED
        BY <2>2, <3>1, <4>1 DEF KeysOf
    <3>3. CASE ScriptKey(e) \in {ScriptKey(d) : d \in Listed}
      <4>1. PICK d \in Listed : ScriptKey(d) = ScriptKey(e)
        BY <3>3
      <4>2. d \in Entry /\ d.amount # None /\ d \in doc'
        BY <1>7, <2>2, <4>1 DEF ComposeRejects, CanRound
      <4>3. EntryKey(d) = RejectKey(before[i])
        BY <3>1, <4>1, <4>2, ScriptKeyIsFiner
      <4> QED
        BY <4>2, <4>3 DEF KeysOf
    <3> QED
        BY <3>2, <3>3
  <2>4. Removing \subseteq KeysOf(doc')
    BY <2>3 DEF Removing
  <2>5. RejectSet \subseteq KeysOf(doc')
    BY <2>2 DEF RejectSet, KeysOf
  <2>6. TypeOK'
    BY <1>7, <2>2 DEF ComposeRejects, TypeOK
  <2>7. Recorded'
    BY <1>7, <2>4, <2>5 DEF ComposeRejects, Recorded
  <2> QED
    BY <1>7, <2>6, <2>7 DEF ComposeRejects
<1>8. CASE TruncateRejects
  <2>1. TypeOK'
    BY <1>8 DEF TruncateRejects, TypeOK
  <2> QED
    BY <1>8, <2>1 DEF TruncateRejects, Recorded
<1>9. CASE WriteRejects
  <2>1. RejectSet' = KeysOf(doc)
    BY <1>9 DEF WriteRejects, RejectSet, Listed, KeysOf
  <2> QED
    BY <1>4, <1>9, <2>1 DEF WriteRejects, TypeOK, Recorded
<1>10. CASE Crash \/ Kill
    BY <1>4, <1>10 DEF Crash, Kill, TypeOK
<1>11. CASE UNCHANGED vars
  <2>1. TypeOK'
    BY <1>11 DEF vars, TypeOK
  <2>2. Recorded'
    BY <1>11 DEF vars, Recorded, RejectSet, Listed, Removing, RemovedPresent
  <2> QED
    BY <1>11, <2>1, <2>2 DEF vars
<1> QED
    BY <1>1, <1>2, <1>3, <1>5, <1>6, <1>7, <1>8, <1>9, <1>10, <1>11 DEF Next

LEMMA Invariance == Spec => []IInv
    BY InitIInv, NextIInv, PTL DEF Spec

-----------------------------------------------------------------------------
(* Every reachable state is well typed, and the reject list is illegible   *)
(* only while the script writes it or after it was killed writing it.      *)
THEOREM TypeCorrect == Spec => []TypeOK
<1>1. IInv => TypeOK
    BY DEF IInv
<1> QED
    BY <1>1, Invariance, PTL

(* What a run removed is barred from the merge once the run has ended,     *)
(* though it writes and compares other keys than the merge computes.       *)
THEOREM RemovedIsBarred == Spec => []RemovalsBarred
<1>1. IInv => RemovalsBarred
    BY DEF IInv, Recorded, RemovalsBarred
<1> QED
    BY <1>1, Invariance, PTL

(* Whatever is killed when, and whatever is merged between two runs,       *)
(* actions.json holds no id twice.                                         *)
THEOREM NoIdTwice == Spec => []IdsStayUnique
<1>1. IInv => IdsStayUnique
    BY DEF IInv, IdsStayUnique
<1> QED
    BY <1>1, Invariance, PTL
=============================================================================
