--------------------------- MODULE RegistryProofs ---------------------------
(***************************************************************************)
(* Facts about the functions of RegistryData, for every list of records,   *)
(* every fetched file and every reject set.  What a merge makes of a list  *)
(* is a recursive function over the fetched file; a set that holds the     *)
(* list and is closed under the offer of one record holds the outcome.     *)
(***************************************************************************)
EXTENDS RegistryData, WellFoundedInduction, SequenceTheorems, TLAPS

(* Among numbers there is a least one ... *)
LEMMA LeastNumber ==
    ASSUME NEW T, T \subseteq Nat, T # {}
    PROVE  \E x \in T : \A y \in T : x <= y
<1>1. IsWellFoundedOn(OpToRel(<, Nat), Nat)
    BY NatLessThanWellFounded
<1>2. PICK x \in T : \A y \in T : ~ (<<y, x>> \in OpToRel(<, Nat))
    BY <1>1, WFMin
<1>3. \A y \in T : ~(y < x)
    BY <1>2 DEF OpToRel
<1> QED
    BY <1>3

(* ... which is induction, for a set of them. *)
LEMMA InductiveSetHasAll ==
    ASSUME NEW T, 0 \in T, \A n \in Nat : n \in T => n + 1 \in T
    PROVE  Nat \subseteq T
<1> SUFFICES ASSUME Nat \ T # {} PROVE FALSE
    OBVIOUS
<1>1. PICK x \in Nat \ T : \A y \in Nat \ T : x <= y
    BY LeastNumber
<1>2. x \in Nat /\ x \notin T /\ x # 0
    OBVIOUS
<1>3. x - 1 \in Nat /\ ~(x <= x - 1) /\ (x - 1) + 1 = x
    BY <1>2
<1>4. x - 1 \in T
    BY <1>1, <1>3
<1> QED
    BY <1>2, <1>3, <1>4

(* The lists after each record, as far as n. *)
Growth(g, n, seq, feed, barred) ==
    [k \in 0..n |-> IF k = 0 THEN seq ELSE Offer(g[k - 1], feed[k], barred)]

(* There are such lists. *)
LEMMA GrowthExists ==
    ASSUME NEW seq, NEW feed, NEW barred, NEW n \in Nat
    PROVE  \E g : g = Growth(g, n, seq, feed, barred)
<1> DEFINE T == {m \in Nat : \E g : g = Growth(g, m, seq, feed, barred)}
<1>1. 0 \in T
  <2> DEFINE g == [k \in 0..0 |-> seq]
  <2>1. g = Growth(g, 0, seq, feed, barred)
    BY DEF Growth
  <2> QED
    BY <2>1
<1>2. ASSUME NEW m \in Nat, m \in T PROVE m + 1 \in T
  <2>1. PICK g : g = Growth(g, m, seq, feed, barred)
    BY <1>2
  <2> DEFINE h == [k \in 0..(m + 1) |->
                     IF k = m + 1 THEN Offer(g[m], feed[m + 1], barred) ELSE g[k]]
  <2>2. \A k \in 0..m : g[k] = IF k = 0 THEN seq ELSE Offer(g[k - 1], feed[k], barred)
    BY <2>1 DEF Growth
  <2>3. \A k \in 0..m : h[k] = g[k]
    OBVIOUS
  <2>4. \A k \in 0..(m + 1) :
            h[k] = IF k = 0 THEN seq ELSE Offer(h[k - 1], feed[k], barred)
    <3> TAKE k \in 0..(m + 1)
    <3>1. CASE k = m + 1
        BY <2>3, <3>1
    <3>2. CASE k # m + 1
        BY <2>2, <2>3, <3>2
    <3> QED
        BY <3>1, <3>2
  <2>5. h = Growth(h, m + 1, seq, feed, barred)
    <3> HIDE DEF h
    <3>1. h = [k \in 0..(m + 1) |-> h[k]]
        BY DEF h
    <3> QED
        BY <2>4, <3>1 DEF Growth
  <2> QED
    BY <2>5
<1>3. Nat \subseteq T
    BY <1>1, <1>2, InductiveSetHasAll
<1> QED
    BY <1>3

(* merge(): what every offer of a fetched record keeps, the merge keeps. *)
LEMMA MergeKeeps ==
    ASSUME NEW seq, NEW feed, NEW barred, NEW lists, Len(feed) \in Nat,
           seq \in lists,
           \A list \in lists : \A i \in 1..Len(feed) : Offer(list, feed[i], barred) \in lists
    PROVE  MergeInto(seq, feed, barred) \in lists
<1> DEFINE N == Len(feed)
           grown == CHOOSE g : g = Growth(g, N, seq, feed, barred)
           T == {n \in Nat : n <= N => grown[n] \in lists}
<1>1. MergeInto(seq, feed, barred) = grown[N]
    BY DEF MergeInto, Growth
<1>2. grown = Growth(grown, N, seq, feed, barred)
    BY GrowthExists
<1> HIDE DEF grown
<1>3. \A n \in 0..N : grown[n] = IF n = 0 THEN seq ELSE Offer(grown[n - 1], feed[n], barred)
    BY <1>2 DEF Growth
<1>4. 0 \in T
    BY <1>3
<1>5. ASSUME NEW n \in Nat, n \in T PROVE n + 1 \in T
  <2> SUFFICES ASSUME n + 1 <= N PROVE grown[n + 1] \in lists
    OBVIOUS
  <2>1. grown[n] \in lists
    BY <1>5
  <2>2. grown[n + 1] = Offer(grown[n], feed[n + 1], barred)
    BY <1>3
  <2> QED
    BY <2>1, <2>2
<1>6. N \in T
    BY <1>4, <1>5, InductiveSetHasAll
<1> QED
    BY <1>1, <1>6

(* A merge of records into records gives records. *)
LEMMA MergeOfRecords ==
    ASSUME NEW S, NEW seq \in Seq(S), NEW feed \in Seq(S), NEW barred
    PROVE  MergeInto(seq, feed, barred) \in Seq(S)
<1>1. Len(feed) \in Nat /\ \A i \in 1..Len(feed) : feed[i] \in S
    OBVIOUS
<1>2. \A list \in Seq(S), i \in 1..Len(feed) : Offer(list, feed[i], barred) \in Seq(S)
    BY <1>1 DEF Offer
<1> QED
    BY <1>1, <1>2, MergeKeeps

-----------------------------------------------------------------------------
(* Lists *)

(* The list grown by a record holds that record besides. *)
LEMMA RangeOfAppend ==
    ASSUME NEW S, NEW seq \in Seq(S), NEW x \in S
    PROVE  Range(Append(seq, x)) = Range(seq) \cup {x}
<1>1. DOMAIN Append(seq, x) = 1..(Len(seq) + 1) /\ DOMAIN seq = 1..Len(seq)
    OBVIOUS
<1>2. \A i \in 1..Len(seq) : Append(seq, x)[i] = seq[i]
    OBVIOUS
<1>3. Append(seq, x)[Len(seq) + 1] = x
    OBVIOUS
<1> QED
    BY <1>1, <1>2, <1>3 DEF Range

(* What RemoveAt leaves of a list, position by position. *)
LEMMA RemoveAtProperties ==
    ASSUME NEW S, NEW seq \in Seq(S), NEW i \in DOMAIN seq
    PROVE  /\ RemoveAt(seq, i) \in Seq(S)
           /\ Len(RemoveAt(seq, i)) = Len(seq) - 1
           /\ \A j \in 1..(Len(seq) - 1) :
                RemoveAt(seq, i)[j] = seq[IF j < i THEN j ELSE j + 1]
<1> DEFINE front == SubSeq(seq, 1, i - 1)
           back  == SubSeq(seq, i + 1, Len(seq))
<1>1. Len(seq) \in Nat /\ i \in 1..Len(seq) /\ \A k \in 1..Len(seq) : seq[k] \in S
    BY LenProperties, ElementOfSeq
<1>2. /\ front \in Seq(S) /\ Len(front) = i - 1
      /\ \A j \in 1..(i - 1) : front[j] = seq[j]
    BY <1>1, SubSeqProperties
<1>3. /\ back \in Seq(S) /\ Len(back) = Len(seq) - i
      /\ \A j \in 1..(Len(seq) - i) : back[j] = seq[i + j]
    BY <1>1, SubSeqProperties
<1>4. RemoveAt(seq, i) = front \o back
    BY DEF RemoveAt
<1> HIDE DEF front, back
<1>5. /\ front \o back \in Seq(S)
      /\ Len(front \o back) = Len(seq) - 1
    BY <1>1, <1>2, <1>3
<1>6. \A j \in 1..(Len(seq) - 1) : (front \o back)[j] = IF j < i THEN front[j] ELSE back[j - (i - 1)]
    BY <1>1, <1>2, <1>3
<1>7. ASSUME NEW j \in 1..(Len(seq) - 1)
      PROVE  (front \o back)[j] = seq[IF j < i THEN j ELSE j + 1]
  <2>1. CASE j < i
    BY <2>1, <1>1, <1>2, <1>6
  <2>2. CASE ~(j < i)
    <3>1. j - (i - 1) \in 1..(Len(seq) - i) /\ i + (j - (i - 1)) = j + 1
        BY <2>2, <1>1
    <3> QED
        BY <2>2, <3>1, <1>3, <1>6
  <2> QED
    BY <2>1, <2>2
<1> QED
    BY <1>4, <1>5, <1>7

(* The position in seq that position j of RemoveAt(seq, i) comes from. *)
Origin(j, i) == IF j < i THEN j ELSE j + 1

(* ... and every element of the shorter list stood in the longer one. *)
LEMMA RemoveAtOrigin ==
    ASSUME NEW S, NEW seq \in Seq(S), NEW i \in DOMAIN seq
    PROVE  /\ \A j \in DOMAIN RemoveAt(seq, i) :
                /\ Origin(j, i) \in DOMAIN seq \ {i}
                /\ RemoveAt(seq, i)[j] = seq[Origin(j, i)]
           /\ \A j, k \in DOMAIN RemoveAt(seq, i) :
                j # k => Origin(j, i) # Origin(k, i)
           /\ \A k \in DOMAIN seq \ {i} :
                \E j \in DOMAIN RemoveAt(seq, i) : Origin(j, i) = k
<1>1. /\ DOMAIN RemoveAt(seq, i) = 1..(Len(seq) - 1)
      /\ DOMAIN seq = 1..Len(seq)
      /\ Len(seq) \in Nat /\ i \in 1..Len(seq)
    BY RemoveAtProperties, LenProperties
<1>2. \A j \in 1..(Len(seq) - 1) : RemoveAt(seq, i)[j] = seq[Origin(j, i)]
    BY RemoveAtProperties DEF Origin
<1>3. ASSUME NEW k \in DOMAIN seq \ {i}
      PROVE  \E j \in DOMAIN RemoveAt(seq, i) : Origin(j, i) = k
  <2>1. CASE k < i
    BY <2>1, <1>1 DEF Origin
  <2>2. CASE k > i
    <3>1. k - 1 \in 1..(Len(seq) - 1) /\ Origin(k - 1, i) = k
        BY <2>2, <1>1 DEF Origin
    <3> QED
        BY <3>1, <1>1
  <2> QED
    BY <2>1, <2>2, <1>1
<1> QED
    BY <1>1, <1>2, <1>3 DEF Origin

(* A removal by hand cannot break either uniqueness. *)
LEMMA UniqueAfterRemoveAt ==
    ASSUME NEW S, NEW seq \in Seq(S), NEW i \in DOMAIN seq
    PROVE  /\ SemanticallyUnique(seq) => SemanticallyUnique(RemoveAt(seq, i))
           /\ UniqueIds(seq) => UniqueIds(RemoveAt(seq, i))
<1> DEFINE new == RemoveAt(seq, i)
<1>1. /\ \A j \in DOMAIN new : Origin(j, i) \in DOMAIN seq /\ new[j] = seq[Origin(j, i)]
      /\ \A j, k \in DOMAIN new : j # k => Origin(j, i) # Origin(k, i)
    BY RemoveAtOrigin
<1> HIDE DEF new
<1>2. SemanticallyUnique(seq) => SemanticallyUnique(new)
    BY <1>1 DEF SemanticallyUnique
<1>3. UniqueIds(seq) => UniqueIds(new)
    BY <1>1 DEF UniqueIds
<1> QED
    BY <1>2, <1>3 DEF new

(* As a set, a list without repetitions loses exactly the removed record. *)
LEMMA RangeOfRemoveAt ==
    ASSUME NEW S, NEW seq \in Seq(S), NEW i \in DOMAIN seq, UniqueIds(seq)
    PROVE  Range(RemoveAt(seq, i)) = Range(seq) \ {seq[i]}
<1> DEFINE new == RemoveAt(seq, i)
<1>1. /\ \A j \in DOMAIN new : Origin(j, i) \in DOMAIN seq \ {i} /\ new[j] = seq[Origin(j, i)]
      /\ \A k \in DOMAIN seq \ {i} : \E j \in DOMAIN new : Origin(j, i) = k
    BY RemoveAtOrigin
<1>2. \A k \in DOMAIN seq \ {i} : seq[k] # seq[i]
    BY DEF UniqueIds
<1> HIDE DEF new
<1>3. Range(new) \subseteq Range(seq) \ {seq[i]}
    BY <1>1, <1>2 DEF Range
<1>4. Range(seq) \ {seq[i]} \subseteq Range(new)
    BY <1>1 DEF Range
<1> QED
    BY <1>3, <1>4 DEF new

-----------------------------------------------------------------------------
(* Derived fields *)

(* A ratio, with zeros before it or not, is read as two numbers. *)
LEMMA RatioIsNumbers ==
    ASSUME NEW ratio \in Seq(Nat), ValidRatio(ratio)
    PROVE  ratio[1] \in Nat /\ ratio[2] \in Nat /\ Numbers(ratio) \in Seq(Nat)
<1>1. Len(ratio) >= 2 /\ DOMAIN ratio = 1 .. Len(ratio)
    BY DEF ValidRatio
<1>2. ratio[1] \in Nat /\ ratio[2] \in Nat
    BY <1>1
<1> QED
    BY <1>2 DEF Numbers

(* derive_impact: the impact of a record is two multipliers and an amount, *)
(* or none.                                                                *)
LEMMA ImpactType ==
    ASSUME NEW a \in Action
    PROVE  DeriveImpact(a) \in Seq(Nat)
<1>1. a.ratio \in Seq(Nat) /\ a.amount \in MaybeAmount
    BY DEF Action
<1>2. CASE a.type \in SplitTypes /\ ValidRatio(a.ratio)
  <2>1. a.ratio[1] \in Nat /\ a.ratio[2] \in Nat
    BY <1>1, <1>2, RatioIsNumbers DEF Numbers
  <2>2. DeriveImpact(a) = <<a.ratio[1], a.ratio[2], 0>>
    BY <1>2 DEF DeriveImpact, SplitTypes, DividendTypes, OtherTypes
  <2> QED
    BY <2>1, <2>2
<1>3. CASE ~(a.type \in SplitTypes /\ ValidRatio(a.ratio))
  <2>1. CASE a.type \in DividendTypes /\ a.amount # None
    <3>1. DeriveImpact(a) = <<1, 1, a.amount>>
        BY <1>3, <2>1 DEF DeriveImpact, SplitTypes, DividendTypes, OtherTypes
    <3> QED
        BY <1>1, <2>1, <3>1 DEF MaybeAmount
  <2>2. CASE ~(a.type \in DividendTypes /\ a.amount # None)
    <3>1. DeriveImpact(a) = <<1, 1, 0>> \/ DeriveImpact(a) = << >>
        BY <1>3, <2>2 DEF DeriveImpact, NoImpact
    <3>2. <<1, 1, 0>> \in Seq(Nat) /\ << >> \in Seq(Nat)
        OBVIOUS
    <3> QED
        BY <3>1, <3>2
  <2> QED
    BY <2>1, <2>2
<1> QED
    BY <1>2, <1>3

(* derive_impacts.py writes records, and writes them again as they are. *)
LEMMA WithImpactsOfRecords ==
    ASSUME NEW seq \in Seq(Action)
    PROVE  /\ WithImpacts(seq) \in Seq(Action)
           /\ WithImpacts(WithImpacts(seq)) = WithImpacts(seq)
<1> DEFINE Derived(a) == [a EXCEPT !.impact = DeriveImpact(a)]
<1>1. \A a \in Action : Derived(a) \in Action
    BY ImpactType DEF Action
<1>2. \A a \in Action : Derived(Derived(a)) = Derived(a)
  <2> SUFFICES ASSUME NEW a \in Action PROVE Derived(Derived(a)) = Derived(a)
    OBVIOUS
  <2>1. /\ Derived(a).type = a.type /\ Derived(a).ratio = a.ratio
        /\ Derived(a).amount = a.amount
    BY DEF Action
  <2>2. DeriveImpact(Derived(a)) = DeriveImpact(a)
    BY <2>1 DEF DeriveImpact
  <2> QED
    BY <1>1, <2>2 DEF Action
<1> HIDE DEF Derived
<1>3. WithImpacts(seq) = [i \in 1..Len(seq) |-> Derived(seq[i])]
    BY DEF WithImpacts, Derived
<1>4. WithImpacts(seq) \in Seq(Action)
    BY <1>1, <1>3
<1>5. WithImpacts(WithImpacts(seq)) = [i \in 1..Len(seq) |-> Derived(WithImpacts(seq)[i])]
    BY <1>3, <1>4 DEF WithImpacts, Derived
<1> QED
    BY <1>2, <1>3, <1>4, <1>5

(* derive_redistribution.py writes records. *)
LEMMA WithRedistributionOfRecords ==
    ASSUME NEW seq \in Seq(Action)
    PROVE  WithRedistribution(seq) \in Seq(Action)
<1>1. \A source : RedistributionFor(source) \in Category
    BY DEF RedistributionFor, Category
<1>2. \A a \in Action : [a EXCEPT !.redistribution = RedistributionFor(a.source)] \in Action
    BY <1>1 DEF Action
<1> QED
    BY <1>2 DEF WithRedistribution

(* rewrite_action_ids.py writes records, as they were but for the id, and  *)
(* the validator accepts a canonical id unless the ratio it is made of has *)
(* leading zeros.                                                          *)
LEMMA RenamedIsRecord ==
    ASSUME NEW a \in Action, HasCanonicalId(a)
    PROVE  /\ Renamed(a) \in Action
           /\ Renamed(a).id = CanonicalId(a)
           /\ IdFormatOK(Renamed(a)) <=> (a.type \in RatioTypes => a.ratio = Numbers(a.ratio))
<1>1. /\ a.isin \in Isin /\ a.type \in ActionType /\ a.eff \in Day
      /\ a.ratio \in Seq(Nat) /\ a.amount \in MaybeAmount
    BY DEF Action
<1>2. AmountKey(a) \in Nat
    BY <1>1 DEF AmountKey, Round4, MaybeAmount
<1>3. Discriminator(a) \in Seq(Nat)
    BY <1>1, <1>2, RatioIsNumbers DEF Discriminator, HasCanonicalId
<1>4. CanonicalId(a) \in Isin \X ActionType \X Day \X Seq(Nat)
    BY <1>1, <1>3 DEF CanonicalId
<1>5. Renamed(a) \in Action /\ Renamed(a).id = CanonicalId(a)
    BY <1>4 DEF Renamed, Action
<1>6. /\ Renamed(a).isin = a.isin /\ Renamed(a).type = a.type /\ Renamed(a).eff = a.eff
      /\ Renamed(a).ratio = a.ratio /\ Renamed(a).amount = a.amount
    BY DEF Renamed, Action
<1>7. AmountKey(Renamed(a)) = AmountKey(a)
    BY <1>6 DEF AmountKey
<1>8. CASE a.type \in RatioTypes
  <2>1. a.ratio # NoRatio
    BY <1>1, <1>8 DEF HasCanonicalId, ValidRatio, NoRatio
  <2>2. CanonicalId(a) = <<a.isin, a.type, a.eff, Numbers(a.ratio)>>
    BY <1>8 DEF CanonicalId, Discriminator
  <2> QED
    BY <1>5, <1>6, <1>8, <2>1, <2>2 DEF IdFormatOK, RatioTypes, SplitTypes, DividendTypes
<1>9. CASE a.type \notin RatioTypes
  <2>1. IdFormatOK(Renamed(a))
    BY <1>5, <1>6, <1>7, <1>9
       DEF IdFormatOK, CanonicalId, Discriminator, RatioTypes, SplitTypes, DividendTypes
  <2> QED
    BY <1>5, <1>9, <2>1
<1> QED
    BY <1>5, <1>8, <1>9

LEMMA WithCanonicalIdsOfRecords ==
    ASSUME NEW seq \in Seq(Action), Rewritable(seq)
    PROVE  /\ WithCanonicalIds(seq) \in Seq(Action)
           /\ DOMAIN WithCanonicalIds(seq) = DOMAIN seq
           /\ UniqueIds(WithCanonicalIds(seq))
<1>0. \A i \in DOMAIN seq : seq[i] \in Action /\ HasCanonicalId(seq[i])
    BY DEF Rewritable
<1>1. /\ WithCanonicalIds(seq) \in Seq(Action)
      /\ DOMAIN WithCanonicalIds(seq) = DOMAIN seq
    BY <1>0, RenamedIsRecord DEF WithCanonicalIds
<1>2. \A i \in DOMAIN seq : WithCanonicalIds(seq)[i].id = CanonicalId(seq[i])
    BY <1>0, RenamedIsRecord DEF WithCanonicalIds
<1> QED
    BY <1>1, <1>2 DEF Rewritable, UniqueIds

-----------------------------------------------------------------------------
(* Identities *)

(* Amounts whose fourth decimals differ by two at most are less than a     *)
(* cent apart.                                                             *)
LEMMA Round4Close ==
    ASSUME NEW x \in Nat, NEW y \in Nat, NEW d \in -2..2, Round4(x) = Round4(y) + d
    PROVE  x - y < AmountEpsilon /\ y - x < AmountEpsilon
    BY DEF Round4, AmountEpsilon

(* Two records with one action_id, as the fetchers build it, are one event *)
(* for the pair test or carry one fuzzy key.                               *)
LEMMA SameIdIsSeen ==
    ASSUME NEW a \in Action, NEW b \in Action, WellFormed(a), WellFormed(b), a.id = b.id
    PROVE  SameEvent(a, b) \/ FuzzyKey(a) = FuzzyKey(b)
<1>1. /\ a \in Action /\ WellFormed(a)
      /\ b \in Action /\ WellFormed(b)
    OBVIOUS
<1>2. /\ NamesRecord(a) /\ NamesRecord(b)
    BY <1>1 DEF WellFormed
<1>3. /\ a.isin = b.isin /\ a.type = b.type /\ a.eff = b.eff
  <2>1. a.id[1] = a.isin /\ a.id[2] = a.type /\ a.id[3] = a.eff
    BY <1>2 DEF NamesRecord
  <2>2. b.id[1] = b.isin /\ b.id[2] = b.type /\ b.id[3] = b.eff
    BY <1>2 DEF NamesRecord
  <2> QED
    BY <2>1, <2>2
<1>4. a.eff \in Nat /\ DaysApart(a, b) = 0 /\ DaysApart(a, b) <= SemanticDays
    BY <1>1, <1>3 DEF Action, Day, DaysApart, SemanticDays
<1>5. a.type \notin DividendTypes => a.ratio = b.ratio
  <2> SUFFICES ASSUME a.type \notin DividendTypes
               PROVE  a.ratio = b.ratio
    OBVIOUS
  <2>1. a.id[4] = a.ratio
    BY <1>2 DEF NamesRecord
  <2>2. b.id[4] = b.ratio
    BY <1>2, <1>3 DEF NamesRecord
  <2> QED
    BY <2>1, <2>2
<1>6. CASE a.type \in DividendTypes
  <2>1. PICK d \in {-1, 0, 1} : a.id = <<a.isin, a.type, a.eff, <<AmountKey(a) + d>>>>
    BY <1>2, <1>6 DEF NamesRecord
  <2>2. PICK e \in {-1, 0, 1} : b.id = <<b.isin, b.type, b.eff, <<AmountKey(b) + e>>>>
    BY <1>2, <1>3, <1>6 DEF NamesRecord
  <2>3. a.amount \in Nat \cup {None} /\ b.amount \in Nat \cup {None}
    BY <1>1 DEF Action, MaybeAmount
  <2>4. /\ CashOf(a) \in Nat /\ CashOf(b) \in Nat
        /\ Round4(CashOf(a)) = AmountKey(a) /\ Round4(CashOf(b)) = AmountKey(b)
        /\ AmountKey(a) \in Int /\ AmountKey(b) \in Int
    BY <2>3 DEF CashOf, AmountKey, None, Round4
  <2>5. AmountKey(a) + d = AmountKey(b) + e
    <3>1. a.id[4][1] = AmountKey(a) + d
        BY <2>1
    <3>2. b.id[4][1] = AmountKey(b) + e
        BY <2>2
    <3> QED
        BY <3>1, <3>2
  <2>6. SameAmount(a, b)
    <3>1. Round4(CashOf(a)) = Round4(CashOf(b)) + (e - d) /\ e - d \in -2..2
        BY <2>4, <2>5
    <3> QED
        BY <2>4, <3>1, Round4Close DEF SameAmount
  <2> QED
    BY <1>3, <1>4, <1>6, <2>6 DEF SameEvent, Family
<1>7. CASE a.type \in SplitTypes
  <2>1. a.ratio = b.ratio /\ a.ratio # NoRatio
    BY <1>1, <1>3, <1>7, <1>5 DEF SplitTypes, DividendTypes, WellFormed
  <2>2. Family(a.type) = "SPLIT" /\ Family(b.type) = "SPLIT"
    BY <1>3, <1>7 DEF Family, SplitTypes, DividendTypes
  <2> QED
    BY <1>3, <1>4, <2>1, <2>2 DEF SameEvent
<1>8. CASE a.type \in OtherTypes
  <2>1. a.ratio = b.ratio
    BY <1>8, <1>5 DEF DividendTypes, OtherTypes
  <2>2. RefDate(a) = a.eff /\ RefDate(b) = b.eff
    BY <1>1, <1>3, <1>8 DEF RefDate, WellFormed
  <2>3. AmountKey(a) = 0 /\ AmountKey(b) = 0
    BY <1>1, <1>3, <1>8 DEF AmountKey, WellFormed
  <2> QED
    BY <1>3, <2>1, <2>2, <2>3 DEF FuzzyKey
<1> QED
    BY <1>1, <1>6, <1>7, <1>8 DEF Action, ActionType

(* So a candidate that is neither known nor a duplicate has an id of its own. *)
LEMMA AcceptedIdIsNew ==
    ASSUME NEW S, \A a \in S : a \in Action /\ WellFormed(a),
           NEW seq \in Seq(S), NEW c \in S,
           UniqueIds(seq),
           FuzzyKey(c) \notin {FuzzyKey(a) : a \in Range(seq)},
           \A a \in Range(seq) : ~SameEvent(a, c)
    PROVE  UniqueIds(Append(seq, c))
<1> DEFINE new == Append(seq, c)
<1>1. DOMAIN new = 1..(Len(seq) + 1) /\ DOMAIN seq = 1..Len(seq) /\ Len(seq) \in Nat
    OBVIOUS
<1>2. \A i \in 1..Len(seq) : new[i] = seq[i] /\ seq[i] \in S
    OBVIOUS
<1>3. new[Len(seq) + 1] = c
    OBVIOUS
<1> HIDE DEF new
<1>4. \A i \in 1..Len(seq) : seq[i].id # c.id
  <2> SUFFICES ASSUME NEW i \in 1..Len(seq), seq[i].id = c.id PROVE FALSE
    OBVIOUS
  <2>1. seq[i] \in S /\ seq[i] \in Range(seq)
    BY <1>1, <1>2 DEF Range
  <2>2. SameEvent(seq[i], c) \/ FuzzyKey(seq[i]) = FuzzyKey(c)
    BY <2>1, SameIdIsSeen
  <2> QED
    BY <2>1, <2>2
<1>5. ASSUME NEW i \in DOMAIN new, NEW j \in DOMAIN new, i # j
      PROVE  new[i].id # new[j].id
  <2>1. CASE i \in 1..Len(seq) /\ j \in 1..Len(seq)
    BY <2>1, <1>1, <1>2, <1>5 DEF UniqueIds
  <2>2. CASE i = Len(seq) + 1 /\ j \in 1..Len(seq)
    BY <2>2, <1>2, <1>3, <1>4
  <2>3. CASE j = Len(seq) + 1 /\ i \in 1..Len(seq)
    BY <2>3, <1>2, <1>3, <1>4
  <2> QED
    BY <2>1, <2>2, <2>3, <1>1, <1>5
<1> QED
    BY <1>5 DEF new, UniqueIds
=============================================================================
