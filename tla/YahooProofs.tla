---------------------------- MODULE YahooProofs ----------------------------
(***************************************************************************)
(* Theorems about YahooFetch for every market, every list of instruments   *)
(* and any number of passes, failures and kills.                           *)
(***************************************************************************)
EXTENDS YahooFetch, RegistryProofs, FiniteSetTheorems

-----------------------------------------------------------------------------
(* Numbers *)

(* The amount rounded twice and the amount rounded once differ by at most  *)
(* one in the fourth decimal.                                              *)
LEMMA TwoRoundings ==
    ASSUME NEW cash \in Nat
    PROVE  /\ Rounded6(cash) \in Nat /\ IdAmount(cash) \in Nat
           /\ \E d \in {-1, 0, 1} : IdAmount(cash) = Round4(Rounded6(cash)) + d
<1>1. Rounded6(cash) \in Nat /\ IdAmount(cash) \in Nat
    BY DEF Rounded6, IdAmount
<1>2. Round4(Rounded6(cash)) \in {IdAmount(cash), IdAmount(cash) + 1}
    BY DEF Rounded6, IdAmount, Round4
<1> QED
    BY <1>1, <1>2

(* What is left of a number of shares or of an amount is a number again. *)
LEMMA QuotientIsNat ==
    ASSUME NEW a \in Nat, NEW b \in Nat, NEW c \in Nat \ {0}
    PROVE  (a * b) \div c \in Nat
<1>1. a * b \in Nat
    OBVIOUS
<1> QED
    BY <1>1

(* Every fraction tried for a ratio is a pair of numbers. *)
LEMMA FractionsAreRatios ==
    ASSUME NEW new \in Nat \ {0}, NEW old \in Nat \ {0}
    PROVE  Fractions(new, old) \subseteq Nat \X Nat
<1>1. \A d \in 1..MaxDenominator : d \in Nat /\ (new * d) \div old \in Nat
    BY QuotientIsNat, FetcherAssumption
<1> QED
    BY <1>1 DEF Fractions

(* A payment of nothing stays one. *)
LEMMA NothingRescaled ==
    ASSUME NEW b \in Nat, NEW c \in Nat \ {0}
    PROVE  (0 * b) \div c = 0
<1>1. 0 * b = 0
    OBVIOUS
<1> QED
    BY <1>1

(* limit_denominator: no two fractions are both the best ... *)
LEMMA OneFraction ==
    ASSUME NEW new \in Nat \ {0}, NEW old \in Nat \ {0}, <<new, old>> \in DOMAIN RatioToString,
           NEW f \in RatioToString[<<new, old>>], NEW g \in RatioToString[<<new, old>>]
    PROVE  f = g
<1> DEFINE df == Distance(f[1] * old, f[2] * new) * g[2]
           dg == Distance(g[1] * old, g[2] * new) * f[2]
<1>1. f \in Nat \X Nat /\ g \in Nat \X Nat
    BY FractionsAreRatios DEF RatioToString
<1>2. df \in Int /\ dg \in Int
    BY <1>1 DEF Distance
<1>3. AsGood(f, g, new, old) /\ AsGood(g, f, new, old)
    BY DEF RatioToString
<1>4. /\ df < dg \/ (df = dg /\ (f[2] < g[2] \/ (f[2] = g[2] /\ f[1] <= g[1])))
      /\ dg < df \/ (dg = df /\ (g[2] < f[2] \/ (g[2] = f[2] /\ g[1] <= f[1])))
    BY <1>3 DEF AsGood
<1> HIDE DEF df, dg
<1>5. f[1] = g[1] /\ f[2] = g[2]
    BY <1>1, <1>2, <1>4
<1> QED
    BY <1>1, <1>5

(* ... and a ratio that can be written is its own. *)
LEMMA ExactFraction ==
    ASSUME NEW new \in Nat \ {0}, NEW old \in Nat \ {0}, <<new, old>> \in DOMAIN RatioToString,
           NEW f \in RatioToString[<<new, old>>], old <= MaxDenominator
    PROVE  f[1] * old = f[2] * new
<1>1. f \in Nat \X Nat
    BY FractionsAreRatios DEF RatioToString
<1>2. (new * old) \div old = new
    OBVIOUS
<1>3. <<new, old>> \in Fractions(new, old)
    BY <1>2, FetcherAssumption DEF Fractions
<1>4. AsGood(f, <<new, old>>, new, old)
    BY <1>3 DEF RatioToString
<1>5. Distance(new * old, old * new) * f[2] = 0
  <2>1. new * old = old * new /\ new * old \in Nat
    OBVIOUS
  <2>2. Distance(new * old, old * new) = 0
    BY <2>1 DEF Distance
  <2> QED
    BY <1>1, <2>2
<1>6. Distance(f[1] * old, f[2] * new) \in Nat
    BY <1>1 DEF Distance
<1>7. Distance(f[1] * old, f[2] * new) * old <= 0
    BY <1>4, <1>5, <1>6 DEF AsGood
<1>8. Distance(f[1] * old, f[2] * new) = 0
    BY <1>6, <1>7
<1>9. f[1] * old \in Nat /\ f[2] * new \in Nat
    BY <1>1
<1> QED
    BY <1>8, <1>9 DEF Distance

-----------------------------------------------------------------------------
(* Records *)

Payment == [isin : Isin, day : Nat, cash : Nat]
Split   == {s \in [isin : Isin, day : Nat, new : Nat \ {0}, old : Nat \ {0}] :
               <<s.isin, s.new, s.old>> \in Ratios}
Record  == {r \in Action : WellFormed(r)}
Batch   == {records \in SUBSET Record : IsFiniteSet(records)}

(* Whatever Yahoo gives for a payment, its record is named after it. *)
LEMMA DividendRecordIsRecord ==
    ASSUME NEW p \in Payment
    PROVE  DividendRecord(p) \in Record
<1> DEFINE r == DividendRecord(p)
<1>1. p.isin \in Isin /\ p.day \in Nat /\ p.cash \in Nat
    BY DEF Payment
<1>2. Rounded6(p.cash) \in Nat /\ IdAmount(p.cash) \in Nat
    BY <1>1, TwoRoundings
<1>3. /\ r.isin = p.isin /\ r.type = "DIVIDEND" /\ r.eff = p.day
      /\ r.amount = Rounded6(p.cash) /\ r.ratio = NoRatio
      /\ r.id = <<p.isin, "DIVIDEND", p.day, <<IdAmount(p.cash)>>>>
    BY DEF DividendRecord
<1>4. r \in Action
  <2>1. r.impact \in Seq(Nat) /\ NoRatio \in Seq(Nat) /\ <<IdAmount(p.cash)>> \in Seq(Nat)
    BY <1>2 DEF DividendRecord, NoRatio
  <2>2. "DIVIDEND" \in ActionType
    BY DEF ActionType, DividendTypes
  <2>3. <<p.isin, "DIVIDEND", p.day, <<IdAmount(p.cash)>>>> \in Isin \X ActionType \X Day \X Seq(Nat)
    BY <1>1, <2>1, <2>2 DEF Day
  <2> QED
    BY <1>1, <1>2, <2>1, <2>2, <2>3
       DEF DividendRecord, Action, Day, MaybeDay, MaybeAmount, Source, Category
<1>5. AmountKey(r) = Round4(Rounded6(p.cash))
    BY <1>2, <1>3 DEF AmountKey, None
<1>6. NamesRecord(r)
    BY <1>1, <1>3, <1>5, TwoRoundings DEF NamesRecord, DividendTypes
<1>7. WellFormed(r)
    BY <1>3, <1>6 DEF WellFormed, SplitTypes, OtherTypes
<1> QED
    BY <1>4, <1>7 DEF Record

(* Whatever fraction stands for the ratio of a split, the record has it    *)
(* in its ratio and in its id.                                             *)
LEMMA SplitRecordIsRecord ==
    ASSUME NEW s \in Split, NEW f \in RatioOf(s)
    PROVE  SplitRecord(s, f) \in Record
<1> DEFINE r == SplitRecord(s, f)
<1>1. /\ s.isin \in Isin /\ s.day \in Nat
      /\ s.new \in Nat \ {0} /\ s.old \in Nat \ {0}
      /\ <<s.isin, s.new, s.old>> \in Ratios
    BY DEF Split
<1>2. f \in Nat \X Nat
  <2>1. <<s.new, s.old>> \in {<<x[2], x[3]>> : x \in Ratios}
    BY <1>1
  <2>2. RatioOf(s) \subseteq Fractions(s.new, s.old)
    BY <2>1 DEF RatioOf, RatioToString
  <2> QED
    BY <1>1, <2>2, FractionsAreRatios
<1>3. PICK n \in Nat, d \in Nat : f = <<n, d>>
    BY <1>2
<1>4. /\ r.isin = s.isin /\ r.type = "SPLIT" /\ r.eff = s.day
      /\ r.amount = None /\ r.ratio = <<n, d>>
      /\ r.id = <<s.isin, "SPLIT", s.day, <<n, d>>>>
    BY <1>3 DEF SplitRecord
<1>5. r \in Action
  <2>1. r.impact \in Seq(Nat) /\ <<n, d>> \in Seq(Nat)
    BY <1>3 DEF SplitRecord
  <2>2. "SPLIT" \in ActionType
    BY DEF ActionType, SplitTypes
  <2>3. <<s.isin, "SPLIT", s.day, <<n, d>>>> \in Isin \X ActionType \X Day \X Seq(Nat)
    BY <1>1, <2>1, <2>2 DEF Day
  <2> QED
    BY <1>1, <1>3, <2>1, <2>2, <2>3
       DEF SplitRecord, Action, Day, MaybeDay, MaybeAmount, Source, Category
<1>6. r.ratio # NoRatio
    BY <1>4 DEF NoRatio
<1>7. NamesRecord(r)
    BY <1>4 DEF NamesRecord, DividendTypes
<1>8. WellFormed(r)
    BY <1>4, <1>6, <1>7 DEF WellFormed, SplitTypes, OtherTypes
<1> QED
    BY <1>5, <1>8 DEF Record

-----------------------------------------------------------------------------
(* The market *)

(* One payment and one split of an instrument on a day at most, and none   *)
(* in the future.                                                          *)
Calendar ==
    /\ \A p \in payments : p.day <= today
    /\ \A s \in splits : s.day <= today
    /\ \A p, q \in payments : p.isin = q.isin /\ p.day = q.day => p = q
    /\ \A s, r \in splits : s.isin = r.isin /\ s.day = r.day => s = r

MarketOK ==
    /\ today \in Nat
    /\ payments \subseteq Payment /\ IsFiniteSet(payments)
    /\ splits \subseteq Split /\ IsFiniteSet(splits)
    /\ Calendar

(* A record is of an event of the market: of a split as it was, of a       *)
(* payment as Yahoo gives it today or, after a split, in whatever amount.  *)
KnownDividend(r) ==
    /\ r.type = "DIVIDEND" /\ r.ratio = NoRatio /\ r.eff = r.ex
    /\ \E p \in payments :
          /\ p.isin = r.isin /\ p.day = r.ex
          /\ SplitAfter(p.isin, p.day) \/ r = DividendRecord(p)

KnownSplit(r) == \E s \in splits : \E f \in RatioOf(s) : r = SplitRecord(s, f)

Known(r) == KnownDividend(r) \/ KnownSplit(r)

(* The fields of a split, which has one fraction at most. *)
LEMMA SplitFacts ==
    ASSUME NEW s \in Split
    PROVE  /\ s.isin \in Isin /\ s.day \in Nat
           /\ s.new \in Nat \ {0} /\ s.old \in Nat \ {0}
           /\ <<s.new, s.old>> \in DOMAIN RatioToString
           /\ \A f, g \in RatioOf(s) : f = g
<1>1. /\ s.isin \in Isin /\ s.day \in Nat
      /\ s.new \in Nat \ {0} /\ s.old \in Nat \ {0}
      /\ <<s.isin, s.new, s.old>> \in Ratios
    BY DEF Split
<1>2. <<s.new, s.old>> \in DOMAIN RatioToString
  <2>1. <<s.new, s.old>> \in {<<x[2], x[3]>> : x \in Ratios}
    BY <1>1
  <2> QED
    BY <2>1 DEF RatioToString
<1>3. \A f, g \in RatioOf(s) : f = g
    BY <1>1, <1>2, OneFraction DEF RatioOf
<1> QED
    BY <1>1, <1>2, <1>3

(* FS_Image, for a function. *)
LEMMA ImageIsFinite ==
    ASSUME NEW S, IsFiniteSet(S), NEW f, DOMAIN f = S
    PROVE  IsFiniteSet({f[x] : x \in S})
<1> DEFINE T == {f[x] : x \in S}
           g == [x \in S |-> f[x]]
<1>1. g \in Surjection(S, T)
    BY DEF Surjection
<1> QED
    BY <1>1, FS_Surjection

(* The answer to a request: finitely many records, of events of the market.*)
LEMMA DividendsOf ==
    ASSUME MarketOK, NEW isin
    PROVE  /\ Dividends(isin) \in Batch
           /\ \A r \in Dividends(isin) : Known(r)
<1> DEFINE S == {q \in payments : InScope(q, isin) /\ q.cash > 0}
           f == [p \in S |-> DividendRecord(p)]
<1>1. IsFiniteSet(S)
    BY FS_Subset DEF MarketOK
<1>2. Dividends(isin) = {f[p] : p \in S}
    BY DEF Dividends
<1>3. IsFiniteSet(Dividends(isin))
  <2> HIDE DEF S
  <2>1. DOMAIN f = S
    OBVIOUS
  <2> HIDE DEF f
  <2> QED
    BY <1>1, <1>2, <2>1, ImageIsFinite
<1>4. Dividends(isin) \subseteq Record
    BY DividendRecordIsRecord DEF MarketOK, Dividends
<1>5. ASSUME NEW r \in Dividends(isin) PROVE Known(r)
  <2>1. PICK p \in payments : r = DividendRecord(p)
    BY <1>5 DEF Dividends
  <2> QED
    BY <2>1 DEF Known, KnownDividend, DividendRecord
<1> QED
    BY <1>3, <1>4, <1>5 DEF Batch

(* A split gives one record, if any. *)
LEMMA SplitsOf ==
    ASSUME MarketOK, NEW isin
    PROVE  /\ Splits(isin) \in Batch
           /\ \A r \in Splits(isin) : Known(r)
<1> DEFINE f == [s \in splits |-> SplitRecord(s, CHOOSE x \in RatioOf(s) : TRUE)]
<1>1. \A r \in Splits(isin) : \E s \in splits : \E x \in RatioOf(s) : r = SplitRecord(s, x)
    BY DEF Splits
<1>2. ASSUME NEW r \in Splits(isin) PROVE r \in {f[s] : s \in splits}
  <2>1. PICK s \in splits : \E x \in RatioOf(s) : r = SplitRecord(s, x)
    BY <1>1, <1>2
  <2>2. PICK x \in RatioOf(s) : r = SplitRecord(s, x)
    BY <2>1
  <2>3. x = CHOOSE z \in RatioOf(s) : TRUE
    BY <2>2, SplitFacts DEF MarketOK
  <2> QED
    BY <2>2, <2>3
<1>3. IsFiniteSet({f[s] : s \in splits})
  <2>1. DOMAIN f = splits /\ IsFiniteSet(splits)
    BY DEF MarketOK
  <2> HIDE DEF f
  <2> QED
    BY <2>1, ImageIsFinite
<1>4. IsFiniteSet(Splits(isin))
  <2> HIDE DEF f
  <2> QED
    BY <1>2, <1>3, FS_Subset
<1>5. Splits(isin) \subseteq Record
    BY <1>1, SplitRecordIsRecord DEF MarketOK
<1> QED
    BY <1>1, <1>4, <1>5 DEF Batch, Known, KnownSplit

(* Both together. *)
LEMMA AnswerIsBatch ==
    ASSUME MarketOK, NEW isin
    PROVE  /\ Dividends(isin) \cup Splits(isin) \in Batch
           /\ \A r \in Dividends(isin) \cup Splits(isin) : Known(r)
    BY DividendsOf, SplitsOf, FS_Union DEF Batch

(* The fields of the record of a split. *)
LEMMA SplitRecordFields ==
    ASSUME NEW s, NEW f
    PROVE  LET r == SplitRecord(s, f)
           IN  /\ r.isin = s.isin /\ r.type = "SPLIT" /\ r.ex = s.day /\ r.eff = s.day
               /\ r.ratio = f
    BY DEF SplitRecord

(* The fields of a record of an event. *)
LEMMA KnownFields ==
    ASSUME MarketOK, NEW r, Known(r)
    PROVE  /\ r.ex \in Nat /\ RefDate(r) = r.ex /\ r.eff = r.ex
           /\ \/ r.type = "DIVIDEND" /\ Family(r.type) = "DIVIDEND"
              \/ r.type = "SPLIT" /\ Family(r.type) = "SPLIT"
           /\ r.type = "DIVIDEND" <=> KnownDividend(r)
           /\ r.type = "SPLIT" <=> KnownSplit(r)
<1>1. ASSUME KnownDividend(r) PROVE r.type = "DIVIDEND" /\ r.ex \in Nat /\ r.eff = r.ex
    BY <1>1 DEF KnownDividend, MarketOK, Payment
<1>2. ASSUME KnownSplit(r) PROVE r.type = "SPLIT" /\ r.ex \in Nat /\ r.eff = r.ex
  <2>1. PICK s \in splits : \E f \in RatioOf(s) : r = SplitRecord(s, f)
    BY <1>2 DEF KnownSplit
  <2>2. s.day \in Nat
    BY SplitFacts DEF MarketOK
  <2> QED
    BY <2>1, <2>2, SplitRecordFields
<1>3. r.ex \in Nat => RefDate(r) = r.ex
    BY DEF RefDate, None
<1> QED
    BY <1>1, <1>2, <1>3 DEF Known, Family, DividendTypes, SplitTypes

(* Two records of an instrument, a type and a day are one, unless a split  *)
(* has rescaled a payment.                                                 *)
LEMMA OneRecordPerEvent ==
    ASSUME MarketOK, NEW a, NEW b, Known(a), Known(b),
           a.isin = b.isin, Family(a.type) = Family(b.type), a.ex = b.ex
    PROVE  a = b \/ (a.type = "DIVIDEND" /\ SplitAfter(a.isin, a.ex))
<1>1. CASE KnownSplit(a)
  <2>1. KnownSplit(b)
    BY <1>1, KnownFields
  <2>2. PICK s \in splits : \E f \in RatioOf(s) : a = SplitRecord(s, f)
    BY <1>1 DEF KnownSplit
  <2>3. PICK r \in splits : \E g \in RatioOf(r) : b = SplitRecord(r, g)
    BY <2>1 DEF KnownSplit
  <2>4. s = r
    BY <2>2, <2>3, SplitRecordFields DEF MarketOK, Calendar
  <2>5. \A f, g \in RatioOf(s) : f = g
    BY SplitFacts DEF MarketOK
  <2> QED
    BY <2>2, <2>3, <2>4, <2>5
<1>2. CASE KnownDividend(a)
  <2>1. KnownDividend(b)
    BY <1>2, KnownFields
  <2>2. PICK p \in payments : /\ p.isin = a.isin /\ p.day = a.ex
                              /\ SplitAfter(p.isin, p.day) \/ a = DividendRecord(p)
    BY <1>2 DEF KnownDividend
  <2>3. PICK q \in payments : /\ q.isin = b.isin /\ q.day = b.ex
                              /\ SplitAfter(q.isin, q.day) \/ b = DividendRecord(q)
    BY <2>1 DEF KnownDividend
  <2>4. p = q
    BY <2>2, <2>3 DEF MarketOK, Calendar
  <2> QED
    BY <1>2, <2>2, <2>3, <2>4 DEF KnownDividend
<1> QED
    BY <1>1, <1>2 DEF Known

(* For records of events the reject list's key is as fine as the merge's.  *)
LEMMA RejectKeyIsFuzzyKey ==
    ASSUME MarketOK, NEW a, NEW b, Known(a), Known(b), RejectKey(a) = RejectKey(b)
    PROVE  FuzzyKey(a) = FuzzyKey(b)
<1>1. /\ a.isin = b.isin /\ Family(a.type) = Family(b.type)
      /\ RefDate(a) = RefDate(b) /\ AmountKey(a) = AmountKey(b)
    BY DEF RejectKey
<1>2. a.ex = b.ex /\ a.type = b.type
    BY <1>1, KnownFields
<1>3. CASE a.type = "SPLIT"
    BY <1>1, <1>2, <1>3, OneRecordPerEvent
<1>4. CASE a.type = "DIVIDEND"
  <2>1. a.ratio = b.ratio
    BY <1>2, <1>4, KnownFields DEF KnownDividend
  <2> QED
    BY <1>1, <1>2, <2>1 DEF FuzzyKey
<1> QED
    BY <1>3, <1>4, KnownFields

(* What a day of the market leaves: today's event is new, the others keep  *)
(* their instrument and day, and no payment of nothing becomes one.        *)
MarketMoves ==
    /\ today < today'
    /\ \A p \in payments' :
          \/ p.day = today'
          \/ \E q \in payments : q.isin = p.isin /\ q.day = p.day /\ (p.cash > 0 => q.cash > 0)
    /\ \A s \in splits' : s \in splits \/ s.day = today'
    /\ \A r \in Record : Known(r) => Known(r)'

(* A payment adds one event ... *)
LEMMA PayMoves ==
    ASSUME MarketOK, NEW x \in Payouts, Pay(x[1], x[2])
    PROVE  MarketOK' /\ MarketMoves
<1> DEFINE new == [isin |-> x[1], day |-> today', cash |-> x[2]]
<1>1. today' \in Nat /\ today < today'
    BY MarketAssumption DEF Pay, DayPasses, MarketOK
<1>2. new \in Payment /\ new.day = today'
    BY <1>1, MarketAssumption DEF Payment
<1>3. payments' = payments \cup {new} /\ splits' = splits
    BY DEF Pay
<1> HIDE DEF new
<1>4. IsFiniteSet(payments')
    BY <1>3, FS_AddElement DEF MarketOK
<1>5. \A p \in payments : p.day \in Nat /\ p.day <= today
    BY DEF MarketOK, Calendar, Payment
<1>6. \A s \in splits : s.day \in Nat /\ s.day <= today
    BY DEF MarketOK, Calendar, Split
<1>7. Calendar'
  <2>1. \A p \in payments' : p.day <= today'
    BY <1>1, <1>2, <1>3, <1>5 DEF MarketOK
  <2>2. \A s \in splits' : s.day <= today'
    BY <1>1, <1>3, <1>6 DEF MarketOK
  <2>3. \A p \in payments : p.day # today'
    BY <1>1, <1>5 DEF MarketOK
  <2>4. \A p, q \in payments' : p.isin = q.isin /\ p.day = q.day => p = q
    BY <1>2, <1>3, <2>3 DEF MarketOK, Calendar
  <2> QED
    BY <1>3, <2>1, <2>2, <2>4 DEF MarketOK, Calendar
<1>8. \A r \in Record : Known(r) => Known(r)'
    BY <1>3 DEF Known, KnownDividend, KnownSplit, SplitAfter
<1> QED
    BY <1>1, <1>2, <1>3, <1>4, <1>7, <1>8 DEF MarketOK, MarketMoves

(* ... and so does a split, which changes amounts but not from nothing.   *)
LEMMA SplitMoves ==
    ASSUME MarketOK, NEW x \in Ratios, SplitShares(x[1], x[2], x[3])
    PROVE  MarketOK' /\ MarketMoves
<1> DEFINE new == [isin |-> x[1], day |-> today', new |-> x[2], old |-> x[3]]
           f == [p \in payments |-> IF p.isin = x[1] THEN Rescaled(p, x[2], x[3]) ELSE p]
<1>1. today' \in Nat /\ today < today'
    BY MarketAssumption DEF SplitShares, DayPasses, MarketOK
<1>2. x[1] \in Isin /\ x[2] \in Nat \ {0} /\ x[3] \in Nat \ {0} /\ x = <<x[1], x[2], x[3]>>
    BY MarketAssumption
<1>3. new \in Split /\ new.day = today' /\ new.isin = x[1]
    BY <1>1, <1>2 DEF Split
<1>4. splits' = splits \cup {new} /\ payments' = {f[p] : p \in payments}
    BY DEF SplitShares
<1>5. ASSUME NEW p \in payments
      PROVE  /\ p \in Payment /\ f[p] \in Payment
             /\ f[p].isin = p.isin /\ f[p].day = p.day
             /\ f[p].cash > 0 => p.cash > 0
             /\ p.isin # x[1] => f[p] = p
  <2>1. p \in Payment /\ p.isin \in Isin /\ p.day \in Nat /\ p.cash \in Nat
    BY DEF MarketOK, Payment
  <2>2. (p.cash * x[3]) \div x[2] \in Nat
    BY <1>2, <2>1, QuotientIsNat
  <2>3. p.cash = 0 => (p.cash * x[3]) \div x[2] = 0
    BY <1>2, NothingRescaled
  <2>4. p.isin # x[1] => f[p] = p
    OBVIOUS
  <2>5. p.isin = x[1] => f[p] = [p EXCEPT !.cash = (p.cash * x[3]) \div x[2]]
    BY DEF Rescaled
  <2> HIDE DEF f
  <2> QED
    BY <2>1, <2>2, <2>3, <2>4, <2>5 DEF Payment
<1>6. IsFiniteSet(payments') /\ IsFiniteSet(splits')
  <2>1. DOMAIN f = payments /\ IsFiniteSet(payments) /\ IsFiniteSet(splits)
    BY DEF MarketOK
  <2> HIDE DEF f, new
  <2>2. IsFiniteSet(payments')
    BY <1>4, <2>1, ImageIsFinite
  <2>3. IsFiniteSet(splits')
    BY <1>4, <2>1, FS_AddElement
  <2> QED
    BY <2>2, <2>3
<1> HIDE DEF new, f
<1>7. \A p \in payments : p.day \in Nat /\ p.day <= today
    BY DEF MarketOK, Calendar, Payment
<1>8. \A s \in splits : s.day \in Nat /\ s.day <= today
    BY DEF MarketOK, Calendar, Split
<1>9. \A p \in payments' : \E q \in payments :
          p = f[q] /\ q.isin = p.isin /\ q.day = p.day /\ (p.cash > 0 => q.cash > 0)
    BY <1>4, <1>5
<1>10. Calendar'
  <2>1. \A p \in payments' : p.day <= today'
    BY <1>1, <1>7, <1>9 DEF MarketOK
  <2>2. \A s \in splits' : s.day <= today'
    BY <1>1, <1>3, <1>4, <1>8 DEF MarketOK
  <2>3. \A s \in splits : s.day # today'
    BY <1>1, <1>8 DEF MarketOK
  <2>4. \A s, r \in splits' : s.isin = r.isin /\ s.day = r.day => s = r
    BY <1>3, <1>4, <2>3 DEF MarketOK, Calendar
  <2>5. \A p, q \in payments' : p.isin = q.isin /\ p.day = q.day => p = q
    BY <1>9 DEF MarketOK, Calendar
  <2> QED
    BY <2>1, <2>2, <2>4, <2>5 DEF Calendar
<1>11. ASSUME NEW r \in Record, KnownDividend(r) PROVE KnownDividend(r)'
  <2>1. PICK p \in payments : /\ p.isin = r.isin /\ p.day = r.ex
                              /\ SplitAfter(p.isin, p.day) \/ r = DividendRecord(p)
    BY <1>11 DEF KnownDividend
  <2>2. f[p] \in payments' /\ f[p].isin = r.isin /\ f[p].day = r.ex
    BY <1>4, <1>5, <2>1
  <2>3. SplitAfter(p.isin, p.day) => SplitAfter(p.isin, p.day)'
    BY <1>4 DEF SplitAfter
  <2>4. CASE p.isin = x[1]
    <3>1. new.isin = p.isin /\ new.day > p.day
        BY <1>1, <1>3, <1>7, <2>4 DEF MarketOK
    <3>2. SplitAfter(p.isin, p.day)'
        BY <1>4, <3>1 DEF SplitAfter
    <3> QED
        BY <1>11, <2>1, <2>2, <3>2 DEF KnownDividend
  <2>5. CASE p.isin # x[1]
    <3>1. f[p] = p
        BY <1>5, <2>5
    <3> QED
        BY <1>11, <2>1, <2>2, <2>3, <3>1 DEF KnownDividend
  <2> QED
    BY <2>4, <2>5
<1>12. \A r \in Record : Known(r) => Known(r)'
    BY <1>4, <1>11 DEF Known, KnownSplit
<1>13. \A p \in payments' : p \in Payment
    BY <1>4, <1>5
<1> QED
    BY <1>1, <1>3, <1>4, <1>6, <1>9, <1>10, <1>12, <1>13 DEF MarketOK, MarketMoves

-----------------------------------------------------------------------------
(* The invariant *)

(* The variables of a pass fit its place, and its records are of events.   *)
PassOK ==
    /\ chunk \in Seq(Isin) /\ since \in Nat /\ since <= today
    /\ answers \in Seq(Batch)
    /\ \A i \in DOMAIN answers : \A r \in answers[i] : Known(r)
    /\ pos \in 1..(Len(chunk) + 1) /\ Len(answers) <= pos - 1
    /\ pc = "idle" => pos = 1
    /\ pc = "fetch" => pos <= Len(chunk)
    /\ pc \in {"write", "exit"} => pos = Len(chunk) + 1
    /\ pc = "exit" => output \in Seq(Record) /\ Range(output) = Unique

(* As long as no ticker has failed, the answers hold every event of the    *)
(* instruments asked so far that had happened when the pass began.         *)
Covered ==
    Len(answers) = pos - 1 =>
        \A k \in DOMAIN answers :
            /\ \A p \in payments :
                 InScope(p, chunk[k]) /\ p.day <= since /\ p.cash > 0 =>
                     \E r \in answers[k] :
                         r.isin = p.isin /\ r.type = "DIVIDEND" /\ r.ex = p.day
            /\ \A s \in splits :
                 InScope(s, chunk[k]) /\ s.day <= since /\ RatioOf(s) # {} =>
                     \E r \in answers[k] :
                         r.isin = s.isin /\ r.type = "SPLIT" /\ r.ex = s.day

(* A registry of events, none of them barred, no fuzzy key twice. *)
Clean(seq, keys) ==
    /\ seq \in Seq(Record)
    /\ \A i \in DOMAIN seq : Known(seq[i]) /\ RejectKey(seq[i]) \notin keys
    /\ \A i, j \in DOMAIN seq : i # j => FuzzyKey(seq[i]) # FuzzyKey(seq[j])

OutputOK ==
    \/ output \in {Missing, Torn}
    \/ output \in Seq(Record) /\ \A i \in DOMAIN output : Known(output[i])

BarredKnown == \A key \in barred : \E r \in Record : Known(r) /\ key = RejectKey(r)

IInv == MarketOK /\ PassOK /\ Covered /\ OutputOK /\ Clean(registry, barred) /\ BarredKnown

(* No events, no files, no pass. *)
LEMMA InitIInv == Init => IInv
<1> SUFFICES ASSUME Init PROVE IInv
    OBVIOUS
<1>1. MarketOK
    BY FS_EmptySet DEF Init, MarketOK, Calendar
<1>2. PassOK /\ Covered
    BY DEF Init, PassOK, Covered
<1>3. OutputOK /\ Clean(registry, barred) /\ BarredKnown
    BY DEF Init, OutputOK, Clean, BarredKnown
<1> QED
    BY <1>1, <1>2, <1>3 DEF IInv

(* What is known stays known, so a day of the market disturbs nothing.     *)
LEMMA MarketKeepsIInv ==
    ASSUME IInv, MarketOK', MarketMoves, UNCHANGED <<files, pc, locals>>
    PROVE  IInv'
<1> USE DEF files, locals
<1>1. MarketOK /\ today \in Nat /\ today' \in Nat /\ today < today'
    BY DEF IInv, MarketOK, MarketMoves
<1>2. PassOK'
  <2>1. \A i \in DOMAIN answers : \A r \in answers[i] : r \in Record
    BY DEF IInv, PassOK, Batch
  <2>2. \A i \in DOMAIN answers : \A r \in answers[i] : Known(r)'
    BY <2>1 DEF IInv, PassOK, MarketMoves
  <2>3. since' <= today'
    BY <1>1 DEF IInv, PassOK
  <2>4. Unique' = Unique
    BY DEF Unique
  <2> QED
    BY <2>2, <2>3, <2>4 DEF IInv, PassOK
<1>3. Covered'
  <2> SUFFICES ASSUME Len(answers) = pos - 1, NEW k \in DOMAIN answers
               PROVE  /\ \A p \in payments' :
                           InScope(p, chunk[k]) /\ p.day <= since /\ p.cash > 0 =>
                             \E r \in answers[k] :
                               r.isin = p.isin /\ r.type = "DIVIDEND" /\ r.ex = p.day
                      /\ \A s \in splits' :
                           InScope(s, chunk[k]) /\ s.day <= since /\ RatioOf(s) # {} =>
                             \E r \in answers[k] :
                               r.isin = s.isin /\ r.type = "SPLIT" /\ r.ex = s.day
    BY DEF Covered
  <2>1. ~(today' <= since)
    BY <1>1 DEF IInv, PassOK
  <2>2. ASSUME NEW p \in payments', InScope(p, chunk[k]), p.day <= since, p.cash > 0
        PROVE  \E r \in answers[k] : r.isin = p.isin /\ r.type = "DIVIDEND" /\ r.ex = p.day
    <3>1. PICK q \in payments : q.isin = p.isin /\ q.day = p.day /\ q.cash > 0
        BY <2>1, <2>2 DEF MarketMoves
    <3>2. InScope(q, chunk[k])
        BY <2>2, <3>1 DEF InScope
    <3> QED
        BY <2>2, <3>1, <3>2 DEF IInv, Covered
  <2>3. ASSUME NEW s \in splits', InScope(s, chunk[k]), s.day <= since, RatioOf(s) # {}
        PROVE  \E r \in answers[k] : r.isin = s.isin /\ r.type = "SPLIT" /\ r.ex = s.day
    BY <2>1, <2>3 DEF MarketMoves, IInv, Covered
  <2> QED
    BY <2>2, <2>3
<1>4. OutputOK'
    BY DEF IInv, OutputOK, MarketMoves
<1>5. Clean(registry, barred)'
  <2>1. \A i \in DOMAIN registry : registry[i] \in Record
    BY DEF IInv, Clean
  <2> QED
    BY <2>1 DEF IInv, Clean, MarketMoves
<1>6. BarredKnown'
    BY DEF IInv, BarredKnown, MarketMoves
<1> QED
    BY <1>2, <1>3, <1>4, <1>5, <1>6 DEF IInv

(* While the market rests, what is known is what was known. *)
LEMMA MarketRests ==
    ASSUME UNCHANGED market
    PROVE  /\ MarketOK' <=> MarketOK
           /\ \A r : Known(r)' <=> Known(r)
    BY DEF market, MarketOK, Calendar, Known, KnownDividend, KnownSplit, SplitAfter

(* A step of a pass leaves the registry, a step of the registry the pass.  *)
LEMMA PassStep ==
    ASSUME IInv, UNCHANGED <<market, registry, barred>>, PassOK', Covered', OutputOK'
    PROVE  IInv'
<1>1. MarketOK' /\ \A r : Known(r)' <=> Known(r)
    BY MarketRests DEF IInv
<1>2. Clean(registry, barred)' /\ BarredKnown'
    BY <1>1 DEF IInv, Clean, BarredKnown
<1> QED
    BY <1>1, <1>2 DEF IInv

(* The process is over. *)
LEMMA ExitKeepsIInv ==
    ASSUME IInv, Exit, UNCHANGED <<market, files>>
    PROVE  IInv'
<1> USE DEF files
<1>1. PassOK'
    BY DEF Exit, IInv, PassOK, MarketOK, market
<1>2. Covered'
    BY DEF Exit, Covered
<1>3. OutputOK'
    BY MarketRests DEF IInv, OutputOK
<1> QED
    BY <1>1, <1>2, <1>3, PassStep

(* --ticker-offset and --ticker-limit cut a list out of the list.         *)
LEMMA WindowIsList ==
    ASSUME NEW list \in Lists, NEW window \in Windows
    PROVE  Windowed(list, window) \in Seq(Isin)
<1>1. list \in Seq(Isin) /\ window[1] \in Nat /\ window[2] \in Nat \cup {None}
    BY ListsAssumption, WindowsAssumption
<1> DEFINE last == IF window[2] = None \/ window[1] + window[2] > Len(list)
                   THEN Len(list) ELSE window[1] + window[2]
<1>2. last \in Nat /\ last <= Len(list)
    BY <1>1 DEF None
<1>3. Windowed(list, window) = SubSeq(list, window[1] + 1, last)
    BY DEF Windowed
<1> HIDE DEF last
<1>4. \A i \in (window[1] + 1)..last : list[i] \in Isin
    BY <1>1, <1>2
<1> QED
    BY <1>1, <1>2, <1>3, <1>4, SubSeqProperties

(* A pass starts without answers. *)
LEMMA StartKeepsIInv ==
    ASSUME IInv, NEW list \in Lists, NEW window \in Windows, Start(list, window)
    PROVE  IInv'
<1>1. /\ chunk' \in Seq(Isin) /\ since' = today /\ today \in Nat
      /\ pos' = 1 /\ answers' = answers /\ pc' = "acquire"
      /\ UNCHANGED <<market, files>>
    BY WindowIsList DEF Start, IInv, PassOK, MarketOK
<1>2. Len(answers) = 0 /\ answers \in Seq(Batch) /\ DOMAIN answers = {}
  <2>1. answers \in Seq(Batch) /\ Len(answers) <= 0
    BY DEF Start, IInv, PassOK
  <2> QED
    BY <2>1
<1>3. PassOK'
    BY <1>1, <1>2 DEF PassOK, market
<1>4. Covered'
    BY <1>1, <1>2 DEF Covered
<1>5. OutputOK'
    BY <1>1, MarketRests DEF IInv, OutputOK, files
<1> QED
    BY <1>1, <1>3, <1>4, <1>5, PassStep DEF files

(* An answer has an event of its instrument each for which Yahoo has one.  *)
LEMMA AnswerCovers ==
    ASSUME MarketOK, NEW isin
    PROVE  /\ \A p \in payments : InScope(p, isin) /\ p.cash > 0 =>
                \E r \in Dividends(isin) : r.isin = p.isin /\ r.type = "DIVIDEND" /\ r.ex = p.day
           /\ \A s \in splits : InScope(s, isin) /\ RatioOf(s) # {} =>
                \E r \in Splits(isin) : r.isin = s.isin /\ r.type = "SPLIT" /\ r.ex = s.day
<1>1. ASSUME NEW p \in payments, InScope(p, isin), p.cash > 0
      PROVE  \E r \in Dividends(isin) : r.isin = p.isin /\ r.type = "DIVIDEND" /\ r.ex = p.day
  <2>1. DividendRecord(p) \in Dividends(isin)
    BY <1>1 DEF Dividends
  <2> QED
    BY <2>1 DEF DividendRecord
<1>2. ASSUME NEW s \in splits, InScope(s, isin), RatioOf(s) # {}
      PROVE  \E r \in Splits(isin) : r.isin = s.isin /\ r.type = "SPLIT" /\ r.ex = s.day
  <2>1. PICK f \in RatioOf(s) : TRUE
    BY <1>2
  <2>2. SplitRecord(s, f) \in Splits(isin)
    BY <1>2 DEF Splits
  <2> QED
    BY <2>2, SplitRecordFields
<1> QED
    BY <1>1, <1>2

(* The answer of one more instrument covers what Yahoo has of it. *)
LEMMA AnswerKeepsIInv ==
    ASSUME IInv, Answer
    PROVE  IInv'
<1> DEFINE batch == Dividends(chunk[pos]) \cup Splits(chunk[pos])
<1>1. /\ UNCHANGED <<market, files, chunk, since>>
      /\ answers' = Append(answers, batch) /\ pos' = pos + 1 /\ pc' = "acquire"
      /\ pos \in 1..Len(chunk) /\ Len(chunk) \in Nat
      /\ answers \in Seq(Batch) /\ Len(answers) <= pos - 1 /\ Len(answers) \in Nat
    BY DEF Answer, IInv, PassOK
<1>2. batch \in Batch /\ \A r \in batch : Known(r)
    BY AnswerIsBatch DEF IInv
<1>3. MarketOK /\ \A r : Known(r)' <=> Known(r)
    BY <1>1, MarketRests DEF IInv
<1>4. /\ \A p \in payments : InScope(p, chunk[pos]) /\ p.cash > 0 =>
           \E r \in batch : r.isin = p.isin /\ r.type = "DIVIDEND" /\ r.ex = p.day
      /\ \A s \in splits : InScope(s, chunk[pos]) /\ RatioOf(s) # {} =>
           \E r \in batch : r.isin = s.isin /\ r.type = "SPLIT" /\ r.ex = s.day
    BY <1>3, AnswerCovers
<1> HIDE DEF batch
<1>5. /\ answers' \in Seq(Batch) /\ Len(answers') = Len(answers) + 1
      /\ DOMAIN answers = 1..Len(answers)
      /\ DOMAIN answers' = 1..(Len(answers) + 1)
      /\ \A k \in 1..Len(answers) : answers'[k] = answers[k]
      /\ answers'[Len(answers) + 1] = batch
    BY <1>1, <1>2
<1>6. PassOK'
  <2>1. \A i \in DOMAIN answers' : \A r \in answers'[i] : Known(r)'
    BY <1>2, <1>3, <1>5 DEF IInv, PassOK
  <2>2. pos' \in 1..(Len(chunk') + 1) /\ Len(answers') <= pos' - 1
    BY <1>1, <1>5
  <2> QED
    BY <1>1, <1>5, <2>1, <2>2 DEF IInv, PassOK, market
<1>7. Covered'
  <2> SUFFICES ASSUME Len(answers') = pos' - 1, NEW k \in DOMAIN answers'
               PROVE  /\ \A p \in payments :
                           InScope(p, chunk[k]) /\ p.day <= since /\ p.cash > 0 =>
                             \E r \in answers'[k] :
                               r.isin = p.isin /\ r.type = "DIVIDEND" /\ r.ex = p.day
                      /\ \A s \in splits :
                           InScope(s, chunk[k]) /\ s.day <= since /\ RatioOf(s) # {} =>
                             \E r \in answers'[k] :
                               r.isin = s.isin /\ r.type = "SPLIT" /\ r.ex = s.day
    BY <1>1 DEF Covered, market
  <2>1. Len(answers) = pos - 1
    BY <1>1, <1>5
  <2>2. CASE k \in DOMAIN answers
    BY <1>5, <2>1, <2>2 DEF IInv, Covered
  <2>3. CASE k = pos
    BY <1>4, <1>1, <1>5, <2>1, <2>3
  <2> QED
    BY <1>1, <1>5, <2>1, <2>2, <2>3
<1>8. OutputOK'
    BY <1>1, <1>3 DEF IInv, OutputOK, files
<1> QED
    BY <1>1, <1>6, <1>7, <1>8, PassStep DEF files

(* Dedup by id: of every record there is one with its id. *)
LEMMA FirstOfId ==
    ASSUME answers \in Seq(Batch), NEW k \in DOMAIN answers, NEW r \in answers[k]
    PROVE  \E q \in Unique : q.id = r.id
<1> DEFINE T == {j \in DOMAIN answers : \E q \in answers[j] : q.id = r.id}
<1>1. T \subseteq Nat /\ T # {}
    OBVIOUS
<1>2. PICK i \in T : \A j \in T : i <= j
    BY <1>1, LeastNumber
<1>3. PICK q \in answers[i] : q.id = r.id
    BY <1>2
<1>4. \A j \in 1..i - 1 : \A x \in answers[j] : x.id # q.id
    BY <1>2, <1>3
<1> QED
    BY <1>2, <1>3, <1>4 DEF Unique

(* They are finitely many, so they can be sorted into a file. *)
LEMMA UniqueIsBatch ==
    ASSUME answers \in Seq(Batch)
    PROVE  /\ Unique \in Batch
           /\ \A r \in Unique : \E i \in DOMAIN answers : r \in answers[i]
<1>1. \A r \in Unique : \E i \in DOMAIN answers : r \in answers[i]
    BY DEF Unique
<1>2. \A i \in DOMAIN answers : answers[i] \subseteq Record /\ IsFiniteSet(answers[i])
    BY DEF Batch
<1>3. IsFiniteSet({answers[i] : i \in DOMAIN answers})
  <2>1. DOMAIN answers = 1..Len(answers) /\ Len(answers) \in Nat
    OBVIOUS
  <2>2. IsFiniteSet(DOMAIN answers)
    BY <2>1, FS_Interval
  <2> QED
    BY <2>2, ImageIsFinite
<1>4. IsFiniteSet(UNION {answers[i] : i \in DOMAIN answers})
    BY <1>2, <1>3, FS_UNION
<1>5. Unique \subseteq UNION {answers[i] : i \in DOMAIN answers}
    BY <1>1
<1>6. IsFiniteSet(Unique)
    BY <1>4, <1>5, FS_Subset
<1> QED
    BY <1>1, <1>2, <1>6 DEF Batch

(* The file holds what the dedup has left. *)
LEMMA WriteKeepsIInv ==
    ASSUME IInv, Write
    PROVE  IInv'
<1>1. /\ answers \in Seq(Batch)
      /\ UNCHANGED <<market, registry, barred, locals>>
      /\ pc' = "exit" /\ pos = Len(chunk) + 1 /\ output' \in Sorted(Unique)
    BY DEF Write, IInv, PassOK
<1>2. /\ Unique \in Batch
      /\ \A r \in Unique : \E i \in DOMAIN answers : r \in answers[i]
    BY <1>1, UniqueIsBatch
<1>3. /\ output' \in [1..Cardinality(Unique) -> Unique]
      /\ Range(output') = Unique
      /\ Cardinality(Unique) \in Nat /\ Unique \subseteq Record
    BY <1>1, <1>2, FS_CardinalityType DEF Sorted, Batch
<1>4. output' \in Seq(Record)
    BY <1>3
<1>5. \A r : Known(r)' <=> Known(r)
    BY <1>1, MarketRests
<1>6. Unique' = Unique
    BY <1>1 DEF Unique, locals
<1>7. PassOK'
    BY <1>1, <1>3, <1>4, <1>5, <1>6 DEF IInv, PassOK, market, locals
<1>8. Covered'
    BY <1>1 DEF IInv, Covered, market, locals
<1>9. OutputOK'
  <2>1. \A i \in DOMAIN output' : output'[i] \in Unique
    BY <1>3
  <2>2. \A r \in Unique : Known(r)'
    BY <1>2, <1>5 DEF IInv, PassOK
  <2> QED
    BY <1>4, <2>1, <2>2 DEF OutputOK
<1> QED
    BY <1>1, <1>7, <1>8, <1>9, PassStep

(* A merge of known records into a clean registry leaves it clean. *)
LEMMA MergeKeepsClean ==
    ASSUME Clean(registry, barred), output \in Seq(Record),
           \A i \in DOMAIN output : Known(output[i])
    PROVE  Clean(MergeInto(registry, output, barred), barred)
<1> DEFINE lists == {seq \in Seq(Record) : Clean(seq, barred)}
<1>1. registry \in lists
    BY DEF Clean
<1>2. ASSUME NEW seq \in lists, NEW i \in 1..Len(output)
      PROVE  Offer(seq, output[i], barred) \in lists
  <2> DEFINE c == output[i]
             new == Append(seq, c)
  <2>1. c \in Record /\ Known(c) /\ Clean(seq, barred) /\ seq \in Seq(Record)
    OBVIOUS
  <2>2. CASE RejectKey(c) \in barred \/ Clashes(seq, c)
    BY <2>2 DEF Offer
  <2>3. CASE ~(RejectKey(c) \in barred \/ Clashes(seq, c))
    <3>1. Offer(seq, c, barred) = new
        BY <2>3 DEF Offer
    <3>2. /\ new \in Seq(Record) /\ Len(seq) \in Nat
          /\ DOMAIN seq = 1..Len(seq) /\ DOMAIN new = 1..(Len(seq) + 1)
          /\ \A k \in 1..Len(seq) : new[k] = seq[k]
          /\ new[Len(seq) + 1] = c
        BY <2>1
    <3> HIDE DEF c, new
    <3>3. \A k \in DOMAIN seq : FuzzyKey(seq[k]) # FuzzyKey(c)
        BY <2>3 DEF Clashes, Range
    <3>4. \A k \in DOMAIN new : Known(new[k]) /\ RejectKey(new[k]) \notin barred
        BY <2>1, <2>3, <3>2 DEF Clean
    <3>5. ASSUME NEW k \in DOMAIN new, NEW l \in DOMAIN new, k # l
          PROVE  FuzzyKey(new[k]) # FuzzyKey(new[l])
      <4>1. CASE k \in 1..Len(seq) /\ l \in 1..Len(seq)
        BY <2>1, <3>2, <3>5, <4>1 DEF Clean
      <4>2. CASE k = Len(seq) + 1 /\ l \in 1..Len(seq)
        BY <3>2, <3>3, <4>2
      <4>3. CASE l = Len(seq) + 1 /\ k \in 1..Len(seq)
        BY <3>2, <3>3, <4>3
      <4> QED
        BY <3>2, <3>5, <4>1, <4>2, <4>3
    <3> QED
        BY <3>1, <3>2, <3>4, <3>5 DEF Clean, c
  <2> QED
    BY <2>2, <2>3
<1> HIDE DEF lists
<1>3. MergeInto(registry, output, barred) \in lists
    BY <1>1, <1>2, MergeKeeps
<1> QED
    BY <1>3 DEF lists

(* Only the registry grows. *)
LEMMA MergeKeepsIInv ==
    ASSUME IInv, output \in Seq(Record), registry' = MergeInto(registry, output, barred),
           UNCHANGED <<market, output, barred, locals>>,
           pc' = pc \/ pc' = "merged"
    PROVE  IInv'
<1>1. output \notin {Missing, Torn} /\ \A i \in DOMAIN output : Known(output[i])
  <2>1. output \in Seq(Action)
    BY DEF Record
  <2> QED
    BY <2>1, FileAssumption DEF IInv, OutputOK
<1>2. MarketOK' /\ \A r : Known(r)' <=> Known(r)
    BY MarketRests DEF IInv
<1>3. Clean(registry', barred)
    BY <1>1, MergeKeepsClean DEF IInv
<1>4. Clean(registry, barred)'
    BY <1>2, <1>3 DEF Clean
<1>5. PassOK'
  <2>1. Unique' = Unique
    BY DEF Unique, locals
  <2> QED
    BY <1>2, <2>1 DEF IInv, PassOK, market, locals
<1>6. Covered'
    BY DEF IInv, Covered, market, locals
<1>7. OutputOK' /\ BarredKnown'
    BY <1>2 DEF IInv, OutputOK, BarredKnown
<1> QED
    BY <1>2, <1>4, <1>5, <1>6, <1>7 DEF IInv

(* The record that leaves takes its key to the reject list, and no record  *)
(* that stays has that key.                                                *)
LEMMA RemoveKeepsIInv ==
    ASSUME IInv, NEW i \in DOMAIN registry, RemoveListed(i)
    PROVE  IInv'
<1> DEFINE new == RemoveAt(registry, i)
<1>1. MarketOK /\ MarketOK' /\ \A r : Known(r)' <=> Known(r)
    BY MarketRests DEF IInv, RemoveListed
<1>2. /\ Clean(registry, barred) /\ registry \in Seq(Record)
      /\ registry[i] \in Record /\ Known(registry[i])
    BY DEF IInv, Clean
<1>3. /\ new \in Seq(Record)
      /\ \A j \in DOMAIN new : Origin(j, i) \in DOMAIN registry \ {i}
                               /\ new[j] = registry[Origin(j, i)]
      /\ \A j, k \in DOMAIN new : j # k => Origin(j, i) # Origin(k, i)
    BY <1>2, RemoveAtProperties, RemoveAtOrigin
<1>4. registry' = new /\ barred' = barred \cup {RejectKey(registry[i])}
    BY DEF RemoveListed
<1> HIDE DEF new
<1>5. ASSUME NEW k \in DOMAIN registry \ {i}
      PROVE  RejectKey(registry[k]) \notin barred'
  <2>1. FuzzyKey(registry[k]) # FuzzyKey(registry[i])
    BY <1>2 DEF Clean
  <2>2. RejectKey(registry[k]) # RejectKey(registry[i])
    BY <1>1, <1>2, <2>1, RejectKeyIsFuzzyKey DEF Clean
  <2> QED
    BY <1>2, <1>4, <2>2 DEF Clean
<1>6. Clean(new, barred')
    BY <1>2, <1>3, <1>5 DEF Clean
<1>7. Clean(registry, barred)'
    BY <1>1, <1>4, <1>6 DEF Clean
<1>8. BarredKnown'
    BY <1>1, <1>2, <1>4 DEF IInv, BarredKnown
<1>9. PassOK'
  <2>1. Unique' = Unique
    BY DEF RemoveListed, Unique, locals
  <2> QED
    BY <1>1, <2>1 DEF RemoveListed, IInv, PassOK, market, locals
<1>10. Covered' /\ OutputOK'
    BY <1>1 DEF RemoveListed, IInv, Covered, OutputOK, market, locals
<1> QED
    BY <1>1, <1>7, <1>8, <1>9, <1>10 DEF IInv

(* Every step keeps the invariant. *)
LEMMA NextIInv == IInv /\ [Next]_vars => IInv'
<1> SUFFICES ASSUME IInv, [Next]_vars PROVE IInv'
    OBVIOUS
<1>1. ASSUME NEW p \in Payouts, Pay(p[1], p[2]) PROVE IInv'
    BY <1>1, PayMoves, MarketKeepsIInv DEF IInv, Pay
<1>2. ASSUME NEW r \in Ratios, SplitShares(r[1], r[2], r[3]) PROVE IInv'
    BY <1>2, SplitMoves, MarketKeepsIInv DEF IInv, SplitShares
<1>3. ASSUME NEW list \in Lists, NEW window \in Windows, Start(list, window) PROVE IInv'
    BY <1>3, StartKeepsIInv
<1>4. CASE Acquire \/ Retry \/ GiveUp \/ Open
  <2>1. /\ UNCHANGED <<market, registry, barred, chunk, answers, since>>
        /\ output' \in {output, Torn}
        /\ \/ pc' = "fetch" /\ pos' = pos /\ pos <= Len(chunk)
           \/ pc' = "acquire" /\ pos' = pos + 1 /\ pos <= Len(chunk)
           \/ pc' = "write" /\ pos' = pos /\ pos > Len(chunk)
    BY <1>4 DEF Acquire, Retry, GiveUp, Open, Asked, files, locals, IInv, PassOK
  <2>2. \A r : Known(r)' <=> Known(r)
    BY <2>1, MarketRests
  <2>3. PassOK'
    BY <2>1, <2>2 DEF IInv, PassOK, market
  <2>4. Covered'
    BY <2>1 DEF IInv, PassOK, Covered, market
  <2>5. OutputOK'
    BY <2>1, <2>2 DEF IInv, OutputOK
  <2> QED
    BY <2>1, <2>3, <2>4, <2>5, PassStep
<1>5. CASE Answer
    BY <1>5, AnswerKeepsIInv
<1>6. CASE Write
    BY <1>6, WriteKeepsIInv
<1>7. CASE MergeOutput
    BY <1>7, MergeKeepsIInv DEF MergeOutput, IInv, PassOK
<1>8. CASE MergeByHand
    BY <1>8, MergeKeepsIInv DEF MergeByHand, IInv, OutputOK
<1>9. ASSUME NEW i \in DOMAIN registry, RemoveListed(i) PROVE IInv'
    BY <1>9, RemoveKeepsIInv
<1>10. CASE WriteFails \/ StopAfterErrors \/ End \/ Kill
    BY <1>10, ExitKeepsIInv DEF WriteFails, StopAfterErrors, End, Kill
<1>11. CASE UNCHANGED vars
  <2>1. PassOK' /\ Covered' /\ OutputOK'
    BY <1>11, MarketRests DEF vars, files, locals, market, IInv, PassOK, Covered, OutputOK, Unique
  <2> QED
    BY <1>11, <2>1, PassStep DEF vars, files
<1> QED
    BY <1>1, <1>2, <1>3, <1>4, <1>5, <1>6, <1>7, <1>8, <1>9, <1>10, <1>11 DEF Next, Step

(* The inductive invariant of the fetcher and the merge of its file. *)
THEOREM Invariance == Spec => []IInv
    BY InitIInv, NextIInv, PTL DEF Spec

-----------------------------------------------------------------------------
(* What follows from it *)

(* fetch_yahoo_actions.py hands the merge only records that are well       *)
(* formed: what MergeFetched assumes of its feeds.                         *)
THEOREM RecordsAreWellFormed == Spec => []RecordsWellFormed
<1>1. IInv => RecordsWellFormed
  <2> SUFFICES ASSUME IInv, NEW i \in DOMAIN answers, NEW r \in answers[i]
               PROVE  r \in Action /\ WellFormed(r)
    BY DEF RecordsWellFormed
  <2>1. answers[i] \in Batch
    BY DEF IInv, PassOK
  <2> QED
    BY <2>1 DEF Batch, Record
<1> QED
    BY <1>1, Invariance, PTL

(* After exit code 0 the file has every event of the instruments asked for *)
(* that had happened when the pass began.                                  *)
THEOREM NothingIsMissed == Spec => []NothingMissed
<1>1. IInv => NothingMissed
  <2> SUFFICES ASSUME IInv, pc = "exit", ExitCode = 0, NEW isin \in Range(chunk)
               PROVE  /\ \A p \in payments :
                           InScope(p, isin) /\ p.day <= since /\ p.cash > 0 =>
                             \E a \in Range(output) :
                               a.isin = isin /\ a.type = "DIVIDEND" /\ a.ex = p.day
                      /\ \A s \in splits :
                           InScope(s, isin) /\ s.day <= since /\ RatioOf(s) # {} =>
                             \E a \in Range(output) :
                               a.isin = isin /\ a.type = "SPLIT" /\ a.ex = s.day
    BY DEF NothingMissed
  <2>1. /\ answers \in Seq(Batch) /\ Len(answers) \in Nat /\ Len(chunk) \in Nat
        /\ chunk \in Seq(Isin) /\ Len(answers) <= pos - 1 /\ pos = Len(chunk) + 1
        /\ Range(output) = Unique /\ MarketOK
    BY DEF IInv, PassOK
  <2>2. Len(answers) = pos - 1 /\ DOMAIN answers = DOMAIN chunk
    BY <2>1 DEF ExitCode
  <2>3. PICK k \in DOMAIN answers : chunk[k] = isin
    BY <2>2 DEF Range
  <2>4. ASSUME NEW r \in answers[k]
        PROVE  \E a \in Range(output) : a.isin = r.isin /\ a.type = r.type /\ a.ex = r.ex
    <3>1. PICK q \in Unique : q.id = r.id
        BY <2>1, FirstOfId
    <3>2. q \in Record /\ r \in Record /\ Known(q) /\ Known(r)
        BY <2>1, UniqueIsBatch DEF IInv, PassOK, Batch
    <3>3. \A x \in Record : x.id[1] = x.isin /\ x.id[2] = x.type /\ x.id[3] = x.eff
        BY DEF Record, WellFormed, NamesRecord
    <3>4. q.isin = r.isin /\ q.type = r.type /\ q.eff = r.eff
        BY <3>1, <3>2, <3>3
    <3>5. q.ex = r.ex
        BY <2>1, <3>2, <3>4, KnownFields
    <3> QED
        BY <2>1, <3>4, <3>5
  <2>5. /\ \A p \in payments :
             InScope(p, chunk[k]) /\ p.day <= since /\ p.cash > 0 =>
               \E r \in answers[k] : r.isin = p.isin /\ r.type = "DIVIDEND" /\ r.ex = p.day
        /\ \A s \in splits :
             InScope(s, chunk[k]) /\ s.day <= since /\ RatioOf(s) # {} =>
               \E r \in answers[k] : r.isin = s.isin /\ r.type = "SPLIT" /\ r.ex = s.day
    BY <2>2 DEF IInv, Covered
  <2> QED
    BY <2>3, <2>4, <2>5 DEF InScope
<1> QED
    BY <1>1, Invariance, PTL

(* Whatever is merged, and whenever: actions.json has events of the market *)
(* only, and splits with their own ratio where it can be written.          *)
THEOREM NothingIsInvented == Spec => []NothingInvented
<1>1. IInv => NothingInvented
  <2> SUFFICES ASSUME IInv, NEW a \in Range(registry)
               PROVE  \/ /\ a.type = "DIVIDEND"
                         /\ \E p \in payments : p.isin = a.isin /\ p.day = a.ex
                      \/ /\ a.type = "SPLIT"
                         /\ \E s \in splits :
                            /\ s.isin = a.isin /\ s.day = a.ex
                            /\ \/ a.ratio[1] * s.old = a.ratio[2] * s.new
                               \/ s.old > MaxDenominator
    BY DEF NothingInvented
  <2>1. Known(a)
    BY DEF Range, IInv, Clean
  <2>2. CASE KnownDividend(a)
    BY <2>2 DEF KnownDividend
  <2>3. CASE KnownSplit(a)
    <3>1. PICK s \in splits : \E f \in RatioOf(s) : a = SplitRecord(s, f)
        BY <2>3 DEF KnownSplit
    <3>2. PICK f \in RatioOf(s) : a = SplitRecord(s, f)
        BY <3>1
    <3>3. /\ s.new \in Nat \ {0} /\ s.old \in Nat \ {0}
          /\ <<s.new, s.old>> \in DOMAIN RatioToString
        BY SplitFacts DEF IInv, MarketOK
    <3>4. s.old <= MaxDenominator => f[1] * s.old = f[2] * s.new
        BY <3>2, <3>3, ExactFraction DEF RatioOf
    <3>5. s.old <= MaxDenominator \/ s.old > MaxDenominator
        BY <3>3, FetcherAssumption
    <3> QED
        BY <3>2, <3>4, <3>5, SplitRecordFields
  <2> QED
    BY <2>1, <2>2, <2>3 DEF Known
<1> QED
    BY <1>1, Invariance, PTL

(* The registry holds an event twice, or one that was removed by the       *)
(* protocol, only where a split has followed a dividend.                   *)
THEOREM OnlyRescalingBringsBack == Spec => []OnlySplitsBringBack
<1>1. IInv => OnlySplitsBringBack
  <2> SUFFICES ASSUME IInv, NEW i \in DOMAIN registry,
                      \/ \E j \in DOMAIN registry :
                            j # i /\ registry[j].isin = registry[i].isin
                                  /\ registry[j].type = registry[i].type
                                  /\ registry[j].ex = registry[i].ex
                      \/ \E key \in barred :
                            key[1] = registry[i].isin /\ key[2] = Family(registry[i].type)
                                                      /\ key[3] = registry[i].ex
               PROVE  registry[i].type = "DIVIDEND" /\ SplitAfter(registry[i].isin, registry[i].ex)
    BY DEF OnlySplitsBringBack
  <2>1. MarketOK /\ Clean(registry, barred) /\ BarredKnown
    BY DEF IInv
  <2>2. Known(registry[i]) /\ RejectKey(registry[i]) \notin barred
    BY <2>1 DEF Clean
  <2>3. ASSUME NEW j \in DOMAIN registry, j # i, registry[j].isin = registry[i].isin,
               registry[j].type = registry[i].type, registry[j].ex = registry[i].ex
        PROVE  registry[i].type = "DIVIDEND" /\ SplitAfter(registry[i].isin, registry[i].ex)
    <3>1. Known(registry[j]) /\ registry[j] # registry[i]
        BY <2>1, <2>3 DEF Clean
    <3> QED
        BY <2>1, <2>2, <2>3, <3>1, OneRecordPerEvent
  <2>4. ASSUME NEW key \in barred, key[1] = registry[i].isin,
               key[2] = Family(registry[i].type), key[3] = registry[i].ex
        PROVE  registry[i].type = "DIVIDEND" /\ SplitAfter(registry[i].isin, registry[i].ex)
    <3>1. PICK r \in Record : Known(r) /\ key = RejectKey(r)
        BY <2>1 DEF BarredKnown
    <3>2. r.isin = registry[i].isin /\ Family(r.type) = Family(registry[i].type)
          /\ r.ex = registry[i].ex
        BY <2>1, <2>4, <3>1, KnownFields DEF RejectKey
    <3>3. r # registry[i]
        BY <2>2, <3>1
    <3> QED
        BY <2>1, <2>2, <3>1, <3>2, <3>3, OneRecordPerEvent
  <2> QED
    BY <2>3, <2>4
<1> QED
    BY <1>1, Invariance, PTL

-----------------------------------------------------------------------------
(* The length of a pass *)

(* The tickers not yet answered or given up, and the steps they may take:  *)
(* a token and MaxRetries attempts each.                                   *)
Rest == Len(chunk) + 1 - pos
Due  == Rest * (MaxRetries + 1)

(* The steps a pass has at most before it. *)
StepsLeft ==
    CASE pc = "acquire" -> 4 + Due
      [] pc = "fetch"   -> 4 + Due - attempt
      [] pc = "write"   -> 3
      [] pc = "exit"    -> 2
      [] pc = "merged"  -> 1
      [] pc = "idle"    -> 0

AttemptOK == attempt \in 1..MaxRetries
Places    == {"idle", "acquire", "fetch", "write", "exit", "merged"}

Counted == IInv /\ AttemptOK /\ pc \in Places

(* Whatever Yahoo answers and whoever kills it, a pass under way comes     *)
(* nearer to its end with every step of its own, and only the market moves *)
(* meanwhile: no ticker is asked more than MaxRetries times, and none      *)
(* twice.                                                                  *)
PassShrinks ==
    [][pc # "idle" =>
          \/ UNCHANGED <<files, pc, locals>>
          \/ StepsLeft' \in Nat /\ StepsLeft' < StepsLeft]_vars

(* One ticker less. *)
LEMMA OneTickerLess ==
    ASSUME NEW n \in Nat, NEW k \in Nat
    PROVE  n * k \in Nat /\ (n + 1) * k = n * k + k
    OBVIOUS

LEMMA CountedSteps ==
    ASSUME Counted, [Next]_vars
    PROVE  /\ Counted'
           /\ pc # "idle" =>
                \/ UNCHANGED <<files, pc, locals>>
                \/ StepsLeft' \in Nat /\ StepsLeft' < StepsLeft
<1> DEFINE Lower == StepsLeft' \in Nat /\ StepsLeft' < StepsLeft
<1>0. /\ IInv' /\ MaxRetries \in Nat /\ MaxRetries # 0
      /\ attempt \in 1..MaxRetries /\ Len(chunk) \in Nat /\ pos \in 1..(Len(chunk) + 1)
      /\ pc = "fetch" => pos <= Len(chunk)
    BY NextIInv, FetcherAssumption DEF Counted, AttemptOK, IInv, PassOK
<1>1. Due \in Nat /\ (pc = "fetch" => Due > attempt)
  <2>1. Rest \in Nat /\ MaxRetries + 1 \in Nat
    BY <1>0 DEF Rest
  <2>2. Due \in Nat
    BY <2>1, OneTickerLess DEF Due
  <2>3. ASSUME pc = "fetch" PROVE Due > attempt
    <3> DEFINE n == Len(chunk) - pos
    <3>1. n \in Nat /\ Rest = n + 1
        BY <1>0, <2>3 DEF Rest
    <3> HIDE DEF n
    <3>2. n * (MaxRetries + 1) \in Nat /\ Due = n * (MaxRetries + 1) + (MaxRetries + 1)
        BY <2>1, <3>1, OneTickerLess DEF Due
    <3> QED
        BY <1>0, <3>2
  <2> QED
    BY <2>2, <2>3
<1>2. CASE UNCHANGED <<files, pc, locals>>
    BY <1>0, <1>2 DEF Counted, AttemptOK, locals
<1>3. CASE (\E list \in Lists, window \in Windows : Start(list, window))
           \/ MergeByHand \/ \E i \in DOMAIN registry : RemoveListed(i)
    BY <1>0, <1>3 DEF Start, MergeByHand, RemoveListed, locals, Counted, AttemptOK, Places
<1>4. CASE Exit /\ pc # "idle"
  <2>1. pc' = "idle" /\ attempt' = 1
    BY <1>4 DEF Exit
  <2>2. Counted'
    BY <1>0, <2>1 DEF Counted, AttemptOK, Places
  <2>3. Lower
    BY <1>0, <1>1, <1>4, <2>1 DEF StepsLeft, Counted, Places
  <2> QED
    BY <2>2, <2>3
<1>5. CASE Acquire
  <2>1. pc = "acquire" /\ pc' = "fetch" /\ attempt' = 1 /\ Due' = Due
    BY <1>5 DEF Acquire, Rest, Due
  <2>2. Counted'
    BY <1>0, <2>1 DEF Counted, AttemptOK, Places
  <2>3. Lower
    BY <1>1, <2>1 DEF StepsLeft
  <2> QED
    BY <2>2, <2>3
<1>6. CASE Answer \/ GiveUp
  <2>1. pc = "fetch" /\ pc' = "acquire" /\ attempt' = attempt /\ pos' = pos + 1 /\ chunk' = chunk
    BY <1>6 DEF Answer, GiveUp
  <2>2. Counted'
    BY <1>0, <2>1 DEF Counted, AttemptOK, Places
  <2>3. Rest' \in Nat /\ Rest = Rest' + 1
    BY <1>0, <2>1 DEF Rest
  <2>4. Due' \in Nat /\ Due = Due' + MaxRetries + 1
    <3>1. MaxRetries + 1 \in Nat
        BY <1>0
    <3>2. /\ Rest' * (MaxRetries + 1) \in Nat
          /\ (Rest' + 1) * (MaxRetries + 1) = Rest' * (MaxRetries + 1) + (MaxRetries + 1)
        BY <2>3, <3>1, OneTickerLess
    <3>3. Due' \in Nat /\ Due = Due' + (MaxRetries + 1)
        BY <2>3, <3>2 DEF Due
    <3> QED
        BY <1>0, <3>3
  <2>5. Lower
    BY <1>0, <1>1, <2>1, <2>4 DEF StepsLeft
  <2> QED
    BY <2>2, <2>5
<1>7. CASE Retry
  <2>1. /\ pc = "fetch" /\ pc' = "fetch" /\ attempt < MaxRetries /\ attempt' = attempt + 1
        /\ Due' = Due
    BY <1>0, <1>7 DEF Retry, Rest, Due
  <2>2. Counted'
    BY <1>0, <2>1 DEF Counted, AttemptOK, Places
  <2>3. Lower
    BY <1>0, <1>1, <2>1 DEF StepsLeft
  <2> QED
    BY <2>2, <2>3
<1>8. CASE Open \/ Write \/ MergeOutput
  <2>1. /\ \/ pc = "acquire" /\ pc' = "write"
           \/ pc = "write" /\ pc' = "exit"
           \/ pc = "exit" /\ pc' = "merged"
        /\ attempt' = attempt
    BY <1>8 DEF Open, Asked, Write, MergeOutput, locals
  <2>2. Counted'
    BY <1>0, <2>1 DEF Counted, AttemptOK, Places
  <2>3. Lower
    BY <1>1, <2>1 DEF StepsLeft
  <2> QED
    BY <2>2, <2>3
<1>9. CASE \/ \E p \in Payouts : Pay(p[1], p[2])
           \/ \E r \in Ratios : SplitShares(r[1], r[2], r[3])
    BY <1>2, <1>9 DEF Pay, SplitShares
<1>10. CASE WriteFails \/ StopAfterErrors \/ End \/ Kill
    BY <1>4, <1>10 DEF WriteFails, StopAfterErrors, End, Kill, Asked
<1>11. CASE UNCHANGED vars
    BY <1>2, <1>11 DEF vars
<1> QED
    BY <1>2, <1>3, <1>5, <1>6, <1>7, <1>8, <1>9, <1>10, <1>11 DEF Next, Step

(* A pass has no more steps than StepsLeft says, so that it ends if its    *)
(* process is allowed to go on.                                            *)
THEOREM PassesAreBounded == Spec => PassShrinks
<1>1. Init => Counted
    BY InitIInv, FetcherAssumption DEF Init, Counted, AttemptOK, Places
<1>2. Counted /\ [Next]_vars => Counted'
    BY CountedSteps
<1>3. Counted /\ [Next]_vars =>
        [pc # "idle" =>
            \/ UNCHANGED <<files, pc, locals>>
            \/ StepsLeft' \in Nat /\ StepsLeft' < StepsLeft]_vars
    BY CountedSteps
<1> QED
    BY <1>1, <1>2, <1>3, PTL DEF Spec, PassShrinks
=============================================================================
