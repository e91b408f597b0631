---------------------------- MODULE RegistryData ----------------------------
(***************************************************************************)
(* The corporate action record of actions.json and the pure functions the  *)
(* registry tools compute over it: the merge keys, the semantic-duplicate  *)
(* test, the impact and redistribution derivations and the validator's     *)
(* per-action and whole-registry layers.                                   *)
(*                                                                         *)
(* Dates are day numbers, amounts are micro-dollars (the six decimals the  *)
(* Yahoo fetcher stores), an action_id is <<isin, type, effective date,    *)
(* discriminator>>.  A ratio is a text: "10:1" is <<10, 1>>, and a text    *)
(* of the same numbers with leading zeros, which the schema allows, is     *)
(* <<10, 1, k>>, where k tells "010:1" from "10:01" and the others.        *)
(* Wording, currencies, exchanges and URLs are left out.                   *)
(***************************************************************************)
EXTENDS Integers, FiniteSets, SequencesExt

CONSTANTS
    Isin,       \* instruments
    KnownIsin   \* the instruments of the Asset Identifiers registry

ASSUME KnownIsinAssumption == KnownIsin \subseteq Isin

-----------------------------------------------------------------------------
(* Types *)

None == -1                  \* an absent or null date or amount
NoRatio == << >>            \* an absent ratio
NoImpact == << >>           \* an absent impact object

DividendTypes == {"DIVIDEND", "SPECIAL_DIVIDEND"}
SplitTypes    == {"SPLIT", "REVERSE_SPLIT"}
OtherTypes    == {"SYMBOL_CHANGE", "SPINOFF", "DELISTING", "MERGER"}
ActionType    == DividendTypes \cup SplitTypes \cup OtherTypes

Source   == {"Yahoo Finance", "SEC EDGAR", "8-K", "press release",
             "exchange announcement", "other"}
Category == {"public-domain", "facts-only", "secondary-source", "restricted"}

Day    == Nat
MaybeDay    == Day \cup {None}
MaybeAmount == Nat \cup {None}

Action == [isin : Isin, type : ActionType,
           ann : Day, ex : MaybeDay, record : MaybeDay, eff : Day,
           amount : MaybeAmount, ratio : Seq(Nat),
           source : Source, redistribution : Category \cup {"missing"},
           impact : Seq(Nat), id : Isin \X ActionType \X Day \X Seq(Nat)]

-----------------------------------------------------------------------------
(* Keys of the merge *)

(* DIVIDEND and SPECIAL_DIVIDEND are one family, SPLIT and REVERSE_SPLIT   *)
(* another, every other type is its own.                                   *)
Family(type) ==
    IF type \in DividendTypes THEN "DIVIDEND"
    ELSE IF type \in SplitTypes THEN "SPLIT" ELSE type

(* round(x, 4) of an amount stored in micro-dollars. *)
Round4(amount) == (amount + 50) \div 100

AmountKey(a) == IF a.amount = None THEN 0 ELSE Round4(a.amount)

RefDate(a) == IF a.ex # None THEN a.ex ELSE a.eff

FuzzyKey(a) == <<a.isin, a.type, RefDate(a), a.ratio, AmountKey(a)>>

RejectKey(a) == <<a.isin, Family(a.type), RefDate(a), AmountKey(a)>>

-----------------------------------------------------------------------------
(* Semantic uniqueness *)

SemanticDays   == 5         \* effective dates at most this far apart
AmountEpsilon  == 10000     \* amounts less than one cent apart

DaysApart(a, b) == IF a.eff >= b.eff THEN a.eff - b.eff ELSE b.eff - a.eff

CashOf(a) == IF a.amount = None THEN 0 ELSE a.amount

SameAmount(a, b) ==
    /\ CashOf(a) - CashOf(b) < AmountEpsilon
    /\ CashOf(b) - CashOf(a) < AmountEpsilon

(* The validator's pair test: two records of one underlying event. *)
SameEvent(a, b) ==
    /\ a.isin = b.isin
    /\ Family(a.type) = Family(b.type)
    /\ DaysApart(a, b) <= SemanticDays
    /\ \/ Family(a.type) = "DIVIDEND" /\ SameAmount(a, b)
       \/ Family(a.type) = "SPLIT" /\ a.ratio # NoRatio /\ a.ratio = b.ratio

(* validate_semantic_uniqueness returns no error: combinations(group, 2)   *)
(* ranges over pairs of distinct positions.                                *)
SemanticallyUnique(seq) ==
    \A i, j \in DOMAIN seq : i # j => ~SameEvent(seq[i], seq[j])

-----------------------------------------------------------------------------
(* The outcome of a merge *)

(* What merge() makes of a registry: each fetched record in turn is taken  *)
(* unless the reject set bars it or the list grown so far clashes with it. *)
Clashes(seq, c) == \E a \in Range(seq) : FuzzyKey(a) = FuzzyKey(c) \/ SameEvent(a, c)

OfferUnchecked(seq, c, barred) ==    \* mutant: clashes are not looked for
    IF RejectKey(c) \in barred THEN seq ELSE Append(seq, c)

Offer(seq, c, barred) ==
    IF RejectKey(c) \in barred \/ Clashes(seq, c) THEN seq ELSE Append(seq, c)

MergeInto(seq, feed, barred) ==
    LET grown[n \in 0..Len(feed)] ==
            IF n = 0 THEN seq ELSE Offer(grown[n - 1], feed[n], barred)
    IN  grown[Len(feed)]

-----------------------------------------------------------------------------
(* Derived fields *)

(* A ratio is read as two positive integers, whatever zeros it begins with. *)
ValidRatio(ratio) == Len(ratio) \in {2, 3} /\ ratio[1] > 0 /\ ratio[2] > 0

Numbers(ratio) == <<ratio[1], ratio[2]>>

RatioTypes == SplitTypes \cup {"SPINOFF"}

(* The discriminator of rewrite_action_ids.py: the numbers of the ratio,   *)
(* not its text, so that "010:1" gives "10-1".                             *)
Discriminator(a) ==
    IF a.type \in RatioTypes THEN Numbers(a.ratio)
    ELSE IF a.type \in DividendTypes THEN <<AmountKey(a)>> ELSE << >>

CanonicalId(a) == <<a.isin, a.type, a.eff, Discriminator(a)>>

(***************************************************************************)
(* What the fetchers build and the validator accepts: an id that names the *)
(* record, a split with the text of its ratio, and no ex-date of its own   *)
(* on a type that has none.  The id of a dividend is made of the amount    *)
(* before it is rounded to the six decimals of the record, and may differ  *)
(* from the record's amount by one in the fourth.                          *)
(***************************************************************************)
NamesRecord(a) ==
    IF a.type \in DividendTypes
    THEN \E d \in {-1, 0, 1} : a.id = <<a.isin, a.type, a.eff, <<AmountKey(a) + d>>>>
    ELSE a.id = <<a.isin, a.type, a.eff, a.ratio>>

WellFormed(a) ==
    /\ NamesRecord(a)
    /\ a.type \in SplitTypes => a.ratio # NoRatio
    /\ a.type \in OtherTypes => a.ex \in {None, a.eff}
    /\ a.type \in OtherTypes => a.amount = None
    /\ a.type \in OtherTypes \ {"SPINOFF"} => a.ratio = NoRatio

(* rewrite_action_ids.py gives every record its canonical id, or none: a   *)
(* record that lacks what its id is made of, and two that would get one    *)
(* id, stop it before anything is written.                                 *)
HasCanonicalId(a) ==
    /\ a.type \in RatioTypes => ValidRatio(a.ratio)
    /\ a.type \in DividendTypes => a.amount # None
    /\ a.type # "MERGER"

Renamed(a) == [a EXCEPT !.id = CanonicalId(a)]

WithCanonicalIds(seq) == [i \in DOMAIN seq |-> Renamed(seq[i])]

(* Mutant: collisions are not looked for. *)
RewritableAnyway(seq) == \A i \in DOMAIN seq : HasCanonicalId(seq[i])

Rewritable(seq) ==
    /\ \A i \in DOMAIN seq : HasCanonicalId(seq[i])
    /\ \A i, j \in DOMAIN seq : i # j => CanonicalId(seq[i]) # CanonicalId(seq[j])

(* redistribution_for: an unmapped source is the fail-safe "restricted". *)
RedistributionFor(source) ==
    CASE source \in {"SEC EDGAR", "8-K"} -> "public-domain"
      [] source = "Yahoo Finance" -> "secondary-source"
      [] source \in {"press release", "exchange announcement"} -> "facts-only"
      [] OTHER -> "restricted"

(* derive_impact: the share multiplier as a fraction and the cash amount;  *)
(* the price multiplier is the inverse fraction.  NoImpact is a failure.   *)
DeriveImpact(a) ==
    CASE a.type \in SplitTypes /\ ValidRatio(a.ratio) -> <<a.ratio[1], a.ratio[2], 0>>
      [] a.type \in DividendTypes /\ a.amount # None -> <<1, 1, a.amount>>
      [] a.type \in OtherTypes -> <<1, 1, 0>>
      [] OTHER -> NoImpact

(* derive_impacts.py and derive_redistribution.py refuse the whole file    *)
(* when one record defeats them, and rewrite every record otherwise.       *)
Derivable(seq) == \A i \in DOMAIN seq : DeriveImpact(seq[i]) # NoImpact

WithImpacts(seq) == [i \in DOMAIN seq |-> [seq[i] EXCEPT !.impact = DeriveImpact(seq[i])]]

Classifiable(seq) ==
    seq # << >> /\ \A i \in DOMAIN seq : RedistributionFor(seq[i].source) # "restricted"

WithRedistribution(seq) ==
    [i \in DOMAIN seq |-> [seq[i] EXCEPT !.redistribution = RedistributionFor(seq[i].source)]]

-----------------------------------------------------------------------------
(* Validator layers over one action *)

TemporalOK(a) ==
    /\ a.ann <= a.eff
    /\ a.type \in RatioTypes /\ a.ex # None
         => a.ann <= a.ex /\ a.ex = a.eff
    /\ a.type \in SplitTypes /\ a.ex # None /\ a.record # None => a.record <= a.ex
    /\ a.type \in DividendTypes =>
         /\ a.ex # None => a.ann <= a.ex
         /\ a.ex # None /\ a.record # None => a.ex < a.record
         /\ a.record # None => a.record <= a.eff
    /\ a.type = "DELISTING" => a.ex = None /\ a.record = None

ArithmeticOK(a) ==
    /\ a.type \in SplitTypes => ValidRatio(a.ratio)
    /\ a.type \in DividendTypes => a.amount # None /\ a.amount > 0

(* validate_action_id_format: the embedded parts match the fields, and so  *)
(* does the discriminator where the type and the field allow the check; a  *)
(* ratio has to be there as the text it is.                                *)
IdFormatOK(a) ==
    /\ a.id[1] = a.isin /\ a.id[2] = a.type /\ a.id[3] = a.eff
    /\ a.type \in RatioTypes /\ a.ratio # NoRatio => a.id[4] = a.ratio
    /\ a.type \in DividendTypes /\ a.amount # None => a.id[4] = <<AmountKey(a)>>
    /\ a.type \in {"SYMBOL_CHANGE", "DELISTING"} => a.id[4] = << >>

CrossReferenceOK(a) == a.isin \in KnownIsin

RedistributionOK(a) ==
    /\ a.redistribution \notin {"missing", "restricted"}
    /\ a.redistribution = RedistributionFor(a.source)

ActionOK(a) ==
    /\ TemporalOK(a)
    /\ ArithmeticOK(a)
    /\ IdFormatOK(a)
    /\ CrossReferenceOK(a)
    /\ RedistributionOK(a)

(* Layer 6: no action_id occurs twice. *)
UniqueIds(seq) == \A i, j \in DOMAIN seq : i # j => seq[i].id # seq[j].id

(* Every layer of tools/validate.py passes. *)
RegistryOK(seq, minActions) ==
    /\ \A i \in DOMAIN seq : ActionOK(seq[i])
    /\ UniqueIds(seq)
    /\ SemanticallyUnique(seq)
    /\ Len(seq) >= minActions
=============================================================================
