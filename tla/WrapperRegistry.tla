--------------------------- MODULE WrapperRegistry ---------------------------
(***************************************************************************)
(* What the four wrappers answer about one actions.json, and what is left  *)
(* of the file after some of them have loaded it and saved it again.       *)
(*                                                                         *)
(* A record keeps the difference between null (or absent) and the empty    *)
(* string, which the wrappers treat differently; ids, ISINs and dates are  *)
(* numbers in the order of their strings.  A query answers with positions  *)
(* of the file.                                                            *)
(***************************************************************************)
EXTENDS Integers, FiniteSets, SequencesExt

CONSTANTS
    Item,       \* the records a file may hold
    Isin, Id, Day,  \* the arguments of queries
    Raw,        \* the raw price of a bar
    MaxItems,   \* bound on the length of the file
    MaxResaves  \* bound on the times the file is saved again

Null  == -1
Empty == 0
NoPair == << >>     \* an absent ratio or impact

Wrapper == {"python", "javascript", "go", "rust"}
SplitTypes == {"SPLIT", "REVERSE_SPLIT"}
CashTypes  == {"DIVIDEND", "SPECIAL_DIVIDEND"}

(* "scalar" is an entry that is not an object, "ill-typed" an object whose *)
(* dates are no object; "extra" is a field the wrappers do not know.       *)
ItemType ==
    [shape : {"object", "scalar", "ill-typed"}, isin : Nat \cup {Null}, id : Nat \cup {Null},
     type : SplitTypes \cup CashTypes \cup {"DELISTING"},
     ann : Nat \cup {Null}, ex : Nat \cup {Null},
     ratio : {NoPair} \cup (Nat \X Nat), amount : Nat \cup {Null},
     impact : {NoPair} \cup (Nat \X Nat \X Nat), extra : BOOLEAN]

ASSUME ItemAssumption == Item \subseteq ItemType
ASSUME ArgumentsAssumption ==
    /\ Isin \subseteq Nat /\ Id \subseteq Nat /\ Day \subseteq Nat \ {Empty}
    /\ Raw \in Nat /\ MaxItems \in Nat /\ MaxResaves \in Nat

VARIABLES
    doc,        \* the actions of the file
    origin,     \* history: the actions as their author left them
    saves       \* the times they were saved since

fileVars == <<doc, origin, saves>>

FilesTyped ==
    /\ doc \in Seq(ItemType) /\ origin \in Seq(Item)
    /\ Len(doc) = Len(origin) /\ Len(doc) <= MaxItems
    /\ saves \in 0 .. MaxResaves

Present(x) == x # Null /\ x # Empty

-----------------------------------------------------------------------------
(* Loading *)

(* The structural checks.  Go and Rust decode into types and refuse what   *)
(* does not fit them; Python and JavaScript read it as absent.             *)
Structured(items) ==
    /\ \A i \in DOMAIN items : items[i].shape # "scalar"
    /\ \A i \in DOMAIN items : Present(items[i].isin) \/ Present(items[i].id)
    /\ \A i, j \in DOMAIN items :
         i # j /\ Present(items[i].id) => items[i].id # items[j].id

WellTyped(items) == \A i \in DOMAIN items : items[i].shape # "ill-typed"

PythonLoads(items)     == Structured(items)
JavaScriptLoads(items) == Structured(items)
GoLoads(items)         == Structured(items) /\ WellTyped(items)
RustLoads(items)       == Structured(items) /\ WellTyped(items)

Loads(w, items) ==
    \/ w = "python"     /\ PythonLoads(items)
    \/ w = "javascript" /\ JavaScriptLoads(items)
    \/ w = "go"         /\ GoLoads(items)
    \/ w = "rust"       /\ RustLoads(items)

-----------------------------------------------------------------------------
(* Indexes *)

PythonIndexesId(id)     == Present(id)
JavaScriptIndexesId(id) == Present(id)
GoIndexesId(id)         == id # Null
RustIndexesId(id)       == id # Null

IndexesId(w, id) ==
    \/ w = "python"     /\ PythonIndexesId(id)
    \/ w = "javascript" /\ JavaScriptIndexesId(id)
    \/ w = "go"         /\ GoIndexesId(id)
    \/ w = "rust"       /\ RustIndexesId(id)

(* JavaScript, Go and Rust keep the empty ISIN too. *)
IndexesIsin(w, isin) == IF w = "python" THEN Present(isin) ELSE isin # Null

HasId(w, items, id) == {i \in DOMAIN items : IndexesId(w, items[i].id) /\ items[i].id = id}

(* The position by_action_id finds: the last one indexed, 0 for none. *)
ByActionId(w, items, id) ==
    IF HasId(w, items, id) = {} THEN 0
    ELSE CHOOSE i \in HasId(w, items, id) : \A j \in HasId(w, items, id) : j <= i

(* The chosen positions of a file of n records, in their order there. *)
InOrder(n, chosen) ==
    LET kept[k \in 0 .. n] ==
          IF k = 0 THEN << >>
          ELSE IF k \in chosen THEN Append(kept[k - 1], k) ELSE kept[k - 1]
    IN  kept[n]

HasIsin(w, items, isin) ==
    {i \in DOMAIN items : IndexesIsin(w, items[i].isin) /\ items[i].isin = isin}

ByIsin(w, items, isin) == InOrder(Len(items), HasIsin(w, items, isin))

ByActionType(items, type) ==
    InOrder(Len(items), {i \in DOMAIN items : items[i].type = type})

-----------------------------------------------------------------------------
(* by_date_range, known_as_of *)

DateField == {"ann", "ex"}

(* Which dates count as there. *)
PythonHasDate(value)     == value # Null
JavaScriptHasDate(value) == Present(value)
GoHasDate(value)         == Present(value)
RustHasDate(value)       == value # Null

HasDate(w, value) ==
    \/ w = "python"     /\ PythonHasDate(value)
    \/ w = "javascript" /\ JavaScriptHasDate(value)
    \/ w = "go"         /\ GoHasDate(value)
    \/ w = "rust"       /\ RustHasDate(value)

(* An empty bound is no bound. *)
Within(value, from, to) ==
    /\ from # Empty => value >= from
    /\ to # Empty => value <= to

(* By date and id; a missing id sorts as the empty one, in Rust before it. *)
SortId(w, id) == IF w # "rust" /\ id = Null THEN Empty ELSE id

Precedes(w, items, field, i, j) ==
    \/ items[i][field] < items[j][field]
    \/ /\ items[i][field] = items[j][field]
       /\ SortId(w, items[i].id) < SortId(w, items[j].id)

(* The orders a range may be returned in: Go's sort alone is not stable.   *)
Orders(w, items, field, selected) ==
    {s \in SetToSeqs(selected) :
        \A k, l \in DOMAIN s : k < l =>
            /\ ~Precedes(w, items, field, s[l], s[k])
            /\ Precedes(w, items, field, s[k], s[l]) \/ s[k] < s[l] \/ w = "go"}

Dated(w, items, field, from, to) ==
    {i \in DOMAIN items : HasDate(w, items[i][field]) /\ Within(items[i][field], from, to)}

ByDateRange(w, items, field, from, to) ==
    Orders(w, items, field, Dated(w, items, field, from, to))

(* Mutant: known only the day after. *)
RustKnowsLater(ann, day)  == ann # Null /\ ann < day

PythonKnows(ann, day)     == Present(ann) /\ ann <= day
JavaScriptKnows(ann, day) == Present(ann) /\ ann <= day
GoKnows(ann, day)         == ann # Null /\ ann <= day
RustKnows(ann, day)       == ann # Null /\ ann <= day

Knows(w, ann, day) ==
    \/ w = "python"     /\ PythonKnows(ann, day)
    \/ w = "javascript" /\ JavaScriptKnows(ann, day)
    \/ w = "go"         /\ GoKnows(ann, day)
    \/ w = "rust"       /\ RustKnows(ann, day)

KnownAsOf(w, items, isin, day) ==
    InOrder(Len(items), {i \in HasIsin(w, items, isin) : Knows(w, items[i].ann, day)})

-----------------------------------------------------------------------------
(* adjust_prices.  A price is a fraction <<numerator, denominator>>.       *)

(* The impact <<numerator, denominator, cash>> comes before the ratio      *)
(* <<new, old>> and the amount.                                            *)
Multiplier(a) ==
    CASE a.impact # NoPair -> <<a.impact[1], a.impact[2]>>
      [] a.impact = NoPair /\ a.ratio # NoPair /\ a.ratio[1] > 0 -> <<a.ratio[2], a.ratio[1]>>
      [] OTHER -> <<1, 1>>

Cash(a) ==
    CASE a.impact # NoPair -> a.impact[3]
      [] a.impact = NoPair /\ a.amount # Null -> a.amount
      [] OTHER -> 0

Applies(a, day) ==
    a.type \in SplitTypes \cup CashTypes /\ Present(a.ex) /\ a.ex > day

(* What an action does to a price. *)
Effect(a) == [split |-> a.type \in SplitTypes, multiplier |-> Multiplier(a), cash |-> Cash(a)]

Adjust(price, effect) ==
    IF effect.split
    THEN <<price[1] * effect.multiplier[1], price[2] * effect.multiplier[2]>>
    ELSE <<price[1] - effect.cash * price[2], price[2]>>

PriceAfter(effects) ==
    LET price[k \in 0 .. Len(effects)] ==
          IF k = 0 THEN <<Raw, 1>> ELSE Adjust(price[k - 1], effects[k])
    IN  price[Len(effects)]

Applied(w, items, isin, day) ==
    InOrder(Len(items), {i \in HasIsin(w, items, isin) : Applies(items[i], day)})

Effects(items, positions) == [k \in DOMAIN positions |-> Effect(items[positions[k]])]

(* The adjusted price of a bar: in the order of the file.  An ISIN without *)
(* actions gets no bars.                                                   *)
Adjusted(w, items, isin, day) ==
    IF HasIsin(w, items, isin) = {} THEN NoPair
    ELSE PriceAfter(Effects(items, Applied(w, items, isin, day)))

-----------------------------------------------------------------------------
(* Saving.  The wrappers with types drop what they do not know.            *)

(* Mutant: to_dict drops what is false instead of what is None. *)
PythonSavesTruthy(a) ==
    [a EXCEPT !.extra = FALSE, !.shape = "object",
              !.id = IF a.id = Empty THEN Null ELSE a.id,
              !.amount = IF a.amount = 0 THEN Null ELSE a.amount]

PythonSaves(a)     == [a EXCEPT !.extra = FALSE, !.shape = "object"]
JavaScriptSaves(a) == a
GoSaves(a)         == [a EXCEPT !.extra = FALSE]
RustSaves(a)       == [a EXCEPT !.extra = FALSE]

Saves(w, a) ==
    CASE w = "python"     -> PythonSaves(a)
      [] w = "javascript" -> JavaScriptSaves(a)
      [] w = "go"         -> GoSaves(a)
      [] w = "rust"       -> RustSaves(a)

-----------------------------------------------------------------------------
(* Files *)

FileInit == doc = << >> /\ origin = << >> /\ saves = 0

Author(a) ==
    /\ saves = 0 /\ Len(doc) < MaxItems
    /\ doc' = Append(doc, a) /\ origin' = doc'
    /\ UNCHANGED saves

(* Mutant: records without an id are skipped. *)
ResaveSkipping(w) ==
    /\ saves < MaxResaves /\ Loads(w, doc)
    /\ doc' = SelectSeq(doc, LAMBDA a : Present(a.id))
    /\ saves' = saves + 1
    /\ UNCHANGED origin

(* Load and save again.  A file that does not load stays as it is. *)
Resave(w) ==
    /\ saves < MaxResaves /\ Loads(w, doc)
    /\ doc' = [i \in DOMAIN doc |-> Saves(w, doc[i])]
    /\ saves' = saves + 1
    /\ UNCHANGED origin

FileNext == (\E a \in Item : Author(a)) \/ (\E w \in Wrapper : Resave(w))

FileSpec == FileInit /\ [][FileNext]_fileVars

-----------------------------------------------------------------------------
(* Properties *)

(* What the fields known to every wrapper hold. *)
KnownPart(a) == [a EXCEPT !.extra = FALSE, !.shape = "object"]

Answers(w, items) ==
    [contents |-> [i \in DOMAIN items |-> KnownPart(items[i])],
     isin  |-> [x \in Isin |-> ByIsin(w, items, x)],
     id    |-> [x \in Id |-> ByActionId(w, items, x)],
     type  |-> [x \in SplitTypes \cup CashTypes |-> ByActionType(items, x)],
     range |-> [f \in DateField |-> [from \in Day \cup {Empty} |-> [to \in Day \cup {Empty} |->
                    ByDateRange(w, items, f, from, to)]]],
     known |-> [x \in Isin |-> [day \in Day |-> KnownAsOf(w, items, x, day)]],
     price |-> [x \in Isin |-> [day \in Day |-> <<Adjusted(w, items, x, day),
                                                  Applied(w, items, x, day)>>]]]

(* Every id given, no empty string anywhere: what schema.json lets pass. *)
Plain(items) ==
    /\ WellTyped(items)
    /\ \A i \in DOMAIN items :
         /\ Present(items[i].id) /\ items[i].isin # Empty
         /\ items[i].ann # Empty /\ items[i].ex # Empty

(* The wrapper contract's "same inputs, same outputs": the four load the   *)
(* same well-typed files, and give the same answer to every query about a  *)
(* file without empty strings and missing ids.                             *)
SameAnswers ==
    \A w, v \in Wrapper :
        /\ WellTyped(doc) => (Loads(w, doc) <=> Loads(v, doc))
        /\ Plain(doc) /\ Loads(w, doc) => Answers(w, doc) = Answers(v, doc)

(* A file that a wrapper can load it can still load, with the same answers,*)
(* after others have loaded and saved it in any order.                     *)
AnswersSurviveSaves ==
    \A w \in Wrapper : Loads(w, origin) =>
        Loads(w, doc) /\ Answers(w, doc) = Answers(w, origin)

(* wrapper_contract.md: the price times the product of the multipliers     *)
(* minus the sum of the cash amounts of the actions with a later ex-date.  *)
Due(items, isin, day) == {i \in DOMAIN items : items[i].isin = isin /\ items[i].ex > day}

OfTypes(items, set, types) == {i \in set : items[i].type \in types}

Composed(items, isin, day) ==
    LET due  == Due(items, isin, day)
        all  == MapThenFoldSet(LAMBDA m, n : <<m[1] * n[1], m[2] * n[2]>>, <<1, 1>>,
                               LAMBDA i : Multiplier(items[i]), LAMBDA S : CHOOSE i \in S : TRUE,
                               OfTypes(items, due, SplitTypes))
        cash == MapThenSumSet(LAMBDA i : Cash(items[i]), OfTypes(items, due, CashTypes))
    IN  <<Raw * all[1] - cash * all[2], all[2]>>

SamePrice(p, q) == p[1] * q[2] = q[1] * p[2]

Composes(items, isin, day) ==
    \A w \in Wrapper :
        Loads(w, items) /\ Adjusted(w, items, isin, day) # NoPair =>
            SamePrice(Adjusted(w, items, isin, day), Composed(items, isin, day))

(* Violated.  The contract says it of every bar, and that the order of     *)
(* application does not change the result.                                 *)
AlwaysComposes == \A x \in Isin \ {Empty}, day \in Day : Composes(doc, x, day)
=============================================================================
