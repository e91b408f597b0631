---------------------------- MODULE FilingProofs ----------------------------
(***************************************************************************)
(* Theorems about the SEC fetcher, for every list of instruments, every    *)
(* collection of filings and any number of runs, and about its rate limit, *)
(* for every capacity, every set of threads and every pattern of demands.  *)
(***************************************************************************)
EXTENDS FilingFetch, TokenBucket, WellFoundedInduction, TLAPS

-----------------------------------------------------------------------------
(* Sequences and what is extracted from them *)

(* Among numbers there is a least one. *)
LEMMA LeastNumber ==
    ASSUME NEW T, T \subseteq Nat, T # {}
    PROVE  \E x \in T : \A y \in T : x <= y
<1>1. IsWellFoundedOn(OpToRel(<, Nat), Nat)
    BY NatLessThanWellFounded
<1>2. PICK x \in T : \A y \in T : ~ (<<y, x>> \in OpToRel(<, Nat))
    BY <1>1, WFMin
<1>3. \A y \in T : ~(y < x)
    BY <1>2 DEF OpToRel
<1> QED
    BY <1>3

(* Min is that number. *)
LEMMA MinIsLeast ==
    ASSUME NEW T, T \subseteq Nat, T # {}
    PROVE  Min(T) \in T /\ \A y \in T : Min(T) <= y
    BY LeastNumber DEF Min

(* Lists put together hold what each of them holds. *)
LEMMA RangeOfConcat ==
    ASSUME NEW S, NEW s \in Seq(S), NEW t \in Seq(S)
    PROVE  /\ s \o t \in Seq(S)
           /\ ToSet(s \o t) = ToSet(s) \cup ToSet(t)
<1>1. /\ s \o t \in Seq(S) /\ Len(s \o t) = Len(s) + Len(t)
      /\ \A k \in 1 .. Len(s) : (s \o t)[k] = s[k]
      /\ \A k \in 1 .. Len(t) : (s \o t)[Len(s) + k] = t[k]
    OBVIOUS
<1>2. \A k \in 1 .. Len(s) + Len(t) : k \in 1 .. Len(s) \/ k - Len(s) \in 1 .. Len(t)
    OBVIOUS
<1>3. ToSet(s \o t) \subseteq ToSet(s) \cup ToSet(t)
  <2> SUFFICES ASSUME NEW k \in 1 .. Len(s) + Len(t)
               PROVE  (s \o t)[k] \in ToSet(s) \cup ToSet(t)
    BY <1>1 DEF ToSet
  <2>1. CASE k \in 1 .. Len(s)
    BY <1>1, <2>1 DEF ToSet
  <2>2. CASE k - Len(s) \in 1 .. Len(t)
    <3>1. k = Len(s) + (k - Len(s))
        OBVIOUS
    <3> QED
        BY <1>1, <2>2, <3>1 DEF ToSet
  <2> QED
    BY <1>2, <2>1, <2>2
<1>4. ToSet(s) \subseteq ToSet(s \o t)
    BY <1>1 DEF ToSet
<1>5. ToSet(t) \subseteq ToSet(s \o t)
  <2> SUFFICES ASSUME NEW k \in 1 .. Len(t) PROVE t[k] \in ToSet(s \o t)
    BY DEF ToSet
  <2>1. Len(s) + k \in 1 .. Len(s) + Len(t)
    OBVIOUS
  <2> QED
    BY <1>1, <2>1 DEF ToSet
<1> QED
    BY <1>1, <1>3, <1>4, <1>5

LEMMA RangeWithHead ==
    ASSUME NEW S, NEW x \in S, NEW t \in Seq(S)
    PROVE  /\ <<x>> \o t \in Seq(S)
           /\ ToSet(<<x>> \o t) = {x} \cup ToSet(t)
<1> DEFINE head == <<x>>
<1>1. head \in Seq(S) /\ ToSet(head) = {x}
    BY DEF ToSet
<1> HIDE DEF head
<1>2. head \o t \in Seq(S) /\ ToSet(head \o t) = {x} \cup ToSet(t)
    BY <1>1, RangeOfConcat
<1> QED
    BY <1>2 DEF head

LEMMA RangeWithLast ==
    ASSUME NEW S, NEW s \in Seq(S), s # << >>
    PROVE  /\ Front(s) \in Seq(S) /\ Last(s) \in S
           /\ ToSet(s) = ToSet(Front(s)) \cup {Last(s)}
<1> DEFINE n == Len(s)
<1>1. /\ n \in Nat /\ n # 0 /\ DOMAIN s = 1 .. n
      /\ DOMAIN Front(s) = 1 .. n - 1
      /\ \A k \in 1 .. n - 1 : Front(s)[k] = s[k]
      /\ Last(s) = s[n]
    BY DEF Front, Last
<1>2. Front(s) \in Seq(S) /\ Last(s) \in S
    BY DEF Front, Last
<1> HIDE DEF n
<1>3. n \in 1 .. n /\ \A k \in 1 .. n : k \in 1 .. n - 1 \/ k = n
    BY <1>1
<1>4. ToSet(s) \subseteq ToSet(Front(s)) \cup {Last(s)}
    BY <1>1, <1>3 DEF ToSet
<1>5. ToSet(Front(s)) \cup {Last(s)} \subseteq ToSet(s)
    BY <1>1, <1>3 DEF ToSet
<1> QED
    BY <1>2, <1>4, <1>5

-----------------------------------------------------------------------------
(* Extraction *)

(* Whatever match a pattern prefers is one of the texts, with its value. *)
LEMMA PreferredTyped ==
    ASSUME NEW marks \in Seq(Seq(Mark)), NEW matches, matches \subseteq Places(marks),
           matches # {}
    PROVE  Preferred(marks, matches) \in Nat
<1> DEFINE Rank(p) == MarkAt(marks, p).rank
           chosen == CHOOSE p \in matches : \A q \in matches : Rank(p) <= Rank(q)
<1>1. \A p \in matches : MarkAt(marks, p) \in Mark
    BY DEF Places, MarkAt
<1>2. \A p \in matches : Rank(p) \in Nat /\ MarkAt(marks, p).value \in Nat
    BY <1>1 DEF Mark
<1>3. PICK r \in {Rank(p) : p \in matches} : \A q \in {Rank(p) : p \in matches} : r <= q
  <2>1. {Rank(p) : p \in matches} \subseteq Nat /\ {Rank(p) : p \in matches} # {}
    BY <1>2
  <2> HIDE DEF Rank
  <2> QED
    BY <2>1, LeastNumber
<1>4. \E p \in matches : \A q \in matches : Rank(p) <= Rank(q)
    BY <1>3
<1>5. chosen \in matches
    BY <1>4
<1>6. Preferred(marks, matches) = MarkAt(marks, chosen).value
    BY DEF Preferred
<1> QED
    BY <1>2, <1>5, <1>6

(* What is extracted is typed. *)
LEMMA AnnouncedTyped ==
    ASSUME NEW i \in DOMAIN Instruments, NEW f \in Filing, NEW marks \in Seq(Seq(Mark))
    PROVE  Announced(Instruments[i], f, marks) \in Seq(ActionType)
<1> DEFINE dates == {p \in Matches(marks, "date") : MarkAt(marks, p).value # NoDay}
<1>1. About[f].filed \in Nat
    BY AboutAssumption DEF FilingType
<1>2. Effective(f, marks) \in Nat
  <2>1. dates \subseteq Places(marks)
    BY DEF Matches, OfKind
  <2>2. Effective(f, marks) = IF dates = {} THEN About[f].filed ELSE Preferred(marks, dates)
    BY DEF Effective
  <2> HIDE DEF dates
  <2> QED
    BY <1>1, <2>1, <2>2, PreferredTyped
<1>3. Instruments[i].isin \in Nat
  <2>1. Instruments[i] \in InstrumentType
    BY InstrumentsAssumption
  <2> QED
    BY <2>1 DEF InstrumentType
<1>4. \A type \in {"SYMBOL_CHANGE", "DELISTING"} :
        Action(Instruments[i], f, type, marks) \in ActionType
    BY <1>1, <1>2, <1>3 DEF Action, ActionType
<1> QED
    BY <1>4 DEF Announced

(* No documents, no actions. *)
LEMMA NothingAnnounced ==
    ASSUME NEW i, NEW f
    PROVE  Announced(i, f, << >>) = << >>
<1>1. \A kind : OfKind(<< >>, kind) = {}
    BY DEF OfKind, Places
<1> QED
    BY <1>1 DEF Announced, ChangesSymbol

(* Deduplication loses no id and adds nothing. *)
LEMMA UniqueHasAllIds ==
    ASSUME NEW actions \in Seq(ActionType)
    PROVE  /\ Unique(actions) \subseteq ToSet(actions)
           /\ \A a \in ToSet(actions) : \E b \in Unique(actions) : ActionId(a) = ActionId(b)
<1>1. Unique(actions) \subseteq ToSet(actions)
    BY DEF Unique, ToSet
<1>2. ASSUME NEW k \in DOMAIN actions
      PROVE  \E b \in Unique(actions) : ActionId(actions[k]) = ActionId(b)
  <2> DEFINE same == {j \in DOMAIN actions : ActionId(actions[j]) = ActionId(actions[k])}
  <2>1. same \subseteq Nat /\ same # {}
    OBVIOUS
  <2>2. PICK m \in same : \A j \in same : m <= j
    BY <2>1, LeastNumber
  <2>3. \A j \in 1 .. m - 1 : j \in DOMAIN actions /\ ~(m <= j)
    BY <2>2
  <2>4. \A j \in 1 .. m - 1 : ActionId(actions[j]) # ActionId(actions[m])
    BY <2>2, <2>3
  <2>5. actions[m] \in Unique(actions)
    BY <2>2, <2>4 DEF Unique
  <2> QED
    BY <2>2, <2>5
<1> QED
    BY <1>1, <1>2 DEF ToSet

(* Every eligible filing of a list has a position that is read. *)
LEMMA WantedHasAll ==
    ASSUME NEW filings \in Seq(Filing)
    PROVE  /\ Wanted(filings) \subseteq DOMAIN filings
           /\ \A k \in Wanted(filings) : Eligible(filings[k])
           /\ \A f \in ToSet(filings) :
                Eligible(f) => \E k \in Wanted(filings) : filings[k] = f
<1>1. ASSUME NEW f \in ToSet(filings), Eligible(f)
      PROVE  \E k \in Wanted(filings) : filings[k] = f
  <2> DEFINE same == {j \in DOMAIN filings : filings[j] = f}
  <2>1. same \subseteq Nat /\ same # {}
    BY DEF ToSet
  <2>2. PICK m \in same : \A j \in same : m <= j
    BY <2>1, LeastNumber
  <2>3. \A j \in 1 .. m - 1 : j \in DOMAIN filings /\ ~(m <= j)
    BY <2>2
  <2> QED
    BY <1>1, <2>2, <2>3 DEF Wanted
<1> QED
    BY <1>1 DEF Wanted

-----------------------------------------------------------------------------
(* The inductive invariant *)

Own(c) == ToSet(recent[c]) \cup ToSet(archive[c])

(* What is listed stays with its company. *)
Lists == \A c \in Company : \A f \in Own(c) : About[f].company = c

(* The cache holds what never changes, whole unless a run was stopped or   *)
(* is writing.                                                             *)
Cached ==
    \A url \in Url :
        /\ cache[url].here => url[1] \notin {"submissions", "archive"}
        /\ cache[url].whole => cache[url].here /\ cache[url].body = Remote(url)
        /\ cache[url].here /\ ~cache[url].whole => torn \/ (saving /\ url = Asked)

Saving ==
    saving => pc \in {"index", "document"} /\ cache[Asked].here /\ ~cache[Asked].whole

(* The documents of a filing, the number of those read, and their texts. *)
Pages  == About[Current].documents
Read   == Len(Pages) - Len(left)
Intact == "document" \notin gaveUp /\ ~torn

Reading ==
    /\ left # << >> /\ Read \in Nat
    /\ \A k \in DOMAIN left : left[k] = Read + k
    /\ Intact => texts = SubSeq(Pages, 1, Read)

(* Where a run is. *)
Underway ==
    /\ pc # "idle" => exit = Running
    /\ Asking => errors < at
    /\ pc \in {"submissions", "archive"} => todo = {}
    /\ pc \in {"archive", "index", "document"} =>
         ToSet(listed) \subseteq Own(Instruments[at].company)
    /\ pc \in {"index", "document"} =>
         todo # {} /\ \A k \in todo : Eligible(listed[k])
    /\ pc = "document" => Reading

(* An action that some listed filing announces, if no document is wanting. *)
Announceable(a) ==
    \E i \in DOMAIN Instruments, f \in Listed :
        Concerns(f, Instruments[i]) /\ a \in Actions(Instruments[i], f)

Warranted(actions) == Intact => \A a \in actions : Announceable(a)

(* What the run has done of its task, if it has given nothing up: all that *)
(* comes before its place in the list of instruments, and of the one there *)
(* all that is not ahead.                                                  *)
Done(i, f) == Actions(Instruments[i], f) \subseteq ToSet(found)

Ahead(f) ==
    \/ pc = "submissions"
    \/ pc = "archive" /\ f \in ToSet(listed) \cup ToSet(archive[Instruments[at].company])
    \/ pc \in {"index", "document"} /\ \E k \in todo : listed[k] = f

Complete == errors = 0 /\ gaveUp = {} /\ ~torn

Progress ==
    pc # "idle" /\ Complete =>
        \A i \in DOMAIN Instruments, f \in began :
            Concerns(f, Instruments[i]) =>
                \/ Asking /\ i > at
                \/ Asking /\ i = at /\ Ahead(f)
                \/ Done(i, f)

FetchInv ==
    /\ TypeOK /\ Lists /\ Cached /\ Saving /\ Underway
    /\ began \subseteq Listed
    /\ Warranted(ToSet(found))
    /\ exit \in {0, 1} => Warranted(output.actions)
    /\ Progress
    /\ NothingMissed

-----------------------------------------------------------------------------
(* The SEC *)

(* What a URL answers is of its kind. *)
LEMMA UrlKinds ==
    ASSUME NEW url \in Url
    PROVE  \/ url[1] \in {"submissions", "archive"} /\ url[2] \in Company
           \/ url[1] = "index" /\ url[2] \in Filing
           \/ /\ url[1] = "document" /\ url[2][1] \in Filing
              /\ url[2][2] \in Documents(url[2][1])
    BY DEF Url, DocumentUrls

LEMMA RemoteTyped ==
    ASSUME TypeOK, NEW url \in Url
    PROVE  Remote(url) \in Bodies(url)
<1>1. \A f \in Filing : About[f].documents \in Seq(Seq(Mark))
    BY AboutAssumption DEF FilingType
<1>2. CASE url[1] \in {"submissions", "archive"} /\ url[2] \in Company
  <2>1. recent[url[2]] \in Seq(Filing) /\ archive[url[2]] \in Seq(Filing)
    BY <1>2 DEF TypeOK
  <2> QED
    BY <1>2, <2>1 DEF Remote, Bodies
<1>3. CASE url[1] = "index" /\ url[2] \in Filing
  <2>1. [k \in Documents(url[2]) |-> k] \in Seq(Nat)
    BY <1>1, <1>3 DEF Documents
  <2> QED
    BY <1>3, <2>1 DEF Remote, Bodies
<1>4. CASE /\ url[1] = "document" /\ url[2][1] \in Filing
           /\ url[2][2] \in Documents(url[2][1])
  <2>1. About[url[2][1]].documents[url[2][2]] \in Seq(Mark)
    BY <1>1, <1>4 DEF Documents
  <2> QED
    BY <1>4, <2>1 DEF Remote, Bodies
<1> QED
    BY <1>2, <1>3, <1>4, UrlKinds

(* Filings are listed once and for all, and only move to the archive. *)
LEMMA ListsGrow ==
    ASSUME TypeOK, Lists, NEW f \in Filing, NEW c \in Company, Publish(f) \/ Roll(c)
    PROVE  /\ recent' \in [Company -> Seq(Filing)] /\ archive' \in [Company -> Seq(Filing)]
           /\ Lists'
           /\ \A d \in Company : /\ Own(d) \subseteq Own(d)'
                                 /\ ToSet(archive[d]) \subseteq ToSet(archive'[d])
           /\ Listed \subseteq Listed'
<1>1. recent \in [Company -> Seq(Filing)] /\ archive \in [Company -> Seq(Filing)]
    BY DEF TypeOK
<1>2. CASE Publish(f)
  <2> DEFINE b == About[f].company
  <2>1. b \in Company
    BY AboutAssumption DEF FilingType
  <2>2. recent' = [recent EXCEPT ![b] = <<f>> \o @] /\ archive' = archive
    BY <1>2 DEF Publish
  <2>3. <<f>> \o recent[b] \in Seq(Filing)
        /\ ToSet(<<f>> \o recent[b]) = {f} \cup ToSet(recent[b])
    <3>1. recent[b] \in Seq(Filing)
        BY <1>1, <2>1
    <3> QED
        BY <3>1, RangeWithHead
  <2>4. \A d \in Company : Own(d)' = IF d = b THEN Own(d) \cup {f} ELSE Own(d)
    BY <1>1, <2>2, <2>3 DEF Own
  <2>5. Lists'
    BY <2>4 DEF Lists
  <2>6. \A d \in Company : /\ Own(d) \subseteq Own(d)'
                           /\ ToSet(archive[d]) \subseteq ToSet(archive'[d])
    BY <2>2, <2>4
  <2>7. Listed \subseteq Listed'
    BY <2>6 DEF Listed, Own
  <2> QED
    BY <1>1, <2>1, <2>2, <2>3, <2>5, <2>6, <2>7
<1>3. CASE Roll(c)
  <2>1. /\ recent[c] # << >>
        /\ recent' = [recent EXCEPT ![c] = Front(recent[c])]
        /\ archive' = [archive EXCEPT ![c] = <<Last(recent[c])>> \o archive[c]]
    BY <1>3 DEF Roll
  <2>2. /\ Front(recent[c]) \in Seq(Filing) /\ Last(recent[c]) \in Filing
        /\ ToSet(recent[c]) = ToSet(Front(recent[c])) \cup {Last(recent[c])}
    BY <1>1, <2>1, RangeWithLast
  <2>3. /\ <<Last(recent[c])>> \o archive[c] \in Seq(Filing)
        /\ ToSet(<<Last(recent[c])>> \o archive[c]) = {Last(recent[c])} \cup ToSet(archive[c])
    <3>1. archive[c] \in Seq(Filing)
        BY <1>1
    <3> QED
        BY <2>2, <3>1, RangeWithHead
  <2>4. \A d \in Company : Own(d)' = Own(d)
    BY <1>1, <2>1, <2>2, <2>3 DEF Own
  <2>5. Lists'
    BY <2>4 DEF Lists
  <2>6. \A d \in Company : ToSet(archive[d]) \subseteq ToSet(archive'[d])
    BY <1>1, <2>1, <2>3
  <2>7. Listed \subseteq Listed'
    BY <2>4 DEF Listed, Own
  <2> QED
    BY <1>1, <2>1, <2>2, <2>3, <2>4, <2>5, <2>6, <2>7
<1> QED
    BY <1>2, <1>3

-----------------------------------------------------------------------------
(* A response and what the run does with it *)

(* The part of the invariant that is about the memory of the process. *)
RunTyped ==
    /\ pc \in {"idle", "submissions", "archive", "index", "document", "write", "flush"}
    /\ at \in 1 .. Len(Instruments) /\ errors \in 0 .. Len(Instruments)
    /\ listed \in Seq(Filing) /\ todo \subseteq DOMAIN listed
    /\ left \in Seq(Nat) /\ texts \in Seq(Seq(Mark))
    /\ found \in Seq(ActionType)

RunInv == RunTyped /\ Underway /\ Warranted(ToSet(found)) /\ Progress

(* What receiving a response leaves alone. *)
Kept == UNCHANGED <<world, exit, began, torn>>

LEMMA RunInvHolds == FetchInv => RunInv
    BY DEF FetchInv, RunInv, RunTyped, TypeOK

(* While nothing is published, what is announced is what was. *)
LEMMA SameWorld ==
    ASSUME Kept
    PROVE  /\ Listed' = Listed /\ \A c : Own(c)' = Own(c)
           /\ \A a : Announceable(a) => Announceable(a)'
<1>1. recent' = recent /\ archive' = archive
    BY DEF Kept, world
<1>2. Listed' = Listed /\ \A c : Own(c)' = Own(c)
    BY <1>1 DEF Listed, Own
<1> QED
    BY <1>2 DEF Announceable

(* Every filing a company lists is in the registers of that company. *)
LEMMA OwnFilings ==
    ASSUME FetchInv, NEW f \in Listed
    PROVE  About[f].company \in Company /\ f \in Own(About[f].company)
    BY DEF FetchInv, Lists, Listed, Own

(* The place the run goes on at. *)
LEMMA GoOnPlace ==
    ASSUME at \in 1 .. Len(Instruments), NEW positions, GoOn(positions)
    PROVE  /\ at' \in 1 .. Len(Instruments) /\ todo' = positions
           /\ \/ pc' = "index" /\ positions # {} /\ at' = at
              \/ pc' = "submissions" /\ positions = {} /\ at' = at + 1
              \/ pc' = "write" /\ positions = {} /\ at' = at /\ at = Len(Instruments)
<1>1. Len(Instruments) \in Nat
    BY InstrumentsAssumption
<1> QED
    BY <1>1 DEF GoOn

(* Nothing is skipped on the way there. *)
LEMMA GoOnProgress ==
    ASSUME at \in 1 .. Len(Instruments), NEW positions, GoOn(positions), began' = began,
           Complete' =>
               \A i \in DOMAIN Instruments, f \in began :
                   Concerns(f, Instruments[i]) =>
                       \/ i > at
                       \/ i = at /\ \E k \in positions : listed'[k] = f
                       \/ Done(i, f)'
    PROVE  Progress'
<1> SUFFICES ASSUME Complete', NEW i \in DOMAIN Instruments, NEW f \in began,
                    Concerns(f, Instruments[i]), ~Done(i, f)'
             PROVE  Asking' /\ (i > at' \/ (i = at' /\ Ahead(f)'))
    BY DEF Progress
<1>1. DOMAIN Instruments = 1 .. Len(Instruments) /\ Len(Instruments) \in Nat
    BY InstrumentsAssumption
<1>2. i > at \/ (i = at /\ \E k \in positions : listed'[k] = f)
    OBVIOUS
<1>3. CASE pc' = "index" /\ positions # {} /\ at' = at
    BY <1>2, <1>3, GoOnPlace DEF Asking, Ahead
<1>4. CASE pc' = "submissions" /\ positions = {} /\ at' = at + 1
  <2>1. i > at
    BY <1>2, <1>4
  <2>2. i > at' \/ i = at'
    BY <1>1, <1>4, <2>1
  <2> QED
    BY <1>4, <2>2 DEF Asking, Ahead
<1>5. CASE pc' = "write" /\ positions = {} /\ at' = at /\ at = Len(Instruments)
  <2>1. i > Len(Instruments)
    BY <1>2, <1>5
  <2> QED
    BY <1>1, <2>1
<1> QED
    BY <1>3, <1>4, <1>5, GoOnPlace

(* The list of filings of a company. *)
LEMMA ListRecentKeeps ==
    ASSUME FetchInv, NEW ok \in BOOLEAN, NEW body, ListRecent(ok, body), Kept,
           gaveUp \subseteq gaveUp',
           ok => body = recent[Instruments[at].company],
           ~ok => body = << >>
    PROVE  RunInv'
<1> DEFINE c == Instruments[at].company
<1>0. RunInv /\ TypeOK /\ pc = "submissions" /\ Asking
    BY RunInvHolds DEF FetchInv, ListRecent, Asking
<1>1. at \in DOMAIN Instruments /\ c \in Company /\ Len(Instruments) \in Nat
      /\ DOMAIN Instruments = 1 .. Len(Instruments)
    BY <1>0, InstrumentsAssumption DEF RunInv, RunTyped, Company
<1>2. recent[c] \in Seq(Filing) /\ archive[c] \in Seq(Filing)
    BY <1>0, <1>1 DEF TypeOK
<1>3. /\ left' = left /\ texts' = texts /\ found' = found
      /\ exit' = exit /\ began' = began /\ torn' = torn
      /\ recent' = recent /\ archive' = archive
    BY DEF ListRecent, Kept, world
<1>4. exit = Running /\ errors < at /\ todo = {}
    BY <1>0 DEF RunInv, Underway
<1>5. Warranted(ToSet(found))'
    BY <1>0, <1>3, SameWorld DEF RunInv, Warranted, Intact
<1>6. CASE ok
  <2>1. pc' = "archive" /\ at' = at /\ errors' = errors /\ todo' = todo
        /\ listed' = recent[c] /\ ToSet(recent[c]) \subseteq Own(c)'
    BY <1>3, <1>6 DEF ListRecent, Own
  <2>2. RunTyped'
    BY <1>0, <1>2, <1>3, <1>4, <2>1 DEF RunInv, RunTyped
  <2>3. Underway'
    BY <1>3, <1>4, <2>1 DEF Underway, Asking
  <2>4. Progress'
    <3> SUFFICES ASSUME Complete', NEW i \in DOMAIN Instruments, NEW f \in began,
                        Concerns(f, Instruments[i])
                 PROVE  \/ Asking' /\ i > at'
                        \/ Asking' /\ i = at' /\ Ahead(f)'
                        \/ Done(i, f)'
        BY <1>3 DEF Progress
    <3>1. Complete
        BY <1>3, <2>1 DEF Complete
    <3>2. i > at \/ i = at \/ Done(i, f)
        BY <1>0, <3>1 DEF RunInv, Progress
    <3>3. CASE i = at
      <4>1. f \in Own(c)
        BY <3>3, OwnFilings DEF FetchInv, Concerns
      <4> QED
        BY <1>3, <2>1, <3>3, <4>1 DEF Asking, Ahead, Own
    <3> QED
        BY <1>3, <2>1, <3>2, <3>3 DEF Asking, Done
  <2> QED
    BY <1>5, <2>2, <2>3, <2>4 DEF RunInv
<1>7. CASE ~ok
  <2>1. errors' = errors + 1 /\ listed' = << >> /\ GoOn({})
    BY <1>7 DEF ListRecent
  <2>2. /\ at' \in 1 .. Len(Instruments) /\ todo' = {}
        /\ pc' \in {"submissions", "write"}
        /\ pc' = "submissions" => at' = at + 1
    BY <1>1, <2>1, GoOnPlace
  <2>3. errors \in Nat /\ at \in Nat /\ at <= Len(Instruments)
    BY <1>0, <1>1 DEF RunInv, RunTyped
  <2>4. RunTyped'
    BY <1>0, <1>1, <1>3, <1>4, <2>1, <2>2, <2>3 DEF RunInv, RunTyped
  <2>5. Underway'
    BY <1>3, <1>4, <2>1, <2>2, <2>3 DEF Underway, Asking
  <2>6. Progress'
    BY <2>1, <2>3 DEF Progress, Complete
  <2> QED
    BY <1>5, <2>4, <2>5, <2>6 DEF RunInv
<1> QED
    BY <1>6, <1>7

(* The archive: the list is complete, and its eligible filings are to come. *)
LEMMA ListArchiveKeeps ==
    ASSUME FetchInv, NEW ok \in BOOLEAN, NEW body, ListArchive(ok, body), Kept,
           gaveUp \subseteq gaveUp',
           ok => body = archive[Instruments[at].company],
           ~ok => body = << >> /\ ~Complete'
    PROVE  RunInv'
<1> DEFINE c == Instruments[at].company
           all == listed \o body
<1>0. RunInv /\ TypeOK /\ pc = "archive" /\ Asking
    BY RunInvHolds DEF FetchInv, ListArchive, Asking
<1>1. at \in DOMAIN Instruments /\ c \in Company /\ Len(Instruments) \in Nat
      /\ DOMAIN Instruments = 1 .. Len(Instruments)
    BY <1>0, InstrumentsAssumption DEF RunInv, RunTyped, Company
<1>2. archive[c] \in Seq(Filing) /\ listed \in Seq(Filing)
    BY <1>0, <1>1 DEF TypeOK
<1>3. /\ left' = left /\ texts' = texts /\ found' = found /\ errors' = errors
      /\ exit' = exit /\ began' = began /\ torn' = torn
      /\ listed' = all /\ GoOn(Wanted(all))
    BY DEF ListArchive, Kept
<1>4. exit = Running /\ errors < at /\ ToSet(listed) \subseteq Own(c)
    BY <1>0 DEF RunInv, Underway
<1>5. Warranted(ToSet(found))'
    BY <1>0, <1>3, SameWorld DEF RunInv, Warranted, Intact
<1>6. /\ all \in Seq(Filing) /\ ToSet(all) \subseteq Own(c)
      /\ ToSet(listed) \subseteq ToSet(all)
      /\ ok => ToSet(archive[c]) \subseteq ToSet(all)
  <2>1. body \in Seq(Filing) /\ ToSet(body) \subseteq Own(c)
    <3>1. CASE ok
        BY <1>2, <3>1 DEF Own
    <3>2. CASE ~ok
        BY <3>2 DEF ToSet
    <3> QED
        BY <3>1, <3>2
  <2>2. all \in Seq(Filing) /\ ToSet(all) = ToSet(listed) \cup ToSet(body)
    BY <1>2, <2>1, RangeOfConcat
  <2> QED
    BY <1>4, <2>1, <2>2
<1> HIDE DEF all
<1>7. /\ Wanted(all) \subseteq DOMAIN all
      /\ \A k \in Wanted(all) : Eligible(all[k])
      /\ \A f \in ToSet(all) : Eligible(f) => \E k \in Wanted(all) : all[k] = f
    BY <1>6, WantedHasAll
<1>8. /\ at' \in 1 .. Len(Instruments) /\ todo' = Wanted(all)
      /\ \/ pc' = "index" /\ Wanted(all) # {} /\ at' = at
         \/ pc' = "submissions" /\ Wanted(all) = {} /\ at' = at + 1
         \/ pc' = "write" /\ Wanted(all) = {} /\ at' = at /\ at = Len(Instruments)
    BY <1>1, <1>3, GoOnPlace
<1>9. errors \in Nat /\ at \in Nat /\ errors <= Len(Instruments)
    BY <1>0, <1>1 DEF RunInv, RunTyped
<1>10. RunTyped'
    BY <1>0, <1>3, <1>6, <1>7, <1>8 DEF RunInv, RunTyped
<1>11. Underway'
  <2>1. Asking' => errors' < at'
    BY <1>3, <1>4, <1>8, <1>9 DEF Asking
  <2> QED
    BY <1>3, <1>4, <1>6, <1>7, <1>8, <2>1, SameWorld DEF Underway
<1>12. Progress'
  <2> SUFFICES ASSUME Complete', NEW i \in DOMAIN Instruments, NEW f \in began,
                      Concerns(f, Instruments[i])
               PROVE  \/ i > at
                      \/ i = at /\ \E k \in Wanted(all) : listed'[k] = f
                      \/ Done(i, f)'
    BY <1>1, <1>3, GoOnProgress
  <2>1. Complete /\ ok
    BY <1>3 DEF Complete
  <2>2. i > at \/ (i = at /\ Ahead(f)) \/ Done(i, f)
    BY <1>0, <2>1 DEF RunInv, Progress
  <2>3. CASE i = at /\ Ahead(f)
    <3>1. f \in ToSet(all) /\ Eligible(f)
        BY <1>0, <1>6, <2>1, <2>3 DEF Ahead, Concerns
    <3> QED
        BY <1>3, <1>7, <2>3, <3>1
  <2> QED
    BY <1>3, <2>2, <2>3 DEF Done
<1> QED
    BY <1>5, <1>10, <1>11, <1>12 DEF RunInv

(* The filing a run is at. *)
LEMMA CurrentFiling ==
    ASSUME FetchInv, pc \in {"index", "document"}
    PROVE  /\ Min(todo) \in todo /\ Current \in Filing /\ Eligible(Current)
           /\ at \in DOMAIN Instruments
           /\ Current \in Listed /\ Concerns(Current, Instruments[at])
           /\ Pages \in Seq(Seq(Mark))
<1>1. /\ todo # {} /\ todo \subseteq DOMAIN listed /\ listed \in Seq(Filing)
      /\ ToSet(listed) \subseteq Own(Instruments[at].company)
      /\ \A k \in todo : Eligible(listed[k])
    BY DEF FetchInv, TypeOK, Underway
<1>2. at \in DOMAIN Instruments /\ Instruments[at].company \in Company
    BY InstrumentsAssumption DEF FetchInv, TypeOK, Company
<1>3. todo \subseteq Nat
    BY <1>1
<1>4. Min(todo) \in todo
    BY <1>1, <1>3, MinIsLeast
<1>5. Current \in Filing /\ Current \in ToSet(listed) /\ Eligible(Current)
    BY <1>1, <1>4 DEF Current, ToSet
<1>6. Current \in Own(Instruments[at].company)
    BY <1>1, <1>5
<1>7. Current \in Listed /\ About[Current].company = Instruments[at].company
    BY <1>2, <1>6 DEF FetchInv, Lists, Listed, Own
<1>8. Pages \in Seq(Seq(Mark))
    BY <1>5, AboutAssumption DEF Pages, FilingType
<1> QED
    BY <1>2, <1>4, <1>5, <1>7, <1>8 DEF Concerns

(* Going on with the next filing when the one a run was at is done. *)
LEMMA NextFiling ==
    ASSUME FetchInv, pc \in {"index", "document"}, Kept,
           GoOn(todo \ {Min(todo)}), errors' = errors, listed' = listed,
           left' \in Seq(Nat), texts' \in Seq(Seq(Mark)), found' \in Seq(ActionType),
           ToSet(found) \subseteq ToSet(found'), Warranted(ToSet(found))',
           Complete' => Complete /\ Actions(Instruments[at], Current) \subseteq ToSet(found')
    PROVE  RunInv'
<1> DEFINE rest == todo \ {Min(todo)}
<1>0. RunInv /\ Asking
    BY RunInvHolds DEF Asking
<1>1. at \in 1 .. Len(Instruments) /\ Len(Instruments) \in Nat
    BY <1>0, InstrumentsAssumption DEF RunInv, RunTyped
<1>2. /\ rest \subseteq DOMAIN listed /\ (\A k \in rest : Eligible(listed[k]))
      /\ ToSet(listed) \subseteq Own(Instruments[at].company)
      /\ exit = Running /\ errors < at
    BY <1>0 DEF RunInv, RunTyped, Underway
<1>8. GoOn(rest) /\ \A k \in todo : k = Min(todo) \/ k \in rest
    OBVIOUS
<1> HIDE DEF rest
<1>3. /\ at' \in 1 .. Len(Instruments) /\ todo' = rest
      /\ \/ pc' = "index" /\ rest # {} /\ at' = at
         \/ pc' = "submissions" /\ rest = {} /\ at' = at + 1
         \/ pc' = "write" /\ rest = {} /\ at' = at /\ at = Len(Instruments)
    BY <1>1, <1>8, GoOnPlace
<1>4. errors \in Nat /\ at \in Nat /\ errors <= Len(Instruments)
    BY <1>0, <1>1 DEF RunInv, RunTyped
<1>5. RunTyped'
    BY <1>0, <1>2, <1>3 DEF RunInv, RunTyped
<1>6. Underway'
  <2>1. pc' # "write" => errors < at'
    BY <1>2, <1>3, <1>4
  <2>2. exit' = exit /\ errors' = errors
    BY DEF Kept
  <2> QED
    BY <1>2, <1>3, <2>1, <2>2, SameWorld DEF Underway, Asking
<1>7. Progress'
  <2> SUFFICES ASSUME Complete', NEW i \in DOMAIN Instruments, NEW f \in began,
                      Concerns(f, Instruments[i])
               PROVE  \/ i > at
                      \/ i = at /\ \E k \in rest : listed'[k] = f
                      \/ Done(i, f)'
    BY <1>1, <1>8, GoOnProgress DEF Kept
  <2>1. i > at \/ (i = at /\ Ahead(f)) \/ Done(i, f)
    BY <1>0 DEF RunInv, Progress, Asking
  <2>2. CASE i = at /\ Ahead(f)
    <3>1. PICK k \in todo : listed[k] = f
        BY <2>2 DEF Ahead
    <3>2. CASE k = Min(todo)
        BY <2>2, <3>1, <3>2 DEF Current, Done
    <3>3. CASE k # Min(todo)
        BY <1>8, <2>2, <3>1, <3>3
    <3> QED
        BY <3>2, <3>3
  <2> QED
    BY <2>1, <2>2 DEF Done
<1> QED
    BY <1>5, <1>6, <1>7 DEF RunInv

(* The index of a filing. *)
LEMMA OpenIndexKeeps ==
    ASSUME FetchInv, NEW ok \in BOOLEAN, NEW body, OpenIndex(ok, body), Kept,
           gaveUp \subseteq gaveUp',
           ok => body = [k \in Documents(Current) |-> k],
           ~ok => body = << >> /\ ~Complete'
    PROVE  RunInv'
<1>0. RunInv /\ pc = "index"
    BY RunInvHolds DEF OpenIndex
<1>1. /\ Pages \in Seq(Seq(Mark)) /\ Len(Pages) \in Nat
      /\ Documents(Current) = 1 .. Len(Pages)
    BY <1>0, CurrentFiling DEF Documents, Pages
<1>2. /\ errors' = errors /\ listed' = listed /\ found' = found
      /\ exit' = exit /\ began' = began /\ torn' = torn
    BY DEF OpenIndex, Kept
<1>3. Warranted(ToSet(found))'
    BY <1>0, <1>2, SameWorld DEF RunInv, Warranted, Intact
<1>4. CASE ok /\ body # << >>
  <2>1. pc' = "document" /\ left' = body /\ texts' = << >> /\ at' = at /\ todo' = todo
    BY <1>4 DEF OpenIndex
  <2>2. body = [k \in 1 .. Len(Pages) |-> k]
    BY <1>1, <1>4
  <2>3. body \in Seq(Nat) /\ Len(body) = Len(Pages) /\ DOMAIN body = 1 .. Len(Pages)
        /\ \A k \in 1 .. Len(Pages) : body[k] = k
    BY <1>1, <2>2
  <2>4. Pages' = Pages
    BY <1>2, <2>1 DEF Pages, Current
  <2>5. Read' = 0
    BY <1>1, <2>1, <2>3, <2>4 DEF Read
  <2>6. Reading'
    <3>1. SubSeq(Pages, 1, 0) = << >>
        BY <1>1
    <3>2. \A k \in DOMAIN body : body[k] = 0 + k
        BY <1>1, <2>3
    <3> QED
        BY <1>4, <2>1, <2>4, <2>5, <3>1, <3>2 DEF Reading
  <2>7. RunTyped'
    BY <1>0, <1>2, <2>1, <2>3 DEF RunInv, RunTyped
  <2>8. Underway'
    BY <1>0, <1>2, <2>1, <2>6, SameWorld DEF RunInv, Underway, Asking
  <2>9. Progress'
    BY <1>0, <1>2, <2>1 DEF RunInv, Progress, Complete, Asking, Ahead, Done
  <2> QED
    BY <1>3, <2>7, <2>8, <2>9 DEF RunInv
<1>5. CASE ~(ok /\ body # << >>)
  <2>1. GoOn(todo \ {Min(todo)}) /\ left' = left /\ texts' = texts
    BY <1>5 DEF OpenIndex
  <2>2. Complete' => Complete /\ Actions(Instruments[at], Current) \subseteq ToSet(found')
    <3> SUFFICES ASSUME Complete'
                 PROVE  Complete /\ Actions(Instruments[at], Current) = {}
        OBVIOUS
    <3>1. Complete
        BY <1>2 DEF Complete
    <3>2. Pages = << >>
      <4>1. [k \in 1 .. Len(Pages) |-> k] = << >>
        BY <1>1, <1>5
      <4>2. DOMAIN [k \in 1 .. Len(Pages) |-> k] = 1 .. Len(Pages) /\ DOMAIN << >> = {}
        OBVIOUS
      <4>3. 1 .. Len(Pages) = {}
        BY <4>1, <4>2
      <4>4. Len(Pages) = 0
        <5>1. \A n \in Nat : n # 0 => 1 \in 1 .. n
            OBVIOUS
        <5> QED
            BY <1>1, <4>3, <5>1
      <4> QED
        BY <1>1, <4>4
    <3>3. Announced(Instruments[at], Current, Pages) = << >>
        BY <3>2, NothingAnnounced
    <3> QED
        BY <3>1, <3>3 DEF Actions, Pages, ToSet
  <2>3. left' \in Seq(Nat) /\ texts' \in Seq(Seq(Mark)) /\ found' \in Seq(ActionType)
    BY <1>0, <1>2, <2>1 DEF RunInv, RunTyped
  <2>4. ToSet(found) \subseteq ToSet(found')
    BY <1>2
  <2> QED
    BY <1>0, <1>2, <1>3, <2>1, <2>2, <2>3, <2>4, NextFiling
<1> QED
    BY <1>4, <1>5

(* A document of a filing, the last of which brings its actions. *)
LEMMA ReadDocumentKeeps ==
    ASSUME FetchInv, NEW ok \in BOOLEAN, NEW body \in Seq(Mark), ReadDocument(ok, body), Kept,
           gaveUp \subseteq gaveUp',
           Intact' => ok /\ body = Pages[Head(left)]
    PROVE  RunInv'
<1> DEFINE more == Announced(Instruments[at], Current, texts')
<1>0. RunInv /\ pc = "document" /\ Reading
    BY RunInvHolds DEF ReadDocument, RunInv, Underway
<1>1. /\ Pages \in Seq(Seq(Mark)) /\ Len(Pages) \in Nat /\ DOMAIN Pages = 1 .. Len(Pages)
      /\ Current \in Filing /\ Current \in Listed
      /\ at \in DOMAIN Instruments /\ Concerns(Current, Instruments[at])
    BY <1>0, CurrentFiling
<1>2. /\ errors' = errors /\ listed' = listed /\ left' = Tail(left)
      /\ texts' = IF ok THEN Append(texts, body) ELSE texts
      /\ exit' = exit /\ began' = began /\ torn' = torn
    BY DEF ReadDocument, Kept
<1>3. /\ left \in Seq(Nat) /\ left # << >> /\ texts \in Seq(Seq(Mark))
      /\ found \in Seq(ActionType)
    BY <1>0 DEF RunInv, RunTyped, Reading
<1>4. /\ Len(left) \in Nat /\ Len(left) # 0 /\ Head(left) = left[1]
      /\ Tail(left) \in Seq(Nat) /\ Len(Tail(left)) = Len(left) - 1
      /\ DOMAIN left = 1 .. Len(left) /\ DOMAIN Tail(left) = 1 .. Len(left) - 1
      /\ \A k \in 1 .. Len(left) - 1 : Tail(left)[k] = left[k + 1]
    BY <1>3
<1>5. Read \in Nat /\ Head(left) = Read + 1 /\ Read + 1 \in 1 .. Len(Pages)
  <2>1. Read \in Nat /\ left[1] = Read + 1
    BY <1>0, <1>4 DEF Reading
  <2>2. Read = Len(Pages) - Len(left)
    BY DEF Read
  <2> QED
    BY <1>1, <1>4, <2>1, <2>2
<1>6. texts' \in Seq(Seq(Mark))
    BY <1>2, <1>3
<1>7. Intact' => texts' = SubSeq(Pages, 1, Read + 1)
  <2> SUFFICES ASSUME Intact' PROVE texts' = SubSeq(Pages, 1, Read + 1)
    OBVIOUS
  <2>1. Intact
    BY <1>2 DEF Intact
  <2>2. texts = SubSeq(Pages, 1, Read)
    BY <1>0, <2>1 DEF Reading
  <2>3. texts' = Append(SubSeq(Pages, 1, Read), Pages[Read + 1])
    BY <1>2, <1>5, <2>2
  <2> HIDE DEF more
  <2>4. \A s \in Seq(Seq(Mark)), r \in Nat :
          r + 1 \in 1 .. Len(s) => Append(SubSeq(s, 1, r), s[r + 1]) = SubSeq(s, 1, r + 1)
    OBVIOUS
  <2> QED
    BY <1>1, <1>5, <2>3, <2>4
<1>8. CASE left' # << >>
  <2>1. pc' = pc /\ at' = at /\ todo' = todo /\ found' = found
    BY <1>8 DEF ReadDocument
  <2>2. Pages' = Pages
    BY <1>2, <2>1 DEF Pages, Current
  <2>3. Read' = Read + 1
    BY <1>1, <1>2, <1>4, <2>2 DEF Read
  <2>4. \A k \in DOMAIN left' : left'[k] = Read' + k
    <3> TAKE k \in DOMAIN left'
    <3>1. k \in 1 .. Len(left) - 1 /\ k + 1 \in DOMAIN left
        BY <1>2, <1>4
    <3>2. left[k + 1] = Read + (k + 1)
        BY <1>0, <3>1 DEF Reading
    <3> QED
        BY <1>2, <1>4, <1>5, <2>3, <3>1, <3>2
  <2>5. Reading'
    BY <1>5, <1>7, <1>8, <2>2, <2>3, <2>4 DEF Reading
  <2>6. RunTyped'
    BY <1>0, <1>2, <1>4, <1>6, <2>1 DEF RunInv, RunTyped
  <2>7. Underway'
    BY <1>0, <1>2, <2>1, <2>5, SameWorld DEF RunInv, Underway, Asking
  <2>8. Warranted(ToSet(found))'
    BY <1>0, <1>2, <2>1, SameWorld DEF RunInv, Warranted, Intact
  <2>9. Progress'
    BY <1>0, <1>2, <2>1 DEF RunInv, Progress, Complete, Asking, Ahead, Done
  <2> QED
    BY <2>6, <2>7, <2>8, <2>9 DEF RunInv
<1>9. CASE left' = << >>
  <2>1. found' = found \o more /\ GoOn(todo \ {Min(todo)})
    BY <1>9 DEF ReadDocument
  <2>2. more \in Seq(ActionType)
    BY <1>1, <1>6, AnnouncedTyped
  <2> HIDE DEF more
  <2>3. found' \in Seq(ActionType) /\ ToSet(found') = ToSet(found) \cup ToSet(more)
    BY <1>3, <2>1, <2>2, RangeOfConcat
  <2>4. Intact' => Intact /\ ToSet(more) = Actions(Instruments[at], Current)
    <3> SUFFICES ASSUME Intact'
                 PROVE  Intact /\ ToSet(more) = Actions(Instruments[at], Current)
        OBVIOUS
    <3>1. Intact
        BY <1>2 DEF Intact
    <3>2. Len(left) = 1
      <4>1. Len(left') = 0
        BY <1>9
      <4>2. Len(left') = Len(left) - 1
        BY <1>2, <1>4
      <4>3. Len(left) \in Nat
        BY <1>4
      <4> QED
        BY <4>1, <4>2, <4>3
    <3>3. Read + 1 = Len(Pages)
      <4>1. Read = Len(Pages) - Len(left)
        BY DEF Read
      <4> QED
        BY <1>1, <3>2, <4>1
    <3>4. texts' = SubSeq(Pages, 1, Len(Pages))
        BY <1>7, <3>3
    <3>5. texts' = Pages
        BY <1>1, <3>4
    <3> QED
        BY <3>1, <3>5 DEF more, Actions, Pages
  <2>5. Warranted(ToSet(found))'
    <3> SUFFICES ASSUME Intact', NEW a \in ToSet(found') PROVE Announceable(a)'
        BY DEF Warranted
    <3>1. Announceable(a)
      <4>1. CASE a \in ToSet(found)
        BY <1>0, <2>4, <4>1 DEF RunInv, Warranted
      <4>2. CASE a \in ToSet(more)
        BY <1>1, <2>4, <4>2 DEF Announceable
      <4> QED
        BY <2>3, <4>1, <4>2
    <3> QED
        BY <3>1, SameWorld
  <2>6. Complete' => Complete /\ Actions(Instruments[at], Current) \subseteq ToSet(found')
    BY <1>2, <2>3, <2>4 DEF Complete, Intact
  <2>7. left' \in Seq(Nat)
    BY <1>2, <1>4
  <2> QED
    BY <1>0, <1>2, <1>6, <2>1, <2>3, <2>5, <2>6, <2>7, NextFiling
<1> QED
    BY <1>8, <1>9

(* What a run asks for, and what the SEC answers. *)
LEMMA AskedFacts ==
    ASSUME FetchInv, Asking
    PROVE  /\ Asked \in Url /\ Asked[1] = pc
           /\ pc = "submissions" => Remote(Asked) = recent[Instruments[at].company]
           /\ pc = "archive" => Remote(Asked) = archive[Instruments[at].company]
           /\ pc = "index" => Remote(Asked) = [k \in Documents(Current) |-> k]
           /\ pc = "document" => Remote(Asked) = Pages[Head(left)]
<1>1. at \in DOMAIN Instruments /\ Instruments[at].company \in Company
    BY InstrumentsAssumption DEF FetchInv, TypeOK, Company
<1>2. CASE pc \in {"submissions", "archive"}
  <2>1. Asked = <<pc, Instruments[at].company>>
    BY <1>2 DEF Asked
  <2>2. Asked \in Url
    BY <1>1, <1>2, <2>1 DEF Url
  <2> QED
    BY <1>2, <2>1, <2>2 DEF Remote
<1>3. CASE pc = "index"
  <2>1. Asked = <<"index", Current>> /\ Current \in Filing
    BY <1>3, CurrentFiling DEF Asked
  <2>2. Asked \in Url
    BY <2>1 DEF Url
  <2> QED
    BY <1>3, <2>1, <2>2 DEF Remote
<1>4. CASE pc = "document"
  <2>1. /\ Asked = <<"document", <<Current, Head(left)>>>> /\ Current \in Filing
        /\ Pages \in Seq(Seq(Mark)) /\ Reading /\ left \in Seq(Nat)
    BY <1>4, CurrentFiling DEF Asked, FetchInv, Underway, TypeOK
  <2>2. /\ Len(left) \in Nat /\ Len(left) # 0 /\ Head(left) = left[1] /\ 1 \in DOMAIN left
        /\ Len(Pages) \in Nat /\ DOMAIN Pages = 1 .. Len(Pages)
    BY <2>1 DEF Reading
  <2>3. Read \in Nat /\ left[1] = Read + 1 /\ Read = Len(Pages) - Len(left)
    BY <2>1, <2>2 DEF Reading, Read
  <2>4. left[1] \in 1 .. Len(Pages)
    BY <2>2, <2>3
  <2>5. Head(left) \in Documents(Current)
    BY <2>2, <2>4 DEF Documents, Pages
  <2>6. Asked \in Url
    BY <2>1, <2>5 DEF Url, DocumentUrls
  <2> QED
    BY <1>4, <2>1, <2>6 DEF Remote, Pages
<1> QED
    BY <1>2, <1>3, <1>4 DEF Asking

(* A response is the answer of the SEC, a torn document, or none at all for *)
(* a reason that is on record.                                              *)
LEMMA ReceiveKeeps ==
    ASSUME FetchInv, Asking, NEW ok \in BOOLEAN, NEW body \in Bodies(Asked), Receive(ok, body),
           gaveUp \subseteq gaveUp',
           ok => body = Remote(Asked) \/ (pc = "document" /\ torn),
           ~ok => body = << >> /\ (\/ pc = "submissions" \/ pc \in gaveUp'
                                   \/ torn /\ pc # "document")
    PROVE  RunInv'
<1>0. Kept /\ torn' = torn
    BY DEF Receive, Kept
<1>1. CASE ListRecent(ok, body)
  <2>1. pc = "submissions"
    BY <1>1 DEF ListRecent
  <2>2. ok => body = recent[Instruments[at].company]
    BY <2>1, AskedFacts
  <2> QED
    BY <1>0, <1>1, <2>2, ListRecentKeeps
<1>2. CASE ListArchive(ok, body)
  <2>1. pc = "archive"
    BY <1>2 DEF ListArchive
  <2>2. ok => body = archive[Instruments[at].company]
    BY <2>1, AskedFacts
  <2>3. ~ok => ~Complete'
    BY <1>0, <2>1 DEF Complete
  <2> QED
    BY <1>0, <1>2, <2>2, <2>3, ListArchiveKeeps
<1>3. CASE OpenIndex(ok, body)
  <2>1. pc = "index"
    BY <1>3 DEF OpenIndex
  <2>2. ok => body = [k \in Documents(Current) |-> k]
    BY <2>1, AskedFacts
  <2>3. ~ok => ~Complete'
    BY <1>0, <2>1 DEF Complete
  <2> QED
    BY <1>0, <1>3, <2>2, <2>3, OpenIndexKeeps
<1>4. CASE ReadDocument(ok, body)
  <2>1. pc = "document" /\ Asked[1] = "document"
    BY <1>4, AskedFacts DEF ReadDocument
  <2>2. body \in Seq(Mark)
    BY <2>1 DEF Bodies
  <2>3. Intact' => ok /\ body = Pages[Head(left)]
    BY <1>0, <2>1, AskedFacts DEF Intact
  <2> QED
    BY <1>0, <1>4, <2>2, <2>3, ReadDocumentKeeps
<1> QED
    BY <1>1, <1>2, <1>3, <1>4 DEF Receive

-----------------------------------------------------------------------------
(* Steps *)

CacheTyped ==
    /\ DOMAIN cache = Url
    /\ \A url \in Url : /\ cache[url].here \in BOOLEAN /\ cache[url].whole \in BOOLEAN
                        /\ cache[url].body \in Bodies(url)

(* A step that receives a response keeps the invariant, if what it does to *)
(* the cache does.                                                         *)
LEMMA ReceiveInv ==
    ASSUME FetchInv, Asking, RunInv', CacheTyped', Cached',
           NEW ok, NEW body, Receive(ok, body),
           gaveUp' \subseteq {"archive", "index", "document"}
    PROVE  FetchInv'
<1>1. /\ recent' = recent /\ archive' = archive /\ output' = output /\ exit' = exit
      /\ runs' = runs /\ began' = began /\ torn' = torn /\ attempt' = 0 /\ saving' = FALSE
    BY DEF Receive, world
<1>2. TypeOK /\ exit = Running /\ Lists /\ began \subseteq Listed
    BY DEF FetchInv, Underway, Asking
<1>3. TypeOK'
  <2>1. RunTyped' /\ CacheTyped'
    BY DEF RunInv
  <2>2. attempt' \in 0 .. MaxRetries - 1 /\ saving' \in BOOLEAN
    <3>1. 0 \in 0 .. MaxRetries - 1
        BY DEF MaxRetries
    <3> QED
        BY <1>1, <3>1
  <2>3. /\ recent' \in [Company -> Seq(Filing)] /\ archive' \in [Company -> Seq(Filing)]
        /\ output'.whole \in BOOLEAN /\ output'.actions \subseteq ActionType
        /\ exit' \in {Running, 0, 1, 3} /\ runs' \in 0 .. MaxRuns
        /\ began' \subseteq Filing /\ torn' \in BOOLEAN
    BY <1>1, <1>2 DEF TypeOK
  <2> QED
    BY <2>1, <2>2, <2>3 DEF TypeOK, RunTyped, CacheTyped
<1>4. Lists' /\ (began \subseteq Listed)' /\ Saving'
    BY <1>1, <1>2 DEF Lists, Own, Listed, Saving
<1>5. NothingMissed' /\ (exit \in {0, 1} => Warranted(output.actions))'
    BY <1>1, <1>2 DEF NothingMissed, Running
<1> QED
    BY <1>3, <1>4, <1>5 DEF FetchInv, RunInv

(* What the SEC never changes it answers as before. *)
LEMMA SameRemote ==
    ASSUME NEW url \in Url, url[1] \notin {"submissions", "archive"}
    PROVE  Remote(url)' = Remote(url)
    BY UrlKinds DEF Remote, Documents

(* An answer from the cache. *)
LEMMA ServeCachedInv == FetchInv /\ ServeCached => FetchInv'
<1> SUFFICES ASSUME FetchInv, ServeCached PROVE FetchInv'
    OBVIOUS
<1> DEFINE entry == cache[Asked]
           ok    == entry.whole \/ pc = "document"
           body  == IF ok THEN entry.body ELSE << >>
<1>1. /\ Asking /\ Receive(ok, body) /\ cache' = cache /\ gaveUp' = gaveUp
      /\ pc \notin {"submissions", "archive"} /\ entry.here /\ ~saving
    BY DEF ServeCached, Hit, Cacheable
<1>2. /\ TypeOK /\ Cached /\ Asked \in Url /\ CacheTyped
    BY <1>1, AskedFacts DEF FetchInv, TypeOK, CacheTyped
<1>3. /\ entry.whole \in BOOLEAN /\ entry.body \in Bodies(Asked)
      /\ entry.whole => entry.body = Remote(Asked)
      /\ ~entry.whole => torn
    BY <1>1, <1>2 DEF Cached, CacheTyped
<1>4. pc = "index" \/ pc = "document"
    BY <1>1 DEF Asking
<1>5. body \in Bodies(Asked)
  <2>1. << >> \in Bodies(Asked)
    BY <1>1, <1>4, AskedFacts DEF Bodies
  <2> QED
    BY <1>3, <2>1
<1>6. ok \in BOOLEAN
    BY <1>3
<1>7. /\ ok => body = Remote(Asked) \/ (pc = "document" /\ torn)
      /\ ~ok => body = << >> /\ torn /\ pc # "document"
    BY <1>3
<1> HIDE DEF ok, body, entry
<1>8. RunInv'
    BY <1>1, <1>5, <1>6, <1>7, ReceiveKeeps
<1>9. torn' = torn /\ saving' = FALSE /\ UNCHANGED world
    BY <1>1 DEF Receive
<1>10. Cached'
    BY <1>1, <1>2, <1>9, SameRemote DEF Cached
<1>11. CacheTyped' /\ gaveUp' \subseteq {"archive", "index", "document"}
    BY <1>1, <1>2 DEF CacheTyped, TypeOK
<1> QED
    BY <1>1, <1>8, <1>10, <1>11, ReceiveInv

(* An answer of the SEC that is not cached. *)
LEMMA RespondInv == FetchInv /\ Respond => FetchInv'
<1> SUFFICES ASSUME FetchInv, Respond PROVE FetchInv'
    OBVIOUS
<1>1. /\ Asking /\ Receive(TRUE, Remote(Asked)) /\ cache' = cache /\ gaveUp' = gaveUp
      /\ pc \in {"submissions", "archive"}
    BY DEF Respond, Cacheable
<1>2. /\ TypeOK /\ Cached /\ Asked \in Url /\ CacheTyped /\ ~saving
    BY <1>1, AskedFacts DEF FetchInv, TypeOK, CacheTyped, Saving
<1>3. Remote(Asked) \in Bodies(Asked)
    BY <1>2, RemoteTyped
<1>4. RunInv'
    BY <1>1, <1>3, ReceiveKeeps
<1>5. torn' = torn /\ saving' = FALSE
    BY <1>1 DEF Receive
<1>6. Cached'
    BY <1>1, <1>2, <1>5, SameRemote DEF Cached
<1>7. CacheTyped' /\ gaveUp' \subseteq {"archive", "index", "document"}
    BY <1>1, <1>2 DEF CacheTyped, TypeOK
<1> QED
    BY <1>1, <1>4, <1>6, <1>7, ReceiveInv

(* An answer of the SEC that is in the cache now. *)
LEMMA SavedInv == FetchInv /\ Saved => FetchInv'
<1> SUFFICES ASSUME FetchInv, Saved PROVE FetchInv'
    OBVIOUS
<1>1. /\ saving /\ Receive(TRUE, Remote(Asked)) /\ gaveUp' = gaveUp
      /\ cache' = [cache EXCEPT ![Asked] =
                      [here |-> TRUE, whole |-> TRUE, body |-> Remote(Asked)]]
    BY DEF Saved
<1>2. pc \in {"index", "document"} /\ Asking
    BY <1>1 DEF FetchInv, Saving, Asking
<1>3. /\ TypeOK /\ Cached /\ Asked \in Url /\ CacheTyped
      /\ Asked[1] \notin {"submissions", "archive"}
    BY <1>2, AskedFacts DEF FetchInv, TypeOK, CacheTyped
<1>4. Remote(Asked) \in Bodies(Asked)
    BY <1>3, RemoteTyped
<1>5. RunInv'
    BY <1>1, <1>2, <1>4, ReceiveKeeps
<1>6. torn' = torn /\ saving' = FALSE
    BY <1>1 DEF Receive
<1>7. Cached'
  <2> SUFFICES ASSUME NEW url \in Url
               PROVE  /\ cache'[url].here => url[1] \notin {"submissions", "archive"}
                      /\ cache'[url].whole => cache'[url].here /\ cache'[url].body = Remote(url)'
                      /\ cache'[url].here /\ ~cache'[url].whole => torn'
    BY <1>6 DEF Cached
  <2>1. CASE url = Asked
    <3>1. cache'[url] = [here |-> TRUE, whole |-> TRUE, body |-> Remote(url)]
        BY <1>1, <1>3, <2>1 DEF CacheTyped
    <3>2. Remote(url)' = Remote(url)
        BY <1>3, <2>1, SameRemote
    <3> QED
        BY <1>3, <2>1, <3>1, <3>2
  <2>2. CASE url # Asked
    <3>1. cache'[url] = cache[url]
        BY <1>1, <1>3, <2>2 DEF CacheTyped
    <3> QED
        BY <1>3, <1>6, <2>2, <3>1, SameRemote DEF Cached
  <2> QED
    BY <2>1, <2>2
<1>8. CacheTyped' /\ gaveUp' \subseteq {"archive", "index", "document"}
    BY <1>1, <1>3, <1>4 DEF CacheTyped, TypeOK
<1> QED
    BY <1>1, <1>2, <1>5, <1>7, <1>8, ReceiveInv

(* No answer. *)
LEMMA GiveUpInv == FetchInv /\ GiveUp => FetchInv'
<1> SUFFICES ASSUME FetchInv, GiveUp PROVE FetchInv'
    OBVIOUS
<1>1. /\ Asking /\ Receive(FALSE, << >>) /\ cache' = cache /\ ~saving
      /\ gaveUp' = IF pc = "submissions" THEN gaveUp ELSE gaveUp \cup {pc}
    BY DEF GiveUp
<1>2. TypeOK /\ Cached /\ Asked \in Url /\ CacheTyped
    BY <1>1, AskedFacts DEF FetchInv, TypeOK, CacheTyped
<1>3. << >> \in Bodies(Asked)
    BY <1>1, AskedFacts DEF Bodies, Asking
<1>4. RunInv'
    BY <1>1, <1>3, ReceiveKeeps
<1>5. torn' = torn /\ saving' = FALSE
    BY <1>1 DEF Receive
<1>6. Cached'
    BY <1>1, <1>2, <1>5, SameRemote DEF Cached
<1>7. CacheTyped' /\ gaveUp' \subseteq {"archive", "index", "document"}
    BY <1>1, <1>2 DEF CacheTyped, TypeOK, Asking
<1> QED
    BY <1>1, <1>4, <1>6, <1>7, ReceiveInv

-----------------------------------------------------------------------------
(* Steps that leave the run where it is *)

(* What is asked for is a matter of the place. *)
LEMMA SamePlace ==
    ASSUME UNCHANGED place
    PROVE  Asked' = Asked /\ Asking' = Asking
    BY DEF place, Asked, Asking, Current

(* The process remembers, and what is listed grows. *)
LEMMA StayingInv ==
    ASSUME FetchInv, UNCHANGED <<place, output, exit, history>>,
           \A c \in Company : /\ Own(c) \subseteq Own(c)'
                              /\ ToSet(archive[c]) \subseteq ToSet(archive'[c]),
           Listed \subseteq Listed'
    PROVE  RunInv' /\ (exit \in {0, 1} => Warranted(output.actions))'
<1>1. /\ RunInv /\ exit' = exit /\ output' = output
      /\ began' = began /\ gaveUp' = gaveUp /\ torn' = torn
      /\ pc' = pc /\ at' = at /\ errors' = errors /\ listed' = listed /\ todo' = todo
      /\ left' = left /\ texts' = texts /\ found' = found
    BY RunInvHolds DEF place, history
<1>2. RunTyped'
    BY <1>1 DEF RunInv, RunTyped
<1>3. Instruments[at].company \in Company
    BY <1>1, InstrumentsAssumption DEF RunInv, RunTyped, Company
<1>4. Underway'
  <2>1. Reading' = Reading /\ Asking' = Asking
    BY <1>1 DEF Reading, Read, Pages, Current, Intact, Asking
  <2>2. Underway
    BY <1>1 DEF RunInv
  <2>3. ASSUME pc \in {"archive", "index", "document"}
        PROVE  (ToSet(listed) \subseteq Own(Instruments[at].company))'
    <3>1. PICK c \in Company : c = Instruments[at].company
        BY <1>3
    <3>2. ToSet(listed) \subseteq Own(c)
        BY <2>2, <2>3, <3>1 DEF Underway
    <3>3. Own(c) \subseteq Own(c)' /\ ToSet(listed') = ToSet(listed)
        BY <1>1
    <3>4. ToSet(listed') \subseteq Own(c)'
        BY <3>2, <3>3
    <3> QED
        BY <1>1, <3>1, <3>4 DEF Own
  <2> QED
    <3>1. /\ pc' # "idle" => exit' = Running
          /\ Asking' => errors' < at'
          /\ pc' \in {"submissions", "archive"} => todo' = {}
          /\ pc' \in {"index", "document"} =>
               todo' # {} /\ \A k \in todo' : Eligible(listed'[k])
          /\ pc' = "document" => Reading'
        BY <1>1, <2>1, <2>2 DEF Underway
    <3> QED
        BY <1>1, <2>3, <3>1 DEF Underway
<1>5. \A a : Announceable(a) => Announceable(a)'
    BY DEF Announceable
<1>6. Warranted(ToSet(found))'
    BY <1>1, <1>5 DEF RunInv, Warranted, Intact
<1>7. Progress'
  <2>1. \A f : Ahead(f) => Ahead(f)'
    BY <1>1, <1>3 DEF Ahead
  <2> QED
    BY <1>1, <2>1 DEF RunInv, Progress, Complete, Asking, Done
<1>8. (exit \in {0, 1} => Warranted(output.actions))'
    BY <1>1, <1>5 DEF FetchInv, Warranted, Intact
<1> QED
    BY <1>2, <1>4, <1>6, <1>7, <1>8 DEF RunInv
(* The whole invariant, of such a step. *)
LEMMA StayingKeeps ==
    ASSUME FetchInv, UNCHANGED <<place, output, exit, runs, history>>,
           \A c \in Company : /\ Own(c) \subseteq Own(c)'
                              /\ ToSet(archive[c]) \subseteq ToSet(archive'[c]),
           Listed \subseteq Listed',
           recent' \in [Company -> Seq(Filing)], archive' \in [Company -> Seq(Filing)], Lists',
           CacheTyped', Cached', Saving',
           attempt' \in 0 .. MaxRetries - 1, saving' \in BOOLEAN
    PROVE  FetchInv'
<1>1. RunInv' /\ (exit \in {0, 1} => Warranted(output.actions))'
    BY StayingInv
<1>2. output' = output /\ exit' = exit /\ runs' = runs
      /\ began' = began /\ gaveUp' = gaveUp /\ torn' = torn
    BY DEF history
<1>3. TypeOK /\ began \subseteq Listed /\ NothingMissed
    BY DEF FetchInv
<1>4. TypeOK'
  <2>1. RunTyped'
    BY <1>1 DEF RunInv
  <2>2. /\ output'.whole \in BOOLEAN /\ output'.actions \subseteq ActionType
        /\ exit' \in {Running, 0, 1, 3} /\ runs' \in 0 .. MaxRuns
        /\ began' \subseteq Filing /\ gaveUp' \subseteq {"archive", "index", "document"}
        /\ torn' \in BOOLEAN
    BY <1>2, <1>3 DEF TypeOK
  <2> QED
    BY <2>1, <2>2 DEF TypeOK, RunTyped, CacheTyped
<1>5. (began \subseteq Listed)' /\ NothingMissed'
    BY <1>2, <1>3 DEF NothingMissed
<1> QED
    BY <1>1, <1>4, <1>5 DEF FetchInv, RunInv

(* A response on its way into the cache. *)
LEMMA SaveResponseInv == FetchInv /\ SaveResponse => FetchInv'
<1> SUFFICES ASSUME FetchInv, SaveResponse PROVE FetchInv'
    OBVIOUS
<1>1. /\ Asking /\ Cacheable /\ ~cache[Asked].here /\ saving' = TRUE
      /\ UNCHANGED <<world, output, place, attempt, exit, runs, history>>
    BY DEF SaveResponse
<1>2. PICK n \in 0 .. Len(Remote(Asked)) :
         cache' = [cache EXCEPT ![Asked] =
                     [here |-> TRUE, whole |-> FALSE, body |-> SubSeq(Remote(Asked), 1, n)]]
    BY DEF SaveResponse
<1>3. /\ TypeOK /\ Cached /\ Saving /\ Lists /\ Asked \in Url /\ CacheTyped
      /\ pc \in {"index", "document"} /\ Asked[1] = pc
    BY <1>1, AskedFacts DEF FetchInv, TypeOK, CacheTyped, Asking, Cacheable
<1>4. /\ recent' = recent /\ archive' = archive /\ pc' = pc /\ torn' = torn
      /\ attempt' = attempt /\ Asked' = Asked
    BY <1>1, SamePlace DEF world, place, history
<1>5. ~saving
    BY <1>1, <1>3 DEF Saving
<1> DEFINE part  == SubSeq(Remote(Asked), 1, n)
           entry == [here |-> TRUE, whole |-> FALSE, body |-> part]
<1>6. part \in Bodies(Asked)
  <2>1. Remote(Asked) \in Bodies(Asked)
    BY <1>3, RemoteTyped
  <2>2. \E S : Bodies(Asked) = Seq(S)
    BY <1>3 DEF Bodies
  <2>3. ASSUME NEW S, NEW s \in Seq(S), NEW m \in 0 .. Len(s)
        PROVE  SubSeq(s, 1, m) \in Seq(S)
    OBVIOUS
  <2> QED
    BY <2>1, <2>2, <2>3
<1>7. entry.here = TRUE /\ entry.whole = FALSE /\ entry.body = part
    OBVIOUS
<1>8. cache' = [cache EXCEPT ![Asked] = entry]
    BY <1>2
<1> HIDE DEF part, entry
<1>9. DOMAIN cache' = Url /\ cache'[Asked] = entry
      /\ \A url \in Url : url # Asked => cache'[url] = cache[url]
    BY <1>3, <1>8 DEF CacheTyped
<1>10. CacheTyped'
    BY <1>3, <1>6, <1>7, <1>9 DEF CacheTyped, Bodies
<1>11. Saving'
    BY <1>3, <1>4, <1>7, <1>9 DEF Saving
<1>12. Cached'
  <2> SUFFICES ASSUME NEW url \in Url
               PROVE  /\ cache'[url].here => url[1] \notin {"submissions", "archive"}
                      /\ cache'[url].whole => cache'[url].here /\ cache'[url].body = Remote(url)'
                      /\ cache'[url].here /\ ~cache'[url].whole =>
                           torn' \/ (saving' /\ url = Asked')
    BY DEF Cached
  <2>1. CASE url = Asked
    BY <1>1, <1>3, <1>4, <1>7, <1>9, <2>1
  <2>2. CASE url # Asked
    <3>1. cache'[url] = cache[url]
        BY <1>9, <2>2
    <3> QED
        BY <1>3, <1>4, <1>5, <2>2, <3>1, SameRemote DEF Cached
  <2> QED
    BY <2>1, <2>2
<1>13. /\ recent' \in [Company -> Seq(Filing)] /\ archive' \in [Company -> Seq(Filing)] /\ Lists'
       /\ attempt' \in 0 .. MaxRetries - 1
    BY <1>3, <1>4 DEF TypeOK, Lists, Own
<1>14. /\ \A c \in Company : /\ Own(c) \subseteq Own(c)'
                             /\ ToSet(archive[c]) \subseteq ToSet(archive'[c])
       /\ Listed \subseteq Listed'
    BY <1>4 DEF Own, Listed
<1> QED
    BY <1>1, <1>10, <1>11, <1>12, <1>13, <1>14, StayingKeeps

(* A step that leaves the cache alone too. *)
LEMMA UntouchedCache ==
    ASSUME FetchInv, UNCHANGED <<cache, saving, torn, place>>
    PROVE  CacheTyped' /\ Cached' /\ Saving'
<1>1. CacheTyped /\ Cached /\ Saving
    BY DEF FetchInv, TypeOK, CacheTyped
<1>2. cache' = cache /\ saving' = saving /\ torn' = torn /\ pc' = pc /\ Asked' = Asked
    BY SamePlace DEF place
<1>3. CacheTyped'
    BY <1>1, <1>2 DEF CacheTyped
<1>4. Saving'
    BY <1>1, <1>2 DEF Saving
<1>5. Cached'
    BY <1>1, <1>2, SameRemote DEF Cached
<1> QED
    BY <1>3, <1>4, <1>5

(* Another attempt. *)
LEMMA RetryInv == FetchInv /\ Retry => FetchInv'
<1> SUFFICES ASSUME FetchInv, Retry PROVE FetchInv'
    OBVIOUS
<1>1. /\ attempt < MaxRetries - 1 /\ attempt' = attempt + 1
      /\ UNCHANGED <<world, disk, place, saving, exit, runs, history>>
    BY DEF Retry
<1>2. /\ recent' = recent /\ archive' = archive /\ cache' = cache /\ output' = output
      /\ torn' = torn
    BY <1>1 DEF world, disk, history
<1>3. TypeOK /\ Lists /\ attempt \in 0 .. MaxRetries - 1 /\ saving \in BOOLEAN
    BY DEF FetchInv, TypeOK
<1>4. attempt' \in 0 .. MaxRetries - 1 /\ saving' \in BOOLEAN
    BY <1>1, <1>3 DEF MaxRetries
<1>5. recent' \in [Company -> Seq(Filing)] /\ archive' \in [Company -> Seq(Filing)] /\ Lists'
    BY <1>2, <1>3 DEF TypeOK, Lists, Own
<1>6. /\ \A c \in Company : /\ Own(c) \subseteq Own(c)'
                            /\ ToSet(archive[c]) \subseteq ToSet(archive'[c])
      /\ Listed \subseteq Listed'
    BY <1>2 DEF Own, Listed
<1>7. CacheTyped' /\ Cached' /\ Saving'
    BY <1>1, <1>2, UntouchedCache
<1> QED
    BY <1>1, <1>2, <1>4, <1>5, <1>6, <1>7, StayingKeeps

(* The SEC goes on. *)
LEMMA SecInv ==
    ASSUME FetchInv, NEW f \in Filing, NEW c \in Company, Publish(f) \/ Roll(c)
    PROVE  FetchInv'
<1>1. UNCHANGED <<disk, place, request, exit, runs, history>>
    BY DEF Publish, Roll
<1>2. /\ cache' = cache /\ output' = output /\ torn' = torn
      /\ attempt' = attempt /\ saving' = saving
    BY <1>1 DEF disk, request, history
<1>3. TypeOK /\ Lists /\ attempt \in 0 .. MaxRetries - 1 /\ saving \in BOOLEAN
    BY DEF FetchInv, TypeOK
<1>4. CacheTyped' /\ Cached' /\ Saving'
    BY <1>1, <1>2, UntouchedCache
<1>5. /\ recent' \in [Company -> Seq(Filing)] /\ archive' \in [Company -> Seq(Filing)] /\ Lists'
      /\ \A d \in Company : /\ Own(d) \subseteq Own(d)'
                            /\ ToSet(archive[d]) \subseteq ToSet(archive'[d])
      /\ Listed \subseteq Listed'
    BY <1>3, ListsGrow
<1> QED
    BY <1>1, <1>2, <1>3, <1>4, <1>5, StayingKeeps

(* Nothing at all. *)
LEMMA StutterInv == FetchInv /\ UNCHANGED vars => FetchInv'
<1> SUFFICES ASSUME FetchInv, UNCHANGED vars PROVE FetchInv'
    OBVIOUS
<1>1. /\ UNCHANGED <<place, output, exit, runs, history>>
      /\ recent' = recent /\ archive' = archive /\ cache' = cache /\ output' = output
      /\ torn' = torn /\ attempt' = attempt /\ saving' = saving
    BY DEF vars, world, disk, request, history
<1>2. TypeOK /\ Lists /\ attempt \in 0 .. MaxRetries - 1 /\ saving \in BOOLEAN
    BY DEF FetchInv, TypeOK
<1>3. recent' \in [Company -> Seq(Filing)] /\ archive' \in [Company -> Seq(Filing)] /\ Lists'
    BY <1>1, <1>2 DEF TypeOK, Lists, Own
<1>4. /\ \A c \in Company : /\ Own(c) \subseteq Own(c)'
                            /\ ToSet(archive[c]) \subseteq ToSet(archive'[c])
      /\ Listed \subseteq Listed'
    BY <1>1 DEF Own, Listed
<1>5. CacheTyped' /\ Cached' /\ Saving'
    BY <1>1, UntouchedCache
<1> QED
    BY <1>1, <1>2, <1>3, <1>4, <1>5, StayingKeeps
-----------------------------------------------------------------------------
(* The beginning and the end of a run *)

(* A process that has just started, or is gone. *)
LEMMA FreshMemory ==
    ASSUME Fresh, pc' \in {"idle", "submissions"}, pc' # "idle" => exit' = Running
    PROVE  /\ RunTyped' /\ Underway' /\ Warranted(ToSet(found))' /\ Saving'
           /\ attempt' \in 0 .. MaxRetries - 1 /\ saving' = FALSE
           /\ pc' = "idle" => Progress'
<1>1. /\ at' = 1 /\ errors' = 0 /\ listed' = << >> /\ todo' = {} /\ left' = << >> /\ texts' = << >>
      /\ found' = << >> /\ attempt' = 0 /\ saving' = FALSE
    BY DEF Fresh
<1>2. 1 \in 1 .. Len(Instruments) /\ 0 \in 0 .. Len(Instruments) /\ 0 \in 0 .. MaxRetries - 1
    BY InstrumentsAssumption DEF MaxRetries
<1>3. RunTyped'
    BY <1>1, <1>2 DEF RunTyped
<1>4. Underway'
    BY <1>1 DEF Underway, Asking
<1>5. Warranted(ToSet(found))'
    BY <1>1 DEF Warranted, ToSet
<1>6. Saving' /\ (pc' = "idle" => Progress')
    BY <1>1 DEF Saving, Progress
<1> QED
    BY <1>1, <1>2, <1>3, <1>4, <1>5, <1>6

(* A run starts, after an empty cache or over the one there is. *)
LEMMA StartInv ==
    ASSUME FetchInv, NEW refresh \in BOOLEAN, Start(refresh)
    PROVE  FetchInv'
<1>1. /\ pc = "idle" /\ runs < MaxRuns /\ pc' = "submissions" /\ exit' = Running
      /\ runs' = runs + 1 /\ Fresh /\ began' = Listed /\ gaveUp' = {}
      /\ torn' = (torn /\ ~refresh)
      /\ recent' = recent /\ archive' = archive /\ output' = output
      /\ cache' = IF refresh THEN [url \in Url |-> Absent] ELSE cache
    BY DEF Start, world
<1>2. /\ TypeOK /\ Lists /\ Cached /\ CacheTyped /\ ~saving
    BY <1>1 DEF FetchInv, Saving, TypeOK, CacheTyped
<1>3. /\ RunTyped' /\ Underway' /\ Warranted(ToSet(found))' /\ Saving'
      /\ attempt' \in 0 .. MaxRetries - 1 /\ saving' = FALSE
    BY <1>1, FreshMemory
<1>4. Listed' = Listed /\ Lists'
    BY <1>1, <1>2 DEF Listed, Lists, Own
<1>5. Progress'
  <2>1. DOMAIN Instruments = 1 .. Len(Instruments) /\ Len(Instruments) \in Nat
    BY InstrumentsAssumption
  <2>2. at' = 1 /\ Asking' /\ \A f : Ahead(f)'
    BY <1>1 DEF Fresh, Asking, Ahead
  <2>3. \A i \in DOMAIN Instruments : i > at' \/ i = at'
    BY <2>1, <2>2
  <2> QED
    BY <2>2, <2>3 DEF Progress
<1>6. CacheTyped' /\ Cached'
  <2>1. CASE refresh
    <3>1. cache' = [url \in Url |-> Absent]
        BY <1>1, <2>1
    <3>2. \A url \in Url : << >> \in Bodies(url)
        BY UrlKinds DEF Bodies
    <3>3. CacheTyped'
        BY <3>1, <3>2 DEF CacheTyped, Absent, Bodies
    <3>4. Cached'
        BY <3>1 DEF Cached, Absent
    <3> QED
        BY <3>3, <3>4
  <2>2. CASE ~refresh
    <3>1. cache' = cache /\ torn' = torn
        BY <1>1, <1>2, <2>2 DEF TypeOK
    <3>2. CacheTyped'
        BY <1>2, <3>1 DEF CacheTyped
    <3>3. Cached'
        BY <1>2, <3>1, SameRemote DEF Cached
    <3> QED
        BY <3>2, <3>3
  <2> QED
    BY <2>1, <2>2
<1>7. /\ (began \subseteq Listed)' /\ (exit \in {0, 1} => Warranted(output.actions))'
      /\ NothingMissed'
    BY <1>1, <1>4 DEF NothingMissed, Running
<1>8. TypeOK'
  <2>1. runs' \in 0 .. MaxRuns
    BY <1>1, <1>2, BoundsAssumption DEF TypeOK
  <2>2. Listed \subseteq Filing
    BY <1>2 DEF TypeOK, Listed, ToSet
  <2>3. /\ recent' \in [Company -> Seq(Filing)] /\ archive' \in [Company -> Seq(Filing)]
        /\ output'.whole \in BOOLEAN /\ output'.actions \subseteq ActionType
        /\ exit' \in {Running, 0, 1, 3}
        /\ began' \subseteq Filing /\ gaveUp' \subseteq {"archive", "index", "document"}
        /\ torn' \in BOOLEAN
    BY <1>1, <1>2, <2>2 DEF TypeOK
  <2> QED
    BY <1>3, <1>6, <2>1, <2>3 DEF TypeOK, RunTyped, CacheTyped
<1> QED
    BY <1>3, <1>4, <1>5, <1>6, <1>7, <1>8 DEF FetchInv

(* The file is opened, and empty. *)
LEMMA OpenInv == FetchInv /\ Open => FetchInv'
<1> SUFFICES ASSUME FetchInv, Open PROVE FetchInv'
    OBVIOUS
<1>1. /\ pc = "write" /\ pc' = "flush" /\ output' = [whole |-> FALSE, actions |-> {}]
      /\ recent' = recent /\ archive' = archive /\ cache' = cache
      /\ at' = at /\ errors' = errors /\ listed' = listed /\ todo' = todo
      /\ left' = left /\ texts' = texts /\ found' = found
      /\ attempt' = attempt /\ saving' = saving /\ exit' = exit /\ runs' = runs
      /\ began' = began /\ gaveUp' = gaveUp /\ torn' = torn
    BY DEF Open, world, request, history
<1>2. /\ TypeOK /\ Lists /\ Cached /\ CacheTyped /\ RunInv /\ ~saving /\ exit = Running
      /\ began \subseteq Listed
    BY <1>1, RunInvHolds DEF FetchInv, Saving, Underway, TypeOK, CacheTyped
<1>3. Listed' = Listed /\ Lists' /\ \A a : Announceable(a) => Announceable(a)'
    BY <1>1, <1>2 DEF Listed, Lists, Own, Announceable
<1>4. RunTyped'
    BY <1>1, <1>2 DEF RunInv, RunTyped
<1>5. Underway' /\ Saving'
    BY <1>1, <1>2 DEF Underway, Asking, Saving
<1>6. Warranted(ToSet(found))'
    BY <1>1, <1>2, <1>3 DEF RunInv, Warranted, Intact
<1>7. Progress'
    BY <1>1, <1>2 DEF RunInv, Progress, Complete, Asking, Done
<1>8. CacheTyped'
    BY <1>1, <1>2 DEF CacheTyped
<1>9. Cached'
    BY <1>1, <1>2, SameRemote DEF Cached
<1>10. /\ (began \subseteq Listed)' /\ (exit \in {0, 1} => Warranted(output.actions))'
       /\ NothingMissed'
    BY <1>1, <1>2, <1>3 DEF NothingMissed, Running
<1>11. TypeOK'
  <2>1. /\ recent' \in [Company -> Seq(Filing)] /\ archive' \in [Company -> Seq(Filing)]
        /\ output'.whole \in BOOLEAN /\ output'.actions \subseteq ActionType
        /\ exit' \in {Running, 0, 1, 3} /\ runs' \in 0 .. MaxRuns
        /\ attempt' \in 0 .. MaxRetries - 1 /\ saving' \in BOOLEAN
        /\ began' \subseteq Filing /\ gaveUp' \subseteq {"archive", "index", "document"}
        /\ torn' \in BOOLEAN
    BY <1>1, <1>2 DEF TypeOK
  <2> QED
    BY <1>4, <1>8, <2>1 DEF TypeOK, RunTyped, CacheTyped
<1> QED
    BY <1>3, <1>4, <1>5, <1>6, <1>7, <1>9, <1>10, <1>11 DEF FetchInv

(* However a run ends, the cache stays good; a response it was writing is  *)
(* torn.                                                                   *)
LEMMA EndKeeps ==
    ASSUME FetchInv, pc' = "idle", Fresh, UNCHANGED <<world, cache, runs, began, gaveUp>>,
           torn' = (torn \/ saving),
           exit' \in {Running, 0, 1, 3},
           output'.whole \in BOOLEAN, output'.actions \subseteq ActionType,
           (exit \in {0, 1} => Warranted(output.actions))',
           NothingMissed'
    PROVE  FetchInv'
<1>1. /\ recent' = recent /\ archive' = archive /\ cache' = cache /\ runs' = runs
      /\ began' = began /\ gaveUp' = gaveUp
    BY DEF world
<1>2. /\ TypeOK /\ Lists /\ Cached /\ CacheTyped /\ began \subseteq Listed
    BY DEF FetchInv, TypeOK, CacheTyped
<1>3. /\ RunTyped' /\ Underway' /\ Warranted(ToSet(found))' /\ Saving' /\ Progress'
      /\ attempt' \in 0 .. MaxRetries - 1 /\ saving' = FALSE
    BY FreshMemory
<1>4. Listed' = Listed /\ Lists'
    BY <1>1, <1>2 DEF Listed, Lists, Own
<1>5. CacheTyped'
    BY <1>1, <1>2 DEF CacheTyped
<1>6. Cached'
    BY <1>1, <1>2, <1>3, SameRemote DEF Cached
<1>7. TypeOK'
  <2>1. /\ recent' \in [Company -> Seq(Filing)] /\ archive' \in [Company -> Seq(Filing)]
        /\ runs' \in 0 .. MaxRuns
        /\ began' \subseteq Filing /\ gaveUp' \subseteq {"archive", "index", "document"}
        /\ torn' \in BOOLEAN
    BY <1>1, <1>2 DEF TypeOK
  <2> QED
    BY <1>3, <1>5, <2>1 DEF TypeOK, RunTyped, CacheTyped
<1> QED
    BY <1>1, <1>2, <1>3, <1>4, <1>6, <1>7 DEF FetchInv

(* A run that writes its file has done its task, or says so. *)
LEMMA FlushInv == FetchInv /\ Flush => FetchInv'
<1> SUFFICES ASSUME FetchInv, Flush PROVE FetchInv'
    OBVIOUS
<1>1. /\ pc = "flush" /\ pc' = "idle" /\ Fresh
      /\ output' = [whole |-> TRUE, actions |-> Unique(found)]
      /\ exit' = IF errors = Len(Instruments) THEN 3 ELSE IF errors > 0 THEN 1 ELSE 0
      /\ UNCHANGED <<world, cache, runs, began, gaveUp, torn>>
    BY DEF Flush, End, history
<1>2. /\ TypeOK /\ ~saving /\ RunInv /\ ~Asking /\ found \in Seq(ActionType) /\ errors \in Nat
    BY <1>1, RunInvHolds DEF FetchInv, Saving, Asking, RunInv, RunTyped
<1>3. /\ Unique(found) \subseteq ToSet(found)
      /\ \A a \in ToSet(found) : \E b \in Unique(found) : ActionId(a) = ActionId(b)
    BY <1>2, UniqueHasAllIds
<1>4. output'.whole = TRUE /\ output'.actions = Unique(found)
    BY <1>1
<1>5. Unique(found) \subseteq ActionType
    BY <1>2, <1>3 DEF ToSet
<1>6. recent' = recent /\ archive' = archive
      /\ began' = began /\ gaveUp' = gaveUp /\ torn' = torn
    BY <1>1 DEF world
<1>7. Warranted(output.actions)'
  <2>1. Listed' = Listed
    BY <1>6 DEF Listed
  <2>2. \A a : Announceable(a) => Announceable(a)'
    BY <2>1 DEF Announceable
  <2> QED
    BY <1>2, <1>3, <1>4, <1>6, <2>2 DEF RunInv, Warranted, Intact
<1>8. NothingMissed'
  <2> SUFFICES ASSUME exit' = 0, gaveUp' = {}, ~torn',
                      NEW i \in DOMAIN Instruments, NEW f \in began,
                      Concerns(f, Instruments[i]), NEW a \in Actions(Instruments[i], f)
               PROVE  \E b \in output'.actions : ActionId(a) = ActionId(b)
    BY <1>6 DEF NothingMissed
  <2>1. errors = 0
    BY <1>1, <1>2
  <2>2. Done(i, f)
    BY <1>1, <1>2, <1>6, <2>1 DEF RunInv, Progress, Complete
  <2> QED
    BY <1>3, <1>4, <2>2 DEF Done
<1>9. exit' \in {Running, 0, 1, 3} /\ torn' = (torn \/ saving)
    BY <1>1, <1>2 DEF TypeOK
<1> QED
    BY <1>1, <1>4, <1>5, <1>7, <1>8, <1>9, EndKeeps

(* A run that cannot write says so. *)
LEMMA WriteFailsInv == FetchInv /\ WriteFails => FetchInv'
<1> SUFFICES ASSUME FetchInv, WriteFails PROVE FetchInv'
    OBVIOUS
<1>1. /\ pc \in {"write", "flush"} /\ pc' = "idle" /\ Fresh /\ exit' = 3 /\ output' = output
      /\ UNCHANGED <<world, cache, runs, began, gaveUp, torn>>
    BY DEF WriteFails, End, history
<1>2. TypeOK /\ ~saving
    BY <1>1 DEF FetchInv, Saving
<1>3. /\ output'.whole \in BOOLEAN /\ output'.actions \subseteq ActionType
      /\ torn' = (torn \/ saving)
    BY <1>1, <1>2 DEF TypeOK
<1>4. NothingMissed' /\ (exit \in {0, 1} => Warranted(output.actions))'
    BY <1>1 DEF NothingMissed
<1> QED
    BY <1>1, <1>3, <1>4, EndKeeps

(* A run that is stopped says nothing. *)
LEMMA StopInv == FetchInv /\ Stop => FetchInv'
<1> SUFFICES ASSUME FetchInv, Stop PROVE FetchInv'
    OBVIOUS
<1>1. /\ pc # "idle" /\ pc' = "idle" /\ Fresh /\ exit' = exit /\ output' = output
      /\ torn' = (torn \/ saving)
      /\ UNCHANGED <<world, cache, runs, began, gaveUp>>
    BY DEF Stop, disk
<1>2. TypeOK /\ exit = Running
    BY <1>1 DEF FetchInv, Underway
<1>3. output'.whole \in BOOLEAN /\ output'.actions \subseteq ActionType
    BY <1>1, <1>2 DEF TypeOK
<1>4. NothingMissed' /\ (exit \in {0, 1} => Warranted(output.actions))'
    BY <1>1, <1>2 DEF NothingMissed, Running
<1> QED
    BY <1>1, <1>2, <1>3, <1>4, EndKeeps
-----------------------------------------------------------------------------
(* The theorems *)

(* Nothing is listed, cached or written. *)
LEMMA FetchInitInv == Init => FetchInv
<1> SUFFICES ASSUME Init PROVE FetchInv
    OBVIOUS
<1>1. /\ recent = [c \in Company |-> << >>] /\ archive = [c \in Company |-> << >>]
      /\ cache = [url \in Url |-> Absent] /\ output = [whole |-> TRUE, actions |-> {}]
      /\ pc = "idle" /\ exit = Running /\ runs = 0
      /\ at = 1 /\ errors = 0 /\ listed = << >> /\ todo = {} /\ left = << >> /\ texts = << >>
      /\ attempt = 0 /\ saving = FALSE /\ found = << >>
      /\ began = {} /\ gaveUp = {} /\ torn = FALSE
    BY DEF Init
<1>2. TypeOK
  <2>1. \A url \in Url : << >> \in Bodies(url)
    BY UrlKinds DEF Bodies
  <2>2. CacheTyped
    BY <1>1, <2>1 DEF CacheTyped, Absent, Bodies
  <2>3. /\ 1 \in 1 .. Len(Instruments) /\ 0 \in 0 .. Len(Instruments)
        /\ 0 \in 0 .. MaxRetries - 1 /\ 0 \in 0 .. MaxRuns
    BY InstrumentsAssumption, BoundsAssumption DEF MaxRetries
  <2>4. recent \in [Company -> Seq(Filing)] /\ archive \in [Company -> Seq(Filing)]
    BY <1>1
  <2>5. RunTyped
    BY <1>1, <2>3 DEF RunTyped
  <2>6. /\ output.whole \in BOOLEAN /\ output.actions \subseteq ActionType
        /\ exit \in {Running, 0, 1, 3} /\ runs \in 0 .. MaxRuns
        /\ attempt \in 0 .. MaxRetries - 1 /\ saving \in BOOLEAN
        /\ began \subseteq Filing /\ gaveUp \subseteq {"archive", "index", "document"}
        /\ torn \in BOOLEAN
    BY <1>1, <2>3
  <2> QED
    BY <2>2, <2>4, <2>5, <2>6 DEF TypeOK, RunTyped, CacheTyped
<1>3. Lists
    BY <1>1 DEF Lists, Own, ToSet
<1>4. Cached
    BY <1>1 DEF Cached, Absent
<1>5. Saving /\ Underway /\ Progress /\ began \subseteq Listed
    BY <1>1 DEF Saving, Underway, Asking, Progress
<1>6. /\ Warranted(ToSet(found)) /\ (exit \in {0, 1} => Warranted(output.actions))
      /\ NothingMissed
    BY <1>1 DEF Warranted, ToSet, NothingMissed, Running
<1> QED
    BY <1>2, <1>3, <1>4, <1>5, <1>6 DEF FetchInv

(* Every step of the SEC, of a run and of its cache keeps the invariant. *)
LEMMA FetchNextInv == FetchInv /\ [Next]_vars => FetchInv'
<1> SUFFICES ASSUME FetchInv, [Next]_vars PROVE FetchInv'
    OBVIOUS
<1>1. ASSUME NEW f \in Filing, Publish(f) PROVE FetchInv'
  <2>1. About[f].company \in Company
    BY AboutAssumption DEF FilingType
  <2> QED
    BY <1>1, <2>1, SecInv
<1>2. ASSUME NEW c \in Company, Roll(c) PROVE FetchInv'
  <2>1. Last(recent[c]) \in Filing
    <3>1. recent[c] \in Seq(Filing) /\ recent[c] # << >>
        BY <1>2 DEF FetchInv, TypeOK, Roll
    <3> QED
        BY <3>1, RangeWithLast
  <2> QED
    BY <1>2, <2>1, SecInv
<1>3. ASSUME NEW refresh \in BOOLEAN, Start(refresh) PROVE FetchInv'
    BY <1>3, StartInv
<1>4. CASE Fetch
    BY <1>4, ServeCachedInv, RespondInv, SaveResponseInv, SavedInv, RetryInv, GiveUpInv,
       OpenInv, FlushInv, WriteFailsInv DEF Fetch
<1>5. CASE Stop
    BY <1>5, StopInv
<1>6. CASE UNCHANGED vars
    BY <1>6, StutterInv
<1> QED
    BY <1>1, <1>2, <1>3, <1>4, <1>5, <1>6 DEF Next

(* The invariant of the runs over the cache, for every list of instruments *)
(* and every collection of filings.                                        *)
THEOREM FetchInvariance == Spec => []FetchInv
    BY FetchInitInv, FetchNextInv, PTL DEF Spec

(* What is listed, cached and written has its type. *)
THEOREM FilingsAreTyped == Spec => []TypeOK
<1>1. FetchInv => TypeOK
    BY DEF FetchInv
<1> QED
    BY <1>1, FetchInvariance, PTL

(* A run that succeeds without giving anything up, and without a torn      *)
(* response in its cache, has found what every filing listed at its        *)
(* beginning announces: paging through the lists while filings move to the *)
(* archive, and answers cached by earlier runs, make it miss nothing.      *)
THEOREM NoFilingMissed == Spec => []NothingMissed
<1>1. FetchInv => NothingMissed
    BY DEF FetchInv
<1> QED
    BY <1>1, FetchInvariance, PTL

(* What a run writes some listed filing announces: no action is made of a  *)
(* filing of another company, of documents of two filings, or of part of   *)
(* the documents of one.                                                   *)
THEOREM NoActionInvented == Spec => []NothingInvented
<1>1. FetchInv => NothingInvented
    BY DEF FetchInv, NothingInvented, Warranted, Intact, Announceable
<1> QED
    BY <1>1, FetchInvariance, PTL
-----------------------------------------------------------------------------
(* The rate limit *)

(* A refill, of whatever age, leaves the bucket within its capacity. *)
LEMMA AtMostBounds ==
    ASSUME NEW x \in Nat, NEW y \in Nat, NEW bound \in Nat
    PROVE  AtMost(x + y, bound) \in 0..bound
    BY DEF AtMost

(* acquire() never grants out of more than a full bucket. *)
LEMMA RefillBounds ==
    ASSUME BucketTypeOK
    PROVE  /\ Refilled \in 0..Capacity
           /\ Refilled >= tokens
           /\ Refilled = tokens + age \/ Refilled = Capacity
    BY CapacityAssumption DEF BucketTypeOK, Refilled, AtMost

(* One tick adds at most one token, and one unless the bucket is full. *)
LEMMA RefillAfterTick ==
    ASSUME BucketTypeOK, Tick
    PROVE  /\ Refilled' <= Refilled + 1
           /\ Refilled' = Refilled + 1 \/ Refilled' = Capacity
    BY CapacityAssumption DEF BucketTypeOK, Tick, Refilled, AtMost

(* A refill that is noted leaves what could be granted as it is. *)
LEMMA RefillNoted ==
    ASSUME BucketTypeOK, NEW n \in 0..Capacity, n <= Refilled,
           tokens' = Refilled - n, age' = 0
    PROVE  Refilled' = Refilled - n
<1>1. Refilled \in 0..Capacity
    BY RefillBounds
<1>2. Refilled' = AtMost(tokens' + age', Capacity)
    BY DEF Refilled
<1>3. tokens' + age' = Refilled - n /\ Refilled - n <= Capacity
    BY <1>1, CapacityAssumption
<1> QED
    BY <1>2, <1>3 DEF AtMost

(* The bucket starts full, in an empty window. *)
LEMMA BucketInitInv == BucketInit => BucketInv
<1> SUFFICES ASSUME BucketInit PROVE BucketInv
    OBVIOUS
<1>1. BucketTypeOK
    BY CapacityAssumption, CallsAssumption DEF BucketInit, BucketTypeOK
<1>2. Conservation
    BY <1>1, RefillBounds, CapacityAssumption DEF BucketInit, Conservation
<1>3. SleepsLongEnough
    BY DEF BucketInit, SleepsLongEnough
<1> QED
    BY <1>1, <1>2, <1>3 DEF BucketInv

(* Every step of a thread, of time and of the observer keeps the invariant. *)
LEMMA BucketNextInv == BucketInv /\ [BucketNext]_bucketVars => BucketInv'
<1> SUFFICES ASSUME BucketInv, [BucketNext]_bucketVars PROVE BucketInv'
    OBVIOUS
<1>0. /\ BucketTypeOK /\ Conservation /\ SleepsLongEnough
      /\ Refilled \in 0..Capacity /\ Capacity \in Nat
      /\ spent \in Nat /\ window \in Nat
    BY RefillBounds, CapacityAssumption, CallsAssumption DEF BucketInv, BucketTypeOK
<1>1. ASSUME NEW t \in Thread, Grant(t) PROVE BucketInv'
  <2>1. need[t] \in 0..Capacity /\ need[t] <= Refilled
    BY <1>0, <1>1 DEF Grant, BucketTypeOK
  <2>2. Refilled' = Refilled - need[t]
    BY <1>0, <1>1, <2>1, RefillNoted DEF Grant
  <2>3. BucketTypeOK'
    <3>1. tokens' \in 0..Capacity /\ age' \in 0..Capacity /\ spent' \in Nat
        BY <1>0, <1>1, <2>1 DEF Grant
    <3> QED
        BY <1>0, <1>1, <3>1 DEF Grant, BucketTypeOK
  <2>4. Conservation'
    BY <1>0, <1>1, <2>1, <2>2 DEF Grant, Conservation
  <2>5. SleepsLongEnough'
    BY <1>0, <1>1 DEF Grant, SleepsLongEnough, BucketTypeOK
  <2> QED
    BY <2>3, <2>4, <2>5 DEF BucketInv
<1>2. ASSUME NEW t \in Thread, Sleep(t) PROVE BucketInv'
  <2>1. need[t] \in 0..Capacity /\ need[t] > Refilled
    BY <1>0, <1>2 DEF Sleep, BucketTypeOK
  <2>2. Refilled' = Refilled
    BY <1>0, <1>2, RefillNoted DEF Sleep
  <2>3. BucketTypeOK'
    <3>1. tokens' \in 0..Capacity /\ age' \in 0..Capacity /\ need[t] - Refilled \in 0..Capacity
        BY <1>0, <1>2, <2>1 DEF Sleep
    <3> QED
        BY <1>0, <1>2, <3>1 DEF Sleep, BucketTypeOK
  <2>4. Conservation'
    BY <1>0, <1>2, <2>2 DEF Sleep, Conservation
  <2>5. ASSUME NEW u \in Thread, stage'[u] = "sleep", u \notin robbed'
        PROVE  Refilled' + sleepLeft'[u] >= need'[u]
    <3>1. CASE u = t
        BY <1>0, <1>2, <2>1, <2>2, <3>1 DEF Sleep, BucketTypeOK
    <3>2. CASE u # t
      <4>1. stage[u] = "sleep" /\ u \notin robbed /\ sleepLeft'[u] = sleepLeft[u] /\ need'[u] = need[u]
        BY <1>0, <1>2, <2>5, <3>2 DEF Sleep, BucketTypeOK
      <4> QED
        BY <1>0, <2>2, <4>1 DEF SleepsLongEnough
    <3> QED
        BY <3>1, <3>2
  <2> QED
    BY <2>3, <2>4, <2>5 DEF BucketInv, SleepsLongEnough
<1>3. ASSUME NEW t \in Thread, Wake(t) PROVE BucketInv'
  <2>1. BucketTypeOK' /\ Refilled' = Refilled
    BY <1>0, <1>3 DEF Wake, BucketTypeOK, Refilled, observed
  <2>2. SleepsLongEnough'
    BY <1>0, <1>3, <2>1 DEF Wake, SleepsLongEnough, BucketTypeOK, observed
  <2> QED
    BY <1>0, <1>3, <2>1, <2>2 DEF Wake, BucketInv, Conservation, observed
<1>4. ASSUME NEW t \in Thread, NEW n \in Demands, Call(t, n) PROVE BucketInv'
  <2>1. n \in 0..Capacity /\ calls[t] + 1 \in 0..Calls
    BY <1>0, <1>4, DemandsAssumption, CallsAssumption DEF Call, BucketTypeOK
  <2>2. BucketTypeOK' /\ Refilled' = Refilled
    BY <1>0, <1>4, <2>1 DEF Call, BucketTypeOK, Refilled, observed
  <2>3. SleepsLongEnough'
    BY <1>0, <1>4, <2>2 DEF Call, SleepsLongEnough, BucketTypeOK, observed
  <2> QED
    BY <1>0, <1>4, <2>2, <2>3 DEF Call, BucketInv, Conservation, observed
<1>5. CASE Tick
  <2>1. BucketTypeOK'
    BY <1>0, <1>5, CallsAssumption DEF Tick, BucketTypeOK, AtMost
  <2>2. Refilled' \in 0..Capacity
    <3>1. tokens' \in Nat /\ age' \in Nat
        BY <2>1, <1>0 DEF BucketTypeOK
    <3>2. AtMost(tokens' + age', Capacity) \in 0..Capacity
        BY <1>0, <3>1, AtMostBounds
    <3> QED
        BY <3>2 DEF Refilled
  <2>3. Conservation'
    <3>1. Refilled' <= Refilled + 1
        BY <1>0, <1>5, RefillAfterTick
    <3>2. \/ window' = window + 1 /\ spent' = spent
          \/ window' = 0 /\ spent' = 0
        BY <1>0, <1>5 DEF Tick
    <3>3. spent' + Refilled' <= Capacity + window'
        BY <1>0, <2>2, <3>1, <3>2 DEF Conservation
    <3> QED
        BY <3>3 DEF Conservation
  <2>4. ASSUME NEW u \in Thread, stage'[u] = "sleep", u \notin robbed'
        PROVE  Refilled' + sleepLeft'[u] >= need'[u]
    <3>1. /\ Refilled + sleepLeft[u] >= need[u] /\ need'[u] = need[u]
          /\ need[u] \in 0..Capacity /\ sleepLeft[u] \in 0..Capacity
          /\ sleepLeft'[u] \in 0..Capacity
        BY <1>0, <1>5, <2>1, <2>4 DEF Tick, SleepsLongEnough, BucketTypeOK
    <3>2. sleepLeft'[u] >= sleepLeft[u] - 1
        BY <1>0, <1>5, <3>1 DEF Tick
    <3> QED
        BY <1>0, <1>5, <2>2, <3>1, <3>2, RefillAfterTick
  <2> QED
    BY <2>1, <2>3, <2>4 DEF BucketInv, SleepsLongEnough
<1>6. CASE Observe
  <2>1. BucketTypeOK' /\ Refilled' = Refilled
    BY <1>0, <1>6, CallsAssumption DEF Observe, BucketTypeOK, Refilled
  <2> QED
    BY <1>0, <1>6, <2>1 DEF Observe, BucketInv, Conservation, SleepsLongEnough
<1>7. CASE UNCHANGED bucketVars
  <2>1. BucketTypeOK' /\ Refilled' = Refilled
    BY <1>0, <1>7 DEF bucketVars, BucketTypeOK, Refilled, observed
  <2> QED
    BY <1>0, <1>7, <2>1 DEF bucketVars, BucketInv, Conservation, SleepsLongEnough, observed
<1> QED
    BY <1>1, <1>2, <1>3, <1>4, <1>5, <1>6, <1>7 DEF BucketNext, Step

(* Every reachable state satisfies the inductive invariant. *)
THEOREM BucketInvariance == BucketSpec => []BucketInv
    BY BucketInitInv, BucketNextInv, PTL DEF BucketSpec

(* The bucket holds between nothing and its capacity, and every sleep is   *)
(* at most the time that fills it.                                         *)
THEOREM BucketTypeCorrect == BucketSpec => []BucketTypeOK
<1>1. BucketInv => BucketTypeOK
    BY DEF BucketInv
<1> QED
    BY <1>1, BucketInvariance, PTL

(* In no window of time do all threads together get more than a full       *)
(* bucket and the tokens of the window.                                    *)
THEOREM RateIsLimited == BucketSpec => []RateLimited
<1>1. BucketInv => RateLimited
  <2> SUFFICES ASSUME BucketInv PROVE RateLimited
    OBVIOUS
  <2>1. Refilled \in 0..Capacity /\ spent \in Nat /\ window \in Nat
    BY RefillBounds, CallsAssumption DEF BucketInv, BucketTypeOK
  <2> QED
    BY <2>1, CapacityAssumption DEF BucketInv, Conservation, RateLimited
<1> QED
    BY <1>1, BucketInvariance, PTL

(* A sleeper wakes in vain only if another thread took its tokens.         *)
THEOREM NoVainSleep == BucketSpec => []SleepsLongEnough
<1>1. BucketInv => SleepsLongEnough
    BY DEF BucketInv
<1> QED
    BY <1>1, BucketInvariance, PTL
=============================================================================
