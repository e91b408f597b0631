----------------------------- MODULE FilingFetch -----------------------------
(***************************************************************************)
(* tools/fetch_sec_edgar_actions.py, run repeatedly over one cache of      *)
(* responses: per company the list of filings with its archive, per filing *)
(* an index and its documents, from whose joined text the actions are      *)
(* extracted.  Requests fail and are retried, the process is killed, and   *)
(* the SEC goes on publishing.                                             *)
(*                                                                         *)
(* A text is the sequence of what the patterns find in it.  Instruments    *)
(* may share a company.  Each company has one archive file, which may be   *)
(* empty.  A filing without a primary document is passed over like one of  *)
(* another form.                                                           *)
(***************************************************************************)
EXTENDS Integers, FiniteSets, SequencesExt

CONSTANTS
    Instruments,    \* the instruments, in the order of identifiers.json
    About,          \* what a filing is: company, form, filed, documents
    MinDate,        \* --min-date
    MaxRuns         \* bound on the runs

MaxRetries == 3

Filing  == DOMAIN About
Company == {Instruments[i].company : i \in DOMAIN Instruments}

(* A match: of a symbol, of a delisting, or of a date, by the pattern that *)
(* has this rank.  The value is the symbol or the day.                     *)
Mark == [kind : {"symbol", "delisting", "date"}, rank : Nat, value : Nat]
NoDay == 0      \* a date that is in no calendar

InstrumentType == [isin : Nat, ticker : Nat, company : Company]

FilingType == [company : Company, form : {"8-K", "10-K"}, filed : Nat, documents : Seq(Seq(Mark))]

ASSUME InstrumentsAssumption ==
    Instruments \in Seq(InstrumentType) /\ Instruments # << >>
ASSUME AboutAssumption == \A f \in Filing : About[f] \in FilingType
ASSUME BoundsAssumption == MinDate \in Nat /\ MaxRuns \in Nat

VARIABLES
    recent, archive,    \* the lists of filings of each company, newest first
    cache,              \* what is on disk under each URL, or Absent
    output,             \* sec_actions.json
    pc, exit, runs,
    at, errors,         \* the place in Instruments, the companies that failed
    listed, todo,       \* the filings of the company, the positions of those to come
    left, texts,        \* of the filing: the documents to come, the texts so far
    attempt, saving,    \* of the request under way; its response is being cached
    found,              \* the actions extracted
    began,              \* history: the filings listed when the run began
    gaveUp,             \* history: the kinds of requests this run gave up
    torn                \* history: a run stopped while it wrote the cache

world   == <<recent, archive>>
disk    == <<cache, output>>
place   == <<pc, at, errors, listed, todo, left, texts, found>>
request == <<attempt, saving>>
history == <<began, gaveUp, torn>>
vars == <<world, disk, place, request, exit, runs, history>>

Documents(f) == DOMAIN About[f].documents
DocumentUrls == UNION {{<<"document", <<f, k>>>> : k \in Documents(f)} : f \in Filing}
Url == ({"submissions", "archive"} \X Company) \cup ({"index"} \X Filing) \cup DocumentUrls

Absent  == [here |-> FALSE, whole |-> FALSE, body |-> << >>]
Running == -1

(* Every filing the SEC lists. *)
Listed == UNION {ToSet(recent[c]) \cup ToSet(archive[c]) : c \in Company}

-----------------------------------------------------------------------------
(* Extraction *)

Eligible(f) == About[f].form = "8-K" /\ About[f].filed >= MinDate

Places(marks) == UNION {{<<d, k>> : k \in DOMAIN marks[d]} : d \in DOMAIN marks}

MarkAt(marks, p) == marks[p[1]][p[2]]

Before(p, q) == p[1] < q[1] \/ (p[1] = q[1] /\ p[2] < q[2])

OfKind(marks, kind) == {p \in Places(marks) : MarkAt(marks, p).kind = kind}

(* The first match of each pattern of a kind, in the texts put together. *)
Matches(marks, kind) ==
    {p \in OfKind(marks, kind) :
        \A q \in OfKind(marks, kind) :
            Before(q, p) => MarkAt(marks, q).rank # MarkAt(marks, p).rank}

(* The match of the pattern tried first. *)
Preferred(marks, matches) ==
    MarkAt(marks, CHOOSE p \in matches :
                      \A q \in matches : MarkAt(marks, p).rank <= MarkAt(marks, q).rank).value

(* A pattern whose first match is no date is passed over; without a date   *)
(* it is the one of filing.                                                *)
Effective(f, marks) ==
    LET dates == {p \in Matches(marks, "date") : MarkAt(marks, p).value # NoDay}
    IN  IF dates = {} THEN About[f].filed ELSE Preferred(marks, dates)

(* The symbol the company had already is no change. *)
ChangesSymbol(instrument, marks) ==
    /\ OfKind(marks, "symbol") # {}
    /\ Preferred(marks, Matches(marks, "symbol")) # instrument.ticker

Action(instrument, f, type, marks) ==
    [isin |-> instrument.isin, type |-> type,
     effective |-> Effective(f, marks), announcement |-> About[f].filed]

Announced(instrument, f, marks) ==
    (IF ChangesSymbol(instrument, marks)
     THEN <<Action(instrument, f, "SYMBOL_CHANGE", marks)>> ELSE << >>)
    \o (IF OfKind(marks, "delisting") # {}
        THEN <<Action(instrument, f, "DELISTING", marks)>> ELSE << >>)

ActionType ==
    [isin : Nat, type : {"SYMBOL_CHANGE", "DELISTING"}, effective : Nat, announcement : Nat]

ActionId(a) == <<a.isin, a.type, a.effective>>

(* By id; of two the first stays. *)
Unique(actions) ==
    {actions[k] : k \in {k \in DOMAIN actions :
                            \A j \in 1 .. k - 1 : ActionId(actions[j]) # ActionId(actions[k])}}

(* The positions of what is to be read in a list of filings: of two        *)
(* entries for one filing the first stays.                                 *)
Wanted(filings) ==
    {k \in DOMAIN filings :
        Eligible(filings[k]) /\ \A j \in 1 .. k - 1 : filings[j] # filings[k]}

-----------------------------------------------------------------------------
(* The SEC *)

(* What a URL answers now: filings, the numbers of documents, or a text. *)
Remote(url) ==
    CASE url[1] = "submissions" -> recent[url[2]]
      [] url[1] = "archive"     -> archive[url[2]]
      [] url[1] = "index"       -> [k \in Documents(url[2]) |-> k]
      [] url[1] = "document"    -> About[url[2][1]].documents[url[2][2]]

Bodies(url) ==
    CASE url[1] \in {"submissions", "archive"} -> Seq(Filing)
      [] url[1] = "index"                      -> Seq(Nat)
      [] url[1] = "document"                   -> Seq(Mark)

Publish(f) ==
    /\ f \notin Listed
    /\ recent' = [recent EXCEPT ![About[f].company] = <<f>> \o @]
    /\ UNCHANGED <<archive, disk, place, request, exit, runs, history>>

(* The oldest of the recent filings moves to the archive. *)
Roll(c) ==
    /\ recent[c] # << >>
    /\ recent' = [recent EXCEPT ![c] = Front(@)]
    /\ archive' = [archive EXCEPT ![c] = <<Last(recent[c])>> \o @]
    /\ UNCHANGED <<disk, place, request, exit, runs, history>>

-----------------------------------------------------------------------------
TypeOK ==
    /\ recent \in [Company -> Seq(Filing)] /\ archive \in [Company -> Seq(Filing)]
    /\ DOMAIN cache = Url
    /\ \A url \in Url : /\ cache[url].here \in BOOLEAN /\ cache[url].whole \in BOOLEAN
                         /\ cache[url].body \in Bodies(url)
    /\ output.whole \in BOOLEAN
    /\ output.actions \subseteq ActionType
    /\ pc \in {"idle", "submissions", "archive", "index", "document", "write", "flush"}
    /\ exit \in {Running, 0, 1, 3} /\ runs \in 0 .. MaxRuns
    /\ at \in 1 .. Len(Instruments) /\ errors \in 0 .. Len(Instruments)
    /\ listed \in Seq(Filing) /\ todo \subseteq DOMAIN listed
    /\ left \in Seq(Nat) /\ texts \in Seq(Seq(Mark))
    /\ attempt \in 0 .. MaxRetries - 1 /\ saving \in BOOLEAN
    /\ found \in Seq(ActionType)
    /\ began \subseteq Filing /\ gaveUp \subseteq {"archive", "index", "document"}
    /\ torn \in BOOLEAN

Init ==
    /\ recent = [c \in Company |-> << >>] /\ archive = [c \in Company |-> << >>]
    /\ cache = [url \in Url |-> Absent]
    /\ output = [whole |-> TRUE, actions |-> {}]
    /\ pc = "idle" /\ exit = Running /\ runs = 0
    /\ at = 1 /\ errors = 0 /\ listed = << >> /\ todo = {} /\ left = << >> /\ texts = << >>
    /\ attempt = 0 /\ saving = FALSE /\ found = << >>
    /\ began = {} /\ gaveUp = {} /\ torn = FALSE

(* A process starts with nothing in its memory, and leaves nothing of it. *)
Fresh ==
    /\ at' = 1 /\ errors' = 0 /\ listed' = << >> /\ todo' = {} /\ left' = << >> /\ texts' = << >>
    /\ found' = << >> /\ attempt' = 0 /\ saving' = FALSE

(* --refresh deletes the cache. *)
Start(refresh) ==
    /\ pc = "idle" /\ runs < MaxRuns
    /\ cache' = IF refresh THEN [url \in Url |-> Absent] ELSE cache
    /\ pc' = "submissions" /\ exit' = Running /\ runs' = runs + 1
    /\ Fresh
    /\ began' = Listed /\ gaveUp' = {} /\ torn' = (torn /\ ~refresh)
    /\ UNCHANGED <<world, output>>

-----------------------------------------------------------------------------
(* What the run does with a response, or without one (~ok). *)

(* The run goes on with the filings at these positions, or with the next   *)
(* instrument.                                                             *)
GoOn(positions) ==
    /\ todo' = positions
    /\ IF positions # {}
       THEN pc' = "index" /\ at' = at
       ELSE IF at < Len(Instruments)
       THEN pc' = "submissions" /\ at' = at + 1
       ELSE pc' = "write" /\ at' = at

Current == listed[Min(todo)]

ListRecent(ok, body) ==
    /\ pc = "submissions"
    /\ listed' = body
    /\ IF ok THEN pc' = "archive" /\ UNCHANGED <<at, errors, todo>>
             ELSE errors' = errors + 1 /\ GoOn({})
    /\ UNCHANGED <<left, texts, found>>

ListArchive(ok, body) ==
    /\ pc = "archive"
    /\ listed' = listed \o body
    /\ GoOn(Wanted(listed'))
    /\ UNCHANGED <<errors, left, texts, found>>

(* A filing without an index or without documents is passed over. *)
OpenIndex(ok, body) ==
    /\ pc = "index"
    /\ IF ok /\ body # << >>
       THEN pc' = "document" /\ left' = body /\ texts' = << >> /\ UNCHANGED <<at, todo>>
       ELSE GoOn(todo \ {Min(todo)}) /\ UNCHANGED <<left, texts>>
    /\ UNCHANGED <<errors, listed, found>>

(* Mutant: of several documents only the last counts. *)
ReadLastDocument(ok, body) ==
    /\ pc = "document"
    /\ left' = Tail(left) /\ texts' = <<body>>
    /\ IF left' # << >>
       THEN UNCHANGED <<pc, at, todo, found>>
       ELSE /\ found' = found \o Announced(Instruments[at], Current, texts')
            /\ GoOn(todo \ {Min(todo)})
    /\ UNCHANGED <<errors, listed>>

ReadDocument(ok, body) ==
    /\ pc = "document"
    /\ left' = Tail(left)
    /\ texts' = IF ok THEN Append(texts, body) ELSE texts
    /\ IF left' # << >>
       THEN UNCHANGED <<pc, at, todo, found>>
       ELSE /\ found' = found \o Announced(Instruments[at], Current, texts')
            /\ GoOn(todo \ {Min(todo)})
    /\ UNCHANGED <<errors, listed>>

(* Without a response the body is empty. *)
Receive(ok, body) ==
    /\ ListRecent(ok, body) \/ ListArchive(ok, body) \/ OpenIndex(ok, body) \/ ReadDocument(ok, body)
    /\ attempt' = 0 /\ saving' = FALSE
    /\ UNCHANGED <<world, output, exit, runs, began, torn>>

-----------------------------------------------------------------------------
(* SECClient._get *)

Asking == pc \in {"submissions", "archive", "index", "document"}

Asked ==
    CASE pc \in {"submissions", "archive"} -> <<pc, Instruments[at].company>>
      [] pc = "index"                      -> <<pc, Current>>
      [] pc = "document"                   -> <<pc, <<Current, Head(left)>>>>

(* Mutant: every response is cached. *)
CacheableAll == TRUE

Cacheable == pc \notin {"submissions", "archive"}

Hit == Cacheable /\ cache[Asked].here /\ ~saving

(* Half a text is text; half of a JSON document does not parse. *)
ServeCached ==
    /\ Asking /\ Hit
    /\ LET entry == cache[Asked]
           ok    == entry.whole \/ pc = "document"
       IN  Receive(ok, IF ok THEN entry.body ELSE << >>)
    /\ UNCHANGED <<cache, gaveUp>>

Respond ==
    /\ Asking /\ ~Cacheable
    /\ Receive(TRUE, Remote(Asked))
    /\ UNCHANGED <<cache, gaveUp>>

(* The response is written into the cache file, and has arrived there up   *)
(* to some point.                                                          *)
SaveResponse ==
    /\ Asking /\ Cacheable /\ ~cache[Asked].here
    /\ \E n \in 0 .. Len(Remote(Asked)) :
         cache' = [cache EXCEPT ![Asked] =
                     [here |-> TRUE, whole |-> FALSE, body |-> SubSeq(Remote(Asked), 1, n)]]
    /\ saving' = TRUE
    /\ UNCHANGED <<world, output, place, attempt, exit, runs, history>>

Saved ==
    /\ saving
    /\ cache' = [cache EXCEPT ![Asked] = [here |-> TRUE, whole |-> TRUE, body |-> Remote(Asked)]]
    /\ Receive(TRUE, Remote(Asked))
    /\ UNCHANGED gaveUp

(* Mutant: one attempt too many. *)
RetryAgain ==
    /\ Asking /\ ~Hit /\ ~saving /\ attempt < MaxRetries
    /\ attempt' = attempt + 1
    /\ UNCHANGED <<world, disk, place, saving, exit, runs, history>>

(* Status 429, or an exception of the library. *)
Retry ==
    /\ Asking /\ ~Hit /\ ~saving /\ attempt < MaxRetries - 1
    /\ attempt' = attempt + 1
    /\ UNCHANGED <<world, disk, place, saving, exit, runs, history>>

(* Status 404 at once, or the last attempt has failed. *)
GiveUp ==
    /\ Asking /\ ~Hit /\ ~saving
    /\ Receive(FALSE, << >>)
    /\ gaveUp' = IF pc = "submissions" THEN gaveUp ELSE gaveUp \cup {pc}
    /\ UNCHANGED cache

-----------------------------------------------------------------------------
(* The end of a run *)

Open ==
    /\ pc = "write"
    /\ output' = [whole |-> FALSE, actions |-> {}]
    /\ pc' = "flush"
    /\ UNCHANGED <<world, cache, at, errors, listed, todo, left, texts, found, request, exit, runs, history>>

End(code) ==
    /\ pc' = "idle" /\ exit' = code
    /\ Fresh
    /\ UNCHANGED <<world, cache, runs, history>>

Flush ==
    /\ pc = "flush"
    /\ output' = [whole |-> TRUE, actions |-> Unique(found)]
    /\ End(IF errors = Len(Instruments) THEN 3 ELSE IF errors > 0 THEN 1 ELSE 0)

WriteFails ==
    /\ pc \in {"write", "flush"}
    /\ UNCHANGED output
    /\ End(3)

(* The process is killed, or cannot write its cache: no handler catches    *)
(* that error.                                                             *)
Stop ==
    /\ pc # "idle"
    /\ pc' = "idle" /\ torn' = (torn \/ saving)
    /\ Fresh
    /\ UNCHANGED <<world, disk, exit, runs, began, gaveUp>>

Fetch ==
    \/ ServeCached \/ Respond \/ SaveResponse \/ Saved \/ Retry \/ GiveUp
    \/ Open \/ Flush \/ WriteFails

Next ==
    \/ \E f \in Filing : Publish(f)
    \/ \E c \in Company : Roll(c)
    \/ \E refresh \in BOOLEAN : Start(refresh)
    \/ Fetch \/ Stop

Spec == Init /\ [][Next]_vars

-----------------------------------------------------------------------------
(* Properties *)

(* What a filing announces of an instrument, read to its end. *)
Actions(instrument, f) == ToSet(Announced(instrument, f, About[f].documents))

Concerns(f, instrument) == Eligible(f) /\ About[f].company = instrument.company

(* A run that reports success, gave no request up and found no torn        *)
(* response in the cache has the actions of every filing that was listed   *)
(* when it began, for every instrument of its company, whatever was        *)
(* published and moved to the archive under its hands, and whatever        *)
(* earlier runs had cached.                                                *)
NothingMissed ==
    exit = 0 /\ gaveUp = {} /\ ~torn =>
        \A i \in DOMAIN Instruments, f \in began :
            Concerns(f, Instruments[i]) =>
                \A a \in Actions(Instruments[i], f) :
                    \E b \in output.actions : ActionId(a) = ActionId(b)

(* Every action a run writes is one that a listed filing announces, with   *)
(* its date, unless a document had to be given up or was found torn.       *)
NothingInvented ==
    exit \in {0, 1} /\ "document" \notin gaveUp /\ ~torn =>
        \A a \in output.actions : \E i \in DOMAIN Instruments, f \in Listed :
            Concerns(f, Instruments[i]) /\ a \in Actions(Instruments[i], f)
=============================================================================
