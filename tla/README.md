# Corporate Actions Registry: specifications

TLA+ modules for the tools that keep `actions.json`, the registry of splits,
dividends, symbol changes and delistings: what may get into it, what must stay
out, and what survives a crash. TLC checks the modules on small instances;
TLAPS proves some of the results for every instance.

## 1. The system

### Parts and their state

| Part | Code | State | Operations |
|---|---|---|---|
| Registry and validator | `schema.json`, `tools/validate.py` | `actions.json` | eleven layers over one record or the whole list; reads only |
| Yahoo fetcher | `tools/fetch_yahoo_actions.py` | `fetched_actions.json` | one pass over the instruments with retries, rate limit, dedup by id |
| SEC fetcher | `tools/fetch_sec_edgar_actions.py` | `sec_actions.json`, the response cache | one pass over companies, their filings and the documents of each |
| Merge | `tools/merge_fetched.py` | `actions.json`, read of `_removed_actions.json` | known / rejected / semantic duplicate / accepted, per record |
| Derivations | `tools/derive_impacts.py`, `tools/derive_redistribution.py` | `actions.json` | compute every record, refuse or rewrite the file |
| Build | `tools/build.py` | five files in `dist/` | render all, then write one by one |
| Notification | `scripts/notify_on_change.py` | `.notify_state.json` | hash, compare, webhook, save |
| Pipeline | `scripts/run_update.sh` | git index, HEAD, remote | runs the tools above in order |
| Duplicate repair | `scripts/fix_duplicates.py` | `actions.json`, `_removed_actions.json` | replace wrong records, then list them as removed |
| Rate limiter | `tools/rate_limit.py` | tokens, time of the last refill | `acquire` |
| Id rewriting | `tools/rewrite_action_ids.py` | `actions.json`, a backup of it | canonical ids, or a report of collisions |
| Wrappers | `wrappers/{python,javascript,go,rust}` | loaded actions and three indexes | load, query, adjust prices, save |
| Ticker index | the same, with `ticker_index.go`, `ticker_index.rs` | a process-wide cache of parsed `identifiers.json` files | `by_ticker` |
| Backtest example | `examples/backtest_adjustment.py` | none of its own, on top of the Python wrapper | three returns of a holding period |
| Workflows | `.github/workflows` | a branch with a pull request | a merge of its own, derivation, tests, commit |

The parts interact through files only. Each tool reads `actions.json` afresh,
and each replaces it by a rename (`tools/io_utils.py`); the reject list and the
filing cache are rewritten in place, and so is what the Python wrapper saves. `run_update.sh` stops at the first failing
command. Within one process, concurrency exists in the rate limiter and in the
caches of the wrappers.

### What is hard

* Four identities of one record are in play: the `action_id`, the fuzzy key
  (ex-date or effective date, exact type, amount to four decimals), the reject
  key (type *family*) and the semantic pair test (effective dates at most five
  days apart, unrounded amounts less than a cent apart). None implies another.
* The merge is greedy: what it accepts first decides what it rejects later.
* A failure in one step leaves the files of the steps before it, and the next
  run, with other flags, starts from them.
* The repair script and the merge build the keys of the reject list differently,
  and the script writes its two files one after the other.
* Sleeping outside the lock, the rate limiter can be overtaken.
* Yahoo rescales past dividends at every split, while the keys of the merge and of
  the reject list hold the amount as it was when it was fetched.
* A ticker that fails is left out of a file that is written all the same.
* The list of filings changes between the requests that read it, and the cache of
  the SEC fetcher outlives a run that was killed while writing it.
* Lookups overlap with each other and with the replacement of
  `identifiers.json`; each wrapper has another cache key and another rule for a
  slot that has been filled meanwhile.
* Threads of one process save through one temporary file.
* Four implementations of one contract treat null, the empty string and a
  missing field each in its own way, and read what the others have saved.

The list of hazards with their source lines is in `PROJECT.json`, with the properties
that would catch them. Some are not for a property to exclude, because they do bite:
the property then has a condition that excepts them, and the hazard says so.

## 2. Modules

`RegistryData` holds the record and the pure functions: keys, the pair test, the
result of a merge as a function of the fetched file, the derivations and the validator's layers. Dates
are day numbers, amounts micro-dollars, an id a tuple of the parts the code joins
with dashes. A ratio is a text: its two numbers, and a third one that tells the
spellings with leading zeros apart, which `schema.json` allows. The keys of the merge, the pair test and
the validator's layer for ids compare the text; `rewrite_action_ids.py` and
`derive_impacts.py` take the numbers of it (`Numbers`). The fetchers write no such
zeros, a hand edit may. The five-day and one-cent bounds and the rounding to
four decimals are those of the code. Rounding is half up; Python's `round` may
differ at an exact half, which six-decimal amounts reach only in the fifth
decimal and which no property distinguishes.

`MergeFetched` is `merge_fetched.py` run repeatedly on one checkout.

| Code | Model |
|---|---|
| `load_json`, `load_reject_set` | `LoadFails`, `Load`; a reject list that does not parse gives the empty set |
| loop body of `merge()` | `SkipKnown`, `RejectRemoved`, `RejectSemantic`, `Accept`, in the code's order, one candidate (`pos`) per step |
| `existing_keys`, `working` | `ExistingKeys`, `Working`, computed from `current` and `added` |
| `write_atomic` | `WriteTmp`, then `Rename` |
| `--dry-run` | `dryRun` |
| a killed process | `Kill`, at any point; in the middle of the write the temporary file is torn |
| the maintainer | `AddRejectEntry` before `RemoveAction`, as the README of the repository prescribes; `EditRejectList` breaks or mends the JSON; `Fetch` replaces the feed |

`CuratedRegistry` is what the merge promises, on a set of records without any
process: no two records of one event or with one id, growth only by batches
without barred events, departure only of barred events. `MergeFetched`
implements it (`Promise`), with `registry <- Range(actions)`.

`UpdatePipeline` is `run_update.sh` as a program counter over its steps, with
`actions.json`, the fetched file, the git index, HEAD and remote, the artifacts
and the notification state. The merge and the derivations are one step each:
`MergeFetched` shows that a merge replaces the file in one rename, and
`GrowsByWholeMerges` ties its outcome to the operator `MergeInto` used here. The
steps of `build.py` and `notify_on_change.py` that change files are separate. An
artifact is the registry it renders, a hash the registry it was computed from.
`Fail` is a command that exits nonzero, allowed only where the code can
fail; `Kill` is possible everywhere. Between runs a maintainer edits the file
(`HandEdit`), classifies it (`Classify`), commits what is staged
(`CommitByHand`) and rewrites the ids: `rewrite_action_ids.py` is `BackUp`, with all
its refusals as guards, and `RewriteIds`.

`FixDuplicates` is the repair script with its file operations as steps:
`ReplaceActions`, `ComposeRejects`, `TruncateRejects` (opening for writing
empties the file, and until it is written it does not parse: `torn`), `WriteRejects`. `Crash` is the `TypeError` of `round(None)`
for an entry with a null amount. `Merge` is a whole merge with the reject set
the script left behind.

`TokenBucket` is `acquire()` under threads in discrete time. One unit of tokens
is what one tick adds, so a deficit is a wait; the clock is the age of the last
refill, capped where it says no more. `window`, `spent` and `robbed` are history
variables of an observer.

`YahooFetch` is the Yahoo fetcher over several passes, while the market goes on.

| Code | Model |
|---|---|
| argument checks, `--ticker-offset`, `--ticker-limit` | `Start`, `Windowed` |
| `bucket.acquire()`, `_fetch_events` | `Acquire`, `Answer`, `Retry`, `GiveUp` |
| `build_dividend_action`, `build_split_action`, `ratio_to_string` | `DividendRecord`, `SplitRecord`, `RatioToString`, which finds the fractions `limit_denominator` may return |
| dedup by id, sort, write | `Unique`, `Precedes`; `Open` empties the file, `Write` fills it |
| exit code | `ExitCode`; `run_update.sh` stops (`StopAfterErrors`) or merges (`MergeOutput`) |
| a maintainer between passes | `MergeByHand`, whatever the exit code was; `RemoveListed` |
| the market | `Pay`, `SplitShares`, which rescales what was paid before |

Cash is in ten-millionths of a dollar, one decimal more than the file has, so that
the two roundings of an amount can differ. The payments and splits of one answer
are read at one moment, as one response of Yahoo holds them both.

`FilingFetch` is the SEC fetcher, request by request, over several runs.

| Code | Model |
|---|---|
| `_get` | `ServeCached`, `Respond` (not cached), `SaveResponse` and `Saved` (cached, with the file torn in between), `Retry`, `GiveUp` |
| `fetch_all_filings` | `ListRecent`, `ListArchive` |
| `get_filing_text`, then the two checks of the text | `OpenIndex`, `ReadDocument` |
| dedup, write, exit code | `Open`, `Flush`, `WriteFails` |
| a killed process, or an unhandled error of the cache | `Stop` |
| the SEC | `Publish`, `Roll`: the oldest recent filing moves to the archive |

`Receive` is what the program does with a response from either place. A text is
the sequence of what the patterns find in it: a new symbol, a delisting, a date, each
with the rank of its pattern. The extraction keeps the code's two orders: the first
match of a pattern is the first in the joined documents (`Matches`), and of two
patterns the one that is tried first wins (`Preferred`), unless what it found is no
date (`Effective`). Instruments may share a company; then each reads its filings.
`todo` holds the positions, in the merged list, of the filings that are still to be
read. The rate limit is `TokenBucket`'s. Each company has one archive file from the
beginning, possibly empty. A filing without a primary document is passed over like
one of another form.

`TickerCache` is the index behind `by_ticker` in the four wrappers; `wrapper` says
which one a behaviour runs.

| Code | Model |
|---|---|
| the key: `getmtime` (Python), `statSync` (JavaScript), `filepath.Abs` (Go), `canonicalize` (Rust) | `StampKey`, `KeyNow`, `Stat`; a missing file has a key in Python (time 0.0) and Rust (the path as given), and is an error in JavaScript (`StatFails`) |
| the first look into the cache | `Hit`, `Miss` |
| open, parse | `OpenFails`, `ParseFails`, `Read` |
| the store: plain, or after a second look under the lock (Go) | `Store` |

An index is the number of the file's version. All calls name one file. In Rust each
call may name it by its canonical path or by another one: while the file is missing,
the first has the key the file would have, as in Go, and the second one of its own
(the argument of `KeyNow`). One
JavaScript call runs at a time, the others overlap. Locks are not modelled:
each of their critical sections is one step.

`RegistrySave` is `save()` down to inodes: opening truncates, a rename moves a
name, an open file survives both, and a write past the end leaves a hole. A
document is a sequence of chunks marked with its save.

`WrapperRegistry` is what a wrapper knows of one file: the structural checks, the
indexes, every query and the price adjustment, as operators with the wrapper as
an argument where the code differs. `Author` writes a file of whole or defective
records, `Resave` loads it into one wrapper and saves it again. Prices are
fractions, so no rounding is involved. An impact, when there is one, has its
multiplier and its cash amount, as `derive_impacts.py` writes it. A query answers
with positions of the file; `Answers` gathers all of them, with the fields every
wrapper knows.

`Backtest` is the backtest example over `WrapperRegistry`: which actions its window
holds after deduplication, and the returns it computes from them, as fractions.

`MC*` modules give the constants of the runs; `RegistryProofs` has lemmas about
the functions of `RegistryData`, and `MergeProofs`, `PipelineProofs`, `YahooProofs`,
`FixProofs`, `FilingProofs`, `CacheProofs` and `WrapperProofs` hold the theorems. A definition
named in a comment as a mutant is never used by the specification: it is the defect a
property is known to detect.

## 3. What is checked

| Run | Question and result |
|---|---|
| `merge` | Does the registry stay curated over two runs, kills and removals? Yes: no two records of one event (`RegistrySemanticallyUnique`) or one id (`RegistryIdsUnique`), no rejection without a match (`RejectionJustified`), removed events stay out (`RemovedStaysOut`), only whole merges appear (`GrowsByWholeMerges`), and `CuratedRegistry` is implemented (`PromiseKept`). |
| `pipeline` | Does anything unvalidated get staged, built or announced, over two runs that fail or die anywhere? No (`NothingUnvalidated`). A successful run leaves nothing stale (`SuccessMeansCurrent`), a change is never marked announced before its webhook call (`StateFollowsWebhook`), a dry run keeps the registry and the repository (`DryRunKeepsRepository`), a rewriting of the ids changes nothing else, keeps the old file in the backup, leaves no two ids alike, and leaves the ids the validator accepts on all records but those whose ratio has leading zeros (`RewriteRepairs`), and every run ends (`RunEnds`). |
| `fix_duplicates` | Does an uninterrupted repair bar what it removes? Yes (`RemovalsBarred`), although it keys entries otherwise than the merge; and, killed or not, it adds no id twice (`IdsStayUnique`). |
| `removed_returns` | Does it in every case, as its comment says? No: stopped between its two files it never records the removals, and the next merge takes the records back. |
| `token_bucket` | Is the rate kept over every window (`RateLimited`), is no sleep too short (`SleepsLongEnough`), does every call return (`EveryCallReturns`)? Yes. |
| `yahoo_fetch` | What may a pass of the Yahoo fetcher that reports success miss? No event that had happened when it began (`NothingMissed`). Its records are those the merge takes for granted (`RecordsWellFormed`), and what they add to the registry has happened (`NothingInvented`). What makes the registry hold an event twice, or take one back that was removed? Only a split after a dividend (`OnlySplitsBringBack`). Every pass ends (`PassEnds`). |
| `rescaled` | After a pass, has every dividend the amount Yahoo gives for it, as the README says? No: the one fetched before a split stays beside its rescaled copy. |
| `sec_fetch` | What may a run of the SEC fetcher miss? Nothing that was listed when it began, if it exits with 0, has given up no request and no earlier run was stopped while it wrote the cache (`NothingMissed`). What may it get wrong? Nothing, unless a document was given up or torn: half a filing can have another effective date, and so another id (`NothingInvented`). Each condition is needed: exit code 0 says only that every company's list could be read. |
| `ticker_cache` | When is an answer of `by_ticker` stale? In Python and JavaScript it is never older than the file was at the call, if the key tells the versions apart and no index is stored for a missing file (`FreshAnswers`). Answers never go back behind what any call has returned, in Rust under the further condition that no two calls fill the cache at once (`NeverGoesBack`). In Go all answers are one index (`FirstIndexStays`). |
| `wrapper_save` | What does a reader of a saved file find? With the three wrappers that rename, a whole document, whatever is killed or fails, as long as no two threads of a process save at a time (`WholeUnlessShared`). A temporary file is left only by a kill or, in Go and Rust, by a failed write (`OrphansExplained`). |
| `wrapper_queries` | Do the four wrappers agree? They load the same well-typed files, and answer alike unless an id is missing or a string empty (`SameAnswers`). Saving through other wrappers changes no answer (`AnswersSurviveSaves`). Where the window of the backtest example covers all actions, its naive return over forward splits is that of the raw prices, and the cash it adds is the cash the wrapper takes (`BacktestUndoesAdjustment`). |
| `price_composition` | Is every bar? No: a dividend listed before a split is multiplied by it. |

### Bounds

* `merge`: one instrument, eight records, feeds of two and three, two runs. The
  records are chosen so that each pair of identities above disagrees on some
  pair of records: equal and different fourth decimals, less and more than a
  cent, four and eight days, both types of each family, a type without a
  semantic test. Instruments never interact, since every key holds the ISIN. Two
  runs are enough for a second run to meet the leftovers of the first; further
  runs repeat this.
* `pipeline`: two runs, four command lines, hand-edited registries (valid, id out
  of date, id drifted by a rounding, the same beside a split with the ratio "02:1", two
  records of one id after a rewriting, two records of one event, empty) and three feeds (known, new,
  not derivable). `MinActions` is 1 instead of 100.
* `fix_duplicates`: data of the shape of `REMOVE_IDS` and `ADD_ENTRIES`, three
  runs of the script: an interrupted one, its repetition and one more.
* `token_bucket`: two threads, two calls each, capacity three, demands of one
  token and of the whole bucket besides refused ones, windows up to five ticks,
  more than the bucket can hide.

* `yahoo_fetch`: two instruments, three market events six days apart (more than the
  pair test reaches), of which the first may lie before `--min-date`; two passes. One
  dividend has a sixth decimal that carries once it has been split in four, one is
  of nothing; one ratio has a denominator that cannot be written. A list may name an
  instrument twice. Two passes are what it takes to fetch an event before and after a
  split.
* `sec_fetch`: one company with two instruments and two filings, one of them with
  two documents, two runs. The second run meets the cache of the first, whole or
  torn, and a list that has changed; the second instrument finds in the cache what
  the first has read. Filings of another form, from before `--min-date` or of another
  company are left to the theorems, which hold for any.
* `ticker_cache`: two threads, two versions of the file with equal or different
  times and sizes, one with a byte-order mark. The number of calls is unbounded.
  A slot, a call in flight and the disk hold one version each; a third version
  would add only repetitions of what two show.
* `wrapper_save`: a process with two threads and one with one, three saves of one
  or two chunks. Tearing needs two saves, the third meets what they left.
* `wrapper_queries`: eleven records, which between them have every combination of
  null, empty and given that some wrapper treats differently; files of up to
  three of them, since a query relates at most two records and a price
  composition three; two saves by any two wrappers.

`MaxRuns`, `MaxPasses`, `LastDay`, `Calls`, `MaxWindow`, `MaxVersions`, `MaxSaves`, `MaxResaves`, `MaxLength` and `MaxItems`
are the only artificial bounds; each is a guard on one action. Deadlock is not
checked where the bounds let the system stop: `wrapper_save` and
`wrapper_queries` end with their last save, `sec_fetch` and `yahoo_fetch` with
their last run.

### Fairness

`UpdatePipeline` assumes that the shell goes on with a script it has begun
(`WF(Step)`); nothing makes anybody start a run. `YahooFetch` assumes the same of a
pass, and that Yahoo answers a request or fails it: a process that may fail every
attempt still comes to an end, because attempts are counted. `TokenBucket` assumes that time
passes and that the scheduler runs each thread that can move (`WF` per thread).
The lock needs no strong fairness: its critical section is one step. No call is
obliged to be made, and since each thread makes finitely many, a sleeper is
overtaken finitely often; with unboundedly many rivals the code promises
nothing, and neither does the model. The merge, the SEC fetcher and the repair
script have no liveness property: they are loops over finite lists. Neither have the wrappers:
a call is a straight line of steps.

## 4. What is proved

`MergeProofs` (for every set of events and feeds, and any number of runs), from
the assumptions in `MergeFetched`: records have the shape the fetchers build and
the validator accepts (`WellFormed`), and the registry was valid at the start.

* `TypeCorrect`, `NeverTwoOfOneEvent`, `NeverTwoOfOneId`, `BlameIsJust`,
  `RemovedForGood`, `GrowthIsWhole`, and `MergeKeepsPromise` (the refinement).
* The inductive invariant `IInv` adds to the properties that the copies of a
  running merge are still the files (`CopiesCurrent`: no tool writes between load
  and rename), that the list it grows is free of duplicates and barred records
  (`WorkingSound`), and that the temporary file holds that list when it is
  renamed. Without them a rename could install anything.
* The key lemma is `SameIdIsSeen` in `RegistryProofs`: two well-formed records with one id have one
  fuzzy key or are one event for the pair test. This is why a merge that never
  compares ids keeps them unique. `TrialList` shows that over a list without
  duplicates the test of the whole trial list blames exactly the candidate.
* `GrowthIsWhole` ties the loop to the function `MergeInto`: while a run is under way
  its list is the function's after the records it has seen (`Progress`).

`PipelineProofs` (for every feed, hand edit and command line, and any number of
runs): `TypeCorrect`, `GateHolds`, `SuccessIsCurrent`, `NoChangeIsLost`,
`DryRunIsDry`, `RewritingRepairs`. None of these properties is inductive: each
speaks of the end of a run, where it holds because of what an earlier step saw.
The invariant says what every place of the script still knows: which flags are
possible there (`FlagsFit`), that the registry is still the one the validator
passed (`Gate`), that the artifacts written so far render it (`BuildSound`), that
the hash under way is its hash (`NoticeSound`), and that the backup of a rewriting
has the old file, every record of which has a canonical id (`RewriteSound`). The type
invariant rests on the last: a ratio without two numbers has no canonical id.
`RenamedIsRecord` shows when the validator accepts one. `RunsAreBounded` is about the length of a run:
`StepsLeft` is lowered by whatever happens after the start of one.

The merge and the derivations are single steps there, so the proof needs what they
do to any list of records. `RegistryProofs` shows it. A merge is recursive over the
fetched file, and `MergeKeeps` is its induction principle, derived from the
well-foundedness of the numbers: a set of lists that has the registry in it and is
closed under the offer of one fetched record has the outcome in it.

`YahooProofs` (for every market, list of instruments and number of passes):

* `RecordsAreWellFormed`, which discharges for the Yahoo fetcher what `MergeFetched`
  assumes of its feeds; `TwoRoundings` bounds what the two roundings of an amount
  can differ by.
* `NothingIsMissed`. Its invariant, `Covered`, says what the answers collected so
  far hold of the instruments asked so far; it survives a split in the middle of a
  pass because a payment of nothing stays one.
* `NothingIsInvented` and `OnlyRescalingBringsBack`. Every record, in memory, in the
  file, in the registry or on the reject list, is of an event of the market, in the
  amount of today unless a split has followed (`Known`), and what is known stays
  known (`MarketMoves`). So two records of one event that no split divides are one
  record, and the fuzzy key sees it (`OneRecordPerEvent`). That the reject key, which
  has no ratio, is as fine as the fuzzy key rests on the same fact
  (`RejectKeyIsFuzzyKey`); without it a removal could leave a second record with a
  barred key.
* `PassesAreBounded`: a pass has at most one token and `MAX_RETRIES` attempts for each
  ticker, and four steps more.
* `OneFraction` and `ExactFraction` are about `limit_denominator`: no two fractions
  are both the best, and a ratio whose denominator can be written is exact.

`FilingProofs` is about the SEC fetcher and about the rate limit both fetchers
obey. The fetcher (for every list of instruments, shared companies included, every
collection of filings and documents, and any number of runs): `FilingsAreTyped`,
`NoFilingMissed`, `NoActionInvented`. The invariant `FetchInv` has four parts.

* `Lists`: what is listed stays with its company and only moves to its archive
  (`ListsGrow`). So a filing is in the archive by the time that is read, if it was
  not in the recent list when that was.
* `Cached`: the cache holds only URLs whose answer never changes (`SameRemote`), and
  whole answers unless a run was stopped at a write. `NothingMissed` would fail if a
  list of filings were cached.
* `Reading`: the documents to come are the rest of the index, and, if none was given
  up or torn, the texts are those of the documents before them. So the text from which
  actions are extracted is the whole filing's.
* `Progress`: of what was listed at the beginning each filing is done, or belongs
  to an instrument to come, or is ahead for the present one, in a list not read yet or
  at a position in `todo`. `GoOnProgress` shows that moving on skips nothing, and
  `WantedHasAll` that dropping second entries for a filing loses none.

What the file leaves out of the actions found has an id that is in it
(`UniqueHasAllIds`), which is why `NothingMissed` speaks of ids.

The rate limit (for every capacity, demand and set of threads): `BucketTypeCorrect`,
`RateIsLimited`, `NoVainSleep`. The invariant is `Conservation`: what was
granted in the window and what could be granted now came out of one full bucket
and the time that has passed. The rate limit alone is not inductive, for it
forgets what is still in the bucket.

`CacheProofs` (for every set of threads, every set of looks a file can have and any
number of versions): `TypeCorrect`, `AnswersAreFresh`, `MappingNeverGoesBack` and
`FirstIndexIsKept`. There are two arguments, one for each kind of key.

* Python and JavaScript: what is cached under the key of a version is no older than
  that version (`CacheFollows`), and a call works under the key of a version that
  came after everything known when it began (`KeyedFromNow`). A slow reader may
  store a newer index than its key says, never an older one.
* Go and Rust: one slot is in use, it is filled once, and every answer came from it
  (`OneAnswer`). In Go that rests on the second look under the lock, in Rust on the
  condition that no two calls fill the cache at once.

`WrapperProofs` is about saving and about querying. Saving (for every set of processes and
threads, documents of any length and any number of saves, the sets of processes and
threads being finite, so that an unused inode has a number): `SaveTypeCorrect`,
`TargetStaysWhole`, `OrphansAreExplained`.
The invariant `Separate` says that a process saves once at a time, that its
temporary file is its own and not the target (`OwnFile`), and that the file holds
what the save has written so far, wherever an earlier save left it (`Writing`); so
what is renamed is a whole document.

Querying (for files of any length and content, any arguments, and any number of saves
between them): `FilesAreTyped`, `WrappersAgree`, `SavesKeepAnswers`, `BacktestAgrees`.

* `FileInv` relates the file to the one its author left: record by record they differ
  only in what no wrapper answers with, and if any wrapper with types can load the
  one it can load the other. That each `Saves` keeps what a query looks at is
  proved wrapper by wrapper, and carries over to answers because equal selections of
  positions give equal answers.
* In a plain file the tests for a missing id, ISIN or date agree, so the four answers
  are one expression (`WrappersAgree`). Outside such files the wrappers do differ, which
  is why `Plain` is a condition.
* The returns and the prices are loops over the same positions. `LoopExists` shows that
  a loop over a sequence defines a function by its steps, and `BacktestAgrees` follows the
  two loops side by side: after each action the adjusted first price times the net
  multiplier is the raw one, or the cash taken and the cash given are equal.

`FixProofs` (for every choice of wrong and corrected records, every registry and
feed of well-formed records, and any number of runs and kills): `TypeCorrect`,
`RemovedIsBarred`, `NoIdTwice`. It assumes that the records named by `REMOVE_IDS`
have an ex-date, as those of the script do: without one the entry the script writes
and the record it removes have different keys. The invariant `Recorded` follows
the removed keys from the list the run loaded into the list it writes;
`EntryHasRecordKey` and `ScriptKeyIsFiner` relate the three keys. Ids stay unique
across merges by the lemma `AcceptedIdIsNew` of `RegistryProofs`, which `MergeProofs`
rests on too.

Every invariant and every action property the runs check is proved, and so is the
refinement of `CuratedRegistry`. Model-checked only: the liveness properties
(`RunEnds`, `PassEnds`, `EveryCallReturns`), which are out of the prover's reach: they
speak of fairness. For the first two the measures above leave nothing but the
appeal to fairness and that some step is possible at every place of a run.

## 5. Disagreements with the text of the repository

The violation runs of section 3, and some that reading alone shows:

* The artifacts of a build may disagree: its loop over atomic writes is not atomic
  (`build.py:446`).
* `save()` of the Go and Rust wrappers is not atomic when two threads of one process
  save at a time (`WholeUnlessShared` states the exception).
* The id of a Yahoo dividend and the id everybody else computes from the stored
  amount may differ in the last decimal (`fetch_yahoo_actions.py:237`).
* `ratio_to_string` approximates a ratio it cannot write where its docstring says it
  returns nothing, and every split is a `SPLIT`, against `docs/data_sources.md:136`.
* `MERGER` records pass the validator, against its docstring; `rewrite_action_ids.py`
  refuses them, and with them the registry of the repository.
* `rewrite_action_ids.py` drops leading zeros from a ratio when it makes an id of it,
  against its docstring (line 11) and the validator, which compares the text
  (`validate.py:591`): the canonical id of a "010:1" split is refused.
* The naive return of the backtest example ignores reverse splits.
* The scheduled workflow cannot reach its pull request with a new Yahoo record.
* `run_update.sh --commit` stages and never commits (`run_update.sh:365`).
* Not every action declares a redistribution category, against
  `docs/redistribution.md:38`: nothing in the pipeline derives it, so a run that
  merges a new record cannot pass validation.
* The SEC fetcher reads the archives of filings, against its docstring (line 31);
  the Yahoo fetcher exits with 3 for a missing file, against line 49 of its own.
* The scheduled workflow merges with code of its own that ignores the reject
  list and the semantic layer, against `README.md:113`.
* The Python wrapper's `save()` writes in place, and a failed write of the Go and
  Rust ones leaves the temporary file, against `CHANGELOG.md:159`.
* The JavaScript index loader assigns to a constant when it meets a byte-order
  mark.
* The Python cache can keep an index for a missing file, its key has no size, and
  the contract's section 4.8 describes the Go and Rust caches only.
* Comments in `ticker_index.go` and `lib.rs` give wrong reasons for code that does
  what it should.

Details are in `PROJECT.json`.

## 6. Not modelled, and the plan

The scheduled workflow is not modelled: it is one straight line of commands on a
checkout of its own, which leaves nothing behind but a branch. Its merge differs
from `merge_fetched.py` (section 5), and the tests in its middle fail whenever a
Yahoo record is new, so a model of the rest would be of steps that are not reached.

The plan: a measure for the SEC fetcher too, whose lists grow while they are read, and
the promise of `CuratedRegistry` for the merges inside `YahooFetch` and `FixDuplicates`.

Left out for good: JSON parsing, the regular expressions that read filings (they
are functions of document text), the wording of messages, `--check` and
`--list-mappings` modes that change nothing, layout of the artifacts, and the
documentation checks.
