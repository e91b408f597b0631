----------------------------- MODULE YahooFetch -----------------------------
(***************************************************************************)
(* tools/fetch_yahoo_actions.py and the merge of what it writes, run over  *)
(* and over while the market goes on.  A pass asks Yahoo for one           *)
(* instrument after the other, with retries, and writes one file; the      *)
(* script that started it merges the file after exit code 0, and a         *)
(* maintainer may merge it at any time.  A pass may be killed at any point.*)
(*                                                                         *)
(* Yahoo's amounts have decimals the file has not: cash is in ten-         *)
(* millionths of a dollar.  At a split Yahoo rescales the payments before  *)
(* it.  The token bucket is TokenBucket's, the merge MergeFetched's.       *)
(***************************************************************************)
EXTENDS RegistryData

CONSTANTS
    Lists,          \* the instruments of identifiers.json: sequences of ISINs
    Windows,        \* --ticker-offset and --ticker-limit: <<offset, limit or None>>
    MinDate,        \* --min-date
    Payouts,        \* what may be paid: <<isin, cash>>
    Ratios,         \* how shares may be split: <<isin, new, old>>
    MaxRetries,     \* MAX_RETRIES
    MaxDenominator, \* the bound of limit_denominator
    Missing, Torn,  \* no output file, and one that does not parse
    Gap, LastDay,   \* days between two market events; bound on the market
    MaxPasses       \* bound on the passes

ASSUME ListsAssumption == Lists \subseteq Seq(Isin)
ASSUME WindowsAssumption == Windows \subseteq Nat \X (Nat \cup {None})
ASSUME MarketAssumption ==
    /\ Payouts \subseteq Isin \X Nat
    /\ Ratios \subseteq Isin \X (Nat \ {0}) \X (Nat \ {0})
    /\ Gap \in Nat \ {0} /\ LastDay \in Nat /\ MinDate \in Nat
ASSUME FetcherAssumption ==
    /\ MaxRetries \in Nat \ {0} /\ MaxDenominator \in Nat \ {0} /\ MaxPasses \in Nat
ASSUME FileAssumption == Missing # Torn /\ {Missing, Torn} \cap Seq(Action) = {}

VARIABLES
    today,      \* the day of the last market event
    payments,   \* the dividends paid, in the amounts Yahoo gives for them now
    splits,     \* the splits so far
    output,     \* fetched_actions.json
    registry,   \* actions.json
    barred,     \* the keys of _removed_actions.json
    pc,
    chunk,      \* the instruments of this pass
    pos,        \* those before this position are done
    attempt,    \* of _fetch_events, counted from 1
    answers,    \* the records of each instrument that answered
    since,      \* history: the day this pass started
    passes

market == <<today, payments, splits>>
files  == <<output, registry, barred>>
locals == <<chunk, pos, attempt, answers, since>>
vars   == <<market, files, pc, locals, passes>>

Init ==
    /\ today = 0 /\ payments = {} /\ splits = {}
    /\ output = Missing /\ registry = << >> /\ barred = {}
    /\ pc = "idle" /\ passes = 0
    /\ chunk = << >> /\ pos = 1 /\ attempt = 1 /\ answers = << >> /\ since = 0

-----------------------------------------------------------------------------
(* The market *)

DayPasses == today + Gap <= LastDay /\ today' = today + Gap

Pay(isin, cash) ==
    /\ DayPasses
    /\ payments' = payments \cup {[isin |-> isin, day |-> today', cash |-> cash]}
    /\ UNCHANGED <<splits, files, pc, locals, passes>>

Rescaled(p, new, old) == [p EXCEPT !.cash = (p.cash * old) \div new]

SplitShares(isin, new, old) ==
    /\ DayPasses
    /\ splits' = splits \cup {[isin |-> isin, day |-> today', new |-> new, old |-> old]}
    /\ payments' = {IF p.isin = isin THEN Rescaled(p, new, old) ELSE p : p \in payments}
    /\ UNCHANGED <<files, pc, locals, passes>>

-----------------------------------------------------------------------------
(* Records *)

(* round(amount, 6) in millionths; the .4f of the id in ten-thousandths.   *)
(* Mutant: the amount is stored in whole cents.                            *)
InWholeCents(cash) == 10000 * ((cash + 50000) \div 100000)
Rounded6(cash) == (cash + 5) \div 10
IdAmount(cash) == (cash + 500) \div 1000

DividendRecord(p) ==
    [isin |-> p.isin, type |-> "DIVIDEND",
     ann |-> p.day, ex |-> p.day, record |-> None, eff |-> p.day,
     amount |-> Rounded6(p.cash), ratio |-> NoRatio,
     source |-> "Yahoo Finance", redistribution |-> "missing",
     impact |-> <<1, 1, Rounded6(p.cash)>>,
     id |-> <<p.isin, "DIVIDEND", p.day, <<IdAmount(p.cash)>>>>]

(* The fractions next to new/old, below and above it, of each denominator. *)
Fractions(new, old) ==
    {<<(new * d) \div old, d>> : d \in 1..MaxDenominator}
        \cup {<<(new * d) \div old + 1, d>> : d \in 1..MaxDenominator}

Distance(x, y) == IF x >= y THEN x - y ELSE y - x

(* f is at least as near to new/old as g; of two as near, the simpler.     *)
AsGood(f, g, new, old) ==
    LET df == Distance(f[1] * old, f[2] * new) * g[2]
        dg == Distance(g[1] * old, g[2] * new) * f[2]
    IN  \/ df < dg
        \/ df = dg /\ f[2] < g[2]
        \/ df = dg /\ f[2] = g[2] /\ f[1] <= g[1]

(* ratio_to_string: limit_denominator finds the nearest fraction, and one  *)
(* whose numerator is zero is no ratio.                                    *)
RatioToString ==
    [r \in {<<x[2], x[3]>> : x \in Ratios} |->
        {f \in Fractions(r[1], r[2]) :
            f[1] > 0 /\ \A g \in Fractions(r[1], r[2]) : AsGood(f, g, r[1], r[2])}]

RatioOf(s) == RatioToString[<<s.new, s.old>>]

(* Mutant: old and new shares are swapped. *)
SplitRecordSwapped(s, f) ==
    [isin |-> s.isin, type |-> "SPLIT",
     ann |-> s.day, ex |-> s.day, record |-> None, eff |-> s.day,
     amount |-> None, ratio |-> <<f[2], f[1]>>,
     source |-> "Yahoo Finance", redistribution |-> "missing",
     impact |-> <<f[2], f[1], 0>>,
     id |-> <<s.isin, "SPLIT", s.day, <<f[2], f[1]>>>>]

SplitRecord(s, f) ==
    [isin |-> s.isin, type |-> "SPLIT",
     ann |-> s.day, ex |-> s.day, record |-> None, eff |-> s.day,
     amount |-> None, ratio |-> f,
     source |-> "Yahoo Finance", redistribution |-> "missing",
     impact |-> <<f[1], f[2], 0>>,
     id |-> <<s.isin, "SPLIT", s.day, f>>]

InScope(e, isin) == e.isin = isin /\ e.day >= MinDate

Dividends(isin) ==
    {DividendRecord(p) : p \in {q \in payments : InScope(q, isin) /\ q.cash > 0}}

Splits(isin) ==
    UNION {{SplitRecord(s, f) : f \in RatioOf(s)} : s \in {r \in splits : InScope(r, isin)}}

-----------------------------------------------------------------------------
(* One pass *)

Windowed(list, window) ==
    SubSeq(list, window[1] + 1,
           IF window[2] = None \/ window[1] + window[2] > Len(list)
           THEN Len(list) ELSE window[1] + window[2])

(* Wrong arguments and an empty window end the process before it has done  *)
(* anything.                                                               *)
Start(list, window) ==
    /\ pc = "idle" /\ passes < MaxPasses
    /\ window[2] # 0 /\ Windowed(list, window) # << >>
    /\ chunk' = Windowed(list, window)
    /\ since' = today /\ passes' = passes + 1
    /\ pc' = "acquire"
    /\ UNCHANGED <<market, files, pos, attempt, answers>>

(* The process is over. *)
Exit ==
    /\ pc' = "idle"
    /\ chunk' = << >> /\ pos' = 1 /\ attempt' = 1 /\ answers' = << >> /\ since' = 0
    /\ UNCHANGED passes

(* bucket.acquire() *)
Acquire ==
    /\ pc = "acquire" /\ pos <= Len(chunk)
    /\ pc' = "fetch" /\ attempt' = 1
    /\ UNCHANGED <<market, files, chunk, pos, answers, since, passes>>

Answer ==
    /\ pc = "fetch"
    /\ answers' = Append(answers, Dividends(chunk[pos]) \cup Splits(chunk[pos]))
    /\ pos' = pos + 1
    /\ pc' = "acquire"
    /\ UNCHANGED <<market, files, chunk, attempt, since, passes>>

(* Mutant: after the last attempt comes the first. *)
RetryForever ==
    /\ pc = "fetch"
    /\ attempt' = IF attempt < MaxRetries THEN attempt + 1 ELSE 1
    /\ UNCHANGED <<market, files, pc, chunk, pos, answers, since, passes>>

Retry ==
    /\ pc = "fetch" /\ attempt < MaxRetries
    /\ attempt' = attempt + 1
    /\ UNCHANGED <<market, files, pc, chunk, pos, answers, since, passes>>

(* Mutant: a ticker that failed counts as one without events. *)
GiveUpSilently ==
    /\ pc = "fetch" /\ attempt = MaxRetries
    /\ answers' = Append(answers, {})
    /\ pos' = pos + 1
    /\ pc' = "acquire"
    /\ UNCHANGED <<market, files, chunk, attempt, since, passes>>

(* The ticker goes to the errors and the pass goes on. *)
GiveUp ==
    /\ pc = "fetch" /\ attempt = MaxRetries
    /\ pos' = pos + 1
    /\ pc' = "acquire"
    /\ UNCHANGED <<market, files, chunk, attempt, answers, since, passes>>

Asked == pc = "acquire" /\ pos > Len(chunk)

(* Of the records with one id the first stays. *)
Unique ==
    UNION {{r \in answers[i] : \A j \in 1..i - 1 : \A q \in answers[j] : q.id # r.id} :
           i \in DOMAIN answers}

(* By (ex_date, action_id).  The market has one event a day, so ids that   *)
(* share the day differ in the discriminator only.                         *)
Precedes(a, b) == a.ex < b.ex \/ (a.ex = b.ex /\ a.id[4][1] < b.id[4][1])

Sorted(records) ==
    {seq \in [1..Cardinality(records) -> records] :
        /\ Range(seq) = records
        /\ \A i, j \in DOMAIN seq : i < j => ~Precedes(seq[j], seq[i])}

(* The output file is opened for writing, which empties it ... *)
Open ==
    /\ Asked
    /\ output' = Torn
    /\ pc' = "write"
    /\ UNCHANGED <<market, registry, barred, locals, passes>>

(* ... and written, whether or not a ticker failed. *)
Write ==
    /\ pc = "write"
    /\ output' \in Sorted(Unique)
    /\ pc' = "exit"
    /\ UNCHANGED <<market, registry, barred, locals, passes>>

(* An OSError: exit code 3. *)
WriteFails ==
    /\ Asked \/ pc = "write"
    /\ Exit
    /\ UNCHANGED <<market, files>>

(* 3 if every ticker failed, 1 if some did, 0 if none. *)
ExitCode ==
    IF answers = << >> THEN 3 ELSE IF Len(answers) < Len(chunk) THEN 1 ELSE 0

(* run_update.sh stops at a nonzero exit ... *)
StopAfterErrors ==
    /\ pc = "exit" /\ ExitCode # 0
    /\ Exit
    /\ UNCHANGED <<market, files>>

(* ... and merges the file otherwise. *)
MergeOutput ==
    /\ pc = "exit" /\ ExitCode = 0
    /\ registry' = MergeInto(registry, output, barred)
    /\ pc' = "merged"
    /\ UNCHANGED <<market, output, barred, locals, passes>>

End ==
    /\ pc = "merged"
    /\ Exit
    /\ UNCHANGED <<market, files>>

Kill ==
    /\ pc # "idle"
    /\ Exit
    /\ UNCHANGED <<market, files>>

-----------------------------------------------------------------------------
(* Between passes *)

(* tools/merge_fetched.py by hand; it refuses a file that does not parse.  *)
MergeByHand ==
    /\ pc = "idle" /\ output \notin {Missing, Torn}
    /\ registry' = MergeInto(registry, output, barred)
    /\ UNCHANGED <<market, output, barred, pc, locals, passes>>

(* The removal of the README: the reject-list entry, then the action. *)
RemoveListed(i) ==
    /\ pc = "idle"
    /\ barred' = barred \cup {RejectKey(registry[i])}
    /\ registry' = RemoveAt(registry, i)
    /\ UNCHANGED <<market, output, pc, locals, passes>>

Step ==
    \/ Acquire \/ Answer \/ Retry \/ GiveUp
    \/ Open \/ Write \/ WriteFails
    \/ StopAfterErrors \/ MergeOutput \/ End

Next ==
    \/ \E p \in Payouts : Pay(p[1], p[2])
    \/ \E r \in Ratios : SplitShares(r[1], r[2], r[3])
    \/ \E list \in Lists, window \in Windows : Start(list, window)
    \/ Step
    \/ Kill
    \/ MergeByHand
    \/ \E i \in DOMAIN registry : RemoveListed(i)

(* The process goes on; Yahoo answers or fails, it does not hang. *)
Spec == Init /\ [][Next]_vars /\ WF_vars(Step)

-----------------------------------------------------------------------------
(* Properties *)

(* What the merge takes for granted of the fetcher (EventAssumption of     *)
(* MergeFetched): records of the right types whose id names them, the two  *)
(* roundings of the amount notwithstanding.                                *)
RecordsWellFormed ==
    \A i \in DOMAIN answers : \A r \in answers[i] : r \in Action /\ WellFormed(r)

(* Exit code 0: the file has every dividend and every split of the         *)
(* instruments asked for that had happened when the pass started, in the   *)
(* window of dates, whatever failed and was tried again.                   *)
NothingMissed ==
    pc = "exit" /\ ExitCode = 0 =>
        \A isin \in Range(chunk) :
            /\ \A p \in payments :
                 InScope(p, isin) /\ p.day <= since /\ p.cash > 0 =>
                     \E a \in Range(output) :
                         a.isin = isin /\ a.type = "DIVIDEND" /\ a.ex = p.day
            /\ \A s \in splits :
                 InScope(s, isin) /\ s.day <= since /\ RatioOf(s) # {} =>
                     \E a \in Range(output) :
                         a.isin = isin /\ a.type = "SPLIT" /\ a.ex = s.day

(* Every record of the registry is an event of the market, on its day, a   *)
(* split with its own ratio unless the fetcher cannot write it.            *)
NothingInvented ==
    \A a \in Range(registry) :
        \/ /\ a.type = "DIVIDEND"
           /\ \E p \in payments : p.isin = a.isin /\ p.day = a.ex
        \/ /\ a.type = "SPLIT"
           /\ \E s \in splits :
              /\ s.isin = a.isin /\ s.day = a.ex
              /\ \/ a.ratio[1] * s.old = a.ratio[2] * s.new
                 \/ s.old > MaxDenominator

SplitAfter(isin, day) == \E s \in splits : s.isin = isin /\ s.day > day

(* The keys of the merge hold an amount, and a split changes the amounts   *)
(* before it.  Nothing else makes the registry hold a payment twice, or    *)
(* take one back that was removed by the protocol.                         *)
OnlySplitsBringBack ==
    \A i \in DOMAIN registry :
        LET a == registry[i]
            again == \/ \E j \in DOMAIN registry :
                           j # i /\ registry[j].isin = a.isin /\ registry[j].type = a.type
                                 /\ registry[j].ex = a.ex
                     \/ \E key \in barred :
                           key[1] = a.isin /\ key[2] = Family(a.type) /\ key[3] = a.ex
        IN  again => a.type = "DIVIDEND" /\ SplitAfter(a.isin, a.ex)

(* A pass comes to an end though Yahoo may fail every time. *)
PassEnds == pc # "idle" ~> pc = "idle"

(* Violated.  README.md: a dividend paid before a split is reported at the *)
(* post-split equivalent amount.  Right after a pass that no market event  *)
(* overtook, every dividend of its instruments has the amount of today.    *)
AmountsSplitAdjusted ==
    pc = "merged" /\ today = since =>
        \A a \in Range(registry) : \A p \in payments :
            a.type = "DIVIDEND" /\ a.isin \in Range(chunk) /\ p.isin = a.isin /\ p.day = a.ex
                => a.amount = Rounded6(p.cash)
=============================================================================
