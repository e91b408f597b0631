------------------------------ MODULE Backtest ------------------------------
(***************************************************************************)
(* examples/backtest_adjustment.py on top of the Python wrapper: the three *)
(* returns of a holding period.  A return is the fraction last over first; *)
(* the percentage made of it is left out.  The closes of Yahoo are raw     *)
(* prices divided by every later split.                                    *)
(***************************************************************************)
EXTENDS WrapperRegistry

(* dedupe_actions: the first of the actions with one key stays, and every  *)
(* action without an ex-date.                                              *)
DedupeKey(a) == <<a.type, a.ex, a.ratio, IF a.amount = Null THEN 0 ELSE a.amount>>

Deduped(items, isin) ==
    LET own == HasIsin("python", items, isin)
    IN  {i \in own : \/ ~Present(items[i].ex)
                     \/ \A j \in own : j < i => DedupeKey(items[j]) # DedupeKey(items[i])}

InRange(ex, start, end) == Present(ex) /\ start <= ex /\ ex <= end

InWindow(items, isin, types, start, end) ==
    InOrder(Len(items), {i \in Deduped(items, isin) :
                            items[i].type \in types /\ InRange(items[i].ex, start, end)})

(* impact.share_multiplier; an action without an impact has none. *)
ShareMultiplier(a) ==
    IF a.impact = NoPair THEN <<1, 1>> ELSE <<a.impact[2], a.impact[1]>>

Times(p, q) == <<p[1] * q[1], p[2] * q[2]>>
Over(p, q)  == <<p[1] * q[2], p[2] * q[1]>>

PriceReturn(first, last) == Over(last, first)

NetMultiplier(items, inWindow) ==
    LET net[k \in 0 .. Len(inWindow)] ==
          IF k = 0 THEN <<1, 1>> ELSE Times(net[k - 1], ShareMultiplier(items[inWindow[k]]))
    IN  net[Len(inWindow)]

(* Mutant: the last price is multiplied. *)
UnadjustedReturnOfLast(first, last, items, inWindow) ==
    Over(Times(last, NetMultiplier(items, inWindow)), first)

(* compute_unadjusted_return: a net multiplier of one or less is ignored.  *)
UnadjustedReturn(first, last, items, inWindow) ==
    LET multiplier == NetMultiplier(items, inWindow)
    IN  IF multiplier[1] <= multiplier[2] THEN Over(last, first)
        ELSE Over(last, Times(first, multiplier))

CashReceived(items, inWindow) ==
    LET cash[k \in 0 .. Len(inWindow)] ==
          IF k = 0 THEN 0
          ELSE IF items[inWindow[k]].amount = Null THEN cash[k - 1]
          ELSE cash[k - 1] + items[inWindow[k]].amount
    IN  cash[Len(inWindow)]

PricePlusCashReturn(first, last, items, inWindow) ==
    Over(<<last[1] + CashReceived(items, inWindow) * last[2], last[2]>>, first)

-----------------------------------------------------------------------------
(* Properties *)

(* The actions the wrapper applies to a bar on the first day are the ones  *)
(* the window has, once each: none lies beyond the last day, none on the   *)
(* first, and no two have one key.                                         *)
Covered(items, isin, start, end) ==
    /\ \A i \in DOMAIN items : items[i].isin = isin =>
         Present(items[i].ex) /\ start < items[i].ex /\ items[i].ex <= end
    /\ \A i, j \in DOMAIN items :
         i # j /\ items[i].isin = isin /\ items[j].isin = isin =>
             DedupeKey(items[i]) # DedupeKey(items[j])

Forward(a) == a.type = "SPLIT" /\ a.impact # NoPair /\ a.impact[1] < a.impact[2]

PlainCash(a) == a.type \in CashTypes /\ a.amount # Null /\ Cash(a) = a.amount

(* The example and adjust_prices agree on what an action does to a price,  *)
(* in opposite directions: where the window covers all actions and these   *)
(* are forward splits, the naive return is the one of the raw prices; and  *)
(* where they are dividends, the cash added to the last price is the cash  *)
(* the wrapper takes from the first.                                       *)
BacktestUndoesAdjustment ==
    Loads("python", doc) =>
        \A x \in Isin \ {Empty}, start, end \in Day :
            LET own   == HasIsin("python", doc, x)
                first == Adjusted("python", doc, x, start)
                last  == <<Raw, 1>>
                seen(types) == InWindow(doc, x, types, start, end)
            IN  start < end /\ own # {} /\ Covered(doc, x, start, end) =>
                  /\ (\A i \in own : Forward(doc[i])) =>
                       SamePrice(UnadjustedReturn(first, last, doc, seen(SplitTypes)),
                                 PriceReturn(<<Raw, 1>>, last))
                  /\ (\A i \in own : PlainCash(doc[i])) =>
                       SamePrice(PricePlusCashReturn(<<Raw, 1>>, first, doc, seen(CashTypes)),
                                 <<1, 1>>)
=============================================================================
