--------------------------- MODULE MCMergeFetched ---------------------------
(***************************************************************************)
(* MergeFetched over one instrument and records chosen to meet every key   *)
(* of the merge at its edge: amounts with equal and with different fourth  *)
(* decimals, less and more than a cent apart, effective dates within and   *)
(* beyond five days, both types of each family, and a type no semantic     *)
(* test compares.                                                          *)
(***************************************************************************)
EXTENDS MergeFetched

CONSTANT Stock
MCIsin == {Stock}

Made(type, ex, eff, amount, ratio) ==
    LET disc == CASE type \in SplitTypes -> ratio
                  [] type \in DividendTypes -> <<Round4(amount)>>
                  [] OTHER -> << >>
    IN  [isin |-> Stock, type |-> type, ann |-> eff, ex |-> ex, record |-> None, eff |-> eff,
         amount |-> amount, ratio |-> ratio, source |-> "Yahoo Finance",
         redistribution |-> "missing", impact |-> NoImpact,
         id |-> <<Stock, type, eff, disc>>]

Dividend  == Made("DIVIDEND", 10, 10, 250000, NoRatio)
Special   == Made("SPECIAL_DIVIDEND", 10, 10, 250000, NoRatio)
Rounded   == Made("DIVIDEND", 10, 10, 250040, NoRatio)   \* the fuzzy key of Dividend
Unrounded == [Made("DIVIDEND", 10, 10, 250050, NoRatio)  \* the id of Dividend, another key
                EXCEPT !.id = <<Stock, "DIVIDEND", 10, <<2500>>>>]
Near      == Made("DIVIDEND", 14, 14, 254000, NoRatio)   \* the event of Dividend
Raised    == Made("DIVIDEND", 12, 12, 262000, NoRatio)   \* the event of Near only
Far       == Made("DIVIDEND", 18, 18, 254000, NoRatio)   \* the event of Near only
Split     == Made("SPLIT", 10, 10, None, <<2, 1>>)
Regroup   == Made("REVERSE_SPLIT", 12, 12, None, <<2, 1>>)
Delisting == Made("DELISTING", None, 10, None, NoRatio)

MCEvent == {Dividend, Special, Rounded, Unrounded, Near, Raised, Far, Split, Regroup, Delisting}

(* Pairs that clash by one key only, in both orders, a repeated record,    *)
(* and triples whose outcome depends on the order of acceptance.           *)
MCFeeds ==
    {<<Special, Delisting>>, <<Rounded, Special>>, <<Split, Regroup>>, <<Regroup, Far>>,
     <<Delisting, Delisting>>, <<Dividend, Near, Far>>, <<Near, Far, Dividend>>, <<Far, Near>>,
     <<Raised, Near>>, <<Unrounded, Dividend>>}
MCRegistries == {<< >>, <<Dividend, Delisting>>}
=============================================================================
