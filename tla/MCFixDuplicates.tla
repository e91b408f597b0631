--------------------------- MODULE MCFixDuplicates ---------------------------
(***************************************************************************)
(* FixDuplicates on the shape of the script's own data: one pair of wrong  *)
(* dividends replaced by a correction that keeps the first one's ex-date,  *)
(* and a wrong special dividend replaced by a regular and a special one.   *)
(***************************************************************************)
EXTENDS FixDuplicates

CONSTANTS Apple, Microsoft
MCIsin == {Apple, Microsoft}

Dividend(isin, type, ex, eff, amount) ==
    [isin |-> isin, type |-> type, ann |-> 0, ex |-> ex, record |-> None, eff |-> eff,
     amount |-> amount, ratio |-> NoRatio, source |-> "press release",
     redistribution |-> "facts-only", impact |-> <<1, 1, amount>>,
     id |-> <<isin, type, eff, <<Round4(amount)>>>>]

WrongEx      == Dividend(Apple, "DIVIDEND", 23, 23, 250000)
WrongPay     == Dividend(Apple, "DIVIDEND", 10, 10, 250000)
Corrected    == Dividend(Apple, "DIVIDEND", 10, 16, 250000)
WrongSpecial == Dividend(Microsoft, "SPECIAL_DIVIDEND", 33, 30, 3000000)
Regular      == Dividend(Microsoft, "DIVIDEND", 15, 39, 80000)
Special      == Dividend(Microsoft, "SPECIAL_DIVIDEND", 17, 32, 3000000)

MCRemoveIds  == {WrongEx.id, WrongPay.id, WrongSpecial.id}
MCAddEntries == <<Corrected, Regular, Special>>
MCRegistries == {<<WrongEx, WrongPay, WrongSpecial>>, <<WrongPay, Regular>>}
MCFeeds == {<<WrongEx>>, <<WrongPay>>, <<WrongSpecial>>,
            <<[WrongSpecial EXCEPT !.type = "DIVIDEND", !.id[2] = "DIVIDEND"], WrongEx>>}

(* An entry as the script writes one, and one with a null amount, such as  *)
(* the delisting the repository's reject list holds.                       *)
MCHandEntries ==
    {EntryOf(WrongPay), [isin |-> Apple, type |-> "DELISTING", ex |-> 20, amount |-> None]}
=============================================================================
