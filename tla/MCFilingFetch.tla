---------------------------- MODULE MCFilingFetch ----------------------------
(* FilingFetch with a company of two instruments and two filings: a change *)
(* of symbol in two documents, which is a change for one instrument only,  *)
(* and a delisting with another symbol and a date that is none.            *)
EXTENDS FilingFetch

Symbol(s) == [kind |-> "symbol", rank |-> 1, value |-> s]
Delisting == [kind |-> "delisting", rank |-> 1, value |-> 0]
On(d)     == [kind |-> "date", rank |-> 2, value |-> d]
From(d)   == [kind |-> "date", rank |-> 1, value |-> d]

Report(company, form, filed, documents) ==
    [company |-> company, form |-> form, filed |-> filed, documents |-> documents]

Share(isin, ticker, company) == [isin |-> isin, ticker |-> ticker, company |-> company]

MCInstruments == <<Share(1, 1, "acme"), Share(2, 2, "acme")>>

MCAbout ==
    [move  |-> Report("acme", "8-K", 3, <<<<On(5), From(7)>>, <<Symbol(2), On(6)>>>>),
     leave |-> Report("acme", "8-K", 4, <<<<Symbol(3), Delisting, From(0), On(5), On(6)>>>>)]
=============================================================================
