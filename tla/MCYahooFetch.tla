---------------------------- MODULE MCYahooFetch ----------------------------
(***************************************************************************)
(* Two instruments.  One pays an amount whose sixth decimal rounds the     *)
(* fourth up once it has been split; the other is regrouped by a ratio     *)
(* whose denominator the fetcher cannot write.  A list may name an         *)
(* instrument twice.                                                       *)
(***************************************************************************)
EXTENDS YahooFetch

CONSTANTS A, B
MCIsin == {A, B}
MCLists == {<<A, B>>, <<A, A>>}
MCWindows == {<<0, None>>, <<1, 1>>}
MCPayouts == {<<A, 9601984>>, <<B, 0>>}
MCRatios == {<<A, 4, 1>>, <<B, 1, 150>>}
=============================================================================
