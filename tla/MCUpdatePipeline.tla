-------------------------- MODULE MCUpdatePipeline --------------------------
(***************************************************************************)
(* UpdatePipeline over one instrument: a valid registry, hand edits that   *)
(* each fail at another step of the script or have their ids rewritten,    *)
(* and fetched files that add a record, add nothing, or add one            *)
(* derive_impacts.py refuses.                                              *)
(***************************************************************************)
EXTENDS UpdatePipeline

CONSTANT Stock
MCIsin == {Stock}

Dividend(day, amount, source, category, impact) ==
    [isin |-> Stock, type |-> "DIVIDEND", ann |-> day, ex |-> day, record |-> None, eff |-> day,
     amount |-> amount, ratio |-> NoRatio, source |-> source, redistribution |-> category,
     impact |-> impact, id |-> <<Stock, "DIVIDEND", day, <<Round4(amount)>>>>]

Known   == Dividend(10, 250000, "Yahoo Finance", "secondary-source", <<1, 1, 250000>>)
Amended == Dividend(10, 300000, "Yahoo Finance", "secondary-source", <<1, 1, 250000>>)
Drifted == [Known EXCEPT !.id = <<Stock, "DIVIDEND", 10, <<2499>>>>]  \* rounded twice
Twin    == Dividend(12, 250000, "Yahoo Finance", "secondary-source", <<1, 1, 250000>>)
New     == Dividend(30, 400000, "Yahoo Finance", "missing", NoImpact)
NoDiv   == [New EXCEPT !.type = "SPLIT", !.amount = None, !.id = <<Stock, "SPLIT", 30, << >>>>]

(* A split with the ratio "02:1" and the id the validator expects of it. *)
Padded ==
    [Known EXCEPT !.type = "SPLIT", !.amount = None, !.ratio = <<2, 1, 1>>,
                  !.impact = <<2, 1, 0>>, !.id = <<Stock, "SPLIT", 10, <<2, 1, 1>>>>]

MCFeeds == {<<Known>>, <<New>>, <<NoDiv>>}
MCEdits == {<<Known>>, <<Amended>>, <<Known, Twin>>, <<Drifted>>, <<Known, Drifted>>, << >>,
            <<Drifted, Padded>>}

(* A full run, the same without fetching, a dry run with every override,   *)
(* and a run that only tags.                                               *)
On(set) == [f \in {"dry", "fetch", "tests", "build", "url", "commit", "tag"} |-> f \in set]
MCOptions ==
    {On({"fetch", "tests", "build", "url", "commit"}),
     On({"build", "url", "commit"}),
     On({"dry", "fetch", "tests", "build", "url", "commit", "tag"}),
     On({"commit", "tag"})}
=============================================================================
