--------------------------- MODULE MCWrapperRegistry ---------------------------
(* WrapperRegistry over files of up to three of these records.             *)
EXTENDS Backtest

Record(isin, id, type, ann, ex) ==
    [shape |-> "object", isin |-> isin, id |-> id, type |-> type, ann |-> ann, ex |-> ex,
     ratio |-> NoPair, amount |-> Null, impact |-> NoPair, extra |-> FALSE]

Split     == [Record(1, 1, "SPLIT", 1, 3) EXCEPT !.ratio = <<2, 1>>]
Quarter   == [Record(1, 2, "SPLIT", 1, 3) EXCEPT !.ratio = <<4, 1>>, !.impact = <<1, 4, 0>>]
Backwards == [Record(1, 2, "REVERSE_SPLIT", 2, 2) EXCEPT !.impact = <<3, 1, 0>>, !.extra = TRUE]
Dividend  == [Record(1, 3, "DIVIDEND", 2, 3) EXCEPT !.amount = 5]
NoPayment == [Record(2, 2, "SPECIAL_DIVIDEND", Null, 2) EXCEPT !.amount = 0]
OnlyIsin  == [Record(1, Null, "DIVIDEND", 1, 3) EXCEPT !.impact = <<1, 1, 4>>]
OnlyId    == Record(Null, 3, "DELISTING", Empty, Null)
Blank     == Record(2, Empty, "SPLIT", Empty, Empty)
NoIsin    == Record(Empty, 1, "DELISTING", 1, Null)
Nameless  == Record(Null, Empty, "DELISTING", 1, Null)
IllTyped  == [Record(2, 3, "DELISTING", Null, Null) EXCEPT !.shape = "ill-typed"]
Scalar    == [Record(Null, Null, "DELISTING", Null, Null) EXCEPT !.shape = "scalar"]

MCItem == {Split, Quarter, Backwards, Dividend, NoPayment, OnlyIsin, OnlyId, Blank, NoIsin,
           Nameless, IllTyped, Scalar}
=============================================================================
