---------------------------- MODULE MCTickerCache ----------------------------
(* TickerCache with two threads and files whose mtime, size and byte-order  *)
(* mark agree or differ.                                                   *)
EXTENDS TickerCache, TLC

Looks(mtime, size, bom) == [mtime |-> mtime, size |-> size, bom |-> bom]

MCStamp == {Looks(1, 1, FALSE), Looks(1, 2, FALSE), Looks(2, 1, FALSE), Looks(3, 2, TRUE)}

Symmetry == Permutations(Thread)
=============================================================================
