------------------------------- MODULE MCTable -------------------------------
(* An instance of KvTable for TLC: two tables of two partitions.           *)
EXTENDS KvTable, TLC

CONSTANTS ta, tb

TwoNames == ta :> <<"a">> @@ tb :> <<"b">>

(* A whole-page size whose main size is no power of two, one that wraps to *)
(* no bytes and one that wraps to some.                                    *)
ThreeSizes == {[main |-> 3, spare |-> 1], [main |-> 4, spare |-> 4], [main |-> 6, spare |-> 4]}
==============================================================================
