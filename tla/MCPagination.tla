---------------------------- MODULE MCPagination ----------------------------
(* Every list of three pages with at most two items each, loops included.  *)
EXTENDS Pagination

CONSTANTS a, b

TwoCursors == {a, b}
AllLists == [next : [{First, a, b} -> {a, b, None}],
             size : [{First, a, b} -> 0..2],
             start : {First, a}]
UpToThreePages == 0..3 \cup {Unlimited}
=============================================================================
