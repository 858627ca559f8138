------------------------------ MODULE MCCaches ------------------------------
(* Three blocks of two cells under a two-way L1, an L2 of one line and an L3 *)
(* of two sets, so that every level evicts; accesses inside a block, across *)
(* two blocks and across the end of RAM.                                    *)
EXTENDS Caches

SetCounts == <<1, 1, 2>>
Ways == <<2, 1, 1>>
SomeLoads == {<<0, 1>>, <<1, 2>>, <<4, 2>>, <<5, 2>>}
SomeStores == {<<0, <<1>>>>, <<1, <<0, 1>>>>, <<1, <<1, 0>>>>, <<4, <<1>>>>, <<5, <<1, 1>>>>}
Restored == {[c \in Cells |-> c % 2]}
=============================================================================
