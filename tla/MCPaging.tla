------------------------------ MODULE MCPaging ------------------------------
(* Small instances of Paging and PagingFork for TLC.                       *)
EXTENDS PagingFork

(* The aging policies add the ages to the state, so their programs stay    *)
(* smaller.                                                                *)
Sizes == [b \in Selections |-> IF b \in {"NFUA", "LAPA"} THEN 4 * PGSIZE ELSE 6 * PGSIZE]
Five  == [b \in Selections |-> 5 * PGSIZE]
=============================================================================
