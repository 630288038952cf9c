---------------------------- MODULE MCKernelParts ----------------------------
(* Two usable blocks with a hole between them.                             *)
EXTENDS KernelParts, TLC
UsableBlocks == <<<<0, 2>>, <<3, 4>>>>

(* Two directories over a page table of two entries each; pages 0 and 2    *)
(* share an entry.  In k the program may write to page 0, the kernel only  *)
(* to page 1, and page 2 is to be read; in u page 0 has no entry, page 2   *)
(* no table, and the frame of page 1 is not in memory.                     *)
PageTables ==
  LET kernel == {"P", "W"} user_page == {"P", "W", "U"} read_only == {"P", "U"} IN
  [k |-> [pde |-> (0 :> user_page) @@ (1 :> read_only),
          pte |-> (0 :> [frame |-> 1, flags |-> user_page]) @@ (1 :> [frame |-> 0, flags |-> kernel])],
   u |-> [pde |-> (0 :> user_page) @@ (1 :> {}),
          pte |-> (0 :> [frame |-> 0, flags |-> {}]) @@ (1 :> [frame |-> 2, flags |-> user_page])]]
=============================================================================
