------------------------------- MODULE MemPool -------------------------------
(***************************************************************************)
(* The object pool of the books (include/mem_pool.h).                      *)
(*                                                                         *)
(* A pointer to an object is the index of its block; the objects           *)
(* themselves are kept by the owner of the pool.                           *)
(*                                                                         *)
(* A name of the form Operator_Fault is a faulty variant of the operator   *)
(* that follows it; no specification uses one.                             *)
(***************************************************************************)
EXTENDS Integers, FiniteSets

nullptr == -1

Blocks(n) == 0 .. n - 1

NewPool(n) == [is_free |-> [x \in Blocks(n) |-> TRUE], next_free_index |-> 0, free_count |-> n]

Free(pool) == { x \in DOMAIN pool.is_free : pool.is_free[x] }
InUse(pool) == DOMAIN pool.is_free \ Free(pool)

\* allocate()'s ASSERT.
Exhausted(pool) == pool.free_count = 0

\* Where the scan of allocate() ends: the first free block from
\* next_free_index on, round the end of the store.
FreeBlock(pool) ==
    LET n == Cardinality(DOMAIN pool.is_free)
        At(k) == (pool.next_free_index + k) % n
    IN  At(CHOOSE k \in 0 .. n - 1 : /\ pool.is_free[At(k)]
                                     /\ \A j \in 0 .. k - 1 : ~pool.is_free[At(j)])

allocate(pool) ==
    LET x == FreeBlock(pool)
    IN  [is_free |-> [pool.is_free EXCEPT ![x] = FALSE], next_free_index |-> x,
         free_count |-> pool.free_count - 1]

\* free_count is forgotten.
deallocate_KeepsCount(pool, blocks) ==
    [pool EXCEPT !.is_free = [x \in DOMAIN pool.is_free |-> x \in blocks \/ pool.is_free[x]]]
\* A set of blocks, one after the other; deallocate()'s ASSERT wants each in use.
deallocate(pool, blocks) ==
    [pool EXCEPT !.is_free = [x \in DOMAIN pool.is_free |-> x \in blocks \/ pool.is_free[x]],
                 !.free_count = @ + Cardinality(blocks)]

=============================================================================
