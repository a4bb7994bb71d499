------------------------------ MODULE RtosHeap ------------------------------
(***************************************************************************)
(* The heap of the kernel (OS_HeapMalloc and OS_HeapFree of                *)
(* trunk/kernel/rtos.c) as operators on the record                         *)
(*                                                                         *)
(*   next   the circular list of the free nodes, from address to address   *)
(*   size   the size of every node, free or handed out, in units of        *)
(*          sizeof(HeapNode_t), the header of the node included            *)
(*   avail  heap->available: the node after which the next search starts   *)
(*                                                                         *)
(* Addresses count units: 0 is heap->base, 1 .. units the memory.          *)
(***************************************************************************)
EXTENDS Integers, FiniteSets, FiniteSetsExt, Functions, TLC

NewHeap(units) ==
    [next |-> 0 :> 1 @@ 1 :> 0, size |-> 0 :> 0 @@ 1 :> units, avail |-> 1]

Free(h)   == DOMAIN h.next
InUse(h)  == DOMAIN h.size \ Free(h)
Units(h, a) == a .. a + h.size[a] - 1

\* The node k steps after heap->available on the free list.
Walk(h) ==
    LET walk[k \in 0 .. Cardinality(Free(h))] == IF k = 0 THEN h.avail ELSE h.next[walk[k - 1]]
    IN walk

\* First fit: how far the first free node of n units or more is, if any.
Fits(h, n) == {k \in 1 .. Cardinality(Free(h)) : h.size[Walk(h)[k]] >= n}

\* The whole node is handed out, or its tail end is.
TakeWhole(h, prev, node) ==
    [h EXCEPT !.next = Restrict([@ EXCEPT ![prev] = h.next[node]], Free(h) \ {node}),
              !.avail = prev]

TakeTail(h, prev, node, n) ==
    [h EXCEPT !.size = (node + @[node] - n) :> n @@ [@ EXCEPT ![node] = @ - n],
              !.avail = prev]

\* The heap after the search, and the address of the block: 0 if there is none.
Malloc(h, n) ==
    IF Fits(h, n) = {} THEN [heap |-> h, block |-> 0]
    ELSE LET k    == Min(Fits(h, n))
             prev == Walk(h)[k - 1]
             node == Walk(h)[k]
         IN IF h.size[node] = n
            THEN [heap |-> TakeWhole(h, prev, node), block |-> node]
            ELSE [heap |-> TakeTail(h, prev, node, n), block |-> node + h.size[node] - n]

\* bp belongs between node and its successor, or at an end of the area.
Between(h, node, bp) ==
    LET succ == h.next[node]
    IN \/ node < bp /\ bp < succ
       \/ node >= succ /\ (bp > node \/ bp < succ)

Place(h, bp) ==
    LET N == Cardinality(Free(h))
    IN Walk(h)[Min({k \in 0 .. N - 1 : Between(h, Walk(h)[k], bp)})]

JoinUpper(h, bp, succ) ==
    IF bp + h.size[bp] = succ
    THEN [h EXCEPT !.size = Restrict([@ EXCEPT ![bp] = @ + h.size[succ]], DOMAIN @ \ {succ}),
                   !.next = Restrict(bp :> @[succ] @@ @, (Free(h) \union {bp}) \ {succ})]
    ELSE [h EXCEPT !.next = bp :> succ @@ @]

\* Mutant: a block is never joined to the one below it.
JoinLower_not(h, node, bp) == [h EXCEPT !.next[node] = bp]

JoinLower(h, node, bp) ==
    IF node + h.size[node] = bp
    THEN [h EXCEPT !.size = Restrict([@ EXCEPT ![node] = @ + h.size[bp]], DOMAIN @ \ {bp}),
                   !.next = Restrict([@ EXCEPT ![node] = h.next[bp]], Free(h) \ {bp})]
    ELSE [h EXCEPT !.next[node] = bp]

Release(h, bp) ==
    LET node == Place(h, bp)
    IN [JoinLower(JoinUpper(h, bp, h.next[node]), node, bp) EXCEPT !.avail = node]
=============================================================================
