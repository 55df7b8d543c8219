------------------------------- MODULE Malloc -------------------------------
(***************************************************************************)
(* threads/malloc.c of pintos2 on the kernel pool of threads/palloc.c.     *)
(* Free lists and arenas change only under their descriptor's lock and the *)
(* bits of used_map atomically, so that each call is one step.  The sizes  *)
(* are parameters: a page (4096 in the code), the smallest block (16), an  *)
(* arena's header (12), the width of a size_t (32).                        *)
(***************************************************************************)
EXTENDS Sequences, Bitmap

CONSTANTS PGSIZE, MinBlock, ArenaSize, SizeBits, PoolPages, Requests, MaxBlocks, NoMemory

ASSUME MallocAssumption ==
    /\ PGSIZE \in Nat /\ MinBlock \in Nat \ {0}
    /\ ArenaSize \in Nat \ {0} /\ 2 * ArenaSize <= PGSIZE
    /\ PoolPages \in Nat /\ Requests \subseteq Nat /\ 2 ^ SizeBits \in Nat \ {0}
    /\ NoMemory \notin Nat /\ NoMemory \notin Nat \X Nat

VARIABLES
    used_map, arenas, free_list,
    handed,        \* the blocks callers have, with the sizes malloc() was asked for
    overrun        \* the allocator itself has written past the end of a block

mallocVars == <<used_map, arenas, free_list, handed, overrun>>
State == [used |-> used_map, arenas |-> arenas, free |-> free_list]
Become(s) == used_map' = s.used /\ arenas' = s.arenas /\ free_list' = s.free
DIV_ROUND_UP(x, y) == (x + y - 1) \div y

\* The block sizes: MinBlock and its doubles below half a page.
Descs == {d \in MinBlock .. PGSIZE : 2 * d < PGSIZE /\ \E k \in 0 .. 8 : d = MinBlock * 2 ^ k}
blocks_per_arena(d) == (PGSIZE - ArenaSize) \div d
Big == 0             \* the desc of a big block, null in the code

malloc_init == [used |-> {}, arenas |-> << >>, free |-> [d \in Descs |-> << >>]]

\* The lowest group of free pages.
palloc_get_multiple(s, cnt) ==
    LET fit == {p \in 1 .. PoolPages - cnt + 1 : (p .. p + cnt - 1) \intersect s.used = {}}
    IN IF cnt = 0 \/ fit = {} THEN NoMemory ELSE CHOOSE p \in fit : \A q \in fit : p <= q
palloc_free_multiple(s, p, cnt) == [s EXCEPT !.used = @ \ (p .. p + cnt - 1)]

NewArena(s, p, d, free_cnt, cnt) ==
    [s EXCEPT !.used = @ \union (p .. p + cnt - 1),
              !.arenas = [q \in DOMAIN @ \union {p} |->
                            IF q = p THEN [desc |-> d, free_cnt |-> free_cnt] ELSE @[q]]]
FreeArena(s, p, cnt) ==
    palloc_free_multiple([s EXCEPT !.arenas = [q \in DOMAIN @ \ {p} |-> @[q]]], p, cnt)
arena_to_block(p, i) == <<p, i>>
block_to_arena(b) == b[1]

\* The sum is a size_t: for the largest sizes it wraps around, and the block has one
\* page or none.
Rounded(size) == size + ArenaSize + PGSIZE - 1
Wraps(size) == Rounded(size) >= 2 ^ SizeBits
MallocBig(s, size) ==
    LET cnt == (Rounded(size) % 2 ^ SizeBits) \div PGSIZE
        p == palloc_get_multiple(s, cnt)
    IN IF p = NoMemory THEN [state |-> s, block |-> NoMemory]
       ELSE [state |-> NewArena(s, p, Big, cnt, cnt), block |-> arena_to_block(p, 0)]

MallocSmall(s, d) ==
    LET p == palloc_get_multiple(s, 1)
        n == blocks_per_arena(d)
        filled == IF s.free[d] # << >> THEN s
                  ELSE [NewArena(s, p, d, n, 1) EXCEPT
                          !.free[d] = [i \in 1 .. n |-> arena_to_block(p, i - 1)]]
        b == Head(filled.free[d])
    IN IF s.free[d] = << >> /\ p = NoMemory THEN [state |-> s, block |-> NoMemory]
       ELSE [state |-> [filled EXCEPT !.free[d] = Tail(@),
                                      !.arenas[block_to_arena(b)].free_cnt = @ - 1],
             block |-> b]

malloc(s, size) ==
    LET fit == {d \in Descs : d >= size}
    IN IF size = 0 THEN [state |-> s, block |-> NoMemory]
       ELSE IF fit = {} THEN MallocBig(s, size)
       ELSE MallocSmall(s, CHOOSE d \in fit : \A e \in fit : d <= e)

\* The list_remove() of every block of the arena at p: the others keep their order.
WithoutArena(list, p) ==
    LET kept == {i \in DOMAIN list : block_to_arena(list[i]) # p}
        Rank(i) == Cardinality({j \in kept : j <= i})
    IN [k \in 1 .. Cardinality(kept) |-> list[CHOOSE i \in kept : Rank(i) = k]]

\* A mutant: the blocks of an arena that is given back stay on the free list.
free_blockKeepsList(s, b) ==
    LET p == block_to_arena(b)
        a == s.arenas[p]
    IN IF a.desc = Big THEN FreeArena(s, p, a.free_cnt)
       ELSE LET t == [s EXCEPT !.free[a.desc] = <<b>> \o @, !.arenas[p].free_cnt = @ + 1]
            IN IF t.arenas[p].free_cnt < blocks_per_arena(a.desc) THEN t ELSE FreeArena(t, p, 1)
free_block(s, b) ==
    LET p == block_to_arena(b)
        a == s.arenas[p]
    IN IF a.desc = Big THEN FreeArena(s, p, a.free_cnt)
       ELSE LET t == [s EXCEPT !.free[a.desc] = <<b>> \o @, !.arenas[p].free_cnt = @ + 1]
            IN IF t.arenas[p].free_cnt < blocks_per_arena(a.desc) THEN t
               ELSE FreeArena([t EXCEPT !.free[a.desc] = WithoutArena(@, p)], p, 1)

block_size(s, b) ==
    LET a == s.arenas[block_to_arena(b)]
    IN IF a.desc # Big THEN a.desc ELSE PGSIZE * a.free_cnt - ArenaSize

Hand(r, size) == IF r.block = NoMemory THEN {} ELSE {[block |-> r.block, size |-> size]}
\* n bytes are written to the block of r.
Writes(r, n) == overrun' = (overrun \/ (r.block # NoMemory /\ n > block_size(r.state, r.block)))
Give(r, size) ==
    /\ Cardinality(handed) < MaxBlocks
    /\ Become(r.state) /\ handed' = handed \union Hand(r, size)
DoMalloc(size) == Give(malloc(State, size), size) /\ UNCHANGED overrun
DoFree(h) == Become(free_block(State, h.block)) /\ handed' = handed \ {h} /\ UNCHANGED overrun
\* The product is a size_t; the two comparisons do not notice every overflow.
calloc(n, m) ==
    LET size == (n * m) % (2 ^ SizeBits)
        r == malloc(State, size)
    IN IF size < n \/ size < m THEN UNCHANGED mallocVars ELSE Give(r, size) /\ Writes(r, size)
\* The new block is taken, and as much of the old one copied as was asked for, before the
\* old one is freed; without memory the old one stays.
realloc(h, size) ==
    LET r == malloc(State, size) IN
    IF size = 0 THEN DoFree(h)
    ELSE IF r.block = NoMemory THEN UNCHANGED mallocVars
    ELSE /\ Writes(r, LET old == block_size(State, h.block) IN IF size < old THEN size ELSE old)
         /\ Become(free_block(r.state, h.block))
         /\ handed' = (handed \ {h}) \union Hand(r, size)

MallocInit ==
    /\ used_map = malloc_init.used /\ arenas = malloc_init.arenas
    /\ free_list = malloc_init.free /\ handed = {} /\ overrun = FALSE
MallocNext ==
    \/ \E size \in Requests : DoMalloc(size)
    \/ \E n, m \in Requests : calloc(n, m)
    \/ \E h \in handed : DoFree(h) \/ \E size \in Requests : realloc(h, size)

MallocSpec == MallocInit /\ [][MallocNext]_mallocVars

-----------------------------------------------------------------------------
Start(b) == b[1] * PGSIZE + ArenaSize + b[2] * (IF arenas[b[1]].desc = Big THEN 0 ELSE arenas[b[1]].desc)
\* What a caller asked for, cut where his block ends.
Usable(h) == IF h.size <= block_size(State, h.block) THEN h.size ELSE block_size(State, h.block)
Bytes(h) == Start(h.block) .. Start(h.block) + Usable(h) - 1
OnFree == UNION {{free_list[d][i] : i \in DOMAIN free_list[d]} : d \in Descs}

\* malloc(), realloc() and free(): the bytes callers were given do not overlap and lie
\* in pages in use, free lists hold the other blocks of the arenas, each once, as many
\* as free_cnt says, and a page is in use exactly as long as it has a block in use.  A
\* block is "of at least SIZE bytes" (malloc.c:87) unless SIZE is so near the largest
\* size_t that the sum at malloc.c:109 wraps around; all of it up to the first call of
\* calloc() or realloc() that writes past the end of such a block.
BlocksExact == ~ overrun =>
    /\ \A h \in handed : block_to_arena(h.block) \in DOMAIN arenas
    /\ \A h \in handed : \A x \in Bytes(h) : x \div PGSIZE \in used_map
    /\ \A g, h \in handed : g # h => Bytes(g) \intersect Bytes(h) = {}
    /\ \A h \in handed : (h.size <= block_size(State, h.block) \/ Wraps(h.size)) /\ h.block \notin OnFree
    /\ \A d \in Descs : \A i, j \in DOMAIN free_list[d] : free_list[d][i] = free_list[d][j] => i = j
    /\ OnFree \subseteq UNION {{<<p, i>> : i \in 0 .. blocks_per_arena(arenas[p].desc) - 1} :
                                 p \in {q \in DOMAIN arenas : arenas[q].desc # Big}}
    /\ \A p \in DOMAIN arenas :
          /\ \E h \in handed : h.block[1] = p
          /\ arenas[p].desc # Big => arenas[p].free_cnt = Cardinality({b \in OnFree : b[1] = p})
    /\ used_map = UNION {p .. p + (IF arenas[p].desc = Big THEN arenas[p].free_cnt ELSE 1) - 1 :
                           p \in DOMAIN arenas}

-----------------------------------------------------------------------------
(* How palloc_init() divides the pages above the first megabyte, numbered  *)
(* from 1, between the kernel's pool and the user's.  Each pool begins     *)
(* with the bitmap of its other pages.                                     *)

\* The pages of the bitmap, where the others start and how many they are; << >> for the
\* panic.
init_pool(base, page_cnt) ==
    LET bm_pages == DIV_ROUND_UP(bitmap_buf_size(page_cnt), PGSIZE)
    IN IF bm_pages > page_cnt THEN << >>
       ELSE <<[map |-> base .. base + bm_pages - 1, base |-> base + bm_pages, cnt |-> page_cnt - bm_pages]>>
palloc_init(free_pages, user_page_limit) ==
    LET half == free_pages \div 2
        user_pages == IF half > user_page_limit THEN user_page_limit ELSE half
        kernel_pages == free_pages - user_pages
    IN [kernel |-> init_pool(1, kernel_pages), user |-> init_pool(1 + kernel_pages, user_pages)]
page_from_pool(pool, page) == page >= pool.base /\ page < pool.base + pool.cnt

\* Every page is in one pool or one bitmap, the user's pool keeps to the limit, a bitmap
\* has room for a bit for each page of its pool; the kernel panics only where a bitmap
\* would not fit.
PoolsAgree(free_pages, limit) ==
    LET p == palloc_init(free_pages, limit)
        k == p.kernel[1]
        u == p.user[1]
    IN IF p.kernel = << >> \/ p.user = << >>
       THEN free_pages \div 2 < DIV_ROUND_UP(bitmap_buf_size(free_pages), PGSIZE)
            \/ limit < DIV_ROUND_UP(bitmap_buf_size(limit), PGSIZE)
       ELSE /\ \A page \in 1 .. free_pages :
                  Cardinality({x \in {"k", "u", "km", "um"} :
                     CASE x = "k" -> page_from_pool(k, page) [] x = "u" -> page_from_pool(u, page)
                       [] x = "km" -> page \in k.map [] x = "um" -> page \in u.map}) = 1
            /\ u.cnt <= limit
            /\ \A q \in {k, u} : Cardinality(q.map) * PGSIZE >= bitmap_buf_size(q.cnt)
=============================================================================
