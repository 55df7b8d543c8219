----------------------------- MODULE Descriptors -----------------------------
(***************************************************************************)
(* The words pintos2 hands to the processor: segment descriptors           *)
(* (userprog/gdt.c), the task state segment (userprog/tss.c), interrupt    *)
(* gates (threads/interrupt.c) and the page tables of paging_init()        *)
(* (threads/init.c, threads/pte.h, threads/vaddr.h).  A descriptor is a    *)
(* sequence of four 16-bit words, low one first, an address a pair of      *)
(* them.  For the page tables an address has PGBITS + PTBITS + PDBITS bits *)
(* (12 + 10 + 10 in the code) and PHYS_BASE is where the kernel begins.    *)
(***************************************************************************)
EXTENDS Integers, Sequences

CONSTANTS PGBITS, PTBITS, PDBITS, PHYS_BASE

\* Bits shift .. shift + cnt - 1 of a word.
BITMASK(word, shift, cnt) == (word \div 2 ^ shift) % 2 ^ cnt
Ext(word, shift) == BITMASK(word, shift, 1) = 1

make_seg_desc(base, limit, class, type, dpl, granularity) ==
    << limit % 65536,
       base[1],
       (base[2] % 256) + 256 * type + 2 ^ 12 * class + 2 ^ 13 * dpl + 2 ^ 15,
       (limit \div 65536) + 2 ^ 6 + 2 ^ 7 * granularity + 256 * (base[2] \div 256) >>
make_code_desc(dpl) == make_seg_desc(<<0, 0>>, 1048575, 1, 10, dpl, 1)
make_data_desc(dpl) == make_seg_desc(<<0, 0>>, 1048575, 1, 2, dpl, 1)
make_tss_desc(laddr) == make_seg_desc(laddr, 103, 0, 9, 0, 0)
make_gdtr_operand(limit, base) == <<limit, base[1], base[2], 0>>
\* The selectors are byte offsets into the table.
Selectors == [null |-> 0, kcseg |-> 8, kdseg |-> 16, ucseg |-> 27, udseg |-> 35, tss |-> 40]
gdt_init(tss) ==
    LET table == [null |-> <<0, 0, 0, 0>>, kcseg |-> make_code_desc(0), kdseg |-> make_data_desc(0),
                  ucseg |-> make_code_desc(3), udseg |-> make_data_desc(3), tss |-> make_tss_desc(tss)]
        At(i) == CHOOSE s \in DOMAIN Selectors : Selectors[s] \div 8 = i
    IN [gdt |-> [i \in 0 .. 5 |-> table[At(i)]], limit |-> make_gdtr_operand(6 * 8 - 1, <<0, 0>>)[1]]

\* tss_update(): the stack an interrupt in a user program finds is the page of the
\* thread that runs.
PGSIZE == 2 ^ PGBITS
tss_init(thread) == [ss0 |-> Selectors.kdseg, bitmap |-> 57343, esp0 |-> thread + PGSIZE]
tss_update(tss, thread) == [tss EXCEPT !.esp0 = thread + PGSIZE]

make_gate(function, dpl, type) ==
    <<function[1], Selectors.kcseg, 256 * type + 2 ^ 13 * dpl + 2 ^ 15, function[2]>>
make_intr_gate(function, dpl) == make_gate(function, dpl, 14)
make_trap_gate(function, dpl) == make_gate(function, dpl, 15)
make_idtr_operand(limit, base) == make_gdtr_operand(limit, base)

\* External: what the processor makes of a segment descriptor and of a gate.
Segment(d) == [base |-> <<d[2], BITMASK(d[3], 0, 8) + 256 * BITMASK(d[4], 8, 8)>>,
               limit |-> d[1] + 65536 * BITMASK(d[4], 0, 4), type |-> BITMASK(d[3], 8, 4),
               class |-> BITMASK(d[3], 12, 1), dpl |-> BITMASK(d[3], 13, 2), present |-> Ext(d[3], 15),
               wide |-> Ext(d[4], 6), granularity |-> BITMASK(d[4], 7, 1)]
Gate(d) == [function |-> <<d[1], d[4]>>, selector |-> d[2], type |-> BITMASK(d[3], 8, 4),
            system |-> ~ Ext(d[3], 12), dpl |-> BITMASK(d[3], 13, 2), present |-> Ext(d[3], 15)]

-----------------------------------------------------------------------------
(* threads/vaddr.h, threads/pte.h                                          *)
Word == 0 .. 2 ^ (PGBITS + PTBITS + PDBITS) - 1
pg_ofs(va) == va % PGSIZE
pg_no(va) == va \div PGSIZE
pg_round_up(va) == (((va + PGSIZE - 1) % 2 ^ (PGBITS + PTBITS + PDBITS)) \div PGSIZE) * PGSIZE
pg_round_down(va) == (va \div PGSIZE) * PGSIZE
is_user_vaddr(va) == va < PHYS_BASE
is_kernel_vaddr(va) == va >= PHYS_BASE
ptov(paddr) == paddr + PHYS_BASE
vtop(va) == va - PHYS_BASE
pt_no(va) == BITMASK(va, PGBITS, PTBITS)
pd_no(va) == va \div 2 ^ (PGBITS + PTBITS)
PTE_P == 1
PTE_W == 2
PTE_U == 4
pde_create(pt) == vtop(pt) + PTE_U + PTE_P + PTE_W
pde_get_pt(pde) == ptov(pg_round_down(pde))
pte_create_kernel(page, writable) == vtop(page) + PTE_P + (IF writable THEN PTE_W ELSE 0)
pte_create_user(page, writable) == pte_create_kernel(page, writable) + PTE_U
pte_get_page(pte) == ptov(pg_round_down(pte))

\* paging_init(): page tables live in the pages palloc_get_page() hands out, in this
\* order; m.tables says what is in them, by page and index.
Empty == [i \in 0 .. 2 ^ PDBITS - 1 |-> 0]
RECURSIVE MapFrom(_, _, _, _, _)
MapFrom(m, page, ram_pages, start, end) ==
    IF page >= ram_pages THEN m
    ELSE LET vaddr == ptov(page * PGSIZE)
             in_kernel_text == start <= vaddr /\ vaddr < end
             fresh == m.tables[m.pd][pd_no(vaddr)] = 0
             pt == IF fresh THEN Head(m.pool) ELSE m.pt
             with == IF ~ fresh THEN m.tables
                     ELSE [m.tables EXCEPT ![m.pd][pd_no(vaddr)] = pde_create(pt), ![pt] = Empty]
         IN MapFrom([m EXCEPT !.pt = pt, !.pool = IF fresh THEN Tail(@) ELSE @,
                              !.tables = [with EXCEPT ![pt][pt_no(vaddr)] = pte_create_kernel(vaddr, ~ in_kernel_text)]],
                    page + 1, ram_pages, start, end)
paging_init(pool, ram_pages, start, end) ==
    MapFrom([pd |-> Head(pool), pt |-> 0, pool |-> Tail(pool), tables |-> [p \in Word |-> Empty]],
            0, ram_pages, start, end)
\* External: the processor's walk; << >> is a page fault.
Walk(m, va) ==
    LET pde == m.tables[m.pd][pd_no(va)] IN
    IF ~ Ext(pde, 0) THEN << >>
    ELSE LET pte == m.tables[pde_get_pt(pde)][pt_no(va)] IN
         IF ~ Ext(pte, 0) THEN << >>
         ELSE <<[paddr |-> vtop(pte_get_page(pte)) + pg_ofs(va), writable |-> Ext(pde, 1) /\ Ext(pte, 1),
                 user |-> Ext(pde, 2) /\ Ext(pte, 2)]>>

-----------------------------------------------------------------------------
\* The processor takes from a descriptor or gate what it was made of, no field spills into
\* another, and user code can use only the user segments and the gates meant for it.
DescriptorAgrees(base, limit, type, dpl) ==
    /\ Segment(make_seg_desc(base, limit, 1, type, dpl, 1)) =
          [base |-> base, limit |-> limit, type |-> type, class |-> 1, dpl |-> dpl, present |-> TRUE,
           wide |-> TRUE, granularity |-> 1]
    /\ Gate(make_gate(base, dpl, type)) =
          [function |-> base, selector |-> 8, type |-> type, system |-> TRUE, dpl |-> dpl, present |-> TRUE]
    /\ LET g == gdt_init(base) IN
       /\ \A s \in DOMAIN Selectors : Selectors[s] + 7 - (Selectors[s] % 4) <= g.limit
       /\ \A s \in DOMAIN Selectors \ {"null"} :
             LET seg == Segment(g.gdt[Selectors[s] \div 8]) IN
             /\ seg.present /\ seg.dpl = Selectors[s] % 4
             /\ s = "tss" <=> seg.class = 0
             /\ s = "tss" => seg.base = base
\* Every byte of memory is mapped where the kernel expects it, the kernel's text read-only,
\* nothing for user code and nothing else; a user page's entry differs in that alone.
PagingAgrees(pool, ram_pages, start, end) ==
    LET m == paging_init(pool, ram_pages, start, end) IN
    /\ \A va \in Word :
          Walk(m, va) = IF is_user_vaddr(va) \/ vtop(va) >= ram_pages * PGSIZE THEN << >>
                        ELSE <<[paddr |-> vtop(va), user |-> FALSE,
                                writable |-> ~ (start <= pg_round_down(va) /\ pg_round_down(va) < end)]>>
    /\ \A va \in Word : /\ pg_no(va) * PGSIZE + pg_ofs(va) = va
                        /\ pg_round_up(va) \in {pg_round_down(va), (pg_round_down(va) + PGSIZE) % 2 ^ (PGBITS + PTBITS + PDBITS)}
                        /\ is_kernel_vaddr(va) =>
                              pte_get_page(pte_create_user(pg_round_down(va), TRUE)) = pg_round_down(va)
=============================================================================
