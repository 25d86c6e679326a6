------------------------------ MODULE BootTables ------------------------------
(***************************************************************************)
(* setUpPageTables (sys/paging.c): the page tables the kernel builds for   *)
(* itself while it runs on those of the loader.  The kernel reaches the    *)
(* frame p through VIRTUAL|p, the direct map, and is itself linked there.  *)
(*                                                                         *)
(* Addresses are numbers of pages; a table has FANOUT entries, and a frame *)
(* is looked at as a table.  What a frame holds before it is cleared is    *)
(* what the memory held at boot: nothing, or entries that look present.    *)
(***************************************************************************)
EXTENDS Integers

CONSTANTS FANOUT,     \* entries of a table: 512
          CLEARED,    \* how many of them memset(table, 0, 512) clears: 64
          KERNEL,     \* physbase, the first page of the kernel
          FREELIST,   \* physfree, the page behind it: the bitmap is there
          VIDEO,      \* the page of the video buffer
          FRAMES,     \* bound: the frames of the machine
          Maxes,      \* bound: where the memory may end
          Leftovers   \* bound: what the memory may hold at boot

None == -1
Index == 0 .. FANOUT - 1
PAGES == FANOUT * FANOUT * FANOUT * FANOUT
Frame == 0 .. FRAMES - 1

\* VIRTUAL is 2 GB below the end of the addresses: two tables of the third
\* level.  All its bits above are set, so VIRTUAL|p loses those of p.
HALF == 2 * FANOUT * FANOUT
VIRTUAL == PAGES - HALF

Direct(p) == VIRTUAL + (p % HALF)

ASSUME BootTablesAssumption ==
    /\ FANOUT \in Nat /\ FANOUT >= 4
    /\ CLEARED \in 3 .. FANOUT
    /\ VIDEO \in 0 .. KERNEL - 1
    /\ KERNEL = FANOUT              \* 2 MB
    /\ FREELIST \in KERNEL + 1 .. 2 * FANOUT - 1
    /\ FRAMES \in FREELIST + 21 .. PAGES
    /\ Maxes \subseteq FREELIST .. FRAMES - 1
    /\ Leftovers \subseteq [Frame -> [Index -> Frame \cup {None}]]

VARIABLES stage,      \* the call of setUpPageTables that comes next
          mem,        \* the frames as tables: an entry is a frame or None
          free,       \* the next frame allocatePage hands out
          tables,     \* pml4, pdpt, pdt and pt
          pstart,     \* identity_mapping: the next page
          max, dirt   \* where the memory ends, and what it held at boot

vars == <<stage, mem, free, tables, pstart, max, dirt>>

-----------------------------------------------------------------------------
\* get_PML4_offset (level 1) to get_PT_offset (level 4).
offset(level, v) ==
    (CASE level = 1 -> v \div (FANOUT * FANOUT * FANOUT)
       [] level = 2 -> v \div (FANOUT * FANOUT)
       [] level = 3 -> v \div FANOUT
       [] level = 4 -> v) % FANOUT

\* The table below entry i of t: it is there, or is allocated and cleared.
Table(m, t, i) ==
    IF m.mem[t][i] # None THEN m
    ELSE [mem |-> [m.mem EXCEPT ![m.free] = [j \in Index |-> None], ![t][i] = m.free],
          free |-> m.free + 1]

\* Entry i of t.
SetEntry(m, t, i, p) == [m EXCEPT !.mem[t][i] = p]

map_vir_phy(m, v, p) ==
    LET m1 == Table(m, tables.pml4, offset(1, v))
        pdptc == m1.mem[tables.pml4][offset(1, v)]
        m2 == Table(m1, pdptc, offset(2, v))
        pdtc == m2.mem[pdptc][offset(2, v)]
        m3 == Table(m2, pdtc, offset(3, v))
        ptc == m3.mem[pdtc][offset(3, v)]
    IN  SetEntry(m3, ptc, offset(4, v), p)

Memory == [mem |-> mem, free |-> free]
SetMemory(m) == mem' = m.mem /\ free' = m.free

-----------------------------------------------------------------------------
\* No entry looks present.
Clear == [f \in Frame |-> [i \in Index |-> None]]

Init ==
    /\ stage = "kernel"
    /\ max \in Maxes
    /\ dirt \in Leftovers
    /\ mem = dirt
    /\ free = FREELIST + 1
    /\ tables = [pml4 |-> None, pdpt |-> None, pdt |-> None, pt |-> None]
    /\ pstart = 0

\* Mutant: nothing is cleared.
Fresh_NotCleared(f) == mem[f]

\* A table of map_kernel_space: 512 bytes of it are cleared.
Fresh(f) == [i \in Index |-> IF i < CLEARED THEN None ELSE mem[f][i]]

\* Four tables, and the kernel's first two pages mapped to where it ends:
\* main.c passes physfree for physbase.
map_kernel_space ==
    /\ stage = "kernel"
    /\ LET v == Direct(KERNEL)
           new == [pml4 |-> free, pdpt |-> free + 1, pdt |-> free + 2, pt |-> free + 3]
       IN  /\ tables' = new
           /\ mem' = [mem EXCEPT
                 ![new.pml4] = [Fresh(new.pml4) EXCEPT ![offset(1, v)] = new.pdpt],
                 ![new.pdpt] = [Fresh(new.pdpt) EXCEPT ![offset(2, v)] = new.pdt],
                 ![new.pdt] = [Fresh(new.pdt) EXCEPT ![offset(3, v)] = new.pt],
                 ![new.pt] = [Fresh(new.pt) EXCEPT ![offset(4, v)] = FREELIST,
                                                   ![offset(4, v) + 1] = FREELIST + 1]]
    /\ free' = free + 4
    /\ stage' = "freelist"
    /\ UNCHANGED <<pstart, max, dirt>>

\* Mutant: the bitmap is mapped where it is.
map_freelist_Physical ==
    /\ stage = "freelist"
    /\ SetMemory(map_vir_phy(Memory, FREELIST, FREELIST))
    /\ stage' = "video"
    /\ UNCHANGED <<tables, pstart, max, dirt>>

map_freelist ==
    /\ stage = "freelist"
    /\ SetMemory(map_vir_phy(Memory, Direct(FREELIST), FREELIST))
    /\ stage' = "video"
    /\ UNCHANGED <<tables, pstart, max, dirt>>

\* A table of its own, which nothing clears.
map_video_memory ==
    /\ stage = "video"
    /\ mem' = [mem EXCEPT ![tables.pdt][offset(3, Direct(VIDEO))] = free,
                          ![free][offset(4, Direct(VIDEO))] = VIDEO]
    /\ free' = free + 1
    /\ stage' = "tables"
    /\ UNCHANGED <<tables, pstart, max, dirt>>

map_tables ==
    /\ stage = "tables"
    /\ LET m1 == map_vir_phy(Memory, Direct(tables.pml4), tables.pml4)
           m2 == map_vir_phy(m1, Direct(tables.pdpt), tables.pdpt)
           m3 == map_vir_phy(m2, Direct(tables.pdt), tables.pdt)
       IN  SetMemory(map_vir_phy(m3, Direct(tables.pt), tables.pt))
    /\ stage' = "identity"
    /\ UNCHANGED <<tables, pstart, max, dirt>>

\* Bound: there are frames for the tables of a page.
identity_mapping ==
    /\ stage = "identity"
    /\ pstart <= max
    /\ free + 3 <= FRAMES
    /\ SetMemory(map_vir_phy(Memory, Direct(pstart), pstart))
    /\ pstart' = pstart + 1
    /\ UNCHANGED <<stage, tables, max, dirt>>

\* main.c then loads cr3.
Loaded ==
    /\ stage = "identity"
    /\ pstart > max
    /\ stage' = "done"
    /\ UNCHANGED <<mem, free, tables, pstart, max, dirt>>

Next ==
    \/ map_kernel_space \/ map_freelist \/ map_video_memory \/ map_tables
    \/ identity_mapping \/ Loaded

Spec == Init /\ [][Next]_vars

-----------------------------------------------------------------------------
\* What the processor finds for page v.
Walk(v) ==
    LET Below(t, level) == IF t = None THEN None ELSE mem[t][offset(level, v)]
    IN  Below(Below(Below(Below(tables.pml4, 1), 2), 3), 4)

\* Types.
TypeOK ==
    /\ stage \in {"kernel", "freelist", "video", "tables", "identity", "done"}
    /\ mem \in [Frame -> [Index -> Frame \cup {None}]]
    /\ free \in 0 .. FRAMES
    /\ tables \in [{"pml4", "pdpt", "pdt", "pt"} -> Frame \cup {None}]
    /\ pstart \in 0 .. max + 1
    /\ dirt \in Leftovers

\* The pages identity_mapping is done with stay mapped to themselves, while it
\* goes on adding tables: it repairs what map_kernel_space entered, whatever
\* the memory held, as long as the entries it meets were cleared.
DirectMapRight ==
    max < CLEARED * FANOUT =>
        \A p \in 0 .. pstart - 1 : Walk(Direct(p)) = p

\* Where the memory was clear, nothing but the direct map is there when cr3 is
\* loaded: no address reaches a frame by another way.
NothingElseMapped ==
    (stage = "done" /\ dirt = Clear) =>
        \A v \in 0 .. PAGES - 1 : Walk(v) # None => Direct(Walk(v)) = v

\* The kernel is mapped where it is linked ("physbase 0x200000
\* 0xffffffff80200000", README:24) when cr3 is loaded.
KernelMapped ==
    stage = "done" => \A p \in KERNEL .. FREELIST : Walk(Direct(p)) = p
===============================================================================
