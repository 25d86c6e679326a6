--------------------------- MODULE BootTables_proofs ---------------------------
(***************************************************************************)
(* The tables the kernel makes at boot: those of its pages (BootTables)    *)
(* and, in the second half, that of the root file system with what the    *)
(* shell finds through it (Directories).                                   *)
(*                                                                         *)
(* The tables the kernel builds for itself are those of the direct map,    *)
(* for tables of any size, a kernel of any length below the next table and *)
(* memory that ends anywhere.  Two invariants of the tables carry it: of   *)
(* the little memory, whatever the frames held (Little), and of the whole  *)
(* tree where they were clear (Tree).  map_vir_phy keeps each of them      *)
(* whatever page it is called for, so the order of the calls matters only  *)
(* for the entries map_kernel_space leaves wrong.                          *)
(***************************************************************************)
EXTENDS BootTables, Directories, SequenceTheorems, WellFoundedInduction, TLAPS

\* The entries of a table.

F == FANOUT

-----------------------------------------------------------------------------
(* Addresses.                                                              *)

\* The quotient and the remainder are unique.
LEMMA DivMod ==
    ASSUME NEW d \in Nat \ {0}, NEW q \in Int, NEW r \in 0 .. d - 1
    PROVE  (d * q + r) \div d = q /\ (d * q + r) % d = r
OBVIOUS

\* A number is the quotient and the remainder of its division.
LEMMA DivParts ==
    ASSUME NEW d \in Nat \ {0}, NEW a \in Int
    PROVE  a \div d \in Int /\ a % d \in 0 .. d - 1 /\ a = d * (a \div d) + (a % d)
OBVIOUS

\* Dividing twice.
LEMMA DivTwice ==
    ASSUME NEW d \in Nat \ {0}, NEW e \in Nat \ {0}, NEW a \in Int
    PROVE  (a \div d) \div e = a \div (d * e)
<1> DEFINE q == a \div d
           r == a % d
           s == q \div e
           u == q % e
<1>1. q \in Int /\ r \in 0 .. d - 1 /\ a = d * q + r
  BY DivParts
<1>2. s \in Int /\ u \in 0 .. e - 1 /\ q = e * s + u
  BY <1>1, DivParts
<1> HIDE DEF q, r, s, u
<1>3. a = (d * e) * s + (d * u + r)
  BY <1>1, <1>2
<1>4. d * e \in Nat \ {0}
  OBVIOUS
<1>5. d * u + r \in 0 .. d * e - 1
  <2>1. d * u \in Nat
    BY <1>2
  <2>2. d * u <= d * (e - 1)
    BY <1>2
  <2>3. d * (e - 1) = d * e - d
    OBVIOUS
  <2>4. QED
    BY <1>1, <1>4, <2>1, <2>2, <2>3
<1>6. a \div (d * e) = s
  BY <1>2, <1>3, <1>4, <1>5, DivMod
<1>7. QED
  BY <1>6 DEF s, q

\* The offsets are the digits of a page.
LEMMA Digits ==
    ASSUME NEW v \in 0 .. PAGES - 1
    PROVE  /\ \A l \in 1 .. 4 : offset(l, v) \in Index
           /\ v \div (F * F * F) = offset(1, v)
           /\ v \div (F * F) = F * offset(1, v) + offset(2, v)
           /\ v \div F = F * (F * offset(1, v) + offset(2, v)) + offset(3, v)
           /\ v = F * (v \div F) + offset(4, v)
<1>1. F \in Nat \ {0} /\ v \in Int
  BY BootTablesAssumption DEF F
<1> DEFINE a == v \div F
           b == v \div (F * F)
           c == v \div (F * F * F)
<1>2. F * F \in Nat \ {0} /\ F * F * F \in Nat \ {0} /\ F * F * F * F \in Nat \ {0}
  BY <1>1
<1>3. a \in Int /\ v % F \in 0 .. F - 1 /\ v = F * a + (v % F)
  <2>1. \A x \in Int : x \div F \in Int /\ x % F \in 0 .. F - 1 /\ x = F * (x \div F) + (x % F)
    BY <1>1
  <2>2. QED
    BY <1>1, <2>1
<1>4. b \in Int /\ a % F \in 0 .. F - 1 /\ a = F * b + (a % F)
  <2>1. b = a \div F
    BY <1>1, DivTwice
  <2>2. a \div F \in Int /\ a % F \in 0 .. F - 1 /\ a = F * (a \div F) + (a % F)
    BY <1>1, <1>3
  <2>3. QED
    BY <2>1, <2>2
<1>5. c \in Int /\ b % F \in 0 .. F - 1 /\ b = F * c + (b % F)
  <2>1. c = b \div F
    BY <1>1, <1>2, DivTwice
  <2>2. b \div F \in Int /\ b % F \in 0 .. F - 1 /\ b = F * (b \div F) + (b % F)
    BY <1>1, <1>4
  <2>3. QED
    BY <2>1, <2>2
<1>6. c \in 0 .. F - 1
  <2> DEFINE T == F * F * F
             r == v % T
  <2>1. T \in Nat \ {0} /\ c = v \div T
    BY <1>2
  <2>2. v < T * F /\ v >= 0
    <3>1. PAGES = T * F
      BY DEF PAGES, F
    <3> HIDE DEF T
    <3>2. PAGES \in Nat
      BY <1>1, <2>1, <3>1
    <3>3. v < PAGES /\ v >= 0
      BY <3>2
    <3>4. QED
      BY <3>1, <3>3
  <2> HIDE DEF T
  <2>3. r \in 0 .. T - 1 /\ v = T * c + r
    <3>1. \A x \in Int : x % T \in 0 .. T - 1 /\ x = T * (x \div T) + (x % T)
      BY <2>1
    <3>2. QED
      BY <1>1, <2>1, <3>1, Zenon
  <2> HIDE DEF r, c
  <2>4. c >= 0
    <3>1. SUFFICES ASSUME c <= -1 PROVE FALSE
      BY <1>5
    <3>2. T * c <= T * (-1)
      BY <1>5, <2>1, <3>1
    <3>3. QED
      BY <1>5, <2>1, <2>2, <2>3, <3>2
  <2>5. c < F
    <3>1. SUFFICES ASSUME c >= F PROVE FALSE
      BY <1>1, <1>5
    <3>2. T * c >= T * F
      BY <1>1, <1>5, <2>1, <3>1
    <3>3. QED
      BY <1>1, <1>5, <2>1, <2>2, <2>3, <3>2
  <2>6. QED
    BY <1>1, <1>5, <2>4, <2>5
<1>7. c % F = c
  BY <1>1, <1>6
<1>8. /\ offset(1, v) = c /\ offset(2, v) = b % F
      /\ offset(3, v) = a % F /\ offset(4, v) = v % F
  BY <1>7 DEF offset, F
<1> HIDE DEF a, b, c
<1>9. \A l \in 1 .. 4 : offset(l, v) \in Index
  <2>1. \A l \in 1 .. 4 : l = 1 \/ l = 2 \/ l = 3 \/ l = 4
    OBVIOUS
  <2>2. QED
    BY <1>3, <1>4, <1>5, <1>6, <1>8, <2>1 DEF Index, F
<1>10. /\ c = offset(1, v) /\ b = F * offset(1, v) + offset(2, v)
       /\ a = F * (F * offset(1, v) + offset(2, v)) + offset(3, v)
       /\ v = F * a + offset(4, v)
  <2>1. b = F * offset(1, v) + offset(2, v)
    BY <1>5, <1>8, Zenon
  <2>2. a = F * b + offset(3, v)
    BY <1>4, <1>8, Zenon
  <2>3. QED
    BY <1>3, <1>8, <2>1, <2>2, Zenon
<1>11. QED
  BY <1>9, <1>10, Zenon DEF a, b, c

\* The direct map.
LEMMA DirectPage ==
    ASSUME NEW p \in Nat
    PROVE  Direct(p) \in 0 .. PAGES - 1
<1>1. F \in Nat \ {0} /\ F >= 4
  BY BootTablesAssumption DEF F
<1>2. HALF \in Nat \ {0} /\ HALF = 2 * (F * F)
  BY <1>1 DEF HALF, F
<1>3. PAGES \in Nat /\ PAGES >= HALF
  <2>1. F * F \in Nat /\ F * F >= 2
    BY <1>1
  <2>2. (F * F) * (F * F) >= (F * F) * 2
    BY <2>1
  <2>3. PAGES = (F * F) * (F * F)
    BY <1>1 DEF PAGES, F
  <2>4. QED
    BY <1>2, <2>1, <2>2, <2>3
<1>4. p % HALF \in 0 .. HALF - 1
  BY <1>2, DivParts
<1>5. QED
  BY <1>2, <1>3, <1>4 DEF Direct, VIRTUAL

\* Its first pages: one entry of pml4 and of pdpt leads to all of them.
LEMMA FirstPages ==
    ASSUME NEW p \in 0 .. F * F - 1
    PROVE  /\ offset(1, Direct(p)) = F - 1 /\ offset(2, Direct(p)) = F - 2
           /\ offset(3, Direct(p)) = p \div F /\ offset(4, Direct(p)) = p % F
           /\ p \div F \in Index /\ p % F \in Index
           /\ p = F * (p \div F) + (p % F)
           /\ Direct(p) \div (F * F) = F * (F - 1) + (F - 2)
<1>1. F \in Nat \ {0} /\ F >= 4 /\ F * F \in Nat
  BY BootTablesAssumption DEF F
<1> DEFINE a == p \div F
           r == p % F
           v == Direct(p)
<1>2. a \in Int /\ r \in 0 .. F - 1 /\ p = F * a + r
  BY <1>1, DivParts
<1>3. a \in 0 .. F - 1
  BY <1>1, <1>2
<1>4. v = F * (F * (F * (F - 1) + (F - 2)) + a) + r
  <2>1. p % HALF = p
    <3>1. HALF = 2 * (F * F) /\ p < HALF /\ HALF \in Nat \ {0}
      BY <1>1 DEF HALF, F
    <3>2. QED
      BY <3>1
  <2>2. v = F * F * F * F - 2 * F * F + p
    BY <2>1 DEF Direct, VIRTUAL, PAGES, HALF, F
  <2>3. F * F * F * F - 2 * F * F = F * (F * (F * (F - 1) + (F - 2)))
    BY <1>1
  <2> HIDE DEF a, r
  <2>4. QED
    BY <1>1, <1>2, <1>3, <2>2, <2>3
<1>5. v \in 0 .. PAGES - 1
  BY <1>1, DirectPage
<1> DEFINE x == F * (F - 1) + (F - 2)
<1>6. x \in Int /\ F * x + a \in Int
  BY <1>1, <1>3
<1>7. v \div F = F * x + a /\ v % F = r
  <2> DEFINE y == F * x + a
  <2>1. y \in Int /\ v = F * y + r
    BY <1>4, <1>6
  <2> HIDE DEF y
  <2>2. (F * y + r) \div F = y /\ (F * y + r) % F = r
    BY <1>1, <1>2, <2>1, DivMod, Zenon
  <2>3. v \div F = y /\ v % F = r
    BY <2>1, <2>2, Zenon
  <2>4. QED
    BY <2>3 DEF y
<1>8. v \div (F * F) = x /\ (v \div F) % F = a
  <2>1. (v \div F) \div F = v \div (F * F)
    BY <1>1, <1>5, DivTwice
  <2>2. (F * x + a) \div F = x /\ (F * x + a) % F = a
    <3>1. a \in 0 .. F - 1 /\ x \in Int
      BY <1>3, <1>6
    <3> HIDE DEF a, x
    <3>2. QED
      BY <1>1, <3>1, DivMod, Zenon
  <2>3. QED
    BY <1>7, <2>1, <2>2, Zenon
<1>9. v \div (F * F * F) = F - 1 /\ (v \div (F * F)) % F = F - 2
  <2>1. (v \div (F * F)) \div F = v \div (F * F * F)
    BY <1>1, <1>5, DivTwice
  <2>2. x \div F = F - 1 /\ x % F = F - 2
    <3>1. F - 1 \in Int /\ F - 2 \in 0 .. F - 1
      BY <1>1
    <3>2. QED
      BY <1>1, <3>1, DivMod, Zenon
  <2>3. QED
    BY <1>8, <2>1, <2>2, Zenon
<1>10. (F - 1) % F = F - 1
  BY <1>1
<1>11. a % F = a
  BY <1>1, <1>3
<1>12. /\ offset(1, v) = F - 1 /\ offset(2, v) = F - 2
       /\ offset(3, v) = (v \div F) % F /\ offset(4, v) = r
  BY <1>7, <1>8, <1>9, <1>10 DEF offset, F
<1>13. a \in Index /\ r \in Index
  BY <1>2, <1>3 DEF Index, F
<1>14. offset(3, v) = a
  BY <1>8, <1>12, Zenon
<1>15. p = F * a + r
  BY <1>2
<1>16. QED
  BY <1>8, <1>12, <1>13, <1>14, <1>15

-----------------------------------------------------------------------------
(* Tables.                                                                 *)

Mem == [Frame -> [Index -> Frame \cup {None}]]
MemRec == [mem : Mem, free : Nat]

\* The frames of map_kernel_space, the tables it keeps pointers to.
PML4 == FREELIST + 1
PDPT == FREELIST + 2
PDT == FREELIST + 3
PT == FREELIST + 4

\* What the assumptions say of the numbers and of the frames at hand.
LEMMA Basics ==
    /\ F \in Nat /\ F >= 4 /\ F * F \in Nat /\ CLEARED \in 3 .. F /\ FRAMES \in Nat
    /\ FREELIST \in F + 1 .. 2 * F - 1 /\ FREELIST + 21 <= FRAMES
    /\ {FREELIST, PML4, PDPT, PDT, PT} \subseteq Frame
    /\ {0, 1, 2, F - 1, F - 2} \subseteq Index
    /\ Index = 0 .. F - 1 /\ Frame = 0 .. FRAMES - 1
    /\ None \notin Frame
<1>1. F \in Nat /\ F >= 4 /\ F = FANOUT
  BY BootTablesAssumption DEF F
<1>2. F * F \in Nat /\ F * F * F * F \in Nat
  BY <1>1
<1>3. FRAMES \in Int /\ FREELIST + 21 <= FRAMES /\ FREELIST \in F + 1 .. 2 * F - 1 /\ CLEARED \in 3 .. F
  BY <1>1, BootTablesAssumption
<1>4. QED
  BY <1>1, <1>2, <1>3 DEF Frame, Index, PML4, PDPT, PDT, PT, None

\* The table below an entry.
LEMMA TableThere ==
    ASSUME NEW m \in MemRec, NEW t \in Frame, NEW i \in Index, m.mem[t][i] # None
    PROVE  Table(m, t, i) = m /\ m.mem[t][i] \in Frame
BY DEF Table, MemRec, Mem

\* The table below an entry that is empty: cleared, and entered.
LEMMA TableNew ==
    ASSUME NEW m \in MemRec, NEW t \in Frame, NEW i \in Index, m.mem[t][i] = None,
           m.free \in Frame, t # m.free
    PROVE  LET n == Table(m, t, i)
           IN  /\ n \in MemRec /\ n.free = m.free + 1
               /\ n.mem[t][i] = m.free
               /\ \A j \in Index : j # i => n.mem[t][j] = m.mem[t][j]
               /\ \A j \in Index : n.mem[m.free][j] = None
               /\ \A f \in Frame : f # t /\ f # m.free => n.mem[f] = m.mem[f]
<1> DEFINE empty == [j \in Index |-> None]
           w == [m.mem EXCEPT ![m.free] = empty, ![t][i] = m.free]
           n == Table(m, t, i)
<1>1. n = [mem |-> w, free |-> m.free + 1]
  BY DEF Table
<1>2. m.mem \in Mem /\ m.free \in Nat
  BY DEF MemRec
<1>3. empty \in [Index -> Frame \cup {None}]
  OBVIOUS
<1>4. /\ w \in Mem
      /\ w[t][i] = m.free
      /\ \A j \in Index : j # i => w[t][j] = m.mem[t][j]
      /\ \A j \in Index : w[m.free][j] = None
      /\ \A f \in Frame : f # t /\ f # m.free => w[f] = m.mem[f]
  <2> DEFINE x == [m.mem EXCEPT ![m.free] = empty]
  <2>1. x \in Mem /\ x[m.free] = empty /\ \A f \in Frame : f # m.free => x[f] = m.mem[f]
    BY <1>2, <1>3 DEF Mem
  <2>2. w = [x EXCEPT ![t][i] = m.free]
    OBVIOUS
  <2> HIDE DEF x, w
  <2>3. x[t] \in [Index -> Frame \cup {None}] /\ x[t] = m.mem[t]
    BY <2>1 DEF Mem
  <2> DEFINE row == [x[t] EXCEPT ![i] = m.free]
  <2>4. /\ row \in [Index -> Frame \cup {None}] /\ row[i] = m.free
        /\ \A j \in Index : j # i => row[j] = m.mem[t][j]
    BY <2>3
  <2>5. w = [x EXCEPT ![t] = row]
    BY <2>2
  <2> HIDE DEF row
  <2>6. w \in Mem /\ w[t] = row /\ \A f \in Frame : f # t => w[f] = x[f]
    BY <2>1, <2>4, <2>5 DEF Mem
  <2>7. \A j \in Index : w[m.free][j] = None
    BY <2>1, <2>6
  <2>8. QED
    BY <2>1, <2>4, <2>6, <2>7
<1> HIDE DEF w
<1>5. n \in MemRec /\ n.mem = w /\ n.free = m.free + 1
  BY <1>1, <1>2, <1>4 DEF MemRec
<1>6. QED
  BY <1>4, <1>5

\* The entry of the last level.
LEMMA Put ==
    ASSUME NEW m \in MemRec, NEW t \in Frame, NEW i \in Index, NEW p \in Frame
    PROVE  LET n == SetEntry(m, t, i, p)
           IN  /\ n \in MemRec /\ n.free = m.free
               /\ n.mem[t][i] = p
               /\ \A f \in Frame, j \in Index : f # t \/ j # i => n.mem[f][j] = m.mem[f][j]
<1> DEFINE n == SetEntry(m, t, i, p)
           w == [m.mem EXCEPT ![t][i] = p]
<1>1. n = [m EXCEPT !.mem = w]
  BY DEF SetEntry
<1>2. m.mem \in Mem /\ m.free \in Nat
  BY DEF MemRec
<1>3. /\ w \in Mem /\ w[t][i] = p
      /\ \A f \in Frame, j \in Index : f # t \/ j # i => w[f][j] = m.mem[f][j]
  BY <1>2 DEF Mem
<1> HIDE DEF w
<1>4. n \in MemRec /\ n.mem = w /\ n.free = m.free
  BY <1>1, <1>2, <1>3 DEF MemRec
<1>5. QED
  BY <1>3, <1>4

-----------------------------------------------------------------------------
(* The direct map of little memory, whatever the memory held: the table    *)
(* setUpPageTables points to with pdt is enough, and its cleared entries.  *)

\* Page p is mapped to itself.
Mapped(m, p) ==
    /\ m.mem[PDT][p \div F] # None
    /\ m.mem[m.mem[PDT][p \div F]][p % F] = p

\* The two upper tables lead to PDT, whose cleared entries have tables of
\* their own, and the pages before n are mapped to themselves.
Little(m, n) ==
    /\ m \in MemRec /\ m.free > PT
    /\ m.mem[PML4][F - 1] = PDPT /\ m.mem[PDPT][F - 2] = PDT
    /\ \A i \in 0 .. CLEARED - 1 :
          m.mem[PDT][i] # None => m.mem[PDT][i] \in PT .. m.free - 1
    /\ \A i, j \in 0 .. CLEARED - 1 :
          i # j /\ m.mem[PDT][i] # None => m.mem[PDT][i] # m.mem[PDT][j]
    /\ \A p \in 0 .. n - 1 : Mapped(m, p)

\* A table for the entry i of PDT.
LEMMA LittleTable ==
    ASSUME NEW m, NEW n \in Nat, n <= CLEARED * F, Little(m, n), m.free \in Frame,
           NEW i \in 0 .. CLEARED - 1
    PROVE  LET w == Table(m, PDT, i)
           IN  /\ Little(w, n) /\ w.free <= m.free + 1
               /\ w.mem[PDT][i] \in PT .. w.free - 1
<1>1. m \in MemRec /\ m.free \in Nat /\ m.free > PT
  BY DEF Little, MemRec
<1>2. i \in Index /\ PDT \in Frame /\ PML4 \in Frame /\ PDPT \in Frame /\ PT \in Nat
  <2>1. PDT \in Frame /\ PML4 \in Frame /\ PDPT \in Frame /\ PT \in Frame
    BY Basics
  <2>2. PT \in Nat
    BY <2>1, Basics
  <2>3. i \in Index
    BY Basics
  <2>4. QED
    BY <2>1, <2>2, <2>3
<1>3. CASE m.mem[PDT][i] # None
  <2>1. Table(m, PDT, i) = m
    BY <1>1, <1>2, <1>3, TableThere
  <2>2. m.mem[PDT][i] \in PT .. m.free - 1
    BY <1>3 DEF Little
  <2>3. QED
    BY <1>1, <2>1, <2>2
<1>4. CASE m.mem[PDT][i] = None
  <2> DEFINE w == Table(m, PDT, i)
  <2>1. PDT # m.free /\ PML4 # m.free /\ PDPT # m.free /\ PML4 # PDT /\ PDPT # PDT
    BY <1>1, Basics DEF PML4, PDPT, PDT, PT
  <2>2. /\ w \in MemRec /\ w.free = m.free + 1
        /\ w.mem[PDT][i] = m.free
        /\ \A j \in Index : j # i => w.mem[PDT][j] = m.mem[PDT][j]
        /\ \A f \in Frame : f # PDT /\ f # m.free => w.mem[f] = m.mem[f]
    BY <1>1, <1>2, <1>4, <2>1, TableNew
  <2> HIDE DEF w
  <2>3. w.mem[PML4][F - 1] = PDPT /\ w.mem[PDPT][F - 2] = PDT
    BY <1>2, <2>1, <2>2 DEF Little
  <2>4. \A j \in 0 .. CLEARED - 1 : j \in Index
    BY Basics
  <2>5. None \notin Nat /\ m.free # None
    BY <1>1, Basics DEF None
  <2>6. ASSUME NEW j \in 0 .. CLEARED - 1, w.mem[PDT][j] # None
        PROVE  w.mem[PDT][j] \in PT .. w.free - 1
    BY <1>1, <1>2, <2>2, <2>4, <2>6 DEF Little
  <2>7. ASSUME NEW j \in 0 .. CLEARED - 1, NEW k \in 0 .. CLEARED - 1, j # k, w.mem[PDT][j] # None
        PROVE  w.mem[PDT][j] # w.mem[PDT][k]
    <3>1. \A l \in 0 .. CLEARED - 1 : m.mem[PDT][l] # m.free
      <4>1. \A l \in 0 .. CLEARED - 1 : m.mem[PDT][l] = None \/ m.mem[PDT][l] \in PT .. m.free - 1
        BY DEF Little
      <4>2. QED
        BY <1>1, <1>2, <2>5, <4>1
    <3>2. QED
      BY <2>2, <2>4, <2>7, <3>1 DEF Little
  <2>8. ASSUME NEW p \in 0 .. n - 1 PROVE Mapped(w, p)
    <3>1. p \div F \in 0 .. CLEARED - 1 /\ p % F \in Index
      <4>1. F \in Nat /\ F >= 4 /\ CLEARED \in Nat /\ p \in Nat /\ p < CLEARED * F
        BY Basics
      <4>2. QED
        BY <4>1, Basics
    <3>2. m.mem[PDT][p \div F] # None /\ m.mem[m.mem[PDT][p \div F]][p % F] = p
      BY DEF Little, Mapped
    <3>3. p \div F # i /\ p \div F \in Index
      BY <1>4, <2>4, <3>1, <3>2
    <3>4. w.mem[PDT][p \div F] = m.mem[PDT][p \div F]
      BY <2>2, <3>3
    <3>5. m.mem[PDT][p \div F] \in PT .. m.free - 1
      BY <3>1, <3>2 DEF Little
    <3>6. w.mem[m.mem[PDT][p \div F]] = m.mem[m.mem[PDT][p \div F]]
      <4>1. m.mem[PDT][p \div F] \in Frame
        BY <1>1, <1>2, <3>2, <3>3, TableThere
      <4>2. m.mem[PDT][p \div F] # PDT /\ m.mem[PDT][p \div F] # m.free
        BY <1>1, <1>2, <3>5, Basics DEF PT, PDT
      <4>3. QED
        BY <2>2, <4>1, <4>2
    <3>7. QED
      BY <3>2, <3>4, <3>6 DEF Mapped
  <2>9. w.free > PT /\ m.free \in PT .. w.free - 1
    BY <1>1, <1>2, <2>2
  <2>10. Little(w, n)
    BY <2>2, <2>3, <2>6, <2>7, <2>8, <2>9 DEF Little
  <2>11. QED
    BY <1>1, <2>2, <2>9, <2>10 DEF w
<1>5. QED
  BY <1>3, <1>4

\* map_vir_phy of one of these pages.
LEMMA LittleMap ==
    ASSUME NEW m, NEW n \in Nat, n <= CLEARED * F, Little(m, n), m.free \in Frame,
           NEW p \in Frame, p < CLEARED * F, tables.pml4 = PML4
    PROVE  LET w == map_vir_phy(m, Direct(p), p)
           IN  Little(w, n) /\ Mapped(w, p) /\ w.free <= m.free + 1
<1> DEFINE i == p \div F
           j == p % F
           w == Table(m, PDT, i)
           t == w.mem[PDT][i]
           x == SetEntry(w, t, j, p)
<1>1. p \in 0 .. F * F - 1 /\ p \in Nat
  <2>1. F \in Nat /\ F >= 4 /\ CLEARED \in 3 .. F /\ p \in Nat /\ F * F \in Nat
    BY Basics
  <2>2. CLEARED * F <= F * F
    BY <2>1
  <2>3. CLEARED * F \in Nat
    BY <2>1
  <2>4. QED
    BY <2>1, <2>2, <2>3
<1>2. /\ offset(1, Direct(p)) = F - 1 /\ offset(2, Direct(p)) = F - 2
      /\ offset(3, Direct(p)) = i /\ offset(4, Direct(p)) = j
      /\ i \in Index /\ j \in Index
  BY <1>1, FirstPages
<1>3. i \in 0 .. CLEARED - 1
  <2>1. F \in Nat /\ F >= 4 /\ CLEARED \in Nat /\ p \in Nat /\ p < CLEARED * F
    BY <1>1, Basics
  <2>2. QED
    BY <2>1
<1>4. m \in MemRec /\ m.mem[PML4][F - 1] = PDPT /\ m.mem[PDPT][F - 2] = PDT
  BY DEF Little
<1>5. Table(m, PML4, F - 1) = m /\ Table(m, PDPT, F - 2) = m
  <2>1. PDPT # None /\ PDT # None /\ PML4 \in Frame /\ PDPT \in Frame /\ F - 1 \in Index /\ F - 2 \in Index
    BY Basics
  <2>2. QED
    BY <1>4, <2>1, TableThere
<1>6. map_vir_phy(m, Direct(p), p) = x
  <2> DEFINE v == Direct(p)
             m1 == Table(m, tables.pml4, offset(1, v))
             a == m1.mem[tables.pml4][offset(1, v)]
             m2 == Table(m1, a, offset(2, v))
             b == m2.mem[a][offset(2, v)]
             m3 == Table(m2, b, offset(3, v))
             c == m3.mem[b][offset(3, v)]
  <2>1. map_vir_phy(m, v, p) = SetEntry(m3, c, offset(4, v), p)
    BY DEF map_vir_phy
  <2>2. m1 = m /\ a = PDPT
    BY <1>2, <1>4, <1>5
  <2> HIDE DEF m1, a
  <2>3. m2 = m /\ b = PDT
    BY <1>2, <1>4, <1>5, <2>2
  <2> HIDE DEF m2, b
  <2>4. m3 = w /\ c = t
    BY <1>2, <2>3
  <2> HIDE DEF m3, c
  <2>5. QED
    BY <1>2, <2>1, <2>4
<1>7. Little(w, n) /\ w.free <= m.free + 1 /\ t \in PT .. w.free - 1 /\ w \in MemRec
  BY <1>3, LittleTable DEF Little
<1> HIDE DEF w
<1>8. t \in Frame /\ t # None /\ t # PML4 /\ t # PDPT /\ t # PDT
  <2>1. t # None
    <3>1. PT \in Nat
      BY Basics
    <3>2. t \in PT .. w.free - 1
      BY <1>7
    <3> HIDE DEF t
    <3>3. QED
      BY <3>1, <3>2 DEF None
  <2>2. t \in Frame
    <3>1. PDT \in Frame
      BY Basics
    <3>2. QED
      BY <1>2, <1>7, <2>1, <3>1, TableThere
  <2>3. t >= PT /\ t \in Int
    BY <1>7
  <2> HIDE DEF t
  <2>4. t # PML4 /\ t # PDPT /\ t # PDT
    <3>1. FREELIST \in Int
      BY Basics
    <3>2. QED
      BY <2>3, <3>1 DEF PT, PDT, PDPT, PML4
  <2>5. QED
    BY <2>1, <2>2, <2>4
<1> HIDE DEF t, i, j
<1>9. /\ x \in MemRec /\ x.free = w.free
      /\ x.mem[t][j] = p
      /\ \A f \in Frame, k \in Index : f # t \/ k # j => x.mem[f][k] = w.mem[f][k]
  BY <1>2, <1>7, <1>8, Put
<1> HIDE DEF x
<1>10. \A f \in {PML4, PDPT, PDT}, k \in Index : x.mem[f][k] = w.mem[f][k]
  BY <1>8, <1>9, Basics
<1>11. Mapped(x, p)
  <2>1. x.mem[PDT][i] = t
    BY <1>2, <1>10 DEF t
  <2>2. QED
    BY <1>8, <1>9, <2>1 DEF Mapped, i, j
<1>12. ASSUME NEW q \in 0 .. n - 1 PROVE Mapped(x, q)
  <2>1. Mapped(w, q)
    BY <1>7 DEF Little
  <2>2. q \div F \in 0 .. CLEARED - 1 /\ q % F \in Index
    <3>1. F \in Nat /\ F >= 4 /\ CLEARED \in Nat /\ q \in Nat /\ q < CLEARED * F
      BY Basics
    <3>2. QED
      BY <3>1, Basics
  <2>3. q \div F \in Index
    BY <2>2, Basics
  <2>4. x.mem[PDT][q \div F] = w.mem[PDT][q \div F]
    BY <1>10, <2>3
  <2>5. w.mem[PDT][q \div F] \in Frame
    BY <1>7, <2>1, <2>3, Basics, TableThere DEF Mapped
  <2>6. CASE w.mem[PDT][q \div F] = t /\ q % F = j
    <3>1. q \div F = i
      BY <1>3, <1>7, <1>8, <2>2, <2>6 DEF Little, t
    <3>2. q = p
      <4>1. p = F * i + j
        BY <1>1, FirstPages DEF i, j
      <4>2. q \in 0 .. F * F - 1
        <5>1. F \in Nat /\ F >= 4 /\ CLEARED \in 3 .. F /\ q \in Nat /\ F * F \in Nat /\ q < CLEARED * F
          BY Basics
        <5>2. CLEARED * F <= F * F /\ CLEARED * F \in Nat
          BY <5>1
        <5>3. QED
          BY <5>1, <5>2
      <4>3. q = F * (q \div F) + (q % F)
        BY <4>2, FirstPages
      <4>4. QED
        BY <2>6, <3>1, <4>1, <4>3
    <3>3. QED
      BY <1>11, <3>2
  <2>7. CASE ~ (w.mem[PDT][q \div F] = t /\ q % F = j)
    BY <1>9, <2>1, <2>2, <2>4, <2>5, <2>7 DEF Mapped
  <2>8. QED
    BY <2>6, <2>7
<1>13. \A k \in 0 .. CLEARED - 1 : k \in Index
  BY Basics
<1>14. x.mem[PML4][F - 1] = PDPT /\ x.mem[PDPT][F - 2] = PDT
  BY <1>7, <1>10, Basics DEF Little
<1>15. /\ \A k \in 0 .. CLEARED - 1 :
             x.mem[PDT][k] # None => x.mem[PDT][k] \in PT .. x.free - 1
       /\ \A k, l \in 0 .. CLEARED - 1 :
             k # l /\ x.mem[PDT][k] # None => x.mem[PDT][k] # x.mem[PDT][l]
  BY <1>7, <1>9, <1>10, <1>13 DEF Little
<1>16. Little(x, n)
  BY <1>7, <1>9, <1>12, <1>14, <1>15 DEF Little
<1>17. QED
  BY <1>6, <1>7, <1>9, <1>11, <1>16 DEF x
-----------------------------------------------------------------------------
(* The little memory: DirectMapRight.                                      *)

Own == [pml4 |-> PML4, pdpt |-> PDPT, pdt |-> PDT, pt |-> PT]

\* The frames the first calls take at most; the machine has 21 of them.
Room ==
    /\ stage = "freelist" => free = FREELIST + 5
    /\ stage = "video" => free <= FREELIST + 8
    /\ stage = "tables" => free <= FREELIST + 9

\* What both arguments share.
Course ==
    /\ stage \in {"kernel", "freelist", "video", "tables", "identity", "done"}
    /\ max \in FREELIST .. FRAMES - 1
    /\ dirt \in Leftovers
    /\ pstart \in 0 .. max + 1
    /\ stage \notin {"identity", "done"} => pstart = 0
    /\ stage = "done" => pstart = max + 1
    /\ stage = "kernel" =>
          mem = dirt /\ free = FREELIST + 1
    /\ stage # "kernel" => tables = Own

\* The pages of the tables, of the bitmap and of the video buffer are little.
LEMMA OwnPages ==
    /\ \A p \in {KERNEL, FREELIST, PML4, PDPT, PDT, PT, VIDEO} :
          p \in Frame /\ p \in 0 .. CLEARED * F - 1 /\ p \in 0 .. F * F - 1
    /\ CLEARED * F \in Nat /\ CLEARED * F <= F * F
<1>1. F \in Nat /\ F >= 4 /\ CLEARED \in 3 .. F /\ F * F \in Nat /\ CLEARED * F \in Nat
  BY Basics
<1>2. CLEARED * F <= F * F
  BY <1>1
<1>3. 3 * F <= CLEARED * F
  BY <1>1
<1>4. KERNEL = F /\ VIDEO \in 0 .. F - 1
  BY BootTablesAssumption DEF F
<1>5. FREELIST \in F + 1 .. 2 * F - 1 /\ FREELIST + 21 <= FRAMES /\ Frame = 0 .. FRAMES - 1 /\ FRAMES \in Nat
  BY Basics
<1>6. \A p \in {KERNEL, FREELIST, PML4, PDPT, PDT, PT, VIDEO} :
         p \in Nat /\ p < 3 * F /\ p < FRAMES
  BY <1>1, <1>4, <1>5 DEF PML4, PDPT, PDT, PT
<1>7. ASSUME NEW p \in {KERNEL, FREELIST, PML4, PDPT, PDT, PT, VIDEO}
      PROVE  p \in Frame /\ p \in 0 .. CLEARED * F - 1 /\ p \in 0 .. F * F - 1
  <2>1. p \in Nat /\ p < 3 * F /\ p < FRAMES
    BY <1>6
  <2>2. p < CLEARED * F /\ p < F * F
    BY <1>1, <1>2, <1>3, <2>1
  <2>3. QED
    BY <1>1, <1>5, <2>1, <2>2
<1>8. QED
  BY <1>1, <1>2, <1>7

\* The calls come in the order of setUpPageTables.
LEMMA CourseKept ==
    Spec => []Course
<1>1. Init => Course
  BY Basics, BootTablesAssumption DEF Init, Course
<1>2. Course /\ [Next]_vars => Course'
  <2> SUFFICES ASSUME Course, [Next]_vars PROVE Course'
    OBVIOUS
  <2>1. CASE map_kernel_space
    <3>1. free + 1 = PDPT /\ free + 2 = PDT /\ free + 3 = PT /\ free = PML4
      BY <2>1, Basics DEF map_kernel_space, Course, PML4, PDPT, PDT, PT
    <3>2. tables' = Own
      BY <2>1, <3>1 DEF map_kernel_space, Own
    <3>3. QED
      BY <2>1, <3>2 DEF map_kernel_space, Course
  <2>2. CASE map_freelist
    BY <2>2 DEF map_freelist, Course
  <2>3. CASE map_video_memory
    BY <2>3 DEF map_video_memory, Course
  <2>4. CASE map_tables
    BY <2>4 DEF map_tables, Course
  <2>5. CASE identity_mapping
    BY <2>5, Basics DEF identity_mapping, Course
  <2>6. CASE Loaded
    BY <2>6, Basics DEF Loaded, Course
  <2>7. CASE UNCHANGED vars
    BY <2>7 DEF vars, Course
  <2>8. QED
    BY <2>1, <2>2, <2>3, <2>4, <2>5, <2>6, <2>7 DEF Next
<1>3. QED
  BY <1>1, <1>2, PTL DEF Spec

\* The four tables.  What was in the last entries of a table stays there.
LEMMA FourTables ==
    ASSUME Course, map_kernel_space
    PROVE  /\ Memory' \in MemRec /\ free' = FREELIST + 5 /\ tables' = Own
           /\ mem'[PML4] = [Fresh(PML4) EXCEPT ![F - 1] = PDPT]
           /\ mem'[PDPT] = [Fresh(PDPT) EXCEPT ![F - 2] = PDT]
           /\ mem'[PDT] = [Fresh(PDT) EXCEPT ![1] = PT]
           /\ mem'[PT] = [Fresh(PT) EXCEPT ![0] = FREELIST, ![1] = FREELIST + 1]
           /\ \A f \in Frame \ {PML4, PDPT, PDT, PT} : mem'[f] = mem[f]
           /\ \A f \in Frame : /\ Fresh(f) \in [Index -> Frame \cup {None}]
                               /\ \A i \in 0 .. CLEARED - 1 : Fresh(f)[i] = None
<1>1. stage = "kernel" /\ free = FREELIST + 1 /\ mem = dirt
  BY DEF map_kernel_space, Course
<1>2. free = PML4 /\ free + 1 = PDPT /\ free + 2 = PDT /\ free + 3 = PT /\ free + 4 = FREELIST + 5
  BY <1>1, Basics DEF PML4, PDPT, PDT, PT
<1>3. /\ offset(1, Direct(KERNEL)) = F - 1 /\ offset(2, Direct(KERNEL)) = F - 2
      /\ offset(3, Direct(KERNEL)) = 1 /\ offset(4, Direct(KERNEL)) = 0
      /\ offset(4, Direct(KERNEL)) + 1 = 1
  <2>1. KERNEL \div F = 1 /\ KERNEL % F = 0
    <3>1. KERNEL = F * 1 + 0 /\ F \in Nat \ {0} /\ 0 \in 0 .. F - 1 /\ KERNEL = F
      BY Basics, BootTablesAssumption DEF F
    <3>2. QED
      BY <3>1
  <2>2. KERNEL \in 0 .. F * F - 1
    BY OwnPages
  <2>3. QED
    BY <2>1, <2>2, FirstPages
<1> DEFINE R1 == [Fresh(PML4) EXCEPT ![F - 1] = PDPT]
           R2 == [Fresh(PDPT) EXCEPT ![F - 2] = PDT]
           R3 == [Fresh(PDT) EXCEPT ![1] = PT]
           R4 == [Fresh(PT) EXCEPT ![0] = FREELIST, ![1] = FREELIST + 1]
<1>4. \A f \in Frame : /\ Fresh(f) \in [Index -> Frame \cup {None}]
                       /\ \A i \in 0 .. CLEARED - 1 : Fresh(f)[i] = None
  <2>1. \A i \in 0 .. CLEARED - 1 : i \in Index /\ i < CLEARED
    BY Basics
  <2>2. dirt \in [Frame -> [Index -> Frame \cup {None}]]
    BY BootTablesAssumption DEF Course
  <2>3. QED
    BY <1>1, <2>1, <2>2 DEF Fresh
<1>5. mem' = [mem EXCEPT ![PML4] = R1, ![PDPT] = R2, ![PDT] = R3, ![PT] = R4]
  BY <1>2, <1>3 DEF map_kernel_space
<1>6. PML4 # PDPT /\ PML4 # PDT /\ PML4 # PT /\ PDPT # PDT /\ PDPT # PT /\ PDT # PT
  BY Basics DEF PML4, PDPT, PDT, PT
<1>7. {PML4, PDPT, PDT, PT, FREELIST, FREELIST + 1} \subseteq Frame
  BY Basics DEF PML4
<1>8. {R1, R2, R3, R4} \subseteq [Index -> Frame \cup {None}]
  BY <1>4, <1>7
<1> HIDE DEF R1, R2, R3, R4
<1>9. mem \in Mem
  BY <1>1, BootTablesAssumption DEF Mem, Course
<1>10. /\ mem' \in Mem /\ mem'[PML4] = R1 /\ mem'[PDPT] = R2 /\ mem'[PDT] = R3 /\ mem'[PT] = R4
       /\ \A f \in Frame \ {PML4, PDPT, PDT, PT} : mem'[f] = mem[f]
  BY <1>5, <1>6, <1>7, <1>8, <1>9 DEF Mem
<1>11. free' = FREELIST + 5 /\ tables' = Own
  BY <1>2 DEF map_kernel_space, Own
<1>12. Memory' \in MemRec
  BY <1>10, <1>11, Basics DEF Memory, MemRec
<1>13. QED
  BY <1>4, <1>10, <1>11, <1>12 DEF R1, R2, R3, R4

\* The table of the video buffer.
LEMMA VideoTable ==
    ASSUME Course, map_video_memory, Memory \in MemRec, free \in Frame, free > PT
    PROVE  /\ Memory' \in MemRec /\ free' = free + 1
           /\ mem'[PDT][0] = free
           /\ \A i \in Index \ {0} : mem'[PDT][i] = mem[PDT][i]
           /\ mem'[free][VIDEO] = VIDEO
           /\ \A i \in Index \ {VIDEO} : mem'[free][i] = mem[free][i]
           /\ \A f \in Frame \ {PDT, free} : mem'[f] = mem[f]
<1>1. tables.pdt = PDT
  BY DEF map_video_memory, Course, Own
<1>2. offset(3, Direct(VIDEO)) = 0 /\ offset(4, Direct(VIDEO)) = VIDEO /\ 0 \in Index /\ VIDEO \in Index
  <2>1. VIDEO \in 0 .. F - 1 /\ F \in Nat \ {0}
    BY Basics, BootTablesAssumption DEF F
  <2>2. VIDEO \div F = 0 /\ VIDEO % F = VIDEO
    BY <2>1
  <2>3. VIDEO \in 0 .. F * F - 1
    BY OwnPages
  <2>4. QED
    BY <2>1, <2>2, <2>3, FirstPages, Basics
<1>3. mem' = [mem EXCEPT ![PDT][0] = free, ![free][VIDEO] = VIDEO]
  BY <1>1, <1>2 DEF map_video_memory
<1>4. PDT \in Frame /\ PDT # free /\ VIDEO \in Frame
  <2>1. VIDEO \in Frame
    BY OwnPages
  <2>2. PDT \in Frame /\ PDT # free
    BY Basics DEF PDT, PT
  <2>3. QED
    BY <2>1, <2>2
<1>5. mem \in Mem /\ free \in Nat
  BY DEF Memory, MemRec
<1> DEFINE w == [mem EXCEPT ![PDT][0] = free]
<1>6. /\ w \in Mem /\ w[PDT][0] = free
      /\ \A i \in Index \ {0} : w[PDT][i] = mem[PDT][i]
      /\ \A f \in Frame \ {PDT} : w[f] = mem[f]
  BY <1>2, <1>4, <1>5 DEF Mem
<1>7. mem' = [w EXCEPT ![free][VIDEO] = VIDEO]
  BY <1>3
<1> HIDE DEF w
<1>8. /\ mem' \in Mem /\ mem'[free][VIDEO] = VIDEO
      /\ \A i \in Index \ {VIDEO} : mem'[free][i] = w[free][i]
      /\ \A f \in Frame \ {free} : mem'[f] = w[f]
  BY <1>2, <1>4, <1>6, <1>7 DEF Mem
<1>9. free' = free + 1
  BY DEF map_video_memory
<1>10. Memory' \in MemRec
  BY <1>5, <1>8, <1>9 DEF Memory, MemRec
<1>11. QED
  BY <1>4, <1>6, <1>8, <1>9, <1>10

\* Why DirectMapRight holds.
LittleInv ==
    max < CLEARED * F /\ stage # "kernel" => Room /\ Little(Memory, pstart)

\* Each call keeps the little memory, or establishes it.
LEMMA LittleNext ==
    ASSUME Course, Course', LittleInv, [Next]_vars, max < CLEARED * F, stage' # "kernel"
    PROVE  Room' /\ Little(Memory, pstart)'
<1>1. CASE map_kernel_space
  <2>1. /\ Memory' \in MemRec /\ free' = FREELIST + 5
        /\ mem'[PML4] = [Fresh(PML4) EXCEPT ![F - 1] = PDPT]
        /\ mem'[PDPT] = [Fresh(PDPT) EXCEPT ![F - 2] = PDT]
        /\ mem'[PDT] = [Fresh(PDT) EXCEPT ![1] = PT]
        /\ \A f \in Frame : /\ Fresh(f) \in [Index -> Frame \cup {None}]
                            /\ \A i \in 0 .. CLEARED - 1 : Fresh(f)[i] = None
    BY <1>1, FourTables
  <2>2. {PML4, PDPT, PDT, PT} \subseteq Frame /\ {1, F - 1, F - 2} \subseteq Index
    BY Basics
  <2>3. \A i \in 0 .. CLEARED - 1 : mem'[PDT][i] = IF i = 1 THEN PT ELSE None
    <3>1. \A i \in 0 .. CLEARED - 1 : i \in Index
      BY Basics
    <3>2. QED
      BY <2>1, <2>2, <3>1
  <2>4. mem'[PML4][F - 1] = PDPT /\ mem'[PDPT][F - 2] = PDT
    BY <2>1, <2>2
  <2>5. PT \in Nat /\ free' = PT + 1 /\ PT # None
    BY <2>1, Basics DEF PT, None
  <2>6. pstart' = 0
    BY <1>1 DEF map_kernel_space, Course
  <2> DEFINE m == Memory'
  <2>7. m \in MemRec /\ m.mem = mem' /\ m.free = free'
    BY <2>1 DEF Memory
  <2> HIDE DEF m
  <2>8. Little(m, pstart')
    BY <2>3, <2>4, <2>5, <2>6, <2>7 DEF Little
  <2>9. Room'
    BY <1>1, <2>1 DEF map_kernel_space, Room
  <2>10. QED
    BY <2>8, <2>9 DEF m
<1>2. CASE map_freelist
  <2>1. Little(Memory, 0) /\ free = FREELIST + 5 /\ tables.pml4 = PML4 /\ pstart = 0
    BY <1>2 DEF LittleInv, map_freelist, Course, Room, Own
  <2>2. Memory.free \in Frame /\ Memory.free = free
    BY <2>1, Basics DEF Memory
  <2> DEFINE w == map_vir_phy(Memory, Direct(FREELIST), FREELIST)
  <2>3. Little(w, 0) /\ w.free <= free + 1
    BY <2>1, <2>2, OwnPages, LittleMap
  <2>4. SetMemory(w) /\ stage' = "video" /\ pstart' = 0
    BY <1>2, <2>1 DEF map_freelist
  <2> HIDE DEF w
  <2>5. Memory' = w
    BY <2>3, <2>4 DEF SetMemory, Memory, Little, MemRec
  <2>6. Room'
    <3>1. free' = w.free
      BY <2>4, Zenon DEF SetMemory
    <3>2. free' <= FREELIST + 8
      <4>1. w.free \in Nat /\ w.free <= free + 1 /\ free = FREELIST + 5
        BY <2>1, <2>3, Zenon DEF Little, MemRec
      <4>2. FREELIST \in Nat
        BY Basics
      <4> QED
        BY <3>1, <4>1, <4>2
    <3> QED
      BY <2>4, <3>2 DEF Room
  <2>7. QED
    BY <2>3, <2>4, <2>5, <2>6
<1>3. CASE map_video_memory
  <2>1. Little(Memory, 0) /\ free <= FREELIST + 8 /\ pstart = 0
    BY <1>3 DEF LittleInv, map_video_memory, Course, Room
  <2>2. Memory \in MemRec /\ free \in Nat /\ free > PT
    BY <2>1 DEF Little, MemRec, Memory
  <2>3. free \in Frame
    BY <2>1, <2>2, Basics
  <2>4. /\ Memory' \in MemRec /\ free' = free + 1
        /\ mem'[PDT][0] = free
        /\ \A i \in Index \ {0} : mem'[PDT][i] = mem[PDT][i]
        /\ \A f \in Frame \ {PDT, free} : mem'[f] = mem[f]
    BY <1>3, <2>2, <2>3, VideoTable
  <2>5. PML4 \in Frame \ {PDT, free} /\ PDPT \in Frame \ {PDT, free} /\ PT \in Nat
    BY <2>2, Basics DEF PML4, PDPT, PDT, PT
  <2>6. mem'[PML4][F - 1] = PDPT /\ mem'[PDPT][F - 2] = PDT
    BY <2>1, <2>4, <2>5 DEF Little, Memory
  <2>7. \A i \in 0 .. CLEARED - 1 : i \in Index
    BY Basics
  <2>8. \A i \in 0 .. CLEARED - 1 : mem[PDT][i] # None => mem[PDT][i] \in PT .. free - 1
    BY <2>1 DEF Little, Memory
  <2>9. \A i, j \in 0 .. CLEARED - 1 : i # j /\ mem[PDT][i] # None => mem[PDT][i] # mem[PDT][j]
    BY <2>1 DEF Little, Memory
  <2>10. None \notin Nat
    BY DEF None
  <2>11. \A i \in 0 .. CLEARED - 1 : mem'[PDT][i] # None => mem'[PDT][i] \in PT .. free' - 1
    BY <2>2, <2>4, <2>5, <2>7, <2>8
  <2>12. \A i, j \in 0 .. CLEARED - 1 : i # j /\ mem'[PDT][i] # None => mem'[PDT][i] # mem'[PDT][j]
    <3>1. \A i \in 0 .. CLEARED - 1 : mem[PDT][i] # free
      BY <2>2, <2>5, <2>8, <2>10
    <3>2. QED
      BY <2>2, <2>4, <2>7, <2>9, <2>10, <3>1
  <2>13. pstart' = 0 /\ stage' = "tables"
    BY <1>3, <2>1 DEF map_video_memory
  <2> DEFINE m == Memory'
  <2>14. m \in MemRec /\ m.mem = mem' /\ m.free = free'
    BY <2>4 DEF Memory
  <2> HIDE DEF m
  <2>15. Little(m, pstart')
    <3>1. \A p \in 0 .. pstart' - 1 : Mapped(m, p)
      BY <2>13
    <3>2. free' > PT
      BY <2>2, <2>4, <2>5
    <3>3. QED
      BY <2>6, <2>11, <2>12, <2>14, <3>1, <3>2 DEF Little
  <2>16. Room'
    BY <2>1, <2>2, <2>4, <2>13, Basics DEF Room
  <2>17. QED
    BY <2>15, <2>16 DEF m
<1>4. CASE map_tables
  <2>1. Little(Memory, 0) /\ free <= FREELIST + 9 /\ tables = Own /\ pstart = 0
    BY <1>4 DEF LittleInv, map_tables, Course, Room
  <2>2. tables.pml4 = PML4 /\ tables.pdpt = PDPT /\ tables.pdt = PDT /\ tables.pt = PT
    BY <2>1 DEF Own
  <2> DEFINE m1 == map_vir_phy(Memory, Direct(PML4), PML4)
             m2 == map_vir_phy(m1, Direct(PDPT), PDPT)
             m3 == map_vir_phy(m2, Direct(PDT), PDT)
             m4 == map_vir_phy(m3, Direct(PT), PT)
  <2>3. SetMemory(m4) /\ stage' = "identity" /\ pstart' = 0
    BY <1>4, <2>1, <2>2 DEF map_tables
  <2>4. \A m : Little(m, 0) /\ m.free <= FREELIST + 20 => m.free \in Frame /\ m.free \in Nat
    BY Basics DEF Little, MemRec
  <2>5. ASSUME NEW m, Little(m, 0), m.free <= FREELIST + 20, NEW p \in {PML4, PDPT, PDT, PT}
        PROVE  /\ Little(map_vir_phy(m, Direct(p), p), 0)
               /\ map_vir_phy(m, Direct(p), p).free <= m.free + 1
    <3>1. p \in Frame /\ p \in 0 .. CLEARED * F - 1 /\ CLEARED * F \in Nat
      BY OwnPages
    <3>2. p < CLEARED * F /\ 0 <= CLEARED * F
      BY <3>1
    <3>3. m.free \in Frame
      BY <2>4, <2>5
    <3>4. QED
      BY <2>2, <2>5, <3>1, <3>2, <3>3, LittleMap
  <2>6. Memory.free = free /\ free \in Nat /\ FREELIST \in Nat
    BY <2>1, Basics DEF Memory, Little, MemRec
  <2>7. Little(m1, 0) /\ m1.free <= free + 1 /\ m1.free \in Nat
    <3>1. Little(m1, 0) /\ m1.free <= Memory.free + 1
      BY <2>1, <2>5, <2>6
    <3>2. QED
      BY <2>6, <3>1 DEF Little, MemRec
  <2> HIDE DEF m1
  <2>8. Little(m2, 0) /\ m2.free <= m1.free + 1 /\ m2.free \in Nat
    <3>1. m1.free <= FREELIST + 20
      BY <2>1, <2>6, <2>7
    <3>2. QED
      BY <2>5, <2>7, <3>1 DEF Little, MemRec
  <2> HIDE DEF m2
  <2>9. Little(m3, 0) /\ m3.free <= m2.free + 1 /\ m3.free \in Nat
    <3>1. m2.free <= FREELIST + 20
      BY <2>1, <2>6, <2>7, <2>8
    <3>2. QED
      BY <2>5, <2>8, <3>1 DEF Little, MemRec
  <2> HIDE DEF m3
  <2>10. Little(m4, 0)
    <3>1. m3.free <= FREELIST + 20
      BY <2>1, <2>6, <2>7, <2>8, <2>9
    <3>2. QED
      BY <2>5, <2>9, <3>1
  <2> HIDE DEF m4
  <2>11. Memory' = m4
    BY <2>3, <2>10 DEF SetMemory, Memory, Little, MemRec
  <2>12. Room'
    BY <2>3 DEF Room
  <2>13. QED
    BY <2>3, <2>10, <2>11, <2>12
<1>5. CASE identity_mapping
  <2>1. Little(Memory, pstart) /\ tables = Own /\ pstart \in 0 .. max /\ free + 3 <= FRAMES /\ max \in FREELIST .. FRAMES - 1
    BY <1>5, Basics DEF LittleInv, identity_mapping, Course
  <2>2. CLEARED * F \in Nat /\ pstart < CLEARED * F /\ pstart \in Nat /\ pstart \in Frame
    BY <2>1, Basics, OwnPages
  <2>3. Memory.free \in Frame /\ tables.pml4 = PML4
    BY <2>1, Basics DEF Memory, Little, MemRec, Own
  <2> DEFINE w == map_vir_phy(Memory, Direct(pstart), pstart)
  <2>4. Little(w, pstart) /\ Mapped(w, pstart)
    BY <2>1, <2>2, <2>3, LittleMap
  <2>5. SetMemory(w) /\ stage' = "identity" /\ pstart' = pstart + 1
    BY <1>5 DEF identity_mapping
  <2> HIDE DEF w
  <2>6. Memory' = w
    BY <2>4, <2>5 DEF SetMemory, Memory, Little, MemRec
  <2>7. \A p \in 0 .. pstart' - 1 : Mapped(w, p)
    <3>1. \A p \in 0 .. pstart' - 1 : p \in 0 .. pstart - 1 \/ p = pstart
      BY <2>2, <2>5
    <3>2. QED
      BY <2>4, <3>1 DEF Little
  <2>8. Little(w, pstart')
    BY <2>4, <2>7 DEF Little
  <2>9. Room'
    BY <2>5 DEF Room
  <2>10. QED
    BY <2>6, <2>8, <2>9
<1>6. CASE Loaded
  BY <1>6 DEF Loaded, LittleInv, Room, Little, Memory
<1>7. CASE UNCHANGED vars
  BY <1>7 DEF vars, LittleInv, Room, Little, Memory
<1>8. QED
  BY <1>1, <1>2, <1>3, <1>4, <1>5, <1>6, <1>7 DEF Next

\* The processor's walk of the tables.
LEMMA LittleWalk ==
    ASSUME NEW n \in Nat, n <= CLEARED * F, Little(Memory, n), tables.pml4 = PML4,
           NEW p \in 0 .. n - 1
    PROVE  Walk(Direct(p)) = p
<1>1. p \in 0 .. F * F - 1
  BY OwnPages, Basics
<1>2. /\ offset(1, Direct(p)) = F - 1 /\ offset(2, Direct(p)) = F - 2
      /\ offset(3, Direct(p)) = p \div F /\ offset(4, Direct(p)) = p % F
  BY <1>1, FirstPages
<1>3. mem[PML4][F - 1] = PDPT /\ mem[PDPT][F - 2] = PDT
  BY DEF Little, Memory
<1>4. mem[PDT][p \div F] # None /\ mem[mem[PDT][p \div F]][p % F] = p
  BY DEF Little, Memory, Mapped
<1>5. PML4 # None /\ PDPT # None /\ PDT # None
  BY Basics
<1>6. QED
  BY <1>2, <1>3, <1>4, <1>5 DEF Walk

\* The direct map is right for the pages identity_mapping is done with, for
\* tables of any size and whatever the memory held, up to the memory whose
\* entries the short memset of map_kernel_space has cleared.
THEOREM DirectMap == Spec => []DirectMapRight
<1>1. Init => LittleInv
  BY DEF Init, LittleInv
<1>2. Course /\ Course' /\ LittleInv /\ [Next]_vars => LittleInv'
  <2> SUFFICES ASSUME Course, Course', LittleInv, [Next]_vars PROVE LittleInv'
    OBVIOUS
  <2>1. max' = max
    BY DEF Next, vars, map_kernel_space, map_freelist, map_video_memory, map_tables,
           identity_mapping, Loaded
  <2>2. QED
    BY <2>1, LittleNext DEF LittleInv
<1>3. Course /\ LittleInv => DirectMapRight
  <2> SUFFICES ASSUME Course, LittleInv, max < CLEARED * FANOUT, NEW p \in 0 .. pstart - 1
               PROVE  Walk(Direct(p)) = p
    BY DEF DirectMapRight
  <2>1. stage # "kernel" /\ pstart \in Nat /\ pstart <= CLEARED * F
    BY Basics, OwnPages DEF Course, F
  <2>2. Little(Memory, pstart) /\ tables.pml4 = PML4
    BY <2>1 DEF LittleInv, Course, Own, F
  <2>3. QED
    BY <2>1, <2>2, LittleWalk
<1>4. QED
  BY <1>1, <1>2, <1>3, CourseKept, PTL DEF Spec
-----------------------------------------------------------------------------
(* The whole tree, where the memory was clear: NothingElseMapped.          *)

\* A table of level lev has the pages pre * FANOUT^(5 - lev) and on below it.
\* Its entries lead to tables of the next level, or to the frame the page is
\* the direct map of: all but the two entries of PT from which map_kernel_space
\* maps the pages behind the kernel, until identity_mapping has been there.
\* The frames that are not handed out hold nothing.
Tree(m, n, lev, pre) ==
    /\ m \in MemRec /\ m.free > PT
    /\ lev \in [Frame -> 0 .. 4] /\ pre \in [Frame -> Nat]
    /\ lev[PML4] = 1 /\ lev[PDPT] = 2 /\ lev[PDT] = 3 /\ lev[PT] = 4
    /\ pre[PML4] = 0 /\ pre[PDT] = F * (F - 1) + (F - 2)
    /\ m.mem[PML4][F - 1] = PDPT /\ m.mem[PDPT][F - 2] = PDT /\ m.mem[PDT][1] = PT
    /\ \A f \in Frame : f >= m.free => lev[f] = 0 /\ \A j \in Index : m.mem[f][j] = None
    /\ \A f \in Frame, j \in Index :
          lev[f] \in 1 .. 3 /\ m.mem[f][j] # None =>
              /\ lev[m.mem[f][j]] = lev[f] + 1
              /\ pre[m.mem[f][j]] = F * pre[f] + j
    /\ \A f \in Frame, j \in Index :
          lev[f] = 4 /\ m.mem[f][j] # None =>
              \/ Direct(m.mem[f][j]) = F * pre[f] + j
              \/ f = PT /\ j \in {0, 1} /\ n <= KERNEL + j

\* Another table in the tree.
LEMMA TreeTable ==
    ASSUME NEW m, NEW n, NEW lev, NEW pre, Tree(m, n, lev, pre), m.free \in Frame,
           NEW t \in Frame, lev[t] \in 1 .. 3, NEW i \in Index
    PROVE  \E lev1, pre1 :
              LET w == Table(m, t, i)
              IN  /\ Tree(w, n, lev1, pre1) /\ w.free <= m.free + 1
                  /\ w.mem[t][i] \in Frame
                  /\ lev1[w.mem[t][i]] = lev[t] + 1
                  /\ pre1[w.mem[t][i]] = F * pre[t] + i
<1>1. m \in MemRec /\ m.free \in Nat
  BY DEF Tree, MemRec
<1>2. CASE m.mem[t][i] # None
  <2>1. Table(m, t, i) = m /\ m.mem[t][i] \in Frame
    BY <1>1, <1>2, TableThere
  <2>2. lev[m.mem[t][i]] = lev[t] + 1 /\ pre[m.mem[t][i]] = F * pre[t] + i
    BY <1>2 DEF Tree
  <2>3. m.free <= m.free + 1
    BY <1>1
  <2>4. QED
    BY <2>1, <2>2, <2>3
<1>3. CASE m.mem[t][i] = None
  <2> DEFINE w == Table(m, t, i)
             lev1 == [lev EXCEPT ![m.free] = lev[t] + 1]
             pre1 == [pre EXCEPT ![m.free] = F * pre[t] + i]
  <2>1. t < m.free /\ t # m.free
    <3>1. lev[t] # 0
      OBVIOUS
    <3>2. ~ (t >= m.free)
      BY <3>1 DEF Tree
    <3>3. t \in Nat
      BY Basics
    <3>4. QED
      BY <1>1, <3>2, <3>3
  <2>2. /\ w \in MemRec /\ w.free = m.free + 1
        /\ w.mem[t][i] = m.free
        /\ \A j \in Index : j # i => w.mem[t][j] = m.mem[t][j]
        /\ \A j \in Index : w.mem[m.free][j] = None
        /\ \A f \in Frame : f # t /\ f # m.free => w.mem[f] = m.mem[f]
    BY <1>1, <1>3, <2>1, TableNew
  <2>3. /\ lev1 \in [Frame -> 0 .. 4] /\ lev1[m.free] = lev[t] + 1
        /\ \A f \in Frame : f # m.free => lev1[f] = lev[f]
    BY DEF Tree
  <2>4. F * pre[t] + i \in Nat
    <3>1. F \in Nat /\ i \in Nat
      BY Basics
    <3>2. pre \in [Frame -> Nat]
      BY DEF Tree
    <3>3. pre[t] \in Nat
      BY <3>2
    <3> QED
      BY <3>1, <3>3
  <2>5. /\ pre1 \in [Frame -> Nat] /\ pre1[m.free] = F * pre[t] + i
        /\ \A f \in Frame : f # m.free => pre1[f] = pre[f]
    BY <2>4 DEF Tree
  <2> HIDE DEF w, lev1, pre1
  <2>6. {PML4, PDPT, PDT, PT} \subseteq Frame \ {m.free} /\ PT \in Nat
    <3>1. m.free > PT
      BY DEF Tree
    <3>2. {PML4, PDPT, PDT, PT} \subseteq Frame /\ FREELIST \in Nat
      BY Basics
    <3>3. QED
      BY <1>1, <3>1, <3>2 DEF PML4, PDPT, PDT, PT
  <2>7. lev[m.free] = 0 /\ \A j \in Index : m.mem[m.free][j] = None
    BY <1>1 DEF Tree
  \* No entry points to the frame that is still free.
  <2>8. ASSUME NEW f \in Frame, NEW j \in Index, lev[f] \in 1 .. 3, m.mem[f][j] # None
        PROVE  m.mem[f][j] # m.free /\ m.mem[f][j] \in Frame
    <3>1. lev[m.mem[f][j]] = lev[f] + 1
      BY <2>8 DEF Tree
    <3>2. m.mem[f][j] \in Frame
      BY <1>1, <2>8, TableThere
    <3>3. lev[f] + 1 # 0
      BY <2>8
    <3>4. QED
      BY <2>7, <3>1, <3>2, <3>3
  <2>9. /\ w.mem[PML4][F - 1] = PDPT /\ w.mem[PDPT][F - 2] = PDT /\ w.mem[PDT][1] = PT
    <3>1. {1, F - 1, F - 2} \subseteq Index /\ {PDPT, PDT, PT} \subseteq Frame /\ None \notin Frame
      BY Basics
    <3>2. \A f \in Frame, j \in Index : m.mem[f][j] # None => w.mem[f][j] = m.mem[f][j]
      BY <1>3, <2>2, <2>7
    <3>3. m.mem[PML4][F - 1] = PDPT /\ m.mem[PDPT][F - 2] = PDT /\ m.mem[PDT][1] = PT
      BY DEF Tree
    <3>4. QED
      BY <2>6, <3>1, <3>2, <3>3
  <2>10. ASSUME NEW f \in Frame, f >= w.free
         PROVE  lev1[f] = 0 /\ \A j \in Index : w.mem[f][j] = None
    <3>1. f # m.free /\ f >= m.free /\ f # t
      BY <1>1, <2>1, <2>2, <2>10, Basics
    <3>2. QED
      BY <2>2, <2>3, <3>1 DEF Tree
  <2>11. ASSUME NEW f \in Frame, NEW j \in Index, lev1[f] \in 1 .. 3, w.mem[f][j] # None
         PROVE  /\ lev1[w.mem[f][j]] = lev1[f] + 1
                /\ pre1[w.mem[f][j]] = F * pre1[f] + j
    <3>1. f # m.free
      BY <2>2, <2>11
    <3>2. lev1[f] = lev[f] /\ pre1[f] = pre[f]
      BY <2>3, <2>5, <3>1
    <3>3. CASE f = t /\ j = i
      BY <2>2, <2>3, <2>5, <3>2, <3>3
    <3>4. CASE ~ (f = t /\ j = i)
      <4>1. w.mem[f][j] = m.mem[f][j]
        BY <2>2, <3>1, <3>4
      <4>2. m.mem[f][j] # m.free /\ m.mem[f][j] \in Frame
        BY <2>8, <2>11, <3>2, <4>1
      <4>3. lev1[m.mem[f][j]] = lev[m.mem[f][j]] /\ pre1[m.mem[f][j]] = pre[m.mem[f][j]]
        BY <2>3, <2>5, <4>2
      <4>4. lev[m.mem[f][j]] = lev[f] + 1 /\ pre[m.mem[f][j]] = F * pre[f] + j
        BY <2>11, <3>2, <4>1 DEF Tree
      <4>5. QED
        BY <3>2, <4>1, <4>3, <4>4
    <3>5. QED
      BY <3>3, <3>4
  <2>12. ASSUME NEW f \in Frame, NEW j \in Index, lev1[f] = 4, w.mem[f][j] # None
         PROVE  \/ Direct(w.mem[f][j]) = F * pre1[f] + j
                \/ f = PT /\ j \in {0, 1} /\ n <= KERNEL + j
    <3>1. f # m.free
      BY <2>2, <2>12
    <3>2. lev[f] = 4 /\ pre1[f] = pre[f]
      BY <2>3, <2>5, <2>12, <3>1
    <3>3. f # t
      BY <3>2
    <3>4. w.mem[f][j] = m.mem[f][j]
      BY <2>2, <3>1, <3>3
    <3>5. QED
      BY <2>12, <3>2, <3>4 DEF Tree
  <2>13. lev1[PML4] = 1 /\ lev1[PDPT] = 2 /\ lev1[PDT] = 3 /\ lev1[PT] = 4
    BY <2>3, <2>6 DEF Tree
  <2>14. pre1[PML4] = 0 /\ pre1[PDT] = F * (F - 1) + (F - 2)
    BY <2>5, <2>6 DEF Tree
  <2>15. w.free > PT
    BY <1>1, <2>2, <2>6 DEF Tree
  <2>16. Tree(w, n, lev1, pre1)
    BY <2>2, <2>3, <2>5, <2>9, <2>10, <2>11, <2>12, <2>13, <2>14, <2>15 DEF Tree
  <2>17. w.free <= m.free + 1
    BY <1>1, <2>2
  <2>18. QED
    BY <2>2, <2>3, <2>5, <2>16, <2>17 DEF w
<1>4. QED
  BY <1>2, <1>3

\* An entry of the last level.
LEMMA TreeLeaf ==
    ASSUME NEW m, NEW n, NEW lev, NEW pre, Tree(m, n, lev, pre),
           NEW t \in Frame, lev[t] = 4, NEW i \in Index, NEW p \in Frame,
           Direct(p) = F * pre[t] + i
    PROVE  /\ Tree(SetEntry(m, t, i, p), n, lev, pre)
           /\ SetEntry(m, t, i, p).free = m.free
           /\ SetEntry(m, t, i, p).mem[t][i] = p
           /\ \A f \in Frame, j \in Index :
                 f # t \/ j # i => SetEntry(m, t, i, p).mem[f][j] = m.mem[f][j]
<1> DEFINE w == SetEntry(m, t, i, p)
<1>1. m \in MemRec /\ m.free \in Nat
  BY DEF Tree, MemRec
<1>2. /\ w \in MemRec /\ w.free = m.free /\ w.mem[t][i] = p
      /\ \A f \in Frame, j \in Index : f # t \/ j # i => w.mem[f][j] = m.mem[f][j]
  BY <1>1, Put
<1> HIDE DEF w
<1>3. \A f \in Frame, j \in Index : lev[f] # 4 => w.mem[f][j] = m.mem[f][j]
  BY <1>2
<1>4. w.mem[PML4][F - 1] = PDPT /\ w.mem[PDPT][F - 2] = PDT /\ w.mem[PDT][1] = PT
  <2>1. {PML4, PDPT, PDT} \subseteq Frame /\ {1, F - 1, F - 2} \subseteq Index
    BY Basics
  <2>2. lev[PML4] # 4 /\ lev[PDPT] # 4 /\ lev[PDT] # 4
    BY DEF Tree
  <2>3. QED
    BY <1>3, <2>1, <2>2 DEF Tree
<1>5. \A f \in Frame : f >= w.free => lev[f] = 0 /\ \A j \in Index : w.mem[f][j] = None
  BY <1>2, <1>3 DEF Tree
<1>6. ASSUME NEW f \in Frame, NEW j \in Index, lev[f] \in 1 .. 3, w.mem[f][j] # None
      PROVE  lev[w.mem[f][j]] = lev[f] + 1 /\ pre[w.mem[f][j]] = F * pre[f] + j
  <2>1. lev[f] # 4
    BY <1>6
  <2>2. QED
    BY <1>3, <1>6, <2>1 DEF Tree
<1>7. ASSUME NEW f \in Frame, NEW j \in Index, lev[f] = 4, w.mem[f][j] # None
      PROVE  \/ Direct(w.mem[f][j]) = F * pre[f] + j
             \/ f = PT /\ j \in {0, 1} /\ n <= KERNEL + j
  BY <1>2, <1>7 DEF Tree
<1>8. Tree(w, n, lev, pre)
  BY <1>2, <1>4, <1>5, <1>6, <1>7 DEF Tree
<1>9. QED
  BY <1>2, <1>8 DEF w

\* map_vir_phy of a page of the direct map.
LEMMA TreeMap ==
    ASSUME NEW m, NEW n \in Nat, NEW lev, NEW pre, Tree(m, n, lev, pre), m.free + 3 <= FRAMES,
           NEW p \in Frame, tables.pml4 = PML4
    PROVE  LET w == map_vir_phy(m, Direct(p), p)
           IN  /\ \E lev1, pre1 : Tree(w, n, lev1, pre1)
               /\ n = p => \E lev1, pre1 : Tree(w, n + 1, lev1, pre1)
               /\ w \in MemRec /\ w.free <= m.free + 3
<1> DEFINE v == Direct(p)
           m1 == Table(m, PML4, offset(1, v))
           a == m1.mem[PML4][offset(1, v)]
           m2 == Table(m1, a, offset(2, v))
           b == m2.mem[a][offset(2, v)]
           m3 == Table(m2, b, offset(3, v))
           c == m3.mem[b][offset(3, v)]
           w == SetEntry(m3, c, offset(4, v), p)
<1>1. map_vir_phy(m, v, p) = w
  BY DEF map_vir_phy
<1>2. v \in 0 .. PAGES - 1
  <2>1. p \in Nat
    BY Basics
  <2>2. QED
    BY <2>1, DirectPage
<1>3. /\ offset(1, v) \in Index /\ offset(2, v) \in Index
      /\ offset(3, v) \in Index /\ offset(4, v) \in Index
      /\ v = F * (F * (F * offset(1, v) + offset(2, v)) + offset(3, v)) + offset(4, v)
  <2> HIDE DEF v
  <2>1. \A l \in 1 .. 4 : offset(l, v) \in Index
    BY <1>2, Digits
  <2>2. /\ v \div F = F * (F * offset(1, v) + offset(2, v)) + offset(3, v)
        /\ v = F * (v \div F) + offset(4, v)
    BY <1>2, Digits
  <2>3. QED
    BY <2>1, <2>2
<1>4. p \in KERNEL .. KERNEL + 1 =>
         /\ offset(1, v) = F - 1 /\ offset(2, v) = F - 2 /\ offset(3, v) = 1
         /\ p = KERNEL + offset(4, v)
  <2>1. SUFFICES ASSUME p \in KERNEL .. KERNEL + 1
                 PROVE  /\ offset(1, v) = F - 1 /\ offset(2, v) = F - 2 /\ offset(3, v) = 1
                        /\ p = KERNEL + offset(4, v)
    OBVIOUS
  <2>2. KERNEL = F /\ F \in Nat /\ F >= 4
    BY Basics, BootTablesAssumption DEF F
  <2>3. p \in 0 .. F * F - 1
    <3>1. 2 * F <= F * F
      BY <2>2
    <3>2. QED
      BY <2>1, <2>2, <3>1
  <2>4. /\ offset(1, v) = F - 1 /\ offset(2, v) = F - 2
        /\ offset(3, v) = p \div F /\ offset(4, v) = p % F
    BY <2>3, FirstPages
  <2>5. p \div F = 1 /\ p = F + (p % F)
    BY <2>1, <2>2
  <2>6. QED
    BY <2>2, <2>4, <2>5
<1> HIDE DEF v
<1>5. m.free \in Nat /\ FRAMES \in Nat /\ Frame = 0 .. FRAMES - 1
  BY Basics DEF Tree, MemRec
<1>6. \E lev1, pre1 : /\ Tree(m1, n, lev1, pre1) /\ m1.free <= m.free + 1
                      /\ a \in Frame /\ lev1[a] = 2 /\ pre1[a] = offset(1, v)
  <2>1. m.free \in Frame /\ PML4 \in Frame /\ lev[PML4] = 1 /\ pre[PML4] = 0 /\ F \in Nat
    <3>1. m.free \in Frame
      BY <1>5
    <3>2. PML4 \in Frame /\ F \in Nat
      BY Basics
    <3>3. lev[PML4] = 1 /\ pre[PML4] = 0
      BY DEF Tree
    <3>4. QED
      BY <3>1, <3>2, <3>3
  <2>2. PICK lev1, pre1 : /\ Tree(m1, n, lev1, pre1) /\ m1.free <= m.free + 1
                          /\ a \in Frame /\ lev1[a] = lev[PML4] + 1
                          /\ pre1[a] = F * pre[PML4] + offset(1, v)
    BY <1>3, <2>1, TreeTable
  <2>3. lev1[a] = 2 /\ pre1[a] = offset(1, v)
    <3>1. offset(1, v) \in Nat
      BY <1>3, Basics
    <3>2. QED
      BY <2>1, <2>2, <3>1
  <2>4. QED
    BY <2>2, <2>3
<1> HIDE DEF m1, a
<1>7. PICK l1, p1 : /\ Tree(m1, n, l1, p1) /\ m1.free <= m.free + 1
                    /\ a \in Frame /\ l1[a] = 2 /\ p1[a] = offset(1, v)
  BY <1>6
<1>8. \E lev1, pre1 : /\ Tree(m2, n, lev1, pre1) /\ m2.free <= m1.free + 1
                      /\ b \in Frame /\ lev1[b] = 3
                      /\ pre1[b] = F * offset(1, v) + offset(2, v)
  <2>1. m1.free \in Frame
    <3>1. m1.free \in Nat
      BY <1>7 DEF Tree, MemRec
    <3>2. QED
      BY <1>5, <1>7, <3>1
  <2>2. l1[a] \in 1 .. 3
    BY <1>7
  <2>3. PICK lev1, pre1 : /\ Tree(m2, n, lev1, pre1) /\ m2.free <= m1.free + 1
                          /\ b \in Frame /\ lev1[b] = l1[a] + 1
                          /\ pre1[b] = F * p1[a] + offset(2, v)
    BY <1>3, <1>7, <2>1, <2>2, TreeTable
  <2>4. lev1[b] = 3 /\ pre1[b] = F * offset(1, v) + offset(2, v)
    BY <1>7, <2>3
  <2>5. QED
    BY <2>3, <2>4
<1> HIDE DEF m2, b
<1>9. PICK l2, p2 : /\ Tree(m2, n, l2, p2) /\ m2.free <= m1.free + 1
                    /\ b \in Frame /\ l2[b] = 3
                    /\ p2[b] = F * offset(1, v) + offset(2, v)
  BY <1>8
<1>10. m1.free \in Nat /\ m2.free \in Nat
  BY <1>7, <1>9 DEF Tree, MemRec
<1>11. \E lev1, pre1 : /\ Tree(m3, n, lev1, pre1) /\ m3.free <= m2.free + 1
                       /\ c \in Frame /\ lev1[c] = 4
                       /\ pre1[c] = F * (F * offset(1, v) + offset(2, v)) + offset(3, v)
  <2>1. m2.free \in Frame
    BY <1>5, <1>7, <1>9, <1>10
  <2>2. l2[b] \in 1 .. 3
    BY <1>9
  <2>3. PICK lev1, pre1 : /\ Tree(m3, n, lev1, pre1) /\ m3.free <= m2.free + 1
                          /\ c \in Frame /\ lev1[c] = l2[b] + 1
                          /\ pre1[c] = F * p2[b] + offset(3, v)
    BY <1>3, <1>9, <2>1, <2>2, TreeTable
  <2>4. lev1[c] = 4 /\ pre1[c] = F * (F * offset(1, v) + offset(2, v)) + offset(3, v)
    BY <1>9, <2>3
  <2>5. QED
    BY <2>3, <2>4
<1>12. p \in KERNEL .. KERNEL + 1 => c = PT
  <2> SUFFICES ASSUME p \in KERNEL .. KERNEL + 1 PROVE c = PT
    OBVIOUS
  <2>1. a = PDPT
    BY <1>4, <1>7 DEF Tree, a
  <2>2. b = PDT
    BY <1>4, <1>9, <2>1 DEF Tree, b
  <2>3. PICK l3, p3 : Tree(m3, n, l3, p3)
    BY <1>11
  <2>4. QED
    BY <1>4, <2>2, <2>3 DEF Tree
<1> HIDE DEF m3, c
<1>13. PICK l3, p3 : /\ Tree(m3, n, l3, p3) /\ m3.free <= m2.free + 1
                     /\ c \in Frame /\ l3[c] = 4
                     /\ p3[c] = F * (F * offset(1, v) + offset(2, v)) + offset(3, v)
  BY <1>11
<1>14. /\ Tree(w, n, l3, p3) /\ w.free = m3.free
       /\ w.mem[c][offset(4, v)] = p
       /\ \A f \in Frame, j \in Index : f # c \/ j # offset(4, v) => w.mem[f][j] = m3.mem[f][j]
  <2>1. Direct(p) = F * p3[c] + offset(4, v)
    BY <1>3, <1>13 DEF v
  <2>2. QED
    BY <1>3, <1>13, <2>1, TreeLeaf
<1> HIDE DEF w
<1>15. w \in MemRec /\ w.free <= m.free + 3
  <2>1. w \in MemRec /\ m3.free \in Nat
    BY <1>13, <1>14 DEF Tree, MemRec
  <2>2. m1.free <= m.free + 1 /\ m2.free <= m1.free + 1 /\ m3.free <= m2.free + 1 /\ w.free = m3.free
    BY <1>7, <1>9, <1>13, <1>14
  <2>3. QED
    BY <1>5, <1>10, <2>1, <2>2
<1>16. ASSUME n = p PROVE Tree(w, n + 1, l3, p3)
  <2>1. ASSUME NEW f \in Frame, NEW j \in Index, l3[f] = 4, w.mem[f][j] # None
        PROVE  \/ Direct(w.mem[f][j]) = F * p3[f] + j
               \/ f = PT /\ j \in {0, 1} /\ n + 1 <= KERNEL + j
    <3>1. CASE f = c /\ j = offset(4, v)
      BY <1>3, <1>13, <1>14, <3>1 DEF v
    <3>2. CASE ~ (f = c /\ j = offset(4, v))
      <4>1. \/ Direct(w.mem[f][j]) = F * p3[f] + j
            \/ f = PT /\ j \in {0, 1} /\ n <= KERNEL + j
        BY <1>14, <2>1 DEF Tree
      <4>2. ASSUME f = PT, j \in {0, 1}, n <= KERNEL + j
            PROVE  n + 1 <= KERNEL + j
        <5>1. KERNEL \in Nat
          BY Basics, BootTablesAssumption DEF F
        <5>2. n # KERNEL + j
          <6>1. SUFFICES ASSUME n = KERNEL + j PROVE FALSE
            OBVIOUS
          <6>2. p \in KERNEL .. KERNEL + 1
            BY <1>16, <4>2, <5>1, <6>1
          <6>3. f = c
            BY <1>12, <4>2, <6>2
          <6>4. offset(4, v) \in Nat
            BY <1>3, Basics
          <6>5. j = offset(4, v)
            BY <1>4, <1>16, <4>2, <5>1, <6>1, <6>2, <6>4
          <6>6. QED
            BY <3>2, <6>3, <6>5
        <5>3. QED
          BY <4>2, <5>1, <5>2
      <4>3. QED
        BY <4>1, <4>2
    <3>3. QED
      BY <3>1, <3>2
  <2>2. QED
    BY <1>14, <2>1 DEF Tree
<1>17. (\E lev1, pre1 : Tree(w, n, lev1, pre1)) /\ (n = p => \E lev1, pre1 : Tree(w, n + 1, lev1, pre1))
  BY <1>14, <1>16
<1>18. QED
  BY <1>1, <1>15, <1>17 DEF v
\* Why NothingElseMapped holds.
TreeInv ==
    dirt = Clear /\ stage # "kernel" =>
        Room /\ \E lev, pre : Tree(Memory, pstart, lev, pre)

\* The four tables are a tree.
LEMMA TreeFour ==
    ASSUME Course, map_kernel_space, dirt = Clear
    PROVE  \E lev, pre : Tree(Memory', 0, lev, pre)
<1> DEFINE A == F - 1
           B == F * (F - 1) + (F - 2)
           C == F * B + 1
           lev == [f \in Frame |-> IF f = PML4 THEN 1 ELSE IF f = PDPT THEN 2
                                   ELSE IF f = PDT THEN 3 ELSE IF f = PT THEN 4 ELSE 0]
           pre == [f \in Frame |-> IF f = PDPT THEN A ELSE IF f = PDT THEN B
                                   ELSE IF f = PT THEN C ELSE 0]
<1>1. /\ Memory' \in MemRec /\ free' = FREELIST + 5
      /\ mem'[PML4] = [Fresh(PML4) EXCEPT ![F - 1] = PDPT]
      /\ mem'[PDPT] = [Fresh(PDPT) EXCEPT ![F - 2] = PDT]
      /\ mem'[PDT] = [Fresh(PDT) EXCEPT ![1] = PT]
      /\ mem'[PT] = [Fresh(PT) EXCEPT ![0] = FREELIST, ![1] = FREELIST + 1]
      /\ \A f \in Frame \ {PML4, PDPT, PDT, PT} : mem'[f] = mem[f]
      /\ \A f \in Frame : Fresh(f) \in [Index -> Frame \cup {None}]
  BY FourTables
<1>2. \A f \in Frame, i \in Index : mem[f][i] = None /\ Fresh(f)[i] = None
  BY DEF map_kernel_space, Course, Fresh, Clear
<1>3. {PML4, PDPT, PDT, PT} \subseteq Frame /\ {0, 1, F - 1, F - 2} \subseteq Index
  BY Basics
<1>4. PML4 # PDPT /\ PML4 # PDT /\ PML4 # PT /\ PDPT # PDT /\ PDPT # PT /\ PDT # PT
  BY Basics DEF PML4, PDPT, PDT, PT
<1>5. \A j \in Index :
         /\ mem'[PML4][j] = IF j = F - 1 THEN PDPT ELSE None
         /\ mem'[PDPT][j] = IF j = F - 2 THEN PDT ELSE None
         /\ mem'[PDT][j] = IF j = 1 THEN PT ELSE None
         /\ j \notin {0, 1} => mem'[PT][j] = None
  BY <1>1, <1>2, <1>3
<1>6. \A f \in Frame \ {PML4, PDPT, PDT, PT}, j \in Index : mem'[f][j] = None
  BY <1>1, <1>2
<1>7. F \in Nat /\ A \in Nat /\ B \in Nat /\ C \in Nat
  <2>1. F \in Nat /\ F >= 4
    BY Basics
  <2>2. A \in Nat /\ F - 2 \in Nat
    BY <2>1
  <2>3. B \in Nat
    BY <2>1, <2>2
  <2> HIDE DEF B, A
  <2>4. C \in Nat
    BY <2>1, <2>3
  <2>5. QED
    BY <2>1, <2>2, <2>3, <2>4
<1> DEFINE m == Memory'
<1>8. m \in MemRec /\ m.mem = mem' /\ m.free = free'
  BY <1>1 DEF Memory
<1>9. m.free > PT /\ PT \in Nat /\ free' = PT + 1
  BY <1>1, <1>8, Basics DEF PT
<1>10. /\ lev \in [Frame -> 0 .. 4] /\ lev[PML4] = 1 /\ lev[PDPT] = 2 /\ lev[PDT] = 3 /\ lev[PT] = 4
       /\ \A f \in Frame \ {PML4, PDPT, PDT, PT} : lev[f] = 0
  BY <1>3, <1>4
<1> HIDE DEF A, B, C
<1>11. /\ pre \in [Frame -> Nat] /\ pre[PML4] = 0 /\ pre[PDPT] = A /\ pre[PDT] = B /\ pre[PT] = C
  BY <1>3, <1>4, <1>7
<1> HIDE DEF m, lev, pre
<1>12. ASSUME NEW f \in Frame, f >= m.free
       PROVE  lev[f] = 0 /\ \A j \in Index : m.mem[f][j] = None
  <2>1. f \notin {PML4, PDPT, PDT, PT}
    BY <1>8, <1>9, <1>12, Basics DEF PML4, PDPT, PDT, PT
  <2>2. QED
    BY <1>6, <1>8, <1>10, <2>1
<1>13. ASSUME NEW f \in Frame, NEW j \in Index, lev[f] \in 1 .. 3, m.mem[f][j] # None
       PROVE  lev[m.mem[f][j]] = lev[f] + 1 /\ pre[m.mem[f][j]] = F * pre[f] + j
  <2>1. f = PML4 \/ f = PDPT \/ f = PDT
    BY <1>10, <1>13
  <2>2. CASE f = PML4
    <3>1. m.mem[f][j] = PDPT /\ j = F - 1
      BY <1>5, <1>8, <1>13, <2>2
    <3>2. A = F * 0 + (F - 1)
      BY <1>7 DEF A
    <3>3. QED
      BY <1>10, <1>11, <2>2, <3>1, <3>2
  <2>3. CASE f = PDPT
    <3>1. m.mem[f][j] = PDT /\ j = F - 2
      BY <1>5, <1>8, <1>13, <2>3
    <3>2. B = F * A + (F - 2)
      BY DEF A, B
    <3>3. QED
      BY <1>10, <1>11, <2>3, <3>1, <3>2
  <2>4. CASE f = PDT
    <3>1. m.mem[f][j] = PT /\ j = 1
      BY <1>5, <1>8, <1>13, <2>4
    <3>2. C = F * B + 1
      BY DEF C
    <3>3. QED
      BY <1>10, <1>11, <2>4, <3>1, <3>2
  <2>5. QED
    BY <2>1, <2>2, <2>3, <2>4
<1>14. ASSUME NEW f \in Frame, NEW j \in Index, lev[f] = 4, m.mem[f][j] # None
       PROVE  f = PT /\ j \in {0, 1} /\ 0 <= KERNEL + j
  <2>1. f = PT
    BY <1>10, <1>14
  <2>2. j \in {0, 1}
    BY <1>5, <1>8, <1>14, <2>1
  <2>3. KERNEL \in Nat
    BY Basics, BootTablesAssumption DEF F
  <2>4. QED
    BY <2>1, <2>2, <2>3
<1>15. m.mem[PML4][F - 1] = PDPT /\ m.mem[PDPT][F - 2] = PDT /\ m.mem[PDT][1] = PT
  BY <1>3, <1>5, <1>8
<1>16. pre[PDT] = F * (F - 1) + (F - 2)
  BY <1>11 DEF B
<1>17. Tree(m, 0, lev, pre)
  BY <1>8, <1>9, <1>10, <1>11, <1>12, <1>13, <1>14, <1>15, <1>16 DEF Tree
<1>18. QED
  BY <1>17 DEF m

\* The table of the video buffer is one of the tree.
LEMMA TreeVideo ==
    ASSUME Course, map_video_memory, free \in Frame, NEW lev, NEW pre, Tree(Memory, 0, lev, pre)
    PROVE  \E lev1, pre1 : Tree(Memory', 0, lev1, pre1)
<1> DEFINE lev1 == [lev EXCEPT ![free] = 4]
           B == F * pre[PDT]
           pre1 == [pre EXCEPT ![free] = B]
           m == Memory'
<1>1. Memory \in MemRec /\ free \in Nat /\ free > PT
  BY DEF Tree, Memory, MemRec
<1>2. /\ m \in MemRec /\ free' = free + 1
      /\ mem'[PDT][0] = free
      /\ \A i \in Index \ {0} : mem'[PDT][i] = mem[PDT][i]
      /\ mem'[free][VIDEO] = VIDEO
      /\ \A i \in Index \ {VIDEO} : mem'[free][i] = mem[free][i]
      /\ \A f \in Frame \ {PDT, free} : mem'[f] = mem[f]
  BY <1>1, VideoTable
<1>3. m.mem = mem' /\ m.free = free'
  BY DEF Memory
<1> HIDE DEF m
<1>4. /\ {PML4, PDPT, PDT, PT} \subseteq Frame \ {free}
      /\ PDT # PML4 /\ PDT # PDPT /\ PDT # PT /\ PT \in Nat /\ {0, 1, F - 1, F - 2} \subseteq Index
  <2>1. {PML4, PDPT, PDT, PT} \subseteq Frame /\ FREELIST \in Nat /\ {0, 1, F - 1, F - 2} \subseteq Index
    BY Basics
  <2>2. QED
    BY <1>1, <2>1 DEF PML4, PDPT, PDT, PT
<1>5. lev[free] = 0 /\ \A j \in Index : mem[free][j] = None
  BY <1>1 DEF Tree, Memory
<1>6. B \in Nat
  <2>1. F \in Nat /\ pre[PDT] \in Nat
    BY <1>4, Basics DEF Tree
  <2>2. QED
    BY <2>1
<1>7. /\ lev1 \in [Frame -> 0 .. 4] /\ lev1[free] = 4
      /\ \A f \in Frame \ {free} : lev1[f] = lev[f]
  BY DEF Tree
<1>8. Direct(VIDEO) = F * B + VIDEO
  <2>1. VIDEO \in 0 .. F * F - 1
    BY OwnPages
  <2>2. VIDEO \div F = 0 /\ VIDEO % F = VIDEO
    <3>1. VIDEO \in 0 .. F - 1 /\ F \in Nat \ {0}
      BY Basics, BootTablesAssumption DEF F
    <3>2. QED
      BY <3>1
  <2>3. /\ offset(1, Direct(VIDEO)) = F - 1 /\ offset(2, Direct(VIDEO)) = F - 2
        /\ offset(3, Direct(VIDEO)) = 0 /\ offset(4, Direct(VIDEO)) = VIDEO
    BY <2>1, <2>2, FirstPages
  <2>4. Direct(VIDEO) \in 0 .. PAGES - 1
    BY <2>1, DirectPage
  <2> DEFINE v == Direct(VIDEO)
  <2> HIDE DEF v
  <2>5. /\ v \div F = F * (F * offset(1, v) + offset(2, v)) + offset(3, v)
        /\ v = F * (v \div F) + offset(4, v)
    BY <2>4, Digits DEF v
  <2>6. B = F * (F * (F - 1) + (F - 2)) + 0
    <3>1. B = F * (F * (F - 1) + (F - 2))
      BY DEF Tree
    <3>2. QED
      BY <1>6, <3>1
  <2>7. v \div F = B
    BY <2>3, <2>5, <2>6, Zenon DEF v
  <2>8. QED
    BY <2>3, <2>5, <2>7, Zenon DEF v
<1> HIDE DEF B, lev1
<1>9. /\ pre1 \in [Frame -> Nat] /\ pre1[free] = B
      /\ \A f \in Frame \ {free} : pre1[f] = pre[f]
  BY <1>6 DEF Tree
<1> HIDE DEF pre1
<1>10. ASSUME NEW f \in Frame, NEW j \in Index, lev[f] \in 1 .. 3, mem[f][j] # None
       PROVE  /\ mem[f][j] \in Frame \ {free}
              /\ lev[mem[f][j]] = lev[f] + 1 /\ pre[mem[f][j]] = F * pre[f] + j
  <2>1. lev[mem[f][j]] = lev[f] + 1 /\ pre[mem[f][j]] = F * pre[f] + j
    BY <1>10 DEF Tree, Memory
  <2>2. mem[f][j] \in Frame
    BY <1>1, <1>10 DEF Memory, MemRec, Mem
  <2>3. lev[f] + 1 # 0
    BY <1>10
  <2>4. QED
    BY <1>5, <2>1, <2>2, <2>3
<1>11. ASSUME NEW f \in Frame, f >= m.free
       PROVE  lev1[f] = 0 /\ \A j \in Index : m.mem[f][j] = None
  <2>1. f >= free /\ f # free /\ f > PT
    BY <1>1, <1>2, <1>3, <1>4, <1>11, Basics
  <2>2. f # PDT
    BY <2>1, Basics DEF PDT, PT
  <2>3. lev[f] = 0 /\ \A j \in Index : mem[f][j] = None
    BY <2>1 DEF Tree, Memory
  <2>4. QED
    BY <1>2, <1>3, <1>7, <2>1, <2>2, <2>3
<1>12. ASSUME NEW f \in Frame, NEW j \in Index, lev1[f] \in 1 .. 3, m.mem[f][j] # None
       PROVE  lev1[m.mem[f][j]] = lev1[f] + 1 /\ pre1[m.mem[f][j]] = F * pre1[f] + j
  <2>1. f # free /\ lev1[f] = lev[f] /\ pre1[f] = pre[f]
    BY <1>7, <1>9, <1>12
  <2>2. CASE f = PDT /\ j = 0
    <3>1. m.mem[f][j] = free /\ lev[f] = 3
      BY <1>2, <1>3, <2>2 DEF Tree
    <3>2. B = F * pre[PDT] + 0
      BY <1>6 DEF B
    <3>3. QED
      BY <1>7, <1>9, <2>1, <2>2, <3>1, <3>2
  <2>3. CASE ~ (f = PDT /\ j = 0)
    <3>1. m.mem[f][j] = mem[f][j]
      BY <1>2, <1>3, <2>1, <2>3
    <3>2. /\ mem[f][j] \in Frame \ {free}
          /\ lev[mem[f][j]] = lev[f] + 1 /\ pre[mem[f][j]] = F * pre[f] + j
      BY <1>10, <1>12, <2>1, <3>1
    <3>3. QED
      BY <1>7, <1>9, <2>1, <3>1, <3>2
  <2>4. QED
    BY <2>2, <2>3
<1>13. ASSUME NEW f \in Frame, NEW j \in Index, lev1[f] = 4, m.mem[f][j] # None
       PROVE  \/ Direct(m.mem[f][j]) = F * pre1[f] + j
              \/ f = PT /\ j \in {0, 1} /\ 0 <= KERNEL + j
  <2>1. CASE f = free
    <3>1. j = VIDEO /\ m.mem[f][j] = VIDEO
      BY <1>2, <1>3, <1>5, <1>13, <2>1
    <3>2. QED
      BY <1>8, <1>9, <2>1, <3>1
  <2>2. CASE f # free
    <3>1. lev[f] = 4 /\ pre1[f] = pre[f]
      BY <1>7, <1>9, <1>13, <2>2
    <3>2. f # PDT
      BY <3>1 DEF Tree
    <3>3. m.mem[f][j] = mem[f][j]
      BY <1>2, <1>3, <2>2, <3>2
    <3>4. QED
      BY <1>13, <3>1, <3>3 DEF Tree, Memory
  <2>3. QED
    BY <2>1, <2>2
<1>14. m.mem[PML4][F - 1] = PDPT /\ m.mem[PDPT][F - 2] = PDT /\ m.mem[PDT][1] = PT
  <2>1. mem[PML4][F - 1] = PDPT /\ mem[PDPT][F - 2] = PDT /\ mem[PDT][1] = PT
    BY DEF Tree, Memory
  <2>2. QED
    BY <1>2, <1>3, <1>4, <2>1
<1>15. /\ lev1[PML4] = 1 /\ lev1[PDPT] = 2 /\ lev1[PDT] = 3 /\ lev1[PT] = 4
       /\ pre1[PML4] = 0 /\ pre1[PDT] = F * (F - 1) + (F - 2)
  BY <1>4, <1>7, <1>9 DEF Tree
<1>16. m.free > PT
  BY <1>1, <1>2, <1>3, <1>4
<1>17. Tree(m, 0, lev1, pre1)
  BY <1>2, <1>7, <1>9, <1>11, <1>12, <1>13, <1>14, <1>15, <1>16 DEF Tree
<1>18. QED
  BY <1>17 DEF m

\* Each call keeps the tree, or establishes it.
LEMMA TreeNext ==
    ASSUME Course, TreeInv, [Next]_vars, dirt = Clear, stage' # "kernel"
    PROVE  Room' /\ \E lev, pre : Tree(Memory', pstart', lev, pre)
<1>1. CASE map_kernel_space
  <2>1. free' = FREELIST + 5 /\ \E lev, pre : Tree(Memory', 0, lev, pre)
    BY <1>1, FourTables, TreeFour
  <2>2. pstart' = 0 /\ stage' = "freelist"
    BY <1>1 DEF map_kernel_space, Course
  <2>3. QED
    BY <2>1, <2>2 DEF Room
<1>2. ASSUME stage # "kernel" PROVE Room /\ \E lev, pre : Tree(Memory, pstart, lev, pre)
  BY <1>2 DEF TreeInv
<1>3. \A m : SetMemory(m) /\ m \in MemRec => Memory' = m /\ free' = m.free
  BY DEF SetMemory, Memory, MemRec
<1>4. CASE map_freelist
  <2>1. free = FREELIST + 5 /\ pstart = 0 /\ tables.pml4 = PML4
    BY <1>2, <1>4 DEF map_freelist, Course, Room, Own
  <2>2. PICK lev, pre : Tree(Memory, 0, lev, pre)
    BY <1>2, <1>4, <2>1 DEF map_freelist
  <2>3. Memory.free + 3 <= FRAMES /\ Memory.free = free
    BY <2>1, Basics DEF Memory
  <2> DEFINE w == map_vir_phy(Memory, Direct(FREELIST), FREELIST)
  <2>4. (\E lev1, pre1 : Tree(w, 0, lev1, pre1)) /\ w \in MemRec /\ w.free <= Memory.free + 3
    BY <2>1, <2>2, <2>3, OwnPages, TreeMap
  <2>5. SetMemory(w) /\ stage' = "video" /\ pstart' = 0
    BY <1>4, <2>1 DEF map_freelist
  <2> HIDE DEF w
  <2>6. Memory' = w /\ free' = w.free /\ w.free \in Nat
    BY <1>3, <2>4, <2>5 DEF MemRec
  <2>7. Room'
    BY <2>1, <2>3, <2>4, <2>5, <2>6, Basics DEF Room
  <2>8. QED
    BY <2>4, <2>5, <2>6, <2>7
<1>5. CASE map_video_memory
  <2>1. free <= FREELIST + 8 /\ pstart = 0
    BY <1>2, <1>5 DEF map_video_memory, Course, Room
  <2>2. PICK lev, pre : Tree(Memory, 0, lev, pre)
    BY <1>2, <1>5, <2>1 DEF map_video_memory
  <2>3. free \in Frame /\ free \in Nat
    BY <2>1, <2>2, Basics DEF Tree, MemRec, Memory
  <2>4. \E lev1, pre1 : Tree(Memory', 0, lev1, pre1)
    BY <1>5, <2>2, <2>3, TreeVideo
  <2>5. free' = free + 1 /\ stage' = "tables" /\ pstart' = 0
    BY <1>5, <2>1 DEF map_video_memory
  <2>6. Room'
    BY <2>1, <2>3, <2>5, Basics DEF Room
  <2>7. QED
    BY <2>4, <2>5, <2>6
<1>6. CASE map_tables
  <2>1. free <= FREELIST + 9 /\ pstart = 0 /\ tables = Own
    BY <1>2, <1>6 DEF map_tables, Course, Room
  <2>2. tables.pml4 = PML4 /\ tables.pdpt = PDPT /\ tables.pdt = PDT /\ tables.pt = PT
    BY <2>1 DEF Own
  <2> DEFINE Grown(m, k) == /\ \E lev, pre : Tree(m, 0, lev, pre)
                            /\ m \in MemRec /\ m.free <= FREELIST + k
             m1 == map_vir_phy(Memory, Direct(PML4), PML4)
             m2 == map_vir_phy(m1, Direct(PDPT), PDPT)
             m3 == map_vir_phy(m2, Direct(PDT), PDT)
             m4 == map_vir_phy(m3, Direct(PT), PT)
  <2>3. SetMemory(m4) /\ stage' = "identity" /\ pstart' = 0
    BY <1>6, <2>1, <2>2 DEF map_tables
  <2>4. ASSUME NEW m, NEW k \in 9 .. 18, Grown(m, k), NEW p \in {PML4, PDPT, PDT, PT}
        PROVE  Grown(map_vir_phy(m, Direct(p), p), k + 3)
    <3>1. p \in Frame /\ FREELIST + 21 <= FRAMES /\ FREELIST \in Nat /\ FRAMES \in Nat
      BY OwnPages, Basics
    <3>2. PICK lev, pre : Tree(m, 0, lev, pre)
      BY <2>4
    <3>3. m.free + 3 <= FRAMES /\ m.free \in Nat
      BY <2>4, <3>1 DEF MemRec
    <3> DEFINE w == map_vir_phy(m, Direct(p), p)
    <3>4. (\E lev1, pre1 : Tree(w, 0, lev1, pre1)) /\ w \in MemRec /\ w.free <= m.free + 3
      BY <2>2, <3>1, <3>2, <3>3, TreeMap
    <3> HIDE DEF w
    <3>5. w.free <= FREELIST + (k + 3)
      BY <2>4, <3>1, <3>3, <3>4 DEF MemRec
    <3>6. QED
      BY <3>4, <3>5 DEF w
  <2>5. Grown(Memory, 9)
    <3>1. \E lev, pre : Tree(Memory, 0, lev, pre)
      BY <1>2, <1>6, <2>1 DEF map_tables
    <3>2. QED
      BY <2>1, <3>1 DEF Tree, Memory
  <2> HIDE DEF Grown
  <2>6. Grown(m1, 12)
    <3>1. 9 \in 9 .. 18 /\ 9 + 3 = 12
      OBVIOUS
    <3>2. QED
      BY <2>4, <2>5, <3>1
  <2> HIDE DEF m1
  <2>7. Grown(m2, 15)
    <3>1. 12 \in 9 .. 18 /\ 12 + 3 = 15
      OBVIOUS
    <3>2. QED
      BY <2>4, <2>6, <3>1
  <2> HIDE DEF m2
  <2>8. Grown(m3, 18)
    <3>1. 15 \in 9 .. 18 /\ 15 + 3 = 18
      OBVIOUS
    <3>2. QED
      BY <2>4, <2>7, <3>1
  <2> HIDE DEF m3
  <2>9. Grown(m4, 21)
    <3>1. 18 \in 9 .. 18 /\ 18 + 3 = 21
      OBVIOUS
    <3>2. QED
      BY <2>4, <2>8, <3>1
  <2> HIDE DEF m4
  <2>10. Memory' = m4
    BY <1>3, <2>3, <2>9 DEF Grown
  <2>11. Room'
    BY <2>3 DEF Room
  <2>12. QED
    BY <2>3, <2>9, <2>10, <2>11 DEF Grown
<1>7. CASE identity_mapping
  <2>1. pstart \in 0 .. max /\ free + 3 <= FRAMES /\ tables.pml4 = PML4 /\ max \in FREELIST .. FRAMES - 1
    BY <1>7, Basics DEF identity_mapping, Course, Own
  <2>2. pstart \in Nat /\ pstart \in Frame
    BY <2>1, Basics
  <2>3. PICK lev, pre : Tree(Memory, pstart, lev, pre)
    BY <1>2, <1>7 DEF identity_mapping
  <2>4. Memory.free + 3 <= FRAMES
    BY <2>1 DEF Memory
  <2> DEFINE w == map_vir_phy(Memory, Direct(pstart), pstart)
  <2>5. w \in MemRec /\ \E lev1, pre1 : Tree(w, pstart + 1, lev1, pre1)
    BY <2>1, <2>2, <2>3, <2>4, TreeMap
  <2>6. SetMemory(w) /\ stage' = "identity" /\ pstart' = pstart + 1
    BY <1>7 DEF identity_mapping
  <2> HIDE DEF w
  <2>7. Memory' = w
    BY <1>3, <2>5, <2>6
  <2>8. Room'
    BY <2>6 DEF Room
  <2>9. QED
    BY <2>5, <2>6, <2>7, <2>8
<1>8. CASE Loaded
  <2>1. Memory' = Memory /\ pstart' = pstart /\ stage' = "done"
    BY <1>8 DEF Loaded, Memory
  <2>2. Room'
    BY <2>1 DEF Room
  <2>3. QED
    BY <1>2, <1>8, <2>1, <2>2 DEF Loaded
<1>9. CASE UNCHANGED vars
  <2>1. Memory' = Memory /\ pstart' = pstart /\ stage' = stage /\ (Room => Room')
    BY <1>9 DEF vars, Memory, Room
  <2>2. QED
    BY <1>2, <2>1
<1>10. QED
  BY <1>1, <1>4, <1>5, <1>6, <1>7, <1>8, <1>9 DEF Next

\* The processor's walk of the tree, when both entries are repaired.
LEMMA TreeWalk ==
    ASSUME NEW n \in Nat, n >= KERNEL + 2, NEW lev, NEW pre, Tree(Memory, n, lev, pre),
           tables.pml4 = PML4, NEW v \in 0 .. PAGES - 1, Walk(v) # None
    PROVE  Direct(Walk(v)) = v
<1> DEFINE a == mem[PML4][offset(1, v)]
           b == mem[a][offset(2, v)]
           c == mem[b][offset(3, v)]
           p == mem[c][offset(4, v)]
<1>1. /\ offset(1, v) \in Index /\ offset(2, v) \in Index
      /\ offset(3, v) \in Index /\ offset(4, v) \in Index
  BY Digits
<1>2. v = F * (F * (F * offset(1, v) + offset(2, v)) + offset(3, v)) + offset(4, v)
  <2>1. /\ v \div F = F * (F * offset(1, v) + offset(2, v)) + offset(3, v)
        /\ v = F * (v \div F) + offset(4, v)
    BY Digits
  <2>2. QED
    BY <2>1, Zenon
<1>3. PML4 # None /\ PML4 \in Frame
  BY Basics
<1>4. a # None /\ b # None /\ c # None /\ p # None /\ Walk(v) = p
  BY <1>3 DEF Walk
<1>5. mem \in Mem
  BY DEF Tree, Memory, MemRec
<1>6. ASSUME NEW f \in Frame, NEW j \in Index, lev[f] \in 1 .. 3, mem[f][j] # None
      PROVE  /\ mem[f][j] \in Frame
             /\ lev[mem[f][j]] = lev[f] + 1 /\ pre[mem[f][j]] = F * pre[f] + j
  <2>1. mem[f][j] \in Frame
    BY <1>5, <1>6 DEF Mem
  <2>2. QED
    BY <1>6, <2>1 DEF Tree, Memory
<1>7. a \in Frame /\ lev[a] = 2 /\ pre[a] = offset(1, v)
  <2>1. lev[PML4] = 1 /\ pre[PML4] = 0 /\ offset(1, v) \in Nat /\ F \in Nat
    BY <1>1, Basics DEF Tree
  <2>2. a \in Frame /\ lev[a] = lev[PML4] + 1 /\ pre[a] = F * pre[PML4] + offset(1, v)
    BY <1>1, <1>3, <1>4, <1>6, <2>1
  <2>3. QED
    BY <2>1, <2>2
<1> HIDE DEF a
<1>8. b \in Frame /\ lev[b] = 3 /\ pre[b] = F * offset(1, v) + offset(2, v)
  <2>1. lev[a] \in 1 .. 3
    BY <1>7
  <2>2. b \in Frame /\ lev[b] = lev[a] + 1 /\ pre[b] = F * pre[a] + offset(2, v)
    BY <1>1, <1>4, <1>6, <1>7, <2>1
  <2>3. QED
    BY <1>7, <2>2
<1> HIDE DEF b
<1>9. c \in Frame /\ lev[c] = 4 /\ pre[c] = F * (F * offset(1, v) + offset(2, v)) + offset(3, v)
  <2>1. lev[b] \in 1 .. 3
    BY <1>8
  <2>2. c \in Frame /\ lev[c] = lev[b] + 1 /\ pre[c] = F * pre[b] + offset(3, v)
    BY <1>1, <1>4, <1>6, <1>8, <2>1
  <2>3. QED
    BY <1>8, <2>2
<1> HIDE DEF c
<1>10. \/ Direct(p) = F * pre[c] + offset(4, v)
       \/ offset(4, v) \in {0, 1} /\ n <= KERNEL + offset(4, v)
  BY <1>1, <1>4, <1>9 DEF Tree, Memory
<1>11. ~ (offset(4, v) \in {0, 1} /\ n <= KERNEL + offset(4, v))
  <2>1. KERNEL \in Nat
    BY Basics, BootTablesAssumption DEF F
  <2>2. QED
    BY <2>1
<1>12. QED
  BY <1>2, <1>4, <1>9, <1>10, <1>11

\* Nothing but the direct map is there when cr3 is loaded, for tables of any
\* size, wherever the memory ends: with more than 2 GB the pages above lose
\* their high bits in VIRTUAL|p and land on others, which are direct all the same.
THEOREM OnlyDirect == Spec => []NothingElseMapped
<1>1. Init => TreeInv
  BY DEF Init, TreeInv
<1>2. Course /\ TreeInv /\ [Next]_vars => TreeInv'
  <2> SUFFICES ASSUME Course, TreeInv, [Next]_vars, dirt' = Clear', stage' # "kernel"
               PROVE  Room' /\ \E lev, pre : Tree(Memory', pstart', lev, pre)
    BY DEF TreeInv
  <2>1. dirt' = dirt /\ Clear' = Clear
    BY DEF Clear, Next, vars, map_kernel_space, map_freelist, map_video_memory, map_tables,
           identity_mapping, Loaded
  <2>2. QED
    BY <2>1, TreeNext
<1>3. Course /\ TreeInv => NothingElseMapped
  <2> SUFFICES ASSUME Course, TreeInv, stage = "done", dirt = Clear,
                      NEW v \in 0 .. PAGES - 1, Walk(v) # None
               PROVE  Direct(Walk(v)) = v
    BY DEF NothingElseMapped
  <2>1. pstart \in Nat /\ pstart >= KERNEL + 2
    BY Basics, BootTablesAssumption DEF Course, F
  <2>2. tables.pml4 = PML4
    BY DEF Course, Own
  <2>3. PICK lev, pre : Tree(Memory, pstart, lev, pre)
    BY DEF TreeInv
  <2>4. QED
    BY <2>1, <2>2, <2>3, TreeWalk
<1>4. QED
  BY <1>1, <1>2, <1>3, CourseKept, PTL DEF Spec

\* The kernel is mapped where it is linked when cr3 is loaded.
THEOREM KernelStays == Spec => [](max < CLEARED * FANOUT => KernelMapped)
<1>1. Course /\ DirectMapRight => (max < CLEARED * FANOUT => KernelMapped)
  <2> SUFFICES ASSUME Course, DirectMapRight, max < CLEARED * FANOUT, stage = "done",
                      NEW p \in KERNEL .. FREELIST
               PROVE  Walk(Direct(p)) = p
    BY DEF KernelMapped
  <2>1. p \in 0 .. pstart - 1
    BY Basics, BootTablesAssumption DEF Course, F
  <2>2. QED
    BY <2>1 DEF DirectMapRight
<1>2. QED
  BY <1>1, CourseKept, DirectMap, PTL

-----------------------------------------------------------------------------
(* Types, whatever the memory held.                                        *)

\* A table is there or is made, even where a stale entry leads to its frame.
LEMMA TableTypes ==
    ASSUME NEW m \in MemRec, m.free \in Frame, NEW t \in Frame, NEW i \in Index
    PROVE  LET n == Table(m, t, i)
           IN  n \in MemRec /\ n.free <= m.free + 1 /\ n.mem[t][i] \in Frame
<1>1. m.mem \in Mem /\ m.free \in Nat
  BY DEF MemRec
<1>2. CASE m.mem[t][i] # None
  <2>1. Table(m, t, i) = m /\ m.mem[t][i] \in Frame
    BY <1>2, TableThere
  <2>2. m.free <= m.free + 1
    BY <1>1
  <2>3. QED
    BY <2>1, <2>2
<1>3. CASE m.mem[t][i] = None
  <2> DEFINE empty == [j \in Index |-> None]
             x == [m.mem EXCEPT ![m.free] = empty]
             w == [x EXCEPT ![t][i] = m.free]
             n == Table(m, t, i)
  <2>1. n = [mem |-> w, free |-> m.free + 1]
    BY <1>3 DEF Table
  <2>2. empty \in [Index -> Frame \cup {None}]
    OBVIOUS
  <2> HIDE DEF empty
  <2>3. x \in Mem
    BY <1>1, <2>2 DEF Mem
  <2> HIDE DEF x
  <2>4. w \in Mem /\ w[t][i] = m.free
    BY <2>3 DEF Mem
  <2> HIDE DEF w
  <2>5. n \in MemRec /\ n.mem = w /\ n.free = m.free + 1
    BY <1>1, <2>1, <2>4 DEF MemRec
  <2> HIDE DEF n
  <2>6. n.free <= m.free + 1 /\ n.mem[t][i] \in Frame
    BY <1>1, <2>4, <2>5
  <2>7. QED
    BY <2>5, <2>6 DEF n
<1>4. QED
  BY <1>2, <1>3

\* map_vir_phy takes three frames at most.
LEMMA MapTypes ==
    ASSUME NEW m \in MemRec, m.free + 3 <= FRAMES, NEW p \in Frame, tables.pml4 \in Frame
    PROVE  LET w == map_vir_phy(m, Direct(p), p)
           IN  w \in MemRec /\ w.free <= m.free + 3
<1> DEFINE v == Direct(p)
           t == tables.pml4
           m1 == Table(m, t, offset(1, v))
           a == m1.mem[t][offset(1, v)]
           m2 == Table(m1, a, offset(2, v))
           b == m2.mem[a][offset(2, v)]
           m3 == Table(m2, b, offset(3, v))
           c == m3.mem[b][offset(3, v)]
           w == SetEntry(m3, c, offset(4, v), p)
<1>1. map_vir_phy(m, v, p) = w
  BY DEF map_vir_phy
<1>2. \A l \in 1 .. 4 : offset(l, v) \in Index
  <2>1. p \in Nat
    BY Basics
  <2>2. v \in 0 .. PAGES - 1
    BY <2>1, DirectPage
  <2> HIDE DEF v
  <2>3. QED
    BY <2>2, Digits
<1> HIDE DEF v
<1>3. \A k \in MemRec : k.free \in Nat /\ (k.free < FRAMES => k.free \in Frame)
  BY Basics DEF MemRec
<1>4. FRAMES \in Nat
  BY Basics
<1>5. m1 \in MemRec /\ m1.free <= m.free + 1 /\ a \in Frame
  <2>1. m.free \in Frame
    BY <1>3, <1>4
  <2>2. offset(1, v) \in Index
    BY <1>2
  <2>3. QED
    BY <2>1, <2>2, TableTypes
<1> HIDE DEF m1, a
<1>6. m2 \in MemRec /\ m2.free <= m1.free + 1 /\ b \in Frame
  <2>1. m1.free \in Frame
    BY <1>3, <1>4, <1>5
  <2>2. offset(2, v) \in Index
    BY <1>2
  <2>3. QED
    BY <1>5, <2>1, <2>2, TableTypes
<1> HIDE DEF m2, b
<1>7. m3 \in MemRec /\ m3.free <= m2.free + 1 /\ c \in Frame
  <2>1. m2.free \in Frame
    BY <1>3, <1>4, <1>5, <1>6
  <2>2. offset(3, v) \in Index
    BY <1>2
  <2>3. QED
    BY <1>6, <2>1, <2>2, TableTypes
<1> HIDE DEF m3, c
<1>8. w \in MemRec /\ w.free = m3.free
  <2>1. offset(4, v) \in Index
    BY <1>2
  <2>2. QED
    BY <1>7, <2>1, Put
<1> HIDE DEF w
<1>9. w.free <= m.free + 3
  BY <1>3, <1>5, <1>6, <1>7, <1>8
<1>10. QED
  BY <1>1, <1>8, <1>9 DEF v

\* The tables and the frames of the machine are enough for the calls before
\* identity_mapping, and a table's entry is a frame.
THEOREM Types == Spec => []TypeOK
<1> DEFINE TInv == Memory \in MemRec /\ free <= FRAMES /\ Room
<1>1. Init => TInv
  <2> SUFFICES ASSUME Init PROVE TInv
    OBVIOUS
  <2>1. mem \in Mem /\ free = FREELIST + 1
    BY BootTablesAssumption DEF Init, Mem
  <2>2. Memory \in MemRec /\ free <= FRAMES
    BY <2>1, Basics DEF Memory, MemRec
  <2>3. Room
    BY DEF Init, Room
  <2>4. QED
    BY <2>2, <2>3
<1>2. Course /\ TInv /\ [Next]_vars => TInv'
  <2> SUFFICES ASSUME Course, TInv, [Next]_vars PROVE TInv'
    OBVIOUS
  <2>1. FREELIST + 21 <= FRAMES /\ FREELIST \in Nat /\ FRAMES \in Nat
    BY Basics
  <2>2. \A m \in MemRec : SetMemory(m) => Memory' = m /\ free' = m.free /\ free' \in Nat
    BY DEF SetMemory, Memory, MemRec
  <2>3. free \in Nat /\ Memory.free = free
    BY DEF Memory, MemRec
  <2>4. stage # "kernel" => /\ tables.pml4 = PML4 /\ tables.pdpt = PDPT /\ tables.pdt = PDT
                            /\ tables.pt = PT /\ tables.pml4 \in Frame
    BY Basics DEF Course, Own
  <2>5. CASE map_kernel_space
    <3>1. Memory' \in MemRec /\ free' = FREELIST + 5 /\ stage' = "freelist"
      BY <2>5, FourTables DEF map_kernel_space
    <3>2. Room' /\ free' <= FRAMES
      BY <2>1, <3>1 DEF Room
    <3>3. QED
      BY <3>1, <3>2
  <2>6. CASE map_freelist
    <3> DEFINE w == map_vir_phy(Memory, Direct(FREELIST), FREELIST)
    <3>1. free = FREELIST + 5 /\ stage # "kernel"
      BY <2>6 DEF map_freelist, Room
    <3>2. w \in MemRec /\ w.free <= free + 3
      BY <2>1, <2>3, <2>4, <3>1, OwnPages, MapTypes
    <3>3. SetMemory(w) /\ stage' = "video"
      BY <2>6 DEF map_freelist
    <3> HIDE DEF w
    <3>4. Memory' \in MemRec /\ free' <= FREELIST + 8 /\ free' \in Nat
      BY <2>1, <2>2, <3>1, <3>2, <3>3
    <3>5. Room' /\ free' <= FRAMES
      BY <2>1, <3>3, <3>4 DEF Room
    <3>6. QED
      BY <3>4, <3>5
  <2>7. CASE map_video_memory
    <3>1. free <= FREELIST + 8 /\ stage # "kernel" /\ stage' = "tables" /\ free' = free + 1
      BY <2>7 DEF map_video_memory, Room
    <3>2. free \in Frame /\ VIDEO \in Frame /\ PDT \in Frame
      <4>1. VIDEO \in Frame
        BY OwnPages
      <4>2. PDT \in Frame /\ Frame = 0 .. FRAMES - 1
        BY Basics
      <4>3. QED
        BY <2>1, <2>3, <3>1, <4>1, <4>2
    <3>3. /\ offset(3, Direct(VIDEO)) \in Index /\ offset(4, Direct(VIDEO)) \in Index
      BY OwnPages, FirstPages
    <3>4. mem' = [mem EXCEPT ![PDT][offset(3, Direct(VIDEO))] = free,
                             ![free][offset(4, Direct(VIDEO))] = VIDEO]
      BY <2>4, <2>7, <3>1 DEF map_video_memory
    <3> DEFINE w == [mem EXCEPT ![PDT][offset(3, Direct(VIDEO))] = free]
    <3>5. mem \in Mem
      BY DEF Memory, MemRec
    <3>6. w \in Mem
      BY <3>2, <3>3, <3>5 DEF Mem
    <3>7. mem' = [w EXCEPT ![free][offset(4, Direct(VIDEO))] = VIDEO]
      BY <3>4
    <3> HIDE DEF w
    <3>8. mem' \in Mem
      BY <3>2, <3>3, <3>6, <3>7 DEF Mem
    <3>9. Memory' \in MemRec /\ free' <= FRAMES /\ Room'
      BY <2>1, <2>3, <3>1, <3>8 DEF Memory, MemRec, Room
    <3>10. QED
      BY <3>9
  <2>8. CASE map_tables
    <3> DEFINE m1 == map_vir_phy(Memory, Direct(PML4), PML4)
               m2 == map_vir_phy(m1, Direct(PDPT), PDPT)
               m3 == map_vir_phy(m2, Direct(PDT), PDT)
               m4 == map_vir_phy(m3, Direct(PT), PT)
    <3>1. free <= FREELIST + 9 /\ stage # "kernel" /\ stage' = "identity"
      BY <2>8 DEF map_tables, Room
    <3>2. SetMemory(m4)
      BY <2>4, <2>8, <3>1 DEF map_tables
    <3>3. ASSUME NEW m \in MemRec, m.free + 3 <= FRAMES, NEW p \in {PML4, PDPT, PDT, PT}
          PROVE  /\ map_vir_phy(m, Direct(p), p) \in MemRec
                 /\ map_vir_phy(m, Direct(p), p).free <= m.free + 3
      <4>1. p \in Frame
        BY OwnPages
      <4>2. QED
        BY <2>4, <3>1, <3>3, <4>1, MapTypes
    <3>4. \A m \in MemRec : m.free \in Nat
      BY DEF MemRec
    <3>5. m1 \in MemRec /\ m1.free <= free + 3 /\ m1.free \in Nat
      BY <2>1, <2>3, <3>1, <3>3, <3>4
    <3> HIDE DEF m1
    <3>6. m2 \in MemRec /\ m2.free <= m1.free + 3 /\ m2.free \in Nat
      BY <2>1, <2>3, <3>1, <3>3, <3>4, <3>5
    <3> HIDE DEF m2
    <3>7. m3 \in MemRec /\ m3.free <= m2.free + 3 /\ m3.free \in Nat
      BY <2>1, <2>3, <3>1, <3>3, <3>4, <3>5, <3>6
    <3> HIDE DEF m3
    <3>8. m4 \in MemRec /\ m4.free <= m3.free + 3 /\ m4.free \in Nat
      BY <2>1, <2>3, <3>1, <3>3, <3>4, <3>5, <3>6, <3>7
    <3> HIDE DEF m4
    <3>9. Memory' \in MemRec /\ free' <= FRAMES
      BY <2>1, <2>2, <2>3, <3>1, <3>2, <3>5, <3>6, <3>7, <3>8
    <3>10. Room'
      BY <3>1 DEF Room
    <3>11. QED
      BY <3>9, <3>10
  <2>9. CASE identity_mapping
    <3> DEFINE w == map_vir_phy(Memory, Direct(pstart), pstart)
    <3>1. free + 3 <= FRAMES /\ stage # "kernel" /\ stage' = "identity" /\ pstart <= max
      BY <2>9 DEF identity_mapping
    <3>2. pstart \in Frame
      BY <3>1, Basics DEF Course
    <3>3. w \in MemRec /\ w.free <= free + 3
      BY <2>3, <2>4, <3>1, <3>2, MapTypes
    <3>4. SetMemory(w)
      BY <2>9 DEF identity_mapping
    <3> HIDE DEF w
    <3>5. Memory' \in MemRec /\ free' <= FRAMES
      BY <2>1, <2>2, <2>3, <3>1, <3>3, <3>4
    <3>6. Room'
      BY <3>1 DEF Room
    <3>7. QED
      BY <3>5, <3>6
  <2>10. CASE Loaded
    BY <2>10 DEF Loaded, Memory, Room
  <2>11. CASE UNCHANGED vars
    BY <2>11 DEF vars, Memory, Room
  <2>12. QED
    BY <2>5, <2>6, <2>7, <2>8, <2>9, <2>10, <2>11 DEF Next
<1>3. Course /\ TInv /\ tables \in [{"pml4", "pdpt", "pdt", "pt"} -> Frame \cup {None}] => TypeOK
  BY Basics DEF Course, TypeOK, Memory, MemRec, Mem
<1> DEFINE Tables == tables \in [{"pml4", "pdpt", "pdt", "pt"} -> Frame \cup {None}]
<1>4. Init => Tables
  BY DEF Init
<1>5. Course' /\ Tables /\ [Next]_vars => Tables'
  <2> SUFFICES ASSUME Course', Tables, [Next]_vars PROVE Tables'
    OBVIOUS
  <2>1. Own \in [{"pml4", "pdpt", "pdt", "pt"} -> Frame \cup {None}]
    BY Basics DEF Own
  <2>2. CASE stage' # "kernel"
    BY <2>1, <2>2 DEF Course
  <2>3. CASE stage' = "kernel"
    <3>1. UNCHANGED vars
      BY <2>3 DEF Next, map_kernel_space, map_freelist, map_video_memory, map_tables,
                  identity_mapping, Loaded
    <3>2. QED
      BY <3>1 DEF vars
  <2>4. QED
    BY <2>2, <2>3
<1> HIDE DEF TInv, Tables
<1>6. Course /\ TInv /\ Tables => TypeOK
  BY <1>3 DEF Tables
<1>7. QED
  BY <1>1, <1>2, <1>4, <1>5, <1>6, CourseKept, PTL DEF Spec

-----------------------------------------------------------------------------
(***************************************************************************)
(* The root file system, for every archive that tar makes of a list of     *)
(* find, with names, sizes and typed commands of any length.  Entry i + 1  *)
(* of the table is entry i of the archive, under its directory (TableInv): *)
(* the walk at boot gets from header to header because the digits read in  *)
(* base ten and turned back are the size, and it finds the directory of    *)
(* every entry because tar lists that before.  The walk of execve begins   *)
(* one block further on and still meets every header but the first, for    *)
(* what it takes for a header before that has no size.  cd and open find   *)
(* what the archive has, because the name put together from the working    *)
(* directory, always one (CwdInv), and the components typed is the name    *)
(* in the table, and a name below a directory that is not there is not     *)
(* there either.                                                           *)
(***************************************************************************)


\* A set of naturals has a least element.
LEMMA Least ==
    ASSUME NEW T \in SUBSET Nat, T # {}
    PROVE  \E x \in T : \A y \in T : x <= y
<1>1. IsWellFoundedOn(OpToRel(<, Nat), Nat)
  BY NatLessThanWellFounded
<1>2. PICK x \in T : \A y \in T : ~ (<<y, x>> \in OpToRel(<, Nat))
  BY <1>1, WFMin
<1>3. \A a, b \in Nat : <<a, b>> \in OpToRel(<, Nat) <=> a < b
  BY DEF OpToRel
<1>4. \A y \in T : ~ (y < x)
  BY <1>2, <1>3
<1>5. QED
  BY <1>4

\* Induction, stated with a set.
LEMMA NatInd ==
    ASSUME NEW S, 0 \in S, \A n \in Nat : n \in S => n + 1 \in S
    PROVE  Nat \subseteq S
<1> DEFINE T == Nat \ S
<1> SUFFICES ASSUME T # {} PROVE FALSE
  OBVIOUS
<1>1. PICK x \in T : \A y \in T : x <= y
  BY Least
<1>2. x # 0 /\ x - 1 \in Nat /\ x - 1 \notin T
  BY <1>1
<1>3. QED
  BY <1>2

\* A recursion from one number to the next defines a function.
Linear(f, N, base, step) ==
    f[0] = base /\ \A n \in 1 .. N : f[n] = step[n][f[n - 1]]

LEMMA Recursion ==
    ASSUME NEW N \in Nat, NEW V, NEW base \in V, NEW step \in [1 .. N -> [V -> V]]
    PROVE  \E f \in [0 .. N -> V] : Linear(f, N, base, step)
<1> DEFINE Good(f, k) == /\ f[0] = base
                         /\ \A n \in 1 .. k : f[n] = step[n][f[n - 1]]
           S == {k \in Nat : k <= N => \E f \in [0 .. N -> V] : Good(f, k)}
<1>1. 0 \in S
  <2>1. [n \in 0 .. N |-> base] \in [0 .. N -> V] /\ Good([n \in 0 .. N |-> base], 0)
    OBVIOUS
  <2> QED
    BY <2>1
<1>2. ASSUME NEW k \in Nat, k \in S
      PROVE  k + 1 \in S
  <2> SUFFICES ASSUME k + 1 <= N
               PROVE  \E f \in [0 .. N -> V] : Good(f, k + 1)
    OBVIOUS
  <2>1. PICK f \in [0 .. N -> V] : Good(f, k)
    BY <1>2
  <2>2. step[k + 1] \in [V -> V] /\ f[k] \in V
    OBVIOUS
  <2> DEFINE g == [f EXCEPT ![k + 1] = step[k + 1][f[k]]]
  <2>3. g \in [0 .. N -> V]
    BY <2>2
  <2>4. g[0] = base
    BY <2>1
  <2>5. ASSUME NEW n \in 1 .. k + 1
        PROVE  g[n] = step[n][g[n - 1]]
    <3>1. n - 1 \in 0 .. N /\ n - 1 # k + 1
      OBVIOUS
    <3>2. g[n - 1] = f[n - 1]
      BY <3>1
    <3>3. CASE n = k + 1
      BY <3>2, <3>3
    <3>4. CASE n # k + 1
      BY <2>1, <3>2, <3>4
    <3> QED
      BY <3>3, <3>4
  <2> HIDE DEF g
  <2> QED
    BY <2>3, <2>4, <2>5
<1>3. N \in S
  <2> HIDE DEF S
  <2> QED
    BY <1>1, <1>2, NatInd
<1> QED
  BY <1>3 DEF Linear

\* The number that digits denote, prefix by prefix.
LEMMA NumeralDef ==
    ASSUME NEW d \in Seq(0 .. 9), NEW b \in Nat
    PROVE  \E f \in [0 .. Len(d) -> Nat] :
              /\ Numeral(d, b) = f[Len(d)]
              /\ f[0] = 0
              /\ \A n \in 1 .. Len(d) : f[n] = b * f[n - 1] + d[n]
<1>1. Len(d) \in Nat /\ \A n \in 1 .. Len(d) : d[n] \in 0 .. 9
  OBVIOUS
<1> DEFINE step == [n \in 1 .. Len(d) |-> [v \in Nat |-> b * v + d[n]]]
           B(f) == [n \in 0 .. Len(d) |-> IF n = 0 THEN 0 ELSE b * f[n - 1] + d[n]]
<1>2. step \in [1 .. Len(d) -> [Nat -> Nat]]
  <2>1. ASSUME NEW n \in 1 .. Len(d), NEW v \in Nat
        PROVE  b * v + d[n] \in Nat
    <3>1. b * v \in Nat
      OBVIOUS
    <3> DEFINE m == b * v
    <3>2. m \in Nat /\ d[n] \in Nat
      BY <1>1, <3>1
    <3> HIDE DEF m
    <3>3. m + d[n] \in Nat
      BY <3>2
    <3> QED
      BY <3>3 DEF m
  <2> QED
    BY <2>1
<1>3. PICK f \in [0 .. Len(d) -> Nat] :
               Linear(f, Len(d), 0, step)
  <2> HIDE DEF step
  <2>1. Len(d) \in Nat /\ 0 \in Nat
    BY <1>1
  <2> QED
    BY <1>2, <2>1, Recursion, Zenon
<1>4. f = B(f)
  <2>1. \A n \in 1 .. Len(d) : n - 1 \in 0 .. Len(d)
    BY <1>1
  <2>2. \A n \in 1 .. Len(d) : step[n][f[n - 1]] = b * f[n - 1] + d[n]
    BY <2>1
  <2> HIDE DEF step
  <2>3. f = [n \in 0 .. Len(d) |-> f[n]]
    OBVIOUS
  <2>4. \A n \in 0 .. Len(d) : n # 0 => n \in 1 .. Len(d)
    BY <1>1
  <2> QED
    BY <1>3, <2>2, <2>3, <2>4 DEF Linear
<1>5. Numeral(d, b) = (CHOOSE g : g = B(g))[Len(d)]
  BY DEF Numeral
<1> DEFINE g == CHOOSE h : h = B(h)
<1>6. g = B(g)
  <2> HIDE DEF B
  <2> QED
    BY <1>4
<1> HIDE DEF g
<1>7. \A n \in 0 .. Len(d) : g[n] = IF n = 0 THEN 0 ELSE b * g[n - 1] + d[n]
  BY <1>6
<1> DEFINE S == {k \in Nat : k <= Len(d) => g[k] \in Nat}
<1>8. \A k \in Nat : k \in S
  <2>1. 0 \in S
    BY <1>1, <1>7
  <2>2. ASSUME NEW k \in Nat, k \in S
        PROVE  k + 1 \in S
    <3> SUFFICES ASSUME k + 1 <= Len(d) PROVE g[k + 1] \in Nat
      OBVIOUS
    <3>1. k + 1 \in 1 .. Len(d) /\ (k + 1) - 1 = k /\ k + 1 # 0 /\ g[k] \in Nat
      BY <1>1, <2>2
    <3>2. g[k + 1] = b * g[k] + d[k + 1] /\ d[k + 1] \in 0 .. 9
      BY <1>1, <1>7, <3>1
    <3>3. b * g[k] \in Nat
      BY <3>1
    <3> QED
      BY <3>2, <3>3
  <2> HIDE DEF S
  <2> QED
    BY <2>1, <2>2, NatInd
<1>9. g \in [0 .. Len(d) -> Nat]
  <2>1. \A n \in 0 .. Len(d) : g[n] \in Nat
    BY <1>1, <1>8
  <2> QED
    BY <1>6, <2>1
<1>10. Numeral(d, b) = g[Len(d)]
  BY <1>5 DEF g
<1>11. g[0] = 0 /\ \A n \in 1 .. Len(d) : g[n] = b * g[n - 1] + d[n]
  BY <1>1, <1>7
<1> QED
  BY <1>9, <1>10, <1>11

\* A tenth of a number, and its last digit.
LEMMA Tenth ==
    ASSUME NEW v \in Nat
    PROVE  /\ v \div 10 \in Nat /\ v \div 10 <= v /\ (v # 0 => v \div 10 < v)
           /\ v % 10 \in 0 .. 9
OBVIOUS

\* What decimalSize makes of the numbers up to N.
Sums(f, N) ==
    \A v \in 0 .. N : f[v] = IF v = 0 THEN 0 ELSE (v % 10) + 8 * f[v \div 10]

LEMMA SumsExist ==
    ASSUME NEW N \in Nat
    PROVE  \E f \in [0 .. N -> Nat] : Sums(f, N)
<1> DEFINE S == {k \in Nat : k <= N => \E f \in [0 .. N -> Nat] : Sums(f, k)}
<1>1. 0 \in S
  <2> DEFINE g == [v \in 0 .. N |-> 0]
  <2>1. g \in [0 .. N -> Nat] /\ g[0] = 0
    OBVIOUS
  <2>2. \A v \in 0 .. 0 : v = 0
    OBVIOUS
  <2> HIDE DEF g
  <2>3. Sums(g, 0)
    BY <2>1, <2>2 DEF Sums
  <2> QED
    BY <2>1, <2>3
<1>2. ASSUME NEW k \in Nat, k \in S
      PROVE  k + 1 \in S
  <2> SUFFICES ASSUME k + 1 <= N
               PROVE  \E f \in [0 .. N -> Nat] : Sums(f, k + 1)
    OBVIOUS
  <2>1. PICK f \in [0 .. N -> Nat] : Sums(f, k)
    BY <1>2
  <2> DEFINE w == k + 1
             a == w \div 10
             r == w % 10
  <2>2. w \in Nat /\ w # 0 /\ w \in 0 .. N /\ a \in Nat /\ a < w /\ r \in Nat
    BY Tenth
  <2>3. a \in 0 .. N
    <3> HIDE DEF a, w
    <3> QED
      BY <2>2
  <2> DEFINE g == [f EXCEPT ![w] = r + 8 * f[a]]
  <2>4. g \in [0 .. N -> Nat]
    <3> HIDE DEF a, w, r
    <3>1. f[a] \in Nat
      BY <2>3
    <3>2. r + 8 * f[a] \in Nat
      BY <3>1, <2>2
    <3> QED
      BY <3>2
  <2>5. g[w] = r + 8 * f[a] /\ \A v \in 0 .. N : v # w => g[v] = f[v]
    <3> HIDE DEF a, w, r
    <3> QED
      BY <2>2
  <2>6. ASSUME NEW v \in 0 .. w
        PROVE  g[v] = IF v = 0 THEN 0 ELSE (v % 10) + 8 * g[v \div 10]
    <3> HIDE DEF g
    <3>1. v \in Nat /\ v \div 10 \in Nat /\ v \div 10 <= v /\ (v # 0 => v \div 10 < v)
      BY <2>2, Tenth
    <3>2. v # 0 => v \div 10 \in 0 .. N /\ v \div 10 # w
      <4> HIDE DEF w
      <4> DEFINE q == v \div 10
      <4> HIDE DEF q
      <4>1. q \in Nat /\ (v # 0 => q < v)
        BY <3>1 DEF q
      <4>2. v # 0 => q \in 0 .. N /\ q # w
        BY <2>2, <4>1
      <4> QED
        BY <4>2 DEF q
    <3>3. v # 0 => g[v \div 10] = f[v \div 10]
      BY <2>5, <3>2
    <3>4. CASE v = w
      <4>1. g[w] = r + 8 * g[a]
        BY <2>2, <2>5, <3>3, <3>4
      <4> QED
        BY <2>2, <3>4, <4>1
    <3>5. CASE v # w
      <4>1. v \in 0 .. k /\ v \in 0 .. N
        BY <2>2, <3>1, <3>5
      <4>2. f[v] = IF v = 0 THEN 0 ELSE (v % 10) + 8 * f[v \div 10]
        BY <2>1, <4>1 DEF Sums
      <4>3. g[v] = f[v]
        BY <2>5, <3>5, <4>1
      <4> QED
        BY <3>3, <4>2, <4>3
    <3> QED
      BY <3>4, <3>5
  <2> HIDE DEF g, a, r
  <2>7. Sums(g, k + 1)
    BY <2>6 DEF Sums
  <2> QED
    BY <2>4, <2>7
<1>3. N \in S
  <2> HIDE DEF S
  <2> QED
    BY <1>1, <1>2, NatInd
<1> QED
  BY <1>3

\* decimalSize(d) is what the recursion gives for charToInt(d).
LEMMA decimalSizeDef ==
    ASSUME NEW d, charToInt(d) \in Nat
    PROVE  /\ decimalSize(d) \in Nat
           /\ \E f : Sums(f, charToInt(d)) /\ decimalSize(d) = f[charToInt(d)]
<1> DEFINE N == charToInt(d)
           B(f) == [v \in 0 .. N |-> IF v = 0 THEN 0 ELSE (v % 10) + 8 * f[v \div 10]]
           g == CHOOSE f : f = B(f)
<1>1. PICK f \in [0 .. N -> Nat] : Sums(f, N)
  BY SumsExist
<1>2. f = B(f)
  <2>1. f = [v \in 0 .. N |-> f[v]]
    OBVIOUS
  <2> QED
    BY <1>1, <2>1 DEF Sums
<1>3. decimalSize(d) = g[N]
  BY DEF decimalSize
<1>4. g = B(g)
  <2> HIDE DEF B
  <2> QED
    BY <1>2
<1> HIDE DEF g
<1>5. Sums(g, N)
  BY <1>4 DEF Sums
<1> DEFINE S == {k \in Nat : \A v \in 0 .. N : v <= k => g[v] \in Nat}
<1>6. 0 \in S
  <2>1. \A v \in 0 .. N : v <= 0 => v = 0
    OBVIOUS
  <2> QED
    BY <1>5, <2>1 DEF Sums
<1>7. ASSUME NEW k \in Nat, k \in S
      PROVE  k + 1 \in S
  <2> SUFFICES ASSUME NEW v \in 0 .. N, v <= k + 1
               PROVE  g[v] \in Nat
    OBVIOUS
  <2> DEFINE q == v \div 10
             r == v % 10
  <2>1. v \in Nat /\ q \in Nat /\ q <= v /\ (v # 0 => q < v) /\ r \in Nat
    BY Tenth
  <2>2. g[v] = IF v = 0 THEN 0 ELSE r + 8 * g[q]
    BY <1>5 DEF Sums
  <2> HIDE DEF q, r
  <2>3. v # 0 => q \in 0 .. N /\ q <= k
    BY <2>1
  <2>4. v # 0 => g[q] \in Nat
    BY <1>7, <2>3
  <2> QED
    BY <2>1, <2>2, <2>4
<1>8. N \in S
  <2> HIDE DEF S, N
  <2>1. N \in Nat
    BY DEF N
  <2> QED
    BY <1>6, <1>7, <2>1, NatInd
<1>9. g[N] \in Nat
  BY <1>8
<1> QED
  BY <1>3, <1>5, <1>9

\* Whatever digits are read, they make a size.
LEMMA SizeIn ==
    ASSUME NEW d \in Seq(0 .. 9)
    PROVE  decimalSize(d) \in Nat
<1>1. 10 \in Nat /\ Len(d) \in Nat
  OBVIOUS
<1>2. PICK f \in [0 .. Len(d) -> Nat] : Numeral(d, 10) = f[Len(d)]
  BY <1>1, NumeralDef, Zenon
<1>3. charToInt(d) \in Nat
  BY <1>1, <1>2 DEF charToInt
<1> QED
  BY <1>3, decimalSizeDef

\* Octal digits are digits.
LEMMA OctalIs ==
    ASSUME NEW d \in Seq(0 .. 7)
    PROVE  d \in Seq(0 .. 9)
<1>1. 0 .. 7 \subseteq 0 .. 9
  OBVIOUS
<1> QED
  BY <1>1, SeqMonotonic

\* Reading octal digits in base ten, and the result's digits in base eight,
\* gives what they denote (tarfs.c:35-47).
LEMMA SizeRead ==
    ASSUME NEW d \in Seq(0 .. 7)
    PROVE  decimalSize(d) = TrueSize(d) /\ TrueSize(d) \in Nat
<1> DEFINE L == Len(d)
<1>0. 8 \in Nat /\ 10 \in Nat
  OBVIOUS
<1>1. L \in Nat /\ \A n \in 1 .. L : d[n] \in 0 .. 7
  OBVIOUS
<1>oc. d \in Seq(0 .. 9)
  BY OctalIs
<1>2. PICK ten \in [0 .. L -> Nat] :
              /\ Numeral(d, 10) = ten[L]
              /\ ten[0] = 0
              /\ \A n \in 1 .. L : ten[n] = 10 * ten[n - 1] + d[n]
  BY <1>0, <1>oc, NumeralDef, Zenon
<1>3. PICK eight \in [0 .. L -> Nat] :
              /\ Numeral(d, 8) = eight[L]
              /\ eight[0] = 0
              /\ \A n \in 1 .. L : eight[n] = 8 * eight[n - 1] + d[n]
  BY <1>0, <1>oc, NumeralDef, Zenon
<1> DEFINE N == ten[L]
<1>4. N \in Nat /\ charToInt(d) = N /\ TrueSize(d) = eight[L] /\ eight[L] \in Nat
  BY <1>1, <1>2, <1>3 DEF charToInt, TrueSize
<1>5. PICK sum : Sums(sum, N) /\ decimalSize(d) = sum[N]
  BY <1>4, decimalSizeDef
<1> HIDE DEF L
<1>6. ASSUME NEW n \in 1 .. L
      PROVE  /\ n - 1 \in 0 .. L /\ n \in 0 .. L
             /\ ten[n - 1] \in Nat /\ ten[n] \in Nat /\ d[n] \in 0 .. 7
             /\ ten[n] = 10 * ten[n - 1] + d[n] /\ ten[n - 1] <= ten[n]
             /\ eight[n - 1] \in Nat /\ eight[n] = 8 * eight[n - 1] + d[n]
  <2>1. n - 1 \in 0 .. L /\ n \in 0 .. L /\ d[n] \in 0 .. 7
    BY <1>1
  <2>2. ten[n - 1] \in Nat /\ ten[n] \in Nat /\ eight[n - 1] \in Nat
    BY <2>1
  <2>3. ten[n] = 10 * ten[n - 1] + d[n] /\ eight[n] = 8 * eight[n - 1] + d[n]
    BY <1>2, <1>3
  <2>4. ten[n - 1] <= ten[n]
    <3> DEFINE a == ten[n - 1]
               c == d[n]
    <3>1. ten[n] = 10 * a + c /\ a \in Nat /\ c \in 0 .. 7
      BY <2>1, <2>2, <2>3
    <3> HIDE DEF a, c
    <3>2. a <= ten[n]
      BY <3>1
    <3> QED
      BY <3>2 DEF a
  <2> QED
    BY <2>1, <2>2, <2>3, <2>4
<1> HIDE DEF N
<1>7. \A k \in Nat : k <= L => ten[L - k] <= N
  <2> DEFINE S == {k \in Nat : k <= L => ten[L - k] <= N}
  <2>1. 0 \in S
    <3>1. L - 0 = L
      BY <1>1
    <3> QED
      BY <1>4, <3>1 DEF N
  <2>2. ASSUME NEW k \in Nat, k \in S
        PROVE  k + 1 \in S
    <3> SUFFICES ASSUME k + 1 <= L PROVE ten[L - (k + 1)] <= N
      OBVIOUS
    <3>1. L - k \in 1 .. L /\ (L - k) - 1 = L - (k + 1) /\ ten[L - k] <= N
      BY <1>1, <2>2
    <3>2. /\ ten[L - (k + 1)] \in Nat /\ ten[L - k] \in Nat
          /\ ten[L - (k + 1)] <= ten[L - k]
      BY <1>6, <3>1
    <3> QED
      BY <1>4, <3>1, <3>2
  <2> HIDE DEF S
  <2>3. \A k \in Nat : k \in S
    BY <2>1, <2>2, NatInd
  <2> QED
    BY <2>3 DEF S
<1>8. \A n \in 0 .. L : ten[n] <= N
  <2>1. \A n \in 0 .. L : L - n \in Nat /\ L - n <= L /\ L - (L - n) = n
    BY <1>1
  <2> QED
    BY <1>7, <2>1
<1>9. \A k \in Nat : k <= L => sum[ten[k]] = eight[k]
  <2> DEFINE S == {k \in Nat : k <= L => sum[ten[k]] = eight[k]}
  <2>1. 0 \in S
    <3>1. sum[0] = 0
      BY <1>4, <1>5 DEF Sums
    <3> QED
      BY <1>2, <1>3, <3>1
  <2>2. ASSUME NEW k \in Nat, k \in S
        PROVE  k + 1 \in S
    <3> SUFFICES ASSUME k + 1 <= L PROVE sum[ten[k + 1]] = eight[k + 1]
      OBVIOUS
    <3> DEFINE n == k + 1
               a == ten[k]
               w == ten[n]
               c == d[n]
               e == eight[k]
    <3>1. n \in 1 .. L /\ n - 1 = k
      BY <1>1
    <3>2. /\ a \in Nat /\ w \in Nat /\ c \in 0 .. 7 /\ w = 10 * a + c
          /\ e \in Nat /\ eight[n] = 8 * e + c
      BY <1>6, <3>1
    <3>3. w \in 0 .. N
      <4>1. n \in 0 .. L
        BY <3>1, <1>1
      <4>2. w <= N
        BY <1>8, <4>1
      <4> QED
        BY <3>2, <4>2, <1>4
    <3>4. sum[a] = e
      BY <2>2, <3>1, <1>1
    <3>5. sum[w] = IF w = 0 THEN 0 ELSE (w % 10) + 8 * sum[w \div 10]
      BY <1>5, <3>3 DEF Sums
    <3> HIDE DEF a, w, c, e, n
    <3>6. w \div 10 = a /\ w % 10 = c /\ (w = 0 => a = 0 /\ c = 0)
      <4>1. w \div 10 = a
        BY <3>2
      <4>2. w % 10 = c
        BY <3>2
      <4>3. w = 0 => a = 0 /\ c = 0
        BY <3>2
      <4> QED
        BY <4>1, <4>2, <4>3
    <3>7. w # 0 => sum[w] = c + 8 * e
      BY <3>4, <3>5, <3>6
    <3>8. w = 0 => sum[w] = 0 /\ c = 0 /\ e = 0
      <4>1. sum[0] = 0
        BY <1>4, <1>5 DEF Sums
      <4> QED
        BY <3>4, <3>6, <4>1
    <3>9. sum[w] = eight[n]
      BY <3>2, <3>7, <3>8
    <3> QED
      BY <3>9 DEF w, n
  <2> HIDE DEF S
  <2>3. \A k \in Nat : k \in S
    BY <2>1, <2>2, NatInd
  <2> QED
    BY <2>3 DEF S
<1>10. sum[ten[L]] = eight[L]
  BY <1>1, <1>9
<1> QED
  BY <1>4, <1>5, <1>10 DEF N

\* The step to the next header is the header and the blocks of the contents
\* (tarfs.c:66-70).
LEMMA StepUp ==
    ASSUME NEW size \in Nat
    PROVE  /\ (size + BLOCK - 1) \div BLOCK \in Nat
           /\ Step(size) = BLOCK * (1 + (size + BLOCK - 1) \div BLOCK)
<1> DEFINE q == size \div BLOCK
           r == size % BLOCK
<1>0. BLOCK \in Nat \ {0}
  BY TarfsAssumption
<1>1. q \in Int /\ r \in 0 .. BLOCK - 1 /\ size = BLOCK * q + r
  BY <1>0, DivParts
<1>2. q \in Nat
  <2> HIDE DEF q, r
  <2>1. CASE q >= 0
    BY <1>1, <2>1
  <2>2. CASE q < 0
    <3>1. BLOCK * q <= BLOCK * (-1)
      BY <1>0, <1>1, <2>2
    <3>2. BLOCK * q \in Int /\ BLOCK * (-1) = -BLOCK
      BY <1>0, <1>1
    <3> QED
      BY <1>0, <1>1, <3>1, <3>2
  <2> QED
    BY <1>1, <2>1, <2>2
<1>3. BLOCK * q \in Nat /\ BLOCK * (q + 1) = BLOCK * q + BLOCK
      /\ BLOCK * (1 + q) = BLOCK * q + BLOCK
      /\ BLOCK * (1 + (q + 1)) = BLOCK * q + BLOCK + BLOCK
  <2> HIDE DEF q
  <2> QED
    BY <1>0, <1>2
<1> DEFINE m == BLOCK * q
<1>4. m \in Nat /\ size = m + r
  BY <1>1, <1>3
<1>5. CASE r = 0
  <2>1. size + BLOCK - 1 = BLOCK * q + (BLOCK - 1) /\ BLOCK - 1 \in 0 .. BLOCK - 1
    <3> HIDE DEF q, r
    <3>1. size + BLOCK - 1 = m + (BLOCK - 1)
      <4> HIDE DEF m
      <4> QED
        BY <1>0, <1>4, <1>5
    <3> QED
      BY <1>0, <3>1
  <2>2. (size + BLOCK - 1) \div BLOCK = q
    <3> HIDE DEF q, r
    <3>1. (BLOCK * q + (BLOCK - 1)) \div BLOCK = q
      BY <1>0, <1>2, <2>1, DivMod
    <3> QED
      BY <2>1, <3>1
  <2>3. Step(size) = m + BLOCK
    <3>1. size % BLOCK = 0
      BY <1>5
    <3> HIDE DEF q, r, m
    <3> QED
      BY <1>0, <1>4, <1>5, <3>1 DEF Step
  <2> HIDE DEF q, r
  <2> QED
    BY <1>2, <1>3, <2>2, <2>3
<1>6. CASE r # 0
  <2>1. size + BLOCK - 1 = BLOCK * (q + 1) + (r - 1) /\ r - 1 \in 0 .. BLOCK - 1
    <3> HIDE DEF q, r
    <3>1. size + BLOCK - 1 = m + BLOCK + (r - 1) /\ r - 1 \in 0 .. BLOCK - 1
      <4> HIDE DEF m
      <4> QED
        BY <1>0, <1>1, <1>4, <1>6
    <3> QED
      BY <1>3, <3>1
  <2>2. (size + BLOCK - 1) \div BLOCK = q + 1
    <3> HIDE DEF q, r
    <3>1. q + 1 \in Int
      BY <1>2
    <3>2. (BLOCK * (q + 1) + (r - 1)) \div BLOCK = q + 1
      BY <1>0, <2>1, <3>1, DivMod
    <3> QED
      BY <2>1, <3>2
  <2>3. Step(size) = m + BLOCK + BLOCK
    <3>1. size % BLOCK = r
      OBVIOUS
    <3> HIDE DEF q, r, m
    <3>2. size # 0
      BY <1>1, <1>4, <1>6
    <3>3. Step(size) = size + (BLOCK - r) + BLOCK
      BY <1>6, <3>1, <3>2 DEF Step
    <3> QED
      BY <1>0, <1>1, <1>4, <3>3
  <2> HIDE DEF q, r
  <2>4. q + 1 \in Nat
    BY <1>2
  <2> QED
    BY <1>3, <2>2, <2>3, <2>4
<1> QED
  BY <1>5, <1>6

\* What the assumption says of the archive that is linked in.
LEMMA ArchiveMade ==
    ASSUME archive \in Archives
    PROVE  /\ archive \in Seq(Entry) /\ Len(archive) \in Nat \ {0}
           /\ DOMAIN archive = 1 .. Len(archive)
           /\ Len(archive) + 1 < ENTRIES
           /\ \A i \in 1 .. Len(archive) :
                 /\ archive[i].name \in Seq(STRING)
                 /\ archive[i].flag \in {DirFlag, FileFlag}
                 /\ archive[i].digits \in Seq(0 .. 7)
                 /\ archive[i].data \in Seq(Block)
                 /\ Len(archive[i].data)
                       = (TrueSize(archive[i].digits) + BLOCK - 1) \div BLOCK
                 /\ archive[i].name \notin {<<>>, Blank}
                 /\ Last(archive[i].name) = Nil <=> archive[i].flag = DirFlag
                 /\ \A k \in DOMAIN archive[i].name : archive[i].name[k] \notin {".", ".."}
                 /\ \A j \in 1 .. Len(archive) :
                        archive[j].name = archive[i].name => j = i
                 /\ \/ DirName(archive[i].name) = Blank
                    \/ \E j \in 1 .. i - 1 : archive[j].name = DirName(archive[i].name)
<1>1. Made(archive) /\ Len(archive) + 1 < ENTRIES
  BY TarfsAssumption
<1>2. archive \in Seq(Entry) /\ archive # <<>>
  BY <1>1 DEF Made
<1>3. Len(archive) \in Nat \ {0} /\ DOMAIN archive = 1 .. Len(archive)
  BY <1>2
<1>4. \A i \in 1 .. Len(archive) : archive[i] \in Entry
  BY <1>2, <1>3
<1>5. \A i \in 1 .. Len(archive) :
          /\ archive[i].name \in Seq(STRING)
          /\ archive[i].flag \in {DirFlag, FileFlag}
          /\ archive[i].digits \in Seq(0 .. 7)
          /\ archive[i].data \in Seq(Block)
  BY <1>4 DEF Entry
<1> QED
  BY <1>1, <1>2, <1>3, <1>5, Zenon DEF Made

\* Where the headers are: each entry takes a header and the blocks of its
\* contents, which is what the walk steps over.
LEMMA Headers ==
    ASSUME archive \in Archives
    PROVE  /\ At(1) = 0
           /\ \A i \in 1 .. Len(archive) + 1 : At(i) \in Nat
           /\ \A i \in 1 .. Len(archive) :
                 /\ At(i + 1) = At(i) + Step(decimalSize(archive[i].digits))
                 /\ Len(archive[i].data) \in Nat
                 /\ At(i + 1) = At(i) + BLOCK * (1 + Len(archive[i].data))
<1> DEFINE L == Len(archive)
           up(i) == Len(archive[i].data)
           st(i) == BLOCK * (1 + up(i))
           step == [i \in 1 .. L |-> [v \in Nat |-> v + st(i)]]
           B(f) == [j \in 0 .. L |-> IF j = 0 THEN 0 ELSE f[j - 1] + st(j)]
           g == CHOOSE f : f = B(f)
<1>0. L \in Nat /\ BLOCK \in Nat \ {0}
  BY ArchiveMade, TarfsAssumption
<1>1. ASSUME NEW i \in 1 .. L
      PROVE  /\ up(i) \in Nat /\ st(i) \in Nat
             /\ st(i) = Step(decimalSize(archive[i].digits))
  <2>1. /\ archive[i].digits \in Seq(0 .. 7)
        /\ up(i) = (TrueSize(archive[i].digits) + BLOCK - 1) \div BLOCK
    BY ArchiveMade
  <2>2. decimalSize(archive[i].digits) = TrueSize(archive[i].digits)
        /\ TrueSize(archive[i].digits) \in Nat
    BY <2>1, SizeRead
  <2>3. up(i) \in Nat /\ Step(TrueSize(archive[i].digits)) = st(i)
    BY <2>1, <2>2, StepUp
  <2>4. st(i) \in Nat
    <3> HIDE DEF up
    <3> QED
      BY <1>0, <2>3
  <2> QED
    BY <2>2, <2>3, <2>4
<1> HIDE DEF up
<1>2. step \in [1 .. L -> [Nat -> Nat]]
  <2>1. ASSUME NEW i \in 1 .. L, NEW v \in Nat
        PROVE  v + st(i) \in Nat
    <3>1. st(i) \in Nat
      BY <1>1
    <3> HIDE DEF st
    <3> QED
      BY <3>1
  <2> HIDE DEF st
  <2> QED
    BY <2>1
<1> HIDE DEF st
<1>3. PICK f \in [0 .. L -> Nat] : Linear(f, L, 0, step)
  <2> HIDE DEF step, L
  <2>1. 0 \in Nat
    OBVIOUS
  <2> QED
    BY <1>0, <1>2, <2>1, Recursion, Zenon
<1> HIDE DEF L
<1>4. f = B(f)
  <2>1. \A n \in 1 .. L : step[n][f[n - 1]] = f[n - 1] + st(n)
    <3>1. \A n \in 1 .. L : f[n - 1] \in Nat
      BY <1>0
    <3> QED
      BY <3>1
  <2> HIDE DEF step
  <2>2. f = [n \in 0 .. L |-> f[n]]
    OBVIOUS
  <2>3. \A n \in 0 .. L : n # 0 => n \in 1 .. L
    BY <1>0
  <2> QED
    BY <1>3, <2>1, <2>2, <2>3 DEF Linear
<1>5. g = B(g)
  <2> HIDE DEF B
  <2> QED
    BY <1>4
<1>6. \A i : At(i) = g[i - 1]
  BY DEF At, st, up, L
<1> HIDE DEF g
<1>7. g[0] = 0 /\ \A n \in 1 .. L : g[n] = g[n - 1] + st(n)
  <2>1. \A n \in 0 .. L : g[n] = IF n = 0 THEN 0 ELSE g[n - 1] + st(n)
    BY <1>5
  <2> QED
    BY <1>0, <2>1
<1> DEFINE S == {k \in Nat : k <= L => g[k] \in Nat}
<1>8. \A k \in Nat : k \in S
  <2>1. 0 \in S
    BY <1>7
  <2>2. ASSUME NEW k \in Nat, k \in S
        PROVE  k + 1 \in S
    <3> SUFFICES ASSUME k + 1 <= L PROVE g[k + 1] \in Nat
      OBVIOUS
    <3>1. k + 1 \in 1 .. L /\ (k + 1) - 1 = k /\ g[k] \in Nat
      BY <1>0, <2>2
    <3> QED
      BY <1>1, <1>7, <3>1
  <2> HIDE DEF S
  <2> QED
    BY <2>1, <2>2, NatInd
<1>9. ASSUME NEW i \in 1 .. L
      PROVE  /\ At(i + 1) = At(i) + st(i)
             /\ up(i) \in Nat /\ At(i + 1) = At(i) + BLOCK * (1 + up(i))
  <2>1. (i + 1) - 1 = i
    OBVIOUS
  <2>2. At(i + 1) = At(i) + st(i)
    BY <1>6, <1>7, <2>1
  <2> QED
    BY <1>1, <2>2 DEF st
<1>10. \A i \in 1 .. L + 1 : At(i) \in Nat
  <2>1. \A i \in 1 .. L + 1 : i - 1 \in Nat /\ i - 1 <= L
    BY <1>0
  <2> QED
    BY <1>6, <1>8, <2>1
<1>11. At(1) = 0
  BY <1>6, <1>7
<1> QED
  BY <1>1, <1>9, <1>10, <1>11 DEF L, up

\* The headers are in order.
LEMMA HeadersAscend ==
    ASSUME archive \in Archives,
           NEW i \in 1 .. Len(archive) + 1, NEW j \in 1 .. Len(archive) + 1, i < j
    PROVE  At(i) < At(j)
<1> DEFINE L == Len(archive)
           S == {k \in Nat : i + 1 + k <= L + 1 => At(i) < At(i + 1 + k)}
<1>0. L \in Nat /\ BLOCK \in Nat \ {0}
  BY ArchiveMade, TarfsAssumption
<1>1. ASSUME NEW n \in 1 .. L
      PROVE  At(n) \in Nat /\ At(n + 1) \in Nat /\ At(n) < At(n + 1)
  <2>1. At(n) \in Nat /\ At(n + 1) \in Nat
    <3>1. n \in 1 .. L + 1 /\ n + 1 \in 1 .. L + 1
      BY <1>0
    <3> QED
      BY <3>1, Headers
  <2>2. PICK m \in Nat : At(n + 1) = At(n) + BLOCK * (1 + m)
    BY Headers
  <2>3. BLOCK * (1 + m) = BLOCK + BLOCK * m /\ BLOCK * m \in Nat
    BY <1>0
  <2> QED
    BY <1>0, <2>1, <2>2, <2>3
<1>2. 0 \in S
  <2>1. i + 1 + 0 = i + 1 /\ i \in 1 .. L
    BY <1>0
  <2> QED
    BY <1>1, <2>1
<1>3. ASSUME NEW k \in Nat, k \in S
      PROVE  k + 1 \in S
  <2> SUFFICES ASSUME i + 1 + (k + 1) <= L + 1
               PROVE  At(i) < At(i + 1 + (k + 1))
    OBVIOUS
  <2> DEFINE n == i + 1 + k
  <2>1. n \in 1 .. L /\ i + 1 + (k + 1) = n + 1 /\ n <= L + 1 /\ i \in 1 .. L
    BY <1>0
  <2>2. At(i) < At(n)
    BY <1>3, <2>1
  <2> HIDE DEF n, L
  <2>3. At(n) < At(n + 1) /\ At(n) \in Nat /\ At(n + 1) \in Nat /\ At(i) \in Nat
    BY <1>1, <2>1
  <2> QED
    BY <2>1, <2>2, <2>3
<1>4. j - (i + 1) \in S
  <2>1. j - (i + 1) \in Nat
    OBVIOUS
  <2> HIDE DEF S
  <2> QED
    BY <1>2, <1>3, <2>1, NatInd
<1>5. i + 1 + (j - (i + 1)) = j
  OBVIOUS
<1> HIDE DEF L
<1> QED
  BY <1>4, <1>5 DEF L

\* Every block of an entry lies before the next header.
LEMMA BlocksBefore ==
    ASSUME archive \in Archives, NEW i \in 1 .. Len(archive),
           NEW k \in 0 .. Len(archive[i].data)
    PROVE  /\ At(i) \in Nat /\ At(i + 1) \in Nat /\ BLOCK * k \in Nat
           /\ At(i) + BLOCK * k < At(i + 1)
<1> DEFINE n == Len(archive[i].data)
<1>1. BLOCK \in Nat \ {0} /\ Len(archive) \in Nat
  BY ArchiveMade, TarfsAssumption
<1>2. i \in 1 .. Len(archive) + 1 /\ i + 1 \in 1 .. Len(archive) + 1
  BY <1>1
<1>3. At(i) \in Nat /\ At(i + 1) \in Nat
  BY <1>2, Headers
<1>4. n \in Nat /\ At(i + 1) = At(i) + BLOCK * (1 + n)
  BY Headers
<1> HIDE DEF n
<1>5. k \in Nat /\ k < 1 + n
  BY <1>4 DEF n
<1>6. BLOCK * k < BLOCK * (1 + n) /\ BLOCK * k \in Nat /\ BLOCK * (1 + n) \in Nat
  BY <1>1, <1>4, <1>5
<1> QED
  BY <1>3, <1>4, <1>6

\* The entries before the one with header j end where that begins.
LEMMA HeadersApart ==
    ASSUME archive \in Archives, NEW i \in 1 .. Len(archive),
           NEW j \in 1 .. Len(archive) + 1, i < j
    PROVE  At(i + 1) <= At(j)
<1>1. Len(archive) \in Nat
  BY ArchiveMade
<1>2. i + 1 \in 1 .. Len(archive) + 1 /\ (i + 1 < j \/ i + 1 = j)
  BY <1>1
<1>3. At(i + 1) \in Nat /\ At(j) \in Nat
  BY <1>2, Headers
<1>4. CASE i + 1 < j
  BY <1>2, <1>3, <1>4, HeadersAscend
<1>5. CASE i + 1 = j
  BY <1>3, <1>5
<1> QED
  BY <1>2, <1>4, <1>5

\* Each block of the archive is read where it is.
LEMMA BlockThere ==
    ASSUME archive \in Archives, NEW i \in 1 .. Len(archive),
           NEW k \in 0 .. Len(archive[i].data)
    PROVE  HeaderAt(At(i) + BLOCK * k) = IF k = 0 THEN archive[i] ELSE archive[i].data[k]
<1> DEFINE t == At(i) + BLOCK * k
<1>1. Len(archive) \in Nat /\ DOMAIN archive = 1 .. Len(archive) /\ BLOCK \in Nat \ {0}
  BY ArchiveMade, TarfsAssumption
<1>2. At(i) \in Nat /\ BLOCK * k \in Nat /\ t < At(i + 1)
  BY BlocksBefore
<1>3. ASSUME NEW j \in 1 .. Len(archive), NEW l \in 0 .. Len(archive[j].data),
             t = At(j) + BLOCK * l
      PROVE  j = i
  <2>1. At(j) \in Nat /\ BLOCK * l \in Nat /\ At(j) + BLOCK * l < At(j + 1)
    BY BlocksBefore
  <2>2. At(i + 1) \in Nat /\ At(j + 1) \in Nat
    BY BlocksBefore
  <2>3. i \in 1 .. Len(archive) + 1 /\ j \in 1 .. Len(archive) + 1
    BY <1>1
  <2>4. i < j => At(i + 1) <= At(j)
    BY <2>3, HeadersApart
  <2>5. j < i => At(j + 1) <= At(i)
    BY <2>3, HeadersApart
  <2> DEFINE a == BLOCK * k
             b == BLOCK * l
  <2>6. a \in Nat /\ b \in Nat /\ At(i) + a = At(j) + b
        /\ At(i) + a < At(i + 1) /\ At(j) + b < At(j + 1)
    BY <1>2, <1>3, <2>1
  <2> HIDE DEF a, b
  <2>7. ~ (i < j) /\ ~ (j < i)
    BY <1>2, <2>1, <2>2, <2>4, <2>5, <2>6
  <2> QED
    BY <1>1, <2>7
<1>4. k \in Nat /\ t - At(i) = BLOCK * k + 0 /\ 0 \in 0 .. BLOCK - 1
  <2> DEFINE a == BLOCK * k
  <2>1. a \in Nat
    BY <1>2
  <2> HIDE DEF a
  <2>2. (At(i) + a) - At(i) = a + 0
    BY <1>2, <2>1
  <2>3. k \in Nat
    BY Headers
  <2> QED
    BY <1>1, <2>2, <2>3 DEF a
<1>5. (t - At(i)) \div BLOCK = k
  <2>1. (BLOCK * k + 0) \div BLOCK = k
    BY <1>1, <1>4, DivMod
  <2> QED
    BY <1>4, <2>1
<1> HIDE DEF t
<1>6. Holding(t) = {i}
  <2>1. i \in Holding(t)
    BY <1>1 DEF Holding, t
  <2>2. \A j \in Holding(t) : j = i
    BY <1>1, <1>3 DEF Holding
  <2> QED
    BY <2>1, <2>2
<1>7. (CHOOSE j \in Holding(t) : TRUE) = i
  BY <1>6
<1>8. HeaderAt(t) = IF k = 0 THEN archive[i] ELSE archive[i].data[k]
  BY <1>5, <1>6, <1>7 DEF HeaderAt
<1> QED
  BY <1>8 DEF t

\* The header of entry i is found where it is.
LEMMA HeaderThere ==
    ASSUME archive \in Archives, NEW i \in 1 .. Len(archive)
    PROVE  HeaderAt(At(i)) = archive[i]
<1>1. Len(archive) \in Nat /\ BLOCK \in Nat \ {0}
  BY ArchiveMade, TarfsAssumption
<1>2. i \in 1 .. Len(archive) + 1 /\ 0 \in 0 .. Len(archive[i].data)
  BY <1>1, Headers
<1>3. At(i) + BLOCK * 0 = At(i)
  BY <1>1, <1>2, Headers
<1> QED
  BY <1>2, <1>3, BlockThere

\* Behind the last entry lie the zero blocks that end the walks.
LEMMA HeaderEnd ==
    ASSUME archive \in Archives, NEW t \in Nat, t >= At(Len(archive) + 1)
    PROVE  HeaderAt(t).name = Blank
<1> DEFINE L == Len(archive)
<1>1. L \in Nat /\ L + 1 \in 1 .. L + 1 /\ DOMAIN archive = 1 .. L
  BY ArchiveMade
<1>2. At(L + 1) \in Nat
  BY <1>1, Headers
<1>3. ASSUME NEW i \in 1 .. L, NEW k \in 0 .. Len(archive[i].data)
      PROVE  t # At(i) + BLOCK * k
  <2>1. At(i) \in Nat /\ At(i + 1) \in Nat /\ BLOCK * k \in Nat
        /\ At(i) + BLOCK * k < At(i + 1)
    BY BlocksBefore
  <2>2. At(i + 1) <= At(L + 1)
    <3>1. i < L + 1
      BY <1>1
    <3> QED
      BY <1>1, <3>1, HeadersApart
  <2> DEFINE a == BLOCK * k
  <2>3. a \in Nat /\ At(i) + a < At(i + 1)
    BY <2>1
  <2> HIDE DEF a, L
  <2>4. t # At(i) + a
    BY <1>2, <2>1, <2>2, <2>3 DEF L
  <2> QED
    BY <2>4 DEF a
<1>4. Holding(t) = {}
  BY <1>1, <1>3 DEF Holding
<1> QED
  BY <1>4 DEF HeaderAt, ZeroBlock

\* Whatever is read as a header, the walk goes forward.
LEMMA Forward ==
    ASSUME archive \in Archives, NEW t \in Nat
    PROVE  /\ Step(decimalSize(HeaderAt(t).digits)) \in Nat
           /\ Step(decimalSize(HeaderAt(t).digits)) >= BLOCK
<1>0. DOMAIN archive = 1 .. Len(archive)
  BY ArchiveMade
<1>1. HeaderAt(t).digits \in Seq(0 .. 9)
  <2>1. CASE Holding(t) # {}
    <3>1. PICK i \in 1 .. Len(archive) :
              \E l \in 0 .. Len(archive[i].data) : t = At(i) + BLOCK * l
      BY <1>0, <2>1 DEF Holding
    <3>2. PICK k \in 0 .. Len(archive[i].data) : t = At(i) + BLOCK * k
      BY <3>1
    <3>3. HeaderAt(t) = IF k = 0 THEN archive[i] ELSE archive[i].data[k]
      BY <3>2, BlockThere
    <3>4. CASE k = 0
      <4>1. archive[i].digits \in Seq(0 .. 7)
        BY ArchiveMade
      <4> QED
        BY <3>3, <3>4, <4>1, OctalIs
    <3>5. CASE k # 0
      <4>1. archive[i].data \in Seq(Block) /\ k \in 1 .. Len(archive[i].data)
        BY <3>5, ArchiveMade, Headers
      <4>2. archive[i].data[k] \in Block
        BY <4>1
      <4> QED
        BY <3>3, <3>5, <4>2 DEF Block
    <3> QED
      BY <3>4, <3>5
  <2>2. CASE Holding(t) = {}
    BY <2>2 DEF HeaderAt, ZeroBlock
  <2> QED
    BY <2>1, <2>2
<1> DEFINE size == decimalSize(HeaderAt(t).digits)
           m == (size + BLOCK - 1) \div BLOCK
<1>2. size \in Nat
  BY <1>1, SizeIn
<1>3. m \in Nat /\ Step(size) = BLOCK * (1 + m)
  BY <1>2, StepUp
<1> HIDE DEF m
<1>4. BLOCK * (1 + m) = BLOCK + BLOCK * m /\ BLOCK * m \in Nat /\ BLOCK \in Nat
  BY <1>3, TarfsAssumption
<1> HIDE DEF size
<1>5. Step(size) \in Nat /\ Step(size) >= BLOCK
  BY <1>3, <1>4
<1> QED
  BY <1>5 DEF size

\* The walk of getFileOffset from an offset on.
Walked(f, filename) ==
    \A t \in Nat :
        f[t] = IF HeaderAt(t).name = Blank THEN NotFound
               ELSE IF HeaderAt(t).name = filename THEN t + BLOCK
                    ELSE f[t + Step(decimalSize(HeaderAt(t).digits))]

\* The walk ends: it goes forward to the zero blocks.
LEMMA WalkExists ==
    ASSUME archive \in Archives, NEW filename
    PROVE  \E f \in [Nat -> Nat \cup {NotFound}] : Walked(f, filename)
<1> DEFINE E == At(Len(archive) + 1)
           V == Nat \cup {NotFound}
           st(t) == Step(decimalSize(HeaderAt(t).digits))
           B(f, t) == IF HeaderAt(t).name = Blank THEN NotFound
                      ELSE IF HeaderAt(t).name = filename THEN t + BLOCK
                           ELSE f[t + st(t)]
           S == {k \in Nat : \E f \in [Nat -> V] :
                                \A t \in Nat : t + k >= E => f[t] = B(f, t)}
<1>1. E \in Nat /\ BLOCK \in Nat \ {0}
  <2>1. Len(archive) \in Nat
    BY ArchiveMade
  <2>2. Len(archive) + 1 \in 1 .. Len(archive) + 1
    BY <2>1
  <2> QED
    BY <2>2, Headers, TarfsAssumption
<1>2. \A t \in Nat : st(t) \in Nat /\ st(t) >= BLOCK
  BY Forward
<1>3. \A t \in Nat : t >= E => HeaderAt(t).name = Blank
  BY HeaderEnd
<1> HIDE DEF E, st
<1>4. 0 \in S
  <2> DEFINE f == [t \in Nat |-> NotFound]
  <2>1. f \in [Nat -> V] /\ \A t \in Nat : f[t] = NotFound
    OBVIOUS
  <2> HIDE DEF f
  <2>2. \A t \in Nat : t + 0 >= E => f[t] = B(f, t)
    BY <1>1, <1>3, <2>1
  <2> QED
    BY <2>1, <2>2
<1>5. ASSUME NEW k \in Nat, k \in S
      PROVE  k + 1 \in S
  <2>1. PICK f \in [Nat -> V] : \A t \in Nat : t + k >= E => f[t] = B(f, t)
    BY <1>5
  <2>2. CASE k >= E
    <3>1. \A t \in Nat : t + k >= E
      BY <1>1, <2>2
    <3> HIDE DEF B
    <3>2. \A t \in Nat : t + (k + 1) >= E => f[t] = B(f, t)
      BY <2>1, <3>1
    <3> QED
      BY <3>2
  <2>3. CASE k < E
    <3> DEFINE w == E - (k + 1)
               g == [f EXCEPT ![w] = B(f, w)]
    <3>1. w \in Nat
      BY <1>1, <2>3
    <3>2. B(f, w) \in V
      <4> HIDE DEF w
      <4>1. w + BLOCK \in Nat /\ w + st(w) \in Nat
        BY <1>1, <1>2, <3>1
      <4>2. f[w + st(w)] \in V
        BY <4>1
      <4> QED
        BY <4>1, <4>2
    <3>3. g \in [Nat -> V] /\ g[w] = B(f, w) /\ \A t \in Nat : t # w => g[t] = f[t]
      <4> HIDE DEF w, B
      <4> QED
        BY <3>1, <3>2
    <3> HIDE DEF g
    <3>4. ASSUME NEW t \in Nat, t + (k + 1) >= E
          PROVE  g[t] = B(g, t)
      <4>1. t >= w /\ (t # w => t + k >= E)
        BY <1>1, <3>4
      <4>2. t + st(t) \in Nat /\ t + st(t) # w
        <5>1. st(t) \in Nat /\ st(t) >= BLOCK
          BY <1>2
        <5> HIDE DEF w
        <5> QED
          BY <1>1, <3>1, <4>1, <5>1
      <4> HIDE DEF w
      <4>3. B(g, t) = B(f, t)
        BY <3>3, <4>2
      <4>4. t # w => f[t] = B(f, t)
        BY <2>1, <4>1
      <4> HIDE DEF B
      <4> QED
        BY <3>3, <4>3, <4>4
    <3> HIDE DEF B
    <3> QED
      BY <3>3, <3>4
  <2> QED
    BY <1>1, <2>2, <2>3
<1>6. E \in S
  <2> HIDE DEF S
  <2> QED
    BY <1>1, <1>4, <1>5, NatInd
<1>7. PICK f \in [Nat -> V] : \A t \in Nat : t + E >= E => f[t] = B(f, t)
  <2> HIDE DEF B
  <2> QED
    BY <1>6
<1>8. \A t \in Nat : f[t] = B(f, t)
  <2>1. \A t \in Nat : t + E >= E
    BY <1>1
  <2> HIDE DEF B
  <2> QED
    BY <1>7, <2>1
<1> QED
  BY <1>8 DEF Walked, st

LEMMA getFileOffsetDef ==
    ASSUME archive \in Archives, NEW filename
    PROVE  \E f : Walked(f, filename) /\ getFileOffset(filename) = f[BLOCK]
<1> DEFINE B(f) == [t \in Nat |->
                       IF HeaderAt(t).name = Blank THEN NotFound
                       ELSE IF HeaderAt(t).name = filename THEN t + BLOCK
                            ELSE f[t + Step(decimalSize(HeaderAt(t).digits))]]
           g == CHOOSE f : f = B(f)
<1>1. PICK f \in [Nat -> Nat \cup {NotFound}] : Walked(f, filename)
  BY WalkExists
<1>2. f = B(f)
  <2>1. f = [t \in Nat |-> f[t]]
    OBVIOUS
  <2> QED
    BY <1>1, <2>1 DEF Walked
<1>3. getFileOffset(filename) = g[BLOCK]
  BY Zenon DEF getFileOffset
<1>4. g = B(g)
  <2> HIDE DEF B
  <2> QED
    BY <1>2
<1> HIDE DEF g
<1>5. Walked(g, filename)
  BY <1>4 DEF Walked
<1> QED
  BY <1>3, <1>5

\* The walk passes the contents of the first entry, each block of which leads
\* it on, then goes from header to header, and stops at the entry named
\* (dir.c:214-252).
LEMMA FoundThere ==
    ASSUME archive \in Archives, NEW i \in 2 .. Len(archive),
           \A k \in DOMAIN archive[1].data : LeadsOn(k, archive[i].name)
    PROVE  getFileOffset(archive[i].name) = At(i) + BLOCK
<1> DEFINE L == Len(archive)
           filename == archive[i].name
<1>1. L \in Nat /\ BLOCK \in Nat \ {0}
  BY ArchiveMade, TarfsAssumption
<1>2. PICK f : Walked(f, filename) /\ getFileOffset(filename) = f[BLOCK]
  BY getFileOffsetDef
<1>3. ASSUME NEW j \in 1 .. L
      PROVE  /\ archive[j].name # Blank
             /\ archive[j].name = filename => j = i
  <2>1. i \in 1 .. L
    BY <1>1
  <2> QED
    BY <2>1, ArchiveMade
<1>ty. \A j \in 1 .. L + 1 : At(j) \in Nat
  BY Headers
<1>led. ASSUME NEW k \in DOMAIN archive[1].data
        PROVE  LeadsOn(k, filename)
  OBVIOUS
<1> HIDE DEF L, filename
\* From the second block to the second header.
<1>4. f[BLOCK] = f[At(2)]
  <2> DEFINE data == archive[1].data
             D == Len(data)
  <2>1. 1 \in 1 .. L /\ 1 + 1 = 2
    BY <1>1 DEF L
  <2>2. D \in Nat /\ At(2) = BLOCK * (1 + D) /\ At(1) = 0
    <3>1. D \in Nat /\ At(1 + 1) = At(1) + BLOCK * (1 + D) /\ At(1) = 0
      BY <2>1, Headers DEF L
    <3>2. BLOCK * (1 + D) \in Nat
      <4>1. D \in Nat
        BY <3>1
      <4> HIDE DEF D
      <4> QED
        BY <1>1, <4>1
    <3> HIDE DEF D
    <3> QED
      BY <2>1, <3>1, <3>2
  <2>3. data \in Seq(Block) /\ DOMAIN data = 1 .. D
    <3>1. data \in Seq(Block)
      BY <2>1, ArchiveMade DEF L
    <3> QED
      BY <3>1
  <2>4. ASSUME NEW n \in 1 .. D
        PROVE  \E m \in Nat : f[BLOCK * n] = f[BLOCK * (n + 1 + m)] /\ n + 1 + m <= 1 + D
    <3> DEFINE h == data[n]
               size == decimalSize(h.digits)
    <3>1. h \in Block
      BY <2>3
    <3>2. h.digits \in Seq(0 .. 9)
      BY <3>1 DEF Block
    <3>3. size \in Nat
      BY <3>2, SizeIn
    <3>4. PICK m \in Nat : Step(size) = BLOCK * (1 + m)
      BY <3>3, StepUp
    <3>5. /\ h.name # Blank /\ h.name # filename
          /\ BLOCK * n + Step(size) <= At(2)
      BY <1>led, <2>3 DEF LeadsOn
    <3>6. HeaderAt(BLOCK * n) = h
      <4>1. n \in 0 .. Len(archive[1].data) /\ n # 0
        BY <2>2
      <4>2. HeaderAt(At(1) + BLOCK * n) = h
        BY <2>1, <4>1, BlockThere DEF L
      <4>3. At(1) + BLOCK * n = BLOCK * n
        BY <1>1, <2>2
      <4> QED
        BY <4>2, <4>3
    <3>7. BLOCK * n \in Nat
      BY <1>1
    <3>8. f[BLOCK * n] = f[BLOCK * n + Step(size)]
      BY <1>2, <3>5, <3>6, <3>7 DEF Walked
    <3> HIDE DEF size, h, D, data
    <3>9. BLOCK * n + BLOCK * (1 + m) = BLOCK * (n + 1 + m) /\ n \in Nat
      BY <1>1, <2>2
    <3>10. BLOCK * (n + 1 + m) <= BLOCK * (1 + D)
      BY <2>2, <3>4, <3>5, <3>9
    <3>11. n + 1 + m <= 1 + D
      <4> SUFFICES ASSUME n + 1 + m > 1 + D PROVE FALSE
        BY <2>2, <3>9
      <4>1. BLOCK * (n + 1 + m) > BLOCK * (1 + D)
        BY <1>1, <2>2, <3>9
      <4>2. BLOCK * (n + 1 + m) \in Nat /\ BLOCK * (1 + D) \in Nat
        BY <1>1, <2>2, <3>9
      <4> QED
        BY <3>10, <4>1, <4>2
    <3> QED
      BY <3>4, <3>8, <3>9, <3>11
  <2> HIDE DEF D, data
  <2> DEFINE S == {k \in Nat : \A n \in 1 .. 1 + D :
                                   1 + D - n <= k => f[BLOCK * n] = f[At(2)]}
  <2>5. 0 \in S
    <3>1. \A n \in 1 .. 1 + D : 1 + D - n <= 0 => n = 1 + D
      BY <2>2
    <3> QED
      BY <2>2, <3>1
  <2>6. ASSUME NEW k \in Nat, k \in S
        PROVE  k + 1 \in S
    <3> SUFFICES ASSUME NEW n \in 1 .. 1 + D, 1 + D - n <= k + 1
                 PROVE  f[BLOCK * n] = f[At(2)]
      OBVIOUS
    <3>1. CASE n = 1 + D
      BY <2>2, <3>1
    <3>2. CASE n # 1 + D
      <4>1. n \in 1 .. D
        BY <2>2, <3>2
      <4>2. PICK m \in Nat : f[BLOCK * n] = f[BLOCK * (n + 1 + m)] /\ n + 1 + m <= 1 + D
        BY <2>4, <4>1
      <4> DEFINE w == n + 1 + m
      <4>3. w \in 1 .. 1 + D /\ 1 + D - w <= k
        BY <2>2, <4>1, <4>2
      <4>4. f[BLOCK * n] = f[BLOCK * w]
        BY <4>2
      <4> HIDE DEF w
      <4>5. f[BLOCK * w] = f[At(2)]
        BY <2>6, <4>3
      <4> QED
        BY <4>4, <4>5
    <3> QED
      BY <3>1, <3>2
  <2>7. D \in S
    <3> HIDE DEF S
    <3> QED
      BY <2>2, <2>5, <2>6, NatInd
  <2>8. 1 \in 1 .. 1 + D /\ 1 + D - 1 <= D /\ BLOCK * 1 = BLOCK
    BY <1>1, <2>2
  <2>9. f[BLOCK * 1] = f[At(2)]
    BY <2>7, <2>8
  <2> QED
    BY <2>8, <2>9
\* From header to header.
<1>5. f[At(2)] = f[At(i)]
  <2> DEFINE S == {k \in Nat : 2 + k <= i => f[At(2)] = f[At(2 + k)]}
  <2>1. 0 \in S
    OBVIOUS
  <2>2. ASSUME NEW k \in Nat, k \in S
        PROVE  k + 1 \in S
    <3> SUFFICES ASSUME 2 + (k + 1) <= i
                 PROVE  f[At(2)] = f[At(2 + (k + 1))]
      OBVIOUS
    <3> DEFINE n == 2 + k
    <3>1. n \in 1 .. L /\ n # i /\ 2 + (k + 1) = n + 1 /\ n \in 1 .. L + 1
      BY <1>1 DEF L
    <3>2. f[At(2)] = f[At(n)]
      BY <2>2
    <3> HIDE DEF n
    <3>3. HeaderAt(At(n)) = archive[n] /\ At(n) \in Nat
      BY <1>ty, <3>1, HeaderThere DEF L
    <3>4. archive[n].name # Blank /\ archive[n].name # filename
      BY <1>3, <3>1
    <3>5. f[At(n)] = f[At(n) + Step(decimalSize(archive[n].digits))]
      BY <1>2, <3>3, <3>4 DEF Walked
    <3>6. At(n + 1) = At(n) + Step(decimalSize(archive[n].digits))
      BY <3>1, Headers DEF L
    <3> QED
      BY <3>1, <3>2, <3>5, <3>6
  <2>3. i - 2 \in S
    <3>1. i - 2 \in Nat
      OBVIOUS
    <3> HIDE DEF S
    <3> QED
      BY <2>1, <2>2, <3>1, NatInd
  <2>4. 2 + (i - 2) = i
    OBVIOUS
  <2> QED
    BY <2>3, <2>4
\* There it stops.
<1>6. f[At(i)] = At(i) + BLOCK
  <2>1. i \in 1 .. L /\ i \in 1 .. L + 1
    BY <1>1 DEF L
  <2>2. HeaderAt(At(i)) = archive[i] /\ At(i) \in Nat
    BY <1>ty, <2>1, HeaderThere DEF L
  <2>3. archive[i].name # Blank
    BY <1>3, <2>1
  <2> QED
    BY <1>2, <2>2, <2>3 DEF Walked, filename
<1> QED
  BY <1>2, <1>4, <1>5, <1>6 DEF filename

\* What names are made of: strings, those the code writes itself among them.
Component == STRING \cup {Nil, "rootfs"}

LEMMA Components ==
    /\ Nil \in Component /\ "rootfs" \in Component
    /\ \A s \in Seq(STRING) : s \in Seq(Component)
    /\ RootName \in Seq(Component) /\ Blank \in Seq(Component)
    /\ RootName # <<>> /\ Blank # <<>> /\ Last(RootName) = Nil /\ Last(Blank) = Nil
    /\ Nil \notin {".", "..", "rootfs"}
<1>0. Nil \notin {".", "..", "rootfs"}
  BY Zenon DEF Nil
<1>1. Nil \in Component /\ "rootfs" \in Component
  BY DEF Component
<1>2. \A s \in Seq(STRING) : s \in Seq(Component)
  <2>1. STRING \subseteq Component
    BY DEF Component
  <2> QED
    BY <2>1, SeqMonotonic
<1>3. /\ RootName \in Seq(Component) /\ Blank \in Seq(Component)
      /\ RootName # <<>> /\ Blank # <<>>
      /\ Last(RootName) = Nil /\ Last(Blank) = Nil
  BY <1>1 DEF RootName, Blank, Last
<1> QED
  BY <1>0, <1>1, <1>2, <1>3

\* Two names are one if their components are.
LEMMA SameName ==
    ASSUME NEW s \in Seq(Component), NEW t \in Seq(Component), Len(s) = Len(t),
           \A k \in 1 .. Len(s) : s[k] = t[k]
    PROVE  s = t
OBVIOUS

\* All but the last component of a name.
LEMMA FrontIs ==
    ASSUME NEW s \in Seq(Component), s # <<>>
    PROVE  /\ Len(s) \in Nat \ {0}
           /\ \A k \in 1 .. Len(s) : s[k] \in Component
           /\ Last(s) = s[Len(s)]
           /\ Front(s) \in Seq(Component) /\ Len(Front(s)) = Len(s) - 1
           /\ \A k \in 1 .. Len(s) - 1 : Front(s)[k] = s[k]
<1>1. Len(s) \in Nat \ {0} /\ \A k \in 1 .. Len(s) : s[k] \in Component
  OBVIOUS
<1>2. Last(s) = s[Len(s)]
  BY DEF Last
<1>3. Front(s) = SubSeq(s, 1, Len(s) - 1)
  BY DEF Front
<1>4. /\ SubSeq(s, 1, Len(s) - 1) \in Seq(Component)
      /\ Len(SubSeq(s, 1, Len(s) - 1)) = Len(s) - 1
      /\ \A k \in 1 .. Len(s) - 1 : SubSeq(s, 1, Len(s) - 1)[k] = s[k]
  <2> DEFINE n == Len(s) - 1
  <2>1. n \in Nat /\ n <= Len(s)
    BY <1>1
  <2> HIDE DEF n
  <2>2. /\ SubSeq(s, 1, n) \in Seq(Component) /\ Len(SubSeq(s, 1, n)) = n
        /\ \A k \in 1 .. n : SubSeq(s, 1, n)[k] = s[k]
    BY <2>1
  <2> QED
    BY <2>2 DEF n
<1> QED
  BY <1>1, <1>2, <1>3, <1>4

\* A name with a component instead of its last one.
LEMMA AppendFront ==
    ASSUME NEW s \in Seq(Component), s # <<>>, NEW c \in Component
    PROVE  /\ Append(Front(s), c) \in Seq(Component) /\ Append(Front(s), c) # <<>>
           /\ Len(Append(Front(s), c)) = Len(s)
           /\ \A k \in 1 .. Len(s) - 1 : Append(Front(s), c)[k] = s[k]
           /\ Append(Front(s), c)[Len(s)] = c
<1> DEFINE f == Front(s)
           n == Len(s)
<1>1. n \in Nat \ {0} /\ f \in Seq(Component) /\ Len(f) = n - 1
      /\ \A k \in 1 .. n - 1 : f[k] = s[k]
  BY FrontIs
<1> HIDE DEF f, n
<1>2. /\ Append(f, c) \in Seq(Component)
      /\ Len(Append(f, c)) = (n - 1) + 1
      /\ \A k \in 1 .. n - 1 : Append(f, c)[k] = f[k]
      /\ Append(f, c)[(n - 1) + 1] = c
  BY <1>1
<1>3. (n - 1) + 1 = n
  BY <1>1
<1> QED
  BY <1>1, <1>2, <1>3 DEF f, n

\* A name appended to that of a directory.
LEMMA strcatIs ==
    ASSUME NEW s \in Seq(Component), s # <<>>, Last(s) = Nil,
           NEW t \in Seq(Component), t # <<>>
    PROVE  /\ strcat(s, t) \in Seq(Component) /\ strcat(s, t) # <<>>
           /\ Len(strcat(s, t)) = (Len(s) - 1) + Len(t)
           /\ \A k \in 1 .. Len(s) - 1 : strcat(s, t)[k] = s[k]
           /\ \A k \in 1 .. Len(t) : strcat(s, t)[(Len(s) - 1) + k] = t[k]
           /\ Last(strcat(s, t)) = Last(t)
<1> DEFINE f == Front(s)
           a == <<Head(t)>>
           b == Tail(t)
           m == Len(s) - 1
           n == Len(t)
           r == strcat(s, t)
<1>1. m \in Nat /\ f \in Seq(Component) /\ Len(f) = m /\ \A k \in 1 .. m : f[k] = s[k]
  BY FrontIs
<1>2. n \in Nat \ {0} /\ \A k \in 1 .. n : t[k] \in Component
  OBVIOUS
<1>3. /\ a \in Seq(Component) /\ Len(a) = 1 /\ a[1] = t[1]
      /\ b \in Seq(Component) /\ Len(b) = n - 1
      /\ \A k \in 1 .. n - 1 : b[k] = t[k + 1]
  BY <1>2
<1>4. r = (f \o a) \o b
  BY DEF strcat
<1> HIDE DEF f, a, b, m, n, r
<1> DEFINE fa == f \o a
<1>5. /\ fa \in Seq(Component) /\ Len(fa) = m + 1
      /\ \A k \in 1 .. m : fa[k] = s[k]
      /\ fa[m + 1] = t[1]
  <2>1. fa \in Seq(Component) /\ Len(fa) = m + 1
    <3>1. fa \in Seq(Component) /\ Len(fa) = Len(f) + Len(a)
      BY <1>1, <1>3, ConcatProperties, Zenon
    <3> QED
      BY <1>1, <1>3, <3>1
  <2>2. \A k \in 1 .. m : fa[k] = f[k]
    BY <1>1, <1>3
  <2>3. fa[m + 1] = a[1]
    <3>1. \A k \in 1 .. Len(f) + Len(a) :
              fa[k] = IF k <= Len(f) THEN f[k] ELSE a[k - Len(f)]
      BY <1>1, <1>3, ConcatProperties
    <3>2. m + 1 \in 1 .. m + 1 /\ ~ (m + 1 <= m) /\ (m + 1) - m = 1
      BY <1>1
    <3> HIDE DEF fa
    <3> QED
      BY <1>1, <1>3, <3>1, <3>2
  <2> QED
    BY <1>1, <1>3, <2>1, <2>2, <2>3
<1> HIDE DEF fa
<1>6. r = fa \o b
  BY <1>4 DEF fa
<1>7. r \in Seq(Component) /\ Len(r) = (m + 1) + (n - 1)
  BY <1>2, <1>3, <1>5, <1>6
<1>8. \A k \in 1 .. m + 1 : r[k] = fa[k]
  BY <1>1, <1>2, <1>3, <1>5, <1>6
<1>9. \A k \in 1 .. n - 1 : r[(m + 1) + k] = b[k]
  BY <1>1, <1>2, <1>3, <1>5, <1>6
<1>10. Len(r) = m + n /\ Len(r) # 0
  BY <1>1, <1>2, <1>7
<1>11. \A k \in 1 .. m : r[k] = s[k]
  BY <1>1, <1>5, <1>8
<1>12. ASSUME NEW k \in 1 .. n
       PROVE  r[m + k] = t[k]
  <2>1. CASE k = 1
    BY <1>1, <1>5, <1>8, <2>1
  <2>2. CASE k # 1
    <3>1. k - 1 \in 1 .. n - 1 /\ (m + 1) + (k - 1) = m + k /\ (k - 1) + 1 = k
      BY <1>1, <1>2, <2>2
    <3> QED
      BY <1>3, <1>9, <3>1
  <2> QED
    BY <2>1, <2>2
<1>13. Last(r) = Last(t)
  <2>1. Last(r) = r[m + n] /\ Last(t) = t[n]
    BY <1>10 DEF Last, n
  <2>2. n \in 1 .. n
    BY <1>2
  <2> QED
    BY <1>12, <2>1, <2>2
<1>14. r # <<>>
  BY <1>10
<1> QED
  BY <1>7, <1>10, <1>11, <1>12, <1>13, <1>14 DEF r, m, n

\* The name of a directory.
LEMMA DirNameIs ==
    ASSUME NEW s \in Seq(Component), s # <<>>, s # Blank
    PROVE  LET n == IF Last(s) = Nil THEN Len(s) - 1 ELSE Len(s)
           IN  /\ n \in Nat \ {0} /\ n <= Len(s)
               /\ DirName(s) \in Seq(Component) /\ DirName(s) # <<>>
               /\ Len(DirName(s)) = n
               /\ \A k \in 1 .. n - 1 : DirName(s)[k] = s[k]
               /\ DirName(s)[n] = Nil
               /\ Last(DirName(s)) = Nil
<1> DEFINE n == IF Last(s) = Nil THEN Len(s) - 1 ELSE Len(s)
           own == IF Last(s) = Nil THEN Front(s) ELSE s
           r == DirName(s)
<1>1. Len(s) \in Nat \ {0} /\ Last(s) = s[Len(s)]
  BY FrontIs
<1>2. Last(s) = Nil => Len(s) # 1
  <2> SUFFICES ASSUME Last(s) = Nil, Len(s) = 1 PROVE FALSE
    OBVIOUS
  <2>1. s[1] = Nil
    BY <1>1
  <2>2. s = <<Nil>>
    BY <2>1
  <2> QED
    BY <2>2 DEF Blank
<1>3. /\ own \in Seq(Component) /\ own # <<>> /\ Len(own) = n /\ n \in Nat \ {0}
      /\ n <= Len(s) /\ \A k \in 1 .. n : own[k] = s[k]
  <2>1. CASE Last(s) = Nil
    <3>1. /\ Front(s) \in Seq(Component) /\ Len(Front(s)) = Len(s) - 1
          /\ \A k \in 1 .. Len(s) - 1 : Front(s)[k] = s[k]
      BY FrontIs
    <3>2. Len(s) - 1 \in Nat \ {0}
      BY <1>1, <1>2, <2>1
    <3>3. Front(s) # <<>>
      BY <3>1, <3>2
    <3> QED
      BY <1>1, <2>1, <3>1, <3>2, <3>3
  <2>2. CASE Last(s) # Nil
    BY <1>1, <2>2
  <2> QED
    BY <2>1, <2>2
<1>4. r = Append(Front(own), Nil)
  BY DEF DirName
<1> HIDE DEF own, n, r
<1>5. /\ r \in Seq(Component) /\ r # <<>> /\ Len(r) = n
      /\ \A k \in 1 .. n - 1 : r[k] = own[k]
      /\ r[n] = Nil
  <2> QED
    BY <1>3, <1>4, Components, AppendFront
<1>6. \A k \in 1 .. n - 1 : r[k] = s[k]
  BY <1>3, <1>5
<1>7. Last(r) = Nil
  BY <1>5 DEF Last
<1> QED
  BY <1>3, <1>5, <1>6, <1>7 DEF n, r

\* A name of the archive below the root.
LEMMA FullIs ==
    ASSUME NEW n \in Seq(Component), n # <<>>, n # Blank
    PROVE  LET r == strcat(RootName, n)
           IN  /\ Len(n) \in Nat \ {0}
               /\ r \in Seq(Component) /\ r # <<>> /\ r # Blank /\ r # RootName
               /\ Len(r) = Len(n) + 1 /\ r[1] = "rootfs"
               /\ \A k \in 1 .. Len(n) : r[k + 1] = n[k]
               /\ Last(r) = Last(n)
<1> DEFINE r == strcat(RootName, n)
<1>1. RootName \in Seq(Component) /\ RootName # <<>> /\ Last(RootName) = Nil
  BY Components
<1>2. /\ r \in Seq(Component) /\ r # <<>>
      /\ Len(r) = (Len(RootName) - 1) + Len(n)
      /\ \A k \in 1 .. Len(RootName) - 1 : r[k] = RootName[k]
      /\ \A k \in 1 .. Len(n) : r[(Len(RootName) - 1) + k] = n[k]
      /\ Last(r) = Last(n)
  BY <1>1, strcatIs
<1>3. Len(RootName) = 2 /\ RootName[1] = "rootfs" /\ RootName[2] = Nil
      /\ Len(Blank) = 1 /\ Blank[1] = Nil
  BY DEF RootName, Blank
<1>4. Len(n) \in Nat \ {0}
  BY <1>1
<1> HIDE DEF r
<1>5. Len(r) = Len(n) + 1 /\ r[1] = "rootfs" /\ \A k \in 1 .. Len(n) : r[k + 1] = n[k]
  <2>1. \A k \in 1 .. Len(n) : 1 + k = k + 1
    OBVIOUS
  <2>2. \A k \in 1 .. Len(n) : r[1 + k] = n[k]
    BY <1>2, <1>3
  <2> QED
    BY <1>2, <1>3, <1>4, <2>1, <2>2
<1>len. Len(r) = Len(n) + 1
  BY <1>5
<1>6. r # Blank
  <2>1. Len(r) # 1
    BY <1>4, <1>len
  <2> QED
    BY <1>3, <2>1, Zenon
<1>7. r # RootName
  <2>0. Len(r) = 2 => Len(n) = 1
    <3> DEFINE a == Len(r)
               b == Len(n)
    <3>1. b \in Nat \ {0} /\ a = b + 1
      BY <1>4, <1>len
    <3> HIDE DEF a, b
    <3>2. a = 2 => b = 1
      BY <3>1
    <3> QED
      BY <3>2 DEF a, b
  <2> SUFFICES ASSUME r = RootName PROVE FALSE
    OBVIOUS
  <2>1. Len(n) = 1 /\ n[1] = Nil
    <3>1. Len(r) = 2 /\ r[2] = Nil
      BY <1>3
    <3>2. Len(n) = 1
      BY <2>0, <3>1, Zenon
    <3>3. 1 \in 1 .. Len(n) /\ 1 + 1 = 2
      BY <3>2
    <3>4. r[1 + 1] = n[1]
      BY <1>5, <3>3
    <3> QED
      BY <3>1, <3>2, <3>3, <3>4
  <2>2. n = Blank
    BY <1>1, <1>3, <2>1, Components, SameName
  <2> QED
    BY <2>2
<1> QED
  BY <1>1, <1>2, <1>4, <1>5, <1>6, <1>7 DEF r

\* The directory of a name below the root.
LEMMA DirNameFull ==
    ASSUME NEW n \in Seq(Component), n # <<>>, n # Blank
    PROVE  DirName(strcat(RootName, n)) = strcat(RootName, DirName(n))
<1> DEFINE r == strcat(RootName, n)
           d == DirName(n)
           p == DirName(r)
           q == strcat(RootName, d)
           m == IF Last(n) = Nil THEN Len(n) - 1 ELSE Len(n)
           l == IF Last(r) = Nil THEN Len(r) - 1 ELSE Len(r)
<1>1. /\ Len(n) \in Nat \ {0}
      /\ r \in Seq(Component) /\ r # <<>> /\ r # Blank
      /\ Len(r) = Len(n) + 1 /\ r[1] = "rootfs"
      /\ \A k \in 1 .. Len(n) : r[k + 1] = n[k]
      /\ Last(r) = Last(n)
  BY FullIs
<1>2. /\ m \in Nat \ {0} /\ m <= Len(n) /\ d \in Seq(Component) /\ d # <<>> /\ Len(d) = m
      /\ \A k \in 1 .. m - 1 : d[k] = n[k]
      /\ d[m] = Nil
  <2> HIDE DEF r
  <2> QED
    BY <1>1, DirNameIs
<1>3. /\ l \in Nat \ {0} /\ l <= Len(r) /\ p \in Seq(Component) /\ Len(p) = l
      /\ \A k \in 1 .. l - 1 : p[k] = r[k]
      /\ p[l] = Nil
  <2> HIDE DEF r
  <2> QED
    BY <1>1, DirNameIs
<1> HIDE DEF r, d, p
<1>4. l = m + 1
  BY <1>1
<1>5. /\ q \in Seq(Component) /\ Len(q) = (Len(RootName) - 1) + Len(d)
      /\ \A k \in 1 .. Len(RootName) - 1 : q[k] = RootName[k]
      /\ \A k \in 1 .. Len(d) : q[(Len(RootName) - 1) + k] = d[k]
  BY <1>2, Components, strcatIs
<1>6. Len(RootName) = 2 /\ RootName[1] = "rootfs"
  BY DEF RootName
<1> HIDE DEF q, m, l
<1>7. Len(q) = 1 + m /\ q[1] = "rootfs" /\ \A k \in 1 .. m : q[1 + k] = d[k]
  BY <1>2, <1>5, <1>6
<1>8. ASSUME NEW k \in 1 .. l
      PROVE  p[k] = q[k]
  <2>1. CASE k = 1
    BY <1>1, <1>2, <1>3, <1>4, <1>7, <2>1
  <2>2. CASE k = l
    <3>1. k = 1 + m /\ m \in 1 .. m
      BY <1>2, <1>4, <2>2
    <3> QED
      BY <1>2, <1>3, <1>7, <2>2, <3>1
  <2>3. CASE k # 1 /\ k # l
    <3> DEFINE j == k - 1
    <3>1. j \in 1 .. m - 1 /\ j \in 1 .. m /\ j \in 1 .. Len(n) /\ k = 1 + j /\ k = j + 1
          /\ k \in 1 .. l - 1
      BY <1>1, <1>2, <1>4, <2>3
    <3> HIDE DEF j
    <3>2. p[k] = n[j]
      BY <1>1, <1>3, <3>1
    <3>3. q[k] = n[j]
      BY <1>2, <1>7, <3>1
    <3> QED
      BY <3>2, <3>3
  <2> QED
    BY <2>1, <2>2, <2>3
<1>9. Len(p) = Len(q)
  BY <1>2, <1>3, <1>4, <1>7
<1>10. p = q
  BY <1>3, <1>5, <1>8, <1>9, SameName
<1> QED
  BY <1>10 DEF p, q, r, d

\* The root appended to itself.
LEMMA RootItself == strcat(RootName, Blank) = RootName
<1>1. /\ strcat(RootName, Blank) \in Seq(Component)
      /\ Len(strcat(RootName, Blank)) = (Len(RootName) - 1) + Len(Blank)
      /\ \A k \in 1 .. Len(RootName) - 1 : strcat(RootName, Blank)[k] = RootName[k]
      /\ \A k \in 1 .. Len(Blank) :
             strcat(RootName, Blank)[(Len(RootName) - 1) + k] = Blank[k]
  BY Components, strcatIs
<1> DEFINE r == strcat(RootName, Blank)
<1> HIDE DEF r
<1>2. Len(RootName) = 2 /\ RootName[1] = "rootfs" /\ RootName[2] = Nil
      /\ Len(Blank) = 1 /\ Blank[1] = Nil
  BY DEF RootName, Blank
<1>3. r \in Seq(Component) /\ Len(r) = 2 /\ r[1] = RootName[1] /\ r[2] = RootName[2]
  <2>1. 1 \in 1 .. Len(RootName) - 1 /\ 1 \in 1 .. Len(Blank) /\ (2 - 1) + 1 = 2
    BY <1>2
  <2> QED
    BY <1>1, <1>2, <2>1 DEF r
<1>4. \A k \in 1 .. 2 : r[k] = RootName[k]
  BY <1>3
<1>5. r = RootName
  BY <1>2, <1>3, <1>4, Components, SameName
<1> QED
  BY <1>5 DEF r

\* The directory of an entry is the root or an entry before it.
LEMMA ParentListed ==
    ASSUME archive \in Archives, NEW i \in 1 .. Len(archive)
    PROVE  /\ FullName(i) \in Seq(Component) /\ FullName(i) # <<>>
           /\ FullName(i) # Blank /\ FullName(i) # RootName
           /\ Len(FullName(i)) = Len(archive[i].name) + 1
           /\ Last(FullName(i)) = Nil <=> archive[i].flag = DirFlag
           /\ \/ DirName(FullName(i)) = RootName
              \/ \E j \in 1 .. i - 1 : /\ DirName(FullName(i)) = FullName(j)
                                       /\ archive[j].flag = DirFlag
<1> DEFINE n == archive[i].name
<1>1. /\ n \in Seq(Component) /\ n # <<>> /\ n # Blank
      /\ Last(n) = Nil <=> archive[i].flag = DirFlag
      /\ \/ DirName(n) = Blank
         \/ \E j \in 1 .. i - 1 : archive[j].name = DirName(n)
  <2>1. n \in Seq(Component)
    <3>1. n \in Seq(STRING)
      BY ArchiveMade
    <3> HIDE DEF n
    <3> QED
      BY <3>1, Components
  <2> QED
    BY <2>1, ArchiveMade
<1>2. /\ FullName(i) = strcat(RootName, n)
      /\ DirName(FullName(i)) = strcat(RootName, DirName(n))
  BY <1>1, DirNameFull DEF FullName
<1>3. ASSUME NEW j \in 1 .. i - 1, archive[j].name = DirName(n)
      PROVE  DirName(FullName(i)) = FullName(j) /\ archive[j].flag = DirFlag
  <2>1. j \in 1 .. Len(archive)
    <3>1. Len(archive) \in Nat
      BY ArchiveMade
    <3> QED
      BY <3>1
  <2>2. Last(archive[j].name) = Nil
    <3>1. n \in Seq(Component)
      BY <1>1, Components
    <3> HIDE DEF n
    <3>2. Last(DirName(n)) = Nil
      BY <1>1, <3>1, DirNameIs
    <3> QED
      BY <1>3, <3>2
  <2>3. archive[j].flag = DirFlag
    BY <2>1, <2>2, ArchiveMade
  <2> QED
    BY <1>2, <1>3, <2>3 DEF FullName
<1>4. DirName(n) = Blank => DirName(FullName(i)) = RootName
  BY <1>2, RootItself
<1>5. /\ FullName(i) \in Seq(Component) /\ FullName(i) # <<>>
      /\ FullName(i) # Blank /\ FullName(i) # RootName
      /\ Len(FullName(i)) = Len(n) + 1
      /\ Last(FullName(i)) = Last(n)
  <2> HIDE DEF n
  <2> QED
    BY <1>1, <1>2, FullIs
<1> QED
  BY <1>1, <1>3, <1>4, <1>5

\* The least of some numbers.
LEMMA MinIs ==
    ASSUME NEW I \in SUBSET Nat, I # {}
    PROVE  Min(I) \in I /\ \A y \in I : Min(I) <= y
<1>1. \E x \in I : \A y \in I : x <= y
  BY Least
<1>2. Min(I) = CHOOSE x \in I : \A y \in I : x <= y
  BY DEF Min
<1> QED
  BY <1>1, <1>2

\* What the table holds.
Node == [name : Seq(Component), size : Nat, flagType : {DirFlag, FileFlag},
         headerAddress : Nat, par : 0 .. ENTRIES]

\* The first entry of a name.
LEMMA NamedIs ==
    ASSUME table \in Seq(Node), NEW name
    PROVE  /\ Named(name) \in 0 .. Len(table)
           /\ Named(name) = 0 => \A i \in 1 .. Len(table) : table[i].name # name
           /\ Named(name) # 0 =>
                 /\ table[Named(name)].name = name
                 /\ \A j \in 1 .. Named(name) - 1 : table[j].name # name
<1> DEFINE I == {i \in 1 .. Len(table) : table[i].name = name}
<1>1. Named(name) = IF I # {} THEN Min(I) ELSE 0
  BY DEF Named, SelectInSeq
<1>2. Len(table) \in Nat
  OBVIOUS
<1>3. I \in SUBSET Nat
  BY <1>2
<1>4. CASE I = {}
  BY <1>1, <1>2, <1>4
<1>5. CASE I # {}
  <2>1. Min(I) \in I /\ \A y \in I : Min(I) <= y
    <3> HIDE DEF I
    <3> QED
      BY <1>3, <1>5, MinIs
  <2> DEFINE n == Min(I)
  <2>2. n \in 1 .. Len(table) /\ table[n].name = name /\ Named(name) = n
    BY <1>1, <1>5, <2>1
  <2>3. ASSUME NEW j \in 1 .. n - 1
        PROVE  table[j].name # name
    <3>1. j \in 1 .. Len(table) /\ ~ (n <= j)
      <4> HIDE DEF n
      <4> QED
        BY <1>2, <2>2
    <3> QED
      BY <2>1, <3>1
  <2> HIDE DEF n
  <2> QED
    BY <1>2, <2>2, <2>3
<1> QED
  BY <1>4, <1>5

\* The first entry of a name and type.
LEMMA LookupIs ==
    ASSUME table \in Seq(Node), NEW name, NEW flagType
    PROVE  /\ Lookup(name, flagType) \in 0 .. Len(table)
           /\ Lookup(name, flagType) = 0 =>
                 \A i \in 1 .. Len(table) :
                     ~ (table[i].name = name /\ table[i].flagType = flagType)
           /\ Lookup(name, flagType) # 0 =>
                 /\ table[Lookup(name, flagType)].name = name
                 /\ table[Lookup(name, flagType)].flagType = flagType
<1> DEFINE I == {i \in 1 .. Len(table) :
                    table[i].name = name /\ table[i].flagType = flagType}
           n == Lookup(name, flagType)
<1>1. n = IF I # {} THEN Min(I) ELSE 0
  BY DEF Lookup, SelectInSeq
<1>2. Len(table) \in Nat
  OBVIOUS
<1>3. I \in SUBSET Nat
  BY <1>2
<1> HIDE DEF n
<1>4. CASE I = {}
  BY <1>1, <1>2, <1>4 DEF n
<1>5. CASE I # {}
  <2>1. Min(I) \in I
    <3> HIDE DEF I
    <3> QED
      BY <1>3, <1>5, MinIs
  <2>2. /\ n \in 1 .. Len(table)
        /\ table[n].name = name /\ table[n].flagType = flagType
    BY <1>1, <1>5, <2>1
  <2> HIDE DEF I
  <2>3. n \in 0 .. Len(table) /\ n # 0
    BY <1>2, <2>2
  <2> QED
    BY <2>2, <2>3 DEF n
<1> QED
  BY <1>4, <1>5

-----------------------------------------------------------------------------
(* The table holds the archive.                                            *)

\* Entry i of the table is that of the archive, under its directory.
Entered(i) ==
    /\ table[i + 1].name = FullName(i)
    /\ table[i + 1].flagType = archive[i].flag
    /\ table[i + 1].par \in 0 .. i - 1
    /\ table[table[i + 1].par + 1].name = DirName(FullName(i))
    /\ \A j \in 1 .. table[i + 1].par : table[j].name # DirName(FullName(i))

TableInv ==
    /\ archive \in Archives
    /\ machine \in {"boots", "runs", "halted", "exited"}
    /\ table \in Seq(Node)
    /\ Len(table) \in 1 .. Len(archive) + 1
    /\ table[1] = RootNode
    /\ \A i \in 1 .. Len(table) - 1 : Entered(i)
    /\ temp = At(Len(table))
    /\ machine # "boots" => Len(table) = Len(archive) + 1
    /\ machine = "boots" => out = Nothing

LEMMA RootTypes == RootNode \in Node
BY Components, TarfsAssumption DEF RootNode, Node, DirFlag, FileFlag

LEMMA TableInitially == DirInit => TableInv
<1> SUFFICES ASSUME DirInit PROVE TableInv
  OBVIOUS
<1>1. /\ archive \in Archives /\ temp = 0 /\ table = <<RootNode>> /\ machine = "boots"
      /\ out = Nothing
  BY DEF DirInit, TarInit
<1>2. table \in Seq(Node) /\ Len(table) = 1 /\ table[1] = RootNode
  BY <1>1, RootTypes
<1>3. Len(archive) \in Nat /\ At(1) = 0
  BY <1>1, ArchiveMade, Headers
<1>4. \A i \in 1 .. Len(table) - 1 : Entered(i)
  <2>1. 1 .. Len(table) - 1 = {}
    BY <1>2
  <2> QED
    BY <2>1
<1>5. Len(table) \in 1 .. Len(archive) + 1
  BY <1>2, <1>3
<1> QED
  BY <1>1, <1>2, <1>3, <1>4, <1>5 DEF TableInv

\* While the walk is not at the end it is at the next header.
LEMMA AtHeader ==
    ASSUME TableInv
    PROVE  IF Len(table) = Len(archive) + 1
           THEN HeaderAt(temp).name = Blank
           ELSE /\ Len(table) \in 1 .. Len(archive)
                /\ HeaderAt(temp) = archive[Len(table)]
                /\ HeaderAt(temp).name # Blank
<1>1. /\ archive \in Archives /\ Len(archive) \in Nat
      /\ Len(table) \in 1 .. Len(archive) + 1 /\ temp = At(Len(table))
  BY ArchiveMade DEF TableInv
<1>2. CASE Len(table) = Len(archive) + 1
  <2>1. temp \in Nat
    BY <1>1, Headers
  <2>2. temp >= At(Len(archive) + 1)
    BY <1>1, <1>2, <2>1
  <2> QED
    BY <1>1, <1>2, <2>1, <2>2, HeaderEnd
<1>3. CASE Len(table) # Len(archive) + 1
  <2>1. Len(table) \in 1 .. Len(archive)
    BY <1>1, <1>3
  <2>2. HeaderAt(temp) = archive[Len(table)]
    BY <1>1, <2>1, HeaderThere
  <2>3. archive[Len(table)].name # Blank
    BY <1>1, <2>1, ArchiveMade
  <2> QED
    BY <1>3, <2>1, <2>2, <2>3
<1> QED
  BY <1>2, <1>3

\* getPar finds the directory of the entry that is read.
LEMMA ParentFound ==
    ASSUME TableInv, NEW k \in 1 .. Len(archive), k = Len(table)
    PROVE  /\ getPar(FullName(k), archive[k].flag) \in 0 .. k - 1
           /\ table[getPar(FullName(k), archive[k].flag) + 1].name = DirName(FullName(k))
           /\ \A j \in 1 .. getPar(FullName(k), archive[k].flag) :
                  table[j].name # DirName(FullName(k))
<1> DEFINE up == DirName(FullName(k))
           p == Named(up)
           g == getPar(FullName(k), archive[k].flag)
<1>1. /\ archive \in Archives /\ table \in Seq(Node) /\ k \in Nat \ {0}
      /\ table[1] = RootNode /\ \A i \in 1 .. k - 1 : Entered(i)
  BY ArchiveMade DEF TableInv
<1>2. g = IF p = 0 THEN ENTRIES ELSE p - 1
  <2>1. archive[k].flag = FileFlag => Last(FullName(k)) # Nil
    <3>1. archive[k].flag # DirFlag => Last(FullName(k)) # Nil
      BY <1>1, ParentListed
    <3> QED
      BY <3>1 DEF DirFlag, FileFlag
  <2>2. archive[k].flag = FileFlag => Append(Front(FullName(k)), Nil) = up
    BY <2>1 DEF DirName
  <2> HIDE DEF up
  <2>3. (IF archive[k].flag = FileFlag THEN Append(Front(FullName(k)), Nil)
         ELSE DirName(FullName(k))) = up
    BY <2>2 DEF up
  <2> QED
    BY <2>3 DEF getPar
<1>3. p # 0
  <2>1. PICK i \in 1 .. k : table[i].name = up
    <3>1. CASE up = RootName
      BY <1>1, <3>1 DEF RootNode
    <3>2. CASE up # RootName
      <4>1. PICK j \in 1 .. k - 1 : up = FullName(j)
        BY <1>1, <3>2, ParentListed
      <4>2. table[j + 1].name = FullName(j) /\ j + 1 \in 1 .. k
        BY <1>1, <4>1 DEF Entered
      <4> QED
        BY <4>1, <4>2
    <3> QED
      BY <3>1, <3>2
  <2> HIDE DEF up, p
  <2> QED
    BY <1>1, <2>1, NamedIs DEF p
<1> HIDE DEF up
<1>4. /\ p \in 1 .. k /\ table[p].name = up
      /\ \A j \in 1 .. p - 1 : table[j].name # up
  <2>1. /\ p \in 0 .. Len(table) /\ table[p].name = up
        /\ \A j \in 1 .. p - 1 : table[j].name # up
    BY <1>1, <1>3, NamedIs
  <2> HIDE DEF p
  <2> QED
    BY <1>1, <1>3, <2>1
<1> HIDE DEF p, g
<1>5. g = p - 1 /\ g + 1 = p /\ g \in 0 .. k - 1
  BY <1>1, <1>2, <1>3, <1>4
<1>6. table[g + 1].name = up /\ \A j \in 1 .. g : table[j].name # up
  BY <1>4, <1>5
<1> QED
  BY <1>5, <1>6 DEF up, g

\* An entry stays entered when the table grows.
LEMMA EntersMore ==
    ASSUME TableInv, NEW e \in Node, table' = Append(table, e), archive' = archive
    PROVE  \A i \in 1 .. Len(table) - 1 : Entered(i)'
<1>1. /\ table \in Seq(Node) /\ Len(table) \in Nat
      /\ \A i \in 1 .. Len(table) - 1 : Entered(i)
  BY DEF TableInv
<1>2. \A i \in 1 .. Len(table) : table'[i] = table[i]
  BY <1>1
<1> SUFFICES ASSUME NEW i \in 1 .. Len(table) - 1
             PROVE  Entered(i)'
  OBVIOUS
<1> DEFINE p == table[i + 1].par
<1>3. /\ table[i + 1].name = FullName(i) /\ table[i + 1].flagType = archive[i].flag
      /\ p \in 0 .. i - 1 /\ table[p + 1].name = DirName(FullName(i))
      /\ \A j \in 1 .. p : table[j].name # DirName(FullName(i))
  BY <1>1 DEF Entered
<1>4. i + 1 \in 1 .. Len(table)
  BY <1>1
<1>5. table'[i + 1] = table[i + 1]
  BY <1>2, <1>4
<1> HIDE DEF p
<1>6. p + 1 \in 1 .. Len(table) /\ \A j \in 1 .. p : j \in 1 .. Len(table)
  BY <1>1, <1>3
<1>7. table'[p + 1] = table[p + 1] /\ \A j \in 1 .. p : table'[j] = table[j]
  BY <1>2, <1>6
<1>8. FullName(i)' = FullName(i)
  BY DEF FullName
<1>9. table'[i + 1].par = p
  BY <1>5 DEF p
<1>10. /\ table'[i + 1].name = FullName(i)'
       /\ table'[i + 1].flagType = archive'[i].flag
       /\ p \in 0 .. i - 1
       /\ table'[p + 1].name = DirName(FullName(i)')
       /\ \A j \in 1 .. p : table'[j].name # DirName(FullName(i)')
  BY <1>3, <1>5, <1>7, <1>8
<1> QED
  BY <1>9, <1>10 DEF Entered

\* One header of the walk at boot.
LEMMA ReadHeaderKeeps ==
    ASSUME TableInv, ReadHeader, UNCHANGED <<cwd, out, wiped>>
    PROVE  TableInv'
<1>0. PICK k \in Nat : k = Len(table)
  BY DEF TableInv
<1> DEFINE h == archive[k]
           g == getPar(FullName(k), h.flag)
           e == [name |-> FullName(k), size |-> decimalSize(h.digits),
                 flagType |-> h.flag, headerAddress |-> temp, par |-> g]
<1>1. /\ archive \in Archives /\ Len(archive) \in Nat \ {0} /\ Len(archive) + 1 < ENTRIES
      /\ table \in Seq(Node) /\ k \in Nat \ {0} /\ temp = At(k) /\ table[1] = RootNode
      /\ ENTRIES \in Nat
  BY <1>0, ArchiveMade, TarfsAssumption DEF TableInv
<1>2. k \in 1 .. Len(archive) /\ HeaderAt(temp) = h
  BY <1>0, AtHeader DEF ReadHeader
<1>3. /\ machine = "boots" /\ machine' = machine /\ archive' = archive /\ out' = out
      /\ table' = Append(table, e) /\ temp' = temp + Step(decimalSize(h.digits))
  BY <1>2 DEF ReadHeader, FullName
<1>4. /\ g \in 0 .. k - 1 /\ table[g + 1].name = DirName(FullName(k))
      /\ \A j \in 1 .. g : table[j].name # DirName(FullName(k))
  BY <1>0, <1>2, ParentFound
<1>5. e \in Node
  <2>1. FullName(k) \in Seq(Component)
    BY <1>1, <1>2, ParentListed
  <2>2. h.flag \in {DirFlag, FileFlag} /\ h.digits \in Seq(0 .. 7)
    BY <1>1, <1>2, ArchiveMade
  <2>3. decimalSize(h.digits) \in Nat
    BY <2>2, SizeRead
  <2>4. temp \in Nat
    <3>1. k \in 1 .. Len(archive) + 1
      BY <1>1, <1>2
    <3> QED
      BY <1>1, <3>1, Headers
  <2>5. g \in 0 .. ENTRIES
    <3> HIDE DEF g
    <3> QED
      BY <1>1, <1>2, <1>4
  <2> HIDE DEF g, h
  <2> QED
    BY <2>1, <2>2, <2>3, <2>4, <2>5 DEF Node
<1>6. e.name = FullName(k) /\ e.flagType = archive[k].flag /\ e.par = g
  OBVIOUS
<1> HIDE DEF e
<1>7. /\ table' \in Seq(Node) /\ Len(table') = k + 1 /\ table'[k + 1] = e
      /\ \A i \in 1 .. k : table'[i] = table[i]
  BY <1>0, <1>1, <1>3, <1>5
<1>8. temp' = At(Len(table))'
  <2>1. At(k + 1) = At(k) + Step(decimalSize(h.digits))
    BY <1>1, <1>2, Headers
  <2>2. At(Len(table))' = At(k + 1)
    BY <1>3, <1>7 DEF At
  <2> QED
    BY <1>1, <1>3, <2>1, <2>2
<1>9. Entered(k)'
  <2>1. FullName(k)' = FullName(k)
    BY <1>3 DEF FullName
  <2>2. PICK p : p = g
    OBVIOUS
  <2> HIDE DEF g
  <2>3. p + 1 \in 1 .. k /\ \A j \in 1 .. p : j \in 1 .. k
    BY <1>1, <1>4, <2>2
  <2>4. table'[p + 1] = table[p + 1] /\ \A j \in 1 .. p : table'[j] = table[j]
    BY <1>7, <2>3
  <2>5. table'[k + 1].par = p
    BY <1>6, <1>7, <2>2
  <2>6. /\ table'[k + 1].name = FullName(k)'
        /\ table'[k + 1].flagType = archive'[k].flag
        /\ p \in 0 .. k - 1
        /\ table'[p + 1].name = DirName(FullName(k)')
        /\ \A j \in 1 .. p : table'[j].name # DirName(FullName(k)')
    BY <1>3, <1>4, <1>6, <1>7, <2>1, <2>2, <2>4
  <2> QED
    BY <2>5, <2>6 DEF Entered
<1>10. \A i \in 1 .. Len(table') - 1 : Entered(i)'
  <2>1. \A i \in 1 .. k - 1 : Entered(i)'
    BY <1>0, <1>3, <1>5, EntersMore
  <2>2. \A i \in 1 .. Len(table') - 1 : i = k \/ i \in 1 .. k - 1
    BY <1>1, <1>7
  <2> QED
    BY <1>9, <2>1, <2>2
<1>11. Len(table') \in 1 .. Len(archive') + 1 /\ table'[1] = RootNode
  BY <1>1, <1>2, <1>3, <1>7
<1> QED
  BY <1>1, <1>3, <1>7, <1>8, <1>10, <1>11 DEF TableInv

\* What holds of the table holds as long as nothing of it changes.
LEMMA TableStays ==
    ASSUME TableInv, UNCHANGED <<archive, temp, table>>,
           machine' \in {"boots", "runs", "halted", "exited"},
           machine' # "boots" => Len(table) = Len(archive) + 1,
           machine' = "boots" => out' = Nothing
    PROVE  TableInv'
<1>1. At(Len(table))' = At(Len(table))
  BY DEF At
<1>2. \A i \in 1 .. Len(table) - 1 : Entered(i)'
  <2> SUFFICES ASSUME NEW i \in 1 .. Len(table) - 1
               PROVE  Entered(i)'
    OBVIOUS
  <2>1. Entered(i)
    BY DEF TableInv
  <2> QED
    BY <2>1 DEF Entered, FullName
<1> QED
  BY <1>1, <1>2 DEF TableInv

\* The end of the walk at boot.
LEMMA WalkEndsKeeps ==
    ASSUME TableInv, WalkEnds, UNCHANGED <<cwd, out, wiped>>
    PROVE  TableInv'
<1>1. HeaderAt(temp).name = Blank /\ machine' = "runs" /\ UNCHANGED <<archive, temp, table>>
  BY DEF WalkEnds
<1>2. Len(table) = Len(archive) + 1
  BY <1>1, AtHeader
<1> QED
  BY <1>1, <1>2, TableStays

\* A command of the shell, or the prompt after it.
Commands ==
    \/ \E p \in Paths : Cd(p) \/ Ls(p) \/ Open(p)
    \/ Prompt \/ Pwd \/ CdAlone \/ LsAlone \/ TypeExit
    \/ \E file \in Programs : LoadProgram(file)

\* Commands find the table made and leave it as it is.
LEMMA CommandsRun ==
    ASSUME Commands
    PROVE  /\ machine = "runs" /\ machine' \in {"runs", "halted", "exited"}
           /\ UNCHANGED <<archive, temp, table>>
<1>1. ASSUME NEW p \in Paths, Cd(p)
      PROVE  /\ machine = "runs" /\ machine' \in {"runs", "halted", "exited"}
             /\ UNCHANGED <<archive, temp, table>>
  BY <1>1 DEF Cd, change_directory, chdir, Reads
<1>2. ASSUME NEW p \in Paths, Ls(p)
      PROVE  /\ machine = "runs" /\ machine' = "runs" /\ UNCHANGED <<archive, temp, table>>
  BY <1>2 DEF Ls, Reads
<1>3. ASSUME NEW p \in Paths, Open(p)
      PROVE  /\ machine = "runs" /\ machine' = "runs" /\ UNCHANGED <<archive, temp, table>>
  BY <1>3 DEF Open, Reads
<1>4. CASE Prompt
  BY <1>4 DEF Prompt
<1>5. CASE Pwd
  BY <1>5 DEF Pwd, Reads
<1>6. CASE CdAlone
  BY <1>6 DEF CdAlone, change_directory, chdir, Reads
<1>7. CASE LsAlone
  BY <1>7 DEF LsAlone, Reads
<1>8. CASE TypeExit
  BY <1>8 DEF TypeExit, Reads
<1>9. ASSUME NEW file \in Programs, LoadProgram(file)
      PROVE  /\ machine = "runs" /\ machine' = "runs" /\ UNCHANGED <<archive, temp, table>>
  BY <1>9 DEF LoadProgram, Reads
<1> QED
  BY <1>1, <1>2, <1>3, <1>4, <1>5, <1>6, <1>7, <1>8, <1>9 DEF Commands

LEMMA TableNext == TableInv /\ [DirNext]_dirVars => TableInv'
<1> SUFFICES ASSUME TableInv, [DirNext]_dirVars
             PROVE  TableInv'
  OBVIOUS
<1>1. CASE Boot
  BY <1>1, ReadHeaderKeeps, WalkEndsKeeps DEF Boot
<1>2. CASE Commands
  <2>1. /\ machine = "runs" /\ machine' \in {"runs", "halted", "exited"}
        /\ UNCHANGED <<archive, temp, table>>
    BY <1>2, CommandsRun
  <2>2. Len(table) = Len(archive) + 1
    BY <2>1 DEF TableInv
  <2> QED
    BY <2>1, <2>2, TableStays
<1>3. CASE UNCHANGED dirVars
  <2>1. /\ UNCHANGED <<archive, temp, table>> /\ machine' = machine /\ out' = out
    BY <1>3 DEF dirVars
  <2> QED
    BY <2>1, TableStays DEF TableInv
<1> QED
  BY <1>1, <1>2, <1>3 DEF DirNext, Commands

LEMMA TableInductive == DirSpec => []TableInv
BY TableInitially, TableNext, PTL DEF DirSpec

-----------------------------------------------------------------------------
(* ls: LsShowsChildren.                                                    *)

\* The numbers of a set in order are numbers of the set.
LEMMA InOrderIs ==
    ASSUME NEW I, NEW n \in Nat
    PROVE  InOrder(I, n) \in Seq(I \cap (1 .. n))
<1> DEFINE V == Seq(I \cap (1 .. n))
           step == [k \in 1 .. n |-> [v \in V |-> IF k \in I THEN Append(v, k) ELSE v]]
           B(f) == [k \in 0 .. n |-> IF k = 0 THEN <<>>
                                     ELSE IF k \in I THEN Append(f[k - 1], k) ELSE f[k - 1]]
           g == CHOOSE f : f = B(f)
<1>1. <<>> \in V
  OBVIOUS
<1>2. ASSUME NEW v \in V, NEW k \in 1 .. n, k \in I
      PROVE  Append(v, k) \in V
  BY <1>2
<1> HIDE DEF V
<1>3. step \in [1 .. n -> [V -> V]]
  BY <1>2
<1>4. PICK f \in [0 .. n -> V] : Linear(f, n, <<>>, step)
  <2> HIDE DEF step
  <2> QED
    BY <1>1, <1>3, Recursion, Zenon
<1>5. \A k \in 1 .. n : f[k] = IF k \in I THEN Append(f[k - 1], k) ELSE f[k - 1]
  <2>1. \A k \in 1 .. n : f[k - 1] \in V
    OBVIOUS
  <2> QED
    BY <1>4, <2>1 DEF Linear
<1>6. f = B(f)
  <2>1. f = [k \in 0 .. n |-> f[k]]
    OBVIOUS
  <2>2. f[0] = <<>> /\ \A k \in 0 .. n : k # 0 => k \in 1 .. n
    BY <1>4 DEF Linear
  <2> QED
    BY <1>5, <2>1, <2>2
<1>7. g = B(g)
  <2> HIDE DEF B
  <2> QED
    BY <1>6
<1>8. InOrder(I, n) = g[n]
  BY DEF InOrder
<1> HIDE DEF g
<1>9. g[0] = <<>> /\ \A k \in 1 .. n :
          g[k] = IF k \in I THEN Append(g[k - 1], k) ELSE g[k - 1]
  <2>1. \A k \in 0 .. n : g[k] = IF k = 0 THEN <<>>
                                 ELSE IF k \in I THEN Append(g[k - 1], k) ELSE g[k - 1]
    BY <1>7
  <2> QED
    BY <2>1
<1> DEFINE S == {k \in Nat : k <= n => g[k] \in V}
<1>10. 0 \in S
  BY <1>1, <1>9
<1>11. ASSUME NEW k \in Nat, k \in S
       PROVE  k + 1 \in S
  <2> SUFFICES ASSUME k + 1 <= n PROVE g[k + 1] \in V
    OBVIOUS
  <2>1. k + 1 \in 1 .. n /\ (k + 1) - 1 = k /\ g[k] \in V
    BY <1>11
  <2>2. g[k + 1] = IF k + 1 \in I THEN Append(g[k], k + 1) ELSE g[k]
    BY <1>9, <2>1
  <2> QED
    BY <1>2, <2>1, <2>2
<1>12. n \in S
  <2> HIDE DEF S
  <2> QED
    BY <1>10, <1>11, NatInd
<1> QED
  BY <1>8, <1>12 DEF V

\* A directory's name without the last slash begins the names in it.
LEMMA BeginsWith ==
    ASSUME NEW s \in Seq(Component), s # <<>>, s # Blank
    PROVE  IsPrefix(Front(DirName(s)), s)
<1> DEFINE d == DirName(s)
           f == Front(d)
           m == IF Last(s) = Nil THEN Len(s) - 1 ELSE Len(s)
<1>1. /\ m \in Nat \ {0} /\ m <= Len(s) /\ d \in Seq(Component) /\ d # <<>> /\ Len(d) = m
      /\ \A k \in 1 .. m - 1 : d[k] = s[k]
  BY DirNameIs
<1> HIDE DEF d, m
<1>2. f \in Seq(Component) /\ Len(f) = m - 1 /\ \A k \in 1 .. m - 1 : f[k] = d[k]
  BY <1>1, FrontIs
<1> DEFINE l == m - 1
<1>3. l \in Nat /\ l <= Len(s) /\ Len(f) = l /\ \A k \in 1 .. l : f[k] = s[k]
  BY <1>1, <1>2
<1> HIDE DEF f, l
<1>4. /\ SubSeq(f, 1, l) \in Seq(Component) /\ Len(SubSeq(f, 1, l)) = l
      /\ \A k \in 1 .. l : SubSeq(f, 1, l)[k] = f[k]
  <2>1. l <= Len(f)
    BY <1>3
  <2> QED
    BY <1>2, <1>3, <2>1
<1>5. /\ SubSeq(s, 1, l) \in Seq(Component) /\ Len(SubSeq(s, 1, l)) = l
      /\ \A k \in 1 .. l : SubSeq(s, 1, l)[k] = s[k]
  BY <1>3
<1>6. SubSeq(f, 1, l) = SubSeq(s, 1, l)
  BY <1>3, <1>4, <1>5, SameName
<1> QED
  BY <1>3, <1>6 DEF IsPrefix, f, d

\* What read_dir picks by prefix and parent is what is inside.
LEMMA ReadsInside ==
    ASSUME TableInv, machine = "runs", NEW dir
    PROVE  read_dir(dir) = Inside(dir)
<1> DEFINE L == Len(archive)
           n == Named(dir)
<1>1. /\ archive \in Archives /\ table \in Seq(Node) /\ Len(table) = L + 1
      /\ L \in Nat \ {0} /\ DOMAIN archive = 1 .. L
      /\ table[1] = RootNode /\ \A i \in 1 .. L : Entered(i)
  BY ArchiveMade DEF TableInv
<1> HIDE DEF L
<1>2. ASSUME NEW i \in 1 .. L
      PROVE  /\ Fs(i) = table[i + 1] /\ Fs(i).name = FullName(i)
             /\ i + 1 \in 1 .. L + 1
  <2>1. i + 1 \in DOMAIN table /\ i + 1 \in 1 .. L + 1
    BY <1>1
  <2> QED
    BY <1>1, <2>1 DEF Fs, Entered
<1>3. /\ n \in 0 .. L + 1
      /\ n = 0 => \A i \in 1 .. L + 1 : table[i].name # dir
      /\ n # 0 => table[n].name = dir /\ \A j \in 1 .. n - 1 : table[j].name # dir
  BY <1>1, NamedIs
<1> HIDE DEF n
<1>4. ASSUME NEW i \in Inside(dir)
      PROVE  /\ i \in 1 .. L /\ n # 0 /\ i \in n .. L /\ Fs(i).par = n - 1
             /\ IsPrefix(Front(dir), Fs(i).name)
  <2>1. i \in 1 .. L /\ DirName(FullName(i)) = dir
    BY <1>1 DEF Inside
  <2> DEFINE p == table[i + 1].par
  <2>2. /\ p \in 0 .. i - 1 /\ table[p + 1].name = dir
        /\ \A j \in 1 .. p : table[j].name # dir
    BY <1>1, <2>1 DEF Entered
  <2> HIDE DEF p
  <2>3. p + 1 \in 1 .. L + 1 /\ p \in Nat
    BY <1>1, <2>1, <2>2
  <2>4. n # 0
    BY <1>3, <2>2, <2>3
  <2>5. ~ (n < p + 1)
    <3>1. n < p + 1 => n \in 1 .. p
      BY <1>1, <1>3, <2>3, <2>4
    <3> QED
      BY <1>3, <2>2, <2>4, <3>1
  <2>6. ~ (p + 1 < n)
    <3>1. p + 1 < n => p + 1 \in 1 .. n - 1
      BY <1>1, <1>3, <2>3, <2>4
    <3> QED
      BY <1>3, <2>2, <2>4, <3>1
  <2>7. n = p + 1
    BY <1>1, <1>3, <2>3, <2>5, <2>6
  <2>8. i \in n .. L /\ p = n - 1
    BY <1>1, <2>1, <2>2, <2>7
  <2>9. IsPrefix(Front(dir), FullName(i))
    <3>1. FullName(i) \in Seq(Component) /\ FullName(i) # <<>> /\ FullName(i) # Blank
      BY <1>1, <2>1, ParentListed DEF L
    <3> QED
      BY <2>1, <3>1, BeginsWith
  <2>10. Fs(i).par = n - 1 /\ Fs(i).name = FullName(i)
    BY <1>2, <2>1, <2>8 DEF p
  <2> QED
    BY <2>1, <2>4, <2>8, <2>9, <2>10
<1>5. ASSUME NEW i \in n .. L, n # 0, Fs(i).par = n - 1
      PROVE  i \in Inside(dir)
  <2>1. i \in 1 .. L /\ (n - 1) + 1 = n
    BY <1>1, <1>3, <1>5
  <2>2. table[i + 1].par = n - 1
    BY <1>2, <1>5, <2>1
  <2>3. table[n].name = DirName(FullName(i))
    BY <1>1, <2>1, <2>2 DEF Entered
  <2>4. DirName(FullName(i)) = dir
    BY <1>3, <1>5, <2>3
  <2> QED
    BY <1>1, <2>1, <2>4 DEF Inside
<1>6. Len(table) - 1 = L
  BY <1>1
<1>7. read_dir(dir) = IF n = 0 THEN {}
                      ELSE {i \in n .. L : IsPrefix(Front(dir), Fs(i).name)
                                           /\ Fs(i).par = n - 1}
  BY <1>6 DEF read_dir, n
<1>8. CASE n = 0
  <2>1. Inside(dir) = {}
    BY <1>4, <1>8
  <2> QED
    BY <1>7, <1>8, <2>1
<1>9. CASE n # 0
  <2>1. \A i : i \in Inside(dir) => i \in n .. L /\ IsPrefix(Front(dir), Fs(i).name)
                                    /\ Fs(i).par = n - 1
    BY <1>4
  <2>2. \A i \in n .. L : Fs(i).par = n - 1 => i \in Inside(dir)
    BY <1>5, <1>9
  <2> QED
    BY <1>7, <1>9, <2>1, <2>2
<1> QED
  BY <1>8, <1>9

\* What ls shows of the entries it picks is what it should show.
LEMMA ShowsChildren ==
    ASSUME TableInv, machine = "runs", NEW dir
    PROVE  LET listed == InOrder(read_dir(dir), Len(table) - 1)
           IN  [k \in DOMAIN listed |->
                   LET name == Fs(listed[k]).name
                   IN  SubSeq(name, Len(dir), Len(name))] = Children(dir)
<1> DEFINE a == InOrder(read_dir(dir), Len(table) - 1)
           b == InOrder(Inside(dir), Len(archive))
<1>1. /\ archive \in Archives /\ table \in Seq(Node) /\ Len(table) = Len(archive) + 1
      /\ Len(archive) \in Nat /\ DOMAIN archive = 1 .. Len(archive)
      /\ \A i \in 1 .. Len(archive) : Entered(i)
  BY ArchiveMade DEF TableInv
<1>2. Len(table) - 1 = Len(archive)
  BY <1>1
<1>3. a = b
  BY <1>2, ReadsInside
<1>4. b \in Seq(Inside(dir) \cap (1 .. Len(archive)))
  BY <1>1, InOrderIs
<1> HIDE DEF a, b
<1>5. \A k \in DOMAIN b : b[k] \in 1 .. Len(archive)
  BY <1>4
<1>6. \A i \in 1 .. Len(archive) : Fs(i).name = FullName(i)
  <2> SUFFICES ASSUME NEW i \in 1 .. Len(archive)
               PROVE  Fs(i).name = FullName(i)
    OBVIOUS
  <2>1. i + 1 \in DOMAIN table
    BY <1>1
  <2> QED
    BY <1>1, <2>1 DEF Fs, Entered
<1>7. \A k \in DOMAIN a : Fs(a[k]).name = FullName(b[k])
  BY <1>3, <1>5, <1>6
<1>8. [k \in DOMAIN a |-> SubSeq(Fs(a[k]).name, Len(dir), Len(Fs(a[k]).name))]
      = [k \in DOMAIN b |-> SubSeq(FullName(b[k]), Len(dir), Len(FullName(b[k])))]
  BY <1>3, <1>7
<1> QED
  BY <1>8 DEF a, b, Children

\* Both say something of the last command and of the archive, which stays.
Found == LsShowsChildren /\ ExecFindsFile

LEMMA FoundShown ==
    ASSUME TableInv, machine = "runs", NEW dir, ShowDir(dir), archive' = archive
    PROVE  Found'
<1> DEFINE shown == LET listed == InOrder(read_dir(dir), Len(table) - 1)
                    IN  [k \in DOMAIN listed |->
                            LET name == Fs(listed[k]).name
                            IN  SubSeq(name, Len(dir), Len(name))]
<1>1. out' = [cmd |-> "ls", dir |-> dir, shown |-> shown]
  BY DEF ShowDir
<1>2. shown = Children(dir)
  BY ShowsChildren
<1> HIDE DEF shown
<1>3. out'.cmd = "ls" /\ out'.dir = dir /\ out'.shown = Children(dir)
  BY <1>1, <1>2
<1>4. Children(dir)' = Children(dir)
  <2>1. dir' = dir
    OBVIOUS
  <2> QED
    BY DEF Children, Inside, FullName
<1>5. LsShowsChildren'
  BY <1>3, <1>4 DEF LsShowsChildren
<1>6. ExecFindsFile'
  BY <1>3 DEF ExecFindsFile
<1> QED
  BY <1>5, <1>6 DEF Found

LEMMA FoundLoaded ==
    ASSUME TableInv, NEW file \in Programs, LoadProgram(file)
    PROVE  Found'
<1>1. /\ archive \in Archives /\ archive' = archive
      /\ out'.cmd = "exec" /\ out'.file = file /\ out'.offset = getFileOffset(file)
  BY DEF TableInv, LoadProgram
<1>2. ASSUME \A k \in DOMAIN archive[1].data : LeadsOn(k, file),
             NEW i \in 2 .. Len(archive), archive[i].name = file
      PROVE  getFileOffset(file) = At(i) + BLOCK
  BY <1>1, <1>2, FoundThere
<1>3. ASSUME NEW i PROVE At(i)' = At(i)
  BY <1>1 DEF At
<1>led. ASSUME NEW k PROVE LeadsOn(k, out.file)' = LeadsOn(k, file)
  <2>1. At(2)' = At(2)
    BY <1>3
  <2> QED
    BY <1>1, <2>1 DEF LeadsOn
<1>4. ExecFindsFile'
  <2>1. ASSUME \A k \in DOMAIN archive'[1].data : LeadsOn(k, out.file)',
               NEW i \in 2 .. Len(archive'), archive'[i].name = out'.file
        PROVE  out'.offset = At(i)' + BLOCK
    <3>1. \A k \in DOMAIN archive[1].data : LeadsOn(k, file)
      BY <1>1, <1>led, <2>1
    <3> QED
      BY <1>1, <1>2, <1>3, <2>1, <3>1
  <2> QED
    BY <2>1 DEF ExecFindsFile
<1>5. LsShowsChildren'
  BY <1>1 DEF LsShowsChildren
<1> QED
  BY <1>4, <1>5 DEF Found

\* What other commands answer is not looked at.
LEMMA FoundOther ==
    ASSUME out'.cmd \notin {"ls", "exec"}
    PROVE  Found'
BY DEF Found, LsShowsChildren, ExecFindsFile

LEMMA FoundNext == TableInv /\ Found /\ [DirNext]_dirVars => Found'
<1> SUFFICES ASSUME TableInv, Found, [DirNext]_dirVars
             PROVE  Found'
  OBVIOUS
<1>1. CASE Boot
  <2>1. machine = "boots" /\ out' = out
    BY <1>1 DEF Boot, ReadHeader, WalkEnds
  <2>2. out'.cmd = "none"
    BY <2>1 DEF TableInv, Nothing
  <2> QED
    BY <2>2, FoundOther
<1>2. ASSUME NEW p \in Paths, Cd(p)
      PROVE  Found'
  <2>1. out'.cmd = "cd"
    BY <1>2 DEF Cd, change_directory
  <2> QED
    BY <2>1, FoundOther
<1>3. ASSUME NEW p \in Paths, Ls(p)
      PROVE  Found'
  BY <1>3, FoundShown DEF Ls, Reads
<1>4. ASSUME NEW p \in Paths, Open(p)
      PROVE  Found'
  <2>1. out'.cmd = "open"
    BY <1>4 DEF Open
  <2> QED
    BY <2>1, FoundOther
<1>5. CASE Prompt
  <2>1. out'.cmd = "none"
    BY <1>5 DEF Prompt, Nothing
  <2> QED
    BY <2>1, FoundOther
<1>6. CASE Pwd
  <2>1. out'.cmd = "pwd"
    BY <1>6 DEF Pwd
  <2> QED
    BY <2>1, FoundOther
<1>7. CASE CdAlone
  <2>1. out'.cmd = "cd alone"
    BY <1>7 DEF CdAlone, change_directory
  <2> QED
    BY <2>1, FoundOther
<1>8. CASE LsAlone
  BY <1>8, FoundShown DEF LsAlone, Reads
<1>9. CASE TypeExit
  <2>1. out'.cmd = "exit"
    BY <1>9 DEF TypeExit
  <2> QED
    BY <2>1, FoundOther
<1>10. ASSUME NEW file \in Programs, LoadProgram(file)
       PROVE  Found'
  BY <1>10, FoundLoaded
<1>11. CASE UNCHANGED dirVars
  <2>1. out' = out /\ archive' = archive
    BY <1>11 DEF dirVars
  <2>2. ASSUME NEW i PROVE At(i)' = At(i)
    BY <2>1 DEF At
  <2>3. ASSUME NEW dir PROVE Children(dir)' = Children(dir)
    BY <2>1 DEF Children, Inside, FullName
  <2>4. LsShowsChildren'
    BY <2>1, <2>3 DEF Found, LsShowsChildren
  <2>led. ASSUME NEW k PROVE LeadsOn(k, out.file)' = LeadsOn(k, out.file)
    <3>1. At(2)' = At(2)
      BY <2>2
    <3> QED
      BY <2>1, <3>1 DEF LeadsOn
  <2>5. ExecFindsFile'
    BY <2>1, <2>2, <2>led DEF Found, ExecFindsFile
  <2> QED
    BY <2>4, <2>5 DEF Found
<1> QED
  BY <1>1, <1>2, <1>3, <1>4, <1>5, <1>6, <1>7, <1>8, <1>9, <1>10, <1>11 DEF DirNext

LEMMA FoundInductive == DirSpec => []Found
<1>1. DirInit => Found
  BY DEF DirInit, Nothing, Found, LsShowsChildren, ExecFindsFile
<1> QED
  BY <1>1, FoundNext, TableInductive, PTL DEF DirSpec

\* ls shows the entries of a directory, all of them, once and in order,
\* although it looks for the number of the directory in the table
\* (dir.c:94-126).
THEOREM Listed == DirSpec => []LsShowsChildren
<1>1. Found => LsShowsChildren
  BY DEF Found
<1> QED
  BY <1>1, FoundInductive, PTL

\* execve finds every file but the first if none of the blocks of the first,
\* which the walk takes for headers, leads it astray (dir.c:214-252).
THEOREM FilesFound == DirSpec => []ExecFindsFile
<1>1. Found => ExecFindsFile
  BY DEF Found
<1> QED
  BY <1>1, FoundInductive, PTL

-----------------------------------------------------------------------------
(* cd and open: CdReaches, OpenFinds.                                      *)

\* The name of directory d, then the components of s after the first a up to
\* the one at k, as a directory.
Below(d, s, a, k) ==
    [j \in 1 .. Len(d) + (k - a) |->
        IF j < Len(d) THEN d[j]
        ELSE IF j < Len(d) + (k - a) THEN s[a + 1 + (j - Len(d))] ELSE Nil]

\* What the components of that are.
Spelt(r, d, s, a, k) ==
    LET n == Len(d) + (k - a)
    IN  /\ n \in Nat \ {0} /\ n >= Len(d) /\ Len(d) \in Nat \ {0}
        /\ r \in Seq(Component) /\ r # <<>> /\ Len(r) = n
        /\ \A j \in 1 .. n :
              r[j] = IF j < Len(d) THEN d[j]
                     ELSE IF j < n THEN s[a + 1 + (j - Len(d))] ELSE Nil
        /\ Last(r) = Nil

LEMMA BelowIs ==
    ASSUME NEW d \in Seq(Component), d # <<>>, NEW s \in Seq(Component),
           NEW a \in Nat, NEW k \in a .. Len(s)
    PROVE  Spelt(Below(d, s, a, k), d, s, a, k)
<1> DEFINE m == Len(d)
           n == m + (k - a)
           l == Len(s)
           r == Below(d, s, a, k)
<1>1. m \in Nat \ {0} /\ \A j \in 1 .. m : d[j] \in Component
  BY FrontIs
<1>2. l \in Nat /\ \A j \in 1 .. l : s[j] \in Component
  OBVIOUS
<1>3. k \in a .. l
  OBVIOUS
<1>4. r = [j \in 1 .. n |-> IF j < m THEN d[j]
                            ELSE IF j < n THEN s[a + 1 + (j - m)] ELSE Nil]
  BY DEF Below
<1>5. Nil \in Component
  BY Components
<1> HIDE DEF m, l, r
<1>6. n \in Nat \ {0} /\ n >= m
  BY <1>1, <1>3
<1>7. ASSUME NEW j \in 1 .. n
      PROVE  (IF j < m THEN d[j] ELSE IF j < n THEN s[a + 1 + (j - m)] ELSE Nil)
                  \in Component
  <2>1. CASE j < m
    BY <1>1, <2>1
  <2>2. CASE ~ (j < m) /\ j < n
    <3>1. a + 1 + (j - m) \in 1 .. l
      BY <1>1, <1>2, <1>3, <2>2
    <3> QED
      BY <1>2, <2>2, <3>1
  <2>3. CASE ~ (j < m) /\ ~ (j < n)
    BY <1>5, <2>3
  <2> QED
    BY <2>1, <2>2, <2>3
<1> HIDE DEF n
<1>8. r \in Seq(Component) /\ Len(r) = n
  BY <1>4, <1>6, <1>7
<1>9. \A j \in 1 .. n : r[j] = IF j < m THEN d[j]
                               ELSE IF j < n THEN s[a + 1 + (j - m)] ELSE Nil
  BY <1>4
<1>10. Last(r) = Nil
  <2>1. Last(r) = r[n]
    BY <1>8 DEF Last
  <2>2. n \in 1 .. n /\ ~ (n < m) /\ ~ (n < n)
    BY <1>1, <1>6
  <2> QED
    BY <1>9, <2>1, <2>2
<1>11. r # <<>>
  BY <1>6, <1>8
<1> QED
  BY <1>1, <1>6, <1>8, <1>9, <1>10, <1>11 DEF Spelt, m, n, l, r

LEMMA BelowNone ==
    ASSUME NEW d \in Seq(Component), d # <<>>, Last(d) = Nil, NEW s \in Seq(Component),
           NEW a \in 0 .. Len(s)
    PROVE  Below(d, s, a, a) = d
<1> DEFINE m == Len(d)
           r == Below(d, s, a, a)
<1>0. a \in Nat /\ a \in a .. Len(s)
  OBVIOUS
<1>1. /\ m \in Nat \ {0} /\ r \in Seq(Component) /\ Len(r) = m + (a - a)
      /\ \A j \in 1 .. m + (a - a) :
            r[j] = IF j < m THEN d[j]
                   ELSE IF j < m + (a - a) THEN s[a + 1 + (j - m)] ELSE Nil
  <2>1. Spelt(r, d, s, a, a)
    BY <1>0, BelowIs, Zenon
  <2> HIDE DEF r
  <2> QED
    BY <2>1 DEF Spelt
<1>2. m + (a - a) = m /\ d[m] = Nil
  BY <1>1 DEF Last
<1> HIDE DEF m, r
<1>3. \A j \in 1 .. m : r[j] = d[j]
  <2> SUFFICES ASSUME NEW j \in 1 .. m PROVE r[j] = d[j]
    OBVIOUS
  <2>1. j < m \/ j = m
    BY <1>1
  <2> QED
    BY <1>1, <1>2, <2>1
<1>4. Len(r) = m
  BY <1>1, <1>2
<1> QED
  BY <1>1, <1>3, <1>4, SameName DEF m, r

\* One component more.
LEMMA BelowOne ==
    ASSUME NEW d \in Seq(Component), d # <<>>, NEW s \in Seq(Component),
           NEW a \in Nat, NEW k \in a .. Len(s) - 1
    PROVE  /\ Front(Below(d, s, a, k)) \o <<s[k + 1], Nil>> = Below(d, s, a, k + 1)
           /\ DirName(Below(d, s, a, k + 1)) = Below(d, s, a, k)
<1> DEFINE m == Len(d)
           l == Len(s)
           n == m + (k - a)
           o == m + ((k + 1) - a)
           r == Below(d, s, a, k)
           q == Below(d, s, a, k + 1)
           f == Front(r)
           t == <<s[k + 1], Nil>>
           u == f \o t
           p == DirName(q)
<1>0. k \in a .. l /\ k + 1 \in a .. l /\ k + 1 \in 1 .. l /\ l \in Nat
  OBVIOUS
<1>1. /\ n \in Nat \ {0} /\ n >= m /\ m \in Nat \ {0}
      /\ r \in Seq(Component) /\ r # <<>> /\ Len(r) = n
      /\ \A j \in 1 .. n : r[j] = IF j < m THEN d[j]
                                  ELSE IF j < n THEN s[a + 1 + (j - m)] ELSE Nil
      /\ Last(r) = Nil
  <2>1. Spelt(r, d, s, a, k)
    BY <1>0, BelowIs, Zenon
  <2> HIDE DEF r
  <2> QED
    BY <2>1 DEF Spelt
<1>2. /\ q \in Seq(Component) /\ q # <<>> /\ Len(q) = o
      /\ \A j \in 1 .. o : q[j] = IF j < m THEN d[j]
                                  ELSE IF j < o THEN s[a + 1 + (j - m)] ELSE Nil
      /\ Last(q) = Nil
  <2>1. Spelt(q, d, s, a, k + 1)
    BY <1>0, BelowIs, Zenon
  <2> HIDE DEF q
  <2> QED
    BY <2>1 DEF Spelt
<1>3. s[k + 1] \in Component /\ Nil \in Component
  BY <1>0, Components
<1>4. /\ f \in Seq(Component) /\ Len(f) = n - 1
      /\ \A j \in 1 .. n - 1 : f[j] = r[j]
  <2> HIDE DEF r
  <2> QED
    BY <1>1, FrontIs
<1>5. t \in Seq(Component) /\ Len(t) = 2 /\ t[1] = s[k + 1] /\ t[2] = Nil
  BY <1>3
<1> HIDE DEF r, q, f, t, l
<1>6. o = n + 1 /\ n \in Nat \ {0} /\ n >= m /\ n - m = k - a
  BY <1>0, <1>1
<1>7. /\ u \in Seq(Component) /\ Len(u) = n + 1
      /\ \A j \in 1 .. n - 1 : u[j] = r[j]
      /\ u[n] = s[k + 1] /\ u[n + 1] = Nil
  <2>0. PICK e \in Nat : e = n - 1
    <3> HIDE DEF n
    <3> QED
      BY <1>6
  <2>1. Len(f) = e /\ n = e + 1 /\ n + 1 = e + 2 /\ \A j \in 1 .. e : f[j] = r[j]
    <3> HIDE DEF n
    <3> QED
      BY <1>4, <1>6, <2>0
  <2>2. /\ u \in Seq(Component) /\ Len(u) = e + 2
        /\ \A j \in 1 .. e : u[j] = f[j]
        /\ u[e + 1] = t[1] /\ u[e + 2] = t[2]
    <3>1. /\ u \in Seq(Component) /\ Len(u) = Len(f) + Len(t)
          /\ \A j \in 1 .. Len(f) + Len(t) :
                 u[j] = IF j <= Len(f) THEN f[j] ELSE t[j - Len(f)]
      BY <1>4, <1>5, ConcatProperties, Zenon
    <3>2. /\ \A j \in 1 .. e : j \in 1 .. e + 2 /\ j <= e
          /\ e + 1 \in 1 .. e + 2 /\ ~ (e + 1 <= e) /\ (e + 1) - e = 1
          /\ e + 2 \in 1 .. e + 2 /\ ~ (e + 2 <= e) /\ (e + 2) - e = 2
      OBVIOUS
    <3> HIDE DEF n, u
    <3> QED
      BY <1>5, <2>1, <3>1, <3>2
  <2> HIDE DEF n, u
  <2> QED
    BY <1>5, <2>0, <2>1, <2>2
<1> HIDE DEF u, n, o, m
<1>8. ASSUME NEW j \in 1 .. n + 1
      PROVE  u[j] = q[j]
  <2>1. CASE j < m
    <3>1. j \in 1 .. n - 1 /\ j \in 1 .. n /\ j \in 1 .. o
      BY <1>1, <1>6, <2>1
    <3> QED
      BY <1>1, <1>2, <1>7, <2>1, <3>1
  <2>2. CASE ~ (j < m) /\ j < n
    <3>1. j \in 1 .. n - 1 /\ j \in 1 .. n /\ j \in 1 .. o /\ j < o
      BY <1>1, <1>6, <2>2
    <3> QED
      BY <1>1, <1>2, <1>7, <2>2, <3>1
  <2>3. CASE j = n
    <3>1. ~ (j < m) /\ j < o /\ j \in 1 .. o /\ a + 1 + (j - m) = k + 1
      BY <1>0, <1>1, <1>6, <2>3
    <3>2. q[j] = s[a + 1 + (j - m)]
      BY <1>2, <3>1
    <3>3. u[j] = s[k + 1]
      BY <1>7, <2>3
    <3> QED
      BY <3>1, <3>2, <3>3
  <2>4. CASE j = n + 1
    <3>1. ~ (j < m) /\ ~ (j < o) /\ j \in 1 .. o
      BY <1>1, <1>6, <2>4
    <3>2. q[j] = Nil
      BY <1>2, <3>1
    <3>3. u[j] = Nil
      BY <1>7, <2>4
    <3> QED
      BY <3>2, <3>3
  <2> QED
    BY <1>6, <2>1, <2>2, <2>3, <2>4
<1>9. u = q
  BY <1>2, <1>6, <1>7, <1>8, SameName
<1>10. q # Blank
  <2>1. Len(Blank) = 1
    BY DEF Blank
  <2>2. Len(q) # 1
    BY <1>2, <1>6
  <2> QED
    BY <2>1, <2>2, Zenon
<1>11. /\ p \in Seq(Component) /\ Len(p) = o - 1
       /\ \A j \in 1 .. (o - 1) - 1 : p[j] = q[j]
       /\ p[o - 1] = Nil
  BY <1>2, <1>10, DirNameIs
<1>12. o - 1 = n
  BY <1>6
<1> HIDE DEF p
<1>13. ASSUME NEW j \in 1 .. n
       PROVE  p[j] = r[j]
  <2>1. CASE j = n
    <3>1. ~ (n < m) /\ ~ (n < n) /\ n \in 1 .. n
      BY <1>1, <1>6
    <3>2. r[n] = Nil
      BY <1>1, <3>1
    <3> QED
      BY <1>11, <1>12, <2>1, <3>2
  <2>2. CASE j # n
    <3>1. j \in 1 .. n - 1 /\ j \in 1 .. n + 1 /\ j \in 1 .. (o - 1) - 1
      BY <1>6, <1>12, <2>2
    <3>2. p[j] = q[j]
      BY <1>11, <3>1
    <3>3. q[j] = u[j] /\ u[j] = r[j]
      BY <1>7, <1>8, <3>1
    <3> QED
      BY <3>2, <3>3
  <2> QED
    BY <2>1, <2>2
<1>14. p = r
  BY <1>1, <1>11, <1>12, <1>13, SameName
<1> QED
  BY <1>9, <1>14 DEF u, q, f, t, p, r

\* The names of directories.
LEMMA DirIs ==
    ASSUME archive \in Archives, NEW d \in Dirs
    PROVE  /\ d \in Seq(Component) /\ d # <<>> /\ d # Blank /\ Last(d) = Nil
           /\ d # RootName => DirName(d) \in Dirs
<1>1. CASE d = RootName
  <2>1. Len(RootName) = 2 /\ Len(Blank) = 1
    BY DEF RootName, Blank
  <2>2. RootName # Blank
    BY <2>1
  <2> QED
    BY <1>1, <2>2, Components
<1>2. CASE d # RootName
  <2>1. PICK i \in DOMAIN archive : archive[i].flag = DirFlag /\ d = FullName(i)
    BY <1>2 DEF Dirs
  <2>2. i \in 1 .. Len(archive)
    BY <2>1, ArchiveMade
  <2>3. /\ d \in Seq(Component) /\ d # <<>> /\ d # Blank /\ Last(d) = Nil
        /\ \/ DirName(d) = RootName
           \/ \E j \in 1 .. i - 1 : DirName(d) = FullName(j) /\ archive[j].flag = DirFlag
    BY <2>1, <2>2, ParentListed
  <2>4. \A j \in 1 .. i - 1 : j \in DOMAIN archive
    BY <2>2, ArchiveMade
  <2> QED
    BY <2>3, <2>4 DEF Dirs
<1> QED
  BY <1>1, <1>2

\* A component leads from a directory to a directory, or nowhere.
LEMMA FollowIs ==
    ASSUME archive \in Archives, NEW d \in Dirs \cup {Blank}, NEW c
    PROVE  Follow(d, c) \in Dirs \cup {Blank}
<1>1. d # Blank => d \in Dirs
  OBVIOUS
<1>2. d # Blank /\ d # RootName => DirName(d) \in Dirs
  BY <1>1, DirIs
<1> DEFINE V == Dirs \cup {Blank}
           up == DirName(d)
           q == Front(d) \o <<c, Nil>>
<1>3. Follow(d, c) = IF d = Blank \/ c = "." THEN d
                     ELSE IF c = ".." THEN IF d = RootName THEN d ELSE up
                     ELSE IF q \in Dirs THEN q ELSE Blank
  BY DEF Follow
<1>4. d \in V /\ Blank \in V /\ (q \in Dirs => q \in V)
      /\ (d # Blank /\ d # RootName => up \in V)
  BY <1>2
<1> HIDE DEF V, up, q
<1>5. Follow(d, c) \in V
  BY <1>3, <1>4, Zenon
<1> QED
  BY <1>5 DEF V

\* Component by component from the working directory.
LEMMA ResolveDef ==
    ASSUME archive \in Archives, cwd \in Dirs, NEW s \in Seq(Component)
    PROVE  \E f : /\ Resolve(s) = f[Len(s)] /\ f[0] = cwd
                  /\ \A k \in 1 .. Len(s) : f[k] = Follow(f[k - 1], s[k])
<1> DEFINE L == Len(s)
           V == Dirs \cup {Blank}
           step == [k \in 1 .. L |-> [d \in V |-> Follow(d, s[k])]]
           B(f) == [k \in 0 .. L |-> IF k = 0 THEN cwd ELSE Follow(f[k - 1], s[k])]
           g == CHOOSE f : f = B(f)
<1>1. L \in Nat
  OBVIOUS
<1>2. cwd \in V /\ \A d \in V : \A c : Follow(d, c) \in V
  BY FollowIs
<1> HIDE DEF V, L
<1>3. step \in [1 .. L -> [V -> V]]
  BY <1>2
<1>4. PICK f \in [0 .. L -> V] : Linear(f, L, cwd, step)
  <2> HIDE DEF step
  <2> QED
    BY <1>1, <1>2, <1>3, Recursion, Zenon
<1>5. \A k \in 1 .. L : f[k] = Follow(f[k - 1], s[k])
  <2>1. \A k \in 1 .. L : f[k - 1] \in V
    BY <1>1
  <2> QED
    BY <1>4, <2>1 DEF Linear
<1>6. f = B(f)
  <2>1. f = [k \in 0 .. L |-> f[k]]
    OBVIOUS
  <2>2. f[0] = cwd /\ \A k \in 0 .. L : k # 0 => k \in 1 .. L
    BY <1>1, <1>4 DEF Linear
  <2> QED
    BY <1>5, <2>1, <2>2
<1>7. g = B(g)
  <2> HIDE DEF B
  <2> QED
    BY <1>6
<1>8. Resolve(s) = g[L]
  BY DEF Resolve, L
<1> HIDE DEF g
<1>9. \A k \in 0 .. L : g[k] = IF k = 0 THEN cwd ELSE Follow(g[k - 1], s[k])
  BY <1>7
<1>10. g[0] = cwd /\ \A k \in 1 .. L : g[k] = Follow(g[k - 1], s[k])
  BY <1>1, <1>9
<1> QED
  BY <1>8, <1>10 DEF L

\* Where a name leads whose dots are at most its first component: nowhere if
\* that is not a directory, for then neither is what is named below it.
LEMMA Leads ==
    ASSUME archive \in Archives, cwd \in Dirs, NEW s \in Seq(Component),
           NEW a \in 0 .. Len(s), NEW base \in Dirs,
           a = 0 => base = cwd,
           a # 0 => a = 1 /\ Follow(cwd, s[1]) = base,
           \A i \in a + 1 .. Len(s) : s[i] \notin {".", ".."}
    PROVE  Resolve(s) = IF Below(base, s, a, Len(s)) \in Dirs
                        THEN Below(base, s, a, Len(s)) ELSE Blank
<1> DEFINE L == Len(s)
           b(k) == Below(base, s, a, k)
<1>0. PICK f : /\ Resolve(s) = f[L] /\ f[0] = cwd
               /\ \A k \in 1 .. L : f[k] = Follow(f[k - 1], s[k])
  BY ResolveDef
<1>1. L \in Nat /\ a \in Nat /\ a <= L
  OBVIOUS
<1>2. base \in Seq(Component) /\ base # <<>> /\ Last(base) = Nil /\ base # Blank
  BY DirIs
<1>3. f[a] = base
  <2>1. CASE a = 0
    BY <1>0, <2>1
  <2>2. CASE a # 0
    <3>1. a = 1 /\ 1 \in 1 .. L
      BY <1>1, <2>2
    <3>2. f[1] = Follow(f[1 - 1], s[1]) /\ 1 - 1 = 0
      BY <1>0, <3>1
    <3> QED
      BY <1>0, <2>2, <3>1, <3>2
  <2> QED
    BY <2>1, <2>2
<1> DEFINE Here(k) == f[k] = IF b(k) \in Dirs THEN b(k) ELSE Blank
           S == {k \in Nat : a + k <= L => Here(a + k)}
<1>4. 0 \in S
  <2>1. b(a) = base
    BY <1>2, BelowNone
  <2>2. Here(a)
    BY <1>3, <2>1
  <2>3. a + 0 = a
    BY <1>1
  <2> HIDE DEF Here
  <2> QED
    BY <2>2, <2>3
<1>5. ASSUME NEW n \in Nat, n \in S
      PROVE  n + 1 \in S
  <2> SUFFICES ASSUME a + (n + 1) <= L PROVE Here(a + (n + 1))
    OBVIOUS
  <2>0. PICK k \in Nat : k = a + n
    BY <1>1
  <2>1. k + 1 \in 1 .. L /\ k + 1 \in a + 1 .. L /\ (k + 1) - 1 = k /\ a + (n + 1) = k + 1
        /\ k \in a .. L - 1 /\ k >= a /\ a + n <= L
    BY <1>1, <2>0
  <2>2. Here(k)
    <3> HIDE DEF Here
    <3> QED
      BY <1>5, <2>0, <2>1
  <2> SUFFICES Here(k + 1)
    <3> HIDE DEF Here
    <3> QED
      BY <2>1
  <2>3. f[k + 1] = Follow(f[k], s[k + 1]) /\ s[k + 1] \notin {".", ".."}
    BY <1>0, <2>1
  <2>4. /\ Front(b(k)) \o <<s[k + 1], Nil>> = b(k + 1)
        /\ DirName(b(k + 1)) = b(k)
    BY <1>1, <1>2, <2>1, BelowOne
  <2>5. b(k + 1) \in Dirs => b(k) \in Dirs
    <3> SUFFICES ASSUME b(k + 1) \in Dirs PROVE b(k) \in Dirs
      OBVIOUS
    <3>1. b(k + 1) # RootName
      <4>1. k + 1 \in a .. L
        BY <1>1, <2>1
      <4>2. Spelt(b(k + 1), base, s, a, k + 1)
        BY <1>1, <1>2, <4>1, BelowIs, Zenon
      <4>3. Len(base) # 1
        <5> SUFFICES ASSUME Len(base) = 1 PROVE FALSE
          OBVIOUS
        <5>1. Len(Blank) = 1 /\ Blank[1] = Nil /\ base[1] = Nil
          BY <1>2 DEF Blank, Last
        <5>2. base = Blank
          BY <1>2, <5>1, Components, SameName
        <5> QED
          BY <1>2, <5>2
      <4>4. Len(b(k + 1)) = Len(base) + ((k + 1) - a) /\ Len(base) \in Nat \ {0}
        <5> HIDE DEF b
        <5> QED
          BY <4>2 DEF Spelt
      <4>5. Len(RootName) = 2
        BY DEF RootName
      <4> DEFINE m == Len(base)
                 l == Len(b(k + 1))
      <4>6. m \in Nat \ {0, 1} /\ l = m + ((k + 1) - a)
        BY <4>3, <4>4
      <4> HIDE DEF m, l
      <4>7. l # 2
        BY <1>1, <2>1, <4>6
      <4> QED
        BY <4>5, <4>7, Zenon DEF l
    <3> QED
      BY <2>4, <3>1, DirIs
  <2>6. CASE b(k) \in Dirs
    <3>1. f[k] = b(k) /\ b(k) # Blank
      BY <2>2, <2>6, DirIs
    <3>2. f[k + 1] = IF b(k + 1) \in Dirs THEN b(k + 1) ELSE Blank
      <4> HIDE DEF b
      <4> QED
        BY <2>3, <2>4, <3>1 DEF Follow
    <3> QED
      BY <3>2
  <2>7. CASE b(k) \notin Dirs
    <3>1. f[k + 1] = Blank
      BY <2>2, <2>3, <2>7 DEF Follow
    <3> QED
      BY <2>5, <2>7, <3>1
  <2> QED
    BY <2>6, <2>7
<1>6. Here(L)
  <2>1. L - a \in Nat /\ a + (L - a) = L
    BY <1>1
  <2>2. L - a \in S
    <3> HIDE DEF S
    <3> QED
      BY <1>4, <1>5, <2>1, NatInd
  <2>3. Here(a + (L - a))
    <3> HIDE DEF Here
    <3> QED
      BY <2>1, <2>2
  <2> HIDE DEF Here
  <2> QED
    BY <2>1, <2>3
<1> QED
  BY <1>0, <1>6

\* A typed name without its last slash.
LEMMA strtokIs ==
    ASSUME NEW p \in Seq(Component), p # <<>>
    PROVE  strtok(p) \in Seq(Component)
BY FrontIs DEF strtok

\* The directory above the working directory.
LEMMA ParentIs ==
    ASSUME TableInv, machine # "boots", cwd \in Dirs, cwd # RootName
    PROVE  getFileParent = DirName(cwd)
<1> DEFINE n == Named(cwd)
<1>1. /\ archive \in Archives /\ table \in Seq(Node) /\ table[1] = RootNode
      /\ Len(table) = Len(archive) + 1 /\ Len(archive) \in Nat
      /\ \A i \in 1 .. Len(archive) : Entered(i)
  BY ArchiveMade DEF TableInv
<1>2. PICK i \in 1 .. Len(archive) : cwd = FullName(i)
  BY <1>1 DEF Dirs
<1>3. table[i + 1].name = cwd /\ i + 1 \in 1 .. Len(table)
  BY <1>1, <1>2 DEF Entered
<1>4. n \in 1 .. Len(table) /\ table[n].name = cwd
  <2>1. n \in 0 .. Len(table) /\ n # 0 /\ table[n].name = cwd
    BY <1>1, <1>3, NamedIs
  <2> HIDE DEF n
  <2> QED
    BY <1>1, <2>1
<1> HIDE DEF n
<1>5. n # 1
  BY <1>1, <1>4 DEF RootNode
<1>6. n - 1 \in 1 .. Len(archive) /\ (n - 1) + 1 = n
  BY <1>1, <1>4, <1>5
<1> DEFINE p == table[n].par
<1>7. p \in 0 .. (n - 1) - 1 /\ table[p + 1].name = DirName(cwd)
  BY <1>1, <1>4, <1>6 DEF Entered
<1> HIDE DEF p
<1>8. p + 1 \in DOMAIN table
  BY <1>1, <1>4, <1>7
<1>9. getFileParent = Fs(p).name
  BY <1>4, <1>5 DEF getFileParent, n, p
<1> QED
  BY <1>7, <1>8, <1>9 DEF Fs

\* The name that getAbsolutePath makes: the base is the working directory, or
\* what is above it, and the components that are appended begin after the
\* first if that is a dot or two.
LEMMA AbsoluteIs ==
    ASSUME TableInv, machine # "boots", cwd \in Dirs,
           NEW p \in Seq(Component), p # <<>>, Plain(p)
    PROVE  \E base \in Dirs, a \in 0 .. Len(strtok(p)) :
              LET s == strtok(p)
                  n == Len(s)
              IN  /\ a = 0 => base = cwd
                  /\ a # 0 => a = 1 /\ Follow(cwd, s[1]) = base
                  /\ \A i \in a + 1 .. n : s[i] \notin {".", ".."}
                  /\ getAbsolutePath(p, DirFlag) = Below(base, s, a, n)
                  /\ a = n => /\ n = 1 /\ s[1] \in {".", ".."}
                              /\ getAbsolutePath(p, FileFlag) = base
                  /\ a # n => getAbsolutePath(p, FileFlag)
                                  = Append(Front(Below(base, Front(s), a, n - 1)), Last(s))
<1> DEFINE s == strtok(p)
           n == Len(s)
           up == s[1] = ".."
           a == IF s[1] \in {".", ".."} THEN 1 ELSE 0
           base == IF up THEN getFileParent ELSE cwd
           rest == IF s[1] \in {".", ".."} THEN Tail(s) ELSE s
           full == IF rest = <<>> THEN base ELSE strcat(base, rest)
<1>1. /\ s \in Seq(Component) /\ s # <<>>
      /\ \A i \in DOMAIN s : s[i] # Nil
      /\ \A i \in 2 .. Len(s) : s[i] \notin {".", ".."}
      /\ cwd = RootName => s[1] # ".."
  BY strtokIs DEF Plain
<1>2. getAbsolutePath(p, DirFlag) =
          IF full # Blank /\ Last(full) # Nil THEN Append(full, Nil) ELSE full
  BY DEF getAbsolutePath
<1>3. getAbsolutePath(p, FileFlag) = full
  BY DEF getAbsolutePath, DirFlag, FileFlag
<1> HIDE DEF s
<1>4. n \in Nat \ {0} /\ a \in {0, 1} /\ \A i \in 1 .. n : s[i] \in Component /\ s[i] # Nil
  BY <1>1
<1>5. base \in Dirs
  <2>1. CASE up
    <3>1. archive \in Archives /\ cwd # RootName
      BY <1>1, <2>1 DEF TableInv
    <3> QED
      BY <2>1, <3>1, DirIs, ParentIs
  <2>2. CASE ~ up
    BY <2>2
  <2> QED
    BY <2>1, <2>2
<1>6. base \in Seq(Component) /\ base # <<>> /\ base # Blank /\ Last(base) = Nil
  <2>1. archive \in Archives
    BY DEF TableInv
  <2> HIDE DEF base
  <2> QED
    BY <1>5, <2>1, DirIs
<1>7. a = 0 => base = cwd
  BY DEF up
<1>8. a # 0 => a = 1 /\ Follow(cwd, s[1]) = base
  <2>1. cwd # Blank /\ (s[1] = ".." => cwd # RootName)
    <3>1. archive \in Archives
      BY DEF TableInv
    <3> QED
      BY <1>1, <3>1, DirIs
  <2>2. CASE s[1] = "."
    BY <2>2 DEF Follow
  <2>3. CASE s[1] = ".."
    <3>1. base = DirName(cwd)
      BY <2>1, <2>3, ParentIs
    <3> QED
      BY <2>1, <2>3, <3>1 DEF Follow
  <2> QED
    BY <2>2, <2>3
<1>9. \A i \in a + 1 .. n : s[i] \notin {".", ".."}
  <2> SUFFICES ASSUME NEW i \in a + 1 .. n PROVE s[i] \notin {".", ".."}
    OBVIOUS
  <2>1. CASE a = 1
    BY <1>1, <1>4, <2>1
  <2>2. CASE a = 0
    <3>1. i = 1 \/ i \in 2 .. n
      BY <1>4, <2>2
    <3> QED
      BY <1>1, <2>2, <3>1
  <2> QED
    BY <1>4, <2>1, <2>2
\* What is appended.
<1>10. /\ rest \in Seq(Component) /\ Len(rest) = n - a
       /\ \A k \in 1 .. n - a : rest[k] = s[a + k]
  <2>1. CASE s[1] \in {".", ".."}
    <3>1. /\ Tail(s) \in Seq(Component) /\ Len(Tail(s)) = n - 1
          /\ \A k \in 1 .. n - 1 : Tail(s)[k] = s[k + 1]
      BY <1>1
    <3>2. \A k \in 1 .. n - 1 : k + 1 = 1 + k
      OBVIOUS
    <3> QED
      BY <2>1, <3>1, <3>2
  <2>2. CASE s[1] \notin {".", ".."}
    <3>1. n - 0 = n /\ \A k \in 1 .. n : 0 + k = k
      BY <1>4
    <3> QED
      BY <1>1, <2>2, <3>1
  <2> QED
    BY <2>1, <2>2
<1>11. a = n => n = 1 /\ s[1] \in {".", ".."} /\ rest = <<>>
  <2> SUFFICES ASSUME a = n PROVE n = 1 /\ s[1] \in {".", ".."} /\ rest = <<>>
    OBVIOUS
  <2>1. n = 1 /\ s[1] \in {".", ".."} /\ n - a = 0
    BY <1>4
  <2> HIDE DEF rest
  <2>2. Len(rest) = 0
    BY <1>10, <2>1
  <2>3. rest = <<>>
    BY <1>10, <2>2
  <2> QED
    BY <2>1, <2>3
<1>12. a # n => rest # <<>>
  <2> SUFFICES ASSUME a # n PROVE rest # <<>>
    OBVIOUS
  <2> HIDE DEF rest
  <2>1. Len(rest) # 0
    <3> HIDE DEF a, n
    <3> QED
      BY <1>4, <1>10
  <2> QED
    BY <2>1
<1> HIDE DEF base, rest, a, up
\* No component is appended.
<1>13. CASE a = n
  <2>1. full = base
    BY <1>11, <1>13
  <2> HIDE DEF full
  <2>2. getAbsolutePath(p, DirFlag) = base /\ getAbsolutePath(p, FileFlag) = base
    BY <1>2, <1>3, <1>6, <2>1
  <2>3. a \in 0 .. Len(s)
    BY <1>4, <1>13
  <2>4. Below(base, s, a, a) = base
    BY <1>1, <1>6, <2>3, BelowNone
  <2> HIDE DEF n
  <2>5. Below(base, s, a, n) = base
    BY <1>13, <2>4, Zenon
  <2> QED
    BY <1>5, <1>7, <1>8, <1>9, <1>11, <1>13, <2>2, <2>3, <2>5 DEF s, n
\* Some are.
<1>14. CASE a # n
  <2> DEFINE m == Len(base) - 1
             l == n - a
             r == strcat(base, rest)
  <2>1. full = r /\ a \in 0 .. Len(s) /\ a \in Nat /\ a < n
    BY <1>4, <1>12, <1>14
  <2>2. /\ r \in Seq(Component) /\ r # <<>> /\ Len(r) = m + Len(rest)
        /\ \A k \in 1 .. m : r[k] = base[k]
        /\ \A k \in 1 .. Len(rest) : r[m + k] = rest[k]
        /\ Last(r) = Last(rest)
    BY <1>6, <1>10, <1>12, <1>14, strcatIs
  <2>3. Len(base) = m + 1 /\ m \in Nat
    BY <1>6, FrontIs
  <2> HIDE DEF full, r, m
  <2>4. l \in Nat \ {0} /\ a + l = n
    <3> HIDE DEF n
    <3> QED
      BY <1>4, <2>1
  <2>5. /\ Len(r) = m + l
        /\ \A k \in 1 .. m : r[k] = base[k]
        /\ \A k \in 1 .. l : r[m + k] = s[a + k]
        /\ Last(rest) = s[n]
    <3>1. Last(rest) = rest[l]
      BY <1>10 DEF Last
    <3>2. l \in 1 .. l
      <4> HIDE DEF l
      <4> QED
        BY <2>4
    <3>3. rest[l] = s[a + l]
      BY <1>10, <3>2
    <3> QED
      BY <1>10, <2>2, <2>4, <3>1, <3>3
  <2>6. Last(r) = s[n] /\ Last(r) # Nil /\ Last(s) = s[n]
    BY <1>4, <2>2, <2>5 DEF Last
  <2>7. r # Blank
    BY <2>6, Components
\* A slash at the end.
  <2>8. Append(r, Nil) = Below(base, s, a, n)
    <3> DEFINE q == Append(r, Nil)
               b == Below(base, s, a, n)
    <3>1. n \in a .. Len(s)
      BY <1>4, <2>1
    <3>2. Spelt(b, base, s, a, n)
      BY <1>1, <1>6, <2>1, <3>1, BelowIs, Zenon
    <3> HIDE DEF b
    <3>3. /\ b \in Seq(Component) /\ Len(b) = (m + 1) + l
          /\ \A j \in 1 .. (m + 1) + l :
                b[j] = IF j < m + 1 THEN base[j]
                       ELSE IF j < (m + 1) + l THEN s[a + 1 + (j - (m + 1))] ELSE Nil
      BY <2>3, <3>2 DEF Spelt
    <3>4. /\ q \in Seq(Component) /\ Len(q) = Len(r) + 1 /\ q[Len(r) + 1] = Nil
          /\ \A j \in 1 .. Len(r) : q[j] = r[j]
      BY <2>2, Components
    <3> HIDE DEF q, l, n
    <3>5. Len(q) = (m + 1) + l
      BY <2>3, <2>4, <2>5, <3>4
    <3>6. ASSUME NEW j \in 1 .. (m + 1) + l
          PROVE  q[j] = b[j]
      <4>1. CASE j < m + 1
        <5>1. j \in 1 .. m /\ j \in 1 .. m + l
          BY <2>3, <2>4, <4>1
        <5>2. b[j] = base[j]
          BY <3>3, <4>1
        <5> QED
          BY <2>5, <3>4, <5>1, <5>2
      <4>2. CASE ~ (j < m + 1) /\ j < (m + 1) + l
        <5> DEFINE k == j - m
        <5>1. /\ k \in 1 .. l /\ j = m + k /\ a + 1 + (j - (m + 1)) = a + k
              /\ j \in 1 .. m + l
          BY <2>1, <2>3, <2>4, <4>2
        <5> HIDE DEF k
        <5>2. b[j] = s[a + k]
          BY <3>3, <4>2, <5>1
        <5>3. r[j] = s[a + k]
          BY <2>5, <5>1
        <5>4. q[j] = r[j]
          BY <2>5, <3>4, <5>1
        <5> QED
          BY <5>2, <5>3, <5>4
      <4>3. CASE ~ (j < m + 1) /\ ~ (j < (m + 1) + l)
        <5>1. j = (m + l) + 1
          BY <2>3, <2>4, <4>3
        <5>2. q[j] = Nil
          BY <2>5, <3>4, <5>1
        <5>3. b[j] = Nil
          BY <3>3, <4>3
        <5> QED
          BY <5>2, <5>3
      <4> QED
        BY <4>1, <4>2, <4>3
    <3>7. q = b
      BY <3>3, <3>4, <3>5, <3>6, SameName
    <3> QED
      BY <3>7 DEF q, b
\* None, and the last component is a file.
  <2>9. r = Append(Front(Below(base, Front(s), a, n - 1)), Last(s))
    <3> DEFINE f == Front(s)
               b == Below(base, f, a, n - 1)
               q == Append(Front(b), Last(s))
    <3>1. f \in Seq(Component) /\ Len(f) = n - 1 /\ \A k \in 1 .. n - 1 : f[k] = s[k]
      BY <1>1, FrontIs
    <3>2. n - 1 \in a .. Len(f)
      BY <1>4, <2>1, <3>1
    <3>3. Spelt(b, base, f, a, n - 1)
      <4> HIDE DEF f
      <4> QED
        BY <1>6, <2>1, <3>1, <3>2, BelowIs, Zenon
    <3> HIDE DEF b, f
    <3>4. (n - 1) - a = l - 1 /\ (m + 1) + (l - 1) = m + l
      <4> HIDE DEF n
      <4> QED
        BY <1>4, <2>1, <2>3
    <3>5. /\ b \in Seq(Component) /\ b # <<>> /\ Len(b) = m + l
          /\ \A j \in 1 .. m + l :
                b[j] = IF j < m + 1 THEN base[j]
                       ELSE IF j < m + l THEN f[a + 1 + (j - (m + 1))] ELSE Nil
      BY <2>3, <3>3, <3>4 DEF Spelt
    <3>6. Last(s) \in Component
      BY <1>4, <2>6
    <3>7. /\ q \in Seq(Component) /\ Len(q) = Len(b) /\ q[Len(b)] = Last(s)
          /\ \A k \in 1 .. Len(b) - 1 : q[k] = b[k]
      BY <3>5, <3>6, AppendFront
    <3> HIDE DEF q, l
    <3>8. ASSUME NEW j \in 1 .. m + l
          PROVE  r[j] = q[j]
      <4>1. CASE j < m + 1
        <5>1. j \in 1 .. m /\ j \in 1 .. (m + l) - 1
          BY <2>3, <2>4, <4>1
        <5>2. b[j] = base[j]
          BY <3>5, <4>1
        <5>3. q[j] = b[j]
          BY <3>5, <3>7, <5>1
        <5> QED
          BY <2>5, <5>1, <5>2, <5>3
      <4>2. CASE ~ (j < m + 1) /\ j < m + l
        <5> DEFINE k == j - m
        <5>1. /\ k \in 1 .. l /\ j = m + k /\ a + 1 + (j - (m + 1)) = a + k
              /\ j \in 1 .. (m + l) - 1 /\ a + k \in 1 .. n - 1
          <6> HIDE DEF n
          <6> QED
            BY <2>1, <2>3, <2>4, <4>2
        <5> HIDE DEF k
        <5>2. b[j] = f[a + k]
          BY <3>5, <4>2, <5>1
        <5>3. r[j] = s[a + k]
          BY <2>5, <5>1
        <5>4. q[j] = b[j]
          BY <3>5, <3>7, <5>1
        <5> QED
          BY <3>1, <5>1, <5>2, <5>3, <5>4
      <4>3. CASE ~ (j < m + l)
        <5>1. j = m + l /\ l \in 1 .. l
          BY <2>3, <2>4, <4>3
        <5>2. q[j] = Last(s)
          BY <3>5, <3>7, <5>1
        <5>3. r[j] = s[n]
          BY <2>4, <2>5, <5>1
        <5> QED
          BY <2>6, <5>2, <5>3
      <4> QED
        BY <2>3, <2>4, <4>1, <4>2, <4>3
    <3>9. Len(r) = m + l /\ Len(q) = m + l
      BY <2>5, <3>5, <3>7
    <3>10. r = q
      BY <2>2, <3>7, <3>8, <3>9, SameName
    <3> QED
      BY <3>10 DEF q, b, f
  <2>10. /\ getAbsolutePath(p, DirFlag) = Below(base, s, a, n)
         /\ getAbsolutePath(p, FileFlag)
                = Append(Front(Below(base, Front(s), a, n - 1)), Last(s))
    BY <1>2, <1>3, <2>1, <2>6, <2>7, <2>8, <2>9
  <2> HIDE DEF n
  <2> QED
    BY <1>5, <1>7, <1>8, <1>9, <1>14, <2>1, <2>10 DEF s, n
<1> QED
  BY <1>13, <1>14

\* Looking for a directory, and for a file.
LEMMA DirListed ==
    ASSUME TableInv, machine # "boots", NEW name
    PROVE  Lookup(name, DirFlag) # 0 <=> name \in Dirs
<1>1. /\ archive \in Archives /\ table \in Seq(Node) /\ table[1] = RootNode
      /\ Len(table) = Len(archive) + 1 /\ Len(archive) \in Nat
      /\ \A i \in 1 .. Len(archive) : Entered(i)
  BY ArchiveMade DEF TableInv
<1> DEFINE n == Lookup(name, DirFlag)
<1>2. ASSUME n # 0
      PROVE  name \in Dirs
  <2>1. /\ n \in 0 .. Len(table) /\ table[n].name = name /\ table[n].flagType = DirFlag
    BY <1>1, <1>2, LookupIs
  <2> HIDE DEF n
  <2>2. CASE n = 1
    BY <1>1, <2>1, <2>2 DEF RootNode, Dirs
  <2>3. CASE n # 1
    <3>1. n - 1 \in 1 .. Len(archive) /\ (n - 1) + 1 = n
      BY <1>1, <1>2, <2>1, <2>3
    <3>2. name = FullName(n - 1) /\ archive[n - 1].flag = DirFlag
      BY <1>1, <2>1, <3>1 DEF Entered
    <3> QED
      BY <3>1, <3>2 DEF Dirs
  <2> QED
    BY <2>2, <2>3
<1>3. ASSUME name \in Dirs
      PROVE  n # 0
  <2>1. PICK j \in 1 .. Len(table) : table[j].name = name /\ table[j].flagType = DirFlag
    <3>1. CASE name = RootName
      BY <1>1, <3>1 DEF RootNode
    <3>2. CASE name # RootName
      <4>1. PICK i \in 1 .. Len(archive) : archive[i].flag = DirFlag /\ name = FullName(i)
        BY <1>1, <1>3, <3>2 DEF Dirs
      <4>2. /\ i + 1 \in 1 .. Len(table) /\ table[i + 1].name = name
            /\ table[i + 1].flagType = DirFlag
        BY <1>1, <4>1 DEF Entered
      <4> QED
        BY <4>2
    <3> QED
      BY <3>1, <3>2
  <2> QED
    BY <1>1, <2>1, LookupIs
<1> QED
  BY <1>2, <1>3

LEMMA FileListed ==
    ASSUME TableInv, machine # "boots", NEW name
    PROVE  LET n == Lookup(name, FileFlag)
           IN  /\ n # 0 => /\ n - 1 \in DOMAIN archive
                           /\ archive[n - 1].flag = FileFlag
                           /\ FullName(n - 1) = name
               /\ n = 0 => ~ \E i \in DOMAIN archive :
                                /\ archive[i].flag = FileFlag
                                /\ FullName(i) = name
<1>1. /\ archive \in Archives /\ table \in Seq(Node) /\ table[1] = RootNode
      /\ Len(table) = Len(archive) + 1 /\ Len(archive) \in Nat
      /\ \A i \in 1 .. Len(archive) : Entered(i)
      /\ DOMAIN archive = 1 .. Len(archive)
  BY ArchiveMade DEF TableInv
<1> DEFINE n == Lookup(name, FileFlag)
<1>2. ASSUME n # 0
      PROVE  /\ n - 1 \in DOMAIN archive /\ archive[n - 1].flag = FileFlag
             /\ FullName(n - 1) = name
  <2>1. /\ n \in 0 .. Len(table) /\ table[n].name = name /\ table[n].flagType = FileFlag
    BY <1>1, <1>2, LookupIs
  <2> HIDE DEF n
  <2>2. n # 1
    BY <1>1, <2>1 DEF RootNode, DirFlag, FileFlag
  <2>3. n - 1 \in 1 .. Len(archive) /\ (n - 1) + 1 = n
    BY <1>1, <1>2, <2>1, <2>2
  <2> QED
    BY <1>1, <2>1, <2>3 DEF Entered
<1>3. ASSUME n = 0, NEW i \in DOMAIN archive, archive[i].flag = FileFlag, FullName(i) = name
      PROVE  FALSE
  <2>1. /\ i + 1 \in 1 .. Len(table) /\ table[i + 1].name = name
        /\ table[i + 1].flagType = FileFlag
    BY <1>1, <1>3 DEF Entered
  <2> QED
    BY <1>1, <1>3, <2>1, LookupIs
<1> QED
  BY <1>2, <1>3

\* The working directory is always one.
CwdInv == cwd \in Dirs

LEMMA CwdNext == TableInv /\ CwdInv /\ [DirNext]_dirVars => CwdInv'
<1> SUFFICES ASSUME TableInv, CwdInv, [DirNext]_dirVars
             PROVE  CwdInv'
  OBVIOUS
<1>1. ASSUME NEW p, chdir(p), machine = "runs"
      PROVE  CwdInv'
  <2>1. archive' = archive
    BY <1>1 DEF chdir
  <2>2. cwd' = cwd \/ Lookup(cwd', DirFlag) # 0
    BY <1>1 DEF chdir
  <2>3. cwd' \in Dirs
    BY <1>1, <2>2, DirListed DEF CwdInv
  <2>4. Dirs' = Dirs
    BY <2>1 DEF Dirs, FullName
  <2> QED
    BY <2>3, <2>4 DEF CwdInv
<1>2. ASSUME cwd' = cwd, archive' = archive
      PROVE  CwdInv'
  BY <1>2 DEF CwdInv, Dirs, FullName
<1>3. CASE Boot
  BY <1>2, <1>3 DEF Boot, ReadHeader, WalkEnds
<1>4. CASE \E p \in Paths : Cd(p)
  BY <1>1, <1>4 DEF Cd, change_directory, Reads
<1>5. CASE CdAlone
  BY <1>1, <1>5 DEF CdAlone, change_directory, Reads
<1>6. CASE \E p \in Paths : Ls(p) \/ Open(p)
  BY <1>2, <1>6 DEF Ls, Open
<1>7. CASE Prompt \/ Pwd \/ LsAlone \/ TypeExit
  BY <1>2, <1>7 DEF Prompt, Pwd, LsAlone, TypeExit
<1>8. CASE \E file \in Programs : LoadProgram(file)
  BY <1>2, <1>8 DEF LoadProgram
<1>9. CASE UNCHANGED dirVars
  BY <1>2, <1>9 DEF dirVars
<1> QED
  BY <1>3, <1>4, <1>5, <1>6, <1>7, <1>8, <1>9 DEF DirNext

LEMMA CwdInductive == DirSpec => []CwdInv
<1>1. DirInit => CwdInv
  BY DEF DirInit, CwdInv, Dirs
<1> QED
  BY <1>1, CwdNext, TableInductive, PTL DEF DirSpec

\* Which command left its answer.
LEMMA Answered ==
    ASSUME TableInv, [DirNext]_dirVars, dirVars' # dirVars
    PROVE  /\ out'.cmd = "cd" => \E p \in Paths : Cd(p)
           /\ out'.cmd = "open" => \E p \in Paths : Open(p)
<1>1. CASE Boot
  <2>1. machine = "boots" /\ out' = out
    BY <1>1 DEF Boot, ReadHeader, WalkEnds
  <2> QED
    BY <2>1 DEF TableInv, Nothing
<1>2. ASSUME NEW p \in Paths, Cd(p)
      PROVE  out'.cmd # "open"
  BY <1>2 DEF Cd, change_directory
<1>3. ASSUME NEW p \in Paths, Ls(p)
      PROVE  out'.cmd \notin {"cd", "open"}
  BY <1>3 DEF Ls, ShowDir
<1>4. ASSUME NEW p \in Paths, Open(p)
      PROVE  out'.cmd # "cd"
  BY <1>4 DEF Open
<1>5. CASE Prompt \/ Pwd
  BY <1>5 DEF Prompt, Pwd, Nothing
<1>6. CASE CdAlone
  BY <1>6 DEF CdAlone, change_directory
<1>7. CASE LsAlone
  BY <1>7 DEF LsAlone, ShowDir
<1>8. CASE TypeExit
  BY <1>8 DEF TypeExit
<1>9. ASSUME NEW file \in Programs, LoadProgram(file)
      PROVE  out'.cmd \notin {"cd", "open"}
  BY <1>9 DEF LoadProgram
<1> QED
  BY <1>1, <1>2, <1>3, <1>4, <1>5, <1>6, <1>7, <1>8, <1>9 DEF DirNext

\* cd goes to the directory the name leads to, however deep, and stays where
\* it is if that is nowhere: the name put together is the directory's, and the
\* table has the directories of the archive (dir.c:25-92).
THEOREM CdGoes == DirSpec => CdReaches
<1>1. TableInv /\ CwdInv /\ [DirNext]_dirVars => [CdStep]_dirVars
  <2> SUFFICES ASSUME TableInv, CwdInv, [DirNext]_dirVars, dirVars' # dirVars,
                      out'.cmd = "cd", Plain(out'.path)
               PROVE  LET dir == Resolve(strtok(out'.path))
                      IN  cwd' = IF dir = Blank THEN cwd ELSE dir
    BY DEF CdStep
  <2>1. PICK p \in Paths : Cd(p)
    BY Answered
  <2>2. /\ machine # "boots" /\ out'.path = p /\ chdir(p)
    BY <2>1 DEF Cd, Reads, change_directory
  <2>3. p \in Seq(Component) /\ p # <<>>
    <3>1. p \in Seq(STRING) /\ p # <<>>
      BY DirectoriesAssumption
    <3> QED
      BY <3>1, Components
  <2>4. Plain(p) /\ strtok(p) # <<>> /\ strtok(p) \in Seq(Component)
    BY <2>2, <2>3, strtokIs DEF Plain
  <2> DEFINE s == strtok(p)
             name == getAbsolutePath(p, DirFlag)
  <2>5. name \in Dirs => name # Blank
    <3>1. archive \in Archives
      BY DEF TableInv
    <3> HIDE DEF name
    <3> QED
      BY <3>1, DirIs
  <2>6. Resolve(s) = IF name \in Dirs THEN name ELSE Blank
    <3>1. PICK base \in Dirs, a \in 0 .. Len(s) :
              /\ a = 0 => base = cwd
              /\ a # 0 => a = 1 /\ Follow(cwd, s[1]) = base
              /\ \A i \in a + 1 .. Len(s) : s[i] \notin {".", ".."}
              /\ name = Below(base, s, a, Len(s))
      BY <2>2, <2>3, <2>4, AbsoluteIs DEF CwdInv
    <3>2. archive \in Archives /\ cwd \in Dirs
      BY DEF TableInv, CwdInv
    <3> HIDE DEF s, name
    <3>3. s \in Seq(Component)
      BY <2>4 DEF s
    <3>4. Resolve(s) = IF Below(base, s, a, Len(s)) \in Dirs
                       THEN Below(base, s, a, Len(s)) ELSE Blank
      BY <3>1, <3>2, <3>3, Leads
    <3> QED
      BY <3>1, <3>4
  <2>7. cwd' = IF Lookup(name, DirFlag) # 0 THEN name ELSE cwd
    BY <2>2, <2>4 DEF chdir
  <2>8. Lookup(name, DirFlag) # 0 <=> name \in Dirs
    <3> HIDE DEF name
    <3> QED
      BY <2>2, DirListed
  <2> HIDE DEF s, name
  <2>9. cwd' = IF Resolve(s) = Blank THEN cwd ELSE Resolve(s)
    BY <2>5, <2>6, <2>7, <2>8
  <2> QED
    BY <2>2, <2>9 DEF s
<1> QED
  BY <1>1, TableInductive, CwdInductive, PTL DEF DirSpec, CdReaches

\* open finds the file the name leads to, if there is one, and nothing else
\* (dir.c:128-155).
THEOREM OpensFile == DirSpec => OpenFinds
<1>1. TableInv /\ CwdInv /\ [DirNext]_dirVars => [OpenStep]_dirVars
  <2> SUFFICES ASSUME TableInv, CwdInv, [DirNext]_dirVars, dirVars' # dirVars,
                      out'.cmd = "open", Plain(out'.path)
               PROVE  OpenStep
    BY DEF OpenStep
  <2>1. PICK p \in Paths : Open(p)
    BY Answered
  <2>2. /\ machine # "boots" /\ out'.path = p /\ out'.entry = open(p)
    BY <2>1 DEF Open, Reads
  <2>3. p \in Seq(Component) /\ p # <<>>
    <3>1. p \in Seq(STRING) /\ p # <<>>
      BY DirectoriesAssumption
    <3> QED
      BY <3>1, Components
  <2>4. Plain(p) /\ strtok(p) # <<>> /\ strtok(p) \in Seq(Component)
    BY <2>2, <2>3, strtokIs DEF Plain
  <2>5. Typed(p) = p
    <3>1. p # Blank
      <4> SUFFICES ASSUME p = Blank PROVE FALSE
        OBVIOUS
      <4>1. Last(p) = Nil /\ Front(p) = <<>>
        BY DEF Blank, Last, Front
      <4> QED
        BY <2>4, <4>1 DEF strtok
    <3> QED
      BY <3>1 DEF Typed
  <2>6. archive \in Archives /\ cwd \in Dirs
    BY DEF TableInv, CwdInv
  <2> DEFINE s == strtok(p)
             f == Front(s)
             path == getAbsolutePath(p, FileFlag)
             e == Lookup(path, FileFlag)
             dir == Resolve(f)
             name == Append(Front(dir), Last(s))
  <2>7. out'.entry = e
    BY <2>2, <2>5 DEF open
  <2>8. /\ e # 0 => /\ e - 1 \in DOMAIN archive
                    /\ archive[e - 1].flag = FileFlag
                    /\ FullName(e - 1) = path
        /\ e = 0 => ~ \E i \in DOMAIN archive :
                         /\ archive[i].flag = FileFlag
                         /\ FullName(i) = path
    <3> HIDE DEF path
    <3> QED
      BY <2>2, FileListed
  <2>9. PICK base \in Dirs, a \in 0 .. Len(s) :
            /\ a = 0 => base = cwd
            /\ a # 0 => a = 1 /\ Follow(cwd, s[1]) = base
            /\ \A i \in a + 1 .. Len(s) : s[i] \notin {".", ".."}
            /\ a = Len(s) => /\ Len(s) = 1 /\ s[1] \in {".", ".."}
                             /\ path = base
            /\ a # Len(s) => path = Append(Front(Below(base, f, a, Len(s) - 1)), Last(s))
    BY <2>2, <2>3, <2>4, AbsoluteIs DEF CwdInv
  <2>10. /\ s \in Seq(Component) /\ s # <<>> /\ Len(s) \in Nat \ {0}
         /\ Last(s) = s[Len(s)]
         /\ f \in Seq(Component) /\ Len(f) = Len(s) - 1
         /\ \A k \in 1 .. Len(s) - 1 : f[k] = s[k]
    <3> HIDE DEF s
    <3> QED
      BY <2>4, FrontIs DEF s
\* A file is not a directory, and no component of it is a dot or two.
  <2>11. ASSUME NEW i \in DOMAIN archive, archive[i].flag = FileFlag
         PROVE  FullName(i) \notin Dirs /\ Last(FullName(i)) \notin {".", ".."}
    <3>1. i \in 1 .. Len(archive) /\ archive[i].flag # DirFlag
      BY <2>6, <2>11, ArchiveMade DEF DirFlag, FileFlag
    <3>2. FullName(i) \notin Dirs
      BY <2>6, <3>1, DirIs, ParentListed
    <3> DEFINE n == archive[i].name
    <3>3. /\ n \in Seq(STRING) /\ n # <<>> /\ n # Blank
          /\ \A k \in DOMAIN n : n[k] \notin {".", ".."}
      BY <2>6, <3>1, ArchiveMade
    <3> HIDE DEF n
    <3>4. n \in Seq(Component)
      BY <3>3, Components
    <3>5. Last(strcat(RootName, n)) = Last(n) /\ Last(n) = n[Len(n)] /\ Len(n) \in DOMAIN n
      BY <3>3, <3>4, FullIs, FrontIs
    <3> QED
      BY <3>2, <3>3, <3>5 DEF FullName, n
  <2> HIDE DEF s, f, path, e
  <2>12. CASE a = Len(s)
    <3>1. path \in Dirs /\ Last(s) \in {".", ".."}
      BY <2>9, <2>10, <2>12
    <3>2. e = 0
      BY <2>8, <2>11, <3>1
    <3>3. CASE dir = Blank
      BY <2>2, <2>7, <3>2, <3>3 DEF OpenStep, s, f
    <3>4. CASE dir # Blank
      <4>1. Len(f) = 0 /\ f = <<>>
        BY <2>9, <2>10, <2>12
      <4>2. dir = cwd
        <5>1. PICK g : Resolve(f) = g[Len(f)] /\ g[0] = cwd
          BY <2>6, <2>10, ResolveDef
        <5> QED
          BY <4>1, <5>1
      <4>3. dir \in Seq(Component) /\ dir # <<>>
        BY <2>6, <4>2, DirIs
      <4>4. Last(s) \in Component
        BY <2>10
      <4> HIDE DEF dir
      <4>5. Last(name) = Last(s)
        BY <4>3, <4>4, AppendFront, FrontIs DEF Last
      <4>6. ASSUME NEW i \in DOMAIN archive, archive[i].flag = FileFlag
            PROVE  FullName(i) # name
        BY <2>11, <3>1, <4>5, <4>6
      <4> QED
        BY <2>2, <2>7, <3>2, <4>6 DEF OpenStep, s, f, dir
    <3> QED
      BY <3>3, <3>4
  <2>13. CASE a # Len(s)
    <3>1. /\ a \in 0 .. Len(f) /\ Len(s) - 1 = Len(f)
          /\ \A i \in a + 1 .. Len(f) : f[i] \notin {".", ".."}
      BY <2>9, <2>10, <2>13
    <3>2. a # 0 => a = 1 /\ Follow(cwd, f[1]) = base
      <4>1. a # 0 => 1 \in 1 .. Len(s) - 1
        BY <2>9, <2>10, <2>13
      <4> QED
        BY <2>9, <2>10, <4>1
    <3> DEFINE b == Below(base, f, a, Len(f))
    <3>3. dir = IF b \in Dirs THEN b ELSE Blank
      BY <2>6, <2>9, <2>10, <3>1, <3>2, Leads
    <3>4. path = Append(Front(b), Last(s))
      BY <2>9, <2>13, <3>1
    <3>5. b \in Dirs => b # Blank
      BY <2>6, DirIs
    <3>6. /\ b \in Seq(Component) /\ b # <<>> /\ Last(b) = Nil
          /\ Len(b) >= Len(base) /\ Len(base) \in Nat \ {0} /\ Len(b) \in Nat
      <4>1. base \in Seq(Component) /\ base # <<>>
        BY <2>6, DirIs
      <4>2. a \in Nat /\ Len(f) \in a .. Len(f)
        BY <2>10, <3>1
      <4>3. Spelt(b, base, f, a, Len(f))
        BY <2>10, <4>1, <4>2, BelowIs, Zenon
      <4> HIDE DEF b
      <4> QED
        BY <4>3 DEF Spelt
    <3> HIDE DEF b, dir
\* If the directory is not there, neither is the file.
    <3>7. ASSUME e # 0
          PROVE  b \in Dirs
      <4>1. PICK i \in 1 .. Len(archive) :
                    i = e - 1 /\ archive[i].flag = FileFlag /\ FullName(i) = path
        BY <2>6, <2>8, <3>7, ArchiveMade
      <4>2. Last(FullName(i)) # Nil /\ DirName(FullName(i)) \in Dirs
        <5>1. archive[i].flag # DirFlag
          BY <4>1 DEF DirFlag, FileFlag
        <5>2. \A j \in 1 .. i - 1 : j \in DOMAIN archive
          BY <2>6, ArchiveMade
        <5>3. /\ Last(FullName(i)) = Nil <=> archive[i].flag = DirFlag
              /\ \/ DirName(FullName(i)) = RootName
                 \/ \E j \in 1 .. i - 1 : /\ DirName(FullName(i)) = FullName(j)
                                          /\ archive[j].flag = DirFlag
          BY <2>6, ParentListed
        <5> QED
          BY <5>1, <5>2, <5>3 DEF Dirs
      <4>3. DirName(path) = Append(Front(path), Nil)
        BY <4>1, <4>2 DEF DirName
      <4>4. Append(Front(path), Nil) = b
        <5> DEFINE q == Append(Front(path), Nil)
                   m == Len(b)
        <5>1. Last(s) \in Component /\ Nil \in Component
          BY <2>10, Components
        <5>2. /\ path \in Seq(Component) /\ path # <<>> /\ Len(path) = m
              /\ \A k \in 1 .. m - 1 : path[k] = b[k]
          BY <3>4, <3>6, <5>1, AppendFront
        <5>3. /\ q \in Seq(Component) /\ Len(q) = m
              /\ \A k \in 1 .. m - 1 : q[k] = path[k]
              /\ q[m] = Nil
          BY <5>1, <5>2, AppendFront
        <5>4. b[m] = Nil /\ m \in Nat \ {0}
          BY <3>6 DEF Last
        <5> HIDE DEF q, m
        <5>5. ASSUME NEW k \in 1 .. m PROVE q[k] = b[k]
          <6>1. CASE k = m
            BY <5>3, <5>4, <6>1
          <6>2. CASE k # m
            <7>1. k \in 1 .. m - 1
              BY <5>4, <6>2
            <7> QED
              BY <5>2, <5>3, <7>1
          <6> QED
            BY <6>1, <6>2
        <5>6. Len(b) = m
          BY DEF m
        <5>7. q = b
          BY <3>6, <5>3, <5>5, <5>6, SameName
        <5> QED
          BY <5>7 DEF q
      <4> QED
        BY <4>1, <4>2, <4>3, <4>4
    <3>8. e # 0 => dir # Blank /\ path = name
      BY <3>3, <3>4, <3>5, <3>7
    <3>9. dir # Blank => path = name
      BY <3>3, <3>4
    <3> QED
      BY <2>2, <2>7, <2>8, <3>8, <3>9 DEF OpenStep, s, f, dir
  <2> QED
    BY <2>12, <2>13
<1> QED
  BY <1>1, TableInductive, CwdInductive, PTL DEF DirSpec, OpenFinds
=============================================================================
