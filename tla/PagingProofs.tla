---------------------------- MODULE PagingProofs ----------------------------
(***************************************************************************)
(* Page tables for any page size, any number of tables and pages, any heap *)
(* and any programs.                                                       *)
(***************************************************************************)
EXTENDS Paging, TLAPS, WellFoundedInduction, FiniteSetTheorems

(* A nonempty set of naturals has a least element, which is what Min is. *)
LEMMA LeastNatural ==
  ASSUME NEW T, T \subseteq Nat, T # {}
  PROVE  Min(T) \in T /\ \A k \in T : Min(T) <= k
<1>1. PICK m \in T : \A y \in T : ~ (<<y, m>> \in OpToRel(<, Nat))
  BY NatLessThanWellFounded, WFMin
<1>2. ASSUME NEW k \in T PROVE m <= k
  <2>1. ~ (<<k, m>> \in OpToRel(<, Nat))
    BY <1>1
  <2>2. <<k, m>> \in Nat \X Nat
    OBVIOUS
  <2>3. ~ (k < m)
    BY <2>1, <2>2 DEF OpToRel
  <2>. QED BY <2>3
<1>3. \E x \in T : \A k \in T : x <= k
  BY <1>2
<1>. QED BY <1>3 DEF Min

(* Induction over an interval, with the property as a set. *)
LEMMA IntervalInduction ==
  ASSUME NEW n \in Nat, NEW P, 0 \in P, \A i \in 1 .. n : i - 1 \in P => i \in P
  PROVE  \A i \in 0 .. n : i \in P
<1>. DEFINE T == {i \in 0 .. n : i \notin P}
<1>1. T \subseteq Nat
  OBVIOUS
<1>2. ASSUME T # {} PROVE FALSE
  <2>. HIDE DEF T
  <2>1. Min(T) \in T /\ \A k \in T : Min(T) <= k
    BY <1>1, <1>2, LeastNatural
  <2>2. PICK k \in 0 .. n : k \notin P /\ \A j \in T : k <= j
    BY <2>1 DEF T
  <2>3. k \in 1 .. n /\ k - 1 \in 0 .. n /\ k - 1 \notin T
    BY <1>1, <2>2
  <2>. QED BY <2>2, <2>3 DEF T
<1>. QED BY <1>2

(***************************************************************************)
(* A loop of n steps has a value after each of them: step[i] is what the   *)
(* i-th makes of the value before.                                         *)
(***************************************************************************)
LoopValues(g, S, m, n, step) ==
  /\ g \in [0 .. n -> S]
  /\ g[0] = m
  /\ \A i \in 1 .. n : g[i] = step[i][g[i - 1]]

LEMMA LoopExists ==
  ASSUME NEW S, NEW m \in S, NEW n \in Nat, NEW step \in [1 .. n -> [S -> S]]
  PROVE  \E g : LoopValues(g, S, m, n, step)
<1>. DEFINE After(k) ==
       \E g \in [0 .. k -> S] :
         g[0] = m /\ \A i \in 1 .. k : g[i] = step[i][g[i - 1]]
     P == {k \in 0 .. n : After(k)}
<1>1. After(0)
  <2>. DEFINE g == [i \in 0 .. 0 |-> m]
  <2>1. g \in [0 .. 0 -> S] /\ g[0] = m /\ 1 .. 0 = {}
    OBVIOUS
  <2>. QED BY <2>1
<1>2. ASSUME NEW k \in 1 .. n, After(k - 1)
      PROVE  After(k)
  <2>1. PICK g \in [0 .. k - 1 -> S] :
          g[0] = m /\ \A i \in 1 .. k - 1 : g[i] = step[i][g[i - 1]]
    BY <1>2
  <2>. DEFINE h == [i \in 0 .. k |-> IF i = k THEN step[k][g[k - 1]] ELSE g[i]]
  <2>2. h \in [0 .. k -> S]
    OBVIOUS
  <2>3. h[0] = m
    BY <2>1
  <2>4. ASSUME NEW i \in 1 .. k
        PROVE  h[i] = step[i][h[i - 1]]
    <3>1. CASE i \in 1 .. k - 1
      BY <2>1, <3>1
    <3>2. CASE i = k
      BY <3>2
    <3>. QED BY <3>1, <3>2
  <2>. QED BY <2>2, <2>3, <2>4
<1>. HIDE DEF After
<1>3. \A k \in 0 .. n : k \in P
  <2>1. 0 \in P /\ \A k \in 1 .. n : k - 1 \in P => k \in P
    BY <1>1, <1>2
  <2>. HIDE DEF P
  <2>. QED BY <2>1, IntervalInduction
<1>4. After(n)
  BY <1>3
<1>. QED BY <1>4 DEF After, LoopValues

-----------------------------------------------------------------------------
(* A multiple of n strictly between -n and n is 0. *)
LEMMA NoMultipleBetween ==
  ASSUME NEW n \in Nat \ {0}, NEW k \in Int, -n < k * n, k * n < n
  PROVE  k = 0
<1>1. k >= 1 => k * n >= n
  OBVIOUS
<1>2. k <= -1 => k * n <= -n
  OBVIOUS
<1>3. k * n \in Int
  OBVIOUS
<1>. QED BY <1>1, <1>2, <1>3

(* Only one quotient and one remainder fit. *)
LEMMA DivMod ==
  ASSUME NEW n \in Nat \ {0}, NEW x \in Int, NEW q \in Int,
         NEW r \in 0 .. n - 1, x = q * n + r
  PROVE  x % n = r /\ x \div n = q
<1>1. PICK p \in Int, s \in 0 .. n - 1 :
        x = p * n + s /\ p = x \div n /\ s = x % n
  <2>1. /\ x \div n \in Int /\ x % n \in 0 .. n - 1
        /\ x = (x \div n) * n + (x % n)
    OBVIOUS
  <2>. QED BY <2>1
<1>2. PICK a \in Int, b \in Int : a = p * n /\ b = q * n
  OBVIOUS
<1>3. (p - q) * n = a - b
  BY <1>2
<1>4. -n < a - b /\ a - b < n
  BY <1>1, <1>2
<1>5. p - q = 0
  BY <1>3, <1>4, NoMultipleBetween
<1>. QED BY <1>1, <1>2, <1>5

(* What the quotient and the remainder are. *)
LEMMA Quotient ==
  ASSUME NEW n \in Nat \ {0}, NEW x \in Nat
  PROVE  /\ x \div n \in Nat /\ x % n \in 0 .. n - 1
         /\ x = (x \div n) * n + (x % n)
<1>1. x \div n \in Int /\ x % n \in 0 .. n - 1 /\ x = (x \div n) * n + (x % n)
  OBVIOUS
<1>2. PICK q \in Int, r \in 0 .. n - 1 : q = x \div n /\ r = x % n /\ x = q * n + r
  BY <1>1
<1>3. q <= -1 => q * n <= -n
  OBVIOUS
<1>4. q * n \in Int
  OBVIOUS
<1>5. q >= 0
  BY <1>2, <1>3, <1>4
<1>. QED BY <1>1, <1>2, <1>5

(* A quotient is below k when the number is below k times n. *)
LEMMA QuotientBelow ==
  ASSUME NEW n \in Nat \ {0}, NEW x \in Nat, NEW k \in Nat, x < k * n
  PROVE  x \div n \in 0 .. k - 1
<1>1. PICK q \in Nat, r \in 0 .. n - 1 : q = x \div n /\ x = q * n + r
  BY Quotient
<1>2. q >= k => q * n >= k * n
  OBVIOUS
<1>3. q * n \in Int /\ k * n \in Int
  OBVIOUS
<1>. QED BY <1>1, <1>2, <1>3

-----------------------------------------------------------------------------
(* The sizes of memory. *)
LEMMA Sizes ==
  /\ PageSize \in Nat \ {0} /\ EntriesPerTable \in Nat \ {0}
  /\ TablesPerDirectory \in Nat \ {0}
  /\ TotalPages \in Nat \ {0} /\ Word \in Nat \ {0}
  /\ Word = TotalPages * PageSize /\ TotalPages = TablesPerDirectory * EntriesPerTable
  /\ FirstHeapPage \in Nat \ {0} /\ LastHeapPage \in Nat
  /\ LastHeapPage <= TotalPages - 2
  /\ HeapPages \subseteq Pages /\ HeapPages \subseteq Nat \ {0}
<1>1. /\ PageSize \in Nat \ {0} /\ EntriesPerTable \in Nat \ {0}
      /\ TablesPerDirectory \in Nat \ {0}
  BY PagingAssumption
<1>2. TotalPages \in Nat \ {0}
  BY <1>1 DEF TotalPages
<1>3. Word \in Nat \ {0}
  BY <1>1, <1>2 DEF Word
<1>4. /\ FirstHeapPage \in Nat \ {0} /\ LastHeapPage \in Nat
      /\ LastHeapPage <= TotalPages - 2
  BY <1>2, PagingAssumption
<1>5. HeapPages \subseteq Pages /\ HeapPages \subseteq Nat \ {0}
  BY <1>2, <1>4 DEF HeapPages, Pages
<1>. QED BY <1>1, <1>2, <1>3, <1>4, <1>5 DEF TotalPages, Word

(* A page's table and its entry in it. *)
LEMMA PageSplit ==
  ASSUME NEW p \in Pages
  PROVE  /\ p \div EntriesPerTable \in 0 .. TablesPerDirectory - 1
         /\ p % EntriesPerTable \in 0 .. EntriesPerTable - 1
         /\ p = (p \div EntriesPerTable) * EntriesPerTable + (p % EntriesPerTable)
<1>1. p \in Nat /\ p < TablesPerDirectory * EntriesPerTable
  BY Sizes DEF Pages
<1>. QED BY <1>1, Sizes, Quotient, QuotientBelow

(* Table n's entry j is that of one page. *)
LEMMA PageJoined ==
  ASSUME NEW n \in 0 .. TablesPerDirectory - 1, NEW j \in 0 .. EntriesPerTable - 1
  PROVE  /\ PageOf(n, j) \in Pages
         /\ PageOf(n, j) \div EntriesPerTable = n
         /\ PageOf(n, j) % EntriesPerTable = j
<1>1. PICK a \in Nat : a = n * EntriesPerTable
  BY Sizes
<1>2. (n + 1) * EntriesPerTable <= TablesPerDirectory * EntriesPerTable
  BY Sizes
<1>3. (n + 1) * EntriesPerTable = a + EntriesPerTable
  BY <1>1, Sizes
<1>4. PageOf(n, j) = a + j
  BY <1>1 DEF PageOf
<1>5. PageOf(n, j) \in Pages
  BY <1>2, <1>3, <1>4, Sizes DEF Pages
<1>6. (a + j) \div EntriesPerTable = n /\ (a + j) % EntriesPerTable = j
  BY <1>1, Sizes, DivMod
<1>. QED BY <1>4, <1>5, <1>6

(* An address's page and its place in it. *)
LEMMA AddressSplit ==
  ASSUME NEW v \in 0 .. Word - 1
  PROVE  /\ v \div PageSize \in Pages /\ v % PageSize \in 0 .. PageSize - 1
         /\ v = (v \div PageSize) * PageSize + (v % PageSize)
<1>1. v \in Nat /\ v < TotalPages * PageSize
  BY Sizes
<1>2. v \div PageSize \in 0 .. TotalPages - 1
  BY <1>1, Sizes, QuotientBelow
<1>. QED BY <1>1, <1>2, Sizes, Quotient DEF Pages

(* Where a page begins, and the addresses in it. *)
LEMMA PageAddress ==
  ASSUME NEW p \in Pages, NEW r \in 0 .. PageSize - 1
  PROVE  /\ p * PageSize + r \in 0 .. Word - 1
         /\ (p * PageSize + r) \div PageSize = p
         /\ (p * PageSize + r) % PageSize = r
<1>1. PICK a \in Nat : a = p * PageSize
  BY Sizes DEF Pages
<1>2. (p + 1) * PageSize <= TotalPages * PageSize
  BY Sizes DEF Pages
<1>3. (p + 1) * PageSize = a + PageSize
  BY <1>1, Sizes DEF Pages
<1>4. a + r \in 0 .. Word - 1
  BY <1>1, <1>2, <1>3, Sizes
<1>5. (a + r) \div PageSize = p /\ (a + r) % PageSize = r
  BY <1>1, <1>4, Sizes, DivMod DEF Pages
<1>. QED BY <1>1, <1>4, <1>5

(* get_paging_indeces finds the table and the entry of an address's page. *)
LEMMA Indices ==
  ASSUME NEW v \in 0 .. Word - 1
  PROVE  /\ DirectoryIndex(v) = (v \div PageSize) \div EntriesPerTable
         /\ TableIndex(v) = (v \div PageSize) % EntriesPerTable
<1>1. PICK p \in Pages, r \in 0 .. PageSize - 1 :
        /\ p = v \div PageSize /\ v = p * PageSize + r
  BY AddressSplit
<1>2. PICK k \in 0 .. TablesPerDirectory - 1, j \in 0 .. EntriesPerTable - 1 :
        /\ k = p \div EntriesPerTable /\ j = p % EntriesPerTable
        /\ p = k * EntriesPerTable + j
  BY PageSplit
<1>3. PICK bytes \in Nat \ {0} : bytes = EntriesPerTable * PageSize
  BY Sizes
<1>4. PICK b \in Nat : b = j * PageSize + r
  BY Sizes
<1>5. b \in 0 .. bytes - 1
  <2>1. (j + 1) * PageSize <= EntriesPerTable * PageSize
    BY Sizes
  <2>2. (j + 1) * PageSize = j * PageSize + PageSize /\ j * PageSize \in Nat
    BY Sizes
  <2>. QED BY <1>3, <1>4, <2>1, <2>2, Sizes
<1>6. v = k * bytes + b
  <2>1. p * PageSize = (k * EntriesPerTable) * PageSize + j * PageSize
    BY <1>2, Sizes
  <2>2. (k * EntriesPerTable) * PageSize = k * bytes
    BY <1>3, Sizes
  <2>3. k * bytes \in Nat /\ j * PageSize \in Nat
    BY Sizes
  <2>. QED BY <1>1, <1>4, <2>1, <2>2, <2>3, Sizes
<1>7. v \div bytes = k /\ v % bytes = b
  BY <1>5, <1>6, Sizes, DivMod
<1>8. b \div PageSize = j
  BY <1>4, Sizes, DivMod
<1>. QED BY <1>1, <1>2, <1>3, <1>7, <1>8 DEF DirectoryIndex, TableIndex

-----------------------------------------------------------------------------
(* The page tables in memory, those that are none included. *)
Memory == [Pages -> [0 .. EntriesPerTable - 1 -> Entry]]

(* The page where address (p * PageSize) % Word begins. *)
LEMMA WrappedPage ==
  ASSUME NEW p \in Nat
  PROVE  p % TotalPages \in Pages /\ (p * PageSize) % Word = (p % TotalPages) * PageSize
<1>1. PICK q \in Nat, r \in Pages : r = p % TotalPages /\ p = q * TotalPages + r
  <2>1. /\ p \div TotalPages \in Nat /\ p % TotalPages \in 0 .. TotalPages - 1
        /\ p = (p \div TotalPages) * TotalPages + (p % TotalPages)
    BY Quotient, Sizes
  <2>. QED BY <2>1 DEF Pages
<1>2. PICK b \in 0 .. Word - 1 : b = r * PageSize
  <2>1. r * PageSize + 0 \in 0 .. Word - 1
    BY PageAddress, Sizes
  <2>. QED BY <2>1, Sizes DEF Pages
<1>3. PICK x \in Nat : x = p * PageSize
  BY Sizes
<1>4. x = q * Word + b
  BY <1>1, <1>2, <1>3, Sizes DEF Pages
<1>5. Word \in Nat \ {0} /\ x \in Int /\ q \in Int
  BY Sizes
<1>6. x % Word = b
  BY <1>4, <1>5, DivMod
<1>. QED BY <1>1, <1>2, <1>3, <1>6

Directories == [0 .. TablesPerDirectory - 1 -> Pages]
TablesDiffer(directory) ==
  \A i, j \in 0 .. TablesPerDirectory - 1 : directory[i] = directory[j] => i = j

(* The entry of page p in the tables of a directory. *)
View(m, directory, p) ==
  m[directory[p \div EntriesPerTable]][p % EntriesPerTable]

(* get_page reads the entry of the page an address lies in. *)
LEMMA GetPageIsView ==
  ASSUME NEW m, NEW directory, NEW v \in 0 .. Word - 1
  PROVE  get_page(m, directory, v) = View(m, directory, v \div PageSize)
BY Indices DEF get_page, View

(***************************************************************************)
(* What maps n pages from p to n pages from a, and changes nothing else,   *)
(* makes of memory m.                                                      *)
(***************************************************************************)
TablesChange(m, r, directory) ==
  /\ r \in Memory
  /\ \A x \in Pages :
       (\A i \in 0 .. TablesPerDirectory - 1 : directory[i] # x) => r[x] = m[x]
EntriesLead(m, r, a, n, w) ==
  \A x \in Pages, j \in 0 .. EntriesPerTable - 1 :
    \/ r[x][j] = m[x][j]
    \/ r[x][j].writable = w /\ r[x][j].page \in a .. a + n - 1
ViewMapped(m, r, directory, p, a, n, w) ==
  TablesDiffer(directory) /\ p + n <= TotalPages =>
    \A q \in Pages : View(r, directory, q) =
      IF q \in p .. p + n - 1 THEN [page |-> a + (q - p), writable |-> w]
      ELSE View(m, directory, q)
MapsRun(m, r, directory, p, a, n, w) ==
  /\ TablesChange(m, r, directory)
  /\ EntriesLead(m, r, a, n, w)
  /\ ViewMapped(m, r, directory, p, a, n, w)

(* No page, no change. *)
LEMMA MapsNone ==
  ASSUME NEW m \in Memory, NEW directory, NEW p \in Nat, NEW a \in Nat, NEW w
  PROVE  MapsRun(m, m, directory, p, a, 0, w)
<1>1. \A q \in Pages : q \notin p .. p + 0 - 1
  OBVIOUS
<1>. QED BY <1>1 DEF MapsRun, TablesChange, EntriesLead, ViewMapped

(* Pages in a row and then the next. *)
LEMMA MapsNext ==
  ASSUME NEW m, NEW x, NEW r, NEW directory, NEW p \in Nat, NEW a \in Nat, NEW n \in Nat,
         NEW v \in Nat, NEW w, p + (n + 1) <= TotalPages => v = p + n,
         MapsRun(m, x, directory, p, a, n, w), MapsRun(x, r, directory, v, a + n, 1, w)
  PROVE  MapsRun(m, r, directory, p, a, n + 1, w)
<1>1. TablesChange(m, r, directory)
  BY DEF MapsRun, TablesChange
<1>2. EntriesLead(m, r, a, n + 1, w)
  <2>1. ASSUME NEW y \in Pages, NEW j \in 0 .. EntriesPerTable - 1
        PROVE  \/ r[y][j] = m[y][j]
               \/ r[y][j].writable = w /\ r[y][j].page \in a .. a + (n + 1) - 1
    <3>1. \/ x[y][j] = m[y][j]
          \/ x[y][j].writable = w /\ x[y][j].page \in a .. a + n - 1
      BY DEF MapsRun, EntriesLead
    <3>2. \/ r[y][j] = x[y][j]
          \/ r[y][j].writable = w /\ r[y][j].page \in (a + n) .. (a + n) + 1 - 1
      BY DEF MapsRun, EntriesLead
    <3>3. /\ a .. a + n - 1 \subseteq a .. a + (n + 1) - 1
          /\ (a + n) .. (a + n) + 1 - 1 \subseteq a .. a + (n + 1) - 1
      OBVIOUS
    <3>. QED BY <3>1, <3>2, <3>3
  <2>. QED BY <2>1 DEF EntriesLead
<1>3. ASSUME TablesDiffer(directory), p + (n + 1) <= TotalPages, NEW q \in Pages
      PROVE  View(r, directory, q) =
               IF q \in p .. p + (n + 1) - 1 THEN [page |-> a + (q - p), writable |-> w]
               ELSE View(m, directory, q)
  <2>1. TotalPages \in Nat /\ q \in Nat /\ v = p + n
    BY <1>3, Sizes DEF Pages
  <2>2. View(x, directory, q) =
          IF q \in p .. p + n - 1 THEN [page |-> a + (q - p), writable |-> w]
          ELSE View(m, directory, q)
    BY <1>3, <2>1 DEF MapsRun, ViewMapped
  <2>3. View(r, directory, q) =
          IF q \in v .. v + 1 - 1 THEN [page |-> (a + n) + (q - v), writable |-> w]
          ELSE View(x, directory, q)
    BY <1>3, <2>1 DEF MapsRun, ViewMapped
  <2>4. q \in v .. v + 1 - 1 <=> q = v
    BY <2>1
  <2>5. q \in p .. p + (n + 1) - 1 <=> q = v \/ q \in p .. p + n - 1
    BY <2>1
  <2>6. q = v => (a + n) + (q - v) = a + (q - p)
    BY <2>1
  <2>. QED BY <2>2, <2>3, <2>4, <2>5, <2>6
<1>. QED BY <1>1, <1>2, <1>3 DEF MapsRun, ViewMapped

(* paging_map, by the numbers of the pages. *)
MapPage(m, directory, p, a, w) ==
  paging_map(m, directory, p * PageSize, a * PageSize, w)

(* paging_map changes the entry of the page it is given and no other. *)
LEMMA MapOne ==
  ASSUME NEW m \in Memory, NEW directory \in Directories,
         NEW p \in Pages, NEW a \in Pages, NEW w \in BOOLEAN
  PROVE  MapsRun(m, MapPage(m, directory, p, a, w), directory, p, a, 1, w)
<1>. DEFINE e == [page |-> a, writable |-> w]
            r == MapPage(m, directory, p, a, w)
<1>1. PICK k \in 0 .. TablesPerDirectory - 1, j \in 0 .. EntriesPerTable - 1 :
        k = p \div EntriesPerTable /\ j = p % EntriesPerTable
        /\ p = k * EntriesPerTable + j
  BY PageSplit
<1>2. /\ p * PageSize \in 0 .. Word - 1 /\ (p * PageSize) \div PageSize = p
      /\ (a * PageSize) \div PageSize = a
  <2>1. 0 \in 0 .. PageSize - 1
    BY Sizes
  <2>2. /\ p * PageSize + 0 \in 0 .. Word - 1 /\ (p * PageSize + 0) \div PageSize = p
        /\ (a * PageSize + 0) \div PageSize = a
    BY <2>1, PageAddress
  <2>3. p * PageSize + 0 = p * PageSize /\ a * PageSize + 0 = a * PageSize
    BY Sizes DEF Pages
  <2>. QED BY <2>2, <2>3
<1>3. DirectoryIndex(p * PageSize) = k /\ TableIndex(p * PageSize) = j
  BY <1>1, <1>2, Indices
<1>4. r = [m EXCEPT ![directory[k]][j] = e]
  BY <1>2, <1>3 DEF MapPage, paging_map, paging_set
<1>5. directory[k] \in Pages /\ e \in Entry /\ e.page = a /\ e.writable = w
  BY DEF Directories, Entry
<1>. HIDE DEF r, e
<1>6. /\ r \in Memory
      /\ \A x \in Pages, i \in 0 .. EntriesPerTable - 1 :
           r[x][i] = IF x = directory[k] /\ i = j THEN e ELSE m[x][i]
      /\ \A x \in Pages : x # directory[k] => r[x] = m[x]
  <2>. DEFINE d == directory[k]
  <2>1. /\ m \in [Pages -> [0 .. EntriesPerTable - 1 -> Entry]]
        /\ r = [m EXCEPT ![d] = [m[d] EXCEPT ![j] = e]] /\ d \in Pages
    BY <1>4, <1>5 DEF Memory
  <2>. HIDE DEF d
  <2>2. [m[d] EXCEPT ![j] = e] \in [0 .. EntriesPerTable - 1 -> Entry]
    BY <1>5, <2>1
  <2>3. r \in Memory
    BY <2>1, <2>2 DEF Memory
  <2>4. \A x \in Pages : x # d => r[x] = m[x]
    BY <2>1
  <2>5. \A i \in 0 .. EntriesPerTable - 1 : r[d][i] = IF i = j THEN e ELSE m[d][i]
    BY <2>1
  <2>. QED BY <2>3, <2>4, <2>5 DEF d
<1>7. ASSUME TablesDiffer(directory), NEW q \in Pages
      PROVE  View(r, directory, q) = IF q = p THEN e ELSE View(m, directory, q)
  <2>1. PICK h \in 0 .. TablesPerDirectory - 1, i \in 0 .. EntriesPerTable - 1 :
          h = q \div EntriesPerTable /\ i = q % EntriesPerTable
          /\ q = h * EntriesPerTable + i
    BY PageSplit
  <2>2. directory[h] \in Pages
    BY DEF Directories
  <2>3. (h = k /\ i = j) <=> q = p
    BY <1>1, <2>1
  <2>4. directory[h] = directory[k] <=> h = k
    BY <1>7 DEF TablesDiffer
  <2>5. View(r, directory, q) = r[directory[h]][i] /\ View(m, directory, q) = m[directory[h]][i]
    BY <2>1 DEF View
  <2>. QED BY <1>6, <2>2, <2>3, <2>4, <2>5
<1>8. TablesChange(m, r, directory)
  BY <1>6 DEF TablesChange
<1>9. EntriesLead(m, r, a, 1, w)
  <2>1. e.writable = w /\ e.page \in a .. a + 1 - 1
    BY <1>5 DEF Pages
  <2>. QED BY <1>6, <2>1 DEF EntriesLead
<1>10. ViewMapped(m, r, directory, p, a, 1, w)
  <2>1. ASSUME NEW q \in Pages
        PROVE  /\ q \in p .. p + 1 - 1 <=> q = p
               /\ q = p => a + (q - p) = a
    BY DEF Pages
  <2>2. e = [page |-> a, writable |-> w]
    BY DEF e
  <2>. QED BY <1>7, <2>1, <2>2 DEF ViewMapped
<1>. QED BY <1>8, <1>9, <1>10 DEF MapsRun, r

(* Mapping keeps memory what it is. *)
LEMMA MapKeepsMemory ==
  ASSUME NEW m \in Memory, NEW directory \in Directories,
         NEW p \in Pages, NEW a \in Pages, NEW w \in BOOLEAN
  PROVE  MapPage(m, directory, p, a, w) \in Memory
BY MapOne DEF MapsRun, TablesChange

(* What the i-th step of paging_map_range maps, and where. *)
Nth(p, i) == (p + (i - 1)) % TotalPages

LEMMA NthPage ==
  ASSUME NEW p \in Nat, NEW i \in Nat \ {0}
  PROVE  /\ Nth(p, i) \in Pages
         /\ (p * PageSize + (i - 1) * PageSize) % Word = Nth(p, i) * PageSize
         /\ p + i <= TotalPages => Nth(p, i) = p + (i - 1)
<1>1. p + (i - 1) \in Nat
  OBVIOUS
<1>2. p * PageSize + (i - 1) * PageSize = (p + (i - 1)) * PageSize
  BY Sizes
<1>3. \A k \in Pages : k % TotalPages = k
  BY Sizes DEF Pages
<1>4. p + i <= TotalPages => p + (i - 1) \in Pages
  BY Sizes DEF Pages
<1>5. /\ (p + (i - 1)) % TotalPages \in Pages
      /\ ((p + (i - 1)) * PageSize) % Word = ((p + (i - 1)) % TotalPages) * PageSize
  BY <1>1, WrappedPage
<1>6. (p * PageSize + (i - 1) * PageSize) % Word = ((p + (i - 1)) % TotalPages) * PageSize
  BY <1>2, <1>5, Zenon
<1>7. p + i <= TotalPages => (p + (i - 1)) % TotalPages = p + (i - 1)
  BY <1>3, <1>4
<1>. QED BY <1>5, <1>6, <1>7 DEF Nth

(* Memory after each step of paging_map_range. *)
RangeSteps(g, m, directory, p, a, n, w) ==
  /\ g \in [0 .. n -> Memory]
  /\ g[0] = m
  /\ \A i \in 1 .. n : g[i] = MapPage(g[i - 1], directory, Nth(p, i), Nth(a, i), w)
  /\ paging_map_range(m, directory, p * PageSize, a * PageSize, n, w) = g[n]

LEMMA RangeIsLoop ==
  ASSUME NEW m \in Memory, NEW directory \in Directories, NEW p \in Nat, NEW a \in Nat,
         NEW n \in Nat, NEW w \in BOOLEAN
  PROVE  \E g : RangeSteps(g, m, directory, p, a, n, w)
<1>. DEFINE Step(i, x) == MapPage(x, directory, Nth(p, i), Nth(a, i), w)
     Raw(i, x) == paging_map(x, directory, (p * PageSize + (i - 1) * PageSize) % Word,
                             (a * PageSize + (i - 1) * PageSize) % Word, w)
     step == [i \in 1 .. n |-> [x \in Memory |-> Step(i, x)]]
     Body(g) == [i \in 0 .. n |-> IF i = 0 THEN m ELSE Raw(i, g[i - 1])]
     mapped == CHOOSE g : g = Body(g)
<1>1. paging_map_range(m, directory, p * PageSize, a * PageSize, n, w) = mapped[n]
  BY Zenon DEF paging_map_range
<1>2. ASSUME NEW i \in 1 .. n, NEW x PROVE Raw(i, x) = Step(i, x)
  <2>1. /\ (p * PageSize + (i - 1) * PageSize) % Word = Nth(p, i) * PageSize
        /\ (a * PageSize + (i - 1) * PageSize) % Word = Nth(a, i) * PageSize
    BY NthPage
  <2>. QED BY <2>1, Zenon DEF MapPage
<1>3. ASSUME NEW i \in 1 .. n, NEW x \in Memory PROVE Step(i, x) \in Memory
  <2>1. Nth(p, i) \in Pages /\ Nth(a, i) \in Pages
    BY NthPage
  <2>. QED BY <2>1, MapKeepsMemory
<1>. HIDE DEF Step, Raw
<1>4. step \in [1 .. n -> [Memory -> Memory]]
  BY <1>3
<1>5. PICK g \in [0 .. n -> Memory] :
        g[0] = m /\ \A i \in 1 .. n : g[i] = step[i][g[i - 1]]
  <2>. HIDE DEF step
  <2>1. \E g : LoopValues(g, Memory, m, n, step)
    BY <1>4, LoopExists
  <2>. QED BY <2>1 DEF LoopValues
<1>6. \A i \in 1 .. n : g[i] = Step(i, g[i - 1])
  <2>1. ASSUME NEW i \in 1 .. n PROVE g[i] = Step(i, g[i - 1])
    <3>1. i - 1 \in 0 .. n
      OBVIOUS
    <3>2. g[i - 1] \in Memory
      BY <3>1
    <3>. QED BY <1>5, <3>2
  <2>. QED BY <2>1
<1>7. g = Body(g)
  BY <1>2, <1>5, <1>6
<1>. HIDE DEF Body
<1>8. mapped = Body(mapped)
  BY <1>7, Zenon
<1>. HIDE DEF mapped
<1>. USE DEF Body
<1>9. mapped[0] = m /\ \A i \in 1 .. n : mapped[i] = Raw(i, mapped[i - 1])
  BY <1>8
<1>10. \A i \in 1 .. n : mapped[i] = Step(i, mapped[i - 1])
  BY <1>2, <1>9
<1>11. \A i \in 0 .. n : mapped[i] \in Memory
  <2>. DEFINE P == {i \in 0 .. n : mapped[i] \in Memory}
  <2>1. 0 \in P /\ \A i \in 1 .. n : i - 1 \in P => i \in P
    BY <1>3, <1>9, <1>10
  <2>. HIDE DEF P
  <2>2. \A i \in 0 .. n : i \in P
    BY <2>1, IntervalInduction
  <2>. QED BY <2>2 DEF P
<1>12. mapped \in [0 .. n -> Memory]
  BY <1>8, <1>11
<1>. QED BY <1>1, <1>9, <1>10, <1>12, Zenon DEF Step, RangeSteps

(***************************************************************************)
(* paging_map_range maps pages in a row to pages in a row, in the tables   *)
(* of its directory; every entry it writes has the flags it was given.     *)
(***************************************************************************)
LEMMA MapRange ==
  ASSUME NEW m \in Memory, NEW directory \in Directories,
         NEW p \in Pages, NEW a \in Nat, NEW n \in Nat, a + n <= TotalPages,
         NEW w \in BOOLEAN
  PROVE  MapsRun(m, paging_map_range(m, directory, p * PageSize, a * PageSize, n, w),
                 directory, p, a, n, w)
<1>1. p \in Nat
  BY DEF Pages
<1>0. PICK g : RangeSteps(g, m, directory, p, a, n, w)
  BY <1>1, RangeIsLoop
<1>2. /\ g \in [0 .. n -> Memory] /\ g[0] = m
      /\ \A i \in 1 .. n : g[i] = MapPage(g[i - 1], directory, Nth(p, i), Nth(a, i), w)
      /\ paging_map_range(m, directory, p * PageSize, a * PageSize, n, w) = g[n]
  BY <1>0 DEF RangeSteps
<1>. DEFINE P == {i \in 0 .. n : MapsRun(m, g[i], directory, p, a, i, w)}
<1>3. 0 \in P
  <2>1. MapsRun(m, m, directory, p, a, 0, w)
    BY <1>1, MapsNone
  <2>. QED BY <1>2, <2>1
<1>4. ASSUME NEW i \in 1 .. n, i - 1 \in P
      PROVE  i \in P
  <2>1. i - 1 \in Nat /\ a + (i - 1) \in Nat /\ a + i <= TotalPages /\ i \in Nat \ {0}
    BY Sizes
  <2>2. /\ Nth(p, i) \in Pages /\ Nth(a, i) \in Pages
        /\ p + i <= TotalPages => Nth(p, i) = p + (i - 1)
        /\ Nth(a, i) = a + (i - 1)
    BY <1>1, <2>1, NthPage
  <2>3. g[i - 1] \in Memory
    BY <1>2
  <2>4. MapsRun(g[i - 1], g[i], directory, Nth(p, i), Nth(a, i), 1, w)
    BY <1>2, <2>2, <2>3, MapOne
  <2>5. MapsRun(m, g[i - 1], directory, p, a, i - 1, w)
    BY <1>4
  <2>6. PICK k \in Nat, v \in Nat :
          k = i - 1 /\ k + 1 = i /\ v = Nth(p, i) /\ Nth(a, i) = a + k
    <3>1. Nth(p, i) \in Nat /\ (i - 1) + 1 = i
      BY <2>2 DEF Pages
    <3>. QED BY <2>1, <2>2, <3>1, Zenon
  <2>7. p + (k + 1) <= TotalPages => v = p + k
    BY <2>2, <2>6
  <2>8. MapsRun(m, g[k], directory, p, a, k, w) /\ MapsRun(g[k], g[i], directory, v, a + k, 1, w)
    BY <2>4, <2>5, <2>6
  <2>9. MapsRun(m, g[i], directory, p, a, k + 1, w)
    BY <1>1, <2>7, <2>8, MapsNext
  <2>. QED BY <2>6, <2>9
<1>5. \A i \in 0 .. n : i \in P
  <2>. HIDE DEF P
  <2>. QED BY <1>3, <1>4, IntervalInduction
<1>. QED BY <1>2, <1>5
-----------------------------------------------------------------------------
(* Addresses that are multiples of the page size. *)
LEMMA PageOrder ==
  ASSUME NEW a \in Nat, NEW b \in Nat
  PROVE  /\ a * PageSize \in Nat /\ b * PageSize \in Nat
         /\ (a * PageSize) % PageSize = 0 /\ (a * PageSize) \div PageSize = a
         /\ b * PageSize < a * PageSize <=> b < a
         /\ (b * PageSize - a * PageSize) \div PageSize = b - a
<1>1. PICK x \in Nat, y \in Nat : x = a * PageSize /\ y = b * PageSize
  BY Sizes
<1>2. x % PageSize = 0 /\ x \div PageSize = a
  <2>1. x = a * PageSize + 0 /\ 0 \in 0 .. PageSize - 1
    BY <1>1, Sizes
  <2>. QED BY <2>1, Sizes, DivMod
<1>3. (y - x) \div PageSize = b - a
  <2>1. y - x = (b - a) * PageSize + 0 /\ 0 \in 0 .. PageSize - 1
    BY <1>1, Sizes
  <2>2. y - x \in Int /\ b - a \in Int
    OBVIOUS
  <2>. QED BY <2>1, <2>2, Sizes, DivMod
<1>4. b < a => y < x
  <2>1. b < a => b * PageSize + PageSize <= a * PageSize
    <3>1. b < a => (b + 1) * PageSize <= a * PageSize
      BY Sizes
    <3>. QED BY <3>1, Sizes
  <2>. QED BY <1>1, <2>1, Sizes
<1>5. a <= b => x <= y
  BY <1>1, Sizes
<1>. QED BY <1>1, <1>2, <1>3, <1>4, <1>5

LEMMA PageBefore ==
  ASSUME NEW a \in Nat, NEW b \in Nat
  PROVE  b * PageSize < a * PageSize <=> b < a
BY PageOrder

(* paging_map_to refuses an end before the start; else it maps the range. *)
LEMMA MapTo ==
  ASSUME NEW m \in Memory, NEW directory \in Directories,
         NEW p \in Pages, NEW a \in Nat, NEW b \in Nat, b <= TotalPages,
         NEW w \in BOOLEAN
  PROVE  /\ MapRefused(p * PageSize, a * PageSize, b * PageSize) <=> b < a
         /\ b < a =>
              paging_map_to(m, directory, p * PageSize, a * PageSize, b * PageSize, w) = m
         /\ a <= b =>
              MapsRun(m, paging_map_to(m, directory, p * PageSize, a * PageSize,
                                       b * PageSize, w),
                      directory, p, a, b - a, w)
<1>0. p \in Nat
  BY DEF Pages
<1>1. MapRefused(p * PageSize, a * PageSize, b * PageSize) <=> b < a
  <2>1. /\ (p * PageSize) % PageSize = 0 /\ (a * PageSize) % PageSize = 0
        /\ (b * PageSize) % PageSize = 0
        /\ b * PageSize < a * PageSize <=> b < a
    BY <1>0, PageOrder
  <2>. QED BY <2>1 DEF MapRefused, paging_is_aligned
<1>2. ASSUME a <= b
      PROVE  MapsRun(m, paging_map_to(m, directory, p * PageSize, a * PageSize,
                                      b * PageSize, w),
                     directory, p, a, b - a, w)
  <2>1. (b * PageSize - a * PageSize) \div PageSize = b - a
    BY PageOrder
  <2>2. ~ MapRefused(p * PageSize, a * PageSize, b * PageSize)
    BY <1>1, <1>2
  <2>3. paging_map_to(m, directory, p * PageSize, a * PageSize, b * PageSize, w)
          = paging_map_range(m, directory, p * PageSize, a * PageSize, b - a, w)
    BY <2>1, <2>2 DEF paging_map_to
  <2>4. PICK n \in Nat : n = b - a /\ a + n <= TotalPages
    BY <1>2
  <2>5. MapsRun(m, paging_map_range(m, directory, p * PageSize, a * PageSize, n, w),
                directory, p, a, n, w)
    BY <2>4, MapRange
  <2>. QED BY <2>3, <2>4, <2>5
<1>3. b < a => paging_map_to(m, directory, p * PageSize, a * PageSize, b * PageSize, w) = m
  BY <1>1 DEF paging_map_to
<1>. QED BY <1>1, <1>2, <1>3

(* Rounding down to a page. *)
LEMMA AlignDown ==
  ASSUME NEW x \in Nat
  PROVE  /\ paging_align_to_lower_page(x) = (x \div PageSize) * PageSize
         /\ x \div PageSize \in Nat
<1>1. PICK q \in Nat, r \in 0 .. PageSize - 1 :
        q = x \div PageSize /\ r = x % PageSize /\ x = q * PageSize + r
  BY Quotient, Sizes
<1>2. q * PageSize \in Nat
  BY Sizes
<1>. QED BY <1>1, <1>2 DEF paging_align_to_lower_page

(* How many pages hold x bytes. *)
LEMMA PagesHold ==
  ASSUME NEW x \in Nat
  PROVE  /\ PagesOf(x) \in Nat
         /\ x <= PagesOf(x) * PageSize /\ PagesOf(x) * PageSize < x + PageSize
         /\ paging_is_aligned(x) => PagesOf(x) * PageSize = x
         /\ ~ paging_is_aligned(x) => PagesOf(x) * PageSize = x + PageSize - (x % PageSize)
<1>1. PICK q \in Nat, r \in 0 .. PageSize - 1 :
        q = x \div PageSize /\ r = x % PageSize /\ x = q * PageSize + r
  BY Quotient, Sizes
<1>2. PICK y \in Nat : y = q * PageSize
  BY Sizes
<1>3. (q + 1) * PageSize = y + PageSize
  BY <1>2, Sizes
<1>4. PageSize \in Nat \ {0}
  BY Sizes
<1>5. CASE r = 0
  <2>1. x + PageSize - 1 = q * PageSize + (PageSize - 1) /\ PageSize - 1 \in 0 .. PageSize - 1
    BY <1>1, <1>2, <1>4, <1>5
  <2>2. x + PageSize - 1 \in Int
    BY <1>4
  <2>3. PagesOf(x) = q
    BY <1>4, <2>1, <2>2, DivMod DEF PagesOf
  <2>4. paging_is_aligned(x)
    <3>1. x % PageSize = 0
      BY <1>1, <1>5
    <3>. QED BY <3>1 DEF paging_is_aligned
  <2>5. x = y
    <3>1. x = y + r
      BY <1>1, <1>2
    <3>. QED BY <1>2, <1>5, <3>1
  <2>. QED BY <1>2, <1>4, <2>3, <2>4, <2>5
<1>6. CASE r # 0
  <2>1. x + PageSize - 1 = (q + 1) * PageSize + (r - 1) /\ r - 1 \in 0 .. PageSize - 1
    BY <1>1, <1>2, <1>3, <1>4, <1>6
  <2>2. x + PageSize - 1 \in Int
    BY <1>4
  <2>3. PagesOf(x) = q + 1
    BY <1>4, <2>1, <2>2, DivMod DEF PagesOf
  <2>4. ~ paging_is_aligned(x) /\ x = y + r
    BY <1>1, <1>2, <1>6 DEF paging_is_aligned
  <2>5. PagesOf(x) * PageSize = y + PageSize
    BY <1>3, <2>3
  <2>. QED BY <1>1, <1>4, <1>6, <2>3, <2>4, <2>5
<1>. QED BY <1>5, <1>6

(* No more pages than hold more bytes. *)
LEMMA PagesBound ==
  ASSUME NEW x \in Nat, NEW k \in Nat
  PROVE  PagesOf(x) <= k <=> x <= k * PageSize
<1>1. PICK q \in Nat : q = PagesOf(x) /\ x <= q * PageSize /\ q * PageSize < x + PageSize
  BY PagesHold
<1>2. q <= k => q * PageSize <= k * PageSize
  BY Sizes
<1>3. k < q => (k + 1) * PageSize <= q * PageSize
  BY Sizes
<1>4. PICK y \in Nat, z \in Nat : y = k * PageSize /\ z = q * PageSize
  BY Sizes
<1>5. (k + 1) * PageSize = y + PageSize
  BY <1>4, Sizes
<1>. QED BY <1>1, <1>2, <1>3, <1>4, <1>5, Sizes

(***************************************************************************)
(* paging_align_address rounds up to a page, unless no page of memory      *)
(* begins there: then the result is 0.                                     *)
(***************************************************************************)
LEMMA AlignUp ==
  ASSUME NEW x \in 0 .. Word - 1
  PROVE  /\ PagesOf(x) <= TotalPages
         /\ PagesOf(x) < TotalPages => paging_align_address(x) = PagesOf(x) * PageSize
         /\ PagesOf(x) = TotalPages => paging_align_address(x) = 0
<1>1. PICK q \in Nat :
        /\ q = PagesOf(x) /\ x <= q * PageSize
        /\ paging_is_aligned(x) => q * PageSize = x
        /\ ~ paging_is_aligned(x) => q * PageSize = x + PageSize - (x % PageSize)
  BY PagesHold
<1>2. q <= TotalPages
  <2>1. x <= TotalPages * PageSize /\ x \in Nat
    BY Sizes
  <2>. QED BY <1>1, <2>1, PagesBound, Sizes
<1>3. PICK y \in Nat : y = q * PageSize
  BY Sizes
<1>4. CASE q < TotalPages
  <2>1. q \in Pages /\ 0 \in 0 .. PageSize - 1
    BY <1>4, Sizes DEF Pages
  <2>2. y + 0 \in 0 .. Word - 1
    BY <1>3, <2>1, PageAddress
  <2>3. y % Word = y
    BY <2>2, Sizes
  <2>4. paging_align_address(x) = y
    BY <1>1, <1>3, <2>3 DEF paging_align_address
  <2>. QED BY <1>1, <1>2, <1>3, <1>4, <2>4
<1>5. CASE q = TotalPages
  <2>1. y = Word
    BY <1>3, <1>5, Sizes
  <2>2. y % Word = 0
    <3>1. y = 1 * Word + 0 /\ 0 \in 0 .. Word - 1
      BY <2>1, Sizes
    <3>. QED BY <3>1, Sizes, DivMod
  <2>3. ~ paging_is_aligned(x)
    BY <1>1, <1>3, <2>1, Sizes
  <2>4. paging_align_address(x) = 0
    BY <1>1, <1>3, <2>2, <2>3 DEF paging_align_address
  <2>. QED BY <1>1, <1>2, <1>5, <2>4
<1>. QED BY <1>1, <1>2, <1>4, <1>5, Sizes
-----------------------------------------------------------------------------
(* The heap's pages are finitely many naturals. *)
LEMMA HeapPagesFinite ==
  ASSUME NEW used
  PROVE  /\ HeapPages \ used \subseteq Nat /\ IsFiniteSet(HeapPages \ used)
         /\ Cardinality(HeapPages \ used) \in Nat
<1>1. HeapPages \subseteq Nat
  BY Sizes
<1>2. IsFiniteSet(HeapPages)
  BY Sizes, FS_Interval DEF HeapPages
<1>3. HeapPages \ used \in SUBSET HeapPages
  OBVIOUS
<1>4. IsFiniteSet(HeapPages \ used)
  BY <1>2, <1>3, FS_Subset
<1>. QED BY <1>1, <1>4, FS_CardinalityType

(* i pages are not all of more than i. *)
LEMMA RoomLeft ==
  ASSUME NEW free, IsFiniteSet(free), Cardinality(free) \in Nat,
         NEW i \in Nat, i < Cardinality(free), NEW f
  PROVE  free \ {f[j] : j \in 0 .. i - 1} # {}
<1>. SUFFICES ASSUME free \subseteq {f[j] : j \in 0 .. i - 1}
              PROVE  FALSE
  OBVIOUS
<1>1. CASE free = {}
  BY <1>1, FS_EmptySet
<1>2. CASE free # {}
  <2>1. PICK d \in free : TRUE
    BY <1>2
  <2>. DEFINE g == [j \in 0 .. i - 1 |-> IF f[j] \in free THEN f[j] ELSE d]
  <2>2. g \in [0 .. i - 1 -> free]
    BY <2>1
  <2>3. \A x \in free : \E j \in 0 .. i - 1 : g[j] = x
    OBVIOUS
  <2>4. g \in Surjection(0 .. i - 1, free)
    BY <2>2, <2>3 DEF Surjection
  <2>. HIDE DEF g
  <2>5. IsFiniteSet(0 .. i - 1) /\ Cardinality(0 .. i - 1) = i
    <3>1. 0 \in Int /\ i - 1 \in Int
      OBVIOUS
    <3>2. /\ IsFiniteSet(0 .. i - 1)
          /\ Cardinality(0 .. i - 1) = IF 0 > i - 1 THEN 0 ELSE (i - 1) - 0 + 1
      BY <3>1, FS_Interval
    <3>. QED BY <3>2
  <2>6. Cardinality(free) <= Cardinality(0 .. i - 1)
    BY <2>4, <2>5, FS_Surjection
  <2>. QED BY <2>5, <2>6
<1>. QED BY <1>1, <1>2

(* The pages of paging_new_4gb, one after another, each the lowest left. *)
LowestLeft(f, used, i) == Min(HeapPages \ (used \cup {f[j] : j \in 0 .. i - 1}))

LEMMA LowestOnes ==
  ASSUME NEW used, NEW n \in Nat
  PROVE  \E g : g = [i \in 0 .. n |-> LowestLeft(g, used, i)]
<1>. DEFINE After(k) == \E g : g = [i \in 0 .. k |-> LowestLeft(g, used, i)]
            P == {k \in 0 .. n : After(k)}
<1>1. After(0)
  <2>. DEFINE g == [i \in 0 .. 0 |-> LowestLeft(<<>>, used, 0)]
  <2>1. \A i \in 0 .. 0 : LowestLeft(g, used, i) = LowestLeft(<<>>, used, 0)
    <3>1. ASSUME NEW i \in 0 .. 0 PROVE {g[j] : j \in 0 .. i - 1} = {<<>>[j] : j \in 0 .. 0 - 1}
      OBVIOUS
    <3>2. \A i \in 0 .. 0 : i = 0
      OBVIOUS
    <3>. QED BY <3>1, <3>2 DEF LowestLeft
  <2>. QED BY <2>1
<1>2. ASSUME NEW k \in 1 .. n, After(k - 1)
      PROVE  After(k)
  <2>1. PICK g : g = [i \in 0 .. k - 1 |-> LowestLeft(g, used, i)]
    BY <1>2
  <2>. DEFINE h == [i \in 0 .. k |-> IF i = k THEN LowestLeft(g, used, k) ELSE g[i]]
  <2>2. ASSUME NEW i \in 0 .. k
        PROVE  LowestLeft(h, used, i) = LowestLeft(g, used, i)
    <3>1. \A j \in 0 .. i - 1 : h[j] = g[j]
      OBVIOUS
    <3>. HIDE DEF h
    <3>2. {h[j] : j \in 0 .. i - 1} = {g[j] : j \in 0 .. i - 1}
      BY <3>1
    <3>. QED BY <3>2 DEF LowestLeft
  <2>3. \A i \in 0 .. k : h[i] = LowestLeft(g, used, i)
    <3>1. \A i \in 0 .. k - 1 : g[i] = LowestLeft(g, used, i)
      BY <2>1
    <3>. QED BY <3>1
  <2>4. h = [i \in 0 .. k |-> LowestLeft(h, used, i)]
    BY <2>2, <2>3
  <2>. QED BY <2>4
<1>. HIDE DEF After
<1>3. \A k \in 0 .. n : k \in P
  <2>1. 0 \in P /\ \A k \in 1 .. n : k - 1 \in P => k \in P
    BY <1>1, <1>2
  <2>. HIDE DEF P
  <2>. QED BY <2>1, IntervalInduction
<1>4. After(n)
  BY <1>3
<1>. QED BY <1>4 DEF After

(***************************************************************************)
(* paging_new_4gb takes as many pages as it asks for, all different, all   *)
(* free before.                                                            *)
(***************************************************************************)
LEMMA NewPagesFacts ==
  ASSUME NEW used, Cardinality(HeapPages \ used) >= TablesPerDirectory + 2
  PROVE  /\ NewPages(used) \in [0 .. TablesPerDirectory + 1 -> HeapPages \ used]
         /\ \A i, j \in 0 .. TablesPerDirectory + 1 :
              NewPages(used)[i] = NewPages(used)[j] => i = j
<1>. DEFINE n == TablesPerDirectory + 1
            free == HeapPages \ used
            f == NewPages(used)
<1>1. n \in Nat /\ TablesPerDirectory + 2 = n + 1
  BY Sizes
<1>. HIDE DEF n
<1>2. f = [i \in 0 .. n |-> LowestLeft(f, used, i)]
  <2>1. f = CHOOSE g : g = [i \in 0 .. n |-> LowestLeft(g, used, i)]
    BY Zenon DEF NewPages, LowestLeft, n
  <2>2. \E g : g = [i \in 0 .. n |-> LowestLeft(g, used, i)]
    BY <1>1, LowestOnes
  <2>. HIDE DEF f
  <2>. QED BY <2>1, <2>2, Zenon
<1>. HIDE DEF f
<1>3. free \subseteq Nat /\ IsFiniteSet(free) /\ Cardinality(free) \in Nat
  BY HeapPagesFinite
<1>4. ASSUME NEW i \in 0 .. n
      PROVE  f[i] \in free /\ \A j \in 0 .. i - 1 : f[i] # f[j]
  <2>. DEFINE left == free \ {f[j] : j \in 0 .. i - 1}
  <2>1. left # {}
    <3>1. i \in Nat /\ i < Cardinality(free)
      BY <1>1, <1>3
    <3>. HIDE DEF free
    <3>. QED BY <1>3, <3>1, RoomLeft
  <2>2. left \subseteq Nat
    BY <1>3
  <2>3. f[i] = Min(left)
    <3>1. HeapPages \ (used \cup {f[j] : j \in 0 .. i - 1}) = left
      OBVIOUS
    <3>. HIDE DEF left
    <3>. QED BY <1>2, <3>1 DEF LowestLeft
  <2>4. f[i] \in left
    <3>. HIDE DEF left
    <3>. QED BY <2>1, <2>2, <2>3, LeastNatural
  <2>. QED BY <2>4
<1>5. f \in [0 .. n -> free]
  BY <1>2, <1>4
<1>6. ASSUME NEW i \in 0 .. n, NEW j \in 0 .. n, f[i] = f[j]
      PROVE  i = j
  <2>1. j < i => j \in 0 .. i - 1
    BY <1>1
  <2>2. i < j => i \in 0 .. j - 1
    BY <1>1
  <2>. QED BY <1>1, <1>4, <1>6, <2>1, <2>2
<1>. QED BY <1>5, <1>6 DEF n, f

(* Different pages are as many as their indices. *)
Listed(f, n) == {f[i] : i \in 0 .. n}
AllDiffer(f, n) == \A i, j \in 0 .. n : f[i] = f[j] => i = j

LEMMA PagesCounted ==
  ASSUME NEW n \in Nat, NEW S, NEW f \in [0 .. n -> S], AllDiffer(f, n),
         NEW T, T = Listed(f, n)
  PROVE  Cardinality(T) = n + 1
<1>1. f \in [0 .. n -> T] /\ \A x \in T : \E i \in 0 .. n : f[i] = x
  BY DEF Listed
<1>2. f \in Bijection(0 .. n, T)
  BY <1>1 DEF AllDiffer, Bijection, Injection, Surjection, IsInjective
<1>3. ExistsBijection(0 .. n, T)
  BY <1>2 DEF ExistsBijection
<1>4. IsFiniteSet(0 .. n) /\ Cardinality(0 .. n) = n + 1
  <2>1. 0 \in Int /\ n \in Int
    OBVIOUS
  <2>2. IsFiniteSet(0 .. n) /\ Cardinality(0 .. n) = IF 0 > n THEN 0 ELSE n - 0 + 1
    BY <2>1, FS_Interval
  <2>. QED BY <2>2
<1>. QED BY <1>3, <1>4, FS_Bijection

(* What the heap hands out is free, in the heap, and begins at its lowest. *)
LEMMA AllocateFacts ==
  ASSUME NEW used, NEW n \in Nat \ {0}, Fits(used, n) # {}
  PROVE  /\ Allocate(used, n) \subseteq HeapPages \ used
         /\ Min(Allocate(used, n)) \in HeapPages
         /\ Allocate(used, n) = Run(Min(Allocate(used, n)), n)
<1>1. Fits(used, n) \subseteq Nat
  BY Sizes DEF Fits
<1>2. PICK p \in Fits(used, n) : p = Min(Fits(used, n))
  <2>. HIDE DEF Fits
  <2>. QED BY <1>1, LeastNatural
<1>3. Allocate(used, n) = Run(p, n)
  BY <1>2 DEF Allocate
<1>4. p \in HeapPages /\ p \in Nat /\ Run(p, n) \subseteq HeapPages \ used
  BY <1>1, <1>2 DEF Fits
<1>5. Min(Run(p, n)) = p
  <2>1. Run(p, n) \subseteq Nat /\ p \in Run(p, n) /\ \A k \in Run(p, n) : p <= k
    BY <1>4 DEF Run
  <2>. HIDE DEF Run
  <2>2. Min(Run(p, n)) \in Run(p, n) /\ \A k \in Run(p, n) : Min(Run(p, n)) <= k
    BY <2>1, LeastNatural
  <2>3. Min(Run(p, n)) \in Nat
    BY <2>1, <2>2
  <2>. QED BY <1>4, <2>1, <2>2, <2>3
<1>. QED BY <1>3, <1>4, <1>5
-----------------------------------------------------------------------------
(* A directory whose tables lead every page to itself, not to be written. *)
LEMMA IdentityFacts ==
  ASSUME NEW m \in Memory, NEW directory \in Directories
  PROVE  /\ TablesChange(m, Identity(m, directory), directory)
         /\ \A q \in Pages : ~ View(Identity(m, directory), directory, q).writable
         /\ TablesDiffer(directory) => \A q \in Pages :
              View(Identity(m, directory), directory, q) = [page |-> q, writable |-> FALSE]
<1>. DEFINE r == Identity(m, directory)
            Tables == 0 .. TablesPerDirectory - 1
            Slots == 0 .. EntriesPerTable - 1
            Row(n) == [j \in Slots |-> [page |-> PageOf(n, j), writable |-> FALSE]]
<1>1. DOMAIN directory = Tables
  BY DEF Directories
<1>2. ASSUME NEW n \in Tables
      PROVE  Row(n) \in [Slots -> Entry] /\ \A j \in Slots : ~ Row(n)[j].writable
  <2>1. \A j \in Slots : PageOf(n, j) \in Pages
    BY PageJoined
  <2>. QED BY <2>1 DEF Entry
<1>3. ASSUME NEW x \in Pages, NEW i \in Tables, directory[i] = x
      PROVE  \E n \in Tables : directory[n] = x /\ r[x] = Row(n)
  <2>1. PICK n \in Tables : n = CHOOSE k \in DOMAIN directory : directory[k] = x
    BY <1>1, <1>3
  <2>2. directory[n] = x
    BY <1>1, <1>3, <2>1
  <2>3. r[x] = Row(n)
    BY <1>1, <1>3, <2>1 DEF Identity
  <2>. QED BY <2>2, <2>3
<1>4. ASSUME NEW x \in Pages, \A i \in Tables : directory[i] # x
      PROVE  r[x] = m[x]
  BY <1>1, <1>4 DEF Identity
<1>5. r \in Memory
  <2>1. r = [x \in Pages |-> r[x]]
    BY DEF Identity
  <2>. HIDE DEF r, Row
  <2>2. \A x \in Pages : r[x] \in [Slots -> Entry]
    BY <1>2, <1>3, <1>4 DEF Memory
  <2>. QED BY <2>1, <2>2 DEF Memory
<1>. HIDE DEF r
<1>6. TablesChange(m, r, directory)
  BY <1>4, <1>5 DEF TablesChange
<1>7. ASSUME NEW q \in Pages
      PROVE  /\ ~ View(r, directory, q).writable
             /\ TablesDiffer(directory) =>
                  View(r, directory, q) = [page |-> q, writable |-> FALSE]
  <2>1. PICK k \in Tables, j \in Slots :
          k = q \div EntriesPerTable /\ j = q % EntriesPerTable
          /\ q = k * EntriesPerTable + j
    BY PageSplit
  <2>2. directory[k] \in Pages
    BY DEF Directories
  <2>3. PICK n \in Tables : directory[n] = directory[k] /\ r[directory[k]] = Row(n)
    <3>. HIDE DEF Row
    <3>. QED BY <1>3, <2>2
  <2>4. View(r, directory, q) = Row(n)[j]
    <3>. HIDE DEF Row
    <3>. QED BY <2>1, <2>3 DEF View
  <2>5. TablesDiffer(directory) => n = k
    BY <2>3 DEF TablesDiffer
  <2>6. PageOf(k, j) = q
    BY <2>1 DEF PageOf
  <2>7. View(r, directory, q) = [page |-> PageOf(n, j), writable |-> FALSE]
    BY <2>4
  <2>8. ~ View(r, directory, q).writable
    BY <2>7
  <2>9. TablesDiffer(directory) =>
          View(r, directory, q) = [page |-> q, writable |-> FALSE]
    BY <2>5, <2>6, <2>7, Zenon
  <2>. QED BY <2>8, <2>9
<1>. QED BY <1>6, <1>7 DEF r

-----------------------------------------------------------------------------
(* The pages a segment touches, and what it should have there. *)
Touched(address, size) ==
  {q \in Pages : \E b \in address .. address + size - 1 : b \div PageSize = q}
SegPages(s) == Touched(s.vaddr, s.memsz)
SegTarget(image, s, q) ==
  [page |-> image + (s.offset \div PageSize) + (q - (s.vaddr \div PageSize)),
   writable |-> s.writable]

(* The frames that process_map_elf works out, whatever the header says. *)
LEMMA SegmentFrames ==
  ASSUME NEW image \in HeapPages, NEW s \in Segment
  PROVE  \E p \in Pages, a \in Pages, b \in Pages :
           /\ paging_align_to_lower_page(s.vaddr) = p * PageSize
           /\ p = s.vaddr \div PageSize
           /\ SegmentStart(image, s) = a * PageSize
           /\ a = ((image * PageSize + s.offset) % Word) \div PageSize
           /\ SegmentEnd(image, s) = b * PageSize
           /\ LET x == (image * PageSize + s.offset + s.memsz) % Word IN
              b = IF PagesOf(x) < TotalPages THEN PagesOf(x) ELSE 0
<1>1. /\ s.vaddr \in 0 .. Word - 1 /\ s.offset \in 0 .. Word - 1
      /\ s.memsz \in 0 .. Word - 1
  BY DEF Segment
<1>2. PICK f \in Nat : f = image * PageSize
  BY Sizes
<1>3. PICK y \in 0 .. Word - 1 : y = (image * PageSize + s.offset) % Word
  BY <1>1, <1>2, Sizes
<1>4. PICK x \in 0 .. Word - 1 : x = (image * PageSize + s.offset + s.memsz) % Word
  BY <1>1, <1>2, Sizes
<1>5. PICK p \in Pages : p = s.vaddr \div PageSize
  BY <1>1, AddressSplit
<1>6. PICK a \in Pages : a = y \div PageSize
  BY AddressSplit
<1>7. PICK b \in Pages : b = IF PagesOf(x) < TotalPages THEN PagesOf(x) ELSE 0
  <2>1. x \in Nat
    BY Sizes
  <2>2. PagesOf(x) \in Nat
    BY <2>1, PagesHold
  <2>. QED BY <2>2, Sizes DEF Pages
<1>8. paging_align_to_lower_page(s.vaddr) = p * PageSize
  BY <1>1, <1>5, AlignDown, Sizes
<1>9. SegmentStart(image, s) = a * PageSize
  <2>1. y \in Nat
    BY Sizes
  <2>2. paging_align_to_lower_page(y) = a * PageSize
    BY <1>6, <2>1, AlignDown
  <2>. QED BY <1>3, <2>2 DEF SegmentStart
<1>10. SegmentEnd(image, s) = b * PageSize
  <2>1. /\ PagesOf(x) <= TotalPages /\ PagesOf(x) \in Nat
        /\ PagesOf(x) < TotalPages => paging_align_address(x) = PagesOf(x) * PageSize
        /\ PagesOf(x) = TotalPages => paging_align_address(x) = 0
    <3>1. x \in Nat
      BY Sizes
    <3>. QED BY <3>1, AlignUp, PagesHold
  <2>2. paging_align_address(x) = b * PageSize
    <3>1. CASE PagesOf(x) < TotalPages
      BY <1>7, <2>1, <3>1
    <3>2. CASE PagesOf(x) = TotalPages
      <4>1. b = 0 /\ 0 * PageSize = 0
        BY <1>7, <2>1, <3>2, Sizes
      <4>. QED BY <2>1, <3>2, <4>1
    <3>. QED BY <2>1, <3>1, <3>2, Sizes
  <2>. QED BY <1>4, <2>2 DEF SegmentEnd
<1>. QED BY <1>3, <1>4, <1>5, <1>6, <1>7, <1>8, <1>9, <1>10

(* What process_map_elf does for one program header. *)
SegmentStep(m, directory, image, s) ==
  paging_map_to(m, directory, paging_align_to_lower_page(s.vaddr),
                SegmentStart(image, s), SegmentEnd(image, s), s.writable)
SegmentRefused(image, s) ==
  MapRefused(paging_align_to_lower_page(s.vaddr),
             SegmentStart(image, s), SegmentEnd(image, s))

(* It changes nothing but its directory's tables. *)
LEMMA SegmentChanges ==
  ASSUME NEW m \in Memory, NEW directory \in Directories,
         NEW image \in HeapPages, NEW s \in Segment
  PROVE  TablesChange(m, SegmentStep(m, directory, image, s), directory)
<1>1. PICK p \in Pages, a \in Pages, b \in Pages :
        /\ paging_align_to_lower_page(s.vaddr) = p * PageSize
        /\ SegmentStart(image, s) = a * PageSize
        /\ SegmentEnd(image, s) = b * PageSize
  BY SegmentFrames
<1>2. a \in Nat /\ b \in Nat /\ b <= TotalPages /\ s.writable \in BOOLEAN
  BY Sizes DEF Pages, Segment
<1>3. SegmentStep(m, directory, image, s)
        = paging_map_to(m, directory, p * PageSize, a * PageSize, b * PageSize, s.writable)
  BY <1>1 DEF SegmentStep
<1>4. TablesChange(m, m, directory)
  BY DEF TablesChange
<1>5. CASE b < a
  BY <1>2, <1>3, <1>4, <1>5, MapTo
<1>6. CASE a <= b
  <2>1. MapsRun(m, SegmentStep(m, directory, image, s), directory, p, a, b - a, s.writable)
    BY <1>2, <1>3, <1>6, MapTo
  <2>. QED BY <2>1 DEF MapsRun
<1>. QED BY <1>2, <1>5, <1>6

-----------------------------------------------------------------------------
(* Every entry that changed leads to one of the pages in own. *)
LeadsInto(m, r, own) ==
  \A x \in Pages, j \in 0 .. EntriesPerTable - 1 :
    r[x][j] = m[x][j] \/ r[x][j].page \in own

LEMMA LeadsIntoNext ==
  ASSUME NEW m, NEW x, NEW r, NEW own, LeadsInto(m, x, own), LeadsInto(x, r, own)
  PROVE  LeadsInto(m, r, own)
BY DEF LeadsInto

LEMMA LeadsIntoRun ==
  ASSUME NEW m, NEW r, NEW directory, NEW p, NEW a, NEW n, NEW w, NEW own,
         MapsRun(m, r, directory, p, a, n, w), a .. a + n - 1 \subseteq own
  PROVE  LeadsInto(m, r, own)
BY DEF LeadsInto, MapsRun, EntriesLead

(* The place of the image in memory: it ends before the last page. *)
LEMMA ImageInMemory ==
  ASSUME NEW image \in HeapPages, NEW size \in Nat \ {0},
         Run(image, PagesOf(size)) \subseteq HeapPages
  PROVE  /\ PagesOf(size) \in Nat \ {0}
         /\ image \in Nat \ {0} /\ image + PagesOf(size) <= TotalPages - 1
<1>1. PICK k \in Nat : k = PagesOf(size) /\ size <= k * PageSize
  BY PagesHold
<1>2. k # 0
  BY <1>1, Sizes
<1>3. image \in Nat \ {0}
  BY Sizes
<1>4. image + k - 1 \in Run(image, k)
  BY <1>2, <1>3 DEF Run
<1>5. image + k - 1 \in HeapPages
  BY <1>1, <1>4
<1>. QED BY <1>1, <1>2, <1>3, <1>5, Sizes DEF HeapPages

(***************************************************************************)
(* A segment that ends inside the image is mapped to pages of the image.   *)
(***************************************************************************)
LEMMA SegmentInside ==
  ASSUME NEW m \in Memory, NEW directory \in Directories,
         NEW image \in HeapPages, NEW s \in Segment, NEW size \in Nat \ {0},
         Run(image, PagesOf(size)) \subseteq HeapPages,
         s.offset + s.memsz <= PagesOf(size) * PageSize
  PROVE  LeadsInto(m, SegmentStep(m, directory, image, s), Run(image, PagesOf(size)))
<1>1. PICK p \in Pages, a \in Pages, b \in Pages :
        /\ paging_align_to_lower_page(s.vaddr) = p * PageSize
        /\ SegmentStart(image, s) = a * PageSize
        /\ a = ((image * PageSize + s.offset) % Word) \div PageSize
        /\ SegmentEnd(image, s) = b * PageSize
        /\ LET x == (image * PageSize + s.offset + s.memsz) % Word IN
           b = IF PagesOf(x) < TotalPages THEN PagesOf(x) ELSE 0
  BY SegmentFrames
<1>2. s.offset \in Nat /\ s.memsz \in Nat /\ s.writable \in BOOLEAN
  BY Sizes DEF Segment
<1>3. PICK k \in Nat \ {0} : k = PagesOf(size) /\ image + k <= TotalPages - 1
  BY ImageInMemory
<1>4. image \in Nat \ {0} /\ a \in Nat /\ b \in Nat /\ b <= TotalPages /\ b < TotalPages
  BY Sizes DEF Pages
<1>5. PICK f \in Nat, g \in Nat, h \in Nat :
        /\ f = image * PageSize /\ g = k * PageSize /\ h = (image + k) * PageSize
        /\ h = f + g /\ h <= (TotalPages - 1) * PageSize
        /\ (TotalPages - 1) * PageSize = Word - PageSize
  <2>1. (image + k) * PageSize <= (TotalPages - 1) * PageSize
    BY <1>3, <1>4, Sizes
  <2>2. (TotalPages - 1) * PageSize = Word - PageSize
    BY Sizes
  <2>3. (image + k) * PageSize = image * PageSize + k * PageSize
    BY <1>4, Sizes
  <2>4. image * PageSize \in Nat /\ k * PageSize \in Nat /\ (image + k) * PageSize \in Nat
    BY <1>4, Sizes
  <2>. QED BY <2>1, <2>2, <2>3, <2>4
<1>6. /\ f + s.offset + s.memsz <= h /\ f + s.offset <= h
      /\ h < Word /\ f + s.offset + s.memsz \in Nat /\ f + s.offset \in Nat
  BY <1>2, <1>3, <1>5, Sizes
<1>7. (f + s.offset) % Word = f + s.offset /\ (f + s.offset + s.memsz) % Word = f + s.offset + s.memsz
  BY <1>6, Sizes
<1>8. a >= image
  <2>0. PICK o \in Nat : o = s.offset
    BY <1>2
  <2>1. PICK q \in Nat, e \in 0 .. PageSize - 1 :
          q = o \div PageSize /\ s.offset = q * PageSize + e
    <3>1. PageSize \in Nat \ {0}
      BY Sizes
    <3>2. /\ o \div PageSize \in Nat /\ o % PageSize \in 0 .. PageSize - 1
          /\ o = (o \div PageSize) * PageSize + (o % PageSize)
      BY <3>1, Quotient
    <3>. QED BY <2>0, <3>2
  <2>2. f + s.offset = (image + q) * PageSize + e
    <3>1. (image + q) * PageSize = image * PageSize + q * PageSize
      BY <1>4, Sizes
    <3>2. q * PageSize \in Nat
      BY Sizes
    <3>. QED BY <1>5, <2>1, <3>1, <3>2
  <2>3. f + s.offset \in Int /\ image + q \in Int
    BY <1>4, <1>6
  <2>4. (f + s.offset) \div PageSize = image + q
    BY <2>2, <2>3, Sizes, DivMod
  <2>. QED BY <1>1, <1>4, <1>5, <1>7, <2>4
<1>9. b <= image + k
  <2>1. PagesOf(f + s.offset + s.memsz) <= image + k
    BY <1>4, <1>5, <1>6, PagesBound
  <2>. QED BY <1>1, <1>4, <1>5, <1>7, <2>1
<1>10. SegmentStep(m, directory, image, s)
        = paging_map_to(m, directory, p * PageSize, a * PageSize, b * PageSize, s.writable)
  BY <1>1 DEF SegmentStep
<1>11. CASE b < a
  <2>1. SegmentStep(m, directory, image, s) = m
    BY <1>2, <1>4, <1>10, <1>11, MapTo
  <2>. QED BY <2>1 DEF LeadsInto
<1>12. CASE a <= b
  <2>1. MapsRun(m, SegmentStep(m, directory, image, s), directory, p, a, b - a, s.writable)
    BY <1>2, <1>4, <1>10, <1>12, MapTo
  <2>2. a .. a + (b - a) - 1 \subseteq Run(image, PagesOf(size))
    BY <1>3, <1>4, <1>8, <1>9 DEF Run
  <2>. QED BY <2>1, <2>2, LeadsIntoRun
<1>. QED BY <1>4, <1>11, <1>12
-----------------------------------------------------------------------------
(* What WellLinked says of each segment. *)
WellPlaced(s, size) ==
  /\ s.vaddr % PageSize = s.offset % PageSize
  /\ s.offset < size
  /\ s.memsz = 0 => s.offset % PageSize = 0
  /\ s.memsz > 0 => s.vaddr >= PageSize /\ s.vaddr + s.memsz <= Word - PageSize

(* The pages that bytes in a row touch, by their first byte and their end. *)
Reaches(p, n, vaddr, size) ==
  /\ p \in Nat /\ n \in Nat /\ p + n <= TotalPages
  /\ vaddr \in Nat /\ size \in Nat \ {0}
  /\ \E r \in 0 .. PageSize - 1 : vaddr = p * PageSize + r
  /\ vaddr + size <= (p + n) * PageSize /\ (p + n) * PageSize < vaddr + size + PageSize

LEMMA BytesTouch ==
  ASSUME NEW p, NEW n, NEW vaddr, NEW size, Reaches(p, n, vaddr, size)
  PROVE  Touched(vaddr, size) = p .. p + n - 1
<1>. PICK r \in 0 .. PageSize - 1 : vaddr = p * PageSize + r
  BY DEF Reaches
<1>. USE DEF Reaches
<1>0. PageSize \in Nat \ {0} /\ TotalPages \in Nat
  BY Sizes
<1>1. PICK x \in Nat, y \in Nat : x = p * PageSize /\ y = (p + n) * PageSize
  BY Sizes
<1>2. ASSUME NEW q \in Pages, NEW b \in vaddr .. vaddr + size - 1, b \div PageSize = q
      PROVE  q \in p .. p + n - 1
  <2>0. b \in Nat /\ q \in Nat
    BY DEF Pages
  <2>1. PICK e \in 0 .. PageSize - 1 : b = q * PageSize + e
    <3>1. /\ b % PageSize \in 0 .. PageSize - 1
          /\ b = (b \div PageSize) * PageSize + (b % PageSize)
      BY <1>0, <2>0, Quotient
    <3>. QED BY <1>2, <3>1
  <2>2. PICK z \in Nat : z = q * PageSize /\ z + PageSize = (q + 1) * PageSize
    BY <2>0, Sizes
  <2>3. z < y /\ x < z + PageSize
    <3>1. b = z + e
      BY <2>1, <2>2
    <3>2. vaddr = x + r /\ vaddr + size <= y
      BY <1>1
    <3>. QED BY <1>0, <2>0, <2>2, <3>1, <3>2
  <2>4. q < p + n /\ p < q + 1
    <3>0. p + n \in Nat /\ q + 1 \in Nat
      BY <2>0
    <3>1. (q * PageSize < (p + n) * PageSize) <=> q < p + n
      BY <2>0, <3>0, PageBefore
    <3>2. (p * PageSize < (q + 1) * PageSize) <=> p < q + 1
      BY <2>0, <3>0, PageBefore
    <3>. QED BY <1>1, <2>2, <2>3, <3>1, <3>2
  <2>. QED BY <2>0, <2>4
<1>3. ASSUME NEW q \in p .. p + n - 1
      PROVE  q \in Pages /\ \E b \in vaddr .. vaddr + size - 1 : b \div PageSize = q
  <2>1. q \in Pages /\ q \in Nat
    BY <1>0 DEF Pages
  <2>2. CASE q = p
    <3>1. vaddr \in vaddr .. vaddr + size - 1
      OBVIOUS
    <3>2. vaddr \div PageSize = p
      BY <1>0, DivMod
    <3>. QED BY <2>1, <2>2, <3>1, <3>2
  <2>3. CASE q > p
    <3>1. PICK z \in Nat, t \in Nat :
            /\ z = q * PageSize /\ t = (q + 1) * PageSize /\ t = z + PageSize
            /\ z \div PageSize = q
      <4>1. /\ q * PageSize \in Nat /\ (q + 1) * PageSize \in Nat
            /\ (q + 1) * PageSize = q * PageSize + PageSize
        BY <1>0, <2>1
      <4>2. (q * PageSize) \div PageSize = q
        BY <2>1, PageOrder
      <4>. QED BY <4>1, <4>2
    <3>2. t <= y
      <4>0. p + n \in Nat /\ q + 1 \in Nat
        BY <2>1
      <4>1. (p + n) * PageSize < (q + 1) * PageSize <=> p + n < q + 1
        BY <4>0, PageBefore
      <4>. QED BY <1>1, <2>1, <3>1, <4>1
    <3>3. x + PageSize <= z
      <4>0. p + 1 \in Nat
        OBVIOUS
      <4>1. q * PageSize < (p + 1) * PageSize <=> q < p + 1
        BY <2>1, <4>0, PageBefore
      <4>2. (p + 1) * PageSize = x + PageSize
        BY <1>0, <1>1
      <4>. QED BY <1>0, <1>1, <2>1, <2>3, <3>1, <4>1, <4>2
    <3>4. vaddr = x + r /\ y < vaddr + size + PageSize
      BY <1>1
    <3>5. z \in vaddr .. vaddr + size - 1
      BY <1>0, <1>1, <3>1, <3>2, <3>3, <3>4
    <3>. QED BY <2>1, <3>1, <3>5
  <2>. QED BY <2>1, <2>2, <2>3
<1>. QED BY <1>2, <1>3 DEF Touched

(* A well placed segment that is mapped: where, from where, how many pages. *)
LEMMA SegmentPlaced ==
  ASSUME NEW image \in HeapPages, NEW s \in Segment, NEW size \in Nat \ {0},
         Run(image, PagesOf(size)) \subseteq HeapPages,
         WellPlaced(s, size), ~ SegmentRefused(image, s)
  PROVE  \E p \in Pages, a \in Pages, n \in Nat :
           /\ paging_align_to_lower_page(s.vaddr) = p * PageSize
           /\ SegmentStart(image, s) = a * PageSize
           /\ SegmentEnd(image, s) = (a + n) * PageSize
           /\ p = s.vaddr \div PageSize /\ a = image + (s.offset \div PageSize)
           /\ a + n <= TotalPages /\ p + n <= TotalPages
           /\ SegPages(s) = p .. p + n - 1
<1>0. PageSize \in Nat \ {0} /\ TotalPages \in Nat \ {0} /\ Word \in Nat \ {0}
  BY Sizes
<1>1. PICK p \in Pages, a \in Pages, b \in Pages :
        /\ paging_align_to_lower_page(s.vaddr) = p * PageSize
        /\ p = s.vaddr \div PageSize
        /\ SegmentStart(image, s) = a * PageSize
        /\ a = ((image * PageSize + s.offset) % Word) \div PageSize
        /\ SegmentEnd(image, s) = b * PageSize
        /\ LET x == (image * PageSize + s.offset + s.memsz) % Word IN
           b = IF PagesOf(x) < TotalPages THEN PagesOf(x) ELSE 0
  BY SegmentFrames
<1>2. p \in Nat /\ a \in Nat /\ b \in Nat /\ p < TotalPages /\ a < TotalPages /\ b < TotalPages
  BY <1>0 DEF Pages
<1>3. a <= b
  <2>1. MapRefused(p * PageSize, a * PageSize, b * PageSize) <=> b < a
    <3>1. /\ (p * PageSize) % PageSize = 0 /\ (a * PageSize) % PageSize = 0
          /\ (b * PageSize) % PageSize = 0
          /\ b * PageSize < a * PageSize <=> b < a
      BY <1>2, PageOrder
    <3>. QED BY <3>1 DEF MapRefused, paging_is_aligned
  <2>. QED BY <1>1, <1>2, <2>1 DEF SegmentRefused
<1>4. PICK vaddr \in Nat, o \in Nat, memsz \in Nat :
        /\ vaddr = s.vaddr /\ o = s.offset /\ memsz = s.memsz
        /\ vaddr < Word /\ o < Word /\ memsz < Word
  BY <1>0 DEF Segment
<1>5. PICK q \in Nat, r \in 0 .. PageSize - 1 :
        /\ q = o \div PageSize /\ r = o % PageSize /\ o = q * PageSize + r
        /\ vaddr = p * PageSize + r
  <2>1. /\ o \div PageSize \in Nat /\ o % PageSize \in 0 .. PageSize - 1
        /\ o = (o \div PageSize) * PageSize + (o % PageSize)
    BY <1>0, Quotient
  <2>2. vaddr = (vaddr \div PageSize) * PageSize + (vaddr % PageSize)
    BY <1>0, Quotient
  <2>3. vaddr % PageSize = o % PageSize /\ vaddr \div PageSize = p
    BY <1>1, <1>4 DEF WellPlaced
  <2>. QED BY <2>1, <2>2, <2>3
<1>6. /\ o < size /\ (memsz = 0 => r = 0)
      /\ memsz > 0 => vaddr >= PageSize /\ vaddr + memsz <= Word - PageSize
  BY <1>4, <1>5 DEF WellPlaced
<1>7. PICK k \in Nat \ {0} : k = PagesOf(size) /\ image + k <= TotalPages - 1
                             /\ image \in Nat \ {0}
  BY ImageInMemory
<1>8. PICK f \in Nat, g \in Nat, x \in Nat, z \in Nat, y \in Nat :
        /\ f = image * PageSize /\ g = q * PageSize /\ x = p * PageSize
        /\ z = (image + q) * PageSize /\ z = f + g /\ y = b * PageSize
  <2>1. (image + q) * PageSize = image * PageSize + q * PageSize
    BY <1>0, <1>7
  <2>2. /\ image * PageSize \in Nat /\ q * PageSize \in Nat /\ p * PageSize \in Nat
        /\ b * PageSize \in Nat
    BY <1>0, <1>2, <1>7
  <2>. QED BY <2>1, <2>2
<1>9. f + o = z + r /\ vaddr = x + r /\ r \in Nat /\ r < PageSize
  <2>1. o = g + r /\ vaddr = x + r /\ r \in Nat /\ r < PageSize
    BY <1>0, <1>5, <1>8
  <2>. QED BY <1>8, <2>1
<1>10. f + o < Word
  <2>1. size <= k * PageSize
    BY <1>7, PagesHold
  <2>2. (image + k) * PageSize <= (TotalPages - 1) * PageSize
    BY <1>0, <1>7
  <2>3. /\ (image + k) * PageSize = f + k * PageSize
        /\ (TotalPages - 1) * PageSize = Word - PageSize /\ k * PageSize \in Nat
    BY <1>0, <1>7, <1>8, Sizes
  <2>. QED BY <1>0, <1>6, <2>1, <2>2, <2>3
<1>11. a = image + q
  <2>1. (f + o) % Word = f + o
    BY <1>0, <1>10
  <2>2. (z + r) \div PageSize = image + q
    <3>1. z + r = (image + q) * PageSize + r /\ z + r \in Int /\ image + q \in Int
      BY <1>7, <1>8
    <3>. QED BY <1>0, <3>1, DivMod
  <2>. QED BY <1>1, <1>4, <1>8, <1>9, <2>1, <2>2
<1>12. PICK w \in 0 .. Word - 1 :
         w = (f + o + memsz) % Word /\ b = IF PagesOf(w) < TotalPages THEN PagesOf(w) ELSE 0
  BY <1>0, <1>1, <1>4, <1>8
<1>13. /\ b = PagesOf(w) /\ w <= y /\ y < w + PageSize
  <2>1. b # 0
    BY <1>2, <1>3, <1>7, <1>11
  <2>2. b = PagesOf(w)
    BY <1>12, <2>1
  <2>3. w \in Nat
    BY <1>0
  <2>4. w <= PagesOf(w) * PageSize /\ PagesOf(w) * PageSize < w + PageSize
    BY <2>3, PagesHold
  <2>. QED BY <1>8, <2>2, <2>4
<1>14. z <= y
  <2>1. b * PageSize < a * PageSize <=> b < a
    BY <1>2, PageOrder
  <2>. QED BY <1>2, <1>3, <1>8, <1>11, <2>1
<1>15. w = f + o + memsz
  <2>1. CASE f + o + memsz < Word
    BY <1>0, <1>12, <2>1
  <2>2. CASE f + o + memsz >= Word
    <3>1. memsz > 0 /\ memsz <= Word - PageSize - PageSize
      BY <1>0, <1>4, <1>6, <1>10, <2>2
    <3>2. f + o + memsz = 1 * Word + (f + o + memsz - Word)
          /\ f + o + memsz - Word \in 0 .. Word - 1
      BY <1>0, <1>4, <1>10, <2>2
    <3>3. w = f + o + memsz - Word
      <4>1. f + o + memsz \in Int /\ 1 \in Int
        OBVIOUS
      <4>2. (f + o + memsz) % Word = f + o + memsz - Word
        BY <1>0, <3>2, <4>1, DivMod
      <4>. QED BY <1>12, <4>2
    <3>4. w <= z + r - PageSize - PageSize
      BY <1>0, <1>9, <3>1, <3>3
    <3>5. w <= y /\ y < w + PageSize /\ z <= y
      BY <1>13, <1>14
    <3>6. w \in Nat
      BY <1>0
    <3>. QED BY <1>0, <1>9, <3>4, <3>5, <3>6
  <2>3. f + o + memsz \in Nat
    OBVIOUS
  <2>. QED BY <1>0, <2>1, <2>2, <2>3
<1>16. PICK n \in Nat : n = b - a /\ a + n = b
  BY <1>2, <1>3
<1>17. /\ (p + n) * PageSize = x + (y - z)
       /\ x + (y - z) \in Nat
  <2>1. (p + n) * PageSize = p * PageSize + (b * PageSize - a * PageSize)
    BY <1>0, <1>2, <1>16
  <2>. QED BY <1>8, <1>11, <1>14, <2>1
<1>18. /\ vaddr + memsz <= x + (y - z) /\ x + (y - z) < vaddr + memsz + PageSize
  BY <1>0, <1>9, <1>13, <1>15
<1>19. /\ paging_align_to_lower_page(s.vaddr) = p * PageSize
       /\ SegmentStart(image, s) = a * PageSize
       /\ SegmentEnd(image, s) = (a + n) * PageSize
       /\ p = s.vaddr \div PageSize /\ a = image + (s.offset \div PageSize)
  BY <1>1, <1>4, <1>5, <1>11, <1>16
<1>20. CASE memsz = 0
  <2>1. y < z + PageSize
    BY <1>0, <1>6, <1>9, <1>13, <1>15, <1>20
  <2>2. b < a + 1
    <3>1. b * PageSize < (a + 1) * PageSize <=> b < a + 1
      <4>1. a + 1 \in Nat
        BY <1>2
      <4>. QED BY <1>2, <4>1, PageBefore
    <3>2. (a + 1) * PageSize = z + PageSize
      BY <1>0, <1>2, <1>8, <1>11
    <3>. QED BY <1>8, <2>1, <3>1, <3>2
  <2>3. n = 0
    BY <1>2, <1>3, <1>16, <2>2
  <2>4. SegPages(s) = {} /\ p .. p + n - 1 = {}
    BY <1>2, <1>4, <1>20, <2>3 DEF SegPages, Touched
  <2>5. p + n <= TotalPages /\ a + n <= TotalPages
    BY <1>0, <1>2, <2>3
  <2>. QED BY <1>16, <1>19, <2>4, <2>5, Zenon
<1>21. CASE memsz > 0
  <2>1. x + (y - z) < Word
    BY <1>0, <1>6, <1>18, <1>21
  <2>2. p + n < TotalPages
    <3>1. (p + n) * PageSize < TotalPages * PageSize <=> p + n < TotalPages
      <4>1. p + n \in Nat
        BY <1>2
      <4>. QED BY <1>0, <4>1, PageBefore
    <3>. QED BY <1>17, <2>1, <3>1, Sizes
  <2>3. SegPages(s) = p .. p + n - 1
    <3>1. memsz \in Nat \ {0} /\ p + n <= TotalPages
      BY <1>0, <1>2, <1>21, <2>2
    <3>2. /\ vaddr + memsz <= (p + n) * PageSize
          /\ (p + n) * PageSize < vaddr + memsz + PageSize
      BY <1>17, <1>18
    <3>3. /\ vaddr = p * PageSize + r /\ vaddr \in Nat /\ p \in Nat
          /\ r \in 0 .. PageSize - 1 /\ n \in Nat
      BY <1>2, <1>4, <1>5, <1>16
    <3>4. Touched(vaddr, memsz) = p .. p + n - 1
      <4>1. Reaches(p, n, vaddr, memsz)
        BY <3>1, <3>2, <3>3 DEF Reaches
      <4>. QED BY <4>1, BytesTouch
    <3>. QED BY <1>4, <3>4 DEF SegPages
  <2>4. p + n <= TotalPages /\ a + n <= TotalPages
    BY <1>0, <1>2, <1>16, <2>2
  <2>. QED BY <1>16, <1>19, <2>3, <2>4, Zenon
<1>. QED BY <1>4, <1>20, <1>21

(* A well placed segment is seen in the tables where it should be. *)
LEMMA SegmentView ==
  ASSUME NEW m \in Memory, NEW directory \in Directories, TablesDiffer(directory),
         NEW image \in HeapPages, NEW s \in Segment, NEW size \in Nat \ {0},
         Run(image, PagesOf(size)) \subseteq HeapPages,
         WellPlaced(s, size), ~ SegmentRefused(image, s), NEW q \in Pages
  PROVE  View(SegmentStep(m, directory, image, s), directory, q)
           = IF q \in SegPages(s) THEN SegTarget(image, s, q) ELSE View(m, directory, q)
<1>1. PICK p \in Pages, a \in Pages, n \in Nat :
           /\ paging_align_to_lower_page(s.vaddr) = p * PageSize
           /\ SegmentStart(image, s) = a * PageSize
           /\ SegmentEnd(image, s) = (a + n) * PageSize
           /\ p = s.vaddr \div PageSize /\ a = image + (s.offset \div PageSize)
           /\ a + n <= TotalPages /\ p + n <= TotalPages
           /\ SegPages(s) = p .. p + n - 1
  BY SegmentPlaced
<1>2. PICK b \in Nat : b = a + n /\ b <= TotalPages /\ a <= b /\ b - a = n /\ a \in Nat
  BY <1>1 DEF Pages
<1>3. s.writable \in BOOLEAN
  BY DEF Segment
<1>4. SegmentStep(m, directory, image, s)
        = paging_map_to(m, directory, p * PageSize, a * PageSize, b * PageSize, s.writable)
  BY <1>1, <1>2 DEF SegmentStep
<1>5. MapsRun(m, SegmentStep(m, directory, image, s), directory, p, a, b - a, s.writable)
  BY <1>2, <1>3, <1>4, MapTo
<1>6. View(SegmentStep(m, directory, image, s), directory, q) =
        IF q \in p .. p + n - 1 THEN [page |-> a + (q - p), writable |-> s.writable]
        ELSE View(m, directory, q)
  BY <1>1, <1>2, <1>5 DEF MapsRun, ViewMapped
<1>. QED BY <1>1, <1>6 DEF SegTarget

-----------------------------------------------------------------------------
(* Memory after each program header of process_map_elf. *)
ElfSteps(g, m, directory, image, segments) ==
  /\ g \in [0 .. Len(segments) -> Memory]
  /\ g[0] = m
  /\ \A i \in 1 .. Len(segments) :
       g[i] = SegmentStep(g[i - 1], directory, image, segments[i])
  /\ process_map_elf(m, directory, image, segments) = g[Len(segments)]

LEMMA ElfIsLoop ==
  ASSUME NEW m \in Memory, NEW directory \in Directories,
         NEW image \in HeapPages, NEW segments \in Seq(Segment)
  PROVE  \E g : ElfSteps(g, m, directory, image, segments)
<1>0. PICK n \in Nat : n = Len(segments)
  OBVIOUS
<1>. DEFINE
     Step(i, x) == SegmentStep(x, directory, image, segments[i])
     step == [i \in 1 .. n |-> [x \in Memory |-> Step(i, x)]]
     Body(g) == [i \in 0 .. n |-> IF i = 0 THEN m ELSE Step(i, g[i - 1])]
     mapped == CHOOSE g : g = Body(g)
<1>1. process_map_elf(m, directory, image, segments) = mapped[n]
  BY <1>0, Zenon DEF process_map_elf, SegmentStep
<1>2. n \in Nat /\ \A i \in 1 .. n : segments[i] \in Segment
  BY <1>0
<1>3. ASSUME NEW i \in 1 .. n, NEW x \in Memory PROVE Step(i, x) \in Memory
  <2>1. segments[i] \in Segment
    BY <1>2
  <2>2. TablesChange(x, Step(i, x), directory)
    BY <2>1, SegmentChanges
  <2>. QED BY <2>2 DEF TablesChange
<1>. HIDE DEF Step
<1>4. step \in [1 .. n -> [Memory -> Memory]]
  BY <1>3
<1>5. PICK g \in [0 .. n -> Memory] :
        g[0] = m /\ \A i \in 1 .. n : g[i] = step[i][g[i - 1]]
  <2>1. n \in Nat
    BY <1>2
  <2>. HIDE DEF step, mapped, Body
  <2>2. \E g : LoopValues(g, Memory, m, n, step)
    BY <1>4, <2>1, LoopExists
  <2>. QED BY <2>2 DEF LoopValues
<1>6. \A i \in 1 .. n : g[i] = Step(i, g[i - 1])
  <2>1. ASSUME NEW i \in 1 .. n PROVE g[i] = Step(i, g[i - 1])
    <3>1. i - 1 \in 0 .. n
      BY <1>2
    <3>2. g[i - 1] \in Memory
      BY <3>1
    <3>. QED BY <1>5, <3>2
  <2>. QED BY <2>1
<1>7. g = Body(g)
  BY <1>2, <1>5, <1>6
<1>. HIDE DEF Body
<1>8. mapped = Body(mapped)
  BY <1>7, Zenon
<1>. HIDE DEF mapped
<1>. USE DEF Body
<1>9. mapped[0] = m /\ \A i \in 1 .. n : mapped[i] = Step(i, mapped[i - 1])
  BY <1>2, <1>8
<1>10. \A i \in 0 .. n : mapped[i] \in Memory
  <2>. DEFINE P == {i \in 0 .. n : mapped[i] \in Memory}
  <2>1. 0 \in P /\ \A i \in 1 .. n : i - 1 \in P => i \in P
    BY <1>2, <1>3, <1>9
  <2>. HIDE DEF P
  <2>2. \A i \in 0 .. n : i \in P
    BY <1>2, <2>1, IntervalInduction
  <2>. QED BY <2>2 DEF P
<1>11. mapped \in [0 .. n -> Memory]
  BY <1>8, <1>10
<1>12. ElfSteps(mapped, m, directory, image, segments)
  BY <1>0, <1>1, <1>9, <1>11, Zenon DEF Step, ElfSteps
<1>. QED BY <1>12

(***************************************************************************)
(* What mapping the segments of a program makes of memory: its directory's *)
(* tables change; if every segment ends inside the image, to pages of it;  *)
(* and what the linker laid out is seen in them.                           *)
(***************************************************************************)
SegmentsSeen(m, r, directory, image, linked) ==
  \A q \in Pages :
    /\ \A s \in linked : q \in SegPages(s) => View(r, directory, q) = SegTarget(image, s, q)
    /\ (\A s \in linked : q \notin SegPages(s)) => View(r, directory, q) = View(m, directory, q)

SegmentsInside(linked, size) ==
  \A s \in linked : s.offset + s.memsz <= PagesOf(size) * PageSize

SegmentsPlaced(linked, image, size) ==
  /\ \A s \in linked : WellPlaced(s, size) /\ ~ SegmentRefused(image, s)
  /\ \A s, r \in linked : s # r => SegPages(s) \cap SegPages(r) = {}

SegmentsMapped(m, r, directory, image, linked, size) ==
  /\ TablesChange(m, r, directory)
  /\ SegmentsInside(linked, size) => LeadsInto(m, r, Run(image, PagesOf(size)))
  /\ TablesDiffer(directory) /\ SegmentsPlaced(linked, image, size) =>
       SegmentsSeen(m, r, directory, image, linked)

LEMMA SegmentsMappedNone ==
  ASSUME NEW m \in Memory, NEW directory, NEW image, NEW size
  PROVE  SegmentsMapped(m, m, directory, image, {}, size)
BY DEF SegmentsMapped, TablesChange, LeadsInto, SegmentsSeen

LEMMA SegmentsMappedNext ==
  ASSUME NEW m \in Memory, NEW x \in Memory, NEW directory \in Directories,
         NEW image \in HeapPages, NEW linked, NEW s \in Segment, NEW size \in Nat \ {0},
         Run(image, PagesOf(size)) \subseteq HeapPages,
         SegmentsMapped(m, x, directory, image, linked, size)
  PROVE  SegmentsMapped(m, SegmentStep(x, directory, image, s), directory, image,
                        linked \cup {s}, size)
<1>. DEFINE r == SegmentStep(x, directory, image, s)
<1>1. TablesChange(m, r, directory)
  <2>1. TablesChange(x, r, directory)
    BY SegmentChanges
  <2>. HIDE DEF r
  <2>. QED BY <2>1 DEF SegmentsMapped, TablesChange
<1>2. ASSUME SegmentsInside(linked \cup {s}, size)
      PROVE  LeadsInto(m, r, Run(image, PagesOf(size)))
  <2>1. LeadsInto(m, x, Run(image, PagesOf(size)))
    BY <1>2 DEF SegmentsMapped, SegmentsInside
  <2>2. LeadsInto(x, r, Run(image, PagesOf(size)))
    <3>1. s.offset + s.memsz <= PagesOf(size) * PageSize
      BY <1>2 DEF SegmentsInside
    <3>. QED BY <3>1, SegmentInside
  <2>. HIDE DEF r
  <2>. QED BY <2>1, <2>2, LeadsIntoNext
<1>3. ASSUME TablesDiffer(directory), SegmentsPlaced(linked \cup {s}, image, size)
      PROVE  SegmentsSeen(m, r, directory, image, linked \cup {s})
  <2>1. SegmentsSeen(m, x, directory, image, linked)
    BY <1>3 DEF SegmentsMapped, SegmentsPlaced
  <2>2. WellPlaced(s, size) /\ ~ SegmentRefused(image, s)
    BY <1>3 DEF SegmentsPlaced
  <2>3. ASSUME NEW q \in Pages
        PROVE  View(r, directory, q) = IF q \in SegPages(s) THEN SegTarget(image, s, q)
                                       ELSE View(x, directory, q)
    BY <1>3, <2>2, SegmentView
  <2>4. ASSUME NEW q \in Pages, NEW t \in linked, q \in SegPages(t), q \in SegPages(s)
        PROVE  s = t
    BY <1>3, <2>4 DEF SegmentsPlaced
  <2>. HIDE DEF r
  <2>. QED BY <2>1, <2>3, <2>4 DEF SegmentsSeen
<1>. QED BY <1>1, <1>2, <1>3 DEF SegmentsMapped

LEMMA ElfMapped ==
  ASSUME NEW m \in Memory, NEW directory \in Directories, NEW image \in HeapPages,
         NEW segments \in Seq(Segment), NEW size \in Nat \ {0},
         Run(image, PagesOf(size)) \subseteq HeapPages
  PROVE  SegmentsMapped(m, process_map_elf(m, directory, image, segments), directory, image,
                        {segments[i] : i \in 1 .. Len(segments)}, size)
<1>. DEFINE n == Len(segments)
            First(k) == {segments[i] : i \in 1 .. k}
<1>1. n \in Nat /\ \A i \in 1 .. n : segments[i] \in Segment
  OBVIOUS
<1>2. PICK g : ElfSteps(g, m, directory, image, segments)
  BY ElfIsLoop
<1>3. /\ g \in [0 .. n -> Memory] /\ g[0] = m
      /\ \A i \in 1 .. n : g[i] = SegmentStep(g[i - 1], directory, image, segments[i])
      /\ process_map_elf(m, directory, image, segments) = g[n]
  BY <1>2 DEF ElfSteps
<1>. HIDE DEF n
<1>. DEFINE Done(k) == SegmentsMapped(m, g[k], directory, image, First(k), size)
            P == {k \in 0 .. n : Done(k)}
<1>4. Done(0)
  <2>1. First(0) = {}
    OBVIOUS
  <2>2. SegmentsMapped(m, m, directory, image, {}, size)
    BY SegmentsMappedNone
  <2>. HIDE DEF First
  <2>. QED BY <1>1, <1>3, <2>1, <2>2
<1>5. ASSUME NEW k \in 1 .. n, Done(k - 1)
      PROVE  Done(k)
  <2>1. First(k) = First(k - 1) \cup {segments[k]}
    <3>1. 1 .. k = (1 .. k - 1) \cup {k}
      BY <1>1
    <3>. QED BY <3>1
  <2>. HIDE DEF First
  <2>2. segments[k] \in Segment /\ g[k - 1] \in Memory
    <3>1. k - 1 \in 0 .. n
      BY <1>1
    <3>. QED BY <1>1, <1>3, <3>1
  <2>3. SegmentsMapped(m, g[k - 1], directory, image, First(k - 1), size)
    BY <1>5
  <2>4. SegmentsMapped(m, SegmentStep(g[k - 1], directory, image, segments[k]), directory,
                       image, First(k - 1) \cup {segments[k]}, size)
    BY <2>2, <2>3, SegmentsMappedNext
  <2>. QED BY <1>1, <1>3, <2>1, <2>4
<1>. HIDE DEF Done
<1>6. \A k \in 0 .. n : k \in P
  <2>1. 0 \in P /\ \A k \in 1 .. n : k - 1 \in P => k \in P
    BY <1>1, <1>4, <1>5
  <2>. HIDE DEF P
  <2>. QED BY <1>1, <2>1, IntervalInduction
<1>7. Done(n)
  BY <1>1, <1>6
<1>. QED BY <1>3, <1>7 DEF n, Done
-----------------------------------------------------------------------------
(* A flat program is mapped like a segment that starts with its file. *)
Flat(size) ==
  [vaddr |-> ProgramAddress, offset |-> 0, memsz |-> size, writable |-> TRUE]

LEMMA ProgramTypes ==
  ASSUME NEW program \in Programs
  PROVE  /\ program.kind \in {"binary", "elf"} /\ program.size \in Nat \ {0}
         /\ program.segments \in Seq(Segment)
         /\ program.kind = "binary" => program.segments = <<>>
BY PagingAssumption

LEMMA FlatIsSegment ==
  ASSUME NEW m, NEW directory, NEW image \in HeapPages, NEW size \in Nat \ {0},
         Run(image, PagesOf(size)) \subseteq HeapPages
  PROVE  /\ Flat(size) \in Segment /\ ~ SegmentRefused(image, Flat(size))
         /\ process_map_binary(m, directory, image, size)
              = SegmentStep(m, directory, image, Flat(size))
<1>0. PageSize \in Nat \ {0} /\ TotalPages \in Nat \ {0} /\ Word \in Nat \ {0}
  BY Sizes
<1>1. PICK k \in Nat \ {0} : k = PagesOf(size) /\ image + k <= TotalPages - 1
                             /\ image \in Nat \ {0}
  BY ImageInMemory
<1>2. PICK f \in Nat, g \in Nat, h \in Nat :
        /\ f = image * PageSize /\ g = k * PageSize /\ h = (image + k) * PageSize
        /\ h = f + g /\ h <= Word - PageSize
  <2>1. (image + k) * PageSize <= (TotalPages - 1) * PageSize
    BY <1>0, <1>1
  <2>2. (TotalPages - 1) * PageSize = Word - PageSize
    BY Sizes
  <2>3. (image + k) * PageSize = image * PageSize + k * PageSize
    BY <1>0, <1>1
  <2>4. image * PageSize \in Nat /\ k * PageSize \in Nat /\ (image + k) * PageSize \in Nat
    BY <1>0, <1>1
  <2>. QED BY <2>1, <2>2, <2>3, <2>4
<1>3. size <= g
  BY <1>1, <1>2, PagesHold
<1>4. f + size \in 0 .. Word - 1 /\ f \in 0 .. Word - 1 /\ size \in 0 .. Word - 1
  BY <1>0, <1>2, <1>3
<1>5. Flat(size) \in Segment
  <2>1. ProgramAddress \in 0 .. Word - 1 /\ 0 \in 0 .. Word - 1
    BY <1>0, PagingAssumption
  <2>. QED BY <1>4, <2>1 DEF Flat, Segment
<1>6. paging_align_to_lower_page(ProgramAddress) = ProgramAddress
  <2>1. ProgramAddress % PageSize = 0 /\ ProgramAddress \in Nat
    BY <1>0, PagingAssumption
  <2>. QED BY <2>1 DEF paging_align_to_lower_page
<1>7. SegmentStart(image, Flat(size)) = image * PageSize
  <2>1. f % PageSize = 0
    BY <1>1, <1>2, PageOrder
  <2>2. (f + 0) % Word = f
    BY <1>0, <1>4
  <2>3. f - (f % PageSize) = f
    BY <2>1
  <2>. QED BY <1>2, <2>2, <2>3 DEF SegmentStart, paging_align_to_lower_page, Flat
<1>8. SegmentEnd(image, Flat(size)) = paging_align_address(image * PageSize + size)
  <2>1. (f + 0 + size) % Word = f + size
    BY <1>0, <1>4
  <2>. QED BY <1>2, <2>1 DEF SegmentEnd, Flat
<1>9. process_map_binary(m, directory, image, size)
        = SegmentStep(m, directory, image, Flat(size))
  BY <1>6, <1>7, <1>8 DEF process_map_binary, SegmentStep, Flat
<1>10. ~ SegmentRefused(image, Flat(size))
  <2>1. PICK b \in Nat : b = PagesOf(f + size)
    BY <1>4, PagesHold, <1>0
  <2>2. b <= image + k
    <3>1. f + size \in Nat /\ image + k \in Nat /\ f + size <= h
      BY <1>0, <1>1, <1>2, <1>3
    <3>. QED BY <1>2, <2>1, <3>1, PagesBound
  <2>3. paging_align_address(f + size) = b * PageSize
    BY <1>0, <1>1, <1>4, <2>1, <2>2, AlignUp
  <2>4. f + size <= b * PageSize
    <3>1. f + size \in Nat
      BY <1>0, <1>4
    <3>. QED BY <2>1, <3>1, PagesHold
  <2>5. ~ (b < image)
    <3>1. b * PageSize < image * PageSize <=> b < image
      BY <1>1, PageBefore
    <3>2. b * PageSize \in Nat
      BY <1>0
    <3>. QED BY <1>1, <1>2, <2>4, <3>1, <3>2
  <2>6. /\ (image * PageSize) % PageSize = 0 /\ (b * PageSize) % PageSize = 0
        /\ b * PageSize < image * PageSize <=> b < image
    BY <1>1, PageOrder
  <2>7. ProgramAddress % PageSize = 0
    BY PagingAssumption
  <2>8. SegmentEnd(image, Flat(size)) = b * PageSize
    BY <1>2, <1>8, <2>3
  <2>9. ~ MapRefused(ProgramAddress, image * PageSize, b * PageSize)
    BY <2>5, <2>6, <2>7 DEF MapRefused, paging_is_aligned
  <2>10. Flat(size).vaddr = ProgramAddress
    BY DEF Flat
  <2>. QED BY <1>6, <1>7, <2>8, <2>9, <2>10 DEF SegmentRefused
<1>. QED BY <1>5, <1>9, <1>10

(* Segments share no page when no address lies in a page of both. *)
LEMMA SharedPages ==
  ASSUME NEW s, NEW r, \A v \in 0 .. Word - 1 : ~ (SharesPage(s, v) /\ SharesPage(r, v))
  PROVE  SegPages(s) \cap SegPages(r) = {}
<1>. SUFFICES ASSUME NEW q \in Pages, q \in SegPages(s), q \in SegPages(r)
              PROVE  FALSE
  BY DEF SegPages, Touched
<1>1. q * PageSize \in 0 .. Word - 1 /\ (q * PageSize) \div PageSize = q
  <2>1. 0 \in 0 .. PageSize - 1
    BY Sizes
  <2>2. q * PageSize + 0 \in 0 .. Word - 1 /\ (q * PageSize + 0) \div PageSize = q
    BY <2>1, PageAddress
  <2>3. q * PageSize + 0 = q * PageSize
    BY Sizes DEF Pages
  <2>. QED BY <2>2, <2>3
<1>2. SharesPage(s, q * PageSize) /\ SharesPage(r, q * PageSize)
  BY <1>1 DEF SegPages, Touched, SharesPage
<1>. QED BY <1>1, <1>2

(* The image of a program of either kind in the tables. *)
MapImage(m, directory, program, image) ==
  IF program.kind = "elf"
  THEN process_map_elf(m, directory, image, program.segments)
  ELSE process_map_binary(m, directory, image, program.size)

LEMMA ImageMapped ==
  ASSUME NEW m \in Memory, NEW directory \in Directories, NEW image \in HeapPages,
         NEW program \in Programs,
         Run(image, PagesOf(program.size)) \subseteq HeapPages
  PROVE  /\ SegmentsMapped(m, MapImage(m, directory, program, image), directory, image,
                           Linked(program), program.size)
         /\ WellLinked(program) /\ ~ MapElfFails(image, program.segments) =>
              SegmentsPlaced(Linked(program), image, program.size)
<1>1. PICK size \in Nat \ {0} : size = program.size
  BY ProgramTypes
<1>2. program.segments \in Seq(Segment) /\ program.kind \in {"binary", "elf"}
  BY ProgramTypes
<1>5. SegmentsMapped(m, MapImage(m, directory, program, image), directory, image,
                     Linked(program), program.size)
  <2>1. CASE program.kind = "elf"
    <3>1. Linked(program) = {program.segments[i] : i \in 1 .. Len(program.segments)}
      BY <2>1 DEF Linked
    <3>2. MapImage(m, directory, program, image)
            = process_map_elf(m, directory, image, program.segments)
      BY <2>1 DEF MapImage
    <3>. QED BY <1>1, <1>2, <3>1, <3>2, ElfMapped
  <2>2. CASE program.kind = "binary"
    <3>1. /\ Flat(size) \in Segment
          /\ process_map_binary(m, directory, image, size)
               = SegmentStep(m, directory, image, Flat(size))
      BY <1>1, FlatIsSegment
    <3>2. Linked(program) = {} \cup {Flat(size)}
      BY <1>1, <2>2 DEF Linked, Flat
    <3>3. MapImage(m, directory, program, image) = SegmentStep(m, directory, image, Flat(size))
      BY <1>1, <2>2, <3>1 DEF MapImage
    <3>4. SegmentsMapped(m, m, directory, image, {}, size)
      BY SegmentsMappedNone
    <3>5. SegmentsMapped(m, SegmentStep(m, directory, image, Flat(size)), directory, image,
                         {} \cup {Flat(size)}, size)
      BY <1>1, <3>1, <3>4, SegmentsMappedNext
    <3>. QED BY <1>1, <3>2, <3>3, <3>5
  <2>. QED BY <1>2, <2>1, <2>2
<1>6. ASSUME WellLinked(program), ~ MapElfFails(image, program.segments)
      PROVE  SegmentsPlaced(Linked(program), image, program.size)
  <2>1. ASSUME NEW s \in Linked(program)
        PROVE  WellPlaced(s, program.size)
    BY <1>6 DEF WellLinked, WellPlaced
  <2>2. ASSUME NEW s \in Linked(program)
        PROVE  ~ SegmentRefused(image, s)
    <3>1. CASE program.kind = "elf"
      <4>1. PICK i \in 1 .. Len(program.segments) : s = program.segments[i]
        BY <2>2, <3>1 DEF Linked
      <4>. QED BY <1>6, <4>1 DEF MapElfFails, SegmentRefused
    <3>2. CASE program.kind = "binary"
      <4>1. s = Flat(size)
        BY <1>1, <2>2, <3>2 DEF Linked, Flat
      <4>2. ~ SegmentRefused(image, Flat(size))
        BY <1>1, FlatIsSegment
      <4>. QED BY <4>1, <4>2
    <3>. QED BY <1>2, <3>1, <3>2
  <2>3. ASSUME NEW s \in Linked(program), NEW r \in Linked(program), s # r
        PROVE  SegPages(s) \cap SegPages(r) = {}
    <3>1. \A v \in 0 .. Word - 1 : ~ (SharesPage(s, v) /\ SharesPage(r, v))
      BY <1>6, <2>3 DEF WellLinked
    <3>. QED BY <3>1, SharedPages
  <2>. QED BY <2>1, <2>2, <2>3 DEF SegmentsPlaced
<1>. QED BY <1>5, <1>6
-----------------------------------------------------------------------------
(* The pages of the stack, and what is mapped there. *)
StackPages == StackEnd \div PageSize .. StackEnd \div PageSize + PagesOf(StackSize) - 1
StackTarget(stack, q) == [page |-> stack + (q - (StackEnd \div PageSize)), writable |-> TRUE]

LEMMA StackPlace ==
  /\ StackEnd \div PageSize \in Pages
  /\ StackEnd = (StackEnd \div PageSize) * PageSize
  /\ PagesOf(StackSize) \in Nat \ {0} /\ PagesOf(StackSize) * PageSize = StackSize
  /\ StackEnd \div PageSize + PagesOf(StackSize) <= TotalPages
<1>0. PageSize \in Nat \ {0} /\ TotalPages \in Nat \ {0} /\ Word \in Nat \ {0}
  BY Sizes
<1>1. /\ StackEnd \in 0 .. Word - 1 /\ StackEnd % PageSize = 0
      /\ StackSize \in Nat \ {0} /\ StackSize % PageSize = 0
      /\ StackEnd + StackSize <= Word
  BY PagingAssumption
<1>2. PICK p \in Pages : p = StackEnd \div PageSize /\ StackEnd = p * PageSize
  <2>1. StackEnd \div PageSize \in Pages
        /\ StackEnd = (StackEnd \div PageSize) * PageSize + (StackEnd % PageSize)
    BY <1>1, AddressSplit
  <2>2. (StackEnd \div PageSize) * PageSize \in Nat
    BY <1>0, <2>1 DEF Pages
  <2>. QED BY <1>1, <2>1, <2>2
<1>3. PICK n \in Nat : n = PagesOf(StackSize) /\ n * PageSize = StackSize
  BY <1>1, PagesHold DEF paging_is_aligned
<1>4. n # 0
  BY <1>0, <1>1, <1>3
<1>5. p + n <= TotalPages
  <2>1. p \in Nat /\ p + n \in Nat
    BY DEF Pages
  <2>2. (p + n) * PageSize = StackEnd + StackSize
    <3>1. (p + n) * PageSize = p * PageSize + n * PageSize
      BY <1>0, <2>1
    <3>. QED BY <1>2, <1>3, <3>1
  <2>3. TotalPages * PageSize < (p + n) * PageSize <=> TotalPages < p + n
    BY <1>0, <2>1, PageBefore
  <2>4. ~ (TotalPages * PageSize < (p + n) * PageSize)
    <3>1. Word = TotalPages * PageSize
      BY Sizes
    <3>. QED BY <1>0, <1>1, <2>2, <3>1
  <2>. QED BY <1>0, <2>1, <2>3, <2>4
<1>. QED BY <1>2, <1>3, <1>4, <1>5

(* The second call of process_map_memory. *)
MapStack(m, directory, stack) ==
  paging_map_to(m, directory, StackEnd, stack * PageSize,
                paging_align_address(stack * PageSize + StackSize), TRUE)

LEMMA StackMapped ==
  ASSUME NEW m \in Memory, NEW directory \in Directories, NEW stack \in HeapPages,
         Run(stack, PagesOf(StackSize)) \subseteq HeapPages
  PROVE  MapsRun(m, MapStack(m, directory, stack), directory, StackEnd \div PageSize,
                 stack, PagesOf(StackSize), TRUE)
<1>0. PageSize \in Nat \ {0} /\ TotalPages \in Nat \ {0} /\ StackSize \in Nat \ {0}
  BY Sizes, PagingAssumption
<1>1. PICK p \in Pages, n \in Nat \ {0} :
        /\ p = StackEnd \div PageSize /\ StackEnd = p * PageSize
        /\ n = PagesOf(StackSize) /\ n * PageSize = StackSize
  BY StackPlace
<1>2. stack \in Nat \ {0} /\ stack + n <= TotalPages - 1
  BY <1>0, <1>1, ImageInMemory
<1>3. PICK b \in Nat : b = stack + n /\ b <= TotalPages /\ stack <= b /\ b - stack = n
  BY <1>0, <1>2
<1>4. stack * PageSize + StackSize = b * PageSize
  <2>1. (stack + n) * PageSize = stack * PageSize + n * PageSize
    BY <1>0, <1>2
  <2>. QED BY <1>1, <1>3, <2>1
<1>5. paging_align_address(b * PageSize) = b * PageSize
  <2>1. (b * PageSize) % PageSize = 0
    BY PageOrder
  <2>. QED BY <2>1 DEF paging_align_address, paging_is_aligned
<1>6. MapStack(m, directory, stack)
        = paging_map_to(m, directory, p * PageSize, stack * PageSize, b * PageSize, TRUE)
  BY <1>1, <1>4, <1>5 DEF MapStack
<1>7. stack \in Nat /\ TRUE \in BOOLEAN
  BY <1>2
<1>8. MapsRun(m, MapStack(m, directory, stack), directory, p, stack, b - stack, TRUE)
  <2>1. MapsRun(m, paging_map_to(m, directory, p * PageSize, stack * PageSize,
                                 b * PageSize, TRUE),
                directory, p, stack, b - stack, TRUE)
    BY <1>3, <1>7, MapTo
  <2>. QED BY <1>6, <2>1
<1>. QED BY <1>1, <1>3, <1>8

(***************************************************************************)
(* process_map_memory: the tables of the directory change, to pages of the *)
(* image and the stack when no segment is longer than the image; the stack *)
(* and what the linker laid out are seen in them, the stack over the rest. *)
(***************************************************************************)
PlacesSeen(m, r, directory, program, image, stack) ==
  \A q \in Pages :
    /\ q \in StackPages => View(r, directory, q) = StackTarget(stack, q)
    /\ q \notin StackPages =>
         /\ \A s \in Linked(program) :
              q \in SegPages(s) => View(r, directory, q) = SegTarget(image, s, q)
         /\ (\A s \in Linked(program) : q \notin SegPages(s)) =>
              View(r, directory, q) = View(m, directory, q)

ProgramMapped(m, r, directory, program, image, stack) ==
  /\ TablesChange(m, r, directory)
  /\ InsideImage(program) =>
       LeadsInto(m, r, Run(image, PagesOf(program.size)) \cup Run(stack, PagesOf(StackSize)))
  /\ TablesDiffer(directory) /\ WellLinked(program)
       /\ ~ MapElfFails(image, program.segments) =>
         PlacesSeen(m, r, directory, program, image, stack)

LEMMA MemoryMapped ==
  ASSUME NEW m \in Memory, NEW directory \in Directories, NEW program \in Programs,
         NEW image \in HeapPages, Run(image, PagesOf(program.size)) \subseteq HeapPages,
         NEW stack \in HeapPages, Run(stack, PagesOf(StackSize)) \subseteq HeapPages
  PROVE  ProgramMapped(m, process_map_memory(m, directory, program, image, stack),
                       directory, program, image, stack)
<1>. DEFINE x == MapImage(m, directory, program, image)
            r == MapStack(x, directory, stack)
            linked == Linked(program)
            size == program.size
            p == StackEnd \div PageSize
            n == PagesOf(StackSize)
<1>1. process_map_memory(m, directory, program, image, stack) = r
  BY DEF process_map_memory, MapImage, MapStack
<1>2. /\ SegmentsMapped(m, x, directory, image, linked, size)
      /\ WellLinked(program) /\ ~ MapElfFails(image, program.segments) =>
           SegmentsPlaced(linked, image, size)
  BY ImageMapped
<1>. HIDE DEF x
<1>3. x \in Memory
  BY <1>2 DEF SegmentsMapped, TablesChange
<1>4. MapsRun(x, r, directory, p, stack, n, TRUE)
  BY <1>3, StackMapped
<1>. HIDE DEF r
<1>5. TablesChange(m, r, directory)
  BY <1>2, <1>4 DEF SegmentsMapped, MapsRun, TablesChange
<1>6. ASSUME InsideImage(program)
      PROVE  LeadsInto(m, r, Run(image, PagesOf(size)) \cup Run(stack, n))
  <2>1. LeadsInto(m, x, Run(image, PagesOf(size)))
    BY <1>2, <1>6 DEF SegmentsMapped, SegmentsInside, InsideImage
  <2>2. LeadsInto(x, r, Run(stack, n))
    <3>1. stack .. stack + n - 1 \subseteq Run(stack, n)
      BY DEF Run
    <3>. QED BY <1>4, <3>1, LeadsIntoRun
  <2>. QED BY <2>1, <2>2 DEF LeadsInto
<1>7. ASSUME TablesDiffer(directory), WellLinked(program),
             ~ MapElfFails(image, program.segments)
      PROVE  PlacesSeen(m, r, directory, program, image, stack)
  <2>1. SegmentsSeen(m, x, directory, image, linked)
    BY <1>2, <1>7 DEF SegmentsMapped
  <2>2. ASSUME NEW q \in Pages
        PROVE  View(r, directory, q) = IF q \in StackPages THEN StackTarget(stack, q)
                                       ELSE View(x, directory, q)
    <3>1. p + n <= TotalPages
      BY StackPlace
    <3>. QED BY <1>4, <1>7, <3>1 DEF MapsRun, ViewMapped, StackPages, StackTarget
  <2>. QED BY <2>1, <2>2 DEF SegmentsSeen, PlacesSeen
<1>. QED BY <1>1, <1>5, <1>6, <1>7 DEF ProgramMapped
-----------------------------------------------------------------------------
(* The pages one process uses, by what for. *)
ImageOf(c) == Run(c.image, PagesOf(c.program.size))
StackOf(c) == Run(c.stack, PagesOf(StackSize))
TablesOf(c) == {c.pages[i] : i \in DOMAIN c.pages}
Uses(c) == ImageOf(c) \cup StackOf(c) \cup TablesOf(c)

(* Its directory is made of the pages taken for it, all different. *)
OwnDirectory(c) ==
  /\ c.directory = [i \in 0 .. TablesPerDirectory - 1 |-> c.pages[i + 1]]
  /\ \A i, j \in 0 .. TablesPerDirectory + 1 : c.pages[i] = c.pages[j] => i = j

(* The pages its tables let it write are its own. *)
WritesOwn(m, c) ==
  InsideImage(c.program) => \A q \in Pages :
    View(m, c.directory, q).writable =>
      View(m, c.directory, q).page \in ImageOf(c) \cup StackOf(c)

(* Its tables lead every page where it should. *)
LaidOut(m, c) ==
  WellLinked(c.program) => \A q \in Pages :
    /\ q \in StackPages => View(m, c.directory, q) = StackTarget(c.stack, q)
    /\ q \notin StackPages =>
         /\ \A s \in Linked(c.program) :
              q \in SegPages(s) => View(m, c.directory, q) = SegTarget(c.image, s, q)
         /\ (\A s \in Linked(c.program) : q \notin SegPages(s)) =>
              View(m, c.directory, q) = [page |-> q, writable |-> FALSE]

Ready(m, c) == OwnDirectory(c) /\ WritesOwn(m, c) /\ LaidOut(m, c)

(***************************************************************************)
(* The inductive invariant: PagesUsedOnce page by page, and the tables of  *)
(* every process are as process_load made them.                            *)
(***************************************************************************)
UsedOnce ==
  /\ \A x : x \in taken <=> x \in kept \/ x \in lost
                            \/ \E t \in Loaded : x \in Uses(process[t])
  /\ kept \cap lost = {}
  /\ \A t \in Loaded :
       /\ ImageOf(process[t]) \cap StackOf(process[t]) = {}
       /\ TablesOf(process[t]) \cap (ImageOf(process[t]) \cup StackOf(process[t])) = {}
       /\ Cardinality(TablesOf(process[t])) = TablesPerDirectory + 2
       /\ (kept \cup lost) \cap Uses(process[t]) = {}
  /\ \A t, u \in Loaded : t # u => Uses(process[t]) \cap Uses(process[u]) = {}

TablesReady == \A t \in Loaded : Ready(entries, process[t])

PgInv == TypeOK /\ UsedOnce /\ TablesReady

LEMMA UsedOnceMeans == UsedOnce <=> PagesUsedOnce
<1>1. \A t : Uses(process[t]) = Image(t) \cup Stack(t) \cup TablePages(t)
  BY DEF Uses, ImageOf, StackOf, TablesOf, Image, Stack, TablePages
<1>2. (\A x : x \in taken <=> x \in kept \/ x \in lost
                              \/ \E t \in Loaded : x \in Uses(process[t]))
      <=> taken = kept \cup lost
                    \cup UNION {Image(t) \cup Stack(t) \cup TablePages(t) : t \in Loaded}
  BY <1>1
<1>3. \A t : /\ ImageOf(process[t]) = Image(t) /\ StackOf(process[t]) = Stack(t)
             /\ TablesOf(process[t]) = TablePages(t)
  BY DEF ImageOf, StackOf, TablesOf, Image, Stack, TablePages
<1>. QED BY <1>1, <1>2, <1>3, Zenon DEF UsedOnce, PagesUsedOnce

(* Tables that did not change are seen as before. *)
LEMMA ViewSame ==
  ASSUME NEW m, NEW r, NEW directory,
         \A i \in 0 .. TablesPerDirectory - 1 : r[directory[i]] = m[directory[i]],
         NEW q \in Pages
  PROVE  View(r, directory, q) = View(m, directory, q)
BY PageSplit DEF View

LEMMA ReadySame ==
  ASSUME NEW m, NEW r, NEW c, Ready(m, c),
         \A i \in 0 .. TablesPerDirectory - 1 : r[c.directory[i]] = m[c.directory[i]]
  PROVE  Ready(r, c)
<1>1. \A q \in Pages : View(r, c.directory, q) = View(m, c.directory, q)
  BY ViewSame
<1>2. WritesOwn(r, c)
  BY <1>1 DEF Ready, WritesOwn
<1>3. LaidOut(r, c)
  BY <1>1 DEF Ready, LaidOut
<1>. QED BY <1>2, <1>3 DEF Ready

(* What process_load has when it maps the program. *)
LEMMA LoadedReady ==
  ASSUME NEW m \in Memory, NEW program \in Programs,
         NEW image \in HeapPages, Run(image, PagesOf(program.size)) \subseteq HeapPages,
         NEW stack \in HeapPages, Run(stack, PagesOf(StackSize)) \subseteq HeapPages,
         NEW used, Cardinality(HeapPages \ used) >= TablesPerDirectory + 2,
         ~ MapElfFails(image, program.segments), NEW c,
         c = [program |-> program, image |-> image, stack |-> stack,
              pages |-> NewPages(used), directory |-> NewDirectory(used)],
         NEW r, r = process_map_memory(Identity(m, c.directory), c.directory,
                                       program, image, stack)
  PROVE  /\ c \in Process /\ r \in Memory /\ Ready(r, c)
         /\ TablesOf(c) \subseteq HeapPages \ used
         /\ Cardinality(TablesOf(c)) = TablesPerDirectory + 2
         /\ \A x \in Pages : x \notin TablesOf(c) => r[x] = m[x]
<1>. DEFINE n == TablesPerDirectory + 1
            pages == NewPages(used)
            directory == NewDirectory(used)
            id == Identity(m, directory)
<1>0. n \in Nat /\ n + 1 = TablesPerDirectory + 2 /\ TablesPerDirectory \in Nat
  BY Sizes
<1>1. /\ pages \in [0 .. n -> HeapPages \ used]
      /\ \A i, j \in 0 .. n : pages[i] = pages[j] => i = j
  BY NewPagesFacts
<1>2. directory = [i \in 0 .. TablesPerDirectory - 1 |-> pages[i + 1]]
  BY DEF NewDirectory
<1>3. c.directory = directory /\ c.pages = pages /\ c.program = program
      /\ c.image = image /\ c.stack = stack
  OBVIOUS
<1>. HIDE DEF pages, directory
<1>4. \A i \in 0 .. TablesPerDirectory - 1 : i + 1 \in 0 .. n
  BY <1>0
<1>5. directory \in [0 .. TablesPerDirectory - 1 -> HeapPages] /\ directory \in Directories
  BY <1>1, <1>2, <1>4, Sizes DEF Directories
<1>6. TablesDiffer(directory)
  <2>1. ASSUME NEW i \in 0 .. TablesPerDirectory - 1, NEW j \in 0 .. TablesPerDirectory - 1,
               directory[i] = directory[j]
        PROVE  i = j
    <3>1. i + 1 = j + 1
      BY <1>1, <1>2, <1>4, <2>1
    <3>. QED BY <3>1
  <2>. QED BY <2>1 DEF TablesDiffer
<1>7. c \in Process
  <2>1. pages \in [0 .. n -> HeapPages]
    BY <1>1
  <2>. QED BY <1>5, <2>1 DEF Process, pages, directory
<1>8. OwnDirectory(c)
  BY <1>1, <1>2, <1>3 DEF OwnDirectory
<1>9. TablesOf(c) = {pages[i] : i \in 0 .. n}
  BY <1>1, <1>3 DEF TablesOf
<1>10. TablesOf(c) \subseteq HeapPages \ used
  BY <1>1, <1>9
<1>11. Cardinality(TablesOf(c)) = TablesPerDirectory + 2
  <2>1. Cardinality(TablesOf(c)) = n + 1
    <3>. HIDE DEF n
    <3>1. AllDiffer(pages, n)
      BY <1>1 DEF AllDiffer
    <3>2. TablesOf(c) = Listed(pages, n)
      BY <1>9 DEF Listed
    <3>. QED BY <1>0, <1>1, <3>1, <3>2, PagesCounted
  <2>. QED BY <1>0, <1>9, <2>1
<1>12. /\ TablesChange(m, id, directory)
       /\ \A q \in Pages : ~ View(id, directory, q).writable
       /\ \A q \in Pages : View(id, directory, q) = [page |-> q, writable |-> FALSE]
  BY <1>5, <1>6, IdentityFacts
<1>13. r = process_map_memory(id, directory, program, image, stack)
  BY <1>3
<1>. HIDE DEF id
<1>14. id \in Memory
  BY <1>12 DEF TablesChange
<1>15. ProgramMapped(id, r, directory, program, image, stack)
  BY <1>5, <1>13, <1>14, MemoryMapped
<1>16. TablesChange(m, r, directory)
  BY <1>12, <1>15 DEF ProgramMapped, TablesChange
<1>17. ASSUME NEW x \in Pages, x \notin TablesOf(c)
       PROVE  r[x] = m[x]
  <2>1. \A i \in 0 .. TablesPerDirectory - 1 : directory[i] # x
    BY <1>2, <1>4, <1>9, <1>17
  <2>. QED BY <1>16, <2>1 DEF TablesChange
<1>18. WritesOwn(r, c)
  <2>1. ASSUME InsideImage(program), NEW q \in Pages, View(r, directory, q).writable
        PROVE  View(r, directory, q).page \in ImageOf(c) \cup StackOf(c)
    <3>1. LeadsInto(id, r, ImageOf(c) \cup StackOf(c))
      BY <1>3, <1>15, <2>1 DEF ProgramMapped, ImageOf, StackOf
    <3>2. View(r, directory, q) # View(id, directory, q)
      BY <1>12, <2>1
    <3>3. /\ q \div EntriesPerTable \in 0 .. TablesPerDirectory - 1
          /\ q % EntriesPerTable \in 0 .. EntriesPerTable - 1
      BY PageSplit
    <3>4. directory[q \div EntriesPerTable] \in Pages
      BY <1>5, <3>3 DEF Directories
    <3>. QED BY <3>1, <3>2, <3>3, <3>4 DEF LeadsInto, View
  <2>. QED BY <1>3, <2>1 DEF WritesOwn
<1>19. LaidOut(r, c)
  <2>1. ASSUME WellLinked(program)
        PROVE  PlacesSeen(id, r, directory, program, image, stack)
    BY <1>6, <1>15, <2>1 DEF ProgramMapped
  <2>. QED BY <1>3, <1>12, <2>1 DEF LaidOut, PlacesSeen
<1>20. r \in Memory
  BY <1>16 DEF TablesChange
<1>. QED BY <1>7, <1>8, <1>10, <1>11, <1>17, <1>18, <1>19, <1>20 DEF Ready

-----------------------------------------------------------------------------
LEMMA InitPgInv == Init => PgInv
<1>. SUFFICES ASSUME Init PROVE PgInv
  OBVIOUS
<1>1. Loaded = {}
  BY DEF Init, Loaded
<1>2. TypeOK
  <2>1. 0 \in Pages
    BY Sizes DEF Pages
  <2>2. NoTable \in [0 .. EntriesPerTable - 1 -> Entry]
    BY <2>1 DEF NoTable, Entry
  <2>. QED BY <2>2 DEF Init, TypeOK
<1>3. UsedOnce
  BY <1>1 DEF Init, UsedOnce
<1>. QED BY <1>1, <1>2, <1>3 DEF PgInv, TablesReady

(* Free pages that go to nobody. *)
LEMMA TakeLost ==
  ASSUME UsedOnce, NEW N, N \cap taken = {}, taken' = taken \cup N, lost' = lost \cup N,
         kept' = kept, process' = process
  PROVE  UsedOnce'
<1>1. Loaded' = Loaded
  BY DEF Loaded
<1>2. \A t \in Loaded : Uses(process[t]) \subseteq taken
  BY DEF UsedOnce
<1>3. kept \subseteq taken
  BY DEF UsedOnce
<1>4. \A t : process'[t] = process[t]
  OBVIOUS
<1>. QED BY <1>1, <1>2, <1>3, <1>4 DEF UsedOnce

LEMMA LostKeeps ==
  ASSUME PgInv, NEW N, N \subseteq HeapPages \ taken, taken' = taken \cup N,
         lost' = lost \cup N, kept' = kept, process' = process, entries' = entries
  PROVE  PgInv'
<1>1. TypeOK'
  BY DEF PgInv, TypeOK
<1>2. UsedOnce'
  <2>1. UsedOnce /\ N \cap taken = {}
    BY DEF PgInv
  <2>. QED BY <2>1, TakeLost
<1>3. TablesReady'
  BY DEF PgInv, TablesReady, Loaded
<1>. QED BY <1>1, <1>2, <1>3 DEF PgInv

LEMMA KmallocKeeps == PgInv /\ kmalloc => PgInv'
<1>. SUFFICES ASSUME PgInv, kmalloc PROVE PgInv'
  OBVIOUS
<1>. DEFINE N == Allocate(taken, 1)
<1>1. N \subseteq HeapPages \ taken
  BY AllocateFacts DEF kmalloc
<1>2. /\ kept' = kept \cup N /\ taken' = taken \cup N
      /\ entries' = entries /\ process' = process /\ lost' = lost
  BY DEF kmalloc
<1>. HIDE DEF N
<1>3. Loaded' = Loaded /\ \A t : process'[t] = process[t]
  BY <1>2 DEF Loaded
<1>4. TypeOK'
  BY <1>1, <1>2 DEF PgInv, TypeOK
<1>5. UsedOnce'
  <2>1. UsedOnce
    BY DEF PgInv
  <2>2. (\A t \in Loaded : Uses(process[t]) \subseteq taken) /\ lost \subseteq taken
    BY <2>1 DEF UsedOnce
  <2>. QED BY <1>1, <1>2, <1>3, <2>1, <2>2 DEF UsedOnce
<1>6. TablesReady'
  BY <1>2, <1>3 DEF PgInv, TablesReady
<1>. QED BY <1>4, <1>5, <1>6 DEF PgInv

LEMMA KfreeKeeps ==
  ASSUME PgInv, NEW p \in HeapPages, kfree(p)
  PROVE  PgInv'
<1>2. /\ kept' = kept \ {p} /\ taken' = taken \ {p} /\ p \in kept
      /\ entries' = entries /\ process' = process /\ lost' = lost
  BY DEF kfree
<1>3. Loaded' = Loaded /\ \A t : process'[t] = process[t]
  BY <1>2 DEF Loaded
<1>4. TypeOK'
  BY <1>2 DEF PgInv, TypeOK
<1>5. UsedOnce'
  <2>1. UsedOnce
    BY DEF PgInv
  <2>2. (\A t \in Loaded : p \notin Uses(process[t])) /\ p \notin lost
    BY <1>2, <2>1 DEF UsedOnce
  <2>. QED BY <1>2, <1>3, <2>1, <2>2 DEF UsedOnce
<1>6. TablesReady'
  BY <1>2, <1>3 DEF PgInv, TablesReady
<1>. QED BY <1>4, <1>5, <1>6 DEF PgInv
(***************************************************************************)
(* The string is copied through the buffer and the entry is put back: the  *)
(* tables are as they were.                                                *)
(***************************************************************************)
LEMMA EntryPutBack ==
  ASSUME NEW m \in Memory, NEW directory \in Directories, NEW p \in Pages, NEW e
  PROVE  paging_set(paging_map(m, directory, p * PageSize, p * PageSize, e),
                    directory, p * PageSize, get_page(m, directory, p * PageSize)) = m
<1>1. p * PageSize \in 0 .. Word - 1
  <2>1. 0 \in 0 .. PageSize - 1 /\ p * PageSize + 0 = p * PageSize
    BY Sizes DEF Pages
  <2>2. p * PageSize + 0 \in 0 .. Word - 1
    BY <2>1, PageAddress
  <2>. QED BY <2>1, <2>2
<1>2. PICK q \in Pages : q = (p * PageSize) \div PageSize
  BY <1>1, AddressSplit
<1>3. PICK k \in 0 .. TablesPerDirectory - 1, j \in 0 .. EntriesPerTable - 1 :
        k = DirectoryIndex(p * PageSize) /\ j = TableIndex(p * PageSize)
  BY <1>1, <1>2, Indices, PageSplit
<1>4. PICK d \in Pages : d = directory[k]
  BY DEF Directories
<1>5. get_page(m, directory, p * PageSize) = m[d][j]
  BY <1>3, <1>4 DEF get_page
<1>6. PICK x : paging_map(m, directory, p * PageSize, p * PageSize, e)
                 = [m EXCEPT ![d] = [m[d] EXCEPT ![j] = x]]
  BY <1>3, <1>4 DEF paging_map, paging_set
<1>. DEFINE n == [m EXCEPT ![d] = [m[d] EXCEPT ![j] = x]]
            r == [n EXCEPT ![d] = [n[d] EXCEPT ![j] = m[d][j]]]
<1>7. paging_set(n, directory, p * PageSize, m[d][j]) = r
  BY <1>3, <1>4 DEF paging_set
<1>8. r = m
  <2>1. m \in [Pages -> [0 .. EntriesPerTable - 1 -> Entry]]
    BY DEF Memory
  <2>2. m[d] \in [0 .. EntriesPerTable - 1 -> Entry]
    BY <2>1
  <2>3. n[d] = [m[d] EXCEPT ![j] = x] /\ \A y \in Pages : y # d => n[y] = m[y]
    BY <2>1
  <2>4. [n[d] EXCEPT ![j] = m[d][j]] = m[d]
    BY <2>2, <2>3
  <2>5. DOMAIN n = Pages
    BY <2>1
  <2>. HIDE DEF n
  <2>6. r = [n EXCEPT ![d] = m[d]]
    BY <2>4
  <2>7. r = [y \in Pages |-> m[y]]
    BY <2>3, <2>5, <2>6
  <2>. QED BY <2>1, <2>7
<1>. QED BY <1>5, <1>6, <1>7, <1>8

LEMMA CopyKeeps ==
  ASSUME PgInv, NEW t \in Tasks, copy_string_from_task(t)
  PROVE  PgInv'
<1>1. entries \in Memory /\ process[t] \in Process
  BY DEF PgInv, TypeOK, Memory, copy_string_from_task
<1>2. process[t].directory \in Directories
  BY <1>1, Sizes DEF Process, Directories
<1>3. /\ Allocate(taken, 1) \subseteq HeapPages \ taken
      /\ Min(Allocate(taken, 1)) \in HeapPages
      /\ Allocate(taken, 1) = Run(Min(Allocate(taken, 1)), 1)
  BY AllocateFacts DEF copy_string_from_task
<1>4. PICK hold \in HeapPages : hold = Min(Allocate(taken, 1))
  BY <1>3
<1>5. hold \in Pages /\ hold \in Nat
  BY Sizes
<1>6. Allocate(taken, 1) = {hold}
  BY <1>3, <1>4, <1>5 DEF Run
<1>7. entries' = paging_set(
                   paging_map(entries, process[t].directory, hold * PageSize,
                              hold * PageSize, TRUE),
                   process[t].directory, hold * PageSize,
                   get_page(entries, process[t].directory, hold * PageSize))
  BY <1>4 DEF copy_string_from_task, EntryBefore
<1>8. entries' = entries
  BY <1>1, <1>2, <1>5, <1>7, EntryPutBack
<1>9. taken' = taken \cup {hold} /\ lost' = lost \cup {hold}
      /\ process' = process /\ kept' = kept
  BY <1>4 DEF copy_string_from_task
<1>10. {hold} \subseteq HeapPages \ taken
  BY <1>3, <1>6
<1>. QED BY <1>8, <1>9, <1>10, LostKeeps

-----------------------------------------------------------------------------
(* A new process, in pages that nobody had. *)
LEMMA NewProcessKeeps ==
  ASSUME PgInv, NEW t \in Tasks, process[t] = NULL, NEW c \in Process,
         Uses(c) \subseteq HeapPages \ taken,
         ImageOf(c) \cap StackOf(c) = {},
         TablesOf(c) \cap (ImageOf(c) \cup StackOf(c)) = {},
         Cardinality(TablesOf(c)) = TablesPerDirectory + 2,
         taken' = taken \cup Uses(c), process' = [process EXCEPT ![t] = c],
         kept' = kept, lost' = lost, entries' \in Memory, Ready(entries', c),
         \A x \in Pages : x \notin TablesOf(c) => entries'[x] = entries[x]
  PROVE  PgInv'
<1>1. TypeOK /\ UsedOnce /\ TablesReady
  BY DEF PgInv
<1>2. NULL \notin Process
  BY PagingAssumption
<1>3. process'[t] = c /\ \A u \in Tasks : u # t => process'[u] = process[u]
  BY <1>1 DEF TypeOK
<1>4. Loaded' = Loaded \cup {t} /\ t \notin Loaded /\ Loaded \subseteq Tasks
  BY <1>2, <1>3 DEF Loaded
<1>5. \A u \in Loaded : u # t /\ process'[u] = process[u]
  BY <1>3, <1>4
<1>6. TypeOK'
  <2>1. taken' \subseteq HeapPages
    BY <1>1 DEF TypeOK
  <2>2. process' \in [Tasks -> Process \cup {NULL}]
    BY <1>1 DEF TypeOK
  <2>. QED BY <1>1, <2>1, <2>2 DEF TypeOK, Memory
<1>7. /\ \A u \in Loaded : Uses(process[u]) \subseteq taken
      /\ kept \subseteq taken /\ lost \subseteq taken
  BY <1>1 DEF UsedOnce
<1>8. UsedOnce'
  <2>1. \A x : x \in taken' <=> x \in kept' \/ x \in lost'
                                \/ \E u \in Loaded' : x \in Uses(process'[u])
    <3>1. \A x : (\E u \in Loaded' : x \in Uses(process'[u]))
                   <=> x \in Uses(c) \/ \E u \in Loaded : x \in Uses(process[u])
      BY <1>3, <1>4, <1>5
    <3>2. \A x : x \in taken <=> x \in kept \/ x \in lost
                                 \/ \E u \in Loaded : x \in Uses(process[u])
      BY <1>1 DEF UsedOnce
    <3>. QED BY <3>1, <3>2
  <2>2. kept' \cap lost' = {}
    BY <1>1 DEF UsedOnce
  <2>3. ASSUME NEW u \in Loaded'
        PROVE  /\ ImageOf(process'[u]) \cap StackOf(process'[u]) = {}
               /\ TablesOf(process'[u]) \cap (ImageOf(process'[u]) \cup StackOf(process'[u])) = {}
               /\ Cardinality(TablesOf(process'[u])) = TablesPerDirectory + 2
               /\ (kept' \cup lost') \cap Uses(process'[u]) = {}
    <3>1. CASE u = t
      BY <1>3, <1>7, <3>1
    <3>2. CASE u \in Loaded
      BY <1>1, <1>5, <3>2 DEF UsedOnce
    <3>. QED BY <1>4, <3>1, <3>2
  <2>4. ASSUME NEW u \in Loaded', NEW v \in Loaded', u # v
        PROVE  Uses(process'[u]) \cap Uses(process'[v]) = {}
    <3>1. CASE u \in Loaded /\ v \in Loaded
      BY <1>1, <1>5, <2>4, <3>1 DEF UsedOnce
    <3>2. CASE u = t /\ v \in Loaded
      BY <1>3, <1>5, <1>7, <3>2
    <3>3. CASE u \in Loaded /\ v = t
      BY <1>3, <1>5, <1>7, <3>3
    <3>. QED BY <1>4, <2>4, <3>1, <3>2, <3>3
  <2>. QED BY <2>1, <2>2, <2>3, <2>4 DEF UsedOnce
<1>9. TablesReady'
  <2>1. ASSUME NEW u \in Loaded'
        PROVE  Ready(entries', process'[u])
    <3>1. CASE u = t
      BY <1>3, <3>1
    <3>2. CASE u \in Loaded
      <4>1. Ready(entries, process[u]) /\ process[u] \in Process
        BY <1>1, <1>4, <3>2 DEF TablesReady, TypeOK, Loaded
      <4>2. ASSUME NEW i \in 0 .. TablesPerDirectory - 1
            PROVE  entries'[process[u].directory[i]] = entries[process[u].directory[i]]
        <5>1. process[u].directory[i] = process[u].pages[i + 1]
          BY <4>1 DEF Ready, OwnDirectory
        <5>2. i + 1 \in DOMAIN process[u].pages /\ process[u].pages[i + 1] \in HeapPages
          <6>1. i + 1 \in 0 .. TablesPerDirectory + 1
            BY Sizes
          <6>2. process[u].pages \in [0 .. TablesPerDirectory + 1 -> HeapPages]
            BY <4>1 DEF Process
          <6>. QED BY <6>1, <6>2
        <5>3. process[u].directory[i] \in TablesOf(process[u])
          BY <5>1, <5>2 DEF TablesOf
        <5>4. process[u].directory[i] \notin TablesOf(c)
          BY <1>7, <3>2, <5>3 DEF Uses
        <5>. QED BY <5>1, <5>2, <5>4, Sizes
      <4>3. Ready(entries', process[u])
        BY <4>1, <4>2, ReadySame
      <4>. QED BY <1>5, <3>2, <4>3
    <3>. QED BY <1>4, <3>1, <3>2
  <2>. QED BY <2>1 DEF TablesReady
<1>. QED BY <1>6, <1>8, <1>9 DEF PgInv

LEMMA LoadKeeps ==
  ASSUME PgInv, NEW t \in Tasks, NEW program \in Programs, process_load(t, program)
  PROVE  PgInv'
<1>. DEFINE image == Allocate(taken, PagesOf(program.size))
            stack == Allocate(taken \cup image, PagesOf(StackSize))
            before == taken \cup image \cup stack
            pages == NewPages(before)
            directory == NewDirectory(before)
            gone == {pages[i] : i \in DOMAIN pages}
            used == before \cup gone
            room == /\ Fits(taken \cup image, PagesOf(StackSize)) # {}
                    /\ Cardinality(HeapPages \ before) >= TablesPerDirectory + 2
            fails == MapElfFails(Min(image), program.segments)
            c == [program |-> program, image |-> Min(image), stack |-> Min(stack),
                  pages |-> pages, directory |-> directory]
<1>1. /\ process[t] = NULL /\ Fits(taken, PagesOf(program.size)) # {} /\ kept' = kept
      /\ \/ /\ taken' = taken \cup image /\ lost' = lost \cup image
            /\ entries' = entries /\ process' = process
         \/ /\ room /\ fails
            /\ taken' = used \ gone /\ lost' = lost \cup image \cup stack
            /\ entries' = entries /\ process' = process
         \/ /\ room /\ ~ fails /\ taken' = used /\ lost' = lost
            /\ entries' = process_map_memory(Identity(entries, directory), directory,
                                             program, Min(image), Min(stack))
            /\ process' = [process EXCEPT ![t] = c]
  BY DEF process_load, paging_free_4gb
<1>2. PagesOf(program.size) \in Nat \ {0} /\ PagesOf(StackSize) \in Nat \ {0}
  <2>1. program.size \in Nat \ {0}
    BY ProgramTypes
  <2>2. PICK k \in Nat, size \in Nat \ {0} :
          k = PagesOf(program.size) /\ size = program.size /\ size <= k * PageSize
    BY <2>1, PagesHold
  <2>3. k # 0
    BY <2>2, Sizes
  <2>. QED BY <2>2, <2>3, StackPlace
<1>3. /\ image \subseteq HeapPages \ taken /\ Min(image) \in HeapPages
      /\ image = Run(Min(image), PagesOf(program.size))
  BY <1>1, <1>2, AllocateFacts
<1>. HIDE DEF image
<1>4. CASE /\ taken' = taken \cup image /\ lost' = lost \cup image
           /\ entries' = entries /\ process' = process
  BY <1>1, <1>3, <1>4, LostKeeps
<1>5. room => /\ stack \subseteq HeapPages \ (taken \cup image) /\ Min(stack) \in HeapPages
              /\ stack = Run(Min(stack), PagesOf(StackSize))
  BY <1>2, AllocateFacts
<1>. HIDE DEF stack
<1>6. room => pages \in [0 .. TablesPerDirectory + 1 -> HeapPages \ before]
  BY NewPagesFacts
<1>7. room => gone \subseteq HeapPages \ before
  <2>. HIDE DEF pages, before
  <2>. QED BY <1>6
<1>8. CASE /\ room /\ fails
           /\ taken' = used \ gone /\ lost' = lost \cup image \cup stack
           /\ entries' = entries /\ process' = process
  <2>. HIDE DEF gone
  <2>1. taken' = taken \cup (image \cup stack)
    BY <1>7, <1>8
  <2>2. lost' = lost \cup (image \cup stack)
    BY <1>8
  <2>3. image \cup stack \subseteq HeapPages \ taken
    BY <1>3, <1>5, <1>8
  <2>. HIDE DEF fails, room, before
  <2>. QED BY <1>1, <1>8, <2>1, <2>2, <2>3, LostKeeps
<1>9. CASE /\ room /\ ~ fails /\ taken' = used /\ lost' = lost
           /\ entries' = process_map_memory(Identity(entries, directory), directory,
                                            program, Min(image), Min(stack))
           /\ process' = [process EXCEPT ![t] = c]
  <2>1. entries \in Memory
    BY DEF PgInv, TypeOK, Memory
  <2>2. PICK first \in HeapPages, base \in HeapPages :
          /\ first = Min(image) /\ base = Min(stack)
          /\ image = Run(first, PagesOf(program.size))
          /\ stack = Run(base, PagesOf(StackSize))
    BY <1>3, <1>5, <1>9
  <2>3. Run(first, PagesOf(program.size)) \subseteq HeapPages
        /\ Run(base, PagesOf(StackSize)) \subseteq HeapPages
    BY <1>3, <1>5, <1>9, <2>2
  <2>4. Cardinality(HeapPages \ before) >= TablesPerDirectory + 2
    BY <1>9
  <2>5. ~ MapElfFails(first, program.segments)
    BY <1>9, <2>2
  <2>6. c = [program |-> program, image |-> first, stack |-> base,
             pages |-> NewPages(before), directory |-> NewDirectory(before)]
    BY <2>2
  <2>7. entries' = process_map_memory(Identity(entries, c.directory), c.directory,
                                      program, first, base)
    BY <1>9, <2>2, <2>6
  <2>8. c.pages = pages /\ c.program = program /\ c.image = first /\ c.stack = base
    BY <2>2
  <2>. HIDE DEF c, before, pages
  <2>9. /\ c \in Process /\ entries' \in Memory /\ Ready(entries', c)
        /\ TablesOf(c) \subseteq HeapPages \ before
        /\ Cardinality(TablesOf(c)) = TablesPerDirectory + 2
        /\ \A x \in Pages : x \notin TablesOf(c) => entries'[x] = entries[x]
    BY <2>1, <2>3, <2>4, <2>5, <2>6, <2>7, LoadedReady
  <2>10. ImageOf(c) = image /\ StackOf(c) = stack /\ TablesOf(c) = gone
    BY <2>2, <2>8 DEF ImageOf, StackOf, TablesOf
  <2>. HIDE DEF gone
  <2>11. Uses(c) = image \cup stack \cup gone
    BY <2>10 DEF Uses
  <2>12. Uses(c) \subseteq HeapPages \ taken /\ taken' = taken \cup Uses(c)
    BY <1>3, <1>5, <1>7, <1>9, <2>11 DEF before
  <2>13. /\ ImageOf(c) \cap StackOf(c) = {}
         /\ TablesOf(c) \cap (ImageOf(c) \cup StackOf(c)) = {}
    BY <1>5, <1>7, <1>9, <2>10 DEF before
  <2>14. process[t] = NULL /\ kept' = kept /\ lost' = lost
         /\ process' = [process EXCEPT ![t] = c]
    BY <1>1, <1>9
  <2>. QED BY <2>9, <2>12, <2>13, <2>14, NewProcessKeeps
<1>. QED BY <1>1, <1>4, <1>8, <1>9

LEMMA StutterKeeps == PgInv /\ UNCHANGED vars => PgInv'
BY DEF vars, PgInv, TypeOK, UsedOnce, TablesReady, Loaded

LEMMA NextPgInv == PgInv /\ [Next]_vars => PgInv'
<1>. SUFFICES ASSUME PgInv, [Next]_vars PROVE PgInv'
  OBVIOUS
<1>1. ASSUME NEW t \in Tasks, NEW p \in Programs, process_load(t, p) PROVE PgInv'
  BY <1>1, LoadKeeps
<1>2. ASSUME NEW t \in Tasks, copy_string_from_task(t) PROVE PgInv'
  BY <1>2, CopyKeeps
<1>3. ASSUME kmalloc PROVE PgInv'
  BY <1>3, KmallocKeeps
<1>4. ASSUME NEW p \in HeapPages, kfree(p) PROVE PgInv'
  BY <1>4, KfreeKeeps
<1>5. ASSUME UNCHANGED vars PROVE PgInv'
  BY <1>5, StutterKeeps
<1>. QED BY <1>1, <1>2, <1>3, <1>4, <1>5 DEF Next

(* The invariant the others follow from. *)
THEOREM PagingInvariant == Spec => []PgInv
<1>. QED BY InitPgInv, NextPgInv, PTL DEF Spec
-----------------------------------------------------------------------------
(***************************************************************************)
(* Page tables hold entries, and a process is what process_load stores:    *)
(* pages of the heap, in a directory of the right length (paging_new_4gb   *)
(* and process.c).                                                         *)
(***************************************************************************)
THEOREM PagingTypeCorrect == Spec => []TypeOK
<1>1. PgInv => TypeOK
  BY DEF PgInv
<1>. QED BY PagingInvariant, <1>1, PTL

(***************************************************************************)
(* No page of the heap has two uses: images, stacks, page tables, blocks   *)
(* held and blocks lost are apart, and these are all there are             *)
(* (process_load, paging_free_4gb, copy_string_from_task).                 *)
(***************************************************************************)
THEOREM PagingPagesUsedOnce == Spec => []PagesUsedOnce
<1>1. PgInv => PagesUsedOnce
  BY UsedOnceMeans DEF PgInv
<1>. QED BY PagingInvariant, <1>1, PTL

(* What a task sees at an address, by the page of the address. *)
LEMMA SeenAt ==
  ASSUME PgInv, NEW t \in Loaded, NEW v \in 0 .. Word - 1
  PROVE  \E q \in Pages, r \in 0 .. PageSize - 1, e \in Entry :
           /\ q = v \div PageSize /\ r = v % PageSize /\ v = q * PageSize + r
           /\ e = View(entries, process[t].directory, q)
           /\ Translate(t, v) = e.page * PageSize + r /\ MayWrite(t, v) = e.writable
<1>1. PICK q \in Pages, r \in 0 .. PageSize - 1 :
        q = v \div PageSize /\ r = v % PageSize /\ v = q * PageSize + r
  BY AddressSplit
<1>2. process[t] \in Process /\ entries \in [Pages -> [0 .. EntriesPerTable - 1 -> Entry]]
  BY DEF PgInv, TypeOK, Loaded
<1>3. /\ q \div EntriesPerTable \in 0 .. TablesPerDirectory - 1
      /\ q % EntriesPerTable \in 0 .. EntriesPerTable - 1
  BY PageSplit
<1>4. process[t].directory[q \div EntriesPerTable] \in Pages
  BY <1>2, <1>3, Sizes DEF Process
<1>5. View(entries, process[t].directory, q) \in Entry
  BY <1>2, <1>3, <1>4 DEF View
<1>6. get_page(entries, process[t].directory, v) = View(entries, process[t].directory, q)
  BY <1>1, GetPageIsView
<1>. QED BY <1>1, <1>5, <1>6 DEF Translate, MayWrite

(***************************************************************************)
(* Whatever a task writes, it writes to its own image and stack, if its    *)
(* segments are no longer than its image (process_map_memory).             *)
(***************************************************************************)
THEOREM PagingWritesStayOwn == Spec => []WritesStayOwn
<1>1. PgInv => WritesStayOwn
  <2>. SUFFICES ASSUME PgInv, NEW t \in Loaded, InsideImage(process[t].program),
                       NEW v \in 0 .. Word - 1, MayWrite(t, v)
                PROVE  Translate(t, v) \div PageSize \in Image(t) \cup Stack(t)
    BY DEF WritesStayOwn
  <2>1. PICK q \in Pages, r \in 0 .. PageSize - 1, e \in Entry :
           /\ q = v \div PageSize /\ r = v % PageSize /\ v = q * PageSize + r
           /\ e = View(entries, process[t].directory, q)
           /\ Translate(t, v) = e.page * PageSize + r /\ MayWrite(t, v) = e.writable
    BY SeenAt
  <2>2. WritesOwn(entries, process[t])
    BY DEF PgInv, TablesReady, Ready
  <2>3. e.page \in Image(t) \cup Stack(t)
    BY <2>1, <2>2 DEF WritesOwn, ImageOf, StackOf, Image, Stack
  <2>4. e.page \in Pages
    BY DEF Entry
  <2>5. (e.page * PageSize + r) \div PageSize = e.page
    BY <2>4, PageAddress
  <2>. QED BY <2>1, <2>3, <2>5
<1>. QED BY PagingInvariant, <1>1, PTL

(* The addresses of the stack are those in its pages. *)
LEMMA OnStackPages ==
  ASSUME NEW v \in 0 .. Word - 1
  PROVE  OnStack(v) <=> v \div PageSize \in StackPages
<1>0. PageSize \in Nat \ {0} /\ StackSize \in Nat \ {0} /\ v \in Nat
  BY Sizes, PagingAssumption
<1>1. PICK q \in Pages, r \in 0 .. PageSize - 1 :
        q = v \div PageSize /\ r = v % PageSize /\ v = q * PageSize + r
  BY AddressSplit
<1>2. PICK p \in Nat, n \in Nat :
        /\ p = StackEnd \div PageSize /\ StackEnd = p * PageSize
        /\ n = PagesOf(StackSize) /\ n * PageSize = StackSize
  BY StackPlace DEF Pages
<1>3. q \in Nat /\ p + n \in Nat /\ q + 1 \in Nat
  BY DEF Pages
<1>4. PICK x \in Nat, y \in Nat, z \in Nat :
        /\ x = p * PageSize /\ y = (p + n) * PageSize /\ z = q * PageSize
        /\ y = x + StackSize /\ z + PageSize = (q + 1) * PageSize
  <2>1. (p + n) * PageSize = p * PageSize + n * PageSize
    BY <1>0
  <2>2. (q + 1) * PageSize = q * PageSize + PageSize
    BY <1>0, <1>3
  <2>3. p * PageSize \in Nat /\ (p + n) * PageSize \in Nat /\ q * PageSize \in Nat
    BY <1>0, <1>3
  <2>. QED BY <1>2, <2>1, <2>2, <2>3
<1>5. v = z + r /\ r \in Nat /\ r < PageSize
  BY <1>0, <1>1, <1>4
<1>6. z < x <=> q < p
  BY <1>3, <1>4, PageBefore
<1>7. y < z + PageSize <=> p + n < q + 1
  BY <1>3, <1>4, PageBefore
<1>8. x < z + PageSize <=> p < q + 1
  BY <1>3, <1>4, PageBefore
<1>9. z < y <=> q < p + n
  BY <1>3, <1>4, PageBefore
<1>10. OnStack(v) <=> x <= v /\ v < y
  BY <1>0, <1>2, <1>4 DEF OnStack
<1>11. q \in StackPages <=> p <= q /\ q < p + n
  BY <1>2, <1>3 DEF StackPages
<1>12. x <= v <=> p <= q
  BY <1>0, <1>3, <1>5, <1>6, <1>8
<1>13. v < y <=> q < p + n
  BY <1>0, <1>3, <1>4, <1>5, <1>7, <1>9
<1>. QED BY <1>1, <1>10, <1>11, <1>12, <1>13

LEMMA SharesPages ==
  ASSUME NEW s, NEW v \in 0 .. Word - 1
  PROVE  /\ SharesPage(s, v) <=> v \div PageSize \in SegPages(s)
         /\ Covers(s, v) => SharesPage(s, v)
<1>1. v \div PageSize \in Pages
  BY AddressSplit
<1>. QED BY <1>1 DEF SharesPage, Covers, SegPages, Touched

(***************************************************************************)
(* A program that is linked as linkers do finds its segments where they    *)
(* were linked and its stack where the kernel promises it; every other     *)
(* address is itself, read only (paging_new_4gb, process_map_memory).      *)
(***************************************************************************)
THEOREM PagingAddressSpaceAsLinked == Spec => []AddressSpaceAsLinked
<1>1. PgInv => AddressSpaceAsLinked
  <2>. SUFFICES ASSUME PgInv, NEW t \in Loaded, WellLinked(process[t].program),
                       NEW v \in 0 .. Word - 1
       PROVE  /\ OnStack(v) =>
                   /\ Translate(t, v) = process[t].stack * PageSize + (v - StackEnd)
                   /\ MayWrite(t, v)
              /\ \A s \in Linked(process[t].program) : Covers(s, v) /\ ~ OnStack(v) =>
                   /\ Translate(t, v) =
                        process[t].image * PageSize + s.offset + (v - s.vaddr)
                   /\ MayWrite(t, v) = s.writable
              /\ ~ OnStack(v) /\ (\A s \in Linked(process[t].program) : ~ SharesPage(s, v)) =>
                   Translate(t, v) = v /\ ~ MayWrite(t, v)
    BY Zenon DEF AddressSpaceAsLinked
  <2>1. PICK q \in Pages, r \in 0 .. PageSize - 1, e \in Entry :
           /\ q = v \div PageSize /\ r = v % PageSize /\ v = q * PageSize + r
           /\ e = View(entries, process[t].directory, q)
           /\ Translate(t, v) = e.page * PageSize + r /\ MayWrite(t, v) = e.writable
    BY SeenAt
  <2>2. /\ q \in StackPages => e = StackTarget(process[t].stack, q)
        /\ q \notin StackPages =>
             /\ \A s \in Linked(process[t].program) :
                  q \in SegPages(s) => e = SegTarget(process[t].image, s, q)
             /\ (\A s \in Linked(process[t].program) : q \notin SegPages(s)) =>
                  e = [page |-> q, writable |-> FALSE]
    <3>1. LaidOut(entries, process[t])
      BY DEF PgInv, TablesReady, Ready
    <3>. QED BY <2>1, <3>1 DEF LaidOut
  <2>3. OnStack(v) <=> q \in StackPages
    BY <2>1, OnStackPages
  <2>4. process[t] \in Process
    BY DEF PgInv, TypeOK, Loaded
  <2>5. /\ PageSize \in Nat \ {0} /\ q \in Nat /\ r \in Nat
        /\ process[t].stack \in Nat /\ process[t].image \in Nat
    <3>1. process[t].stack \in HeapPages /\ process[t].image \in HeapPages
      BY <2>4 DEF Process
    <3>2. HeapPages \subseteq Nat /\ PageSize \in Nat \ {0}
      BY Sizes
    <3>3. q \in Nat /\ r \in Nat
      BY <3>2 DEF Pages
    <3>. QED BY <3>1, <3>2, <3>3
  <2>6. ASSUME OnStack(v)
        PROVE  /\ Translate(t, v) = process[t].stack * PageSize + (v - StackEnd)
               /\ MayWrite(t, v)
    <3>1. PICK p \in Nat, k \in Nat :
            /\ p = StackEnd \div PageSize /\ StackEnd = p * PageSize /\ k = process[t].stack
      BY <2>5, StackPlace DEF Pages
    <3>2. e.page = k + (q - p) /\ e.writable = TRUE
      BY <2>2, <2>3, <2>6, <3>1 DEF StackTarget
    <3>3. (k + (q - p)) * PageSize = k * PageSize + (q * PageSize - p * PageSize)
      BY <2>5
    <3>4. k * PageSize \in Nat /\ q * PageSize \in Nat /\ p * PageSize \in Nat
      BY <2>5
    <3>5. Translate(t, v) = k * PageSize + (q * PageSize - p * PageSize) + r
      BY <2>1, <3>2, <3>3
    <3>6. k * PageSize + (q * PageSize - p * PageSize) + r = k * PageSize + (v - StackEnd)
      <4>1. PICK x \in Nat, y \in Nat, z \in Nat :
              x = k * PageSize /\ y = q * PageSize /\ z = p * PageSize
        BY <3>4
      <4>2. v = y + r /\ StackEnd = z
        BY <2>1, <3>1, <4>1
      <4>3. x + (y - z) + r = x + ((y + r) - z)
        BY <2>5
      <4>. QED BY <4>1, <4>2, <4>3
    <3>. QED BY <2>1, <3>1, <3>2, <3>5, <3>6
  <2>7. ASSUME NEW s \in Linked(process[t].program), Covers(s, v), ~ OnStack(v)
        PROVE  /\ Translate(t, v) = process[t].image * PageSize + s.offset + (v - s.vaddr)
               /\ MayWrite(t, v) = s.writable
    <3>1. e = SegTarget(process[t].image, s, q)
      BY <2>1, <2>2, <2>3, <2>7, SharesPages
    <3>2. s.offset \in Nat /\ s.vaddr \in Nat
      <4>1. process[t].program \in Programs
        BY <2>4 DEF Process
      <4>2. /\ process[t].program.segments \in Seq(Segment)
            /\ process[t].program.kind \in {"binary", "elf"}
        BY <4>1, ProgramTypes
      <4>3. CASE process[t].program.kind = "elf"
        <5>1. PICK i \in 1 .. Len(process[t].program.segments) :
                s = process[t].program.segments[i]
          BY <2>7, <4>3 DEF Linked
        <5>2. s \in Segment
          BY <4>2, <5>1
        <5>. QED BY <5>2, Sizes DEF Segment
      <4>4. CASE process[t].program.kind = "binary"
        <5>1. s.offset = 0 /\ s.vaddr = ProgramAddress
          BY <2>7, <4>4 DEF Linked
        <5>2. ProgramAddress \in Nat
          BY PagingAssumption, Sizes
        <5>. QED BY <5>1, <5>2
      <4>. QED BY <4>2, <4>3, <4>4
    <3>3. PICK o \in Nat, a \in Nat, k \in Nat :
            o = s.offset /\ a = s.vaddr /\ k = process[t].image
      BY <2>5, <3>2
    <3>4. PICK p \in Nat, m \in Nat, d \in 0 .. PageSize - 1 :
            /\ p = a \div PageSize /\ a = p * PageSize + d
            /\ m = o \div PageSize /\ o = m * PageSize + d
      <4>1. /\ a \div PageSize \in Nat /\ a % PageSize \in 0 .. PageSize - 1
            /\ a = (a \div PageSize) * PageSize + (a % PageSize)
        BY <2>5, Quotient
      <4>2. o \div PageSize \in Nat /\ o = (o \div PageSize) * PageSize + (o % PageSize)
        BY <2>5, Quotient
      <4>3. a % PageSize = o % PageSize
        BY <2>7, <3>3 DEF WellLinked
      <4>. QED BY <4>1, <4>2, <4>3
    <3>5. e.page = k + m + (q - p) /\ e.writable = s.writable
      BY <3>1, <3>3, <3>4 DEF SegTarget
    <3>6. (k + m + (q - p)) * PageSize
            = k * PageSize + m * PageSize + (q * PageSize - p * PageSize)
      BY <2>5
    <3>7. /\ k * PageSize \in Nat /\ q * PageSize \in Nat /\ p * PageSize \in Nat
          /\ m * PageSize \in Nat
      BY <2>5
    <3>8. Translate(t, v) = k * PageSize + m * PageSize + (q * PageSize - p * PageSize) + r
      BY <2>1, <3>5, <3>6
    <3>9. k * PageSize + m * PageSize + (q * PageSize - p * PageSize) + r
            = k * PageSize + o + (v - a)
      <4>1. PICK x \in Nat, y \in Nat, z \in Nat, w \in Nat :
              /\ x = k * PageSize /\ y = q * PageSize /\ z = p * PageSize
              /\ w = m * PageSize
        BY <3>7
      <4>2. v = y + r /\ a = z + d /\ o = w + d /\ d \in Nat
        BY <2>1, <2>5, <3>4, <4>1
      <4>3. x + w + (y - z) + r = x + (w + d) + ((y + r) - (z + d))
        BY <2>5, <4>2
      <4>. QED BY <4>1, <4>2, <4>3
    <3>. QED BY <2>1, <3>3, <3>5, <3>8, <3>9
  <2>8. ASSUME ~ OnStack(v), \A s \in Linked(process[t].program) : ~ SharesPage(s, v)
        PROVE  Translate(t, v) = v /\ ~ MayWrite(t, v)
    <3>1. e = [page |-> q, writable |-> FALSE]
      BY <2>1, <2>2, <2>3, <2>8, SharesPages
    <3>2. e.page = q /\ e.writable = FALSE
      BY <3>1
    <3>. QED BY <2>1, <3>2
  <2>. QED BY <2>6, <2>7, <2>8
<1>. QED BY PagingInvariant, <1>1, PTL
=============================================================================
