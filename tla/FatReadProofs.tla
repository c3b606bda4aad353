--------------------------- MODULE FatReadProofs ---------------------------
(***************************************************************************)
(* What a read puts in its buffer, for sectors and clusters of any size,   *)
(* any chain of entries and any request.                                   *)
(***************************************************************************)
EXTENDS FatRead, TLAPS, WellFoundedInduction

ReadTypeOK ==
  /\ words \in [Clusters -> Clusters \cup {REFUSED}]
  /\ pc \in {"locate", "sector", "advance", "done"}
  /\ cluster \in Clusters /\ ahead \in Nat
  /\ request \in Requests
  /\ item \in Nat /\ offset \in Nat /\ response \in Int
  /\ stream_pos \in Int /\ out \in Seq(Int)

(***************************************************************************)
(* The counters of the three loops: while the read goes on there is an item*)
(* to fill, and a chunk is never longer than what is left of it.           *)
(***************************************************************************)
Counters ==
  /\ pc # "done" => item < request.nmemb /\ total \in 1 .. request.size
                    /\ response = 0
  /\ pc \in {"sector", "advance"} => chunk \in 1 .. total
  /\ pc = "sector" => left \in 0 .. chunk

RInv == ReadTypeOK /\ Counters /\ BufferIsFilled

-----------------------------------------------------------------------------
(* A cluster is at least a byte long. *)
LEMMA ClusterSizePositive == ClusterSize \in Nat \ {0}
BY FatReadAssumption, SectorSizeAssumption DEF ClusterSize

(* Where an offset leads in a cluster, and how many entries away that is.  *)
LEMMA PositionType ==
  ASSUME NEW c \in Clusters, NEW o \in Nat
  PROVE  PositionIn(c, o) \in Int /\ o \div ClusterSize \in Nat
<1>1. fat16_cluster_to_sector(c) \in Int
  BY FatReadAssumption DEF fat16_cluster_to_sector
<1>2. fat16_cluster_to_sector(c) * SectorSize \in Int
  BY <1>1, SectorSizeAssumption
<1>3. o % ClusterSize \in Int /\ o \div ClusterSize \in Nat
  BY ClusterSizePositive
<1>. QED BY <1>2, <1>3 DEF PositionIn

(* The next item starts where the one before it ends. *)
LEMMA NextItem ==
  ASSUME NEW n \in Nat, NEW s \in Nat
  PROVE  (n + 1) * s = n * s + s /\ n * s \in Nat
OBVIOUS

(* An item of a request ends inside of it. *)
LEMMA ItemInRequest ==
  ASSUME NEW n \in Nat, NEW m \in Nat, NEW s \in Nat, n < m
  PROVE  n * s + s <= m * s
<1>1. PICK d \in Nat : m = n + 1 + d
  <2>1. m - n - 1 \in Nat /\ m = n + 1 + (m - n - 1)
    OBVIOUS
  <2>. QED BY <2>1
<1>2. m * s = n * s + s + d * s /\ d * s \in Nat /\ n * s \in Nat
  BY <1>1
<1>. QED BY <1>2

(***************************************************************************)
(* What a sector contributes is never more than what is left, and all of it*)
(* when the read ends in the sector.                                       *)
(***************************************************************************)
LEMMA SectorBounds ==
  ASSUME stream_pos \in Int, left \in Nat
  PROVE  FromSector \in 0 .. left /\ (~ Overflow => FromSector = left)
<1>1. stream_pos % SectorSize \in 0 .. SectorSize - 1
  BY SectorSizeAssumption
<1>. QED BY <1>1, SectorSizeAssumption DEF FromSector, Overflow

(* The buffer grows by as many bytes as were copied. *)
LEMMA CopiedLength ==
  ASSUME out \in Seq(Int), stream_pos \in Int, NEW n \in Nat
  PROVE  /\ out \o Copied(n) \in Seq(Int)
         /\ Len(out \o Copied(n)) = Len(out) + n
<1>1. Copied(n) \in Seq(Int) /\ Len(Copied(n)) = n
  BY DEF Copied
<1>. QED BY <1>1

(* A request asks for something, and its product is a number. *)
LEMMA RequestType ==
  ASSUME ReadTypeOK
  PROVE  request.size \in Nat \ {0} /\ request.nmemb \in Nat \ {0}
BY FatReadAssumption DEF ReadTypeOK

-----------------------------------------------------------------------------
(* Nothing is read and nothing is in the buffer. *)
LEMMA InitRInv == Init => RInv
<1>. SUFFICES ASSUME Init PROVE RInv
  OBVIOUS
<1>1. request.size \in Nat \ {0} /\ request.nmemb \in Nat \ {0}
  BY FatReadAssumption DEF Init
<1>2. ReadTypeOK
  BY FatReadAssumption DEF Init, ReadTypeOK
<1>3. Counters
  BY <1>1 DEF Init, Counters
<1>4. BufferIsFilled
  <2>1. Len(out) = 0 /\ Behind = 0 * request.size + (request.size - request.size)
    BY DEF Init, Behind
  <2>2. 0 * request.size = 0 /\ request.nmemb * request.size \in Nat
    BY <1>1
  <2>. QED BY <1>1, <2>1, <2>2 DEF Init, BufferIsFilled
<1>. QED BY <1>2, <1>3, <1>4 DEF RInv

(* An entry of the chain is followed, or ends the read with an error. *)
LEMMA FollowInductive ==
  ASSUME RInv, FollowEntry
  PROVE  RInv'
<1>1. ReadTypeOK'
  BY DEF RInv, ReadTypeOK, FollowEntry
<1>2. Counters'
  BY DEF RInv, Counters, FollowEntry
<1>3. Behind' = Len(out')
  BY DEF RInv, BufferIsFilled, Behind, FollowEntry
<1>4. BufferIsFilled'
  BY <1>3 DEF RInv, Counters, BufferIsFilled, FollowEntry
<1>. QED BY <1>1, <1>2, <1>4 DEF RInv

(* A chunk begins: as much of it is left as it is long. *)
LEMMA LocateInductive ==
  ASSUME RInv, Locate
  PROVE  RInv'
<1>1. /\ pc = "locate" /\ pc' = "sector"
      /\ stream_pos' = PositionIn(cluster, offset)
      /\ chunk' = Smaller(total, ClusterSize) /\ left' = chunk'
      /\ UNCHANGED <<out, words, cluster, ahead, request, item, offset, total,
                     response>>
  BY DEF Locate, diskstreamer_seek
<1>2. stream_pos' \in Int
  BY <1>1, PositionType DEF RInv, ReadTypeOK
<1>3. ReadTypeOK'
  BY <1>1, <1>2 DEF RInv, ReadTypeOK
<1>4. total \in 1 .. request.size
  BY <1>1 DEF RInv, Counters
<1>5. chunk' \in 1 .. total
  BY <1>1, <1>4, ClusterSizePositive, RequestType DEF Smaller, RInv
<1>6. Counters'
  BY <1>1, <1>4, <1>5 DEF RInv, Counters
<1>7. item * request.size \in Nat
  BY NextItem, RequestType DEF RInv, ReadTypeOK
<1>8. Behind' = Behind
  BY <1>1, <1>4, <1>5, <1>7, RequestType DEF Behind, RInv
<1>9. BufferIsFilled'
  BY <1>1, <1>8 DEF RInv, BufferIsFilled
<1>. QED BY <1>3, <1>6, <1>9 DEF RInv

(* What a sector contributes is taken off what is left. *)
LEMMA SectorInductive ==
  ASSUME RInv, Sector
  PROVE  RInv'
<1>1. /\ pc = "sector" /\ pc' = IF Overflow THEN "sector" ELSE "advance"
      /\ out' = out \o Copied(FromSector)
      /\ stream_pos' = stream_pos + FromSector
      /\ left' = left - FromSector
      /\ UNCHANGED <<words, cluster, ahead, request, item, offset, total, chunk,
                     response>>
  BY DEF Sector, ReadSector
<1>2. /\ total \in 1 .. request.size /\ chunk \in 1 .. total /\ left \in 0 .. chunk
      /\ item < request.nmemb /\ response = 0
  BY <1>1 DEF RInv, Counters
<1>3. /\ request.size \in Nat /\ request.nmemb \in Nat
      /\ stream_pos \in Int /\ out \in Seq(Int) /\ item \in Nat
  BY RequestType DEF RInv, ReadTypeOK
<1>4. left \in Nat
  BY <1>2
<1>5. FromSector \in 0 .. left /\ (~ Overflow => FromSector = left)
  BY <1>3, <1>4, SectorBounds
<1>6. FromSector \in Nat
  BY <1>4, <1>5
<1>7. out' \in Seq(Int) /\ Len(out') = Len(out) + FromSector
  BY <1>1, <1>3, <1>6, CopiedLength
<1>8. ReadTypeOK'
  BY <1>1, <1>3, <1>6, <1>7 DEF RInv, ReadTypeOK
<1>9. Counters'
  BY <1>1, <1>2, <1>5 DEF Counters
<1>10. PICK base \in Nat : base = item * request.size
  BY <1>3
<1>11. Behind = base + (request.size - total) + (chunk - left)
  BY <1>1, <1>10 DEF Behind
<1>12. Behind' = Behind + FromSector
  <2>1. CASE Overflow
    <3>1. Behind' = base + (request.size - total) + (chunk - (left - FromSector))
      BY <1>1, <1>10, <2>1 DEF Behind
    <3>. QED BY <1>2, <1>3, <1>4, <1>6, <1>11, <3>1
  <2>2. CASE ~ Overflow
    <3>1. Behind' = base + (request.size - total) + chunk
      BY <1>1, <1>10, <2>2 DEF Behind
    <3>. QED BY <1>2, <1>3, <1>4, <1>5, <1>11, <2>2, <3>1
  <2>. QED BY <2>1, <2>2
<1>13. Len(out') = Behind'
  BY <1>7, <1>12 DEF RInv, BufferIsFilled
<1>14. Behind' <= base + request.size
  BY <1>2, <1>3, <1>4, <1>5, <1>11, <1>12
<1>15. base + request.size <= request.nmemb * request.size
  BY <1>2, <1>3, <1>10, ItemInRequest
<1>16. BufferIsFilled'
  <2>0. Len(out') \in Nat /\ base + request.size \in Nat
    BY <1>3, <1>7
  <2>1. request.nmemb * request.size \in Nat
    BY <1>3
  <2>2. Len(out') <= request.nmemb * request.size
    BY <1>13, <1>14, <1>15, <2>0, <2>1
  <2>. QED BY <1>1, <1>2, <1>13, <2>2 DEF BufferIsFilled
<1>. QED BY <1>8, <1>9, <1>16 DEF RInv

(* The next chunk, the next item, or the end. *)
LEMMA AdvanceInductive ==
  ASSUME RInv, Advance
  PROVE  RInv'
<1>1. /\ pc = "advance"
      /\ UNCHANGED <<stream_pos, left, out, words, request, chunk>>
  BY DEF Advance
<1>2. /\ total \in 1 .. request.size /\ chunk \in 1 .. total
      /\ item < request.nmemb /\ response = 0
  BY <1>1 DEF RInv, Counters
<1>3. /\ request.size \in Nat \ {0} /\ request.nmemb \in Nat \ {0}
      /\ offset \in Nat /\ item \in Nat /\ total \in Nat /\ chunk \in Nat
  BY <1>2, RequestType DEF RInv, ReadTypeOK
<1>4. /\ item * request.size \in Nat
      /\ (item + 1) * request.size = item * request.size + request.size
      /\ (item + 1) * request.size \in Nat
      /\ request.nmemb * request.size \in Nat
  BY <1>3
<1>5. /\ Len(out) = item * request.size + (request.size - total) + chunk
      /\ Len(out) <= request.nmemb * request.size
  BY <1>1 DEF RInv, BufferIsFilled, Behind
<1>6. CASE /\ MoreLeft
           /\ total' = total - chunk
           /\ Start(offset + chunk)
           /\ UNCHANGED <<item, response>>
  <2>1. /\ total > chunk /\ total' = total - chunk
        /\ pc' = "locate" /\ offset' = offset + chunk /\ cluster' = First
        /\ ahead' = (offset + chunk) \div ClusterSize
    BY <1>6 DEF MoreLeft, Start
  <2>2. offset + chunk \in Nat
    BY <1>3
  <2>3. ahead' \in Nat /\ First \in Clusters
    BY <2>1, <2>2, PositionType, FatReadAssumption
  <2>4. ReadTypeOK'
    BY <1>1, <1>6, <2>1, <2>2, <2>3 DEF RInv, ReadTypeOK
  <2>5. total' \in 1 .. request.size
    BY <1>2, <1>3, <2>1
  <2>6. Counters'
    BY <1>1, <1>2, <1>6, <2>1, <2>5 DEF Counters
  <2>7. Behind' = item * request.size + (request.size - (total - chunk))
    BY <1>1, <1>6, <2>1 DEF Behind
  <2>8. Behind' = Len(out)
    <3>1. PICK base \in Nat : base = item * request.size
      BY <1>4
    <3>2. /\ Behind' = base + (request.size - (total - chunk))
          /\ Len(out) = base + (request.size - total) + chunk
      BY <1>5, <2>7, <3>1
    <3>. QED BY <1>3, <3>2
  <2>9. BufferIsFilled'
    BY <1>1, <1>2, <1>5, <1>6, <2>8 DEF BufferIsFilled
  <2>. QED BY <2>4, <2>6, <2>9 DEF RInv
<1>7. CASE /\ ~ MoreLeft /\ item + 1 < request.nmemb
           /\ item' = item + 1
           /\ total' = request.size
           /\ Start(item' * request.size)
           /\ UNCHANGED response
  <2>1. /\ ~ (total > chunk) /\ item' = item + 1 /\ total' = request.size
        /\ pc' = "locate" /\ cluster' = First
        /\ offset' = (item + 1) * request.size
        /\ ahead' = ((item + 1) * request.size) \div ClusterSize
    BY <1>7 DEF MoreLeft, Start
  <2>2. ahead' \in Nat /\ First \in Clusters
    BY <1>4, <2>1, PositionType, FatReadAssumption
  <2>3. ReadTypeOK'
    BY <1>1, <1>3, <1>4, <1>7, <2>1, <2>2 DEF RInv, ReadTypeOK
  <2>4. Counters'
    BY <1>1, <1>2, <1>3, <1>7, <2>1 DEF Counters
  <2>5. Behind' = (item + 1) * request.size + (request.size - request.size)
    BY <1>1, <2>1 DEF Behind
  <2>6. Behind' = Len(out)
    BY <1>2, <1>3, <1>4, <1>5, <2>1, <2>5
  <2>7. BufferIsFilled'
    BY <1>1, <1>2, <1>5, <1>7, <2>6 DEF BufferIsFilled
  <2>. QED BY <2>3, <2>4, <2>7 DEF RInv
<1>8. CASE /\ ~ MoreLeft /\ item + 1 = request.nmemb
           /\ item' = item + 1
           /\ response' = request.nmemb
           /\ pc' = "done"
           /\ UNCHANGED <<cluster, ahead, offset, total>>
  <2>1. ReadTypeOK'
    BY <1>1, <1>3, <1>8 DEF RInv, ReadTypeOK
  <2>2. Counters'
    BY <1>8 DEF Counters
  <2>3. Len(out) = (item + 1) * request.size
    BY <1>2, <1>3, <1>4, <1>5, <1>8 DEF MoreLeft
  <2>4. Len(out) = request.nmemb * request.size
    BY <1>8, <2>3
  <2>5. BufferIsFilled'
    BY <1>1, <1>5, <1>8, <2>4 DEF BufferIsFilled, Behind
  <2>. QED BY <2>1, <2>2, <2>5 DEF RInv
<1>. QED BY <1>6, <1>7, <1>8 DEF Advance

(* Every step keeps the invariant. *)
LEMMA RInvInductive ==
  ASSUME RInv, [Next]_vars
  PROVE  RInv'
<1>1. CASE UNCHANGED vars
  BY <1>1 DEF vars, RInv, ReadTypeOK, Counters, BufferIsFilled, Behind
<1>2. CASE Next
  BY <1>2, FollowInductive, LocateInductive, SectorInductive, AdvanceInductive
     DEF Next
<1>. QED BY <1>1, <1>2

-----------------------------------------------------------------------------
(* The invariant holds of every execution. *)
THEOREM ReadInvariant == Spec => []RInv
<1>1. RInv /\ [Next]_vars => RInv'
  BY RInvInductive
<1>. QED BY InitRInv, <1>1, PTL DEF Spec

(***************************************************************************)
(* A read delivers the bytes of its request without a gap, never one more, *)
(* and all of them when it reports success, however items, clusters and    *)
(* sectors divide it.                                                      *)
(***************************************************************************)
THEOREM ReadFillsBuffer == Spec => []BufferIsFilled
<1>1. RInv => BufferIsFilled
  BY DEF RInv
<1>. QED BY <1>1, ReadInvariant, PTL

-----------------------------------------------------------------------------
(* Induction over an interval, with the property as a set. *)
LEMMA IntervalInduction ==
  ASSUME NEW n \in Nat, NEW P, 0 \in P, \A i \in 1 .. n : i - 1 \in P => i \in P
  PROVE  \A i \in 0 .. n : i \in P
<1>. DEFINE T == {i \in 0 .. n : i \notin P}
<1>1. ASSUME T # {} PROVE FALSE
  <2>1. PICK m \in T : \A y \in T : ~ (<<y, m>> \in OpToRel(<, Nat))
    <3>1. T \subseteq Nat
      OBVIOUS
    <3>. QED BY <1>1, <3>1, NatLessThanWellFounded, WFMin
  <2>2. m \in 1 .. n /\ m - 1 \in 0 .. n /\ m \notin P
    OBVIOUS
  <2>3. m - 1 \notin T
    <3>1. <<m - 1, m>> \in OpToRel(<, Nat)
      <4>1. <<m - 1, m>> \in Nat \X Nat /\ m - 1 < m
        BY <2>2
      <4>. QED BY <4>1 DEF OpToRel
    <3>. QED BY <2>1, <3>1
  <2>. QED BY <2>2, <2>3
<1>. QED BY <1>1

(* The entry behind an entry of a chain. *)
After(w, c) == IF c = REFUSED THEN REFUSED ELSE w[c]

(* The first entries of the chain in w, and where they lead. *)
ChainSteps(w, g, n) ==
  /\ g \in [0 .. n -> Clusters \cup {REFUSED}]
  /\ g[0] = First
  /\ \A i \in 1 .. n : g[i] = After(w, g[i - 1])

LEMMA AfterType ==
  ASSUME NEW w \in [Clusters -> Clusters \cup {REFUSED}],
         NEW c \in Clusters \cup {REFUSED}
  PROVE  After(w, c) \in Clusters \cup {REFUSED}
BY DEF After

(* A chain can be followed as far as one likes. *)
LEMMA ChainExists ==
  ASSUME NEW w \in [Clusters -> Clusters \cup {REFUSED}], NEW n \in Nat
  PROVE  \E g : ChainSteps(w, g, n)
<1>. DEFINE P == {k \in 0 .. n : \E g : ChainSteps(w, g, k)}
<1>1. 0 \in P
  <2>. DEFINE g == [i \in 0 .. 0 |-> First]
  <2>1. g \in [0 .. 0 -> Clusters \cup {REFUSED}] /\ g[0] = First /\ 1 .. 0 = {}
    BY FatReadAssumption
  <2>2. ChainSteps(w, g, 0)
    BY <2>1 DEF ChainSteps
  <2>. QED BY <2>2
<1>2. ASSUME NEW k \in 1 .. n, NEW g, ChainSteps(w, g, k - 1)
      PROVE  \E h : ChainSteps(w, h, k)
  <2>. DEFINE h == [i \in 0 .. k |-> IF i = k THEN After(w, g[k - 1]) ELSE g[i]]
  <2>1. /\ g \in [0 .. k - 1 -> Clusters \cup {REFUSED}] /\ g[0] = First
        /\ \A i \in 1 .. k - 1 : g[i] = After(w, g[i - 1])
    BY <1>2 DEF ChainSteps
  <2>2. After(w, g[k - 1]) \in Clusters \cup {REFUSED}
    <3>1. g[k - 1] \in Clusters \cup {REFUSED}
      BY <2>1
    <3>. QED BY <3>1, AfterType
  <2>3. h \in [0 .. k -> Clusters \cup {REFUSED}] /\ h[0] = First
    BY <2>1, <2>2
  <2>4. ASSUME NEW i \in 1 .. k
        PROVE  h[i] = After(w, h[i - 1])
    <3>1. CASE i \in 1 .. k - 1
      BY <2>1, <3>1
    <3>2. CASE i = k
      BY <3>2
    <3>. QED BY <3>1, <3>2
  <2>5. ChainSteps(w, h, k)
    BY <2>3, <2>4 DEF ChainSteps
  <2>. QED BY <2>5
<1>3. \A k \in 1 .. n : k - 1 \in P => k \in P
  BY <1>2
<1>. HIDE DEF P
<1>4. n \in P
  BY <1>1, <1>3, IntervalInduction
<1>. QED BY <1>4 DEF P

(* Two ways to follow a chain agree as far as both go. *)
LEMMA ChainUnique ==
  ASSUME NEW w, NEW n \in Nat, NEW m \in Nat, n <= m,
         NEW g, ChainSteps(w, g, n), NEW h, ChainSteps(w, h, m)
  PROVE  \A i \in 0 .. n : g[i] = h[i]
<1>. DEFINE P == {i \in 0 .. n : g[i] = h[i]}
<1>1. 0 \in P
  BY DEF ChainSteps
<1>2. \A i \in 1 .. n : i - 1 \in P => i \in P
  BY DEF ChainSteps
<1>. HIDE DEF P
<1>3. \A i \in 0 .. n : i \in P
  BY <1>1, <1>2, IntervalInduction
<1>. QED BY <1>3 DEF P

(* Chain(n) is where following the entries leads. *)
LEMMA ChainFollows ==
  ASSUME words \in [Clusters -> Clusters \cup {REFUSED}], NEW n \in Nat
  PROVE  \E g : ChainSteps(words, g, n) /\ Chain(n) = g[n]
<1>. DEFINE Body(g) ==
       [i \in 0 .. n |->
          IF i = 0 THEN First
          ELSE IF g[i - 1] = REFUSED THEN REFUSED ELSE words[g[i - 1]]]
     after == CHOOSE g : g = Body(g)
<1>1. Chain(n) = after[n]
  BY Zenon DEF Chain
<1>2. PICK g : ChainSteps(words, g, n)
  BY ChainExists
<1>3. g = Body(g)
  BY <1>2 DEF ChainSteps, After
<1>. HIDE DEF Body
<1>4. after = Body(after)
  BY <1>3, Zenon
<1>. HIDE DEF after
<1>5. /\ after[0] = First
      /\ \A i \in 1 .. n : after[i] = After(words, after[i - 1])
  BY <1>4 DEF Body, After
<1>6. \A i \in 0 .. n : after[i] \in Clusters \cup {REFUSED}
  <2>. DEFINE P == {i \in 0 .. n : after[i] \in Clusters \cup {REFUSED}}
  <2>1. 0 \in P
    BY <1>5, FatReadAssumption
  <2>2. \A i \in 1 .. n : i - 1 \in P => i \in P
    BY <1>5, AfterType
  <2>. HIDE DEF P
  <2>3. \A i \in 0 .. n : i \in P
    BY <2>1, <2>2, IntervalInduction
  <2>. QED BY <2>3 DEF P
<1>7. after \in [0 .. n -> Clusters \cup {REFUSED}]
  BY <1>4, <1>6 DEF Body
<1>. QED BY <1>1, <1>5, <1>7 DEF ChainSteps

(* The chain begins with the first cluster, and each entry leads on. *)
LEMMA ChainStep ==
  ASSUME words \in [Clusters -> Clusters \cup {REFUSED}], NEW n \in Nat
  PROVE  /\ Chain(0) = First
         /\ Chain(n) \in Clusters \cup {REFUSED}
         /\ Chain(n + 1) = After(words, Chain(n))
<1>1. PICK g : ChainSteps(words, g, n) /\ Chain(n) = g[n]
  BY ChainFollows
<1>2. PICK h : ChainSteps(words, h, n + 1) /\ Chain(n + 1) = h[n + 1]
  BY ChainFollows
<1>3. PICK f : ChainSteps(words, f, 0) /\ Chain(0) = f[0]
  BY ChainFollows
<1>4. g[n] = h[n]
  BY <1>1, <1>2, ChainUnique
<1>5. h[n + 1] = After(words, h[n])
  <2>1. n + 1 \in 1 .. n + 1 /\ (n + 1) - 1 = n
    OBVIOUS
  <2>. QED BY <1>2, <2>1 DEF ChainSteps
<1>. QED BY <1>1, <1>2, <1>3, <1>4, <1>5 DEF ChainSteps

-----------------------------------------------------------------------------
(* Only one quotient and one remainder fit. *)
LEMMA DivMod ==
  ASSUME NEW n \in Nat \ {0}, NEW x \in Nat, NEW q \in Nat,
         NEW r \in 0 .. n - 1, x = q * n + r
  PROVE  x % n = r /\ x \div n = q
<1>1. PICK p \in Int, s \in 0 .. n - 1 :
        x = p * n + s /\ p = x \div n /\ s = x % n
  <2>1. /\ x \div n \in Int /\ x % n \in 0 .. n - 1
        /\ x = (x \div n) * n + (x % n)
    OBVIOUS
  <2>. QED BY <2>1
<1>2. PICK z \in Int, a \in Int, b \in Int :
        z = p - q /\ a = p * n /\ b = q * n /\ z * n = a - b
  OBVIOUS
<1>3. -n < a - b /\ a - b < n
  BY <1>1, <1>2
<1>4. z >= 1 => z * n >= n
  OBVIOUS
<1>5. z <= -1 => z * n <= -n
  OBVIOUS
<1>6. z = 0
  BY <1>2, <1>3, <1>4, <1>5
<1>. QED BY <1>1, <1>2, <1>6

(* The bytes of a cluster behind one of them are in the same cluster, as   *)
(* far behind it, and a cluster further the next one begins.               *)
LEMMA SameCluster ==
  ASSUME NEW o \in Nat, NEW d \in Nat, (o % ClusterSize) + d < ClusterSize
  PROVE  /\ (o + d) % ClusterSize = (o % ClusterSize) + d
         /\ (o + d) \div ClusterSize = o \div ClusterSize
<1>1. PICK n \in Nat \ {0} : n = ClusterSize
  BY ClusterSizePositive
<1>2. PICK q \in Nat, r \in 0 .. n - 1 :
        o = q * n + r /\ q = o \div n /\ r = o % n
  <2>1. o \div n \in Nat /\ o % n \in 0 .. n - 1 /\ o = (o \div n) * n + (o % n)
    OBVIOUS
  <2>. QED BY <2>1
<1>3. /\ r + d \in 0 .. n - 1 /\ o + d \in Nat
      /\ o + d = q * n + (r + d)
  <2>1. q * n \in Nat
    OBVIOUS
  <2>. QED BY <1>1, <1>2, <2>1
<1>4. (o + d) % n = r + d /\ (o + d) \div n = q
  BY <1>3, DivMod
<1>. QED BY <1>1, <1>2, <1>4

LEMMA NextCluster ==
  ASSUME NEW o \in Nat, o % ClusterSize = 0
  PROVE  (o + ClusterSize) % ClusterSize = 0
<1>1. PICK n \in Nat \ {0} : n = ClusterSize
  BY ClusterSizePositive
<1>2. PICK q \in Nat : o = q * n
  <2>1. o \div n \in Nat /\ o = (o \div n) * n + (o % n)
    OBVIOUS
  <2>. QED BY <1>1, <2>1
<1>3. o + n = (q + 1) * n + 0 /\ o + n \in Nat /\ q + 1 \in Nat /\ 0 \in 0 .. n - 1
  BY <1>2
<1>4. (o + n) % n = 0
  BY <1>3, DivMod
<1>. QED BY <1>1, <1>4

(* What was read does not depend on anything but the entries. *)
LEMMA ChainFixed ==
  ASSUME words' = words, NEW n \in Nat
  PROVE  Chain(n)' = Chain(n)
BY Zenon DEF Chain

(***************************************************************************)
(* Where the loops stand in the file: a chunk that would run over the end  *)
(* of its cluster begins with it, unless an item splits.                   *)
(***************************************************************************)
NothingSplits == \A k \in 0 .. request.nmemb - 1 : ~ Splits(k * request.size)

Position ==
  pc # "done" =>
    /\ offset = item * request.size + (request.size - total)
    /\ NothingSplits =>
         \/ offset % ClusterSize = 0
         \/ (offset % ClusterSize) + total <= ClusterSize

(* The cluster is the one the chain has for the offset, and the disk is    *)
(* read from where it has it.                                              *)
OnChain ==
  /\ pc = "locate" => /\ ahead <= offset \div ClusterSize
                      /\ cluster = Chain((offset \div ClusterSize) - ahead)
  /\ pc \in {"sector", "advance"} =>
       /\ cluster = Chain(offset \div ClusterSize)
       /\ chunk = Smaller(total, ClusterSize)
  /\ pc = "sector" => stream_pos = PositionIn(cluster, offset) + (chunk - left)

ChainInv == RInv /\ Position /\ OnChain /\ BytesFromChain


-----------------------------------------------------------------------------
(* The first chunk begins with the file. *)
LEMMA InitChain == Init => ChainInv
<1>. SUFFICES ASSUME Init PROVE ChainInv
  OBVIOUS
<1>1. RInv
  BY InitRInv
<1>2. 0 % ClusterSize = 0 /\ 0 \div ClusterSize = 0
  BY ClusterSizePositive
<1>3. Position
  <2>1. request.size \in Nat /\ 0 * request.size = 0
    BY FatReadAssumption DEF Init
  <2>. QED BY <1>2, <2>1 DEF Init, Position
<1>4. OnChain
  <2>1. Chain(0) = First
    BY ChainStep DEF Init
  <2>. QED BY <1>2, <2>1 DEF Init, OnChain
<1>5. BytesFromChain
  <2>1. 1 .. Len(out) = {}
    BY DEF Init
  <2>. QED BY <2>1 DEF BytesFromChain
<1>. QED BY <1>1, <1>3, <1>4, <1>5 DEF ChainInv

(* A byte that was read stays the one of the chain. *)
LEMMA BytesStay ==
  ASSUME BytesFromChain, RInv, UNCHANGED <<words, request, out>>
  PROVE  BytesFromChain'
<1>1. \A i \in 1 .. Len(out) : (i - 1) \div ClusterSize \in Nat
  BY ClusterSizePositive DEF RInv, ReadTypeOK
<1>2. \A i \in 1 .. Len(out) :
        Chain((i - 1) \div ClusterSize)' = Chain((i - 1) \div ClusterSize)
  BY <1>1, ChainFixed
<1>. QED BY <1>2 DEF BytesFromChain, Splits

(* Following an entry goes one down the chain. *)
LEMMA FollowChain ==
  ASSUME ChainInv, FollowEntry
  PROVE  ChainInv'
<1>1. RInv'
  BY FollowInductive DEF ChainInv
<1>2. /\ pc = "locate" /\ ahead > 0
      /\ UNCHANGED <<stream_pos, left, out, words, request, item, offset, total, chunk>>
      /\ \/ pc' = "done"
         \/ /\ words[cluster] # REFUSED /\ cluster' = words[cluster]
            /\ ahead' = ahead - 1 /\ pc' = pc
  BY DEF FollowEntry
<1>3. /\ ahead \in Nat /\ offset \in Nat /\ cluster \in Clusters
      /\ words \in [Clusters -> Clusters \cup {REFUSED}]
  BY DEF ChainInv, RInv, ReadTypeOK
<1>4. BytesFromChain'
  BY <1>2, BytesStay DEF ChainInv
<1>5. Position'
  BY <1>2 DEF ChainInv, Position, NothingSplits, Splits
<1>6. OnChain'
  <2>1. CASE pc' = "done"
    BY <2>1 DEF OnChain
  <2>2. CASE words[cluster] # REFUSED /\ cluster' = words[cluster]
             /\ ahead' = ahead - 1 /\ pc' = pc
    <3>1. PICK n \in Nat : n = (offset \div ClusterSize) - ahead
      <4>1. ahead <= offset \div ClusterSize /\ offset \div ClusterSize \in Int
        BY <1>2, <1>3, ClusterSizePositive DEF ChainInv, OnChain
      <4>2. (offset \div ClusterSize) - ahead \in Nat
        BY <1>3, <4>1
      <4>. QED BY <4>2
    <3>2. cluster = Chain(n)
      BY <1>2, <3>1 DEF ChainInv, OnChain
    <3>3. cluster' = Chain(n + 1)
      BY <1>3, <2>2, <3>2, ChainStep, FatReadAssumption DEF After
    <3>4. Chain(n + 1)' = Chain(n + 1)
      BY <1>2, ChainFixed
    <3>5. n + 1 = (offset' \div ClusterSize) - ahead'
          /\ ahead' <= offset' \div ClusterSize
      <4>1. PICK k \in Int : k = offset \div ClusterSize
        BY <1>3, ClusterSizePositive
      <4>. QED BY <1>2, <1>3, <2>2, <3>1, <4>1
    <3>. QED BY <1>2, <2>2, <3>3, <3>4, <3>5 DEF OnChain
  <2>. QED BY <1>2, <2>1, <2>2
<1>. QED BY <1>1, <1>4, <1>5, <1>6 DEF ChainInv

(* The disk is positioned in the cluster the chain has for the offset. *)
LEMMA LocateChain ==
  ASSUME ChainInv, Locate
  PROVE  ChainInv'
<1>1. RInv'
  BY LocateInductive DEF ChainInv
<1>2. /\ pc = "locate" /\ pc' = "sector" /\ ahead = 0
      /\ stream_pos' = PositionIn(cluster, offset)
      /\ chunk' = Smaller(total, ClusterSize) /\ left' = chunk'
      /\ UNCHANGED <<out, words, cluster, ahead, request, item, offset, total,
                     response>>
  BY DEF Locate, diskstreamer_seek
<1>3. BytesFromChain'
  BY <1>2, BytesStay DEF ChainInv
<1>4. Position'
  BY <1>2 DEF ChainInv, Position, NothingSplits, Splits
<1>5. OnChain'
  <2>1. offset \div ClusterSize \in Nat /\ offset \in Nat /\ cluster \in Clusters
    BY PositionType DEF ChainInv, RInv, ReadTypeOK
  <2>2. cluster = Chain(offset \div ClusterSize)
    BY <1>2, <2>1 DEF ChainInv, OnChain
  <2>3. Chain(offset \div ClusterSize)' = Chain(offset \div ClusterSize)
    BY <1>2, <2>1, ChainFixed
  <2>4. PositionIn(cluster, offset) \in Int
    BY <2>1, PositionType
  <2>5. chunk' \in Int
    BY <1>1, <1>2 DEF RInv, Counters
  <2>6. stream_pos' = PositionIn(cluster', offset') + (chunk' - left')
    BY <1>2, <2>4, <2>5
  <2>. QED BY <1>2, <2>2, <2>3, <2>6 DEF OnChain, PositionIn, fat16_cluster_to_sector
<1>. QED BY <1>1, <1>3, <1>4, <1>5 DEF ChainInv

(* No chunk runs over the end of its cluster. *)
LEMMA ChunkFits ==
  ASSUME ChainInv, NothingSplits, pc \in {"sector", "advance"}
  PROVE  chunk \in Nat /\ (offset % ClusterSize) + chunk <= ClusterSize
<1>1. chunk = Smaller(total, ClusterSize) /\ chunk \in 1 .. total
  BY DEF ChainInv, RInv, Counters, OnChain
<1>2. \/ offset % ClusterSize = 0
      \/ (offset % ClusterSize) + total <= ClusterSize
  BY DEF ChainInv, Position
<1>3. offset % ClusterSize \in Nat /\ total \in Nat /\ ClusterSize \in Nat
  BY ClusterSizePositive DEF ChainInv, RInv, ReadTypeOK, Counters
<1>. QED BY <1>1, <1>2, <1>3 DEF Smaller

(* A sector adds bytes of the cluster the chain has for them. *)
LEMMA SectorChain ==
  ASSUME ChainInv, Sector
  PROVE  ChainInv'
<1>1. RInv'
  BY SectorInductive DEF ChainInv
<1>2. /\ pc = "sector" /\ pc' = IF Overflow THEN "sector" ELSE "advance"
      /\ out' = out \o Copied(FromSector)
      /\ stream_pos' = stream_pos + FromSector
      /\ left' = left - FromSector
      /\ UNCHANGED <<words, cluster, ahead, request, item, offset, total, chunk,
                     response>>
  BY DEF Sector, ReadSector
<1>3. /\ total \in 1 .. request.size /\ chunk \in 1 .. total /\ left \in 0 .. chunk
      /\ stream_pos \in Int /\ out \in Seq(Int) /\ offset \in Nat
      /\ cluster \in Clusters /\ request.size \in Nat /\ item \in Nat
      /\ words \in [Clusters -> Clusters \cup {REFUSED}]
  BY <1>2, RequestType DEF ChainInv, RInv, Counters, ReadTypeOK
<1>4. /\ left \in Nat /\ chunk \in Nat /\ total \in Nat
      /\ FromSector \in 0 .. left /\ FromSector \in Nat
  <2>1. left \in Nat /\ chunk \in Nat /\ total \in Nat
    BY <1>3
  <2>. QED BY <1>3, <2>1, SectorBounds
<1>5. /\ cluster = Chain(offset \div ClusterSize)
      /\ chunk = Smaller(total, ClusterSize)
      /\ stream_pos = PositionIn(cluster, offset) + (chunk - left)
  BY <1>2 DEF ChainInv, OnChain
<1>6. offset \div ClusterSize \in Nat /\ PositionIn(cluster, offset) \in Int
  BY <1>3, PositionType
<1>7. Position'
  <2>1. pc # "done" /\ pc' # "done"
    BY <1>2
  <2>. QED BY <1>2, <2>1 DEF ChainInv, Position, NothingSplits, Splits
<1>8. OnChain'
  <2>1. Chain(offset \div ClusterSize)' = Chain(offset \div ClusterSize)
    BY <1>2, <1>6, ChainFixed
  <2>2. stream_pos' = PositionIn(cluster, offset) + (chunk' - left')
    <3>1. PICK a \in Int, n \in Nat : a = PositionIn(cluster, offset) /\ n = FromSector
      BY <1>4, <1>6
    <3>2. stream_pos = a + (chunk - left) /\ stream_pos' = stream_pos + n
          /\ left' = left - n /\ chunk' = chunk
      BY <1>2, <1>5, <3>1
    <3>3. chunk \in Int /\ left \in Int /\ stream_pos \in Int
      BY <1>3, <1>4
    <3>4. stream_pos' = a + (chunk' - left')
      BY <3>2, <3>3
    <3>. QED BY <3>1, <3>4
  <2>. QED BY <1>2, <1>5, <2>1, <2>2 DEF OnChain, PositionIn, fat16_cluster_to_sector
<1>9. BytesFromChain'
  <2>1. NothingSplits' <=> NothingSplits
    BY <1>2 DEF NothingSplits, Splits
  <2>2. SUFFICES ASSUME NothingSplits, NEW i \in 1 .. Len(out')
                 PROVE  /\ Chain((i - 1) \div ClusterSize)' # REFUSED
                        /\ out'[i] = PositionIn(Chain((i - 1) \div ClusterSize)', i - 1)
    BY <2>1 DEF BytesFromChain, NothingSplits, PositionIn, fat16_cluster_to_sector
  <2>3. i - 1 \in Nat /\ (i - 1) \div ClusterSize \in Nat
    <3>1. Len(out') \in Nat
      BY <1>1 DEF RInv, ReadTypeOK
    <3>2. i - 1 \in Nat
      BY <3>1
    <3>. QED BY <3>2, ClusterSizePositive
  <2>4. Chain((i - 1) \div ClusterSize)' = Chain((i - 1) \div ClusterSize)
    BY <1>2, <2>3, ChainFixed
  <2>5. CASE i \in 1 .. Len(out)
    <3>1. out'[i] = out[i]
      BY <1>2, <1>3, <1>4, <2>5 DEF Copied
    <3>. QED BY <2>2, <2>4, <2>5, <3>1 DEF ChainInv, BytesFromChain, NothingSplits
  <2>6. CASE i \notin 1 .. Len(out)
    <3>1. Len(out) = offset + (chunk - left)
      <4>1. offset = item * request.size + (request.size - total)
        BY <1>2 DEF ChainInv, Position
      <4>2. Len(out) = item * request.size + (request.size - total) + (chunk - left)
        BY <1>2 DEF ChainInv, RInv, BufferIsFilled, Behind
      <4>. QED BY <4>1, <4>2
    <3>2. PICK j \in 1 .. FromSector : i = Len(out) + j /\ out'[i] = stream_pos + j - 1
      <4>1. Copied(FromSector) \in Seq(Int) /\ Len(Copied(FromSector)) = FromSector
        BY <1>3, <1>4 DEF Copied
      <4>2. Len(out') = Len(out) + FromSector /\ Len(out) \in Nat
        BY <1>2, <1>3, <1>4, CopiedLength
      <4>3. i - Len(out) \in 1 .. FromSector /\ i = Len(out) + (i - Len(out))
        BY <1>4, <2>2, <2>6, <4>2
      <4>4. out'[i] = Copied(FromSector)[i - Len(out)]
        BY <1>2, <1>3, <4>1, <4>2, <4>3
      <4>. QED BY <4>3, <4>4 DEF Copied
    <3>3. PICK d \in Nat : d = (chunk - left) + (j - 1) /\ d < chunk
      <4>1. (chunk - left) + (j - 1) \in Nat /\ (chunk - left) + (j - 1) < chunk
        BY <1>3, <1>4, <3>2
      <4>. QED BY <4>1
    <3>4. i - 1 = offset + d
      BY <1>3, <1>4, <3>1, <3>2, <3>3
    <3>5. (offset % ClusterSize) + d < ClusterSize
      <4>1. chunk \in Nat /\ (offset % ClusterSize) + chunk <= ClusterSize
        BY <1>2, <2>2, ChunkFits
      <4>2. offset % ClusterSize \in Nat /\ ClusterSize \in Nat
        BY <1>3, ClusterSizePositive
      <4>. QED BY <3>3, <4>1, <4>2
    <3>6. /\ (i - 1) % ClusterSize = (offset % ClusterSize) + d
          /\ (i - 1) \div ClusterSize = offset \div ClusterSize
      BY <1>3, <3>4, <3>5, SameCluster
    <3>7. Chain((i - 1) \div ClusterSize) = cluster /\ cluster # REFUSED
      BY <1>3, <1>5, <3>6, FatReadAssumption
    <3>8. PositionIn(cluster, i - 1) = PositionIn(cluster, offset) + d
      <4>1. PICK b \in Int : b = fat16_cluster_to_sector(cluster) * SectorSize
        <5>1. fat16_cluster_to_sector(cluster) \in Int
          BY <1>3, FatReadAssumption DEF fat16_cluster_to_sector
        <5>2. fat16_cluster_to_sector(cluster) * SectorSize \in Int
          BY <5>1, SectorSizeAssumption
        <5>. QED BY <5>2
      <4>2. offset % ClusterSize \in Int
        BY <1>3, ClusterSizePositive
      <4>3. PositionIn(cluster, offset) = b + (offset % ClusterSize)
            /\ PositionIn(cluster, i - 1) = b + ((i - 1) % ClusterSize)
        BY <4>1 DEF PositionIn
      <4>. QED BY <3>3, <3>6, <4>1, <4>2, <4>3
    <3>9. out'[i] = PositionIn(cluster, offset) + d
      <4>1. PICK a \in Int : a = PositionIn(cluster, offset)
        BY <1>6
      <4>2. /\ stream_pos = a + (chunk - left) /\ out'[i] = stream_pos + j - 1
            /\ chunk \in Int /\ left \in Int /\ stream_pos \in Int /\ j \in Int
        BY <1>3, <1>4, <1>5, <3>2, <4>1
      <4>3. out'[i] = a + d
        BY <3>3, <4>2
      <4>. QED BY <4>1, <4>3
    <3>. QED BY <2>4, <3>7, <3>8, <3>9
  <2>. QED BY <2>5, <2>6
<1>. QED BY <1>1, <1>7, <1>8, <1>9 DEF ChainInv

(* The next chunk begins with a cluster, or with an item. *)
LEMMA AdvanceChain ==
  ASSUME ChainInv, Advance
  PROVE  ChainInv'
<1>1. RInv'
  BY AdvanceInductive DEF ChainInv
<1>2. /\ pc = "advance"
      /\ UNCHANGED <<stream_pos, left, out, words, request, chunk>>
  BY DEF Advance
<1>3. BytesFromChain'
  BY <1>2, BytesStay DEF ChainInv
<1>4. /\ total \in 1 .. request.size /\ chunk \in 1 .. total
      /\ request.size \in Nat /\ request.nmemb \in Nat
      /\ item < request.nmemb /\ offset \in Nat /\ item \in Nat
      /\ words \in [Clusters -> Clusters \cup {REFUSED}]
      /\ offset = item * request.size + (request.size - total)
      /\ chunk = Smaller(total, ClusterSize)
  BY <1>2, RequestType DEF ChainInv, RInv, Counters, ReadTypeOK, Position, OnChain
<1>5. NothingSplits' <=> NothingSplits
  BY <1>2 DEF NothingSplits, Splits
<1>6. ASSUME NEW o \in Nat, Start(o)
      PROVE  OnChain'
  <2>1. /\ pc' = "locate" /\ offset' = o /\ cluster' = First
        /\ ahead' = o \div ClusterSize
    BY <1>6 DEF Start
  <2>2. Chain(0)' = First
    BY <1>2, <1>4, ChainFixed, ChainStep
  <2>3. (offset' \div ClusterSize) - ahead' = 0 /\ ahead' <= offset' \div ClusterSize
    <3>1. PICK k \in Int : k = o \div ClusterSize
      BY ClusterSizePositive
    <3>. QED BY <2>1, <3>1
  <2>. QED BY <2>1, <2>2, <2>3 DEF OnChain
<1>7. CASE /\ MoreLeft
           /\ total' = total - chunk
           /\ Start(offset + chunk)
           /\ UNCHANGED <<item, response>>
  <2>1. /\ total > chunk /\ total' = total - chunk /\ item' = item
        /\ pc' = "locate" /\ offset' = offset + chunk
    BY <1>7 DEF MoreLeft, Start
  <2>2. OnChain'
    <3>1. offset + chunk \in Nat
      BY <1>4
    <3>. QED BY <1>6, <1>7, <3>1
  <2>3. chunk = ClusterSize /\ ClusterSize \in Nat \ {0}
    BY <1>4, <2>1, ClusterSizePositive DEF Smaller
  <2>4. NothingSplits => offset' % ClusterSize = 0
    <3>1. SUFFICES ASSUME NothingSplits PROVE offset % ClusterSize = 0
      BY <1>4, <2>1, <2>3, NextCluster
    <3>2. \/ offset % ClusterSize = 0
          \/ (offset % ClusterSize) + total <= ClusterSize
      BY <1>2, <3>1 DEF ChainInv, Position
    <3>3. offset % ClusterSize \in Nat /\ total \in Nat
      BY <1>4, <2>3
    <3>. QED BY <2>1, <2>3, <3>2, <3>3
  <2>5. offset' = item' * request.size + (request.size - total')
    <3>1. PICK base \in Nat : base = item * request.size
      BY <1>4
    <3>. QED BY <1>4, <2>1, <3>1
  <2>6. Position'
    BY <1>2, <1>5, <2>4, <2>5 DEF Position
  <2>. QED BY <1>1, <1>3, <2>2, <2>6 DEF ChainInv
<1>8. CASE /\ ~ MoreLeft /\ item + 1 < request.nmemb
           /\ item' = item + 1
           /\ total' = request.size
           /\ Start(item' * request.size)
           /\ UNCHANGED response
  <2>1. /\ item' = item + 1 /\ total' = request.size
        /\ pc' = "locate" /\ offset' = (item + 1) * request.size
    BY <1>8 DEF Start
  <2>2. (item + 1) * request.size \in Nat
    BY <1>4
  <2>3. OnChain'
    BY <1>6, <1>8, <2>1, <2>2
  <2>4. NothingSplits => \/ offset' % ClusterSize = 0
                         \/ (offset' % ClusterSize) + total' <= ClusterSize
    <3>1. SUFFICES ASSUME NothingSplits
                   PROVE  \/ offset' % ClusterSize = 0
                          \/ (offset' % ClusterSize) + total' <= ClusterSize
      OBVIOUS
    <3>2. item + 1 \in 0 .. request.nmemb - 1
      BY <1>4, <1>8
    <3>3. ~ Splits((item + 1) * request.size)
      BY <3>1, <3>2 DEF NothingSplits
    <3>4. offset' % ClusterSize \in Nat /\ ClusterSize \in Nat
      BY <2>1, <2>2, ClusterSizePositive
    <3>. QED BY <1>4, <2>1, <3>3, <3>4 DEF Splits
  <2>5. offset' = item' * request.size + (request.size - total')
    BY <1>4, <2>1, <2>2
  <2>6. Position'
    BY <1>2, <1>5, <2>4, <2>5 DEF Position
  <2>. QED BY <1>1, <1>3, <2>3, <2>6 DEF ChainInv
<1>9. CASE /\ ~ MoreLeft /\ item + 1 = request.nmemb
           /\ item' = item + 1
           /\ response' = request.nmemb
           /\ pc' = "done"
           /\ UNCHANGED <<cluster, ahead, offset, total>>
  BY <1>1, <1>3, <1>9 DEF ChainInv, Position, OnChain
<1>. QED BY <1>7, <1>8, <1>9 DEF Advance

(* Every step keeps the reader on the chain. *)
LEMMA ChainInductive ==
  ASSUME ChainInv, [Next]_vars
  PROVE  ChainInv'
<1>1. CASE UNCHANGED vars
  <2>1. UNCHANGED <<stream_pos, left, out, words, pc, cluster, ahead, request, item,
                    offset, total, chunk, response>>
    BY <1>1 DEF vars
  <2>2. RInv'
    BY RInvInductive DEF ChainInv
  <2>3. BytesFromChain'
    BY <2>1, BytesStay DEF ChainInv
  <2>4. Position'
    BY <2>1 DEF ChainInv, Position, NothingSplits, Splits
  <2>5. OnChain'
    <3>1. offset \div ClusterSize \in Nat /\ ahead \in Nat
      BY PositionType DEF ChainInv, RInv, ReadTypeOK
    <3>2. Chain(offset \div ClusterSize)' = Chain(offset \div ClusterSize)
      BY <2>1, <3>1, ChainFixed
    <3>3. ahead <= offset \div ClusterSize
            => Chain((offset \div ClusterSize) - ahead)'
                 = Chain((offset \div ClusterSize) - ahead)
      <4>1. ahead <= offset \div ClusterSize => (offset \div ClusterSize) - ahead \in Nat
        BY <3>1
      <4>. QED BY <2>1, <4>1, ChainFixed
    <3>. QED BY <2>1, <3>2, <3>3
             DEF ChainInv, OnChain, PositionIn, fat16_cluster_to_sector
  <2>. QED BY <2>2, <2>3, <2>4, <2>5 DEF ChainInv
<1>2. CASE Next
  BY <1>2, FollowChain, LocateChain, SectorChain, AdvanceChain DEF Next
<1>. QED BY <1>1, <1>2

(* The reader is on the chain in every execution. *)
THEOREM ReadOnChain == Spec => []ChainInv
<1>1. ChainInv /\ [Next]_vars => ChainInv'
  BY ChainInductive
<1>. QED BY InitChain, <1>1, PTL DEF Spec

(***************************************************************************)
(* As long as no item splits, every byte that fat16_read puts in the buffer*)
(* is the one of the cluster the entries lead to, however long the chain,  *)
(* also when it turns back on itself or ends in the middle of the read.    *)
(***************************************************************************)
THEOREM ReadBytesFromChain == Spec => []BytesFromChain
<1>1. ChainInv => BytesFromChain
  BY DEF ChainInv
<1>. QED BY <1>1, ReadOnChain, PTL
=============================================================================
