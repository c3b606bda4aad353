---------------------------- MODULE FatOpenProofs ----------------------------
(***************************************************************************)
(* Opening a file, for any directory, any path and any widths of its       *)
(* fields: the path is taken apart at its slashes, the file found is the   *)
(* one named, and what is lost is what is named like it.                   *)
(***************************************************************************)
EXTENDS FatOpen, TLAPS, WellFoundedInduction

Words == Seq(Chars)

-----------------------------------------------------------------------------
(* From 0 on, one at a time. *)
LEMMA IntervalInduction ==
  ASSUME NEW n \in Nat, NEW P, 0 \in P, \A k \in 1 .. n : k - 1 \in P => k \in P
  PROVE  \A k \in 0 .. n : k \in P
<1>. DEFINE T == {k \in 0 .. n : k \notin P}
<1>1. ASSUME T # {} PROVE FALSE
  <2>1. PICK m \in T : \A y \in T : ~ (<<y, m>> \in OpToRel(<, Nat))
    <3>1. T \subseteq Nat
      OBVIOUS
    <3>. QED BY <1>1, <3>1, NatLessThanWellFounded, WFMin
  <2>2. m \in 1 .. n /\ m - 1 \in 0 .. n /\ m \notin P
    OBVIOUS
  <2>3. m - 1 \notin T
    <3>1. <<m - 1, m>> \in OpToRel(<, Nat)
      <4>1. <<m - 1, m>> \in Nat \X Nat /\ m - 1 < m
        BY <2>2
      <4>. QED BY <4>1 DEF OpToRel
    <3>. QED BY <2>1, <3>1
  <2>. QED BY <2>2, <2>3
<1>. QED BY <1>1

(* The smallest of some natural numbers. *)
LEMMA MinExists ==
  ASSUME NEW S, S \subseteq Nat, S # {}
  PROVE  Min(S) \in S /\ \A k \in S : Min(S) <= k
<1>1. PICK m \in S : \A y \in S : ~ (<<y, m>> \in OpToRel(<, Nat))
  BY NatLessThanWellFounded, WFMin
<1>2. ASSUME NEW y \in S
      PROVE  m <= y
  <2>1. CASE y < m
    <3>1. <<y, m>> \in Nat \X Nat
      OBVIOUS
    <3>2. <<y, m>> \in OpToRel(<, Nat)
      BY <2>1, <3>1 DEF OpToRel
    <3>. QED BY <1>1, <3>2
  <2>2. CASE ~ (y < m)
    BY <2>2
  <2>. QED BY <2>1, <2>2
<1>3. \E x \in S : \A y \in S : x =< y
  BY <1>2
<1>. QED BY <1>3, Zenon DEF Min

(* The largest element, where there is one. *)
LEMMA MaxIs ==
  ASSUME NEW S, S \subseteq Int, NEW m \in S, \A k \in S : k <= m
  PROVE  Max(S) = m
<1>1. \E x \in S : \A y \in S : x >= y
  OBVIOUS
<1>2. Max(S) \in S /\ \A y \in S : Max(S) >= y
  BY <1>1, Zenon DEF Max
<1>3. Max(S) \in Int /\ m \in Int /\ Max(S) >= m /\ Max(S) <= m
  BY <1>2
<1>. QED BY <1>3

-----------------------------------------------------------------------------
(* A part ends at the next slash or with the text. *)
LEMMA PartEnds ==
  ASSUME text \in Words, at \in Nat, at <= Len(text)
  PROVE  /\ PartEnd \in at + 1 .. Len(text) + 1
         /\ PartEnd <= Len(text) => text[PartEnd] = SLASH
         /\ \A k \in at + 1 .. PartEnd - 1 : text[k] # SLASH
<1>. DEFINE S == {k \in at + 1 .. Len(text) : text[k] = SLASH} \cup {Len(text) + 1}
<1>0. Len(text) \in Nat
  BY DEF Words
<1>1. S \subseteq Nat /\ S # {}
  BY <1>0
<1>2. PartEnd = Min(S)
  BY DEF PartEnd
<1>. HIDE DEF S
<1>3. PartEnd \in S /\ \A k \in S : PartEnd <= k
  BY <1>1, <1>2, MinExists
<1>. QED BY <1>0, <1>3 DEF S

(* The next part: what is between two slashes. *)
LEMMA NextPart ==
  ASSUME text \in Words, at \in Nat, at <= Len(text)
  PROVE  /\ pathparser_get_path_part \in Words
         /\ Len(pathparser_get_path_part) = PartEnd - 1 - at
         /\ \A k \in 1 .. PartEnd - 1 - at :
              pathparser_get_path_part[k] = text[at + k] /\ text[at + k] # SLASH
<1>1. PICK e \in at + 1 .. Len(text) + 1 :
        /\ e = PartEnd
        /\ \A k \in at + 1 .. e - 1 : text[k] # SLASH
  BY PartEnds
<1>2. Len(text) \in Nat
  BY DEF Words
<1>3. /\ SubSeq(text, at + 1, e - 1) \in Seq(Chars)
      /\ Len(SubSeq(text, at + 1, e - 1)) = e - 1 - at
      /\ \A k \in 1 .. e - 1 - at : SubSeq(text, at + 1, e - 1)[k] = text[at + k]
  BY <1>1, <1>2 DEF Words
<1>4. pathparser_get_path_part = SubSeq(text, at + 1, e - 1)
  BY <1>1 DEF pathparser_get_path_part
<1>5. \A k \in 1 .. e - 1 - at : at + k \in at + 1 .. e - 1
  BY <1>1, <1>2
<1>. QED BY <1>1, <1>3, <1>4, <1>5 DEF Words

-----------------------------------------------------------------------------
(* The parts joined one after the other. *)
Joins(ps, g, n) ==
  /\ g \in [0 .. n -> Words]
  /\ g[0] = <<>>
  /\ \A k \in 1 .. n : g[k] = g[k - 1] \o <<SLASH>> \o ps[k]

LEMMA JoinsExist ==
  ASSUME NEW ps \in Seq(Words), NEW n \in 0 .. Len(ps)
  PROVE  \E g : Joins(ps, g, n)
<1>. DEFINE P == {k \in 0 .. n : \E g : Joins(ps, g, k)}
<1>0. n \in Nat /\ n <= Len(ps) /\ SLASH \in Chars
  BY FatOpenAssumption
<1>1. 0 \in P
  <2>. DEFINE g == [k \in 0 .. 0 |-> <<>>]
  <2>1. g \in [0 .. 0 -> Words] /\ g[0] = <<>> /\ 1 .. 0 = {}
    BY DEF Words
  <2>2. Joins(ps, g, 0)
    BY <2>1 DEF Joins
  <2>. QED BY <1>0, <2>2
<1>2. ASSUME NEW k \in 1 .. n, NEW g, Joins(ps, g, k - 1)
      PROVE  \E h : Joins(ps, h, k)
  <2>. DEFINE w == g[k - 1] \o <<SLASH>> \o ps[k]
  <2>. DEFINE h == [j \in 0 .. k |-> IF j = k THEN w ELSE g[j]]
  <2>1. /\ g \in [0 .. k - 1 -> Words] /\ g[0] = <<>>
        /\ \A j \in 1 .. k - 1 : g[j] = g[j - 1] \o <<SLASH>> \o ps[j]
    BY <1>2 DEF Joins
  <2>2. w \in Words
    <3>1. g[k - 1] \in Words /\ ps[k] \in Words
      BY <1>0, <2>1
    <3>2. <<SLASH>> \in Words
      BY <1>0 DEF Words
    <3>. QED BY <3>1, <3>2 DEF Words
  <2>. HIDE DEF w
  <2>3. h \in [0 .. k -> Words] /\ h[0] = <<>>
    BY <1>0, <2>1, <2>2
  <2>4. h[k] = w /\ h[k - 1] = g[k - 1]
    BY <1>0
  <2>5. ASSUME NEW j \in 1 .. k
        PROVE  h[j] = h[j - 1] \o <<SLASH>> \o ps[j]
    <3>1. CASE j = k
      BY <2>4, <3>1 DEF w
    <3>2. CASE j # k
      <4>1. j \in 1 .. k - 1 /\ h[j] = g[j] /\ h[j - 1] = g[j - 1]
        BY <3>2
      <4>. QED BY <2>1, <4>1
    <3>. QED BY <3>1, <3>2
  <2>. HIDE DEF h
  <2>6. Joins(ps, h, k)
    BY <2>3, <2>5 DEF Joins
  <2>. QED BY <2>6
<1>3. \A k \in 1 .. n : k - 1 \in P => k \in P
  BY <1>2
<1>. HIDE DEF P
<1>4. n \in P
  BY <1>0, <1>1, <1>3, IntervalInduction
<1>. QED BY <1>4 DEF P

(* Joined is the last of them. *)
LEMMA JoinedLast ==
  ASSUME NEW ps \in Seq(Words), NEW g, Joins(ps, g, Len(ps))
  PROVE  Joined(ps) = g[Len(ps)]
<1>. DEFINE n == Len(ps)
            Body(f) == [k \in 0 .. n |->
                          IF k = 0 THEN <<>> ELSE f[k - 1] \o <<SLASH>> \o ps[k]]
            upto == CHOOSE f : f = Body(f)
<1>0. n \in Nat
  OBVIOUS
<1>1. Joined(ps) = upto[n]
  BY Zenon DEF Joined
<1>. HIDE DEF n
<1>2. g = Body(g)
  BY <1>0 DEF Joins, n
<1>. HIDE DEF Body
<1>3. upto = Body(upto)
  BY <1>2, Zenon
<1>. HIDE DEF upto
<1>4. /\ upto[0] = <<>>
      /\ \A k \in 1 .. n : upto[k] = upto[k - 1] \o <<SLASH>> \o ps[k]
  BY <1>0, <1>3 DEF Body
<1>. DEFINE P == {k \in 0 .. n : upto[k] = g[k]}
<1>5. 0 \in P
  BY <1>0, <1>4 DEF Joins
<1>6. ASSUME NEW k \in 1 .. n, k - 1 \in P
      PROVE  k \in P
  <2>1. upto[k] = upto[k - 1] \o <<SLASH>> \o ps[k]
    BY <1>4
  <2>2. g[k] = g[k - 1] \o <<SLASH>> \o ps[k]
    BY DEF Joins, n
  <2>3. k \in 0 .. n /\ upto[k - 1] = g[k - 1]
    BY <1>0, <1>6
  <2>. HIDE DEF upto
  <2>. QED BY <2>1, <2>2, <2>3
<1>. HIDE DEF P
<1>7. \A k \in 0 .. n : k \in P
  BY <1>0, <1>5, <1>6, IntervalInduction, Zenon
<1>8. upto[n] = g[n]
  BY <1>0, <1>7 DEF P
<1>. QED BY <1>1, <1>8 DEF n

(* Nothing joined is empty. *)
LEMMA JoinedNone == Joined(<<>>) = <<>>
<1>1. <<>> \in Seq(Words) /\ Len(<<>>) = 0 /\ 0 \in 0 .. Len(<<>>)
  OBVIOUS
<1>2. PICK g : Joins(<<>>, g, 0)
  BY <1>1, JoinsExist, Zenon
<1>. QED BY <1>1, <1>2, JoinedLast DEF Joins

(* One more part: a slash and the part. *)
LEMMA JoinedMore ==
  ASSUME NEW ps \in Seq(Words), NEW p \in Words
  PROVE  /\ Joined(ps) \in Words
         /\ Joined(Append(ps, p)) = Joined(ps) \o <<SLASH>> \o p
<1>. DEFINE n == Len(ps)
            qs == Append(ps, p)
<1>1. n \in Nat /\ qs \in Seq(Words) /\ Len(qs) = n + 1
  OBVIOUS
<1>2. qs[n + 1] = p /\ \A k \in 1 .. n : qs[k] = ps[k]
  OBVIOUS
<1>. HIDE DEF qs
<1>3. PICK g : Joins(qs, g, n + 1)
  BY <1>1, JoinsExist
<1>4. Joined(qs) = g[n + 1]
  BY <1>1, <1>3, JoinedLast
<1>. DEFINE h == [k \in 0 .. n |-> g[k]]
<1>5. /\ g \in [0 .. n + 1 -> Words] /\ g[0] = <<>>
      /\ \A k \in 1 .. n + 1 : g[k] = g[k - 1] \o <<SLASH>> \o qs[k]
  BY <1>3 DEF Joins
<1>6. Joins(ps, h, n)
  <2>1. h \in [0 .. n -> Words] /\ h[0] = <<>>
    BY <1>1, <1>5
  <2>2. ASSUME NEW k \in 1 .. n
        PROVE  h[k] = h[k - 1] \o <<SLASH>> \o ps[k]
    <3>1. h[k] = g[k] /\ h[k - 1] = g[k - 1] /\ qs[k] = ps[k]
      BY <1>1, <1>2
    <3>2. k \in 1 .. n + 1
      BY <1>1
    <3>3. g[k] = g[k - 1] \o <<SLASH>> \o qs[k]
      BY <1>5, <3>2
    <3>. QED BY <3>1, <3>3
  <2>. HIDE DEF h
  <2>. QED BY <2>1, <2>2 DEF Joins
<1>7. Joined(ps) = h[n]
  BY <1>6, JoinedLast
<1>8. h[n] = g[n] /\ g[n] \in Words
  BY <1>1, <1>5
<1>9. g[n + 1] = g[n] \o <<SLASH>> \o p
  <2>1. n + 1 \in 1 .. n + 1 /\ (n + 1) - 1 = n
    BY <1>1
  <2>2. g[n + 1] = g[(n + 1) - 1] \o <<SLASH>> \o qs[n + 1]
    BY <1>5, <2>1
  <2>. QED BY <1>2, <2>1, <2>2
<1>. QED BY <1>4, <1>7, <1>8, <1>9 DEF qs

-----------------------------------------------------------------------------
(* The text that is accounted for: the drive and the parts so far. *)
Whole == <<text[1], COLON>> \o Joined(parts)

(***************************************************************************)
(* Between two parts the text accounted for is what is consumed but the    *)
(* slash behind it; the last part leaves nothing.                          *)
(***************************************************************************)
Split ==
  /\ ~ PathRefused
  /\ root = text[1]
  /\ at \in 3 .. Len(text)
  /\ parts \in Seq(Words)
  /\ \A k \in 1 .. Len(parts) : parts[k] # <<>> /\ SLASH \notin Range(parts[k])
  /\ Len(Whole) <= Len(text) /\ \A k \in 1 .. Len(Whole) : Whole[k] = text[k]
  /\ \/ Len(Whole) = at - 1 /\ text[at] = SLASH
     \/ Len(Whole) = Len(text) /\ at = Len(text)

(* The whole is a word with the drive in front. *)
LEMMA WholeIs ==
  ASSUME NEW ps \in Seq(Words), NEW c \in Chars, NEW d \in Chars
  PROVE  /\ <<c, d>> \o Joined(ps) \in Words
         /\ Len(<<c, d>> \o Joined(ps)) = 2 + Len(Joined(ps))
         /\ (<<c, d>> \o Joined(ps))[1] = c
         /\ (<<c, d>> \o Joined(ps))[2] = d
<1>1. Joined(ps) \in Seq(Chars)
  BY JoinedMore DEF Words
<1>2. <<c, d>> \in Seq(Chars) /\ Len(<<c, d>>) = 2
  OBVIOUS
<1>. QED BY <1>1, <1>2 DEF Words

(* One sequence behind the other, element by element. *)
Concat(s, t, r) ==
  /\ Len(r) = Len(s) + Len(t)
  /\ \A k \in 1 .. Len(s) : r[k] = s[k]
  /\ \A k \in 1 .. Len(t) : r[Len(s) + k] = t[k]

LEMMA Concats ==
  ASSUME NEW S, NEW s \in Seq(S), NEW t \in Seq(S)
  PROVE  s \o t \in Seq(S) /\ Concat(s, t, s \o t)
BY DEF Concat

(* What a further part adds to it. *)
Extended(w, p, v) ==
  /\ Len(w) \in Nat /\ Len(v) = Len(w) + 1 + Len(p)
  /\ \A k \in 1 .. Len(w) : v[k] = w[k]
  /\ v[Len(w) + 1] = SLASH
  /\ \A k \in 1 .. Len(p) : v[Len(w) + 1 + k] = p[k]

LEMMA WholeMore ==
  ASSUME NEW ps \in Seq(Words), NEW p \in Words, NEW c \in Chars, NEW d \in Chars
  PROVE  Extended(<<c, d>> \o Joined(ps), p, <<c, d>> \o Joined(Append(ps, p)))
<1>1. PICK j \in Seq(Chars) : j = Joined(ps)
  BY JoinedMore DEF Words
<1>2. PICK s \in Seq(Chars) : s = <<SLASH>> /\ Len(s) = 1 /\ s[1] = SLASH
  <2>1. <<SLASH>> \in Seq(Chars) /\ Len(<<SLASH>>) = 1 /\ <<SLASH>>[1] = SLASH
    BY FatOpenAssumption
  <2>. QED BY <2>1
<1>3. PICK u \in Seq(Chars) : u = <<c, d>> /\ Len(u) = 2
  <2>1. <<c, d>> \in Seq(Chars) /\ Len(<<c, d>>) = 2
    OBVIOUS
  <2>. QED BY <2>1
<1>4. p \in Seq(Chars)
  BY DEF Words
<1>5. PICK a \in Seq(Chars) : a = j \o s /\ Concat(j, s, a)
  BY Concats
<1>6. PICK b \in Seq(Chars) : b = a \o p /\ Concat(a, p, b)
  BY <1>4, Concats
<1>7. Joined(Append(ps, p)) = b
  BY <1>1, <1>2, <1>5, <1>6, JoinedMore
<1>8. PICK w \in Seq(Chars) : w = <<c, d>> \o Joined(ps) /\ Concat(u, j, w)
  BY <1>1, <1>3, Concats
<1>9. PICK v \in Seq(Chars) :
        v = <<c, d>> \o Joined(Append(ps, p)) /\ Concat(u, b, v)
  BY <1>3, <1>7, Concats
<1>10. /\ Len(w) \in Nat /\ Len(p) \in Nat /\ Len(j) \in Nat
       /\ Len(a) = Len(j) + 1 /\ Len(b) = Len(a) + Len(p)
       /\ Len(w) = 2 + Len(j) /\ Len(v) = 2 + Len(b)
  BY <1>2, <1>3, <1>4, <1>5, <1>6, <1>8, <1>9 DEF Concat
<1>11. ASSUME NEW k \in 1 .. Len(w)
       PROVE  v[k] = w[k]
  <2>1. CASE k <= 2
    <3>1. k \in 1 .. Len(u)
      BY <1>3, <2>1
    <3>. QED BY <1>8, <1>9, <3>1 DEF Concat
  <2>2. CASE k > 2
    <3>1. PICK m \in 1 .. Len(j) : k = 2 + m
      <4>1. k - 2 \in 1 .. Len(j) /\ k = 2 + (k - 2)
        BY <1>10, <2>2
      <4>. QED BY <4>1
    <3>2. m \in 1 .. Len(a) /\ m \in 1 .. Len(b)
      BY <1>10
    <3>3. w[2 + m] = j[m] /\ v[2 + m] = b[m]
      BY <1>3, <1>8, <1>9, <3>2 DEF Concat
    <3>4. b[m] = a[m] /\ a[m] = j[m]
      BY <1>5, <1>6, <3>2 DEF Concat
    <3>. QED BY <3>1, <3>3, <3>4
  <2>. QED BY <1>10, <2>1, <2>2
<1>12. v[Len(w) + 1] = SLASH
  <2>1. PICK m : m = Len(j) + 1 /\ m \in 1 .. Len(a) /\ m \in 1 .. Len(b)
                 /\ Len(w) + 1 = 2 + m
    BY <1>10
  <2>2. v[2 + m] = b[m] /\ b[m] = a[m]
    BY <1>3, <1>6, <1>9, <2>1 DEF Concat
  <2>3. 1 \in 1 .. Len(s)
    BY <1>2
  <2>4. a[Len(j) + 1] = s[1]
    BY <1>5, <2>3 DEF Concat
  <2>. QED BY <1>2, <2>1, <2>2, <2>4
<1>13. ASSUME NEW k \in 1 .. Len(p)
       PROVE  v[Len(w) + 1 + k] = p[k]
  <2>1. PICK m : m = Len(a) + k /\ m \in 1 .. Len(b) /\ Len(w) + 1 + k = 2 + m
    BY <1>10
  <2>2. v[2 + m] = b[m]
    BY <1>3, <1>9, <2>1 DEF Concat
  <2>3. b[Len(a) + k] = p[k]
    BY <1>6 DEF Concat
  <2>. QED BY <2>1, <2>2, <2>3
<1>14. Len(v) = Len(w) + 1 + Len(p)
  BY <1>10
<1>. QED BY <1>8, <1>9, <1>10, <1>11, <1>12, <1>13, <1>14 DEF Extended

(* The root leaves the slash that the first part begins behind. *)
LEMMA RootSplits ==
  ASSUME text \in Words, parts = <<>>, ~ PathRefused,
         root' = text[1], at' = 3, UNCHANGED <<text, parts>>
  PROVE  Split'
<1>1. /\ Len(text) \in Nat /\ Len(text) >= 3 /\ text[2] = COLON /\ text[3] = SLASH
      /\ text[1] \in Chars /\ text[2] \in Chars
  BY DEF PathRefused, pathparser_valid_format, Words
<1>2. Whole' = <<text[1], COLON>> \o Joined(<<>>)
  BY DEF Whole
<1>3. <<>> \in Seq(Words) /\ Len(<<>>) = 0 /\ <<>> \in Seq(Chars)
  OBVIOUS
<1>4. Whole' = <<text[1], COLON>>
  <2>1. <<text[1], text[2]>> \in Seq(Chars)
    BY <1>1
  <2>2. <<text[1], text[2]>> \o <<>> = <<text[1], text[2]>>
    BY <1>3, <2>1
  <2>. QED BY <1>1, <1>2, <2>2, JoinedNone
<1>5. Len(Whole') = 2 /\ Whole'[1] = text[1] /\ Whole'[2] = text[2]
  BY <1>1, <1>4
<1>6. ~ PathRefused'
  BY DEF PathRefused, pathparser_valid_format
<1>7. at' \in 3 .. Len(text') /\ text'[at'] = SLASH
  BY <1>1
<1>8. parts' \in Seq(Words) /\ Len(parts') = 0
  BY <1>3
<1>9. Len(Whole') <= Len(text') /\ \A k \in 1 .. Len(Whole') : Whole'[k] = text'[k]
  BY <1>1, <1>5
<1>. QED BY <1>5, <1>6, <1>7, <1>8, <1>9 DEF Split

(* A part takes the text up to the next slash. *)
LEMMA PartSplits ==
  ASSUME text \in Words, Split, ~ LastPart,
         parts' = Append(parts, pathparser_get_path_part),
         at' = Min({PartEnd, Len(text)}),
         UNCHANGED <<text, root>>
  PROVE  Split'
<1>1. /\ Len(text) \in Nat /\ at \in 3 .. Len(text) /\ text \in Seq(Chars)
      /\ parts \in Seq(Words)
  BY DEF Split, Words
<1>2. PICK e \in at + 1 .. Len(text) + 1 :
        /\ e = PartEnd
        /\ e <= Len(text) => text[e] = SLASH
        /\ \A k \in at + 1 .. e - 1 : text[k] # SLASH
  BY <1>1, PartEnds
<1>3. PICK p \in Words :
        /\ p = pathparser_get_path_part
        /\ Len(p) = e - 1 - at
        /\ \A k \in 1 .. e - 1 - at : p[k] = text[at + k] /\ text[at + k] # SLASH
  BY <1>1, <1>2, NextPart
<1>4. p # <<>> /\ Len(p) > 0
  BY <1>3 DEF LastPart, Words
<1>5. Len(Whole) = at - 1 /\ text[at] = SLASH
  BY <1>1, <1>2, <1>3, <1>4 DEF Split
<1>6. text[1] \in Chars /\ COLON \in Chars
  BY <1>1, FatOpenAssumption
<1>7. PICK w : w = Whole
  OBVIOUS
<1>8. PICK v : v = <<text[1], COLON>> \o Joined(Append(parts, p))
  OBVIOUS
<1>9. v = Whole'
  BY <1>3, <1>8 DEF Whole
<1>10. w = <<text[1], COLON>> \o Joined(parts)
  BY <1>7 DEF Whole
<1>11. /\ Len(w) \in Nat /\ Len(v) = Len(w) + 1 + Len(p)
       /\ \A k \in 1 .. Len(w) : v[k] = w[k]
       /\ v[Len(w) + 1] = SLASH
       /\ \A k \in 1 .. Len(p) : v[Len(w) + 1 + k] = p[k]
  <2>1. Extended(w, p, v)
    BY <1>1, <1>3, <1>6, <1>8, <1>10, WholeMore
  <2>. QED BY <2>1 DEF Extended
<1>12. Len(v) = e - 1 /\ Len(w) = at - 1
  BY <1>1, <1>2, <1>3, <1>5, <1>7, <1>11
<1>13. ASSUME NEW k \in 1 .. Len(v)
       PROVE  v[k] = text[k]
  <2>1. CASE k <= Len(w)
    BY <1>1, <1>2, <1>7, <1>11, <1>12, <2>1 DEF Split
  <2>2. CASE k = at
    BY <1>1, <1>5, <1>11, <1>12, <2>2
  <2>3. CASE k > at
    <3>1. PICK m \in 1 .. Len(p) : k = at + m /\ k = Len(w) + 1 + m
      <4>1. k - at \in 1 .. Len(p) /\ k = at + (k - at) /\ k = Len(w) + 1 + (k - at)
        BY <1>1, <1>2, <1>3, <1>12, <2>3
      <4>. QED BY <4>1
    <3>. QED BY <1>3, <1>11, <3>1
  <2>. QED BY <1>1, <1>2, <1>12, <2>1, <2>2, <2>3
<1>14. Min({e, Len(text)}) = IF e <= Len(text) THEN e ELSE Len(text)
  <2>1. {e, Len(text)} \subseteq Nat /\ {e, Len(text)} # {}
    BY <1>1, <1>2
  <2>2. /\ Min({e, Len(text)}) \in {e, Len(text)}
        /\ Min({e, Len(text)}) <= e /\ Min({e, Len(text)}) <= Len(text)
    BY <2>1, MinExists
  <2>. QED BY <1>1, <1>2, <2>2
<1>15. at' = IF e <= Len(text) THEN e ELSE Len(text)
  BY <1>2, <1>14
<1>16. at' \in 3 .. Len(text')
  BY <1>1, <1>2, <1>15
<1>17. \/ Len(Whole') = at' - 1 /\ text'[at'] = SLASH
       \/ Len(Whole') = Len(text') /\ at' = Len(text')
  <2>1. Len(Whole') = e - 1 /\ text' = text
    BY <1>9, <1>12
  <2>2. CASE e <= Len(text)
    <3>1. at' = e
      BY <1>15, <2>2
    <3>. QED BY <1>2, <2>1, <2>2, <3>1
  <2>3. CASE e = Len(text) + 1
    <3>1. at' = Len(text) /\ e - 1 = Len(text)
      BY <1>1, <1>15, <2>3
    <3>. QED BY <2>1, <3>1
  <2>. QED BY <1>1, <1>2, <2>2, <2>3
<1>18. /\ Len(Whole') <= Len(text')
       /\ \A k \in 1 .. Len(Whole') : Whole'[k] = text'[k]
  BY <1>1, <1>2, <1>9, <1>12, <1>13
<1>19. SLASH \notin Range(p)
  <2>1. \A k \in DOMAIN p : k \in 1 .. e - 1 - at
    BY <1>3 DEF Words
  <2>. QED BY <1>3, <2>1 DEF Range
<1>20. parts' \in Seq(Words) /\ \A k \in 1 .. Len(parts') :
                                   parts'[k] # <<>> /\ SLASH \notin Range(parts'[k])
  <2>1. /\ parts' = Append(parts, p) /\ parts' \in Seq(Words)
        /\ Len(parts') = Len(parts) + 1 /\ Len(parts) \in Nat
        /\ parts'[Len(parts) + 1] = p
        /\ \A k \in 1 .. Len(parts) : parts'[k] = parts[k]
    BY <1>1, <1>3
  <2>2. ASSUME NEW k \in 1 .. Len(parts')
        PROVE  parts'[k] # <<>> /\ SLASH \notin Range(parts'[k])
    <3>1. CASE k = Len(parts) + 1
      BY <1>4, <1>19, <2>1, <3>1
    <3>2. CASE k # Len(parts) + 1
      <4>1. k \in 1 .. Len(parts)
        BY <2>1, <3>2
      <4>2. parts[k] # <<>> /\ SLASH \notin Range(parts[k])
        BY <4>1 DEF Split
      <4>. QED BY <2>1, <4>1, <4>2
    <3>. QED BY <3>1, <3>2
  <2>. QED BY <2>1, <2>2
<1>21. ~ PathRefused' /\ root' = text'[1]
  BY DEF Split, PathRefused, pathparser_valid_format
<1>. QED BY <1>16, <1>17, <1>18, <1>20, <1>21 DEF Split

(* What the last part leaves, or the one that was cut off. *)
LEMMA SplitAtEnd ==
  ASSUME text \in Words, Split, cut => ~ LastPart, ~ cut => LastPart
  PROVE  SplitUpToEmptyPart
<1>1. /\ Len(text) \in Nat /\ at \in 3 .. Len(text) /\ text \in Seq(Chars)
      /\ parts \in Seq(Words) /\ text[1] \in Chars /\ COLON \in Chars
  BY FatOpenAssumption DEF Split, Words
<1>2. PICK e \in at + 1 .. Len(text) + 1 :
        /\ e = PartEnd
        /\ e <= Len(text) => text[e] = SLASH
        /\ \A k \in at + 1 .. e - 1 : text[k] # SLASH
  BY <1>1, PartEnds
<1>3. LastPart <=> e = at + 1
  <2>1. /\ Len(pathparser_get_path_part) = e - 1 - at
        /\ pathparser_get_path_part \in Seq(Chars)
    BY <1>1, <1>2, NextPart DEF Words
  <2>2. LastPart <=> Len(pathparser_get_path_part) = 0
    BY <2>1 DEF LastPart
  <2>. QED BY <1>1, <1>2, <2>1, <2>2
<1>4. PICK w \in Seq(Chars) : w = Whole
  BY <1>1, WholeIs DEF Whole, Words
<1>5. /\ Len(w) \in Nat /\ Len(w) <= Len(text) /\ \A k \in 1 .. Len(w) : w[k] = text[k]
  BY <1>4 DEF Split
<1>6. IsPrefix(w, text)
  <2>1. /\ SubSeq(w, 1, Len(w)) \in Seq(Chars) /\ Len(SubSeq(w, 1, Len(w))) = Len(w)
        /\ SubSeq(text, 1, Len(w)) \in Seq(Chars) /\ Len(SubSeq(text, 1, Len(w))) = Len(w)
    BY <1>1, <1>5
  <2>2. \A k \in 1 .. Len(w) :
          SubSeq(w, 1, Len(w))[k] = w[k] /\ SubSeq(text, 1, Len(w))[k] = text[k]
    BY <1>1, <1>5
  <2>3. SubSeq(w, 1, Len(w)) = SubSeq(text, 1, Len(w))
    BY <1>5, <2>1, <2>2
  <2>. QED BY <1>5, <2>3 DEF IsPrefix
<1>. DEFINE rest == SubSeq(text, Len(w) + 1, Len(text))
<1>7. /\ rest \in Seq(Chars) /\ Len(rest) = Len(text) - Len(w)
      /\ \A k \in 1 .. Len(text) - Len(w) : rest[k] = text[Len(w) + k]
  BY <1>1, <1>5
<1>10. ASSUME cut
       PROVE  Len(rest) > 1 /\ rest[1] = SLASH /\ rest[2] # SLASH
  <2>1. e > at + 1
    <3>1. e # at + 1 /\ e \in Int /\ at \in Int /\ e >= at + 1
      BY <1>1, <1>2, <1>3, <1>10
    <3>. QED BY <3>1
  <2>2. at < Len(text) /\ text[at + 1] # SLASH
    BY <1>1, <1>2, <2>1
  <2>3. Len(w) = at - 1 /\ text[at] = SLASH
    BY <1>1, <1>4, <2>2 DEF Split
  <2>4. Len(rest) = Len(text) - at + 1 /\ rest[1] = text[at] /\ rest[2] = text[at + 1]
    <3>. HIDE DEF rest
    <3>1. /\ Len(text) - Len(w) = Len(text) - at + 1
          /\ Len(w) + 1 = at /\ Len(w) + 2 = at + 1
          /\ 1 \in 1 .. Len(text) - Len(w) /\ 2 \in 1 .. Len(text) - Len(w)
      BY <1>1, <2>2, <2>3
    <3>2. rest[1] = text[Len(w) + 1] /\ rest[2] = text[Len(w) + 2]
      BY <1>7, <3>1
    <3>. QED BY <1>7, <3>1, <3>2
  <2>. QED BY <1>1, <2>2, <2>3, <2>4
<1>8. ASSUME ~ cut
      PROVE  \/ rest \in {<<>>, <<SLASH>>}
             \/ Len(rest) > 1 /\ rest[1] = SLASH /\ rest[2] = SLASH
  <2>0. e = at + 1
    BY <1>3, <1>8
  <2>1. CASE Len(w) = Len(text)
    <3>1. Len(rest) = 0
      BY <1>1, <1>7, <2>1
    <3>2. rest = <<>>
      BY <1>7, <3>1
    <3>. QED BY <3>2
  <2>2. CASE Len(w) = at - 1 /\ text[at] = SLASH
    <3>1. Len(rest) = Len(text) - at + 1 /\ rest[1] = SLASH
      BY <1>1, <1>7, <2>2
    <3>2. CASE at = Len(text)
      <4>1. Len(rest) = 1
        BY <1>1, <3>1, <3>2
      <4>2. rest = <<SLASH>>
        <5>1. PICK r \in Seq(Chars) : r = rest
          BY <1>7
        <5>2. Len(r) = 1 /\ r[1] = SLASH
          BY <3>1, <4>1, <5>1
        <5>. HIDE DEF rest
        <5>3. r = <<SLASH>>
          BY <5>2
        <5>. QED BY <5>1, <5>3
      <4>. QED BY <4>2
    <3>3. CASE at < Len(text)
      <4>1. text[at + 1] = SLASH
        BY <1>1, <1>2, <2>0, <3>3
      <4>2. rest[2] = text[at + 1]
        BY <1>1, <1>7, <2>2, <3>3
      <4>. QED BY <1>1, <3>1, <3>3, <4>1, <4>2
    <3>. QED BY <1>1, <3>2, <3>3
  <2>. QED BY <1>4, <2>1, <2>2 DEF Split
<1>9. /\ root = text[1]
      /\ \A k \in 1 .. Len(parts) : parts[k] # <<>> /\ SLASH \notin Range(parts[k])
  BY DEF Split
<1>. QED BY <1>4, <1>6, <1>8, <1>9, <1>10, Zenon DEF SplitUpToEmptyPart, Whole

-----------------------------------------------------------------------------
(* Neither a dot nor the mark of a deleted item is a letter. *)
LEMMA LowerKeeps ==
  ASSUME NEW c
  PROVE  /\ tolower(c) = DOT <=> c = DOT
         /\ tolower(c) = DELETED <=> c = DELETED
<1>1. ASSUME NEW b \in DOMAIN LowerOf
      PROVE  b # DOT /\ b # DELETED /\ LowerOf[b] # DOT /\ LowerOf[b] # DELETED
  <2>1. {b, LowerOf[b]} \cap {DOT, DELETED} = {}
    BY FatOpenAssumption
  <2>. QED BY <2>1
<1>2. CASE c \in DOMAIN LowerOf
  BY <1>1, <1>2 DEF tolower
<1>3. CASE c \notin DOMAIN LowerOf
  <2>1. tolower(c) = c
    BY <1>3 DEF tolower
  <2>. QED BY <2>1
<1>. QED BY <1>2, <1>3

(* istrncmp and the eye of a user agree on which names are the same. *)
LEMMA AlikeIsSame ==
  ASSUME NEW s \in Words, NEW t \in Words
  PROVE  Alike(s, t) <=> SameName(s, t)
<1>1. Len(s) \in Nat /\ Len(t) \in Nat
  BY DEF Words
<1>2. /\ Lower(s) = [k \in 1 .. Len(s) |-> tolower(s[k])]
      /\ Lower(t) = [k \in 1 .. Len(t) |-> tolower(t[k])]
  BY DEF Lower, tolower
<1>3. ASSUME Alike(s, t)
      PROVE  SameName(s, t)
  <2>1. Lower(s) = Lower(t)
    BY <1>3 DEF Alike
  <2>2. 1 .. Len(s) = 1 .. Len(t)
    <3>1. DOMAIN Lower(s) = 1 .. Len(s) /\ DOMAIN Lower(t) = 1 .. Len(t)
      BY <1>2
    <3>. QED BY <2>1, <3>1
  <2>3. Len(s) = Len(t)
    BY <1>1, <2>2
  <2>4. ASSUME NEW k \in 1 .. Len(s)
        PROVE  tolower(s[k]) = tolower(t[k])
    <3>1. Lower(s)[k] = tolower(s[k]) /\ Lower(t)[k] = tolower(t[k])
      BY <1>2, <2>3
    <3>. QED BY <2>1, <3>1
  <2>. QED BY <2>3, <2>4 DEF SameName
<1>4. ASSUME SameName(s, t)
      PROVE  Alike(s, t)
  <2>1. Lower(s) = Lower(t)
    BY <1>2, <1>4 DEF SameName
  <2>. QED BY <2>1 DEF Alike
<1>. QED BY <1>3, <1>4

(* The same name in turn. *)
LEMMA SameNames ==
  ASSUME NEW s \in Words, NEW t \in Words, NEW u \in Words
  PROVE  /\ SameName(s, t) => SameName(t, s)
         /\ SameName(s, t) /\ SameName(t, u) => SameName(s, u)
BY DEF SameName

(* The place of a dot in a name. *)
DotAt(s, k) == k \in 1 .. Len(s) /\ s[k] = DOT

(* The same names have the same dots, and are deleted together. *)
LEMMA SameShape ==
  ASSUME NEW s \in Words, NEW t \in Words, SameName(s, t)
  PROVE  /\ Len(s) = Len(t)
         /\ \A k : DotAt(s, k) <=> DotAt(t, k)
         /\ Len(s) > 0 => (s[1] = DELETED <=> t[1] = DELETED)
<1>1. Len(s) = Len(t) /\ Len(s) \in Nat
  BY DEF SameName, Words
<1>2. ASSUME NEW k \in 1 .. Len(s)
      PROVE  (s[k] = DOT <=> t[k] = DOT) /\ (s[k] = DELETED <=> t[k] = DELETED)
  <2>1. tolower(s[k]) = tolower(t[k])
    BY DEF SameName
  <2>. QED BY <2>1, LowerKeeps
<1>. QED BY <1>1, <1>2 DEF DotAt

(* The fields of an item. *)
Fields(item) ==
  /\ item.name \in Words /\ item.ext \in Words
  /\ Len(item.name) \in Nat /\ Len(item.name) <= NameWidth
  /\ Len(item.ext) \in Nat /\ Len(item.ext) <= ExtWidth
  /\ \A k : ~ DotAt(item.name, k) /\ ~ DotAt(item.ext, k)
  /\ item.attribute \in Chars /\ item.rest \in Words
  /\ item.ext = <<>> <=> Len(item.ext) = 0
  /\ item.name = <<>> <=> Len(item.name) = 0

LEMMA ItemFields == \A item \in Items : Fields(item)
<1>1. ASSUME NEW item \in Items
      PROVE  Fields(item)
  <2>1. PICK n \in Seq(Chars \ {DOT}) : n = item.name /\ Len(n) <= NameWidth
    BY FatOpenAssumption
  <2>2. PICK e \in Seq(Chars \ {DOT}) : e = item.ext /\ Len(e) <= ExtWidth
    BY FatOpenAssumption
  <2>3. item.attribute \in Chars /\ item.rest \in Seq(Chars)
    BY FatOpenAssumption
  <2>4. /\ n \in Seq(Chars) /\ Len(n) \in Nat /\ \A k \in 1 .. Len(n) : n[k] # DOT
        /\ n = <<>> <=> Len(n) = 0
    BY <2>1
  <2>5. /\ e \in Seq(Chars) /\ Len(e) \in Nat /\ \A k \in 1 .. Len(e) : e[k] # DOT
        /\ e = <<>> <=> Len(e) = 0
    BY <2>2
  <2>. QED BY <2>1, <2>2, <2>3, <2>4, <2>5 DEF Fields, DotAt, Words
<1>. QED BY <1>1

(* Where the dot of a name is, and how long a name with a dot can be. *)
NameShaped(item, s) ==
  /\ s \in Words
  /\ \A k : DotAt(s, k) => k = Len(item.name) + 1
  /\ Len(s) <= Len(item.name) + 1 + ExtWidth
  /\ Len(item.name) > 0 => Len(s) > 0 /\ s[1] = item.name[1]

LEMMA NameShape ==
  ASSUME NEW item \in Items
  PROVE  NameShaped(item, NameOf(item))
<1>1. Fields(item) /\ ExtWidth \in Nat \ {0}
  BY ItemFields, FatOpenAssumption
<1>2. PICK n \in Seq(Chars) : /\ n = item.name /\ Len(n) \in Nat
                              /\ \A k \in 1 .. Len(n) : n[k] # DOT
  BY <1>1 DEF Fields, DotAt, Words
<1>3. PICK e \in Seq(Chars) : /\ e = item.ext /\ Len(e) \in Nat /\ Len(e) <= ExtWidth
                              /\ \A k \in 1 .. Len(e) : e[k] # DOT
                              /\ e = <<>> <=> Len(e) = 0
  BY <1>1 DEF Fields, DotAt, Words
<1>4. CASE item.ext = <<>>
  <2>1. NameOf(item) = n
    BY <1>2, <1>4 DEF NameOf
  <2>. QED BY <1>1, <1>2, <2>1 DEF NameShaped, DotAt, Words
<1>5. CASE item.ext # <<>>
  <2>1. PICK d \in Seq(Chars) : d = <<DOT>> /\ Len(d) = 1 /\ d[1] = DOT
    <3>1. <<DOT>> \in Seq(Chars) /\ Len(<<DOT>>) = 1 /\ <<DOT>>[1] = DOT
      BY FatOpenAssumption
    <3>. QED BY <3>1
  <2>2. PICK x \in Seq(Chars) : x = d \o e /\ Concat(d, e, x)
    BY Concats
  <2>3. PICK s \in Seq(Chars) : s = n \o x /\ Concat(n, x, s)
    BY Concats
  <2>4. NameOf(item) = s
    BY <1>2, <1>3, <1>5, <2>1, <2>2, <2>3 DEF NameOf
  <2>0. Concat(d, e, x) /\ Concat(n, x, s) /\ Len(d) = 1
    BY <2>1, <2>2, <2>3
  <2>5. Len(s) = Len(n) + 1 + Len(e) /\ Len(x) = 1 + Len(e)
    <3>1. Len(x) = Len(d) + Len(e) /\ Len(s) = Len(n) + Len(x) /\ Len(d) = 1
      BY <2>0 DEF Concat
    <3>2. Len(n) \in Nat /\ Len(e) \in Nat
      BY <1>2, <1>3
    <3>. QED BY <3>1, <3>2
  <2>6. ASSUME NEW k, DotAt(s, k)
        PROVE  k = Len(n) + 1
    <3>1. CASE k \in 1 .. Len(n)
      BY <1>2, <2>3, <2>6, <3>1 DEF Concat, DotAt
    <3>2. CASE k > Len(n) + 1
      <4>1. PICK m \in 1 .. Len(e) : k = Len(n) + (1 + m) /\ 1 + m \in 1 .. Len(x)
        <5>1. /\ k - Len(n) - 1 \in 1 .. Len(e)
              /\ k = Len(n) + (1 + (k - Len(n) - 1))
              /\ 1 + (k - Len(n) - 1) \in 1 .. Len(x)
          <6>1. Len(n) \in Nat /\ Len(e) \in Nat /\ k \in 1 .. Len(s)
            BY <1>2, <1>3, <2>6 DEF DotAt
          <6>. QED BY <2>5, <3>2, <6>1
        <5>. QED BY <5>1
      <4>2. s[Len(n) + (1 + m)] = x[1 + m]
        BY <2>3, <4>1 DEF Concat
      <4>3. x[1 + m] = e[m]
        BY <2>1, <2>2 DEF Concat
      <4>. QED BY <1>3, <2>6, <4>1, <4>2, <4>3 DEF DotAt
    <3>. QED BY <1>2, <2>5, <2>6, <3>1, <3>2 DEF DotAt
  <2>7. Len(n) > 0 => Len(s) > 0 /\ s[1] = n[1]
    <3>1. Len(n) \in Nat /\ Len(e) \in Nat
      BY <1>2, <1>3
    <3>2. ASSUME Len(n) > 0 PROVE 1 \in 1 .. Len(n) /\ Len(s) > 0
      BY <2>5, <3>1, <3>2
    <3>. QED BY <2>0, <3>2 DEF Concat
  <2>8. Len(s) <= Len(n) + 1 + ExtWidth
    <3>1. Len(n) \in Nat /\ Len(e) \in Nat /\ Len(e) <= ExtWidth /\ ExtWidth \in Nat
      BY <1>1, <1>2, <1>3
    <3>. QED BY <2>5, <3>1
  <2>9. NameShaped(item, s)
    BY <1>2, <2>6, <2>7, <2>8 DEF NameShaped, Words
  <2>. QED BY <2>4, <2>9
<1>. QED BY <1>4, <1>5

(***************************************************************************)
(* A name that runs on has its dot behind the name field, or more behind   *)
(* its dot than an extension holds.                                        *)
(***************************************************************************)
RunsOn(item, s) ==
  \/ \E k : DotAt(s, k) /\ k > NameWidth + 1
  \/ DotAt(s, Len(item.name) + 1) /\ Len(s) > Len(item.name) + 1 + ExtWidth

FullShaped(item, s) ==
  /\ s \in Words
  /\ s = NameOf(item) \/ RunsOn(item, s)
  /\ Len(item.name) > 0 => Len(s) > 0 /\ s[1] = item.name[1]

LEMMA FullShape ==
  ASSUME NEW item \in Items
  PROVE  FullShaped(item, fat16_get_full_relative_filename(item))
<1>1. Fields(item) /\ ExtWidth \in Nat \ {0} /\ NameWidth \in Nat \ {0}
  BY ItemFields, FatOpenAssumption
<1>2. PICK n \in Seq(Chars) : n = item.name /\ Len(n) \in Nat /\ Len(n) <= NameWidth
  BY <1>1 DEF Fields, Words
<1>3. PICK e \in Seq(Chars) : /\ e = item.ext /\ Len(e) \in Nat /\ Len(e) <= ExtWidth
                              /\ e = <<>> <=> Len(e) = 0
  BY <1>1 DEF Fields, Words
<1>4. PICK a \in Seq(Chars) : a = <<item.attribute>> \o item.rest /\ Len(a) >= 1
  <2>1. PICK b \in Seq(Chars) : b = <<item.attribute>> /\ Len(b) = 1
    <3>1. <<item.attribute>> \in Seq(Chars) /\ Len(<<item.attribute>>) = 1
      BY <1>1 DEF Fields
    <3>. QED BY <3>1
  <2>2. PICK c \in Seq(Chars) : c = item.rest /\ Len(c) \in Nat
    BY <1>1 DEF Fields, Words
  <2>3. PICK w \in Seq(Chars) : w = b \o c /\ Len(w) = Len(b) + Len(c)
    BY Concats DEF Concat
  <2>4. Len(w) >= 1
    BY <2>1, <2>2, <2>3
  <2>5. w = <<item.attribute>> \o item.rest
    BY <2>1, <2>2, <2>3
  <2>. QED BY <2>4, <2>5
<1>5. PICK d \in Seq(Chars) : d = <<DOT>> /\ Len(d) = 1 /\ d[1] = DOT
  <2>1. <<DOT>> \in Seq(Chars) /\ Len(<<DOT>>) = 1 /\ <<DOT>>[1] = DOT
    BY FatOpenAssumption
  <2>. QED BY <2>1
<1>. DEFINE runs == Len(e) = ExtWidth /\ item.attribute # PLAIN
            full == fat16_get_full_relative_filename(item)
<1>6. PICK x \in Seq(Chars) :
        /\ x = FromExt(item)
        /\ IF runs THEN Len(x) > ExtWidth ELSE x = e
  <2>1. CASE runs
    <3>1. FromExt(item) = e \o a
      BY <1>3, <1>4, <2>1 DEF FromExt
    <3>2. e \o a \in Seq(Chars) /\ Concat(e, a, e \o a)
      BY Concats
    <3>3. Len(e \o a) > ExtWidth
      BY <1>1, <1>4, <2>1, <3>2 DEF Concat
    <3>. QED BY <2>1, <3>1, <3>2, <3>3
  <2>2. CASE ~ runs
    <3>1. FromExt(item) = e \o <<>>
      BY <1>3, <2>2 DEF FromExt
    <3>2. e \o <<>> = e
      OBVIOUS
    <3>. QED BY <2>2, <3>1, <3>2
  <2>. QED BY <2>1, <2>2
<1>7. Len(x) \in Nat /\ (x = e \/ Len(x) > ExtWidth) /\ (e # <<>> => Len(x) > 0)
  BY <1>1, <1>3, <1>6
<1>8. PICK y \in Seq(Chars) :
        /\ y = FromName(item)
        /\ IF Len(n) = NameWidth THEN y = n \o x /\ Concat(n, x, y) ELSE y = n
  <2>1. CASE Len(n) = NameWidth
    <3>1. FromName(item) = n \o x
      BY <1>2, <1>6, <2>1 DEF FromName
    <3>2. n \o x \in Seq(Chars) /\ Concat(n, x, n \o x)
      BY Concats
    <3>. QED BY <2>1, <3>1, <3>2
  <2>2. CASE Len(n) # NameWidth
    <3>1. FromName(item) = n \o <<>>
      BY <1>2, <2>2 DEF FromName
    <3>2. n \o <<>> = n
      OBVIOUS
    <3>. QED BY <2>2, <3>1, <3>2
  <2>. QED BY <2>1, <2>2
<1>9. Len(y) \in Nat /\ (Len(n) > 0 => Len(y) > 0 /\ y[1] = n[1])
  BY <1>2, <1>7, <1>8 DEF Concat
<1>10. CASE e = <<>>
  <2>1. x = <<>>
    BY <1>1, <1>3, <1>6, <1>10
  <2>2. y = n
    <3>1. n \o <<>> = n
      OBVIOUS
    <3>. QED BY <1>8, <2>1, <3>1
  <2>3. full = n
    <3>1. full = y \o <<>>
      BY <1>3, <1>8, <1>10 DEF fat16_get_full_relative_filename
    <3>2. y \o <<>> = y
      OBVIOUS
    <3>. QED BY <2>2, <3>1, <3>2
  <2>4. NameOf(item) = n
    <3>1. NameOf(item) = n \o <<>>
      BY <1>2, <1>3, <1>10 DEF NameOf
    <3>2. n \o <<>> = n
      OBVIOUS
    <3>. QED BY <3>1, <3>2
  <2>. HIDE DEF full
  <2>. QED BY <1>2, <2>3, <2>4 DEF FullShaped, Words, full
<1>11. CASE e # <<>>
  <2>1. PICK z \in Seq(Chars) : z = d \o x /\ Concat(d, x, z)
    BY Concats
  <2>2. PICK s \in Seq(Chars) : s = y \o z /\ Concat(y, z, s)
    BY Concats
  <2>3. full = s
    BY <1>3, <1>5, <1>6, <1>8, <1>11, <2>1, <2>2 DEF fat16_get_full_relative_filename
  <2>. HIDE DEF full
  <2>4. Len(z) = 1 + Len(x) /\ Len(s) = Len(y) + 1 + Len(x)
    BY <1>5, <1>7, <1>9, <2>1, <2>2 DEF Concat
  <2>5. DotAt(s, Len(y) + 1)
    <3>1. 1 \in 1 .. Len(z) /\ z[1] = DOT
      BY <1>5, <1>7, <2>1, <2>4 DEF Concat
    <3>2. s[Len(y) + 1] = z[1]
      BY <2>2, <3>1 DEF Concat
    <3>3. Len(y) + 1 \in 1 .. Len(s)
      BY <1>7, <1>9, <2>4
    <3>. QED BY <3>1, <3>2, <3>3 DEF DotAt
  <2>6. Len(n) > 0 => Len(s) > 0 /\ s[1] = n[1]
    <3>1. ASSUME Len(n) > 0 PROVE Len(s) > 0 /\ s[1] = n[1]
      <4>1. 1 \in 1 .. Len(y) /\ y[1] = n[1]
        BY <1>9, <3>1
      <4>. QED BY <1>7, <1>9, <2>2, <2>4, <4>1 DEF Concat
    <3>. QED BY <3>1
  <2>7. CASE Len(n) = NameWidth
    <3>1. Len(y) = NameWidth + Len(x)
      BY <1>8, <2>7 DEF Concat
    <3>2. Len(y) + 1 > NameWidth + 1
      BY <1>1, <1>7, <1>11, <3>1
    <3>3. FullShaped(item, s)
      BY <1>2, <2>5, <2>6, <3>2 DEF FullShaped, RunsOn, Words
    <3>. QED BY <2>3, <3>3 DEF full
  <2>8. CASE Len(n) # NameWidth /\ x = e
    <3>1. y = n
      BY <1>8, <2>8
    <3>2. NameOf(item) = s
      BY <1>2, <1>3, <1>5, <1>11, <2>1, <2>2, <2>8, <3>1 DEF NameOf
    <3>3. FullShaped(item, s)
      BY <1>2, <2>6, <3>2 DEF FullShaped, Words
    <3>. QED BY <2>3, <3>3 DEF full
  <2>9. CASE Len(n) # NameWidth /\ Len(x) > ExtWidth
    <3>1. y = n
      BY <1>8, <2>9
    <3>2. Len(s) > Len(n) + 1 + ExtWidth
      <4>1. /\ Len(n) \in Nat /\ ExtWidth \in Nat /\ Len(x) \in Nat
            /\ Len(s) = Len(n) + 1 + Len(x) /\ Len(x) > ExtWidth
        BY <1>1, <1>2, <1>7, <2>4, <2>9, <3>1
      <4>. QED BY <4>1
    <3>3. FullShaped(item, s)
      BY <1>2, <2>5, <2>6, <3>1, <3>2 DEF FullShaped, RunsOn, Words
    <3>. QED BY <2>3, <3>3 DEF full
  <2>. QED BY <1>7, <2>7, <2>8, <2>9
<1>. QED BY <1>10, <1>11

(***************************************************************************)
(* A name a path can spell is taken for no other: a name that runs on is   *)
(* the name of nothing.                                                    *)
(***************************************************************************)
LEMMA NoOtherName ==
  ASSUME NEW item \in Items, NEW it \in Items,
         SameName(fat16_get_full_relative_filename(item), NameOf(it))
  PROVE  fat16_get_full_relative_filename(item) = NameOf(item)
<1>1. PICK s : s = fat16_get_full_relative_filename(item)
  OBVIOUS
<1>2. PICK t : t = NameOf(it)
  OBVIOUS
<1>3. FullShaped(item, s) /\ NameShaped(it, t)
  BY <1>1, <1>2, FullShape, NameShape
<1>4. Len(s) = Len(t) /\ \A k : DotAt(s, k) <=> DotAt(t, k)
  BY <1>1, <1>2, <1>3, SameShape DEF FullShaped, NameShaped
<1>5. Fields(item) /\ Fields(it) /\ NameWidth \in Nat /\ ExtWidth \in Nat
  BY ItemFields, FatOpenAssumption
<1>6. ASSUME RunsOn(item, s) PROVE FALSE
  <2>1. ASSUME NEW k, DotAt(s, k), k > NameWidth + 1 PROVE FALSE
    <3>1. k = Len(it.name) + 1
      BY <1>3, <1>4, <2>1 DEF NameShaped
    <3>. QED BY <1>5, <2>1, <3>1 DEF Fields
  <2>2. ASSUME DotAt(s, Len(item.name) + 1), Len(s) > Len(item.name) + 1 + ExtWidth
        PROVE  FALSE
    <3>1. Len(item.name) + 1 = Len(it.name) + 1
      BY <1>3, <1>4, <2>2 DEF NameShaped
    <3>2. Len(t) <= Len(it.name) + 1 + ExtWidth
      BY <1>3 DEF NameShaped
    <3>. QED BY <1>4, <1>5, <2>2, <3>1, <3>2 DEF Fields
  <2>. QED BY <1>6, <2>1, <2>2 DEF RunsOn
<1>. QED BY <1>1, <1>3, <1>6 DEF FullShaped

-----------------------------------------------------------------------------
(* What the count of the first items says: it passed no end, and skipped   *)
(* no item of the root directory that is not deleted.                      *)
Counted(n, t) ==
  /\ t <= n - 1
  /\ \A j \in 1 .. n - 1 : ~ Ends(disk[j])
  /\ n <= RootEntries + 1 /\ (\A k \in 1 .. RootEntries : ~ Deleted(disk[k]))
       => t = n - 1

CountInv ==
  /\ i \in Nat \ {0} /\ total \in Nat
  /\ pc = "count" => Counted(i, total)
  /\ pc # "count" => \E e \in 1 .. Len(disk) : Ends(disk[e]) /\ Counted(e, total)

(* The path, and how far it is taken apart. *)
PathInv ==
  /\ disk \in Seq(Items) /\ Len(disk) >= RootEntries
  /\ text \in Words /\ parts \in Seq(Words)
  /\ cut \in BOOLEAN /\ (cut => ~ LastPart)
  /\ root = NULL => at = 0 /\ parts = <<>> /\ ~ cut
  /\ root # NULL => Split
  /\ pc \in {"open", "search", "listing", "clone"} =>
       root = Drive /\ parts # <<>> /\ ListEnds

(* Before the search nothing is found, and only the path is in memory. *)
EarlyInv ==
  pc \in {"count", "parse", "open"} =>
    /\ found = NULL /\ memory \subseteq PathMemory
    /\ pc # "count" => i = 1

(* Item k has the name that is searched for. *)
Match(k) == SameName(fat16_get_full_relative_filename(disk[k]), parts[1])

(* The item found was looked at and has the name. *)
FoundOne == found # NULL => found.at \in 1 .. i - 1 /\ Match(found.at)

(* While memory lasts it is the last one so far. *)
FoundLast ==
  ~ refused =>
    /\ \A k \in 1 .. i - 1 : Match(k) => found # NULL /\ k <= found.at
    /\ found # NULL => found = [at |-> found.at, item |-> disk[found.at]]

(***************************************************************************)
(* What is in memory is the path, the descriptor, or comes from an item    *)
(* with the name: from the one that is being cloned, or one up to the item *)
(* that was found.                                                         *)
(***************************************************************************)
Kept(m) ==
  \/ m \in PathMemory \cup {<<"descriptor", 0>>}
  \/ \E x \in {"item", "clone", "directory"}, k \in 1 .. i :
       /\ m = <<x, k>> /\ Match(k)
       /\ k = i => pc \in {"listing", "clone"}
       /\ x = "directory" => Directory(disk[k])
       /\ k < i /\ found # NULL => k <= found.at

(* A search in the root directory. *)
InRoot ==
  /\ FoundOne /\ FoundLast
  /\ \A m \in memory : Kept(m)
  /\ pc \in {"listing", "clone"} => seen = disk[i] /\ Match(i)
  /\ pc = "listing" => Directory(disk[i])

Searching ==
  /\ root = Drive /\ parts # <<>>
  /\ i \in 1 .. total + 1
  /\ pc \in {"listing", "clone"} => i <= total
  /\ total <= RootEntries => InRoot

(* Why there was no search. *)
Unsearched ==
  response = 0 /\ (root = NULL \/ parts = <<>> \/ root # Drive \/ refused)

DoneInv ==
  pc = "done" =>
    \/ Unsearched
    \/ Searching /\ i = total + 1 /\ response = IF NotFound THEN 0 ELSE 1

OpenInv ==
  /\ CountInv /\ PathInv /\ EarlyInv
  /\ pc \in {"search", "listing", "clone"} => Searching
  /\ DoneInv

-----------------------------------------------------------------------------
LEMMA InitOpenInv == Init => OpenInv
<1>. SUFFICES ASSUME Init PROVE OpenInv
  OBVIOUS
<1>1. PICK o \in Opens : disk = o.disk /\ text = o.text
  BY DEF Init, PathInit
<1>2. /\ pc = "count" /\ i = 1 /\ total = 0 /\ root = NULL /\ at = 0 /\ parts = <<>>
      /\ cut = FALSE /\ found = NULL /\ refused = FALSE /\ memory = {}
  BY DEF Init, PathInit
<1>3. CountInv
  <2>1. Counted(1, 0)
    BY DEF Counted
  <2>. QED BY <1>2, <2>1 DEF CountInv
<1>4. PathInv
  <2>1. o.disk \in Seq(Items) /\ Len(o.disk) >= RootEntries /\ o.text \in Seq(Chars)
    BY FatOpenAssumption
  <2>2. <<>> \in Seq(Words)
    OBVIOUS
  <2>. QED BY <1>1, <1>2, <2>1, <2>2 DEF PathInv, Words
<1>. QED BY <1>2, <1>3, <1>4 DEF OpenInv, EarlyInv, DoneInv

(* An item more is counted. *)
LEMMA CountsOn ==
  ASSUME OpenInv, CountRoot
  PROVE  OpenInv'
<1>1. /\ pc = "count" /\ i <= Len(disk) /\ i \in Nat \ {0} /\ total \in Nat
      /\ Counted(i, total) /\ RootEntries \in Nat
  BY FatOpenAssumption DEF OpenInv, CountInv, CountRoot
<1>2. /\ UNCHANGED <<disk, text, at, root, parts, cut>>
      /\ UNCHANGED <<listed, seen, found, memory, refused, response>>
  BY DEF CountRoot, Looking
<1>3. CASE CountEnds(i) /\ pc' = "parse" /\ i' = 1 /\ UNCHANGED total
  <2>1. Ends(disk[i]) /\ Len(disk) \in Nat
    BY <1>3 DEF CountEnds, OpenInv, PathInv
  <2>2. i \in 1 .. Len(disk)
    BY <1>1, <2>1
  <2>3. CountInv'
    BY <1>1, <1>2, <1>3, <2>1, <2>2 DEF CountInv, Counted, Ends, Deleted
  <2>4. PathInv'
    BY <1>1, <1>2, <1>3 DEF OpenInv, PathInv, Split, Whole, PathRefused,
       pathparser_valid_format, LastPart, pathparser_get_path_part, PartEnd
  <2>5. EarlyInv'
    BY <1>1, <1>2, <1>3 DEF OpenInv, EarlyInv, PathMemory
  <2>. QED BY <1>3, <2>3, <2>4, <2>5 DEF OpenInv, DoneInv
<1>4. CASE /\ ~ CountEnds(i) /\ i' = i + 1 /\ UNCHANGED pc
           /\ total' = IF Deleted(disk[i]) THEN total ELSE total + 1
  <2>1. Counted(i + 1, total')
    <3>1. total' \in Nat /\ total' <= i
      BY <1>1, <1>4 DEF Counted
    <3>2. ASSUME NEW j \in 1 .. i PROVE ~ Ends(disk[j])
      <4>1. CASE j = i
        BY <1>4, <4>1 DEF CountEnds
      <4>2. CASE j # i
        <5>1. j \in 1 .. i - 1
          BY <1>1, <4>2
        <5>. QED BY <1>1, <5>1 DEF Counted
      <4>. QED BY <4>1, <4>2
    <3>3. ASSUME i + 1 <= RootEntries + 1,
                 \A k \in 1 .. RootEntries : ~ Deleted(disk[k])
          PROVE  total' = i
      <4>1. i \in 1 .. RootEntries /\ i <= RootEntries + 1
        BY <1>1, <3>3
      <4>2. total = i - 1
        BY <1>1, <3>3, <4>1 DEF Counted
      <4>. QED BY <1>1, <1>4, <3>3, <4>1, <4>2
    <3>4. (i + 1) - 1 = i
      BY <1>1
    <3>. QED BY <3>1, <3>2, <3>3, <3>4 DEF Counted
  <2>2. Counted(i, total)'
    BY <1>2, <1>4, <2>1 DEF Counted, Ends, Deleted
  <2>3. CountInv'
    BY <1>1, <1>4, <2>2 DEF CountInv
  <2>4. PathInv'
    BY <1>1, <1>2, <1>4 DEF OpenInv, PathInv, Split, Whole, PathRefused,
       pathparser_valid_format, LastPart, pathparser_get_path_part, PartEnd
  <2>5. EarlyInv'
    BY <1>1, <1>2, <1>4 DEF OpenInv, EarlyInv, PathMemory
  <2>. QED BY <1>1, <1>4, <2>3, <2>4, <2>5 DEF OpenInv, DoneInv
<1>. QED BY <1>3, <1>4 DEF CountRoot

(* The path is taken apart: by its root, a part, or up to the last one. *)
LEMMA ParsesOn ==
  ASSUME OpenInv, Parse
  PROVE  OpenInv'
<1>1. /\ pc = "parse" /\ i = 1 /\ found = NULL
      /\ memory \subseteq PathMemory /\ text \in Words /\ parts \in Seq(Words)
      /\ cut \in BOOLEAN /\ (cut => ~ LastPart)
      /\ root = NULL => at = 0 /\ parts = <<>> /\ ~ cut
      /\ root # NULL => Split
      /\ disk \in Seq(Items) /\ Len(disk) >= RootEntries
  BY DEF OpenInv, EarlyInv, PathInv, Parse
<1>2. UNCHANGED <<disk, i, listed, total, seen, found>>
  BY DEF Parse
<1>3. ASSUME pc' # "count" PROVE CountInv'
  BY <1>1, <1>2, <1>3 DEF OpenInv, CountInv, Counted, Ends, Deleted
<1>0. ASSUME UNCHANGED <<text, at, root, parts, cut>>
      PROVE  /\ PathMemory' = PathMemory /\ LastPart' = LastPart
             /\ ListEnds' = ListEnds /\ (Split => Split')
  BY <1>0 DEF Split, Whole, PathRefused, pathparser_valid_format, ListEnds,
     LastPart, pathparser_get_path_part, PartEnd, PathMemory
<1>4. CASE root = NULL /\ Finish(0) /\ UNCHANGED <<pathvars, memory>>
  <2>1. UNCHANGED <<text, at, root, parts, cut>>
    BY <1>4 DEF pathvars
  <2>2. PathInv'
    BY <1>0, <1>1, <1>2, <1>4, <2>1 DEF PathInv, Finish
  <2>. QED BY <1>2, <1>3, <1>4, <2>1, <2>2 DEF OpenInv, EarlyInv, DoneInv,
              Unsearched, Finish
<1>5. CASE /\ root = NULL /\ pathparser_create_root
           /\ memory' = memory \cup {<<"root", 0>>}
           /\ UNCHANGED <<pc, refused, response>>
  <2>1. /\ text' = text /\ parts' = parts /\ parts = <<>> /\ cut' = cut /\ ~ cut
        /\ ~ PathRefused
    BY <1>1, <1>5 DEF pathparser_create_root
  <2>2. root' # NULL
    <3>1. text[1] # NULL
      BY <2>1, FatOpenAssumption DEF PathRefused, pathparser_valid_format
    <3>. QED BY <1>1, <1>5, <3>1 DEF pathparser_create_root
  <2>3. Split'
    BY <1>1, <1>5, <2>1, RootSplits DEF pathparser_create_root
  <2>4. memory' \subseteq PathMemory'
    BY <1>1, <1>5, <2>1 DEF PathMemory
  <2>5. PathInv'
    BY <1>1, <1>2, <1>5, <2>1, <2>2, <2>3 DEF PathInv
  <2>. QED BY <1>1, <1>2, <1>3, <1>5, <2>4, <2>5 DEF OpenInv, EarlyInv, DoneInv
<1>6. CASE /\ root # NULL /\ pathparser_parse_path_part
           /\ memory' \in {memory \cup {<<"part", Len(parts) + 1>>}}
                           \cup IF cut' THEN {memory} ELSE {}
           /\ UNCHANGED <<pc, response>>
  <2>1. text' = text /\ root' = root /\ ~ LastPart /\ ~ cut /\ Split
    BY <1>1, <1>6 DEF pathparser_parse_path_part, ListEnds
  <2>2. memory' \in {memory, memory \cup {<<"part", Len(parts) + 1>>}}
    BY <1>6
  <2>3. CASE /\ parts' = Append(parts, pathparser_get_path_part)
             /\ at' = Min({PartEnd, Len(text)})
             /\ UNCHANGED cut
    <3>1. Split'
      BY <1>1, <2>1, <2>3, PartSplits
    <3>2. pathparser_get_path_part \in Words
      <4>1. at \in Nat /\ at <= Len(text) /\ Len(text) \in Nat
        BY <1>1, <2>1 DEF Split, Words
      <4>. QED BY <1>1, <4>1, NextPart
    <3>3. PICK p \in Words : parts' = Append(parts, p)
      BY <2>3, <3>2
    <3>4. /\ parts' \in Seq(Words) /\ Len(parts') = Len(parts) + 1
          /\ Len(parts) \in Nat
      BY <1>1, <3>3
    <3>5. /\ 1 .. Len(parts) \subseteq 1 .. Len(parts')
          /\ Len(parts) + 1 \in 1 .. Len(parts')
      BY <3>4
    <3>6. memory' \subseteq PathMemory'
      BY <1>1, <2>1, <2>2, <2>3, <3>5 DEF PathMemory
    <3>7. PathInv'
      BY <1>1, <1>2, <1>6, <2>1, <2>3, <3>1, <3>4 DEF PathInv
    <3>. QED BY <1>1, <1>2, <1>3, <1>6, <3>6, <3>7 DEF OpenInv, EarlyInv, DoneInv
  <2>4. CASE cut' = TRUE /\ UNCHANGED <<parts, at>>
    <3>1. Split' /\ ~ LastPart'
      BY <2>1, <2>4 DEF Split, Whole, PathRefused, pathparser_valid_format,
         LastPart, pathparser_get_path_part, PartEnd
    <3>2. memory' \subseteq PathMemory'
      BY <1>1, <2>1, <2>2, <2>4 DEF PathMemory
    <3>3. PathInv'
      BY <1>1, <1>2, <1>6, <2>1, <2>4, <3>1 DEF PathInv
    <3>. QED BY <1>1, <1>2, <1>3, <1>6, <3>2, <3>3 DEF OpenInv, EarlyInv, DoneInv
  <2>. QED BY <1>6, <2>3, <2>4 DEF pathparser_parse_path_part
<1>7. CASE /\ root # NULL /\ ListEnds
           /\ IF parts = <<>> \/ root # Drive THEN Finish(0)
              ELSE pc' = "open" /\ UNCHANGED response
           /\ UNCHANGED <<pathvars, memory, refused>>
  <2>1. UNCHANGED <<text, at, root, parts, cut>> /\ memory' = memory
    BY <1>7 DEF pathvars
  <2>2. Split' /\ LastPart' = LastPart /\ ListEnds' /\ PathMemory' = PathMemory
    BY <1>0, <1>1, <1>7, <2>1
  <2>3. CASE (parts = <<>> \/ root # Drive) /\ Finish(0)
    <3>1. PathInv'
      BY <1>1, <1>2, <1>7, <2>1, <2>2, <2>3 DEF PathInv, Finish
    <3>. QED BY <1>2, <1>3, <2>1, <2>3, <3>1 DEF OpenInv, EarlyInv, DoneInv,
                Unsearched, Finish
  <2>4. CASE parts # <<>> /\ root = Drive /\ pc' = "open"
    <3>1. PathInv'
      BY <1>1, <1>2, <1>7, <2>1, <2>2, <2>4 DEF PathInv
    <3>2. EarlyInv'
      BY <1>1, <1>2, <2>1, <2>2, <2>4 DEF EarlyInv
    <3>. QED BY <1>3, <2>4, <3>1, <3>2 DEF OpenInv, DoneInv
  <2>. QED BY <1>7, <2>3, <2>4
<1>. QED BY <1>4, <1>5, <1>6, <1>7 DEF Parse

(* Nothing about the disk, the count and the path changes behind them. *)
LEMMA StaysParsed ==
  ASSUME OpenInv, pc \in {"open", "search", "listing", "clone"}, Looking,
         UNCHANGED total, i' \in Nat \ {0}, pc' \in {"search", "listing", "clone", "done"}
  PROVE  CountInv' /\ PathInv' /\ EarlyInv' /\ PathMemory' = PathMemory
<1>1. /\ UNCHANGED <<disk, text, at, root, parts, cut>>
      /\ root = Drive /\ parts # <<>> /\ ListEnds
  BY DEF Looking, OpenInv, PathInv
<1>2. CountInv'
  BY <1>1 DEF OpenInv, CountInv, Counted, Ends, Deleted
<1>3. Split => Split'
  BY <1>1 DEF Split, Whole, PathRefused, pathparser_valid_format
<1>4. LastPart' = LastPart /\ ListEnds'
  BY <1>1 DEF ListEnds, LastPart, pathparser_get_path_part, PartEnd
<1>5. PathInv'
  BY <1>1, <1>3, <1>4 DEF OpenInv, PathInv
<1>. QED BY <1>1, <1>2, <1>5 DEF EarlyInv, PathMemory

(* The descriptor is allocated and the search begins, or not. *)
LEMMA OpensOn ==
  ASSUME OpenInv, Open
  PROVE  OpenInv'
<1>1. /\ pc = "open" /\ Looking /\ i = 1 /\ found = NULL
      /\ memory \subseteq PathMemory /\ root = Drive /\ parts # <<>>
      /\ total \in Nat
      /\ UNCHANGED <<i, listed, total, seen, found>>
  BY DEF Open, OpenInv, EarlyInv, PathInv, CountInv
<1>2. UNCHANGED <<disk, text, at, root, parts>>
  BY <1>1 DEF Looking
<1>3. CASE /\ memory' = memory \cup {<<"descriptor", 0>>} /\ pc' = "search"
           /\ UNCHANGED <<refused, response>>
  <2>1. CountInv' /\ PathInv' /\ EarlyInv' /\ PathMemory' = PathMemory
    BY <1>1, <1>3, StaysParsed
  <2>2. \A m \in memory' : Kept(m)'
    <3>1. memory' \subseteq PathMemory' \cup {<<"descriptor", 0>>}
      BY <1>1, <1>3, <2>1
    <3>. QED BY <3>1 DEF Kept
  <2>3. InRoot'
    <3>1. 1 .. i' - 1 = {}
      BY <1>1
    <3>. QED BY <1>1, <1>3, <2>2, <3>1 DEF InRoot, FoundOne, FoundLast
  <2>4. Searching'
    BY <1>1, <1>2, <1>3, <2>3 DEF Searching
  <2>. QED BY <1>3, <2>1, <2>4 DEF OpenInv, DoneInv
<1>4. CASE refused' = TRUE /\ Finish(0)
  <2>1. CountInv' /\ PathInv' /\ EarlyInv'
    BY <1>1, <1>4, StaysParsed DEF Finish
  <2>. QED BY <1>4, <2>1 DEF OpenInv, DoneInv, Unsearched, Finish
<1>. QED BY <1>3, <1>4 DEF Open

-----------------------------------------------------------------------------
(* Everything a search reads that it does not write. *)
LEMMA SearchFrame ==
  ASSUME OpenInv, pc \in {"search", "listing", "clone"}, Looking, UNCHANGED total
  PROVE  /\ Searching /\ i \in Nat \ {0} /\ i \in 1 .. total + 1 /\ total \in Nat
         /\ UNCHANGED <<disk, parts, root>> /\ root = Drive /\ parts # <<>>
         /\ PathMemory' = PathMemory
         /\ \A k : Match(k)' = Match(k)
BY DEF OpenInv, Searching, CountInv, Looking, PathMemory, Match

(* What is kept stays so when the search goes on to the next item. *)
LEMMA KeptOn ==
  ASSUME UNCHANGED <<disk, parts>>, PathMemory' = PathMemory,
         \A k : Match(k)' = Match(k),
         pc = "search", i \in Nat \ {0}, i' \in {i, i + 1},
         found' = found \/ found' = NULL,
         NEW m, Kept(m)
  PROVE  Kept(m)'
<1>1. CASE m \in PathMemory \cup {<<"descriptor", 0>>}
  BY <1>1 DEF Kept
<1>2. ASSUME NEW x \in {"item", "clone", "directory"}, NEW k \in 1 .. i,
             m = <<x, k>>, Match(k),
             k = i => pc \in {"listing", "clone"},
             x = "directory" => Directory(disk[k]),
             k < i /\ found # NULL => k <= found.at
      PROVE  Kept(m)'
  <2>1. k < i /\ k \in 1 .. i' /\ k < i'
    BY <1>2
  <2>2. Match(k)' /\ (x = "directory" => Directory(disk'[k]))
    BY <1>2
  <2>3. found' # NULL => k <= found'.at
    BY <1>2, <2>1
  <2>. QED BY <1>2, <2>1, <2>2, <2>3 DEF Kept, Directory
<1>. QED BY <1>1, <1>2 DEF Kept

(* The item itself, where the array still has it. *)
LEMMA ItemIs ==
  ASSUME total <= RootEntries, i <= total, i \in Nat, total \in Nat, NEW item \in ItemAt(i)
  PROVE  item = disk[i]
<1>1. i <= RootEntries
  BY FatOpenAssumption
<1>. QED BY <1>1 DEF ItemAt

(* The search looks at an item, or ends behind the last one. *)
LEMMA SearchesOn ==
  ASSUME OpenInv, Search
  PROVE  OpenInv'
<1>1. /\ pc = "search" /\ Looking /\ UNCHANGED total
  BY DEF Search
<1>2. /\ Searching /\ i \in Nat \ {0} /\ i \in 1 .. total + 1 /\ total \in Nat
      /\ UNCHANGED <<disk, parts, root>> /\ root = Drive /\ parts # <<>>
      /\ PathMemory' = PathMemory
      /\ \A k : Match(k)' = Match(k)
  BY <1>1, SearchFrame
<1>3. ASSUME i' \in {i, i + 1}, found' = found \/ found' = NULL, NEW m, Kept(m)
      PROVE  Kept(m)'
  BY <1>1, <1>2, <1>3, KeptOn
<1>4. ASSUME i' \in Nat \ {0}, pc' \in {"search", "listing", "clone", "done"}
      PROVE  CountInv' /\ PathInv' /\ EarlyInv'
  BY <1>1, <1>4, StaysParsed
<1>5. CASE /\ i > total /\ Finish(IF NotFound THEN 0 ELSE 1)
           /\ UNCHANGED <<i, listed, seen, found, memory, refused>>
  <2>1. ASSUME total <= RootEntries PROVE InRoot'
    <3>1. InRoot
      BY <1>2, <2>1 DEF Searching
    <3>2. FoundOne' /\ FoundLast'
      BY <1>2, <1>5, <3>1 DEF InRoot, FoundOne, FoundLast
    <3>3. \A m \in memory' : Kept(m)'
      BY <1>2, <1>3, <1>5, <3>1 DEF InRoot
    <3>. QED BY <1>5, <3>2, <3>3 DEF InRoot, Finish
  <2>2. Searching'
    BY <1>1, <1>2, <1>5, <2>1 DEF Searching, Finish
  <2>3. i' = total' + 1 /\ response' = IF NotFound' THEN 0 ELSE 1
    BY <1>1, <1>2, <1>5 DEF Finish, NotFound
  <2>4. CountInv' /\ PathInv' /\ EarlyInv'
    BY <1>2, <1>4, <1>5 DEF Finish
  <2>. QED BY <1>5, <2>2, <2>3, <2>4 DEF OpenInv, DoneInv, Finish
<1>6. CASE /\ i <= total
           /\ \E item \in ItemAt(i) :
                ~ SameName(fat16_get_full_relative_filename(item), parts[1])
           /\ i' = i + 1
           /\ UNCHANGED <<pc, listed, seen, found, memory, refused, response>>
  <2>1. ASSUME total <= RootEntries PROVE InRoot'
    <3>1. InRoot
      BY <1>2, <2>1 DEF Searching
    <3>2. ~ Match(i)
      BY <1>2, <1>6, <2>1, ItemIs DEF Match
    <3>3. FoundOne'
      BY <1>2, <1>6, <3>1 DEF InRoot, FoundOne
    <3>4. FoundLast'
      <4>1. ASSUME ~ refused
            PROVE  /\ \A k \in 1 .. i : Match(k) => found # NULL /\ k <= found.at
                   /\ found # NULL => found = [at |-> found.at, item |-> disk[found.at]]
        <5>1. \A k \in 1 .. i : k = i \/ k \in 1 .. i - 1
          BY <1>2
        <5>. QED BY <3>1, <3>2, <4>1, <5>1 DEF InRoot, FoundLast
      <4>2. i' - 1 = i
        BY <1>2, <1>6
      <4>. QED BY <1>2, <1>6, <4>1, <4>2 DEF FoundLast
    <3>5. \A m \in memory' : Kept(m)'
      BY <1>2, <1>3, <1>6, <3>1 DEF InRoot
    <3>. QED BY <1>1, <1>6, <3>3, <3>4, <3>5 DEF InRoot
  <2>2. Searching'
    BY <1>1, <1>2, <1>6, <2>1 DEF Searching
  <2>3. CountInv' /\ PathInv' /\ EarlyInv'
    BY <1>1, <1>2, <1>4, <1>6
  <2>. QED BY <1>1, <1>6, <2>2, <2>3 DEF OpenInv, DoneInv
<1>7. CASE /\ i <= total
           /\ \E item \in ItemAt(i) :
                /\ SameName(fat16_get_full_relative_filename(item), parts[1])
                /\ seen' = item
                /\ listed' = item.cluster
                /\ pc' \in {"clone"} \cup IF Directory(item) THEN {"listing"} ELSE {}
           /\ memory' = memory \cup {<<"item", i>>}
           /\ UNCHANGED <<i, found, refused, response>>
  <2>0. pc' \in {"clone", "listing"}
    BY <1>7
  <2>1. ASSUME total <= RootEntries PROVE InRoot'
    <3>1. InRoot
      BY <1>2, <2>1 DEF Searching
    <3>2. Match(i) /\ seen' = disk[i] /\ (pc' = "listing" => Directory(disk[i]))
      <4>1. PICK item \in ItemAt(i) :
              /\ SameName(fat16_get_full_relative_filename(item), parts[1])
              /\ seen' = item
              /\ pc' \in {"clone"} \cup IF Directory(item) THEN {"listing"} ELSE {}
        BY <1>7
      <4>2. item = disk[i]
        BY <1>2, <1>7, <2>1, ItemIs
      <4>. QED BY <4>1, <4>2 DEF Match
    <3>3. FoundOne' /\ FoundLast'
      BY <1>2, <1>7, <3>1 DEF InRoot, FoundOne, FoundLast
    <3>4. ASSUME NEW m \in memory' PROVE Kept(m)'
      <4>1. CASE m \in memory
        BY <1>2, <1>3, <1>7, <3>1, <4>1 DEF InRoot
      <4>2. CASE m = <<"item", i>>
        <5>1. i' \in 1 .. i' /\ Match(i)' /\ i' = i /\ pc' \in {"listing", "clone"}
          BY <1>2, <1>7, <2>0, <3>2
        <5>. QED BY <1>2, <4>2, <5>1 DEF Kept
      <4>. QED BY <1>7, <4>1, <4>2
    <3>5. pc' \in {"listing", "clone"} => seen' = disk'[i'] /\ Match(i)' /\ i' = i
      BY <1>2, <1>7, <3>2
    <3>6. pc' = "listing" => Directory(disk[i])'
      BY <1>2, <1>7, <3>2 DEF Directory
    <3>. QED BY <3>3, <3>4, <3>5, <3>6 DEF InRoot, Match
  <2>2. Searching'
    BY <1>1, <1>2, <1>7, <2>1 DEF Searching
  <2>3. CountInv' /\ PathInv' /\ EarlyInv'
    BY <1>2, <1>4, <1>7, <2>0
  <2>. QED BY <2>0, <2>2, <2>3 DEF OpenInv, DoneInv
<1>8. CASE /\ i <= total
           /\ \E item \in ItemAt(i) :
                SameName(fat16_get_full_relative_filename(item), parts[1])
           /\ found' = NULL /\ refused' = TRUE
           /\ i' = i + 1
           /\ UNCHANGED <<pc, listed, seen, memory, response>>
  <2>1. ASSUME total <= RootEntries PROVE InRoot'
    <3>1. InRoot
      BY <1>2, <2>1 DEF Searching
    <3>2. FoundOne' /\ FoundLast'
      BY <1>8 DEF FoundOne, FoundLast
    <3>3. \A m \in memory' : Kept(m)'
      BY <1>2, <1>3, <1>8, <3>1 DEF InRoot
    <3>. QED BY <1>1, <1>8, <3>2, <3>3 DEF InRoot
  <2>2. Searching'
    BY <1>1, <1>2, <1>8, <2>1 DEF Searching
  <2>3. CountInv' /\ PathInv' /\ EarlyInv'
    BY <1>1, <1>2, <1>4, <1>8
  <2>. QED BY <1>1, <1>8, <2>2, <2>3 DEF OpenInv, DoneInv
<1>. QED BY <1>5, <1>6, <1>7, <1>8 DEF Search

(* A subdirectory's listing is counted and then loaded, or not. *)
LEMMA LoadsOn ==
  ASSUME OpenInv, LoadDirectory
  PROVE  OpenInv'
<1>1. /\ pc = "listing" /\ Looking /\ UNCHANGED <<i, total, seen, found, refused, response>>
      /\ pc' \in {"listing", "clone"}
      /\ memory' = memory \/ memory' = memory \cup {<<"directory", i>>}
  BY DEF LoadDirectory
<1>2. /\ Searching /\ i \in Nat \ {0} /\ i \in 1 .. total + 1 /\ total \in Nat
      /\ UNCHANGED <<disk, parts, root>> /\ root = Drive /\ parts # <<>>
      /\ PathMemory' = PathMemory
      /\ \A k : Match(k)' = Match(k)
  BY <1>1, SearchFrame
<1>3. CountInv' /\ PathInv' /\ EarlyInv'
  BY <1>1, <1>2, StaysParsed
<1>4. ASSUME total <= RootEntries PROVE InRoot'
  <2>1. InRoot /\ seen = disk[i] /\ Match(i) /\ Directory(disk[i])
    BY <1>1, <1>2, <1>4 DEF Searching, InRoot
  <2>2. FoundOne' /\ FoundLast'
    BY <1>1, <1>2, <2>1 DEF InRoot, FoundOne, FoundLast
  <2>3. ASSUME NEW m \in memory' PROVE Kept(m)'
    <3>1. CASE m \in memory
      <4>1. Kept(m)
        BY <2>1, <3>1 DEF InRoot
      <4>. QED BY <1>1, <1>2, <4>1 DEF Kept, Directory
    <3>2. CASE m = <<"directory", i>>
      <4>1. i' \in 1 .. i' /\ Match(i)' /\ i' = i /\ Directory(disk[i])'
        BY <1>1, <1>2, <2>1 DEF Directory
      <4>. QED BY <1>1, <3>2, <4>1 DEF Kept
    <3>. QED BY <1>1, <3>1, <3>2
  <2>4. seen' = disk'[i'] /\ Match(i)' /\ i' = i /\ Directory(disk[i])'
    BY <1>1, <1>2, <2>1 DEF Directory
  <2>. QED BY <2>2, <2>3, <2>4 DEF InRoot, Match
<1>5. Searching'
  BY <1>1, <1>2, <1>4 DEF Searching
<1>. QED BY <1>1, <1>3, <1>5 DEF OpenInv, DoneInv

(* The item found is cloned, and the search goes on. *)
LEMMA ClonesOn ==
  ASSUME OpenInv, Clone
  PROVE  OpenInv'
<1>1. /\ pc = "clone" /\ Looking /\ UNCHANGED <<listed, total, seen, response>>
      /\ pc' = "search" /\ i' = i + 1
      /\ \/ found' = [at |-> i, item |-> seen] /\ UNCHANGED refused
         \/ found' = [at |-> i, item |-> NULL] /\ refused' = TRUE
      /\ memory' = memory \/ memory' = memory \cup {<<"clone", i>>}
  BY DEF Clone
<1>2. /\ Searching /\ i \in Nat \ {0} /\ i \in 1 .. total + 1 /\ total \in Nat
      /\ UNCHANGED <<disk, parts, root>> /\ root = Drive /\ parts # <<>>
      /\ PathMemory' = PathMemory
      /\ \A k : Match(k)' = Match(k)
  BY <1>1, SearchFrame
<1>3. CountInv' /\ PathInv' /\ EarlyInv'
  BY <1>1, <1>2, StaysParsed
<1>4. i <= total
  BY <1>1, <1>2 DEF Searching
<1>5. ASSUME total <= RootEntries PROVE InRoot'
  <2>1. InRoot /\ seen = disk[i] /\ Match(i)
    BY <1>1, <1>2, <1>5 DEF Searching, InRoot
  <2>2. disk[i] \in Items
    <3>1. disk \in Seq(Items) /\ Len(disk) >= RootEntries /\ RootEntries \in Nat
      BY FatOpenAssumption DEF OpenInv, PathInv
    <3>2. i \in 1 .. Len(disk)
      BY <1>2, <1>4, <1>5, <3>1
    <3>. QED BY <3>1, <3>2
  <2>3. found' # NULL /\ found'.at = i
    <3>1. found' \in [at : Nat, item : Items \cup {NULL}] /\ found'.at = i
      BY <1>1, <1>2, <2>1, <2>2
    <3>. QED BY <3>1, FatOpenAssumption
  <2>4. i' - 1 = i /\ i \in 1 .. i /\ i \in 1 .. i' /\ i # i' /\ i < i'
    BY <1>1, <1>2
  <2>5. FoundOne'
    <3>1. SameName(fat16_get_full_relative_filename(disk'[i]), parts'[1])
      BY <1>2, <2>1 DEF Match
    <3>. QED BY <2>3, <2>4, <3>1 DEF FoundOne, Match
  <2>6. FoundLast'
    <3>1. \A k \in 1 .. i' - 1 : k <= found'.at
      BY <1>2, <2>3, <2>4
    <3>2. ~ refused' => found' = [at |-> i, item |-> disk'[i]]
      BY <1>1, <1>2, <2>1
    <3>. QED BY <2>3, <3>1, <3>2 DEF FoundLast
  <2>7. ASSUME NEW x \in {"item", "clone", "directory"}, NEW k \in 1 .. i,
               Match(k), x = "directory" => Directory(disk[k])
        PROVE  Kept(<<x, k>>)'
    <3>1. k \in 1 .. i' /\ k # i' /\ k <= i
      BY <1>1, <1>2
    <3>2. Match(k)' /\ (x = "directory" => Directory(disk[k])')
      BY <1>2, <2>7 DEF Directory
    <3>. QED BY <2>3, <3>1, <3>2 DEF Kept
  <2>8. ASSUME NEW m \in memory' PROVE Kept(m)'
    <3>1. CASE m \in PathMemory \cup {<<"descriptor", 0>>}
      BY <1>2, <3>1 DEF Kept
    <3>2. CASE m \in memory /\ m \notin PathMemory \cup {<<"descriptor", 0>>}
      <4>1. Kept(m)
        BY <2>1, <3>2 DEF InRoot
      <4>. QED BY <2>7, <3>2, <4>1 DEF Kept
    <3>3. CASE m = <<"clone", i>>
      BY <2>1, <2>4, <2>7, <3>3
    <3>. QED BY <1>1, <3>1, <3>2, <3>3
  <2>. QED BY <1>1, <2>5, <2>6, <2>8 DEF InRoot
<1>6. Searching'
  BY <1>1, <1>2, <1>4, <1>5 DEF Searching
<1>. QED BY <1>1, <1>3, <1>6 DEF OpenInv, DoneInv

(* A stutter. *)
LEMMA StaysOpen ==
  ASSUME OpenInv, UNCHANGED vars
  PROVE  OpenInv'
<1>1. /\ UNCHANGED <<text, at, root, parts, cut>>
      /\ UNCHANGED <<disk, pc, i, listed, total, seen, found, memory, refused, response>>
  BY DEF vars, pathvars
<1>2. CountInv'
  BY <1>1 DEF OpenInv, CountInv, Counted, Ends, Deleted
<1>3. PathInv'
  BY <1>1 DEF OpenInv, PathInv, Split, Whole, PathRefused, pathparser_valid_format,
     ListEnds, LastPart, pathparser_get_path_part, PartEnd
<1>4. EarlyInv'
  BY <1>1 DEF OpenInv, EarlyInv, PathMemory
<1>5. \A k : Match(k)' = Match(k)
  BY <1>1 DEF Match
<1>6. \A m : Kept(m) => Kept(m)'
  BY <1>1, <1>5 DEF Kept, PathMemory, Directory
<1>7. InRoot => InRoot'
  <2>1. FoundOne /\ FoundLast => FoundOne' /\ FoundLast'
    BY <1>1, <1>5 DEF FoundOne, FoundLast
  <2>2. /\ (pc \in {"listing", "clone"} => seen = disk[i] /\ Match(i))
             => (pc \in {"listing", "clone"} => seen = disk[i] /\ Match(i))'
        /\ Directory(disk[i])' = Directory(disk[i])
    BY <1>1 DEF Match, Directory
  <2>. QED BY <1>1, <1>6, <2>1, <2>2 DEF InRoot
<1>8. Searching => Searching'
  BY <1>1, <1>7 DEF Searching
<1>9. DoneInv'
  BY <1>1, <1>8 DEF OpenInv, DoneInv, Unsearched, NotFound
<1>. QED BY <1>1, <1>2, <1>3, <1>4, <1>8, <1>9 DEF OpenInv

(***************************************************************************)
(* Every step of an open, with whatever memory refused, keeps count, path, *)
(* what was found and what is in memory in step.                           *)
(***************************************************************************)
THEOREM OpenInvariant == Spec => []OpenInv
<1>1. OpenInv /\ [Next]_vars => OpenInv'
  BY CountsOn, ParsesOn, OpensOn, SearchesOn, LoadsOn, ClonesOn, StaysOpen DEF Next
<1>. QED BY <1>1, InitOpenInv, PTL DEF Spec

(***************************************************************************)
(* pathparser_parse takes a path apart at its slashes up to the first      *)
(* empty part, whatever the path, and refuses what has no drive.           *)
(***************************************************************************)
THEOREM OpenParsesAsSplit == Spec => []ParsedAsSplit
<1>1. OpenInv => ParsedAsSplit
  <2>. SUFFICES ASSUME OpenInv PROVE ParsedAsSplit
    OBVIOUS
  <2>1. PathRefused => root = NULL
    BY DEF OpenInv, PathInv, Split
  <2>2. ASSUME pc \in {"open", "search", "listing", "clone"}
        PROVE  SplitUpToEmptyPart
    <3>1. root # NULL /\ text \in Words /\ (cut => ~ LastPart) /\ (~ cut => LastPart)
      BY <2>2, FatOpenAssumption DEF OpenInv, PathInv, ListEnds
    <3>. QED BY <3>1, SplitAtEnd DEF OpenInv, PathInv
  <2>. QED BY <2>1, <2>2 DEF ParsedAsSplit
<1>. QED BY <1>1, OpenInvariant, PTL

-----------------------------------------------------------------------------
(* A search that is over. *)
LEMMA SearchOver ==
  ASSUME OpenInv, pc = "done", Searching, i = total + 1, total <= RootEntries
  PROVE  /\ InRoot /\ parts[1] \in Words /\ Len(parts) \in Nat \ {0} /\ total \in Nat
         /\ \A k \in 1 .. total : k \in 1 .. RootEntries /\ disk[k] \in Items
         /\ \A k \in 1 .. total : ~ Ends(disk[k])
         /\ 1 .. i - 1 = 1 .. total
<1>1. InRoot /\ parts # <<>> /\ parts \in Seq(Words) /\ disk \in Seq(Items)
  BY DEF Searching, OpenInv, PathInv
<1>2. Len(parts) \in Nat \ {0} /\ parts[1] \in Words
  BY <1>1
<1>3. /\ total \in Nat /\ RootEntries \in Nat /\ Len(disk) >= RootEntries
      /\ Len(disk) \in Nat
  BY <1>1, FatOpenAssumption DEF OpenInv, CountInv, PathInv
<1>4. PICK e \in 1 .. Len(disk) : Counted(e, total)
  BY DEF OpenInv, CountInv
<1>5. \A k \in 1 .. total : ~ Ends(disk[k])
  BY <1>3, <1>4 DEF Counted
<1>6. \A k \in 1 .. total : k \in 1 .. RootEntries /\ disk[k] \in Items
  BY <1>1, <1>3
<1>7. 1 .. i - 1 = 1 .. total
  BY <1>3
<1>. QED BY <1>1, <1>2, <1>3, <1>5, <1>6, <1>7

(* Whoever asks for a name a file can have gets a file that has it. *)
LEMMA NeverAnother ==
  ASSUME OpenInv, pc = "done", response = 1, total <= RootEntries, Spellable(parts[1])
  PROVE  found.at \in Namesakes(parts[1])
<1>1. Searching /\ i = total + 1 /\ ~ NotFound
  BY DEF OpenInv, DoneInv, Unsearched
<1>2. /\ InRoot /\ parts[1] \in Words /\ total \in Nat
      /\ \A k \in 1 .. total : k \in 1 .. RootEntries /\ disk[k] \in Items
      /\ \A k \in 1 .. total : ~ Ends(disk[k])
      /\ 1 .. i - 1 = 1 .. total
  BY <1>1, SearchOver
<1>3. PICK k \in 1 .. total : k = found.at /\ Match(k)
  BY <1>1, <1>2 DEF InRoot, FoundOne, NotFound
<1>4. PICK it \in Items : /\ it.name # <<>> /\ ~ Deleted(it)
                          /\ Alike(NameOf(it), parts[1])
  BY DEF Spellable
<1>5. PICK item \in Items : item = disk[k]
  BY <1>2
<1>6. PICK p \in Words : p = parts[1]
  BY <1>2
<1>7. PICK t \in Words : t = NameOf(it)
  BY NameShape DEF NameShaped
<1>8. PICK s \in Words : s = fat16_get_full_relative_filename(item)
  BY FullShape DEF FullShaped
<1>9. SameName(s, p)
  BY <1>3, <1>5, <1>6, <1>8 DEF Match
<1>10. SameName(t, p)
  BY <1>4, <1>6, <1>7, AlikeIsSame
<1>11. SameName(s, t)
  BY <1>9, <1>10, SameNames
<1>12. s = NameOf(item)
  BY <1>7, <1>8, <1>11, NoOtherName
<1>13. Alike(NameOf(disk[k]), parts[1])
  <2>1. Alike(s, p)
    BY <1>9, AlikeIsSame
  <2>. QED BY <1>5, <1>6, <1>12, <2>1
<1>14. ~ Deleted(item)
  <2>. SUFFICES ASSUME item.name # <<>>, item.name[1] = DELETED PROVE FALSE
    BY DEF Deleted
  <2>1. Fields(item) /\ Fields(it) /\ FullShaped(item, s) /\ NameShaped(it, t)
    BY <1>7, <1>8, ItemFields, FullShape, NameShape
  <2>2. Len(item.name) > 0 /\ Len(it.name) > 0
    BY <1>4, <2>1 DEF Fields
  <2>3. Len(s) > 0 /\ s[1] = DELETED /\ t[1] = it.name[1]
    BY <2>1, <2>2 DEF FullShaped, NameShaped
  <2>4. t[1] = DELETED
    BY <1>11, <2>3, SameShape
  <2>. QED BY <1>4, <2>3, <2>4 DEF Deleted
<1>15. k \in Visible
  <2>1. \A j \in 1 .. k : ~ Ends(disk[j])
    BY <1>2
  <2>. QED BY <1>2, <1>5, <1>14, <2>1 DEF Visible
<1>. QED BY <1>3, <1>13, <1>15 DEF Namesakes

(* In an orderly directory the items counted are the files one sees. *)
LEMMA OrderlyCount ==
  ASSUME OpenInv, pc # "count", Orderly
  PROVE  total <= RootEntries /\ Visible = 1 .. total
<1>1. /\ total \in Nat /\ RootEntries \in Nat /\ disk \in Seq(Items)
      /\ Len(disk) \in Nat
  BY FatOpenAssumption DEF OpenInv, CountInv, PathInv
<1>2. PICK e \in 1 .. Len(disk) : Ends(disk[e]) /\ Counted(e, total)
  BY DEF OpenInv, CountInv
<1>3. PICK h \in 1 .. RootEntries + 1 : h <= Len(disk) /\ Ends(disk[h])
  BY DEF Orderly
<1>4. e <= h
  BY <1>1, <1>2, <1>3 DEF Counted
<1>5. total = e - 1
  <2>1. e <= RootEntries + 1
    BY <1>1, <1>3, <1>4
  <2>. QED BY <1>2, <2>1 DEF Counted, Orderly
<1>6. total <= RootEntries
  BY <1>1, <1>3, <1>4, <1>5
<1>7. ASSUME NEW k \in 1 .. total PROVE k \in Visible
  <2>1. k \in 1 .. RootEntries
    BY <1>1, <1>6
  <2>2. \A j \in 1 .. k : ~ Ends(disk[j])
    BY <1>1, <1>2, <1>5 DEF Counted
  <2>. QED BY <2>1, <2>2 DEF Visible, Orderly
<1>8. ASSUME NEW k \in Visible PROVE k \in 1 .. total
  <2>1. k \in 1 .. RootEntries /\ \A j \in 1 .. k : ~ Ends(disk[j])
    BY DEF Visible
  <2>2. k < e
    <3>1. CASE e <= k
      <4>1. e \in 1 .. k
        BY <2>1, <3>1
      <4>. QED BY <1>2, <2>1, <4>1
    <3>2. CASE ~ (e <= k)
      BY <1>1, <2>1, <3>2
    <3>. QED BY <3>1, <3>2
  <2>. QED BY <1>1, <1>5, <2>1, <2>2
<1>. QED BY <1>6, <1>7, <1>8

(* There a search that memory allowed finds the last file of the name. *)
LEMMA FindsWhatIsThere ==
  ASSUME OpenInv, pc = "done", Orderly, ~ refused, root = Drive,
         NEW names, names = Namesakes(parts[1])
  PROVE  IF Len(parts) = 1 /\ names # {}
         THEN response = 1 /\ found = [at |-> Max(names), item |-> disk[Max(names)]]
         ELSE response = 0
<1>1. CASE Unsearched
  <2>1. root # NULL
    BY FatOpenAssumption
  <2>2. parts = <<>> /\ response = 0
    BY <1>1, <2>1 DEF Unsearched
  <2>3. Len(parts) = 0
    BY <2>2
  <2>. QED BY <2>2, <2>3
<1>2. CASE Searching /\ i = total + 1 /\ response = IF NotFound THEN 0 ELSE 1
  <2>1. total <= RootEntries /\ Visible = 1 .. total
    BY OrderlyCount
  <2>2. /\ InRoot /\ parts[1] \in Words /\ Len(parts) \in Nat \ {0} /\ total \in Nat
        /\ \A k \in 1 .. total : disk[k] \in Items
        /\ 1 .. i - 1 = 1 .. total
    BY <1>2, <2>1, SearchOver
  <2>3. ASSUME NEW k \in 1 .. total PROVE k \in names <=> Match(k)
    <3>1. PICK item \in Items : item = disk[k]
      BY <2>2
    <3>2. PICK p \in Words : p = parts[1]
      BY <2>2
    <3>3. PICK t \in Words : t = NameOf(item)
      BY NameShape DEF NameShaped
    <3>4. PICK s \in Words : s = fat16_get_full_relative_filename(item)
      BY FullShape DEF FullShaped
    <3>5. Alike(s, t)
      BY <2>1, <3>1, <3>3, <3>4 DEF Orderly
    <3>6. SameName(s, t) /\ SameName(t, s)
      BY <3>5, AlikeIsSame, SameNames
    <3>7. SameName(s, p) <=> SameName(t, p)
      BY <3>6, SameNames
    <3>8. Alike(t, p) <=> SameName(t, p)
      BY AlikeIsSame
    <3>9. k \in names <=> Alike(t, p)
      BY <2>1, <3>1, <3>2, <3>3 DEF Namesakes
    <3>10. Match(k) <=> SameName(s, p)
      BY <3>1, <3>2, <3>4 DEF Match
    <3>. QED BY <3>7, <3>8, <3>9, <3>10
  <2>4. names \subseteq 1 .. total
    BY <2>1 DEF Namesakes
  <2>5. CASE names = {}
    <3>1. found = NULL
      BY <2>2, <2>3, <2>5 DEF InRoot, FoundOne
    <3>. QED BY <1>2, <2>5, <3>1 DEF NotFound
  <2>6. CASE names # {}
    <3>1. PICK k \in names : TRUE
      BY <2>6
    <3>2. found # NULL /\ found.at \in 1 .. total /\ Match(found.at)
      BY <2>2, <2>3, <2>4, <3>1 DEF InRoot, FoundOne, FoundLast
    <3>3. PICK m \in names : m = found.at
      BY <2>3, <3>2
    <3>4. names \subseteq Int /\ \A n \in names : n <= m
      <4>1. \A n \in 1 .. total : Match(n) => n <= m
        BY <2>2, <3>3 DEF InRoot, FoundLast
      <4>2. \A n \in names : n \in 1 .. total /\ n \in Int
        BY <2>2, <2>4
      <4>3. \A n \in names : n <= m
        BY <2>3, <4>1, <4>2, Zenon
      <4>. QED BY <4>2, <4>3, Zenon
    <3>5. Max(names) = m
      BY <3>4, MaxIs
    <3>6. found = [at |-> m, item |-> disk[m]]
      BY <2>2, <3>2, <3>3 DEF InRoot, FoundLast
    <3>7. response = IF Len(parts) > 1 THEN 0 ELSE 1
      BY <1>2, <3>2 DEF NotFound
    <3>8. Len(parts) = 1 <=> ~ (Len(parts) > 1)
      <4>1. PICK l \in Nat \ {0} : l = Len(parts)
        BY <2>2
      <4>2. l = 1 <=> ~ (l > 1)
        OBVIOUS
      <4>. QED BY <4>1, <4>2
    <3>. QED BY <2>6, <3>5, <3>6, <3>7, <3>8
  <2>. QED BY <2>5, <2>6
<1>. QED BY <1>1, <1>2 DEF OpenInv, DoneInv

(***************************************************************************)
(* fopen opens no file of another name, and finds the file that is named   *)
(* in every orderly directory, for any directory, names and memory.        *)
(***************************************************************************)
THEOREM OpenFindsNamedFile == Spec => []FindsNamedFile
<1>1. OpenInv => FindsNamedFile
  <2>. SUFFICES ASSUME OpenInv, pc = "done"
                PROVE  /\ response = 1 /\ total <= RootEntries /\ Spellable(parts[1]) =>
                            found.at \in Namesakes(parts[1])
                       /\ Orderly /\ ~ refused /\ root = Drive =>
                            LET names == Namesakes(parts[1]) IN
                            IF Len(parts) = 1 /\ names # {}
                            THEN response = 1 /\ found = [at |-> Max(names),
                                                          item |-> disk[Max(names)]]
                            ELSE response = 0
    BY Zenon DEF FindsNamedFile
  <2>. QED BY NeverAnother, FindsWhatIsThere
<1>. QED BY <1>1, OpenInvariant, PTL

(***************************************************************************)
(* What a successful open leaves in memory, besides what its descriptor    *)
(* needs, is the path and what is named like the file: earlier namesakes   *)
(* and the listing of a directory.                                         *)
(***************************************************************************)
THEOREM OpenLosesPathAndNamesakes == Spec => []LosesPathAndNamesakes
<1>1. OpenInv => LosesPathAndNamesakes
  <2>. SUFFICES ASSUME OpenInv, pc = "done", response = 1, total <= RootEntries,
                       NEW m \in memory \ (Needed \cup PathMemory)
                PROVE  /\ Alike(fat16_get_full_relative_filename(disk[m[2]]), parts[1])
                       /\ m[1] \in {"item", "clone"} => m[2] < found.at
                       /\ m[1] = "directory" => disk[m[2]].attribute = SUBDIRECTORY
    BY DEF LosesPathAndNamesakes
  <2>1. Searching /\ i = total + 1 /\ ~ NotFound
    BY DEF OpenInv, DoneInv, Unsearched
  <2>2. /\ InRoot /\ parts[1] \in Words /\ total \in Nat
        /\ \A k \in 1 .. total : disk[k] \in Items
        /\ 1 .. i - 1 = 1 .. total
    BY <2>1, SearchOver
  <2>3. found # NULL /\ found.at \in 1 .. total
    BY <2>1, <2>2 DEF InRoot, FoundOne, NotFound
  <2>4. Kept(m)
    BY <2>2 DEF InRoot
  <2>5. PICK x \in {"item", "clone", "directory"}, k \in 1 .. i :
          /\ m = <<x, k>> /\ Match(k)
          /\ k # i
          /\ x = "directory" => Directory(disk[k])
          /\ k < i => k <= found.at
    BY <2>3, <2>4 DEF Kept, Needed
  <2>6. k \in 1 .. total /\ k <= found.at /\ m[1] = x /\ m[2] = k
    BY <2>1, <2>2, <2>5
  <2>7. Alike(fat16_get_full_relative_filename(disk[k]), parts[1])
    <3>1. fat16_get_full_relative_filename(disk[k]) \in Words
      BY <2>2, <2>6, FullShape DEF FullShaped
    <3>. QED BY <2>2, <2>5, <3>1, AlikeIsSame DEF Match
  <2>8. x \in {"item", "clone"} => k # found.at
    BY <2>5 DEF Needed
  <2>. QED BY <2>2, <2>3, <2>5, <2>6, <2>7, <2>8 DEF Directory
<1>. QED BY <1>1, OpenInvariant, PTL
=============================================================================
