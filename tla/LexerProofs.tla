----------------------------- MODULE LexerProofs -----------------------------
(***************************************************************************)
(* Proofs of what TokenFiles states of the token files, by way of LexInv.  *)
(***************************************************************************)
EXTENDS TokenFiles

-----------------------------------------------------------------------------
(* Greatest and least numbers, and sets of them that are moved.            *)

LEMMA MinFacts ==
    ASSUME NEW S, S \subseteq Nat, S # {}
    PROVE  Min(S) \in S /\ \A k \in S : Min(S) <= k
<1>1. \E x \in S : \A y \in S : x <= y
  BY LeastNat
<1>2. QED
  BY <1>1 DEF Min

LEMMA MaxFacts ==
    ASSUME NEW n \in Nat, NEW S, S \subseteq 0..n, S # {}
    PROVE  Max(S) \in S /\ \A k \in S : k <= Max(S)
<1> DEFINE T == {n - k : k \in S}
<1>1. T \subseteq Nat /\ T # {}
  <2>1. \A k \in 0..n : n - k \in Nat
    OBVIOUS
  <2>2. QED
    BY <2>1
<1> HIDE DEF T
<1>2. PICK m \in T : \A t \in T : m <= t
  BY <1>1, LeastNat
<1>3. PICK x \in S : m = n - x
  BY <1>2 DEF T
<1>4. ASSUME NEW y \in S PROVE x >= y
  <2>1. n - y \in T
    BY DEF T
  <2>2. n - x <= n - y
    BY <2>1, <1>2, <1>3
  <2>3. QED
    BY <2>2
<1>5. \E z \in S : \A y \in S : z >= y
  BY <1>4
<1>6. Max(S) \in S /\ \A y \in S : Max(S) >= y
  BY <1>5 DEF Max
<1>7. QED
  BY <1>6

LEMMA MaxIs ==
    ASSUME NEW n \in Nat, NEW S, S \subseteq 0..n, NEW m \in S, \A k \in S : k <= m
    PROVE  Max(S) = m
<1>1. Max(S) \in S /\ \A k \in S : k <= Max(S)
  BY MaxFacts
<1>2. Max(S) <= m /\ m <= Max(S)
  BY <1>1
<1>3. Max(S) \in Int /\ m \in Int
  <2>1. 0..n \subseteq Int
    OBVIOUS
  <2>2. QED
    BY <2>1, <1>1
<1>4. QED
  BY <1>2, <1>3

LEMMA MovedSet ==
    ASSUME NEW m \in Int, NEW n \in Nat, NEW S, S \subseteq 1..n
    PROVE  /\ IsFiniteSet(S) /\ IsFiniteSet({m + j : j \in S})
           /\ Cardinality({m + j : j \in S}) = Cardinality(S)
           /\ Cardinality(S) \in Nat
<1> DEFINE moved == {m + j : j \in S}
           f == [j \in S |-> m + j]
<1>1. IsFiniteSet(S)
  <2>1. IsFiniteSet(1..n)
    BY FS_Interval
  <2>2. QED
    BY <2>1, FS_Subset
<1>2. f \in Bijection(S, moved)
  <2>1. f \in [S -> moved]
    OBVIOUS
  <2>2. \A a, b \in S : f[a] = f[b] => a = b
    OBVIOUS
  <2>3. \A t \in moved : \E a \in S : f[a] = t
    OBVIOUS
  <2>4. QED
    BY <2>1, <2>2, <2>3 DEF Bijection, Injection, IsInjective, Surjection
<1> HIDE DEF moved, f
<1>3. IsFiniteSet(moved) /\ Cardinality(moved) = Cardinality(S)
  BY <1>1, <1>2, FS_Bijection DEF ExistsBijection
<1>4. QED
  BY <1>1, <1>3, FS_CardinalityType DEF moved

-----------------------------------------------------------------------------
(* Lines and columns.                                                      *)

LEMMA NewlinesFacts ==
    ASSUME NEW text, NEW p \in Nat
    PROVE  /\ NewlinesBefore(text, p) \subseteq 1..p - 1
           /\ IsFiniteSet(NewlinesBefore(text, p)) /\ Cardinality(NewlinesBefore(text, p)) \in Nat
           /\ LineOf(text, p) \in Nat /\ ColumnOf(text, p) \in Int
<1>1. NewlinesBefore(text, p) \subseteq 1..p - 1
  BY DEF NewlinesBefore
<1>2. IsFiniteSet(1..p - 1)
  BY FS_Interval
<1>3. IsFiniteSet(NewlinesBefore(text, p)) /\ Cardinality(NewlinesBefore(text, p)) \in Nat
  BY <1>1, <1>2, FS_Subset, FS_CardinalityType
<1> DEFINE S == {0} \cup NewlinesBefore(text, p)
<1>4. S \subseteq 0..p /\ S # {}
  BY <1>1
<1> HIDE DEF S
<1>5. Max(S) \in S
  BY <1>4, MaxFacts
<1>6. Max(S) \in Int
  <2>1. 0..p \subseteq Int
    OBVIOUS
  <2>2. QED
    BY <2>1, <1>4, <1>5
<1>7. QED
  BY <1>1, <1>3, <1>6 DEF LineOf, ColumnOf, S

\* The ends of lines among n characters from p on, numbered from there.
NewlinesIn(text, p, n) == {j \in 1..n : text[p - 1 + j] = "\n"}

\* What n more characters do to the line and the column.
LEMMA Advance ==
    ASSUME NEW text, NEW p \in Nat, p >= 1, NEW n \in Nat
    PROVE  LET N == NewlinesIn(text, p, n)
           IN  /\ LineOf(text, p + n) = LineOf(text, p) + Cardinality(N)
               /\ Cardinality(N) \in Nat /\ (N # {} => Cardinality(N) >= 1)
               /\ N = {} => ColumnOf(text, p + n) = ColumnOf(text, p) + n
               /\ N # {} => ColumnOf(text, p + n) = n - Max(N) + 1
<1> DEFINE N == NewlinesIn(text, p, n)
           A == NewlinesBefore(text, p)
           B == NewlinesBefore(text, p + n)
           M == {p - 1 + j : j \in N}
<1>0. N = {j \in 1..n : text[p - 1 + j] = "\n"}
  BY DEF NewlinesIn
<1> HIDE DEF N
<1>1. B = A \cup M
  <2>1. ASSUME NEW k \in B PROVE k \in A \cup M
    <3>1. k \in 1..p + n - 1 /\ text[k] = "\n"
      BY DEF NewlinesBefore
    <3>2. CASE k <= p - 1
      BY <3>1, <3>2 DEF NewlinesBefore
    <3>3. CASE ~(k <= p - 1)
      <4>1. k - (p - 1) \in 1..n /\ p - 1 + (k - (p - 1)) = k
        BY <3>1, <3>3
      <4>2. k - (p - 1) \in N
        BY <4>1, <3>1, <1>0
      <4>3. QED
        BY <4>1, <4>2
    <3>4. QED
      BY <3>2, <3>3
  <2>2. A \subseteq B
    BY DEF NewlinesBefore
  <2>3. ASSUME NEW j \in N PROVE p - 1 + j \in B
    <3>1. j \in 1..n /\ text[p - 1 + j] = "\n" /\ p - 1 + j \in 1..p + n - 1
      BY <1>0
    <3>2. QED
      BY <3>1 DEF NewlinesBefore
  <2>4. QED
    BY <2>1, <2>2, <2>3
<1>2. A \subseteq 1..p - 1 /\ IsFiniteSet(A) /\ Cardinality(A) \in Nat
  BY NewlinesFacts
<1>3. N \subseteq 1..n
  BY <1>0
<1> HIDE DEF A, B
<1>4. IsFiniteSet(N) /\ IsFiniteSet(M) /\ Cardinality(M) = Cardinality(N) /\ Cardinality(N) \in Nat
  <2>1. p - 1 \in Int
    OBVIOUS
  <2>2. QED
    BY <2>1, <1>3, MovedSet
<1>5. A \cap M = {}
  BY <1>2, <1>3
<1> HIDE DEF M
<1>6. Cardinality(B) = Cardinality(A) + Cardinality(M) - Cardinality(A \cap M)
  BY <1>1, <1>2, <1>4, FS_Union
<1>7. Cardinality(A \cap M) = 0
  BY <1>5, FS_EmptySet
<1>8. LineOf(text, p + n) = LineOf(text, p) + Cardinality(N)
  BY <1>2, <1>4, <1>6, <1>7 DEF LineOf, A, B
<1>9. N # {} => Cardinality(N) >= 1
  BY <1>4, FS_EmptySet
<1>10. ASSUME N = {} PROVE ColumnOf(text, p + n) = ColumnOf(text, p) + n
  <2>1. M = {}
    BY <1>10 DEF M
  <2>2. B = A
    BY <1>1, <2>1
  <2>3. Max({0} \cup A) \in Int
    <3>1. {0} \cup A \subseteq 0..p /\ {0} \cup A # {}
      BY <1>2
    <3>2. Max({0} \cup A) \in {0} \cup A
      BY <3>1, MaxFacts
    <3>3. 0..p \subseteq Int
      OBVIOUS
    <3>4. QED
      BY <3>1, <3>2, <3>3
  <2>4. ColumnOf(text, p) = p - Max({0} \cup A) /\ ColumnOf(text, p + n) = (p + n) - Max({0} \cup A)
    BY <2>2 DEF ColumnOf, A, B
  <2> HIDE DEF A
  <2>5. QED
    BY <2>3, <2>4
<1>11. ASSUME N # {} PROVE ColumnOf(text, p + n) = n - Max(N) + 1
  <2>1. N \subseteq 0..n
    BY <1>3
  <2>2. Max(N) \in N /\ \A k \in N : k <= Max(N)
    BY <2>1, <1>11, MaxFacts
  <2> DEFINE S == {0} \cup B
             m == p - 1 + Max(N)
  <2>3. m \in M
    BY <2>2 DEF M
  <2>4. m \in S
    BY <2>3, <1>1
  <2>5. S \subseteq 0..p + n
    <3>1. M \subseteq 0..p + n
      BY <1>3 DEF M
    <3>2. A \subseteq 0..p + n
      BY <1>2
    <3>3. QED
      BY <3>1, <3>2, <1>1
  <2>6. Max(N) \in 1..n
    BY <2>2, <1>3
  <2>7. ASSUME NEW k \in S PROVE k <= m
    <3>1. CASE k \in M
      <4>1. PICK j \in N : k = p - 1 + j
        BY <3>1 DEF M
      <4>2. j <= Max(N) /\ j \in 1..n
        BY <4>1, <2>2, <1>3
      <4>3. QED
        BY <4>1, <4>2, <2>6
    <3>2. CASE k \in {0} \cup A
      BY <3>2, <1>2, <2>6
    <3>3. QED
      BY <3>1, <3>2, <1>1
  <2> HIDE DEF m, S
  <2>8. Max(S) = m
    <3>1. p + n \in Nat
      OBVIOUS
    <3>2. QED
      BY <3>1, <2>4, <2>5, <2>7, MaxIs
  <2>9. ColumnOf(text, p + n) = (p + n) - m
    BY <2>8 DEF ColumnOf, S, B
  <2>10. QED
    BY <2>9, <2>6 DEF m
<1>12. QED
  BY <1>4, <1>8, <1>9, <1>10, <1>11 DEF N

-----------------------------------------------------------------------------
(* Pieces of texts.                                                        *)

LEMMA SeqsEqual ==
    ASSUME NEW s, NEW t, IsSeq(s), IsSeq(t), Len(s) = Len(t), \A k \in 1..Len(s) : s[k] = t[k]
    PROVE  s = t
<1>1. /\ s = [k \in 1..Len(s) |-> s[k]]
      /\ t = [k \in 1..Len(t) |-> t[k]]
  BY DEF IsSeq
<1>2. QED
  BY <1>1

LEMMA PieceFacts ==
    ASSUME NEW s, IsSeq(s), NEW a \in 1..Len(s) + 1, NEW b \in a - 1..Len(s)
    PROVE  /\ IsSeq(SubSeq(s, a, b)) /\ Len(SubSeq(s, a, b)) = b - a + 1
           /\ \A k \in 1..b - a + 1 : SubSeq(s, a, b)[k] = s[a - 1 + k]
<1> DEFINE S == Range(s)
           n == b - a + 1
           p == SubSeq(s, a, b)
<1>1. s \in Seq(S) /\ Len(s) \in Nat /\ a \in Int /\ b \in Int /\ n \in Nat
  BY SeqFacts DEF IsSeq
<1>2. DOMAIN p = 1..n /\ p = [k \in 1..n |-> p[k]] /\ \A k \in 1..n : p[k] = s[a - 1 + k]
  <2> HIDE DEF S
  <2>2. p = [k \in 1..n |-> s[a + k - 1]]
    BY <1>1
  <2>3. \A k \in 1..n : a + k - 1 = a - 1 + k
    BY <1>1
  <2> HIDE DEF p, n
  <2>4. QED
    BY <2>2, <2>3
<1> HIDE DEF S, p, n
<1>3. IsSeq(p) /\ Len(p) = n
  BY <1>1, <1>2, FunctionIsSeq
<1>4. QED
  BY <1>2, <1>3 DEF p, n

\* A piece of two characters.
LEMMA PairFacts ==
    ASSUME NEW s, IsSeq(s), NEW a \in 1..Len(s) - 1
    PROVE  SubSeq(s, a, a + 1) = <<s[a], s[a + 1]>>
<1> DEFINE t == <<s[a], s[a + 1]>>
           p == SubSeq(s, a, a + 1)
<1>1. a \in 1..Len(s) + 1 /\ a + 1 \in a - 1..Len(s) /\ a + 1 - a + 1 = 2
  BY SeqFacts
<1>2. IsSeq(p) /\ Len(p) = 2 /\ \A k \in 1..2 : p[k] = s[a - 1 + k]
  <2>1. /\ IsSeq(p) /\ Len(p) = (a + 1) - a + 1
        /\ \A k \in 1..(a + 1) - a + 1 : p[k] = s[a - 1 + k]
    BY <1>1, PieceFacts
  <2>2. (a + 1) - a + 1 = 2
    BY <1>1
  <2>3. QED
    BY <2>1, <2>2
<1>3. IsSeq(t) /\ Len(t) = 2 /\ t[1] = s[a] /\ t[2] = s[a + 1]
  BY ShortSeqs
<1>4. a - 1 + 1 = a /\ a - 1 + 2 = a + 1
  BY <1>1
<1> HIDE DEF t, p
<1>5. p[1] = t[1] /\ p[2] = t[2]
  BY <1>2, <1>3, <1>4
<1>6. \A k \in 1..Len(p) : k = 1 \/ k = 2
  BY <1>2
<1>7. p = t
  BY <1>2, <1>3, <1>5, <1>6, SeqsEqual
<1>8. QED
  BY <1>7 DEF p, t

LEMMA OpensComment ==
    ASSUME NEW s, IsSeq(s)
    PROVE  StartsWith(s, <<"/", "*">>) <=> Len(s) >= 2 /\ s[1] = "/" /\ s[2] = "*"
<1> DEFINE o == <<"/", "*">>
<1>1. IsSeq(o) /\ Len(o) = 2 /\ o[1] = "/" /\ o[2] = "*"
  BY ShortSeqs
<1>2. SubSeq(o, 1, 2) = <<o[1], o[2]>>
  <2>1. 1 \in 1..Len(o) - 1 /\ 1 + 1 = 2
    BY <1>1
  <2> HIDE DEF o
  <2>2. QED
    BY <2>1, <1>1, PairFacts
<1>3. ASSUME Len(s) >= 2 PROVE SubSeq(s, 1, 2) = <<s[1], s[2]>>
  <2>1. 1 \in 1..Len(s) - 1 /\ 1 + 1 = 2
    BY <1>3, SeqFacts
  <2>2. QED
    BY <2>1, PairFacts
<1>4. StartsWith(s, o) <=> Len(s) >= 2 /\ SubSeq(o, 1, 2) = SubSeq(s, 1, 2)
  <2>1. StartsWith(s, o) <=> Len(o) <= Len(s) /\ SubSeq(o, 1, Len(o)) = SubSeq(s, 1, Len(o))
    BY DEF StartsWith, IsPrefix
  <2>2. Len(s) \in Nat
    BY SeqFacts
  <2> HIDE DEF o
  <2>3. QED
    BY <2>1, <2>2, <1>1
<1>5. \A x, y, z, w : <<x, y>> = <<z, w>> <=> x = z /\ y = w
  OBVIOUS
<1>6. QED
  BY <1>1, <1>2, <1>3, <1>4, <1>5

-----------------------------------------------------------------------------
(* What is passed over.                                                    *)

LEMMA NothingPassed == ASSUME NEW text, NEW a \in Int, NEW b \in Int, b < a PROVE Passed(text, a, b)
  BY DEF Passed

LEMMA BlankPassed ==
    ASSUME NEW text, NEW a \in Int, NEW b \in Int, a - 1 <= b,
           Passed(text, a, b), text[b + 1] \in Blanks
    PROVE  Passed(text, a, b + 1)
<1>1. CASE \A k \in a..b : text[k] \in Blanks
  BY <1>1 DEF Passed
<1>2. CASE \E lo, hi \in a..b :
              /\ hi - lo >= 3
              /\ text[lo] = "/" /\ text[lo + 1] = "*" /\ text[hi - 1] = "*" /\ text[hi] = "/"
              /\ \A k \in a..b : k < lo \/ k > hi => text[k] \in Blanks
  <2>1. PICK lo \in a..b, hi \in a..b :
              /\ hi - lo >= 3
              /\ text[lo] = "/" /\ text[lo + 1] = "*" /\ text[hi - 1] = "*" /\ text[hi] = "/"
              /\ \A k \in a..b : k < lo \/ k > hi => text[k] \in Blanks
    BY <1>2
  <2>2. lo \in a..b + 1 /\ hi \in a..b + 1
    OBVIOUS
  <2>3. \A k \in a..b + 1 : k < lo \/ k > hi => text[k] \in Blanks
    BY <2>1
  <2>4. QED
    BY <2>1, <2>2, <2>3 DEF Passed
<1>3. QED
  BY <1>1, <1>2 DEF Passed

LEMMA CommentPassed ==
    ASSUME NEW text, NEW a \in Int, NEW b \in Int, a - 1 <= b, NEW n \in Nat, n >= 4,
           Passed(text, a, b), text[b + 1] = "/", text[b + 2] = "*",
           text[b + n - 1] = "*", text[b + n] = "/"
    PROVE  Passed(text, a, b + n)
<1> DEFINE end == b + n
<1>0. end \in a..end /\ end \in Int /\ b + n - 1 = end - 1
  OBVIOUS
<1>1. CASE \A k \in a..b : text[k] \in Blanks
  <2> DEFINE lo == b + 1
  <2>1. lo \in a..end /\ end - lo >= 3 /\ b + 2 = lo + 1
    OBVIOUS
  <2>2. \A k \in a..end : k < lo \/ k > end => text[k] \in Blanks
    BY <1>1
  <2>3. text[lo] = "/" /\ text[lo + 1] = "*" /\ text[end - 1] = "*" /\ text[end] = "/"
    BY <1>0, <2>1
  <2> HIDE DEF lo, end
  <2>4. Passed(text, a, end)
    BY <1>0, <2>1, <2>2, <2>3 DEF Passed
  <2>5. QED
    BY <2>4 DEF end
<1>2. CASE \E lo, hi \in a..b :
              /\ hi - lo >= 3
              /\ text[lo] = "/" /\ text[lo + 1] = "*" /\ text[hi - 1] = "*" /\ text[hi] = "/"
              /\ \A k \in a..b : k < lo \/ k > hi => text[k] \in Blanks
  <2>1. PICK lo \in a..b, hi \in a..b :
              /\ hi - lo >= 3
              /\ text[lo] = "/" /\ text[lo + 1] = "*" /\ text[hi - 1] = "*" /\ text[hi] = "/"
              /\ \A k \in a..b : k < lo \/ k > hi => text[k] \in Blanks
    BY <1>2
  <2>2. lo \in a..end /\ end - lo >= 3
    BY <2>1
  <2>3. \A k \in a..end : k < lo \/ k > end => text[k] \in Blanks
    BY <2>1
  <2>4. text[end - 1] = "*" /\ text[end] = "/"
    BY <1>0
  <2> HIDE DEF end
  <2>5. Passed(text, a, end)
    BY <1>0, <2>1, <2>2, <2>3, <2>4 DEF Passed
  <2>6. QED
    BY <2>5 DEF end
<1>3. QED
  BY <1>1, <1>2 DEF Passed

LEMMA MinIs ==
    ASSUME NEW S, S \subseteq Nat, NEW m \in S, \A k \in S : m <= k
    PROVE  Min(S) = m
<1>1. Min(S) \in S /\ \A k \in S : Min(S) <= k
  BY MinFacts
<1>2. Min(S) <= m /\ m <= Min(S)
  BY <1>1
<1>3. Min(S) \in Int /\ m \in Int
  <2>1. \A x \in S : x \in Int
    OBVIOUS
  <2>2. QED
    BY <2>1, <1>1
<1>4. QED
  BY <1>2, <1>3

LEMMA PassedSkippable ==
    ASSUME NEW text, IsSeq(text), NEW a \in 1..Len(text) + 1, NEW b \in a - 1..Len(text),
           Passed(text, a, b)
    PROVE  Skippable(SubSeq(text, a, b))
<1> DEFINE gap == SubSeq(text, a, b)
           solid == {k \in DOMAIN gap : gap[k] \notin Blanks}
           n == b - a + 1
<1>1. IsSeq(gap) /\ Len(gap) = n /\ \A k \in 1..n : gap[k] = text[a - 1 + k]
  BY PieceFacts
<1>2. a \in Int /\ b \in Int /\ n \in Nat
  BY SeqFacts
<1> HIDE DEF gap
<1>3. DOMAIN gap = 1..n
  BY <1>1, SeqFacts
<1>4. \A k \in 1..n : a - 1 + k \in a..b
  BY <1>2
<1>5. CASE \A k \in a..b : text[k] \in Blanks
  <2>1. solid = {}
    BY <1>5, <1>1, <1>3, <1>4
  <2>2. QED
    BY <2>1 DEF Skippable, gap
<1>6. CASE \E lo, hi \in a..b :
              /\ hi - lo >= 3
              /\ text[lo] = "/" /\ text[lo + 1] = "*" /\ text[hi - 1] = "*" /\ text[hi] = "/"
              /\ \A k \in a..b : k < lo \/ k > hi => text[k] \in Blanks
  <2>1. PICK lo \in a..b, hi \in a..b :
              /\ hi - lo >= 3
              /\ text[lo] = "/" /\ text[lo + 1] = "*" /\ text[hi - 1] = "*" /\ text[hi] = "/"
              /\ \A k \in a..b : k < lo \/ k > hi => text[k] \in Blanks
    BY <1>6
  <2> DEFINE l == lo - a + 1
             h == hi - a + 1
  <2>2. /\ l \in 1..n /\ h \in 1..n /\ h - l >= 3 /\ l + 1 \in 1..n /\ h - 1 \in 1..n
        /\ a - 1 + l = lo /\ a - 1 + (l + 1) = lo + 1 /\ a - 1 + h = hi /\ a - 1 + (h - 1) = hi - 1
    BY <1>2, <2>1
  <2>3. gap[l] = "/" /\ gap[l + 1] = "*" /\ gap[h - 1] = "*" /\ gap[h] = "/"
    <3> HIDE DEF l, h, n
    <3>1. QED
      BY <1>1, <2>1, <2>2
  <2>4. "/" \notin Blanks
    BY DEF Blanks
  <2>5. l \in solid /\ h \in solid
    BY <2>2, <2>3, <2>4, <1>3
  <2>6. ASSUME NEW k \in solid PROVE l <= k /\ k <= h
    <3>1. k \in 1..n /\ text[a - 1 + k] \notin Blanks /\ a - 1 + k \in a..b
      BY <1>1, <1>3, <1>4
    <3>2. ~(a - 1 + k < lo) /\ ~(a - 1 + k > hi)
      BY <3>1, <2>1
    <3>3. QED
      BY <3>1, <3>2, <1>2
  <2>7. solid \subseteq 0..n /\ solid \subseteq Nat
    BY <1>3, <1>2
  <2> HIDE DEF solid, l, h
  <2>8. Min(solid) = l /\ Max(solid) = h
    <3>1. Min(solid) = l
      BY <2>5, <2>6, <2>7, MinIs
    <3>2. Max(solid) = h
      <4> HIDE DEF n
      <4>1. QED
        BY <2>5, <2>6, <2>7, <1>2, MaxIs
    <3>3. QED
      BY <3>1, <3>2
  <2>9. l \in 1..Len(gap) - 1 /\ h - 1 \in 1..Len(gap) - 1 /\ h - 1 + 1 = h
    BY <1>1, <1>2, <2>2
  <2>10. SubSeq(gap, l, l + 1) = <<"/", "*">> /\ SubSeq(gap, h - 1, h) = <<"*", "/">>
    <3>1. SubSeq(gap, l, l + 1) = <<gap[l], gap[l + 1]>>
      BY <1>1, <2>9, PairFacts
    <3>2. SubSeq(gap, h - 1, h - 1 + 1) = <<gap[h - 1], gap[h - 1 + 1]>>
      BY <1>1, <2>9, PairFacts
    <3>3. QED
      BY <3>1, <3>2, <2>3, <2>9
  <2>11. h - l >= 3
    BY <2>2
  <2>12. Skippable(gap)
    BY <2>8, <2>10, <2>11 DEF Skippable, solid
  <2>13. QED
    BY <2>12 DEF gap
<1>7. QED
  BY <1>5, <1>6 DEF Passed

-----------------------------------------------------------------------------
(* The rules.                                                              *)

LEMMA RuleOfFacts ==
    ASSUME NEW s, Matches(s)
    PROVE  RuleOf(s) \in 1..8 /\ Fits(s, RuleOf(s)) /\ \A q \in 1..RuleOf(s) - 1 : ~Fits(s, q)
<1> DEFINE R == {r \in 1..8 : Fits(s, r)}
<1>1. R \subseteq Nat /\ R # {}
  BY DEF Matches
<1>2. PICK m \in R : \A r \in R : m <= r
  <2> HIDE DEF R
  <2>1. QED
    BY <1>1, LeastNat
<1>3. ASSUME NEW q \in 1..m - 1, Fits(s, q) PROVE FALSE
  <2>1. m \in 1..8 /\ q \in 1..8 /\ q < m
    BY <1>2
  <2>2. q \in R
    BY <2>1, <1>3
  <2>3. QED
    BY <2>1, <2>2, <1>2
<1>4. \E r \in 1..8 : Fits(s, r) /\ \A q \in 1..r - 1 : ~Fits(s, q)
  BY <1>2, <1>3
<1>5. QED
  BY <1>4 DEF RuleOf

LEMMA CharacterMatches == ASSUME NEW s, IsSeq(s), Len(s) = 1 PROVE Matches(s)
<1>1. CASE s = <<"\n">>
  BY <1>1 DEF Matches, Fits
<1>2. CASE s # <<"\n">>
  <2>1. Fits(s, 8)
    BY <1>2 DEF Fits
  <2>2. QED
    BY <2>1 DEF Matches
<1>3. QED
  BY <1>1, <1>2

\* A match is the beginning of the input.
IsMatch(s, n) ==
    /\ n \in 1..Len(input)
    /\ IsSeq(s) /\ Len(s) = n
    /\ \A k \in 1..n : s[k] = input[k]
    /\ Matches(s)

LEMMA NextMatchFacts ==
    ASSUME IsSeq(input), input # <<>>
    PROVE  \E n \in 1..Len(input) :
              /\ IsMatch(NextMatch, n)
              /\ \A m \in n + 1..Len(input) : ~Matches(SubSeq(input, 1, m))
<1> DEFINE N == Len(input)
           T == {N - m : m \in {m \in 1..N : Matches(SubSeq(input, 1, m))}}
<1>1. N \in Nat /\ N >= 1
  BY SeqFacts
<1> HIDE DEF N
<1>2. ASSUME NEW m \in 1..N
      PROVE  /\ IsSeq(SubSeq(input, 1, m)) /\ Len(SubSeq(input, 1, m)) = m
             /\ \A k \in 1..m : SubSeq(input, 1, m)[k] = input[k]
  <2>1. m \in 0..Len(input)
    BY <1>1 DEF N
  <2>2. QED
    BY <2>1, TakeFacts
<1>3. T \subseteq Nat /\ T # {}
  <2>1. \A m \in 1..N : N - m \in Nat
    BY <1>1
  <2>2. 1 \in 1..N
    BY <1>1
  <2>3. Matches(SubSeq(input, 1, 1))
    BY <2>2, <1>2, CharacterMatches
  <2>4. QED
    BY <2>1, <2>2, <2>3
<1> HIDE DEF T
<1>4. PICK t \in T : \A u \in T : t <= u
  BY <1>3, LeastNat
<1>5. PICK n \in 1..N : t = N - n /\ Matches(SubSeq(input, 1, n))
  BY <1>4 DEF T
<1>6. ASSUME NEW m \in 1..N, m > n, Matches(SubSeq(input, 1, m)) PROVE FALSE
  <2>1. N - m \in T
    BY <1>6 DEF T
  <2>2. N - n <= N - m
    BY <2>1, <1>4, <1>5
  <2>3. QED
    BY <2>2, <1>6, <1>1
<1> DEFINE Longest(s) == Matches(s) /\ \A u \in Candidates : Len(u) > Len(s) => ~Matches(u)
<1>7. \A u \in Candidates : \E m \in 1..N : u = SubSeq(input, 1, m)
  BY DEF Candidates, N
<1>8. \E s \in Candidates : Longest(s)
  <2>1. SubSeq(input, 1, n) \in Candidates
    BY DEF Candidates, N
  <2>2. ASSUME NEW u \in Candidates, Len(u) > n PROVE ~Matches(u)
    <3>1. PICK m \in 1..N : u = SubSeq(input, 1, m)
      BY <1>7
    <3>2. m > n
      BY <3>1, <1>2, <2>2
    <3>3. QED
      BY <3>1, <3>2, <1>6
  <2>3. QED
    BY <2>1, <2>2, <1>2, <1>5
<1>9. NextMatch \in Candidates /\ Longest(NextMatch)
  BY <1>8 DEF NextMatch
<1>10. PICK p \in 1..N : NextMatch = SubSeq(input, 1, p)
  BY <1>9, <1>7
<1>11. IsMatch(NextMatch, p)
  BY <1>9, <1>10, <1>2 DEF IsMatch, N
<1>12. ASSUME NEW m \in p + 1..N PROVE ~Matches(SubSeq(input, 1, m))
  <2>1. m \in 1..N /\ m > p
    BY <1>10, <1>1
  <2>2. SubSeq(input, 1, m) \in Candidates
    BY <2>1 DEF Candidates, N
  <2>3. Len(SubSeq(input, 1, m)) > Len(NextMatch)
    BY <2>1, <1>2, <1>10
  <2>4. QED
    BY <2>2, <2>3, <1>9
<1>13. QED
  BY <1>11, <1>12, <1>10 DEF N

-----------------------------------------------------------------------------
(* Comments.                                                               *)

\* j can be the end of a cut, when those in C are.
CommentCut(s, C, j) ==
    \/ j = 2
    \/ j > 2 /\ s[j] # "*" /\ j - 1 \in C
    \/ j > 3 /\ s[j - 1] = "*" /\ s[j] # "/" /\ j - 2 \in C

\* The places where a comment can be cut.
CommentCuts(s, C) ==
    /\ C \subseteq 2..Len(s)
    /\ \A j \in 2..Len(s) : j \in C <=> CommentCut(s, C, j)

LEMMA CommentFacts ==
    ASSUME NEW s, IsSeq(s)
    PROVE  \E C : /\ CommentCuts(s, C)
                  /\ Comment(s) <=>
                        /\ Len(s) >= 4
                        /\ StartsWith(s, <<"/", "*">>)
                        /\ Last(s) = "/"
                        /\ \E j \in 2..Len(s) - 2 : j \in C /\ \A k \in j + 1..Len(s) - 1 : s[k] = "*"
<1> DEFINE D == 2..Len(s)
           Cut(f, j) == \/ j = 2
                        \/ j > 2 /\ s[j] # "*" /\ f[j - 1]
                        \/ j > 3 /\ s[j - 1] = "*" /\ s[j] # "/" /\ f[j - 2]
           Is(f) == f = [j \in D |-> Cut(f, j)]
           cut == CHOOSE f : Is(f)
           V == UNION {P \in SUBSET D : \A j \in P : CommentCut(s, P, j)}
           h == [j \in D |-> j \in V]
           C == {j \in D : cut[j]}
<1>0. Len(s) \in Nat
  BY SeqFacts
<1>1. \A j \in D : j \in V <=> CommentCut(s, V, j)
  <2>1. ASSUME NEW j \in D, j \in V PROVE CommentCut(s, V, j)
    <3>1. PICK P \in SUBSET D : j \in P /\ \A m \in P : CommentCut(s, P, m)
      BY <2>1
    <3>2. P \subseteq V
      BY <3>1
    <3> HIDE DEF V
    <3>3. QED
      BY <3>1, <3>2 DEF CommentCut
  <2>2. ASSUME NEW j \in D, CommentCut(s, V, j) PROVE j \in V
    <3> DEFINE Q == V \cup {j}
    <3>1. ASSUME NEW m \in V PROVE CommentCut(s, Q, m)
      <4>1. m \in D
        BY <3>1
      <4>2. CommentCut(s, V, m)
        BY <2>1, <4>1, <3>1
      <4> HIDE DEF V
      <4>3. QED
        BY <4>2 DEF CommentCut
    <3>2. CommentCut(s, Q, j)
      <4> HIDE DEF V
      <4>1. QED
        BY <2>2 DEF CommentCut
    <3>3. Q \in SUBSET D /\ \A m \in Q : CommentCut(s, Q, m)
      BY <3>1, <3>2
    <3> HIDE DEF Q
    <3>4. Q \subseteq V
      BY <3>3
    <3>5. QED
      BY <3>4 DEF Q
  <2>3. QED
    BY <2>1, <2>2
<1> HIDE DEF V
<1>2. Is(h)
  <2>1. ASSUME NEW j \in D PROVE (j \in V) <=> Cut(h, j)
    <3>1. j > 2 => j - 1 \in D
      BY <1>0
    <3>2. j > 3 => j - 2 \in D
      BY <1>0
    <3>3. \A m \in D : h[m] = (m \in V)
      OBVIOUS
    <3> HIDE DEF h, D
    <3>4. (j > 2 => (h[j - 1] <=> j - 1 \in V)) /\ (j > 3 => (h[j - 2] <=> j - 2 \in V))
      BY <3>1, <3>2, <3>3
    <3>5. QED
      BY <3>4, <1>1 DEF CommentCut
  <2>2. \A j \in D : (j \in V) = Cut(h, j)
    <3>1. ASSUME NEW j \in D PROVE (j \in V) = Cut(h, j)
      <4>1. CASE Cut(h, j)
        <5>1. Cut(h, j) = TRUE
          BY <4>1
        <5>2. (j \in V) = TRUE
          BY <2>1, <4>1
        <5>3. QED
          BY <5>1, <5>2
      <4>2. CASE ~Cut(h, j)
        <5>1. Cut(h, j) = FALSE
          BY <4>2
        <5>2. (j \in V) = FALSE
          BY <2>1, <4>2
        <5>3. QED
          BY <5>1, <5>2
      <4>3. QED
        BY <4>1, <4>2
    <3>2. QED
      BY <3>1
  <2> DEFINE g(j) == Cut(h, j)
  <2>3. [j \in D |-> j \in V] = [j \in D |-> g(j)]
    <3> HIDE DEF g
    <3>1. \A j \in D : (j \in V) = g(j)
      BY <2>2 DEF g
    <3>2. QED
      BY <3>1
  <2>4. QED
    BY <2>3
<1>3. Is(cut)
  <2> HIDE DEF Is, h
  <2>1. \E f : Is(f)
    BY <1>2
  <2>2. QED
    BY <2>1
<1>4. Comment(s) <=>
         /\ Len(s) >= 4
         /\ StartsWith(s, <<"/", "*">>)
         /\ Last(s) = "/"
         /\ \E j \in 2..Len(s) - 2 : cut[j] /\ \A k \in j + 1..Len(s) - 1 : s[k] = "*"
  BY DEF Comment
<1> HIDE DEF cut
<1>5. CommentCuts(s, C)
  <2>1. ASSUME NEW j \in D PROVE j \in C <=> CommentCut(s, C, j)
    <3>1. cut[j] <=> Cut(cut, j)
      BY <1>3, Zenon
    <3>2. j > 2 => j - 1 \in D
      BY <1>0
    <3>3. j > 3 => j - 2 \in D
      BY <1>0
    <3> HIDE DEF D
    <3>4. QED
      BY <3>1, <3>2, <3>3 DEF CommentCut
  <2>2. QED
    BY <2>1 DEF CommentCuts
<1>6. 2..Len(s) - 2 \subseteq D
  BY <1>0
<1>7. \A j \in 2..Len(s) - 2 : cut[j] <=> j \in C
  BY <1>6
<1> HIDE DEF C
<1>8. QED
  BY <1>4, <1>5, <1>7

\* A comment's first and last two characters.
LEMMA CommentShape ==
    ASSUME NEW s, IsSeq(s), Comment(s)
    PROVE  /\ Len(s) >= 4 /\ s[1] = "/" /\ s[2] = "*"
           /\ s[Len(s) - 1] = "*" /\ s[Len(s)] = "/"
<1>1. PICK C : /\ Len(s) >= 4 /\ StartsWith(s, <<"/", "*">>) /\ Last(s) = "/"
               /\ \E j \in 2..Len(s) - 2 : j \in C /\ \A k \in j + 1..Len(s) - 1 : s[k] = "*"
  BY CommentFacts
<1>2. PICK j \in 2..Len(s) - 2 : \A k \in j + 1..Len(s) - 1 : s[k] = "*"
  BY <1>1
<1>3. Len(s) - 1 \in j + 1..Len(s) - 1
  BY SeqFacts
<1>4. s[1] = "/" /\ s[2] = "*"
  BY <1>1, OpensComment
<1>5. QED
  BY <1>1, <1>2, <1>3, <1>4 DEF Last

\* Up to the first place where it can be closed an opening is a comment.
LEMMA FirstCloseIsComment ==
    ASSUME NEW s, IsSeq(s), NEW c \in Nat, c >= 4, Len(s) = c,
           s[1] = "/", s[2] = "*", s[c - 1] = "*", s[c] = "/",
           \A k \in 4..c - 1 : ~(s[k - 1] = "*" /\ s[k] = "/")
    PROVE  Comment(s)
<1>1. PICK C : /\ CommentCuts(s, C)
               /\ Comment(s) <=>
                     /\ Len(s) >= 4
                     /\ StartsWith(s, <<"/", "*">>)
                     /\ Last(s) = "/"
                     /\ \E j \in 2..Len(s) - 2 : j \in C /\ \A k \in j + 1..Len(s) - 1 : s[k] = "*"
  BY CommentFacts
<1> DEFINE P(j) == j \in C \/ (j >= 3 /\ s[j] = "*" /\ j - 1 \in C)
<1>2. \A j \in 2..c : j \in C <=> CommentCut(s, C, j)
  BY <1>1 DEF CommentCuts
<1>3. P(2)
  BY <1>2 DEF CommentCut
<1>4. ASSUME NEW j \in 2..c - 2, P(j) PROVE P(j + 1)
  <2>1. j + 1 \in 2..c /\ j + 1 - 1 = j /\ j + 1 >= 3 /\ j + 1 > 2
    OBVIOUS
  <2>2. CASE j \in C
    <3>1. CASE s[j + 1] = "*"
      BY <2>1, <2>2, <3>1
    <3>2. CASE s[j + 1] # "*"
      <4>1. CommentCut(s, C, j + 1)
        BY <2>1, <2>2, <3>2 DEF CommentCut
      <4>2. QED
        BY <4>1, <2>1, <1>2
    <3>3. QED
      BY <3>1, <3>2
  <2>3. CASE j >= 3 /\ s[j] = "*" /\ j - 1 \in C
    <3>1. j + 1 \in 4..c - 1 /\ j + 1 > 3 /\ j + 1 - 2 = j - 1
      BY <2>3
    <3>2. s[j + 1] # "/"
      BY <3>1, <2>1, <2>3
    <3>3. CommentCut(s, C, j + 1)
      BY <3>1, <3>2, <2>1, <2>3 DEF CommentCut
    <3>4. QED
      BY <3>3, <2>1, <1>2
  <2>4. QED
    BY <2>2, <2>3, <1>4
<1> DEFINE T == {j \in 2..c - 1 : ~P(j)}
<1>5. T = {}
  <2> SUFFICES ASSUME T # {} PROVE FALSE
    OBVIOUS
  <2>1. T \subseteq Nat
    OBVIOUS
  <2>2. PICK m \in T : \A k \in T : m <= k
    <3> HIDE DEF T
    <3>1. QED
      BY <2>1, LeastNat
  <2> HIDE DEF P
  <2>3. m \in 2..c - 1 /\ ~P(m)
    BY <2>2
  <2>4. m # 2
    BY <2>3, <1>3
  <2>5. m - 1 \in 2..c - 2 /\ m - 1 + 1 = m /\ m - 1 \in 2..c - 1 /\ ~(m <= m - 1)
    BY <2>3, <2>4
  <2>6. P(m - 1)
    BY <2>5, <2>2
  <2>7. P(m - 1 + 1)
    BY <2>5, <2>6, <1>4
  <2>8. QED
    BY <2>7, <2>5, <2>3
<1>6. c - 2 \in 2..c - 1
  OBVIOUS
<1>7. P(c - 2)
  BY <1>5, <1>6
<1>8. \E j \in 2..c - 2 : j \in C /\ \A k \in j + 1..c - 1 : s[k] = "*"
  <2>1. CASE c - 2 \in C
    <3>1. c - 2 \in 2..c - 2 /\ \A k \in c - 2 + 1..c - 1 : k = c - 1
      OBVIOUS
    <3>2. QED
      BY <2>1, <3>1
  <2>2. CASE c - 2 >= 3 /\ s[c - 2] = "*" /\ c - 2 - 1 \in C
    <3>1. c - 3 \in 2..c - 2 /\ c - 2 - 1 = c - 3 /\ \A k \in c - 3 + 1..c - 1 : k = c - 2 \/ k = c - 1
      BY <2>2
    <3>2. QED
      BY <2>2, <3>1
  <2>3. QED
    BY <2>1, <2>2, <1>7
<1>9. StartsWith(s, <<"/", "*">>)
  BY OpensComment
<1>10. QED
  BY <1>1, <1>8, <1>9 DEF Last

\* Without two stars in a row it is not one any longer.
LEMMA CommentEndsEarly ==
    ASSUME NEW s, IsSeq(s), Comment(s), NEW c \in 4..Len(s), s[c - 1] = "*", s[c] = "/",
           \A k \in 3..Len(s) - 1 : ~(s[k] = "*" /\ s[k + 1] = "*")
    PROVE  Len(s) = c
<1> SUFFICES ASSUME Len(s) # c PROVE FALSE
  OBVIOUS
<1>0. Len(s) \in Nat /\ c < Len(s) /\ c \in Nat /\ c >= 4
  BY SeqFacts
<1>1. PICK C : /\ CommentCuts(s, C)
               /\ \E j \in 2..Len(s) - 2 : j \in C /\ \A k \in j + 1..Len(s) - 1 : s[k] = "*"
  BY CommentFacts
<1>2. \A j \in 2..Len(s) : j \in C <=> CommentCut(s, C, j)
  BY <1>1 DEF CommentCuts
<1>3. c - 1 \notin C
  <2>1. c - 1 \in 2..Len(s) /\ c - 1 # 2
    BY <1>0
  <2>2. ASSUME c - 1 > 3, s[c - 1 - 1] = "*" PROVE FALSE
    <3>1. c - 2 \in 3..Len(s) - 1 /\ c - 2 + 1 = c - 1 /\ c - 1 - 1 = c - 2
      BY <1>0, <2>2
    <3>2. QED
      BY <3>1, <2>2
  <2>3. QED
    BY <2>1, <2>2, <1>2 DEF CommentCut
<1>4. c \notin C
  <2>1. c \in 2..Len(s) /\ c # 2
    BY <1>0
  <2>2. QED
    BY <2>1, <1>2, <1>3 DEF CommentCut
<1> DEFINE T == {j \in c..Len(s) : j \in C}
<1>5. T = {}
  <2> SUFFICES ASSUME T # {} PROVE FALSE
    OBVIOUS
  <2>1. T \subseteq Nat
    BY <1>0
  <2>2. PICK m \in T : \A k \in T : m <= k
    <3> HIDE DEF T
    <3>1. QED
      BY <2>1, LeastNat
  <2>3. m \in c..Len(s) /\ m \in C
    BY <2>2
  <2>4. m # c
    BY <2>3, <1>4
  <2>5. m - 1 \in c..Len(s) /\ ~(m <= m - 1) /\ m \in 2..Len(s) /\ m # 2
    BY <2>3, <2>4, <1>0
  <2>6. m - 1 \notin C
    BY <2>5, <2>2
  <2>7. m - 2 \notin C
    <3>1. CASE m - 2 = c - 1
      BY <3>1, <1>3
    <3>2. CASE m - 2 # c - 1
      <4>1. m - 2 \in c..Len(s) /\ ~(m <= m - 2)
        BY <2>5, <3>2, <1>0
      <4>2. QED
        BY <4>1, <2>2
    <3>3. QED
      BY <3>1, <3>2
  <2>8. QED
    BY <2>3, <2>5, <2>6, <2>7, <1>2 DEF CommentCut
<1>6. PICK j \in 2..Len(s) - 2 : j \in C /\ \A k \in j + 1..Len(s) - 1 : s[k] = "*"
  BY <1>1
<1>7. j \notin c..Len(s)
  BY <1>5, <1>6
<1>8. c \in j + 1..Len(s) - 1
  BY <1>7, <1>0
<1>9. s[c] = "*"
  BY <1>6, <1>8
<1>10. QED
  BY <1>9

-----------------------------------------------------------------------------
(* Words.                                                                  *)

LEMMA AllInFacts ==
    ASSUME NEW s, IsSeq(s), NEW X
    PROVE  AllIn(s, X) <=> Len(s) >= 1 /\ \A k \in 1..Len(s) : s[k] \in X
<1>1. (s # <<>> <=> Len(s) >= 1) /\ DOMAIN s = 1..Len(s)
  BY SeqFacts
<1>2. Range(s) \subseteq X <=> \A k \in 1..Len(s) : s[k] \in X
  BY <1>1 DEF Range
<1>3. QED
  BY <1>1, <1>2 DEF AllIn

LEMMA SplitFacts ==
    ASSUME NEW s, IsSeq(s), NEW X, NEW Y
    PROVE  Split(s, X, Y) <=>
              \E j \in 1..Len(s) - 1 : /\ \A k \in 1..j : s[k] \in X
                                       /\ \A k \in j + 1..Len(s) : s[k] \in Y
<1>0. Len(s) \in Nat
  BY SeqFacts
<1>1. ASSUME NEW j \in 1..Len(s) - 1
      PROVE  AllIn(SubSeq(s, 1, j), X) <=> \A k \in 1..j : s[k] \in X
  <2>1. j \in 0..Len(s) /\ j >= 1
    BY <1>0
  <2>2. IsSeq(SubSeq(s, 1, j)) /\ Len(SubSeq(s, 1, j)) = j /\ \A k \in 1..j : SubSeq(s, 1, j)[k] = s[k]
    BY <2>1, TakeFacts
  <2>3. QED
    BY <2>1, <2>2, AllInFacts
<1>2. ASSUME NEW j \in 1..Len(s) - 1
      PROVE  AllIn(SubSeq(s, j + 1, Len(s)), Y) <=> \A k \in j + 1..Len(s) : s[k] \in Y
  <2> DEFINE p == SubSeq(s, j + 1, Len(s))
             n == Len(s) - j
  <2>1. j \in 0..Len(s) /\ n >= 1
    BY <1>0
  <2>2. IsSeq(p) /\ Len(p) = n /\ \A k \in 1..n : p[k] = s[j + k]
    BY <2>1, DropFacts
  <2>3. \A k \in j + 1..Len(s) : k - j \in 1..n /\ j + (k - j) = k
    BY <1>0
  <2>4. \A k \in 1..n : j + k \in j + 1..Len(s)
    BY <1>0
  <2> HIDE DEF p, n
  <2>5. AllIn(p, Y) <=> \A k \in 1..n : p[k] \in Y
    BY <2>1, <2>2, AllInFacts
  <2>6. (\A k \in 1..n : p[k] \in Y) <=> \A k \in j + 1..Len(s) : s[k] \in Y
    <3>1. ASSUME \A k \in 1..n : p[k] \in Y, NEW k \in j + 1..Len(s) PROVE s[k] \in Y
      <4>1. k - j \in 1..n /\ j + (k - j) = k
        BY <2>3
      <4>2. p[k - j] = s[j + (k - j)] /\ p[k - j] \in Y
        BY <4>1, <2>2, <3>1
      <4>3. QED
        BY <4>1, <4>2
    <3>2. ASSUME \A k \in j + 1..Len(s) : s[k] \in Y, NEW k \in 1..n PROVE p[k] \in Y
      BY <2>2, <2>4, <3>2
    <3>3. QED
      BY <3>1, <3>2
  <2>7. QED
    BY <2>5, <2>6 DEF p
<1>3. QED
  BY <1>1, <1>2 DEF Split

\* A number before a name, or a name before a number.
MixedPart(s) == Split(s, Digits, Letters) \/ Split(s, Letters, Digits)

LEMMA MixedPartFacts ==
    ASSUME NEW s, IsSeq(s), MixedPart(s)
    PROVE  \A k \in 1..Len(s) : s[k] \in Letters \cup Digits
<1>1. PICK j \in 1..Len(s) - 1 : \/ /\ \A k \in 1..j : s[k] \in Digits
                                    /\ \A k \in j + 1..Len(s) : s[k] \in Letters
                                 \/ /\ \A k \in 1..j : s[k] \in Letters
                                    /\ \A k \in j + 1..Len(s) : s[k] \in Digits
  BY SplitFacts DEF MixedPart
<1>2. \A k \in 1..Len(s) : k \in 1..j \/ k \in j + 1..Len(s)
  BY SeqFacts
<1>3. QED
  BY <1>1, <1>2

MixedCut(s, C, j) == j = 0 \/ \E k \in 0..j - 1 : MixedPart(SubSeq(s, k + 1, j)) /\ k \in C

\* The places where a mixed word can be cut.
MixedCuts(s, C) ==
    /\ C \subseteq 0..Len(s)
    /\ \A j \in 0..Len(s) : j \in C <=> MixedCut(s, C, j)

LEMMA MixedFacts ==
    ASSUME NEW s, IsSeq(s)
    PROVE  \E C : MixedCuts(s, C) /\ (Mixed(s) <=> s # <<>> /\ Len(s) \in C)
<1> DEFINE D == 0..Len(s)
           Cut(f, j) == \/ j = 0
                        \/ \E k \in 0..j - 1 :
                              LET part == SubSeq(s, k + 1, j)
                              IN  /\ Split(part, Digits, Letters) \/ Split(part, Letters, Digits)
                                  /\ f[k]
           Is(f) == f = [j \in D |-> Cut(f, j)]
           cut == CHOOSE f : Is(f)
           V == UNION {P \in SUBSET D : \A j \in P : MixedCut(s, P, j)}
           h == [j \in D |-> j \in V]
           C == {j \in D : cut[j]}
<1>0. Len(s) \in Nat /\ \A j \in D : 0..j - 1 \subseteq D
  BY SeqFacts
<1>1. \A j \in D : j \in V <=> MixedCut(s, V, j)
  <2>1. ASSUME NEW j \in D, j \in V PROVE MixedCut(s, V, j)
    <3>1. PICK P \in SUBSET D : j \in P /\ \A m \in P : MixedCut(s, P, m)
      BY <2>1
    <3>2. P \subseteq V
      BY <3>1
    <3> HIDE DEF V
    <3>3. QED
      BY <3>1, <3>2 DEF MixedCut
  <2>2. ASSUME NEW j \in D, MixedCut(s, V, j) PROVE j \in V
    <3> DEFINE Q == V \cup {j}
    <3>1. ASSUME NEW m \in V PROVE MixedCut(s, Q, m)
      <4>1. m \in D
        BY <3>1
      <4>2. MixedCut(s, V, m)
        BY <2>1, <4>1, <3>1
      <4> HIDE DEF V
      <4>3. QED
        BY <4>2 DEF MixedCut
    <3>2. MixedCut(s, Q, j)
      <4> HIDE DEF V
      <4>1. QED
        BY <2>2 DEF MixedCut
    <3>3. Q \in SUBSET D /\ \A m \in Q : MixedCut(s, Q, m)
      BY <3>1, <3>2
    <3> HIDE DEF Q
    <3>4. Q \subseteq V
      BY <3>3
    <3>5. QED
      BY <3>4 DEF Q
  <2>3. QED
    BY <2>1, <2>2
<1> HIDE DEF V
<1>2. Is(h)
  <2>1. ASSUME NEW j \in D PROVE (j \in V) <=> Cut(h, j)
    <3>1. \A k \in 0..j - 1 : k \in D
      BY <1>0
    <3>2. \A m \in D : h[m] = (m \in V)
      OBVIOUS
    <3> HIDE DEF h, D
    <3>3. \A k \in 0..j - 1 : h[k] <=> k \in V
      BY <3>1, <3>2
    <3>4. QED
      BY <3>3, <1>1 DEF MixedCut, MixedPart
  <2>2. \A j \in D : (j \in V) = Cut(h, j)
    <3>1. ASSUME NEW j \in D PROVE (j \in V) = Cut(h, j)
      <4>1. CASE Cut(h, j)
        <5>1. Cut(h, j) = TRUE
          BY <4>1
        <5>2. (j \in V) = TRUE
          BY <2>1, <4>1
        <5>3. QED
          BY <5>1, <5>2
      <4>2. CASE ~Cut(h, j)
        <5>1. Cut(h, j) = FALSE
          BY <4>2
        <5>2. (j \in V) = FALSE
          BY <2>1, <4>2
        <5>3. QED
          BY <5>1, <5>2
      <4>3. QED
        BY <4>1, <4>2
    <3>2. QED
      BY <3>1
  <2> DEFINE g(j) == Cut(h, j)
  <2>3. [j \in D |-> j \in V] = [j \in D |-> g(j)]
    <3> HIDE DEF g
    <3>1. \A j \in D : (j \in V) = g(j)
      BY <2>2 DEF g
    <3>2. QED
      BY <3>1
  <2>4. QED
    BY <2>3
<1>3. Is(cut)
  <2> HIDE DEF Is, h
  <2>1. \E f : Is(f)
    BY <1>2
  <2>2. QED
    BY <2>1
<1>4. Mixed(s) <=> s # <<>> /\ cut[Len(s)]
  BY DEF Mixed
<1> HIDE DEF cut
<1>5. MixedCuts(s, C)
  <2>1. ASSUME NEW j \in D PROVE j \in C <=> MixedCut(s, C, j)
    <3>1. cut[j] <=> Cut(cut, j)
      BY <1>3, Zenon
    <3>2. \A k \in 0..j - 1 : k \in D
      BY <1>0
    <3> HIDE DEF D
    <3>3. QED
      BY <3>1, <3>2 DEF MixedCut, MixedPart
  <2>2. QED
    BY <2>1 DEF MixedCuts
<1>6. Len(s) \in D
  BY <1>0
<1>7. cut[Len(s)] <=> Len(s) \in C
  BY <1>6
<1> HIDE DEF C
<1>8. QED
  BY <1>4, <1>5, <1>7

\* A mixed word has letters and digits only.
LEMMA MixedShape ==
    ASSUME NEW s, IsSeq(s), Mixed(s)
    PROVE  Len(s) >= 1 /\ \A k \in 1..Len(s) : s[k] \in Letters \cup Digits
<1> DEFINE Good(j) == \A k \in 1..j : s[k] \in Letters \cup Digits
<1>0. Len(s) \in Nat
  BY SeqFacts
<1>1. PICK C : MixedCuts(s, C) /\ s # <<>> /\ Len(s) \in C
  BY MixedFacts
<1>2. /\ C \subseteq 0..Len(s)
      /\ \A j \in 0..Len(s) : j \in C <=> MixedCut(s, C, j)
  BY <1>1 DEF MixedCuts
<1> DEFINE T == {j \in C : ~Good(j)}
<1>3. T = {}
  <2> SUFFICES ASSUME T # {} PROVE FALSE
    OBVIOUS
  <2>1. T \subseteq Nat
    <3>1. 0..Len(s) \subseteq Nat
      BY <1>0
    <3>2. QED
      BY <3>1, <1>2
  <2>2. PICK m \in T : \A k \in T : m <= k
    <3> HIDE DEF T
    <3>1. QED
      BY <2>1, LeastNat
  <2>3. m \in C /\ ~Good(m) /\ m \in 0..Len(s) /\ m \in Nat /\ m <= Len(s)
    BY <2>2, <1>2, <1>0
  <2>4. m # 0
    BY <2>3
  <2>5. PICK k \in 0..m - 1 : MixedPart(SubSeq(s, k + 1, m)) /\ k \in C
    BY <2>3, <2>4, <1>2 DEF MixedCut
  <2>6. k \in Nat /\ k < m /\ ~(m <= k) /\ k + 1 \in 1..Len(s) + 1 /\ m \in k + 1 - 1..Len(s)
    BY <2>3, <2>5, <1>0
  <2>7. Good(k)
    BY <2>5, <2>6, <2>2
  <2> DEFINE p == SubSeq(s, k + 1, m)
  <2>8. /\ IsSeq(p) /\ Len(p) = m - (k + 1) + 1
        /\ \A l \in 1..m - (k + 1) + 1 : p[l] = s[k + 1 - 1 + l]
    BY <2>6, PieceFacts
  <2>9. \A l \in 1..Len(p) : p[l] \in Letters \cup Digits
    BY <2>5, <2>8, MixedPartFacts
  <2> HIDE DEF p
  <2>10. ASSUME NEW l \in 1..m PROVE s[l] \in Letters \cup Digits
    <3>1. CASE l <= k
      BY <3>1, <2>7, <2>6
    <3>2. CASE ~(l <= k)
      <4>1. l - k \in 1..m - (k + 1) + 1 /\ k + 1 - 1 + (l - k) = l
        BY <3>2, <2>6
      <4>2. QED
        BY <4>1, <2>8, <2>9
    <3>3. QED
      BY <3>1, <3>2
  <2>11. QED
    BY <2>10, <2>3
<1>4. Good(Len(s))
  BY <1>1, <1>3
<1>5. QED
  BY <1>1, <1>4, SeqFacts

LEMMA PartIsMixed == ASSUME NEW s, IsSeq(s), MixedPart(s) PROVE Mixed(s)
<1>0. Len(s) \in Nat
  BY SeqFacts
<1>1. PICK C : MixedCuts(s, C) /\ (Mixed(s) <=> s # <<>> /\ Len(s) \in C)
  BY MixedFacts
<1>2. \A j \in 0..Len(s) : j \in C <=> MixedCut(s, C, j)
  BY <1>1 DEF MixedCuts
<1>3. Len(s) >= 1
  <2>1. \E j \in 1..Len(s) - 1 : TRUE
    BY SplitFacts DEF MixedPart
  <2>2. QED
    BY <2>1, <1>0
<1>4. 0 \in C
  BY <1>2, <1>0 DEF MixedCut
<1>5. SubSeq(s, 0 + 1, Len(s)) = s
  <2>1. 0 + 1 = 1 /\ Len(s) \in 0..Len(s)
    BY <1>0
  <2>2. /\ IsSeq(SubSeq(s, 1, Len(s))) /\ Len(SubSeq(s, 1, Len(s))) = Len(s)
        /\ \A k \in 1..Len(s) : SubSeq(s, 1, Len(s))[k] = s[k]
    BY <2>1, TakeFacts
  <2>3. SubSeq(s, 1, Len(s)) = s
    BY <2>2, SeqsEqual
  <2>4. QED
    BY <2>1, <2>3
<1>6. 0 \in 0..Len(s) - 1 /\ Len(s) \in 0..Len(s)
  BY <1>0, <1>3
<1>7. MixedCut(s, C, Len(s))
  BY <1>4, <1>5, <1>6 DEF MixedCut
<1>8. QED
  BY <1>1, <1>2, <1>3, <1>6, <1>7, SeqFacts

-----------------------------------------------------------------------------
(* What the matches of a rule look like.                                   *)

\* Symbols and keywords hold no end of a line, and only DIV begins with "/".
FixedText(w) ==
    /\ w[2] # "ERROR"
    /\ Len(w[1]) >= 1
    /\ \A k \in 1..Len(w[1]) : w[1][k] # "\n"
    /\ w[1][1] = "/" => Len(w[1]) = 1

LEMMA SymbolsFacts == \A w \in Symbols : FixedText(w)
<1>1. ASSUME NEW x, NEW t, x # "\n", t # "ERROR" PROVE FixedText(<<<<x>>, t>>)
  BY <1>1 DEF FixedText
<1>2. ASSUME NEW x, NEW y, NEW t, x # "\n", y # "\n", x # "/", t # "ERROR"
      PROVE  FixedText(<<<<x, y>>, t>>)
  <2>1. Len(<<x, y>>) = 2 /\ \A k \in 1..2 : k = 1 \/ k = 2
    OBVIOUS
  <2>2. QED
    BY <1>2, <2>1 DEF FixedText
<1>3. QED
  BY <1>1, <1>2 DEF Symbols

LEMMA KeywordsFacts == \A w \in Keywords : FixedText(w)
<1>2. ASSUME NEW x, NEW y, NEW t, x # "\n", y # "\n", x # "/", t # "ERROR"
      PROVE  FixedText(<<<<x, y>>, t>>)
  <2>1. Len(<<x, y>>) = 2 /\ \A k \in 1..2 : k = 1 \/ k = 2
    OBVIOUS
  <2>2. QED
    BY <1>2, <2>1 DEF FixedText
<1>3. QED
  BY <1>2 DEF Keywords, FixedText

LEMMA LiteralFacts ==
    ASSUME NEW s, s \in DOMAIN Literal
    PROVE  /\ \E w \in FixedTexts : w[1] = s /\ w[2] = Literal[s]
           /\ Literal[s] # "ERROR"
           /\ Len(s) >= 1 /\ (\A k \in 1..Len(s) : s[k] # "\n") /\ (s[1] = "/" => Len(s) = 1)
<1>1. \E w \in FixedTexts : w[1] = s
  BY DEF Literal
<1>2. \E w \in FixedTexts : w[1] = s /\ w[2] = Literal[s]
  <2>1. Literal[s] = (CHOOSE w \in FixedTexts : w[1] = s)[2]
    BY DEF Literal
  <2>2. QED
    BY <1>1, <2>1
<1>3. PICK w \in FixedTexts : w[1] = s /\ w[2] = Literal[s]
  BY <1>2
<1>4. FixedText(w)
  BY <1>3, SymbolsFacts, KeywordsFacts DEF FixedTexts
<1>5. QED
  BY <1>2, <1>3, <1>4 DEF FixedText

\* A symbol or a keyword of letters and digits has letters only.
LEMMA LiteralWord ==
    ASSUME NEW s, IsSeq(s), s \in DOMAIN Literal, \A k \in 1..Len(s) : s[k] \in Letters \cup Digits
    PROVE  \A k \in 1..Len(s) : s[k] \in Letters
<1>1. PICK w \in FixedTexts : w[1] = s
  BY LiteralFacts
<1>2. Len(s) >= 1 /\ Len(s) \in Nat
  BY LiteralFacts, SeqFacts
<1>3. \A k \in 1..Len(s) : s[k] \in Range(s)
  BY SeqFacts
<1>4. w \notin Symbols
  <2> SUFFICES ASSUME w \in Symbols PROVE FALSE
    OBVIOUS
  <2>1. Range(s) \subseteq UNION {Range(v[1]) : v \in Symbols}
    BY <1>1
  <2>2. 1 \in 1..Len(s)
    BY <1>2
  <2>3. s[1] \in UNION {Range(v[1]) : v \in Symbols} /\ s[1] \in Letters \cup Digits
    BY <2>1, <2>2, <1>3
  <2>4. QED
    BY <2>3, CharactersAssumption
<1>5. w \in Keywords
  BY <1>4 DEF FixedTexts
<1>6. Range(s) \subseteq UNION {Range(v[1]) : v \in Keywords}
  BY <1>1, <1>5
<1>7. ASSUME NEW k \in 1..Len(s) PROVE s[k] \notin Digits
  BY <1>3, <1>6, CharactersAssumption
<1>8. QED
  BY <1>7

\* No character of a word ends a line or opens a comment.
LEMMA WordCharacters == \A x \in Letters \cup Digits : x \notin Blanks /\ x # "\n" /\ x # "/"
<1>1. \A x \in Letters \cup Digits : x \notin {"\n", "\t", " "}
  BY CharactersAssumption
<1>2. \A x \in Letters \cup Digits : x # "/"
  <2>1. <<<<"/">>, "DIV">> \in Symbols
    BY DEF Symbols
  <2>2. "/" \in Range(<<"/">>)
    BY ShortSeqs
  <2>3. "/" \in UNION {Range(w[1]) : w \in Symbols}
    BY <2>1, <2>2
  <2>4. QED
    BY <2>3, CharactersAssumption
<1>3. QED
  BY <1>1, <1>2 DEF Blanks

\* Rule by rule.
LEMMA FitsFacts ==
    ASSUME NEW s, IsSeq(s)
    PROVE  /\ Fits(s, 1) <=> s = <<"\n">>
           /\ Fits(s, 2) <=> s = <<"\t">> \/ s = <<" ">>
           /\ Fits(s, 3) <=> Comment(s)
           /\ Fits(s, 4) <=> Mixed(s)
           /\ Fits(s, 5) <=> s \in DOMAIN Literal
           /\ Fits(s, 6) <=> AllIn(s, Letters)
           /\ Fits(s, 7) <=> AllIn(s, Digits)
           /\ Fits(s, 8) <=> Len(s) = 1 /\ s # <<"\n">>
  BY DEF Fits

\* A long match that begins with a slash is a comment.
LEMMA LongSlash ==
    ASSUME NEW s, IsSeq(s), Len(s) >= 4, s[1] = "/", Matches(s)
    PROVE  Comment(s) /\ RuleOf(s) = 3
<1>1. RuleOf(s) \in 1..8 /\ Fits(s, RuleOf(s))
  BY RuleOfFacts
<1>2. Len(s) \in Nat /\ 1 \in 1..Len(s)
  BY SeqFacts
<1>3. ~(s[1] \in Letters \cup Digits)
  BY WordCharacters
<1>4. ~Fits(s, 1) /\ ~Fits(s, 2) /\ ~Fits(s, 8)
  <2>1. \A x : Len(<<x>>) = 1
    BY ShortSeqs
  <2>2. Len(s) # 1
    <3>1. \A n \in Nat : n >= 4 => n # 1
      OBVIOUS
    <3>2. QED
      BY <3>1, <1>2
  <2>3. s # <<"\n">> /\ s # <<"\t">> /\ s # <<" ">>
    BY <2>1, <2>2
  <2>4. QED
    BY <2>2, <2>3, FitsFacts
<1>5. ~Fits(s, 4)
  BY <1>2, <1>3, FitsFacts, MixedShape
<1>6. ~Fits(s, 5)
  <2>1. s \notin DOMAIN Literal
    <3> SUFFICES ASSUME s \in DOMAIN Literal PROVE FALSE
      OBVIOUS
    <3>1. Len(s) = 1
      BY LiteralFacts
    <3>2. QED
      BY <3>1, <1>2
  <2>2. QED
    BY <2>1, FitsFacts
<1>7. ~Fits(s, 6) /\ ~Fits(s, 7)
  BY <1>2, <1>3, FitsFacts, AllInFacts
<1>8. RuleOf(s) = 3
  BY <1>1, <1>4, <1>5, <1>6, <1>7
<1>9. QED
  BY <1>1, <1>8, FitsFacts

\* Words and symbols: no ends of lines, and errors are mixed words.
TokenOf(s) == CASE RuleOf(s) = 4 -> "ERROR"
                [] RuleOf(s) = 5 -> Literal[s]
                [] RuleOf(s) = 6 -> "IDENTIFIER"
                [] RuleOf(s) = 7 -> "NUMBER"

LEMMA WordFacts ==
    ASSUME NEW s, IsSeq(s), Matches(s), RuleOf(s) \in 4..7
    PROVE  /\ Len(s) >= 1
           /\ \A k \in 1..Len(s) : s[k] # "\n"
           /\ TokenOf(s) = "ERROR" <=> RuleOf(s) = 4
           /\ TokenOf(s) = "ERROR" => s[1] \in Letters \cup Digits
<1>1. Fits(s, RuleOf(s))
  BY RuleOfFacts
<1>2. CASE RuleOf(s) = 4
  <2>1. Len(s) >= 1 /\ \A k \in 1..Len(s) : s[k] \in Letters \cup Digits
    BY <1>1, <1>2, FitsFacts, MixedShape
  <2>2. TokenOf(s) = "ERROR"
    BY <1>2 DEF TokenOf
  <2>3. 1 \in 1..Len(s)
    BY <2>1, SeqFacts
  <2>4. QED
    BY <2>1, <2>2, <2>3, <1>2, WordCharacters
<1>3. CASE RuleOf(s) = 5
  <2>1. s \in DOMAIN Literal
    BY <1>1, <1>3, FitsFacts
  <2>2. TokenOf(s) = Literal[s]
    BY <1>3 DEF TokenOf
  <2>3. QED
    BY <2>1, <2>2, <1>3, LiteralFacts
<1>4. CASE RuleOf(s) \in 6..7
  <2>1. AllIn(s, Letters) \/ AllIn(s, Digits)
    <3>1. RuleOf(s) = 6 \/ RuleOf(s) = 7
      BY <1>4
    <3>2. QED
      BY <3>1, <1>1, FitsFacts
  <2>2. TokenOf(s) # "ERROR" /\ RuleOf(s) # 4
    <3>1. RuleOf(s) = 6 \/ RuleOf(s) = 7
      BY <1>4
    <3>2. QED
      BY <3>1 DEF TokenOf
  <2>3. Len(s) >= 1 /\ \A k \in 1..Len(s) : s[k] \in Letters \cup Digits
    BY <2>1, AllInFacts
  <2>4. QED
    BY <2>2, <2>3, WordCharacters
<1>5. QED
  BY <1>2, <1>3, <1>4

\* Letters and digits before another one of them are a mixed word.
LEMMA WholeWord ==
    ASSUME IsSeq(input), NEW s, NEW n \in 1..Len(input), IsMatch(s, n), RuleOf(s) \in 4..7,
           \A m \in n + 1..Len(input) : ~Matches(SubSeq(input, 1, m)),
           n < Len(input), \A k \in 1..n + 1 : input[k] \in Letters \cup Digits
    PROVE  RuleOf(s) = 4
<1> SUFFICES ASSUME RuleOf(s) # 4 PROVE FALSE
  OBVIOUS
<1> DEFINE t == SubSeq(input, 1, n + 1)
<1>0. Len(input) \in Nat /\ n + 1 \in 0..Len(input) /\ n + 1 \in n + 1..Len(input) /\ n \in Nat
  BY SeqFacts
<1>1. IsSeq(t) /\ Len(t) = n + 1 /\ \A k \in 1..n + 1 : t[k] = input[k]
  BY <1>0, TakeFacts
<1>2. ~Matches(t)
  BY <1>0
<1> HIDE DEF t
<1>3. IsSeq(s) /\ Len(s) = n /\ (\A k \in 1..n : s[k] = input[k]) /\ Fits(s, RuleOf(s)) /\ RuleOf(s) \in 5..7
  BY RuleOfFacts DEF IsMatch
<1>4. \A k \in 1..n : k \in 1..n + 1
  BY <1>0
<1>5. \A k \in 1..Len(s) : s[k] \in Letters \cup Digits
  BY <1>3, <1>4
<1>6. (\A k \in 1..n : t[k] \in Letters) \/ (\A k \in 1..n : t[k] \in Digits)
  <2>1. (\A k \in 1..n : s[k] \in Letters) \/ (\A k \in 1..n : s[k] \in Digits)
    <3>1. CASE RuleOf(s) = 5
      BY <3>1, <1>3, <1>5, FitsFacts, LiteralWord
    <3>2. CASE RuleOf(s) = 6
      BY <3>2, <1>3, FitsFacts, AllInFacts
    <3>3. CASE RuleOf(s) = 7
      BY <3>3, <1>3, FitsFacts, AllInFacts
    <3>4. QED
      BY <1>3, <3>1, <3>2, <3>3
  <2>2. \A k \in 1..n : t[k] = s[k]
    BY <1>1, <1>3, <1>4
  <2>3. QED
    BY <2>1, <2>2
<1>7. n + 1 \in 1..n + 1 /\ n \in 1..Len(t) - 1 /\ \A k \in 1..n + 1 : k \in 1..n \/ k = n + 1
  BY <1>0, <1>1
<1>8. t[n + 1] \in Letters \/ t[n + 1] \in Digits
  BY <1>1, <1>7
<1>9. ASSUME NEW X, NEW Y, \A k \in 1..n : t[k] \in X, t[n + 1] \in Y PROVE Split(t, X, Y)
  <2>1. \A k \in n + 1..Len(t) : k = n + 1
    BY <1>0, <1>1
  <2>2. \A k \in n + 1..Len(t) : t[k] \in Y
    BY <2>1, <1>9
  <2>3. \E j \in 1..Len(t) - 1 : (\A k \in 1..j : t[k] \in X) /\ \A k \in j + 1..Len(t) : t[k] \in Y
    BY <2>2, <1>7, <1>9
  <2>4. QED
    BY <2>3, <1>1, SplitFacts
<1>10. ASSUME NEW X, \A k \in 1..n : t[k] \in X, t[n + 1] \in X PROVE AllIn(t, X)
  <2>1. \A k \in 1..Len(t) : t[k] \in X
    BY <1>1, <1>7, <1>10
  <2>2. Len(t) >= 1
    BY <1>0, <1>1
  <2>3. QED
    BY <2>1, <2>2, <1>1, AllInFacts
<1>11. AllIn(t, Letters) \/ AllIn(t, Digits) \/ MixedPart(t)
  <2>1. CASE \A k \in 1..n : t[k] \in Letters
    BY <2>1, <1>8, <1>9, <1>10 DEF MixedPart
  <2>2. CASE \A k \in 1..n : t[k] \in Digits
    BY <2>2, <1>8, <1>9, <1>10 DEF MixedPart
  <2>3. QED
    BY <2>1, <2>2, <1>6
<1>12. Fits(t, 6) \/ Fits(t, 7) \/ Fits(t, 4)
  BY <1>1, <1>11, FitsFacts, PartIsMixed
<1>13. QED
  BY <1>2, <1>12 DEF Matches

-----------------------------------------------------------------------------
(* Where comments end.                                                     *)

LEMMA MatchedComment ==
    ASSUME IsSeq(input), AtComment, Closes # {}
    PROVE  \E n \in 1..Len(input) :
              /\ IsMatch(NextMatch, n) /\ Comment(NextMatch) /\ RuleOf(NextMatch) = 3
              /\ Min(Closes) \in 4..n
<1> DEFINE c == Min(Closes)
           p == SubSeq(input, 1, c)
<1>0. Len(input) \in Nat /\ Closes \subseteq Nat
  BY SeqFacts DEF Closes
<1>1. c \in Closes /\ \A k \in Closes : c <= k
  BY <1>0, MinFacts
<1> HIDE DEF c
<1>2. c \in 4..Len(input) /\ input[c - 1] = "*" /\ input[c] = "/" /\ c \in Nat /\ c >= 4
  BY <1>1, <1>0 DEF Closes
<1>3. \A k \in 4..c - 1 : ~(input[k - 1] = "*" /\ input[k] = "/")
  <2> SUFFICES ASSUME NEW k \in 4..c - 1, input[k - 1] = "*", input[k] = "/" PROVE FALSE
    OBVIOUS
  <2>1. k \in 4..Len(input) /\ ~(c <= k)
    BY <1>2, <1>0
  <2>2. k \in Closes
    BY <2>1 DEF Closes
  <2>3. QED
    BY <2>1, <2>2, <1>1
<1>4. Len(input) >= 2 /\ input[1] = "/" /\ input[2] = "*"
  BY OpensComment DEF AtComment
<1>5. input # <<>>
  BY <1>4, <1>0, SeqFacts
<1>6. PICK n \in 1..Len(input) :
         /\ IsMatch(NextMatch, n)
         /\ \A m \in n + 1..Len(input) : ~Matches(SubSeq(input, 1, m))
  BY <1>5, NextMatchFacts
<1>7. IsSeq(p) /\ Len(p) = c /\ \A k \in 1..c : p[k] = input[k]
  <2>1. c \in 0..Len(input)
    BY <1>2
  <2>2. QED
    BY <2>1, TakeFacts
<1> HIDE DEF p
<1>8. Comment(p)
  <2>1. p[1] = "/" /\ p[2] = "*" /\ p[c - 1] = "*" /\ p[c] = "/"
    <3>1. 1 \in 1..c /\ 2 \in 1..c /\ c - 1 \in 1..c /\ c \in 1..c
      BY <1>2
    <3>2. QED
      BY <3>1, <1>2, <1>4, <1>7
  <2>2. \A k \in 4..c - 1 : ~(p[k - 1] = "*" /\ p[k] = "/")
    <3>1. \A k \in 4..c - 1 : k - 1 \in 1..c /\ k \in 1..c
      BY <1>2
    <3>2. QED
      BY <3>1, <1>3, <1>7
  <2>3. QED
    BY <2>1, <2>2, <1>2, <1>7, FirstCloseIsComment
<1>9. Matches(p)
  <2>1. Fits(p, 3)
    BY <1>7, <1>8, FitsFacts
  <2>2. QED
    BY <2>1 DEF Matches
<1>10. c <= n
  <2> SUFFICES ASSUME ~(c <= n) PROVE FALSE
    OBVIOUS
  <2>1. c \in n + 1..Len(input)
    BY <1>2, <1>0
  <2>2. QED
    BY <2>1, <1>6, <1>9 DEF p
<1>11. IsSeq(NextMatch) /\ Len(NextMatch) = n /\ NextMatch[1] = input[1] /\ Matches(NextMatch)
  <2>1. 1 \in 1..n
    BY <1>2, <1>10
  <2>2. QED
    BY <2>1, <1>6 DEF IsMatch
<1>12. Len(NextMatch) >= 4
  BY <1>2, <1>10, <1>11
<1>13. Comment(NextMatch) /\ RuleOf(NextMatch) = 3
  BY <1>4, <1>11, <1>12, LongSlash
<1>14. QED
  BY <1>2, <1>6, <1>10, <1>13 DEF c

LEMMA CommentsFollow == ASSUME LexInv PROVE CommentsDelimited
<1> SUFFICES ASSUME AtComment PROVE /\ RuleOf(NextMatch) = 3 <=> Closes # {}
                                    /\ Closes # {} =>
                                          \/ Len(NextMatch) = Min(Closes)
                                          \/ \E k \in 3..Len(NextMatch) - 1 :
                                                input[k] = "*" /\ input[k + 1] = "*"
  BY DEF CommentsDelimited
<1>1. IsSeq(input)
  BY DEF LexInv, ScanInv, IsRest, AtComment
<1>2. Len(input) >= 2 /\ Len(input) \in Nat /\ input # <<>>
  BY <1>1, OpensComment, SeqFacts DEF AtComment
<1>3. ASSUME RuleOf(NextMatch) = 3 PROVE Closes # {}
  <2>1. PICK n \in 1..Len(input) : IsMatch(NextMatch, n)
    BY <1>1, <1>2, NextMatchFacts
  <2>2. IsSeq(NextMatch) /\ Len(NextMatch) = n /\ \A k \in 1..n : NextMatch[k] = input[k]
    BY <2>1 DEF IsMatch
  <2>3. Comment(NextMatch)
    BY <2>1, <2>2, <1>3, RuleOfFacts, FitsFacts DEF IsMatch
  <2>4. Len(NextMatch) >= 4 /\ NextMatch[Len(NextMatch) - 1] = "*" /\ NextMatch[Len(NextMatch)] = "/"
    BY <2>2, <2>3, CommentShape
  <2>5. n \in 4..Len(input) /\ n - 1 \in 1..n /\ n \in 1..n
    BY <2>2, <2>4
  <2>6. input[n - 1] = "*" /\ input[n] = "/"
    BY <2>2, <2>4, <2>5
  <2>7. n \in Closes
    BY <2>5, <2>6 DEF Closes
  <2>8. QED
    BY <2>7
<1>4. ASSUME Closes # {}
      PROVE  /\ RuleOf(NextMatch) = 3
             /\ \/ Len(NextMatch) = Min(Closes)
                \/ \E k \in 3..Len(NextMatch) - 1 : input[k] = "*" /\ input[k + 1] = "*"
  <2> DEFINE c == Min(Closes)
  <2>1. PICK n \in 1..Len(input) : /\ IsMatch(NextMatch, n) /\ Comment(NextMatch)
                                   /\ RuleOf(NextMatch) = 3 /\ c \in 4..n
    BY <1>1, <1>4, MatchedComment
  <2>2. IsSeq(NextMatch) /\ Len(NextMatch) = n /\ \A k \in 1..n : NextMatch[k] = input[k]
    BY <2>1 DEF IsMatch
  <2>3. c \in Closes
    <3>1. Closes \subseteq Nat
      BY <1>2 DEF Closes
    <3>2. QED
      BY <3>1, <1>4, MinFacts
  <2> HIDE DEF c
  <2>4. input[c - 1] = "*" /\ input[c] = "/"
    BY <2>3 DEF Closes
  <2>5. NextMatch[c - 1] = "*" /\ NextMatch[c] = "/"
    <3>1. c - 1 \in 1..n /\ c \in 1..n
      BY <2>1
    <3>2. QED
      BY <3>1, <2>2, <2>4
  <2>6. ASSUME \A k \in 3..n - 1 : ~(input[k] = "*" /\ input[k + 1] = "*") PROVE n = c
    <3>1. \A k \in 3..n - 1 : k \in 1..n /\ k + 1 \in 1..n
      BY <2>1
    <3>2. \A k \in 3..n - 1 : ~(NextMatch[k] = "*" /\ NextMatch[k + 1] = "*")
      BY <3>1, <2>2, <2>6
    <3>3. QED
      BY <3>2, <2>1, <2>2, <2>5, CommentEndsEarly
  <2>7. QED
    BY <2>1, <2>2, <2>6 DEF c
<1>5. QED
  BY <1>3, <1>4

-----------------------------------------------------------------------------
(* What LexInv says of the token files.                                    *)

LEMMA BegunFacts ==
    ASSUME LexInv, NEW f \in Begun
    PROVE  f \in DOMAIN filename /\ f \in 1..i /\ IsSeq(Text(f)) /\ FileInv(f)
<1>1. i \in 0..Len(filename) /\ IsSeq(filename) /\ \A g \in DOMAIN filename : IsSeq(Text(g))
  BY DEF LexInv, DriverInv
<1>2. f \in 1..i
  BY <1>1 DEF Begun, LastOpened
<1>3. f \in DOMAIN filename
  BY <1>1, <1>2, SeqFacts
<1>4. QED
  BY <1>1, <1>2, <1>3 DEF LexInv

LEMMA PositionsFollow == ASSUME LexInv PROVE PositionsExceptStray
  BY BegunFacts DEF PositionsExceptStray, FileInv, Listing

LEMMA WordsFollow == ASSUME LexInv PROVE MixedWordsRejected
<1> SUFFICES ASSUME NEW f \in Begun, NEW j \in DOMAIN Lines(f) \ {1},
                    AllIn(SubSeq(Text(f), Lines(f)[j - 1].from, Lines(f)[j].to), Letters \cup Digits)
             PROVE  \E m \in 1..j - 1 :
                       /\ AllIn(SubSeq(Text(f), Lines(f)[m].from, Lines(f)[j].to), Letters \cup Digits)
                       /\ Lines(f)[m].token = "ERROR"
  BY DEF MixedWordsRejected
<1> DEFINE out == Lines(f)
           text == Text(f)
           a == out[j - 1].from
           b == out[j].to
<1>1. /\ IsSeq(out) /\ InOrder(out, Upto(f)) /\ WholeWords(out, text)
      /\ IsSeq(text) /\ Upto(f) <= Len(text) /\ Upto(f) \in Int
  <2>1. IsSeq(text) /\ FileInv(f)
    BY BegunFacts
  <2>2. Upto(f) <= Len(text) /\ Upto(f) \in Int
    <3>1. Len(text) \in Nat
      BY <2>1, SeqFacts
    <3>2. CASE pc = "scan" /\ f = i
      <4>1. IsSeq(input) /\ Upto(f) = Len(text) - Len(input)
        BY <3>2 DEF LexInv, ScanInv, IsRest, Upto, At
      <4>2. Len(input) \in Nat
        BY <4>1, SeqFacts
      <4>3. QED
        BY <3>1, <4>1, <4>2
    <3>3. CASE ~(pc = "scan" /\ f = i)
      BY <3>1, <3>3 DEF Upto
    <3>4. QED
      BY <3>2, <3>3
  <2>3. QED
    BY <2>1, <2>2 DEF FileInv, Listing
<1> HIDE DEF out, text
<1>2. j \in 1..Len(out) /\ j # 1 /\ DOMAIN out = 1..Len(out) /\ Len(out) \in Nat
  BY <1>1, SeqFacts DEF out
<1>3. j - 1 \in DOMAIN out /\ j \in DOMAIN out
  BY <1>2
<1>4. /\ out[j - 1].from \in Nat /\ out[j - 1].to \in Nat /\ out[j].from \in Nat /\ out[j].to \in Nat
      /\ out[j - 1].from <= out[j - 1].to /\ out[j - 1].to < out[j].from /\ out[j].from <= out[j].to
      /\ out[j].to <= Upto(f) /\ EndBefore(out, j - 1) < out[j - 1].from
  <2>1. EndBefore(out, j) = out[j - 1].to
    BY <1>2 DEF EndBefore
  <2>2. QED
    BY <1>1, <1>3, <2>1 DEF InOrder
<1>5. out[j - 1].from >= 1
  <2>1. CASE j - 1 = 1
    BY <2>1, <1>4 DEF EndBefore
  <2>2. CASE j - 1 # 1
    <3>1. j - 1 - 1 \in DOMAIN out /\ EndBefore(out, j - 1) = out[j - 1 - 1].to
      BY <2>2, <1>2 DEF EndBefore
    <3>2. out[j - 1 - 1].to \in Nat
      BY <3>1, <1>1 DEF InOrder
    <3>3. QED
      BY <3>1, <3>2, <1>4
  <2>3. QED
    BY <2>1, <2>2
<1>6. /\ a \in 1..Len(text) + 1 /\ b \in a - 1..Len(text) /\ a \in Nat /\ b \in Nat
      /\ out[j - 1].to < Len(text) /\ \A k \in a..out[j - 1].to + 1 : k \in a..b
  BY <1>1, <1>4, <1>5
<1> DEFINE p == SubSeq(text, a, b)
<1>7. IsSeq(p) /\ Len(p) = b - a + 1 /\ \A k \in 1..b - a + 1 : p[k] = text[a - 1 + k]
  <2> HIDE DEF a, b
  <2>1. QED
    BY <1>1, <1>6, PieceFacts
<1>8. \A k \in 1..Len(p) : p[k] \in Letters \cup Digits
  <2>1. AllIn(p, Letters \cup Digits)
    BY DEF out, text
  <2> HIDE DEF p
  <2>2. QED
    BY <1>7, <2>1, AllInFacts
<1> HIDE DEF p
<1>9. AllAlnum(text, a, out[j - 1].to + 1)
  <2> SUFFICES ASSUME NEW k \in a..out[j - 1].to + 1 PROVE text[k] \in Letters \cup Digits
    BY DEF AllAlnum
  <2>1. k - a + 1 \in 1..b - a + 1 /\ a - 1 + (k - a + 1) = k
    <3>1. k \in a..b
      BY <1>6
    <3>2. a \in Nat /\ b \in Nat
      BY <1>6
    <3> HIDE DEF a, b
    <3>3. QED
      BY <3>1, <3>2
  <2> HIDE DEF a, b
  <2>2. QED
    BY <2>1, <1>7, <1>8
<1>10. out[j - 1].token = "ERROR"
  BY <1>1, <1>3, <1>6, <1>9 DEF WholeWords
<1>11. j - 1 \in 1..j - 1
  BY <1>2
<1>12. QED
  BY <1>10, <1>11 DEF out, text

LEMMA PrependFacts ==
    ASSUME NEW t, IsSeq(t), NEW x
    PROVE  /\ DOMAIN (<<x>> \o t) = 1..Len(t) + 1 /\ (<<x>> \o t)[1] = x
           /\ \A k \in 1..Len(t) : (<<x>> \o t)[1 + k] = t[k]
<1> DEFINE z == <<x>>
<1>1. IsSeq(z) /\ Len(z) = 1 /\ z[1] = x
  BY ShortSeqs
<1> HIDE DEF z
<1>0. IsSeq(z)
  BY <1>1
<1>2. /\ IsSeq(z \o t) /\ Len(z \o t) = Len(z) + Len(t)
      /\ \A k \in 1..Len(z) : (z \o t)[k] = z[k]
      /\ \A k \in 1..Len(t) : (z \o t)[Len(z) + k] = t[k]
  BY <1>0, ConcatFacts
<1>3. Len(t) \in Nat /\ 1 \in 1..Len(z)
  BY <1>1, SeqFacts
<1>4. DOMAIN (z \o t) = 1..Len(t) + 1
  BY <1>1, <1>2, <1>3, SeqFacts
<1>5. QED
  BY <1>1, <1>2, <1>3, <1>4 DEF z

LEMMA GapsFollow == ASSUME LexInv PROVE NothingDropped
<1> SUFFICES ASSUME NEW f \in Completed
             PROVE  LET out == Lines(f)
                        ends == <<0>> \o [j \in DOMAIN out |-> out[j].to]
                        starts == Append([j \in DOMAIN out |-> out[j].from], Len(Text(f)) + 1)
                    IN  \A j \in DOMAIN ends : /\ ends[j] < starts[j]
                                               /\ Skippable(SubSeq(Text(f), ends[j] + 1, starts[j] - 1))
  BY DEF NothingDropped
<1> DEFINE out == Lines(f)
           text == Text(f)
           N == Len(text)
           n == Len(out)
           tos == [j \in DOMAIN out |-> out[j].to]
           froms == [j \in DOMAIN out |-> out[j].from]
           ends == <<0>> \o tos
           starts == Append(froms, N + 1)
<1>1. /\ IsSeq(out) /\ InOrder(out, N) /\ Covered(out, text, N) /\ IsSeq(text)
  <2>1. f \in Begun /\ Upto(f) = N
    BY DEF Completed, Upto, Begun
  <2>2. QED
    BY <2>1, BegunFacts DEF FileInv, Listing
<1> HIDE DEF out, text
<1>2. n \in Nat /\ DOMAIN out = 1..n /\ N \in Nat
  BY <1>1, SeqFacts
<1>3. IsSeq(tos) /\ Len(tos) = n /\ IsSeq(froms) /\ Len(froms) = n
  <2>1. DOMAIN tos = 1..n /\ tos = [k \in 1..n |-> tos[k]]
    BY <1>2
  <2>2. DOMAIN froms = 1..n /\ froms = [k \in 1..n |-> froms[k]]
    BY <1>2
  <2> HIDE DEF tos, froms, n
  <2>3. QED
    BY <2>1, <2>2, <1>2, FunctionIsSeq
<1>4. \A j \in 1..n : tos[j] = out[j].to /\ froms[j] = out[j].from
  BY <1>2
<1> HIDE DEF tos, froms, N
<1>5. /\ DOMAIN ends = 1..n + 1 /\ ends[1] = 0 /\ \A j \in 1..n : ends[1 + j] = tos[j]
  <2>1. /\ DOMAIN (<<0>> \o tos) = 1..Len(tos) + 1 /\ (<<0>> \o tos)[1] = 0
        /\ \A k \in 1..Len(tos) : (<<0>> \o tos)[1 + k] = tos[k]
    BY <1>3, PrependFacts
  <2>2. QED
    BY <2>1, <1>3
<1>6. starts[n + 1] = N + 1 /\ \A j \in 1..n : starts[j] = froms[j]
  BY <1>3, AppendFacts
<1> HIDE DEF ends, starts, n
<1>7. ASSUME NEW j \in 1..n + 1 PROVE ends[j] = EndBefore(out, j)
  <2>1. CASE j = 1
    BY <2>1, <1>5 DEF EndBefore
  <2>2. CASE j # 1
    <3>1. j - 1 \in 1..n /\ 1 + (j - 1) = j
      BY <2>2, <1>2
    <3>2. ends[1 + (j - 1)] = tos[j - 1]
      BY <3>1, <1>5
    <3>3. QED
      BY <3>1, <3>2, <2>2, <1>4 DEF EndBefore
  <2>3. QED
    BY <2>1, <2>2
<1>8. ASSUME NEW j \in 1..n + 1 PROVE EndBefore(out, j) \in Nat /\ EndBefore(out, j) <= N
  <2>1. CASE j = 1
    BY <2>1, <1>2 DEF EndBefore
  <2>2. CASE j # 1
    <3>1. j - 1 \in DOMAIN out /\ EndBefore(out, j) = out[j - 1].to
      BY <2>2, <1>2 DEF EndBefore
    <3>2. QED
      BY <3>1, <1>1 DEF InOrder
  <2>3. QED
    BY <2>1, <2>2
<1>9. ASSUME NEW j \in 1..n + 1
      PROVE  /\ starts[j] \in Nat /\ ends[j] < starts[j] /\ starts[j] - 1 <= N
             /\ Passed(text, ends[j] + 1, starts[j] - 1)
  <2>1. CASE j \in 1..n
    <3>1. starts[j] = out[j].from /\ ends[j] = EndBefore(out, j)
      BY <2>1, <1>4, <1>6, <1>7
    <3>2. /\ out[j].from \in Nat /\ out[j].to \in Nat /\ EndBefore(out, j) < out[j].from
          /\ out[j].from <= out[j].to /\ out[j].to <= N
      BY <2>1, <1>1, <1>2 DEF InOrder
    <3>3. Passed(text, EndBefore(out, j) + 1, out[j].from - 1)
      BY <2>1, <1>1, <1>2 DEF Covered
    <3>4. out[j].from - 1 <= N
      BY <3>2, <1>2
    <3>5. QED
      BY <3>1, <3>2, <3>3, <3>4
  <2>2. CASE j = n + 1
    <3>1. starts[j] = N + 1 /\ ends[j] = EndBefore(out, n + 1)
      BY <2>2, <1>6, <1>7
    <3>2. EndBefore(out, n + 1) \in Nat /\ EndBefore(out, n + 1) <= N
      BY <2>2, <1>8
    <3>3. Passed(text, EndBefore(out, n + 1) + 1, N)
      BY <1>1 DEF Covered, n
    <3>4. N + 1 - 1 = N
      BY <1>2
    <3>5. QED
      BY <3>1, <3>2, <3>3, <3>4, <1>2
  <2>3. QED
    BY <2>1, <2>2, <1>2
<1>10. ASSUME NEW j \in DOMAIN ends
       PROVE  ends[j] < starts[j] /\ Skippable(SubSeq(text, ends[j] + 1, starts[j] - 1))
  <2>1. j \in 1..n + 1
    BY <1>5
  <2> DEFINE a == ends[j] + 1
             b == starts[j] - 1
  <2>2. a \in 1..N + 1 /\ b \in a - 1..N
    <3>1. ends[j] \in Nat
      BY <2>1, <1>7, <1>8
    <3>2. starts[j] \in Nat /\ ends[j] < starts[j] /\ starts[j] - 1 <= N
      BY <2>1, <1>9
    <3>3. QED
      BY <3>1, <3>2, <1>2
  <2>3. Passed(text, a, b)
    BY <2>1, <1>9
  <2> HIDE DEF a, b
  <2>4. Skippable(SubSeq(text, a, b))
    BY <2>2, <2>3, <1>1, PassedSkippable DEF N
  <2>5. QED
    BY <2>1, <2>4, <1>9 DEF a, b
<1>11. QED
  BY <1>10, Zenon DEF out, text, ends, starts, tos, froms, N

-----------------------------------------------------------------------------
(* Listings that grow.                                                     *)

LEMMA EndFacts ==
    ASSUME NEW out, IsSeq(out), NEW upto \in Nat, InOrder(out, upto)
    PROVE  EndBefore(out, Len(out) + 1) \in Nat /\ EndBefore(out, Len(out) + 1) <= upto
<1>1. Len(out) \in Nat /\ DOMAIN out = 1..Len(out)
  BY SeqFacts
<1>2. CASE Len(out) = 0
  BY <1>2 DEF EndBefore
<1>3. CASE Len(out) # 0
  <2>1. Len(out) \in DOMAIN out /\ Len(out) + 1 # 1 /\ Len(out) + 1 - 1 = Len(out)
    BY <1>1, <1>3
  <2>2. EndBefore(out, Len(out) + 1) = out[Len(out)].to
    BY <2>1 DEF EndBefore
  <2>3. QED
    BY <2>1, <2>2 DEF InOrder
<1>4. QED
  BY <1>2, <1>3

\* Passing over n more characters.
LEMMA ListingPassed ==
    ASSUME NEW out, NEW text, NEW at \in Nat, NEW n \in Nat, Listing(out, text, at),
           \A a \in Int : a - 1 <= at /\ Passed(text, a, at) => Passed(text, a, at + n)
    PROVE  Listing(out, text, at + n)
<1>1. IsSeq(out) /\ InOrder(out, at) /\ Covered(out, text, at)
  BY DEF Listing
<1>2. EndBefore(out, Len(out) + 1) \in Nat /\ EndBefore(out, Len(out) + 1) <= at
  BY <1>1, EndFacts
<1> DEFINE a == EndBefore(out, Len(out) + 1) + 1
<1>3. a \in Int /\ a - 1 <= at
  BY <1>2
<1>4. Passed(text, a, at)
  BY <1>1 DEF Covered
<1> HIDE DEF a
<1>5. Passed(text, a, at + n)
  BY <1>3, <1>4
<1>6. Covered(out, text, at + n)
  BY <1>1, <1>5 DEF Covered, a
<1>7. InOrder(out, at + n)
  <2>1. ASSUME NEW j \in DOMAIN out
        PROVE  /\ out[j].from \in Nat /\ out[j].to \in Nat
               /\ EndBefore(out, j) < out[j].from
               /\ out[j].from <= out[j].to
               /\ out[j].to <= at + n
    <3>1. /\ out[j].from \in Nat /\ out[j].to \in Nat
          /\ EndBefore(out, j) < out[j].from
          /\ out[j].from <= out[j].to
          /\ out[j].to <= at
      BY <1>1 DEF InOrder
    <3>2. QED
      BY <3>1
  <2>2. QED
    BY <2>1 DEF InOrder
<1>8. QED
  BY <1>6, <1>7 DEF Listing

LEMMA StraysFacts ==
    ASSUME NEW out, NEW text, NEW k \in Nat, NEW l
    PROVE  /\ Strays(out, text, k, l) \subseteq 1..k
           /\ IsFiniteSet(Strays(out, text, k, l)) /\ Cardinality(Strays(out, text, k, l)) \in Nat
<1>1. Strays(out, text, k, l) \subseteq 1..k
  BY DEF Strays
<1>2. IsFiniteSet(1..k)
  BY FS_Interval
<1>3. QED
  BY <1>1, <1>2, FS_Subset, FS_CardinalityType

\* Before a later line there is no stray on it.
LEMMA NoStraysAhead ==
    ASSUME NEW out, NEW text, NEW at \in Nat, Listing(out, text, at),
           NEW l \in Nat, l > LineOf(text, at + 1)
    PROVE  Strays(out, text, Len(out), l) = {}
<1> SUFFICES ASSUME NEW m \in Strays(out, text, Len(out), l) PROVE FALSE
  OBVIOUS
<1>1. IsSeq(out) /\ InOrder(out, at) /\ OnTheirLines(out, text)
  BY DEF Listing
<1>2. m \in DOMAIN out /\ out[m].line = l
  BY <1>1, SeqFacts DEF Strays
<1>3. out[m].from \in Nat /\ out[m].from >= 1 /\ out[m].from <= at /\ out[m].line = LineOf(text, out[m].from)
  <2>1. EndBefore(out, m) < out[m].from /\ out[m].from <= out[m].to /\ out[m].to <= at
        /\ out[m].from \in Nat /\ out[m].to \in Nat
    BY <1>1, <1>2 DEF InOrder
  <2>2. EndBefore(out, m) \in Nat
    <3>1. CASE m = 1
      BY <3>1 DEF EndBefore
    <3>2. CASE m # 1
      <4>1. m - 1 \in DOMAIN out
        BY <1>1, <1>2, <3>2, SeqFacts
      <4>2. QED
        BY <4>1, <3>2, <1>1 DEF EndBefore, InOrder
    <3>3. QED
      BY <3>1, <3>2
  <2>3. QED
    BY <2>1, <2>2, <1>1, <1>2 DEF OnTheirLines
<1> DEFINE p == out[m].from
           n == at + 1 - p
           N == NewlinesIn(text, p, n)
<1>4. p \in Nat /\ p >= 1 /\ n \in Nat /\ p + n = at + 1 /\ LineOf(text, p) = l
  BY <1>2, <1>3
<1> HIDE DEF p, n
<1>6. LineOf(text, p + n) = LineOf(text, p) + Cardinality(N) /\ Cardinality(N) \in Nat
  BY <1>4, Advance
<1>7. LineOf(text, at + 1) = l + Cardinality(N)
  BY <1>4, <1>6
<1>8. QED
  BY <1>6, <1>7

\* Counting n more characters.
LEMMA CountedPassed ==
    ASSUME NEW out, NEW text, NEW at \in Nat, NEW n \in Nat, Listing(out, text, at),
           NEW line, NEW column, Counted(out, text, at, line, column)
    PROVE  LET N == NewlinesIn(text, at + 1, n)
           IN  Counted(out, text, at + n, line + Cardinality(N),
                       IF N = {} THEN column + n ELSE n - Max(N) + 1)
<1> DEFINE p == at + 1
           N == NewlinesIn(text, p, n)
           stray == Cardinality(Strays(out, text, Len(out), line))
<1>1. p \in Nat /\ p >= 1 /\ at + n + 1 = p + n /\ Len(out) \in Nat
  BY SeqFacts DEF Listing
<1>3. line = LineOf(text, p) /\ column = ColumnOf(text, p) - stray
  BY DEF Counted
<1>4. LineOf(text, p) \in Nat /\ ColumnOf(text, p) \in Int /\ stray \in Nat
  BY <1>1, NewlinesFacts, StraysFacts
<1> HIDE DEF p, stray
<1>5. /\ LineOf(text, p + n) = LineOf(text, p) + Cardinality(N)
      /\ Cardinality(N) \in Nat /\ (N # {} => Cardinality(N) >= 1)
      /\ N = {} => ColumnOf(text, p + n) = ColumnOf(text, p) + n
      /\ N # {} => ColumnOf(text, p + n) = n - Max(N) + 1
  BY <1>1, Advance DEF N
<1> HIDE DEF N
<1>6. CASE N = {}
  <2>1. Cardinality(N) = 0
    BY <1>6, FS_EmptySet
  <2>2. line + Cardinality(N) = line
    BY <2>1, <1>3, <1>4
  <2>3. LineOf(text, p + n) = line /\ ColumnOf(text, p + n) - stray = column + n
    BY <1>3, <1>4, <1>5, <1>6, <2>1
  <2>4. Counted(out, text, at + n, line, column + n)
    BY <2>3, <1>1 DEF Counted, stray
  <2>5. QED
    BY <2>2, <2>4, <1>6 DEF N, p
<1>7. CASE N # {}
  <2> DEFINE later == line + Cardinality(N)
  <2>1. later \in Nat /\ later > LineOf(text, at + 1) /\ later = LineOf(text, p + n)
    BY <1>3, <1>4, <1>5, <1>7 DEF p
  <2> HIDE DEF later
  <2>2. Strays(out, text, Len(out), later) = {}
    BY <2>1, NoStraysAhead
  <2>3. Cardinality(Strays(out, text, Len(out), later)) = 0
    BY <2>2, FS_EmptySet
  <2>4. ColumnOf(text, p + n) = n - Max(N) + 1 /\ ColumnOf(text, p + n) \in Int
    BY <1>1, <1>5, <1>7, NewlinesFacts
  <2>5. ColumnOf(text, p + n) - Cardinality(Strays(out, text, Len(out), later)) = n - Max(N) + 1
    <3> DEFINE x == n - Max(N) + 1
    <3> HIDE DEF x
    <3>1. ColumnOf(text, p + n) = x /\ x \in Int
      BY <2>4 DEF x
    <3>2. x - 0 = x
      BY <3>1
    <3>3. QED
      BY <3>1, <3>2, <2>3 DEF x
  <2>6. Counted(out, text, at + n, later, n - Max(N) + 1)
    BY <2>1, <2>5, <1>1 DEF Counted
  <2>7. QED
    BY <2>6, <1>7 DEF later, N, p
<1>8. QED
  BY <1>6, <1>7 DEF N, p

\* One more line is appended.
LEMMA AppendedFacts ==
    ASSUME NEW out, IsSeq(out), NEW line, NEW text
    PROVE  LET new == Append(out, line)
               n == Len(out)
           IN  /\ IsSeq(new) /\ n \in Nat /\ Len(new) = n + 1
               /\ DOMAIN new = 1..n + 1 /\ DOMAIN out = 1..n
               /\ \A j \in 1..n : new[j] = out[j]
               /\ new[n + 1] = line
               /\ \A j \in 1..n + 1 : EndBefore(new, j) = EndBefore(out, j)
               /\ EndBefore(new, n + 2) = line.to
               /\ \A k \in 0..n : \A x : Strays(new, text, k, x) = Strays(out, text, k, x)
<1> DEFINE new == Append(out, line)
           n == Len(out)
<1>1. /\ IsSeq(new) /\ Len(new) = n + 1 /\ n \in Nat /\ DOMAIN out = 1..n
      /\ \A j \in 1..n : new[j] = out[j]
      /\ new[n + 1] = line
  BY AppendFacts, SeqFacts
<1> HIDE DEF new, n
<1>2. DOMAIN new = 1..n + 1
  BY <1>1, SeqFacts
<1>3. ASSUME NEW j \in 1..n + 1 PROVE EndBefore(new, j) = EndBefore(out, j)
  <2>1. j = 1 \/ j - 1 \in 1..n
    BY <1>1
  <2>2. QED
    BY <1>1, <2>1 DEF EndBefore
<1>4. EndBefore(new, n + 2) = line.to
  <2>1. n + 2 # 1 /\ n + 2 - 1 = n + 1
    BY <1>1
  <2>2. QED
    BY <1>1, <2>1 DEF EndBefore
<1>5. ASSUME NEW k \in 0..n, NEW x PROVE Strays(new, text, k, x) = Strays(out, text, k, x)
  <2>1. \A m \in 1..k : m \in 1..n
    BY <1>1
  <2>2. \A m \in 1..k : new[m] = out[m]
    BY <1>1, <2>1
  <2>3. QED
    BY <2>2 DEF Strays
<1>6. QED
  BY <1>1, <1>2, <1>3, <1>4, <1>5 DEF new, n

LEMMA ListingReported ==
    ASSUME NEW out, NEW text, NEW at \in Nat, NEW n \in Nat, n >= 1, Listing(out, text, at),
           NEW line, line.from = at + 1, line.to = at + n, line.line = LineOf(text, at + 1),
           \/ IsStray(line, text)
           \/ LocatedAt(line, text, ColumnOf(text, at + 1) - Cardinality(Strays(out, text, Len(out), line.line))),
           at + n < Len(text) /\ AllAlnum(text, at + 1, at + n + 1) => line.token = "ERROR"
    PROVE  Listing(Append(out, line), text, at + n)
<1> DEFINE new == Append(out, line)
           m == Len(out)
<1>1. /\ IsSeq(new) /\ m \in Nat /\ Len(new) = m + 1
      /\ DOMAIN new = 1..m + 1 /\ DOMAIN out = 1..m
      /\ \A j \in 1..m : new[j] = out[j]
      /\ new[m + 1] = line
      /\ \A j \in 1..m + 1 : EndBefore(new, j) = EndBefore(out, j)
      /\ EndBefore(new, m + 2) = line.to
      /\ \A k \in 0..m : \A x : Strays(new, text, k, x) = Strays(out, text, k, x)
  BY AppendedFacts DEF Listing
<1>2. /\ IsSeq(out) /\ InOrder(out, at) /\ Covered(out, text, at) /\ OnTheirLines(out, text)
      /\ LocatedExceptStray(out, text) /\ WholeWords(out, text)
  BY DEF Listing
<1>3. EndBefore(out, m + 1) \in Nat /\ EndBefore(out, m + 1) <= at
  BY <1>2, EndFacts
<1> HIDE DEF new, m
<1>4. \A j \in 1..m + 1 : j \in 1..m \/ j = m + 1
  BY <1>1
<1>5. m + 1 \in 1..m + 1 /\ 1..m \subseteq 1..m + 1 /\ m + 1 - 1 = m /\ m \in 0..m
  BY <1>1
<1>6. InOrder(new, at + n)
  <2>1. ASSUME NEW j \in 1..m
        PROVE  /\ new[j].from \in Nat /\ new[j].to \in Nat
               /\ EndBefore(new, j) < new[j].from
               /\ new[j].from <= new[j].to
               /\ new[j].to <= at + n
    <3>1. /\ out[j].from \in Nat /\ out[j].to \in Nat
          /\ EndBefore(out, j) < out[j].from
          /\ out[j].from <= out[j].to
          /\ out[j].to <= at
      BY <1>1, <1>2 DEF InOrder
    <3>2. new[j] = out[j] /\ EndBefore(new, j) = EndBefore(out, j)
      BY <1>1, <1>5
    <3>3. out[j].to <= at + n
      BY <3>1
    <3>4. QED
      BY <3>1, <3>2, <3>3
  <2>2. /\ new[m + 1].from \in Nat /\ new[m + 1].to \in Nat
        /\ EndBefore(new, m + 1) < new[m + 1].from
        /\ new[m + 1].from <= new[m + 1].to
        /\ new[m + 1].to <= at + n
    <3>1. new[m + 1] = line /\ EndBefore(new, m + 1) = EndBefore(out, m + 1)
      BY <1>1, <1>5
    <3>2. EndBefore(out, m + 1) < at + 1 /\ at + 1 <= at + n /\ at + 1 \in Nat /\ at + n \in Nat
      BY <1>3
    <3>3. QED
      BY <3>1, <3>2
  <2>3. QED
    BY <2>1, <2>2, <1>1, <1>4 DEF InOrder
<1>7. Covered(new, text, at + n)
  <2>1. ASSUME NEW j \in 1..m PROVE Passed(text, EndBefore(new, j) + 1, new[j].from - 1)
    <3>1. Passed(text, EndBefore(out, j) + 1, out[j].from - 1)
      BY <1>1, <1>2 DEF Covered
    <3>2. new[j] = out[j] /\ EndBefore(new, j) = EndBefore(out, j)
      BY <1>1, <1>5
    <3>3. QED
      BY <3>1, <3>2
  <2>2. Passed(text, EndBefore(new, m + 1) + 1, new[m + 1].from - 1)
    <3>1. new[m + 1].from - 1 = at /\ EndBefore(new, m + 1) = EndBefore(out, m + 1)
      BY <1>1, <1>5
    <3>2. Passed(text, EndBefore(out, m + 1) + 1, at)
      BY <1>2 DEF Covered, m
    <3>3. QED
      BY <3>1, <3>2
  <2>3. Passed(text, EndBefore(new, Len(new) + 1) + 1, at + n)
    <3>1. Len(new) + 1 = m + 2
      BY <1>1
    <3>2. EndBefore(new, Len(new) + 1) = at + n
      BY <1>1, <3>1
    <3>3. Passed(text, at + n + 1, at + n)
      BY NothingPassed
    <3>4. QED
      BY <3>2, <3>3
  <2>4. QED
    BY <2>1, <2>2, <2>3, <1>1, <1>4 DEF Covered
<1>8. OnTheirLines(new, text)
  <2>1. ASSUME NEW j \in 1..m PROVE new[j].line = LineOf(text, new[j].from)
    BY <1>1, <1>2 DEF OnTheirLines
  <2>2. new[m + 1].line = LineOf(text, new[m + 1].from)
    BY <1>1
  <2>3. QED
    BY <2>1, <2>2, <1>1, <1>4 DEF OnTheirLines
<1>9. LocatedExceptStray(new, text)
  <2> DEFINE Ok(j) == \/ IsStray(new[j], text)
                      \/ LocatedAt(new[j], text, ColumnOf(text, new[j].from)
                                                  - Cardinality(Strays(new, text, j - 1, new[j].line)))
  <2>1. ASSUME NEW j \in 1..m PROVE Ok(j)
    <3>1. \/ IsStray(out[j], text)
          \/ LocatedAt(out[j], text, ColumnOf(text, out[j].from)
                                      - Cardinality(Strays(out, text, j - 1, out[j].line)))
      BY <1>1, <1>2 DEF LocatedExceptStray
    <3>2. j - 1 \in 0..m
      BY <1>1
    <3>3. Strays(new, text, j - 1, out[j].line) = Strays(out, text, j - 1, out[j].line)
      BY <1>1, <3>2
    <3>4. QED
      BY <1>1, <3>1, <3>3
  <2>2. Ok(m + 1)
    <3>1. Strays(new, text, m, line.line) = Strays(out, text, m, line.line)
      BY <1>1, <1>5
    <3>2. \/ IsStray(line, text)
          \/ LocatedAt(line, text, ColumnOf(text, line.from)
                                    - Cardinality(Strays(new, text, m, line.line)))
      BY <3>1 DEF m
    <3>3. QED
      BY <1>1, <1>5, <3>2
  <2>3. \A j \in 1..m + 1 : Ok(j)
    BY <2>1, <2>2, <1>4
  <2>4. QED
    BY <2>3, <1>1 DEF LocatedExceptStray
<1>10. WholeWords(new, text)
  <2>1. ASSUME NEW j \in 1..m, new[j].to < Len(text), AllAlnum(text, new[j].from, new[j].to + 1)
        PROVE  new[j].token = "ERROR"
    <3>1. new[j] = out[j] /\ j \in DOMAIN out
      BY <1>1
    <3>2. out[j].to < Len(text) /\ AllAlnum(text, out[j].from, out[j].to + 1)
      BY <2>1, <3>1
    <3>3. QED
      BY <3>1, <3>2, <1>2 DEF WholeWords
  <2>2. ASSUME line.to < Len(text), AllAlnum(text, line.from, line.to + 1)
        PROVE  line.token = "ERROR"
    BY <2>2
  <2>3. QED
    BY <2>1, <2>2, <1>1, <1>4 DEF WholeWords
<1>11. QED
  BY <1>1, <1>6, <1>7, <1>8, <1>9, <1>10 DEF Listing, new

LEMMA StraysKept ==
    ASSUME NEW out, IsSeq(out), NEW line, NEW text, NEW l
    PROVE  Strays(Append(out, line), text, Len(out), l) = Strays(out, text, Len(out), l)
<1>1. Len(out) \in Nat /\ \A j \in 1..Len(out) : Append(out, line)[j] = out[j]
  BY AppendFacts, SeqFacts
<1>2. QED
  BY <1>1 DEF Strays

LEMMA CountedReported ==
    ASSUME NEW out, NEW text, NEW at \in Nat, NEW n \in Nat, Listing(out, text, at),
           NEW l, NEW c, Counted(out, text, at, l, c), \A j \in 1..n : text[at + j] # "\n",
           NEW line, line.line = l
    PROVE  Counted(Append(out, line), text, at + n, l, IF IsStray(line, text) THEN c + n - 1 ELSE c + n)
<1> DEFINE new == Append(out, line)
           m == Len(out)
           N == NewlinesIn(text, at + 1, n)
           S == Strays(out, text, m, l)
           T == Strays(new, text, m + 1, l)
<1>1. IsSeq(out)
  BY DEF Listing
<1>0. c \in Int
  <2>1. Len(out) \in Nat /\ c = ColumnOf(text, at + 1) - Cardinality(Strays(out, text, Len(out), l))
    BY <1>1, SeqFacts DEF Counted
  <2>2. ColumnOf(text, at + 1) \in Int /\ Cardinality(Strays(out, text, Len(out), l)) \in Nat
    <3>1. at + 1 \in Nat
      OBVIOUS
    <3>2. QED
      BY <3>1, <2>1, NewlinesFacts, StraysFacts
  <2>3. QED
    BY <2>1, <2>2
<1>2. N = {}
  <2>1. \A j \in 1..n : at + 1 - 1 + j = at + j
    OBVIOUS
  <2>2. QED
    BY <2>1 DEF NewlinesIn
<1>3. Counted(out, text, at + n, l, c + n)
  <2>1. Counted(out, text, at + n, l + Cardinality(N), IF N = {} THEN c + n ELSE n - Max(N) + 1)
    BY CountedPassed
  <2>2. Cardinality(N) = 0
    BY <1>2, FS_EmptySet
  <2>3. l \in Nat
    BY NewlinesFacts DEF Counted
  <2>4. l + Cardinality(N) = l
    BY <2>2, <2>3
  <2> HIDE DEF N
  <2>5. QED
    BY <2>1, <2>4, <1>2
<1>4. /\ m \in Nat /\ Len(new) = m + 1 /\ new[m + 1] = line
      /\ Strays(new, text, m, l) = S
  <2>1. m \in Nat /\ Len(new) = m + 1 /\ new[m + 1] = line
    BY <1>1, AppendedFacts
  <2>2. Strays(new, text, m, l) = S
    BY <1>1, StraysKept
  <2>4. QED
    BY <2>1, <2>2
<1>5. S \subseteq 1..m /\ IsFiniteSet(S) /\ Cardinality(S) \in Nat
  BY <1>4, StraysFacts
<1>6. l = LineOf(text, at + n + 1) /\ c + n = ColumnOf(text, at + n + 1) - Cardinality(S)
  BY <1>3 DEF Counted
<1>7. ColumnOf(text, at + n + 1) \in Int
  BY NewlinesFacts
<1> HIDE DEF new, m
<1>8. \A k \in 1..m + 1 : k \in 1..m \/ k = m + 1
  BY <1>4
<1>9. T = IF IsStray(line, text) THEN S \cup {m + 1} ELSE S
  <2>1. m + 1 \in 1..m + 1 /\ 1..m \subseteq 1..m + 1
    BY <1>4
  <2>2. S = {k \in 1..m : IsStray(new[k], text) /\ new[k].line = l}
    BY <1>4 DEF Strays
  <2>3. T = {k \in 1..m + 1 : IsStray(new[k], text) /\ new[k].line = l}
    BY DEF Strays
  <2> HIDE DEF S, T
  <2>4. CASE IsStray(line, text)
    <3>1. T = S \cup {m + 1}
      BY <2>1, <2>2, <2>3, <2>4, <1>4, <1>8
    <3>2. QED
      BY <3>1, <2>4
  <2>5. CASE ~IsStray(line, text)
    <3>1. T = S
      BY <2>1, <2>2, <2>3, <2>5, <1>4, <1>8
    <3>2. QED
      BY <3>1, <2>5
  <2>6. QED
    BY <2>4, <2>5
<1> HIDE DEF S, T
<1>10. CASE IsStray(line, text)
  <2>1. m + 1 \notin S
    BY <1>4, <1>5
  <2>2. Cardinality(T) = Cardinality(S) + 1
    BY <2>1, <1>5, <1>9, <1>10, FS_AddElement
  <2> DEFINE x == ColumnOf(text, at + n + 1)
             y == Cardinality(S)
  <2> HIDE DEF x, y
  <2>3. c + n - 1 = x - Cardinality(T)
    <3>1. x \in Int /\ y \in Nat /\ c \in Int /\ c + n = x - y /\ Cardinality(T) = y + 1
      BY <2>2, <1>0, <1>5, <1>6, <1>7 DEF x, y
    <3>2. QED
      BY <3>1
  <2>4. Counted(new, text, at + n, l, c + n - 1)
    BY <2>3, <1>4, <1>6 DEF Counted, T, x
  <2>5. QED
    BY <2>4, <1>10 DEF new
<1>11. CASE ~IsStray(line, text)
  <2>1. Counted(new, text, at + n, l, c + n)
    BY <1>4, <1>6, <1>9, <1>11 DEF Counted, T
  <2>2. QED
    BY <2>1, <1>11 DEF new
<1>12. QED
  BY <1>10, <1>11

-----------------------------------------------------------------------------
(* A match of yylex keeps the invariant.                                   *)

\* The file that is being read, and the others.
LEMMA CurrentFacts ==
    ASSUME LexInv, pc = "scan"
    PROVE  /\ i \in Begun /\ i \in Nat /\ i >= 1 /\ i \in DOMAIN filename
           /\ IsSeq(Text(i)) /\ IsRest(input, Text(i))
           /\ IsSeq(input) /\ Len(input) \in Nat /\ Len(Text(i)) \in Nat /\ Len(input) <= Len(Text(i))
           /\ At \in Nat /\ At + Len(input) = Len(Text(i))
           /\ \A k \in 1..Len(input) : input[k] = Text(i)[At + k]
           /\ Output \in DOMAIN tokens
           /\ Listing(tokens[Output], Text(i), At)
           /\ Counted(tokens[Output], Text(i), At, lines, pos_end)
           /\ \A f \in Begun : f # i => OutputName(filename[f].name) # Output
<1>1. i \in 1..Len(filename) /\ Len(filename) \in Nat /\ i \in DOMAIN filename
  BY SeqFacts DEF LexInv, DriverInv, ScanInv
<1>2. LastOpened = i
  BY DEF LastOpened
<1>3. i \in Begun
  <2>1. i \in 1..i /\ \A g \in i + 1..i : FALSE
    BY <1>1
  <2>2. QED
    BY <2>1, <1>2 DEF Begun
<1>4. IsSeq(Text(i)) /\ IsRest(input, Text(i)) /\ Counted(tokens[Output], Text(i), At, lines, pos_end)
  BY <1>1 DEF LexInv, DriverInv, ScanInv, Lines, Output
<1>5. IsSeq(input) /\ Len(input) \in Nat /\ Len(Text(i)) \in Nat /\ Len(input) <= Len(Text(i))
  BY <1>4, SeqFacts DEF IsRest
<1>6. At \in Nat /\ At + Len(input) = Len(Text(i))
  BY <1>5 DEF At
<1>7. \A k \in 1..Len(input) : input[k] = Text(i)[At + k]
  BY <1>4 DEF IsRest, At
<1>8. Output \in DOMAIN tokens /\ Listing(tokens[Output], Text(i), At)
  <2>1. FileInv(i)
    BY <1>3 DEF LexInv
  <2>2. Upto(i) = At
    BY DEF Upto
  <2>3. QED
    BY <2>1, <2>2 DEF FileInv, Lines, Output
<1>9. ASSUME NEW f \in Begun, f # i PROVE OutputName(filename[f].name) # Output
  <2>1. f \in 1..i /\ \A g \in f + 1..i : OutputName(filename[g].name) # OutputName(filename[f].name)
    BY <1>2 DEF Begun
  <2>2. i \in f + 1..i
    BY <2>1, <1>1, <1>9
  <2>3. QED
    BY <2>1, <2>2 DEF Output
<1>10. QED
  BY <1>1, <1>3, <1>4, <1>5, <1>6, <1>7, <1>8, <1>9

\* n characters have been matched.
Ahead(n) ==
    /\ pc' = "scan"
    /\ UNCHANGED <<directory, filename, i, restarted>>
    /\ input' = SubSeq(input, n + 1, Len(input))
    /\ DOMAIN tokens' = DOMAIN tokens
    /\ \A name \in DOMAIN tokens : name # Output => tokens'[name] = tokens[name]

LEMMA MatchKeepsInv ==
    ASSUME LexInv, pc = "scan", NEW n \in 1..Len(input), Ahead(n),
           Listing(tokens'[Output], Text(i), At + n),
           Counted(tokens'[Output], Text(i), At + n, lines', pos_end')
    PROVE  LexInv'
<1> DEFINE text == Text(i)
           rest == SubSeq(input, n + 1, Len(input))
<1>1. /\ i \in Begun /\ i \in Nat /\ i >= 1 /\ i \in DOMAIN filename
      /\ IsSeq(text) /\ IsSeq(input) /\ Len(input) \in Nat /\ Len(text) \in Nat
      /\ Len(input) <= Len(text) /\ At \in Nat /\ At + Len(input) = Len(text)
      /\ \A k \in 1..Len(input) : input[k] = text[At + k]
      /\ Output \in DOMAIN tokens
      /\ \A f \in Begun : f # i => OutputName(filename[f].name) # Output
  BY CurrentFacts
<1>2. /\ pc' = "scan" /\ directory' = directory /\ filename' = filename /\ i' = i
      /\ restarted' = restarted /\ input' = rest /\ DOMAIN tokens' = DOMAIN tokens
      /\ \A name \in DOMAIN tokens : name # Output => tokens'[name] = tokens[name]
  BY DEF Ahead
<1>3. IsSeq(rest) /\ Len(rest) = Len(input) - n /\ \A k \in 1..Len(input) - n : rest[k] = input[n + k]
  <2>1. n \in 0..Len(input)
    BY <1>1
  <2>2. QED
    BY <2>1, <1>1, DropFacts
<1>4. Text(i)' = text /\ Output' = Output /\ Begun' = Begun
  <2>1. Text(i)' = text /\ Output' = Output
    BY <1>2 DEF Text, Output
  <2>2. LastOpened' = LastOpened
    BY <1>2 DEF LastOpened
  <2>3. QED
    BY <2>1, <2>2, <1>2 DEF Begun
<1> HIDE DEF text, rest
<1>a. /\ At \in Nat /\ Len(input) \in Nat /\ n \in Nat /\ n <= Len(input)
      /\ Len(text) = At + Len(input) /\ Len(rest) = Len(input) - n
  BY <1>1, <1>3
<1>5. At' = At + n
  <2>1. At' = Len(text) - Len(rest)
    BY <1>2, <1>4 DEF At
  <2>2. QED
    BY <2>1, <1>a
<1>6. DriverInv'
  BY <1>2 DEF LexInv, DriverInv, Text
<1>7. IsRest(rest, text)
  <2>1. Len(rest) \in Nat /\ Len(rest) <= Len(text)
    BY <1>1, <1>3
  <2>2. ASSUME NEW k \in 1..Len(rest) PROVE rest[k] = text[(Len(text) - Len(rest)) + k]
    <3>1. k \in 1..Len(input) - n /\ n + k \in 1..Len(input)
      BY <1>1, <1>3
    <3>2. At + (n + k) = (Len(text) - Len(rest)) + k
      <4>1. k \in Nat
        BY <3>1, <1>a
      <4>2. QED
        BY <4>1, <1>a
    <3>3. rest[k] = text[At + (n + k)]
      BY <3>1, <1>1, <1>3
    <3>4. QED
      BY <3>2, <3>3
  <2>3. QED
    BY <2>1, <2>2, <1>3 DEF IsRest
<1>8. ScanInv'
  <2>1. Lines(i)' = tokens'[Output]
    BY <1>2, <1>4 DEF Lines, Output
  <2>2. Counted(tokens'[Output], text, At + n, lines', pos_end')
    BY DEF text
  <2>3. Counted(Lines(i), Text(i), At, lines, pos_end)'
    BY <2>1, <2>2, <1>4, <1>5 DEF Counted
  <2>4. IsRest(input, Text(i))'
    BY <1>2, <1>4, <1>7 DEF IsRest
  <2>5. QED
    BY <2>3, <2>4, <1>1, <1>2 DEF ScanInv
<1>9. ASSUME NEW f \in Begun PROVE FileInv(f)'
  <2>1. CASE f = i
    <3>1. OutputName(filename[f].name)' = Output /\ Lines(f)' = tokens'[Output] /\ Text(f)' = text
      BY <2>1, <1>2 DEF Output, Lines, Text, text
    <3>2. Upto(f)' = At + n
      BY <2>1, <1>2, <1>5 DEF Upto
    <3>3. Output \in DOMAIN tokens'
      BY <1>1, <1>2
    <3>4. Listing(tokens'[Output], text, At + n)
      BY DEF text
    <3>5. QED
      BY <3>1, <3>2, <3>3, <3>4 DEF FileInv, Listing
  <2>2. CASE f # i
    <3>1. FileInv(f) /\ OutputName(filename[f].name) # Output
      BY <2>2, <1>1 DEF LexInv
    <3>2. OutputName(filename[f].name)' = OutputName(filename[f].name)
          /\ Lines(f)' = Lines(f) /\ Text(f)' = Text(f)
      BY <3>1, <1>2 DEF FileInv, Lines, Text
    <3>3. Upto(f)' = Upto(f)
      BY <2>2, <3>2, <1>2 DEF Upto
    <3>4. QED
      BY <3>1, <3>2, <3>3, <1>2 DEF FileInv, Listing
  <2>3. QED
    BY <2>1, <2>2
<1>10. QED
  BY <1>4, <1>6, <1>8, <1>9 DEF LexInv

\* What has been matched is in the text.
LEMMA MatchedText ==
    ASSUME LexInv, pc = "scan", NEW s, NEW n \in 1..Len(input), IsMatch(s, n)
    PROVE  /\ IsSeq(s) /\ Len(s) = n /\ n \in Nat /\ DOMAIN s = 1..n
           /\ Matches(s)
           /\ \A k \in 1..n : s[k] = Text(i)[At + k] /\ s[k] = input[k]
<1>1. IsSeq(s) /\ Len(s) = n /\ Matches(s) /\ \A k \in 1..n : s[k] = input[k]
  BY DEF IsMatch
<1>2. Len(input) \in Nat /\ \A k \in 1..Len(input) : input[k] = Text(i)[At + k]
  BY CurrentFacts
<1>3. n \in Nat /\ \A k \in 1..n : k \in 1..Len(input)
  BY <1>2
<1>4. DOMAIN s = 1..n
  BY <1>1, SeqFacts
<1>5. QED
  BY <1>1, <1>2, <1>3, <1>4

NewlinesOf(s) == {j \in DOMAIN s : s[j] = "\n"}

LEMMA NewlinesMatched ==
    ASSUME LexInv, pc = "scan", NEW s, NEW n \in 1..Len(input), IsMatch(s, n)
    PROVE  NewlinesIn(Text(i), At + 1, n) = NewlinesOf(s)
<1>1. At \in Nat /\ n \in Nat /\ DOMAIN s = 1..n /\ \A k \in 1..n : s[k] = Text(i)[At + k]
  BY CurrentFacts, MatchedText
<1> DEFINE at == At
           text == Text(i)
<1>2. at \in Nat /\ \A k \in 1..n : s[k] = text[at + k]
  BY <1>1
<1> HIDE DEF at, text
<1>3. \A k \in 1..n : at + 1 - 1 + k = at + k
  BY <1>1, <1>2
<1>4. NewlinesIn(text, at + 1, n) = NewlinesOf(s)
  BY <1>1, <1>2, <1>3 DEF NewlinesIn, NewlinesOf
<1>5. QED
  BY <1>4 DEF at, text

\* A match that is no token.
LEMMA PassedKeepsInv ==
    ASSUME LexInv, pc = "scan", NEW s, NEW n \in 1..Len(input), IsMatch(s, n),
           pc' = pc, UNCHANGED <<directory, filename, i, restarted, tokens>>,
           input' = SubSeq(input, Len(s) + 1, Len(input)),
           \A a \in Int : a - 1 <= At /\ Passed(Text(i), a, At) => Passed(Text(i), a, At + n),
           lines' = lines + Cardinality(NewlinesOf(s)),
           pos_end' = IF NewlinesOf(s) = {} THEN pos_end + n ELSE n - Max(NewlinesOf(s)) + 1
    PROVE  LexInv'
<1>1. /\ At \in Nat /\ Listing(tokens[Output], Text(i), At)
      /\ Counted(tokens[Output], Text(i), At, lines, pos_end)
  BY CurrentFacts
<1>2. n \in Nat /\ Len(s) = n
  BY MatchedText
<1>3. Listing(tokens[Output], Text(i), At + n)
  BY <1>1, <1>2, ListingPassed
<1>4. Counted(tokens[Output], Text(i), At + n, lines', pos_end')
  <2> DEFINE N == NewlinesIn(Text(i), At + 1, n)
  <2>1. Counted(tokens[Output], Text(i), At + n, lines + Cardinality(N),
                IF N = {} THEN pos_end + n ELSE n - Max(N) + 1)
    BY <1>1, <1>2, CountedPassed
  <2>2. N = NewlinesOf(s)
    BY NewlinesMatched
  <2> HIDE DEF N
  <2>3. QED
    BY <2>1, <2>2
<1>5. Ahead(n)
  BY <1>2 DEF Ahead
<1>6. tokens'[Output] = tokens[Output]
  OBVIOUS
<1>7. QED
  BY <1>3, <1>4, <1>5, <1>6, MatchKeepsInv

LEMMA NewLineKeepsInv ==
    ASSUME LexInv, pc = "scan", NEW s, NEW n \in 1..Len(input), IsMatch(s, n), NewLine(s)
    PROVE  LexInv'
<1>1. /\ IsSeq(s) /\ Len(s) = n /\ n \in Nat /\ DOMAIN s = 1..n /\ Matches(s)
      /\ \A k \in 1..n : s[k] = Text(i)[At + k]
  BY MatchedText
<1>2. RuleOf(s) = 1 /\ input' = SubSeq(input, Len(s) + 1, Len(input))
  BY DEF NewLine, Matched
<1>3. s = <<"\n">>
  BY <1>1, <1>2, RuleOfFacts, FitsFacts
<1>4. n = 1 /\ s[1] = "\n" /\ NewlinesOf(s) = {1}
  <2>1. n = 1
    BY <1>1, <1>3, ShortSeqs
  <2>2. s[1] = "\n"
    BY <1>3
  <2>3. \A j \in 1..n : j = 1
    BY <2>1
  <2>4. QED
    BY <2>1, <2>2, <2>3, <1>1 DEF NewlinesOf
<1>5. Cardinality(NewlinesOf(s)) = 1 /\ Max(NewlinesOf(s)) = 1 /\ NewlinesOf(s) # {}
  <2>1. Max({1}) = 1
    BY MaxIs
  <2>2. Cardinality({1}) = 1
    BY FS_Singleton
  <2>3. QED
    BY <2>1, <2>2, <1>4
<1>6. lines' = lines + Cardinality(NewlinesOf(s))
      /\ pos_end' = IF NewlinesOf(s) = {} THEN pos_end + n ELSE n - Max(NewlinesOf(s)) + 1
  <2>1. lines' = lines + 1 /\ pos_end' = 1
    BY DEF NewLine
  <2>2. n - Max(NewlinesOf(s)) + 1 = 1
    BY <1>4, <1>5
  <2>3. QED
    BY <2>1, <2>2, <1>5
<1>7. \A a \in Int : a - 1 <= At /\ Passed(Text(i), a, At) => Passed(Text(i), a, At + n)
  <2>1. At \in Nat /\ 1 \in 1..n
    BY <1>4, CurrentFacts
  <2>2. Text(i)[At + 1] \in Blanks
    BY <2>1, <1>1, <1>4 DEF Blanks
  <2>3. QED
    BY <2>1, <2>2, <1>4, BlankPassed
<1>8. pc' = pc /\ UNCHANGED <<directory, filename, i, restarted, tokens>>
  BY DEF NewLine
<1>9. QED
  BY <1>2, <1>6, <1>7, <1>8, PassedKeepsInv

LEMMA BlankKeepsInv ==
    ASSUME LexInv, pc = "scan", NEW s, NEW n \in 1..Len(input), IsMatch(s, n), Blank(s)
    PROVE  LexInv'
<1>1. /\ IsSeq(s) /\ Len(s) = n /\ n \in Nat /\ DOMAIN s = 1..n /\ Matches(s)
      /\ \A k \in 1..n : s[k] = Text(i)[At + k]
  BY MatchedText
<1>2. RuleOf(s) = 2 /\ input' = SubSeq(input, Len(s) + 1, Len(input))
  BY DEF Blank, Matched
<1>3. s = <<"\t">> \/ s = <<" ">>
  BY <1>1, <1>2, RuleOfFacts, FitsFacts
<1>4. n = 1 /\ s[1] \in Blanks /\ NewlinesOf(s) = {}
  <2>1. n = 1
    <3>1. Len(s) = 1
      <4>1. CASE s = <<"\t">>
        BY <4>1
      <4>2. CASE s = <<" ">>
        BY <4>2
      <4>3. QED
        BY <4>1, <4>2, <1>3
    <3>2. QED
      BY <3>1, <1>1
  <2>2. s[1] = "\t" \/ s[1] = " "
    <3>1. CASE s = <<"\t">>
      BY <3>1
    <3>2. CASE s = <<" ">>
      BY <3>2
    <3>3. QED
      BY <3>1, <3>2, <1>3
  <2>3. \A j \in 1..n : j = 1
    BY <2>1
  <2>4. QED
    BY <2>1, <2>2, <2>3, <1>1 DEF NewlinesOf, Blanks
<1>5. lines' = lines + Cardinality(NewlinesOf(s))
      /\ pos_end' = IF NewlinesOf(s) = {} THEN pos_end + n ELSE n - Max(NewlinesOf(s)) + 1
  <2>1. lines' = lines /\ pos_end' = pos_end + 1
    BY DEF Blank
  <2>2. Cardinality(NewlinesOf(s)) = 0
    BY <1>4, FS_EmptySet
  <2>3. lines \in Nat
    <3>1. At + 1 \in Nat /\ lines = LineOf(Text(i), At + 1)
      BY CurrentFacts DEF Counted
    <3>2. QED
      BY <3>1, NewlinesFacts
  <2>4. lines + 0 = lines
    BY <2>3
  <2>5. QED
    BY <2>1, <2>2, <2>4, <1>4
<1>6. \A a \in Int : a - 1 <= At /\ Passed(Text(i), a, At) => Passed(Text(i), a, At + n)
  <2>1. At \in Nat /\ 1 \in 1..n
    BY <1>4, CurrentFacts
  <2>2. Text(i)[At + 1] \in Blanks
    BY <2>1, <1>1, <1>4
  <2>3. QED
    BY <2>1, <2>2, <1>4, BlankPassed
<1>7. pc' = pc /\ UNCHANGED <<directory, filename, i, restarted, tokens>>
  BY DEF Blank
<1>8. QED
  BY <1>2, <1>5, <1>6, <1>7, PassedKeepsInv

LEMMA SkipCommentKeepsInv ==
    ASSUME LexInv, pc = "scan", NEW s, NEW n \in 1..Len(input), IsMatch(s, n), SkipComment(s)
    PROVE  LexInv'
<1>1. /\ IsSeq(s) /\ Len(s) = n /\ n \in Nat /\ DOMAIN s = 1..n /\ Matches(s)
      /\ \A k \in 1..n : s[k] = Text(i)[At + k]
  BY MatchedText
<1>2. RuleOf(s) = 3 /\ input' = SubSeq(input, Len(s) + 1, Len(input))
  BY DEF SkipComment, Matched
<1>3. n >= 4 /\ s[1] = "/" /\ s[2] = "*" /\ s[n - 1] = "*" /\ s[n] = "/"
  BY <1>1, <1>2, RuleOfFacts, FitsFacts, CommentShape
<1>4. lines' = lines + Cardinality(NewlinesOf(s))
      /\ pos_end' = IF NewlinesOf(s) = {} THEN pos_end + n ELSE n - Max(NewlinesOf(s)) + 1
  BY <1>1 DEF SkipComment, NewlinesOf
<1>5. \A a \in Int : a - 1 <= At /\ Passed(Text(i), a, At) => Passed(Text(i), a, At + n)
  <2> DEFINE at == At
             text == Text(i)
  <2>1. at \in Nat /\ \A k \in 1..n : s[k] = text[at + k]
    BY <1>1, CurrentFacts
  <2> HIDE DEF at, text
  <2>2. 1 \in 1..n /\ 2 \in 1..n /\ n - 1 \in 1..n /\ n \in 1..n
    BY <1>1, <1>3
  <2>3. text[at + 1] = "/" /\ text[at + 2] = "*" /\ text[at + (n - 1)] = "*" /\ text[at + n] = "/"
    BY <2>1, <2>2, <1>3
  <2>4. at \in Int /\ n \in Nat /\ n >= 4
    BY <2>1, <1>1, <1>3
  <2>5. ASSUME NEW a \in Int, a - 1 <= at, Passed(text, a, at) PROVE Passed(text, a, at + n)
    BY <2>3, <2>4, <2>5, CommentPassed
  <2>6. QED
    BY <2>5 DEF at, text
<1>6. pc' = pc /\ UNCHANGED <<directory, filename, i, restarted, tokens>>
  BY DEF SkipComment
<1>7. QED
  BY <1>2, <1>4, <1>5, <1>6, PassedKeepsInv

\* A match that is a token.
LEMMA ReportKeepsInv ==
    ASSUME LexInv, pc = "scan", NEW s, NEW n \in 1..Len(input), IsMatch(s, n),
           input' = SubSeq(input, Len(s) + 1, Len(input)), directory' = directory,
           NEW token, NEW start, NEW end, Report(s, token, start, end),
           \A k \in 1..n : s[k] # "\n",
           LET stray == token = "ERROR" /\ s[1] \notin Letters \cup Digits
           IN  /\ ~stray => start = pos_end /\ end = pos_end + n /\ pos_end' = pos_end + n
               /\ stray => n = 1 /\ pos_end' = pos_end,
           n < Len(input) /\ (\A k \in 1..n + 1 : input[k] \in Letters \cup Digits) => token = "ERROR"
    PROVE  LexInv'
<1> DEFINE at == At
           text == Text(i)
           out == tokens[Output]
           line == [token |-> token, line |-> lines, start |-> start, end |-> end,
                    from |-> at + 1, to |-> at + n]
           stray == token = "ERROR" /\ s[1] \notin Letters \cup Digits
<1>1. /\ IsSeq(s) /\ Len(s) = n /\ n \in Nat /\ n >= 1
      /\ \A k \in 1..n : s[k] = text[at + k]
  BY MatchedText, SeqFacts DEF IsMatch
<1>2. /\ at \in Nat /\ Len(input) \in Nat /\ Len(text) = at + Len(input)
      /\ \A k \in 1..Len(input) : input[k] = text[at + k]
      /\ Output \in DOMAIN tokens
      /\ Listing(out, text, at) /\ Counted(out, text, at, lines, pos_end)
  BY CurrentFacts
<1>3. /\ pc' = "scan" /\ UNCHANGED <<filename, i, restarted, lines>>
      /\ tokens' = [tokens EXCEPT ![Output] = Append(out, line)]
  BY <1>1 DEF Report, After, At, Text
<1> HIDE DEF at, text, out
<1>4. line.from = at + 1 /\ line.to = at + n /\ line.line = lines /\ line.token = token
      /\ line.start = start /\ line.end = end
  OBVIOUS
<1>5. IsStray(line, text) <=> stray
  <2>1. text[at + 1] = s[1]
    <3>1. 1 \in 1..n
      BY <1>1
    <3>2. QED
      BY <3>1, <1>1
  <2>2. QED
    BY <2>1, <1>4 DEF IsStray
<1> HIDE DEF line
<1>6. lines = LineOf(text, at + 1)
      /\ pos_end = ColumnOf(text, at + 1) - Cardinality(Strays(out, text, Len(out), lines))
  BY <1>2 DEF Counted
<1>7. pos_end \in Int
  <2>1. at + 1 \in Nat /\ Len(out) \in Nat
    BY <1>2, SeqFacts DEF Listing
  <2>2. ColumnOf(text, at + 1) \in Int /\ Cardinality(Strays(out, text, Len(out), lines)) \in Nat
    BY <2>1, NewlinesFacts, StraysFacts
  <2>3. QED
    BY <2>2, <1>6
<1>8. Listing(Append(out, line), text, at + n)
  <2>1. \/ IsStray(line, text)
        \/ LocatedAt(line, text, ColumnOf(text, at + 1) - Cardinality(Strays(out, text, Len(out), line.line)))
    <3> SUFFICES ASSUME ~stray PROVE LocatedAt(line, text, pos_end)
      BY <1>4, <1>5, <1>6
    <3>1. start = pos_end /\ end = pos_end + n
      OBVIOUS
    <3>2. pos_end + ((at + n) - (at + 1)) + 1 = pos_end + n
      BY <1>1, <1>2, <1>7
    <3>3. line.end = pos_end + line.to - line.from + 1
      BY <3>1, <3>2, <1>4
    <3>4. QED
      BY <3>1, <3>3, <1>4, <1>6 DEF LocatedAt
  <2>2. ASSUME at + n < Len(text), AllAlnum(text, at + 1, at + n + 1) PROVE line.token = "ERROR"
    <3>1. n < Len(input)
      BY <2>2, <1>1, <1>2
    <3>2. ASSUME NEW k \in 1..n + 1 PROVE input[k] \in Letters \cup Digits
      <4>1. k \in 1..Len(input) /\ at + k \in at + 1..at + n + 1
        BY <3>1, <1>1, <1>2
      <4>2. QED
        BY <4>1, <2>2, <1>2 DEF AllAlnum
    <3>3. QED
      BY <3>1, <3>2, <1>4
  <2>3. line.line = LineOf(text, at + 1)
    BY <1>4, <1>6
  <2>4. QED
    BY <2>1, <2>2, <2>3, <1>1, <1>2, <1>4, ListingReported
<1>9. Counted(Append(out, line), text, at + n, lines, pos_end')
  <2>1. \A j \in 1..n : text[at + j] # "\n"
    BY <1>1
  <2>2. Counted(Append(out, line), text, at + n, lines,
                IF IsStray(line, text) THEN pos_end + n - 1 ELSE pos_end + n)
    BY <2>1, <1>1, <1>2, <1>4, CountedReported
  <2>3. pos_end' = IF IsStray(line, text) THEN pos_end + n - 1 ELSE pos_end + n
    <3>1. CASE stray
      <4>1. n - 1 = 0 /\ pos_end + 0 = pos_end /\ pos_end' = pos_end
        BY <3>1, <1>7
      <4>2. QED
        BY <4>1, <3>1, <1>5
    <3>2. CASE ~stray
      BY <3>2, <1>5
    <3>3. QED
      BY <3>1, <3>2
  <2>4. QED
    BY <2>2, <2>3
<1>10. tokens'[Output] = Append(out, line) /\ Ahead(n)
  BY <1>1, <1>2, <1>3 DEF Ahead
<1>11. QED
  <2>1. Listing(tokens'[Output], Text(i), At + n)
    BY <1>8, <1>10 DEF at, text
  <2>2. Counted(tokens'[Output], Text(i), At + n, lines', pos_end')
    BY <1>3, <1>9, <1>10 DEF at, text
  <2>3. QED
    BY <2>1, <2>2, <1>10, MatchKeepsInv

LEMMA WordKeepsInv ==
    ASSUME LexInv, pc = "scan", NEW s, NEW n \in 1..Len(input), IsMatch(s, n), Word(s),
           \A m \in n + 1..Len(input) : ~Matches(SubSeq(input, 1, m))
    PROVE  LexInv'
<1>1. IsSeq(s) /\ Len(s) = n /\ Matches(s) /\ \A k \in 1..n : s[k] = input[k]
  BY MatchedText
<1>2. RuleOf(s) \in 4..7 /\ input' = SubSeq(input, Len(s) + 1, Len(input))
  BY DEF Word, Matched
<1>3. pos_end' = pos_end + n /\ Report(s, TokenOf(s), pos_end, pos_end + n)
  BY <1>1 DEF Word, TokenOf
<1>4. directory' = directory
  BY <1>3 DEF Report
<1>5. /\ \A k \in 1..n : s[k] # "\n"
      /\ TokenOf(s) = "ERROR" <=> RuleOf(s) = 4
      /\ TokenOf(s) = "ERROR" => s[1] \in Letters \cup Digits
  BY <1>1, <1>2, WordFacts
<1>6. n < Len(input) /\ (\A k \in 1..n + 1 : input[k] \in Letters \cup Digits) => TokenOf(s) = "ERROR"
  <2>1. IsSeq(input)
    BY CurrentFacts
  <2>2. QED
    BY <2>1, <1>2, <1>5, WholeWord
<1> DEFINE token == TokenOf(s)
           end == pos_end + n
<1> HIDE DEF token, end
<1>7. /\ Report(s, token, pos_end, end) /\ end = pos_end + n
      /\ (token = "ERROR" => s[1] \in Letters \cup Digits)
      /\ n < Len(input) /\ (\A k \in 1..n + 1 : input[k] \in Letters \cup Digits) => token = "ERROR"
  BY <1>3, <1>5, <1>6 DEF token, end
<1>8. QED
  BY <1>2, <1>3, <1>4, <1>5, <1>7, ReportKeepsInv

LEMMA StrayKeepsInv ==
    ASSUME LexInv, pc = "scan", NEW s, NEW n \in 1..Len(input), IsMatch(s, n), Stray(s)
    PROVE  LexInv'
<1>1. /\ IsSeq(s) /\ Len(s) = n /\ n \in Nat /\ DOMAIN s = 1..n /\ Matches(s)
      /\ \A k \in 1..n : s[k] = input[k]
  BY MatchedText
<1>2. RuleOf(s) = 8 /\ input' = SubSeq(input, Len(s) + 1, Len(input))
  BY DEF Stray, Matched
<1>3. Report(s, "ERROR", pos_start, pos_end) /\ pos_end' = pos_end
  BY DEF Stray
<1>4. directory' = directory
  BY <1>3 DEF Report
<1>5. n = 1 /\ s # <<"\n">> /\ ~AllIn(s, Letters) /\ ~AllIn(s, Digits)
  <2>1. Fits(s, 8) /\ \A q \in 1..7 : ~Fits(s, q)
    BY <1>1, <1>2, RuleOfFacts
  <2>2. ~Fits(s, 6) /\ ~Fits(s, 7)
    BY <2>1
  <2>3. QED
    BY <2>1, <2>2, <1>1, FitsFacts
<1>6. \A k \in 1..n : k = 1
  BY <1>5
<1>7. s[1] \notin Letters \cup Digits
  <2>1. ASSUME NEW X, s[1] \in X PROVE AllIn(s, X)
    <3>1. Len(s) >= 1 /\ \A k \in 1..Len(s) : s[k] \in X
      BY <2>1, <1>1, <1>5, <1>6
    <3>2. QED
      BY <3>1, <1>1, AllInFacts
  <2>2. QED
    BY <2>1, <1>5
<1>8. s[1] # "\n"
  <2>1. s = <<s[1]>>
    <3>1. s = <<Head(s)>>
      BY <1>1, <1>5, SingletonSeq
    <3>2. <<Head(s)>>[1] = Head(s)
      OBVIOUS
    <3>3. QED
      BY <3>1, <3>2
  <2>2. QED
    BY <2>1, <1>5
<1>9. \A k \in 1..n : s[k] # "\n"
  BY <1>6, <1>8
<1>10. QED
  BY <1>2, <1>3, <1>4, <1>5, <1>7, <1>9, ReportKeepsInv

LEMMA ScanKeepsInv == ASSUME LexInv, Scan PROVE LexInv'
<1> DEFINE s == NextMatch
<1>1. /\ pc = "scan" /\ input # <<>>
      /\ NewLine(s) \/ Blank(s) \/ SkipComment(s) \/ Word(s) \/ Stray(s)
  BY DEF Scan
<1>2. IsSeq(input)
  BY <1>1, CurrentFacts
<1>3. PICK n \in 1..Len(input) :
         /\ IsMatch(s, n)
         /\ \A m \in n + 1..Len(input) : ~Matches(SubSeq(input, 1, m))
  BY <1>1, <1>2, NextMatchFacts
<1> HIDE DEF s
<1>4. QED
  BY <1>1, <1>3, NewLineKeepsInv, BlankKeepsInv, SkipCommentKeepsInv, WordKeepsInv, StrayKeepsInv

-----------------------------------------------------------------------------
(* The files, one after the other.                                         *)

\* A text of which nothing has been read.
LEMMA NothingRead ==
    ASSUME NEW text, IsSeq(text)
    PROVE  Listing(<<>>, text, 0) /\ Counted(<<>>, text, 0, 1, 1) /\ IsRest(text, text)
<1>1. IsSeq(<<>>) /\ Len(<<>>) = 0 /\ DOMAIN <<>> = {}
  BY ShortSeqs
<1>2. EndBefore(<<>>, 1) = 0
  BY DEF EndBefore
<1>3. Passed(text, 1, 0)
  BY NothingPassed
<1>4. Listing(<<>>, text, 0)
  <2>1. EndBefore(<<>>, Len(<<>>) + 1) + 1 = 1
    <3>1. Len(<<>>) + 1 = 1
      BY <1>1
    <3>2. QED
      BY <3>1, <1>2
  <2>2. Covered(<<>>, text, 0)
    BY <2>1, <1>1, <1>3 DEF Covered
  <2>3. InOrder(<<>>, 0) /\ OnTheirLines(<<>>, text) /\ LocatedExceptStray(<<>>, text) /\ WholeWords(<<>>, text)
    BY <1>1 DEF InOrder, OnTheirLines, LocatedExceptStray, WholeWords
  <2>4. QED
    BY <2>2, <2>3, <1>1 DEF Listing
<1>5. NewlinesBefore(text, 0 + 1) = {} /\ {0} \cup {} = {0}
  BY DEF NewlinesBefore
<1>6. LineOf(text, 0 + 1) = 1
  BY <1>5, FS_EmptySet DEF LineOf
<1>7. ColumnOf(text, 0 + 1) = 1
  <2>1. Max({0}) = 0
    BY MaxIs
  <2>2. QED
    BY <2>1, <1>5 DEF ColumnOf
<1>8. Cardinality(Strays(<<>>, text, Len(<<>>), 1)) = 0
  <2>1. Strays(<<>>, text, Len(<<>>), 1) = {}
    BY <1>1 DEF Strays
  <2>2. QED
    BY <2>1, FS_EmptySet
<1>9. Counted(<<>>, text, 0, 1, 1)
  BY <1>6, <1>7, <1>8 DEF Counted
<1>10. IsRest(text, text)
  <2>1. Len(text) \in Nat
    BY SeqFacts
  <2>2. \A k \in 1..Len(text) : (Len(text) - Len(text)) + k = k
    BY <2>1
  <2>3. QED
    BY <2>1, <2>2 DEF IsRest
<1>11. QED
  BY <1>4, <1>9, <1>10

\* The entries that getAllTestcase chooses are a sequence of entries.
LEMMA ChosenFacts ==
    ASSUME NEW entries \in Directories, NEW names \in Chosen(entries)
    PROVE  IsSeq(names) /\ \A k \in DOMAIN names : IsSeq(names[k].text)
<1> DEFINE places == {e \in DOMAIN entries : IsTestcase(entries[e])}
           n == Cardinality(places)
<1>1. IsSeq(entries) /\ \A e \in DOMAIN entries : IsSeq(entries[e].text)
  BY DirectoriesAssumption DEF IsSeq
<1>2. places \subseteq 1..Len(entries) /\ Len(entries) \in Nat /\ DOMAIN entries = 1..Len(entries)
  BY <1>1, SeqFacts
<1>3. n \in Nat
  <2>1. IsFiniteSet(1..Len(entries))
    BY <1>2, FS_Interval
  <2>2. QED
    BY <2>1, <1>2, FS_Subset, FS_CardinalityType
<1>4. PICK f \in [1..n -> places] : names = [k \in DOMAIN f |-> entries[f[k]]]
  BY DEF Chosen
<1> HIDE DEF places, n
<1>5. DOMAIN names = 1..n /\ names = [k \in 1..n |-> names[k]]
      /\ \A k \in 1..n : names[k] = entries[f[k]] /\ f[k] \in places
  BY <1>4
<1>6. IsSeq(names)
  BY <1>3, <1>5, FunctionIsSeq
<1>7. ASSUME NEW k \in DOMAIN names PROVE IsSeq(names[k].text)
  <2>1. names[k] = entries[f[k]] /\ f[k] \in DOMAIN entries
    BY <1>2, <1>5
  <2>2. QED
    BY <2>1, <1>1
<1>8. QED
  BY <1>6, <1>7

LEMMA GetAllTestcaseKeepsInv == ASSUME LexInv, GetAllTestcase PROVE LexInv'
<1>1. /\ pc = "list" /\ pc' = "next" /\ i' = i /\ i = 0 /\ directory' = directory
      /\ directory \in Directories /\ restarted' = restarted /\ restarted
      /\ filename' \in Chosen(directory)
  BY DEF LexInv, DriverInv, GetAllTestcase, scanner
<1> DEFINE names == filename'
<1>2. IsSeq(names) /\ \A f \in DOMAIN names : IsSeq(names[f].text)
  BY <1>1, ChosenFacts
<1>3. Len(names) \in Nat
  BY <1>2, SeqFacts
<1>4. DriverInv'
  BY <1>1, <1>2, <1>3 DEF DriverInv, Text
<1>5. ScanInv'
  BY <1>1 DEF ScanInv
<1>6. Begun' = {}
  <2>1. LastOpened' = 0 /\ 1..0 = {}
    BY <1>1 DEF LastOpened
  <2>2. QED
    BY <2>1 DEF Begun
<1>7. QED
  BY <1>4, <1>5, <1>6 DEF LexInv

\* The token files that are complete stay as they are.
LEMMA OthersKept ==
    ASSUME LexInv, NEW f \in Begun, filename' = filename,
           OutputName(filename[f].name) \in DOMAIN tokens'
               /\ tokens'[OutputName(filename[f].name)] = tokens[OutputName(filename[f].name)],
           Upto(f)' = Upto(f)
    PROVE  FileInv(f)'
<1>1. FileInv(f)
  BY DEF LexInv
<1>2. OutputName(filename[f].name)' = OutputName(filename[f].name) /\ Text(f)' = Text(f) /\ Lines(f)' = Lines(f)
  BY DEF Text, Lines
<1>3. QED
  BY <1>1, <1>2 DEF FileInv, Listing

LEMMA AnalyzeKeepsInv == ASSUME LexInv, Analyze PROVE LexInv'
<1>1. /\ pc = "next" /\ i \in Nat /\ i + 1 \in 1..Len(filename) /\ i' = i + 1
      /\ lines' = 1 /\ pos_end' = 1 /\ restarted
      /\ directory' = directory /\ filename' = filename /\ directory \in Directories
      /\ Len(filename) \in Nat /\ IsSeq(filename) /\ \A f \in DOMAIN filename : IsSeq(Text(f))
  <2>1. /\ pc = "next" /\ i < Len(filename) /\ i' = i + 1 /\ lines' = 1 /\ pos_end' = 1
        /\ directory' = directory /\ filename' = filename
    BY DEF Analyze
  <2>2. /\ i \in 0..Len(filename) /\ IsSeq(filename) /\ restarted /\ directory \in Directories
        /\ \A f \in DOMAIN filename : IsSeq(Text(f))
    BY <2>1 DEF LexInv, DriverInv
  <2>3. Len(filename) \in Nat
    BY <2>2, SeqFacts
  <2>4. i \in Nat /\ i + 1 \in 1..Len(filename)
    BY <2>1, <2>2, <2>3
  <2>5. QED
    BY <2>1, <2>2, <2>3, <2>4
<1> DEFINE text == Text(i + 1)
           output == OutputName(filename[i + 1].name)
<1>2. input' = text /\ IsSeq(text)
  <2>1. i + 1 \in DOMAIN filename
    BY <1>1, SeqFacts
  <2>2. QED
    BY <2>1, <1>1 DEF Analyze, Text
<1>3. \/ pc' = "scan" /\ tokens' = Emptied(output)
      \/ pc' \in {"exit", "undefined"} /\ tokens' = tokens
  <2>1. PICK opening \in Openings :
          /\ pc' = CASE opening = "opened" -> "scan"
                     [] opening = "no input" -> "exit"
                     [] opening = "no output" -> "undefined"
          /\ tokens' = IF opening = "opened" THEN Emptied(OutputName(filename[i'].name))
                       ELSE tokens
    BY DEF Analyze
  <2>2. opening \in {"opened", "no input", "no output"}
    BY OpeningsAssumption
  <2>3. CASE opening = "opened"
    BY <2>1, <2>3, <1>1
  <2>4. CASE opening = "no input"
    BY <2>1, <2>4
  <2>5. CASE opening = "no output"
    BY <2>1, <2>5
  <2>6. QED
    BY <2>2, <2>3, <2>4, <2>5
<1>4. DriverInv'
  <2>1. pc' \in {"scan", "exit", "undefined"} /\ i + 1 \in 0..Len(filename)
    BY <1>1, <1>3
  <2>2. \A f \in DOMAIN filename' : IsSeq(Text(f)')
    BY <1>1 DEF Text
  <2>3. QED
    BY <2>1, <2>2, <1>1 DEF DriverInv
<1>5. LastOpened = i
  BY <1>1 DEF LastOpened
<1>6. CASE pc' = "scan" /\ tokens' = Emptied(output)
  <2>1. Text(i)' = text /\ Len(text) \in Nat
    BY <1>1, <1>2, SeqFacts DEF Text
  <2>2. At' = 0
    BY <2>1, <1>2 DEF At
  <2>3. Lines(i)' = <<>> /\ OutputName(filename[i].name)' = output /\ output \in DOMAIN tokens'
    BY <1>1, <1>6 DEF Lines, Emptied
  <2>4. Listing(<<>>, text, 0) /\ Counted(<<>>, text, 0, 1, 1) /\ IsRest(text, text)
    BY <1>2, NothingRead
  <2>5. ScanInv'
    <3>1. IsRest(input, Text(i))'
      BY <2>1, <2>4, <1>2 DEF IsRest
    <3>2. Counted(Lines(i), Text(i), At, lines, pos_end)'
      BY <2>1, <2>2, <2>3, <2>4, <1>1 DEF Counted
    <3>3. QED
      BY <3>1, <3>2, <1>1 DEF ScanInv
  <2>6. ASSUME NEW f \in Begun' PROVE FileInv(f)'
    <3>1. LastOpened' = i + 1
      BY <1>1, <1>6 DEF LastOpened
    <3>2. f \in 1..i + 1
          /\ \A g \in f + 1..i + 1 : OutputName(filename[g].name) # OutputName(filename[f].name)
      BY <3>1, <1>1 DEF Begun
    <3>3. CASE f = i + 1
      <4>1. Lines(f)' = <<>> /\ Text(f)' = text /\ OutputName(filename[f].name)' = output
        BY <3>3, <2>1, <2>3, <1>1
      <4>2. Upto(f)' = 0
        BY <3>3, <2>2, <1>1, <1>6 DEF Upto
      <4>3. QED
        BY <4>1, <4>2, <2>3, <2>4 DEF FileInv, Listing
    <3>4. CASE f # i + 1
      <4>1. f \in 1..i /\ i + 1 \in f + 1..i + 1 /\ \A g \in f + 1..i : g \in f + 1..i + 1
        BY <3>2, <3>4, <1>1
      <4>2. f \in Begun /\ OutputName(filename[f].name) # output
        BY <4>1, <3>2, <1>5 DEF Begun
      <4>3. OutputName(filename[f].name) \in DOMAIN tokens
        BY <4>2 DEF LexInv, FileInv
      <4>4. OutputName(filename[f].name) \in DOMAIN tokens'
            /\ tokens'[OutputName(filename[f].name)] = tokens[OutputName(filename[f].name)]
        BY <4>2, <4>3, <1>6 DEF Emptied
      <4>5. Upto(f)' = Upto(f)
        BY <3>4, <1>1, <1>6 DEF Upto, Text
      <4>6. QED
        BY <4>2, <4>4, <4>5, <1>1, OthersKept
    <3>5. QED
      BY <3>3, <3>4
  <2>7. QED
    BY <2>5, <2>6, <1>4 DEF LexInv
<1>7. CASE pc' \in {"exit", "undefined"} /\ tokens' = tokens
  <2>1. LastOpened' = i
    BY <1>1, <1>7 DEF LastOpened
  <2>2. Begun' = Begun
    BY <2>1, <1>1, <1>5 DEF Begun
  <2>3. ScanInv'
    BY <1>7 DEF ScanInv
  <2>4. ASSUME NEW f \in Begun PROVE FileInv(f)'
    <3>1. Upto(f)' = Upto(f)
      BY <1>1, <1>7 DEF Upto, Text
    <3>2. OutputName(filename[f].name) \in DOMAIN tokens
      BY DEF LexInv, FileInv
    <3>3. QED
      BY <3>1, <3>2, <1>1, <1>7, OthersKept
  <2>5. QED
    BY <2>2, <2>3, <2>4, <1>4 DEF LexInv
<1>8. QED
  BY <1>3, <1>6, <1>7

\* Nothing is left of the text when its token file is complete.
LEMMA CloseFilesKeepsInv == ASSUME LexInv, CloseFiles PROVE LexInv'
<1>1. /\ pc = "scan" /\ input = <<>> /\ restarted' /\ pc' = "next"
      /\ UNCHANGED <<directory, filename, i, tokens>>
  BY DEF CloseFiles, LexInv, DriverInv
<1>2. DriverInv'
  BY <1>1 DEF LexInv, DriverInv, Text
<1>3. Begun' = Begun
  <2>1. LastOpened' = LastOpened
    BY <1>1 DEF LastOpened
  <2>2. QED
    BY <2>1, <1>1 DEF Begun
<1>4. At = Len(Text(i))
  <2>1. Len(input) = 0 /\ At + Len(input) = Len(Text(i)) /\ At \in Nat
    BY <1>1, ShortSeqs, CurrentFacts
  <2>2. QED
    BY <2>1
<1>5. ASSUME NEW f \in Begun PROVE FileInv(f)'
  <2>1. Upto(f)' = Len(Text(f))
    BY <1>1 DEF Upto, Text
  <2>2. Upto(f) = Len(Text(f))
    BY <1>1, <1>4 DEF Upto
  <2>3. OutputName(filename[f].name) \in DOMAIN tokens
    BY DEF LexInv, FileInv
  <2>4. QED
    BY <2>1, <2>2, <2>3, <1>1, OthersKept
<1>6. QED
  BY <1>1, <1>2, <1>3, <1>5 DEF LexInv, ScanInv

\* The other steps leave everything but pc alone.
LEMMA OtherStepsKeepInv == ASSUME LexInv, Return \/ Ended \/ UNCHANGED vars PROVE LexInv'
<1>1. CASE UNCHANGED vars
  <2>1. /\ directory' = directory /\ filename' = filename /\ i' = i /\ pc' = pc
        /\ input' = input /\ restarted' = restarted /\ lines' = lines /\ pos_start' = pos_start
        /\ pos_end' = pos_end /\ tokens' = tokens
    BY <1>1 DEF vars, scanner, position
  <2>2. DriverInv'
    BY <2>1 DEF LexInv, DriverInv, Text
  <2>3. ScanInv'
    BY <2>1 DEF LexInv, ScanInv, Text, Lines, At, IsRest, Counted
  <2>4. Begun' = Begun
    BY <2>1 DEF Begun, LastOpened
  <2>5. ASSUME NEW f \in Begun PROVE FileInv(f)'
    <3>1. Upto(f)' = Upto(f)
      BY <2>1 DEF Upto, At, Text
    <3>2. OutputName(filename[f].name) \in DOMAIN tokens
      BY DEF LexInv, FileInv
    <3>3. QED
      BY <3>1, <3>2, <2>1, OthersKept
  <2>6. QED
    BY <2>2, <2>3, <2>4, <2>5 DEF LexInv
<1>2. CASE Return
  <2>1. /\ directory' = directory /\ filename' = filename /\ i' = i /\ pc = "next" /\ pc' = "done"
        /\ restarted' = restarted /\ tokens' = tokens
    BY <1>2 DEF Return, scanner
  <2>2. DriverInv'
    BY <2>1 DEF LexInv, DriverInv, Text
  <2>3. ScanInv'
    BY <2>1 DEF ScanInv
  <2>4. Begun' = Begun
    BY <2>1 DEF Begun, LastOpened
  <2>5. ASSUME NEW f \in Begun PROVE FileInv(f)'
    <3>1. Upto(f)' = Upto(f)
      BY <2>1 DEF Upto, Text
    <3>2. OutputName(filename[f].name) \in DOMAIN tokens
      BY DEF LexInv, FileInv
    <3>3. QED
      BY <3>1, <3>2, <2>1, OthersKept
  <2>6. QED
    BY <2>2, <2>3, <2>4, <2>5 DEF LexInv
<1>3. QED
  BY <1>1, <1>2 DEF Ended

LEMMA InitMeetsInv == ASSUME Init PROVE LexInv
<1>1. IsSeq(<<>>) /\ Len(<<>>) = 0 /\ DOMAIN <<>> = {}
  BY ShortSeqs
<1>2. DriverInv
  BY <1>1 DEF Init, DriverInv
<1>3. Begun = {}
  <2>1. LastOpened = 0 /\ 1..0 = {}
    BY DEF Init, LastOpened
  <2>2. QED
    BY <2>1 DEF Begun
<1>4. ScanInv
  BY DEF Init, ScanInv
<1>5. QED
  BY <1>2, <1>3, <1>4 DEF LexInv

LEMMA NextKeepsInv == ASSUME LexInv, [Next]_vars PROVE LexInv'
<1>1. CASE GetAllTestcase
  BY <1>1, GetAllTestcaseKeepsInv
<1>2. CASE Analyze
  BY <1>2, AnalyzeKeepsInv
<1>3. CASE Scan
  BY <1>3, ScanKeepsInv
<1>4. CASE CloseFiles
  BY <1>4, CloseFilesKeepsInv
<1>5. CASE Return \/ Ended \/ UNCHANGED vars
  BY <1>5, OtherStepsKeepInv
<1>6. QED
  BY <1>1, <1>2, <1>3, <1>4, <1>5 DEF Next

-----------------------------------------------------------------------------
(* The theorems.                                                           *)

\* Between any two matches of yylex the lines of every token file stand for
\* disjoint pieces of its text, in their order, and the counters of the file
\* being read are the line and the column reached in it, less one column for
\* each stray character of the line: through comments of several lines,
\* errors and the change of files (lexical_analyzer.l:37-157).
THEOREM LexInvariance == Spec => []LexInv
<1>1. Init => LexInv
  BY InitMeetsInv
<1>2. LexInv /\ [Next]_vars => LexInv'
  BY NextKeepsInv
<1>3. QED
  BY <1>1, <1>2, PTL DEF Spec

\* Whatever the files hold and in whatever order they are read, a token is
\* at the line and the columns its line says, except for what the rule for
\* all other characters (lexical_analyzer.l:101), which does not move
\* pos_end, takes away on its line.
THEOREM PositionsMatch == Spec => []PositionsExceptStray
<1>1. LexInv => PositionsExceptStray
  BY PositionsFollow
<1>2. QED
  BY <1>1, LexInvariance, PTL

\* The comment pattern (lexical_analyzer.l:57) finds every comment that is
\* closed, in every text, and goes past the first */ only over two stars.
THEOREM CommentsAreDelimited == Spec => []CommentsDelimited
<1>1. LexInv => CommentsDelimited
  BY CommentsFollow
<1>2. QED
  BY <1>1, LexInvariance, PTL

\* The loop of analyzer() (lexical_analyzer.l:130-152) writes every token
\* of a file: between the lines of a finished token file the text has only
\* blanks and comments, whatever errors it has and whatever the file before
\* it held.
THEOREM NothingIsDropped == Spec => []NothingDropped
<1>1. LexInv => NothingDropped
  BY GapsFollow
<1>2. QED
  BY <1>1, LexInvariance, PTL

\* A run of letters and digits that is cut into several tokens has an error
\* among them: the longest match of the patterns for identifiers, numbers
\* and mixed words (lexical_analyzer.l:72,99,100) stops inside of such a run
\* only with the mixed one.
THEOREM MixedWordsAreRejected == Spec => []MixedWordsRejected
<1>1. LexInv => MixedWordsRejected
  BY WordsFollow
<1>2. QED
  BY <1>1, LexInvariance, PTL
=============================================================================
