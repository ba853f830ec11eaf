--------------------------- MODULE SequenceLemmas ---------------------------
(***************************************************************************)
(* Facts about sequences that the proofs cite: what concatenating,         *)
(* appending, dropping and taking elements leaves where; least numbers.    *)
(***************************************************************************)
EXTENDS Integers, Sequences, SequencesExt, FiniteSetTheorems, TLAPS

\* s is a sequence, of whatever elements.
IsSeq(s) == s \in Seq(Range(s))

\* A sequence over some set is a sequence over its own elements.
LEMMA SeqOverRange == ASSUME NEW S, NEW s \in Seq(S) PROVE IsSeq(s)
<1>1. s = [i \in 1..Len(s) |-> s[i]] /\ Len(s) \in Nat /\ DOMAIN s = 1..Len(s)
  OBVIOUS
<1>2. [i \in 1..Len(s) |-> s[i]] \in Seq(Range(s))
  BY <1>1 DEF Range
<1>3. QED
  BY <1>1, <1>2 DEF IsSeq

\* What being a sequence says of its length, domain and elements.
LEMMA SeqFacts ==
    ASSUME NEW s, IsSeq(s)
    PROVE  /\ Len(s) \in Nat /\ DOMAIN s = 1..Len(s)
           /\ s # <<>> <=> Len(s) >= 1
           /\ \A i \in 1..Len(s) : s[i] \in Range(s)
           /\ \A x \in Range(s) : \E i \in 1..Len(s) : x = s[i]
<1>1. s \in Seq(Range(s))
  BY DEF IsSeq
<1>2. Len(s) \in Nat /\ DOMAIN s = 1..Len(s) /\ (s # <<>> <=> Len(s) >= 1)
  BY <1>1
<1>3. QED
  BY <1>2 DEF Range

\* A function on 1..n is a sequence.
LEMMA FunctionIsSeq ==
    ASSUME NEW n \in Nat, NEW s, DOMAIN s = 1..n, s = [i \in 1..n |-> s[i]]
    PROVE  IsSeq(s) /\ Len(s) = n
<1>1. s \in Seq(Range(s))
  BY DEF Range
<1>2. Len(s) = n
  BY <1>1
<1>3. QED
  BY <1>1, <1>2 DEF IsSeq

\* Concatenation.
LEMMA ConcatFacts ==
    ASSUME NEW s, NEW t, IsSeq(s), IsSeq(t)
    PROVE  /\ IsSeq(s \o t) /\ Len(s \o t) = Len(s) + Len(t)
           /\ \A i \in 1..Len(s) : (s \o t)[i] = s[i]
           /\ \A i \in 1..Len(t) : (s \o t)[Len(s) + i] = t[i]
           /\ Range(s \o t) = Range(s) \cup Range(t)
<1> DEFINE S == Range(s) \cup Range(t)
<1>1. s \in Seq(S) /\ t \in Seq(S)
  BY DEF IsSeq
<1> HIDE DEF S
<1>2. s \o t \in Seq(S)
  BY <1>1
<1>3. IsSeq(s \o t)
  BY <1>2, SeqOverRange
<1>4. /\ Len(s \o t) = Len(s) + Len(t)
      /\ \A i \in 1..Len(s) : (s \o t)[i] = s[i]
      /\ \A i \in 1..Len(t) : (s \o t)[Len(s) + i] = t[i]
  BY <1>1
<1>5. Len(s) \in Nat /\ Len(t) \in Nat
  BY <1>1
<1>6. ASSUME NEW x \in Range(s \o t) PROVE x \in Range(s) \cup Range(t)
  <2> DEFINE u == s \o t
  <2>0. IsSeq(u) /\ Len(u) = Len(s) + Len(t) /\ x \in Range(u)
    BY <1>3, <1>4
  <2> HIDE DEF u
  <2>01. PICK i \in 1..Len(u) : x = u[i]
    BY <2>0, SeqFacts
  <2>1. i \in 1..Len(s) + Len(t) /\ x = (s \o t)[i]
    BY <2>01, <2>0 DEF u
  <2>2. CASE i \in 1..Len(s)
    <3>1. x = s[i]
      BY <2>1, <2>2, <1>4
    <3>2. QED
      BY <2>2, <3>1, SeqFacts
  <2>3. CASE i \notin 1..Len(s)
    <3>1. i - Len(s) \in 1..Len(t) /\ i = Len(s) + (i - Len(s))
      BY <2>1, <2>3, <1>5
    <3>2. x = t[i - Len(s)]
      BY <3>1, <2>1, <1>4
    <3>3. QED
      BY <3>1, <3>2, SeqFacts
  <2>4. QED
    BY <2>2, <2>3
<1>7. ASSUME NEW x \in Range(s) \cup Range(t) PROVE x \in Range(s \o t)
  <2>1. CASE x \in Range(s)
    <3>1. PICK i \in 1..Len(s) : x = s[i]
      BY <2>1, SeqFacts
    <3>2. i \in 1..Len(s \o t) /\ x = (s \o t)[i]
      BY <3>1, <1>4, <1>5
    <3>3. QED
      BY <3>2, <1>3, SeqFacts
  <2>2. CASE x \in Range(t)
    <3>1. PICK i \in 1..Len(t) : x = t[i]
      BY <2>2, SeqFacts
    <3>2. Len(s) + i \in 1..Len(s \o t) /\ x = (s \o t)[Len(s) + i]
      BY <3>1, <1>4, <1>5
    <3>3. QED
      BY <3>2, <1>3, SeqFacts
  <2>3. QED
    BY <2>1, <2>2, <1>7
<1>8. QED
  BY <1>3, <1>4, <1>6, <1>7

\* Appending one element.
LEMMA AppendFacts ==
    ASSUME NEW s, NEW x, IsSeq(s)
    PROVE  /\ IsSeq(Append(s, x)) /\ Len(Append(s, x)) = Len(s) + 1
           /\ \A i \in 1..Len(s) : Append(s, x)[i] = s[i]
           /\ Append(s, x)[Len(s) + 1] = x
<1> DEFINE S == Range(s) \cup {x}
<1>1. s \in Seq(S) /\ x \in S
  BY DEF IsSeq
<1> HIDE DEF S
<1>2. Append(s, x) \in Seq(S)
  BY <1>1
<1>3. IsSeq(Append(s, x))
  BY <1>2, SeqOverRange
<1>4. QED
  BY <1>1, <1>3

\* Dropping the last element.
LEMMA FrontFacts ==
    ASSUME NEW s, IsSeq(s), s # <<>>
    PROVE  /\ IsSeq(Front(s)) /\ Len(Front(s)) = Len(s) - 1
           /\ \A i \in 1..Len(s) - 1 : Front(s)[i] = s[i]
<1>1. s \in Seq(Range(s)) /\ Len(s) \in Nat /\ Len(s) >= 1
  BY SeqFacts DEF IsSeq
<1>2. Front(s) \in Seq(Range(s))
  BY <1>1 DEF Front
<1>3. IsSeq(Front(s))
  BY <1>2, SeqOverRange
<1> DEFINE S == Range(s)
<1>a. s \in Seq(S)
  BY <1>1
<1> HIDE DEF S
<1>b. Len(s) - 1 \in 0..Len(s) /\ Len(s) - 1 - 1 + 1 = Len(s) - 1
  BY <1>1
<1>c. Len(Front(s)) = Len(s) - 1
  BY <1>1, <1>a, <1>b DEF Front
<1>d. \A i \in 1..Len(s) - 1 : Front(s)[i] = s[i]
  BY <1>1, <1>a, <1>b DEF Front
<1>4. Len(Front(s)) = Len(s) - 1 /\ \A i \in 1..Len(s) - 1 : Front(s)[i] = s[i]
  BY <1>c, <1>d
<1>5. /\ IsSeq(Front(s)) /\ Len(Front(s)) = Len(s) - 1
      /\ \A i \in 1..Len(s) - 1 : Front(s)[i] = s[i]
  BY <1>3, <1>4
<1>6. QED
  BY <1>5

\* The shortest sequences.
LEMMA ShortSeqs ==
    /\ IsSeq(<<>>) /\ Len(<<>>) = 0 /\ Range(<<>>) = {}
    /\ \A x : IsSeq(<<x>>) /\ Len(<<x>>) = 1 /\ Range(<<x>>) = {x}
    /\ \A x, y : IsSeq(<<x, y>>) /\ Len(<<x, y>>) = 2 /\ Range(<<x, y>>) = {x, y}
<1>1. IsSeq(<<>>) /\ Len(<<>>) = 0 /\ Range(<<>>) = {}
  <2>1. <<>> \in Seq({}) /\ Len(<<>>) = 0 /\ DOMAIN <<>> = {}
    OBVIOUS
  <2>2. IsSeq(<<>>)
    BY <2>1, SeqOverRange
  <2>3. QED
    BY <2>1, <2>2 DEF Range
<1>2. ASSUME NEW x PROVE IsSeq(<<x>>) /\ Len(<<x>>) = 1 /\ Range(<<x>>) = {x}
  <2>1. <<x>> \in Seq({x}) /\ Len(<<x>>) = 1 /\ DOMAIN <<x>> = {1} /\ <<x>>[1] = x
    OBVIOUS
  <2>2. IsSeq(<<x>>)
    BY <2>1, SeqOverRange
  <2>3. QED
    BY <2>1, <2>2 DEF Range
<1>3. ASSUME NEW x, NEW y
      PROVE  IsSeq(<<x, y>>) /\ Len(<<x, y>>) = 2 /\ Range(<<x, y>>) = {x, y}
  <2>1. /\ <<x, y>> \in Seq({x, y}) /\ Len(<<x, y>>) = 2 /\ DOMAIN <<x, y>> = {1, 2}
        /\ <<x, y>>[1] = x /\ <<x, y>>[2] = y
    OBVIOUS
  <2>2. IsSeq(<<x, y>>)
    BY <2>1, SeqOverRange
  <2>3. QED
    BY <2>1, <2>2 DEF Range
<1>4. QED
  BY <1>1, <1>2, <1>3

\* Dropping the first element.
LEMMA TailFacts ==
    ASSUME NEW s, IsSeq(s), s # <<>>
    PROVE  /\ IsSeq(Tail(s)) /\ Len(Tail(s)) = Len(s) - 1
           /\ \A i \in 1..Len(s) - 1 : Tail(s)[i] = s[i + 1]
           /\ Head(s) = s[1] /\ s[1] \in Range(s)
           /\ Range(Tail(s)) \subseteq Range(s)
<1> DEFINE S == Range(s)
<1>1. s \in Seq(S) /\ Len(s) \in Nat /\ Len(s) >= 1 /\ s[1] \in Range(s)
  BY SeqFacts DEF IsSeq
<1> HIDE DEF S
<1>2. Tail(s) \in Seq(S) /\ Len(Tail(s)) = Len(s) - 1 /\ Head(s) = s[1]
  BY <1>1
<1>3. IsSeq(Tail(s))
  BY <1>2, SeqOverRange
<1>4. \A i \in 1..Len(s) - 1 : Tail(s)[i] = s[i + 1]
  BY <1>1
<1>5. ASSUME NEW x \in Range(Tail(s)) PROVE x \in Range(s)
  <2>1. PICK i \in 1..Len(Tail(s)) : x = Tail(s)[i]
    BY <1>3, SeqFacts
  <2>2. i + 1 \in 1..Len(s) /\ x = s[i + 1]
    BY <2>1, <1>1, <1>2, <1>4
  <2>3. QED
    BY <2>2, SeqFacts
<1>6. QED
  BY <1>1, <1>2, <1>3, <1>4, <1>5

\* Concatenating nothing.
LEMMA ConcatEmpty == ASSUME NEW s, IsSeq(s) PROVE s \o <<>> = s /\ <<>> \o s = s
<1> DEFINE S == Range(s)
<1>1. s \in Seq(S)
  BY DEF IsSeq
<1> HIDE DEF S
<1>2. QED
  BY <1>1

\* The last element of what is appended is the last element.
LEMMA LastFacts ==
    ASSUME NEW s, NEW t, IsSeq(s), IsSeq(t), t # <<>>
    PROVE  s \o t # <<>> /\ Last(s \o t) = Last(t)
<1>1. /\ Len(s) \in Nat /\ Len(t) \in Nat /\ Len(t) >= 1
      /\ IsSeq(s \o t) /\ Len(s \o t) = Len(s) + Len(t)
      /\ (s \o t)[Len(s) + Len(t)] = t[Len(t)]
  BY SeqFacts, ConcatFacts
<1>2. s \o t # <<>>
  BY <1>1, SeqFacts
<1>3. QED
  BY <1>1, <1>2 DEF Last

\* The last element is an element.
LEMMA LastInRange ==
    ASSUME NEW s, IsSeq(s), s # <<>>
    PROVE  Len(s) \in DOMAIN s /\ Last(s) = s[Len(s)] /\ Last(s) \in Range(s)
<1>1. Len(s) \in 1..Len(s) /\ DOMAIN s = 1..Len(s)
  BY SeqFacts
<1>2. QED
  BY <1>1, SeqFacts DEF Last

\* Appending is concatenating a sequence of one element.
LEMMA AppendConcat == ASSUME NEW s, NEW x, IsSeq(s) PROVE Append(s, x) = s \o <<x>>
<1> DEFINE S == Range(s) \cup {x}
<1>1. s \in Seq(S) /\ x \in S
  BY DEF IsSeq
<1> HIDE DEF S
<1>2. QED
  BY <1>1

\* A sequence of one element is its head.
LEMMA SingletonSeq == ASSUME NEW s, IsSeq(s), Len(s) = 1 PROVE s = <<Head(s)>>
<1> DEFINE S == Range(s)
<1>1. s \in Seq(S)
  BY DEF IsSeq
<1> HIDE DEF S
<1>2. QED
  BY <1>1

\* Natural numbers have a least one.
LEMMA LeastNat ==
    ASSUME NEW S, S \subseteq Nat, S # {}
    PROVE  \E m \in S : \A k \in S : m <= k
<1> DEFINE R == StrictSubsetOrdering(Nat)
           F == FiniteSubsetsOf(Nat)
           T == {0..n : n \in S}
<1>1. IsWellFoundedOn(R, F)
  BY FS_StrictSubsetOrderingWellFounded
<1>2. ASSUME NEW n \in S PROVE 0..n \in F /\ 0..n \in SUBSET Nat
  <2>1. n \in Int /\ 0 \in Int /\ 0..n \subseteq Nat
    OBVIOUS
  <2>2. IsFiniteSet(0..n)
    BY <2>1, FS_Interval
  <2>3. QED
    BY <2>1, <2>2 DEF FiniteSubsetsOf
<1>3. T \subseteq F /\ T # {}
  BY <1>2
<1> HIDE DEF R, F, T
<1>4. PICK x \in T : \A y \in T : ~ (<<y, x>> \in R)
  BY <1>1, <1>3, WFMin
<1>5. PICK m \in S : x = 0..m
  BY <1>4 DEF T
<1>6. ASSUME NEW k \in S, ~(m <= k) PROVE FALSE
  <2>1. 0..k \subseteq 0..m /\ 0..k # 0..m
    <3>1. m \in Nat /\ k \in Nat /\ k < m
      BY <1>6
    <3>2. m \in 0..m /\ m \notin 0..k
      BY <3>1
    <3>3. QED
      BY <3>1, <3>2
  <2>2. <<0..k, 0..m>> \in R
    BY <2>1, <1>2 DEF R, StrictSubsetOrdering
  <2>3. QED
    BY <2>2, <1>4, <1>5 DEF T
<1>7. QED
  BY <1>6

\* The first entries of a sequence.
LEMMA TakeFacts ==
    ASSUME NEW s, IsSeq(s), NEW m \in 0..Len(s)
    PROVE  /\ IsSeq(SubSeq(s, 1, m)) /\ Len(SubSeq(s, 1, m)) = m
           /\ \A i \in 1..m : SubSeq(s, 1, m)[i] = s[i]
<1> DEFINE S == Range(s)
           p == SubSeq(s, 1, m)
<1>1. s \in Seq(S) /\ Len(s) \in Nat /\ m \in Nat
  BY SeqFacts DEF IsSeq
<1>2. DOMAIN p = 1..m /\ p = [i \in 1..m |-> p[i]] /\ \A i \in 1..m : p[i] = s[i]
  <2> HIDE DEF S
  <2>1. p = [i \in 1..m |-> s[i]]
    BY <1>1
  <2> HIDE DEF p
  <2>2. QED
    BY <2>1
<1> HIDE DEF S, p
<1>3. IsSeq(p) /\ Len(p) = m
  BY <1>1, <1>2, FunctionIsSeq
<1>4. QED
  BY <1>2, <1>3 DEF p

\* The last entries of a sequence.
LEMMA DropFacts ==
    ASSUME NEW s, IsSeq(s), NEW m \in 0..Len(s)
    PROVE  /\ IsSeq(SubSeq(s, m + 1, Len(s))) /\ Len(SubSeq(s, m + 1, Len(s))) = Len(s) - m
           /\ \A i \in 1..Len(s) - m : SubSeq(s, m + 1, Len(s))[i] = s[m + i]
<1> DEFINE S == Range(s)
           n == Len(s) - m
           p == SubSeq(s, m + 1, Len(s))
<1>1. s \in Seq(S) /\ Len(s) \in Nat /\ m \in Nat /\ n \in Nat
  BY SeqFacts DEF IsSeq
<1>2. DOMAIN p = 1..n /\ p = [i \in 1..n |-> p[i]] /\ \A i \in 1..n : p[i] = s[m + i]
  <2> HIDE DEF S
  <2>1. Len(s) - (m + 1) + 1 = n
    BY <1>1
  <2>2. p = [i \in 1..n |-> s[m + 1 + i - 1]]
    BY <1>1, <2>1
  <2>3. \A i \in 1..n : m + 1 + i - 1 = m + i
    BY <1>1
  <2> HIDE DEF p, n
  <2>4. QED
    BY <2>2, <2>3
<1> HIDE DEF S, p, n
<1>3. IsSeq(p) /\ Len(p) = n
  BY <1>1, <1>2, FunctionIsSeq
<1>4. QED
  BY <1>2, <1>3 DEF p, n
=============================================================================
