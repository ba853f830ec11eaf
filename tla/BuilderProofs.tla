--------------------------- MODULE BuilderProofs ---------------------------
(***************************************************************************)
(* Proofs, for every set of programs, that BuilderInv is inductive; that   *)
(* CminusBuilder implements BlockStream and only ever appends; and that    *)
(* every block it creates has one place, and every branch leads to a block *)
(* of its own function: PlacementInv is inductive together with BuilderInv.*)
(***************************************************************************)
EXTENDS BuilderRefinement, EmittedCode

-----------------------------------------------------------------------------
(* The instructions the visit methods append.                              *)

\* What calling currentExpression() builds is a list of instructions.
LEMMA ForcedFacts == IsSeq(Forced.ins)
  BY ShortSeqs DEF Forced

\* A block that a terminator is appended to ends in it.
LEMMA TerminatorAppended ==
    ASSUME NEW s, NEW ins, IsSeq(s), IsSeq(ins), EndsInTerminator(ins)
    PROVE  EndsInTerminator(s \o ins)
  BY LastFacts DEF EndsInTerminator

\* A list that a br or ret is appended to ends in a terminator.
LEMMA AppendedTerminator ==
    ASSUME NEW s, IsSeq(s), NEW ins, ins.op \in {"br", "ret"}
    PROVE  IsSeq(Append(s, ins)) /\ EndsInTerminator(Append(s, ins))
<1>1. /\ IsSeq(Append(s, ins)) /\ Len(Append(s, ins)) = Len(s) + 1 /\ Len(s) \in Nat
      /\ Append(s, ins)[Len(s) + 1] = ins
  BY AppendFacts, SeqFacts
<1>2. Append(s, ins) # <<>>
  BY <1>1, SeqFacts
<1>3. QED
  BY <1>1, <1>2 DEF EndsInTerminator, Last

\* The constructors of terminators make terminators.
LEMMA BranchingOps ==
    /\ \A b : Br(b).op = "br"
    /\ \A c, t, f : CondBr(c, t, f).op = "br"
    /\ \A v : Ret(v).op = "ret"
    /\ RetVoid.op = "ret"
  BY DEF Br, CondBr, Ret, RetVoid, Branching

\* A condition is left with a branch.
LEMMA BranchOnFacts ==
    ASSUME NEW t, NEW f
    PROVE  IsSeq(BranchOn(t, f)) /\ EndsInTerminator(BranchOn(t, f))
<1>1. IsSeq(Forced.ins) /\ IsSeq(Compared)
  BY ForcedFacts, AppendFacts DEF Compared
<1>2. QED
  BY <1>1, AppendedTerminator, BranchingOps DEF BranchOn

\* The block the builder points at ends in a terminator once the branch of
\* JoinAt is appended.
LEMMA JoinAtFacts ==
    ASSUME NEW b, IsSeq(blocks[Back])
    PROVE  IsSeq(JoinAt(b)) /\ EndsInTerminator(blocks[Back] \o JoinAt(b))
<1>1. CASE EndsInTerminator(blocks[Back])
  BY <1>1, ShortSeqs, ConcatEmpty DEF JoinAt
<1>2. CASE ~EndsInTerminator(blocks[Back])
  <2>1. IsSeq(<<Br(b)>>) /\ EndsInTerminator(<<Br(b)>>)
    BY ShortSeqs, BranchingOps DEF EndsInTerminator, Last
  <2>2. QED
    BY <1>2, <2>1, TerminatorAppended DEF JoinAt
<1>3. QED
  BY <1>1, <1>2

-----------------------------------------------------------------------------
(* What the IRBuilder does to the blocks.                                  *)

\* A step inside a function that inserts the blocks of `placed', each new to
\* the functions, appends instructions to the block the builder points at or
\* to blocks it creates, and leaves the builder at the last block.
CodeGrows(placed) ==
    /\ IsSeq(layout') /\ Len(layout') = Len(layout)
    /\ IsSeq(blocks') /\ Len(blocks') >= Len(blocks)
    /\ \A b \in DOMAIN blocks' : IsSeq(blocks'[b])
    /\ \A f \in DOMAIN layout' :
          /\ IsSeq(layout'[f])
          /\ Range(layout'[f]) \subseteq 1..Len(blocks')
          /\ Range(layout'[f]) \subseteq Range(layout[f]) \cup placed
    /\ ip' \in 1..Len(blocks')
    /\ layout'[Len(layout)] # <<>> /\ ip' = Last(layout'[Len(layout)])
    /\ \A f, g \in DOMAIN layout' : \A i \in DOMAIN layout'[f], j \in DOMAIN layout'[g] :
          layout'[f][i] = layout'[g][j] => f = g /\ i = j
    /\ \A f \in DOMAIN layout' : \A j \in DOMAIN layout'[f] :
          \/ f = Len(layout) /\ j = Len(layout'[f])
          \/ EndsInTerminator(blocks'[layout'[f][j]])

\* What the invariant says inside a function.
LEMMA CodeFacts ==
    ASSUME BuilderInv, InFunction
    PROVE  /\ IsSeq(layout) /\ IsSeq(blocks) /\ Len(layout) \in Nat /\ Len(blocks) \in Nat
           /\ DOMAIN layout = 1..Len(layout) /\ DOMAIN blocks = 1..Len(blocks)
           /\ Len(layout) \in DOMAIN layout /\ currentFunction = Len(layout)
           /\ layout[Len(layout)] # <<>> /\ ip = Last(layout[Len(layout)]) /\ ip = Back
           /\ Len(layout[Len(layout)]) \in DOMAIN layout[Len(layout)]
           /\ ip \in DOMAIN blocks
           /\ \A b \in DOMAIN blocks : IsSeq(blocks[b])
<1>1. /\ IsSeq(layout) /\ IsSeq(blocks) /\ layout # <<>> /\ currentFunction = Len(layout)
      /\ \A b \in DOMAIN blocks : IsSeq(blocks[b])
  BY DEF BuilderInv, Shape, Position
<1>2. /\ Len(layout) \in Nat /\ Len(blocks) \in Nat /\ Len(layout) >= 1
      /\ DOMAIN layout = 1..Len(layout) /\ DOMAIN blocks = 1..Len(blocks)
  BY <1>1, SeqFacts
<1>3. layout[Len(layout)] # <<>> /\ ip = Last(layout[Len(layout)]) /\ ip = Back
  BY <1>1, <1>2 DEF BuilderInv, Position, InsertPointAtBack, Back
<1>4. Len(layout) \in DOMAIN layout /\ IsSeq(layout[Len(layout)])
      /\ Inserted(Len(layout)) \subseteq DOMAIN blocks
  BY <1>2 DEF BuilderInv, Shape
<1>5. Len(layout[Len(layout)]) \in DOMAIN layout[Len(layout)]
  BY <1>3, <1>4, LastInRange
<1>6. ip \in Range(layout[Len(layout)])
  BY <1>3, <1>4, LastInRange
<1>7. ip \in DOMAIN blocks
  BY <1>4, <1>6 DEF Inserted
<1>8. QED
  BY <1>1, <1>2, <1>3, <1>4, <1>5, <1>7

\* A step that builds nothing is one of the steps that grow the code.
LEMMA UnchangedCode ==
    ASSUME BuilderInv, InFunction, UNCHANGED code
    PROVE  CodeGrows({})
<1>1. layout' = layout /\ blocks' = blocks /\ ip' = ip
  BY DEF code
<1>2. /\ \A f \in DOMAIN layout : IsSeq(layout[f]) /\ Range(layout[f]) \subseteq 1..Len(blocks)
      /\ WellFormedBlocks /\ Once
  BY CodeFacts DEF BuilderInv, Shape, Inserted
<1>3. \A f \in DOMAIN layout' : \A j \in DOMAIN layout'[f] :
          \/ f = Len(layout) /\ j = Len(layout'[f])
          \/ EndsInTerminator(blocks'[layout'[f][j]])
  BY <1>1, <1>2, CodeFacts DEF WellFormedBlocks
<1>4. \A f, g \in DOMAIN layout' : \A i \in DOMAIN layout'[f], j \in DOMAIN layout'[g] :
          layout'[f][i] = layout'[g][j] => f = g /\ i = j
  BY <1>1, <1>2 DEF Once
<1>5. QED
  BY <1>1, <1>2, <1>3, <1>4, CodeFacts DEF CodeGrows

\* The blocks after Build: each block that existed keeps its instructions
\* and gets the added ones.
LEMMA BuiltBlocks ==
    ASSUME IsSeq(blocks), \A b \in DOMAIN blocks : IsSeq(blocks[b]),
           NEW f, NEW k \in Nat, NEW added, NEW placed, Build(f, k, added, placed),
           \A b \in DOMAIN added : IsSeq(added[b])
    PROVE  /\ IsSeq(blocks') /\ Len(blocks') = Len(blocks) + k
           /\ DOMAIN blocks' = 1..Len(blocks')
           /\ \A b \in 1..Len(blocks') : IsSeq(blocks'[b])
           /\ \A b \in DOMAIN blocks \ DOMAIN added : blocks'[b] = blocks[b]
           /\ \A b \in DOMAIN blocks \cap DOMAIN added : blocks'[b] = blocks[b] \o added[b]
           /\ \A b \in 1..Len(blocks') :
                 b > Len(blocks) /\ b \in DOMAIN added => blocks'[b] = added[b]
<1> DEFINE old(b) == IF b <= Len(blocks) THEN blocks[b] ELSE <<>>
           new(b) == IF b \in DOMAIN added THEN added[b] ELSE <<>>
<1>1. Len(blocks) \in Nat /\ DOMAIN blocks = 1..Len(blocks) /\ Len(blocks) + k \in Nat
  BY SeqFacts
<1>2. blocks' = [b \in 1..Len(blocks) + k |-> old(b) \o new(b)]
  BY DEF Build, Fresh
<1>3. \A b \in 1..Len(blocks) + k : IsSeq(old(b)) /\ IsSeq(new(b))
  BY <1>1, ShortSeqs
<1>4. DOMAIN blocks' = 1..Len(blocks) + k
      /\ \A b \in 1..Len(blocks) + k : blocks'[b] = old(b) \o new(b)
  BY <1>2
<1> HIDE DEF old, new
<1>5. IsSeq(blocks') /\ Len(blocks') = Len(blocks) + k
  BY <1>1, <1>4, <1>2, FunctionIsSeq
<1>6. ASSUME NEW b \in 1..Len(blocks') PROVE IsSeq(blocks'[b])
  <2>1. IsSeq(old(b)) /\ IsSeq(new(b)) /\ blocks'[b] = old(b) \o new(b)
    BY <1>3, <1>4, <1>5
  <2>2. IsSeq(old(b) \o new(b))
    BY <2>1, ConcatFacts
  <2>3. QED
    BY <2>1, <2>2
<1>7. ASSUME NEW b \in DOMAIN blocks \ DOMAIN added PROVE blocks'[b] = blocks[b]
  <2>1. b \in 1..Len(blocks) + k /\ old(b) = blocks[b] /\ new(b) = <<>>
    BY <1>1 DEF old, new
  <2>2. QED
    BY <2>1, <1>4, ConcatEmpty
<1>8. ASSUME NEW b \in DOMAIN blocks \cap DOMAIN added PROVE blocks'[b] = blocks[b] \o added[b]
  <2>1. b \in 1..Len(blocks) + k /\ old(b) = blocks[b] /\ new(b) = added[b]
    BY <1>1 DEF old, new
  <2>2. QED
    BY <2>1, <1>4
<1>9. ASSUME NEW b \in 1..Len(blocks'), b > Len(blocks), b \in DOMAIN added
      PROVE  blocks'[b] = added[b]
  <2>1. b \in 1..Len(blocks) + k /\ old(b) = <<>> /\ new(b) = added[b]
    BY <1>1, <1>5, <1>9 DEF old, new
  <2>2. QED
    BY <2>1, <1>4, <1>9, ConcatEmpty
<1>10. QED
  BY <1>4, <1>5, <1>6, <1>7, <1>8, <1>9

\* Among them, the block the builder points at gets the instructions that
\* are appended there.
LEMMA BuiltAtPoint ==
    ASSUME IsSeq(blocks), \A b \in DOMAIN blocks : IsSeq(blocks[b]), ip \in DOMAIN blocks,
           NEW f, NEW k \in Nat, NEW ins, IsSeq(ins), NEW placed,
           Build(f, k, Appending(ins), placed)
    PROVE  Len(blocks') = Len(blocks) + k /\ blocks'[ip] = blocks[ip] \o ins
<1> DEFINE added == Appending(ins)
<1>1. DOMAIN added = {ip} /\ added[ip] = ins
  BY DEF Appending
<1>2. Build(f, k, added, placed)
  OBVIOUS
<1> HIDE DEF added
<1>3. \A b \in DOMAIN added : IsSeq(added[b])
  BY <1>1
<1>4. /\ Len(blocks') = Len(blocks) + k
      /\ \A b \in DOMAIN blocks \cap DOMAIN added : blocks'[b] = blocks[b] \o added[b]
  BY <1>2, <1>3, BuiltBlocks, ZenonT(60)
<1>5. ip \in DOMAIN blocks \cap DOMAIN added
  BY <1>1
<1>6. QED
  BY <1>1, <1>4, <1>5

\* Build keeps the blocks in order: `placed' goes behind the blocks of the
\* current function, and all the blocks before the last are terminated.
LEMMA BuildKeeps ==
    ASSUME BuilderInv, InFunction, NEW k \in Nat, NEW added, NEW placed,
           Build(currentFunction, k, added, placed),
           DOMAIN added \subseteq {ip} \cup (Len(blocks) + 1 .. Len(blocks) + k),
           \A b \in DOMAIN added : IsSeq(added[b]),
           IsSeq(placed), Range(placed) \subseteq 1..Len(blocks) + k,
           \A i, j \in DOMAIN placed : placed[i] = placed[j] => i = j,
           \A f \in DOMAIN layout : Range(placed) \cap Range(layout[f]) = {},
           placed # <<>> => EndsInTerminator(blocks'[ip]),
           \A i \in 1..Len(placed) - 1 : EndsInTerminator(blocks'[placed[i]])
    PROVE  CodeGrows(Range(placed))
<1> DEFINE F == Len(layout)
           L == Len(layout[F])
<1>1. /\ IsSeq(layout) /\ F \in Nat /\ DOMAIN layout = 1..F /\ F \in DOMAIN layout
      /\ currentFunction = F /\ IsSeq(blocks) /\ Len(blocks) \in Nat
      /\ DOMAIN blocks = 1..Len(blocks) /\ layout[F] # <<>> /\ ip = layout[F][L]
      /\ L \in DOMAIN layout[F] /\ ip \in DOMAIN blocks
      /\ \A b \in DOMAIN blocks : IsSeq(blocks[b])
  BY CodeFacts DEF Last
<1>2. /\ \A f \in DOMAIN layout : IsSeq(layout[f]) /\ Range(layout[f]) \subseteq 1..Len(blocks)
      /\ \A f \in DOMAIN layout : DOMAIN layout[f] = 1..Len(layout[f])
      /\ \A f \in DOMAIN layout : \A j \in DOMAIN layout[f] : layout[f][j] \in 1..Len(blocks)
  <2>1. \A f \in DOMAIN layout : IsSeq(layout[f]) /\ Range(layout[f]) \subseteq 1..Len(blocks)
    BY <1>1 DEF BuilderInv, Shape, Inserted
  <2>2. \A f \in DOMAIN layout : DOMAIN layout[f] = 1..Len(layout[f])
    BY <2>1, SeqFacts
  <2>3. ASSUME NEW f \in DOMAIN layout, NEW j \in DOMAIN layout[f]
        PROVE  layout[f][j] \in 1..Len(blocks)
    <3>1. IsSeq(layout[f]) /\ j \in 1..Len(layout[f])
      BY <2>1, <2>2
    <3>2. layout[f][j] \in Range(layout[f])
      BY <3>1, SeqFacts
    <3>3. QED
      BY <3>2, <2>1
  <2>4. QED
    BY <2>1, <2>2, <2>3
<1>3. /\ IsSeq(blocks') /\ Len(blocks') = Len(blocks) + k
      /\ \A b \in 1..Len(blocks') : IsSeq(blocks'[b]) /\ DOMAIN blocks' = 1..Len(blocks')
      /\ \A b \in 1..Len(blocks) : b # ip => blocks'[b] = blocks[b]
  <2>1. \A b \in 1..Len(blocks) : b # ip => b \notin DOMAIN added
    BY <1>1
  <2>2. QED
    BY <1>1, <2>1, BuiltBlocks
<1>4. /\ DOMAIN layout' = 1..F
      /\ layout'[F] = layout[F] \o placed
      /\ \A f \in 1..F : f # F => layout'[f] = layout[f]
      /\ IsSeq(layout') /\ Len(layout') = F
  <2>1. layout' = [layout EXCEPT ![F] = @ \o placed]
    BY <1>1 DEF Build
  <2>2. layout' = [f \in 1..F |-> IF f = F THEN layout[F] \o placed ELSE layout[f]]
    BY <2>1, <1>1
  <2> HIDE DEF F
  <2>3. DOMAIN layout' = 1..F /\ layout' = [f \in 1..F |-> layout'[f]]
    BY <2>2
  <2>4. IsSeq(layout') /\ Len(layout') = F
    BY <2>3, <1>1, FunctionIsSeq
  <2>5. layout'[F] = layout[F] \o placed /\ \A f \in 1..F : f # F => layout'[f] = layout[f]
    BY <2>2, <1>1
  <2>6. QED
    BY <2>3, <2>4, <2>5
<1> HIDE DEF F, L
<1>5. /\ IsSeq(layout'[F]) /\ Len(layout'[F]) = L + Len(placed)
      /\ L \in Nat /\ L >= 1 /\ Len(placed) \in Nat
      /\ \A i \in 1..L : layout'[F][i] = layout[F][i]
      /\ \A i \in 1..Len(placed) : layout'[F][L + i] = placed[i]
      /\ Range(layout'[F]) = Range(layout[F]) \cup Range(placed)
      /\ DOMAIN layout[F] = 1..L /\ DOMAIN layout'[F] = 1..L + Len(placed)
      /\ DOMAIN placed = 1..Len(placed)
  <2>1. IsSeq(layout[F]) /\ DOMAIN layout[F] = 1..L
    BY <1>1, <1>2 DEF L
  <2>2. L \in Nat /\ L >= 1 /\ Len(placed) \in Nat /\ DOMAIN placed = 1..Len(placed)
    BY <2>1, <1>1, SeqFacts DEF L
  <2>3. /\ IsSeq(layout'[F]) /\ Len(layout'[F]) = L + Len(placed)
        /\ \A i \in 1..L : layout'[F][i] = layout[F][i]
        /\ \A i \in 1..Len(placed) : layout'[F][L + i] = placed[i]
        /\ Range(layout'[F]) = Range(layout[F]) \cup Range(placed)
    BY <2>1, <1>4, ConcatFacts DEF L
  <2>4. DOMAIN layout'[F] = 1..L + Len(placed)
    BY <2>3, SeqFacts
  <2>5. QED
    BY <2>1, <2>2, <2>3, <2>4
\* A position of the new list is an old one or one of `placed'.
<1>6. ASSUME NEW i \in DOMAIN layout'[F]
      PROVE  \/ i \in 1..L /\ layout'[F][i] = layout[F][i]
             \/ i - L \in 1..Len(placed) /\ layout'[F][i] = placed[i - L]
  <2>1. CASE i \in 1..L
    BY <2>1, <1>5
  <2>2. CASE i \notin 1..L
    <3>1. i - L \in 1..Len(placed) /\ L + (i - L) = i
      BY <2>2, <1>5
    <3>2. QED
      BY <3>1, <1>5
  <2>3. QED
    BY <2>1, <2>2
<1>7. ASSUME NEW f \in DOMAIN layout'
      PROVE  /\ IsSeq(layout'[f])
             /\ Range(layout'[f]) \subseteq 1..Len(blocks')
             /\ Range(layout'[f]) \subseteq Range(layout[f]) \cup Range(placed)
  <2>1. Range(layout[f]) \subseteq 1..Len(blocks') /\ Range(placed) \subseteq 1..Len(blocks')
    BY <1>1, <1>2, <1>3, <1>4
  <2>2. CASE f = F
    BY <2>1, <2>2, <1>5
  <2>3. CASE f # F
    BY <2>1, <2>3, <1>4, <1>2, <1>1
  <2>4. QED
    BY <2>2, <2>3
<1>8. /\ ip' \in 1..Len(blocks')
      /\ layout'[F] # <<>> /\ ip' = Last(layout'[F])
  <2>1. CASE placed = <<>>
    <3>1. ip' = ip /\ layout'[F] = layout[F]
      BY <2>1, <1>1, <1>2, <1>4, ConcatEmpty DEF Build
    <3>2. QED
      BY <3>1, <1>1, <1>3 DEF Last, L
  <2>2. CASE placed # <<>>
    <3>1. ip' = Last(placed)
      BY <2>2 DEF Build
    <3>2. ip' \in Range(placed)
      BY <3>1, <2>2, LastInRange
    <3>3. layout'[F] # <<>> /\ Last(layout'[F]) = Last(placed)
      BY <2>2, <1>1, <1>2, <1>4, LastFacts
    <3>4. QED
      BY <3>1, <3>2, <3>3, <1>3
  <2>3. QED
    BY <2>1, <2>2
<1>9. ASSUME NEW f \in DOMAIN layout', NEW g \in DOMAIN layout',
             NEW i \in DOMAIN layout'[f], NEW j \in DOMAIN layout'[g],
             layout'[f][i] = layout'[g][j]
      PROVE  f = g /\ i = j
  <2> DEFINE Old(h, n) ==
               h \in DOMAIN layout /\ n \in DOMAIN layout[h] /\ layout'[h][n] = layout[h][n]
             Put(h, n) == /\ h = F /\ n - L \in DOMAIN placed /\ n = (n - L) + L
                          /\ layout'[h][n] = placed[n - L]
  <2>1. ASSUME NEW h \in DOMAIN layout', NEW n \in DOMAIN layout'[h]
        PROVE  Old(h, n) \/ Put(h, n)
    <3>1. CASE h = F
      BY <3>1, <2>1, <1>6, <1>5, <1>1
    <3>2. CASE h # F
      BY <3>2, <2>1, <1>4, <1>1
    <3>3. QED
      BY <3>1, <3>2
  <2>2. ASSUME NEW h \in DOMAIN layout, NEW m \in DOMAIN layout[h], NEW n \in DOMAIN placed
        PROVE  layout[h][m] # placed[n]
    <3>1. layout[h][m] \in Range(layout[h]) /\ placed[n] \in Range(placed)
      BY <2>2 DEF Range
    <3>2. QED
      BY <3>1
  <2>3. Once
    BY DEF BuilderInv
  <2>4. CASE Old(f, i) /\ Old(g, j)
    <3>1. /\ f \in DOMAIN layout /\ i \in DOMAIN layout[f] /\ g \in DOMAIN layout
          /\ j \in DOMAIN layout[g] /\ layout[f][i] = layout[g][j]
      BY <2>4, <1>9
    <3>2. QED
      BY <3>1, <2>3, Zenon DEF Once
  <2>5. CASE Put(f, i) /\ Put(g, j)
    <3>1. i - L = j - L
      BY <2>5, <1>9
    <3>2. QED
      BY <3>1, <2>5
  <2>6. CASE Old(f, i) /\ Put(g, j)
    BY <2>6, <2>2, <1>9
  <2>7. CASE Put(f, i) /\ Old(g, j)
    BY <2>7, <2>2, <1>9
  <2>8. Old(f, i) \/ Put(f, i)
    BY <2>1
  <2>9. Old(g, j) \/ Put(g, j)
    BY <2>1
  <2> HIDE DEF Old, Put
  <2>10. QED
    BY <2>4, <2>5, <2>6, <2>7, <2>8, <2>9
<1>10. ASSUME NEW f \in DOMAIN layout', NEW j \in DOMAIN layout'[f],
              ~(f = F /\ j = Len(layout'[f]))
       PROVE  EndsInTerminator(blocks'[layout'[f][j]])
  <2>1. ASSUME f \in DOMAIN layout, j \in DOMAIN layout[f], layout'[f][j] = layout[f][j],
               ~(f = F /\ j = L)
        PROVE  EndsInTerminator(blocks'[layout'[f][j]])
    <3>1. EndsInTerminator(blocks[layout[f][j]])
      BY <2>1, <1>1 DEF BuilderInv, WellFormedBlocks, L
    <3>2. layout[f][j] # ip
      BY <2>1, <1>1 DEF BuilderInv, Once
    <3>3. layout[f][j] \in 1..Len(blocks)
      BY <2>1, <1>2
    <3>4. QED
      BY <3>1, <3>2, <3>3, <2>1, <1>3
  <2>2. CASE f # F
    BY <2>1, <2>2, <1>4, <1>1
  <2>3. CASE f = F /\ j \in 1..L /\ j # L
    BY <2>1, <2>3, <1>5, <1>1
  <2>4. CASE f = F /\ j = L
    <3>1. Len(placed) # 0 /\ placed # <<>>
      BY <2>4, <1>10, <1>5, ShortSeqs
    <3>2. layout'[f][j] = ip
      BY <2>4, <1>5, <1>1
    <3>3. QED
      BY <3>1, <3>2
  <2>5. CASE f = F /\ j \notin 1..L
    <3>1. j - L \in 1..Len(placed) /\ layout'[f][j] = placed[j - L] /\ j # L + Len(placed)
      BY <2>5, <1>10, <1>6, <1>5
    <3>2. j \in Int
      BY <2>5, <1>5
    <3>3. j - L \in 1..Len(placed) - 1
      BY <3>1, <3>2, <1>5
    <3>4. QED
      BY <3>1, <3>3
  <2>6. QED
    BY <2>2, <2>3, <2>4, <2>5
<1>11. Len(blocks') >= Len(blocks) /\ DOMAIN blocks' = 1..Len(blocks')
       /\ \A b \in 1..Len(blocks') : IsSeq(blocks'[b])
  <2>1. DOMAIN blocks' = 1..Len(blocks')
    BY <1>3, SeqFacts
  <2>2. QED
    BY <1>1, <1>3, <2>1
<1>12. \A f \in DOMAIN layout' : \A j \in DOMAIN layout'[f] :
          \/ f = F /\ j = Len(layout'[f])
          \/ EndsInTerminator(blocks'[layout'[f][j]])
  BY <1>10
<1>13. \A f, g \in DOMAIN layout' : \A i \in DOMAIN layout'[f], j \in DOMAIN layout'[g] :
          layout'[f][i] = layout'[g][j] => f = g /\ i = j
  BY <1>9
<1>14. QED
  BY <1>3, <1>4, <1>7, <1>8, <1>11, <1>12, <1>13 DEF CodeGrows, F

\* Appending instructions inserts no block.
LEMMA EmitKeeps ==
    ASSUME BuilderInv, InFunction, NEW ins, IsSeq(ins), Emit(ins)
    PROVE  CodeGrows({})
<1>1. Build(currentFunction, 0, Appending(ins), <<>>)
  BY DEF Emit
<1>2. DOMAIN Appending(ins) = {ip} /\ Appending(ins)[ip] = ins
  BY DEF Appending
<1>3. Len(blocks) \in Nat
  BY CodeFacts
<1> HIDE DEF Appending
<1>4. /\ IsSeq(<<>>) /\ Range(<<>>) = {} /\ Len(<<>>) = 0 /\ DOMAIN <<>> = {}
  BY ShortSeqs
<1>5. \A b \in DOMAIN Appending(ins) : IsSeq(Appending(ins)[b])
  BY <1>2
<1>6. CodeGrows(Range(<<>>))
  BY <1>1, <1>2, <1>3, <1>4, <1>5, BuildKeeps
<1>7. QED
  BY <1>4, <1>6

\* A block that a frame still holds is inserted behind a terminated one.
LEMMA InsertKeeps ==
    ASSUME BuilderInv, InFunction, NEW ins, IsSeq(ins), EndsInTerminator(blocks[ip] \o ins),
           NEW d \in DOMAIN work, NEW b \in Range(work[d].todo), EmitAndInsert(ins, <<b>>)
    PROVE  CodeGrows({b}) /\ Len(blocks') = Len(blocks)
<1>1. Build(currentFunction, 0, Appending(ins), <<b>>)
  BY DEF EmitAndInsert
<1>2. DOMAIN Appending(ins) = {ip} /\ Appending(ins)[ip] = ins
  BY DEF Appending
<1>3. /\ Len(blocks) \in Nat /\ IsSeq(blocks) /\ ip \in DOMAIN blocks
      /\ \A c \in DOMAIN blocks : IsSeq(blocks[c])
  BY CodeFacts
<1> HIDE DEF Appending
<1>4. \A c \in DOMAIN Appending(ins) : IsSeq(Appending(ins)[c])
  BY <1>2
<1>5. Len(blocks') = Len(blocks) /\ blocks'[ip] = blocks[ip] \o ins
  <2>1. 0 \in Nat
    OBVIOUS
  <2>2. Len(blocks') = Len(blocks) + 0 /\ blocks'[ip] = blocks[ip] \o ins
    BY <2>1, <1>1, <1>3, BuiltAtPoint, ZenonT(60)
  <2>3. QED
    BY <2>2, <1>3
<1>6. b \in 1..Len(blocks) /\ \A f \in DOMAIN layout : b \notin Range(layout[f])
  BY DEF BuilderInv, Held, Holds
<1>7. /\ IsSeq(<<b>>) /\ Range(<<b>>) = {b} /\ Len(<<b>>) = 1 /\ DOMAIN <<b>> = {1}
  BY ShortSeqs
<1> DEFINE placed == <<b>>
<1>a. placed = <<b>> /\ placed[1] = b
  OBVIOUS
<1> HIDE DEF placed
<1>b. /\ Build(currentFunction, 0, Appending(ins), placed)
      /\ IsSeq(placed) /\ Range(placed) = {b} /\ Len(placed) = 1 /\ DOMAIN placed = {1}
  BY <1>1, <1>7, <1>a
<1>c. /\ DOMAIN Appending(ins) \subseteq {ip} \cup (Len(blocks) + 1 .. Len(blocks) + 0)
      /\ Range(placed) \subseteq 1..Len(blocks) + 0
      /\ \A i, j \in DOMAIN placed : placed[i] = placed[j] => i = j
      /\ \A f \in DOMAIN layout : Range(placed) \cap Range(layout[f]) = {}
      /\ EndsInTerminator(blocks'[ip])
      /\ \A i \in 1..Len(placed) - 1 : EndsInTerminator(blocks'[placed[i]])
  BY <1>2, <1>3, <1>5, <1>6, <1>b
<1>8. CodeGrows(Range(<<b>>))
  BY <1>4, <1>b, <1>c, <1>a, BuildKeeps
<1>9. QED
  BY <1>5, <1>7, <1>8

-----------------------------------------------------------------------------
(* What a step inside a function does to the frames.                       *)

\* The blocks created by the step.
Created == Len(blocks) + 1 .. Len(blocks')

\* The fields of a frame.
LEMMA FrameFields ==
    DOMAIN Frame(Nullptr) = {"at", "node", "i", "vals", "todo", "bb_condition",
                             "will_enter_scope"}
  BY DEF Frame

\* A method has just been entered.
LEMMA FreshFrame ==
    ASSUME NEW child, NEW lay, NEW n \in Nat
    PROVE  /\ Frame(child).node = child /\ Frame(child).at = "visit"
           /\ Frame(child).will_enter_scope = FALSE /\ Frame(child).todo = <<>>
           /\ Holds(Frame(child), lay, n)
<1>1. Frame(child) = [at |-> "visit", node |-> child, i |-> 0, vals |-> <<>>, todo |-> <<>>,
                      bb_condition |-> 0, will_enter_scope |-> FALSE]
  BY DEF Frame
<1> DEFINE f == Frame(child)
<1>2. DOMAIN f = DOMAIN Frame(Nullptr)
  BY FrameFields, <1>1
<1>3. /\ f.node = child /\ f.at = "visit" /\ f.will_enter_scope = FALSE
      /\ f.todo = <<>> /\ f.i = 0 /\ f.bb_condition = 0
  BY <1>1
<1> HIDE DEF f
<1>4. Holds(f, lay, n)
  BY <1>2, <1>3, ShortSeqs DEF Holds
<1>5. QED
  BY <1>3, <1>4 DEF f

\* The frames above the function are those of statements and expressions.
LEMMA InnerFacts ==
    ASSUME BuilderInv, work # <<>>,
           Top.node.node \notin {"program", "fun_declaration", "var_declaration"}
    PROVE  Len(work) >= 3
<1>1. IsSeq(work) /\ Len(work) \in Nat /\ Len(work) >= 1 /\ Top = work[Len(work)]
  BY SeqFacts DEF BuilderInv, Walk, Top, Last
<1>2. Len(work) # 1 /\ Len(work) # 2
  BY <1>1 DEF BuilderInv, Walk, Declarations
<1>3. \A n \in Nat : n >= 1 /\ n # 1 /\ n # 2 => n >= 3
  OBVIOUS
<1>4. QED
  BY <1>1, <1>2, <1>3

\* The running frame and its callers, inside a function.
LEMMA WorkFacts ==
    ASSUME BuilderInv, Len(work) >= 3
    PROVE  /\ IsSeq(work) /\ Len(work) \in Nat /\ DOMAIN work = 1..Len(work)
           /\ Top = work[Len(work)] /\ Len(work) \in DOMAIN work /\ InFunction
           /\ IsSeq(Callers) /\ Len(Callers) = Len(work) - 1
           /\ \A d \in 1..Len(work) - 1 : Callers[d] = work[d]
<1>1. IsSeq(work) /\ InFunction
  BY DEF BuilderInv, Walk
<1>2. Len(work) \in Nat /\ DOMAIN work = 1..Len(work)
  BY <1>1, SeqFacts
<1>3. work # <<>>
  BY <1>1, <1>2, SeqFacts
<1>4. Top = work[Len(work)] /\ Len(work) \in DOMAIN work
  BY <1>2 DEF Top, Last
<1>5. /\ IsSeq(Callers) /\ Len(Callers) = Len(work) - 1
      /\ \A d \in 1..Len(work) - 1 : Callers[d] = work[d]
  BY <1>1, <1>3, FrontFacts DEF Callers
<1>6. QED
  BY <1>1, <1>2, <1>4, <1>5

\* Replacing the running frame by at most two keeps the invariant.
LEMMA InnerStep ==
    ASSUME BuilderInv, Len(work) >= 3, NEW placed, CodeGrows(placed),
           placed \subseteq Range(Top.todo) \cup Created,
           NEW tail, IsSeq(tail), Len(tail) <= 2, work' = Callers \o tail,
           \A d \in 1..Len(tail) :
              /\ tail[d].node.node \notin {"program", "fun_declaration"}
              /\ tail[d].will_enter_scope \in BOOLEAN
              /\ tail[d].will_enter_scope =>
                    /\ d = 1 /\ Len(work) = 3 /\ tail[d].at # "visit"
                    /\ tail[d].node.node = "compound_stmt"
              /\ Holds(tail[d], layout', Len(blocks'))
              /\ Range(tail[d].todo) \subseteq Range(Top.todo) \cup Created
              /\ d = 2 => tail[d].todo = <<>>,
           functions' = functions, currentFunction' = currentFunction,
           isFunctionTopCompoundStatement' = FALSE, IsSeq(scope'),
           Len(scope') = IF Len(work) > 3 THEN Len(scope)
                         ELSE IF tail # <<>> /\ tail[1].will_enter_scope THEN 3 ELSE 2
    PROVE  BuilderInv'
<1> DEFINE W == Len(work)
<1>1. /\ IsSeq(work) /\ W \in Nat /\ DOMAIN work = 1..W /\ W >= 3
      /\ Top = work[W] /\ InFunction
      /\ IsSeq(Callers) /\ Len(Callers) = W - 1
      /\ \A d \in 1..W - 1 : Callers[d] = work[d]
  BY WorkFacts
<1>2. /\ Len(tail) \in Nat /\ Len(tail) <= 2 /\ DOMAIN tail = 1..Len(tail)
      /\ (tail # <<>> <=> Len(tail) >= 1)
  BY SeqFacts
<1>3. /\ IsSeq(work') /\ Len(work') = W - 1 + Len(tail)
      /\ \A d \in 1..W - 1 : work'[d] = work[d]
      /\ \A d \in 1..Len(tail) : work'[W - 1 + d] = tail[d]
      /\ DOMAIN work' = 1..W - 1 + Len(tail)
  <2>1. /\ IsSeq(Callers \o tail) /\ Len(Callers \o tail) = W - 1 + Len(tail)
        /\ \A d \in 1..W - 1 : (Callers \o tail)[d] = Callers[d]
        /\ \A d \in 1..Len(tail) : (Callers \o tail)[W - 1 + d] = tail[d]
    BY <1>1, ConcatFacts
  <2>2. DOMAIN (Callers \o tail) = 1..W - 1 + Len(tail)
    BY <2>1, SeqFacts
  <2>3. QED
    BY <2>1, <2>2, <1>1
<1> HIDE DEF W
\* A frame is one of the callers, or one of the new ones.
<1>4. ASSUME NEW d \in DOMAIN work'
      PROVE  \/ d \in 1..W - 1 /\ work'[d] = work[d]
             \/ d - (W - 1) \in 1..Len(tail) /\ work'[d] = tail[d - (W - 1)] /\ d >= W
  <2>1. CASE d \in 1..W - 1
    BY <2>1, <1>3
  <2>2. CASE d \notin 1..W - 1
    <3>1. d - (W - 1) \in 1..Len(tail) /\ W - 1 + (d - (W - 1)) = d /\ d >= W
      BY <2>2, <1>1, <1>2, <1>3
    <3>2. QED
      BY <3>1, <1>3
  <2>3. QED
    BY <2>1, <2>2
<1>5. /\ Len(work') >= 2 /\ work' # <<>> /\ work'[1] = work[1] /\ work'[2] = work[2]
      /\ InFunction'
  <2>1. Len(work') >= 2 /\ work'[1] = work[1] /\ work'[2] = work[2] /\ work' # <<>>
    BY <1>1, <1>2, <1>3, SeqFacts
  <2>2. QED
    BY <2>1, <1>1 DEF InFunction
<1>6. Walk'
  <2>1. work'[1].node.node = "program" /\ work'[2].node.node \in Declarations
    BY <1>1, <1>5 DEF BuilderInv, Walk, InFunction, Declarations
  <2>2. ASSUME NEW d \in 3..Len(work')
        PROVE  work'[d].node.node \notin {"program", "fun_declaration"}
    BY <1>1, <1>3, <1>4 DEF BuilderInv, Walk, W
  <2>3. QED
    BY <2>1, <2>2, <1>3, <1>5 DEF Walk
<1>7. Scoping'
  <2>1. ASSUME NEW d \in DOMAIN work'
        PROVE  /\ work'[d].will_enter_scope \in BOOLEAN
               /\ work'[d].will_enter_scope =>
                    d = 3 /\ work'[d].node.node = "compound_stmt" /\ work'[d].at # "visit"
    <3>1. CASE d \in 1..W - 1 /\ work'[d] = work[d]
      BY <3>1, <1>1 DEF BuilderInv, Scoping
    <3>2. CASE /\ d - (W - 1) \in 1..Len(tail) /\ work'[d] = tail[d - (W - 1)] /\ d >= W
      <4> DEFINE e == d - (W - 1)
      <4>1. e \in 1..Len(tail) /\ work'[d] = tail[e] /\ (e = 1 /\ W = 3 => d = 3)
        BY <3>2, <1>1, <1>3
      <4> HIDE DEF e
      <4>2. QED
        BY <4>1 DEF W
    <3>3. QED
      BY <3>1, <3>2, <1>4
  <2>2. Len(scope') = IF Len(work') >= 3 /\ work'[3].will_enter_scope THEN 3 ELSE 2
    <3>1. CASE W > 3
      <4>1. Len(work') >= 3 /\ work'[3] = work[3]
        BY <3>1, <1>1, <1>2, <1>3
      <4>2. QED
        BY <4>1, <3>1, <1>1 DEF BuilderInv, Scoping, W
    <3>2. CASE W = 3 /\ tail = <<>>
      <4>1. Len(tail) = 0
        BY <3>2, ShortSeqs
      <4>2. ~(Len(work') >= 3)
        <5>1. Len(work') = W - 1 + Len(tail) /\ W = 3
          BY <3>2, <1>3
        <5>2. Len(work') = 3 - 1 + 0
          BY <5>1, <4>1
        <5>3. QED
          BY <5>2
      <4>3. Len(scope') = 2
        BY <3>2 DEF W
      <4>4. QED
        BY <4>2, <4>3
    <3>3. CASE W = 3 /\ tail # <<>>
      BY <3>3, <1>2, <1>3 DEF W
    <3>4. QED
      BY <3>1, <3>2, <3>3, <1>1 DEF W
  <2>3. QED
    BY <2>1, <2>2, <1>5 DEF Scoping
<1>8. Shape'
  <2>1. /\ IsSeq(functions) /\ IsSeq(layout) /\ Len(functions) = Len(layout) /\ layout # <<>>
    BY DEF BuilderInv, Shape
  <2>2. layout' # <<>>
    BY <2>1, SeqFacts DEF CodeGrows
  <2>3. DOMAIN blocks' = 1..Len(blocks')
    BY SeqFacts DEF CodeGrows
  <2>4. QED
    BY <2>1, <2>2, <2>3 DEF Shape, CodeGrows, Inserted
<1>9. Position'
  <2>1. currentFunction = Len(layout)
    BY <1>1, CodeFacts
  <2>2. layout'[currentFunction'] # <<>> /\ ip' = Last(layout'[currentFunction'])
    BY <2>1 DEF CodeGrows
  <2>3. QED
    BY <2>1, <2>2, <1>5 DEF Position, InsertPointAtBack, Back, CodeGrows
<1>10. Once'
  BY DEF Once, CodeGrows
<1>11. Held'
  <2>1. /\ Len(blocks) \in Nat /\ Len(blocks') \in Nat /\ Len(blocks') >= Len(blocks)
        /\ DOMAIN layout' = DOMAIN layout
        /\ \A f \in DOMAIN layout' : Range(layout'[f]) \subseteq Range(layout[f]) \cup placed
    <3>1. DOMAIN layout' = DOMAIN layout
      BY <1>1, CodeFacts, SeqFacts DEF CodeGrows
    <3>2. QED
      BY <3>1, <1>1, CodeFacts, SeqFacts DEF CodeGrows
  <2>2. ASSUME NEW d \in 1..W - 1
        PROVE  /\ Range(work[d].todo) \subseteq 1..Len(blocks)
               /\ Range(work[d].todo) \cap Range(Top.todo) = {}
               /\ Range(work[d].todo) \cap (Range(Top.todo) \cup Created) = {}
    <3>1. Range(work[d].todo) \subseteq 1..Len(blocks)
      <4>1. Holds(work[d], layout, Len(blocks))
        BY <1>1 DEF BuilderInv, Held
      <4>2. QED
        BY <4>1 DEF Holds
    <3>2. Range(work[d].todo) \cap Range(Top.todo) = {}
      <4>1. d \in DOMAIN work /\ W \in DOMAIN work /\ d # W
        BY <1>1
      <4>2. QED
        BY <4>1, <1>1 DEF BuilderInv, Held
    <3>3. QED
      BY <3>1, <3>2, <2>1 DEF Created
  <2>3. ASSUME NEW d \in DOMAIN work'
        PROVE  Holds(work'[d], layout', Len(blocks'))
    <3>1. CASE d \in 1..W - 1 /\ work'[d] = work[d]
      <4>1. Holds(work[d], layout, Len(blocks))
        BY <3>1, <1>1 DEF BuilderInv, Held
      <4>2. \A f \in DOMAIN layout' : Range(work[d].todo) \cap Range(layout'[f]) = {}
        <5>1. /\ \A f \in DOMAIN layout : Range(work[d].todo) \cap Range(layout[f]) = {}
              /\ Range(work[d].todo) \cap (Range(Top.todo) \cup Created) = {}
          BY <3>1, <4>1, <2>2 DEF Holds
        <5>2. QED
          BY <5>1, <2>1
      <4>3. Range(work[d].todo) \subseteq 1..Len(blocks') /\ 0..Len(blocks) \subseteq 0..Len(blocks')
        <5>1. Range(work[d].todo) \subseteq 1..Len(blocks)
          BY <3>1, <2>2
        <5>2. 1..Len(blocks) \subseteq 1..Len(blocks') /\ 0..Len(blocks) \subseteq 0..Len(blocks')
          BY <2>1
        <5>3. QED
          BY <5>1, <5>2
      <4>4. Holds(work[d], layout', Len(blocks'))
        BY <4>1, <4>2, <4>3 DEF Holds
      <4>5. QED
        BY <4>4, <3>1
    <3>2. CASE d - (W - 1) \in 1..Len(tail) /\ work'[d] = tail[d - (W - 1)]
      BY <3>2
    <3>3. QED
      BY <3>1, <3>2, <1>4
  <2>4. ASSUME NEW d \in DOMAIN work', NEW e \in DOMAIN work', d # e
        PROVE  Range(work'[d].todo) \cap Range(work'[e].todo) = {}
    <3> DEFINE Caller(n) == n \in 1..W - 1 /\ work'[n] = work[n]
               Added(n) == /\ n - (W - 1) \in 1..Len(tail) /\ n >= W
                           /\ work'[n] = tail[n - (W - 1)]
    <3>1. CASE Caller(d) /\ Caller(e)
      <4>1. d \in DOMAIN work /\ e \in DOMAIN work /\ work'[d] = work[d] /\ work'[e] = work[e]
        BY <3>1, <1>1
      <4>2. Range(work[d].todo) \cap Range(work[e].todo) = {}
        BY <4>1, <2>4, Zenon DEF BuilderInv, Held
      <4>3. QED
        BY <4>1, <4>2
    <3>2. CASE Caller(d) /\ Added(e)
      BY <3>2, <2>2
    <3>3. CASE Added(d) /\ Caller(e)
      BY <3>3, <2>2
    <3>4. CASE Added(d) /\ Added(e)
      <4>1. d - (W - 1) = 2 \/ e - (W - 1) = 2
        <5>1. d \in Int /\ e \in Int
          BY <1>1, <1>2, <1>3
        <5>2. d - (W - 1) \in 1..Len(tail) /\ e - (W - 1) \in 1..Len(tail)
          BY <3>4
        <5>3. \A n \in 1..Len(tail) : n = 1 \/ n = 2
          BY <1>2
        <5>4. /\ d - (W - 1) = 1 \/ d - (W - 1) = 2
              /\ e - (W - 1) = 1 \/ e - (W - 1) = 2
          BY <5>2, <5>3
        <5>5. W - 1 \in Int
          BY <1>1
        <5>6. \A x, y, w \in Int :
                 x - w = 1 /\ y - w = 1 => x = y
          OBVIOUS
        <5>7. ~(d - (W - 1) = 1 /\ e - (W - 1) = 1)
          BY <5>1, <5>5, <5>6, <2>4
        <5>8. QED
          BY <5>4, <5>7
      <4>2. work'[d].todo = <<>> \/ work'[e].todo = <<>>
        BY <4>1, <3>4
      <4>3. QED
        BY <4>2, ShortSeqs
    <3>5. (Caller(d) \/ Added(d)) /\ (Caller(e) \/ Added(e))
      BY <1>4
    <3> HIDE DEF Caller, Added
    <3>6. QED
      BY <3>1, <3>2, <3>3, <3>4, <3>5
  <2>5. QED
    BY <2>3, <2>4 DEF Held
<1>12. WellFormedBlocks'
  <2>1. currentFunction' = Len(layout)
    BY <1>1, CodeFacts
  <2>2. QED
    BY <2>1 DEF WellFormedBlocks, CodeGrows
<1>13. QED
  BY <1>6, <1>7, <1>8, <1>9, <1>10, <1>11, <1>12 DEF BuilderInv

\* A step that leaves the functions, the scopes and the flag as they are, but
\* for the names a scope binds.
Settled ==
    /\ functions' = functions /\ currentFunction' = currentFunction
    /\ isFunctionTopCompoundStatement' = isFunctionTopCompoundStatement
    /\ IsSeq(scope') /\ Len(scope') = Len(scope)

\* A step that leaves scopes and functions alone is settled.
LEMMA SettledUnchanged ==
    ASSUME BuilderInv, UNCHANGED <<scope, functions, current>>
    PROVE  Settled
  BY DEF BuilderInv, Scoping, Settled, current

\* Scope::push keeps the number of scopes.
LEMMA PushFacts ==
    ASSUME IsSeq(scope), NEW name, NEW val
    PROVE  IsSeq(Push(scope, name, val)) /\ Len(Push(scope, name, val)) = Len(scope)
<1> DEFINE map == InsertOnce(scope[Len(scope)], name, val)
           pushed == Push(scope, name, val)
<1>1. Len(scope) \in Nat /\ DOMAIN scope = 1..Len(scope)
  BY SeqFacts
<1>2. pushed = [scope EXCEPT ![Len(scope)] = map]
  BY DEF Push
<1> HIDE DEF map, pushed
<1>3. scope = [l \in 1..Len(scope) |-> scope[l]]
  <2>1. scope \in Seq(Range(scope))
    BY DEF IsSeq
  <2>2. QED
    BY <2>1, <1>1
<1>4. DOMAIN pushed = 1..Len(scope) /\ pushed = [l \in 1..Len(scope) |-> pushed[l]]
  BY <1>1, <1>2, <1>3
<1>5. IsSeq(pushed) /\ Len(pushed) = Len(scope)
  BY <1>1, <1>4, FunctionIsSeq
<1>6. QED
  BY <1>5 DEF pushed

\* A step that only binds a name is settled.
LEMMA SettledPush ==
    ASSUME BuilderInv, NEW name, NEW val, scope' = Push(scope, name, val),
           UNCHANGED <<functions, current>>
    PROVE  Settled
<1>1. IsSeq(scope') /\ Len(scope') = Len(scope)
  BY PushFacts DEF BuilderInv, Scoping
<1>2. QED
  BY <1>1 DEF Settled, current

\* The scopes of a step inside a function that neither enters nor leaves one.
LEMMA InnerScopes ==
    ASSUME BuilderInv, Len(work) >= 3
    PROVE  /\ Top.will_enter_scope \in BOOLEAN
           /\ Top.will_enter_scope =>
                 Len(work) = 3 /\ Top.node.node = "compound_stmt" /\ Top.at # "visit"
           /\ Len(scope) = IF Len(work) > 3 THEN Len(scope)
                           ELSE IF Top.will_enter_scope THEN 3 ELSE 2
           /\ ~Running("compound_stmt", "visit") => isFunctionTopCompoundStatement = FALSE
           /\ Holds(Top, layout, Len(blocks)) /\ Top.i \in Nat
           /\ DOMAIN Top = {"at", "node", "i", "vals", "todo", "bb_condition",
                            "will_enter_scope"}
<1>1. Top = work[Len(work)] /\ Len(work) \in DOMAIN work /\ InFunction
  BY WorkFacts
<1>2. /\ Top.will_enter_scope \in BOOLEAN
      /\ Top.will_enter_scope =>
            Len(work) = 3 /\ Top.node.node = "compound_stmt" /\ Top.at # "visit"
      /\ ~Running("compound_stmt", "visit") => isFunctionTopCompoundStatement = FALSE
  BY <1>1 DEF BuilderInv, Scoping
<1>3. Len(work) > 3 \/ Len(work) = 3
  BY WorkFacts
<1>4. Len(scope) = IF Len(work) > 3 THEN Len(scope)
                   ELSE IF Top.will_enter_scope THEN 3 ELSE 2
  <2>1. CASE Len(work) > 3
    BY <2>1
  <2>2. CASE Len(work) = 3
    BY <2>2, <1>1 DEF BuilderInv, Scoping
  <2>3. QED
    BY <2>1, <2>2, <1>3
<1>5. Holds(Top, layout, Len(blocks))
  BY <1>1 DEF BuilderInv, Held
<1>6. /\ Top.i \in Nat
      /\ DOMAIN Top = {"at", "node", "i", "vals", "todo", "bb_condition",
                       "will_enter_scope"}
  BY <1>5, FrameFields DEF Holds
<1>7. QED
  BY <1>2, <1>3, <1>4, <1>5, <1>6

\* A method that returns.
LEMMA ReturnStep ==
    ASSUME BuilderInv, Len(work) >= 3, NEW placed, CodeGrows(placed),
           placed \subseteq Range(Top.todo) \cup Created, Return, Settled,
           Top.node.node # "compound_stmt"
    PROVE  BuilderInv'
<1>1. /\ IsSeq(<<>>) /\ Len(<<>>) = 0 /\ Len(<<>>) <= 2
  BY ShortSeqs
<1>2. work' = Callers \o <<>>
  BY WorkFacts, ConcatEmpty DEF Return
<1>3. /\ Top.will_enter_scope = FALSE /\ isFunctionTopCompoundStatement = FALSE
      /\ Len(scope) = IF Len(work) > 3 THEN Len(scope) ELSE 2
  BY InnerScopes DEF Running
<1>4. Len(work) \in Nat
  BY WorkFacts
<1>5. Len(scope') = IF Len(work) > 3 THEN Len(scope) ELSE 2
  BY <1>3, <1>4 DEF Settled
<1>6. /\ IsSeq(scope') /\ functions' = functions /\ currentFunction' = currentFunction
      /\ isFunctionTopCompoundStatement' = FALSE
  BY <1>3 DEF Settled
<1> DEFINE tail == <<>>
<1>7. tail = <<>> /\ Len(tail) = 0 /\ 1..Len(tail) = {}
  BY <1>1
<1>8. IsSeq(tail) /\ Len(tail) <= 2 /\ work' = Callers \o tail
  BY <1>1, <1>2
<1> HIDE DEF tail
<1>9. QED
  BY <1>5, <1>6, <1>7, <1>8, InnerStep

\* A method that ends with a visit.
LEMMA TailVisitStep ==
    ASSUME BuilderInv, Len(work) >= 3, CodeGrows({}), Settled,
           NEW child, NEW kinds, TailVisit(child, kinds),
           kinds \cap {"program", "fun_declaration"} = {},
           Top.node.node # "compound_stmt"
    PROVE  BuilderInv'
<1> DEFINE tail == <<Frame(child)>>
<1>1. /\ tail[1] = Frame(child) /\ IsSeq(tail) /\ Len(tail) = 1 /\ tail # <<>>
  BY ShortSeqs
<1>2. work' = Callers \o tail
  BY WorkFacts, AppendConcat DEF TailVisit
<1> HIDE DEF tail
<1>3. /\ Top.will_enter_scope = FALSE /\ isFunctionTopCompoundStatement = FALSE
      /\ Len(scope) = IF Len(work) > 3 THEN Len(scope) ELSE 2
  BY InnerScopes DEF Running
<1>4. Len(work) \in Nat
  BY WorkFacts
<1>5. Len(blocks') \in Nat
  BY SeqFacts DEF CodeGrows
<1>6. /\ tail[1].node.node \notin {"program", "fun_declaration"}
      /\ tail[1].will_enter_scope = FALSE /\ Holds(tail[1], layout', Len(blocks'))
      /\ tail[1].todo = <<>> /\ Range(tail[1].todo) = {}
  <2>1. /\ Frame(child).node = child /\ Frame(child).will_enter_scope = FALSE
        /\ Frame(child).todo = <<>> /\ Holds(Frame(child), layout', Len(blocks'))
    BY <1>5, FreshFrame
  <2>2. child.node \notin {"program", "fun_declaration"} /\ Range(<<>>) = {}
    BY ShortSeqs DEF TailVisit
  <2>3. QED
    BY <2>1, <2>2, <1>1
<1>7. Len(scope') = IF Len(work) > 3 THEN Len(scope)
                    ELSE IF tail # <<>> /\ tail[1].will_enter_scope THEN 3 ELSE 2
  BY <1>3, <1>4, <1>6 DEF Settled
<1>8. /\ IsSeq(scope') /\ functions' = functions /\ currentFunction' = currentFunction
      /\ isFunctionTopCompoundStatement' = FALSE
  BY <1>3 DEF Settled
<1>9. \A d \in 1..Len(tail) : d = 1
  BY <1>1
<1>10. \A d \in 1..Len(tail) :
              /\ tail[d].node.node \notin {"program", "fun_declaration"}
              /\ tail[d].will_enter_scope \in BOOLEAN
              /\ tail[d].will_enter_scope =>
                    /\ d = 1 /\ Len(work) = 3 /\ tail[d].at # "visit"
                    /\ tail[d].node.node = "compound_stmt"
              /\ Holds(tail[d], layout', Len(blocks'))
              /\ Range(tail[d].todo) \subseteq Range(Top.todo) \cup Created
              /\ d = 2 => tail[d].todo = <<>>
  BY <1>6, <1>9
<1>11. Len(tail) <= 2 /\ {} \subseteq Range(Top.todo) \cup Created
  BY <1>1
<1>12. QED
  BY <1>1, <1>2, <1>7, <1>8, <1>10, <1>11, InnerStep

\* A method that goes on when the visit it starts returns.
LEMMA VisitStep ==
    ASSUME BuilderInv, Len(work) >= 3, NEW placed, CodeGrows(placed),
           placed \subseteq Range(Top.todo) \cup Created, Settled,
           NEW child, NEW kinds, NEW rest, Visit(child, kinds, rest),
           kinds \cap {"program", "fun_declaration"} = {},
           Top.node.node \notin {"program", "fun_declaration"},
           ~Running("compound_stmt", "visit"),
           rest.node = Top.node, rest.will_enter_scope = Top.will_enter_scope,
           rest.at # "visit", Holds(rest, layout', Len(blocks')),
           Range(rest.todo) \subseteq Range(Top.todo) \cup Created
    PROVE  BuilderInv'
<1> DEFINE tail == <<rest, Frame(child)>>
<1>1. /\ tail[1] = rest /\ tail[2] = Frame(child) /\ IsSeq(tail) /\ Len(tail) = 2
      /\ tail # <<>>
  BY ShortSeqs
<1>2. work' = Callers \o tail
  BY DEF Visit
<1> HIDE DEF tail
<1>3. /\ Top.will_enter_scope \in BOOLEAN
      /\ Top.will_enter_scope => Len(work) = 3 /\ Top.node.node = "compound_stmt"
      /\ isFunctionTopCompoundStatement = FALSE
      /\ Len(scope) = IF Len(work) > 3 THEN Len(scope)
                      ELSE IF Top.will_enter_scope THEN 3 ELSE 2
  BY InnerScopes
<1>4. Len(work) \in Nat
  BY WorkFacts
<1>5. Len(blocks') \in Nat
  BY SeqFacts DEF CodeGrows
<1>6. /\ tail[2].node.node \notin {"program", "fun_declaration"}
      /\ tail[2].will_enter_scope = FALSE /\ Holds(tail[2], layout', Len(blocks'))
      /\ tail[2].todo = <<>> /\ Range(tail[2].todo) = {}
  <2>1. /\ Frame(child).node = child /\ Frame(child).will_enter_scope = FALSE
        /\ Frame(child).todo = <<>> /\ Holds(Frame(child), layout', Len(blocks'))
    BY <1>5, FreshFrame
  <2>2. child.node \notin {"program", "fun_declaration"} /\ Range(<<>>) = {}
    BY ShortSeqs DEF Visit
  <2>3. QED
    BY <2>1, <2>2, <1>1
<1>7. Len(scope') = IF Len(work) > 3 THEN Len(scope)
                    ELSE IF tail # <<>> /\ tail[1].will_enter_scope THEN 3 ELSE 2
  BY <1>1, <1>3, <1>4 DEF Settled
<1>8. /\ IsSeq(scope') /\ functions' = functions /\ currentFunction' = currentFunction
      /\ isFunctionTopCompoundStatement' = FALSE
  BY <1>3 DEF Settled
<1>9. \A d \in 1..Len(tail) : d = 1 \/ d = 2
  BY <1>1
<1>10. \A d \in 1..Len(tail) :
              /\ tail[d].node.node \notin {"program", "fun_declaration"}
              /\ tail[d].will_enter_scope \in BOOLEAN
              /\ tail[d].will_enter_scope =>
                    /\ d = 1 /\ Len(work) = 3 /\ tail[d].at # "visit"
                    /\ tail[d].node.node = "compound_stmt"
              /\ Holds(tail[d], layout', Len(blocks'))
              /\ Range(tail[d].todo) \subseteq Range(Top.todo) \cup Created
              /\ d = 2 => tail[d].todo = <<>>
  BY <1>1, <1>3, <1>6, <1>9
<1>11. Len(tail) <= 2
  BY <1>1
<1>12. QED
  BY <1>1, <1>2, <1>7, <1>8, <1>10, <1>11, InnerStep

\* The same for a step that inserts no block and creates none to hold.
LEMMA VisitStepPlain ==
    ASSUME BuilderInv, Len(work) >= 3, CodeGrows({}), Settled,
           NEW child, NEW kinds, NEW rest, Visit(child, kinds, rest),
           kinds \cap {"program", "fun_declaration"} = {},
           Top.node.node \notin {"program", "fun_declaration", "iteration_stmt"},
           ~Running("compound_stmt", "visit"),
           rest.node = Top.node, rest.will_enter_scope = Top.will_enter_scope,
           DOMAIN rest = DOMAIN Top, rest.at \notin {"visit", "condition"}, rest.i \in Nat, rest.todo = Top.todo,
           rest.bb_condition = Top.bb_condition
    PROVE  BuilderInv'
<1>1. Holds(Top, layout, Len(blocks)) /\ InFunction
  BY InnerScopes, WorkFacts
<1>2. /\ Len(blocks) \in Nat /\ Len(blocks') \in Nat /\ Len(blocks') >= Len(blocks)
      /\ DOMAIN layout' = DOMAIN layout
      /\ \A f \in DOMAIN layout' : Range(layout'[f]) \subseteq Range(layout[f])
  BY <1>1, CodeFacts, SeqFacts DEF CodeGrows
<1>3. 1..Len(blocks) \subseteq 1..Len(blocks') /\ 0..Len(blocks) \subseteq 0..Len(blocks')
  BY <1>2
<1>4. \A f \in DOMAIN layout' : Range(Top.todo) \cap Range(layout'[f]) = {}
  BY <1>1, <1>2 DEF Holds
<1>5. Holds(rest, layout', Len(blocks'))
  BY <1>1, <1>3, <1>4 DEF Holds
<1>6. {} \subseteq Range(Top.todo) \cup Created /\ rest.at # "visit"
      /\ Range(rest.todo) \subseteq Range(Top.todo) \cup Created
  OBVIOUS
<1>7. QED
  BY <1>5, <1>6, VisitStep

-----------------------------------------------------------------------------
(* One lemma for each action: it keeps the invariant.                      *)

\* The actions of statements and expressions happen inside a function, and
\* most of them touch neither the functions nor the scopes.
LEMMA Inside ==
    ASSUME BuilderInv, NEW kind, NEW at, Running(kind, at),
           kind \notin {"program", "fun_declaration", "var_declaration"},
           UNCHANGED <<scope, module, current>>
    PROVE  Len(work) >= 3 /\ InFunction /\ Settled /\ Top.node.node = kind /\ Top.at = at
<1>1. work # <<>> /\ Top.node.node = kind /\ Top.at = at
  BY DEF Running
<1>2. Len(work) >= 3 /\ InFunction
  BY <1>1, InnerFacts, WorkFacts
<1>3. UNCHANGED <<scope, functions, current>>
  BY DEF module
<1>4. QED
  BY <1>1, <1>2, <1>3, SettledUnchanged

\* The next declaration or statement of a block is visited.
LEMMA CompoundItemKeeps == ASSUME BuilderInv, CompoundItem PROVE BuilderInv'
<1> DEFINE rest == [Top EXCEPT !.i = @ + 1]
<1>1. /\ Running("compound_stmt", "items") /\ Len(work) >= 3 /\ InFunction /\ Settled
      /\ Top.node.node = "compound_stmt" /\ Top.at = "items" /\ CodeGrows({})
  BY Inside, UnchangedCode DEF CompoundItem
<1>2. PICK child, kinds : /\ Visit(child, kinds, rest)
                          /\ kinds \in {{"var_declaration"}, Statements}
  BY DEF CompoundItem
<1>3. kinds \cap {"program", "fun_declaration"} = {}
  BY <1>2 DEF Statements
<1>4. /\ rest.node = Top.node /\ rest.will_enter_scope = Top.will_enter_scope
      /\ rest.at = "items" /\ rest.i \in Nat /\ rest.todo = Top.todo
      /\ rest.bb_condition = Top.bb_condition /\ DOMAIN rest = DOMAIN Top
  BY <1>1, InnerScopes
<1>5. ~Running("compound_stmt", "visit")
  BY <1>1 DEF Running
<1> HIDE DEF rest
<1>6. QED
  BY <1>1, <1>2, <1>3, <1>4, <1>5, VisitStepPlain

\* The expression, if there is one, takes the place of the statement.
LEMMA VisitExpresionStmtKeeps == ASSUME BuilderInv, VisitExpresionStmt PROVE BuilderInv'
<1>1. /\ Len(work) >= 3 /\ Settled /\ Top.node.node = "expresion_stmt" /\ CodeGrows({})
      /\ {} \subseteq Range(Top.todo) \cup Created
  BY Inside, UnchangedCode DEF VisitExpresionStmt
<1>2. Expressions \cap {"program", "fun_declaration"} = {}
  BY DEF Expressions
<1>3. Return \/ TailVisit(Top.node.expression, Expressions)
  BY DEF VisitExpresionStmt
<1>4. QED
  BY <1>1, <1>2, <1>3, ReturnStep, TailVisitStep

\* Blocks that the running method holds or has created are in no function,
\* unless the step inserts them.
LEMMA StillHeld ==
    ASSUME BuilderInv, Len(work) >= 3, NEW placed, CodeGrows(placed),
           NEW X, X \subseteq Range(Top.todo) \cup Created, X \cap placed = {}
    PROVE  /\ \A f \in DOMAIN layout' : X \cap Range(layout'[f]) = {}
           /\ X \subseteq 1..Len(blocks') /\ Len(blocks) \in Nat /\ Len(blocks') \in Nat
<1>1. Holds(Top, layout, Len(blocks)) /\ InFunction
  BY InnerScopes, WorkFacts
<1>2. /\ Len(blocks) \in Nat /\ Len(blocks') \in Nat /\ Len(blocks') >= Len(blocks)
      /\ DOMAIN layout' = DOMAIN layout /\ DOMAIN blocks = 1..Len(blocks)
      /\ \A f \in DOMAIN layout' : Range(layout'[f]) \subseteq Range(layout[f]) \cup placed
  BY <1>1, CodeFacts, SeqFacts DEF CodeGrows
<1>3. \A f \in DOMAIN layout : Range(layout[f]) \subseteq 1..Len(blocks)
  BY <1>2 DEF BuilderInv, Shape, Inserted
<1>4. \A f \in DOMAIN layout : (Range(Top.todo) \cup Created) \cap Range(layout[f]) = {}
  <2>1. \A b \in Created : b \notin 1..Len(blocks)
    BY <1>2 DEF Created
  <2>2. QED
    BY <2>1, <1>1, <1>3 DEF Holds
<1>5. Range(Top.todo) \cup Created \subseteq 1..Len(blocks')
  <2>1. Range(Top.todo) \subseteq 1..Len(blocks)
    BY <1>1 DEF Holds
  <2>2. Created \subseteq 1..Len(blocks') /\ 1..Len(blocks) \subseteq 1..Len(blocks')
    BY <1>2 DEF Created
  <2>3. QED
    BY <2>1, <2>2
<1>6. QED
  BY <1>2, <1>4, <1>5

\* The blocks of an if are created, and held by its frame alone.
LEMMA VisitSelectionStmtKeeps == ASSUME BuilderInv, VisitSelectionStmt PROVE BuilderInv'
<1> DEFINE k == IF Top.node.else_statement = Nullptr THEN 2 ELSE 3
           bb == [j \in 1..k |-> Fresh(j)]
           rest == [Top EXCEPT !.at = "condition", !.todo = bb]
<1>1. /\ Len(work) >= 3 /\ InFunction /\ Settled /\ Top.node.node = "selection_stmt"
      /\ Top.at = "visit"
  BY Inside DEF VisitSelectionStmt
<1>2. Build(currentFunction, k, <<>>, <<>>) /\ Visit(Top.node.expression, Expressions, rest)
  BY DEF VisitSelectionStmt
<1>3. k \in {2, 3} /\ k \in Nat
  OBVIOUS
<1> HIDE DEF k
<1>4. /\ IsSeq(blocks) /\ Len(blocks) \in Nat /\ \A b \in DOMAIN blocks : IsSeq(blocks[b])
  BY <1>1, CodeFacts
<1>5. IsSeq(<<>>) /\ Range(<<>>) = {} /\ Len(<<>>) = 0 /\ DOMAIN <<>> = {}
  BY ShortSeqs
<1>6. Len(blocks') = Len(blocks) + k
  BY <1>2, <1>3, <1>4, <1>5, BuiltBlocks
<1>7. CodeGrows(Range(<<>>))
  BY <1>1, <1>2, <1>3, <1>4, <1>5, BuildKeeps
<1>8. /\ DOMAIN bb = 1..k /\ \A j \in 1..k : bb[j] = Len(blocks) + j
  BY DEF Fresh
<1>9. IsSeq(bb) /\ Len(bb) = k
  BY <1>3, <1>8, FunctionIsSeq
<1> HIDE DEF bb
<1>10. Range(bb) \subseteq Created
  BY <1>3, <1>4, <1>6, <1>8, <1>9, SeqFacts DEF Created
<1>11. \A i, j \in DOMAIN bb : bb[i] = bb[j] => i = j
  BY <1>3, <1>4, <1>8
<1>12. /\ rest.node = Top.node /\ rest.will_enter_scope = Top.will_enter_scope
       /\ rest.at = "condition" /\ rest.i = Top.i /\ rest.todo = bb
       /\ rest.bb_condition = Top.bb_condition /\ DOMAIN rest = DOMAIN Top
  BY <1>1, InnerScopes
<1> HIDE DEF rest
<1>13. CodeGrows({}) /\ {} \subseteq Range(Top.todo) \cup Created
  BY <1>5, <1>7
<1>14. /\ \A f \in DOMAIN layout' : Range(bb) \cap Range(layout'[f]) = {}
       /\ Range(bb) \subseteq 1..Len(blocks')
  <2>1. Range(bb) \cap {} = {} /\ Range(bb) \subseteq Range(Top.todo) \cup Created
    BY <1>10
  <2>2. QED
    BY <1>1, <1>13, <2>1, StillHeld
<1>15. Holds(Top, layout, Len(blocks))
  BY <1>1, InnerScopes
<1>16. Top.bb_condition \in 0..Len(blocks') /\ Top.i \in Nat
       /\ DOMAIN Top = DOMAIN Frame(Nullptr)
  BY <1>15, <1>3, <1>4, <1>6 DEF Holds
<1>17. Holds(rest, layout', Len(blocks'))
  BY <1>1, <1>3, <1>9, <1>11, <1>12, <1>14, <1>16 DEF Holds
<1>18. Expressions \cap {"program", "fun_declaration"} = {} /\ ~Running("compound_stmt", "visit")
  BY <1>1 DEF Expressions, Running
<1>19. rest.at # "visit" /\ Range(rest.todo) \subseteq Range(Top.todo) \cup Created
       /\ Top.node.node \notin {"program", "fun_declaration"}
  BY <1>1, <1>10, <1>12
<1>20. QED
  BY <1>1, <1>2, <1>12, <1>13, <1>17, <1>18, <1>19, VisitStep

\* What a method goes on from when it has inserted the first block it holds.
HoldsTheRest(rest) ==
    /\ DOMAIN rest = DOMAIN Top /\ rest.node = Top.node
    /\ rest.at \in {"arm", "end"} /\ rest.i = Top.i /\ rest.todo = Tail(Top.todo)
    /\ rest.bb_condition = Top.bb_condition
    /\ Top.node.node = "iteration_stmt" => Len(Top.todo) = 2

\* The first block a method holds is inserted behind a terminated block; the
\* others it goes on holding.
LEMMA InsertHead ==
    ASSUME BuilderInv, Len(work) >= 3, Len(Top.todo) >= 1,
           NEW ins, IsSeq(ins), EndsInTerminator(blocks[Back] \o ins),
           EmitAndInsert(ins, <<Head(Top.todo)>>)
    PROVE  /\ CodeGrows({Head(Top.todo)})
           /\ {Head(Top.todo)} \subseteq Range(Top.todo) \cup Created
           /\ \A rest : HoldsTheRest(rest) =>
                    /\ Holds(rest, layout', Len(blocks'))
                    /\ Range(rest.todo) \subseteq Range(Top.todo) \cup Created
<1> DEFINE bb == Top.todo
<1>1. Holds(Top, layout, Len(blocks)) /\ InFunction /\ Len(work) \in DOMAIN work
      /\ Top = work[Len(work)] /\ ip = Back
  BY InnerScopes, WorkFacts, CodeFacts
<1>2. /\ IsSeq(bb) /\ Len(bb) \in Nat /\ DOMAIN bb = 1..Len(bb) /\ bb # <<>>
      /\ \A i, j \in DOMAIN bb : bb[i] = bb[j] => i = j
  <2>1. IsSeq(bb) /\ \A i, j \in DOMAIN bb : bb[i] = bb[j] => i = j
    BY <1>1 DEF Holds
  <2>2. QED
    BY <2>1, SeqFacts
<1> HIDE DEF bb
<1>3. /\ IsSeq(Tail(bb)) /\ Len(Tail(bb)) = Len(bb) - 1
      /\ \A i \in 1..Len(bb) - 1 : Tail(bb)[i] = bb[i + 1]
      /\ Head(bb) = bb[1] /\ bb[1] \in Range(bb) /\ Range(Tail(bb)) \subseteq Range(bb)
  BY <1>2, TailFacts
<1>4. Head(bb) \in Range(work[Len(work)].todo)
  BY <1>1, <1>3 DEF bb
<1>5. CodeGrows({Head(bb)}) /\ Len(blocks') = Len(blocks)
  BY <1>1, <1>4, InsertKeeps DEF bb
<1>6. {Head(bb)} \subseteq Range(bb) \cup Created /\ Range(Tail(bb)) \subseteq Range(bb) \cup Created
  BY <1>3
<1>7. DOMAIN Tail(bb) = 1..Len(bb) - 1
  BY <1>3, SeqFacts
<1>8. ASSUME NEW i \in DOMAIN Tail(bb), NEW j \in DOMAIN Tail(bb), Tail(bb)[i] = Tail(bb)[j]
      PROVE  i = j
  <2>1. bb[i + 1] = bb[j + 1] /\ i + 1 \in DOMAIN bb /\ j + 1 \in DOMAIN bb
    BY <1>2, <1>3, <1>7, <1>8
  <2>2. i + 1 = j + 1
    BY <2>1, <1>2
  <2>3. QED
    BY <2>2, <1>2, <1>7
<1>9. Range(Tail(bb)) \cap {Head(bb)} = {}
  <2>1. ASSUME NEW x \in Range(Tail(bb)), x = bb[1] PROVE FALSE
    <3>1. PICK i \in 1..Len(Tail(bb)) : x = Tail(bb)[i]
      BY <1>3, <2>1, SeqFacts
    <3>2. bb[i + 1] = bb[1] /\ i + 1 \in DOMAIN bb /\ 1 \in DOMAIN bb /\ i + 1 # 1
      BY <1>2, <1>3, <2>1, <3>1
    <3>3. QED
      BY <3>2, <1>2
  <2>2. QED
    BY <2>1, <1>3
<1>10. /\ \A f \in DOMAIN layout' : Range(Tail(bb)) \cap Range(layout'[f]) = {}
       /\ Range(Tail(bb)) \subseteq 1..Len(blocks')
  BY <1>5, <1>6, <1>9, StillHeld DEF bb
<1>11. ASSUME NEW rest, HoldsTheRest(rest)
       PROVE  Holds(rest, layout', Len(blocks')) /\ rest.todo = Tail(bb)
  <2>0. /\ DOMAIN rest = DOMAIN Top /\ rest.node = Top.node /\ rest.at \in {"arm", "end"}
        /\ rest.i = Top.i /\ rest.todo = Tail(bb) /\ rest.bb_condition = Top.bb_condition
        /\ Top.node.node = "iteration_stmt" => Len(bb) = 2
    BY <1>11 DEF HoldsTheRest, bb
  <2>1. /\ DOMAIN rest = DOMAIN Frame(Nullptr) /\ rest.i \in Nat
        /\ rest.bb_condition \in 0..Len(blocks')
    BY <1>1, <1>5, <2>0 DEF Holds
  <2>2. rest.node.node = "iteration_stmt" => Len(Tail(bb)) = 1
    BY <1>3, <2>0
  <2>3. QED
    BY <2>0, <2>1, <2>2, <1>3, <1>8, <1>10 DEF Holds
<1>12. QED
  BY <1>5, <1>6, <1>11 DEF bb

\* The block of the condition ends in the branch, and the first arm's opens.
LEMMA SelectionConditionKeeps == ASSUME BuilderInv, SelectionCondition PROVE BuilderInv'
<1> DEFINE bb == Top.todo
           rest == [Top EXCEPT !.at = "arm", !.todo = Tail(bb)]
<1>1. /\ Len(work) >= 3 /\ InFunction /\ Settled /\ Top.node.node = "selection_stmt"
      /\ Top.at = "condition"
  BY Inside DEF SelectionCondition
<1>2. /\ EmitAndInsert(BranchOn(bb[1], bb[2]), <<Head(bb)>>)
      /\ Visit(Top.node.if_statement, Statements, rest)
  BY DEF SelectionCondition
<1>3. IsSeq(BranchOn(bb[1], bb[2])) /\ EndsInTerminator(BranchOn(bb[1], bb[2]))
  BY BranchOnFacts
<1>4. EndsInTerminator(blocks[Back] \o BranchOn(bb[1], bb[2]))
  BY <1>1, <1>3, CodeFacts, TerminatorAppended
<1>5. Len(bb) \in {2, 3}
  BY <1>1, InnerScopes DEF Holds
<1>6. /\ rest.node = Top.node /\ rest.will_enter_scope = Top.will_enter_scope
      /\ rest.at = "arm" /\ rest.i = Top.i /\ rest.todo = Tail(bb)
      /\ rest.bb_condition = Top.bb_condition /\ DOMAIN rest = DOMAIN Top
  BY <1>1, InnerScopes
<1> HIDE DEF rest
<1>7. /\ CodeGrows({Head(bb)}) /\ {Head(bb)} \subseteq Range(bb) \cup Created
      /\ Holds(rest, layout', Len(blocks')) /\ Range(rest.todo) \subseteq Range(bb) \cup Created
  <2>1. Len(bb) >= 1 /\ HoldsTheRest(rest)
    BY <1>1, <1>2, <1>3, <1>4, <1>5, <1>6 DEF HoldsTheRest
  <2>2. QED
    BY <1>1, <1>2, <1>3, <1>4, <1>5, <1>6, <2>1, InsertHead
<1>8. Statements \cap {"program", "fun_declaration"} = {} /\ ~Running("compound_stmt", "visit")
  BY <1>1 DEF Statements, Running
<1>9. QED
  BY <1>1, <1>2, <1>6, <1>7, <1>8, VisitStep

\* The first arm is joined to bb_end unless it ends already.
LEMMA SelectionElseKeeps == ASSUME BuilderInv, SelectionElse PROVE BuilderInv'
<1> DEFINE bb == Top.todo
           rest == [Top EXCEPT !.todo = Tail(bb)]
<1>1. /\ Len(work) >= 3 /\ InFunction /\ Settled /\ Top.node.node = "selection_stmt"
      /\ Top.at = "arm"
  BY Inside DEF SelectionElse
<1>2. /\ EmitAndInsert(JoinAt(bb[2]), <<Head(bb)>>)
      /\ Visit(Top.node.else_statement, Statements, rest) /\ Len(bb) = 2
  BY DEF SelectionElse
<1>3. IsSeq(JoinAt(bb[2])) /\ EndsInTerminator(blocks[Back] \o JoinAt(bb[2]))
  BY <1>1, CodeFacts, JoinAtFacts
<1>4. /\ rest.node = Top.node /\ rest.will_enter_scope = Top.will_enter_scope
      /\ rest.at = "arm" /\ rest.i = Top.i /\ rest.todo = Tail(bb)
      /\ rest.bb_condition = Top.bb_condition /\ DOMAIN rest = DOMAIN Top
  BY <1>1, InnerScopes
<1> HIDE DEF rest
<1>5. /\ CodeGrows({Head(bb)}) /\ {Head(bb)} \subseteq Range(bb) \cup Created
      /\ Holds(rest, layout', Len(blocks')) /\ Range(rest.todo) \subseteq Range(bb) \cup Created
  <2>1. Len(bb) >= 1 /\ HoldsTheRest(rest)
    BY <1>1, <1>2, <1>3, <1>4 DEF HoldsTheRest
  <2>2. QED
    BY <1>1, <1>2, <1>3, <1>4, <2>1, InsertHead
<1>6. Statements \cap {"program", "fun_declaration"} = {} /\ ~Running("compound_stmt", "visit")
  BY <1>1 DEF Statements, Running
<1>7. QED
  BY <1>1, <1>2, <1>4, <1>5, <1>6, VisitStep

\* The last arm is joined to bb_end, and the frame leaves no block behind.
LEMMA SelectionEndKeeps == ASSUME BuilderInv, SelectionEnd PROVE BuilderInv'
<1> DEFINE bb == Top.todo
<1>1. /\ Len(work) >= 3 /\ InFunction /\ Settled /\ Top.node.node = "selection_stmt"
  BY Inside DEF SelectionEnd
<1>2. EmitAndInsert(JoinAt(bb[1]), bb) /\ Return /\ Len(bb) = 1
  BY DEF SelectionEnd
<1>3. IsSeq(JoinAt(bb[1])) /\ EndsInTerminator(blocks[Back] \o JoinAt(bb[1]))
  BY <1>1, CodeFacts, JoinAtFacts
<1>4. bb = <<Head(bb)>>
  BY <1>1, <1>2, InnerScopes, SingletonSeq DEF Holds
<1>5. EmitAndInsert(JoinAt(bb[1]), <<Head(bb)>>)
  BY <1>2, <1>4
<1>6. CodeGrows({Head(bb)}) /\ {Head(bb)} \subseteq Range(bb) \cup Created
  <2>1. Len(bb) >= 1
    BY <1>2
  <2>2. QED
    BY <1>1, <1>2, <1>3, <1>5, <2>1, InsertHead
<1>7. QED
  BY <1>1, <1>2, <1>6, ReturnStep

\* The block of the condition ends in the branch, and the body's opens.
LEMMA IterationConditionKeeps == ASSUME BuilderInv, IterationCondition PROVE BuilderInv'
<1> DEFINE bb == Top.todo
           rest == [Top EXCEPT !.at = "end", !.todo = Tail(bb)]
<1>1. /\ Len(work) >= 3 /\ InFunction /\ Settled /\ Top.node.node = "iteration_stmt"
      /\ Top.at = "condition"
  BY Inside DEF IterationCondition
<1>2. /\ EmitAndInsert(BranchOn(bb[1], bb[2]), <<Head(bb)>>)
      /\ Visit(Top.node.statement, Statements, rest)
  BY DEF IterationCondition
<1>3. IsSeq(BranchOn(bb[1], bb[2])) /\ EndsInTerminator(BranchOn(bb[1], bb[2]))
  BY BranchOnFacts
<1>4. EndsInTerminator(blocks[Back] \o BranchOn(bb[1], bb[2]))
  BY <1>1, <1>3, CodeFacts, TerminatorAppended
<1>5. Len(bb) = 2
  BY <1>1, InnerScopes DEF Holds
<1>6. /\ rest.node = Top.node /\ rest.will_enter_scope = Top.will_enter_scope
      /\ rest.at = "end" /\ rest.i = Top.i /\ rest.todo = Tail(bb)
      /\ rest.bb_condition = Top.bb_condition /\ DOMAIN rest = DOMAIN Top
  BY <1>1, InnerScopes
<1> HIDE DEF rest
<1>7. /\ CodeGrows({Head(bb)}) /\ {Head(bb)} \subseteq Range(bb) \cup Created
      /\ Holds(rest, layout', Len(blocks')) /\ Range(rest.todo) \subseteq Range(bb) \cup Created
  <2>1. Len(bb) >= 1 /\ HoldsTheRest(rest)
    BY <1>1, <1>2, <1>3, <1>4, <1>5, <1>6 DEF HoldsTheRest
  <2>2. QED
    BY <1>1, <1>2, <1>3, <1>4, <1>5, <1>6, <2>1, InsertHead
<1>8. Statements \cap {"program", "fun_declaration"} = {} /\ ~Running("compound_stmt", "visit")
  BY <1>1 DEF Statements, Running
<1>9. QED
  BY <1>1, <1>2, <1>6, <1>7, <1>8, VisitStep

\* The body is joined to the condition, and bb_end is inserted.
LEMMA IterationEndKeeps == ASSUME BuilderInv, IterationEnd PROVE BuilderInv'
<1> DEFINE bb == Top.todo
           join == JoinAt(Top.bb_condition)
<1>1. /\ Len(work) >= 3 /\ InFunction /\ Settled /\ Top.node.node = "iteration_stmt"
      /\ Top.at = "end"
  BY Inside DEF IterationEnd
<1>2. EmitAndInsert(join, bb) /\ Return
  BY DEF IterationEnd
<1>3. IsSeq(join) /\ EndsInTerminator(blocks[Back] \o join)
  BY <1>1, CodeFacts, JoinAtFacts
<1>4. IsSeq(bb) /\ Len(bb) = 1
  BY <1>1, InnerScopes DEF Holds
<1> HIDE DEF join
<1>5. EmitAndInsert(join, <<Head(bb)>>)
  BY <1>2, <1>4, SingletonSeq
<1>6. CodeGrows({Head(bb)}) /\ {Head(bb)} \subseteq Range(bb) \cup Created
  <2>1. Len(bb) >= 1
    BY <1>4
  <2>2. QED
    BY <1>1, <1>3, <1>4, <1>5, <2>1, InsertHead
<1>7. QED
  BY <1>1, <1>2, <1>6, ReturnStep

\* The condition's block is created and inserted at once, the others are held.
LEMMA VisitIterationStmtKeeps == ASSUME BuilderInv, VisitIterationStmt PROVE BuilderInv'
<1> DEFINE n == Len(blocks)
           jump == <<Br(n + 1)>>
           placed == <<n + 1>>
           bb == <<n + 2, n + 3>>
           rest == [Top EXCEPT !.at = "condition", !.bb_condition = n + 1, !.todo = bb]
<1>1. /\ Len(work) >= 3 /\ InFunction /\ Settled /\ Top.node.node = "iteration_stmt"
      /\ Top.at = "visit"
  BY Inside DEF VisitIterationStmt
<1>2. /\ Build(currentFunction, 3, Appending(jump), placed)
      /\ Visit(Top.node.expression, Expressions, rest)
  BY DEF VisitIterationStmt, Fresh
<1>3. /\ IsSeq(jump) /\ jump # <<>> /\ EndsInTerminator(jump)
  BY ShortSeqs, BranchingOps DEF EndsInTerminator, Last
<1>4. DOMAIN Appending(jump) = {ip} /\ Appending(jump)[ip] = jump
  BY DEF Appending
<1>5. /\ placed[1] = n + 1 /\ IsSeq(placed) /\ Len(placed) = 1 /\ Range(placed) = {n + 1}
      /\ DOMAIN placed = {1}
  BY ShortSeqs
<1>6. /\ bb[1] = n + 2 /\ bb[2] = n + 3 /\ IsSeq(bb) /\ Len(bb) = 2
      /\ Range(bb) = {n + 2, n + 3} /\ DOMAIN bb = {1, 2}
  BY ShortSeqs
<1>7. /\ IsSeq(blocks) /\ n \in Nat /\ ip \in DOMAIN blocks /\ DOMAIN blocks = 1..n
      /\ \A b \in DOMAIN blocks : IsSeq(blocks[b])
      /\ \A f \in DOMAIN layout : Range(layout[f]) \subseteq 1..n
  BY <1>1, CodeFacts DEF BuilderInv, Shape, Inserted
<1>8. /\ rest.node = Top.node /\ rest.will_enter_scope = Top.will_enter_scope
      /\ rest.at = "condition" /\ rest.i = Top.i /\ rest.todo = bb
      /\ rest.bb_condition = n + 1 /\ DOMAIN rest = DOMAIN Top
  BY <1>1, InnerScopes
<1> HIDE DEF jump, placed, bb, rest, n
<1> HIDE DEF Appending
<1>9. \A b \in DOMAIN Appending(jump) : IsSeq(Appending(jump)[b])
  BY <1>3, <1>4
<1>10. /\ Len(blocks') = n + 3
       /\ EndsInTerminator(blocks'[ip])
  <2>1. 3 \in Nat
    OBVIOUS
  <2>2. Len(blocks') = Len(blocks) + 3 /\ blocks'[ip] = blocks[ip] \o jump
    BY <2>1, <1>2, <1>3, <1>7, BuiltAtPoint, ZenonT(60)
  <2>3. QED
    BY <2>2, <1>3, <1>7, TerminatorAppended DEF n
<1>11. /\ DOMAIN Appending(jump) \subseteq {ip} \cup (Len(blocks) + 1 .. Len(blocks) + 3)
       /\ Range(placed) \subseteq 1..Len(blocks) + 3
       /\ \A i, j \in DOMAIN placed : placed[i] = placed[j] => i = j
       /\ \A f \in DOMAIN layout : Range(placed) \cap Range(layout[f]) = {}
       /\ placed # <<>> => EndsInTerminator(blocks'[ip])
       /\ \A i \in 1..Len(placed) - 1 : EndsInTerminator(blocks'[placed[i]])
       /\ 3 \in Nat
  BY <1>4, <1>5, <1>7, <1>10 DEF n
<1>12. CodeGrows(Range(placed))
  BY <1>1, <1>2, <1>5, <1>9, <1>11, BuildKeeps
<1>13. /\ CodeGrows({n + 1}) /\ {n + 1} \subseteq Range(Top.todo) \cup Created
       /\ Range(bb) \subseteq Range(Top.todo) \cup Created /\ Range(bb) \cap {n + 1} = {}
  BY <1>5, <1>6, <1>7, <1>10, <1>12 DEF Created, n
<1>14. /\ \A f \in DOMAIN layout' : Range(bb) \cap Range(layout'[f]) = {}
       /\ Range(bb) \subseteq 1..Len(blocks')
  BY <1>1, <1>13, StillHeld
<1>15. /\ n + 1 \in 0..Len(blocks') /\ Top.i \in Nat /\ DOMAIN Top = DOMAIN Frame(Nullptr)
       /\ \A i, j \in DOMAIN bb : bb[i] = bb[j] => i = j
  BY <1>1, <1>6, <1>7, <1>10, InnerScopes, FrameFields
<1>16. Holds(rest, layout', Len(blocks'))
  BY <1>1, <1>6, <1>8, <1>14, <1>15 DEF Holds
<1>17. Expressions \cap {"program", "fun_declaration"} = {} /\ ~Running("compound_stmt", "visit")
  BY <1>1 DEF Expressions, Running
<1>18. /\ rest.at # "visit" /\ Range(rest.todo) \subseteq Range(Top.todo) \cup Created
       /\ Top.node.node \notin {"program", "fun_declaration"}
  BY <1>1, <1>8, <1>13
<1>19. QED
  BY <1>1, <1>2, <1>8, <1>13, <1>16, <1>17, <1>18, VisitStep

\* A method that visits a child and keeps what it holds, and a method that
\* returns, after appending at most some instructions.
LEMMA AppendAndVisit ==
    ASSUME BuilderInv, Len(work) >= 3, CodeGrows({}), Settled,
           Top.node.node \notin {"program", "fun_declaration", "iteration_stmt", "compound_stmt"},
           NEW child, NEW kinds, NEW rest, Visit(child, kinds, rest),
           kinds \in {Expressions, OperandKinds, {"var"}},
           rest.node = Top.node, rest.will_enter_scope = Top.will_enter_scope,
           rest.at \notin {"visit", "condition"}, rest.i \in {Top.i, Top.i + 1},
           rest.todo = Top.todo, rest.bb_condition = Top.bb_condition,
           DOMAIN rest = DOMAIN Top
    PROVE  BuilderInv'
<1>1. kinds \cap {"program", "fun_declaration"} = {}
  BY DEF Expressions, OperandKinds, Factors
<1>2. rest.i \in Nat /\ ~Running("compound_stmt", "visit")
  BY InnerScopes DEF Running
<1>3. QED
  BY <1>1, <1>2, VisitStepPlain

\* A method that appends instructions and returns.
LEMMA AppendAndReturn ==
    ASSUME BuilderInv, Len(work) >= 3, CodeGrows({}), Settled, Return,
           Top.node.node # "compound_stmt"
    PROVE  BuilderInv'
<1>1. {} \subseteq Range(Top.todo) \cup Created
  OBVIOUS
<1>2. QED
  BY <1>1, ReturnStep

\* A return appends a terminator, or visits its value first.
LEMMA VisitReturnStmtKeeps == ASSUME BuilderInv, VisitReturnStmt PROVE BuilderInv'
<1> DEFINE rest == [Top EXCEPT !.at = "value"]
<1>1. /\ Len(work) >= 3 /\ InFunction /\ Settled /\ Top.node.node = "return_stmt"
  BY Inside DEF VisitReturnStmt
<1>2. CASE Emit(<<RetVoid>>) /\ Return
  BY <1>1, <1>2, ShortSeqs, EmitKeeps, AppendAndReturn
<1>3. CASE Visit(Top.node.expression, Expressions, rest) /\ UNCHANGED code
  <2>1. /\ rest.node = Top.node /\ rest.will_enter_scope = Top.will_enter_scope
        /\ rest.at = "value" /\ rest.i = Top.i /\ rest.todo = Top.todo
        /\ rest.bb_condition = Top.bb_condition /\ DOMAIN rest = DOMAIN Top
    BY <1>1, InnerScopes
  <2> HIDE DEF rest
  <2>2. CodeGrows({})
    BY <1>1, <1>3, UnchangedCode
  <2>3. QED
    BY <1>1, <1>3, <2>1, <2>2, AppendAndVisit
<1>4. QED
  BY <1>2, <1>3 DEF VisitReturnStmt

\* The value of a return is built and returned.
LEMMA ReturnValueKeeps == ASSUME BuilderInv, ReturnValue PROVE BuilderInv'
<1>1. /\ Len(work) >= 3 /\ InFunction /\ Settled /\ Top.node.node = "return_stmt"
  BY Inside DEF ReturnValue
<1>2. IsSeq(Append(Forced.ins, Ret(Forced.val)))
  BY ForcedFacts, AppendFacts
<1>3. CodeGrows({})
  BY <1>1, <1>2, EmitKeeps DEF ReturnValue
<1>4. QED
  BY <1>1, <1>3, AppendAndReturn DEF ReturnValue

\* A number builds nothing.
LEMMA VisitNumKeeps == ASSUME BuilderInv, VisitNum PROVE BuilderInv'
<1>1. /\ Len(work) >= 3 /\ InFunction /\ Settled /\ Top.node.node = "num" /\ CodeGrows({})
  BY Inside, UnchangedCode DEF VisitNum
<1>2. QED
  BY <1>1, AppendAndReturn DEF VisitNum

\* A variable without an index builds nothing.
LEMMA VisitVarKeeps == ASSUME BuilderInv, VisitVar PROVE BuilderInv'
<1>1. /\ Len(work) >= 3 /\ InFunction /\ Settled /\ Top.node.node = "var" /\ CodeGrows({})
  BY Inside, UnchangedCode DEF VisitVar
<1>2. QED
  BY <1>1, AppendAndReturn DEF VisitVar

\* The index of an element is visited.
LEMMA VisitElementKeeps == ASSUME BuilderInv, VisitElement PROVE BuilderInv'
<1> DEFINE rest == [Top EXCEPT !.at = "index", !.vals = <<Find(scope, Top.node.id)>>]
<1>1. /\ Len(work) >= 3 /\ InFunction /\ Settled /\ Top.node.node = "var" /\ CodeGrows({})
      /\ Visit(Top.node.expression, Expressions, rest)
  BY Inside, UnchangedCode DEF VisitElement
<1>2. /\ rest.node = Top.node /\ rest.will_enter_scope = Top.will_enter_scope
      /\ rest.at = "index" /\ rest.i = Top.i /\ rest.todo = Top.todo
      /\ rest.bb_condition = Top.bb_condition /\ DOMAIN rest = DOMAIN Top
  BY <1>1, InnerScopes
<1> HIDE DEF rest
<1>3. QED
  BY <1>1, <1>2, AppendAndVisit

\* The target of an assignment is visited.
LEMMA VisitAssignExpressionKeeps == ASSUME BuilderInv, VisitAssignExpression PROVE BuilderInv'
<1> DEFINE rest == [Top EXCEPT !.at = "var"]
<1>1. /\ Len(work) >= 3 /\ InFunction /\ Settled /\ Top.node.node = "assign_expression"
      /\ CodeGrows({}) /\ Visit(Top.node.var, {"var"}, rest)
  BY Inside, UnchangedCode DEF VisitAssignExpression
<1>2. /\ rest.node = Top.node /\ rest.will_enter_scope = Top.will_enter_scope
      /\ rest.at = "var" /\ rest.i = Top.i /\ rest.todo = Top.todo
      /\ rest.bb_condition = Top.bb_condition /\ DOMAIN rest = DOMAIN Top
  BY <1>1, InnerScopes
<1> HIDE DEF rest
<1>3. QED
  BY <1>1, <1>2, AppendAndVisit

\* The value of an assignment is visited.
LEMMA AssignExpressionVarKeeps == ASSUME BuilderInv, AssignExpressionVar PROVE BuilderInv'
<1> DEFINE rest == [Top EXCEPT !.at = "value", !.vals = currentPointer.args]
<1>1. /\ Len(work) >= 3 /\ InFunction /\ Settled /\ Top.node.node = "assign_expression"
      /\ CodeGrows({}) /\ Visit(Top.node.expression, Expressions, rest)
  BY Inside, UnchangedCode DEF AssignExpressionVar
<1>2. /\ rest.node = Top.node /\ rest.will_enter_scope = Top.will_enter_scope
      /\ rest.at = "value" /\ rest.i = Top.i /\ rest.todo = Top.todo
      /\ rest.bb_condition = Top.bb_condition /\ DOMAIN rest = DOMAIN Top
  BY <1>1, InnerScopes
<1> HIDE DEF rest
<1>3. QED
  BY <1>1, <1>2, AppendAndVisit

\* The value of an assignment is built and stored.
LEMMA AssignExpressionValueKeeps == ASSUME BuilderInv, AssignExpressionValue PROVE BuilderInv'
<1>1. /\ Len(work) >= 3 /\ InFunction /\ Settled /\ Top.node.node = "assign_expression"
  BY Inside DEF AssignExpressionValue
<1>2. IsSeq(Append(Forced.ins, Store(Forced.val, Top.vals[1])))
  BY ForcedFacts, AppendFacts
<1>3. CodeGrows({})
  BY <1>1, <1>2, EmitKeeps DEF AssignExpressionValue
<1>4. QED
  BY <1>1, <1>3, AppendAndReturn DEF AssignExpressionValue

\* An operator is visited inside a function.
LEMMA OperatorInside ==
    ASSUME BuilderInv, NEW at, \E kind \in Operators : Running(kind, at),
           UNCHANGED <<scope, module, current>>
    PROVE  Len(work) >= 3 /\ InFunction /\ Settled /\ Top.node.node \in Operators /\ Top.at = at
<1>1. PICK kind \in Operators : Running(kind, at)
  OBVIOUS
<1>2. kind \notin {"program", "fun_declaration", "var_declaration"}
  BY <1>1 DEF Operators
<1>3. QED
  BY <1>1, <1>2, Inside

\* The first operand is visited, in the operator's place if it is the only one.
LEMMA VisitOperatorKeeps == ASSUME BuilderInv, VisitOperator PROVE BuilderInv'
<1> DEFINE rest == [Top EXCEPT !.at = "left"]
           child == Operands(Top.node)[1]
<1>1. /\ Len(work) >= 3 /\ InFunction /\ Settled /\ Top.node.node \in Operators
      /\ CodeGrows({})
  BY OperatorInside, UnchangedCode DEF VisitOperator
<1>2. TailVisit(child, OperandKinds) \/ Visit(child, OperandKinds, rest)
  BY DEF VisitOperator
<1>3. OperandKinds \cap {"program", "fun_declaration"} = {}
  BY DEF OperandKinds, Factors, Expressions
<1>4. /\ rest.node = Top.node /\ rest.will_enter_scope = Top.will_enter_scope
      /\ rest.at = "left" /\ rest.i = Top.i /\ rest.todo = Top.todo
      /\ rest.bb_condition = Top.bb_condition /\ DOMAIN rest = DOMAIN Top
  BY <1>1, InnerScopes
<1>5. Top.node.node \notin {"program", "fun_declaration", "iteration_stmt", "compound_stmt"}
  BY <1>1 DEF Operators
<1> HIDE DEF rest, child
<1>6. QED
  BY <1>1, <1>2, <1>3, <1>4, <1>5, AppendAndVisit, TailVisitStep

\* The left operand is built, and the right one visited.
LEMMA OperatorLeftKeeps == ASSUME BuilderInv, OperatorLeft PROVE BuilderInv'
<1> DEFINE rest == [Top EXCEPT !.at = "right", !.vals = <<Forced.val>>]
           child == Operands(Top.node)[2]
<1>1. /\ Len(work) >= 3 /\ InFunction /\ Settled /\ Top.node.node \in Operators
  BY OperatorInside DEF OperatorLeft
<1>2. CodeGrows({}) /\ Visit(child, OperandKinds, rest)
  BY <1>1, ForcedFacts, EmitKeeps DEF OperatorLeft
<1>3. /\ rest.node = Top.node /\ rest.will_enter_scope = Top.will_enter_scope
      /\ rest.at = "right" /\ rest.i = Top.i /\ rest.todo = Top.todo
      /\ rest.bb_condition = Top.bb_condition /\ DOMAIN rest = DOMAIN Top
  BY <1>1, InnerScopes
<1>4. Top.node.node \notin {"program", "fun_declaration", "iteration_stmt", "compound_stmt"}
  BY <1>1 DEF Operators
<1> HIDE DEF rest, child
<1>5. QED
  BY <1>1, <1>2, <1>3, <1>4, AppendAndVisit

\* The right operand is built, and a comparison with it.
LEMMA OperatorRightKeeps == ASSUME BuilderInv, OperatorRight PROVE BuilderInv'
<1> DEFINE compare == Append(Forced.ins, ICmp(Top.node.op, Top.vals[1], Forced.val))
<1>1. /\ Len(work) >= 3 /\ InFunction /\ Settled /\ Top.node.node \in Operators
  BY OperatorInside DEF OperatorRight
<1>2. (Emit(compare) \/ Emit(Forced.ins)) /\ Return
  BY DEF OperatorRight
<1>3. IsSeq(compare)
  BY ForcedFacts, AppendFacts
<1>4. CodeGrows({})
  BY <1>1, <1>2, <1>3, ForcedFacts, EmitKeeps
<1>5. Top.node.node # "compound_stmt"
  BY <1>1 DEF Operators
<1>6. QED
  BY <1>1, <1>2, <1>4, <1>5, AppendAndReturn

\* A call is appended and its method returns.
LEMMA EmitCallKeeps ==
    ASSUME BuilderInv, Len(work) >= 3, InFunction, Settled, Top.node.node = "call",
           NEW ins, IsSeq(ins), NEW args, EmitCall(ins, args)
    PROVE  BuilderInv'
<1>1. IsSeq(Append(ins, Call(Find(scope, Top.node.id), args)))
  BY AppendFacts
<1>2. CodeGrows({}) /\ Return
  BY <1>1, EmitKeeps DEF EmitCall
<1>3. QED
  BY <1>2, AppendAndReturn

\* The first argument is visited, or the call appended if there is none.
LEMMA VisitCallKeeps == ASSUME BuilderInv, VisitCall PROVE BuilderInv'
<1> DEFINE rest == [Top EXCEPT !.i = @ + 1, !.at = "args"]
           child == Top.node.args[Top.i + 1]
<1>1. /\ Len(work) >= 3 /\ InFunction /\ Settled /\ Top.node.node = "call"
  BY Inside DEF VisitCall
<1>2. CASE EmitCall(<<>>, <<>>)
  BY <1>1, <1>2, ShortSeqs, EmitCallKeeps
<1>3. CASE NextArgument(Top) /\ UNCHANGED <<code, currentExpression>>
  <2>1. CodeGrows({}) /\ Visit(child, Expressions, rest)
    BY <1>1, <1>3, UnchangedCode DEF NextArgument
  <2>2. /\ rest.node = Top.node /\ rest.will_enter_scope = Top.will_enter_scope
        /\ rest.at = "args" /\ rest.i = Top.i + 1 /\ rest.todo = Top.todo
        /\ rest.bb_condition = Top.bb_condition /\ DOMAIN rest = DOMAIN Top
    BY <1>1, InnerScopes
  <2> HIDE DEF rest, child
  <2>3. QED
    BY <1>1, <2>1, <2>2, AppendAndVisit
<1>4. QED
  BY <1>2, <1>3 DEF VisitCall

\* An argument is built; the next is visited, or the call appended.
LEMMA CallArgumentKeeps == ASSUME BuilderInv, CallArgument PROVE BuilderInv'
<1>1. /\ Len(work) >= 3 /\ InFunction /\ Settled /\ Top.node.node = "call"
  BY Inside DEF CallArgument
<1> DEFINE decay == Append(Forced.ins, Element(Forced.val, Const(0)))
           array == Forced.val.ty = "arr*"
           ins == IF array THEN decay ELSE Forced.ins
           arg_list == Append(Top.vals, IF array THEN Here(decay) ELSE Forced.val)
<1>2. \/ EmitCall(ins, arg_list)
      \/ NextArgument([Top EXCEPT !.vals = arg_list]) /\ Emit(ins)
  BY DEF CallArgument
<1>3. IsSeq(ins)
  <2>1. IsSeq(decay) /\ IsSeq(Forced.ins)
    BY ForcedFacts, AppendFacts
  <2> HIDE DEF decay
  <2>2. QED
    BY <2>1
<1> HIDE DEF ins, arg_list, decay, array
<1>4. CASE EmitCall(ins, arg_list)
  BY <1>1, <1>3, <1>4, EmitCallKeeps
<1>5. CASE NextArgument([Top EXCEPT !.vals = arg_list]) /\ Emit(ins)
  <2> DEFINE frame == [Top EXCEPT !.vals = arg_list]
             rest == [frame EXCEPT !.i = @ + 1, !.at = "args"]
             child == frame.node.args[frame.i + 1]
  <2>1. CodeGrows({}) /\ Visit(child, Expressions, rest)
    BY <1>1, <1>3, <1>5, EmitKeeps DEF NextArgument
  <2>2. /\ rest.node = Top.node /\ rest.will_enter_scope = Top.will_enter_scope
        /\ rest.at = "args" /\ rest.i = Top.i + 1 /\ rest.todo = Top.todo
        /\ rest.bb_condition = Top.bb_condition /\ DOMAIN rest = DOMAIN Top
    BY <1>1, InnerScopes
  <2> HIDE DEF frame, rest, child
  <2>3. QED
    BY <1>1, <2>1, <2>2, AppendAndVisit
<1>6. QED
  BY <1>2, <1>4, <1>5

\* A parameter gets its slot.
LEMMA VisitParamKeeps == ASSUME BuilderInv, VisitParam PROVE BuilderInv'
<1> DEFINE slot == <<Alloca(IF Top.node.isarray THEN "i32**" ELSE "i32*")>>
           ins == Append(slot, Store(currentParameter, Here(slot)))
<1>1. Len(work) >= 3 /\ InFunction /\ Top.node.node = "param"
  BY InnerFacts, WorkFacts DEF VisitParam, Running
<1>2. Emit(ins) /\ Return /\ scope' = Push(scope, Top.node.id, Here(slot))
      /\ UNCHANGED <<functions, current>>
  BY DEF VisitParam, module
<1>3. IsSeq(ins)
  BY ShortSeqs, AppendFacts
<1> HIDE DEF slot, ins
<1>4. Settled /\ CodeGrows({})
  BY <1>1, <1>2, <1>3, SettledPush, EmitKeeps
<1>5. QED
  BY <1>1, <1>2, <1>4, AppendAndReturn

\* A variable is local exactly when its declaration is visited in a function.
LEMMA ScopesTellFunctions ==
    ASSUME BuilderInv, Running("var_declaration", "visit")
    PROVE  /\ ~InGlobal(scope) => Len(work) >= 3 /\ InFunction
           /\ InGlobal(scope) => Len(work) = 2 /\ ~InFunction
<1>1. IsSeq(work) /\ Len(work) \in Nat /\ Len(work) >= 1 /\ Top = work[Len(work)]
      /\ Top.node.node = "var_declaration"
  BY SeqFacts DEF BuilderInv, Walk, Top, Last, Running
<1>2. Len(work) # 1
  BY <1>1 DEF BuilderInv, Walk
<1>3. \A n \in Nat : n >= 1 /\ n # 1 => n = 2 \/ n >= 3
  OBVIOUS
<1>4. Len(work) = 2 => ~InFunction
  BY <1>1 DEF InFunction
<1>5. Len(work) >= 3 => InFunction
  BY DEF BuilderInv, Walk
<1>6. InFunction <=> ~InGlobal(scope)
  BY DEF BuilderInv, Scoping, InGlobal
<1>7. QED
  BY <1>1, <1>2, <1>3, <1>4, <1>5, <1>6

\* A local variable gets its slot.
LEMMA VisitLocalVarDeclarationKeeps ==
    ASSUME BuilderInv, VisitLocalVarDeclaration PROVE BuilderInv'
<1> DEFINE d == Top.node
           alloca == <<IF d.num = Nullptr THEN Alloca("i32*") ELSE AllocaArray(d.num.value)>>
<1>1. Len(work) >= 3 /\ InFunction /\ Top.node.node = "var_declaration"
  BY ScopesTellFunctions DEF VisitLocalVarDeclaration, Running
<1>2. Emit(alloca) /\ Return /\ scope' = Push(scope, d.id, Here(alloca))
      /\ UNCHANGED <<functions, current>>
  BY DEF VisitLocalVarDeclaration, module
<1>3. IsSeq(alloca)
  BY ShortSeqs
<1> HIDE DEF alloca, d
<1>4. Settled /\ CodeGrows({})
  BY <1>1, <1>2, <1>3, SettledPush, EmitKeeps
<1>5. QED
  BY <1>1, <1>2, <1>4, AppendAndReturn

\* The check of an index leaves both of its blocks, and the one before them,
\* behind the builder, terminated.
LEMMA ElementIndexKeeps == ASSUME BuilderInv, ElementIndex PROVE BuilderInv'
<1> DEFINE n == Len(blocks)
           array == Top.vals[1]
           check == CheckIndex(n + 1, n + 2)
           underflow == <<Call(Find(scope, "neg_idx_except"), <<>>), Br(n + 2)>>
           base == Value("inst", <<n + 2, 1>>, PointeeOf[array.ty])
           element == IF array.ty = "arr*" THEN <<Element(array, Forced.val)>>
                      ELSE <<Load(array), Element(base, Forced.val)>>
           added == [b \in {ip, n + 1, n + 2} |->
                       IF b = ip THEN check ELSE IF b = n + 2 THEN element ELSE underflow]
           placed == <<n + 1, n + 2>>
<1>1. /\ Len(work) >= 3 /\ InFunction /\ Settled /\ Top.node.node = "var"
  BY Inside DEF ElementIndex
<1>2. Build(currentFunction, 2, added, placed) /\ Return
  BY DEF ElementIndex, Fresh
<1>3. IsSeq(check) /\ EndsInTerminator(check)
  <2>1. IsSeq(IndexCompare)
    BY ForcedFacts, AppendFacts DEF IndexCompare
  <2>2. QED
    BY <2>1, AppendedTerminator, BranchingOps DEF CheckIndex
<1>4. IsSeq(element) /\ IsSeq(underflow) /\ EndsInTerminator(underflow)
  <2>1. underflow # <<>> /\ Last(underflow) = Br(n + 2)
    BY DEF Last
  <2>2. IsSeq(element) /\ IsSeq(underflow)
    BY ShortSeqs
  <2> HIDE DEF underflow
  <2>3. QED
    BY <2>1, <2>2, BranchingOps DEF EndsInTerminator
<1>5. /\ placed[1] = n + 1 /\ placed[2] = n + 2 /\ IsSeq(placed) /\ Len(placed) = 2
      /\ Range(placed) = {n + 1, n + 2} /\ DOMAIN placed = {1, 2}
  BY ShortSeqs
<1>6. /\ IsSeq(blocks) /\ n \in Nat /\ ip \in DOMAIN blocks /\ DOMAIN blocks = 1..n
      /\ \A b \in DOMAIN blocks : IsSeq(blocks[b])
      /\ \A f \in DOMAIN layout : Range(layout[f]) \subseteq 1..n
  BY <1>1, CodeFacts DEF BuilderInv, Shape, Inserted
<1> HIDE DEF check, underflow, base, element, placed
<1>7. /\ DOMAIN added = {ip, n + 1, n + 2} /\ added[ip] = check /\ added[n + 1] = underflow
      /\ \A b \in DOMAIN added : IsSeq(added[b])
  BY <1>3, <1>4, <1>6
<1> HIDE DEF added, n
<1>8. /\ Len(blocks') = n + 2 /\ EndsInTerminator(blocks'[ip])
      /\ EndsInTerminator(blocks'[n + 1])
  <2>1. /\ Len(blocks') = n + 2
        /\ \A b \in DOMAIN blocks \cap DOMAIN added : blocks'[b] = blocks[b] \o added[b]
        /\ \A b \in 1..Len(blocks') : b > n /\ b \in DOMAIN added => blocks'[b] = added[b]
    <3>1. /\ IsSeq(blocks) /\ \A b \in DOMAIN blocks : IsSeq(blocks[b])
          /\ \A b \in DOMAIN added : IsSeq(added[b])
          /\ Build(currentFunction, 2, added, placed) /\ 2 \in Nat
      BY <1>2, <1>6, <1>7
    <3>2. /\ Len(blocks') = Len(blocks) + 2
          /\ \A b \in DOMAIN blocks \cap DOMAIN added : blocks'[b] = blocks[b] \o added[b]
          /\ \A b \in 1..Len(blocks') :
                b > Len(blocks) /\ b \in DOMAIN added => blocks'[b] = added[b]
      BY <3>1, BuiltBlocks, Zenon
    <3>3. QED
      BY <3>2 DEF n
  <2>2. blocks'[ip] = blocks[ip] \o check
    BY <2>1, <1>6, <1>7
  <2>3. blocks'[n + 1] = underflow
    BY <2>1, <1>6, <1>7
  <2>4. QED
    BY <2>1, <2>2, <2>3, <1>3, <1>4, <1>6, TerminatorAppended
<1>9. /\ DOMAIN added \subseteq {ip} \cup (Len(blocks) + 1 .. Len(blocks) + 2)
      /\ Range(placed) \subseteq 1..Len(blocks) + 2
      /\ \A i, j \in DOMAIN placed : placed[i] = placed[j] => i = j
      /\ \A f \in DOMAIN layout : Range(placed) \cap Range(layout[f]) = {}
      /\ \A i \in 1..Len(placed) - 1 : EndsInTerminator(blocks'[placed[i]])
      /\ 2 \in Nat
  BY <1>5, <1>6, <1>7, <1>8 DEF n
<1>10. CodeGrows(Range(placed))
  BY <1>1, <1>2, <1>5, <1>7, <1>8, <1>9, BuildKeeps
<1>11. Range(placed) \subseteq Range(Top.todo) \cup Created
  BY <1>5, <1>6, <1>8 DEF Created, n
<1>12. QED
  BY <1>1, <1>2, <1>10, <1>11, ReturnStep

\* A block opens a scope exactly when it is the body of a function.
LEMMA VisitCompoundStmtKeeps == ASSUME BuilderInv, VisitCompoundStmt PROVE BuilderInv'
<1> DEFINE flag == isFunctionTopCompoundStatement
           rest == [Top EXCEPT !.at = "items", !.will_enter_scope = flag]
           tail == <<rest>>
<1>1. /\ Len(work) >= 3 /\ InFunction /\ Top.node.node = "compound_stmt" /\ Top.at = "visit"
  BY InnerFacts, WorkFacts DEF VisitCompoundStmt, Running
<1>2. CodeGrows({}) /\ {} \subseteq Range(Top.todo) \cup Created
  BY <1>1, UnchangedCode DEF VisitCompoundStmt
<1>3. /\ rest.node = Top.node /\ rest.will_enter_scope = flag /\ rest.at = "items"
      /\ rest.i = Top.i /\ rest.todo = Top.todo /\ rest.bb_condition = Top.bb_condition
      /\ DOMAIN rest = DOMAIN Top
  BY <1>1, InnerScopes
<1>4. Holds(Top, layout, Len(blocks)) /\ layout' = layout /\ blocks' = blocks
  BY <1>1, InnerScopes DEF VisitCompoundStmt, code
<1>5. work' = Append(Callers, rest)
  BY DEF VisitCompoundStmt
<1> HIDE DEF rest
<1>6. tail[1] = rest /\ IsSeq(tail) /\ Len(tail) = 1 /\ tail # <<>>
  BY ShortSeqs
<1>7. work' = Callers \o tail
  BY <1>1, <1>5, WorkFacts, AppendConcat
<1> HIDE DEF tail
<1>8. Holds(rest, layout', Len(blocks'))
  BY <1>1, <1>3, <1>4 DEF Holds
<1>9. /\ flag \in BOOLEAN /\ (flag => Len(work) = 3)
      /\ Len(work) \in Nat /\ IsSeq(scope) /\ Len(scope) \in Nat
  BY <1>1, WorkFacts, SeqFacts DEF BuilderInv, Scoping
<1>10. \A d \in 1..Len(tail) :
              /\ tail[d].node.node \notin {"program", "fun_declaration"}
              /\ tail[d].will_enter_scope \in BOOLEAN
              /\ tail[d].will_enter_scope =>
                    /\ d = 1 /\ Len(work) = 3 /\ tail[d].at # "visit"
                    /\ tail[d].node.node = "compound_stmt"
              /\ Holds(tail[d], layout', Len(blocks'))
              /\ Range(tail[d].todo) \subseteq Range(Top.todo) \cup Created
              /\ d = 2 => tail[d].todo = <<>>
  <2>1. \A d \in 1..Len(tail) : d = 1
    BY <1>6
  <2>2. QED
    BY <2>1, <1>1, <1>3, <1>6, <1>8, <1>9
<1>11. Len(scope) = IF Len(work) > 3 THEN Len(scope) ELSE 2
  BY <1>1, InnerScopes
<1>12. /\ IsSeq(scope')
       /\ Len(scope') = IF Len(work) > 3 THEN Len(scope)
                        ELSE IF tail # <<>> /\ tail[1].will_enter_scope THEN 3 ELSE 2
  <2>1. CASE flag
    <3>1. scope' = Append(scope, [n \in {} |-> {}])
      BY <2>1 DEF VisitCompoundStmt, Enter
    <3>2. IsSeq(scope') /\ Len(scope') = Len(scope) + 1
      BY <3>1, <1>9, AppendFacts
    <3>3. Len(work) = 3 /\ Len(scope) = 2
      <4>1. Len(work) = 3
        BY <2>1, <1>9
      <4>2. ~(Len(work) > 3)
        BY <4>1
      <4>3. QED
        BY <4>1, <4>2, <1>11
    <3>4. tail # <<>> /\ tail[1].will_enter_scope /\ ~(Len(work) > 3) /\ Len(scope') = 3
      <4>1. Len(scope') = 3
        BY <3>2, <3>3
      <4>2. ~(Len(work) > 3)
        BY <3>3
      <4>3. tail # <<>> /\ tail[1].will_enter_scope
        BY <2>1, <1>3, <1>6, Zenon
      <4>4. QED
        BY <4>1, <4>2, <4>3
    <3>5. QED
      BY <3>2, <3>4
  <2>2. CASE ~flag
    <3>1. scope' = scope
      BY <2>2 DEF VisitCompoundStmt
    <3>2. QED
      BY <2>2, <3>1, <1>3, <1>6, <1>9, <1>11
  <2>3. QED
    BY <2>1, <2>2
<1>13. /\ functions' = functions /\ currentFunction' = currentFunction
       /\ isFunctionTopCompoundStatement' = FALSE
  BY DEF VisitCompoundStmt, module
<1>14. Len(tail) <= 2
  BY <1>6
<1>15. QED
  BY <1>1, <1>2, <1>6, <1>7, <1>10, <1>12, <1>13, <1>14, InnerStep

\* A block leaves the scope it entered, if it entered one.
LEMMA CompoundEndKeeps == ASSUME BuilderInv, CompoundEnd PROVE BuilderInv'
<1> DEFINE tail == <<>>
<1>1. /\ Len(work) >= 3 /\ InFunction /\ Top.node.node = "compound_stmt" /\ Top.at = "items"
  BY InnerFacts, WorkFacts DEF CompoundEnd, Running
<1>2. CodeGrows({}) /\ {} \subseteq Range(Top.todo) \cup Created
  BY <1>1, UnchangedCode DEF CompoundEnd
<1>3. tail = <<>> /\ IsSeq(tail) /\ Len(tail) = 0 /\ 1..Len(tail) = {} /\ Len(tail) <= 2
  BY ShortSeqs
<1>4. work' = Callers \o tail
  BY <1>1, WorkFacts, ConcatEmpty DEF CompoundEnd, Return
<1> HIDE DEF tail
<1>5. /\ Top.will_enter_scope \in BOOLEAN /\ (Top.will_enter_scope => Len(work) = 3)
      /\ Len(scope) = IF Len(work) > 3 THEN Len(scope)
                      ELSE IF Top.will_enter_scope THEN 3 ELSE 2
      /\ isFunctionTopCompoundStatement = FALSE
  BY <1>1, InnerScopes DEF Running
<1>6. IsSeq(scope) /\ Len(scope) \in Nat /\ Len(work) \in Nat
  BY <1>1, WorkFacts, SeqFacts DEF BuilderInv, Scoping
<1>7. IsSeq(scope') /\ Len(scope') = IF Len(work) > 3 THEN Len(scope) ELSE 2
  <2>1. CASE Top.will_enter_scope
    <3>1. Len(work) = 3 /\ Len(scope) = 3 /\ scope # <<>>
      <4>1. Len(work) = 3
        BY <2>1, <1>5
      <4>2. ~(Len(work) > 3)
        BY <4>1
      <4>3. Len(scope) = 3
        BY <2>1, <4>2, <1>5
      <4>4. QED
        BY <4>1, <4>3, <1>6, SeqFacts
    <3>2. scope' = Front(scope)
      BY <2>1 DEF CompoundEnd, Exit
    <3>3. IsSeq(scope') /\ Len(scope') = Len(scope) - 1
      BY <3>1, <3>2, <1>6, FrontFacts
    <3>4. QED
      BY <3>1, <3>3
  <2>2. CASE ~Top.will_enter_scope
    <3>1. scope' = scope
      BY <2>2 DEF CompoundEnd
    <3>2. QED
      BY <2>2, <3>1, <1>5, <1>6
  <2>3. QED
    BY <2>1, <2>2
<1>8. /\ functions' = functions /\ currentFunction' = currentFunction
      /\ isFunctionTopCompoundStatement' = FALSE
  BY <1>5 DEF CompoundEnd, module, current
<1>9. Len(scope') = IF Len(work) > 3 THEN Len(scope)
                    ELSE IF tail # <<>> /\ tail[1].will_enter_scope THEN 3 ELSE 2
  BY <1>3, <1>7
<1>10. QED
  BY <1>1, <1>2, <1>3, <1>4, <1>7, <1>8, <1>9, InnerStep

-----------------------------------------------------------------------------
(* The actions of the program and of its declarations.                     *)

\* Where a frame of a kind that only occurs at the bottom is.
LEMMA OuterFacts ==
    ASSUME BuilderInv, work # <<>>
    PROVE  /\ IsSeq(work) /\ Len(work) \in Nat /\ Len(work) >= 1 /\ DOMAIN work = 1..Len(work)
           /\ Top = work[Len(work)] /\ work[1].node.node = "program"
           /\ IsSeq(Callers) /\ Len(Callers) = Len(work) - 1
           /\ \A d \in 1..Len(work) - 1 : Callers[d] = work[d]
           /\ Top.node.node = "program" => Len(work) = 1
           /\ Top.node.node = "fun_declaration" => Len(work) = 2
           /\ DOMAIN Top = {"at", "node", "i", "vals", "todo", "bb_condition",
                            "will_enter_scope"}
           /\ Holds(Top, layout, Len(blocks)) /\ Top.i \in Nat
           /\ Len(work) <= 2 => Top.will_enter_scope = FALSE
           /\ Len(work) <= 2 => isFunctionTopCompoundStatement = FALSE
<1>1. /\ IsSeq(work) /\ Len(work) \in Nat /\ Len(work) >= 1 /\ DOMAIN work = 1..Len(work)
      /\ work[1].node.node = "program"
  BY SeqFacts DEF BuilderInv, Walk
<1>2. Top = work[Len(work)] /\ Len(work) \in DOMAIN work
  BY <1>1 DEF Top, Last
<1>3. /\ IsSeq(Callers) /\ Len(Callers) = Len(work) - 1
      /\ \A d \in 1..Len(work) - 1 : Callers[d] = work[d]
  BY <1>1, FrontFacts DEF Callers
<1>4. Len(work) >= 3 => Top.node.node \notin {"program", "fun_declaration"}
  BY <1>1, <1>2 DEF BuilderInv, Walk
<1>5. Len(work) = 2 => Top.node.node # "program"
  BY <1>2 DEF BuilderInv, Walk, Declarations
<1>6. Len(work) = 1 \/ Len(work) = 2 \/ Len(work) >= 3
  <2>1. \A n \in Nat : n >= 1 => n = 1 \/ n = 2 \/ n >= 3
    OBVIOUS
  <2>2. QED
    BY <1>1, <2>1
<1>7. Holds(Top, layout, Len(blocks))
  BY <1>2 DEF BuilderInv, Held
<1>8. /\ Top.i \in Nat
      /\ DOMAIN Top = {"at", "node", "i", "vals", "todo", "bb_condition",
                       "will_enter_scope"}
  BY <1>7, FrameFields DEF Holds
<1>9. Len(work) <= 2 => Top.will_enter_scope = FALSE
                        /\ isFunctionTopCompoundStatement = FALSE
  <2>1. /\ Top.will_enter_scope \in BOOLEAN /\ isFunctionTopCompoundStatement \in BOOLEAN
        /\ Top.will_enter_scope => Len(work) = 3
        /\ isFunctionTopCompoundStatement => Len(work) = 3
    BY <1>2 DEF BuilderInv, Scoping
  <2>2. Len(work) <= 2 => Len(work) # 3
    <3>1. \A n \in Nat : n <= 2 => n # 3
      OBVIOUS
    <3>2. QED
      BY <3>1, <1>1
  <2>3. QED
    BY <2>1, <2>2
<1>10. /\ Top.node.node = "program" => Len(work) = 1
       /\ Top.node.node = "fun_declaration" => Len(work) = 2
  BY <1>1, <1>2, <1>4, <1>5, <1>6
<1>11. QED
  BY <1>1, <1>2, <1>3, <1>7, <1>8, <1>9, <1>10

\* A step between functions that touches no function and no block.
LEMMA OuterStep ==
    ASSUME BuilderInv, ~InFunction, isFunctionTopCompoundStatement = FALSE,
           UNCHANGED <<functions, code, current>>,
           IsSeq(scope'), Len(scope') = Len(scope),
           IsSeq(work'), Len(work') <= 2,
           work' # <<>> => work'[1].node.node = "program",
           Len(work') >= 2 => work'[2].node.node \in Declarations /\ work'[2].at = "visit",
           \A d \in DOMAIN work' : Holds(work'[d], layout, Len(blocks))
                                   /\ work'[d].will_enter_scope = FALSE,
           \A d, e \in DOMAIN work' :
              d # e => Range(work'[d].todo) \cap Range(work'[e].todo) = {}
    PROVE  BuilderInv'
<1>1. /\ functions' = functions /\ layout' = layout /\ blocks' = blocks /\ ip' = ip
      /\ currentFunction' = currentFunction /\ isFunctionTopCompoundStatement' = FALSE
  BY DEF code, current
<1>2. Len(work') \in Nat
  BY SeqFacts
<1>3. ~InFunction'
  BY DEF InFunction
<1>4. Walk'
  BY <1>2 DEF Walk
<1>5. Scoping'
  <2>1. Len(scope) = 1
    BY DEF BuilderInv, Scoping
  <2>2. QED
    BY <2>1, <1>1, <1>3 DEF Scoping
<1>6. Shape' /\ Once'
  BY <1>1 DEF BuilderInv, Shape, Once, Inserted
<1>7. currentFunction = 0
  BY DEF BuilderInv, Position
<1>8. Position'
  BY <1>1, <1>3, <1>7 DEF Position, InsertPointAtBack
<1>9. Held'
  BY <1>1 DEF Held
<1>10. WellFormedBlocks'
  BY <1>1 DEF BuilderInv, WellFormedBlocks
<1>11. QED
  BY <1>4, <1>5, <1>6, <1>8, <1>9, <1>10 DEF BuilderInv

\* The next declaration is visited, or the program is done.
LEMMA VisitProgramKeeps == ASSUME BuilderInv, VisitProgram PROVE BuilderInv'
<1> DEFINE rest == [Top EXCEPT !.i = @ + 1]
           child == Top.node.declarations[Top.i + 1]
<1>1. work # <<>> /\ Top.node.node = "program" /\ Top.at = "visit"
  BY DEF VisitProgram, Running
<1>2. Len(work) = 1 /\ isFunctionTopCompoundStatement = FALSE
      /\ Top.will_enter_scope = FALSE
  <2>1. Len(work) = 1
    BY <1>1, OuterFacts
  <2>2. Len(work) <= 2
    BY <2>1
  <2>3. QED
    BY <2>1, <2>2, <1>1, OuterFacts
<1>3. ~InFunction
  BY <1>2 DEF InFunction
<1>4. Callers = <<>>
  BY <1>1, <1>2, OuterFacts, SeqFacts
<1>5. UNCHANGED <<functions, code, current>> /\ IsSeq(scope') /\ Len(scope') = Len(scope)
  BY DEF VisitProgram, module, BuilderInv, Scoping
<1>6. CASE Return
  <2>1. work' = <<>>
    BY <1>4, <1>6 DEF Return
  <2>2. IsSeq(work') /\ Len(work') = 0 /\ DOMAIN work' = {}
    BY <2>1, ShortSeqs
  <2>3. Len(work') <= 2 /\ ~(Len(work') >= 2)
    BY <2>2
  <2>4. QED
    BY <2>1, <2>2, <2>3, <1>2, <1>3, <1>5, OuterStep
<1>7. CASE Visit(child, Declarations, rest)
  <2>1. /\ rest.node = Top.node /\ rest.will_enter_scope = Top.will_enter_scope
        /\ rest.at = Top.at /\ rest.i = Top.i + 1 /\ rest.todo = Top.todo
        /\ rest.bb_condition = Top.bb_condition /\ DOMAIN rest = DOMAIN Top
        /\ Top.i \in Nat /\ Holds(Top, layout, Len(blocks)) /\ Top.will_enter_scope = FALSE
    BY <1>1, <1>2, OuterFacts
  <2> HIDE DEF rest, child
  <2>2. Holds(rest, layout, Len(blocks))
    BY <2>1, <1>1 DEF Holds
  <2>3. Len(blocks) \in Nat
    BY SeqFacts DEF BuilderInv, Shape
  <2>4. /\ Frame(child).node = child /\ Frame(child).at = "visit"
        /\ Frame(child).will_enter_scope = FALSE /\ Frame(child).todo = <<>>
        /\ Holds(Frame(child), layout, Len(blocks)) /\ Range(<<>>) = {}
    BY <2>3, FreshFrame, ShortSeqs
  <2>5. work' = <<rest, Frame(child)>> /\ child.node \in Declarations
    BY <1>4, <1>7, ShortSeqs, ConcatEmpty DEF Visit
  <2>6. /\ IsSeq(work') /\ Len(work') = 2 /\ DOMAIN work' = {1, 2}
        /\ work'[1] = rest /\ work'[2] = Frame(child)
    BY <2>5, ShortSeqs
  <2>7. /\ Len(work') <= 2 /\ work'[1].node.node = "program"
        /\ work'[2].node.node \in Declarations /\ work'[2].at = "visit"
    BY <2>1, <2>4, <2>5, <2>6, <1>1
  <2>8. \A d \in DOMAIN work' : Holds(work'[d], layout, Len(blocks))
                                /\ work'[d].will_enter_scope = FALSE
    BY <2>1, <2>2, <2>4, <2>6
  <2>9. \A d, e \in DOMAIN work' :
              d # e => Range(work'[d].todo) \cap Range(work'[e].todo) = {}
    BY <2>4, <2>6
  <2>10. QED
    BY <2>6, <2>7, <2>8, <2>9, <1>2, <1>3, <1>5, OuterStep
<1>8. QED
  BY <1>6, <1>7 DEF VisitProgram

\* A global variable changes no code.
LEMMA VisitGlobalVarDeclarationKeeps ==
    ASSUME BuilderInv, VisitGlobalVarDeclaration PROVE BuilderInv'
<1>1. Len(work) = 2 /\ ~InFunction /\ work # <<>>
  BY ScopesTellFunctions DEF VisitGlobalVarDeclaration, Running
<1>2. /\ isFunctionTopCompoundStatement = FALSE /\ work[1].node.node = "program"
      /\ IsSeq(Callers) /\ Len(Callers) = 1 /\ Callers[1] = work[1] /\ 1 \in DOMAIN work
  BY <1>1, OuterFacts
<1>3. PICK name, val : scope' = Push(scope, name, val)
  BY DEF VisitGlobalVarDeclaration
<1>4. UNCHANGED <<functions, code, current>> /\ work' = Callers
  BY DEF VisitGlobalVarDeclaration, Return
<1>5. IsSeq(scope') /\ Len(scope') = Len(scope)
  BY <1>3, <1>4, SettledPush DEF Settled
<1>6. /\ IsSeq(work') /\ Len(work') = 1 /\ work'[1] = work[1] /\ DOMAIN work' = {1}
  <2>1. DOMAIN Callers = 1..1
    BY <1>2, SeqFacts
  <2>2. QED
    BY <1>2, <1>4, <2>1
<1>7. Holds(work[1], layout, Len(blocks)) /\ work[1].will_enter_scope = FALSE
  BY <1>2 DEF BuilderInv, Held, Scoping
<1>8. Len(work') <= 2 /\ ~(Len(work') >= 2)
  BY <1>6
<1>9. QED
  BY <1>1, <1>2, <1>4, <1>5, <1>6, <1>7, <1>8, OuterStep

\* A function is entered: it is the last one, and its entry block is new.
LEMMA VisitFunDeclarationKeeps == ASSUME BuilderInv, VisitFunDeclaration PROVE BuilderInv'
<1> DEFINE n == Len(blocks)
           F == Len(layout)
           rest == [Top EXCEPT !.at = "params"]
<1>1. work # <<>> /\ Top.node.node = "fun_declaration" /\ Top.at = "visit"
  BY DEF VisitFunDeclaration, Running
<1>2. /\ Len(work) = 2 /\ isFunctionTopCompoundStatement = FALSE
      /\ Top.will_enter_scope = FALSE
  <2>1. Len(work) = 2
    BY <1>1, OuterFacts
  <2>2. Len(work) <= 2
    BY <2>1
  <2>3. QED
    BY <2>1, <2>2, <1>1, OuterFacts
<1>3. /\ Top = work[2] /\ work[1].node.node = "program" /\ DOMAIN work = 1..2
      /\ IsSeq(Callers) /\ Len(Callers) = 1 /\ Callers[1] = work[1]
  BY <1>1, <1>2, OuterFacts
<1>4. ~InFunction /\ currentFunction = 0 /\ Len(scope) = 1 /\ IsSeq(scope)
  <2>1. ~InFunction
    BY <1>1, <1>3 DEF InFunction
  <2>2. QED
    BY <2>1 DEF BuilderInv, Position, Scoping
<1>5. /\ rest.node = Top.node /\ rest.will_enter_scope = FALSE /\ rest.at = "params"
      /\ rest.i = Top.i /\ rest.todo = Top.todo /\ rest.bb_condition = Top.bb_condition
      /\ DOMAIN rest = DOMAIN Top
  BY <1>1, <1>2, OuterFacts
<1>6. /\ IsSeq(functions) /\ IsSeq(layout) /\ IsSeq(blocks) /\ F \in Nat /\ n \in Nat
      /\ Len(functions) = F /\ DOMAIN layout = 1..F /\ DOMAIN blocks = 1..n
      /\ \A b \in 1..n : IsSeq(blocks[b])
      /\ \A f \in 1..F : IsSeq(layout[f]) /\ Range(layout[f]) \subseteq 1..n
  BY SeqFacts DEF BuilderInv, Shape, Inserted
<1>7. PICK function : functions' = Append(functions, function)
  BY DEF VisitFunDeclaration
<1>8. /\ work' = Append(Callers, rest) /\ currentFunction' = F + 1 /\ ip' = n + 1
      /\ layout' = Append(layout, <<n + 1>>) /\ blocks' = Append(blocks, <<>>)
      /\ isFunctionTopCompoundStatement' = FALSE
  BY <1>2, <1>6 DEF VisitFunDeclaration, Fresh
<1> HIDE DEF rest, n, F
<1>9. /\ IsSeq(work') /\ Len(work') = 2 /\ work'[1] = work[1] /\ work'[2] = rest
      /\ DOMAIN work' = 1..2 /\ work' # <<>>
  <2>1. /\ IsSeq(work') /\ Len(work') = 1 + 1 /\ work'[1] = work[1] /\ work'[1 + 1] = rest
    <3>1. /\ IsSeq(Append(Callers, rest)) /\ Len(Append(Callers, rest)) = Len(Callers) + 1
          /\ \A d \in 1..Len(Callers) : Append(Callers, rest)[d] = Callers[d]
          /\ Append(Callers, rest)[Len(Callers) + 1] = rest
      BY <1>3, AppendFacts
    <3>2. QED
      BY <3>1, <1>3, <1>8
  <2>2. QED
    BY <2>1, SeqFacts
<1>10. /\ IsSeq(functions') /\ Len(functions') = F + 1
       /\ IsSeq(layout') /\ Len(layout') = F + 1 /\ DOMAIN layout' = 1..F + 1
       /\ \A f \in 1..F : layout'[f] = layout[f]
       /\ layout'[F + 1] = <<n + 1>> /\ layout' # <<>>
       /\ IsSeq(blocks') /\ Len(blocks') = n + 1 /\ DOMAIN blocks' = 1..n + 1
       /\ \A b \in 1..n : blocks'[b] = blocks[b]
       /\ blocks'[n + 1] = <<>>
  <2>1. IsSeq(functions') /\ Len(functions') = F + 1
    BY <1>6, <1>7, AppendFacts
  <2>2. /\ IsSeq(layout') /\ Len(layout') = F + 1
        /\ \A f \in 1..F : layout'[f] = layout[f]
        /\ layout'[F + 1] = <<n + 1>>
    BY <1>6, <1>8, AppendFacts DEF F
  <2>3. /\ IsSeq(blocks') /\ Len(blocks') = n + 1
        /\ \A b \in 1..n : blocks'[b] = blocks[b]
        /\ blocks'[n + 1] = <<>>
    BY <1>6, <1>8, AppendFacts DEF n
  <2>4. DOMAIN layout' = 1..F + 1 /\ DOMAIN blocks' = 1..n + 1 /\ layout' # <<>>
    BY <2>2, <2>3, <1>6, SeqFacts
  <2>5. QED
    BY <2>1, <2>2, <2>3, <2>4
<1>11. /\ IsSeq(<<n + 1>>) /\ Len(<<n + 1>>) = 1 /\ Range(<<n + 1>>) = {n + 1}
       /\ <<n + 1>>[1] = n + 1 /\ DOMAIN <<n + 1>> = {1} /\ Last(<<n + 1>>) = n + 1
       /\ <<n + 1>> # <<>> /\ IsSeq(<<>>)
  BY ShortSeqs DEF Last
<1>12. \A f \in 1..F + 1 : f # F + 1 => f \in 1..F
  BY <1>6
<1>13. InFunction'
  BY <1>1, <1>5, <1>9 DEF InFunction
<1>14. Walk'
  BY <1>1, <1>3, <1>5, <1>9 DEF Walk, Declarations
<1>15. Scoping'
  <2>1. PICK name, val : scope' = Enter(Push(scope, name, val))
    BY DEF VisitFunDeclaration
  <2>2. IsSeq(Push(scope, name, val)) /\ Len(Push(scope, name, val)) = 1
    BY <1>4, PushFacts
  <2>3. IsSeq(scope') /\ Len(scope') = 1 + 1
    BY <2>1, <2>2, AppendFacts DEF Enter
  <2>4. work[1].will_enter_scope = FALSE
    BY <1>3 DEF BuilderInv, Scoping
  <2>5. \A d \in DOMAIN work' : work'[d].will_enter_scope = FALSE
    BY <2>4, <1>5, <1>9
  <2>6. ~(Len(work') >= 3) /\ Len(scope') = 2
    BY <1>9, <2>3
  <2>7. QED
    BY <2>3, <2>5, <2>6, <1>8, <1>13 DEF Scoping
<1>16. Shape'
  <2>1. ASSUME NEW f \in DOMAIN layout'
        PROVE  IsSeq(layout'[f]) /\ Range(layout'[f]) \subseteq DOMAIN blocks'
    <3>1. CASE f = F + 1
      BY <3>1, <1>6, <1>10, <1>11
    <3>2. CASE f # F + 1
      BY <3>2, <1>6, <1>10, <1>12
    <3>3. QED
      BY <3>1, <3>2
  <2>2. ASSUME NEW b \in DOMAIN blocks' PROVE IsSeq(blocks'[b])
    <3>1. CASE b = n + 1
      BY <3>1, <1>10, <1>11
    <3>2. CASE b # n + 1
      BY <3>2, <1>6, <1>10
    <3>3. QED
      BY <3>1, <3>2
  <2>3. ip' \in DOMAIN blocks'
    BY <1>6, <1>8, <1>10
  <2>4. QED
    BY <2>1, <2>2, <2>3, <1>10 DEF Shape, Inserted
<1>17. Position'
  BY <1>8, <1>10, <1>11, <1>13 DEF Position, InsertPointAtBack, Back
<1>18. Once'
  <2>1. ASSUME NEW f \in 1..F, NEW i \in DOMAIN layout[f] PROVE layout[f][i] \in 1..n
    BY <1>6 DEF Range
  <2>2. ASSUME NEW f \in DOMAIN layout', NEW g \in DOMAIN layout',
               NEW i \in DOMAIN layout'[f], NEW j \in DOMAIN layout'[g],
               layout'[f][i] = layout'[g][j]
        PROVE  f = g /\ i = j
    <3>1. CASE f = F + 1 /\ g = F + 1
      BY <3>1, <2>2, <1>10, <1>11
    <3>2. CASE f = F + 1 /\ g # F + 1
      BY <3>2, <2>1, <2>2, <1>6, <1>10, <1>11, <1>12
    <3>3. CASE f # F + 1 /\ g = F + 1
      BY <3>3, <2>1, <2>2, <1>6, <1>10, <1>11, <1>12
    <3>4. CASE f # F + 1 /\ g # F + 1
      <4>1. /\ f \in DOMAIN layout /\ g \in DOMAIN layout
            /\ i \in DOMAIN layout[f] /\ j \in DOMAIN layout[g] /\ layout[f][i] = layout[g][j]
        BY <3>4, <2>2, <1>6, <1>10, <1>12
      <4>2. Once
        BY DEF BuilderInv
      <4>3. QED
        BY <4>1, <4>2 DEF Once
    <3>5. QED
      BY <3>1, <3>2, <3>3, <3>4
  <2>3. QED
    BY <2>2 DEF Once
<1>19. Held'
  <2>1. ASSUME NEW d \in 1..2
        PROVE  /\ Holds(work[d], layout, n) /\ DOMAIN work'[d] = DOMAIN work[d]
               /\ work'[d].todo = work[d].todo /\ work'[d].i = work[d].i
               /\ work'[d].node = work[d].node /\ work'[d].bb_condition = work[d].bb_condition
               /\ work'[d].at \in {work[d].at, "params"}
    <3>1. Holds(work[d], layout, n)
      BY <1>3 DEF BuilderInv, Held, n
    <3>2. d = 1 \/ d = 2
      OBVIOUS
    <3>3. QED
      BY <3>1, <3>2, <1>3, <1>5, <1>9
  <2>2. 1..n \subseteq 1..n + 1 /\ 0..n \subseteq 0..n + 1
    BY <1>6
  <2>3. ASSUME NEW d \in 1..2 PROVE Holds(work'[d], layout', Len(blocks'))
    <3>1. Range(work[d].todo) \subseteq 1..n /\ n + 1 \notin 1..n
      BY <2>1, <1>6 DEF Holds
    <3>2. \A f \in 1..F : Range(work[d].todo) \cap Range(layout[f]) = {}
      BY <2>1, <1>6 DEF Holds
    <3>3. ASSUME NEW f \in DOMAIN layout'
          PROVE  Range(work[d].todo) \cap Range(layout'[f]) = {}
      <4>1. CASE f = F + 1
        BY <4>1, <3>1, <1>10, <1>11
      <4>2. CASE f # F + 1
        BY <4>2, <3>2, <1>10, <1>12
      <4>3. QED
        BY <4>1, <4>2
    <3>4. /\ Range(work'[d].todo) \subseteq 1..n + 1 /\ work'[d].bb_condition \in 0..n + 1
          /\ \A f \in DOMAIN layout' : Range(work'[d].todo) \cap Range(layout'[f]) = {}
      BY <2>1, <2>2, <3>1, <3>3 DEF Holds
    <3>5. Len(blocks') = n + 1
      BY <1>10
    <3>6. QED
      BY <2>1, <3>4, <3>5 DEF Holds
  <2>4. ASSUME NEW d \in 1..2, NEW e \in 1..2, d # e
        PROVE  Range(work'[d].todo) \cap Range(work'[e].todo) = {}
    BY <2>1, <2>4, <1>3 DEF BuilderInv, Held
  <2>5. QED
    BY <2>3, <2>4, <1>9 DEF Held
<1>20. WellFormedBlocks'
  <2>1. ASSUME NEW f \in DOMAIN layout', NEW j \in DOMAIN layout'[f],
               ~(f = F + 1 /\ j = Len(layout'[f]))
        PROVE  EndsInTerminator(blocks'[layout'[f][j]])
    <3>1. f # F + 1
      BY <2>1, <1>10, <1>11
    <3>2. f \in DOMAIN layout /\ f \in 1..F /\ layout'[f] = layout[f]
      BY <3>1, <1>6, <1>10, <1>12
    <3>3. EndsInTerminator(blocks[layout[f][j]])
      BY <3>2, <1>4, <1>6 DEF BuilderInv, WellFormedBlocks
    <3>4. layout[f][j] \in 1..n
      BY <3>2, <1>6 DEF Range
    <3>5. QED
      BY <3>2, <3>3, <3>4, <1>10
  <2>2. QED
    BY <2>1, <1>8 DEF WellFormedBlocks
<1>21. QED
  BY <1>14, <1>15, <1>16, <1>17, <1>18, <1>19, <1>20 DEF BuilderInv

\* The function's own frame visits a parameter or the body.
LEMMA FunctionStep ==
    ASSUME BuilderInv, InFunction, Len(work) = 2,
           NEW child, NEW kinds, NEW rest, Visit(child, kinds, rest),
           kinds \cap {"program", "fun_declaration"} = {},
           rest.node = Top.node, rest.at \in {"params", "end"}, rest.i \in Nat,
           rest.todo = Top.todo, rest.bb_condition = Top.bb_condition,
           rest.will_enter_scope = FALSE, DOMAIN rest = DOMAIN Top,
           UNCHANGED <<scope, module, code, currentFunction>>,
           isFunctionTopCompoundStatement' \in BOOLEAN,
           isFunctionTopCompoundStatement' => child.node = "compound_stmt"
    PROVE  BuilderInv'
<1> DEFINE frame == Frame(child)
<1>1. /\ IsSeq(work) /\ DOMAIN work = 1..2 /\ Top = work[2] /\ work # <<>>
      /\ work[1].node.node = "program" /\ IsSeq(Callers) /\ Len(Callers) = 1
      /\ Callers[1] = work[1] /\ Holds(Top, layout, Len(blocks))
      /\ Top.node.node = "fun_declaration"
  <2>1. work # <<>>
    <3>1. work = <<>> => Len(work) = 0
      BY ShortSeqs
    <3>2. QED
      BY <3>1
  <2>2. QED
    BY <2>1, OuterFacts DEF InFunction
<1>2. /\ functions' = functions /\ layout' = layout /\ blocks' = blocks /\ ip' = ip
      /\ currentFunction' = currentFunction /\ scope' = scope
  BY DEF code, module
<1>3. Len(blocks) \in Nat
  BY SeqFacts DEF BuilderInv, Shape
<1>4. /\ frame.node = child /\ frame.at = "visit" /\ frame.will_enter_scope = FALSE
      /\ frame.todo = <<>> /\ Holds(frame, layout, Len(blocks)) /\ Range(<<>>) = {}
  BY <1>3, FreshFrame, ShortSeqs
<1>5. work' = Callers \o <<rest, frame>> /\ child.node \in kinds
  BY DEF Visit
<1> HIDE DEF frame
<1>6. /\ IsSeq(work') /\ Len(work') = 3 /\ DOMAIN work' = 1..3 /\ work' # <<>>
      /\ work'[1] = work[1] /\ work'[2] = rest /\ work'[3] = frame
  <2> DEFINE tail == <<rest, frame>>
  <2>1. IsSeq(tail) /\ Len(tail) = 2 /\ tail[1] = rest /\ tail[2] = frame
    BY ShortSeqs
  <2> HIDE DEF tail
  <2>2. /\ IsSeq(Callers \o tail) /\ Len(Callers \o tail) = Len(Callers) + Len(tail)
        /\ \A i \in 1..Len(Callers) : (Callers \o tail)[i] = Callers[i]
        /\ \A i \in 1..Len(tail) : (Callers \o tail)[Len(Callers) + i] = tail[i]
    <3>1. IsSeq(Callers) /\ IsSeq(tail)
      BY <1>1, <2>1
    <3>2. QED
      BY <3>1, ConcatFacts
  <2>3. /\ IsSeq(work') /\ Len(work') = 3 /\ work'[1] = work[1]
        /\ work'[1 + 1] = rest /\ work'[1 + 2] = frame
    BY <2>1, <2>2, <1>1, <1>5 DEF tail
  <2>4. DOMAIN work' = 1..3 /\ work' # <<>>
    <3>1. DOMAIN work' = 1..Len(work') /\ (work' # <<>> <=> Len(work') >= 1)
      BY <2>3, SeqFacts
    <3>2. QED
      BY <2>3, <3>1
  <2>5. QED
    BY <2>3, <2>4
<1>7. InFunction'
  BY <1>1, <1>6 DEF InFunction
<1>8. Walk'
  <2>1. work'[3].node.node \notin {"program", "fun_declaration"}
    BY <1>4, <1>5, <1>6
  <2>2. \A d \in 3..3 : d = 3
    OBVIOUS
  <2>3. QED
    BY <2>1, <2>2, <1>1, <1>6, <1>7 DEF Walk, Declarations
<1>9. Scoping'
  <2>1. work[1].will_enter_scope = FALSE /\ IsSeq(scope) /\ Len(scope) = 2
    <3>1. 1 \in DOMAIN work /\ ~(Len(work) >= 3)
      BY <1>1
    <3>2. QED
      BY <3>1 DEF BuilderInv, Scoping
  <2>2. \A d \in DOMAIN work' : work'[d].will_enter_scope = FALSE
    <3>1. \A d \in 1..3 : d = 1 \/ d = 2 \/ d = 3
      OBVIOUS
    <3>2. QED
      BY <3>1, <2>1, <1>4, <1>6
  <2>3. Last(work') = frame
    BY <1>6 DEF Last
  <2>4. isFunctionTopCompoundStatement' =>
           Len(work') = 3 /\ (Running("compound_stmt", "visit"))'
    BY <2>3, <1>4, <1>6 DEF Running, Top
  <2>5. 3 \in DOMAIN work'
    BY <1>6
  <2>6. QED
    BY <2>1, <2>2, <2>4, <2>5, <1>2, <1>7 DEF Scoping
<1>10. Shape' /\ Once'
  BY <1>2 DEF BuilderInv, Shape, Once, Inserted
<1>11. Position'
  BY <1>2, <1>7 DEF BuilderInv, Position, InsertPointAtBack, Back
<1>12. Held'
  <2>1. \A d \in DOMAIN work' : d = 1 \/ d = 2 \/ d = 3
    BY <1>6
  <2>2. Holds(work[1], layout, Len(blocks)) /\ Range(work[1].todo) \cap Range(work[2].todo) = {}
    BY <1>1 DEF BuilderInv, Held
  <2>3. Holds(rest, layout, Len(blocks))
    BY <1>1 DEF Holds
  <2>4. \A d \in DOMAIN work' : Holds(work'[d], layout', Len(blocks'))
    BY <2>1, <2>2, <2>3, <1>2, <1>4, <1>6
  <2>5. ASSUME NEW d \in DOMAIN work', NEW e \in DOMAIN work', d # e
        PROVE  Range(work'[d].todo) \cap Range(work'[e].todo) = {}
    BY <2>1, <2>2, <2>5, <1>1, <1>4, <1>6
  <2>6. QED
    BY <2>4, <2>5 DEF Held
<1>13. WellFormedBlocks'
  BY <1>2 DEF BuilderInv, WellFormedBlocks
<1>14. QED
  BY <1>8, <1>9, <1>10, <1>11, <1>12, <1>13 DEF BuilderInv

\* Between two visits of its own, a function's frame is the second.
LEMMA FunctionFacts ==
    ASSUME BuilderInv, NEW at, Running("fun_declaration", at), at # "visit"
    PROVE  /\ InFunction /\ Len(work) = 2 /\ work # <<>> /\ Top.at = at
           /\ Top.will_enter_scope = FALSE /\ isFunctionTopCompoundStatement = FALSE
<1>1. work # <<>> /\ Top.node.node = "fun_declaration" /\ Top.at = at
  BY DEF Running
<1>2. Len(work) = 2 /\ Top = work[2]
  BY <1>1, OuterFacts
<1>3. Len(work) >= 2 /\ Len(work) <= 2
  BY <1>2
<1>4. QED
  BY <1>1, <1>2, <1>3, OuterFacts DEF InFunction

\* The next parameter is visited.
LEMMA FunParamKeeps == ASSUME BuilderInv, FunParam PROVE BuilderInv'
<1> DEFINE rest == [Top EXCEPT !.i = @ + 1]
           child == Top.node.params[Top.i + 1]
<1>1. /\ InFunction /\ Len(work) = 2 /\ work # <<>> /\ Top.at = "params"
      /\ Top.will_enter_scope = FALSE /\ isFunctionTopCompoundStatement = FALSE
  BY FunctionFacts DEF FunParam
<1>2. /\ rest.node = Top.node /\ rest.at = "params" /\ rest.i = Top.i + 1 /\ Top.i \in Nat
      /\ rest.todo = Top.todo /\ rest.bb_condition = Top.bb_condition
      /\ rest.will_enter_scope = FALSE /\ DOMAIN rest = DOMAIN Top
  BY <1>1, OuterFacts
<1>3. /\ Visit(child, {"param"}, rest)
      /\ UNCHANGED <<scope, module, code, currentFunction>>
      /\ isFunctionTopCompoundStatement' = FALSE
  BY <1>1 DEF FunParam
<1> HIDE DEF rest, child
<1>4. {"param"} \cap {"program", "fun_declaration"} = {} /\ rest.i \in Nat
  BY <1>2
<1>5. QED
  BY <1>1, <1>2, <1>3, <1>4, FunctionStep

\* The body is visited with the flag set.
LEMMA FunBodyKeeps == ASSUME BuilderInv, FunBody PROVE BuilderInv'
<1> DEFINE rest == [Top EXCEPT !.at = "end"]
           child == Top.node.compound_stmt
<1>1. /\ InFunction /\ Len(work) = 2 /\ work # <<>> /\ Top.at = "params"
      /\ Top.will_enter_scope = FALSE
  BY FunctionFacts DEF FunBody
<1>2. /\ rest.node = Top.node /\ rest.at = "end" /\ rest.i = Top.i /\ Top.i \in Nat
      /\ rest.todo = Top.todo /\ rest.bb_condition = Top.bb_condition
      /\ rest.will_enter_scope = FALSE /\ DOMAIN rest = DOMAIN Top
  BY <1>1, OuterFacts
<1>3. /\ Visit(child, {"compound_stmt"}, rest)
      /\ UNCHANGED <<scope, module, code, currentFunction>>
      /\ isFunctionTopCompoundStatement' = TRUE
  BY DEF FunBody
<1> HIDE DEF rest, child
<1>4. /\ {"compound_stmt"} \cap {"program", "fun_declaration"} = {} /\ rest.i \in Nat
      /\ child.node = "compound_stmt"
  BY <1>2, <1>3 DEF Visit
<1>5. QED
  BY <1>1, <1>2, <1>3, <1>4, FunctionStep

\* A function is left: its last block ends in a terminator.
LEMMA FunEndKeeps == ASSUME BuilderInv, FunEnd PROVE BuilderInv'
<1> DEFINE F == Len(layout)
           close == IF EndsInTerminator(blocks[Back]) THEN <<>>
                    ELSE IF Top.node.type = "int" THEN <<Ret(Const(0))>>
                    ELSE <<RetVoid>>
<1>1. /\ InFunction /\ Len(work) = 2 /\ work # <<>>
  BY FunctionFacts DEF FunEnd
<1>2. /\ IsSeq(Callers) /\ Len(Callers) = 1 /\ Callers[1] = work[1]
      /\ work[1].node.node = "program" /\ 1 \in DOMAIN work
  BY <1>1, OuterFacts
<1>3. /\ IsSeq(work') /\ Len(work') = 1 /\ work'[1] = work[1] /\ DOMAIN work' = {1}
      /\ ~(Len(work') >= 2) /\ ~(Len(work') >= 3) /\ \A d \in 3..Len(work') : FALSE
  <2>1. work' = Callers
    BY DEF FunEnd, Return
  <2>2. DOMAIN Callers = 1..1
    BY <1>2, SeqFacts
  <2>3. QED
    BY <2>1, <2>2, <1>2
<1>4. Emit(close)
  BY DEF FunEnd
<1>5. IsSeq(close) /\ (~EndsInTerminator(blocks[Back]) => EndsInTerminator(close))
  BY ShortSeqs, BranchingOps DEF EndsInTerminator, Last
<1>6. IsSeq(close) /\ EndsInTerminator(blocks[ip] \o close)
  <2>1. IsSeq(blocks[ip]) /\ ip = Back
    BY <1>1, CodeFacts
  <2>2. CASE EndsInTerminator(blocks[Back])
    BY <2>1, <2>2, ShortSeqs, ConcatEmpty
  <2>3. CASE ~EndsInTerminator(blocks[Back])
    BY <2>1, <2>3, <1>5, TerminatorAppended
  <2>4. QED
    BY <2>2, <2>3, <1>5
<1> HIDE DEF close
<1>7. CodeGrows({})
  BY <1>1, <1>4, <1>6, EmitKeeps
<1>8. Len(blocks') = Len(blocks) /\ ip' = ip /\ EndsInTerminator(blocks'[ip'])
  <2>1. DOMAIN Appending(close) = {ip} /\ Appending(close)[ip] = close
    BY DEF Appending
  <2>2. Build(currentFunction, 0, Appending(close), <<>>)
    BY <1>4 DEF Emit
  <2>3. /\ IsSeq(blocks) /\ Len(blocks) \in Nat /\ ip \in DOMAIN blocks
        /\ \A b \in DOMAIN blocks : IsSeq(blocks[b])
    BY <1>1, CodeFacts
  <2> HIDE DEF Appending
  <2>4. 0 \in Nat
    OBVIOUS
  <2>5. Len(blocks') = Len(blocks) + 0 /\ blocks'[ip] = blocks[ip] \o close
    BY <2>2, <2>3, <2>4, <1>6, BuiltAtPoint, ZenonT(60)
  <2>6. blocks'[ip] = blocks[ip] \o close /\ Len(blocks') = Len(blocks)
    BY <2>3, <2>5
  <2>7. ip' = ip
    BY <2>2 DEF Build
  <2>8. QED
    BY <2>6, <2>7, <1>6
<1>9. /\ IsSeq(functions) /\ Len(functions) = F /\ functions' = functions /\ layout # <<>>
      /\ currentFunction' = 0 /\ isFunctionTopCompoundStatement' = FALSE
      /\ DOMAIN layout' = DOMAIN layout /\ layout' # <<>> /\ DOMAIN blocks' = 1..Len(blocks')
      /\ \A f \in DOMAIN layout' : Range(layout'[f]) \subseteq Range(layout[f])
  <2>1. layout' # <<>> /\ DOMAIN layout' = DOMAIN layout /\ DOMAIN blocks' = 1..Len(blocks')
    <3>1. IsSeq(layout') /\ Len(layout') = Len(layout) /\ IsSeq(blocks')
      BY <1>7 DEF CodeGrows
    <3>2. IsSeq(layout) /\ layout # <<>>
      BY DEF BuilderInv, Shape
    <3>3. QED
      BY <3>1, <3>2, SeqFacts
  <2>2. QED
    BY <2>1, <1>7 DEF BuilderInv, Shape, FunEnd, module, CodeGrows
<1>10. ~InFunction'
  BY <1>3 DEF InFunction
<1>11. Walk'
  BY <1>2, <1>3 DEF Walk
<1>12. Scoping'
  <2>1. IsSeq(scope) /\ Len(scope) = 2 /\ work[1].will_enter_scope = FALSE
    <3>1. ~(Len(work) >= 3)
      BY <1>1
    <3>2. QED
      BY <3>1, <1>1, <1>2 DEF BuilderInv, Scoping
  <2>2. scope # <<>>
    BY <2>1, ShortSeqs
  <2>3. IsSeq(scope') /\ Len(scope') = 1
    <3>1. scope' = Front(scope)
      BY DEF FunEnd, Exit
    <3>2. QED
      <4>1. IsSeq(Front(scope)) /\ Len(Front(scope)) = Len(scope) - 1
        BY <2>1, <2>2, FrontFacts
      <4>2. QED
        BY <2>1, <3>1, <4>1
  <2>4. QED
    BY <2>1, <2>3, <1>3, <1>9, <1>10 DEF Scoping
<1>13. Shape'
  BY <1>7, <1>9 DEF Shape, CodeGrows, Inserted
<1>14. Position'
  BY <1>9, <1>10 DEF Position, InsertPointAtBack
<1>15. Once'
  BY <1>7 DEF Once, CodeGrows
<1>16. Held'
  <2>1. Holds(work[1], layout, Len(blocks))
    BY <1>2 DEF BuilderInv, Held
  <2>2. Holds(work[1], layout', Len(blocks'))
    BY <2>1, <1>8, <1>9 DEF Holds
  <2>3. QED
    BY <2>2, <1>3 DEF Held
<1>17. WellFormedBlocks'
  <2>1. ASSUME NEW f \in DOMAIN layout', NEW j \in DOMAIN layout'[f]
        PROVE  EndsInTerminator(blocks'[layout'[f][j]])
    <3>1. CASE f = F /\ j = Len(layout'[f])
      BY <3>1, <1>7, <1>8 DEF CodeGrows, Last
    <3>2. CASE ~(f = F /\ j = Len(layout'[f]))
      BY <3>2, <1>7 DEF CodeGrows
    <3>3. QED
      BY <3>1, <3>2
  <2>2. QED
    BY <2>1 DEF WellFormedBlocks
<1>18. QED
  BY <1>11, <1>12, <1>13, <1>14, <1>15, <1>16, <1>17 DEF BuilderInv

-----------------------------------------------------------------------------
(* The theorems.                                                           *)

\* The constructor leaves no function open and no block held.
LEMMA InitEstablishes == ASSUME Init PROVE BuilderInv
<1>1. PICK program \in Programs : work = <<Frame(program)>>
  BY DEF Init
<1>2. program.node = "program"
  BY ProgramsAssumption
<1> DEFINE frame == Frame(program)
<1>3. 0 \in Nat
  OBVIOUS
<1>4. /\ frame.node = program /\ frame.at = "visit" /\ frame.will_enter_scope = FALSE
      /\ frame.todo = <<>> /\ Holds(frame, layout, 0)
  BY <1>3, FreshFrame
<1>5. /\ IsSeq(work) /\ Len(work) = 1 /\ work[1] = frame /\ DOMAIN work = {1}
  BY <1>1, ShortSeqs
<1> HIDE DEF frame
<1>6. ~(Len(work) >= 2) /\ ~(Len(work) >= 3) /\ \A d \in 3..Len(work) : FALSE
  BY <1>5
<1>7. ~InFunction
  BY <1>6 DEF InFunction
<1>8. Walk
  BY <1>2, <1>4, <1>5, <1>6 DEF Walk
<1>9. Scoping
  <2>1. IsSeq(scope) /\ Len(scope) = 1
    BY ShortSeqs DEF Init
  <2>2. isFunctionTopCompoundStatement = FALSE
    BY DEF Init
  <2>3. QED
    BY <2>1, <2>2, <1>4, <1>5, <1>7 DEF Scoping
<1>10. /\ IsSeq(functions) /\ Len(functions) = 3 /\ IsSeq(layout) /\ Len(layout) = 3
       /\ DOMAIN layout = 1..3 /\ layout # <<>> /\ \A f \in 1..3 : layout[f] = <<>>
       /\ blocks = <<>> /\ ip = 0 /\ currentFunction = 0
  <2>1. functions = Predefined /\ DOMAIN Predefined = 1..3
    BY DEF Init, Predefined
  <2>2. layout = [f \in 1..3 |-> <<>>] /\ functions = [f \in 1..3 |-> functions[f]]
    BY <2>1 DEF Init, Predefined
  <2>3. /\ DOMAIN layout = 1..3 /\ layout = [f \in 1..3 |-> layout[f]]
        /\ DOMAIN functions = 1..3 /\ \A f \in 1..3 : layout[f] = <<>> /\ 3 \in Nat
    BY <2>1, <2>2
  <2>4. IsSeq(layout) /\ Len(layout) = 3 /\ IsSeq(functions) /\ Len(functions) = 3
    BY <2>2, <2>3, FunctionIsSeq
  <2>5. layout # <<>>
    BY <2>4, ShortSeqs
  <2>6. QED
    BY <2>3, <2>4, <2>5 DEF Init
<1>11. IsSeq(<<>>) /\ DOMAIN <<>> = {} /\ Range(<<>>) = {} /\ Len(<<>>) = 0
  BY ShortSeqs
<1>12. Shape /\ Position /\ Once
  BY <1>7, <1>10, <1>11 DEF Shape, Position, InsertPointAtBack, Once, Inserted
<1>13. Held
  BY <1>4, <1>5, <1>10, <1>11 DEF Held
<1>14. WellFormedBlocks
  BY <1>10, <1>11 DEF WellFormedBlocks
<1>15. QED
  BY <1>8, <1>9, <1>12, <1>13, <1>14 DEF BuilderInv

\* A step that changes nothing keeps the invariant.
LEMMA UnchangedKeeps == ASSUME BuilderInv, UNCHANGED vars PROVE BuilderInv'
<1>1. /\ work' = work /\ scope' = scope /\ functions' = functions /\ layout' = layout
      /\ blocks' = blocks /\ ip' = ip /\ currentFunction' = currentFunction
      /\ isFunctionTopCompoundStatement' = isFunctionTopCompoundStatement
  BY DEF vars, module, code, current
<1>2. InFunction' <=> InFunction
  BY <1>1 DEF InFunction
<1>3. Walk'
  BY <1>1, <1>2 DEF BuilderInv, Walk
<1>4. Scoping'
  BY <1>1, <1>2 DEF BuilderInv, Scoping, Running, Top
<1>5. Shape' /\ Once' /\ Held' /\ WellFormedBlocks'
  <2>1. Shape'
    BY <1>1 DEF BuilderInv, Shape, Inserted
  <2>2. Once' /\ WellFormedBlocks'
    BY <1>1 DEF BuilderInv, Once, WellFormedBlocks
  <2>3. Held'
    BY <1>1 DEF BuilderInv, Held
  <2>4. QED
    BY <2>1, <2>2, <2>3
<1>6. Position'
  BY <1>1, <1>2 DEF BuilderInv, Position, InsertPointAtBack, Back
<1>7. QED
  BY <1>3, <1>4, <1>5, <1>6 DEF BuilderInv

\* Every step of the visitor keeps the invariant.
LEMMA NextKeeps == ASSUME BuilderInv, [Next]_vars PROVE BuilderInv'
<1>1. CASE VisitProgram \/ VisitGlobalVarDeclaration \/ VisitLocalVarDeclaration
           \/ VisitFunDeclaration \/ FunParam \/ FunBody \/ FunEnd \/ VisitParam
  BY <1>1, VisitProgramKeeps, VisitGlobalVarDeclarationKeeps, VisitLocalVarDeclarationKeeps,
     VisitFunDeclarationKeeps, FunParamKeeps, FunBodyKeeps, FunEndKeeps, VisitParamKeeps
<1>2. CASE VisitCompoundStmt \/ CompoundItem \/ CompoundEnd \/ VisitExpresionStmt
           \/ VisitSelectionStmt \/ SelectionCondition \/ SelectionElse \/ SelectionEnd
  BY <1>2, VisitCompoundStmtKeeps, CompoundItemKeeps, CompoundEndKeeps,
     VisitExpresionStmtKeeps, VisitSelectionStmtKeeps, SelectionConditionKeeps,
     SelectionElseKeeps, SelectionEndKeeps
<1>3. CASE VisitIterationStmt \/ IterationCondition \/ IterationEnd
           \/ VisitReturnStmt \/ ReturnValue
  BY <1>3, VisitIterationStmtKeeps, IterationConditionKeeps, IterationEndKeeps,
     VisitReturnStmtKeeps, ReturnValueKeeps
<1>4. CASE VisitNum \/ VisitVar \/ VisitElement \/ ElementIndex
           \/ VisitAssignExpression \/ AssignExpressionVar \/ AssignExpressionValue
  BY <1>4, VisitNumKeeps, VisitVarKeeps, VisitElementKeeps, ElementIndexKeeps,
     VisitAssignExpressionKeeps, AssignExpressionVarKeeps, AssignExpressionValueKeeps
<1>5. CASE VisitOperator \/ OperatorLeft \/ OperatorRight \/ VisitCall \/ CallArgument
  BY <1>5, VisitOperatorKeeps, OperatorLeftKeeps, OperatorRightKeeps, VisitCallKeeps,
     CallArgumentKeeps
<1>6. CASE Idle \/ UNCHANGED vars
  BY <1>6, UnchangedKeeps DEF Idle
<1>7. QED
  BY <1>1, <1>2, <1>3, <1>4, <1>5, <1>6 DEF Next

\* Whatever programs the visitor walks, its frames, scopes, functions and
\* blocks stay in the shape that BuilderInv describes.
THEOREM BuilderInvariance == Spec => []BuilderInv
<1>1. Init => BuilderInv
  BY InitEstablishes
<1>2. BuilderInv /\ [Next]_vars => BuilderInv'
  BY NextKeeps
<1>3. QED
  BY <1>1, <1>2, PTL DEF Spec

\* The state always consists of frames, scopes, blocks and references into
\* them (the types of CminusBuilder's members and of the visit methods' locals).
THEOREM TypeCorrect == Spec => []TypeOK
<1>1. BuilderInv => TypeOK
  <2> SUFFICES ASSUME BuilderInv PROVE TypeOK
    OBVIOUS
  <2>1. /\ DOMAIN blocks = 1..Len(blocks) /\ Len(blocks) \in Nat
        /\ IsSeq(functions) /\ IsSeq(layout) /\ Len(functions) = Len(layout)
        /\ layout # <<>> /\ Len(layout) \in Nat /\ Len(layout) >= 1
    BY SeqFacts DEF BuilderInv, Shape
  <2>2. DOMAIN functions = 1..Len(layout) /\ DOMAIN layout = 1..Len(layout)
    BY <2>1, SeqFacts
  <2>3. ASSUME NEW d \in DOMAIN work
        PROVE  /\ work[d].i \in Nat /\ Range(work[d].todo) \subseteq DOMAIN blocks
               /\ work[d].bb_condition \in {0} \cup DOMAIN blocks
               /\ work[d].will_enter_scope \in BOOLEAN
    <3>1. Holds(work[d], layout, Len(blocks)) /\ work[d].will_enter_scope \in BOOLEAN
      BY DEF BuilderInv, Held, Scoping
    <3>2. QED
      BY <2>1, <3>1 DEF Holds
  <2>4. scope # <<>>
    <3>1. IsSeq(scope) /\ Len(scope) \in {1, 2, 3}
      BY DEF BuilderInv, Scoping
    <3>2. QED
      BY <3>1, SeqFacts
  <2>5. currentFunction \in {0} \cup DOMAIN functions
    BY <2>1, <2>2 DEF BuilderInv, Position
  <2>6. /\ \A f \in DOMAIN layout : Inserted(f) \subseteq DOMAIN blocks
        /\ ip \in {0} \cup DOMAIN blocks /\ isFunctionTopCompoundStatement \in BOOLEAN
    BY DEF BuilderInv, Shape, Scoping
  <2>7. QED
    BY <2>2, <2>3, <2>4, <2>5, <2>6 DEF TypeOK
<1>2. QED
  BY <1>1, BuilderInvariance, PTL

\* Inside a function the builder always points at the function's last block,
\* the one whose end the code inspects (cminus_builder.cpp:175,202,229).
THEOREM InsertPointStaysAtBack == Spec => []InsertPointAtBack
<1>1. BuilderInv => InsertPointAtBack
  BY DEF BuilderInv, Position
<1>2. QED
  BY <1>1, BuilderInvariance, PTL

\* Every block the visitor has gone past ends in a terminator.
THEOREM BlocksWellFormed == Spec => []WellFormedBlocks
<1>1. BuilderInv => WellFormedBlocks
  BY DEF BuilderInv
<1>2. QED
  BY <1>1, BuilderInvariance, PTL

-----------------------------------------------------------------------------
(* What a step may write.                                                  *)

\* A step that inserts blocks into the function being built, and changes of
\* the blocks that exist only the one the builder points at, at its end.
OnlyAtEnd ==
    /\ \A b \in DOMAIN blocks : b # ip => blocks'[b] = blocks[b]
    /\ \E ins : IsSeq(ins) /\ blocks'[ip] = blocks[ip] \o ins
    /\ IsSeq(layout') /\ Len(layout') = Len(layout)
    /\ \A f \in DOMAIN layout : f # Len(layout) => layout'[f] = layout[f]
    /\ \E placed : IsSeq(placed) /\ layout'[Len(layout)] = layout[Len(layout)] \o placed

\* An instruction list is a prefix of what it grows into.
LEMMA PrefixFacts ==
    ASSUME NEW s, NEW t, IsSeq(s), IsSeq(t)
    PROVE  IsPrefix(s, s \o t)
<1> DEFINE S == Range(s) \cup Range(t)
<1>1. s \in Seq(S) /\ t \in Seq(S)
  BY DEF IsSeq
<1> HIDE DEF S
<1>2. /\ s \o t \in Seq(S) /\ Len(s \o t) = Len(s) + Len(t)
      /\ Len(s) \in Nat /\ Len(t) \in Nat
      /\ \A i \in 1..Len(s) : (s \o t)[i] = s[i]
  BY <1>1
<1> DEFINE u == s \o t
<1>3. u \in Seq(S) /\ Len(s) <= Len(u) /\ \A i \in 1..Len(s) : u[i] = s[i]
  BY <1>2
<1> HIDE DEF u
<1>4. SubSeq(s, 1, Len(s)) = SubSeq(u, 1, Len(s))
  <2>1. /\ SubSeq(s, 1, Len(s)) = [i \in 1..Len(s) |-> s[i]]
        /\ SubSeq(u, 1, Len(s)) = [i \in 1..Len(s) |-> u[i]]
    BY <1>1, <1>2, <1>3
  <2>2. QED
    BY <2>1, <1>3
<1>5. QED
  BY <1>3, <1>4 DEF IsPrefix, u

\* Building where the builder points, and in blocks that are new.
LEMMA BuildAtEnd ==
    ASSUME BuilderInv, InFunction, NEW k \in Nat, NEW added, NEW placed,
           Build(currentFunction, k, added, placed),
           \A b \in DOMAIN added : IsSeq(added[b]),
           DOMAIN added \cap DOMAIN blocks \subseteq {ip}, IsSeq(placed)
    PROVE  OnlyAtEnd
<1>1. /\ IsSeq(layout) /\ IsSeq(blocks) /\ DOMAIN layout = 1..Len(layout)
      /\ Len(layout) \in DOMAIN layout /\ currentFunction = Len(layout) /\ Len(layout) \in Nat
      /\ ip \in DOMAIN blocks /\ \A b \in DOMAIN blocks : IsSeq(blocks[b])
  BY CodeFacts
<1>2. /\ \A b \in DOMAIN blocks \ DOMAIN added : blocks'[b] = blocks[b]
      /\ \A b \in DOMAIN blocks \cap DOMAIN added : blocks'[b] = blocks[b] \o added[b]
  <2>1. IsSeq(blocks) /\ \A b \in DOMAIN blocks : IsSeq(blocks[b])
    BY <1>1
  <2>2. QED
    BY <2>1, BuiltBlocks, Zenon
<1>3. \A b \in DOMAIN blocks : b # ip => blocks'[b] = blocks[b]
  BY <1>2
<1>4. \E ins : IsSeq(ins) /\ blocks'[ip] = blocks[ip] \o ins
  <2>1. CASE ip \in DOMAIN added
    BY <2>1, <1>1, <1>2
  <2>2. CASE ip \notin DOMAIN added
    <3>1. blocks'[ip] = blocks[ip] \o <<>> /\ IsSeq(<<>>)
      BY <2>2, <1>1, <1>2, ConcatEmpty, ShortSeqs
    <3>2. QED
      BY <3>1
  <2>3. QED
    BY <2>1, <2>2
<1>5. layout' = [layout EXCEPT ![Len(layout)] = @ \o placed]
  BY <1>1 DEF Build
<1>6. /\ DOMAIN layout' = 1..Len(layout)
      /\ \A f \in DOMAIN layout : f # Len(layout) => layout'[f] = layout[f]
      /\ layout'[Len(layout)] = layout[Len(layout)] \o placed
  BY <1>1, <1>5
<1>7. IsSeq(layout') /\ Len(layout') = Len(layout)
  <2>1. layout' = [f \in 1..Len(layout) |-> layout'[f]]
    BY <1>1, <1>5, <1>6
  <2>2. QED
    BY <2>1, <1>1, <1>6, FunctionIsSeq
<1>8. QED
  BY <1>3, <1>4, <1>6, <1>7 DEF OnlyAtEnd

\* Emit and EmitAndInsert.
LEMMA EmitAtEnd ==
    ASSUME BuilderInv, InFunction, NEW ins, IsSeq(ins), NEW placed, IsSeq(placed),
           Emit(ins) \/ EmitAndInsert(ins, placed)
    PROVE  OnlyAtEnd
<1>1. PICK p : IsSeq(p) /\ Build(currentFunction, 0, Appending(ins), p)
  <2>1. IsSeq(<<>>)
    BY ShortSeqs
  <2>2. QED
    BY <2>1 DEF Emit, EmitAndInsert
<1>2. DOMAIN Appending(ins) = {ip} /\ Appending(ins)[ip] = ins
  BY DEF Appending
<1> HIDE DEF Appending
<1>3. /\ \A b \in DOMAIN Appending(ins) : IsSeq(Appending(ins)[b]) /\ 0 \in Nat
      /\ DOMAIN Appending(ins) \cap DOMAIN blocks \subseteq {ip}
  BY <1>2
<1>4. QED
  BY <1>1, <1>3, BuildAtEnd

\* A step that builds nothing.
LEMMA NothingAtEnd ==
    ASSUME BuilderInv, InFunction, UNCHANGED code
    PROVE  OnlyAtEnd
<1>1. layout' = layout /\ blocks' = blocks /\ IsSeq(layout) /\ IsSeq(blocks[ip]) /\ IsSeq(<<>>)
      /\ IsSeq(layout[Len(layout)])
  BY CodeFacts, ShortSeqs DEF code, BuilderInv, Shape
<1>2. blocks'[ip] = blocks[ip] \o <<>>
      /\ layout'[Len(layout)] = layout[Len(layout)] \o <<>>
  BY <1>1, ConcatEmpty
<1>3. QED
  BY <1>1, <1>2 DEF OnlyAtEnd

-----------------------------------------------------------------------------
(* Every step inside a function writes at the end.                         *)

WritesOn == InFunction /\ OnlyAtEnd /\ currentFunction' = currentFunction

\* Statements and expressions are inside a function.
LEMMA RunningInside ==
    ASSUME BuilderInv, NEW kind, NEW at, Running(kind, at),
           kind \notin {"program", "fun_declaration", "var_declaration"}
    PROVE  InFunction
  BY InnerFacts, WorkFacts DEF Running

\* The steps that build nothing.
LEMMA WalkWritesOn ==
    ASSUME BuilderInv,
           \/ FunParam \/ FunBody \/ VisitCompoundStmt \/ CompoundItem \/ CompoundEnd
           \/ VisitExpresionStmt \/ VisitNum \/ VisitVar \/ VisitElement
           \/ VisitAssignExpression \/ AssignExpressionVar \/ VisitOperator
    PROVE  WritesOn
<1>1. UNCHANGED code /\ currentFunction' = currentFunction
  BY DEF FunParam, FunBody, VisitCompoundStmt, CompoundItem, CompoundEnd, VisitExpresionStmt,
         VisitNum, VisitVar, VisitElement, VisitAssignExpression, AssignExpressionVar,
         VisitOperator, current
<1>2. InFunction
  <2>1. CASE FunParam \/ FunBody
    BY <2>1, FunctionFacts DEF FunParam, FunBody
  <2>2. CASE VisitCompoundStmt \/ CompoundItem \/ CompoundEnd \/ VisitExpresionStmt
    BY <2>2, RunningInside
       DEF VisitCompoundStmt, CompoundItem, CompoundEnd, VisitExpresionStmt
  <2>3. CASE \/ VisitNum \/ VisitVar \/ VisitElement
             \/ VisitAssignExpression \/ AssignExpressionVar
    BY <2>3, RunningInside
       DEF VisitNum, VisitVar, VisitElement, VisitAssignExpression, AssignExpressionVar
  <2>4. CASE VisitOperator
    BY <2>4, OperatorInside DEF VisitOperator
  <2>5. QED
    BY <2>1, <2>2, <2>3, <2>4
<1>3. QED
  BY <1>1, <1>2, NothingAtEnd DEF WritesOn

\* The statements that branch.
LEMMA BranchesWriteOn ==
    ASSUME BuilderInv,
           \/ VisitSelectionStmt \/ SelectionCondition \/ SelectionElse \/ SelectionEnd
           \/ VisitIterationStmt \/ IterationCondition \/ IterationEnd
    PROVE  WritesOn
<1>1. currentFunction' = currentFunction
  BY DEF VisitSelectionStmt, SelectionCondition, SelectionElse, SelectionEnd,
         VisitIterationStmt, IterationCondition, IterationEnd, current
<1>2. InFunction
  BY RunningInside
     DEF VisitSelectionStmt, SelectionCondition, SelectionElse, SelectionEnd,
         VisitIterationStmt, IterationCondition, IterationEnd
<1>3. /\ ip \in DOMAIN blocks /\ ip = Back /\ Len(blocks) \in Nat
      /\ DOMAIN blocks = 1..Len(blocks) /\ \A b \in DOMAIN blocks : IsSeq(blocks[b])
  BY <1>2, CodeFacts
<1>4. IsSeq(blocks[Back])
  BY <1>3
<1>5. CASE VisitSelectionStmt
  <2> DEFINE k == IF Top.node.else_statement = Nullptr THEN 2 ELSE 3
  <2>1. Build(currentFunction, k, <<>>, <<>>) /\ k \in Nat
    BY <1>5 DEF VisitSelectionStmt
  <2> HIDE DEF k
  <2>2. IsSeq(<<>>) /\ DOMAIN <<>> = {}
    BY ShortSeqs
  <2>3. OnlyAtEnd
    BY <1>2, <2>1, <2>2, BuildAtEnd
  <2>4. QED
    BY <1>1, <1>2, <2>3 DEF WritesOn
<1>6. CASE SelectionCondition \/ IterationCondition
  <2>1. PICK ins, placed : EmitAndInsert(ins, placed) /\ IsSeq(ins) /\ IsSeq(placed)
    BY <1>6, BranchOnFacts, ShortSeqs DEF SelectionCondition, IterationCondition
  <2>2. QED
    BY <1>1, <1>2, <2>1, EmitAtEnd DEF WritesOn
<1>7. CASE SelectionElse
  <2>1. PICK b, c : EmitAndInsert(JoinAt(b), <<c>>)
    BY <1>7 DEF SelectionElse
  <2>2. QED
    BY <1>1, <1>2, <1>4, <2>1, JoinAtFacts, ShortSeqs, EmitAtEnd DEF WritesOn
<1>8. CASE SelectionEnd \/ IterationEnd
  <2>1. PICK b : EmitAndInsert(JoinAt(b), Top.todo)
    BY <1>8 DEF SelectionEnd, IterationEnd
  <2>2. IsSeq(Top.todo)
    BY <1>8, OuterFacts DEF SelectionEnd, IterationEnd, Running, Holds
  <2>3. QED
    BY <1>1, <1>2, <1>4, <2>1, <2>2, JoinAtFacts, EmitAtEnd DEF WritesOn
<1>9. CASE VisitIterationStmt
  <2>1. PICK b : Build(currentFunction, 3, Appending(<<Br(b)>>), <<b>>)
    BY <1>9 DEF VisitIterationStmt
  <2>2. DOMAIN Appending(<<Br(b)>>) = {ip} /\ Appending(<<Br(b)>>)[ip] = <<Br(b)>>
    BY DEF Appending
  <2>3. IsSeq(<<Br(b)>>) /\ IsSeq(<<b>>) /\ 3 \in Nat
    BY ShortSeqs
  <2> HIDE DEF Appending
  <2>4. OnlyAtEnd
    BY <1>2, <2>1, <2>2, <2>3, BuildAtEnd
  <2>5. QED
    BY <1>1, <1>2, <2>4 DEF WritesOn
<1>10. QED
  BY <1>5, <1>6, <1>7, <1>8, <1>9

\* The steps that append instructions.
LEMMA EmitsWriteOn ==
    ASSUME BuilderInv,
           \/ VisitLocalVarDeclaration \/ VisitParam \/ VisitReturnStmt \/ ReturnValue
           \/ AssignExpressionValue \/ OperatorLeft \/ OperatorRight \/ VisitCall \/ CallArgument
    PROVE  WritesOn
<1>1. currentFunction' = currentFunction
  BY DEF VisitLocalVarDeclaration, VisitParam, VisitReturnStmt, ReturnValue,
         AssignExpressionValue, OperatorLeft, OperatorRight, VisitCall, CallArgument, current
<1>2. InFunction
  <2>1. CASE VisitLocalVarDeclaration
    BY <2>1, ScopesTellFunctions DEF VisitLocalVarDeclaration
  <2>2. CASE \/ VisitParam \/ VisitReturnStmt \/ ReturnValue
             \/ AssignExpressionValue \/ VisitCall \/ CallArgument
    BY <2>2, RunningInside
       DEF VisitParam, VisitReturnStmt, ReturnValue, AssignExpressionValue, VisitCall,
           CallArgument
  <2>3. CASE OperatorLeft \/ OperatorRight
    BY <2>3, OperatorInside DEF OperatorLeft, OperatorRight
  <2>4. QED
    BY <2>1, <2>2, <2>3
<1>3. IsSeq(Forced.ins) /\ \A s, x : IsSeq(s) => IsSeq(Append(s, x))
  BY ForcedFacts, AppendFacts
<1>4. UNCHANGED code \/ \E ins : IsSeq(ins) /\ Emit(ins)
  <2>1. CASE VisitLocalVarDeclaration \/ VisitParam
    BY <2>1, <1>3, ShortSeqs DEF VisitLocalVarDeclaration, VisitParam
  <2>2. CASE VisitReturnStmt \/ ReturnValue \/ AssignExpressionValue
    BY <2>2, <1>3, ShortSeqs DEF VisitReturnStmt, ReturnValue, AssignExpressionValue
  <2>3. CASE OperatorLeft \/ OperatorRight
    BY <2>3, <1>3 DEF OperatorLeft, OperatorRight
  <2>4. CASE VisitCall
    BY <2>4, <1>3, ShortSeqs DEF VisitCall, EmitCall
  <2>5. CASE CallArgument
    <3>1. PICK ins : IsSeq(ins) /\ (Emit(ins) \/ \E args : EmitCall(ins, args))
      BY <2>5, <1>3 DEF CallArgument
    <3>2. QED
      BY <3>1, <1>3 DEF EmitCall
  <2>6. QED
    BY <2>1, <2>2, <2>3, <2>4, <2>5
<1>5. QED
  BY <1>1, <1>2, <1>4, NothingAtEnd, EmitAtEnd, ShortSeqs DEF WritesOn

\* The check of an index fills the block the builder points at and two new ones.
LEMMA ElementWritesOn == ASSUME BuilderInv, ElementIndex PROVE WritesOn
<1> DEFINE n == Len(blocks)
           array == Top.vals[1]
           check == CheckIndex(n + 1, n + 2)
           underflow == <<Call(Find(scope, "neg_idx_except"), <<>>), Br(n + 2)>>
           base == Value("inst", <<n + 2, 1>>, PointeeOf[array.ty])
           element == IF array.ty = "arr*" THEN <<Element(array, Forced.val)>>
                      ELSE <<Load(array), Element(base, Forced.val)>>
           added == [b \in {ip, n + 1, n + 2} |->
                       IF b = ip THEN check ELSE IF b = n + 2 THEN element ELSE underflow]
<1>1. InFunction /\ currentFunction' = currentFunction
  BY RunningInside DEF ElementIndex, current
<1>2. Build(currentFunction, 2, added, <<n + 1, n + 2>>)
  BY DEF ElementIndex, Fresh
<1>3. IsSeq(check) /\ IsSeq(element) /\ IsSeq(underflow) /\ IsSeq(<<n + 1, n + 2>>)
  <2>1. IsSeq(IndexCompare)
    BY ForcedFacts, AppendFacts DEF IndexCompare
  <2>2. IsSeq(check)
    BY <2>1, AppendFacts DEF CheckIndex
  <2>3. IsSeq(element) /\ IsSeq(underflow) /\ IsSeq(<<n + 1, n + 2>>)
    BY ShortSeqs
  <2>4. QED
    BY <2>2, <2>3
<1> HIDE DEF check, element, underflow
<1>4. /\ DOMAIN added = {ip, n + 1, n + 2}
      /\ \A b \in DOMAIN added : IsSeq(added[b])
  BY <1>3
<1> HIDE DEF added
<1>5. DOMAIN added \cap DOMAIN blocks \subseteq {ip}
  BY <1>1, <1>4, CodeFacts
<1>6. OnlyAtEnd
  <2>1. 2 \in Nat
    OBVIOUS
  <2>2. QED
    BY <1>1, <1>2, <1>3, <1>4, <1>5, <2>1, BuildAtEnd
<1>7. QED
  BY <1>1, <1>6 DEF WritesOn

\* The last step of a function appends the return it lacks.
LEMMA FunEndAtEnd == ASSUME BuilderInv, FunEnd PROVE InFunction /\ OnlyAtEnd
<1>1. InFunction
  BY FunctionFacts DEF FunEnd
<1>2. PICK ins : IsSeq(ins) /\ Emit(ins)
  BY ShortSeqs DEF FunEnd
<1>3. QED
  BY <1>1, <1>2, EmitAtEnd, ShortSeqs

\* The steps, by what they do to the code.
LEMMA StepKinds ==
    ASSUME BuilderInv, [Next]_vars
    PROVE  \/ WritesOn \/ FunEnd \/ VisitFunDeclaration
           \/ UNCHANGED code /\ currentFunction' = currentFunction
<1>1. CASE VisitProgram \/ VisitGlobalVarDeclaration \/ Idle \/ UNCHANGED vars
  BY <1>1 DEF VisitProgram, VisitGlobalVarDeclaration, Idle, vars, current
<1>2. CASE \/ FunParam \/ FunBody \/ VisitCompoundStmt \/ CompoundItem \/ CompoundEnd
           \/ VisitExpresionStmt \/ VisitNum \/ VisitVar \/ VisitElement
           \/ VisitAssignExpression \/ AssignExpressionVar \/ VisitOperator
  BY <1>2, WalkWritesOn
<1>3. CASE \/ VisitSelectionStmt \/ SelectionCondition \/ SelectionElse \/ SelectionEnd
           \/ VisitIterationStmt \/ IterationCondition \/ IterationEnd
  BY <1>3, BranchesWriteOn
<1>4. CASE \/ VisitLocalVarDeclaration \/ VisitParam \/ VisitReturnStmt \/ ReturnValue
           \/ AssignExpressionValue \/ OperatorLeft \/ OperatorRight \/ VisitCall \/ CallArgument
  BY <1>4, EmitsWriteOn
<1>5. CASE ElementIndex
  BY <1>5, ElementWritesOn
<1>6. QED
  BY <1>1, <1>2, <1>3, <1>4, <1>5 DEF Next

\* The entry block of a new function comes after all blocks there are.
LEMMA EntryFacts ==
    ASSUME BuilderInv, VisitFunDeclaration
    PROVE  /\ IsSeq(blocks) /\ IsSeq(layout)
           /\ blocks' = Append(blocks, <<>>) /\ layout' = Append(layout, <<Len(blocks) + 1>>)
           /\ currentFunction = 0 /\ currentFunction' = Len(layout) + 1
<1>1. work # <<>> /\ Top.node.node = "fun_declaration" /\ Top.at = "visit"
  BY DEF VisitFunDeclaration, Running
<1>2. Len(work) = 2 /\ Top = work[2]
  BY <1>1, OuterFacts
<1>3. ~InFunction
  BY <1>1, <1>2 DEF InFunction
<1>4. QED
  BY <1>3 DEF BuilderInv, Shape, Position, VisitFunDeclaration, Fresh

-----------------------------------------------------------------------------
(* Nothing but the end of the last block changes.                          *)

\* A step changes no block but the one at the end, and that one at its end.
LEMMA StepAppends ==
    ASSUME BuilderInv, [Next]_vars, NEW b \in DOMAIN blocks, blocks'[b] # blocks[b]
    PROVE  currentFunction # 0 /\ b = Back /\ IsPrefix(blocks[b], blocks'[b])
<1>1. CASE InFunction /\ OnlyAtEnd
  <2>1. b = ip /\ ip = Back /\ IsSeq(blocks[ip]) /\ currentFunction # 0
    BY <1>1, CodeFacts DEF OnlyAtEnd
  <2>2. PICK ins : IsSeq(ins) /\ blocks'[ip] = blocks[ip] \o ins
    BY <1>1 DEF OnlyAtEnd
  <2>3. QED
    BY <2>1, <2>2, PrefixFacts
<1>2. CASE VisitFunDeclaration
  <2>1. IsSeq(blocks) /\ blocks' = Append(blocks, <<>>) /\ DOMAIN blocks = 1..Len(blocks)
    BY <1>2, EntryFacts, SeqFacts
  <2>2. \A i \in 1..Len(blocks) : Append(blocks, <<>>)[i] = blocks[i]
    BY <2>1, AppendFacts
  <2>3. QED
    BY <2>1, <2>2
<1>3. CASE UNCHANGED code
  BY <1>3 DEF code
<1>4. QED
  BY <1>1, <1>2, <1>3, StepKinds, FunEndAtEnd DEF WritesOn

\* The visit methods never touch what is in a block, whatever the program:
\* all instructions go to the end of the last block of the function being
\* built (every use of builder in cminus_builder.cpp).
THEOREM OnlyAppends == Spec => AppendOnly
<1>1. BuilderInv /\ [Next]_vars =>
        [\A b \in DOMAIN blocks : blocks'[b] # blocks[b] =>
            currentFunction # 0 /\ b = Back /\ IsPrefix(blocks[b], blocks'[b])]_vars
  BY StepAppends
<1>2. QED
  BY <1>1, BuilderInvariance, PTL DEF Spec, AppendOnly

-----------------------------------------------------------------------------
(* The code as BlockStream sees it.                                        *)

\* The functions of `lay' with the contents their blocks have in `blks'.
TextOf(lay, blks) == [f \in DOMAIN lay |-> [j \in DOMAIN lay[f] |-> blks[lay[f][j]]]]

\* A text has a list for every function, and a block for each of its blocks.
LEMMA TextFacts ==
    ASSUME NEW lay, NEW blks, IsSeq(lay), \A f \in DOMAIN lay : IsSeq(lay[f])
    PROVE  /\ Len(TextOf(lay, blks)) = Len(lay) /\ Len(lay) \in Nat
           /\ IsSeq(TextOf(lay, blks)) /\ DOMAIN TextOf(lay, blks) = 1..Len(lay)
           /\ \A f \in 1..Len(lay) :
                 /\ IsSeq(TextOf(lay, blks)[f]) /\ Len(TextOf(lay, blks)[f]) = Len(lay[f])
                 /\ TextOf(lay, blks)[f] = [j \in DOMAIN lay[f] |-> blks[lay[f][j]]]
                 /\ \A j \in 1..Len(lay[f]) : TextOf(lay, blks)[f][j] = blks[lay[f][j]]
<1> DEFINE T == TextOf(lay, blks)
<1>1. Len(lay) \in Nat /\ DOMAIN lay = 1..Len(lay)
  BY SeqFacts
<1>2. T = [f \in 1..Len(lay) |-> [j \in DOMAIN lay[f] |-> blks[lay[f][j]]]]
  BY <1>1 DEF TextOf
<1>3. IsSeq(T) /\ Len(T) = Len(lay)
  <2>1. DOMAIN T = 1..Len(lay) /\ T = [f \in 1..Len(lay) |-> T[f]]
    BY <1>2
  <2> HIDE DEF T
  <2>2. QED
    BY <2>1, <1>1, FunctionIsSeq
<1>4. ASSUME NEW f \in 1..Len(lay)
      PROVE  /\ IsSeq(T[f]) /\ Len(T[f]) = Len(lay[f])
             /\ T[f] = [j \in DOMAIN lay[f] |-> blks[lay[f][j]]]
             /\ \A j \in 1..Len(lay[f]) : T[f][j] = blks[lay[f][j]]
  <2>1. Len(lay[f]) \in Nat /\ DOMAIN lay[f] = 1..Len(lay[f])
    BY <1>1, SeqFacts
  <2>2. T[f] = [j \in 1..Len(lay[f]) |-> blks[lay[f][j]]]
    BY <2>1, <1>2
  <2>3. T[f] = [j \in 1..Len(lay[f]) |-> T[f][j]] /\ DOMAIN T[f] = 1..Len(lay[f])
    BY <2>2
  <2>4. IsSeq(T[f]) /\ Len(T[f]) = Len(lay[f])
    <3> DEFINE t == T[f]
    <3>1. t = [j \in 1..Len(lay[f]) |-> t[j]] /\ DOMAIN t = 1..Len(lay[f])
      BY <2>3
    <3> HIDE DEF t
    <3>2. IsSeq(t) /\ Len(t) = Len(lay[f])
      BY <3>1, <2>1, FunctionIsSeq
    <3>3. QED
      BY <3>2 DEF t
  <2>5. QED
    BY <2>1, <2>2, <2>4
<1>5. QED
  BY <1>1, <1>2, <1>3, <1>4

\* What the code is, and what a text says of it, in a state.
TextIs(t, lay, blks) ==
    /\ IsSeq(t) /\ Len(t) = Len(lay) /\ DOMAIN t = 1..Len(lay)
    /\ \A f \in 1..Len(lay) : /\ IsSeq(t[f]) /\ Len(t[f]) = Len(lay[f])
                              /\ t[f] = [j \in DOMAIN lay[f] |-> blks[lay[f][j]]]
                              /\ \A j \in 1..Len(lay[f]) : t[f][j] = blks[lay[f][j]]

LEMMA TextNow == ASSUME BuilderInv PROVE TextIs(text, layout, blocks)
<1>1. text = TextOf(layout, blocks)
  BY DEF text, TextOf
<1>2. IsSeq(layout) /\ \A f \in DOMAIN layout : IsSeq(layout[f])
  BY DEF BuilderInv, Shape
<1>3. TextIs(TextOf(layout, blocks), layout, blocks)
  BY <1>2, TextFacts DEF TextIs
<1>4. QED
  BY <1>1, <1>3

LEMMA TextThen == ASSUME BuilderInv' PROVE TextIs(text', layout', blocks')
<1>1. text' = TextOf(layout', blocks')
  BY DEF text, TextOf
<1>2. IsSeq(layout') /\ \A f \in DOMAIN layout' : IsSeq(layout'[f])
  BY DEF BuilderInv, Shape
<1>3. TextIs(TextOf(layout', blocks'), layout', blocks')
  BY <1>2, TextFacts DEF TextIs
<1>4. QED
  BY <1>1, <1>3

\* What is in a block that is not the one the builder points at stays there.
LEMMA EarlierBlocks ==
    ASSUME BuilderInv, InFunction, OnlyAtEnd, NEW f \in DOMAIN layout,
           NEW j \in DOMAIN layout[f], ~(f = Len(layout) /\ j = Len(layout[f]))
    PROVE  blocks'[layout[f][j]] = blocks[layout[f][j]]
<1> DEFINE F == Len(layout)
           b == layout[f][j]
<1>1. /\ F \in DOMAIN layout /\ IsSeq(layout[F]) /\ IsSeq(layout[f]) /\ layout[F] # <<>>
      /\ ip = Last(layout[F]) /\ Range(layout[f]) \subseteq DOMAIN blocks
  BY CodeFacts DEF BuilderInv, Shape, Inserted
<1>2. Len(layout[F]) \in DOMAIN layout[F] /\ ip = layout[F][Len(layout[F])]
  BY <1>1, LastInRange
<1>3. b # ip
  <2>1. SUFFICES ASSUME b = ip PROVE FALSE
    OBVIOUS
  <2>2. layout[f][j] = layout[F][Len(layout[F])]
    BY <2>1, <1>2
  <2>3. f = F /\ j = Len(layout[F])
    BY <2>2, <1>1, <1>2 DEF BuilderInv, Once
  <2>4. QED
    BY <2>3
<1>4. b \in DOMAIN blocks
  BY <1>1, SeqFacts
<1>5. QED
  BY <1>3, <1>4 DEF OnlyAtEnd

\* Writing at the end of the code is writing on in the stream of blocks.
LEMMA WritingOn ==
    ASSUME BuilderInv, BuilderInv', InFunction, OnlyAtEnd,
           currentFunction' \in {currentFunction, 0}
    PROVE  /\ Stream!WriteOn
           /\ currentFunction' = 0 => Stream!Terminated(Last(text'[Len(text)]))
<1> DEFINE F == Len(layout)
           old == layout[F]
           new == layout'[F]
           m == Len(old)
           n == Len(new)
<1>1. /\ F \in Nat /\ F \in 1..F /\ DOMAIN layout = 1..F /\ currentFunction = F
      /\ IsSeq(old) /\ old # <<>> /\ ip = Last(old)
      /\ IsSeq(blocks[ip]) /\ \A f \in 1..F : IsSeq(layout[f])
  BY CodeFacts DEF BuilderInv, Shape
<1>2. /\ Len(layout') = F /\ IsSeq(layout') /\ DOMAIN layout' = 1..F
      /\ \A f \in 1..F : f # F => layout'[f] = layout[f]
  <2>1. Len(layout') = F /\ IsSeq(layout')
    BY DEF OnlyAtEnd
  <2>2. QED
    BY <2>1, <1>1, SeqFacts DEF OnlyAtEnd
<1>3. /\ m \in Nat /\ m \in 1..m /\ m >= 1 /\ DOMAIN old = 1..m /\ ip = old[m]
  BY <1>1, SeqFacts, LastInRange
<1>4. /\ n \in Nat /\ n >= m /\ IsSeq(new) /\ DOMAIN new = 1..n
      /\ \A j \in 1..m : new[j] = old[j]
  <2>1. PICK placed : IsSeq(placed) /\ new = old \o placed
    BY DEF OnlyAtEnd
  <2>2. /\ IsSeq(old \o placed) /\ Len(old \o placed) = m + Len(placed) /\ Len(placed) \in Nat
        /\ \A j \in 1..m : (old \o placed)[j] = old[j]
    BY <2>1, <1>1, ConcatFacts, SeqFacts
  <2>3. IsSeq(new) /\ n = m + Len(placed) /\ \A j \in 1..m : new[j] = old[j]
    BY <2>1, <2>2
  <2>4. n \in Nat /\ n >= m
    BY <2>2, <2>3, <1>3
  <2>5. QED
    BY <2>3, <2>4, SeqFacts
<1>5. ASSUME NEW f \in 1..F, NEW j \in DOMAIN layout[f], f # F \/ j # m
      PROVE  blocks'[layout[f][j]] = blocks[layout[f][j]]
  BY <1>1, <1>5, EarlierBlocks
<1>6. PICK ins : IsSeq(ins) /\ blocks'[ip] = blocks[ip] \o ins
  BY DEF OnlyAtEnd
<1>7. TextIs(text, layout, blocks) /\ TextIs(text', layout', blocks')
  BY TextNow, TextThen
<1> HIDE DEF F, m, n
<1>8. Len(text) = F /\ Len(text') = F
  BY <1>2, <1>7 DEF TextIs, F
<1>9. ASSUME NEW f \in 1..F - 1 PROVE text'[f] = text[f]
  <2>1. f \in 1..F /\ f # F /\ f \in 1..Len(layout) /\ f \in 1..Len(layout')
    <3>1. f \in 1..F /\ f # F
      BY <1>1
    <3>2. QED
      BY <3>1, <1>2 DEF F
  <2>2. layout'[f] = layout[f]
    BY <2>1, <1>2
  <2>3. /\ text[f] = [j \in DOMAIN layout[f] |-> blocks[layout[f][j]]]
        /\ text'[f] = [j \in DOMAIN layout'[f] |-> blocks'[layout'[f][j]]]
    BY <2>1, <1>7 DEF TextIs
  <2>4. \A j \in DOMAIN layout[f] : blocks'[layout[f][j]] = blocks[layout[f][j]]
    BY <2>1, <1>5
  <2>5. QED
    BY <2>2, <2>3, <2>4
<1>10. /\ Len(text[F]) = m /\ \A j \in 1..m : text[F][j] = blocks[old[j]]
       /\ IsSeq(text'[F]) /\ Len(text'[F]) = n /\ \A j \in 1..n : text'[F][j] = blocks'[new[j]]
  <2>1. F \in 1..Len(layout) /\ F \in 1..Len(layout')
    BY <1>1, <1>2 DEF F
  <2>2. QED
    BY <2>1, <1>7 DEF TextIs, m, n, F
<1> DEFINE told == text[F]
           tnew == text'[F]
<1>11. ASSUME NEW j \in 1..m - 1 PROVE tnew[j] = told[j]
  <2>1. j \in 1..m /\ j # m /\ j \in 1..n /\ new[j] = old[j] /\ F \in 1..F
    BY <1>1, <1>3, <1>4
  <2>2. blocks'[old[j]] = blocks[old[j]]
    BY <2>1, <1>3, <1>5
  <2>3. QED
    BY <2>1, <2>2, <1>10
<1>12. IsPrefix(told[m], tnew[m])
  <2>1. told[m] = blocks[ip] /\ tnew[m] = blocks'[ip]
    <3>1. m \in 1..m /\ m \in 1..n /\ new[m] = old[m]
      BY <1>3, <1>4
    <3>2. QED
      BY <3>1, <1>3, <1>10
  <2>2. QED
    BY <2>1, <1>1, <1>6, PrefixFacts
<1>13. ASSUME NEW j \in 1..n, j # n \/ currentFunction' = 0
       PROVE  Stream!Terminated(tnew[j])
  <2>1. EndsInTerminator(blocks'[new[j]])
    <3>1. F \in DOMAIN layout' /\ j \in DOMAIN layout'[F] /\ currentFunction' \in {F, 0} /\ F # 0
      BY <1>1, <1>2, <1>4
    <3>2. \/ F = currentFunction' /\ j = Len(layout'[F])
          \/ EndsInTerminator(blocks'[layout'[F][j]])
      BY <3>1 DEF BuilderInv, WellFormedBlocks
    <3>3. QED
      BY <3>1, <3>2, <1>13 DEF n
  <2>2. tnew[j] = blocks'[new[j]]
    BY <1>10
  <2> HIDE DEF tnew, new
  <2>3. QED
    BY <2>1, <2>2 DEF Stream!Terminated, Stream!Last, EndsInTerminator, Last
<1> HIDE DEF told, tnew
<1>14. Len(told) = m /\ Len(tnew) = n /\ IsSeq(tnew)
  BY <1>10 DEF told, tnew
<1>15. Stream!Continues(told, tnew)
  <2>1. \A j \in 1..n - 1 : Stream!Terminated(tnew[j])
    BY <1>4, <1>13
  <2>2. QED
    BY <2>1, <1>4, <1>11, <1>12, <1>14 DEF Stream!Continues, Stream!IsPrefix, IsPrefix
<1>16. Stream!WriteOn
  BY <1>8, <1>9, <1>15 DEF Stream!WriteOn, told, tnew
<1>17. ASSUME currentFunction' = 0 PROVE Stream!Terminated(Last(text'[Len(text)]))
  <2>1. Last(tnew) = tnew[n] /\ n \in 1..n
    BY <1>3, <1>4, <1>14 DEF Last
  <2>2. Stream!Terminated(Last(tnew))
    BY <2>1, <1>13, <1>17
  <2>3. QED
    BY <2>2, <1>8 DEF tnew
<1>18. QED
  BY <1>16, <1>17

\* Entering a function begins one, with an empty block.
LEMMA Beginning == ASSUME BuilderInv, BuilderInv', VisitFunDeclaration PROVE Stream!Begin
<1> DEFINE F == Len(layout)
           n == Len(blocks)
           now == text'
           entry == << <<>> >>
           longer == Append(text, entry)
<1>1. /\ IsSeq(blocks) /\ IsSeq(layout) /\ blocks' = Append(blocks, <<>>)
      /\ layout' = Append(layout, <<n + 1>>) /\ currentFunction = 0 /\ currentFunction' = F + 1
      /\ F \in Nat /\ n \in Nat /\ DOMAIN layout = 1..F
      /\ \A f \in 1..F : IsSeq(layout[f]) /\ Range(layout[f]) \subseteq 1..n
  BY EntryFacts, SeqFacts DEF BuilderInv, Shape, Inserted
<1>2. /\ Len(layout') = F + 1 /\ layout'[F + 1] = <<n + 1>>
      /\ \A f \in 1..F : layout'[f] = layout[f]
  BY <1>1, AppendFacts
<1>3. /\ \A b \in 1..n : blocks'[b] = blocks[b]
      /\ blocks'[n + 1] = <<>>
  BY <1>1, AppendFacts
<1>4. TextIs(text, layout, blocks) /\ TextIs(now, layout', blocks')
  BY TextNow, TextThen
<1> HIDE DEF F, n, now
<1>5. IsSeq(text) /\ Len(text) = F /\ IsSeq(now) /\ Len(now) = F + 1
  BY <1>2, <1>4 DEF TextIs, F
<1>6. ASSUME NEW f \in 1..F PROVE now[f] = text[f]
  <2>1. f \in 1..Len(layout) /\ f \in 1..Len(layout')
    BY <1>1, <1>2 DEF F
  <2>2. /\ text[f] = [j \in DOMAIN layout[f] |-> blocks[layout[f][j]]]
        /\ now[f] = [j \in DOMAIN layout'[f] |-> blocks'[layout'[f][j]]]
    BY <2>1, <1>4 DEF TextIs
  <2>3. \A j \in DOMAIN layout[f] : layout[f][j] \in 1..n
    BY <1>1, SeqFacts
  <2>4. QED
    BY <2>2, <2>3, <1>2, <1>3
<1>7. now[F + 1] = entry
  <2>1. F + 1 \in 1..Len(layout')
    BY <1>1, <1>2
  <2>2. now[F + 1] = [j \in DOMAIN layout'[F + 1] |-> blocks'[layout'[F + 1][j]]]
    BY <2>1, <1>4 DEF TextIs
  <2>3. DOMAIN <<n + 1>> = 1..1 /\ <<n + 1>>[1] = n + 1
    OBVIOUS
  <2>4. now[F + 1] = [j \in 1..1 |-> <<>>]
    BY <2>2, <2>3, <1>2, <1>3
  <2>5. QED
    BY <2>4
<1>8. /\ IsSeq(longer) /\ Len(longer) = F + 1
      /\ \A f \in 1..F : longer[f] = text[f]
      /\ longer[F + 1] = entry
  BY <1>5, AppendFacts
<1> HIDE DEF entry, longer
<1>9. now = longer
  <2>1. \A f \in 1..F + 1 : now[f] = longer[f]
    BY <1>1, <1>6, <1>7, <1>8
  <2>2. /\ now = [f \in 1..F + 1 |-> now[f]]
        /\ longer = [f \in 1..F + 1 |-> longer[f]]
    BY <1>5, <1>8 DEF IsSeq
  <2>3. QED
    BY <2>1, <2>2
<1>10. ~building /\ building'
  BY <1>1 DEF building
<1>11. QED
  BY <1>9, <1>10 DEF Stream!Begin, now, longer, entry

\* Each step of the builder is a step of the stream of blocks, or none.
LEMMA StepRefines ==
    ASSUME BuilderInv, BuilderInv', [Next]_vars
    PROVE  [Stream!Next]_(Stream!vars)
<1>1. CASE WritesOn
  <2>1. building /\ building' /\ Stream!WriteOn
    BY <1>1, WritingOn, CodeFacts DEF WritesOn, building
  <2>2. QED
    BY <2>1 DEF Stream!Next, Stream!Write
<1>2. CASE FunEnd
  <2>1. InFunction /\ OnlyAtEnd /\ currentFunction' = 0
    BY <1>2, FunEndAtEnd DEF FunEnd
  <2>2. building /\ ~building'
    BY <2>1, CodeFacts DEF building
  <2>3. Stream!WriteOn /\ Stream!Terminated(Last(text'[Len(text)]))
    BY <2>1, WritingOn
  <2>4. QED
    BY <2>2, <2>3 DEF Stream!Next, Stream!Close, Stream!Last, Last
<1>3. CASE VisitFunDeclaration
  BY <1>3, Beginning DEF Stream!Next
<1>4. CASE UNCHANGED code /\ currentFunction' = currentFunction
  BY <1>4 DEF code, text, building, Stream!vars
<1>5. QED
  BY <1>1, <1>2, <1>3, <1>4, StepKinds

\* At first the module has three functions, declared without blocks.
LEMMA InitRefines == ASSUME Init PROVE Stream!Init
<1>1. layout = [f \in DOMAIN Predefined |-> <<>>] /\ currentFunction = 0
  BY DEF Init
<1>2. text = [f \in DOMAIN Predefined |-> [j \in DOMAIN <<>> |-> blocks[<<>>[j]]]]
  BY <1>1 DEF text
<1>3. [j \in DOMAIN <<>> |-> blocks[<<>>[j]]] = <<>>
  OBVIOUS
<1>4. QED
  BY <1>1, <1>2, <1>3 DEF Stream!Init, building

\* CminusBuilder implements BlockStream: the visit methods create blocks
\* early and insert them in the middle of other visits, but the module they
\* leave is written front to back (cminus_builder.cpp:86-98 for the functions,
\* 159-265 for the blocks).
THEOREM BuilderWritesFrontToBack == Spec => WrittenFrontToBack
<1>1. Init => Stream!Init
  BY InitRefines
<1>2. BuilderInv /\ BuilderInv' /\ [Next]_vars => [Stream!Next]_(Stream!vars)
  BY StepRefines
<1>3. QED
  BY <1>1, <1>2, BuilderInvariance, PTL DEF Spec, WrittenFrontToBack, Stream!Spec

-----------------------------------------------------------------------------
(* Where instructions lead.                                                *)

\* The blocks that instructions lead to.
LeadsTo(ins) == UNION {Range(x.to) : x \in Range(ins)}

\* Appended instructions lead where they led.
LEMMA LeadsConcat ==
    ASSUME NEW s, NEW t, IsSeq(s), IsSeq(t)
    PROVE  LeadsTo(s \o t) = LeadsTo(s) \cup LeadsTo(t)
<1>1. Range(s \o t) = Range(s) \cup Range(t)
  BY ConcatFacts
<1>2. QED
  BY <1>1, Zenon DEF LeadsTo

LEMMA LeadsShort ==
    /\ LeadsTo(<<>>) = {}
    /\ \A x : LeadsTo(<<x>>) = Range(x.to)
    /\ \A x, y : LeadsTo(<<x, y>>) = Range(x.to) \cup Range(y.to)
<1>1. LeadsTo(<<>>) = {}
  BY ShortSeqs DEF LeadsTo
<1>2. ASSUME NEW x PROVE LeadsTo(<<x>>) = Range(x.to)
  <2>1. Range(<<x>>) = {x}
    BY ShortSeqs
  <2>2. QED
    BY <2>1 DEF LeadsTo
<1>3. ASSUME NEW x, NEW y PROVE LeadsTo(<<x, y>>) = Range(x.to) \cup Range(y.to)
  <2>1. Range(<<x, y>>) = {x, y}
    BY ShortSeqs
  <2>2. QED
    BY <2>1 DEF LeadsTo
<1>4. QED
  BY <1>1, <1>2, <1>3

LEMMA LeadsAppend ==
    ASSUME NEW s, NEW x, IsSeq(s)
    PROVE  IsSeq(Append(s, x)) /\ LeadsTo(Append(s, x)) = LeadsTo(s) \cup Range(x.to)
<1>1. Append(s, x) = s \o <<x>> /\ IsSeq(<<x>>) /\ LeadsTo(<<x>>) = Range(x.to)
  BY AppendConcat, ShortSeqs, LeadsShort
<1>2. IsSeq(Append(s, x))
  BY AppendFacts
<1>3. LeadsTo(s \o <<x>>) = LeadsTo(s) \cup LeadsTo(<<x>>)
  BY <1>1, LeadsConcat
<1>4. QED
  BY <1>1, <1>2, <1>3

\* Only branches lead anywhere.
LEMMA NoTargets ==
    /\ \A op, args, ty : Instr(op, args, ty).to = <<>>
    /\ \A v : Returning(v).to = <<>>
    /\ \A v : Load(v).to = <<>>
    /\ \A v : Ret(v).to = <<>>
    /\ \A v, w : Store(v, w).to = <<>>
    /\ \A v, w : Element(v, w).to = <<>>
    /\ \A v, w : Call(v, w).to = <<>>
    /\ \A op, l, r : ICmp(op, l, r).to = <<>>
    /\ \A ty : Alloca(ty).to = <<>>
    /\ \A n : AllocaArray(n).to = <<>>
    /\ RetVoid.to = <<>>
<1>1. \A op, args, ty : Instr(op, args, ty).to = <<>>
  BY DEF Instr
<1>2. \A op, args, to : Branching(op, args, to).to = to
  BY DEF Branching
<1>3. (\A v : Ret(v).to = <<>>) /\ RetVoid.to = <<>>
  BY <1>2 DEF Ret, RetVoid
<1>4. /\ \A v : Returning(v).to = <<>>
      /\ \A v : Load(v).to = <<>>
      /\ \A v, w : Store(v, w).to = <<>>
      /\ \A v, w : Element(v, w).to = <<>>
      /\ \A v, w : Call(v, w).to = <<>>
      /\ \A op, l, r : ICmp(op, l, r).to = <<>>
      /\ \A ty : Alloca(ty).to = <<>>
      /\ \A n : AllocaArray(n).to = <<>>
  BY <1>1 DEF Returning, Load, Store, Element, Call, ICmp, Alloca, AllocaArray
<1>5. QED
  BY <1>1, <1>3, <1>4

\* Instructions that take no element but an array's first one.
Harmless(ins) == \A x \in Range(ins) : ~Indexed(x)

\* One that does not branch either, and lists of these.
Plain(x) == x.to = <<>> /\ ~Indexed(x)
Still(ins) == IsSeq(ins) /\ LeadsTo(ins) = {} /\ Harmless(ins)

LEMMA PlainInstructions ==
    /\ \A op, args, ty : op # "gep" => Plain(Instr(op, args, ty))
    /\ \A op, l, r : op # "gep" => Plain(ICmp(op, l, r))
    /\ \A v : Plain(Returning(v)) /\ Plain(Load(v)) /\ Plain(Ret(v))
    /\ \A v, w : Plain(Store(v, w)) /\ Plain(Call(v, w))
    /\ \A v : Plain(Element(v, Const(0)))
    /\ \A ty : Plain(Alloca(ty)) /\ Plain(AllocaArray(ty))
    /\ Plain(RetVoid)
<1>1. \A op, args, ty : op # "gep" => Plain(Instr(op, args, ty))
  BY DEF Plain, Indexed, Instr
<1>2. \A op, args, to : op # "gep" => ~Indexed(Branching(op, args, to))
  BY DEF Indexed, Branching
<1>3. Plain(RetVoid) /\ \A v : Plain(Ret(v))
  BY <1>2, NoTargets DEF Plain, Ret, RetVoid
<1>4. /\ \A op, l, r : op # "gep" => Plain(ICmp(op, l, r))
      /\ \A v : Plain(Returning(v)) /\ Plain(Load(v))
      /\ \A v, w : Plain(Store(v, w)) /\ Plain(Call(v, w))
      /\ \A ty : Plain(Alloca(ty)) /\ Plain(AllocaArray(ty))
  BY <1>1 DEF Returning, Load, Store, Call, ICmp, Alloca, AllocaArray
<1>5. ASSUME NEW v PROVE Plain(Element(v, Const(0)))
  <2> DEFINE c == Const(0)
             args == IF v.ty = "arr*" THEN <<v, c, c>> ELSE <<v, c>>
  <2>1. Element(v, c) = Instr("gep", args, "i32*")
    BY DEF Element
  <2>2. Element(v, c).to = <<>> /\ Element(v, c).args = args
    BY <2>1 DEF Instr
  <2> HIDE DEF c
  <2>3. Last(<<v, c, c>>) = c /\ Last(<<v, c>>) = c
    BY DEF Last
  <2>4. Last(args) = c
    BY <2>3
  <2> HIDE DEF args
  <2>5. QED
    BY <2>2, <2>4 DEF Plain, Indexed, c
<1>6. QED
  BY <1>1, <1>3, <1>4, <1>5

LEMMA BrTarget == ASSUME NEW b PROVE Range(Br(b).to) = {b}
<1>1. Br(b).to = <<b>>
  BY DEF Br, Branching
<1>2. QED
  BY <1>1, ShortSeqs

\* Instructions that lead nowhere, and the lists they make.
LEMMA NowhereShort ==
    ASSUME NEW x, x.to = <<>>
    PROVE  /\ IsSeq(<<x>>) /\ LeadsTo(<<x>>) = {}
           /\ \A s : IsSeq(s) => IsSeq(Append(s, x)) /\ LeadsTo(Append(s, x)) = LeadsTo(s)
<1>1. Range(x.to) = {}
  BY ShortSeqs
<1>2. IsSeq(<<x>>) /\ LeadsTo(<<x>>) = {}
  BY <1>1, ShortSeqs, LeadsShort
<1>3. ASSUME NEW s, IsSeq(s) PROVE IsSeq(Append(s, x)) /\ LeadsTo(Append(s, x)) = LeadsTo(s)
  BY <1>1, <1>3, LeadsAppend
<1>4. QED
  BY <1>2, <1>3

LEMMA HarmlessAppend ==
    ASSUME NEW s, IsSeq(s), Harmless(s), NEW x, ~Indexed(x)
    PROVE  Harmless(Append(s, x))
<1>1. Append(s, x) = s \o <<x>> /\ IsSeq(<<x>>) /\ Range(<<x>>) = {x}
  BY AppendConcat, ShortSeqs
<1>2. Range(s \o <<x>>) = Range(s) \cup {x}
  BY <1>1, ConcatFacts
<1>3. QED
  BY <1>1, <1>2 DEF Harmless

LEMMA StillAppend ==
    ASSUME NEW s, Still(s), NEW x, Plain(x)
    PROVE  Still(Append(s, x))
  BY NowhereShort, HarmlessAppend DEF Still, Plain

LEMMA StillShort == Still(<<>>) /\ \A x : Plain(x) => Still(<<x>>)
<1>1. Still(<<>>)
  BY LeadsShort, ShortSeqs DEF Still, Harmless
<1>2. ASSUME NEW x, Plain(x) PROVE Still(<<x>>)
  BY <1>2, NowhereShort, ShortSeqs DEF Still, Harmless, Plain
<1>3. QED
  BY <1>1, <1>2

\* Calling currentExpression() builds no branch and takes no element, and
\* testing its value builds a branch to the two blocks asked for.
LEMMA ForcedLeads == ASSUME ValueStays PROVE Still(Forced.ins)
<1>1. Forced.ins = <<>> \/ Forced.ins = <<currentExpression>>
  BY DEF Forced
<1>2. Plain(currentExpression)
  BY DEF ValueStays, Plain, Indexed
<1>3. QED
  BY <1>1, <1>2, StillShort

LEMMA BranchOnLeads ==
    ASSUME ValueStays, NEW t, NEW f
    PROVE  LeadsTo(BranchOn(t, f)) = {t, f} /\ Harmless(BranchOn(t, f))
<1>1. Still(Compared)
  <2> DEFINE x == ICmp("icmp_ne", Forced.val, Const(0))
  <2>1. Plain(x) /\ Compared = Append(Forced.ins, x)
    BY PlainInstructions DEF Compared
  <2> HIDE DEF x
  <2>2. QED
    BY <2>1, ForcedLeads, StillAppend
<1>2. ASSUME NEW s, NEW c, Still(s)
      PROVE  /\ LeadsTo(Append(s, CondBr(c, t, f))) = {t, f}
             /\ Harmless(Append(s, CondBr(c, t, f)))
  <2> DEFINE x == CondBr(c, t, f)
  <2>1. Range(x.to) = {t, f} /\ ~Indexed(x)
    BY ShortSeqs DEF CondBr, Branching, Indexed
  <2> HIDE DEF x
  <2>2. LeadsTo(Append(s, x)) = LeadsTo(s) \cup Range(x.to)
    BY <1>2, LeadsAppend DEF Still
  <2>3. Harmless(Append(s, x))
    BY <1>2, <2>1, HarmlessAppend DEF Still
  <2>4. QED
    BY <1>2, <2>1, <2>2, <2>3 DEF x, Still
<1>3. Still(Forced.ins)
  BY ForcedLeads
<1> DEFINE direct == Append(Forced.ins, CondBr(Forced.val, t, f))
           tested == Append(Compared, CondBr(Here(Compared), t, f))
<1>4. LeadsTo(direct) = {t, f} /\ Harmless(direct)
  BY <1>2, <1>3
<1>5. LeadsTo(tested) = {t, f} /\ Harmless(tested)
  BY <1>1, <1>2
<1>6. BranchOn(t, f) = direct \/ BranchOn(t, f) = tested
  BY DEF BranchOn
<1> HIDE DEF direct, tested
<1>7. QED
  BY <1>4, <1>5, <1>6

LEMMA JoinAtLeads == \A b : LeadsTo(JoinAt(b)) \subseteq {b} /\ Harmless(JoinAt(b))
<1>1. SUFFICES ASSUME NEW b PROVE LeadsTo(JoinAt(b)) \subseteq {b} /\ Harmless(JoinAt(b))
  OBVIOUS
<1>2. LeadsTo(<<Br(b)>>) = {b}
  BY LeadsShort, BrTarget
<1>3. Harmless(<<Br(b)>>)
  <2>1. Range(<<Br(b)>>) = {Br(b)} /\ ~Indexed(Br(b))
    BY ShortSeqs DEF Br, Branching, Indexed
  <2>2. QED
    BY <2>1 DEF Harmless
<1>4. LeadsTo(<<>>) = {} /\ Harmless(<<>>)
  BY StillShort DEF Still
<1>5. JoinAt(b) = <<>> \/ JoinAt(b) = <<Br(b)>>
  BY DEF JoinAt
<1>6. QED
  BY <1>2, <1>3, <1>4, <1>5

\* Targets, in terms of the instructions.
LEMMA TargetsLead == \A b : Targets(b) = LeadsTo(blocks[b])
  BY DEF Targets, LeadsTo

LEMMA TargetsLeadThen == \A b : Targets(b)' = LeadsTo(blocks'[b])
  BY DEF Targets, LeadsTo
-----------------------------------------------------------------------------
(* The frames.                                                             *)

\* The blocks that frames hold.
Waiting(frames) == UNION {Range(frames[d].todo) : d \in DOMAIN frames}

LEMMA WaitingConcat ==
    ASSUME NEW s, NEW t, IsSeq(s), IsSeq(t)
    PROVE  Waiting(s \o t) = Waiting(s) \cup Waiting(t)
<1>1. /\ IsSeq(s \o t) /\ Len(s \o t) = Len(s) + Len(t)
      /\ \A i \in 1..Len(s) : (s \o t)[i] = s[i]
      /\ \A i \in 1..Len(t) : (s \o t)[Len(s) + i] = t[i]
  BY ConcatFacts
<1>2. /\ Len(s) \in Nat /\ Len(t) \in Nat /\ DOMAIN s = 1..Len(s) /\ DOMAIN t = 1..Len(t)
      /\ DOMAIN (s \o t) = 1..Len(s) + Len(t)
  BY <1>1, SeqFacts
<1> DEFINE u == s \o t
<1>3. /\ \A i \in DOMAIN s : i \in DOMAIN u /\ u[i] = s[i]
      /\ \A i \in DOMAIN t : Len(s) + i \in DOMAIN u /\ u[Len(s) + i] = t[i]
  BY <1>1, <1>2
<1>4. ASSUME NEW d \in DOMAIN u
      PROVE  (\E i \in DOMAIN s : u[d] = s[i]) \/ (\E i \in DOMAIN t : u[d] = t[i])
  <2>1. CASE d <= Len(s)
    BY <2>1, <1>2, <1>3
  <2>2. CASE ~(d <= Len(s))
    <3>1. d - Len(s) \in DOMAIN t /\ Len(s) + (d - Len(s)) = d
      BY <2>2, <1>2
    <3>2. QED
      BY <3>1, <1>3
  <2>3. QED
    BY <2>1, <2>2
<1> HIDE DEF u
<1>5. Waiting(u) \subseteq Waiting(s) \cup Waiting(t)
  BY <1>4 DEF Waiting
<1>6. Waiting(s) \subseteq Waiting(u) /\ Waiting(t) \subseteq Waiting(u)
  BY <1>3 DEF Waiting
<1>7. QED
  BY <1>5, <1>6 DEF u

LEMMA WaitingShort ==
    /\ Waiting(<<>>) = {}
    /\ \A x : Waiting(<<x>>) = Range(x.todo)
    /\ \A x, y : Waiting(<<x, y>>) = Range(x.todo) \cup Range(y.todo)
<1>1. Waiting(<<>>) = {}
  BY DEF Waiting
<1>2. ASSUME NEW x PROVE Waiting(<<x>>) = Range(x.todo)
  BY DEF Waiting
<1>3. ASSUME NEW x, NEW y PROVE Waiting(<<x, y>>) = Range(x.todo) \cup Range(y.todo)
  <2>1. DOMAIN <<x, y>> = {1, 2} /\ <<x, y>>[1] = x /\ <<x, y>>[2] = y
    OBVIOUS
  <2>2. QED
    BY <2>1 DEF Waiting
<1>4. QED
  BY <1>1, <1>2, <1>3

\* A method that has just been entered holds nothing.
Entered(frame) == frame.todo = <<>> /\ frame.at = "visit"

\* The running frame gives way to `rest', to methods that have just been
\* entered, or to none.
Replaces(rest) ==
    \E extra : /\ IsSeq(extra) /\ work' = Callers \o extra
               /\ Waiting(extra) = Range(rest.todo)
               /\ \A d \in DOMAIN extra : extra[d] = rest \/ Entered(extra[d])

\* The ways a method goes on.
LEMMA GoesOn ==
    ASSUME BuilderInv, work # <<>>, NEW rest,
           \/ rest.todo = <<>> /\ Return
           \/ rest.todo = <<>> /\ \E child : work' = Append(Callers, Frame(child))
           \/ \E child : work' = Callers \o <<rest, Frame(child)>>
           \/ work' = Append(Callers, rest)
    PROVE  Replaces(rest)
<1>1. IsSeq(Callers)
  BY OuterFacts
<1>2. \A child : Entered(Frame(child)) /\ Range(Frame(child).todo) = {}
  BY ShortSeqs DEF Entered, Frame
<1>3. CASE rest.todo = <<>> /\ Return
  <2>1. work' = Callers \o <<>> /\ IsSeq(<<>>) /\ DOMAIN <<>> = {} /\ Waiting(<<>>) = {}
    BY <1>1, <1>3, ConcatEmpty, ShortSeqs, WaitingShort DEF Return
  <2>2. Range(rest.todo) = {}
    BY <1>3, ShortSeqs
  <2>3. QED
    BY <2>1, <2>2 DEF Replaces
<1>4. CASE rest.todo = <<>> /\ \E child : work' = Append(Callers, Frame(child))
  <2>1. PICK child : work' = Append(Callers, Frame(child))
    BY <1>4
  <2> DEFINE extra == <<Frame(child)>>
  <2>2. work' = Callers \o extra /\ IsSeq(extra) /\ DOMAIN extra = {1} /\ extra[1] = Frame(child)
    BY <2>1, <1>1, AppendConcat, ShortSeqs
  <2>3. Waiting(extra) = Range(rest.todo)
    BY <1>2, <1>4, WaitingShort, ShortSeqs
  <2> HIDE DEF extra
  <2>4. QED
    BY <2>2, <2>3, <1>2 DEF Replaces
<1>5. CASE \E child : work' = Callers \o <<rest, Frame(child)>>
  <2>1. PICK child : work' = Callers \o <<rest, Frame(child)>>
    BY <1>5
  <2> DEFINE extra == <<rest, Frame(child)>>
  <2>2. /\ work' = Callers \o extra /\ IsSeq(extra) /\ DOMAIN extra = {1, 2}
        /\ extra[1] = rest /\ extra[2] = Frame(child)
    BY <2>1, ShortSeqs
  <2>3. Waiting(extra) = Range(rest.todo) \cup Range(Frame(child).todo)
    BY WaitingShort
  <2> HIDE DEF extra
  <2>4. QED
    BY <2>2, <2>3, <1>2 DEF Replaces
<1>6. CASE work' = Append(Callers, rest)
  <2> DEFINE extra == <<rest>>
  <2>1. work' = Callers \o extra /\ IsSeq(extra) /\ DOMAIN extra = {1} /\ extra[1] = rest
    BY <1>6, <1>1, AppendConcat, ShortSeqs
  <2>2. Waiting(extra) = Range(rest.todo)
    BY WaitingShort
  <2> HIDE DEF extra
  <2>3. QED
    BY <2>1, <2>2 DEF Replaces
<1>7. QED
  BY <1>3, <1>4, <1>5, <1>6

\* The frames are the callers' and the running one.
LEMMA CallersAndTop ==
    ASSUME BuilderInv, work # <<>>
    PROVE  work = Callers \o <<Top>> /\ IsSeq(Callers) /\ IsSeq(<<Top>>)
<1> DEFINE W == Len(work)
           C == Callers
           t == <<Top>>
<1>1. /\ IsSeq(work) /\ W \in Nat /\ W >= 1 /\ Top = work[W]
      /\ IsSeq(C) /\ Len(C) = W - 1 /\ \A d \in 1..W - 1 : C[d] = work[d]
  BY OuterFacts
<1>2. IsSeq(t) /\ Len(t) = 1 /\ t[1] = work[W]
  BY <1>1, ShortSeqs
<1> HIDE DEF W, C, t
<1>3. /\ IsSeq(C \o t) /\ Len(C \o t) = Len(C) + 1
      /\ \A d \in 1..Len(C) : (C \o t)[d] = work[d]
      /\ (C \o t)[Len(C) + 1] = work[W]
  <2>1. /\ IsSeq(C \o t) /\ Len(C \o t) = Len(C) + Len(t)
        /\ \A d \in 1..Len(C) : (C \o t)[d] = C[d]
        /\ \A d \in 1..Len(t) : (C \o t)[Len(C) + d] = t[d]
    <3>1. IsSeq(C) /\ IsSeq(t)
      BY <1>1, <1>2
    <3>2. QED
      BY <3>1, ConcatFacts
  <2>2. 1 \in 1..Len(t)
    BY <1>2
  <2>3. (C \o t)[Len(C) + 1] = t[1]
    BY <2>1, <2>2
  <2>4. \A d \in 1..Len(C) : (C \o t)[d] = work[d]
    BY <2>1, <1>1
  <2>5. Len(C \o t) = Len(C) + 1 /\ (C \o t)[Len(C) + 1] = work[W]
    BY <2>1, <2>3, <1>2
  <2>6. QED
    BY <2>1, <2>4, <2>5
<1> DEFINE u == C \o t
<1>4. /\ IsSeq(u) /\ Len(u) = W /\ \A d \in 1..W : u[d] = work[d]
  <2>1. Len(C) + 1 = W /\ \A d \in 1..W : d \in 1..Len(C) \/ d = W
    BY <1>1
  <2>2. u[W] = work[W] /\ Len(u) = W
    BY <2>1, <1>3
  <2> HIDE DEF u
  <2>3. QED
    BY <2>1, <2>2, <1>3 DEF u
<1> HIDE DEF u
<1>5. u = [d \in 1..W |-> u[d]] /\ work = [d \in 1..W |-> work[d]]
  BY <1>1, <1>4 DEF IsSeq, W
<1>6. u = work
  <2>1. \A d \in 1..W : u[d] = work[d]
    BY <1>4
  <2>2. [d \in 1..W |-> u[d]] = [d \in 1..W |-> work[d]]
    BY <2>1
  <2>3. QED
    BY <2>2, <1>5
<1>7. QED
  BY <1>1, <1>2, <1>6 DEF u, C, t

\* What is held before and after.
LEMMA PendingFacts ==
    ASSUME BuilderInv, work # <<>>, NEW rest, Replaces(rest)
    PROVE  /\ Pending = Waiting(Callers) \cup Range(Top.todo)
           /\ Pending' = Waiting(Callers) \cup Range(rest.todo)
<1>1. work = Callers \o <<Top>> /\ IsSeq(Callers) /\ IsSeq(<<Top>>)
  BY CallersAndTop
<1>2. Pending = Waiting(work) /\ Pending' = Waiting(work')
  BY DEF Pending, Waiting
<1>3. Waiting(Callers \o <<Top>>) = Waiting(Callers) \cup Waiting(<<Top>>)
  BY <1>1, WaitingConcat
<1>4. Waiting(<<Top>>) = Range(Top.todo)
  BY WaitingShort
<1>5. PICK extra : /\ IsSeq(extra) /\ work' = Callers \o extra
                   /\ Waiting(extra) = Range(rest.todo)
  BY DEF Replaces
<1>6. Waiting(Callers \o extra) = Waiting(Callers) \cup Waiting(extra)
  BY <1>1, <1>5, WaitingConcat
<1>7. QED
  BY <1>1, <1>2, <1>3, <1>4, <1>5, <1>6

\* Callers keep what they know of their frames.
LEMMA FramesKept ==
    ASSUME BuilderInv, Frames, work # <<>>, NEW rest, Replaces(rest),
           FrameOK(rest, Reserve'), Reserve \subseteq Reserve'
    PROVE  Frames'
<1> DEFINE R == Reserve'
<1>1. PICK extra : /\ IsSeq(extra) /\ work' = Callers \o extra
                   /\ \A d \in DOMAIN extra : extra[d] = rest \/ Entered(extra[d])
  BY DEF Replaces
<1>2. /\ IsSeq(work) /\ Len(work) \in Nat /\ Len(work) >= 1 /\ DOMAIN work = 1..Len(work)
      /\ IsSeq(Callers) /\ Len(Callers) = Len(work) - 1
      /\ \A d \in 1..Len(work) - 1 : Callers[d] = work[d]
  BY OuterFacts
<1>3. \A d \in 1..Len(Callers) : FrameOK(Callers[d], R)
  <2>1. SUFFICES ASSUME NEW d \in 1..Len(Callers) PROVE FrameOK(Callers[d], R)
    OBVIOUS
  <2>2. d \in DOMAIN work /\ Callers[d] = work[d]
    BY <1>2
  <2>3. FrameOK(work[d], Reserve)
    BY <2>2 DEF Frames
  <2>4. QED
    BY <2>2, <2>3 DEF FrameOK
<1>4. \A d \in 1..Len(extra) : FrameOK(extra[d], R)
  <2>1. SUFFICES ASSUME NEW d \in 1..Len(extra) PROVE FrameOK(extra[d], R)
    OBVIOUS
  <2>2. extra[d] = rest \/ Entered(extra[d])
    BY <1>1, SeqFacts
  <2>3. QED
    BY <2>2 DEF FrameOK, Entered
<1> HIDE DEF R
<1>5. \A d \in DOMAIN (Callers \o extra) : FrameOK((Callers \o extra)[d], R)
  <2> DEFINE u == Callers \o extra
             m == Len(Callers)
             n == Len(extra)
  <2>1. /\ IsSeq(u) /\ Len(u) = m + n /\ m \in Nat /\ n \in Nat
        /\ \A i \in 1..m : u[i] = Callers[i]
        /\ \A i \in 1..n : u[m + i] = extra[i]
    BY <1>1, <1>2, ConcatFacts, SeqFacts
  <2>2. DOMAIN u = 1..m + n
    BY <2>1, SeqFacts
  <2> HIDE DEF u, m, n
  <2>3. SUFFICES ASSUME NEW d \in 1..m + n PROVE FrameOK(u[d], R)
    BY <2>2 DEF u
  <2>4. CASE d <= m
    BY <2>1, <2>4, <1>3 DEF m
  <2>5. CASE ~(d <= m)
    <3>1. d - m \in 1..n /\ m + (d - m) = d
      BY <2>1, <2>5
    <3>2. QED
      BY <3>1, <2>1, <1>4 DEF n
  <2>6. QED
    BY <2>4, <2>5
<1>6. QED
  BY <1>1, <1>5 DEF Frames, R
-----------------------------------------------------------------------------
(* A step inside a function.                                               *)

\* The step creates k blocks, appends ins where the builder points, and
\* inserts the blocks of placed.
Written(k, ins, placed) ==
    /\ OnlyAtEnd
    /\ k \in Nat /\ Len(blocks') = Len(blocks) + k /\ DOMAIN blocks' = 1..Len(blocks')
    /\ IsSeq(ins) /\ blocks'[ip] = blocks[ip] \o ins
    /\ IsSeq(placed) /\ layout'[Len(layout)] = layout[Len(layout)] \o placed

LEMMA BuildWrites ==
    ASSUME BuilderInv, InFunction, NEW k \in Nat, NEW added, NEW placed,
           Build(currentFunction, k, added, placed), OnlyAtEnd,
           \A b \in DOMAIN added : IsSeq(added[b]), IsSeq(placed), NEW ins, IsSeq(ins),
           IF ip \in DOMAIN added THEN added[ip] = ins ELSE ins = <<>>
    PROVE  Written(k, ins, placed)
<1>1. /\ IsSeq(blocks) /\ \A b \in DOMAIN blocks : IsSeq(blocks[b])
  BY CodeFacts
<1>2. /\ IsSeq(layout) /\ Len(layout) \in DOMAIN layout /\ currentFunction = Len(layout)
      /\ ip \in DOMAIN blocks
  BY CodeFacts
<1>3. /\ Len(blocks') = Len(blocks) + k /\ DOMAIN blocks' = 1..Len(blocks')
      /\ \A b \in DOMAIN blocks \ DOMAIN added : blocks'[b] = blocks[b]
      /\ \A b \in DOMAIN blocks \cap DOMAIN added : blocks'[b] = blocks[b] \o added[b]
  BY <1>1, BuiltBlocks, ZenonT(60)
<1>4. blocks'[ip] = blocks[ip] \o ins
  <2>1. CASE ip \in DOMAIN added
    BY <2>1, <1>2, <1>3
  <2>2. CASE ip \notin DOMAIN added
    <3>1. blocks'[ip] = blocks[ip] /\ IsSeq(blocks[ip]) /\ ins = <<>>
      BY <2>2, <1>1, <1>2, <1>3
    <3>2. QED
      BY <3>1, ConcatEmpty
  <2>3. QED
    BY <2>1, <2>2
<1>5. layout'[Len(layout)] = layout[Len(layout)] \o placed
  BY <1>2 DEF Build
<1>6. QED
  BY <1>3, <1>4, <1>5 DEF Written

LEMMA EmitWrites ==
    ASSUME BuilderInv, InFunction, NEW ins, IsSeq(ins), NEW placed, IsSeq(placed),
           EmitAndInsert(ins, placed)
    PROVE  Written(0, ins, placed)
<1> DEFINE added == Appending(ins)
<1>1. DOMAIN added = {ip} /\ added[ip] = ins
  BY DEF Appending
<1>2. Build(currentFunction, 0, added, placed)
  BY DEF EmitAndInsert
<1>3. OnlyAtEnd /\ 0 \in Nat
  BY EmitAtEnd
<1> HIDE DEF added
<1>4. /\ \A b \in DOMAIN added : IsSeq(added[b])
      /\ IF ip \in DOMAIN added THEN added[ip] = ins ELSE ins = <<>>
  BY <1>1
<1>5. QED
  BY <1>2, <1>3, <1>4, BuildWrites

LEMMA UnchangedWrites ==
    ASSUME BuilderInv, InFunction, UNCHANGED code
    PROVE  Written(0, <<>>, <<>>)
<1>1. /\ layout' = layout /\ blocks' = blocks
      /\ IsSeq(blocks[ip]) /\ IsSeq(layout[Len(layout)]) /\ Len(blocks) \in Nat
      /\ DOMAIN blocks = 1..Len(blocks)
  BY CodeFacts DEF code, BuilderInv, Shape
<1>2. OnlyAtEnd /\ IsSeq(<<>>)
  BY NothingAtEnd, ShortSeqs
<1>3. blocks[ip] \o <<>> = blocks[ip] /\ layout[Len(layout)] \o <<>> = layout[Len(layout)]
  BY <1>1, ConcatEmpty
<1>4. QED
  BY <1>1, <1>2, <1>3 DEF Written

\* The blocks held and inserted grow by those created: a step that inserts
\* some of the blocks its method holds goes on holding the others.
LEMMA MineGrows ==
    ASSUME BuilderInv, InFunction, work # <<>>, NEW rest, Replaces(rest),
           NEW k, NEW ins, NEW placed, Written(k, ins, placed),
           Range(placed) \cup Range(rest.todo) = Range(Top.todo) \cup Created
    PROVE  /\ Mine' = Mine \cup Created /\ Entry' = Entry /\ Reserve' = Reserve \cup Created
           /\ DOMAIN blocks' \subseteq DOMAIN blocks \cup Created
           /\ Mine \subseteq DOMAIN blocks /\ ip \in Mine
<1> DEFINE F == Len(layout)
<1>1. /\ F \in DOMAIN layout /\ IsSeq(layout[F]) /\ layout[F] # <<>> /\ ip = Last(layout[F])
      /\ Range(layout[F]) \subseteq DOMAIN blocks
      /\ Len(blocks) \in Nat /\ DOMAIN blocks = 1..Len(blocks)
  BY CodeFacts DEF BuilderInv, Shape, Inserted
<1>2. Len(layout') = F /\ layout'[F] = layout[F] \o placed /\ IsSeq(placed)
      /\ Len(blocks') = Len(blocks) + k /\ k \in Nat
  BY DEF Written, OnlyAtEnd
<1>3. /\ Range(layout[F] \o placed) = Range(layout[F]) \cup Range(placed)
      /\ (layout[F] \o placed)[1] = layout[F][1]
      /\ layout[F][1] \in Range(layout[F]) /\ ip \in Range(layout[F])
  <2>1. /\ Len(layout[F]) \in Nat /\ Len(layout[F]) >= 1
        /\ \A i \in 1..Len(layout[F]) : layout[F][i] \in Range(layout[F])
    BY <1>1, SeqFacts
  <2>2. 1 \in 1..Len(layout[F])
    BY <2>1
  <2>3. /\ Range(layout[F] \o placed) = Range(layout[F]) \cup Range(placed)
        /\ \A i \in 1..Len(layout[F]) : (layout[F] \o placed)[i] = layout[F][i]
    BY <1>1, <1>2, ConcatFacts
  <2>4. ip \in Range(layout[F])
    BY <1>1, LastInRange
  <2>5. QED
    BY <2>1, <2>2, <2>3, <2>4
<1> HIDE DEF F
<1>4. /\ Pending = Waiting(Callers) \cup Range(Top.todo)
      /\ Pending' = Waiting(Callers) \cup Range(rest.todo)
  BY PendingFacts
<1>5. /\ Mine = Range(layout[F]) \cup Pending
      /\ Mine' = Range(layout[F]) \cup Range(placed) \cup Pending'
      /\ Entry = layout[F][1] /\ Entry' = layout[F][1]
  BY <1>2, <1>3 DEF Mine, Entry, Inserted, F
<1>6. Mine' = Mine \cup Created
  BY <1>4, <1>5
<1>7. /\ Entry \in DOMAIN blocks /\ Entry \notin Created
      /\ DOMAIN blocks' \subseteq DOMAIN blocks \cup Created
  <2>1. Entry \in 1..Len(blocks)
    BY <1>1, <1>3, <1>5
  <2>2. \A b \in 1..Len(blocks) : b \notin Created
    BY <1>1, <1>2 DEF Created
  <2>3. DOMAIN blocks' = 1..Len(blocks) + k
    BY <1>2 DEF Written
  <2>4. \A b \in 1..Len(blocks) + k : b \in 1..Len(blocks) \/ b \in Created
    BY <1>1, <1>2 DEF Created
  <2>5. QED
    BY <2>1, <2>2, <2>3, <2>4, <1>1
<1>8. Pending \subseteq DOMAIN blocks
  <2>1. \A d \in DOMAIN work : Range(work[d].todo) \subseteq 1..Len(blocks)
    BY DEF BuilderInv, Held, Holds
  <2>2. QED
    BY <2>1, <1>1 DEF Pending
<1>9. Reserve' = Reserve \cup Created
  BY <1>5, <1>6, <1>7 DEF Reserve
<1>10. QED
  BY <1>1, <1>3, <1>5, <1>6, <1>7, <1>8, <1>9

\* What a step inside a function keeps, when its branches lead to blocks that
\* may be led to.
LEMMA CodePlacement ==
    ASSUME BuilderInv, PlacementInv, InFunction, work # <<>>,
           NEW rest, Replaces(rest), FrameOK(rest, Reserve \cup Created),
           NEW k, NEW ins, NEW placed, Written(k, ins, placed),
           Range(placed) \cup Range(rest.todo) = Range(Top.todo) \cup Created,
           LeadsTo(ins) \subseteq Reserve \cup Created,
           \A b \in Created : LeadsTo(blocks'[b]) \subseteq Reserve \cup Created
    PROVE  /\ Frames' /\ NoneLost'
           /\ \A f \in DOMAIN layout' : f # Len(layout) =>
                 \A b \in Inserted(f)' : Targets(b)' \subseteq Inserted(f)' \ {layout'[f][1]}
           /\ \A b \in Mine' : Targets(b)' \subseteq Reserve'
           /\ Mine' = Mine \cup Created /\ Reserve' = Reserve \cup Created /\ Entry' = Entry
<1> DEFINE F == Len(layout)
           R == Reserve \cup Created
<1>1. /\ Mine' = Mine \cup Created /\ Entry' = Entry /\ Reserve' = R
      /\ DOMAIN blocks' \subseteq DOMAIN blocks \cup Created
      /\ Mine \subseteq DOMAIN blocks /\ ip \in Mine
  BY MineGrows
<1>2. /\ OnlyAtEnd /\ IsSeq(ins) /\ blocks'[ip] = blocks[ip] \o ins
  BY DEF Written
<1>3. /\ F \in DOMAIN layout /\ DOMAIN layout = 1..F /\ currentFunction = F /\ F \in Nat
      /\ IsSeq(layout') /\ Len(layout') = F /\ DOMAIN layout' = 1..F
      /\ \A f \in DOMAIN layout : f # F => layout'[f] = layout[f]
      /\ \A b \in DOMAIN blocks : IsSeq(blocks[b])
  BY <1>2, CodeFacts, SeqFacts DEF OnlyAtEnd
<1>4. Frames'
  <2>1. FrameOK(rest, Reserve') /\ Reserve \subseteq Reserve'
    BY <1>1
  <2>2. QED
    BY <2>1, FramesKept DEF PlacementInv
<1>5. NoneLost'
  <2>1. \A b \in Mine' : b \in Pending' \/ \E f \in DOMAIN layout' : b \in Inserted(f)'
    BY <1>3 DEF Mine, Inserted
  <2>2. ASSUME NEW b \in DOMAIN blocks'
        PROVE  b \in Mine' \/ \E f \in DOMAIN layout' : b \in Inserted(f)'
    <3>1. b \in Created \/ b \in DOMAIN blocks
      BY <1>1
    <3>2. CASE b \in Created
      BY <3>2, <1>1
    <3>3. CASE b \in DOMAIN blocks
      <4>1. b \in Pending \/ \E f \in DOMAIN layout : b \in Inserted(f)
        BY <3>3 DEF PlacementInv, NoneLost
      <4>2. CASE b \in Pending
        BY <4>2, <1>1 DEF Mine
      <4>3. ASSUME NEW f \in DOMAIN layout, b \in Inserted(f)
            PROVE  b \in Mine' \/ \E g \in DOMAIN layout' : b \in Inserted(g)'
        <5>1. CASE f = F
          BY <5>1, <4>3, <1>1 DEF Mine
        <5>2. CASE f # F
          <6>1. f \in DOMAIN layout' /\ layout'[f] = layout[f]
            BY <5>2, <1>3
          <6>2. QED
            BY <6>1, <4>3 DEF Inserted
        <5>3. QED
          BY <5>1, <5>2
      <4>4. QED
        BY <4>1, <4>2, <4>3
    <3>4. QED
      BY <3>1, <3>2, <3>3
  <2>3. QED
    BY <2>1, <2>2 DEF NoneLost
<1> HIDE DEF F, R
<1>6. ASSUME NEW f \in DOMAIN layout', f # Len(layout), NEW b \in Inserted(f)'
      PROVE  Targets(b)' \subseteq Inserted(f)' \ {layout'[f][1]}
  <2>1. f \in DOMAIN layout /\ f # F /\ layout'[f] = layout[f] /\ IsSeq(layout[f])
    BY <1>3, <1>6 DEF BuilderInv, Shape, F
  <2>2. Inserted(f)' = Inserted(f) /\ b \in Inserted(f)
    BY <2>1 DEF Inserted
  <2>3. PICK j \in DOMAIN layout[f] : b = layout[f][j]
    BY <2>1, <2>2, SeqFacts DEF Inserted
  <2>4. ~(f = Len(layout) /\ j = Len(layout[f]))
    BY <2>1 DEF F
  <2>5. blocks'[b] = blocks[b]
    BY <2>1, <2>3, <2>4, <1>2, EarlierBlocks
  <2>6. Targets(b)' = Targets(b)
    BY <2>5 DEF Targets
  <2>7. Targets(b) \subseteq Inserted(f) \ {layout[f][1]}
    BY <2>1, <2>2, <1>3 DEF PlacementInv, Leading
  <2>8. QED
    BY <2>1, <2>2, <2>6, <2>7
<1>7. ASSUME NEW b \in Mine' PROVE Targets(b)' \subseteq Reserve'
  <2>1. Targets(b)' = LeadsTo(blocks'[b]) /\ Targets(b) = LeadsTo(blocks[b])
    BY TargetsLead, TargetsLeadThen
  <2>2. CASE b \in Created
    BY <2>1, <2>2, <1>1 DEF R
  <2>3. CASE b \in Mine
    <3>1. LeadsTo(blocks[b]) \subseteq Reserve
      BY <2>1, <2>3 DEF PlacementInv, Leading
    <3>2. CASE b # ip
      <4>1. b \in DOMAIN blocks /\ blocks'[b] = blocks[b]
        BY <3>2, <2>3, <1>1, <1>2 DEF OnlyAtEnd
      <4>2. QED
        BY <4>1, <3>1, <2>1, <1>1 DEF R
    <3>3. CASE b = ip
      <4>1. IsSeq(blocks[ip])
        BY <1>1, <1>3
      <4>2. LeadsTo(blocks[ip] \o ins) = LeadsTo(blocks[ip]) \cup LeadsTo(ins)
        BY <4>1, <1>2, LeadsConcat
      <4>3. QED
        BY <4>2, <3>1, <3>3, <2>1, <1>1, <1>2 DEF R
    <3>4. QED
      BY <3>2, <3>3
  <2>4. QED
    BY <2>2, <2>3, <1>1
<1>8. QED
  BY <1>1, <1>4, <1>5, <1>6, <1>7 DEF R

LEMMA InnerPlacement ==
    ASSUME BuilderInv, PlacementInv, InFunction, work # <<>>,
           currentFunction' = currentFunction,
           NEW rest, Replaces(rest), FrameOK(rest, Reserve \cup Created),
           NEW k, NEW ins, NEW placed, Written(k, ins, placed),
           Range(placed) \cup Range(rest.todo) = Range(Top.todo) \cup Created,
           LeadsTo(ins) \subseteq Reserve \cup Created,
           \A b \in Created : LeadsTo(blocks'[b]) \subseteq Reserve \cup Created,
           ValueStays'
    PROVE  PlacementInv'
<1>1. /\ Frames' /\ NoneLost'
      /\ \A f \in DOMAIN layout' : f # Len(layout) =>
            \A b \in Inserted(f)' : Targets(b)' \subseteq Inserted(f)' \ {layout'[f][1]}
      /\ \A b \in Mine' : Targets(b)' \subseteq Reserve'
  BY CodePlacement
<1>2. currentFunction' = Len(layout)
  BY CodeFacts
<1>3. Leading'
  BY <1>1, <1>2 DEF Leading
<1>4. QED
  BY <1>1, <1>3 DEF PlacementInv

\* What the steps inside a function have in common: the running method hands
\* the blocks it holds and creates on, or inserts them; it takes no element,
\* and branches only to blocks that wait, or back to the condition of a loop.
Proceeds ==
    /\ InFunction /\ work # <<>>
    /\ \E rest, k, ins, placed :
          /\ Replaces(rest) /\ FrameOK(rest, Loops \cup Created)
          /\ Written(k, ins, placed) /\ Harmless(ins)
          /\ Range(placed) \cup Range(rest.todo) = Range(Top.todo) \cup Created
          /\ LeadsTo(ins) \subseteq Pending \cup Loops \cup Created
          /\ \A b \in Created : blocks'[b] = <<>>

\* The blocks methods hold, and the conditions of loops, may be led to.
LEMMA HeldReserved ==
    ASSUME BuilderInv, PlacementInv, InFunction
    PROVE  Pending \cup Loops \subseteq Reserve
<1> DEFINE F == Len(layout)
<1>1. /\ F \in DOMAIN layout /\ IsSeq(layout[F]) /\ layout[F] # <<>>
  BY CodeFacts DEF BuilderInv, Shape
<1>2. Entry \in Range(layout[F])
  <2>1. Len(layout[F]) \in Nat /\ Len(layout[F]) >= 1
        /\ \A i \in 1..Len(layout[F]) : layout[F][i] \in Range(layout[F])
    BY <1>1, SeqFacts
  <2>2. 1 \in 1..Len(layout[F])
    BY <2>1
  <2>3. QED
    BY <2>1, <2>2 DEF Entry
<1> HIDE DEF F
<1>3. \A d \in DOMAIN work : Range(work[d].todo) \cap Range(layout[F]) = {}
  BY <1>1 DEF BuilderInv, Held, Holds
<1>4. Pending \cap {Entry} = {}
  BY <1>2, <1>3 DEF Pending
<1>5. Loops \subseteq Reserve
  BY DEF PlacementInv, Frames, FrameOK, Loops
<1>6. QED
  BY <1>4, <1>5 DEF Reserve, Mine

\* A block the running method holds is held.
LEMMA TodoHeld ==
    ASSUME BuilderInv, work # <<>>
    PROVE  Range(Top.todo) \subseteq Pending
<1>1. Len(work) \in DOMAIN work /\ Top = work[Len(work)]
  BY OuterFacts
<1>2. QED
  BY <1>1 DEF Pending

\* What such a step keeps.
LEMMA ProceedsCode ==
    ASSUME BuilderInv, PlacementInv, Proceeds
    PROVE  /\ Frames' /\ NoneLost'
           /\ \A f \in DOMAIN layout' : f # Len(layout) =>
                 \A b \in Inserted(f)' : Targets(b)' \subseteq Inserted(f)' \ {layout'[f][1]}
           /\ \A b \in Mine' : Targets(b)' \subseteq Reserve'
<1>1. InFunction /\ work # <<>>
  BY DEF Proceeds
<1>2. PICK rest, k, ins, placed :
          /\ Replaces(rest) /\ FrameOK(rest, Loops \cup Created)
          /\ Written(k, ins, placed)
          /\ Range(placed) \cup Range(rest.todo) = Range(Top.todo) \cup Created
          /\ LeadsTo(ins) \subseteq Pending \cup Loops \cup Created
          /\ \A b \in Created : blocks'[b] = <<>>
  BY DEF Proceeds
<1>3. Pending \cup Loops \subseteq Reserve
  BY <1>1, HeldReserved
<1>4. FrameOK(rest, Reserve \cup Created)
  BY <1>2, <1>3 DEF FrameOK
<1>5. LeadsTo(ins) \subseteq Reserve \cup Created
  BY <1>2, <1>3
<1>6. \A b \in Created : LeadsTo(blocks'[b]) \subseteq Reserve \cup Created
  BY <1>2, LeadsShort
<1>7. QED
  BY <1>1, <1>2, <1>4, <1>5, <1>6, CodePlacement

LEMMA ProceedsPlacement ==
    ASSUME BuilderInv, PlacementInv, Proceeds, currentFunction' = currentFunction, ValueStays'
    PROVE  PlacementInv'
<1>1. /\ Frames' /\ NoneLost'
      /\ \A f \in DOMAIN layout' : f # Len(layout) =>
            \A b \in Inserted(f)' : Targets(b)' \subseteq Inserted(f)' \ {layout'[f][1]}
      /\ \A b \in Mine' : Targets(b)' \subseteq Reserve'
  BY ProceedsCode
<1>2. currentFunction' = Len(layout)
  BY CodeFacts DEF Proceeds
<1>3. Leading'
  BY <1>1, <1>2 DEF Leading
<1>4. QED
  BY <1>1, <1>3 DEF PlacementInv

\* A method that holds no blocks goes on without any, and appends nothing
\* that leads anywhere or takes an element.
LEMMA QuietProceeds ==
    ASSUME BuilderInv, PlacementInv, InFunction, work # <<>>, Top.todo = <<>>,
           NEW rest, Replaces(rest), rest.todo = <<>>, rest.node.node # "iteration_stmt",
           UNCHANGED code \/ \E ins : Still(ins) /\ Emit(ins)
    PROVE  Proceeds
<1>1. PICK ins : Still(ins) /\ Written(0, ins, <<>>)
  <2>1. CASE UNCHANGED code
    BY <2>1, UnchangedWrites, StillShort
  <2>2. ASSUME NEW ins, Still(ins), Emit(ins)
        PROVE  Still(ins) /\ Written(0, ins, <<>>)
    <3>1. EmitAndInsert(ins, <<>>) /\ IsSeq(<<>>) /\ IsSeq(ins)
      BY <2>2, ShortSeqs DEF Emit, EmitAndInsert, Still
    <3>2. QED
      BY <2>2, <3>1, EmitWrites
  <2>3. QED
    BY <2>1, <2>2
<1>2. Created = {}
  <2>1. Len(blocks') = Len(blocks) /\ Len(blocks) \in Nat
    BY <1>1, CodeFacts DEF Written
  <2>2. QED
    BY <2>1 DEF Created
<1>3. Range(<<>>) = {}
  BY ShortSeqs
<1>4. FrameOK(rest, Loops \cup Created)
  BY DEF FrameOK
<1>5. Range(<<>>) \cup Range(rest.todo) = Range(Top.todo) \cup Created
  BY <1>2, <1>3
<1>6. /\ LeadsTo(ins) \subseteq Pending \cup Loops \cup Created /\ Harmless(ins)
      /\ \A b \in Created : blocks'[b] = <<>>
  BY <1>1, <1>2 DEF Still
<1> DEFINE k == 0
           placed == <<>>
<1>7. Written(k, ins, placed) /\ Range(placed) \cup Range(rest.todo) = Range(Top.todo) \cup Created
  BY <1>1, <1>5
<1> HIDE DEF k, placed
<1>8. QED
  BY <1>4, <1>6, <1>7 DEF Proceeds
-----------------------------------------------------------------------------
(* The steps of the methods that hold no blocks.                           *)

Branchings == {"selection_stmt", "iteration_stmt"}

\* What such a step has in common with the others.
Quiet ==
    /\ InFunction /\ work # <<>> /\ currentFunction' = currentFunction
    /\ Top.node.node \notin Branchings
    /\ UNCHANGED code \/ \E ins : Still(ins) /\ Emit(ins)
    /\ ValueStays'

LEMMA TopOK ==
    ASSUME BuilderInv, PlacementInv, work # <<>>
    PROVE  /\ FrameOK(Top, Reserve) /\ FrameOK(Top, Loops)
           /\ Top.node.node \notin Branchings \/ Top.at = "visit" => Top.todo = <<>>
           /\ DOMAIN Top = {"at", "node", "i", "vals", "todo", "bb_condition",
                            "will_enter_scope"}
<1>1. Len(work) \in DOMAIN work /\ Top = work[Len(work)]
  BY OuterFacts
<1>2. FrameOK(Top, Reserve)
  BY <1>1 DEF PlacementInv, Frames
<1>3. FrameOK(Top, Loops)
  BY <1>1, <1>2 DEF FrameOK, Loops
<1>4. QED
  BY <1>2, <1>3, OuterFacts DEF FrameOK, Branchings

\* It returns, perhaps after the visit it ends with.
LEMMA QuietReturn ==
    ASSUME BuilderInv, PlacementInv, Quiet,
           Return \/ \E child, kinds : TailVisit(child, kinds)
    PROVE  Proceeds
<1> DEFINE rest == Frame(Nullptr)
<1>1. rest.todo = <<>> /\ rest.node.node # "iteration_stmt"
  BY DEF Frame, Nullptr
<1>2. Return \/ \E child : work' = Append(Callers, Frame(child))
  BY DEF TailVisit
<1> HIDE DEF rest
<1>3. Replaces(rest)
  BY <1>1, <1>2, GoesOn DEF Quiet
<1>4. Top.todo = <<>>
  BY TopOK DEF Quiet
<1>5. QED
  BY <1>1, <1>3, <1>4, QuietProceeds DEF Quiet

\* It goes on, at once or after a visit.
LEMMA QuietVisit ==
    ASSUME BuilderInv, PlacementInv, Quiet,
           NEW rest, rest.todo = Top.todo, rest.node = Top.node,
           \/ \E child, kinds : Visit(child, kinds, rest)
           \/ work' = Append(Callers, rest)
    PROVE  Proceeds
<1>1. Top.todo = <<>>
  BY TopOK DEF Quiet
<1>2. rest.node.node # "iteration_stmt"
  BY DEF Quiet, Branchings
<1>3. (\E child : work' = Callers \o <<rest, Frame(child)>>) \/ work' = Append(Callers, rest)
  BY DEF Visit
<1>4. Replaces(rest)
  BY <1>3, GoesOn DEF Quiet
<1>5. QED
  BY <1>1, <1>2, <1>4, QuietProceeds DEF Quiet

\* The forms currentExpression takes.
ValueForm(x) == x.to = <<>> /\ x.op # "gep"

LEMMA ValueForms ==
    /\ \A v : ValueForm(Returning(v)) /\ ValueForm(Load(v))
    /\ \A op, args, ty : op # "gep" => ValueForm(Instr(op, args, ty))
<1>1. \A op, args, ty : op # "gep" => ValueForm(Instr(op, args, ty))
  BY DEF Instr, ValueForm
<1>2. QED
  BY <1>1 DEF Returning, Load

\* The steps that build nothing.
LEMMA WalkQuiet ==
    ASSUME BuilderInv, PlacementInv,
           \/ FunParam \/ FunBody \/ VisitCompoundStmt \/ CompoundItem \/ CompoundEnd
           \/ VisitExpresionStmt \/ VisitNum \/ VisitVar \/ VisitElement
           \/ VisitAssignExpression \/ AssignExpressionVar \/ VisitOperator
    PROVE  Quiet
<1>1. InFunction /\ currentFunction' = currentFunction
  BY WalkWritesOn DEF WritesOn
<1>2. work # <<>> /\ Top.node.node \notin Branchings
  BY DEF FunParam, FunBody, VisitCompoundStmt, CompoundItem, CompoundEnd, VisitExpresionStmt,
         VisitNum, VisitVar, VisitElement, VisitAssignExpression, AssignExpressionVar,
         VisitOperator, Running, Branchings, Operators
<1>3. UNCHANGED code
  BY DEF FunParam, FunBody, VisitCompoundStmt, CompoundItem, CompoundEnd, VisitExpresionStmt,
         VisitNum, VisitVar, VisitElement, VisitAssignExpression, AssignExpressionVar,
         VisitOperator
<1>4. ValueStays'
  <2>1. \/ currentExpression' = currentExpression
        \/ currentExpression' = Returning(Const(Top.node.value))
        \/ currentExpression' = Returning(Find(scope, Top.node.id))
        \/ currentExpression' = Load(Find(scope, Top.node.id))
    BY DEF FunParam, FunBody, VisitCompoundStmt, CompoundItem, CompoundEnd, VisitExpresionStmt,
           VisitNum, VisitVar, VisitElement, VisitAssignExpression, AssignExpressionVar,
           VisitOperator, lastExpression
  <2>2. \A v : ValueForm(Returning(v)) /\ ValueForm(Load(v))
    BY ValueForms
  <2>3. QED
    BY <2>1, <2>2 DEF PlacementInv, ValueStays, ValueForm
<1>5. QED
  BY <1>1, <1>2, <1>3, <1>4 DEF Quiet

LEMMA WalkProceeds ==
    ASSUME BuilderInv, PlacementInv,
           \/ FunParam \/ FunBody \/ VisitCompoundStmt \/ CompoundItem \/ CompoundEnd
           \/ VisitExpresionStmt \/ VisitNum \/ VisitVar \/ VisitElement
           \/ VisitAssignExpression \/ AssignExpressionVar \/ VisitOperator
    PROVE  Proceeds
<1>1. Quiet /\ DOMAIN Top = {"at", "node", "i", "vals", "todo", "bb_condition",
                             "will_enter_scope"}
  BY WalkQuiet, TopOK DEF Quiet
<1>2. CASE CompoundEnd \/ VisitExpresionStmt \/ VisitNum \/ VisitVar \/ VisitOperator
  <2>1. \/ Return \/ \E child, kinds : TailVisit(child, kinds)
        \/ \E child, kinds : Visit(child, kinds, [Top EXCEPT !.at = "left"])
    BY <1>2 DEF CompoundEnd, VisitExpresionStmt, VisitNum, VisitVar, VisitOperator
  <2> DEFINE rest == [Top EXCEPT !.at = "left"]
  <2>2. rest.todo = Top.todo /\ rest.node = Top.node
    BY <1>1
  <2> HIDE DEF rest
  <2>3. CASE \E child, kinds : Visit(child, kinds, rest)
    BY <1>1, <2>2, <2>3, QuietVisit
  <2>4. CASE Return \/ \E child, kinds : TailVisit(child, kinds)
    BY <1>1, <2>4, QuietReturn
  <2>5. QED
    BY <2>1, <2>3, <2>4 DEF rest
<1>3. CASE \/ FunParam \/ FunBody \/ CompoundItem \/ VisitElement
           \/ VisitAssignExpression \/ AssignExpressionVar
  <2>1. PICK rest, child, kinds : /\ Visit(child, kinds, rest)
                                  /\ rest.todo = Top.todo /\ rest.node = Top.node
    <3>1. CASE FunParam \/ CompoundItem
      <4> DEFINE rest == [Top EXCEPT !.i = @ + 1]
      <4>1. \E child, kinds : Visit(child, kinds, rest)
        BY <3>1 DEF FunParam, CompoundItem
      <4>2. rest.todo = Top.todo /\ rest.node = Top.node
        BY <1>1
      <4> HIDE DEF rest
      <4>3. QED
        BY <4>1, <4>2
    <3>2. CASE FunBody \/ VisitAssignExpression
      BY <3>2, <1>1 DEF FunBody, VisitAssignExpression
    <3>3. CASE VisitElement
      <4> DEFINE rest == [Top EXCEPT !.at = "index", !.vals = <<Find(scope, Top.node.id)>>]
      <4>1. \E child, kinds : Visit(child, kinds, rest)
        BY <3>3 DEF VisitElement
      <4>2. rest.todo = Top.todo /\ rest.node = Top.node
        BY <1>1
      <4> HIDE DEF rest
      <4>3. QED
        BY <4>1, <4>2
    <3>4. CASE AssignExpressionVar
      <4> DEFINE rest == [Top EXCEPT !.at = "value", !.vals = currentPointer.args]
      <4>1. \E child, kinds : Visit(child, kinds, rest)
        BY <3>4 DEF AssignExpressionVar
      <4>2. rest.todo = Top.todo /\ rest.node = Top.node
        BY <1>1
      <4> HIDE DEF rest
      <4>3. QED
        BY <4>1, <4>2
    <3>5. QED
      BY <3>1, <3>2, <3>3, <3>4, <1>3
  <2>2. QED
    BY <1>1, <2>1, QuietVisit
<1>4. CASE VisitCompoundStmt
  <2> DEFINE rest == [Top EXCEPT !.at = "items",
                         !.will_enter_scope = isFunctionTopCompoundStatement]
  <2>1. work' = Append(Callers, rest)
    BY <1>4 DEF VisitCompoundStmt
  <2>2. rest.todo = Top.todo /\ rest.node = Top.node
    BY <1>1
  <2> HIDE DEF rest
  <2>3. QED
    BY <1>1, <2>1, <2>2, QuietVisit
<1>5. QED
  BY <1>2, <1>3, <1>4

\* What an expression builds, and one instruction more.
LEMMA ForcedAnd ==
    ASSUME PlacementInv, NEW x, Plain(x)
    PROVE  Still(Append(Forced.ins, x))
<1> DEFINE s == Forced.ins
<1>1. Still(s)
  BY ForcedLeads DEF PlacementInv
<1> HIDE DEF s
<1>2. Still(Append(s, x))
  BY <1>1, StillAppend
<1>3. QED
  BY <1>2 DEF s

\* No operation of an operator is an element's.
LEMMA OperationsOnly ==
    ASSUME \E kind \in Operators : Running(kind, "right"),
           Top.node.op \in OperationsOf[Top.node.node]
    PROVE  Top.node.op # "gep"
<1>1. Top.node.node \in {"simple_expression", "additive_expression", "term"}
  BY DEF Running, Operators
<1>2. "gep" \notin OperationsOf[Top.node.node]
  BY <1>1 DEF OperationsOf
<1>3. QED
  BY <1>2

\* The steps that append instructions.
LEMMA EmitsStill ==
    ASSUME BuilderInv, PlacementInv,
           \/ VisitLocalVarDeclaration \/ VisitParam \/ VisitReturnStmt \/ ReturnValue
           \/ AssignExpressionValue \/ OperatorLeft \/ OperatorRight \/ VisitCall \/ CallArgument
    PROVE  UNCHANGED code \/ \E ins : Still(ins) /\ Emit(ins)
<1>1. Still(Forced.ins)
  BY ForcedLeads DEF PlacementInv
<1>2. CASE VisitLocalVarDeclaration
  <2> DEFINE x == IF Top.node.num = Nullptr THEN Alloca("i32*") ELSE AllocaArray(Top.node.num.value)
  <2>1. Plain(x)
    BY PlainInstructions
  <2>2. Emit(<<x>>)
    BY <1>2 DEF VisitLocalVarDeclaration
  <2> HIDE DEF x
  <2>3. QED
    BY <2>1, <2>2, StillShort
<1>3. CASE VisitParam
  <2> DEFINE slot == Alloca(IF Top.node.isarray THEN "i32**" ELSE "i32*")
             x == Store(currentParameter, Here(<<slot>>))
             s == <<slot>>
  <2>1. Plain(x) /\ Plain(slot)
    BY PlainInstructions
  <2>2. Emit(Append(s, x))
    BY <1>3 DEF VisitParam
  <2> HIDE DEF x, slot
  <2>3. Still(s)
    BY <2>1, StillShort
  <2> HIDE DEF s
  <2>4. QED
    BY <2>1, <2>2, <2>3, StillAppend
<1>4. CASE VisitReturnStmt
  <2>1. UNCHANGED code \/ Emit(<<RetVoid>>)
    BY <1>4 DEF VisitReturnStmt
  <2>2. Plain(RetVoid)
    BY PlainInstructions
  <2>3. QED
    BY <2>1, <2>2, StillShort
<1>5. CASE ReturnValue
  <2> DEFINE x == Ret(Forced.val)
  <2>1. Plain(x)
    BY PlainInstructions
  <2>2. Emit(Append(Forced.ins, x))
    BY <1>5 DEF ReturnValue
  <2> HIDE DEF x
  <2>3. QED
    BY <2>1, <2>2, ForcedAnd
<1>6. CASE AssignExpressionValue
  <2> DEFINE x == Store(Forced.val, Top.vals[1])
  <2>1. Plain(x)
    BY PlainInstructions
  <2>2. Emit(Append(Forced.ins, x))
    BY <1>6 DEF AssignExpressionValue
  <2> HIDE DEF x
  <2>3. QED
    BY <2>1, <2>2, ForcedAnd
<1>7. CASE OperatorLeft
  BY <1>1, <1>7 DEF OperatorLeft
<1>8. CASE OperatorRight
  <2> DEFINE x == ICmp(Top.node.op, Top.vals[1], Forced.val)
  <2>1. Plain(x)
    <3>1. Top.node.op # "gep"
      BY <1>8, OperationsOnly DEF OperatorRight
    <3>2. QED
      BY <3>1, PlainInstructions
  <2>2. Emit(Append(Forced.ins, x)) \/ Emit(Forced.ins)
    BY <1>8 DEF OperatorRight
  <2> HIDE DEF x
  <2>3. QED
    BY <2>1, <2>2, <1>1, ForcedAnd
<1>9. ASSUME NEW ins, Still(ins), NEW args, EmitCall(ins, args)
      PROVE  \E s : Still(s) /\ Emit(s)
  <2> DEFINE x == Call(Find(scope, Top.node.id), args)
  <2>1. Plain(x)
    BY PlainInstructions
  <2>2. Emit(Append(ins, x))
    BY <1>9 DEF EmitCall
  <2> HIDE DEF x
  <2>3. QED
    BY <2>1, <2>2, <1>9, StillAppend
<1>10. CASE VisitCall
  <2>1. UNCHANGED code \/ EmitCall(<<>>, <<>>)
    BY <1>10 DEF VisitCall
  <2>2. QED
    BY <2>1, <1>9, StillShort
<1>11. CASE CallArgument
  <2> DEFINE x == Element(Forced.val, Const(0))
  <2>1. Plain(x)
    BY PlainInstructions
  <2>2. PICK ins : /\ ins = Forced.ins \/ ins = Append(Forced.ins, x)
                   /\ Emit(ins) \/ \E args : EmitCall(ins, args)
    BY <1>11 DEF CallArgument
  <2> HIDE DEF x
  <2>3. Still(ins)
    BY <2>1, <2>2, <1>1, ForcedAnd
  <2>4. QED
    BY <2>2, <2>3, <1>9
<1>12. QED
  BY <1>2, <1>3, <1>4, <1>5, <1>6, <1>7, <1>8, <1>10, <1>11

LEMMA EmitsQuiet ==
    ASSUME BuilderInv, PlacementInv,
           \/ VisitLocalVarDeclaration \/ VisitParam \/ VisitReturnStmt \/ ReturnValue
           \/ AssignExpressionValue \/ OperatorLeft \/ OperatorRight \/ VisitCall \/ CallArgument
    PROVE  Quiet
<1>1. InFunction /\ currentFunction' = currentFunction
  BY EmitsWriteOn DEF WritesOn
<1>2. work # <<>> /\ Top.node.node \notin Branchings
  BY DEF VisitLocalVarDeclaration, VisitParam, VisitReturnStmt, ReturnValue,
         AssignExpressionValue, OperatorLeft, OperatorRight, VisitCall, CallArgument,
         Running, Branchings, Operators
<1>3. ValueStays'
  <2>1. \/ currentExpression' = currentExpression
        \/ \E v : currentExpression' = Returning(v)
        \/ \E op, args, ty : op # "gep" /\ currentExpression' = Instr(op, args, ty)
    <3>1. CASE VisitLocalVarDeclaration \/ VisitParam \/ VisitReturnStmt \/ ReturnValue
      BY <3>1 DEF VisitLocalVarDeclaration, DeclareSize, VisitParam, VisitReturnStmt,
                  ReturnValue, lastExpression
    <3>2. CASE AssignExpressionValue \/ OperatorLeft
      BY <3>2 DEF AssignExpressionValue, OperatorLeft, lastExpression
    <3>3. CASE OperatorRight
      <4>1. Top.node.op # "gep"
        BY <3>3, OperationsOnly DEF OperatorRight
      <4>2. QED
        BY <3>3, <4>1 DEF OperatorRight
    <3>4. CASE VisitCall \/ CallArgument
      BY <3>4 DEF VisitCall, CallArgument, EmitCall
    <3>5. QED
      BY <3>1, <3>2, <3>3, <3>4
  <2>2. /\ \A v : ValueForm(Returning(v))
        /\ \A op, args, ty : op # "gep" => ValueForm(Instr(op, args, ty))
    BY ValueForms
  <2>3. QED
    BY <2>1, <2>2 DEF PlacementInv, ValueStays, ValueForm
<1>4. QED
  BY <1>1, <1>2, <1>3, EmitsStill DEF Quiet

LEMMA EmitsProceeds ==
    ASSUME BuilderInv, PlacementInv,
           \/ VisitLocalVarDeclaration \/ VisitParam \/ VisitReturnStmt \/ ReturnValue
           \/ AssignExpressionValue \/ OperatorLeft \/ OperatorRight \/ VisitCall \/ CallArgument
    PROVE  Proceeds
<1>1. Quiet /\ DOMAIN Top = {"at", "node", "i", "vals", "todo", "bb_condition",
                             "will_enter_scope"}
  BY EmitsQuiet, TopOK DEF Quiet
<1>2. CASE Return
  BY <1>1, <1>2, QuietReturn
<1>3. CASE ~Return
  <2>1. PICK rest, child, kinds : /\ Visit(child, kinds, rest)
                                  /\ rest.todo = Top.todo /\ rest.node = Top.node
    <3>1. CASE VisitReturnStmt
      <4> DEFINE rest == [Top EXCEPT !.at = "value"]
      <4>1. \E child, kinds : Visit(child, kinds, rest)
        BY <1>3, <3>1 DEF VisitReturnStmt
      <4>2. rest.todo = Top.todo /\ rest.node = Top.node
        BY <1>1
      <4> HIDE DEF rest
      <4>3. QED
        BY <4>1, <4>2
    <3>2. CASE OperatorLeft
      <4> DEFINE rest == [Top EXCEPT !.at = "right", !.vals = <<Forced.val>>]
      <4>1. \E child, kinds : Visit(child, kinds, rest)
        BY <3>2 DEF OperatorLeft
      <4>2. rest.todo = Top.todo /\ rest.node = Top.node
        BY <1>1
      <4> HIDE DEF rest
      <4>3. QED
        BY <4>1, <4>2
    <3>3. CASE VisitCall
      <4> DEFINE rest == [Top EXCEPT !.i = @ + 1, !.at = "args"]
      <4>1. \E child, kinds : Visit(child, kinds, rest)
        BY <1>3, <3>3 DEF VisitCall, EmitCall, NextArgument
      <4>2. rest.todo = Top.todo /\ rest.node = Top.node
        BY <1>1
      <4> HIDE DEF rest
      <4>3. QED
        BY <4>1, <4>2
    <3>4. CASE CallArgument
      <4>1. PICK list : NextArgument([Top EXCEPT !.vals = list])
        BY <1>3, <3>4 DEF CallArgument, EmitCall
      <4> DEFINE frame == [Top EXCEPT !.vals = list]
                 rest == [frame EXCEPT !.i = @ + 1, !.at = "args"]
      <4>2. \E child, kinds : Visit(child, kinds, rest)
        BY <4>1 DEF NextArgument
      <4>3. rest.todo = Top.todo /\ rest.node = Top.node
        BY <1>1
      <4> HIDE DEF rest
      <4>4. QED
        BY <4>2, <4>3
    <3>5. QED
      BY <1>3, <3>1, <3>2, <3>3, <3>4
         DEF VisitLocalVarDeclaration, VisitParam, ReturnValue, AssignExpressionValue,
             OperatorRight
  <2>2. QED
    BY <1>1, <2>1, QuietVisit
<1>4. QED
  BY <1>2, <1>3
-----------------------------------------------------------------------------
(* The steps of the methods that create blocks.                            *)

\* A list is its head and its tail.
LEMMA HeadAndTail ==
    ASSUME NEW s, IsSeq(s), s # <<>>
    PROVE  Range(<<Head(s)>>) \cup Range(Tail(s)) = Range(s)
<1> DEFINE t == Tail(s)
<1>1. /\ IsSeq(t) /\ Len(t) = Len(s) - 1 /\ \A i \in 1..Len(s) - 1 : t[i] = s[i + 1]
      /\ Head(s) = s[1] /\ s[1] \in Range(s) /\ Range(t) \subseteq Range(s)
  BY TailFacts
<1>2. Len(s) \in Nat /\ \A x \in Range(s) : \E i \in 1..Len(s) : x = s[i]
  BY SeqFacts
<1> HIDE DEF t
<1>3. \A i \in 1..Len(t) : t[i] \in Range(t)
  BY <1>1, SeqFacts
<1>4. ASSUME NEW x \in Range(s) PROVE x = s[1] \/ x \in Range(t)
  <2>1. PICK i \in 1..Len(s) : x = s[i]
    BY <1>2
  <2>2. CASE i = 1
    BY <2>1, <2>2
  <2>3. CASE i # 1
    <3>1. i - 1 \in 1..Len(t) /\ i - 1 \in 1..Len(s) - 1 /\ (i - 1) + 1 = i
      BY <2>3, <1>1, <1>2
    <3>2. t[i - 1] = s[i]
      BY <3>1, <1>1
    <3>3. QED
      BY <3>1, <3>2, <2>1, <1>3
  <2>4. QED
    BY <2>2, <2>3
<1>5. Range(<<Head(s)>>) = {s[1]}
  BY <1>1, ShortSeqs
<1>6. QED
  BY <1>1, <1>4, <1>5 DEF t

\* A block that is created and gets nothing is empty.
LEMMA FreshBlocks ==
    ASSUME BuilderInv, NEW f, NEW k \in Nat, NEW added, NEW placed, Build(f, k, added, placed),
           NEW b \in Created, b \notin DOMAIN added
    PROVE  blocks'[b] = <<>>
<1>1. Len(blocks) \in Nat /\ blocks' = [c \in 1..Len(blocks) + k |->
                    (IF c <= Len(blocks) THEN blocks[c] ELSE <<>>)
                    \o (IF c \in DOMAIN added THEN added[c] ELSE <<>>)]
  BY SeqFacts DEF BuilderInv, Shape, Build, Fresh
<1>2. Len(blocks') = Len(blocks) + k
  <2>1. /\ IsSeq(blocks') /\ DOMAIN blocks' = 1..Len(blocks) + k
    <3>1. \A c \in DOMAIN blocks : IsSeq(blocks[c])
      BY DEF BuilderInv, Shape
    <3>2. DOMAIN blocks' = 1..Len(blocks) + k /\ Len(blocks) + k \in Nat
      BY <1>1
    <3>3. blocks' = [c \in 1..Len(blocks) + k |-> blocks'[c]]
      BY <1>1, <3>2
    <3>4. QED
      BY <3>2, <3>3, FunctionIsSeq
  <2>2. blocks' = [c \in 1..Len(blocks) + k |-> blocks'[c]]
    BY <1>1, <2>1
  <2>3. QED
    BY <1>1, <2>1, <2>2, FunctionIsSeq
<1>3. b \in 1..Len(blocks) + k /\ ~(b <= Len(blocks))
  BY <1>1, <1>2 DEF Created
<1>4. blocks'[b] = <<>> \o <<>>
  BY <1>1, <1>3
<1>5. QED
  BY <1>4, ConcatEmpty, ShortSeqs

\* A step that creates no block, inserts some that its method holds, and
\* leads only to blocks it may lead to.
LEMMA InsertingProceeds ==
    ASSUME BuilderInv, PlacementInv, InFunction, work # <<>>,
           NEW rest, Replaces(rest), FrameOK(rest, Loops),
           NEW ins, IsSeq(ins), LeadsTo(ins) \subseteq Pending \cup Loops, Harmless(ins),
           NEW placed, IsSeq(placed), EmitAndInsert(ins, placed),
           Range(placed) \cup Range(rest.todo) = Range(Top.todo)
    PROVE  Proceeds
<1>1. Written(0, ins, placed)
  BY EmitWrites
<1>2. Created = {}
  <2>1. Len(blocks') = Len(blocks) /\ Len(blocks) \in Nat
    BY <1>1, CodeFacts DEF Written
  <2>2. QED
    BY <2>1 DEF Created
<1>3. /\ FrameOK(rest, Loops \cup Created)
      /\ Range(placed) \cup Range(rest.todo) = Range(Top.todo) \cup Created
      /\ LeadsTo(ins) \subseteq Pending \cup Loops \cup Created
      /\ \A b \in Created : blocks'[b] = <<>>
  <2>1. Loops \cup Created = Loops
    BY <1>2
  <2>2. QED
    BY <2>1, <1>2
<1> DEFINE k == 0
<1>4. Written(k, ins, placed)
  BY <1>1
<1> HIDE DEF k
<1>5. QED
  BY <1>3, <1>4 DEF Proceeds

\* The first of the blocks is inserted, the others wait on.
LEMMA HeadProceeds ==
    ASSUME BuilderInv, PlacementInv, InFunction, work # <<>>,
           Top.node.node \in Branchings, Top.at # "visit", Top.todo # <<>>,
           NEW rest, rest.todo = Tail(Top.todo), rest.node = Top.node, rest.at # "visit",
           rest.bb_condition = Top.bb_condition,
           NEW child, NEW kinds, Visit(child, kinds, rest),
           NEW ins, IsSeq(ins), LeadsTo(ins) \subseteq Range(Top.todo), Harmless(ins),
           EmitAndInsert(ins, <<Head(Top.todo)>>)
    PROVE  Proceeds
<1>1. Replaces(rest)
  <2>1. \E c : work' = Callers \o <<rest, Frame(c)>>
    BY DEF Visit
  <2>2. QED
    BY <2>1, GoesOn
<1>2. FrameOK(rest, Loops)
  <2>1. FrameOK(Top, Loops)
    BY TopOK
  <2>2. QED
    BY <2>1 DEF FrameOK, Branchings
<1>3. IsSeq(Top.todo) /\ IsSeq(<<Head(Top.todo)>>)
  BY OuterFacts, ShortSeqs DEF Holds
<1> DEFINE placed == <<Head(Top.todo)>>
<1>4. Range(placed) \cup Range(rest.todo) = Range(Top.todo)
  BY <1>3, HeadAndTail
<1>5. LeadsTo(ins) \subseteq Pending \cup Loops
  BY TodoHeld
<1>6. IsSeq(placed) /\ EmitAndInsert(ins, placed)
  BY <1>3
<1> HIDE DEF placed
<1>7. QED
  BY <1>1, <1>2, <1>4, <1>5, <1>6, InsertingProceeds

\* All of the blocks are inserted, and the method returns.
LEMMA LastProceeds ==
    ASSUME BuilderInv, PlacementInv, InFunction, work # <<>>, Return,
           NEW ins, IsSeq(ins), LeadsTo(ins) \subseteq Pending \cup Loops, Harmless(ins),
           EmitAndInsert(ins, Top.todo)
    PROVE  Proceeds
<1> DEFINE rest == Frame(Nullptr)
           placed == Top.todo
<1>1. rest.todo = <<>> /\ FrameOK(rest, Loops)
  BY DEF Frame, Nullptr, FrameOK
<1>2. IsSeq(placed)
  BY OuterFacts DEF Holds
<1> HIDE DEF rest
<1>3. Replaces(rest)
  BY <1>1, GoesOn
<1>4. Range(placed) \cup Range(rest.todo) = Range(Top.todo)
  BY <1>1, ShortSeqs
<1>5. EmitAndInsert(ins, placed)
  OBVIOUS
<1> HIDE DEF placed
<1>6. QED
  BY <1>1, <1>2, <1>3, <1>4, <1>5, InsertingProceeds

LEMMA BranchingFacts ==
    ASSUME BuilderInv,
           \/ VisitSelectionStmt \/ SelectionCondition \/ SelectionElse \/ SelectionEnd
           \/ VisitIterationStmt \/ IterationCondition \/ IterationEnd
    PROVE  /\ InFunction /\ OnlyAtEnd /\ work # <<>> /\ currentFunction' = currentFunction
           /\ UNCHANGED lastExpression /\ Top.node.node \in Branchings
           /\ DOMAIN Top = {"at", "node", "i", "vals", "todo", "bb_condition",
                            "will_enter_scope"}
           /\ IsSeq(Top.todo) /\ IsSeq(blocks[Back])
<1>1. InFunction /\ OnlyAtEnd /\ currentFunction' = currentFunction
  BY BranchesWriteOn DEF WritesOn
<1>2. work # <<>> /\ Top.node.node \in Branchings /\ UNCHANGED lastExpression
  BY DEF VisitSelectionStmt, SelectionCondition, SelectionElse, SelectionEnd,
         VisitIterationStmt, IterationCondition, IterationEnd, Running, Branchings
<1>3. IsSeq(Top.todo) /\ DOMAIN Top = {"at", "node", "i", "vals", "todo", "bb_condition",
                                       "will_enter_scope"}
  BY <1>2, OuterFacts DEF Holds
<1>4. IsSeq(blocks[Back])
  <2>1. ip \in DOMAIN blocks /\ ip = Back /\ \A b \in DOMAIN blocks : IsSeq(blocks[b])
    BY <1>1, CodeFacts
  <2>2. IsSeq(blocks[ip])
    BY <2>1
  <2>3. QED
    BY <2>1, <2>2
<1>5. QED
  BY <1>1, <1>2, <1>3, <1>4

\* What a condition decides.
LEMMA ConditionProceeds ==
    ASSUME BuilderInv, PlacementInv, SelectionCondition \/ IterationCondition
    PROVE  Proceeds
<1> DEFINE bb == Top.todo
           selected == [Top EXCEPT !.at = "arm", !.todo = Tail(bb)]
           repeated == [Top EXCEPT !.at = "end", !.todo = Tail(bb)]
           ins == BranchOn(bb[1], bb[2])
<1>1. /\ InFunction /\ work # <<>> /\ currentFunction' = currentFunction
      /\ UNCHANGED lastExpression /\ Top.node.node \in Branchings
      /\ DOMAIN Top = {"at", "node", "i", "vals", "todo", "bb_condition",
                       "will_enter_scope"}
      /\ IsSeq(bb)
  BY BranchingFacts
<1>2. Top.at = "condition" /\ EmitAndInsert(ins, <<Head(bb)>>)
  BY DEF SelectionCondition, IterationCondition, Running
<1>3. PICK rest, child, kinds : (rest = selected \/ rest = repeated) /\ Visit(child, kinds, rest)
  <2>1. CASE SelectionCondition
    <3>1. \E child, kinds : Visit(child, kinds, selected)
      BY <2>1 DEF SelectionCondition
    <3> HIDE DEF selected
    <3>2. QED
      BY <3>1
  <2>2. CASE IterationCondition
    <3>1. \E child, kinds : Visit(child, kinds, repeated)
      BY <2>2 DEF IterationCondition
    <3> HIDE DEF repeated
    <3>2. QED
      BY <3>1
  <2>3. QED
    BY <2>1, <2>2
<1>4. /\ rest.todo = Tail(bb) /\ rest.node = Top.node /\ rest.at # "visit"
      /\ rest.bb_condition = Top.bb_condition
  BY <1>1, <1>3
<1>5. bb # <<>> /\ bb[1] \in Range(bb) /\ bb[2] \in Range(bb)
  <2>1. Len(bb) = 2 \/ Len(bb) = 3
    BY <1>1, <1>2, OuterFacts DEF Holds
  <2>2. bb # <<>> /\ 1 \in 1..Len(bb) /\ 2 \in 1..Len(bb)
    BY <2>1, ShortSeqs
  <2>3. QED
    BY <2>2, <1>1, SeqFacts
<1>6. IsSeq(ins) /\ LeadsTo(ins) \subseteq Range(bb) /\ Harmless(ins)
  <2>1. LeadsTo(ins) = {bb[1], bb[2]} /\ Harmless(ins)
    BY BranchOnLeads DEF PlacementInv
  <2>2. QED
    BY <2>1, <1>5, BranchOnFacts
<1> HIDE DEF ins, selected, repeated
<1>7. QED
  BY <1>1, <1>2, <1>3, <1>4, <1>5, <1>6, HeadProceeds

\* The other arm is opened.
LEMMA SelectionElseProceeds ==
    ASSUME BuilderInv, PlacementInv, SelectionElse
    PROVE  Proceeds
<1> DEFINE bb == Top.todo
           rest == [Top EXCEPT !.todo = Tail(bb)]
           ins == JoinAt(bb[2])
           child == Top.node.else_statement
<1>1. /\ InFunction /\ work # <<>> /\ currentFunction' = currentFunction
      /\ UNCHANGED lastExpression /\ Top.node.node \in Branchings
      /\ DOMAIN Top = {"at", "node", "i", "vals", "todo", "bb_condition",
                       "will_enter_scope"}
      /\ IsSeq(bb) /\ IsSeq(blocks[Back])
  BY BranchingFacts
<1>2. Top.at = "arm" /\ EmitAndInsert(ins, <<Head(bb)>>) /\ Visit(child, Statements, rest)
      /\ Len(bb) = 2
  BY DEF SelectionElse, Running
<1>3. /\ rest.todo = Tail(bb) /\ rest.node = Top.node /\ rest.at # "visit"
      /\ rest.bb_condition = Top.bb_condition
  BY <1>1, <1>2
<1>4. bb # <<>> /\ bb[2] \in Range(bb)
  <2>1. bb # <<>> /\ 2 \in 1..Len(bb)
    BY <1>2, ShortSeqs
  <2>2. QED
    BY <2>1, <1>1, SeqFacts
<1>5. IsSeq(ins) /\ LeadsTo(ins) \subseteq Range(bb) /\ Harmless(ins)
  BY <1>1, <1>4, JoinAtFacts, JoinAtLeads
<1> HIDE DEF ins, rest, child
<1>6. Top.at # "visit"
  BY <1>2
<1>7. QED
  BY <1>1, <1>2, <1>3, <1>4, <1>5, <1>6, HeadProceeds

\* The statement is done.
LEMMA StatementEndProceeds ==
    ASSUME BuilderInv, PlacementInv, SelectionEnd \/ IterationEnd
    PROVE  Proceeds
<1>1. /\ InFunction /\ work # <<>> /\ currentFunction' = currentFunction
      /\ UNCHANGED lastExpression /\ IsSeq(Top.todo) /\ IsSeq(blocks[Back])
  BY BranchingFacts
<1>2. PICK b : b \in Pending \cup Loops /\ EmitAndInsert(JoinAt(b), Top.todo)
  <2>1. CASE SelectionEnd
    <3>1. Len(Top.todo) = 1 /\ EmitAndInsert(JoinAt(Top.todo[1]), Top.todo)
      BY <2>1 DEF SelectionEnd
    <3>2. Top.todo[1] \in Range(Top.todo)
      BY <3>1, <1>1, SeqFacts
    <3>3. QED
      BY <3>1, <3>2, <1>1, TodoHeld
  <2>2. CASE IterationEnd
    <3>1. Top.node.node = "iteration_stmt" /\ Top.at # "visit"
          /\ EmitAndInsert(JoinAt(Top.bb_condition), Top.todo)
      BY <2>2 DEF IterationEnd, Running
    <3>2. Top.bb_condition \in Loops
      BY <3>1, <1>1, TopOK DEF FrameOK
    <3>3. QED
      BY <3>1, <3>2
  <2>3. QED
    BY <2>1, <2>2
<1> DEFINE ins == JoinAt(b)
<1>3. IsSeq(ins) /\ LeadsTo(ins) \subseteq {b} /\ Harmless(ins)
  BY <1>1, JoinAtFacts, JoinAtLeads
<1>4. Return
  BY DEF SelectionEnd, IterationEnd
<1>5. EmitAndInsert(ins, Top.todo) /\ LeadsTo(ins) \subseteq Pending \cup Loops
  BY <1>2, <1>3
<1> HIDE DEF ins
<1>6. QED
  BY <1>1, <1>3, <1>4, <1>5, LastProceeds

\* The blocks of an if wait for their turns.
LEMMA VisitSelectionProceeds ==
    ASSUME BuilderInv, PlacementInv, VisitSelectionStmt
    PROVE  Proceeds
<1> DEFINE k == IF Top.node.else_statement = Nullptr THEN 2 ELSE 3
           bb == [j \in 1..k |-> Fresh(j)]
           rest == [Top EXCEPT !.at = "condition", !.todo = bb]
           none == <<>>
<1>1. /\ InFunction /\ OnlyAtEnd /\ work # <<>> /\ currentFunction' = currentFunction
      /\ UNCHANGED lastExpression
      /\ DOMAIN Top = {"at", "node", "i", "vals", "todo", "bb_condition",
                       "will_enter_scope"}
  BY BranchingFacts
<1>2. /\ Build(currentFunction, k, <<>>, <<>>) /\ Visit(Top.node.expression, Expressions, rest)
      /\ Top.node.node = "selection_stmt" /\ Top.at = "visit"
  BY DEF VisitSelectionStmt, Running
<1>3. k \in {2, 3} /\ k \in Nat
  OBVIOUS
<1> HIDE DEF k
<1>4. Build(currentFunction, k, none, none) /\ IsSeq(none) /\ DOMAIN none = {} /\ Range(none) = {}
      /\ LeadsTo(none) = {}
  BY <1>2, ShortSeqs, LeadsShort
<1>5. none = <<>>
  OBVIOUS
<1> HIDE DEF none
<1>6. Written(k, none, none)
  <2>1. /\ \A b \in DOMAIN none : IsSeq(none[b])
        /\ IF ip \in DOMAIN none THEN none[ip] = none ELSE none = <<>>
    BY <1>4, <1>5
  <2>2. QED
    BY <1>1, <1>3, <1>4, <2>1, BuildWrites
<1>7. \A b \in Created : blocks'[b] = <<>>
  BY <1>3, <1>4, FreshBlocks
<1>8. Range(bb) = Created
  <2>1. DOMAIN bb = 1..k /\ \A j \in 1..k : bb[j] = Len(blocks) + j
    BY DEF Fresh
  <2>2. IsSeq(bb) /\ Len(bb) = k
    BY <2>1, <1>3, FunctionIsSeq
  <2>3. Len(blocks) \in Nat /\ Len(blocks') = Len(blocks) + k
    BY <1>1, <1>6, CodeFacts DEF Written
  <2> HIDE DEF bb
  <2>4. \A j \in 1..k : bb[j] \in Range(bb)
    BY <2>2, SeqFacts
  <2>5. \A x \in Range(bb) : \E j \in 1..k : x = bb[j]
    BY <2>2, SeqFacts
  <2>6. ASSUME NEW b \in Created PROVE b \in Range(bb)
    <3>1. b - Len(blocks) \in 1..k /\ Len(blocks) + (b - Len(blocks)) = b
      BY <2>3, <1>3 DEF Created
    <3>2. QED
      BY <3>1, <2>1, <2>4
  <2>7. ASSUME NEW x \in Range(bb) PROVE x \in Created
    <3>1. PICK j \in 1..k : x = Len(blocks) + j
      BY <2>1, <2>5
    <3>2. QED
      BY <3>1, <2>3, <1>3 DEF Created
  <2>8. QED
    BY <2>6, <2>7
<1>9. Top.todo = <<>>
  BY <1>1, <1>2, TopOK
<1>10. rest.todo = bb /\ rest.node = Top.node
  BY <1>1
<1> HIDE DEF bb, rest
<1>11. Replaces(rest)
  <2>1. \E c : work' = Callers \o <<rest, Frame(c)>>
    BY <1>2 DEF Visit
  <2>2. QED
    BY <2>1, <1>1, GoesOn
<1>12. FrameOK(rest, Loops \cup Created)
  <2>1. rest.node.node = "selection_stmt" /\ rest.at # "visit"
    BY <1>1, <1>2, <1>10 DEF rest
  <2>2. QED
    BY <2>1 DEF FrameOK
<1>13. Range(none) \cup Range(rest.todo) = Range(Top.todo) \cup Created
  BY <1>4, <1>5, <1>8, <1>9, <1>10
<1>14. Harmless(none) /\ LeadsTo(none) \subseteq Pending \cup Loops \cup Created
  BY <1>4, <1>5, StillShort DEF Still
<1>15. QED
  BY <1>1, <1>6, <1>7, <1>11, <1>12, <1>13, <1>14 DEF Proceeds

\* The condition of a loop is inserted, its body and what follows wait.
LEMMA VisitIterationProceeds ==
    ASSUME BuilderInv, PlacementInv, VisitIterationStmt
    PROVE  Proceeds
<1> DEFINE n == Len(blocks)
           rest == [Top EXCEPT !.at = "condition", !.bb_condition = n + 1,
                               !.todo = <<n + 2, n + 3>>]
           ins == <<Br(n + 1)>>
           added == Appending(ins)
           placed == <<n + 1>>
<1>1. /\ InFunction /\ OnlyAtEnd /\ work # <<>> /\ currentFunction' = currentFunction
      /\ UNCHANGED lastExpression
      /\ DOMAIN Top = {"at", "node", "i", "vals", "todo", "bb_condition",
                       "will_enter_scope"}
  BY BranchingFacts
<1>2. /\ Build(currentFunction, 3, added, placed) /\ Visit(Top.node.expression, Expressions, rest)
      /\ Top.node.node = "iteration_stmt" /\ Top.at = "visit"
  BY DEF VisitIterationStmt, Running, Fresh
<1>3. IsSeq(ins) /\ LeadsTo(ins) = {n + 1} /\ IsSeq(placed) /\ Range(placed) = {n + 1}
      /\ Range(<<n + 2, n + 3>>) = {n + 2, n + 3} /\ Harmless(ins)
  <2>1. Range(ins) = {Br(n + 1)} /\ ~Indexed(Br(n + 1))
    BY ShortSeqs DEF Br, Branching, Indexed
  <2>2. QED
    BY <2>1, LeadsShort, BrTarget, ShortSeqs DEF Harmless
<1>4. rest.todo = <<n + 2, n + 3>> /\ rest.node = Top.node /\ rest.bb_condition = n + 1
      /\ rest.at # "visit"
  BY <1>1
<1>5. DOMAIN added = {ip} /\ added[ip] = ins
  BY DEF Appending
<1> HIDE DEF rest, ins, added, placed
<1>6. Written(3, ins, placed)
  <2>1. /\ \A b \in DOMAIN added : IsSeq(added[b])
        /\ IF ip \in DOMAIN added THEN added[ip] = ins ELSE ins = <<>>
        /\ 3 \in Nat
    BY <1>3, <1>5
  <2>2. QED
    BY <1>1, <1>2, <1>3, <2>1, BuildWrites
<1>7. Created = {n + 1, n + 2, n + 3} /\ n \in Nat /\ ip \in 1..n
  <2>1. Len(blocks') = n + 3 /\ n \in Nat /\ ip \in 1..n
    BY <1>1, <1>6, CodeFacts DEF Written
  <2> HIDE DEF n
  <2>2. n + 1 .. n + 3 = {n + 1, n + 2, n + 3}
    BY <2>1
  <2>3. QED
    BY <2>1, <2>2 DEF Created, n
<1>8. \A b \in Created : blocks'[b] = <<>>
  <2>1. \A b \in Created : b \notin DOMAIN added
    BY <1>5, <1>7
  <2>2. 3 \in Nat
    OBVIOUS
  <2>3. QED
    BY <1>2, <2>1, <2>2, FreshBlocks
<1>9. Top.todo = <<>> /\ Range(Top.todo) = {}
  BY <1>1, <1>2, TopOK, ShortSeqs
<1>10. Replaces(rest)
  <2>1. \E c : work' = Callers \o <<rest, Frame(c)>>
    BY <1>2 DEF Visit
  <2>2. QED
    BY <2>1, <1>1, GoesOn
<1>11. FrameOK(rest, Loops \cup Created)
  BY <1>2, <1>4, <1>7 DEF FrameOK
<1>12. Range(placed) \cup Range(rest.todo) = Range(Top.todo) \cup Created
  BY <1>3, <1>4, <1>7, <1>9
<1>13. LeadsTo(ins) \subseteq Pending \cup Loops \cup Created
  BY <1>3, <1>7
<1> DEFINE k == 3
<1>14. Written(k, ins, placed)
  BY <1>6
<1> HIDE DEF k
<1>15. QED
  BY <1>1, <1>3, <1>8, <1>10, <1>11, <1>12, <1>13, <1>14 DEF Proceeds

\* The steps of a statement that branches.
LEMMA BranchingProceeds ==
    ASSUME BuilderInv, PlacementInv,
           \/ VisitSelectionStmt \/ SelectionCondition \/ SelectionElse \/ SelectionEnd
           \/ VisitIterationStmt \/ IterationCondition \/ IterationEnd
    PROVE  Proceeds
  BY VisitSelectionProceeds, ConditionProceeds, SelectionElseProceeds, StatementEndProceeds,
     VisitIterationProceeds

\* Both blocks of an index check are inserted at once.
LEMMA ElementCode ==
    ASSUME BuilderInv, PlacementInv, ElementIndex, NEW n, n = Len(blocks)
    PROVE  /\ InFunction /\ currentFunction' = currentFunction /\ work # <<>> /\ Top.todo = <<>>
           /\ n \in Nat /\ ip \in 1..n /\ DOMAIN blocks = 1..n /\ Created = {n + 1, n + 2}
           /\ IsSeq(IndexCompare) /\ Harmless(IndexCompare)
           /\ LeadsTo(CheckIndex(n + 1, n + 2)) = {n + 1, n + 2}
           /\ Written(2, CheckIndex(n + 1, n + 2), <<n + 1, n + 2>>) /\ ip' = n + 2
           /\ blocks'[n + 1] = <<Call(Find(scope, "neg_idx_except"), <<>>), Br(n + 2)>>
           /\ LeadsTo(blocks'[n + 1]) = {n + 2} /\ LeadsTo(blocks'[n + 2]) = {}
           /\ \E v, w : \/ blocks'[n + 2] = <<Element(v, Forced.val)>>
                        \/ blocks'[n + 2] = <<Load(v), Element(w, Forced.val)>>
           /\ \E rest : Replaces(rest) /\ rest.todo = <<>> /\ rest.node = Nullptr
<1> DEFINE array == Top.vals[1]
           ins == CheckIndex(n + 1, n + 2)
           call == Call(Find(scope, "neg_idx_except"), <<>>)
           underflow == <<call, Br(n + 2)>>
           base == Value("inst", <<n + 2, 1>>, PointeeOf[array.ty])
           element == IF array.ty = "arr*" THEN <<Element(array, Forced.val)>>
                      ELSE <<Load(array), Element(base, Forced.val)>>
           added == [b \in {ip, n + 1, n + 2} |->
                       IF b = ip THEN ins ELSE IF b = n + 2 THEN element ELSE underflow]
           placed == <<n + 1, n + 2>>
           rest == Frame(Nullptr)
<1>1. InFunction /\ OnlyAtEnd /\ currentFunction' = currentFunction
  BY ElementWritesOn DEF WritesOn
<1>2. Build(currentFunction, 2, added, placed) /\ Return
  BY DEF ElementIndex, Fresh
<1>3. work # <<>> /\ Top.node.node = "var"
  BY DEF ElementIndex, Running
<1>4. /\ IsSeq(ins) /\ LeadsTo(ins) = {n + 1, n + 2}
      /\ IsSeq(IndexCompare) /\ Harmless(IndexCompare)
  <2> DEFINE x == ICmp("icmp_slt", Forced.val, Const(0))
             y == CondBr(Here(IndexCompare), n + 1, n + 2)
  <2>1. Plain(x) /\ IndexCompare = Append(Forced.ins, x)
    BY PlainInstructions DEF IndexCompare
  <2> HIDE DEF x
  <2>2. IsSeq(IndexCompare) /\ LeadsTo(IndexCompare) = {} /\ Harmless(IndexCompare)
    BY <2>1, ForcedAnd DEF Still
  <2>3. Range(y.to) = {n + 1, n + 2}
    BY ShortSeqs DEF CondBr, Branching
  <2>4. ins = Append(IndexCompare, y)
    BY DEF CheckIndex
  <2> HIDE DEF y, ins
  <2>5. QED
    BY <2>2, <2>3, <2>4, LeadsAppend
<1>5. IsSeq(underflow) /\ LeadsTo(underflow) = {n + 2}
  <2>1. Range(call.to) = {}
    BY NoTargets, ShortSeqs
  <2> HIDE DEF call
  <2>2. LeadsTo(underflow) = Range(call.to) \cup Range(Br(n + 2).to)
    BY LeadsShort
  <2>3. QED
    BY <2>1, <2>2, BrTarget, ShortSeqs
<1>6. /\ IsSeq(element) /\ LeadsTo(element) = {}
      /\ \E v, w : \/ element = <<Element(v, Forced.val)>>
                   \/ element = <<Load(v), Element(w, Forced.val)>>
  <2> DEFINE direct == Element(array, Forced.val)
             load == Load(array)
             indirect == Element(base, Forced.val)
  <2>1. Range(direct.to) = {} /\ Range(load.to) = {} /\ Range(indirect.to) = {}
    BY NoTargets, ShortSeqs
  <2> HIDE DEF direct, load, indirect
  <2>2. LeadsTo(<<direct>>) = {} /\ LeadsTo(<<load, indirect>>) = {}
    BY <2>1, LeadsShort
  <2>3. element = <<direct>> \/ element = <<load, indirect>>
    BY DEF direct, load, indirect
  <2> HIDE DEF element
  <2>4. IsSeq(element) /\ LeadsTo(element) = {}
    BY <2>2, <2>3, ShortSeqs
  <2>5. \E v, w : \/ element = <<Element(v, Forced.val)>>
                  \/ element = <<Load(v), Element(w, Forced.val)>>
    BY <2>3 DEF direct, load, indirect
  <2>6. QED
    BY <2>4, <2>5
<1>7. IsSeq(placed) /\ Range(placed) = {n + 1, n + 2}
  BY ShortSeqs
<1>8. /\ IsSeq(blocks) /\ n \in Nat /\ ip \in 1..n /\ DOMAIN blocks = 1..n
      /\ \A b \in DOMAIN blocks : IsSeq(blocks[b])
  BY <1>1, CodeFacts
<1> HIDE DEF ins, underflow, element, placed
<1>9. /\ DOMAIN added = {ip, n + 1, n + 2} /\ added[ip] = ins /\ added[n + 1] = underflow
      /\ added[n + 2] = element /\ \A b \in DOMAIN added : IsSeq(added[b])
  BY <1>4, <1>5, <1>6, <1>8
<1> HIDE DEF added
<1>10. Written(2, ins, placed)
  <2>1. /\ IF ip \in DOMAIN added THEN added[ip] = ins ELSE ins = <<>>
        /\ 2 \in Nat
    BY <1>9
  <2>2. QED
    BY <1>1, <1>2, <1>4, <1>7, <1>9, <2>1, BuildWrites
<1>11. Created = {n + 1, n + 2} /\ Len(blocks') = n + 2
  <2>1. Len(blocks') = n + 2
    BY <1>10 DEF Written
  <2>2. n + 1 .. n + 2 = {n + 1, n + 2}
    BY <1>8
  <2>3. QED
    BY <2>1, <2>2 DEF Created
<1>12. blocks'[n + 1] = underflow /\ blocks'[n + 2] = element
  <2>1. /\ \A b \in 1..Len(blocks') :
              b > Len(blocks) /\ b \in DOMAIN added => blocks'[b] = added[b]
    <3>1. 2 \in Nat /\ \A b \in DOMAIN added : IsSeq(added[b])
      BY <1>9
    <3>2. QED
      BY <1>2, <1>8, <3>1, BuiltBlocks, Zenon
  <2>2. QED
    BY <2>1, <1>8, <1>9, <1>11
<1>13. Top.todo = <<>>
  BY <1>3, TopOK DEF Branchings
<1>14. rest.todo = <<>> /\ rest.node = Nullptr
  BY DEF Frame
<1> HIDE DEF rest
<1>15. Replaces(rest)
  BY <1>2, <1>3, <1>14, GoesOn
<1>16. ip' = n + 2
  <2>1. placed # <<>> /\ Last(placed) = n + 2
    BY DEF placed, Last
  <2>2. QED
    BY <2>1, <1>2 DEF Build
<1>17. /\ Written(2, CheckIndex(n + 1, n + 2), <<n + 1, n + 2>>)
       /\ LeadsTo(CheckIndex(n + 1, n + 2)) = {n + 1, n + 2}
  BY <1>4, <1>10 DEF ins, placed
<1>18. /\ blocks'[n + 1] = <<Call(Find(scope, "neg_idx_except"), <<>>), Br(n + 2)>>
       /\ LeadsTo(blocks'[n + 1]) = {n + 2} /\ LeadsTo(blocks'[n + 2]) = {}
  BY <1>5, <1>6, <1>12 DEF underflow
<1>19. \E v, w : \/ blocks'[n + 2] = <<Element(v, Forced.val)>>
                 \/ blocks'[n + 2] = <<Load(v), Element(w, Forced.val)>>
  BY <1>6, <1>12
<1>20. QED
  BY <1>1, <1>3, <1>4, <1>8, <1>11, <1>13, <1>14, <1>15, <1>16, <1>17, <1>18, <1>19

LEMMA ElementPlacement ==
    ASSUME BuilderInv, PlacementInv, ElementIndex
    PROVE  PlacementInv'
<1> DEFINE n == Len(blocks)
           k == 2
           ins == CheckIndex(n + 1, n + 2)
           placed == <<n + 1, n + 2>>
<1>1. /\ InFunction /\ currentFunction' = currentFunction /\ work # <<>> /\ Top.todo = <<>>
      /\ Created = {n + 1, n + 2} /\ LeadsTo(ins) = {n + 1, n + 2} /\ Written(k, ins, placed)
      /\ LeadsTo(blocks'[n + 1]) = {n + 2} /\ LeadsTo(blocks'[n + 2]) = {}
  BY ElementCode
<1>2. PICK rest : Replaces(rest) /\ rest.todo = <<>> /\ rest.node = Nullptr
  BY ElementCode
<1>3. Range(placed) = {n + 1, n + 2} /\ Range(<<>>) = {}
  BY ShortSeqs
<1> HIDE DEF n, k, ins, placed
<1>4. /\ LeadsTo(ins) \subseteq Reserve \cup Created
      /\ \A b \in Created : LeadsTo(blocks'[b]) \subseteq Reserve \cup Created
      /\ Range(placed) \cup Range(rest.todo) = Range(Top.todo) \cup Created
  BY <1>1, <1>2, <1>3
<1>5. FrameOK(rest, Reserve \cup Created)
  BY <1>2 DEF FrameOK, Nullptr
<1>6. ValueStays'
  <2>1. \E p : currentExpression' = Load(p)
    BY DEF ElementIndex
  <2>2. QED
    BY <2>1, ValueForms DEF ValueStays, ValueForm
<1>7. QED
  BY <1>1, <1>2, <1>4, <1>5, <1>6, InnerPlacement
-----------------------------------------------------------------------------
(* The steps of the program and its declarations.                          *)

LEMMA FunEndProceeds == ASSUME BuilderInv, PlacementInv, FunEnd PROVE Proceeds
<1> DEFINE rest == Frame(Nullptr)
<1>1. InFunction /\ work # <<>>
  BY FunEndAtEnd DEF FunEnd, Running
<1>2. Top.node.node = "fun_declaration" /\ Return
  BY DEF FunEnd, Running
<1>3. \E ins : Still(ins) /\ Emit(ins)
  <2>1. \/ Emit(<<>>) \/ Emit(<<RetVoid>>) \/ Emit(<<Ret(Const(0))>>)
    BY DEF FunEnd
  <2>2. Plain(RetVoid) /\ Plain(Ret(Const(0)))
    BY PlainInstructions
  <2>3. QED
    BY <2>1, <2>2, StillShort
<1>4. rest.todo = <<>> /\ rest.node.node # "iteration_stmt"
  BY DEF Frame, Nullptr
<1>5. Top.todo = <<>>
  BY <1>1, <1>2, TopOK DEF Branchings
<1> HIDE DEF rest
<1>6. Replaces(rest)
  BY <1>1, <1>2, <1>4, GoesOn
<1>7. QED
  BY <1>1, <1>3, <1>4, <1>5, <1>6, QuietProceeds

\* A function is left with nothing held.
LEMMA FunEndPlacement ==
    ASSUME BuilderInv, BuilderInv', PlacementInv, FunEnd
    PROVE  PlacementInv'
<1> DEFINE F == Len(layout)
<1>1. InFunction /\ OnlyAtEnd /\ Len(work) = 2 /\ work # <<>> /\ currentFunction' = 0
  BY FunEndAtEnd, FunctionFacts DEF FunEnd
<1>2. Top.node.node = "fun_declaration" /\ Return /\ UNCHANGED lastExpression
  BY DEF FunEnd, Running
<1>3. /\ Frames' /\ NoneLost'
      /\ \A f \in DOMAIN layout' : f # Len(layout) =>
            \A b \in Inserted(f)' : Targets(b)' \subseteq Inserted(f)' \ {layout'[f][1]}
      /\ \A b \in Mine' : Targets(b)' \subseteq Reserve'
  BY FunEndProceeds, ProceedsCode
<1>4. Pending' = {}
  <2>1. IsSeq(Callers) /\ Len(Callers) = 1 /\ Callers[1] = work[1] /\ 1 \in DOMAIN work
        /\ work[1].node.node = "program"
    BY <1>1, OuterFacts
  <2>2. work[1].todo = <<>>
    BY <2>1 DEF PlacementInv, Frames, FrameOK
  <2>3. DOMAIN Callers = {1}
    BY <2>1, SeqFacts
  <2>4. work' = Callers
    BY <1>2 DEF Return
  <2>5. QED
    BY <2>1, <2>2, <2>3, <2>4, ShortSeqs DEF Pending
<1>5. Len(layout') = F
  BY <1>1 DEF OnlyAtEnd
<1>6. Mine' = Range(layout'[F]) /\ Reserve' = Range(layout'[F]) \ {layout'[F][1]}
  BY <1>4, <1>5 DEF Mine, Reserve, Entry, Inserted
<1>7. ASSUME NEW f \in DOMAIN layout', NEW b \in Inserted(f)'
       PROVE  Targets(b)' \subseteq Inserted(f)' \ {layout'[f][1]}
  <2>1. CASE f = F
    <3>1. b \in Mine' /\ Reserve' = Inserted(f)' \ {layout'[f][1]}
      BY <2>1, <1>6, <1>7 DEF Inserted
    <3>2. QED
      BY <3>1, <1>3
  <2>2. CASE f # F
    BY <2>2, <1>3, <1>7
  <2>3. QED
    BY <2>1, <2>2
<1> HIDE DEF F
<1>8. ~InFunction'
  <2>1. layout' # <<>> /\ IsSeq(layout')
    BY DEF BuilderInv, Shape
  <2>2. Len(layout') # 0
    BY <2>1, SeqFacts
  <2>3. QED
    BY <2>2, <1>1 DEF BuilderInv, Position
<1>9. Leading'
  BY <1>7, <1>8 DEF Leading
<1>10. ValueStays'
  BY <1>2 DEF PlacementInv, ValueStays, lastExpression
<1>11. QED
  BY <1>3, <1>9, <1>10 DEF PlacementInv

\* Between functions no method holds blocks.
LEMMA NothingHeld ==
    ASSUME BuilderInv, PlacementInv, ~InFunction
    PROVE  Pending = {} /\ \A d \in DOMAIN work : work[d].todo = <<>>
<1>1. ASSUME NEW d \in DOMAIN work PROVE work[d].todo = <<>>
  <2> DEFINE m == Len(work)
  <2>1. m \in Nat /\ d \in 1..m /\ ~(m >= 3)
    <3>1. IsSeq(work) /\ ~(m >= 3)
      BY DEF BuilderInv, Walk
    <3>2. m \in Nat /\ DOMAIN work = 1..m
      BY <3>1, SeqFacts
    <3>3. QED
      BY <3>1, <3>2
  <2> HIDE DEF m
  <2>2. d = 1 \/ (d = 2 /\ m >= 2)
    BY <2>1
  <2> USE DEF m
  <2>3. work # <<>> => work[1].node.node = "program"
    BY DEF BuilderInv, Walk
  <2>4. work # <<>>
    BY <2>1, SeqFacts
  <2>5. work[d].node.node \in {"program"} \cup Declarations
    BY <2>2, <2>3, <2>4 DEF BuilderInv, Walk
  <2>6. QED
    BY <2>5 DEF PlacementInv, Frames, FrameOK, Declarations
<1>2. QED
  BY <1>1, ShortSeqs DEF Pending

\* A function begins with one entry block.
LEMMA DeclarationFacts ==
    ASSUME BuilderInv, PlacementInv, VisitFunDeclaration,
           NEW F, F = Len(layout), NEW n, n = Len(blocks)
    PROVE  /\ F \in Nat /\ n \in Nat /\ DOMAIN layout = 1..F /\ DOMAIN blocks = 1..n
           /\ currentFunction = 0 /\ currentFunction' = F + 1 /\ ~InFunction
           /\ DOMAIN layout' = 1..F + 1 /\ Len(layout') = F + 1 /\ DOMAIN blocks' = 1..n + 1
           /\ layout'[F + 1] = <<n + 1>> /\ Range(layout'[F + 1]) = {n + 1}
           /\ blocks'[n + 1] = <<>> /\ \A b \in 1..n : blocks'[b] = blocks[b]
           /\ \A f \in 1..F : /\ layout'[f] = layout[f] /\ Inserted(f)' = Inserted(f)
                              /\ Inserted(f) \subseteq 1..n
           /\ Pending = {} /\ Pending' = {}
           /\ work # <<>> /\ Top.node.node = "fun_declaration"
           /\ \E rest : /\ Replaces(rest) /\ work' = Append(Callers, rest)
                        /\ rest.todo = <<>> /\ rest.node = Top.node
<1> DEFINE rest == [Top EXCEPT !.at = "params"]
<1>1. /\ IsSeq(blocks) /\ IsSeq(layout) /\ blocks' = Append(blocks, <<>>)
      /\ layout' = Append(layout, <<n + 1>>) /\ currentFunction = 0 /\ currentFunction' = F + 1
  BY EntryFacts
<1>2. F \in Nat /\ n \in Nat /\ DOMAIN layout = 1..F /\ DOMAIN blocks = 1..n
  BY <1>1, SeqFacts
<1>3. /\ IsSeq(layout') /\ Len(layout') = F + 1 /\ layout'[F + 1] = <<n + 1>>
      /\ \A f \in 1..F : layout'[f] = layout[f]
      /\ IsSeq(blocks') /\ Len(blocks') = n + 1 /\ blocks'[n + 1] = <<>>
      /\ \A b \in 1..n : blocks'[b] = blocks[b]
  BY <1>1, AppendFacts
<1>4. /\ DOMAIN layout' = 1..F + 1 /\ DOMAIN blocks' = 1..n + 1
      /\ \A f \in 1..F : Inserted(f)' = Inserted(f) /\ Inserted(f) \subseteq 1..n
      /\ Range(layout'[F + 1]) = {n + 1}
  <2>1. Range(<<n + 1>>) = {n + 1}
    BY ShortSeqs
  <2>2. \A f \in DOMAIN layout : Inserted(f) \subseteq DOMAIN blocks
    BY DEF BuilderInv, Shape
  <2>3. DOMAIN layout' = 1..F + 1 /\ DOMAIN blocks' = 1..n + 1
    BY <1>3, SeqFacts
  <2>4. QED
    BY <2>1, <2>2, <2>3, <1>2, <1>3 DEF Inserted
<1>5. ~InFunction
  BY <1>1, <1>2 DEF BuilderInv, Position, Shape
<1>6. Pending = {} /\ Top.todo = <<>> /\ work # <<>> /\ work' = Append(Callers, rest)
      /\ Top.node.node = "fun_declaration"
  <2>1. work # <<>> /\ Top.node.node = "fun_declaration" /\ work' = Append(Callers, rest)
    BY DEF VisitFunDeclaration, Running
  <2>2. QED
    BY <2>1, <1>5, NothingHeld, TopOK DEF Branchings
<1>7. rest.todo = <<>> /\ rest.node = Top.node
  BY <1>6, TopOK
<1> HIDE DEF rest
<1>8. Replaces(rest)
  BY <1>6, GoesOn
<1>9. Pending' = {}
  <2>1. /\ Pending = Waiting(Callers) \cup Range(Top.todo)
        /\ Pending' = Waiting(Callers) \cup Range(rest.todo)
    BY <1>6, <1>8, PendingFacts
  <2>2. QED
    BY <2>1, <1>6, <1>7
<1>10. QED
  BY <1>1, <1>2, <1>3, <1>4, <1>5, <1>6, <1>7, <1>8, <1>9

\* A function begins with an entry block that leads nowhere.
LEMMA FunDeclarationPlacement ==
    ASSUME BuilderInv, PlacementInv, VisitFunDeclaration
    PROVE  PlacementInv'
<1> DEFINE F == Len(layout)
           n == Len(blocks)
<1>1. /\ F \in Nat /\ n \in Nat /\ DOMAIN layout = 1..F /\ DOMAIN blocks = 1..n
      /\ currentFunction = 0 /\ currentFunction' = F + 1 /\ ~InFunction
      /\ DOMAIN layout' = 1..F + 1 /\ Len(layout') = F + 1 /\ DOMAIN blocks' = 1..n + 1
      /\ layout'[F + 1] = <<n + 1>> /\ Range(layout'[F + 1]) = {n + 1}
      /\ blocks'[n + 1] = <<>> /\ \A b \in 1..n : blocks'[b] = blocks[b]
      /\ \A f \in 1..F : /\ layout'[f] = layout[f] /\ Inserted(f)' = Inserted(f)
                         /\ Inserted(f) \subseteq 1..n
      /\ Pending = {} /\ Pending' = {}
      /\ work # <<>> /\ Top.node.node = "fun_declaration"
      /\ \E rest : /\ Replaces(rest) /\ work' = Append(Callers, rest)
                   /\ rest.todo = <<>> /\ rest.node = Top.node
  BY DeclarationFacts
<1>2. PICK rest : /\ Replaces(rest) /\ work' = Append(Callers, rest)
                  /\ rest.todo = <<>> /\ rest.node = Top.node
  BY <1>1
<1>3. Frames'
  <2>1. IsSeq(Callers) /\ IsSeq(work') /\ Len(work') = Len(Callers) + 1
        /\ (\A d \in 1..Len(Callers) : work'[d] = Callers[d]) /\ work'[Len(Callers) + 1] = rest
    BY <1>1, <1>2, OuterFacts, AppendFacts
  <2>2. ASSUME NEW d \in DOMAIN work' PROVE FrameOK(work'[d], Reserve')
    <3>1. d \in 1..Len(Callers) \/ d = Len(Callers) + 1
      BY <2>1, SeqFacts
    <3>2. CASE d = Len(Callers) + 1
      BY <3>2, <2>1, <1>1, <1>2 DEF FrameOK
    <3>3. CASE d \in 1..Len(Callers)
      <4>1. Len(work) = 2 /\ Len(Callers) = Len(work) - 1 /\ work'[d] = Callers[d]
            /\ (\A e \in 1..Len(work) - 1 : Callers[e] = work[e]) /\ DOMAIN work = 1..Len(work)
        BY <3>3, <2>1, <1>1, <1>2, OuterFacts
      <4>2. d = 1 /\ work'[d] = work[1] /\ 1 \in DOMAIN work
        BY <4>1, <3>3
      <4>3. work[1].todo = <<>> /\ work[1].node.node = "program"
        BY <4>2, <1>1, <1>2, NothingHeld, OuterFacts
      <4>4. QED
        BY <4>2, <4>3 DEF FrameOK
    <3>4. QED
      BY <3>1, <3>2, <3>3
  <2>3. QED
    BY <2>2 DEF Frames
<1> HIDE DEF F, n
<1>4. NoneLost'
  <2>1. ASSUME NEW b \in DOMAIN blocks' PROVE \E f \in DOMAIN layout' : b \in Inserted(f)'
    <3>1. CASE b = n + 1
      <4>1. F + 1 \in DOMAIN layout'
        BY <1>1
      <4>2. QED
        BY <4>1, <3>1, <1>1 DEF Inserted
    <3>2. CASE b # n + 1
      <4>1. b \in DOMAIN blocks
        BY <3>2, <1>1
      <4>2. PICK f \in DOMAIN layout : b \in Inserted(f)
        BY <4>1, <1>1, <1>2 DEF PlacementInv, NoneLost
      <4>3. f \in DOMAIN layout' /\ f \in 1..F
        BY <1>1
      <4>4. QED
        BY <4>2, <4>3, <1>1
    <3>3. QED
      BY <3>1, <3>2
  <2>2. QED
    BY <2>1 DEF NoneLost
<1>5. ASSUME NEW f \in DOMAIN layout', f # currentFunction', NEW b \in Inserted(f)'
       PROVE  Targets(b)' \subseteq Inserted(f)' \ {layout'[f][1]}
  <2>1. f \in 1..F /\ f \in DOMAIN layout /\ f # 0
    BY <1>1, <1>5
  <2>2. Inserted(f)' = Inserted(f) /\ layout'[f] = layout[f] /\ b \in 1..n
    BY <2>1, <1>1
  <2>3. blocks'[b] = blocks[b]
    BY <2>2, <1>1
  <2>4. Targets(b)' = Targets(b)
    BY <2>3 DEF Targets
  <2>5. Targets(b) \subseteq Inserted(f) \ {layout[f][1]}
    BY <2>1, <2>2, <1>1 DEF PlacementInv, Leading
  <2>6. QED
    BY <2>2, <2>4, <2>5
<1>6. ASSUME NEW b \in Mine' PROVE Targets(b)' \subseteq Reserve'
  <2>1. b = n + 1
    BY <1>1 DEF Mine, Inserted
  <2>2. Targets(b)' = LeadsTo(<<>>)
    BY <2>1, <1>1, TargetsLeadThen
  <2>3. QED
    BY <2>2, LeadsShort
<1>7. Leading'
  BY <1>5, <1>6 DEF Leading
<1>8. ValueStays'
  BY DEF VisitFunDeclaration, lastExpression, PlacementInv, ValueStays
<1>9. QED
  BY <1>3, <1>4, <1>7, <1>8 DEF PlacementInv

\* Outside functions nothing is built: the program goes from one declaration
\* to the next, and a global variable adds to the module alone.
LEMMA OuterStepFacts ==
    ASSUME BuilderInv, BuilderInv', PlacementInv, VisitProgram \/ VisitGlobalVarDeclaration
    PROVE  /\ work # <<>> /\ Top.node.node \in {"program", "var_declaration"}
           /\ UNCHANGED <<layout, blocks, ip>>
           /\ currentFunction = 0 /\ currentFunction' = currentFunction /\ ~InFunction'
           /\ \E rest : Replaces(rest) /\ rest.todo = <<>> /\ rest.node = Top.node
           /\ Pending' = Pending
<1> DEFINE next == [Top EXCEPT !.i = @ + 1]
<1>1. work # <<>> /\ Top.node.node \in {"program", "var_declaration"}
      /\ UNCHANGED code /\ currentFunction' = currentFunction
  BY DEF VisitProgram, VisitGlobalVarDeclaration, Running, current
<1>2. UNCHANGED <<layout, blocks, ip>>
  BY <1>1 DEF code
<1>3. ~InFunction
  <2>1. CASE VisitGlobalVarDeclaration
    BY <2>1, ScopesTellFunctions DEF VisitGlobalVarDeclaration
  <2>2. CASE VisitProgram
    <3>1. Len(work) = 1
      BY <2>2, <1>1, OuterFacts DEF VisitProgram, Running
    <3>2. QED
      BY <3>1 DEF InFunction
  <2>3. QED
    BY <2>1, <2>2
<1>4. currentFunction = 0 /\ ~InFunction'
  <2>1. IsSeq(layout') /\ layout' # <<>>
    BY DEF BuilderInv, Shape
  <2>2. Len(layout') # 0
    BY <2>1, SeqFacts
  <2>3. currentFunction = 0
    BY <1>3 DEF BuilderInv, Position
  <2>4. QED
    BY <2>2, <2>3, <1>1 DEF BuilderInv, Position
<1>5. \E rest : Replaces(rest) /\ rest.todo = <<>> /\ rest.node = Top.node
  <2>1. /\ DOMAIN Top = {"at", "node", "i", "vals", "todo", "bb_condition",
                         "will_enter_scope"}
        /\ Top.todo = <<>>
    BY <1>1, TopOK DEF Branchings
  <2>2. CASE Return
    BY <2>1, <2>2, <1>1, GoesOn
  <2>3. CASE ~Return
    <3> DEFINE child == Top.node.declarations[Top.i + 1]
    <3>1. work' = Callers \o <<next, Frame(child)>>
      BY <2>3 DEF VisitProgram, VisitGlobalVarDeclaration, Visit
    <3>2. next.todo = <<>> /\ next.node = Top.node
      BY <2>1
    <3> HIDE DEF next, child
    <3>3. Replaces(next)
      BY <3>1, <1>1, GoesOn
    <3>4. QED
      BY <3>2, <3>3
  <2>4. QED
    BY <2>2, <2>3
<1>6. Pending' = Pending
  BY <1>1, <1>5, PendingFacts, TopOK DEF Branchings
<1>7. QED
  BY <1>1, <1>2, <1>4, <1>5, <1>6

LEMMA OuterPlacement ==
    ASSUME BuilderInv, BuilderInv', PlacementInv, VisitProgram \/ VisitGlobalVarDeclaration
    PROVE  PlacementInv'
<1>1. /\ work # <<>> /\ Top.node.node \in {"program", "var_declaration"}
      /\ UNCHANGED <<layout, blocks>> /\ Pending' = Pending
      /\ currentFunction = 0 /\ currentFunction' = currentFunction /\ ~InFunction'
  BY OuterStepFacts
<1>2. PICK rest : Replaces(rest) /\ rest.todo = <<>> /\ rest.node = Top.node
  BY OuterStepFacts
<1>3. Reserve' = Reserve
  BY <1>1 DEF Reserve, Mine, Entry, Inserted
<1>4. Frames'
  <2>1. FrameOK(rest, Reserve')
    BY <1>1, <1>2 DEF FrameOK
  <2>2. QED
    <3>1. Frames /\ work # <<>> /\ Replaces(rest) /\ Reserve \subseteq Reserve'
      BY <1>1, <1>2, <1>3 DEF PlacementInv
    <3>2. QED
      BY <2>1, <3>1, FramesKept
<1>5. NoneLost'
  BY <1>1 DEF PlacementInv, NoneLost, Inserted
<1>6. Leading'
  BY <1>1 DEF PlacementInv, Leading, Inserted, Targets
<1>7. ValueStays'
  <2>1. CASE UNCHANGED currentExpression
    BY <2>1 DEF PlacementInv, ValueStays
  <2>2. CASE \E v : currentExpression' = Returning(v)
    BY <2>2, ValueForms DEF ValueStays, ValueForm
  <2>3. QED
    BY <2>1, <2>2 DEF VisitProgram, VisitGlobalVarDeclaration, DeclareSize, lastExpression
<1>8. QED
  BY <1>4, <1>5, <1>6, <1>7 DEF PlacementInv

LEMMA UnchangedPlacement ==
    ASSUME PlacementInv, UNCHANGED vars
    PROVE  PlacementInv'
<1>1. UNCHANGED <<work, layout, blocks, currentExpression, currentFunction>>
  BY DEF vars, code, lastExpression, current
<1>2. /\ InFunction' = InFunction /\ Pending' = Pending
      /\ \A f : Inserted(f)' = Inserted(f)
      /\ \A b : Targets(b)' = Targets(b)
  BY <1>1 DEF InFunction, Pending, Inserted, Targets
<1>3. Mine' = Mine /\ Reserve' = Reserve
  BY <1>1, <1>2 DEF Mine, Reserve, Entry, Inserted
<1>4. QED
  BY <1>1, <1>2, <1>3 DEF PlacementInv, Frames, NoneLost, ValueStays, Leading

\* In the beginning there are no blocks.
LEMMA InitPlacement == ASSUME Init PROVE PlacementInv
<1>1. BuilderInv
  BY InitEstablishes
<1>2. PICK program \in Programs : work = <<Frame(program)>>
  BY DEF Init
<1>3. program.node = "program"
  BY ProgramsAssumption
<1> DEFINE frame == Frame(program)
<1>4. frame.todo = <<>> /\ frame.node = program
  BY DEF Frame
<1>5. DOMAIN work = {1} /\ work[1] = frame
  BY <1>2, ShortSeqs
<1> HIDE DEF frame
<1>6. ~(Len(work) >= 2)
  <2>1. Len(work) = 1
    BY <1>2, ShortSeqs
  <2>2. QED
    BY <2>1
<1>7. ~InFunction
  BY <1>6 DEF InFunction
<1>8. blocks = <<>> /\ DOMAIN blocks = {} /\ \A f \in DOMAIN layout : layout[f] = <<>>
  BY DEF Init
<1>9. Frames
  BY <1>3, <1>4, <1>5 DEF Frames, FrameOK
<1>10. NoneLost
  BY <1>8 DEF NoneLost
<1>11. ValueStays
  BY ValueForms DEF Init, ValueStays, ValueForm
<1>12. Leading
  <2>1. \A f \in DOMAIN layout : Inserted(f) = {}
    BY <1>8, ShortSeqs DEF Inserted
  <2>2. QED
    BY <2>1, <1>7 DEF Leading
<1>13. QED
  BY <1>9, <1>10, <1>11, <1>12 DEF PlacementInv

LEMMA PlacementStep ==
    ASSUME BuilderInv, BuilderInv', PlacementInv, [Next]_vars
    PROVE  PlacementInv'
<1>1. CASE VisitProgram \/ VisitGlobalVarDeclaration
  BY <1>1, OuterPlacement
<1>2. CASE VisitFunDeclaration \/ FunEnd
  BY <1>2, FunDeclarationPlacement, FunEndPlacement
<1>3. CASE \/ FunParam \/ FunBody \/ VisitCompoundStmt \/ CompoundItem \/ CompoundEnd
           \/ VisitExpresionStmt \/ VisitNum \/ VisitVar \/ VisitElement
           \/ VisitAssignExpression \/ AssignExpressionVar \/ VisitOperator
  <2>1. currentFunction' = currentFunction /\ ValueStays'
    BY <1>3, WalkQuiet DEF Quiet
  <2>2. QED
    BY <1>3, <2>1, WalkProceeds, ProceedsPlacement
<1>4. CASE \/ VisitLocalVarDeclaration \/ VisitParam \/ VisitReturnStmt \/ ReturnValue
           \/ AssignExpressionValue \/ OperatorLeft \/ OperatorRight \/ VisitCall \/ CallArgument
  <2>1. currentFunction' = currentFunction /\ ValueStays'
    BY <1>4, EmitsQuiet DEF Quiet
  <2>2. QED
    BY <1>4, <2>1, EmitsProceeds, ProceedsPlacement
<1>5. CASE \/ VisitSelectionStmt \/ SelectionCondition \/ SelectionElse \/ SelectionEnd
           \/ VisitIterationStmt \/ IterationCondition \/ IterationEnd
  <2>1. currentFunction' = currentFunction /\ UNCHANGED lastExpression
    BY <1>5, BranchingFacts
  <2>2. ValueStays'
    BY <2>1 DEF PlacementInv, ValueStays, lastExpression
  <2>3. QED
    BY <1>5, <2>1, <2>2, BranchingProceeds, ProceedsPlacement
<1>6. CASE ElementIndex
  BY <1>6, ElementPlacement
<1>7. CASE Idle \/ UNCHANGED vars
  BY <1>7, UnchangedPlacement DEF Idle
<1>8. QED
  BY <1>1, <1>2, <1>3, <1>4, <1>5, <1>6, <1>7 DEF Next

\* From the first state on, the running methods hold the blocks that are in
\* no function, and branches lead to blocks of their own function (the locals
\* that visit(syntax_selection_stmt) and visit(syntax_iteration_stmt) keep
\* across the visits they make, cminus_builder.cpp:159-234).
THEOREM PlacementInvariance == Spec => []PlacementInv
<1>1. Init => PlacementInv
  BY InitPlacement
<1>2. BuilderInv /\ BuilderInv' /\ PlacementInv /\ [Next]_vars => PlacementInv'
  BY PlacementStep
<1>3. QED
  BY <1>1, <1>2, BuilderInvariance, PTL DEF Spec

\* The places of a block, one by one.
LEMMA PlacesFacts ==
    ASSUME NEW b
    PROVE  /\ \A p : p \in PlacesInLayout(b) <=>
                 \E f \in DOMAIN layout : \E j \in DOMAIN layout[f] :
                     layout[f][j] = b /\ p = <<"layout", f, j>>
           /\ \A p : p \in PlacesInWork(b) <=>
                 \E d \in DOMAIN work : \E j \in DOMAIN work[d].todo :
                     work[d].todo[j] = b /\ p = <<"work", d, j>>
<1>1. ASSUME NEW p
      PROVE  p \in PlacesInLayout(b) <=>
                 \E f \in DOMAIN layout : \E j \in DOMAIN layout[f] :
                     layout[f][j] = b /\ p = <<"layout", f, j>>
  BY DEF PlacesInLayout
<1>2. ASSUME NEW p
      PROVE  p \in PlacesInWork(b) <=>
                 \E d \in DOMAIN work : \E j \in DOMAIN work[d].todo :
                     work[d].todo[j] = b /\ p = <<"work", d, j>>
  BY DEF PlacesInWork
<1>3. QED
  BY <1>1, <1>2

\* A block is nowhere twice.
LEMMA PlacesAgree ==
    ASSUME BuilderInv, NEW b,
           NEW p \in PlacesInLayout(b) \cup PlacesInWork(b),
           NEW q \in PlacesInLayout(b) \cup PlacesInWork(b)
    PROVE  p = q
<1> DEFINE Placed(x) == \E f \in DOMAIN layout : \E j \in DOMAIN layout[f] :
                            layout[f][j] = b /\ x = <<"layout", f, j>>
           Waits(x) == \E d \in DOMAIN work : \E j \in DOMAIN work[d].todo :
                            work[d].todo[j] = b /\ x = <<"work", d, j>>
<1>1. (Placed(p) \/ Waits(p)) /\ (Placed(q) \/ Waits(q))
  BY PlacesFacts
<1>2. CASE Placed(p) /\ Placed(q)
  BY <1>2 DEF BuilderInv, Once
<1>3. ~(\E x, y : Placed(x) /\ Waits(y))
  <2>1. SUFFICES ASSUME NEW f \in DOMAIN layout, NEW d \in DOMAIN work,
                        \E i \in DOMAIN layout[f] : layout[f][i] = b,
                        \E j \in DOMAIN work[d].todo : work[d].todo[j] = b
                 PROVE  FALSE
    BY Zenon
  <2>2. b \in Range(layout[f]) /\ b \in Range(work[d].todo)
    BY <2>1, Zenon DEF Range
  <2>3. Range(work[d].todo) \cap Range(layout[f]) = {}
    BY DEF BuilderInv, Held, Holds
  <2>4. QED
    BY <2>2, <2>3
<1>4. CASE Waits(p) /\ Waits(q)
  <2>1. PICK d \in DOMAIN work :
                \E i \in DOMAIN work[d].todo : work[d].todo[i] = b /\ p = <<"work", d, i>>
    BY <1>4
  <2>2. PICK e \in DOMAIN work :
                \E j \in DOMAIN work[e].todo : work[e].todo[j] = b /\ q = <<"work", e, j>>
    BY <1>4
  <2>3. b \in Range(work[d].todo) /\ b \in Range(work[e].todo)
    BY <2>1, <2>2, Zenon DEF Range
  <2>4. d = e
    BY <2>3 DEF BuilderInv, Held
  <2>5. \A i, j \in DOMAIN work[d].todo : work[d].todo[i] = work[d].todo[j] => i = j
    BY DEF BuilderInv, Held, Holds
  <2>6. QED
    BY <2>1, <2>2, <2>4, <2>5
<1> HIDE DEF Placed, Waits
<1>5. QED
  BY <1>1, <1>2, <1>3, <1>4

\* A block that visit(syntax_selection_stmt), visit(syntax_iteration_stmt)
\* or visit(syntax_var) creates is inserted into one function, once, or the
\* method still holds it (cminus_builder.cpp:159-265).
THEOREM BlocksHaveOnePlace == Spec => []OnePlaceForEachBlock
<1>1. BuilderInv /\ PlacementInv => OnePlaceForEachBlock
  <2> SUFFICES ASSUME BuilderInv, PlacementInv, NEW b \in DOMAIN blocks
               PROVE  \E place \in PlacesInLayout(b) \cup PlacesInWork(b) :
                          PlacesInLayout(b) \cup PlacesInWork(b) = {place}
    BY DEF OnePlaceForEachBlock
  <2> DEFINE P == PlacesInLayout(b) \cup PlacesInWork(b)
  <2>1. \E p : p \in P
    <3>1. CASE b \in Pending
      <4>1. PICK d \in DOMAIN work : b \in Range(work[d].todo)
        BY <3>1 DEF Pending
      <4>2. PICK j \in DOMAIN work[d].todo : work[d].todo[j] = b
        BY <4>1, Zenon DEF Range
      <4>3. <<"work", d, j>> \in PlacesInWork(b)
        BY <4>2, PlacesFacts
      <4>4. QED
        BY <4>3
    <3>2. CASE \E f \in DOMAIN layout : b \in Inserted(f)
      <4>1. PICK f \in DOMAIN layout : b \in Range(layout[f])
        BY <3>2 DEF Inserted
      <4>2. PICK j \in DOMAIN layout[f] : layout[f][j] = b
        BY <4>1, Zenon DEF Range
      <4>3. <<"layout", f, j>> \in PlacesInLayout(b)
        BY <4>2, PlacesFacts
      <4>4. QED
        BY <4>3
    <3>3. QED
      BY <3>1, <3>2 DEF PlacementInv, NoneLost
  <2>2. \A p, q \in P : p = q
    BY PlacesAgree
  <2> HIDE DEF P
  <2>3. \E place \in P : P = {place}
    BY <2>1, <2>2
  <2>4. QED
    BY <2>3 DEF P
<1>2. QED
  BY <1>1, BuilderInvariance, PlacementInvariance, PTL

\* Every br and cond_br that the builder writes leads to a block of its own
\* function, never to the entry block (cminus_builder.cpp:159-265).
THEOREM BranchesStayInside == Spec => []BranchTargetsInserted
<1>1. BuilderInv /\ PlacementInv => BranchTargetsInserted
  <2> SUFFICES ASSUME BuilderInv, PlacementInv, NEW f \in DOMAIN layout, NEW b \in Inserted(f)
               PROVE  Targets(b) \subseteq (Inserted(f) \ {layout[f][1]})
                                      \cup (IF f = currentFunction THEN Pending ELSE {})
    BY DEF BranchTargetsInserted
  <2>1. CASE f # currentFunction
    BY <2>1 DEF PlacementInv, Leading
  <2>2. CASE f = currentFunction
    <3>1. f # 0
      BY SeqFacts DEF BuilderInv, Shape
    <3>2. InFunction /\ f = Len(layout)
      BY <2>2, <3>1 DEF BuilderInv, Position
    <3>3. Targets(b) \subseteq Reserve
      BY <3>2 DEF PlacementInv, Leading, Mine
    <3>4. QED
      BY <2>2, <3>2, <3>3 DEF Reserve, Mine, Entry
  <2>3. QED
    BY <2>1, <2>2
<1>2. QED
  BY <1>1, BuilderInvariance, PlacementInvariance, PTL

=============================================================================
