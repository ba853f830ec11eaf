-------------------------- MODULE DominanceProofs --------------------------
(***************************************************************************)
(* Proof that in the functions CminusBuilder writes every value is         *)
(* computed before it is used, whichever way the execution takes, for      *)
(* every set of Flat programs: DominanceInv is inductive together with     *)
(* BuilderInv, PlacementInv, NamesInv and DeclarationInv.                  *)
(***************************************************************************)
EXTENDS ScopeProofs

-----------------------------------------------------------------------------
(* Dominance lasts.                                                        *)

\* The blocks C are added to function f: the ways that were there stay, and
\* new ones lead from them only to blocks to which branches could be added.
Expands(f, C) ==
    /\ layout'[f][1] = layout[f][1]
    /\ Inserted(f) \subseteq Inserted(f)' /\ Inserted(f) \cap C = {}
    /\ Inserted(f) \cup Open(f) \cup C \subseteq Inserted(f)' \cup Open(f)'
    /\ Open(f)' \subseteq Open(f) \cup C
    /\ \A b \in Inserted(f) \cup Open(f) : Targets(b)' \subseteq Targets(b) \cup Open(f) \cup C
    /\ \A b \in C : Targets(b)' \subseteq C
    /\ \A b \in Inserted(f) : DOMAIN blocks[b] \subseteq DOMAIN blocks'[b]

\* What dominated a block goes on doing so.
LEMMA LastingKept ==
    ASSUME NEW f, NEW C, Expands(f, C), NEW d, NEW u, u \notin C, Lasting(f, d, u)
    PROVE  Lasting(f, d, u)'
<1>1. CASE d = layout[f][1]
  BY <1>1 DEF Expands, Lasting
<1>2. CASE d # layout[f][1]
  <2>1. PICK S \in SUBSET (Inserted(f) \cup Open(f)) :
            Evades(S, f, d) /\ Open(f) \subseteq S \cup {d} /\ u \notin S
    BY <1>2 DEF Lasting
  <2>2. PICK R : R = S \cup C
    OBVIOUS
  <2>3. R \subseteq Inserted(f)' \cup Open(f)'
    BY <2>1, <2>2 DEF Expands
  <2>4. Open(f)' \subseteq R \cup {d} /\ u \notin R
    BY <2>1, <2>2 DEF Expands
  <2>5. layout'[f][1] \in R \cup {d}
    BY <2>1, <2>2 DEF Expands, Evades
  <2>6. ASSUME NEW b \in R PROVE Targets(b)' \subseteq R \cup {d}
    <3>1. CASE b \in C
      BY <3>1, <2>2 DEF Expands
    <3>2. CASE b \in S
      <4>1. Targets(b)' \subseteq Targets(b) \cup Open(f) \cup C
        BY <3>2, <2>1 DEF Expands
      <4>2. Targets(b) \subseteq S \cup {d}
        BY <3>2, <2>1 DEF Evades
      <4>3. QED
        BY <4>1, <4>2, <2>1, <2>2
    <3>3. QED
      BY <3>1, <3>2, <2>2
  <2>7. Evades(R, f, d)'
    BY <2>5, <2>6 DEF Evades
  <2>8. R \in SUBSET (Inserted(f)' \cup Open(f)')
    BY <2>3
  <2>9. QED
    BY <2>4, <2>7, <2>8 DEF Lasting
<1>3. QED
  BY <1>1, <1>2

\* The instructions of a function, and those of a place.
LEMMA InstructionsFacts ==
    ASSUME NEW f
    PROVE  /\ \A b \in Inserted(f) : \A j \in DOMAIN blocks[b] : <<b, j>> \in InstructionsOf(f)
           /\ \A p \in InstructionsOf(f) :
                 p[1] \in Inserted(f) /\ p[2] \in DOMAIN blocks[p[1]] /\ p = <<p[1], p[2]>>
  BY DEF InstructionsOf

LEMMA InstructionsThen ==
    ASSUME NEW f
    PROVE  /\ \A b \in Inserted(f)' : \A j \in DOMAIN blocks'[b] : <<b, j>> \in InstructionsOf(f)'
           /\ \A p \in InstructionsOf(f)' :
                 p[1] \in Inserted(f)' /\ p[2] \in DOMAIN blocks'[p[1]] /\ p = <<p[1], p[2]>>
  BY DEF InstructionsOf

LEMMA InstructionsKept ==
    ASSUME NEW f, NEW C, Expands(f, C)
    PROVE  InstructionsOf(f) \subseteq InstructionsOf(f)'
<1>1. ASSUME NEW p \in InstructionsOf(f) PROVE p \in InstructionsOf(f)'
  <2>1. p[1] \in Inserted(f) /\ p[2] \in DOMAIN blocks[p[1]] /\ p = <<p[1], p[2]>>
    BY InstructionsFacts
  <2>2. p[1] \in Inserted(f)' /\ p[2] \in DOMAIN blocks'[p[1]]
    BY <2>1 DEF Expands
  <2>3. <<p[1], p[2]>> \in InstructionsOf(f)'
    BY <2>2, InstructionsThen
  <2>4. QED
    BY <2>1, <2>3
<1>2. QED
  BY <1>1

\* An operand that could be used can still be used.
LEMMA UsableKept ==
    ASSUME NEW f, NEW C, Expands(f, C), NEW v, NEW p, p[1] \notin C, Usable(v, f, p)
    PROVE  Usable(v, f, p)'
<1>1. CASE v.k = "inst"
  <2>1. /\ v.ref \in InstructionsOf(f)
        /\ v.ref[1] = p[1] => v.ref[2] < p[2]
        /\ v.ref[1] # p[1] => Lasting(f, v.ref[1], p[1])
    BY <1>1 DEF Usable
  <2>2. v.ref \in InstructionsOf(f)'
    BY <2>1, InstructionsKept
  <2>3. v.ref[1] # p[1] => Lasting(f, v.ref[1], p[1])'
    BY <2>1, LastingKept
  <2>4. QED
    BY <2>1, <2>2, <2>3 DEF Usable
<1>2. CASE v.k # "inst"
  BY <1>2 DEF Usable
<1>3. QED
  BY <1>1, <1>2

\* A step inside a function expands it by the blocks it creates, and leaves
\* the others alone.
LEMMA StepExpands ==
    ASSUME BuilderInv, BuilderInv', PlacementInv, InFunction, work # <<>>,
           currentFunction' = currentFunction \/ (currentFunction' = 0 /\ Pending' = {}),
           NEW rest, Replaces(rest), FrameOK(rest, Loops \cup Created),
           NEW k, NEW ins, NEW placed, Written(k, ins, placed),
           Range(placed) \cup Range(rest.todo) = Range(Top.todo) \cup Created,
           LeadsTo(ins) \subseteq Pending \cup Loops \cup Created,
           \A b \in Created : LeadsTo(blocks'[b]) \subseteq Created
    PROVE  /\ DOMAIN layout' = DOMAIN layout
           /\ Expands(currentFunction, Created)
           /\ \A f \in DOMAIN layout : f # currentFunction => Expands(f, {})
<1>0. PICK F : F = Len(layout)
  OBVIOUS
<1>1. /\ Pending = Waiting(Callers) \cup Range(Top.todo)
      /\ Pending' = Waiting(Callers) \cup Range(rest.todo)
  BY PendingFacts
<1>2. Range(placed) \subseteq Pending \cup Created /\ Pending' \subseteq Pending \cup Created
  BY <1>1
<1>3. /\ DOMAIN layout' = DOMAIN layout
      /\ ip \in DOMAIN blocks /\ ip \notin Pending \cup Created
      /\ Pending \subseteq DOMAIN blocks
      /\ \A x \in DOMAIN blocks : blocks'[x] = blocks[x] \/ x = ip
      /\ \A f \in DOMAIN layout :
            /\ Inserted(f) \subseteq DOMAIN blocks /\ Inserted(f) \subseteq Inserted(f)'
            /\ Inserted(f) \cap (Pending \cup Created) = {}
            /\ f # currentFunction => \A x \in Inserted(f) : blocks'[x] = blocks[x]
  BY <1>2, InsertedGrows
<1>4. /\ Mine' = Mine \cup Created /\ Entry' = Entry /\ Mine \subseteq DOMAIN blocks
  BY MineGrows
<1>5. Pending \cup Loops \subseteq Reserve
  BY HeldReserved
<1>6. Loops' \subseteq Loops \cup Created
  BY LoopsKept
<1>7. /\ IsSeq(layout) /\ F \in DOMAIN layout /\ currentFunction = F /\ Len(layout) \in Nat
      /\ DOMAIN layout = 1..Len(layout)
      /\ \A b \in DOMAIN blocks : IsSeq(blocks[b])
  BY <1>0, CodeFacts
<1>8. /\ Len(layout') = F
      /\ \A f \in DOMAIN layout : f # F => layout'[f] = layout[f]
      /\ IsSeq(ins) /\ blocks'[ip] = blocks[ip] \o ins
  BY <1>0 DEF Written, OnlyAtEnd
<1>9. LeadsTo(blocks'[ip]) = LeadsTo(blocks[ip]) \cup LeadsTo(ins)
  BY <1>3, <1>7, <1>8, LeadsConcat
<1>10. \A b \in DOMAIN blocks :
          Targets(b)' \subseteq Targets(b) \cup Pending \cup Loops \cup Created
  BY <1>3, <1>9, TargetsLead, TargetsLeadThen
<1>11. \A b \in Created : Targets(b)' \subseteq Created
  BY TargetsLeadThen
<1>12. ASSUME NEW b \in DOMAIN blocks PROVE DOMAIN blocks[b] \subseteq DOMAIN blocks'[b]
  <2>1. CASE b = ip
    <3>1. /\ IsSeq(blocks[ip] \o ins) /\ Len(blocks[ip] \o ins) = Len(blocks[ip]) + Len(ins)
          /\ IsSeq(blocks[ip])
      BY <1>3, <1>7, <1>8, ConcatFacts
    <3>2. /\ DOMAIN blocks[ip] = 1..Len(blocks[ip]) /\ Len(blocks[ip]) \in Nat
          /\ DOMAIN (blocks[ip] \o ins) = 1..Len(blocks[ip] \o ins) /\ Len(ins) \in Nat
      BY <3>1, <1>8, SeqFacts
    <3>3. QED
      BY <2>1, <3>1, <3>2, <1>8
  <2>2. CASE b # ip
    BY <2>2, <1>3
  <2>3. QED
    BY <2>1, <2>2
<1>13. ASSUME NEW f \in DOMAIN layout, f # currentFunction PROVE Expands(f, {})
  <2>1. layout'[f] = layout[f] /\ Inserted(f)' = Inserted(f)
    BY <1>7, <1>8, <1>13 DEF Inserted
  <2>2. f # currentFunction' /\ Open(f) = {} /\ Open(f)' = {}
    BY <1>7, <1>13 DEF Open
  <2>3. \A b \in Inserted(f) : Targets(b)' = Targets(b)
    BY <1>3, <1>13, TargetsLead, TargetsLeadThen
  <2>4. \A b \in Inserted(f) : DOMAIN blocks[b] \subseteq DOMAIN blocks'[b]
    BY <1>3, <1>12
  <2>5. QED
    BY <2>1, <2>2, <2>3, <2>4 DEF Expands
<1>14. Expands(F, Created)
  <2>1. layout'[F][1] = layout[F][1]
    BY <1>0, <1>4, <1>8 DEF Entry
  <2>2. Open(F) = Pending \cup Loops
    BY <1>7 DEF Open
  <2>3. Mine = Inserted(F) \cup Pending /\ Mine' = Inserted(F)' \cup Pending'
    BY <1>0, <1>8 DEF Mine, Inserted
  <2>4. Open(F) \subseteq Mine
    BY <2>2, <1>5 DEF Reserve
  <2>5. Pending' \subseteq Open(F)' /\ Open(F)' \subseteq Pending' \cup Loops'
    <3>1. CASE currentFunction' = currentFunction
      BY <3>1, <1>7 DEF Open
    <3>2. CASE currentFunction' = 0 /\ Pending' = {}
      <4>1. F # 0
        BY <1>7
      <4>2. QED
        BY <3>2, <4>1 DEF Open
    <3>3. QED
      BY <3>1, <3>2
  <2>6. /\ Inserted(F) \subseteq Inserted(F)' /\ Inserted(F) \cap Created = {}
        /\ Inserted(F) \subseteq DOMAIN blocks
    BY <1>3, <1>7
  <2>7. Inserted(F) \cup Open(F) \cup Created \subseteq Inserted(F)' \cup Open(F)'
    BY <2>3, <2>4, <2>5, <1>4
  <2>8. Open(F)' \subseteq Open(F) \cup Created
    BY <2>2, <2>5, <1>2, <1>6
  <2>9. \A b \in Inserted(F) \cup Open(F) :
            Targets(b)' \subseteq Targets(b) \cup Open(F) \cup Created
    <3>1. Inserted(F) \cup Open(F) \subseteq DOMAIN blocks
      BY <2>3, <2>4, <1>4
    <3>2. QED
      BY <3>1, <1>10, <2>2
  <2>10. \A b \in Inserted(F) : DOMAIN blocks[b] \subseteq DOMAIN blocks'[b]
    BY <1>12, <2>6
  <2>11. QED
    BY <2>1, <2>6, <2>7, <2>8, <2>9, <2>10, <1>11 DEF Expands
<1>15. QED
  BY <1>3, <1>7, <1>13, <1>14

\* A function is left with nothing held.
LEMMA FunEndHoldsNothing ==
    ASSUME BuilderInv, PlacementInv, FunEnd
    PROVE  Pending' = {} /\ currentFunction' = 0
<1>1. Len(work) = 2 /\ work # <<>> /\ work' = Callers
  BY FunctionFacts DEF FunEnd, Return
<1>2. IsSeq(Callers) /\ Len(Callers) = 1 /\ Callers[1] = work[1] /\ 1 \in DOMAIN work
      /\ work[1].node.node = "program"
  BY <1>1, OuterFacts
<1>3. work[1].todo = <<>>
  BY <1>2 DEF PlacementInv, Frames, FrameOK
<1>4. DOMAIN Callers = {1}
  BY <1>2, SeqFacts
<1>5. QED
  BY <1>1, <1>2, <1>3, <1>4, ShortSeqs DEF Pending, FunEnd

-----------------------------------------------------------------------------
(* What is appended can use what it uses.                                  *)

\* v can be an operand of the instruction that follows m others which are
\* appended where the builder points: it can be used there already, or is the
\* value of one of the m.
Fits(v, m) ==
    v.k = "inst" =>
        \/ Usable(v, currentFunction, <<ip, Len(blocks[ip]) + 1>>)
        \/ v.ref \in {ip} \X (Len(blocks[ip]) + 1 .. Len(blocks[ip]) + m)

FitAll(list, m) == \A v \in Range(list) : Fits(v, m)
Feeds(ins) == \A j \in DOMAIN ins : FitAll(ins[j].args, j - 1)

\* Such an operand can be used once the instructions have been appended.
LEMMA FitsThen ==
    ASSUME BuilderInv, InFunction, NEW f, f = currentFunction, Expands(f, Created),
           NEW k, NEW ins, NEW placed, Written(k, ins, placed),
           NEW m \in 0..Len(ins), NEW v, Fits(v, m), NEW b, b = ip, NEW n, n = Len(blocks[ip]),
           NEW j \in Nat, j > n + m
    PROVE  Usable(v, f, <<b, j>>)'
<1>1. /\ b \in DOMAIN blocks /\ IsSeq(blocks[b]) /\ DOMAIN blocks = 1..Len(blocks)
      /\ Len(blocks) \in Nat /\ b \in Inserted(f)
  <2>1. ip = Last(layout[f]) /\ layout[f] # <<>> /\ IsSeq(layout[f])
    BY CodeFacts DEF BuilderInv, Shape
  <2>2. ip \in Inserted(f)
    BY <2>1, LastInRange DEF Inserted
  <2>3. QED
    BY <2>2, CodeFacts
<1>2. /\ IsSeq(ins) /\ blocks'[b] = blocks[b] \o ins
      /\ Len(blocks') = Len(blocks) + k /\ k \in Nat
  BY DEF Written
<1>3. n \in Nat /\ Len(ins) \in Nat /\ DOMAIN blocks[b] = 1..n /\ DOMAIN blocks'[b] = 1..n + Len(ins)
  <2>1. IsSeq(blocks'[b]) /\ Len(blocks'[b]) = n + Len(ins)
    BY <1>1, <1>2, ConcatFacts
  <2>2. QED
    BY <2>1, <1>1, <1>2, SeqFacts
<1>4. b \notin Created /\ b \in Inserted(f)'
  BY <1>1 DEF Expands
<1>5. CASE v.k = "inst" /\ Usable(v, f, <<b, n + 1>>)
  <2>1. <<b, n + 1>>[1] = b /\ <<b, n + 1>>[2] = n + 1 /\ <<b, j>>[1] = b /\ <<b, j>>[2] = j
    OBVIOUS
  <2>2. Usable(v, f, <<b, n + 1>>)'
    BY <1>4, <1>5, <2>1, UsableKept
  <2>3. /\ v.ref \in InstructionsOf(f)'
        /\ v.ref[1] # b => Lasting(f, v.ref[1], b)'
    BY <1>5, <2>1, <2>2 DEF Usable
  <2>4. v.ref[1] = b => v.ref[2] < n + 1 /\ v.ref[2] \in 1..n
    <3>1. v.ref \in InstructionsOf(f) /\ (v.ref[1] = b => v.ref[2] < n + 1)
      BY <1>5, <2>1 DEF Usable
    <3>2. v.ref[2] \in DOMAIN blocks[v.ref[1]]
      BY <3>1, InstructionsFacts
    <3>3. QED
      BY <3>1, <3>2, <1>3
  <2>5. v.ref[1] = b => v.ref[2] < j
    BY <2>4, <1>3
  <2>6. QED
    BY <2>1, <2>3, <2>5 DEF Usable
<1>6. CASE v.k = "inst" /\ v.ref \in {b} \X (n + 1 .. n + m)
  <2>1. v.ref = <<b, v.ref[2]>> /\ v.ref[1] = b /\ v.ref[2] \in n + 1 .. n + m
    BY <1>6
  <2>2. v.ref[2] \in DOMAIN blocks'[b] /\ v.ref[2] < j
    BY <2>1, <1>3
  <2>3. v.ref \in InstructionsOf(f)'
    <3>1. PICK i : i = v.ref[2]
      OBVIOUS
    <3>2. i \in DOMAIN blocks'[b] /\ v.ref = <<b, i>>
      BY <2>1, <2>2, <3>1
    <3>3. <<b, i>> \in InstructionsOf(f)'
      BY <3>2, <1>4, InstructionsThen
    <3>4. QED
      BY <3>2, <3>3
  <2>4. <<b, j>>[1] = b /\ <<b, j>>[2] = j
    OBVIOUS
  <2>5. QED
    BY <2>1, <2>2, <2>3, <2>4 DEF Usable
<1>7. CASE v.k # "inst"
  BY <1>7 DEF Usable
<1>8. QED
  BY <1>5, <1>6, <1>7 DEF Fits

\* Definitions stay behind their uses when code is appended that uses what it
\* can, and the blocks that are created do.
LEMMA UsesStep ==
    ASSUME BuilderInv, BuilderInv', InFunction, WaitingEmpty, UsesBehind,
           currentFunction' \in {0, currentFunction},
           NEW F, F = currentFunction, Expands(F, Created),
           \A f \in DOMAIN layout : f # F => Expands(f, {}),
           NEW k, NEW ins, NEW placed, Written(k, ins, placed),
           Range(placed) \subseteq Pending \cup Created, Feeds(ins),
           \A b \in Created : \A j \in DOMAIN blocks'[b] :
               \A v \in Range(blocks'[b][j].args) : Usable(v, F, <<b, j>>)'
    PROVE  UsesBehind'
<1>1. /\ DOMAIN layout' = DOMAIN layout
      /\ ip \in DOMAIN blocks /\ ip \notin Pending \cup Created
      /\ Pending \subseteq DOMAIN blocks
      /\ \A x \in DOMAIN blocks : blocks'[x] = blocks[x] \/ x = ip
      /\ \A f \in DOMAIN layout :
            /\ Inserted(f) \subseteq DOMAIN blocks
            /\ Inserted(f)' \subseteq Inserted(f) \cup Range(placed)
            /\ f # currentFunction => \A x \in Inserted(f) : blocks'[x] = blocks[x]
  BY InsertedGrows
<1>2. /\ IsSeq(ins) /\ blocks'[ip] = blocks[ip] \o ins
      /\ \A f \in DOMAIN layout : f # Len(layout) => layout'[f] = layout[f]
  BY DEF Written, OnlyAtEnd
<1>3. IsSeq(blocks[ip]) /\ F = Len(layout)
  BY CodeFacts
<1>4. PICK q : q = ip
  OBVIOUS
<1>5. PICK n : n = Len(blocks[q])
  OBVIOUS
<1>6. /\ n \in Nat /\ Len(ins) \in Nat /\ DOMAIN ins = 1..Len(ins) /\ DOMAIN blocks[q] = 1..n
      /\ DOMAIN blocks'[q] = 1..n + Len(ins)
      /\ \A i \in 1..n : blocks'[q][i] = blocks[q][i]
      /\ \A i \in 1..Len(ins) : blocks'[q][n + i] = ins[i]
  <2>0. IsSeq(blocks[q]) /\ IsSeq(ins) /\ blocks'[q] = blocks[q] \o ins
    BY <1>2, <1>3, <1>4
  <2>1. /\ IsSeq(blocks'[q]) /\ Len(blocks'[q]) = n + Len(ins)
        /\ \A i \in 1..n : blocks'[q][i] = blocks[q][i]
        /\ \A i \in 1..Len(ins) : blocks'[q][n + i] = ins[i]
    BY <2>0, <1>5, ConcatFacts
  <2>2. QED
    BY <2>1, <1>2, <1>3, <1>4, <1>5, SeqFacts
<1>7. ASSUME NEW f \in DOMAIN layout, NEW p \in InstructionsOf(f), InstrAt(p)' = InstrAt(p),
             NEW v \in Range(InstrAt(p).args)
      PROVE  Usable(v, f, p)'
  <2>1. Usable(v, f, p)
    BY <1>7 DEF UsesBehind
  <2>2. p[1] \in Inserted(f)
    BY InstructionsFacts
  <2>3. CASE f = F
    <3>1. p[1] \notin Created
      BY <2>2, <2>3 DEF Expands
    <3>2. QED
      BY <2>1, <2>3, <3>1, UsableKept
  <2>4. CASE f # F
    <3>1. Expands(f, {})
      BY <2>4
    <3>2. QED
      BY <3>1, <2>1, UsableKept
  <2>5. QED
    BY <2>3, <2>4
<1>8. ASSUME NEW f \in DOMAIN layout', NEW p \in InstructionsOf(f)',
             NEW v \in Range(InstrAt(p)'.args)
      PROVE  Usable(v, f, p)'
  <2>1. /\ f \in DOMAIN layout /\ p[1] \in Inserted(f)' /\ p[2] \in DOMAIN blocks'[p[1]]
        /\ p = <<p[1], p[2]>> /\ InstrAt(p)' = blocks'[p[1]][p[2]]
    BY <1>1, InstructionsThen DEF InstrAt
  <2>2. CASE p[1] \in Inserted(f) /\ blocks'[p[1]] = blocks[p[1]]
    <3>1. p \in InstructionsOf(f) /\ InstrAt(p) = blocks[p[1]][p[2]]
      BY <2>1, <2>2, InstructionsFacts DEF InstrAt
    <3>2. InstrAt(p)' = InstrAt(p)
      BY <2>1, <2>2, <3>1
    <3>3. QED
      BY <1>7, <1>8, <2>1, <3>1, <3>2
  <2>3. CASE p[1] \in Inserted(f) /\ blocks'[p[1]] # blocks[p[1]]
    <3>1. p[1] = q /\ f = F
      BY <2>1, <2>3, <1>1, <1>4
    <3>2. CASE p[2] \in 1..n
      <4>1. p \in InstructionsOf(f) /\ InstrAt(p) = blocks[p[1]][p[2]]
        BY <2>1, <2>3, <3>1, <3>2, <1>6, InstructionsFacts DEF InstrAt
      <4>2. InstrAt(p)' = InstrAt(p)
        BY <2>1, <4>1, <3>1, <3>2, <1>6
      <4>3. QED
        BY <1>7, <1>8, <2>1, <4>1, <4>2
    <3>3. CASE p[2] \notin 1..n
      <4>1. PICK i : i = p[2] - n
        OBVIOUS
      <4>2. i \in 1..Len(ins) /\ p[2] = n + i /\ p[2] \in Nat /\ i - 1 \in 0..Len(ins)
            /\ p[2] > n + (i - 1)
        BY <2>1, <3>1, <3>3, <4>1, <1>6
      <4>3. InstrAt(p)' = ins[i]
        BY <2>1, <3>1, <4>2, <1>6
      <4>4. v \in Range(ins[i].args)
        BY <1>8, <4>3
      <4>5. Fits(v, i - 1)
        BY <4>2, <4>4, <1>6 DEF Feeds, FitAll
      <4>6. Usable(v, f, <<q, p[2]>>)'
        BY <3>1, <4>2, <4>5, <1>4, <1>5, FitsThen
      <4>7. QED
        BY <4>6, <3>1, <2>1
    <3>4. QED
      BY <3>2, <3>3
  <2>4. CASE p[1] \notin Inserted(f)
    <3>1. p[1] \in Range(placed)
      BY <2>1, <2>4, <1>1
    <3>2. f = F
      BY <2>1, <2>4, <1>2, <1>3 DEF Inserted
    <3>3. blocks'[p[1]] # <<>>
      BY <2>1, ShortSeqs, SeqFacts
    <3>4. p[1] \notin Pending
      BY <3>3, <1>1 DEF WaitingEmpty
    <3>5. p[1] \in Created
      BY <3>1, <3>4
    <3>6. Usable(v, F, <<p[1], p[2]>>)'
      BY <3>5, <2>1, <1>8
    <3>7. QED
      BY <3>2, <3>6, <2>1
  <2>5. QED
    BY <2>2, <2>3, <2>4
<1>9. QED
  BY <1>8 DEF UsesBehind

-----------------------------------------------------------------------------
(* What a step does to the code, when it appends ins.                      *)

\* What is appended to a list is known from what comes of it.
LEMMA SameAppended ==
    ASSUME NEW s, NEW t, NEW u, IsSeq(s), IsSeq(t), IsSeq(u), s \o t = s \o u
    PROVE  t = u
<1>1. /\ Len(s) \in Nat /\ Len(t) \in Nat /\ Len(u) \in Nat
      /\ Len(s) + Len(t) = Len(s) + Len(u)
      /\ \A i \in 1..Len(t) : (s \o t)[Len(s) + i] = t[i]
      /\ \A i \in 1..Len(u) : (s \o u)[Len(s) + i] = u[i]
      /\ DOMAIN t = 1..Len(t) /\ DOMAIN u = 1..Len(u)
  BY ConcatFacts, SeqFacts
<1>2. Len(t) = Len(u)
  <2>1. \A a \in Nat : \A b \in Nat : \A c \in Nat : a + b = a + c => b = c
    OBVIOUS
  <2>2. /\ Len(s) \in Nat /\ Len(t) \in Nat /\ Len(u) \in Nat
        /\ Len(s) + Len(t) = Len(s) + Len(u)
    BY <1>1
  <2>3. QED
    BY <2>1, <2>2
<1>3. ASSUME NEW i \in 1..Len(t) PROVE t[i] = u[i]
  <2>1. (s \o t)[Len(s) + i] = t[i]
    BY <1>1
  <2>2. (s \o u)[Len(s) + i] = u[i]
    BY <1>1, <1>2
  <2>3. QED
    BY <2>1, <2>2
<1>4. t \in Seq(Range(t) \cup Range(u)) /\ u \in Seq(Range(t) \cup Range(u))
  BY DEF IsSeq
<1>5. QED
  BY <1>1, <1>2, <1>3, <1>4

\* A step that appends what can be used where it is, and fills no new block.
LEMMA ProceedsUses ==
    ASSUME BuilderInv, BuilderInv', PlacementInv, Proceeds, WaitingEmpty, UsesBehind,
           currentFunction' = currentFunction \/ (currentFunction' = 0 /\ Pending' = {}),
           NEW ins, IsSeq(ins), blocks'[ip] = blocks[ip] \o ins, Feeds(ins)
    PROVE  /\ WaitingEmpty' /\ UsesBehind'
           /\ DOMAIN layout' = DOMAIN layout
           /\ Expands(currentFunction, Created)
           /\ \A f \in DOMAIN layout : f # currentFunction => Expands(f, {})
           /\ \E k, placed : Written(k, ins, placed)
<1>1. PICK rest, k, list, placed :
          /\ InFunction /\ work # <<>>
          /\ Replaces(rest) /\ FrameOK(rest, Loops \cup Created)
          /\ Written(k, list, placed) /\ Harmless(list)
          /\ Range(placed) \cup Range(rest.todo) = Range(Top.todo) \cup Created
          /\ LeadsTo(list) \subseteq Pending \cup Loops \cup Created
          /\ \A b \in Created : blocks'[b] = <<>>
  BY DEF Proceeds
<1>2. /\ \A b \in Created : LeadsTo(blocks'[b]) \subseteq Created
      /\ \A b \in Created \cap Range(rest.todo) : blocks'[b] = <<>>
  BY <1>1, LeadsShort
<1>3. currentFunction' \in {0, currentFunction}
  OBVIOUS
<1>4. WaitingEmpty' /\ Range(placed) \subseteq Pending \cup Created
  <2>1. WaitingEmpty'
    BY <1>1, <1>2, <1>3, StepContinues
  <2>2. Range(Top.todo) \subseteq Pending
    BY <1>1, TodoHeld
  <2>3. QED
    BY <2>1, <2>2, <1>1
<1>5. /\ DOMAIN layout' = DOMAIN layout
      /\ Expands(currentFunction, Created)
      /\ \A f \in DOMAIN layout : f # currentFunction => Expands(f, {})
  BY <1>1, <1>2, StepExpands
<1>6. list = ins
  <2>1. IsSeq(list) /\ blocks'[ip] = blocks[ip] \o list
    BY <1>1 DEF Written
  <2>2. IsSeq(blocks[ip])
    BY <1>1, CodeFacts
  <2>3. PICK s : s = blocks[ip]
    OBVIOUS
  <2>4. IsSeq(s) /\ s \o list = s \o ins
    BY <2>1, <2>2, <2>3
  <2>5. QED
    BY <2>1, <2>4, SameAppended
<1>7. \A b \in Created : \A j \in DOMAIN blocks'[b] : FALSE
  BY <1>1, ShortSeqs, SeqFacts
<1>8. PICK F : F = currentFunction
  OBVIOUS
<1>9. UsesBehind'
  <2>1. Written(k, ins, placed)
    BY <1>1, <1>6
  <2>2. Expands(F, Created)
    BY <1>5, <1>8
  <2>3. \A f \in DOMAIN layout : f # F => Expands(f, {})
    BY <1>5, <1>8
  <2>4. \A b \in Created : \A j \in DOMAIN blocks'[b] :
            \A v \in Range(blocks'[b][j].args) : Usable(v, F, <<b, j>>)'
    BY <1>7
  <2>5. QED
    BY <1>1, <1>3, <1>4, <1>8, <2>1, <2>2, <2>3, <2>4, UsesStep
<1>10. Written(k, ins, placed)
  BY <1>1, <1>6
<1>11. QED
  BY <1>4, <1>5, <1>9, <1>10

-----------------------------------------------------------------------------
(* Operands that can be used where the builder points.                     *)

\* What can be used at once fits whatever is appended before it.
LEMMA FitsFacts ==
    /\ \A v, m : v.k # "inst" => Fits(v, m)
    /\ \A v, m : Usable(v, currentFunction, <<ip, Len(blocks[ip]) + 1>>) => Fits(v, m)
    /\ \A list, m : Ready(list) => FitAll(list, m)
    /\ \A v : Fits(v, 0) => Usable(v, currentFunction, <<ip, Len(blocks[ip]) + 1>>)
  BY DEF Fits, FitAll, Ready, Usable

\* Lists of operands, one by one.
LEMMA FitAllShort ==
    ASSUME NEW m
    PROVE  /\ FitAll(<<>>, m)
           /\ \A v : Fits(v, m) => FitAll(<<v>>, m)
           /\ \A v, w : Fits(v, m) /\ Fits(w, m) => FitAll(<<v, w>>, m)
  BY ShortSeqs DEF FitAll

LEMMA FitAllConcat ==
    ASSUME NEW s, NEW t, IsSeq(s), IsSeq(t), NEW m, FitAll(s, m), FitAll(t, m)
    PROVE  FitAll(s \o t, m)
  BY ConcatFacts DEF FitAll

\* Lists of instructions.
LEMMA FeedsShort ==
    /\ Feeds(<<>>)
    /\ \A x : FitAll(x.args, 0) => Feeds(<<x>>)
<1>1. DOMAIN <<>> = {}
  OBVIOUS
<1>2. \A x : DOMAIN <<x>> = {1} /\ <<x>>[1] = x
  OBVIOUS
<1>3. 1 - 1 = 0
  OBVIOUS
<1>4. QED
  BY <1>1, <1>2, <1>3 DEF Feeds

LEMMA FeedsAppend ==
    ASSUME NEW s, IsSeq(s), Feeds(s), NEW x, FitAll(x.args, Len(s))
    PROVE  Feeds(Append(s, x)) /\ IsSeq(Append(s, x)) /\ Len(Append(s, x)) = Len(s) + 1
<1>1. PICK u : u = Append(s, x)
  OBVIOUS
<1>2. PICK n : n = Len(s)
  OBVIOUS
<1>3. /\ IsSeq(u) /\ Len(u) = n + 1 /\ u[n + 1] = x /\ n \in Nat
      /\ \A i \in 1..n : u[i] = s[i]
  BY <1>1, <1>2, AppendFacts, SeqFacts
<1>4. DOMAIN u = 1..n + 1 /\ DOMAIN s = 1..n
  BY <1>2, <1>3, SeqFacts
<1>5. ASSUME NEW j \in DOMAIN u PROVE FitAll(u[j].args, j - 1)
  <2>1. CASE j \in 1..n
    BY <2>1, <1>3, <1>4 DEF Feeds
  <2>2. CASE j \notin 1..n
    <3>1. j = n + 1 /\ j - 1 = n
      BY <2>2, <1>3, <1>4
    <3>2. QED
      BY <3>1, <1>2, <1>3
  <2>3. QED
    BY <2>1, <2>2
<1>6. QED
  BY <1>1, <1>2, <1>3, <1>5 DEF Feeds

\* The value of the last of some instructions fits what follows them.
LEMMA HereFits ==
    ASSUME BuilderInv, InFunction, NEW s, IsSeq(s), s # <<>>
    PROVE  Fits(Here(s), Len(s))
<1>1. PICK n : n = Len(blocks[ip])
  OBVIOUS
<1>2. n \in Nat /\ Len(s) \in Nat /\ Len(s) >= 1
  BY <1>1, CodeFacts, SeqFacts
<1>3. Here(s).ref = <<ip, n + Len(s)>>
  BY <1>1 DEF Here, Value
<1>4. n + Len(s) \in n + 1 .. n + Len(s)
  BY <1>2
<1>5. QED
  BY <1>1, <1>3, <1>4 DEF Fits

\* What calling currentExpression() builds, and what it answers.
LEMMA ForcedFits ==
    ASSUME BuilderInv, InFunction, IsSeq(currentExpression.args), currentExpression.args # <<>>,
           Ready(currentExpression.args)
    PROVE  /\ IsSeq(Forced.ins) /\ Feeds(Forced.ins) /\ Fits(Forced.val, Len(Forced.ins))
           /\ Len(Forced.ins) \in Nat
<1> DEFINE list == currentExpression.args
<1>1. CASE currentExpression.op = "value"
  <2>1. Forced.ins = <<>> /\ Forced.val = list[1]
    BY <1>1 DEF Forced
  <2>2. list[1] \in Range(list)
    BY SeqFacts
  <2>3. Fits(list[1], 0)
    BY <2>2, FitsFacts DEF Ready
  <2>4. QED
    BY <2>1, <2>3, FeedsShort, ShortSeqs
<1>2. CASE currentExpression.op # "value"
  <2> DEFINE s == <<currentExpression>>
  <2>1. Forced.ins = s /\ Forced.val = Here(s)
    BY <1>2 DEF Forced
  <2>2. FitAll(currentExpression.args, 0)
    BY FitsFacts
  <2>3. IsSeq(s) /\ Len(s) = 1 /\ Feeds(s) /\ s # <<>>
    BY <2>2, FeedsShort, ShortSeqs
  <2> HIDE DEF s
  <2>4. Fits(Here(s), Len(s))
    BY <2>3, HereFits
  <2>5. QED
    BY <2>1, <2>3, <2>4
<1>3. QED
  BY <1>1, <1>2

-----------------------------------------------------------------------------
(* The way a method goes on, and the values it takes along.                *)

\* How a visit method goes on, from the frame rest if it is to be back: only
\* to evaluate an expression, or a variable, when it waits for a value.
Moves(rest, kinds) ==
    /\ work # <<>> /\ rest.node = Top.node /\ FrameValues(rest)
    /\ Top.node.node \in OperandKinds \/ rest.at \in ValuePlaces => kinds \subseteq OperandKinds
    /\ rest.at = "var" => kinds \subseteq {"var"}
    /\ \/ Return
       \/ rest.at \in {"params", "items"} /\ work' = Append(Callers, rest)
       \/ \E child : /\ Top.node.node # "var" /\ child.node \in kinds
                     /\ work' = Append(Callers, Frame(child))
       \/ \E child : child.node \in kinds /\ work' = Callers \o <<rest, Frame(child)>>

\* The frames there are then.
LEMMA MovingFrames ==
    ASSUME BuilderInv, NEW rest, NEW kinds, Moves(rest, kinds), NEW W, W = Len(work)
    PROVE  /\ IsSeq(work') /\ W \in Nat /\ W >= 1 /\ Top = work[W] /\ DOMAIN work = 1..W
           /\ Len(work') \in {W - 1, W, W + 1} /\ DOMAIN work' = 1..Len(work')
           /\ \A d \in 1..W - 1 : work'[d] = work[d]
           /\ Len(work') = W - 1 => Return
           /\ Len(work') = W =>
                 \/ rest.at \in {"params", "items"} /\ work'[W] = rest
                 \/ \E child : /\ Top.node.node # "var" /\ child.node \in kinds
                               /\ work'[W] = Frame(child)
           /\ Len(work') = W + 1 => /\ work'[W] = rest
                                    /\ \E child : child.node \in kinds /\ work'[W + 1] = Frame(child)
<1>1. work # <<>>
  BY DEF Moves
<1>2. /\ W \in Nat /\ W >= 1
      /\ Return => /\ IsSeq(work') /\ Len(work') = W - 1
                   /\ \A d \in 1..W - 1 : work'[d] = work[d]
      /\ \A x : work' = Append(Callers, x) =>
            /\ IsSeq(work') /\ Len(work') = W /\ work'[W] = x
            /\ \A d \in 1..W - 1 : work'[d] = work[d]
      /\ \A x, y : work' = Callers \o <<x, y>> =>
            /\ IsSeq(work') /\ Len(work') = W + 1 /\ work'[W] = x /\ work'[W + 1] = y
            /\ \A d \in 1..W - 1 : work'[d] = work[d]
  BY <1>1, FollowingFrames
<1>3. W # W - 1 /\ W # W + 1 /\ W - 1 # W + 1
  BY <1>2
<1>4. Top = work[W] /\ DOMAIN work = 1..W
  BY <1>1, OuterFacts
<1>5. CASE Return
  BY <1>2, <1>3, <1>4, <1>5, SeqFacts
<1>6. CASE rest.at \in {"params", "items"} /\ work' = Append(Callers, rest)
  BY <1>2, <1>3, <1>4, <1>6, SeqFacts
<1>7. CASE \E child : /\ Top.node.node # "var" /\ child.node \in kinds
                      /\ work' = Append(Callers, Frame(child))
  <2>1. PICK child : /\ Top.node.node # "var" /\ child.node \in kinds
                     /\ work' = Append(Callers, Frame(child))
    BY <1>7
  <2>2. /\ IsSeq(work') /\ Len(work') = W /\ work'[W] = Frame(child)
        /\ \A d \in 1..W - 1 : work'[d] = work[d]
    BY <2>1, <1>2
  <2>3. QED
    BY <2>1, <2>2, <1>2, <1>3, <1>4, SeqFacts
<1>8. CASE \E child : child.node \in kinds /\ work' = Callers \o <<rest, Frame(child)>>
  <2>1. PICK child : child.node \in kinds /\ work' = Callers \o <<rest, Frame(child)>>
    BY <1>8
  <2>2. /\ IsSeq(work') /\ Len(work') = W + 1 /\ work'[W] = rest /\ work'[W + 1] = Frame(child)
        /\ \A d \in 1..W - 1 : work'[d] = work[d]
    BY <2>1, <1>2
  <2>3. QED
    BY <2>1, <2>2, <1>2, <1>3, <1>4, SeqFacts
<1>9. QED
  BY <1>5, <1>6, <1>7, <1>8 DEF Moves

\* A frame that has just been entered.
LEMMA EnteredFrame ==
    ASSUME NEW child
    PROVE  /\ Frame(child).node = child /\ Frame(child).at = "visit" /\ Frame(child).vals = <<>>
           /\ Frame(child).i = 0 /\ FrameValues(Frame(child))
           /\ "visit" \notin ValuePlaces /\ "var" \notin ValuePlaces
           /\ "params" \notin ValuePlaces /\ "items" \notin ValuePlaces
  BY ShortSeqs DEF Frame, FrameValues, ValuePlaces

\* What has been evaluated last has a value and an address, or something in
\* their places.
LastValues ==
    /\ IsSeq(currentExpression.args) /\ currentExpression.args # <<>>
    /\ IsSeq(currentPointer.args) /\ currentPointer.args # <<>>
    /\ currentParameter.k # "inst"

\* The frames go on fitting together.
LEMMA FramesValued ==
    ASSUME BuilderInv, ValueFrames, NEW rest, NEW kinds, Moves(rest, kinds), LastValues'
    PROVE  ValueFrames'
<1>1. PICK W, N, u : W = Len(work) /\ N = Len(work') /\ u = work'
  OBVIOUS
<1>0. W \in Nat /\ W >= 1 /\ N \in {W - 1, W, W + 1}
  BY <1>1, MovingFrames
<1>2. /\ Top = work[W] /\ DOMAIN work = 1..W /\ DOMAIN u = 1..N
      /\ \A d \in 1..W - 1 : u[d] = work[d]
  BY <1>1, MovingFrames
<1>a. /\ N = W => \/ rest.at \in {"params", "items"} /\ u[W] = rest
                  \/ \E child : /\ Top.node.node # "var" /\ child.node \in kinds
                                /\ u[W] = Frame(child)
      /\ N = W + 1 => /\ u[W] = rest
                      /\ \E child : child.node \in kinds /\ u[W + 1] = Frame(child)
  BY <1>1, MovingFrames
<1>3. /\ rest.node = Top.node /\ FrameValues(rest)
      /\ Top.node.node \in OperandKinds \/ rest.at \in ValuePlaces => kinds \subseteq OperandKinds
      /\ rest.at = "var" => kinds \subseteq {"var"}
  BY DEF Moves
<1>4. /\ \A d \in 1..W : FrameValues(work[d])
      /\ \A d, e \in 1..W :
            d <= e /\ work[d].node.node \in OperandKinds => work[e].node.node \in OperandKinds
      /\ \A d \in 1..W - 1 :
            /\ work[d].at \in ValuePlaces => work[d + 1].node.node \in OperandKinds
            /\ work[d].at = "var" => work[d + 1].node.node = "var"
  BY <1>1, <1>2 DEF ValueFrames
<1>5. \A child : /\ Frame(child).node = child /\ Frame(child).at = "visit"
                 /\ FrameValues(Frame(child))
  BY EnteredFrame
<1>6. /\ "visit" \notin ValuePlaces /\ "var" \notin ValuePlaces
      /\ "params" \notin ValuePlaces /\ "items" \notin ValuePlaces
  BY DEF ValuePlaces
<1>7. \A d \in 1..N : d \in 1..W - 1 \/ (d = W /\ N \in {W, W + 1})
                               \/ (d = W + 1 /\ N = W + 1)
  BY <1>0
<1>8. ASSUME NEW d \in 1..N PROVE FrameValues(u[d])
  <2>1. CASE d \in 1..W - 1
    <3>1. u[d] = work[d] /\ d \in 1..W
      BY <2>1, <1>0, <1>2
    <3>2. QED
      BY <3>1, <1>4
  <2>2. CASE d = W /\ N = W
    BY <2>2, <1>a, <1>3, <1>5
  <2>3. CASE d = W /\ N = W + 1
    BY <2>3, <1>a, <1>3
  <2>4. CASE d = W + 1 /\ N = W + 1
    BY <2>4, <1>a, <1>5
  <2>5. QED
    BY <2>1, <2>2, <2>3, <2>4, <1>7
\* What comes last is of the kind of the method, or one that it visits.
<1>9. /\ N = W => \/ u[W].node = Top.node /\ u[W].at \in {"params", "items"}
                  \/ /\ u[W].node.node \in kinds /\ u[W].at = "visit"
                     /\ Top.node.node # "var"
      /\ N = W + 1 => /\ u[W].node = Top.node /\ u[W].at = rest.at
                      /\ u[W + 1].node.node \in kinds /\ u[W + 1].at = "visit"
  BY <1>a, <1>3, <1>5
<1>10. ASSUME NEW d \in 1..N, u[d].node.node \in OperandKinds, d < N
       PROVE  u[d + 1].node.node \in OperandKinds
  <2>1. CASE d + 1 \in 1..W - 1
    <3>1. d \in 1..W - 1 /\ u[d] = work[d] /\ u[d + 1] = work[d + 1]
          /\ d \in 1..W /\ d + 1 \in 1..W /\ d <= d + 1
      BY <2>1, <1>0, <1>2, <1>10
    <3>2. QED
      BY <3>1, <1>4, <1>10
  <2>2. CASE d + 1 = W
    <3>1. d \in 1..W - 1 /\ u[d] = work[d] /\ d \in 1..W /\ W \in 1..W /\ d <= W
          /\ N \in {W, W + 1}
      BY <2>2, <1>0, <1>2, <1>10
    <3>2. Top.node.node \in OperandKinds
      BY <3>1, <1>2, <1>4, <1>10
    <3>3. QED
      BY <2>2, <3>1, <3>2, <1>3, <1>9
  <2>3. CASE d + 1 = W + 1
    <3>1. N = W + 1 /\ d = W
      BY <2>3, <1>0, <1>2, <1>10
    <3>2. QED
      BY <2>3, <3>1, <1>3, <1>9, <1>10
  <2>4. QED
    BY <2>1, <2>2, <2>3, <1>0, <1>10
<1>11. ASSUME NEW d \in 1..N - 1
       PROVE  /\ u[d].at \in ValuePlaces => u[d + 1].node.node \in OperandKinds
              /\ u[d].at = "var" => u[d + 1].node.node = "var"
  <2>1. CASE d + 1 \in 1..W - 1
    <3>1. d \in 1..W - 1 /\ u[d] = work[d] /\ u[d + 1] = work[d + 1]
      BY <2>1, <1>0, <1>2, <1>11
    <3>2. QED
      BY <3>1, <1>4
  <2>2. CASE d + 1 = W
    <3>1. d \in 1..W - 1 /\ u[d] = work[d] /\ N \in {W, W + 1}
      BY <2>2, <1>0, <1>2, <1>11
    <3>2. /\ u[d].at \in ValuePlaces => Top.node.node \in OperandKinds
          /\ u[d].at = "var" => Top.node.node = "var"
      BY <2>2, <3>1, <1>2, <1>4
    <3>3. N = W => \/ u[W].node = Top.node
                   \/ u[W].node.node \in kinds /\ Top.node.node # "var"
      BY <1>9
    <3>4. N = W + 1 => u[W].node = Top.node
      BY <1>9
    <3>5. u[d].at \in ValuePlaces => kinds \subseteq OperandKinds
      BY <3>2, <1>3
    <3>6. QED
      BY <2>2, <3>1, <3>2, <3>3, <3>4, <3>5
  <2>3. CASE d + 1 = W + 1
    <3>1. N = W + 1 /\ d = W
      BY <2>3, <1>0, <1>2, <1>11
    <3>2. QED
      BY <2>3, <3>1, <1>3, <1>9
  <2>4. QED
    BY <2>1, <2>2, <2>3, <1>0, <1>11
<1>12. ASSUME NEW d \in 1..N, NEW e \in 1..N, d <= e,
              u[d].node.node \in OperandKinds
       PROVE  u[e].node.node \in OperandKinds
  <2>1. CASE d = e
    BY <2>1, <1>12
  <2>2. CASE d # e /\ e \in 1..W - 1
    <3>1. d \in 1..W - 1 /\ d \in 1..W /\ e \in 1..W
      BY <2>2, <1>0, <1>2, <1>12
    <3>2. QED
      BY <2>2, <3>1, <1>2, <1>4, <1>12
  <2>3. CASE d # e /\ e = W
    <3>1. d \in 1..W - 1 /\ d \in 1..W /\ W - 1 \in 1..W /\ W - 1 \in 1..W - 1
          /\ d <= W - 1 /\ W - 1 < N /\ W - 1 \in 1..N /\ (W - 1) + 1 = W
      BY <2>3, <1>0, <1>2, <1>12
    <3>2. u[W - 1].node.node \in OperandKinds
      BY <3>1, <1>2, <1>4, <1>12
    <3>3. QED
      BY <3>1, <3>2, <2>3, <1>10
  <2>4. CASE d # e /\ e = W + 1
    <3>1. N = W + 1 /\ W \in 1..N /\ W < N
          /\ (d = W \/ (d \in 1..W - 1 /\ d \in 1..W /\ W \in 1..W /\ d <= W))
      BY <2>4, <1>0, <1>2, <1>12
    <3>2. u[W].node.node \in OperandKinds
      <4>1. CASE d = W
        BY <4>1, <1>12
      <4>2. CASE d \in 1..W - 1 /\ d \in 1..W /\ W \in 1..W /\ d <= W
        <5>1. Top.node.node \in OperandKinds
          BY <4>2, <1>2, <1>4, <1>12
        <5>2. QED
          BY <5>1, <3>1, <1>9
      <4>3. QED
        BY <3>1, <4>1, <4>2
    <3>3. QED
      BY <3>1, <3>2, <2>4, <1>10
  <2>5. QED
    BY <2>1, <2>2, <2>3, <2>4, <1>0, <1>12
<1>13. QED
  BY <1>1, <1>2, <1>8, <1>11, <1>12 DEF ValueFrames, LastValues

-----------------------------------------------------------------------------
(* What is in hand stays usable.                                           *)

\* Where a frame is when a method has gone on.
LEMMA Positions ==
    ASSUME NEW W \in Nat, W >= 1, NEW N \in {W - 1, W, W + 1}, NEW d \in 1..N
    PROVE  \/ d \in 1..W - 1 /\ d \in 1..W
           \/ d = W /\ N \in {W, W + 1}
           \/ d = W + 1 /\ N = W + 1
  OBVIOUS

\* Below a statement or a declaration no frame holds a value or waits for one.
LEMMA BelowStatements ==
    ASSUME BuilderInv, ValueFrames, work # <<>>, Top.node.node \notin OperandKinds,
           NEW W, W = Len(work)
    PROVE  /\ \A d \in 1..W : work[d].vals = <<>>
           /\ W >= 2 => work[W - 1].at \notin ValuePlaces /\ work[W - 1].at # "var"
<1>1. W \in Nat /\ W >= 1 /\ DOMAIN work = 1..W /\ Top = work[W]
  BY OuterFacts
<1>2. ASSUME NEW d \in 1..W PROVE work[d].vals = <<>>
  <2>1. d \in DOMAIN work /\ W \in DOMAIN work /\ d <= W
    BY <1>1
  <2>2. work[d].node.node \notin OperandKinds
    BY <1>1, <2>1 DEF ValueFrames
  <2>3. QED
    BY <2>1, <2>2 DEF ValueFrames, FrameValues
<1>3. ASSUME W >= 2 PROVE work[W - 1].at \notin ValuePlaces /\ work[W - 1].at # "var"
  <2>1. W - 1 \in 1..Len(work) - 1 /\ (W - 1) + 1 = W
    BY <1>1, <1>3
  <2>2. /\ work[W - 1].at \in ValuePlaces => work[W].node.node \in OperandKinds
        /\ work[W - 1].at = "var" => work[W].node.node = "var"
    BY <2>1 DEF ValueFrames
  <2>3. "var" \in OperandKinds
    BY DEF OperandKinds, Factors
  <2>4. QED
    BY <2>2, <2>3, <1>1
<1>4. QED
  BY <1>2, <1>3

\* So a statement or a declaration has nothing in hand, before and after.
LEMMA StatementHand ==
    ASSUME BuilderInv, ValueFrames, NEW rest, NEW kinds, Moves(rest, kinds),
           Top.node.node \notin OperandKinds
    PROVE  InHand'
<1>0. PICK W, N, u : W = Len(work) /\ N = Len(work') /\ u = work'
  OBVIOUS
<1>a. W \in Nat /\ W >= 1 /\ N \in {W - 1, W, W + 1} /\ DOMAIN u = 1..N
  BY <1>0, MovingFrames
<1>1. /\ IsSeq(u)
      /\ \A d \in 1..W - 1 : u[d] = work[d]
      /\ N = W =>
            \/ rest.at \in {"params", "items"} /\ u[W] = rest
            \/ \E child : Top.node.node # "var" /\ child.node \in kinds /\ u[W] = Frame(child)
      /\ N = W + 1 => /\ u[W] = rest
                           /\ \E child : child.node \in kinds /\ u[W + 1] = Frame(child)
  BY <1>0, MovingFrames
<1>2. work # <<>> /\ rest.vals = <<>>
  BY DEF Moves, FrameValues
<1>3. /\ \A d \in 1..W : work[d].vals = <<>>
      /\ W >= 2 => work[W - 1].at \notin ValuePlaces /\ work[W - 1].at # "var"
  BY <1>0, <1>2, BelowStatements
<1>4. \A child : Frame(child).at = "visit" /\ Frame(child).vals = <<>>
  BY EnteredFrame
<1>5. /\ "visit" \notin ValuePlaces /\ "var" \notin ValuePlaces
      /\ "params" \notin ValuePlaces /\ "items" \notin ValuePlaces
  BY EnteredFrame
<1>6. ASSUME NEW d \in DOMAIN u PROVE u[d].vals = <<>>
  <2>1. \/ d \in 1..W - 1 /\ d \in 1..W
        \/ d = W /\ N \in {W, W + 1}
        \/ d = W + 1 /\ N = W + 1
    BY <1>a, Positions
  <2>2. CASE d \in 1..W - 1 /\ d \in 1..W
    <3>1. u[d] = work[d]
      BY <2>2, <1>1
    <3>2. QED
      BY <2>2, <3>1, <1>3
  <2>3. CASE d = W /\ N \in {W, W + 1}
    BY <2>3, <1>1, <1>2, <1>4
  <2>4. CASE d = W + 1 /\ N = W + 1
    BY <2>4, <1>1, <1>4
  <2>5. QED
    BY <2>1, <2>2, <2>3, <2>4
<1>7. ASSUME u # <<>> PROVE Last(u).at \notin ValuePlaces /\ Last(u).at # "var"
  <2>1. N >= 1 /\ Last(u) = u[N]
    BY <1>0, <1>1, <1>7, SeqFacts, LastInRange
  <2>2. CASE N = W - 1
    <3>0. W >= 2 /\ W - 1 \in 1..W - 1
      BY <2>1, <2>2, <1>a
    <3>1. W >= 2 /\ W - 1 \in 1..W - 1 /\ u[W - 1] = work[W - 1]
      BY <3>0, <1>1
    <3>2. QED
      BY <3>1, <2>1, <2>2, <1>3
  <2>3. CASE N = W
    BY <2>1, <2>3, <1>1, <1>4, <1>5
  <2>4. CASE N = W + 1
    BY <2>1, <2>4, <1>1, <1>4, <1>5
  <2>5. QED
    BY <2>2, <2>3, <2>4, <1>a
<1>8. /\ work' # <<>> /\ Top'.at \in ValuePlaces => FALSE
      /\ Running("assign_expression", "var")' => FALSE
  BY <1>0, <1>7 DEF Top, Running
<1>9. \A d \in DOMAIN work' : Ready(work[d].vals)'
  BY <1>0, <1>6, ShortSeqs DEF Ready
<1>10. QED
  BY <1>8, <1>9 DEF InHand

\* What fits behind the instructions appended can be used behind them.
LEMMA ReadyThen ==
    ASSUME BuilderInv, InFunction, NEW F, F = currentFunction, NEW q, q = ip,
           Expands(currentFunction, Created), NEW k, NEW ins, NEW placed, Written(k, ins, placed),
           NEW list, FitAll(list, Len(ins))
    PROVE  \A v \in Range(list) : Usable(v, F, <<q, Len(blocks[q]) + 1>>)'
<1>1. PICK n, j, m : n = Len(blocks[ip]) /\ j = Len(blocks'[q]) + 1 /\ m = Len(ins)
  OBVIOUS
<1>2. IsSeq(ins) /\ blocks'[q] = blocks[q] \o ins /\ IsSeq(blocks[q])
  <2>1. IsSeq(blocks[ip])
    BY CodeFacts
  <2>2. QED
    BY <2>1 DEF Written
<1>3. Len(blocks'[q]) = n + m /\ n \in Nat /\ m \in Nat
  <2>1. Len(blocks[q] \o ins) = Len(blocks[q]) + Len(ins)
    BY <1>2, ConcatFacts
  <2>2. QED
    BY <2>1, <1>1, <1>2, SeqFacts
<1>4. j \in Nat /\ j > n + m /\ m \in 0..Len(ins)
  BY <1>1, <1>3
<1>5. Expands(F, Created)
  OBVIOUS
<1>6. ASSUME NEW v \in Range(list) PROVE Usable(v, F, <<q, j>>)'
  <2>1. Fits(v, m)
    BY <1>1, <1>6 DEF FitAll
  <2>2. QED
    BY <1>1, <1>4, <1>5, <2>1, FitsThen
<1>7. QED
  BY <1>1, <1>6

\* The values that an expression's method takes along, and those it leaves to
\* the method that has waited for them, fit behind m instructions.
Carries(rest, m) ==
    /\ FitAll(rest.vals, m)
    /\ Return => FitAll(currentExpression'.args, m)
    /\ Return /\ Top.node.node = "var" => FitAll(currentPointer'.args, m)

LEMMA ExpressionHand ==
    ASSUME BuilderInv, InFunction, ValueFrames, InHand, NEW rest, NEW kinds, Moves(rest, kinds),
           Top.node.node \in OperandKinds,
           NEW k, NEW ins, NEW placed, Written(k, ins, placed), Expands(currentFunction, Created),
           ip' = ip, currentFunction' = currentFunction, Carries(rest, Len(ins))
    PROVE  InHand'
<1>0. PICK W, N, u, F, q : W = Len(work) /\ N = Len(work') /\ u = work' /\ F = currentFunction /\ q = ip
  OBVIOUS
<1>a. W \in Nat /\ W >= 1 /\ N \in {W - 1, W, W + 1} /\ DOMAIN u = 1..N
  BY <1>0, MovingFrames
<1>1. /\ IsSeq(u) /\ Top = work[W] /\ DOMAIN work = 1..W
      /\ \A d \in 1..W - 1 : u[d] = work[d]
      /\ N = W - 1 => Return
      /\ N = W =>
            \/ rest.at \in {"params", "items"} /\ u[W] = rest
            \/ \E child : Top.node.node # "var" /\ child.node \in kinds /\ u[W] = Frame(child)
      /\ N = W + 1 => /\ u[W] = rest
                           /\ \E child : child.node \in kinds /\ u[W + 1] = Frame(child)
  BY <1>0, MovingFrames
<1>2. \A child : Frame(child).at = "visit" /\ Frame(child).vals = <<>>
  BY EnteredFrame
<1>3. /\ "visit" \notin ValuePlaces /\ "var" \notin ValuePlaces
      /\ "params" \notin ValuePlaces /\ "items" \notin ValuePlaces
  BY EnteredFrame
\* Ready, then, of a list that fits.
<1>4. ASSUME NEW list, FitAll(list, Len(ins))
      PROVE  \A v \in Range(list) : Usable(v, F, <<q, Len(blocks[q]) + 1>>)'
  BY <1>0, <1>4, ReadyThen
<1>5. ASSUME NEW list, \A v \in Range(list) : Usable(v, F, <<q, Len(blocks[q]) + 1>>)'
      PROVE  \A v \in Range(list) : Usable(v, currentFunction, <<ip, Len(blocks[ip]) + 1>>)'
  BY <1>0, <1>5
<1>6. /\ FitAll(rest.vals, Len(ins)) /\ FitAll(<<>>, Len(ins))
      /\ \A d \in 1..W : FitAll(work[d].vals, Len(ins))
  BY <1>1, FitAllShort, FitsFacts DEF Carries, InHand
<1>7. ASSUME NEW d \in DOMAIN u PROVE FitAll(u[d].vals, Len(ins))
  <2>1. \/ d \in 1..W - 1 /\ d \in 1..W
        \/ d = W /\ N \in {W, W + 1}
        \/ d = W + 1 /\ N = W + 1
    BY <1>a, Positions
  <2>2. CASE d \in 1..W - 1 /\ d \in 1..W
    <3>1. u[d] = work[d]
      BY <2>2, <1>1
    <3>2. QED
      BY <2>2, <3>1, <1>6
  <2>3. CASE d = W /\ N \in {W, W + 1}
    BY <2>3, <1>1, <1>2, <1>6
  <2>4. CASE d = W + 1 /\ N = W + 1
    BY <2>4, <1>1, <1>2, <1>6
  <2>5. QED
    BY <2>1, <2>2, <2>3, <2>4
<1>8. ASSUME u # <<>>, Last(u).at \in ValuePlaces \cup {"var"}
      PROVE  /\ Return
             /\ Last(u).at = "var" => Top.node.node = "var"
  <2>1. N >= 1 /\ Last(u) = u[N]
    BY <1>0, <1>1, <1>8, SeqFacts, LastInRange
  <2>2. CASE N = W - 1
    <3>0. W >= 2 /\ W - 1 \in 1..W - 1 /\ (W - 1) + 1 = W
      BY <2>1, <2>2, <1>a
    <3>1. W >= 2 /\ W - 1 \in 1..W - 1 /\ u[W - 1] = work[W - 1] /\ (W - 1) + 1 = W
      BY <3>0, <1>1
    <3>2. work[W - 1].at = "var" => work[W].node.node = "var"
      BY <3>1, <1>0 DEF ValueFrames
    <3>3. QED
      BY <3>1, <3>2, <2>1, <2>2, <1>1
  <2>3. CASE N = W
    BY <2>1, <2>3, <1>1, <1>2, <1>3, <1>8
  <2>4. CASE N = W + 1
    BY <2>1, <2>4, <1>1, <1>2, <1>3, <1>8
  <2>5. QED
    BY <2>2, <2>3, <2>4, <1>a
<1>9. ASSUME NEW d \in DOMAIN work' PROVE Ready(work[d].vals)'
  <2>1. PICK list : list = work'[d].vals
    OBVIOUS
  <2>2. FitAll(list, Len(ins))
    BY <1>0, <1>7, <1>9, <2>1
  <2>3. \A v \in Range(list) : Usable(v, currentFunction, <<ip, Len(blocks[ip]) + 1>>)'
    BY <2>2, <1>4, <1>5
  <2>4. QED
    BY <2>1, <2>3 DEF Ready
<1>10. ASSUME work' # <<>>, Top'.at \in ValuePlaces PROVE Ready(currentExpression.args)'
  <2>1. Return
    BY <1>0, <1>8, <1>10 DEF Top
  <2>2. PICK list : list = currentExpression'.args
    OBVIOUS
  <2>3. FitAll(list, Len(ins))
    BY <2>1, <2>2 DEF Carries
  <2>4. \A v \in Range(list) : Usable(v, currentFunction, <<ip, Len(blocks[ip]) + 1>>)'
    BY <2>3, <1>4, <1>5
  <2>5. QED
    BY <2>2, <2>4 DEF Ready
<1>11. ASSUME Running("assign_expression", "var")' PROVE Ready(currentPointer.args)'
  <2>1. Return /\ Top.node.node = "var"
    BY <1>0, <1>8, <1>11 DEF Top, Running
  <2>2. PICK list : list = currentPointer'.args
    OBVIOUS
  <2>3. FitAll(list, Len(ins))
    BY <2>1, <2>2 DEF Carries
  <2>4. \A v \in Range(list) : Usable(v, currentFunction, <<ip, Len(blocks[ip]) + 1>>)'
    BY <2>3, <1>4, <1>5
  <2>5. QED
    BY <2>2, <2>4 DEF Ready
<1>12. QED
  BY <1>9, <1>10, <1>11 DEF InHand

-----------------------------------------------------------------------------
(* The slots, and the block they are in.                                   *)

InEntry(map, e) == \A n \in DOMAIN map : map[n].ref \in {e} \X Nat

\* What the operations of Scope leave in the entry block.
LEMMA SlotsKept ==
    ASSUME BuilderInv, SlotsInEntry, NEW e, e = layout[currentFunction][1],
           layout'[currentFunction'][1] = e,
           \/ scope' = scope
           \/ scope' = Enter(scope)
           \/ scope' = Exit(scope) /\ Len(scope) >= 2
           \/ \E name, val : /\ scope' = Push(scope, name, val) /\ Len(scope) >= 2
                             /\ val.ref \in {e} \X Nat
    PROVE  SlotsInEntry'
<1> DEFINE m == Len(scope)
<1>1. IsSeq(scope) /\ m \in Nat /\ DOMAIN scope = 1..m /\ m >= 1 /\ scope # <<>>
  BY ScopeCount, SeqFacts
<1>2. \A l \in 2..m : InEntry(scope[l], e)
  BY DEF SlotsInEntry, InEntry
<1> HIDE DEF m
<1>3. SUFFICES \A l \in 2..Len(scope') : InEntry(scope'[l], e)
  BY DEF SlotsInEntry, InEntry
<1>4. CASE scope' = scope
  BY <1>2, <1>4 DEF m
<1>5. CASE scope' = Enter(scope)
  <2>1. /\ Len(scope') = m + 1 /\ \A l \in 1..m : scope'[l] = scope[l]
        /\ DOMAIN scope'[m + 1] = {}
    BY <1>1, <1>5, EnterFacts DEF m
  <2>2. InEntry(scope'[m + 1], e)
    BY <2>1 DEF InEntry
  <2>3. \A l \in 2..Len(scope') : l = m + 1 \/ (l \in 2..m /\ l \in 1..m)
    BY <1>1, <2>1
  <2>4. QED
    BY <1>2, <2>1, <2>2, <2>3
<1>6. CASE scope' = Exit(scope) /\ m >= 2
  <2>1. Len(scope') = m - 1 /\ \A l \in 1..m - 1 : scope'[l] = scope[l]
    BY <1>1, <1>6, FrontFacts DEF m, Exit
  <2>2. \A l \in 2..m - 1 : l \in 1..m - 1 /\ l \in 2..m
    BY <1>1, <1>6
  <2>3. QED
    BY <1>2, <2>1, <2>2
<1>7. ASSUME NEW name, NEW val, scope' = Push(scope, name, val), m >= 2, val.ref \in {e} \X Nat
      PROVE  \A l \in 2..Len(scope') : InEntry(scope'[l], e)
  <2>1. /\ Len(scope') = m /\ \A l \in 1..m - 1 : scope'[l] = scope[l]
        /\ scope'[m] = InsertOnce(scope[m], name, val)
    BY <1>1, <1>7, PushFacts, PushedFacts DEF m
  <2>2. m \in 2..m /\ InEntry(scope[m], e)
    BY <1>1, <1>2, <1>7
  <2>3. InEntry(scope'[m], e)
    <3>1. PICK old, new : old = scope[m] /\ new = scope'[m]
      OBVIOUS
    <3>2. new = InsertOnce(old, name, val) /\ InEntry(old, e)
      BY <3>1, <2>1, <2>2
    <3>3. /\ DOMAIN new = DOMAIN old \cup {name}
          /\ \A n \in DOMAIN old : new[n] = old[n]
          /\ name \notin DOMAIN old => new[name] = val
      <4>1. /\ DOMAIN InsertOnce(old, name, val) = DOMAIN old \cup {name}
            /\ \A n \in DOMAIN old : InsertOnce(old, name, val)[n] = old[n]
            /\ name \notin DOMAIN old => InsertOnce(old, name, val)[name] = val
        BY InsertFacts
      <4>2. QED
        BY <4>1, <3>2
    <3>4. \A n \in DOMAIN new : n \in DOMAIN old \/ (n = name /\ name \notin DOMAIN old)
      BY <3>3
    <3>5. ASSUME NEW n \in DOMAIN new PROVE new[n].ref \in {e} \X Nat
      <4>1. CASE n \in DOMAIN old
        BY <4>1, <3>2, <3>3 DEF InEntry
      <4>2. CASE n = name /\ name \notin DOMAIN old
        BY <4>2, <3>3, <1>7
      <4>3. QED
        BY <3>4, <4>1, <4>2
    <3>6. QED
      BY <3>1, <3>5 DEF InEntry
  <2>4. \A l \in 2..m : l = m \/ l \in 1..m - 1
    BY <1>1
  <2>5. QED
    BY <1>2, <2>1, <2>3, <2>4
<1>8. QED
  BY <1>4, <1>5, <1>6, <1>7 DEF m

\* Outside functions there are no slots.
LEMMA SlotsOutside == ASSUME BuilderInv', Len(scope') = 1 PROVE SlotsInEntry'
<1>1. \A l \in 2..Len(scope') : FALSE
  OBVIOUS
<1>2. QED
  BY <1>1 DEF SlotsInEntry

\* A name means the entry of a scope that has it.
LEMMA FoundIn ==
    ASSUME BuilderInv, NEW name, Resolves(scope, name)
    PROVE  \E l \in DOMAIN scope : name \in DOMAIN scope[l] /\ Find(scope, name) = scope[l][name]
<1> DEFINE S == Declaring(scope, name)
<1>1. DOMAIN scope \subseteq 1..3
  <2>1. DOMAIN scope = 1..Len(scope) /\ (Len(scope) = 1 \/ Len(scope) = 2 \/ Len(scope) = 3)
    BY ScopeCount, SeqFacts
  <2>2. QED
    BY <2>1
<1>2. S \subseteq 1..3 /\ S # {} /\ S \subseteq DOMAIN scope
      /\ \A l \in S : name \in DOMAIN scope[l]
  BY <1>1 DEF Declaring, Resolves
<1>3. Find(scope, name) = scope[CHOOSE l \in S : \A k \in S : k <= l][name]
  BY DEF Find
<1> HIDE DEF S
<1>4. \E l \in S : \A k \in S : k <= l
  <2>1. CASE 3 \in S
    BY <2>1, <1>2
  <2>2. CASE 3 \notin S /\ 2 \in S
    BY <2>2, <1>2
  <2>3. CASE 3 \notin S /\ 2 \notin S
    <3>1. \A l \in S : l = 1
      BY <2>3, <1>2
    <3>2. 1 \in S
      BY <3>1, <1>2
    <3>3. QED
      BY <3>1, <3>2
  <2>4. QED
    BY <2>1, <2>2, <2>3
<1>5. (CHOOSE l \in S : \A k \in S : k <= l) \in S
  BY <1>4
<1>6. QED
  BY <1>2, <1>3, <1>5

\* What a name means can be used wherever the builder points in the function.
LEMMA FindFits ==
    ASSUME BuilderInv, NamesInv, SlotsInEntry, InFunction, NEW name, Resolves(scope, name), NEW m
    PROVE  Fits(Find(scope, name), m)
<1>1. PICK l \in DOMAIN scope : name \in DOMAIN scope[l] /\ Find(scope, name) = scope[l][name]
  BY FoundIn
<1>2. PICK v, F, e : v = scope[l][name] /\ F = currentFunction /\ e = layout[currentFunction][1]
  OBVIOUS
<1>3. l = 1 \/ l \in 2..Len(scope)
  <2>1. DOMAIN scope = 1..Len(scope) /\ Len(scope) \in Nat
    BY ScopeCount, SeqFacts
  <2>2. QED
    BY <2>1
<1>4. CASE l = 1
  <2>1. Named(v, name, functions, globals)
    BY <1>1, <1>2, <1>4 DEF NamesInv, OuterNames
  <2>2. v.k # "inst"
    BY <2>1 DEF Named
  <2>3. QED
    BY <2>2, <1>1, <1>2, FitsFacts
<1>5. CASE l \in 2..Len(scope)
  <2>1. Slot(v, layout[currentFunction], blocks) /\ v.ref \in {e} \X Nat
    BY <1>1, <1>2, <1>5 DEF NamesInv, InnerNames, SlotsInEntry
  <2>2. PICK j \in Nat : v.ref = <<e, j>>
    BY <2>1
  <2>3. v.ref[1] = e /\ v.ref[2] = j
    BY <2>2
  <2>4. e \in Inserted(F) /\ j \in DOMAIN blocks[e]
    BY <2>1, <2>3, <1>2 DEF Slot, Inserted
  <2>5. v.ref \in InstructionsOf(F)
    BY <2>2, <2>4, InstructionsFacts
  <2>6. e = ip => j < Len(blocks[ip]) + 1
    <3>1. DOMAIN blocks[ip] = 1..Len(blocks[ip]) /\ Len(blocks[ip]) \in Nat
      BY CodeFacts, SeqFacts
    <3>2. QED
      BY <3>1, <2>4
  <2>7. Lasting(F, e, ip)
    BY <1>2 DEF Lasting
  <2>8. Usable(v, F, <<ip, Len(blocks[ip]) + 1>>)
    BY <2>3, <2>5, <2>6, <2>7 DEF Usable
  <2>9. QED
    BY <2>8, <1>1, <1>2, FitsFacts
<1>6. QED
  BY <1>3, <1>4, <1>5

-----------------------------------------------------------------------------
(* Declarations and statements.                                            *)

\* Above the body of a function only its declarations come before statements.
LEMMA OpeningAbove ==
    ASSUME BuilderInv, DeclarationInv, Opening, Len(work) >= 4,
           Top.node.node # "var_declaration", NEW rest, NEW kinds, Moves(rest, kinds),
           "var_declaration" \notin kinds
    PROVE  Opening'
<1>0. PICK W, N, u : W = Len(work) /\ N = Len(work') /\ u = work'
  OBVIOUS
<1>a. W \in Nat /\ W >= 4 /\ N \in {W - 1, W, W + 1} /\ N >= 3
  BY <1>0, MovingFrames
<1>1. /\ IsSeq(u) /\ Top = work[W] /\ DOMAIN work = 1..W
      /\ \A d \in 1..W - 1 : u[d] = work[d]
      /\ N = W =>
            \/ rest.at \in {"params", "items"} /\ u[W] = rest
            \/ \E child : Top.node.node # "var" /\ child.node \in kinds /\ u[W] = Frame(child)
      /\ N = W + 1 => /\ u[W] = rest
                      /\ \E child : child.node \in kinds /\ u[W + 1] = Frame(child)
  BY <1>0, MovingFrames
<1>2. u[2] = work[2] /\ u[3] = work[3]
  <2>1. 2 \in 1..W - 1 /\ 3 \in 1..W - 1
    BY <1>a
  <2>2. QED
    BY <2>1, <1>1
<1>3. InFunction /\ (work[2].at = "params" <=> work[3].node.node = "param") /\ ~BeforeStatements
  <2>1. InFunction
    BY BodyFacts
  <2>2. Len(work) >= 3
    BY <1>0, <1>a
  <2>3. QED
    BY <2>1, <2>2 DEF Opening
<1>4. ~BeforeStatements'
  <2>1. work'[2] = work[2] /\ work'[3] = work[3] /\ Len(work') >= 3 /\ Len(work) >= 3
    BY <1>0, <1>2, <1>a
  <2>2. QED
    BY <2>1, <1>3 DEF BeforeStatements
<1>5. Last(u) = u[N] /\ u # <<>>
  <2>1. u # <<>>
    BY <1>0, <1>1, <1>a, SeqFacts
  <2>2. QED
    BY <2>1, <1>0, <1>1, LastInRange
<1>6. Last(u).node.node # "var_declaration"
  <2>1. \A child : Frame(child).node = child
    BY EnteredFrame
  <2>2. CASE N = W - 1
    <3>1. N \in 1..W - 1 /\ N \in 1..Len(work) - 1
      BY <2>2, <1>0, <1>a
    <3>2. u[N] = work[N]
      BY <3>1, <1>1
    <3>3. work[N].node.node # "var_declaration"
      BY <3>1 DEF DeclarationInv, Leaves
    <3>4. QED
      BY <3>2, <3>3, <1>5
  <2>3. CASE N = W
    <3>1. rest.node = Top.node
      BY DEF Moves
    <3>2. QED
      BY <2>1, <2>3, <3>1, <1>1, <1>5
  <2>4. CASE N = W + 1
    BY <2>1, <2>4, <1>1, <1>5
  <2>5. QED
    BY <2>2, <2>3, <2>4, <1>a
<1>7. QED
  BY <1>0, <1>2, <1>3, <1>4, <1>6 DEF Opening, Top

-----------------------------------------------------------------------------
(* Statements and expressions above the body of a function.                *)

\* A step there that creates no block with something in it keeps all of it,
\* if it uses and takes along what fits.
LEMMA AboveStep ==
    ASSUME BuilderInv, BuilderInv', PlacementInv, DeclarationInv, DominanceInv, Proceeds,
           Len(work) >= 4, Top.node.node # "var_declaration",
           currentFunction' = currentFunction, UNCHANGED scope, LastValues',
           NEW rest, NEW kinds, Moves(rest, kinds), "var_declaration" \notin kinds,
           NEW ins, IsSeq(ins), blocks'[ip] = blocks[ip] \o ins, Feeds(ins),
           Top.node.node \in OperandKinds => ip' = ip /\ Carries(rest, Len(ins))
    PROVE  DominanceInv'
<1>1. /\ WaitingEmpty /\ UsesBehind /\ InHand /\ ValueFrames /\ Opening /\ SlotsInEntry
      /\ InFunction
  BY DEF DominanceInv, Proceeds
<1>2. /\ WaitingEmpty' /\ UsesBehind' /\ Expands(currentFunction, Created)
      /\ \E k, placed : Written(k, ins, placed)
  BY <1>1, ProceedsUses
<1>3. ValueFrames'
  BY <1>1, FramesValued
<1>4. InHand'
  <2>1. CASE Top.node.node \in OperandKinds
    <3>1. PICK k, placed : Written(k, ins, placed)
      BY <1>2
    <3>2. QED
      BY <2>1, <3>1, <1>1, <1>2, ExpressionHand
  <2>2. CASE Top.node.node \notin OperandKinds
    BY <2>2, <1>1, StatementHand
  <2>3. QED
    BY <2>1, <2>2
<1>5. Opening'
  BY <1>1, OpeningAbove
<1>6. SlotsInEntry'
  <2>1. PICK e : e = layout[currentFunction][1]
    OBVIOUS
  <2>2. layout'[currentFunction'][1] = e
    BY <2>1, <1>2 DEF Expands
  <2>3. QED
    BY <2>1, <2>2, <1>1, SlotsKept
<1>7. QED
  BY <1>2, <1>3, <1>4, <1>5, <1>6 DEF DominanceInv

\* A method that returns.
LEMMA ReturnMoves ==
    ASSUME BuilderInv, ValueFrames, work # <<>>, Return
    PROVE  Moves(Top, {})
<1>1. Top = work[Len(work)] /\ Len(work) \in DOMAIN work
  BY OuterFacts
<1>2. FrameValues(Top)
  BY <1>1 DEF ValueFrames
<1>3. QED
  BY <1>2 DEF Moves

\* A statement or a declaration that goes on in another place.
LEMMA StatementMoves ==
    ASSUME BuilderInv, ValueFrames, work # <<>>, Top.node.node \notin OperandKinds,
           NEW rest, rest.node = Top.node, rest.vals = Top.vals,
           rest.at \notin {"index", "right", "var"},
           NEW kinds, rest.at \in ValuePlaces => kinds \subseteq OperandKinds,
           \/ Return
           \/ rest.at \in {"params", "items"} /\ work' = Append(Callers, rest)
           \/ \E child : child.node \in kinds /\ work' = Append(Callers, Frame(child))
           \/ \E child : child.node \in kinds /\ work' = Callers \o <<rest, Frame(child)>>
    PROVE  Moves(rest, kinds)
<1>1. Top = work[Len(work)] /\ Len(work) \in DOMAIN work
  BY OuterFacts
<1>2. FrameValues(Top)
  BY <1>1 DEF ValueFrames
<1>3. "var" \in OperandKinds /\ "assign_expression" \in OperandKinds
  BY DEF OperandKinds, Factors, Expressions
<1>4. FrameValues(rest)
  BY <1>2, <1>3 DEF FrameValues
<1>5. Top.node.node # "var"
  BY <1>3
<1>6. QED
  BY <1>4, <1>5 DEF Moves

\* Visits, as ways to go on.
LEMMA VisitsFollow ==
    ASSUME NEW child, NEW kinds
    PROVE  /\ \A rest : Visit(child, kinds, rest) =>
                 \E c : c.node \in kinds /\ work' = Callers \o <<rest, Frame(c)>>
           /\ TailVisit(child, kinds) =>
                 \E c : c.node \in kinds /\ work' = Append(Callers, Frame(c))
  BY DEF Visit, TailVisit

\* What is evaluated last stays, when a step leaves it alone.
LEMMA LastValuesKept ==
    ASSUME ValueFrames, UNCHANGED lastExpression, currentParameter' = currentParameter
    PROVE  LastValues'
  BY DEF ValueFrames, LastValues, lastExpression

\* Which kinds are whose.
LEMMA KindsApart ==
    /\ Expressions \subseteq OperandKinds /\ {"var"} \subseteq OperandKinds
    /\ \A k \in Statements \cup Declarations \cup {"program", "param"} : k \notin OperandKinds
    /\ "var_declaration" \notin OperandKinds /\ "var_declaration" \notin Statements
    /\ "var_declaration" \notin Expressions
    /\ {"condition", "value", "index", "left", "right", "args"} = ValuePlaces
    /\ \A at \in {"visit", "arm", "end", "params", "items", "var"} : at \notin ValuePlaces
  BY DEF Expressions, OperandKinds, Factors, Statements, Declarations, ValuePlaces

-----------------------------------------------------------------------------
(* The statements that branch.                                             *)

\* The branches that statements end their blocks with.
LEMMA BranchesFeed ==
    ASSUME BuilderInv, InFunction, IsSeq(blocks[Back])
    PROVE  /\ \A b : IsSeq(JoinAt(b)) /\ Feeds(JoinAt(b))
           /\ \A b : IsSeq(<<Br(b)>>) /\ Feeds(<<Br(b)>>)
<1>1. \A b : Br(b).args = <<>>
  BY DEF Br, Branching
<1>2. \A b : FitAll(Br(b).args, 0)
  BY <1>1, FitAllShort
<1>3. \A b : Feeds(<<Br(b)>>) /\ IsSeq(<<Br(b)>>)
  BY <1>2, FeedsShort, ShortSeqs
<1>4. \A b : JoinAt(b) = <<>> \/ JoinAt(b) = <<Br(b)>>
  BY DEF JoinAt
<1>5. QED
  BY <1>3, <1>4, FeedsShort, ShortSeqs

LEMMA BranchOnFeeds ==
    ASSUME BuilderInv, InFunction, ValueFrames, Ready(currentExpression.args), NEW t, NEW f
    PROVE  IsSeq(BranchOn(t, f)) /\ Feeds(BranchOn(t, f))
<1> DEFINE s == Forced.ins
           v == Forced.val
           compare == ICmp("icmp_ne", v, Const(0))
           compared == Append(s, compare)
<1>1. IsSeq(s) /\ Feeds(s) /\ Fits(v, Len(s)) /\ Len(s) \in Nat
  BY ForcedFits DEF ValueFrames
<1>2. compare.args = <<v, Const(0)>> /\ \A w : CondBr(w, t, f).args = <<w>>
  BY DEF ICmp, Instr, CondBr, Branching
<1>3. Fits(Const(0), Len(s))
  BY FitsFacts DEF Const, Value
<1>4. /\ BranchOn(t, f) = Append(s, CondBr(v, t, f))
         \/ BranchOn(t, f) = Append(compared, CondBr(Here(compared), t, f))
  BY DEF BranchOn, Compared
<1> HIDE DEF s, v, compare
<1>5. FitAll(compare.args, Len(s))
  BY <1>1, <1>2, <1>3, FitAllShort
<1>6. IsSeq(compared) /\ Feeds(compared) /\ Len(compared) = Len(s) + 1
  BY <1>1, <1>5, FeedsAppend
<1>7. compared # <<>>
  BY <1>1, <1>6, SeqFacts
<1> HIDE DEF compared
<1>8. Fits(Here(compared), Len(compared))
  BY <1>6, <1>7, HereFits
<1>9. FitAll(CondBr(v, t, f).args, Len(s)) /\ FitAll(CondBr(Here(compared), t, f).args, Len(compared))
  BY <1>1, <1>2, <1>8, FitAllShort
<1>10. QED
  BY <1>1, <1>4, <1>6, <1>9, FeedsAppend

\* A statement above the body of a function that goes on in another place.
LEMMA StatementAbove ==
    ASSUME BuilderInv, BuilderInv', PlacementInv, DeclarationInv, DominanceInv, Proceeds,
           Len(work) >= 4, Top.node.node \in Statements,
           currentFunction' = currentFunction, UNCHANGED scope, UNCHANGED lastExpression,
           currentParameter' = currentParameter,
           NEW rest, rest.node = Top.node, rest.vals = Top.vals,
           rest.at \notin {"index", "right", "var"},
           NEW kinds, rest.at \in ValuePlaces => kinds \subseteq OperandKinds,
           "var_declaration" \notin kinds,
           \/ Return
           \/ rest.at \in {"params", "items"} /\ work' = Append(Callers, rest)
           \/ \E child : child.node \in kinds /\ work' = Append(Callers, Frame(child))
           \/ \E child : child.node \in kinds /\ work' = Callers \o <<rest, Frame(child)>>,
           NEW ins, IsSeq(ins), blocks'[ip] = blocks[ip] \o ins, Feeds(ins)
    PROVE  DominanceInv'
<1>1. work # <<>> /\ ValueFrames
  BY BodyFacts DEF DominanceInv
<1>2. Top.node.node \notin OperandKinds /\ Top.node.node # "var_declaration"
  BY KindsApart
<1>3. Moves(rest, kinds)
  BY <1>1, <1>2, StatementMoves
<1>4. LastValues'
  BY <1>1, LastValuesKept
<1>5. QED
  BY <1>2, <1>3, <1>4, AboveStep

\* What such a statement appends, and how it goes on.
BranchCode(ins) ==
    \/ ins = <<>>
    \/ \E b : ins = <<Br(b)>> \/ ins = JoinAt(b)
    \/ Top.at = "condition" /\ \E t, f : ins = BranchOn(t, f)

LEMMA BranchCodeSeq ==
    /\ \A b : IsSeq(JoinAt(b)) /\ IsSeq(<<Br(b)>>)
    /\ \A t, f : IsSeq(BranchOn(t, f))
<1>1. \A b : IsSeq(JoinAt(b)) /\ IsSeq(<<Br(b)>>)
  BY ShortSeqs DEF JoinAt
<1>2. IsSeq(Forced.ins)
  BY ShortSeqs DEF Forced
<1>3. IsSeq(Compared)
  BY <1>2, AppendFacts DEF Compared
<1>4. \A t, f : IsSeq(BranchOn(t, f))
  BY <1>2, <1>3, AppendFacts DEF BranchOn
<1>5. QED
  BY <1>1, <1>4

LEMMA BranchCodeFeeds ==
    ASSUME BuilderInv, InFunction, ValueFrames, InHand, work # <<>>, IsSeq(blocks[Back]),
           NEW ins, BranchCode(ins)
    PROVE  Feeds(ins)
<1>1. ASSUME Top.at = "condition", NEW t, NEW f PROVE Feeds(BranchOn(t, f))
  <2>1. Ready(currentExpression.args)
    BY <1>1, KindsApart DEF InHand
  <2>2. QED
    BY <2>1, BranchOnFeeds
<1>2. QED
  BY <1>1, BranchesFeed, FeedsShort DEF BranchCode

LEMMA BranchingMoves ==
    ASSUME BuilderInv, PlacementInv,
           \/ VisitSelectionStmt \/ SelectionCondition \/ SelectionElse \/ SelectionEnd
           \/ VisitIterationStmt \/ IterationCondition \/ IterationEnd
    PROVE  /\ \E rest, kinds :
                 /\ rest.node = Top.node /\ rest.vals = Top.vals
                 /\ rest.at \notin {"index", "right", "var"}
                 /\ rest.at \in ValuePlaces => kinds \subseteq OperandKinds
                 /\ "var_declaration" \notin kinds /\ "param" \notin kinds
                 /\ \/ Return
                    \/ \E child : child.node \in kinds /\ work' = Callers \o <<rest, Frame(child)>>
           /\ \E ins : /\ IsSeq(ins) /\ blocks'[ip] = blocks[ip] \o ins
                        /\ BranchCode(ins)
<1>1. /\ InFunction /\ OnlyAtEnd /\ work # <<>>
      /\ DOMAIN Top = {"at", "node", "i", "vals", "todo", "bb_condition", "will_enter_scope"}
      /\ IsSeq(Top.todo) /\ IsSeq(blocks[Back])
  BY BranchingFacts
<1>3. /\ \A b : IsSeq(JoinAt(b)) /\ IsSeq(<<Br(b)>>)
      /\ \A t, f : IsSeq(BranchOn(t, f))
  BY BranchCodeSeq
<1>5. ASSUME NEW ins, IsSeq(ins), BranchCode(ins), NEW placed, IsSeq(placed),
             EmitAndInsert(ins, placed)
      PROVE  \E list : /\ IsSeq(list) /\ blocks'[ip] = blocks[ip] \o list
                       /\ BranchCode(list)
  <2>1. Written(0, ins, placed)
    BY <1>1, <1>5, EmitWrites
  <2>2. QED
    BY <2>1, <1>5 DEF Written
<1>6. \A b : IsSeq(<<b>>)
  BY ShortSeqs
<1>7. "condition" \in ValuePlaces /\ "arm" \notin ValuePlaces /\ "end" \notin ValuePlaces
      /\ Expressions \subseteq OperandKinds
      /\ "var_declaration" \notin Expressions /\ "var_declaration" \notin Statements
      /\ "param" \notin Expressions /\ "param" \notin Statements
  BY KindsApart DEF Expressions, Statements
<1>8. CASE VisitSelectionStmt
  <2> DEFINE k == IF Top.node.else_statement = Nullptr THEN 2 ELSE 3
             rest == [Top EXCEPT !.at = "condition", !.todo = [j \in 1..k |-> Fresh(j)]]
  <2>1. Build(currentFunction, k, <<>>, <<>>) /\ Visit(Top.node.expression, Expressions, rest)
    BY <1>8 DEF VisitSelectionStmt
  <2>2. k \in Nat
    OBVIOUS
  <2>3. rest.node = Top.node /\ rest.vals = Top.vals /\ rest.at = "condition"
    BY <1>1
  <2> HIDE DEF k, rest
  <2>4. Written(k, <<>>, <<>>)
    <3>1. DOMAIN <<>> = {}
      OBVIOUS
    <3>2. IsSeq(<<>>)
      BY ShortSeqs
    <3>3. /\ \A b \in DOMAIN <<>> : IsSeq(<<>>[b])
          /\ IF ip \in DOMAIN <<>> THEN <<>>[ip] = <<>> ELSE <<>> = <<>>
      BY <3>1
    <3>4. QED
      BY <2>1, <2>2, <3>2, <3>3, <1>1, BuildWrites
  <2>5. \E child : child.node \in Expressions /\ work' = Callers \o <<rest, Frame(child)>>
    BY <2>1 DEF Visit
  <2>6. \E ins : /\ IsSeq(ins) /\ blocks'[ip] = blocks[ip] \o ins
                  /\ BranchCode(ins)
    BY <2>4, ShortSeqs DEF Written, BranchCode
  <2>7. QED
    BY <2>3, <2>5, <2>6, <1>7
<1>9. CASE SelectionCondition
  <2> DEFINE rest == [Top EXCEPT !.at = "arm", !.todo = Tail(Top.todo)]
             ins == BranchOn(Top.todo[1], Top.todo[2])
  <2>1. /\ EmitAndInsert(ins, <<Head(Top.todo)>>) /\ Top.at = "condition"
        /\ Visit(Top.node.if_statement, Statements, rest)
    BY <1>9 DEF SelectionCondition, Running
  <2>2. rest.node = Top.node /\ rest.vals = Top.vals /\ rest.at = "arm"
    BY <1>1
  <2>3. IsSeq(ins) /\ BranchCode(ins)
    BY <2>1, <1>3 DEF BranchCode
  <2> HIDE DEF ins, rest
  <2>4. \E list : /\ IsSeq(list) /\ blocks'[ip] = blocks[ip] \o list
                  /\ BranchCode(list)
    BY <2>1, <2>3, <1>5, <1>6
  <2>5. \E child : child.node \in Statements /\ work' = Callers \o <<rest, Frame(child)>>
    BY <2>1 DEF Visit
  <2>6. QED
    BY <2>2, <2>4, <2>5, <1>7
<1>10. CASE SelectionElse
  <2> DEFINE rest == [Top EXCEPT !.todo = Tail(Top.todo)]
             ins == JoinAt(Top.todo[2])
  <2>1. /\ EmitAndInsert(ins, <<Head(Top.todo)>>) /\ Top.at = "arm"
        /\ Visit(Top.node.else_statement, Statements, rest)
    BY <1>10 DEF SelectionElse, Running
  <2>2. rest.node = Top.node /\ rest.vals = Top.vals /\ rest.at = "arm"
    BY <1>1, <2>1
  <2>3. IsSeq(ins) /\ BranchCode(ins)
    BY <1>3 DEF BranchCode
  <2> HIDE DEF ins, rest
  <2>4. \E list : /\ IsSeq(list) /\ blocks'[ip] = blocks[ip] \o list
                  /\ BranchCode(list)
    BY <2>1, <2>3, <1>5, <1>6
  <2>5. \E child : child.node \in Statements /\ work' = Callers \o <<rest, Frame(child)>>
    BY <2>1 DEF Visit
  <2>6. QED
    BY <2>2, <2>4, <2>5, <1>7
<1>11. CASE SelectionEnd
  <2> DEFINE ins == JoinAt(Top.todo[1])
  <2>1. EmitAndInsert(ins, Top.todo) /\ Top.at = "arm" /\ Return
    BY <1>11 DEF SelectionEnd, Running
  <2>2. IsSeq(ins) /\ BranchCode(ins)
    BY <1>3 DEF BranchCode
  <2> HIDE DEF ins
  <2>3. \E list : /\ IsSeq(list) /\ blocks'[ip] = blocks[ip] \o list
                  /\ BranchCode(list)
    BY <2>1, <2>2, <1>1, <1>5
  <2>4. QED
    BY <2>1, <2>3, <1>7
<1>12. CASE VisitIterationStmt
  <2> DEFINE c == Fresh(1)
             rest == [Top EXCEPT !.at = "condition", !.bb_condition = c,
                                 !.todo = <<Fresh(2), Fresh(3)>>]
             ins == <<Br(c)>>
             added == Appending(ins)
  <2>1. Build(currentFunction, 3, added, <<c>>) /\ Visit(Top.node.expression, Expressions, rest)
    BY <1>12 DEF VisitIterationStmt
  <2>2. rest.node = Top.node /\ rest.vals = Top.vals /\ rest.at = "condition"
    BY <1>1
  <2>3. IsSeq(ins) /\ BranchCode(ins) /\ IsSeq(<<c>>) /\ 3 \in Nat
    BY <1>3, <1>6 DEF BranchCode
  <2>4. DOMAIN added = {ip} /\ added[ip] = ins
    BY DEF Appending
  <2> HIDE DEF rest, ins, c, added
  <2>5. /\ \A b \in DOMAIN added : IsSeq(added[b])
        /\ IF ip \in DOMAIN added THEN added[ip] = ins ELSE ins = <<>>
    BY <2>3, <2>4
  <2>6. Written(3, ins, <<c>>)
    BY <2>1, <2>3, <2>5, <1>1, BuildWrites
  <2>7. \E child : child.node \in Expressions /\ work' = Callers \o <<rest, Frame(child)>>
    BY <2>1 DEF Visit
  <2>8. \E list : /\ IsSeq(list) /\ blocks'[ip] = blocks[ip] \o list
                  /\ BranchCode(list)
    BY <2>3, <2>6 DEF Written
  <2>9. QED
    BY <2>2, <2>7, <2>8, <1>7
<1>13. CASE IterationCondition
  <2> DEFINE rest == [Top EXCEPT !.at = "end", !.todo = Tail(Top.todo)]
             ins == BranchOn(Top.todo[1], Top.todo[2])
  <2>1. /\ EmitAndInsert(ins, <<Head(Top.todo)>>) /\ Top.at = "condition"
        /\ Visit(Top.node.statement, Statements, rest)
    BY <1>13 DEF IterationCondition, Running
  <2>2. rest.node = Top.node /\ rest.vals = Top.vals /\ rest.at = "end"
    BY <1>1
  <2>3. IsSeq(ins) /\ BranchCode(ins)
    BY <2>1, <1>3 DEF BranchCode
  <2> HIDE DEF ins, rest
  <2>4. \E list : /\ IsSeq(list) /\ blocks'[ip] = blocks[ip] \o list
                  /\ BranchCode(list)
    BY <2>1, <2>3, <1>5, <1>6
  <2>5. \E child : child.node \in Statements /\ work' = Callers \o <<rest, Frame(child)>>
    BY <2>1 DEF Visit
  <2>6. QED
    BY <2>2, <2>4, <2>5, <1>7
<1>14. CASE IterationEnd
  <2> DEFINE ins == JoinAt(Top.bb_condition)
  <2>1. EmitAndInsert(ins, Top.todo) /\ Top.at = "end" /\ Return
    BY <1>14 DEF IterationEnd, Running
  <2>2. IsSeq(ins) /\ BranchCode(ins)
    BY <1>3 DEF BranchCode
  <2> HIDE DEF ins
  <2>3. \E list : /\ IsSeq(list) /\ blocks'[ip] = blocks[ip] \o list
                  /\ BranchCode(list)
    BY <2>1, <2>2, <1>1, <1>5
  <2>4. QED
    BY <2>1, <2>3, <1>7
<1>15. QED
  BY <1>8, <1>9, <1>10, <1>11, <1>12, <1>13, <1>14

LEMMA BranchingDominates ==
    ASSUME BuilderInv, BuilderInv', PlacementInv, DeclarationInv, DominanceInv,
           \/ VisitSelectionStmt \/ SelectionCondition \/ SelectionElse \/ SelectionEnd
           \/ VisitIterationStmt \/ IterationCondition \/ IterationEnd
    PROVE  DominanceInv'
<1>1. Proceeds
  BY BranchingProceeds
<1>2. work # <<>> /\ Top.node.node \in Branchings /\ UNCHANGED lastExpression
  BY BranchingFacts
<1>3. Top.node.node \in Statements /\ Top.node.node \in BodyKinds \ {"compound_stmt"}
  BY <1>2 DEF Branchings, Statements, BodyKinds
<1>4. Len(work) >= 4
  BY <1>2, <1>3, InsideBody
<1>5. UNCHANGED <<scope, current>>
  BY DEF VisitSelectionStmt, SelectionCondition, SelectionElse, SelectionEnd,
         VisitIterationStmt, IterationCondition, IterationEnd
<1>6. currentFunction' = currentFunction /\ currentParameter' = currentParameter /\ UNCHANGED scope
  BY <1>5 DEF current
<1>a. PICK ins : IsSeq(ins) /\ blocks'[ip] = blocks[ip] \o ins /\ BranchCode(ins)
  BY BranchingMoves
<1>7. Feeds(ins)
  <2>1. InFunction /\ IsSeq(blocks[Back]) /\ ValueFrames /\ InHand
    BY BranchingFacts DEF DominanceInv
  <2>2. QED
    BY <2>1, <1>2, <1>a, BranchCodeFeeds
<1>8. PICK rest, kinds :
          /\ rest.node = Top.node /\ rest.vals = Top.vals
          /\ rest.at \notin {"index", "right", "var"}
          /\ rest.at \in ValuePlaces => kinds \subseteq OperandKinds
          /\ "var_declaration" \notin kinds
          /\ \/ Return
             \/ \E child : child.node \in kinds /\ work' = Callers \o <<rest, Frame(child)>>
  BY BranchingMoves
<1>9. QED
  BY <1>1, <1>2, <1>3, <1>4, <1>6, <1>7, <1>8, <1>a, StatementAbove

-----------------------------------------------------------------------------
(* The other statements above the body of a function.                      *)

LEMMA NothingAppended ==
    ASSUME BuilderInv, InFunction, UNCHANGED code
    PROVE  \E ins : IsSeq(ins) /\ blocks'[ip] = blocks[ip] \o ins /\ Feeds(ins) /\ ins = <<>>
  BY UnchangedWrites, FeedsShort, ShortSeqs DEF Written

\* What is emitted is appended where the builder points, and it stays there.
LEMMA EmittedThere ==
    ASSUME BuilderInv, InFunction, NEW ins, IsSeq(ins), Emit(ins)
    PROVE  blocks'[ip] = blocks[ip] \o ins /\ ip' = ip /\ Written(0, ins, <<>>)
<1>1. EmitAndInsert(ins, <<>>) /\ IsSeq(<<>>)
  BY ShortSeqs DEF Emit, EmitAndInsert
<1>2. Written(0, ins, <<>>)
  BY <1>1, EmitWrites
<1>3. ip' = ip
  BY DEF Emit, Build
<1>4. QED
  BY <1>2, <1>3 DEF Written

LEMMA StatementMoving ==
    ASSUME BuilderInv, PlacementInv, DominanceInv, Len(work) >= 4,
           VisitExpresionStmt \/ VisitReturnStmt \/ ReturnValue
    PROVE  /\ \E rest, kinds :
                 /\ rest.node = Top.node /\ rest.vals = Top.vals
                 /\ rest.at \notin {"index", "right", "var"}
                 /\ rest.at \in ValuePlaces => kinds \subseteq OperandKinds
                 /\ "var_declaration" \notin kinds
                 /\ \/ Return
                    \/ \E child : child.node \in kinds /\ work' = Append(Callers, Frame(child))
                    \/ \E child : child.node \in kinds /\ work' = Callers \o <<rest, Frame(child)>>
           /\ \E ins : IsSeq(ins) /\ blocks'[ip] = blocks[ip] \o ins /\ Feeds(ins)
<1>1. /\ InFunction /\ work # <<>>
      /\ DOMAIN Top = {"at", "node", "i", "vals", "todo", "bb_condition", "will_enter_scope"}
  <2>1. work # <<>>
    BY DEF VisitExpresionStmt, VisitReturnStmt, ReturnValue, Running
  <2>2. InFunction
    BY DEF BuilderInv, Walk, VisitExpresionStmt, VisitReturnStmt, ReturnValue, InFunction
  <2>3. QED
    BY <2>1, <2>2, OuterFacts
<1>2. ValueFrames /\ InHand
  BY DEF DominanceInv
<1>3. "value" \in ValuePlaces /\ Expressions \subseteq OperandKinds /\ "var_declaration" \notin Expressions
      /\ "visit" \notin ValuePlaces
  BY KindsApart
<1>4. CASE VisitExpresionStmt
  <2>1. /\ Top.at = "visit" /\ UNCHANGED code
        /\ Return \/ TailVisit(Top.node.expression, Expressions)
    BY <1>4 DEF VisitExpresionStmt, Running
  <2>2. Return \/ \E child : child.node \in Expressions /\ work' = Append(Callers, Frame(child))
    BY <2>1, VisitsFollow
  <2>3. \E ins : IsSeq(ins) /\ blocks'[ip] = blocks[ip] \o ins /\ Feeds(ins)
    BY <2>1, <1>1, NothingAppended
  <2>4. QED
    BY <2>1, <2>2, <2>3, <1>3
<1>5. CASE VisitReturnStmt
  <2> DEFINE rest == [Top EXCEPT !.at = "value"]
  <2>1. \/ Emit(<<RetVoid>>) /\ Return
        \/ UNCHANGED code /\ Visit(Top.node.expression, Expressions, rest)
    BY <1>5 DEF VisitReturnStmt
  <2>2. rest.node = Top.node /\ rest.vals = Top.vals /\ rest.at = "value"
    BY <1>1
  <2> HIDE DEF rest
  <2>3. CASE UNCHANGED code /\ Visit(Top.node.expression, Expressions, rest)
    <3>1. \E child : child.node \in Expressions /\ work' = Callers \o <<rest, Frame(child)>>
      BY <2>3, VisitsFollow
    <3>2. \E ins : IsSeq(ins) /\ blocks'[ip] = blocks[ip] \o ins /\ Feeds(ins)
      BY <2>3, <1>1, NothingAppended
    <3>3. QED
      BY <3>1, <3>2, <2>2, <1>3
  <2>4. CASE Emit(<<RetVoid>>) /\ Return
    <3>1. FitAll(RetVoid.args, 0)
      BY FitAllShort DEF RetVoid, Branching
    <3>2. IsSeq(<<RetVoid>>) /\ Feeds(<<RetVoid>>)
      BY <3>1, FeedsShort, ShortSeqs
    <3>3. blocks'[ip] = blocks[ip] \o <<RetVoid>>
      BY <3>2, <2>4, <1>1, EmittedThere
    <3>4. \E ins : IsSeq(ins) /\ blocks'[ip] = blocks[ip] \o ins /\ Feeds(ins)
      BY <3>2, <3>3
    <3>5. QED
      BY <3>4, <2>2, <2>4, <1>3
  <2>5. QED
    BY <2>1, <2>3, <2>4
<1>6. CASE ReturnValue
  <2> DEFINE ins == Append(Forced.ins, Ret(Forced.val))
  <2>1. Emit(ins) /\ Return /\ Top.at = "value"
    BY <1>6 DEF ReturnValue, Running
  <2>2. Ready(currentExpression.args)
    BY <2>1, <1>1, <1>2, <1>3 DEF InHand
  <2>3. IsSeq(Forced.ins) /\ Feeds(Forced.ins) /\ Fits(Forced.val, Len(Forced.ins))
    BY <2>2, <1>1, <1>2, ForcedFits DEF ValueFrames
  <2>4. FitAll(Ret(Forced.val).args, Len(Forced.ins))
    BY <2>3, FitAllShort DEF Ret, Branching
  <2>5. IsSeq(ins) /\ Feeds(ins)
    BY <2>3, <2>4, FeedsAppend
  <2> HIDE DEF ins
  <2>6. blocks'[ip] = blocks[ip] \o ins
    BY <2>1, <2>5, <1>1, EmittedThere
  <2>7. \E list : IsSeq(list) /\ blocks'[ip] = blocks[ip] \o list /\ Feeds(list)
    BY <2>5, <2>6
  <2>8. \E kinds : /\ Top.at \in ValuePlaces => kinds \subseteq OperandKinds
                   /\ "var_declaration" \notin kinds
    BY <1>3
  <2>9. QED
    BY <2>1, <2>7, <2>8
<1>7. QED
  BY <1>4, <1>5, <1>6

LEMMA StatementDominates ==
    ASSUME BuilderInv, BuilderInv', PlacementInv, DeclarationInv, DominanceInv,
           VisitExpresionStmt \/ VisitReturnStmt \/ ReturnValue
    PROVE  DominanceInv'
<1>1. Proceeds
  BY WalkProceeds, EmitsProceeds
<1>2. /\ work # <<>> /\ Top.node.node \in Statements /\ Top.node.node \in BodyKinds \ {"compound_stmt"}
      /\ UNCHANGED <<scope, lastExpression, current>>
  BY DEF VisitExpresionStmt, VisitReturnStmt, ReturnValue, Running, Statements, BodyKinds
<1>3. Len(work) >= 4
  BY <1>2, InsideBody
<1>4. /\ currentFunction' = currentFunction /\ currentParameter' = currentParameter
      /\ UNCHANGED scope /\ UNCHANGED lastExpression
  BY <1>2 DEF current
<1>5. PICK ins : IsSeq(ins) /\ blocks'[ip] = blocks[ip] \o ins /\ Feeds(ins)
  BY <1>3, StatementMoving
<1>6. PICK rest, kinds :
          /\ rest.node = Top.node /\ rest.vals = Top.vals
          /\ rest.at \notin {"index", "right", "var"}
          /\ rest.at \in ValuePlaces => kinds \subseteq OperandKinds
          /\ "var_declaration" \notin kinds
          /\ \/ Return
             \/ \E child : child.node \in kinds /\ work' = Append(Callers, Frame(child))
             \/ \E child : child.node \in kinds /\ work' = Callers \o <<rest, Frame(child)>>
  BY <1>3, StatementMoving
<1>7. QED
  BY <1>1, <1>2, <1>3, <1>4, <1>5, <1>6, StatementAbove

\* A nested block declares nothing.
LEMMA NestedDominates ==
    ASSUME BuilderInv, BuilderInv', PlacementInv, DeclarationInv, DominanceInv, Flat,
           Len(work) >= 4, VisitCompoundStmt \/ CompoundItem \/ CompoundEnd
    PROVE  DominanceInv'
<1>1. Proceeds
  BY WalkProceeds
<1>2. PICK at : Running("compound_stmt", at)
  BY DEF VisitCompoundStmt, CompoundItem, CompoundEnd
<1>3. /\ work # <<>> /\ Top.node.node = "compound_stmt" /\ InFunction
      /\ Top.node.local_declarations = <<>> /\ ~Top.will_enter_scope /\ Top.i \in Nat
      /\ DOMAIN Top = {"at", "node", "i", "vals", "todo", "bb_condition", "will_enter_scope"}
  BY <1>2, CompoundFacts
<1>4. isFunctionTopCompoundStatement = FALSE
  BY BodyFacts
<1>5. /\ UNCHANGED scope /\ UNCHANGED lastExpression /\ UNCHANGED code
      /\ currentFunction' = currentFunction /\ currentParameter' = currentParameter
  BY <1>3, <1>4 DEF VisitCompoundStmt, CompoundItem, CompoundEnd, current
<1>6. PICK ins : IsSeq(ins) /\ blocks'[ip] = blocks[ip] \o ins /\ Feeds(ins)
  BY <1>3, <1>5, NothingAppended
<1>7. Top.node.node \in Statements /\ "var_declaration" \notin Statements
  BY <1>3, KindsApart DEF Statements
<1>8. "items" \notin ValuePlaces
  BY KindsApart
<1>9. \E rest : /\ rest.node = Top.node /\ rest.vals = Top.vals /\ rest.at = "items"
                /\ \/ Return
                   \/ work' = Append(Callers, rest)
                   \/ \E child : child.node \in Statements /\ work' = Callers \o <<rest, Frame(child)>>
  <2>1. CASE VisitCompoundStmt
    <3> DEFINE rest == [Top EXCEPT !.at = "items", !.will_enter_scope = isFunctionTopCompoundStatement]
    <3>1. work' = Append(Callers, rest)
      BY <2>1 DEF VisitCompoundStmt
    <3>2. rest.node = Top.node /\ rest.vals = Top.vals /\ rest.at = "items"
      BY <1>3
    <3> HIDE DEF rest
    <3>3. QED
      BY <3>1, <3>2
  <2>2. CASE CompoundItem
    <3> DEFINE rest == [Top EXCEPT !.i = @ + 1]
    <3>0. Len(Top.node.local_declarations) = 0
      BY <1>3, ShortSeqs
    <3>1. \E child : Visit(child, Statements, rest)
      <4>1. ~(Top.i < 0)
        BY <1>3
      <4>2. ~(Top.i < Len(Top.node.local_declarations))
        BY <4>1, <3>0
      <4>3. QED
        BY <4>2, <2>2 DEF CompoundItem
    <3>2. Top.at = "items"
      BY <2>2 DEF CompoundItem, Running
    <3>3. rest.node = Top.node /\ rest.vals = Top.vals /\ rest.at = "items"
      BY <1>3, <3>2
    <3> HIDE DEF rest
    <3>4. \E child : child.node \in Statements /\ work' = Callers \o <<rest, Frame(child)>>
      BY <3>1, VisitsFollow
    <3>5. QED
      BY <3>3, <3>4
  <2>3. CASE CompoundEnd
    BY <2>3 DEF CompoundEnd, Running
  <2>4. QED
    BY <2>1, <2>2, <2>3
<1>10. PICK rest : /\ rest.node = Top.node /\ rest.vals = Top.vals /\ rest.at = "items"
                   /\ \/ Return
                      \/ work' = Append(Callers, rest)
                      \/ \E child : /\ child.node \in Statements
                                    /\ work' = Callers \o <<rest, Frame(child)>>
  BY <1>9
<1>11. QED
  BY <1>1, <1>5, <1>6, <1>7, <1>8, <1>10, StatementAbove

-----------------------------------------------------------------------------
(* The expressions.                                                        *)

\* A method that evaluates an expression appends what it can use, and takes
\* along what can be used then.
Evaluates ==
    \E rest, kinds, ins :
        /\ Moves(rest, kinds)
        /\ IsSeq(ins) /\ blocks'[ip] = blocks[ip] \o ins /\ Feeds(ins)
        /\ ip' = ip /\ Carries(rest, Len(ins))

LEMMA ExpressionAbove ==
    ASSUME BuilderInv, BuilderInv', PlacementInv, DeclarationInv, DominanceInv, Proceeds,
           work # <<>>, Top.node.node \in OperandKinds, UNCHANGED <<scope, current>>,
           LastValues', Evaluates
    PROVE  DominanceInv'
<1>1. Top.node.node \in BodyKinds \ {"compound_stmt"} /\ Top.node.node # "var_declaration"
  BY DEF BodyKinds, OperandKinds, Factors, Expressions
<1>2. Len(work) >= 4
  BY <1>1, InsideBody
<1>3. currentFunction' = currentFunction /\ UNCHANGED scope
  BY DEF current
<1>4. PICK rest, kinds, ins :
          /\ Moves(rest, kinds)
          /\ IsSeq(ins) /\ blocks'[ip] = blocks[ip] \o ins /\ Feeds(ins)
          /\ ip' = ip /\ Carries(rest, Len(ins))
  BY DEF Evaluates
<1>5. kinds \subseteq OperandKinds
  BY <1>4 DEF Moves
<1>6. "var_declaration" \notin kinds
  BY <1>5, KindsApart
<1>7. QED
  BY <1>1, <1>2, <1>3, <1>4, <1>6, AboveStep

\* What has been visited is evaluated first.
LEMMA VisitingFits ==
    ASSUME BuilderInv, work # <<>>, Top.node.node \in OperandKinds,
           NEW rest, rest.node = Top.node, FrameValues(rest),
           NEW kinds, kinds \subseteq OperandKinds, rest.at = "var" => kinds \subseteq {"var"},
           NEW child, Visit(child, kinds, rest), NEW m, FitAll(rest.vals, m)
    PROVE  Moves(rest, kinds) /\ Carries(rest, m)
<1>1. child.node \in kinds /\ work' = Callers \o <<rest, Frame(child)>>
  BY DEF Visit
<1>2. ~Return
  <2>1. PICK W, N : W = Len(work) /\ N = Len(work')
    OBVIOUS
  <2>2. W \in Nat /\ N = W + 1 /\ (Return => N = W - 1)
    BY <1>1, <2>1, FollowingFrames
  <2>3. W + 1 # W - 1
    BY <2>2
  <2>4. QED
    BY <2>2, <2>3
<1>3. Moves(rest, kinds)
  BY <1>1 DEF Moves
<1>4. QED
  BY <1>2, <1>3 DEF Carries

\* A value is returned.
LEMMA ReturningFits ==
    ASSUME BuilderInv, ValueFrames, InHand, work # <<>>, Return,
           NEW m, FitAll(currentExpression'.args, m),
           Top.node.node = "var" => FitAll(currentPointer'.args, m)
    PROVE  Moves(Top, {}) /\ Carries(Top, m)
<1>1. Top = work[Len(work)] /\ Len(work) \in DOMAIN work
  BY OuterFacts
<1>2. Ready(Top.vals)
  BY <1>1 DEF InHand
<1>3. FitAll(Top.vals, m)
  BY <1>2, FitsFacts
<1>4. QED
  BY <1>3, ReturnMoves DEF Carries

\* What stands for a value or an address.
LEMMA ValueArgs ==
    /\ \A v : Returning(v).args = <<v>> /\ Load(v).args = <<v>>
    /\ \A v : IsSeq(<<v>>) /\ <<v>> # <<>>
  BY ShortSeqs DEF Returning, Load, Instr

LEMMA ExpressionHands ==
    ASSUME BuilderInv, DominanceInv, work # <<>>, Top.node.node \in OperandKinds
    PROVE  /\ InFunction /\ ValueFrames /\ InHand /\ SlotsInEntry
           /\ DOMAIN Top = {"at", "node", "i", "vals", "todo", "bb_condition", "will_enter_scope"}
           /\ FrameValues(Top) /\ IsSeq(Top.vals) /\ \A m : FitAll(Top.vals, m)
           /\ Top.at \in ValuePlaces =>
                 /\ Ready(currentExpression.args)
                 /\ IsSeq(Forced.ins) /\ Feeds(Forced.ins) /\ Fits(Forced.val, Len(Forced.ins))
                 /\ Len(Forced.ins) \in Nat
<1>1. ValueFrames /\ InHand /\ SlotsInEntry
  BY DEF DominanceInv
<1>2. /\ Top = work[Len(work)] /\ Len(work) \in DOMAIN work
      /\ DOMAIN Top = {"at", "node", "i", "vals", "todo", "bb_condition", "will_enter_scope"}
  BY OuterFacts
<1>3. InFunction
  <2>1. Top.node.node \notin {"program", "fun_declaration", "var_declaration"}
    BY DEF OperandKinds, Factors, Expressions
  <2>2. QED
    BY <2>1, InnerFacts, WorkFacts
<1>4. FrameValues(Top) /\ Ready(Top.vals)
  BY <1>1, <1>2 DEF ValueFrames, InHand
<1>5. IsSeq(Top.vals) /\ \A m : FitAll(Top.vals, m)
  BY <1>4, FitsFacts DEF FrameValues
<1>6. ASSUME Top.at \in ValuePlaces
      PROVE  /\ Ready(currentExpression.args)
             /\ IsSeq(Forced.ins) /\ Feeds(Forced.ins) /\ Fits(Forced.val, Len(Forced.ins))
             /\ Len(Forced.ins) \in Nat
  <2>1. Ready(currentExpression.args)
    BY <1>1, <1>6 DEF InHand
  <2>2. QED
    BY <2>1, <1>1, <1>3, ForcedFits DEF ValueFrames
<1>7. QED
  BY <1>1, <1>2, <1>3, <1>4, <1>5, <1>6

\* The steps that build nothing.
LEMMA WalkEvaluates ==
    ASSUME BuilderInv, NamesInv, DominanceInv,
           \/ VisitNum \/ VisitVar \/ VisitElement
           \/ VisitAssignExpression \/ AssignExpressionVar \/ VisitOperator
    PROVE  /\ work # <<>> /\ Top.node.node \in OperandKinds /\ UNCHANGED <<scope, current>>
           /\ LastValues' /\ Evaluates
<1>1. work # <<>> /\ Top.node.node \in OperandKinds /\ UNCHANGED <<scope, current, code>>
  BY DEF VisitNum, VisitVar, VisitElement, VisitAssignExpression, AssignExpressionVar, VisitOperator,
         Running, Operators, OperandKinds, Factors, Expressions
<1>2. /\ InFunction /\ ValueFrames /\ InHand /\ SlotsInEntry /\ FrameValues(Top)
      /\ DOMAIN Top = {"at", "node", "i", "vals", "todo", "bb_condition", "will_enter_scope"}
      /\ IsSeq(Top.vals) /\ FitAll(Top.vals, Len(<<>>))
  BY <1>1, ExpressionHands
<1>3. /\ IsSeq(<<>>) /\ blocks'[ip] = blocks[ip] \o <<>> /\ Feeds(<<>>) /\ ip' = ip
  BY <1>1, <1>2, UnchangedWrites, FeedsShort, ShortSeqs DEF Written, code
<1>4. \A rest, kinds : Moves(rest, kinds) /\ Carries(rest, Len(<<>>)) => Evaluates
  BY <1>3 DEF Evaluates
<1>5. LastValues'
  <2>1. \/ UNCHANGED lastExpression
        \/ /\ currentExpression'.args = <<Const(Top.node.value)>>
           /\ currentPointer' = currentPointer
        \/ /\ currentExpression'.args = <<Find(scope, Top.node.id)>>
           /\ currentPointer'.args = <<Find(scope, Top.node.id)>>
    <3>1. CASE VisitNum
      BY <3>1, ValueArgs DEF VisitNum
    <3>2. CASE VisitVar
      <4>1. \E v : /\ v = Find(scope, Top.node.id) /\ currentPointer' = Returning(v)
                   /\ currentExpression' = Returning(v) \/ currentExpression' = Load(v)
        BY <3>2 DEF VisitVar
      <4>2. QED
        BY <4>1, ValueArgs
    <3>3. CASE VisitElement \/ VisitAssignExpression \/ AssignExpressionVar \/ VisitOperator
      BY <3>3 DEF VisitElement, VisitAssignExpression, AssignExpressionVar, VisitOperator
    <3>4. QED
      BY <3>1, <3>2, <3>3
  <2>2. currentParameter' = currentParameter
    BY <1>1 DEF current
  <2>3. QED
    BY <2>1, <2>2, <1>2, ValueArgs DEF LastValues, ValueFrames, lastExpression
<1>6. Expressions \subseteq OperandKinds /\ {"var"} \subseteq OperandKinds
  BY KindsApart
<1>7. CASE VisitNum
  <2>1. Return /\ Top.node.node = "num" /\ currentExpression'.args = <<Const(Top.node.value)>>
    BY <1>7, ValueArgs DEF VisitNum, Running
  <2>2. FitAll(currentExpression'.args, Len(<<>>))
    <3>1. \A n : Const(n).k # "inst"
      BY DEF Const, Value
    <3>2. Fits(Const(Top.node.value), Len(<<>>))
      BY <3>1, FitsFacts
    <3>3. QED
      BY <2>1, <3>2, FitAllShort
  <2>3. QED
    BY <2>1, <2>2, <1>1, <1>2, <1>4, <1>5, ReturningFits
<1>8. CASE VisitVar
  <2>1. /\ Return /\ currentExpression'.args = <<Find(scope, Top.node.id)>>
        /\ currentPointer'.args = <<Find(scope, Top.node.id)>> /\ Resolves(scope, Top.node.id)
    BY <1>8, ValueArgs DEF VisitVar
  <2>2. Fits(Find(scope, Top.node.id), Len(<<>>))
    BY <2>1, <1>2, FindFits
  <2>3. FitAll(currentExpression'.args, Len(<<>>)) /\ FitAll(currentPointer'.args, Len(<<>>))
    BY <2>1, <2>2, FitAllShort
  <2>4. QED
    BY <2>1, <2>3, <1>1, <1>2, <1>4, <1>5, ReturningFits
<1>9. CASE VisitElement
  <2> DEFINE rest == [Top EXCEPT !.at = "index", !.vals = <<Find(scope, Top.node.id)>>]
  <2>1. /\ Resolves(scope, Top.node.id) /\ Visit(Top.node.expression, Expressions, rest)
        /\ Top.node.node = "var"
    BY <1>9 DEF VisitElement, Running
  <2>2. rest.node = Top.node /\ rest.at = "index" /\ rest.vals = <<Find(scope, Top.node.id)>>
    BY <1>2
  <2> HIDE DEF rest
  <2>3. Fits(Find(scope, Top.node.id), Len(<<>>))
    BY <2>1, <1>2, FindFits
  <2>4. FitAll(rest.vals, Len(<<>>)) /\ FrameValues(rest)
    BY <2>2, <2>3, <1>1, FitAllShort, ValueArgs DEF FrameValues
  <2>5. QED
    BY <2>1, <2>2, <2>4, <1>1, <1>4, <1>5, <1>6, VisitingFits
<1>10. CASE VisitAssignExpression
  <2> DEFINE rest == [Top EXCEPT !.at = "var"]
  <2>1. Visit(Top.node.var, {"var"}, rest)
    BY <1>10 DEF VisitAssignExpression
  <2>2. rest.node = Top.node /\ rest.at = "var" /\ rest.vals = Top.vals
    BY <1>2
  <2> HIDE DEF rest
  <2>3. FrameValues(rest)
    BY <2>2, <1>1, <1>2 DEF FrameValues
  <2>4. QED
    BY <2>1, <2>2, <2>3, <1>1, <1>2, <1>4, <1>5, <1>6, VisitingFits
<1>11. CASE AssignExpressionVar
  <2> DEFINE rest == [Top EXCEPT !.at = "value", !.vals = currentPointer.args]
  <2>1. Visit(Top.node.expression, Expressions, rest) /\ Running("assign_expression", "var")
    BY <1>11 DEF AssignExpressionVar
  <2>2. rest.node = Top.node /\ rest.at = "value" /\ rest.vals = currentPointer.args
    BY <1>2
  <2> HIDE DEF rest
  <2>3. FrameValues(rest)
    BY <2>2, <1>1, <1>2 DEF FrameValues, ValueFrames
  <2>4. FitAll(rest.vals, Len(<<>>))
    BY <2>1, <2>2, <1>2, FitsFacts DEF InHand
  <2>5. QED
    BY <2>1, <2>2, <2>3, <2>4, <1>1, <1>4, <1>5, <1>6, VisitingFits
<1>12. CASE VisitOperator
  <2> DEFINE rest == [Top EXCEPT !.at = "left"]
  <2>1. /\ \/ \E child : TailVisit(child, OperandKinds)
           \/ \E child : Visit(child, OperandKinds, rest)
        /\ Top.node.node # "var"
    BY <1>12 DEF VisitOperator, Running, Operators
  <2>2. rest.node = Top.node /\ rest.at = "left" /\ rest.vals = Top.vals
    BY <1>2
  <2> HIDE DEF rest
  <2>3. FrameValues(rest)
    BY <2>2, <1>1, <1>2 DEF FrameValues
  <2>4. CASE \E child : Visit(child, OperandKinds, rest)
    <3>1. PICK child : Visit(child, OperandKinds, rest)
      BY <2>4
    <3>2. QED
      BY <3>1, <2>2, <2>3, <1>1, <1>2, <1>4, <1>5, VisitingFits
  <2>5. CASE \E child : TailVisit(child, OperandKinds)
    <3>1. PICK child : child.node \in OperandKinds /\ work' = Append(Callers, Frame(child))
      BY <2>5, VisitsFollow
    <3>2. Moves(rest, OperandKinds)
      BY <3>1, <2>1, <2>2, <2>3, <1>1 DEF Moves
    <3>3. ~Return
      <4>1. PICK W, N : W = Len(work) /\ N = Len(work')
        OBVIOUS
      <4>2. W \in Nat /\ N = W /\ (Return => N = W - 1)
        BY <1>1, <3>1, <4>1, FollowingFrames
      <4>3. W # W - 1
        BY <4>2
      <4>4. QED
        BY <4>2, <4>3
    <3>4. Carries(rest, Len(<<>>))
      BY <3>3, <2>2, <1>2 DEF Carries
    <3>5. QED
      BY <3>2, <3>4, <1>1, <1>4, <1>5
  <2>6. QED
    BY <2>1, <2>4, <2>5
<1>13. QED
  BY <1>7, <1>8, <1>9, <1>10, <1>11, <1>12

\* A call, with the arguments that are evaluated.
LEMMA CallEvaluates ==
    ASSUME BuilderInv, NamesInv, SlotsInEntry, InFunction, NEW ins, IsSeq(ins), Feeds(ins),
           NEW args, IsSeq(args), FitAll(args, Len(ins)), EmitCall(ins, args)
    PROVE  \E list : /\ IsSeq(list) /\ blocks'[ip] = blocks[ip] \o list /\ Feeds(list) /\ ip' = ip
                     /\ Return /\ FitAll(currentExpression'.args, Len(list))
                     /\ IsSeq(currentExpression'.args) /\ currentExpression'.args # <<>>
<1> DEFINE called == Find(scope, Top.node.id)
           x == Call(called, args)
           call == Append(ins, x)
<1>1. /\ Resolves(scope, Top.node.id) /\ Emit(call) /\ Return
      /\ currentExpression' = Returning(Here(call))
  BY DEF EmitCall
<1>2. x.args = <<called>> \o args
  BY DEF Call, Instr
<1>3. Fits(called, Len(ins))
  BY <1>1, FindFits
<1> HIDE DEF called, x
<1>4. IsSeq(<<called>>) /\ FitAll(<<called>>, Len(ins))
  BY <1>3, FitAllShort, ShortSeqs
<1>5. FitAll(x.args, Len(ins))
  BY <1>2, <1>4, FitAllConcat
<1>6. IsSeq(call) /\ Feeds(call) /\ Len(call) = Len(ins) + 1 /\ Len(ins) \in Nat
  BY <1>5, FeedsAppend, SeqFacts
<1>7. call # <<>>
  BY <1>6, SeqFacts
<1> HIDE DEF call
<1>8. blocks'[ip] = blocks[ip] \o call /\ ip' = ip
  BY <1>1, <1>6, EmittedThere
<1>9. Fits(Here(call), Len(call))
  BY <1>6, <1>7, HereFits
<1>10. currentExpression'.args = <<Here(call)>>
  BY <1>1, ValueArgs
<1>11. FitAll(currentExpression'.args, Len(call)) /\ currentExpression'.args # <<>>
       /\ IsSeq(currentExpression'.args)
  BY <1>9, <1>10, FitAllShort, ValueArgs
<1>12. QED
  BY <1>1, <1>6, <1>8, <1>11

\* An operation, with the operands that are evaluated.
LEMMA OperationEvaluates ==
    ASSUME BuilderInv, InFunction, NEW ins, IsSeq(ins), Feeds(ins), NEW x, FitAll(x.args, Len(ins)),
           Emit(Append(ins, x))
    PROVE  /\ IsSeq(Append(ins, x)) /\ Feeds(Append(ins, x)) /\ ip' = ip
           /\ blocks'[ip] = blocks[ip] \o Append(ins, x)
           /\ Fits(Here(Append(ins, x)), Len(Append(ins, x)))
<1>1. PICK list : list = Append(ins, x)
  OBVIOUS
<1>2. IsSeq(list) /\ Feeds(list) /\ Len(list) = Len(ins) + 1 /\ Len(ins) \in Nat
  BY <1>1, FeedsAppend, SeqFacts
<1>3. list # <<>>
  BY <1>2, SeqFacts
<1>4. Emit(list)
  BY <1>1
<1>5. blocks'[ip] = blocks[ip] \o list /\ ip' = ip /\ Fits(Here(list), Len(list))
  BY <1>2, <1>3, <1>4, EmittedThere, HereFits
<1>6. QED
  BY <1>1, <1>2, <1>5

\* The values that are taken along and the one that comes last.
LEMMA OneMore ==
    ASSUME NEW s, IsSeq(s), NEW m, FitAll(s, m), NEW v, Fits(v, m)
    PROVE  IsSeq(Append(s, v)) /\ FitAll(Append(s, v), m) /\ Append(s, v) # <<>>
<1>1. IsSeq(<<v>>) /\ FitAll(<<v>>, m) /\ Append(s, v) = s \o <<v>>
  BY FitAllShort, AppendConcat, ShortSeqs
<1>2. FitAll(s \o <<v>>, m)
  BY <1>1, FitAllConcat
<1>3. IsSeq(Append(s, v)) /\ Len(Append(s, v)) = Len(s) + 1 /\ Len(s) \in Nat
  BY AppendFacts, SeqFacts
<1>4. Append(s, v) # <<>>
  <2>1. PICK t : t = Append(s, v)
    OBVIOUS
  <2>2. IsSeq(t) /\ Len(t) = Len(s) + 1 /\ Len(s) \in Nat
    BY <1>3, <2>1
  <2>3. t # <<>>
    BY <2>2, SeqFacts
  <2>4. QED
    BY <2>1, <2>3
<1>5. QED
  BY <1>1, <1>2, <1>3, <1>4

LEMMA FirstFits ==
    ASSUME NEW s, IsSeq(s), s # <<>>, NEW m, FitAll(s, m)
    PROVE  Fits(s[1], m)
<1>1. s[1] \in Range(s)
  BY SeqFacts
<1>2. QED
  BY <1>1 DEF FitAll

\* The address of an element fits where the address and the index do.
LEMMA ElementFits ==
    ASSUME NEW p, NEW i, NEW m, Fits(p, m), Fits(i, m)
    PROVE  FitAll(Element(p, i).args, m)
<1>1. Element(p, i).args = IF p.ty = "arr*" THEN <<p, Const(0), i>> ELSE <<p, i>>
  BY DEF Element, Instr
<1>2. Const(0).k # "inst"
  BY DEF Const, Value
<1>3. Fits(Const(0), m)
  BY <1>2, FitsFacts
<1>4. FitAll(<<p, i>>, m)
  BY FitAllShort
<1>5. FitAll(<<p, Const(0), i>>, m)
  <2>1. PICK z : z = Const(0)
    OBVIOUS
  <2>2. <<p, z, i>> = <<p, z>> \o <<i>>
    OBVIOUS
  <2>3. FitAll(<<p, z>>, m) /\ FitAll(<<i>>, m) /\ IsSeq(<<p, z>>) /\ IsSeq(<<i>>)
    BY <2>1, <1>3, FitAllShort, ShortSeqs
  <2>4. FitAll(<<p, z>> \o <<i>>, m)
    BY <2>3, FitAllConcat
  <2>5. QED
    BY <2>1, <2>2, <2>4
<1>6. QED
  BY <1>1, <1>4, <1>5

\* The steps that emit, of operators and assignments.
LEMMA OperatorsEvaluate ==
    ASSUME BuilderInv, DominanceInv, AssignExpressionValue \/ OperatorLeft \/ OperatorRight
    PROVE  /\ work # <<>> /\ Top.node.node \in OperandKinds /\ UNCHANGED <<scope, current>>
           /\ LastValues' /\ Evaluates
<1>1. /\ work # <<>> /\ Top.node.node \in OperandKinds /\ Top.node.node # "var"
      /\ UNCHANGED <<scope, current>> /\ currentPointer' = currentPointer
  BY DEF AssignExpressionValue, OperatorLeft, OperatorRight, Running, Operators, OperandKinds,
         Factors, Expressions, lastExpression
<1>2. Top.at \in ValuePlaces
  BY KindsApart DEF AssignExpressionValue, OperatorLeft, OperatorRight, Running
<1>3. /\ InFunction /\ ValueFrames /\ InHand /\ FrameValues(Top)
      /\ DOMAIN Top = {"at", "node", "i", "vals", "todo", "bb_condition", "will_enter_scope"}
      /\ IsSeq(Top.vals) /\ \A m : FitAll(Top.vals, m)
      /\ Ready(currentExpression.args)
      /\ IsSeq(Forced.ins) /\ Feeds(Forced.ins) /\ Fits(Forced.val, Len(Forced.ins))
  BY <1>1, <1>2, ExpressionHands
<1>4. currentParameter' = currentParameter
  BY <1>1 DEF current
<1>5. LastValues' <=> IsSeq(currentExpression'.args) /\ currentExpression'.args # <<>>
  BY <1>1, <1>3, <1>4 DEF LastValues, ValueFrames
<1>6. CASE AssignExpressionValue
  <2> DEFINE x == Store(Forced.val, Top.vals[1])
  <2>1. /\ Emit(Append(Forced.ins, x)) /\ Return /\ currentExpression' = currentExpression
        /\ Top.node.node = "assign_expression" /\ Top.at = "value"
    BY <1>6 DEF AssignExpressionValue, Running, lastExpression
  <2>2. Fits(Top.vals[1], Len(Forced.ins))
    <3>1. Top.vals # <<>>
      BY <2>1, <1>3 DEF FrameValues
    <3>2. QED
      BY <3>1, <1>3, FirstFits
  <2>3. x.args = <<Forced.val, Top.vals[1]>>
    BY DEF Store, Instr
  <2> HIDE DEF x
  <2>4. FitAll(x.args, Len(Forced.ins))
    BY <2>2, <2>3, <1>3, FitAllShort
  <2>5. PICK list : list = Append(Forced.ins, x)
    OBVIOUS
  <2>6. IsSeq(list) /\ Feeds(list) /\ ip' = ip /\ blocks'[ip] = blocks[ip] \o list
    BY <2>1, <2>4, <2>5, <1>3, OperationEvaluates
  <2>7. FitAll(currentExpression'.args, Len(list))
    BY <2>1, <1>3, FitsFacts
  <2>8. Moves(Top, {}) /\ Carries(Top, Len(list))
    BY <2>1, <2>7, <1>1, <1>3, ReturningFits
  <2>9. LastValues'
    BY <2>1, <1>3, <1>5 DEF ValueFrames
  <2>10. QED
    BY <2>6, <2>8, <2>9, <1>1 DEF Evaluates
<1>7. CASE OperatorLeft
  <2> DEFINE rest == [Top EXCEPT !.at = "right", !.vals = <<Forced.val>>]
             child == Operands(Top.node)[2]
  <2>1. /\ Emit(Forced.ins) /\ Visit(child, OperandKinds, rest)
        /\ currentExpression' = currentExpression
    BY <1>7 DEF OperatorLeft, lastExpression
  <2>2. rest.node = Top.node /\ rest.at = "right" /\ rest.vals = <<Forced.val>>
    BY <1>3
  <2> HIDE DEF rest, child
  <2>3. FitAll(rest.vals, Len(Forced.ins)) /\ FrameValues(rest)
    BY <2>2, <1>1, <1>3, FitAllShort, ValueArgs DEF FrameValues
  <2>4. ip' = ip /\ blocks'[ip] = blocks[ip] \o Forced.ins
    BY <2>1, <1>3, EmittedThere
  <2>5. Moves(rest, OperandKinds) /\ Carries(rest, Len(Forced.ins))
    BY <2>1, <2>2, <2>3, <1>1, VisitingFits
  <2>6. LastValues'
    BY <2>1, <1>3, <1>5 DEF ValueFrames
  <2>7. QED
    BY <2>4, <2>5, <2>6, <1>1, <1>3 DEF Evaluates
<1>8. CASE OperatorRight
  <2> DEFINE l == Top.vals[1]
             x == ICmp(Top.node.op, l, Forced.val)
             compare == Append(Forced.ins, x)
  <2>1. /\ Return /\ Top.at = "right"
        /\ \/ Emit(compare) /\ currentExpression' = Returning(Here(compare))
           \/ Emit(Forced.ins) /\ currentExpression' = Instr(Top.node.op, <<l, Forced.val>>, l.ty)
    BY <1>8 DEF OperatorRight, Running
  <2>2. Fits(l, Len(Forced.ins))
    <3>1. Top.vals # <<>>
      BY <2>1, <1>3 DEF FrameValues
    <3>2. QED
      BY <3>1, <1>3, FirstFits
  <2>3. x.args = <<l, Forced.val>>
    BY DEF ICmp, Instr
  <2>4. \A op, args, ty : Instr(op, args, ty).args = args
    BY DEF Instr
  <2> HIDE DEF l, x
  <2>5. FitAll(<<l, Forced.val>>, Len(Forced.ins)) /\ IsSeq(<<l, Forced.val>>) /\ <<l, Forced.val>> # <<>>
    <3>1. IsSeq(<<l, Forced.val>>) /\ Len(<<l, Forced.val>>) = 2
      BY ShortSeqs
    <3>2. <<l, Forced.val>> # <<>>
      OBVIOUS
    <3>3. QED
      BY <3>1, <3>2, <2>2, <1>3, FitAllShort
  <2>6. CASE Emit(compare) /\ currentExpression' = Returning(Here(compare))
    <3>1. FitAll(x.args, Len(Forced.ins))
      BY <2>3, <2>5
    <3>2. PICK list : list = compare
      OBVIOUS
    <3>3. /\ IsSeq(list) /\ Feeds(list) /\ ip' = ip /\ blocks'[ip] = blocks[ip] \o list
          /\ Fits(Here(list), Len(list))
      BY <2>6, <3>1, <3>2, <1>3, OperationEvaluates
    <3>4. currentExpression'.args = <<Here(list)>>
      BY <2>6, <3>2, ValueArgs
    <3>5. FitAll(currentExpression'.args, Len(list))
      BY <3>3, <3>4, FitAllShort
    <3>6. Moves(Top, {}) /\ Carries(Top, Len(list))
      BY <2>1, <3>5, <1>1, <1>3, ReturningFits
    <3>7. LastValues'
      BY <3>4, <1>5, ValueArgs
    <3>8. QED
      BY <3>3, <3>6, <3>7, <1>1 DEF Evaluates
  <2>7. CASE Emit(Forced.ins) /\ currentExpression' = Instr(Top.node.op, <<l, Forced.val>>, l.ty)
    <3>1. ip' = ip /\ blocks'[ip] = blocks[ip] \o Forced.ins
      BY <2>7, <1>3, EmittedThere
    <3>2. currentExpression'.args = <<l, Forced.val>>
      BY <2>4, <2>7
    <3>3. Moves(Top, {}) /\ Carries(Top, Len(Forced.ins))
      BY <2>1, <2>5, <3>2, <1>1, <1>3, ReturningFits
    <3>4. LastValues'
      BY <3>2, <2>5, <1>5
    <3>5. QED
      BY <3>1, <3>3, <3>4, <1>1, <1>3 DEF Evaluates
  <2>8. QED
    BY <2>1, <2>6, <2>7
<1>9. QED
  BY <1>6, <1>7, <1>8

LEMMA CallsEvaluate ==
    ASSUME BuilderInv, NamesInv, DominanceInv, VisitCall \/ CallArgument
    PROVE  /\ work # <<>> /\ Top.node.node \in OperandKinds /\ UNCHANGED <<scope, current>>
           /\ LastValues' /\ Evaluates
<1>1. /\ work # <<>> /\ Top.node.node \in OperandKinds /\ Top.node.node = "call"
      /\ UNCHANGED <<scope, current>> /\ currentPointer' = currentPointer
  BY DEF VisitCall, CallArgument, Running, OperandKinds, Factors, Expressions
<1>2. /\ InFunction /\ ValueFrames /\ InHand /\ FrameValues(Top) /\ SlotsInEntry
      /\ DOMAIN Top = {"at", "node", "i", "vals", "todo", "bb_condition", "will_enter_scope"}
      /\ IsSeq(Top.vals) /\ \A m : FitAll(Top.vals, m)
  BY <1>1, ExpressionHands
<1>3. currentParameter' = currentParameter
  BY <1>1 DEF current
<1>4. LastValues' <=> IsSeq(currentExpression'.args) /\ currentExpression'.args # <<>>
  BY <1>1, <1>2, <1>3 DEF LastValues, ValueFrames
<1>5. Expressions \subseteq OperandKinds
  BY KindsApart
\* The call itself.
<1>6. ASSUME NEW ins, IsSeq(ins), Feeds(ins), NEW args, IsSeq(args), FitAll(args, Len(ins)),
             EmitCall(ins, args)
      PROVE  LastValues' /\ Evaluates
  <2>1. PICK list : /\ IsSeq(list) /\ blocks'[ip] = blocks[ip] \o list /\ Feeds(list) /\ ip' = ip
                    /\ Return /\ FitAll(currentExpression'.args, Len(list))
                    /\ IsSeq(currentExpression'.args) /\ currentExpression'.args # <<>>
    BY <1>2, <1>6, CallEvaluates
  <2>2. Moves(Top, {}) /\ Carries(Top, Len(list))
    BY <2>1, <1>1, <1>2, ReturningFits
  <2>3. QED
    BY <2>1, <2>2, <1>4 DEF Evaluates
\* The next argument.
<1>7. ASSUME NEW ins, IsSeq(ins), Feeds(ins), blocks'[ip] = blocks[ip] \o ins, ip' = ip,
             NEW frame, NextArgument(frame), frame.node = Top.node, IsSeq(frame.vals),
             FitAll(frame.vals, Len(ins)), currentExpression' = currentExpression,
             DOMAIN frame = {"at", "node", "i", "vals", "todo", "bb_condition", "will_enter_scope"}
      PROVE  LastValues' /\ Evaluates
  <2> DEFINE rest == [frame EXCEPT !.i = @ + 1, !.at = "args"]
             child == frame.node.args[frame.i + 1]
  <2>1. Visit(child, Expressions, rest)
    BY <1>7 DEF NextArgument
  <2>2. rest.node = Top.node /\ rest.at = "args" /\ rest.vals = frame.vals
    BY <1>7
  <2> HIDE DEF rest, child
  <2>3. FrameValues(rest)
    BY <2>2, <1>1, <1>7 DEF FrameValues
  <2>4. Moves(rest, Expressions) /\ Carries(rest, Len(ins))
    BY <2>1, <2>2, <2>3, <1>1, <1>5, <1>7, VisitingFits
  <2>5. LastValues'
    BY <1>2, <1>4, <1>7 DEF ValueFrames
  <2>6. QED
    BY <2>4, <2>5, <1>7 DEF Evaluates
<1>8. CASE VisitCall
  <2>1. IsSeq(<<>>) /\ Feeds(<<>>) /\ FitAll(<<>>, Len(<<>>))
    BY FeedsShort, FitAllShort, ShortSeqs
  <2>2. CASE EmitCall(<<>>, <<>>)
    BY <2>1, <2>2, <1>1, <1>6
  <2>3. CASE NextArgument(Top) /\ UNCHANGED <<code, currentExpression>>
    <3>1. blocks'[ip] = blocks[ip] \o <<>> /\ ip' = ip
      BY <2>3, <1>2, UnchangedWrites DEF Written, code
    <3>2. LastValues' /\ Evaluates
      BY <2>1, <2>3, <3>1, <1>2, <1>7
    <3>3. QED
      BY <3>2, <1>1
  <2>4. QED
    BY <2>2, <2>3, <1>8 DEF VisitCall
<1>9. CASE CallArgument
  <2> DEFINE x == Element(Forced.val, Const(0))
             decay == Append(Forced.ins, x)
             ins == IF Forced.val.ty = "arr*" THEN decay ELSE Forced.ins
             v == IF Forced.val.ty = "arr*" THEN Here(decay) ELSE Forced.val
             arg_list == Append(Top.vals, v)
             frame == [Top EXCEPT !.vals = arg_list]
  <2>1. /\ Top.at = "args"
        /\ \/ EmitCall(ins, arg_list)
           \/ NextArgument(frame) /\ Emit(ins) /\ currentExpression' = currentExpression
    BY <1>9 DEF CallArgument, Running
  <2>2. Top.at \in ValuePlaces
    BY <2>1, KindsApart
  <2>3. IsSeq(Forced.ins) /\ Feeds(Forced.ins) /\ Fits(Forced.val, Len(Forced.ins))
    BY <2>2, <1>1, ExpressionHands
  <2>4. FitAll(x.args, Len(Forced.ins))
    <3>1. Const(0).k # "inst"
      BY DEF Const, Value
    <3>2. Fits(Const(0), Len(Forced.ins))
      BY <3>1, FitsFacts
    <3>3. QED
      BY <3>2, <2>3, ElementFits
  <2> HIDE DEF x
  <2>5. IsSeq(decay) /\ Feeds(decay) /\ Fits(Here(decay), Len(decay))
    <3>1. PICK list : list = decay
      OBVIOUS
    <3>2. IsSeq(list) /\ Feeds(list) /\ Len(list) = Len(Forced.ins) + 1 /\ Len(Forced.ins) \in Nat
      BY <3>1, <2>3, <2>4, FeedsAppend, SeqFacts
    <3>3. list # <<>>
      BY <3>2, SeqFacts
    <3>4. Fits(Here(list), Len(list))
      BY <3>2, <3>3, <1>2, HereFits
    <3>5. QED
      BY <3>1, <3>2, <3>4
  <2> HIDE DEF decay
  <2>6. IsSeq(ins) /\ Feeds(ins) /\ Fits(v, Len(ins))
    BY <2>3, <2>5
  <2> HIDE DEF ins, v
  <2>7. IsSeq(arg_list) /\ FitAll(arg_list, Len(ins))
    BY <2>6, <1>2, OneMore
  <2> HIDE DEF arg_list
  <2>8. /\ frame.node = Top.node /\ frame.vals = arg_list
        /\ DOMAIN frame = {"at", "node", "i", "vals", "todo", "bb_condition", "will_enter_scope"}
    BY <1>2
  <2> HIDE DEF frame
  <2>9. CASE EmitCall(ins, arg_list)
    BY <2>6, <2>7, <2>9, <1>1, <1>6
  <2>10. CASE NextArgument(frame) /\ Emit(ins) /\ currentExpression' = currentExpression
    <3>1. blocks'[ip] = blocks[ip] \o ins /\ ip' = ip
      BY <2>6, <2>10, <1>2, EmittedThere
    <3>2. LastValues' /\ Evaluates
      BY <2>6, <2>7, <2>8, <2>10, <3>1, <1>7
    <3>3. QED
      BY <3>2, <1>1
  <2>11. QED
    BY <2>1, <2>9, <2>10
<1>10. QED
  BY <1>8, <1>9

LEMMA ExpressionDominates ==
    ASSUME BuilderInv, BuilderInv', PlacementInv, NamesInv, DeclarationInv, DominanceInv,
           \/ VisitNum \/ VisitVar \/ VisitElement
           \/ VisitAssignExpression \/ AssignExpressionVar \/ VisitOperator
           \/ AssignExpressionValue \/ OperatorLeft \/ OperatorRight
           \/ VisitCall \/ CallArgument
    PROVE  DominanceInv'
<1>1. Proceeds
  BY WalkProceeds, EmitsProceeds
<1>2. /\ work # <<>> /\ Top.node.node \in OperandKinds /\ UNCHANGED <<scope, current>>
      /\ LastValues' /\ Evaluates
  BY WalkEvaluates, OperatorsEvaluate, CallsEvaluate
<1>3. QED
  BY <1>1, <1>2, ExpressionAbove

-----------------------------------------------------------------------------
(* An element: the check of the index, and the blocks it leads to.         *)

\* What the check appends uses what it can.
LEMMA CheckFeeds ==
    ASSUME BuilderInv, InFunction, ValueFrames, Ready(currentExpression.args), NEW u, NEW b
    PROVE  /\ IsSeq(CheckIndex(u, b)) /\ Feeds(CheckIndex(u, b))
           /\ Len(Forced.ins) \in 0..Len(CheckIndex(u, b))
<1> DEFINE test == ICmp("icmp_slt", Forced.val, Const(0))
           compare == Append(Forced.ins, test)
           branch == CondBr(Here(compare), u, b)
           check == Append(compare, branch)
<1>1. IsSeq(Forced.ins) /\ Feeds(Forced.ins) /\ Fits(Forced.val, Len(Forced.ins))
      /\ Len(Forced.ins) \in Nat
  BY ForcedFits DEF ValueFrames
<1>2. CheckIndex(u, b) = check
  BY DEF CheckIndex, IndexCompare
<1>3. test.args = <<Forced.val, Const(0)>>
  BY DEF ICmp, Instr
<1>4. Fits(Const(0), Len(Forced.ins))
  <2>1. Const(0).k # "inst"
    BY DEF Const, Value
  <2>2. QED
    BY <2>1, FitsFacts
<1> HIDE DEF test
<1>5. FitAll(test.args, Len(Forced.ins))
  BY <1>1, <1>3, <1>4, FitAllShort
<1>6. IsSeq(compare) /\ Feeds(compare) /\ Len(compare) = Len(Forced.ins) + 1
  BY <1>1, <1>5, FeedsAppend
<1>8. branch.args = <<Here(compare)>>
  BY DEF CondBr, Branching
<1> HIDE DEF compare, branch
<1>7. compare # <<>>
  <2>1. Len(compare) # 0
    BY <1>1, <1>6
  <2>2. QED
    BY <2>1, ShortSeqs
<1>9. Fits(Here(compare), Len(compare))
  BY <1>6, <1>7, HereFits
<1>10. FitAll(branch.args, Len(compare))
  BY <1>8, <1>9, FitAllShort
<1>11. IsSeq(check) /\ Feeds(check) /\ Len(check) = Len(compare) + 1
  BY <1>6, <1>10, FeedsAppend
<1> HIDE DEF check
<1>12. Len(Forced.ins) \in 0..Len(check)
  <2>1. PICK a : a = Len(Forced.ins)
    OBVIOUS
  <2>2. Len(check) = (a + 1) + 1 /\ a \in Nat
    BY <2>1, <1>1, <1>6, <1>11
  <2>3. a \in 0..(a + 1) + 1
    BY <2>2
  <2>4. QED
    BY <2>1, <2>2, <2>3
<1>13. QED
  BY <1>2, <1>11, <1>12

\* The address, taken in the block that both ways lead to.
Taken(array, b) ==
    IF array.ty = "arr*" THEN <<Element(array, Forced.val)>>
    ELSE <<Load(array), Element(Value("inst", <<b, 1>>, PointeeOf[array.ty]), Forced.val)>>

LEMMA AddressTaken ==
    ASSUME BuilderInv, PlacementInv, ElementIndex, NEW n, n = Len(blocks)
    PROVE  /\ blocks'[n + 2] = Taken(Top.vals[1], n + 2)
           /\ \E ptr : /\ ptr = Value("inst", <<n + 2, Len(Taken(Top.vals[1], n + 2))>>, "i32*")
                       /\ currentExpression' = Load(ptr) /\ currentPointer' = Returning(ptr)
           /\ Return /\ UNCHANGED <<scope, module, current, currentValue>>
           /\ Resolves(scope, "neg_idx_except") /\ Top.node.node = "var" /\ Top.at = "index"
<1> DEFINE array == Top.vals[1]
           ins == CheckIndex(n + 1, n + 2)
           underflow == <<Call(Find(scope, "neg_idx_except"), <<>>), Br(n + 2)>>
           element == Taken(array, n + 2)
           added == [b \in {ip, n + 1, n + 2} |->
                       IF b = ip THEN ins ELSE IF b = n + 2 THEN element ELSE underflow]
           placed == <<n + 1, n + 2>>
<1>1. Build(currentFunction, 2, added, placed)
  BY DEF ElementIndex, Fresh, Taken
<1>2. /\ InFunction /\ n \in Nat /\ ip \in 1..n
      /\ Written(2, ins, placed)
  BY ElementCode
<1>3. /\ IsSeq(blocks) /\ \A b \in DOMAIN blocks : IsSeq(blocks[b])
  BY <1>2, CodeFacts
<1>4. IsSeq(ins) /\ Len(blocks') = n + 2
  BY <1>2 DEF Written
<1>5. IsSeq(underflow) /\ IsSeq(element)
  BY ShortSeqs DEF Taken
<1> HIDE DEF ins, underflow, element, placed
<1>6. /\ DOMAIN added = {ip, n + 1, n + 2} /\ added[n + 2] = element
      /\ \A b \in DOMAIN added : IsSeq(added[b])
  BY <1>2, <1>4, <1>5
<1> HIDE DEF added
<1>7. \A b \in 1..Len(blocks') : b > Len(blocks) /\ b \in DOMAIN added => blocks'[b] = added[b]
  <2>1. 2 \in Nat /\ \A b \in DOMAIN added : IsSeq(added[b])
    BY <1>6
  <2>2. QED
    BY <1>1, <1>3, <2>1, BuiltBlocks, Zenon
<1>8. blocks'[n + 2] = element
  BY <1>2, <1>4, <1>6, <1>7
<1>9. \E ptr : /\ ptr = Value("inst", <<n + 2, Len(Taken(Top.vals[1], n + 2))>>, "i32*")
               /\ currentExpression' = Load(ptr) /\ currentPointer' = Returning(ptr)
  BY DEF ElementIndex, Fresh, Taken
<1>10. QED
  BY <1>8, <1>9 DEF element, ElementIndex, Running

\* The blocks around it.
LEMMA AroundCheck ==
    ASSUME BuilderInv, PlacementInv, ElementIndex, NEW n, n = Len(blocks),
           NEW F, F = currentFunction, NEW c, c = ip
    PROVE  /\ n \in Nat /\ c \in Mine /\ Inserted(F) \subseteq Mine /\ Mine \subseteq 1..n
           /\ layout[F][1] \in Mine /\ Pending \cup Loops \subseteq Mine
           /\ Inserted(F)' = Inserted(F) \cup {n + 1, n + 2}
           /\ Open(F)' \subseteq Mine
           /\ \A b \in Mine : b # c => Targets(b)' \subseteq Mine
<1>1. /\ InFunction /\ work # <<>> /\ Top.todo = <<>> /\ n \in Nat /\ c \in 1..n
      /\ currentFunction' = currentFunction /\ DOMAIN blocks = 1..n
      /\ Written(2, CheckIndex(n + 1, n + 2), <<n + 1, n + 2>>)
  BY ElementCode
<1>2. F = Len(layout) /\ F \in DOMAIN layout /\ IsSeq(layout[F]) /\ layout[F] # <<>>
  BY <1>1, CodeFacts DEF BuilderInv, Shape
<1>3. /\ c \in Inserted(F) /\ Inserted(F) \cup Pending \cup Loops \subseteq 1..n
      /\ Inserted(F)' = Inserted(F) \cup {n + 1, n + 2}
  BY <1>2, CheckLeads
<1>4. Mine = Inserted(F) \cup Pending
  BY <1>2 DEF Mine
<1>5. Pending \cup Loops \subseteq Reserve /\ Reserve \subseteq Mine
  BY <1>1, HeldReserved DEF Reserve
<1>6. PICK rest : Replaces(rest) /\ rest.todo = <<>> /\ rest.node = Nullptr
  BY ElementCode
<1>7. Loops' \subseteq Loops
  <2> DEFINE S == Loops
  <2>1. FrameOK(rest, S) /\ Loops \subseteq S
    BY <1>6 DEF FrameOK, Nullptr
  <2> HIDE DEF S
  <2>2. Loops' \subseteq S
    BY <2>1, <1>1, <1>6, LoopsKept
  <2>3. QED
    BY <2>2 DEF S
<1>8. Pending' \subseteq Pending
  <2>1. /\ Pending = Waiting(Callers) \cup Range(Top.todo)
        /\ Pending' = Waiting(Callers) \cup Range(rest.todo)
    BY <1>1, <1>6, PendingFacts
  <2>2. QED
    BY <2>1, <1>1, <1>6
<1>9. Open(F)' \subseteq Mine
  <2>1. Open(F)' \subseteq Pending' \cup Loops'
    BY <1>1 DEF Open
  <2>2. QED
    BY <2>1, <1>5, <1>7, <1>8
<1>10. layout[F][1] \in Inserted(F)
  BY <1>2, SeqFacts DEF Inserted
<1>11. ASSUME NEW b \in Mine, b # c PROVE Targets(b)' \subseteq Mine
  <2>1. b \in DOMAIN blocks
    BY <1>1, <1>3, <1>4
  <2>2. blocks'[b] = blocks[b]
    BY <1>1, <1>11, <2>1 DEF Written, OnlyAtEnd
  <2>3. Targets(b)' = Targets(b)
    BY <2>2, TargetsLead, TargetsLeadThen
  <2>4. Targets(b) \subseteq Reserve
    BY <1>1 DEF PlacementInv, Leading
  <2>5. QED
    BY <2>3, <2>4, <1>5
<1>12. QED
  BY <1>1, <1>3, <1>4, <1>5, <1>9, <1>10, <1>11

\* What could be used before the check can be used after it: the ways that do
\* not come by its definition do not come by the check.
LEMMA CheckedUsable ==
    ASSUME BuilderInv, PlacementInv, ElementIndex, NEW n, n = Len(blocks),
           NEW F, F = currentFunction, Expands(F, Created),
           NEW m \in 0..Len(CheckIndex(n + 1, n + 2)), NEW v, Fits(v, m),
           NEW u \in {n + 1, n + 2}, NEW j
    PROVE  Usable(v, F, <<u, j>>)'
<1> DEFINE ins == CheckIndex(n + 1, n + 2)
<1>0. PICK c, a, e, d : c = ip /\ a = Len(blocks[ip]) /\ e = layout[F][1] /\ d = v.ref[1]
  OBVIOUS
<1>1. InFunction /\ Written(2, ins, <<n + 1, n + 2>>)
  BY ElementCode
<1>2. /\ n \in Nat /\ c \in Mine /\ Inserted(F) \subseteq Mine /\ Mine \subseteq 1..n
      /\ e \in Mine /\ Inserted(F)' = Inserted(F) \cup {n + 1, n + 2}
      /\ Open(F)' \subseteq Mine
      /\ \A b \in Mine : b # c => Targets(b)' \subseteq Mine
  BY <1>0, AroundCheck
<1>3. layout'[F][1] = e
  BY <1>0 DEF Expands
<1>4. CASE v.k # "inst"
  BY <1>4 DEF Usable
<1>5. CASE v.k = "inst"
  <2>1. PICK i : i = a + Len(ins) + 1
    OBVIOUS
  <2>2. i \in Nat /\ i > a + m /\ m \in 0..Len(ins)
    <3>1. a \in Nat /\ Len(ins) \in Nat
      <4>1. IsSeq(blocks[ip])
        BY <1>1, CodeFacts
      <4>2. IsSeq(ins)
        BY <1>1 DEF Written
      <4>3. QED
        BY <4>1, <4>2, <1>0, SeqFacts
    <3>2. \A x, y \in Nat : \A z \in 0..y : x + y + 1 \in Nat /\ x + y + 1 > x + z
      OBVIOUS
    <3>3. QED
      BY <3>1, <3>2, <2>1
  <2> HIDE DEF ins
  <2>3. Usable(v, F, <<c, i>>)'
    BY <1>0, <1>1, <2>2, FitsThen
  <2>4. /\ v.ref \in InstructionsOf(F)'
        /\ d # c => Lasting(F, d, c)'
    BY <2>3, <1>0, <1>5 DEF Usable
  <2>5. d \in Inserted(F)
    <3>1. CASE Usable(v, currentFunction, <<ip, Len(blocks[ip]) + 1>>)
      <4>1. v.ref \in InstructionsOf(F)
        BY <3>1, <1>5 DEF Usable
      <4>2. QED
        BY <4>1, <1>0, InstructionsFacts
    <3>2. CASE v.ref \in {ip} \X (Len(blocks[ip]) + 1 .. Len(blocks[ip]) + m)
      <4>1. d = c
        BY <3>2, <1>0
      <4>2. c \in Inserted(F)
        <5>1. ip = Last(layout[F]) /\ layout[F] # <<>> /\ IsSeq(layout[F])
          BY <1>1, CodeFacts DEF BuilderInv, Shape
        <5>2. QED
          BY <5>1, <1>0, LastInRange DEF Inserted
      <4>3. QED
        BY <4>1, <4>2
    <3>3. QED
      BY <3>1, <3>2, <1>5 DEF Fits
  <2>6. d \in 1..n /\ u \notin 1..n /\ u # d /\ n + 1 \notin 1..n /\ n + 2 \notin 1..n
    <3>1. d \in 1..n
      BY <2>5, <1>2
    <3>2. n + 1 \notin 1..n /\ n + 2 \notin 1..n
      BY <1>2
    <3>3. u \notin 1..n
      BY <3>2
    <3>4. QED
      BY <3>1, <3>2, <3>3
  <2>7. Lasting(F, d, u)'
    <3>1. CASE d = c
      <4>1. PICK S : S = Mine \ {c}
        OBVIOUS
      <4>2. S \in SUBSET (Inserted(F)' \cup Open(F)')
        <5>1. Mine \subseteq Inserted(F)' \cup Open(F)'
          <6>1. Mine = Inserted(F) \cup Pending
            BY <1>0, <1>1, CodeFacts DEF Mine
          <6>2. Pending \subseteq Open(F)
            BY DEF Open
          <6>3. QED
            BY <6>1, <6>2 DEF Expands
        <5>2. QED
          BY <4>1, <5>1
      <4>3. u \notin S
        BY <4>1, <2>6, <1>2
      <4>4. Open(F)' \subseteq S \cup {d}
        BY <4>1, <3>1, <1>2
      <4>5. Evades(S, F, d)'
        <5>1. \A b \in S : Targets(b)' \subseteq Mine
          BY <4>1, <1>2
        <5>2. {e} \cup UNION {Targets(b)' : b \in S} \subseteq S \cup {d}
          BY <5>1, <4>1, <3>1, <1>2
        <5>3. QED
          BY <5>2, <1>3 DEF Evades
      <4>6. QED
        BY <4>2, <4>3, <4>4, <4>5 DEF Lasting
    <3>2. CASE d # c
      <4>1. CASE d = e
        BY <4>1, <1>3 DEF Lasting
      <4>2. CASE d # e
        <5>1. PICK S \in SUBSET (Inserted(F)' \cup Open(F)') :
                  /\ Evades(S, F, d)' /\ Open(F)' \subseteq S \cup {d} /\ c \notin S
          BY <4>2, <3>2, <2>4, <1>3 DEF Lasting
        <5>2. PICK T : T = S \ {n + 1, n + 2}
          OBVIOUS
        <5>3. T \subseteq Mine /\ c \notin T
          BY <5>1, <5>2, <1>2
        <5>4. {e} \cup UNION {Targets(b)' : b \in S} \subseteq S \cup {d}
          BY <5>1, <1>3 DEF Evades
        <5>5. ASSUME NEW b \in T PROVE Targets(b)' \subseteq T \cup {d}
          <6>1. Targets(b)' \subseteq Mine /\ Targets(b)' \subseteq S \cup {d}
            BY <5>2, <5>3, <5>4, <5>5, <1>2
          <6>2. QED
            BY <6>1, <5>2, <2>6, <1>2
        <5>6. e \in T \cup {d}
          BY <5>2, <5>4, <2>6, <1>2
        <5>7. {e} \cup UNION {Targets(b)' : b \in T} \subseteq T \cup {d}
          BY <5>5, <5>6
        <5>8. Evades(T, F, d)'
          BY <5>7, <1>3 DEF Evades
        <5>9. Open(F)' \subseteq T \cup {d}
          BY <5>1, <5>2, <2>6, <1>2
        <5>10. u \notin T /\ T \in SUBSET (Inserted(F)' \cup Open(F)')
          BY <5>1, <5>2
        <5>11. QED
          BY <5>8, <5>9, <5>10 DEF Lasting
      <4>3. QED
        BY <4>1, <4>2
    <3>3. QED
      BY <3>1, <3>2
  <2>8. QED
    BY <2>4, <2>6, <2>7, <1>0 DEF Usable
<1>6. QED
  BY <1>4, <1>5

\* What the address is computed from can be used there.
LEMMA TakenFits ==
    ASSUME NEW array, NEW b, NEW m, Fits(array, m), Fits(Forced.val, m)
    PROVE  /\ Len(Taken(array, b)) \in {1, 2} /\ DOMAIN Taken(array, b) = 1..Len(Taken(array, b))
           /\ \A j \in DOMAIN Taken(array, b) : \A v \in Range(Taken(array, b)[j].args) :
                 Fits(v, m) \/ (j = 2 /\ v.ref = <<b, 1>>)
<1>1. FitAll(Element(array, Forced.val).args, m)
  BY ElementFits
<1>2. FitAll(Load(array).args, m)
  <2>1. Load(array).args = <<array>>
    BY ValueArgs
  <2>2. QED
    BY <2>1, FitAllShort
<1>3. PICK base, i : base = Value("inst", <<b, 1>>, PointeeOf[array.ty]) /\ i = Forced.val
  OBVIOUS
<1>4. ASSUME NEW v \in Range(Element(base, i).args) PROVE Fits(v, m) \/ v.ref = <<b, 1>>
  <2>1. Element(base, i).args = IF base.ty = "arr*" THEN <<base, Const(0), i>> ELSE <<base, i>>
    BY DEF Element, Instr
  <2>2. v \in {base, Const(0), i}
    <3>1. PICK z : z = Const(0)
      OBVIOUS
    <3>2. \A x \in Range(<<base, z, i>>) : x \in {base, z, i}
      BY DEF Range
    <3>3. \A x \in Range(<<base, i>>) : x \in {base, i}
      BY ShortSeqs
    <3>4. QED
      BY <1>4, <2>1, <3>1, <3>2, <3>3
  <2>3. Const(0).k # "inst"
    BY DEF Const, Value
  <2>4. Fits(Const(0), m)
    BY <2>3, FitsFacts
  <2>5. base.ref = <<b, 1>>
    BY <1>3 DEF Value
  <2>6. QED
    BY <1>3, <2>2, <2>4, <2>5
<1>5. CASE array.ty = "arr*"
  <2>1. Taken(array, b) = <<Element(array, i)>>
    BY <1>3, <1>5 DEF Taken
  <2>2. PICK x : x = Element(array, i)
    OBVIOUS
  <2>3. QED
    BY <1>1, <1>3, <2>1, <2>2 DEF FitAll
<1>6. CASE array.ty # "arr*"
  <2>1. Taken(array, b) = <<Load(array), Element(base, i)>>
    BY <1>3, <1>6 DEF Taken
  <2>2. PICK x, y : x = Load(array) /\ y = Element(base, i)
    OBVIOUS
  <2>3. \A v \in Range(x.args) : Fits(v, m)
    BY <1>2, <2>2 DEF FitAll
  <2>4. \A v \in Range(y.args) : Fits(v, m) \/ v.ref = <<b, 1>>
    BY <1>4, <2>2
  <2>5. Taken(array, b) = <<x, y>>
    BY <2>1, <2>2
  <2>6. QED
    BY <2>3, <2>4, <2>5
<1>7. QED
  BY <1>5, <1>6

\* What an operand of the blocks that are new is can be used there.
LEMMA ElementUses ==
    ASSUME BuilderInv, PlacementInv, NamesInv, DominanceInv, ElementIndex,
           NEW F, F = currentFunction, Expands(F, Created),
           NEW b \in Created, NEW j \in DOMAIN blocks'[b], NEW v \in Range(blocks'[b][j].args)
    PROVE  Usable(v, F, <<b, j>>)'
<1>1. PICK n : n = Len(blocks)
  OBVIOUS
<1>2. /\ InFunction /\ work # <<>> /\ n \in Nat /\ Created = {n + 1, n + 2}
      /\ blocks'[n + 1] = <<Call(Find(scope, "neg_idx_except"), <<>>), Br(n + 2)>>
  BY <1>1, ElementCode
<1>3. /\ blocks'[n + 2] = Taken(Top.vals[1], n + 2)
      /\ Resolves(scope, "neg_idx_except") /\ Top.node.node = "var" /\ Top.at = "index"
  BY <1>1, AddressTaken
<1>4. /\ ValueFrames /\ SlotsInEntry /\ FrameValues(Top) /\ IsSeq(Top.vals)
      /\ \A m : FitAll(Top.vals, m)
      /\ Ready(currentExpression.args) /\ Fits(Forced.val, Len(Forced.ins))
  <2>1. Top.node.node \in OperandKinds /\ Top.at \in ValuePlaces
    BY <1>3 DEF OperandKinds, Factors, ValuePlaces
  <2>2. QED
    BY <1>2, <2>1, ExpressionHands
<1>5. PICK m : m = Len(Forced.ins)
  OBVIOUS
<1>6. m \in 0..Len(CheckIndex(n + 1, n + 2))
  BY <1>2, <1>4, <1>5, CheckFeeds
<1>7. ASSUME Fits(v, m) PROVE Usable(v, F, <<b, j>>)'
  BY <1>1, <1>2, <1>6, <1>7, CheckedUsable
<1>8. CASE b = n + 1
  <2>1. PICK x, y : x = Call(Find(scope, "neg_idx_except"), <<>>) /\ y = Br(n + 2)
    OBVIOUS
  <2>2. y.args = <<>>
    BY <2>1 DEF Br, Branching
  <2>3. PICK w : w = Find(scope, "neg_idx_except")
    OBVIOUS
  <2>4. x.args = <<w>>
    <3>1. x.args = <<w>> \o <<>>
      BY <2>1, <2>3 DEF Call, Instr
    <3>2. QED
      BY <3>1, ConcatEmpty, ShortSeqs
  <2>5. blocks'[b] = <<x, y>>
    BY <1>2, <1>8, <2>1
  <2>6. j \in {1, 2} /\ blocks'[b][j] \in {x, y}
    BY <2>5
  <2>7. Range(<<>>) = {} /\ Range(<<w>>) = {w}
    BY ShortSeqs
  <2>8. v = w
    BY <2>2, <2>4, <2>6, <2>7
  <2>9. Fits(w, m)
    BY <1>2, <1>3, <1>4, <2>3, FindFits
  <2>10. QED
    BY <1>7, <2>8, <2>9
<1>9. CASE b = n + 2
  <2>1. PICK array : array = Top.vals[1]
    OBVIOUS
  <2>2. Top.vals # <<>>
    BY <1>3, <1>4 DEF FrameValues
  <2>3. Fits(array, m)
    BY <1>4, <2>1, <2>2, FirstFits
  <2>4. /\ j \in DOMAIN Taken(array, n + 2) /\ v \in Range(Taken(array, n + 2)[j].args)
        /\ Len(Taken(array, n + 2)) \in {1, 2}
    BY <1>3, <1>9, <2>1, <2>3, <1>4, <1>5, TakenFits
  <2>5. Fits(v, m) \/ (j = 2 /\ v.ref = <<n + 2, 1>>)
    BY <1>4, <1>5, <2>3, <2>4, TakenFits
  <2>6. CASE j = 2 /\ v.ref = <<n + 2, 1>>
    <3>1. n + 2 \in Inserted(F)'
      BY <1>1, AroundCheck
    <3>2. 1 \in DOMAIN blocks'[n + 2]
      <4>1. DOMAIN Taken(array, n + 2) = 1..Len(Taken(array, n + 2))
        BY <2>3, <1>4, <1>5, TakenFits
      <4>2. QED
        BY <4>1, <2>4, <2>1, <1>3
    <3>3. <<n + 2, 1>> \in InstructionsOf(F)'
      BY <3>1, <3>2, InstructionsThen
    <3>4. QED
      BY <3>3, <2>6, <1>9 DEF Usable
  <2>7. QED
    BY <1>7, <2>5, <2>6
<1>10. QED
  BY <1>2, <1>8, <1>9

LEMMA ElementDominates ==
    ASSUME BuilderInv, BuilderInv', PlacementInv, NamesInv, DeclarationInv, DominanceInv,
           ElementIndex
    PROVE  DominanceInv'
<1>1. PICK n, F, e : n = Len(blocks) /\ F = currentFunction /\ e = layout[currentFunction][1]
  OBVIOUS
<1>2. PICK ins, placed : ins = CheckIndex(n + 1, n + 2) /\ placed = <<n + 1, n + 2>>
  OBVIOUS
<1>3. /\ InFunction /\ currentFunction' = currentFunction /\ work # <<>> /\ Top.todo = <<>>
      /\ n \in Nat /\ Created = {n + 1, n + 2} /\ ip' = n + 2
      /\ LeadsTo(ins) = {n + 1, n + 2} /\ Written(2, ins, placed)
      /\ LeadsTo(blocks'[n + 1]) = {n + 2} /\ LeadsTo(blocks'[n + 2]) = {}
  BY <1>1, <1>2, ElementCode
<1>4. PICK rest : Replaces(rest) /\ rest.todo = <<>> /\ rest.node = Nullptr
  BY ElementCode
<1>5. /\ WaitingEmpty /\ UsesBehind /\ InHand /\ ValueFrames /\ Opening /\ SlotsInEntry
  BY DEF DominanceInv
<1>6. Top.node.node = "var" /\ Top.at = "index" /\ Return /\ UNCHANGED <<scope, module, current>>
  BY <1>1, AddressTaken
<1>7. PICK ptr : /\ ptr = Value("inst", <<n + 2, Len(Taken(Top.vals[1], n + 2))>>, "i32*")
                 /\ currentExpression' = Load(ptr) /\ currentPointer' = Returning(ptr)
  BY <1>1, AddressTaken
<1>8. /\ FrameValues(Top) /\ IsSeq(Top.vals) /\ \A m : FitAll(Top.vals, m)
      /\ Ready(currentExpression.args) /\ Fits(Forced.val, Len(Forced.ins))
  <2>1. Top.node.node \in OperandKinds /\ Top.at \in ValuePlaces
    BY <1>6 DEF OperandKinds, Factors, ValuePlaces
  <2>2. QED
    BY <1>3, <2>1, ExpressionHands
<1>9. /\ IsSeq(ins) /\ Feeds(ins) /\ Len(Forced.ins) \in 0..Len(ins)
  BY <1>2, <1>3, <1>5, <1>8, CheckFeeds
<1>10. FrameOK(rest, Loops \cup Created)
  BY <1>4 DEF FrameOK, Nullptr
<1>11. /\ Range(placed) = {n + 1, n + 2} /\ Range(rest.todo) = {} /\ Range(Top.todo) = {}
  BY <1>2, <1>3, <1>4, ShortSeqs
<1>12. /\ Range(placed) \cup Range(rest.todo) = Range(Top.todo) \cup Created
       /\ Range(placed) \subseteq Pending \cup Created
       /\ LeadsTo(ins) \subseteq Pending \cup Loops \cup Created
       /\ \A b \in Created : LeadsTo(blocks'[b]) \subseteq Created
       /\ \A b \in Created \cap Range(rest.todo) : blocks'[b] = <<>>
  BY <1>3, <1>11
<1>13. /\ DOMAIN layout' = DOMAIN layout
       /\ Expands(currentFunction, Created)
       /\ \A f \in DOMAIN layout : f # currentFunction => Expands(f, {})
  BY <1>3, <1>4, <1>10, <1>12, StepExpands
<1>14. WaitingEmpty'
  BY <1>3, <1>4, <1>5, <1>10, <1>12, StepContinues
<1>15. UsesBehind'
  <2>1. \A b \in Created : \A j \in DOMAIN blocks'[b] :
            \A v \in Range(blocks'[b][j].args) : Usable(v, F, <<b, j>>)'
    BY <1>1, <1>13, ElementUses
  <2>2. currentFunction' \in {0, currentFunction}
    BY <1>3
  <2>3. QED
    BY <1>1, <1>3, <1>5, <1>9, <1>12, <1>13, <2>1, <2>2, UsesStep
<1>16. Moves(Top, {})
  BY <1>3, <1>5, <1>6, ReturnMoves
<1>17. LastValues'
  <2>1. /\ IsSeq(currentExpression'.args) /\ currentExpression'.args # <<>>
        /\ IsSeq(currentPointer'.args) /\ currentPointer'.args # <<>>
    BY <1>7, ValueArgs
  <2>2. currentParameter'.k # "inst"
    BY <1>5, <1>6 DEF ValueFrames, current
  <2>3. QED
    BY <2>1, <2>2 DEF LastValues
<1>18. ValueFrames'
  BY <1>5, <1>16, <1>17, FramesValued
<1>19. Opening'
  <2>1. Len(work) >= 4
    <3>1. Top.node.node \in BodyKinds \ {"compound_stmt"}
      BY <1>6 DEF BodyKinds, OperandKinds, Factors
    <3>2. QED
      BY <1>3, <3>1, InsideBody
  <2>2. QED
    BY <1>5, <1>6, <1>16, <2>1, OpeningAbove
<1>20. SlotsInEntry'
  <2>1. layout'[currentFunction'][1] = e
    BY <1>1, <1>3, <1>13 DEF Expands
  <2>2. QED
    BY <1>1, <1>5, <1>6, <2>1, SlotsKept
<1>21. InHand'
  <2>1. PICK u : u = work'
    OBVIOUS
  <2>2. PICK W : W = Len(work)
    OBVIOUS
  <2>3. /\ IsSeq(u) /\ DOMAIN u = 1..W - 1 /\ W \in Nat /\ DOMAIN work = 1..W
        /\ \A d \in 1..W - 1 : u[d] = work[d]
    <3>1. IsSeq(Callers) /\ Len(Callers) = W - 1 /\ \A d \in 1..W - 1 : Callers[d] = work[d]
      BY <1>3, <2>2, OuterFacts
    <3>2. DOMAIN Callers = 1..Len(Callers)
      BY <3>1, SeqFacts
    <3>3. W \in Nat /\ DOMAIN work = 1..W /\ u = Callers
      BY <1>3, <1>6, <2>1, <2>2, OuterFacts DEF Return
    <3>4. QED
      BY <3>1, <3>2, <3>3
  <2>4. PICK q : q = ip'
    OBVIOUS
  <2>5. PICK i : i = Len(blocks'[q]) + 1
    OBVIOUS
  <2>6. ASSUME NEW v, Usable(v, F, <<q, i>>)'
        PROVE  Usable(v, currentFunction, <<ip, Len(blocks[ip]) + 1>>)'
    BY <1>1, <1>3, <2>4, <2>5, <2>6
  <2>7. ASSUME NEW d \in DOMAIN u, NEW v \in Range(u[d].vals)
        PROVE  Usable(v, F, <<q, i>>)'
    <3>1. d \in DOMAIN work /\ u[d] = work[d]
      BY <2>3, <2>7
    <3>2. Usable(v, currentFunction, <<ip, Len(blocks[ip]) + 1>>)
      BY <1>5, <2>7, <3>1 DEF InHand, Ready
    <3>3. Fits(v, Len(Forced.ins))
      BY <3>2, FitsFacts
    <3>4. q \in {n + 1, n + 2}
      BY <1>3, <2>4
    <3>5. PICK m : m = Len(Forced.ins)
      OBVIOUS
    <3>6. m \in 0..Len(CheckIndex(n + 1, n + 2)) /\ Fits(v, m)
      BY <1>2, <1>9, <3>3, <3>5
    <3>7. QED
      BY <1>1, <1>13, <3>4, <3>6, CheckedUsable
  <2>8. Usable(ptr, F, <<q, i>>)'
    <3>1. PICK array, k : array = Top.vals[1] /\ k = Len(Taken(Top.vals[1], n + 2))
      OBVIOUS
    <3>2. ptr.ref = <<n + 2, k>>
      BY <1>7, <3>1 DEF Value
    <3>3. Top.vals # <<>>
      BY <1>6, <1>8 DEF FrameValues
    <3>4. PICK m : m = Len(Forced.ins)
      OBVIOUS
    <3>5. Fits(array, m)
      BY <1>8, <3>1, <3>3, FirstFits
    <3>6. k \in {1, 2} /\ DOMAIN Taken(array, n + 2) = 1..k
      BY <1>8, <3>1, <3>4, <3>5, TakenFits
    <3>7. blocks'[n + 2] = Taken(array, n + 2)
      BY <1>1, <3>1, AddressTaken
    <3>8. k \in DOMAIN blocks'[n + 2]
      BY <3>6, <3>7
    <3>9. n + 2 \in Inserted(F)'
      BY <1>1, AroundCheck
    <3>10. <<n + 2, k>> \in InstructionsOf(F)'
      BY <3>8, <3>9, InstructionsThen
    <3>11. i > k
      <4>1. Len(blocks'[n + 2]) = k
        BY <3>1, <3>7
      <4>2. i = k + 1
        BY <1>3, <2>4, <2>5, <4>1
      <4>3. QED
        BY <3>6, <4>2
    <3>12. QED
      BY <1>3, <2>4, <3>2, <3>10, <3>11 DEF Usable
  <2>9. Range(currentExpression'.args) = {ptr} /\ Range(currentPointer'.args) = {ptr}
    BY <1>7, ValueArgs, ShortSeqs
  <2>10. ASSUME NEW d \in DOMAIN work' PROVE Ready(work[d].vals)'
    BY <2>1, <2>6, <2>7, <2>10 DEF Ready
  <2>11. Ready(currentExpression.args)' /\ Ready(currentPointer.args)'
    BY <2>6, <2>8, <2>9 DEF Ready
  <2>12. QED
    BY <2>10, <2>11 DEF InHand
<1>22. QED
  BY <1>14, <1>15, <1>18, <1>19, <1>20, <1>21 DEF DominanceInv

-----------------------------------------------------------------------------
(* The declarations of a function, and its body.                           *)

\* A step of a declaration or a statement that appends what it can use.
LEMMA UsesOn ==
    ASSUME NEW rest, NEW kinds, NEW ins,
           BuilderInv, BuilderInv', PlacementInv, DominanceInv, Proceeds,
           Top.node.node \notin OperandKinds,
           currentFunction' = currentFunction \/ (currentFunction' = 0 /\ Pending' = {}),
           LastValues', Moves(rest, kinds),
           IsSeq(ins), blocks'[ip] = blocks[ip] \o ins, Feeds(ins)
    PROVE  WaitingEmpty' /\ UsesBehind' /\ InHand' /\ ValueFrames'
<1>1. /\ WaitingEmpty /\ UsesBehind /\ ValueFrames
  BY DEF DominanceInv
<1>2. /\ WaitingEmpty' /\ UsesBehind' /\ Expands(currentFunction, Created)
  BY <1>1, ProceedsUses
<1>3. ValueFrames'
  BY <1>1, FramesValued
<1>4. InHand'
  BY <1>1, StatementHand
<1>5. QED
  BY <1>2, <1>3, <1>4 DEF Expands

\* The opening of a function goes on, or is over.
LEMMA OpeningThen ==
    ASSUME Opening, InFunction, NEW F, F = currentFunction, currentFunction' = F,
           layout'[F] = layout[F], BeforeStatements' => BeforeStatements,
           NEW N, N = Len(work'),
           N >= 3 => (work'[2].at = "params" <=> work'[3].node.node = "param"),
           N >= 4 => (Top'.node.node = "var_declaration" <=> BeforeStatements')
    PROVE  Opening'
<1>1. BeforeStatements' => Len(layout'[currentFunction']) = 1
  BY DEF Opening
<1>2. QED
  BY <1>1 DEF Opening

\* Slots are allocated before anything opens a block.
LEMMA SlotPlace ==
    ASSUME BuilderInv, DeclarationInv, Opening, VisitLocalVarDeclaration \/ VisitParam
    PROVE  /\ InFunction /\ work # <<>> /\ BeforeStatements
           /\ VisitLocalVarDeclaration => Len(work) = 4
           /\ VisitParam => Len(work) = 3
           /\ ip = layout[currentFunction][1] /\ Len(scope) >= 2
           /\ Top.node.node \notin OperandKinds
<1>1. work # <<>>
  BY DEF VisitLocalVarDeclaration, VisitParam, Running
<1>4. /\ InFunction /\ BeforeStatements
      /\ VisitLocalVarDeclaration => Len(work) = 4
      /\ VisitParam => Len(work) = 3
  <2>1. CASE VisitLocalVarDeclaration
    <3>1. Running("var_declaration", "visit") /\ Top.node.node = "var_declaration" /\ ~InGlobal(scope)
      BY <2>1 DEF VisitLocalVarDeclaration, Running
    <3>2. InFunction /\ Len(work) >= 3
      BY <3>1, ScopesTellFunctions
    <3>3. Len(work) = 4
      <4>1. Visited("var_declaration") # {}
        BY <1>1, <3>1 DEF Visited
      <4>2. QED
        BY <3>2, <4>1 DEF DeclarationInv, Depths
    <3>4. BeforeStatements
      BY <3>1, <3>2, <3>3 DEF Opening
    <3>5. QED
      BY <3>1, <3>2, <3>3, <3>4 DEF VisitParam, Running
  <2>2. CASE VisitParam
    <3>1. Top.node.node = "param"
      BY <2>2 DEF VisitParam, Running
    <3>2. Len(work) = 3
      <4>1. Visited("param") # {}
        BY <1>1, <3>1 DEF Visited
      <4>2. QED
        BY <4>1 DEF DeclarationInv, Depths
    <3>3. InFunction /\ Top = work[3]
      <4>1. Len(work) >= 3
        BY <3>2
      <4>2. QED
        BY <3>2, <4>1, WorkFacts
    <3>4. BeforeStatements
      BY <3>1, <3>2, <3>3 DEF Opening, BeforeStatements
    <3>5. QED
      BY <3>1, <3>2, <3>3, <3>4 DEF VisitLocalVarDeclaration, Running
  <2>3. QED
    BY <2>1, <2>2
<1>5. ip = layout[currentFunction][1]
  <2>1. /\ currentFunction = Len(layout) /\ layout[Len(layout)] # <<>>
        /\ ip = Last(layout[Len(layout)]) /\ Len(layout) \in DOMAIN layout
    BY <1>4, CodeFacts
  <2>2. IsSeq(layout[Len(layout)])
    BY <2>1 DEF BuilderInv, Shape
  <2>3. Len(layout[Len(layout)]) = 1
    BY <1>4, <2>1 DEF Opening
  <2>4. Last(layout[Len(layout)]) = layout[Len(layout)][1]
    BY <2>1, <2>2, <2>3, LastInRange
  <2>5. QED
    BY <2>1, <2>4
<1>6. Len(scope) >= 2
  <2>1. Len(scope) = 2 \/ Len(scope) = 3
    BY <1>4, ScopeCount
  <2>2. QED
    BY <2>1
<1>7. Top.node.node \notin OperandKinds
  <2>1. Top.node.node \in {"var_declaration", "param"}
    BY DEF VisitLocalVarDeclaration, VisitParam, Running
  <2>2. QED
    BY <2>1 DEF OperandKinds, Factors, Expressions
<1>8. QED
  BY <1>1, <1>4, <1>5, <1>6, <1>7

\* What the declaration of a variable or a parameter appends, and the slot.
LEMMA SlotCode ==
    ASSUME BuilderInv, ValueFrames, InFunction, VisitLocalVarDeclaration \/ VisitParam
    PROVE  \E ins : /\ IsSeq(ins) /\ Emit(ins) /\ Feeds(ins)
                    /\ \E name, val : scope' = Push(scope, name, val) /\ val.ref \in {ip} \X Nat
<1>0. \A x : Here(<<x>>).ref \in {ip} \X Nat
  <2>1. IsSeq(blocks[ip])
    BY CodeFacts
  <2>2. Len(blocks[ip]) + 1 \in Nat
    BY <2>1, SeqFacts
  <2>3. ASSUME NEW x PROVE Here(<<x>>).ref \in {ip} \X Nat
    <3>1. PICK s : s = <<x>>
      OBVIOUS
    <3>2. Here(s).ref = <<ip, Len(blocks[ip]) + Len(s)>>
      BY DEF Here, Value
    <3>3. Len(s) = 1
      BY <3>1, ShortSeqs
    <3>4. PICK a : a = Len(blocks[ip]) + 1
      OBVIOUS
    <3>5. Here(s).ref = <<ip, a>> /\ a \in Nat
      BY <2>2, <3>2, <3>3, <3>4
    <3>6. QED
      BY <3>1, <3>5
  <2>4. QED
    BY <2>3
<1>1. Alloca("i32*").args = <<>> /\ Alloca("i32**").args = <<>>
      /\ \A n : AllocaArray(n).args = <<Const(n)>>
  BY DEF Alloca, AllocaArray, Instr
<1>2. \A n : FitAll(<<Const(n)>>, 0)
  <2>1. \A n : Const(n).k # "inst"
    BY DEF Const, Value
  <2>2. QED
    BY <2>1, FitsFacts, FitAllShort
<1>3. CASE VisitLocalVarDeclaration
  <2> DEFINE x == IF Top.node.num = Nullptr THEN Alloca("i32*") ELSE AllocaArray(Top.node.num.value)
  <2>1. Emit(<<x>>) /\ scope' = Push(scope, Top.node.id, Here(<<x>>))
    BY <1>3 DEF VisitLocalVarDeclaration
  <2>2. FitAll(x.args, 0)
    BY <1>1, <1>2, FitAllShort
  <2> HIDE DEF x
  <2>3. IsSeq(<<x>>) /\ Feeds(<<x>>)
    BY <2>2, FeedsShort, ShortSeqs
  <2>4. QED
    BY <1>0, <2>1, <2>3
<1>4. CASE VisitParam
  <2> DEFINE x == Alloca(IF Top.node.isarray THEN "i32**" ELSE "i32*")
  <2>1. PICK y : y = Store(currentParameter, Here(<<x>>))
    OBVIOUS
  <2>2. Emit(Append(<<x>>, y)) /\ scope' = Push(scope, Top.node.id, Here(<<x>>))
    BY <1>4, <2>1 DEF VisitParam
  <2>3. FitAll(x.args, 0)
    BY <1>1, FitAllShort
  <2>4. y.args = <<currentParameter, Here(<<x>>)>>
    BY <2>1 DEF Store, Instr
  <2> HIDE DEF x
  <2>5. PICK s : s = <<x>>
    OBVIOUS
  <2>6. IsSeq(s) /\ Feeds(s) /\ Len(s) = 1 /\ s # <<>>
    BY <2>3, <2>5, FeedsShort, ShortSeqs
  <2>7. Fits(Here(s), Len(s))
    BY <2>6, HereFits
  <2>8. Fits(currentParameter, Len(s))
    BY FitsFacts DEF ValueFrames
  <2>9. FitAll(y.args, Len(s))
    BY <2>4, <2>5, <2>7, <2>8, FitAllShort
  <2>10. IsSeq(Append(s, y)) /\ Feeds(Append(s, y))
    BY <2>6, <2>9, FeedsAppend
  <2>11. QED
    BY <1>0, <2>2, <2>5, <2>10
<1>5. QED
  BY <1>3, <1>4

\* The declaration of a variable or a parameter.
LEMMA SlotDominates ==
    ASSUME BuilderInv, BuilderInv', PlacementInv, DeclarationInv, DominanceInv,
           VisitLocalVarDeclaration \/ VisitParam
    PROVE  DominanceInv'
<1>1. /\ ValueFrames /\ Opening /\ SlotsInEntry
  BY DEF DominanceInv
<1>2. /\ InFunction /\ work # <<>> /\ BeforeStatements /\ Len(work) \in {3, 4}
      /\ ip = layout[currentFunction][1] /\ Len(scope) >= 2
      /\ Top.node.node \notin OperandKinds
  BY <1>1, SlotPlace
<1>3. PICK F, e, N : F = currentFunction /\ e = layout[currentFunction][1] /\ N = Len(work')
  OBVIOUS
<1>4. PICK ins : /\ IsSeq(ins) /\ Emit(ins) /\ Feeds(ins)
                 /\ \E name, val : scope' = Push(scope, name, val) /\ val.ref \in {ip} \X Nat
  BY <1>1, <1>2, SlotCode
<1>5. blocks'[ip] = blocks[ip] \o ins /\ ip' = ip /\ Written(0, ins, <<>>)
  BY <1>2, <1>4, EmittedThere
<1>6. layout'[F] = layout[F]
  <2>1. F = Len(layout) /\ F \in DOMAIN layout
    BY <1>2, <1>3, CodeFacts
  <2>2. IsSeq(layout[F])
    BY <2>1 DEF BuilderInv, Shape
  <2>3. layout'[F] = layout[F] \o <<>>
    BY <1>5, <2>1 DEF Written
  <2>4. QED
    BY <2>2, <2>3, ConcatEmpty
<1>7. Return /\ currentFunction' = F /\ currentParameter' = currentParameter
      /\ currentPointer' = currentPointer
  BY <1>3 DEF VisitLocalVarDeclaration, VisitParam, current, lastExpression
<1>8. LastValues'
  <2>1. currentExpression' = currentExpression \/ \E v : currentExpression' = Returning(v)
    BY DEF VisitLocalVarDeclaration, VisitParam, DeclareSize, lastExpression
  <2>2. IsSeq(currentExpression'.args) /\ currentExpression'.args # <<>>
    BY <1>1, <2>1, ValueArgs DEF ValueFrames
  <2>3. QED
    BY <1>1, <1>7, <2>2 DEF ValueFrames, LastValues
<1>9. Moves(Top, {})
  BY <1>1, <1>2, <1>7, ReturnMoves
<1>10. WaitingEmpty' /\ UsesBehind' /\ InHand' /\ ValueFrames'
  <2>1. Proceeds
    BY EmitsProceeds
  <2>2. /\ currentFunction' = currentFunction \/ (currentFunction' = 0 /\ Pending' = {})
        /\ IsSeq(ins) /\ Feeds(ins) /\ blocks'[ip] = blocks[ip] \o ins
        /\ Top.node.node \notin OperandKinds
    BY <1>2, <1>3, <1>4, <1>5, <1>7
  <2>3. QED
    BY <1>8, <1>9, <2>1, <2>2, UsesOn
<1>11. Opening'
  <2>1. /\ N \in {2, 3} /\ work'[2] = work[2] /\ (N >= 3 => Len(work) = 4 /\ work'[3] = work[3])
    <3>1. PICK W : W = Len(work)
      OBVIOUS
    <3>2. W \in {3, 4} /\ N = W - 1 /\ \A d \in 1..W - 1 : work'[d] = work[d]
      BY <1>2, <1>3, <1>7, <3>1, OuterFacts DEF Return
    <3>3. 2 \in 1..W - 1 /\ (N >= 3 => W = 4 /\ 3 \in 1..W - 1)
      BY <3>2
    <3>4. QED
      BY <3>1, <3>2, <3>3
  <2>2. N >= 3 => (work'[2].at = "params" <=> work'[3].node.node = "param")
    <3>1. CASE N >= 3
      <4>1. Len(work) >= 3
        BY <2>1, <3>1
      <4>2. QED
        BY <1>1, <1>2, <2>1, <3>1, <4>1 DEF Opening
    <3>2. QED
      BY <3>1
  <2>3. ~(N >= 4)
    BY <2>1
  <2>4. QED
    BY <1>1, <1>2, <1>3, <1>6, <1>7, <2>2, <2>3, OpeningThen
<1>12. SlotsInEntry'
  <2>1. layout'[currentFunction'][1] = e
    BY <1>3, <1>6, <1>7
  <2>2. \E name, val : /\ scope' = Push(scope, name, val) /\ Len(scope) >= 2
                       /\ val.ref \in {e} \X Nat
    BY <1>2, <1>3, <1>4
  <2>3. QED
    BY <1>1, <1>3, <2>1, <2>2, SlotsKept
<1>13. QED
  BY <1>10, <1>11, <1>12 DEF DominanceInv

\* The body of a function, from one item to the next.
LEMMA BodyMoves ==
    ASSUME BuilderInv, ValueFrames, Flat, VisitCompoundStmt \/ CompoundItem \/ CompoundEnd
    PROVE  \E rest, kinds : Moves(rest, kinds)
<1>1. PICK at : Running("compound_stmt", at)
  BY DEF VisitCompoundStmt, CompoundItem, CompoundEnd
<1>2. /\ work # <<>> /\ Top.node.node = "compound_stmt" /\ Top.i \in Nat
      /\ DOMAIN Top = {"at", "node", "i", "vals", "todo", "bb_condition", "will_enter_scope"}
  BY <1>1, CompoundFacts
<1>3. Top.node.node \notin OperandKinds
  BY <1>2 DEF OperandKinds, Factors, Expressions
<1>4. PICK kinds : kinds = Statements \cup {"var_declaration"}
  OBVIOUS
<1>5. "items" \notin ValuePlaces
  BY KindsApart
<1>6. \E rest : /\ rest.node = Top.node /\ rest.vals = Top.vals /\ rest.at = "items"
                /\ \/ Return
                   \/ work' = Append(Callers, rest)
                   \/ \E child : child.node \in kinds /\ work' = Callers \o <<rest, Frame(child)>>
  <2>1. CASE VisitCompoundStmt
    <3> DEFINE rest == [Top EXCEPT !.at = "items", !.will_enter_scope = isFunctionTopCompoundStatement]
    <3>1. work' = Append(Callers, rest)
      BY <2>1 DEF VisitCompoundStmt
    <3>2. rest.node = Top.node /\ rest.vals = Top.vals /\ rest.at = "items"
      BY <1>2
    <3> HIDE DEF rest
    <3>3. QED
      BY <3>1, <3>2
  <2>2. CASE CompoundItem
    <3> DEFINE rest == [Top EXCEPT !.i = @ + 1]
    <3>1. \E child : Visit(child, {"var_declaration"}, rest) \/ Visit(child, Statements, rest)
      BY <2>2 DEF CompoundItem
    <3>2. Top.at = "items"
      BY <2>2 DEF CompoundItem, Running
    <3>3. rest.node = Top.node /\ rest.vals = Top.vals /\ rest.at = "items"
      BY <1>2, <3>2
    <3> HIDE DEF rest
    <3>4. \E child : child.node \in kinds /\ work' = Callers \o <<rest, Frame(child)>>
      BY <3>1, <1>4 DEF Visit
    <3>5. QED
      BY <3>3, <3>4
  <2>3. CASE CompoundEnd
    BY <2>3 DEF CompoundEnd, Running
  <2>4. QED
    BY <2>1, <2>2, <2>3
<1>7. PICK rest : /\ rest.node = Top.node /\ rest.vals = Top.vals /\ rest.at = "items"
                  /\ \/ Return
                     \/ work' = Append(Callers, rest)
                     \/ \E child : child.node \in kinds /\ work' = Callers \o <<rest, Frame(child)>>
  BY <1>6
<1>8. Moves(rest, kinds)
  BY <1>2, <1>3, <1>5, <1>7, StatementMoves
<1>9. QED
  BY <1>8

LEMMA BodyOpens ==
    ASSUME BuilderInv, DeclarationInv, Opening, Flat, Len(work) = 3,
           VisitCompoundStmt \/ CompoundItem \/ CompoundEnd
    PROVE  Opening'
<1>1. PICK at : Running("compound_stmt", at)
  BY DEF VisitCompoundStmt, CompoundItem, CompoundEnd
<1>2. /\ work # <<>> /\ Top.node.node = "compound_stmt" /\ Top.i \in Nat /\ InFunction
      /\ Top = work[3] /\ IsSeq(Top.node.local_declarations)
      /\ DOMAIN Top = {"at", "node", "i", "vals", "todo", "bb_condition", "will_enter_scope"}
  BY <1>1, CompoundFacts
<1>3. PICK F, N, D, i, u : /\ F = currentFunction /\ N = Len(work') /\ i = Top.i /\ u = work'
                           /\ D = Len(Top.node.local_declarations)
  OBVIOUS
<1>4. D \in Nat /\ i \in Nat
  BY <1>2, <1>3, SeqFacts
<1>5. work[2].at # "params"
  BY <1>2 DEF Opening
<1>6. i <= D => BeforeStatements
  BY <1>2, <1>3 DEF BeforeStatements
<1>7. currentFunction' = F /\ layout'[F] = layout[F]
  BY <1>3 DEF VisitCompoundStmt, CompoundItem, CompoundEnd, current, code
<1>8. CASE VisitCompoundStmt
  <2>1. PICK rest : rest = [Top EXCEPT !.at = "items", !.will_enter_scope = isFunctionTopCompoundStatement]
    OBVIOUS
  <2>2. work' = Append(Callers, rest)
    BY <1>8, <2>1 DEF VisitCompoundStmt
  <2>3. rest.node = Top.node
    BY <1>2, <2>1
  <2>4. N = 3 /\ work'[2] = work[2] /\ work'[3] = rest
    <3>1. Len(work') = 3 /\ work'[3] = rest /\ \A d \in 1..3 - 1 : work'[d] = work[d]
      BY <1>2, <2>2, FollowingFrames
    <3>2. 2 \in 1..3 - 1
      OBVIOUS
    <3>3. QED
      BY <1>3, <3>1, <3>2
  <2>5. i = 0
    <3>1. 3 \in DOMAIN work
      BY <1>2, OuterFacts
    <3>2. Top.at = "visit"
      BY <1>8 DEF VisitCompoundStmt, Running
    <3>3. QED
      BY <1>2, <1>3, <3>1, <3>2 DEF DeclarationInv, Unstarted
  <2>6. BeforeStatements
    BY <1>4, <1>6, <2>5
  <2>7. ~(work'[2].at = "params") /\ ~(work'[3].node.node = "param") /\ ~(N >= 4)
    BY <1>2, <1>5, <2>3, <2>4
  <2>8. QED
    BY <1>2, <1>3, <1>7, <2>6, <2>7, OpeningThen
<1>9. CASE CompoundItem
  <2>1. PICK rest : rest = [Top EXCEPT !.i = @ + 1]
    OBVIOUS
  <2>2. PICK child : /\ work' = Callers \o <<rest, Frame(child)>>
                     /\ \/ i < D /\ child.node = "var_declaration"
                        \/ i >= D /\ child.node \in Statements
    <3>1. \E child :
             \/ i < D /\ Visit(child, {"var_declaration"}, rest)
             \/ i \in D..(D + Len(Top.node.statement_list) - 1) /\ Visit(child, Statements, rest)
      BY <1>3, <1>9, <2>1 DEF CompoundItem
    <3>2. \A n : i \in D..n => i >= D
      BY <1>4
    <3>3. QED
      BY <3>1, <3>2 DEF Visit
  <2>3. rest.node = Top.node /\ rest.i = i + 1
    BY <1>2, <1>3, <2>1
  <2>4. N = 4 /\ work'[2] = work[2] /\ work'[3] = rest /\ work'[4] = Frame(child) /\ IsSeq(work')
    <3>1. /\ IsSeq(work') /\ Len(work') = 3 + 1 /\ work'[3] = rest /\ work'[3 + 1] = Frame(child)
          /\ \A d \in 1..3 - 1 : work'[d] = work[d]
      BY <1>2, <2>2, FollowingFrames
    <3>2. 2 \in 1..3 - 1 /\ 3 + 1 = 4
      OBVIOUS
    <3>3. QED
      BY <1>3, <3>1, <3>2
  <2>5. Top'.node.node = child.node
    <3>1. u # <<>> /\ IsSeq(u) /\ Len(u) = 4
      <4>1. IsSeq(u) /\ Len(u) = 4
        BY <1>3, <2>4
      <4>2. Len(<<>>) = 0
        BY ShortSeqs
      <4>3. QED
        BY <4>1, <4>2
    <3>2. Last(u) = u[4]
      BY <3>1, LastInRange
    <3>3. Frame(child).node = child
      BY EnteredFrame
    <3>4. QED
      BY <1>3, <2>4, <3>2, <3>3 DEF Top
  <2>6. BeforeStatements' <=> i + 1 <= D
    <3>1. Len(work') >= 3
      BY <1>3, <2>4
    <3>2. /\ work'[2].at # "params" /\ work'[3].node.node = "compound_stmt" /\ work'[3].i = i + 1
          /\ Len(work'[3].node.local_declarations) = D
      BY <1>2, <1>3, <1>5, <2>3, <2>4
    <3>3. QED
      BY <3>1, <3>2 DEF BeforeStatements
  <2>7. BeforeStatements' => BeforeStatements
    BY <1>4, <1>6, <2>6
  <2>8. Top'.node.node = "var_declaration" <=> BeforeStatements'
    <3>1. "var_declaration" \notin Statements
      BY KindsApart
    <3>2. child.node = "var_declaration" <=> i + 1 <= D
      BY <1>4, <2>2, <3>1
    <3>3. QED
      BY <2>5, <2>6, <3>2
  <2>9. ~(work'[2].at = "params") /\ ~(work'[3].node.node = "param")
    BY <1>2, <1>5, <2>3, <2>4
  <2>10. QED
    BY <1>2, <1>3, <1>7, <2>7, <2>8, <2>9, OpeningThen
<1>10. CASE CompoundEnd
  <2>1. Return
    BY <1>10 DEF CompoundEnd
  <2>2. N = 2 /\ work'[2] = work[2]
    <3>1. Len(work') = 3 - 1 /\ \A d \in 1..3 - 1 : work'[d] = work[d]
      BY <1>2, <2>1, FollowingFrames
    <3>2. 2 \in 1..3 - 1 /\ 3 - 1 = 2
      OBVIOUS
    <3>3. QED
      BY <1>3, <3>1, <3>2
  <2>3. ~(Len(work') >= 3) /\ ~(N >= 3) /\ ~(N >= 4)
    BY <1>3, <2>2
  <2>4. ~BeforeStatements'
    BY <1>5, <2>2, <2>3 DEF BeforeStatements
  <2>5. QED
    BY <1>2, <1>3, <1>7, <2>3, <2>4, OpeningThen
<1>11. QED
  BY <1>8, <1>9, <1>10

\* Nothing is appended, and what is open stays open.
LEMMA QuietUses ==
    ASSUME BuilderInv, BuilderInv', PlacementInv, DominanceInv, Proceeds,
           UNCHANGED <<code, currentFunction>>, Top.node.node \notin OperandKinds,
           LastValues', NEW rest, NEW kinds, Moves(rest, kinds)
    PROVE  /\ WaitingEmpty' /\ UsesBehind' /\ InHand' /\ ValueFrames'
           /\ layout'[currentFunction'][1] = layout[currentFunction][1]
<1>1. InFunction
  BY DEF Proceeds
<1>2. PICK ins : IsSeq(ins) /\ blocks'[ip] = blocks[ip] \o ins /\ Feeds(ins)
  BY <1>1, NothingAppended
<1>3. currentFunction' = currentFunction /\ layout' = layout
  BY DEF code
<1>4. WaitingEmpty' /\ UsesBehind' /\ InHand' /\ ValueFrames'
  BY <1>2, <1>3, UsesOn
<1>5. QED
  BY <1>3, <1>4

\* The body of a function.
LEMMA BodyDominates ==
    ASSUME BuilderInv, BuilderInv', PlacementInv, DeclarationInv, DominanceInv, Flat,
           Len(work) = 3, VisitCompoundStmt \/ CompoundItem \/ CompoundEnd
    PROVE  DominanceInv'
<1>1. /\ ValueFrames /\ Opening /\ SlotsInEntry
  BY DEF DominanceInv
<1>2. PICK at : Running("compound_stmt", at)
  BY DEF VisitCompoundStmt, CompoundItem, CompoundEnd
<1>3. work # <<>> /\ Top.node.node = "compound_stmt" /\ InFunction
  BY <1>2, CompoundFacts
<1>4. Top.node.node \notin OperandKinds
  BY <1>3 DEF OperandKinds, Factors, Expressions
<1>5. UNCHANGED <<code, currentFunction>> /\ UNCHANGED lastExpression
      /\ currentParameter' = currentParameter
  BY DEF VisitCompoundStmt, CompoundItem, CompoundEnd, current
<1>6. LastValues'
  BY <1>1, <1>5, LastValuesKept
<1>7. PICK rest, kinds : Moves(rest, kinds)
  BY <1>1, BodyMoves
<1>8. Proceeds
  BY WalkProceeds
<1>9. /\ WaitingEmpty' /\ UsesBehind' /\ InHand' /\ ValueFrames'
      /\ layout'[currentFunction'][1] = layout[currentFunction][1]
  BY <1>4, <1>5, <1>6, <1>7, <1>8, QuietUses
<1>10. Opening'
  BY <1>1, BodyOpens
<1>11. SlotsInEntry'
  <2>1. PICK e : e = layout[currentFunction][1]
    OBVIOUS
  <2>2. layout'[currentFunction'][1] = e
    BY <1>9, <2>1
  <2>3. Len(scope) >= 2
    <3>1. Len(scope) = 2 \/ Len(scope) = 3
      BY <1>3, ScopeCount
    <3>2. QED
      BY <3>1
  <2>4. scope' = scope \/ scope' = Enter(scope) \/ scope' = Exit(scope)
    BY DEF VisitCompoundStmt, CompoundItem, CompoundEnd
  <2>5. QED
    BY <1>1, <2>1, <2>2, <2>3, <2>4, SlotsKept
<1>12. QED
  BY <1>9, <1>10, <1>11 DEF DominanceInv

-----------------------------------------------------------------------------
(* Functions.                                                              *)

\* A function visits its parameters, and then its body.
LEMMA ParametersDominate ==
    ASSUME BuilderInv, BuilderInv', PlacementInv, DominanceInv, FunParam \/ FunBody
    PROVE  DominanceInv'
<1>1. /\ ValueFrames /\ Opening /\ SlotsInEntry
  BY DEF DominanceInv
<1>2. Running("fun_declaration", "params") /\ "params" # "visit"
  BY DEF FunParam, FunBody
<1>3. /\ InFunction /\ Len(work) = 2 /\ work # <<>> /\ Top.at = "params"
      /\ Top.node.node = "fun_declaration"
      /\ DOMAIN Top = {"at", "node", "i", "vals", "todo", "bb_condition", "will_enter_scope"}
  BY <1>2, FunctionFacts, OuterFacts DEF Running
<1>4. Top = work[2]
  BY <1>3, OuterFacts
<1>5. Top.node.node \notin OperandKinds
  BY <1>3 DEF OperandKinds, Factors, Expressions
<1>6. /\ UNCHANGED <<code, currentFunction>> /\ UNCHANGED scope /\ UNCHANGED lastExpression
  BY DEF FunParam, FunBody
<1>7. LastValues'
  <2>1. currentParameter'.k = "arg" \/ currentParameter' = currentParameter
    BY DEF FunParam, FunBody, Value
  <2>2. QED
    BY <1>1, <1>6, <2>1 DEF ValueFrames, LastValues, lastExpression
<1>8. PICK rest, child : /\ work' = Callers \o <<rest, Frame(child)>>
                         /\ rest.node = Top.node /\ rest.vals = Top.vals
                         /\ \/ rest.at = "params" /\ child.node = "param"
                            \/ rest.at = "end" /\ child.node = "compound_stmt"
  <2>1. CASE FunParam
    <3> DEFINE r == [Top EXCEPT !.i = @ + 1]
    <3>1. PICK c : Visit(c, {"param"}, r)
      BY <2>1 DEF FunParam
    <3>2. r.node = Top.node /\ r.vals = Top.vals /\ r.at = "params"
      BY <1>3
    <3> HIDE DEF r
    <3>3. QED
      BY <3>1, <3>2 DEF Visit
  <2>2. CASE FunBody
    <3> DEFINE r == [Top EXCEPT !.at = "end"]
    <3>1. PICK c : Visit(c, {"compound_stmt"}, r)
      BY <2>2 DEF FunBody
    <3>2. r.node = Top.node /\ r.vals = Top.vals /\ r.at = "end"
      BY <1>3
    <3> HIDE DEF r
    <3>3. QED
      BY <3>1, <3>2 DEF Visit
  <2>3. QED
    BY <2>1, <2>2
<1>9. PICK kinds : kinds = {"param", "compound_stmt"}
  OBVIOUS
<1>10. Moves(rest, kinds)
  <2>1. rest.at \notin ValuePlaces /\ rest.at \notin {"index", "right", "var"}
    BY <1>8 DEF ValuePlaces
  <2>2. \E c : c.node \in kinds /\ work' = Callers \o <<rest, Frame(c)>>
    BY <1>8, <1>9
  <2>3. QED
    BY <1>1, <1>3, <1>5, <1>8, <2>1, <2>2, StatementMoves
<1>11. Proceeds
  BY WalkProceeds
<1>12. /\ WaitingEmpty' /\ UsesBehind' /\ InHand' /\ ValueFrames'
       /\ layout'[currentFunction'][1] = layout[currentFunction][1]
  BY <1>5, <1>6, <1>7, <1>10, <1>11, QuietUses
<1>13. Opening'
  <2>1. PICK F, N : F = currentFunction /\ N = Len(work')
    OBVIOUS
  <2>2. N = 3 /\ work'[2] = rest /\ work'[3] = Frame(child)
    <3>1. Len(work') = 2 + 1 /\ work'[2] = rest /\ work'[2 + 1] = Frame(child)
      BY <1>3, <1>8, FollowingFrames
    <3>2. QED
      BY <2>1, <3>1
  <2>3. BeforeStatements
    BY <1>3, <1>4 DEF BeforeStatements
  <2>4. Frame(child).node = child
    BY EnteredFrame
  <2>5. work'[2].at = "params" <=> work'[3].node.node = "param"
    BY <1>8, <2>2, <2>4
  <2>6. currentFunction' = F /\ layout'[F] = layout[F]
    BY <1>6, <2>1 DEF code
  <2>7. ~(N >= 4)
    BY <2>2
  <2>8. QED
    BY <1>1, <1>3, <2>1, <2>3, <2>5, <2>6, <2>7, OpeningThen
<1>14. SlotsInEntry'
  <2>1. PICK e : e = layout[currentFunction][1]
    OBVIOUS
  <2>2. layout'[currentFunction'][1] = e /\ scope' = scope
    BY <1>6, <1>12, <2>1
  <2>3. QED
    BY <1>1, <2>1, <2>2, SlotsKept
<1>15. QED
  BY <1>12, <1>13, <1>14 DEF DominanceInv

\* A function ends.
LEMMA FunEndDominates ==
    ASSUME BuilderInv, BuilderInv', PlacementInv, DominanceInv, FunEnd
    PROVE  DominanceInv'
<1>1. /\ ValueFrames /\ Opening /\ SlotsInEntry
  BY DEF DominanceInv
<1>2. Running("fun_declaration", "end") /\ "end" # "visit"
  BY DEF FunEnd
<1>3. /\ InFunction /\ Len(work) = 2 /\ work # <<>> /\ Top.node.node = "fun_declaration"
  BY <1>2, FunctionFacts DEF Running
<1>4. Top.node.node \notin OperandKinds
  BY <1>3 DEF OperandKinds, Factors, Expressions
<1>5. Return /\ UNCHANGED lastExpression /\ currentParameter' = currentParameter
  BY DEF FunEnd
<1>6. Pending' = {} /\ currentFunction' = 0
  BY FunEndHoldsNothing
<1>7. PICK ins : IsSeq(ins) /\ Emit(ins) /\ Feeds(ins)
  <2>1. Ret(Const(0)).args = <<Const(0)>> /\ RetVoid.args = <<>>
    BY DEF Ret, RetVoid, Branching
  <2>2. Const(0).k # "inst"
    BY DEF Const, Value
  <2>3. FitAll(<<Const(0)>>, 0)
    BY <2>2, FitsFacts, FitAllShort
  <2>4. FitAll(Ret(Const(0)).args, 0) /\ FitAll(RetVoid.args, 0)
    BY <2>1, <2>3, FitAllShort
  <2>5. PICK x, y : x = Ret(Const(0)) /\ y = RetVoid
    OBVIOUS
  <2>6. Emit(<<>>) \/ Emit(<<x>>) \/ Emit(<<y>>)
    BY <2>5 DEF FunEnd
  <2>7. Feeds(<<>>) /\ Feeds(<<x>>) /\ Feeds(<<y>>)
    BY <2>4, <2>5, FeedsShort
  <2>8. QED
    BY <2>6, <2>7, ShortSeqs
<1>8. blocks'[ip] = blocks[ip] \o ins
  BY <1>3, <1>7, EmittedThere
<1>9. LastValues'
  BY <1>1, <1>5, LastValuesKept
<1>10. Moves(Top, {})
  BY <1>1, <1>3, <1>5, ReturnMoves
<1>11. WaitingEmpty' /\ UsesBehind' /\ InHand' /\ ValueFrames'
  <2>1. Proceeds
    BY FunEndProceeds
  <2>2. QED
    BY <1>4, <1>6, <1>7, <1>8, <1>9, <1>10, <2>1, UsesOn
<1>12. ~InFunction'
  <2>1. Len(work') = 2 - 1
    BY <1>3, <1>5, FollowingFrames
  <2>2. ~(Len(work') >= 2)
    BY <2>1
  <2>3. QED
    BY <2>2 DEF InFunction
<1>13. Opening'
  BY <1>12 DEF Opening
<1>14. SlotsInEntry'
  <2>1. Len(scope') = 1
    BY <1>12 DEF BuilderInv, Scoping
  <2>2. QED
    BY <2>1, SlotsOutside
<1>15. QED
  BY <1>11, <1>13, <1>14 DEF DominanceInv

\* What code there is keeps its definitions where they are, and uses nothing new.
LEMMA OldUses ==
    ASSUME UsesBehind, NEW f \in DOMAIN layout, Expands(f, {}),
           Inserted(f)' = Inserted(f), \A b \in Inserted(f) : blocks'[b] = blocks[b],
           NEW p \in InstructionsOf(f)', NEW v \in Range(InstrAt(p)'.args)
    PROVE  Usable(v, f, p)'
<1>1. p[1] \in Inserted(f) /\ p[2] \in DOMAIN blocks[p[1]] /\ p = <<p[1], p[2]>>
      /\ blocks'[p[1]] = blocks[p[1]]
  BY InstructionsThen
<1>2. p \in InstructionsOf(f)
  BY <1>1, InstructionsFacts
<1>3. InstrAt(p)' = InstrAt(p)
  BY <1>1 DEF InstrAt
<1>4. Usable(v, f, p)
  BY <1>2, <1>3 DEF UsesBehind
<1>5. QED
  BY <1>4, UsableKept

\* A block that no branch may be added to keeps what it leads to.
LEMMA OldTargets == \A b : blocks'[b] = blocks[b] => Targets(b)' = Targets(b)
  BY DEF Targets

\* A function begins.
LEMMA FunctionDominates ==
    ASSUME BuilderInv, BuilderInv', PlacementInv, DominanceInv, VisitFunDeclaration
    PROVE  DominanceInv'
<1>1. /\ UsesBehind /\ ValueFrames
  BY DEF DominanceInv
<1>2. PICK F, n : F = Len(layout) /\ n = Len(blocks)
  OBVIOUS
<1>3. /\ F \in Nat /\ n \in Nat /\ DOMAIN layout = 1..F /\ currentFunction = 0
      /\ currentFunction' = F + 1 /\ DOMAIN layout' = 1..F + 1
      /\ layout'[F + 1] = <<n + 1>> /\ Range(layout'[F + 1]) = {n + 1}
      /\ blocks'[n + 1] = <<>> /\ \A b \in 1..n : blocks'[b] = blocks[b]
      /\ \A f \in 1..F : /\ layout'[f] = layout[f] /\ Inserted(f)' = Inserted(f)
                         /\ Inserted(f) \subseteq 1..n
      /\ Pending = {} /\ Pending' = {} /\ work # <<>> /\ Top.node.node = "fun_declaration"
  BY <1>2, DeclarationFacts
<1>4. WaitingEmpty'
  BY <1>3 DEF WaitingEmpty
<1>5. ASSUME NEW f \in DOMAIN layout', NEW p \in InstructionsOf(f)',
             NEW v \in Range(InstrAt(p)'.args)
      PROVE  Usable(v, f, p)'
  <2>1. CASE f \in 1..F
    <3>1. f # currentFunction /\ f # currentFunction'
      <4>1. f # 0 /\ f # F + 1
        BY <2>1, <1>3
      <4>2. QED
        BY <4>1, <1>3
    <3>2. Open(f) = {} /\ Open(f)' = {}
      BY <3>1 DEF Open
    <3>3. /\ layout'[f] = layout[f] /\ Inserted(f)' = Inserted(f)
          /\ \A b \in Inserted(f) : blocks'[b] = blocks[b]
      BY <2>1, <1>3
    <3>4. Expands(f, {})
      BY <3>2, <3>3, OldTargets DEF Expands
    <3>5. QED
      BY <1>1, <1>3, <1>5, <2>1, <3>3, <3>4, OldUses
  <2>2. CASE f = F + 1
    <3>1. p[1] \in Inserted(f)' /\ p[2] \in DOMAIN blocks'[p[1]]
      BY <1>5, InstructionsThen
    <3>2. p[1] = n + 1
      BY <3>1, <2>2, <1>3 DEF Inserted
    <3>3. QED
      BY <3>1, <3>2, <1>3
  <2>3. f \in 1..F \/ f = F + 1
    <3>1. f \in 1..F + 1
      BY <1>3, <1>5
    <3>2. QED
      BY <3>1, <1>3
  <2>4. QED
    BY <2>1, <2>2, <2>3
<1>6. UsesBehind'
  BY <1>5 DEF UsesBehind
<1>7. Top.node.node \notin OperandKinds
  BY <1>3 DEF OperandKinds, Factors, Expressions
<1>8. PICK rest : work' = Append(Callers, rest) /\ rest = [Top EXCEPT !.at = "params"]
  BY DEF VisitFunDeclaration
<1>9. rest.node = Top.node /\ rest.vals = Top.vals /\ rest.at = "params"
  BY <1>3, <1>8, OuterFacts
<1>10. PICK kinds : kinds = {}
  OBVIOUS
<1>11. Moves(rest, kinds)
  <2>1. "params" \notin ValuePlaces
    BY KindsApart
  <2>2. QED
    BY <1>1, <1>3, <1>7, <1>8, <1>9, <1>10, <2>1, StatementMoves
<1>12. LastValues'
  <2>1. UNCHANGED lastExpression /\ currentParameter' = currentParameter
    BY DEF VisitFunDeclaration
  <2>2. QED
    BY <1>1, <2>1, LastValuesKept
<1>13. ValueFrames'
  BY <1>1, <1>11, <1>12, FramesValued
<1>14. InHand'
  BY <1>1, <1>7, <1>11, StatementHand
<1>15. Opening'
  <2>1. Len(work) = 2
    BY <1>3, OuterFacts
  <2>2. Len(work') = 2
    BY <1>3, <1>8, <2>1, FollowingFrames
  <2>3. ~(Len(work') >= 3) /\ ~(Len(work') >= 4)
    BY <2>2
  <2>4. Len(layout'[currentFunction']) = 1
    BY <1>3, ShortSeqs
  <2>5. QED
    BY <2>3, <2>4 DEF Opening
<1>16. SlotsInEntry'
  <2>1. PICK name, val : scope' = Enter(Push(scope, name, val))
    BY DEF VisitFunDeclaration
  <2>2. IsSeq(scope) /\ Len(scope) = 1
    <3>1. ~InFunction
      BY <1>2, DeclarationFacts
    <3>2. QED
      BY <3>1, ScopeCount
  <2>3. PICK t : t = Push(scope, name, val)
    OBVIOUS
  <2>4. IsSeq(t) /\ Len(t) = 1
    BY <2>2, <2>3, PushFacts
  <2>5. PICK none : none = [m \in {} |-> {}]
    OBVIOUS
  <2>6. scope' = Append(t, none)
    BY <2>1, <2>3, <2>5 DEF Enter
  <2>7. Len(scope') = 2 /\ scope'[2] = none
    BY <2>4, <2>6, AppendFacts
  <2>8. DOMAIN none = {}
    BY <2>5
  <2>9. \A l \in 2..Len(scope') : DOMAIN scope'[l] = {}
    BY <2>7, <2>8
  <2>10. QED
    BY <2>9 DEF SlotsInEntry
<1>17. QED
  BY <1>4, <1>6, <1>13, <1>14, <1>15, <1>16 DEF DominanceInv

-----------------------------------------------------------------------------
(* Outside functions, and all of it.                                       *)

\* The declarations of the program, and its global variables.
LEMMA OuterDominates ==
    ASSUME BuilderInv, BuilderInv', PlacementInv, DominanceInv,
           VisitProgram \/ VisitGlobalVarDeclaration
    PROVE  DominanceInv'
<1>1. /\ WaitingEmpty /\ UsesBehind /\ ValueFrames
  BY DEF DominanceInv
<1>2. /\ work # <<>> /\ Top.node.node \in {"program", "var_declaration"}
      /\ UNCHANGED <<layout, blocks, ip>>
      /\ currentFunction = 0 /\ currentFunction' = currentFunction /\ ~InFunction'
      /\ Pending' = Pending
  BY OuterStepFacts
<1>3. WaitingEmpty'
  BY <1>1, <1>2 DEF WaitingEmpty
<1>4. \A f \in DOMAIN layout : f # 0
  <2>1. DOMAIN layout = 1..Len(layout) /\ Len(layout) \in Nat
    BY SeqFacts DEF BuilderInv, Shape
  <2>2. QED
    BY <2>1
<1>5. ASSUME NEW f \in DOMAIN layout', NEW p \in InstructionsOf(f)',
             NEW v \in Range(InstrAt(p)'.args)
      PROVE  Usable(v, f, p)'
  <2>1. f \in DOMAIN layout /\ f # currentFunction /\ f # currentFunction'
    BY <1>2, <1>4, <1>5
  <2>2. Open(f) = {} /\ Open(f)' = {}
    BY <2>1 DEF Open
  <2>3. layout'[f] = layout[f] /\ Inserted(f)' = Inserted(f)
    BY <1>2 DEF Inserted
  <2>4. \A b \in Inserted(f) : blocks'[b] = blocks[b]
    BY <1>2
  <2>5. Expands(f, {})
    BY <2>2, <2>3, <2>4, OldTargets DEF Expands
  <2>6. QED
    BY <1>1, <1>5, <2>1, <2>3, <2>4, <2>5, OldUses
<1>6. UsesBehind'
  BY <1>5 DEF UsesBehind
<1>7. Top.node.node \notin OperandKinds
  BY <1>2 DEF OperandKinds, Factors, Expressions
<1>8. \E rest, kinds : Moves(rest, kinds)
  <2>1. CASE Return
    BY <2>1, <1>1, <1>2, ReturnMoves
  <2>2. CASE ~Return
    <3>1. PICK rest : rest = [Top EXCEPT !.i = @ + 1]
      OBVIOUS
    <3>2. PICK child : child.node \in Declarations /\ work' = Callers \o <<rest, Frame(child)>>
      BY <2>2, <3>1 DEF VisitProgram, VisitGlobalVarDeclaration, Visit
    <3>3. Top.at = "visit"
      BY DEF VisitProgram, VisitGlobalVarDeclaration, Running
    <3>4. rest.node = Top.node /\ rest.vals = Top.vals /\ rest.at = "visit"
      BY <1>2, <3>1, <3>3, OuterFacts
    <3>5. "visit" \notin ValuePlaces
      BY KindsApart
    <3>6. Moves(rest, Declarations)
      BY <1>1, <1>2, <1>7, <3>2, <3>4, <3>5, StatementMoves
    <3>7. QED
      BY <3>6
  <2>3. QED
    BY <2>1, <2>2
<1>9. PICK rest, kinds : Moves(rest, kinds)
  BY <1>8
<1>10. LastValues'
  <2>1. /\ currentExpression' = currentExpression \/ \E v : currentExpression' = Returning(v)
        /\ currentPointer' = currentPointer /\ currentParameter' = currentParameter
    BY DEF VisitProgram, VisitGlobalVarDeclaration, DeclareSize, lastExpression, current
  <2>2. IsSeq(currentExpression'.args) /\ currentExpression'.args # <<>>
    BY <1>1, <2>1, ValueArgs DEF ValueFrames
  <2>3. QED
    BY <1>1, <2>1, <2>2 DEF ValueFrames, LastValues
<1>11. ValueFrames'
  BY <1>1, <1>9, <1>10, FramesValued
<1>12. InHand'
  BY <1>1, <1>7, <1>9, StatementHand
<1>13. Opening'
  BY <1>2 DEF Opening
<1>14. SlotsInEntry'
  <2>1. Len(scope') = 1
    BY <1>2 DEF BuilderInv, Scoping
  <2>2. QED
    BY <2>1, SlotsOutside
<1>15. QED
  BY <1>3, <1>6, <1>11, <1>12, <1>13, <1>14 DEF DominanceInv

LEMMA UnchangedDominates == ASSUME DominanceInv, UNCHANGED vars PROVE DominanceInv'
<1>1. UNCHANGED <<work, scope, layout, blocks, ip, currentExpression, currentPointer,
                  currentFunction, currentParameter>>
  BY DEF vars, code, lastExpression, current
<1>2. Pending' = Pending /\ Loops' = Loops /\ \A b : Targets(b)' = Targets(b)
  BY <1>1 DEF Pending, Loops, Targets
<1>3. \A f : Inserted(f)' = Inserted(f) /\ InstructionsOf(f)' = InstructionsOf(f)
  BY <1>1 DEF Inserted, InstructionsOf
<1>4. \A f : Open(f)' = Open(f)
  BY <1>1, <1>2 DEF Open
<1>5. \A S, f, d : Evades(S, f, d)' <=> Evades(S, f, d)
  BY <1>1, <1>2 DEF Evades
<1>6. \A f, d, u : Lasting(f, d, u)' <=> Lasting(f, d, u)
  BY <1>1, <1>3, <1>4, <1>5 DEF Lasting
<1>7. \A v, f, p : Usable(v, f, p)' <=> Usable(v, f, p)
  BY <1>3, <1>6 DEF Usable
<1>8. \A list : Ready(list)' <=> Ready(list)
  BY <1>1, <1>7 DEF Ready
<1>9. WaitingEmpty' /\ UsesBehind'
  BY <1>1, <1>2, <1>3, <1>7 DEF DominanceInv, WaitingEmpty, UsesBehind, InstrAt
<1>10. InHand'
  BY <1>1, <1>8 DEF DominanceInv, InHand, Top, Running
<1>11. ValueFrames'
  BY <1>1 DEF DominanceInv, ValueFrames, FrameValues
<1>12. Opening' /\ SlotsInEntry'
  BY <1>1 DEF DominanceInv, Opening, BeforeStatements, InFunction, Top, SlotsInEntry
<1>13. QED
  BY <1>9, <1>10, <1>11, <1>12 DEF DominanceInv

LEMMA InitDominates == Init => DominanceInv
<1> SUFFICES ASSUME Init PROVE DominanceInv
  OBVIOUS
<1>1. PICK program \in Programs : work = <<Frame(program)>>
  BY DEF Init
<1>2. program.node = "program"
  BY ProgramsAssumption
<1>3. /\ Frame(program).node = program /\ Frame(program).at = "visit"
      /\ Frame(program).vals = <<>> /\ Frame(program).todo = <<>>
      /\ FrameValues(Frame(program)) /\ "visit" \notin ValuePlaces
  BY EnteredFrame DEF Frame
<1>4. /\ DOMAIN work = {1} /\ Len(work) = 1 /\ work[1] = Frame(program) /\ Top = Frame(program)
  <2>1. PICK x : x = Frame(program)
    OBVIOUS
  <2>2. work = <<x>> /\ IsSeq(<<x>>) /\ Len(<<x>>) = 1 /\ <<x>> # <<>>
    BY <1>1, <2>1, ShortSeqs
  <2>3. Last(work) = work[1]
    BY <2>2, LastInRange
  <2>4. QED
    BY <2>1, <2>2, <2>3 DEF Top
<1>5. WaitingEmpty
  <2>1. Pending = {}
    BY <1>3, <1>4, ShortSeqs DEF Pending
  <2>2. QED
    BY <2>1 DEF WaitingEmpty
<1>6. UsesBehind
  <2>1. \A f \in DOMAIN layout : layout[f] = <<>>
    BY DEF Init
  <2>2. \A f \in DOMAIN layout : Inserted(f) = {}
    BY <2>1, ShortSeqs DEF Inserted
  <2>3. QED
    BY <2>2, InstructionsFacts DEF UsesBehind
<1>7. InHand
  <2>1. Range(<<>>) = {}
    BY ShortSeqs
  <2>2. QED
    BY <1>2, <1>3, <1>4, <2>1 DEF InHand, Ready, Running
<1>8. ValueFrames
  <2>1. Returning(NoValue).args = <<NoValue>> /\ NoValue.k # "inst"
    BY ValueArgs DEF NoValue, Value
  <2>2. /\ IsSeq(currentExpression.args) /\ currentExpression.args # <<>>
        /\ IsSeq(currentPointer.args) /\ currentPointer.args # <<>>
        /\ currentParameter.k # "inst"
    BY <2>1, ValueArgs DEF Init
  <2>3. \A d \in 1..Len(work) - 1 : FALSE
    BY <1>4
  <2>4. QED
    BY <1>3, <1>4, <2>2, <2>3 DEF ValueFrames
<1>9. Opening
  BY <1>4 DEF Opening, InFunction
<1>10. SlotsInEntry
  <2>1. Len(scope) = 1
    BY DEF Init
  <2>2. \A l \in 2..Len(scope) : FALSE
    BY <2>1
  <2>3. QED
    BY <2>2 DEF SlotsInEntry
<1>11. QED
  BY <1>5, <1>6, <1>7, <1>8, <1>9, <1>10 DEF DominanceInv

LEMMA DominanceStep ==
    ASSUME BuilderInv, BuilderInv', PlacementInv, NamesInv, DeclarationInv, Flat, DominanceInv,
           [Next]_vars
    PROVE  DominanceInv'
<1>1. CASE VisitProgram \/ VisitGlobalVarDeclaration
  BY <1>1, OuterDominates
<1>2. CASE VisitLocalVarDeclaration \/ VisitParam
  BY <1>2, SlotDominates
<1>3. CASE VisitFunDeclaration
  BY <1>3, FunctionDominates
<1>4. CASE FunParam \/ FunBody
  BY <1>4, ParametersDominate
<1>5. CASE FunEnd
  BY <1>5, FunEndDominates
<1>6. CASE VisitCompoundStmt \/ CompoundItem \/ CompoundEnd
  <2>1. PICK at : Running("compound_stmt", at)
    BY <1>6 DEF VisitCompoundStmt, CompoundItem, CompoundEnd
  <2>2. Len(work) = 3 \/ Len(work) >= 4
    BY <2>1, CompoundFacts
  <2>3. QED
    BY <1>6, <2>2, BodyDominates, NestedDominates
<1>7. CASE VisitExpresionStmt \/ VisitReturnStmt \/ ReturnValue
  BY <1>7, StatementDominates
<1>8. CASE \/ VisitSelectionStmt \/ SelectionCondition \/ SelectionElse \/ SelectionEnd
           \/ VisitIterationStmt \/ IterationCondition \/ IterationEnd
  BY <1>8, BranchingDominates
<1>9. CASE \/ VisitNum \/ VisitVar \/ VisitElement
           \/ VisitAssignExpression \/ AssignExpressionVar \/ VisitOperator
           \/ AssignExpressionValue \/ OperatorLeft \/ OperatorRight
           \/ VisitCall \/ CallArgument
  BY <1>9, ExpressionDominates
<1>10. CASE ElementIndex
  BY <1>10, ElementDominates
<1>11. CASE Idle \/ UNCHANGED vars
  BY <1>11, UnchangedDominates DEF Idle
<1>12. QED
  BY <1>1, <1>2, <1>3, <1>4, <1>5, <1>6, <1>7, <1>8, <1>9, <1>10, <1>11 DEF Next

\* When only the bodies of functions declare variables, every operand that is
\* in the code or in the hands of a visit method can be used where it is:
\* its instruction comes before, in the same block or in one that dominates
\* it and will go on doing so whatever blocks are inserted and branches added
\* later (cminus_builder.cpp:100-152,243-381).
THEOREM DominanceInvariance == Spec /\ []Flat => []DominanceInv
<1>1. Init => DominanceInv
  BY InitDominates
<1>2. BuilderInv /\ BuilderInv' /\ PlacementInv /\ NamesInv /\ DeclarationInv /\ Flat
        /\ DominanceInv /\ [Next]_vars => DominanceInv'
  BY DominanceStep
<1>3. QED
  BY <1>1, <1>2, BuilderInvariance, PlacementInvariance, NamesInvariance,
     DeclarationInvariance, PTL DEF Spec

\* In a finished module of such a program every operand that an instruction
\* computes is an instruction of the same function that dominates the use, as
\* the verifier of LLVM asks (cminus_builder.cpp:100-152,243-381).
THEOREM DefinitionsDominate == Spec /\ []Flat => []DefinitionsDominateUses
<1>1. ASSUME BuilderInv, DominanceInv PROVE DefinitionsDominateUses
  <2>1. SUFFICES ASSUME Finished, NEW f \in DOMAIN layout, NEW p \in InstructionsOf(f),
                        NEW v \in Range(InstrAt(p).args), v.k = "inst"
                 PROVE  v.ref \in InstructionsOf(f) /\ Dominates(f, v.ref, p)
    BY DEF DefinitionsDominateUses
  <2>2. Usable(v, f, p)
    BY <1>1 DEF DominanceInv, UsesBehind
  <2>3. Open(f) = {}
    <3>1. Len(work) = 0
      BY <2>1, ShortSeqs DEF Finished
    <3>2. ~InFunction
      BY <3>1 DEF InFunction
    <3>3. currentFunction = 0
      BY <1>1, <3>2 DEF BuilderInv, Position
    <3>4. DOMAIN layout = 1..Len(layout) /\ Len(layout) \in Nat
      BY <1>1, SeqFacts DEF BuilderInv, Shape
    <3>5. f # 0
      BY <3>4
    <3>6. QED
      BY <3>3, <3>5 DEF Open
  <2>4. CASE v.ref[1] = p[1]
    BY <2>1, <2>2, <2>4 DEF Usable, Dominates
  <2>5. CASE v.ref[1] # p[1]
    <3>1. v.ref \in InstructionsOf(f) /\ Lasting(f, v.ref[1], p[1])
      BY <2>1, <2>2, <2>5 DEF Usable
    <3>2. \E S \in SUBSET Inserted(f) : Evades(S, f, v.ref[1]) /\ p[1] \notin S
      <4>1. CASE v.ref[1] = layout[f][1]
        <5>1. Evades({}, f, v.ref[1])
          BY <4>1 DEF Evades
        <5>2. QED
          BY <5>1
      <4>2. CASE v.ref[1] # layout[f][1]
        BY <2>3, <3>1, <4>2 DEF Lasting
      <4>3. QED
        BY <4>1, <4>2
    <3>3. QED
      BY <2>5, <3>1, <3>2 DEF Dominates
  <2>6. QED
    BY <2>4, <2>5
<1>2. QED
  BY <1>1, BuilderInvariance, DominanceInvariance, PTL

=============================================================================
