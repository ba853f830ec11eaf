---------------------------- MODULE ScopeProofs -----------------------------
(***************************************************************************)
(* Proof that the names CminusBuilder knows follow its walk, for every set *)
(* of programs: outside functions they mean globals and functions of the   *)
(* module, inside one also the slots allocated in it.  With it, proof that *)
(* no element of an array is reached past the check of its index; and that *)
(* uses mean the innermost declaration, in programs that declare nothing   *)
(* in nested blocks.                                                       *)
(***************************************************************************)
EXTENDS BuilderProofs

-----------------------------------------------------------------------------
(* The operations of class Scope.                                          *)

\* Scope::enter adds a scope without names.
LEMMA EnterFacts ==
    ASSUME NEW inner, IsSeq(inner)
    PROVE  /\ IsSeq(Enter(inner)) /\ Len(Enter(inner)) = Len(inner) + 1
           /\ \A l \in 1..Len(inner) : Enter(inner)[l] = inner[l]
           /\ DOMAIN Enter(inner)[Len(inner) + 1] = {}
<1> DEFINE map == [n \in {} |-> {}]
<1>1. DOMAIN map = {}
  OBVIOUS
<1> HIDE DEF map
<1>2. QED
  BY <1>1, AppendFacts DEF Enter, map

\* Scope::push changes the innermost scope, and only by a name it had not.
LEMMA PushedFacts ==
    ASSUME NEW inner, IsSeq(inner), NEW name, NEW val
    PROVE  /\ \A l \in 1..Len(inner) - 1 : Push(inner, name, val)[l] = inner[l]
           /\ inner # <<>> => Push(inner, name, val)[Len(inner)]
                                = InsertOnce(inner[Len(inner)], name, val)
<1> DEFINE map == InsertOnce(inner[Len(inner)], name, val)
<1>1. Push(inner, name, val) = [inner EXCEPT ![Len(inner)] = map]
  BY DEF Push
<1> HIDE DEF map
<1>2. Len(inner) \in Nat /\ DOMAIN inner = 1..Len(inner) /\ (inner # <<>> => Len(inner) >= 1)
  BY SeqFacts
<1>3. QED
  BY <1>1, <1>2 DEF map

\* What std::map::insert leaves.
LEMMA InsertFacts ==
    ASSUME NEW map, NEW name, NEW val
    PROVE  /\ DOMAIN InsertOnce(map, name, val) = DOMAIN map \cup {name}
           /\ \A n \in DOMAIN map : InsertOnce(map, name, val)[n] = map[n]
           /\ name \notin DOMAIN map => InsertOnce(map, name, val)[name] = val
  BY DEF InsertOnce

-----------------------------------------------------------------------------
(* Names in a map.                                                         *)

\* A name stands for what it stood for when functions or globals are added.
LEMMA NamedLonger ==
    ASSUME NEW fs, NEW gs, NEW x, NEW y, IsSeq(fs), IsSeq(gs), NEW val, NEW n, Named(val, n, fs, gs)
    PROVE  Named(val, n, Append(fs, x), gs) /\ Named(val, n, fs, Append(gs, y))
<1>1. /\ DOMAIN fs = 1..Len(fs) /\ DOMAIN gs = 1..Len(gs) /\ Len(fs) \in Nat /\ Len(gs) \in Nat
      /\ DOMAIN Append(fs, x) = 1..Len(fs) + 1 /\ DOMAIN Append(gs, y) = 1..Len(gs) + 1
      /\ \A i \in 1..Len(fs) : Append(fs, x)[i] = fs[i]
      /\ \A i \in 1..Len(gs) : Append(gs, y)[i] = gs[i]
  BY AppendFacts, SeqFacts
<1> DEFINE i == val.ref[1]
           longF == Append(fs, x)
           longG == Append(gs, y)
<1>2. i \in DOMAIN fs => i \in DOMAIN longF /\ longF[i] = fs[i]
  BY <1>1
<1>3. i \in DOMAIN gs => i \in DOMAIN longG /\ longG[i] = gs[i]
  BY <1>1
<1> HIDE DEF longF, longG
<1>4. Named(val, n, longF, gs)
  BY <1>2 DEF Named
<1>5. Named(val, n, fs, longG)
  BY <1>3 DEF Named
<1>6. QED
  BY <1>4, <1>5 DEF longF, longG

\* The ids in a list that one entry is added to.
LEMMA IdsLonger ==
    ASSUME NEW s, IsSeq(s), NEW x
    PROVE  Ids(Append(s, x)) = Ids(s) \cup {x.id}
<1>1. /\ DOMAIN s = 1..Len(s) /\ Len(s) \in Nat /\ DOMAIN Append(s, x) = 1..Len(s) + 1
      /\ \A i \in 1..Len(s) : Append(s, x)[i] = s[i]
      /\ Append(s, x)[Len(s) + 1] = x
  BY AppendFacts, SeqFacts
<1> DEFINE t == Append(s, x)
<1> HIDE DEF t
<1>2. 1..Len(s) + 1 = 1..Len(s) \cup {Len(s) + 1}
  BY <1>1
<1>3. QED
  BY <1>1, <1>2 DEF t, Ids
\* A name that is added, and what is inserted for it.
LEMMA OuterInsert ==
    ASSUME NEW map, NEW fs, NEW gs, NEW fs2, NEW gs2, NEW name, NEW val,
           OuterNames(map, fs, gs),
           Ids(fs2) \cup Ids(gs2)
             = Ids(fs) \cup Ids(gs) \cup {name},
           \A v, n : Named(v, n, fs, gs) => Named(v, n, fs2, gs2),
           Named(val, name, fs2, gs2),
           \A f \in DOMAIN fs : f \in DOMAIN fs2 /\ fs2[f] = fs[f]
    PROVE  OuterNames(InsertOnce(map, name, val), fs2, gs2)
<1> DEFINE new == InsertOnce(map, name, val)
<1>1. /\ DOMAIN new = DOMAIN map \cup {name}
      /\ \A n \in DOMAIN map : new[n] = map[n]
      /\ name \notin DOMAIN map => new[name] = val
  BY InsertFacts
<1> HIDE DEF new
<1>2. DOMAIN new = Ids(fs2) \cup Ids(gs2)
  BY <1>1 DEF OuterNames
<1>3. ASSUME NEW n \in DOMAIN new PROVE Named(new[n], n, fs2, gs2)
  BY <1>1 DEF OuterNames
<1>4. ASSUME NEW f \in DOMAIN Predefined
      PROVE  f \in DOMAIN fs2 /\ fs2[f] = Predefined[f] /\ new[Predefined[f].id] = FunctionValue(f)
  <2>1. /\ f \in DOMAIN fs /\ fs[f] = Predefined[f]
        /\ map[Predefined[f].id] = FunctionValue(f)
    BY DEF OuterNames
  <2>2. Predefined[f].id \in DOMAIN map
    BY <2>1 DEF OuterNames, Ids
  <2>3. QED
    BY <2>1, <2>2, <1>1
<1>5. QED
  BY <1>2, <1>3, <1>4 DEF OuterNames, new

\* A function is created and its name pushed.
LEMMA OuterFunction ==
    ASSUME NEW map, NEW fs, NEW gs, IsSeq(fs), IsSeq(gs), OuterNames(map, fs, gs), NEW x
    PROVE  OuterNames(InsertOnce(map, x.id, FunctionValue(Len(fs) + 1)), Append(fs, x), gs)
<1>1. Ids(Append(fs, x)) = Ids(fs) \cup {x.id}
  BY IdsLonger
<1> DEFINE fs2 == Append(fs, x)
           val == FunctionValue(Len(fs) + 1)
<1>2. \A v, n : Named(v, n, fs, gs) => Named(v, n, fs2, gs)
  BY NamedLonger
<1>3. /\ DOMAIN fs = 1..Len(fs) /\ Len(fs) \in Nat /\ DOMAIN fs2 = 1..Len(fs) + 1
      /\ \A f \in 1..Len(fs) : fs2[f] = fs[f]
      /\ fs2[Len(fs) + 1] = x
  BY AppendFacts, SeqFacts
<1>4. val.k = "fun" /\ val.ref[1] = Len(fs) + 1
  BY DEF FunctionValue, Value
<1> HIDE DEF fs2, val
<1>5. Named(val, x.id, fs2, gs)
  BY <1>3, <1>4 DEF Named
<1>6. \A f \in DOMAIN fs : f \in DOMAIN fs2 /\ fs2[f] = fs[f]
  BY <1>3
<1>7. Ids(fs2) \cup Ids(gs) = Ids(fs) \cup Ids(gs) \cup {x.id}
  BY <1>1 DEF fs2
<1>8. OuterNames(InsertOnce(map, x.id, val), fs2, gs)
  BY <1>2, <1>5, <1>6, <1>7, OuterInsert
<1>9. QED
  BY <1>8 DEF fs2, val

\* A global is created, or one that exists is taken, and its name pushed.
LEMMA OuterGlobal ==
    ASSUME NEW map, NEW fs, NEW gs, IsSeq(fs), IsSeq(gs), OuterNames(map, fs, gs),
           NEW name, NEW gs2, NEW g, NEW ty,
           \/ gs2 = gs /\ g \in DOMAIN gs
           \/ g = Len(gs) + 1 /\ \E x : gs2 = Append(gs, x),
           gs2[g].id = name
    PROVE  OuterNames(InsertOnce(map, name, Value("global", <<g>>, ty)), fs, gs2) /\ IsSeq(gs2)
<1> DEFINE val == Value("global", <<g>>, ty)
<1>1. val.k = "global" /\ val.ref[1] = g
  BY DEF Value
<1> HIDE DEF val
<1>2. g \in DOMAIN gs2 /\ IsSeq(gs2)
  <2>1. CASE gs2 = gs /\ g \in DOMAIN gs
    BY <2>1
  <2>2. ASSUME g = Len(gs) + 1, NEW x, gs2 = Append(gs, x) PROVE g \in DOMAIN gs2 /\ IsSeq(gs2)
    <3>1. IsSeq(gs2) /\ Len(gs2) = Len(gs) + 1 /\ Len(gs) \in Nat
      BY <2>2, AppendFacts, SeqFacts
    <3>2. DOMAIN gs2 = 1..Len(gs) + 1
      BY <3>1, SeqFacts
    <3>3. QED
      BY <3>1, <3>2, <2>2
  <2>3. QED
    BY <2>1, <2>2
<1>3. \A v, n : Named(v, n, fs, gs) => Named(v, n, fs, gs2)
  BY NamedLonger
<1>4. Ids(gs2) = Ids(gs) \cup {name}
  <2>1. CASE gs2 = gs /\ g \in DOMAIN gs
    BY <2>1 DEF Ids
  <2>2. ASSUME g = Len(gs) + 1, NEW x, gs2 = Append(gs, x)
        PROVE  Ids(gs2) = Ids(gs) \cup {name}
    <3>1. gs2[g] = x
      BY <2>2, AppendFacts
    <3>2. QED
      BY <2>2, <3>1, IdsLonger
  <2>3. QED
    BY <2>1, <2>2
<1>5. Named(val, name, fs, gs2)
  BY <1>1, <1>2 DEF Named
<1>6. Ids(fs) \cup Ids(gs2) = Ids(fs) \cup Ids(gs) \cup {name}
  BY <1>4
<1>7. OuterNames(InsertOnce(map, name, val), fs, gs2)
  BY <1>3, <1>5, <1>6, OuterInsert
<1>8. QED
  BY <1>2, <1>7 DEF val

-----------------------------------------------------------------------------
(* Slots.                                                                  *)

\* A slot stays where it is when the code of its function grows.
LEMMA SlotsStay ==
    ASSUME BuilderInv, InFunction, OnlyAtEnd, NEW v, Slot(v, layout[Len(layout)], blocks)
    PROVE  Slot(v, layout'[Len(layout)], blocks')
<1> DEFINE b == v.ref[1]
           j == v.ref[2]
           own == layout[Len(layout)]
           grown == layout'[Len(layout)]
<1>1. /\ IsSeq(own) /\ own # <<>> /\ Range(own) \subseteq DOMAIN blocks
      /\ ip \in DOMAIN blocks /\ \A c \in DOMAIN blocks : IsSeq(blocks[c])
  BY CodeFacts DEF BuilderInv, Shape, Inserted
<1>2. v.k = "inst" /\ b \in Range(own) /\ j \in DOMAIN blocks[b] /\ blocks[b][j].op = "alloca"
  BY DEF Slot
<1>3. PICK placed : IsSeq(placed) /\ grown = own \o placed
  BY DEF OnlyAtEnd
<1>4. PICK ins : IsSeq(ins) /\ blocks'[ip] = blocks[ip] \o ins
  BY DEF OnlyAtEnd
<1>5. \A c \in DOMAIN blocks : c # ip => blocks'[c] = blocks[c]
  BY DEF OnlyAtEnd
<1>6. b \in Range(grown)
  <2>1. Range(own \o placed) = Range(own) \cup Range(placed)
    BY <1>1, <1>3, ConcatFacts
  <2>2. QED
    BY <2>1, <1>2, <1>3
<1> HIDE DEF own, grown
<1>7. j \in DOMAIN blocks'[b] /\ blocks'[b][j] = blocks[b][j]
  <2>1. CASE b # ip
    BY <2>1, <1>1, <1>2, <1>5
  <2>2. CASE b = ip
    <3>1. IsSeq(blocks[ip]) /\ IsSeq(ins)
      BY <1>1, <1>4
    <3>2. /\ Len(blocks[ip]) \in Nat /\ Len(ins) \in Nat /\ DOMAIN blocks[ip] = 1..Len(blocks[ip])
          /\ IsSeq(blocks[ip] \o ins) /\ Len(blocks[ip] \o ins) = Len(blocks[ip]) + Len(ins)
          /\ \A m \in 1..Len(blocks[ip]) : (blocks[ip] \o ins)[m] = blocks[ip][m]
      BY <3>1, SeqFacts, ConcatFacts
    <3>3. DOMAIN (blocks[ip] \o ins) = 1..Len(blocks[ip]) + Len(ins)
      BY <3>2, SeqFacts
    <3>4. QED
      BY <3>2, <3>3, <2>2, <1>2, <1>4
  <2>3. QED
    BY <2>1, <2>2
<1>8. QED
  BY <1>2, <1>6, <1>7 DEF Slot, grown

\* A name is pushed for a slot.
LEMMA InnerInsert ==
    ASSUME NEW map, NEW own, NEW blks, NEW name, NEW val,
           InnerNames(map, own, blks), Slot(val, own, blks)
    PROVE  InnerNames(InsertOnce(map, name, val), own, blks)
<1> DEFINE new == InsertOnce(map, name, val)
<1>1. /\ DOMAIN new = DOMAIN map \cup {name}
      /\ \A n \in DOMAIN map : new[n] = map[n]
      /\ name \notin DOMAIN map => new[name] = val
  BY InsertFacts
<1> HIDE DEF new
<1>2. InnerNames(new, own, blks)
  BY <1>1 DEF InnerNames
<1>3. QED
  BY <1>2 DEF new
\* The slot that is appended where the builder points.
LEMMA EmittedSlot ==
    ASSUME BuilderInv, InFunction, NEW x, x.op = "alloca", NEW rest, IsSeq(rest),
           NEW ins, ins = <<x>> \o rest, Emit(ins)
    PROVE  Slot(Here(<<x>>), layout'[Len(layout)], blocks')
<1> DEFINE v == Here(<<x>>)
           n == Len(blocks[ip])
<1>1. /\ IsSeq(blocks) /\ ip \in DOMAIN blocks /\ \A b \in DOMAIN blocks : IsSeq(blocks[b])
      /\ IsSeq(blocks[ip]) /\ ip \in Range(layout[Len(layout)]) /\ n \in Nat
      /\ Len(layout) \in DOMAIN layout
  <2>1. /\ IsSeq(blocks) /\ ip \in DOMAIN blocks /\ \A b \in DOMAIN blocks : IsSeq(blocks[b])
        /\ Len(layout) \in DOMAIN layout
        /\ ip = Last(layout[Len(layout)]) /\ layout[Len(layout)] # <<>>
    BY CodeFacts
  <2>2. IsSeq(layout[Len(layout)])
    BY <2>1 DEF BuilderInv, Shape
  <2>3. QED
    BY <2>1, <2>2, LastInRange, SeqFacts
<1>2. v.k = "inst" /\ v.ref[1] = ip /\ v.ref[2] = n + 1
  <2>1. Len(<<x>>) = 1
    BY ShortSeqs
  <2>2. QED
    BY <2>1 DEF Here, Value
<1>3. IsSeq(ins) /\ Len(ins) >= 1 /\ ins[1] = x /\ Len(ins) \in Nat
  <2>1. IsSeq(<<x>>) /\ Len(<<x>>) = 1 /\ <<x>>[1] = x
    BY ShortSeqs
  <2>2. /\ IsSeq(<<x>> \o rest) /\ Len(<<x>> \o rest) = Len(<<x>>) + Len(rest)
        /\ \A i \in 1..Len(<<x>>) : (<<x>> \o rest)[i] = <<x>>[i]
    BY <2>1, ConcatFacts
  <2>3. Len(rest) \in Nat
    BY SeqFacts
  <2>4. QED
    BY <2>1, <2>2, <2>3
<1>4. blocks'[ip] = blocks[ip] \o ins /\ layout'[Len(layout)] = layout[Len(layout)] \o <<>>
  <2>1. Build(currentFunction, 0, Appending(ins), <<>>)
    BY DEF Emit
  <2>2. blocks'[ip] = blocks[ip] \o ins
    BY <1>1, <1>3, <2>1, BuiltAtPoint
  <2>3. layout' = [layout EXCEPT ![currentFunction] = @ \o <<>>] /\ currentFunction = Len(layout)
    BY <2>1, CodeFacts DEF Build
  <2>4. QED
    BY <1>1, <2>2, <2>3
<1> HIDE DEF v
<1>5. n + 1 \in DOMAIN blocks'[ip] /\ blocks'[ip][n + 1] = x
  <2>1. /\ IsSeq(blocks[ip] \o ins) /\ Len(blocks[ip] \o ins) = n + Len(ins)
        /\ \A i \in 1..Len(ins) : (blocks[ip] \o ins)[n + i] = ins[i]
    BY <1>1, <1>3, ConcatFacts
  <2>2. DOMAIN (blocks[ip] \o ins) = 1..n + Len(ins)
    BY <2>1, SeqFacts
  <2>3. QED
    BY <1>1, <1>3, <1>4, <2>1, <2>2
<1>6. ip \in Range(layout'[Len(layout)])
  <2>1. IsSeq(layout[Len(layout)])
    BY <1>1 DEF BuilderInv, Shape
  <2>2. QED
    BY <1>1, <1>4, <2>1, ConcatEmpty
<1>7. Slot(v, layout'[Len(layout)], blocks')
  BY <1>2, <1>5, <1>6 DEF Slot
<1>8. QED
  BY <1>7 DEF v

-----------------------------------------------------------------------------
(* The steps.                                                              *)

\* What happens to the scopes inside a function.
LEMMA NamesInside ==
    ASSUME BuilderInv, NamesInv, WritesOn, UNCHANGED module,
           \/ scope' = scope
           \/ scope' = Enter(scope)
           \/ scope' = Exit(scope) /\ Len(scope) >= 2
           \/ \E name, val : /\ scope' = Push(scope, name, val) /\ Len(scope) >= 2
                             /\ Slot(val, layout'[Len(layout)], blocks')
    PROVE  NamesInv'
<1> DEFINE grown == layout'[Len(layout)]
           m == Len(scope)
<1>1. IsSeq(scope) /\ m \in Nat /\ DOMAIN scope = 1..m /\ m >= 1
  <2>1. IsSeq(scope) /\ (m = 1 \/ m = 2 \/ m = 3)
    BY DEF BuilderInv, Scoping
  <2>2. DOMAIN scope = 1..m /\ m \in Nat
    BY <2>1, SeqFacts
  <2>3. QED
    BY <2>1, <2>2
<1>2. /\ InFunction /\ OnlyAtEnd /\ currentFunction = Len(layout)
      /\ layout'[currentFunction'] = grown
      /\ globals' = globals /\ functions' = functions
  BY CodeFacts DEF WritesOn, module
<1>3. \A l \in 2..m : InnerNames(scope[l], grown, blocks')
  <2>1. \A l \in 2..m : InnerNames(scope[l], layout[Len(layout)], blocks)
    BY <1>2 DEF NamesInv
  <2>2. \A v : Slot(v, layout[Len(layout)], blocks) => Slot(v, grown, blocks')
    BY <1>2, SlotsStay
  <2>3. QED
    BY <2>1, <2>2 DEF InnerNames
<1> HIDE DEF grown, m
<1>4. SUFFICES scope'[1] = scope[1] /\ \A l \in 2..Len(scope') : InnerNames(scope'[l], grown, blocks')
  BY <1>2 DEF NamesInv
<1>5. CASE scope' = scope
  BY <1>3, <1>5 DEF m
<1>6. CASE scope' = Enter(scope)
  <2>1. /\ Len(scope') = m + 1 /\ \A l \in 1..m : scope'[l] = scope[l]
        /\ DOMAIN scope'[m + 1] = {}
    BY <1>1, <1>6, EnterFacts DEF m
  <2>2. InnerNames(scope'[m + 1], grown, blocks')
    BY <2>1 DEF InnerNames
  <2>3. \A l \in 2..Len(scope') : l = m + 1 \/ l \in 2..m
    BY <1>1, <2>1
  <2>4. 1 \in 1..m /\ \A l \in 2..m : l \in 1..m
    BY <1>1
  <2>5. QED
    BY <1>3, <2>1, <2>2, <2>3, <2>4
<1>7. CASE scope' = Exit(scope) /\ m >= 2
  <2>1. scope # <<>>
    BY <1>1, SeqFacts DEF m
  <2>2. Len(scope') = m - 1 /\ \A l \in 1..m - 1 : scope'[l] = scope[l]
    BY <1>1, <1>7, <2>1, FrontFacts DEF m, Exit
  <2>3. 1 \in 1..m - 1 /\ \A l \in 2..m - 1 : l \in 1..m - 1 /\ l \in 2..m
    BY <1>1, <1>7
  <2>4. QED
    BY <1>3, <2>2, <2>3
<1>8. ASSUME NEW name, NEW val, scope' = Push(scope, name, val), m >= 2, Slot(val, grown, blocks')
      PROVE  scope'[1] = scope[1] /\ \A l \in 2..Len(scope') : InnerNames(scope'[l], grown, blocks')
  <2>1. scope # <<>>
    BY <1>1, SeqFacts DEF m
  <2>2. /\ Len(scope') = m /\ \A l \in 1..m - 1 : scope'[l] = scope[l]
        /\ scope'[m] = InsertOnce(scope[m], name, val)
    BY <1>1, <1>8, <2>1, PushFacts, PushedFacts DEF m
  <2>3. InnerNames(scope'[m], grown, blocks')
    BY <1>1, <1>3, <1>8, <2>2, InnerInsert
  <2>4. /\ 1 \in 1..m - 1 /\ \A l \in 2..m : l = m \/ l \in 1..m - 1
    BY <1>1, <1>8
  <2>5. QED
    BY <1>3, <2>2, <2>3, <2>4
<1>9. QED
  BY <1>5, <1>6, <1>7, <1>8 DEF m, grown
\* How many scopes there are.
LEMMA ScopeCount ==
    ASSUME BuilderInv
    PROVE  /\ IsSeq(scope) /\ scope # <<>> /\ (Len(scope) = 1 \/ Len(scope) = 2 \/ Len(scope) = 3)
           /\ Len(scope) = 1 <=> ~InFunction
           /\ InFunction /\ Len(work) = 2 => Len(scope) = 2
<1>1. /\ IsSeq(scope) /\ (Len(scope) = 1 \/ Len(scope) = 2 \/ Len(scope) = 3)
      /\ Len(scope) = 1 <=> ~InFunction
  BY DEF BuilderInv, Scoping
<1>2. scope # <<>>
  BY <1>1, SeqFacts
<1>3. InFunction /\ Len(work) = 2 => Len(scope) = 2
  BY DEF BuilderInv, Scoping
<1>4. QED
  BY <1>1, <1>2, <1>3

\* The steps inside a function that leave the scopes alone.
LEMMA UnscopedNames ==
    ASSUME BuilderInv, NamesInv,
           \/ FunParam \/ FunBody \/ CompoundItem
           \/ VisitExpresionStmt \/ VisitNum \/ VisitVar \/ VisitElement
           \/ VisitAssignExpression \/ AssignExpressionVar \/ VisitOperator
           \/ VisitSelectionStmt \/ SelectionCondition \/ SelectionElse \/ SelectionEnd
           \/ VisitIterationStmt \/ IterationCondition \/ IterationEnd
           \/ VisitReturnStmt \/ ReturnValue
           \/ AssignExpressionValue \/ OperatorLeft \/ OperatorRight \/ VisitCall \/ CallArgument
           \/ ElementIndex
    PROVE  NamesInv'
<1>1. WritesOn
  BY WalkWritesOn, BranchesWriteOn, EmitsWriteOn, ElementWritesOn
<1>2. UNCHANGED <<scope, module>>
  BY DEF FunParam, FunBody, CompoundItem, VisitExpresionStmt, VisitNum, VisitVar, VisitElement,
         VisitAssignExpression, AssignExpressionVar, VisitOperator,
         VisitSelectionStmt, SelectionCondition, SelectionElse, SelectionEnd,
         VisitIterationStmt, IterationCondition, IterationEnd, VisitReturnStmt, ReturnValue,
         AssignExpressionValue, OperatorLeft, OperatorRight, VisitCall, CallArgument, ElementIndex
<1>3. QED
  BY <1>1, <1>2, NamesInside

\* The body of a function opens and closes its scope.
LEMMA CompoundNames ==
    ASSUME BuilderInv, NamesInv, VisitCompoundStmt \/ CompoundEnd
    PROVE  NamesInv'
<1>1. WritesOn
  BY WalkWritesOn
<1>2. CASE VisitCompoundStmt
  <2>1. UNCHANGED module /\ (scope' = scope \/ scope' = Enter(scope))
    BY <1>2 DEF VisitCompoundStmt
  <2>2. QED
    BY <1>1, <2>1, NamesInside
<1>3. CASE CompoundEnd
  <2>1. UNCHANGED module /\ (scope' = scope \/ scope' = Exit(scope))
    BY <1>3 DEF CompoundEnd
  <2>2. Len(scope) >= 2
    BY <1>1, ScopeCount DEF WritesOn
  <2>3. QED
    BY <1>1, <2>1, <2>2, NamesInside
<1>4. QED
  BY <1>2, <1>3

\* A local variable is bound to the slot allocated for it.
LEMMA LocalVarNames ==
    ASSUME BuilderInv, NamesInv, VisitLocalVarDeclaration
    PROVE  NamesInv'
<1>1. WritesOn
  BY EmitsWriteOn
<1>2. Len(scope) >= 2
  BY <1>1, ScopeCount DEF WritesOn
<1> DEFINE x == IF Top.node.num = Nullptr THEN Alloca("i32*") ELSE AllocaArray(Top.node.num.value)
<1>3. x.op = "alloca"
  BY DEF Alloca, AllocaArray, Instr
<1>4. Emit(<<x>>) /\ scope' = Push(scope, Top.node.id, Here(<<x>>)) /\ UNCHANGED module
  BY DEF VisitLocalVarDeclaration
<1> HIDE DEF x
<1>5. <<x>> = <<x>> \o <<>> /\ IsSeq(<<>>)
  BY ShortSeqs, ConcatEmpty
<1>6. Slot(Here(<<x>>), layout'[Len(layout)], blocks')
  BY <1>1, <1>3, <1>4, <1>5, EmittedSlot DEF WritesOn
<1>7. QED
  BY <1>1, <1>2, <1>4, <1>6, NamesInside

\* A parameter is bound to the slot that holds its argument.
LEMMA ParamNames ==
    ASSUME BuilderInv, NamesInv, VisitParam
    PROVE  NamesInv'
<1>1. WritesOn
  BY EmitsWriteOn
<1>2. Len(scope) >= 2
  BY <1>1, ScopeCount DEF WritesOn
<1> DEFINE x == Alloca(IF Top.node.isarray THEN "i32**" ELSE "i32*")
           y == Store(currentParameter, Here(<<x>>))
<1>3. x.op = "alloca"
  BY DEF Alloca, Instr
<1>4. /\ Emit(Append(<<x>>, y)) /\ scope' = Push(scope, Top.node.id, Here(<<x>>))
      /\ UNCHANGED module
  BY DEF VisitParam
<1> HIDE DEF x, y
<1>5. Append(<<x>>, y) = <<x>> \o <<y>> /\ IsSeq(<<y>>)
  BY ShortSeqs, AppendConcat
<1>6. Slot(Here(<<x>>), layout'[Len(layout)], blocks')
  BY <1>1, <1>3, <1>4, <1>5, EmittedSlot DEF WritesOn
<1>7. QED
  BY <1>1, <1>2, <1>4, <1>6, NamesInside

\* After a function only the names of the module are left.
LEMMA FunEndNames ==
    ASSUME BuilderInv, NamesInv, FunEnd
    PROVE  NamesInv'
<1>1. InFunction /\ Len(work) = 2
  BY FunctionFacts DEF FunEnd
<1>2. /\ scope' = Exit(scope) /\ globals' = globals /\ functions' = functions
  BY DEF FunEnd, module
<1>3. IsSeq(scope) /\ scope # <<>> /\ Len(scope) = 2
  BY <1>1, ScopeCount
<1>4. Len(scope') = 1 /\ scope'[1] = scope[1]
  <2>1. Len(scope') = Len(scope) - 1 /\ \A l \in 1..Len(scope) - 1 : scope'[l] = scope[l]
    BY <1>2, <1>3, FrontFacts DEF Exit
  <2>2. QED
    BY <1>3, <2>1
<1>5. \A l \in 2..Len(scope') : FALSE
  BY <1>4
<1>6. QED
  BY <1>2, <1>4, <1>5 DEF NamesInv

\* A function is named, and its scope has no names yet.
LEMMA FunDeclarationNames ==
    ASSUME BuilderInv, NamesInv, VisitFunDeclaration
    PROVE  NamesInv'
<1> DEFINE d == Top.node
           ret_type == IF d.type = "int" THEN "i32" ELSE "void"
           params_type == [p \in DOMAIN d.params |-> IF d.params[p].isarray THEN "i32*" ELSE "i32"]
           x == Function(d.id, ret_type, params_type)
           val == FunctionValue(Len(functions) + 1)
           pushed == Push(scope, x.id, val)
<1>1. ~InFunction
  BY EntryFacts, CodeFacts
<1>2. IsSeq(scope) /\ scope # <<>> /\ Len(scope) = 1
  BY <1>1, ScopeCount
<1>3. x.id = d.id
  BY DEF Function
<1>4. scope' = Enter(pushed) /\ functions' = Append(functions, x) /\ globals' = globals
  BY <1>3 DEF VisitFunDeclaration
<1> HIDE DEF x
<1>5. /\ IsSeq(pushed) /\ Len(pushed) = 1
      /\ pushed[1] = InsertOnce(scope[1], x.id, val)
  BY <1>2, PushFacts, PushedFacts
<1>6. OuterNames(pushed[1], functions', globals')
  <2>1. IsSeq(functions) /\ IsSeq(globals) /\ OuterNames(scope[1], functions, globals)
    BY DEF BuilderInv, Shape, NamesInv
  <2>2. QED
    BY <2>1, <1>4, <1>5, OuterFunction
<1> HIDE DEF pushed
<1>7. Len(scope') = 2 /\ scope'[1] = pushed[1] /\ DOMAIN scope'[2] = {}
  <2>1. /\ Len(scope') = Len(pushed) + 1 /\ \A l \in 1..Len(pushed) : scope'[l] = pushed[l]
        /\ DOMAIN scope'[Len(pushed) + 1] = {}
    BY <1>4, <1>5, EnterFacts
  <2>2. QED
    BY <1>5, <2>1
<1>8. ASSUME NEW l \in 2..Len(scope')
      PROVE  InnerNames(scope'[l], layout'[currentFunction'], blocks')
  <2>1. l = 2
    BY <1>7
  <2>2. QED
    BY <2>1, <1>7 DEF InnerNames
<1>9. IsSeq(globals')
  BY <1>4 DEF NamesInv
<1>10. QED
  BY <1>6, <1>7, <1>8, <1>9 DEF NamesInv

\* A global is named, unless its name has been taken before.
LEMMA GlobalVarNames ==
    ASSUME BuilderInv, NamesInv, VisitGlobalVarDeclaration
    PROVE  NamesInv'
<1> DEFINE d == Top.node
           ty == IF d.num = Nullptr THEN "i32*" ELSE "arr*"
           g == IF NamedGlobal(d.id) = {} THEN Len(globals) + 1
                ELSE CHOOSE old \in NamedGlobal(d.id) : TRUE
           x == [id |-> d.id, ty |-> ty, num |-> currentValue']
           val == Value("global", <<g>>, globals'[g].ty)
<1>1. /\ Len(scope) = 1 /\ scope' = Push(scope, d.id, val) /\ functions' = functions
      /\ globals' = IF NamedGlobal(d.id) # {} THEN globals ELSE Append(globals, x)
  BY DEF VisitGlobalVarDeclaration, InGlobal
<1>2. IsSeq(scope) /\ scope # <<>>
  BY ScopeCount
<1>3. /\ IsSeq(functions) /\ IsSeq(globals) /\ OuterNames(scope[1], functions, globals)
  BY DEF BuilderInv, Shape, NamesInv
<1>4. x.id = d.id
  OBVIOUS
<1> HIDE DEF x
<1>5. /\ \/ globals' = globals /\ g \in DOMAIN globals
         \/ g = Len(globals) + 1 /\ globals' = Append(globals, x)
      /\ globals'[g].id = d.id
  <2>1. CASE NamedGlobal(d.id) = {}
    <3>1. g = Len(globals) + 1 /\ globals' = Append(globals, x)
      BY <1>1, <2>1
    <3>2. globals'[g] = x
      BY <1>3, <3>1, AppendFacts
    <3>3. QED
      BY <1>4, <3>1, <3>2
  <2>2. CASE NamedGlobal(d.id) # {}
    <3>1. globals' = globals /\ g \in NamedGlobal(d.id)
      BY <1>1, <2>2
    <3>2. QED
      BY <3>1 DEF NamedGlobal
  <2>3. QED
    BY <2>1, <2>2
<1> HIDE DEF g
<1>6. Len(scope') = 1 /\ scope'[1] = InsertOnce(scope[1], d.id, val)
  <2> DEFINE name == d.id
  <2> HIDE DEF val, name
  <2>1. scope' = Push(scope, name, val)
    BY <1>1 DEF name
  <2>2. Len(scope') = Len(scope) /\ scope'[Len(scope)] = InsertOnce(scope[Len(scope)], name, val)
    BY <1>2, <2>1, PushFacts, PushedFacts
  <2>3. QED
    BY <1>1, <2>2 DEF name
<1>7. OuterNames(scope'[1], functions', globals') /\ IsSeq(globals')
  BY <1>1, <1>3, <1>5, <1>6, OuterGlobal
<1>8. \A l \in 2..Len(scope') : FALSE
  BY <1>6
<1>9. QED
  BY <1>7, <1>8 DEF NamesInv

\* The other steps leave names and code alone.
LEMMA UnchangedNames ==
    ASSUME NamesInv, UNCHANGED <<scope, module, code, currentFunction>>
    PROVE  NamesInv'
  BY DEF NamesInv, module, code
\* The three functions of the run-time library have names of their own.
LEMMA PredefinedNames ==
    /\ DOMAIN Predefined = 1..3
    /\ Predefined[1].id = "input" /\ Predefined[2].id = "output"
    /\ Predefined[3].id = "neg_idx_except"
  BY DEF Predefined, Function

LEMMA InitNames == ASSUME Init PROVE NamesInv
<1> DEFINE ids == {Predefined[f].id : f \in DOMAIN Predefined}
           of(n) == CHOOSE f \in DOMAIN Predefined : Predefined[f].id = n
           map == [n \in ids |-> FunctionValue(of(n))]
<1>1. /\ scope = <<map>> /\ globals = <<>> /\ functions = Predefined
  BY DEF Init
<1>2. Len(scope) = 1 /\ scope[1] = map /\ \A l \in 2..Len(scope) : FALSE
  BY <1>1
<1>3. IsSeq(globals) /\ DOMAIN globals = {}
  BY <1>1, ShortSeqs
<1>4. \A f \in DOMAIN Predefined : of(Predefined[f].id) = f
  BY PredefinedNames
<1>5. \A n \in ids : of(n) \in DOMAIN Predefined /\ Predefined[of(n)].id = n
  OBVIOUS
<1> HIDE DEF of
<1>6. DOMAIN map = ids /\ \A n \in ids : map[n] = FunctionValue(of(n))
  OBVIOUS
<1> HIDE DEF map
<1>7. \A f : FunctionValue(f).k = "fun" /\ FunctionValue(f).ref[1] = f
  BY DEF FunctionValue, Value
<1>8. OuterNames(map, functions, globals)
  <2>1. DOMAIN map = Ids(functions) \cup Ids(globals)
    BY <1>1, <1>3, <1>6 DEF Ids
  <2>2. \A n \in DOMAIN map : Named(map[n], n, functions, globals)
    BY <1>1, <1>5, <1>6, <1>7 DEF Named
  <2>3. \A f \in DOMAIN Predefined : map[Predefined[f].id] = FunctionValue(f)
    BY <1>4, <1>6
  <2>4. QED
    BY <1>1, <2>1, <2>2, <2>3 DEF OuterNames
<1>9. QED
  BY <1>2, <1>3, <1>8 DEF NamesInv

LEMMA NamesStep == ASSUME BuilderInv, NamesInv, [Next]_vars PROVE NamesInv'
<1>1. CASE VisitProgram \/ Idle \/ UNCHANGED vars
  <2>1. UNCHANGED <<scope, module, code, currentFunction>>
    BY <1>1 DEF VisitProgram, Idle, vars, current
  <2>2. QED
    BY <2>1, UnchangedNames
<1>2. CASE VisitGlobalVarDeclaration \/ VisitFunDeclaration \/ FunEnd
  BY <1>2, GlobalVarNames, FunDeclarationNames, FunEndNames
<1>3. CASE \/ VisitLocalVarDeclaration \/ VisitParam \/ VisitCompoundStmt \/ CompoundEnd
  BY <1>3, LocalVarNames, ParamNames, CompoundNames
<1>4. CASE \/ FunParam \/ FunBody \/ CompoundItem
           \/ VisitExpresionStmt \/ VisitNum \/ VisitVar \/ VisitElement
           \/ VisitAssignExpression \/ AssignExpressionVar \/ VisitOperator
           \/ VisitSelectionStmt \/ SelectionCondition \/ SelectionElse \/ SelectionEnd
           \/ VisitIterationStmt \/ IterationCondition \/ IterationEnd
           \/ VisitReturnStmt \/ ReturnValue
           \/ AssignExpressionValue \/ OperatorLeft \/ OperatorRight \/ VisitCall \/ CallArgument
           \/ ElementIndex
  BY <1>4, UnscopedNames
<1>5. QED
  BY <1>1, <1>2, <1>3, <1>4 DEF Next

-----------------------------------------------------------------------------
(* The theorems.                                                           *)

\* The names of the module and the slots of the function being built, as
\* Scope::push and the declarations leave them (cminus_builder.hpp:15-52,
\* cminus_builder.cpp:40-139).
THEOREM NamesInvariance == Spec => []NamesInv
<1>1. Init => NamesInv
  BY InitNames
<1>2. BuilderInv /\ NamesInv /\ [Next]_vars => NamesInv'
  BY NamesStep
<1>3. QED
  BY <1>1, <1>2, BuilderInvariance, PTL DEF Spec

LEMMA NamesFollow == ASSUME BuilderInv, NamesInv PROVE ScopesFollowTheWalk
<1>1. InGlobal(scope) <=> currentFunction = 0
  <2>1. Len(scope) = 1 <=> ~InFunction
    BY ScopeCount
  <2>2. InFunction <=> currentFunction # 0
    BY CodeFacts DEF BuilderInv, Position
  <2>3. QED
    BY <2>1, <2>2 DEF InGlobal
<1>2. /\ DOMAIN scope[1] = {functions[f].id : f \in DOMAIN functions}
                           \cup {globals[g].id : g \in DOMAIN globals}
      /\ \A n \in DOMAIN scope[1] : ModuleName(scope[1][n]) = n
  BY DEF NamesInv, OuterNames, Ids, Named, ModuleName
<1>3. ASSUME NEW l \in DOMAIN scope \ {1}, NEW n \in DOMAIN scope[l]
      PROVE  IsSlotOf(scope[l][n], currentFunction)
  <2>1. DOMAIN scope = 1..Len(scope) /\ Len(scope) \in Nat
    BY ScopeCount, SeqFacts
  <2>2. l \in 2..Len(scope)
    BY <2>1
  <2>3. Slot(scope[l][n], layout[currentFunction], blocks)
    BY <2>2 DEF NamesInv, InnerNames
  <2>4. QED
    BY <2>3 DEF Slot, IsSlotOf, Inserted
<1>4. QED
  BY <1>1, <1>2, <1>3 DEF ScopesFollowTheWalk

\* The table of names follows the walk: the scopes that Scope::enter opens
\* for a function and its body are left when it ends, and while they are
\* open their names are bound to slots allocated in that function and no
\* other (cminus_builder.cpp:86-152).
THEOREM ScopesFollow == Spec => []ScopesFollowTheWalk
<1>1. BuilderInv /\ NamesInv => ScopesFollowTheWalk
  BY NamesFollow
<1>2. QED
  BY <1>1, BuilderInvariance, NamesInvariance, PTL
-----------------------------------------------------------------------------
(* Array elements: what is kept of the check of an index.                  *)

\* A step that appends ins where the builder points, and changes nothing
\* that the blocks inserted before rely on: what it adds does not lead to
\* them, unless a loop was going to.
Continues(ins) ==
    /\ IsSeq(ins)
    /\ \A f \in DOMAIN layout :
          /\ f \in DOMAIN layout' /\ Inserted(f) \subseteq Inserted(f)'
          /\ Inserted(f) \cap LeadsTo(ins) \subseteq Loops
          /\ Inserted(f) \cap Loops' \subseteq Loops
          /\ f # currentFunction => \A x \in Inserted(f) : blocks'[x] = blocks[x]
          /\ f = currentFunction' => f = currentFunction /\ (ip' = ip \/ ip' \notin Inserted(f))
          /\ \A x \in Inserted(f) :
                blocks'[x] = blocks[x] \/ (x = ip /\ blocks'[x] = blocks[x] \o ins)
          /\ \A x \in Inserted(f)' \ Inserted(f) : Inserted(f) \cap LeadsTo(blocks'[x]) = {}

\* Where the blocks of a function lead to one of its older blocks.
LEMMA PrecedingKept ==
    ASSUME BuilderInv, NEW ins, Continues(ins), NEW f \in DOMAIN layout,
           NEW b \in Inserted(f), b \notin Loops
    PROVE  Preceding(f, b)' = Preceding(f, b)
<1>1. /\ IsSeq(ins) /\ Inserted(f) \subseteq Inserted(f)' /\ b \notin LeadsTo(ins)
      /\ \A x \in Inserted(f) : blocks'[x] = blocks[x] \/ (x = ip /\ blocks'[x] = blocks[x] \o ins)
      /\ \A x \in Inserted(f)' \ Inserted(f) : b \notin LeadsTo(blocks'[x])
  BY DEF Continues
<1>2. ASSUME NEW x \in Inserted(f) PROVE b \in LeadsTo(blocks'[x]) <=> b \in LeadsTo(blocks[x])
  <2>1. CASE blocks'[x] = blocks[x]
    BY <2>1
  <2>2. CASE blocks'[x] = blocks[x] \o ins
    <3>1. IsSeq(blocks[x])
      BY DEF BuilderInv, Shape
    <3>2. LeadsTo(blocks[x] \o ins) = LeadsTo(blocks[x]) \cup LeadsTo(ins)
      BY <1>1, <3>1, LeadsConcat
    <3>3. QED
      BY <1>1, <2>2, <3>2
  <2>3. QED
    BY <1>1, <2>1, <2>2
<1>3. Preceding(f, b)' = {x \in Inserted(f)' : b \in LeadsTo(blocks'[x])}
  BY TargetsLeadThen DEF Preceding
<1>4. Preceding(f, b) = {x \in Inserted(f) : b \in LeadsTo(blocks[x])}
  BY TargetsLead DEF Preceding
<1>5. QED
  BY <1>1, <1>2, <1>3, <1>4

\* What is guarded stays guarded.
LEMMA GuardedKept ==
    ASSUME BuilderInv, NEW ins, Continues(ins), NEW f \in DOMAIN layout,
           NEW b \in Inserted(f), NEW index, Guarded(f, b, index)
    PROVE  Guarded(f, b, index)'
<1>1. PICK c, u \in Inserted(f) :
        /\ c # u /\ {b, u} \cap Loops = {}
        /\ f = currentFunction => ip \notin {c, u}
        /\ Preceding(f, b) = {c, u} /\ Preceding(f, u) = {c}
        /\ ChecksIndex(c, index, u, b) /\ Last(blocks[c]).args[1].ref[1] = c
        /\ \E x \in Range(blocks[u]) : x.op = "call" /\ x.args[1] = FunctionValue(3)
  BY DEF Guarded
<1>2. /\ Inserted(f) \subseteq Inserted(f)' /\ Inserted(f) \cap Loops' \subseteq Loops
      /\ f # currentFunction => \A x \in Inserted(f) : blocks'[x] = blocks[x]
      /\ f = currentFunction' => f = currentFunction /\ (ip' = ip \/ ip' \notin Inserted(f))
      /\ \A x \in Inserted(f) : blocks'[x] = blocks[x] \/ x = ip
  BY DEF Continues
<1>3. blocks'[c] = blocks[c] /\ blocks'[u] = blocks[u]
  BY <1>1, <1>2
<1>4. Preceding(f, b)' = {c, u} /\ Preceding(f, u)' = {c}
  BY <1>1, PrecedingKept
<1>5. ChecksIndex(c, index, u, b)' /\ Last(blocks'[c]).args[1].ref[1] = c
  BY <1>1, <1>3 DEF ChecksIndex, InstrAt
<1>6. {b, u} \cap Loops' = {} /\ (f = currentFunction' => ip' \notin {c, u})
  BY <1>1, <1>2
<1>7. c \in Inserted(f)' /\ u \in Inserted(f)'
  BY <1>2
<1>8. \E x \in Range(blocks'[u]) : x.op = "call" /\ x.args[1] = FunctionValue(3)
  BY <1>1, <1>3
<1>9. QED
  BY <1>1, <1>4, <1>5, <1>6, <1>7, <1>8 DEF Guarded

\* The blocks that loops branch back to stay those they were, but for a loop
\* that the step begins.
LEMMA LoopsKept ==
    ASSUME BuilderInv, work # <<>>, NEW rest, Replaces(rest), NEW S, Loops \subseteq S,
           FrameOK(rest, S)
    PROVE  Loops' \subseteq S
<1> DEFINE Looping(frame) == frame.node.node = "iteration_stmt" /\ frame.at # "visit"
<1>1. PICK extra : /\ IsSeq(extra) /\ work' = Callers \o extra
                   /\ \A d \in DOMAIN extra : extra[d] = rest \/ Entered(extra[d])
  BY DEF Replaces
<1>2. /\ IsSeq(work) /\ Len(work) \in Nat /\ Len(work) >= 1 /\ DOMAIN work = 1..Len(work)
      /\ IsSeq(Callers) /\ Len(Callers) = Len(work) - 1
      /\ \A d \in 1..Len(work) - 1 : Callers[d] = work[d]
  BY OuterFacts
<1>3. \A d \in 1..Len(Callers) : Looping(Callers[d]) => Callers[d].bb_condition \in S
  <2>1. SUFFICES ASSUME NEW d \in 1..Len(Callers), Looping(Callers[d])
                 PROVE  Callers[d].bb_condition \in S
    OBVIOUS
  <2>2. d \in DOMAIN work /\ Callers[d] = work[d]
    BY <1>2
  <2>3. work[d].bb_condition \in Loops
    BY <2>1, <2>2 DEF Loops
  <2>4. QED
    BY <2>2, <2>3
<1>4. \A d \in 1..Len(extra) : Looping(extra[d]) => extra[d].bb_condition \in S
  <2>1. SUFFICES ASSUME NEW d \in 1..Len(extra), Looping(extra[d])
                 PROVE  extra[d].bb_condition \in S
    OBVIOUS
  <2>2. extra[d] = rest \/ Entered(extra[d])
    BY <1>1, SeqFacts
  <2>3. QED
    BY <2>1, <2>2 DEF FrameOK, Entered
<1> HIDE DEF Looping
<1>5. \A d \in DOMAIN (Callers \o extra) :
          Looping((Callers \o extra)[d]) => (Callers \o extra)[d].bb_condition \in S
  <2> DEFINE u == Callers \o extra
             m == Len(Callers)
             n == Len(extra)
  <2>1. /\ IsSeq(u) /\ Len(u) = m + n /\ m \in Nat /\ n \in Nat
        /\ \A i \in 1..m : u[i] = Callers[i]
        /\ \A i \in 1..n : u[m + i] = extra[i]
    BY <1>1, <1>2, ConcatFacts, SeqFacts
  <2>2. DOMAIN u = 1..m + n
    BY <2>1, SeqFacts
  <2> HIDE DEF u, m, n
  <2>3. SUFFICES ASSUME NEW d \in 1..m + n, Looping(u[d]) PROVE u[d].bb_condition \in S
    BY <2>2 DEF u
  <2>4. CASE d <= m
    BY <2>1, <2>3, <2>4, <1>3 DEF m
  <2>5. CASE ~(d <= m)
    <3>1. d - m \in 1..n /\ m + (d - m) = d
      BY <2>1, <2>5
    <3>2. QED
      BY <3>1, <2>1, <2>3, <1>4 DEF n
  <2>6. QED
    BY <2>4, <2>5
<1>6. \A d \in DOMAIN work' : Looping(work'[d]) => work'[d].bb_condition \in S
  BY <1>1, <1>5
<1>7. QED
  BY <1>6 DEF Loops, Looping

\* What a step inside a function does to the inserted blocks.
LEMMA InsertedGrows ==
    ASSUME BuilderInv, BuilderInv', InFunction, currentFunction' \in {0, currentFunction},
           NEW k, NEW ins, NEW placed, Written(k, ins, placed),
           Range(placed) \subseteq Pending \cup Created
    PROVE  /\ DOMAIN layout' = DOMAIN layout
           /\ ip \in DOMAIN blocks /\ ip \notin Pending \cup Created
           /\ Pending \subseteq DOMAIN blocks
           /\ \A x \in DOMAIN blocks : blocks'[x] = blocks[x] \/ x = ip
           /\ \A f \in DOMAIN layout :
                 /\ Inserted(f) \subseteq DOMAIN blocks /\ Inserted(f) \subseteq Inserted(f)'
                 /\ Inserted(f) \cap (Pending \cup Created) = {}
                 /\ Inserted(f)' \subseteq Inserted(f) \cup Range(placed)
                 /\ f # currentFunction => \A x \in Inserted(f) : blocks'[x] = blocks[x]
                 /\ f = currentFunction' =>
                       f = currentFunction /\ (ip' = ip \/ ip' \notin Inserted(f))
<1> DEFINE F == Len(layout)
<1>1. /\ OnlyAtEnd /\ k \in Nat /\ Len(blocks') = Len(blocks) + k
      /\ IsSeq(placed) /\ layout'[F] = layout[F] \o placed
      /\ IsSeq(ins) /\ blocks'[ip] = blocks[ip] \o ins
  BY DEF Written
<1>2. /\ IsSeq(layout) /\ Len(layout) \in Nat /\ Len(blocks) \in Nat
      /\ DOMAIN layout = 1..F /\ DOMAIN blocks = 1..Len(blocks)
      /\ F \in DOMAIN layout /\ currentFunction = F
      /\ layout[F] # <<>> /\ ip = Last(layout[F]) /\ ip \in DOMAIN blocks
  BY CodeFacts
<1>3. /\ IsSeq(layout') /\ Len(layout') = F /\ DOMAIN layout' = 1..F
      /\ \A f \in DOMAIN layout : f # F => layout'[f] = layout[f]
      /\ \A b \in DOMAIN blocks : b # ip => blocks'[b] = blocks[b]
  BY <1>1, SeqFacts DEF OnlyAtEnd
<1>4. \A f \in DOMAIN layout : IsSeq(layout[f]) /\ Inserted(f) \subseteq DOMAIN blocks
  BY DEF BuilderInv, Shape
<1>5. Range(layout'[F]) = Range(layout[F]) \cup Range(placed)
  BY <1>1, <1>2, <1>4, ConcatFacts
<1>6. ip \in Range(layout[F])
  BY <1>2, <1>4, LastInRange
<1> HIDE DEF F
<1>7. Pending \subseteq DOMAIN blocks /\ \A f \in DOMAIN layout : Inserted(f) \cap Pending = {}
  BY <1>2 DEF BuilderInv, Held, Holds, Pending, Inserted
<1>8. DOMAIN blocks \cap Created = {}
  BY <1>1, <1>2 DEF Created
<1>9. \A f \in DOMAIN layout : Inserted(f) \cap (Pending \cup Created) = {}
  BY <1>4, <1>7, <1>8
<1>10. ip \notin Pending \cup Created
  BY <1>2, <1>6, <1>9 DEF Inserted
<1>11. ASSUME NEW f \in DOMAIN layout
       PROVE  Inserted(f) \subseteq Inserted(f)' /\ Inserted(f)' \subseteq Inserted(f) \cup Range(placed)
  <2>1. CASE f = F
    BY <2>1, <1>5 DEF Inserted
  <2>2. CASE f # F
    BY <2>2, <1>3 DEF Inserted
  <2>3. QED
    BY <2>1, <2>2
<1>12. ASSUME NEW f \in DOMAIN layout, f # currentFunction, NEW x \in Inserted(f)
       PROVE  blocks'[x] = blocks[x]
  <2>1. PICK j \in DOMAIN layout[f] : x = layout[f][j]
    BY <1>4, SeqFacts DEF Inserted
  <2>2. ~(f = Len(layout) /\ j = Len(layout[f]))
    BY <1>2, <1>12 DEF F
  <2>3. QED
    BY <2>1, <2>2, <1>1, EarlierBlocks
<1>13. ASSUME NEW f \in DOMAIN layout, f = currentFunction'
       PROVE  f = currentFunction /\ (ip' = ip \/ ip' \notin Inserted(f))
  <2>1. f = F /\ f = currentFunction /\ currentFunction' # 0
    BY <1>2, <1>13
  <2>2. ip' = Last(layout'[F])
    BY <2>1, <1>13 DEF BuilderInv, Position, InsertPointAtBack, Back
  <2>3. CASE placed = <<>>
    <3>1. layout'[F] = layout[F]
      BY <2>3, <1>1, <1>2, <1>4, ConcatEmpty DEF F
    <3>2. QED
      BY <3>1, <2>1, <2>2, <1>2
  <2>4. CASE placed # <<>>
    <3>1. Last(layout'[F]) = Last(placed) /\ Last(placed) \in Range(placed)
      BY <2>4, <1>1, <1>2, <1>4, LastFacts, LastInRange DEF F
    <3>2. QED
      BY <3>1, <2>1, <2>2, <1>9
  <2>5. QED
    BY <2>3, <2>4
<1>14. QED
  BY <1>2, <1>3, <1>4, <1>7, <1>9, <1>10, <1>11, <1>12, <1>13

\* A step inside a function leaves what it inserted before as it was.
LEMMA StepContinues ==
    ASSUME BuilderInv, BuilderInv', InFunction, work # <<>>, WaitingEmpty,
           currentFunction' \in {0, currentFunction},
           NEW rest, Replaces(rest), FrameOK(rest, Loops \cup Created),
           NEW k, NEW ins, NEW placed, Written(k, ins, placed),
           Range(placed) \cup Range(rest.todo) = Range(Top.todo) \cup Created,
           LeadsTo(ins) \subseteq Pending \cup Loops \cup Created,
           \A b \in Created : LeadsTo(blocks'[b]) \subseteq Created,
           \A b \in Created \cap Range(rest.todo) : blocks'[b] = <<>>
    PROVE  /\ Continues(ins) /\ WaitingEmpty' /\ DOMAIN layout' = DOMAIN layout
           /\ \A f \in DOMAIN layout : \A x \in Inserted(f)' :
                 x \in Inserted(f) \/ x \in Created \/ blocks'[x] = <<>>
<1>1. /\ Pending = Waiting(Callers) \cup Range(Top.todo)
      /\ Pending' = Waiting(Callers) \cup Range(rest.todo)
  BY PendingFacts
<1>2. Range(placed) \subseteq Pending \cup Created
  BY <1>1
<1>3. /\ DOMAIN layout' = DOMAIN layout
      /\ ip \in DOMAIN blocks /\ ip \notin Pending \cup Created
      /\ Pending \subseteq DOMAIN blocks
      /\ \A x \in DOMAIN blocks : blocks'[x] = blocks[x] \/ x = ip
      /\ \A f \in DOMAIN layout :
            /\ Inserted(f) \subseteq DOMAIN blocks /\ Inserted(f) \subseteq Inserted(f)'
            /\ Inserted(f) \cap (Pending \cup Created) = {}
            /\ Inserted(f)' \subseteq Inserted(f) \cup Range(placed)
            /\ f # currentFunction => \A x \in Inserted(f) : blocks'[x] = blocks[x]
            /\ f = currentFunction' =>
                  f = currentFunction /\ (ip' = ip \/ ip' \notin Inserted(f))
  BY <1>2, InsertedGrows
<1>4. \A b \in Pending : blocks'[b] = <<>>
  BY <1>3 DEF WaitingEmpty
<1>5. Pending' \subseteq Pending \cup Created
  BY <1>1
<1>6. WaitingEmpty'
  <2>1. ASSUME NEW b \in Pending' PROVE blocks'[b] = <<>>
    <3>1. CASE b \in Pending
      BY <3>1, <1>4
    <3>2. CASE b \notin Pending
      BY <3>2, <1>1
    <3>3. QED
      BY <3>1, <3>2
  <2>2. QED
    BY <2>1 DEF WaitingEmpty
<1>7. Loops' \subseteq Loops \cup Created
  BY LoopsKept
<1>8. \A x \in Range(placed) : x \in Created \/ blocks'[x] = <<>>
  BY <1>2, <1>4
<1>9. LeadsTo(<<>>) = {} /\ IsSeq(ins) /\ blocks'[ip] = blocks[ip] \o ins
  BY LeadsShort DEF Written
<1>10. ASSUME NEW f \in DOMAIN layout
       PROVE  /\ f \in DOMAIN layout' /\ Inserted(f) \subseteq Inserted(f)'
              /\ Inserted(f) \cap LeadsTo(ins) \subseteq Loops
              /\ Inserted(f) \cap Loops' \subseteq Loops
              /\ f # currentFunction => \A x \in Inserted(f) : blocks'[x] = blocks[x]
              /\ f = currentFunction' => f = currentFunction /\ (ip' = ip \/ ip' \notin Inserted(f))
              /\ \A x \in Inserted(f) :
                    blocks'[x] = blocks[x] \/ (x = ip /\ blocks'[x] = blocks[x] \o ins)
              /\ \A x \in Inserted(f)' \ Inserted(f) : Inserted(f) \cap LeadsTo(blocks'[x]) = {}
  <2>1. \A x \in Inserted(f) :
            blocks'[x] = blocks[x] \/ (x = ip /\ blocks'[x] = blocks[x] \o ins)
    BY <1>3, <1>9
  <2>2. ASSUME NEW x \in Inserted(f)' \ Inserted(f)
        PROVE  Inserted(f) \cap LeadsTo(blocks'[x]) = {}
    <3>1. x \in Created \/ blocks'[x] = <<>>
      BY <1>3, <1>8
    <3>2. CASE x \in Created
      BY <3>2, <1>3
    <3>3. CASE blocks'[x] = <<>>
      BY <3>3, <1>9
    <3>4. QED
      BY <3>1, <3>2, <3>3
  <2>3. QED
    BY <2>1, <2>2, <1>3, <1>7
<1>11. Continues(ins)
  BY <1>9, <1>10 DEF Continues
<1>12. QED
  BY <1>3, <1>6, <1>8, <1>11

\* What is checked stays checked.
LEMMA CheckedKept ==
    ASSUME BuilderInv, NEW ins, Continues(ins), Harmless(ins), NEW f \in DOMAIN layout,
           NEW b \in Inserted(f), Checked(f, b)
    PROVE  Checked(f, b)'
<1>1. ASSUME NEW x \in Range(blocks'[b]), Indexed(x) PROVE x \in Range(blocks[b])
  <2>1. blocks'[b] = blocks[b] \/ blocks'[b] = blocks[b] \o ins
    BY DEF Continues
  <2>2. CASE blocks'[b] = blocks[b]
    BY <1>1, <2>2
  <2>3. CASE blocks'[b] = blocks[b] \o ins
    <3>1. IsSeq(blocks[b]) /\ IsSeq(ins)
      BY DEF BuilderInv, Shape, Continues
    <3>2. Range(blocks[b] \o ins) = Range(blocks[b]) \cup Range(ins)
      BY <3>1, ConcatFacts
    <3>3. x \notin Range(ins)
      BY <1>1 DEF Harmless
    <3>4. QED
      BY <2>3, <3>2, <3>3, <1>1
  <2>4. QED
    BY <2>1, <2>2, <2>3
<1>2. ASSUME NEW x \in Range(blocks'[b]), Indexed(x) PROVE Guarded(f, b, Last(x.args))'
  <2> DEFINE index == Last(x.args)
  <2>1. Guarded(f, b, index)
    BY <1>1, <1>2 DEF Checked
  <2> HIDE DEF index
  <2>2. Guarded(f, b, index)'
    BY <2>1, GuardedKept
  <2>3. QED
    BY <2>2 DEF index
<1>3. QED
  BY <1>2 DEF Checked

\* Everything stays guarded when what is new is.
LEMMA AllGuardedKept ==
    ASSUME BuilderInv, AllGuarded, NEW ins, Continues(ins), Harmless(ins),
           \A f \in DOMAIN layout' : \A b \in Inserted(f)' :
               (f \in DOMAIN layout /\ b \in Inserted(f)) \/ Checked(f, b)'
    PROVE  AllGuarded'
<1>1. ASSUME NEW f \in DOMAIN layout, NEW b \in Inserted(f) PROVE Checked(f, b)'
  BY CheckedKept DEF AllGuarded
<1>2. QED
  BY <1>1 DEF AllGuarded

\* A step that fills no new block leaves all guarded.
LEMMA ProceedsElements ==
    ASSUME BuilderInv, BuilderInv', Proceeds, currentFunction' \in {0, currentFunction},
           WaitingEmpty, AllGuarded
    PROVE  WaitingEmpty' /\ AllGuarded'
<1>1. PICK rest, k, ins, placed :
          /\ InFunction /\ work # <<>>
          /\ Replaces(rest) /\ FrameOK(rest, Loops \cup Created)
          /\ Written(k, ins, placed) /\ Harmless(ins)
          /\ Range(placed) \cup Range(rest.todo) = Range(Top.todo) \cup Created
          /\ LeadsTo(ins) \subseteq Pending \cup Loops \cup Created
          /\ \A b \in Created : blocks'[b] = <<>>
  BY DEF Proceeds
<1>2. /\ \A b \in Created : LeadsTo(blocks'[b]) \subseteq Created
      /\ \A b \in Created \cap Range(rest.todo) : blocks'[b] = <<>>
  BY <1>1, LeadsShort
<1>3. /\ Continues(ins) /\ WaitingEmpty' /\ DOMAIN layout' = DOMAIN layout
      /\ \A f \in DOMAIN layout : \A x \in Inserted(f)' :
            x \in Inserted(f) \/ x \in Created \/ blocks'[x] = <<>>
  BY <1>1, <1>2, StepContinues
<1>4. ASSUME NEW f \in DOMAIN layout', NEW b \in Inserted(f)', b \notin Inserted(f)
      PROVE  Checked(f, b)'
  <2>1. blocks'[b] = <<>>
    BY <1>1, <1>3, <1>4
  <2>2. Range(<<>>) = {}
    BY ShortSeqs
  <2>3. QED
    BY <2>1, <2>2 DEF Checked
<1>5. QED
  BY <1>1, <1>3, <1>4, AllGuardedKept

\* A step that changes no code and holds on to no other blocks.
LEMMA CodeKeptElements ==
    ASSUME BuilderInv, UNCHANGED <<layout, blocks, ip>>, currentFunction' = currentFunction,
           Pending' \subseteq Pending, Loops' \subseteq Loops, WaitingEmpty, AllGuarded
    PROVE  WaitingEmpty' /\ AllGuarded'
<1> DEFINE none == <<>>
<1>1. IsSeq(none) /\ LeadsTo(none) = {} /\ Harmless(none)
  BY LeadsShort, StillShort DEF Still
<1>2. \A f \in DOMAIN layout : Inserted(f)' = Inserted(f)
  BY DEF Inserted
<1> HIDE DEF none
<1>3. Continues(none)
  BY <1>1, <1>2 DEF Continues
<1>4. AllGuarded'
  BY <1>1, <1>2, <1>3, AllGuardedKept
<1>5. QED
  BY <1>4 DEF WaitingEmpty

LEMMA OuterElements ==
    ASSUME BuilderInv, BuilderInv', PlacementInv, WaitingEmpty, AllGuarded,
           VisitProgram \/ VisitGlobalVarDeclaration
    PROVE  WaitingEmpty' /\ AllGuarded'
<1>1. /\ work # <<>> /\ Top.node.node \in {"program", "var_declaration"}
      /\ UNCHANGED <<layout, blocks, ip>> /\ Pending' = Pending
      /\ currentFunction' = currentFunction
  BY OuterStepFacts
<1>2. PICK rest : Replaces(rest) /\ rest.todo = <<>> /\ rest.node = Top.node
  BY OuterStepFacts
<1> DEFINE S == Loops
<1>3. FrameOK(rest, S) /\ Loops \subseteq S
  BY <1>1, <1>2 DEF FrameOK
<1> HIDE DEF S
<1>4. Loops' \subseteq S
  BY <1>1, <1>2, <1>3, LoopsKept
<1>5. QED
  BY <1>1, <1>4, CodeKeptElements DEF S

LEMMA UnchangedElements ==
    ASSUME BuilderInv, WaitingEmpty, AllGuarded, UNCHANGED vars
    PROVE  WaitingEmpty' /\ AllGuarded'
<1>1. UNCHANGED <<work, layout, blocks, ip, currentFunction>>
  BY DEF vars, code, current
<1>2. Pending' = Pending /\ Loops' = Loops
  BY <1>1 DEF Pending, Loops
<1>3. QED
  BY <1>1, <1>2, CodeKeptElements

\* The entry block of a function is empty, and nothing leads to it.
LEMMA FunDeclarationElements ==
    ASSUME BuilderInv, PlacementInv, WaitingEmpty, AllGuarded, VisitFunDeclaration
    PROVE  WaitingEmpty' /\ AllGuarded'
<1> DEFINE F == Len(layout)
           n == Len(blocks)
           none == <<>>
<1>1. /\ F \in Nat /\ n \in Nat /\ DOMAIN layout = 1..F /\ DOMAIN blocks = 1..n
      /\ currentFunction = 0 /\ currentFunction' = F + 1
      /\ DOMAIN layout' = 1..F + 1
      /\ Range(layout'[F + 1]) = {n + 1}
      /\ blocks'[n + 1] = <<>> /\ \A b \in 1..n : blocks'[b] = blocks[b]
      /\ \A f \in 1..F : Inserted(f)' = Inserted(f) /\ Inserted(f) \subseteq 1..n
      /\ Pending' = {} /\ work # <<>> /\ Top.node.node = "fun_declaration"
  BY DeclarationFacts
<1>2. PICK rest : Replaces(rest) /\ rest.todo = <<>> /\ rest.node = Top.node
  BY DeclarationFacts
<1> DEFINE S == Loops
<1>3. FrameOK(rest, S) /\ Loops \subseteq S
  BY <1>1, <1>2 DEF FrameOK
<1> HIDE DEF S, F, n
<1>4. Loops' \subseteq S
  BY <1>1, <1>2, <1>3, LoopsKept
<1>5. IsSeq(none) /\ LeadsTo(none) = {} /\ Harmless(none)
  BY LeadsShort, StillShort DEF Still
<1> HIDE DEF none
<1>6. ASSUME NEW f \in DOMAIN layout
      PROVE  f \in DOMAIN layout' /\ f # currentFunction' /\ Inserted(f)' = Inserted(f)
             /\ \A x \in Inserted(f) : blocks'[x] = blocks[x]
  BY <1>1
<1>7. Continues(none)
  BY <1>4, <1>5, <1>6 DEF Continues, S
<1>8. ASSUME NEW f \in DOMAIN layout', NEW b \in Inserted(f)',
             ~(f \in DOMAIN layout /\ b \in Inserted(f))
      PROVE  Checked(f, b)'
  <2>1. f = F + 1
    BY <1>1, <1>6, <1>8
  <2>2. blocks'[b] = <<>>
    BY <2>1, <1>1, <1>8 DEF Inserted
  <2>3. Range(<<>>) = {}
    BY ShortSeqs
  <2>4. QED
    BY <2>2, <2>3 DEF Checked
<1>9. AllGuarded'
  BY <1>5, <1>7, <1>8, AllGuardedKept
<1>10. QED
  BY <1>1, <1>9 DEF WaitingEmpty

-----------------------------------------------------------------------------
(* The check of an index.                                                  *)

\* Inside a function neg_idx_except is still the function of the library.
LEMMA LibraryFound ==
    ASSUME BuilderInv, NamesInv, LibraryNamed
    PROVE  Find(scope, "neg_idx_except") = FunctionValue(3)
<1> DEFINE name == "neg_idx_except"
           innermost == CHOOSE l \in Declaring(scope, name) :
                            \A m \in Declaring(scope, name) : m <= l
<1>1. IsSeq(scope) /\ scope # <<>>
  BY ScopeCount
<1>2. Len(scope) \in Nat /\ Len(scope) >= 1 /\ DOMAIN scope = 1..Len(scope)
  BY <1>1, SeqFacts
<1>3. 3 \in DOMAIN functions /\ functions[3] = Predefined[3] /\ scope[1][name] = FunctionValue(3)
      /\ DOMAIN scope[1] = Ids(functions) \cup Ids(globals)
  BY PredefinedNames DEF NamesInv, OuterNames
<1>4. name \in DOMAIN scope[1]
  BY <1>3, PredefinedNames DEF Ids
<1>5. \A l \in DOMAIN scope : name \in DOMAIN scope[l] <=> l = 1
  BY <1>2, <1>4 DEF LibraryNamed, Unshadowed
<1>6. Declaring(scope, name) = {1}
  BY <1>2, <1>5 DEF Declaring
<1>7. innermost = 1
  BY <1>6
<1>8. QED
  BY <1>3, <1>7 DEF Find

\* The branch that ends the check, and the comparison it looks at.
LEMMA CheckCode ==
    ASSUME IsSeq(Forced.ins), NEW c, c = ip, NEW index, index = Forced.val, NEW u, NEW b,
           IsSeq(blocks[c]), blocks'[c] = blocks[c] \o CheckIndex(u, b)
    PROVE  ChecksIndex(c, index, u, b)' /\ Last(blocks'[c]).args[1].ref[1] = c
<1> DEFINE test == ICmp("icmp_slt", index, Const(0))
           compare == Append(Forced.ins, test)
           value == Here(compare)
           branch == CondBr(value, u, b)
           check == Append(compare, branch)
           n == Len(blocks[c])
           m == Len(compare)
<1>1. CheckIndex(u, b) = check /\ IndexCompare = compare
  BY DEF CheckIndex, IndexCompare
<1>2. test.op = "icmp_slt" /\ test.args = <<index, Const(0)>>
  BY DEF ICmp, Instr
<1>3. value.k = "inst" /\ value.ref = <<c, n + m>>
  BY DEF Here, Value
<1>4. branch.args = <<value>> /\ branch.to = <<u, b>>
  BY DEF CondBr, Branching
<1> HIDE DEF test, value, branch
<1>5. IsSeq(compare) /\ m \in Nat /\ m >= 1 /\ compare[m] = test
  <2>1. Len(Forced.ins) \in Nat
    BY SeqFacts
  <2>2. IsSeq(compare) /\ m = Len(Forced.ins) + 1 /\ compare[Len(Forced.ins) + 1] = test
    BY AppendFacts
  <2> HIDE DEF compare, m
  <2>3. QED
    BY <2>1, <2>2
<1> HIDE DEF compare, m
<1>6. IsSeq(check) /\ Len(check) = m + 1 /\ check[m] = test /\ check[m + 1] = branch
  <2>1. IsSeq(check) /\ Len(check) = m + 1 /\ check[m + 1] = branch
        /\ \A i \in 1..m : check[i] = compare[i]
    BY <1>5, AppendFacts DEF m
  <2>2. m \in 1..m
    BY <1>5
  <2>3. QED
    BY <2>1, <2>2, <1>5
<1> HIDE DEF check
<1>7. blocks'[c] = blocks[c] \o check
  BY <1>1
<1>8. n \in Nat
  BY SeqFacts
<1>9. blocks'[c][n + m] = test
  <2>1. \A i \in 1..Len(check) : (blocks[c] \o check)[n + i] = check[i]
    BY <1>6, ConcatFacts
  <2>2. m \in 1..Len(check)
    BY <1>5, <1>6
  <2>3. QED
    BY <2>1, <2>2, <1>6, <1>7
<1>10. Last(blocks'[c]) = branch
  <2>1. check # <<>>
    BY <1>5, <1>6, SeqFacts
  <2>2. Last(check) = branch
    BY <1>6 DEF Last
  <2>3. QED
    BY <2>1, <2>2, <1>6, <1>7, LastFacts
<1>11. Range(branch.to) = {u, b} /\ branch.to[1] = u /\ branch.args[1] = value
  BY <1>4, ShortSeqs
<1>12. /\ value.k = "inst" /\ value.ref[1] = c /\ value.ref[2] = n + m
  BY <1>3
<1> HIDE DEF n
<1>13. ChecksIndex(c, index, u, b)'
  BY <1>2, <1>9, <1>10, <1>11, <1>12 DEF ChecksIndex, InstrAt
<1>14. QED
  BY <1>10, <1>11, <1>12, <1>13

\* Where the blocks of the function lead once the two of the check are in.
LEMMA CheckLeads ==
    ASSUME BuilderInv, PlacementInv, ElementIndex, NEW n, n = Len(blocks),
           NEW F, F = Len(layout), NEW c, c = ip
    PROVE  /\ F \in DOMAIN layout /\ F = currentFunction
           /\ c \in Inserted(F) /\ Inserted(F) \cup Pending \cup Loops \subseteq 1..n
           /\ Inserted(F)' = Inserted(F) \cup {n + 1, n + 2}
           /\ \A f \in DOMAIN layout : f # F => Inserted(f)' = Inserted(f)
           /\ Preceding(F, n + 2)' = {c, n + 1} /\ Preceding(F, n + 1)' = {c}
<1> DEFINE ins == CheckIndex(n + 1, n + 2)
           placed == <<n + 1, n + 2>>
<1>1. /\ InFunction /\ n \in Nat /\ c \in 1..n /\ DOMAIN blocks = 1..n
      /\ LeadsTo(ins) = {n + 1, n + 2} /\ Written(2, ins, placed)
      /\ LeadsTo(blocks'[n + 1]) = {n + 2} /\ LeadsTo(blocks'[n + 2]) = {}
  BY ElementCode
<1> HIDE DEF ins
<1>2. /\ F \in DOMAIN layout /\ currentFunction = F /\ IsSeq(layout[F]) /\ layout[F] # <<>>
      /\ c = Last(layout[F]) /\ IsSeq(layout) /\ Inserted(F) \subseteq 1..n
      /\ \A b \in DOMAIN blocks : IsSeq(blocks[b])
  BY <1>1, CodeFacts DEF BuilderInv, Shape
<1>3. c \in Inserted(F)
  BY <1>2, LastInRange DEF Inserted
<1>4. Pending \cup Loops \subseteq Reserve /\ Reserve \subseteq Inserted(F) \cup Pending
  BY <1>1, HeldReserved DEF Reserve, Mine
<1>5. Pending \subseteq 1..n
  BY <1>1, <1>2 DEF BuilderInv, Held, Holds, Pending
<1>6. Range(placed) = {n + 1, n + 2} /\ IsSeq(placed)
  BY ShortSeqs
<1> HIDE DEF placed
<1>7. Inserted(F)' = Inserted(F) \cup {n + 1, n + 2}
  <2>1. layout'[F] = layout[F] \o placed
    BY <1>1 DEF Written
  <2>2. Range(layout[F] \o placed) = Range(layout[F]) \cup Range(placed)
    BY <1>2, <1>6, ConcatFacts
  <2>3. QED
    BY <2>1, <2>2, <1>6 DEF Inserted
<1>8. \A f \in DOMAIN layout : f # F => Inserted(f)' = Inserted(f)
  BY <1>1 DEF Written, OnlyAtEnd, Inserted
<1>9. ASSUME NEW x \in Inserted(F)
      PROVE  /\ x \in 1..n /\ (x = c => LeadsTo(blocks'[x]) \cap {n + 1, n + 2} = {n + 1, n + 2})
             /\ (x # c => LeadsTo(blocks'[x]) \cap {n + 1, n + 2} = {})
  <2>1. x \in 1..n /\ IsSeq(blocks[x]) /\ IsSeq(ins)
    BY <1>1, <1>2, <1>9 DEF Written
  <2>2. LeadsTo(blocks[x]) \subseteq 1..n
    <3>1. Targets(x) \subseteq Reserve
      BY <1>1, <1>9 DEF PlacementInv, Leading, Mine
    <3>2. QED
      BY <3>1, <1>2, <1>4, <1>5, TargetsLead
  <2>3. LeadsTo(blocks[x]) \cap {n + 1, n + 2} = {}
    BY <2>2, <1>1
  <2>4. CASE x = c
    <3>1. blocks'[x] = blocks[x] \o ins
      BY <2>4, <1>1 DEF Written
    <3>2. LeadsTo(blocks'[x]) = LeadsTo(blocks[x]) \cup LeadsTo(ins)
      BY <3>1, <2>1, LeadsConcat
    <3>3. QED
      BY <3>2, <2>1, <2>4, <1>1
  <2>5. CASE x # c
    <3>1. blocks'[x] = blocks[x]
      BY <2>1, <2>5, <1>1 DEF Written, OnlyAtEnd
    <3>2. QED
      BY <3>1, <2>1, <2>3, <2>5
  <2>6. QED
    BY <2>4, <2>5
<1>10. \A b : Preceding(F, b)' = {x \in Inserted(F)' : b \in LeadsTo(blocks'[x])}
  BY TargetsLeadThen DEF Preceding
<1>11. n + 1 \notin 1..n /\ n + 2 \notin 1..n /\ n + 1 # n + 2
  BY <1>1
<1>12. Preceding(F, n + 2)' = {c, n + 1}
  <2> DEFINE P == {x \in Inserted(F)' : n + 2 \in LeadsTo(blocks'[x])}
  <2>1. \A x : x \in P <=> x \in {c, n + 1}
    BY <1>1, <1>3, <1>7, <1>9, <1>11
  <2> DEFINE b == n + 2
  <2>2. Preceding(F, b)' = {x \in Inserted(F)' : b \in LeadsTo(blocks'[x])}
    BY <1>10
  <2>3. QED
    BY <2>1, <2>2
<1>13. Preceding(F, n + 1)' = {c}
  <2> DEFINE P == {x \in Inserted(F)' : n + 1 \in LeadsTo(blocks'[x])}
  <2>1. \A x : x \in P <=> x \in {c}
    BY <1>1, <1>3, <1>7, <1>9, <1>11
  <2> DEFINE b == n + 1
  <2>2. Preceding(F, b)' = {x \in Inserted(F)' : b \in LeadsTo(blocks'[x])}
    BY <1>10
  <2>3. QED
    BY <2>1, <2>2
<1>14. QED
  BY <1>2, <1>3, <1>4, <1>5, <1>7, <1>8, <1>12, <1>13

\* The address is taken where the check of its index leads to.
LEMMA ElementChecked ==
    ASSUME BuilderInv, PlacementInv, NamesInv, LibraryNamed, ElementIndex,
           NEW n, n = Len(blocks), NEW F, F = Len(layout), NEW c, c = ip,
           NEW index, index = Forced.val
    PROVE  Guarded(F, n + 2, index)'
<1> DEFINE u == n + 1
           b == n + 2
<1>1. /\ InFunction /\ work # <<>> /\ n \in Nat /\ c \in 1..n /\ ip' = b
      /\ currentFunction' = currentFunction
      /\ Written(2, CheckIndex(u, b), <<u, b>>)
      /\ blocks'[u] = <<Call(Find(scope, "neg_idx_except"), <<>>), Br(b)>>
  BY ElementCode
<1>2. /\ c \in Inserted(F) /\ Loops \subseteq 1..n
      /\ Inserted(F)' = Inserted(F) \cup {u, b}
      /\ Preceding(F, b)' = {c, u} /\ Preceding(F, u)' = {c}
  BY CheckLeads
<1>3. u \notin 1..n /\ b \notin 1..n /\ u # b
  BY <1>1
<1>4. Loops' \subseteq Loops
  <2> DEFINE S == Loops
  <2>1. PICK rest : Replaces(rest) /\ rest.todo = <<>> /\ rest.node = Nullptr
    BY ElementCode
  <2>2. FrameOK(rest, S) /\ Loops \subseteq S
    BY <2>1 DEF FrameOK, Nullptr
  <2> HIDE DEF S
  <2>3. Loops' \subseteq S
    BY <2>1, <2>2, <1>1, LoopsKept
  <2>4. QED
    BY <2>3 DEF S
<1>5. c # u /\ {b, u} \cap Loops' = {} /\ ip' \notin {c, u}
  BY <1>1, <1>2, <1>3, <1>4
<1>6. ChecksIndex(c, index, u, b)' /\ Last(blocks'[c]).args[1].ref[1] = c
  <2>1. IsSeq(Forced.ins) /\ IsSeq(blocks[c]) /\ blocks'[c] = blocks[c] \o CheckIndex(u, b)
    BY <1>1, CodeFacts, ForcedFacts DEF Written, BuilderInv, Shape
  <2> HIDE DEF u, b
  <2>2. QED
    BY <2>1, CheckCode
<1>7. \E x \in Range(blocks'[u]) : x.op = "call" /\ x.args[1] = FunctionValue(3)
  <2> DEFINE fun == FunctionValue(3)
             call == Call(fun, <<>>)
  <2>1. Find(scope, "neg_idx_except") = fun
    BY LibraryFound
  <2> HIDE DEF fun
  <2>2. call.op = "call" /\ call.args = <<fun>> \o <<>>
    BY DEF Call, Instr
  <2>3. <<fun>> \o <<>> = <<fun>>
    BY ShortSeqs, ConcatEmpty
  <2>4. call.args[1] = fun
    BY <2>2, <2>3
  <2> HIDE DEF call
  <2>5. Range(blocks'[u]) = {call, Br(b)}
    BY <1>1, <2>1, ShortSeqs DEF call
  <2>6. QED
    BY <2>2, <2>4, <2>5 DEF fun
<1>8. c \in Inserted(F)' /\ u \in Inserted(F)'
  BY <1>2
<1> HIDE DEF u
<1> DEFINE d == b
<1> HIDE DEF d
<1>9. Guarded(F, d, index)'
  BY <1>2, <1>5, <1>6, <1>7, <1>8 DEF Guarded, d
<1>10. QED
  BY <1>9 DEF d

LEMMA ElementElements ==
    ASSUME BuilderInv, BuilderInv', PlacementInv, NamesInv, ElementInv, ElementIndex
    PROVE  WaitingEmpty' /\ AllGuarded'
<1>0. PICK n, F, c, index :
          n = Len(blocks) /\ F = Len(layout) /\ c = ip /\ index = Forced.val
  OBVIOUS
<1> DEFINE k == 2
           u == n + 1
           b == n + 2
           ins == CheckIndex(u, b)
           placed == <<u, b>>
<1>1. WaitingEmpty /\ LibraryNamed /\ AllGuarded
  BY DEF ElementInv
<1>2. /\ InFunction /\ work # <<>> /\ Top.todo = <<>> /\ Created = {u, b}
      /\ currentFunction' = currentFunction
      /\ IsSeq(IndexCompare) /\ Harmless(IndexCompare)
      /\ LeadsTo(ins) = {u, b} /\ Written(k, ins, placed)
      /\ blocks'[u] = <<Call(Find(scope, "neg_idx_except"), <<>>), Br(b)>>
      /\ LeadsTo(blocks'[u]) = {b} /\ LeadsTo(blocks'[b]) = {}
  BY <1>0, ElementCode
<1>3. PICK v, w : \/ blocks'[b] = <<Element(v, index)>>
                  \/ blocks'[b] = <<Load(v), Element(w, index)>>
  BY <1>0, ElementCode
<1>4. PICK rest : Replaces(rest) /\ rest.todo = <<>> /\ rest.node = Nullptr
  BY ElementCode
<1>5. /\ u # b /\ F \in DOMAIN layout
      /\ Inserted(F)' = Inserted(F) \cup {u, b}
      /\ \A f \in DOMAIN layout : f # F => Inserted(f)' = Inserted(f)
  <2>1. n \in Nat
    BY <1>0, ElementCode
  <2>2. QED
    BY <2>1, <1>0, CheckLeads
<1>6. Guarded(F, b, index)'
  BY <1>0, <1>1, ElementChecked
<1>7. Harmless(ins)
  <2> DEFINE x == CondBr(Here(IndexCompare), u, b)
  <2>1. ~Indexed(x) /\ ins = Append(IndexCompare, x)
    BY DEF CondBr, Branching, Indexed, CheckIndex
  <2> HIDE DEF x, ins
  <2>2. QED
    BY <2>1, <1>2, HarmlessAppend
<1>8. Range(placed) = {u, b} /\ Range(<<>>) = {}
  BY ShortSeqs
<1> HIDE DEF k, u, b, ins, placed
<1>9. /\ FrameOK(rest, Loops \cup Created)
      /\ Range(placed) \cup Range(rest.todo) = Range(Top.todo) \cup Created
      /\ LeadsTo(ins) \subseteq Pending \cup Loops \cup Created
      /\ \A x \in Created : LeadsTo(blocks'[x]) \subseteq Created
      /\ \A x \in Created \cap Range(rest.todo) : blocks'[x] = <<>>
  BY <1>2, <1>4, <1>8 DEF FrameOK, Nullptr
<1>10. Continues(ins) /\ WaitingEmpty' /\ DOMAIN layout' = DOMAIN layout
  BY <1>1, <1>2, <1>4, <1>9, StepContinues
<1>11. Checked(F, u)'
  <2> DEFINE call == Call(Find(scope, "neg_idx_except"), <<>>)
  <2>1. ~Indexed(call) /\ ~Indexed(Br(b))
    BY DEF Call, Instr, Br, Branching, Indexed
  <2>2. Range(blocks'[u]) = {call, Br(b)}
    BY <1>2, ShortSeqs
  <2> HIDE DEF call
  <2>3. QED
    BY <2>1, <2>2 DEF Checked
<1>12. Checked(F, b)'
  <2>1. ~Indexed(Load(v)) /\ Last(Element(v, index).args) = index
        /\ Last(Element(w, index).args) = index
    BY DEF Load, Element, Instr, Indexed, Last
  <2>2. Range(blocks'[b]) = {Element(v, index)}
        \/ Range(blocks'[b]) = {Load(v), Element(w, index)}
    BY <1>3, ShortSeqs
  <2>3. \A x \in Range(blocks'[b]) : Indexed(x) => Last(x.args) = index
    BY <2>1, <2>2, Zenon
  <2>4. QED
    BY <2>3, <1>6 DEF Checked
<1>13. ASSUME NEW f \in DOMAIN layout', NEW x \in Inserted(f)', x \notin Inserted(f)
       PROVE  Checked(f, x)'
  <2>1. f = F /\ x \in {u, b}
    BY <1>5, <1>10, <1>13
  <2>2. QED
    BY <2>1, <1>11, <1>12
<1>14. AllGuarded'
  BY <1>1, <1>7, <1>10, <1>13, AllGuardedKept
<1>15. QED
  BY <1>10, <1>14

-----------------------------------------------------------------------------
(* The name of the library's function.                                     *)

\* What the operations of Scope do to it.
LEMMA PushUnshadowed ==
    ASSUME NEW inner, IsSeq(inner), inner # <<>>, Unshadowed(inner), NEW name, NEW val,
           name # "neg_idx_except" \/ Len(inner) = 1
    PROVE  /\ IsSeq(Push(inner, name, val)) /\ Len(Push(inner, name, val)) = Len(inner)
           /\ Unshadowed(Push(inner, name, val))
<1> DEFINE m == Len(inner)
           map == InsertOnce(inner[m], name, val)
           new == Push(inner, name, val)
<1>1. m \in Nat /\ m >= 1 /\ DOMAIN inner = 1..m
  BY SeqFacts
<1>2. new = [inner EXCEPT ![m] = map]
  BY DEF Push
<1>3. DOMAIN map = DOMAIN inner[m] \cup {name}
  BY InsertFacts
<1> HIDE DEF map, new, m
<1>4. DOMAIN new = 1..m /\ new = [i \in 1..m |-> new[i]]
  BY <1>1, <1>2
<1>5. IsSeq(new) /\ Len(new) = m
  BY <1>1, <1>4, FunctionIsSeq
<1>6. ASSUME NEW l \in 2..m PROVE "neg_idx_except" \notin DOMAIN new[l]
  <2>1. l \in 1..m /\ "neg_idx_except" \notin DOMAIN inner[l] /\ name # "neg_idx_except"
    BY <1>1, <1>6 DEF Unshadowed, m
  <2>2. new[l] = IF l = m THEN map ELSE inner[l]
    BY <2>1, <1>1, <1>2
  <2>3. QED
    BY <2>1, <2>2, <1>3
<1>7. Unshadowed(new)
  BY <1>5, <1>6 DEF Unshadowed
<1>8. QED
  BY <1>5, <1>7 DEF new, m

LEMMA EnterUnshadowed ==
    ASSUME NEW inner, IsSeq(inner), Unshadowed(inner)
    PROVE  Unshadowed(Enter(inner))
<1> DEFINE m == Len(inner)
           new == Enter(inner)
<1>1. m \in Nat /\ Len(new) = m + 1 /\ DOMAIN new[m + 1] = {} /\ \A l \in 1..m : new[l] = inner[l]
  BY SeqFacts, EnterFacts
<1> HIDE DEF new, m
<1>2. ASSUME NEW l \in 2..m + 1 PROVE "neg_idx_except" \notin DOMAIN new[l]
  <2>1. l = m + 1 \/ (l \in 1..m /\ l \in 2..m)
    BY <1>1
  <2>2. QED
    BY <2>1, <1>1 DEF Unshadowed, m
<1>3. Unshadowed(new)
  BY <1>1, <1>2 DEF Unshadowed
<1>4. QED
  BY <1>3 DEF new

LEMMA ExitUnshadowed ==
    ASSUME NEW inner, IsSeq(inner), inner # <<>>, Unshadowed(inner)
    PROVE  Unshadowed(Exit(inner))
<1> DEFINE m == Len(inner)
           new == Exit(inner)
<1>1. m \in Nat /\ Len(new) = m - 1 /\ \A l \in 1..m - 1 : new[l] = inner[l]
  BY SeqFacts, FrontFacts DEF Exit
<1> HIDE DEF new, m
<1>2. ASSUME NEW l \in 2..m - 1 PROVE "neg_idx_except" \notin DOMAIN new[l]
  <2>1. l \in 1..m - 1 /\ l \in 2..m
    BY <1>1
  <2>2. QED
    BY <2>1, <1>1 DEF Unshadowed, m
<1>3. Unshadowed(new)
  BY <1>1, <1>2 DEF Unshadowed
<1>4. QED
  BY <1>3 DEF new

\* No step hides the library's function behind a name of its own.
LEMMA LibraryStep ==
    ASSUME BuilderInv, PlacementInv, LibraryNamed, LetterNames, [Next]_vars
    PROVE  LibraryNamed'
<1>1. IsSeq(scope) /\ scope # <<>> /\ Unshadowed(scope)
  BY ScopeCount DEF LibraryNamed
<1>2. CASE UNCHANGED scope
  BY <1>1, <1>2 DEF LibraryNamed
<1>3. CASE VisitLocalVarDeclaration \/ VisitParam
  <2>1. /\ work # <<>> /\ Top.node.node \in {"var_declaration", "param"}
        /\ \E val : scope' = Push(scope, Top.node.id, val)
    BY <1>3 DEF VisitLocalVarDeclaration, VisitParam, Running
  <2>2. Len(work) \in DOMAIN work /\ Top = work[Len(work)]
    BY <2>1, LastInRange DEF Top, BuilderInv, Walk
  <2>3. Top.node.id # "neg_idx_except"
    BY <2>1, <2>2 DEF LetterNames
  <2>4. QED
    BY <2>1, <2>3, <1>1, PushUnshadowed DEF LibraryNamed
<1>4. CASE VisitGlobalVarDeclaration
  <2>1. Len(scope) = 1 /\ \E name, val : scope' = Push(scope, name, val)
    BY <1>4 DEF VisitGlobalVarDeclaration, InGlobal
  <2>2. QED
    BY <2>1, <1>1, PushUnshadowed DEF LibraryNamed
<1>5. CASE VisitFunDeclaration
  <2>1. Len(scope) = 1
    BY <1>5, DeclarationFacts, ScopeCount
  <2>2. PICK name, val : scope' = Enter(Push(scope, name, val))
    BY <1>5 DEF VisitFunDeclaration
  <2>3. IsSeq(Push(scope, name, val)) /\ Unshadowed(Push(scope, name, val))
    BY <2>1, <1>1, PushUnshadowed
  <2>4. QED
    BY <2>2, <2>3, EnterUnshadowed DEF LibraryNamed
<1>6. CASE VisitCompoundStmt \/ CompoundEnd \/ FunEnd
  <2>1. scope' \in {scope, Enter(scope), Exit(scope)}
    BY <1>6 DEF VisitCompoundStmt, CompoundEnd, FunEnd
  <2>2. QED
    BY <2>1, <1>1, EnterUnshadowed, ExitUnshadowed DEF LibraryNamed
<1>7. CASE \/ VisitProgram \/ FunParam \/ FunBody \/ CompoundItem
           \/ VisitExpresionStmt \/ VisitNum \/ VisitVar \/ VisitElement
           \/ VisitAssignExpression \/ AssignExpressionVar \/ VisitOperator
           \/ VisitSelectionStmt \/ SelectionCondition \/ SelectionElse \/ SelectionEnd
           \/ VisitIterationStmt \/ IterationCondition \/ IterationEnd
           \/ VisitReturnStmt \/ ReturnValue
           \/ AssignExpressionValue \/ OperatorLeft \/ OperatorRight \/ VisitCall \/ CallArgument
           \/ ElementIndex \/ Idle \/ UNCHANGED vars
  <2>1. UNCHANGED scope
    BY <1>7 DEF VisitProgram, FunParam, FunBody, CompoundItem, VisitExpresionStmt, VisitNum, VisitVar,
        VisitElement, VisitAssignExpression, AssignExpressionVar, VisitOperator,
        VisitSelectionStmt, SelectionCondition, SelectionElse, SelectionEnd,
        VisitIterationStmt, IterationCondition, IterationEnd, VisitReturnStmt, ReturnValue,
        AssignExpressionValue, OperatorLeft, OperatorRight, VisitCall, CallArgument,
        ElementIndex, Idle, vars
  <2>2. QED
    BY <2>1, <1>2
<1>8. QED
  BY <1>2, <1>3, <1>4, <1>5, <1>6, <1>7 DEF Next

-----------------------------------------------------------------------------
(* The steps.                                                              *)

LEMMA ElementStepKept ==
    ASSUME BuilderInv, BuilderInv', PlacementInv, NamesInv, LetterNames, ElementInv, [Next]_vars
    PROVE  ElementInv'
<1>1. WaitingEmpty /\ AllGuarded /\ LibraryNamed
  BY DEF ElementInv
<1>2. LibraryNamed'
  BY <1>1, LibraryStep
<1>3. CASE VisitProgram \/ VisitGlobalVarDeclaration
  BY <1>1, <1>2, <1>3, OuterElements DEF ElementInv
<1>4. CASE VisitFunDeclaration
  BY <1>1, <1>2, <1>4, FunDeclarationElements DEF ElementInv
<1>5. CASE ElementIndex
  BY <1>2, <1>5, ElementElements DEF ElementInv
<1>6. CASE Idle \/ UNCHANGED vars
  BY <1>1, <1>2, <1>6, UnchangedElements DEF ElementInv, Idle
<1>7. CASE Proceeds /\ currentFunction' \in {0, currentFunction}
  BY <1>1, <1>2, <1>7, ProceedsElements DEF ElementInv
<1>8. CASE FunEnd
  <2>1. currentFunction' = 0
    BY <1>8 DEF FunEnd
  <2>2. QED
    BY <2>1, <1>7, <1>8, FunEndProceeds
<1>9. CASE \/ FunParam \/ FunBody \/ VisitCompoundStmt \/ CompoundItem \/ CompoundEnd
           \/ VisitExpresionStmt \/ VisitNum \/ VisitVar \/ VisitElement
           \/ VisitAssignExpression \/ AssignExpressionVar \/ VisitOperator
  <2>1. currentFunction' = currentFunction
    BY <1>9, WalkQuiet DEF Quiet
  <2>2. QED
    BY <2>1, <1>7, <1>9, WalkProceeds
<1>10. CASE \/ VisitLocalVarDeclaration \/ VisitParam \/ VisitReturnStmt \/ ReturnValue
            \/ AssignExpressionValue \/ OperatorLeft \/ OperatorRight \/ VisitCall \/ CallArgument
  <2>1. currentFunction' = currentFunction
    BY <1>10, EmitsQuiet DEF Quiet
  <2>2. QED
    BY <2>1, <1>7, <1>10, EmitsProceeds
<1>11. CASE \/ VisitSelectionStmt \/ SelectionCondition \/ SelectionElse \/ SelectionEnd
            \/ VisitIterationStmt \/ IterationCondition \/ IterationEnd
  <2>1. currentFunction' = currentFunction
    BY <1>11, BranchingFacts
  <2>2. QED
    BY <2>1, <1>7, <1>11, BranchingProceeds
<1>12. QED
  BY <1>3, <1>4, <1>5, <1>6, <1>8, <1>9, <1>10, <1>11 DEF Next

LEMMA InitElements == ASSUME Init PROVE ElementInv
<1>1. /\ blocks = <<>> /\ layout = [f \in DOMAIN Predefined |-> <<>>]
      /\ \E map : scope = <<map>>
      /\ \E program \in Programs : work = <<Frame(program)>>
  BY DEF Init
<1>2. Unshadowed(scope)
  BY <1>1 DEF Unshadowed
<1>3. Pending = {}
  <2>1. \A d \in DOMAIN work : work[d].todo = <<>>
    BY <1>1 DEF Frame
  <2>2. QED
    BY <2>1, ShortSeqs DEF Pending
<1>4. \A f \in DOMAIN layout : Inserted(f) = {}
  BY <1>1, ShortSeqs DEF Inserted
<1>5. QED
  BY <1>2, <1>3, <1>4 DEF ElementInv, WaitingEmpty, LibraryNamed, AllGuarded

-----------------------------------------------------------------------------
(* The theorems about elements.                                            *)

\* Whatever is visited, an element that has been taken stays behind the check
\* of its index, up to the end (cminus_builder.cpp:243-290).
THEOREM ElementInvariance == Spec /\ []LetterNames => []ElementInv
<1>1. Init => ElementInv
  BY InitElements
<1>2. BuilderInv /\ BuilderInv' /\ PlacementInv /\ NamesInv /\ LetterNames /\ ElementInv /\ [Next]_vars
        => ElementInv'
  BY ElementStepKept
<1>3. QED
  BY <1>1, <1>2, BuilderInvariance, PlacementInvariance, NamesInvariance, PTL DEF Spec

LEMMA CallsTheLibrary ==
    ASSUME NamesInv, NEW u, NEW x \in Range(blocks[u]), x.op = "call",
           x.args[1] = FunctionValue(3)
    PROVE  CallsNegIdxExcept(u)
<1>1. functions[3] = Predefined[3] /\ Predefined[3].id = "neg_idx_except"
  BY PredefinedNames DEF NamesInv, OuterNames
<1>2. FunctionValue(3).ref[1] = 3
  BY DEF FunctionValue, Value
<1>3. QED
  BY <1>1, <1>2 DEF CallsNegIdxExcept

\* Every element whose index is not 0 is taken in a block that is reached
\* only by way of the comparison of that index with 0 and, when it is
\* negative, the call of neg_idx_except (cminus_builder.cpp:243-290; promised
\* by docs/cminus.md:128 and docs/design.md:223).
THEOREM ElementsAreGuarded == Spec /\ []LetterNames => []ElementsGuarded
<1>1. NamesInv /\ ElementInv => ElementsGuarded
  <2>1. SUFFICES ASSUME NamesInv, ElementInv, NEW f \in DOMAIN layout, NEW p \in InstructionsOf(f),
                        InstrAt(p).op = "gep", Last(InstrAt(p).args) # Const(0)
                 PROVE  \E c, u \in Inserted(f) :
                            /\ Preceding(f, p[1]) = {c, u} /\ c # u
                            /\ ChecksIndex(c, Last(InstrAt(p).args), u, p[1])
                            /\ Preceding(f, u) = {c}
                            /\ CallsNegIdxExcept(u)
    BY DEF ElementsGuarded
  <2> DEFINE ins == InstrAt(p)
             index == Last(ins.args)
             b == p[1]
  <2>2. b \in Inserted(f) /\ ins \in Range(blocks[b])
    <3>1. PICK d \in Inserted(f) : \E j \in DOMAIN blocks[d] : p = <<d, j>>
      BY DEF InstructionsOf
    <3>2. PICK j \in DOMAIN blocks[d] : p = <<d, j>>
      BY <3>1
    <3>3. QED
      BY <3>2 DEF InstrAt, Range
  <2>3. Indexed(ins)
    BY <2>1 DEF Indexed
  <2>4. Guarded(f, b, index)
    BY <2>1, <2>2, <2>3 DEF ElementInv, AllGuarded, Checked
  <2> HIDE DEF ins, index, b
  <2>5. PICK c, u \in Inserted(f) :
          /\ c # u /\ Preceding(f, b) = {c, u} /\ Preceding(f, u) = {c}
          /\ ChecksIndex(c, index, u, b)
          /\ \E x \in Range(blocks[u]) : x.op = "call" /\ x.args[1] = FunctionValue(3)
    BY <2>4 DEF Guarded
  <2>6. CallsNegIdxExcept(u)
    BY <2>1, <2>5, CallsTheLibrary
  <2>7. \E e, v \in Inserted(f) :
            /\ Preceding(f, b) = {e, v} /\ e # v /\ ChecksIndex(e, index, v, b)
            /\ Preceding(f, v) = {e} /\ CallsNegIdxExcept(v)
    BY <2>5, <2>6
  <2>8. QED
    BY <2>7 DEF ins, index, b
<1>2. QED
  BY <1>1, NamesInvariance, ElementInvariance, PTL
-----------------------------------------------------------------------------
(* The frames after a step: the running method returns, perhaps by way of  *)
(* the visit it ends with, or goes on as `rest', at once or after a visit. *)

Follows(rest, kinds) ==
    \/ Return
    \/ \E child : child.node \in kinds /\ work' = Append(Callers, Frame(child))
    \/ work' = Append(Callers, rest)
    \/ \E child : child.node \in kinds /\ work' = Callers \o <<rest, Frame(child)>>

LEMMA FollowsVisit ==
    ASSUME NEW rest, NEW kinds, NEW child, child.node \in kinds,
           work' = Callers \o <<rest, Frame(child)>>
    PROVE  Follows(rest, kinds)
BY DEF Follows

\* A list that one or two frames are put behind.
LEMMA OneBehind ==
    ASSUME NEW C, IsSeq(C), NEW W \in Nat, Len(C) = W - 1, NEW x
    PROVE  /\ IsSeq(Append(C, x)) /\ Len(Append(C, x)) = W /\ Append(C, x)[W] = x
           /\ \A d \in 1..W - 1 : Append(C, x)[d] = C[d]
<1>1. Len(C) + 1 = W
  OBVIOUS
<1>2. /\ IsSeq(Append(C, x)) /\ Len(Append(C, x)) = Len(C) + 1 /\ Append(C, x)[Len(C) + 1] = x
      /\ \A d \in 1..Len(C) : Append(C, x)[d] = C[d]
  BY AppendFacts
<1>3. QED
  BY <1>1, <1>2

LEMMA TwoBehind ==
    ASSUME NEW C, IsSeq(C), NEW W \in Nat, Len(C) = W - 1, NEW x, NEW y
    PROVE  /\ IsSeq(C \o <<x, y>>) /\ Len(C \o <<x, y>>) = W + 1
           /\ (C \o <<x, y>>)[W] = x /\ (C \o <<x, y>>)[W + 1] = y
           /\ \A d \in 1..W - 1 : (C \o <<x, y>>)[d] = C[d]
<1> DEFINE t == <<x, y>>
<1>1. IsSeq(t) /\ Len(t) = 2 /\ t[1] = x /\ t[2] = y
  BY ShortSeqs
<1>2. 1 \in 1..2 /\ 2 \in 1..2 /\ Len(C) + 1 = W /\ Len(C) + 2 = W + 1
  OBVIOUS
<1> HIDE DEF t
<1>3. /\ IsSeq(C \o t) /\ Len(C \o t) = Len(C) + Len(t)
      /\ \A d \in 1..Len(C) : (C \o t)[d] = C[d]
      /\ \A d \in 1..Len(t) : (C \o t)[Len(C) + d] = t[d]
  <2>1. IsSeq(C) /\ IsSeq(t)
    BY <1>1
  <2>2. QED
    BY <2>1, ConcatFacts
<1>4. (C \o t)[Len(C) + 1] = t[1] /\ (C \o t)[Len(C) + 2] = t[2]
  BY <1>1, <1>2, <1>3
<1>5. Len(C \o t) = W + 1 /\ (C \o t)[W] = x /\ (C \o t)[W + 1] = y
  <2>1. Len(C \o t) = Len(C) + 2
    BY <1>1, <1>3
  <2>2. QED
    BY <2>1, <1>1, <1>2, <1>4
<1>6. \A d \in 1..W - 1 : (C \o t)[d] = C[d]
  BY <1>3
<1>7. QED
  BY <1>3, <1>5, <1>6 DEF t

\* Which frames those are.
LEMMA FollowingFrames ==
    ASSUME BuilderInv, work # <<>>, NEW W, W = Len(work)
    PROVE  /\ W \in Nat /\ W >= 1
           /\ Return => /\ IsSeq(work') /\ Len(work') = W - 1
                        /\ \A d \in 1..W - 1 : work'[d] = work[d]
           /\ \A x : work' = Append(Callers, x) =>
                 /\ IsSeq(work') /\ Len(work') = W /\ work'[W] = x
                 /\ \A d \in 1..W - 1 : work'[d] = work[d]
           /\ \A x, y : work' = Callers \o <<x, y>> =>
                 /\ IsSeq(work') /\ Len(work') = W + 1 /\ work'[W] = x /\ work'[W + 1] = y
                 /\ \A d \in 1..W - 1 : work'[d] = work[d]
<1>1. /\ IsSeq(Callers) /\ Len(Callers) = W - 1 /\ W \in Nat /\ W >= 1
      /\ \A d \in 1..W - 1 : Callers[d] = work[d]
  BY OuterFacts
<1>2. Return => /\ IsSeq(work') /\ Len(work') = W - 1
                /\ \A d \in 1..W - 1 : work'[d] = work[d]
  BY <1>1 DEF Return
<1>3. ASSUME NEW x, work' = Append(Callers, x)
      PROVE  /\ IsSeq(work') /\ Len(work') = W /\ work'[W] = x
             /\ \A d \in 1..W - 1 : work'[d] = work[d]
  BY <1>1, <1>3, OneBehind
<1>4. ASSUME NEW x, NEW y, work' = Callers \o <<x, y>>
      PROVE  /\ IsSeq(work') /\ Len(work') = W + 1 /\ work'[W] = x /\ work'[W + 1] = y
             /\ \A d \in 1..W - 1 : work'[d] = work[d]
  BY <1>1, <1>4, TwoBehind
<1>5. QED
  BY <1>1, <1>2, <1>3, <1>4

\* In short, for the way a method goes on.
LEMMA FollowingLengths ==
    ASSUME BuilderInv, work # <<>>, NEW rest, NEW kinds, Follows(rest, kinds),
           NEW W, W = Len(work)
    PROVE  /\ IsSeq(work') /\ W \in Nat /\ W >= 1 /\ Len(work') \in {W - 1, W, W + 1}
           /\ \A d \in 1..W - 1 : work'[d] = work[d]
           /\ Len(work') = W - 1 <=> Return
           /\ Len(work') = W =>
                 work'[W] = rest \/ \E child : child.node \in kinds /\ work'[W] = Frame(child)
           /\ Len(work') = W + 1 => /\ work'[W] = rest
                                    /\ \E child : child.node \in kinds /\ work'[W + 1] = Frame(child)
<1>1. /\ W \in Nat /\ W >= 1
      /\ Return => /\ IsSeq(work') /\ Len(work') = W - 1
                   /\ \A d \in 1..W - 1 : work'[d] = work[d]
      /\ \A x : work' = Append(Callers, x) =>
            /\ IsSeq(work') /\ Len(work') = W /\ work'[W] = x
            /\ \A d \in 1..W - 1 : work'[d] = work[d]
      /\ \A x, y : work' = Callers \o <<x, y>> =>
            /\ IsSeq(work') /\ Len(work') = W + 1 /\ work'[W] = x /\ work'[W + 1] = y
            /\ \A d \in 1..W - 1 : work'[d] = work[d]
  BY FollowingFrames
<1>2. W - 1 # W /\ W - 1 # W + 1 /\ W # W + 1
  BY <1>1
<1>3. CASE Return
  BY <1>1, <1>2, <1>3
<1>4. CASE work' = Append(Callers, rest)
  BY <1>1, <1>2, <1>4
<1>5. CASE \E child : child.node \in kinds /\ work' = Append(Callers, Frame(child))
  BY <1>1, <1>2, <1>5
<1>6. CASE \E child : child.node \in kinds /\ work' = Callers \o <<rest, Frame(child)>>
  BY <1>1, <1>2, <1>6
<1>7. QED
  BY <1>3, <1>4, <1>5, <1>6 DEF Follows

\* Only what is visited last is a parameter or a variable, and what has just
\* been entered has not started.
LEMMA FollowingWalk ==
    ASSUME BuilderInv, Leaves, Unstarted, work # <<>>, NEW rest, NEW kinds, Follows(rest, kinds),
           rest.node = Top.node,
           Return \/ Top.node.node \notin {"param", "var_declaration"},
           rest.at # "visit" \/ Top.node.node \notin {"fun_declaration", "compound_stmt"}
    PROVE  /\ Leaves' /\ Unstarted'
           /\ \A kind \in {"param", "var_declaration"} :
                 Visited(kind)' # {} =>
                    /\ kind \in kinds /\ ~Return
                    /\ \E child : /\ Top' = Frame(child) /\ child.node = kind
                                  /\ Visited(kind)' = {child.id}
<1>1. PICK W : W = Len(work)
  OBVIOUS
<1>2. /\ IsSeq(work') /\ W \in Nat /\ W >= 1 /\ Len(work') \in {W - 1, W, W + 1}
      /\ \A d \in 1..W - 1 : work'[d] = work[d]
      /\ Len(work') = W - 1 <=> Return
      /\ Len(work') = W =>
            work'[W] = rest \/ \E child : child.node \in kinds /\ work'[W] = Frame(child)
      /\ Len(work') = W + 1 => /\ work'[W] = rest
                               /\ \E child : child.node \in kinds /\ work'[W + 1] = Frame(child)
  <2>1. IsSeq(work')
    BY <1>1, FollowingLengths
  <2>2. Len(work') = W - 1 <=> Return
    BY <1>1, FollowingLengths
  <2>3. \A d \in 1..W - 1 : work'[d] = work[d]
    BY <1>1, FollowingLengths
  <2>4. W \in Nat /\ W >= 1 /\ Len(work') \in {W - 1, W, W + 1}
    BY <1>1, FollowingLengths
  <2>5. Len(work') = W =>
            work'[W] = rest \/ \E child : child.node \in kinds /\ work'[W] = Frame(child)
    <3>1. CASE Return
      BY <1>1, <2>2, <2>4, <3>1
    <3>2. CASE work' = Append(Callers, rest)
      <4>1. work'[W] = rest
        BY <1>1, <3>2, FollowingFrames
      <4>2. QED
        BY <4>1
    <3>3. CASE \E child : child.node \in kinds /\ work' = Append(Callers, Frame(child))
      <4>1. PICK e : e.node \in kinds /\ work' = Append(Callers, Frame(e))
        BY <3>3
      <4>2. work'[W] = Frame(e)
        BY <1>1, <4>1, FollowingFrames
      <4>3. QED
        BY <4>1, <4>2
    <3>4. CASE \E child : child.node \in kinds /\ work' = Callers \o <<rest, Frame(child)>>
      <4>1. PICK e : work' = Callers \o <<rest, Frame(e)>>
        BY <3>4
      <4>2. Len(work') = W + 1
        BY <1>1, <4>1, FollowingFrames
      <4>3. QED
        BY <2>4, <4>2
    <3>5. QED
      BY <3>1, <3>2, <3>3, <3>4 DEF Follows
  <2>6. Len(work') = W + 1 =>
            work'[W] = rest /\ \E child : child.node \in kinds /\ work'[W + 1] = Frame(child)
    BY <1>1, FollowingLengths
  <2>7. QED
    BY <2>1, <2>2, <2>3, <2>4, <2>5, <2>6
<1>3. IsSeq(work) /\ DOMAIN work = 1..W /\ Top = work[W] /\ Len(Callers) = W - 1
  BY <1>1, OuterFacts
<1>4. \A child : Frame(child).node = child /\ Frame(child).at = "visit" /\ Frame(child).i = 0
  BY DEF Frame
\* A frame of the new walk.
<1>5. ASSUME NEW d \in 1..Len(work')
      PROVE  \/ d \in 1..W - 1 /\ work'[d] = work[d]
             \/ d = W /\ work'[d] = rest
             \/ d = Len(work') /\ \E child : child.node \in kinds /\ work'[d] = Frame(child)
  <2>1. d \in 1..W - 1 \/ d = W \/ (d = W + 1 /\ Len(work') = W + 1)
    BY <1>2
  <2>2. d = W => Len(work') = W \/ Len(work') = W + 1
    BY <1>2
  <2>3. QED
    BY <2>1, <2>2, <1>2
<1>6. Len(work') \in Nat /\ DOMAIN work' = 1..Len(work') /\ (work' # <<>> <=> Len(work') >= 1)
  BY <1>2, SeqFacts
<1>7. ASSUME Return PROVE Len(work') = W - 1
  BY <1>3, <1>7 DEF Return
<1>8. ASSUME NEW d \in 1..Len(work') - 1
      PROVE  work'[d].node.node \notin {"param", "var_declaration"}
  <2>1. d \in 1..Len(work') /\ d # Len(work')
    <3>1. \A n \in Nat : \A k \in 1..n - 1 : k \in 1..n /\ k # n
      OBVIOUS
    <3>2. QED
      BY <1>6, <3>1
  <2>2. CASE d \in 1..W - 1 /\ work'[d] = work[d]
    BY <2>2, <1>1 DEF Leaves
  <2>3. CASE d = W /\ work'[d] = rest
    <3>1. Len(work') # W - 1
      BY <2>1, <2>3, <1>2
    <3>2. QED
      BY <3>1, <2>3, <1>7
  <2>4. QED
    BY <2>1, <2>2, <2>3, <1>5
<1>9. Leaves'
  BY <1>8 DEF Leaves
<1>10. ASSUME NEW d \in 1..Len(work'),
              work'[d].node.node \in {"fun_declaration", "compound_stmt"}, work'[d].at = "visit"
       PROVE  work'[d].i = 0
  <2>1. CASE d \in 1..W - 1 /\ work'[d] = work[d]
    <3>1. d \in DOMAIN work
      BY <2>1, <1>2, <1>3
    <3>2. QED
      BY <3>1, <2>1, <1>10 DEF Unstarted
  <2>2. CASE d = W /\ work'[d] = rest
    BY <2>2, <1>10
  <2>3. CASE \E child : work'[d] = Frame(child)
    BY <2>3, <1>4
  <2>4. QED
    BY <2>1, <2>2, <2>3, <1>5
<1>11. Unstarted'
  BY <1>10, <1>6 DEF Unstarted
<1>12. ASSUME NEW kind \in {"param", "var_declaration"}, Visited(kind)' # {}
       PROVE  /\ kind \in kinds /\ ~Return
              /\ \E child : Top' = Frame(child) /\ child.node = kind /\ Visited(kind)' = {child.id}
  <2>1. work' # <<>> /\ Top'.node.node = kind /\ Visited(kind)' = {Top'.node.id}
    BY <1>12 DEF Visited
  <2>2. Top' = work'[Len(work')] /\ Len(work') \in 1..Len(work')
    BY <2>1, <1>6 DEF Top, Last
  <2> DEFINE e == Len(work')
  <2>3. CASE e \in 1..W - 1 /\ work'[e] = work[e]
    BY <2>1, <2>2, <2>3, <1>1, <1>12 DEF Leaves
  <2>4. CASE e = W /\ work'[e] = rest
    <3>1. ~Return
      BY <2>4, <1>2, <1>7
    <3>2. QED
      BY <3>1, <2>1, <2>2, <2>4, <1>12
  <2>5. ASSUME NEW child, child.node \in kinds, work'[e] = Frame(child), ~(e \in 1..W - 1 /\ work'[e] = work[e])
        PROVE  /\ kind \in kinds /\ ~Return
               /\ Top' = Frame(child) /\ child.node = kind /\ Visited(kind)' = {child.id}
    <3>1. ~Return
      BY <2>2, <2>5, <1>2, <1>7
    <3>2. QED
      BY <3>1, <2>1, <2>2, <2>5, <1>4
  <2>6. QED
    BY <2>2, <2>3, <2>4, <2>5, <1>5
<1>13. QED
  BY <1>9, <1>11, <1>12
-----------------------------------------------------------------------------
(* The steps of statements and expressions.                                *)

\* What a statement or an expression is made of.
BodyKinds == Statements \cup OperandKinds

\* Above the body of a function, both of its scopes are there.
LEMMA BodyFacts ==
    ASSUME BuilderInv, DeclarationInv, Len(work) >= 4
    PROVE  /\ InFunction /\ work[2].node.node = "fun_declaration" /\ Len(scope) = 3
           /\ work[3].node.node = "compound_stmt" /\ work[3].at # "visit" /\ work[3].will_enter_scope
           /\ isFunctionTopCompoundStatement = FALSE
           /\ work # <<>> /\ Top.node.node # "param" /\ Visited("param") = {}
<1>1. Len(work) \in Nat /\ IsSeq(work) /\ Len(work) # 3 /\ Len(work) >= 3 /\ InFunction
      /\ 3 \in 1..Len(work) - 1
  <2>1. IsSeq(work)
    BY DEF BuilderInv, Walk
  <2>2. Len(work) \in Nat
    BY <2>1, SeqFacts
  <2>3. Len(work) # 3 /\ Len(work) >= 3 /\ 3 \in 1..Len(work) - 1
    <3>1. \A n \in Nat : n >= 4 => n # 3 /\ n >= 3 /\ 3 \in 1..n - 1
      OBVIOUS
    <3>2. QED
      BY <2>2, <3>1
  <2>4. QED
    BY <2>1, <2>2, <2>3 DEF BuilderInv, Walk
<1>2. work # <<>>
  BY <1>1, SeqFacts
<1>3. isFunctionTopCompoundStatement = FALSE
  BY <1>1 DEF BuilderInv, Scoping
<1>4. work[3].node.node = "compound_stmt"
  BY <1>1 DEF DeclarationInv, Body, Leaves
<1>5. work[3].at # "visit" /\ work[3].will_enter_scope
  BY <1>1, <1>3, <1>4 DEF DeclarationInv, Body
<1>6. Len(scope) = 3
  BY <1>1, <1>5 DEF BuilderInv, Scoping
<1>7. Visited("param") = {}
  BY <1>1 DEF DeclarationInv, Depths
<1>8. Top.node.node # "param"
  BY <1>2, <1>7 DEF Visited
<1>9. QED
  BY <1>1, <1>2, <1>3, <1>4, <1>5, <1>6, <1>7, <1>8 DEF InFunction

\* Statements and expressions are above the body of a function.
LEMMA InsideBody ==
    ASSUME BuilderInv, DeclarationInv, work # <<>>,
           Top.node.node \in BodyKinds \ {"compound_stmt"}
    PROVE  Len(work) >= 4
<1>1. Top.node.node \notin {"program", "fun_declaration", "var_declaration", "param", "compound_stmt"}
  BY DEF BodyKinds, Statements, OperandKinds, Factors, Expressions
<1>2. Len(work) >= 3
  BY <1>1, InnerFacts
<1>3. Len(work) \in Nat /\ Top = work[Len(work)]
  BY OuterFacts
<1>4. Len(work) # 3
  BY <1>1, <1>2, <1>3 DEF DeclarationInv, Body
<1>5. \A n \in Nat : n >= 3 /\ n # 3 => n >= 4
  OBVIOUS
<1>6. QED
  BY <1>2, <1>3, <1>4, <1>5

\* Above the body of a function a step that declares nothing keeps what has
\* been declared.
LEMMA InsideKeeps ==
    ASSUME BuilderInv, DeclarationInv, Len(work) >= 4,
           NEW rest, Follows(rest, BodyKinds), rest.node = Top.node,
           rest.at # "visit" \/ Top.node.node # "compound_stmt",
           Top.node.node # "var_declaration", UNCHANGED scope
    PROVE  DeclarationInv'
<1>1. /\ InFunction /\ work[2].node.node = "fun_declaration" /\ Len(scope) = 3
      /\ work[3].node.node = "compound_stmt" /\ work[3].at # "visit" /\ work[3].will_enter_scope
      /\ work # <<>> /\ Top.node.node # "param" /\ Visited("param") = {}
  BY BodyFacts
<1>2. PICK W : W = Len(work)
  OBVIOUS
<1>3. /\ IsSeq(work') /\ W \in Nat /\ Len(work') \in {W - 1, W, W + 1}
      /\ \A d \in 1..W - 1 : work'[d] = work[d]
  BY <1>1, <1>2, FollowingLengths
<1>4. work'[2] = work[2] /\ work'[3] = work[3] /\ Len(work') >= 3 /\ Len(work') >= 2
  BY <1>2, <1>3
<1>5. Top.node.node # "fun_declaration"
  <2>1. Len(work) # 2
    BY <1>2, <1>3
  <2>2. QED
    BY <2>1, <1>1, OuterFacts
<1>6. "param" \notin BodyKinds /\ "var_declaration" \notin BodyKinds
  BY DEF BodyKinds, Statements, OperandKinds, Factors, Expressions
<1>7. Leaves' /\ Unstarted' /\ \A kind \in {"param", "var_declaration"} : Visited(kind)' = {}
  <2>1. Leaves /\ Unstarted
    BY DEF DeclarationInv
  <2>2. /\ Leaves' /\ Unstarted'
        /\ \A kind \in {"param", "var_declaration"} : Visited(kind)' # {} => kind \in BodyKinds
    BY <2>1, <1>1, <1>5, FollowingWalk
  <2>3. QED
    BY <2>2, <1>6
<1>8. Body' /\ Depths'
  BY <1>1, <1>4, <1>7 DEF Body, Depths
<1>9. DeclaredNames'
  <2>1. Visited("var_declaration") = {}
    BY DEF Visited
  <2>2. DeclaredIn(work[2]) = DOMAIN scope[2] /\ DeclaredIn(work[3]) = DOMAIN scope[3]
    BY <2>1, <1>1 DEF DeclarationInv, DeclaredNames
  <2>3. DeclaredIn(work[2])' = DeclaredIn(work[2]) /\ DeclaredIn(work[3])' = DeclaredIn(work[3])
    BY <1>4 DEF DeclaredIn
  <2>4. Visited("param")' = {} /\ Visited("var_declaration")' = {}
    BY <1>7
  <2>5. QED
    BY <2>2, <2>3, <2>4 DEF DeclaredNames
<1>10. QED
  BY <1>7, <1>8, <1>9 DEF DeclarationInv

\* The ways statements and expressions go on.
LEMMA InsideFollows ==
    ASSUME BuilderInv,
           \/ VisitExpresionStmt \/ VisitNum \/ VisitVar \/ VisitElement
           \/ VisitAssignExpression \/ AssignExpressionVar \/ VisitOperator
           \/ VisitSelectionStmt \/ SelectionCondition \/ SelectionElse \/ SelectionEnd
           \/ VisitIterationStmt \/ IterationCondition \/ IterationEnd
           \/ VisitReturnStmt \/ ReturnValue
           \/ AssignExpressionValue \/ OperatorLeft \/ OperatorRight \/ VisitCall \/ CallArgument
           \/ ElementIndex
    PROVE  /\ work # <<>> /\ Top.node.node \in BodyKinds \ {"compound_stmt"} /\ UNCHANGED scope
           /\ \E rest : Follows(rest, BodyKinds) /\ rest.node = Top.node
<1>1. work # <<>> /\ Top.node.node \in BodyKinds \ {"compound_stmt"}
  BY DEF VisitExpresionStmt, VisitNum, VisitVar, VisitElement, VisitAssignExpression,
         AssignExpressionVar, VisitOperator, VisitSelectionStmt, SelectionCondition, SelectionElse,
         SelectionEnd, VisitIterationStmt, IterationCondition, IterationEnd, VisitReturnStmt,
         ReturnValue, AssignExpressionValue, OperatorLeft, OperatorRight, VisitCall, CallArgument,
         ElementIndex, Running, BodyKinds, Statements, OperandKinds, Factors, Expressions, Operators
<1>2. UNCHANGED scope
  BY DEF VisitExpresionStmt, VisitNum, VisitVar, VisitElement, VisitAssignExpression,
         AssignExpressionVar, VisitOperator, VisitSelectionStmt, SelectionCondition, SelectionElse,
         SelectionEnd, VisitIterationStmt, IterationCondition, IterationEnd, VisitReturnStmt,
         ReturnValue, AssignExpressionValue, OperatorLeft, OperatorRight, VisitCall, CallArgument,
         ElementIndex
<1>3. DOMAIN Top = {"at", "node", "i", "vals", "todo", "bb_condition", "will_enter_scope"}
  BY <1>1, OuterFacts
<1>4. ASSUME Return \/ \E child, kinds : kinds \subseteq BodyKinds /\ TailVisit(child, kinds)
      PROVE  \E rest : Follows(rest, BodyKinds) /\ rest.node = Top.node
  <2>1. Follows(Top, BodyKinds)
    BY <1>4 DEF Follows, TailVisit
  <2>2. QED
    BY <2>1
<1>5. ASSUME NEW rest, rest.node = Top.node,
             \E child, kinds : kinds \subseteq BodyKinds /\ Visit(child, kinds, rest)
      PROVE  \E r : Follows(r, BodyKinds) /\ r.node = Top.node
  BY <1>5 DEF Follows, Visit
<1>6. /\ Expressions \subseteq BodyKinds /\ Statements \subseteq BodyKinds /\ OperandKinds \subseteq BodyKinds
      /\ {"var"} \subseteq BodyKinds
  BY DEF BodyKinds, Statements, OperandKinds, Factors, Expressions
<1>7. CASE Return
  BY <1>1, <1>2, <1>4, <1>7
<1>8. CASE VisitExpresionStmt \/ VisitOperator
  <2> DEFINE rest == [Top EXCEPT !.at = "left"]
  <2>1. \/ Return \/ \E child, kinds : kinds \subseteq BodyKinds /\ TailVisit(child, kinds)
        \/ \E child, kinds : kinds \subseteq BodyKinds /\ Visit(child, kinds, rest)
    BY <1>6, <1>8 DEF VisitExpresionStmt, VisitOperator
  <2>2. rest.node = Top.node
    BY <1>3
  <2> HIDE DEF rest
  <2>3. QED
    BY <2>1, <2>2, <1>1, <1>2, <1>4, <1>5
<1>9. CASE VisitElement
  <2> DEFINE rest == [Top EXCEPT !.at = "index", !.vals = <<Find(scope, Top.node.id)>>]
  <2>1. \E child : Visit(child, Expressions, rest)
    BY <1>9 DEF VisitElement
  <2>2. rest.node = Top.node
    BY <1>3
  <2> HIDE DEF rest
  <2>3. QED
    BY <2>1, <2>2, <1>1, <1>2, <1>5, <1>6
<1>10. CASE VisitAssignExpression
  <2> DEFINE rest == [Top EXCEPT !.at = "var"]
  <2>1. \E child : Visit(child, {"var"}, rest)
    BY <1>10 DEF VisitAssignExpression
  <2>2. rest.node = Top.node
    BY <1>3
  <2> HIDE DEF rest
  <2>3. QED
    BY <2>1, <2>2, <1>1, <1>2, <1>5, <1>6
<1>11. CASE AssignExpressionVar
  <2> DEFINE rest == [Top EXCEPT !.at = "value", !.vals = currentPointer.args]
  <2>1. \E child : Visit(child, Expressions, rest)
    BY <1>11 DEF AssignExpressionVar
  <2>2. rest.node = Top.node
    BY <1>3
  <2> HIDE DEF rest
  <2>3. QED
    BY <2>1, <2>2, <1>1, <1>2, <1>5, <1>6
<1>12. CASE VisitSelectionStmt
  <2> DEFINE k == IF Top.node.else_statement = Nullptr THEN 2 ELSE 3
             rest == [Top EXCEPT !.at = "condition", !.todo = [j \in 1..k |-> Fresh(j)]]
  <2>1. \E child : Visit(child, Expressions, rest)
    BY <1>12 DEF VisitSelectionStmt
  <2>2. rest.node = Top.node
    BY <1>3
  <2> HIDE DEF k, rest
  <2>3. QED
    BY <2>1, <2>2, <1>1, <1>2, <1>5, <1>6
<1>13. CASE SelectionCondition
  <2> DEFINE rest == [Top EXCEPT !.at = "arm", !.todo = Tail(Top.todo)]
  <2>1. \E child : Visit(child, Statements, rest)
    BY <1>13 DEF SelectionCondition
  <2>2. rest.node = Top.node
    BY <1>3
  <2> HIDE DEF rest
  <2>3. QED
    BY <2>1, <2>2, <1>1, <1>2, <1>5, <1>6
<1>14. CASE SelectionElse
  <2> DEFINE rest == [Top EXCEPT !.todo = Tail(Top.todo)]
  <2>1. \E child : Visit(child, Statements, rest)
    BY <1>14 DEF SelectionElse
  <2>2. rest.node = Top.node
    BY <1>3
  <2> HIDE DEF rest
  <2>3. QED
    BY <2>1, <2>2, <1>1, <1>2, <1>5, <1>6
<1>15. CASE VisitIterationStmt
  <2> DEFINE rest == [Top EXCEPT !.at = "condition", !.bb_condition = Fresh(1),
                                 !.todo = <<Fresh(2), Fresh(3)>>]
  <2>1. \E child : Visit(child, Expressions, rest)
    BY <1>15 DEF VisitIterationStmt
  <2>2. rest.node = Top.node
    BY <1>3
  <2> HIDE DEF rest
  <2>3. QED
    BY <2>1, <2>2, <1>1, <1>2, <1>5, <1>6
<1>16. CASE IterationCondition
  <2> DEFINE rest == [Top EXCEPT !.at = "end", !.todo = Tail(Top.todo)]
  <2>1. \E child : Visit(child, Statements, rest)
    BY <1>16 DEF IterationCondition
  <2>2. rest.node = Top.node
    BY <1>3
  <2> HIDE DEF rest
  <2>3. QED
    BY <2>1, <2>2, <1>1, <1>2, <1>5, <1>6
<1>17. CASE VisitReturnStmt /\ ~Return
  <2> DEFINE rest == [Top EXCEPT !.at = "value"]
  <2>1. \E child : Visit(child, Expressions, rest)
    BY <1>17 DEF VisitReturnStmt
  <2>2. rest.node = Top.node
    BY <1>3
  <2> HIDE DEF rest
  <2>3. QED
    BY <2>1, <2>2, <1>1, <1>2, <1>5, <1>6
<1>18. CASE OperatorLeft
  <2> DEFINE rest == [Top EXCEPT !.at = "right", !.vals = <<Forced.val>>]
  <2>1. \E child : Visit(child, OperandKinds, rest)
    BY <1>18 DEF OperatorLeft
  <2>2. rest.node = Top.node
    BY <1>3
  <2> HIDE DEF rest
  <2>3. QED
    BY <2>1, <2>2, <1>1, <1>2, <1>5, <1>6
<1>19. CASE VisitCall /\ ~Return
  <2> DEFINE rest == [Top EXCEPT !.i = @ + 1, !.at = "args"]
  <2>1. \E child : Visit(child, Expressions, rest)
    BY <1>19 DEF VisitCall, EmitCall, NextArgument
  <2>2. rest.node = Top.node
    BY <1>3
  <2> HIDE DEF rest
  <2>3. QED
    BY <2>1, <2>2, <1>1, <1>2, <1>5, <1>6
<1>20. CASE CallArgument /\ ~Return
  <2>1. PICK list : NextArgument([Top EXCEPT !.vals = list])
    BY <1>20 DEF CallArgument, EmitCall
  <2> DEFINE frame == [Top EXCEPT !.vals = list]
             rest == [frame EXCEPT !.i = @ + 1, !.at = "args"]
  <2>2. \E child : Visit(child, Expressions, rest)
    BY <2>1 DEF NextArgument
  <2>3. rest.node = Top.node
    BY <1>3
  <2> HIDE DEF frame, rest
  <2>4. QED
    BY <2>2, <2>3, <1>1, <1>2, <1>5, <1>6
<1>21. CASE \/ VisitNum \/ VisitVar \/ SelectionEnd \/ IterationEnd \/ ReturnValue
            \/ AssignExpressionValue \/ OperatorRight \/ ElementIndex
  BY <1>7, <1>21 DEF VisitNum, VisitVar, SelectionEnd, IterationEnd, ReturnValue,
                     AssignExpressionValue, OperatorRight, ElementIndex
<1>22. QED
  BY <1>7, <1>8, <1>9, <1>10, <1>11, <1>12, <1>13, <1>14, <1>15, <1>16, <1>17, <1>18, <1>19, <1>20,
     <1>21

LEMMA InsideDeclares ==
    ASSUME BuilderInv, DeclarationInv,
           \/ VisitExpresionStmt \/ VisitNum \/ VisitVar \/ VisitElement
           \/ VisitAssignExpression \/ AssignExpressionVar \/ VisitOperator
           \/ VisitSelectionStmt \/ SelectionCondition \/ SelectionElse \/ SelectionEnd
           \/ VisitIterationStmt \/ IterationCondition \/ IterationEnd
           \/ VisitReturnStmt \/ ReturnValue
           \/ AssignExpressionValue \/ OperatorLeft \/ OperatorRight \/ VisitCall \/ CallArgument
           \/ ElementIndex
    PROVE  DeclarationInv'
<1>1. work # <<>> /\ Top.node.node \in BodyKinds \ {"compound_stmt"} /\ UNCHANGED scope
  BY InsideFollows
<1>2. PICK rest : Follows(rest, BodyKinds) /\ rest.node = Top.node
  BY InsideFollows
<1>3. Len(work) >= 4
  BY <1>1, InsideBody
<1>4. Top.node.node # "compound_stmt" /\ Top.node.node # "var_declaration"
  BY <1>1 DEF BodyKinds, Statements, OperandKinds, Factors, Expressions
<1>5. QED
  BY <1>1, <1>2, <1>3, <1>4, InsideKeeps

-----------------------------------------------------------------------------
(* The steps of compound statements.                                       *)

\* The names declared when one more declaration has been visited, or a
\* statement.
LEMMA DeclaredMore ==
    ASSUME NEW list, IsSeq(list), NEW i \in Nat
    PROVE  LET names(n) == {list[d].id : d \in {e \in DOMAIN list : e <= n}}
           IN  /\ names(0) = {}
               /\ i < Len(list) => names(i + 1) = names(i) \cup {list[i + 1].id}
               /\ i >= Len(list) => names(i + 1) = names(i)
<1> DEFINE names(n) == {list[d].id : d \in {e \in DOMAIN list : e <= n}}
           upto(n) == {e \in DOMAIN list : e <= n}
<1>1. DOMAIN list = 1..Len(list) /\ Len(list) \in Nat
  BY SeqFacts
<1>2. upto(0) = {}
  BY <1>1
<1>3. i < Len(list) => upto(i + 1) = upto(i) \cup {i + 1}
  BY <1>1
<1>4. i >= Len(list) => upto(i + 1) = upto(i)
  BY <1>1
<1>5. \A n : names(n) = {list[d].id : d \in upto(n)}
  OBVIOUS
<1> HIDE DEF upto
<1>6. names(0) = {}
  BY <1>2, <1>5
<1>7. i < Len(list) => names(i + 1) = names(i) \cup {list[i + 1].id}
  BY <1>3, <1>5
<1>8. i >= Len(list) => names(i + 1) = names(i)
  BY <1>4, <1>5
<1>9. QED
  BY <1>6, <1>7, <1>8

\* Where a compound statement runs.
LEMMA CompoundFacts ==
    ASSUME BuilderInv, Flat, NEW at, Running("compound_stmt", at)
    PROVE  /\ Len(work) \in Nat /\ (Len(work) = 3 \/ Len(work) >= 4)
           /\ work # <<>> /\ Top = work[Len(work)] /\ InFunction /\ Top.i \in Nat
           /\ Top.node.node = "compound_stmt" /\ Top.at = at
           /\ IsSeq(Top.node.local_declarations)
           /\ Len(work) >= 4 => Top.node.local_declarations = <<>> /\ ~Top.will_enter_scope
           /\ DOMAIN Top = {"at", "node", "i", "vals", "todo", "bb_condition", "will_enter_scope"}
<1>1. work # <<>> /\ Top.node.node = "compound_stmt" /\ Top.at = at
  BY DEF Running
<1>2. Len(work) >= 3
  BY <1>1, InnerFacts
<1>3. /\ Len(work) \in Nat /\ Top = work[Len(work)] /\ Top.i \in Nat /\ DOMAIN work = 1..Len(work)
      /\ DOMAIN Top = {"at", "node", "i", "vals", "todo", "bb_condition", "will_enter_scope"}
  BY <1>1, OuterFacts
<1>4. Len(work) = 3 \/ Len(work) >= 4
  BY <1>2, <1>3
<1>5. Len(work) \in DOMAIN work /\ (Len(work) >= 4 => Len(work) # 3 /\ Len(work) \in 4..Len(work))
  BY <1>2, <1>3
<1>6. InFunction
  BY <1>2 DEF BuilderInv, Walk
<1>7. Len(work) >= 4 => ~Top.will_enter_scope
  BY <1>3, <1>5 DEF BuilderInv, Scoping
<1>8. IsSeq(Top.node.local_declarations)
      /\ (Len(work) >= 4 => Top.node.local_declarations = <<>>)
  BY <1>1, <1>3, <1>5 DEF Flat
<1>9. QED
  BY <1>1, <1>3, <1>4, <1>6, <1>7, <1>8

\* The body of a function opens its scope.
LEMMA VisitCompoundDeclares ==
    ASSUME BuilderInv, BuilderInv', Flat, DeclarationInv, VisitCompoundStmt
    PROVE  DeclarationInv'
<1> DEFINE rest == [Top EXCEPT !.at = "items",
                       !.will_enter_scope = isFunctionTopCompoundStatement]
<1>1. /\ Len(work) = 3 \/ Len(work) >= 4
      /\ work # <<>> /\ Top = work[Len(work)] /\ InFunction
      /\ Top.node.node = "compound_stmt" /\ Top.at = "visit"
      /\ IsSeq(Top.node.local_declarations)
      /\ DOMAIN Top = {"at", "node", "i", "vals", "todo", "bb_condition", "will_enter_scope"}
  BY CompoundFacts DEF VisitCompoundStmt
<1>2. work' = Append(Callers, rest)
  BY DEF VisitCompoundStmt
<1>3. /\ rest.node = Top.node /\ rest.at = "items" /\ rest.i = Top.i
      /\ rest.will_enter_scope = isFunctionTopCompoundStatement
  BY <1>1
<1> HIDE DEF rest
<1>4. Follows(rest, BodyKinds)
  BY <1>2 DEF Follows
<1>5. CASE Len(work) >= 4
  <2>1. isFunctionTopCompoundStatement = FALSE
    BY <1>5, BodyFacts
  <2>2. UNCHANGED scope
    BY <2>1 DEF VisitCompoundStmt
  <2>3. QED
    BY <1>1, <1>3, <1>4, <1>5, <2>2, InsideKeeps
<1>6. CASE Len(work) = 3
  <2>1. Top = work[3] /\ isFunctionTopCompoundStatement
    BY <1>1, <1>6 DEF DeclarationInv, Body
  <2>2. Top.i = 0
    <3>1. 3 \in DOMAIN work
      BY <1>1, <1>6, OuterFacts
    <3>2. QED
      BY <3>1, <2>1, <1>1 DEF DeclarationInv, Unstarted
  <2>3. /\ IsSeq(work') /\ Len(work') = 3 /\ work'[3] = rest /\ work'[2] = work[2]
    <3>1. /\ IsSeq(work') /\ Len(work') = 3 /\ work'[3] = rest
          /\ \A d \in 1..3 - 1 : work'[d] = work[d]
      BY <1>1, <1>2, <1>6, FollowingFrames
    <3>2. QED
      BY <3>1
  <2>4. Leaves' /\ Unstarted' /\ \A kind \in {"param", "var_declaration"} : Visited(kind)' = {}
    <3>1. "param" \notin BodyKinds /\ "var_declaration" \notin BodyKinds
      BY DEF BodyKinds, Statements, OperandKinds, Factors, Expressions
    <3>2. Leaves /\ Unstarted
      BY DEF DeclarationInv
    <3>3. /\ Leaves' /\ Unstarted'
          /\ \A kind \in {"param", "var_declaration"} : Visited(kind)' # {} => kind \in BodyKinds
      BY <1>1, <1>3, <1>4, <3>2, FollowingWalk
    <3>4. QED
      BY <3>1, <3>3
  <2>5. Body' /\ Depths'
    BY <1>1, <1>3, <2>1, <2>3, <2>4 DEF Body, Depths
  <2>6. DeclaredNames'
    <3>1. IsSeq(scope) /\ scope' = Enter(scope) /\ Len(scope) = 2
      <4>1. scope' = Enter(scope)
        BY <2>1 DEF VisitCompoundStmt
      <4>2. ~Top.will_enter_scope
        BY <1>1, <1>6, <2>1, OuterFacts DEF BuilderInv, Scoping
      <4>3. IsSeq(scope) /\ Len(scope) = 2
        BY <1>1, <1>6, <2>1, <4>2 DEF BuilderInv, Scoping
      <4>4. QED
        BY <4>1, <4>3
    <3>2. DOMAIN scope'[3] = {} /\ scope'[2] = scope[2]
      <4>1. Len(scope) + 1 = 3 /\ 2 \in 1..Len(scope)
        BY <3>1
      <4>2. DOMAIN Enter(scope)[Len(scope) + 1] = {} /\ Enter(scope)[2] = scope[2]
        BY <3>1, <4>1, EnterFacts
      <4>3. QED
        BY <3>1, <4>1, <4>2
    <3>3. DeclaredIn(rest) = {}
      BY <1>1, <1>3, <2>2, DeclaredMore DEF DeclaredIn
    <3>4. DeclaredIn(work[2]) = DOMAIN scope[2]
      <4>1. Visited("param") = {}
        BY <1>1 DEF Visited
      <4>2. QED
        BY <4>1, <1>1 DEF DeclarationInv, DeclaredNames
    <3>5. DeclaredIn(work[2])' = DeclaredIn(work[2]) /\ DeclaredIn(work[3])' = DeclaredIn(rest)
      BY <2>3 DEF DeclaredIn
    <3>6. QED
      BY <2>4, <3>2, <3>3, <3>4, <3>5 DEF DeclaredNames
  <2>7. QED
    BY <2>4, <2>5, <2>6 DEF DeclarationInv
<1>7. QED
  BY <1>1, <1>5, <1>6

\* A declaration or a statement of it is visited.
LEMMA CompoundItemDeclares ==
    ASSUME BuilderInv, BuilderInv', Flat, DeclarationInv, CompoundItem
    PROVE  DeclarationInv'
<1> DEFINE rest == [Top EXCEPT !.i = @ + 1]
<1>1. /\ Len(work) = 3 \/ Len(work) >= 4
      /\ work # <<>> /\ Top = work[Len(work)] /\ InFunction /\ Top.i \in Nat
      /\ Top.node.node = "compound_stmt" /\ Top.at = "items"
      /\ IsSeq(Top.node.local_declarations)
      /\ Len(work) >= 4 => Top.node.local_declarations = <<>>
      /\ DOMAIN Top = {"at", "node", "i", "vals", "todo", "bb_condition", "will_enter_scope"}
  BY CompoundFacts DEF CompoundItem
<1>2. PICK list : list = Top.node.local_declarations
  OBVIOUS
<1>3. \/ Top.i < Len(list) /\ Visit(list[Top.i + 1], {"var_declaration"}, rest)
      \/ Top.i >= Len(list) /\ \E child : Visit(child, Statements, rest)
  <2>1. CASE Top.i < Len(list) /\ Visit(list[Top.i + 1], {"var_declaration"}, rest)
    BY <2>1
  <2>2. CASE \E n : Top.i \in Len(list) .. n /\ \E child : Visit(child, Statements, rest)
    BY <2>2, <1>1, <1>2, SeqFacts
  <2>3. QED
    BY <2>1, <2>2, <1>2 DEF CompoundItem
<1>4. /\ rest.node = Top.node /\ rest.at = "items" /\ rest.i = Top.i + 1
      /\ rest.will_enter_scope = Top.will_enter_scope
  BY <1>1
<1> HIDE DEF rest
<1>5. UNCHANGED scope
  BY DEF CompoundItem
<1>6. CASE Len(work) >= 4
  <2>1. ~(Top.i < Len(list))
    BY <1>1, <1>2, <1>6, ShortSeqs
  <2>2. Follows(rest, BodyKinds)
    BY <2>1, <1>3 DEF Follows, Visit, BodyKinds
  <2>3. QED
    BY <1>1, <1>4, <1>5, <1>6, <2>2, InsideKeeps
<1>7. CASE Len(work) = 3
  <2>1. Top = work[3] /\ Top.will_enter_scope /\ Len(scope) = 3
    <3>1. Top = work[3] /\ Top.will_enter_scope
      BY <1>1, <1>7 DEF DeclarationInv, Body
    <3>2. QED
      BY <3>1, <1>1, <1>7 DEF BuilderInv, Scoping
  <2> DEFINE kinds == {"var_declaration"} \cup Statements
  <2>2. Follows(rest, kinds)
    BY <1>3 DEF Follows, Visit
  <2>3. \E child : work' = Callers \o <<rest, Frame(child)>>
    BY <1>3 DEF Visit
  <2>4. /\ IsSeq(work') /\ Len(work') = 4 /\ work'[3] = rest /\ work'[2] = work[2]
        /\ \A child : work' = Callers \o <<rest, Frame(child)>> => work'[4] = Frame(child)
    <3>1. ASSUME NEW child, work' = Callers \o <<rest, Frame(child)>>
          PROVE  /\ IsSeq(work') /\ Len(work') = 3 + 1 /\ work'[3] = rest
                 /\ \A d \in 1..3 - 1 : work'[d] = work[d]
                 /\ work'[3 + 1] = Frame(child)
      BY <1>1, <1>7, <3>1, FollowingFrames
    <3>2. 2 \in 1..3 - 1 /\ 3 + 1 = 4
      OBVIOUS
    <3>3. QED
      BY <2>3, <3>1, <3>2
  <2>5. /\ Leaves' /\ Unstarted' /\ Visited("param")' = {}
        /\ Visited("var_declaration")' # {} => \E child : /\ Top' = Frame(child)
                                                         /\ child.node = "var_declaration"
                                                         /\ Visited("var_declaration")' = {child.id}
    <3>1. "param" \notin kinds
      BY DEF Statements
    <3>2. Leaves /\ Unstarted
      BY DEF DeclarationInv
    <3>3. /\ Leaves' /\ Unstarted'
          /\ \A kind \in {"param", "var_declaration"} :
                Visited(kind)' # {} =>
                   /\ kind \in kinds
                   /\ \E child : Top' = Frame(child) /\ child.node = kind /\ Visited(kind)' = {child.id}
      BY <1>1, <1>4, <2>2, <3>2, FollowingWalk
    <3>4. QED
      BY <3>1, <3>3
  <2>6. Body' /\ Depths'
    BY <1>1, <1>4, <2>1, <2>4, <2>5 DEF Body, Depths
  <2>7. Top' = work'[4] /\ work' # <<>>
    BY <2>4, SeqFacts DEF Top, Last
  <2>8. DeclaredIn(work[2]) = DOMAIN scope[2] /\ DeclaredIn(Top) = DOMAIN scope[3]
    <3>1. Visited("param") = {} /\ Visited("var_declaration") = {}
      BY <1>1 DEF Visited
    <3>2. QED
      BY <3>1, <2>1, <1>1 DEF DeclarationInv, DeclaredNames
  <2>9. DeclaredIn(rest) = DeclaredIn(Top) \cup Visited("var_declaration")'
    <3> DEFINE names(n) == {list[d].id : d \in {e \in DOMAIN list : e <= n}}
    <3>1. /\ DeclaredIn(Top) = names(Top.i) /\ DeclaredIn(rest) = names(Top.i + 1)
      BY <1>1, <1>2, <1>4 DEF DeclaredIn
    <3>2. /\ Top.i < Len(list) => names(Top.i + 1) = names(Top.i) \cup {list[Top.i + 1].id}
          /\ Top.i >= Len(list) => names(Top.i + 1) = names(Top.i)
      BY <1>1, <1>2, DeclaredMore
    <3> HIDE DEF names
    <3>3. CASE Top.i < Len(list) /\ Visit(list[Top.i + 1], {"var_declaration"}, rest)
      <4>1. Top' = Frame(list[Top.i + 1]) /\ list[Top.i + 1].node = "var_declaration"
        BY <2>4, <2>7, <3>3 DEF Visit
      <4>2. Visited("var_declaration")' = {list[Top.i + 1].id}
        BY <4>1, <2>7 DEF Visited, Frame
      <4>3. QED
        BY <3>1, <3>2, <3>3, <4>2
    <3>4. CASE Top.i >= Len(list) /\ \E child : Visit(child, Statements, rest)
      <4>1. PICK child : child.node \in Statements /\ Top' = Frame(child)
        BY <2>4, <2>7, <3>4 DEF Visit
      <4>2. Visited("var_declaration")' = {}
        BY <4>1, <2>7 DEF Visited, Frame, Statements
      <4>3. QED
        BY <3>1, <3>2, <3>4, <4>2
    <3>5. QED
      BY <1>3, <3>3, <3>4
  <2>10. DeclaredNames'
    <3>1. DeclaredIn(work[2])' = DeclaredIn(work[2]) /\ DeclaredIn(work[3])' = DeclaredIn(rest)
      BY <2>4 DEF DeclaredIn
    <3>2. QED
      BY <1>5, <2>5, <2>8, <2>9, <3>1 DEF DeclaredNames
  <2>11. QED
    BY <2>5, <2>6, <2>10 DEF DeclarationInv
<1>8. QED
  BY <1>1, <1>6, <1>7

\* The body of a function closes its scope.
LEMMA CompoundEndDeclares ==
    ASSUME BuilderInv, BuilderInv', Flat, DeclarationInv, CompoundEnd
    PROVE  DeclarationInv'
<1>1. /\ Len(work) = 3 \/ Len(work) >= 4
      /\ work # <<>> /\ Top = work[Len(work)] /\ InFunction
      /\ Top.node.node = "compound_stmt" /\ Top.at = "items"
      /\ Len(work) >= 4 => ~Top.will_enter_scope
  BY CompoundFacts DEF CompoundEnd
<1>2. Return
  BY DEF CompoundEnd
<1>3. Follows(Top, BodyKinds)
  BY <1>2 DEF Follows
<1>4. CASE Len(work) >= 4
  <2>1. UNCHANGED scope
    BY <1>1, <1>4 DEF CompoundEnd
  <2>2. QED
    BY <1>1, <1>3, <1>4, <2>1, InsideKeeps
<1>5. CASE Len(work) = 3
  <2>1. IsSeq(work') /\ Len(work') = 2 /\ work'[2] = work[2]
    <3>1. IsSeq(Callers) /\ Len(Callers) = 2 /\ \A d \in 1..2 : Callers[d] = work[d]
      BY <1>1, <1>5, OuterFacts
    <3>2. QED
      BY <3>1, <1>2 DEF Return
  <2>2. Leaves' /\ Unstarted' /\ \A kind \in {"param", "var_declaration"} : Visited(kind)' = {}
    <3>1. Leaves /\ Unstarted
      BY DEF DeclarationInv
    <3>2. /\ Leaves' /\ Unstarted'
          /\ \A kind \in {"param", "var_declaration"} : Visited(kind)' # {} => ~Return
      BY <1>1, <1>2, <1>3, <3>1, FollowingWalk
    <3>3. QED
      BY <1>2, <3>2
  <2>3. Body' /\ Depths'
    BY <2>1, <2>2 DEF Body, Depths
  <2>4. IsSeq(scope) /\ scope # <<>> /\ scope' = Exit(scope) /\ Len(scope) = 3
    <3>1. Top = work[3] /\ Top.will_enter_scope
      BY <1>1, <1>5 DEF DeclarationInv, Body
    <3>2. IsSeq(scope) /\ Len(scope) = 3
      BY <3>1, <1>1, <1>5 DEF BuilderInv, Scoping
    <3>3. QED
      BY <3>1, <3>2, SeqFacts DEF CompoundEnd
  <2>5. Len(scope') = 2 /\ scope'[2] = scope[2]
    <3>1. Len(scope) - 1 = 2 /\ 2 \in 1..Len(scope) - 1
      BY <2>4
    <3>2. /\ Len(Front(scope)) = Len(scope) - 1
          /\ \A l \in 1..Len(scope) - 1 : Front(scope)[l] = scope[l]
      BY <2>4, FrontFacts
    <3>3. QED
      BY <2>4, <3>1, <3>2 DEF Exit
  <2>6. DeclaredNames'
    <3>1. Visited("param") = {}
      BY <1>1 DEF Visited
    <3>2. DeclaredIn(work[2]) = DOMAIN scope[2]
      BY <3>1, <1>1 DEF DeclarationInv, DeclaredNames
    <3>3. DeclaredIn(work[2])' = DeclaredIn(work[2])
      BY <2>1 DEF DeclaredIn
    <3>4. QED
      BY <2>2, <2>5, <3>2, <3>3 DEF DeclaredNames
  <2>7. QED
    BY <2>2, <2>3, <2>6 DEF DeclarationInv
<1>6. QED
  BY <1>1, <1>4, <1>5

-----------------------------------------------------------------------------
(* The steps of declarations.                                              *)

\* Outside functions nothing is declared that a function would see.
LEMMA OutsideKeeps ==
    ASSUME BuilderInv', Leaves', Unstarted', IsSeq(work'), Len(work') <= 2, ~InFunction',
           Visited("param")' = {}, Visited("var_declaration")' # {} => Len(work') = 2
    PROVE  DeclarationInv'
<1>1. Len(work') \in Nat /\ ~(Len(work') >= 3)
  <2>1. Len(work') \in Nat
    BY SeqFacts
  <2>2. QED
    BY <2>1
<1>2. Len(scope') # 3
  BY DEF BuilderInv, Scoping
<1>3. Body' /\ Depths' /\ DeclaredNames'
  BY <1>1, <1>2 DEF Body, Depths, DeclaredNames
<1>4. QED
  BY <1>3 DEF DeclarationInv

\* The next declaration is visited, or the program is done.
LEMMA VisitProgramDeclares ==
    ASSUME BuilderInv, BuilderInv', DeclarationInv, VisitProgram
    PROVE  DeclarationInv'
<1> DEFINE rest == [Top EXCEPT !.i = @ + 1]
<1>1. work # <<>> /\ Top.node.node = "program"
  BY DEF VisitProgram, Running
<1>2. /\ Len(work) = 1
      /\ DOMAIN Top = {"at", "node", "i", "vals", "todo", "bb_condition", "will_enter_scope"}
  BY <1>1, OuterFacts
<1>3. rest.node = Top.node
  BY <1>2
<1>4. Return \/ \E child : child.node \in Declarations /\ work' = Callers \o <<rest, Frame(child)>>
  BY DEF VisitProgram, Visit
<1> HIDE DEF rest
<1>5. Follows(rest, Declarations)
  BY <1>4 DEF Follows
<1>6. /\ Leaves' /\ Unstarted'
      /\ \A kind \in {"param", "var_declaration"} :
            Visited(kind)' # {} => kind \in Declarations /\ ~Return
  <2>1. Leaves /\ Unstarted
    BY DEF DeclarationInv
  <2>2. QED
    BY <1>1, <1>3, <1>5, <2>1, FollowingWalk
<1>7. IsSeq(work') /\ Len(work') <= 2 /\ (~Return => Len(work') = 2)
  <2>1. CASE Return
    <3>1. IsSeq(work') /\ Len(work') = 1 - 1
      BY <1>1, <1>2, <2>1, FollowingFrames
    <3>2. QED
      BY <2>1, <3>1
  <2>2. ASSUME NEW child, work' = Callers \o <<rest, Frame(child)>>
        PROVE  IsSeq(work') /\ Len(work') <= 2 /\ Len(work') = 2
    <3>1. IsSeq(work') /\ Len(work') = 1 + 1
      BY <1>1, <1>2, <2>2, FollowingFrames
    <3>2. QED
      BY <3>1
  <2>3. QED
    BY <1>4, <2>1, <2>2
<1>8. ~InFunction'
  <2>1. ~InFunction
    BY <1>2 DEF InFunction
  <2>2. IsSeq(layout) /\ Len(layout) # 0 /\ currentFunction = 0
    <3>1. IsSeq(layout) /\ layout # <<>>
      BY DEF BuilderInv, Shape
    <3>2. QED
      BY <2>1, <3>1, SeqFacts DEF BuilderInv, Position
  <2>3. layout' = layout /\ currentFunction' = currentFunction
    BY DEF VisitProgram, code, current
  <2>4. QED
    BY <2>2, <2>3 DEF BuilderInv, Position
<1>9. "param" \notin Declarations
  BY DEF Declarations
<1>10. QED
  BY <1>6, <1>7, <1>8, <1>9, OutsideKeeps

\* A global variable is declared.
LEMMA GlobalVarDeclares ==
    ASSUME BuilderInv, BuilderInv', DeclarationInv, VisitGlobalVarDeclaration
    PROVE  DeclarationInv'
<1>1. work # <<>> /\ Top.node.node = "var_declaration" /\ Return /\ Len(work) = 2
  BY ScopesTellFunctions DEF VisitGlobalVarDeclaration, Running
<1>2. IsSeq(work') /\ Len(work') = 1
  BY <1>1, OuterFacts DEF Return
<1>3. Follows(Top, {})
  BY <1>1 DEF Follows
<1>4. Leaves' /\ Unstarted' /\ \A kind \in {"param", "var_declaration"} : Visited(kind)' = {}
  <2>1. Leaves /\ Unstarted
    BY DEF DeclarationInv
  <2>2. /\ Leaves' /\ Unstarted'
        /\ \A kind \in {"param", "var_declaration"} : Visited(kind)' # {} => ~Return
    BY <1>1, <1>3, <2>1, FollowingWalk
  <2>3. QED
    BY <1>1, <2>2
<1>5. ~InFunction'
  BY <1>2 DEF InFunction
<1>6. QED
  BY <1>2, <1>4, <1>5, OutsideKeeps

\* A function is entered, with a scope that has no names.
LEMMA FunDeclarationDeclares ==
    ASSUME BuilderInv, BuilderInv', PlacementInv, DeclarationInv, VisitFunDeclaration
    PROVE  DeclarationInv'
<1> DEFINE rest == [Top EXCEPT !.at = "params"]
<1>1. work # <<>> /\ Top.node.node = "fun_declaration" /\ Top.at = "visit"
      /\ work' = Append(Callers, rest)
  BY DEF VisitFunDeclaration, Running
<1>2. /\ Len(work) = 2 /\ Top = work[2] /\ 2 \in DOMAIN work
      /\ DOMAIN Top = {"at", "node", "i", "vals", "todo", "bb_condition", "will_enter_scope"}
  <2>1. /\ Len(work) = 2 /\ Top = work[Len(work)] /\ DOMAIN work = 1..Len(work)
        /\ DOMAIN Top = {"at", "node", "i", "vals", "todo", "bb_condition", "will_enter_scope"}
    BY <1>1, OuterFacts
  <2>2. QED
    BY <2>1
<1>3. rest.node = Top.node /\ rest.at = "params" /\ rest.i = 0
  <2>1. Top.i = 0
    BY <1>1, <1>2 DEF DeclarationInv, Unstarted
  <2>2. QED
    BY <1>2, <2>1
<1> HIDE DEF rest
<1>4. IsSeq(work') /\ Len(work') = 2 /\ work'[2] = rest
  BY <1>1, <1>2, FollowingFrames
<1>5. Leaves' /\ Unstarted' /\ \A kind \in {"param", "var_declaration"} : Visited(kind)' = {}
  <2>1. Follows(rest, {})
    BY <1>1 DEF Follows
  <2>2. Leaves /\ Unstarted
    BY DEF DeclarationInv
  <2>3. /\ Leaves' /\ Unstarted'
        /\ \A kind \in {"param", "var_declaration"} : Visited(kind)' # {} => kind \in {}
    BY <1>1, <1>3, <2>1, <2>2, FollowingWalk
  <2>4. QED
    BY <2>3
<1>6. Body' /\ Depths'
  BY <1>4, <1>5 DEF Body, Depths
<1>7. Len(scope') = 2 /\ DOMAIN scope'[2] = {}
  <2>1. IsSeq(scope) /\ scope # <<>> /\ Len(scope) = 1
    BY DeclarationFacts, ScopeCount
  <2>2. PICK name, val : scope' = Enter(Push(scope, name, val))
    BY DEF VisitFunDeclaration
  <2>3. IsSeq(Push(scope, name, val)) /\ Len(Push(scope, name, val)) = 1
    BY <2>1, PushFacts
  <2>4. 1 + 1 = 2
    OBVIOUS
  <2>5. QED
    BY <2>2, <2>3, <2>4, EnterFacts
<1>8. DeclaredNames'
  <2>1. DeclaredIn(rest) = {}
    BY <1>1, <1>3 DEF DeclaredIn
  <2>2. DeclaredIn(work[2])' = DeclaredIn(rest)
    BY <1>4 DEF DeclaredIn
  <2>3. QED
    BY <1>5, <1>7, <2>1, <2>2 DEF DeclaredNames
<1>9. QED
  BY <1>5, <1>6, <1>8 DEF DeclarationInv

\* A parameter is about to be declared.
LEMMA FunParamDeclares ==
    ASSUME BuilderInv, BuilderInv', DeclarationInv, FunParam
    PROVE  DeclarationInv'
<1>0. PICK frame, next : frame = [Top EXCEPT !.i = @ + 1] /\ next = Top.node.params[Top.i + 1]
  OBVIOUS
<1>1. /\ work # <<>> /\ Top.node.node = "fun_declaration" /\ Top.at = "params"
      /\ next.node = "param" /\ work' = Callers \o <<frame, Frame(next)>> /\ UNCHANGED scope
  BY <1>0 DEF FunParam, Running, Visit
<1>2. /\ Len(work) = 2 /\ Top = work[2] /\ Top.i \in Nat
      /\ DOMAIN Top = {"at", "node", "i", "vals", "todo", "bb_condition", "will_enter_scope"}
  BY <1>1, OuterFacts
<1>3. frame.node = Top.node /\ frame.at = "params" /\ frame.i = Top.i + 1
  BY <1>0, <1>1, <1>2
<1>4. next.id = Top.node.params[Top.i + 1].id
  BY <1>0
<1>5. IsSeq(work') /\ Len(work') = 3 /\ work'[2] = frame /\ work'[3] = Frame(next)
  <2>1. IsSeq(work') /\ Len(work') = 2 + 1 /\ work'[2] = frame /\ work'[2 + 1] = Frame(next)
    BY <1>1, <1>2, FollowingFrames
  <2>2. QED
    BY <2>1
<1>6. Top' = Frame(next) /\ work' # <<>> /\ Frame(next).node = next
  BY <1>5, SeqFacts DEF Top, Last, Frame
<1>7. Visited("param")' = {next.id} /\ Visited("var_declaration")' = {}
  BY <1>1, <1>6 DEF Visited
<1>8. Leaves' /\ Unstarted'
  <2>1. Follows(frame, {"param"})
    <3>1. PICK kinds : kinds = {"param"}
      OBVIOUS
    <3>2. next.node \in kinds
      BY <1>1, <3>1
    <3>3. work' = Callers \o <<frame, Frame(next)>>
      BY <1>1
    <3>4. Follows(frame, kinds)
      BY <3>2, <3>3, FollowsVisit
    <3>5. QED
      BY <3>1, <3>4
  <2>2. Leaves /\ Unstarted
    BY DEF DeclarationInv
  <2>3. frame.node = Top.node /\ frame.at # "visit" /\ Top.node.node \notin {"param", "var_declaration"}
    BY <1>1, <1>3
  <2>4. QED
    BY <1>1, <2>1, <2>2, <2>3, FollowingWalk
<1>9. Body' /\ Depths'
  BY <1>1, <1>5, <1>6, <1>7 DEF Body, Depths
<1>10. Len(scope') # 3
  <2>1. ~work'[3].will_enter_scope
    BY <1>5 DEF Frame
  <2>2. QED
    BY <2>1 DEF BuilderInv, Scoping
<1>11. DeclaredNames'
  <2>1. DeclaredIn(Top) = DOMAIN scope[2]
    <3>1. Visited("param") = {} /\ InFunction
      BY <1>1, <1>2 DEF Visited, InFunction
    <3>2. QED
      BY <1>2, <3>1 DEF DeclarationInv, DeclaredNames
  <2>2. /\ DeclaredIn(Top) = {Top.node.params[p].id : p \in 1..Top.i}
        /\ DeclaredIn(frame) = {Top.node.params[p].id : p \in 1..Top.i + 1}
    BY <1>1, <1>3 DEF DeclaredIn
  <2>3. 1..Top.i + 1 = 1..Top.i \cup {Top.i + 1}
    BY <1>2
  <2>4. DeclaredIn(frame) = DeclaredIn(Top) \cup {next.id}
    BY <2>2, <2>3, <1>4
  <2>5. DeclaredIn(work[2])' = DeclaredIn(frame)
    BY <1>5 DEF DeclaredIn
  <2>6. QED
    BY <1>1, <1>7, <1>10, <2>1, <2>4, <2>5 DEF DeclaredNames
<1>12. QED
  BY <1>8, <1>9, <1>11 DEF DeclarationInv

\* A parameter is declared.
LEMMA ParamDeclares ==
    ASSUME BuilderInv, BuilderInv', DeclarationInv, VisitParam
    PROVE  DeclarationInv'
<1>1. work # <<>> /\ Top.node.node = "param" /\ Return
      /\ \E val : scope' = Push(scope, Top.node.id, val)
  BY DEF VisitParam, Running
<1>2. Visited("param") = {Top.node.id} /\ Len(work) = 3
  BY <1>1 DEF Visited, DeclarationInv, Depths
<1>3. /\ IsSeq(Callers) /\ Len(Callers) = 2 /\ Callers[2] = work[2] /\ Top = work[3]
      /\ 3 \in DOMAIN work
  BY <1>1, <1>2, OuterFacts
<1>4. IsSeq(work') /\ Len(work') = 2 /\ work'[2] = work[2]
  BY <1>1, <1>3 DEF Return
<1>5. InFunction
  BY <1>2 DEF BuilderInv, Walk
<1>6. Leaves' /\ Unstarted' /\ \A kind \in {"param", "var_declaration"} : Visited(kind)' = {}
  <2>1. Follows(Top, {})
    BY <1>1 DEF Follows
  <2>2. Leaves /\ Unstarted
    BY DEF DeclarationInv
  <2>3. /\ Leaves' /\ Unstarted'
        /\ \A kind \in {"param", "var_declaration"} : Visited(kind)' # {} => ~Return
    BY <1>1, <2>1, <2>2, FollowingWalk
  <2>4. QED
    BY <1>1, <2>3
<1>7. Body' /\ Depths'
  BY <1>4, <1>6 DEF Body, Depths
<1>8. IsSeq(scope) /\ scope # <<>> /\ Len(scope) = 2
  <2>1. ~work[3].will_enter_scope
    BY <1>1, <1>3 DEF BuilderInv, Scoping
  <2>2. IsSeq(scope) /\ Len(scope) = 2
    BY <1>2, <1>5, <2>1 DEF BuilderInv, Scoping
  <2>3. QED
    BY <2>2, SeqFacts
<1>9. Len(scope') = 2 /\ DOMAIN scope'[2] = DOMAIN scope[2] \cup {Top.node.id}
  <2>1. PICK val : scope' = Push(scope, Top.node.id, val)
    BY <1>1
  <2>2. Len(scope') = 2 /\ scope'[2] = InsertOnce(scope[2], Top.node.id, val)
    BY <1>8, <2>1, PushFacts, PushedFacts
  <2>3. DOMAIN InsertOnce(scope[2], Top.node.id, val) = DOMAIN scope[2] \cup {Top.node.id}
    <3>1. ASSUME NEW map, NEW name, NEW v
          PROVE  DOMAIN InsertOnce(map, name, v) = DOMAIN map \cup {name}
      BY InsertFacts
    <3>2. QED
      BY <3>1
  <2>4. QED
    BY <2>2, <2>3
<1>10. DeclaredNames'
  <2>1. DeclaredIn(work[2]) = DOMAIN scope[2] \cup {Top.node.id}
    BY <1>2, <1>5 DEF DeclarationInv, DeclaredNames
  <2>2. DeclaredIn(work[2])' = DeclaredIn(work[2])
    BY <1>4 DEF DeclaredIn
  <2>3. QED
    BY <1>6, <1>9, <2>1, <2>2 DEF DeclaredNames
<1>11. QED
  BY <1>6, <1>7, <1>10 DEF DeclarationInv

\* The body of a function is visited.
LEMMA FunBodyDeclares ==
    ASSUME BuilderInv, BuilderInv', DeclarationInv, FunBody
    PROVE  DeclarationInv'
<1> DEFINE rest == [Top EXCEPT !.at = "end"]
           child == Top.node.compound_stmt
<1>1. /\ work # <<>> /\ Top.node.node = "fun_declaration" /\ Top.at = "params"
      /\ child.node = "compound_stmt" /\ work' = Callers \o <<rest, Frame(child)>>
      /\ UNCHANGED scope /\ isFunctionTopCompoundStatement' = TRUE
  BY DEF FunBody, Running, Visit
<1>2. /\ Len(work) = 2 /\ Top = work[2]
      /\ DOMAIN Top = {"at", "node", "i", "vals", "todo", "bb_condition", "will_enter_scope"}
  BY <1>1, OuterFacts
<1>3. rest.node = Top.node /\ rest.at = "end" /\ rest.i = Top.i
  BY <1>1, <1>2
<1> HIDE DEF rest, child
<1>4. IsSeq(work') /\ Len(work') = 3 /\ work'[2] = rest /\ work'[3] = Frame(child)
  <2>1. IsSeq(work') /\ Len(work') = 2 + 1 /\ work'[2] = rest /\ work'[2 + 1] = Frame(child)
    BY <1>1, <1>2, FollowingFrames
  <2>2. QED
    BY <2>1
<1>5. Frame(child).node = child /\ Frame(child).at = "visit"
  BY DEF Frame
<1>6. Leaves' /\ Unstarted' /\ \A kind \in {"param", "var_declaration"} : Visited(kind)' = {}
  <2>1. Follows(rest, {"compound_stmt"})
    <3>1. PICK c, r : c = child /\ r = rest
      OBVIOUS
    <3>2. c.node \in {"compound_stmt"} /\ work' = Callers \o <<r, Frame(c)>>
      BY <1>1, <3>1
    <3>3. Follows(r, {"compound_stmt"})
      BY <3>2, FollowsVisit
    <3>4. QED
      BY <3>1, <3>3
  <2>2. Leaves /\ Unstarted
    BY DEF DeclarationInv
  <2>3. /\ Leaves' /\ Unstarted'
        /\ \A kind \in {"param", "var_declaration"} : Visited(kind)' # {} => kind \in {"compound_stmt"}
    BY <1>1, <1>3, <2>1, <2>2, FollowingWalk
  <2>4. QED
    BY <2>3
<1>7. Body' /\ Depths'
  BY <1>1, <1>4, <1>5, <1>6 DEF Body, Depths
<1>8. Len(scope') # 3
  <2>1. ~work'[3].will_enter_scope
    BY <1>4 DEF Frame
  <2>2. QED
    BY <2>1 DEF BuilderInv, Scoping
<1>9. DeclaredNames'
  <2>1. DeclaredIn(Top) = DOMAIN scope[2]
    <3>1. Visited("param") = {} /\ InFunction
      BY <1>1, <1>2 DEF Visited, InFunction
    <3>2. QED
      BY <1>2, <3>1 DEF DeclarationInv, DeclaredNames
  <2>2. DeclaredIn(rest) = DeclaredIn(Top)
    BY <1>3 DEF DeclaredIn
  <2>3. DeclaredIn(work[2])' = DeclaredIn(rest)
    BY <1>4 DEF DeclaredIn
  <2>4. QED
    BY <1>1, <1>6, <1>8, <2>1, <2>2, <2>3 DEF DeclaredNames
<1>10. QED
  BY <1>6, <1>7, <1>9 DEF DeclarationInv

\* A function is left.
LEMMA FunEndDeclares ==
    ASSUME BuilderInv, BuilderInv', DeclarationInv, FunEnd
    PROVE  DeclarationInv'
<1>1. work # <<>> /\ Top.node.node = "fun_declaration" /\ Return
  BY DEF FunEnd, Running
<1>2. Len(work) = 2
  BY <1>1, OuterFacts
<1>3. IsSeq(work') /\ Len(work') = 1
  BY <1>1, <1>2, OuterFacts DEF Return
<1>4. Leaves' /\ Unstarted' /\ \A kind \in {"param", "var_declaration"} : Visited(kind)' = {}
  <2>1. Follows([Top EXCEPT !.at = "params"], {})
    BY <1>1 DEF Follows
  <2>2. [Top EXCEPT !.at = "params"].node = Top.node /\ [Top EXCEPT !.at = "params"].at # "visit"
    BY <1>1, OuterFacts
  <2>3. Leaves /\ Unstarted
    BY DEF DeclarationInv
  <2>4. /\ Leaves' /\ Unstarted'
        /\ \A kind \in {"param", "var_declaration"} : Visited(kind)' # {} => ~Return
    BY <1>1, <2>1, <2>2, <2>3, FollowingWalk
  <2>5. QED
    BY <1>1, <2>4
<1>5. ~InFunction'
  BY <1>3 DEF InFunction
<1>6. QED
  BY <1>3, <1>4, <1>5, OutsideKeeps

\* A local variable is declared in the body of its function.
LEMMA LocalVarDeclares ==
    ASSUME BuilderInv, BuilderInv', DeclarationInv, VisitLocalVarDeclaration
    PROVE  DeclarationInv'
<1>1. work # <<>> /\ Top.node.node = "var_declaration" /\ Return
      /\ \E val : scope' = Push(scope, Top.node.id, val)
  BY DEF VisitLocalVarDeclaration, Running
<1>2. Visited("var_declaration") = {Top.node.id} /\ Len(work) = 4
  <2>1. Len(work) >= 3
    BY ScopesTellFunctions DEF VisitLocalVarDeclaration
  <2>2. Visited("var_declaration") = {Top.node.id}
    BY <1>1 DEF Visited
  <2>3. Len(work) \in {2, 4}
    BY <2>2 DEF DeclarationInv, Depths
  <2>4. Len(work) # 2
    <3>1. \A n \in Nat : n >= 3 => n # 2
      OBVIOUS
    <3>2. Len(work) \in Nat
      BY <1>1, OuterFacts
    <3>3. QED
      BY <2>1, <3>1, <3>2
  <2>5. QED
    BY <2>2, <2>3, <2>4
<1>3. /\ InFunction /\ work[2].node.node = "fun_declaration" /\ Len(scope) = 3
      /\ work[3].node.node = "compound_stmt" /\ work[3].at # "visit" /\ work[3].will_enter_scope
      /\ Visited("param") = {}
  BY <1>2, BodyFacts
<1>4. IsSeq(work') /\ Len(work') = 3 /\ work'[2] = work[2] /\ work'[3] = work[3]
  <2>1. IsSeq(Callers) /\ Len(Callers) = 3 /\ Callers[2] = work[2] /\ Callers[3] = work[3]
    BY <1>1, <1>2, OuterFacts
  <2>2. QED
    BY <2>1, <1>1 DEF Return
<1>5. Leaves' /\ Unstarted' /\ \A kind \in {"param", "var_declaration"} : Visited(kind)' = {}
  <2>1. Follows(Top, {})
    BY <1>1 DEF Follows
  <2>2. Leaves /\ Unstarted
    BY DEF DeclarationInv
  <2>3. /\ Leaves' /\ Unstarted'
        /\ \A kind \in {"param", "var_declaration"} : Visited(kind)' # {} => ~Return
    BY <1>1, <2>1, <2>2, FollowingWalk
  <2>4. QED
    BY <1>1, <2>3
<1>6. Body' /\ Depths'
  BY <1>3, <1>4, <1>5 DEF Body, Depths
<1>7. /\ Len(scope') = 3 /\ DOMAIN scope'[3] = DOMAIN scope[3] \cup {Top.node.id}
      /\ scope'[2] = scope[2]
  <2>1. PICK val : scope' = Push(scope, Top.node.id, val)
    BY <1>1
  <2>2. IsSeq(scope) /\ scope # <<>>
    BY ScopeCount
  <2>3. Len(scope') = 3 /\ scope'[3] = InsertOnce(scope[3], Top.node.id, val) /\ scope'[2] = scope[2]
    BY <1>3, <2>1, <2>2, PushFacts, PushedFacts
  <2>4. DOMAIN InsertOnce(scope[3], Top.node.id, val) = DOMAIN scope[3] \cup {Top.node.id}
    <3>1. ASSUME NEW map, NEW name, NEW v
          PROVE  DOMAIN InsertOnce(map, name, v) = DOMAIN map \cup {name}
      BY InsertFacts
    <3>2. QED
      BY <3>1
  <2>5. QED
    BY <2>3, <2>4
<1>8. DeclaredNames'
  <2>1. /\ DeclaredIn(work[2]) = DOMAIN scope[2]
        /\ DeclaredIn(work[3]) = DOMAIN scope[3] \cup {Top.node.id}
    BY <1>2, <1>3 DEF DeclarationInv, DeclaredNames
  <2>2. DeclaredIn(work[2])' = DeclaredIn(work[2]) /\ DeclaredIn(work[3])' = DeclaredIn(work[3])
    BY <1>4 DEF DeclaredIn
  <2>3. QED
    BY <1>5, <1>7, <2>1, <2>2 DEF DeclaredNames
<1>9. QED
  BY <1>5, <1>6, <1>8 DEF DeclarationInv

LEMMA UnchangedDeclares == ASSUME DeclarationInv, UNCHANGED vars PROVE DeclarationInv'
<1>1. UNCHANGED <<work, scope, isFunctionTopCompoundStatement>>
  BY DEF vars, current
<1>2. Top' = Top
  BY <1>1 DEF Top
<1>3. \A kind : Visited(kind)' = Visited(kind)
  BY <1>1, <1>2 DEF Visited
<1>4. \A d : DeclaredIn(work[d])' = DeclaredIn(work[d])
  BY <1>1 DEF DeclaredIn
<1>5. QED
  BY <1>1, <1>3, <1>4 DEF DeclarationInv, Leaves, Unstarted, Body, Depths, DeclaredNames, InFunction

LEMMA InitDeclares == ASSUME Init PROVE DeclarationInv
<1>1. PICK program \in Programs : work = <<Frame(program)>>
  BY DEF Init
<1>2. program.node = "program" /\ Frame(program).node = program
  BY ProgramsAssumption DEF Frame
<1> DEFINE top == Frame(program)
<1> HIDE DEF top
<1>3. Len(work) = 1 /\ DOMAIN work = {1} /\ work[1] = top
  BY <1>1 DEF top
<1>4. top.node.node = "program" /\ Top = top
  BY <1>2, <1>3 DEF Top, Last, top
<1>5. Visited("param") = {} /\ Visited("var_declaration") = {}
  BY <1>4 DEF Visited
<1>6. Len(scope) = 1
  BY DEF Init
<1>7. QED
  BY <1>3, <1>4, <1>5, <1>6
     DEF DeclarationInv, Leaves, Unstarted, Body, Depths, DeclaredNames, InFunction

LEMMA DeclarationStep ==
    ASSUME BuilderInv, BuilderInv', PlacementInv, Flat, DeclarationInv, [Next]_vars
    PROVE  DeclarationInv'
<1>1. CASE VisitProgram
  BY <1>1, VisitProgramDeclares
<1>2. CASE VisitGlobalVarDeclaration
  BY <1>2, GlobalVarDeclares
<1>3. CASE VisitLocalVarDeclaration
  BY <1>3, LocalVarDeclares
<1>4. CASE VisitFunDeclaration
  BY <1>4, FunDeclarationDeclares
<1>5. CASE FunParam
  BY <1>5, FunParamDeclares
<1>6. CASE FunBody
  BY <1>6, FunBodyDeclares
<1>7. CASE FunEnd
  BY <1>7, FunEndDeclares
<1>8. CASE VisitParam
  BY <1>8, ParamDeclares
<1>9. CASE VisitCompoundStmt
  BY <1>9, VisitCompoundDeclares
<1>10. CASE CompoundItem
  BY <1>10, CompoundItemDeclares
<1>11. CASE CompoundEnd
  BY <1>11, CompoundEndDeclares
<1>12. CASE Idle \/ UNCHANGED vars
  BY <1>12, UnchangedDeclares DEF Idle
<1>13. CASE \/ VisitExpresionStmt \/ VisitNum \/ VisitVar \/ VisitElement
            \/ VisitAssignExpression \/ AssignExpressionVar \/ VisitOperator
            \/ VisitSelectionStmt \/ SelectionCondition \/ SelectionElse \/ SelectionEnd
            \/ VisitIterationStmt \/ IterationCondition \/ IterationEnd
            \/ VisitReturnStmt \/ ReturnValue
            \/ AssignExpressionValue \/ OperatorLeft \/ OperatorRight \/ VisitCall \/ CallArgument
            \/ ElementIndex
  BY <1>13, InsideDeclares
<1>14. QED
  BY <1>1, <1>2, <1>3, <1>4, <1>5, <1>6, <1>7, <1>8, <1>9, <1>10, <1>11, <1>12, <1>13 DEF Next

-----------------------------------------------------------------------------
(* The theorems about declarations.                                        *)

\* When only the bodies of functions declare variables, the scopes hold
\* exactly the names whose declarations have been visited, throughout the
\* walk (cminus_builder.cpp:53-152).
THEOREM DeclarationInvariance == Spec /\ []Flat => []DeclarationInv
<1>1. Init => DeclarationInv
  BY InitDeclares
<1>2. BuilderInv /\ BuilderInv' /\ PlacementInv /\ Flat /\ DeclarationInv /\ [Next]_vars
        => DeclarationInv'
  BY DeclarationStep
<1>3. QED
  BY <1>1, <1>2, BuilderInvariance, PlacementInvariance, PTL DEF Spec

\* The scopes a name is looked for in, when it is used.
LEMMA UseFacts ==
    ASSUME BuilderInv, DeclarationInv, Flat, Running("var", "visit")
    PROVE  /\ Len(work) >= 4 /\ Len(work) \in Nat /\ DOMAIN work = 1..Len(work)
           /\ Len(scope) = 3 /\ DOMAIN scope = 1..3
           /\ work[1].node.node = "program" /\ work[2].node.node = "fun_declaration"
           /\ work[3].node.node = "compound_stmt"
           /\ DeclaredIn(work[2]) = DOMAIN scope[2] /\ DeclaredIn(work[3]) = DOMAIN scope[3]
           /\ \A d \in DOMAIN work : d # 2 /\ d # 3 => DeclaredIn(work[d]) = {}
<1>1. work # <<>> /\ Top.node.node = "var"
  BY DEF Running
<1>2. Len(work) >= 4
  BY <1>1, InsideBody DEF BodyKinds, OperandKinds, Factors
<1>3. Len(work) \in Nat /\ DOMAIN work = 1..Len(work) /\ work[1].node.node = "program"
  BY <1>1, OuterFacts
<1>4. /\ InFunction /\ work[2].node.node = "fun_declaration" /\ Len(scope) = 3
      /\ work[3].node.node = "compound_stmt" /\ Visited("param") = {}
  BY <1>2, BodyFacts
<1>5. DOMAIN scope = 1..3
  BY <1>4, ScopeCount, SeqFacts
<1>6. Visited("var_declaration") = {}
  BY <1>1 DEF Visited
<1>7. DeclaredIn(work[2]) = DOMAIN scope[2] /\ DeclaredIn(work[3]) = DOMAIN scope[3]
  BY <1>4, <1>6 DEF DeclarationInv, DeclaredNames
<1>8. ASSUME NEW d \in DOMAIN work, d # 2, d # 3 PROVE DeclaredIn(work[d]) = {}
  <2>1. d = 1 \/ d \in 4..Len(work)
    BY <1>3, <1>8
  <2>2. CASE d = 1
    BY <1>3, <2>2 DEF DeclaredIn
  <2>3. CASE d \in 4..Len(work)
    <3>1. work[d].node.node # "fun_declaration"
      BY <1>3, <2>3 DEF BuilderInv, Walk
    <3>2. CASE work[d].node.node = "compound_stmt"
      <4>1. work[d].node.local_declarations = <<>>
        BY <1>8, <2>3, <3>2 DEF Flat
      <4>2. DeclaredIn(work[d]) = {<<>>[e].id : e \in {e \in DOMAIN <<>> : e <= work[d].i}}
        BY <3>2, <4>1 DEF DeclaredIn
      <4>3. DOMAIN <<>> = {}
        BY ShortSeqs, SeqFacts
      <4>4. QED
        BY <4>2, <4>3
    <3>3. CASE work[d].node.node # "compound_stmt"
      BY <3>1, <3>3 DEF DeclaredIn
    <3>4. QED
      BY <3>2, <3>3
  <2>4. QED
    BY <2>1, <2>2, <2>3
<1>9. QED
  BY <1>2, <1>3, <1>4, <1>5, <1>7, <1>8

\* The innermost of a few scopes.
LEMMA Innermost ==
    ASSUME NEW S, S \subseteq 1..3, NEW m \in S, \A l \in S : l <= m
    PROVE  /\ Max(S) = m
           /\ (CHOOSE l \in S : \A k \in S : k <= l) = m
<1>1. ASSUME NEW l \in S, \A k \in S : k <= l PROVE l = m
  BY <1>1
<1>2. ASSUME NEW l \in S, \A k \in S : l >= k PROVE l = m
  BY <1>2
<1>3. m \in Int /\ \A k \in S : m >= k
  OBVIOUS
<1>4. QED
  BY <1>1, <1>2, <1>3 DEF Max

\* The use of a variable means the innermost declaration around it, in a
\* program that uses what it has declared and declares variables only in the
\* bodies of its functions (cminus_builder.hpp:15-52, cminus_builder.cpp:53-152;
\* promised by docs/cminus.md:79,89).
THEOREM NamesScopeStatically == Spec /\ []DeclaredBeforeUse => []StaticScoping
<1>1. BuilderInv /\ DeclarationInv /\ Flat /\ Bound => StaticScoping
  <2>1. SUFFICES ASSUME BuilderInv, DeclarationInv, Flat, Bound, Running("var", "visit"),
                        NEW name, name = Top.node.id,
                        NEW declaring, declaring = {d \in DOMAIN work : name \in DeclaredIn(work[d])},
                        NEW level, level = IF declaring = {} THEN 1
                                           ELSE Cardinality(ScopesAround(Max(declaring)))
                 PROVE  /\ level \in DOMAIN scope
                        /\ name \in DOMAIN scope[level]
                        /\ Find(scope, name) = scope[level][name]
    BY DEF StaticScoping
  <2>2. /\ Len(work) >= 4 /\ Len(work) \in Nat /\ DOMAIN work = 1..Len(work)
        /\ Len(scope) = 3 /\ DOMAIN scope = 1..3
        /\ work[1].node.node = "program" /\ work[2].node.node = "fun_declaration"
        /\ work[3].node.node = "compound_stmt"
        /\ DeclaredIn(work[2]) = DOMAIN scope[2] /\ DeclaredIn(work[3]) = DOMAIN scope[3]
        /\ \A d \in DOMAIN work : d # 2 /\ d # 3 => DeclaredIn(work[d]) = {}
    BY <2>1, UseFacts
  <2> DEFINE S == Declaring(scope, name)
  <2>3. S \subseteq 1..3 /\ S = {l \in 1..3 : name \in DOMAIN scope[l]}
    BY <2>2 DEF Declaring
  <2>4. /\ declaring \subseteq {2, 3}
        /\ 2 \in declaring <=> name \in DOMAIN scope[2]
        /\ 3 \in declaring <=> name \in DOMAIN scope[3]
    <3>1. 2 \in DOMAIN work /\ 3 \in DOMAIN work
      BY <2>2
    <3>2. \A d \in declaring : d = 2 \/ d = 3
      BY <2>1, <2>2
    <3>3. QED
      BY <2>1, <2>2, <3>1, <3>2
  <2>5. ASSUME NEW m \in S, \A l \in S : l <= m PROVE Find(scope, name) = scope[m][name]
    BY <2>3, <2>5, Innermost DEF Find
  <2>6. Cardinality(ScopesAround(2)) = 2 /\ Cardinality(ScopesAround(3)) = 3
    <3>1. ScopesAround(2) = {1, 2} /\ ScopesAround(3) = {1, 2, 3}
      BY <2>2 DEF ScopesAround
    <3>2. ScopesAround(2) = 1..2 /\ ScopesAround(3) = 1..3
      BY <3>1
    <3>3. Cardinality(1..2) = 2 /\ Cardinality(1..3) = 3
      <4>1. ASSUME NEW n \in Nat, n >= 1
            PROVE  Cardinality(1..n) = n
        <5>1. 1 \in Int /\ n \in Int /\ 1 <= n /\ n - 1 + 1 = n
          BY <4>1
        <5>2. Cardinality(1..n) = n - 1 + 1
          BY <5>1, FS_Interval
        <5>3. QED
          BY <5>1, <5>2
      <4>2. 2 \in Nat /\ 2 >= 1 /\ 3 \in Nat /\ 3 >= 1
        OBVIOUS
      <4>3. QED
        BY <4>1, <4>2
    <3>4. QED
      BY <3>2, <3>3
  <2> HIDE DEF S
  <2>7. CASE name \in DOMAIN scope[3]
    <3>1. 3 \in S /\ \A l \in S : l <= 3
      BY <2>3, <2>7
    <3>2. declaring \subseteq 1..3 /\ 3 \in declaring /\ \A d \in declaring : d <= 3
      BY <2>4, <2>7
    <3>3. Max(declaring) = 3
      BY <3>2, Innermost
    <3>4. level = 3
      BY <2>1, <2>6, <3>2, <3>3
    <3>5. QED
      BY <2>2, <2>5, <2>7, <3>1, <3>4
  <2>8. CASE name \in DOMAIN scope[2] /\ name \notin DOMAIN scope[3]
    <3>1. 2 \in S /\ \A l \in S : l <= 2
      BY <2>3, <2>8
    <3>2. declaring \subseteq 1..3 /\ 2 \in declaring /\ \A d \in declaring : d <= 2
      BY <2>4, <2>8
    <3>3. Max(declaring) = 2
      BY <3>2, Innermost
    <3>4. level = 2
      BY <2>1, <2>6, <3>2, <3>3
    <3>5. QED
      BY <2>2, <2>5, <2>8, <3>1, <3>4
  <2>9. CASE name \notin DOMAIN scope[2] /\ name \notin DOMAIN scope[3]
    <3>1. declaring = {} /\ level = 1
      BY <2>1, <2>4, <2>9
    <3>2. name \in DOMAIN scope[1]
      BY <2>1, <3>1 DEF Bound
    <3>3. 1 \in S /\ \A l \in S : l <= 1
      BY <2>3, <2>9, <3>2
    <3>4. QED
      BY <2>2, <2>5, <3>1, <3>2, <3>3
  <2>10. QED
    BY <2>7, <2>8, <2>9
<1>2. DeclaredBeforeUse => Flat /\ Bound
  BY DEF DeclaredBeforeUse
<1>3. QED
  BY <1>1, <1>2, BuilderInvariance, DeclarationInvariance, PTL
=============================================================================
