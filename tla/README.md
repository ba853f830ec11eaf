# Compiler2019 in TLA+

Compiler2019 is a course compiler for C-minus, written as a sequence of labs:
a flex scanner (lab 1), a bison parser that builds a concrete syntax tree
(lab 2), and a code generator that turns the tree into LLVM IR and an
executable (lab 3-1), with exercises in writing LLVM IR before it (lab 3-0).  This directory models it in TLA+, checks the models with
TLC and proves properties of them with TLAPS.  Paths below are relative to the
root of the repository.

## 1. Inventory

| Component | Where | State it keeps | Operations |
|---|---|---|---|
| Lexer | `lab1_lexical_analyzer/lexical_analyzer.l:37-101` | line and column counters, `yytext` | one rule per token, blanks, newlines, comments, the error rule |
| Lexer batch driver | same file, `113-206` | `files_count`, `filename[50]`, `yyin` and flex's buffer, the token files | `analyzer`, `getAllTestcase`, `lex_main` |
| Grammar and syntax batch driver | `lab2_syntax_analyzer/syntax_analyzer.y` | the parser's stack, `gt` (the tree), the scanner's counters | the grammar's actions, `yyerror`, `syntax`, `syntax_main` |
| Syntax tree node library | `syntax_tree/SyntaxTree.c` | nodes with at most 1000 children and names of 30 characters | new, add child, delete, print |
| Abstract syntax tree and its transformation | `lab3-1/src/syntax_tree_cpp/syntax_tree.cpp:16-374`, `lab3-1/include/syntax_tree.hpp` | none but the tree | `transform_node_iter`, the `accept` methods |
| Syntax tree printer | same file, `496-712` | the indentation | one visit per class |
| Scope table | `lab3-1/include/cminus_builder.hpp:15-52` | a vector of maps from names to values | `enter`, `exit`, `in_global`, `push`, `find` |
| IR builder | `lab3-1/src/cminusc/cminus_builder.cpp` | the C++ call stack of its visit methods, six globals (`currentExpression` ... ), the scopes, the module and its blocks, LLVM's insertion point | one visit method per class of node |
| Compiler driver | `lab3-1/src/cminusc/main.cpp` | its options and paths, the module, the files it writes | read the arguments, choose the target, parse, build, then verify (`-analyze`), print (`-emit-llvm`) or make an object file and link it |
| Runtime library | `lab3-1/src/io/io.c` | none | `input`, `output`, `neg_idx_except` |
| Generated analyzer of lab3-1 | `lab3-1/deps/analyzer` | - | output of flex and bison |
| Hand-written generators of lab3-0 | `lab3-0/*_generator.cpp` | - | each emits one fixed module |

The driver calls the generated parser, which fills a tree of `SyntaxTreeNode`s;
the transformation turns that into objects of the classes of `syntax_tree.hpp`;
`run_visitor` hands the root to the IR builder, whose visit methods call each
other through `accept`, look names up in the scope table and append
instructions to LLVM's blocks; the executable calls the runtime library.
Everything runs in one thread.  What is hard about it is not concurrency but
*state that outlives the call that wrote it*: the flags and closures the IR
builder keeps in globals between visits, the insertion point every visit
moves, blocks that are created before a child is visited and inserted after,
scopes that must be left on every way out, and the scanner's and drivers'
globals that survive from one file to the next.

What makes each component correct:

- Lexer: tokens partition the input; a comment ends at the first `*/`; lines
  and columns name the place of the token.
- Batch drivers: each input file gets the output that it would get alone,
  whatever the files before it, and resources are released once.
- Node library: every node has one owner and is deleted once; no array is
  overrun.
- Transformation: lists keep the order of the source; no child is lost; every
  tree of the grammar is accepted.
- Scope table: `find` answers the innermost declaration; `exit` undoes `enter`.
- IR builder: every block it creates is inserted once, ends in one terminator
  and is branched to only from its own function; each operand has the type its
  instruction takes and is defined on every path to it; a name means what
  static scoping says; each element access is preceded by the check of its
  index; every program that the language allows is got through.
- Syntax tree printer: the listing tells the tree.
- Driver: an exit without a word and with 0 means that the output is the one of
  the program as it was read; a failure leaves no half-made output; no file is
  touched that the arguments do not name.
- Runtime library and everything before it: a compiled program prints what the
  source program means, line by line, and ends as it does.
- Generators of lab 3-0: each module does what its C program does.

`PROJECT.json` lists the hazards at the lines where they bite.

## 2. Plan

The plan was made in the order of what matters most for the compiler, from the
part that is hardest to get right outwards.  Done:

1. `Scope`, `LLVM`, `CminusBuilder`: the IR builder, every visit method.
2. `BuilderProperties`, `EmittedCode`: what it must keep true, and what LLVM
   and the language ask of the finished code.
3. `BuilderInvariant`, `TypedCode`, `BuilderProofs`, `ScopeProofs`,
   `DominanceProofs`, `TypeProofs`: an inductive invariant in layers (control,
   blocks, names, declarations, values, types), proved.
4. `Grammar`, `SyntaxAnalyzer`, `Transformation`: the parser, the batch driver
   around it, the node library, and the abstract syntax tree made of the
   result.  `TreeMemory`, `NodeProofs`: who owns the nodes, proved for every
   batch of files.
5. `BlockStream`, `BuilderRefinement`: the abstract specification of the text
   the builder writes, checked and (in `BuilderProofs`) proved to be
   implemented by it.
6. `Execution`, `CminusMeaning`, `CminusRun`, `CompiledPrograms`: the compiled
   program runs with the runtime library and refines what the source program
   means; `Generators` are run in the same way.
7. `LexicalAnalyzer`, `TokenFiles`: patterns, counters and the batch driver of
   the lexer.  `LexerProofs`: the token files, proved for every text.
8. `CompilerDriver`, `DriverProperties`, `DriverProofs`: the compiler's `main`
   on a file system.
9. `SyntaxTreePrinter`, `PrintedTrees`: the printer, against a reader of what
   it prints.

Left for later, in this order:

- A run from tokens to LLVM IR: `Transformation` in place of `CminusPrograms`.
  (The two meet already: the trees of `SyntaxBatches` are those the builder
  takes, and `Transformation` builds records of the same classes.)
- `Scope` as an implementation of a stack of environments.

## 3. The modules

| Module | What it holds |
|---|---|
| `Scope` | `class Scope`, as operators from the vector `inner` to the new one |
| `LLVM` | the part of LLVM's C++ interface the builder uses: values, types, instructions, blocks, the insertion point (external code, modelled from its uses) |
| `CminusBuilder` | the state machine: one action per visit method and per place where a visit method goes on after the visit of a child |
| `BuilderProperties` | type invariant and properties of the walk |
| `EmittedCode` | properties of the finished module, and what must hold on the way to them (`DominanceInv`) |
| `TypedCode` | what a program owes to the types (`TypeRules`), and what the visit methods keep of it (`TypesInv`) |
| `BuilderInvariant`, `SequenceLemmas`, `BuilderProofs` | the inductive invariant, lemmas about sequences, the proofs: also that code is written front to back, no block is lost and no branch leaves its function |
| `ScopeProofs` | the proof of what the names in the scopes stand for, that elements are guarded, and that uses mean the innermost declaration |
| `DominanceProofs` | the proof that values are computed before they are used, on every path |
| `TypeProofs` | the proof that every operand has the type its instruction asks for |
| `BlockStream`, `BuilderRefinement` | abstract specification: code written front to back; the refinement mapping from the builder's blocks to it |
| `CminusPrograms`, `MCCminusBuilder` | the syntax trees TLC runs the builder on |
| `MachineIntegers`, `Execution` | two's complement arithmetic; the machine that runs a finished module and the runtime library's three functions |
| `CminusMeaning`, `CminusRun` | the reference: what a C-minus program means, computed on its tree from `lab3-1/docs/cminus.md`; and, as an abstract specification, what a user sees of it |
| `CompiledPrograms` | the composition of builder, machine and library, and the refinement of `CminusRun` |
| `Generators` | the five modules lab3-0 builds by hand, and the C programs they translate |
| `MCCompiledPrograms` | the programs and inputs TLC compiles and runs |
| `Grammar` | the rules of the grammar, and the LR automaton that bison makes of them (external: the 101 states of the generated parser) |
| `SyntaxAnalyzer` | the state machine of the batch driver of lab 2, the parser and the nodes |
| `Transformation` | `transform_node_iter` of lab 3-1: from nodes to an abstract syntax tree |
| `CminusText` | the reference: an abstract syntax tree written down as tokens |
| `SyntaxTreePrinter` | the visitor `syntax_tree_printer` |
| `PrintedTrees` | the reference: a listing read again as a tree |
| `SyntaxTrees` | type invariant and properties of these four |
| `TreeMemory`, `NodeProofs` | what happens to the nodes, trees and texts that are allocated; the inductive invariant behind it; the proofs |
| `MCSyntaxAnalyzer` | the files TLC runs the driver on |
| `LexicalAnalyzer` | the lexer's rules, and the driver that makes a token file for each file of `testcase/` |
| `TokenFiles`, `LexerProofs` | properties of the token files and the inductive invariant behind them; the proofs |
| `MCLexicalAnalyzer` | the texts and directories TLC runs the lexer on |
| `CompilerDriver` | `main` of the compiler on a file system, called again and again, while somebody edits the programs |
| `DriverProperties`, `DriverProofs`, `MCCompilerDriver` | what a caller relies on; the proofs; the commands TLC calls it with |

How state and actions of the IR builder correspond to the code:

- A **frame** of `work` is one visit method that has been entered: its `node`,
  the place `at` where it continues, and its locals (`todo`: blocks created and
  not yet inserted; `vals`: the values it holds; `i`: its loop counter).
  `Visit` is `child->accept(*this)`: the child's class must be one that the
  `accept` of its static type dispatches on.  `TailVisit` is an `accept` that is
  the last thing a method does.  An action runs from one `accept` to the next
  one or to the return, so it contains every call in between.
- `currentExpression` and `currentPointer` are **closures**.  `Returning(v)` is
  one that captured a value; a `load`, `add`, ... is one that captured operands
  and appends that instruction whenever it is called, in whatever block the
  builder then points at.  `Forced` is the call `currentExpression()`.
- `blocks` is every `BasicBlock` ever created, by number; `layout[f]` is the
  list of blocks inserted into function f; `ip` is where the `IRBuilder`
  points.  `Build` does what a method does to the three between two visits.
- A value is a constant, an instruction's result (block and position), an
  argument, a global or a function, with its type.
- `Programs` is the set of syntax trees the builder may be started on; the
  state machine is deterministic once one of them is chosen.

And those of the parser and its driver:

- A file is the sequence of tokens that `yylex` returns.  `Shift`, `Reduce`,
  `Accept` and `SyntaxError` are the four things the loop of `yyparse` does; an
  entry of `stack` is a symbol, the LR state after it (a set of items) and its
  value.  As in the generated parser, a shift is preferred to a reduction (so
  the two `%nonassoc` lines settle the dangling else), and a state's first
  reduction is its default, taken even when the next token is an error.
- All actions of the grammar are alike (a node named after the left-hand side,
  one child per symbol, texts of identifiers and numbers freed), so `Reduce` is
  one action with the rule as its parameter.  That they are alike comes from
  reading the sixty of them and is not something the model could find out;
  `Adopted` and `TextsFreed` are the two things each of them does by hand, and
  their faulty forms, where one action differs from the others, show that such
  a slip would not go unnoticed by the properties.
- `Restarted` is the call of `yyrestart`: flex's buffer still has the rest of a
  rejected file, and without the call the tokens of the next one come behind it.
- `nodes` is the heap, `live` what has not been freed; `trees` and `strings`
  count the other allocations.  `root` is `gt->root`; what `malloc` leaves in
  it is a choice between a null pointer and a wild one.
- `Open` is `syntax()` up to `yyparse`, with both files able to fail; `PrintTree`
  is the rest of it.  A wild root makes the behaviour undefined, and nothing
  is said about what follows.
- `Transform` and the operators it calls have one CASE per branch of
  `transform_node_iter`.  The trees that the generated parser of lab 3-1 builds
  are those of lab 2's grammar.

Those of the refinement: `text` is, for each function, the sequence of the
blocks inserted into it, as they are now, and `building` says that a function is
being written.  A block that exists but is not inserted is not part of the text,
so an action that creates one is a stutter of `BlockStream`; one that inserts it
makes the block before it final.

Those of the execution:

- `memory` is a list of objects: the globals, then one for each `alloca` that
  is executed.  An address is an object and a place in it.  `stack` holds the
  calls that have not returned, each with the place of its next instruction and
  the values its instructions have yielded so far.  Each action executes one
  instruction; the library's functions are actions of their own.
- Reading what nobody has stored, an access outside an object, a quotient that
  does not exist, `input` at the end of the input: LLVM and C leave these
  undefined, and the process ends there as `undefined`.  The source program
  halts as undefined at the same places, so a compiled program that gets there
  on its own is noticed.  Sums and products wrap, as the instructions the
  builder emits (without `nsw`) do.
- `Bits` is the width of an int.  Nothing in the code depends on its being 32;
  8 bits let TLC reach both ends of the range.
- Compiling is a stutter of `CminusRun`, and so is every instruction that prints
  nothing.  The trees are in the classes of `syntax_tree.hpp`; those of the
  builder's other runs come from the same operators (`CminusPrograms`).
- `CminusMeaning` evaluates operands and arguments from left to right.  That is
  a choice of the reference, made as the code does it: `lab3-1/docs/cminus.md`
  leaves the order open.
- The generators' `nsw` flags (`gcd_generator.cpp:70-71`) are left out; nothing
  overflows in that program.
- The builder is not started for the modules of lab3-0: the behaviour begins
  with the finished module.

Those of the lexer:

- A text is a sequence of characters.  Each pattern is a predicate on strings,
  written in the order of the file; `NextMatch` and `RuleOf` are flex's rule
  (the longest match, then the first pattern).  Each rule's action is an action
  of the model; `Report` is what the loop of `analyzer` does with its token.
- A line of a token file keeps, instead of the text of its token, the place
  where it was in the file: what a reader of the token file cannot see and the
  properties need.
- `input` and `restarted` are flex's buffer: it takes its text from `yyin` again
  only after the end of a file has been seen.
- `Openings` are the ways the two `fopen` can go.

Those of the driver:

- `at` is the place in `main`; each argument is one action, so that every order
  of them is met.  A path is a sequence of parts, a suffix a part of its own.
- What a program is like (an unknown character, a syntax error, an unbound name,
  code the verifier rejects) decides how the parser, the builder, the verifier
  and the passes end; what clang makes of an object file is a choice of its own.
- `before` and `runs` are auxiliary: the files when `main` was called, and the
  number of calls, bounded by `MaxRuns`.

The printer is a function from a tree and a printer (its `depth` and the lines
printed) to a printer; a line is its number of dashes and its words.

Definitions marked *Slip* stand directly before the definition they are a
faulty form of (a reset that is missing, swapped branches, a block that is not
inserted).  The specifications do not use them; they serve to see that each
property notices such a mistake.

Left out: the names LLVM gives values; the folding `IRBuilder` does when all
operands are constants (the instruction stands for the constant, of the same
type); in the parser, the line and column positions (the lexer's are modelled);
the names of the registers and blocks in the text of a module.

## 4. The runs

| Run | Module | What TLC runs it on | What it shows |
|---|---|---|---|
| `build_control` (71,614 states) | `MCCminusBuilder` | `ControlPrograms`: every statement made of two levels of blocks of two, `if`, `if`-`else` and `while` over an assignment, a `return` and an empty statement | no block is lost or inserted twice, each ends in a terminator, branches stay in their function and never lead to its entry, code is only ever appended at the insertion point; the builder implements `BlockStream` |
| `build_values` (70,847) | `MCCminusBuilder` | `ExpressionPrograms`, `ReturningPrograms`: scalars, global, local and parameter arrays, calls, sums, products, comparisons and assignments, in indices, arguments, operands, conditions and returns; `FlatPrograms`: one name declared as a global, a parameter, a local of the body, and others that shadow functions | the programs keep the type rules, operands have the types the LLVM verifier asks for and so have the values in hand, definitions dominate uses, and what is in hand can be used where the builder points; each element address is guarded by the check of its own index; names mean the innermost declaration, the table follows the walk and holds what the walk has declared, and nothing is used before that; the builder gets to the end |
| `syntax_batches` (57,290) | `MCSyntaxAnalyzer` | `AllBatches`: files of 165 programs with every form of expression, statement and list, and batches of a file with a token missing, cut off or continued, followed by a good one; files that cannot be opened | each node has one owner and is freed once, with its tree; no token is lost; what the parser reads is the rest of its own file, also after a broken one; every program is accepted, its abstract syntax tree, written down again, is the file, and its printed listing, read again, is the tree; the batch comes to its end |
| `lexing` (61,603) | `MCLexicalAnalyzer` | `LexedDirectories`: all texts of up to four of seven characters, words around a keyword, all comments of up to five characters in a directory with other entries and with a file full of errors behind, and two testcases that share a token file or not, in both orders | tokens are where the token file says, none is dropped, comments end where the pattern lets them, mixed words are reported; every `*.cminus` file gets its token file, unless a later entry has the same one |
| `executions` (197,462) | `MCCompiledPrograms` | 403 programs on three inputs, of loops that change what they test, of calls whose prints show the order of evaluation, of arrays with indices that may be negative, of numbers at both ends of the range, and the five modules of lab3-0 | what is printed, and how the process ends, is what the program means (1144 of these executions return, 44 end at an index check, 6 are undefined for program and code alike; the hand-written modules return 1, 1, 20, 65 and 18) |
| `driver` (802,199) | `MCCompilerDriver` | every command of up to three words out of six and some of four, twice, on six kinds of programs | exit status, messages and files agree; no other file is touched |
| `nested_scopes` | `MCCminusBuilder` | `NestedPrograms`: declarations in nested blocks too | found violated: see below |
| `after_return` | `MCCminusBuilder` | `ControlPrograms` | found violated |
| `comparison_values` | `MCCminusBuilder` | `ComparisonPrograms` | found violated |
| `rejected_output` | `MCSyntaxAnalyzer` | `AllBatches` | found violated |
| `starred_comments` | `MCLexicalAnalyzer` | comments with up to four stars before their end, and one more behind them | found violated |
| `stray_positions` | `MCLexicalAnalyzer` | `AroundStray`: a character no rule knows between two tokens | found violated |

**Bounds.** The machine is deterministic for one program, so a run covers the
set of programs exactly.  Two levels of nesting put every statement inside and
after every other; what a method leaves behind for the next one (insertion
point, last block, flag, blocks held) is then met by every method, and a third
level repeats it.  Two functions suffice for what one function leaves for the
next.  For what is proved the bound does not matter.  The parser meets each of
its rules in the programs of `syntax_batches`; lists have zero to three
elements (the loops of the transformation treat the first, the last and the
one between differently at most), two operators follow each other with equal
and with different precedence, and conditionals nest three deep so that an
else may belong to each of two.  A broken file differs from a good one in one
place, which is every place of it; one good file after it shows what it leaves
behind.

`lex_main` reads the directory in the order of `readdir`, which promises none.
The pattern for testcases lets a name like `axcminus` through, whose token file is
that of `a.cminus`: whichever comes later overwrites the other's.  With
`axcminus` behind it, `a.cminus` ends without its tokens, and
`AllTestcasesTokenised` makes this the one exception to what the comment at
`lexical_analyzer.l:189-193` promises (`Takes`).  The run has directories in both
orders, and with a third file behind them.

The lexer is deterministic for one directory as well.  Four characters hold two
tokens and what may stand between them (a newline, a blank, an error), which is
all the counters depend on; a comment of five characters has room for its end,
another end behind it, a pair of stars and a line break; two files are one file
and what it leaves behind.  The driver forgets its variables between two calls,
so two calls are what a file system can tell about; three words reach every
branch of the loop over the arguments, the commands of four what needs both `-o`
and a mode.  The compiled programs are small because the behaviour of each
instruction depends on its operands only: what matters is their combination
(each part of an expression next to each other part, each statement in a loop).
`Bits = 8` is the width of an int, `MaxRuns` the number of calls.

**Fairness.** `FairSpec` adds WF(Next): the compiler is one thread that is not
suspended for ever.  Nothing else is assumed; there is no choice for a
scheduler to make.  `RunsToTheEnd` says that every tree of the set is walked
to its end: the walk terminates, and no name is looked up in vain (where the
C++ code would dereference a null pointer, the model has no next step; the
other runs check deadlock, so they show the same for their programs).  When the
walk is done the module is `Finished` and only the stuttering `Idle` is left.

The drivers of lab 1 and lab 2 and the compiled program are one thread each as
well: `AllTestcasesTokenised`, `BatchEnds` and the liveness part of
`BehavesAsMeant` (every line is printed in the end, and the process ends) need
WF(Next) only.

**Deadlock** is checked in all runs but `driver`: after `MaxRuns` calls the
command line and the editor have nothing left to do.

**What the violations say.**

- `nested_scopes`: only the body of a function enters a scope
  (`cminus_builder.cpp:138`), so declarations of nested blocks land in the
  scope of the function's body and survive their block.  TLC's program is
  `int x; void f(void) { { int x; x = x + 1; } x = x + 1; }`: where the second
  assignment is visited no declaration of `x` is around it but the global one
  (`DeclarationsEndWithTheirBlock`), and `find` answers the slot of the block
  that has ended.  `lab3-1/docs/cminus.md:89` and
  `lab3-1/report/lab3-1_report.md:43` say otherwise.  Two things follow that the
  run does not show: a second declaration of a name in such a scope is ignored,
  because `std::map::insert` keeps the old entry; and a use after the block
  refers to an `alloca` in a block that need not have been executed.
  (`StaticScoping`, which the passing run and the theorem are about, also counts
  scopes; on programs with nested declarations it would fail already where the
  code still finds the right declaration, so it is not what this run checks.)
- `after_return`: statements after a `return` are appended behind its
  terminator.
- `rejected_output`: `syntax()` prints and deletes the tree whatever `yyparse`
  answers.  If the parser stops before the reduction to `program`, `gt->root`
  holds what `malloc` left there; if it stops after it (the default reduction at
  `int x; ;` comes before the error), the output file holds the tree of the
  part that was read.
- `comparison_values`: a comparison has the type i1, and only conditions turn
  it into what its consumer needs; as an operand, an argument, a stored or a
  returned value it has the wrong type.

- `starred_comments`: the pattern cuts a comment into characters that are no
  star and pairs of a star and a character that is no slash.  That character may
  be the star before the last slash: `/***/a/**/` is one comment.  `lab1_lexical_analyzer/doc/lab1-.md:43,55`
  describe the opposite intention.  `CommentsDelimited` says what the pattern
  does guarantee, and is checked by `lexing`.
- `stray_positions`: a character no rule knows is reported at the columns of the
  token before it and is not counted afterwards.  TLC's text is `<@<`: the `@` in
  column 2 is reported from 1 to 2, as the first `<` is, and the second `<` from 2
  to 3 instead of from 3 to 4.  `PositionsExceptStray` says exactly how far the
  columns are off, and holds.

The passing runs of the builder check the same properties over programs without
these forms, so the properties say exactly where the code is right.

## 5. The proofs

Eight modules hold theorems: `SequenceLemmas` (facts about sequences that the
others cite), `BuilderProofs`, `ScopeProofs`, `DominanceProofs`, `TypeProofs`,
`NodeProofs`, `LexerProofs` and `DriverProofs`.  Each inductive
invariant is also an invariant of a run, with a faulty form of the code that
breaks it there: `BuilderInv` and `PlacementInv` in `build_control`, `NamesInv`,
`ElementInv`, `DeclarationInv`, `DominanceInv` and `TypesInv` in `build_values`, `MemoryInv` in
`syntax_batches`, `LexInv` in `lexing`.

**The builder.**  `BuilderProofs` proves, from `ProgramsAssumption` (each tree is
a program) and nothing else about the trees:

- `BuilderInvariance`: `Spec => []BuilderInv`
- `TypeCorrect`: `Spec => []TypeOK`
- `InsertPointStaysAtBack`: `Spec => []InsertPointAtBack`
- `BlocksWellFormed`: `Spec => []WellFormedBlocks`

`InsertPointAtBack` and `WellFormedBlocks` are not inductive alone.  Inserting
a block makes it the last one, so the block that *was* last must end in a
terminator by then and must not be the same block; an action that inserts
`Head(todo)` needs to know that its frame holds a block, that this block is in
no function yet and that no other frame holds it too; and all of that is about
the current function, which must be the last one created.  `BuilderInv` adds
what is missing:

- `Walk`: the bottom frames are the program and one declaration; statements and
  expressions run only above a function declaration that has been entered.
- `Scoping`: the flag `isFunctionTopCompoundStatement` is up exactly for the
  step between the declaration and its body, so the scopes that are open follow
  from the frames (1 outside functions, 2 for parameters, 3 in the body).  It
  is needed because `InGlobal(scope)` decides whether a declaration is a global
  variable or emits code into the current function.
- `Shape`, `Position`: functions are lists of blocks that exist; the current
  function is the last one exactly when a function frame is on the stack, and
  the builder points at the last of its blocks.
- `Once`, `Held`: no block is inserted twice; a frame holds as many blocks as
  its method still has to insert, distinct, not inserted and held by no other.

The argument: `CodeGrows` says what a step may do to the blocks, `BuildKeeps`
derives it for every use of `Build`; `InnerStep`, `FunctionStep` and
`OuterStep` carry the invariant over a change of frames inside a function, of
a function's own frame and outside functions; then there is one lemma per
action, named after it, and `NextKeeps` collects them.

**The refinement.**  `BuilderProofs` uses this invariant to prove

- `OnlyAppends`: `Spec => AppendOnly`
- `BuilderWritesFrontToBack`: `Spec => WrittenFrontToBack`, the whole of
  `Stream!Spec`.

`OnlyAtEnd` says that a step leaves all blocks but the one at the insertion
point as they are, extends that one, and only adds to the list of blocks of the
current function; `WritesOn` adds that it stays in a function.  There is one
lemma for each group of actions, and `StepKinds` collects them: a step opens a
function, writes on, closes a function, or changes nothing of the module.
`TextFacts` translates what is known of `layout` and `blocks` into what is known
of `text`, for the state before and the one after; `EarlierBlocks` shows that
the blocks in front are not the one that is written to, for which `Once` and
`InsertPointAtBack` are needed; `StepRefines` then takes each kind to its action
of `BlockStream`, where `WellFormedBlocks` after the step supplies the
terminators.

**Blocks and branches.**  `BuilderProofs` also proves

- `PlacementInvariance`: `Spec => []PlacementInv`
- `BlocksHaveOnePlace`: `Spec => []OnePlaceForEachBlock`
- `BranchesStayInside`: `Spec => []BranchTargetsInserted`

A block exists before it has a place: `visit(syntax_selection_stmt)` creates
two or three and keeps them in locals while the condition and the arms are
visited, and branches to them are built long before they are inserted.
`PlacementInv` says what holds meanwhile:

- `NoneLost`: a block that exists is inserted or some frame holds it.  `Once` and
  `Held` of `BuilderInv` make that one place.
- `Leading`: branches of a finished function stay in it and avoid its entry block;
  those of the function being built, and of the blocks still held, may also lead
  to any block that is held (`Reserve`).  Nothing is said of *which* frame holds
  it: what counts is that none is left when the function ends.
- `Frames`: only `if` and `while` hold blocks, so nothing is held at the end of a
  function; and a loop comes back to a block of `Reserve`.
- `ValueStays`: what `currentExpression` will build is neither a branch nor an
  element's address.

`CodePlacement` is the argument for a step inside a function: a frame gives way to
one that holds what it held and what was created, less what was inserted
(`Replaces`, `Written`), so `Mine` only grows, and with it the targets allowed.
Expressions neither hold nor create blocks (`Quiet`), except the index check of
an array element, which inserts its two blocks in one go (`ElementPlacement`).
At `FunEnd` the frames below are the program's alone, which holds nothing, so
every target allowed has been inserted by then (`FunEndPlacement`); and
`NothingHeld` says the same of any state between functions, where the next
declaration begins.

**Names.**  `ScopeProofs` proves

- `NamesInvariance`: `Spec => []NamesInv`
- `ScopesFollow`: `Spec => []ScopesFollowTheWalk`

`visit(syntax_var_declaration)` and the visits of functions and parameters tell
only by `InGlobal(scope)` and a flag what kind of thing they bind.  `NamesInv`
says what that amounts to.  `OuterNames`: the names of `scope[1]` are exactly the
ids of the module's functions and globals, each name stands for one of its own
id, and the three functions of the runtime library are still what they were
(a program may declare a name twice; `std::map::insert` then keeps the first,
so the three can never be rebound: that is what lets the index check call
`neg_idx_except`).  `InnerNames`: every name of an inner scope stands for an
`alloca` in a block of the current function.  It needs `BuilderInv` for the
number of open scopes and for the place where a declaration's `alloca` goes, and
an argument that slots stay where they are while code is appended (`SlotsStay`).

**Elements.**  `ScopeProofs` also proves, of programs in which no variable or
parameter is called `neg_idx_except` (`LetterNames`: the lexer makes identifiers of
letters only, so no program that has been parsed is one),

- `ElementInvariance`: `Spec /\ []LetterNames => []ElementInv`
- `ElementsAreGuarded`: `Spec /\ []LetterNames => []ElementsGuarded`

`visit(syntax_var)` builds the check and goes away; that no other way leads to the
element depends on everything that is visited afterwards.  `Guarded` says when
that is settled: the block of the comparison and the one of the call are
complete (the builder points elsewhere), neither the call's block nor the
element's is one that a loop will branch back to (`Loops`), and they are inserted,
so nobody holds them.  `WaitingEmpty`: the blocks that are held are empty, so one
that is inserted brings no branches with it.  `LibraryNamed`: no inner scope has
the name of the library's function.  `Proceeds` sums up what every step inside a
function but the check itself does, step by step, in `BuilderProofs`: the
instructions it appends lead to blocks that are held, created or a loop's
condition, and take no element but an array's first one (`Harmless`).  From that,
`Continues` follows (`StepContinues`), and under it what is guarded stays guarded
(`GuardedKept`).  `ElementChecked` is the check itself.  Without the hypothesis on
the names the theorem is false: `scope.find("neg_idx_except")` would find the
variable.

**Declarations.**  And of programs whose nested blocks declare nothing (`Flat`),
and which in addition declare each name before they use it (`DeclaredBeforeUse`;
both are asked of every state, as the programs are reached by the walk alone),

- `DeclarationInvariance`: `Spec /\ []Flat => []DeclarationInv`
- `NamesScopeStatically`: `Spec /\ []DeclaredBeforeUse => []StaticScoping`

The document gives parameters the scope of the body (`cminus.md:79`); the code and
`StaticScoping` have one scope for each, and a declaration in the body hides a
parameter of its name, which the document does not allow and says need not be
checked (`cminus.md:168`).
`StaticScoping` compares two ways to find a declaration: by the stack of scopes,
and by the frames around the use with what each has declared so far.
`DeclarationInv` relates the two frame by frame.  `DeclaredNames`: the scope of a
function holds its parameters up to `i`, that of its body the local declarations
up to `i`, less the one being visited.  `Body`, `Depths`: the body is the third
frame, and `isFunctionTopCompoundStatement` says so exactly until it has been
entered.  `Leaves`, `Unstarted`: declarations visit nothing, and what has not begun
has declared nothing.  `FollowingWalk` is about the frames after any step; a step
inside a body then keeps all of it (`InsideKeeps`, `InsideDeclares`), and the
actions that declare or open and close scopes have a lemma each.  The
hypothesis cannot be dropped: `nested_scopes` shows what happens without `Flat`.
`build_values` checks it on its programs, so the theorem is about something.

**Dominance.**  `DominanceProofs` proves, of programs whose nested blocks declare
nothing,

- `DominanceInvariance`: `Spec /\ []Flat => []DominanceInv`
- `DefinitionsDominate`: `Spec /\ []Flat => []DefinitionsDominateUses`

Dominance speaks of all paths through a function.  It is stated without
recursion: `d` dominates `u` if some set of blocks holds the entry, is closed
under branches but for `d`, and leaves `u` out (`Evades`); the smallest such set
is that of the blocks that can be reached without `d`.

The property is about the finished function, the visit methods build it from the
front, and a branch added later may open a way around `d`.  `Lasting` is the
dominance that no later step can undo: `u` is also left out of a set that holds
the blocks to which branches may still be added (`Open`: those the frames hold and
the conditions of running loops).  `DominanceInv` then says

- `UsesBehind`, `InHand`: what is an operand of an instruction, or is held by a
  frame or by `currentExpression` and `currentPointer` for one to come, is earlier
  in the same block, or in a block that dominates lastingly;
- `ValueFrames`: only expressions hold values, and they visit nothing but
  expressions; so while a value is in hand, at most index checks open blocks, and
  those lie on the only way on;
- `Opening`, `SlotsInEntry`: the declarations of a function are visited before
  anything opens a second block, so all its slots are in the entry block, which
  dominates everything;
- `WaitingEmpty`: blocks that are held are empty.

It is inductive together with `BuilderInv` (where the builder points),
`PlacementInv` (where branches lead), `NamesInv` (what a name found stands for) and
`DeclarationInv` (which frames declare).  `LastingKept` carries lasting dominance
over any step that adds blocks (`Expands`); `UsesStep` is the step that appends
instructions whose operands fit (`Feeds`); `AddressTaken` and `TakenFits` are the
index check, the one place where a value crosses from one block to another.  Then
there is a lemma for each group of actions: `BranchingDominates`,
`StatementDominates`, `ExpressionDominates`, `ElementDominates`, `SlotDominates`,
`FunctionDominates`.  The hypothesis cannot be dropped: with a declaration of one
name in both arms of an `if`, the second arm uses the slot of the first, and the
programs of `nested_scopes` break `DefinitionsDominateUses`.

**Types.**  `TypeProofs` proves, of programs whose names are letters and which keep
the language's rules for types,

- `TypesInvariance`: `Spec /\ []LetterNames /\ []TypeRules => []TypesInv`
- `OperandsFit`: `Spec /\ []LetterNames /\ []TypeRules => []OperandsWellTyped`

`CminusBuilder` checks no types: it passes on what it finds and lets LLVM see to
the rest.  `TypeRules` is what a program must be like for that to go well, asked
where the walk comes by: a variable, a call or an operation has the type that the
method waiting for it asks for (`Takes`), calls have as many arguments as
parameters, and a function returns a value if it has been declared with one.  In
particular a comparison may only be a condition: `comparison_values` shows what
becomes of one that is used as a number, which the language allows.  No other
hypothesis is made about declarations: `Flat` is not needed, because a name found
in the wrong scope is still a variable or a function and `TypeRules` is about what
`Scope::find` answers.  `build_values` checks `TypeRules` on its programs, as
a part of `LanguageRules`.

The rules speak of the syntax tree; the instructions are emitted later, by other
methods, and from closures.  `TypesInv` is what is kept meanwhile:

- `CodeFitting`: what has been emitted fits, in unfinished functions too;
- `VariablesTyped`: what a name stands for is a function or has an address;
- `Signature`: the function being built, and the parameter that comes next, are
  what the declaration says;
- `FramesFitting`: the values a method has taken along have the types it will need,
  the arguments visited so far are those of the parameters so far, and what a
  method will leave is what its caller waits for;
- `HandFitting`: what `currentExpression` will build has the type it says.

It is inductive together with `BuilderInv`, `PlacementInv`, `NamesInv` (a function
that is called exists) and `ElementInv` (the index check calls the library's
function, which has no parameters, and blocks that are inserted are empty).
`TypedBy` turns LLVM's rules into one fact for each kind of instruction;
`WrittenFits` is the step that appends; `StatementTyped` and `ExpressionTyped` are
the two shapes of a step, and each group of actions has its lemma again.  New
functions are the one step that changes what `WellTyped` refers to, and
`FittingKept` says that old code still fits.

**The driver.**  `DriverProofs` proves, from `SourcesAssumption` and
`CommandsAssumption` (arguments are lists of strings), for every `MaxRuns`:

- `SuccessIsCurrent`: `Spec => []SuccessMeansCurrent`
- `FailureKeepsFiles`: `Spec => []FailureLeavesFiles`
- `WritesOnlyTargets`: `Spec => OnlyTargetsWritten`

`DriverInv` is inductive: to the two invariants it adds what the two paths owe
to the arguments looked at so far (`PathsFromArguments`: without it `output_name`
could be any file), what has been done to the files at each place of `main`
(`FilesFollowMain`), and that nothing has been said before the end (`Silent`).
One lemma per action again; `EndsEarly`, `GoesOn` and `EndsLate` are the three
ways an action leaves `main` as regards the files.

**Nodes.**  `NodeProofs` proves, from `BatchesAssumption` (files are sequences of
tokens, none of them a nonterminal) and the ways the two `fopen` can go:

- `MemoryInvariance`: `Spec => []MemoryInv`
- `TypeCorrectness`: `Spec => []TreeTypeOK`
- `SingleOwnership`: `Spec => []OneOwner`
- `EverythingFreed`: `Spec => []NothingLeaks`

`MemoryInv` has to know the grammar, because who owns a node depends on what the
parser does next: that `gt->root` is the node on the stack, and not one that a
later reduction puts into another tree, holds because `program` is reduced once
and nothing can follow it.

- `Files`: which file is read, and that those before it have been answered.
- `Reading`: what `yylex` has not returned yet is the rest of the file that is
  being parsed, and of no other: that is what `yyrestart` is called for.
- `ParserStack`: an LR state is the one the automaton goes to from the state
  below, and each item in it has been read (`Spelled`): the entries under an item's
  dot are the symbols of its rule, and the states under them expect it.  Hence a
  reduction finds its right-hand side on the stack (`HandleFacts`).
- `Forest`: children are older than their parent, each allocated node has at most
  one parent, and what is in hand has none.
- `Roots`, `Counts`: the root is a node of the stack, the texts on the stack have
  been allocated.

`RulesFacts` goes through the rules of the grammar file; `CornersGrounded` is
why the closure of a state contains only items the grammar has; `ReduceMemory` is
the step that matters, with `NewNodes` for what it allocates.  `NothingLeaks` is
about the nodes below a node in hand, a least set that is closed under children
(`ReachFacts`, `BelowFacts`); `InUse` is its inductive form, one lemma per action.

**The lexer.**  `LexerProofs` proves, from `CharactersAssumption` (the classes of
characters are disjoint and hold no blanks), `DirectoriesAssumption` (directories
are lists of entries with texts) and `OpeningsAssumption`:

- `LexInvariance`: `Spec => []LexInv`
- `PositionsMatch`: `Spec => []PositionsExceptStray`
- `CommentsAreDelimited`: `Spec => []CommentsDelimited`
- `NothingIsDropped`: `Spec => []NothingDropped`
- `MixedWordsAreRejected`: `Spec => []MixedWordsRejected`

The properties are about a file as a whole, the code sees one match at a time.
`LexInv` relates the two after each match: the rest that flex holds is a suffix
of the text (`IsRest`); the lines written so far stand for disjoint pieces of
what is in front of it, in their order, with nothing between them but blanks and
comments (`InOrder`, `Covered`); each is where it says but for the strays before
it on its line (`LocatedExceptStray`); a word that was cut short is an error
(`WholeWords`); and the two counters are those of the place reached (`Counted`).
The counters of `analyzer` are reset between files, and `DriverInv` says when flex
has taken its text from the new `yyin`.

First come facts about the patterns.  The comment's and the mixed words' are
iterations, written as sets of places where the iteration may stop; the argument
that they end where the properties say is one about the least of them
(`CommentShape`, `FirstCloseIsComment`, `MixedShape`).  `NextMatchFacts` is flex's
longest match.  `MatchKeepsInv` is what every rule owes to the invariant; a rule
writes a line (`ListingReported`, `CountedReported`) or passes something over
(`ListingPassed`, `CountedPassed`); there is one lemma per rule and per action of
the driver.

**Only model-checked.**

- `ProgramsAccepted`, `NothingLost`, `TransformKeepsProgram` and
  `PrintedTreeTellsProgram`: what `Transform`, `Write` and `Visit` compute is
  defined by recursion over trees, and induction over data is out of reach of
  the provers as installed.
- `LanguageRules` (`LetterNames`, `DeclaredBeforeUse`, which contains `Flat`, and
  `TypeRules`) is what the theorems assume of programs; `build_values` shows that
  its programs keep it.
- `RunsToTheEnd`, `BatchEnds`, `AllTestcasesTokenised` and `BehavesAsMeant` (in
  part) are liveness under fairness.

## 6. Not modelled

- The analyzer in `lab3-1/deps` is the output of flex and bison for a scanner
  and a grammar that are modelled from their sources in lab 1 and lab 2.
- The limits of arrays: 1000 children and 30 characters of a node, 50 names and
  256 characters of a path in the lexer's driver.  They are reached by the size
  of the input alone, and nothing happens on the way that depends on them.
  `newSyntaxTreeNodeFromNum` of the node library is not called by the grammar.
- The amount of memory of a compiled program: an `alloca` in a loop body
  (`cminus_builder.cpp:66`) takes new stack in every iteration.
- Uses that depend on the scope of a nested block, and comparisons used as
  values, are left out of the programs that are executed: what is wrong with
  them is shown by `nested_scopes` and `comparison_values`.
- LLVM's target selection and passes in the compiler's `main`, which no
  property depends on.
