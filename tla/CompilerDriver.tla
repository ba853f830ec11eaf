--------------------------- MODULE CompilerDriver ---------------------------
(***************************************************************************)
(* cminusc (lab3-1/src/cminusc/main.cpp) on a file system: one invocation  *)
(* after the other reads its arguments, compiles its input, and checks or  *)
(* writes what comes out; between them somebody edits the programs.        *)
(*                                                                         *)
(* An argument or a path is a sequence of parts, each suffix a part of its *)
(* own, and <<>> the empty string.  What a file holds is told apart by     *)
(* what it is and by the program it was made of.                           *)
(***************************************************************************)
EXTENDS Sequences, SequencesExt, Functions, Naturals

CONSTANTS
    Sources,        \* the programs a file may hold, some of them wrong:
    LexicalErrors,  \*   with a character no token begins with,
    SyntaxErrors,   \*   not derived by the grammar,
    Unbound,        \*   using a name that is not declared,
    Broken,         \*   translated to a module the verifier rejects
    Commands,       \* the argument lists of invocations
    SourcePaths,    \* where programs are edited
    MaxRuns         \* bound: the number of invocations

ASSUME SourcesAssumption ==
    LexicalErrors \cup SyntaxErrors \cup Unbound \cup Broken \subseteq Sources

\* argv is a list of strings
ASSUME CommandsAssumption == Commands \subseteq Seq(Seq(STRING))

VARIABLES
    files,                     \* what the files that exist hold
    argv, i,                   \* the arguments, and the next one to look at
    target_path, input_path, emit, analyze,
    at,                        \* where main is
    mod,                       \* what was read, and the module made of it
    status,                    \* how main has ended
    said,                      \* what it has told: "help", "fine" or an error
    before,                    \* auxiliary: the files when main was called
    runs                       \* auxiliary: the number of invocations so far

options == <<target_path, input_path, emit, analyze>>
vars == <<files, argv, i, options, at, mod, status, said, before, runs>>

Holding(what, source) == [is |-> what, of |-> source]
Nothing == Holding("nothing", "none")
Write(path, content) ==
    files' = [p \in DOMAIN files \cup {path} |-> IF p = path THEN content ELSE files[p]]
Without(path) == Restrict(files, DOMAIN files \ {path})

At(place) == at = place
Goto(place) == at' = place /\ UNCHANGED <<status, said>>
Exit(code, message) == at' = "ended" /\ status' = code /\ said' = message

-----------------------------------------------------------------------------
Init ==
    /\ files \in {[p \in SourcePaths |-> Holding("source", s)] : s \in Sources}
    /\ argv = <<>> /\ i = 1
    /\ target_path = <<>> /\ input_path = <<>> /\ emit = FALSE /\ analyze = FALSE
    /\ at = "idle" /\ mod = Nothing /\ status = "none" /\ said = "nothing"
    /\ before = files /\ runs = 0

\* The programmer, between two invocations.
Edit ==
    /\ At("ended")
    /\ \E p \in SourcePaths, s \in Sources : Write(p, Holding("source", s))
    /\ at' = "idle"
    /\ UNCHANGED <<argv, i, options, mod, status, said, before, runs>>

Invoke ==
    /\ at \in {"idle", "ended"}
    /\ runs < MaxRuns
    /\ runs' = runs + 1
    /\ argv' \in Commands
    /\ i' = 1
    /\ target_path' = <<>> /\ input_path' = <<>> /\ emit' = FALSE /\ analyze' = FALSE
    /\ mod' = Nothing /\ status' = "none" /\ said' = "nothing"
    /\ before' = files
    /\ at' = "arguments"
    /\ UNCHANGED files

-----------------------------------------------------------------------------
(* The arguments, and the path of the output.                              *)

Reading == At("arguments") /\ i <= Len(argv)
Flags == {<<"-emit-llvm">>, <<"-analyze">>}

Help ==
    /\ \/ Reading /\ argv[i] \in {<<"-h">>, <<"--help">>}
       \/ Reading /\ argv[i] = <<"-o">> /\ (target_path # <<>> \/ i = Len(argv))
       \/ Reading /\ argv[i] \notin Flags \cup {<<"-h">>, <<"--help">>, <<"-o">>} /\ input_path # <<>>
       \/ At("arguments") /\ i = Len(argv) + 1 /\ input_path = <<>>
    /\ Exit("0", "help")
    /\ UNCHANGED <<files, argv, i, options, mod, before, runs>>

TargetArgument ==
    /\ Reading /\ argv[i] = <<"-o">> /\ target_path = <<>> /\ i < Len(argv)
    /\ target_path' = argv[i + 1]
    /\ i' = i + 2
    /\ UNCHANGED <<files, argv, input_path, emit, analyze, at, mod, status, said, before, runs>>

FlagArgument ==
    /\ Reading /\ argv[i] \in Flags
    /\ emit' = (emit \/ argv[i] = <<"-emit-llvm">>)
    /\ analyze' = (analyze \/ argv[i] = <<"-analyze">>)
    /\ i' = i + 1
    /\ UNCHANGED <<files, argv, target_path, input_path, at, mod, status, said, before, runs>>

InputArgument ==
    /\ Reading /\ argv[i] \notin Flags \cup {<<"-h">>, <<"--help">>, <<"-o">>}
    /\ input_path = <<>>
    /\ input_path' = argv[i]
    /\ i' = i + 1
    /\ UNCHANGED <<files, argv, target_path, emit, analyze, at, mod, status, said, before, runs>>

\* Without -o the output is named after the input, which must be a .cminus.
\* Slip: the suffix stays.
NamedAfterWhole(path) == IF emit THEN Append(path, ".ll") ELSE path
NamedAfter(path) == IF emit THEN Append(Front(path), ".ll") ELSE Front(path)

ChooseTarget ==
    /\ At("arguments") /\ i = Len(argv) + 1 /\ input_path # <<>>
    /\ IF target_path # <<>> THEN Goto("syntax") /\ UNCHANGED target_path
       ELSE IF Last(input_path) # ".cminus" THEN Exit("-1", "error") /\ UNCHANGED target_path
       ELSE Goto("syntax") /\ target_path' = NamedAfter(input_path)
    /\ UNCHANGED <<files, argv, i, input_path, emit, analyze, mod, before, runs>>

-----------------------------------------------------------------------------
(* The translation.                                                        *)

\* syntax ends the process when it cannot open the file, and yylex_wrapper
\* with exit(0) at a character it does not know; the tree of a syntax error
\* is null.  A file that is no program is wrong in one of these two ways.
Wrong(read, sources) == read.is # "source" \/ read.of \in sources

Syntax ==
    /\ At("syntax")
    /\ \/ input_path \notin DOMAIN files /\ Exit("1", "error") /\ UNCHANGED mod
       \/ /\ input_path \in DOMAIN files
          /\ mod' = files[input_path]
          /\ \/ Wrong(mod', LexicalErrors) /\ Exit("0", "lexical error")
             \/ Wrong(mod', SyntaxErrors) /\ Exit("aborted", "error")
             \/ ~Wrong(mod', LexicalErrors \cup SyntaxErrors) /\ Goto("build")
    /\ UNCHANGED <<files, argv, i, options, before, runs>>

\* The tree, the visitor and build(); a name the scope does not know is a
\* null pointer that the visitor follows.
BuildModule ==
    /\ At("build")
    /\ IF mod.of \in Unbound THEN Exit("killed", "error")
       ELSE Goto(IF analyze THEN "analyze" ELSE "open")
    /\ UNCHANGED <<files, argv, i, options, mod, before, runs>>

\* The verifier ends the process when it finds something.
Analyze ==
    /\ At("analyze")
    /\ IF mod.of \in Broken THEN Exit("1", "error") ELSE Exit("0", "fine")
    /\ UNCHANGED <<files, argv, i, options, mod, before, runs>>

-----------------------------------------------------------------------------
(* The output.  ToolOutputFile makes the file empty when it is opened, and *)
(* removes it in the end or in a crash unless it was told to keep it.      *)

obj_file_name == Append(target_path, ".o")
output_name == IF emit THEN target_path ELSE obj_file_name

OpenOutput ==
    /\ At("open")
    /\ \/ Write(output_name, Nothing) /\ Goto(IF emit THEN "print" ELSE "generate")
       \/ Exit("-1", "error") /\ UNCHANGED files
    /\ UNCHANGED <<argv, i, options, mod, before, runs>>

\* Slip: the file is not kept.
PrintModuleUnkept ==
    /\ At("print")
    /\ files' = Without(output_name)
    /\ Exit("0", "nothing")
    /\ UNCHANGED <<argv, i, options, mod, before, runs>>
PrintModule ==
    /\ At("print")
    /\ Write(output_name, Holding("llvm", mod.of))
    /\ Exit("0", "nothing")
    /\ UNCHANGED <<argv, i, options, mod, before, runs>>

\* The passes are not told to verify: what they make of a module the
\* verifier would reject is either an object file or a crash.
\* Slip: the file is kept before the passes run.
GenerateKeptEarly ==
    /\ At("generate")
    /\ \/ Write(output_name, Holding("object", mod.of)) /\ Goto("link")
       \/ mod.of \in Broken /\ UNCHANGED files /\ Exit("killed", "error")
    /\ UNCHANGED <<argv, i, options, mod, before, runs>>
Generate ==
    /\ At("generate")
    /\ \/ Write(output_name, Holding("object", mod.of)) /\ Goto("link")
       \/ mod.of \in Broken /\ files' = Without(output_name) /\ Exit("killed", "error")
    /\ UNCHANGED <<argv, i, options, mod, before, runs>>

\* What clang answers is not looked at: it may find no linker, or leave
\* nothing of its output.
Link ==
    /\ At("link")
    /\ \/ Write(target_path, Holding("executable", mod.of))
       \/ UNCHANGED files
       \/ files' = Without(target_path)
    /\ Exit("0", "nothing")
    /\ UNCHANGED <<argv, i, options, mod, before, runs>>

-----------------------------------------------------------------------------
Next ==
    \/ Edit \/ Invoke
    \/ Help \/ TargetArgument \/ FlagArgument \/ InputArgument \/ ChooseTarget
    \/ Syntax \/ BuildModule \/ Analyze \/ OpenOutput \/ PrintModule \/ Generate \/ Link

Spec == Init /\ [][Next]_vars
=============================================================================
