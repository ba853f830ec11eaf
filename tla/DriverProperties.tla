-------------------------- MODULE DriverProperties --------------------------
(***************************************************************************)
(* What somebody who calls CompilerDriver from a makefile relies on.       *)
(***************************************************************************)
EXTENDS CompilerDriver

Told(messages) == At("ended") /\ said \in messages

\* main.cpp ends with 0 and without a word only when the file the mode names
\* holds what it has made of the program it has read, whatever was there
\* before; an executable that is new is made of that program, too.  It is the
\* object file that this says so of, since main.cpp:183 does not look at what
\* clang answers.
SuccessMeansCurrent ==
    Told({"nothing"}) /\ status = "0" =>
        /\ ~analyze
        /\ output_name \in DOMAIN files
        /\ files[output_name] = Holding(IF emit THEN "llvm" ELSE "object", mod.of)
        /\ target_path \in DOMAIN files /\ ~emit =>
              \/ files[target_path] = Holding("executable", mod.of)
              \/ target_path \in DOMAIN before /\ files[target_path] = before[target_path]

\* An invocation that fails, tells a lexical error, shows its help or only
\* analyses (main.cpp:39-66,71-76,137-150,153-156,167-170) leaves every file
\* as it was, and no new one: all it can do is to lose its own output.
FailureLeavesFiles ==
    Told({"error", "lexical error", "help", "fine"}) =>
        /\ \A p \in DOMAIN files : p \in DOMAIN before /\ files[p] = before[p]
        /\ DOMAIN before \ DOMAIN files \subseteq {output_name}

\* main.cpp writes to no files but those its arguments ask for: the argument
\* of -o or else the name of a .cminus argument with its suffix replaced
\* (main.cpp:43-45,78-82), and beside it the object file.
Given == {argv[k + 1] : k \in {k \in 1..Len(argv) - 1 : argv[k] = <<"-o">>}} \ {<<>>}
Stems == {Front(p) : p \in {p \in Range(argv) : p # <<>> /\ Last(p) = ".cminus"}}
Targets == IF Given # {} THEN Given ELSE Stems \cup {Append(p, ".ll") : p \in Stems}
AskedFor == Targets \cup {Append(p, ".o") : p \in Targets}

OnlyTargetsWritten ==
    [][~Edit => \A p \in DOMAIN files \cup DOMAIN files' :
          \/ p \in AskedFor
          \/ p \in DOMAIN files /\ p \in DOMAIN files' /\ files'[p] = files[p]]_vars
=============================================================================
