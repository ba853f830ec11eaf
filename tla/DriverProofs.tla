---------------------------- MODULE DriverProofs ----------------------------
(***************************************************************************)
(* Proofs of what a caller of CompilerDriver relies on, for every set of   *)
(* programs and of commands and any number of invocations.                 *)
(***************************************************************************)
EXTENDS DriverProperties, SequenceLemmas

-----------------------------------------------------------------------------
(* The invariant.                                                          *)

\* Where main has gone past the choice of the target.
Translating == {"syntax", "build", "analyze", "open", "print", "generate", "link"}

OptionsOK ==
    /\ IsSeq(argv) /\ i \in Nat \ {0} /\ \A k \in 1..Len(argv) : IsSeq(argv[k])
    /\ IsSeq(target_path) /\ IsSeq(input_path)
    /\ emit \in BOOLEAN /\ analyze \in BOOLEAN
    /\ at \in {"idle", "arguments", "ended"} \cup Translating

\* What the arguments that have been looked at say of the two paths.
PathsFromArguments ==
    /\ input_path # <<>> => input_path \in Range(argv)
    /\ at = "arguments" =>
         IF target_path # <<>> THEN target_path \in Given
         ELSE \A k \in 1..i - 1 : argv[k] = <<"-o">> => k < Len(argv) /\ argv[k + 1] = <<>>
    /\ at \in Translating => target_path \in Targets

\* The files but the output are those of the beginning.
OthersKept ==
    /\ output_name \in DOMAIN files
    /\ \A p \in DOMAIN files \cup DOMAIN before : p # output_name =>
          p \in DOMAIN files /\ p \in DOMAIN before /\ files[p] = before[p]

\* What main has done to the files where it is.
FilesFollowMain ==
    /\ at \in {"arguments", "syntax", "build", "analyze", "open"} => files = before
    /\ at \in {"print", "generate", "link"} => OthersKept
    /\ at = "analyze" => analyze
    /\ at \in {"open", "print", "generate", "link"} => ~analyze
    /\ at = "print" => emit
    /\ at \in {"generate", "link"} => ~emit
    /\ at = "link" => files[output_name] = Holding("object", mod.of)

\* main says nothing before it ends.
Silent == at # "ended" /\ at # "idle" => said = "nothing" /\ status = "none"

DriverInv ==
    /\ OptionsOK /\ PathsFromArguments /\ FilesFollowMain /\ Silent
    /\ SuccessMeansCurrent /\ FailureLeavesFiles

-----------------------------------------------------------------------------
(* Files and paths.                                                        *)

\* Writing a file gives it its content and leaves the others.
LEMMA WriteFacts ==
    ASSUME NEW path, NEW content, Write(path, content)
    PROVE  /\ DOMAIN files' = DOMAIN files \cup {path} /\ files'[path] = content
           /\ \A p \in DOMAIN files : p # path => files'[p] = files[p]
  BY DEF Write

\* Removing a file leaves the others.
LEMMA WithoutFacts ==
    ASSUME NEW path, files' = Without(path)
    PROVE  /\ DOMAIN files' = DOMAIN files \ {path}
           /\ \A p \in DOMAIN files : p # path => files'[p] = files[p]
  BY DEF Without, Restrict

\* A path with a suffix is another path.
LEMMA SuffixFacts ==
    ASSUME NEW path, NEW suffix, IsSeq(path)
    PROVE  IsSeq(Append(path, suffix)) /\ Append(path, suffix) # path
<1>1. IsSeq(Append(path, suffix)) /\ Len(Append(path, suffix)) = Len(path) + 1
      /\ Len(path) \in Nat
  BY AppendFacts, SeqFacts
<1>2. QED
  BY <1>1

\* The output is the target or the target with a suffix.
LEMMA OutputFacts ==
    ASSUME OptionsOK
    PROVE  /\ output_name \in {target_path, obj_file_name}
           /\ obj_file_name # target_path
           /\ target_path \in Targets => output_name \in AskedFor /\ target_path \in AskedFor
<1>1. obj_file_name # target_path
  BY SuffixFacts DEF OptionsOK, obj_file_name
<1>2. QED
  BY <1>1 DEF output_name, obj_file_name, AskedFor

\* A target named after the input is one that was asked for.
LEMMA NamedFacts ==
    ASSUME OptionsOK, input_path \in Range(argv), input_path # <<>>,
           Last(input_path) = ".cminus", Given = {}
    PROVE  NamedAfter(input_path) \in Targets /\ IsSeq(NamedAfter(input_path))
<1>1. Front(input_path) \in Stems /\ IsSeq(Front(input_path))
  BY FrontFacts DEF Stems, OptionsOK
<1>2. QED
  BY <1>1, SuffixFacts DEF NamedAfter, Targets

-----------------------------------------------------------------------------
(* One lemma for each group of actions: they keep the invariant.           *)

\* What the paths that were asked for depend on.
LEMMA SameArguments ==
    ASSUME argv' = argv
    PROVE  Given' = Given /\ Stems' = Stems /\ Targets' = Targets /\ AskedFor' = AskedFor
<1>1. Given' = Given /\ Stems' = Stems
  BY DEF Given, Stems
<1>2. Targets' = Targets
  BY <1>1 DEF Targets
<1>3. QED
  BY <1>1, <1>2 DEF AskedFor

\* main ends before it has touched a file.
LEMMA EndsEarly ==
    ASSUME DriverInv, at \in {"arguments", "syntax", "build", "analyze", "open"},
           at' = "ended", said' # "nothing",
           UNCHANGED <<files, before, argv, i, options>>
    PROVE  DriverInv'
<1>1. files' = before' /\ UNCHANGED <<argv, i, target_path, input_path, emit, analyze>>
  BY DEF DriverInv, FilesFollowMain, options
<1>2. OptionsOK' /\ PathsFromArguments'
  BY <1>1 DEF DriverInv, OptionsOK, PathsFromArguments, Translating
<1>3. FilesFollowMain' /\ Silent'
  BY DEF FilesFollowMain, Silent
<1>4. SuccessMeansCurrent' /\ FailureLeavesFiles'
  BY <1>1 DEF SuccessMeansCurrent, FailureLeavesFiles, Told, At
<1>5. QED
  BY <1>2, <1>3, <1>4 DEF DriverInv

\* main goes on to another place, where it has said nothing yet.
LEMMA NotEnded ==
    ASSUME at' # "ended" PROVE SuccessMeansCurrent' /\ FailureLeavesFiles'
  BY DEF SuccessMeansCurrent, FailureLeavesFiles, Told, At

LEMMA GoesOn ==
    ASSUME DriverInv, at \in {"syntax", "build"}, at' \in {"build", "analyze", "open"},
           at' = "analyze" => analyze, at' = "open" => ~analyze,
           UNCHANGED <<files, before, argv, i, options, status, said>>
    PROVE  DriverInv'
<1>1. UNCHANGED <<files, before, argv, i, target_path, input_path, emit, analyze, status, said>>
  BY DEF options
<1>2. OptionsOK'
  BY <1>1 DEF DriverInv, OptionsOK, Translating
<1>3. PathsFromArguments'
  BY <1>1, SameArguments DEF DriverInv, PathsFromArguments, Translating
<1>4. FilesFollowMain' /\ Silent'
  BY <1>1 DEF DriverInv, FilesFollowMain, Silent
<1>5. QED
  BY <1>2, <1>3, <1>4, NotEnded DEF DriverInv

\* Between two invocations.
LEMMA EditKeeps == ASSUME DriverInv, Edit PROVE DriverInv'
<1>1. /\ at' = "idle"
      /\ UNCHANGED <<argv, i, target_path, input_path, emit, analyze>>
  BY DEF Edit, options
<1>2. OptionsOK' /\ PathsFromArguments'
  BY <1>1 DEF DriverInv, OptionsOK, PathsFromArguments, Translating
<1>3. FilesFollowMain' /\ Silent'
  BY <1>1 DEF FilesFollowMain, Silent
<1>4. QED
  BY <1>1, <1>2, <1>3, NotEnded DEF DriverInv

LEMMA InvokeKeeps == ASSUME DriverInv, Invoke PROVE DriverInv'
<1>1. /\ at' = "arguments" /\ argv' \in Seq(Seq(STRING)) /\ i' = 1
      /\ target_path' = <<>> /\ input_path' = <<>> /\ emit' = FALSE /\ analyze' = FALSE
      /\ files' = before' /\ status' = "none" /\ said' = "nothing"
  BY CommandsAssumption DEF Invoke
<1>2. /\ IsSeq(<<>>) /\ 1 \in Nat \ {0} /\ \A k \in 1..1 - 1 : FALSE
      /\ IsSeq(argv') /\ \A k \in 1..Len(argv') : IsSeq(argv'[k])
  <2>1. \A k \in 1..Len(argv') : argv'[k] \in Seq(STRING)
    BY <1>1
  <2>2. QED
    BY <1>1, <2>1, SeqOverRange, ShortSeqs
<1>3. OptionsOK' /\ PathsFromArguments'
  BY <1>1, <1>2 DEF OptionsOK, PathsFromArguments, Translating
<1>4. FilesFollowMain' /\ Silent'
  BY <1>1 DEF FilesFollowMain, Silent
<1>5. QED
  BY <1>1, <1>3, <1>4, NotEnded DEF DriverInv

\* The arguments.
LEMMA HelpKeeps == ASSUME DriverInv, Help PROVE DriverInv'
  BY EndsEarly DEF Help, Exit, Reading, At

LEMMA TargetArgumentKeeps == ASSUME DriverInv, TargetArgument PROVE DriverInv'
<1>1. /\ at = "arguments" /\ i \in Nat \ {0} /\ i < Len(argv) /\ argv[i] = <<"-o">>
      /\ target_path = <<>> /\ target_path' = argv[i + 1] /\ i' = i + 2
      /\ UNCHANGED <<files, argv, input_path, emit, analyze, at, mod, status, said, before>>
      /\ Len(argv) \in Nat /\ <<"-o">> # <<>>
  BY SeqFacts DEF TargetArgument, Reading, At, DriverInv, OptionsOK
<1>2. IsSeq(argv[i + 1]) /\ i + 2 \in Nat \ {0}
  <2>1. i + 1 \in 1..Len(argv) /\ i + 2 \in Nat \ {0}
    BY <1>1
  <2>2. QED
    BY <2>1 DEF DriverInv, OptionsOK
<1>3. OptionsOK'
  BY <1>1, <1>2 DEF DriverInv, OptionsOK
<1>4. PathsFromArguments'
  <2>1. CASE target_path' # <<>>
    <3>1. target_path' \in Given
      BY <1>1, <2>1 DEF Given
    <3>2. QED
      BY <1>1, <2>1, <3>1, SameArguments DEF DriverInv, PathsFromArguments, Translating
  <2>2. CASE target_path' = <<>>
    <3>1. ASSUME NEW k \in 1..i' - 1, argv[k] = <<"-o">>
          PROVE  k < Len(argv) /\ argv[k + 1] = <<>>
      <4>1. k \in 1..i - 1 \/ k = i \/ k = i + 1
        BY <1>1
      <4>2. CASE k \in 1..i - 1
        BY <1>1, <3>1, <4>2 DEF DriverInv, PathsFromArguments
      <4>3. CASE k = i
        BY <1>1, <2>2, <4>3
      <4>4. CASE k = i + 1
        BY <1>1, <2>2, <3>1, <4>4
      <4>5. QED
        BY <4>1, <4>2, <4>3, <4>4
    <3>2. QED
      BY <1>1, <2>2, <3>1, SameArguments DEF DriverInv, PathsFromArguments, Translating
  <2>3. QED
    BY <2>1, <2>2
<1>5. FilesFollowMain' /\ Silent'
  BY <1>1 DEF DriverInv, FilesFollowMain, Silent
<1>6. QED
  BY <1>1, <1>3, <1>4, <1>5, NotEnded DEF DriverInv

\* An argument that is no -o leaves the -o arguments that have been looked at.
LEMMA OtherArgument ==
    ASSUME DriverInv, Reading, argv[i] # <<"-o">>, i' = i + 1,
           UNCHANGED <<files, argv, target_path, at, status, said, before>>,
           emit' \in BOOLEAN, analyze' \in BOOLEAN, IsSeq(input_path'),
           input_path' # <<>> => input_path' \in Range(argv)
    PROVE  DriverInv'
<1>1. /\ at = "arguments" /\ i \in Nat \ {0} /\ at' # "ended"
  BY DEF Reading, At, DriverInv, OptionsOK
<1>2. OptionsOK'
  BY <1>1 DEF DriverInv, OptionsOK
<1>3. PathsFromArguments'
  <2>1. \A k \in 1..i' - 1 : k = i \/ k \in 1..i - 1
    BY <1>1
  <2>2. QED
    BY <2>1, <1>1, SameArguments DEF DriverInv, PathsFromArguments, Translating
<1>4. FilesFollowMain' /\ Silent'
  BY <1>1 DEF DriverInv, FilesFollowMain, Silent
<1>5. QED
  BY <1>1, <1>2, <1>3, <1>4, NotEnded DEF DriverInv

LEMMA FlagArgumentKeeps == ASSUME DriverInv, FlagArgument PROVE DriverInv'
<1>1. Reading /\ argv[i] # <<"-o">> /\ i' = i + 1
  BY DEF FlagArgument, Flags
<1>2. /\ UNCHANGED <<files, argv, target_path, input_path, at, status, said, before>>
      /\ emit' \in BOOLEAN /\ analyze' \in BOOLEAN
  BY DEF FlagArgument
<1>3. IsSeq(input_path') /\ (input_path' # <<>> => input_path' \in Range(argv))
  BY <1>2 DEF DriverInv, OptionsOK, PathsFromArguments
<1>4. QED
  BY <1>1, <1>2, <1>3, OtherArgument

LEMMA InputArgumentKeeps == ASSUME DriverInv, InputArgument PROVE DriverInv'
<1>1. Reading /\ argv[i] # <<"-o">> /\ i' = i + 1 /\ input_path' = argv[i]
      /\ UNCHANGED <<files, argv, target_path, emit, analyze, at, status, said, before>>
  BY DEF InputArgument
<1>2. i \in 1..Len(argv)
  BY <1>1, SeqFacts DEF Reading, DriverInv, OptionsOK
<1>3. IsSeq(argv[i]) /\ argv[i] \in Range(argv)
  BY <1>2, SeqFacts DEF DriverInv, OptionsOK
<1>4. emit' \in BOOLEAN /\ analyze' \in BOOLEAN
  BY <1>1 DEF DriverInv, OptionsOK
<1>5. QED
  BY <1>1, <1>3, <1>4, OtherArgument

\* The target is one that was asked for, whether -o named it or not.
LEMMA ChooseTargetKeeps == ASSUME DriverInv, ChooseTarget PROVE DriverInv'
<1>1. /\ at = "arguments" /\ i = Len(argv) + 1 /\ input_path # <<>>
      /\ UNCHANGED <<files, argv, i, input_path, emit, analyze, before>>
  BY DEF ChooseTarget, At
<1>2. CASE Exit("-1", "error") /\ UNCHANGED target_path
  BY <1>1, <1>2, EndsEarly DEF Exit, options
<1>3. CASE Goto("syntax") /\ target_path' \in Targets /\ IsSeq(target_path')
  <2>1. at' = "syntax" /\ UNCHANGED <<status, said>>
    BY <1>3 DEF Goto
  <2>2. OptionsOK'
    BY <1>1, <1>3, <2>1 DEF DriverInv, OptionsOK, Translating
  <2>3. PathsFromArguments'
    BY <1>1, <1>3, <2>1, SameArguments DEF DriverInv, PathsFromArguments, Translating
  <2>4. FilesFollowMain' /\ Silent'
    BY <1>1, <2>1 DEF DriverInv, FilesFollowMain, Silent
  <2>5. QED
    BY <2>1, <2>2, <2>3, <2>4, NotEnded DEF DriverInv
<1>4. CASE target_path # <<>> /\ Goto("syntax") /\ UNCHANGED target_path
  <2>1. target_path \in Given /\ IsSeq(target_path)
    BY <1>1, <1>4 DEF DriverInv, PathsFromArguments, OptionsOK
  <2>2. QED
    BY <2>1, <1>3, <1>4 DEF Targets
<1>5. CASE /\ target_path = <<>> /\ Last(input_path) = ".cminus"
           /\ Goto("syntax") /\ target_path' = NamedAfter(input_path)
  <2>1. Given = {}
    <3>1. Len(argv) \in Nat
      BY SeqFacts DEF DriverInv, OptionsOK
    <3>2. ASSUME NEW k \in 1..Len(argv) - 1, argv[k] = <<"-o">> PROVE argv[k + 1] = <<>>
      <4>1. k \in 1..i - 1
        BY <1>1, <3>1
      <4>2. QED
        BY <4>1, <3>2, <1>1, <1>5 DEF DriverInv, PathsFromArguments
    <3>3. QED
      BY <3>2 DEF Given
  <2>2. OptionsOK /\ input_path \in Range(argv)
    BY <1>1 DEF DriverInv, PathsFromArguments
  <2>3. QED
    BY <2>1, <2>2, <1>1, <1>3, <1>5, NamedFacts
<1>6. QED
  BY <1>2, <1>4, <1>5 DEF ChooseTarget

\* The translation.
LEMMA SyntaxKeeps == ASSUME DriverInv, Syntax PROVE DriverInv'
<1>1. at = "syntax" /\ UNCHANGED <<files, argv, i, options, before>>
  BY DEF Syntax, At
<1>2. CASE at' = "ended" /\ said' # "nothing"
  BY <1>1, <1>2, EndsEarly
<1>3. CASE at' = "build" /\ UNCHANGED <<status, said>>
  BY <1>1, <1>3, GoesOn
<1>4. QED
  BY <1>2, <1>3 DEF Syntax, Exit, Goto

LEMMA BuildModuleKeeps == ASSUME DriverInv, BuildModule PROVE DriverInv'
<1>1. at = "build" /\ UNCHANGED <<files, argv, i, options, before>>
  BY DEF BuildModule, At
<1>2. CASE at' = "ended" /\ said' # "nothing"
  BY <1>1, <1>2, EndsEarly
<1>3. CASE at' = (IF analyze THEN "analyze" ELSE "open") /\ UNCHANGED <<status, said>>
  BY <1>1, <1>3, GoesOn
<1>4. QED
  BY <1>2, <1>3 DEF BuildModule, Exit, Goto

LEMMA AnalyzeKeeps == ASSUME DriverInv, Analyze PROVE DriverInv'
  BY EndsEarly DEF Analyze, Exit, At

\* Opening the output, main has touched one file only.
LEMMA OpenOutputKeeps == ASSUME DriverInv, OpenOutput PROVE DriverInv'
<1>1. at = "open" /\ UNCHANGED <<argv, i, options, mod, before>>
  BY DEF OpenOutput, At
<1>2. CASE Exit("-1", "error") /\ UNCHANGED files
  BY <1>1, <1>2, EndsEarly DEF Exit
<1>3. CASE Write(output_name, Nothing) /\ Goto(IF emit THEN "print" ELSE "generate")
  <2>1. /\ UNCHANGED <<target_path, input_path, emit, analyze, status, said>>
        /\ at' = (IF emit THEN "print" ELSE "generate") /\ files = before /\ ~analyze
        /\ output_name' = output_name
    BY <1>1, <1>3 DEF Goto, options, DriverInv, FilesFollowMain, output_name, obj_file_name
  <2>2. OptionsOK'
    BY <1>1, <2>1 DEF DriverInv, OptionsOK, Translating
  <2>3. PathsFromArguments'
    BY <1>1, <2>1, SameArguments DEF DriverInv, PathsFromArguments, Translating
  <2>4. OthersKept'
    <3>1. /\ DOMAIN files' = DOMAIN files \cup {output_name}
          /\ \A p \in DOMAIN files : p # output_name => files'[p] = files[p]
      BY <1>3, WriteFacts
    <3>2. before' = files
      BY <1>1, <2>1
    <3>3. QED
      BY <2>1, <3>1, <3>2 DEF OthersKept
  <2>5. FilesFollowMain' /\ Silent'
    BY <1>1, <2>1, <2>4 DEF DriverInv, FilesFollowMain, Silent
  <2>6. QED
    BY <2>1, <2>2, <2>3, <2>5, NotEnded DEF DriverInv
<1>4. QED
  BY <1>2, <1>3 DEF OpenOutput

\* main ends after it has opened the output.
LEMMA EndsLate ==
    ASSUME DriverInv, at' = "ended", UNCHANGED <<argv, i, options, mod, before>>,
           SuccessMeansCurrent', FailureLeavesFiles'
    PROVE  DriverInv'
<1>1. UNCHANGED <<target_path, input_path, emit, analyze>>
  BY DEF options
<1>2. OptionsOK' /\ PathsFromArguments'
  BY <1>1 DEF DriverInv, OptionsOK, PathsFromArguments, Translating
<1>3. FilesFollowMain' /\ Silent'
  BY DEF FilesFollowMain, Silent
<1>4. QED
  BY <1>2, <1>3 DEF DriverInv

LEMMA PrintModuleKeeps == ASSUME DriverInv, PrintModule PROVE DriverInv'
<1>1. /\ at = "print" /\ at' = "ended" /\ said' = "nothing" /\ emit /\ ~analyze
      /\ UNCHANGED <<argv, i, options, mod, before>>
      /\ Write(output_name, Holding("llvm", mod.of))
  BY DEF PrintModule, Exit, At, DriverInv, FilesFollowMain
<1>2. /\ output_name' = output_name /\ emit' /\ ~analyze' /\ mod' = mod
  BY <1>1 DEF options, output_name, obj_file_name
<1>3. SuccessMeansCurrent' /\ FailureLeavesFiles'
  BY <1>1, <1>2, WriteFacts DEF SuccessMeansCurrent, FailureLeavesFiles, Told, At
<1>4. QED
  BY <1>1, <1>3, EndsLate

LEMMA GenerateKeeps == ASSUME DriverInv, Generate PROVE DriverInv'
<1>1. /\ at = "generate" /\ UNCHANGED <<argv, i, options, mod, before>>
      /\ UNCHANGED <<target_path, input_path, emit, analyze>>
      /\ ~emit /\ ~analyze /\ OthersKept /\ output_name' = output_name
  BY DEF Generate, At, DriverInv, FilesFollowMain, options, output_name, obj_file_name
<1>2. CASE Write(output_name, Holding("object", mod.of)) /\ Goto("link")
  <2>1. at' = "link" /\ UNCHANGED <<status, said>>
    BY <1>2 DEF Goto
  <2>2. OptionsOK'
    BY <1>1, <2>1 DEF DriverInv, OptionsOK, Translating
  <2>3. PathsFromArguments'
    BY <1>1, <2>1, SameArguments DEF DriverInv, PathsFromArguments, Translating
  <2>4. OthersKept' /\ files'[output_name'] = Holding("object", mod'.of)
    <3>1. /\ DOMAIN files' = DOMAIN files \cup {output_name}
          /\ files'[output_name] = Holding("object", mod.of)
          /\ \A p \in DOMAIN files : p # output_name => files'[p] = files[p]
      BY <1>2, WriteFacts
    <3>2. before' = before /\ mod' = mod
      BY <1>1
    <3>3. QED
      BY <1>1, <3>1, <3>2 DEF OthersKept
  <2>5. FilesFollowMain' /\ Silent'
    BY <1>1, <2>1, <2>4 DEF DriverInv, FilesFollowMain, Silent
  <2>6. QED
    BY <2>1, <2>2, <2>3, <2>5, NotEnded DEF DriverInv
<1>3. CASE files' = Without(output_name) /\ Exit("killed", "error")
  <2>1. at' = "ended" /\ said' = "error"
    BY <1>3 DEF Exit
  <2>2. FailureLeavesFiles'
    BY <1>1, <1>3, WithoutFacts DEF OthersKept, FailureLeavesFiles
  <2>3. SuccessMeansCurrent'
    BY <2>1 DEF SuccessMeansCurrent, Told
  <2>4. QED
    BY <1>1, <2>1, <2>2, <2>3, EndsLate
<1>4. QED
  BY <1>2, <1>3 DEF Generate

\* Whatever clang does to the executable, the object file stays.
LEMMA LinkKeeps == ASSUME DriverInv, Link PROVE DriverInv'
<1>1. /\ at = "link" /\ at' = "ended" /\ said' = "nothing"
      /\ UNCHANGED <<argv, i, options, mod, before>>
      /\ UNCHANGED <<target_path, emit, analyze>>
      /\ ~emit /\ ~analyze /\ OthersKept /\ output_name' = output_name
      /\ files[output_name] = Holding("object", mod.of)
  BY DEF Link, Exit, At, DriverInv, FilesFollowMain, options, output_name, obj_file_name
<1>2. output_name # target_path
  BY <1>1, OutputFacts DEF DriverInv, output_name
<1>3. \/ Write(target_path, Holding("executable", mod.of))
      \/ UNCHANGED files
      \/ files' = Without(target_path)
  BY DEF Link
<1>4. output_name \in DOMAIN files' /\ files'[output_name] = files[output_name]
  BY <1>1, <1>2, <1>3, WriteFacts, WithoutFacts DEF OthersKept
<1>5. target_path \in DOMAIN files' =>
         \/ files'[target_path] = Holding("executable", mod.of)
         \/ target_path \in DOMAIN before /\ files'[target_path] = before[target_path]
  BY <1>1, <1>2, <1>3, WriteFacts, WithoutFacts DEF OthersKept
<1>6. SuccessMeansCurrent' /\ FailureLeavesFiles'
  BY <1>1, <1>4, <1>5 DEF SuccessMeansCurrent, FailureLeavesFiles, Told, At
<1>7. QED
  BY <1>1, <1>6, EndsLate

-----------------------------------------------------------------------------
(* The theorems.                                                           *)

LEMMA DriverInit == ASSUME Init PROVE DriverInv
<1>1. /\ IsSeq(<<>>) /\ Len(<<>>) = 0 /\ 1 \in Nat \ {0}
  BY ShortSeqs
<1>2. \A k \in 1..Len(<<>>) : FALSE
  BY <1>1
<1>3. QED
  BY <1>1, <1>2
     DEF Init, DriverInv, OptionsOK, PathsFromArguments, Translating, FilesFollowMain, Silent,
         SuccessMeansCurrent, FailureLeavesFiles, Told, At

LEMMA DriverStep == ASSUME DriverInv, [Next]_vars PROVE DriverInv'
<1>1. CASE UNCHANGED vars
  <2>1. UNCHANGED <<files, argv, i, target_path, input_path, emit, analyze, at, mod, status,
                    said, before>>
    BY <1>1 DEF vars, options
  <2>2. OptionsOK' /\ PathsFromArguments'
    BY <2>1, SameArguments DEF DriverInv, OptionsOK, PathsFromArguments
  <2>3. output_name' = output_name
    BY <2>1 DEF output_name, obj_file_name
  <2>4. FilesFollowMain' /\ Silent'
    BY <2>1, <2>3 DEF DriverInv, FilesFollowMain, OthersKept, Silent
  <2>5. SuccessMeansCurrent' /\ FailureLeavesFiles'
    BY <2>1, <2>3 DEF DriverInv, SuccessMeansCurrent, FailureLeavesFiles, Told, At
  <2>6. QED
    BY <2>2, <2>4, <2>5 DEF DriverInv
<1>2. CASE Next
  BY <1>2, EditKeeps, InvokeKeeps, HelpKeeps, TargetArgumentKeeps, FlagArgumentKeeps,
     InputArgumentKeeps, ChooseTargetKeeps, SyntaxKeeps, BuildModuleKeeps, AnalyzeKeeps,
     OpenOutputKeeps, PrintModuleKeeps, GenerateKeeps, LinkKeeps DEF Next
<1>3. QED
  BY <1>1, <1>2

LEMMA DriverInvariance == Spec => []DriverInv
<1>1. Init => DriverInv
  BY DriverInit
<1>2. DriverInv /\ [Next]_vars => DriverInv'
  BY DriverStep
<1>3. QED
  BY <1>1, <1>2, PTL DEF Spec

\* cminusc answers 0 in silence only when its output is there and is that of
\* its input (main.cpp:152-185).
THEOREM SuccessIsCurrent == Spec => []SuccessMeansCurrent
<1>1. DriverInv => SuccessMeansCurrent
  BY DEF DriverInv
<1>2. QED
  BY <1>1, DriverInvariance, PTL

\* An invocation that fails or only looks leaves the files alone but for its
\* output (main.cpp:28-76,137-156,165-170).
THEOREM FailureKeepsFiles == Spec => []FailureLeavesFiles
<1>1. DriverInv => FailureLeavesFiles
  BY DEF DriverInv
<1>2. QED
  BY <1>1, DriverInvariance, PTL

\* No step of main writes to a file that its arguments do not ask for, in
\* whatever order they come and however long they are (main.cpp:38-84).
THEOREM WritesOnlyTargets == Spec => OnlyTargetsWritten
<1> DEFINE Mine == ~Edit => \A p \in DOMAIN files \cup DOMAIN files' :
                     \/ p \in AskedFor
                     \/ p \in DOMAIN files /\ p \in DOMAIN files' /\ files'[p] = files[p]
<1>1. ASSUME DriverInv, Next, ~Edit PROVE Mine
  <2>1. CASE OpenOutput \/ PrintModule \/ Generate \/ Link
    <3>1. output_name \in AskedFor /\ target_path \in AskedFor
      BY <1>1, <2>1, OutputFacts
         DEF DriverInv, PathsFromArguments, Translating, OpenOutput, PrintModule, Generate, Link,
             At
    <3>2. \/ UNCHANGED files
          \/ \E p \in AskedFor : files' = Without(p) \/ \E content : Write(p, content)
      BY <2>1, <3>1 DEF OpenOutput, PrintModule, Generate, Link
    <3>3. CASE UNCHANGED files
      BY <3>3
    <3>4. ASSUME NEW p \in AskedFor, files' = Without(p) PROVE Mine
      BY <3>4, WithoutFacts
    <3>5. ASSUME NEW p \in AskedFor, NEW content, Write(p, content) PROVE Mine
      <4>1. /\ DOMAIN files' = DOMAIN files \cup {p}
            /\ \A q \in DOMAIN files : q # p => files'[q] = files[q]
        BY <3>5, WriteFacts
      <4>2. QED
        BY <4>1
    <3>6. QED
      BY <3>2, <3>3, <3>4, <3>5
  <2>2. CASE ~(OpenOutput \/ PrintModule \/ Generate \/ Link)
    <3>1. UNCHANGED files
      BY <1>1, <2>2
         DEF Next, Invoke, Help, TargetArgument, FlagArgument, InputArgument, ChooseTarget,
             Syntax, BuildModule, Analyze
    <3>2. QED
      BY <3>1
  <2>3. QED
    BY <2>1, <2>2
<1>2. DriverInv /\ [Next]_vars => [Mine]_vars
  BY <1>1
<1>3. QED
  BY <1>2, DriverInvariance, PTL DEF Spec, OnlyTargetsWritten
=============================================================================
