-------------------------- MODULE LexicalAnalyzer --------------------------
(***************************************************************************)
(* The lexer of lab 1 and its batch driver                                 *)
(* (lab1_lexical_analyzer/lexical_analyzer.l): the patterns flex compiles, *)
(* the line and column counters their actions keep, and the functions      *)
(* that write a file of tokens for each file of testcase/.                 *)
(*                                                                         *)
(* A text is a sequence of characters.  A line of a token file is a record *)
(* of the token, its line and its columns; the token's own text, which is  *)
(* printed too, is replaced by the place [from, to] it has in the file.    *)
(***************************************************************************)
EXTENDS Integers, SequencesExt

CONSTANTS
    Letters,      \* [a-zA-Z]
    Digits,       \* [0-9]
    Directories,  \* what testcase/ may hold: sequences of its entries
    Openings      \* what may happen when the files are opened

ASSUME DirectoriesAssumption ==
    \A d \in Directories :
        d \in Seq(Range(d)) /\ \A e \in DOMAIN d : d[e].text \in Seq(Range(d[e].text))

ASSUME OpeningsAssumption == Openings \subseteq {"opened", "no input", "no output"}

VARIABLES
    directory,  \* the entries of testcase/
    filename,   \* the entries getAllTestcase has chosen
    i,          \* how many of them have been begun
    pc,         \* where the driver is
    input,      \* the text in flex's buffer that has not been matched
    restarted,  \* whether that buffer takes its text from yyin next time
    lines, pos_start, pos_end,
    tokens      \* for each output file, its lines

scanner == <<input, restarted>>
position == <<lines, pos_start, pos_end>>
vars == <<directory, filename, i, pc, scanner, position, tokens>>

-----------------------------------------------------------------------------
(* The patterns, in the order of the file.                                 *)

Symbols == {
    <<<<"[", "]">>, "ARRAY">>, <<<<"+">>, "ADD">>, <<<<"-">>, "SUB">>, <<<<"*">>, "MUL">>,
    <<<<"/">>, "DIV">>, <<<<"<">>, "LT">>, <<<<"<", "=">>, "LTE">>, <<<<">">>, "GT">>,
    <<<<">", "=">>, "GTE">>, <<<<"=", "=">>, "EQ">>, <<<<"!", "=">>, "NEQ">>,
    <<<<"=">>, "ASSIN">>, <<<<";">>, "SEMICOLON">>, <<<<",">>, "COMMA">>,
    <<<<"(">>, "LPARENTHESE">>, <<<<")">>, "RPARENTHESE">>, <<<<"[">>, "LBRACKET">>,
    <<<<"]">>, "RBRACKET">>, <<<<"{">>, "LBRACE">>, <<<<"}">>, "RBRACE">>}

Keywords == {
    <<<<"e", "l", "s", "e">>, "ELSE">>, <<<<"i", "f">>, "IF">>, <<<<"i", "n", "t">>, "INT">>,
    <<<<"r", "e", "t", "u", "r", "n">>, "RETURN">>, <<<<"v", "o", "i", "d">>, "VOID">>,
    <<<<"w", "h", "i", "l", "e">>, "WHILE">>}

FixedTexts == Symbols \cup Keywords
Literal == [s \in {w[1] : w \in FixedTexts} |-> (CHOOSE w \in FixedTexts : w[1] = s)[2]]

\* Letters and digits are neither each other nor the characters of symbols,
\* blanks and ends of lines, and keywords have no digits.
ASSUME CharactersAssumption ==
    /\ Letters \cap Digits = {}
    /\ (Letters \cup Digits) \cap ({"\n", "\t", " "} \cup UNION {Range(w[1]) : w \in Symbols}) = {}
    /\ Digits \cap UNION {Range(w[1]) : w \in Keywords} = {}

AllIn(s, characters) == s # <<>> /\ Range(s) \subseteq characters
StartsWith(s, prefix) == IsPrefix(prefix, s)
EndsWith(s, suffix) == IsSuffix(suffix, s)

\* "/*"([^\*]|(\*)[^\/])*\*+\/ : what stands between the opening and the
\* stars before the last slash is cut into characters that are no star and
\* pairs of a star and a character that is no slash.
\* Slip: "/*"(.|\n)*"*/", the pattern this one has replaced.
CommentGreedy(s) == Len(s) >= 4 /\ StartsWith(s, <<"/", "*">>) /\ EndsWith(s, <<"*", "/">>)
Comment(s) ==
    LET cut[j \in 2..Len(s)] ==
            \/ j = 2
            \/ j > 2 /\ s[j] # "*" /\ cut[j - 1]
            \/ j > 3 /\ s[j - 1] = "*" /\ s[j] # "/" /\ cut[j - 2]
    IN  /\ Len(s) >= 4
        /\ StartsWith(s, <<"/", "*">>)
        /\ Last(s) = "/"
        /\ \E j \in 2..Len(s) - 2 : cut[j] /\ \A k \in j + 1..Len(s) - 1 : s[k] = "*"

\* ([0-9]+[a-zA-Z]+|[a-zA-Z]+[0-9]+)*
Split(s, first, second) ==
    \E j \in 1..Len(s) - 1 : AllIn(SubSeq(s, 1, j), first) /\ AllIn(SubSeq(s, j + 1, Len(s)), second)
\* Slip: a number before letters only.
MixedDigitsFirst(s) == Split(s, Digits, Letters)
Mixed(s) ==
    LET cut[j \in 0..Len(s)] ==
            \/ j = 0
            \/ \E k \in 0..j - 1 : LET part == SubSeq(s, k + 1, j)
                                   IN  /\ Split(part, Digits, Letters) \/ Split(part, Letters, Digits)
                                       /\ cut[k]
    IN  s # <<>> /\ cut[Len(s)]

\* Which of the rules match the whole of s.
Fits(s, r) ==
    \/ r = 1 /\ s = <<"\n">>
    \/ r = 2 /\ s \in {<<"\t">>, <<" ">>}
    \/ r = 3 /\ Comment(s)
    \/ r = 4 /\ Mixed(s)
    \/ r = 5 /\ s \in DOMAIN Literal
    \/ r = 6 /\ AllIn(s, Letters)
    \/ r = 7 /\ AllIn(s, Digits)
    \/ r = 8 /\ Len(s) = 1 /\ s # <<"\n">>

\* flex takes the longest match there is, and the first rule that has it.
Matches(s) == \E r \in 1..8 : Fits(s, r)
Candidates == {SubSeq(input, 1, n) : n \in 1..Len(input)}
NextMatch == CHOOSE s \in Candidates :
                 Matches(s) /\ \A t \in Candidates : Len(t) > Len(s) => ~Matches(t)
RuleOf(s) == CHOOSE r \in 1..8 : Fits(s, r) /\ \A q \in 1..r - 1 : ~Fits(s, q)

-----------------------------------------------------------------------------
(* The files.  A name is a sequence of characters, except that its last    *)
(* element may be the six characters "cminus".                             *)

\* "^.*.cminus$": the backslash before the point does not reach regcomp.
IsTestcase(entry) ==
    entry.regular /\ Len(entry.name) >= 2 /\ Last(entry.name) = "cminus"

\* The last seven characters give way to ".tokens".
OutputName(name) == SubSeq(name, 1, Len(name) - 2) \o <<".", "tokens">>
Output == OutputName(filename[i].name)

Init ==
    /\ directory \in Directories
    /\ filename = <<>>
    /\ i = 0
    /\ pc = "list"
    /\ input = <<>>
    /\ restarted = TRUE
    /\ lines = 1 /\ pos_start = 1 /\ pos_end = 1
    /\ tokens = [name \in {} |-> <<>>]

\* The testcases among the entries, in their order.
Chosen(entries) ==
    LET places == {e \in DOMAIN entries : IsTestcase(entries[e])}
        Ordered(f) == \A j, k \in DOMAIN f : j < k => f[j] < f[k]
    IN  {[k \in DOMAIN f |-> entries[f[k]]] :
            f \in {f \in [1..Cardinality(places) -> places] : Ordered(f)}}

\* Slip: the index of the last name is taken for the number of names.
GetAllTestcaseButLast ==
    /\ pc = "list"
    /\ \E names \in Chosen(directory) : filename' = SubSeq(names, 1, Len(names) - 1)
    /\ pc' = "next"
    /\ UNCHANGED <<directory, i, scanner, position, tokens>>
GetAllTestcase ==
    /\ pc = "list"
    /\ filename' \in Chosen(directory)
    /\ pc' = "next"
    /\ UNCHANGED <<directory, i, scanner, position, tokens>>

\* The token files once one of them has been opened.
Emptied(output) ==
    [name \in DOMAIN tokens \cup {output} |-> IF name = output THEN <<>> ELSE tokens[name]]

\* analyzer(): the counters start again, yyin is the next file and its token
\* file is emptied.  Without an input file the process exits; without an
\* output file the first fprintf, or fclose, gets a null pointer.
Analyze ==
    /\ pc = "next"
    /\ i < Len(filename)
    /\ i' = i + 1
    /\ lines' = 1 /\ pos_start' = 1 /\ pos_end' = 1
    /\ input' = IF restarted THEN filename[i'].text ELSE input
    /\ restarted' = FALSE
    /\ \E opening \in Openings :
          /\ pc' = CASE opening = "opened" -> "scan"
                     [] opening = "no input" -> "exit"
                     [] opening = "no output" -> "undefined"
          /\ tokens' = IF opening = "opened" THEN Emptied(OutputName(filename[i'].name))
                       ELSE tokens
    /\ UNCHANGED <<directory, filename>>

\* yylex has a match, and a rule for it.
Matched(yytext, r) ==
    /\ RuleOf(yytext) = r
    /\ input' = SubSeq(input, Len(yytext) + 1, Len(input))

NewLine(yytext) ==
    /\ Matched(yytext, 1)
    /\ lines' = lines + 1 /\ pos_start' = 1 /\ pos_end' = 1
    /\ UNCHANGED <<directory, filename, i, pc, restarted, tokens>>

Blank(yytext) ==
    /\ Matched(yytext, 2)
    /\ pos_end' = pos_end + 1
    /\ UNCHANGED <<directory, filename, i, pc, restarted, lines, pos_start, tokens>>

\* Slip: the lines inside the comment are not counted.
SkipCommentOneLine(yytext) ==
    /\ Matched(yytext, 3)
    /\ pos_end' = pos_end + Len(yytext)
    /\ UNCHANGED <<directory, filename, i, pc, restarted, lines, pos_start, tokens>>
\* A newline makes pos_end 1, every other character adds 1 to it.
SkipComment(yytext) ==
    LET newlines == {j \in DOMAIN yytext : yytext[j] = "\n"}
    IN  /\ Matched(yytext, 3)
        /\ lines' = lines + Cardinality(newlines)
        /\ pos_end' = IF newlines = {} THEN pos_end + Len(yytext)
                      ELSE Len(yytext) - Max(newlines) + 1
        /\ UNCHANGED <<directory, filename, i, pc, restarted, pos_start, tokens>>

\* What the loop of analyzer() does with a token: one line of the output.
\* Slip: the loop ends at the first error.
AfterStopsAtError(token) == IF token = "ERROR" THEN "close" ELSE "scan"
After(token) == "scan"
Report(yytext, token, start, end) ==
    LET at == Len(filename[i].text) - Len(input)
        line == [token |-> token, line |-> lines, start |-> start, end |-> end,
                 from |-> at + 1, to |-> at + Len(yytext)]
    IN  /\ tokens' = [tokens EXCEPT ![Output] = Append(@, line)]
        /\ pc' = After(token)
        /\ UNCHANGED <<directory, filename, i, restarted, lines>>

Word(yytext) ==
    LET rule == RuleOf(yytext)
        token == CASE rule = 4 -> "ERROR"
                   [] rule = 5 -> Literal[yytext]
                   [] rule = 6 -> "IDENTIFIER"
                   [] rule = 7 -> "NUMBER"
    IN  /\ \E r \in 4..7 : Matched(yytext, r)
        /\ pos_start' = pos_end
        /\ pos_end' = pos_end + Len(yytext)
        /\ Report(yytext, token, pos_end, pos_end + Len(yytext))

\* The last rule reports a character without moving on.
Stray(yytext) ==
    /\ Matched(yytext, 8)
    /\ Report(yytext, "ERROR", pos_start, pos_end)
    /\ UNCHANGED <<pos_start, pos_end>>

\* yylex returns 0 at the end of the file; yyrestart has been called on the
\* way there.  When the loop ends earlier nobody calls it.
CloseFiles ==
    /\ pc = "close" \/ (pc = "scan" /\ input = <<>>)
    /\ restarted' = (input = <<>>)
    /\ lines' = 1 /\ pos_start' = 1 /\ pos_end' = 1
    /\ pc' = "next"
    /\ UNCHANGED <<directory, filename, i, input, tokens>>

Return ==
    /\ pc = "next"
    /\ i = Len(filename)
    /\ pc' = "done"
    /\ UNCHANGED <<directory, filename, i, scanner, position, tokens>>

Ended == pc \in {"done", "exit", "undefined"} /\ UNCHANGED vars

\* The flex loop: the next match, and the action of its rule.
Scan ==
    /\ pc = "scan" /\ input # <<>>
    /\ \E yytext \in {NextMatch} :
          \/ NewLine(yytext) \/ Blank(yytext) \/ SkipComment(yytext)
          \/ Word(yytext) \/ Stray(yytext)

Next == GetAllTestcase \/ Analyze \/ Scan \/ CloseFiles \/ Return \/ Ended

Spec == Init /\ [][Next]_vars
FairSpec == Spec /\ WF_vars(Next)
=============================================================================
