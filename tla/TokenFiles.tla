----------------------------- MODULE TokenFiles -----------------------------
(***************************************************************************)
(* What the token files of LexicalAnalyzer say about the texts they were   *)
(* made from.  `from' and `to' tell which characters a line stands for.    *)
(***************************************************************************)
EXTENDS LexicalAnalyzer, SequenceLemmas

\* The file of each token file that has been written so far, and its lines.
\* A file without an input or an output is the last one; of two files with
\* the same output name the later one has written it.
LastOpened == IF pc \in {"exit", "undefined"} THEN i - 1 ELSE i
Begun == {f \in 1..LastOpened :
            \A g \in f + 1..LastOpened : OutputName(filename[g].name) # OutputName(filename[f].name)}
Completed == IF pc \in {"scan", "close"} THEN Begun \ {i} ELSE Begun
Text(f) == filename[f].text
Lines(f) == tokens[OutputName(filename[f].name)]

NewlinesBefore(text, p) == {k \in 1..p - 1 : text[k] = "\n"}
LineOf(text, p) == 1 + Cardinality(NewlinesBefore(text, p))
ColumnOf(text, p) == p - Max({0} \cup NewlinesBefore(text, p))

LocatedAt(line, text, column) ==
    /\ line.line = LineOf(text, line.from)
    /\ line.start = column
    /\ line.end = column + line.to - line.from + 1

\* In a token file that is finished, each token is at the line and columns its
\* line says (lab1_lexical_analyzer/doc/lab1-.md:35: each match but blanks and
\* ends of lines moves pos_start and pos_end over its text).
PositionsMatchText ==
    \A f \in Completed : \A j \in DOMAIN Lines(f) :
        LET line == Lines(f)[j]
        IN  LocatedAt(line, Text(f), ColumnOf(Text(f), line.from))

\* What the code does instead: a character no other rule knows
\* (lexical_analyzer.l:101) has no place of its own, and every token after
\* it on the line is one column too far to the left for each.  The counters
\* survive comments of several lines and the change of files.
IsStray(line, text) ==
    line.token = "ERROR" /\ text[line.from] \notin Letters \cup Digits

\* The first n tokens of a file that are such characters and on line l.
Strays(out, text, n, l) == {m \in 1..n : IsStray(out[m], text) /\ out[m].line = l}

LocatedExceptStray(out, text) ==
    \A j \in DOMAIN out :
        LET lost == Strays(out, text, j - 1, out[j].line)
        IN  \/ IsStray(out[j], text)
            \/ LocatedAt(out[j], text, ColumnOf(text, out[j].from) - Cardinality(lost))

PositionsExceptStray == \A f \in Begun : LocatedExceptStray(Lines(f), Text(f))

-----------------------------------------------------------------------------
\* The places after the opening of a comment where it could be closed.
Closes == {k \in 4..Len(input) : input[k - 1] = "*" /\ input[k] = "/"}

AtComment == pc = "scan" /\ StartsWith(input, <<"/", "*">>)

\* A comment ends at the first */ after its opening: comments do not nest
\* (CMINUS.md:14), and two of them are not one (doc/lab1-.md:43).
CommentEndsAtFirstClose ==
    AtComment /\ Closes # {} => RuleOf(NextMatch) = 3 /\ Len(NextMatch) = Min(Closes)

\* What the pattern does (lexical_analyzer.l:57): every comment that is
\* closed is found, and it can go on after a */ only where two stars follow
\* each other in it.
CommentsDelimited ==
    AtComment =>
        /\ RuleOf(NextMatch) = 3 <=> Closes # {}
        /\ Closes # {} =>
              \/ Len(NextMatch) = Min(Closes)
              \/ \E k \in 3..Len(NextMatch) - 1 : input[k] = "*" /\ input[k + 1] = "*"

-----------------------------------------------------------------------------
Blanks == {"\n", "\t", " "}
Skippable(gap) ==
    LET solid == {k \in DOMAIN gap : gap[k] \notin Blanks}
    IN  solid # {} => /\ Max(solid) - Min(solid) >= 3
                      /\ SubSeq(gap, Min(solid), Min(solid) + 1) = <<"/", "*">>
                      /\ SubSeq(gap, Max(solid) - 1, Max(solid)) = <<"*", "/">>

\* The tokens of a finished file are the file: in the order of the text, and
\* between them nothing but blanks and comments, whatever errors there were
\* and whatever the file before it held.
NothingDropped ==
    \A f \in Completed :
        LET out == Lines(f)
            ends == <<0>> \o [j \in DOMAIN out |-> out[j].to]
            starts == Append([j \in DOMAIN out |-> out[j].from], Len(Text(f)) + 1)
        IN  \A j \in DOMAIN ends : /\ ends[j] < starts[j]
                                   /\ Skippable(SubSeq(Text(f), ends[j] + 1, starts[j] - 1))

\* A word of letters and digits is an error (doc/lab1-.md:63): wherever it
\* is taken apart into several tokens, an error has been reported for it.
MixedWordsRejected ==
    \A f \in Begun : \A j \in DOMAIN Lines(f) \ {1} :
        LET line == Lines(f)[j]
            before == Lines(f)[j - 1]
            joined(m) == AllIn(SubSeq(Text(f), Lines(f)[m].from, line.to), Letters \cup Digits)
        IN  joined(j - 1) => \E m \in 1..j - 1 : joined(m) /\ Lines(f)[m].token = "ERROR"

-----------------------------------------------------------------------------
(* What the properties above rest on.                                      *)

\* From a to b the text holds blanks and, perhaps, comments: lo opens the
\* first of them and hi closes the last.
Passed(text, a, b) ==
    \/ \A k \in a..b : text[k] \in Blanks
    \/ \E lo, hi \in a..b :
          /\ hi - lo >= 3
          /\ text[lo] = "/" /\ text[lo + 1] = "*" /\ text[hi - 1] = "*" /\ text[hi] = "/"
          /\ \A k \in a..b : k < lo \/ k > hi => text[k] \in Blanks

EndBefore(out, j) == IF j = 1 THEN 0 ELSE out[j - 1].to

\* The tokens have been taken from the text in their order, up to a place.
InOrder(out, upto) ==
    \A j \in DOMAIN out :
        /\ out[j].from \in Nat /\ out[j].to \in Nat
        /\ EndBefore(out, j) < out[j].from
        /\ out[j].from <= out[j].to
        /\ out[j].to <= upto

\* Nothing else has been passed over.
Covered(out, text, upto) ==
    /\ \A j \in DOMAIN out : Passed(text, EndBefore(out, j) + 1, out[j].from - 1)
    /\ Passed(text, EndBefore(out, Len(out) + 1) + 1, upto)

OnTheirLines(out, text) == \A j \in DOMAIN out : out[j].line = LineOf(text, out[j].from)

AllAlnum(text, a, b) == \A k \in a..b : text[k] \in Letters \cup Digits

\* Letters and digits are taken to the end of the word, or are an error.
WholeWords(out, text) ==
    \A j \in DOMAIN out :
        out[j].to < Len(text) /\ AllAlnum(text, out[j].from, out[j].to + 1)
        => out[j].token = "ERROR"

\* The lines of a file that has been read so far.
Listing(out, text, upto) ==
    /\ IsSeq(out)
    /\ InOrder(out, upto)
    /\ Covered(out, text, upto)
    /\ OnTheirLines(out, text)
    /\ LocatedExceptStray(out, text)
    /\ WholeWords(out, text)

\* What the counters are there.
Counted(out, text, upto, line, column) ==
    /\ line = LineOf(text, upto + 1)
    /\ column = ColumnOf(text, upto + 1) - Cardinality(Strays(out, text, Len(out), line))

\* flex has the rest of the text.
IsRest(rest, text) ==
    /\ IsSeq(rest) /\ Len(rest) <= Len(text)
    /\ \A k \in 1..Len(rest) : rest[k] = text[Len(text) - Len(rest) + k]

\* How far the current file has been read.
At == Len(Text(i)) - Len(input)
Upto(f) == IF pc = "scan" /\ f = i THEN At ELSE Len(Text(f))

FileInv(f) == OutputName(filename[f].name) \in DOMAIN tokens /\ Listing(Lines(f), Text(f), Upto(f))

ScanInv ==
    pc = "scan" => i >= 1 /\ IsRest(input, Text(i)) /\ Counted(Lines(i), Text(i), At, lines, pos_end)

DriverInv ==
    /\ pc \in {"list", "next", "scan", "done", "exit", "undefined"}
    /\ directory \in Directories
    /\ IsSeq(filename) /\ \A f \in DOMAIN filename : IsSeq(Text(f))
    /\ i \in 0..Len(filename)
    /\ pc = "list" => i = 0
    /\ pc \in {"list", "next", "done"} => restarted

\* Between the matches of yylex and the files of lex_main: what the counters
\* and the token files have to do with the texts (lexical_analyzer.l:37-157).
LexInv == DriverInv /\ ScanInv /\ \A f \in Begun : FileInv(f)

-----------------------------------------------------------------------------
\* lex_main processes all *.cminus files and makes a token file for each
\* (lexical_analyzer.l:189-193): unless a file cannot be opened it comes to an
\* end, and then each of them has a finished token file, whatever characters
\* the files hold.  The one exception is a file whose token file a later entry
\* of the directory has taken: the name of such an entry differs from it in
\* the point alone (axcminus and a.cminus, lines 166 and 202), and then that
\* entry's token file is finished, so that none is lost to both.
IsTokenised(entry) ==
    \E f \in Completed : filename[f] = entry

Cminus(entry) == entry.regular /\ IsSuffix(<<".", "cminus">>, entry.name)

Takes(later, entry) ==
    /\ IsTestcase(later) /\ later.name # entry.name
    /\ OutputName(later.name) = OutputName(entry.name)

AllTestcasesTokenised ==
    <>(pc \in {"done", "exit", "undefined"} /\
         (pc = "done" => \A d \in DOMAIN directory :
             Cminus(directory[d]) =>
                 \/ IsTokenised(directory[d])
                 \/ \E e \in d + 1..Len(directory) :
                        Takes(directory[e], directory[d]) /\ IsTokenised(directory[e])))
=============================================================================
