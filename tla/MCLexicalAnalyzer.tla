------------------------- MODULE MCLexicalAnalyzer -------------------------
(* The lexer on all short texts of a few characters, and on longer comments. *)
EXTENDS TokenFiles, SequencesExt

MCLetters == {"a", "i", "f"}
MCDigits == {"1"}

Strings(characters, n) == UNION {[1..m -> characters] : m \in 0..n}

\* Tokens of every kind next to each other; comments behind an opening; words.
Mixtures == Strings({"a", "1", "<", "=", "\n", " ", "@"}, 4)
Comments == {<<"/", "*">> \o s : s \in Strings({"/", "*", "a", "\n"}, 5)}
Words == {<<"i", "f">> \o s \o t : s \in Strings({"f", "1", "a"}, 2), t \in Strings({" ", "[", "]"}, 2)}

File(stem, text) == [name |-> <<stem, ".", "cminus">>, regular |-> TRUE, text |-> text]
Entry(name, regular) == [name |-> name, regular |-> regular, text |-> <<"a">>]

\* A file that leaves errors, lines and columns behind, before another one;
\* entries that are no files and names without a point.
Last2(text) == <<Entry(<<"a", ".", "t">>, TRUE), Entry(<<"cminus">>, TRUE), File("a", text),
                 Entry(<<"d", ".", "cminus">>, FALSE), File("b", <<" ", "@", "a", "1", " ", "a">>)>>
Alone == {<<File("a", text)>> : text \in Mixtures \cup Words}

\* readdir promises no order: a testcase without the point comes before or
\* after the file whose token file it shares, or shares it with none.
Pointless == Entry(<<"a", "x", "cminus">>, TRUE)
Shared == UNION {{<<Pointless, File(stem, s)>>, <<File(stem, s), Pointless>>,
                  <<File(stem, s), Pointless, File("c", s)>>} :
                    stem \in {"a", "b"}, s \in Strings({"@", "\n", "a"}, 2)}
Batches == {Last2(text) : text \in Comments} \cup Shared
LexedDirectories == Alone \cup Batches

\* A token, a character no rule knows, and another token, on one line.
AroundStray ==
    {<<File("a", s \o <<"@">> \o t)>> :
        s \in Strings({"a", "1", " ", "<"}, 2) \ Strings({" "}, 2),
        t \in Strings({"a", "<", " "}, 2) \ Strings({" "}, 2)}

MCOpenings == {"opened", "no input", "no output"}
Opened == {"opened"}

\* Comments that are closed by several stars, with another one behind them.
StarredComments ==
    {<<File("a", <<"/", "*">> \o s \o <<"/">> \o t)>> :
        s \in Strings({"*"}, 4), t \in {<<>>, <<"a", "/", "*", "*", "/">>}}
=============================================================================
