----------------------------- MODULE TreeMemory -----------------------------
(***************************************************************************)
(* What SyntaxAnalyzer keeps true of the nodes, trees and texts it         *)
(* allocates, whatever the files hold, and the invariant that shows it.    *)
(***************************************************************************)
EXTENDS SyntaxAnalyzer, SequenceLemmas

Children(n) == Range(nodes[n].children)

\* The nodes on the parser's stack.
Tops == {stack[j].node : j \in DOMAIN stack} \ {0}

\* What the driver or the parser still has in hand.
InHand == CASE pc = "parse" -> Tops
            [] pc = "print" -> {root} \ {Nullptr, Wild}
            [] OTHER -> {}

\* The state is made of nodes, entries and files that exist.
TreeTypeOK ==
    /\ pc \in {"next", "parse", "print", "done", "exit", "undefined"}
    /\ file \in 0..Len(batch)
    /\ live \subseteq DOMAIN nodes
    /\ root \in {Nullptr, Wild} \cup DOMAIN nodes
    /\ \A n \in DOMAIN nodes : Children(n) \subseteq 1..n - 1
    /\ \A j \in DOMAIN stack : stack[j].state # {} /\ stack[j].node \in {0} \cup DOMAIN nodes
    /\ strings \in Nat /\ trees \in Nat

\* Nothing is freed twice and nothing that is freed is used: each allocated
\* node is in at most one place, as a child of one allocated node or in hand
\* (SyntaxTree.c:45-55 frees a node once for each place).
OneOwner ==
    LET places == UNION {{<<n, j>> : j \in DOMAIN nodes[n].children} : n \in live}
        children == UNION {Children(n) : n \in live}
    IN  /\ children \cup InHand \subseteq live
        /\ Cardinality(places) = Cardinality(children)
        /\ InHand \cap children = {}
        /\ \A j, k \in DOMAIN stack : stack[j].node = stack[k].node => stack[j].node = 0 \/ j = k

\* As long as no file has been rejected or left unread, everything allocated
\* is still in use: each node in the tree of a node in hand, each text on
\* the stack, one tree while a file is being worked on.
NothingLeaks ==
    pc # "exit" /\ (\A f \in 1..file : verdicts[f] = "accepted" \/ (f = file /\ pc = "parse")) =>
        /\ live = UNION {Below(n) : n \in InHand}
        /\ strings = CountNamed(stack)
        /\ trees = IF pc \in {"parse", "print"} THEN 1 ELSE 0
-----------------------------------------------------------------------------
(* Why: an invariant that every step preserves, whatever the files.        *)

\* A sequence of files, each a sequence of tokens.
IsBatch(b) ==
    /\ IsSeq(b)
    /\ \A f \in DOMAIN b :
          /\ IsSeq(b[f])
          /\ \A token \in Range(b[f]) : token.type \notin Nonterminals \cup {"$end"}

\* The driver is at one of the files, and has answered those before it.
Files ==
    /\ pc \in {"next", "parse", "print", "done", "exit", "undefined"}
    /\ IsBatch(batch) /\ DOMAIN verdicts = DOMAIN batch
    /\ file \in 0..Len(batch) /\ (pc \in {"parse", "print"} => file >= 1)
    /\ \A f \in DOMAIN batch : f > file \/ (f = file /\ pc = "parse") => verdicts[f] = "unread"
    /\ IsSeq(input)
    /\ \A token \in Range(input) : token.type \notin Nonterminals \cup {"$end"}

\* What yylex has not returned is the rest of the file that is being parsed.
Reading ==
    pc = "parse" =>
        LET text == batch[file]
        IN  /\ Len(input) <= Len(text)
            /\ \A j \in DOMAIN input : input[j] = text[Len(text) - Len(input) + j]

\* The state after the first j entries of a stack.
Reached(entries, j) == IF j = 0 THEN StartState ELSE entries[j].state

\* A state is the one the automaton goes to, and what its items say has been
\* read has been read: the states below expect it.
Spelled(entries) ==
    \A j \in DOMAIN entries :
        /\ entries[j].state = GoTo(Reached(entries, j - 1), entries[j].symbol)
        /\ entries[j].state # {} /\ entries[j].symbol # "$end"
        /\ \A item \in entries[j].state :
              /\ item.rule \in DOMAIN Rules /\ item.dot \in 1..j
              /\ item.dot <= Len(Rules[item.rule].rhs)
              /\ \A k \in 1..item.dot :
                    Item(item.rule, item.dot - k) \in Closure(Reached(entries, j - k))
              /\ item.rule = 1 => item.dot = j

ParserStack ==
    /\ IsSeq(stack) /\ Spelled(stack)
    /\ pc # "parse" => stack = <<>>

\* Children are older than their parent, every allocated node has at most
\* one parent among the allocated ones, and what is in hand has none.
Parents(n) == {m \in live : n \in Children(m)}

Forest ==
    /\ IsSeq(nodes) /\ live \subseteq DOMAIN nodes
    /\ \A n \in DOMAIN nodes : IsSeq(nodes[n].children) /\ Children(n) \subseteq 1..n - 1
    /\ \A n \in live : Children(n) \subseteq live
    /\ \A n \in live : \A i, j \in DOMAIN nodes[n].children :
          nodes[n].children[i] = nodes[n].children[j] => i = j
    /\ \A m, n \in live : Children(m) \cap Children(n) # {} => m = n
    /\ InHand \subseteq live /\ \A n \in InHand : Parents(n) = {}
    /\ \A j, k \in DOMAIN stack : stack[j].node = stack[k].node => stack[j].node = 0 \/ j = k
    /\ \A j \in DOMAIN stack : stack[j].node \in {0} \cup live

\* A root that has been set is the node of the program on the stack, which
\* is then all the stack holds; an accepted file has one.
Roots ==
    /\ root \in {Nullptr, Wild} \cup live
    /\ pc = "parse" /\ root \in live => Len(stack) = 1 /\ stack[1].symbol = "program"
    /\ \A j \in DOMAIN stack : stack[j].symbol = "program" => root = stack[j].node /\ root \in live
    /\ pc = "print" /\ verdicts[file] = "accepted" => root \in live
    /\ pc \notin {"parse", "print"} => root \in {Nullptr, Wild}

Counts ==
    /\ strings \in Nat /\ trees \in Nat
    /\ strings >= CountNamed(stack)
    /\ pc \in {"parse", "print"} => trees >= 1

\* What the actions of the grammar and syntax() keep true of the memory they
\* use (SyntaxTree.c:11-70, syntax_analyzer.y:593-624).
MemoryInv == Files /\ Reading /\ ParserStack /\ Forest /\ Roots /\ Counts
=============================================================================
