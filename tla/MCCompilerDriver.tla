-------------------------- MODULE MCCompilerDriver --------------------------
(* Two invocations with up to three arguments each, in any order. *)
EXTENDS DriverProperties

Program(name) == <<name, ".cminus">>
Words == {<<"-h">>, <<"-o">>, <<"-emit-llvm">>, <<"-analyze">>, Program("a"), <<"x">>}
MCCommands ==
    UNION {[1..n -> Words] : n \in 0..3}
    \cup {<<flag, <<"-o">>, <<"x">>, Program("a")>> : flag \in {<<"-emit-llvm">>, <<"-analyze">>}}
    \cup {<<Program("a"), <<"-o">>, <<"x">>, flag>> : flag \in {<<"-o">>, <<"--help">>, <<"-analyze">>}}
    \cup {<< <<"-o">>, <<>>, Program("a")>>, << <<>>, Program("a")>>, << <<"-o">>, <<>> >>}

MCPaths == {Program("a")}
MCSources == {"good", "other", "broken", "unbound", "lexical", "syntax"}
=============================================================================
