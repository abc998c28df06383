------------------------------ MODULE MCTopoSort ------------------------------
(***************************************************************************)
(* Every workflow of three nodes, each with no dependency, one of them, or *)
(* two different ones of which the second may be an unknown name; and      *)
(* workflows in which a node's name is taken twice.                        *)
(***************************************************************************)
EXTENDS TopoSort

CONSTANTS a, b, c, ghost

MCName      == {a, b, c, ghost}
Pairs       == {p \in MCName \X MCName : p[1] # p[2]}
MCWorkflows == [decl : {<<a, b, c>>},
                deps : [1..3 -> {<<>>} \cup {<<n>> : n \in MCName \ {ghost}}
                                 \cup {p \in Pairs : p[1] # ghost}]]
               \cup
               [decl : {<<a, b, a>>}, deps : [1..3 -> {<<>>, <<b>>}]]
=============================================================================
