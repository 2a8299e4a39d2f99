-------------------------- MODULE MCClassCollector --------------------------
(* Every program of at most three declarations over three user names, one    *)
(* built-in name that a program may try to redeclare, and bases that are     *)
(* earlier, later, own, built in, prohibited or missing.                     *)
EXTENDS ClassCollector, TLC

CONSTANT MaxClasses

MCDeclaration == [name : Identifier \cup {"Integer"},
                  base : Identifier \cup {NoBase, "Class", "Integer"}]

MCPrograms == UNION {[1..n -> MCDeclaration] : n \in 0..MaxClasses}
=============================================================================
