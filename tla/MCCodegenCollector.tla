------------------------- MODULE MCCodegenCollector -------------------------
(* Programs of at most three classes that may all declare the same name, and *)
(* of two classes that may declare two names, with at most one constructor   *)
(* and one method each.                                                      *)
EXTENDS CodegenCollector

CONSTANTS x, y

FieldLists(names) ==
  {<<>>} \cup {<<n>> : n \in names} \cup
  {f \in {<<n, m>> : n \in names, m \in names} : f[1] # f[2]}

Functions0or1(paramSets) == {<<>>} \cup {<<s>> : s \in paramSets}

Shapes(numClasses, names, paramSets) ==
  {p \in [1..numClasses -> [base : 0..numClasses - 1, fields : FieldLists(names),
                            ctors : Functions0or1(paramSets),
                            methods : Functions0or1(paramSets)]] :
     \A c \in 1..numClasses : ClassDecl(p, c)}

MCPrograms == Shapes(3, {x}, {{x}}) \cup Shapes(2, {x, y}, {{}, {x}})
=============================================================================
