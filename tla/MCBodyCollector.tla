--------------------------- MODULE MCBodyCollector ---------------------------
(* Programs of two classes: the first has any members of up to two of each    *)
(* kind over few keys, one of which a method and a constructor can share; the *)
(* second repeats keys of the first.                                          *)
EXTENDS BodyCollector

CONSTANTS x, y, m, new

Declared(k) == [key |-> k, known |-> TRUE, body |-> TRUE]
UpTo(n, S) == UNION {[1..i -> S] : i \in 0..n}

FieldMember  == {Declared(x), Declared(y)}
MethodMember == [key : {m, new}, known : BOOLEAN, body : BOOLEAN]
CtorMember   == [key : {new}, known : BOOLEAN, body : {TRUE}]

ClassOf(f, g, h) ==
  [s \in Kind |-> IF s = "fields" THEN f ELSE IF s = "methods" THEN g ELSE h]

MCPrograms ==
  {<<>>} \cup
  {<<ClassOf(f, g, h), ClassOf(<<Declared(x)>>, <<Declared(m)>>, k)>> :
     f \in UpTo(2, FieldMember), g \in UpTo(2, MethodMember), h \in UpTo(2, CtorMember),
     k \in UpTo(1, CtorMember)}
=============================================================================
