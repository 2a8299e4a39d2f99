--------------------------- MODULE MCTypeChecker ---------------------------
EXTENDS TypeChecker

Lit(type)          == [op |-> "literal", type |-> type]
This               == [op |-> "this"]
Ref(n)             == [op |-> "name", name |-> n]
Member(o, n)       == [op |-> "member", object |-> o, name |-> n]
Call(o, m, args)   == [op |-> "call", object |-> o, name |-> m, args |-> args]
New(c, args)       == Call(Ref(c), c, args)

Param(n, t)        == [name |-> n, type |-> t]
Routine(m, params, ret, body) == [name |-> m, params |-> params, ret |-> ret, body |-> body]
ClassOf(name, base, fields, ctors, methods) ==
  [name |-> name, base |-> base, fields |-> fields, ctors |-> ctors, methods |-> methods]

\* Overloads: for a B both m of C fit, and both constructors; D adds a level, and its
\* super call has a choice that a constructor call may not have.
Overloads ==
  [classes |->
     <<ClassOf("A", "AnyRef", <<>>, <<<<>>>>, <<>>),
       ClassOf("B", "A", <<>>, <<<<>>>>, <<>>),
       ClassOf("C", "AnyRef", <<>>, <<<<Param("p", "A")>>, <<Param("p", "B")>>>>,
               <<Routine("m", <<Param("p", "A")>>, "Integer", "none"),
                 Routine("m", <<Param("p", "B")>>, "Boolean", "none")>>),
       ClassOf("D", "C", <<>>, <<<<Param("b", "B")>>>>,
               <<Routine("m", <<Param("p", "B")>>, "Integer", "none"),
                 Routine("n", <<Param("c", "C")>>, "Integer", "expression")>>)>>,
   bound |-> 1,
   exprs |->
     {New("A", <<>>), New("B", <<>>), Ref("b"), Ref("c"), Ref("x"), New("C", <<New("A", <<>>)>>),
      New("C", <<Ref("b")>>), Call(This, "m", <<Ref("b")>>), Call(This, "m", <<New("A", <<>>)>>),
      Call(Ref("c"), "m", <<New("A", <<>>)>>), Call(Ref("c"), "m", <<New("B", <<>>)>>),
      Call(Ref("c"), "C", <<New("A", <<>>)>>)}]

\* Fields: of a type that is not known yet, hidden by a parameter, and declared twice.
Fields ==
  [classes |->
     <<ClassOf("A", "AnyRef", <<"a", "b">>, <<>>, <<Routine("u", <<>>, NoType, "none")>>),
       ClassOf("B", "A", <<"b">>, <<>>,
               <<Routine("m", <<Param("a", "Boolean")>>, "Integer", "block")>>)>>,
   bound |-> 1,
   exprs |->
     {Lit("Integer"), Lit("Boolean"), Ref("a"), Ref("b"), Member(This, "b"),
      Call(This, "u", <<>>)}]

\* Variables named like a class.
ClassNamed ==
  [classes |->
     <<ClassOf("A", "AnyRef", <<>>, <<<<>>>>,
               <<Routine("m", <<Param("A", "A")>>, "Integer", "block")>>),
       ClassOf("B", "AnyRef", <<"A">>, <<<<>>>>,
               <<Routine("n", <<>>, "Integer", "block"), Routine("k", <<>>, "A", "expression")>>)>>,
   bound |-> 2,
   exprs |->
     {Lit("Integer"), New("A", <<>>), Ref("A"), Ref("x"), Call(New("B", <<>>), "k", <<>>),
      Call(Ref("A"), "m", <<Ref("x")>>), Call(Ref("A"), "m", <<New("A", <<>>)>>),
      Member(Ref("A"), "f"), Member(New("B", <<>>), "A")}]

Argument(t) == IF t = "Unit" THEN New("Unit", <<>>) ELSE Lit(t)
Object(c)   == IF c = "IO" THEN New(c, <<>>)
               ELSE IF c = "ArrayInteger" THEN New(c, <<Lit("Integer")>>) ELSE Lit(c)

\* Every built-in method and constructor.
BuiltinCalls ==
  [classes |-> <<ClassOf("Main", "AnyRef", <<>>, <<<<>>>>, <<>>)>>,
   bound |-> 1,
   exprs |->
     UNION {{Call(Object(c), m.name, [k \in DOMAIN m.params |-> Lit(m.params[k])]) :
               m \in Range(BuiltinMethods[c])} :
            c \in {"Integer", "Real", "Boolean", "ArrayInteger", "IO"}}
     \cup UNION {{New(c, [k \in DOMAIN ctor |-> Lit(ctor[k])]) :
                    ctor \in Range(BuiltinConstructors[c])} : c \in BuiltinClass}
     \cup {Member(Lit("Real"), "Epsilon"), Ref("x")}]

\* The expressions that are k levels below those of S, and the depth of one of them.
MaxDepth == 4
Inside(e) == (IF e.op = "call" THEN Range(e.args) ELSE {})
               \cup (IF e.op \in {"member", "call"} THEN {e.object} ELSE {})
Below(S, k) == FoldLeft(LAMBDA T, i : UNION {Inside(e) : e \in T}, S, [i \in 1..k |-> i])
Depth(e)    == Cardinality({k \in 1..MaxDepth : Below({e}, k) # {}})

Program(p) ==
  [classes |-> p.classes, bound |-> p.bound, exprs |-> p.exprs,
   depth |-> [e \in UNION {Below(p.exprs, k) : k \in 0..MaxDepth} |-> Depth(e)]]

Table(classes) ==
  LET table[c \in BuiltinClass \cup ClassNames(classes)] ==
        IF c \in BuiltinClass
          THEN BuiltinSymbol(c, IF c = "Class" THEN Nothing ELSE table[BuiltinBase[c]])
          ELSE UserSymbol(Named(classes, c), table[Named(classes, c).base])
  IN  table

\* TLC evaluates these once; what a configuration gives a constant, at every use.
Sources    == <<Overloads, Fields, ClassNamed, BuiltinCalls>>
Considered == [k \in 1..4 |-> Program(Sources[k])]
Tables     == [k \in 1..4 |-> Table(Sources[k].classes)]

MCInputs == Considered
MCTables == Tables
=============================================================================
