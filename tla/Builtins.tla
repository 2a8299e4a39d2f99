------------------------------ MODULE Builtins ------------------------------
(***************************************************************************)
(* The built-in classes, builtin-classes.h, which exist three times: as    *)
(* symbols for the checks, as declarations in the tree for the back end,   *)
(* and as the names by which llvm-codegen.cpp chooses the instructions for *)
(* a call.  The first two are found by position and the last by name, and  *)
(* nothing but care keeps them alike, so each is written down here.        *)
(***************************************************************************)
EXTENDS Naturals, Sequences

Method(name, params, ret) == [name |-> name, params |-> params, ret |-> ret]

\* An overload for an argument of type a, then one for an argument of type b.
Pair(name, a, ra, b, rb) == <<Method(name, <<a>>, ra), Method(name, <<b>>, rb)>>

Ordering(Sig(_)) ==
  Sig("Less") \o Sig("LessEqual") \o Sig("Greater") \o Sig("GreaterEqual") \o Sig("Equal")
Arithmetic(Sig(_)) == Sig("Plus") \o Sig("Minus") \o Sig("Mult") \o Sig("Div")

BuiltinClass == {"Class", "AnyValue", "AnyRef", "Integer", "Real", "Boolean", "Unit",
                 "ArrayInteger", "IO"}
NoClass == "no class"

BuiltinBase ==
  [c \in BuiltinClass |-> CASE c = "Class" -> NoClass
                            [] c \in {"AnyValue", "AnyRef"} -> "Class"
                            [] c = "ArrayInteger" -> "AnyRef"
                            [] OTHER -> "AnyValue"]

(***************************************************************************)
(* Symbols: add_builtin_classes.                                           *)
(***************************************************************************)
BuiltinConstructors ==
  [c \in BuiltinClass |->
     CASE c = "Integer"      -> <<<<"Integer">>, <<"Real">>>>
       [] c = "Real"         -> <<<<"Real">>, <<"Integer">>>>
       [] c = "Boolean"      -> <<<<"Boolean">>>>
       [] c \in {"Unit", "IO"} -> <<<<>>>>
       [] c = "ArrayInteger" -> <<<<"Integer">>>>
       [] OTHER              -> <<>>]

BuiltinFields ==
  [c \in BuiltinClass |->
     CASE c = "Integer" -> [n \in {"Min", "Max"} |-> "Integer"]
       [] c = "Real"    -> [n \in {"Min", "Max", "Epsilon"} |-> "Real"]
       [] OTHER         -> [n \in {} |-> c]]

IntegerMethods ==
  LET Arith(m) == Pair(m, "Integer", "Integer", "Real", "Real")
      Compare(m) == Pair(m, "Integer", "Boolean", "Real", "Boolean")
  IN  <<Method("toReal", <<>>, "Real"), Method("toBoolean", <<>>, "Boolean"),
        Method("UnaryMinus", <<>>, "Integer")>>
        \o Arithmetic(Arith)
        \o <<Method("Rem", <<"Integer">>, "Integer")>>
        \o Ordering(Compare)

RealMethods ==
  LET Arith(m) == Pair(m, "Real", "Real", "Integer", "Real")
      Compare(m) == Pair(m, "Real", "Boolean", "Integer", "Boolean")
  IN  <<Method("toInteger", <<>>, "Integer"), Method("UnaryMinus", <<>>, "Real")>>
        \o Arithmetic(Arith)
        \o <<Method("Rem", <<"Integer">>, "Real")>>
        \o Ordering(Compare)

BuiltinMethods ==
  [c \in BuiltinClass |->
     CASE c = "Integer" -> IntegerMethods
       [] c = "Real" -> RealMethods
       [] c = "Boolean" ->
            <<Method("toInteger", <<>>, "Integer"),
              Method("Or", <<"Boolean">>, "Boolean"), Method("And", <<"Boolean">>, "Boolean"),
              Method("Xor", <<"Boolean">>, "Boolean"), Method("Not", <<>>, "Boolean")>>
       [] c = "ArrayInteger" ->
            <<Method("Len", <<>>, "Integer"), Method("Get", <<"Integer">>, "Integer"),
              Method("Set", <<"Integer", "Integer">>, "Unit")>>
       [] c = "IO" ->
            <<Method("Print", <<"Integer">>, "Unit"), Method("Print", <<"Real">>, "Unit"),
              Method("Print", <<"Boolean">>, "Unit")>>
       [] OTHER -> <<>>]

(***************************************************************************)
(* Declarations in the tree: add_builtin_classes_to_codegen.               *)
(***************************************************************************)
TreeConstructors ==
  [c \in BuiltinClass |->
     CASE c = "Integer" -> <<<<"Integer">>, <<"Real">>>>
       [] c = "Real" -> <<<<"Real">>, <<"Integer">>>>
       [] c = "Boolean" -> <<<<"Boolean">>>>
       [] c = "ArrayInteger" -> <<<<"Integer">>>>
       [] c = "Unit" -> <<<<>>>>
       [] c = "IO" -> <<<<>>>>
       [] OTHER -> <<>>]

\* A number's methods, from those without argument to those with one of its own class
\* (self) or the other one; arithmetic of two classes is done in reals.
TreeNumber(self, other, unary, mixed, remainder) ==
  LET Arith(m) == Pair(m, self, self, other, mixed)
      Compare(m) == Pair(m, self, "Boolean", other, "Boolean")
  IN  unary \o Arithmetic(Arith) \o <<Method("Rem", <<"Integer">>, remainder)>>
            \o Ordering(Compare)

\* Mutant: the two overloads of a method of Real are added in the order of Integer.
TreeMethods_OneOrder ==
  [c \in BuiltinClass |->
     CASE c = "Integer" ->
            TreeNumber("Integer", "Real",
                       <<Method("toReal", <<>>, "Real"), Method("toBoolean", <<>>, "Boolean"),
                         Method("UnaryMinus", <<>>, "Integer")>>, "Real", "Integer")
       [] c = "Real" ->
            TreeNumber("Integer", "Real",
                       <<Method("toInteger", <<>>, "Integer"),
                         Method("UnaryMinus", <<>>, "Real")>>, "Real", "Real")
       [] OTHER -> BuiltinMethods[c]]

TreeMethods ==
  [c \in BuiltinClass |->
     CASE c = "Integer" ->
            TreeNumber("Integer", "Real",
                       <<Method("toReal", <<>>, "Real"), Method("toBoolean", <<>>, "Boolean"),
                         Method("UnaryMinus", <<>>, "Integer")>>, "Real", "Integer")
       [] c = "Real" ->
            TreeNumber("Real", "Integer",
                       <<Method("toInteger", <<>>, "Integer"),
                         Method("UnaryMinus", <<>>, "Real")>>, "Real", "Real")
       [] c = "Boolean" ->
            <<Method("toInteger", <<>>, "Integer")>> \o
              [k \in 1..3 |-> Method((<<"Or", "And", "Xor">>)[k], <<"Boolean">>, "Boolean")] \o
              <<Method("Not", <<>>, "Boolean")>>
       [] c = "ArrayInteger" ->
            <<Method("Len", <<>>, "Integer"), Method("Get", <<"Integer">>, "Integer"),
              Method("Set", <<"Integer", "Integer">>, "Unit")>>
       [] c = "IO" ->
            [k \in 1..3 |-> Method("Print", <<(<<"Integer", "Real", "Boolean">>)[k]>>, "Unit")]
       [] OTHER -> <<>>]

(***************************************************************************)
(* Instructions: emit_builtin_method.  The result type of the code that is *)
(* emitted for method m of class c: "Real" is the floating point form, and *)
(* "null" the zero of the declared type, when no name matches.             *)
(***************************************************************************)
UsesReal(c, m) ==
  \/ c = "Real"
  \/ m.params # <<>> /\ m.params[1] = "Real"
  \/ m.ret = "Real"

EmittedType(c, m) ==
  CASE c \in {"Integer", "Real"} /\ m.name \in
         {"Plus", "Minus", "Mult", "Div", "Rem", "UnaryMinus"} ->
         IF UsesReal(c, m) THEN "Real" ELSE "Integer"
    [] c \in {"Integer", "Real"} /\ m.name \in
         {"Less", "LessEqual", "Greater", "GreaterEqual", "Equal", "toBoolean"} -> "Boolean"
    [] c \in {"Integer", "Real"} /\ m.name = "toReal" -> "Real"
    [] c \in {"Integer", "Real"} /\ m.name = "toInteger" -> "Integer"
    [] c = "Boolean" /\ m.name \in {"Not", "And", "Or", "Xor"} -> "Boolean"
    [] c = "Boolean" /\ m.name = "toInteger" -> "Integer"
    [] c = "ArrayInteger" /\ m.name \in {"Len", "Get"} -> "Integer"
    [] c = "ArrayInteger" /\ m.name = "Set" -> "Unit"
    [] c = "IO" /\ m.name = "Print" -> "Unit"
    [] OTHER -> "null"
=============================================================================
