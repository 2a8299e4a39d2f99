---------------------------- MODULE ResolutionProofs ----------------------------
(***************************************************************************)
(* Which function a call reaches, and what its value is.                   *)
(*                                                                         *)
(* First the types: the phase that builds the typed tree infers what the   *)
(* checks inferred, binds calls as they were checked, and compiles         *)
(* assignments for something that the value fits, although the scopes have *)
(* grown in between.  The argument is that inference is monotone: in a     *)
(* later scope an expression has the type that it had, or a type where it  *)
(* had Unknown, or a variable there hides a class.  The invariant says of  *)
(* each entry of the log that it was inferred in an older scope than the   *)
(* one that is there now.                                                  *)
(*                                                                         *)
(* Then the tables: dynamic dispatch through them is right for every class *)
(* hierarchy, since slots are inherited, a signature has one slot, and the *)
(* slot of a method leads to its nearest override.                         *)
(***************************************************************************)
EXTENDS TypeChecker, VTable, Integers, WellFoundedInduction, FiniteSetTheorems, TLAPS

-----------------------------------------------------------------------------
(* Least and greatest numbers, the program and its symbol table.           *)

LEMMA LeastNumber ==
  ASSUME NEW S \in SUBSET Nat, S # {}
  PROVE  Min(S) \in S /\ \A k \in S : Min(S) <= k
<1>1. PICK n \in S : \A k \in S : <<k, n>> \notin OpToRel(<, Nat)
  BY NatLessThanWellFounded, WFMin
<1>2. n \in Nat /\ \A k \in S : k \in Nat /\ ~(k < n)
  BY <1>1 DEF OpToRel
<1>3. \A k \in S : n =< k
  BY <1>2
<1>. QED BY <1>3 DEF Min

LEMMA GreatestNumber ==
  ASSUME NEW n \in Nat, NEW S \in SUBSET (1..n), S # {}
  PROVE  Max(S) \in S /\ \A k \in S : k <= Max(S)
<1> DEFINE T == {n - k : k \in S}
<1>1. T \in SUBSET Nat /\ T # {}
  <2>1. \A k \in S : n - k \in Nat
    OBVIOUS
  <2>. QED BY <2>1
<1>2. Min(T) \in T /\ \A k \in T : Min(T) <= k
  <2>. HIDE DEF T
  <2>. QED BY <1>1, LeastNumber
<1>3. PICK x \in S : Min(T) = n - x
  BY <1>2
<1>4. \A k \in S : x >= k
  <2>1. \A k \in S : n - x <= n - k
    BY <1>2, <1>3
  <2>. QED BY <2>1
<1>5. \A k \in S : Max(S) >= k /\ Max(S) \in S
  BY <1>4 DEF Max
<1>6. Max(S) \in S
  BY <1>5
<1>. QED BY <1>5, <1>6

-----------------------------------------------------------------------------
(* What the program and the tables are.                                    *)

LEMMA InputFacts ==
  ASSUME program \in DOMAIN Inputs
  PROVE  IsInput(Input) /\ IsTable(Symbols, Classes)
BY InputsAssumption, TablesAssumption DEF Input, Symbols, Classes

LEMMA ClassFacts ==
  ASSUME program \in DOMAIN Inputs
  PROVE  /\ Classes \in Seq(Declaration(BuiltinClass \cup ClassNames(Classes)))
         /\ \A k \in DOMAIN Classes :
              /\ Classes[k] \in Declaration(BuiltinClass \cup ClassNames(Classes))
              /\ Classes[k].name \notin BuiltinClass
              /\ Classes[k].base \in BuiltinClass \cup ClassNames(Classes)
              /\ IsInjective(Classes[k].fields)
              /\ Named(Classes, Classes[k].name) = Classes[k]
              /\ \A j \in DOMAIN Classes : Classes[j].name = Classes[k].name => j = k
<1>1. IsInput(Input) /\ Input.classes = Classes
  BY InputFacts DEF Classes
<1>2. Classes \in Seq(Declaration(BuiltinClass \cup ClassNames(Classes)))
  BY <1>1 DEF IsInput
<1>3. DOMAIN Classes = 1..Len(Classes) /\ Len(Classes) \in Nat
  BY <1>2
<1>4. \A k \in DOMAIN Classes : 
        /\ Classes[k].name \notin BuiltinClass \cup {Classes[j].name : j \in 1..k - 1}
        /\ IsInjective(Classes[k].fields)
        /\ Classes[k].base \in BuiltinClass \cup {Classes[j].name : j \in 1..k - 1}
  BY <1>1 DEF IsInput
<1>5. \A k, j \in DOMAIN Classes : j < k => Classes[j].name # Classes[k].name
  BY <1>3, <1>4
<1>6. \A k, j \in DOMAIN Classes : Classes[j].name = Classes[k].name => j = k
  <2>. TAKE k, j \in DOMAIN Classes
  <2>1. j < k \/ k < j \/ j = k
    BY <1>3
  <2>. QED BY <1>5, <2>1
<1>7. ASSUME NEW k \in DOMAIN Classes
      PROVE  /\ Classes[k] \in Declaration(BuiltinClass \cup ClassNames(Classes))
             /\ Classes[k].base \in BuiltinClass \cup ClassNames(Classes)
             /\ Named(Classes, Classes[k].name) = Classes[k]
  <2>1. Classes[k] \in Declaration(BuiltinClass \cup ClassNames(Classes))
    BY <1>2, <1>3
  <2>2. Classes[k].base \in BuiltinClass \cup ClassNames(Classes)
    BY <1>3, <1>4 DEF ClassNames
  <2>3. (CHOOSE j \in DOMAIN Classes : Classes[j].name = Classes[k].name) = k
    BY <1>6
  <2>. QED BY <2>1, <2>2, <2>3 DEF Named
<1>. QED BY <1>2, <1>4, <1>6, <1>7

LEMMA BuiltinBases ==
  /\ \A c \in BuiltinClass : c # "Class" => BuiltinBase[c] \in BuiltinClass
  /\ BuiltinBase["Class"] = NoClass
<1>1. "Class" \in BuiltinClass /\ BuiltinBase["Class"] = NoClass
  BY Zenon DEF BuiltinBase, BuiltinClass
<1>2. \A c \in {"AnyValue", "AnyRef"} : c \in BuiltinClass /\ BuiltinBase[c] = "Class"
  BY Zenon DEF BuiltinBase, BuiltinClass
<1>3. BuiltinBase["ArrayInteger"] = "AnyRef"
  BY Zenon DEF BuiltinBase, BuiltinClass
<1>4. \A c \in BuiltinClass \ {"Class", "AnyValue", "AnyRef", "ArrayInteger"} : BuiltinBase[c] = "AnyValue"
  BY Zenon DEF BuiltinBase, BuiltinClass
<1>. QED BY <1>1, <1>2, <1>3, <1>4 DEF BuiltinClass

LEMMA SymbolsAre ==
  ASSUME program \in DOMAIN Inputs
  PROVE  /\ DOMAIN Symbols = BuiltinClass \cup ClassNames(Classes)
         /\ \A c \in DOMAIN Symbols : Symbols[c].chain \in Seq(DOMAIN Symbols)
         /\ Symbols["Class"] = BuiltinSymbol("Class", Nothing)
         /\ \A c \in BuiltinClass \ {"Class"} :
              /\ BuiltinBase[c] \in DOMAIN Symbols
              /\ Symbols[c] = BuiltinSymbol(c, Symbols[BuiltinBase[c]])
         /\ \A k \in DOMAIN Classes :
              /\ Classes[k].name \in DOMAIN Symbols /\ Classes[k].base \in DOMAIN Symbols
              /\ Symbols[Classes[k].name] = UserSymbol(Classes[k], Symbols[Classes[k].base])
<1>1. /\ \A c \in DOMAIN Symbols : Symbols[c].chain \in Seq(DOMAIN Symbols)
      /\ Symbols = [c \in BuiltinClass \cup ClassNames(Classes) |->
           IF c \in BuiltinClass
             THEN BuiltinSymbol(c, IF c = "Class" THEN Nothing ELSE Symbols[BuiltinBase[c]])
             ELSE UserSymbol(Named(Classes, c), Symbols[Named(Classes, c).base])]
  BY InputFacts, Zenon DEF IsTable
<1>2. DOMAIN Symbols = BuiltinClass \cup ClassNames(Classes)
  BY <1>1
<1>3. \A c \in BuiltinClass :
        Symbols[c] = BuiltinSymbol(c, IF c = "Class" THEN Nothing ELSE Symbols[BuiltinBase[c]])
  BY <1>1
<1>4. "Class" \in BuiltinClass
  BY DEF BuiltinClass
<1>5. \A c \in BuiltinClass \ {"Class"} : BuiltinBase[c] \in DOMAIN Symbols
  BY <1>2, BuiltinBases
<1>6. ASSUME NEW k \in DOMAIN Classes
      PROVE  /\ Classes[k].name \in DOMAIN Symbols /\ Classes[k].base \in DOMAIN Symbols
             /\ Symbols[Classes[k].name] = UserSymbol(Classes[k], Symbols[Classes[k].base])
  <2>1. Classes[k].name \in ClassNames(Classes)
    BY DEF ClassNames
  <2>2. Classes[k].name \notin BuiltinClass /\ Named(Classes, Classes[k].name) = Classes[k]
        /\ Classes[k].base \in BuiltinClass \cup ClassNames(Classes)
    BY ClassFacts
  <2>3. Symbols[Classes[k].name] =
          UserSymbol(Named(Classes, Classes[k].name), Symbols[Named(Classes, Classes[k].name).base])
    BY <1>1, <2>1, <2>2
  <2>. QED BY <1>2, <2>1, <2>2, <2>3
<1>. QED BY <1>1, <1>2, <1>3, <1>4, <1>5, <1>6

LEMMA NotAClassIsNot ==
  ASSUME program \in DOMAIN Inputs
  PROVE  \A c \in DOMAIN Symbols : c \notin NotAClass
<1>1. \A c \in BuiltinClass : c \notin NotAClass
  BY DEF BuiltinClass, NotAClass, NoType, NoClass, Unknown
<1>2. \A c \in ClassNames(Classes) : c \notin NotAClass
  <2>1. \A k \in DOMAIN Classes : Classes[k].name \in STRING \ NotAClass
    BY ClassFacts DEF Declaration
  <2>. QED BY <2>1 DEF ClassNames
<1>. QED BY <1>1, <1>2, SymbolsAre

\* A fact about classes holds if it holds of each whose base it holds of.
LEMMA BaseFirst ==
  ASSUME program \in DOMAIN Inputs, NEW S,
         \A c \in DOMAIN Symbols :
           (\A d \in DOMAIN Symbols : Len(Symbols[d].chain) < Len(Symbols[c].chain) => d \in S)
             => c \in S
  PROVE  \A c \in DOMAIN Symbols : c \in S
<1> DEFINE T == {Len(Symbols[c].chain) : c \in {c \in DOMAIN Symbols : c \notin S}}
<1>1. T \in SUBSET Nat
  BY SymbolsAre
<1>2. \A c \in DOMAIN Symbols : c \notin S => Len(Symbols[c].chain) \in T
  OBVIOUS
<1>3. ASSUME T # {} PROVE FALSE
  <2>1. PICK m \in T : \A k \in T : m <= k
    <3>. HIDE DEF T
    <3>. QED BY <1>1, <1>3, LeastNumber
  <2>2. PICK c \in DOMAIN Symbols : c \notin S /\ m = Len(Symbols[c].chain)
    OBVIOUS
  <2>. HIDE DEF T
  <2>3. \A d \in DOMAIN Symbols : d \notin S => Len(Symbols[c].chain) <= Len(Symbols[d].chain)
    BY <1>2, <2>1, <2>2
  <2>4. \A d \in DOMAIN Symbols : Len(Symbols[d].chain) \in Nat
    BY SymbolsAre
  <2>5. \A d \in DOMAIN Symbols : Len(Symbols[d].chain) < Len(Symbols[c].chain) => d \in S
    BY <2>3, <2>4
  <2>. QED BY <2>2, <2>5
<1>. QED BY <1>2, <1>3

-----------------------------------------------------------------------------
(* The built-in classes: what is declared, what is in the tree, and what   *)
(* instructions are chosen by name.                                        *)

Computations == {"Plus", "Minus", "Mult", "Div", "Rem", "UnaryMinus"}
Comparisons  == {"Less", "LessEqual", "Greater", "GreaterEqual", "Equal", "toBoolean"}
Operation    == Computations \cup Comparisons \cup
  {"toReal", "toInteger", "Not", "And", "Or", "Xor", "Len", "Get", "Set", "Print"}

BuiltinSignature(c) ==
  {m \in [name : Operation, params : Seq(BuiltinClass), ret : BuiltinClass] :
     EmittedType(c, m) = m.ret}

LEMMA ThreeElements ==
  ASSUME NEW f, f = [k \in 1..3 |-> f[k]]
  PROVE  f = <<f[1], f[2], f[3]>>
OBVIOUS

LEMMA FiveElements == \A a, b, c, d, e : <<a>> \o <<b, c, d>> \o <<e>> = <<a, b, c, d, e>>
<1> TAKE a, b, c, d, e
<1> DEFINE X == {a, b, c, d, e}
           s == <<b, c, d>>
           t == <<a>> \o s
           u == t \o <<e>>
<1>1. s \in Seq(X) /\ <<e>> \in Seq(X) /\ <<a>> \in Seq(X)
  OBVIOUS
<1>2. t \in Seq(X) /\ Len(t) = 4 /\ t[1] = a /\ \A k \in 2..4 : t[k] = s[k - 1]
  BY <1>1
<1>3. t[2] = b /\ t[3] = c /\ t[4] = d
  BY <1>2
<1>4. u \in Seq(X) /\ Len(u) = 5 /\ u[5] = e /\ \A k \in 1..4 : u[k] = t[k]
  BY <1>1, <1>2
<1>5. u[1] = a /\ u[2] = b /\ u[3] = c /\ u[4] = d
  BY <1>2, <1>3, <1>4
<1> HIDE DEF u, X
<1>6. u = <<a, b, c, d, e>>
  BY <1>4, <1>5
<1> QED BY <1>6 DEF u

\* The methods and constructors of the built-in classes are written down twice by hand, for
\* the symbol table and for the tree: both lists have the same at the same positions.
THEOREM TreeAsSymbols == TreeMethods = BuiltinMethods /\ TreeConstructors = BuiltinConstructors
<1>1. TreeMethods["Integer"] = BuiltinMethods["Integer"]
  <2>1. "Integer" \in BuiltinClass
    BY DEF BuiltinClass
  <2>2. BuiltinMethods["Integer"] = IntegerMethods
    BY <2>1, Zenon DEF BuiltinMethods
  <2>3. TreeMethods["Integer"] =
          TreeNumber("Integer", "Real",
                     <<Method("toReal", <<>>, "Real"), Method("toBoolean", <<>>, "Boolean"),
                       Method("UnaryMinus", <<>>, "Integer")>>, "Real", "Integer")
    BY <2>1, Zenon DEF TreeMethods
  <2>. QED BY <2>2, <2>3, Zenon DEF IntegerMethods, TreeNumber, Arithmetic, Ordering
<1>2. TreeMethods["Real"] = BuiltinMethods["Real"]
  <2>1. "Real" \in BuiltinClass
    BY DEF BuiltinClass
  <2>2. BuiltinMethods["Real"] = RealMethods
    BY <2>1, Zenon DEF BuiltinMethods
  <2>3. TreeMethods["Real"] =
          TreeNumber("Real", "Integer",
                     <<Method("toInteger", <<>>, "Integer"), Method("UnaryMinus", <<>>, "Real")>>,
                     "Real", "Real")
    BY <2>1, Zenon DEF TreeMethods
  <2>. QED BY <2>2, <2>3, Zenon DEF RealMethods, TreeNumber, Arithmetic, Ordering
<1>3. TreeMethods["Boolean"] = BuiltinMethods["Boolean"]
  <2>1. "Boolean" \in BuiltinClass
    BY DEF BuiltinClass
  <2>2. BuiltinMethods["Boolean"] =
          <<Method("toInteger", <<>>, "Integer"),
            Method("Or", <<"Boolean">>, "Boolean"), Method("And", <<"Boolean">>, "Boolean"),
            Method("Xor", <<"Boolean">>, "Boolean"), Method("Not", <<>>, "Boolean")>>
    BY <2>1, Zenon DEF BuiltinMethods
  <2>3. TreeMethods["Boolean"] =
          <<Method("toInteger", <<>>, "Integer")>> \o
            [k \in 1..3 |-> Method((<<"Or", "And", "Xor">>)[k], <<"Boolean">>, "Boolean")] \o
            <<Method("Not", <<>>, "Boolean")>>
    BY <2>1, Zenon DEF TreeMethods
  <2>5. [k \in 1..3 |-> Method((<<"Or", "And", "Xor">>)[k], <<"Boolean">>, "Boolean")] =
          <<Method("Or", <<"Boolean">>, "Boolean"), Method("And", <<"Boolean">>, "Boolean"),
            Method("Xor", <<"Boolean">>, "Boolean")>>
    <3> DEFINE f == [k \in 1..3 |-> Method((<<"Or", "And", "Xor">>)[k], <<"Boolean">>, "Boolean")]
    <3>1. f = <<f[1], f[2], f[3]>>
      <4>1. f = [k \in 1..3 |-> f[k]]
        OBVIOUS
      <4>. HIDE DEF f
      <4>. QED BY <4>1, ThreeElements
    <3>2. /\ f[1] = Method("Or", <<"Boolean">>, "Boolean")
          /\ f[2] = Method("And", <<"Boolean">>, "Boolean")
          /\ f[3] = Method("Xor", <<"Boolean">>, "Boolean")
      <4>1. 1 \in 1..3 /\ 2 \in 1..3 /\ 3 \in 1..3
        OBVIOUS
      <4>2. (<<"Or", "And", "Xor">>)[1] = "Or" /\ (<<"Or", "And", "Xor">>)[2] = "And"
            /\ (<<"Or", "And", "Xor">>)[3] = "Xor"
        OBVIOUS
      <4>. QED BY <4>1, <4>2, Zenon
    <3>. QED BY <3>1, <3>2
  <2>6. TreeMethods["Boolean"] =
          <<Method("toInteger", <<>>, "Integer")>> \o
            <<Method("Or", <<"Boolean">>, "Boolean"), Method("And", <<"Boolean">>, "Boolean"),
              Method("Xor", <<"Boolean">>, "Boolean")>> \o
            <<Method("Not", <<>>, "Boolean")>>
    BY <2>3, <2>5
  <2>. QED BY <2>2, <2>6, FiveElements
<1>4. TreeMethods["ArrayInteger"] = BuiltinMethods["ArrayInteger"]
  <2>1. "ArrayInteger" \in BuiltinClass
    BY DEF BuiltinClass
  <2>2. BuiltinMethods["ArrayInteger"] =
          <<Method("Len", <<>>, "Integer"), Method("Get", <<"Integer">>, "Integer"),
            Method("Set", <<"Integer", "Integer">>, "Unit")>>
    BY <2>1, Zenon DEF BuiltinMethods
  <2>3. TreeMethods["ArrayInteger"] =
          <<Method("Len", <<>>, "Integer"), Method("Get", <<"Integer">>, "Integer"),
            Method("Set", <<"Integer", "Integer">>, "Unit")>>
    BY <2>1, Zenon DEF TreeMethods
  <2>. QED BY <2>2, <2>3, Zenon
<1>5. TreeMethods["IO"] = BuiltinMethods["IO"]
  <2>1. "IO" \in BuiltinClass
    BY DEF BuiltinClass
  <2>2. BuiltinMethods["IO"] =
          <<Method("Print", <<"Integer">>, "Unit"), Method("Print", <<"Real">>, "Unit"),
            Method("Print", <<"Boolean">>, "Unit")>>
    BY <2>1, Zenon DEF BuiltinMethods
  <2>3. TreeMethods["IO"] =
          [k \in 1..3 |-> Method("Print", <<(<<"Integer", "Real", "Boolean">>)[k]>>, "Unit")]
    BY <2>1, Zenon DEF TreeMethods
  <2>4. [k \in 1..3 |-> Method("Print", <<(<<"Integer", "Real", "Boolean">>)[k]>>, "Unit")] =
          <<Method("Print", <<"Integer">>, "Unit"), Method("Print", <<"Real">>, "Unit"),
            Method("Print", <<"Boolean">>, "Unit")>>
    <3> DEFINE f == [k \in 1..3 |-> Method("Print", <<(<<"Integer", "Real", "Boolean">>)[k]>>, "Unit")]
    <3>1. f = <<f[1], f[2], f[3]>>
      <4>1. f = [k \in 1..3 |-> f[k]]
        OBVIOUS
      <4>. HIDE DEF f
      <4>. QED BY <4>1, ThreeElements
    <3>2. /\ f[1] = Method("Print", <<"Integer">>, "Unit")
          /\ f[2] = Method("Print", <<"Real">>, "Unit")
          /\ f[3] = Method("Print", <<"Boolean">>, "Unit")
      <4>1. 1 \in 1..3 /\ 2 \in 1..3 /\ 3 \in 1..3
        OBVIOUS
      <4>2. (<<"Integer", "Real", "Boolean">>)[1] = "Integer"
            /\ (<<"Integer", "Real", "Boolean">>)[2] = "Real"
            /\ (<<"Integer", "Real", "Boolean">>)[3] = "Boolean"
        OBVIOUS
      <4>. QED BY <4>1, <4>2, Zenon
    <3>. QED BY <3>1, <3>2
  <2>. QED BY <2>2, <2>3, <2>4, Zenon
<1>6. \A c \in BuiltinClass \ {"Integer", "Real", "Boolean", "ArrayInteger", "IO"} :
        TreeMethods[c] = <<>> /\ BuiltinMethods[c] = <<>>
  BY Zenon DEF TreeMethods, BuiltinMethods
<1>7. \A c \in BuiltinClass : TreeMethods[c] = BuiltinMethods[c]
  BY <1>1, <1>2, <1>3, <1>4, <1>5, <1>6
<1>8. TreeMethods = [c \in BuiltinClass |-> TreeMethods[c]]
  BY Zenon DEF TreeMethods
<1>9. BuiltinMethods = [c \in BuiltinClass |-> BuiltinMethods[c]]
  BY Zenon DEF BuiltinMethods
<1>10. \A c \in BuiltinClass : TreeConstructors[c] = BuiltinConstructors[c]
  <2>1. \A c \in {"Integer", "Real", "Boolean", "ArrayInteger", "Unit", "IO"} :
          TreeConstructors[c] = BuiltinConstructors[c]
    BY Zenon DEF TreeConstructors, BuiltinConstructors, BuiltinClass
  <2>2. \A c \in BuiltinClass \ {"Integer", "Real", "Boolean", "ArrayInteger", "Unit", "IO"} :
          TreeConstructors[c] = <<>> /\ BuiltinConstructors[c] = <<>>
    BY Zenon DEF TreeConstructors, BuiltinConstructors
  <2>. QED BY <2>1, <2>2
<1>11. TreeConstructors = [c \in BuiltinClass |-> TreeConstructors[c]]
  BY Zenon DEF TreeConstructors
<1>12. BuiltinConstructors = [c \in BuiltinClass |-> BuiltinConstructors[c]]
  BY Zenon DEF BuiltinConstructors
<1>. QED BY <1>7, <1>8, <1>9, <1>10, <1>11, <1>12, Zenon

-----------------------------------------------------------------------------
(* The methods of the built-in classes: what the emitted instructions give *)
(* is the type that the table declares.                                    *)

LEMMA Emitted ==
  /\ \A c \in {"Integer", "Real"} : \A m :
       /\ m.name \in Computations =>
            EmittedType(c, m) = IF UsesReal(c, m) THEN "Real" ELSE "Integer"
       /\ m.name \in Comparisons => EmittedType(c, m) = "Boolean"
       /\ m.name = "toReal" => EmittedType(c, m) = "Real"
       /\ m.name = "toInteger" => EmittedType(c, m) = "Integer"
  /\ \A m : /\ m.name \in {"Not", "And", "Or", "Xor"} => EmittedType("Boolean", m) = "Boolean"
            /\ m.name = "toInteger" => EmittedType("Boolean", m) = "Integer"
            /\ m.name \in {"Len", "Get"} => EmittedType("ArrayInteger", m) = "Integer"
            /\ m.name = "Set" => EmittedType("ArrayInteger", m) = "Unit"
            /\ m.name = "Print" => EmittedType("IO", m) = "Unit"
<1>1. ASSUME NEW c \in {"Integer", "Real"}, NEW m
      PROVE  /\ m.name \in Computations =>
                  EmittedType(c, m) = IF UsesReal(c, m) THEN "Real" ELSE "Integer"
             /\ m.name \in Comparisons => EmittedType(c, m) = "Boolean"
             /\ m.name = "toReal" => EmittedType(c, m) = "Real"
             /\ m.name = "toInteger" => EmittedType(c, m) = "Integer"
  <2>1. m.name \in Computations =>
           EmittedType(c, m) = IF UsesReal(c, m) THEN "Real" ELSE "Integer"
    BY Zenon DEF EmittedType, Computations
  <2>2. m.name \in Comparisons => m.name \notin Computations
    BY DEF Comparisons, Computations
  <2>3. m.name \in Comparisons => EmittedType(c, m) = "Boolean"
    BY <2>2, Zenon DEF EmittedType, Comparisons, Computations
  <2>4. m.name \in {"toReal", "toInteger"} => m.name \notin Computations \cup Comparisons
    BY DEF Comparisons, Computations
  <2>5. m.name = "toReal" => EmittedType(c, m) = "Real"
    BY <2>4, Zenon DEF EmittedType, Comparisons, Computations
  <2>6. m.name = "toInteger" => m.name # "toReal"
    OBVIOUS
  <2>7. m.name = "toInteger" => EmittedType(c, m) = "Integer"
    BY <2>4, <2>6, Zenon DEF EmittedType, Comparisons, Computations
  <2>. QED BY <2>1, <2>3, <2>5, <2>7
<1>2. ASSUME NEW m
      PROVE  /\ m.name \in {"Not", "And", "Or", "Xor"} => EmittedType("Boolean", m) = "Boolean"
             /\ m.name = "toInteger" => EmittedType("Boolean", m) = "Integer"
  <2>1. "Boolean" \notin {"Integer", "Real"}
    OBVIOUS
  <2>2. m.name = "toInteger" => m.name \notin {"Not", "And", "Or", "Xor"}
    OBVIOUS
  <2>. QED BY <2>1, <2>2, Zenon DEF EmittedType
<1>3. ASSUME NEW m
      PROVE  /\ m.name \in {"Len", "Get"} => EmittedType("ArrayInteger", m) = "Integer"
             /\ m.name = "Set" => EmittedType("ArrayInteger", m) = "Unit"
  <2>1. "ArrayInteger" \notin {"Integer", "Real"} /\ "ArrayInteger" # "Boolean"
    OBVIOUS
  <2>2. m.name = "Set" => m.name \notin {"Len", "Get"}
    OBVIOUS
  <2>. QED BY <2>1, <2>2, Zenon DEF EmittedType
<1>4. ASSUME NEW m
      PROVE  m.name = "Print" => EmittedType("IO", m) = "Unit"
  <2>1. "IO" \notin {"Integer", "Real"} /\ "IO" # "Boolean" /\ "IO" # "ArrayInteger"
    OBVIOUS
  <2>. QED BY <2>1, Zenon DEF EmittedType
<1>. QED BY <1>1, <1>2, <1>3, <1>4

LEMMA InSignature ==
  \A c, n, p, r : n \in Operation /\ p \in Seq(BuiltinClass) /\ r \in BuiltinClass
                    /\ EmittedType(c, Method(n, p, r)) = r => Method(n, p, r) \in BuiltinSignature(c)
<1>. SUFFICES ASSUME NEW c, NEW n \in Operation, NEW p \in Seq(BuiltinClass), NEW r \in BuiltinClass,
                     EmittedType(c, Method(n, p, r)) = r
              PROVE  Method(n, p, r) \in BuiltinSignature(c)
  OBVIOUS
<1>1. Method(n, p, r) \in [name : Operation, params : Seq(BuiltinClass), ret : BuiltinClass]
      /\ Method(n, p, r).ret = r
  BY DEF Method
<1>. QED BY <1>1, Zenon DEF BuiltinSignature

LEMMA EmittedMethods ==
  ASSUME NEW n, NEW p, NEW r
  PROVE  /\ \A c \in {"Integer", "Real"} :
              /\ n \in Computations => EmittedType(c, Method(n, p, r)) =
                                        IF UsesReal(c, Method(n, p, r)) THEN "Real" ELSE "Integer"
              /\ n \in Comparisons => EmittedType(c, Method(n, p, r)) = "Boolean"
              /\ n = "toReal" => EmittedType(c, Method(n, p, r)) = "Real"
              /\ n = "toInteger" => EmittedType(c, Method(n, p, r)) = "Integer"
         /\ n \in {"Not", "And", "Or", "Xor"} => EmittedType("Boolean", Method(n, p, r)) = "Boolean"
         /\ n = "toInteger" => EmittedType("Boolean", Method(n, p, r)) = "Integer"
         /\ n \in {"Len", "Get"} => EmittedType("ArrayInteger", Method(n, p, r)) = "Integer"
         /\ n = "Set" => EmittedType("ArrayInteger", Method(n, p, r)) = "Unit"
         /\ n = "Print" => EmittedType("IO", Method(n, p, r)) = "Unit"
<1>1. Method(n, p, r).name = n
  BY DEF Method
<1>. QED BY <1>1, Emitted, Zenon

LEMMA BuiltinParams ==
  /\ <<>> \in Seq(BuiltinClass)
  /\ \A a \in {"Integer", "Real", "Boolean"} : a \in BuiltinClass /\ <<a>> \in Seq(BuiltinClass)
  /\ <<"Integer", "Integer">> \in Seq(BuiltinClass)
  /\ "Unit" \in BuiltinClass
BY DEF BuiltinClass

LEMMA IntegerMethodsAre == IntegerMethods \in Seq(BuiltinSignature("Integer"))
<1> DEFINE X == BuiltinSignature("Integer")
<1>1. \A m \in {"Plus", "Minus", "Mult", "Div", "Rem", "UnaryMinus"} :
        /\ Method(m, <<"Integer">>, "Integer") \in X
        /\ Method(m, <<"Real">>, "Real") \in X
        /\ Method(m, <<>>, "Integer") \in X
  <2>. TAKE m \in {"Plus", "Minus", "Mult", "Div", "Rem", "UnaryMinus"}
  <2>1. /\ ~UsesReal("Integer", Method(m, <<"Integer">>, "Integer"))
        /\ UsesReal("Integer", Method(m, <<"Real">>, "Real"))
        /\ ~UsesReal("Integer", Method(m, <<>>, "Integer"))
    BY DEF UsesReal, Method
  <2>2. m \in Operation /\ m \in Computations
    BY DEF Operation, Computations
  <2>3. EmittedType("Integer", Method(m, <<"Integer">>, "Integer")) = "Integer"
    BY <2>1, <2>2, EmittedMethods
  <2>4. EmittedType("Integer", Method(m, <<"Real">>, "Real")) = "Real"
    BY <2>1, <2>2, EmittedMethods
  <2>5. EmittedType("Integer", Method(m, <<>>, "Integer")) = "Integer"
    BY <2>1, <2>2, EmittedMethods
  <2>. QED BY <2>2, <2>3, <2>4, <2>5, InSignature, BuiltinParams
<1>2. \A m \in {"Less", "LessEqual", "Greater", "GreaterEqual", "Equal", "toBoolean"} :
        /\ Method(m, <<"Integer">>, "Boolean") \in X
        /\ Method(m, <<"Real">>, "Boolean") \in X
        /\ Method(m, <<>>, "Boolean") \in X
  <2>. TAKE m \in {"Less", "LessEqual", "Greater", "GreaterEqual", "Equal", "toBoolean"}
  <2>1. m \in Operation /\ m \in Comparisons
    BY DEF Operation, Comparisons
  <2>2. \A params : EmittedType("Integer", Method(m, params, "Boolean")) = "Boolean"
    BY <2>1, EmittedMethods
  <2>. QED BY <2>1, <2>2, InSignature, BuiltinParams
<1>3. Method("toReal", <<>>, "Real") \in X
  <2>1. "toReal" \in Operation
    BY DEF Operation
  <2>2. EmittedType("Integer", Method("toReal", <<>>, "Real")) = "Real"
    BY EmittedMethods
  <2>. QED BY <2>1, <2>2, InSignature, BuiltinParams
<1>. HIDE DEF X
<1>4. \A m \in {"Plus", "Minus", "Mult", "Div"} : Pair(m, "Integer", "Integer", "Real", "Real") \in Seq(X)
  BY <1>1 DEF Pair
<1>5. \A m \in {"Less", "LessEqual", "Greater", "GreaterEqual", "Equal"} :
        Pair(m, "Integer", "Boolean", "Real", "Boolean") \in Seq(X)
  BY <1>2 DEF Pair
<1>6. <<Method("toReal", <<>>, "Real"), Method("toBoolean", <<>>, "Boolean"),
        Method("UnaryMinus", <<>>, "Integer")>> \in Seq(X)
  BY <1>1, <1>2, <1>3
<1>7. <<Method("Rem", <<"Integer">>, "Integer")>> \in Seq(X)
  BY <1>1
<1>8. \A a, b \in Seq(X) : a \o b \in Seq(X)
  OBVIOUS
<1>. QED BY <1>4, <1>5, <1>6, <1>7, <1>8, Zenon DEF IntegerMethods, Arithmetic, Ordering, X

LEMMA RealMethodsAre == RealMethods \in Seq(BuiltinSignature("Real"))
<1> DEFINE X == BuiltinSignature("Real")
<1>1. \A m \in {"Plus", "Minus", "Mult", "Div", "Rem", "UnaryMinus"} :
        /\ Method(m, <<"Integer">>, "Real") \in X
        /\ Method(m, <<"Real">>, "Real") \in X
        /\ Method(m, <<>>, "Real") \in X
  <2>. TAKE m \in {"Plus", "Minus", "Mult", "Div", "Rem", "UnaryMinus"}
  <2>1. \A x : UsesReal("Real", x)
    BY DEF UsesReal
  <2>2. m \in Operation /\ m \in Computations
    BY DEF Operation, Computations
  <2>3. \A params : EmittedType("Real", Method(m, params, "Real")) = "Real"
    BY <2>1, <2>2, EmittedMethods
  <2>. QED BY <2>2, <2>3, InSignature, BuiltinParams
<1>2. \A m \in {"Less", "LessEqual", "Greater", "GreaterEqual", "Equal", "toBoolean"} :
        /\ Method(m, <<"Integer">>, "Boolean") \in X
        /\ Method(m, <<"Real">>, "Boolean") \in X
  <2>. TAKE m \in {"Less", "LessEqual", "Greater", "GreaterEqual", "Equal", "toBoolean"}
  <2>1. m \in Operation /\ m \in Comparisons
    BY DEF Operation, Comparisons
  <2>2. \A params : EmittedType("Real", Method(m, params, "Boolean")) = "Boolean"
    BY <2>1, EmittedMethods
  <2>. QED BY <2>1, <2>2, InSignature, BuiltinParams
<1>3. Method("toInteger", <<>>, "Integer") \in X
  <2>1. "toInteger" \in Operation
    BY DEF Operation
  <2>2. EmittedType("Real", Method("toInteger", <<>>, "Integer")) = "Integer"
    BY EmittedMethods
  <2>. QED BY <2>1, <2>2, InSignature, BuiltinParams
<1>. HIDE DEF X
<1>4. \A m \in {"Plus", "Minus", "Mult", "Div"} : Pair(m, "Real", "Real", "Integer", "Real") \in Seq(X)
  BY <1>1 DEF Pair
<1>5. \A m \in {"Less", "LessEqual", "Greater", "GreaterEqual", "Equal"} :
        Pair(m, "Real", "Boolean", "Integer", "Boolean") \in Seq(X)
  BY <1>2 DEF Pair
<1>6. <<Method("toInteger", <<>>, "Integer"), Method("UnaryMinus", <<>>, "Real")>> \in Seq(X)
  BY <1>1, <1>3
<1>7. <<Method("Rem", <<"Integer">>, "Real")>> \in Seq(X)
  BY <1>1
<1>8. \A a, b \in Seq(X) : a \o b \in Seq(X)
  OBVIOUS
<1>. QED BY <1>4, <1>5, <1>6, <1>7, <1>8, Zenon DEF RealMethods, Arithmetic, Ordering, X

LEMMA BuiltinMethodsAre == \A c \in BuiltinClass : BuiltinMethods[c] \in Seq(BuiltinSignature(c))
<1>1. BuiltinMethods["Integer"] \in Seq(BuiltinSignature("Integer"))
  <2>1. BuiltinMethods["Integer"] = IntegerMethods
    BY Zenon DEF BuiltinMethods, BuiltinClass
  <2>. QED BY <2>1, IntegerMethodsAre
<1>2. BuiltinMethods["Real"] \in Seq(BuiltinSignature("Real"))
  <2>1. BuiltinMethods["Real"] = RealMethods
    BY Zenon DEF BuiltinMethods, BuiltinClass
  <2>. QED BY <2>1, RealMethodsAre
<1>3. BuiltinMethods["Boolean"] \in Seq(BuiltinSignature("Boolean"))
  <2>1. "Boolean" \in BuiltinClass
    BY DEF BuiltinClass
  <2>2. BuiltinMethods["Boolean"] =
          <<Method("toInteger", <<>>, "Integer"),
            Method("Or", <<"Boolean">>, "Boolean"), Method("And", <<"Boolean">>, "Boolean"),
            Method("Xor", <<"Boolean">>, "Boolean"), Method("Not", <<>>, "Boolean")>>
    BY <2>1, Zenon DEF BuiltinMethods
  <2>3. /\ Method("toInteger", <<>>, "Integer") \in BuiltinSignature("Boolean")
        /\ Method("Not", <<>>, "Boolean") \in BuiltinSignature("Boolean")
        /\ \A m \in {"Or", "And", "Xor"} :
             Method(m, <<"Boolean">>, "Boolean") \in BuiltinSignature("Boolean")
    <3>1. \A m \in {"toInteger", "Not", "Or", "And", "Xor"} : m \in Operation
      BY DEF Operation
    <3>2. EmittedType("Boolean", Method("toInteger", <<>>, "Integer")) = "Integer"
      BY EmittedMethods
    <3>3. \A m \in {"Not", "Or", "And", "Xor"} : \A params :
            EmittedType("Boolean", Method(m, params, "Boolean")) = "Boolean"
      BY EmittedMethods
    <3>. QED BY <3>1, <3>2, <3>3, InSignature, BuiltinParams
  <2>. QED BY <2>2, <2>3
<1>4. BuiltinMethods["ArrayInteger"] \in Seq(BuiltinSignature("ArrayInteger"))
  <2>1. "ArrayInteger" \in BuiltinClass
    BY DEF BuiltinClass
  <2>2. BuiltinMethods["ArrayInteger"] =
          <<Method("Len", <<>>, "Integer"), Method("Get", <<"Integer">>, "Integer"),
            Method("Set", <<"Integer", "Integer">>, "Unit")>>
    BY <2>1, Zenon DEF BuiltinMethods
  <2>3. /\ Method("Len", <<>>, "Integer") \in BuiltinSignature("ArrayInteger")
        /\ Method("Get", <<"Integer">>, "Integer") \in BuiltinSignature("ArrayInteger")
        /\ Method("Set", <<"Integer", "Integer">>, "Unit") \in BuiltinSignature("ArrayInteger")
    <3>1. \A m \in {"Len", "Get", "Set"} : m \in Operation
      BY DEF Operation
    <3>2. EmittedType("ArrayInteger", Method("Set", <<"Integer", "Integer">>, "Unit")) = "Unit"
      BY EmittedMethods
    <3>3. \A m \in {"Len", "Get"} : \A params :
            EmittedType("ArrayInteger", Method(m, params, "Integer")) = "Integer"
      BY EmittedMethods
    <3>. QED BY <3>1, <3>2, <3>3, InSignature, BuiltinParams
  <2>. QED BY <2>2, <2>3
<1>5. BuiltinMethods["IO"] \in Seq(BuiltinSignature("IO"))
  <2>1. "IO" \in BuiltinClass
    BY DEF BuiltinClass
  <2>2. BuiltinMethods["IO"] =
          <<Method("Print", <<"Integer">>, "Unit"), Method("Print", <<"Real">>, "Unit"),
            Method("Print", <<"Boolean">>, "Unit")>>
    BY <2>1, Zenon DEF BuiltinMethods
  <2>3. \A a \in {"Integer", "Real", "Boolean"} : Method("Print", <<a>>, "Unit") \in BuiltinSignature("IO")
    <3>1. "Print" \in Operation
      BY DEF Operation
    <3>2. \A params : EmittedType("IO", Method("Print", params, "Unit")) = "Unit"
      BY EmittedMethods
    <3>. QED BY <3>1, <3>2, InSignature, BuiltinParams
  <2>. QED BY <2>2, <2>3
<1>6. \A c \in BuiltinClass \ {"Integer", "Real", "Boolean", "ArrayInteger", "IO"} :
        BuiltinMethods[c] = <<>>
  BY Zenon DEF BuiltinMethods
<1>7. \A c : <<>> \in Seq(BuiltinSignature(c))
  OBVIOUS
<1>. QED BY <1>1, <1>2, <1>3, <1>4, <1>5, <1>6, <1>7, Zenon

LEMMA BuiltinConstructorsAre ==
  \A c \in BuiltinClass : BuiltinConstructors[c] \in Seq(Seq(BuiltinClass))
<1>1. BuiltinConstructors["Integer"] = <<<<"Integer">>, <<"Real">>>>
  BY Zenon DEF BuiltinConstructors, BuiltinClass
<1>2. BuiltinConstructors["Real"] = <<<<"Real">>, <<"Integer">>>>
  BY Zenon DEF BuiltinConstructors, BuiltinClass
<1>3. BuiltinConstructors["Boolean"] = <<<<"Boolean">>>>
  BY Zenon DEF BuiltinConstructors, BuiltinClass
<1>4. \A c \in {"Unit", "IO"} : BuiltinConstructors[c] = <<<<>>>>
  BY Zenon DEF BuiltinConstructors, BuiltinClass
<1>5. BuiltinConstructors["ArrayInteger"] = <<<<"Integer">>>>
  BY Zenon DEF BuiltinConstructors, BuiltinClass
<1>6. \A c \in BuiltinClass \ {"Integer", "Real", "Boolean", "ArrayInteger", "Unit", "IO"} :
        BuiltinConstructors[c] = <<>>
  BY Zenon DEF BuiltinConstructors
<1> DEFINE T == Seq(Seq(BuiltinClass))
<1>7. \A c \in {"Integer", "Real", "Boolean", "ArrayInteger", "Unit", "IO"} :
        BuiltinConstructors[c] \in T
  <2>1. \A a, b \in Seq(BuiltinClass) : <<a>> \in T /\ <<a, b>> \in T
    OBVIOUS
  <2>. HIDE DEF T
  <2>. QED BY <1>1, <1>2, <1>3, <1>4, <1>5, <2>1, BuiltinParams
<1>8. <<>> \in T
  OBVIOUS
<1>. HIDE DEF T
<1>9. \A c \in BuiltinClass : BuiltinConstructors[c] \in T
  BY <1>6, <1>7, <1>8, Zenon
<1>. QED BY <1>9 DEF T

LEMMA BuiltinFieldsAre ==
  \A c \in BuiltinClass : BuiltinFields[c] \in [DOMAIN BuiltinFields[c] -> BuiltinClass]
<1>1. BuiltinFields["Integer"] = [n \in {"Min", "Max"} |-> "Integer"]
  BY Zenon DEF BuiltinFields, BuiltinClass
<1>2. BuiltinFields["Real"] = [n \in {"Min", "Max", "Epsilon"} |-> "Real"]
  BY Zenon DEF BuiltinFields, BuiltinClass
<1>3. \A c \in BuiltinClass \ {"Integer", "Real"} : BuiltinFields[c] = [n \in {} |-> c]
  BY Zenon DEF BuiltinFields
<1>4. \A c \in {"Integer", "Real"} :
        BuiltinFields[c] \in [DOMAIN BuiltinFields[c] -> BuiltinClass]
  BY <1>1, <1>2, BuiltinParams
<1>5. \A c \in BuiltinClass \ {"Integer", "Real"} :
        BuiltinFields[c] \in [DOMAIN BuiltinFields[c] -> BuiltinClass]
  BY <1>3
<1>. QED BY <1>4, <1>5, Zenon

-----------------------------------------------------------------------------
(* What the symbol table holds of each class.                              *)

\* The methods that a symbol holds: whose they are, and that those of a built-in class are
\* the ones declared.
SymbolMethod ==
  [name : Operation \cup STRING, params : Seq(DOMAIN Symbols), ret : DOMAIN Symbols \cup {NoType}]
\* What is at a position of a symbol's methods.
MethodSlot ==
  {s \in [class : DOMAIN Symbols, at : Nat, method : SymbolMethod] :
     s.class \in BuiltinClass =>
       s.at \in DOMAIN BuiltinMethods[s.class] /\ s.method = BuiltinMethods[s.class][s.at]}

LEMMA BuiltinOwned ==
  ASSUME program \in DOMAIN Inputs, NEW c \in BuiltinClass
  PROVE  Owned(c, BuiltinMethods[c]) \in Seq(MethodSlot)
<1> DEFINE ms == BuiltinMethods[c]
<1>1. c \in DOMAIN Symbols /\ BuiltinClass \subseteq DOMAIN Symbols
  BY SymbolsAre
<1>2. ms \in Seq(BuiltinSignature(c))
  BY BuiltinMethodsAre
<1>3. ASSUME NEW k \in DOMAIN ms
      PROVE  [class |-> c, at |-> k, method |-> ms[k]] \in MethodSlot
  <2>1. k \in Nat /\ ms[k] \in BuiltinSignature(c)
    BY <1>2
  <2>2. ms[k] \in [name : Operation, params : Seq(BuiltinClass), ret : BuiltinClass]
    BY <2>1 DEF BuiltinSignature
  <2>3. ms[k] \in SymbolMethod
    BY <1>1, <2>2 DEF SymbolMethod
  <2>4. [class |-> c, at |-> k, method |-> ms[k]] \in [class : DOMAIN Symbols, at : Nat, method : SymbolMethod]
    BY <1>1, <2>1, <2>3
  <2>. QED BY <2>4 DEF MethodSlot
<1>4. Len(ms) \in Nat /\ DOMAIN ms = 1..Len(ms)
  BY <1>2
<1>5. Owned(c, ms) = [k \in 1..Len(ms) |-> [class |-> c, at |-> k, method |-> ms[k]]]
  BY <1>4 DEF Owned
<1>. HIDE DEF ms
<1>6. Owned(c, ms) \in Seq(MethodSlot)
  BY <1>3, <1>4, <1>5
<1>. QED BY <1>6 DEF ms

LEMMA TypesAre ==
  ASSUME NEW T, NEW params \in Seq(Parameter(T))
  PROVE  Types(params) \in Seq(T)
<1>1. \A k \in DOMAIN params : params[k] \in Parameter(T)
  OBVIOUS
<1>2. \A k \in DOMAIN params : params[k].type \in T
  BY <1>1 DEF Parameter
<1>3. DOMAIN params = 1..Len(params) /\ Len(params) \in Nat
  OBVIOUS
<1>. QED BY <1>2, <1>3 DEF Types

LEMMA DeclaredOwned ==
  ASSUME program \in DOMAIN Inputs, NEW k \in DOMAIN Classes
  PROVE  /\ Constructors(Classes[k]) \in Seq(Seq(DOMAIN Symbols))
         /\ Owned(Classes[k].name, Methods(Classes[k])) \in Seq(MethodSlot)
<1> DEFINE class == Classes[k]
           T     == BuiltinClass \cup ClassNames(Classes)
           ms    == Methods(class)
<1>1. class \in Declaration(T) /\ class.name \notin BuiltinClass
  BY ClassFacts
<1>2. DOMAIN Symbols = T /\ class.name \in DOMAIN Symbols
  BY SymbolsAre
<1>3. Constructors(class) \in Seq(Seq(T))
  <2>1. class.ctors \in Seq(Seq(Parameter(T)))
    BY <1>1 DEF Declaration
  <2>2. DOMAIN class.ctors = 1..Len(class.ctors) /\ Len(class.ctors) \in Nat
        /\ \A i \in DOMAIN class.ctors : class.ctors[i] \in Seq(Parameter(T))
    BY <2>1
  <2>3. \A i \in DOMAIN class.ctors : Types(class.ctors[i]) \in Seq(T)
    BY <2>2, TypesAre
  <2>. QED BY <2>2, <2>3 DEF Constructors
<1>4. Len(class.methods) \in Nat /\ DOMAIN class.methods = 1..Len(class.methods)
      /\ \A i \in DOMAIN class.methods :
           /\ class.methods[i].name \in STRING /\ class.methods[i].params \in Seq(Parameter(T))
           /\ class.methods[i].ret \in T \cup {NoType}
  <2> DEFINE R == [name : STRING, params : Seq(Parameter(T)), ret : T \cup {NoType},
                    body : {"none", "block", "expression"}]
             decl == class.methods
  <2>1. decl \in Seq(R)
    BY <1>1 DEF Declaration
  <2>2. Len(decl) \in Nat /\ DOMAIN decl = 1..Len(decl) /\ \A i \in DOMAIN decl : decl[i] \in R
    <3>. HIDE DEF R, decl
    <3>. QED BY <2>1
  <2>3. \A r \in R : r.name \in STRING /\ r.params \in Seq(Parameter(T)) /\ r.ret \in T \cup {NoType}
    OBVIOUS
  <2>. QED BY <2>2, <2>3
<1>5. ms = [i \in DOMAIN class.methods |->
              Method(class.methods[i].name, Types(class.methods[i].params), class.methods[i].ret)]
  BY DEF Methods
<1>6. ASSUME NEW i \in DOMAIN class.methods
      PROVE  [class |-> class.name, at |-> i, method |-> ms[i]] \in MethodSlot
  <2>1. Types(class.methods[i].params) \in Seq(T)
    BY <1>4, TypesAre
  <2>2. ms[i] = [name |-> class.methods[i].name, params |-> Types(class.methods[i].params),
                 ret |-> class.methods[i].ret]
    BY <1>5 DEF Method
  <2>3. ms[i] \in SymbolMethod
    BY <1>2, <1>4, <2>1, <2>2 DEF SymbolMethod
  <2>. HIDE DEF class, ms
  <2>4. [class |-> class.name, at |-> i, method |-> ms[i]]
          \in [class : DOMAIN Symbols, at : Nat, method : SymbolMethod]
    BY <1>2, <1>4, <2>3
  <2>. QED BY <1>1, <2>4 DEF MethodSlot
<1>7. DOMAIN ms = 1..Len(class.methods) /\ Len(class.methods) \in Nat
  BY <1>4, <1>5
<1>8. Owned(class.name, ms) =
        [i \in 1..Len(class.methods) |-> [class |-> class.name, at |-> i, method |-> ms[i]]]
  BY <1>7 DEF Owned
<1>. HIDE DEF class, ms, T
<1>9. Owned(class.name, ms) \in Seq(MethodSlot)
  BY <1>4, <1>6, <1>7, <1>8
<1>. QED BY <1>2, <1>3, <1>9 DEF class, ms

\* What is known of the symbol of a class.
IsSymbol(c) ==
  /\ Symbols[c].chain \in Seq(DOMAIN Symbols)
  /\ Len(Symbols[c].chain) >= 1 /\ Symbols[c].chain[1] = c
  /\ Symbols[c].base \in DOMAIN Symbols \cup {NoClass}
  /\ Symbols[c].ctors \in Seq(Seq(DOMAIN Symbols))
  /\ c \in BuiltinClass => Symbols[c].ctors = BuiltinConstructors[c]
  /\ Symbols[c].methods \in Seq(MethodSlot)

LEMMA SymbolOver ==
  ASSUME program \in DOMAIN Inputs, NEW c \in DOMAIN Symbols,
         NEW above, above.chain \in Seq(DOMAIN Symbols), above.methods \in Seq(MethodSlot),
         NEW base \in DOMAIN Symbols \cup {NoClass},
         NEW ctors \in Seq(Seq(DOMAIN Symbols)),
         c \in BuiltinClass => ctors = BuiltinConstructors[c],
         NEW ms, Owned(c, ms) \in Seq(MethodSlot),
         Symbols[c] = Symbol(c, above, base, ctors, ms)
  PROVE  IsSymbol(c)
<1>1. /\ Symbols[c].chain = <<c>> \o above.chain
      /\ Symbols[c].base = base /\ Symbols[c].ctors = ctors
      /\ Symbols[c].methods = Owned(c, ms) \o above.methods
  BY DEF Symbol
<1>2. <<c>> \o above.chain \in Seq(DOMAIN Symbols) /\ Len(<<c>> \o above.chain) >= 1
      /\ (<<c>> \o above.chain)[1] = c
  OBVIOUS
<1>3. Owned(c, ms) \o above.methods \in Seq(MethodSlot)
  OBVIOUS
<1>. QED BY <1>1, <1>2, <1>3 DEF IsSymbol

LEMMA ChainGrows ==
  ASSUME NEW T, NEW chain \in Seq(T), NEW c \in T
  PROVE  Len(chain) < Len(<<c>> \o chain)
OBVIOUS

LEMMA SymbolFacts ==
  ASSUME program \in DOMAIN Inputs
  PROVE  \A c \in DOMAIN Symbols : IsSymbol(c)
<1> DEFINE S == {c \in DOMAIN Symbols : IsSymbol(c)}
<1>1. ASSUME NEW c \in DOMAIN Symbols,
             \A d \in DOMAIN Symbols : Len(Symbols[d].chain) < Len(Symbols[c].chain) => d \in S
      PROVE  IsSymbol(c)
  <2>1. CASE c = "Class"
    <3>1. Symbols[c] = Symbol(c, Nothing, NoClass, BuiltinConstructors[c], BuiltinMethods[c])
      BY <2>1, SymbolsAre DEF BuiltinSymbol
    <3>2. Nothing.chain \in Seq(DOMAIN Symbols) /\ Nothing.methods \in Seq(MethodSlot)
      BY DEF Nothing
    <3>3. c \in BuiltinClass
      BY <2>1 DEF BuiltinClass
    <3>4. BuiltinConstructors[c] \in Seq(Seq(DOMAIN Symbols))
      BY <3>3, BuiltinConstructorsAre, SymbolsAre
    <3>5. Owned(c, BuiltinMethods[c]) \in Seq(MethodSlot)
      BY <3>3, BuiltinOwned
    <3>. QED BY <3>1, <3>2, <3>3, <3>4, <3>5, SymbolOver
  <2>2. CASE c \in BuiltinClass \ {"Class"}
    <3> DEFINE b == BuiltinBase[c]
    <3>1. b \in DOMAIN Symbols
          /\ Symbols[c] = Symbol(c, Symbols[b], NoClass, BuiltinConstructors[c], BuiltinMethods[c])
      BY <2>2, SymbolsAre DEF BuiltinSymbol
    <3>2. Symbols[c].chain = <<c>> \o Symbols[b].chain
      BY <3>1 DEF Symbol
    <3>3. IsSymbol(b)
      BY <1>1, <3>1, <3>2, SymbolsAre, ChainGrows
    <3>4. BuiltinConstructors[c] \in Seq(Seq(DOMAIN Symbols))
      BY <2>2, BuiltinConstructorsAre, SymbolsAre
    <3>5. Symbols[b].chain \in Seq(DOMAIN Symbols) /\ Symbols[b].methods \in Seq(MethodSlot)
      BY <3>3 DEF IsSymbol
    <3>. HIDE DEF b
    <3>. QED BY <2>2, <3>1, <3>4, <3>5, BuiltinOwned, SymbolOver
  <2>3. CASE c \in ClassNames(Classes)
    <3>1. PICK k \in DOMAIN Classes : c = Classes[k].name
      BY <2>3 DEF ClassNames
    <3> DEFINE b == Classes[k].base
    <3>2. /\ b \in DOMAIN Symbols
          /\ Symbols[c] = Symbol(c, Symbols[b], b, Constructors(Classes[k]), Methods(Classes[k]))
      BY <3>1, SymbolsAre DEF UserSymbol
    <3>3. Symbols[c].chain = <<c>> \o Symbols[b].chain
      BY <3>2 DEF Symbol
    <3>4. IsSymbol(b)
      BY <1>1, <3>2, <3>3, SymbolsAre, ChainGrows
    <3>5. Symbols[b].chain \in Seq(DOMAIN Symbols) /\ Symbols[b].methods \in Seq(MethodSlot)
      BY <3>4 DEF IsSymbol
    <3>6. c \notin BuiltinClass
      BY <3>1, ClassFacts
    <3>7. Constructors(Classes[k]) \in Seq(Seq(DOMAIN Symbols)) /\ Owned(c, Methods(Classes[k])) \in Seq(MethodSlot)
      BY <3>1, DeclaredOwned
    <3>. HIDE DEF b
    <3>. QED BY <3>2, <3>5, <3>6, <3>7, SymbolOver
  <2>. QED BY <2>1, <2>2, <2>3, SymbolsAre
<1>2. S \in SUBSET DOMAIN Symbols
  OBVIOUS
<1>3. \A c \in DOMAIN Symbols :
        (\A d \in DOMAIN Symbols : Len(Symbols[d].chain) < Len(Symbols[c].chain) => d \in S) => c \in S
  BY <1>1
<1>. HIDE DEF S
<1>4. \A c \in DOMAIN Symbols : c \in S
  BY <1>2, <1>3, BaseFirst
<1>. QED BY <1>4 DEF S

\* What inference may give.
Outcome == DOMAIN Symbols \cup {Unknown, "throws", "aborts"}

LEMMA OutcomeFacts ==
  ASSUME program \in DOMAIN Inputs
  PROVE  /\ \A t \in Outcome : IsType(t) \/ t = "throws" \/ t = "aborts"
         /\ \A t \in Outcome : t # "none"
         /\ ~IsType("throws") /\ ~IsType("aborts") /\ ~IsType("none") /\ ~IsClass(Unknown)
         /\ \A t : IsType(t) => t \in Outcome
         /\ \A t : IsType(t) <=> IsClass(t) \/ t = Unknown
<1>1. \A t \in {NoType, NoClass, Unknown, "throws", "aborts", "none"} : t \notin DOMAIN Symbols
  BY NotAClassIsNot DEF NotAClass
<1>2. Unknown # "throws" /\ Unknown # "aborts" /\ Unknown # "none"
  BY DEF Unknown
<1>. QED BY <1>1, <1>2 DEF Outcome, IsType, IsClass

-----------------------------------------------------------------------------
(* Overloads.                                                              *)

LEMMA FitsAreFinite ==
  ASSUME program \in DOMAIN Inputs, NEW c \in DOMAIN Symbols, NEW args, NEW name
  PROVE  /\ Len(Symbols[c].ctors) \in Nat /\ Len(Symbols[c].methods) \in Nat
         /\ FittingConstructors(c, args) \in SUBSET (1..Len(Symbols[c].ctors))
         /\ FittingMethods(c, name, args) \in SUBSET (1..Len(Symbols[c].methods))
         /\ DOMAIN Symbols[c].ctors = 1..Len(Symbols[c].ctors)
         /\ DOMAIN Symbols[c].methods = 1..Len(Symbols[c].methods)
<1>1. Symbols[c].ctors \in Seq(Seq(DOMAIN Symbols)) /\ Symbols[c].methods \in Seq(MethodSlot)
  BY SymbolFacts DEF IsSymbol
<1>. QED BY <1>1 DEF FittingConstructors, FittingMethods

LEMMA MethodSlotFacts ==
  ASSUME program \in DOMAIN Inputs, NEW c \in DOMAIN Symbols, NEW k \in DOMAIN Symbols[c].methods
  PROVE  /\ Symbols[c].methods[k].class \in DOMAIN Symbols
         /\ Symbols[c].methods[k].method.params \in Seq(DOMAIN Symbols)
         /\ Symbols[c].methods[k].method.ret \in DOMAIN Symbols \cup {NoType}
         /\ Symbols[c].methods[k].class \in BuiltinClass =>
              /\ Symbols[c].methods[k].at \in DOMAIN BuiltinMethods[Symbols[c].methods[k].class]
              /\ Symbols[c].methods[k].method =
                   BuiltinMethods[Symbols[c].methods[k].class][Symbols[c].methods[k].at]
<1> DEFINE slot == Symbols[c].methods[k]
<1>1. slot \in MethodSlot
  BY SymbolFacts DEF IsSymbol
<1>2. slot.class \in DOMAIN Symbols /\ slot.method \in SymbolMethod
  BY <1>1 DEF MethodSlot
<1>3. slot.class \in BuiltinClass =>
        slot.at \in DOMAIN BuiltinMethods[slot.class] /\ slot.method = BuiltinMethods[slot.class][slot.at]
  BY <1>1 DEF MethodSlot
<1>4. slot.method.params \in Seq(DOMAIN Symbols) /\ slot.method.ret \in DOMAIN Symbols \cup {NoType}
  BY <1>2 DEF SymbolMethod
<1>. QED BY <1>2, <1>3, <1>4

\* A value that has no type fits no parameter.
LEMMA FittingAreClasses ==
  ASSUME program \in DOMAIN Inputs, NEW params \in Seq(DOMAIN Symbols), NEW args,
         IsSubtypeList(args, params), NEW k \in DOMAIN args, DOMAIN args = 1..Len(args)
  PROVE  IsClass(args[k])
<1>1. params[k] \in DOMAIN Symbols /\ IsSubtype(args[k], params[k])
  BY DEF IsSubtypeList
<1>. QED BY <1>1 DEF IsSubtype, IsClass

LEMMA NewFacts ==
  ASSUME program \in DOMAIN Inputs, NEW c \in DOMAIN Symbols, NEW args, DOMAIN args = 1..Len(args)
  PROVE  /\ InferNew(c, args) = c \/ InferNew(c, args) = "throws"
         /\ InferNew(c, args) # "throws" =>
              \E k \in DOMAIN Symbols[c].ctors : FittingConstructors(c, args) = {k}
         /\ \A k \in FittingConstructors(c, args) : \A i \in DOMAIN args : IsClass(args[i])
<1>1. ASSUME InferNew(c, args) # "throws"
      PROVE  \E k \in DOMAIN Symbols[c].ctors : FittingConstructors(c, args) = {k}
  <2> DEFINE F == FittingConstructors(c, args)
             n == Len(Symbols[c].ctors)
  <2>1. F \in SUBSET (1..n) /\ n \in Nat /\ DOMAIN Symbols[c].ctors = 1..n
    BY FitsAreFinite
  <2>2. Cardinality(F) = 1
    BY <1>1 DEF InferNew, ConstructorResolves
  <2>. HIDE DEF F, n
  <2>3. IsFiniteSet(F)
    <3>1. IsFiniteSet(1..n)
      BY <2>1, FS_Interval
    <3>. QED BY <2>1, <3>1, FS_Subset
  <2>4. PICK x : F = {x}
    BY <2>2, <2>3, FS_Singleton
  <2>. QED BY <2>1, <2>4 DEF F
<1>2. ASSUME NEW k \in FittingConstructors(c, args), NEW i \in DOMAIN args PROVE IsClass(args[i])
  <2>1. k \in DOMAIN Symbols[c].ctors /\ IsSubtypeList(args, Symbols[c].ctors[k])
    BY DEF FittingConstructors
  <2>2. Symbols[c].ctors[k] \in Seq(DOMAIN Symbols)
    BY <2>1, SymbolFacts DEF IsSymbol
  <2>. QED BY <2>1, <2>2, FittingAreClasses
<1>3. InferNew(c, args) = c \/ InferNew(c, args) = "throws"
  BY DEF InferNew
<1>. QED BY <1>1, <1>2, <1>3

LEMMA MethodFacts ==
  ASSUME program \in DOMAIN Inputs, NEW o \in DOMAIN Symbols, NEW name, NEW args,
         DOMAIN args = 1..Len(args)
  PROVE  LET fits == FittingMethods(o, name, args)
             m    == CheckedMethod(o, name, args)
         IN  /\ fits = {} => ReturnType(m.method) = "throws"
             /\ fits # {} =>
                  /\ Min(fits) \in fits /\ \A k \in fits : Min(fits) <= k
                  /\ m = Symbols[o].methods[Min(fits)]
                  /\ ReturnType(m.method) \in DOMAIN Symbols
                  /\ \A i \in DOMAIN args : IsClass(args[i])
<1> DEFINE fits == FittingMethods(o, name, args)
           m    == CheckedMethod(o, name, args)
<1>1. fits \in SUBSET DOMAIN Symbols[o].methods /\ fits \in SUBSET Nat
  BY FitsAreFinite
<1>2. ASSUME fits = {} PROVE ReturnType(m.method) = "throws"
  <2>1. m = NoTarget
    BY <1>2 DEF CheckedMethod
  <2>2. m.method.ret = "throws"
    BY <2>1 DEF NoTarget, Method
  <2>. QED BY <2>2 DEF ReturnType, NoType
<1>3. ASSUME fits # {}
      PROVE  /\ Min(fits) \in fits /\ \A k \in fits : Min(fits) <= k
             /\ m = Symbols[o].methods[Min(fits)]
             /\ ReturnType(m.method) \in DOMAIN Symbols
             /\ \A i \in DOMAIN args : IsClass(args[i])
  <2>1. Min(fits) \in fits /\ \A k \in fits : Min(fits) <= k
    <3>. HIDE DEF fits
    <3>. QED BY <1>1, <1>3, LeastNumber
  <2>2. m = Symbols[o].methods[Min(fits)]
    BY <1>3 DEF CheckedMethod
  <2>3. Min(fits) \in DOMAIN Symbols[o].methods
    BY <1>1, <2>1
  <2>4. m.method.ret \in DOMAIN Symbols \cup {NoType} /\ m.method.params \in Seq(DOMAIN Symbols)
    BY <2>2, <2>3, MethodSlotFacts
  <2>5. "Unit" \in DOMAIN Symbols
    BY SymbolsAre DEF BuiltinClass
  <2>6. ReturnType(m.method) \in DOMAIN Symbols
    BY <2>4, <2>5 DEF ReturnType
  <2>7. IsSubtypeList(args, m.method.params)
    BY <2>1, <2>2 DEF FittingMethods
  <2>8. \A i \in DOMAIN args : IsClass(args[i])
    BY <2>4, <2>7, FittingAreClasses
  <2>. QED BY <2>1, <2>2, <2>6, <2>8
<1>. QED BY <1>2, <1>3

LEMMA CallFacts ==
  ASSUME program \in DOMAIN Inputs, NEW o \in DOMAIN Symbols, NEW name, NEW args,
         DOMAIN args = 1..Len(args)
  PROVE  /\ CallOn(o, name, args) \in DOMAIN Symbols \cup {"throws"}
         /\ CallOn(o, name, args) # "throws" => \A i \in DOMAIN args : IsClass(args[i])
         /\ CallOn(o, name, args) # "throws" /\ o # name => FittingMethods(o, name, args) # {}
<1>1. CASE o = name
  <2>1. CallOn(o, name, args) = InferNew(o, args)
    BY <1>1 DEF CallOn
  <2>2. InferNew(o, args) # "throws" => \E k : k \in FittingConstructors(o, args)
    BY NewFacts
  <2>. QED BY <1>1, <2>1, <2>2, NewFacts
<1>2. CASE o # name
  <2>1. CallOn(o, name, args) = ReturnType(CheckedMethod(o, name, args).method)
    BY <1>2 DEF CallOn
  <2>. QED BY <2>1, MethodFacts
<1>. QED BY <1>1, <1>2

-----------------------------------------------------------------------------
(* What a scope shows.                                                     *)

\* No field has anything but a type.
FieldsTyped(fields) == \A c \in DOMAIN Symbols : \A n \in DOMAIN fields[c] : IsType(fields[c][n])

LEMMA ShownFacts ==
  ASSUME program \in DOMAIN Inputs, NEW fields, NEW c \in DOMAIN Symbols
  PROVE  /\ \A n : n \in DOMAIN Shown(fields, c) <=> Declaring(fields, c, n) # {}
         /\ \A n \in DOMAIN Shown(fields, c) :
              \E k \in Declaring(fields, c, n) :
                /\ k = Min(Declaring(fields, c, n))
                /\ Symbols[c].chain[k] \in DOMAIN Symbols
                /\ n \in DOMAIN fields[Symbols[c].chain[k]]
                /\ Shown(fields, c)[n] = fields[Symbols[c].chain[k]][n]
<1> DEFINE chain == Symbols[c].chain
           N     == UNION {DOMAIN fields[chain[k]] : k \in DOMAIN chain}
<1>1. chain \in Seq(DOMAIN Symbols)
  BY SymbolsAre
<1>2. Shown(fields, c) = [n \in N |-> fields[chain[Min(Declaring(fields, c, n))]][n]]
  BY DEF Shown
<1>3. \A n : n \in N <=> Declaring(fields, c, n) # {}
  BY DEF Declaring
<1>. HIDE DEF N
<1>4. ASSUME NEW n \in N
      PROVE  /\ Min(Declaring(fields, c, n)) \in Declaring(fields, c, n)
             /\ chain[Min(Declaring(fields, c, n))] \in DOMAIN Symbols
             /\ n \in DOMAIN fields[chain[Min(Declaring(fields, c, n))]]
  <2> DEFINE D == Declaring(fields, c, n)
  <2>1. D \in SUBSET Nat /\ D \in SUBSET DOMAIN chain
    BY <1>1 DEF Declaring
  <2>2. Min(D) \in D
    <3>1. D # {}
      BY <1>3
    <3>. HIDE DEF D
    <3>. QED BY <2>1, <3>1, LeastNumber
  <2>3. n \in DOMAIN fields[chain[Min(D)]]
    BY <2>2 DEF Declaring
  <2>. QED BY <1>1, <2>1, <2>2, <2>3
<1>. QED BY <1>2, <1>3, <1>4

LEMMA ShownTyped ==
  ASSUME program \in DOMAIN Inputs, NEW fields, FieldsTyped(fields), NEW c \in DOMAIN Symbols
  PROVE  \A n \in DOMAIN Shown(fields, c) : IsType(Shown(fields, c)[n])
BY ShownFacts DEF FieldsTyped

LEMMA FirstFailureFacts ==
  ASSUME program \in DOMAIN Inputs, NEW results, NEW n \in Nat, DOMAIN results = 1..n,
         \A k \in 1..n : results[k] \in Outcome
  PROVE  /\ FirstFailure(results) = "none" <=> \A k \in 1..n : IsType(results[k])
         /\ FirstFailure(results) # "none" =>
              /\ \E k \in 1..n : results[k] = FirstFailure(results)
              /\ FirstFailure(results) \in Outcome /\ ~IsType(FirstFailure(results))
<1> DEFINE bad == {k \in DOMAIN results : ~IsType(results[k])}
<1>1. CASE bad = {}
  BY <1>1 DEF FirstFailure
<1>2. CASE bad # {}
  <2>1. bad \in SUBSET Nat
    OBVIOUS
  <2>2. Min(bad) \in bad
    <3>. HIDE DEF bad
    <3>. QED BY <1>2, <2>1, LeastNumber
  <2>3. FirstFailure(results) = results[Min(bad)]
    BY <1>2 DEF FirstFailure
  <2>4. Min(bad) \in 1..n /\ ~IsType(results[Min(bad)]) /\ results[Min(bad)] \in Outcome
    BY <2>2
  <2>5. results[Min(bad)] # "none"
    BY <2>4, OutcomeFacts
  <2>. QED BY <2>3, <2>4, <2>5
<1>. QED BY <1>1, <1>2

-----------------------------------------------------------------------------
(* Expressions and their parts.                                            *)

LEMMA PartsFacts ==
  ASSUME program \in DOMAIN Inputs, NEW e \in Expression
  PROVE  /\ PartsOf(e) \in Seq(Expression)
         /\ \A k \in DOMAIN PartsOf(e) : Input.depth[PartsOf(e)[k]] < Input.depth[e]
         /\ e.op \in {"literal", "this", "name", "member", "call"}
         /\ e.op = "literal" => e.type \in BuiltinClass
         /\ e.op = "member" => Len(PartsOf(e)) = 1
         /\ e.op = "call" /\ ~IsNewCall(e) => Len(PartsOf(e)) >= 1
<1>1. IsInput(Input) /\ Expression = DOMAIN Input.depth
  BY InputFacts DEF Expression
<1>2. IsTree(e, Input.depth)
  BY <1>1 DEF IsInput
<1>3. e.op \in {"literal", "this", "name", "member", "call"}
      /\ (e.op = "literal" => e.type \in {"Integer", "Real", "Boolean"})
  BY <1>2 DEF IsTree
<1>4. CASE e.op \notin {"member", "call"}
  <2>1. PartsOf(e) = <<>> \o <<>>
    BY <1>4 DEF PartsOf
  <2>2. PartsOf(e) = <<>>
    BY <2>1
  <2>. QED BY <1>3, <1>4, <2>2 DEF BuiltinClass
<1>5. CASE e.op = "member"
  <2>1. PartsOf(e) = <<>> \o <<e.object>>
    BY <1>5 DEF PartsOf
  <2>2. e.object \in Expression /\ Input.depth[e.object] < Input.depth[e]
    BY <1>1, <1>2, <1>5 DEF IsTree
  <2>3. PartsOf(e) = <<e.object>>
    BY <2>1
  <2>. QED BY <1>3, <1>5, <2>2, <2>3
<1>6. CASE e.op = "call"
  <2>1. /\ e.object \in Expression /\ Input.depth[e.object] < Input.depth[e]
        /\ e.args \in Seq(Expression)
        /\ \A k \in DOMAIN e.args : Input.depth[e.args[k]] < Input.depth[e]
    BY <1>1, <1>2, <1>6 DEF IsTree
  <2>2. CASE IsNewCall(e)
    <3>1. PartsOf(e) = e.args \o <<>>
      BY <1>6, <2>2 DEF PartsOf
    <3>2. PartsOf(e) = e.args
      BY <2>1, <3>1
    <3>. QED BY <1>3, <1>6, <2>1, <2>2, <3>2
  <2>3. CASE ~IsNewCall(e)
    <3>1. PartsOf(e) = e.args \o <<e.object>>
      BY <1>6, <2>3 DEF PartsOf
    <3>2. PartsOf(e) \in Seq(Expression) /\ Len(PartsOf(e)) = Len(e.args) + 1
      BY <2>1, <3>1
    <3>3. \A k \in DOMAIN PartsOf(e) :
            PartsOf(e)[k] = IF k \in DOMAIN e.args THEN e.args[k] ELSE e.object
      BY <2>1, <3>1
    <3>. QED BY <1>3, <1>6, <2>1, <2>3, <3>2, <3>3
  <2>. QED BY <2>2, <2>3
<1>. QED BY <1>3, <1>4, <1>5, <1>6

\* A fact about expressions holds if it holds of each whose parts it holds of.
LEMMA PartsFirst ==
  ASSUME program \in DOMAIN Inputs, NEW S,
         \A e \in Expression : (\A k \in DOMAIN PartsOf(e) : PartsOf(e)[k] \in S) => e \in S
  PROVE  \A e \in Expression : e \in S
<1> DEFINE T == {Input.depth[e] : e \in {e \in Expression : e \notin S}}
<1>1. \A e \in Expression : Input.depth[e] \in Nat
  BY InputFacts DEF IsInput, Expression
<1>2. T \in SUBSET Nat
  BY <1>1
<1>3. \A e \in Expression : e \notin S => Input.depth[e] \in T
  OBVIOUS
<1>4. ASSUME T # {} PROVE FALSE
  <2>1. PICK m \in T : \A k \in T : m <= k
    <3>. HIDE DEF T
    <3>. QED BY <1>2, <1>4, LeastNumber
  <2>2. PICK e \in Expression : e \notin S /\ m = Input.depth[e]
    OBVIOUS
  <2>. HIDE DEF T
  <2>3. \A d \in Expression : d \notin S => Input.depth[e] <= Input.depth[d]
    BY <1>3, <2>1, <2>2
  <2>4. \A k \in DOMAIN PartsOf(e) : PartsOf(e)[k] \in Expression
                                     /\ Input.depth[PartsOf(e)[k]] < Input.depth[e]
    BY PartsFacts
  <2>5. \A k \in DOMAIN PartsOf(e) : PartsOf(e)[k] \in S
    BY <1>1, <2>3, <2>4
  <2>. QED BY <2>2, <2>5
<1>. QED BY <1>3, <1>4

-----------------------------------------------------------------------------
(* The recursion over parts defines a function: so far as trees of n       *)
(* levels go there is one, and the one for n + 1 levels extends it.        *)

Shallow(n) == {e \in Expression : Input.depth[e] < n}
TypesUpTo(f, n, s) ==
  f = [e \in Shallow(n) |-> TypeFrom(e, [k \in DOMAIN PartsOf(e) |-> f[PartsOf(e)[k]]], s)]

LEMMA ShallowParts ==
  ASSUME program \in DOMAIN Inputs, NEW n \in Nat, NEW e \in Shallow(n + 1)
  PROVE  \A k \in DOMAIN PartsOf(e) : PartsOf(e)[k] \in Shallow(n)
<1>1. \A d \in Expression : Input.depth[d] \in Nat
  BY InputFacts DEF IsInput, Expression
<1>2. e \in Expression /\ Input.depth[e] < n + 1
  BY DEF Shallow
<1>3. \A k \in DOMAIN PartsOf(e) :
        PartsOf(e)[k] \in Expression /\ Input.depth[PartsOf(e)[k]] < Input.depth[e]
  BY <1>2, PartsFacts
<1>. QED BY <1>1, <1>2, <1>3 DEF Shallow

LEMMA TypesUpToGrow ==
  ASSUME program \in DOMAIN Inputs, NEW s, NEW n \in Nat, NEW f, NEW g,
         TypesUpTo(f, n, s),
         g = [e \in Shallow(n + 1) |->
                TypeFrom(e, [k \in DOMAIN PartsOf(e) |-> f[PartsOf(e)[k]]], s)]
  PROVE  TypesUpTo(g, n + 1, s) /\ \A e \in Shallow(n) : e \in Shallow(n + 1) /\ g[e] = f[e]
<1>1. \A e \in Shallow(n) : e \in Shallow(n + 1)
  <2>1. \A d \in Expression : Input.depth[d] \in Nat
    BY InputFacts DEF IsInput, Expression
  <2>. QED BY <2>1 DEF Shallow
<1>2. ASSUME NEW e \in Shallow(n) PROVE g[e] = f[e]
  <2>1. f[e] = TypeFrom(e, [k \in DOMAIN PartsOf(e) |-> f[PartsOf(e)[k]]], s)
    BY DEF TypesUpTo
  <2>. QED BY <1>1, <2>1
<1>3. ASSUME NEW e \in Shallow(n + 1)
      PROVE  g[e] = TypeFrom(e, [k \in DOMAIN PartsOf(e) |-> g[PartsOf(e)[k]]], s)
  <2>1. [k \in DOMAIN PartsOf(e) |-> g[PartsOf(e)[k]]] = [k \in DOMAIN PartsOf(e) |-> f[PartsOf(e)[k]]]
    BY <1>2, ShallowParts
  <2>. QED BY <2>1
<1>4. g = [e \in Shallow(n + 1) |-> TypeFrom(e, [k \in DOMAIN PartsOf(e) |-> g[PartsOf(e)[k]]], s)]
  BY <1>3
<1>. QED BY <1>1, <1>2, <1>4 DEF TypesUpTo

LEMMA TypesUpToExist ==
  ASSUME program \in DOMAIN Inputs, NEW s
  PROVE  \A n \in Nat : \E f : TypesUpTo(f, n, s)
<1> DEFINE S == {n \in Nat : ~\E f : TypesUpTo(f, n, s)}
<1>1. ASSUME S # {} PROVE FALSE
  <2>1. PICK n \in S : \A k \in S : n <= k
    <3>1. S \in SUBSET Nat
      OBVIOUS
    <3>. HIDE DEF S
    <3>. QED BY <1>1, <3>1, LeastNumber
  <2>2. n \in Nat /\ ~\E f : TypesUpTo(f, n, s)
    OBVIOUS
  <2>3. CASE n = 0
    <3> DEFINE f == [e \in {} |-> 0]
    <3>1. Shallow(0) = {}
      BY InputFacts DEF IsInput, Expression, Shallow
    <3>2. TypesUpTo(f, 0, s)
      BY <3>1 DEF TypesUpTo
    <3>. QED BY <2>2, <2>3, <3>2
  <2>4. CASE n > 0
    <3>1. n - 1 \in Nat /\ n - 1 \notin S /\ (n - 1) + 1 = n
      BY <2>1, <2>2, <2>4
    <3>2. PICK f : TypesUpTo(f, n - 1, s)
      BY <3>1
    <3>3. \E g : g = [e \in Shallow((n - 1) + 1) |->
                        TypeFrom(e, [k \in DOMAIN PartsOf(e) |-> f[PartsOf(e)[k]]], s)]
      OBVIOUS
    <3>. QED BY <2>2, <3>1, <3>2, <3>3, TypesUpToGrow
  <2>. QED BY <2>2, <2>3, <2>4
<1>. QED BY <1>1

LEMMA TypesUpToAgree ==
  ASSUME program \in DOMAIN Inputs, NEW s, NEW m \in Nat, NEW n \in Nat, NEW f, NEW g,
         TypesUpTo(f, m, s), TypesUpTo(g, n, s)
  PROVE  \A e \in Shallow(m) \cap Shallow(n) : f[e] = g[e]
<1> DEFINE S == {e \in Expression : e \in Shallow(m) \cap Shallow(n) => f[e] = g[e]}
<1>1. ASSUME NEW e \in Expression, \A k \in DOMAIN PartsOf(e) : PartsOf(e)[k] \in S,
             e \in Shallow(m) \cap Shallow(n)
      PROVE  f[e] = g[e]
  <2>1. \A d \in Expression : Input.depth[d] \in Nat
    BY InputFacts DEF IsInput, Expression
  <2>2. \A k \in DOMAIN PartsOf(e) : PartsOf(e)[k] \in Shallow(m) \cap Shallow(n)
    BY <1>1, <2>1, PartsFacts DEF Shallow
  <2>3. \A k \in DOMAIN PartsOf(e) : f[PartsOf(e)[k]] = g[PartsOf(e)[k]]
    BY <1>1, <2>2
  <2>4. /\ f[e] = TypeFrom(e, [k \in DOMAIN PartsOf(e) |-> f[PartsOf(e)[k]]], s)
        /\ g[e] = TypeFrom(e, [k \in DOMAIN PartsOf(e) |-> g[PartsOf(e)[k]]], s)
    BY <1>1 DEF TypesUpTo
  <2>5. [k \in DOMAIN PartsOf(e) |-> f[PartsOf(e)[k]]] = [k \in DOMAIN PartsOf(e) |-> g[PartsOf(e)[k]]]
    BY <2>3
  <2>. QED BY <2>4, <2>5
<1>2. \A e \in Expression : (\A k \in DOMAIN PartsOf(e) : PartsOf(e)[k] \in S) => e \in S
  BY <1>1
<1>. HIDE DEF S
<1>3. \A e \in Expression : e \in S
  BY <1>2, PartsFirst
<1>. QED BY <1>3 DEF S, Shallow

LEMMA InferDef ==
  ASSUME program \in DOMAIN Inputs, NEW s
  PROVE  \A e \in Expression : Infer(e, s) = TypeFrom(e, InferAll(PartsOf(e), s), s)
<1> DEFINE D(f, e) == TypeFrom(e, [k \in DOMAIN PartsOf(e) |-> f[PartsOf(e)[k]]], s)
           upto(n) == CHOOSE f : TypesUpTo(f, n, s)
           h       == [e \in Expression |-> upto(Input.depth[e] + 1)[e]]
           type    == CHOOSE f : f = [e \in Expression |-> D(f, e)]
<1>1. \A e \in Expression : Input.depth[e] \in Nat
  BY InputFacts DEF IsInput, Expression
<1>2. \A n \in Nat : TypesUpTo(upto(n), n, s)
  BY TypesUpToExist
<1>3. ASSUME NEW e \in Expression PROVE h[e] = D(h, e)
  <2> DEFINE n == Input.depth[e] + 1
             f == upto(n)
  <2>1. n \in Nat /\ e \in Shallow(n) /\ TypesUpTo(f, n, s)
    BY <1>1, <1>2 DEF Shallow
  <2>2. f[e] = D(f, e)
    BY <2>1 DEF TypesUpTo
  <2>3. ASSUME NEW k \in DOMAIN PartsOf(e) PROVE h[PartsOf(e)[k]] = f[PartsOf(e)[k]]
    <3> DEFINE d == PartsOf(e)[k]
    <3>1. d \in Expression /\ Input.depth[d] < Input.depth[e]
      BY PartsFacts
    <3>2. d \in Shallow(n) /\ d \in Shallow(Input.depth[d] + 1) /\ Input.depth[d] + 1 \in Nat
      BY <1>1, <3>1 DEF Shallow
    <3>3. TypesUpTo(upto(Input.depth[d] + 1), Input.depth[d] + 1, s)
      BY <1>2, <3>2
    <3>4. h[d] = upto(Input.depth[d] + 1)[d]
      BY <3>1
    <3>. HIDE DEF d, h, f, n, upto
    <3>5. upto(Input.depth[d] + 1)[d] = f[d]
      BY <2>1, <3>2, <3>3, TypesUpToAgree
    <3>. QED BY <3>4, <3>5 DEF d
  <2>4. [k \in DOMAIN PartsOf(e) |-> h[PartsOf(e)[k]]] = [k \in DOMAIN PartsOf(e) |-> f[PartsOf(e)[k]]]
    <3>. HIDE DEF h, f
    <3>. QED BY <2>3
  <2>5. D(h, e) = D(f, e)
    <3>. HIDE DEF h, f
    <3>. QED BY <2>4
  <2>6. h[e] = f[e]
    <3>. HIDE DEF upto
    <3>. QED OBVIOUS
  <2>. QED BY <2>2, <2>5, <2>6
<1>4. h = [e \in Expression |-> D(h, e)]
  <2>1. DOMAIN h = Expression /\ h = [e \in Expression |-> h[e]]
    <3>. HIDE DEF upto
    <3>. QED OBVIOUS
  <2>. HIDE DEF h
  <2>. QED BY <1>3, <2>1
<1>5. type = [e \in Expression |-> D(type, e)]
  <2>. HIDE DEF h
  <2>. QED BY <1>4
<1>6. \A e : Infer(e, s) = type[e]
  BY DEF Infer
<1>. HIDE DEF type, h, upto
<1>7. ASSUME NEW e \in Expression PROVE Infer(e, s) = TypeFrom(e, InferAll(PartsOf(e), s), s)
  <2>1. type[e] = D(type, e)
    BY <1>5
  <2>2. [k \in DOMAIN PartsOf(e) |-> type[PartsOf(e)[k]]] = InferAll(PartsOf(e), s)
    BY <1>6 DEF InferAll
  <2>. QED BY <1>6, <2>1, <2>2
<1>. QED BY <1>7

-----------------------------------------------------------------------------
(* The calls inside an expression, in the same way.                        *)

CallsUpTo(f, n) ==
  f = [e \in Shallow(n) |->
         (IF e.op = "call" THEN {e} ELSE {}) \cup UNION {f[part] : part \in Range(PartsOf(e))}]

LEMMA PartsInRange ==
  ASSUME program \in DOMAIN Inputs, NEW e \in Expression
  PROVE  \A part \in Range(PartsOf(e)) : \E k \in DOMAIN PartsOf(e) : part = PartsOf(e)[k]
BY DEF Range

LEMMA CallsUpToExist ==
  ASSUME program \in DOMAIN Inputs
  PROVE  \A n \in Nat : \E f : CallsUpTo(f, n)
<1> DEFINE S == {n \in Nat : ~\E f : CallsUpTo(f, n)}
           C(f, e) == (IF e.op = "call" THEN {e} ELSE {}) \cup
                        UNION {f[part] : part \in Range(PartsOf(e))}
<1>1. ASSUME S # {} PROVE FALSE
  <2>1. PICK n \in S : \A k \in S : n <= k
    <3>1. S \in SUBSET Nat
      OBVIOUS
    <3>. HIDE DEF S
    <3>. QED BY <1>1, <3>1, LeastNumber
  <2>2. n \in Nat /\ ~\E f : CallsUpTo(f, n)
    OBVIOUS
  <2>3. CASE n = 0
    <3> DEFINE f == [e \in {} |-> 0]
    <3>1. Shallow(0) = {}
      BY InputFacts DEF IsInput, Expression, Shallow
    <3>2. CallsUpTo(f, 0)
      BY <3>1 DEF CallsUpTo
    <3>. QED BY <2>2, <2>3, <3>2
  <2>4. CASE n > 0
    <3>1. n - 1 \in Nat /\ n - 1 \notin S /\ (n - 1) + 1 = n
      BY <2>1, <2>2, <2>4
    <3>2. PICK f : CallsUpTo(f, n - 1)
      BY <3>1
    <3> DEFINE g == [e \in Shallow(n) |-> C(f, e)]
    <3>3. \A e \in Shallow(n) : e \in Expression /\
            \A part \in Range(PartsOf(e)) : part \in Shallow(n - 1) /\ part \in Shallow(n)
      <4>1. \A d \in Expression : Input.depth[d] \in Nat
        BY InputFacts DEF IsInput, Expression
      <4>2. Shallow(n - 1) \subseteq Shallow(n) /\ Shallow(n) \subseteq Expression
        BY <2>2, <4>1 DEF Shallow
      <4>. QED BY <3>1, <4>2, ShallowParts, PartsInRange
    <3>4. \A e \in Shallow(n - 1) : f[e] = C(f, e)
      BY <3>2 DEF CallsUpTo
    <3>5. \A e \in Shallow(n) : \A part \in Range(PartsOf(e)) : g[part] = f[part]
      BY <3>3, <3>4
    <3>6. \A e \in Shallow(n) : g[e] = C(g, e)
      BY <3>5
    <3>7. g = [e \in Shallow(n) |-> C(g, e)]
      BY <3>6
    <3>. QED BY <2>2, <3>7 DEF CallsUpTo
  <2>. QED BY <2>2, <2>3, <2>4
<1>. QED BY <1>1

LEMMA CallsUpToAgree ==
  ASSUME program \in DOMAIN Inputs, NEW m \in Nat, NEW n \in Nat, NEW f, NEW g,
         CallsUpTo(f, m), CallsUpTo(g, n)
  PROVE  \A e \in Shallow(m) \cap Shallow(n) : f[e] = g[e]
<1> DEFINE S == {e \in Expression : e \in Shallow(m) \cap Shallow(n) => f[e] = g[e]}
           C(h, e) == (IF e.op = "call" THEN {e} ELSE {}) \cup
                        UNION {h[part] : part \in Range(PartsOf(e))}
<1>1. ASSUME NEW e \in Expression, \A k \in DOMAIN PartsOf(e) : PartsOf(e)[k] \in S,
             e \in Shallow(m) \cap Shallow(n)
      PROVE  f[e] = g[e]
  <2>1. \A d \in Expression : Input.depth[d] \in Nat
    BY InputFacts DEF IsInput, Expression
  <2>2. \A k \in DOMAIN PartsOf(e) : PartsOf(e)[k] \in Shallow(m) \cap Shallow(n)
    BY <1>1, <2>1, PartsFacts DEF Shallow
  <2>3. \A part \in Range(PartsOf(e)) : f[part] = g[part]
    BY <1>1, <2>2, PartsInRange
  <2>4. f[e] = C(f, e) /\ g[e] = C(g, e)
    BY <1>1 DEF CallsUpTo
  <2>. QED BY <2>3, <2>4
<1>2. \A e \in Expression : (\A k \in DOMAIN PartsOf(e) : PartsOf(e)[k] \in S) => e \in S
  BY <1>1
<1>. HIDE DEF S
<1>3. \A e \in Expression : e \in S
  BY <1>2, PartsFirst
<1>. QED BY <1>3 DEF S, Shallow

LEMMA CallsInDef ==
  ASSUME program \in DOMAIN Inputs
  PROVE  \A e \in Expression :
           CallsIn(e) = (IF e.op = "call" THEN {e} ELSE {}) \cup
                          UNION {CallsIn(part) : part \in Range(PartsOf(e))}
<1> DEFINE C(f, e) == (IF e.op = "call" THEN {e} ELSE {}) \cup
                        UNION {f[part] : part \in Range(PartsOf(e))}
           upto(n) == CHOOSE f : CallsUpTo(f, n)
           h       == [e \in Expression |-> upto(Input.depth[e] + 1)[e]]
           calls   == CHOOSE f : f = [e \in Expression |-> C(f, e)]
<1>1. \A e \in Expression : Input.depth[e] \in Nat
  BY InputFacts DEF IsInput, Expression
<1>2. \A n \in Nat : CallsUpTo(upto(n), n)
  BY CallsUpToExist
<1>3. ASSUME NEW e \in Expression PROVE h[e] = C(h, e)
  <2> DEFINE n == Input.depth[e] + 1
             f == upto(n)
  <2>1. n \in Nat /\ e \in Shallow(n) /\ CallsUpTo(f, n)
    BY <1>1, <1>2 DEF Shallow
  <2>2. f[e] = C(f, e)
    BY <2>1 DEF CallsUpTo
  <2>3. ASSUME NEW d \in Range(PartsOf(e)) PROVE h[d] = f[d]
    <3>1. d \in Expression /\ Input.depth[d] < Input.depth[e]
      BY PartsFacts, PartsInRange
    <3>2. d \in Shallow(n) /\ d \in Shallow(Input.depth[d] + 1) /\ Input.depth[d] + 1 \in Nat
      BY <1>1, <3>1 DEF Shallow
    <3>3. CallsUpTo(upto(Input.depth[d] + 1), Input.depth[d] + 1)
      BY <1>2, <3>2
    <3>4. h[d] = upto(Input.depth[d] + 1)[d]
      BY <3>1
    <3>. HIDE DEF h, f, n, upto
    <3>5. upto(Input.depth[d] + 1)[d] = f[d]
      BY <2>1, <3>2, <3>3, CallsUpToAgree
    <3>. QED BY <3>4, <3>5
  <2>4. C(h, e) = C(f, e)
    <3>. HIDE DEF h, f
    <3>. QED BY <2>3
  <2>5. h[e] = f[e]
    <3>. HIDE DEF upto
    <3>. QED OBVIOUS
  <2>. QED BY <2>2, <2>4, <2>5
<1>4. h = [e \in Expression |-> C(h, e)]
  <2>1. h = [e \in Expression |-> h[e]]
    <3>. HIDE DEF upto
    <3>. QED OBVIOUS
  <2>. HIDE DEF h
  <2>. QED BY <1>3, <2>1
<1>5. calls = [e \in Expression |-> C(calls, e)]
  <2>. HIDE DEF h
  <2>. QED BY <1>4
<1>6. \A e : CallsIn(e) = calls[e]
  BY DEF CallsIn
<1>. HIDE DEF calls, h, upto
<1>. QED BY <1>5, <1>6

-----------------------------------------------------------------------------
(* What inference gives, case by case.                                     *)

LEMMA TypeFromFacts ==
  ASSUME NEW e, NEW types, NEW s
  PROVE  /\ FirstFailure(types) # "none" => TypeFrom(e, types, s) = FirstFailure(types)
         /\ FirstFailure(types) = "none" =>
              /\ e.op = "literal" => TypeFrom(e, types, s) = e.type
              /\ e.op = "this" => TypeFrom(e, types, s) = s.cls
              /\ e.op = "name" => TypeFrom(e, types, s) =
                   IF e.name \in DOMAIN s.variables THEN s.variables[e.name] ELSE "throws"
              /\ e.op = "member" \/ (e.op = "call" /\ ~IsNewCall(e)) =>
                   TypeFrom(e, types, s) = OnObject(e, Last(types), Front(types), s)
              /\ e.op = "call" /\ IsNewCall(e) => TypeFrom(e, types, s) =
                   IF ClassVisible(e.name, s) THEN InferNew(e.name, types) ELSE "throws"
<1>1. FirstFailure(types) # "none" => TypeFrom(e, types, s) = FirstFailure(types)
  BY Zenon DEF TypeFrom
<1>2. FirstFailure(types) = "none" /\ e.op = "literal" => TypeFrom(e, types, s) = e.type
  BY Zenon DEF TypeFrom
<1>3. FirstFailure(types) = "none" /\ e.op = "this" => TypeFrom(e, types, s) = s.cls
  BY Zenon DEF TypeFrom
<1>4. FirstFailure(types) = "none" /\ e.op = "name" => TypeFrom(e, types, s) =
        IF e.name \in DOMAIN s.variables THEN s.variables[e.name] ELSE "throws"
  BY Zenon DEF TypeFrom
<1>5. e.op \in {"member", "call"} => e.op \notin {"literal", "this", "name"}
  OBVIOUS
<1>6. FirstFailure(types) = "none" /\ e.op \in {"member", "call"} =>
        TypeFrom(e, types, s) =
          IF ~(e.op = "call" /\ IsNewCall(e)) THEN OnObject(e, Last(types), Front(types), s)
          ELSE IF ClassVisible(e.name, s) THEN InferNew(e.name, types) ELSE "throws"
  BY <1>5, Zenon DEF TypeFrom
<1>7. "member" # "call"
  OBVIOUS
<1>8. FirstFailure(types) = "none" /\ (e.op = "member" \/ (e.op = "call" /\ ~IsNewCall(e))) =>
        TypeFrom(e, types, s) = OnObject(e, Last(types), Front(types), s)
  BY <1>6, <1>7, Zenon
<1>9. FirstFailure(types) = "none" /\ e.op = "call" /\ IsNewCall(e) =>
        TypeFrom(e, types, s) = IF ClassVisible(e.name, s) THEN InferNew(e.name, types) ELSE "throws"
  BY <1>6, Zenon
<1>. QED BY <1>1, <1>2, <1>3, <1>4, <1>8, <1>9, Zenon

LEMMA OnObjectFacts ==
  ASSUME NEW e, NEW o, NEW args, NEW s
  PROVE  /\ o = Unknown => OnObject(e, o, args, s) = "throws"
         /\ o # Unknown /\ Hidden(o, s) => OnObject(e, o, args, s) = "aborts"
         /\ o # Unknown /\ ~Hidden(o, s) =>
              /\ e.op = "member" => OnObject(e, o, args, s) = FieldOf(o, e.name, s)
              /\ e.op # "member" => OnObject(e, o, args, s) = CallOn(o, e.name, args)
BY Zenon DEF OnObject

-----------------------------------------------------------------------------
(* The scopes that inference works in.                                     *)

\* A scope shows only what has a type, though it may be Unknown.
IsScope(s) ==
  /\ s.cls \in DOMAIN Symbols
  /\ \A n \in DOMAIN s.variables : IsType(s.variables[n])
  /\ FieldsTyped(s.fields)

\* The types of the parts of an expression, if they are known to be outcomes.
LEMMA PartTypes ==
  ASSUME program \in DOMAIN Inputs, NEW s, NEW e \in Expression,
         \A k \in DOMAIN PartsOf(e) : Infer(PartsOf(e)[k], s) \in Outcome
  PROVE  LET types == InferAll(PartsOf(e), s)
             n     == Len(PartsOf(e))
         IN  /\ n \in Nat /\ DOMAIN PartsOf(e) = 1..n
             /\ DOMAIN types = 1..n /\ types \in Seq(Outcome) /\ Len(types) = n
             /\ \A k \in 1..n : types[k] = Infer(PartsOf(e)[k], s) /\ types[k] \in Outcome
             /\ FirstFailure(types) = "none" <=> \A k \in 1..n : IsType(types[k])
             /\ FirstFailure(types) # "none" =>
                  /\ \E k \in 1..n : types[k] = FirstFailure(types)
                  /\ FirstFailure(types) \in Outcome /\ ~IsType(FirstFailure(types))
             /\ n >= 1 => Last(types) = types[n]
             /\ n >= 1 => Front(types) \in Seq(Outcome) /\ Len(Front(types)) = n - 1
                          /\ DOMAIN Front(types) = 1..Len(Front(types))
                          /\ \A k \in 1..n - 1 : Front(types)[k] = types[k]
<1> DEFINE types == InferAll(PartsOf(e), s)
           n     == Len(PartsOf(e))
<1>1. n \in Nat /\ DOMAIN PartsOf(e) = 1..n
  BY PartsFacts
<1>2. types = [k \in 1..n |-> Infer(PartsOf(e)[k], s)]
  BY <1>1 DEF InferAll
<1>3. \A k \in 1..n : types[k] = Infer(PartsOf(e)[k], s) /\ types[k] \in Outcome
  BY <1>1, <1>2
<1>4. DOMAIN types = 1..n /\ types \in Seq(Outcome) /\ Len(types) = n
  BY <1>1, <1>2, <1>3
<1>. HIDE DEF types, n
<1>5. n >= 1 => Last(types) = types[n]
  BY <1>4 DEF Last
<1>6. n >= 1 => Front(types) \in Seq(Outcome) /\ Len(Front(types)) = n - 1
                /\ DOMAIN Front(types) = 1..Len(Front(types))
                /\ \A k \in 1..n - 1 : Front(types)[k] = types[k]
  BY <1>1, <1>4 DEF Front
<1>7. /\ FirstFailure(types) = "none" <=> \A k \in 1..n : IsType(types[k])
      /\ FirstFailure(types) # "none" =>
           /\ \E k \in 1..n : types[k] = FirstFailure(types)
           /\ FirstFailure(types) \in Outcome /\ ~IsType(FirstFailure(types))
  BY <1>1, <1>3, <1>4, FirstFailureFacts
<1>. QED BY <1>1, <1>3, <1>4, <1>5, <1>6, <1>7 DEF types, n

LEMMA InferOutcome ==
  ASSUME program \in DOMAIN Inputs, NEW s, IsScope(s)
  PROVE  \A e \in Expression : Infer(e, s) \in Outcome /\
           (Infer(e, s) = "aborts" => ShadowsClass(s.variables))
<1> DEFINE S == {e \in Expression : Infer(e, s) \in Outcome /\
                   (Infer(e, s) = "aborts" => ShadowsClass(s.variables))}
<1>1. ASSUME NEW e \in Expression, \A k \in DOMAIN PartsOf(e) : PartsOf(e)[k] \in S
      PROVE  Infer(e, s) \in Outcome /\ (Infer(e, s) = "aborts" => ShadowsClass(s.variables))
  <2> DEFINE types == InferAll(PartsOf(e), s)
             n     == Len(PartsOf(e))
  <2>1. Infer(e, s) = TypeFrom(e, types, s)
    BY InferDef
  <2>2. \A k \in DOMAIN PartsOf(e) : Infer(PartsOf(e)[k], s) \in Outcome
    BY <1>1
  <2>3. /\ n \in Nat /\ DOMAIN PartsOf(e) = 1..n /\ DOMAIN types = 1..n /\ Len(types) = n
        /\ \A k \in 1..n : types[k] = Infer(PartsOf(e)[k], s) /\ types[k] \in Outcome
    BY <2>2, PartTypes
  <2>4. CASE FirstFailure(types) # "none"
    <3>1. Infer(e, s) = FirstFailure(types)
      BY <2>1, <2>4, TypeFromFacts
    <3>2. FirstFailure(types) \in Outcome /\ \E k \in 1..n : types[k] = FirstFailure(types)
      BY <2>2, <2>4, PartTypes
    <3>3. \A k \in 1..n : types[k] = "aborts" => ShadowsClass(s.variables)
      BY <1>1, <2>3
    <3>. QED BY <3>1, <3>2, <3>3
  <2>5. CASE FirstFailure(types) = "none"
    <3>1. \A k \in 1..n : IsType(types[k])
      BY <2>2, <2>5, PartTypes
    <3>2. CASE e.op = "literal"
      <4>1. Infer(e, s) = e.type
        BY <2>1, <2>5, <3>2, TypeFromFacts
      <4>2. e.type \in DOMAIN Symbols
        BY <3>2, PartsFacts, SymbolsAre
      <4>. QED BY <4>1, <4>2, NotAClassIsNot DEF Outcome, NotAClass
    <3>3. CASE e.op = "this"
      <4>1. Infer(e, s) = s.cls
        BY <2>1, <2>5, <3>3, TypeFromFacts
      <4>. QED BY <4>1, NotAClassIsNot DEF Outcome, NotAClass, IsScope
    <3>4. CASE e.op = "name"
      <4>1. Infer(e, s) = IF e.name \in DOMAIN s.variables THEN s.variables[e.name] ELSE "throws"
        BY <2>1, <2>5, <3>4, TypeFromFacts
      <4>2. e.name \in DOMAIN s.variables => IsType(s.variables[e.name])
        BY DEF IsScope
      <4>. QED BY <4>1, <4>2, OutcomeFacts DEF Outcome
    <3>5. CASE e.op = "member" \/ (e.op = "call" /\ ~IsNewCall(e))
      <4> DEFINE o == Last(types)
      <4>1. Infer(e, s) = OnObject(e, o, Front(types), s)
        BY <2>1, <2>5, <3>5, TypeFromFacts
      <4>2. n >= 1 /\ o = types[n] /\ IsType(o) /\ DOMAIN Front(types) = 1..Len(Front(types))
        <5>1. n >= 1
          BY <2>3, <3>5, PartsFacts
        <5>2. o = types[n] /\ DOMAIN Front(types) = 1..Len(Front(types))
          BY <2>2, <5>1, PartTypes
        <5>. QED BY <2>3, <3>1, <5>1, <5>2
      <4>. HIDE DEF o, types
      <4>3. CASE o = Unknown
        <5>1. Infer(e, s) = "throws"
          BY <4>1, <4>3, OnObjectFacts
        <5>. QED BY <5>1 DEF Outcome
      <4>4. CASE o # Unknown /\ Hidden(o, s)
        <5>1. IsClass(o) /\ o \in DOMAIN s.variables
          BY <4>2, <4>4 DEF IsType, Hidden
        <5>2. ShadowsClass(s.variables)
          BY <5>1 DEF ShadowsClass
        <5>3. Infer(e, s) = "aborts"
          BY <4>1, <4>4, OnObjectFacts
        <5>. QED BY <5>2, <5>3 DEF Outcome
      <4>5. CASE o # Unknown /\ ~Hidden(o, s)
        <5>1. o \in DOMAIN Symbols
          BY <4>2, <4>5 DEF IsType, IsClass
        <5>2. CASE e.op = "member"
          <6>1. Infer(e, s) = FieldOf(o, e.name, s)
            BY <4>1, <4>5, <5>2, OnObjectFacts
          <6>2. IsType(Infer(e, s)) \/ Infer(e, s) = "throws"
            BY <5>1, <6>1, ShownTyped DEF FieldOf, IsScope
          <6>. QED BY <6>2, OutcomeFacts DEF Outcome
        <5>3. CASE e.op # "member"
          <6>1. Infer(e, s) = CallOn(o, e.name, Front(types))
            BY <4>1, <4>5, <5>3, OnObjectFacts
          <6>2. Infer(e, s) \in DOMAIN Symbols \cup {"throws"}
            BY <4>2, <5>1, <6>1, CallFacts
          <6>. QED BY <6>2, NotAClassIsNot DEF Outcome, NotAClass
        <5>. QED BY <5>2, <5>3
      <4>. QED BY <4>3, <4>4, <4>5
    <3>6. CASE e.op = "call" /\ IsNewCall(e)
      <4>1. Infer(e, s) = IF ClassVisible(e.name, s) THEN InferNew(e.name, types) ELSE "throws"
        BY <2>1, <2>5, <3>6, TypeFromFacts
      <4>2. ClassVisible(e.name, s) => e.name \in DOMAIN Symbols
        BY DEF ClassVisible, IsClass
      <4>3. Infer(e, s) \in DOMAIN Symbols \cup {"throws"}
        BY <2>3, <4>1, <4>2, NewFacts
      <4>. QED BY <4>3, NotAClassIsNot DEF Outcome, NotAClass
    <3>. QED BY <3>2, <3>3, <3>4, <3>5, <3>6, PartsFacts
  <2>. QED BY <2>4, <2>5
<1>2. \A e \in Expression : (\A k \in DOMAIN PartsOf(e) : PartsOf(e)[k] \in S) => e \in S
  BY <1>1
<1>. HIDE DEF S
<1>3. \A e \in Expression : e \in S
  BY <1>2, PartsFirst
<1>. QED BY <1>3 DEF S

\* What is known where an expression has a type.
LEMMA TypedParts ==
  ASSUME program \in DOMAIN Inputs, NEW s, IsScope(s), NEW e \in Expression, IsType(Infer(e, s))
  PROVE  /\ FirstFailure(InferAll(PartsOf(e), s)) = "none"
         /\ \A k \in DOMAIN PartsOf(e) : IsType(Infer(PartsOf(e)[k], s))
<1> DEFINE types == InferAll(PartsOf(e), s)
           n     == Len(PartsOf(e))
<1>1. \A k \in DOMAIN PartsOf(e) : Infer(PartsOf(e)[k], s) \in Outcome
  BY InferOutcome, PartsFacts
<1>2. FirstFailure(types) # "none" => ~IsType(Infer(e, s))
  <2>1. FirstFailure(types) # "none" => ~IsType(FirstFailure(types))
    BY <1>1, PartTypes
  <2>2. Infer(e, s) = TypeFrom(e, types, s)
    BY InferDef
  <2>. QED BY <2>1, <2>2, TypeFromFacts
<1>3. DOMAIN PartsOf(e) = 1..n /\ \A k \in 1..n : types[k] = Infer(PartsOf(e)[k], s)
  BY <1>1, PartTypes
<1>4. FirstFailure(types) = "none" => \A k \in 1..n : IsType(types[k])
  BY <1>1, PartTypes
<1>. QED BY <1>2, <1>3, <1>4

LEMMA TypedCall ==
  ASSUME program \in DOMAIN Inputs, NEW s, IsScope(s), NEW e \in Expression, e.op = "call",
         IsType(Infer(e, s))
  PROVE  LET types == InferAll(PartsOf(e), s)
         IN  /\ \A k \in DOMAIN PartsOf(e) : IsClass(types[k])
             /\ IsNewCall(e) =>
                  /\ e.name \in DOMAIN Symbols
                  /\ Infer(e, s) = e.name /\ InferNew(e.name, types) = e.name
             /\ ~IsNewCall(e) =>
                  /\ Last(types) \in DOMAIN Symbols /\ ~Hidden(Last(types), s)
                  /\ Infer(e, s) = CallOn(Last(types), e.name, Front(types))
                  /\ Infer(e, s) # "throws"
<1> DEFINE types == InferAll(PartsOf(e), s)
           n     == Len(PartsOf(e))
<1>1. \A k \in DOMAIN PartsOf(e) : Infer(PartsOf(e)[k], s) \in Outcome
  BY InferOutcome, PartsFacts
<1>2. FirstFailure(types) = "none" /\ Infer(e, s) = TypeFrom(e, types, s)
  BY TypedParts, InferDef
<1>3. n \in Nat /\ DOMAIN PartsOf(e) = 1..n /\ DOMAIN types = 1..n /\ Len(types) = n
  BY <1>1, PartTypes
<1>4. \A k \in 1..n : IsType(types[k])
  BY <1>1, <1>2, PartTypes
<1>5. CASE IsNewCall(e)
  <2>1. Infer(e, s) = IF ClassVisible(e.name, s) THEN InferNew(e.name, types) ELSE "throws"
    BY <1>2, <1>5, TypeFromFacts
  <2>2. Infer(e, s) # "throws"
    BY OutcomeFacts
  <2>3. e.name \in DOMAIN Symbols /\ Infer(e, s) = InferNew(e.name, types)
    BY <2>1, <2>2 DEF ClassVisible, IsClass
  <2>4. PICK k : FittingConstructors(e.name, types) = {k}
    BY <1>3, <2>2, <2>3, NewFacts
  <2>5. \A i \in DOMAIN types : IsClass(types[i])
    BY <1>3, <2>3, <2>4, NewFacts
  <2>6. Infer(e, s) = e.name
    BY <1>3, <2>2, <2>3, NewFacts
  <2>. QED BY <1>3, <1>5, <2>3, <2>5, <2>6
<1>6. CASE ~IsNewCall(e)
  <2> DEFINE o == Last(types)
  <2>1. Infer(e, s) = OnObject(e, o, Front(types), s)
    BY <1>2, <1>6, TypeFromFacts
  <2>2. n >= 1
    BY <1>6, PartsFacts
  <2>3. /\ o = types[n] /\ Len(Front(types)) = n - 1 /\ DOMAIN Front(types) = 1..Len(Front(types))
        /\ \A k \in 1..n - 1 : Front(types)[k] = types[k]
    BY <1>1, <2>2, PartTypes
  <2>. HIDE DEF o, types
  <2>4. o # Unknown /\ ~Hidden(o, s)
    BY <2>1, OnObjectFacts, OutcomeFacts
  <2>5. o \in DOMAIN Symbols
    BY <1>3, <1>4, <2>2, <2>3, <2>4 DEF IsType, IsClass
  <2>6. Infer(e, s) = CallOn(o, e.name, Front(types))
    BY <2>1, <2>4, OnObjectFacts
  <2>7. Infer(e, s) # "throws"
    BY OutcomeFacts
  <2>8. \A i \in DOMAIN Front(types) : IsClass(Front(types)[i])
    BY <2>3, <2>5, <2>6, <2>7, CallFacts
  <2>9. \A k \in 1..n : IsClass(types[k])
    <3>. TAKE k \in 1..n
    <3>1. CASE k = n
      BY <2>3, <2>5, <3>1 DEF IsClass
    <3>2. CASE k # n
      <4>1. k \in DOMAIN Front(types) /\ Front(types)[k] = types[k]
        <5>1. k \in 1..n - 1
          <6>1. n \in Nat
            BY <1>3
          <6>. HIDE DEF n
          <6>. QED BY <3>2, <6>1
        <5>2. DOMAIN Front(types) = 1..n - 1
          BY <2>3
        <5>. QED BY <2>3, <5>1, <5>2
      <4>. QED BY <2>8, <4>1
    <3>. QED BY <3>1, <3>2
  <2>. QED BY <1>3, <1>6, <2>4, <2>5, <2>6, <2>7, <2>9 DEF o, types
<1>. QED BY <1>5, <1>6

-----------------------------------------------------------------------------
(* Later scopes: more variables, and types where there were none.          *)

\* Two types of one variable, the second at a later time.
Firmer(a, b) == b = a \/ a = Unknown
Older(s, t) ==
  /\ s.cls = t.cls
  /\ \A n \in DOMAIN s.variables :
       n \in DOMAIN t.variables /\ Firmer(s.variables[n], t.variables[n])
  /\ \A c \in DOMAIN Symbols :
       /\ DOMAIN s.fields[c] = DOMAIN t.fields[c]
       /\ \A n \in DOMAIN s.fields[c] : Firmer(s.fields[c][n], t.fields[c][n])

\* What becomes of type a of an expression in the later scope t, where it is b: it stays, or
\* there is one where there was none, or a variable of t hides a class.
Holds(a, b, t) ==
  b = a \/ (a = Unknown /\ IsType(b)) \/ (~IsType(b) /\ ShadowsClass(t.variables))

LEMMA FieldGrows ==
  ASSUME program \in DOMAIN Inputs, NEW s, NEW t, IsScope(s), IsScope(t), Older(s, t),
         NEW o \in DOMAIN Symbols, NEW name, IsType(FieldOf(o, name, s))
  PROVE  Firmer(FieldOf(o, name, s), FieldOf(o, name, t)) /\ IsType(FieldOf(o, name, t))
<1>1. name \in DOMAIN Shown(s.fields, o) /\ FieldOf(o, name, s) = Shown(s.fields, o)[name]
  <2>1. FieldOf(o, name, s) # "throws"
    BY OutcomeFacts
  <2>. QED BY <2>1 DEF FieldOf
<1>2. Declaring(s.fields, o, name) = Declaring(t.fields, o, name)
  <2>1. \A k \in DOMAIN Symbols[o].chain : Symbols[o].chain[k] \in DOMAIN Symbols
    BY SymbolsAre
  <2>. QED BY <2>1 DEF Declaring, Older
<1>3. name \in DOMAIN Shown(t.fields, o)
  BY <1>1, <1>2, ShownFacts
<1>4. FieldOf(o, name, t) = Shown(t.fields, o)[name]
  BY <1>3 DEF FieldOf
<1> DEFINE c == Symbols[o].chain[Min(Declaring(s.fields, o, name))]
<1>5. /\ c \in DOMAIN Symbols /\ name \in DOMAIN s.fields[c]
      /\ Shown(s.fields, o)[name] = s.fields[c][name]
  BY <1>1, ShownFacts
<1>6. Shown(t.fields, o)[name] = t.fields[c][name]
  BY <1>2, <1>3, ShownFacts
<1>7. Firmer(s.fields[c][name], t.fields[c][name])
  BY <1>5 DEF Older
<1>8. IsType(Shown(t.fields, o)[name])
  BY <1>3, ShownTyped DEF IsScope
<1>. QED BY <1>1, <1>4, <1>5, <1>6, <1>7, <1>8

\* A call that had a type and whose parts have types still has the same parts.
LEMMA CallPartsKept ==
  ASSUME program \in DOMAIN Inputs, NEW s, NEW t, IsScope(s), IsScope(t),
         NEW e \in Expression, e.op = "call", IsType(Infer(e, s)),
         \A k \in DOMAIN PartsOf(e) : Holds(Infer(PartsOf(e)[k], s), Infer(PartsOf(e)[k], t), t),
         \A k \in DOMAIN PartsOf(e) : IsType(Infer(PartsOf(e)[k], t))
  PROVE  InferAll(PartsOf(e), t) = InferAll(PartsOf(e), s)
<1>1. \A k \in DOMAIN PartsOf(e) : IsClass(Infer(PartsOf(e)[k], s))
  BY TypedCall DEF InferAll
<1>2. \A k \in DOMAIN PartsOf(e) : Infer(PartsOf(e)[k], t) = Infer(PartsOf(e)[k], s)
  BY <1>1, OutcomeFacts DEF Holds
<1>. QED BY <1>2 DEF InferAll

\* Inference is monotone: an expression that had a type has it in a later scope, in which
\* more variables have types and those that had one keep it.
THEOREM InferGrows ==
  ASSUME program \in DOMAIN Inputs, NEW s, NEW t, IsScope(s), IsScope(t), Older(s, t)
  PROVE  \A e \in Expression : IsType(Infer(e, s)) => Holds(Infer(e, s), Infer(e, t), t)
<1> DEFINE S == {e \in Expression : IsType(Infer(e, s)) => Holds(Infer(e, s), Infer(e, t), t)}
<1>1. ASSUME NEW e \in Expression, \A k \in DOMAIN PartsOf(e) : PartsOf(e)[k] \in S,
             IsType(Infer(e, s))
      PROVE  Holds(Infer(e, s), Infer(e, t), t)
  <2> DEFINE now   == InferAll(PartsOf(e), s)
             later == InferAll(PartsOf(e), t)
             n     == Len(PartsOf(e))
  <2>1. \A k \in DOMAIN PartsOf(e) :
          Infer(PartsOf(e)[k], s) \in Outcome /\ Infer(PartsOf(e)[k], t) \in Outcome
    BY InferOutcome, PartsFacts
  <2>2. Infer(e, s) = TypeFrom(e, now, s) /\ Infer(e, t) = TypeFrom(e, later, t)
    BY InferDef
  <2>3. /\ FirstFailure(now) = "none"
        /\ \A k \in DOMAIN PartsOf(e) : IsType(Infer(PartsOf(e)[k], s))
    BY <1>1, TypedParts
  <2>4. \A k \in DOMAIN PartsOf(e) : Holds(Infer(PartsOf(e)[k], s), Infer(PartsOf(e)[k], t), t)
    BY <1>1, <2>3
  <2>5. n \in Nat /\ DOMAIN PartsOf(e) = 1..n
        /\ \A k \in 1..n : now[k] = Infer(PartsOf(e)[k], s) /\ later[k] = Infer(PartsOf(e)[k], t)
    BY <2>1, PartTypes
  <2>6. CASE FirstFailure(later) # "none"
    <3>1. Infer(e, t) = FirstFailure(later)
      BY <2>2, <2>6, TypeFromFacts
    <3>2. ~IsType(FirstFailure(later)) /\ \E k \in 1..n : later[k] = FirstFailure(later)
      BY <2>1, <2>6, PartTypes
    <3>3. PICK k \in 1..n : ~IsType(Infer(PartsOf(e)[k], t))
      BY <2>5, <3>2
    <3>4. ShadowsClass(t.variables)
      BY <2>3, <2>4, <2>5, <3>3 DEF Holds
    <3>. QED BY <3>1, <3>2, <3>4 DEF Holds
  <2>7. CASE FirstFailure(later) = "none"
    <3>1. \A k \in 1..n : IsType(Infer(PartsOf(e)[k], t))
      <4>1. \A k \in 1..n : IsType(later[k])
        BY <2>1, <2>7, PartTypes
      <4>. QED BY <2>5, <4>1
    <3>2. CASE e.op = "literal"
      BY <2>2, <2>3, <2>7, <3>2, TypeFromFacts DEF Holds
    <3>3. CASE e.op = "this"
      <4>1. Infer(e, s) = s.cls /\ Infer(e, t) = t.cls
        BY <2>2, <2>3, <2>7, <3>3, TypeFromFacts
      <4>. QED BY <4>1 DEF Holds, Older
    <3>4. CASE e.op = "name"
      <4>1. /\ Infer(e, s) = IF e.name \in DOMAIN s.variables THEN s.variables[e.name] ELSE "throws"
            /\ Infer(e, t) = IF e.name \in DOMAIN t.variables THEN t.variables[e.name] ELSE "throws"
        BY <2>2, <2>3, <2>7, <3>4, TypeFromFacts
      <4>2. e.name \in DOMAIN s.variables
        BY <1>1, <4>1, OutcomeFacts
      <4>3. e.name \in DOMAIN t.variables /\ Firmer(s.variables[e.name], t.variables[e.name])
        BY <4>2 DEF Older
      <4>4. IsType(t.variables[e.name])
        BY <4>3 DEF IsScope
      <4>. QED BY <4>1, <4>2, <4>3, <4>4 DEF Holds, Firmer
    <3>5. CASE e.op = "member"
      <4> DEFINE o == Last(now)
      <4>1. n >= 1
        <5>1. n = 1
          BY <3>5, PartsFacts
        <5>. QED BY <5>1
      <4>2. o = now[n] /\ Last(later) = later[n]
        <5>1. /\ \A k \in DOMAIN PartsOf(e) : Infer(PartsOf(e)[k], s) \in Outcome
              /\ \A k \in DOMAIN PartsOf(e) : Infer(PartsOf(e)[k], t) \in Outcome
          BY <2>1
        <5>2. o = now[n]
          BY <4>1, <5>1, PartTypes
        <5>3. Last(later) = later[n]
          BY <4>1, <5>1, PartTypes
        <5>. QED BY <5>2, <5>3
      <4>3. /\ Infer(e, s) = OnObject(e, o, Front(now), s)
            /\ Infer(e, t) = OnObject(e, Last(later), Front(later), t)
        BY <2>2, <2>3, <2>7, <3>5, TypeFromFacts
      <4>4. o # Unknown /\ ~Hidden(o, s)
        BY <1>1, <4>3, OnObjectFacts, OutcomeFacts
      <4>5. o \in DOMAIN Symbols
        <5>1. IsType(o)
          BY <2>3, <2>5, <4>1, <4>2
        <5>. QED BY <4>4, <5>1 DEF IsType, IsClass
      <4>6. Last(later) = o
        <5>1. Holds(o, Last(later), t) /\ IsType(Last(later))
          BY <2>4, <2>5, <3>1, <4>1, <4>2
        <5>. QED BY <4>4, <5>1 DEF Holds
      <4>7. CASE Hidden(o, t)
        <5>1. Infer(e, t) = "aborts"
          BY <4>3, <4>4, <4>6, <4>7, OnObjectFacts
        <5>2. ShadowsClass(t.variables)
          BY <4>5, <4>7 DEF Hidden, ShadowsClass, IsClass
        <5>. QED BY <5>1, <5>2, OutcomeFacts DEF Holds
      <4>8. CASE ~Hidden(o, t)
        <5>1. Infer(e, s) = FieldOf(o, e.name, s)
          BY <3>5, <4>3, <4>4, OnObjectFacts
        <5>2. Infer(e, t) = FieldOf(o, e.name, t)
          BY <3>5, <4>3, <4>4, <4>6, <4>8, OnObjectFacts
        <5>3. Firmer(Infer(e, s), Infer(e, t)) /\ IsType(Infer(e, t))
          BY <1>1, <4>5, <5>1, <5>2, FieldGrows
        <5>. QED BY <5>3 DEF Holds, Firmer
      <4>. QED BY <4>7, <4>8
    <3>6. CASE e.op = "call"
      <4>1. later = now
        BY <1>1, <2>4, <2>5, <3>1, <3>6, CallPartsKept
      <4>2. CASE IsNewCall(e)
        <5>1. Infer(e, s) = e.name /\ InferNew(e.name, now) = e.name /\ e.name \in DOMAIN Symbols
          BY <1>1, <3>6, <4>2, TypedCall
        <5>2. Infer(e, t) = IF ClassVisible(e.name, t) THEN InferNew(e.name, later) ELSE "throws"
          BY <2>2, <2>7, <3>6, <4>2, TypeFromFacts
        <5>3. CASE ClassVisible(e.name, t)
          BY <4>1, <5>1, <5>2, <5>3 DEF Holds
        <5>4. CASE ~ClassVisible(e.name, t)
          <6>1. ShadowsClass(t.variables)
            BY <5>1, <5>4 DEF ClassVisible, Hidden, ShadowsClass, IsClass
          <6>. QED BY <5>2, <5>4, <6>1, OutcomeFacts DEF Holds
        <5>. QED BY <5>3, <5>4
      <4>3. CASE ~IsNewCall(e)
        <5> DEFINE o == Last(now)
        <5>1. o \in DOMAIN Symbols /\ Infer(e, s) = CallOn(o, e.name, Front(now))
          BY <1>1, <3>6, <4>3, TypedCall
        <5>2. Infer(e, t) = OnObject(e, o, Front(now), t)
          BY <2>2, <2>7, <3>6, <4>1, <4>3, TypeFromFacts
        <5>3. o # Unknown
          BY <5>1, OutcomeFacts DEF IsClass
        <5>4. CASE Hidden(o, t)
          <6>1. Infer(e, t) = "aborts"
            BY <5>2, <5>3, <5>4, OnObjectFacts
          <6>2. ShadowsClass(t.variables)
            BY <5>1, <5>4 DEF Hidden, ShadowsClass, IsClass
          <6>. QED BY <6>1, <6>2, OutcomeFacts DEF Holds
        <5>5. CASE ~Hidden(o, t)
          <6>1. Infer(e, t) = CallOn(o, e.name, Front(now))
            BY <3>6, <5>2, <5>3, <5>5, OnObjectFacts
          <6>. QED BY <5>1, <6>1 DEF Holds
        <5>. QED BY <5>4, <5>5
      <4>. QED BY <4>2, <4>3
    <3>. QED BY <3>2, <3>3, <3>4, <3>5, <3>6, PartsFacts
  <2>. QED BY <2>6, <2>7
<1>2. \A e \in Expression : (\A k \in DOMAIN PartsOf(e) : PartsOf(e)[k] \in S) => e \in S
  BY <1>1
<1>. HIDE DEF S
<1>3. \A e \in Expression : e \in S
  BY <1>2, PartsFirst
<1>. QED BY <1>3 DEF S

LEMMA CallsAre ==
  ASSUME program \in DOMAIN Inputs
  PROVE  \A e \in Expression : \A x \in CallsIn(e) : x \in Expression /\ x.op = "call"
<1> DEFINE S == {e \in Expression : \A x \in CallsIn(e) : x \in Expression /\ x.op = "call"}
<1>1. ASSUME NEW e \in Expression, \A k \in DOMAIN PartsOf(e) : PartsOf(e)[k] \in S
      PROVE  \A x \in CallsIn(e) : x \in Expression /\ x.op = "call"
  <2>1. \A part \in Range(PartsOf(e)) : \A x \in CallsIn(part) : x \in Expression /\ x.op = "call"
    BY <1>1, PartsInRange
  <2>. QED BY <2>1, CallsInDef
<1>2. \A e \in Expression : (\A k \in DOMAIN PartsOf(e) : PartsOf(e)[k] \in S) => e \in S
  BY <1>1
<1>. HIDE DEF S
<1>3. \A e \in Expression : e \in S
  BY <1>2, PartsFirst
<1>. QED BY <1>3 DEF S

\* Every call inside an expression that has a type has one.
LEMMA CallsTyped ==
  ASSUME program \in DOMAIN Inputs, NEW s, IsScope(s)
  PROVE  \A e \in Expression : IsType(Infer(e, s)) => \A x \in CallsIn(e) : IsType(Infer(x, s))
<1> DEFINE S == {e \in Expression :
                   IsType(Infer(e, s)) => \A x \in CallsIn(e) : IsType(Infer(x, s))}
<1>1. ASSUME NEW e \in Expression, \A k \in DOMAIN PartsOf(e) : PartsOf(e)[k] \in S,
             IsType(Infer(e, s))
      PROVE  \A x \in CallsIn(e) : IsType(Infer(x, s))
  <2>1. \A k \in DOMAIN PartsOf(e) : IsType(Infer(PartsOf(e)[k], s))
    BY <1>1, TypedParts
  <2>2. \A part \in Range(PartsOf(e)) : \A x \in CallsIn(part) : IsType(Infer(x, s))
    BY <1>1, <2>1, PartsInRange
  <2>. QED BY <1>1, <2>2, CallsInDef
<1>2. \A e \in Expression : (\A k \in DOMAIN PartsOf(e) : PartsOf(e)[k] \in S) => e \in S
  BY <1>1
<1>. HIDE DEF S
<1>3. \A e \in Expression : e \in S
  BY <1>2, PartsFirst
<1>. QED BY <1>3 DEF S

LEMMA NewBinds ==
  ASSUME program \in DOMAIN Inputs, NEW e, IsNewCall(e), e.name \in DOMAIN Symbols,
         NEW types, DOMAIN types = 1..Len(types), InferNew(e.name, types) = e.name
  PROVE  BindsAsChecked(e, types, Find(e, types))
<1> DEFINE c == e.name
           t == Find(e, types)
<1>1. InferNew(c, types) # "throws"
  BY NotAClassIsNot DEF NotAClass
<1>2. PICK k \in DOMAIN Symbols[c].ctors : FittingConstructors(c, types) = {k}
  BY <1>1, NewFacts
<1>3. k \in Nat
  BY FitsAreFinite
<1>4. Min({k}) = k
  <2>1. {k} \in SUBSET Nat /\ {k} # {}
    BY <1>3
  <2>2. Min({k}) \in {k}
    BY <2>1, LeastNumber
  <2>. QED BY <2>2
<1>5. t = [class |-> c, at |-> k, method |-> Method(c, Symbols[c].ctors[k], c)]
  BY <1>2, <1>4 DEF Find, CollectedNew
<1>6. t # NoTarget
  <2>1. NoTarget.class = NoClass /\ t.class = c
    BY <1>5 DEF NoTarget
  <2>. QED BY <2>1, NotAClassIsNot DEF NotAClass
<1>7. ASSUME t.class \in BuiltinClass PROVE BuiltinAgrees(e, t)
  <2>1. c \in BuiltinClass /\ t.at = k /\ t.class = c /\ t.method.params = Symbols[c].ctors[k]
    BY <1>5, <1>7 DEF Method
  <2>2. Symbols[c].ctors = BuiltinConstructors[c]
    BY <2>1, SymbolFacts DEF IsSymbol
  <2>. QED BY <2>1, <2>2, TreeAsSymbols DEF BuiltinAgrees
<1>. QED BY <1>2, <1>5, <1>6, <1>7 DEF BindsAsChecked

LEMMA MethodBinds ==
  ASSUME program \in DOMAIN Inputs, NEW e, ~IsNewCall(e),
         NEW types, Last(types) \in DOMAIN Symbols, DOMAIN Front(types) = 1..Len(Front(types)),
         FittingMethods(Last(types), e.name, Front(types)) # {}
  PROVE  BindsAsChecked(e, types, Find(e, types))
<1> DEFINE o       == Last(types)
           args    == Front(types)
           methods == Symbols[o].methods
           fits    == FittingMethods(o, e.name, args)
           like    == {k \in fits : methods[k].class = methods[Min(fits)].class}
           t       == Find(e, types)
<1>1. /\ Min(fits) \in fits
      /\ CheckedMethod(o, e.name, args) = methods[Min(fits)]
  BY MethodFacts
<1>2. o # Unknown
  BY NotAClassIsNot DEF NotAClass
<1>3. t = methods[Max(like)]
  BY <1>2 DEF Find, CollectedMethod
<1>4. Len(methods) \in Nat /\ fits \in SUBSET (1..Len(methods)) /\ DOMAIN methods = 1..Len(methods)
  BY FitsAreFinite
<1>5. like \in SUBSET (1..Len(methods)) /\ Min(fits) \in like
  BY <1>1, <1>4
<1>6. Max(like) \in like
  <2>. HIDE DEF like
  <2>. QED BY <1>4, <1>5, GreatestNumber
<1>7. Max(like) \in DOMAIN methods /\ t.class = methods[Min(fits)].class
  BY <1>3, <1>4, <1>6
<1>8. t # NoTarget
  <2>1. t.class \in DOMAIN Symbols
    BY <1>3, <1>7, MethodSlotFacts
  <2>2. NoTarget.class = NoClass
    BY DEF NoTarget
  <2>. QED BY <2>1, <2>2, NotAClassIsNot DEF NotAClass
<1>9. t = Meant(e, types) \/ Ambiguous(e, types, t)
  <2>1. CASE Max(like) = Min(fits)
    BY <1>1, <1>3, <2>1 DEF Meant
  <2>2. CASE Max(like) # Min(fits)
    <3> DEFINE same == {k \in fits : methods[k].class = t.class}
    <3>1. same = like
      BY <1>7
    <3>2. IsFiniteSet(same)
      <4>1. IsFiniteSet(1..Len(methods))
        BY <1>4, FS_Interval
      <4>. QED BY <1>5, <3>1, <4>1, FS_Subset
    <3>3. Cardinality(same) \in Nat
      BY <3>2, FS_CardinalityType
    <3>4. Cardinality(same) # 0
      <4>1. same # {}
        BY <1>5, <3>1
      <4>. HIDE DEF same
      <4>. QED BY <3>2, <4>1, FS_EmptySet
    <3>5. Cardinality(same) # 1
      <4>1. Max(like) \in same /\ Min(fits) \in same
        BY <1>5, <1>6, <3>1
      <4>. HIDE DEF same, like, fits
      <4>2. ~\E x : same = {x}
        BY <2>2, <4>1
      <4>. QED BY <3>2, <4>2, FS_Singleton
    <3>6. Cardinality(same) > 1
      <4>. HIDE DEF same
      <4>. QED BY <3>3, <3>4, <3>5
    <3>. QED BY <3>6 DEF Ambiguous
  <2>. QED BY <2>1, <2>2
<1>10. ASSUME t.class \in BuiltinClass PROVE BuiltinAgrees(e, t)
  <2>1. t.at \in DOMAIN BuiltinMethods[t.class] /\ t.method = BuiltinMethods[t.class][t.at]
    BY <1>3, <1>7, <1>10, MethodSlotFacts
  <2>2. BuiltinMethods[t.class] \in Seq(BuiltinSignature(t.class))
    BY <1>10, BuiltinMethodsAre
  <2>3. t.method \in BuiltinSignature(t.class)
    BY <2>1, <2>2
  <2>4. EmittedType(t.class, t.method) = t.method.ret
    BY <2>3 DEF BuiltinSignature
  <2>. QED BY <2>1, <2>4, TreeAsSymbols DEF BuiltinAgrees
<1>. QED BY <1>8, <1>9, <1>10 DEF BindsAsChecked

\* A call that has a type is bound in the tree as it was checked.
LEMMA CallBinds ==
  ASSUME program \in DOMAIN Inputs, NEW s, IsScope(s), NEW e \in Expression, e.op = "call",
         IsType(Infer(e, s))
  PROVE  LET types == InferAll(PartsOf(e), s)
         IN  \/ ~IsNewCall(e) /\ Last(types) = e.name
             \/ BindsAsChecked(e, types, Find(e, types))
<1> DEFINE types == InferAll(PartsOf(e), s)
           n     == Len(PartsOf(e))
<1>1. \A k \in DOMAIN PartsOf(e) : Infer(PartsOf(e)[k], s) \in Outcome
  BY InferOutcome, PartsFacts
<1>2. DOMAIN types = 1..Len(types)
  BY <1>1, PartTypes
<1>3. ASSUME IsNewCall(e) PROVE BindsAsChecked(e, types, Find(e, types))
  <2>1. e.name \in DOMAIN Symbols /\ InferNew(e.name, types) = e.name
    BY <1>3, TypedCall
  <2>. HIDE DEF types
  <2>. QED BY <1>2, <1>3, <2>1, NewBinds
<1>4. ASSUME ~IsNewCall(e), Last(types) # e.name
      PROVE  BindsAsChecked(e, types, Find(e, types))
  <2>1. n >= 1
    BY <1>4, PartsFacts
  <2>2. DOMAIN Front(types) = 1..Len(Front(types))
    BY <1>1, <2>1, PartTypes
  <2>3. /\ Last(types) \in DOMAIN Symbols
        /\ CallOn(Last(types), e.name, Front(types)) # "throws"
    BY <1>4, TypedCall
  <2>4. FittingMethods(Last(types), e.name, Front(types)) # {}
    BY <1>4, <2>2, <2>3, CallFacts
  <2>. HIDE DEF types
  <2>. QED BY <1>4, <2>2, <2>3, <2>4, MethodBinds
<1>. HIDE DEF types
<1>5. \/ ~IsNewCall(e) /\ Last(types) = e.name
      \/ BindsAsChecked(e, types, Find(e, types))
  BY <1>3, <1>4
<1>. QED BY <1>5 DEF types

-----------------------------------------------------------------------------
(* The inductive invariant.  Its parts take what they speak of as          *)
(* arguments, so that they can be stated of a state and of the next one.   *)

IsSeq(s) == \E S : s \in Seq(S)

\* The scopes of the functions and of the fields, of these field types and method scopes.
ScopeAt(fields, locals, f) ==
  LET c == Classes[f[1]].name
  IN  [cls |-> c, variables |-> Merge(locals[f], Shown(fields, c)), fields |-> fields]
ScopeFor(fields, locals, entry) ==
  LET c == Classes[entry.at[1]].name
  IN  IF entry.what = "field"
        THEN [cls |-> c, variables |-> Shown(fields, c), fields |-> fields]
      ELSE ScopeAt(fields, locals, entry.at)

\* Every field has a type or Unknown, the built-in ones those of their classes.
FieldsFine(fields) ==
  /\ DOMAIN fields = DOMAIN Symbols /\ FieldsTyped(fields)
  /\ \A c \in BuiltinClass : fields[c] = BuiltinFields[c]
  /\ \A k \in DOMAIN Classes : DOMAIN fields[Classes[k].name] = Range(Classes[k].fields)

\* Method scopes are those of functions of the program, and their variables have types.
ScopesFine(locals) ==
  \A f \in DOMAIN locals :
    f[1] \in DOMAIN Classes /\ \A n \in DOMAIN locals[f] : IsType(locals[f][n])

\* What was entries was inferred in a scope that was there before, and is not judged
\* otherwise in the one that is there now.
Earlier(s, fields, locals, entry) ==
  /\ IsScope(s) /\ Older(s, ScopeFor(fields, locals, entry))
  /\ entry.types = InferAll(entry.exprs, s)

\* An entry is about a member of the program; what it assigned fitted, and what it gave a
\* field is the field's type.
EntryFine(entry, fields, locals) ==
  /\ entry.at[1] \in DOMAIN Classes
  /\ entry.exprs \in Seq(Expression)
  /\ entry.what # "field" => entry.at \in DOMAIN locals
  /\ entry.what # "member" =>
       /\ \E s : Earlier(s, fields, locals, entry)
       /\ \A k \in DOMAIN entry.types : IsType(entry.types[k])
  /\ entry.what = "super" => \A k \in DOMAIN entry.types : IsClass(entry.types[k])
  /\ entry.what \notin {"super", "member"} => Len(entry.exprs) = 1
  /\ entry.what = "assign" =>
       LET variables == ScopeAt(fields, locals, entry.at).variables
       IN  entry.name \in DOMAIN variables /\ IsSubtype(entry.types[1], variables[entry.name])
  /\ entry.what = "field" =>
       /\ entry.at[3] \in DOMAIN Classes[entry.at[1]].fields
       /\ entry.name = Classes[entry.at[1]].fields[entry.at[3]]
       /\ entry.types = <<fields[Classes[entry.at[1]].name][entry.name]>>

LogFine(logged, fields, locals) ==
  /\ IsSeq(logged)
  /\ \A j \in DOMAIN logged : EntryFine(logged[j], fields, locals)

\* Where the walk is.
WalkFine(ph, c, k, i, st, locals, er, made) ==
  /\ ph \in {"fields", "methods", "collect", "done", "rejected", "aborted"}
  /\ c \in Nat \ {0} /\ i \in Nat \ {0} /\ er \in BOOLEAN
  /\ ph = "fields" => k = "fields" /\ DOMAIN locals = {}
  /\ ph = "methods" => k \in {"methods", "ctors"}
  /\ ph \in {"fields", "methods"} => made = <<>>
  /\ st # "idle" => ph = "methods" /\ c \in DOMAIN Classes /\ <<c, k, i>> \in DOMAIN locals
  /\ ph = "collect" => ~er /\ c > Len(Classes)

\* The fields before the one the walk is at are in the log, if there is no error, and
\* those after it have no type.
Passed(k, i, c, at) == k < c \/ (k = c /\ i < at)
ProgressFine(ph, c, i, fields, er, logged) ==
  /\ ph = "fields" =>
       /\ \A k \in DOMAIN Classes : \A j \in DOMAIN Classes[k].fields :
            ~Passed(k, j, c, i) => fields[Classes[k].name][Classes[k].fields[j]] = Unknown
       /\ \A j \in DOMAIN logged :
            logged[j].what = "field" /\ Passed(logged[j].at[1], logged[j].at[3], c, i)
  /\ ~er /\ ph \in {"fields", "methods", "collect"} =>
       \A k \in DOMAIN Classes : \A j \in DOMAIN Classes[k].fields :
         (ph = "fields" => Passed(k, j, c, i)) =>
           \E x \in DOMAIN logged :
             logged[x].what = "field" /\ logged[x].at[1] = k
             /\ logged[x].name = Classes[k].fields[j]
  /\ \A x, y \in DOMAIN logged :
       x < y /\ logged[y].what = "field" => logged[x].what = "field"

\* The types inferred again are those of the log.
AgainFine(made, logged) ==
  \A k \in DOMAIN made :
    Reinferred(logged[k]) /\ logged[k].types # <<Unknown>> => made[k].types = logged[k].types
\* Calls are bound as they were checked.
BindFine(made, logged) ==
  \A k \in DOMAIN made : \A call \in made[k].calls :
    \/ logged[k].what = "member"
    \/ ~IsNewCall(call.expr) /\ Last(call.types) = call.expr.name
    \/ BindsAsChecked(call.expr, call.types, call.target)
\* Assigned values fit; Sources are what an assigned name may be compiled for.
Sources(entry, fields, locals) ==
  Cardinality(Declaring(fields, Classes[entry.at[1]].name, entry.name))
    + IF entry.name \in DOMAIN locals[entry.at] THEN 1 ELSE 0
FitFine(made, logged, fields, locals) ==
  \A k \in DOMAIN made :
    logged[k].what = "assign" =>
      \/ IsSubtype(made[k].types[1], made[k].target)
      \/ Sources(logged[k], fields, locals) > 1
      \/ logged[k].types = <<Unknown>>
CollectedFine(made, logged, fields, locals) ==
  /\ IsSeq(made) /\ Len(made) <= Len(logged)
  /\ AgainFine(made, logged) /\ BindFine(made, logged) /\ FitFine(made, logged, fields, locals)

\* What a walk that was aborted had met.
AbortFine(ph, c, k, i, made, logged, fields, locals) ==
  ph = "aborted" =>
    IF Len(made) < Len(logged) /\ c > Len(Classes)
      THEN \/ logged[Len(made) + 1].what = "member"
           \/ ShadowsClass(ScopeFor(fields, locals, logged[Len(made) + 1]).variables)
      ELSE ShadowsClass(IF k = "fields" THEN Shown(fields, Classes[c].name)
                        ELSE ScopeAt(fields, locals, <<c, k, i>>).variables)

IInv ==
  /\ program \in DOMAIN Inputs
  /\ FieldsFine(field_types) /\ ScopesFine(scopes)
  /\ WalkFine(phase, cls, kind, item, step, scopes, errors, collected)
  /\ LogFine(log, field_types, scopes)
  /\ ProgressFine(phase, cls, item, field_types, errors, log)
  /\ CollectedFine(collected, log, field_types, scopes)
  /\ AbortFine(phase, cls, kind, item, collected, log, field_types, scopes)

-----------------------------------------------------------------------------
(* The program does not change, so nothing that only speaks of it does.    *)
LEMMA SymbolsKept ==
  ASSUME program' = program
  PROVE  /\ Symbols' = Symbols /\ Classes' = Classes /\ Expression' = Expression
         /\ Input' = Input
         /\ \A c : IsClass(c)' <=> IsClass(c)
         /\ \A t : IsType(t)' <=> IsType(t)
         /\ \A t, u : IsSubtype(t, u)' <=> IsSubtype(t, u)
         /\ \A t, u : IsSubtypeList(t, u)' <=> IsSubtypeList(t, u)
<1>1. Symbols' = Symbols /\ Classes' = Classes /\ Expression' = Expression /\ Input' = Input
  BY DEF Symbols, Classes, Input, Expression
<1>2. \A c : IsClass(c)' <=> IsClass(c)
  BY <1>1 DEF IsClass
<1>3. \A t : IsType(t)' <=> IsType(t)
  BY <1>2 DEF IsType
<1>4. \A t, u : IsSubtype(t, u)' <=> IsSubtype(t, u)
  BY <1>1, <1>2 DEF IsSubtype
<1>5. \A t, u : IsSubtypeList(t, u)' <=> IsSubtypeList(t, u)
  BY <1>4 DEF IsSubtypeList
<1>. QED BY <1>1, <1>2, <1>3, <1>4, <1>5

LEMMA ShownKept ==
  ASSUME program' = program
  PROVE  /\ \A fields, c, n : Declaring(fields, c, n)' = Declaring(fields, c, n)
         /\ \A fields, c : Shown(fields, c)' = Shown(fields, c)
<1>1. \A fields, c, n : Declaring(fields, c, n)' = Declaring(fields, c, n)
  BY SymbolsKept DEF Declaring
<1>. QED BY <1>1, SymbolsKept DEF Shown

LEMMA FittingKept ==
  ASSUME program' = program
  PROVE  /\ \A c, args : FittingConstructors(c, args)' = FittingConstructors(c, args)
         /\ \A c, n, args : FittingMethods(c, n, args)' = FittingMethods(c, n, args)
         /\ \A c, args : InferNew(c, args)' = InferNew(c, args)
         /\ \A c, n, args : CheckedMethod(c, n, args)' = CheckedMethod(c, n, args)
<1>1. \A c, args : FittingConstructors(c, args)' = FittingConstructors(c, args)
  BY SymbolsKept DEF FittingConstructors
<1>2. \A c, n, args : FittingMethods(c, n, args)' = FittingMethods(c, n, args)
  BY SymbolsKept DEF FittingMethods
<1>3. \A c, args : InferNew(c, args)' = InferNew(c, args)
  BY <1>1 DEF InferNew, ConstructorResolves
<1>4. \A c, n, args : CheckedMethod(c, n, args)' = CheckedMethod(c, n, args)
  BY <1>2, SymbolsKept DEF CheckedMethod
<1>. QED BY <1>1, <1>2, <1>3, <1>4

LEMMA InferKept ==
  ASSUME program' = program
  PROVE  /\ \A e, s : Infer(e, s)' = Infer(e, s)
         /\ \A es, s : InferAll(es, s)' = InferAll(es, s)
<1>1. \A o, n, args : CallOn(o, n, args)' = CallOn(o, n, args)
  BY FittingKept DEF CallOn
<1>2. \A o, n, s : FieldOf(o, n, s)' = FieldOf(o, n, s)
  BY ShownKept DEF FieldOf
<1>3. \A e, o, args, s : OnObject(e, o, args, s)' = OnObject(e, o, args, s)
  BY <1>1, <1>2, Zenon DEF OnObject
<1>4. \A results : FirstFailure(results)' = FirstFailure(results)
  BY SymbolsKept DEF FirstFailure
<1>5. \A c, s : ClassVisible(c, s)' <=> ClassVisible(c, s)
  BY SymbolsKept DEF ClassVisible, Hidden
<1>6. \A e, types, s : TypeFrom(e, types, s)' = TypeFrom(e, types, s)
  <2>. TAKE e, types, s
  <2>1. FirstFailure(types)' = FirstFailure(types)
    BY <1>4
  <2>2. OnObject(e, Last(types), Front(types), s)' = OnObject(e, Last(types), Front(types), s)
    BY <1>3
  <2>3. InferNew(e.name, types)' = InferNew(e.name, types)
    BY FittingKept
  <2>4. ClassVisible(e.name, s)' <=> ClassVisible(e.name, s)
    BY <1>5
  <2>. QED BY <2>1, <2>2, <2>3, <2>4, Zenon DEF TypeFrom
<1>7. \A e, s : Infer(e, s)' = Infer(e, s)
  BY <1>6, SymbolsKept DEF Infer
<1>. QED BY <1>7 DEF InferAll

LEMMA BindsKept ==
  ASSUME program' = program
  PROVE  \A e, types, t : BindsAsChecked(e, types, t)' <=> BindsAsChecked(e, types, t)
<1>1. \A e, types : Meant(e, types)' = Meant(e, types)
  BY FittingKept DEF Meant
<1>2. \A e, types, t : Ambiguous(e, types, t)' <=> Ambiguous(e, types, t)
  BY FittingKept, SymbolsKept DEF Ambiguous
<1>. QED BY <1>1, <1>2, FittingKept DEF BindsAsChecked

LEMMA ScopesKept ==
  ASSUME program' = program
  PROVE  /\ \A fields, locals, f : ScopeAt(fields, locals, f)' = ScopeAt(fields, locals, f)
         /\ \A fields, locals, x : ScopeFor(fields, locals, x)' = ScopeFor(fields, locals, x)
         /\ \A fields, locals, x : Sources(x, fields, locals)' = Sources(x, fields, locals)
         /\ \A s : IsScope(s)' <=> IsScope(s)
         /\ \A s, t : Older(s, t)' <=> Older(s, t)
         /\ \A v : ShadowsClass(v)' <=> ShadowsClass(v)
<1>1. \A fields, locals, f : ScopeAt(fields, locals, f)' = ScopeAt(fields, locals, f)
  BY SymbolsKept, ShownKept DEF ScopeAt
<1>2. \A fields, locals, x : ScopeFor(fields, locals, x)' = ScopeFor(fields, locals, x)
  BY <1>1, SymbolsKept, ShownKept DEF ScopeFor
<1>3. \A fields, locals, x : Sources(x, fields, locals)' = Sources(x, fields, locals)
  BY SymbolsKept, ShownKept DEF Sources
<1>4. \A s : IsScope(s)' <=> IsScope(s)
  BY SymbolsKept DEF IsScope, FieldsTyped
<1>5. \A s, t : Older(s, t)' <=> Older(s, t)
  BY SymbolsKept DEF Older
<1>6. \A v : ShadowsClass(v)' <=> ShadowsClass(v)
  BY SymbolsKept DEF ShadowsClass
<1>. QED BY <1>1, <1>2, <1>3, <1>4, <1>5, <1>6

LEMMA FieldsPrimed ==
  ASSUME program' = program
  PROVE  /\ \A fields : FieldsFine(fields)' <=> FieldsFine(fields)
         /\ \A locals : ScopesFine(locals)' <=> ScopesFine(locals)
<1>1. \A fields : FieldsFine(fields)' <=> FieldsFine(fields)
  BY SymbolsKept DEF FieldsFine, FieldsTyped
<1>2. \A locals : ScopesFine(locals)' <=> ScopesFine(locals)
  BY SymbolsKept DEF ScopesFine
<1>. QED BY <1>1, <1>2

LEMMA LogPrimed ==
  ASSUME program' = program
  PROVE  \A logged, fields, locals :
           LogFine(logged, fields, locals)' <=> LogFine(logged, fields, locals)
<1>1. \A s, fields, locals, entry :
        Earlier(s, fields, locals, entry)' <=> Earlier(s, fields, locals, entry)
  BY ScopesKept, InferKept DEF Earlier
<1>2. \A entry, fields, locals :
        EntryFine(entry, fields, locals)' <=> EntryFine(entry, fields, locals)
  BY <1>1, SymbolsKept, ScopesKept DEF EntryFine
<1>. QED BY <1>2 DEF LogFine, IsSeq

LEMMA WalkPrimed ==
  ASSUME program' = program
  PROVE  /\ \A ph, c, k, i, st, locals, er, made :
              WalkFine(ph, c, k, i, st, locals, er, made)'
                <=> WalkFine(ph, c, k, i, st, locals, er, made)
         /\ \A ph, c, i, fields, er, logged :
              ProgressFine(ph, c, i, fields, er, logged)'
                <=> ProgressFine(ph, c, i, fields, er, logged)
<1>1. \A ph, c, k, i, st, locals, er, made :
        WalkFine(ph, c, k, i, st, locals, er, made)'
          <=> WalkFine(ph, c, k, i, st, locals, er, made)
  BY SymbolsKept DEF WalkFine
<1>2. \A ph, c, i, fields, er, logged :
        ProgressFine(ph, c, i, fields, er, logged)'
          <=> ProgressFine(ph, c, i, fields, er, logged)
  BY SymbolsKept DEF ProgressFine, Passed
<1>. QED BY <1>1, <1>2

LEMMA CollectedPrimed ==
  ASSUME program' = program
  PROVE  /\ \A made, logged, fields, locals :
              CollectedFine(made, logged, fields, locals)'
                <=> CollectedFine(made, logged, fields, locals)
         /\ \A ph, c, k, i, made, logged, fields, locals :
              AbortFine(ph, c, k, i, made, logged, fields, locals)'
                <=> AbortFine(ph, c, k, i, made, logged, fields, locals)
<1>1. \A made, logged : AgainFine(made, logged)' <=> AgainFine(made, logged)
  BY DEF AgainFine, Reinferred
<1>2. \A made, logged : BindFine(made, logged)' <=> BindFine(made, logged)
  BY BindsKept DEF BindFine
<1>3. \A made, logged, fields, locals :
        FitFine(made, logged, fields, locals)' <=> FitFine(made, logged, fields, locals)
  BY SymbolsKept, ScopesKept DEF FitFine
<1>4. \A made, logged, fields, locals :
        CollectedFine(made, logged, fields, locals)'
          <=> CollectedFine(made, logged, fields, locals)
  BY <1>1, <1>2, <1>3 DEF CollectedFine, IsSeq
<1>5. \A ph, c, k, i, made, logged, fields, locals :
        AbortFine(ph, c, k, i, made, logged, fields, locals)'
          <=> AbortFine(ph, c, k, i, made, logged, fields, locals)
  BY SymbolsKept, ScopesKept, ShownKept DEF AbortFine
<1>. QED BY <1>4, <1>5

\* The invariant holds in the next state if its parts hold of what that state consists of.
LEMMA InvPrimed ==
  ASSUME program' = program, program \in DOMAIN Inputs,
         FieldsFine(field_types'), ScopesFine(scopes'),
         WalkFine(phase', cls', kind', item', step', scopes', errors', collected'),
         LogFine(log', field_types', scopes'),
         ProgressFine(phase', cls', item', field_types', errors', log'),
         CollectedFine(collected', log', field_types', scopes'),
         AbortFine(phase', cls', kind', item', collected', log', field_types', scopes')
  PROVE  IInv'
<1>1. FieldsFine(field_types)' /\ ScopesFine(scopes)'
  BY FieldsPrimed
<1>2. WalkFine(phase, cls, kind, item, step, scopes, errors, collected)'
  BY WalkPrimed
<1>3. LogFine(log, field_types, scopes)'
  BY LogPrimed
<1>4. ProgressFine(phase, cls, item, field_types, errors, log)'
  BY WalkPrimed
<1>5. CollectedFine(collected, log, field_types, scopes)'
  BY CollectedPrimed
<1>6. AbortFine(phase, cls, kind, item, collected, log, field_types, scopes)'
  BY CollectedPrimed
<1>. QED BY <1>1, <1>2, <1>3, <1>4, <1>5, <1>6 DEF IInv

LEMMA ScopesAre ==
  /\ \A c : ClassScope(c) = Shown(field_types, c)
  /\ \A c : FieldScope(c) = [cls |-> c, variables |-> Shown(field_types, c), fields |-> field_types]
  /\ \A f : FunctionScope(f) = ScopeAt(field_types, scopes, f)
  /\ \A entry : ScopeOf(entry) = ScopeFor(field_types, scopes, entry)
<1>1. \A c : ClassScope(c) = Shown(field_types, c)
  BY DEF ClassScope
<1>2. \A c : FieldScope(c) =
              [cls |-> c, variables |-> Shown(field_types, c), fields |-> field_types]
  BY <1>1 DEF FieldScope
<1>3. \A f : FunctionScope(f) = ScopeAt(field_types, scopes, f)
  BY <1>1 DEF FunctionScope, ScopeAt
<1>. QED BY <1>1, <1>2, <1>3 DEF ScopeOf, ScopeFor

LEMMA MergeFacts ==
  ASSUME NEW f, NEW g
  PROVE  /\ DOMAIN Merge(f, g) = DOMAIN f \cup DOMAIN g
         /\ \A n \in DOMAIN f : Merge(f, g)[n] = f[n]
         /\ \A n \in DOMAIN g \ DOMAIN f : Merge(f, g)[n] = g[n]
BY DEF Merge

LEMMA ClassScopeFine ==
  ASSUME program \in DOMAIN Inputs, NEW fields, FieldsFine(fields), NEW c \in DOMAIN Symbols
  PROVE  IsScope([cls |-> c, variables |-> Shown(fields, c), fields |-> fields])
BY ShownTyped DEF IsScope, FieldsFine

LEMMA ScopeAtFine ==
  ASSUME program \in DOMAIN Inputs, NEW fields, FieldsFine(fields),
         NEW locals, ScopesFine(locals), NEW f \in DOMAIN locals
  PROVE  IsScope(ScopeAt(fields, locals, f))
<1> DEFINE c == Classes[f[1]].name
           v == Merge(locals[f], Shown(fields, c))
<1>1. c \in DOMAIN Symbols
  BY SymbolsAre DEF ScopesFine
<1>2. FieldsTyped(fields)
  BY DEF FieldsFine
<1>3. \A n \in DOMAIN Shown(fields, c) : IsType(Shown(fields, c)[n])
  BY <1>1, <1>2, ShownTyped
<1>4. \A n \in DOMAIN locals[f] : IsType(locals[f][n])
  BY DEF ScopesFine
<1>5. \A n \in DOMAIN v : IsType(v[n])
  <2>. DEFINE own   == locals[f]
              shown == Shown(fields, c)
  <2>. HIDE DEF own, shown
  <2>1. \A n \in DOMAIN Merge(own, shown) :
          \/ n \in DOMAIN own /\ Merge(own, shown)[n] = own[n]
          \/ n \in DOMAIN shown /\ Merge(own, shown)[n] = shown[n]
    BY DEF Merge
  <2>. QED BY <1>3, <1>4, <2>1 DEF own, shown
<1>6. ScopeAt(fields, locals, f) = [cls |-> c, variables |-> v, fields |-> fields]
  BY DEF ScopeAt
<1>. QED BY <1>1, <1>2, <1>5, <1>6 DEF IsScope

LEMMA ScopeForFine ==
  ASSUME program \in DOMAIN Inputs, NEW fields, FieldsFine(fields),
         NEW locals, ScopesFine(locals), NEW entry, entry.at[1] \in DOMAIN Classes,
         entry.what # "field" => entry.at \in DOMAIN locals
  PROVE  IsScope(ScopeFor(fields, locals, entry))
<1>1. Classes[entry.at[1]].name \in DOMAIN Symbols
  BY SymbolsAre
<1>2. CASE entry.what = "field"
  BY <1>1, <1>2, ClassScopeFine DEF ScopeFor
<1>3. CASE entry.what # "field"
  BY <1>3, ScopeAtFine DEF ScopeFor
<1>. QED BY <1>2, <1>3

LEMMA OlderIsOrder ==
  /\ \A s : Older(s, s)
  /\ \A s, t, u : Older(s, t) /\ Older(t, u) => Older(s, u)
BY DEF Older, Firmer

-----------------------------------------------------------------------------
(* An entry of the log stays fine as scopes grow.                          *)
Extends(v, w) == \A n \in DOMAIN v : n \in DOMAIN w /\ w[n] = v[n]

LEMMA EntryKept ==
  ASSUME program \in DOMAIN Inputs,
         NEW fields, NEW locals, NEW fields2, NEW locals2, NEW entry,
         EntryFine(entry, fields, locals),
         entry.what # "field" => entry.at \in DOMAIN locals2,
         Older(ScopeFor(fields, locals, entry), ScopeFor(fields2, locals2, entry)),
         entry.what = "assign" => Extends(ScopeAt(fields, locals, entry.at).variables,
                                          ScopeAt(fields2, locals2, entry.at).variables),
         entry.what = "field" =>
           fields2[Classes[entry.at[1]].name][entry.name] =
             fields[Classes[entry.at[1]].name][entry.name]
  PROVE  EntryFine(entry, fields2, locals2)
<1>1. \A s : Earlier(s, fields, locals, entry) => Earlier(s, fields2, locals2, entry)
  BY OlderIsOrder DEF Earlier
<1>2. entry.what = "assign" =>
        LET variables == ScopeAt(fields2, locals2, entry.at).variables
        IN  entry.name \in DOMAIN variables /\ IsSubtype(entry.types[1], variables[entry.name])
  BY DEF EntryFine, Extends
<1>. QED BY <1>1, <1>2 DEF EntryFine

\* A function's scope is opened, or gets a variable that was not visible.
LEMMA LocalsGrow ==
  ASSUME program \in DOMAIN Inputs, NEW fields, NEW locals, NEW locals2, NEW logged,
         \A f \in DOMAIN locals :
           f \in DOMAIN locals2 /\ Extends(ScopeAt(fields, locals, f).variables,
                                           ScopeAt(fields, locals2, f).variables),
         LogFine(logged, fields, locals)
  PROVE  LogFine(logged, fields, locals2)
<1>1. ASSUME NEW j \in DOMAIN logged
      PROVE  EntryFine(logged[j], fields, locals2)
  <2> DEFINE entry == logged[j]
  <2>1. EntryFine(entry, fields, locals)
    BY DEF LogFine
  <2>2. CASE entry.what = "field"
    <3>1. ScopeFor(fields, locals, entry) = ScopeFor(fields, locals2, entry)
      BY <2>2 DEF ScopeFor
    <3>. QED BY <2>1, <2>2, <3>1, OlderIsOrder, EntryKept
  <2>3. CASE entry.what # "field"
    <3>1. entry.at \in DOMAIN locals
      BY <2>1, <2>3 DEF EntryFine
    <3>2. Extends(ScopeAt(fields, locals, entry.at).variables,
                  ScopeAt(fields, locals2, entry.at).variables)
      BY <3>1
    <3>3. /\ ScopeFor(fields, locals, entry) = ScopeAt(fields, locals, entry.at)
          /\ ScopeFor(fields, locals2, entry) = ScopeAt(fields, locals2, entry.at)
      BY <2>3 DEF ScopeFor
    <3>4. Older(ScopeAt(fields, locals, entry.at), ScopeAt(fields, locals2, entry.at))
      <4>1. /\ ScopeAt(fields, locals, entry.at).cls = ScopeAt(fields, locals2, entry.at).cls
            /\ ScopeAt(fields, locals, entry.at).fields = fields
            /\ ScopeAt(fields, locals2, entry.at).fields = fields
        BY DEF ScopeAt
      <4>. QED BY <3>2, <4>1 DEF Older, Firmer, Extends
    <3>5. entry.at \in DOMAIN locals2
      BY <3>1
    <3>. QED BY <2>1, <2>3, <3>2, <3>3, <3>4, <3>5, EntryKept
  <2>. QED BY <2>2, <2>3
<1>. QED BY <1>1 DEF LogFine

LEMMA LogGrows ==
  ASSUME program \in DOMAIN Inputs, NEW fields, NEW locals, NEW logged, NEW entry,
         LogFine(logged, fields, locals), EntryFine(entry, fields, locals)
  PROVE  /\ LogFine(Append(logged, entry), fields, locals)
         /\ Len(logged) \in Nat /\ DOMAIN logged = 1..Len(logged)
         /\ DOMAIN Append(logged, entry) = 1..Len(logged) + 1
         /\ \A k \in DOMAIN logged : Append(logged, entry)[k] = logged[k]
         /\ Append(logged, entry)[Len(logged) + 1] = entry
<1>1. PICK S : logged \in Seq(S)
  BY DEF LogFine, IsSeq
<1>2. logged \in Seq(S \cup {entry}) /\ entry \in S \cup {entry}
  BY <1>1
<1>3. Append(logged, entry) \in Seq(S \cup {entry})
  BY <1>2
<1>4. /\ Len(logged) \in Nat /\ DOMAIN logged = 1..Len(logged)
      /\ DOMAIN Append(logged, entry) = 1..Len(logged) + 1
      /\ \A k \in DOMAIN logged : Append(logged, entry)[k] = logged[k]
      /\ Append(logged, entry)[Len(logged) + 1] = entry
  BY <1>2
<1>5. \A j \in DOMAIN Append(logged, entry) : EntryFine(Append(logged, entry)[j], fields, locals)
  <2>. TAKE j \in DOMAIN Append(logged, entry)
  <2>1. CASE j = Len(logged) + 1
    BY <1>4, <2>1
  <2>2. CASE j # Len(logged) + 1
    <3>1. j \in DOMAIN logged
      BY <1>4, <2>2
    <3>. QED BY <1>4, <3>1 DEF LogFine
  <2>. QED BY <2>1, <2>2
<1>. QED BY <1>3, <1>4, <1>5 DEF LogFine, IsSeq

LEMMA InitFine == Init => IInv
<1>. SUFFICES ASSUME Init PROVE IInv
  OBVIOUS
<1>1. program \in DOMAIN Inputs
  BY DEF Init
<1>2. \A k \in DOMAIN Classes :
        /\ Classes[k].name \in DOMAIN Symbols /\ Classes[k].name \notin BuiltinClass
        /\ field_types[Classes[k].name] = [n \in Range(Classes[k].fields) |-> Unknown]
  <2>. TAKE k \in DOMAIN Classes
  <2>1. Classes[k].name \in DOMAIN Symbols /\ Classes[k].name \notin BuiltinClass
    BY <1>1, SymbolsAre, ClassFacts
  <2>2. {i \in DOMAIN Classes : Classes[i].name = Classes[k].name} = {k}
    BY <1>1, ClassFacts
  <2>3. UNION {Range(Classes[i].fields) :
                 i \in {i \in DOMAIN Classes : Classes[i].name = Classes[k].name}}
          = Range(Classes[k].fields)
    BY <2>2
  <2>. QED BY <2>1, <2>3 DEF Init
<1>3. \A c \in BuiltinClass : field_types[c] = BuiltinFields[c]
  BY <1>1, SymbolsAre DEF Init
<1>4. FieldsTyped(field_types)
  <2>. SUFFICES ASSUME NEW c \in DOMAIN Symbols, NEW n \in DOMAIN field_types[c]
                PROVE  IsType(field_types[c][n])
    BY DEF FieldsTyped
  <2>1. CASE c \in BuiltinClass
    <3>1. BuiltinFields[c][n] \in BuiltinClass
      BY <1>3, <2>1, BuiltinFieldsAre
    <3>. QED BY <1>1, <1>3, <2>1, <3>1, SymbolsAre DEF IsType, IsClass
  <2>2. CASE c \notin BuiltinClass
    <3>1. PICK k \in DOMAIN Classes : Classes[k].name = c
      BY <1>1, <2>2, SymbolsAre DEF ClassNames
    <3>. QED BY <1>2, <3>1 DEF IsType
  <2>. QED BY <2>1, <2>2
<1>5. FieldsFine(field_types)
  <2>1. DOMAIN field_types = DOMAIN Symbols
    BY DEF Init
  <2>. QED BY <1>2, <1>3, <1>4, <2>1 DEF FieldsFine
<1>6. ScopesFine(scopes) /\ DOMAIN scopes = {}
  <2>1. DOMAIN scopes = {}
    BY DEF Init
  <2>. QED BY <2>1 DEF ScopesFine
<1>7. WalkFine(phase, cls, kind, item, step, scopes, errors, collected)
  <2>1. /\ phase = "fields" /\ cls = 1 /\ kind = "fields" /\ item = 1 /\ step = "idle"
        /\ errors = FALSE /\ collected = <<>>
    BY DEF Init
  <2>2. cls \in Nat \ {0} /\ item \in Nat \ {0}
    BY <2>1
  <2>3. errors \in BOOLEAN
    BY <2>1, Zenon
  <2>. QED BY <1>6, <2>1, <2>2, <2>3, Zenon DEF WalkFine
<1>8. log = <<>> /\ collected = <<>> /\ DOMAIN log = {} /\ DOMAIN collected = {}
      /\ Len(log) = 0 /\ Len(collected) = 0 /\ IsSeq(log) /\ IsSeq(collected)
  <2>1. log = <<>> /\ collected = <<>>
    BY DEF Init
  <2>2. \A S : <<>> \in Seq(S)
    OBVIOUS
  <2>. QED BY <2>1, <2>2 DEF IsSeq
<1>9. LogFine(log, field_types, scopes)
  BY <1>8 DEF LogFine
<1>10. ProgressFine(phase, cls, item, field_types, errors, log)
  <2>1. \A k \in DOMAIN Classes : \A j \in DOMAIN Classes[k].fields :
          ~Passed(k, j, 1, 1) /\ Classes[k].fields[j] \in Range(Classes[k].fields)
    <3>. TAKE k \in DOMAIN Classes
    <3>1. k \in Nat \ {0} /\ Classes[k].fields \in Seq(STRING)
      BY <1>1, ClassFacts DEF Declaration
    <3>. QED BY <3>1 DEF Passed, Range
  <2>2. phase = "fields" /\ cls = 1 /\ item = 1
    BY DEF Init
  <2>. QED BY <1>2, <1>8, <2>1, <2>2 DEF ProgressFine
<1>11. CollectedFine(collected, log, field_types, scopes)
  BY <1>8 DEF CollectedFine, AgainFine, BindFine, FitFine
<1>12. AbortFine(phase, cls, kind, item, collected, log, field_types, scopes)
  BY DEF AbortFine, Init
<1>. QED BY <1>1, <1>5, <1>6, <1>7, <1>9, <1>10, <1>11, <1>12 DEF IInv

-----------------------------------------------------------------------------
(* The field checker.                                                      *)

LEMMA ClassScopeGrows ==
  ASSUME program \in DOMAIN Inputs, NEW fields, NEW fields2, NEW c \in DOMAIN Symbols,
         \A d \in DOMAIN Symbols :
           /\ DOMAIN fields2[d] = DOMAIN fields[d]
           /\ \A n \in DOMAIN fields[d] : Firmer(fields[d][n], fields2[d][n])
  PROVE  Older([cls |-> c, variables |-> Shown(fields, c), fields |-> fields],
               [cls |-> c, variables |-> Shown(fields2, c), fields |-> fields2])
<1>1. \A k \in DOMAIN Symbols[c].chain : Symbols[c].chain[k] \in DOMAIN Symbols
  BY SymbolsAre
<1>2. \A n : Declaring(fields, c, n) = Declaring(fields2, c, n)
  BY <1>1 DEF Declaring
<1>3. \A n \in DOMAIN Shown(fields, c) :
        n \in DOMAIN Shown(fields2, c) /\ Firmer(Shown(fields, c)[n], Shown(fields2, c)[n])
  <2>. TAKE n \in DOMAIN Shown(fields, c)
  <2>1. n \in DOMAIN Shown(fields2, c)
    BY <1>2, ShownFacts
  <2> DEFINE d == Symbols[c].chain[Min(Declaring(fields, c, n))]
  <2>2. /\ d \in DOMAIN Symbols /\ n \in DOMAIN fields[d]
        /\ Shown(fields, c)[n] = fields[d][n]
    BY ShownFacts
  <2>3. Shown(fields2, c)[n] = fields2[d][n]
    BY <1>2, <2>1, ShownFacts
  <2>. QED BY <2>1, <2>2, <2>3
<1>. QED BY <1>3 DEF Older

\* Giving field n of class c its type changes no other field of the program.
WithType(fields, c, n, type) == [fields EXCEPT ![c][n] = type]
SameBut(fields, fields2, k, i) ==
  \A j \in DOMAIN Classes : \A x \in DOMAIN Classes[j].fields :
    ~(j = k /\ x = i) =>
      fields2[Classes[j].name][Classes[j].fields[x]] = fields[Classes[j].name][Classes[j].fields[x]]
ClassScopesGrow(fields, fields2) ==
  \A c \in DOMAIN Symbols :
    Older([cls |-> c, variables |-> Shown(fields, c), fields |-> fields],
          [cls |-> c, variables |-> Shown(fields2, c), fields |-> fields2])

LEMMA FieldTyped ==
  ASSUME program \in DOMAIN Inputs, NEW fields, FieldsFine(fields),
         NEW k \in DOMAIN Classes, NEW i \in DOMAIN Classes[k].fields, NEW type, IsType(type),
         NEW name, name = Classes[k].fields[i],
         NEW fields2, fields2 = WithType(fields, Classes[k].name, name, type),
         fields[Classes[k].name][name] = Unknown
  PROVE  /\ FieldsFine(fields2)
         /\ fields2[Classes[k].name][name] = type
         /\ SameBut(fields, fields2, k, i)
         /\ ClassScopesGrow(fields, fields2)
<1> DEFINE c == Classes[k].name
<1>1. DOMAIN fields = DOMAIN Symbols /\ c \in DOMAIN fields /\ c \notin BuiltinClass
  BY SymbolsAre, ClassFacts DEF FieldsFine
<1>2. name \in DOMAIN fields[c]
  BY DEF FieldsFine, Range
<1>3. DOMAIN fields2 = DOMAIN fields /\ \A d \in DOMAIN fields : d # c => fields2[d] = fields[d]
  BY <1>1 DEF WithType
<1>4. /\ DOMAIN fields2[c] = DOMAIN fields[c] /\ fields2[c][name] = type
      /\ \A n \in DOMAIN fields[c] : n # name => fields2[c][n] = fields[c][n]
  BY <1>1, <1>2 DEF WithType
<1>5. \A d \in DOMAIN Symbols :
        /\ DOMAIN fields2[d] = DOMAIN fields[d]
        /\ \A n \in DOMAIN fields[d] :
             Firmer(fields[d][n], fields2[d][n]) /\ (fields2[d][n] = fields[d][n] \/ fields2[d][n] = type)
  BY <1>1, <1>3, <1>4 DEF Firmer
<1>6. FieldsTyped(fields2)
  BY <1>5 DEF FieldsTyped, FieldsFine
<1>7. FieldsFine(fields2)
  <2>1. \A b \in BuiltinClass : b \in DOMAIN fields /\ b # c
    BY <1>1, SymbolsAre
  <2>2. \A b \in BuiltinClass : fields2[b] = BuiltinFields[b]
    BY <1>3, <2>1 DEF FieldsFine
  <2>3. \A j \in DOMAIN Classes : DOMAIN fields2[Classes[j].name] = Range(Classes[j].fields)
    BY <1>5, SymbolsAre DEF FieldsFine
  <2>. QED BY <1>1, <1>3, <1>6, <2>2, <2>3 DEF FieldsFine
<1>8. ASSUME NEW j \in DOMAIN Classes, NEW x \in DOMAIN Classes[j].fields, ~(j = k /\ x = i)
      PROVE  fields2[Classes[j].name][Classes[j].fields[x]]
               = fields[Classes[j].name][Classes[j].fields[x]]
  <2>1. CASE j # k
    <3>1. Classes[j].name # c /\ Classes[j].name \in DOMAIN fields
      BY <1>1, <2>1, ClassFacts, SymbolsAre
    <3>. QED BY <1>3, <3>1
  <2>2. CASE j = k
    <3>1. IsInjective(Classes[k].fields)
      BY ClassFacts
    <3>2. Classes[k].fields[x] # name
      BY <1>8, <2>2, <3>1 DEF IsInjective
    <3>3. Classes[k].fields[x] \in DOMAIN fields[c]
      BY <1>8, <2>2 DEF FieldsFine, Range
    <3>. QED BY <1>4, <2>2, <3>2, <3>3
  <2>. QED BY <2>1, <2>2
<1>9. \A d \in DOMAIN Symbols :
        Older([cls |-> d, variables |-> Shown(fields, d), fields |-> fields],
              [cls |-> d, variables |-> Shown(fields2, d), fields |-> fields2])
  BY <1>5, ClassScopeGrows
<1>. QED BY <1>4, <1>7, <1>8, <1>9 DEF SameBut, ClassScopesGrow

LEMMA InferOne ==
  \A e, s : InferAll(<<e>>, s) = <<Infer(e, s)>>
BY DEF InferAll

\* What the later steps use of the invariant and of the walk.
LEMMA WalkFacts ==
  ASSUME IInv
  PROVE  /\ program \in DOMAIN Inputs /\ cls \in Nat \ {0} /\ item \in Nat \ {0}
         /\ Len(Classes) \in Nat /\ DOMAIN Classes = 1..Len(Classes)
         /\ \A k \in DOMAIN Classes :
              /\ Classes[k].name \in DOMAIN Symbols
              /\ Len(Classes[k].fields) \in Nat
              /\ DOMAIN Classes[k].fields = 1..Len(Classes[k].fields)
         /\ Input.exprs \subseteq Expression
<1>1. program \in DOMAIN Inputs /\ cls \in Nat \ {0} /\ item \in Nat \ {0}
  BY DEF IInv, WalkFine
<1>2. Len(Classes) \in Nat /\ DOMAIN Classes = 1..Len(Classes)
  BY <1>1, ClassFacts
<1>3. \A k \in DOMAIN Classes : Classes[k].fields \in Seq(STRING)
  BY <1>1, ClassFacts DEF Declaration
<1>4. Input.exprs \subseteq Expression
  BY <1>1, InputFacts DEF IsInput, Expression
<1>. QED BY <1>1, <1>2, <1>3, <1>4, SymbolsAre

LEMMA NothingCollected ==
  ASSUME NEW logged, NEW fields, NEW locals, IsSeq(logged)
  PROVE  CollectedFine(<<>>, logged, fields, locals)
<1>1. \A S : <<>> \in Seq(S)
  OBVIOUS
<1>2. PICK S : logged \in Seq(S)
  BY DEF IsSeq
<1>3. Len(<<>>) <= Len(logged) /\ DOMAIN <<>> = {}
  BY <1>2
<1>. QED BY <1>1, <1>3 DEF CollectedFine, AgainFine, BindFine, FitFine, IsSeq

\* The compiler is aborted, with a variable in sight that hides a class.
LEMMA AbortStep ==
  ASSUME IInv, Abort,
         IF Len(collected) < Len(log) /\ cls > Len(Classes)
           THEN \/ log[Len(collected) + 1].what = "member"
                \/ ShadowsClass(ScopeFor(field_types, scopes, log[Len(collected) + 1]).variables)
           ELSE ShadowsClass(IF kind = "fields" THEN Shown(field_types, Classes[cls].name)
                             ELSE ScopeAt(field_types, scopes, <<cls, kind, item>>).variables)
  PROVE  IInv'
<1>1. /\ program' = program /\ program \in DOMAIN Inputs
      /\ phase' = "aborted" /\ step' = "idle" /\ cls' = cls /\ kind' = kind /\ item' = item
      /\ field_types' = field_types /\ scopes' = scopes /\ errors' = errors
      /\ log' = log /\ collected' = collected
  BY DEF Abort, IInv
<1>2. WalkFine(phase', cls', kind', item', step', scopes', errors', collected')
  <2>1. cls' \in Nat \ {0} /\ item' \in Nat \ {0}
    BY <1>1, WalkFacts
  <2>2. errors' \in BOOLEAN
    BY <1>1, Zenon DEF IInv, WalkFine
  <2>3. phase' = "aborted" /\ step' = "idle"
    BY <1>1
  <2>. QED BY <2>1, <2>2, <2>3 DEF WalkFine
<1>3. ProgressFine(phase', cls', item', field_types', errors', log')
  <2>1. \A x, y \in DOMAIN log' :
          x < y /\ log'[y].what = "field" => log'[x].what = "field"
    BY <1>1 DEF IInv, ProgressFine
  <2>2. phase' \notin {"fields", "methods", "collect"}
    BY <1>1
  <2>. QED BY <2>1, <2>2, Zenon DEF ProgressFine
<1>4. AbortFine(phase', cls', kind', item', collected', log', field_types', scopes')
  BY <1>1 DEF AbortFine
<1>5. /\ FieldsFine(field_types') /\ ScopesFine(scopes')
      /\ LogFine(log', field_types', scopes')
      /\ CollectedFine(collected', log', field_types', scopes')
  BY <1>1 DEF IInv
<1>. QED BY <1>1, <1>2, <1>3, <1>4, <1>5, InvPrimed

-----------------------------------------------------------------------------
LEMMA FieldKeeps ==
  ASSUME IInv, Field
  PROVE  IInv'
<1> DEFINE s    == FieldScope(Name)
           name == Classes[cls].fields[item]
<1>1. PICK e \in Input.exprs : \E type \in {Infer(e, s)} :
        (type = "aborts" /\ Abort) \/ CheckField(e, type)
  BY DEF Field
<1> DEFINE type == Infer(e, s)
<1>2. (type = "aborts" /\ Abort) \/ CheckField(e, type)
  BY <1>1
<1>3. /\ phase = "fields" /\ cls \in DOMAIN Classes /\ item \in DOMAIN Classes[cls].fields
      /\ kind = "fields" /\ DOMAIN scopes = {} /\ step = "idle" /\ collected = <<>>
  <2>1. phase = "fields" /\ cls \in DOMAIN Classes /\ item <= Len(Classes[cls].fields)
    BY DEF Field, AtField
  <2>2. WalkFine(phase, cls, kind, item, step, scopes, errors, collected)
    BY DEF IInv
  <2>3. kind = "fields" /\ DOMAIN scopes = {} /\ step = "idle" /\ collected = <<>>
    BY <2>1, <2>2 DEF WalkFine
  <2>4. item \in 1..Len(Classes[cls].fields)
    BY <2>1, WalkFacts
  <2>. QED BY <2>1, <2>3, <2>4, WalkFacts
<1>4. /\ program \in DOMAIN Inputs /\ FieldsFine(field_types) /\ ScopesFine(scopes)
      /\ LogFine(log, field_types, scopes)
      /\ ProgressFine(phase, cls, item, field_types, errors, log)
  BY DEF IInv
<1>5. s = [cls |-> Name, variables |-> Shown(field_types, Name), fields |-> field_types]
  BY ScopesAre
<1>6. Name \in DOMAIN Symbols /\ Name = Classes[cls].name
  BY <1>3, WalkFacts DEF Name
<1>7. IsScope(s) /\ s.variables = Shown(field_types, Name)
  BY <1>4, <1>5, <1>6, ClassScopeFine
<1>8. e \in Expression /\ type \in Outcome /\ (type = "aborts" => ShadowsClass(s.variables))
  BY <1>1, <1>4, <1>7, WalkFacts, InferOutcome
<1>9. CASE type = "aborts" /\ Abort
  <2>1. ShadowsClass(Shown(field_types, Classes[cls].name))
    BY <1>6, <1>7, <1>8, <1>9
  <2>2. ~(cls > Len(Classes))
    BY <1>3, WalkFacts
  <2>. QED BY <1>3, <1>9, <2>1, <2>2, AbortStep
<1>10. CASE CheckField(e, type)
  <2>1. /\ program' = program /\ phase' = phase /\ scopes' = scopes /\ collected' = collected
        /\ item' = item + 1 /\ step' = "idle" /\ cls' = cls /\ kind' = kind
    BY <1>10 DEF CheckField, Leave
  <2>2. WalkFine(phase', cls', kind', item', step', scopes', errors', collected')
    <3>1. cls' \in Nat \ {0} /\ item' \in Nat \ {0}
      BY <2>1, WalkFacts
    <3>2. errors' \in BOOLEAN
      <4>1. errors' = errors \/ errors' = TRUE
        BY <1>10, Zenon DEF CheckField, Log, Report
      <4>. QED BY <4>1, Zenon DEF IInv, WalkFine
    <3>3. phase' = "fields" /\ kind' = "fields" /\ step' = "idle" /\ collected' = <<>>
          /\ DOMAIN scopes' = {}
      BY <1>3, <2>1
    <3>. QED BY <3>1, <3>2, <3>3 DEF WalkFine
  <2>3. AbortFine(phase', cls', kind', item', collected', log', field_types', scopes')
    BY <1>3, <2>1 DEF AbortFine
  <2>4. \A k \in DOMAIN Classes : \A j \in DOMAIN Classes[k].fields :
          Passed(k, j, cls', item') <=> (Passed(k, j, cls, item) \/ (k = cls /\ j = item))
    BY <2>1, WalkFacts DEF Passed
  <2>5. \A k \in DOMAIN Classes : \A j \in DOMAIN Classes[k].fields :
          ~Passed(k, j, cls, item) => field_types[Classes[k].name][Classes[k].fields[j]] = Unknown
    BY <1>3, <1>4 DEF ProgressFine
  <2>6. \A j \in DOMAIN log :
          log[j].what = "field" /\ Passed(log[j].at[1], log[j].at[3], cls, item)
    BY <1>3, <1>4 DEF ProgressFine
  <2>7. ~Passed(cls, item, cls, item)
    BY WalkFacts DEF Passed
  <2>8. CASE type = "throws" /\ Report /\ field_types' = field_types
    <3>1. log' = log /\ errors' = TRUE
      BY <2>8 DEF Report
    <3>2. \A j \in DOMAIN log :
            log[j].at[1] \in DOMAIN Classes /\ log[j].at[3] \in DOMAIN Classes[log[j].at[1]].fields
      BY <1>4, <2>6 DEF LogFine, EntryFine
    <3>3. ProgressFine(phase', cls', item', field_types', errors', log')
      <4>1. \A k \in DOMAIN Classes : \A j \in DOMAIN Classes[k].fields :
              ~Passed(k, j, cls', item')
                => field_types'[Classes[k].name][Classes[k].fields[j]] = Unknown
        BY <2>4, <2>5, <2>8
      <4>2. \A j \in DOMAIN log' :
              log'[j].what = "field" /\ Passed(log'[j].at[1], log'[j].at[3], cls', item')
        BY <2>4, <2>6, <3>1, <3>2
      <4>. QED BY <3>1, <4>1, <4>2 DEF ProgressFine
    <3>4. LogFine(log', field_types', scopes') /\ FieldsFine(field_types') /\ ScopesFine(scopes')
      BY <1>4, <2>1, <2>8, <3>1
    <3>5. CollectedFine(collected', log', field_types', scopes')
      BY <1>3, <2>1, <3>4, NothingCollected DEF LogFine
    <3>. QED BY <1>4, <2>1, <2>2, <2>3, <3>3, <3>4, <3>5, InvPrimed
  <2>9. CASE /\ IsType(type) /\ field_types' = [field_types EXCEPT ![Name][name] = type]
             /\ Log("field", name, <<e>>, <<type>>)
    <3> DEFINE entry == Entry("field", name, <<e>>, <<type>>)
    <3>1. log' = Append(log, entry) /\ errors' = errors
      BY <2>9 DEF Log
    <3>2. entry = [at |-> <<cls, kind, item>>, what |-> "field", name |-> name,
                   exprs |-> <<e>>, types |-> <<type>>]
      BY DEF Entry, Here
    <3>3. field_types[Classes[cls].name][name] = Unknown
      BY <1>3, <2>5, <2>7
    <3>4. /\ FieldsFine(field_types') /\ field_types'[Classes[cls].name][name] = type
          /\ SameBut(field_types, field_types', cls, item)
          /\ ClassScopesGrow(field_types, field_types')
      <4>. HIDE DEF type, name
      <4>1. field_types' = WithType(field_types, Classes[cls].name, name, type)
        BY <1>6, <2>9 DEF WithType
      <4>2. name = Classes[cls].fields[item]
        BY DEF name
      <4>3. IsType(type)
        BY <2>9
      <4>4. field_types[Classes[cls].name][name] = Unknown
        BY <3>3
      <4>5. cls \in DOMAIN Classes /\ item \in DOMAIN Classes[cls].fields
        BY <1>3
      <4>6. program \in DOMAIN Inputs /\ FieldsFine(field_types)
        BY <1>4
      <4>. QED BY <4>1, <4>2, <4>3, <4>4, <4>5, <4>6, FieldTyped
    <3>. HIDE DEF entry, name, type, s
    <3>5. LogFine(log, field_types', scopes')
      <4>1. ASSUME NEW j \in DOMAIN log
            PROVE  EntryFine(log[j], field_types', scopes)
        <5>1. EntryFine(log[j], field_types, scopes) /\ log[j].what = "field"
          BY <1>4, <2>6 DEF LogFine
        <5>2. /\ log[j].at[1] \in DOMAIN Classes
              /\ log[j].at[3] \in DOMAIN Classes[log[j].at[1]].fields
              /\ log[j].name = Classes[log[j].at[1]].fields[log[j].at[3]]
          BY <5>1 DEF EntryFine
        <5>3. ~(log[j].at[1] = cls /\ log[j].at[3] = item)
          BY <2>6, <2>7
        <5>4. field_types'[Classes[log[j].at[1]].name][log[j].name]
                = field_types[Classes[log[j].at[1]].name][log[j].name]
          BY <3>4, <5>2, <5>3 DEF SameBut
        <5>5. Older(ScopeFor(field_types, scopes, log[j]), ScopeFor(field_types', scopes, log[j]))
          BY <3>4, <5>1, <5>2, WalkFacts DEF ScopeFor, ClassScopesGrow
        <5>. QED BY <1>4, <5>1, <5>4, <5>5, EntryKept
      <4>. QED BY <1>4, <2>1, <4>1 DEF LogFine
    <3>6. EntryFine(entry, field_types', scopes')
      <4>1. /\ entry.at[1] = cls /\ entry.at[3] = item /\ entry.what = "field"
            /\ entry.name = name /\ entry.exprs = <<e>> /\ entry.types = <<type>>
        BY <3>2
      <4>2. Older(s, ScopeFor(field_types', scopes', entry))
        <5>1. ScopeFor(field_types', scopes', entry) =
                [cls |-> Name, variables |-> Shown(field_types', Name), fields |-> field_types']
          BY <1>6, <4>1 DEF ScopeFor
        <5>. QED BY <1>5, <1>6, <3>4, <5>1 DEF s, ClassScopesGrow
      <4>3. entry.types = InferAll(entry.exprs, s)
        BY <4>1, InferOne DEF type
      <4>4. Earlier(s, field_types', scopes', entry)
        BY <1>7, <4>2, <4>3 DEF Earlier
      <4>5. <<e>> \in Seq(Expression) /\ Len(<<e>>) = 1 /\ \A k \in DOMAIN <<type>> : IsType(<<type>>[k])
        BY <1>8, <2>9
      <4>. QED BY <1>3, <3>4, <4>1, <4>4, <4>5 DEF EntryFine, name
    <3>7. /\ LogFine(log', field_types', scopes')
          /\ Len(log) \in Nat /\ DOMAIN log = 1..Len(log) /\ DOMAIN log' = 1..Len(log) + 1
          /\ \A k \in DOMAIN log : log'[k] = log[k]
          /\ log'[Len(log) + 1] = entry
      BY <1>4, <3>1, <3>5, <3>6, LogGrows
    <3>8. /\ entry.at[1] = cls /\ entry.at[3] = item /\ entry.what = "field" /\ entry.name = name
      BY <3>2
    <3>9. ProgressFine(phase', cls', item', field_types', errors', log')
      <4>1. \A k \in DOMAIN Classes : \A j \in DOMAIN Classes[k].fields :
              ~Passed(k, j, cls', item')
                => field_types'[Classes[k].name][Classes[k].fields[j]] = Unknown
        BY <2>4, <2>5, <3>4 DEF SameBut
      <4>2. \A j \in DOMAIN log' :
              log'[j].what = "field" /\ Passed(log'[j].at[1], log'[j].at[3], cls', item')
        <5>. TAKE j \in DOMAIN log'
        <5>1. CASE j = Len(log) + 1
          BY <1>3, <2>4, <3>7, <3>8, <5>1
        <5>2. CASE j # Len(log) + 1
          <6>1. j \in DOMAIN log
            BY <3>7, <5>2
          <6>2. /\ log[j].at[1] \in DOMAIN Classes
                /\ log[j].at[3] \in DOMAIN Classes[log[j].at[1]].fields
            BY <1>4, <2>6, <6>1 DEF LogFine, EntryFine
          <6>. QED BY <2>4, <2>6, <3>7, <6>1, <6>2
        <5>. QED BY <5>1, <5>2
      <4>3. ASSUME ~errors', NEW k \in DOMAIN Classes, NEW j \in DOMAIN Classes[k].fields,
                   Passed(k, j, cls', item')
            PROVE  \E x \in DOMAIN log' :
                     log'[x].what = "field" /\ log'[x].at[1] = k
                     /\ log'[x].name = Classes[k].fields[j]
        <5>1. CASE Passed(k, j, cls, item)
          <6>1. PICK x \in DOMAIN log : log[x].what = "field" /\ log[x].at[1] = k
                                        /\ log[x].name = Classes[k].fields[j]
            <7>1. ~errors
              BY <3>1, <4>3
            <7>. QED BY <1>3, <1>4, <5>1, <7>1 DEF ProgressFine
          <6>2. x \in DOMAIN log' /\ log'[x] = log[x]
            BY <3>7
          <6>. QED BY <6>1, <6>2
        <5>2. CASE k = cls /\ j = item
          <6>1. Len(log) + 1 \in DOMAIN log'
            BY <3>7
          <6>. QED BY <3>7, <3>8, <5>2, <6>1 DEF name
        <5>. QED BY <2>4, <4>3, <5>1, <5>2
      <4>4. \A x, y \in DOMAIN log' :
              x < y /\ log'[y].what = "field" => log'[x].what = "field"
        BY <4>2
      <4>. QED BY <1>3, <2>1, <4>1, <4>2, <4>3, <4>4 DEF ProgressFine
    <3>10. CollectedFine(collected', log', field_types', scopes')
      BY <1>3, <2>1, <3>7, NothingCollected DEF LogFine
    <3>. QED BY <1>4, <2>1, <2>2, <2>3, <3>4, <3>7, <3>9, <3>10, InvPrimed
  <2>. QED BY <1>6, <1>10, <2>8, <2>9 DEF CheckField
<1>. QED BY <1>2, <1>9, <1>10

\* A step of the walk that leaves the tables, the log and what is collected alone.
LEMMA WalkStep ==
  ASSUME IInv, program' = program, phase' # "aborted",
         UNCHANGED <<field_types, scopes, log, collected>>,
         cls' \in Nat \ {0}, item' \in Nat \ {0}, errors' \in BOOLEAN,
         phase' \in {"fields", "methods", "collect", "done", "rejected"},
         phase' = "fields" => kind' = "fields" /\ DOMAIN scopes' = {},
         phase' = "methods" => kind' \in {"methods", "ctors"},
         phase' \in {"fields", "methods"} => collected' = <<>>,
         step' # "idle" =>
           phase' = "methods" /\ cls' \in DOMAIN Classes /\ <<cls', kind', item'>> \in DOMAIN scopes',
         phase' = "collect" => ~errors' /\ cls' > Len(Classes),
         ProgressFine(phase', cls', item', field_types', errors', log')
  PROVE  IInv'
<1>1. WalkFine(phase', cls', kind', item', step', scopes', errors', collected')
  BY DEF WalkFine
<1>2. /\ FieldsFine(field_types') /\ ScopesFine(scopes')
      /\ LogFine(log', field_types', scopes')
      /\ CollectedFine(collected', log', field_types', scopes')
  BY DEF IInv
<1>3. AbortFine(phase', cls', kind', item', collected', log', field_types', scopes')
  BY DEF AbortFine
<1>. QED BY <1>1, <1>2, <1>3, InvPrimed DEF IInv

LEMMA EntriesAtFields ==
  ASSUME IInv, phase = "fields"
  PROVE  \A j \in DOMAIN log :
           /\ log[j].what = "field" /\ Passed(log[j].at[1], log[j].at[3], cls, item)
           /\ log[j].at[1] \in DOMAIN Classes
           /\ log[j].at[3] \in DOMAIN Classes[log[j].at[1]].fields
BY DEF IInv, ProgressFine, LogFine, EntryFine

LEMMA ErrorsAreBoolean == IInv => errors \in BOOLEAN
BY Zenon DEF IInv, WalkFine

LEMMA NextFieldClassKeeps ==
  ASSUME IInv, NextFieldClass
  PROVE  IInv'
<1>1. /\ phase = "fields" /\ cls \in DOMAIN Classes /\ item > Len(Classes[cls].fields)
      /\ cls' = cls + 1 /\ item' = 1 /\ program' = program /\ phase' = phase /\ kind' = kind
      /\ step' = step /\ field_types' = field_types /\ scopes' = scopes /\ errors' = errors
      /\ log' = log /\ collected' = collected
  BY DEF NextFieldClass
<1>2. WalkFine(phase, cls, kind, item, step, scopes, errors, collected)
  BY DEF IInv
<1>3. kind = "fields" /\ DOMAIN scopes = {} /\ step = "idle" /\ collected = <<>>
  BY <1>1, <1>2 DEF WalkFine
<1>4. \A k \in DOMAIN Classes : \A j \in DOMAIN Classes[k].fields :
        Passed(k, j, cls', item') <=> Passed(k, j, cls, item)
  <2>. TAKE k \in DOMAIN Classes
  <2>. TAKE j \in DOMAIN Classes[k].fields
  <2>1. /\ k \in Nat /\ j \in Nat /\ j >= 1 /\ cls \in Nat /\ item \in Nat
        /\ Len(Classes[k].fields) \in Nat /\ j <= Len(Classes[k].fields)
    BY WalkFacts
  <2>2. CASE k = cls
    BY <1>1, <2>1, <2>2 DEF Passed
  <2>3. CASE k # cls
    BY <1>1, <2>1, <2>3 DEF Passed
  <2>. QED BY <2>2, <2>3
<1>5. ProgressFine(phase, cls, item, field_types, errors, log)
  BY DEF IInv
<1>6. ProgressFine(phase', cls', item', field_types', errors', log')
  <2>1. \A k \in DOMAIN Classes : \A j \in DOMAIN Classes[k].fields :
          ~Passed(k, j, cls', item')
            => field_types'[Classes[k].name][Classes[k].fields[j]] = Unknown
    BY <1>1, <1>4, <1>5 DEF ProgressFine
  <2>2. \A j \in DOMAIN log' :
          log'[j].what = "field" /\ Passed(log'[j].at[1], log'[j].at[3], cls', item')
    BY <1>1, <1>4, EntriesAtFields
  <2>3. ASSUME ~errors', NEW k \in DOMAIN Classes, NEW j \in DOMAIN Classes[k].fields,
               Passed(k, j, cls', item')
        PROVE  \E x \in DOMAIN log' :
                 log'[x].what = "field" /\ log'[x].at[1] = k
                 /\ log'[x].name = Classes[k].fields[j]
    <3>1. Passed(k, j, cls, item)
      BY <1>4, <2>3
    <3>2. ~errors
      BY <1>1, <2>3
    <3>. QED BY <1>1, <1>5, <3>1, <3>2 DEF ProgressFine
  <2>4. \A x, y \in DOMAIN log' :
          x < y /\ log'[y].what = "field" => log'[x].what = "field"
    BY <2>2
  <2>. QED BY <1>1, <2>1, <2>2, <2>3, <2>4 DEF ProgressFine
<1>7. cls' \in Nat \ {0} /\ item' \in Nat \ {0}
  BY <1>1, WalkFacts
<1>8. errors' \in BOOLEAN
  BY <1>1, ErrorsAreBoolean
<1>. QED BY <1>1, <1>3, <1>6, <1>7, <1>8, WalkStep

LEMMA EndFieldsKeeps ==
  ASSUME IInv, EndFields
  PROVE  IInv'
<1>1. /\ phase = "fields" /\ cls > Len(Classes)
      /\ phase' = (IF errors THEN "rejected" ELSE "methods")
      /\ cls' = 1 /\ kind' = "methods" /\ item' = 1 /\ program' = program
      /\ step' = step /\ field_types' = field_types /\ scopes' = scopes /\ errors' = errors
      /\ log' = log /\ collected' = collected
  BY DEF EndFields
<1>2. WalkFine(phase, cls, kind, item, step, scopes, errors, collected)
  BY DEF IInv
<1>3. step = "idle" /\ collected = <<>>
  BY <1>1, <1>2 DEF WalkFine
<1>4. ProgressFine(phase, cls, item, field_types, errors, log)
  BY DEF IInv
<1>5. phase' \in {"rejected", "methods"} /\ (phase' = "methods" => ~errors)
  BY <1>1
<1>6. ProgressFine(phase', cls', item', field_types', errors', log')
  <2>1. ASSUME ~errors', NEW k \in DOMAIN Classes, NEW j \in DOMAIN Classes[k].fields
        PROVE  \E x \in DOMAIN log' :
                 log'[x].what = "field" /\ log'[x].at[1] = k
                 /\ log'[x].name = Classes[k].fields[j]
    <3>1. Passed(k, j, cls, item)
      BY <1>1, WalkFacts DEF Passed
    <3>2. ~errors
      BY <1>1, <2>1
    <3>. QED BY <1>1, <1>4, <3>1, <3>2 DEF ProgressFine
  <2>2. \A x, y \in DOMAIN log' :
          x < y /\ log'[y].what = "field" => log'[x].what = "field"
    BY <1>1, EntriesAtFields
  <2>. QED BY <1>5, <2>1, <2>2 DEF ProgressFine
<1>7. cls' \in Nat \ {0} /\ item' \in Nat \ {0}
  BY <1>1
<1>8. errors' \in BOOLEAN
  BY <1>1, ErrorsAreBoolean
<1>. QED BY <1>1, <1>3, <1>5, <1>6, <1>7, <1>8, WalkStep

\* After the fields, what ProgressFine says does not depend on where the walk is.
LEMMA ProgressKept ==
  ASSUME NEW ph, NEW c, NEW i, NEW ph2, NEW c2, NEW i2, NEW fields, NEW er, NEW er2, NEW logged,
         ProgressFine(ph, c, i, fields, er, logged), ph \in {"methods", "collect"}, ph2 # "fields",
         er => er2
  PROVE  ProgressFine(ph2, c2, i2, fields, er2, logged)
BY DEF ProgressFine

LEMMA NextKindKeeps ==
  ASSUME IInv, NextKind
  PROVE  IInv'
<1>1. /\ phase = "methods" /\ cls \in DOMAIN Classes /\ step = "idle"
      /\ IF kind = "methods" THEN kind' = "ctors" /\ cls' = cls
         ELSE kind' = "methods" /\ cls' = cls + 1
      /\ item' = 1 /\ program' = program /\ phase' = phase
      /\ step' = step /\ field_types' = field_types /\ scopes' = scopes /\ errors' = errors
      /\ log' = log /\ collected' = collected
  BY DEF NextKind
<1>2. WalkFine(phase, cls, kind, item, step, scopes, errors, collected)
  BY DEF IInv
<1>3. collected = <<>>
  BY <1>1, <1>2 DEF WalkFine
<1>4. ProgressFine(phase', cls', item', field_types', errors', log')
  BY <1>1, ProgressKept DEF IInv
<1>5. cls' \in Nat \ {0} /\ item' \in Nat \ {0} /\ kind' \in {"methods", "ctors"}
  BY <1>1, WalkFacts
<1>6. errors' \in BOOLEAN
  BY <1>1, ErrorsAreBoolean
<1>. QED BY <1>1, <1>3, <1>4, <1>5, <1>6, WalkStep

LEMMA EndMethodsKeeps ==
  ASSUME IInv, EndMethods
  PROVE  IInv'
<1>1. /\ phase = "methods" /\ cls > Len(Classes)
      /\ phase' = (IF errors THEN "rejected" ELSE "collect")
      /\ cls' = cls /\ kind' = kind /\ item' = item /\ program' = program
      /\ step' = step /\ field_types' = field_types /\ scopes' = scopes /\ errors' = errors
      /\ log' = log /\ collected' = collected
  BY DEF EndMethods
<1>2. WalkFine(phase, cls, kind, item, step, scopes, errors, collected)
  BY DEF IInv
<1>3. step = "idle"
  <2>1. cls \notin DOMAIN Classes
    BY <1>1, WalkFacts
  <2>. QED BY <1>2, <2>1 DEF WalkFine
<1>4. phase' \in {"rejected", "collect"} /\ (phase' = "collect" => ~errors')
  BY <1>1
<1>5. ProgressFine(phase', cls', item', field_types', errors', log')
  BY <1>1, <1>4, ProgressKept DEF IInv
<1>6. cls' \in Nat \ {0} /\ item' \in Nat \ {0}
  BY <1>1, WalkFacts
<1>7. errors' \in BOOLEAN
  BY <1>1, ErrorsAreBoolean
<1>. QED BY <1>1, <1>3, <1>4, <1>5, <1>6, <1>7, WalkStep

LEMMA FinishKeeps ==
  ASSUME IInv, Finish
  PROVE  IInv'
<1>1. /\ phase = "collect" /\ phase' = "done"
      /\ cls' = cls /\ kind' = kind /\ item' = item /\ program' = program
      /\ step' = step /\ field_types' = field_types /\ scopes' = scopes /\ errors' = errors
      /\ log' = log /\ collected' = collected
  BY DEF Finish, walk
<1>2. WalkFine(phase, cls, kind, item, step, scopes, errors, collected)
  BY DEF IInv
<1>3. step = "idle"
  BY <1>1, <1>2 DEF WalkFine
<1>4. ProgressFine(phase', cls', item', field_types', errors', log')
  BY <1>1, ProgressKept DEF IInv
<1>5. cls' \in Nat \ {0} /\ item' \in Nat \ {0}
  BY <1>1, WalkFacts
<1>6. errors' \in BOOLEAN
  BY <1>1, ErrorsAreBoolean
<1>. QED BY <1>1, <1>3, <1>4, <1>5, <1>6, WalkStep

LEMMA StutterKeeps ==
  ASSUME IInv, UNCHANGED vars
  PROVE  IInv'
<1>1. /\ program' = program /\ phase' = phase /\ cls' = cls /\ kind' = kind /\ item' = item
      /\ step' = step /\ field_types' = field_types /\ scopes' = scopes /\ errors' = errors
      /\ log' = log /\ collected' = collected
  BY DEF vars
<1>. QED BY <1>1, InvPrimed DEF IInv

(***************************************************************************)
(* The method checker: scopes and the log only grow.                       *)
(***************************************************************************)
LocalsExtend(locals, locals2) ==
  \A f \in DOMAIN locals :
    f \in DOMAIN locals2 /\ Extends(ScopeAt(field_types, locals, f).variables,
                                    ScopeAt(field_types, locals2, f).variables)

LEMMA LocalsSame == \A locals : LocalsExtend(locals, locals)
BY DEF LocalsExtend, Extends

LEMMA MethodStep ==
  ASSUME IInv, phase = "methods", program' = program, phase' = phase,
         UNCHANGED <<field_types, collected>>,
         ScopesFine(scopes'), LocalsExtend(scopes, scopes'),
         \/ log' = log
         \/ \E entry : /\ log' = Append(log, entry) /\ entry.what # "field"
                       /\ EntryFine(entry, field_types, scopes'),
         errors' \in BOOLEAN, errors => errors',
         cls' \in Nat \ {0}, item' \in Nat \ {0}, kind' \in {"methods", "ctors"},
         step' # "idle" => cls' \in DOMAIN Classes /\ <<cls', kind', item'>> \in DOMAIN scopes'
  PROVE  IInv'
<1>1. /\ program \in DOMAIN Inputs /\ FieldsFine(field_types)
      /\ LogFine(log, field_types, scopes)
      /\ ProgressFine(phase, cls, item, field_types, errors, log)
      /\ WalkFine(phase, cls, kind, item, step, scopes, errors, collected)
  BY DEF IInv
<1>2. collected' = <<>> /\ field_types' = field_types
  <2>1. collected = <<>>
    BY <1>1 DEF WalkFine
  <2>. QED BY <2>1
<1>3. LogFine(log, field_types, scopes')
  BY <1>1, LocalsGrow DEF LocalsExtend
<1>4. ProgressFine(phase', cls', item', field_types', errors', log)
  BY <1>1, <1>2, ProgressKept
<1>5. /\ LogFine(log', field_types', scopes')
      /\ ProgressFine(phase', cls', item', field_types', errors', log')
  <2>1. CASE log' = log
    BY <1>2, <1>3, <1>4, <2>1
  <2>2. ASSUME NEW entry, log' = Append(log, entry), entry.what # "field",
               EntryFine(entry, field_types, scopes')
        PROVE  /\ LogFine(log', field_types', scopes')
               /\ ProgressFine(phase', cls', item', field_types', errors', log')
    <3>1. /\ LogFine(log', field_types, scopes')
          /\ Len(log) \in Nat /\ DOMAIN log = 1..Len(log) /\ DOMAIN log' = 1..Len(log) + 1
          /\ \A k \in DOMAIN log : log'[k] = log[k]
          /\ log'[Len(log) + 1] = entry
      BY <1>1, <1>3, <2>2, LogGrows
    <3>2. ASSUME ~errors', NEW k \in DOMAIN Classes, NEW j \in DOMAIN Classes[k].fields
          PROVE  \E x \in DOMAIN log' :
                   log'[x].what = "field" /\ log'[x].at[1] = k
                   /\ log'[x].name = Classes[k].fields[j]
      <4>1. PICK x \in DOMAIN log : log[x].what = "field" /\ log[x].at[1] = k
                                    /\ log[x].name = Classes[k].fields[j]
        BY <1>4, <3>2 DEF ProgressFine
      <4>2. x \in DOMAIN log' /\ log'[x] = log[x]
        BY <3>1
      <4>. QED BY <4>1, <4>2
    <3>3. ASSUME NEW x \in DOMAIN log', NEW y \in DOMAIN log', x < y, log'[y].what = "field"
          PROVE  log'[x].what = "field"
      <4>1. y # Len(log) + 1
        BY <2>2, <3>1, <3>3
      <4>2. x \in DOMAIN log /\ y \in DOMAIN log
        BY <3>1, <3>3, <4>1
      <4>. QED BY <1>4, <3>1, <3>3, <4>2 DEF ProgressFine
    <3>4. phase' = "methods"
      OBVIOUS
    <3>. QED BY <1>2, <3>1, <3>2, <3>3, <3>4 DEF ProgressFine
  <2>. QED BY <2>1, <2>2
<1>6. WalkFine(phase', cls', kind', item', step', scopes', errors', collected')
  BY <1>2 DEF WalkFine
<1>7. CollectedFine(collected', log', field_types', scopes')
  BY <1>2, <1>5, NothingCollected DEF LogFine
<1>8. AbortFine(phase', cls', kind', item', collected', log', field_types', scopes')
  BY DEF AbortFine
<1>. QED BY <1>1, <1>2, <1>5, <1>6, <1>7, <1>8, InvPrimed

-----------------------------------------------------------------------------
\* The scope of a function that is opened, unless it is open already.
LEMMA ParametersTyped ==
  ASSUME program \in DOMAIN Inputs, NEW params \in Seq(Parameter(DOMAIN Symbols))
  PROVE  \A n \in DOMAIN Parameters(params) : IsType(Parameters(params)[n])
<1>. TAKE n \in DOMAIN Parameters(params)
<1> DEFINE named == {k \in DOMAIN params : params[k].name = n}
<1>1. Len(params) \in Nat /\ DOMAIN params = 1..Len(params)
  OBVIOUS
<1>2. named \in SUBSET (1..Len(params)) /\ named # {}
  BY <1>1 DEF Parameters
<1>3. Max(named) \in DOMAIN params
  <2>. HIDE DEF named
  <2>. QED BY <1>1, <1>2, GreatestNumber
<1>4. Parameters(params)[n] = params[Max(named)].type
  BY DEF Parameters
<1>5. params[Max(named)].type \in DOMAIN Symbols
  <2>. HIDE DEF named
  <2>1. params[Max(named)] \in Parameter(DOMAIN Symbols)
    BY <1>3
  <2>2. \A p \in Parameter(DOMAIN Symbols) : p.type \in DOMAIN Symbols
    BY DEF Parameter
  <2>. QED BY <2>1, <2>2
<1>. QED BY <1>4, <1>5 DEF IsType, IsClass

LEMMA OpenScopeGrows ==
  ASSUME IInv, cls \in DOMAIN Classes,
         NEW params \in Seq(Parameter(DOMAIN Symbols)), OpenScope(params)
  PROVE  /\ ScopesFine(scopes') /\ LocalsExtend(scopes, scopes')
         /\ <<cls, kind, item>> \in DOMAIN scopes'
<1>1. DOMAIN scopes' = DOMAIN scopes \cup {Here}
  BY DEF OpenScope, Merge
<1>2. \A f \in DOMAIN scopes : scopes'[f] = scopes[f]
  BY DEF OpenScope, Merge
<1>3. Here \notin DOMAIN scopes => scopes'[Here] = Parameters(params)
  BY DEF OpenScope, Merge
<1>4. LocalsExtend(scopes, scopes')
  BY <1>1, <1>2 DEF LocalsExtend, Extends, ScopeAt
<1>5. ScopesFine(scopes')
  <2>. SUFFICES ASSUME NEW f \in DOMAIN scopes'
                PROVE  /\ f[1] \in DOMAIN Classes
                       /\ \A n \in DOMAIN scopes'[f] : IsType(scopes'[f][n])
    BY DEF ScopesFine
  <2>1. CASE f \in DOMAIN scopes
    BY <1>2, <2>1 DEF IInv, ScopesFine
  <2>2. CASE f \notin DOMAIN scopes
    <3>1. f = Here /\ Here[1] = cls
      BY <1>1, <2>2 DEF Here
    <3>2. scopes'[f] = Parameters(params)
      BY <1>3, <2>2, <3>1
    <3>. QED BY <3>1, <3>2, ParametersTyped DEF IInv
  <2>. QED BY <2>1, <2>2
<1>. QED BY <1>1, <1>4, <1>5 DEF Here

\* What is known inside a function.
LEMMA InFunction ==
  ASSUME IInv, step # "idle"
  PROVE  /\ phase = "methods" /\ cls \in DOMAIN Classes /\ kind \in {"methods", "ctors"}
         /\ <<cls, kind, item>> \in DOMAIN scopes /\ collected = <<>>
         /\ program \in DOMAIN Inputs /\ Scope = ScopeAt(field_types, scopes, <<cls, kind, item>>)
         /\ IsScope(Scope)
<1>1. WalkFine(phase, cls, kind, item, step, scopes, errors, collected)
  BY DEF IInv
<1>2. /\ phase = "methods" /\ cls \in DOMAIN Classes /\ <<cls, kind, item>> \in DOMAIN scopes
  BY <1>1 DEF WalkFine
<1>3. kind \in {"methods", "ctors"} /\ collected = <<>>
  BY <1>1, <1>2 DEF WalkFine
<1>4. Scope = ScopeAt(field_types, scopes, <<cls, kind, item>>)
  BY ScopesAre DEF Scope, Here
<1>. QED BY <1>2, <1>3, <1>4, ScopeAtFine DEF IInv

LEMMA ParametersAre ==
  ASSUME program \in DOMAIN Inputs, NEW k \in DOMAIN Classes
  PROVE  /\ \A i \in DOMAIN Classes[k].methods :
              Classes[k].methods[i].params \in Seq(Parameter(DOMAIN Symbols))
         /\ \A i \in DOMAIN Classes[k].ctors :
              Classes[k].ctors[i] \in Seq(Parameter(DOMAIN Symbols))
         /\ Len(Classes[k].methods) \in Nat /\ DOMAIN Classes[k].methods = 1..Len(Classes[k].methods)
         /\ Len(Classes[k].ctors) \in Nat /\ DOMAIN Classes[k].ctors = 1..Len(Classes[k].ctors)
<1> DEFINE T == BuiltinClass \cup ClassNames(Classes)
<1>1. Classes[k] \in Declaration(T) /\ DOMAIN Symbols = T
  BY ClassFacts, SymbolsAre
<1> DEFINE P == Parameter(T)
           M == [name : STRING, params : Seq(P), ret : T \cup {NoType},
                 body : {"none", "block", "expression"}]
<1>2. Classes[k].methods \in Seq(M) /\ Classes[k].ctors \in Seq(Seq(P))
  BY <1>1 DEF Declaration
<1>. HIDE DEF P
<1>3. \A m \in M : m.params \in Seq(P)
  OBVIOUS
<1>. HIDE DEF M
<1>4. /\ \A i \in DOMAIN Classes[k].methods : Classes[k].methods[i] \in M
      /\ \A i \in DOMAIN Classes[k].ctors : Classes[k].ctors[i] \in Seq(P)
      /\ Len(Classes[k].methods) \in Nat /\ DOMAIN Classes[k].methods = 1..Len(Classes[k].methods)
      /\ Len(Classes[k].ctors) \in Nat /\ DOMAIN Classes[k].ctors = 1..Len(Classes[k].ctors)
  BY <1>2
<1>5. P = Parameter(DOMAIN Symbols)
  BY <1>1 DEF P
<1>. QED BY <1>3, <1>4, <1>5

LEMMA BeginMethodKeeps ==
  ASSUME IInv, BeginMethod
  PROVE  IInv'
<1>1. /\ phase = "methods" /\ cls \in DOMAIN Classes /\ kind = "methods"
      /\ item <= Len(Classes[cls]["methods"]) /\ program' = program /\ phase' = phase
      /\ field_types' = field_types /\ log' = log /\ collected' = collected
      /\ OpenScope(ThisMethod.params)
  BY DEF BeginMethod, AtFunction
<1>2. /\ cls' = cls /\ kind' = kind /\ item' \in {item, item + 1}
      /\ (step' # "idle" => item' = item)
      /\ errors' \in BOOLEAN /\ (errors => errors')
  BY ErrorsAreBoolean DEF BeginMethod, Leave
<1>3. ThisMethod.params \in Seq(Parameter(DOMAIN Symbols))
  <2>1. item \in DOMAIN Classes[cls].methods
    BY <1>1, WalkFacts, ParametersAre
  <2>. QED BY <1>1, <2>1, WalkFacts, ParametersAre DEF ThisMethod
<1>4. /\ ScopesFine(scopes') /\ LocalsExtend(scopes, scopes')
      /\ <<cls, kind, item>> \in DOMAIN scopes'
  BY <1>1, <1>3, OpenScopeGrows
<1>5. cls' \in Nat \ {0} /\ item' \in Nat \ {0}
  BY <1>2, WalkFacts
<1>. QED BY <1>1, <1>2, <1>4, <1>5, MethodStep

LEMMA BeginConstructorKeeps ==
  ASSUME IInv, BeginConstructor
  PROVE  IInv'
<1>1. /\ phase = "methods" /\ cls \in DOMAIN Classes /\ kind = "ctors"
      /\ item <= Len(Classes[cls]["ctors"]) /\ program' = program /\ phase' = phase
      /\ field_types' = field_types /\ log' = log /\ collected' = collected
      /\ OpenScope(Classes[cls].ctors[item])
      /\ cls' = cls /\ kind' = kind /\ item' = item /\ errors' = errors
  BY DEF BeginConstructor, AtFunction
<1>2. errors' \in BOOLEAN
  BY <1>1, ErrorsAreBoolean
<1>3. Classes[cls].ctors[item] \in Seq(Parameter(DOMAIN Symbols))
  <2>1. item \in DOMAIN Classes[cls].ctors
    BY <1>1, WalkFacts, ParametersAre
  <2>. QED BY <1>1, <2>1, WalkFacts, ParametersAre
<1>4. /\ ScopesFine(scopes') /\ LocalsExtend(scopes, scopes')
      /\ <<cls, kind, item>> \in DOMAIN scopes'
  BY <1>1, <1>3, OpenScopeGrows
<1>5. cls' \in Nat \ {0} /\ item' \in Nat \ {0}
  BY <1>1, WalkFacts
<1>. QED BY <1>1, <1>2, <1>4, <1>5, MethodStep

\* A step inside a function that logs nothing.
LEMMA QuietStep ==
  ASSUME IInv, step # "idle",
         UNCHANGED <<program, phase, cls, kind, field_types, scopes, log, collected>>,
         item' \in {item, item + 1}, step' # "idle" => item' = item,
         errors' \in BOOLEAN, errors => errors'
  PROVE  IInv'
<1>1. /\ phase = "methods" /\ cls \in DOMAIN Classes /\ kind \in {"methods", "ctors"}
      /\ <<cls, kind, item>> \in DOMAIN scopes
  BY InFunction
<1>2. cls' \in Nat \ {0} /\ item' \in Nat \ {0}
  BY WalkFacts
<1>3. ScopesFine(scopes') /\ LocalsExtend(scopes, scopes')
  BY LocalsSame DEF IInv
<1>. QED BY <1>1, <1>2, <1>3, MethodStep

LEMMA NoSuperKeeps ==
  ASSUME IInv, NoSuper
  PROVE  IInv'
<1>1. /\ step # "idle" /\ program' = program /\ phase' = phase /\ cls' = cls /\ kind' = kind
      /\ field_types' = field_types /\ scopes' = scopes /\ log' = log /\ collected' = collected
      /\ item' \in {item, item + 1} /\ (step' # "idle" => item' = item)
      /\ (errors' = errors \/ errors' = TRUE)
  BY DEF NoSuper, Leave, Report
<1>2. errors' \in BOOLEAN /\ (errors => errors')
  <2>1. CASE errors' = errors
    BY <2>1, ErrorsAreBoolean
  <2>2. CASE errors' = TRUE
    BY <2>2, Zenon
  <2>. QED BY <1>1, <2>1, <2>2
<1>. QED BY <1>1, <1>2, QuietStep

LEMMA EndBodyKeeps ==
  ASSUME IInv, EndBody
  PROVE  IInv'
<1>1. /\ step # "idle" /\ program' = program /\ phase' = phase /\ cls' = cls /\ kind' = kind
      /\ field_types' = field_types /\ scopes' = scopes /\ log' = log /\ collected' = collected
      /\ item' \in {item, item + 1} /\ (step' # "idle" => item' = item)
      /\ errors' \in {errors, errors \/ InMethod}
  BY DEF EndBody, Leave
<1>2. errors' \in BOOLEAN /\ (errors => errors')
  BY <1>1, ErrorsAreBoolean
<1>. QED BY <1>1, <1>2, QuietStep

LEMMA ReturnNothingKeeps ==
  ASSUME IInv, ReturnNothing
  PROVE  IInv'
<1>1. /\ step # "idle" /\ program' = program /\ phase' = phase /\ cls' = cls /\ kind' = kind
      /\ field_types' = field_types /\ scopes' = scopes /\ log' = log /\ collected' = collected
      /\ item' = item /\ errors' = (errors \/ InMethod)
  BY DEF ReturnNothing, InBlock, Statement, GoOn, walk
<1>2. errors' \in BOOLEAN /\ (errors => errors')
  BY <1>1, ErrorsAreBoolean
<1>. QED BY <1>1, <1>2, QuietStep

\* A step inside a function that logs what was inferred.
LEMMA LogStep ==
  ASSUME IInv, step # "idle",
         UNCHANGED <<program, phase, cls, kind, field_types, collected>>,
         item' \in {item, item + 1}, step' # "idle" => item' = item,
         ScopesFine(scopes'), LocalsExtend(scopes, scopes'),
         NEW what, NEW name, NEW exprs, NEW types, Log(what, name, exprs, types),
         what # "field", exprs \in Seq(Expression),
         what # "member" => types = InferAll(exprs, Scope) /\ \A k \in DOMAIN types : IsType(types[k]),
         what = "super" => \A k \in DOMAIN types : IsClass(types[k]),
         what \notin {"super", "member"} => Len(exprs) = 1,
         what = "assign" =>
           name \in DOMAIN Scope.variables /\ IsSubtype(types[1], Scope.variables[name])
  PROVE  IInv'
<1> DEFINE entry == Entry(what, name, exprs, types)
           at    == <<cls, kind, item>>
           later == ScopeAt(field_types, scopes', at)
<1>1. /\ phase = "methods" /\ cls \in DOMAIN Classes /\ kind \in {"methods", "ctors"}
      /\ at \in DOMAIN scopes /\ program \in DOMAIN Inputs
      /\ Scope = ScopeAt(field_types, scopes, at) /\ IsScope(Scope)
  BY InFunction
<1>2. /\ entry.at = at /\ entry.what = what /\ entry.name = name /\ entry.exprs = exprs
      /\ entry.types = types /\ at[1] = cls
  BY DEF Entry, Here
<1>3. log' = Append(log, entry) /\ errors' = errors
  BY DEF Log
<1>. HIDE DEF entry, at
<1>4. at \in DOMAIN scopes' /\ Extends(Scope.variables, later.variables)
  BY <1>1 DEF LocalsExtend
<1>5. Older(Scope, later)
  <2>1. Scope.cls = later.cls /\ Scope.fields = field_types /\ later.fields = field_types
    BY <1>1 DEF ScopeAt
  <2>. HIDE DEF later
  <2>. QED BY <1>4, <2>1 DEF Older, Firmer, Extends
<1>6. EntryFine(entry, field_types, scopes')
  <2>1. ScopeFor(field_types, scopes', entry) = later
    BY <1>2 DEF ScopeFor
  <2>2. what # "member" => Earlier(Scope, field_types, scopes', entry)
    BY <1>1, <1>2, <1>5, <2>1 DEF Earlier
  <2>3. what = "assign" =>
          /\ name \in DOMAIN later.variables
          /\ IsSubtype(types[1], later.variables[name])
    BY <1>4 DEF Extends
  <2>. QED BY <1>1, <1>2, <1>4, <2>2, <2>3 DEF EntryFine
<1>7. cls' \in Nat \ {0} /\ item' \in Nat \ {0} /\ errors' \in BOOLEAN
  BY <1>3, WalkFacts, ErrorsAreBoolean
<1>. QED BY <1>1, <1>2, <1>3, <1>4, <1>6, <1>7, MethodStep DEF at

LEMMA DeclareGrows ==
  ASSUME IInv, step # "idle", NEW name, NEW type, IsType(type), name \notin DOMAIN Scope.variables,
         scopes' = [scopes EXCEPT ![Here] = Merge([n \in {name} |-> type], @)]
  PROVE  ScopesFine(scopes') /\ LocalsExtend(scopes, scopes')
<1> DEFINE at  == <<cls, kind, item>>
           own == [n \in {name} |-> type]
<1>1. /\ at \in DOMAIN scopes /\ cls \in DOMAIN Classes
      /\ Scope = ScopeAt(field_types, scopes, at) /\ Here = at
  BY InFunction DEF Here
<1>2. DOMAIN own = {name} /\ own[name] = type
  OBVIOUS
<1>. HIDE DEF own, at
<1>3. /\ DOMAIN scopes' = DOMAIN scopes
      /\ \A f \in DOMAIN scopes : f # at => scopes'[f] = scopes[f]
      /\ scopes'[at] = Merge(own, scopes[at])
  BY <1>1 DEF own
<1>4. /\ DOMAIN scopes'[at] = {name} \cup DOMAIN scopes[at]
      /\ scopes'[at][name] = type
      /\ \A n \in DOMAIN scopes[at] : n # name => scopes'[at][n] = scopes[at][n]
  BY <1>2, <1>3 DEF Merge
<1>5. ScopesFine(scopes')
  <2>. SUFFICES ASSUME NEW f \in DOMAIN scopes'
                PROVE  /\ f[1] \in DOMAIN Classes
                       /\ \A n \in DOMAIN scopes'[f] : IsType(scopes'[f][n])
    BY DEF ScopesFine
  <2>1. f[1] \in DOMAIN Classes /\ \A n \in DOMAIN scopes[f] : IsType(scopes[f][n])
    BY <1>3 DEF IInv, ScopesFine
  <2>2. CASE f = at
    BY <1>4, <2>1, <2>2
  <2>3. CASE f # at
    BY <1>3, <2>1, <2>3
  <2>. QED BY <2>2, <2>3
<1>6. LocalsExtend(scopes, scopes')
  <2>. SUFFICES ASSUME NEW f \in DOMAIN scopes
                PROVE  Extends(ScopeAt(field_types, scopes, f).variables,
                               ScopeAt(field_types, scopes', f).variables)
    BY <1>3 DEF LocalsExtend
  <2> DEFINE shown == Shown(field_types, Classes[f[1]].name)
  <2>1. /\ ScopeAt(field_types, scopes, f).variables = Merge(scopes[f], shown)
        /\ ScopeAt(field_types, scopes', f).variables = Merge(scopes'[f], shown)
    BY DEF ScopeAt
  <2>. HIDE DEF shown
  <2>2. CASE f # at
    BY <1>3, <2>1, <2>2 DEF Extends
  <2>3. CASE f = at
    <3>1. name \notin DOMAIN Merge(scopes[f], shown)
      BY <1>1, <2>1, <2>3
    <3>2. name \notin DOMAIN scopes[f] /\ name \notin DOMAIN shown
      BY <3>1 DEF Merge
    <3>3. Extends(Merge(scopes[f], shown), Merge(scopes'[f], shown))
      BY <1>4, <2>3, <3>2 DEF Extends, Merge
    <3>. QED BY <2>1, <3>3
  <2>. QED BY <2>2, <2>3
<1>. QED BY <1>5, <1>6

LEMMA OneInferred ==
  ASSUME IInv, step # "idle", NEW e \in Input.exprs
  PROVE  /\ e \in Expression /\ Infer(e, Scope) \in Outcome
         /\ Infer(e, Scope) = "aborts" => ShadowsClass(Scope.variables)
         /\ <<e>> \in Seq(Expression) /\ Len(<<e>>) = 1
         /\ <<Infer(e, Scope)>> = InferAll(<<e>>, Scope)
         /\ IsType(Infer(e, Scope)) =>
              \A k \in DOMAIN <<Infer(e, Scope)>> : IsType(<<Infer(e, Scope)>>[k])
<1>1. program \in DOMAIN Inputs /\ IsScope(Scope) /\ e \in Expression
  BY InFunction, WalkFacts
<1>2. /\ Infer(e, Scope) \in Outcome
      /\ Infer(e, Scope) = "aborts" => ShadowsClass(Scope.variables)
  BY <1>1, InferOutcome
<1>3. <<e>> \in Seq(Expression) /\ Len(<<e>>) = 1
  BY <1>1
<1>4. <<Infer(e, Scope)>> = InferAll(<<e>>, Scope)
  BY InferOne
<1> DEFINE type == Infer(e, Scope)
<1>. HIDE DEF type
<1>5. IsType(type) => \A k \in DOMAIN <<type>> : IsType(<<type>>[k])
  OBVIOUS
<1>. QED BY <1>1, <1>2, <1>3, <1>4, <1>5 DEF type

LEMMA FunctionAborts ==
  ASSUME IInv, step # "idle", Abort, ShadowsClass(Scope.variables)
  PROVE  IInv'
<1>1. /\ cls \in DOMAIN Classes /\ kind \in {"methods", "ctors"}
      /\ Scope = ScopeAt(field_types, scopes, <<cls, kind, item>>)
  BY InFunction
<1>2. ~(cls > Len(Classes)) /\ kind # "fields"
  BY <1>1, WalkFacts
<1>. QED BY <1>1, <1>2, AbortStep

LEMMA ThrownKeeps ==
  ASSUME IInv, step # "idle", Thrown,
         UNCHANGED <<program, phase, field_types, collected>>
  PROVE  IInv'
<1>1. /\ cls' = cls /\ kind' = kind /\ scopes' = scopes /\ log' = log
      /\ item' = item + 1 /\ step' = "idle" /\ errors' = TRUE
  BY DEF Thrown, Leave, Report
<1>2. errors' \in BOOLEAN /\ (errors => errors')
  BY <1>1, Zenon
<1>. QED BY <1>1, <1>2, QuietStep

LEMMA ReportedKeeps ==
  ASSUME IInv, step # "idle", Report, GoOn,
         UNCHANGED <<program, phase, field_types, scopes, collected>>
  PROVE  IInv'
<1>1. /\ cls' = cls /\ kind' = kind /\ log' = log
      /\ item' = item /\ step' = step /\ errors' = TRUE
  BY DEF GoOn, walk, Report
<1>2. errors' \in BOOLEAN /\ (errors => errors')
  BY <1>1, Zenon
<1>. QED BY <1>1, <1>2, QuietStep

LEMMA JudgeKeeps ==
  ASSUME IInv, step # "idle", UNCHANGED <<program, phase, field_types, collected>>,
         NEW e \in Input.exprs, NEW what \in {"assign", "condition", "return"}, NEW name, NEW fits,
         Judge(what, name, e, Infer(e, Scope), fits),
         what = "assign" /\ fits =>
           name \in DOMAIN Scope.variables
           /\ IsSubtype(Infer(e, Scope), Scope.variables[name])
  PROVE  IInv'
<1> DEFINE type == Infer(e, Scope)
<1>1. CASE type = "throws" /\ Thrown
  BY <1>1, ThrownKeeps
<1>2. CASE IsType(type) /\ Log(what, name, <<e>>, <<type>>) /\ GoOn /\ scopes' = scopes /\ fits
  <2>1. cls' = cls /\ kind' = kind /\ item' = item /\ step' = step
    BY <1>2 DEF GoOn, walk
  <2>2. /\ <<e>> \in Seq(Expression) /\ Len(<<e>>) = 1 /\ <<type>> = InferAll(<<e>>, Scope)
        /\ \A k \in DOMAIN <<type>> : IsType(<<type>>[k])
    BY <1>2, OneInferred
  <2>3. ScopesFine(scopes') /\ LocalsExtend(scopes, scopes')
    BY <1>2, LocalsSame DEF IInv
  <2>4. what = "assign" =>
          name \in DOMAIN Scope.variables /\ IsSubtype(<<type>>[1], Scope.variables[name])
    BY <1>2
  <2>. HIDE DEF type
  <2>. QED BY <1>2, <2>1, <2>2, <2>3, <2>4, LogStep
<1>3. CASE Report /\ GoOn /\ scopes' = scopes
  BY <1>3, ReportedKeeps
<1>. QED BY <1>1, <1>2, <1>3 DEF Judge

LEMMA DeclareKeeps ==
  ASSUME IInv, step # "idle", NEW e \in Input.exprs, NEW name, Declare(name, e, Infer(e, Scope))
  PROVE  IInv'
<1> DEFINE type == Infer(e, Scope)
<1>1. program' = program /\ phase' = phase /\ field_types' = field_types /\ collected' = collected
  BY DEF Declare, Statement
<1>2. CASE Thrown
  BY <1>1, <1>2, ThrownKeeps
<1>3. CASE /\ IsType(type) /\ name \notin DOMAIN Scope.variables
           /\ scopes' = [scopes EXCEPT ![Here] = Merge([n \in {name} |-> type], @)]
           /\ Log("local", name, <<e>>, <<type>>) /\ GoOn
  <2>1. cls' = cls /\ kind' = kind /\ item' = item /\ step' = step
    BY <1>3 DEF GoOn, walk
  <2>2. /\ <<e>> \in Seq(Expression) /\ Len(<<e>>) = 1 /\ <<type>> = InferAll(<<e>>, Scope)
        /\ \A k \in DOMAIN <<type>> : IsType(<<type>>[k])
    BY <1>3, OneInferred
  <2>. HIDE DEF type
  <2>3. ScopesFine(scopes') /\ LocalsExtend(scopes, scopes')
    BY <1>3, DeclareGrows
  <2>4. Log("local", name, <<e>>, <<type>>)
    BY <1>3
  <2>. QED BY <1>1, <2>1, <2>2, <2>3, <2>4, LogStep
<1>. QED BY <1>2, <1>3 DEF Declare

LEMMA StatementKeeps ==
  ASSUME IInv, step # "idle", NEW e \in Input.exprs, Visit(e, Infer(e, Scope))
  PROVE  IInv'
<1> DEFINE type == Infer(e, Scope)
<1>1. CASE type = "aborts" /\ Abort
  BY <1>1, OneInferred, FunctionAborts
<1>2. ASSUME NEW n \in LocalName, Declare(n, e, type)
      PROVE  IInv'
  BY <1>2, DeclareKeeps
<1>3. ASSUME NEW n \in LocalName \cup DOMAIN Scope.variables, Assign(n, e, type)
      PROVE  IInv'
  <2>1. program' = program /\ phase' = phase /\ field_types' = field_types /\ collected' = collected
    BY <1>3 DEF Assign, Statement
  <2>2. CASE n \notin DOMAIN Scope.variables
    <3>1. Report /\ GoOn /\ scopes' = scopes
      BY <1>3, <2>2 DEF Assign
    <3>. QED BY <2>1, <3>1, ReportedKeeps
  <2>3. CASE n \in DOMAIN Scope.variables
    <3>1. Judge("assign", n, e, type, IsSubtype(type, Scope.variables[n]))
      BY <1>3, <2>3 DEF Assign
    <3>. HIDE DEF type
    <3>2. Judge("assign", n, e, Infer(e, Scope), IsSubtype(Infer(e, Scope), Scope.variables[n]))
      BY <3>1 DEF type
    <3>. QED BY <2>1, <2>3, <3>2, JudgeKeeps
  <2>. QED BY <2>2, <2>3
<1>4. CASE Condition(e, type)
  <2>1. /\ program' = program /\ phase' = phase /\ field_types' = field_types
        /\ collected' = collected /\ Judge("condition", "if", e, Infer(e, Scope), type = "Boolean")
    BY <1>4 DEF Condition, Statement
  <2>. QED BY <2>1, JudgeKeeps
<1>5. CASE Return(e, type)
  <2>1. program' = program /\ phase' = phase /\ field_types' = field_types /\ collected' = collected
    BY <1>5 DEF Return, Statement
  <2>2. CASE InMethod
    <3>1. Judge("return", "return", e, Infer(e, Scope), IsSubtype(type, ThisMethod.ret))
      BY <1>5, <2>2 DEF Return
    <3>. QED BY <2>1, <3>1, JudgeKeeps
  <2>3. CASE ~InMethod
    <3>1. Report /\ GoOn /\ scopes' = scopes
      BY <1>5, <2>3 DEF Return
    <3>. QED BY <2>1, <3>1, ReportedKeeps
  <2>. QED BY <2>2, <2>3
<1>6. CASE CallStatement(e, type)
  <2>1. /\ program' = program /\ phase' = phase /\ field_types' = field_types
        /\ collected' = collected /\ GoOn /\ scopes' = scopes
        /\ Report \/ (IsType(type) /\ Log("call", e.name, <<e>>, <<type>>))
    BY <1>6 DEF CallStatement, Statement
  <2>2. CASE Report
    BY <2>1, <2>2, ReportedKeeps
  <2>3. CASE IsType(type) /\ Log("call", e.name, <<e>>, <<type>>)
    <3>1. cls' = cls /\ kind' = kind /\ item' = item /\ step' = step
      BY <2>1 DEF GoOn, walk
    <3>2. /\ <<e>> \in Seq(Expression) /\ Len(<<e>>) = 1 /\ <<type>> = InferAll(<<e>>, Scope)
          /\ \A k \in DOMAIN <<type>> : IsType(<<type>>[k])
      BY <2>3, OneInferred
    <3>3. ScopesFine(scopes') /\ LocalsExtend(scopes, scopes')
      BY <2>1, LocalsSame DEF IInv
    <3>. HIDE DEF type
    <3>. QED BY <2>1, <2>3, <3>1, <3>2, <3>3, LogStep
  <2>. QED BY <2>1, <2>2, <2>3
<1>7. CASE MemberStatement(e)
  <2>1. /\ program' = program /\ phase' = phase /\ field_types' = field_types
        /\ collected' = collected /\ GoOn /\ scopes' = scopes
        /\ Log("member", e.name, <<e>>, <<>>)
    BY <1>7 DEF MemberStatement, Statement
  <2>2. cls' = cls /\ kind' = kind /\ item' = item /\ step' = step
    BY <2>1 DEF GoOn, walk
  <2>3. <<e>> \in Seq(Expression)
    BY OneInferred
  <2>4. ScopesFine(scopes') /\ LocalsExtend(scopes, scopes')
    BY <2>1, LocalsSame DEF IInv
  <2>. QED BY <2>1, <2>2, <2>3, <2>4, LogStep
<1>. QED BY <1>1, <1>2, <1>3, <1>4, <1>5, <1>6, <1>7 DEF Visit

LEMMA BlockKeeps ==
  ASSUME IInv, Block
  PROVE  IInv'
BY StatementKeeps DEF Block, InBlock

LEMMA ResultKeeps ==
  ASSUME IInv, Result
  PROVE  IInv'
<1>1. step # "idle"
  BY DEF Result, InResult
<1>2. PICK e \in Input.exprs :
        \/ Infer(e, Scope) = "aborts" /\ Abort
        \/ ExpressionBody(e, Infer(e, Scope))
  BY DEF Result
<1> DEFINE type == Infer(e, Scope)
<1>3. CASE type = "aborts" /\ Abort
  BY <1>1, <1>3, OneInferred, FunctionAborts
<1>4. CASE ExpressionBody(e, type)
  <2>1. /\ program' = program /\ phase' = phase /\ field_types' = field_types
        /\ collected' = collected /\ scopes' = scopes /\ Leave
        /\ Report \/ (IsType(type) /\ Log("result", "result", <<e>>, <<type>>))
    BY <1>4 DEF ExpressionBody
  <2>2. CASE Report
    <3>1. Thrown
      BY <2>1, <2>2 DEF Thrown
    <3>. QED BY <1>1, <2>1, <3>1, ThrownKeeps
  <2>3. CASE IsType(type) /\ Log("result", "result", <<e>>, <<type>>)
    <3>1. cls' = cls /\ kind' = kind /\ item' = item + 1 /\ step' = "idle"
      BY <2>1 DEF Leave
    <3>2. /\ <<e>> \in Seq(Expression) /\ Len(<<e>>) = 1 /\ <<type>> = InferAll(<<e>>, Scope)
          /\ \A k \in DOMAIN <<type>> : IsType(<<type>>[k])
      BY <1>1, <2>3, OneInferred
    <3>3. ScopesFine(scopes') /\ LocalsExtend(scopes, scopes')
      BY <2>1, LocalsSame DEF IInv
    <3>. HIDE DEF type
    <3>. QED BY <1>1, <2>1, <2>3, <3>1, <3>2, <3>3, LogStep
  <2>. QED BY <2>1, <2>2, <2>3
<1>. QED BY <1>2, <1>3, <1>4

LEMMA CallSuperKeeps ==
  ASSUME IInv, CallSuper
  PROVE  IInv'
<1>1. step # "idle"
  BY DEF CallSuper
<1>2. PICK args \in SuperArguments :
        Super(args, InferAll(args, Scope)) \/ AbortSuper(InferAll(args, Scope))
  BY DEF CallSuper
<1> DEFINE types == InferAll(args, Scope)
           n     == Len(args)
<1>3. program \in DOMAIN Inputs /\ IsScope(Scope) /\ cls \in DOMAIN Classes
  BY <1>1, InFunction
<1>4. args \in Seq(Expression)
  <2>1. CASE args = <<>>
    <3>1. <<>> \in Seq(Expression)
      OBVIOUS
    <3>. QED BY <2>1, <3>1
  <2>2. ASSUME NEW e \in Input.exprs, args = <<e>> PROVE args \in Seq(Expression)
    BY <1>1, <2>2, OneInferred
  <2>. QED BY <1>2, <2>1, <2>2 DEF SuperArguments
<1>5. /\ n \in Nat /\ DOMAIN args = 1..n
      /\ \A k \in 1..n : args[k] \in Expression
  BY <1>4
<1>6. /\ DOMAIN types = 1..n /\ \A k \in 1..n : types[k] = Infer(args[k], Scope)
  BY <1>5 DEF InferAll
<1>7. \A k \in 1..n : types[k] \in Outcome /\ (types[k] = "aborts" => ShadowsClass(Scope.variables))
  BY <1>3, <1>5, <1>6, InferOutcome
<1>8. types \in Seq(Outcome) /\ Len(types) = n
  <2>1. types = [k \in 1..n |-> Infer(args[k], Scope)]
    BY <1>5 DEF InferAll
  <2>2. \A k \in 1..n : Infer(args[k], Scope) \in Outcome
    BY <1>6, <1>7
  <2>. HIDE DEF n
  <2>. QED BY <1>5, <2>1, <2>2
<1>. HIDE DEF types, n
<1>9. CASE AbortSuper(types)
  <2>1. Abort /\ FirstFailure(types) = "aborts"
    BY <1>9 DEF AbortSuper
  <2>2. \E k \in 1..n : types[k] = "aborts"
    BY <1>3, <1>5, <1>6, <1>7, <2>1, FirstFailureFacts, OutcomeFacts
  <2>. QED BY <1>1, <1>7, <2>1, <2>2, FunctionAborts
<1>10. CASE Super(args, types)
  <2>1. program' = program /\ phase' = phase /\ field_types' = field_types
        /\ scopes' = scopes /\ collected' = collected
    BY <1>10 DEF Super
  <2>2. CASE Leave /\ Report
    <3>1. Thrown
      BY <2>1, <2>2 DEF Thrown
    <3>. QED BY <1>1, <2>1, <3>1, ThrownKeeps
  <2>3. CASE /\ Base \notin BuiltinClass /\ FirstFailure(types) = "none"
             /\ FittingConstructors(Base, types) # {}
             /\ step' = "body" /\ cls' = cls /\ kind' = kind /\ item' = item
             /\ Log("super", "super", args, types)
    <3>1. Base \in DOMAIN Symbols
      BY <1>3, SymbolsAre DEF Base
    <3>2. \A k \in DOMAIN types : IsClass(types[k])
      <4>1. DOMAIN types = 1..Len(types)
        BY <1>6, <1>8
      <4>. QED BY <1>3, <2>3, <3>1, <4>1, NewFacts
    <3>3. \A k \in DOMAIN types : IsType(types[k])
      BY <3>2 DEF IsType
    <3>4. ScopesFine(scopes') /\ LocalsExtend(scopes, scopes')
      BY <2>1, LocalsSame DEF IInv
    <3>5. types = InferAll(args, Scope)
      BY DEF types
    <3>. QED BY <1>1, <1>4, <2>1, <2>3, <3>2, <3>3, <3>4, <3>5, LogStep
  <2>4. \/ Leave /\ Report
        \/ /\ Base \notin BuiltinClass /\ FirstFailure(types) = "none"
           /\ FittingConstructors(Base, types) # {}
           /\ step' = "body" /\ cls' = cls /\ kind' = kind /\ item' = item
           /\ Log("super", "super", args, types)
    BY <1>10 DEF Super
  <2>. QED BY <2>2, <2>3, <2>4
<1>. QED BY <1>2, <1>9, <1>10 DEF types

(***************************************************************************)
(* The collector.                                                          *)
(***************************************************************************)
LEMMA EntryFacts ==
  ASSUME IInv, AtEntry
  PROVE  /\ program \in DOMAIN Inputs /\ FieldsFine(field_types) /\ ScopesFine(scopes)
         /\ phase = "collect" /\ cls > Len(Classes) /\ ~errors /\ step = "idle"
         /\ EntryFine(NextEntry, field_types, scopes)
         /\ ScopeOf(NextEntry) = ScopeFor(field_types, scopes, NextEntry)
         /\ IsScope(ScopeOf(NextEntry))
         /\ Len(collected) \in Nat /\ DOMAIN collected = 1..Len(collected)
         /\ Len(log) \in Nat /\ DOMAIN log = 1..Len(log)
         /\ Len(collected) < Len(log)
         /\ NextEntry = log[Len(collected) + 1] /\ Len(collected) + 1 \in DOMAIN log
<1>1. /\ program \in DOMAIN Inputs /\ FieldsFine(field_types) /\ ScopesFine(scopes)
      /\ LogFine(log, field_types, scopes)
      /\ WalkFine(phase, cls, kind, item, step, scopes, errors, collected)
      /\ CollectedFine(collected, log, field_types, scopes)
  BY DEF IInv
<1>2. phase = "collect" /\ Len(collected) < Len(log)
  BY DEF AtEntry
<1>3. cls > Len(Classes) /\ ~errors
  BY <1>1, <1>2 DEF WalkFine
<1>4. step = "idle"
  BY <1>1, <1>2 DEF WalkFine
<1>5. Len(collected) \in Nat /\ DOMAIN collected = 1..Len(collected)
  <2>1. PICK S : collected \in Seq(S)
    BY <1>1 DEF CollectedFine, IsSeq
  <2>. QED BY <2>1
<1>6. Len(log) \in Nat /\ DOMAIN log = 1..Len(log)
  <2>1. PICK S : log \in Seq(S)
    BY <1>1 DEF LogFine, IsSeq
  <2>. QED BY <2>1
<1>7. Len(collected) + 1 \in DOMAIN log
  BY <1>2, <1>5, <1>6
<1>8. NextEntry = log[Len(collected) + 1]
  BY DEF NextEntry
<1>9. EntryFine(NextEntry, field_types, scopes)
  BY <1>1, <1>7, <1>8 DEF LogFine
<1>10. ScopeOf(NextEntry) = ScopeFor(field_types, scopes, NextEntry)
  BY ScopesAre
<1>11. IsScope(ScopeOf(NextEntry))
  BY <1>1, <1>9, <1>10, ScopeForFine DEF EntryFine
<1>. QED BY <1>1, <1>2, <1>3, <1>4, <1>5, <1>6, <1>7, <1>8, <1>9, <1>10, <1>11

\* What was inferred in s, and each part of it, is inferred in t as the same, or has a type
\* at last, or a variable of t hides a class.
Again(e, s, t) ==
  /\ IsType(Infer(e, s)) /\ Holds(Infer(e, s), Infer(e, t), t)
  /\ \A j \in DOMAIN PartsOf(e) :
       /\ IsType(Infer(PartsOf(e)[j], s))
       /\ Holds(Infer(PartsOf(e)[j], s), Infer(PartsOf(e)[j], t), t)

LEMMA EntryAgain ==
  ASSUME IInv, AtEntry, NextEntry.what # "member"
  PROVE  \E s : /\ IsScope(s) /\ NextEntry.types = InferAll(NextEntry.exprs, s)
                /\ \A k \in DOMAIN NextEntry.exprs :
                     /\ NextEntry.exprs[k] \in Expression
                     /\ Again(NextEntry.exprs[k], s, ScopeOf(NextEntry))
<1> DEFINE t == ScopeOf(NextEntry)
<1>1. /\ program \in DOMAIN Inputs /\ IsScope(t) /\ t = ScopeFor(field_types, scopes, NextEntry)
      /\ EntryFine(NextEntry, field_types, scopes)
  BY EntryFacts
<1>2. PICK s : Earlier(s, field_types, scopes, NextEntry)
  BY <1>1 DEF EntryFine
<1>3. IsScope(s) /\ Older(s, t) /\ NextEntry.types = InferAll(NextEntry.exprs, s)
  BY <1>1, <1>2 DEF Earlier
<1>. HIDE DEF t
<1>4. ASSUME NEW k \in DOMAIN NextEntry.exprs
      PROVE  NextEntry.exprs[k] \in Expression /\ Again(NextEntry.exprs[k], s, t)
  <2> DEFINE e == NextEntry.exprs[k]
  <2>1. e \in Expression
    BY <1>1 DEF EntryFine
  <2>2. IsType(Infer(e, s))
    <3>1. IsType(NextEntry.types[k])
      <4>1. k \in DOMAIN NextEntry.types
        BY <1>3 DEF InferAll
      <4>. QED BY <1>1, <4>1 DEF EntryFine
    <3>. QED BY <1>3, <3>1 DEF InferAll
  <2>3. Holds(Infer(e, s), Infer(e, t), t)
    BY <1>1, <1>3, <2>1, <2>2, InferGrows
  <2>4. \A j \in DOMAIN PartsOf(e) : IsType(Infer(PartsOf(e)[j], s)) /\ PartsOf(e)[j] \in Expression
    BY <1>1, <1>3, <2>1, <2>2, TypedParts, PartsFacts
  <2>. HIDE DEF e
  <2>5. \A j \in DOMAIN PartsOf(e) : Holds(Infer(PartsOf(e)[j], s), Infer(PartsOf(e)[j], t), t)
    BY <1>1, <1>3, <2>4, InferGrows
  <2>6. Again(e, s, t)
    BY <2>2, <2>3, <2>4, <2>5 DEF Again
  <2>. QED BY <2>1, <2>6 DEF e
<1>5. /\ IsScope(s) /\ NextEntry.types = InferAll(NextEntry.exprs, s)
      /\ \A k \in DOMAIN NextEntry.exprs :
           NextEntry.exprs[k] \in Expression /\ Again(NextEntry.exprs[k], s, t)
  BY <1>3, <1>4
<1>. QED BY <1>5 DEF t

\* Of an assignment: what it is to was visible.
LEMMA AssignedIsVisible ==
  ASSUME IInv, AtEntry, NextEntry.what = "assign"
  PROVE  LET c    == Classes[NextEntry.at[1]].name
             vars_ == Merge(scopes[NextEntry.at], Shown(field_types, c))
         IN  /\ c \in DOMAIN Symbols /\ NextEntry.at \in DOMAIN scopes
             /\ ScopeOf(NextEntry).variables = vars_
             /\ NextEntry.name \in DOMAIN vars_
             /\ IsSubtype(NextEntry.types[1], vars_[NextEntry.name])
<1> DEFINE c == Classes[NextEntry.at[1]].name
           variables == ScopeAt(field_types, scopes, NextEntry.at).variables
<1>1. EntryFine(NextEntry, field_types, scopes) /\ program \in DOMAIN Inputs
      /\ ScopeOf(NextEntry) = ScopeFor(field_types, scopes, NextEntry)
  BY EntryFacts
<1>2. NextEntry.at[1] \in DOMAIN Classes /\ NextEntry.at \in DOMAIN scopes
  BY <1>1 DEF EntryFine
<1>3. /\ NextEntry.name \in DOMAIN variables
      /\ IsSubtype(NextEntry.types[1], variables[NextEntry.name])
  BY <1>1 DEF EntryFine
<1>4. c \in DOMAIN Symbols
  BY <1>1, <1>2, SymbolsAre
<1>5. variables = Merge(scopes[NextEntry.at], Shown(field_types, c))
  BY DEF ScopeAt
<1>6. ScopeOf(NextEntry).variables = variables
  BY <1>1 DEF ScopeFor
<1>. QED BY <1>2, <1>3, <1>4, <1>5, <1>6

LEMMA FailureShadows ==
  ASSUME program \in DOMAIN Inputs, NEW a, NEW b, NEW t, IsType(a), Holds(a, b, t), ~IsType(b)
  PROVE  ShadowsClass(t.variables)
BY DEF Holds

LEMMA CollectAborts ==
  ASSUME IInv, AtEntry, Abort,
         CollectFails(NextEntry, InferAll(NextEntry.exprs, ScopeOf(NextEntry)), ScopeOf(NextEntry))
  PROVE  IInv'
<1> DEFINE t     == ScopeOf(NextEntry)
           exprs == NextEntry.exprs
           types == InferAll(exprs, t)
<1>1. /\ program \in DOMAIN Inputs /\ IsScope(t) /\ cls > Len(Classes) /\ Len(collected) < Len(log)
      /\ EntryFine(NextEntry, field_types, scopes) /\ NextEntry = log[Len(collected) + 1]
      /\ t = ScopeFor(field_types, scopes, NextEntry)
  BY EntryFacts
<1>2. ASSUME NextEntry.what # "member"
      PROVE  ShadowsClass(t.variables)
  <2>1. PICK s : /\ IsScope(s) /\ NextEntry.types = InferAll(exprs, s)
                 /\ \A k \in DOMAIN exprs : exprs[k] \in Expression /\ Again(exprs[k], s, t)
    BY <1>2, EntryAgain
  <2>2. ASSUME NEW k \in DOMAIN exprs, TransformFails(exprs[k], t)
        PROVE  ShadowsClass(t.variables)
    <3> DEFINE e == exprs[k]
    <3>1. e \in Expression /\ Again(e, s, t)
      BY <2>1
    <3>2. FirstFailure(InferAll(PartsOf(e), t)) # "none"
      BY <2>2 DEF TransformFails
    <3>. HIDE DEF e, t
    <3>3. \A j \in DOMAIN PartsOf(e) : Infer(PartsOf(e)[j], t) \in Outcome
      BY <1>1, <3>1, InferOutcome, PartsFacts
    <3>4. PICK j \in DOMAIN PartsOf(e) : ~IsType(Infer(PartsOf(e)[j], t))
      BY <1>1, <3>1, <3>2, <3>3, PartTypes
    <3>. QED BY <1>1, <3>1, <3>4, FailureShadows DEF Again
  <2>3. ASSUME FirstFailure(types) # "none"
        PROVE  ShadowsClass(t.variables)
    <3>1. exprs \in Seq(Expression)
      BY <1>1 DEF EntryFine
    <3>2. Len(exprs) \in Nat /\ DOMAIN exprs = 1..Len(exprs)
      BY <3>1
    <3>. HIDE DEF t, exprs
    <3>3. DOMAIN types = 1..Len(exprs) /\ \A k \in 1..Len(exprs) : types[k] = Infer(exprs[k], t)
      BY <3>2 DEF InferAll
    <3>4. \A k \in 1..Len(exprs) : types[k] \in Outcome
      BY <1>1, <2>1, <3>2, <3>3, InferOutcome
    <3>. HIDE DEF types
    <3>5. PICK k \in 1..Len(exprs) : ~IsType(types[k])
      BY <1>1, <2>3, <3>2, <3>3, <3>4, FirstFailureFacts
    <3>6. Again(exprs[k], s, t) /\ ~IsType(Infer(exprs[k], t))
      BY <2>1, <3>2, <3>3, <3>5
    <3>. QED BY <1>1, <3>6, FailureShadows DEF Again
  <2>4. ASSUME NextEntry.what = "assign", ToField(NextEntry),
               FieldClasses(Classes[NextEntry.at[1]].name, NextEntry.name) = {}
        PROVE  ShadowsClass(t.variables)
    <3> DEFINE c == Classes[NextEntry.at[1]].name
    <3>1. c \in DOMAIN Symbols /\ NextEntry.name \in DOMAIN t.variables
      BY <2>4, AssignedIsVisible
    <3>2. NextEntry.name \notin DOMAIN Shown(field_types, c)
      BY <1>1, <2>4, <3>1, ShownFacts DEF FieldClasses
    <3>3. IsClass(NextEntry.name)
      BY <2>4, <3>2, ScopesAre DEF ToField
    <3>. QED BY <3>1, <3>3 DEF ShadowsClass
  <2>. QED BY <2>2, <2>3, <2>4 DEF CollectFails
<1>. QED BY <1>1, <1>2, AbortStep

\* The next entry is compiled.
Succeeds == ~CollectFails(NextEntry, InferAll(NextEntry.exprs, ScopeOf(NextEntry)), ScopeOf(NextEntry))

\* The parts of what is collected have types there.
LEMMA PartsSucceed ==
  ASSUME IInv, AtEntry, Succeeds,
         NEW k \in DOMAIN NextEntry.exprs, NextEntry.exprs[k] \in Expression
  PROVE  \A j \in DOMAIN PartsOf(NextEntry.exprs[k]) :
           IsType(Infer(PartsOf(NextEntry.exprs[k])[j], ScopeOf(NextEntry)))
<1> DEFINE t == ScopeOf(NextEntry)
           e == NextEntry.exprs[k]
<1>1. program \in DOMAIN Inputs /\ IsScope(t)
  BY EntryFacts
<1>2. FirstFailure(InferAll(PartsOf(e), t)) = "none"
  BY DEF Succeeds, CollectFails, TransformFails
<1>3. e \in Expression
  OBVIOUS
<1>. HIDE DEF t, e
<1>4. \A j \in DOMAIN PartsOf(e) : Infer(PartsOf(e)[j], t) \in Outcome
  BY <1>1, <1>3, InferOutcome, PartsFacts
<1>5. \A j \in DOMAIN PartsOf(e) : IsType(Infer(PartsOf(e)[j], t))
  BY <1>1, <1>2, <1>3, <1>4, PartTypes
<1>. QED BY <1>5 DEF t, e

\* What is inferred again is what was inferred, unless that was no type.
LEMMA CollectsAgain ==
  ASSUME IInv, AtEntry, Succeeds, Reinferred(NextEntry), NextEntry.types # <<Unknown>>
  PROVE  InferAll(NextEntry.exprs, ScopeOf(NextEntry)) = NextEntry.types
<1> DEFINE t     == ScopeOf(NextEntry)
           exprs == NextEntry.exprs
           types == InferAll(exprs, t)
<1>1. /\ program \in DOMAIN Inputs /\ IsScope(t) /\ EntryFine(NextEntry, field_types, scopes)
  BY EntryFacts
<1>2. NextEntry.what # "member"
  BY DEF Reinferred
<1>3. PICK s : /\ IsScope(s) /\ NextEntry.types = InferAll(exprs, s)
               /\ \A k \in DOMAIN exprs : exprs[k] \in Expression /\ Again(exprs[k], s, t)
  BY <1>2, EntryAgain
<1>4. exprs \in Seq(Expression)
  BY <1>1 DEF EntryFine
<1>5. FirstFailure(types) = "none"
  BY DEF Succeeds, CollectFails
<1>6. \A k \in DOMAIN exprs : exprs[k] \in Expression
  BY <1>3
<1>7. NextEntry.what = "super" => \A k \in DOMAIN NextEntry.types : IsClass(NextEntry.types[k])
  BY <1>1 DEF EntryFine
<1>8. NextEntry.what # "super" => Len(exprs) = 1
  BY <1>1, <1>2 DEF EntryFine
<1>. HIDE DEF t, exprs
<1>9. Len(exprs) \in Nat /\ DOMAIN exprs = 1..Len(exprs)
  BY <1>4
<1>10. /\ DOMAIN types = 1..Len(exprs) /\ \A k \in 1..Len(exprs) : types[k] = Infer(exprs[k], t)
  BY <1>9 DEF InferAll
<1>11. /\ DOMAIN NextEntry.types = 1..Len(exprs)
       /\ \A k \in 1..Len(exprs) : NextEntry.types[k] = Infer(exprs[k], s)
  BY <1>3, <1>9 DEF InferAll
<1>12. \A k \in 1..Len(exprs) : types[k] \in Outcome
  BY <1>1, <1>6, <1>9, <1>10, InferOutcome
<1>13. \A k \in 1..Len(exprs) : IsType(types[k])
  <2>. HIDE DEF types
  <2>. QED BY <1>1, <1>5, <1>9, <1>10, <1>12, FirstFailureFacts
<1>14. \A k \in 1..Len(exprs) : Infer(exprs[k], s) # Unknown
  <2>. SUFFICES ASSUME NEW k \in 1..Len(exprs), Infer(exprs[k], s) = Unknown PROVE FALSE
    OBVIOUS
  <2>1. CASE NextEntry.what = "super"
    <3>1. IsClass(Unknown)
      BY <1>7, <1>11, <2>1
    <3>. QED BY <1>1, <3>1, OutcomeFacts
  <2>2. CASE NextEntry.what # "super"
    <3>1. Len(exprs) = 1 /\ k = 1
      BY <1>8, <2>2
    <3>2. NextEntry.types = [i \in 1..1 |-> Infer(exprs[i], s)]
      BY <1>3, <1>9, <3>1 DEF InferAll
    <3>3. NextEntry.types = <<Unknown>>
      BY <3>1, <3>2
    <3>. QED BY <3>3
  <2>. QED BY <2>1, <2>2
<1>15. \A k \in 1..Len(exprs) : Infer(exprs[k], t) = Infer(exprs[k], s)
  BY <1>3, <1>9, <1>10, <1>13, <1>14 DEF Again, Holds
<1>16. InferAll(exprs, t) = InferAll(exprs, s)
  BY <1>9, <1>15 DEF InferAll
<1>. QED BY <1>3, <1>16 DEF t, exprs

\* The calls in an expression that is collected are bound as they were checked.
LEMMA CollectsAsChecked ==
  ASSUME IInv, AtEntry, Succeeds, NextEntry.what # "member",
         NEW k \in DOMAIN NextEntry.exprs, NEW x \in CallsIn(NextEntry.exprs[k])
  PROVE  LET types == InferAll(PartsOf(x), ScopeOf(NextEntry))
         IN  \/ ~IsNewCall(x) /\ Last(types) = x.name
             \/ BindsAsChecked(x, types, Find(x, types))
<1> DEFINE t == ScopeOf(NextEntry)
           e == NextEntry.exprs[k]
<1>1. program \in DOMAIN Inputs /\ IsScope(t)
  BY EntryFacts
<1>2. PICK s : IsScope(s) /\ e \in Expression /\ Again(e, s, t)
  BY EntryAgain
<1>3. \A j \in DOMAIN PartsOf(e) : IsType(Infer(PartsOf(e)[j], t))
  BY <1>2, PartsSucceed
<1>4. x \in CallsIn(e)
  OBVIOUS
<1>. HIDE DEF t, e
<1>5. x \in Expression /\ x.op = "call"
  BY <1>1, <1>2, <1>4, CallsAre
<1>6. CASE IsType(Infer(x, t))
  BY <1>1, <1>5, <1>6, CallBinds DEF t
<1>7. CASE x = e
  <2>1. InferAll(PartsOf(x), t) = InferAll(PartsOf(x), s)
    BY <1>1, <1>2, <1>3, <1>5, <1>7, CallPartsKept DEF Again
  <2>2. IsType(Infer(x, s))
    BY <1>2, <1>7 DEF Again
  <2>. QED BY <1>1, <1>2, <1>5, <2>1, <2>2, CallBinds DEF t
<1>8. CASE x # e
  <2>1. PICK part \in Range(PartsOf(e)) : x \in CallsIn(part)
    BY <1>1, <1>2, <1>4, <1>8, CallsInDef
  <2>2. PICK j \in DOMAIN PartsOf(e) : part = PartsOf(e)[j]
    BY <1>1, <1>2, <2>1, PartsInRange
  <2>3. part \in Expression /\ IsType(Infer(part, t))
    BY <1>1, <1>2, <1>3, <2>2, PartsFacts
  <2>4. IsType(Infer(x, t))
    BY <1>1, <2>1, <2>3, CallsTyped
  <2>. QED BY <1>6, <2>4
<1>. QED BY <1>7, <1>8

\* The field of the tree has the type of the field's symbol, unless that is no type.
LEMMA TreeFieldHasType ==
  ASSUME IInv, AtEntry, NextEntry.what # "field",
         NEW d \in DOMAIN Symbols, NEW n \in DOMAIN field_types[d], field_types[d][n] # Unknown
  PROVE  TreeFieldType(d, n) = field_types[d][n]
<1>1. /\ program \in DOMAIN Inputs /\ FieldsFine(field_types) /\ phase = "collect" /\ ~errors
      /\ DOMAIN collected = 1..Len(collected) /\ Len(collected) \in Nat
      /\ DOMAIN log = 1..Len(log) /\ Len(log) \in Nat /\ Len(collected) + 1 \in DOMAIN log
      /\ NextEntry = log[Len(collected) + 1]
  BY EntryFacts
<1>2. /\ LogFine(log, field_types, scopes) /\ AgainFine(collected, log)
      /\ ProgressFine(phase, cls, item, field_types, errors, log)
  BY DEF IInv, CollectedFine
<1>3. CASE d \in BuiltinClass
  BY <1>1, <1>3 DEF TreeFieldType, FieldsFine
<1>4. CASE d \notin BuiltinClass
  <2>1. PICK j \in DOMAIN Classes : Classes[j].name = d
    BY <1>1, <1>4, SymbolsAre DEF ClassNames
  <2>2. PICK i \in DOMAIN Classes[j].fields : n = Classes[j].fields[i]
    BY <1>1, <2>1 DEF FieldsFine, Range
  <2>3. PICK y \in DOMAIN log :
          log[y].what = "field" /\ log[y].at[1] = j /\ log[y].name = Classes[j].fields[i]
    BY <1>1, <1>2 DEF ProgressFine
  <2>4. y \in DOMAIN collected
    <3>1. ~(Len(collected) + 1 < y)
      BY <1>1, <1>2, <2>3 DEF ProgressFine
    <3>2. y # Len(collected) + 1
      BY <1>1, <2>3
    <3>. QED BY <1>1, <3>1, <3>2
  <2> DEFINE IsIt(k) == log[k].what = "field" /\ Classes[log[k].at[1]].name = d /\ log[k].name = n
             z == CHOOSE k \in DOMAIN collected : IsIt(k)
  <2>5. IsIt(y)
    BY <2>1, <2>2, <2>3
  <2>6. z \in DOMAIN collected /\ IsIt(z)
    <3>. HIDE DEF IsIt
    <3>. QED BY <2>4, <2>5
  <2>7. TreeFieldType(d, n) = collected[z].types[1]
    BY <1>4 DEF TreeFieldType
  <2>. HIDE DEF z
  <2>8. z \in DOMAIN log
    BY <1>1, <2>6
  <2>9. log[z].types = <<field_types[d][n]>>
    BY <1>2, <2>6, <2>8 DEF LogFine, EntryFine
  <2>10. log[z].types # <<Unknown>>
    BY <2>9
  <2>11. Reinferred(log[z])
    BY <2>6 DEF Reinferred
  <2>12. collected[z].types = log[z].types
    BY <1>2, <2>6, <2>10, <2>11 DEF AgainFine
  <2>. QED BY <2>7, <2>9, <2>12
<1>. QED BY <1>3, <1>4

\* Nothing but a value of no type fits what has no type.
LEMMA FitsUnknown ==
  ASSUME program \in DOMAIN Inputs, NEW t, IsSubtype(t, Unknown)
  PROVE  t = Unknown
<1>1. ASSUME t # Unknown PROVE FALSE
  <2>1. t \in DOMAIN Symbols /\ Symbols[t].base = Unknown
    BY <1>1 DEF IsSubtype, IsClass
  <2>2. Symbols[t].base \in DOMAIN Symbols \cup {NoClass}
    BY <2>1, SymbolFacts DEF IsSymbol
  <2>3. Unknown \notin DOMAIN Symbols
    BY NotAClassIsNot DEF NotAClass
  <2>4. NoClass # Unknown
    BY DEF NoClass, Unknown
  <2>. QED BY <2>1, <2>2, <2>3, <2>4
<1>. QED BY <1>1

LEMMA CollectsFitting ==
  ASSUME IInv, AtEntry, Succeeds, NextEntry.what = "assign", NextEntry.types # <<Unknown>>
  PROVE  \/ IsSubtype(InferAll(NextEntry.exprs, ScopeOf(NextEntry))[1], AssignedType(NextEntry))
         \/ Sources(NextEntry, field_types, scopes) > 1
<1> DEFINE at    == NextEntry.at
           name  == NextEntry.name
           c     == Classes[at[1]].name
           shown == Shown(field_types, c)
           D     == Declaring(field_types, c, name)
           chain == Symbols[c].chain
           local == name \in DOMAIN scopes[at]
           type  == NextEntry.types[1]
           vs    == Merge(scopes[at], shown)
<1>1. program \in DOMAIN Inputs /\ FieldsFine(field_types)
      /\ EntryFine(NextEntry, field_types, scopes)
  BY EntryFacts
<1>2. /\ c \in DOMAIN Symbols /\ at \in DOMAIN scopes
      /\ name \in DOMAIN vs /\ IsSubtype(type, vs[name])
  BY AssignedIsVisible
<1>3. InferAll(NextEntry.exprs, ScopeOf(NextEntry))[1] = type
  <2>1. Reinferred(NextEntry)
    BY DEF Reinferred
  <2>. QED BY <2>1, CollectsAgain
<1>4. ToField(NextEntry) => D # {}
  BY DEF Succeeds, CollectFails, FieldClasses
<1>5. ToField(NextEntry) <=> name \in DOMAIN shown \/ IsClass(name)
  BY ScopesAre DEF ToField
<1>6. name \in DOMAIN shown <=> D # {}
  BY <1>1, <1>2, ShownFacts
<1>7. /\ chain \in Seq(DOMAIN Symbols) /\ Len(chain) \in Nat /\ DOMAIN chain = 1..Len(chain)
      /\ D \in SUBSET (1..Len(chain))
  <2>1. chain \in Seq(DOMAIN Symbols)
    BY <1>1, <1>2, SymbolsAre
  <2>. QED BY <2>1 DEF Declaring
<1>8. IsFiniteSet(D) /\ Cardinality(D) \in Nat
  <2>. HIDE DEF D
  <2>1. IsFiniteSet(1..Len(chain))
    BY <1>7, FS_Interval
  <2>2. IsFiniteSet(D)
    BY <1>7, <2>1, FS_Subset
  <2>. QED BY <2>2, FS_CardinalityType
<1>9. Sources(NextEntry, field_types, scopes) = Cardinality(D) + IF local THEN 1 ELSE 0
  BY DEF Sources
<1>10. D # {} => Cardinality(D) >= 1
  <2>. HIDE DEF D
  <2>1. D # {} => Cardinality(D) # 0
    BY <1>8, FS_EmptySet
  <2>. QED BY <1>8, <2>1
<1>11. CASE local
  <2>1. CASE D # {}
    <3>. HIDE DEF D
    <3>. QED BY <1>8, <1>9, <1>10, <1>11, <2>1
  <2>2. CASE D = {}
    <3>1. ~ToField(NextEntry)
      BY <1>4, <2>2
    <3>2. AssignedType(NextEntry) = scopes[at][name]
      BY <3>1 DEF AssignedType
    <3>3. vs[name] = scopes[at][name]
      BY <1>11 DEF Merge
    <3>. QED BY <1>2, <1>3, <3>2, <3>3
  <2>. QED BY <2>1, <2>2
<1>12. CASE ~local
  <2>1. name \in DOMAIN shown /\ vs[name] = shown[name]
    <3>. HIDE DEF shown
    <3>. QED BY <1>2, <1>12 DEF Merge
  <2>2. D # {} /\ ToField(NextEntry)
    BY <1>5, <1>6, <2>1
  <2>3. PICK k \in D : k = Min(D) /\ chain[k] \in DOMAIN Symbols
                       /\ name \in DOMAIN field_types[chain[k]]
                       /\ shown[name] = field_types[chain[k]][name]
    BY <1>1, <1>2, <2>1, ShownFacts
  <2>4. AssignedType(NextEntry) = TreeFieldType(chain[Max(D)], name)
    BY <2>2 DEF AssignedType, FieldClasses
  <2>5. CASE Cardinality(D) # 1
    <3>. HIDE DEF D
    <3>. QED BY <1>8, <1>9, <1>10, <1>12, <2>2, <2>5
  <2>6. CASE Cardinality(D) = 1
    <3>1. Max(D) = k
      <4>. HIDE DEF D
      <4>1. Max(D) \in D
        BY <1>7, <2>2, GreatestNumber
      <4>2. PICK x : D = {x}
        BY <1>8, <2>6, FS_Singleton
      <4>. QED BY <2>3, <4>1, <4>2
    <3>2. CASE field_types[chain[k]][name] # Unknown
      <4>1. TreeFieldType(chain[k], name) = field_types[chain[k]][name]
        BY <2>3, <3>2, TreeFieldHasType
      <4>. QED BY <1>2, <1>3, <2>1, <2>3, <2>4, <3>1, <4>1
    <3>3. CASE field_types[chain[k]][name] = Unknown
      <4>1. type = Unknown
        BY <1>1, <1>2, <2>1, <2>3, <3>3, FitsUnknown
      <4>2. NextEntry.types = <<Unknown>>
        <5>1. Len(NextEntry.exprs) = 1 /\ NextEntry.exprs \in Seq(Expression)
          BY <1>1 DEF EntryFine
        <5>2. PICK s : NextEntry.types = InferAll(NextEntry.exprs, s)
          BY EntryAgain
        <5>3. NextEntry.types = [i \in 1..1 |-> NextEntry.types[i]]
          BY <5>1, <5>2 DEF InferAll
        <5>. QED BY <4>1, <5>3
      <4>. QED BY <4>2
    <3>. QED BY <3>2, <3>3
  <2>. QED BY <2>5, <2>6
<1>. QED BY <1>11, <1>12

LEMMA CollectNextKeeps ==
  ASSUME IInv, CollectNext
  PROVE  IInv'
<1> DEFINE t     == ScopeOf(NextEntry)
           types == InferAll(NextEntry.exprs, t)
           x     == Len(collected) + 1
<1>1. AtEntry
  BY DEF CollectNext
<1>2. \/ CollectFails(NextEntry, types, t) /\ Abort
      \/ ~CollectFails(NextEntry, types, t) /\ Collect(NextEntry, types, t)
  BY DEF CollectNext
<1>3. CASE CollectFails(NextEntry, types, t) /\ Abort
  BY <1>1, <1>3, CollectAborts
<1>4. CASE ~CollectFails(NextEntry, types, t) /\ Collect(NextEntry, types, t)
  <2> DEFINE made == [types  |-> IF Reinferred(NextEntry) THEN types ELSE <<>>,
                      calls  |-> {CollectCall(c[1], c[2]) : c \in CallsOf(NextEntry, t)},
                      target |-> AssignedType(NextEntry)]
  <2>1. /\ program' = program /\ phase' = phase /\ cls' = cls /\ kind' = kind /\ item' = item
        /\ step' = step /\ field_types' = field_types /\ scopes' = scopes /\ errors' = errors
        /\ log' = log /\ collected' = Append(collected, made)
    BY <1>4 DEF Collect, walk
  <2>2. Succeeds
    BY <1>4 DEF Succeeds
  <2>3. /\ program \in DOMAIN Inputs /\ phase = "collect"
        /\ Len(collected) \in Nat /\ DOMAIN collected = 1..Len(collected)
        /\ Len(log) \in Nat /\ DOMAIN log = 1..Len(log) /\ Len(collected) < Len(log)
        /\ NextEntry = log[x] /\ x \in DOMAIN log
    BY <1>1, EntryFacts
  <2>4. ASSUME Reinferred(NextEntry), NextEntry.types # <<Unknown>>
        PROVE  made.types = NextEntry.types
    BY <1>1, <2>2, <2>4, CollectsAgain
  <2>5. ASSUME NEW call \in made.calls, NextEntry.what # "member"
        PROVE  \/ ~IsNewCall(call.expr) /\ Last(call.types) = call.expr.name
               \/ BindsAsChecked(call.expr, call.types, call.target)
    <3>1. PICK c \in CallsOf(NextEntry, t) : call = CollectCall(c[1], c[2])
      OBVIOUS
    <3>2. PICK e \in UNION {CallsIn(NextEntry.exprs[k]) : k \in DOMAIN NextEntry.exprs} :
            c = <<e, InferAll(PartsOf(e), t)>>
      BY <3>1 DEF CallsOf
    <3>3. PICK k \in DOMAIN NextEntry.exprs : e \in CallsIn(NextEntry.exprs[k])
      BY <3>2
    <3>4. LET is == InferAll(PartsOf(e), t)
          IN  \/ ~IsNewCall(e) /\ Last(is) = e.name
              \/ BindsAsChecked(e, is, Find(e, is))
      BY <1>1, <2>2, <2>5, <3>3, CollectsAsChecked
    <3>5. /\ call.expr = e /\ call.types = InferAll(PartsOf(e), t)
          /\ call.target = Find(e, InferAll(PartsOf(e), t))
      BY <3>1, <3>2 DEF CollectCall
    <3>. QED BY <3>4, <3>5
  <2>6. ASSUME NextEntry.what = "assign"
        PROVE  \/ IsSubtype(made.types[1], made.target)
               \/ Sources(NextEntry, field_types, scopes) > 1
               \/ NextEntry.types = <<Unknown>>
    <3>1. made.types = types /\ made.target = AssignedType(NextEntry)
      BY <2>6 DEF Reinferred
    <3>. QED BY <1>1, <2>2, <2>6, <3>1, CollectsFitting
  <2>. HIDE DEF made
  <2>7. /\ IsSeq(collected') /\ Len(collected') = x /\ DOMAIN collected' = 1..x
        /\ \A k \in DOMAIN collected : collected'[k] = collected[k]
        /\ collected'[x] = made
    <3>1. PICK S : collected \in Seq(S)
      BY DEF IInv, CollectedFine, IsSeq
    <3>2. collected \in Seq(S \cup {made}) /\ made \in S \cup {made}
      BY <3>1
    <3>3. collected' \in Seq(S \cup {made})
      BY <2>1, <3>2
    <3>. QED BY <2>1, <3>2, <3>3 DEF IsSeq
  <2>8. \A k \in DOMAIN collected' : k = x \/ k \in DOMAIN collected
    BY <2>3, <2>7
  <2>9. CollectedFine(collected, log, field_types, scopes)
    BY DEF IInv
  <2>. HIDE DEF x, types, t
  <2>10. AgainFine(collected', log)
    BY <2>3, <2>4, <2>7, <2>8, <2>9 DEF AgainFine, CollectedFine
  <2>11. BindFine(collected', log)
    BY <2>3, <2>5, <2>7, <2>8, <2>9 DEF BindFine, CollectedFine
  <2>12. FitFine(collected', log, field_types, scopes)
    BY <2>3, <2>6, <2>7, <2>8, <2>9 DEF FitFine, CollectedFine
  <2>13. CollectedFine(collected', log', field_types', scopes')
    <3>1. Len(collected') <= Len(log)
      BY <2>3, <2>7 DEF x
    <3>. QED BY <2>1, <2>7, <2>10, <2>11, <2>12, <3>1 DEF CollectedFine
  <2>14. WalkFine(phase', cls', kind', item', step', scopes', errors', collected')
    <3>1. WalkFine(phase, cls, kind, item, step, scopes, errors, collected)
      BY DEF IInv
    <3>2. WalkFine(phase, cls, kind, item, step, scopes, errors, collected')
      BY <2>3, <3>1 DEF WalkFine
    <3>. QED BY <2>1, <3>2
  <2>15. AbortFine(phase', cls', kind', item', collected', log', field_types', scopes')
    BY <2>1, <2>3 DEF AbortFine
  <2>16. /\ FieldsFine(field_types') /\ ScopesFine(scopes')
         /\ LogFine(log', field_types', scopes')
         /\ ProgressFine(phase', cls', item', field_types', errors', log')
    BY <2>1 DEF IInv
  <2>. QED BY <2>1, <2>3, <2>13, <2>14, <2>15, <2>16, InvPrimed
<1>. QED BY <1>2, <1>3, <1>4

LEMMA NextKeeps ==
  ASSUME IInv, [Next]_vars
  PROVE  IInv'
BY FieldKeeps, NextFieldClassKeeps, EndFieldsKeeps, BeginMethodKeeps, BeginConstructorKeeps,
   NoSuperKeeps, CallSuperKeeps, BlockKeeps, ReturnNothingKeeps, EndBodyKeeps, ResultKeeps,
   NextKindKeeps, EndMethodsKeeps, CollectNextKeeps, FinishKeeps, StutterKeeps
   DEF Next

\* What the checks inferred stays true while the scopes grow: what they entries of
\* an expression was inferred in a scope that the one there now extends.
THEOREM Invariance == Spec => []IInv
<1>1. Init => IInv
  BY InitFine
<1>2. IInv /\ [Next]_vars => IInv'
  BY NextKeeps
<1>. QED BY <1>1, <1>2, PTL DEF Spec

\* For all programs, a call is compiled for the overload it was checked with: where
\* the arguments leave no choice, the collector's loops over the tree come to the
\* member that the search of the symbol table came to.
THEOREM BindsAsCheckedAlways == Spec => []CallsBindAsChecked
<1>1. IInv => CallsBindAsChecked
  BY DEF IInv, CollectedFine, BindFine, CallsBindAsChecked
<1>. QED BY <1>1, Invariance, PTL

\* For all programs, the phase that builds the typed tree infers for an expression
\* the types that the checks inferred, in scopes that have grown since.  It aborts
\* only at a member expression that is a statement, or where a variable has the name
\* of a class.
THEOREM InferredAgainAlways == Spec => []InferredAgain
<1>1. ASSUME IInv PROVE InferredAgain
  <2>1. AgainFine(collected, log)
    BY <1>1 DEF IInv, CollectedFine
  <2>2. ASSUME phase = "aborted"
        PROVE  IF Len(collected) < Len(log) /\ cls > Len(Classes)
                 THEN NextEntry.what = "member" \/ ShadowsClass(ScopeOf(NextEntry).variables)
                 ELSE ShadowsClass(IF kind = "fields" THEN ClassScope(Name) ELSE Scope.variables)
    <3>1. AbortFine(phase, cls, kind, item, collected, log, field_types, scopes)
      BY <1>1 DEF IInv
    <3>2. /\ NextEntry = log[Len(collected) + 1]
          /\ ScopeOf(NextEntry) = ScopeFor(field_types, scopes, NextEntry)
          /\ ClassScope(Name) = Shown(field_types, Classes[cls].name)
          /\ Scope = ScopeAt(field_types, scopes, <<cls, kind, item>>)
      BY ScopesAre DEF NextEntry, Name, Scope, Here
    <3>. QED BY <2>2, <3>1, <3>2 DEF AbortFine
  <2>. QED BY <2>1, <2>2 DEF AgainFine, InferredAgain
<1>. QED BY <1>1, Invariance, PTL

\* For all programs, a value that is assigned has a type that fits the variable or
\* the field that the assignment is compiled for, if only one has that name.
THEOREM AssignmentsFitAlways == Spec => []AssignmentsFitTheirTarget
<1>1. ASSUME IInv PROVE AssignmentsFitTheirTarget
  <2>1. FitFine(collected, log, field_types, scopes)
    BY <1>1 DEF IInv, CollectedFine
  <2>2. \A entry : Sources(entry, field_types, scopes) = Declarations(entry)
    BY DEF Sources, Declarations, FieldClasses
  <2>. QED BY <2>1, <2>2 DEF FitFine, AssignmentsFitTheirTarget
<1>. QED BY <1>1, Invariance, PTL

-----------------------------------------------------------------------------
(***************************************************************************)
(* Virtual tables and dispatch.                                            *)
(***************************************************************************)

\* Progress: which tables exist at each point of the two loops.
Progress ==
  /\ stage \in {"class", "methods"} => Len(vtables) = current - 1 /\ DOMAIN globals = {}
  /\ stage = "methods" => current <= NumClasses
  /\ stage = "emit" => Len(vtables) = NumClasses

UniqueSigs(t) == \A i, j \in 1..Len(t) : t[i].sig = t[j].sig => i = j

\* Table t of class c after the first n - 1 of its methods: the base's slots,
\* each overridden or as in the base, then the new methods.
PartialTable(c, t, n) ==
  /\ UniqueSigs(t)
  /\ BaseOf(c) # Builtin =>
       /\ Len(vtables[BaseOf(c)]) <= Len(t)
       /\ \A i \in 1..Len(vtables[BaseOf(c)]) : t[i].sig = vtables[BaseOf(c)][i].sig
  /\ \A i \in 1..Len(t) :
       \/ t[i].owner = c /\ \E j \in 1..n - 1 : Own(c)[j] = t[i].sig
       \/ /\ BaseOf(c) # Builtin /\ i <= Len(vtables[BaseOf(c)])
          /\ t[i] = vtables[BaseOf(c)][i]
          /\ \A j \in 1..n - 1 : Own(c)[j] # t[i].sig
  /\ \A j \in 1..n - 1 : \E i \in 1..Len(t) : t[i].sig = Own(c)[j]

InheritsSlots(vt, c) ==
  \A a \in Ancestors(c) :
    /\ a \in 1..Len(vt)
    /\ Len(vt[a]) <= Len(vt[c])
    /\ \A i \in 1..Len(vt[a]) : vt[c][i].sig = vt[a][i].sig

HoldsNearest(t, c) ==
  \A i \in 1..Len(t) : NearestDeclaring(c, t[i].sig, t[i].owner)

HoldsAll(t, c) ==
  \A a \in Ancestors(c) : \A s \in Signature :
    Declares(a, s) => \E i \in 1..Len(t) : t[i].sig = s

\* What holds of the table of class c among the tables vt once it is stored.
Finished(vt, c) ==
  UniqueSigs(vt[c]) /\ InheritsSlots(vt, c) /\ HoldsNearest(vt[c], c) /\ HoldsAll(vt[c], c)

GlobalsEmitted(c) ==
  vtables[c] # <<>> =>
    /\ c \in DOMAIN globals
    /\ globals[c] = [i \in DOMAIN vtables[c] |-> vtables[c][i].owner]

TablesIInv ==
  /\ TypeOK
  /\ Progress
  /\ stage = "methods" => next <= Len(Own(current)) + 1 /\ PartialTable(current, entries, next)
  /\ \A c \in Built : Finished(vtables, c)
  /\ stage = "emit" => \A c \in 1..current - 1 : GlobalsEmitted(c)

LEMMA TypeFacts ==
  ASSUME TypeOK
  PROVE  /\ NumClasses \in Nat /\ current \in Nat \ {0} /\ Len(vtables) \in Nat
         /\ \A c \in Class : /\ BaseOf(c) \in Nat /\ BaseOf(c) < c
                             /\ BaseOf(c) # Builtin => BaseOf(c) \in Class
                             /\ Own(c) \in Seq(Signature) /\ Len(Own(c)) \in Nat
                             /\ Ancestors(c) \subseteq Class
         /\ \A c \in Built : vtables[c] \in Seq(TableEntry) /\ Len(vtables[c]) \in Nat
         /\ Built \subseteq Class
BY NumClassesAssumption DEF TypeOK, Hierarchy, Class, Builtin, BaseOf, Own, Ancestors, Built

LEMMA AncestorsOf ==
  ASSUME TypeOK, NEW c \in Class
  PROVE  /\ c \in Ancestors(c)
         /\ BaseOf(c) = Builtin => Ancestors(c) = {c}
         /\ BaseOf(c) # Builtin => Ancestors(c) = {c} \cup Ancestors(BaseOf(c))
BY DEF TypeOK, Hierarchy, BaseOf, Ancestors

LEMMA TablesInitIInv == TablesInit => TablesIInv
<1> SUFFICES ASSUME TablesInit PROVE TablesIInv
  OBVIOUS
<1>1. TypeOK
  BY HierarchiesAssumption, NumClassesAssumption DEF TablesInit, TypeOK
<1>. QED
  BY <1>1 DEF TablesInit, TablesIInv, Progress, Built

\* The program is fixed, so what is said of a table does not change with time.
LEMMA FinishedMeans ==
  ASSUME hierarchy' = hierarchy, NEW c
  PROVE  Finished(vtables, c)' <=> Finished(vtables', c)
<1>1. HoldsNearest(vtables'[c], c) <=> HoldsNearest(vtables[c], c)'
  BY DEF HoldsNearest, NearestDeclaring, Ancestors, Declares, Own
<1>2. HoldsAll(vtables'[c], c) <=> HoldsAll(vtables[c], c)'
  BY DEF HoldsAll, Ancestors, Declares, Own
<1>3. InheritsSlots(vtables', c) <=> InheritsSlots(vtables, c)'
  BY DEF InheritsSlots, Ancestors
<1>. QED BY <1>1, <1>2, <1>3 DEF Finished, UniqueSigs

LEMMA FinishedKept ==
  ASSUME TablesIInv, UNCHANGED <<hierarchy, vtables>>
  PROVE  \A c \in Built' : Finished(vtables, c)'
<1>1. Built' = Built /\ vtables' = vtables /\ hierarchy' = hierarchy
  BY DEF Built
<1>2. \A c \in Built' : Finished(vtables', c)
  BY <1>1 DEF TablesIInv
<1>. QED BY <1>1, <1>2, FinishedMeans

\* The three steps of one table.
LEMMA BeginStep == ASSUME TablesIInv, BeginClass PROVE TablesIInv'
<1>0. current \in Class /\ (BaseOf(current) # Builtin => BaseOf(current) \in Built)
  BY TypeFacts DEF BeginClass, TablesIInv, Progress, Class, Built
<1>1. entries' \in Seq(TableEntry)
  BY <1>0, TypeFacts DEF BeginClass, TablesIInv
<1>2. TypeOK'
  BY <1>1 DEF BeginClass, TablesIInv, TypeOK
<1>3. PartialTable(current, entries', 1)
  <2>1. CASE BaseOf(current) = Builtin
    BY <2>1 DEF BeginClass, PartialTable, UniqueSigs
  <2>2. CASE BaseOf(current) # Builtin
    BY <2>2, <1>0, TypeFacts DEF BeginClass, PartialTable, TablesIInv, Finished
  <2>. QED BY <2>1, <2>2
<1>4. PartialTable(current, entries, next)' <=> PartialTable(current, entries', 1)
  BY DEF BeginClass, PartialTable, BaseOf, Own
<1>5. Len(Own(current)) \in Nat
  BY <1>0, TypeFacts DEF TablesIInv
<1>6. \A c \in Built' : Finished(vtables, c)'
  BY FinishedKept DEF BeginClass
<1>7. Progress'
  BY DEF BeginClass, TablesIInv, Progress
<1>. QED BY <1>2, <1>3, <1>4, <1>5, <1>6, <1>7 DEF TablesIInv, BeginClass, Own

LEMMA NextMethodFacts ==
  ASSUME TablesIInv, AtMethod
  PROVE  /\ current \in Class /\ next \in 1..Len(Own(current)) /\ next \in Nat
         /\ NextMethod \in Signature
         /\ PartialTable(current, entries, next)
         /\ entries \in Seq(TableEntry) /\ Len(entries) \in Nat
         /\ \A j \in 1..next - 1 : Own(current)[j] # NextMethod
         /\ BaseOf(current) # Builtin => BaseOf(current) \in Built /\ Len(vtables[BaseOf(current)]) \in Nat
<1>1. current \in Class /\ entries \in Seq(TableEntry) /\ next \in Nat \ {0}
  BY TypeFacts DEF AtMethod, TablesIInv, Progress, Class, TypeOK
<1>2. Own(current) \in Seq(Signature) /\ Len(Own(current)) \in Nat
  BY <1>1, TypeFacts DEF TablesIInv
<1>3. \A i, j \in 1..Len(Own(current)) : Own(current)[i] = Own(current)[j] => i = j
  BY <1>1 DEF TablesIInv, TypeOK, Hierarchy, Own
<1>4. BaseOf(current) # Builtin => BaseOf(current) \in Built /\ Len(vtables[BaseOf(current)]) \in Nat
  BY <1>1, TypeFacts DEF AtMethod, TablesIInv, Progress, Class, Built
<1>. QED BY <1>1, <1>2, <1>3, <1>4 DEF AtMethod, TablesIInv, NextMethod

LEMMA OverrideStep == ASSUME TablesIInv, Override PROVE TablesIInv'
<1>0. AtMethod
  BY DEF Override
<1> USE NextMethodFacts, <1>0
<1>1. PICK i \in DOMAIN entries :
        /\ FirstMatch(entries, NextMethod, i)
        /\ entries' = [entries EXCEPT ![i] = [sig |-> NextMethod, owner |-> current]]
  BY DEF Override
<1>2. /\ i \in 1..Len(entries) /\ entries[i].sig = NextMethod
      /\ entries' \in Seq(TableEntry) /\ Len(entries') = Len(entries)
      /\ entries'[i] = [sig |-> NextMethod, owner |-> current]
      /\ \A j \in 1..Len(entries) : j # i => entries'[j] = entries[j]
  BY <1>1 DEF FirstMatch, TableEntry
<1>3. \A j \in 1..Len(entries) : entries'[j].sig = entries[j].sig
  BY <1>2
<1>4. TypeOK'
  BY <1>2 DEF Override, TablesIInv, TypeOK
<1>5. PartialTable(current, entries', next + 1)
  <2>0. 1..(next + 1) - 1 = (1..next - 1) \cup {next}
    OBVIOUS
  <2>1. UniqueSigs(entries')
    BY <1>2, <1>3 DEF PartialTable, UniqueSigs
  <2>2. BaseOf(current) # Builtin =>
          /\ Len(vtables[BaseOf(current)]) <= Len(entries')
          /\ \A j \in 1..Len(vtables[BaseOf(current)]) :
               entries'[j].sig = vtables[BaseOf(current)][j].sig
    BY <1>2, <1>3 DEF PartialTable
  <2>3. ASSUME NEW j \in 1..Len(entries')
        PROVE  \/ /\ entries'[j].owner = current
                  /\ \E m \in 1..(next + 1) - 1 : Own(current)[m] = entries'[j].sig
               \/ /\ BaseOf(current) # Builtin /\ j <= Len(vtables[BaseOf(current)])
                  /\ entries'[j] = vtables[BaseOf(current)][j]
                  /\ \A m \in 1..(next + 1) - 1 : Own(current)[m] # entries'[j].sig
    <3>1. CASE j = i
      BY <3>1, <1>2, <2>0 DEF NextMethod
    <3>2. CASE j # i
      <4>1. entries'[j] = entries[j] /\ entries[j].sig # NextMethod
        BY <3>2, <1>2 DEF PartialTable, UniqueSigs
      <4>. QED BY <4>1, <1>2, <2>0 DEF PartialTable, NextMethod
    <3>. QED BY <3>1, <3>2
  <2>4. ASSUME NEW m \in 1..(next + 1) - 1
        PROVE  \E j \in 1..Len(entries') : entries'[j].sig = Own(current)[m]
    <3>1. CASE m = next
      BY <3>1, <1>2 DEF NextMethod
    <3>2. CASE m \in 1..next - 1
      <4>1. PICK j \in 1..Len(entries) : entries[j].sig = Own(current)[m]
        BY <3>2 DEF PartialTable
      <4>. QED BY <4>1, <1>2, <1>3
    <3>. QED BY <3>1, <3>2, <2>0
  <2>. QED BY <2>1, <2>2, <2>3, <2>4 DEF PartialTable
<1>6. PartialTable(current, entries, next)' <=> PartialTable(current, entries', next + 1)
  BY DEF Override, PartialTable, BaseOf, Own
<1>7. next' <= Len(Own(current)') + 1
  BY DEF Override, Own
<1>8. Progress'
  BY DEF Override, TablesIInv, Progress, AtMethod
<1>9. stage' = "methods" /\ Own(current') = Own(current) /\ current' = current
  BY DEF Override, AtMethod
<1>. QED BY <1>4, <1>5, <1>6, <1>7, <1>8, <1>9, FinishedKept DEF TablesIInv, Override

LEMMA AppendStep == ASSUME TablesIInv, AppendEntry PROVE TablesIInv'
<1>0. AtMethod
  BY DEF AppendEntry
<1> USE NextMethodFacts, <1>0
<1> DEFINE new == [sig |-> NextMethod, owner |-> current]
<1>1. \A i \in 1..Len(entries) : entries[i].sig # NextMethod
  BY DEF AppendEntry
<1>2. /\ entries' = Append(entries, new) /\ new \in TableEntry
      /\ entries' \in Seq(TableEntry) /\ Len(entries') = Len(entries) + 1
      /\ entries'[Len(entries) + 1] = new
      /\ \A j \in 1..Len(entries) : entries'[j] = entries[j]
  BY DEF AppendEntry, TableEntry
<1>4. TypeOK'
  BY <1>2 DEF AppendEntry, TablesIInv, TypeOK
<1>5. PartialTable(current, entries', next + 1)
  <2>0. /\ 1..(next + 1) - 1 = (1..next - 1) \cup {next}
        /\ 1..Len(entries') = (1..Len(entries)) \cup {Len(entries) + 1}
    BY <1>2
  <2>1. UniqueSigs(entries')
    BY <1>1, <1>2, <2>0 DEF PartialTable, UniqueSigs
  <2>2. BaseOf(current) # Builtin =>
          /\ Len(vtables[BaseOf(current)]) <= Len(entries')
          /\ \A j \in 1..Len(vtables[BaseOf(current)]) :
               entries'[j].sig = vtables[BaseOf(current)][j].sig
    BY <1>2 DEF PartialTable
  <2>3. ASSUME NEW j \in 1..Len(entries')
        PROVE  \/ /\ entries'[j].owner = current
                  /\ \E m \in 1..(next + 1) - 1 : Own(current)[m] = entries'[j].sig
               \/ /\ BaseOf(current) # Builtin /\ j <= Len(vtables[BaseOf(current)])
                  /\ entries'[j] = vtables[BaseOf(current)][j]
                  /\ \A m \in 1..(next + 1) - 1 : Own(current)[m] # entries'[j].sig
    <3>1. CASE j = Len(entries) + 1
      BY <3>1, <1>2, <2>0 DEF NextMethod
    <3>2. CASE j \in 1..Len(entries)
      <4>1. entries'[j] = entries[j] /\ entries[j].sig # Own(current)[next]
        BY <3>2, <1>1, <1>2 DEF NextMethod
      <4>2. CASE entries[j].owner = current /\ \E m \in 1..next - 1 : Own(current)[m] = entries[j].sig
        BY <4>1, <4>2, <2>0
      <4>3. CASE /\ BaseOf(current) # Builtin /\ j <= Len(vtables[BaseOf(current)])
                 /\ entries[j] = vtables[BaseOf(current)][j]
                 /\ \A m \in 1..next - 1 : Own(current)[m] # entries[j].sig
        BY <4>1, <4>3, <2>0
      <4>. QED BY <3>2, <4>2, <4>3 DEF PartialTable
    <3>. QED BY <3>1, <3>2, <2>0
  <2>4. ASSUME NEW m \in 1..(next + 1) - 1
        PROVE  \E j \in 1..Len(entries') : entries'[j].sig = Own(current)[m]
    <3>1. CASE m = next
      <4>1. Len(entries) + 1 \in 1..Len(entries') /\ new.sig = Own(current)[m]
        BY <3>1, <1>2, <2>0 DEF NextMethod
      <4>. QED BY <4>1, <1>2
    <3>2. CASE m \in 1..next - 1
      <4>1. PICK j \in 1..Len(entries) : entries[j].sig = Own(current)[m]
        BY <3>2 DEF PartialTable
      <4>. QED BY <4>1, <1>2, <2>0
    <3>. QED BY <3>1, <3>2, <2>0
  <2>. QED BY <2>1, <2>2, <2>3, <2>4 DEF PartialTable
<1>6. PartialTable(current, entries, next)' <=> PartialTable(current, entries', next + 1)
  BY DEF AppendEntry, PartialTable, BaseOf, Own
<1>7. next' <= Len(Own(current)') + 1
  BY DEF AppendEntry, Own
<1>8. Progress'
  BY DEF AppendEntry, TablesIInv, Progress, AtMethod
<1>9. stage' = "methods" /\ current' = current
  BY DEF AppendEntry, AtMethod
<1>. QED BY <1>4, <1>5, <1>6, <1>7, <1>8, <1>9, FinishedKept DEF TablesIInv, AppendEntry

\* A class whose methods are all processed has a finished table.
LEMMA TableFinishes ==
  ASSUME TablesIInv, stage = "methods", NEW n \in Nat, n = Len(Own(current)),
         PartialTable(current, entries, n + 1),
         NEW c, c = current
  PROVE  /\ UniqueSigs(entries)
         /\ \A a \in Ancestors(c) \ {c} :
              /\ a \in Built
              /\ Len(vtables[a]) <= Len(entries)
              /\ \A i \in 1..Len(vtables[a]) : entries[i].sig = vtables[a][i].sig
         /\ HoldsNearest(entries, c) /\ HoldsAll(entries, c)
<1> DEFINE b == BaseOf(c)
<1>0. /\ c \in Class /\ 1..(n + 1) - 1 = 1..Len(Own(c))
      /\ c \in Nat /\ b \in Nat /\ b < c
      /\ b # Builtin => b \in Built
      /\ Len(entries) \in Nat
  BY TypeFacts DEF TablesIInv, Progress, Class, Built, TypeOK
<1>1. c \in Ancestors(c) /\ (b = Builtin => Ancestors(c) = {c})
      /\ (b # Builtin => Ancestors(c) = {c} \cup Ancestors(b))
  BY <1>0, AncestorsOf DEF TablesIInv
<1>2. b # Builtin => Finished(vtables, b) /\ Len(vtables[b]) \in Nat
  BY <1>0, TypeFacts DEF TablesIInv
<1>3. b # Builtin => \A a \in Ancestors(b) : a \in Built /\ a \in Nat /\ a < c
  <2> SUFFICES ASSUME b # Builtin, NEW a \in Ancestors(b)
               PROVE  a \in Built /\ a \in Nat /\ a < c
    OBVIOUS
  <2>1. a \in Built
    BY <1>2 DEF Finished, InheritsSlots, Built
  <2>2. Len(vtables) = c - 1 /\ Len(vtables) \in Nat
    BY TypeFacts DEF TablesIInv, Progress
  <2>. QED BY <2>1, <2>2, <1>0 DEF Built
<1>4. UniqueSigs(entries)
  BY DEF PartialTable
<1>5. ASSUME NEW a \in Ancestors(c) \ {c}
      PROVE  /\ a \in Built
             /\ Len(vtables[a]) <= Len(entries)
             /\ \A i \in 1..Len(vtables[a]) : entries[i].sig = vtables[a][i].sig
  <2>1. b # Builtin /\ a \in Ancestors(b) /\ a \in Built
    BY <1>1, <1>3
  <2>2. /\ Len(vtables[a]) <= Len(vtables[b])
        /\ \A i \in 1..Len(vtables[a]) : vtables[b][i].sig = vtables[a][i].sig
    BY <2>1, <1>2 DEF Finished, InheritsSlots
  <2>3. /\ Len(vtables[b]) <= Len(entries)
        /\ \A i \in 1..Len(vtables[b]) : entries[i].sig = vtables[b][i].sig
    BY <2>1 DEF PartialTable
  <2>4. Len(vtables[a]) \in Nat /\ Len(vtables[b]) \in Nat
    BY <2>1, <1>2, TypeFacts DEF TablesIInv
  <2>. QED BY <2>1, <2>2, <2>3, <2>4, <1>0
<1>6. ASSUME NEW i \in 1..Len(entries)
      PROVE  NearestDeclaring(c, entries[i].sig, entries[i].owner)
  <2>1. CASE entries[i].owner = c /\ \E j \in 1..(n + 1) - 1 : Own(c)[j] = entries[i].sig
    <3>1. Declares(c, entries[i].sig)
      BY <2>1, <1>0 DEF Declares
    <3>2. \A a \in Ancestors(c) : a <= c
      BY <1>0, <1>1, <1>3
    <3>. QED BY <2>1, <3>1, <3>2, <1>1 DEF NearestDeclaring
  <2>2. CASE /\ b # Builtin /\ i <= Len(vtables[b])
             /\ entries[i] = vtables[b][i]
             /\ \A j \in 1..(n + 1) - 1 : Own(c)[j] # entries[i].sig
    <3>1. ~Declares(c, entries[i].sig)
      BY <2>2, <1>0 DEF Declares
    <3>2. NearestDeclaring(b, entries[i].sig, entries[i].owner)
      BY <2>2, <1>2, <1>0 DEF Finished, HoldsNearest
    <3>. QED BY <2>2, <3>1, <3>2, <1>1 DEF NearestDeclaring
  <2>. QED BY <2>1, <2>2 DEF PartialTable
<1>7. ASSUME NEW a \in Ancestors(c), NEW s \in Signature, Declares(a, s)
      PROVE  \E i \in 1..Len(entries) : entries[i].sig = s
  <2>1. CASE a = c
    <3>1. PICK j \in 1..Len(Own(c)) : Own(c)[j] = s
      BY <2>1, <1>7 DEF Declares
    <3>2. \A k \in 1..(n + 1) - 1 : \E i \in 1..Len(entries) : entries[i].sig = Own(c)[k]
      BY DEF PartialTable
    <3>. QED BY <3>1, <3>2, <1>0
  <2>2. CASE a # c
    <3>1. b # Builtin /\ a \in Ancestors(b)
      BY <2>2, <1>1
    <3>2. PICK i \in 1..Len(vtables[b]) : vtables[b][i].sig = s
      BY <3>1, <1>2, <1>7 DEF Finished, HoldsAll
    <3>3. i \in 1..Len(entries) /\ entries[i].sig = s
      BY <3>1, <3>2, <1>0, <1>2 DEF PartialTable
    <3>. QED BY <3>3
  <2>. QED BY <2>1, <2>2
<1>. QED BY <1>4, <1>5, <1>6, <1>7 DEF HoldsNearest, HoldsAll

LEMMA StoreStep == ASSUME TablesIInv, StoreTable PROVE TablesIInv'
<1>0. /\ current \in Class /\ current \in Nat /\ NumClasses \in Nat /\ current <= NumClasses
      /\ Len(vtables) = current - 1 /\ vtables \in Seq(Seq(TableEntry)) /\ entries \in Seq(TableEntry)
  BY TypeFacts DEF StoreTable, TablesIInv, Progress, Class, TypeOK
<1> DEFINE n == Len(Own(current))
<1>1. n \in Nat /\ next = n + 1
  <2>1. n \in Nat /\ next \in Nat
    BY <1>0, TypeFacts DEF TablesIInv, TypeOK
  <2>2. next > n /\ next <= n + 1
    BY DEF StoreTable, TablesIInv
  <2>. HIDE DEF n
  <2>. QED BY <2>1, <2>2
<1>2. PartialTable(current, entries, n + 1)
  BY <1>1 DEF StoreTable, TablesIInv
<1>3. /\ vtables' \in Seq(Seq(TableEntry)) /\ Len(vtables') = current
      /\ vtables'[current] = entries
      /\ \A c \in Built : vtables'[c] = vtables[c]
      /\ Built' = Built \cup {current} /\ Built' = 1..Len(vtables')
  BY <1>0 DEF StoreTable, Built
<1>4. TypeOK'
  BY <1>0, <1>3 DEF StoreTable, TablesIInv, TypeOK, Class
<1>5. Progress'
  BY <1>0, <1>3 DEF StoreTable, TablesIInv, Progress
<1>6. ASSUME NEW c \in Built
      PROVE  Finished(vtables', c)
  <2>1. Finished(vtables, c) /\ vtables'[c] = vtables[c]
    BY <1>3 DEF TablesIInv
  <2>2. \A a \in Ancestors(c) : a \in Built' /\ vtables'[a] = vtables[a]
    BY <2>1, <1>3 DEF Finished, InheritsSlots, Built
  <2>. QED BY <2>1, <2>2, <1>3 DEF Finished, InheritsSlots
<1>7. Finished(vtables', current)
  <2>1. /\ UniqueSigs(entries)
        /\ \A a \in Ancestors(current) \ {current} :
             /\ a \in Built
             /\ Len(vtables[a]) <= Len(entries)
             /\ \A i \in 1..Len(vtables[a]) : entries[i].sig = vtables[a][i].sig
        /\ HoldsNearest(entries, current) /\ HoldsAll(entries, current)
    BY <1>1, <1>2, TableFinishes DEF StoreTable
  <2>2. InheritsSlots(vtables', current)
    <3> SUFFICES ASSUME NEW a \in Ancestors(current)
                 PROVE  /\ a \in 1..Len(vtables')
                        /\ Len(vtables'[a]) <= Len(vtables'[current])
                        /\ \A i \in 1..Len(vtables'[a]) :
                             vtables'[current][i].sig = vtables'[a][i].sig
      BY DEF InheritsSlots
    <3>1. CASE a = current
      BY <3>1, <1>0, <1>3
    <3>2. CASE a # current
      BY <3>2, <2>1, <1>3
    <3>. QED BY <3>1, <3>2
  <2>. QED BY <2>1, <2>2, <1>3 DEF Finished
<1>8. \A c \in Built' : Finished(vtables, c)'
  <2>1. \A c \in Built' : Finished(vtables', c)
    BY <1>3, <1>6, <1>7
  <2>2. hierarchy' = hierarchy
    BY DEF StoreTable
  <2>. QED BY <2>1, <2>2, FinishedMeans
<1>. QED BY <1>4, <1>5, <1>8 DEF TablesIInv, StoreTable

LEMMA StartEmissionStep == ASSUME TablesIInv, StartEmission PROVE TablesIInv'
<1>1. NumClasses \in Nat /\ Len(vtables) = NumClasses /\ Len(vtables) \in Nat
  BY TypeFacts DEF StartEmission, TablesIInv, Progress, TypeOK
<1>2. TypeOK' /\ Progress'
  BY <1>1 DEF StartEmission, TablesIInv, TypeOK, Progress
<1>3. UNCHANGED <<hierarchy, vtables>> /\ stage' = "emit" /\ current' = 1
  BY DEF StartEmission
<1>4. 1..current' - 1 = {}
  BY <1>3
<1>. QED BY <1>2, <1>3, <1>4, FinishedKept DEF TablesIInv

LEMMA EmitStep == ASSUME TablesIInv, EmitGlobal PROVE TablesIInv'
<1>0. /\ current \in Class /\ current \in Nat /\ NumClasses \in Nat /\ current <= NumClasses
      /\ Len(vtables) = NumClasses /\ current \in Built
      /\ vtables[current] \in Seq(TableEntry)
  BY TypeFacts DEF EmitGlobal, TablesIInv, Progress, Class, TypeOK, Built
<1>1. UNCHANGED <<hierarchy, vtables>> /\ stage' = "emit" /\ current' = current + 1
  BY DEF EmitGlobal
<1>2. Progress'
  BY <1>1 DEF TablesIInv, Progress, EmitGlobal
<1> DEFINE owners == [i \in DOMAIN vtables[current] |-> vtables[current][i].owner]
<1>3. owners \in Seq(Class)
  <2>1. DOMAIN vtables[current] = 1..Len(vtables[current]) /\ Len(vtables[current]) \in Nat
    BY <1>0
  <2>2. \A i \in 1..Len(vtables[current]) : vtables[current][i].owner \in Class
    <3>1. \A i \in 1..Len(vtables[current]) : vtables[current][i] \in TableEntry
      BY <1>0
    <3>. QED BY <3>1 DEF TableEntry
  <2>. QED BY <2>1, <2>2
<1>4. TypeOK'
  <2>1. CASE vtables[current] = <<>>
    BY <2>1, <1>0 DEF EmitGlobal, TablesIInv, TypeOK
  <2>2. CASE vtables[current] # <<>>
    <3>1. DOMAIN globals' = DOMAIN globals \cup {current}
      BY <2>2 DEF EmitGlobal
    <3>2. \A c \in DOMAIN globals' : globals'[c] \in Seq(Class)
      BY <2>2, <1>3 DEF EmitGlobal, TablesIInv, TypeOK
    <3>3. UNCHANGED <<next, entries>>
      BY DEF EmitGlobal
    <3>4. DOMAIN globals' \subseteq Class /\ current' \in 1..NumClasses + 1
      BY <3>1, <1>0, <1>1 DEF TablesIInv, TypeOK
    <3>. QED BY <3>2, <3>3, <3>4, <1>1 DEF TablesIInv, TypeOK
  <2>. QED BY <2>1, <2>2
<1>5. ASSUME NEW c \in 1..current' - 1
      PROVE  GlobalsEmitted(c)'
  <2>1. CASE c = current
    BY <2>1 DEF EmitGlobal, GlobalsEmitted
  <2>2. CASE c # current
    <3>1. c \in 1..current - 1
      BY <2>2, <1>0, <1>1
    <3>2. GlobalsEmitted(c)
      BY <3>1 DEF TablesIInv, EmitGlobal
    <3>. QED BY <3>2, <2>2, <1>1 DEF EmitGlobal, GlobalsEmitted
  <2>. QED BY <2>1, <2>2
<1>. QED BY <1>1, <1>2, <1>4, <1>5, FinishedKept DEF TablesIInv

LEMMA TablesStep == TablesIInv /\ [TablesNext]_tables_vars => TablesIInv'
<1> SUFFICES ASSUME TablesIInv, [TablesNext]_tables_vars PROVE TablesIInv'
  OBVIOUS
<1>1. CASE UNCHANGED tables_vars
  <2>1. TypeOK' /\ Progress'
    BY <1>1 DEF TablesIInv, TypeOK, Progress, tables_vars
  <2>2. \A c \in Built' : Finished(vtables, c)'
    BY <1>1, FinishedKept DEF tables_vars
  <2>. QED
    BY <1>1, <2>1, <2>2 DEF tables_vars, TablesIInv, PartialTable, UniqueSigs, BaseOf, Own, GlobalsEmitted
<1>. QED
  BY <1>1, BeginStep, OverrideStep, AppendStep, StoreStep, StartEmissionStep, EmitStep
  DEF TablesNext

LEMMA TablesIInvHolds == TablesSpec => []TablesIInv
<1>. QED BY TablesInitIInv, TablesStep, PTL DEF TablesSpec

-----------------------------------------------------------------------------

\* The tables and the emitted arrays are well typed for every hierarchy.
THEOREM TablesTypeCorrect == TablesSpec => []TypeOK
<1>1. TablesIInv => TypeOK
  BY DEF TablesIInv
<1>. QED BY <1>1, TablesIInvHolds, PTL

\* A class's table starts with the slots of everything it inherits from.
THEOREM InheritedSlots == TablesSpec => []SlotsAreInherited
<1>1. TablesIInv => SlotsAreInherited
  BY DEF TablesIInv, Finished, InheritsSlots, SlotsAreInherited, Built
<1>. QED BY <1>1, TablesIInvHolds, PTL

\* A signature never has two slots in a table.
THEOREM UniqueSlots == TablesSpec => []OneSlotPerSignature
<1>1. TablesIInv => OneSlotPerSignature
  BY DEF TablesIInv, Finished, UniqueSigs, OneSlotPerSignature
<1>. QED BY <1>1, TablesIInvHolds, PTL

\* In a table without duplicates the scan finds the entry with the signature.
LEMMA SlotFound ==
  ASSUME TablesIInv, NEW c \in Built, NEW s \in Signature,
         NEW i \in 1..Len(vtables[c]), vtables[c][i].sig = s
  PROVE  Slot(c, s) = i
<1>1. vtables[c] \in Seq(TableEntry) /\ DOMAIN vtables[c] = 1..Len(vtables[c])
  BY TypeFacts DEF TablesIInv
<1>2. UniqueSigs(vtables[c])
  BY DEF TablesIInv, Finished
<1>3. FirstMatch(vtables[c], s, i)
  BY <1>1, <1>2 DEF FirstMatch, UniqueSigs
<1>4. \A j \in DOMAIN vtables[c] : FirstMatch(vtables[c], s, j) => j = i
  BY <1>1, <1>2 DEF FirstMatch, UniqueSigs
<1>. QED BY <1>1, <1>3, <1>4 DEF Slot

\* Dispatch through an emitted table runs the nearest override, whatever class
\* the call was compiled against.
THEOREM DispatchCorrect == TablesSpec => []DispatchReachesNearestOverride
<1>1. ASSUME TablesIInv, stage = "emit", NEW c \in 1..current - 1, NEW a \in Ancestors(c),
             NEW s \in Signature, Declares(a, s)
      PROVE  /\ c \in DOMAIN globals
             /\ Slot(a, s) \in DOMAIN globals[c]
             /\ NearestDeclaring(c, s, globals[c][Slot(a, s)])
  <2>1. c \in Built /\ c \in Class
    BY <1>1, TypeFacts DEF TablesIInv, Progress, Built, Class, TypeOK
  <2>2. /\ a \in Built /\ a \in Class /\ Finished(vtables, a) /\ Finished(vtables, c)
        /\ Len(vtables[a]) <= Len(vtables[c])
        /\ \A i \in 1..Len(vtables[a]) : vtables[c][i].sig = vtables[a][i].sig
    BY <1>1, <2>1, TypeFacts DEF TablesIInv, Finished, InheritsSlots, Built
  <2>3. a \in Ancestors(a)
    BY <1>1, <2>2, AncestorsOf DEF TablesIInv
  <2>4. PICK i \in 1..Len(vtables[a]) : vtables[a][i].sig = s
    BY <1>1, <2>2, <2>3 DEF Finished, HoldsAll
  <2>5. Slot(a, s) = i
    BY <1>1, <2>2, <2>4, SlotFound
  <2>6. /\ vtables[c] \in Seq(TableEntry) /\ Len(vtables[c]) \in Nat /\ Len(vtables[a]) \in Nat
        /\ DOMAIN vtables[c] = 1..Len(vtables[c])
    BY <1>1, <2>1, <2>2, TypeFacts DEF TablesIInv
  <2>7. i \in 1..Len(vtables[c]) /\ vtables[c][i].sig = s
    BY <2>2, <2>4, <2>6
  <2>8. /\ c \in DOMAIN globals
        /\ globals[c] = [j \in DOMAIN vtables[c] |-> vtables[c][j].owner]
    BY <1>1, <2>6, <2>7 DEF TablesIInv, GlobalsEmitted
  <2>9. NearestDeclaring(c, s, vtables[c][i].owner)
    BY <2>2, <2>7 DEF Finished, HoldsNearest
  <2>. QED BY <2>5, <2>6, <2>7, <2>8, <2>9
<1>2. TablesIInv => DispatchReachesNearestOverride
  BY <1>1 DEF DispatchReachesNearestOverride
<1>. QED BY <1>2, TablesIInvHolds, PTL
=============================================================================
