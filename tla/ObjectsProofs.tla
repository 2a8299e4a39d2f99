---------------------------- MODULE ObjectsProofs ----------------------------
(***************************************************************************)
(* What generated code may find in memory, for programs with any classes   *)
(* and executions of any length: no access leaves its object, no cell is   *)
(* read before it was initialized, no local variable shares its value, and *)
(* no object has the table of another class, but for the exceptions of     *)
(* Objects.                                                                *)
(***************************************************************************)
EXTENDS Objects, Integers, WellFoundedInduction, SequenceTheorems, TLAPS

LEMMA ProgramFacts ==
  ASSUME program \in DOMAIN Programs
  PROVE  /\ Main \in Nat \ {0} /\ DOMAIN Classes = 1..Main
         /\ Param \in 0..Main /\ Result \in 0..Main
         /\ \A c \in 1..Main :
              /\ Classes[c].base \in 0..c - 1
              /\ Classes[c].fields \in Seq(0..Main) /\ Classes[c].ctor \in Seq(0..Main)
         /\ Classes[Main].ctor = <<>>
<1> DEFINE p == Programs[program]
<1>1. IsProgram(p)
  BY ProgramsAssumption
<1>2. p.classes \in Seq(ClassRecord(Len(p.classes))) \ {<<>>}
  BY <1>1 DEF IsProgram
<1>3. Len(p.classes) \in Nat \ {0} /\ DOMAIN p.classes = 1..Len(p.classes)
  BY <1>2
<1>4. /\ p.param \in 0..Len(p.classes) /\ p.ret \in 0..Len(p.classes)
      /\ p.classes[Len(p.classes)].ctor = <<>>
  BY <1>1 DEF IsProgram
<1>5. ASSUME NEW c \in 1..Len(p.classes)
      PROVE  /\ p.classes[c].base \in 0..c - 1
             /\ p.classes[c].fields \in Seq(0..Len(p.classes))
             /\ p.classes[c].ctor \in Seq(0..Len(p.classes))
  <2>1. p.classes[c] \in ClassRecord(Len(p.classes))
    BY <1>2, <1>3
  <2>2. p.classes[c].base < c
    BY <1>1, <1>3 DEF IsProgram
  <2>. QED BY <1>3, <2>1, <2>2 DEF ClassRecord
<1>. QED BY <1>3, <1>4, <1>5 DEF Main, Classes, Param, Result

LEMMA LeastClass ==
  ASSUME NEW S \in SUBSET Nat, S # {}
  PROVE  \E n \in S : \A k \in S : n <= k
<1>1. PICK n \in S : \A k \in S : <<k, n>> \notin OpToRel(<, Nat)
  BY NatLessThanWellFounded, WFMin
<1>2. n \in Nat /\ \A k \in S : k \in Nat /\ ~(k < n)
  BY <1>1 DEF OpToRel
<1>. QED BY <1>2

-----------------------------------------------------------------------------
(* The recursions over the bases of a class define functions: the least    *)
(* class for which one would fail has a base for which it does not.        *)

Up(f, n) == f = [c \in 0..n |-> IF c = Builtin THEN {} ELSE {c} \cup f[Classes[c].base]]

LEMMA AncestorsExist ==
  ASSUME program \in DOMAIN Programs
  PROVE  \E f : Up(f, Main)
<1> DEFINE S == {n \in 0..Main : ~\E f : Up(f, n)}
<1>1. Main \in Nat /\ \A c \in 1..Main : Classes[c].base \in 0..c - 1
  BY ProgramFacts
<1>2. ASSUME S # {} PROVE FALSE
  <2>1. PICK n \in S : \A k \in S : n <= k
    <3>1. S \in SUBSET Nat
      OBVIOUS
    <3>. HIDE DEF S
    <3>. QED BY <1>2, <3>1, LeastClass
  <2>2. n \in 0..Main /\ ~\E f : Up(f, n)
    OBVIOUS
  <2>3. CASE n = 0
    <3> DEFINE f == [c \in 0..0 |-> {}]
    <3>1. f = [c \in 0..0 |-> IF c = Builtin THEN {} ELSE {c} \cup f[Classes[c].base]]
      BY DEF Builtin
    <3>. QED BY <2>2, <2>3, <3>1 DEF Up
  <2>4. CASE n > 0
    <3>1. n - 1 \in 0..Main /\ n - 1 \notin S
      BY <1>1, <2>1, <2>2, <2>4
    <3>2. PICK f : Up(f, n - 1)
      BY <3>1
    <3> DEFINE g == [c \in 0..n |-> IF c = n THEN {n} \cup f[Classes[n].base] ELSE f[c]]
    <3>3. ASSUME NEW c \in 0..n
          PROVE  g[c] = IF c = Builtin THEN {} ELSE {c} \cup g[Classes[c].base]
      <4>1. c # 0 => Classes[c].base \in 0..n - 1 /\ Classes[c].base \in 0..n
        BY <1>1, <2>2
      <4>2. CASE c = n
        BY <1>1, <2>2, <2>4, <4>1, <4>2 DEF Builtin
      <4>3. CASE c # n
        <5>1. c \in 0..n - 1 /\ g[c] = f[c]
          BY <2>2, <4>3
        <5>2. f[c] = IF c = Builtin THEN {} ELSE {c} \cup f[Classes[c].base]
          BY <3>2, <5>1 DEF Up
        <5>3. c # 0 => g[Classes[c].base] = f[Classes[c].base]
          BY <2>2, <4>1
        <5>. QED BY <5>1, <5>2, <5>3 DEF Builtin
      <4>. QED BY <4>2, <4>3
    <3>4. g = [c \in 0..n |-> IF c = Builtin THEN {} ELSE {c} \cup g[Classes[c].base]]
      BY <3>3
    <3>. QED BY <2>2, <3>4 DEF Up
  <2>. QED BY <1>1, <2>2, <2>3, <2>4
<1>3. Main \in 0..Main /\ Main \notin S
  BY <1>1, <1>2
<1>. QED BY <1>3

LEMMA AncestorsDef ==
  ASSUME program \in DOMAIN Programs
  PROVE  /\ Ancestors[Builtin] = {}
         /\ \A c \in 1..Main : Ancestors[c] = {c} \cup Ancestors[Classes[c].base]
<1>1. Ancestors = CHOOSE f : Up(f, Main)
  BY DEF Ancestors, Up
<1>2. Up(Ancestors, Main)
  BY <1>1, AncestorsExist
<1>3. \A c \in 0..Main :
        Ancestors[c] = IF c = Builtin THEN {} ELSE {c} \cup Ancestors[Classes[c].base]
  BY <1>2 DEF Up
<1>4. Main \in Nat /\ \A c \in 1..Main : c \in 0..Main /\ c # 0
  BY ProgramFacts
<1>5. Ancestors[0] = {}
  <2>1. 0 \in 0..Main
    BY <1>4
  <2>2. Ancestors[0] = IF 0 = Builtin THEN {} ELSE {0} \cup Ancestors[Classes[0].base]
    BY <1>3, <2>1
  <2>. QED BY <2>2 DEF Builtin
<1>6. ASSUME NEW c \in 1..Main PROVE Ancestors[c] = {c} \cup Ancestors[Classes[c].base]
  BY <1>3, <1>4 DEF Builtin
<1>. QED BY <1>5, <1>6 DEF Builtin

LEMMA AncestorsKept ==
  ASSUME program' = program
  PROVE  Ancestors' = Ancestors
BY DEF Ancestors, Main, Classes

Sum(f, n) == f = [c \in 0..n |-> IF c = Builtin THEN 1 ELSE f[Classes[c].base] + Len(Classes[c].fields)]

LEMMA SizesExist ==
  ASSUME program \in DOMAIN Programs
  PROVE  \E f : Sum(f, Main)
<1> DEFINE S == {n \in 0..Main : ~\E f : Sum(f, n)}
<1>1. Main \in Nat /\ \A c \in 1..Main : Classes[c].base \in 0..c - 1
  BY ProgramFacts
<1>2. ASSUME S # {} PROVE FALSE
  <2>1. PICK n \in S : \A k \in S : n <= k
    <3>1. S \in SUBSET Nat
      OBVIOUS
    <3>. HIDE DEF S
    <3>. QED BY <1>2, <3>1, LeastClass
  <2>2. n \in 0..Main /\ ~\E f : Sum(f, n)
    OBVIOUS
  <2>3. CASE n = 0
    <3> DEFINE f == [c \in 0..0 |-> 1]
    <3>1. f = [c \in 0..0 |-> IF c = Builtin THEN 1 ELSE f[Classes[c].base] + Len(Classes[c].fields)]
      BY DEF Builtin
    <3>. QED BY <2>2, <2>3, <3>1 DEF Sum
  <2>4. CASE n > 0
    <3>1. n - 1 \in 0..Main /\ n - 1 \notin S
      BY <1>1, <2>1, <2>2, <2>4
    <3>2. PICK f : Sum(f, n - 1)
      BY <3>1
    <3> DEFINE g == [c \in 0..n |-> IF c = n THEN f[Classes[n].base] + Len(Classes[n].fields) ELSE f[c]]
    <3>3. ASSUME NEW c \in 0..n
          PROVE  g[c] = IF c = Builtin THEN 1 ELSE g[Classes[c].base] + Len(Classes[c].fields)
      <4>1. c # 0 => Classes[c].base \in 0..n - 1 /\ Classes[c].base \in 0..n
        BY <1>1, <2>2
      <4>2. CASE c = n
        BY <1>1, <2>2, <2>4, <4>1, <4>2 DEF Builtin
      <4>3. CASE c # n
        <5>1. c \in 0..n - 1 /\ g[c] = f[c]
          BY <2>2, <4>3
        <5>2. f[c] = IF c = Builtin THEN 1 ELSE f[Classes[c].base] + Len(Classes[c].fields)
          BY <3>2, <5>1 DEF Sum
        <5>3. c # 0 => g[Classes[c].base] = f[Classes[c].base]
          BY <2>2, <4>1
        <5>. QED BY <5>1, <5>2, <5>3 DEF Builtin
      <4>. QED BY <4>2, <4>3
    <3>4. g = [c \in 0..n |-> IF c = Builtin THEN 1 ELSE g[Classes[c].base] + Len(Classes[c].fields)]
      BY <3>3
    <3>. QED BY <2>2, <3>4 DEF Sum
  <2>. QED BY <1>1, <2>2, <2>3, <2>4
<1>3. Main \in 0..Main /\ Main \notin S
  BY <1>1, <1>2
<1>. QED BY <1>3

LEMMA SizeDef ==
  ASSUME program \in DOMAIN Programs
  PROVE  /\ Size[Builtin] = 1
         /\ \A c \in 1..Main : Size[c] = Size[Classes[c].base] + Len(Classes[c].fields)
<1>1. Size = CHOOSE f : Sum(f, Main)
  BY DEF Size, Sum
<1>2. Sum(Size, Main)
  BY <1>1, SizesExist
<1>3. \A c \in 0..Main :
        Size[c] = IF c = Builtin THEN 1 ELSE Size[Classes[c].base] + Len(Classes[c].fields)
  BY <1>2 DEF Sum
<1>4. Main \in Nat /\ \A c \in 1..Main : c \in 0..Main /\ c # 0
  BY ProgramFacts
<1>. QED BY <1>3, <1>4 DEF Builtin

LEMMA SizeKept ==
  ASSUME program' = program
  PROVE  Size' = Size
BY DEF Size, Main, Classes

-----------------------------------------------------------------------------
(* Classes and their bases are a forest, and sizes grow downwards. *)

\* What is said of the base of every class that has one, and of classes without a base,
\* is said of all: the least class it would fail for.
LEMMA AncestorsAreClasses ==
  ASSUME program \in DOMAIN Programs, NEW c \in 1..Main
  PROVE  Ancestors[c] \subseteq 1..c /\ c \in Ancestors[c]
<1> DEFINE S == {n \in 1..Main : ~(Ancestors[n] \subseteq 1..n)}
<1>1. Main \in Nat /\ \A k \in 1..Main : Classes[k].base \in 0..k - 1
  BY ProgramFacts
<1>2. ASSUME S # {} PROVE FALSE
  <2>1. PICK n \in S : \A k \in S : n <= k
    <3>1. S \in SUBSET Nat
      OBVIOUS
    <3>. HIDE DEF S
    <3>. QED BY <1>2, <3>1, LeastClass
  <2>2. n \in 1..Main /\ ~(Ancestors[n] \subseteq 1..n)
    OBVIOUS
  <2>3. Ancestors[n] = {n} \cup Ancestors[Classes[n].base]
    BY <2>2, AncestorsDef
  <2>4. CASE Classes[n].base = 0
    BY <2>2, <2>3, <2>4, AncestorsDef DEF Builtin
  <2>5. CASE Classes[n].base # 0
    <3>1. Classes[n].base \in 1..n - 1 /\ Classes[n].base \in 1..Main
      BY <1>1, <2>2, <2>5
    <3>2. Classes[n].base \notin S
      BY <2>1, <2>2, <3>1
    <3>3. Ancestors[Classes[n].base] \subseteq 1..Classes[n].base
      BY <3>1, <3>2
    <3>. QED BY <2>2, <2>3, <3>1, <3>3
  <2>. QED BY <2>4, <2>5
<1>3. c \notin S
  BY <1>2
<1>. QED BY <1>3, AncestorsDef

LEMMA AncestorsTransitive ==
  ASSUME program \in DOMAIN Programs, NEW c \in 1..Main, NEW b \in Ancestors[c]
  PROVE  Ancestors[b] \subseteq Ancestors[c] /\ b \in 1..Main
<1> DEFINE S == {n \in 1..Main : \E a \in Ancestors[n] : ~(Ancestors[a] \subseteq Ancestors[n])}
<1>1. Main \in Nat /\ \A k \in 1..Main : Classes[k].base \in 0..k - 1
  BY ProgramFacts
<1>2. ASSUME S # {} PROVE FALSE
  <2>1. PICK n \in S : \A k \in S : n <= k
    <3>1. S \in SUBSET Nat
      OBVIOUS
    <3>. HIDE DEF S
    <3>. QED BY <1>2, <3>1, LeastClass
  <2>2. PICK a \in Ancestors[n] : ~(Ancestors[a] \subseteq Ancestors[n])
    OBVIOUS
  <2>3. n \in 1..Main /\ Ancestors[n] = {n} \cup Ancestors[Classes[n].base]
    BY AncestorsDef
  <2>4. a \in Ancestors[Classes[n].base] /\ Classes[n].base # 0
    BY <2>2, <2>3, AncestorsDef DEF Builtin
  <2>5. Classes[n].base \in 1..Main /\ Classes[n].base < n
    BY <1>1, <2>3, <2>4
  <2>6. Classes[n].base \notin S
    BY <1>1, <2>1, <2>3, <2>5
  <2>7. Ancestors[a] \subseteq Ancestors[Classes[n].base]
    BY <2>4, <2>5, <2>6
  <2>. QED BY <2>2, <2>3, <2>7
<1>3. c \notin S
  BY <1>2
<1>4. b \in 1..Main
  BY <1>1, AncestorsAreClasses
<1>. QED BY <1>3, <1>4

Related(a, b) == a \in Ancestors[b] \/ b \in Ancestors[a]

LEMMA AncestorsRelated ==
  ASSUME program \in DOMAIN Programs, NEW c \in 1..Main, NEW a \in Ancestors[c], NEW b \in Ancestors[c]
  PROVE  Related(a, b)
<1> DEFINE S == {n \in 1..Main : \E x, y \in Ancestors[n] : ~Related(x, y)}
<1>1. Main \in Nat /\ \A k \in 1..Main : Classes[k].base \in 0..k - 1
  BY ProgramFacts
<1>2. ASSUME S # {} PROVE FALSE
  <2>1. PICK n \in S : \A k \in S : n <= k
    <3>1. S \in SUBSET Nat
      OBVIOUS
    <3>. HIDE DEF S
    <3>. QED BY <1>2, <3>1, LeastClass
  <2>2. n \in 1..Main /\ \E x, y \in Ancestors[n] : ~Related(x, y)
    OBVIOUS
  <2>3. PICK x \in Ancestors[n], y \in Ancestors[n] : ~Related(x, y)
    BY <2>2
  <2>4. Ancestors[n] = {n} \cup Ancestors[Classes[n].base]
    BY <2>2, AncestorsDef
  <2>5. x # n /\ y # n
    BY <2>3 DEF Related
  <2>6. x \in Ancestors[Classes[n].base] /\ y \in Ancestors[Classes[n].base] /\ Classes[n].base # 0
    BY <2>3, <2>4, <2>5, AncestorsDef DEF Builtin
  <2>7. Classes[n].base \in 1..Main /\ Classes[n].base < n
    BY <1>1, <2>2, <2>6
  <2>8. Classes[n].base \notin S
    BY <1>1, <2>1, <2>2, <2>7
  <2>. QED BY <2>3, <2>6, <2>7, <2>8
<1>3. c \notin S
  BY <1>2
<1>. QED BY <1>3

LEMMA SizesGrow ==
  ASSUME program \in DOMAIN Programs, NEW c \in 1..Main
  PROVE  /\ Size[c] \in Nat \ {0} /\ Size[Classes[c].base] \in Nat \ {0}
         /\ \A b \in Ancestors[c] : Size[b] \in Nat /\ Size[b] <= Size[c]
<1> DEFINE S == {n \in 1..Main : ~(/\ Size[n] \in Nat \ {0}
                                   /\ \A b \in Ancestors[n] : Size[b] \in Nat /\ Size[b] <= Size[n])}
<1>1. Main \in Nat /\ \A k \in 1..Main : Classes[k].base \in 0..k - 1 /\ Len(Classes[k].fields) \in Nat
  BY ProgramFacts
<1>2. ASSUME S # {} PROVE FALSE
  <2>1. PICK n \in S : \A k \in S : n <= k
    <3>1. S \in SUBSET Nat
      OBVIOUS
    <3>. HIDE DEF S
    <3>. QED BY <1>2, <3>1, LeastClass
  <2>2. n \in 1..Main /\ ~(/\ Size[n] \in Nat \ {0}
                           /\ \A b \in Ancestors[n] : Size[b] \in Nat /\ Size[b] <= Size[n])
    OBVIOUS
  <2>3. /\ Ancestors[n] = {n} \cup Ancestors[Classes[n].base]
        /\ Size[n] = Size[Classes[n].base] + Len(Classes[n].fields)
        /\ Ancestors[0] = {} /\ Size[0] = 1
    BY <2>2, AncestorsDef, SizeDef DEF Builtin
  <2>4. CASE Classes[n].base = 0
    BY <1>1, <2>2, <2>3, <2>4
  <2>5. CASE Classes[n].base # 0
    <3>1. Classes[n].base \in 1..Main /\ Classes[n].base < n
      BY <1>1, <2>2, <2>5
    <3>2. Classes[n].base \notin S
      BY <1>1, <2>1, <2>2, <3>1
    <3>3. /\ Size[Classes[n].base] \in Nat \ {0}
          /\ \A b \in Ancestors[Classes[n].base] : Size[b] \in Nat /\ Size[b] <= Size[Classes[n].base]
      BY <3>1, <3>2
    <3>. QED BY <1>1, <2>2, <2>3, <3>3
  <2>. QED BY <2>4, <2>5
<1>3. \A k \in 1..Main : /\ Size[k] \in Nat \ {0}
                          /\ \A b \in Ancestors[k] : Size[b] \in Nat /\ Size[b] <= Size[k]
  BY <1>2
<1>4. Classes[c].base = 0 \/ Classes[c].base \in 1..Main
  BY <1>1
<1>. QED BY <1>3, <1>4, SizeDef DEF Builtin

\* A field has a cell between those of its base and the end of its class.
LEMMA FieldPlace ==
  ASSUME program \in DOMAIN Programs, NEW c \in 1..Main, NEW f \in Field(c)
  PROVE  /\ f[1] \in Ancestors[c] /\ f[1] \in 1..Main
         /\ f[2] \in 1..Len(Classes[f[1]].fields) /\ f = <<f[1], f[2]>>
         /\ FieldCell(f) \in Nat /\ FieldCell(f) >= 2
         /\ FieldCell(f) > Size[Classes[f[1]].base]
         /\ FieldCell(f) <= Size[f[1]] /\ FieldCell(f) <= Size[c]
         /\ FieldType(f) \in 0..Main
<1>1. f[1] \in Ancestors[c] /\ f[2] \in DOMAIN Classes[f[1]].fields /\ f = <<f[1], f[2]>>
  BY DEF Field
<1>2. f[1] \in 1..Main
  BY <1>1, AncestorsTransitive
<1>3. Classes[f[1]].fields \in Seq(0..Main)
  BY <1>2, ProgramFacts
<1>4. f[2] \in 1..Len(Classes[f[1]].fields) /\ Len(Classes[f[1]].fields) \in Nat
      /\ Classes[f[1]].fields[f[2]] \in 0..Main
  <2>1. ASSUME NEW s \in Seq(0..Main), NEW k \in DOMAIN s
        PROVE  k \in 1..Len(s) /\ Len(s) \in Nat /\ s[k] \in 0..Main
    <3>1. DOMAIN s = 1..Len(s) /\ Len(s) \in Nat
      OBVIOUS
    <3>2. k \in 1..Len(s)
      BY <3>1
    <3>3. \A i \in 1..Len(s) : s[i] \in 0..Main
      BY ElementOfSeq
    <3>. QED BY <3>1, <3>2, <3>3
  <2>. QED BY <1>1, <1>3, <2>1
<1>5. /\ Size[Classes[f[1]].base] \in Nat \ {0} /\ Size[f[1]] \in Nat
      /\ Size[f[1]] = Size[Classes[f[1]].base] + Len(Classes[f[1]].fields)
      /\ Size[f[1]] <= Size[c] /\ Size[c] \in Nat
  BY <1>1, <1>2, SizesGrow, SizeDef
<1>6. FieldCell(f) = Size[Classes[f[1]].base] + f[2] /\ FieldType(f) = Classes[f[1]].fields[f[2]]
  BY DEF FieldCell, FieldType
<1>7. /\ FieldCell(f) \in Nat /\ FieldCell(f) >= 2 /\ FieldCell(f) > Size[Classes[f[1]].base]
      /\ FieldCell(f) <= Size[f[1]]
  BY <1>4, <1>5, <1>6
<1>8. FieldCell(f) <= Size[c]
  BY <1>5, <1>7
<1>. QED BY <1>1, <1>2, <1>4, <1>6, <1>7, <1>8

LEMMA FieldsApart ==
  ASSUME program \in DOMAIN Programs, NEW c \in 1..Main, NEW f \in Field(c), NEW g \in Field(c),
         FieldCell(f) = FieldCell(g)
  PROVE  f = g
<1>1. ASSUME NEW x \in Field(c), NEW y \in Field(c), x[1] \in Ancestors[y[1]], x[1] # y[1]
      PROVE  FieldCell(x) < FieldCell(y)
  <2>1. y[1] \in 1..Main /\ x[1] \in 1..Main
    BY FieldPlace
  <2>2. x[1] \in Ancestors[Classes[y[1]].base] /\ Classes[y[1]].base # 0
    BY <1>1, <2>1, AncestorsDef DEF Builtin
  <2>3. Classes[y[1]].base \in 1..Main
    <3>1. Classes[y[1]].base \in 0..y[1] - 1 /\ Main \in Nat
      BY <2>1, ProgramFacts
    <3>. QED BY <2>1, <2>2, <3>1
  <2>4. Size[x[1]] \in Nat /\ Size[x[1]] <= Size[Classes[y[1]].base] /\ Size[Classes[y[1]].base] \in Nat
    BY <2>2, <2>3, SizesGrow
  <2>5. /\ FieldCell(x) <= Size[x[1]] /\ FieldCell(y) > Size[Classes[y[1]].base]
        /\ FieldCell(x) \in Nat /\ FieldCell(y) \in Nat
    BY FieldPlace
  <2>. QED BY <2>4, <2>5
<1>2. f[1] = g[1]
  <2>1. f[1] \in Ancestors[c] /\ g[1] \in Ancestors[c] /\ FieldCell(f) \in Nat
    BY FieldPlace
  <2>2. Related(f[1], g[1])
    BY <2>1, AncestorsRelated
  <2>. QED BY <1>1, <2>1, <2>2 DEF Related
<1>3. /\ f[2] \in Nat /\ g[2] \in Nat /\ Size[Classes[f[1]].base] \in Nat
      /\ f = <<f[1], f[2]>> /\ g = <<g[1], g[2]>>
  <2>1. f[1] \in 1..Main /\ f[2] \in Nat /\ g[2] \in Nat /\ f = <<f[1], f[2]>> /\ g = <<g[1], g[2]>>
    BY FieldPlace
  <2>. QED BY <2>1, SizesGrow
<1>4. f[2] = g[2]
  BY <1>2, <1>3 DEF FieldCell
<1>. QED BY <1>2, <1>3, <1>4

LEMMA FieldOf ==
  ASSUME NEW c, NEW d, NEW f \in Field(c), f[1] \in Ancestors[d]
  PROVE  f \in Field(d)
BY DEF Field

-----------------------------------------------------------------------------
(***************************************************************************)
(* The invariant, for any heap h and stack s.  A value of a static type is *)
(* the number, or an object that has this class among its own or, being a  *)
(* copy, among those of its table: only the latter may have been cut.      *)
(***************************************************************************)
ObjectSet == [class : 1..Main, cells : Seq(Nat), copy : BOOLEAN]
LocalSet  == [type : 0..Main, value : Nat]
FrameSet  == [class : 1..Main, this : Nat, stage : {"super", "table", "init", "method"},
              super : BOOLEAN, item : Nat \ {0}, locals : Seq(LocalSet), results : SUBSET LocalSet]

IsRef(h, t, v) ==
  IF t = NumberType THEN v = Number
  ELSE /\ v \in DOMAIN h
       /\ \/ t \in Ancestors[h[v].class]
          \/ h[v].copy /\ t \in Ancestors[h[v].cells[1]]

ObjectFine(h, o) ==
  /\ Len(h[o].cells) = Size[h[o].class]
  /\ h[o].cells[1] \in 0..Main
  /\ h[o].cells[1] # 0 =>
       /\ HasMethod(h[o].cells[1])
       /\ IF h[o].copy THEN Related(h[o].cells[1], h[o].class)
                       ELSE h[o].cells[1] \in Ancestors[h[o].class]
  /\ \A f \in Field(h[o].class) :
       h[o].cells[FieldCell(f)] # 0 => IsRef(h, FieldType(f), h[o].cells[FieldCell(f)])

HeapFine(h) == h \in Seq(ObjectSet) /\ \A o \in DOMAIN h : ObjectFine(h, o)

FrameFine(h, frame) ==
  /\ frame \in FrameSet
  /\ IF frame.stage = "method" THEN IsRef(h, frame.class, frame.this)
     ELSE /\ frame.this \in DOMAIN h /\ ~h[frame.this].copy
          /\ frame.class \in Ancestors[h[frame.this].class]
          /\ frame.stage = "super" => Classes[frame.class].base # Builtin
          /\ frame.stage \in {"super", "table"} => frame.item = 1
  /\ \A l \in Range(frame.locals) \cup frame.results : IsRef(h, l.type, l.value)

FramesFine(h, s) == s \in Seq(FrameSet) \ {<<>>} /\ \A n \in DOMAIN s : FrameFine(h, s[n])

\* A constructor was called by that of the class below, or for a new object of its class.
Linked(h, s, n) ==
  IF s[n].stage = "method" THEN n + 1 \in DOMAIN s
  ELSE IF s[n].super
    THEN /\ n + 1 \in DOMAIN s /\ s[n + 1].this = s[n].this /\ s[n + 1].stage = "table"
         /\ Classes[s[n + 1].class].base = s[n].class
    ELSE s[n].class = h[s[n].this].class

\* Constructing, for one frame.
PendingBy(frame, o, k) ==
  /\ frame.this = o
  /\ \/ frame.stage = "super" /\ k <= Size[frame.class]
     \/ frame.stage = "table" /\ (k = 1 \/ Own(frame.class, k))
     \/ frame.stage = "init" /\ Own(frame.class, k) /\ k >= FieldCell(<<frame.class, frame.item>>)

Pending(h, s, o, k) ==
  \/ \E n \in DOMAIN s : PendingBy(s[n], o, k)
  \/ k = 1 /\ ~HasMethod(h[o].class)

Initialized(h, s) ==
  \A o \in DOMAIN h : ~h[o].copy =>
    \A k \in 1..Len(h[o].cells) : h[o].cells[k] = 0 => Pending(h, s, o, k)

Inv(h, s) ==
  /\ HeapFine(h) /\ FramesFine(h, s) /\ Initialized(h, s)
  /\ \A n \in DOMAIN s : Linked(h, s, n)

IInv == /\ program \in DOMAIN Programs /\ Inv(heap, stack)
        /\ InsideTheObject /\ InitializedWhenRead

-----------------------------------------------------------------------------
(* References. *)

LEMMA ObjectTyped ==
  ASSUME program \in DOMAIN Programs, NEW h, HeapFine(h), NEW o \in DOMAIN h
  PROVE  /\ h[o] \in ObjectSet /\ h[o].class \in 1..Main /\ h[o].cells \in Seq(Nat)
         /\ h[o].copy \in BOOLEAN /\ o \in Nat \ {0} /\ Len(h) \in Nat /\ DOMAIN h = 1..Len(h)
         /\ Len(h[o].cells) = Size[h[o].class] /\ Len(h[o].cells) \in Nat \ {0}
         /\ DOMAIN h[o].cells = 1..Len(h[o].cells)
         /\ h[o].cells[1] \in 0..Main
<1>1. h \in Seq(ObjectSet) /\ ObjectFine(h, o)
  BY DEF HeapFine
<1>2. Len(h) \in Nat /\ DOMAIN h = 1..Len(h)
  BY <1>1
<1>3. h[o] \in ObjectSet
  BY <1>1, <1>2, ElementOfSeq
<1>4. h[o].class \in 1..Main /\ h[o].cells \in Seq(Nat) /\ h[o].copy \in BOOLEAN
  BY <1>3 DEF ObjectSet
<1>5. Len(h[o].cells) = Size[h[o].class] /\ h[o].cells[1] \in 0..Main
  BY <1>1 DEF ObjectFine
<1>6. Size[h[o].class] \in Nat \ {0}
  BY <1>4, SizesGrow
<1>7. DOMAIN h[o].cells = 1..Len(h[o].cells)
  BY <1>4
<1>. QED BY <1>2, <1>3, <1>4, <1>5, <1>6, <1>7

\* The object is of the class, or a copy with a table of a class below it.
LEMMA RefShape ==
  ASSUME program \in DOMAIN Programs, NEW h, HeapFine(h), NEW t \in 1..Main, NEW v, IsRef(h, t, v)
  PROVE  /\ v \in DOMAIN h
         /\ \/ t \in Ancestors[h[v].class]
            \/ /\ h[v].copy /\ h[v].cells[1] \in 1..Main
               /\ t \in Ancestors[h[v].cells[1]] /\ Related(h[v].cells[1], h[v].class)
<1>1. Main \in Nat /\ t # NumberType /\ Ancestors[0] = {}
  BY ProgramFacts, AncestorsDef DEF NumberType, Builtin
<1>2. v \in DOMAIN h /\ (t \in Ancestors[h[v].class] \/ (h[v].copy /\ t \in Ancestors[h[v].cells[1]]))
  BY <1>1 DEF IsRef
<1>3. ASSUME h[v].copy, t \in Ancestors[h[v].cells[1]]
      PROVE  h[v].cells[1] \in 1..Main /\ Related(h[v].cells[1], h[v].class)
  <2>1. ObjectFine(h, v)
    BY <1>2 DEF HeapFine
  <2>2. h[v].cells[1] \in 0..Main /\ h[v].cells[1] # 0
    BY <1>1, <1>3, <2>1 DEF ObjectFine
  <2>3. Related(h[v].cells[1], h[v].class)
    BY <1>3, <2>1, <2>2 DEF ObjectFine
  <2>. QED BY <1>1, <2>2, <2>3
<1>. QED BY <1>2, <1>3

LEMMA RefValue ==
  ASSUME program \in DOMAIN Programs, NEW h, HeapFine(h), NEW t \in 0..Main, NEW v, IsRef(h, t, v)
  PROVE  v \in Nat \ {0}
<1>1. CASE t = NumberType
  <2>1. MaxObjects \in Nat
    BY BoundsAssumption
  <2>. QED BY <1>1, <2>1 DEF IsRef, Number
<1>2. CASE t # NumberType
  <2>1. v \in DOMAIN h
    BY <1>2 DEF IsRef
  <2>. QED BY <2>1, ObjectTyped
<1>. QED BY <1>1, <1>2

LEMMA RefSubtype ==
  ASSUME program \in DOMAIN Programs, NEW h, HeapFine(h), NEW t \in 0..Main, NEW u \in 0..Main,
         IsSubtype(t, u), NEW v, IsRef(h, t, v)
  PROVE  IsRef(h, u, v)
<1>1. CASE t = u
  BY <1>1
<1>2. CASE t # u
  <2>1. t # NumberType /\ u # Builtin /\ Classes[t].base = u /\ Main \in Nat
    BY <1>2, ProgramFacts DEF IsSubtype
  <2>2. t \in 1..Main /\ u \in 1..Main /\ u # NumberType
    BY <2>1 DEF NumberType, Builtin
  <2>3. u \in Ancestors[t]
    BY <2>1, <2>2, AncestorsDef
  <2>4. /\ v \in DOMAIN h
        /\ \/ t \in Ancestors[h[v].class]
           \/ h[v].copy /\ h[v].cells[1] \in 1..Main /\ t \in Ancestors[h[v].cells[1]]
    BY <2>2, RefShape
  <2>5. h[v].class \in 1..Main
    BY <2>4, ObjectTyped
  <2>6. u \in Ancestors[h[v].class] \/ (h[v].copy /\ u \in Ancestors[h[v].cells[1]])
    BY <2>3, <2>4, <2>5, AncestorsTransitive
  <2>. QED BY <2>2, <2>4, <2>6 DEF IsRef
<1>. QED BY <1>1, <1>2

\* A field that is inside the object is one of the object's class.
LEMMA FieldInside ==
  ASSUME program \in DOMAIN Programs, NEW h, HeapFine(h), NEW t \in 1..Main, NEW o, IsRef(h, t, o),
         NEW f \in Field(t), FieldCell(f) <= Len(h[o].cells)
  PROVE  f \in Field(h[o].class)
<1> DEFINE c == h[o].class
           d == h[o].cells[1]
<1>1. /\ o \in DOMAIN h
      /\ t \in Ancestors[c] \/ (d \in 1..Main /\ t \in Ancestors[d] /\ Related(d, c))
  BY RefShape
<1>2. c \in 1..Main /\ Len(h[o].cells) = Size[c] /\ Size[c] \in Nat
  BY <1>1, ObjectTyped
<1>3. /\ f[1] \in Ancestors[t] /\ f[1] \in 1..Main /\ FieldCell(f) \in Nat
      /\ FieldCell(f) > Size[Classes[f[1]].base]
  BY FieldPlace
<1>. HIDE DEF c, d
<1>4. CASE t \in Ancestors[c]
  <2>1. f[1] \in Ancestors[c]
    BY <1>2, <1>3, <1>4, AncestorsTransitive
  <2>. QED BY <2>1, FieldOf DEF c
<1>5. CASE d \in 1..Main /\ t \in Ancestors[d] /\ d \in Ancestors[c]
  <2>1. t \in Ancestors[c]
    BY <1>2, <1>5, AncestorsTransitive
  <2>. QED BY <1>4, <2>1
<1>6. CASE d \in 1..Main /\ t \in Ancestors[d] /\ c \in Ancestors[d]
  <2>1. f[1] \in Ancestors[d]
    BY <1>3, <1>6, AncestorsTransitive
  <2>2. Related(f[1], c)
    BY <1>6, <2>1, AncestorsRelated
  <2>3. ASSUME c \in Ancestors[f[1]], c # f[1] PROVE FALSE
    <3>1. c \in Ancestors[Classes[f[1]].base] /\ Classes[f[1]].base # 0
      BY <1>3, <2>3, AncestorsDef DEF Builtin
    <3>2. Classes[f[1]].base \in 1..Main
      <4>1. Classes[f[1]].base \in 0..f[1] - 1 /\ Main \in Nat
        BY <1>3, ProgramFacts
      <4>. QED BY <1>3, <3>1, <4>1
    <3>3. Size[c] <= Size[Classes[f[1]].base] /\ Size[Classes[f[1]].base] \in Nat
      BY <3>1, <3>2, SizesGrow
    <3>4. FieldCell(f) <= Size[c]
      BY <1>2
    <3>. QED BY <1>2, <1>3, <3>3, <3>4
  <2>4. f[1] \in Ancestors[c]
    BY <1>2, <2>2, <2>3, AncestorsAreClasses DEF Related
  <2>. QED BY <2>4, FieldOf DEF c
<1>. QED BY <1>1, <1>4, <1>5, <1>6 DEF Related

-----------------------------------------------------------------------------
(* Changes of the heap: what was a reference is one. *)

Extends(h, g) ==
  /\ DOMAIN h \subseteq DOMAIN g
  /\ \A o \in DOMAIN h :
       /\ g[o].class = h[o].class /\ g[o].copy = h[o].copy
       /\ Len(g[o].cells) = Len(h[o].cells)
       /\ h[o].copy => g[o].cells[1] = h[o].cells[1]
       /\ \A k \in 1..Len(h[o].cells) : g[o].cells[k] = 0 => h[o].cells[k] = 0

LEMMA ExtendsItself ==
  ASSUME NEW h
  PROVE  Extends(h, h)
BY DEF Extends

LEMMA ExtendsTransitive ==
  ASSUME NEW h, NEW g, NEW e, Extends(h, g), Extends(g, e)
  PROVE  Extends(h, e)
BY DEF Extends

LEMMA RefKept ==
  ASSUME NEW h, NEW g, Extends(h, g), NEW t, NEW v, IsRef(h, t, v)
  PROVE  IsRef(g, t, v)
BY DEF Extends, IsRef

LEMMA FrameKept ==
  ASSUME NEW h, NEW g, Extends(h, g), NEW frame, FrameFine(h, frame)
  PROVE  FrameFine(g, frame)
<1>1. \A l \in Range(frame.locals) \cup frame.results : IsRef(g, l.type, l.value)
  BY RefKept DEF FrameFine
<1>2. CASE frame.stage = "method"
  <2>1. IsRef(g, frame.class, frame.this)
    BY <1>2, RefKept DEF FrameFine
  <2>. QED BY <1>1, <1>2, <2>1 DEF FrameFine
<1>3. CASE frame.stage # "method"
  BY <1>1, <1>3 DEF FrameFine, Extends
<1>. QED BY <1>2, <1>3

LEMMA AppendFine ==
  ASSUME program \in DOMAIN Programs, NEW h, HeapFine(h), NEW object \in ObjectSet,
         Len(object.cells) = Size[object.class], object.cells[1] \in 0..Main,
         object.cells[1] # 0 => object.copy /\ Related(object.cells[1], object.class) /\ HasMethod(object.cells[1]),
         \A f \in Field(object.class) :
           object.cells[FieldCell(f)] # 0 => IsRef(h, FieldType(f), object.cells[FieldCell(f)])
  PROVE  /\ HeapFine(Append(h, object)) /\ Extends(h, Append(h, object))
         /\ Len(h) \in Nat /\ DOMAIN h = 1..Len(h) /\ DOMAIN Append(h, object) = 1..Len(h) + 1
         /\ Len(Append(h, object)) = Len(h) + 1
         /\ Append(h, object)[Len(h) + 1] = object
         /\ \A o \in DOMAIN h : Append(h, object)[o] = h[o]
<1> DEFINE g == Append(h, object)
<1>1. h \in Seq(ObjectSet)
  BY DEF HeapFine
<1>2. /\ Len(h) \in Nat /\ DOMAIN h = 1..Len(h) /\ g \in Seq(ObjectSet)
      /\ Len(g) = Len(h) + 1 /\ DOMAIN g = 1..Len(h) + 1
      /\ g[Len(h) + 1] = object /\ \A o \in 1..Len(h) : g[o] = h[o]
  BY <1>1, AppendProperties, LenProperties
<1>. HIDE DEF g
<1>3. Extends(h, g)
  BY <1>2 DEF Extends
<1>4. ASSUME NEW o \in DOMAIN g PROVE ObjectFine(g, o)
  <2>1. CASE o = Len(h) + 1
    <3>1. \A f \in Field(object.class) :
            object.cells[FieldCell(f)] # 0 => IsRef(g, FieldType(f), object.cells[FieldCell(f)])
      BY <1>3, RefKept
    <3>. QED BY <1>2, <2>1, <3>1 DEF ObjectFine
  <2>2. CASE o \in DOMAIN h
    <3>1. ObjectFine(h, o) /\ g[o] = h[o]
      BY <1>2, <2>2 DEF HeapFine
    <3>2. \A f \in Field(h[o].class) :
            h[o].cells[FieldCell(f)] # 0 => IsRef(g, FieldType(f), h[o].cells[FieldCell(f)])
      BY <1>3, <3>1, RefKept DEF ObjectFine
    <3>. QED BY <3>1, <3>2 DEF ObjectFine
  <2>. QED BY <1>2, <2>1, <2>2
<1>5. HeapFine(g)
  BY <1>2, <1>4 DEF HeapFine
<1>. QED BY <1>2, <1>3, <1>5 DEF g

\* A copy made by the size of the type of the expression.
LEMMA CopyFine ==
  ASSUME program \in DOMAIN Programs, NEW h, HeapFine(h), NEW t \in 1..Main, NEW v, IsRef(h, t, v),
         Size[t] <= Len(h[v].cells),
         NEW g, g = Append(h, [class |-> t, cells |-> SubSeq(h[v].cells, 1, Size[t]), copy |-> TRUE])
  PROVE  /\ HeapFine(g) /\ Extends(h, g) /\ IsRef(g, t, Len(h) + 1) /\ Len(g) = Len(h) + 1
         /\ \A o \in DOMAIN g : o \in DOMAIN h \/ g[o].copy
<1> DEFINE cells == SubSeq(h[v].cells, 1, Size[t])
           object == [class |-> t, cells |-> cells, copy |-> TRUE]
           d == h[v].cells[1]
<1>1. /\ v \in DOMAIN h
      /\ t \in Ancestors[h[v].class] \/ (d \in 1..Main /\ t \in Ancestors[d] /\ Related(d, h[v].class))
  BY RefShape
<1>2. /\ h[v].class \in 1..Main /\ h[v].cells \in Seq(Nat) /\ Size[t] \in Nat \ {0}
      /\ Len(h[v].cells) \in Nat /\ h[v].cells[1] \in 0..Main /\ ObjectFine(h, v)
  BY <1>1, ObjectTyped, SizesGrow DEF HeapFine
<1>3. /\ cells \in Seq(Nat) /\ Len(cells) = Size[t]
      /\ \A k \in 1..Size[t] : cells[k] = h[v].cells[k]
  <2>1. ASSUME NEW i \in 1..Size[t] PROVE h[v].cells[i] \in Nat
    <3>1. i \in 1..Len(h[v].cells) /\ h[v].cells \in Seq(Nat)
      BY <1>2
    <3>. QED BY <3>1, ElementOfSeq
  <2>2. 1 \in Int /\ Size[t] \in Int /\ 1 <= Size[t]
    BY <1>2
  <2>3. /\ cells \in Seq(Nat)
        /\ Len(cells) = IF 1 <= Size[t] THEN Size[t] - 1 + 1 ELSE 0
        /\ \A i \in 1..Size[t] - 1 + 1 : cells[i] = h[v].cells[1 + i - 1]
    BY <2>1, <2>2, SubSeqProperties
  <2>. HIDE DEF cells
  <2>4. Size[t] - 1 + 1 = Size[t] /\ \A i \in 1..Size[t] : 1 + i - 1 = i
    BY <1>2
  <2>. QED BY <2>2, <2>3, <2>4
<1>4. cells[1] = d
  BY <1>2, <1>3
<1>. HIDE DEF cells
<1>5. object \in ObjectSet
  BY <1>3 DEF ObjectSet
<1>6. ASSUME d # 0 PROVE Related(d, t)
  <2>1. Main \in Nat /\ d \in 1..Main
    <3>1. Main \in Nat
      BY ProgramFacts
    <3>2. d \in 0..Main
      BY <1>2
    <3>. HIDE DEF d
    <3>. QED BY <1>6, <3>1, <3>2
  <2>2. CASE t \in Ancestors[d]
    BY <2>2 DEF Related
  <2>3. CASE t \in Ancestors[h[v].class]
    <3>1. Related(d, h[v].class)
      BY <1>2, <1>6 DEF ObjectFine, Related
    <3>2. CASE d \in Ancestors[h[v].class]
      BY <1>2, <2>3, <3>2, AncestorsRelated
    <3>3. CASE h[v].class \in Ancestors[d]
      BY <2>1, <2>3, <3>3, AncestorsTransitive DEF Related
    <3>. QED BY <3>1, <3>2, <3>3 DEF Related
  <2>. QED BY <1>1, <2>2, <2>3
<1>7. ASSUME NEW f \in Field(t), cells[FieldCell(f)] # 0
      PROVE  IsRef(h, FieldType(f), cells[FieldCell(f)])
  <2>1. FieldCell(f) \in 1..Size[t]
    BY <1>2, FieldPlace
  <2>2. cells[FieldCell(f)] = h[v].cells[FieldCell(f)]
    BY <1>3, <2>1
  <2>3. f \in Field(h[v].class)
    <3>1. FieldCell(f) <= Len(h[v].cells)
      BY <1>2, <2>1
    <3>. QED BY <3>1, FieldInside
  <2>. QED BY <1>2, <1>7, <2>2, <2>3 DEF ObjectFine
<1>8. g = Append(h, object)
  BY DEF cells
<1>9. /\ object.class = t /\ object.cells = cells /\ object.copy
  OBVIOUS
<1>. HIDE DEF object, d
<1>10. /\ HeapFine(Append(h, object)) /\ Extends(h, Append(h, object))
       /\ Len(h) \in Nat /\ DOMAIN h = 1..Len(h) /\ DOMAIN Append(h, object) = 1..Len(h) + 1
       /\ Len(Append(h, object)) = Len(h) + 1
       /\ Append(h, object)[Len(h) + 1] = object
  <2>1. Len(object.cells) = Size[object.class] /\ object.cells[1] \in 0..Main
    BY <1>2, <1>3, <1>4, <1>9 DEF d
  <2>2. object.cells[1] # 0 =>
          object.copy /\ Related(object.cells[1], object.class) /\ HasMethod(object.cells[1])
    <3>1. d # 0 => HasMethod(d)
      BY <1>2 DEF ObjectFine, d
    <3>. QED BY <1>4, <1>6, <1>9, <3>1
  <2>3. \A f \in Field(object.class) :
          object.cells[FieldCell(f)] # 0 => IsRef(h, FieldType(f), object.cells[FieldCell(f)])
    BY <1>7, <1>9
  <2>. QED BY <1>5, <2>1, <2>2, <2>3, AppendFine
<1>11. IsRef(g, t, Len(h) + 1)
  <2>1. t \in Ancestors[t] /\ Len(h) + 1 \in DOMAIN g
    BY <1>8, <1>10, AncestorsAreClasses
  <2>2. t # NumberType
    BY ProgramFacts DEF NumberType
  <2>. QED BY <1>8, <1>9, <1>10, <2>1, <2>2 DEF IsRef
<1>12. \A o \in DOMAIN g : o \in DOMAIN h \/ g[o].copy
  <2>1. ASSUME NEW o \in DOMAIN g, o \notin DOMAIN h PROVE o = Len(h) + 1
    BY <1>8, <1>10, <2>1
  <2>. QED BY <1>8, <1>9, <1>10, <2>1
<1>. QED BY <1>8, <1>10, <1>11, <1>12

LEMMA AllocatedFine ==
  ASSUME program \in DOMAIN Programs, NEW h, HeapFine(h), NEW c \in 1..Main,
         NEW g, g = Append(h, Allocated(c))
  PROVE  /\ HeapFine(g) /\ Extends(h, g) /\ Len(h) \in Nat
         /\ DOMAIN h = 1..Len(h) /\ DOMAIN g = 1..Len(h) + 1
         /\ g[Len(h) + 1].class = c /\ ~g[Len(h) + 1].copy /\ Len(g[Len(h) + 1].cells) = Size[c]
<1>1. Size[c] \in Nat \ {0} /\ Main \in Nat
  BY SizesGrow, ProgramFacts
<1>2. /\ Allocated(c).cells = [k \in 1..Size[c] |-> 0] /\ Allocated(c).class = c
      /\ Allocated(c).copy = FALSE
      /\ Allocated(c) = [class |-> Allocated(c).class, cells |-> Allocated(c).cells, copy |-> Allocated(c).copy]
  BY DEF Allocated
<1>3. Allocated(c).cells \in Seq(Nat) /\ Len(Allocated(c).cells) = Size[c]
  BY <1>1, <1>2
<1>4. Allocated(c) \in ObjectSet
  BY <1>2, <1>3 DEF ObjectSet
<1>5. \A k \in 1..Size[c] : Allocated(c).cells[k] = 0
  BY <1>2
<1>6. Allocated(c).cells[1] = 0
  BY <1>1, <1>5
<1>7. \A f \in Field(c) : Allocated(c).cells[FieldCell(f)] = 0
  <2>1. \A f \in Field(c) : FieldCell(f) \in 1..Size[c]
    BY <1>1, FieldPlace
  <2>. QED BY <1>5, <2>1
<1>8. /\ HeapFine(g) /\ Extends(h, g) /\ Len(h) \in Nat
      /\ DOMAIN h = 1..Len(h) /\ DOMAIN g = 1..Len(h) + 1 /\ g[Len(h) + 1] = Allocated(c)
  <2> DEFINE object == Allocated(c)
  <2>1. object.cells[1] \in 0..Main /\ ~(object.cells[1] # 0)
    BY <1>1, <1>6
  <2>2. Len(object.cells) = Size[object.class] /\ object \in ObjectSet
    BY <1>2, <1>3, <1>4
  <2>3. \A f \in Field(object.class) : ~(object.cells[FieldCell(f)] # 0)
    BY <1>2, <1>7
  <2>4. g = Append(h, object)
    OBVIOUS
  <2>. HIDE DEF object
  <2>5. /\ HeapFine(Append(h, object)) /\ Extends(h, Append(h, object))
        /\ Len(h) \in Nat /\ DOMAIN h = 1..Len(h) /\ DOMAIN Append(h, object) = 1..Len(h) + 1
        /\ Append(h, object)[Len(h) + 1] = object
    BY <2>1, <2>2, <2>3, AppendFine
  <2>. QED BY <2>4, <2>5 DEF object
<1>. QED BY <1>2, <1>3, <1>8

Update(h, o, k, v) == [h EXCEPT ![o].cells[k] = v]

LEMMA Updated ==
  ASSUME program \in DOMAIN Programs, NEW h, HeapFine(h), NEW o \in DOMAIN h,
         NEW k \in 1..Len(h[o].cells), NEW v \in Nat,
         NEW g, g = Update(h, o, k, v)
  PROVE  /\ g \in Seq(ObjectSet) /\ DOMAIN g = DOMAIN h
         /\ \A i \in DOMAIN h : i # o => g[i] = h[i]
         /\ g[o].class = h[o].class /\ g[o].copy = h[o].copy
         /\ Len(g[o].cells) = Len(h[o].cells) /\ g[o].cells[k] = v
         /\ \A j \in 1..Len(h[o].cells) : j # k => g[o].cells[j] = h[o].cells[j]
<1> DEFINE cells == [h[o].cells EXCEPT ![k] = v]
           object == [class |-> h[o].class, cells |-> cells, copy |-> h[o].copy]
<1>1. h \in Seq(ObjectSet) /\ o \in 1..Len(h) /\ h[o] \in ObjectSet /\ h[o].cells \in Seq(Nat)
  BY ObjectTyped DEF HeapFine
<1>2. /\ cells \in Seq(Nat) /\ Len(cells) = Len(h[o].cells) /\ cells[k] = v
      /\ \A j \in 1..Len(h[o].cells) : j # k => cells[j] = h[o].cells[j]
  BY <1>1, ExceptSeq
<1>3. g = [h EXCEPT ![o] = object]
  <2>1. [h[o] EXCEPT !.cells = cells] = object
    <3>1. ASSUME NEW x \in ObjectSet, NEW y
          PROVE  [x EXCEPT !.cells = y] = [class |-> x.class, cells |-> y, copy |-> x.copy]
      BY DEF ObjectSet
    <3>. QED BY <1>1, <3>1
  <2>. QED BY <2>1 DEF Update
<1>. HIDE DEF cells
<1>4. object \in ObjectSet
  BY <1>1, <1>2 DEF ObjectSet
<1>5. object.class = h[o].class /\ object.copy = h[o].copy /\ object.cells = cells
  OBVIOUS
<1>. HIDE DEF object
<1>6. /\ g \in Seq(ObjectSet) /\ DOMAIN g = DOMAIN h /\ g[o] = object
      /\ \A i \in DOMAIN h : i # o => g[i] = h[i]
  <2>1. [h EXCEPT ![o] = object] \in Seq(ObjectSet)
    BY <1>1, <1>4, ExceptSeq
  <2>2. DOMAIN h = 1..Len(h)
    BY <1>1, LenProperties
  <2>. QED BY <1>1, <1>3, <2>1, <2>2
<1>. QED BY <1>2, <1>5, <1>6

\* A field gets a value of its type, through a reference that may be to a copy.
LEMMA StoreFine ==
  ASSUME program \in DOMAIN Programs, NEW h, HeapFine(h), NEW t \in 1..Main, NEW o, IsRef(h, t, o),
         NEW f \in Field(t), FieldCell(f) <= Len(h[o].cells), NEW v, IsRef(h, FieldType(f), v),
         NEW g, g = Update(h, o, FieldCell(f), v)
  PROVE  /\ HeapFine(g) /\ Extends(h, g) /\ DOMAIN g = DOMAIN h
         /\ g[o].cells[FieldCell(f)] # 0
<1> DEFINE k == FieldCell(f)
<1>1. o \in DOMAIN h /\ f \in Field(h[o].class)
  BY RefShape, FieldInside
<1>2. /\ h[o].class \in 1..Main /\ Len(h[o].cells) = Size[h[o].class] /\ Len(h[o].cells) \in Nat \ {0}
  BY <1>1, ObjectTyped
<1>3. k \in 1..Len(h[o].cells) /\ k # 1 /\ FieldType(f) \in 0..Main
  BY <1>2, FieldPlace
<1>4. v \in Nat /\ v # 0
  BY <1>3, RefValue
<1>5. /\ g \in Seq(ObjectSet) /\ DOMAIN g = DOMAIN h
      /\ \A i \in DOMAIN h : i # o => g[i] = h[i]
      /\ g[o].class = h[o].class /\ g[o].copy = h[o].copy
      /\ Len(g[o].cells) = Len(h[o].cells) /\ g[o].cells[k] = v
      /\ \A j \in 1..Len(h[o].cells) : j # k => g[o].cells[j] = h[o].cells[j]
  BY <1>1, <1>3, <1>4, Updated
<1>6. g[o].cells[1] = h[o].cells[1]
  BY <1>2, <1>3, <1>5
<1>. HIDE DEF k
<1>7. Extends(h, g)
  <2>1. \A j \in 1..Len(h[o].cells) : g[o].cells[j] = 0 => h[o].cells[j] = 0
    BY <1>4, <1>5
  <2>. QED BY <1>5, <1>6, <2>1 DEF Extends
<1>8. ASSUME NEW i \in DOMAIN g PROVE ObjectFine(g, i)
  <2>1. ObjectFine(h, i)
    BY <1>5 DEF HeapFine
  <2>2. ASSUME NEW x \in Field(g[i].class), g[i].cells[FieldCell(x)] # 0
        PROVE  IsRef(g, FieldType(x), g[i].cells[FieldCell(x)])
    <3>1. x \in Field(h[i].class)
      BY <1>5, <2>2
    <3>2. CASE i = o /\ FieldCell(x) = k
      <4>1. x = f
        BY <1>1, <1>2, <3>1, <3>2, FieldsApart DEF k
      <4>2. IsRef(g, FieldType(f), v)
        BY <1>7, RefKept
      <4>. QED BY <1>5, <3>2, <4>1, <4>2
    <3>3. CASE i = o /\ FieldCell(x) # k
      <4>1. FieldCell(x) \in 1..Len(h[o].cells)
        BY <1>2, <3>1, <3>3, FieldPlace
      <4>2. g[i].cells[FieldCell(x)] = h[i].cells[FieldCell(x)]
        BY <1>5, <3>3, <4>1
      <4>. QED BY <1>7, <2>1, <2>2, <3>1, <4>2, RefKept DEF ObjectFine
    <3>4. CASE i # o
      <4>1. g[i].cells[FieldCell(x)] = h[i].cells[FieldCell(x)]
        BY <1>5, <3>4
      <4>. QED BY <1>7, <2>1, <2>2, <3>1, <4>1, RefKept DEF ObjectFine
    <3>. QED BY <3>2, <3>3, <3>4
  <2>3. g[i].class = h[i].class /\ g[i].copy = h[i].copy /\ Len(g[i].cells) = Len(h[i].cells)
        /\ g[i].cells[1] = h[i].cells[1]
    BY <1>5, <1>6
  <2>. QED BY <2>1, <2>2, <2>3 DEF ObjectFine
<1>9. HeapFine(g)
  BY <1>5, <1>8 DEF HeapFine
<1>. QED BY <1>4, <1>5, <1>7, <1>9 DEF k

\* A constructor stores the table of its class.
LEMMA TableFine ==
  ASSUME program \in DOMAIN Programs, NEW h, HeapFine(h), NEW o \in DOMAIN h, ~h[o].copy,
         NEW c \in Ancestors[h[o].class], HasMethod(c), NEW g, g = Update(h, o, 1, c)
  PROVE  /\ HeapFine(g) /\ Extends(h, g) /\ DOMAIN g = DOMAIN h
         /\ g[o].cells[1] # 0
<1>1. /\ h[o].class \in 1..Main /\ Len(h[o].cells) = Size[h[o].class] /\ Len(h[o].cells) \in Nat \ {0}
      /\ Main \in Nat
  BY ObjectTyped, ProgramFacts
<1>2. c \in 1..Main /\ c \in Nat /\ c # 0 /\ 1 \in 1..Len(h[o].cells)
  BY <1>1, AncestorsTransitive
<1>3. /\ g \in Seq(ObjectSet) /\ DOMAIN g = DOMAIN h
      /\ \A i \in DOMAIN h : i # o => g[i] = h[i]
      /\ g[o].class = h[o].class /\ g[o].copy = h[o].copy
      /\ Len(g[o].cells) = Len(h[o].cells) /\ g[o].cells[1] = c
      /\ \A j \in 1..Len(h[o].cells) : j # 1 => g[o].cells[j] = h[o].cells[j]
  BY <1>2, Updated
<1>4. Extends(h, g)
  <2>1. \A j \in 1..Len(h[o].cells) : g[o].cells[j] = 0 => h[o].cells[j] = 0
    BY <1>2, <1>3
  <2>. QED BY <1>3, <2>1 DEF Extends
<1>5. ASSUME NEW i \in DOMAIN g PROVE ObjectFine(g, i)
  <2>1. ObjectFine(h, i)
    BY <1>3 DEF HeapFine
  <2>2. ASSUME NEW x \in Field(g[i].class), g[i].cells[FieldCell(x)] # 0
        PROVE  IsRef(g, FieldType(x), g[i].cells[FieldCell(x)])
    <3>1. x \in Field(h[i].class)
      BY <1>3, <2>2
    <3>2. g[i].cells[FieldCell(x)] = h[i].cells[FieldCell(x)]
      <4>1. CASE i = o
        <5>1. FieldCell(x) \in 1..Len(h[o].cells) /\ FieldCell(x) # 1
          BY <1>1, <3>1, <4>1, FieldPlace
        <5>. QED BY <1>3, <4>1, <5>1
      <4>2. CASE i # o
        BY <1>3, <4>2
      <4>. QED BY <4>1, <4>2
    <3>. QED BY <1>4, <2>1, <2>2, <3>1, <3>2, RefKept DEF ObjectFine
  <2>3. CASE i = o
    <3>1. c \in 0..Main
      BY <1>1, <1>2
    <3>. QED BY <1>3, <2>1, <2>2, <2>3, <3>1 DEF ObjectFine
  <2>4. CASE i # o
    <3>1. g[i] = h[i]
      BY <1>3, <2>4
    <3>. QED BY <2>1, <2>2, <3>1 DEF ObjectFine
  <2>. QED BY <2>3, <2>4
<1>6. HeapFine(g)
  BY <1>3, <1>5 DEF HeapFine
<1>. QED BY <1>2, <1>3, <1>4, <1>6

-----------------------------------------------------------------------------
(* Expressions. *)

LEMMA CurrentFine ==
  ASSUME Inv(heap, stack)
  PROVE  /\ FrameFine(heap, Current) /\ Current \in FrameSet
         /\ stack \in Seq(FrameSet) /\ stack # <<>> /\ Current = stack[1] /\ 1 \in DOMAIN stack
<1>1. stack \in Seq(FrameSet) /\ stack # <<>> /\ \A n \in DOMAIN stack : FrameFine(heap, stack[n])
  BY DEF Inv, FramesFine
<1>2. Len(stack) \in Nat \ {0} /\ DOMAIN stack = 1..Len(stack) /\ Head(stack) = stack[1]
  BY <1>1
<1>. QED BY <1>1, <1>2 DEF Current, FrameFine

LEMMA ExpressionShape ==
  ASSUME program \in DOMAIN Programs, Inv(heap, stack), NEW e \in Expressions
  PROVE  /\ e.type \in 0..Main
         /\ e.cell = 0 => IsRef(heap, e.type, e.object)
         /\ e.cell # 0 => \E t \in 1..Main : \E f \in Field(t) :
              /\ IsRef(heap, t, e.object) /\ e.cell = FieldCell(f) /\ e.type = FieldType(f)
<1>1. FrameFine(heap, Current) /\ Current \in FrameSet
  BY CurrentFine
<1>2. Main \in Nat /\ \A c \in 1..Main : c \in 0..Main /\ c # NumberType
  BY ProgramFacts DEF NumberType
<1>3. ASSUME NEW d \in Direct
      PROVE  d.type \in 0..Main /\ d.cell = 0 /\ IsRef(heap, d.type, d.object)
  <2>1. CASE d = Operand(Current.class, Current.this, 0)
    <3>1. d.type = Current.class /\ d.cell = 0 /\ d.object = Current.this
      BY <2>1 DEF Operand
    <3>2. Current.class \in 1..Main
      BY <1>1 DEF FrameSet
    <3>3. IsRef(heap, Current.class, Current.this)
      BY <1>1, <1>2, <3>2 DEF FrameFine, IsRef
    <3>. QED BY <1>2, <3>1, <3>2, <3>3
  <2>2. CASE \E l \in Visible : d = Operand(l.type, l.value, 0)
    <3>1. PICK l \in Visible : d = Operand(l.type, l.value, 0)
      BY <2>2
    <3>2. l \in Range(Current.locals) \cup Current.results
      BY DEF Visible
    <3>3. l \in LocalSet
      <4>1. Current.locals \in Seq(LocalSet) /\ Current.results \in SUBSET LocalSet
        BY <1>1 DEF FrameSet
      <4>. QED BY <3>2, <4>1, RangeOfSeq
    <3>4. IsRef(heap, l.type, l.value) /\ l.type \in 0..Main
      BY <1>1, <3>2, <3>3 DEF FrameFine, LocalSet
    <3>. QED BY <3>1, <3>4 DEF Operand
  <2>. QED BY <2>1, <2>2 DEF Direct
<1>4. CASE e = Operand(NumberType, Number, 0)
  BY <1>2, <1>4 DEF Operand, IsRef, NumberType
<1>5. CASE e \in Direct
  BY <1>3, <1>5
<1>6. CASE \E d \in Direct : e \in Members(d)
  <2>1. PICK d \in Direct : e \in Members(d)
    BY <1>6
  <2>2. d.type \in 1..Main
    BY <1>2, <1>3, <2>1 DEF Members, NumberType
  <2>3. PICK f \in Field(d.type) : e = Operand(FieldType(f), d.object, FieldCell(f))
    BY <2>1 DEF Members
  <2>4. FieldType(f) \in 0..Main /\ FieldCell(f) # 0
    BY <2>2, FieldPlace
  <2>5. e.type = FieldType(f) /\ e.object = d.object /\ e.cell = FieldCell(f)
    BY <2>3 DEF Operand
  <2>. QED BY <1>3, <2>2, <2>4, <2>5
<1>. QED BY <1>4, <1>5, <1>6 DEF Expressions

LEMMA Evaluated ==
  ASSUME program \in DOMAIN Programs, Inv(heap, stack), NEW e \in Expressions, Loaded(e)
  PROVE  /\ e.type \in 0..Main /\ IsRef(heap, e.type, Eval(e)) /\ Eval(e) \in Nat \ {0}
<1>1. HeapFine(heap)
  BY DEF Inv
<1>2. e.type \in 0..Main
  BY ExpressionShape
<1>3. CASE e.cell = 0
  BY <1>1, <1>2, <1>3, ExpressionShape, RefValue DEF Eval
<1>4. CASE e.cell # 0
  <2>0. PICK t \in 1..Main : \E f \in Field(t) :
          IsRef(heap, t, e.object) /\ e.cell = FieldCell(f) /\ e.type = FieldType(f)
    BY <1>4, ExpressionShape
  <2>1. PICK f \in Field(t) :
          IsRef(heap, t, e.object) /\ e.cell = FieldCell(f) /\ e.type = FieldType(f)
    BY <2>0
  <2>2. /\ e.cell <= Len(heap[e.object].cells) /\ heap[e.object].cells[e.cell] # 0
        /\ Eval(e) = heap[e.object].cells[e.cell]
    BY <1>4 DEF Loaded, Inside, Cells, Eval
  <2>3. f \in Field(heap[e.object].class) /\ e.object \in DOMAIN heap
    BY <1>1, <2>1, <2>2, FieldInside, RefShape
  <2>4. ObjectFine(heap, e.object)
    BY <1>1, <2>3 DEF HeapFine
  <2>5. IsRef(heap, e.type, Eval(e))
    BY <2>1, <2>2, <2>3, <2>4 DEF ObjectFine
  <2>. QED BY <1>1, <1>2, <2>5, RefValue
<1>. QED BY <1>3, <1>4

\* What is stored, passed or assigned, and the heap that holds it.
LEMMA StoredFine ==
  ASSUME program \in DOMAIN Programs, Inv(heap, stack), NEW e \in Expressions, Storable(e)
  PROVE  /\ HeapFine(HeapWith(e)) /\ Extends(heap, HeapWith(e))
         /\ e.type \in 0..Main /\ IsRef(HeapWith(e), e.type, Stored(e))
         /\ \A o \in DOMAIN HeapWith(e) : o \in DOMAIN heap \/ HeapWith(e)[o].copy
<1>1. HeapFine(heap) /\ Loaded(e) /\ Copyable(e)
  BY DEF Inv, Storable
<1>2. e.type \in 0..Main /\ IsRef(heap, e.type, Eval(e))
  BY <1>1, Evaluated
<1>3. CASE ~Copied(e)
  <2>1. HeapWith(e) = heap /\ Stored(e) = Eval(e)
    BY <1>3 DEF HeapWith, Stored
  <2>. QED BY <1>1, <1>2, <2>1, ExtendsItself
<1>4. CASE Copied(e)
  <2>1. e.type \in 1..Main
    <3>1. Main \in Nat /\ e.type # 0
      BY <1>4, ProgramFacts DEF Copied, IsValue, NumberType
    <3>. QED BY <1>2, <3>1
  <2>2. Size[e.type] <= Len(heap[Eval(e)].cells)
    BY <1>1, <1>4 DEF Copyable, Inside, Cells
  <2>3. /\ HeapWith(e) = Append(heap, [class |-> e.type, cells |-> SubSeq(heap[Eval(e)].cells, 1, Size[e.type]), copy |-> TRUE])
        /\ Stored(e) = Len(heap) + 1
    BY <1>4 DEF HeapWith, Stored, Copy, Cells
  <2>. QED BY <1>1, <1>2, <2>1, <2>2, <2>3, CopyFine
<1>. QED BY <1>3, <1>4

-----------------------------------------------------------------------------
(* Calls. *)

LEMMA ParametersFine ==
  ASSUME program \in DOMAIN Programs, NEW h, HeapFine(h), NEW types \in Seq(0..Main), NEW values,
         \A k \in DOMAIN types : IsRef(h, types[k], values[k])
  PROVE  /\ Parameters(types, values) \in Seq(LocalSet)
         /\ \A l \in Range(Parameters(types, values)) : IsRef(h, l.type, l.value)
<1> DEFINE s == Parameters(types, values)
<1>1. Len(types) \in Nat /\ DOMAIN types = 1..Len(types)
  OBVIOUS
<1>2. s = [k \in 1..Len(types) |-> Local(types[k], values[k])]
  BY <1>1 DEF Parameters
<1>3. ASSUME NEW k \in 1..Len(types)
      PROVE  Local(types[k], values[k]) \in LocalSet /\ IsRef(h, types[k], values[k])
  <2>1. types[k] \in 0..Main /\ IsRef(h, types[k], values[k])
    BY <1>1, <1>3, ElementOfSeq
  <2>2. values[k] \in Nat
    BY <2>1, RefValue
  <2>. QED BY <2>1, <2>2 DEF Local, LocalSet
<1>. HIDE DEF s
<1>4. s \in Seq(LocalSet)
  BY <1>1, <1>2, <1>3
<1>5. ASSUME NEW l \in Range(s) PROVE IsRef(h, l.type, l.value)
  <2>1. PICK k \in 1..Len(types) : l = Local(types[k], values[k])
    BY <1>2 DEF Range
  <2>. QED BY <1>3, <2>1 DEF Local
<1>. QED BY <1>4, <1>5 DEF s

\* A constructor that has just been called is still to initialize all of its class.
LEMMA ConstructFine ==
  ASSUME program \in DOMAIN Programs, NEW h, HeapFine(h), NEW c \in 1..Main, NEW o \in DOMAIN h,
         ~h[o].copy, c \in Ancestors[h[o].class], NEW super \in BOOLEAN, NEW values,
         \A k \in DOMAIN Classes[c].ctor : IsRef(h, Classes[c].ctor[k], values[k])
  PROVE  LET frame == Construct(c, o, super, values)
         IN  /\ FrameFine(h, frame)
             /\ frame.class = c /\ frame.this = o /\ frame.super = super /\ frame.stage # "method"
             /\ \A k \in 1..Size[c] : PendingBy(frame, o, k)
<1> DEFINE frame == Construct(c, o, super, values)
           locals == Parameters(Classes[c].ctor, values)
           stage == IF Classes[c].base = Builtin THEN "table" ELSE "super"
<1>1. /\ locals \in Seq(LocalSet) /\ \A l \in Range(locals) : IsRef(h, l.type, l.value)
  BY ParametersFine, ProgramFacts
<1>2. o \in Nat
  BY ObjectTyped
<1>. HIDE DEF locals
<1>3. frame = [class |-> c, this |-> o, stage |-> stage, super |-> super, item |-> 1,
               locals |-> locals, results |-> {}]
  BY DEF Construct, Frame, locals
<1>4. frame \in FrameSet
  BY <1>1, <1>2, <1>3 DEF FrameSet
<1>5. /\ frame.class = c /\ frame.this = o /\ frame.super = super /\ frame.stage = stage
      /\ frame.item = 1 /\ frame.locals = locals /\ frame.results = {}
  BY <1>3
<1>. HIDE DEF frame
<1>6. FrameFine(h, frame)
  BY <1>1, <1>4, <1>5 DEF FrameFine
<1>7. ASSUME NEW k \in 1..Size[c] PROVE PendingBy(frame, o, k)
  <2>1. Size[c] \in Nat
    BY SizesGrow
  <2>2. CASE Classes[c].base # Builtin
    BY <1>5, <2>1, <2>2 DEF PendingBy
  <2>3. CASE Classes[c].base = Builtin
    <3>1. Size[Classes[c].base] = 1
      BY <2>3, SizeDef
    <3>2. k = 1 \/ Own(c, k)
      BY <2>1, <3>1 DEF Own
    <3>. QED BY <1>5, <2>3, <3>2 DEF PendingBy
  <2>. QED BY <2>2, <2>3
<1>. QED BY <1>5, <1>6, <1>7 DEF frame

LEMMA InvokeFine ==
  ASSUME program \in DOMAIN Programs, NEW h, HeapFine(h), NEW c \in 1..Main, NEW o, IsRef(h, c, o),
         NEW v, IsRef(h, Param, v)
  PROVE  LET frame == Invoke(c, o, v)
         IN  FrameFine(h, frame) /\ frame.stage = "method"
<1> DEFINE frame == Invoke(c, o, v)
           locals == Parameters(<<Param>>, <<v>>)
<1>1. locals \in Seq(LocalSet) /\ \A l \in Range(locals) : IsRef(h, l.type, l.value)
  <2>1. <<Param>> \in Seq(0..Main)
    BY ProgramFacts
  <2>2. \A k \in DOMAIN <<Param>> : IsRef(h, <<Param>>[k], <<v>>[k])
    OBVIOUS
  <2>. QED BY <2>1, <2>2, ParametersFine
<1>2. o \in Nat
  <2>1. c \in 0..Main
    BY ProgramFacts
  <2>. QED BY <2>1, RefValue
<1>. HIDE DEF locals
<1>3. frame = [class |-> c, this |-> o, stage |-> "method", super |-> FALSE, item |-> 1,
               locals |-> locals, results |-> {}]
  BY DEF Invoke, Frame, locals
<1>4. frame \in FrameSet
  BY <1>1, <1>2, <1>3 DEF FrameSet
<1>5. /\ frame.class = c /\ frame.this = o /\ frame.stage = "method"
      /\ frame.locals = locals /\ frame.results = {}
  BY <1>3
<1>. HIDE DEF frame
<1>6. FrameFine(h, frame)
  BY <1>1, <1>4, <1>5 DEF FrameFine
<1>. QED BY <1>5, <1>6 DEF frame

LEMMA StackShapes ==
  ASSUME NEW S, NEW s \in Seq(S), s # <<>>, NEW a \in S, NEW b \in S
  PROVE  /\ Len(s) \in Nat \ {0} /\ DOMAIN s = 1..Len(s) /\ Head(s) = s[1]
         /\ <<a>> \o Tail(s) \in Seq(S) /\ DOMAIN (<<a>> \o Tail(s)) = 1..Len(s)
         /\ (<<a>> \o Tail(s))[1] = a
         /\ \A n \in 2..Len(s) : (<<a>> \o Tail(s))[n] = s[n]
         /\ <<a, b>> \o Tail(s) \in Seq(S) /\ DOMAIN (<<a, b>> \o Tail(s)) = 1..Len(s) + 1
         /\ (<<a, b>> \o Tail(s))[1] = a /\ (<<a, b>> \o Tail(s))[2] = b
         /\ \A n \in 2..Len(s) : (<<a, b>> \o Tail(s))[n + 1] = s[n]
<1>1. Len(s) \in Nat \ {0} /\ DOMAIN s = 1..Len(s) /\ Head(s) = s[1]
  BY LenProperties
<1>2. Tail(s) \in Seq(S) /\ Len(Tail(s)) = Len(s) - 1 /\ \A i \in 1..Len(s) - 1 : Tail(s)[i] = s[i + 1]
  BY HeadTailProperties
<1>3. <<a>> \in Seq(S) /\ Len(<<a>>) = 1 /\ <<a>>[1] = a
  OBVIOUS
<1>4. <<a, b>> \in Seq(S) /\ Len(<<a, b>>) = 2 /\ <<a, b>>[1] = a /\ <<a, b>>[2] = b
  OBVIOUS
<1>5. ASSUME NEW t \in Seq(S), NEW m \in {1, 2}, Len(t) = m
      PROVE  /\ t \o Tail(s) \in Seq(S) /\ DOMAIN (t \o Tail(s)) = 1..Len(s) + m - 1
             /\ \A i \in 1..m : (t \o Tail(s))[i] = t[i]
             /\ \A n \in 2..Len(s) : (t \o Tail(s))[n + m - 1] = s[n]
  <2>1. /\ t \o Tail(s) \in Seq(S) /\ Len(t \o Tail(s)) = Len(t) + Len(Tail(s))
        /\ \A i \in 1..Len(t) + Len(Tail(s)) :
             (t \o Tail(s))[i] = IF i <= Len(t) THEN t[i] ELSE Tail(s)[i - Len(t)]
    BY <1>2, ConcatProperties
  <2>2. Len(t \o Tail(s)) = Len(s) + m - 1 /\ DOMAIN (t \o Tail(s)) = 1..Len(s) + m - 1
    BY <1>1, <1>2, <1>5, <2>1, LenProperties
  <2>3. ASSUME NEW i \in 1..m PROVE (t \o Tail(s))[i] = t[i]
    <3>1. i \in 1..Len(t) + Len(Tail(s)) /\ i <= Len(t)
      BY <1>1, <1>2, <1>5
    <3>. QED BY <2>1, <3>1
  <2>4. ASSUME NEW n \in 2..Len(s) PROVE (t \o Tail(s))[n + m - 1] = s[n]
    <3>1. /\ n + m - 1 \in 1..Len(t) + Len(Tail(s)) /\ ~(n + m - 1 <= Len(t))
          /\ n + m - 1 - Len(t) = n - 1 /\ n - 1 \in 1..Len(s) - 1 /\ n - 1 + 1 = n
      BY <1>1, <1>2, <1>5
    <3>2. Tail(s)[n - 1] = s[n]
      BY <1>2, <3>1
    <3>. QED BY <2>1, <3>1, <3>2
  <2>. QED BY <2>1, <2>2, <2>3, <2>4
<1>6. /\ <<a>> \o Tail(s) \in Seq(S) /\ DOMAIN (<<a>> \o Tail(s)) = 1..Len(s)
      /\ (<<a>> \o Tail(s))[1] = a
      /\ \A n \in 2..Len(s) : (<<a>> \o Tail(s))[n] = s[n]
  <2> DEFINE t == <<a>>
  <2>1. t \in Seq(S) /\ Len(t) = 1 /\ t[1] = a
    BY <1>3
  <2>. HIDE DEF t
  <2>2. /\ t \o Tail(s) \in Seq(S) /\ DOMAIN (t \o Tail(s)) = 1..Len(s) + 1 - 1
        /\ \A i \in 1..1 : (t \o Tail(s))[i] = t[i]
        /\ \A n \in 2..Len(s) : (t \o Tail(s))[n + 1 - 1] = s[n]
    BY <1>5, <2>1
  <2>3. Len(s) + 1 - 1 = Len(s) /\ \A n \in 2..Len(s) : n + 1 - 1 = n
    BY <1>1
  <2>. QED BY <2>1, <2>2, <2>3 DEF t
<1>7. /\ <<a, b>> \o Tail(s) \in Seq(S) /\ DOMAIN (<<a, b>> \o Tail(s)) = 1..Len(s) + 1
      /\ (<<a, b>> \o Tail(s))[1] = a /\ (<<a, b>> \o Tail(s))[2] = b
      /\ \A n \in 2..Len(s) : (<<a, b>> \o Tail(s))[n + 1] = s[n]
  <2> DEFINE t == <<a, b>>
  <2>1. t \in Seq(S) /\ Len(t) = 2 /\ t[1] = a /\ t[2] = b
    BY <1>4
  <2>. HIDE DEF t
  <2>2. /\ t \o Tail(s) \in Seq(S) /\ DOMAIN (t \o Tail(s)) = 1..Len(s) + 2 - 1
        /\ \A i \in 1..2 : (t \o Tail(s))[i] = t[i]
        /\ \A n \in 2..Len(s) : (t \o Tail(s))[n + 2 - 1] = s[n]
    BY <1>5, <2>1
  <2>3. Len(s) + 2 - 1 = Len(s) + 1 /\ \A n \in 2..Len(s) : n + 2 - 1 = n + 1
    BY <1>1
  <2>. QED BY <2>1, <2>2, <2>3 DEF t
<1>. QED BY <1>1, <1>6, <1>7

-----------------------------------------------------------------------------
(* Changes of the stack. *)

LEMMA LinkKept ==
  ASSUME NEW h, NEW g, Extends(h, g), NEW s, NEW n \in DOMAIN s, FrameFine(h, s[n]), Linked(h, s, n)
  PROVE  Linked(g, s, n)
<1>1. s[n].stage # "method" => s[n].this \in DOMAIN h
  BY DEF FrameFine
<1>2. s[n].stage # "method" => g[s[n].this].class = h[s[n].this].class
  BY <1>1 DEF Extends
<1>. QED BY <1>2 DEF Linked

\* The same call on top of the stack, in another state.
SameCall(a, b) == /\ a.class = b.class /\ a.this = b.this /\ a.super = b.super
                  /\ a.stage = "method" <=> b.stage = "method"

LEMMA StepInv ==
  ASSUME program \in DOMAIN Programs, NEW h, NEW s, Inv(h, s),
         NEW g, HeapFine(g), Extends(h, g), NEW frame, FrameFine(g, frame), SameCall(frame, Head(s)),
         \A o \in DOMAIN g : o \in DOMAIN h \/ g[o].copy,
         \A o \in DOMAIN h : ~h[o].copy => \A k \in 1..Len(h[o].cells) :
           /\ g[o].cells[k] = 0 /\ PendingBy(Head(s), o, k)
           => \/ PendingBy(frame, o, k) \/ (2 \in DOMAIN s /\ PendingBy(s[2], o, k))
              \/ k = 1 /\ ~HasMethod(h[o].class)
  PROVE  Inv(g, <<frame>> \o Tail(s))
<1> DEFINE z == <<frame>> \o Tail(s)
<1>1. /\ HeapFine(h) /\ s \in Seq(FrameSet) /\ s # <<>> /\ \A n \in DOMAIN s : FrameFine(h, s[n])
      /\ \A n \in DOMAIN s : Linked(h, s, n)
  BY DEF Inv, FramesFine
<1>2. frame \in FrameSet
  BY DEF FrameFine
<1>3. /\ Len(s) \in Nat \ {0} /\ DOMAIN s = 1..Len(s) /\ Head(s) = s[1]
      /\ z \in Seq(FrameSet) /\ DOMAIN z = 1..Len(s) /\ z[1] = frame
      /\ \A n \in 2..Len(s) : z[n] = s[n]
  BY <1>1, <1>2, StackShapes
<1>. HIDE DEF z
<1>4. ASSUME NEW n \in 1..Len(s), n # 1 PROVE n \in 2..Len(s) /\ z[n] = s[n]
  BY <1>3, <1>4
<1>5. FramesFine(g, z)
  <2>1. \A n \in DOMAIN z : FrameFine(g, z[n])
    <3>1. ASSUME NEW n \in 2..Len(s) PROVE FrameFine(g, z[n])
      <4>1. FrameFine(h, s[n]) /\ z[n] = s[n]
        BY <1>1, <1>3
      <4>. QED BY <4>1, FrameKept
    <3>. QED BY <1>3, <1>4, <3>1
  <2>2. z # <<>>
    BY <1>3
  <2>. QED BY <1>3, <2>1, <2>2 DEF FramesFine
<1>6. ASSUME NEW n \in DOMAIN z PROVE Linked(g, z, n)
  <2>1. n \in DOMAIN s /\ Linked(g, s, n)
    <3>1. n \in DOMAIN s /\ FrameFine(h, s[n]) /\ Linked(h, s, n)
      BY <1>1, <1>3
    <3>. QED BY <3>1, LinkKept
  <2>2. n + 1 \in DOMAIN s => n + 1 \in DOMAIN z /\ z[n + 1] = s[n + 1]
    <3>1. n + 1 # 1
      BY <1>3
    <3>. QED BY <1>3, <1>4, <3>1
  <2>3. SameCall(z[n], s[n])
    BY <1>3, <1>4 DEF SameCall
  <2>. QED BY <2>1, <2>2, <2>3 DEF Linked, SameCall
<1>7. Initialized(g, z)
  <2>1. ASSUME NEW o \in DOMAIN g, ~g[o].copy, NEW k \in 1..Len(g[o].cells), g[o].cells[k] = 0
        PROVE  Pending(g, z, o, k)
    <3>1. o \in DOMAIN h /\ ~h[o].copy /\ h[o].class = g[o].class
          /\ k \in 1..Len(h[o].cells) /\ h[o].cells[k] = 0
      BY <2>1 DEF Extends
    <3>2. Pending(h, s, o, k)
      BY <3>1 DEF Inv, Initialized
    <3>3. CASE k = 1 /\ ~HasMethod(h[o].class)
      BY <3>1, <3>3 DEF Pending
    <3>4. ASSUME NEW n \in 2..Len(s), PendingBy(s[n], o, k) PROVE Pending(g, z, o, k)
      <4>1. n \in DOMAIN z /\ z[n] = s[n]
        BY <1>3
      <4>. QED BY <3>4, <4>1 DEF Pending
    <3>5. CASE PendingBy(s[1], o, k)
      <4>1. \/ PendingBy(frame, o, k) \/ (2 \in DOMAIN s /\ PendingBy(s[2], o, k))
            \/ k = 1 /\ ~HasMethod(h[o].class)
        BY <1>3, <2>1, <3>1, <3>5
      <4>2. CASE PendingBy(frame, o, k)
        <5>1. 1 \in DOMAIN z
          BY <1>3
        <5>. QED BY <1>3, <4>2, <5>1 DEF Pending
      <4>3. CASE 2 \in DOMAIN s /\ PendingBy(s[2], o, k)
        <5>1. 2 \in 2..Len(s)
          BY <1>3, <4>3
        <5>. QED BY <3>4, <4>3, <5>1
      <4>. QED BY <3>3, <4>1, <4>2, <4>3
    <3>. QED BY <1>3, <1>4, <3>2, <3>3, <3>4, <3>5 DEF Pending
  <2>. QED BY <2>1 DEF Initialized
<1>. QED BY <1>5, <1>6, <1>7 DEF Inv, z

\* A call, after which the caller may be in another state.
LEMMA EnterInv ==
  ASSUME program \in DOMAIN Programs, NEW h, NEW s, Inv(h, s),
         NEW g, HeapFine(g), Extends(h, g), NEW frame, NEW caller,
         FrameFine(g, frame), FrameFine(g, caller), SameCall(caller, Head(s)),
         frame.stage # "method" =>
           IF frame.super THEN /\ caller.this = frame.this /\ caller.stage = "table"
                               /\ Classes[caller.class].base = frame.class
                          ELSE frame.class = g[frame.this].class,
         \A o \in DOMAIN g : \/ o \in DOMAIN h \/ g[o].copy
                             \/ \A k \in 1..Len(g[o].cells) : PendingBy(frame, o, k),
         \A o \in DOMAIN h : ~h[o].copy => \A k \in 1..Len(h[o].cells) :
           PendingBy(Head(s), o, k) => PendingBy(frame, o, k) \/ PendingBy(caller, o, k)
  PROVE  Inv(g, <<frame, caller>> \o Tail(s))
<1> DEFINE z == <<frame, caller>> \o Tail(s)
<1>1. /\ HeapFine(h) /\ s \in Seq(FrameSet) /\ s # <<>> /\ \A n \in DOMAIN s : FrameFine(h, s[n])
      /\ \A n \in DOMAIN s : Linked(h, s, n)
  BY DEF Inv, FramesFine
<1>2. frame \in FrameSet /\ caller \in FrameSet
  BY DEF FrameFine
<1>3. /\ Len(s) \in Nat \ {0} /\ DOMAIN s = 1..Len(s) /\ Head(s) = s[1]
      /\ z \in Seq(FrameSet) /\ DOMAIN z = 1..Len(s) + 1 /\ z[1] = frame /\ z[2] = caller
      /\ \A n \in 2..Len(s) : z[n + 1] = s[n]
  BY <1>1, <1>2, StackShapes
<1>. HIDE DEF z
<1>4. ASSUME NEW n \in DOMAIN z
      PROVE  n = 1 \/ n = 2 \/ (n - 1 \in 2..Len(s) /\ n - 1 \in DOMAIN s /\ z[n] = s[n - 1])
  <2>1. CASE n # 1 /\ n # 2
    <3>1. n - 1 \in 2..Len(s) /\ n - 1 + 1 = n
      BY <1>3, <2>1
    <3>. QED BY <1>3, <3>1
  <2>. QED BY <2>1
<1>5. FramesFine(g, z)
  <2>1. ASSUME NEW n \in DOMAIN z PROVE FrameFine(g, z[n])
    <3>1. CASE n - 1 \in DOMAIN s /\ z[n] = s[n - 1]
      <4>1. FrameFine(h, s[n - 1])
        BY <1>1, <3>1
      <4>. QED BY <3>1, <4>1, FrameKept
    <3>. QED BY <1>3, <1>4, <3>1
  <2>2. z # <<>>
    BY <1>3
  <2>. QED BY <1>3, <2>1, <2>2 DEF FramesFine
<1>6. ASSUME NEW n \in DOMAIN z PROVE Linked(g, z, n)
  <2>1. \A m \in DOMAIN s : Linked(g, s, m)
    BY <1>1, LinkKept
  <2>2. CASE n = 1
    <3>1. 1 + 1 \in DOMAIN z /\ z[1 + 1] = caller
      BY <1>3
    <3>. QED BY <1>3, <2>2, <3>1 DEF Linked
  <2>3. ASSUME NEW m \in DOMAIN s, n = m + 1, SameCall(z[n], s[m]) PROVE Linked(g, z, n)
    <3>1. m + 1 \in DOMAIN s => n + 1 \in DOMAIN z /\ z[n + 1] = s[m + 1]
      <4>1. ASSUME m + 1 \in DOMAIN s PROVE n + 1 \in DOMAIN z /\ m + 1 \in 2..Len(s) /\ n + 1 = m + 1 + 1
        BY <1>3, <2>3, <4>1
      <4>. QED BY <1>3, <4>1
    <3>. QED BY <2>1, <2>3, <3>1 DEF Linked, SameCall
  <2>4. CASE n = 2
    <3>1. 1 \in DOMAIN s /\ n = 1 + 1 /\ SameCall(z[n], s[1])
      BY <1>3, <2>4
    <3>. QED BY <2>3, <3>1
  <2>5. CASE n - 1 \in DOMAIN s /\ z[n] = s[n - 1]
    <3>1. n = n - 1 + 1 /\ SameCall(z[n], s[n - 1])
      BY <1>3, <2>5 DEF SameCall
    <3>. QED BY <2>3, <2>5, <3>1
  <2>. QED BY <1>4, <2>2, <2>4, <2>5
<1>7. Initialized(g, z)
  <2>0. 1 \in DOMAIN z /\ 2 \in DOMAIN z
    BY <1>3
  <2>1. ASSUME NEW o \in DOMAIN g, ~g[o].copy, NEW k \in 1..Len(g[o].cells), g[o].cells[k] = 0
        PROVE  Pending(g, z, o, k)
    <3>1. CASE o \in DOMAIN h
      <4>1. ~h[o].copy /\ h[o].class = g[o].class /\ k \in 1..Len(h[o].cells) /\ h[o].cells[k] = 0
        BY <2>1, <3>1 DEF Extends
      <4>2. Pending(h, s, o, k)
        BY <3>1, <4>1 DEF Inv, Initialized
      <4>3. CASE k = 1 /\ ~HasMethod(h[o].class)
        BY <4>1, <4>3 DEF Pending
      <4>4. ASSUME NEW n \in DOMAIN s, PendingBy(s[n], o, k) PROVE Pending(g, z, o, k)
        <5>1. CASE n = 1
          <6>1. PendingBy(frame, o, k) \/ PendingBy(caller, o, k)
            BY <1>3, <3>1, <4>1, <4>4, <5>1
          <6>. QED BY <1>3, <2>0, <6>1 DEF Pending
        <5>2. CASE n # 1
          <6>1. n \in 2..Len(s) /\ n + 1 \in DOMAIN z
            BY <1>3, <5>2
          <6>2. z[n + 1] = s[n]
            BY <1>3, <6>1
          <6>. QED BY <4>4, <6>1, <6>2 DEF Pending
        <5>. QED BY <5>1, <5>2
      <4>. QED BY <4>2, <4>3, <4>4 DEF Pending
    <3>2. CASE o \notin DOMAIN h
      <4>1. PendingBy(z[1], o, k)
        BY <1>3, <2>1, <3>2
      <4>. QED BY <2>0, <4>1 DEF Pending
    <3>. QED BY <3>1, <3>2
  <2>. QED BY <2>1 DEF Initialized
<1>. QED BY <1>5, <1>6, <1>7 DEF Inv, z

\* The end of a call that has initialized what it had to.
LEMMA PopInv ==
  ASSUME program \in DOMAIN Programs, NEW h, NEW s, Inv(h, s), 2 \in DOMAIN s,
         \A o \in DOMAIN h : ~h[o].copy => \A k \in 1..Len(h[o].cells) :
           PendingBy(Head(s), o, k) => PendingBy(s[2], o, k) \/ (k = 1 /\ ~HasMethod(h[o].class))
  PROVE  Inv(h, Tail(s)) /\ Head(Tail(s)) = s[2]
<1> DEFINE z == Tail(s)
<1>1. /\ HeapFine(h) /\ s \in Seq(FrameSet) /\ s # <<>> /\ \A n \in DOMAIN s : FrameFine(h, s[n])
      /\ \A n \in DOMAIN s : Linked(h, s, n)
  BY DEF Inv, FramesFine
<1>2. Len(s) \in Nat \ {0} /\ DOMAIN s = 1..Len(s) /\ Head(s) = s[1]
  BY <1>1, LenProperties
<1>3. /\ z \in Seq(FrameSet) /\ Len(z) = Len(s) - 1 /\ DOMAIN z = 1..Len(s) - 1
      /\ \A i \in 1..Len(s) - 1 : z[i] = s[i + 1]
  BY <1>1, <1>2, HeadTailProperties, LenProperties
<1>. HIDE DEF z
<1>4. z # <<>> /\ Head(z) = s[2] /\ 1 \in DOMAIN z
  <2>1. Len(s) >= 2
    BY <1>2
  <2>2. 1 \in 1..Len(s) - 1 /\ Len(z) # 0
    BY <1>2, <1>3, <2>1
  <2>3. z[1] = s[1 + 1]
    BY <1>3, <2>2
  <2>. QED BY <1>3, <2>2, <2>3
<1>5. FramesFine(h, z)
  <2>1. ASSUME NEW n \in DOMAIN z PROVE FrameFine(h, z[n])
    <3>1. n + 1 \in DOMAIN s /\ z[n] = s[n + 1]
      BY <1>2, <1>3
    <3>. QED BY <1>1, <3>1
  <2>. QED BY <1>3, <1>4, <2>1 DEF FramesFine
<1>6. ASSUME NEW n \in DOMAIN z PROVE Linked(h, z, n)
  <2>1. n + 1 \in DOMAIN s /\ z[n] = s[n + 1] /\ Linked(h, s, n + 1)
    BY <1>1, <1>2, <1>3
  <2>2. n + 1 + 1 \in DOMAIN s => n + 1 \in DOMAIN z /\ z[n + 1] = s[n + 1 + 1]
    <3>1. n + 1 + 1 \in DOMAIN s => n + 1 \in 1..Len(s) - 1
      BY <1>2, <1>3
    <3>. QED BY <1>3, <3>1
  <2>. QED BY <2>1, <2>2 DEF Linked
<1>7. Initialized(h, z)
  <2>1. ASSUME NEW o \in DOMAIN h, ~h[o].copy, NEW k \in 1..Len(h[o].cells), h[o].cells[k] = 0
        PROVE  Pending(h, z, o, k)
    <3>1. Pending(h, s, o, k)
      BY <2>1 DEF Inv, Initialized
    <3>2. CASE k = 1 /\ ~HasMethod(h[o].class)
      BY <3>2 DEF Pending
    <3>3. ASSUME NEW n \in DOMAIN s, PendingBy(s[n], o, k) PROVE Pending(h, z, o, k)
      <4>1. CASE n = 1
        <5>1. PendingBy(s[2], o, k) \/ (k = 1 /\ ~HasMethod(h[o].class))
          BY <1>2, <2>1, <3>3, <4>1
        <5>2. z[1] = s[2]
          BY <1>3, <1>4
        <5>. QED BY <1>4, <3>2, <5>1, <5>2 DEF Pending
      <4>2. CASE n # 1
        <5>1. n - 1 \in 1..Len(s) - 1 /\ n - 1 + 1 = n
          BY <1>2, <4>2
        <5>2. n - 1 \in DOMAIN z /\ z[n - 1] = s[n]
          BY <1>3, <5>1
        <5>. QED BY <3>3, <5>2 DEF Pending
      <4>. QED BY <4>1, <4>2
    <3>. QED BY <3>1, <3>2, <3>3 DEF Pending
  <2>. QED BY <2>1 DEF Initialized
<1>. QED BY <1>1, <1>4, <1>5, <1>6, <1>7 DEF Inv, z

\* A frame after a step of its call.
Changed(frame, stage, item, locals, results) ==
  [class |-> frame.class, this |-> frame.this, stage |-> stage, super |-> frame.super,
   item |-> item, locals |-> locals, results |-> results]

LEMMA ChangedForms ==
  ASSUME NEW f \in FrameSet, NEW x, NEW g, g = [f EXCEPT !.results = {}]
  PROVE  /\ g = Changed(f, f.stage, f.item, f.locals, {})
         /\ [g EXCEPT !.stage = x] = Changed(f, x, f.item, f.locals, {})
         /\ [f EXCEPT !.stage = x] = Changed(f, x, f.item, f.locals, f.results)
         /\ [g EXCEPT !.item = x] = Changed(f, f.stage, x, f.locals, {})
         /\ [g EXCEPT !.locals = x] = Changed(f, f.stage, f.item, x, {})
         /\ [f EXCEPT !.results = x] = Changed(f, f.stage, f.item, f.locals, x)
<1>1. ASSUME NEW e \in FrameSet
      PROVE  /\ [e EXCEPT !.stage = x] = Changed(e, x, e.item, e.locals, e.results)
             /\ [e EXCEPT !.item = x] = Changed(e, e.stage, x, e.locals, e.results)
             /\ [e EXCEPT !.locals = x] = Changed(e, e.stage, e.item, x, e.results)
  <2>1. [e EXCEPT !.stage = x] = Changed(e, x, e.item, e.locals, e.results)
    BY DEF FrameSet, Changed
  <2>2. [e EXCEPT !.item = x] = Changed(e, e.stage, x, e.locals, e.results)
    BY DEF FrameSet, Changed
  <2>3. [e EXCEPT !.locals = x] = Changed(e, e.stage, e.item, x, e.results)
    BY DEF FrameSet, Changed
  <2>. QED BY <2>1, <2>2, <2>3
<1>2. [f EXCEPT !.results = x] = Changed(f, f.stage, f.item, f.locals, x)
  BY DEF FrameSet, Changed
<1>3. g = Changed(f, f.stage, f.item, f.locals, {})
  BY DEF FrameSet, Changed
<1>4. g \in FrameSet
  BY DEF FrameSet
<1>5. /\ g.class = f.class /\ g.this = f.this /\ g.stage = f.stage /\ g.super = f.super
      /\ g.item = f.item /\ g.locals = f.locals /\ g.results = {}
  BY DEF FrameSet
<1>6. \A s, i, l, r : Changed(g, s, i, l, r) = Changed(f, s, i, l, r)
  BY <1>5 DEF Changed
<1>7. /\ [g EXCEPT !.stage = x] = Changed(g, x, f.item, f.locals, {})
      /\ [g EXCEPT !.item = x] = Changed(g, f.stage, x, f.locals, {})
      /\ [g EXCEPT !.locals = x] = Changed(g, f.stage, f.item, x, {})
  <2>. HIDE DEF Changed
  <2>1. [g EXCEPT !.stage = x] = Changed(g, x, g.item, g.locals, g.results)
    BY <1>1, <1>4
  <2>2. [g EXCEPT !.item = x] = Changed(g, g.stage, x, g.locals, g.results)
    BY <1>1, <1>4
  <2>3. [g EXCEPT !.locals = x] = Changed(g, g.stage, g.item, x, g.results)
    BY <1>1, <1>4
  <2>. QED BY <1>5, <2>1, <2>2, <2>3
<1>8. [f EXCEPT !.stage = x] = Changed(f, x, f.item, f.locals, f.results)
  BY <1>1
<1>. QED BY <1>2, <1>3, <1>6, <1>7, <1>8

LEMMA ChangedFine ==
  ASSUME NEW h, NEW g, Extends(h, g), NEW frame, FrameFine(h, frame),
         NEW stage \in {"super", "table", "init", "method"}, NEW item \in Nat \ {0},
         NEW locals \in Seq(LocalSet), NEW results \in SUBSET LocalSet,
         stage = "method" <=> frame.stage = "method", stage = "super" => frame.stage = "super",
         stage \in {"super", "table"} => item = 1,
         \A l \in Range(locals) \cup results : IsRef(g, l.type, l.value)
  PROVE  LET new == Changed(frame, stage, item, locals, results)
         IN  /\ FrameFine(g, new) /\ SameCall(new, frame)
             /\ new.class = frame.class /\ new.this = frame.this /\ new.stage = stage
             /\ new.super = frame.super /\ new.item = item
<1> DEFINE new == Changed(frame, stage, item, locals, results)
<1>1. FrameFine(g, frame) /\ frame \in FrameSet
  BY FrameKept DEF FrameFine
<1>2. /\ new \in FrameSet /\ new.class = frame.class /\ new.this = frame.this /\ new.stage = stage
      /\ new.super = frame.super /\ new.item = item /\ new.locals = locals /\ new.results = results
  BY <1>1 DEF FrameSet, Changed
<1>. HIDE DEF new
<1>3. SameCall(new, frame)
  BY <1>2 DEF SameCall
<1>4. FrameFine(g, new)
  BY <1>1, <1>2 DEF FrameFine
<1>. QED BY <1>2, <1>3, <1>4 DEF new

\* What the frames hold.
LEMMA HeldFine ==
  ASSUME NEW h, NEW g, Extends(h, g), NEW frame, FrameFine(h, frame)
  PROVE  /\ frame \in FrameSet
         /\ frame.class \in 1..Main /\ frame.this \in Nat /\ frame.item \in Nat \ {0}
         /\ frame.stage \in {"super", "table", "init", "method"} /\ frame.super \in BOOLEAN
         /\ frame.locals \in Seq(LocalSet) /\ frame.results \in SUBSET LocalSet
         /\ \A l \in Range(frame.locals) \cup frame.results : IsRef(g, l.type, l.value)
<1>1. frame \in FrameSet
  BY DEF FrameFine
<1>2. \A l \in Range(frame.locals) \cup frame.results : IsRef(g, l.type, l.value)
  BY RefKept DEF FrameFine
<1>. QED BY <1>1, <1>2 DEF FrameSet

-----------------------------------------------------------------------------
(* The actions. *)

\* A table has an entry of the class or of one of its bases: the greatest.
LEMMA EntryFine ==
  ASSUME program \in DOMAIN Programs, NEW c \in 1..Main, HasMethod(c)
  PROVE  Entry(c) \in Ancestors[c]
<1> DEFINE S == {k \in Ancestors[c] : Classes[k].method}
           D == {c - k : k \in S}
<1>1. S \subseteq 1..c /\ S # {} /\ c \in Nat
  BY AncestorsAreClasses DEF HasMethod
<1>2. PICK n \in D : \A d \in D : n <= d
  <2>1. D \in SUBSET Nat /\ D # {}
    BY <1>1
  <2>. QED BY <2>1, LeastClass
<1>3. PICK k \in S : n = c - k
  BY <1>2
<1>4. ASSUME NEW j \in S PROVE j <= k
  <2>1. n <= c - j /\ j \in 1..c /\ k \in 1..c
    BY <1>1, <1>2
  <2>. QED BY <1>1, <1>3, <2>1
<1>5. k \in Ancestors[c] /\ Classes[k].method /\ \A j \in Ancestors[c] : Classes[j].method => j <= k
  BY <1>3, <1>4
<1>. HIDE DEF S, D
<1>. QED BY <1>5 DEF Entry

LEMMA OneElement ==
  ASSUME NEW S, NEW s \in Seq(S), Len(s) = 1
  PROVE  DOMAIN s = {1} /\ s[1] \in S
<1>1. DOMAIN s = 1..1
  BY LenProperties
<1>2. 1..1 = {1}
  OBVIOUS
<1>3. s[1] \in S
  BY <1>1, <1>2, ElementOfSeq
<1>. QED BY <1>1, <1>2, <1>3

LEMMA NewInv ==
  ASSUME program \in DOMAIN Programs, Inv(heap, stack),
         NEW h, HeapFine(h), Extends(heap, h), \A o \in DOMAIN h : o \in DOMAIN heap \/ h[o].copy,
         NEW c \in 1..Main, NEW g, g = Append(h, Allocated(c)), NEW values,
         \A k \in DOMAIN Classes[c].ctor : IsRef(h, Classes[c].ctor[k], values[k])
  PROVE  Inv(g, <<Construct(c, Len(h) + 1, FALSE, values), Current>> \o Tail(stack))
<1>0. /\ HeapFine(g) /\ Extends(h, g) /\ Len(h) \in Nat
      /\ DOMAIN h = 1..Len(h) /\ DOMAIN g = 1..Len(h) + 1
      /\ g[Len(h) + 1].class = c /\ ~g[Len(h) + 1].copy /\ Len(g[Len(h) + 1].cells) = Size[c]
  <2>1. HeapFine(g) /\ Extends(h, g)
    BY AllocatedFine
  <2>2. Len(h) \in Nat /\ DOMAIN h = 1..Len(h)
    BY AllocatedFine
  <2>3. DOMAIN g = 1..Len(h) + 1
    BY AllocatedFine
  <2>4. g[Len(h) + 1].class = c
    BY AllocatedFine
  <2>5. ~g[Len(h) + 1].copy
    BY AllocatedFine
  <2>6. Len(g[Len(h) + 1].cells) = Size[c]
    BY AllocatedFine
  <2>. QED BY <2>1, <2>2, <2>3, <2>4, <2>5, <2>6
<1> DEFINE o == Len(h) + 1
           frame == Construct(c, o, FALSE, values)
<1>1. /\ HeapFine(g) /\ Extends(h, g) /\ Len(h) \in Nat
      /\ DOMAIN h = 1..Len(h) /\ DOMAIN g = 1..Len(h) + 1
      /\ g[o].class = c /\ ~g[o].copy /\ Len(g[o].cells) = Size[c]
  BY <1>0
<1>2. o \in DOMAIN g /\ \A p \in DOMAIN g : p = o \/ p \in DOMAIN h
  BY <1>1
<1>. HIDE DEF o
<1>3. /\ FrameFine(g, frame) /\ frame.class = c /\ frame.this = o /\ frame.super = FALSE
      /\ \A k \in 1..Size[c] : PendingBy(frame, o, k)
  <2>1. c \in Ancestors[g[o].class]
    BY <1>1, AncestorsAreClasses
  <2>2. \A k \in DOMAIN Classes[c].ctor : IsRef(g, Classes[c].ctor[k], values[k])
    BY <1>1, RefKept
  <2>3. FrameFine(g, frame)
    BY <1>1, <1>2, <2>1, <2>2, ConstructFine
  <2>4. frame.class = c /\ frame.this = o /\ frame.super = FALSE
    BY DEF frame, Construct, Frame
  <2>5. \A k \in 1..Size[c] : PendingBy(frame, o, k)
    BY <1>1, <1>2, <2>1, <2>2, ConstructFine
  <2>. QED BY <2>3, <2>4, <2>5
<1>. HIDE DEF frame
<1>4. Extends(heap, g)
  BY <1>1, ExtendsTransitive
<1>5. FrameFine(g, Current) /\ SameCall(Current, Head(stack))
  BY <1>4, CurrentFine, FrameKept DEF SameCall, Current
<1>6. ASSUME NEW p \in DOMAIN g
      PROVE  p \in DOMAIN heap \/ g[p].copy \/ \A k \in 1..Len(g[p].cells) : PendingBy(frame, p, k)
  <2>1. CASE p = o
    BY <1>1, <1>3, <2>1
  <2>2. CASE p \in DOMAIN h
    BY <1>1, <2>2 DEF Extends
  <2>. QED BY <1>2, <2>1, <2>2
<1>7. Inv(g, <<frame, Current>> \o Tail(stack))
  <2>1. frame.stage # "method" =>
          IF frame.super THEN /\ Current.this = frame.this /\ Current.stage = "table"
                              /\ Classes[Current.class].base = frame.class
                         ELSE frame.class = g[frame.this].class
    BY <1>1, <1>3
  <2>2. \A p \in DOMAIN heap : ~heap[p].copy => \A k \in 1..Len(heap[p].cells) :
          PendingBy(Head(stack), p, k) => PendingBy(frame, p, k) \/ PendingBy(Current, p, k)
    BY DEF Current
  <2>. QED BY <1>1, <1>3, <1>4, <1>5, <1>6, <2>1, <2>2, EnterInv
<1>. QED BY <1>7 DEF o, frame

LEMMA NewStep ==
  ASSUME program \in DOMAIN Programs, Inv(heap, stack), NEW c \in 1..Main, New(c)
  PROVE  Inv(heap', stack')
<1>1. /\ Classes[c].ctor = <<>> /\ heap' = Append(heap, Allocated(c))
      /\ stack' = <<Construct(c, Len(heap) + 1, FALSE, <<>>), Current>> \o Tail(stack)
  BY DEF New, Enter
<1>2. HeapFine(heap) /\ Extends(heap, heap)
  BY ExtendsItself DEF Inv
<1>3. \A k \in DOMAIN Classes[c].ctor : IsRef(heap, Classes[c].ctor[k], <<>>[k])
  BY <1>1
<1>4. Inv(heap', <<Construct(c, Len(heap) + 1, FALSE, <<>>), Current>> \o Tail(stack))
  BY <1>1, <1>2, <1>3, NewInv
<1>. QED BY <1>1, <1>4

LEMMA NewWithStep ==
  ASSUME program \in DOMAIN Programs, Inv(heap, stack), NEW c \in 1..Main, NEW e \in Expressions,
         NewWith(c, e)
  PROVE  Inv(heap', stack')
<1> DEFINE h == HeapWith(e)
           values == <<Stored(e)>>
<1>1. /\ Len(Classes[c].ctor) = 1 /\ IsSubtype(e.type, Classes[c].ctor[1]) /\ Storable(e)
      /\ heap' = Append(h, Allocated(c))
      /\ stack' = <<Construct(c, Len(h) + 1, FALSE, values), Current>> \o Tail(stack)
  BY DEF NewWith, Enter
<1>2. /\ HeapFine(h) /\ Extends(heap, h) /\ e.type \in 0..Main /\ IsRef(h, e.type, Stored(e))
      /\ \A o \in DOMAIN h : o \in DOMAIN heap \/ h[o].copy
  BY <1>1, StoredFine
<1>3. \A k \in DOMAIN Classes[c].ctor : IsRef(h, Classes[c].ctor[k], values[k])
  <2>1. Classes[c].ctor \in Seq(0..Main)
    BY ProgramFacts
  <2>2. DOMAIN Classes[c].ctor = {1} /\ Classes[c].ctor[1] \in 0..Main
    BY <1>1, <2>1, OneElement
  <2>. HIDE DEF h
  <2>3. IsRef(h, Classes[c].ctor[1], Stored(e))
    BY <1>1, <1>2, <2>2, RefSubtype
  <2>. QED BY <2>2, <2>3
<1>. HIDE DEF h, values
<1>4. Inv(heap', <<Construct(c, Len(h) + 1, FALSE, values), Current>> \o Tail(stack))
  BY <1>1, <1>2, <1>3, NewInv
<1>. QED BY <1>1, <1>4

LEMMA CallStep ==
  ASSUME program \in DOMAIN Programs, Inv(heap, stack), NEW r \in Expressions, NEW e \in Expressions,
         Call(r, e)
  PROVE  Inv(heap', stack')
<1> DEFINE g == HeapWith(e)
           o == Eval(r)
           d == heap[o].cells[1]
           frame == Invoke(Entry(d), o, Stored(e))
<1>1. /\ r.type # NumberType /\ Loaded(r) /\ d # 0
      /\ IsSubtype(e.type, Param) /\ Storable(e)
      /\ heap' = g /\ stack' = <<frame, Current>> \o Tail(stack)
  BY DEF Call, Enter, Cells
<1>2. HeapFine(heap) /\ Main \in Nat /\ Param \in 0..Main
  BY ProgramFacts DEF Inv
<1>3. r.type \in 1..Main /\ IsRef(heap, r.type, o)
  <2>1. r.type \in 0..Main /\ IsRef(heap, r.type, Eval(r))
    BY <1>1, Evaluated
  <2>. QED BY <1>1, <1>2, <2>1 DEF NumberType
<1>4. /\ HeapFine(g) /\ Extends(heap, g) /\ e.type \in 0..Main /\ IsRef(g, e.type, Stored(e))
      /\ \A p \in DOMAIN g : p \in DOMAIN heap \/ g[p].copy
  BY <1>1, StoredFine
<1>. HIDE DEF g, o
<1>5. o \in DOMAIN heap
  BY <1>2, <1>3, RefShape
<1>6. d \in 1..Main /\ HasMethod(d) /\ (heap[o].copy \/ d \in Ancestors[heap[o].class])
  <2>1. ObjectFine(heap, o)
    BY <1>2, <1>5 DEF HeapFine
  <2>. QED BY <1>1, <1>2, <2>1 DEF ObjectFine
<1>. HIDE DEF d
<1>7. Entry(d) \in Ancestors[d] /\ Entry(d) \in 1..Main
  BY <1>6, EntryFine, AncestorsTransitive
<1>8. IsRef(heap, Entry(d), o)
  <2>1. Entry(d) # NumberType
    BY <1>7 DEF NumberType
  <2>2. heap[o].class \in 1..Main
    BY <1>2, <1>5, ObjectTyped
  <2>3. CASE heap[o].copy
    BY <1>5, <1>7, <2>1, <2>3 DEF IsRef, d
  <2>4. CASE d \in Ancestors[heap[o].class]
    <3>1. Entry(d) \in Ancestors[heap[o].class]
      BY <1>7, <2>2, <2>4, AncestorsTransitive
    <3>. QED BY <1>5, <2>1, <3>1 DEF IsRef
  <2>. QED BY <1>6, <2>3, <2>4
<1>9. FrameFine(g, frame) /\ frame.stage = "method"
  <2>1. IsRef(g, Entry(d), o)
    BY <1>4, <1>8, RefKept
  <2>2. IsRef(g, Param, Stored(e))
    BY <1>1, <1>2, <1>4, RefSubtype
  <2>. QED BY <1>4, <1>7, <2>1, <2>2, InvokeFine
<1>. HIDE DEF frame
<1>10. FrameFine(g, Current) /\ SameCall(Current, Head(stack))
  BY <1>4, CurrentFine, FrameKept DEF SameCall, Current
<1>11. \A p \in DOMAIN heap : ~heap[p].copy => \A k \in 1..Len(heap[p].cells) :
         PendingBy(Head(stack), p, k) => PendingBy(frame, p, k) \/ PendingBy(Current, p, k)
  BY DEF Current
<1>12. Inv(g, <<frame, Current>> \o Tail(stack))
  BY <1>4, <1>9, <1>10, <1>11, EnterInv
<1>. QED BY <1>1, <1>12

LEMMA SuperInv ==
  ASSUME program \in DOMAIN Programs, Inv(heap, stack), NEW values, Super(values),
         LET ctor == Classes[Classes[Current.class].base].ctor
         IN  \A k \in DOMAIN ctor : IsRef(heap, ctor[k], values[k])
  PROVE  Inv(heap', stack')
<1> DEFINE c == Current.class
           base == Classes[c].base
           o == Current.this
           frame == Construct(base, o, TRUE, values)
           caller == [Settled EXCEPT !.stage = "table"]
<1>1. /\ Current.stage = "super" /\ heap' = heap
      /\ stack' = <<frame, caller>> \o Tail(stack)
  BY DEF Super, Enter
<1>2. /\ HeapFine(heap) /\ Extends(heap, heap) /\ FrameFine(heap, Current) /\ Current = Head(stack)
  BY ExtendsItself, CurrentFine DEF Inv, Current
<1>3. /\ Current \in FrameSet /\ c \in 1..Main /\ Current.item \in Nat \ {0}
      /\ Current.locals \in Seq(LocalSet)
      /\ \A l \in Range(Current.locals) : IsRef(heap, l.type, l.value)
  BY <1>2, HeldFine
<1>4. /\ o \in DOMAIN heap /\ ~heap[o].copy /\ c \in Ancestors[heap[o].class]
      /\ base # Builtin /\ Current.item = 1
  BY <1>1, <1>2 DEF FrameFine
<1>5. base \in 1..Main /\ base \in Ancestors[heap[o].class]
  <2>1. Main \in Nat /\ base \in 0..c - 1
    BY <1>3, ProgramFacts
  <2>2. base \in 1..Main
    BY <1>3, <1>4, <2>1 DEF Builtin
  <2>3. base \in Ancestors[base] /\ Ancestors[c] = {c} \cup Ancestors[base]
    BY <1>3, <2>2, AncestorsAreClasses, AncestorsDef
  <2>4. heap[o].class \in 1..Main
    BY <1>2, <1>4, ObjectTyped
  <2>5. Ancestors[c] \subseteq Ancestors[heap[o].class]
    BY <1>4, <2>4, AncestorsTransitive
  <2>. QED BY <2>2, <2>3, <2>5
<1>6. frame.class = base /\ frame.this = o /\ frame.super = TRUE
  BY DEF Construct, Frame
<1>7. FrameFine(heap, frame)
  BY <1>2, <1>4, <1>5, ConstructFine
<1>8. \A k \in 1..Size[base] : PendingBy(frame, o, k)
  BY <1>2, <1>4, <1>5, ConstructFine
<1>9. caller = Changed(Current, "table", Current.item, Current.locals, {})
  BY <1>3, ChangedForms DEF Settled
<1>10. /\ FrameFine(heap, caller) /\ SameCall(caller, Current)
       /\ caller.class = c /\ caller.this = o /\ caller.stage = "table"
  <2>1. FrameFine(heap, caller)
    <3>1. /\ "table" \in {"super", "table", "init", "method"} /\ {} \in SUBSET LocalSet
          /\ "table" = "method" <=> Current.stage = "method"
          /\ "table" = "super" => Current.stage = "super"
          /\ "table" \in {"super", "table"} => Current.item = 1
          /\ \A l \in Range(Current.locals) \cup {} : IsRef(heap, l.type, l.value)
      BY <1>1, <1>3, <1>4
    <3>2. FrameFine(heap, Changed(Current, "table", Current.item, Current.locals, {}))
      BY <1>2, <1>3, <3>1, ChangedFine
    <3>. QED BY <1>9, <3>2
  <2>2. /\ caller.class = c /\ caller.this = o /\ caller.stage = "table"
        /\ caller.super = Current.super
    BY <1>9 DEF Changed
  <2>. QED BY <1>1, <2>1, <2>2 DEF SameCall
<1>. HIDE DEF frame, caller, base
<1>11. ASSUME NEW p \in DOMAIN heap, NEW k \in 1..Len(heap[p].cells), PendingBy(Current, p, k)
       PROVE  PendingBy(frame, p, k) \/ PendingBy(caller, p, k)
  <2>1. p = o /\ k <= Size[c] /\ k \in Nat /\ k >= 1
    <3>1. Len(heap[p].cells) \in Nat
      BY <1>2, ObjectTyped
    <3>. QED BY <1>1, <1>11, <3>1 DEF PendingBy
  <2>2. Size[base] \in Nat /\ Size[c] \in Nat
    BY <1>3, <1>5, SizesGrow
  <2>3. CASE k <= Size[base]
    BY <1>8, <2>1, <2>2, <2>3
  <2>4. CASE k > Size[base]
    <3>1. Own(c, k)
      BY <2>1, <2>2, <2>4 DEF Own, base
    <3>. QED BY <1>10, <2>1, <3>1 DEF PendingBy
  <2>. QED BY <2>1, <2>2, <2>3, <2>4
<1>12. IF frame.super THEN /\ caller.this = frame.this /\ caller.stage = "table"
                           /\ Classes[caller.class].base = frame.class
                      ELSE frame.class = heap[frame.this].class
  BY <1>6, <1>10 DEF base
<1>13. Inv(heap, <<frame, caller>> \o Tail(stack))
  BY <1>2, <1>7, <1>10, <1>11, <1>12, EnterInv
<1>. QED BY <1>1, <1>13

LEMMA SuperStep ==
  ASSUME program \in DOMAIN Programs, Inv(heap, stack),
         SuperPlain \/ \E e \in Expressions : SuperWith(e)
  PROVE  Inv(heap', stack')
<1> DEFINE ctor == Classes[Classes[Current.class].base].ctor
<1>1. CASE SuperPlain
  <2>1. Super(<<>>) /\ \A k \in DOMAIN ctor : IsRef(heap, ctor[k], <<>>[k])
    BY <1>1 DEF SuperPlain
  <2>. QED BY <2>1, SuperInv
<1>2. ASSUME NEW e \in Expressions, SuperWith(e) PROVE Inv(heap', stack')
  <2>1. /\ Loaded(e) /\ Current.stage = "super" /\ Len(ctor) = 1 /\ IsSubtype(e.type, ctor[1])
        /\ Super(<<Eval(e)>>)
    BY <1>2 DEF SuperWith
  <2>2. HeapFine(heap) /\ e.type \in 0..Main /\ IsRef(heap, e.type, Eval(e))
    BY <2>1, Evaluated DEF Inv
  <2>3. ctor \in Seq(0..Main)
    <3>1. FrameFine(heap, Current) /\ Current.class \in 1..Main
      BY CurrentFine DEF FrameSet
    <3>2. Classes[Current.class].base # Builtin
      BY <2>1, <3>1 DEF FrameFine
    <3>3. Main \in Nat /\ Classes[Current.class].base \in 0..Current.class - 1
      BY <3>1, ProgramFacts
    <3>4. Classes[Current.class].base \in 1..Main
      BY <3>1, <3>2, <3>3 DEF Builtin
    <3>. QED BY <3>4, ProgramFacts
  <2>. HIDE DEF ctor
  <2>4. DOMAIN ctor = {1} /\ ctor[1] \in 0..Main
    BY <2>1, <2>3, OneElement
  <2>5. IsRef(heap, ctor[1], Eval(e))
    BY <2>1, <2>2, <2>4, RefSubtype
  <2>6. \A k \in DOMAIN ctor : IsRef(heap, ctor[k], <<Eval(e)>>[k])
    BY <2>4, <2>5
  <2>. QED BY <2>1, <2>6, SuperInv DEF ctor
<1>. QED BY <1>1, <1>2

LEMMA StoreTableStep ==
  ASSUME program \in DOMAIN Programs, Inv(heap, stack), StoreTable
  PROVE  Inv(heap', stack')
<1> DEFINE c == Current.class
           o == Current.this
           frame == [Current EXCEPT !.stage = "init"]
           g == IF HasMethod(c) THEN Update(heap, o, 1, c) ELSE heap
<1>1. /\ Current.stage = "table" /\ heap' = g /\ stack' = <<frame>> \o Tail(stack)
  BY DEF StoreTable, Step, Update
<1>2. /\ HeapFine(heap) /\ FrameFine(heap, Current) /\ Current = Head(stack)
      /\ Current = stack[1] /\ 1 \in DOMAIN stack
  BY CurrentFine DEF Inv, Current
<1>3. /\ o \in DOMAIN heap /\ ~heap[o].copy /\ c \in Ancestors[heap[o].class] /\ Current.item = 1
  BY <1>1, <1>2 DEF FrameFine
<1>4. /\ HeapFine(g) /\ Extends(heap, g) /\ DOMAIN g = DOMAIN heap
      /\ HasMethod(c) => g[o].cells[1] # 0
  <2>1. CASE HasMethod(c)
    <3>1. g = Update(heap, o, 1, c)
      BY <2>1
    <3>. HIDE DEF g
    <3>. QED BY <1>2, <1>3, <2>1, <3>1, TableFine
  <2>2. CASE ~HasMethod(c)
    BY <1>2, <2>2, ExtendsItself
  <2>. QED BY <2>1, <2>2
<1>. HIDE DEF g
<1>5. /\ Current \in FrameSet /\ c \in 1..Main /\ Current.item \in Nat \ {0}
      /\ Current.locals \in Seq(LocalSet) /\ Current.results \in SUBSET LocalSet
      /\ \A l \in Range(Current.locals) \cup Current.results : IsRef(g, l.type, l.value)
  BY <1>2, <1>4, HeldFine
<1>6. frame = Changed(Current, "init", Current.item, Current.locals, Current.results)
  BY <1>5, ChangedForms
<1>7. /\ FrameFine(g, frame) /\ SameCall(frame, Current)
      /\ frame.class = c /\ frame.this = o /\ frame.stage = "init" /\ frame.item = 1
  <2>1. FrameFine(g, frame)
    <3>1. /\ "init" \in {"super", "table", "init", "method"}
          /\ "init" = "method" <=> Current.stage = "method"
          /\ "init" = "super" => Current.stage = "super"
          /\ "init" \in {"super", "table"} => Current.item = 1
      BY <1>1, <1>3
    <3>2. FrameFine(g, Changed(Current, "init", Current.item, Current.locals, Current.results))
      BY <1>2, <1>4, <1>5, <3>1, ChangedFine
    <3>. QED BY <1>6, <3>2
  <2>2. /\ frame.class = c /\ frame.this = o /\ frame.stage = "init" /\ frame.item = 1
        /\ frame.super = Current.super
    BY <1>3, <1>6 DEF Changed
  <2>. QED BY <1>1, <2>1, <2>2 DEF SameCall
<1>. HIDE DEF frame
<1>8. ASSUME NEW p \in DOMAIN heap, NEW k \in 1..Len(heap[p].cells), PendingBy(Current, p, k),
             g[p].cells[k] = 0
      PROVE  \/ PendingBy(frame, p, k) \/ (2 \in DOMAIN stack /\ PendingBy(stack[2], p, k))
             \/ k = 1 /\ ~HasMethod(heap[p].class)
  <2>1. p = o /\ (k = 1 \/ Own(c, k))
    BY <1>1, <1>8 DEF PendingBy
  <2>2. CASE Own(c, k)
    <3>1. Size[Classes[c].base] \in Nat /\ Size[c] \in Nat
      BY <1>5, SizesGrow
    <3>2. k >= FieldCell(<<c, 1>>)
      BY <2>2, <3>1 DEF Own, FieldCell
    <3>. QED BY <1>7, <2>1, <2>2, <3>2 DEF PendingBy
  <2>3. CASE k = 1
    <3>1. ~HasMethod(c)
      BY <1>4, <1>8, <2>1, <2>3
    <3>2. Linked(heap, stack, 1)
      BY <1>2 DEF Inv
    <3>3. CASE Current.super
      <4>1. 2 \in DOMAIN stack /\ stack[2].this = o /\ stack[2].stage = "table"
        <5>1. 1 + 1 \in DOMAIN stack /\ stack[1 + 1].this = o /\ stack[1 + 1].stage = "table"
          BY <1>1, <1>2, <3>2, <3>3 DEF Linked
        <5>. QED BY <5>1
      <4>. QED BY <2>1, <2>3, <4>1 DEF PendingBy
    <3>4. CASE ~Current.super
      <4>1. c = heap[o].class
        BY <1>1, <1>2, <3>2, <3>4 DEF Linked
      <4>. QED BY <2>1, <2>3, <3>1, <4>1
    <3>. QED BY <3>3, <3>4
  <2>. QED BY <2>1, <2>2, <2>3
<1>9. Inv(g, <<frame>> \o Tail(stack))
  BY <1>2, <1>4, <1>7, <1>8, StepInv
<1>. QED BY <1>1, <1>9

\* A step of a body: the same call goes on, with other locals.
LEMMA BodyInv ==
  ASSUME program \in DOMAIN Programs, Inv(heap, stack),
         NEW g, HeapFine(g), Extends(heap, g), \A o \in DOMAIN g : o \in DOMAIN heap \/ g[o].copy,
         NEW locals \in Seq(LocalSet), \A l \in Range(locals) : IsRef(g, l.type, l.value)
  PROVE  Inv(g, <<Changed(Current, Current.stage, Current.item, locals, {})>> \o Tail(stack))
<1> DEFINE frame == Changed(Current, Current.stage, Current.item, locals, {})
<1>1. FrameFine(heap, Current) /\ Current = Head(stack)
  BY CurrentFine DEF Current
<1>2. /\ Current.stage \in {"super", "table", "init", "method"} /\ Current.item \in Nat \ {0}
      /\ {} \in SUBSET LocalSet /\ \A l \in Range(locals) \cup {} : IsRef(g, l.type, l.value)
      /\ Current.stage \in {"super", "table"} => Current.item = 1
  <2>1. Current.stage \in {"super", "table"} => Current.item = 1
    BY <1>1 DEF FrameFine
  <2>2. Current.stage \in {"super", "table", "init", "method"} /\ Current.item \in Nat \ {0}
    BY <1>1, ExtendsItself, HeldFine
  <2>. QED BY <2>1, <2>2
<1>3. FrameFine(g, frame)
  BY <1>1, <1>2, ChangedFine
<1>4. /\ frame.class = Current.class /\ frame.this = Current.this /\ frame.stage = Current.stage
      /\ frame.super = Current.super /\ frame.item = Current.item
  BY DEF Changed
<1>. HIDE DEF frame
<1>5. SameCall(frame, Current)
  BY <1>4 DEF SameCall
<1>6. ASSUME NEW o \in DOMAIN heap, NEW k \in 1..Len(heap[o].cells), PendingBy(Current, o, k)
      PROVE  PendingBy(frame, o, k)
  BY <1>4, <1>6 DEF PendingBy
<1>7. Inv(g, <<frame>> \o Tail(stack))
  BY <1>1, <1>3, <1>5, <1>6, StepInv
<1>. QED BY <1>7 DEF frame

LEMMA DeclareStep ==
  ASSUME program \in DOMAIN Programs, Inv(heap, stack), NEW e \in Expressions, Declare(e)
  PROVE  Inv(heap', stack')
<1> DEFINE g == HeapWith(e)
           local == Local(e.type, Stored(e))
           locals == Append(Current.locals, local)
<1>1. /\ Storable(e) /\ heap' = g
      /\ stack' = <<[Settled EXCEPT !.locals = Append(@, local)]>> \o Tail(stack)
  BY DEF Declare, Step
<1>2. /\ HeapFine(g) /\ Extends(heap, g) /\ e.type \in 0..Main /\ IsRef(g, e.type, Stored(e))
      /\ \A o \in DOMAIN g : o \in DOMAIN heap \/ g[o].copy
  BY <1>1, StoredFine
<1>3. /\ Current \in FrameSet /\ Current.locals \in Seq(LocalSet)
      /\ \A l \in Range(Current.locals) : IsRef(g, l.type, l.value)
  BY <1>2, CurrentFine, HeldFine
<1>4. [Settled EXCEPT !.locals = Append(@, local)] = Changed(Current, Current.stage, Current.item, locals, {})
  <2>1. Settled.locals = Current.locals
    BY <1>3 DEF Settled, FrameSet
  <2>2. [Settled EXCEPT !.locals = Append(@, local)] = [Settled EXCEPT !.locals = locals]
    BY <2>1
  <2>. QED BY <1>3, <2>2, ChangedForms DEF Settled
<1>. HIDE DEF g
<1>5. local \in LocalSet /\ local.type = e.type /\ local.value = Stored(e)
  BY <1>2, RefValue DEF Local, LocalSet
<1>. HIDE DEF local
<1>6. locals \in Seq(LocalSet) /\ \A l \in Range(locals) : l = local \/ l \in Range(Current.locals)
  <2>1. /\ locals \in Seq(LocalSet) /\ Len(locals) = Len(Current.locals) + 1
        /\ \A k \in 1..Len(Current.locals) : locals[k] = Current.locals[k]
        /\ locals[Len(Current.locals) + 1] = local
        /\ Len(Current.locals) \in Nat /\ DOMAIN Current.locals = 1..Len(Current.locals)
    BY <1>3, <1>5, AppendProperties, LenProperties
  <2>2. DOMAIN locals = 1..Len(Current.locals) + 1
    BY <2>1, LenProperties
  <2>. HIDE DEF locals
  <2>3. ASSUME NEW k \in DOMAIN locals PROVE locals[k] = local \/ locals[k] \in Range(Current.locals)
    <3>1. CASE k = Len(Current.locals) + 1
      BY <2>1, <3>1
    <3>2. CASE k \in DOMAIN Current.locals
      BY <2>1, <3>2 DEF Range
    <3>. QED BY <2>1, <2>2, <3>1, <3>2
  <2>. QED BY <2>1, <2>3 DEF Range
<1>. HIDE DEF locals
<1>7. \A l \in Range(locals) : IsRef(g, l.type, l.value)
  BY <1>2, <1>3, <1>5, <1>6
<1>8. Inv(g, <<Changed(Current, Current.stage, Current.item, locals, {})>> \o Tail(stack))
  BY <1>2, <1>6, <1>7, BodyInv
<1>. QED BY <1>1, <1>4, <1>8

LEMMA AssignLocalStep ==
  ASSUME program \in DOMAIN Programs, Inv(heap, stack), NEW e \in Expressions,
         NEW k \in DOMAIN Current.locals, AssignLocal(k, e)
  PROVE  Inv(heap', stack')
<1> DEFINE g == HeapWith(e)
           type == Current.locals[k].type
           local == [Current.locals[k] EXCEPT !.value = Stored(e)]
           locals == [Current.locals EXCEPT ![k] = local]
<1>1. /\ Storable(e) /\ IsSubtype(e.type, type) /\ heap' = g
      /\ stack' = <<[Settled EXCEPT !.locals[k].value = Stored(e)]>> \o Tail(stack)
  BY DEF AssignLocal, Step
<1>2. /\ HeapFine(g) /\ Extends(heap, g) /\ e.type \in 0..Main /\ IsRef(g, e.type, Stored(e))
      /\ \A o \in DOMAIN g : o \in DOMAIN heap \/ g[o].copy
  BY <1>1, StoredFine
<1>3. /\ Current \in FrameSet /\ Current.locals \in Seq(LocalSet)
      /\ \A l \in Range(Current.locals) : IsRef(g, l.type, l.value)
  BY <1>2, CurrentFine, HeldFine
<1>4. [Settled EXCEPT !.locals[k].value = Stored(e)] =
        Changed(Current, Current.stage, Current.item, locals, {})
  <2>1. Settled.locals = Current.locals
    BY <1>3 DEF Settled, FrameSet
  <2>2. [Settled EXCEPT !.locals[k].value = Stored(e)] = [Settled EXCEPT !.locals = locals]
    BY <2>1
  <2>. QED BY <1>3, <2>2, ChangedForms DEF Settled
<1>. HIDE DEF g
<1>5. Current.locals[k] \in LocalSet
  BY <1>3, ElementOfSeq, LenProperties
<1>6. type \in 0..Main /\ IsRef(g, type, Stored(e)) /\ Stored(e) \in Nat
  <2>1. type \in 0..Main
    BY <1>5 DEF LocalSet
  <2>. HIDE DEF type
  <2>2. IsRef(g, type, Stored(e))
    BY <1>1, <1>2, <2>1, RefSubtype
  <2>. QED BY <1>2, <2>1, <2>2, RefValue
<1>7. local \in LocalSet /\ local.type = type /\ local.value = Stored(e)
  BY <1>5, <1>6 DEF LocalSet
<1>. HIDE DEF local, type
<1>8. locals \in Seq(LocalSet) /\ \A l \in Range(locals) : l = local \/ l \in Range(Current.locals)
  <2>1. locals \in Seq(LocalSet)
    BY <1>3, <1>7, ExceptSeq, LenProperties
  <2>2. ASSUME NEW j \in DOMAIN locals PROVE locals[j] = local \/ locals[j] \in Range(Current.locals)
    BY DEF Range
  <2>. HIDE DEF locals
  <2>. QED BY <2>1, <2>2 DEF Range
<1>. HIDE DEF locals
<1>9. \A l \in Range(locals) : IsRef(g, l.type, l.value)
  BY <1>3, <1>6, <1>7, <1>8
<1>10. Inv(g, <<Changed(Current, Current.stage, Current.item, locals, {})>> \o Tail(stack))
  BY <1>2, <1>8, <1>9, BodyInv
<1>. QED BY <1>1, <1>4, <1>10

LEMMA AssignFieldStep ==
  ASSUME program \in DOMAIN Programs, Inv(heap, stack), NEW e \in Expressions,
         NEW f \in Field(Current.class), AssignField(f, e)
  PROVE  Inv(heap', stack')
<1> DEFINE h == HeapWith(e)
           o == Current.this
           g == Update(h, o, FieldCell(f), Stored(e))
<1>1. /\ InBody /\ Storable(e) /\ IsSubtype(e.type, FieldType(f))
      /\ FieldCell(f) <= Len(heap[o].cells)
      /\ heap' = g /\ stack' = <<Settled>> \o Tail(stack)
  BY DEF AssignField, Step, Update, Inside, Cells
<1>2. /\ HeapFine(h) /\ Extends(heap, h) /\ e.type \in 0..Main /\ IsRef(h, e.type, Stored(e))
      /\ \A p \in DOMAIN h : p \in DOMAIN heap \/ h[p].copy
  BY <1>1, StoredFine
<1>3. /\ FrameFine(heap, Current) /\ Current \in FrameSet /\ Current.class \in 1..Main
      /\ Current.class # NumberType
  <2>1. FrameFine(heap, Current) /\ Current \in FrameSet /\ Current.class \in 1..Main
    BY CurrentFine DEF FrameSet
  <2>2. Main \in Nat
    BY ProgramFacts
  <2>. QED BY <2>1, <2>2 DEF NumberType
<1>4. IsRef(heap, Current.class, o) /\ o \in DOMAIN heap
  <2>1. IsRef(heap, Current.class, o)
    BY <1>3 DEF FrameFine, IsRef
  <2>. QED BY <1>3, <2>1 DEF IsRef
<1>5. Settled = Changed(Current, Current.stage, Current.item, Current.locals, {})
  BY <1>3, ChangedForms DEF Settled
<1>. HIDE DEF h
<1>6. IsRef(h, Current.class, o) /\ FieldCell(f) <= Len(h[o].cells)
  BY <1>1, <1>2, <1>4, RefKept DEF Extends
<1>7. IsRef(h, FieldType(f), Stored(e))
  <2>1. FieldType(f) \in 0..Main
    BY <1>3, FieldPlace
  <2>. QED BY <1>1, <1>2, <2>1, RefSubtype
<1>8. HeapFine(g) /\ Extends(h, g) /\ DOMAIN g = DOMAIN h
  BY <1>2, <1>3, <1>6, <1>7, StoreFine
<1>. HIDE DEF g
<1>9. Extends(heap, g) /\ \A p \in DOMAIN g : p \in DOMAIN heap \/ g[p].copy
  <2>1. Extends(heap, g)
    BY <1>2, <1>8, ExtendsTransitive
  <2>. QED BY <1>2, <1>8, <2>1 DEF Extends
<1>10. /\ Current.locals \in Seq(LocalSet)
       /\ \A l \in Range(Current.locals) : IsRef(g, l.type, l.value)
  BY <1>3, <1>9, HeldFine
<1>11. Inv(g, <<Changed(Current, Current.stage, Current.item, Current.locals, {})>> \o Tail(stack))
  BY <1>8, <1>9, <1>10, BodyInv
<1>. QED BY <1>1, <1>5, <1>11

LEMMA InitFieldStep ==
  ASSUME program \in DOMAIN Programs, Inv(heap, stack), NEW e \in Expressions, InitField(e)
  PROVE  Inv(heap', stack')
<1> DEFINE c == Current.class
           o == Current.this
           f == <<c, Current.item>>
           g == Update(heap, o, FieldCell(f), Eval(e))
           frame == [Settled EXCEPT !.item = @ + 1]
<1>1. /\ Current.stage = "init" /\ Current.item <= Len(Classes[c].fields)
      /\ e.type = FieldType(f) /\ Loaded(e)
      /\ heap' = g /\ stack' = <<frame>> \o Tail(stack)
  BY DEF InitField, FieldsLeft, Step, Update
<1>2. HeapFine(heap) /\ FrameFine(heap, Current) /\ Current = Head(stack)
  BY CurrentFine DEF Inv, Current
<1>3. /\ Current \in FrameSet /\ c \in 1..Main /\ Current.item \in Nat \ {0}
      /\ Current.locals \in Seq(LocalSet)
  BY <1>2, ExtendsItself, HeldFine
<1>4. /\ o \in DOMAIN heap /\ ~heap[o].copy /\ c \in Ancestors[heap[o].class]
  BY <1>1, <1>2 DEF FrameFine
<1>5. f \in Field(c) /\ c \in Ancestors[c]
  <2>1. Classes[c].fields \in Seq(0..Main) /\ c \in Ancestors[c]
    BY <1>3, ProgramFacts, AncestorsAreClasses
  <2>2. Current.item \in DOMAIN Classes[c].fields
    <3>1. Len(Classes[c].fields) \in Nat /\ DOMAIN Classes[c].fields = 1..Len(Classes[c].fields)
      BY <2>1, LenProperties
    <3>. QED BY <1>1, <1>3, <3>1
  <2>. QED BY <2>1, <2>2 DEF Field
<1>6. /\ heap[o].class \in 1..Main /\ FieldCell(f) <= Len(heap[o].cells) /\ IsRef(heap, c, o)
      /\ Size[Classes[c].base] \in Nat /\ FieldCell(f) = Size[Classes[c].base] + Current.item
  <2>1. heap[o].class \in 1..Main /\ Len(heap[o].cells) = Size[heap[o].class]
    BY <1>2, <1>4, ObjectTyped
  <2>2. f \in Field(heap[o].class)
    BY <1>4, FieldOf, <1>5
  <2>3. FieldCell(f) <= Size[heap[o].class]
    BY <2>1, <2>2, FieldPlace
  <2>4. Size[Classes[c].base] \in Nat
    BY <1>3, SizesGrow
  <2>5. c # NumberType
    BY <1>3, ProgramFacts DEF NumberType
  <2>. QED BY <1>4, <2>1, <2>3, <2>4, <2>5 DEF IsRef, FieldCell
<1>7. IsRef(heap, FieldType(f), Eval(e))
  BY <1>1, Evaluated
<1>8. HeapFine(g) /\ Extends(heap, g) /\ DOMAIN g = DOMAIN heap /\ g[o].cells[FieldCell(f)] # 0
  <2>. HIDE DEF f
  <2>. QED BY <1>2, <1>3, <1>5, <1>6, <1>7, StoreFine
<1>. HIDE DEF g
<1>9. frame = Changed(Current, Current.stage, Current.item + 1, Current.locals, {})
  <2>1. Settled.item = Current.item
    BY <1>3 DEF Settled, FrameSet
  <2>2. frame = [Settled EXCEPT !.item = Current.item + 1]
    BY <2>1
  <2>. HIDE DEF frame
  <2>. QED BY <1>3, <2>2, ChangedForms DEF Settled
<1>. HIDE DEF frame
<1>10. FrameFine(g, frame)
  <2>1. /\ Current.stage \in {"super", "table", "init", "method"} /\ {} \in SUBSET LocalSet
        /\ Current.stage \in {"super", "table"} => Current.item + 1 = 1
        /\ Current.item + 1 \in Nat \ {0}
        /\ \A l \in Range(Current.locals) \cup {} : IsRef(g, l.type, l.value)
    <3>1. \A l \in Range(Current.locals) : IsRef(g, l.type, l.value)
      BY <1>2, <1>8, HeldFine
    <3>. QED BY <1>1, <1>3, <3>1
  <2>2. FrameFine(g, Changed(Current, Current.stage, Current.item + 1, Current.locals, {}))
    BY <1>2, <1>3, <1>8, <2>1, ChangedFine
  <2>. QED BY <1>9, <2>2
<1>11. /\ frame.class = c /\ frame.this = o /\ frame.stage = "init" /\ frame.item = Current.item + 1
       /\ SameCall(frame, Current)
  BY <1>1, <1>9 DEF Changed, SameCall
<1>12. ASSUME NEW p \in DOMAIN heap, NEW k \in 1..Len(heap[p].cells), PendingBy(Current, p, k),
              g[p].cells[k] = 0
       PROVE  PendingBy(frame, p, k)
  <2>1. p = o /\ Own(c, k) /\ k >= FieldCell(f) /\ k \in Nat
    <3>1. Len(heap[p].cells) \in Nat
      BY <1>2, ObjectTyped
    <3>. QED BY <1>1, <1>12, <3>1 DEF PendingBy
  <2>2. k # FieldCell(f)
    BY <1>8, <1>12, <2>1
  <2>3. k >= FieldCell(<<c, Current.item + 1>>)
    <3>1. FieldCell(<<c, Current.item + 1>>) = Size[Classes[c].base] + (Current.item + 1)
      BY DEF FieldCell
    <3>2. k >= Size[Classes[c].base] + Current.item /\ k # Size[Classes[c].base] + Current.item
      BY <1>6, <2>1, <2>2
    <3>3. \A m, i \in Nat : k >= m + i /\ k # m + i => k >= m + (i + 1)
      BY <2>1
    <3>. HIDE DEF f, c
    <3>. QED BY <1>3, <1>6, <3>1, <3>2, <3>3
  <2>. QED BY <1>11, <2>1, <2>3 DEF PendingBy
<1>13. Inv(g, <<frame>> \o Tail(stack))
  BY <1>2, <1>8, <1>10, <1>11, <1>12, StepInv
<1>. QED BY <1>1, <1>13

\* The caller goes on, with the result or without it.
LEMMA LeaveInv ==
  ASSUME program \in DOMAIN Programs, Inv(heap, stack), 2 \in DOMAIN stack,
         NEW results \in SUBSET LocalSet, \A l \in results : IsRef(heap, l.type, l.value),
         \A o \in DOMAIN heap : ~heap[o].copy => \A k \in 1..Len(heap[o].cells) : ~PendingBy(Current, o, k)
  PROVE  Inv(heap, <<[Caller EXCEPT !.results = @ \cup results]>> \o Tail(Tail(stack)))
<1> DEFINE s == Tail(stack)
           frame == [Caller EXCEPT !.results = @ \cup results]
<1>1. Inv(heap, s) /\ Head(s) = Caller
  BY PopInv DEF Caller, Current
<1>. HIDE DEF s
<1>2. HeapFine(heap) /\ FrameFine(heap, Caller) /\ Extends(heap, heap)
  BY ExtendsItself DEF Inv, FramesFine, Caller
<1>3. /\ Caller \in FrameSet
      /\ Caller.stage \in {"super", "table", "init", "method"} /\ Caller.item \in Nat \ {0}
      /\ Caller.locals \in Seq(LocalSet) /\ Caller.results \cup results \in SUBSET LocalSet
      /\ \A l \in Range(Caller.locals) \cup (Caller.results \cup results) : IsRef(heap, l.type, l.value)
      /\ Caller.stage \in {"super", "table"} => Caller.item = 1
  <2>1. Caller.stage \in {"super", "table"} => Caller.item = 1
    BY <1>2 DEF FrameFine
  <2>2. /\ Caller \in FrameSet
        /\ Caller.stage \in {"super", "table", "init", "method"} /\ Caller.item \in Nat \ {0}
        /\ Caller.locals \in Seq(LocalSet) /\ Caller.results \in SUBSET LocalSet
        /\ \A l \in Range(Caller.locals) \cup Caller.results : IsRef(heap, l.type, l.value)
    BY <1>2, HeldFine
  <2>. QED BY <2>1, <2>2
<1>4. frame = Changed(Caller, Caller.stage, Caller.item, Caller.locals, Caller.results \cup results)
  BY <1>3, ChangedForms
<1>5. FrameFine(heap, frame)
  <2>1. FrameFine(heap, Changed(Caller, Caller.stage, Caller.item, Caller.locals, Caller.results \cup results))
    BY <1>2, <1>3, ChangedFine
  <2>. QED BY <1>4, <2>1
<1>6. /\ frame.class = Caller.class /\ frame.this = Caller.this /\ frame.stage = Caller.stage
      /\ frame.item = Caller.item /\ SameCall(frame, Caller)
  BY <1>4 DEF Changed, SameCall
<1>. HIDE DEF frame
<1>7. \A o \in DOMAIN heap : \A k \in 1..Len(heap[o].cells) :
        PendingBy(Caller, o, k) => PendingBy(frame, o, k)
  BY <1>6 DEF PendingBy
<1>8. Inv(heap, <<frame>> \o Tail(s))
  BY <1>1, <1>2, <1>5, <1>6, <1>7, StepInv
<1>. QED BY <1>8 DEF frame, s

LEMMA ReturnStep ==
  ASSUME program \in DOMAIN Programs, Inv(heap, stack), NEW e \in Expressions, Return(e)
  PROVE  Inv(heap', stack')
<1> DEFINE results == {Local(Result, Eval(e))}
<1>1. /\ Current.stage = "method" /\ IsSubtype(e.type, Result) /\ Loaded(e) /\ heap' = heap
      /\ stack' = <<[Caller EXCEPT !.results = @ \cup results]>> \o Tail(Tail(stack))
  BY DEF Return, Leave, WithResult
<1>2. HeapFine(heap) /\ e.type \in 0..Main /\ IsRef(heap, e.type, Eval(e)) /\ Result \in 0..Main
  BY <1>1, Evaluated, ProgramFacts DEF Inv
<1>3. IsRef(heap, Result, Eval(e)) /\ Eval(e) \in Nat
  BY <1>1, <1>2, RefSubtype, RefValue
<1>4. results \in SUBSET LocalSet /\ \A l \in results : IsRef(heap, l.type, l.value)
  BY <1>2, <1>3 DEF Local, LocalSet
<1>. HIDE DEF results
<1>5. 2 \in DOMAIN stack
  <2>1. Current = stack[1] /\ Linked(heap, stack, 1)
    BY CurrentFine DEF Inv
  <2>2. 1 + 1 \in DOMAIN stack
    BY <1>1, <2>1 DEF Linked
  <2>. QED BY <2>2
<1>6. \A o \in DOMAIN heap : ~heap[o].copy => \A k \in 1..Len(heap[o].cells) : ~PendingBy(Current, o, k)
  BY <1>1 DEF PendingBy
<1>7. Inv(heap, <<[Caller EXCEPT !.results = @ \cup results]>> \o Tail(Tail(stack)))
  BY <1>4, <1>5, <1>6, LeaveInv
<1>. QED BY <1>1, <1>7

LEMMA EndConstructorStep ==
  ASSUME program \in DOMAIN Programs, Inv(heap, stack), EndConstructor
  PROVE  Inv(heap', stack')
<1> DEFINE c == Current.class
           results == IF Current.super THEN {} ELSE {Local(c, Current.this)}
<1>1. Current.stage = "init" /\ ~FieldsLeft /\ Len(stack) > 1 /\ heap' = heap
  BY DEF EndConstructor, InBody, Leave
<1>2. /\ HeapFine(heap) /\ FrameFine(heap, Current) /\ FramesFine(heap, stack)
  BY CurrentFine DEF Inv
<1>3. /\ c \in 1..Main /\ Current.item \in Nat \ {0} /\ Current.this \in Nat
  BY <1>2, ExtendsItself, HeldFine
<1>4. Current.this \in DOMAIN heap /\ c \in Ancestors[heap[Current.this].class]
  BY <1>1, <1>2 DEF FrameFine
<1>5. 2 \in DOMAIN stack
  <2>1. stack \in Seq(FrameSet)
    BY <1>2 DEF FramesFine
  <2>2. Len(stack) \in Nat /\ DOMAIN stack = 1..Len(stack)
    BY <2>1, LenProperties
  <2>. QED BY <1>1, <2>2
<1>6. results \in SUBSET LocalSet /\ \A l \in results : IsRef(heap, l.type, l.value)
  <2>1. Main \in Nat /\ c \in 0..Main /\ c # NumberType
    BY <1>3, ProgramFacts DEF NumberType
  <2>2. IsRef(heap, c, Current.this)
    BY <1>4, <2>1 DEF IsRef
  <2>. QED BY <1>3, <2>1, <2>2 DEF Local, LocalSet
<1>7. stack' = <<[Caller EXCEPT !.results = @ \cup results]>> \o Tail(Tail(stack))
  <2>1. CASE Current.super
    <3>1. Caller \in FrameSet
      BY <1>2, <1>5 DEF FramesFine, FrameFine, Caller
    <3>2. [Caller EXCEPT !.results = @ \cup {}] = Caller
      BY <3>1 DEF FrameSet
    <3>. QED BY <2>1, <3>2 DEF EndConstructor, Leave
  <2>2. CASE ~Current.super
    BY <2>2 DEF EndConstructor, Leave, WithResult
  <2>. QED BY <2>1, <2>2
<1>. HIDE DEF results
<1>8. ASSUME NEW o \in DOMAIN heap, NEW k \in 1..Len(heap[o].cells), PendingBy(Current, o, k)
      PROVE  FALSE
  <2>1. Own(c, k) /\ k >= FieldCell(<<c, Current.item>>)
    BY <1>1, <1>8 DEF PendingBy
  <2>2. Current.item > Len(Classes[c].fields) /\ Len(Classes[c].fields) \in Nat
    <3>1. Classes[c].fields \in Seq(0..Main)
      BY <1>3, ProgramFacts
    <3>2. Len(Classes[c].fields) \in Nat
      BY <3>1, LenProperties
    <3>. QED BY <1>1, <1>3, <3>2 DEF FieldsLeft
  <2>3. /\ Size[c] = Size[Classes[c].base] + Len(Classes[c].fields)
        /\ Size[Classes[c].base] \in Nat
    BY <1>3, SizeDef, SizesGrow
  <2>4. FieldCell(<<c, Current.item>>) = Size[Classes[c].base] + Current.item
    BY DEF FieldCell
  <2>5. k \in Nat /\ k <= Size[c]
    <3>1. Len(heap[o].cells) \in Nat
      BY <1>2, ObjectTyped
    <3>. QED BY <2>1, <2>3, <2>2, <3>1 DEF Own
  <2>. QED BY <1>3, <2>1, <2>2, <2>3, <2>4, <2>5
<1>9. Inv(heap, <<[Caller EXCEPT !.results = @ \cup results]>> \o Tail(Tail(stack)))
  BY <1>5, <1>6, <1>8, LeaveInv
<1>. QED BY <1>1, <1>7, <1>9

-----------------------------------------------------------------------------
(* The invariant holds. *)

\* The program is fixed: the invariant of the next heap and the next stack.
LEMMA InvPrimed ==
  ASSUME program' = program, Inv(heap', stack')
  PROVE  Inv(heap, stack)'
<1>1. Ancestors' = Ancestors /\ Size' = Size /\ Classes' = Classes /\ Main' = Main
  BY AncestorsKept, SizeKept DEF Main, Classes
<1>2. \A c : Field(c)' = Field(c) /\ HasMethod(c)' = HasMethod(c)
  BY <1>1 DEF Field, HasMethod
<1>3. \A f : FieldType(f)' = FieldType(f) /\ FieldCell(f)' = FieldCell(f)
  BY <1>1 DEF FieldType, FieldCell
<1>4. ObjectSet' = ObjectSet /\ LocalSet' = LocalSet /\ FrameSet' = FrameSet
  BY <1>1 DEF ObjectSet, LocalSet, FrameSet
<1>5. HeapFine(heap)'
  BY <1>1, <1>2, <1>3, <1>4 DEF Inv, HeapFine, ObjectFine, IsRef, Related
<1>6. FramesFine(heap, stack)'
  BY <1>1, <1>4 DEF Inv, FramesFine, FrameFine, IsRef
<1>7. Initialized(heap, stack)'
  BY <1>1, <1>2, <1>3 DEF Inv, Initialized, Pending, PendingBy, Own
<1>8. (\A n \in DOMAIN stack : Linked(heap, stack, n))'
  BY <1>1 DEF Inv, Linked
<1>. QED BY <1>5, <1>6, <1>7, <1>8 DEF Inv

\* A reference through which a cell of its type is outside is to a copy that was cut.
LEMMA OutsideIsSliced ==
  ASSUME program \in DOMAIN Programs, HeapFine(heap), NEW t \in 1..Main, NEW o, IsRef(heap, t, o),
         NEW k \in Nat, k <= Size[t], k > Len(heap[o].cells)
  PROVE  Sliced(o)
<1> DEFINE d == heap[o].cells[1]
<1>1. /\ o \in DOMAIN heap
      /\ t \in Ancestors[heap[o].class] \/ (heap[o].copy /\ d \in 1..Main /\ t \in Ancestors[d])
  BY RefShape
<1>2. heap[o].class \in 1..Main /\ Len(heap[o].cells) = Size[heap[o].class]
  BY <1>1, ObjectTyped
<1>. HIDE DEF d
<1>3. ASSUME t \in Ancestors[heap[o].class] PROVE FALSE
  <2>1. Size[t] \in Nat /\ Size[t] <= Size[heap[o].class] /\ Size[heap[o].class] \in Nat
    BY <1>2, <1>3, SizesGrow
  <2>. QED BY <1>2, <2>1
<1>4. heap[o].copy /\ d \in 1..Main /\ t \in Ancestors[d]
  BY <1>1, <1>3
<1>5. Size[t] \in Nat /\ Size[t] <= Size[d] /\ Size[d] \in Nat /\ Len(heap[o].cells) \in Nat
  BY <1>1, <1>4, SizesGrow, ObjectTyped
<1>6. Len(heap[o].cells) < Size[d]
  BY <1>5
<1>. QED BY <1>4, <1>6 DEF Sliced, Cells, d

\* A cell that is not set is one that a constructor on the stack is still to set.
LEMMA UnsetIsPending ==
  ASSUME program \in DOMAIN Programs, Inv(heap, stack), NEW o \in DOMAIN heap,
         NEW k \in 1..Len(heap[o].cells), heap[o].cells[k] = 0, k # 1 \/ HasMethod(heap[o].class)
  PROVE  heap[o].copy \/ Constructing(o, k)
<1>1. CASE heap[o].copy
  BY <1>1
<1>2. CASE ~heap[o].copy
  <2>1. Pending(heap, stack, o, k)
    BY <1>2 DEF Inv, Initialized
  <2>2. PICK n \in DOMAIN stack : PendingBy(stack[n], o, k)
    BY <2>1 DEF Pending
  <2>. QED BY <2>2 DEF PendingBy, Constructing
<1>. QED BY <1>1, <1>2

\* What an undefined access is of.
Harmless(o, k, reason) ==
  /\ reason = "outside" => Sliced(o)
  /\ reason = "unset" => heap[o].copy \/ Constructing(o, k)

LEMMA BadLoadStep ==
  ASSUME program \in DOMAIN Programs, Inv(heap, stack), NEW e \in Expressions, BadLoad(e)
  PROVE  \E o, k, reason : Undefined(o, k, reason) /\ Harmless(o, k, reason)
<1>1. HeapFine(heap)
  BY DEF Inv
<1>2. e.cell # 0
  BY DEF BadLoad
<1>3. PICK t \in 1..Main : \E f \in Field(t) : IsRef(heap, t, e.object) /\ e.cell = FieldCell(f)
  BY <1>2, ExpressionShape
<1>4. IsRef(heap, t, e.object) /\ e.cell \in Nat /\ e.cell >= 2 /\ e.cell <= Size[t]
  BY <1>3, FieldPlace
<1>5. e.object \in DOMAIN heap /\ Len(heap[e.object].cells) \in Nat
  BY <1>1, <1>4, RefShape, ObjectTyped
<1>6. CASE Outside(e.object, e.cell)
  <2>1. e.cell > Len(heap[e.object].cells) /\ Undefined(e.object, e.cell, "outside")
    BY <1>4, <1>5, <1>6 DEF Outside, Inside, Cells
  <2>2. Sliced(e.object)
    BY <1>1, <1>4, <2>1, OutsideIsSliced
  <2>. QED BY <2>1, <2>2 DEF Harmless
<1>7. CASE Unset(e.object, e.cell)
  <2>1. /\ e.cell <= Len(heap[e.object].cells) /\ heap[e.object].cells[e.cell] = 0
        /\ Undefined(e.object, e.cell, "unset")
    BY <1>7 DEF Unset, Inside, Cells
  <2>2. e.cell \in 1..Len(heap[e.object].cells) /\ e.cell # 1
    BY <1>4, <1>5, <2>1
  <2>3. heap[e.object].copy \/ Constructing(e.object, e.cell)
    BY <1>5, <2>1, <2>2, UnsetIsPending
  <2>. QED BY <2>1, <2>3 DEF Harmless
<1>. QED BY <1>6, <1>7 DEF BadLoad

LEMMA BadCopyStep ==
  ASSUME program \in DOMAIN Programs, Inv(heap, stack), NEW e \in Expressions, BadCopy(e)
  PROVE  \E o, k, reason : Undefined(o, k, reason) /\ Harmless(o, k, reason)
<1>1. HeapFine(heap) /\ Main \in Nat
  BY ProgramFacts DEF Inv
<1>2. /\ Loaded(e) /\ e.type # 0 /\ ~(Size[e.type] <= Len(heap[Eval(e)].cells))
      /\ Undefined(Eval(e), Size[e.type], "outside")
  BY DEF BadCopy, Outside, Inside, Cells, Copied, IsValue, NumberType
<1>3. e.type \in 0..Main /\ IsRef(heap, e.type, Eval(e))
  BY <1>2, Evaluated
<1>4. e.type \in 1..Main
  BY <1>1, <1>2, <1>3
<1>5. Size[e.type] \in Nat /\ Len(heap[Eval(e)].cells) \in Nat
  BY <1>1, <1>3, <1>4, RefShape, ObjectTyped, SizesGrow
<1>6. Sliced(Eval(e))
  <2>1. Size[e.type] <= Size[e.type] /\ Size[e.type] > Len(heap[Eval(e)].cells)
    BY <1>2, <1>5
  <2>. QED BY <1>1, <1>3, <1>4, <1>5, <2>1, OutsideIsSliced
<1>. QED BY <1>2, <1>6 DEF Harmless

LEMMA BadCallStep ==
  ASSUME program \in DOMAIN Programs, Inv(heap, stack), NEW e \in Expressions, BadCall(e)
  PROVE  \E o, k, reason : Undefined(o, k, reason) /\ Harmless(o, k, reason)
<1> DEFINE o == Eval(e)
<1>1. HeapFine(heap) /\ Main \in Nat
  BY ProgramFacts DEF Inv
<1>2. /\ Loaded(e) /\ e.type # 0 /\ HasMethod(e.type)
      /\ heap[o].cells[1] = 0 /\ Undefined(o, 1, "unset")
  BY DEF BadCall, Unset, Cells, NumberType
<1>3. e.type \in 0..Main /\ IsRef(heap, e.type, o)
  BY <1>2, Evaluated
<1>4. e.type \in 1..Main
  BY <1>1, <1>2, <1>3
<1>. HIDE DEF o
<1>5. /\ o \in DOMAIN heap
      /\ e.type \in Ancestors[heap[o].class] \/ heap[o].copy
  BY <1>1, <1>3, <1>4, RefShape
<1>6. 1 \in 1..Len(heap[o].cells) /\ heap[o].class \in 1..Main
  BY <1>1, <1>5, ObjectTyped
<1>7. CASE heap[o].copy
  BY <1>2, <1>7 DEF Harmless
<1>8. CASE e.type \in Ancestors[heap[o].class]
  <2>1. HasMethod(heap[o].class)
    <3>1. Ancestors[e.type] \subseteq Ancestors[heap[o].class]
      BY <1>6, <1>8, AncestorsTransitive
    <3>. QED BY <1>2, <3>1 DEF HasMethod
  <2>2. heap[o].copy \/ Constructing(o, 1)
    BY <1>2, <1>5, <1>6, <2>1, UnsetIsPending
  <2>. QED BY <1>2, <2>2 DEF Harmless
<1>. QED BY <1>5, <1>7, <1>8

LEMMA BadStoreStep ==
  ASSUME program \in DOMAIN Programs, Inv(heap, stack), NEW f \in Field(Current.class), BadStore(f)
  PROVE  \E o, k, reason : Undefined(o, k, reason) /\ Harmless(o, k, reason)
<1> DEFINE o == Current.this
<1>1. HeapFine(heap) /\ FrameFine(heap, Current) /\ Current.class \in 1..Main /\ Main \in Nat
  BY CurrentFine, ProgramFacts DEF Inv, FrameSet
<1>2. ~(FieldCell(f) <= Len(heap[o].cells)) /\ Undefined(o, FieldCell(f), "outside")
  BY DEF BadStore, Outside, Inside, Cells
<1>3. IsRef(heap, Current.class, o)
  BY <1>1 DEF FrameFine, IsRef, NumberType
<1>. HIDE DEF o
<1>4. FieldCell(f) \in Nat /\ FieldCell(f) <= Size[Current.class]
  BY <1>1, FieldPlace
<1>5. Len(heap[o].cells) \in Nat
  BY <1>1, <1>3, RefShape, ObjectTyped
<1>6. Sliced(o)
  <2>1. FieldCell(f) > Len(heap[o].cells)
    BY <1>2, <1>4, <1>5
  <2>. QED BY <1>1, <1>3, <1>4, <2>1, OutsideIsSliced
<1>. QED BY <1>2, <1>6 DEF Harmless

LEMMA UndefinedStep ==
  ASSUME IInv, NEW o, NEW k, NEW reason, Undefined(o, k, reason), Harmless(o, k, reason)
  PROVE  IInv'
<1>1. /\ program' = program /\ heap' = heap /\ stack' = stack
      /\ phase' = reason /\ access'[1] = o /\ access'[2] = k
  BY DEF Undefined
<1>2. Size' = Size /\ Classes' = Classes
  BY <1>1, SizeKept DEF Classes
<1>3. program' \in DOMAIN Programs /\ Inv(heap, stack)'
  BY <1>1, InvPrimed DEF IInv
<1>4. InsideTheObject'
  BY <1>1, <1>2 DEF Harmless, InsideTheObject, Sliced, Cells
<1>5. InitializedWhenRead'
  BY <1>1, <1>2 DEF Harmless, InitializedWhenRead, Constructing, Own, FieldCell
<1>. QED BY <1>3, <1>4, <1>5 DEF IInv

LEMMA DefinedStep ==
  ASSUME program \in DOMAIN Programs, program' = program, Inv(heap', stack'),
         phase' \in {"run", "done"}
  PROVE  IInv'
<1>1. program' \in DOMAIN Programs /\ Inv(heap, stack)'
  BY InvPrimed
<1>2. InsideTheObject' /\ InitializedWhenRead'
  BY DEF InsideTheObject, InitializedWhenRead
<1>. QED BY <1>1, <1>2 DEF IInv

LEMMA InitIInv ==
  ASSUME Init
  PROVE  IInv
<1> DEFINE frame == Construct(Main, 1, FALSE, <<>>)
<1>1. program \in DOMAIN Programs /\ heap = <<Allocated(Main)>> /\ stack = <<frame>> /\ phase = "run"
  BY DEF Init
<1>2. Main \in Nat \ {0} /\ Main \in 1..Main /\ Classes[Main].ctor = <<>>
  BY <1>1, ProgramFacts
<1>3. HeapFine(<<>>)
  BY DEF HeapFine
<1>4. heap = Append(<<>>, Allocated(Main)) /\ Len(<<>>) + 1 = 1
  BY <1>1
<1>5. HeapFine(heap)
  BY <1>1, <1>2, <1>3, <1>4, AllocatedFine
<1>6. DOMAIN heap = {1}
  BY <1>1
<1>7. heap[1].class = Main /\ ~heap[1].copy /\ heap[1].cells = [k \in 1..Size[Main] |-> 0]
  BY <1>1 DEF Allocated
<1>8. Len(heap[1].cells) = Size[Main]
  BY <1>1, <1>5, <1>6, <1>7, ObjectTyped
<1>9. /\ 1 \in DOMAIN heap /\ Main \in Ancestors[heap[1].class]
      /\ \A k \in DOMAIN Classes[Main].ctor : IsRef(heap, Classes[Main].ctor[k], <<>>[k])
  BY <1>1, <1>2, <1>6, <1>7, AncestorsAreClasses
<1>10. FrameFine(heap, frame)
  BY <1>1, <1>2, <1>5, <1>7, <1>9, ConstructFine
<1>11. \A k \in 1..Size[Main] : PendingBy(frame, 1, k)
  BY <1>1, <1>2, <1>5, <1>7, <1>9, ConstructFine
<1>12. frame.class = Main /\ frame.this = 1 /\ frame.super = FALSE /\ frame.stage # "method"
  BY DEF Construct, Frame
<1>. HIDE DEF frame
<1>13. DOMAIN stack = {1} /\ stack[1] = frame /\ stack # <<>>
  BY <1>1
<1>14. FramesFine(heap, stack)
  <2>1. frame \in FrameSet
    BY <1>10 DEF FrameFine
  <2>2. stack \in Seq(FrameSet)
    BY <1>1, <2>1
  <2>. QED BY <1>10, <1>13, <2>2 DEF FramesFine
<1>15. Initialized(heap, stack)
  BY <1>6, <1>8, <1>11, <1>13 DEF Initialized, Pending
<1>16. \A n \in DOMAIN stack : Linked(heap, stack, n)
  BY <1>7, <1>12, <1>13 DEF Linked
<1>17. InsideTheObject /\ InitializedWhenRead
  BY <1>1 DEF InsideTheObject, InitializedWhenRead
<1>. QED BY <1>1, <1>5, <1>14, <1>15, <1>16, <1>17 DEF IInv, Inv

LEMMA NextIInv ==
  ASSUME IInv, [Next]_vars
  PROVE  IInv'
<1>1. program \in DOMAIN Programs /\ Inv(heap, stack)
  BY DEF IInv
<1>2. \A c \in 1..Main - 1 : c \in 1..Main
  BY <1>1, ProgramFacts
<1>3. CASE UNCHANGED vars
  <2>1. program' = program /\ heap' = heap /\ stack' = stack /\ phase' = phase /\ access' = access
    BY <1>3 DEF vars
  <2>2. Size' = Size /\ Classes' = Classes
    BY <2>1, SizeKept DEF Classes
  <2>3. program' \in DOMAIN Programs /\ Inv(heap, stack)'
    BY <1>1, <2>1, InvPrimed
  <2>4. InsideTheObject' /\ InitializedWhenRead'
    BY <2>1, <2>2 DEF IInv, InsideTheObject, Sliced, Cells, InitializedWhenRead, Constructing, Own, FieldCell
  <2>. QED BY <2>3, <2>4 DEF IInv
<1>4. ASSUME NEW c \in 1..Main - 1, New(c) PROVE IInv'
  <2>1. program' = program /\ phase' \in {"run", "done"}
    BY <1>4 DEF New, Evaluates, Enter
  <2>2. Inv(heap', stack')
    BY <1>1, <1>2, <1>4, NewStep
  <2>. QED BY <1>1, <2>1, <2>2, DefinedStep
<1>5. ASSUME NEW c \in 1..Main - 1, NEW e \in Expressions, NewWith(c, e) PROVE IInv'
  <2>1. program' = program /\ phase' \in {"run", "done"}
    BY <1>5 DEF NewWith, Evaluates, Enter
  <2>2. Inv(heap', stack')
    BY <1>1, <1>2, <1>5, NewWithStep
  <2>. QED BY <1>1, <2>1, <2>2, DefinedStep
<1>6. ASSUME NEW r \in Expressions, NEW e \in Expressions, Call(r, e) PROVE IInv'
  <2>1. program' = program /\ phase' \in {"run", "done"}
    BY <1>6 DEF Call, Evaluates, Enter
  <2>2. Inv(heap', stack')
    BY <1>1, <1>6, CallStep
  <2>. QED BY <1>1, <2>1, <2>2, DefinedStep
<1>7. CASE SuperPlain \/ \E e \in Expressions : SuperWith(e)
  <2>1. program' = program /\ phase' \in {"run", "done"}
    BY <1>7 DEF SuperPlain, SuperWith, Super, Enter
  <2>2. Inv(heap', stack')
    BY <1>1, <1>7, SuperStep
  <2>. QED BY <1>1, <2>1, <2>2, DefinedStep
<1>8. ASSUME NEW e \in Expressions, InitField(e) PROVE IInv'
  <2>1. program' = program /\ phase' \in {"run", "done"}
    BY <1>8 DEF InitField, Step
  <2>2. Inv(heap', stack')
    BY <1>1, <1>8, InitFieldStep
  <2>. QED BY <1>1, <2>1, <2>2, DefinedStep
<1>9. ASSUME NEW e \in Expressions, Declare(e) PROVE IInv'
  <2>1. program' = program /\ phase' \in {"run", "done"}
    BY <1>9 DEF Declare, Step
  <2>2. Inv(heap', stack')
    BY <1>1, <1>9, DeclareStep
  <2>. QED BY <1>1, <2>1, <2>2, DefinedStep
<1>10. ASSUME NEW e \in Expressions, Return(e) PROVE IInv'
  <2>1. program' = program /\ phase' \in {"run", "done"}
    BY <1>10 DEF Return, Leave
  <2>2. Inv(heap', stack')
    BY <1>1, <1>10, ReturnStep
  <2>. QED BY <1>1, <2>1, <2>2, DefinedStep
<1>11. ASSUME NEW e \in Expressions, NEW k \in DOMAIN Current.locals, AssignLocal(k, e) PROVE IInv'
  <2>1. program' = program /\ phase' \in {"run", "done"}
    BY <1>11 DEF AssignLocal, Step
  <2>2. Inv(heap', stack')
    BY <1>1, <1>11, AssignLocalStep
  <2>. QED BY <1>1, <2>1, <2>2, DefinedStep
<1>12. ASSUME NEW e \in Expressions, NEW f \in Field(Current.class), AssignField(f, e) PROVE IInv'
  <2>1. program' = program /\ phase' \in {"run", "done"}
    BY <1>12 DEF AssignField, Step
  <2>2. Inv(heap', stack')
    BY <1>1, <1>12, AssignFieldStep
  <2>. QED BY <1>1, <2>1, <2>2, DefinedStep
<1>13. ASSUME NEW e \in Expressions, BadLoad(e) \/ BadCopy(e) \/ BadCall(e) PROVE IInv'
  <2>1. \E o, k, reason : Undefined(o, k, reason) /\ Harmless(o, k, reason)
    BY <1>1, <1>13, BadLoadStep, BadCopyStep, BadCallStep
  <2>. QED BY <2>1, UndefinedStep
<1>14. ASSUME NEW f \in Field(Current.class), BadStore(f) PROVE IInv'
  <2>1. \E o, k, reason : Undefined(o, k, reason) /\ Harmless(o, k, reason)
    BY <1>1, <1>14, BadStoreStep
  <2>. QED BY <2>1, UndefinedStep
<1>15. CASE StoreTable
  <2>1. program' = program /\ phase' \in {"run", "done"}
    BY <1>15 DEF StoreTable, Step
  <2>2. Inv(heap', stack')
    BY <1>1, <1>15, StoreTableStep
  <2>. QED BY <1>1, <2>1, <2>2, DefinedStep
<1>16. CASE EndConstructor
  <2>1. program' = program /\ phase' \in {"run", "done"}
    BY <1>16 DEF EndConstructor, Leave
  <2>2. Inv(heap', stack')
    BY <1>1, <1>16, EndConstructorStep
  <2>. QED BY <1>1, <2>1, <2>2, DefinedStep
<1>17. CASE EndMain
  <2>1. program' = program /\ phase' \in {"run", "done"} /\ heap' = heap /\ stack' = stack
    BY <1>17 DEF EndMain
  <2>. QED BY <1>1, <2>1, DefinedStep
<1>18. CASE Next
  BY <1>4, <1>5, <1>6, <1>7, <1>8, <1>9, <1>10, <1>11, <1>12, <1>13, <1>14, <1>15, <1>16, <1>17, <1>18
     DEF Next
<1>. QED BY <1>3, <1>18

LEMMA IInvHolds == Spec => []IInv
<1>1. Init => IInv
  BY InitIInv
<1>2. IInv /\ [Next]_vars => IInv'
  BY NextIInv
<1>. QED BY <1>1, <1>2, PTL DEF Spec

\* Whatever the program, no generated code reads or writes a field outside its object,
\* but through a reference to a copy that eval_value_or_ref made by the size of a base.
THEOREM AccessesInside == Spec => []InsideTheObject
<1>1. IInv => InsideTheObject
  BY DEF IInv
<1>. QED BY <1>1, IInvHolds, PTL

\* Whatever the program, a cell that is read before it was set is one that a constructor
\* which has not returned, of the object's class or of a base, is still to set, or that of
\* a copy.
THEOREM ReadsInitialized == Spec => []InitializedWhenRead
<1>1. IInv => InitializedWhenRead
  BY DEF IInv
<1>. QED BY <1>1, IInvHolds, PTL

\* Whatever the program, every parameter, variable, result and initialized field holds what
\* its static type says: the number, or an object that has the class among its own or, being
\* a copy, among those of its table.
THEOREM ReferencesTyped == Spec => [](HeapFine(heap) /\ FramesFine(heap, stack))
<1>1. IInv => HeapFine(heap) /\ FramesFine(heap, stack)
  BY DEF IInv, Inv
<1>. QED BY <1>1, IInvHolds, PTL

-----------------------------------------------------------------------------
(***************************************************************************)
(* Locals that own their object.  While a constructor initializes its      *)
(* fields it sees no local: what the locals of the calls below own cannot  *)
(* reach it, nor any call that it makes.                                   *)
(***************************************************************************)
\* No field of the heap holds the object.
Clear(h, o) == \A p \in DOMAIN h : \A f \in Field(h[p].class) : h[p].cells[FieldCell(f)] # o

\* FieldsLeft and BySuper, for one frame.
Initializing(frame)      == frame.stage = "init" /\ frame.item <= Len(Classes[frame.class].fields)
SuperParameter(frame, k) == frame.super /\ k <= Len(Classes[frame.class].ctor)
Owns(frame, k)           == IsValue(frame.locals[k].type) /\ ~SuperParameter(frame, k)

Apart(frame, o)   == frame.this # o /\ \A r \in frame.results : r.value # o
NoLocal(frame, o) == \A k \in DOMAIN frame.locals : frame.locals[k].value # o

\* The k-th local of the n-th call is the only one that holds o, and o is known to no
\* call from one that initializes fields upwards.
Sole(s, n, k, o) ==
  \A m \in DOMAIN s : \A j \in DOMAIN s[m].locals :
    s[m].locals[j].value = o => (m = n /\ j = k) \/ SuperParameter(s[m], j)
Isolated(s, n, o) ==
  \A b \in DOMAIN s : b <= n /\ Initializing(s[b]) =>
    /\ Apart(s[b], o)
    /\ \A i \in DOMAIN s : i < b => Apart(s[i], o) /\ NoLocal(s[i], o)

Confined(s, n, k, o) == Sole(s, n, k, o) /\ Isolated(s, n, o)
Private(h, s, n, k, o) == o \in DOMAIN h /\ h[o].copy /\ Clear(h, o) /\ Confined(s, n, k, o)

Quiet(frame) ==
  /\ frame.stage = "table" => frame.results = {}
  /\ frame.stage = "method" => ~frame.super

\* A constructor that waits for its turn to store the table waits for that of its base.
AwaitsSuper(s, n) == n + 1 \in DOMAIN s /\ s[n + 1].stage = "table" => s[n].super

Share(h, s) ==
  /\ Len(h) <= MaxObjects
  /\ \A n \in DOMAIN s : Quiet(s[n]) /\ AwaitsSuper(s, n)
  /\ \A n \in DOMAIN s : \A k \in DOMAIN s[n].locals :
       Owns(s[n], k) => Private(h, s, n, k, s[n].locals[k].value)

\* Copies stay copies.
KeepsCopies(h, g) == \A o \in DOMAIN h : h[o].copy => o \in DOMAIN g /\ g[o].copy

-----------------------------------------------------------------------------
(* A class is one of values exactly if its base is. *)

LEMMA BaseValue ==
  ASSUME program \in DOMAIN Programs, NEW c \in 1..Main, Classes[c].base # Builtin
  PROVE  Classes[c].value = Classes[Classes[c].base].value
<1>1. IsProgram(Programs[program])
  BY ProgramsAssumption
<1>2. c \in DOMAIN Classes
  BY ProgramFacts
<1>. QED BY <1>1, <1>2 DEF IsProgram, Classes

LEMMA AncestorValue ==
  ASSUME program \in DOMAIN Programs, NEW c \in 1..Main, NEW a \in Ancestors[c]
  PROVE  Classes[a].value = Classes[c].value
<1> DEFINE S == {n \in 1..Main : \E b \in Ancestors[n] : Classes[b].value # Classes[n].value}
<1>1. Main \in Nat /\ \A k \in 1..Main : Classes[k].base \in 0..k - 1
  BY ProgramFacts
<1>2. ASSUME S # {} PROVE FALSE
  <2>1. PICK n \in S : \A k \in S : n <= k
    <3>1. S \in SUBSET Nat
      OBVIOUS
    <3>. HIDE DEF S
    <3>. QED BY <1>2, <3>1, LeastClass
  <2>2. n \in 1..Main /\ \E b \in Ancestors[n] : Classes[b].value # Classes[n].value
    OBVIOUS
  <2>3. PICK b \in Ancestors[n] : Classes[b].value # Classes[n].value
    BY <2>2
  <2>4. b \in Ancestors[Classes[n].base] /\ Classes[n].base # Builtin
    BY <2>2, <2>3, AncestorsDef
  <2>5. Classes[n].base \in 1..Main /\ Classes[n].base < n
    BY <1>1, <2>2, <2>4 DEF Builtin
  <2>6. Classes[n].base \notin S
    BY <1>1, <2>1, <2>2, <2>5
  <2>7. Classes[b].value = Classes[Classes[n].base].value
    BY <2>4, <2>5, <2>6
  <2>. QED BY <2>2, <2>3, <2>4, <2>7, BaseValue
<1>3. c \notin S
  BY <1>2
<1>. QED BY <1>3

\* The types by which one object is referred to agree on whether it is a value.
LEMMA ReferencesAgree ==
  ASSUME program \in DOMAIN Programs, NEW h, HeapFine(h), Len(h) <= MaxObjects,
         NEW t \in 0..Main, NEW u \in 0..Main, NEW v, IsRef(h, t, v), IsRef(h, u, v), IsValue(t)
  PROVE  IsValue(u) /\ v \in DOMAIN h
<1>1. t \in 1..Main /\ Classes[t].value
  <2>1. Main \in Nat
    BY ProgramFacts
  <2>. QED BY <2>1 DEF IsValue, NumberType
<1>2. ASSUME NEW w \in 1..Main, IsRef(h, w, v)
      PROVE  v \in DOMAIN h /\ Classes[w].value = Classes[h[v].class].value
  <2>1. /\ v \in DOMAIN h
        /\ \/ w \in Ancestors[h[v].class]
           \/ /\ h[v].cells[1] \in 1..Main /\ w \in Ancestors[h[v].cells[1]]
              /\ Related(h[v].cells[1], h[v].class)
    BY <1>2, RefShape
  <2>2. h[v].class \in 1..Main
    BY <2>1, ObjectTyped
  <2>. QED BY <2>1, <2>2, AncestorValue DEF Related
<1>3. v \in DOMAIN h /\ Classes[t].value = Classes[h[v].class].value
  BY <1>1, <1>2
<1>4. u # NumberType
  <2>1. v \in Nat /\ v <= Len(h) /\ Len(h) \in Nat /\ MaxObjects \in Nat
    BY <1>3, ObjectTyped, BoundsAssumption
  <2>2. v # Number
    BY <2>1 DEF Number
  <2>. QED BY <2>2 DEF IsRef
<1>5. u \in 1..Main
  BY <1>4, ProgramFacts DEF NumberType
<1>. QED BY <1>1, <1>2, <1>3, <1>4, <1>5 DEF IsValue

LEMMA SubtypeValue ==
  ASSUME program \in DOMAIN Programs, NEW t \in 0..Main, NEW u \in 0..Main, IsSubtype(t, u)
  PROVE  IsValue(t) <=> IsValue(u)
<1>1. CASE t = u
  BY <1>1
<1>2. CASE t # u
  <2>1. t # NumberType /\ u # Builtin /\ Classes[t].base = u /\ Main \in Nat
    BY <1>2, ProgramFacts DEF IsSubtype
  <2>2. t \in 1..Main /\ u \in 1..Main /\ u # NumberType
    BY <2>1 DEF NumberType, Builtin
  <2>. QED BY <2>1, <2>2, BaseValue DEF IsValue
<1>. QED BY <1>1, <1>2

-----------------------------------------------------------------------------
(* Changes of the heap: no field comes to hold the object. *)

\* An address that is not given out yet is held nowhere.
LEMMA FreshClear ==
  ASSUME program \in DOMAIN Programs, NEW h, HeapFine(h), Len(h) < MaxObjects
  PROVE  /\ \A t, v : IsRef(h, t, v) => v # Len(h) + 1
         /\ Clear(h, Len(h) + 1)
<1>1. Len(h) \in Nat /\ DOMAIN h = 1..Len(h) /\ MaxObjects \in Nat
  <2>1. h \in Seq(ObjectSet)
    BY DEF HeapFine
  <2>. QED BY <2>1, LenProperties, BoundsAssumption
<1>2. ASSUME NEW t, NEW v, IsRef(h, t, v) PROVE v # Len(h) + 1
  BY <1>1, <1>2 DEF IsRef, Number
<1>3. ASSUME NEW p \in DOMAIN h, NEW f \in Field(h[p].class)
      PROVE  h[p].cells[FieldCell(f)] # Len(h) + 1
  <2>1. h[p].cells[FieldCell(f)] # 0 => IsRef(h, FieldType(f), h[p].cells[FieldCell(f)])
    BY DEF HeapFine, ObjectFine
  <2>2. Len(h) + 1 # 0
    BY <1>1
  <2>. QED BY <1>2, <2>1, <2>2
<1>. QED BY <1>2, <1>3 DEF Clear

LEMMA AppendClear ==
  ASSUME program \in DOMAIN Programs, NEW h, HeapFine(h), NEW o, Clear(h, o), NEW object,
         \A f \in Field(object.class) : object.cells[FieldCell(f)] # o
  PROVE  Clear(Append(h, object), o)
<1>1. h \in Seq(ObjectSet)
  BY DEF HeapFine
<1>2. /\ DOMAIN h = 1..Len(h) /\ Len(h) \in Nat /\ DOMAIN Append(h, object) = 1..Len(h) + 1
      /\ Append(h, object)[Len(h) + 1] = object
      /\ \A p \in 1..Len(h) : Append(h, object)[p] = h[p]
  <2> DEFINE T == ObjectSet \cup {object}
  <2>1. h \in Seq(T) /\ object \in T
    BY <1>1
  <2>. HIDE DEF T
  <2>. QED BY <2>1, AppendProperties, LenProperties
<1>3. ASSUME NEW p \in DOMAIN Append(h, object), NEW f \in Field(Append(h, object)[p].class)
      PROVE  Append(h, object)[p].cells[FieldCell(f)] # o
  <2>1. CASE p = Len(h) + 1
    BY <1>2, <1>3, <2>1
  <2>2. CASE p \in 1..Len(h)
    <3>1. Append(h, object)[p] = h[p] /\ p \in DOMAIN h
      BY <1>2, <2>2
    <3>. QED BY <1>3, <3>1 DEF Clear
  <2>. QED BY <1>2, <2>1, <2>2
<1>. QED BY <1>3 DEF Clear

LEMMA AllocatedClear ==
  ASSUME program \in DOMAIN Programs, NEW h, HeapFine(h), NEW o, Clear(h, o), o # 0, NEW c \in 1..Main
  PROVE  Clear(Append(h, Allocated(c)), o)
<1>1. Allocated(c).class = c /\ Allocated(c).cells = [k \in 1..Size[c] |-> 0] /\ Size[c] \in Nat
  BY SizesGrow DEF Allocated
<1>2. \A f \in Field(c) : FieldCell(f) \in 1..Size[c]
  BY <1>1, FieldPlace
<1>3. \A f \in Field(Allocated(c).class) : Allocated(c).cells[FieldCell(f)] # o
  BY <1>1, <1>2
<1>. QED BY <1>3, AppendClear

LEMMA UpdateClear ==
  ASSUME program \in DOMAIN Programs, NEW h, HeapFine(h), NEW o, Clear(h, o), NEW p \in DOMAIN h,
         NEW k \in 1..Len(h[p].cells), NEW v \in Nat, k = 1 \/ v # o
  PROVE  Clear(Update(h, p, k, v), o)
<1> DEFINE g == Update(h, p, k, v)
<1>1. /\ DOMAIN g = DOMAIN h /\ \A i \in DOMAIN h : i # p => g[i] = h[i]
      /\ g[p].class = h[p].class /\ g[p].cells[k] = v
      /\ \A j \in 1..Len(h[p].cells) : j # k => g[p].cells[j] = h[p].cells[j]
  BY Updated
<1>. HIDE DEF g
<1>2. ASSUME NEW i \in DOMAIN h, NEW f \in Field(h[i].class)
      PROVE  g[i].cells[FieldCell(f)] # o
  <2>1. h[i].cells[FieldCell(f)] # o
    BY DEF Clear
  <2>2. CASE i # p
    BY <1>1, <2>1, <2>2
  <2>3. CASE i = p
    <3>1. FieldCell(f) \in 1..Len(h[p].cells) /\ FieldCell(f) # 1
      <4>1. h[i].class \in 1..Main /\ Len(h[i].cells) = Size[h[i].class] /\ Len(h[i].cells) \in Nat
        BY ObjectTyped
      <4>2. FieldCell(f) \in Nat /\ FieldCell(f) >= 2 /\ FieldCell(f) <= Size[h[i].class]
        BY <4>1, FieldPlace
      <4>. QED BY <2>3, <4>1, <4>2
    <3>. QED BY <1>1, <2>1, <2>3, <3>1
  <2>. QED BY <2>2, <2>3
<1>3. \A i \in DOMAIN h : g[i].class = h[i].class
  BY <1>1
<1>. QED BY <1>1, <1>2, <1>3 DEF Clear, g

-----------------------------------------------------------------------------
(* What an expression evaluates to, and what is stored of it. *)

Owned(n, k) == n \in DOMAIN stack /\ k \in DOMAIN stack[n].locals /\ Owns(stack[n], k)
Value(n, k) == stack[n].locals[k].value

LEMMA OwnedFacts ==
  ASSUME program \in DOMAIN Programs, Inv(heap, stack), Share(heap, stack), NEW n, NEW k, Owned(n, k)
  PROVE  /\ Private(heap, stack, n, k, Value(n, k)) /\ Value(n, k) \in Nat \ {0}
         /\ stack[n].locals[k].type \in 0..Main /\ IsValue(stack[n].locals[k].type)
         /\ IsRef(heap, stack[n].locals[k].type, Value(n, k))
<1>1. HeapFine(heap) /\ FrameFine(heap, stack[n])
  BY DEF Inv, FramesFine, Owned
<1>2. stack[n].locals \in Seq(LocalSet)
  BY <1>1 DEF FrameFine, FrameSet
<1>3. stack[n].locals[k] \in LocalSet /\ stack[n].locals[k] \in Range(stack[n].locals)
  BY <1>2, ElementOfSeq, LenProperties DEF Owned, Range
<1>4. IsRef(heap, stack[n].locals[k].type, Value(n, k)) /\ stack[n].locals[k].type \in 0..Main
  BY <1>1, <1>3 DEF FrameFine, LocalSet, Value
<1>5. Private(heap, stack, n, k, Value(n, k))
  BY DEF Share, Owned, Value
<1>6. Value(n, k) \in Nat \ {0}
  BY <1>1, <1>4, RefValue
<1>. QED BY <1>4, <1>5, <1>6 DEF Owned, Owns

\* By its type a reference may not be to what a local owns.
LEMMA NotAValue ==
  ASSUME program \in DOMAIN Programs, Inv(heap, stack), Share(heap, stack), NEW n, NEW k, Owned(n, k),
         NEW t \in 0..Main, ~IsValue(t), NEW v, IsRef(heap, t, v)
  PROVE  v # Value(n, k)
<1>1. HeapFine(heap) /\ Len(heap) <= MaxObjects
  BY DEF Inv, Share
<1>. QED BY <1>1, OwnedFacts, ReferencesAgree

\* What is stored, passed or assigned is never what a local owns already.
LEMMA StoredApart ==
  ASSUME program \in DOMAIN Programs, Inv(heap, stack), Share(heap, stack), NEW n, NEW k, Owned(n, k),
         NEW e \in Expressions, Storable(e)
  PROVE  Stored(e) # Value(n, k)
<1>1. HeapFine(heap) /\ Loaded(e)
  BY DEF Inv, Storable
<1>2. CASE Copied(e)
  <2>1. Stored(e) = Len(heap) + 1 /\ Len(heap) < MaxObjects
    BY <1>2 DEF Stored, Storable
  <2>. QED BY <1>1, <2>1, OwnedFacts, FreshClear
<1>3. CASE ~Copied(e)
  <2>1. Stored(e) = Eval(e) /\ ~IsValue(e.type)
    BY <1>3 DEF Stored, Copied
  <2>. QED BY <1>1, <2>1, Evaluated, NotAValue
<1>. QED BY <1>2, <1>3

\* Where a constructor initializes fields, or anything it calls, no expression evaluates
\* to what a local of it or of a call below owns.
LEMMA EvalApart ==
  ASSUME program \in DOMAIN Programs, Inv(heap, stack), Share(heap, stack), NEW n, NEW k, Owned(n, k),
         NEW b \in DOMAIN stack, b <= n, Initializing(stack[b]), NEW e \in Expressions, Loaded(e)
  PROVE  Eval(e) # Value(n, k)
<1> DEFINE o == Value(n, k)
<1>1. /\ HeapFine(heap) /\ Len(heap) <= MaxObjects /\ Current = stack[1] /\ 1 \in DOMAIN stack
      /\ stack \in Seq(FrameSet)
  BY CurrentFine DEF Inv, Share
<1>2. o \in DOMAIN heap /\ o \in Nat \ {0} /\ Clear(heap, o) /\ Isolated(stack, n, o)
  BY OwnedFacts DEF Private, Confined
<1>. HIDE DEF o
<1>3. b \in Nat /\ b >= 1
  <2>1. DOMAIN stack = 1..Len(stack)
    BY <1>1, LenProperties
  <2>. QED BY <2>1
<1>4. Apart(Current, o) /\ \A l \in Visible : l.value # o
  <2>1. CASE b = 1
    <3>1. Apart(Current, o)
      BY <1>1, <1>2, <2>1 DEF Isolated
    <3>2. FieldsLeft
      BY <1>1, <2>1 DEF FieldsLeft, Initializing
    <3>. QED BY <3>1, <3>2 DEF Visible, Apart
  <2>2. CASE b # 1
    <3>1. Apart(Current, o) /\ NoLocal(Current, o)
      BY <1>1, <1>2, <1>3, <2>2 DEF Isolated
    <3>. QED BY <3>1 DEF Visible, Apart, NoLocal, Range
  <2>. QED BY <2>1, <2>2
<1>5. CASE e.cell # 0
  <2>0. PICK t \in 1..Main : \E f \in Field(t) :
          IsRef(heap, t, e.object) /\ e.cell = FieldCell(f) /\ e.type = FieldType(f)
    BY <1>5, ExpressionShape
  <2>1. PICK f \in Field(t) :
          IsRef(heap, t, e.object) /\ e.cell = FieldCell(f) /\ e.type = FieldType(f)
    BY <2>0
  <2>2. /\ e.cell <= Len(heap[e.object].cells)
        /\ Eval(e) = heap[e.object].cells[e.cell]
    BY <1>5 DEF Loaded, Inside, Cells, Eval
  <2>3. f \in Field(heap[e.object].class) /\ e.object \in DOMAIN heap
    BY <1>1, <2>1, <2>2, FieldInside, RefShape
  <2>. QED BY <1>2, <2>1, <2>2, <2>3 DEF Clear, o
<1>6. CASE e.cell = 0
  <2>1. Eval(e) = e.object
    BY <1>6 DEF Eval
  <2>2. CASE e = Operand(NumberType, Number, 0)
    <3>1. o <= Len(heap) /\ Len(heap) \in Nat /\ MaxObjects \in Nat
      BY <1>1, <1>2, ObjectTyped, BoundsAssumption
    <3>2. o # Number
      BY <1>1, <1>2, <3>1 DEF Number
    <3>. QED BY <2>1, <2>2, <3>2 DEF Operand, o
  <2>3. CASE e \in Direct
    BY <1>4, <2>1, <2>3 DEF Direct, Operand, Apart, o
  <2>4. CASE \E d \in Direct : e \in Members(d)
    <3>1. PICK d \in Direct : e \in Members(d)
      BY <2>4
    <3>2. d.type # NumberType /\ \E f \in Field(d.type) : e = Operand(FieldType(f), d.object, FieldCell(f))
      BY <3>1 DEF Members
    <3>3. d \in Expressions
      BY <3>1 DEF Expressions
    <3>4. d.type \in 1..Main
      BY <3>2, <3>3, ExpressionShape, ProgramFacts DEF NumberType
    <3>5. e.cell # 0
      BY <3>2, <3>4, FieldPlace DEF Operand
    <3>. QED BY <1>6, <3>5
  <2>. QED BY <2>2, <2>3, <2>4 DEF Expressions
<1>. QED BY <1>5, <1>6

\* A copy has no field that its original had not.
LEMMA CopyClear ==
  ASSUME program \in DOMAIN Programs, Inv(heap, stack), NEW e \in Expressions, Storable(e),
         NEW o, Clear(heap, o)
  PROVE  Clear(HeapWith(e), o)
<1>1. HeapFine(heap) /\ Loaded(e) /\ Copyable(e)
  BY DEF Inv, Storable
<1>2. CASE ~Copied(e)
  BY <1>2 DEF HeapWith
<1>3. CASE Copied(e)
  <2> DEFINE v == Eval(e)
  <2>1. e.type \in 1..Main /\ IsRef(heap, e.type, v)
    <3>1. e.type \in 0..Main /\ IsRef(heap, e.type, Eval(e))
      BY <1>1, Evaluated
    <3>. QED BY <1>3, <3>1, ProgramFacts DEF Copied, IsValue, NumberType
  <2>2. Size[e.type] <= Len(heap[v].cells) /\ v \in DOMAIN heap /\ Size[e.type] \in Nat
    BY <1>1, <1>3, <2>1, RefShape, SizesGrow DEF Copyable, Inside, Cells
  <2>. HIDE DEF v
  <2>3. ASSUME NEW f \in Field(e.type)
        PROVE  SubSeq(heap[v].cells, 1, Size[e.type])[FieldCell(f)] # o
    <3>1. FieldCell(f) \in 1..Size[e.type] /\ FieldCell(f) \in Nat
      BY <2>1, <2>2, FieldPlace
    <3>2. FieldCell(f) <= Len(heap[v].cells) /\ Len(heap[v].cells) \in Nat /\ heap[v].cells \in Seq(Nat)
      BY <1>1, <2>2, <3>1, ObjectTyped
    <3>3. f \in Field(heap[v].class)
      BY <1>1, <2>1, <3>2, FieldInside
    <3>4. SubSeq(heap[v].cells, 1, Size[e.type])[FieldCell(f)] = heap[v].cells[FieldCell(f)]
      BY <2>2, <3>1, <3>2
    <3>. QED BY <2>2, <3>3, <3>4 DEF Clear
  <2>4. HeapWith(e) = Append(heap, Copy(e)) /\ Copy(e).class = e.type
        /\ Copy(e).cells = SubSeq(heap[v].cells, 1, Size[e.type])
    BY <1>3 DEF HeapWith, Copy, Cells, v
  <2>. QED BY <1>1, <2>3, <2>4, AppendClear
<1>. QED BY <1>2, <1>3

LEMMA StoredFresh ==
  ASSUME program \in DOMAIN Programs, Inv(heap, stack), Share(heap, stack), NEW e \in Expressions,
         Storable(e)
  PROVE  /\ Len(HeapWith(e)) <= MaxObjects /\ Len(HeapWith(e)) \in Nat
         /\ Copied(e) => /\ Stored(e) = Len(heap) + 1 /\ Len(heap) < MaxObjects
                         /\ Stored(e) \in DOMAIN HeapWith(e) /\ HeapWith(e)[Stored(e)].copy
                         /\ Clear(HeapWith(e), Stored(e)) /\ Stored(e) # 0
<1>1. HeapFine(heap) /\ heap \in Seq(ObjectSet) /\ Len(heap) <= MaxObjects /\ MaxObjects \in Nat
  BY BoundsAssumption DEF Inv, HeapFine, Share
<1>2. Len(heap) \in Nat /\ DOMAIN heap = 1..Len(heap)
  BY <1>1, LenProperties
<1>3. CASE ~Copied(e)
  BY <1>1, <1>2, <1>3 DEF HeapWith
<1>4. CASE Copied(e)
  <2>1. /\ Stored(e) = Len(heap) + 1 /\ Len(heap) < MaxObjects /\ HeapWith(e) = Append(heap, Copy(e))
    BY <1>4 DEF Stored, Storable, HeapWith
  <2>2. /\ Len(HeapWith(e)) = Len(heap) + 1 /\ DOMAIN HeapWith(e) = 1..Len(heap) + 1
        /\ HeapWith(e)[Len(heap) + 1] = Copy(e)
    <3> DEFINE T == ObjectSet \cup {Copy(e)}
    <3>1. heap \in Seq(T) /\ Copy(e) \in T
      BY <1>1
    <3>. HIDE DEF T
    <3>. QED BY <2>1, <3>1, AppendProperties, LenProperties
  <2>3. Clear(HeapWith(e), Len(heap) + 1)
    BY <1>1, <2>1, FreshClear, CopyClear
  <2>4. Copy(e).copy
    BY DEF Copy
  <2>. QED BY <1>1, <1>2, <2>1, <2>2, <2>3, <2>4
<1>. QED BY <1>3, <1>4

-----------------------------------------------------------------------------
(* Changes of the stack: what a local owns stays its own. *)

LEMMA StepConfined ==
  ASSUME NEW s \in Seq(FrameSet), s # <<>>, NEW a \in FrameSet,
         a.class = s[1].class, a.this = s[1].this, a.super = s[1].super, a.results \subseteq s[1].results,
         NEW n \in DOMAIN s, NEW k, NEW o, Confined(s, n, k, o),
         \A j \in DOMAIN a.locals :
           a.locals[j].value = o => j \in DOMAIN s[1].locals /\ s[1].locals[j].value = o,
         Initializing(a) => Initializing(s[1]) \/ Apart(a, o)
  PROVE  Confined(<<a>> \o Tail(s), n, k, o)
<1> DEFINE z == <<a>> \o Tail(s)
<1>1. /\ Len(s) \in Nat \ {0} /\ DOMAIN s = 1..Len(s) /\ DOMAIN z = DOMAIN s
      /\ z[1] = a /\ \A m \in 2..Len(s) : z[m] = s[m]
  BY StackShapes
<1>2. 1 \in DOMAIN s /\ \A m \in DOMAIN s : m # 1 => z[m] = s[m]
  BY <1>1
<1>. HIDE DEF z
<1>3. Sole(z, n, k, o)
  <2>1. ASSUME NEW m \in DOMAIN s, NEW j \in DOMAIN z[m].locals, z[m].locals[j].value = o
        PROVE  (m = n /\ j = k) \/ SuperParameter(z[m], j)
    <3>1. CASE m = 1
      BY <1>1, <1>2, <2>1, <3>1 DEF Confined, Sole, SuperParameter
    <3>2. CASE m # 1
      BY <1>2, <2>1, <3>2 DEF Confined, Sole
    <3>. QED BY <3>1, <3>2
  <2>. QED BY <1>1, <2>1 DEF Sole
<1>4. \A m \in DOMAIN s : /\ Apart(s[m], o) => Apart(z[m], o)
                          /\ NoLocal(s[m], o) => NoLocal(z[m], o)
  <2>1. (Apart(s[1], o) => Apart(a, o)) /\ (NoLocal(s[1], o) => NoLocal(a, o))
    BY DEF Apart, NoLocal
  <2>. QED BY <1>1, <1>2, <2>1
<1>5. Isolated(z, n, o)
  <2>1. ASSUME NEW b \in DOMAIN s, b <= n, Initializing(z[b])
        PROVE  Apart(z[b], o) /\ \A i \in DOMAIN s : i < b => Apart(z[i], o) /\ NoLocal(z[i], o)
    <3>1. CASE Initializing(s[b])
      BY <1>4, <2>1, <3>1 DEF Confined, Isolated
    <3>2. CASE ~Initializing(s[b])
      <4>1. b = 1 /\ Apart(a, o)
        BY <1>1, <1>2, <2>1, <3>2
      <4>2. \A i \in DOMAIN s : ~(i < 1)
        BY <1>1
      <4>. QED BY <1>1, <4>1, <4>2
    <3>. QED BY <3>1, <3>2
  <2>. QED BY <1>1, <2>1 DEF Isolated
<1>. QED BY <1>3, <1>5 DEF Confined, z

LEMMA StepFresh ==
  ASSUME NEW s \in Seq(FrameSet), s # <<>>, NEW a \in FrameSet, NEW k, NEW o,
         \A m \in DOMAIN s : NoLocal(s[m], o), Apart(a, o),
         \A j \in DOMAIN a.locals : a.locals[j].value = o => j = k
  PROVE  Confined(<<a>> \o Tail(s), 1, k, o)
<1> DEFINE z == <<a>> \o Tail(s)
<1>1. /\ Len(s) \in Nat \ {0} /\ DOMAIN s = 1..Len(s) /\ DOMAIN z = DOMAIN s
      /\ z[1] = a /\ \A m \in 2..Len(s) : z[m] = s[m]
  BY StackShapes
<1>2. \A m \in DOMAIN s : m # 1 => z[m] = s[m]
  BY <1>1
<1>. HIDE DEF z
<1>3. Sole(z, 1, k, o)
  BY <1>1, <1>2 DEF Sole, NoLocal
<1>4. Isolated(z, 1, o)
  <2>1. \A b \in DOMAIN z : b <= 1 => b = 1 /\ \A i \in DOMAIN z : ~(i < b)
    BY <1>1
  <2>. QED BY <1>1, <2>1 DEF Isolated
<1>. QED BY <1>3, <1>4 DEF Confined, z

\* A call is made: a constructor or a method that has not begun to initialize.
LEMMA EnterConfined ==
  ASSUME NEW s \in Seq(FrameSet), s # <<>>, NEW a \in FrameSet, NEW c \in FrameSet,
         c.class = s[1].class, c.this = s[1].this, c.super = s[1].super, c.results \subseteq s[1].results,
         c.locals = s[1].locals, Initializing(c) => Initializing(s[1]), ~Initializing(a),
         NEW n \in DOMAIN s, NEW k, NEW o, Confined(s, n, k, o),
         \A j \in DOMAIN a.locals : a.locals[j].value = o => SuperParameter(a, j),
         (\E b \in DOMAIN s : b <= n /\ Initializing(s[b])) => Apart(a, o) /\ NoLocal(a, o)
  PROVE  Confined(<<a, c>> \o Tail(s), n + 1, k, o)
<1> DEFINE z == <<a, c>> \o Tail(s)
<1>1. /\ Len(s) \in Nat \ {0} /\ DOMAIN s = 1..Len(s) /\ DOMAIN z = 1..Len(s) + 1
      /\ z[1] = a /\ z[2] = c /\ \A m \in 2..Len(s) : z[m + 1] = s[m]
  BY StackShapes
<1>. HIDE DEF z
<1>2. ASSUME NEW m \in DOMAIN z, m # 1
      PROVE  /\ m - 1 \in DOMAIN s /\ z[m].locals = s[m - 1].locals
             /\ \A j : SuperParameter(z[m], j) <=> SuperParameter(s[m - 1], j)
             /\ Initializing(z[m]) => Initializing(s[m - 1])
             /\ Apart(s[m - 1], o) => Apart(z[m], o)
             /\ NoLocal(s[m - 1], o) => NoLocal(z[m], o)
  <2>1. m \in 2..Len(s) + 1 /\ m - 1 \in DOMAIN s
    BY <1>1, <1>2
  <2>2. CASE m = 2
    <3>1. z[m] = c /\ m - 1 = 1
      BY <1>1, <2>2
    <3>2. z[m].locals = s[1].locals /\ \A j : SuperParameter(z[m], j) <=> SuperParameter(s[1], j)
      BY <3>1 DEF SuperParameter
    <3>3. /\ Apart(s[1], o) => Apart(z[m], o)
          /\ NoLocal(s[1], o) => NoLocal(z[m], o)
      BY <3>1, <3>2 DEF Apart, NoLocal
    <3>. QED BY <2>1, <3>1, <3>2, <3>3
  <2>3. CASE m # 2
    <3>1. m - 1 \in 2..Len(s) /\ m - 1 + 1 = m
      BY <1>1, <2>1, <2>3
    <3>2. z[m] = s[m - 1]
      BY <1>1, <3>1
    <3>. QED BY <2>1, <3>2
  <2>. QED BY <2>2, <2>3
<1>3. Sole(z, n + 1, k, o)
  <2>1. ASSUME NEW m \in DOMAIN z, NEW j \in DOMAIN z[m].locals, z[m].locals[j].value = o
        PROVE  (m = n + 1 /\ j = k) \/ SuperParameter(z[m], j)
    <3>1. CASE m = 1
      BY <1>1, <2>1, <3>1
    <3>2. CASE m # 1
      <4>1. (m - 1 = n /\ j = k) \/ SuperParameter(s[m - 1], j)
        BY <1>2, <2>1, <3>2 DEF Confined, Sole
      <4>2. m - 1 = n => m = n + 1
        BY <1>1
      <4>. QED BY <1>2, <3>2, <4>1, <4>2
    <3>. QED BY <3>1, <3>2
  <2>. QED BY <2>1 DEF Sole
<1>4. Isolated(z, n + 1, o)
  <2>1. ASSUME NEW b \in DOMAIN z, b <= n + 1, Initializing(z[b])
        PROVE  Apart(z[b], o) /\ \A i \in DOMAIN z : i < b => Apart(z[i], o) /\ NoLocal(z[i], o)
    <3>1. b # 1
      BY <1>1, <2>1
    <3>2. b - 1 \in DOMAIN s /\ b - 1 <= n /\ Initializing(s[b - 1])
      BY <1>1, <1>2, <2>1, <3>1
    <3>3. /\ Apart(s[b - 1], o)
          /\ \A i \in DOMAIN s : i < b - 1 => Apart(s[i], o) /\ NoLocal(s[i], o)
      BY <3>2 DEF Confined, Isolated
    <3>4. ASSUME NEW i \in DOMAIN z, i < b PROVE Apart(z[i], o) /\ NoLocal(z[i], o)
      <4>1. CASE i = 1
        BY <1>1, <3>2, <4>1
      <4>2. CASE i # 1
        <5>1. i - 1 \in DOMAIN s /\ i - 1 < b - 1
          BY <1>1, <1>2, <3>4, <4>2
        <5>. QED BY <1>2, <3>3, <4>2, <5>1
      <4>. QED BY <4>1, <4>2
    <3>. QED BY <1>2, <3>1, <3>3, <3>4
  <2>. QED BY <2>1 DEF Isolated
<1>. QED BY <1>3, <1>4 DEF Confined, z

LEMMA EnterFresh ==
  ASSUME NEW s \in Seq(FrameSet), s # <<>>, NEW a \in FrameSet, NEW c \in FrameSet,
         c.locals = s[1].locals, ~Initializing(a), NEW k, NEW o, \A m \in DOMAIN s : NoLocal(s[m], o),
         \A j \in DOMAIN a.locals : a.locals[j].value = o => j = k
  PROVE  Confined(<<a, c>> \o Tail(s), 1, k, o)
<1> DEFINE z == <<a, c>> \o Tail(s)
<1>1. /\ Len(s) \in Nat \ {0} /\ DOMAIN s = 1..Len(s) /\ DOMAIN z = 1..Len(s) + 1
      /\ z[1] = a /\ z[2] = c /\ \A m \in 2..Len(s) : z[m + 1] = s[m]
  BY StackShapes
<1>. HIDE DEF z
<1>2. ASSUME NEW m \in DOMAIN z, m # 1 PROVE NoLocal(z[m], o)
  <2>1. CASE m = 2
    BY <1>1, <2>1 DEF NoLocal
  <2>2. CASE m # 2
    <3>1. m - 1 \in 2..Len(s) /\ m - 1 + 1 = m /\ m - 1 \in DOMAIN s
      BY <1>1, <1>2, <2>2
    <3>2. z[m] = s[m - 1]
      BY <1>1, <3>1
    <3>. QED BY <3>1, <3>2
  <2>. QED BY <2>1, <2>2
<1>3. Sole(z, 1, k, o)
  BY <1>1, <1>2 DEF Sole, NoLocal
<1>4. Isolated(z, 1, o)
  <2>1. \A b \in DOMAIN z : b <= 1 => b = 1
    BY <1>1
  <2>. QED BY <1>1, <2>1 DEF Isolated
<1>. QED BY <1>3, <1>4 DEF Confined, z

\* The caller goes on, with more results.
LEMMA PopConfined ==
  ASSUME NEW s \in Seq(FrameSet), 2 \in DOMAIN s, NEW c \in FrameSet,
         c.class = s[2].class, c.this = s[2].this, c.super = s[2].super, c.locals = s[2].locals,
         Initializing(c) => Initializing(s[2]),
         NEW n \in DOMAIN s, n >= 2, NEW k, NEW o, Confined(s, n, k, o),
         (\E b \in DOMAIN s : b <= n /\ Initializing(s[b])) =>
           \A r \in c.results : r \in s[2].results \/ r.value # o
  PROVE  Confined(<<c>> \o Tail(Tail(s)), n - 1, k, o)
<1> DEFINE t == Tail(s)
           z == <<c>> \o Tail(t)
<1>1. Len(s) \in Nat /\ DOMAIN s = 1..Len(s) /\ Len(s) >= 2 /\ s # <<>>
  BY LenProperties
<1>2. t \in Seq(FrameSet) /\ Len(t) = Len(s) - 1 /\ \A i \in 1..Len(s) - 1 : t[i] = s[i + 1]
  BY <1>1, HeadTailProperties
<1>3. t # <<>>
  <2>1. Len(t) # 0
    BY <1>1, <1>2
  <2>. HIDE DEF t
  <2>. QED BY <1>2, <2>1
<1>. HIDE DEF t
<1>4. DOMAIN z = 1..Len(s) - 1 /\ z[1] = c /\ \A m \in 2..Len(s) - 1 : z[m] = t[m]
  BY <1>2, <1>3, StackShapes
<1>. HIDE DEF z
<1>5. \A m \in DOMAIN z : m # 1 => z[m] = s[m + 1]
  <2>1. ASSUME NEW m \in DOMAIN z, m # 1 PROVE z[m] = s[m + 1]
    <3>1. m \in 2..Len(s) - 1 /\ m \in 1..Len(s) - 1
      BY <1>1, <1>4, <2>1
    <3>. QED BY <1>2, <1>4, <3>1
  <2>. QED BY <2>1
<1>6. ASSUME NEW m \in DOMAIN z
      PROVE  /\ m + 1 \in DOMAIN s /\ z[m].locals = s[m + 1].locals
             /\ \A j : SuperParameter(z[m], j) <=> SuperParameter(s[m + 1], j)
             /\ Initializing(z[m]) => Initializing(s[m + 1])
             /\ NoLocal(s[m + 1], o) => NoLocal(z[m], o)
             /\ Apart(s[m + 1], o) /\ (\E b \in DOMAIN s : b <= n /\ Initializing(s[b])) => Apart(z[m], o)
  <2>1. m + 1 \in DOMAIN s
    BY <1>1, <1>4
  <2>2. CASE m = 1
    <3>1. z[m] = c /\ m + 1 = 2
      BY <1>4, <2>2
    <3>2. z[m].locals = s[2].locals /\ \A j : SuperParameter(z[m], j) <=> SuperParameter(s[2], j)
      BY <3>1 DEF SuperParameter
    <3>3. NoLocal(s[2], o) => NoLocal(z[m], o)
      BY <3>2 DEF NoLocal
    <3>4. Apart(s[2], o) /\ (\E b \in DOMAIN s : b <= n /\ Initializing(s[b])) => Apart(z[m], o)
      BY <3>1 DEF Apart
    <3>. QED BY <2>1, <3>1, <3>2, <3>3, <3>4
  <2>3. CASE m # 1
    BY <1>5, <2>1, <2>3
  <2>. QED BY <2>2, <2>3
<1>7. Sole(z, n - 1, k, o)
  <2>1. ASSUME NEW m \in DOMAIN z, NEW j \in DOMAIN z[m].locals, z[m].locals[j].value = o
        PROVE  (m = n - 1 /\ j = k) \/ SuperParameter(z[m], j)
    <3>1. (m + 1 = n /\ j = k) \/ SuperParameter(s[m + 1], j)
      BY <1>6, <2>1 DEF Confined, Sole
    <3>2. m + 1 = n => m = n - 1
      BY <1>4
    <3>. QED BY <1>6, <3>1, <3>2
  <2>. QED BY <2>1 DEF Sole
<1>8. Isolated(z, n - 1, o)
  <2>1. ASSUME NEW b \in DOMAIN z, b <= n - 1, Initializing(z[b])
        PROVE  Apart(z[b], o) /\ \A i \in DOMAIN z : i < b => Apart(z[i], o) /\ NoLocal(z[i], o)
    <3>1. b + 1 \in DOMAIN s /\ b + 1 <= n /\ Initializing(s[b + 1])
      BY <1>1, <1>4, <1>6, <2>1
    <3>2. /\ Apart(s[b + 1], o)
          /\ \A i \in DOMAIN s : i < b + 1 => Apart(s[i], o) /\ NoLocal(s[i], o)
      BY <3>1 DEF Confined, Isolated
    <3>3. ASSUME NEW i \in DOMAIN z, i < b PROVE Apart(z[i], o) /\ NoLocal(z[i], o)
      <4>1. i + 1 \in DOMAIN s /\ i + 1 < b + 1
        BY <1>4, <1>6, <3>3
      <4>. QED BY <1>6, <3>1, <3>2, <4>1
    <3>. QED BY <1>6, <3>1, <3>2, <3>3
  <2>. QED BY <2>1 DEF Isolated
<1>. QED BY <1>7, <1>8 DEF Confined, z, t

-----------------------------------------------------------------------------
(* Steps, calls and returns keep what locals own. *)

LEMMA StackTyped ==
  ASSUME program \in DOMAIN Programs, Inv(heap, stack)
  PROVE  /\ HeapFine(heap) /\ stack \in Seq(FrameSet) /\ stack # <<>> /\ Current = stack[1]
         /\ Current \in FrameSet /\ DOMAIN stack = 1..Len(stack) /\ Len(stack) \in Nat \ {0}
         /\ \A n \in DOMAIN stack : stack[n] \in FrameSet
<1>1. HeapFine(heap) /\ stack \in Seq(FrameSet) /\ stack # <<>> /\ Current = stack[1] /\ Current \in FrameSet
  BY CurrentFine DEF Inv
<1>2. \A n \in DOMAIN stack : stack[n] \in FrameSet
  BY DEF Inv, FramesFine, FrameFine
<1>. QED BY <1>1, <1>2, LenProperties

Unowned(v)    == \A n, k : Owned(n, k) => v # Value(n, k)
Unknown(g, v) == /\ v \in DOMAIN g /\ g[v].copy /\ Clear(g, v)
                 /\ \A m \in DOMAIN stack : NoLocal(stack[m], v) /\ Apart(stack[m], v)
SameBut(a, new) ==
  \A j \in DOMAIN a.locals : j # new => j \in DOMAIN Current.locals /\ a.locals[j] = Current.locals[j]

\* One local at most is new, or assigned to, and what it then owns is known nowhere yet.
LEMMA StepShare ==
  ASSUME program \in DOMAIN Programs, Inv(heap, stack), Share(heap, stack),
         NEW g, Len(g) <= MaxObjects, KeepsCopies(heap, g),
         \A n, k : Owned(n, k) => Clear(g, Value(n, k)),
         NEW a \in FrameSet, a.class = Current.class, a.this = Current.this, a.super = Current.super,
         a.results \subseteq Current.results, Quiet(a),
         Initializing(a) => Initializing(Current) \/ Current.stage = "table",
         NEW new, SameBut(a, new), NEW v,
         new \in DOMAIN a.locals =>
           a.locals[new].value = v /\ Unowned(v) /\ (Owns(a, new) => Unknown(g, v))
  PROVE  Share(g, <<a>> \o Tail(stack))
<1> DEFINE z == <<a>> \o Tail(stack)
<1>1. /\ HeapFine(heap) /\ stack \in Seq(FrameSet) /\ stack # <<>> /\ Current = stack[1]
      /\ DOMAIN stack = 1..Len(stack) /\ Len(stack) \in Nat \ {0}
  BY StackTyped
<1>2. DOMAIN z = DOMAIN stack /\ z[1] = a /\ \A m \in DOMAIN stack : m # 1 => z[m] = stack[m]
  <2>1. DOMAIN z = 1..Len(stack) /\ z[1] = a /\ \A m \in 2..Len(stack) : z[m] = stack[m]
    BY <1>1, StackShapes
  <2>. HIDE DEF z
  <2>. QED BY <1>1, <2>1
<1>3. \A n \in DOMAIN stack : Quiet(z[n]) /\ AwaitsSuper(z, n)
  <2>. HIDE DEF z
  <2>1. \A n \in DOMAIN stack : n + 1 # 1 /\ z[n].super = stack[n].super
    BY <1>1, <1>2
  <2>2. \A n \in DOMAIN stack : Quiet(z[n])
    BY <1>1, <1>2 DEF Share
  <2>. QED BY <1>2, <2>1, <2>2 DEF Share, AwaitsSuper
<1>4. ASSUME NEW n \in DOMAIN stack, NEW k, Owned(n, k)
      PROVE  LET o == Value(n, k) IN o \in DOMAIN g /\ g[o].copy /\ Clear(g, o) /\ Confined(z, n, k, o)
  <2> DEFINE o == Value(n, k)
  <2>1. Private(heap, stack, n, k, o)
    BY <1>4, OwnedFacts
  <2>2. o \in DOMAIN g /\ g[o].copy /\ Clear(g, o)
    BY <1>4, <2>1 DEF Private, KeepsCopies
  <2>3. \A j \in DOMAIN a.locals :
          a.locals[j].value = o => j \in DOMAIN stack[1].locals /\ stack[1].locals[j].value = o
    BY <1>1, <1>4 DEF SameBut, Unowned
  <2>4. Initializing(a) => Initializing(stack[1]) \/ Apart(a, o)
    <3>1. CASE Current.stage = "table"
      <4>1. Current.results = {} /\ FrameFine(heap, Current)
        BY <1>1, <3>1, CurrentFine DEF Share, Quiet
      <4>2. ~heap[Current.this].copy /\ heap[o].copy
        BY <2>1, <3>1, <4>1 DEF FrameFine, Private
      <4>3. a.this # o /\ a.results = {}
        BY <4>1, <4>2
      <4>. QED BY <4>3 DEF Apart
    <3>. QED BY <1>1, <3>1
  <2>5. Confined(stack, n, k, o)
    BY <2>1 DEF Private
  <2>. HIDE DEF o
  <2>6. Confined(z, n, k, o)
    BY <1>1, <2>3, <2>4, <2>5, StepConfined
  <2>. QED BY <2>2, <2>6 DEF o
<1>5. ASSUME new \in DOMAIN a.locals, Owns(a, new)
      PROVE  v \in DOMAIN g /\ g[v].copy /\ Clear(g, v) /\ Confined(z, 1, new, v)
  <2>1. /\ v \in DOMAIN g /\ g[v].copy /\ Clear(g, v) /\ Apart(Current, v)
        /\ \A m \in DOMAIN stack : NoLocal(stack[m], v)
    BY <1>1, <1>5 DEF Unknown
  <2>2. Apart(a, v)
    BY <2>1 DEF Apart
  <2>3. \A j \in DOMAIN a.locals : a.locals[j].value = v => j = new
    <3>1. NoLocal(Current, v)
      BY <1>1, <2>1
    <3>. QED BY <3>1 DEF NoLocal, SameBut
  <2>. QED BY <1>1, <2>1, <2>2, <2>3, StepFresh
<1>. HIDE DEF z
<1>6. ASSUME NEW n \in DOMAIN stack, NEW k \in DOMAIN z[n].locals, Owns(z[n], k)
      PROVE  Private(g, z, n, k, z[n].locals[k].value)
  <2>1. CASE n = 1 /\ k = new
    <3>1. z[n] = a
      BY <1>2, <2>1
    <3>. QED BY <1>5, <1>6, <2>1, <3>1 DEF Private
  <2>2. CASE ~(n = 1 /\ k = new)
    <3>1. Owned(n, k) /\ z[n].locals[k].value = Value(n, k)
      <4>1. CASE n = 1
        <5>1. z[n] = a /\ k # new /\ k \in DOMAIN a.locals
          BY <1>2, <1>6, <2>2, <4>1
        <5>2. k \in DOMAIN Current.locals /\ a.locals[k] = Current.locals[k]
          BY <5>1 DEF SameBut
        <5>3. Owns(Current, k)
          BY <1>6, <5>1, <5>2 DEF Owns, SuperParameter
        <5>. QED BY <1>1, <4>1, <5>1, <5>2, <5>3 DEF Owned, Value
      <4>2. CASE n # 1
        <5>1. z[n] = stack[n]
          BY <1>2, <4>2
        <5>. QED BY <1>6, <5>1 DEF Owned, Value
      <4>. QED BY <4>1, <4>2
    <3>. QED BY <1>4, <3>1 DEF Private
  <2>. QED BY <2>1, <2>2
<1>. QED BY <1>2, <1>3, <1>6 DEF Share, z

\* A call: what its parameters own is known nowhere yet, and they hold nothing that is
\* owned, unless they are those of super.
LEMMA EnterShare ==
  ASSUME program \in DOMAIN Programs, Inv(heap, stack), Share(heap, stack),
         NEW g, Len(g) <= MaxObjects, KeepsCopies(heap, g),
         \A n, k : Owned(n, k) => Clear(g, Value(n, k)),
         NEW a \in FrameSet, NEW c \in FrameSet,
         c.class = Current.class, c.this = Current.this, c.super = Current.super,
         c.results \subseteq Current.results, c.locals = Current.locals, Quiet(c), Quiet(a),
         c.stage = "table" => a.super,
         Initializing(c) => Initializing(Current), ~Initializing(a),
         \A n, k : Owned(n, k) => \A j \in DOMAIN a.locals :
           a.locals[j].value = Value(n, k) => SuperParameter(a, j),
         \A n, k : Owned(n, k) => \A b \in DOMAIN stack :
           b <= n /\ Initializing(stack[b]) => Apart(a, Value(n, k)) /\ NoLocal(a, Value(n, k)),
         \A j \in DOMAIN a.locals : Owns(a, j) => LET v == a.locals[j].value IN
           /\ v \in DOMAIN g /\ g[v].copy /\ Clear(g, v)
           /\ \A m \in DOMAIN stack : NoLocal(stack[m], v)
           /\ \A i \in DOMAIN a.locals : a.locals[i].value = v => i = j
  PROVE  Share(g, <<a, c>> \o Tail(stack))
<1> DEFINE z == <<a, c>> \o Tail(stack)
<1>1. /\ HeapFine(heap) /\ stack \in Seq(FrameSet) /\ stack # <<>> /\ Current = stack[1]
      /\ DOMAIN stack = 1..Len(stack) /\ Len(stack) \in Nat \ {0}
  BY StackTyped
<1>2. /\ DOMAIN z = 1..Len(stack) + 1 /\ z[1] = a /\ z[2] = c
      /\ \A m \in 2..Len(stack) : z[m + 1] = stack[m]
  BY <1>1, StackShapes
<1>. HIDE DEF z
<1>3. ASSUME NEW n \in DOMAIN z, n # 1
      PROVE  /\ n - 1 \in DOMAIN stack /\ n - 1 + 1 = n
             /\ n = 2 => z[n] = c /\ stack[n - 1] = Current
             /\ n # 2 => z[n] = stack[n - 1]
  <2>1. n - 1 \in 1..Len(stack) /\ n - 1 + 1 = n
    BY <1>1, <1>2, <1>3
  <2>2. n # 2 => n - 1 \in 2..Len(stack)
    BY <1>1, <1>2, <1>3
  <2>3. n = 2 => n - 1 = 1
    OBVIOUS
  <2>. QED BY <1>1, <1>2, <2>1, <2>2, <2>3
<1>4. ASSUME NEW n \in DOMAIN z PROVE Quiet(z[n]) /\ AwaitsSuper(z, n)
  <2>1. Quiet(z[n])
    BY <1>2, <1>3 DEF Share
  <2>2. ASSUME n + 1 \in DOMAIN z, z[n + 1].stage = "table" PROVE z[n].super
    <3>1. CASE n = 1
      <4>1. z[n + 1] = c /\ z[n] = a
        BY <1>2, <3>1
      <4>. QED BY <2>2, <4>1
    <3>2. CASE n # 1
      <4>1. n \in DOMAIN stack /\ z[n + 1] = stack[n]
        <5> DEFINE m == n + 1
        <5>1. m \in DOMAIN z
          BY <2>2
        <5>2. m # 1 /\ m # 2 /\ m - 1 = n
          BY <1>1, <1>2, <3>2
        <5>. HIDE DEF m
        <5>3. m - 1 \in DOMAIN stack /\ z[m] = stack[m - 1]
          BY <1>3, <5>1, <5>2
        <5>. QED BY <5>2, <5>3 DEF m
      <4>2. n - 1 \in DOMAIN stack /\ n - 1 + 1 = n /\ z[n].super = stack[n - 1].super
        BY <1>3, <3>2
      <4>3. AwaitsSuper(stack, n - 1)
        BY <4>2 DEF Share
      <4>. QED BY <2>2, <4>1, <4>2, <4>3 DEF AwaitsSuper
    <3>. QED BY <3>1, <3>2
  <2>. QED BY <2>1, <2>2 DEF AwaitsSuper
<1>5. ASSUME NEW n \in DOMAIN stack, NEW k, Owned(n, k)
      PROVE  Private(g, z, n + 1, k, Value(n, k))
  <2> DEFINE o == Value(n, k)
  <2>1. Private(heap, stack, n, k, o)
    BY <1>5, OwnedFacts
  <2>2. o \in DOMAIN g /\ g[o].copy /\ Clear(g, o)
    BY <1>5, <2>1 DEF Private, KeepsCopies
  <2>3. \A j \in DOMAIN a.locals : a.locals[j].value = o => SuperParameter(a, j)
    BY <1>5
  <2>4. (\E b \in DOMAIN stack : b <= n /\ Initializing(stack[b])) => Apart(a, o) /\ NoLocal(a, o)
    BY <1>5
  <2>5. Confined(stack, n, k, o)
    BY <2>1 DEF Private
  <2>. HIDE DEF o
  <2>6. Confined(z, n + 1, k, o)
    BY <1>1, <2>3, <2>4, <2>5, EnterConfined DEF z
  <2>. QED BY <2>2, <2>6 DEF o, Private
<1>6. ASSUME NEW j \in DOMAIN a.locals, Owns(a, j)
      PROVE  Private(g, z, 1, j, a.locals[j].value)
  <2> DEFINE v == a.locals[j].value
  <2>1. /\ v \in DOMAIN g /\ g[v].copy /\ Clear(g, v) /\ \A m \in DOMAIN stack : NoLocal(stack[m], v)
        /\ \A i \in DOMAIN a.locals : a.locals[i].value = v => i = j
    BY <1>6
  <2>. HIDE DEF v
  <2>2. Confined(z, 1, j, v)
    BY <1>1, <2>1, EnterFresh DEF z
  <2>. QED BY <2>1, <2>2 DEF v, Private
<1>7. ASSUME NEW n \in DOMAIN z, NEW k \in DOMAIN z[n].locals, Owns(z[n], k)
      PROVE  Private(g, z, n, k, z[n].locals[k].value)
  <2>1. CASE n = 1
    BY <1>2, <1>6, <1>7, <2>1
  <2>2. CASE n # 1
    <3>1. n - 1 \in DOMAIN stack /\ n - 1 + 1 = n
      BY <1>3, <2>2
    <3>2. Owned(n - 1, k) /\ z[n].locals[k].value = Value(n - 1, k)
      <4>1. CASE n = 2
        <5>1. z[n] = c /\ stack[n - 1] = Current
          BY <1>3, <2>2, <4>1
        <5>2. Owns(Current, k)
          BY <1>7, <5>1 DEF Owns, SuperParameter
        <5>. QED BY <1>7, <3>1, <5>1, <5>2 DEF Owned, Value
      <4>2. CASE n # 2
        <5>1. z[n] = stack[n - 1]
          BY <1>3, <2>2, <4>2
        <5>. QED BY <1>7, <3>1, <5>1 DEF Owned, Value
      <4>. QED BY <4>1, <4>2
    <3>. QED BY <1>5, <3>1, <3>2
  <2>. QED BY <2>1, <2>2
<1>. QED BY <1>4, <1>7 DEF Share, z

\* A return: the caller gets no result that it must not know.
LEMMA PopShare ==
  ASSUME program \in DOMAIN Programs, Inv(heap, stack), Share(heap, stack), 2 \in DOMAIN stack,
         NEW c \in FrameSet, c.class = stack[2].class, c.this = stack[2].this, c.super = stack[2].super,
         c.locals = stack[2].locals, c.stage = stack[2].stage, c.item = stack[2].item, Quiet(c),
         \A r \in c.results : r \in stack[2].results \/
           \A n, k : Owned(n, k) => \A b \in DOMAIN stack :
             b <= n /\ Initializing(stack[b]) => r.value # Value(n, k)
  PROVE  Share(heap, <<c>> \o Tail(Tail(stack)))
<1> DEFINE t == Tail(stack)
           z == <<c>> \o Tail(t)
<1>1. /\ stack \in Seq(FrameSet) /\ stack # <<>>
      /\ DOMAIN stack = 1..Len(stack) /\ Len(stack) \in Nat /\ Len(stack) >= 2
  BY StackTyped
<1>2. t \in Seq(FrameSet) /\ Len(t) = Len(stack) - 1 /\ \A i \in 1..Len(stack) - 1 : t[i] = stack[i + 1]
  BY <1>1, HeadTailProperties
<1>3. t # <<>>
  <2>1. Len(t) # 0
    BY <1>1, <1>2
  <2>. HIDE DEF t
  <2>. QED BY <1>2, <2>1
<1>. HIDE DEF t
<1>4. DOMAIN z = 1..Len(stack) - 1 /\ z[1] = c /\ \A m \in 2..Len(stack) - 1 : z[m] = t[m]
  BY <1>2, <1>3, StackShapes
<1>. HIDE DEF z
<1>5. ASSUME NEW m \in DOMAIN z
      PROVE  /\ m + 1 \in DOMAIN stack /\ m + 1 - 1 = m /\ m + 1 >= 2
             /\ m # 1 => z[m] = stack[m + 1]
             /\ z[m].locals = stack[m + 1].locals /\ z[m].super = stack[m + 1].super
             /\ z[m].class = stack[m + 1].class /\ z[m].stage = stack[m + 1].stage /\ Quiet(z[m])
  <2>1. m + 1 \in DOMAIN stack /\ m + 1 - 1 = m /\ m + 1 >= 2
    BY <1>1, <1>4
  <2>2. CASE m = 1
    <3>1. z[m] = c /\ m + 1 = 2
      BY <1>4, <2>2
    <3>. QED BY <2>1, <2>2, <3>1
  <2>3. CASE m # 1
    <3>1. m \in 2..Len(stack) - 1 /\ m \in 1..Len(stack) - 1
      BY <1>1, <1>4, <2>3
    <3>2. z[m] = stack[m + 1]
      BY <1>2, <1>4, <3>1
    <3>. QED BY <2>1, <3>2 DEF Share
  <2>. QED BY <2>2, <2>3
<1>6. ASSUME NEW n \in DOMAIN z PROVE AwaitsSuper(z, n)
  <2>1. ASSUME n + 1 \in DOMAIN z, z[n + 1].stage = "table" PROVE z[n].super
    <3>1. AwaitsSuper(stack, n + 1)
      BY <1>5 DEF Share
    <3>. QED BY <1>5, <2>1, <3>1 DEF AwaitsSuper
  <2>. QED BY <2>1 DEF AwaitsSuper
<1>7. ASSUME NEW n \in DOMAIN z, NEW k \in DOMAIN z[n].locals, Owns(z[n], k)
      PROVE  Private(heap, z, n, k, z[n].locals[k].value)
  <2> DEFINE o == Value(n + 1, k)
  <2>1. n + 1 \in DOMAIN stack /\ Owned(n + 1, k) /\ z[n].locals[k].value = o
    BY <1>5, <1>7 DEF Owned, Owns, SuperParameter, Value
  <2>2. Private(heap, stack, n + 1, k, o)
    BY <2>1, OwnedFacts
  <2>3. (\E b \in DOMAIN stack : b <= n + 1 /\ Initializing(stack[b])) =>
          \A r \in c.results : r \in stack[2].results \/ r.value # o
    BY <2>1
  <2>4. Initializing(c) => Initializing(stack[2])
    BY DEF Initializing
  <2>5. Confined(stack, n + 1, k, o) /\ n + 1 >= 2 /\ n + 1 - 1 = n
    BY <1>5, <2>2 DEF Private
  <2>. HIDE DEF o
  <2>6. Confined(z, n + 1 - 1, k, o)
    <3> DEFINE m == n + 1
    <3>1. m \in DOMAIN stack /\ m >= 2 /\ Confined(stack, m, k, o) /\ 2 \in DOMAIN stack
      BY <2>1, <2>5
    <3>2. (\E b \in DOMAIN stack : b <= m /\ Initializing(stack[b])) =>
            \A r \in c.results : r \in stack[2].results \/ r.value # o
      BY <2>3
    <3>. HIDE DEF m
    <3>3. Confined(<<c>> \o Tail(Tail(stack)), m - 1, k, o)
      BY <1>1, <2>4, <3>1, <3>2, PopConfined
    <3>. QED BY <3>3 DEF m, z, t
  <2>. QED BY <2>1, <2>2, <2>5, <2>6 DEF Private
<1>. QED BY <1>5, <1>6, <1>7 DEF Share, z, t

-----------------------------------------------------------------------------
(* The frames of the actions. *)

LEMMA TopOf ==
  ASSUME NEW S, NEW s \in Seq(S), s # <<>>, NEW T, NEW a, NEW b
  PROVE  /\ <<a>> \o Tail(s) \in Seq(T) => a \in T
         /\ <<a, b>> \o Tail(s) \in Seq(T) => a \in T /\ b \in T
<1> DEFINE U == S \cup {a, b}
           x == <<a>> \o Tail(s)
           y == <<a, b>> \o Tail(s)
<1>1. s \in Seq(U) /\ a \in U /\ b \in U
  OBVIOUS
<1>. HIDE DEF U
<1>2. /\ Len(s) \in Nat \ {0} /\ x[1] = a /\ DOMAIN x = 1..Len(s)
      /\ y[1] = a /\ y[2] = b /\ DOMAIN y = 1..Len(s) + 1
  BY <1>1, StackShapes
<1>. HIDE DEF x, y
<1>3. 1 \in DOMAIN x /\ 1 \in DOMAIN y /\ 2 \in DOMAIN y
  BY <1>2
<1>4. ASSUME x \in Seq(T) PROVE a \in T
  <2>1. 1 \in 1..Len(x)
    BY <1>3, <1>4, LenProperties
  <2>. QED BY <1>2, <1>4, <2>1, ElementOfSeq
<1>5. ASSUME y \in Seq(T) PROVE a \in T /\ b \in T
  <2>1. 1 \in 1..Len(y) /\ 2 \in 1..Len(y)
    BY <1>3, <1>5, LenProperties
  <2>. QED BY <1>2, <1>5, <2>1, ElementOfSeq
<1>. QED BY <1>4, <1>5 DEF x, y

LEMMA NextTop ==
  ASSUME program \in DOMAIN Programs, Inv(heap, stack), NEW g, NEW a, NEW b
  PROVE  /\ Inv(g, <<a>> \o Tail(stack)) => a \in FrameSet
         /\ Inv(g, <<a, b>> \o Tail(stack)) => a \in FrameSet /\ b \in FrameSet
BY StackTyped, TopOf DEF Inv, FramesFine

\* What a constructor starts with.
Constructor(a, c, o, values) ==
  /\ a.class = c /\ a.this = o /\ a.stage \in {"super", "table"} /\ a.results = {}
  /\ a.locals = Parameters(Classes[c].ctor, values)

LEMMA ConstructShape ==
  ASSUME NEW c, NEW o, NEW values, NEW a, Constructor(a, c, o, values)
  PROVE  /\ a.class = c /\ a.this = o /\ a.results = {}
         /\ Quiet(a) /\ ~Initializing(a) /\ DOMAIN a.locals = DOMAIN Classes[c].ctor
         /\ \A k \in DOMAIN a.locals :
              a.locals[k].type = Classes[c].ctor[k] /\ a.locals[k].value = values[k]
<1> DEFINE locals == [k \in DOMAIN Classes[c].ctor |-> Local(Classes[c].ctor[k], values[k])]
<1>1. /\ a.class = c /\ a.this = o /\ a.results = {} /\ a.locals = locals
      /\ a.stage # "method" /\ a.stage # "init"
  BY DEF Constructor, Parameters
<1>2. /\ DOMAIN locals = DOMAIN Classes[c].ctor
      /\ \A k \in DOMAIN locals : locals[k].type = Classes[c].ctor[k] /\ locals[k].value = values[k]
  BY DEF Local
<1>. HIDE DEF locals
<1>. QED BY <1>1, <1>2 DEF Quiet, Initializing

LEMMA InvokeShape ==
  ASSUME NEW c, NEW o, NEW v, NEW a, a = Invoke(c, o, v)
  PROVE  /\ a.class = c /\ a.this = o /\ ~a.super /\ a.results = {}
         /\ Quiet(a) /\ ~Initializing(a) /\ DOMAIN a.locals = {1}
         /\ a.locals[1].type = Param /\ a.locals[1].value = v
<1> DEFINE locals == [k \in DOMAIN <<Param>> |-> Local(<<Param>>[k], <<v>>[k])]
<1>1. a = [class |-> c, this |-> o, stage |-> "method", super |-> FALSE, item |-> 1,
           locals |-> locals, results |-> {}]
  BY DEF Invoke, Frame, Parameters
<1>2. /\ a.class = c /\ a.this = o /\ a.super = FALSE /\ a.results = {} /\ a.locals = locals
      /\ a.stage = "method"
  BY <1>1
<1>3. DOMAIN locals = {1} /\ locals[1].type = Param /\ locals[1].value = v
  BY DEF Local
<1>. HIDE DEF locals
<1>. QED BY <1>2, <1>3 DEF Quiet, Initializing

\* An address that is not given out yet is known to no call.
LEMMA FreshUnknown ==
  ASSUME program \in DOMAIN Programs, Inv(heap, stack), Len(heap) < MaxObjects, NEW m \in DOMAIN stack
  PROVE  NoLocal(stack[m], Len(heap) + 1) /\ Apart(stack[m], Len(heap) + 1)
<1> DEFINE o == Len(heap) + 1
<1>1. HeapFine(heap) /\ FrameFine(heap, stack[m]) /\ stack[m] \in FrameSet
  BY DEF Inv, FramesFine, FrameFine
<1>2. (\A t, v : IsRef(heap, t, v) => v # o) /\ o \notin DOMAIN heap
  <2>1. heap \in Seq(ObjectSet)
    BY <1>1 DEF HeapFine
  <2>2. Len(heap) \in Nat /\ DOMAIN heap = 1..Len(heap)
    BY <2>1, LenProperties
  <2>. QED BY <1>1, <2>2, FreshClear
<1>. HIDE DEF o
<1>3. stack[m].this # o
  BY <1>1, <1>2 DEF FrameFine
<1>4. \A l \in Range(stack[m].locals) \cup stack[m].results : l.value # o
  BY <1>1, <1>2 DEF FrameFine
<1>5. NoLocal(stack[m], o)
  BY <1>4 DEF NoLocal, Range
<1>. QED BY <1>3, <1>4, <1>5 DEF Apart, o

\* What is stored of a value is a copy that nobody knows.
LEMMA StoredUnknown ==
  ASSUME program \in DOMAIN Programs, Inv(heap, stack), Share(heap, stack), NEW e \in Expressions,
         Storable(e), NEW t \in 0..Main, IsSubtype(e.type, t), IsValue(t)
  PROVE  Unknown(HeapWith(e), Stored(e)) /\ Stored(e) # 0
<1>1. Loaded(e)
  BY DEF Storable
<1>2. e.type \in 0..Main
  BY <1>1, Evaluated
<1>3. Copied(e)
  BY <1>2, SubtypeValue DEF Copied
<1>. QED BY <1>3, StoredFresh, FreshUnknown DEF Unknown

LEMMA StoredClear ==
  ASSUME program \in DOMAIN Programs, Inv(heap, stack), Share(heap, stack), NEW e \in Expressions,
         Storable(e), NEW n, NEW k, Owned(n, k)
  PROVE  Clear(HeapWith(e), Value(n, k)) /\ Value(n, k) # 0 /\ Value(n, k) \in DOMAIN heap
BY OwnedFacts, CopyClear DEF Private

LEMMA StoredKeeps ==
  ASSUME program \in DOMAIN Programs, Inv(heap, stack), NEW e \in Expressions, Storable(e)
  PROVE  KeepsCopies(heap, HeapWith(e))
BY StoredFine DEF Extends, KeepsCopies

LEMMA AllocatedKeeps ==
  ASSUME program \in DOMAIN Programs, NEW h, HeapFine(h), NEW c \in 1..Main,
         NEW g, g = Append(h, Allocated(c))
  PROVE  /\ KeepsCopies(h, g) /\ Len(g) = Len(h) + 1 /\ Len(h) \in Nat
         /\ \A o \in DOMAIN h : o # Len(h) + 1
<1>1. HeapFine(g) /\ Extends(h, g) /\ Len(h) \in Nat /\ DOMAIN h = 1..Len(h) /\ DOMAIN g = 1..Len(h) + 1
  BY AllocatedFine
<1>2. Len(g) = Len(h) + 1
  BY <1>1, LenProperties DEF HeapFine
<1>. QED BY <1>1, <1>2 DEF Extends, KeepsCopies

-----------------------------------------------------------------------------
(* The actions keep what locals own. *)

LEMMA NewShare ==
  ASSUME program \in DOMAIN Programs, Inv(heap, stack), Share(heap, stack), NEW c \in 1..Main, New(c)
  PROVE  Share(heap', stack')
<1> DEFINE g == Append(heap, Allocated(c))
           a == Construct(c, Len(heap) + 1, FALSE, <<>>)
<1>1. /\ Classes[c].ctor = <<>> /\ Len(heap) < MaxObjects /\ Current.stage # "table"
      /\ heap' = g /\ stack' = <<a, Current>> \o Tail(stack)
  BY DEF New, Enter, Evaluates
<1>2. /\ HeapFine(heap) /\ Current = stack[1] /\ 1 \in DOMAIN stack /\ MaxObjects \in Nat
  BY StackTyped, BoundsAssumption
<1>3. a \in FrameSet /\ Current \in FrameSet /\ Quiet(Current)
  <2>1. Inv(g, <<a, Current>> \o Tail(stack))
    BY <1>1, NewStep
  <2>. HIDE DEF a, g
  <2>. QED BY <1>2, <2>1, NextTop DEF Share
<1>4. KeepsCopies(heap, g) /\ Len(g) <= MaxObjects /\ \A o \in DOMAIN heap : o # Len(heap) + 1
  <2>1. KeepsCopies(heap, g) /\ Len(g) = Len(heap) + 1 /\ Len(heap) \in Nat
        /\ \A o \in DOMAIN heap : o # Len(heap) + 1
    BY <1>2, AllocatedKeeps
  <2>. QED BY <1>1, <1>2, <2>1
<1>5. /\ a.this = Len(heap) + 1 /\ a.results = {} /\ DOMAIN a.locals = {} /\ Quiet(a) /\ ~Initializing(a)
  <2>1. Constructor(a, c, Len(heap) + 1, <<>>)
    BY DEF Constructor, Construct, Frame
  <2>2. DOMAIN Classes[c].ctor = {}
    BY <1>1
  <2>. HIDE DEF a
  <2>. QED BY <2>1, <2>2, ConstructShape
<1>6. ASSUME NEW n, NEW k, Owned(n, k)
      PROVE  Clear(g, Value(n, k)) /\ Apart(a, Value(n, k)) /\ NoLocal(a, Value(n, k))
  <2>1. Clear(heap, Value(n, k)) /\ Value(n, k) # 0 /\ Value(n, k) \in DOMAIN heap
    BY <1>6, OwnedFacts DEF Private
  <2>. HIDE DEF a
  <2>. QED BY <1>2, <1>4, <1>5, <2>1, AllocatedClear DEF Apart, NoLocal
<1>. HIDE DEF a, g
<1>7. Share(g, <<a, Current>> \o Tail(stack))
  BY <1>1, <1>3, <1>4, <1>5, <1>6, EnterShare
<1>. QED BY <1>1, <1>7

LEMMA NewWithShare ==
  ASSUME program \in DOMAIN Programs, Inv(heap, stack), Share(heap, stack), NEW c \in 1..Main,
         NEW e \in Expressions, NewWith(c, e)
  PROVE  Share(heap', stack')
<1> DEFINE h == HeapWith(e)
           g == Append(h, Allocated(c))
           v == Stored(e)
           a == Construct(c, Len(h) + 1, FALSE, <<v>>)
<1>1. /\ Len(Classes[c].ctor) = 1 /\ IsSubtype(e.type, Classes[c].ctor[1]) /\ Storable(e)
      /\ Len(h) < MaxObjects /\ Current.stage # "table"
      /\ heap' = g /\ stack' = <<a, Current>> \o Tail(stack)
  BY DEF NewWith, Enter, Evaluates
<1>2. /\ Current = stack[1] /\ 1 \in DOMAIN stack /\ MaxObjects \in Nat
  BY StackTyped, BoundsAssumption
<1>3. a \in FrameSet /\ Current \in FrameSet /\ Quiet(Current)
  <2>1. Inv(g, <<a, Current>> \o Tail(stack))
    BY <1>1, NewWithStep
  <2>. HIDE DEF a, g
  <2>. QED BY <1>2, <2>1, NextTop DEF Share
<1>4. HeapFine(h) /\ KeepsCopies(heap, h) /\ Extends(heap, h)
  BY <1>1, StoredFine, StoredKeeps
<1>5. DOMAIN Classes[c].ctor = {1} /\ Classes[c].ctor[1] \in 0..Main
  BY <1>1, ProgramFacts, OneElement
<1>6. /\ a.this = Len(h) + 1 /\ a.results = {} /\ DOMAIN a.locals = {1} /\ Quiet(a) /\ ~Initializing(a)
      /\ a.locals[1].type = Classes[c].ctor[1] /\ a.locals[1].value = v
  <2>1. Constructor(a, c, Len(h) + 1, <<v>>)
    BY DEF Constructor, Construct, Frame
  <2>2. <<v>>[1] = v
    OBVIOUS
  <2>. HIDE DEF a, h, v
  <2>. QED BY <1>5, <2>1, <2>2, ConstructShape
<1>7. \A n, k : Owned(n, k) =>
        Clear(h, Value(n, k)) /\ Value(n, k) # 0 /\ Value(n, k) \in DOMAIN heap /\ v # Value(n, k)
  BY <1>1, StoredClear, StoredApart
<1>8. ASSUME Owns(a, 1)
      PROVE  /\ v \in DOMAIN h /\ h[v].copy /\ v # 0 /\ Clear(h, v)
             /\ \A m \in DOMAIN stack : NoLocal(stack[m], v)
  <2>1. IsValue(Classes[c].ctor[1])
    BY <1>6, <1>8 DEF Owns
  <2>. QED BY <1>1, <1>5, <2>1, StoredUnknown DEF Unknown
<1>. HIDE DEF h, v, a
<1>9. KeepsCopies(h, g) /\ Len(g) <= MaxObjects /\ \A o \in DOMAIN h : o # Len(h) + 1
  <2>1. KeepsCopies(h, g) /\ Len(g) = Len(h) + 1 /\ Len(h) \in Nat /\ \A o \in DOMAIN h : o # Len(h) + 1
    BY <1>4, AllocatedKeeps
  <2>. QED BY <1>1, <1>2, <2>1
<1>10. KeepsCopies(heap, g)
  BY <1>4, <1>9 DEF KeepsCopies
<1>11. ASSUME NEW n, NEW k, Owned(n, k)
       PROVE  Clear(g, Value(n, k)) /\ Apart(a, Value(n, k)) /\ NoLocal(a, Value(n, k))
  <2>1. Clear(g, Value(n, k))
    BY <1>4, <1>7, <1>11, AllocatedClear
  <2>2. Value(n, k) \in DOMAIN h
    BY <1>4, <1>7, <1>11 DEF Extends
  <2>. QED BY <1>6, <1>7, <1>9, <1>11, <2>1, <2>2 DEF Apart, NoLocal
<1>12. ASSUME NEW j \in DOMAIN a.locals, Owns(a, j)
       PROVE  /\ a.locals[j].value = v /\ v \in DOMAIN g /\ g[v].copy /\ Clear(g, v)
              /\ \A m \in DOMAIN stack : NoLocal(stack[m], v)
              /\ \A i \in DOMAIN a.locals : a.locals[i].value = v => i = j
  <2>1. j = 1 /\ \A i \in DOMAIN a.locals : i = 1
    BY <1>6, <1>12
  <2>. QED BY <1>4, <1>6, <1>8, <1>9, <1>12, <2>1, AllocatedClear DEF KeepsCopies
<1>. HIDE DEF g
<1>13. \A n, k : Owned(n, k) => \A j \in DOMAIN a.locals : a.locals[j].value # Value(n, k)
  BY <1>11 DEF NoLocal
<1>14. Share(g, <<a, Current>> \o Tail(stack))
  BY <1>1, <1>3, <1>6, <1>9, <1>10, <1>11, <1>12, <1>13, EnterShare
<1>. QED BY <1>1, <1>14

LEMMA CallShare ==
  ASSUME program \in DOMAIN Programs, Inv(heap, stack), Share(heap, stack), NEW r \in Expressions,
         NEW e \in Expressions, Call(r, e)
  PROVE  Share(heap', stack')
<1> DEFINE g == HeapWith(e)
           o == Eval(r)
           v == Stored(e)
           a == Invoke(Entry(Cells(o)[1]), o, v)
<1>1. /\ Loaded(r) /\ IsSubtype(e.type, Param) /\ Storable(e) /\ Current.stage # "table"
      /\ heap' = g /\ stack' = <<a, Current>> \o Tail(stack)
  BY DEF Call, Enter, Evaluates
<1>2. /\ Current = stack[1] /\ 1 \in DOMAIN stack /\ Param \in 0..Main
  BY StackTyped, ProgramFacts
<1>3. a \in FrameSet /\ Current \in FrameSet /\ Quiet(Current)
  <2>1. Inv(g, <<a, Current>> \o Tail(stack))
    BY <1>1, CallStep
  <2>. HIDE DEF a, g
  <2>. QED BY <1>2, <2>1, NextTop DEF Share
<1>4. KeepsCopies(heap, g) /\ Len(g) <= MaxObjects
  BY <1>1, StoredKeeps, StoredFresh
<1>5. /\ a.this = o /\ a.results = {} /\ DOMAIN a.locals = {1} /\ Quiet(a) /\ ~Initializing(a)
      /\ a.locals[1].type = Param /\ a.locals[1].value = v
  <2>1. a = Invoke(Entry(Cells(o)[1]), o, v)
    OBVIOUS
  <2>. HIDE DEF a, o, v
  <2>. QED BY <2>1, InvokeShape
<1>6. \A n, k : Owned(n, k) => Clear(g, Value(n, k)) /\ v # Value(n, k)
  BY <1>1, StoredClear, StoredApart
<1>7. \A n, k : Owned(n, k) => \A b \in DOMAIN stack :
        b <= n /\ Initializing(stack[b]) => o # Value(n, k)
  BY <1>1, EvalApart
<1>8. ASSUME NEW j \in DOMAIN a.locals, Owns(a, j)
      PROVE  /\ a.locals[j].value = v /\ v \in DOMAIN g /\ g[v].copy /\ Clear(g, v)
             /\ \A m \in DOMAIN stack : NoLocal(stack[m], v)
             /\ \A i \in DOMAIN a.locals : a.locals[i].value = v => i = j
  <2>1. j = 1 /\ (\A i \in DOMAIN a.locals : i = 1) /\ a.locals[j].value = v /\ IsValue(Param)
    BY <1>5, <1>8 DEF Owns
  <2>2. /\ v \in DOMAIN g /\ g[v].copy /\ Clear(g, v)
        /\ \A m \in DOMAIN stack : NoLocal(stack[m], v)
    BY <1>1, <1>2, <2>1, StoredUnknown DEF Unknown
  <2>. QED BY <2>1, <2>2
<1>. HIDE DEF g, o, v, a
<1>9. \A n, k : Owned(n, k) => NoLocal(a, Value(n, k))
  BY <1>5, <1>6 DEF NoLocal
<1>10. \A n, k : Owned(n, k) => \A b \in DOMAIN stack :
         b <= n /\ Initializing(stack[b]) => Apart(a, Value(n, k)) /\ NoLocal(a, Value(n, k))
  BY <1>5, <1>7, <1>9 DEF Apart
<1>11. \A n, k : Owned(n, k) => \A j \in DOMAIN a.locals : a.locals[j].value # Value(n, k)
  BY <1>9 DEF NoLocal
<1>12. Share(g, <<a, Current>> \o Tail(stack))
  BY <1>1, <1>3, <1>4, <1>5, <1>6, <1>8, <1>10, <1>11, EnterShare
<1>. QED BY <1>1, <1>12

LEMMA SuperShare ==
  ASSUME program \in DOMAIN Programs, Inv(heap, stack), Share(heap, stack),
         SuperPlain \/ \E e \in Expressions : SuperWith(e)
  PROVE  Share(heap', stack')
<1> DEFINE base == Classes[Current.class].base
<1>1. PICK values :
        /\ Super(values)
        /\ \A k \in DOMAIN Classes[base].ctor : \A n, i : Owned(n, i) => \A b \in DOMAIN stack :
             b <= n /\ Initializing(stack[b]) => values[k] # Value(n, i)
  <2>1. CASE SuperPlain
    <3>1. Super(<<>>) /\ Classes[base].ctor = <<>>
      BY <2>1 DEF SuperPlain
    <3>. QED BY <3>1
  <2>2. ASSUME NEW e \in Expressions, SuperWith(e)
        PROVE  /\ Super(<<Eval(e)>>)
               /\ \A k \in DOMAIN Classes[base].ctor : \A n, i : Owned(n, i) => \A b \in DOMAIN stack :
                    b <= n /\ Initializing(stack[b]) => <<Eval(e)>>[k] # Value(n, i)
    <3>1. Super(<<Eval(e)>>) /\ Loaded(e) /\ Len(Classes[base].ctor) = 1 /\ Current.stage = "super"
      BY <2>2 DEF SuperWith
    <3>2. Classes[base].ctor \in Seq(0..Main)
      <4>1. FrameFine(heap, Current) /\ Current.class \in 1..Main
        BY CurrentFine DEF FrameSet
      <4>2. base # Builtin
        BY <3>1, <4>1 DEF FrameFine
      <4>3. Main \in Nat /\ base \in 0..Current.class - 1
        BY <4>1, ProgramFacts
      <4>4. base \in 1..Main
        BY <4>1, <4>2, <4>3 DEF Builtin
      <4>. QED BY <4>4, ProgramFacts
    <3>. HIDE DEF base
    <3>3. DOMAIN Classes[base].ctor = {1}
      BY <3>1, <3>2, OneElement
    <3>4. \A n, i : Owned(n, i) => \A b \in DOMAIN stack :
            b <= n /\ Initializing(stack[b]) => Eval(e) # Value(n, i)
      BY <3>1, EvalApart
    <3>5. <<Eval(e)>>[1] = Eval(e)
      OBVIOUS
    <3>. QED BY <3>1, <3>3, <3>4, <3>5
  <2>. QED BY <2>1, <2>2
<1> DEFINE a == Construct(base, Current.this, TRUE, values)
           c == [Settled EXCEPT !.stage = "table"]
<1>2. heap' = heap /\ Current.stage = "super" /\ stack' = <<a, c>> \o Tail(stack)
  BY <1>1 DEF Super, Enter
<1>3. /\ stack \in Seq(FrameSet) /\ stack # <<>> /\ Current = stack[1] /\ 1 \in DOMAIN stack
      /\ Current \in FrameSet /\ DOMAIN stack = 1..Len(stack) /\ Len(stack) \in Nat
  BY StackTyped
<1>4. a \in FrameSet /\ c \in FrameSet
  <2>1. Inv(heap, <<a, c>> \o Tail(stack))
    BY <1>2, SuperStep
  <2>. HIDE DEF a, c
  <2>. QED BY <2>1, NextTop
<1>5. /\ c.class = Current.class /\ c.this = Current.this /\ c.super = Current.super
      /\ c.results = {} /\ c.locals = Current.locals /\ c.stage = "table"
  <2>1. c = Changed(Current, "table", Current.item, Current.locals, {})
    BY <1>3, ChangedForms DEF Settled
  <2>. HIDE DEF c
  <2>. QED BY <2>1 DEF Changed
<1>6. /\ a.class = base /\ a.this = Current.this /\ a.super /\ a.results = {}
      /\ Quiet(a) /\ ~Initializing(a) /\ DOMAIN a.locals = DOMAIN Classes[base].ctor
      /\ \A k \in DOMAIN a.locals : a.locals[k].value = values[k]
  <2>1. Constructor(a, base, Current.this, values) /\ a.super
    BY DEF Constructor, Construct, Frame
  <2>. HIDE DEF a, base
  <2>. QED BY <2>1, ConstructShape
<1>7. \A k \in DOMAIN a.locals : SuperParameter(a, k)
  <2>1. Classes[base].ctor \in Seq(0..Main)
    <3>1. FrameFine(heap, Current) /\ Current.class \in 1..Main
      BY CurrentFine DEF FrameSet
    <3>2. base # Builtin
      BY <1>2, <3>1 DEF FrameFine
    <3>3. Main \in Nat /\ base \in 0..Current.class - 1
      BY <3>1, ProgramFacts
    <3>4. base \in 1..Main
      BY <3>1, <3>2, <3>3 DEF Builtin
    <3>. QED BY <3>4, ProgramFacts
  <2>. HIDE DEF a, base
  <2>2. DOMAIN Classes[base].ctor = 1..Len(Classes[base].ctor) /\ Len(Classes[base].ctor) \in Nat
    BY <2>1, LenProperties
  <2>. QED BY <1>6, <2>2 DEF SuperParameter
<1>. HIDE DEF a, c, base
<1>8. ASSUME NEW n, NEW i, Owned(n, i), NEW b \in DOMAIN stack, b <= n, Initializing(stack[b])
      PROVE  Apart(a, Value(n, i)) /\ NoLocal(a, Value(n, i))
  <2>1. b # 1
    BY <1>2, <1>3, <1>8 DEF Initializing
  <2>2. 1 < b
    BY <1>3, <2>1
  <2>3. Isolated(stack, n, Value(n, i))
    BY <1>8, OwnedFacts DEF Private, Confined
  <2>4. Apart(stack[1], Value(n, i))
    BY <1>3, <1>8, <2>2, <2>3 DEF Isolated
  <2>. QED BY <1>1, <1>3, <1>6, <1>8, <2>4 DEF Apart, NoLocal
<1>9. /\ Quiet(c) /\ ~Initializing(c) /\ \A j \in DOMAIN a.locals : ~Owns(a, j)
  <2>1. Quiet(c) /\ ~Initializing(c)
    BY <1>5 DEF Quiet, Initializing
  <2>. QED BY <1>7, <2>1 DEF Owns
<1>10. /\ Len(heap) <= MaxObjects /\ KeepsCopies(heap, heap)
       /\ \A n, k : Owned(n, k) => Clear(heap, Value(n, k))
  BY OwnedFacts DEF Share, KeepsCopies, Private
<1>11. Share(heap, <<a, c>> \o Tail(stack))
  BY <1>4, <1>5, <1>6, <1>7, <1>8, <1>9, <1>10, EnterShare
<1>. QED BY <1>2, <1>11

-----------------------------------------------------------------------------
LEMMA UpdateKeeps ==
  ASSUME program \in DOMAIN Programs, NEW h, HeapFine(h), NEW o \in DOMAIN h,
         NEW k \in 1..Len(h[o].cells), NEW v \in Nat
  PROVE  KeepsCopies(h, Update(h, o, k, v)) /\ Len(Update(h, o, k, v)) = Len(h)
<1> DEFINE g == Update(h, o, k, v)
<1>1. /\ g \in Seq(ObjectSet) /\ DOMAIN g = DOMAIN h /\ g[o].copy = h[o].copy
      /\ \A i \in DOMAIN h : i # o => g[i] = h[i]
  BY Updated
<1>2. h \in Seq(ObjectSet)
  BY DEF HeapFine
<1>. HIDE DEF g
<1>3. Len(g) = Len(h)
  <2>1. /\ DOMAIN g = 1..Len(g) /\ Len(g) \in Nat
        /\ DOMAIN h = 1..Len(h) /\ Len(h) \in Nat
    BY <1>1, <1>2, LenProperties
  <2>2. \A m, n \in Nat : 1..m = 1..n => m = n
    <3>1. ASSUME NEW m \in Nat, NEW n \in Nat, 1..m = 1..n PROVE ~(m < n)
      <4>1. m < n => n \in 1..n /\ n \notin 1..m
        OBVIOUS
      <4>. QED BY <3>1, <4>1
    <3>2. ASSUME NEW m \in Nat, NEW n \in Nat, 1..m = 1..n PROVE ~(n < m)
      <4>1. n < m => m \in 1..m /\ m \notin 1..n
        OBVIOUS
      <4>. QED BY <3>2, <4>1
    <3>. QED BY <3>1, <3>2
  <2>. QED BY <1>1, <2>1, <2>2
<1>. QED BY <1>1, <1>3 DEF KeepsCopies, g

LEMMA StoreTableShare ==
  ASSUME program \in DOMAIN Programs, Inv(heap, stack), Share(heap, stack), StoreTable
  PROVE  Share(heap', stack')
<1> DEFINE a == [Current EXCEPT !.stage = "init"]
           g == IF HasMethod(Current.class) THEN Update(heap, Current.this, 1, Current.class) ELSE heap
<1>1. Current.stage = "table" /\ heap' = g /\ stack' = <<a>> \o Tail(stack)
  BY DEF StoreTable, Step, Update
<1>2. /\ HeapFine(heap) /\ Current \in FrameSet /\ FrameFine(heap, Current) /\ Len(heap) <= MaxObjects
      /\ Current.class \in 1..Main /\ Current.locals \in Seq(LocalSet) /\ Main \in Nat
  BY StackTyped, CurrentFine, ProgramFacts DEF Share, FrameSet
<1>3. Current.this \in DOMAIN heap /\ 1 \in 1..Len(heap[Current.this].cells) /\ Current.class \in Nat
  <2>1. Current.this \in DOMAIN heap
    BY <1>1, <1>2 DEF FrameFine
  <2>2. Len(heap[Current.this].cells) \in Nat \ {0}
    BY <1>2, <2>1, ObjectTyped
  <2>. QED BY <1>2, <2>1, <2>2
<1>4. a \in FrameSet
  <2>1. Inv(g, <<a>> \o Tail(stack))
    BY <1>1, StoreTableStep
  <2>. HIDE DEF a, g
  <2>. QED BY <2>1, NextTop
<1>5. /\ a.class = Current.class /\ a.this = Current.this /\ a.super = Current.super
      /\ a.results = Current.results /\ a.locals = Current.locals /\ Quiet(a)
  <2>1. a = Changed(Current, "init", Current.item, Current.locals, Current.results)
    BY <1>2, ChangedForms
  <2>. HIDE DEF a
  <2>. QED BY <2>1 DEF Changed, Quiet
<1>6. KeepsCopies(heap, g) /\ Len(g) <= MaxObjects
  <2>1. CASE HasMethod(Current.class)
    BY <1>2, <1>3, <2>1, UpdateKeeps
  <2>2. CASE ~HasMethod(Current.class)
    BY <1>2, <2>2 DEF KeepsCopies
  <2>. QED BY <2>1, <2>2
<1>7. ASSUME NEW n, NEW k, Owned(n, k) PROVE Clear(g, Value(n, k))
  <2>1. Clear(heap, Value(n, k))
    BY <1>7, OwnedFacts DEF Private
  <2>. QED BY <1>2, <1>3, <2>1, UpdateClear
<1>8. 0 \notin DOMAIN a.locals /\ SameBut(a, 0)
  <2>1. DOMAIN Current.locals = 1..Len(Current.locals)
    BY <1>2, LenProperties
  <2>. HIDE DEF a
  <2>. QED BY <1>5, <2>1 DEF SameBut
<1>. HIDE DEF a, g
<1>9. Share(g, <<a>> \o Tail(stack))
  BY <1>1, <1>4, <1>5, <1>6, <1>7, <1>8, StepShare
<1>. QED BY <1>1, <1>9

LEMMA InitFieldShare ==
  ASSUME program \in DOMAIN Programs, Inv(heap, stack), Share(heap, stack),
         NEW e \in Expressions, InitField(e)
  PROVE  Share(heap', stack')
<1> DEFINE f == <<Current.class, Current.item>>
           g == Update(heap, Current.this, FieldCell(f), Eval(e))
           a == [Settled EXCEPT !.item = @ + 1]
<1>1. /\ Initializing(Current) /\ Loaded(e) /\ heap' = g /\ stack' = <<a>> \o Tail(stack)
  BY DEF InitField, FieldsLeft, Initializing, Step, Update
<1>2. /\ HeapFine(heap) /\ Current \in FrameSet /\ FrameFine(heap, Current) /\ Len(heap) <= MaxObjects
      /\ Current.class \in 1..Main /\ Current.item \in Nat \ {0} /\ Current.locals \in Seq(LocalSet)
      /\ Current = stack[1] /\ DOMAIN stack = 1..Len(stack) /\ Len(stack) \in Nat \ {0}
  BY StackTyped, CurrentFine DEF Share, FrameSet
<1>3. /\ Current.this \in DOMAIN heap /\ FieldCell(f) \in 1..Len(heap[Current.this].cells)
      /\ Eval(e) \in Nat
  <2>1. Current.this \in DOMAIN heap /\ Current.class \in Ancestors[heap[Current.this].class]
    BY <1>1, <1>2 DEF FrameFine, Initializing
  <2>2. /\ heap[Current.this].class \in 1..Main
        /\ Len(heap[Current.this].cells) = Size[heap[Current.this].class]
        /\ Len(heap[Current.this].cells) \in Nat
    BY <1>2, <2>1, ObjectTyped
  <2>3. f \in Field(heap[Current.this].class)
    <3>1. Classes[Current.class].fields \in Seq(0..Main)
      BY <1>2, ProgramFacts
    <3>2. Len(Classes[Current.class].fields) \in Nat
          /\ DOMAIN Classes[Current.class].fields = 1..Len(Classes[Current.class].fields)
      BY <3>1, LenProperties
    <3>3. Current.item \in DOMAIN Classes[Current.class].fields
      BY <1>1, <1>2, <3>2 DEF Initializing
    <3>. QED BY <2>1, <3>3 DEF Field
  <2>. HIDE DEF f
  <2>4. FieldCell(f) \in Nat /\ FieldCell(f) >= 2 /\ FieldCell(f) <= Size[heap[Current.this].class]
    BY <2>2, <2>3, FieldPlace
  <2>5. Eval(e) \in Nat
    BY <1>1, Evaluated
  <2>. QED BY <2>1, <2>2, <2>4, <2>5
<1>4. a \in FrameSet
  <2>1. Inv(g, <<a>> \o Tail(stack))
    BY <1>1, InitFieldStep
  <2>. HIDE DEF a, g
  <2>. QED BY <2>1, NextTop
<1>5. /\ a.class = Current.class /\ a.this = Current.this /\ a.super = Current.super
      /\ a.results = {} /\ a.locals = Current.locals /\ Quiet(a)
  <2>1. Settled.item = Current.item
    BY <1>2 DEF Settled, FrameSet
  <2>2. a = [Settled EXCEPT !.item = Current.item + 1]
    BY <2>1
  <2>. HIDE DEF a
  <2>3. a = Changed(Current, Current.stage, Current.item + 1, Current.locals, {})
    BY <1>2, <2>2, ChangedForms DEF Settled
  <2>. QED BY <1>1, <2>3 DEF Changed, Quiet, Initializing
<1>6. KeepsCopies(heap, g) /\ Len(g) <= MaxObjects
  <2>. HIDE DEF f
  <2>. QED BY <1>2, <1>3, UpdateKeeps
<1>7. ASSUME NEW n, NEW k, Owned(n, k) PROVE Clear(g, Value(n, k))
  <2>1. Clear(heap, Value(n, k))
    BY <1>7, OwnedFacts DEF Private
  <2>2. 1 \in DOMAIN stack /\ 1 <= n
    BY <1>2, <1>7 DEF Owned
  <2>3. Eval(e) # Value(n, k)
    BY <1>1, <1>2, <1>7, <2>2, EvalApart
  <2>. HIDE DEF f
  <2>. QED BY <1>2, <1>3, <2>1, <2>3, UpdateClear
<1>8. 0 \notin DOMAIN a.locals /\ SameBut(a, 0)
  <2>1. DOMAIN Current.locals = 1..Len(Current.locals)
    BY <1>2, LenProperties
  <2>. HIDE DEF a
  <2>. QED BY <1>5, <2>1 DEF SameBut
<1>. HIDE DEF a, g
<1>9. Share(g, <<a>> \o Tail(stack))
  BY <1>1, <1>4, <1>5, <1>6, <1>7, <1>8, StepShare
<1>. QED BY <1>1, <1>9

\* A step of a body.
LEMMA BodyShare ==
  ASSUME program \in DOMAIN Programs, Inv(heap, stack), Share(heap, stack),
         NEW g, Len(g) <= MaxObjects, KeepsCopies(heap, g),
         \A n, k : Owned(n, k) => Clear(g, Value(n, k)),
         NEW locals, NEW a, a = Changed(Current, Current.stage, Current.item, locals, {}),
         Inv(g, <<a>> \o Tail(stack)),
         NEW new, SameBut(a, new), NEW v,
         new \in DOMAIN a.locals =>
           a.locals[new].value = v /\ Unowned(v) /\ (IsValue(a.locals[new].type) => Unknown(g, v))
  PROVE  Share(g, <<a>> \o Tail(stack))
<1>1. /\ a.class = Current.class /\ a.this = Current.this /\ a.super = Current.super
      /\ a.stage = Current.stage /\ a.item = Current.item /\ a.results = {}
  BY DEF Changed
<1>2. a \in FrameSet
  BY NextTop
<1>3. Quiet(a) /\ (Initializing(a) => Initializing(Current)) /\ a.results \subseteq Current.results
  <2>1. Quiet(Current)
    BY StackTyped DEF Share
  <2>. QED BY <1>1, <2>1 DEF Quiet, Initializing
<1>4. new \in DOMAIN a.locals =>
        a.locals[new].value = v /\ Unowned(v) /\ (Owns(a, new) => Unknown(g, v))
  BY DEF Owns
<1>. QED BY <1>1, <1>2, <1>3, <1>4, StepShare

LEMMA DeclareShare ==
  ASSUME program \in DOMAIN Programs, Inv(heap, stack), Share(heap, stack),
         NEW e \in Expressions, Declare(e)
  PROVE  Share(heap', stack')
<1> DEFINE local == Local(e.type, Stored(e))
           locals == Append(Current.locals, local)
           new == Len(Current.locals) + 1
           a == [Settled EXCEPT !.locals = Append(@, local)]
<1>1. Storable(e) /\ heap' = HeapWith(e) /\ stack' = <<a>> \o Tail(stack)
  BY DEF Declare, Step
<1>2. Current \in FrameSet /\ Current.locals \in Seq(LocalSet)
  BY StackTyped DEF FrameSet
<1>3. a = Changed(Current, Current.stage, Current.item, locals, {})
  <2>1. Settled.locals = Current.locals
    BY <1>2 DEF Settled, FrameSet
  <2>2. a = [Settled EXCEPT !.locals = locals]
    BY <2>1
  <2>. HIDE DEF a, locals
  <2>. QED BY <1>2, <2>2, ChangedForms DEF Settled
<1>4. local.type = e.type /\ local.value = Stored(e)
  BY DEF Local
<1>5. /\ locals[new] = local
      /\ \A j \in DOMAIN locals : j # new => j \in DOMAIN Current.locals /\ locals[j] = Current.locals[j]
  <2> DEFINE T == LocalSet \cup {local}
  <2>1. Current.locals \in Seq(T) /\ local \in T
    BY <1>2
  <2>. HIDE DEF T, local
  <2>. QED BY <2>1, AppendProperties, LenProperties
<1>6. Inv(HeapWith(e), <<a>> \o Tail(stack))
  BY <1>1, DeclareStep
<1>7. Len(HeapWith(e)) <= MaxObjects /\ KeepsCopies(heap, HeapWith(e))
  BY <1>1, StoredFresh, StoredKeeps
<1>8. \A n, k : Owned(n, k) => Clear(HeapWith(e), Value(n, k)) /\ Stored(e) # Value(n, k)
  BY <1>1, StoredClear, StoredApart
<1>9. ASSUME IsValue(e.type)
      PROVE  Unknown(HeapWith(e), Stored(e))
  <2>1. e.type \in 0..Main /\ IsSubtype(e.type, e.type)
    BY <1>1, StoredFine DEF IsSubtype
  <2>. QED BY <1>1, <1>9, <2>1, StoredUnknown
<1>. HIDE DEF a, local, locals, new
<1>10. a.locals = locals
  BY <1>3 DEF Changed
<1>11. /\ SameBut(a, new) /\ a.locals[new].value = Stored(e) /\ Unowned(Stored(e))
       /\ IsValue(a.locals[new].type) => Unknown(HeapWith(e), Stored(e))
  BY <1>4, <1>5, <1>8, <1>9, <1>10 DEF SameBut, Unowned
<1>12. \A n, k : Owned(n, k) => Clear(HeapWith(e), Value(n, k))
  BY <1>8
<1>13. Share(HeapWith(e), <<a>> \o Tail(stack))
  BY <1>3, <1>6, <1>7, <1>11, <1>12, BodyShare
<1>. QED BY <1>1, <1>13

LEMMA AssignLocalShare ==
  ASSUME program \in DOMAIN Programs, Inv(heap, stack), Share(heap, stack),
         NEW e \in Expressions, NEW i \in DOMAIN Current.locals, AssignLocal(i, e)
  PROVE  Share(heap', stack')
<1> DEFINE type == Current.locals[i].type
           local == [Current.locals[i] EXCEPT !.value = Stored(e)]
           locals == [Current.locals EXCEPT ![i] = local]
           a == [Settled EXCEPT !.locals[i].value = Stored(e)]
<1>1. /\ Storable(e) /\ IsSubtype(e.type, type) /\ heap' = HeapWith(e)
      /\ stack' = <<a>> \o Tail(stack)
  BY DEF AssignLocal, Step
<1>2. Current \in FrameSet /\ Current.locals \in Seq(LocalSet)
  BY StackTyped DEF FrameSet
<1>3. a = Changed(Current, Current.stage, Current.item, locals, {})
  <2>1. Settled.locals = Current.locals
    BY <1>2 DEF Settled, FrameSet
  <2>2. a = [Settled EXCEPT !.locals = locals]
    BY <2>1
  <2>. HIDE DEF a, locals
  <2>. QED BY <1>2, <2>2, ChangedForms DEF Settled
<1>4. local.type = type /\ local.value = Stored(e) /\ type \in 0..Main
  <2>1. Current.locals[i] \in LocalSet
    BY <1>2, ElementOfSeq, LenProperties
  <2>. QED BY <2>1 DEF LocalSet
<1>5. /\ locals[i] = local
      /\ \A j \in DOMAIN locals : j # i => j \in DOMAIN Current.locals /\ locals[j] = Current.locals[j]
  OBVIOUS
<1>6. Inv(HeapWith(e), <<a>> \o Tail(stack))
  BY <1>1, AssignLocalStep
<1>7. Len(HeapWith(e)) <= MaxObjects /\ KeepsCopies(heap, HeapWith(e))
  BY <1>1, StoredFresh, StoredKeeps
<1>8. \A n, k : Owned(n, k) => Clear(HeapWith(e), Value(n, k)) /\ Stored(e) # Value(n, k)
  BY <1>1, StoredClear, StoredApart
<1>9. ASSUME IsValue(type)
      PROVE  Unknown(HeapWith(e), Stored(e))
  <2>. HIDE DEF type
  <2>. QED BY <1>1, <1>4, <1>9, StoredUnknown
<1>. HIDE DEF a, local, locals, type
<1>10. a.locals = locals
  BY <1>3 DEF Changed
<1>11. /\ SameBut(a, i) /\ a.locals[i].value = Stored(e) /\ Unowned(Stored(e))
       /\ IsValue(a.locals[i].type) => Unknown(HeapWith(e), Stored(e))
  BY <1>4, <1>5, <1>8, <1>9, <1>10 DEF SameBut, Unowned
<1>12. \A n, k : Owned(n, k) => Clear(HeapWith(e), Value(n, k))
  BY <1>8
<1>13. Share(HeapWith(e), <<a>> \o Tail(stack))
  BY <1>3, <1>6, <1>7, <1>11, <1>12, BodyShare
<1>. QED BY <1>1, <1>13

LEMMA AssignFieldShare ==
  ASSUME program \in DOMAIN Programs, Inv(heap, stack), Share(heap, stack),
         NEW e \in Expressions, NEW f \in Field(Current.class), AssignField(f, e)
  PROVE  Share(heap', stack')
<1> DEFINE h == HeapWith(e)
           g == Update(h, Current.this, FieldCell(f), Stored(e))
           a == Settled
<1>1. /\ InBody /\ Storable(e) /\ FieldCell(f) <= Len(heap[Current.this].cells)
      /\ heap' = g /\ stack' = <<a>> \o Tail(stack)
  BY DEF AssignField, Step, Update, Inside, Cells
<1>2. /\ Current \in FrameSet /\ FrameFine(heap, Current) /\ Current.class \in 1..Main
      /\ Current.locals \in Seq(LocalSet)
  BY CurrentFine DEF FrameSet
<1>3. a = Changed(Current, Current.stage, Current.item, Current.locals, {})
  BY <1>2, ChangedForms DEF Settled
<1>4. /\ HeapFine(h) /\ Extends(heap, h) /\ Stored(e) \in Nat
      /\ KeepsCopies(heap, h) /\ Len(h) <= MaxObjects
  <2>1. HeapFine(h) /\ Extends(heap, h) /\ e.type \in 0..Main /\ IsRef(h, e.type, Stored(e))
    BY <1>1, StoredFine
  <2>2. KeepsCopies(heap, h) /\ Len(h) <= MaxObjects
    BY <1>1, StoredKeeps, StoredFresh
  <2>. HIDE DEF h
  <2>. QED BY <2>1, <2>2, RefValue
<1>5. Current.this \in DOMAIN heap
  <2>1. Current.class # NumberType
    BY <1>2, ProgramFacts DEF NumberType
  <2>. QED BY <1>2, <2>1 DEF FrameFine, IsRef
<1>6. \A n, k : Owned(n, k) => Clear(h, Value(n, k)) /\ Stored(e) # Value(n, k)
  BY <1>1, StoredClear, StoredApart
<1>. HIDE DEF h
<1>7. Current.this \in DOMAIN h /\ FieldCell(f) \in 1..Len(h[Current.this].cells)
  <2>1. Current.this \in DOMAIN h /\ Len(h[Current.this].cells) = Len(heap[Current.this].cells)
    BY <1>4, <1>5 DEF Extends
  <2>2. FieldCell(f) \in Nat /\ FieldCell(f) >= 2
    BY <1>2, FieldPlace
  <2>3. Len(h[Current.this].cells) \in Nat
    BY <1>4, <2>1, ObjectTyped
  <2>. QED BY <1>1, <2>1, <2>2, <2>3
<1>8. KeepsCopies(heap, g) /\ Len(g) <= MaxObjects
  <2>1. KeepsCopies(h, g) /\ Len(g) = Len(h)
    BY <1>4, <1>7, UpdateKeeps
  <2>. QED BY <1>4, <2>1 DEF KeepsCopies
<1>9. \A n, k : Owned(n, k) => Clear(g, Value(n, k))
  BY <1>4, <1>6, <1>7, UpdateClear
<1>10. Inv(g, <<a>> \o Tail(stack))
  BY <1>1, AssignFieldStep
<1>11. 0 \notin DOMAIN Current.locals
  <2>1. DOMAIN Current.locals = 1..Len(Current.locals)
    BY <1>2, LenProperties
  <2>. QED BY <2>1
<1>. HIDE DEF a, g
<1>12. SameBut(a, 0) /\ 0 \notin DOMAIN a.locals
  BY <1>3, <1>11 DEF Changed, SameBut
<1>13. Share(g, <<a>> \o Tail(stack))
  BY <1>3, <1>8, <1>9, <1>10, <1>12, BodyShare
<1>. QED BY <1>1, <1>13

\* The caller goes on, with the result or without it.
LEMMA LeaveShare ==
  ASSUME program \in DOMAIN Programs, Inv(heap, stack), Share(heap, stack), 2 \in DOMAIN stack,
         NEW results \in SUBSET LocalSet, Caller.stage = "table" => results = {},
         \A r \in results : \A n, k : Owned(n, k) => \A b \in DOMAIN stack :
           b <= n /\ Initializing(stack[b]) => r.value # Value(n, k)
  PROVE  Share(heap, <<[Caller EXCEPT !.results = @ \cup results]>> \o Tail(Tail(stack)))
<1> DEFINE c == [Caller EXCEPT !.results = @ \cup results]
<1>1. Caller = stack[2] /\ Caller \in FrameSet /\ Quiet(Caller)
  BY StackTyped DEF Caller, Share
<1>2. c = Changed(Caller, Caller.stage, Caller.item, Caller.locals, Caller.results \cup results)
  BY <1>1, ChangedForms
<1>. HIDE DEF c
<1>3. /\ c.class = Caller.class /\ c.this = Caller.this /\ c.super = Caller.super
      /\ c.locals = Caller.locals /\ c.stage = Caller.stage /\ c.item = Caller.item
      /\ c.results = Caller.results \cup results
  BY <1>2 DEF Changed
<1>4. c \in FrameSet
  BY <1>1, <1>2 DEF FrameSet, Changed
<1>5. Quiet(c)
  BY <1>1, <1>3 DEF Quiet
<1>6. Share(heap, <<c>> \o Tail(Tail(stack)))
  BY <1>1, <1>3, <1>4, <1>5, PopShare
<1>. QED BY <1>6 DEF c

LEMMA ReturnShare ==
  ASSUME program \in DOMAIN Programs, Inv(heap, stack), Share(heap, stack),
         NEW e \in Expressions, Return(e)
  PROVE  Share(heap', stack')
<1> DEFINE results == {Local(Result, Eval(e))}
<1>1. /\ Current.stage = "method" /\ Loaded(e) /\ heap' = heap
      /\ stack' = <<[Caller EXCEPT !.results = @ \cup results]>> \o Tail(Tail(stack))
  BY DEF Return, Leave, WithResult
<1>2. Current = stack[1] /\ 1 \in DOMAIN stack
  BY StackTyped
<1>3. 2 \in DOMAIN stack
  <2>1. Linked(heap, stack, 1)
    BY <1>2 DEF Inv
  <2>2. 1 + 1 \in DOMAIN stack
    BY <1>1, <1>2, <2>1 DEF Linked
  <2>. QED BY <2>2
<1>4. results \in SUBSET LocalSet
  <2>1. Eval(e) \in Nat /\ Result \in 0..Main
    BY <1>1, Evaluated, ProgramFacts
  <2>. QED BY <2>1 DEF Local, LocalSet
<1>5. ASSUME NEW r \in results, NEW n, NEW k, Owned(n, k), NEW b \in DOMAIN stack,
             b <= n, Initializing(stack[b])
      PROVE  r.value # Value(n, k)
  <2>1. r.value = Eval(e)
    BY DEF Local
  <2>. QED BY <1>1, <1>5, <2>1, EvalApart
<1>6. Caller.stage # "table"
  <2>1. Quiet(stack[1]) /\ AwaitsSuper(stack, 1)
    BY <1>2 DEF Share
  <2>2. 1 + 1 = 2
    OBVIOUS
  <2>. QED BY <1>1, <1>2, <1>3, <2>1, <2>2 DEF Quiet, AwaitsSuper, Caller
<1>. HIDE DEF results
<1>7. Share(heap, <<[Caller EXCEPT !.results = @ \cup results]>> \o Tail(Tail(stack)))
  BY <1>3, <1>4, <1>5, <1>6, LeaveShare
<1>. QED BY <1>1, <1>7

-----------------------------------------------------------------------------
LEMMA EndConstructorShare ==
  ASSUME program \in DOMAIN Programs, Inv(heap, stack), Share(heap, stack), EndConstructor
  PROVE  Share(heap', stack')
<1> DEFINE results == IF Current.super THEN {} ELSE {Local(Current.class, Current.this)}
<1>1. ~Initializing(Current) /\ Len(stack) > 1 /\ heap' = heap
  BY DEF EndConstructor, InBody, FieldsLeft, Initializing, Leave
<1>2. /\ Current = stack[1] /\ Current \in FrameSet /\ DOMAIN stack = 1..Len(stack)
      /\ Len(stack) \in Nat
  BY StackTyped
<1>3. 2 \in DOMAIN stack /\ 1 \in DOMAIN stack
  BY <1>1, <1>2
<1>4. Caller \in FrameSet
  BY <1>3, StackTyped DEF Caller
<1>5. results \in SUBSET LocalSet
  <2>1. Current.class \in 0..Main /\ Current.this \in Nat
    BY <1>2, ProgramFacts DEF FrameSet
  <2>. QED BY <2>1 DEF Local, LocalSet
<1>6. stack' = <<[Caller EXCEPT !.results = @ \cup results]>> \o Tail(Tail(stack))
  <2>1. CASE Current.super
    <3>1. [Caller EXCEPT !.results = @ \cup {}] = Caller
      BY <1>4 DEF FrameSet
    <3>. QED BY <2>1, <3>1 DEF EndConstructor, Leave
  <2>2. CASE ~Current.super
    BY <2>2 DEF EndConstructor, Leave, WithResult
  <2>. QED BY <2>1, <2>2
<1>7. Caller.stage = "table" => results = {}
  <2>1. AwaitsSuper(stack, 1) /\ 1 + 1 = 2
    BY <1>3 DEF Share
  <2>. QED BY <1>2, <1>3, <2>1 DEF AwaitsSuper, Caller
<1>8. ASSUME NEW r \in results, NEW n, NEW k, Owned(n, k), NEW b \in DOMAIN stack,
             b <= n, Initializing(stack[b])
      PROVE  r.value # Value(n, k)
  <2>1. r.value = Current.this
    BY DEF Local
  <2>2. b # 1
    BY <1>1, <1>2, <1>8
  <2>3. 1 < b
    BY <1>2, <2>2
  <2>4. Isolated(stack, n, Value(n, k))
    BY <1>8, OwnedFacts DEF Private, Confined
  <2>5. Apart(stack[1], Value(n, k))
    BY <1>3, <1>8, <2>3, <2>4 DEF Isolated
  <2>. QED BY <1>2, <2>1, <2>5 DEF Apart
<1>. HIDE DEF results
<1>9. Share(heap, <<[Caller EXCEPT !.results = @ \cup results]>> \o Tail(Tail(stack)))
  BY <1>3, <1>5, <1>7, <1>8, LeaveShare
<1>. QED BY <1>1, <1>6, <1>9

-----------------------------------------------------------------------------
(* What locals own stays theirs. *)

LEMMA SharePrimed ==
  ASSUME program' = program, Share(heap', stack')
  PROVE  Share(heap, stack)'
<1>1. Ancestors' = Ancestors /\ Size' = Size /\ Classes' = Classes
  BY AncestorsKept, SizeKept DEF Classes
<1>2. (\A c : Field(c)' = Field(c)) /\ (\A f : FieldCell(f)' = FieldCell(f))
  BY <1>1 DEF Field, FieldCell
<1>3. \A o : Clear(heap', o) => Clear(heap, o)'
  BY <1>2 DEF Clear
<1>4. \A n, k, o : Confined(stack', n, k, o) => Confined(stack, n, k, o)'
  BY <1>1 DEF Confined, Sole, Isolated, SuperParameter, Initializing, Apart, NoLocal
<1>5. \A n, k, o : Private(heap', stack', n, k, o) => Private(heap, stack, n, k, o)'
  BY <1>3, <1>4 DEF Private
<1>6. \A n, k : Owns(stack[n], k)' => Owns(stack'[n], k)
  BY <1>1 DEF Owns, SuperParameter, IsValue
<1>7. (Len(heap) <= MaxObjects)' /\ (\A n \in DOMAIN stack : Quiet(stack[n]) /\ AwaitsSuper(stack, n))'
  BY DEF Share, Quiet, AwaitsSuper
<1>8. (\A n \in DOMAIN stack : \A k \in DOMAIN stack[n].locals :
         Owns(stack[n], k) => Private(heap, stack, n, k, stack[n].locals[k].value))'
  BY <1>5, <1>6 DEF Share
<1>. QED BY <1>7, <1>8 DEF Share

LEMMA InitShare ==
  ASSUME Init
  PROVE  Share(heap, stack)
<1> DEFINE frame == Construct(Main, 1, FALSE, <<>>)
<1>1. program \in DOMAIN Programs /\ heap = <<Allocated(Main)>> /\ stack = <<frame>>
  BY DEF Init
<1>2. Classes[Main].ctor = <<>> /\ MaxObjects \in Nat \ {0}
  BY <1>1, ProgramFacts, BoundsAssumption
<1>3. Constructor(frame, Main, 1, <<>>) /\ DOMAIN Classes[Main].ctor = {}
  BY <1>2 DEF Constructor, Construct, Frame
<1>. HIDE DEF frame
<1>4. Quiet(frame) /\ DOMAIN frame.locals = {}
  BY <1>3, ConstructShape
<1>5. DOMAIN stack = {1} /\ stack[1] = frame /\ Len(heap) = 1
  BY <1>1
<1>6. 1 + 1 \notin DOMAIN stack
  BY <1>5
<1>. QED BY <1>2, <1>4, <1>5, <1>6 DEF Share, AwaitsSuper

LEMMA NextShare ==
  ASSUME IInv, Share(heap, stack), [Next]_vars
  PROVE  Share(heap, stack)'
<1>1. program \in DOMAIN Programs /\ Inv(heap, stack)
  BY DEF IInv
<1>2. \A c \in 1..Main - 1 : c \in 1..Main
  BY <1>1, ProgramFacts
<1>3. program' = program
  <2>1. /\ \A c, r, e : New(c) \/ NewWith(c, e) \/ Call(r, e) => program' = program
        /\ \A e : SuperWith(e) \/ SuperPlain => program' = program
    BY DEF New, NewWith, Call, SuperWith, SuperPlain, Super, Enter
  <2>2. /\ \A e : InitField(e) \/ Declare(e) => program' = program
        /\ \A k, e : AssignLocal(k, e) => program' = program
        /\ \A f, e : AssignField(f, e) => program' = program
        /\ StoreTable => program' = program
    BY DEF InitField, Declare, AssignLocal, AssignField, StoreTable, Step
  <2>3. (\A e : Return(e) => program' = program) /\ (EndConstructor => program' = program)
    BY DEF Return, EndConstructor, Leave
  <2>4. /\ \A e : BadLoad(e) \/ BadCopy(e) \/ BadCall(e) => program' = program
        /\ \A f : BadStore(f) => program' = program
    BY DEF BadLoad, BadCopy, BadCall, BadStore, Outside, Unset, Undefined
  <2>5. EndMain \/ UNCHANGED vars => program' = program
    BY DEF EndMain, vars
  <2>. QED BY <2>1, <2>2, <2>3, <2>4, <2>5 DEF Next
<1>4. ASSUME NEW c \in 1..Main - 1, New(c) PROVE Share(heap', stack')
  BY <1>1, <1>2, <1>4, NewShare
<1>5. ASSUME NEW c \in 1..Main - 1, NEW e \in Expressions, NewWith(c, e) PROVE Share(heap', stack')
  BY <1>1, <1>2, <1>5, NewWithShare
<1>6. ASSUME NEW r \in Expressions, NEW e \in Expressions, Call(r, e) PROVE Share(heap', stack')
  BY <1>1, <1>6, CallShare
<1>7. ASSUME SuperPlain \/ \E e \in Expressions : SuperWith(e) PROVE Share(heap', stack')
  BY <1>1, <1>7, SuperShare
<1>8. ASSUME NEW e \in Expressions, InitField(e) PROVE Share(heap', stack')
  BY <1>1, <1>8, InitFieldShare
<1>9. ASSUME NEW e \in Expressions, Declare(e) PROVE Share(heap', stack')
  BY <1>1, <1>9, DeclareShare
<1>10. ASSUME NEW e \in Expressions, Return(e) PROVE Share(heap', stack')
  BY <1>1, <1>10, ReturnShare
<1>11. ASSUME NEW e \in Expressions, NEW k \in DOMAIN Current.locals, AssignLocal(k, e)
       PROVE  Share(heap', stack')
  BY <1>1, <1>11, AssignLocalShare
<1>12. ASSUME NEW e \in Expressions, NEW f \in Field(Current.class), AssignField(f, e)
       PROVE  Share(heap', stack')
  BY <1>1, <1>12, AssignFieldShare
<1>13. ASSUME NEW e \in Expressions, BadLoad(e) \/ BadCopy(e) \/ BadCall(e) PROVE Share(heap', stack')
  <2>1. heap' = heap /\ stack' = stack
    BY <1>13 DEF BadLoad, BadCopy, BadCall, Outside, Unset, Undefined
  <2>. QED BY <2>1
<1>14. ASSUME NEW f \in Field(Current.class), BadStore(f) PROVE Share(heap', stack')
  <2>1. heap' = heap /\ stack' = stack
    BY <1>14 DEF BadStore, Outside, Undefined
  <2>. QED BY <2>1
<1>15. ASSUME StoreTable PROVE Share(heap', stack')
  BY <1>1, <1>15, StoreTableShare
<1>16. ASSUME EndConstructor PROVE Share(heap', stack')
  BY <1>1, <1>16, EndConstructorShare
<1>17. ASSUME EndMain \/ UNCHANGED vars PROVE Share(heap', stack')
  <2>1. heap' = heap /\ stack' = stack
    BY <1>17 DEF EndMain, vars
  <2>. QED BY <2>1
<1>18. Share(heap', stack')
  BY <1>4, <1>5, <1>6, <1>7, <1>8, <1>9, <1>10, <1>11, <1>12, <1>13, <1>14, <1>15, <1>16, <1>17
     DEF Next
<1>. QED BY <1>3, <1>18, SharePrimed

\* Whatever the program, a value that a local variable or a parameter holds is held by no
\* field and by no other variable, unless one of the two is a parameter of a constructor
\* that was called by super.
THEOREM ValuesAlone == Spec => []ValuesNotShared
<1>1. Init => Share(heap, stack)
  BY InitShare
<1>2. IInv /\ Share(heap, stack) /\ [Next]_vars => Share(heap, stack)'
  BY NextShare
<1>3. IInv /\ Share(heap, stack) => ValuesNotShared
  <2>1. SUFFICES ASSUME IInv, Share(heap, stack),
                        NEW n \in DOMAIN stack, NEW k \in DOMAIN stack[n].locals,
                        Holds(stack[n].locals[k], stack[n].locals[k].value), ~BySuper(n, k)
                 PROVE  /\ \A p \in DOMAIN heap : \A f \in Field(heap[p].class) :
                             Cells(p)[FieldCell(f)] # stack[n].locals[k].value
                        /\ \A m \in DOMAIN stack : \A j \in DOMAIN stack[m].locals :
                             <<m, j>> # <<n, k>> /\ stack[m].locals[j].value = stack[n].locals[k].value
                               => BySuper(m, j)
    BY DEF ValuesNotShared, Holds
  <2>2. Owns(stack[n], k)
    BY <2>1 DEF Owns, SuperParameter, Holds, BySuper
  <2>3. Private(heap, stack, n, k, stack[n].locals[k].value)
    BY <2>1, <2>2 DEF Share
  <2>4. \A p \in DOMAIN heap : \A f \in Field(heap[p].class) :
          Cells(p)[FieldCell(f)] # stack[n].locals[k].value
    BY <2>3 DEF Private, Clear, Cells
  <2>5. \A m \in DOMAIN stack : \A j \in DOMAIN stack[m].locals :
          <<m, j>> # <<n, k>> /\ stack[m].locals[j].value = stack[n].locals[k].value => BySuper(m, j)
    BY <2>3 DEF Private, Confined, Sole, SuperParameter, BySuper
  <2>. QED BY <2>4, <2>5
<1>. QED BY <1>1, <1>2, <1>3, IInvHolds, PTL DEF Spec

-----------------------------------------------------------------------------
(***************************************************************************)
(* Tables.  An object is built by one constructor of its own class, which  *)
(* is the last to store a table: those of the bases are called by it,      *)
(* before.                                                                 *)
(***************************************************************************)
Builds(h, frame) == frame.stage # "method" /\ frame.class = h[frame.this].class

\* UnderConstruction, for any heap and stack.
Awaits(h, s, o) == \E n \in DOMAIN s : /\ s[n].this = o /\ s[n].class = h[o].class
                                       /\ s[n].stage \in {"super", "table"}

BuiltOnce(h, s) ==
  \A n, m \in DOMAIN s : Builds(h, s[n]) /\ Builds(h, s[m]) /\ s[n].this = s[m].this => n = m
BuiltBelow(h, s) ==
  \A n \in DOMAIN s : s[n].stage # "method" =>
    \/ Builds(h, s[n])
    \/ \E m \in DOMAIN s : /\ m > n /\ Builds(h, s[m])
                           /\ s[m].stage = "table" /\ s[m].this = s[n].this
OwnTables(h, s) ==
  \A o \in DOMAIN h : ~h[o].copy /\ HasMethod(h[o].class) =>
    (h[o].cells[1] = h[o].class <=> ~Awaits(h, s, o))

Tables(h, s) == BuiltOnce(h, s) /\ BuiltBelow(h, s) /\ OwnTables(h, s)

Like(a, b) == a.class = b.class /\ a.this = b.this /\ a.stage = b.stage

SameTables(h, g) ==
  \A o \in DOMAIN h : /\ o \in DOMAIN g /\ g[o].class = h[o].class /\ g[o].copy = h[o].copy
                      /\ g[o].cells[1] = h[o].cells[1]

BuildersKnown(h, s) == \A n \in DOMAIN s : s[n].stage # "method" => s[n].this \in DOMAIN h

\* The constructors are those that there were, d places further.
LEMMA LikeTables ==
  ASSUME NEW h, NEW s, Tables(h, s), BuildersKnown(h, s), DOMAIN s \subseteq Int,
         NEW g, SameTables(h, g), \A o \in DOMAIN g : o \in DOMAIN h \/ g[o].copy,
         NEW t, DOMAIN t \subseteq Int, NEW d \in Int,
         \A n \in DOMAIN t : t[n].stage = "method" \/ (n - d \in DOMAIN s /\ Like(t[n], s[n - d])),
         \A n \in DOMAIN s : s[n].stage \in {"super", "table"} => n + d \in DOMAIN t /\ Like(t[n + d], s[n])
  PROVE  Tables(g, t)
<1>1. ASSUME NEW n \in DOMAIN t, t[n].stage # "method"
      PROVE  /\ n - d \in DOMAIN s /\ Like(t[n], s[n - d]) /\ s[n - d].stage # "method"
             /\ g[t[n].this].class = h[s[n - d].this].class
             /\ Builds(g, t[n]) <=> Builds(h, s[n - d])
  <2>1. n - d \in DOMAIN s /\ Like(t[n], s[n - d])
    BY <1>1
  <2>2. s[n - d].stage # "method" /\ t[n].this = s[n - d].this
    BY <1>1, <2>1 DEF Like
  <2>3. s[n - d].this \in DOMAIN h
    BY <2>1, <2>2 DEF BuildersKnown
  <2>. QED BY <1>1, <2>1, <2>2, <2>3 DEF SameTables, Like, Builds
<1>2. BuiltOnce(g, t)
  <2>1. SUFFICES ASSUME NEW n \in DOMAIN t, NEW m \in DOMAIN t, Builds(g, t[n]), Builds(g, t[m]),
                        t[n].this = t[m].this
                 PROVE  n = m
    BY DEF BuiltOnce
  <2>2. t[n].stage # "method" /\ t[m].stage # "method"
    BY <2>1 DEF Builds
  <2>3. /\ n - d \in DOMAIN s /\ m - d \in DOMAIN s /\ Builds(h, s[n - d]) /\ Builds(h, s[m - d])
        /\ s[n - d].this = s[m - d].this
    BY <1>1, <2>1, <2>2 DEF Like
  <2>4. n - d = m - d
    BY <2>3 DEF Tables, BuiltOnce
  <2>. QED BY <2>4
<1>3. BuiltBelow(g, t)
  <2>1. SUFFICES ASSUME NEW n \in DOMAIN t, t[n].stage # "method", ~Builds(g, t[n])
                 PROVE  \E m \in DOMAIN t : /\ m > n /\ Builds(g, t[m])
                                            /\ t[m].stage = "table" /\ t[m].this = t[n].this
    BY DEF BuiltBelow
  <2>2. /\ n - d \in DOMAIN s /\ s[n - d].stage # "method" /\ ~Builds(h, s[n - d])
        /\ s[n - d].this = t[n].this
    BY <1>1, <2>1 DEF Like
  <2>3. PICK m \in DOMAIN s : /\ m > n - d /\ Builds(h, s[m])
                              /\ s[m].stage = "table" /\ s[m].this = s[n - d].this
    BY <2>2 DEF Tables, BuiltBelow
  <2>4. m + d \in DOMAIN t /\ Like(t[m + d], s[m])
    BY <2>3
  <2>5. m + d > n /\ m + d - d = m
    BY <2>3
  <2>6. t[m + d].stage = "table" /\ t[m + d].this = t[n].this
    BY <2>2, <2>3, <2>4 DEF Like
  <2>7. Builds(g, t[m + d])
    BY <1>1, <2>3, <2>4, <2>5, <2>6
  <2>. QED BY <2>4, <2>5, <2>6, <2>7
<1>4. OwnTables(g, t)
  <2>1. SUFFICES ASSUME NEW o \in DOMAIN g, ~g[o].copy, HasMethod(g[o].class)
                 PROVE  g[o].cells[1] = g[o].class <=> ~Awaits(g, t, o)
    BY DEF OwnTables
  <2>2. /\ o \in DOMAIN h /\ g[o].class = h[o].class /\ g[o].copy = h[o].copy
        /\ g[o].cells[1] = h[o].cells[1]
    BY <2>1 DEF SameTables
  <2>3. h[o].cells[1] = h[o].class <=> ~Awaits(h, s, o)
    BY <2>1, <2>2 DEF Tables, OwnTables
  <2>4. ASSUME Awaits(g, t, o) PROVE Awaits(h, s, o)
    <3>1. PICK n \in DOMAIN t : t[n].this = o /\ t[n].class = g[o].class /\ t[n].stage \in {"super", "table"}
      BY <2>4 DEF Awaits
    <3>2. n - d \in DOMAIN s /\ Like(t[n], s[n - d])
      BY <1>1, <3>1
    <3>. QED BY <2>2, <3>1, <3>2 DEF Awaits, Like
  <2>5. ASSUME Awaits(h, s, o) PROVE Awaits(g, t, o)
    <3>1. PICK n \in DOMAIN s : s[n].this = o /\ s[n].class = h[o].class /\ s[n].stage \in {"super", "table"}
      BY <2>5 DEF Awaits
    <3>2. n + d \in DOMAIN t /\ Like(t[n + d], s[n])
      BY <3>1
    <3>. QED BY <2>2, <3>1, <3>2 DEF Awaits, Like
  <2>. QED BY <2>2, <2>3, <2>4, <2>5
<1>. QED BY <1>2, <1>3, <1>4 DEF Tables

\* One more object, and the constructor of its class.
LEMMA BornTables ==
  ASSUME NEW h, NEW s, Tables(h, s), BuildersKnown(h, s), Len(s) \in Nat, DOMAIN s = 1..Len(s),
         NEW new, new \notin DOMAIN h,
         NEW g, SameTables(h, g), \A o \in DOMAIN g : o \in DOMAIN h \/ o = new,
         g[new].cells[1] # g[new].class,
         NEW t, DOMAIN t = 1..Len(s) + 1, \A n \in 1..Len(s) : Like(t[n + 1], s[n]),
         t[1].this = new, t[1].class = g[new].class, t[1].stage \in {"super", "table"}
  PROVE  Tables(g, t)
<1>1. /\ Builds(g, t[1]) /\ 1 \in DOMAIN t
      /\ \A n \in DOMAIN t : n = 1 \/ (n - 1 \in DOMAIN s /\ n - 1 + 1 = n)
      /\ \A n \in DOMAIN s : n + 1 \in DOMAIN t /\ n \in Nat
  BY DEF Builds
<1>2. ASSUME NEW n \in DOMAIN s
      PROVE  /\ Like(t[n + 1], s[n]) /\ (Builds(h, s[n]) => Builds(g, t[n + 1]))
             /\ Builds(g, t[n + 1]) => Builds(h, s[n]) /\ t[n + 1].this # new
  <2>1. Like(t[n + 1], s[n])
    OBVIOUS
  <2>2. s[n].stage # "method" => s[n].this \in DOMAIN h
    BY DEF BuildersKnown
  <2>. QED BY <2>1, <2>2 DEF Like, Builds, SameTables
<1>3. BuiltOnce(g, t)
  <2>1. SUFFICES ASSUME NEW n \in DOMAIN t, NEW m \in DOMAIN t, Builds(g, t[n]), Builds(g, t[m]),
                        t[n].this = t[m].this
                 PROVE  n = m
    BY DEF BuiltOnce
  <2>2. CASE n = 1
    <3>1. m = 1
      <4>1. m # 1 => m - 1 \in DOMAIN s /\ m - 1 + 1 = m
        BY <1>1
      <4>. QED BY <1>2, <2>1, <2>2, <4>1
    <3>. QED BY <2>2, <3>1
  <2>3. CASE m = 1
    <3>1. n = 1
      <4>1. n # 1 => n - 1 \in DOMAIN s /\ n - 1 + 1 = n
        BY <1>1
      <4>. QED BY <1>2, <2>1, <2>3, <4>1
    <3>. QED BY <2>3, <3>1
  <2>4. CASE n # 1 /\ m # 1
    <3>1. n - 1 \in DOMAIN s /\ n - 1 + 1 = n /\ m - 1 \in DOMAIN s /\ m - 1 + 1 = m
      BY <1>1, <2>4
    <3>2. Builds(h, s[n - 1]) /\ Builds(h, s[m - 1]) /\ s[n - 1].this = s[m - 1].this
      <4>1. Like(t[n], s[n - 1]) /\ Builds(h, s[n - 1])
        BY <1>2, <2>1, <3>1
      <4>2. Like(t[m], s[m - 1]) /\ Builds(h, s[m - 1])
        BY <1>2, <2>1, <3>1
      <4>. QED BY <2>1, <4>1, <4>2 DEF Like
    <3>3. n - 1 = m - 1
      BY <3>1, <3>2 DEF Tables, BuiltOnce
    <3>. QED BY <3>1, <3>3
  <2>. QED BY <2>2, <2>3, <2>4
<1>4. BuiltBelow(g, t)
  <2>1. SUFFICES ASSUME NEW n \in DOMAIN t, t[n].stage # "method", ~Builds(g, t[n])
                 PROVE  \E m \in DOMAIN t : /\ m > n /\ Builds(g, t[m])
                                            /\ t[m].stage = "table" /\ t[m].this = t[n].this
    BY DEF BuiltBelow
  <2>2. n - 1 \in DOMAIN s /\ n - 1 + 1 = n
    BY <1>1, <2>1
  <2>3. Like(t[n], s[n - 1]) /\ ~Builds(h, s[n - 1])
    BY <1>2, <2>1, <2>2
  <2>4. s[n - 1].stage # "method"
    BY <2>1, <2>3 DEF Like
  <2>5. PICK m \in DOMAIN s : /\ m > n - 1 /\ Builds(h, s[m])
                              /\ s[m].stage = "table" /\ s[m].this = s[n - 1].this
    BY <2>2, <2>3, <2>4 DEF Tables, BuiltBelow
  <2>6. m + 1 \in DOMAIN t /\ m + 1 > n
    BY <1>1, <2>5
  <2>7. Like(t[m + 1], s[m]) /\ Builds(g, t[m + 1])
    BY <1>2, <2>5
  <2>8. t[m + 1].stage = "table" /\ t[m + 1].this = t[n].this
    BY <2>3, <2>5, <2>7 DEF Like
  <2>. QED BY <2>6, <2>7, <2>8
<1>5. OwnTables(g, t)
  <2>1. SUFFICES ASSUME NEW o \in DOMAIN g, ~g[o].copy, HasMethod(g[o].class)
                 PROVE  g[o].cells[1] = g[o].class <=> ~Awaits(g, t, o)
    BY DEF OwnTables
  <2>2. CASE o = new
    BY <1>1, <2>2 DEF Awaits
  <2>3. CASE o \in DOMAIN h
    <3>1. g[o].class = h[o].class /\ g[o].copy = h[o].copy /\ g[o].cells[1] = h[o].cells[1]
      BY <2>3 DEF SameTables
    <3>2. h[o].cells[1] = h[o].class <=> ~Awaits(h, s, o)
      BY <2>1, <2>3, <3>1 DEF Tables, OwnTables
    <3>3. ASSUME Awaits(g, t, o) PROVE Awaits(h, s, o)
      <4>1. PICK n \in DOMAIN t : t[n].this = o /\ t[n].class = g[o].class /\ t[n].stage \in {"super", "table"}
        BY <3>3 DEF Awaits
      <4>2. n - 1 \in DOMAIN s /\ n - 1 + 1 = n
        BY <1>1, <2>3, <4>1
      <4>3. Like(t[n], s[n - 1])
        BY <1>2, <4>2
      <4>. QED BY <3>1, <4>1, <4>2, <4>3 DEF Awaits, Like
    <3>4. ASSUME Awaits(h, s, o) PROVE Awaits(g, t, o)
      <4>1. PICK n \in DOMAIN s : s[n].this = o /\ s[n].class = h[o].class /\ s[n].stage \in {"super", "table"}
        BY <3>4 DEF Awaits
      <4>2. n + 1 \in DOMAIN t /\ Like(t[n + 1], s[n])
        BY <1>1, <1>2
      <4>. QED BY <3>1, <4>1, <4>2 DEF Awaits, Like
    <3>. QED BY <3>1, <3>2, <3>3, <3>4
  <2>. QED BY <2>2, <2>3
<1>. QED BY <1>3, <1>4, <1>5 DEF Tables

\* The constructor of the base is called: its class is not that of the object.
LEMMA BasesTables ==
  ASSUME NEW h, NEW s, Tables(h, s), Len(s) \in Nat \ {0}, DOMAIN s = 1..Len(s), s[1].stage = "super",
         NEW t, DOMAIN t = 1..Len(s) + 1,
         t[1].this = s[1].this, t[1].class # h[s[1].this].class,
         t[2].this = s[1].this, t[2].class = s[1].class, t[2].stage = "table",
         \A n \in 2..Len(s) : t[n + 1] = s[n]
  PROVE  Tables(h, t)
<1>1. /\ ~Builds(h, t[1]) /\ 1 \in DOMAIN s /\ 2 \in DOMAIN t
      /\ \A n \in DOMAIN t : n = 1 \/ (n - 1 \in DOMAIN s /\ n - 1 + 1 = n)
      /\ \A n \in DOMAIN s : n + 1 \in DOMAIN t /\ n \in Nat
      /\ \A n \in DOMAIN s : n # 1 => n \in 2..Len(s)
  BY DEF Builds
<1>2. ASSUME NEW n \in DOMAIN s
      PROVE  /\ t[n + 1].this = s[n].this /\ t[n + 1].class = s[n].class
             /\ Builds(h, t[n + 1]) <=> Builds(h, s[n])
             /\ s[n].stage \in {"super", "table"} <=> t[n + 1].stage \in {"super", "table"}
             /\ s[n].stage = "table" => t[n + 1].stage = "table"
             /\ t[n + 1].stage = "method" <=> s[n].stage = "method"
  <2>1. CASE n = 1
    <3>1. n + 1 = 2
      BY <2>1
    <3>. QED BY <2>1, <3>1 DEF Builds
  <2>2. CASE n # 1
    <3>1. t[n + 1] = s[n]
      BY <1>1, <2>2
    <3>. QED BY <3>1
  <2>. QED BY <2>1, <2>2
<1>3. BuiltOnce(h, t)
  <2>1. SUFFICES ASSUME NEW n \in DOMAIN t, NEW m \in DOMAIN t, Builds(h, t[n]), Builds(h, t[m]),
                        t[n].this = t[m].this
                 PROVE  n = m
    BY DEF BuiltOnce
  <2>2. n - 1 \in DOMAIN s /\ n - 1 + 1 = n /\ m - 1 \in DOMAIN s /\ m - 1 + 1 = m
    BY <1>1, <2>1
  <2>3. Builds(h, s[n - 1]) /\ t[n].this = s[n - 1].this
    BY <1>2, <2>1, <2>2
  <2>4. Builds(h, s[m - 1]) /\ t[m].this = s[m - 1].this
    BY <1>2, <2>1, <2>2
  <2>5. n - 1 = m - 1
    BY <2>1, <2>2, <2>3, <2>4 DEF Tables, BuiltOnce
  <2>. QED BY <2>2, <2>5
<1>4. ASSUME NEW n \in DOMAIN s, s[n].stage # "method", ~Builds(h, s[n])
      PROVE  \E m \in DOMAIN t : /\ m > n + 1 /\ Builds(h, t[m])
                                 /\ t[m].stage = "table" /\ t[m].this = s[n].this
  <2>1. PICK m \in DOMAIN s : /\ m > n /\ Builds(h, s[m])
                              /\ s[m].stage = "table" /\ s[m].this = s[n].this
    BY <1>4 DEF Tables, BuiltBelow
  <2>2. m + 1 \in DOMAIN t /\ m + 1 > n + 1
    BY <1>1, <2>1
  <2>3. Builds(h, t[m + 1]) /\ t[m + 1].stage = "table" /\ t[m + 1].this = s[n].this
    BY <1>2, <2>1
  <2>. QED BY <2>2, <2>3
<1>5. BuiltBelow(h, t)
  <2>1. SUFFICES ASSUME NEW n \in DOMAIN t, t[n].stage # "method", ~Builds(h, t[n])
                 PROVE  \E m \in DOMAIN t : /\ m > n /\ Builds(h, t[m])
                                            /\ t[m].stage = "table" /\ t[m].this = t[n].this
    BY DEF BuiltBelow
  <2>2. CASE n = 1
    <3>1. CASE Builds(h, s[1])
      <4>1. 1 + 1 = 2 /\ 2 > 1
        OBVIOUS
      <4>2. Builds(h, t[2])
        BY <1>1, <1>2, <3>1, <4>1
      <4>. QED BY <1>1, <2>2, <4>1, <4>2
    <3>2. CASE ~Builds(h, s[1])
      <4>1. PICK m \in DOMAIN t : /\ m > 1 + 1 /\ Builds(h, t[m])
                                  /\ t[m].stage = "table" /\ t[m].this = s[1].this
        BY <1>1, <1>4, <3>2
      <4>. QED BY <2>2, <4>1
    <3>. QED BY <3>1, <3>2
  <2>3. CASE n # 1
    <3>1. n - 1 \in DOMAIN s /\ n - 1 + 1 = n
      BY <1>1, <2>3
    <3>2. s[n - 1].stage # "method" /\ ~Builds(h, s[n - 1]) /\ t[n].this = s[n - 1].this
      BY <1>2, <2>1, <3>1
    <3>. QED BY <1>4, <3>1, <3>2
  <2>. QED BY <2>2, <2>3
<1>6. OwnTables(h, t)
  <2>1. ASSUME NEW o, Awaits(h, t, o) PROVE Awaits(h, s, o)
    <3>1. PICK n \in DOMAIN t : t[n].this = o /\ t[n].class = h[o].class /\ t[n].stage \in {"super", "table"}
      BY <2>1 DEF Awaits
    <3>2. n - 1 \in DOMAIN s /\ n - 1 + 1 = n
      BY <1>1, <3>1
    <3>. QED BY <1>2, <3>1, <3>2 DEF Awaits
  <2>2. ASSUME NEW o, Awaits(h, s, o) PROVE Awaits(h, t, o)
    <3>1. PICK n \in DOMAIN s : s[n].this = o /\ s[n].class = h[o].class /\ s[n].stage \in {"super", "table"}
      BY <2>2 DEF Awaits
    <3>. QED BY <1>1, <1>2, <3>1 DEF Awaits
  <2>. QED BY <2>1, <2>2 DEF Tables, OwnTables
<1>. QED BY <1>3, <1>5, <1>6 DEF Tables

\* A constructor stores the table of its class.
LEMMA StoredTables ==
  ASSUME NEW h, NEW s, Tables(h, s), Len(s) \in Nat \ {0}, DOMAIN s = 1..Len(s), s[1].stage = "table",
         NEW t, DOMAIN t = DOMAIN s, t[1].this = s[1].this, t[1].class = s[1].class, t[1].stage = "init",
         \A n \in 2..Len(s) : t[n] = s[n],
         NEW g, DOMAIN g = DOMAIN h, \A o \in DOMAIN h : o # s[1].this => g[o] = h[o],
         s[1].this \in DOMAIN h,
         g[s[1].this].class = h[s[1].this].class, g[s[1].this].copy = h[s[1].this].copy,
         g[s[1].this].cells[1] = IF HasMethod(s[1].class) THEN s[1].class ELSE h[s[1].this].cells[1],
         BuildersKnown(h, s)
  PROVE  Tables(g, t)
<1>1. /\ 1 \in DOMAIN s /\ \A n \in DOMAIN s : n # 1 => n \in 2..Len(s)
      /\ \A o \in DOMAIN h : g[o].class = h[o].class /\ g[o].copy = h[o].copy
  OBVIOUS
<1>2. ASSUME NEW n \in DOMAIN s
      PROVE  /\ t[n].this = s[n].this /\ t[n].class = s[n].class
             /\ Builds(g, t[n]) <=> Builds(h, s[n])
             /\ n # 1 => t[n] = s[n]
             /\ t[n].stage = "method" <=> s[n].stage = "method"
  <2>1. t[n].this = s[n].this /\ t[n].class = s[n].class /\ (t[n].stage = "method" <=> s[n].stage = "method")
    BY <1>1
  <2>2. s[n].stage # "method" => s[n].this \in DOMAIN h
    BY DEF BuildersKnown
  <2>. QED BY <1>1, <2>1, <2>2 DEF Builds
<1>3. BuiltOnce(g, t)
  BY <1>2 DEF Tables, BuiltOnce
<1>4. ASSUME NEW n \in DOMAIN s, s[n].stage # "method", ~Builds(h, s[n])
      PROVE  \E m \in DOMAIN t : /\ m > n /\ Builds(g, t[m]) /\ m # 1
                                 /\ t[m].stage = "table" /\ t[m].this = s[n].this
  <2>1. PICK m \in DOMAIN s : /\ m > n /\ Builds(h, s[m])
                              /\ s[m].stage = "table" /\ s[m].this = s[n].this
    BY <1>4 DEF Tables, BuiltBelow
  <2>2. m # 1
    BY <2>1
  <2>. QED BY <1>2, <2>1, <2>2
<1>5. BuiltBelow(g, t)
  BY <1>2, <1>4 DEF BuiltBelow
<1>6. OwnTables(g, t)
  <2>1. SUFFICES ASSUME NEW o \in DOMAIN g, ~g[o].copy, HasMethod(g[o].class)
                 PROVE  g[o].cells[1] = g[o].class <=> ~Awaits(g, t, o)
    BY DEF OwnTables
  <2>2. o \in DOMAIN h /\ g[o].class = h[o].class /\ (h[o].cells[1] = h[o].class <=> ~Awaits(h, s, o))
    BY <1>1, <2>1 DEF Tables, OwnTables
  <2>3. CASE o # s[1].this
    <3>1. Awaits(g, t, o) <=> Awaits(h, s, o)
      BY <1>2, <2>2, <2>3 DEF Awaits
    <3>. QED BY <2>2, <2>3, <3>1
  <2>4. CASE o = s[1].this /\ Builds(h, s[1])
    <3>1. g[o].cells[1] = g[o].class
      BY <2>1, <2>2, <2>4 DEF Builds
    <3>2. ASSUME Awaits(g, t, o) PROVE FALSE
      <4>1. PICK n \in DOMAIN t : t[n].this = o /\ t[n].class = g[o].class /\ t[n].stage \in {"super", "table"}
        BY <3>2 DEF Awaits
      <4>2. Builds(g, t[n]) /\ Builds(g, t[1])
        BY <1>1, <1>2, <2>4, <4>1 DEF Builds
      <4>3. n = 1
        BY <1>1, <1>3, <2>4, <4>1, <4>2 DEF BuiltOnce
      <4>. QED BY <4>1, <4>3
    <3>. QED BY <3>1, <3>2
  <2>5. CASE o = s[1].this /\ ~Builds(h, s[1])
    <3>1. PICK m \in DOMAIN t : /\ m # 1 /\ Builds(g, t[m]) /\ t[m].stage = "table" /\ t[m].this = o
      BY <1>1, <1>4, <2>5
    <3>2. Awaits(g, t, o)
      BY <3>1 DEF Awaits, Builds
    <3>3. Awaits(h, s, o)
      <4>1. t[m] = s[m] /\ Builds(h, s[m])
        BY <1>2, <3>1
      <4>. QED BY <3>1, <4>1 DEF Awaits, Builds
    <3>4. s[1].class # g[o].class
      BY <2>2, <2>5 DEF Builds
    <3>. QED BY <2>2, <2>5, <3>2, <3>3, <3>4
  <2>. QED BY <2>3, <2>4, <2>5
<1>. QED BY <1>3, <1>5, <1>6 DEF Tables

-----------------------------------------------------------------------------
(* The actions keep the tables. *)

LEMMA StackKnown ==
  ASSUME program \in DOMAIN Programs, Inv(heap, stack)
  PROVE  /\ BuildersKnown(heap, stack) /\ SameTables(heap, heap)
         /\ DOMAIN stack = 1..Len(stack) /\ Len(stack) \in Nat \ {0} /\ Current = stack[1]
         /\ DOMAIN stack \subseteq Int
<1>1. DOMAIN stack = 1..Len(stack) /\ Len(stack) \in Nat \ {0} /\ Current = stack[1]
  BY StackTyped
<1>2. \A n \in DOMAIN stack : FrameFine(heap, stack[n])
  BY DEF Inv, FramesFine
<1>. QED BY <1>1, <1>2 DEF BuildersKnown, SameTables, FrameFine

LEMMA AppendSame ==
  ASSUME NEW h \in Seq(ObjectSet), NEW object \in ObjectSet
  PROVE  /\ SameTables(h, Append(h, object)) /\ DOMAIN Append(h, object) = 1..Len(h) + 1
         /\ DOMAIN h = 1..Len(h) /\ Len(h) \in Nat
         /\ Append(h, object)[Len(h) + 1] = object
<1>1. /\ DOMAIN h = 1..Len(h) /\ Len(h) \in Nat
      /\ \A o \in 1..Len(h) : Append(h, object)[o] = h[o]
      /\ Append(h, object)[Len(h) + 1] = object
      /\ DOMAIN Append(h, object) = 1..Len(h) + 1
  BY AppendProperties, LenProperties
<1>. QED BY <1>1 DEF SameTables

\* What is evaluated may leave a copy behind.
LEMMA StoredSame ==
  ASSUME program \in DOMAIN Programs, Inv(heap, stack), NEW e \in Expressions, Storable(e)
  PROVE  /\ SameTables(heap, HeapWith(e)) /\ HeapWith(e) \in Seq(ObjectSet)
         /\ \A o \in DOMAIN HeapWith(e) : o \in DOMAIN heap \/ HeapWith(e)[o].copy
<1>1. /\ HeapFine(HeapWith(e)) /\ heap \in Seq(ObjectSet)
      /\ \A o \in DOMAIN HeapWith(e) : o \in DOMAIN heap \/ HeapWith(e)[o].copy
  BY StoredFine DEF Inv, HeapFine
<1>2. SameTables(heap, HeapWith(e))
  <2>1. CASE ~Copied(e)
    BY <2>1 DEF HeapWith, SameTables
  <2>2. CASE Copied(e)
    <3> DEFINE g == Append(heap, Copy(e))
               T == ObjectSet \cup {Copy(e)}
    <3>1. heap \in Seq(T) /\ Copy(e) \in T
      BY <1>1
    <3>2. HeapWith(e) = g
      BY <2>2 DEF HeapWith
    <3>. HIDE DEF T
    <3>3. DOMAIN heap = 1..Len(heap) /\ Len(heap) \in Nat /\ \A o \in 1..Len(heap) : g[o] = heap[o]
      BY <3>1, AppendProperties, LenProperties
    <3>4. DOMAIN g = 1..Len(heap) + 1
      BY <3>1, AppendProperties, LenProperties
    <3>. HIDE DEF g
    <3>5. SameTables(heap, g)
      BY <3>3, <3>4 DEF SameTables
    <3>. QED BY <3>2, <3>5
  <2>. QED BY <2>1, <2>2
<1>. QED BY <1>1, <1>2 DEF HeapFine

\* A field is not the table.
LEMMA UpdateSame ==
  ASSUME program \in DOMAIN Programs, NEW h, HeapFine(h), NEW o \in DOMAIN h,
         NEW k \in 1..Len(h[o].cells), k # 1, NEW v \in Nat
  PROVE  SameTables(h, Update(h, o, k, v)) /\ DOMAIN Update(h, o, k, v) = DOMAIN h
<1> DEFINE g == Update(h, o, k, v)
<1>1. 1 \in 1..Len(h[o].cells)
  <2>1. Len(h[o].cells) \in Nat \ {0}
    BY ObjectTyped
  <2>. QED BY <2>1
<1>2. /\ DOMAIN g = DOMAIN h /\ \A i \in DOMAIN h : i # o => g[i] = h[i]
      /\ g[o].class = h[o].class /\ g[o].copy = h[o].copy
      /\ \A j \in 1..Len(h[o].cells) : j # k => g[o].cells[j] = h[o].cells[j]
  BY Updated
<1>. HIDE DEF g
<1>3. \A i \in DOMAIN h : /\ g[i].class = h[i].class /\ g[i].copy = h[i].copy
                          /\ g[i].cells[1] = h[i].cells[1]
  BY <1>1, <1>2
<1>4. SameTables(h, g)
  BY <1>2, <1>3 DEF SameTables
<1>. QED BY <1>2, <1>4 DEF g

SameTable(g) == SameTables(heap, g) /\ \A o \in DOMAIN g : o \in DOMAIN heap \/ g[o].copy

\* A step of a call that stores no table.
LEMMA StepTables ==
  ASSUME program \in DOMAIN Programs, Inv(heap, stack), Tables(heap, stack),
         NEW g, SameTable(g),
         NEW a \in FrameSet, Like(a, Current)
  PROVE  Tables(g, <<a>> \o Tail(stack))
<1> DEFINE t == <<a>> \o Tail(stack)
<1>1. /\ stack \in Seq(FrameSet) /\ stack # <<>> /\ Current = stack[1] /\ BuildersKnown(heap, stack)
      /\ DOMAIN stack = 1..Len(stack) /\ Len(stack) \in Nat \ {0} /\ DOMAIN stack \subseteq Int
  BY StackTyped, StackKnown
<1>2. DOMAIN t = 1..Len(stack) /\ t[1] = a /\ \A n \in 2..Len(stack) : t[n] = stack[n]
  BY <1>1, StackShapes
<1>. HIDE DEF t
<1>3. ASSUME NEW n \in 1..Len(stack) PROVE Like(t[n], stack[n])
  <2>1. CASE n = 1
    BY <1>1, <1>2, <2>1
  <2>2. CASE n # 1
    <3>1. n \in 2..Len(stack)
      BY <1>1, <2>2
    <3>. QED BY <1>2, <3>1 DEF Like
  <2>. QED BY <2>1, <2>2
<1>4. \A n \in 1..Len(stack) : n - 0 = n /\ n + 0 = n
  OBVIOUS
<1>5. 0 \in Int /\ DOMAIN t = DOMAIN stack /\ DOMAIN t \subseteq Int
  BY <1>1, <1>2
<1>6. \A n \in DOMAIN t : n - 0 \in DOMAIN stack /\ Like(t[n], stack[n - 0])
  BY <1>1, <1>3, <1>4, <1>5
<1>7. \A n \in DOMAIN stack : n + 0 \in DOMAIN t /\ Like(t[n + 0], stack[n])
  BY <1>1, <1>3, <1>4, <1>5
<1>8. Tables(g, t)
  BY <1>1, <1>5, <1>6, <1>7, LikeTables DEF SameTable
<1>. QED BY <1>8 DEF t

\* A method is called.
LEMMA InvokeTables ==
  ASSUME program \in DOMAIN Programs, Inv(heap, stack), Tables(heap, stack),
         NEW g, SameTable(g),
         NEW a \in FrameSet, a.stage = "method"
  PROVE  Tables(g, <<a, Current>> \o Tail(stack))
<1> DEFINE t == <<a, Current>> \o Tail(stack)
<1>1. /\ stack \in Seq(FrameSet) /\ stack # <<>> /\ Current = stack[1] /\ BuildersKnown(heap, stack)
      /\ DOMAIN stack = 1..Len(stack) /\ Len(stack) \in Nat \ {0} /\ DOMAIN stack \subseteq Int
      /\ Current \in FrameSet
  BY StackTyped, StackKnown
<1>2. /\ DOMAIN t = 1..Len(stack) + 1 /\ t[1] = a /\ t[2] = Current
      /\ \A n \in 2..Len(stack) : t[n + 1] = stack[n]
  BY <1>1, StackShapes
<1>. HIDE DEF t
<1>3. ASSUME NEW n \in 1..Len(stack) PROVE t[n + 1] = stack[n]
  <2>1. CASE n = 1
    BY <1>1, <1>2, <2>1
  <2>2. CASE n # 1
    <3>1. n \in 2..Len(stack)
      BY <1>1, <2>2
    <3>. QED BY <1>2, <3>1
  <2>. QED BY <2>1, <2>2
<1>4. ASSUME NEW n \in DOMAIN t, n # 1 PROVE n - 1 \in DOMAIN stack /\ Like(t[n], stack[n - 1])
  <2>1. n - 1 \in 1..Len(stack) /\ n - 1 + 1 = n
    BY <1>1, <1>2, <1>4
  <2>2. t[n] = stack[n - 1]
    BY <1>3, <2>1
  <2>. QED BY <1>1, <2>1, <2>2 DEF Like
<1>5. \A n \in DOMAIN t : t[n].stage = "method" \/ (n - 1 \in DOMAIN stack /\ Like(t[n], stack[n - 1]))
  BY <1>2, <1>4
<1>6. \A n \in DOMAIN stack : n + 1 \in DOMAIN t /\ Like(t[n + 1], stack[n])
  BY <1>1, <1>2, <1>3 DEF Like
<1>7. 1 \in Int /\ DOMAIN t \subseteq Int
  BY <1>2
<1>8. Tables(g, t)
  BY <1>1, <1>5, <1>6, <1>7, LikeTables DEF SameTable
<1>. QED BY <1>8 DEF t

\* A constructor is called for a new object.
LEMMA ConstructTables ==
  ASSUME program \in DOMAIN Programs, Inv(heap, stack), Tables(heap, stack),
         NEW h, SameTable(h), h \in Seq(ObjectSet), NEW c \in 1..Main,
         NEW a \in FrameSet, a.this = Len(h) + 1, a.class = c, a.stage \in {"super", "table"}
  PROVE  Tables(Append(h, Allocated(c)), <<a, Current>> \o Tail(stack))
<1> DEFINE t == <<a, Current>> \o Tail(stack)
           g == Append(h, Allocated(c))
           new == Len(h) + 1
<1>1. /\ stack \in Seq(FrameSet) /\ stack # <<>> /\ Current = stack[1] /\ BuildersKnown(heap, stack)
      /\ DOMAIN stack = 1..Len(stack) /\ Len(stack) \in Nat \ {0} /\ DOMAIN stack \subseteq Int
      /\ Current \in FrameSet
  BY StackTyped, StackKnown
<1>2. /\ DOMAIN t = 1..Len(stack) + 1 /\ t[1] = a /\ t[2] = Current
      /\ \A n \in 2..Len(stack) : t[n + 1] = stack[n]
  BY <1>1, StackShapes
<1>. HIDE DEF t
<1>3. ASSUME NEW n \in 1..Len(stack) PROVE Like(t[n + 1], stack[n])
  <2>1. CASE n = 1
    BY <1>1, <1>2, <2>1 DEF Like
  <2>2. CASE n # 1
    <3>1. n \in 2..Len(stack)
      BY <1>1, <2>2
    <3>. QED BY <1>2, <3>1 DEF Like
  <2>. QED BY <2>1, <2>2
<1>4. Tables(h, stack) /\ BuildersKnown(h, stack)
  <2>1. \A n \in DOMAIN stack : n - 0 = n /\ n + 0 = n
    BY <1>1
  <2>2. \A n \in DOMAIN stack : n - 0 \in DOMAIN stack /\ Like(stack[n], stack[n - 0])
    BY <2>1 DEF Like
  <2>3. \A n \in DOMAIN stack : n + 0 \in DOMAIN stack /\ Like(stack[n + 0], stack[n])
    BY <2>1 DEF Like
  <2>4. 0 \in Int
    OBVIOUS
  <2>5. Tables(h, stack)
    BY <1>1, <2>2, <2>3, <2>4, LikeTables DEF SameTable
  <2>6. BuildersKnown(h, stack)
    BY <1>1 DEF BuildersKnown, SameTable, SameTables
  <2>. QED BY <2>5, <2>6
<1>5. Allocated(c) \in ObjectSet /\ Allocated(c).class = c /\ Allocated(c).cells[1] = 0 /\ c # 0
  <2>1. Size[c] \in Nat \ {0}
    BY SizesGrow
  <2> DEFINE cells == [k \in 1..Size[c] |-> 0]
  <2>2. cells \in Seq(Nat) /\ cells[1] = 0
    BY <2>1
  <2>3. Allocated(c) = [class |-> c, cells |-> cells, copy |-> FALSE]
    BY DEF Allocated
  <2>. HIDE DEF cells
  <2>. QED BY <2>2, <2>3, ProgramFacts DEF ObjectSet
<1>6. /\ SameTables(h, g) /\ DOMAIN g = 1..Len(h) + 1 /\ DOMAIN h = 1..Len(h) /\ Len(h) \in Nat
      /\ g[new] = Allocated(c)
  BY <1>5, AppendSame
<1>. HIDE DEF g
<1>7. new \notin DOMAIN h /\ \A o \in DOMAIN g : o \in DOMAIN h \/ o = new
  BY <1>6
<1>. HIDE DEF new
<1>8. g[new].class = c /\ g[new].cells[1] # g[new].class
  BY <1>5, <1>6
<1>9. t[1].this = new /\ t[1].class = g[new].class /\ t[1].stage \in {"super", "table"}
  BY <1>2, <1>8 DEF new
<1>10. Len(stack) \in Nat /\ DOMAIN stack = 1..Len(stack) /\ DOMAIN t = 1..Len(stack) + 1
  BY <1>1, <1>2
<1>11. \A n \in 1..Len(stack) : Like(t[n + 1], stack[n])
  BY <1>3
<1>12. Tables(g, t)
  BY <1>4, <1>6, <1>7, <1>8, <1>9, <1>10, <1>11, BornTables
<1>. QED BY <1>12 DEF t, g

\* The caller goes on.
LEMMA LeaveTables ==
  ASSUME program \in DOMAIN Programs, Inv(heap, stack), Tables(heap, stack), 2 \in DOMAIN stack,
         Current.stage \notin {"super", "table"},
         NEW c \in FrameSet, Like(c, Caller)
  PROVE  Tables(heap, <<c>> \o Tail(Tail(stack)))
<1> DEFINE s == Tail(stack)
           t == <<c>> \o Tail(s)
<1>1. /\ stack \in Seq(FrameSet) /\ stack # <<>> /\ Current = stack[1] /\ BuildersKnown(heap, stack)
      /\ DOMAIN stack = 1..Len(stack) /\ Len(stack) \in Nat \ {0} /\ DOMAIN stack \subseteq Int
      /\ SameTables(heap, heap) /\ Len(stack) >= 2
  BY StackTyped, StackKnown
<1>2. s \in Seq(FrameSet) /\ Len(s) = Len(stack) - 1 /\ \A i \in 1..Len(stack) - 1 : s[i] = stack[i + 1]
  BY <1>1, HeadTailProperties
<1>3. s # <<>>
  <2>1. Len(s) # 0
    BY <1>1, <1>2
  <2>. HIDE DEF s
  <2>. QED BY <1>2, <2>1
<1>. HIDE DEF s
<1>4. DOMAIN t = 1..Len(stack) - 1 /\ t[1] = c /\ \A m \in 2..Len(stack) - 1 : t[m] = s[m]
  BY <1>2, <1>3, StackShapes
<1>. HIDE DEF t
<1>5. ASSUME NEW n \in 1..Len(stack) - 1 PROVE Like(t[n], stack[n + 1])
  <2>1. CASE n = 1
    <3>1. n + 1 = 2
      BY <2>1
    <3>. QED BY <1>4, <2>1, <3>1 DEF Caller
  <2>2. CASE n # 1
    <3>1. n \in 2..Len(stack) - 1
      BY <1>1, <2>2
    <3>. QED BY <1>2, <1>4, <3>1 DEF Like
  <2>. QED BY <2>1, <2>2
<1>6. ASSUME NEW n \in DOMAIN t PROVE n - (-1) \in DOMAIN stack /\ Like(t[n], stack[n - (-1)])
  <2>1. n - (-1) = n + 1 /\ n + 1 \in 1..Len(stack)
    BY <1>1, <1>4
  <2>. QED BY <1>1, <1>4, <1>5, <2>1
<1>7. ASSUME NEW n \in DOMAIN stack, stack[n].stage \in {"super", "table"}
      PROVE  n + (-1) \in DOMAIN t /\ Like(t[n + (-1)], stack[n])
  <2>1. n # 1
    BY <1>1, <1>7
  <2>2. n + (-1) \in 1..Len(stack) - 1 /\ n + (-1) + 1 = n
    BY <1>1, <2>1
  <2>3. Like(t[n + (-1)], stack[n])
    BY <1>5, <2>2
  <2>. QED BY <1>4, <2>2, <2>3
<1>8. -1 \in Int /\ DOMAIN t \subseteq Int
  BY <1>1, <1>4
<1>9. Tables(heap, t)
  BY <1>1, <1>6, <1>7, <1>8, LikeTables
<1>. QED BY <1>9 DEF t, s

LEMMA NewTables ==
  ASSUME program \in DOMAIN Programs, Inv(heap, stack), Tables(heap, stack), NEW c \in 1..Main, New(c)
  PROVE  Tables(heap', stack')
<1> DEFINE a == Construct(c, Len(heap) + 1, FALSE, <<>>)
           g == Append(heap, Allocated(c))
<1>1. heap' = g /\ stack' = <<a, Current>> \o Tail(stack)
  BY DEF New, Enter
<1>2. Constructor(a, c, Len(heap) + 1, <<>>)
  BY DEF Constructor, Construct, Frame
<1>3. a \in FrameSet
  <2>1. Inv(g, <<a, Current>> \o Tail(stack))
    BY <1>1, NewStep
  <2>. HIDE DEF a, g
  <2>. QED BY <2>1, NextTop
<1>4. SameTable(heap) /\ heap \in Seq(ObjectSet)
  BY StackKnown DEF SameTable, Inv, HeapFine
<1>. HIDE DEF a
<1>5. Tables(g, <<a, Current>> \o Tail(stack))
  BY <1>2, <1>3, <1>4, ConstructTables DEF Constructor
<1>. QED BY <1>1, <1>5

LEMMA NewWithTables ==
  ASSUME program \in DOMAIN Programs, Inv(heap, stack), Tables(heap, stack), NEW c \in 1..Main,
         NEW e \in Expressions, NewWith(c, e)
  PROVE  Tables(heap', stack')
<1> DEFINE h == HeapWith(e)
           a == Construct(c, Len(h) + 1, FALSE, <<Stored(e)>>)
           g == Append(h, Allocated(c))
<1>1. Storable(e) /\ heap' = g /\ stack' = <<a, Current>> \o Tail(stack)
  BY DEF NewWith, Enter
<1>2. Constructor(a, c, Len(h) + 1, <<Stored(e)>>)
  BY DEF Constructor, Construct, Frame
<1>3. a \in FrameSet
  <2>1. Inv(g, <<a, Current>> \o Tail(stack))
    BY <1>1, NewWithStep
  <2>. HIDE DEF a, g
  <2>. QED BY <2>1, NextTop
<1>4. SameTable(h) /\ h \in Seq(ObjectSet)
  BY <1>1, StoredSame DEF SameTable
<1>. HIDE DEF a, h
<1>5. Tables(g, <<a, Current>> \o Tail(stack))
  BY <1>2, <1>3, <1>4, ConstructTables DEF Constructor
<1>. QED BY <1>1, <1>5

LEMMA CallTables ==
  ASSUME program \in DOMAIN Programs, Inv(heap, stack), Tables(heap, stack), NEW r \in Expressions,
         NEW e \in Expressions, Call(r, e)
  PROVE  Tables(heap', stack')
<1> DEFINE g == HeapWith(e)
           a == Invoke(Entry(Cells(Eval(r))[1]), Eval(r), Stored(e))
<1>1. Storable(e) /\ heap' = g /\ stack' = <<a, Current>> \o Tail(stack)
  BY DEF Call, Enter
<1>2. a.stage = "method"
  BY DEF Invoke, Frame
<1>3. a \in FrameSet
  <2>1. Inv(g, <<a, Current>> \o Tail(stack))
    BY <1>1, CallStep
  <2>. HIDE DEF a, g
  <2>. QED BY <2>1, NextTop
<1>4. SameTable(g)
  BY <1>1, StoredSame DEF SameTable
<1>. HIDE DEF a, g
<1>5. Tables(g, <<a, Current>> \o Tail(stack))
  BY <1>2, <1>3, <1>4, InvokeTables
<1>. QED BY <1>1, <1>5

LEMMA SuperTables ==
  ASSUME program \in DOMAIN Programs, Inv(heap, stack), Tables(heap, stack),
         SuperPlain \/ \E e \in Expressions : SuperWith(e)
  PROVE  Tables(heap', stack')
<1>1. PICK values : Super(values)
  BY DEF SuperPlain, SuperWith
<1> DEFINE base == Classes[Current.class].base
           o == Current.this
           a == Construct(base, o, TRUE, values)
           b == [Settled EXCEPT !.stage = "table"]
           t == <<a, b>> \o Tail(stack)
<1>2. heap' = heap /\ Current.stage = "super" /\ stack' = t
  BY <1>1 DEF Super, Enter
<1>3. /\ HeapFine(heap) /\ stack \in Seq(FrameSet) /\ stack # <<>> /\ Current = stack[1]
      /\ Current \in FrameSet /\ DOMAIN stack = 1..Len(stack) /\ Len(stack) \in Nat \ {0}
  BY StackTyped
<1>4. a \in FrameSet /\ b \in FrameSet
  <2>1. Inv(heap, <<a, b>> \o Tail(stack))
    BY <1>2, SuperStep
  <2>. HIDE DEF a, b
  <2>. QED BY <2>1, NextTop
<1>5. b.class = Current.class /\ b.this = o /\ b.stage = "table"
  <2>1. b = Changed(Current, "table", Current.item, Current.locals, {})
    BY <1>3, ChangedForms DEF Settled
  <2>. HIDE DEF b
  <2>. QED BY <2>1 DEF Changed
<1>6. a.class = base /\ a.this = o
  BY DEF Construct, Frame
<1>7. base # heap[o].class
  <2>1. FrameFine(heap, Current) /\ Current.class \in 1..Main
    BY <1>3, CurrentFine DEF FrameSet
  <2>2. o \in DOMAIN heap /\ Current.class \in Ancestors[heap[o].class]
    BY <1>2, <2>1 DEF FrameFine
  <2>3. heap[o].class \in 1..Main /\ Main \in Nat /\ base \in 0..Current.class - 1
    BY <1>3, <2>1, <2>2, ObjectTyped, ProgramFacts
  <2>4. Current.class <= heap[o].class
    BY <2>2, <2>3, AncestorsAreClasses
  <2>. HIDE DEF base, o
  <2>. QED BY <2>1, <2>3, <2>4
<1>. HIDE DEF a, b, base, t
<1>8. /\ DOMAIN t = 1..Len(stack) + 1 /\ t[1] = a /\ t[2] = b
      /\ \A n \in 2..Len(stack) : t[n + 1] = stack[n]
  BY <1>3, <1>4, StackShapes DEF t
<1>9. /\ stack[1].stage = "super" /\ t[1].this = stack[1].this /\ t[1].class # heap[stack[1].this].class
      /\ t[2].this = stack[1].this /\ t[2].class = stack[1].class /\ t[2].stage = "table"
  BY <1>2, <1>3, <1>5, <1>6, <1>7, <1>8
<1>10. Tables(heap, t)
  BY <1>3, <1>8, <1>9, BasesTables
<1>. QED BY <1>2, <1>10

LEMMA StoreTableTables ==
  ASSUME program \in DOMAIN Programs, Inv(heap, stack), Tables(heap, stack), StoreTable
  PROVE  Tables(heap', stack')
<1> DEFINE o == Current.this
           a == [Current EXCEPT !.stage = "init"]
           g == IF HasMethod(Current.class) THEN Update(heap, o, 1, Current.class) ELSE heap
           t == <<a>> \o Tail(stack)
<1>1. Current.stage = "table" /\ heap' = g /\ stack' = t
  BY DEF StoreTable, Step, Update
<1>2. /\ HeapFine(heap) /\ stack \in Seq(FrameSet) /\ stack # <<>> /\ Current = stack[1]
      /\ Current \in FrameSet /\ DOMAIN stack = 1..Len(stack) /\ Len(stack) \in Nat \ {0}
      /\ FrameFine(heap, Current) /\ Current.class \in 1..Main /\ Main \in Nat
  BY StackTyped, CurrentFine, ProgramFacts DEF FrameSet
<1>3. o \in DOMAIN heap /\ 1 \in 1..Len(heap[o].cells) /\ Current.class \in Nat
  <2>1. o \in DOMAIN heap
    BY <1>1, <1>2 DEF FrameFine
  <2>2. Len(heap[o].cells) \in Nat \ {0}
    BY <1>2, <2>1, ObjectTyped
  <2>. QED BY <1>2, <2>1, <2>2
<1>4. a.class = Current.class /\ a.this = o /\ a.stage = "init"
  <2>1. a = Changed(Current, "init", Current.item, Current.locals, Current.results)
    BY <1>2, ChangedForms
  <2>. HIDE DEF a
  <2>. QED BY <2>1 DEF Changed
<1>5. a \in FrameSet
  <2>1. Inv(g, <<a>> \o Tail(stack))
    BY <1>1, StoreTableStep
  <2>. HIDE DEF a, g
  <2>. QED BY <2>1, NextTop
<1>6. /\ DOMAIN g = DOMAIN heap /\ \A i \in DOMAIN heap : i # o => g[i] = heap[i]
      /\ g[o].class = heap[o].class /\ g[o].copy = heap[o].copy
      /\ g[o].cells[1] = IF HasMethod(Current.class) THEN Current.class ELSE heap[o].cells[1]
  <2>1. CASE HasMethod(Current.class)
    BY <1>2, <1>3, <2>1, Updated
  <2>2. CASE ~HasMethod(Current.class)
    BY <2>2
  <2>. QED BY <2>1, <2>2
<1>. HIDE DEF a, g, t
<1>7. /\ DOMAIN t = DOMAIN stack /\ t[1] = a /\ \A n \in 2..Len(stack) : t[n] = stack[n]
  BY <1>2, <1>5, StackShapes DEF t
<1>8. /\ stack[1].stage = "table" /\ t[1].this = stack[1].this /\ t[1].class = stack[1].class
      /\ t[1].stage = "init" /\ stack[1].this = o /\ stack[1].class = Current.class
  BY <1>1, <1>2, <1>4, <1>7
<1>. HIDE DEF o
<1>9. BuildersKnown(heap, stack)
  BY StackKnown
<1>10. /\ g[stack[1].this].cells[1] =
            IF HasMethod(stack[1].class) THEN stack[1].class ELSE heap[stack[1].this].cells[1]
       /\ g[stack[1].this].class = heap[stack[1].this].class
       /\ g[stack[1].this].copy = heap[stack[1].this].copy
       /\ stack[1].this \in DOMAIN heap
       /\ \A i \in DOMAIN heap : i # stack[1].this => g[i] = heap[i]
  BY <1>3, <1>6, <1>8
<1>11. Tables(g, t)
  BY <1>2, <1>6, <1>7, <1>8, <1>9, <1>10, StoredTables
<1>. QED BY <1>1, <1>11

LEMMA InitFieldTables ==
  ASSUME program \in DOMAIN Programs, Inv(heap, stack), Tables(heap, stack),
         NEW e \in Expressions, InitField(e)
  PROVE  Tables(heap', stack')
<1> DEFINE f == <<Current.class, Current.item>>
           g == Update(heap, Current.this, FieldCell(f), Eval(e))
           a == [Settled EXCEPT !.item = @ + 1]
<1>1. /\ Initializing(Current) /\ Loaded(e) /\ heap' = g /\ stack' = <<a>> \o Tail(stack)
  BY DEF InitField, FieldsLeft, Initializing, Step, Update
<1>2. /\ HeapFine(heap) /\ Current \in FrameSet /\ FrameFine(heap, Current)
      /\ Current.class \in 1..Main /\ Current.item \in Nat \ {0}
  BY StackTyped, CurrentFine DEF FrameSet
<1>3. /\ Current.this \in DOMAIN heap /\ FieldCell(f) \in 1..Len(heap[Current.this].cells)
      /\ Eval(e) \in Nat /\ FieldCell(f) # 1
  <2>1. Current.this \in DOMAIN heap /\ Current.class \in Ancestors[heap[Current.this].class]
    BY <1>1, <1>2 DEF FrameFine, Initializing
  <2>2. /\ heap[Current.this].class \in 1..Main
        /\ Len(heap[Current.this].cells) = Size[heap[Current.this].class]
        /\ Len(heap[Current.this].cells) \in Nat
    BY <1>2, <2>1, ObjectTyped
  <2>3. f \in Field(heap[Current.this].class)
    <3>1. Classes[Current.class].fields \in Seq(0..Main)
      BY <1>2, ProgramFacts
    <3>2. Len(Classes[Current.class].fields) \in Nat
          /\ DOMAIN Classes[Current.class].fields = 1..Len(Classes[Current.class].fields)
      BY <3>1, LenProperties
    <3>3. Current.item \in DOMAIN Classes[Current.class].fields
      BY <1>1, <1>2, <3>2 DEF Initializing
    <3>. QED BY <2>1, <3>3 DEF Field
  <2>. HIDE DEF f
  <2>4. FieldCell(f) \in Nat /\ FieldCell(f) >= 2 /\ FieldCell(f) <= Size[heap[Current.this].class]
    BY <2>2, <2>3, FieldPlace
  <2>5. Eval(e) \in Nat
    BY <1>1, Evaluated
  <2>. QED BY <2>1, <2>2, <2>4, <2>5
<1>4. a \in FrameSet
  <2>1. Inv(g, <<a>> \o Tail(stack))
    BY <1>1, InitFieldStep
  <2>. HIDE DEF a, g
  <2>. QED BY <2>1, NextTop
<1>5. Like(a, Current)
  <2>1. a = [Settled EXCEPT !.item = Settled.item + 1]
    OBVIOUS
  <2>. HIDE DEF a
  <2>2. a = Changed(Current, Current.stage, Settled.item + 1, Current.locals, {})
    BY <1>2, <2>1, ChangedForms DEF Settled
  <2>. QED BY <2>2 DEF Changed, Like
<1>6. SameTable(g)
  <2>. HIDE DEF f
  <2>. QED BY <1>2, <1>3, UpdateSame DEF SameTable
<1>. HIDE DEF a, g
<1>7. Tables(g, <<a>> \o Tail(stack))
  BY <1>4, <1>5, <1>6, StepTables
<1>. QED BY <1>1, <1>7

LEMMA DeclareTables ==
  ASSUME program \in DOMAIN Programs, Inv(heap, stack), Tables(heap, stack),
         NEW e \in Expressions, Declare(e)
  PROVE  Tables(heap', stack')
<1> DEFINE a == [Settled EXCEPT !.locals = Append(@, Local(e.type, Stored(e)))]
           g == HeapWith(e)
<1>1. Storable(e) /\ heap' = g /\ stack' = <<a>> \o Tail(stack)
  BY DEF Declare, Step
<1>2. a \in FrameSet
  <2>1. Inv(g, <<a>> \o Tail(stack))
    BY <1>1, DeclareStep
  <2>. HIDE DEF a, g
  <2>. QED BY <2>1, NextTop
<1>3. Like(a, Current)
  <2>1. Current \in FrameSet
    BY StackTyped
  <2>2. a = [Settled EXCEPT !.locals = Append(Settled.locals, Local(e.type, Stored(e)))]
    OBVIOUS
  <2>. HIDE DEF a
  <2>3. a = Changed(Current, Current.stage, Current.item, Append(Settled.locals, Local(e.type, Stored(e))), {})
    BY <2>1, <2>2, ChangedForms DEF Settled
  <2>. QED BY <2>3 DEF Changed, Like
<1>4. SameTable(g)
  BY <1>1, StoredSame DEF SameTable
<1>. HIDE DEF a, g
<1>5. Tables(g, <<a>> \o Tail(stack))
  BY <1>2, <1>3, <1>4, StepTables
<1>. QED BY <1>1, <1>5

LEMMA AssignLocalTables ==
  ASSUME program \in DOMAIN Programs, Inv(heap, stack), Tables(heap, stack),
         NEW e \in Expressions, NEW i \in DOMAIN Current.locals, AssignLocal(i, e)
  PROVE  Tables(heap', stack')
<1> DEFINE a == [Settled EXCEPT !.locals[i].value = Stored(e)]
           g == HeapWith(e)
<1>1. Storable(e) /\ heap' = g /\ stack' = <<a>> \o Tail(stack)
  BY DEF AssignLocal, Step
<1>2. a \in FrameSet
  <2>1. Inv(g, <<a>> \o Tail(stack))
    BY <1>1, AssignLocalStep
  <2>. HIDE DEF a, g
  <2>. QED BY <2>1, NextTop
<1>3. Like(a, Current)
  <2> DEFINE locals == [Settled.locals EXCEPT ![i].value = Stored(e)]
  <2>1. Current \in FrameSet
    BY StackTyped
  <2>2. a = [Settled EXCEPT !.locals = locals]
    OBVIOUS
  <2>. HIDE DEF a, locals
  <2>3. a = Changed(Current, Current.stage, Current.item, locals, {})
    BY <2>1, <2>2, ChangedForms DEF Settled
  <2>. QED BY <2>3 DEF Changed, Like
<1>4. SameTable(g)
  BY <1>1, StoredSame DEF SameTable
<1>. HIDE DEF a, g
<1>5. Tables(g, <<a>> \o Tail(stack))
  BY <1>2, <1>3, <1>4, StepTables
<1>. QED BY <1>1, <1>5

LEMMA AssignFieldTables ==
  ASSUME program \in DOMAIN Programs, Inv(heap, stack), Tables(heap, stack),
         NEW e \in Expressions, NEW f \in Field(Current.class), AssignField(f, e)
  PROVE  Tables(heap', stack')
<1> DEFINE h == HeapWith(e)
           g == Update(h, Current.this, FieldCell(f), Stored(e))
<1>1. /\ Storable(e) /\ FieldCell(f) <= Len(heap[Current.this].cells)
      /\ heap' = g /\ stack' = <<Settled>> \o Tail(stack)
  BY DEF AssignField, Step, Update, Inside, Cells
<1>2. Current \in FrameSet /\ FrameFine(heap, Current) /\ Current.class \in 1..Main
  BY CurrentFine DEF FrameSet
<1>3. Settled \in FrameSet /\ Like(Settled, Current)
  <2>1. Settled = Changed(Current, Current.stage, Current.item, Current.locals, {})
    BY <1>2, ChangedForms DEF Settled
  <2>. QED BY <1>2, <2>1 DEF Changed, Like, FrameSet
<1>4. HeapFine(h) /\ Extends(heap, h) /\ Stored(e) \in Nat /\ SameTable(h)
  <2>1. HeapFine(h) /\ Extends(heap, h) /\ e.type \in 0..Main /\ IsRef(h, e.type, Stored(e))
    BY <1>1, StoredFine
  <2>2. SameTable(h)
    BY <1>1, StoredSame DEF SameTable
  <2>. HIDE DEF h
  <2>. QED BY <2>1, <2>2, RefValue
<1>5. Current.this \in DOMAIN heap
  <2>1. Current.class # NumberType
    BY <1>2, ProgramFacts DEF NumberType
  <2>. QED BY <1>2, <2>1 DEF FrameFine, IsRef
<1>. HIDE DEF h
<1>6. Current.this \in DOMAIN h /\ FieldCell(f) \in 1..Len(h[Current.this].cells) /\ FieldCell(f) # 1
  <2>1. Current.this \in DOMAIN h /\ Len(h[Current.this].cells) = Len(heap[Current.this].cells)
    BY <1>4, <1>5 DEF Extends
  <2>2. FieldCell(f) \in Nat /\ FieldCell(f) >= 2
    BY <1>2, FieldPlace
  <2>3. Len(h[Current.this].cells) \in Nat
    BY <1>4, <2>1, ObjectTyped
  <2>. QED BY <1>1, <2>1, <2>2, <2>3
<1>7. SameTables(h, g) /\ DOMAIN g = DOMAIN h
  BY <1>4, <1>6, UpdateSame
<1>. HIDE DEF g
<1>8. SameTable(g)
  BY <1>4, <1>7 DEF SameTable, SameTables
<1>9. Tables(g, <<Settled>> \o Tail(stack))
  BY <1>3, <1>8, StepTables
<1>. QED BY <1>1, <1>9

LEMMA ReturnTables ==
  ASSUME program \in DOMAIN Programs, Inv(heap, stack), Tables(heap, stack),
         (\E e \in Expressions : Return(e)) \/ EndConstructor
  PROVE  Tables(heap', stack')
<1>1. /\ heap' = heap /\ Current.stage \in {"init", "method"}
      /\ \E c : /\ stack' = <<c>> \o Tail(Tail(stack))
                /\ c = Caller \/ \E x : c = [Caller EXCEPT !.results = x]
  <2>1. ASSUME NEW e \in Expressions, Return(e)
        PROVE  /\ heap' = heap /\ Current.stage = "method"
               /\ \E x : stack' = <<[Caller EXCEPT !.results = x]>> \o Tail(Tail(stack))
    <3> DEFINE x == Caller.results \cup {Local(Result, Eval(e))}
    <3>1. stack' = <<[Caller EXCEPT !.results = x]>> \o Tail(Tail(stack))
      BY <2>1 DEF Return, Leave, WithResult
    <3>. QED BY <2>1, <3>1 DEF Return, Leave
  <2>2. ASSUME EndConstructor
        PROVE  /\ heap' = heap /\ Current.stage = "init"
               /\ \/ stack' = <<Caller>> \o Tail(Tail(stack))
                  \/ \E x : stack' = <<[Caller EXCEPT !.results = x]>> \o Tail(Tail(stack))
    <3>1. CASE Current.super
      BY <2>2, <3>1 DEF EndConstructor, Leave
    <3>2. CASE ~Current.super
      <4> DEFINE x == Caller.results \cup {Local(Current.class, Current.this)}
      <4>1. stack' = <<[Caller EXCEPT !.results = x]>> \o Tail(Tail(stack))
        BY <2>2, <3>2 DEF EndConstructor, Leave, WithResult
      <4>. QED BY <2>2, <4>1 DEF EndConstructor, Leave
    <3>. QED BY <3>1, <3>2
  <2>3. CASE \E e \in Expressions : Return(e)
    BY <2>1, <2>3
  <2>4. CASE EndConstructor
    BY <2>2, <2>4
  <2>. QED BY <2>3, <2>4
<1>2. 2 \in DOMAIN stack
  <2>1. DOMAIN stack = 1..Len(stack) /\ Len(stack) \in Nat \ {0} /\ Current = stack[1]
    BY StackTyped
  <2>2. CASE EndConstructor
    BY <2>1, <2>2 DEF EndConstructor
  <2>3. CASE Current.stage = "method"
    <3>1. 1 + 1 \in DOMAIN stack
      BY <2>1, <2>3 DEF Inv, Linked
    <3>. QED BY <3>1
  <2>. QED BY <2>2, <2>3 DEF Return
<1>3. PICK c : /\ stack' = <<c>> \o Tail(Tail(stack))
               /\ c = Caller \/ \E x : c = [Caller EXCEPT !.results = x]
  BY <1>1
<1>4. Caller \in FrameSet
  BY <1>2, StackTyped DEF Caller
<1>5. Like(c, Caller)
  <2>1. ASSUME NEW x, c = [Caller EXCEPT !.results = x] PROVE Like(c, Caller)
    BY <1>4, <2>1, ChangedForms DEF Changed, Like
  <2>. QED BY <1>3, <2>1 DEF Like
<1>6. c \in FrameSet
  <2>1. /\ stack \in Seq(FrameSet) /\ Len(stack) \in Nat \ {0} /\ DOMAIN stack = 1..Len(stack)
        /\ stack # <<>>
    BY StackTyped
  <2>2. Tail(stack) \in Seq(FrameSet) /\ Len(Tail(stack)) = Len(stack) - 1
    BY <2>1, HeadTailProperties
  <2>3. Tail(stack) # <<>>
    <3> DEFINE s == Tail(stack)
    <3>1. Len(s) # 0
      BY <1>2, <2>1, <2>2
    <3>2. s \in Seq(FrameSet)
      BY <2>2
    <3>. HIDE DEF s
    <3>3. s # <<>>
      BY <3>1, <3>2
    <3>. QED BY <3>3 DEF s
  <2>4. Inv(heap', stack')
    <3>1. CASE EndConstructor
      BY <3>1, EndConstructorStep
    <3>2. CASE \E e \in Expressions : Return(e)
      BY <3>2, ReturnStep
    <3>. QED BY <3>1, <3>2
  <2>5. <<c>> \o Tail(Tail(stack)) \in Seq(FrameSet)
    BY <1>3, <2>4 DEF Inv, FramesFine
  <2>. QED BY <2>2, <2>3, <2>5, TopOf
<1>7. Tables(heap, <<c>> \o Tail(Tail(stack)))
  BY <1>1, <1>2, <1>5, <1>6, LeaveTables
<1>. QED BY <1>1, <1>3, <1>7

-----------------------------------------------------------------------------
(* Each object comes to the table of its class, and keeps it. *)

LEMMA TablesPrimed ==
  ASSUME program' = program, Tables(heap', stack')
  PROVE  Tables(heap, stack)'
<1>1. Ancestors' = Ancestors /\ Classes' = Classes
  BY AncestorsKept DEF Classes
<1>2. \A c : HasMethod(c)' = HasMethod(c)
  BY <1>1 DEF HasMethod
<1>. QED BY <1>2 DEF Tables, BuiltOnce, BuiltBelow, OwnTables, Awaits, Builds

LEMMA InitTables ==
  ASSUME Init
  PROVE  Tables(heap, stack)
<1> DEFINE frame == Construct(Main, 1, FALSE, <<>>)
<1>1. program \in DOMAIN Programs /\ heap = <<Allocated(Main)>> /\ stack = <<frame>>
  BY DEF Init
<1>2. Main \in Nat \ {0} /\ Main \in 1..Main /\ Size[Main] \in Nat \ {0}
  BY <1>1, ProgramFacts, SizesGrow
<1>3. Constructor(frame, Main, 1, <<>>)
  BY DEF Constructor, Construct, Frame
<1>. HIDE DEF frame
<1>4. frame.class = Main /\ frame.this = 1 /\ frame.stage \in {"super", "table"}
  BY <1>3 DEF Constructor
<1>5. DOMAIN stack = {1} /\ stack[1] = frame /\ DOMAIN heap = {1} /\ heap[1] = Allocated(Main)
  BY <1>1
<1>6. heap[1].class = Main /\ heap[1].cells[1] = 0
  <2>1. 1 \in 1..Size[Main]
    BY <1>2
  <2>. QED BY <1>5, <2>1 DEF Allocated
<1>7. Builds(heap, stack[1])
  BY <1>4, <1>5, <1>6 DEF Builds
<1>8. Awaits(heap, stack, 1) /\ heap[1].cells[1] # heap[1].class
  BY <1>2, <1>4, <1>5, <1>6 DEF Awaits
<1>. QED BY <1>5, <1>7, <1>8 DEF Tables, BuiltOnce, BuiltBelow, OwnTables

LEMMA NextTables ==
  ASSUME IInv, Tables(heap, stack), [Next]_vars
  PROVE  Tables(heap, stack)'
<1>1. program \in DOMAIN Programs /\ Inv(heap, stack)
  BY DEF IInv
<1>2. \A c \in 1..Main - 1 : c \in 1..Main
  BY <1>1, ProgramFacts
<1>3. CASE heap' = heap /\ stack' = stack /\ program' = program
  BY <1>3, TablesPrimed
<1>4. ASSUME NEW c \in 1..Main - 1, New(c) PROVE Tables(heap', stack') /\ program' = program
  BY <1>1, <1>2, <1>4, NewTables DEF New, Enter
<1>5. ASSUME NEW c \in 1..Main - 1, NEW e \in Expressions, NewWith(c, e)
      PROVE  Tables(heap', stack') /\ program' = program
  BY <1>1, <1>2, <1>5, NewWithTables DEF NewWith, Enter
<1>6. ASSUME NEW r \in Expressions, NEW e \in Expressions, Call(r, e)
      PROVE  Tables(heap', stack') /\ program' = program
  BY <1>1, <1>6, CallTables DEF Call, Enter
<1>7. ASSUME SuperPlain \/ \E e \in Expressions : SuperWith(e)
      PROVE  Tables(heap', stack') /\ program' = program
  BY <1>1, <1>7, SuperTables DEF SuperPlain, SuperWith, Super, Enter
<1>8. ASSUME NEW e \in Expressions, InitField(e) PROVE Tables(heap', stack') /\ program' = program
  BY <1>1, <1>8, InitFieldTables DEF InitField, Step
<1>9. ASSUME NEW e \in Expressions, Declare(e) PROVE Tables(heap', stack') /\ program' = program
  BY <1>1, <1>9, DeclareTables DEF Declare, Step
<1>10. ASSUME NEW e \in Expressions, NEW k \in DOMAIN Current.locals, AssignLocal(k, e)
       PROVE  Tables(heap', stack') /\ program' = program
  BY <1>1, <1>10, AssignLocalTables DEF AssignLocal, Step
<1>11. ASSUME NEW e \in Expressions, NEW f \in Field(Current.class), AssignField(f, e)
       PROVE  Tables(heap', stack') /\ program' = program
  BY <1>1, <1>11, AssignFieldTables DEF AssignField, Step
<1>12. ASSUME (\E e \in Expressions : Return(e)) \/ EndConstructor
       PROVE  Tables(heap', stack') /\ program' = program
  BY <1>1, <1>12, ReturnTables DEF Return, EndConstructor, Leave
<1>13. ASSUME StoreTable PROVE Tables(heap', stack') /\ program' = program
  BY <1>1, <1>13, StoreTableTables DEF StoreTable, Step
<1>14. ASSUME \/ \E e \in Expressions : BadLoad(e) \/ BadCopy(e) \/ BadCall(e)
              \/ \E f \in Field(Current.class) : BadStore(f)
              \/ EndMain \/ UNCHANGED vars
       PROVE  heap' = heap /\ stack' = stack /\ program' = program
  BY <1>14 DEF BadLoad, BadCopy, BadCall, BadStore, Outside, Unset, Undefined, EndMain, vars
<1>15. \/ heap' = heap /\ stack' = stack /\ program' = program
       \/ Tables(heap', stack') /\ program' = program
  BY <1>4, <1>5, <1>6, <1>7, <1>8, <1>9, <1>10, <1>11, <1>12, <1>13, <1>14 DEF Next
<1>. QED BY <1>3, <1>15, TablesPrimed

LEMMA TablesHold == Spec => []Tables(heap, stack)
<1>1. Init => Tables(heap, stack)
  BY InitTables
<1>2. IInv /\ Tables(heap, stack) /\ [Next]_vars => Tables(heap, stack)'
  BY NextTables
<1>. QED BY <1>1, <1>2, IInvHolds, PTL DEF Spec

\* Whatever the program, the table in an object that is no copy is that of the object's own
\* class exactly from the time the constructor of this class has stored it.
THEOREM OwnTable == Spec => []TableOfItsClass
<1>1. Tables(heap, stack) => TableOfItsClass
  BY DEF Tables, OwnTables, Awaits, TableOfItsClass, UnderConstruction, Cells
<1>. QED BY <1>1, TablesHold, PTL

\* A call enters the method that the class of the receiver itself has or inherits last, for
\* every receiver that is no copy and whose constructor has stored its table: no call that is
\* compiled against a base, made by a constructor of a base or through a field comes out at
\* another one (llvm-codegen.cpp: visit of member_call).
CallReachesItsClass(r, e) ==
  Call(r, e) /\ ~heap[Eval(r)].copy /\ ~UnderConstruction(Eval(r)) =>
    Head(stack').class = Entry(heap[Eval(r)].class)

THEOREM CallsReachTheirClass ==
  Spec => [][\A r, e \in Expressions : CallReachesItsClass(r, e)]_vars
<1>1. ASSUME IInv, TableOfItsClass, NEW r \in Expressions, NEW e \in Expressions
      PROVE  CallReachesItsClass(r, e)
  <2>1. SUFFICES ASSUME Call(r, e), ~heap[Eval(r)].copy, ~UnderConstruction(Eval(r))
                 PROVE  Head(stack').class = Entry(heap[Eval(r)].class)
    BY DEF CallReachesItsClass
  <2> DEFINE o == Eval(r)
             d == heap[o].cells[1]
             frame == Invoke(Entry(d), o, Stored(e))
  <2>2. program \in DOMAIN Programs /\ Inv(heap, stack) /\ HeapFine(heap) /\ Main \in Nat
    BY <1>1, ProgramFacts DEF IInv, Inv
  <2>3. /\ r.type # NumberType /\ Loaded(r) /\ d # 0 /\ stack' = <<frame, Current>> \o Tail(stack)
    BY <2>1 DEF Call, Enter, Cells
  <2>4. r.type \in 1..Main /\ IsRef(heap, r.type, o)
    <3>1. r.type \in 0..Main /\ IsRef(heap, r.type, Eval(r))
      BY <2>2, <2>3, Evaluated
    <3>. QED BY <2>2, <2>3, <3>1 DEF NumberType
  <2>. HIDE DEF o
  <2>5. o \in DOMAIN heap
    BY <2>2, <2>4, RefShape
  <2>6. HasMethod(d) /\ d \in Ancestors[heap[o].class] /\ heap[o].class \in 1..Main
    <3>1. ObjectFine(heap, o)
      BY <2>2, <2>5 DEF HeapFine
    <3>2. heap[o].class \in 1..Main
      BY <2>2, <2>5, ObjectTyped
    <3>. QED BY <2>1, <2>3, <3>1, <3>2 DEF ObjectFine, o
  <2>7. HasMethod(heap[o].class)
    <3>1. Ancestors[d] \subseteq Ancestors[heap[o].class]
      BY <2>2, <2>6, AncestorsTransitive
    <3>. QED BY <2>6, <3>1 DEF HasMethod
  <2>8. d = heap[o].class
    BY <1>1, <2>1, <2>5, <2>7 DEF TableOfItsClass, Cells, o
  <2>9. frame.class = Entry(d)
    BY DEF Invoke, Frame
  <2>10. Head(stack') = frame
    <3>1. stack \in Seq(FrameSet) /\ stack # <<>>
      BY <2>2, StackTyped
    <3>. HIDE DEF frame, d
    <3>2. Len(Tail(stack)) \in Nat /\ Tail(stack) \in Seq(FrameSet)
      BY <3>1
    <3>. QED BY <2>3, <3>2
  <2>. QED BY <2>8, <2>9, <2>10 DEF o
<1>2. IInv /\ TableOfItsClass /\ [Next]_vars => [\A r, e \in Expressions : CallReachesItsClass(r, e)]_vars
  BY <1>1
<1>. QED BY <1>2, IInvHolds, OwnTable, PTL DEF Spec
=============================================================================
