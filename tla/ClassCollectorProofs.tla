------------------------ MODULE ClassCollectorProofs ------------------------
(***************************************************************************)
(* What phase 1 guarantees for every program and every set of identifiers: *)
(* the class tables are well formed after every declaration, and the       *)
(* phase throws exactly for the programs with a bad class header.          *)
(***************************************************************************)
EXTENDS ClassCollector, WellFoundedInduction, TLAPS

\* A base was entered before the class: the declaration order ranks the forest.
BaseDeclaredEarlier ==
  /\ \A c \in Builtin : types[c] = NoDeclaration
  /\ \A c \in UserClasses : types[c] < pos /\ types[symbols[c]] < types[c]

\* The errors found so far tell whether the headers visited so far are right,
\* and while there are none the table holds exactly the names visited.
PrefixVerdict ==
  /\ errors = <<>> <=> \A i \in 1..pos - 1 : HeaderOK(program, i)
  /\ errors = <<>> => \A i \in 1..pos - 1 : Defined(program[i].name)

Verdict ==
  /\ phase # "visiting" => pos = Len(program) + 1
  /\ phase = "done" => errors = <<>>
  /\ phase = "thrown" => errors # <<>>

IInv == TypeOK /\ TablesAgree /\ BaseDeclaredEarlier /\ PrefixVerdict /\ Verdict

LEMMA BuiltinFacts ==
  /\ BuiltinBase \in [Builtin -> ClassName \cup {NoBase}]
  /\ {"AnyRef", "Class"} \subseteq Builtin /\ Builtin \subseteq ClassName
BY DEF Builtin, BuiltinBase, ClassName

\* The two ways a declaration is entered in the tables.
EnterWith(b) ==
  /\ Visiting
  /\ ~Defined(Node.name)
  /\ b \in DOMAIN symbols \ {"Class"}
  /\ Enter(Node.name, b)
  /\ program' = [program EXCEPT ![pos] = [name |-> Node.name, base |-> b]]
  /\ Node.base \in {b, NoBase}
  /\ Node.base = NoBase => b = "AnyRef"

LEMMA NodeInDeclaration ==
  ASSUME TypeOK, Visiting
  PROVE  Node \in Declaration /\ pos \in Nat \ {0} /\ Len(program) \in Nat
BY DEF TypeOK, Visiting, Node

LEMMA Declares ==
  ASSUME TypeOK, DeclareWithBase \/ DeclareDefault
  PROVE  \E b \in ClassName : EnterWith(b)
<1>0. Node \in Declaration /\ Visiting
  BY NodeInDeclaration DEF DeclareWithBase, DeclareDefault
<1>1. CASE DeclareWithBase
  <2>1. Node = [name |-> Node.name, base |-> Node.base]
    BY <1>0 DEF Declaration
  <2>2. program = [program EXCEPT ![pos] = Node]
    BY <1>0 DEF TypeOK, Node, Visiting
  <2>3. Node.base \in ClassName
    BY <1>1 DEF DeclareWithBase, Defined, TypeOK
  <2>. QED BY <1>1, <1>0, <2>1, <2>2, <2>3, NoBaseAssumption DEF DeclareWithBase, EnterWith, Defined
<1>2. CASE DeclareDefault
  <2>1. [Node EXCEPT !.base = "AnyRef"] = [name |-> Node.name, base |-> "AnyRef"]
    BY <1>0 DEF Declaration
  <2>2. program' = [program EXCEPT ![pos] = [name |-> Node.name, base |-> "AnyRef"]]
    BY <1>2, <2>1 DEF DeclareDefault, Node
  <2>3. "AnyRef" \in DOMAIN symbols \ {"Class"} /\ "AnyRef" \in ClassName
    BY BuiltinFacts DEF TypeOK
  <2>. QED BY <1>2, <1>0, <2>2, <2>3 DEF DeclareDefault, EnterWith
<1>. QED BY <1>1, <1>2

\* The guards of the walk decide the header of the declaration it is at: with
\* no error so far the table holds the built-in classes and the names visited.
LEMMA GuardsDecideHeader ==
  ASSUME IInv, Visiting, errors = <<>>
  PROVE  HeaderOK(program, pos) <=>
           /\ ~Defined(Node.name)
           /\ Node.base = NoBase \/ (Defined(Node.base) /\ Node.base # "Class")
<1>1. DOMAIN symbols = Builtin \cup {program[j].name : j \in 1..pos - 1}
  <2>1. ASSUME NEW c \in UserClasses
        PROVE  types[c] \in 1..pos - 1 /\ program[types[c]].name = c
    <3>1. types[c] \in 1..Len(program) /\ types[c] < pos
      BY DEF IInv, TablesAgree, BaseDeclaredEarlier
    <3>2. program[types[c]].name = c
      <4>1. program[types[c]] = [name |-> c, base |-> symbols[c]]
        BY DEF IInv, TablesAgree
      <4>. QED BY ONLY <4>1
    <3>3. pos \in Nat
      BY DEF IInv, TypeOK
    <3>. QED BY <3>1, <3>2, <3>3
  <2>2. \A j \in 1..pos - 1 : program[j].name \in DOMAIN symbols
    BY DEF IInv, PrefixVerdict, Defined
  <2>. QED BY <2>1, <2>2 DEF UserClasses, IInv, TypeOK
<1>2. Node.base \in ClassName \cup {NoBase}
  BY NodeInDeclaration DEF IInv, Declaration
<1>3. "Class" \notin {program[j].name : j \in 1..pos - 1}
  <2>1. \A j \in 1..pos - 1 : HeaderOK(program, j)
    BY DEF IInv, PrefixVerdict
  <2>. QED BY <2>1, BuiltinFacts DEF HeaderOK
<1>4. NoBase \notin DOMAIN symbols
  BY NoBaseAssumption DEF IInv, TypeOK
<1>. QED BY <1>1, <1>2, <1>3, <1>4 DEF HeaderOK, Defined, Node

\* The verdict on an earlier header does not depend on the rest of the program.
LEMMA HeaderStable ==
  ASSUME NEW p, NEW q, NEW i \in Nat, \A j \in 1..i : q[j] = p[j], i >= 1
  PROVE  HeaderOK(q, i) <=> HeaderOK(p, i)
<1>1. i \in 1..i /\ \A j \in 1..i - 1 : j \in 1..i
  OBVIOUS
<1>. QED BY <1>1 DEF HeaderOK

LEMMA InitIInv == Init => IInv
<1> SUFFICES ASSUME Init PROVE IInv
  OBVIOUS
<1>1. program \in Seq(Declaration)
  BY ProgramsAssumption DEF Init
<1>2. TypeOK
  BY <1>1, BuiltinFacts DEF Init, TypeOK, NoDeclaration
<1>3. UserClasses = {}
  BY BuiltinFacts DEF Init, UserClasses
<1>4. 1..pos - 1 = {}
  BY DEF Init
<1>. QED
  BY <1>2, <1>3, <1>4 DEF Init, IInv, TablesAgree, BaseDeclaredEarlier,
     PrefixVerdict, Verdict

\* Reporting a declaration whose header is bad.
LEMMA ReportIInv ==
  ASSUME IInv, Visiting, NEW kind, Report(kind),
         kind \in {"Redefinition", "UndefinedBase", "ProhibitedBase"},
         errors = <<>> => ~HeaderOK(program, pos)
  PROVE  IInv'
<1>0. pos \in 1..Len(program) /\ pos \in Nat /\ Len(program) \in Nat /\ errors \in Seq(Error)
  BY DEF Visiting, IInv, TypeOK
<1>1. errors' \in Seq(Error) /\ errors' # <<>>
  BY <1>0 DEF Report, Error
<1>2. TypeOK'
  BY <1>0, <1>1 DEF IInv, TypeOK, Report
<1>3. TablesAgree'
  BY DEF IInv, TablesAgree, Report, UserClasses
<1>4. BaseDeclaredEarlier'
  BY <1>0 DEF IInv, BaseDeclaredEarlier, Report, UserClasses, TypeOK
<1>5. PrefixVerdict'
  <2>1. \E i \in 1..pos : ~HeaderOK(program, i)
    BY <1>0 DEF IInv, PrefixVerdict
  <2>. QED BY <2>1, <1>0, <1>1 DEF PrefixVerdict, Report
<1>6. Verdict'
  BY <1>1 DEF IInv, Verdict, Report, Visiting
<1>. QED BY <1>2, <1>3, <1>4, <1>5, <1>6 DEF IInv

\* Entering a declaration whose header is right.
LEMMA EnterIInv ==
  ASSUME IInv, NEW b \in ClassName, EnterWith(b)
  PROVE  IInv'
<1> DEFINE c == Node.name
<1>0. /\ pos \in 1..Len(program) /\ pos \in Nat /\ Len(program) \in Nat
      /\ Node \in Declaration /\ c \in ClassName /\ c \notin Builtin
      /\ program \in Seq(Declaration)
  BY NodeInDeclaration DEF EnterWith, Visiting, IInv, TypeOK, Defined, Declaration
<1>1. /\ program' \in Seq(Declaration) /\ Len(program') = Len(program)
      /\ program'[pos] = [name |-> c, base |-> b]
      /\ \A i \in 1..Len(program) : i # pos => program'[i] = program[i]
  BY <1>0 DEF EnterWith, Declaration
<1>2. /\ DOMAIN symbols' = DOMAIN symbols \cup {c}
      /\ symbols'[c] = b /\ types'[c] = pos
      /\ \A d \in DOMAIN symbols : symbols'[d] = symbols[d] /\ types'[d] = types[d]
      /\ pos' = pos + 1 /\ errors' = errors /\ phase' = phase
  BY DEF EnterWith, Enter, Defined, IInv, TypeOK
<1>3. TypeOK'
  <2>1. types' \in [DOMAIN symbols' -> 0..Len(program')]
    BY <1>0, <1>1 DEF IInv, TypeOK, EnterWith, Enter
  <2>2. symbols' \in [DOMAIN symbols' -> ClassName \cup {NoBase}]
    BY <1>0 DEF IInv, TypeOK, EnterWith, Enter
  <2>. QED BY <1>0, <1>1, <1>2, <2>1, <2>2 DEF IInv, TypeOK
<1>4. UserClasses' = UserClasses \cup {c}
  BY <1>0, <1>2 DEF UserClasses
<1>5. TablesAgree'
  <2> SUFFICES ASSUME NEW d \in UserClasses'
               PROVE  /\ types'[d] \in 1..Len(program')
                      /\ program'[types'[d]] = [name |-> d, base |-> symbols'[d]]
                      /\ symbols'[d] \in DOMAIN symbols' \ {"Class"}
    BY DEF TablesAgree
  <2>1. CASE d = c
    BY <2>1, <1>0, <1>1, <1>2 DEF EnterWith
  <2>2. CASE d # c
    <3>1. d \in UserClasses /\ d \in DOMAIN symbols
      BY <2>2, <1>4 DEF UserClasses
    <3>2. types[d] \in 1..Len(program) /\ types[d] < pos
      BY <3>1 DEF IInv, TablesAgree, BaseDeclaredEarlier
    <3>3. program'[types[d]] = program[types[d]]
      BY <3>2, <1>0, <1>1
    <3>. QED BY <3>1, <3>2, <3>3, <1>1, <1>2 DEF IInv, TablesAgree
  <2>. QED BY <2>1, <2>2
<1>6. BaseDeclaredEarlier'
  <2>1. \A d \in Builtin : types'[d] = NoDeclaration
    BY <1>2 DEF IInv, TypeOK, BaseDeclaredEarlier
  <2>2. types[b] < pos
    <3>1. b \in DOMAIN symbols
      BY DEF EnterWith
    <3>2. CASE b \in Builtin
      BY <3>2, <1>0 DEF IInv, BaseDeclaredEarlier, NoDeclaration
    <3>3. CASE b \notin Builtin
      BY <3>1, <3>3 DEF IInv, BaseDeclaredEarlier, UserClasses
    <3>. QED BY <3>2, <3>3
  <2>3. ASSUME NEW d \in UserClasses'
        PROVE  types'[d] < pos' /\ types'[symbols'[d]] < types'[d]
    <3>1. CASE d = c
      BY <3>1, <1>0, <1>2, <2>2 DEF EnterWith
    <3>2. CASE d # c
      <4>1. d \in UserClasses /\ d \in DOMAIN symbols /\ symbols[d] \in DOMAIN symbols
        BY <3>2, <1>4 DEF UserClasses, IInv, TablesAgree
      <4>2. types[d] < pos /\ types[symbols[d]] < types[d]
        BY <4>1 DEF IInv, BaseDeclaredEarlier
      <4>3. types[d] \in Nat
        BY <4>1, <1>0 DEF IInv, TypeOK
      <4>. QED BY <4>1, <4>2, <4>3, <1>2, <1>0
    <3>. QED BY <3>1, <3>2
  <2>. QED BY <2>1, <2>3 DEF BaseDeclaredEarlier
<1>7. PrefixVerdict'
  <2>1. ASSUME NEW i \in 1..pos - 1
        PROVE  HeaderOK(program', i) <=> HeaderOK(program, i)
    <3>1. i \in Nat /\ i >= 1 /\ \A j \in 1..i : program'[j] = program[j]
      BY <1>0, <1>1
    <3>. QED BY ONLY <3>1, HeaderStable
  <2>2. errors = <<>> => HeaderOK(program', pos)
    <3> SUFFICES ASSUME errors = <<>> PROVE HeaderOK(program', pos)
      OBVIOUS
    <3>1. HeaderOK(program, pos)
      BY GuardsDecideHeader DEF EnterWith, Defined
    <3>2. \A j \in 1..pos - 1 : program'[j] = program[j]
      BY <1>0, <1>1
    <3>3. "AnyRef" \in Builtin \ {"Class"}
      BY BuiltinFacts
    <3>4. program'[pos].name = program[pos].name /\ program'[pos].base = b
      BY <1>1 DEF Node
    <3>5. program[pos].base = b \/ b = "AnyRef"
      BY DEF EnterWith, Node
    <3>. QED BY <3>1, <3>2, <3>3, <3>4, <3>5 DEF HeaderOK
  <2>3. 1..pos' - 1 = (1..pos - 1) \cup {pos}
    BY <1>0, <1>2
  <2>4. errors' = <<>> <=> \A i \in 1..pos' - 1 : HeaderOK(program', i)
    BY <2>1, <2>2, <2>3, <1>2 DEF IInv, PrefixVerdict
  <2>5. ASSUME errors' = <<>>, NEW i \in 1..pos' - 1
        PROVE  program'[i].name \in DOMAIN symbols'
    <3>1. CASE i = pos
      BY <3>1, <1>1, <1>2
    <3>2. CASE i # pos
      <4>1. i \in 1..pos - 1 /\ program'[i] = program[i]
        BY <3>2, <2>3, <1>0, <1>1
      <4>. QED BY <4>1, <2>5, <1>2 DEF IInv, PrefixVerdict, Defined
    <3>. QED BY <3>1, <3>2
  <2>. QED BY <2>4, <2>5 DEF PrefixVerdict, Defined
<1>8. Verdict'
  BY <1>2 DEF IInv, Verdict, EnterWith, Visiting
<1>. QED BY <1>3, <1>5, <1>6, <1>7, <1>8 DEF IInv

LEMMA StepIInv == IInv /\ [Next]_vars => IInv'
<1> SUFFICES ASSUME IInv, [Next]_vars PROVE IInv'
  OBVIOUS
<1>1. CASE Redefinition
  <2>1. errors = <<>> => ~HeaderOK(program, pos)
    BY <1>1, GuardsDecideHeader DEF Redefinition
  <2>. QED BY <1>1, <2>1, ReportIInv DEF Redefinition
<1>2. CASE UndefinedBase
  <2>1. errors = <<>> => ~HeaderOK(program, pos)
    BY <1>2, GuardsDecideHeader DEF UndefinedBase
  <2>. QED BY <1>2, <2>1, ReportIInv DEF UndefinedBase
<1>3. CASE ProhibitedBase
  <2>1. "Class" # NoBase
    BY NoBaseAssumption, BuiltinFacts
  <2>2. errors = <<>> => ~HeaderOK(program, pos)
    BY <1>3, <2>1, GuardsDecideHeader DEF ProhibitedBase
  <2>. QED BY <1>3, <2>2, ReportIInv DEF ProhibitedBase
<1>4. CASE DeclareWithBase \/ DeclareDefault
  <2>1. PICK b \in ClassName : EnterWith(b)
    BY <1>4, Declares DEF IInv
  <2>. QED BY <2>1, EnterIInv
<1>5. CASE GetResult
  <2>1. pos = Len(program) + 1
    BY <1>5 DEF GetResult, IInv, TypeOK
  <2>. QED
    BY <1>5, <2>1 DEF GetResult, IInv, TypeOK, TablesAgree, UserClasses,
       BaseDeclaredEarlier, PrefixVerdict, Defined, Verdict
<1>6. CASE UNCHANGED vars
  BY <1>6 DEF vars, IInv, TypeOK, TablesAgree, UserClasses,
     BaseDeclaredEarlier, PrefixVerdict, Defined, Verdict
<1>. QED BY <1>1, <1>2, <1>3, <1>4, <1>5, <1>6 DEF Next

LEMMA IInvHolds == Spec => []IInv
<1>. QED BY InitIInv, StepIInv, PTL DEF Spec

-----------------------------------------------------------------------------

(* One verdict for each declaration, as an invariant of its own on top of IInv. *)

Verdicts == OneVerdictPerDeclaration /\ \A k \in 1..Len(errors) : errors[k].at \in 1..pos - 1

LEMMA ReportVerdicts ==
  ASSUME IInv, Verdicts, Visiting, NEW kind, Report(kind)
  PROVE  Verdicts'
<1> DEFINE n == Len(errors)
<1>0. pos \in Nat \ {0} /\ errors \in Seq(Error) /\ n \in Nat
  BY DEF IInv, TypeOK
<1>1. /\ Len(errors') = n + 1 /\ errors'[n + 1].at = pos
      /\ \A k \in 1..n : errors'[k] = errors[k]
      /\ pos' = pos + 1 /\ UNCHANGED <<symbols, types>>
  BY <1>0 DEF Report
<1>2. \A i : Entered(i)' <=> Entered(i)
  BY <1>1 DEF Entered, UserClasses
<1>3. ~Entered(pos)
  BY <1>0 DEF Entered, IInv, BaseDeclaredEarlier
<1>4. 1..n + 1 = 1..n \cup {n + 1} /\ 1..pos' - 1 = 1..pos - 1 \cup {pos}
  BY <1>0, <1>1
<1>5. ASSUME NEW i \in 1..pos' - 1 PROVE Entered(i)' <=> ~Reported(i)'
  <2>1. CASE i = pos
    <3>1. n + 1 \in 1..Len(errors') /\ errors'[n + 1].at = i
      BY <1>1, <1>4, <2>1
    <3>. QED BY <3>1, <1>2, <1>3, <2>1 DEF Reported
  <2>2. CASE i # pos
    <3>1. i \in 1..pos - 1
      BY <1>4, <2>2
    <3>2. Reported(i)' <=> Reported(i)
      BY <1>1, <1>4, <2>2 DEF Reported
    <3>. QED BY <3>1, <3>2, <1>2 DEF Verdicts, OneVerdictPerDeclaration
  <2>. QED BY <2>1, <2>2
<1>6. ASSUME NEW k \in 1..Len(errors') PROVE errors'[k].at \in 1..pos' - 1
  BY <1>1, <1>4 DEF Verdicts
<1>7. pos \notin 1..pos - 1
  BY <1>0
<1>8. ASSUME NEW j \in 1..Len(errors'), NEW k \in 1..Len(errors'),
             errors'[j].at = errors'[k].at
      PROVE  j = k
  <2>1. \A l \in 1..n : errors'[l].at \in 1..pos - 1
    BY <1>1 DEF Verdicts
  <2>2. CASE j \in 1..n /\ k \in 1..n
    BY <1>1, <1>8, <2>2 DEF Verdicts, OneVerdictPerDeclaration
  <2>3. CASE j = n + 1 \/ k = n + 1
    BY <1>1, <1>4, <1>7, <1>8, <2>1, <2>3
  <2>. QED BY <1>1, <1>4, <2>2, <2>3
<1>. QED BY <1>5, <1>6, <1>8 DEF Verdicts, OneVerdictPerDeclaration

LEMMA EnterVerdicts ==
  ASSUME IInv, Verdicts, NEW b \in ClassName, EnterWith(b)
  PROVE  Verdicts'
<1> DEFINE c == Node.name
<1>0. /\ pos \in Nat \ {0} /\ c \notin Builtin /\ c \notin DOMAIN symbols
      /\ DOMAIN types = DOMAIN symbols
  BY DEF EnterWith, Defined, IInv, TypeOK
<1>1. /\ DOMAIN symbols' = DOMAIN symbols \cup {c}
      /\ types'[c] = pos /\ \A d \in DOMAIN symbols : types'[d] = types[d]
      /\ pos' = pos + 1 /\ errors' = errors
  BY <1>0 DEF EnterWith, Enter
<1>2. UserClasses' = UserClasses \cup {c} /\ UserClasses \subseteq DOMAIN symbols
  BY <1>0, <1>1 DEF UserClasses
<1>3. 1..pos' - 1 = 1..pos - 1 \cup {pos} /\ pos \notin 1..pos - 1
  BY <1>0, <1>1
<1>4. \A i : Entered(i)' <=> Entered(i) \/ i = pos
  BY <1>1, <1>2 DEF Entered
<1>5. \A i : Reported(i)' <=> Reported(i)
  BY <1>1 DEF Reported
<1>6. ~Reported(pos)
  BY <1>3 DEF Reported, Verdicts
<1>. QED BY <1>1, <1>3, <1>4, <1>5, <1>6 DEF Verdicts, OneVerdictPerDeclaration

LEMMA VerdictsKept == ASSUME Verdicts, UNCHANGED <<pos, symbols, types, errors>> PROVE Verdicts'
BY DEF Verdicts, OneVerdictPerDeclaration, Entered, Reported, UserClasses

LEMMA StepVerdicts == IInv /\ Verdicts /\ [Next]_vars => Verdicts'
<1> SUFFICES ASSUME IInv, Verdicts, [Next]_vars PROVE Verdicts'
  OBVIOUS
<1>1. CASE Redefinition \/ UndefinedBase \/ ProhibitedBase
  BY <1>1, ReportVerdicts DEF Redefinition, UndefinedBase, ProhibitedBase
<1>2. CASE DeclareWithBase \/ DeclareDefault
  BY <1>2, Declares, EnterVerdicts DEF IInv
<1>3. CASE GetResult \/ UNCHANGED vars
  BY <1>3, VerdictsKept DEF GetResult, vars
<1>. QED BY <1>1, <1>2, <1>3 DEF Next

LEMMA InitVerdicts == Init => Verdicts
BY DEF Init, Verdicts, OneVerdictPerDeclaration

-----------------------------------------------------------------------------

\* The state of the collector is well typed for every program.
THEOREM TypeCorrect == Spec => []TypeOK
<1>1. IInv => TypeOK
  BY DEF IInv
<1>. QED BY <1>1, IInvHolds, PTL

\* The symbol table, the type table and the edited AST describe one hierarchy.
THEOREM OneHierarchy == Spec => []TablesAgree
<1>1. IInv => TablesAgree
  BY DEF IInv
<1>. QED BY <1>1, IInvHolds, PTL

\* No inheritance cycle can be built: a set of user classes has a member of
\* least declaration position, whose base cannot be in the set.
THEOREM NoInheritanceCycle == Spec => []HierarchyWellFounded
<1>1. ASSUME IInv, NEW S \in SUBSET UserClasses, S # {}
      PROVE  \E c \in S : symbols[c] \notin S
  <2> DEFINE T == {types[c] : c \in S}
  <2>1. T \subseteq Nat /\ T # {}
    BY <1>1 DEF IInv, TypeOK, UserClasses
  <2>2. PICK n \in T : \A m \in T : ~(<<m, n>> \in OpToRel(<, Nat))
    <3>1. \E n \in T : \A m \in T : ~(<<m, n>> \in OpToRel(<, Nat))
      BY <2>1, NatLessThanWellFounded, WFMin
    <3>. QED BY <3>1
  <2>3. \A m \in T : ~(m < n)
    BY <2>1, <2>2 DEF OpToRel
  <2>4. PICK c \in S : types[c] = n
    OBVIOUS
  <2>5. types[symbols[c]] < types[c]
    BY <1>1 DEF IInv, BaseDeclaredEarlier
  <2>. QED BY <2>3, <2>4, <2>5
<1>2. IInv => HierarchyWellFounded
  BY <1>1 DEF HierarchyWellFounded
<1>. QED BY <1>2, IInvHolds, PTL

\* The phase throws exactly when some class header of the program is bad.
THEOREM ThrowsExactlyForBadHeaders == Spec => []AcceptsExactlyWellFormed
<1>1. ASSUME IInv PROVE AcceptsExactlyWellFormed
  <2>1. phase # "visiting" => 1..pos - 1 = 1..Len(program)
    BY <1>1 DEF IInv, Verdict, TypeOK
  <2>. QED BY <1>1, <2>1 DEF IInv, Verdict, PrefixVerdict, AcceptsExactlyWellFormed
<1>. QED BY <1>1, IInvHolds, PTL

\* A declaration that has been visited is either in the tables or in exactly one
\* message, never both and never neither.
THEOREM OneVerdict == Spec => []OneVerdictPerDeclaration
<1>1. Spec => []Verdicts
  BY InitVerdicts, StepVerdicts, IInvHolds, PTL DEF Spec
<1>2. Verdicts => OneVerdictPerDeclaration
  BY DEF Verdicts
<1>. QED BY <1>1, <1>2, PTL

\* Every step of the walk extends the abstract forest by one leaf or stutters.
THEOREM ImplementsForest == Spec => RefinesForest
<1>1. Init => Forest!Init
  BY DEF Init, Forest!Init
<1>2. ASSUME IInv, [Next]_vars PROVE [Forest!Next]_symbols
  <2>1. CASE DeclareWithBase \/ DeclareDefault
    <3>1. PICK b \in ClassName : EnterWith(b)
      BY <1>2, <2>1, Declares DEF IInv
    <3>2. Node.name \in ClassName
      BY <1>2, <3>1, NodeInDeclaration DEF EnterWith, IInv, Declaration
    <3>3. Forest!Extend(Node.name, b)
      BY <3>1 DEF EnterWith, Enter, Defined, Forest!Extend
    <3>. QED BY <3>2, <3>3 DEF Forest!Next
  <2>2. CASE UNCHANGED symbols
    BY <2>2
  <2>. QED
    BY <1>2, <2>1, <2>2 DEF Next, Redefinition, UndefinedBase, ProhibitedBase,
       Report, GetResult, vars
<1>. QED BY <1>1, <1>2, IInvHolds, PTL DEF Spec, RefinesForest, Forest!Spec
=============================================================================
