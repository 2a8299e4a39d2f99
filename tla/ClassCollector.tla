--------------------------- MODULE ClassCollector ---------------------------
(***************************************************************************)
(* Phase 1 of the semantic check (class-collector.cpp): walk the class     *)
(* declarations in source order and enter each one in the symbol table     *)
(* (class -> base class) and in the type table (class -> its declaration). *)
(* A bad declaration is reported and skipped, the walk goes on, and        *)
(* get_result throws at the end when anything was reported.                *)
(***************************************************************************)
EXTENDS Naturals, Sequences

CONSTANTS Identifier,  \* names a program may use for classes of its own
          NoBase,      \* a declaration without an `extends` clause
          Programs     \* the programs considered: sequences of declarations

\* builtin-classes.h registers these before the program is visited.
Builtin == {"Class", "AnyValue", "AnyRef", "Integer", "Real", "Boolean",
            "Unit", "ArrayInteger", "IO"}

BuiltinBase == [c \in Builtin |->
  IF c = "Class" THEN NoBase
  ELSE IF c \in {"AnyValue", "AnyRef"} THEN "Class"
  ELSE IF c = "ArrayInteger" THEN "AnyRef" ELSE "AnyValue"]

ClassName   == Identifier \cup Builtin
Declaration == [name : ClassName, base : ClassName \cup {NoBase}]

ASSUME NoBaseAssumption   == NoBase \notin ClassName
ASSUME ProgramsAssumption == Programs \subseteq Seq(Declaration)

VARIABLES program,  \* the class declarations of the AST (the walk edits them)
          pos,      \* the declaration the walk is at
          symbols,  \* program_symbol_table: class -> class_symbol::base_class
          types,    \* program_type_table: class -> position of its declaration
          errors,   \* the messages appended to error_message
          phase     \* "visiting", then "done" or "thrown"

vars == <<program, pos, symbols, types, errors, phase>>

\* addClass(name, nullptr): a built-in class has no declaration.
NoDeclaration == 0

Init ==
  /\ program \in Programs
  /\ pos = 1
  /\ symbols = BuiltinBase
  /\ types = [c \in Builtin |-> NoDeclaration]
  /\ errors = <<>>
  /\ phase = "visiting"

Node     == program[pos]
Visiting == phase = "visiting" /\ pos \in 1..Len(program)
Defined(c) == c \in DOMAIN symbols

-----------------------------------------------------------------------------

\* Every visit ends with the program walk at the next declaration.
Report(kind) ==
  /\ errors' = Append(errors, [kind |-> kind, at |-> pos])
  /\ pos' = pos + 1
  /\ UNCHANGED <<program, symbols, types, phase>>

\* Mutant: the return after the redefinition message is missing.
Redefinition_FallsThrough ==
  /\ Visiting
  /\ Defined(Node.name)
  /\ Defined(Node.base) /\ Node.base # "Class"
  /\ errors' = Append(errors, [kind |-> "Redefinition", at |-> pos])
  /\ symbols' = [symbols EXCEPT ![Node.name] = Node.base]
  /\ types' = [types EXCEPT ![Node.name] = pos]
  /\ pos' = pos + 1
  /\ UNCHANGED <<program, phase>>

Redefinition ==
  /\ Visiting
  /\ Defined(Node.name)
  /\ Report("Redefinition")

\* Mutant: addClass moved above the checks of the base.
UndefinedBase_TypeAddedFirst ==
  /\ Visiting
  /\ ~Defined(Node.name)
  /\ Node.base # NoBase /\ ~Defined(Node.base)
  /\ types' = [d \in DOMAIN types \cup {Node.name} |->
                 IF d = Node.name THEN pos ELSE types[d]]
  /\ errors' = Append(errors, [kind |-> "UndefinedBase", at |-> pos])
  /\ pos' = pos + 1
  /\ UNCHANGED <<program, symbols, phase>>

UndefinedBase ==
  /\ Visiting
  /\ ~Defined(Node.name)
  /\ Node.base # NoBase /\ ~Defined(Node.base)
  /\ Report("UndefinedBase")

ProhibitedBase ==
  /\ Visiting
  /\ ~Defined(Node.name)
  /\ Node.base = "Class"
  /\ Report("ProhibitedBase")

Enter(c, base) ==
  /\ symbols' = [d \in DOMAIN symbols \cup {c} |-> IF d = c THEN base ELSE symbols[d]]
  /\ types' = [d \in DOMAIN types \cup {c} |-> IF d = c THEN pos ELSE types[d]]
  /\ pos' = pos + 1
  /\ UNCHANGED <<errors, phase>>

\* Mutant: a base declared anywhere in the program counts as defined.
DeclareWithBase_Forward ==
  /\ Visiting
  /\ ~Defined(Node.name)
  /\ \/ Defined(Node.base)
     \/ \E j \in 1..Len(program) : program[j].name = Node.base
  /\ Node.base # "Class"
  /\ Enter(Node.name, Node.base)
  /\ UNCHANGED program

\* Mutant: the check for the prohibited base is missing.
DeclareWithBase_AnyBase ==
  /\ Visiting
  /\ ~Defined(Node.name)
  /\ Defined(Node.base)
  /\ Enter(Node.name, Node.base)
  /\ UNCHANGED program

DeclareWithBase ==
  /\ Visiting
  /\ ~Defined(Node.name)
  /\ Defined(Node.base) /\ Node.base # "Class"
  /\ Enter(Node.name, Node.base)
  /\ UNCHANGED program

\* Mutant: the default base is not written back to the node.
DeclareDefault_NodeUnchanged ==
  /\ Visiting
  /\ ~Defined(Node.name)
  /\ Node.base = NoBase
  /\ Enter(Node.name, "AnyRef")
  /\ UNCHANGED program

\* Without an `extends` clause the node itself is given the base AnyRef: the
\* later phases that read the AST see what the symbol table holds.
DeclareDefault ==
  /\ Visiting
  /\ ~Defined(Node.name)
  /\ Node.base = NoBase
  /\ Enter(Node.name, "AnyRef")
  /\ program' = [program EXCEPT ![pos].base = "AnyRef"]

GetResult ==
  /\ phase = "visiting" /\ pos > Len(program)
  /\ phase' = IF errors = <<>> THEN "done" ELSE "thrown"
  /\ UNCHANGED <<program, pos, symbols, types, errors>>

Next == \/ Redefinition \/ UndefinedBase \/ ProhibitedBase
        \/ DeclareWithBase \/ DeclareDefault \/ GetResult

Spec == Init /\ [][Next]_vars

-----------------------------------------------------------------------------

Error == [kind : {"Redefinition", "UndefinedBase", "ProhibitedBase"}, at : Nat]
UserClasses == DOMAIN symbols \ Builtin

TypeOK ==
  /\ program \in Seq(Declaration)
  /\ pos \in 1..Len(program) + 1
  /\ DOMAIN symbols \subseteq ClassName /\ Builtin \subseteq DOMAIN symbols
  /\ symbols \in [DOMAIN symbols -> ClassName \cup {NoBase}]
  /\ types \in [DOMAIN symbols -> 0..Len(program)]
  /\ errors \in Seq(Error)
  /\ phase \in {"visiting", "done", "thrown"}

\* Every chain of bases leaves the program's own classes: no set of user classes
\* is closed under `base`, so the loops of lookup, find_method_in_hierarchy and
\* find_field_in_hierarchy that follow base pointers always terminate.
HierarchyWellFounded ==
  \A S \in SUBSET UserClasses :
    S # {} => \E c \in S : symbols[c] \notin S

\* The base pointer a phase finds through the symbol table and the base name it
\* finds through the type table and the AST are the same (find_method reads the
\* first, isSubtype the second), for user classes that exist and never for Class.
TablesAgree ==
  \A c \in UserClasses :
    /\ types[c] \in 1..Len(program)
    /\ program[types[c]] = [name |-> c, base |-> symbols[c]]
    /\ symbols[c] \in DOMAIN symbols \ {"Class"}

\* No declaration is dropped in silence and none is both entered and reported:
\* each one visited has exactly one verdict.
Entered(i)  == \E c \in UserClasses : types[c] = i
Reported(i) == \E k \in 1..Len(errors) : errors[k].at = i

OneVerdictPerDeclaration ==
  /\ \A i \in 1..pos - 1 : Entered(i) <=> ~Reported(i)
  /\ \A j, k \in 1..Len(errors) : errors[j].at = errors[k].at => j = k

\* The reference: which programs have well-formed class headers, said of the
\* declarations alone and not of how the tables grow.
HeaderOK(p, i) ==
  /\ p[i].name \notin Builtin
  /\ \A j \in 1..i - 1 : p[j].name # p[i].name
  /\ \/ p[i].base \in {NoBase} \cup (Builtin \ {"Class"})
     \/ \E j \in 1..i - 1 : p[j].name = p[i].base

\* The collector throws exactly for the programs with a bad header: skipping a
\* bad declaration neither hides an error nor lets a bad program through.
AcceptsExactlyWellFormed ==
  /\ phase = "done"   => \A i \in 1..Len(program) : HeaderOK(program, i)
  /\ phase = "thrown" => \E i \in 1..Len(program) : ~HeaderOK(program, i)

\* The walk implements the abstract growing forest.
Forest == INSTANCE ClassForest WITH Root <- "Class", Initial <- BuiltinBase,
                                    parent <- symbols
RefinesForest == Forest!Spec
=============================================================================
