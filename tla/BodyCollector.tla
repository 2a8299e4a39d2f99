---------------------------- MODULE BodyCollector ----------------------------
(***************************************************************************)
(* Phase 2 of the semantic check (class-body-collector.cpp): walk the      *)
(* members of every class - fields, then methods, then constructors - and  *)
(* give each a symbol.  The scope of the class owns the symbol under its   *)
(* key; the class keeps a plain pointer to it in a vector, in the order    *)
(* of the declarations.  The later phases find a member by its key in the  *)
(* scope, or by its position in the vector.                                *)
(***************************************************************************)
EXTENDS Naturals, Sequences

CONSTANTS Key,      \* what a member is mangled to: a name, or name(types)
          Programs  \* the programs considered

(***************************************************************************)
(* A class is a sequence of members for each kind.  A member has its key,  *)
(* whether all type names in it are known, and whether it has a body.  The *)
(* key of a constructor is the name of the class with the parameter types, *)
(* so a method named as its class may have the key of a constructor.       *)
(***************************************************************************)
Kind   == {"fields", "methods", "ctors"}
Member == [key : Key, known : BOOLEAN, body : BOOLEAN]

ASSUME ProgramsAssumption ==
  /\ Programs \subseteq Seq([Kind -> Seq(Member)])
  /\ \A p \in Programs : \A c \in 1..Len(p) : \A i \in 1..Len(p[c]["fields"]) :
       /\ p[c]["fields"][i].known
       /\ \A s \in Kind \ {"fields"} : \A j \in 1..Len(p[c][s]) :
            p[c][s][j].key # p[c]["fields"][i].key

VARIABLES program,
          cls, kind, item,  \* where the walk is
          names,     \* field_names, method_names, constructor_names of this class
          scope,     \* class -> key -> the member whose symbol class_scope owns
          vectors,   \* class -> kind -> the members its vector points to
          reported,  \* the members that error_message is about
          phase      \* "visiting", then "done" or "thrown"

vars == <<program, cls, kind, item, names, scope, vectors, reported, phase>>

Class == 1..Len(program)
NoNames == [s \in Kind |-> {}]

Init ==
  /\ program \in Programs
  /\ cls = 1 /\ kind = "fields" /\ item = 1
  /\ names = NoNames
  /\ scope = [c \in Class |-> [k \in {} |-> <<>>]]
  /\ vectors = [c \in Class |-> [s \in Kind |-> <<>>]]
  /\ reported = {}
  /\ phase = "visiting"

-----------------------------------------------------------------------------

AtMember == /\ phase = "visiting" /\ cls \in Class
            /\ item <= Len(program[cls][kind])
This == program[cls][kind][item]

\* symbols[name] = symbol: one under the same key before it is destroyed.
AddSymbol(table) == [k \in DOMAIN table \cup {This.key} |->
                       IF k = This.key THEN <<kind, item>> ELSE table[k]]

\* Mutant: a symbol does not replace one that is there.
Collect_FirstKept ==
  /\ AtMember
  /\ This.known /\ This.key \notin names[kind]
  /\ names' = [names EXCEPT ![kind] = @ \cup {This.key}]
  /\ scope' = IF This.key \in DOMAIN scope[cls] THEN scope
              ELSE [scope EXCEPT ![cls] = AddSymbol(@)]
  /\ vectors' = [vectors EXCEPT ![cls][kind] = Append(@, item)]
  /\ item' = item + 1
  /\ UNCHANGED <<program, cls, kind, reported, phase>>

Collect ==
  /\ AtMember
  /\ This.known /\ This.key \notin names[kind]
  /\ names' = [names EXCEPT ![kind] = @ \cup {This.key}]
  /\ scope' = [scope EXCEPT ![cls] = AddSymbol(@)]
  /\ vectors' = [vectors EXCEPT ![cls][kind] = Append(@, item)]
  /\ item' = item + 1
  /\ UNCHANGED <<program, cls, kind, reported, phase>>

\* Whether the member before had a body is not looked at.
Duplicate ==
  /\ AtMember
  /\ This.known /\ This.key \in names[kind]
  /\ reported' = reported \cup {<<cls, kind, item>>}
  /\ item' = item + 1
  /\ UNCHANGED <<program, cls, kind, names, scope, vectors, phase>>

\* Mutant: the position stays behind when the walk moves to another class.
LeaveClass_ItemKept ==
  /\ cls' = cls + 1 /\ kind' = "fields" /\ item' = item
  /\ names' = NoNames
  /\ UNCHANGED <<program, scope, vectors, phase>>

\* Mutant: the names of one class are still there in the next.
LeaveClass_NamesKept ==
  /\ cls' = cls + 1 /\ kind' = "fields" /\ item' = 1
  /\ UNCHANGED <<program, names, scope, vectors, phase>>

LeaveClass ==
  /\ cls' = cls + 1 /\ kind' = "fields" /\ item' = 1
  /\ names' = NoNames
  /\ UNCHANGED <<program, scope, vectors, phase>>

\* Mutant: the exception is caught and forgotten.
UnknownType_Silent ==
  /\ AtMember
  /\ ~This.known
  /\ LeaveClass
  /\ UNCHANGED reported

\* resolveType throws before anything is entered: the class's other members are
\* not visited.
UnknownType ==
  /\ AtMember
  /\ ~This.known
  /\ reported' = reported \cup {<<cls, kind, item>>}
  /\ LeaveClass

KindDone == phase = "visiting" /\ cls \in Class /\ item > Len(program[cls][kind])

NextKind ==
  /\ KindDone /\ kind # "ctors"
  /\ kind' = IF kind = "fields" THEN "methods" ELSE "ctors"
  /\ item' = 1
  /\ UNCHANGED <<program, cls, names, scope, vectors, reported, phase>>

NextClass ==
  /\ KindDone /\ kind = "ctors"
  /\ LeaveClass
  /\ UNCHANGED reported

GetResult ==
  /\ phase = "visiting" /\ cls \notin Class
  /\ phase' = IF reported = {} THEN "done" ELSE "thrown"
  /\ UNCHANGED <<program, cls, kind, item, names, scope, vectors, reported>>

Next == Collect \/ Duplicate \/ UnknownType \/ NextKind \/ NextClass \/ GetResult

Spec == Init /\ [][Next]_vars

-----------------------------------------------------------------------------

TypeOK ==
  /\ program \in Seq([Kind -> Seq(Member)])
  /\ cls \in 1..Len(program) + 1 /\ kind \in Kind /\ item \in Nat \ {0}
  /\ cls \in Class => item <= Len(program[cls][kind]) + 1
  /\ names \in [Kind -> SUBSET Key]
  /\ \A c \in Class : /\ DOMAIN scope[c] \subseteq Key
                      /\ \A s \in Kind : vectors[c][s] \in Seq(1..Len(program[c][s]))
  /\ reported \subseteq Class \X Kind \X Nat
  /\ phase \in {"visiting", "done", "thrown"}

\* Positions in the vectors are positions of the declarations once this phase has
\* succeeded: the codegen collector, which goes by them, is led to the right one.
PositionsAgree ==
  phase = "done" => \A c \in Class : \A s \in Kind :
    vectors[c][s] = [k \in 1..Len(program[c][s]) |-> k]

\* A vector's pointer is to a symbol that the scope still owns.  There is exactly
\* one exception: a method named as its class, when a constructor with the same
\* parameter types takes its place and leaves the vector with a dangling pointer.
Dangling(c, s, k) == scope[c][program[c][s][k].key] # <<s, k>>
OwnedUnlessConstructor ==
  \A c \in Class : \A s \in Kind : \A k \in 1..Len(vectors[c][s]) :
    Dangling(c, s, vectors[c][s][k]) <=>
      /\ s = "methods"
      /\ \E j \in 1..Len(vectors[c]["ctors"]) :
           program[c]["ctors"][vectors[c]["ctors"][j]].key
             = program[c]["methods"][vectors[c][s][k]].key

\* The phase throws exactly for the programs in which some class has two members
\* of one kind with one key, or names an unknown type: what is skipped after an
\* error hides nothing, and no class is judged by the members of another.
WellFormed(c) ==
  \A s \in Kind : \A i \in 1..Len(program[c][s]) :
    /\ program[c][s][i].known
    /\ \A j \in 1..i - 1 : program[c][s][j].key # program[c][s][i].key

AcceptsExactlyWellFormed ==
  phase # "visiting" => (phase = "done" <=> \A c \in Class : WellFormed(c))

\* A method may be declared without a body and defined later in the class, as
\* tests/complex/classes/forwardDecl.po:4 and :13 do, which must compile
\* (tests/run-tests.py:6): only a second body, a second bodiless declaration or an
\* unknown type is an error in the methods of a class.
ForwardDeclarationsAccepted ==
  phase = "thrown" => \E c \in Class : \E s \in Kind : \E i \in 1..Len(program[c][s]) :
    \/ ~program[c][s][i].known
    \/ \E j \in 1..i - 1 : /\ program[c][s][j].key = program[c][s][i].key
                           /\ s = "methods" => program[c][s][j].body \/ ~program[c][s][i].body
=============================================================================
