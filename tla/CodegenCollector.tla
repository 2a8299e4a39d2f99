-------------------------- MODULE CodegenCollector --------------------------
(***************************************************************************)
(* The last phase of the semantic check (codegen-ast-collector.cpp): the   *)
(* typed tree for the back end is built in one walk, in which every name,  *)
(* member and call is replaced by a pointer to what it stands for.  Names  *)
(* are found in variable_map, one flat map for the whole program that is   *)
(* only ever written; members, methods and constructors are found in the   *)
(* vectors of the class they belong to, by the position that the symbol    *)
(* table gives.                                                            *)
(*                                                                         *)
(* The model follows the pointers.  What each of them should be is said    *)
(* beside it by the scoping rules that the earlier phases check: locals,   *)
(* then parameters, then the fields of the class, then those of its bases. *)
(* The expressions and statements of a body are chosen as the walk goes,   *)
(* among those that the earlier phases accept.                             *)
(***************************************************************************)
EXTENDS Naturals, Sequences, FiniteSetsExt

CONSTANTS Name,       \* names of fields, parameters and locals
          Programs,   \* the programs considered
          MaxEvents   \* bound on the events in one body or initializer

(***************************************************************************)
(* A program is its classes in source order.  A constructor or a method is *)
(* the set of its parameters' names.  What the class collector and the     *)
(* checks of constructors leave: bases come first, and a class with a base *)
(* of the program can call one of its constructors.                        *)
(***************************************************************************)
ClassDecl(p, c) ==
  /\ p[c].base \in 0..c - 1
  /\ p[c].fields \in Seq(Name)
  /\ \A i, j \in 1..Len(p[c].fields) : p[c].fields[i] = p[c].fields[j] => i = j
  /\ p[c].ctors \in Seq(SUBSET Name) /\ p[c].methods \in Seq(SUBSET Name)
  /\ p[c].base # 0 /\ p[c].ctors # <<>> => p[p[c].base].ctors # <<>>

ASSUME ProgramsAssumption ==
  \A p \in Programs : Len(p) \in Nat /\ \A c \in 1..Len(p) : ClassDecl(p, c)
ASSUME MaxEventsAssumption == MaxEvents \in Nat

VARIABLES program,       \* the checked parsing AST
          cls, stage, item,  \* where pass 2 is: class, kind of member, which one
          step,          \* "idle", or "super" and "body" inside a function
          events,        \* events of this body or initializer so far
          locals,        \* the locals of the current function so far
          variable_map,  \* name -> the declaration last collected under it
          built,         \* class -> how long its vectors are
          linked,        \* the classes whose base_class is set
          last           \* the pointer just made, if any, and what it should be

vars == <<program, cls, stage, item, step, events, locals,
          variable_map, built, linked, last>>

Class == 1..Len(program)
Fields(c) == {program[c].fields[k] : k \in 1..Len(program[c].fields)}

-----------------------------------------------------------------------------
(* Declarations that a pointer may lead to. *)

Here(kind)        == [kind |-> kind, cls |-> cls, stage |-> stage, item |-> item]
FieldOf(c)        == [kind |-> "field", cls |-> c, stage |-> "fields", item |-> 0]
Function(c, s, k) == [kind |-> "function", cls |-> c, stage |-> s, item |-> k]
Null              == [kind |-> "null", cls |-> 0, stage |-> "fields", item |-> 0]
Outside           == [Null EXCEPT !.kind = "outside"]

\* A use of a name (or of a function, which has none here) seen from a class.
NoName == "no name"
Pointer(use, from, name, bound, meant) ==
  [use |-> use, from |-> from, name |-> name, bound |-> bound, meant |-> meant]
Nothing == Pointer("none", 0, NoName, Null, Null)

Init ==
  /\ program \in Programs
  /\ cls = 1 /\ stage = "class" /\ item = 1 /\ step = "idle"
  /\ events = 0 /\ locals = {}
  /\ variable_map = [n \in Name |-> Null]
  /\ built = [c \in Class |-> [fields |-> 0, ctors |-> 0, methods |-> 0]]
  /\ linked = {}
  /\ last = Nothing

-----------------------------------------------------------------------------
(* The reference: scoping over the source, whatever has been collected. *)

Upward(links) ==
  LET up[c \in Class] ==
        {c} \cup IF c \notin links \/ program[c].base = 0 THEN {} ELSE up[program[c].base]
  IN  up

Declarers(c, n) == {a \in Upward(Class)[c] : n \in Fields(a)}
Params  == IF step = "idle" THEN {} ELSE program[cls][stage][item]
Visible == locals \cup Params \cup {n \in Name : Declarers(cls, n) # {}}

\* Bases come first, so of the classes above c the nearest is the last one.
Meant(n) == IF n \in locals THEN Here("local")
            ELSE IF n \in Params THEN Here("param")
            ELSE FieldOf(Max(Declarers(cls, n)))

-----------------------------------------------------------------------------
(* The walk. *)

\* The base is resolved and an empty declaration made for each method.
BeginClass ==
  /\ stage = "class" /\ cls \in Class
  /\ linked' = linked \cup {cls}
  /\ built' = [built EXCEPT ![cls].methods = Len(program[cls].methods)]
  /\ stage' = "fields" /\ item' = 1
  /\ last' = Nothing
  /\ UNCHANGED <<program, cls, step, events, locals, variable_map>>

AtMember(s) == stage = s /\ step = "idle" /\ item <= Len(program[cls][s])

\* Mutant: the field is not entered in variable_map.
DeclareField_NotMapped ==
  /\ AtMember("fields")
  /\ built' = [built EXCEPT ![cls].fields = @ + 1]
  /\ item' = item + 1 /\ events' = 0
  /\ last' = Nothing
  /\ UNCHANGED <<program, cls, stage, step, locals, variable_map, linked>>

\* After its initializer a field is entered in variable_map and in its class.
DeclareField ==
  /\ AtMember("fields")
  /\ variable_map' = [variable_map EXCEPT ![program[cls].fields[item]] = FieldOf(cls)]
  /\ built' = [built EXCEPT ![cls].fields = @ + 1]
  /\ item' = item + 1 /\ events' = 0
  /\ last' = Nothing
  /\ UNCHANGED <<program, cls, stage, step, locals, linked>>

\* Mutant: parameters go to the function only.
EnterFunction_Unbound(s) ==
  /\ AtMember(s)
  /\ step' = IF s = "ctors" /\ program[cls].base # 0 THEN "super" ELSE "body"
  /\ locals' = {}
  /\ last' = Nothing
  /\ UNCHANGED <<program, cls, stage, item, events, variable_map, built, linked>>

\* The parameters are entered in variable_map before anything else.
EnterFunction(s) ==
  /\ AtMember(s)
  /\ variable_map' = [n \in Name |->
       IF n \in program[cls][s][item] THEN Here("param") ELSE variable_map[n]]
  /\ step' = IF s = "ctors" /\ program[cls].base # 0 THEN "super" ELSE "body"
  /\ locals' = {}
  /\ last' = Nothing
  /\ UNCHANGED <<program, cls, stage, item, events, built, linked>>

\* Mutant: the constructor is not pushed to its class.
LeaveFunction_Dropped ==
  /\ step = "body"
  /\ step' = "idle" /\ item' = item + 1 /\ events' = 0 /\ locals' = {}
  /\ last' = Nothing
  /\ UNCHANGED <<program, cls, stage, variable_map, built, linked>>

\* Mutant: methods are pushed to their class as well, which has them already.
LeaveFunction_AllPushed ==
  /\ step = "body"
  /\ built' = [built EXCEPT ![cls][stage] = @ + 1]
  /\ step' = "idle" /\ item' = item + 1 /\ events' = 0 /\ locals' = {}
  /\ last' = Nothing
  /\ UNCHANGED <<program, cls, stage, variable_map, linked>>

\* A constructor joins the vector of its class when its body has been walked.
LeaveFunction ==
  /\ step = "body"
  /\ built' = IF stage = "ctors" THEN [built EXCEPT ![cls].ctors = @ + 1] ELSE built
  /\ step' = "idle" /\ item' = item + 1 /\ events' = 0 /\ locals' = {}
  /\ last' = Nothing
  /\ UNCHANGED <<program, cls, stage, variable_map, linked>>

\* Fields first, then the constructors, then the methods.
NextKind ==
  /\ stage \in {"fields", "ctors"} /\ step = "idle" /\ item > Len(program[cls][stage])
  /\ stage' = IF stage = "fields" THEN "ctors" ELSE "methods"
  /\ item' = 1
  /\ last' = Nothing
  /\ UNCHANGED <<program, cls, step, events, locals, variable_map, built, linked>>

NextClass ==
  /\ stage = "methods" /\ step = "idle" /\ item > Len(program[cls].methods)
  /\ cls' = cls + 1 /\ stage' = "class" /\ item' = 1
  /\ last' = Nothing
  /\ UNCHANGED <<program, step, events, locals, variable_map, built, linked>>

-----------------------------------------------------------------------------
(* What happens inside a field's initializer, super arguments or a body. *)

Event ==
  /\ AtMember("fields") \/ step # "idle"
  /\ events < MaxEvents
  /\ events' = events + 1
  /\ UNCHANGED <<program, cls, stage, item, built, linked>>

\* A local is in scope of itself only after its declaration, and the checker
\* rejects one whose name is visible already.
DeclareLocal(n) ==
  /\ step = "body" /\ n \notin Visible
  /\ Event
  /\ variable_map' = [variable_map EXCEPT ![n] = Here("local")]
  /\ locals' = locals \cup {n}
  /\ last' = Nothing
  /\ UNCHANGED step

\* identifier_expression: variable_map[name], which makes a null entry if there
\* is none.
Read(n) ==
  /\ Event
  /\ n \in Visible
  /\ last' = Pointer("read", cls, n, variable_map[n], Meant(n))
  /\ UNCHANGED <<step, locals, variable_map>>

\* The loop over the classes upward goes on after a match: the topmost one wins.
FieldFound(c, n) ==
  LET found == {a \in Upward(linked)[c] :
                  \E k \in 1..built[a].fields : program[a].fields[k] = n}
  IN  IF found = {} THEN Null ELSE FieldOf(Min(found))

\* An object whose static type is class c: parameters have any type, but in an
\* initializer objects come from constructors.
HasObject(c) == step # "idle" \/ program[c].ctors # <<>>

\* Member n of such an object.
Member(c, n) ==
  /\ Event
  /\ HasObject(c)
  /\ Declarers(c, n) # {}
  /\ last' = Pointer("member", c, n, FieldFound(c, n), FieldOf(Max(Declarers(c, n))))
  /\ UNCHANGED <<step, locals, variable_map>>

\* Mutant: only the class itself is asked for a field of that name.
Assign_OwnFieldOnly(n) ==
  /\ step = "body" /\ n \in Visible
  /\ Event
  /\ last' = Pointer("assign", cls, n,
                     IF n \in Fields(cls) THEN FieldFound(cls, n) ELSE variable_map[n],
                     Meant(n))
  /\ UNCHANGED <<step, locals, variable_map>>

\* An assignment is one to a field whenever the scope of the class has the name,
\* also when a parameter hides the field.
Assign(n) ==
  /\ step = "body" /\ n \in Visible
  /\ Event
  /\ last' = Pointer("assign", cls, n,
                     IF Declarers(cls, n) # {} THEN FieldFound(cls, n) ELSE variable_map[n],
                     Meant(n))
  /\ UNCHANGED <<step, locals, variable_map>>

\* The pointer at position k of a vector of class c, which may not be that long.
At(c, s, k) == IF k <= built[c][s] THEN Function(c, s, k) ELSE Outside

\* The overload at position k of the symbol table's vector was chosen.
New(c, k) ==
  /\ Event
  /\ last' = Pointer("new", c, NoName, At(c, "ctors", k), Function(c, "ctors", k))
  /\ UNCHANGED <<step, locals, variable_map>>

Call(c, k) ==
  /\ Event
  /\ HasObject(c)
  /\ last' = Pointer("call", c, NoName, At(c, "methods", k), Function(c, "methods", k))
  /\ UNCHANGED <<step, locals, variable_map>>

\* The constructor of the base is looked for, and comes before the body.
Super(k) ==
  /\ step = "super"
  /\ step' = "body"
  /\ last' = LET base == program[cls].base
             IN  Pointer("super", base, NoName, At(base, "ctors", k), Function(base, "ctors", k))
  /\ UNCHANGED <<program, cls, stage, item, events, locals, variable_map, built, linked>>

\* What vector[k] returns past the end is undefined: the walk may go on with some
\* pointer, or end here.
Crash ==
  /\ last.bound = Outside
  /\ stage' = "crashed" /\ step' = "idle" /\ locals' = {}
  /\ last' = Nothing
  /\ UNCHANGED <<program, cls, item, events, variable_map, built, linked>>

\* What the checks did not look at, a member expression used as a statement, and what
\* they inferred where fewer variables were visible may throw when it is inferred here,
\* and codegen_ast_collect is noexcept (TypeChecker: CollectFails).  That can be in a body
\* or in the arguments of super, which see the locals of the body; a field's initializer
\* sees the names it was checked with.
Terminate ==
  /\ step # "idle"
  /\ stage' = "crashed" /\ step' = "idle" /\ locals' = {}
  /\ last' = Nothing
  /\ UNCHANGED <<program, cls, item, events, variable_map, built, linked>>

Next == \/ BeginClass \/ DeclareField \/ NextKind \/ NextClass
        \/ \E s \in {"ctors", "methods"} : EnterFunction(s)
        \/ LeaveFunction
        \/ \E n \in Name : DeclareLocal(n) \/ Read(n) \/ Assign(n)
        \/ \E c \in Class :
             \/ \E n \in Name : Member(c, n)
             \/ \E k \in 1..Len(program[c].ctors) : New(c, k)
             \/ \E k \in 1..Len(program[c].methods) : Call(c, k)
        \/ step = "super" /\ \E k \in 1..Len(program[program[cls].base].ctors) : Super(k)
        \/ Crash \/ Terminate

Spec == Init /\ [][Next]_vars

-----------------------------------------------------------------------------

Decl == [kind : {"field", "param", "local", "function", "null", "outside"},
         cls : 0..Len(program), stage : {"fields", "ctors", "methods"}, item : Nat]

TypeOK ==
  /\ program \in Programs
  /\ cls \in 1..Len(program) + 1 /\ item \in Nat \ {0}
  /\ stage \in {"class", "fields", "ctors", "methods", "crashed"}
  /\ step \in {"idle", "super", "body"}
  /\ step # "idle" => cls \in Class /\ stage \in {"ctors", "methods"}
  /\ events \in 0..MaxEvents /\ locals \subseteq Name
  /\ variable_map \in [Name -> Decl]
  /\ \A c \in Class : \A s \in {"fields", "ctors", "methods"} :
       built[c][s] \in 0..Len(program[c][s])
  /\ linked \subseteq Class
  /\ last \in [use : {"none", "read", "member", "assign", "new", "call", "super"},
               from : 0..Len(program), name : Name \cup {NoName},
               bound : Decl, meant : Decl]

\* A name that stands for a parameter or a local of the function it occurs in is
\* bound to it, although nothing is removed from the flat map between functions
\* and a name may be declared again and again.
OwnVariablesBind ==
  last.use = "read" /\ last.meant.kind \in {"param", "local"} => last.bound = last.meant

\* The order in which pass 2 meets declarations.
StageRank == [s \in {"fields", "ctors", "methods"} |->
                IF s = "fields" THEN 1 ELSE IF s = "ctors" THEN 2 ELSE 3]
After(d, e) ==
  \/ d.cls > e.cls
  \/ d.cls = e.cls /\ StageRank[d.stage] > StageRank[e.stage]

Collected(c, n) == c \in Class /\ \E k \in 1..built[c].fields : program[c].fields[k] = n

\* Where the flat map goes wrong for a field that has been collected, the culprit
\* is always a declaration of the same name that came later: a parameter or local
\* of the same class, or anything in another class.  A program that declares no
\* name twice is compiled right.
FieldsMisbindOnlyToLaterNames ==
  last.use = "read" /\ last.meant.kind = "field" /\ Collected(last.meant.cls, last.name) =>
    last.bound = last.meant \/ After(last.bound, last.meant)

\* A field found through a class, by a member expression or an assignment, is the
\* right one when it has been collected and no other class upward has the name.
UniqueFieldsBind ==
  last.use \in {"member", "assign"} /\ last.meant.kind = "field"
    /\ last.from \in linked /\ Collected(last.meant.cls, last.name)
    /\ Declarers(last.from, last.name) = {last.meant.cls}
  => last.bound = last.meant

\* Positions agree: constructors and methods of the classes that come earlier, the
\* methods of the class itself and those of its constructors that come earlier are
\* found where the symbol table says, and so is the constructor a super call runs.
EarlierFunctionsResolve ==
  last.use \in {"new", "call", "super"} =>
    \/ last.bound = last.meant
    \/ last.meant.cls > cls /\ last.use # "super"
    \/ /\ last.use = "new" /\ last.meant.cls = cls
       /\ (stage = "fields" \/ (stage = "ctors" /\ last.meant.item >= item))

\* "Create all class declarations first (for forward references)"
\* (codegen-ast-collector.cpp:64): an object of a class that comes later can be
\* created, as the checks of the earlier phases allow.
ForwardReferencesResolve ==
  last.use = "new" /\ last.meant.cls > cls => last.bound = last.meant
=============================================================================
