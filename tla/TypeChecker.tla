----------------------------- MODULE TypeChecker -----------------------------
(***************************************************************************)
(* Types, in the three phases that infer them: the field checker gives the *)
(* fields their types, the method checker judges bodies, and the collector *)
(* of the typed tree infers everything once more and chooses overloads by  *)
(* loops of its own.  Nothing is handed from one phase to the next but the *)
(* tables, and the tables change: a local stays in the scope of its        *)
(* function, so that the last phase sees it everywhere in the body.        *)
(*                                                                         *)
(* Initializers and statements are chosen as the walk goes, from the       *)
(* expressions of the program, and remembered in log for the last phase.   *)
(* The branches of an if or while are statements of the same scope, so a   *)
(* body is a sequence of them; which of its paths return is ControlFlow's  *)
(* question and here an error that may or may not be reported.             *)
(***************************************************************************)
EXTENDS Naturals, Sequences, SequencesExt, FiniteSetsExt, Functions, Builtins

CONSTANTS Inputs,     \* a sequence of the programs considered, each with its expressions, how
                      \* deep they and their parts are, and the bound on its statements
          SymbolTables,  \* for each of them, what the earlier phases leave
  LocalName      \* the names of locals

NoType == "no type"
Unknown == "Unknown"
\* The words that stand for what is not a class, where a class or a type is expected.
NotAClass == {NoType, NoClass, Unknown, "throws", "aborts", "none"}

ClassNames(classes) == {classes[k].name : k \in DOMAIN classes}

(***************************************************************************)
(* Expressions are finite trees: each of their parts is less deep.         *)
(***************************************************************************)
IsNewCall(e) == e.op = "call" /\ e.object.op = "name" /\ e.object.name = e.name

\* What is inferred before e itself: the arguments, then the object.
PartsOf(e) ==
  (IF e.op = "call" THEN e.args ELSE <<>>) \o
    IF e.op = "member" \/ (e.op = "call" /\ ~IsNewCall(e)) THEN <<e.object>> ELSE <<>>

IsTree(e, depth) ==
  /\ e.op \in {"literal", "this", "name", "member", "call"}
  /\ e.op = "literal" => e.type \in {"Integer", "Real", "Boolean"}
  /\ e.op \in {"member", "call"} =>
       e.object \in DOMAIN depth /\ depth[e.object] < depth[e]
  /\ e.op = "call" =>
       /\ e.args \in Seq(DOMAIN depth)
       /\ \A k \in DOMAIN e.args : depth[e.args[k]] < depth[e]

(***************************************************************************)
(* Classes come with the names of their fields, the parameters of their    *)
(* constructors and methods, and the kind of each method's body.  The      *)
(* earlier phases leave: class names are new, a base comes first, types    *)
(* are classes, no class has two fields of one name.                       *)
(***************************************************************************)
Parameter(types) == [name : STRING, type : types]
Declaration(types) ==
  [name : STRING \ NotAClass, base : types \ {"Class"}, fields : Seq(STRING),
   ctors : Seq(Seq(Parameter(types))),
   methods : Seq([name : STRING, params : Seq(Parameter(types)), ret : types \cup {NoType},
                  body : {"none", "block", "expression"}])]

IsInput(input) ==
  /\ input.bound \in Nat
  /\ input.depth \in [DOMAIN input.depth -> Nat]
  /\ input.exprs \subseteq DOMAIN input.depth
  /\ \A e \in DOMAIN input.depth : IsTree(e, input.depth)
  /\ input.classes \in Seq(Declaration(BuiltinClass \cup ClassNames(input.classes)))
  /\ \A k \in DOMAIN input.classes :
       LET class   == input.classes[k]
           earlier == {input.classes[j].name : j \in 1..k - 1}
       IN  /\ class.name \notin BuiltinClass \cup earlier
           /\ class.base \in BuiltinClass \cup earlier
           /\ IsInjective(class.fields)

ASSUME InputsAssumption == \A k \in DOMAIN Inputs : IsInput(Inputs[k])

(***************************************************************************)
(* The symbol table that the earlier phases leave: for each class the      *)
(* class and its bases, from the class up, its constructors, the methods   *)
(* in the order in which the loops meet them, those of a class before      *)
(* those of its base, and the base that its declaration names.             *)
(***************************************************************************)
Types(params) == [k \in DOMAIN params |-> params[k].type]
Constructors(class) == [k \in DOMAIN class.ctors |-> Types(class.ctors[k])]
Methods(class) ==
  [k \in DOMAIN class.methods |->
     LET m == class.methods[k] IN Method(m.name, Types(m.params), m.ret)]

Owned(c, methods) == [k \in DOMAIN methods |-> [class |-> c, at |-> k, method |-> methods[k]]]

Nothing == [chain |-> <<>>, methods |-> <<>>]
Symbol(c, above, declared, ctors, methods) ==
  [chain |-> <<c>> \o above.chain, base |-> declared, ctors |-> ctors,
   methods |-> Owned(c, methods) \o above.methods]

BuiltinSymbol(c, above) ==
  Symbol(c, above, NoClass, BuiltinConstructors[c], BuiltinMethods[c])
UserSymbol(class, above) ==
  Symbol(class.name, above, class.base, Constructors(class), Methods(class))

Named(classes, c) == classes[CHOOSE k \in DOMAIN classes : classes[k].name = c]

IsTable(table, classes) ==
  /\ \A c \in DOMAIN table : table[c].chain \in Seq(DOMAIN table)
  /\ table = [c \in BuiltinClass \cup ClassNames(classes) |->
       IF c \in BuiltinClass
         THEN BuiltinSymbol(c, IF c = "Class" THEN Nothing ELSE table[BuiltinBase[c]])
         ELSE UserSymbol(Named(classes, c), table[Named(classes, c).base])]

ASSUME TablesAssumption ==
  \A k \in DOMAIN Inputs : IsTable(SymbolTables[k], Inputs[k].classes)

VARIABLES
  program,     \* which of the inputs: fixed
  phase,       \* "fields", "methods", "collect", and how it ended
  cls, kind, item,  \* the member that is visited
  step,        \* "idle", or "super" and "body" inside a function
  field_types, \* class -> field -> the type of its symbol
  scopes,      \* function -> its method scope: parameters and locals with their types
  statements,  \* how many statements there have been
  errors,      \* error_message is not empty
  log,         \* what was inferred: the expressions, where, as what, their types
  collected    \* what the last phase made of the entries of log

vars == <<program, phase, cls, kind, item, step, field_types, scopes, statements, errors,
          log, collected>>
walk == <<cls, kind, item, step>>

Input   == Inputs[program]
Classes == Input.classes
Symbols == SymbolTables[program]

IsClass(n) == n \in DOMAIN Symbols

Expression == DOMAIN Input.depth

IsType(t) == IsClass(t) \/ t = Unknown

Init ==
  /\ program \in DOMAIN Inputs
  /\ phase = "fields"
  /\ cls = 1 /\ kind = "fields" /\ item = 1 /\ step = "idle"
  /\ field_types = [c \in DOMAIN Symbols |->
       IF c \in BuiltinClass THEN BuiltinFields[c]
       ELSE [n \in UNION {Range(Classes[k].fields) : k \in {k \in DOMAIN Classes : Classes[k].name = c}}
               |-> Unknown]]
  /\ scopes = <<>>
  /\ statements = 0
  /\ errors = FALSE
  /\ log = <<>> /\ collected = <<>>

Merge(f, g) == [n \in DOMAIN f \cup DOMAIN g |-> IF n \in DOMAIN f THEN f[n] ELSE g[n]]

\* The variables that the scope of class c shows, where fields are of these types: the
\* nearest of each name.
Declaring(fields, c, n) ==
  {k \in DOMAIN Symbols[c].chain : n \in DOMAIN fields[Symbols[c].chain[k]]}
Shown(fields, c) ==
  LET chain == Symbols[c].chain
  IN  [n \in UNION {DOMAIN fields[chain[k]] : k \in DOMAIN chain} |->
         fields[chain[Min(Declaring(fields, c, n))]][n]]
ClassScope(c) == Shown(field_types, c)

(***************************************************************************)
(* Subtypes and overloads.                                                 *)
(***************************************************************************)
\* The same type, or the direct base that the declaration names; the built-in classes have
\* no declaration.  Unknown is a type like any other.
IsSubtype(sub, super) ==
  sub = super \/ (IsClass(sub) /\ Symbols[sub].base = super)

IsSubtypeList(subs, supers) ==
  /\ Len(subs) = Len(supers)
  /\ \A k \in DOMAIN subs : IsSubtype(subs[k], supers[k])

FittingConstructors(c, args) ==
  {k \in DOMAIN Symbols[c].ctors : IsSubtypeList(args, Symbols[c].ctors[k])}
FittingMethods(c, name, args) ==
  {k \in DOMAIN Symbols[c].methods :
     LET m == Symbols[c].methods[k].method IN m.name = name /\ IsSubtypeList(args, m.params)}

\* resolve_constructor_call throws if there is none and if there are several.
ConstructorResolves(c, args) == Cardinality(FittingConstructors(c, args)) = 1

NoTarget == [class |-> NoClass, at |-> 0, method |-> Method("none", <<>>, "throws")]

\* find_method_in_hierarchy: the first that fits.
CheckedMethod(c, name, args) ==
  LET fits == FittingMethods(c, name, args)
  IN  IF fits = {} THEN NoTarget ELSE Symbols[c].methods[Min(fits)]

(***************************************************************************)
(* Inference, in a scope [cls, variables, fields]: a type, or "throws", or *)
(* "aborts" where an assertion fails because a variable hides a class.     *)
(***************************************************************************)
Hidden(c, s) == c \in DOMAIN s.variables
ClassVisible(c, s) == IsClass(c) /\ ~Hidden(c, s)

ReturnType(m) == IF m.ret = NoType THEN "Unit" ELSE m.ret

FirstFailure(results) ==
  LET bad == {k \in DOMAIN results : ~IsType(results[k])}
  IN  IF bad = {} THEN "none" ELSE results[Min(bad)]

InferNew(c, args) == IF ConstructorResolves(c, args) THEN c ELSE "throws"

\* The type of a member of an object of class o.
FieldOf(o, name, s) ==
  LET fields == Shown(s.fields, o) IN IF name \in DOMAIN fields THEN fields[name] ELSE "throws"

CallOn(o, name, args) ==
  IF o = name THEN InferNew(o, args) ELSE ReturnType(CheckedMethod(o, name, args).method)

\* What an object of type o gives: its class is looked up where the object is used.
OnObject(e, o, args, s) ==
  CASE o = Unknown                       -> "throws"
    [] o # Unknown /\ Hidden(o, s)       -> "aborts"
    [] OTHER -> IF e.op = "member" THEN FieldOf(o, e.name, s) ELSE CallOn(o, e.name, args)

\* The type of e, from those of its parts; of several failures the first is met.
TypeFrom(e, types, s) ==
  IF FirstFailure(types) # "none" THEN FirstFailure(types)
  ELSE CASE e.op = "literal" -> e.type
         [] e.op = "this"    -> s.cls
         [] e.op = "name"    ->
              IF e.name \in DOMAIN s.variables THEN s.variables[e.name] ELSE "throws"
         [] OTHER            ->
              IF ~(e.op = "call" /\ IsNewCall(e)) THEN OnObject(e, Last(types), Front(types), s)
              ELSE IF ClassVisible(e.name, s) THEN InferNew(e.name, types) ELSE "throws"

Infer(e, s) ==
  LET type[x \in Expression] ==
        TypeFrom(x, [k \in DOMAIN PartsOf(x) |-> type[PartsOf(x)[k]]], s)
  IN  type[e]

InferAll(es, s) == [k \in DOMAIN es |-> Infer(es[k], s)]

(***************************************************************************)
(* The walks: where they are and how they go on.                           *)
(***************************************************************************)
Here         == <<cls, kind, item>>
Name         == Classes[cls].name
FieldScope(c) == [cls |-> c, variables |-> ClassScope(c), fields |-> field_types]
FunctionScope(f) ==
  LET c == Classes[f[1]].name
  IN  [cls |-> c, variables |-> Merge(scopes[f], ClassScope(c)), fields |-> field_types]
Scope == FunctionScope(Here)

Entry(what, name, exprs, types) ==
  [at |-> Here, what |-> what, name |-> name, exprs |-> exprs, types |-> types]
Log(what, name, exprs, types) ==
  /\ log' = Append(log, Entry(what, name, exprs, types))
  /\ UNCHANGED errors
Report == errors' = TRUE /\ UNCHANGED log

GoOn  == UNCHANGED walk
Leave == item' = item + 1 /\ step' = "idle" /\ UNCHANGED <<cls, kind>>

Abort ==
  /\ phase' = "aborted" /\ step' = "idle"
  /\ UNCHANGED <<program, cls, kind, item, field_types, scopes, statements, errors,
                 log, collected>>

(***************************************************************************)
(* The field checker: an exception is an error of that field only.         *)
(***************************************************************************)
AtField ==
  /\ phase = "fields" /\ cls \in DOMAIN Classes
  /\ item <= Len(Classes[cls].fields)

\* The initializer e is of this type.
CheckField(e, type) ==
  /\ LET name == Classes[cls].fields[item]
     IN  \/ /\ IsType(type)
            /\ field_types' = [field_types EXCEPT ![Name][name] = type]
            /\ Log("field", name, <<e>>, <<type>>)
         \/ type = "throws" /\ Report /\ UNCHANGED field_types
  /\ Leave
  /\ UNCHANGED <<program, phase, scopes, statements, collected>>

NextFieldClass ==
  /\ phase = "fields" /\ cls \in DOMAIN Classes
  /\ item > Len(Classes[cls].fields)
  /\ cls' = cls + 1 /\ item' = 1
  /\ UNCHANGED <<program, phase, kind, step, field_types, scopes, statements, errors, log,
                 collected>>

\* check_field_content throws if there are errors.
EndFields ==
  /\ phase = "fields" /\ cls > Len(Classes)
  /\ phase' = IF errors THEN "rejected" ELSE "methods"
  /\ cls' = 1 /\ kind' = "methods" /\ item' = 1
  /\ UNCHANGED <<program, step, field_types, scopes, statements, errors, log, collected>>

(***************************************************************************)
(* The method checker.                                                     *)
(***************************************************************************)
AtFunction(k) ==
  /\ phase = "methods" /\ cls \in DOMAIN Classes
  /\ kind = k /\ step = "idle" /\ item <= Len(Classes[cls][k])
ThisMethod == Classes[cls].methods[item]

Parameters(params) ==
  [n \in {params[k].name : k \in DOMAIN params} |->
     params[Max({k \in DOMAIN params : params[k].name = n})].type]
OpenScope(params) == scopes' = Merge(scopes, [f \in {Here} |-> Parameters(params)])

BeginMethod ==
  /\ AtFunction("methods")
  /\ OpenScope(ThisMethod.params)
  /\ IF ThisMethod.body = "none" \/ ThisMethod.ret = NoType
       THEN /\ Leave
            /\ errors' = (errors \/ ThisMethod.body # "none")
       ELSE step' = "body" /\ UNCHANGED <<cls, kind, item, errors>>
  /\ UNCHANGED <<program, phase, field_types, statements, log, collected>>

BeginConstructor ==
  /\ AtFunction("ctors")
  /\ OpenScope(Classes[cls].ctors[item])
  /\ step' = "super"
  /\ UNCHANGED <<program, phase, cls, kind, item, field_types, statements, errors, log, collected>>

Base == Classes[cls].base

\* The constructor of a class with a built-in base must not call super.
NoSuper ==
  /\ step = "super"
  /\ IF Base \in BuiltinClass
       THEN step' = "body" /\ UNCHANGED <<cls, kind, item, log, errors>>
       ELSE Leave /\ Report
  /\ UNCHANGED <<program, phase, field_types, scopes, statements, collected>>

\* The others must; that several constructors of the base fit is not an error here.
Super(args, types) ==
  /\ LET failure == FirstFailure(types)
     IN  IF Base \in BuiltinClass \/ failure = "throws"
            \/ (failure = "none" /\ FittingConstructors(Base, types) = {})
           THEN Leave /\ Report
           ELSE /\ failure = "none"
                /\ step' = "body" /\ UNCHANGED <<cls, kind, item>>
                /\ Log("super", "super", args, types)
  /\ UNCHANGED <<program, phase, field_types, scopes, statements, collected>>

AbortSuper(types) ==
  Base \notin BuiltinClass /\ FirstFailure(types) = "aborts" /\ Abort

InBlock ==
  /\ step = "body" /\ (kind = "methods" => ThisMethod.body = "block")
  /\ statements < Input.bound
Statement == statements' = statements + 1 /\ UNCHANGED <<program, phase, field_types, collected>>
InMethod  == kind = "methods"

\* An exception leaves the body and is reported; what it declared stays in its scope.
Thrown == Report /\ Leave /\ UNCHANGED scopes

\* Mutant: what is visible can be declared again.
Declare_Again(name, e, type) ==
  /\ Statement
  /\ \/ type = "throws" /\ Thrown
     \/ /\ IsType(type)
        /\ scopes' = [scopes EXCEPT ![Here] = Merge([n \in {name} |-> type], @)]
        /\ Log("local", name, <<e>>, <<type>>)
        /\ GoOn

\* In all of these, e was inferred to be of this type.
Declare(name, e, type) ==
  /\ Statement
  /\ \/ (type = "throws" \/ (IsType(type) /\ name \in DOMAIN Scope.variables)) /\ Thrown
     \/ /\ IsType(type) /\ name \notin DOMAIN Scope.variables
        /\ scopes' = [scopes EXCEPT ![Here] = Merge([n \in {name} |-> type], @)]
        /\ Log("local", name, <<e>>, <<type>>)
        /\ GoOn

\* A value of a type that does not fit is reported, and the body goes on.
Judge(what, name, e, type, fits) ==
  \/ type = "throws" /\ Thrown
  \/ /\ IsType(type)
     /\ IF fits THEN Log(what, name, <<e>>, <<type>>) ELSE Report
     /\ GoOn /\ UNCHANGED scopes

\* Mutant: any value can be assigned.
Assign_Unchecked(name, e, type) ==
  /\ Statement
  /\ IF name \notin DOMAIN Scope.variables
       THEN Report /\ GoOn /\ UNCHANGED scopes
       ELSE Judge("assign", name, e, type, TRUE)

Assign(name, e, type) ==
  /\ Statement
  /\ IF name \notin DOMAIN Scope.variables
       THEN Report /\ GoOn /\ UNCHANGED scopes
       ELSE Judge("assign", name, e, type, IsSubtype(type, Scope.variables[name]))

\* Of an if or a while; the branches of a condition with an error are not visited.
Condition(e, type) == Statement /\ Judge("condition", "if", e, type, type = "Boolean")

Return(e, type) ==
  /\ Statement
  /\ IF InMethod
       THEN Judge("return", "return", e, type, IsSubtype(type, ThisMethod.ret))
       ELSE Report /\ GoOn /\ UNCHANGED scopes

ReturnNothing ==
  /\ InBlock /\ Statement
  /\ errors' = (errors \/ InMethod)
  /\ GoOn /\ UNCHANGED <<scopes, log>>

\* An expression used as a statement begins with a name or this.
IsStatement(e) ==
  LET begins[x \in Expression] ==
        IF x.op \in {"member", "call"} THEN begins[x.object] ELSE x.op \in {"name", "this"}
  IN  begins[e]

\* Here the exception is caught and the body goes on.
CallStatement(e, type) ==
  /\ e.op = "call" /\ IsStatement(e)
  /\ Statement
  /\ \/ type = "throws" /\ Report
     \/ IsType(type) /\ Log("call", e.name, <<e>>, <<type>>)
  /\ GoOn /\ UNCHANGED scopes

\* A member used as a statement is not looked at.
MemberStatement(e) ==
  /\ e.op = "member" /\ IsStatement(e)
  /\ Statement
  /\ Log("member", e.name, <<e>>, <<>>)
  /\ GoOn /\ UNCHANGED scopes

EndBody ==
  /\ step = "body" /\ (InMethod => ThisMethod.body = "block")
  /\ errors' \in {errors, errors \/ InMethod}
  /\ Leave
  /\ UNCHANGED <<program, phase, field_types, scopes, statements, log, collected>>

\* method ... => e
InResult == step = "body" /\ InMethod /\ ThisMethod.body = "expression"
ExpressionBody(e, type) ==
  /\ IF IsType(type) /\ IsSubtype(type, ThisMethod.ret)
       THEN Log("result", "result", <<e>>, <<type>>)
       ELSE type # "aborts" /\ Report
  /\ Leave
  /\ UNCHANGED <<program, phase, field_types, scopes, statements, collected>>

\* Methods first, then constructors.
NextKind ==
  /\ phase = "methods" /\ cls \in DOMAIN Classes
  /\ step = "idle" /\ item > Len(Classes[cls][kind])
  /\ IF kind = "methods" THEN kind' = "ctors" /\ UNCHANGED cls
     ELSE kind' = "methods" /\ cls' = cls + 1
  /\ item' = 1
  /\ UNCHANGED <<program, phase, step, field_types, scopes, statements, errors, log, collected>>

EndMethods ==
  /\ phase = "methods" /\ cls > Len(Classes)
  /\ phase' = IF errors THEN "rejected" ELSE "collect"
  /\ UNCHANGED <<program, cls, kind, item, step, field_types, scopes, statements, errors, log,
                 collected>>

(***************************************************************************)
(* The collector, which is noexcept.                                       *)
(***************************************************************************)
ScopeOf(entry) == IF entry.what = "field" THEN FieldScope(Classes[entry.at[1]].name)
                  ELSE FunctionScope(entry.at)

\* transformExpression infers the arguments and objects inside e, but not e; to infer one
\* of them is to infer what is inside it.
TransformFails(e, s) == FirstFailure(InferAll(PartsOf(e), s)) # "none"

\* The whole expression is inferred again where its type is stored in the tree.
Reinferred(entry) == entry.what \in {"field", "local", "assign", "return", "super"}

\* The loop over the methods of a class goes on after a match: the last that fits, of the
\* nearest class that has one.
CollectedMethod(c, name, args) ==
  LET methods == Symbols[c].methods
      fits    == FittingMethods(c, name, args)
  IN  IF fits = {} THEN NoTarget
      ELSE methods[Max({k \in fits : methods[k].class = methods[Min(fits)].class})]

CollectedNew(c, args) ==
  LET fits == FittingConstructors(c, args)
  IN  IF fits = {} THEN NoTarget
      ELSE [class |-> c, at |-> Min(fits), method |-> Method(c, Symbols[c].ctors[Min(fits)], c)]

\* C(...) is a constructor call when the object is the name of the member, and only then.
\* A call is stored with the types of its parts.
Find(e, types) ==
  IF IsNewCall(e) THEN CollectedNew(e.name, types)
  ELSE IF Last(types) = Unknown THEN NoTarget
  ELSE CollectedMethod(Last(types), e.name, Front(types))

CollectCall(e, types) == [expr |-> e, types |-> types, target |-> Find(e, types)]

CallsIn(e) ==
  LET calls[x \in Expression] ==
        (IF x.op = "call" THEN {x} ELSE {}) \cup UNION {calls[part] : part \in Range(PartsOf(x))}
  IN  calls[e]
CallsOf(entry, s) ==
  {<<e, InferAll(PartsOf(e), s)>> : e \in UNION {CallsIn(entry.exprs[k]) : k \in DOMAIN entry.exprs}}

\* An assignment is to a field whenever the class scope, or what is above it, has the
\* name; of several fields upward the topmost is taken.
ToField(entry) ==
  LET c == Classes[entry.at[1]].name IN entry.name \in DOMAIN ClassScope(c) \/ IsClass(entry.name)

FieldClasses(c, n) == Declaring(field_types, c, n)

\* The type that the field of the tree has: from its initializer, inferred again.
TreeFieldType(c, n) ==
  IF c \in BuiltinClass THEN BuiltinFields[c][n]
  ELSE LET k == CHOOSE k \in DOMAIN collected :
                  log[k].what = "field" /\ Classes[log[k].at[1]].name = c /\ log[k].name = n
       IN  collected[k].types[1]

\* The type of the variable or field that the assignment is compiled for.
AssignedType(entry) ==
  IF entry.what # "assign" THEN NoType
  ELSE IF ToField(entry)
         THEN LET c == Classes[entry.at[1]].name
              IN  TreeFieldType(Symbols[c].chain[Max(FieldClasses(c, entry.name))], entry.name)
  ELSE scopes[entry.at][entry.name]

CollectFails(entry, types, s) ==
  \/ \E k \in DOMAIN entry.exprs : TransformFails(entry.exprs[k], s)
  \/ Reinferred(entry) /\ FirstFailure(types) # "none"
  \/ entry.what = "assign" /\ ToField(entry) /\
       FieldClasses(Classes[entry.at[1]].name, entry.name) = {}   \* assert(member->member)

AtEntry == phase = "collect" /\ Len(collected) < Len(log)
NextEntry == log[Len(collected) + 1]

\* In scope s the entry is of these types.
Collect(entry, types, s) ==
  /\ collected' = Append(collected,
       [types  |-> IF Reinferred(entry) THEN types ELSE <<>>,
        calls  |-> {CollectCall(c[1], c[2]) : c \in CallsOf(entry, s)},
        target |-> AssignedType(entry)])
  /\ UNCHANGED <<program, phase, walk, field_types, scopes, statements, errors, log>>

CollectNext ==
  /\ AtEntry
  /\ \E s \in {ScopeOf(NextEntry)} : \E types \in {InferAll(NextEntry.exprs, s)} :
       \/ CollectFails(NextEntry, types, s) /\ Abort
       \/ ~CollectFails(NextEntry, types, s) /\ Collect(NextEntry, types, s)

Finish ==
  /\ phase = "collect" /\ Len(collected) = Len(log)
  /\ phase' = "done"
  /\ UNCHANGED <<program, walk, field_types, scopes, statements, errors, log, collected>>

-----------------------------------------------------------------------------
\* An expression is inferred, and the assertion fails or the visitor goes on with its type.
Visit(e, type) ==
  \/ type = "aborts" /\ Abort
  \/ \E n \in LocalName : Declare(n, e, type)
  \/ \E n \in LocalName \cup DOMAIN Scope.variables : Assign(n, e, type)
  \/ Condition(e, type) \/ Return(e, type) \/ CallStatement(e, type) \/ MemberStatement(e)

Field == AtField /\ \E e \in Input.exprs : \E type \in {Infer(e, FieldScope(Name))} :
           (type = "aborts" /\ Abort) \/ CheckField(e, type)
Block == InBlock /\ \E e \in Input.exprs : \E type \in {Infer(e, Scope)} : Visit(e, type)
Result == InResult /\ \E e \in Input.exprs : \E type \in {Infer(e, Scope)} :
            (type = "aborts" /\ Abort) \/ ExpressionBody(e, type)

SuperArguments == {<<>>} \cup {<<e>> : e \in Input.exprs}
CallSuper == step = "super" /\ \E args \in SuperArguments : \E types \in {InferAll(args, Scope)} :
               Super(args, types) \/ AbortSuper(types)

Next ==
  \/ Field \/ NextFieldClass \/ EndFields
  \/ BeginMethod \/ BeginConstructor \/ NoSuper \/ CallSuper
  \/ Block \/ ReturnNothing \/ EndBody \/ Result
  \/ NextKind \/ EndMethods
  \/ CollectNext \/ Finish

Spec == Init /\ [][Next]_vars

-----------------------------------------------------------------------------
(* Properties. *)

\* What the last phase infers is what the checks inferred, although every local is in
\* scope of the whole body by then.  Exceptions are the fields that were typed from a
\* field that had no type yet.  And it always infers something: the compiler is aborted
\* only if a variable that is visible there has the name of a class, or by a member
\* expression used as a statement, which no check looks at (codegen-ast-collector.h:78).
ShadowsClass(variables) == \E n \in DOMAIN variables : IsClass(n)

InferredAgain ==
  /\ \A k \in DOMAIN collected :
       Reinferred(log[k]) /\ log[k].types # <<Unknown>> => collected[k].types = log[k].types
  /\ phase = "aborted" =>
       IF Len(collected) < Len(log) /\ cls > Len(Classes)
         THEN NextEntry.what = "member" \/ ShadowsClass(ScopeOf(NextEntry).variables)
         ELSE ShadowsClass(IF kind = "fields" THEN ClassScope(Name) ELSE Scope.variables)

\* A program that was accepted is compiled with the overloads it was checked with, where
\* the arguments leave no choice: the three loops that choose one agree, and the class
\* and the position they come to hold the method that was meant in the tree as well, and
\* the instructions for it, if it is built in, give a value of the type it declares.  A
\* constructor called through an object (type-table.cpp:143) is never found.
Meant(e, types) == CheckedMethod(Last(types), e.name, Front(types))

BuiltinAgrees(e, t) ==
  IF IsNewCall(e) THEN TreeConstructors[t.class][t.at] = t.method.params
  ELSE TreeMethods[t.class][t.at] = t.method /\ EmittedType(t.class, t.method) = t.method.ret

Ambiguous(e, types, t) ==
  Cardinality({k \in FittingMethods(Last(types), e.name, Front(types)) :
                 Symbols[Last(types)].methods[k].class = t.class}) > 1

BindsAsChecked(e, types, t) ==
  /\ t # NoTarget
  /\ IF IsNewCall(e) THEN FittingConstructors(e.name, types) = {t.at}
     ELSE t = Meant(e, types) \/ Ambiguous(e, types, t)
  /\ t.class \in BuiltinClass => BuiltinAgrees(e, t)

CallsBindAsChecked ==
  \A k \in DOMAIN collected : \A call \in collected[k].calls :
    \/ log[k].what = "member"
    \/ ~IsNewCall(call.expr) /\ Last(call.types) = call.expr.name
    \/ BindsAsChecked(call.expr, call.types, call.target)

\* A value is assigned only to what has its type or that of its direct base, whichever
\* variable or field the assignment is compiled for.  Exceptions are a name that several
\* of the fields and parameters in sight have, and values of no type.
Declarations(entry) ==
  Cardinality(FieldClasses(Classes[entry.at[1]].name, entry.name))
    + IF entry.name \in DOMAIN scopes[entry.at] THEN 1 ELSE 0

AssignmentsFitTheirTarget ==
  \A k \in DOMAIN collected :
    log[k].what = "assign" =>
      \/ IsSubtype(collected[k].types[1], collected[k].target)
      \/ Declarations(log[k]) > 1
      \/ log[k].types = <<Unknown>>
==============================================================================
