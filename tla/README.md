# A verification project for Project-O

Project-O compiles a small object-oriented language to LLVM IR. The compiler is
one sequential process without threads, files it writes back to, retries or
timeouts. What makes it hard is not concurrency but *order and shared mutable
state between passes*: five semantic phases and a code generator walk trees and
tables that the walks before them have built, an error in one place must not
spoil the verdict on another, and pointers and positions taken by one pass are
used by the next. The modules here follow those walks event by event, and the
inputs of a run are whole programs: every program of a small shape.

All paths below are relative to `src/`; `semantic/` stands for
`compiler/analysis/semantic/` and `llvm-codegen` for
`compiler/codegen/llvm/llvm-codegen`.

## 1. Inventory

### Components, in the order a program passes through them

| Component | State it keeps | Operations | What makes it correct |
|---|---|---|---|
| Driver `compiler/compiler.cpp`, `semantic/semantic-check.h` | the AST, the tables, the first exception | parse, five phases in order, code generation | a phase runs only when those before it succeeded; a rejected program has no object file |
| Lexer `compiler/lexer/lexer.h` | the text not yet taken, line, column | `take_next_token`, `tokenize_text` | the tokens are whole words and numbers, account for the text in order, and carry the places they stand at; one token for the end |
| Parser `compiler/parser/parser.*` | the vector of tokens, `current`, the nodes being built | one function per construct | never looks past the vector, ends, accepts the language and nothing else, loses no member |
| Class collector (phase 1) `semantic/phases/class-collector.*` | symbol table, type table, the AST's base names, messages | one visit per class, `get_result` | a forest of classes; both tables agree; exactly the bad headers are rejected |
| Class body collector (phase 2) `semantic/phases/class-body-collector.*` | class scopes, vectors of members, sets of names of the class | fields, methods, constructors of each class | positions and keys lead to the same member; exactly the bad bodies are rejected |
| Class field checker (phase 3) `semantic/phases/class-field-checker.*` | types of the fields' symbols, messages | one visit per field | a field has the type of its initializer, and keeps it in later phases |
| Class method checker (phase 4) `semantic/phases/class-method-checker.*` | `definitely_returns`, method scopes, messages | a visit per statement | a method that is accepted returns; values fit where they go |
| Symbol table `compilation-structures/symbol-table.h` | scopes that own symbols | `add`, `lookup`, lookups up the bases | a pointer is used only while the scope owns the symbol |
| Type table, inference `compilation-structures/type-table.*` | class name to declaration | `isSubtype`, `infer_type`, overload search | every phase infers the same type; checker and collector choose the same overload |
| Codegen collector (phase 5) `semantic/phases/codegen-ast-collector.*` | `variable_map`, classes with vectors of members, the expression just built | pass 1 creates classes, pass 2 fills them | every pointer leads to the declaration scoping says |
| Code generator `llvm-codegen.*` | blocks, insert point, virtual tables, `current_this` | layout, tables, functions, statements, expressions | well-formed blocks; stable slots; copies are whole |
| Built-in classes `semantic/builtin-classes.h` | initial entries of the tables and of the tree | `add_builtin_classes`, `add_builtin_classes_to_codegen` | symbols, tree and emitted instructions have the same methods at the same positions |
| Printers, error formatting | none | output | not modelled: wording and layout only |

### How they interact

- Phase 1 enters a class in *two* tables and, for a class without `extends`,
  writes `AnyRef` into the tree: the later phases read sometimes the pointer
  (`class_symbol::base_class`), sometimes the name (`isSubtype`).
- Phase 2 gives a member to a scope, which owns it, *and* to a vector, which
  points to it. Phase 4 finds it by key, phase 5 by position.
- Phase 4 decides with one flag whether a body returns; the code generator lays
  the same statements out in blocks and adds a default return to an open end.
- Phase 5 turns names into pointers with one flat map for the whole program, and
  calls into pointers with positions in vectors that it is still filling.
- Phases 3, 4 and 5 hand each other no types: each infers them anew, from scopes
  that have grown since. A local that phase 4 has entered is in scope of the whole
  body when phase 5 comes by.
- A call of a built-in method becomes instructions by its name; which method it is
  was decided by position in two lists written by hand.
- The code generator turns a call into a slot of the static class's table and
  runs it on the table of the dynamic class.

### What is hard

Every hazard is listed in `PROJECT.json` at its line, with the properties that
would catch it. In short: state of one body, class or function left over when the
next is visited; pointers and positions used while a pass still builds what they
point into; the walk going on after an error or an exception; information kept
twice; control flow, types and overloads decided in two places; lookahead and
positions at the end of the input; objects whose static and dynamic classes differ
in size. There is nothing to model of interleaving, message loss, crash recovery
or timeouts.

## 2. Modules and what they correspond to

| Module | Models | State and actions |
|---|---|---|
| `Lexer` | `take_next_token`, called until the end of the text | `TakeWord`, `TakeReal`, `TakeInt`, `TakePair`, `TakeSign`, `TakeNewline`, `TakeEof`: what a call returns, or that it terminates the compiler |
| `Parser` | every parse function, as items of a stack of what is yet to do | `ParseClass`, `ParseStatement`, ... put what the function does on the stack; `TakeToken`, `NameToken`, `PrimaryToken`, `MemberToken`, `SkipNewlines`, `OpenNode`, `CloseNode` do it; `Read` looks at a token for the first time |
| `ClassForest` | what phase 1 promises | `parent` grows by one leaf (`Extend`) |
| `ClassCollector` | phase 1, `symbol_table::add`, `type_table::addClass`, the built-in classes | one action per way out of `visit(class_declaration)`: `Redefinition`, `UndefinedBase`, `ProhibitedBase`, `DeclareWithBase`, `DeclareDefault`; then `GetResult` |
| `BodyCollector` | phase 2 and the class scopes | `Collect`, `Duplicate`, `UnknownType` (the exception that leaves a class), `NextKind`, `NextClass`, `GetResult` |
| `Builtins` | the built-in classes as symbols, as tree, and as instructions | operators, used by `TypeChecker` |
| `TypeChecker` | phases 3, 4 and 5 as far as types and overloads go: scopes, inference, checks, and the second inference with its own loops | `Field`, `BeginMethod`, `BeginConstructor`, `CallSuper`, `Block` (every statement), `Result`, ... then `CollectNext` for each expression the checks have let through; `Abort` where an exception meets `noexcept` |
| `ControlFlow` | phase 4's return check *and* the code generator's blocks, one event of the common walk at a time | `Simple`, `Return`, `IllTypedCondition`, `Throw`, `OpenIf`, `StartElse`, `CloseElse`, `CloseIf`, `OpenWhile`, `CloseWhile`, `EndBody`, `NextBody` |
| `CodegenCollector` | phase 5 pass 2: the order of the walk and every pointer it makes | `BeginClass`, `DeclareField`, `EnterFunction`, `LeaveFunction`, `NextKind`, `NextClass`; inside bodies `DeclareLocal`, `Read`, `Member`, `Assign`, `New`, `Call`, `Super`; `Crash`, `Terminate` |
| `VTable` | the code generator's virtual tables and dispatch; its specification is `TablesSpec`, named apart from `TypeChecker`'s because one module of proofs extends both | `BeginClass`, `Override`, `AppendEntry`, `StoreTable`, `StartEmission`, `EmitGlobal`; `Slot` is `method_vtable_slot` |
| `Objects` | what the emitted code does with objects: layout, allocation, copies, construction, calls | `New`, `NewWith`, `Call`, `SuperWith`, `SuperPlain`, `StoreTable`, `InitField`, `Declare`, `AssignLocal`, `AssignField`, `Return`, `EndConstructor`, `EndMain`; `BadLoad`, `BadCopy`, `BadCall`, `BadStore` are the accesses whose behaviour is undefined |
| `...Proofs` | the theorems about the module they are named after; `ResolutionProofs` those about `TypeChecker` and `VTable`, which function a call means and which one it reaches | |
| `MC...` | the small sets of programs for TLC | |

The modules are chained by what each one assumes about its input. `Lexer` shows
that there is one token for the end of the text and that it is the last: `Parser`
starts from such a vector. `ClassCollector` shows that bases come earlier (`NoInheritanceCycle`, and the invariant
`BaseDeclaredEarlier` in its proofs): `VTable`'s `Hierarchies` and
`CodegenCollector`'s `ClassDecl` assume it. `BodyCollector` shows `PositionsAgree`
and that no two methods of a class have one signature: `CodegenCollector` takes
positions and `VTable` takes lists of distinct signatures. `TypeChecker` starts from
the tables phases 1 and 2 leave, and shows `AssignmentsFitTheirTarget`: `Objects`
lets a statement put a value only where it fits.

### Abstractions

- Programs are data chosen by `Init` from a constant `Programs` (or `Hierarchies`);
  the theorems hold for every such set. In `ControlFlow` the statements are chosen
  while the walk goes, which covers all bodies up to the bound.
- A member of a class in `BodyCollector` is its mangled key, whether its types are
  known, and whether it has a body. The text of keys, and types, are left out.
- A function in `CodegenCollector` is the set of its parameters' names; a body is
  any sequence of uses that the earlier phases let through. The position of an
  overload is any position: which one is chosen is not modelled.
- `Lexer` has characters of twelve classes, digits in a small base and an int of a
  small width. Of a real it keeps only whether a double stands for its digits, below
  the largest double and above the smallest (`RealFits`); its value is left out. Which
  words are keywords is left out.
- A token in `Parser` is its type; a name or a literal in the tree is the index of its
  token, and so is the span of a member or a call. `Foo(args)` is built as the code builds
  it, a call of the member `Foo` of the identifier `Foo`, all of one token. A token is chosen when it is first looked at, so that files that differ only behind
  the token the parser stops at are one behaviour.
- `TypeChecker` chooses initializers, statements and results from the expressions of
  its program. The symbol table that phases 1 and 2 leave is a constant, `SymbolTables`,
  which an assumption ties to the program. The verdict of the return check is free there: it is `ControlFlow`'s.
- `Objects` chooses its program as it runs: at each point any statement that types.
  All numbers are one value, and there is one method name, `m`. An access outside an
  object, or to a cell nothing was stored in, ends the run, with the cell in `access`;
  the properties say where that can happen. A method ends by a `return`: that one may
  run off its end and give null is `ControlFlow`'s finding, and is left out here.
- Vector access past the end is undefined behaviour. It is modelled as a pointer
  `outside`, after which the walk may go on or crash.
- In `ControlFlow`, `live` and `dead` are the reference: they record whether a path
  of the source reaches the point, under two readings of a loop (`either`: its
  condition may be false at once; `entered`: its body runs at least once). `afterThrow`
  is history: an exception left the body before this one, past the reset of the flag. The
  code reads none of the three.
- Operators whose name has a suffix after `_` and whose comment begins with
  "Mutant" are plausible bugs. No specification uses them; each one breaks the
  property it is listed with in `PROJECT.json`.

## 3. Runs

One run has a liveness property: `Terminates` says that parsing any file ends. It
is checked under `WF_vars(Next)`, which the code justifies: the parser is one thread
that never waits, so it takes the step it can take. It does not hold by the shape of
the module: a loop that consumed nothing would go round for ever, and functions that
call each other without consuming would let the stack grow for ever. All other properties are safety
properties and assume no fairness. Runs with
`CHECK_DEADLOCK FALSE` are of walks that end; `ControlFlow` goes on with another
body for ever, so there a deadlock would be an error and is checked.

| Run | Bounds | What it shows |
|---|---|---|
| `lexer` | all texts of up to 4 characters over 12 characters, one of each class (two digits), in base 2 with a one-bit int, and doubles that are zero, one half, or at least 1 and less than 2 | tokens cover the text in order, are longest, and point at where they stand |
| `parser` | 14 contexts (a file, members, parameters, bodies, arguments, branches, ...) with up to 4 tokens of 25 types in each | never past the end, ends, accepts exactly the grammar in `MCParser`, and the tree written out is the file: the same tokens in the same order, each name in its place |
| `class_collector` | all programs of up to 3 headers over 3 user names and one built-in name, with earlier, later, own, built-in, prohibited, missing and no bases | tables agree, no cycle, one verdict per declaration, exactly the ill-formed programs are rejected, implements `ClassForest` |
| `body_collector` | two classes; the first has up to 2 members of each kind, keys shared between methods and constructors, unknown types | positions agree, the only symbol that is replaced while a vector points to it is a method named as its class, exactly ill-formed bodies are rejected |
| `forward_declarations` | the same programs | **violation**: a declared and later defined method is rejected |
| `types` | four programs (overloads, fields, variables named like classes, every built-in method) with their expressions, 1 or 2 statements each | types inferred twice agree; calls keep the overload they were checked with; assigned values fit. The exceptions, all reachable, are in the properties |
| `control_flow` | all bodies of up to 5 statements nested up to 3 deep, one body after another | blocks well formed, dropped code is dead, the graph has exactly the source's paths, the return check is right if loops are entered, except in the one body right after an exception |
| `control_flow_loops` | 3 statements, depth 2 | **violation**: accepted although the loop with the return need not be entered |
| `codegen_collector` | 3 classes over one name and 2 classes over two names, up to one constructor and one method, 2 uses per body | own variables are bound right; fields are bound wrongly only because of a later declaration of the name; functions of earlier classes are found |
| `codegen_forward` | the same, 1 use per body | **violation**: `new` of a later class reads past the end of its vector |
| `vtable` | all hierarchies of 3 classes over 3 signatures | slots are inherited and unique, dispatch reaches the nearest override (the type invariant of this module is only proved, see `ResolutionProofs`) |
| `objects` | four hierarchies (values, values in values, references, a class that hands itself to the constructor of its base), up to 6 objects, 4 frames, 5 statements or calls | accesses leave their object only through sliced copies, find nothing only while a constructor of the object that is to set the cell has not returned, locals do not share values but for arguments of `super`, and an object has its own class's table from the time its constructor stored it and not before, though each constructor of its bases replaces the one it finds |

Why the bounds are enough for the cases that matter: three classes give a chain, a
fork and two roots, and an override that skips a level; three headers give a
redefinition whose second copy is somebody's base, and a base that fails first.
Five statements at depth three hold an if with else inside another branch with
code after it, a loop in a branch and a branch in a loop, and a second body checks
what the first left behind. Two uses in a body are one that changes
`variable_map` and one that reads it; whether a name is rebound by another
function or class needs only one more function or class. Four characters hold a
minus, a digit, a point and what follows it, or a comment and what ends it; an int of
one bit overflows with two digits. Four free tokens are too few for a whole method,
which is why they stand in fourteen places: each context is inside one construct, so
that its every end, separator and optional part meets every other token. One statement is enough for a
type that changes between phases, as the local it declares is in scope of what came
before it; two for a variable that is used. Four steps in `Objects` are an object, a
copy of it by its base, and a call on the copy that reaches for what was cut off; the
fifth is a margin. One is enough for a base's constructor to read, in an object that it
was handed, a field that the derived class is still to initialize.

### Disagreements

1. *Forward declarations.* Phase 2 reports a method declared without a body and
   defined later as a duplicate; `tests/complex/classes/forwardDecl.po` relies on it.
2. *Loops and "all code paths".* The flag set in a loop's body survives the loop, so
   a method may be accepted that runs off its end when the loop is not entered. It
   then returns the null value the code generator supplies. (For loops on `true`
   keeping the flag is what one wants; the code does so for every condition.)
3. *Forward references to constructors.* Pass 1 of the codegen collector creates
   classes "for forward references" but not their constructors. Creating an object
   of a later class indexes an empty vector.

More disagreements between the code and its documents were met on the way. They are
single sentences about what is accepted, and need no run to be seen:

- `README.md:81` writes to a field of an object, `object.field := value`; the parser
  accepts `:=` only after a name.
- `README.md:88` promises 64-bit integers; `std::stoi` is 32 bits wide, and its
  exception leaves `take_next_token`, which is `noexcept` (`Lexer`: `aborted`). So does
  that of `std::stod`, for a real too large or too small for a double.
- A minus that no digit follows leaves no token at all.
- `return` directly before `else` is an error: only `end` and the end of the line end a
  `return` without value.
- `Integer.Min` and `Integer.Max` (`README.md:107`) are fields of the symbol table, but
  the name of a class is no expression that inference accepts before a point.
- Programs in `tests/new/positive` have methods that declare no result type, or
  constructors of derived classes that do not call `super`; phase 4 rejects both.

More facts appear as exceptions in the properties of `TypeChecker` and `Objects`: a
variable named like a class aborts phase 5 (`InferredAgain`), as does a member
expression used as a statement, which phase 4 lets through; `x.C(...)` passes phase 4
as a constructor call and is found by no loop of phase 5 (`CallsBindAsChecked`); a
parameter that hides a field types an assignment that is compiled for the field
(`AssignmentsFitTheirTarget`); a value passed as its base is sliced and keeps the
methods of its class (`InsideTheObject`); an object that its constructor hands on is
seen unfinished, and a call on it finds no table (`InitializedWhenRead`); arguments of
`super` and initializers share values where assignments copy them (`ValuesNotShared`).

Two more facts appear in properties that hold: a method named as its class loses
its symbol to a constructor with the same parameter types (`OwnedUnlessConstructor`),
and a name declared both as a field and again later in a class or in another class
makes a read of the field point to that other declaration
(`FieldsMisbindOnlyToLaterNames`).

## 4. Proofs

The theorems hold for every value of the constants that the named assumptions
allow, so for programs, hierarchies and bodies of any size. Each has the same
shape: an inductive invariant `IInv`, checked first on the small instances as far as
TLC can evaluate it, the lemmas `InitIInv`, `StepIInv` (one step per action) and
`IInvHolds` (in `ResolutionProofs`, where there are two, `InitFine`, `NextKeeps` and
`Invariance`, and the same with the prefix `Tables`), and the theorem as a consequence.

| Module | Assumes | Theorems | Inductive invariant, and why it is needed |
|---|---|---|---|
| `ClassCollectorProofs` | `Programs` are sequences of declarations; `NoBase` is not a class name | `TypeCorrect`, `OneHierarchy`, `NoInheritanceCycle`, `ThrowsExactlyForBadHeaders`, `OneVerdict`, `ImplementsForest` | `TypeOK`, `TablesAgree`, `BaseDeclaredEarlier`, `PrefixVerdict`, `Verdict`. Acyclicity does not follow from itself: it needs that a base has a smaller declaration position than its class, and a set of classes has a smallest position. `PrefixVerdict` ties the messages to the headers seen so far, which the two tables must agree on for the next header to be judged. `Verdicts`, proved on top of it, adds that messages are only about visited declarations |
| `BodyCollectorProofs` | `Programs` are sequences of classes; fields have known types and share no key with members of another kind | `TypeCorrect`, `Positions`, `Ownership`, `Verdicts` | `TypeOK`, `Shapes`, `NotYet`, `NamesAreKeys`, `KeysInScope`, `CleanSoFar`, `ReportsAreTrue`, `Verdict`, `Owners`. What was entered so far must be known to be the members before the place of the walk, in order and with no duplicate (`CleanSoFar`), and the set of names to be exactly their keys (`NamesAreKeys`): this makes the test of the set a test of the earlier members. `Owners` is kept because a key that is in the scope already, but not among the names of its kind, can only be a method's when a constructor comes |
| `LexerProofs` | `Texts` are sequences of `Character`; `Base` is positive, the limits of int and double are natural numbers | `TypeCorrect`, `TokensCover`, `LongestLexemes`, `SpansCorrect` | `TypeOK`, the three properties themselves, and `Places`: the line and column counters agree with the text before the position. All rest on one lemma, `Scan`: a scan stops at the first character outside its classes, which exists as the least of the positions that stop it. That digits have a value is shown by a least counterexample too |
| `ObjectsProofs` | `IsProgram`: bases come earlier, values extend values, the entry class needs no argument; the bounds are positive (any) | `AccessesInside`, `ReadsInitialized`, `ReferencesTyped`, `ValuesAlone`, `OwnTable`, `CallsReachTheirClass` | `HeapFine`, `FramesFine`, `Linked`, `Initialized`, and the two properties. A reference is to an object of its static type or, if it is to a copy, to one whose table is of a class below that type; what is outside the object is therefore outside of a copy. A cell of any other object is empty only if a frame of the stack is to set it (`Pending`), which survives the end of a call because `Linked` ties a base's constructor to that of the class below. What the recursive `Ancestors` and `Size` compute, that two fields of a class never share a cell and that a base's layout is a prefix, is shown by the least class for which it would fail. `ValuesAlone` needs a second invariant, `Share`: what a local owns is a copy that no field holds, no other local but a parameter of `super` holds it, and every call from one that initializes fields upwards knows it neither as `this` nor as a result nor as a local. The last part is what initializers and `super`, which do not copy, rest on: an initializer sees no local, so what it evaluates to is held by a field, is `this` or a result. That a type of values is never the type of a reference to anything else comes from `IsProgram`. `OwnTable` needs a third invariant, `Tables`: of the frames that construct an object only one is a constructor of its own class (`BuiltOnce`), one of a base has it waiting below, past the call of `super` and still before its own table (`BuiltBelow`), and an object holds the table of its own class exactly if no such constructor has yet to store it (`OwnTables`). `CallsReachTheirClass` is an action property on top of it: every step that calls a method enters that of the class whose table the receiver holds, which is the receiver's own class once it is built |
| `ParserProofs` | files begin and end with sequences of `Token`, which lacks `eof` | `TypeCorrect`, `InsideTheTokens` | `TypeOK` and `NeverPastEnd` together: a step that consumes a token has compared it with a type other than `eof`, and only `eof` is last. There is one lemma per parse function: what it puts on the stack are items, and it advances only past a token it has compared |
| `ResolutionProofs`, types | `IsInput`: expressions are finite trees, of whatever depth; bases come earlier, class names are new, fields have distinct names, and the types are classes (what `ClassCollectorProofs` and `BodyCollectorProofs` establish). `IsTable`: the symbol table is the one those phases leave, stated as one equation for each class | `InferredAgainAlways`, `BindsAsCheckedAlways`, `AssignmentsFitAlways`, and under them `TreeAsSymbols`, `InferGrows`, `Invariance` | See below |
| `ResolutionProofs`, tables | `Hierarchy(h)`: bases come earlier (what `ClassCollectorProofs` establishes), signatures of one class are distinct | `TablesTypeCorrect`, `InheritedSlots`, `UniqueSlots`, `DispatchCorrect` | `TypeOK`, `Progress`, `PartialTable`, `Finished`, `GlobalsEmitted`. The table being built inherits the base's slots, holds the nearest override among the methods seen so far, and holds every one of them; at the end of the class this is what `Finished` says, and dispatch needs that of the static and of the dynamic class |
| `ControlFlowProofs` | the bounds are natural numbers (any) | `TypeCorrect`, `WellFormedBlocks`, `DropsDeadCode`, `AcceptedReturns`, `RejectedFallsOff`, `SourcePaths` | `TypeOK`, `FlagInv`, `EmitInv`, `PathInv`. `FlagInv` says of the flag, and of the value of it that each open `if` has kept, that it is sound and complete for the paths so far; one half holds only if no exception left the body before, the other only without dead code, as the properties say. `EmitInv` says that a block is closed, the one being filled, or empty and owed by exactly one open statement. `PathInv` says that some set of blocks is the least one closed under edges, that what has been emitted is in it exactly if a path of the source gets there, and what the block being filled and those owed by the open statements will have to do with it; `SourcePaths` follows as this set is what the bounded iteration `Reachable` ends with, shown by counting its members |
| `CodegenCollectorProofs` | `ClassDecl`: bases come earlier, a class with constructors has a base with some | `TypeCorrect`, `OwnVariables`, `FieldsMisbind`, `UniqueFields`, `FunctionsResolve` | `Positions` (where the walk is), `Vectors` (how long the vectors of the classes before, at and after it are), `Bindings` (what the names of the current function are bound to, and that a collected field's name never goes back to something earlier), and the three properties. `TypeCorrect` and `UniqueFields` rest on a second invariant, `TInv`: bases are linked in order, so that a walk up the linked bases sees all of them; what the recursive walk yields is shown by the least class for which it would fail |

The argument about types, which is the longest. The three phases infer the same
expressions in different scopes: a field that had no type has got one, and locals
declared further down are there. `Older(s, t)` says that `t` is such a later scope of
`s`. `InferGrows` says what becomes of a type: it stays, or it was `Unknown` and is one
now, or inference fails in `t` because a variable there has the name of a class
(`Holds`). Expressions are trees with a depth, so the recursion over parts is known to
define a function (it exists for every bound on the depth, by a least one for which it
would not, and two of them agree), and the least expression for which a claim would
fail has parts for which it holds; this takes the place of induction over
data. The invariant `IInv` has seven parts. `FieldsFine`, `ScopesFine` and
`WalkFine` say that fields and locals have types and where the walk is. `LogFine` says of
every entry of the log that there is an older scope than its present one in which its
types were inferred, that assigned values fit, and that the fields have the logged types:
that this holds in the next state is transitivity of `Older` (`EntryKept`) and
that scopes only grow. `ProgressFine` says which fields are in the log, and that they are
first: the tree's declaration of a field is typed before anything asks for
it. `CollectedFine` holds the three properties, and `AbortFine` says what a walk that was
aborted had met. That a call is bound as it was checked needs in addition that the
collector's loops over the tree, which take the last overload of the nearest class that
has one, and the search of the table come to the same (`MethodBinds`, `NewBinds`), and
for built-in classes that both lists written by hand agree (`TreeAsSymbols`) and that the
instructions of each of their methods give the type that it declares (`EmittedMethods`).
What a class inherits is described by the equation `IsTable`, and what it yields for
every class by the shortest chain of bases for which it would fail (`SymbolFacts`).

Only model-checked, and why:

- `ParsesExactlyTheGrammar` and `TreeIsTheProgram` compare with a grammar and a tree
  walk that are recursive; `MCParser` holds them, so that `Parser` can be proved about.
- The properties of the violation runs, which are false.

No theorem speaks of liveness or `ENABLED`: `Terminates` is only model-checked. The
other walks have no liveness property: within a program or a body each step moves a
position forward or spends a bounded budget, so that they end holds by the shape of
the modules and would show nothing.

## 5. Not modelled, and the plan

Planned next, in order:

1. Arrays: the size as a product that may overflow, positions that nothing checks, an
   allocator that may fail.
2. Methods without a body up to the linker, and overrides with another result type
   (`llvm-codegen.cpp:288`), which need values of several widths in `Objects`.

Left out for good: printers and wording of messages (no behaviour), the text of
the IR, the object file and the linker (I/O and external tools), the accessors of
the syntax trees, which words are keywords, and the values of arithmetic (done by
LLVM).
