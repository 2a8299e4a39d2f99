----------------------- MODULE CodegenCollectorProofs -----------------------
(***************************************************************************)
(* What the codegen collector gets right for every program: a function's   *)
(* own variables, the functions of earlier classes, and the direction in   *)
(* which the flat map can go wrong for fields.  The argument follows the   *)
(* walk: how long each vector is at each point, and what each name is      *)
(* bound to.                                                               *)
(***************************************************************************)
EXTENDS CodegenCollector, Integers, WellFoundedInduction, TLAPS

Kinds   == {"fields", "ctors", "methods"}
Vector  == [fields : Nat, ctors : Nat, methods : Nat]
Target  == {"field", "param", "local", "null"}
Binding == [kind : Target, cls : Nat, stage : Kinds, item : Nat]

Positions ==
  /\ program \in Programs
  /\ cls \in 1..Len(program) + 1 /\ item \in Nat \ {0}
  /\ stage \in Kinds \cup {"class", "crashed"} /\ step \in {"idle", "super", "body"}
  /\ stage \in Kinds => cls \in Class /\ item <= Len(program[cls][stage]) + 1
  /\ step # "idle" => stage \in {"ctors", "methods"} /\ item <= Len(program[cls][stage])
  /\ step = "super" => stage = "ctors" /\ program[cls].base # 0

\* How long the vectors of each class are.
Vectors ==
  /\ built \in [Class -> Vector]
  /\ \A c \in Class :
       /\ c < cls => /\ built[c].ctors = Len(program[c].ctors)
                     /\ built[c].methods = Len(program[c].methods)
       /\ c > cls => built[c].fields = 0 /\ built[c].ctors = 0
       /\ c = cls /\ stage \in Kinds => built[c].methods = Len(program[c].methods)
       /\ c = cls /\ stage = "class" => built[c].fields = 0 /\ built[c].ctors = 0
       /\ c = cls /\ stage = "fields" => built[c].fields = item - 1 /\ built[c].ctors = 0
       /\ c = cls /\ stage = "ctors" => built[c].ctors = item - 1
       /\ c = cls /\ stage = "methods" => built[c].ctors = Len(program[c].ctors)

\* What the names of the function being walked are bound to, and what has become of
\* the names of fields.
Bindings ==
  /\ variable_map \in [Name -> Binding]
  /\ step = "idle" => locals = {}
  /\ step # "idle" =>
       /\ \A n \in locals : n \in Name => variable_map[n] = Here("local")
       /\ \A n \in Params \ locals : n \in Name => variable_map[n] = Here("param")
  /\ \A c \in Class : \A n \in Name : Collected(c, n) =>
       variable_map[n] = FieldOf(c) \/ After(variable_map[n], FieldOf(c))

Bound == OwnVariablesBind /\ FieldsMisbindOnlyToLaterNames /\ EarlierFunctionsResolve

IInv == Positions /\ Vectors /\ Bindings /\ Bound

LEMMA ProgramFacts ==
  ASSUME program \in Programs
  PROVE  /\ Len(program) \in Nat
         /\ \A c \in Class :
              /\ c \in Nat /\ program[c].base \in 0..c - 1
              /\ program[c].fields \in Seq(Name)
              /\ program[c].ctors \in Seq(SUBSET Name)
              /\ program[c].methods \in Seq(SUBSET Name)
              /\ Len(program[c].fields) \in Nat
              /\ Len(program[c].ctors) \in Nat /\ Len(program[c].methods) \in Nat
<1>1. Len(program) \in Nat /\ \A c \in Class : ClassDecl(program, c)
  BY ProgramsAssumption DEF Class
<1>. QED BY <1>1 DEF ClassDecl, Class

LEMMA HereTyped ==
  ASSUME Positions, stage \in Kinds, NEW k \in Target
  PROVE  /\ Here(k) \in Binding
         /\ Here(k).kind = k /\ Here(k).cls = cls /\ Here(k).stage = stage
<1>1. cls \in Nat /\ item \in Nat
  BY ProgramFacts DEF Positions
<1>. QED BY <1>1 DEF Here, Binding

LEMMA FieldOfTyped ==
  ASSUME NEW c \in Nat
  PROVE  /\ FieldOf(c) \in Binding
         /\ FieldOf(c).kind = "field" /\ FieldOf(c).cls = c /\ FieldOf(c).stage = "fields"
BY DEF FieldOf, Binding, Target, Kinds

\* A declaration inside a function comes after every field collected so far.
LEMMA InsideIsLater ==
  ASSUME Positions, Vectors, stage \in {"ctors", "methods"}, NEW k \in Target,
         NEW c \in Class, NEW n \in Name, Collected(c, n)
  PROVE  After(Here(k), FieldOf(c))
<1>1. c <= cls /\ cls \in Nat /\ c \in Nat
  <2>1. built[c].fields # 0
    BY DEF Collected
  <2>. QED BY <2>1, ProgramFacts DEF Vectors, Positions
<1>2. /\ Here(k).cls = cls /\ Here(k).stage = stage
      /\ FieldOf(c).cls = c /\ FieldOf(c).stage = "fields"
  BY <1>1, HereTyped, FieldOfTyped DEF Kinds
<1>3. StageRank[stage] > StageRank["fields"]
  BY DEF StageRank
<1>. QED BY <1>1, <1>2, <1>3 DEF After

LEMMA InitIInv == Init => IInv
<1> SUFFICES ASSUME Init PROVE IInv
  OBVIOUS
<1>1. Positions
  BY ProgramFacts DEF Init, Positions, Kinds, Class
<1>2. Vectors
  <2>1. built \in [Class -> Vector] /\ \A c \in Class : built[c].fields = 0 /\ built[c].ctors = 0
    BY DEF Init, Vector
  <2>. QED BY <2>1, ProgramFacts DEF Init, Vectors, Class, Kinds
<1>3. Bindings
  <2>1. Null \in Binding
    BY DEF Null, Binding, Target, Kinds
  <2>2. \A c \in Class : \A n : ~Collected(c, n)
    BY DEF Init, Collected
  <2>. QED BY <2>1, <2>2 DEF Init, Bindings
<1>4. Bound
  <2>1. last.use = "none"
    BY DEF Init, Nothing, Pointer
  <2>. QED BY <2>1 DEF Bound, OwnVariablesBind, FieldsMisbindOnlyToLaterNames,
                       EarlierFunctionsResolve
<1>. QED BY <1>1, <1>2, <1>3, <1>4 DEF IInv

\* A step that makes no pointer.
LEMMA NothingBound == ASSUME last' = Nothing PROVE Bound'
BY DEF Nothing, Pointer, Bound, OwnVariablesBind, FieldsMisbindOnlyToLaterNames,
       EarlierFunctionsResolve

\* A step that changes neither the map nor what has been collected, and leaves no
\* function or stays in it.
LEMMA BindingsKept ==
  ASSUME Bindings, UNCHANGED <<program, variable_map>>,
         \A c \in Class : built'[c].fields = built[c].fields,
         \/ step' = "idle" /\ locals' = {}
         \/ step # "idle" /\ step' # "idle" /\ UNCHANGED <<cls, stage, item, locals>>
  PROVE  Bindings'
<1>1. Class' = Class
  BY DEF Class
<1>2. \A c \in Class : \A n : Collected(c, n)' <=> Collected(c, n)
  BY <1>1 DEF Collected
<1>3. \A c : FieldOf(c)' = FieldOf(c)
  BY DEF FieldOf
<1>4. ASSUME step' # "idle"
      PROVE  /\ \A n \in locals' : n \in Name => variable_map'[n] = Here("local")'
             /\ \A n \in Params' \ locals' : n \in Name => variable_map'[n] = Here("param")'
  <2>1. step # "idle" /\ UNCHANGED <<cls, stage, item, locals>>
    BY <1>4
  <2>2. Params' = Params /\ Here("local")' = Here("local") /\ Here("param")' = Here("param")
    BY <1>4, <2>1 DEF Params, Here
  <2>. QED BY <2>1, <2>2 DEF Bindings
<1>5. \A c \in Class' : \A n \in Name : Collected(c, n)' =>
        variable_map'[n] = FieldOf(c)' \/ After(variable_map[n], FieldOf(c))'
  BY <1>1, <1>2, <1>3 DEF Bindings, After
<1>. QED BY <1>4, <1>5 DEF Bindings

-----------------------------------------------------------------------------
(* Where the walk is, and how long the vectors are. *)

Where == <<program, cls, stage, item, built>>

LEMMA SamePlace ==
  ASSUME Positions, Vectors, UNCHANGED Where, step' = step
  PROVE  Positions' /\ Vectors'
<1>1. Class' = Class
  BY DEF Where, Class
<1>. QED BY <1>1 DEF Where, Positions, Vectors

LEMMA SuperPlace ==
  ASSUME Positions, Vectors, UNCHANGED Where, step = "super", step' = "body"
  PROVE  Positions' /\ Vectors'
<1>1. Class' = Class
  BY DEF Where, Class
<1>. QED BY <1>1 DEF Where, Positions, Vectors

LEMMA CrashPlace ==
  ASSUME Positions, Vectors, UNCHANGED <<program, cls, item, built>>,
         stage' = "crashed", step' = "idle"
  PROVE  Positions' /\ Vectors'
<1>1. Class' = Class
  BY DEF Class
<1>. QED BY <1>1 DEF Positions, Vectors, Kinds

LEMMA BeginClassPlace ==
  ASSUME Positions, Vectors, BeginClass
  PROVE  Positions' /\ Vectors' /\ \A c \in Class : built'[c].fields = built[c].fields
<1>0. /\ Class' = Class /\ program' = program /\ cls' = cls /\ cls \in Class
      /\ stage = "class" /\ stage' = "fields" /\ item' = 1
      /\ step' = step
      /\ built' = [built EXCEPT ![cls].methods = Len(program[cls].methods)]
  BY DEF BeginClass, Class
<1>1. /\ Len(program[cls].methods) \in Nat /\ Len(program[cls].fields) \in Nat
      /\ \A c \in Class : c \in Nat
  BY <1>0, ProgramFacts DEF Positions
<1>2. Positions'
  BY <1>0, <1>1 DEF Positions, Kinds
<1>3. /\ built' \in [Class -> Vector]
      /\ \A c \in Class : c # cls => built'[c] = built[c]
      /\ built'[cls].methods = Len(program[cls].methods)
      /\ built'[cls].fields = built[cls].fields /\ built'[cls].ctors = built[cls].ctors
  BY <1>0, <1>1 DEF Vectors, Vector
<1>4. Vectors'
  BY <1>0, <1>1, <1>3 DEF Vectors, Kinds
<1>. QED BY <1>2, <1>3, <1>4

LEMMA DeclareFieldPlace ==
  ASSUME Positions, Vectors, DeclareField
  PROVE  /\ Positions' /\ Vectors'
         /\ \A c \in Class : c # cls => built'[c] = built[c]
         /\ built'[cls].fields = built[cls].fields + 1
<1>0. /\ Class' = Class /\ program' = program /\ cls' = cls /\ cls \in Class
      /\ stage = "fields" /\ stage' = "fields" /\ item' = item + 1
      /\ step = "idle" /\ step' = step
      /\ item <= Len(program[cls].fields)
      /\ built' = [built EXCEPT ![cls].fields = @ + 1]
  BY DEF DeclareField, AtMember, Class, Positions, Kinds
<1>1. /\ Len(program[cls].fields) \in Nat /\ item \in Nat \ {0}
      /\ \A c \in Class : c \in Nat
  BY <1>0, ProgramFacts DEF Positions
<1>2. Positions'
  BY <1>0, <1>1 DEF Positions, Kinds
<1>3. /\ built' \in [Class -> Vector]
      /\ \A c \in Class : c # cls => built'[c] = built[c]
      /\ built'[cls].fields = built[cls].fields + 1
      /\ built'[cls].methods = built[cls].methods /\ built'[cls].ctors = built[cls].ctors
  <2>1. built \in [Class -> Vector]
    BY DEF Vectors
  <2>. QED BY <1>0, <2>1 DEF Vector
<1>4. Vectors'
  BY <1>0, <1>1, <1>3 DEF Vectors, Kinds
<1>. QED BY <1>2, <1>3, <1>4

LEMMA EnterFunctionPlace ==
  ASSUME Positions, Vectors, NEW s \in {"ctors", "methods"}, EnterFunction(s)
  PROVE  Positions' /\ Vectors'
<1>0. /\ Class' = Class /\ UNCHANGED Where /\ stage = s /\ item <= Len(program[cls][s])
      /\ step' = IF s = "ctors" /\ program[cls].base # 0 THEN "super" ELSE "body"
  BY DEF EnterFunction, AtMember, Class, Where
<1>1. Positions'
  BY <1>0 DEF Positions, Kinds, Where
<1>. QED BY <1>0, <1>1 DEF Vectors, Where

LEMMA LeaveFunctionPlace ==
  ASSUME Positions, Vectors, LeaveFunction
  PROVE  Positions' /\ Vectors' /\ \A c \in Class : built'[c].fields = built[c].fields
<1>0. /\ Class' = Class /\ program' = program /\ cls' = cls /\ cls \in Class
      /\ stage \in {"ctors", "methods"} /\ stage' = stage /\ item' = item + 1
      /\ step' = "idle" /\ item <= Len(program[cls][stage])
      /\ built' = IF stage = "ctors" THEN [built EXCEPT ![cls].ctors = @ + 1] ELSE built
  BY DEF LeaveFunction, Class, Positions, Kinds
<1>1. /\ Len(program[cls].ctors) \in Nat /\ Len(program[cls].methods) \in Nat
      /\ item \in Nat \ {0} /\ \A c \in Class : c \in Nat
  BY <1>0, ProgramFacts DEF Positions
<1>2. Positions'
  BY <1>0, <1>1 DEF Positions, Kinds
<1>3. /\ built' \in [Class -> Vector]
      /\ \A c \in Class : c # cls => built'[c] = built[c]
      /\ built'[cls].ctors = IF stage = "ctors" THEN built[cls].ctors + 1 ELSE built[cls].ctors
      /\ built'[cls].methods = built[cls].methods /\ built'[cls].fields = built[cls].fields
  BY <1>0, <1>1 DEF Vectors, Vector
<1>4. Vectors'
  BY <1>0, <1>1, <1>3 DEF Vectors, Kinds
<1>. QED BY <1>2, <1>3, <1>4

LEMMA NextKindPlace ==
  ASSUME Positions, Vectors, NextKind
  PROVE  Positions' /\ Vectors' /\ built' = built
<1>0. /\ Class' = Class /\ program' = program /\ cls' = cls /\ cls \in Class
      /\ stage \in {"fields", "ctors"} /\ item' = 1 /\ built' = built
      /\ stage' = IF stage = "fields" THEN "ctors" ELSE "methods"
      /\ step = "idle" /\ step' = "idle"
      /\ item > Len(program[cls][stage]) /\ item <= Len(program[cls][stage]) + 1
  BY DEF NextKind, Class, Positions, Kinds
<1>1. /\ Len(program[cls].ctors) \in Nat /\ Len(program[cls].methods) \in Nat
      /\ item \in Nat \ {0} /\ \A c \in Class : c \in Nat
  BY <1>0, ProgramFacts DEF Positions
<1>2. Positions'
  BY <1>0, <1>1 DEF Positions, Kinds
<1>3. stage = "ctors" => item - 1 = Len(program[cls].ctors)
  BY <1>0, <1>1
<1>4. Vectors'
  BY <1>0, <1>1, <1>3 DEF Vectors, Kinds
<1>. QED BY <1>0, <1>2, <1>4

LEMMA NextClassPlace ==
  ASSUME Positions, Vectors, NextClass
  PROVE  Positions' /\ Vectors' /\ built' = built
<1>0. /\ Class' = Class /\ program' = program /\ cls' = cls + 1 /\ cls \in Class
      /\ stage = "methods" /\ item' = 1 /\ built' = built /\ stage' = "class"
      /\ step = "idle" /\ step' = "idle"
  BY DEF NextClass, Class, Positions, Kinds
<1>1. Len(program) \in Nat /\ \A c \in Class : c \in Nat
  BY <1>0, ProgramFacts DEF Positions
<1>2. cls + 1 \in 1..Len(program) + 1
  BY <1>0, <1>1 DEF Class
<1>3. Positions'
  BY <1>0, <1>2 DEF Positions, Kinds
<1>4. Vectors'
  BY <1>0, <1>1 DEF Vectors, Kinds
<1>. QED BY <1>0, <1>3, <1>4

-----------------------------------------------------------------------------
(* What names are bound to. *)

\* A step that binds names: every field that has been collected, before or now, is
\* still bound to itself or to something later.
LEMMA Rebound ==
  ASSUME Bindings, program' = program, variable_map' \in [Name -> Binding],
         \A c \in Class : \A n \in Name :
           /\ Collected(c, n)
           /\ variable_map'[n] # variable_map[n]
           => variable_map'[n] = FieldOf(c) \/ After(variable_map'[n], FieldOf(c)),
         \A c \in Class : \A n \in Name :
           Collected(c, n)' => Collected(c, n) \/ variable_map'[n] = FieldOf(c),
         step' = "idle" => locals' = {},
         step' # "idle" =>
           /\ \A n \in locals' : n \in Name => variable_map'[n] = Here("local")'
           /\ \A n \in Params' \ locals' : n \in Name => variable_map'[n] = Here("param")'
  PROVE  Bindings'
<1>1. Class' = Class
  BY DEF Class
<1>2. \A c : FieldOf(c)' = FieldOf(c)
  BY DEF FieldOf
<1>3. ASSUME NEW c \in Class, NEW n \in Name, Collected(c, n)'
      PROVE  variable_map'[n] = FieldOf(c) \/ After(variable_map'[n], FieldOf(c))
  <2>1. CASE Collected(c, n) /\ variable_map'[n] = variable_map[n]
    BY <2>1 DEF Bindings
  <2>2. CASE Collected(c, n) /\ variable_map'[n] # variable_map[n]
    BY <2>2
  <2>. QED BY <1>3, <2>1, <2>2
<1>4. \A c \in Class' : \A n \in Name : Collected(c, n)' =>
        variable_map'[n] = FieldOf(c)' \/ After(variable_map[n], FieldOf(c))'
  BY <1>1, <1>2, <1>3 DEF After
<1>. QED BY <1>4 DEF Bindings

LEMMA DeclareFieldBindings ==
  ASSUME Positions, Vectors, Bindings, DeclareField
  PROVE  Bindings'
<1> DEFINE f == program[cls].fields[item]
<1>0. /\ program' = program /\ cls \in Class /\ step' = "idle" /\ locals' = {}
      /\ variable_map' = [variable_map EXCEPT ![f] = FieldOf(cls)]
      /\ item \in 1..Len(program[cls].fields)
      /\ built[cls].fields + 1 = built'[cls].fields
      /\ \A c \in Class : c # cls => built'[c] = built[c]
  BY DeclareFieldPlace, ProgramFacts DEF DeclareField, AtMember, Positions, Kinds, Bindings
<1>1. f \in Name /\ cls \in Nat /\ \A c \in Class : c \in Nat
  BY <1>0, ProgramFacts DEF Positions
<1>2. variable_map' \in [Name -> Binding]
  BY <1>0, <1>1, FieldOfTyped DEF Bindings
<1>3. /\ variable_map'[f] = FieldOf(cls)
      /\ \A n \in Name : n # f => variable_map'[n] = variable_map[n]
  BY <1>0, <1>1 DEF Bindings
<1>4. ASSUME NEW c \in Class, NEW n \in Name, Collected(c, n),
             variable_map'[n] # variable_map[n]
      PROVE  variable_map'[n] = FieldOf(c) \/ After(variable_map'[n], FieldOf(c))
  <2>1. n = f
    BY <1>3, <1>4
  <2>2. c <= cls
    <3>1. built[c].fields # 0
      BY <1>4 DEF Collected
    <3>. QED BY <1>1, <3>1 DEF Vectors
  <2>3. CASE c = cls
    BY <1>3, <2>1, <2>3
  <2>4. CASE c # cls
    <3>1. cls > c
      BY <1>1, <2>2, <2>4
    <3>. QED BY <1>1, <1>3, <2>1, <3>1, FieldOfTyped DEF After
  <2>. QED BY <2>3, <2>4
<1>5. ASSUME NEW c \in Class, NEW n \in Name, Collected(c, n)'
      PROVE  Collected(c, n) \/ variable_map'[n] = FieldOf(c)
  <2>1. PICK k \in 1..built'[c].fields : program[c].fields[k] = n
    BY <1>0, <1>5 DEF Collected
  <2>2. CASE c # cls
    BY <1>0, <2>1, <2>2 DEF Collected
  <2>3. CASE c = cls
    <3>1. built[cls].fields \in Nat
      BY <1>0 DEF Vectors, Vector
    <3>2. k \in 1..built[cls].fields \/ k = built[cls].fields + 1
      BY <1>0, <2>1, <2>3, <3>1
    <3>3. CASE k \in 1..built[cls].fields
      BY <2>1, <2>3, <3>3 DEF Collected
    <3>4. CASE k = built[cls].fields + 1
      <4>1. k = item
        BY <3>4, <1>0 DEF Vectors, DeclareField, AtMember
      <4>. QED BY <1>3, <2>1, <2>3, <4>1
    <3>. QED BY <3>2, <3>3, <3>4
  <2>. QED BY <2>2, <2>3
<1>. QED BY <1>0, <1>2, <1>4, <1>5, Rebound

LEMMA EnterFunctionBindings ==
  ASSUME Positions, Vectors, Bindings, NEW s \in {"ctors", "methods"}, EnterFunction(s)
  PROVE  Bindings'
<1>0. /\ program' = program /\ UNCHANGED <<cls, stage, item, built>> /\ locals' = {}
      /\ step' # "idle" /\ stage = s /\ item <= Len(program[cls][s])
      /\ variable_map' = [n \in Name |->
           IF n \in program[cls][s][item] THEN Here("param") ELSE variable_map[n]]
  BY DEF EnterFunction, AtMember
<1>1. Here("param") \in Binding
  BY <1>0, HereTyped DEF Kinds, Target
<1>2. variable_map' \in [Name -> Binding]
  BY <1>0, <1>1 DEF Bindings
<1>3. \A c \in Class : \A n \in Name :
        Collected(c, n) /\ variable_map'[n] # variable_map[n]
          => After(variable_map'[n], FieldOf(c))
  BY <1>0, InsideIsLater DEF Target
<1>4. \A c, n : Collected(c, n)' <=> Collected(c, n)
  BY <1>0 DEF Collected, Class
<1>5. Here("param")' = Here("param") /\ Params' = program[cls][s][item]
  BY <1>0 DEF Here, Params
<1>6. \A n \in Params' \ locals' : n \in Name => variable_map'[n] = Here("param")'
  BY <1>0, <1>5
<1>7. \A n \in locals' : n \in Name => variable_map'[n] = Here("local")'
  BY <1>0
<1>. QED BY <1>0, <1>2, <1>3, <1>4, <1>6, <1>7, Rebound, Zenon

LEMMA DeclareLocalBindings ==
  ASSUME Positions, Vectors, Bindings, NEW n \in Name, DeclareLocal(n)
  PROVE  Bindings'
<1>0. /\ program' = program /\ UNCHANGED <<cls, stage, item, built, step>>
      /\ locals' = locals \cup {n} /\ step = "body" /\ n \notin Params
      /\ variable_map' = [variable_map EXCEPT ![n] = Here("local")]
      /\ stage \in {"ctors", "methods"}
  BY DEF DeclareLocal, Event, Visible, Positions
<1>1. Here("local") \in Binding
  BY <1>0, HereTyped DEF Kinds, Target
<1>2. /\ variable_map' \in [Name -> Binding] /\ variable_map'[n] = Here("local")
      /\ \A m \in Name : m # n => variable_map'[m] = variable_map[m]
  BY <1>0, <1>1 DEF Bindings
<1>3. \A c \in Class : \A m \in Name :
        Collected(c, m) /\ variable_map'[m] # variable_map[m]
          => After(variable_map'[m], FieldOf(c))
  BY <1>0, <1>2, InsideIsLater DEF Target
<1>4. \A c, m : Collected(c, m)' <=> Collected(c, m)
  BY <1>0 DEF Collected, Class
<1>5. /\ Here("param")' = Here("param") /\ Here("local")' = Here("local")
      /\ Params' = Params
  BY <1>0 DEF Here, Params
<1>6. \A m \in Params' \ locals' : m \in Name => variable_map'[m] = Here("param")'
  BY <1>0, <1>2, <1>5 DEF Bindings
<1>7. \A m \in locals' : m \in Name => variable_map'[m] = Here("local")'
  BY <1>0, <1>2, <1>5 DEF Bindings
<1>. QED BY <1>0, <1>2, <1>3, <1>4, <1>6, <1>7, Rebound, Zenon

-----------------------------------------------------------------------------
(* The pointers.  Only Read, New, Call and Super make one that Bound is about. *)

LEMMA ReadBinds ==
  ASSUME Positions, Bindings, NEW n \in Name, Read(n)
  PROVE  Bound'
<1>0. /\ UNCHANGED <<program, cls, stage, item, built, step, locals, variable_map>>
      /\ n \in Visible
      /\ last' = Pointer("read", cls, n, variable_map[n], Meant(n))
  BY DEF Read, Event
<1>1. /\ last'.use = "read" /\ last'.name = n
      /\ last'.bound = variable_map[n] /\ last'.meant = Meant(n)
  BY <1>0 DEF Pointer
<1>2. CASE n \in locals /\ step # "idle"
  <2>1. Meant(n) = Here("local") /\ variable_map[n] = Here("local")
    BY <1>2 DEF Meant, Bindings
  <2>. QED BY <1>1, <2>1 DEF Bound, OwnVariablesBind, FieldsMisbindOnlyToLaterNames,
                             EarlierFunctionsResolve
<1>3. CASE n \in Params \ locals
  <2>1. step # "idle"
    BY <1>3 DEF Params
  <2>2. Meant(n) = Here("param") /\ variable_map[n] = Here("param")
    BY <1>3, <2>1 DEF Meant, Bindings
  <2>. QED BY <1>1, <2>2 DEF Bound, OwnVariablesBind, FieldsMisbindOnlyToLaterNames,
                             EarlierFunctionsResolve
<1>4. CASE n \notin Params \cup locals
  <2>1. PICK c : c = Max(Declarers(cls, n))
    OBVIOUS
  <2>2. Meant(n) = FieldOf(c)
    BY <1>4, <2>1 DEF Meant
  <2>3. FieldOf(c).kind = "field" /\ FieldOf(c).cls = c
    BY DEF FieldOf
  <2>4. OwnVariablesBind' /\ EarlierFunctionsResolve'
    BY <1>1, <2>2, <2>3 DEF OwnVariablesBind, EarlierFunctionsResolve
  <2>5. ASSUME Collected(c, n)'
        PROVE  variable_map[n] = FieldOf(c) \/ After(variable_map[n], FieldOf(c))
    <3>1. c \in Class /\ Collected(c, n)
      BY <1>0, <2>5 DEF Collected, Class
    <3>. QED BY <3>1 DEF Bindings
  <2>6. FieldsMisbindOnlyToLaterNames'
    BY <1>1, <2>2, <2>3, <2>5 DEF FieldsMisbindOnlyToLaterNames, After
  <2>. QED BY <2>4, <2>6 DEF Bound
<1>5. step = "idle" => locals = {}
  BY DEF Bindings
<1>. QED BY <1>2, <1>3, <1>4, <1>5

\* Members and assignments are not what Bound is about.
LEMMA OtherUse ==
  ASSUME last'.use \in {"member", "assign"}
  PROVE  Bound'
BY DEF Bound, OwnVariablesBind, FieldsMisbindOnlyToLaterNames, EarlierFunctionsResolve

\* A function that is found where the symbol table says.
LEMMA Resolved ==
  ASSUME last'.use \in {"new", "call", "super"}, last'.bound = last'.meant
  PROVE  Bound'
BY DEF Bound, OwnVariablesBind, FieldsMisbindOnlyToLaterNames, EarlierFunctionsResolve

LEMMA NewBinds ==
  ASSUME Positions, Vectors, NEW c \in Class, NEW k \in 1..Len(program[c].ctors), New(c, k)
  PROVE  Bound'
<1>0. /\ UNCHANGED <<program, cls, stage, item, built>>
      /\ stage \in Kinds
      /\ last' = Pointer("new", c, NoName, At(c, "ctors", k), Function(c, "ctors", k))
  BY DEF New, Event, AtMember, Positions, Kinds
<1>1. /\ last'.use = "new" /\ last'.bound = At(c, "ctors", k)
      /\ last'.meant = Function(c, "ctors", k)
  BY <1>0 DEF Pointer
<1>2. last'.meant.cls = c /\ last'.meant.item = k
  BY <1>1 DEF Function
<1>3. /\ c \in Nat /\ cls \in Nat /\ item \in Nat /\ k \in Nat
      /\ Len(program[c].ctors) \in Nat /\ k <= Len(program[c].ctors)
      /\ built[c].ctors \in Nat
  BY ProgramFacts DEF Positions, Vectors, Vector
<1>4. CASE k <= built[c].ctors
  BY <1>1, <1>4, Resolved DEF At
<1>5. CASE ~(k <= built[c].ctors)
  <2>1. \/ c > cls
        \/ c = cls /\ (stage = "fields" \/ (stage = "ctors" /\ k >= item))
    BY <1>0, <1>3, <1>5 DEF Vectors, Kinds
  <2>2. EarlierFunctionsResolve'
    BY <1>0, <1>1, <1>2, <2>1 DEF EarlierFunctionsResolve
  <2>. QED BY <1>1, <2>2 DEF Bound, OwnVariablesBind, FieldsMisbindOnlyToLaterNames
<1>. QED BY <1>4, <1>5

LEMMA CallBinds ==
  ASSUME Positions, Vectors, NEW c \in Class, NEW k \in 1..Len(program[c].methods), Call(c, k)
  PROVE  Bound'
<1>0. /\ UNCHANGED <<program, cls, stage, item, built>>
      /\ stage \in Kinds
      /\ last' = Pointer("call", c, NoName, At(c, "methods", k), Function(c, "methods", k))
  BY DEF Call, Event, AtMember, Positions, Kinds
<1>1. /\ last'.use = "call" /\ last'.bound = At(c, "methods", k)
      /\ last'.meant = Function(c, "methods", k)
  BY <1>0 DEF Pointer
<1>2. last'.meant.cls = c
  BY <1>1 DEF Function
<1>3. /\ c \in Nat /\ cls \in Nat /\ k \in Nat
      /\ Len(program[c].methods) \in Nat /\ k <= Len(program[c].methods)
  BY ProgramFacts DEF Positions
<1>4. CASE c <= cls
  <2>1. built[c].methods = Len(program[c].methods)
    BY <1>0, <1>3, <1>4 DEF Vectors
  <2>. QED BY <1>1, <1>3, <2>1, Resolved DEF At
<1>5. CASE c > cls
  <2>1. EarlierFunctionsResolve'
    BY <1>0, <1>1, <1>2, <1>5 DEF EarlierFunctionsResolve
  <2>. QED BY <1>1, <2>1 DEF Bound, OwnVariablesBind, FieldsMisbindOnlyToLaterNames
<1>. QED BY <1>3, <1>4, <1>5

LEMMA SuperBinds ==
  ASSUME Positions, Vectors, step = "super",
         NEW k \in 1..Len(program[program[cls].base].ctors), Super(k)
  PROVE  Bound'
<1>1. PICK b : b = program[cls].base
  OBVIOUS
<1>2. /\ cls \in Class /\ b # 0 /\ cls \in Nat
  BY <1>1, ProgramFacts DEF Positions, Kinds
<1>3. b \in Class /\ b < cls
  BY <1>1, <1>2, ProgramFacts DEF Class, Positions
<1>4. /\ last'.use = "super" /\ last'.bound = At(b, "ctors", k)
      /\ last'.meant = Function(b, "ctors", k)
  BY <1>1 DEF Super, Pointer
<1>5. built[b].ctors = Len(program[b].ctors) /\ Len(program[b].ctors) \in Nat
  BY <1>3, ProgramFacts DEF Vectors, Positions
<1>6. k <= built[b].ctors
  BY <1>1, <1>5
<1>. QED BY <1>4, <1>6, Resolved DEF At

-----------------------------------------------------------------------------

LEMMA StepIInv == IInv /\ [Next]_vars => IInv'
<1> SUFFICES ASSUME IInv, [Next]_vars PROVE IInv'
  OBVIOUS
<1>0. Positions /\ Vectors /\ Bindings /\ Bound
  BY DEF IInv
<1>1. CASE BeginClass
  <2>1. Positions' /\ Vectors' /\ \A c \in Class : built'[c].fields = built[c].fields
    BY <1>0, <1>1, BeginClassPlace
  <2>2. Bindings'
    <3>1. step = "idle"
      BY <1>0, <1>1 DEF Positions, BeginClass, Kinds
    <3>. QED BY <1>0, <1>1, <2>1, <3>1, BindingsKept DEF BeginClass, Bindings
  <2>. QED BY <1>1, <2>1, <2>2, NothingBound DEF IInv, BeginClass
<1>2. CASE DeclareField
  BY <1>0, <1>2, DeclareFieldPlace, DeclareFieldBindings, NothingBound DEF IInv, DeclareField
<1>3. CASE NextKind
  <2>1. Positions' /\ Vectors' /\ built' = built
    BY <1>0, <1>3, NextKindPlace
  <2>2. Bindings'
    BY <1>0, <1>3, <2>1, BindingsKept DEF NextKind, Bindings
  <2>. QED BY <1>3, <2>1, <2>2, NothingBound DEF IInv, NextKind
<1>4. CASE NextClass
  <2>1. Positions' /\ Vectors' /\ built' = built
    BY <1>0, <1>4, NextClassPlace
  <2>2. Bindings'
    BY <1>0, <1>4, <2>1, BindingsKept DEF NextClass, Bindings
  <2>. QED BY <1>4, <2>1, <2>2, NothingBound DEF IInv, NextClass
<1>5. ASSUME NEW s \in {"ctors", "methods"}, EnterFunction(s)
      PROVE  IInv'
  BY <1>0, <1>5, EnterFunctionPlace, EnterFunctionBindings, NothingBound
     DEF IInv, EnterFunction
<1>6. CASE LeaveFunction
  <2>1. Positions' /\ Vectors' /\ \A c \in Class : built'[c].fields = built[c].fields
    BY <1>0, <1>6, LeaveFunctionPlace
  <2>2. Bindings'
    BY <1>0, <1>6, <2>1, BindingsKept DEF LeaveFunction
  <2>. QED BY <1>6, <2>1, <2>2, NothingBound DEF IInv, LeaveFunction
<1>7. ASSUME NEW n \in Name, DeclareLocal(n)
      PROVE  IInv'
  <2>1. Positions' /\ Vectors'
    BY <1>0, <1>7, SamePlace DEF DeclareLocal, Event, Where
  <2>. QED BY <1>0, <1>7, <2>1, DeclareLocalBindings, NothingBound DEF IInv, DeclareLocal
<1>8. ASSUME NEW n \in Name, Read(n)
      PROVE  IInv'
  <2>1. Positions' /\ Vectors'
    BY <1>0, <1>8, SamePlace DEF Read, Event, Where
  <2>2. Bindings'
    BY <1>0, <1>8, BindingsKept DEF Read, Event, Bindings
  <2>. QED BY <1>0, <1>8, <2>1, <2>2, ReadBinds DEF IInv
<1>9. ASSUME NEW n \in Name, Assign(n)
      PROVE  IInv'
  <2>1. Positions' /\ Vectors'
    BY <1>0, <1>9, SamePlace DEF Assign, Event, Where
  <2>2. Bindings'
    BY <1>0, <1>9, BindingsKept DEF Assign, Event, Bindings
  <2>3. last'.use = "assign"
    BY <1>9 DEF Assign, Pointer
  <2>. QED BY <2>1, <2>2, <2>3, OtherUse DEF IInv
<1>10. ASSUME NEW c \in Class, NEW n \in Name, Member(c, n)
       PROVE  IInv'
  <2>1. Positions' /\ Vectors'
    BY <1>0, <1>10, SamePlace DEF Member, Event, Where
  <2>2. Bindings'
    BY <1>0, <1>10, BindingsKept DEF Member, Event, Bindings
  <2>3. last'.use = "member"
    BY <1>10 DEF Member, Pointer
  <2>. QED BY <2>1, <2>2, <2>3, OtherUse DEF IInv
<1>11. ASSUME NEW c \in Class, NEW k \in 1..Len(program[c].ctors), New(c, k)
       PROVE  IInv'
  <2>1. Positions' /\ Vectors'
    BY <1>0, <1>11, SamePlace DEF New, Event, Where
  <2>2. Bindings'
    BY <1>0, <1>11, BindingsKept DEF New, Event, Bindings
  <2>. QED BY <1>0, <1>11, <2>1, <2>2, NewBinds DEF IInv
<1>12. ASSUME NEW c \in Class, NEW k \in 1..Len(program[c].methods), Call(c, k)
       PROVE  IInv'
  <2>1. Positions' /\ Vectors'
    BY <1>0, <1>12, SamePlace DEF Call, Event, Where
  <2>2. Bindings'
    BY <1>0, <1>12, BindingsKept DEF Call, Event, Bindings
  <2>. QED BY <1>0, <1>12, <2>1, <2>2, CallBinds DEF IInv
<1>13. ASSUME step = "super", NEW k \in 1..Len(program[program[cls].base].ctors), Super(k)
       PROVE  IInv'
  <2>1. Positions' /\ Vectors'
    BY <1>0, <1>13, SuperPlace DEF Super, Where
  <2>2. Bindings'
    BY <1>0, <1>13, BindingsKept DEF Super
  <2>. QED BY <1>0, <1>13, <2>1, <2>2, SuperBinds DEF IInv
<1>14. CASE Crash
  <2>1. Positions' /\ Vectors'
    BY <1>0, <1>14, CrashPlace DEF Crash
  <2>2. Bindings'
    BY <1>0, <1>14, BindingsKept DEF Crash
  <2>. QED BY <1>14, <2>1, <2>2, NothingBound DEF IInv, Crash
<1>15. CASE Terminate
  <2>1. Positions' /\ Vectors'
    BY <1>0, <1>15, CrashPlace DEF Terminate
  <2>2. Bindings'
    BY <1>0, <1>15, BindingsKept DEF Terminate
  <2>. QED BY <1>15, <2>1, <2>2, NothingBound DEF IInv, Terminate
<1>16. CASE UNCHANGED vars
  <2>1. Positions' /\ Vectors'
    BY <1>0, <1>16, SamePlace DEF vars, Where
  <2>2. Bindings'
    BY <1>0, <1>16, BindingsKept DEF vars, Bindings
  <2>3. Bound'
    BY <1>0, <1>16 DEF vars, Bound, OwnVariablesBind, FieldsMisbindOnlyToLaterNames,
                       EarlierFunctionsResolve, Collected, Class, After
  <2>. QED BY <2>1, <2>2, <2>3 DEF IInv
<1>. QED BY <1>1, <1>2, <1>3, <1>4, <1>5, <1>6, <1>7, <1>8, <1>9, <1>10, <1>11, <1>12,
            <1>13, <1>14, <1>15, <1>16 DEF Next

LEMMA IInvHolds == Spec => []IInv
BY InitIInv, StepIInv, PTL DEF Spec

(***************************************************************************)
(* In every program, a name that stands for a local or a parameter of the  *)
(* function it occurs in is bound to it: whatever else variable_map has    *)
(* been given under that name, the function has overwritten it             *)
(* (codegen-ast-collector.cpp, the walks of parameters, variable           *)
(* declarations and identifiers).                                          *)
(***************************************************************************)
THEOREM OwnVariables == Spec => []OwnVariablesBind
<1>1. IInv => OwnVariablesBind
  BY DEF IInv, Bound
<1>. QED BY <1>1, IInvHolds, PTL

(***************************************************************************)
(* In every program, a name that stands for a field which has been         *)
(* collected is bound to that field, or to a declaration of the same name  *)
(* that the walk met later: entries of variable_map are never removed and  *)
(* never go back.                                                          *)
(***************************************************************************)
THEOREM FieldsMisbind == Spec => []FieldsMisbindOnlyToLaterNames
<1>1. IInv => FieldsMisbindOnlyToLaterNames
  BY DEF IInv, Bound
<1>. QED BY <1>1, IInvHolds, PTL

(***************************************************************************)
(* In every program, the position that the symbol table gives for a        *)
(* constructor or method leads the collector to it, but for constructors   *)
(* that are not collected yet and classes that come later; a super call is *)
(* never among these.                                                      *)
(***************************************************************************)
THEOREM FunctionsResolve == Spec => []EarlierFunctionsResolve
<1>1. IInv => EarlierFunctionsResolve
  BY DEF IInv, Bound
<1>. QED BY <1>1, IInvHolds, PTL
-----------------------------------------------------------------------------
(* The classes upward of a class.  That the recursion defines a function,  *)
(* and what it yields, is shown by the least class it would fail for.      *)

LEMMA LeastClass ==
  ASSUME NEW S \in SUBSET Nat, S # {}
  PROVE  \E n \in S : \A k \in S : n <= k
<1>1. PICK n \in S : \A k \in S : <<k, n>> \notin OpToRel(<, Nat)
  BY NatLessThanWellFounded, WFMin
<1>2. n \in Nat /\ \A k \in S : k \in Nat /\ ~(k < n)
  BY <1>1 DEF OpToRel
<1>. QED BY <1>2

Up(f, links, n) ==
  f = [c \in 1..n |->
         {c} \cup IF c \notin links \/ program[c].base = 0 THEN {} ELSE f[program[c].base]]

LEMMA UpwardExists ==
  ASSUME program \in Programs, NEW links
  PROVE  \E f : Up(f, links, Len(program))
<1> DEFINE S == {n \in 0..Len(program) : ~\E f : Up(f, links, n)}
<1>1. Len(program) \in Nat /\ \A c \in 1..Len(program) : program[c].base \in 0..c - 1
  BY ProgramFacts DEF Class
<1>2. ASSUME S # {} PROVE FALSE
  <2>1. PICK n \in S : \A k \in S : n <= k
    <3>1. S \in SUBSET Nat
      OBVIOUS
    <3>. HIDE DEF S
    <3>. QED BY <1>2, <3>1, LeastClass
  <2>2. n \in 0..Len(program) /\ ~\E f : Up(f, links, n)
    OBVIOUS
  <2>3. CASE n = 0
    <3> DEFINE f == [c \in 1..0 |-> {}]
    <3>1. 1..0 = {}
      OBVIOUS
    <3>2. f = [c \in 1..0 |->
                 {c} \cup IF c \notin links \/ program[c].base = 0 THEN {} ELSE f[program[c].base]]
      BY <3>1
    <3>. QED BY <2>2, <2>3, <3>2 DEF Up
  <2>4. CASE n > 0
    <3>1. n - 1 \in 0..Len(program) /\ n - 1 \notin S
      BY <1>1, <2>1, <2>2, <2>4
    <3>2. PICK f : Up(f, links, n - 1)
      BY <3>1
    <3> DEFINE g == [c \in 1..n |->
                 IF c # n THEN f[c]
                 ELSE {c} \cup IF c \notin links \/ program[c].base = 0 THEN {} ELSE f[program[c].base]]
    <3>3. ASSUME NEW c \in 1..n
          PROVE  g[c] = {c} \cup IF c \notin links \/ program[c].base = 0 THEN {} ELSE g[program[c].base]
      <4>1. program[c].base # 0 => program[c].base \in 1..n - 1 /\ program[c].base \in 1..n
        BY <1>1, <2>2
      <4>2. program[c].base # 0 => g[program[c].base] = f[program[c].base]
        BY <2>2, <4>1
      <4>3. CASE c = n
        BY <4>2, <4>3
      <4>4. CASE c # n
        <5>1. c \in 1..n - 1 /\ g[c] = f[c]
          BY <2>2, <4>4
        <5>2. f[c] = {c} \cup IF c \notin links \/ program[c].base = 0 THEN {} ELSE f[program[c].base]
          BY <3>2, <5>1 DEF Up
        <5>. QED BY <4>2, <5>1, <5>2
      <4>. QED BY <4>3, <4>4
    <3>4. g = [c \in 1..n |->
                 {c} \cup IF c \notin links \/ program[c].base = 0 THEN {} ELSE g[program[c].base]]
      BY <3>3
    <3>. QED BY <2>2, <3>4 DEF Up
  <2>. QED BY <1>1, <2>2, <2>3, <2>4
<1>3. Len(program) \in 0..Len(program) /\ Len(program) \notin S
  BY <1>1, <1>2
<1>. QED BY <1>3

LEMMA UpwardDef ==
  ASSUME program \in Programs, NEW links, NEW c \in Class
  PROVE  Upward(links)[c] =
           {c} \cup IF c \notin links \/ program[c].base = 0 THEN {}
                    ELSE Upward(links)[program[c].base]
<1>1. Upward(links) = CHOOSE f : Up(f, links, Len(program))
  BY DEF Upward, Up, Class
<1>2. Up(Upward(links), links, Len(program))
  BY <1>1, UpwardExists
<1>. QED BY <1>2 DEF Up, Class

\* A class is upward of itself, and the others are earlier classes.
LEMMA UpwardEarlier ==
  ASSUME program \in Programs, NEW links, NEW c \in Class
  PROVE  c \in Upward(links)[c] /\ Upward(links)[c] \subseteq 1..c
<1> DEFINE S == {n \in Class : ~(Upward(links)[n] \subseteq 1..n)}
<1>1. \A n \in Class : n \in Nat /\ n # 0 /\ program[n].base \in 0..n - 1
  BY ProgramFacts DEF Class
<1>2. ASSUME S # {} PROVE FALSE
  <2>1. PICK n \in S : \A k \in S : n <= k
    <3>1. S \in SUBSET Nat
      BY <1>1
    <3>. HIDE DEF S
    <3>. QED BY <1>2, <3>1, LeastClass
  <2>2. n \in Class /\ ~(Upward(links)[n] \subseteq 1..n)
    OBVIOUS
  <2>3. CASE n \notin links \/ program[n].base = 0
    BY <1>1, <2>2, <2>3, UpwardDef
  <2>4. CASE ~(n \notin links \/ program[n].base = 0)
    <3>1. program[n].base \in Class /\ program[n].base < n
      BY <1>1, <2>2, <2>4, ProgramFacts DEF Class
    <3>2. program[n].base \notin S
      BY <1>1, <2>1, <2>2, <3>1
    <3>3. Upward(links)[program[n].base] \subseteq 1..program[n].base
      BY <3>1, <3>2
    <3>4. Upward(links)[n] = {n} \cup Upward(links)[program[n].base]
      BY <2>2, <2>4, UpwardDef
    <3>. QED BY <1>1, <2>2, <3>1, <3>3, <3>4
  <2>. QED BY <2>3, <2>4
<1>3. c \notin S
  BY <1>2
<1>. QED BY <1>3, UpwardDef

\* As long as the classes are linked in order, a linked class has all its bases.
LEMMA LinkedUpward ==
  ASSUME program \in Programs, NEW links \in SUBSET Class, NEW c \in links,
         \A a \in links : \A b \in Class : b < a => b \in links
  PROVE  Upward(links)[c] = Upward(Class)[c]
<1> DEFINE S == {n \in links : Upward(links)[n] # Upward(Class)[n]}
<1>1. \A n \in Class : n \in Nat /\ n # 0 /\ program[n].base \in 0..n - 1
  BY ProgramFacts DEF Class
<1>2. ASSUME S # {} PROVE FALSE
  <2>1. PICK n \in S : \A k \in S : n <= k
    <3>1. S \in SUBSET Nat
      BY <1>1
    <3>. HIDE DEF S
    <3>. QED BY <1>2, <3>1, LeastClass
  <2>2. n \in links /\ n \in Class /\ Upward(links)[n] # Upward(Class)[n]
    OBVIOUS
  <2>3. CASE program[n].base = 0
    BY <2>2, <2>3, UpwardDef
  <2>4. CASE program[n].base # 0
    <3>1. program[n].base \in Class /\ program[n].base < n
      BY <1>1, <2>2, <2>4, ProgramFacts DEF Class
    <3>2. program[n].base \in links
      BY <2>2, <3>1
    <3>3. program[n].base \notin S
      BY <1>1, <2>1, <2>2, <3>1
    <3>4. Upward(links)[program[n].base] = Upward(Class)[program[n].base]
      BY <3>2, <3>3
    <3>5. Upward(links)[n] = {n} \cup Upward(links)[program[n].base]
      BY <2>2, <2>4, UpwardDef
    <3>6. Upward(Class)[n] = {n} \cup Upward(Class)[program[n].base]
      BY <2>2, <2>4, UpwardDef
    <3>. QED BY <2>2, <3>4, <3>5, <3>6
  <2>. QED BY <2>3, <2>4
<1>3. c \notin S
  BY <1>2
<1>. QED BY <1>3

LEMMA GreatestOf ==
  ASSUME NEW m \in Nat, NEW S \in SUBSET (1..m), S # {}
  PROVE  Max(S) \in S
<1> DEFINE T == {m - k : k \in S}
<1>1. T \in SUBSET Nat /\ T # {}
  <2>1. \A k \in S : m - k \in Nat
    OBVIOUS
  <2>. QED BY <2>1
<1>2. PICK t \in T : \A k \in T : t <= k
  <2>. HIDE DEF T
  <2>. QED BY <1>1, LeastClass
<1>3. PICK x \in S : t = m - x
  OBVIOUS
<1>4. \A y \in S : x >= y
  <2> SUFFICES ASSUME NEW y \in S PROVE x >= y
    OBVIOUS
  <2>1. m - x <= m - y
    BY <1>2, <1>3
  <2>. QED BY <2>1
<1>. QED BY <1>3, <1>4 DEF Max

LEMMA LeastOf ==
  ASSUME NEW S \in SUBSET Nat, S # {}
  PROVE  Min(S) \in S
BY LeastClass DEF Min
-----------------------------------------------------------------------------
(* The types of everything, and the fields found through a class.          *)

\* Classes are linked in order.
LinkedInOrder ==
  /\ \A c \in linked : c \in Class /\ c <= cls
  /\ \A c \in Class : c < cls => c \in linked
  /\ stage \in Kinds => cls \in linked

\* The vectors hold at most the members of their class.
Sizes ==
  \A c \in Class : /\ built[c].fields <= Len(program[c].fields)
                   /\ built[c].ctors <= Len(program[c].ctors)
                   /\ built[c].methods <= Len(program[c].methods)

TInv == TypeOK /\ LinkedInOrder /\ Sizes /\ UniqueFieldsBind

Uses == {"none", "read", "member", "assign", "new", "call", "super"}

LEMMA PointerTyped ==
  ASSUME NEW u \in Uses, NEW c \in 0..Len(program), NEW n \in Name \cup {NoName},
         NEW b \in Decl, NEW m \in Decl
  PROVE  /\ Pointer(u, c, n, b, m) \in [use : Uses, from : 0..Len(program),
                                        name : Name \cup {NoName}, bound : Decl, meant : Decl]
         /\ Pointer(u, c, n, b, m).use = u /\ Pointer(u, c, n, b, m).from = c
         /\ Pointer(u, c, n, b, m).name = n /\ Pointer(u, c, n, b, m).bound = b
         /\ Pointer(u, c, n, b, m).meant = m
BY DEF Pointer

LEMMA DeclsTyped ==
  ASSUME program \in Programs
  PROVE  /\ Null \in Decl /\ Outside \in Decl
         /\ \A c \in Class : FieldOf(c) \in Decl /\ FieldOf(c).cls = c
         /\ \A c \in Class : \A s \in {"ctors", "methods"} : \A k \in Nat :
              Function(c, s, k) \in Decl
<1>1. Len(program) \in Nat
  BY ProgramFacts
<1>2. 0 \in 0..Len(program) /\ \A c \in Class : c \in 0..Len(program)
  BY <1>1 DEF Class
<1>3. Null \in Decl
  BY <1>2 DEF Null, Decl
<1>4. Outside \in Decl
  BY <1>2 DEF Null, Outside, Decl
<1>5. \A c \in Class : FieldOf(c) \in Decl /\ FieldOf(c).cls = c
  BY <1>2 DEF FieldOf, Decl
<1>6. \A c \in Class : \A s \in {"ctors", "methods"} : \A k \in Nat : Function(c, s, k) \in Decl
  BY <1>2 DEF Function, Decl
<1>. QED BY <1>3, <1>4, <1>5, <1>6

LEMMA HereDecl ==
  ASSUME Positions, stage \in Kinds
  PROVE  Here("local") \in Decl /\ Here("param") \in Decl
<1>1. cls \in 0..Len(program) /\ item \in Nat
  BY ProgramFacts DEF Positions, Class
<1>. QED BY <1>1 DEF Here, Decl, Kinds

LEMMA DeclarersMax ==
  ASSUME program \in Programs, NEW c \in Class, NEW n, Declarers(c, n) # {}
  PROVE  Max(Declarers(c, n)) \in Declarers(c, n) /\ Max(Declarers(c, n)) \in Class
<1>1. c \in Nat /\ 1..c \subseteq Class
  BY ProgramFacts DEF Class
<1>2. Declarers(c, n) \subseteq 1..c
  BY UpwardEarlier DEF Declarers
<1>. QED BY <1>1, <1>2, GreatestOf

LEMMA FieldFoundTyped ==
  ASSUME program \in Programs, NEW c \in Class, NEW n
  PROVE  FieldFound(c, n) \in Decl
<1> DEFINE found == {a \in Upward(linked)[c] :
                       \E k \in 1..built[a].fields : program[a].fields[k] = n}
<1>1. c \in Nat /\ 1..c \subseteq Class /\ 1..c \subseteq Nat
  BY ProgramFacts DEF Class
<1>2. found \subseteq 1..c
  BY UpwardEarlier
<1>3. CASE found = {}
  BY <1>3, DeclsTyped DEF FieldFound
<1>4. CASE found # {}
  <2>1. Min(found) \in found
    <3>1. found \in SUBSET Nat
      BY <1>1, <1>2
    <3>. HIDE DEF found
    <3>. QED BY <1>4, <3>1, LeastOf
  <2>2. FieldFound(c, n) = FieldOf(Min(found))
    BY <1>4 DEF FieldFound
  <2>. QED BY <1>1, <1>2, <2>1, <2>2, DeclsTyped
<1>. QED BY <1>3, <1>4

LEMMA MeantTyped ==
  ASSUME Positions, stage \in Kinds, NEW n \in Visible
  PROVE  Meant(n) \in Decl
<1>1. cls \in Class /\ program \in Programs
  BY DEF Positions
<1>2. CASE n \in locals \cup Params
  BY <1>2, HereDecl DEF Meant
<1>3. CASE n \notin locals \cup Params
  <2>1. Declarers(cls, n) # {}
    BY <1>3 DEF Visible
  <2>. QED BY <1>1, <1>3, <2>1, DeclarersMax, DeclsTyped DEF Meant
<1>. QED BY <1>2, <1>3

\* A field that was collected, and that only its class declares, is found.
LEMMA UniqueFieldFound ==
  ASSUME program \in Programs, LinkedInOrder, cls \in Nat, Sizes, built \in [Class -> Vector],
         NEW c \in linked, NEW n, NEW d,
         Collected(d, n), Declarers(c, n) = {d}
  PROVE  FieldFound(c, n) = FieldOf(d)
<1> DEFINE found == {a \in Upward(linked)[c] :
                       \E k \in 1..built[a].fields : program[a].fields[k] = n}
<1>0. c \in Class /\ linked \in SUBSET Class /\ d \in Class
  BY DEF LinkedInOrder, Collected
<1>1. Upward(linked)[c] = Upward(Class)[c]
  <2>1. \A a \in linked : \A b \in Class : b < a => b \in linked
    BY ProgramFacts DEF LinkedInOrder
  <2>. QED BY <1>0, <2>1, LinkedUpward
<1>2. 1..c \subseteq Class
  BY <1>0, ProgramFacts DEF Class
<1>3. ASSUME NEW a \in found PROVE a = d
  <2>1. a \in Class /\ a \in Upward(Class)[c]
    BY <1>0, <1>1, <1>2, <1>3, UpwardEarlier
  <2>2. PICK k \in 1..built[a].fields : program[a].fields[k] = n
    BY <1>3
  <2>3. k \in 1..Len(program[a].fields)
    BY <2>1, <2>2, ProgramFacts DEF Sizes, Vector
  <2>4. n \in Fields(a)
    BY <2>2, <2>3 DEF Fields
  <2>. QED BY <2>1, <2>4 DEF Declarers
<1>4. d \in found
  <2>1. d \in Upward(Class)[c]
    BY DEF Declarers
  <2>. QED BY <1>1, <2>1 DEF Collected
<1>5. found = {d}
  BY <1>3, <1>4
<1>6. Min({d}) = d
  <2>1. d \in Nat
    BY <1>0, ProgramFacts
  <2>. QED BY <2>1, LeastOf
<1>. QED BY <1>5, <1>6 DEF FieldFound

LEMMA InitTInv == Init => TInv
<1> SUFFICES ASSUME Init PROVE TInv
  OBVIOUS
<1>1. program \in Programs /\ Len(program) \in Nat /\ MaxEvents \in Nat
  BY ProgramFacts, MaxEventsAssumption DEF Init
<1>2. last = Nothing /\ Nothing \in [use : Uses, from : 0..Len(program),
             name : Name \cup {NoName}, bound : Decl, meant : Decl] /\ Nothing.use = "none"
  <2>1. 0 \in 0..Len(program) /\ Null \in Decl
    BY <1>1, DeclsTyped
  <2>. QED BY <2>1, PointerTyped DEF Nothing, Uses, Init
<1>3. TypeOK
  <2>1. variable_map \in [Name -> Decl]
    BY <1>1, DeclsTyped DEF Init
  <2>2. \A c \in Class : \A s \in {"fields", "ctors", "methods"} :
          built[c][s] \in 0..Len(program[c][s])
    BY <1>1, ProgramFacts DEF Init
  <2>. QED BY <1>1, <1>2, <2>1, <2>2 DEF Init, TypeOK, Uses
<1>4. LinkedInOrder /\ Sizes
  <2>1. LinkedInOrder
    BY <1>1 DEF Init, LinkedInOrder, Class, Kinds
  <2>2. Sizes
    BY <1>1, ProgramFacts DEF Init, Sizes
  <2>. QED BY <2>1, <2>2
<1>5. UniqueFieldsBind
  BY <1>2 DEF UniqueFieldsBind
<1>. QED BY <1>3, <1>4, <1>5 DEF TInv
\* What a step does to everything but the position and the properties.
LEMMA TypesFrom ==
  ASSUME Positions', Vectors', Sizes', events' \in 0..MaxEvents, locals' \subseteq Name,
         variable_map' \in [Name -> Decl'], linked' \subseteq Class',
         last' \in [use : Uses, from : 0..Len(program'), name : Name \cup {NoName},
                    bound : Decl', meant : Decl']
  PROVE  TypeOK'
<1>1. \A c \in Class' : \A s \in {"fields", "ctors", "methods"} :
        built'[c][s] \in 0..Len(program'[c][s])
  <2> SUFFICES ASSUME NEW c \in Class'
               PROVE  /\ built'[c].fields \in 0..Len(program'[c].fields)
                      /\ built'[c].ctors \in 0..Len(program'[c].ctors)
                      /\ built'[c].methods \in 0..Len(program'[c].methods)
    OBVIOUS
  <2>1. built'[c] \in Vector
    BY DEF Vectors
  <2>2. /\ Len(program'[c].fields) \in Nat /\ Len(program'[c].ctors) \in Nat
        /\ Len(program'[c].methods) \in Nat
    <3>1. program' \in Programs
      BY DEF Positions
    <3>2. Len(program') \in Nat /\ \A k \in 1..Len(program') : ClassDecl(program', k)
      BY <3>1, ProgramsAssumption
    <3>. QED BY <3>2 DEF ClassDecl, Class
  <2>. QED BY <2>1, <2>2 DEF Sizes, Vector
<1>2. step' # "idle" => cls' \in Class' /\ stage' \in {"ctors", "methods"}
  BY DEF Positions, Kinds
<1>. QED BY <1>1, <1>2 DEF TypeOK, Positions, Kinds, Uses

\* A step that makes no pointer.
LEMMA NothingTyped ==
  ASSUME program \in Programs, program' = program, last' = Nothing
  PROVE  /\ last' \in [use : Uses, from : 0..Len(program'), name : Name \cup {NoName},
                       bound : Decl', meant : Decl']
         /\ UniqueFieldsBind'
<1>1. Null \in Decl /\ 0 \in 0..Len(program) /\ Decl' = Decl
  BY ProgramFacts, DeclsTyped DEF Decl
<1>2. last' \in [use : Uses, from : 0..Len(program), name : Name \cup {NoName},
                 bound : Decl, meant : Decl] /\ last'.use = "none"
  BY <1>1, PointerTyped DEF Nothing, Uses
<1>. QED BY <1>1, <1>2 DEF UniqueFieldsBind

\* A step inside a body, or one that only makes a pointer.
LEMMA EventTyped ==
  ASSUME IInv, IInv', TInv, UNCHANGED <<program, cls, stage, item, built, linked>>,
         events' \in 0..MaxEvents, locals' \subseteq Name, variable_map' \in [Name -> Decl],
         last' \in [use : Uses, from : 0..Len(program), name : Name \cup {NoName},
                    bound : Decl, meant : Decl],
         UniqueFieldsBind'
  PROVE  TInv'
<1>1. Class' = Class /\ Decl' = Decl
  BY DEF Class, Decl
<1>2. LinkedInOrder' /\ Sizes'
  BY <1>1 DEF TInv, LinkedInOrder, Sizes
<1>3. linked' \subseteq Class'
  BY <1>1 DEF TInv, TypeOK
<1>. QED BY <1>1, <1>2, <1>3, TypesFrom DEF TInv, IInv

LEMMA StepTInv == IInv /\ IInv' /\ TInv /\ [Next]_vars => TInv'
<1> SUFFICES ASSUME IInv, IInv', TInv, [Next]_vars PROVE TInv'
  OBVIOUS
<1> DEFINE LastTyped == last' \in [use : Uses, from : 0..Len(program),
              name : Name \cup {NoName}, bound : Decl, meant : Decl]
<1>a. /\ Positions /\ Vectors /\ Positions' /\ Vectors'
      /\ TypeOK /\ LinkedInOrder /\ Sizes /\ UniqueFieldsBind
  BY DEF IInv, TInv
<1>b. /\ program \in Programs /\ MaxEvents \in Nat /\ 0 \in 0..MaxEvents
      /\ events \in 0..MaxEvents /\ locals \subseteq Name /\ variable_map \in [Name -> Decl]
      /\ linked \subseteq Class /\ cls \in Nat /\ item \in Nat
      /\ built \in [Class -> Vector]
  BY <1>a, MaxEventsAssumption, ProgramFacts DEF TypeOK, Positions, Vectors
<1>c. /\ Null \in Decl /\ Outside \in Decl
      /\ \A c \in Class : FieldOf(c) \in Decl /\ c \in 0..Len(program) /\ c \in Nat
  BY <1>b, DeclsTyped, ProgramFacts DEF Class
<1>d. program' = program => Class' = Class /\ Decl' = Decl
  BY DEF Class, Decl
<1>e. stage \in Kinds => Here("local") \in Decl /\ Here("param") \in Decl /\ cls \in Class
  BY <1>a, HereDecl DEF Positions
<1>1. CASE BeginClass
  <2>0. /\ program' = program /\ cls' = cls /\ cls \in Class /\ linked' = linked \cup {cls}
        /\ UNCHANGED <<events, locals, variable_map>>
        /\ built' = [built EXCEPT ![cls].methods = Len(program[cls].methods)]
        /\ last' = Nothing
    BY <1>1 DEF BeginClass
  <2>1. Sizes'
    <3>1. /\ built'[cls].methods = Len(program[cls].methods)
          /\ built'[cls].fields = built[cls].fields /\ built'[cls].ctors = built[cls].ctors
          /\ \A c \in Class : c # cls => built'[c] = built[c]
      BY <1>b, <2>0 DEF Vector
    <3>2. Len(program[cls].methods) \in Nat
      BY <1>b, <2>0, ProgramFacts
    <3>. QED BY <1>a, <1>d, <2>0, <3>1, <3>2 DEF Sizes
  <2>2. LinkedInOrder'
    BY <1>a, <1>b, <1>d, <2>0 DEF LinkedInOrder
  <2>. QED BY <1>a, <1>b, <1>d, <2>0, <2>1, <2>2, NothingTyped, TypesFrom DEF TInv
<1>2. CASE DeclareField
  <2>0. /\ program' = program /\ cls' = cls /\ cls \in Class /\ linked' = linked
        /\ stage = "fields" /\ stage' = stage
        /\ events' = 0 /\ UNCHANGED locals
        /\ variable_map' = [variable_map EXCEPT ![program[cls].fields[item]] = FieldOf(cls)]
        /\ built' = [built EXCEPT ![cls].fields = @ + 1]
        /\ item <= Len(program[cls].fields)
        /\ last' = Nothing
    BY <1>2, <1>e DEF DeclareField, AtMember, Kinds
  <2>1. Sizes'
    <3>1. /\ built'[cls].methods = built[cls].methods
          /\ built'[cls].fields = built[cls].fields + 1 /\ built'[cls].ctors = built[cls].ctors
          /\ \A c \in Class : c # cls => built'[c] = built[c]
      BY <1>b, <2>0 DEF Vector
    <3>2. built[cls].fields = item - 1
      BY <1>a, <2>0 DEF Vectors
    <3>3. built'[cls].fields <= Len(program[cls].fields)
      BY <1>b, <2>0, <3>1, <3>2
    <3>. QED BY <1>a, <1>d, <2>0, <3>1, <3>3 DEF Sizes
  <2>2. LinkedInOrder'
    BY <1>a, <1>b, <1>d, <2>0 DEF LinkedInOrder
  <2>3. variable_map' \in [Name -> Decl]
    BY <1>b, <1>c, <2>0
  <2>. QED BY <1>a, <1>b, <1>d, <2>0, <2>1, <2>2, <2>3, NothingTyped, TypesFrom DEF TInv
<1>3. CASE NextKind
  <2>0. /\ program' = program /\ UNCHANGED <<cls, linked, events, locals, variable_map, built>>
        /\ stage \in Kinds /\ last' = Nothing
    BY <1>3 DEF NextKind, Kinds
  <2>1. Sizes' /\ LinkedInOrder'
    BY <1>a, <1>d, <2>0 DEF Sizes, LinkedInOrder
  <2>. QED BY <1>a, <1>b, <1>d, <2>0, <2>1, NothingTyped, TypesFrom DEF TInv
<1>4. CASE NextClass
  <2>0. /\ program' = program /\ UNCHANGED <<linked, events, locals, variable_map, built>>
        /\ stage \in Kinds /\ stage' = "class" /\ cls' = cls + 1 /\ last' = Nothing
    BY <1>4 DEF NextClass, Kinds
  <2>1. Sizes'
    BY <1>a, <1>d, <2>0 DEF Sizes
  <2>2. LinkedInOrder'
    <3>1. cls \in linked
      BY <1>a, <2>0 DEF LinkedInOrder
    <3>2. \A c \in linked : c <= cls + 1
      BY <1>a, <1>b, <1>c DEF LinkedInOrder
    <3>3. \A c \in Class : c < cls + 1 => c < cls \/ c = cls
      BY <1>b, <1>c
    <3>. QED BY <1>a, <1>d, <2>0, <3>1, <3>2, <3>3 DEF LinkedInOrder, Kinds
  <2>. QED BY <1>a, <1>b, <1>d, <2>0, <2>1, <2>2, NothingTyped, TypesFrom DEF TInv
<1>5. ASSUME NEW s \in {"ctors", "methods"}, EnterFunction(s)
      PROVE  TInv'
  <2>0. /\ UNCHANGED <<program, cls, stage, item, built, linked, events>> /\ locals' = {}
        /\ stage \in Kinds /\ last' = Nothing
        /\ variable_map' = [n \in Name |->
             IF n \in program[cls][s][item] THEN Here("param") ELSE variable_map[n]]
    BY <1>5 DEF EnterFunction, AtMember, Kinds
  <2>1. variable_map' \in [Name -> Decl]
    BY <1>b, <1>e, <2>0
  <2>. QED BY <1>b, <1>d, <2>0, <2>1, NothingTyped, EventTyped
<1>6. CASE LeaveFunction
  <2>0. /\ program' = program /\ UNCHANGED <<cls, stage, linked, variable_map>>
        /\ events' = 0 /\ locals' = {} /\ last' = Nothing
        /\ stage \in {"ctors", "methods"} /\ item <= Len(program[cls][stage])
        /\ built' = IF stage = "ctors" THEN [built EXCEPT ![cls].ctors = @ + 1] ELSE built
    BY <1>6, <1>a DEF LeaveFunction, Positions
  <2>1. Sizes'
    <3>1. CASE stage = "ctors"
      <4>1. /\ built'[cls].methods = built[cls].methods
            /\ built'[cls].fields = built[cls].fields /\ built'[cls].ctors = built[cls].ctors + 1
            /\ \A c \in Class : c # cls => built'[c] = built[c]
        BY <1>b, <1>e, <2>0, <3>1 DEF Vector, Kinds
      <4>2. built[cls].ctors = item - 1
        BY <1>a, <1>e, <2>0, <3>1 DEF Vectors, Kinds
      <4>3. built'[cls].ctors <= Len(program[cls].ctors)
        BY <1>b, <2>0, <3>1, <4>1, <4>2
      <4>. QED BY <1>a, <1>d, <2>0, <4>1, <4>3 DEF Sizes
    <3>2. CASE stage # "ctors"
      BY <1>a, <1>d, <2>0, <3>2 DEF Sizes
    <3>. QED BY <3>1, <3>2
  <2>2. LinkedInOrder'
    BY <1>a, <1>b, <1>d, <2>0 DEF LinkedInOrder
  <2>. QED BY <1>a, <1>b, <1>d, <2>0, <2>1, <2>2, NothingTyped, TypesFrom DEF TInv
<1>7. ASSUME NEW n \in Name, DeclareLocal(n)
      PROVE  TInv'
  <2>0. /\ UNCHANGED <<program, cls, stage, item, built, linked>>
        /\ locals' = locals \cup {n} /\ last' = Nothing /\ step = "body"
        /\ events < MaxEvents /\ events' = events + 1
        /\ variable_map' = [variable_map EXCEPT ![n] = Here("local")]
    BY <1>7 DEF DeclareLocal, Event
  <2>1. stage \in Kinds
    BY <1>a, <2>0 DEF Positions, Kinds
  <2>2. variable_map' \in [Name -> Decl] /\ locals' \subseteq Name /\ events' \in 0..MaxEvents
    BY <1>b, <1>e, <2>0, <2>1
  <2>. QED BY <1>b, <1>d, <2>0, <2>2, NothingTyped, EventTyped
<1>8. ASSUME Event, UNCHANGED <<locals, variable_map>>, LastTyped, UniqueFieldsBind'
      PROVE  TInv'
  <2>1. /\ UNCHANGED <<program, cls, stage, item, built, linked>>
        /\ events' \in 0..MaxEvents
    BY <1>8, <1>b DEF Event
  <2>. QED BY <1>8, <1>b, <2>1, EventTyped
<1>9. Event => /\ stage \in Kinds /\ UNCHANGED <<program, cls, built, linked>>
               /\ cls \in Class /\ cls \in 0..Len(program)
  BY <1>a, <1>c, <1>e DEF Event, AtMember, Positions, Kinds
<1>10. ASSUME NEW n \in Name, Read(n)
       PROVE  TInv'
  <2>1. last' = Pointer("read", cls, n, variable_map[n], Meant(n)) /\ Event /\ n \in Visible
    BY <1>10 DEF Read
  <2>2. variable_map[n] \in Decl /\ Meant(n) \in Decl
    BY <1>a, <1>b, <1>9, <2>1, MeantTyped
  <2>3. LastTyped /\ last'.use = "read"
    BY <1>9, <2>1, <2>2, PointerTyped DEF Uses
  <2>4. UniqueFieldsBind'
    BY <2>3 DEF UniqueFieldsBind
  <2>. QED BY <1>8, <1>10, <2>1, <2>3, <2>4 DEF Read
<1>11. ASSUME NEW c \in Class, NEW n \in Name, NEW bound, NEW meant, NEW use \in {"member", "assign"},
              Event, last' = Pointer(use, c, n, bound, meant),
              meant.kind = "field" /\ Declarers(c, n) # {} => meant = FieldOf(Max(Declarers(c, n))),
              Declarers(c, n) # {} => bound = FieldFound(c, n)
       PROVE  UniqueFieldsBind'
  <2> SUFFICES ASSUME meant.kind = "field", c \in linked', Collected(meant.cls, n)',
                      Declarers(c, n)' = {meant.cls}
               PROVE  bound = meant
    BY <1>11 DEF UniqueFieldsBind, Pointer
  <2>1. Collected(meant.cls, n) /\ c \in linked /\ Declarers(c, n) = {meant.cls}
    BY <1>9, <1>11, <1>d DEF Collected, Declarers, Upward, Fields, Class
  <2>2. FieldFound(c, n) = FieldOf(meant.cls)
    BY <1>a, <1>b, <2>1, UniqueFieldFound
  <2>3. meant = FieldOf(meant.cls)
    <3>1. Max(Declarers(c, n)) \in Declarers(c, n)
      BY <1>b, <2>1, DeclarersMax
    <3>. QED BY <1>11, <2>1, <3>1
  <2>. QED BY <1>11, <2>1, <2>2, <2>3
<1>12. ASSUME NEW n \in Name, Assign(n)
       PROVE  TInv'
  <2> DEFINE bound == IF Declarers(cls, n) # {} THEN FieldFound(cls, n) ELSE variable_map[n]
  <2>1. last' = Pointer("assign", cls, n, bound, Meant(n)) /\ Event /\ n \in Visible
    BY <1>12 DEF Assign
  <2>2. bound \in Decl /\ Meant(n) \in Decl
    BY <1>a, <1>b, <1>9, <2>1, MeantTyped, FieldFoundTyped
  <2>3. LastTyped
    BY <1>9, <2>1, <2>2, PointerTyped DEF Uses
  <2>4. Meant(n).kind = "field" => Meant(n) = FieldOf(Max(Declarers(cls, n)))
    BY DEF Meant, Here
  <2>5. UniqueFieldsBind'
    BY <1>9, <1>11, <2>1, <2>4
  <2>. QED BY <1>8, <1>12, <2>1, <2>3, <2>5 DEF Assign
<1>13. ASSUME NEW c \in Class, NEW n \in Name, Member(c, n)
       PROVE  TInv'
  <2> DEFINE meant == FieldOf(Max(Declarers(c, n)))
  <2>1. last' = Pointer("member", c, n, FieldFound(c, n), meant) /\ Event /\ Declarers(c, n) # {}
    BY <1>13 DEF Member
  <2>2. FieldFound(c, n) \in Decl /\ meant \in Decl
    BY <1>b, <1>c, <2>1, FieldFoundTyped, DeclarersMax
  <2>3. LastTyped
    BY <1>c, <2>1, <2>2, PointerTyped DEF Uses
  <2>4. UniqueFieldsBind'
    BY <1>11, <2>1
  <2>. QED BY <1>8, <1>13, <2>1, <2>3, <2>4 DEF Member
<1>14. ASSUME NEW c \in Class, NEW s \in {"ctors", "methods"}, NEW k \in Nat
       PROVE  At(c, s, k) \in Decl /\ Function(c, s, k) \in Decl
  BY <1>b, DeclsTyped DEF At
<1>15. ASSUME NEW c \in Class, NEW k \in 1..Len(program[c].ctors), New(c, k)
       PROVE  TInv'
  <2>1. last' = Pointer("new", c, NoName, At(c, "ctors", k), Function(c, "ctors", k)) /\ Event
    BY <1>15 DEF New
  <2>2. LastTyped /\ last'.use = "new"
    <3>1. At(c, "ctors", k) \in Decl /\ Function(c, "ctors", k) \in Decl
      BY <1>14
    <3>2. c \in 0..Len(program) /\ "new" \in Uses
      BY <1>c DEF Uses
    <3>. QED BY <2>1, <3>1, <3>2, PointerTyped
  <2>3. UniqueFieldsBind'
    BY <2>2 DEF UniqueFieldsBind
  <2>. QED BY <1>8, <1>15, <2>1, <2>2, <2>3 DEF New
<1>16. ASSUME NEW c \in Class, NEW k \in 1..Len(program[c].methods), Call(c, k)
       PROVE  TInv'
  <2>1. last' = Pointer("call", c, NoName, At(c, "methods", k), Function(c, "methods", k)) /\ Event
    BY <1>16 DEF Call
  <2>2. LastTyped /\ last'.use = "call"
    <3>1. At(c, "methods", k) \in Decl /\ Function(c, "methods", k) \in Decl
      BY <1>14
    <3>2. c \in 0..Len(program) /\ "call" \in Uses
      BY <1>c DEF Uses
    <3>. QED BY <2>1, <3>1, <3>2, PointerTyped
  <2>3. UniqueFieldsBind'
    BY <2>2 DEF UniqueFieldsBind
  <2>. QED BY <1>8, <1>16, <2>1, <2>2, <2>3 DEF Call
<1>17. ASSUME step = "super", NEW k \in 1..Len(program[program[cls].base].ctors), Super(k)
       PROVE  TInv'
  <2>1. PICK b : b = program[cls].base
    OBVIOUS
  <2>2. b \in Class
    BY <1>a, <1>17, <1>e, <2>1, ProgramFacts DEF Positions, Kinds, Class
  <2>3. last' = Pointer("super", b, NoName, At(b, "ctors", k), Function(b, "ctors", k))
    BY <1>17, <2>1 DEF Super
  <2>4. LastTyped /\ last'.use = "super"
    <3>1. At(b, "ctors", k) \in Decl /\ Function(b, "ctors", k) \in Decl
      BY <1>14, <2>2
    <3>2. b \in 0..Len(program) /\ "super" \in Uses
      BY <1>c, <2>2 DEF Uses
    <3>. QED BY <2>3, <3>1, <3>2, PointerTyped
  <2>5. UniqueFieldsBind'
    BY <2>4 DEF UniqueFieldsBind
  <2>. QED BY <1>17, <1>b, <2>4, <2>5, EventTyped DEF Super
<1>18. ASSUME UNCHANGED <<program, cls, item, events, variable_map, built, linked>>,
              stage' = "crashed", locals' = {}, last' = Nothing
       PROVE  TInv'
  <2>1. Sizes' /\ LinkedInOrder'
    BY <1>18, <1>a, <1>d DEF Sizes, LinkedInOrder, Kinds
  <2>. QED BY <1>18, <1>a, <1>b, <1>d, <2>1, NothingTyped, TypesFrom DEF TInv
<1>19. CASE Crash \/ Terminate
  BY <1>18, <1>19 DEF Crash, Terminate
<1>20. CASE UNCHANGED vars
  <2>1. UniqueFieldsBind'
    BY <1>20, <1>a DEF vars, UniqueFieldsBind, Collected, Declarers, Upward, Fields, Class
  <2>2. LastTyped
    BY <1>20, <1>a DEF vars, TypeOK, Uses
  <2>. QED BY <1>20, <1>b, <2>1, <2>2, EventTyped DEF vars
<1>. QED BY <1>1, <1>2, <1>3, <1>4, <1>5, <1>6, <1>7, <1>10, <1>12, <1>13, <1>15, <1>16, <1>17,
            <1>19, <1>20 DEF Next

LEMMA TInvHolds == Spec => []TInv
<1>1. Init => TInv
  BY InitTInv
<1>2. IInv /\ IInv' /\ TInv /\ [Next]_vars => TInv'
  BY StepTInv
<1>. QED BY <1>1, <1>2, IInvHolds, PTL DEF Spec

(***************************************************************************)
(* Everything the collector keeps has its type: the vectors of a class are *)
(* never longer than its lists of members, and every pointer leads to a    *)
(* declaration of the program, to null, or outside of a vector, also while *)
(* bases and vectors are still being filled (codegen-ast-collector.cpp).   *)
(***************************************************************************)
THEOREM TypeCorrect == Spec => []TypeOK
<1>1. TInv => TypeOK
  BY DEF TInv
<1>. QED BY <1>1, TInvHolds, PTL

(***************************************************************************)
(* In every program, a member expression or an assignment finds the field  *)
(* that scoping means if it was collected and only its class has the name: *)
(* the walk up the bases that are linked so far sees them all.             *)
(***************************************************************************)
THEOREM UniqueFields == Spec => []UniqueFieldsBind
<1>1. TInv => UniqueFieldsBind
  BY DEF TInv
<1>. QED BY <1>1, TInvHolds, PTL
=============================================================================
