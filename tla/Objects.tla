------------------------------- MODULE Objects -------------------------------
(***************************************************************************)
(* What the generated code does with objects: how they are laid out,       *)
(* constructed, copied and called (llvm-codegen.cpp).                      *)
(*                                                                         *)
(* The program is not given but chosen as it runs: a step evaluates an     *)
(* expression or executes a statement that the checks accept where it      *)
(* stands.  An object is its cells: the table, then the fields of its      *)
(* classes from the topmost base down.  Objects and fields of the built-in *)
(* value types are not told apart: such a value is Number.  The allocator  *)
(* (GC_malloc) clears memory, so that 0 in a cell is what nobody stored.   *)
(***************************************************************************)
EXTENDS Naturals, Sequences, Functions

CONSTANTS Programs,   \* a sequence of the hierarchies considered, each with m's parameter and result
          MaxObjects, \* bound on the heap
          MaxFrames,  \* bound on the depth of calls
          MaxSteps    \* bound on expressions and statements

(***************************************************************************)
(* A class is its position.  It has a base, or Builtin; whether it extends *)
(* AnyValue; the types of its fields; those of its constructor's           *)
(* parameters; and whether it defines the method m.  The last one is the   *)
(* entry class.                                                            *)
(***************************************************************************)
Builtin == 0
NumberType == 0
Number == MaxObjects + 1

ClassRecord(n) == [base : Nat, value : BOOLEAN, fields : Seq(0..n), ctor : Seq(0..n), method : BOOLEAN]

IsProgram(p) ==
  /\ p.classes \in Seq(ClassRecord(Len(p.classes))) \ {<<>>}
  /\ {p.param, p.ret} \subseteq 0..Len(p.classes)
  /\ \A c \in DOMAIN p.classes :
       /\ p.classes[c].base < c
       /\ p.classes[c].base # Builtin => p.classes[c].value = p.classes[p.classes[c].base].value
  /\ p.classes[Len(p.classes)].ctor = <<>>

ASSUME ProgramsAssumption == \A k \in DOMAIN Programs : IsProgram(Programs[k])
ASSUME BoundsAssumption   == {MaxObjects, MaxFrames, MaxSteps} \subseteq Nat \ {0}

VARIABLES program,  \* which of them: fixed
          heap,     \* address -> the object's class, its cells, and whether it is a copy
          stack,    \* the calls, the current one first
          steps,    \* how many steps there have been
          phase,    \* "run", "done", or why the behaviour is undefined from here
          access    \* <<object, cell>> of the access that is undefined

vars == <<program, heap, stack, steps, phase, access>>

Classes == Programs[program].classes
Param   == Programs[program].param
Result  == Programs[program].ret
Main    == Len(Classes)

\* A class and its bases.
Ancestors[c \in 0..Main] ==
  IF c = Builtin THEN {} ELSE {c} \cup Ancestors[Classes[c].base]

\* is_value_type, for a class of the program.
IsValue(t) == t # NumberType /\ Classes[t].value

\* The same class or the base (TypeChecker: IsSubtype).
IsSubtype(t, u) == t = u \/ (t # NumberType /\ u # Builtin /\ Classes[t].base = u)

(***************************************************************************)
(* Layout.                                                                 *)
(***************************************************************************)
\* The struct of a class holds that of its base, or the table, and then its fields.
Size[c \in 0..Main] ==
  IF c = Builtin THEN 1 ELSE Size[Classes[c].base] + Len(Classes[c].fields)

\* The fields of an object of class c: <<k, i>> is the i-th that class k declares.
Field(c)     == UNION {{k} \X DOMAIN Classes[k].fields : k \in Ancestors[c]}
FieldType(f) == Classes[f[1]].fields[f[2]]
\* field_index counts from 1, behind the base.
FieldCell(f) == Size[Classes[f[1]].base] + f[2]

\* Mutant: the table is not counted.
Allocated_Fields(c) == [class |-> c, cells |-> [k \in 1..Size[c] - 1 |-> 0], copy |-> FALSE]

Allocated(c) == [class |-> c, cells |-> [k \in 1..Size[c] |-> 0], copy |-> FALSE]

\* A table is emitted for a class that has or inherits a method.
HasMethod(c) == \E k \in Ancestors[c] : Classes[k].method
\* The function in the only slot of the table of class c.
Entry(c) == CHOOSE k \in Ancestors[c] : Classes[k].method /\ \A j \in Ancestors[c] : Classes[j].method => j <= k

(***************************************************************************)
(* A frame is a call of the constructor or of m of some class on an        *)
(* object.  Its locals are the parameters and the variables; its results   *)
(* are those of the calls inside the statement that is executed.           *)
(***************************************************************************)
Local(type, value) == [type |-> type, value |-> value]
Parameters(types, values) == [k \in DOMAIN types |-> Local(types[k], values[k])]

Frame(class, this, stage, super, locals) ==
  [class |-> class, this |-> this, stage |-> stage, super |-> super, item |-> 1,
   locals |-> locals, results |-> {}]

\* Mutant: super is called only when it is passed arguments.
Construct_NoPlainSuper(class, this, super, values) ==
  Frame(class, this,
        IF Classes[class].base = Builtin \/ Classes[Classes[class].base].ctor = <<>> THEN "table" ELSE "super",
        super, Parameters(Classes[class].ctor, values))

Construct(class, this, super, values) ==
  Frame(class, this, IF Classes[class].base = Builtin THEN "table" ELSE "super", super,
        Parameters(Classes[class].ctor, values))

Invoke(class, this, value) ==
  Frame(class, this, "method", FALSE, Parameters(<<Param>>, <<value>>))

\* emit_main
Init ==
  /\ program \in DOMAIN Programs
  /\ heap = <<Allocated(Main)>>
  /\ stack = <<Construct(Main, 1, FALSE, <<>>)>>
  /\ steps = 0 /\ phase = "run" /\ access = <<0, 0>>

Current    == Head(stack)
FieldsLeft == Current.stage = "init" /\ Current.item <= Len(Classes[Current.class].fields)
InBody     == Current.stage = "method" \/ (Current.stage = "init" /\ ~FieldsLeft)

(***************************************************************************)
(* Expressions without calls: this, a local, a number, or a member of      *)
(* one of these.  The type is the one that the tree has, and the value is  *)
(* loaded from a cell of an object, or is the object (cell 0).             *)
(***************************************************************************)
Operand(type, object, cell) == [type |-> type, object |-> object, cell |-> cell]
\* Initializers are in the scope of the class: they see no parameter.
Visible == Current.results \cup (IF FieldsLeft THEN {} ELSE Range(Current.locals))

Direct ==
  {Operand(Current.class, Current.this, 0)} \cup {Operand(l.type, l.value, 0) : l \in Visible}
Members(d) ==
  IF d.type = NumberType THEN {}
  ELSE {Operand(FieldType(f), d.object, FieldCell(f)) : f \in Field(d.type)}
Expressions == {Operand(NumberType, Number, 0)} \cup Direct \cup UNION {Members(d) : d \in Direct}

Cells(o)      == heap[o].cells
Inside(o, k)  == k <= Len(Cells(o))
Loaded(e)     == e.cell # 0 => Inside(e.object, e.cell) /\ Cells(e.object)[e.cell] # 0
Eval(e)       == IF e.cell = 0 THEN e.object ELSE Cells(e.object)[e.cell]

\* eval_value_or_ref: the object of a class of values is copied, by the size of the type
\* of the expression.
Copied(e)     == IsValue(e.type)
Copyable(e)   == Copied(e) => Inside(Eval(e), Size[e.type])
Copy(e)       == [class |-> e.type, cells |-> SubSeq(Cells(Eval(e)), 1, Size[e.type]), copy |-> TRUE]
Stored(e)     == IF Copied(e) THEN Len(heap) + 1 ELSE Eval(e)
HeapWith(e)   == IF Copied(e) THEN Append(heap, Copy(e)) ELSE heap
Storable(e)   == Loaded(e) /\ Copyable(e) /\ (Copied(e) => Len(heap) < MaxObjects)

-----------------------------------------------------------------------------
Step(frame) ==
  /\ stack' = <<frame>> \o Tail(stack)
  /\ UNCHANGED <<program, phase, access>>
Enter(frame, caller) ==
  /\ Len(stack) < MaxFrames
  /\ stack' = <<frame, caller>> \o Tail(stack)
  /\ UNCHANGED <<program, phase, access>>
Counted == steps < MaxSteps /\ steps' = steps + 1

Settled   == [Current EXCEPT !.results = {}]
Evaluates == phase = "run" /\ Current.stage # "table"

\* C(e): the argument is evaluated and copied before the object is allocated.
NewWith(c, e) ==
  /\ Evaluates /\ Counted
  /\ Len(Classes[c].ctor) = 1 /\ IsSubtype(e.type, Classes[c].ctor[1])
  /\ Storable(e) /\ Len(HeapWith(e)) < MaxObjects
  /\ heap' = Append(HeapWith(e), Allocated(c))
  /\ Enter(Construct(c, Len(HeapWith(e)) + 1, FALSE, <<Stored(e)>>), Current)

New(c) ==
  /\ Evaluates /\ Counted
  /\ Classes[c].ctor = <<>> /\ Len(heap) < MaxObjects
  /\ heap' = Append(heap, Allocated(c))
  /\ Enter(Construct(c, Len(heap) + 1, FALSE, <<>>), Current)

\* r.m(e): the receiver is not copied; the function is the one in its table.
Call(r, e) ==
  /\ Evaluates /\ Counted
  /\ r.type # NumberType /\ HasMethod(r.type)
  /\ Loaded(r) /\ Cells(Eval(r))[1] # 0
  /\ IsSubtype(e.type, Param) /\ Storable(e)
  /\ heap' = HeapWith(e)
  /\ Enter(Invoke(Entry(Cells(Eval(r))[1]), Eval(r), Stored(e)), Current)

\* The call of the base's constructor, whose arguments are not copied.
Super(values) ==
  /\ phase = "run" /\ Current.stage = "super"
  /\ LET base == Classes[Current.class].base
     IN  Enter(Construct(base, Current.this, TRUE, values), [Settled EXCEPT !.stage = "table"])
  /\ UNCHANGED <<heap, steps>>

SuperWith(e) ==
  /\ Current.stage = "super" /\ Loaded(e)
  /\ LET ctor == Classes[Classes[Current.class].base].ctor
     IN  Len(ctor) = 1 /\ IsSubtype(e.type, ctor[1])
  /\ Super(<<Eval(e)>>)
SuperPlain == Current.stage = "super" /\ Classes[Classes[Current.class].base].ctor = <<>> /\ Super(<<>>)

\* Mutant: a table that was stored stays.
StoreTable_Once ==
  /\ phase = "run" /\ Current.stage = "table"
  /\ heap' = IF HasMethod(Current.class) /\ Cells(Current.this)[1] = 0
               THEN [heap EXCEPT ![Current.this].cells[1] = Current.class] ELSE heap
  /\ Step([Current EXCEPT !.stage = "init"])
  /\ UNCHANGED steps

StoreTable ==
  /\ phase = "run" /\ Current.stage = "table"
  /\ heap' = IF HasMethod(Current.class)
               THEN [heap EXCEPT ![Current.this].cells[1] = Current.class] ELSE heap
  /\ Step([Current EXCEPT !.stage = "init"])
  /\ UNCHANGED steps

\* The fields in the order of their declaration, with what the initializer evaluates to.
InitField(e) ==
  /\ phase = "run" /\ FieldsLeft
  /\ LET f == <<Current.class, Current.item>>
     IN  /\ e.type = FieldType(f) /\ Loaded(e)
         /\ heap' = [heap EXCEPT ![Current.this].cells[FieldCell(f)] = Eval(e)]
  /\ Step([Settled EXCEPT !.item = @ + 1])
  /\ UNCHANGED steps

Declare(e) ==
  /\ phase = "run" /\ InBody /\ Counted
  /\ e.type # NumberType /\ Storable(e)
  /\ heap' = HeapWith(e)
  /\ Step([Settled EXCEPT !.locals = Append(@, Local(e.type, Stored(e)))])

AssignLocal(k, e) ==
  /\ phase = "run" /\ InBody /\ Counted
  /\ Current.locals[k].type # NumberType
  /\ IsSubtype(e.type, Current.locals[k].type) /\ Storable(e)
  /\ heap' = HeapWith(e)
  /\ Step([Settled EXCEPT !.locals[k].value = Stored(e)])

\* Mutant: the value is evaluated as in an initializer.
AssignField_Uncopied(f, e) ==
  /\ phase = "run" /\ InBody /\ Counted
  /\ FieldType(f) # NumberType
  /\ IsSubtype(e.type, FieldType(f)) /\ Loaded(e)
  /\ Inside(Current.this, FieldCell(f))
  /\ heap' = [heap EXCEPT ![Current.this].cells[FieldCell(f)] = Eval(e)]
  /\ Step(Settled)

AssignField(f, e) ==
  /\ phase = "run" /\ InBody /\ Counted
  /\ FieldType(f) # NumberType
  /\ IsSubtype(e.type, FieldType(f)) /\ Storable(e)
  /\ Inside(Current.this, FieldCell(f))
  /\ heap' = [HeapWith(e) EXCEPT ![Current.this].cells[FieldCell(f)] = Stored(e)]
  /\ Step(Settled)

Leave(caller) ==
  /\ stack' = <<caller>> \o Tail(Tail(stack))
  /\ UNCHANGED <<program, heap, steps, phase, access>>
Caller == stack[2]
WithResult(type, value) == [Caller EXCEPT !.results = @ \cup {Local(type, value)}]

\* The result is not copied.
Return(e) ==
  /\ phase = "run" /\ Current.stage = "method"
  /\ IsSubtype(e.type, Result) /\ Loaded(e)
  /\ Leave(WithResult(Result, Eval(e)))

EndConstructor ==
  /\ phase = "run" /\ InBody /\ Current.stage = "init" /\ Len(stack) > 1
  /\ Leave(IF Current.super THEN Caller ELSE WithResult(Current.class, Current.this))

EndMain ==
  /\ phase = "run" /\ InBody /\ Len(stack) = 1
  /\ phase' = "done"
  /\ UNCHANGED <<program, heap, stack, steps, access>>

\* What the accesses that an expression may come to find there.
Undefined(o, k, reason) ==
  /\ phase' = reason /\ access' = <<o, k>>
  /\ UNCHANGED <<program, heap, stack, steps>>
Outside(o, k) == ~Inside(o, k) /\ Undefined(o, k, "outside")
Unset(o, k)   == Inside(o, k) /\ Cells(o)[k] = 0 /\ Undefined(o, k, "unset")

BadLoad(e)  == e.cell # 0 /\ (Outside(e.object, e.cell) \/ Unset(e.object, e.cell))
BadCopy(e)  == Loaded(e) /\ Copied(e) /\ Outside(Eval(e), Size[e.type])
BadCall(e)  == Loaded(e) /\ e.type # NumberType /\ HasMethod(e.type) /\ Unset(Eval(e), 1)
BadStore(f) == InBody /\ Outside(Current.this, FieldCell(f))

Next ==
  \/ \E c \in 1..Main - 1 : New(c) \/ \E e \in Expressions : NewWith(c, e)
  \/ \E r, e \in Expressions : Call(r, e)
  \/ \E e \in Expressions :
       \/ SuperWith(e) \/ InitField(e) \/ Declare(e) \/ Return(e)
       \/ \E k \in DOMAIN Current.locals : AssignLocal(k, e)
       \/ \E f \in Field(Current.class) : AssignField(f, e)
       \/ Evaluates /\ (BadLoad(e) \/ BadCopy(e) \/ BadCall(e))
  \/ Evaluates /\ \E f \in Field(Current.class) : BadStore(f)
  \/ SuperPlain \/ StoreTable \/ EndConstructor \/ EndMain

Spec == Init /\ [][Next]_vars

-----------------------------------------------------------------------------
(* Properties. *)

\* No field is read or written outside its object.  Exception is a copy that was made by
\* the size of a base: it has the table of the class of the original, whose methods reach
\* for the fields that were cut off (llvm-codegen.cpp:499).
Sliced(o) == heap[o].copy /\ Len(Cells(o)) < Size[Cells(o)[1]]

InsideTheObject == phase = "outside" => Sliced(access[1])

\* No field is read before it was initialized, and no method called before the table was
\* stored, while the constructor that is to do it is not on the stack at a place before
\* that: it evaluates the arguments of super, is in the base's constructor (which may have
\* been handed the object), or initializes its fields (llvm-codegen.cpp:581).  A copy may
\* have been made at such a time.
Own(c, k) == k \in Size[Classes[c].base] + 1..Size[c]
Constructing(o, k) ==
  \E n \in DOMAIN stack :
    /\ stack[n].this = o
    /\ \/ stack[n].stage = "super" /\ k <= Size[stack[n].class]
       \/ stack[n].stage = "table" /\ (k = 1 \/ Own(stack[n].class, k))
       \/ /\ stack[n].stage = "init" /\ Own(stack[n].class, k)
          /\ k >= FieldCell(<<stack[n].class, stack[n].item>>)

InitializedWhenRead ==
  phase = "unset" => heap[access[1]].copy \/ Constructing(access[1], access[2])

\* An object has the table of its own class from the moment its constructor has stored it,
\* and never before: each constructor of its bases stores another one, which what it calls
\* dispatches by, and none comes after, whatever the constructors call in between and
\* wherever they hand the object to (llvm-codegen.cpp:581).
UnderConstruction(o) ==
  \E n \in DOMAIN stack : /\ stack[n].this = o /\ stack[n].class = heap[o].class
                         /\ stack[n].stage \in {"super", "table"}

TableOfItsClass ==
  \A o \in DOMAIN heap : ~heap[o].copy /\ HasMethod(heap[o].class) =>
    (Cells(o)[1] = heap[o].class <=> ~UnderConstruction(o))

\* A local variable holds a value alone: whatever path it came by, no field and no other
\* variable holds the same object, unless one of the two is a parameter of a constructor
\* that was called by super.  Fields may share a value, by their initializers.
Holds(local, o) == IsValue(local.type) /\ local.value = o
BySuper(n, k)   == stack[n].super /\ k <= Len(Classes[stack[n].class].ctor)

ValuesNotShared ==
  \A n \in DOMAIN stack : \A k \in DOMAIN stack[n].locals :
    LET o == stack[n].locals[k].value
    IN  Holds(stack[n].locals[k], o) /\ ~BySuper(n, k) =>
          /\ \A p \in DOMAIN heap : \A f \in Field(heap[p].class) :
               IsValue(FieldType(f)) => Cells(p)[FieldCell(f)] # o
          /\ \A m \in DOMAIN stack : \A j \in DOMAIN stack[m].locals :
               <<m, j>> # <<n, k>> /\ Holds(stack[m].locals[j], o) => BySuper(m, j)
=============================================================================
