------------------------------- MODULE VTable -------------------------------
(***************************************************************************)
(* Virtual method tables of the LLVM back end (llvm-codegen.cpp): the      *)
(* program visitor builds the table of every class from the table of its   *)
(* base, emits each non-empty table as a constant array, and compiles a    *)
(* call of a method into a load from the slot the method has in the table  *)
(* of the class that declares it.                                          *)
(*                                                                         *)
(* Classes are the positions of the program's class vector.  A base is     *)
(* declared before the class (ClassCollector: BaseDeclaredEarlier), so the *)
(* recursive call that builds the base's table finds it built and returns. *)
(* The specification is named apart from that of TypeChecker, which one    *)
(* module of proofs extends as well; current is cls in the code.           *)
(***************************************************************************)
EXTENDS Naturals, Sequences

CONSTANTS Signature,    \* method names with their parameter type names
          NumClasses,   \* classes of the program
          Hierarchies   \* the class hierarchies considered

Class   == 1..NumClasses
Builtin == 0            \* the base of a class that extends a built-in class

\* ancestors[c]: the class itself and every user class it inherits from.
Hierarchy(h) ==
  /\ h.base \in [Class -> 0..NumClasses]
  /\ h.own \in [Class -> Seq(Signature)]
  /\ h.ancestors \in [Class -> SUBSET Class]
  /\ \A c \in Class :
       /\ h.base[c] < c
       /\ \A i, j \in 1..Len(h.own[c]) : h.own[c][i] = h.own[c][j] => i = j
       /\ h.ancestors[c] =
            {c} \cup IF h.base[c] = Builtin THEN {} ELSE h.ancestors[h.base[c]]

ASSUME NumClassesAssumption  == NumClasses \in Nat
ASSUME HierarchiesAssumption == \A h \in Hierarchies : Hierarchy(h)

VARIABLES hierarchy,  \* the program: fixed
          current,    \* the class the current loop over classes is at
          next,       \* the method of current the build is at
          entries,    \* build_vtable_for's local: the table under construction
          vtables,    \* vtable_entries: class -> its table
          globals,    \* vtable_globals: class -> the functions of its array
          stage

tables_vars == <<hierarchy, current, next, entries, vtables, globals, stage>>

BaseOf(c) == hierarchy.base[c]
Own(c)    == hierarchy.own[c]

\* An entry names the signature and the class whose method the function is.
TableEntry == [sig : Signature, owner : Class]

TablesInit ==
  /\ hierarchy \in Hierarchies
  /\ current = 1 /\ next = 1
  /\ entries = <<>>
  /\ vtables = <<>>
  /\ globals = [c \in {} |-> <<>>]
  /\ stage = "class"

-----------------------------------------------------------------------------

\* Mutant: the base's entries are forgotten.
BeginClass_Empty ==
  /\ stage = "class" /\ current <= NumClasses
  /\ entries' = <<>>
  /\ next' = 1
  /\ stage' = "methods"
  /\ UNCHANGED <<hierarchy, current, vtables, globals>>

\* build_vtable_for(cls): start from a copy of the base's entries.
BeginClass ==
  /\ stage = "class" /\ current <= NumClasses
  /\ entries' = IF BaseOf(current) = Builtin THEN <<>> ELSE vtables[BaseOf(current)]
  /\ next' = 1
  /\ stage' = "methods"
  /\ UNCHANGED <<hierarchy, current, vtables, globals>>

AtMethod == stage = "methods" /\ next <= Len(Own(current))
NextMethod == Own(current)[next]

\* The scan stops at the first entry with the method's name and parameters.
FirstMatch(table, s, i) ==
  /\ i \in DOMAIN table
  /\ table[i].sig = s
  /\ \A j \in 1..i - 1 : table[j].sig # s

\* Mutant: the function is put in the slot after the matching one.
Override_OffByOne ==
  /\ AtMethod
  /\ \E i \in DOMAIN entries :
       /\ FirstMatch(entries, NextMethod, i)
       /\ entries' = [j \in DOMAIN entries |->
            IF j = (i % Len(entries)) + 1 THEN [entries[j] EXCEPT !.owner = current]
            ELSE entries[j]]
  /\ next' = next + 1
  /\ UNCHANGED <<hierarchy, current, vtables, globals, stage>>

\* Mutant: `overridden` is not set after a match.
Override_AndAppend ==
  /\ AtMethod
  /\ \E i \in DOMAIN entries :
       /\ FirstMatch(entries, NextMethod, i)
       /\ entries' = Append([entries EXCEPT ![i].owner = current],
                            [sig |-> NextMethod, owner |-> current])
  /\ next' = next + 1
  /\ UNCHANGED <<hierarchy, current, vtables, globals, stage>>

Override ==
  /\ AtMethod
  /\ \E i \in DOMAIN entries :
       /\ FirstMatch(entries, NextMethod, i)
       /\ entries' = [entries EXCEPT ![i] = [sig |-> NextMethod, owner |-> current]]
  /\ next' = next + 1
  /\ UNCHANGED <<hierarchy, current, vtables, globals, stage>>

AppendEntry ==
  /\ AtMethod
  /\ \A i \in DOMAIN entries : entries[i].sig # NextMethod
  /\ entries' = Append(entries, [sig |-> NextMethod, owner |-> current])
  /\ next' = next + 1
  /\ UNCHANGED <<hierarchy, current, vtables, globals, stage>>

\* vtable_entries[&cls] = std::move(entries)
StoreTable ==
  /\ stage = "methods" /\ next > Len(Own(current))
  /\ vtables' = Append(vtables, entries)
  /\ entries' = <<>>
  /\ current' = current + 1
  /\ stage' = "class"
  /\ UNCHANGED <<hierarchy, next, globals>>

StartEmission ==
  /\ stage = "class" /\ current > NumClasses
  /\ current' = 1
  /\ stage' = "emit"
  /\ UNCHANGED <<hierarchy, next, entries, vtables, globals>>

\* emit_vtable_global(cls): an empty table gets no array.
EmitGlobal ==
  /\ stage = "emit" /\ current <= NumClasses
  /\ globals' = IF vtables[current] = <<>>
                THEN globals
                ELSE [c \in DOMAIN globals \cup {current} |->
                        IF c = current THEN [i \in DOMAIN vtables[current] |-> vtables[current][i].owner]
                        ELSE globals[c]]
  /\ current' = current + 1
  /\ UNCHANGED <<hierarchy, next, entries, vtables, stage>>

TablesNext == BeginClass \/ Override \/ AppendEntry \/ StoreTable \/ StartEmission \/ EmitGlobal

TablesSpec == TablesInit /\ [][TablesNext]_tables_vars

-----------------------------------------------------------------------------

TypeOK ==
  /\ Hierarchy(hierarchy)
  /\ current \in 1..NumClasses + 1
  /\ next \in Nat \ {0}
  /\ entries \in Seq(TableEntry)
  /\ vtables \in Seq(Seq(TableEntry)) /\ Len(vtables) <= NumClasses
  /\ DOMAIN globals \subseteq Class
  /\ \A c \in DOMAIN globals : globals[c] \in Seq(Class)
  /\ stage \in {"class", "methods", "emit"}

Ancestors(c) == hierarchy.ancestors[c]
Declares(c, s) == \E i \in 1..Len(Own(c)) : Own(c)[i] = s

\* method_vtable_slot: the slot a call uses for method s declared by class c.
Slot(c, s) == CHOOSE i \in DOMAIN vtables[c] : FirstMatch(vtables[c], s, i)

Built == 1..Len(vtables)

\* The slot of a method never moves down the hierarchy: the table of a class
\* begins with the slots of each class it inherits from, in the same order.  A
\* call compiled against a base class indexes the tables of all its subclasses.
SlotsAreInherited ==
  \A c \in Built : \A a \in Ancestors(c) :
    /\ a \in Built
    /\ Len(vtables[a]) <= Len(vtables[c])
    /\ \A i \in 1..Len(vtables[a]) : vtables[c][i].sig = vtables[a][i].sig

\* No signature has two slots: otherwise an override would replace the first and
\* leave the second, and which body runs would depend on the static type.
OneSlotPerSignature ==
  \A c \in Built : \A i, j \in 1..Len(vtables[c]) :
    vtables[c][i].sig = vtables[c][j].sig => i = j

\* What dynamic dispatch must choose, said of the hierarchy alone: the nearest
\* class on the way up that declares s.  Bases come first in the program, so
\* among the ancestors the nearest one is the last one.
NearestDeclaring(c, s, o) ==
  /\ o \in Ancestors(c) /\ Declares(o, s)
  /\ \A a \in Ancestors(c) : Declares(a, s) => a <= o

\* Virtual dispatch: whatever class `a` declares the method that a call names and
\* whatever subclass `c` the receiver was created as, once the tables are emitted
\* the array of c exists, and the slot taken from a's table holds in c's array the
\* nearest override seen from c.
DispatchReachesNearestOverride ==
  stage = "emit" => \A c \in 1..current - 1 : \A a \in Ancestors(c) : \A s \in Signature :
    Declares(a, s) =>
      /\ c \in DOMAIN globals
      /\ Slot(a, s) \in DOMAIN globals[c]
      /\ NearestDeclaring(c, s, globals[c][Slot(a, s)])
=============================================================================
