------------------------- MODULE BodyCollectorProofs -------------------------
(***************************************************************************)
(* What phase 2 leaves behind, for classes of any number and size: the     *)
(* positions of members, who owns their symbols, and its verdict.          *)
(***************************************************************************)
EXTENDS BodyCollector, TLAPS

KeyOf(c, s, k) == program[c][s][k].key

\* The order in which the kinds of a class are visited.
Earlier(s, t) == \/ s = "fields" /\ t \in {"methods", "ctors"}
                 \/ s = "methods" /\ t = "ctors"

Shapes ==
  /\ program \in Programs
  /\ scope = [c \in Class |-> scope[c]]
  /\ vectors \in [Class -> [Kind -> Seq(Nat)]]

\* Nothing has been entered yet behind the place where the walk is.
NotYet ==
  /\ \A c \in Class : c > cls => \A s \in Kind : vectors[c][s] = <<>>
  /\ cls \in Class => \A s \in Kind : Earlier(kind, s) => vectors[cls][s] = <<>>
  /\ cls \in Class => \A i \in 1..Len(vectors[cls][kind]) : vectors[cls][kind][i] < item

\* The names of the class are the keys of its members in the vectors, once each.
NamesAreKeys ==
  /\ cls \in Class => \A s \in Kind :
       names[s] = {KeyOf(cls, s, vectors[cls][s][i]) : i \in 1..Len(vectors[cls][s])}
  /\ cls \notin Class => names = NoNames

\* Without a report the members visited are good, and stand in the vectors in order.
UpTo(c, s, n) ==
  /\ vectors[c][s] = [k \in 1..n |-> k]
  /\ \A i \in 1..n : /\ program[c][s][i].known
                     /\ \A j \in 1..i - 1 : KeyOf(c, s, j) # KeyOf(c, s, i)
Complete(c, s) == UpTo(c, s, Len(program[c][s]))

CleanSoFar ==
  reported = {} =>
    /\ \A c \in Class : c < cls => \A s \in Kind : Complete(c, s)
    /\ cls \in Class => /\ \A s \in Kind : Earlier(s, kind) => Complete(cls, s)
                        /\ UpTo(cls, kind, item - 1)

ReportsAreTrue == reported # {} => \E c \in Class : ~WellFormed(c)

Verdict ==
  /\ phase # "visiting" => cls = Len(program) + 1
  /\ phase = "done" => reported = {}
  /\ phase = "thrown" => reported # {}

\* Who owns the symbol of a member in a vector, and that there is one.
KeysInScope ==
  \A c \in Class : \A s \in Kind : \A i \in 1..Len(vectors[c][s]) :
    KeyOf(c, s, vectors[c][s][i]) \in DOMAIN scope[c]

\* A member's own symbol is there, or a method's key belongs to a constructor.
Owners ==
  \A c \in Class : \A s \in Kind : \A i \in 1..Len(vectors[c][s]) :
    \/ scope[c][KeyOf(c, s, vectors[c][s][i])] = <<s, vectors[c][s][i]>>
    \/ /\ s = "methods"
       /\ \E j \in 1..Len(vectors[c]["ctors"]) :
            KeyOf(c, "ctors", vectors[c]["ctors"][j]) = KeyOf(c, s, vectors[c][s][i])

IInv == /\ TypeOK /\ Shapes /\ NotYet /\ NamesAreKeys /\ KeysInScope
        /\ CleanSoFar /\ ReportsAreTrue /\ Verdict /\ Owners

LEMMA Kinds == /\ \A s \in Kind : ~Earlier(s, s)
               /\ \A s \in Kind : \A t \in Kind : s = t \/ Earlier(s, t) \/ Earlier(t, s)
               /\ \A s \in Kind : \A t \in Kind : ~(Earlier(s, t) /\ Earlier(t, s))
               /\ {"fields", "methods", "ctors"} \subseteq Kind
BY DEF Kind, Earlier

\* What is known of the program and of the walk in every state.
LEMMA Typed ==
  ASSUME TypeOK, Shapes
  PROVE  /\ Len(program) \in Nat /\ DOMAIN program = Class
         /\ cls \in Nat \ {0} /\ kind \in Kind /\ item \in Nat \ {0}
         /\ \A c \in Class : c \in Nat
         /\ \A c \in Class : \A s \in Kind :
              /\ program[c][s] \in Seq(Member) /\ Len(program[c][s]) \in Nat
              /\ vectors[c][s] \in Seq(Nat) /\ Len(vectors[c][s]) \in Nat
              /\ vectors[c][s] \in Seq(1..Len(program[c][s]))
              /\ \A k \in 1..Len(program[c][s]) : KeyOf(c, s, k) \in Key
<1>1. /\ program \in Seq([Kind -> Seq(Member)]) /\ cls \in 1..Len(program) + 1
      /\ kind \in Kind /\ item \in Nat \ {0}
      /\ \A c \in Class : \A s \in Kind : vectors[c][s] \in Seq(1..Len(program[c][s]))
      /\ vectors \in [Class -> [Kind -> Seq(Nat)]]
  BY DEF TypeOK, Shapes
<1>2. Len(program) \in Nat /\ DOMAIN program = Class
  BY <1>1 DEF Class
<1>3. \A c \in Class : c \in Nat /\ program[c] \in [Kind -> Seq(Member)]
  BY <1>1, <1>2 DEF Class
<1>4. ASSUME NEW c \in Class, NEW s \in Kind
      PROVE  /\ program[c][s] \in Seq(Member) /\ Len(program[c][s]) \in Nat
             /\ vectors[c][s] \in Seq(Nat) /\ Len(vectors[c][s]) \in Nat
             /\ vectors[c][s] \in Seq(1..Len(program[c][s]))
             /\ \A k \in 1..Len(program[c][s]) : KeyOf(c, s, k) \in Key
  <2>1. program[c][s] \in Seq(Member) /\ vectors[c][s] \in Seq(Nat)
    BY <1>1, <1>3
  <2>2. \A k \in 1..Len(program[c][s]) : program[c][s][k] \in Member
    BY <2>1
  <2>3. \A k \in 1..Len(program[c][s]) : KeyOf(c, s, k) \in Key
    BY <2>2 DEF KeyOf, Member
  <2>. QED BY <1>1, <2>1, <2>3
<1>. QED BY <1>1, <1>2, <1>3, <1>4

\* A field shares its key with nothing of another kind.
LEMMA FieldKeys ==
  ASSUME TypeOK, Shapes, NEW c \in Class, NEW i \in 1..Len(program[c]["fields"]),
         NEW s \in Kind, s # "fields", NEW j \in 1..Len(program[c][s])
  PROVE  KeyOf(c, s, j) # KeyOf(c, "fields", i) /\ program[c]["fields"][i].known
BY ProgramsAssumption DEF Shapes, Class, KeyOf

LEMMA InitIInv ==
  ASSUME Init
  PROVE  IInv
<1>1. /\ program \in Seq([Kind -> Seq(Member)]) /\ program \in Programs
      /\ cls = 1 /\ kind = "fields" /\ item = 1 /\ names = NoNames
      /\ scope = [c \in Class |-> [k \in {} |-> <<>>]]
      /\ vectors = [c \in Class |-> [s \in Kind |-> <<>>]]
      /\ reported = {} /\ phase = "visiting"
  BY ProgramsAssumption DEF Init
<1>2. \A c \in Class : \A s \in Kind : vectors[c][s] = <<>>
  BY <1>1
<1>3. Len(program) \in Nat /\ \A c \in Class : \A s \in Kind : Len(program[c][s]) \in Nat
  BY <1>1 DEF Class
<1>4. Shapes
  BY <1>1 DEF Shapes
<1>5. TypeOK
  BY <1>1, <1>2, <1>3 DEF TypeOK, Class, Kind, NoNames
<1>6. NotYet /\ KeysInScope /\ Owners
  <2>1. \A c \in Class : \A s \in Kind : 1..Len(vectors[c][s]) = {}
    BY <1>2
  <2>2. NotYet
    BY <1>1, <1>2, <2>1, Kinds DEF NotYet
  <2>. QED BY <2>1, <2>2 DEF KeysInScope, Owners
<1>7. NamesAreKeys
  BY <1>1, <1>2 DEF NamesAreKeys, NoNames
<1>8. CleanSoFar
  <2>1. \A c \in Class : ~(c < cls)
    BY <1>1, <1>3 DEF Class
  <2>2. \A s \in Kind : ~Earlier(s, kind)
    BY <1>1 DEF Kind, Earlier
  <2>3. cls \in Class => UpTo(cls, kind, item - 1)
    <3>1. cls \in Class => vectors[cls][kind] = [k \in 1..0 |-> k]
      BY <1>1, <1>2, Kinds
    <3>. QED BY <1>1, <3>1 DEF UpTo
  <2>. QED BY <2>1, <2>2, <2>3 DEF CleanSoFar
<1>9. ReportsAreTrue /\ Verdict
  BY <1>1 DEF ReportsAreTrue, Verdict
<1>. QED BY <1>4, <1>5, <1>6, <1>7, <1>8, <1>9 DEF IInv

-----------------------------------------------------------------------------
(* A member is entered. *)

LEMMA CollectFacts ==
  ASSUME IInv, Collect
  PROVE  /\ cls \in Class /\ item \in 1..Len(program[cls][kind])
         /\ program' = program /\ cls' = cls /\ kind' = kind /\ item' = item + 1
         /\ reported' = reported /\ phase' = "visiting"
         /\ program[cls][kind][item].known
         /\ KeyOf(cls, kind, item) \notin names[kind]
         /\ names' = [names EXCEPT ![kind] = @ \cup {KeyOf(cls, kind, item)}]
         /\ vectors' \in [Class -> [Kind -> Seq(Nat)]]
         /\ vectors'[cls][kind] = Append(vectors[cls][kind], item)
         /\ \A c \in Class : \A s \in Kind : c # cls \/ s # kind => vectors'[c][s] = vectors[c][s]
         /\ scope' = [c \in Class |-> scope'[c]]
         /\ \A c \in Class : c # cls => scope'[c] = scope[c]
         /\ DOMAIN scope'[cls] = DOMAIN scope[cls] \cup {KeyOf(cls, kind, item)}
         /\ scope'[cls][KeyOf(cls, kind, item)] = <<kind, item>>
         /\ \A k \in DOMAIN scope[cls] : k # KeyOf(cls, kind, item) =>
              scope'[cls][k] = scope[cls][k]
<1>1. /\ cls \in Class /\ item <= Len(program[cls][kind]) /\ phase = "visiting"
      /\ program' = program /\ cls' = cls /\ kind' = kind /\ item' = item + 1
      /\ reported' = reported /\ phase' = phase
      /\ program[cls][kind][item].known
      /\ KeyOf(cls, kind, item) \notin names[kind]
      /\ names' = [names EXCEPT ![kind] = @ \cup {KeyOf(cls, kind, item)}]
      /\ vectors' = [vectors EXCEPT ![cls][kind] = Append(@, item)]
      /\ scope' = [scope EXCEPT ![cls] = AddSymbol(@)]
  BY DEF Collect, AtMember, This, KeyOf
<1>2. /\ item \in Nat \ {0} /\ kind \in Kind /\ Len(program[cls][kind]) \in Nat
      /\ vectors \in [Class -> [Kind -> Seq(Nat)]] /\ vectors[cls][kind] \in Seq(Nat)
      /\ scope = [c \in Class |-> scope[c]]
  BY <1>1, Typed DEF IInv, Shapes
<1>3. Append(vectors[cls][kind], item) \in Seq(Nat)
  BY <1>2
<1>4. /\ vectors' \in [Class -> [Kind -> Seq(Nat)]]
      /\ vectors'[cls][kind] = Append(vectors[cls][kind], item)
      /\ \A c \in Class : \A s \in Kind : c # cls \/ s # kind => vectors'[c][s] = vectors[c][s]
  BY <1>1, <1>2, <1>3
<1>5. /\ scope' = [c \in Class |-> scope'[c]]
      /\ \A c \in Class : c # cls => scope'[c] = scope[c]
      /\ scope'[cls] = AddSymbol(scope[cls])
  BY <1>1, <1>2
<1>6. /\ DOMAIN scope'[cls] = DOMAIN scope[cls] \cup {KeyOf(cls, kind, item)}
      /\ scope'[cls][KeyOf(cls, kind, item)] = <<kind, item>>
      /\ \A k \in DOMAIN scope[cls] : k # KeyOf(cls, kind, item) =>
           scope'[cls][k] = scope[cls][k]
  BY <1>5 DEF AddSymbol, This, KeyOf
<1>. QED BY <1>1, <1>2, <1>4, <1>5, <1>6

LEMMA CollectStep ==
  ASSUME IInv, Collect
  PROVE  IInv'
<1> DEFINE K == KeyOf(cls, kind, item)
           n == Len(vectors[cls][kind])
<1>1. /\ cls \in Class /\ item \in 1..Len(program[cls][kind])
      /\ program' = program /\ cls' = cls /\ kind' = kind /\ item' = item + 1
      /\ reported' = reported /\ phase' = "visiting"
      /\ program[cls][kind][item].known
      /\ K \notin names[kind]
      /\ names' = [names EXCEPT ![kind] = @ \cup {K}]
      /\ vectors' \in [Class -> [Kind -> Seq(Nat)]]
      /\ vectors'[cls][kind] = Append(vectors[cls][kind], item)
      /\ \A c \in Class : \A s \in Kind : c # cls \/ s # kind => vectors'[c][s] = vectors[c][s]
      /\ scope' = [c \in Class |-> scope'[c]]
      /\ \A c \in Class : c # cls => scope'[c] = scope[c]
      /\ DOMAIN scope'[cls] = DOMAIN scope[cls] \cup {K}
      /\ scope'[cls][K] = <<kind, item>>
      /\ \A k \in DOMAIN scope[cls] : k # K => scope'[cls][k] = scope[cls][k]
  BY CollectFacts
<1>2. /\ cls \in Nat \ {0} /\ kind \in Kind /\ item \in Nat \ {0} /\ Class' = Class
      /\ \A c \in Class : c \in Nat
      /\ \A c \in Class : \A s \in Kind :
           /\ Len(program[c][s]) \in Nat /\ Len(vectors[c][s]) \in Nat
           /\ vectors[c][s] \in Seq(Nat) /\ vectors[c][s] \in Seq(1..Len(program[c][s]))
           /\ \A k \in 1..Len(program[c][s]) : KeyOf(c, s, k) \in Key
      /\ \A c, s, k : KeyOf(c, s, k)' = KeyOf(c, s, k)
  BY <1>1, Typed DEF IInv, Class, KeyOf
<1>3. /\ K \in Key /\ n \in Nat
      /\ Len(vectors'[cls][kind]) = n + 1
      /\ vectors'[cls][kind][n + 1] = item
      /\ \A i \in 1..n : vectors'[cls][kind][i] = vectors[cls][kind][i]
  <2>1. vectors[cls][kind] \in Seq(Nat) /\ item \in Nat
    BY <1>1, <1>2
  <2>. QED BY <1>1, <1>2, <2>1
<1>4. \A c \in Class : \A s \in Kind : c # cls \/ s # kind => vectors'[c][s] = vectors[c][s]
  BY <1>1
<1>. HIDE DEF K, n
<1>5. TypeOK'
  <2>1. names' \in [Kind -> SUBSET Key]
    BY <1>1, <1>2, <1>3 DEF IInv, TypeOK
  <2>2. ASSUME NEW c \in Class, NEW s \in Kind
        PROVE  vectors'[c][s] \in Seq(1..Len(program[c][s]))
    <3>1. CASE c = cls /\ s = kind
      <4>1. vectors[cls][kind] \in Seq(1..Len(program[cls][kind]))
        BY <1>1, <1>2
      <4>2. Append(vectors[cls][kind], item) \in Seq(1..Len(program[cls][kind]))
        BY <1>1, <4>1
      <4>. QED BY <1>1, <3>1, <4>2
    <3>. QED BY <1>2, <1>4, <3>1
  <2>3. ASSUME NEW c \in Class PROVE DOMAIN scope'[c] \subseteq Key
    <3>1. DOMAIN scope[c] \subseteq Key
      BY DEF IInv, TypeOK
    <3>. QED BY <1>1, <1>3, <3>1
  <2>4. cls' \in 1..Len(program') + 1 /\ kind' \in Kind /\ item' \in Nat \ {0}
        /\ item' <= Len(program'[cls'][kind']) + 1
        /\ reported' \subseteq Class \X Kind \X Nat
    <3>1. /\ cls \in 1..Len(program) + 1 /\ kind \in Kind
          /\ reported \subseteq Class \X Kind \X Nat
      BY DEF IInv, TypeOK
    <3>2. item + 1 \in Nat \ {0} /\ item + 1 <= Len(program[cls][kind]) + 1
      BY <1>1, <1>2
    <3>. QED BY <1>1, <3>1, <3>2
  <2>5. program' \in Seq([Kind -> Seq(Member)]) /\ phase' = "visiting"
    BY <1>1 DEF IInv, TypeOK
  <2>. QED BY <1>1, <1>2, <2>1, <2>2, <2>3, <2>4, <2>5 DEF TypeOK
<1>6. Shapes'
  BY <1>1, <1>2 DEF IInv, Shapes
<1>7. NotYet'
  <2>1. \A c \in Class : c > cls => \A s \in Kind : vectors'[c][s] = <<>>
    BY <1>2, <1>4 DEF IInv, NotYet
  <2>2. \A s \in Kind : Earlier(kind, s) => vectors'[cls][s] = <<>>
    BY <1>1, <1>4, Kinds DEF IInv, NotYet
  <2>3. \A i \in 1..n + 1 : vectors'[cls][kind][i] < item + 1
    <3>1. ASSUME NEW i \in 1..n PROVE vectors[cls][kind][i] < item + 1
      <4>1. vectors[cls][kind][i] < item
        BY <1>1 DEF IInv, NotYet, n
      <4>2. vectors[cls][kind][i] \in Nat
        <5>1. vectors[cls][kind] \in Seq(Nat)
          BY <1>1, <1>2
        <5>. QED BY <5>1 DEF n
      <4>. QED BY <1>2, <4>1, <4>2
    <3>. QED BY <1>2, <1>3, <3>1
  <2>. QED BY <1>1, <1>2, <1>3, <2>1, <2>2, <2>3 DEF NotYet, Earlier
<1>8. NamesAreKeys'
  <2>1. names[kind] = {KeyOf(cls, kind, vectors[cls][kind][i]) : i \in 1..n}
    BY <1>1, <1>2 DEF IInv, NamesAreKeys, n
  <2>2. names'[kind] = {KeyOf(cls, kind, vectors'[cls][kind][i]) : i \in 1..n + 1}
    <3>1. names'[kind] = names[kind] \cup {K}
      BY <1>1, <1>2 DEF IInv, TypeOK
    <3>2. KeyOf(cls, kind, vectors'[cls][kind][n + 1]) = K
      BY <1>3 DEF K
    <3>. QED BY <1>3, <2>1, <3>1, <3>2
  <2>3. \A s \in Kind : s # kind => names'[s] = names[s]
    BY <1>1 DEF IInv, TypeOK
  <2>4. \A s \in Kind :
          names'[s] = {KeyOf(cls, s, vectors'[cls][s][i]) : i \in 1..Len(vectors'[cls][s])}
    <3>1. ASSUME NEW s \in Kind, s # kind
          PROVE  names'[s] = {KeyOf(cls, s, vectors'[cls][s][i]) : i \in 1..Len(vectors'[cls][s])}
      <4>1. names[s] = {KeyOf(cls, s, vectors[cls][s][i]) : i \in 1..Len(vectors[cls][s])}
        BY <1>1 DEF IInv, NamesAreKeys
      <4>2. vectors'[cls][s] = vectors[cls][s]
        BY <1>1, <1>4, <3>1
      <4>. QED BY <2>3, <3>1, <4>1, <4>2
    <3>. QED BY <1>3, <2>2, <3>1
  <2>. QED BY <1>1, <1>2, <2>4 DEF NamesAreKeys
<1>9. KeysInScope'
  <2>1. ASSUME NEW c \in Class, NEW s \in Kind, NEW i \in 1..Len(vectors'[c][s])
        PROVE  KeyOf(c, s, vectors'[c][s][i]) \in DOMAIN scope'[c]
    <3>1. CASE c = cls /\ s = kind /\ i = n + 1
      BY <1>1, <1>3, <3>1 DEF K
    <3>2. CASE ~(c = cls /\ s = kind /\ i = n + 1)
      <4>1. i \in 1..Len(vectors[c][s]) /\ vectors'[c][s][i] = vectors[c][s][i]
        <5>1. CASE c = cls /\ s = kind
          BY <1>3, <3>2, <5>1 DEF n
        <5>2. CASE c # cls \/ s # kind
          BY <1>4, <5>2
        <5>. QED BY <5>1, <5>2
      <4>2. KeyOf(c, s, vectors[c][s][i]) \in DOMAIN scope[c]
        BY <4>1 DEF IInv, KeysInScope
      <4>. QED BY <1>1, <4>1, <4>2
    <3>. QED BY <3>1, <3>2
  <2>. QED BY <1>2, <2>1 DEF KeysInScope
<1>10. CleanSoFar'
  <2>1. ASSUME NEW c \in Class, NEW s \in Kind, c # cls \/ s # kind, Complete(c, s)
        PROVE  Complete(c, s)'
    <3>1. vectors'[c][s] = vectors[c][s] /\ program' = program
      BY <1>1, <1>4, <2>1
    <3>. QED BY <1>2, <2>1, <3>1 DEF Complete, UpTo
  <2>2. ASSUME reported = {} PROVE UpTo(cls, kind, item - 1)'
    <3>1. UpTo(cls, kind, item - 1)
      BY <1>1, <2>2 DEF IInv, CleanSoFar
    <3>2. vectors[cls][kind] = [k \in 1..item - 1 |-> k] /\ n = item - 1
      BY <1>1, <1>2, <3>1 DEF UpTo, n
    <3>3. vectors'[cls][kind] = [k \in 1..item |-> k]
      <4>1. vectors'[cls][kind] \in Seq(Nat)
        BY <1>1, <1>2
      <4>2. Len(vectors'[cls][kind]) = item
        BY <1>2, <1>3, <3>2
      <4>3. \A k \in 1..item : vectors'[cls][kind][k] = k
        BY <1>2, <1>3, <3>2
      <4>. QED BY <4>1, <4>2, <4>3
    <3>4. ASSUME NEW j \in 1..item - 1 PROVE KeyOf(cls, kind, j) # K
      <4>1. vectors[cls][kind][j] = j /\ j \in 1..n
        BY <3>2
      <4>2. KeyOf(cls, kind, j) \in names[kind]
        <5>1. names[kind] = {KeyOf(cls, kind, vectors[cls][kind][i]) : i \in 1..n}
          BY <1>1, <1>2 DEF IInv, NamesAreKeys, n
        <5>. QED BY <4>1, <5>1
      <4>. QED BY <1>1, <4>2
    <3>5. ASSUME NEW i \in 1..item
          PROVE  /\ program[cls][kind][i].known
                 /\ \A j \in 1..i - 1 : KeyOf(cls, kind, j) # KeyOf(cls, kind, i)
      <4>1. CASE i = item
        BY <1>1, <3>4, <4>1 DEF K
      <4>2. CASE i \in 1..item - 1
        BY <3>1, <4>2 DEF UpTo
      <4>3. i = item \/ i \in 1..item - 1
        BY <1>2
      <4>. QED BY <4>1, <4>2, <4>3
    <3>6. item' - 1 = item
      BY <1>1, <1>2
    <3>. QED BY <1>1, <1>2, <3>3, <3>5, <3>6 DEF UpTo
  <2>3. ASSUME reported = {}, NEW c \in Class, c < cls, NEW s \in Kind PROVE Complete(c, s)'
    <3>1. Complete(c, s) /\ c # cls
      BY <1>2, <2>3 DEF IInv, CleanSoFar
    <3>. QED BY <2>1, <3>1
  <2>4. ASSUME reported = {}, NEW s \in Kind, Earlier(s, kind) PROVE Complete(cls, s)'
    <3>1. Complete(cls, s) /\ s # kind
      BY <1>1, <2>4, Kinds DEF IInv, CleanSoFar
    <3>. QED BY <1>1, <2>1, <3>1
  <2>. QED BY <1>1, <1>2, <2>2, <2>3, <2>4 DEF CleanSoFar, Earlier
<1>11. ReportsAreTrue' /\ Verdict'
  BY <1>1, <1>2 DEF IInv, ReportsAreTrue, Verdict, WellFormed
<1>12. Owners'
  <2>1. ASSUME NEW c \in Class, NEW s \in Kind, NEW i \in 1..Len(vectors'[c][s])
        PROVE  \/ scope'[c][KeyOf(c, s, vectors'[c][s][i])] = <<s, vectors'[c][s][i]>>
               \/ /\ s = "methods"
                  /\ \E j \in 1..Len(vectors'[c]["ctors"]) :
                       KeyOf(c, "ctors", vectors'[c]["ctors"][j]) = KeyOf(c, s, vectors'[c][s][i])
    <3>1. CASE c = cls /\ s = kind /\ i = n + 1
      BY <1>1, <1>3, <3>1 DEF K
    <3>2. ASSUME ~(c = cls /\ s = kind /\ i = n + 1)
          PROVE  i \in 1..Len(vectors[c][s]) /\ vectors'[c][s][i] = vectors[c][s][i]
      <4>1. CASE c = cls /\ s = kind
        BY <1>3, <3>2, <4>1 DEF n
      <4>2. CASE c # cls \/ s # kind
        BY <1>4, <4>2
      <4>. QED BY <4>1, <4>2
    <3>3. ASSUME NEW j \in 1..Len(vectors[c]["ctors"])
          PROVE  /\ j \in 1..Len(vectors'[c]["ctors"])
                 /\ vectors'[c]["ctors"][j] = vectors[c]["ctors"][j]
      <4>1. CASE c = cls /\ kind = "ctors"
        BY <1>2, <1>3, <4>1 DEF n
      <4>2. CASE c # cls \/ kind # "ctors"
        BY <1>4, <4>2, Kinds
      <4>. QED BY <4>1, <4>2
    <3>4. CASE ~(c = cls /\ s = kind /\ i = n + 1)
      <4> DEFINE k == vectors[c][s][i]
      <4>0. i \in 1..Len(vectors[c][s]) /\ vectors'[c][s][i] = k
        BY <3>2, <3>4
      <4>1. \/ scope[c][KeyOf(c, s, k)] = <<s, k>>
            \/ /\ s = "methods"
               /\ \E j \in 1..Len(vectors[c]["ctors"]) :
                    KeyOf(c, "ctors", vectors[c]["ctors"][j]) = KeyOf(c, s, k)
        BY <4>0 DEF IInv, Owners
      <4>2. KeyOf(c, s, k) \in DOMAIN scope[c]
        BY <4>0 DEF IInv, KeysInScope
      <4>3. k \in 1..Len(program[c][s])
        <5>1. vectors[c][s] \in Seq(1..Len(program[c][s]))
          BY <1>2
        <5>. QED BY <4>0, <5>1
      <4>. HIDE DEF k
      <4>4. CASE c # cls \/ KeyOf(c, s, k) # K
        BY <1>1, <3>3, <4>0, <4>1, <4>2, <4>4
      <4>5. CASE c = cls /\ KeyOf(c, s, k) = K
        <5>1. s # kind
          <6>1. KeyOf(c, s, k) \in names[s]
            BY <1>1, <4>0, <4>5 DEF IInv, NamesAreKeys, k
          <6>. QED BY <1>1, <4>5, <6>1
        <5>2. Earlier(s, kind)
          <6>1. ~Earlier(kind, s)
            <7>1. vectors[c][s] # <<>>
              BY <1>2, <4>0
            <7>. QED BY <1>1, <4>5, <7>1 DEF IInv, NotYet
          <6>. QED BY <1>2, <5>1, <6>1, Kinds
        <5>3. s # "fields"
          <6>1. ASSUME s = "fields" PROVE KeyOf(cls, kind, item) # KeyOf(cls, "fields", k)
            <7>1. kind # "fields" /\ k \in 1..Len(program[cls]["fields"])
              BY <4>3, <4>5, <5>1, <6>1
            <7>2. TypeOK /\ Shapes
              BY DEF IInv
            <7>. QED BY <1>1, <1>2, <7>1, <7>2, FieldKeys
          <6>2. CASE s = "fields"
            <7>1. KeyOf(c, s, k) = KeyOf(cls, "fields", k)
              BY <4>5, <6>2
            <7>. QED BY <4>5, <6>1, <6>2, <7>1 DEF K
          <6>. QED BY <6>2
        <5>4. s = "methods" /\ kind = "ctors"
          BY <5>2, <5>3 DEF Earlier
        <5>5. n + 1 \in 1..Len(vectors'[c]["ctors"]) /\ vectors'[c]["ctors"][n + 1] = item
          BY <1>3, <4>5, <5>4
        <5>6. KeyOf(c, "ctors", item) = KeyOf(c, s, k)
          BY <4>5, <5>4 DEF K
        <5>. QED BY <4>0, <5>4, <5>5, <5>6
      <4>. QED BY <4>4, <4>5
    <3>. QED BY <3>1, <3>4
  <2>2. Class' = Class /\ \A c, s, k : KeyOf(c, s, k)' = KeyOf(c, s, k)
    BY <1>2
  <2>. QED BY <2>1, <2>2 DEF Owners
<1>. QED BY <1>5, <1>6, <1>7, <1>8, <1>9, <1>10, <1>11, <1>12 DEF IInv

-----------------------------------------------------------------------------
(* The steps that enter nothing. *)

\* What depends only on the program, the scopes and the vectors stays.
LEMMA NothingEntered ==
  ASSUME IInv, UNCHANGED <<program, scope, vectors>>
  PROVE  /\ Shapes' /\ KeysInScope' /\ Owners'
         /\ Class' = Class
         /\ \A c, s, k : KeyOf(c, s, k)' = KeyOf(c, s, k)
         /\ \A c, s : Complete(c, s)' = Complete(c, s)
         /\ \A c : WellFormed(c)' = WellFormed(c)
<1>1. Class' = Class /\ \A c, s, k : KeyOf(c, s, k)' = KeyOf(c, s, k)
  BY DEF Class, KeyOf
<1>2. Shapes'
  BY <1>1 DEF IInv, Shapes
<1>3. KeysInScope' /\ Owners'
  BY <1>1 DEF IInv, KeysInScope, Owners
<1>4. /\ \A c, s : Complete(c, s)' = Complete(c, s)
      /\ \A c : WellFormed(c)' = WellFormed(c)
  BY DEF Complete, UpTo, WellFormed, KeyOf
<1>. QED BY <1>1, <1>2, <1>3, <1>4

LEMMA DuplicateStep ==
  ASSUME IInv, Duplicate
  PROVE  IInv'
<1>1. /\ cls \in Class /\ item <= Len(program[cls][kind]) /\ phase = "visiting"
      /\ KeyOf(cls, kind, item) \in names[kind]
      /\ reported' = reported \cup {<<cls, kind, item>>} /\ item' = item + 1
      /\ UNCHANGED <<program, cls, kind, names, scope, vectors, phase>>
  BY DEF Duplicate, AtMember, This, KeyOf
<1>2. /\ kind \in Kind /\ item \in Nat \ {0} /\ Len(program[cls][kind]) \in Nat
      /\ vectors[cls][kind] \in Seq(Nat) /\ Len(vectors[cls][kind]) \in Nat
      /\ vectors[cls][kind] \in Seq(1..Len(program[cls][kind]))
  BY <1>1, Typed DEF IInv
<1>3. /\ Shapes' /\ KeysInScope' /\ Owners' /\ Class' = Class
      /\ \A c, s, k : KeyOf(c, s, k)' = KeyOf(c, s, k)
      /\ \A c : WellFormed(c)' = WellFormed(c)
  BY <1>1, NothingEntered
<1>4. item \in 1..Len(program[cls][kind]) /\ item + 1 \in Nat \ {0}
      /\ item + 1 <= Len(program[cls][kind]) + 1
  BY <1>1, <1>2
<1>5. TypeOK'
  <2>1. reported' \subseteq Class \X Kind \X Nat
    BY <1>1, <1>2 DEF IInv, TypeOK
  <2>. QED BY <1>1, <1>3, <1>4, <2>1 DEF IInv, TypeOK
<1>6. NotYet'
  <2>1. \A i \in 1..Len(vectors[cls][kind]) : vectors[cls][kind][i] < item + 1
    <3>1. \A i \in 1..Len(vectors[cls][kind]) :
            vectors[cls][kind][i] < item /\ vectors[cls][kind][i] \in Nat
      BY <1>1, <1>2 DEF IInv, NotYet
    <3>. QED BY <1>2, <3>1
  <2>2. /\ \A c \in Class : c > cls => \A s \in Kind : vectors[c][s] = <<>>
        /\ \A s \in Kind : Earlier(kind, s) => vectors[cls][s] = <<>>
    BY <1>1 DEF IInv, NotYet
  <2>. QED BY <1>1, <1>3, <2>1, <2>2 DEF NotYet, Earlier
<1>7. NamesAreKeys'
  BY <1>1, <1>3 DEF IInv, NamesAreKeys, NoNames
<1>8. reported' # {}
  BY <1>1
<1>9. ~WellFormed(cls)
  <2>1. PICK i \in 1..Len(vectors[cls][kind]) :
          KeyOf(cls, kind, item) = KeyOf(cls, kind, vectors[cls][kind][i])
    BY <1>1, <1>2 DEF IInv, NamesAreKeys
  <2>2. vectors[cls][kind][i] \in 1..Len(program[cls][kind])
    <3>1. vectors[cls][kind] \in Seq(1..Len(program[cls][kind]))
      BY <1>2
    <3>. QED BY <3>1
  <2>3. vectors[cls][kind][i] \in 1..item - 1
    <3>1. vectors[cls][kind][i] < item
      BY <1>1 DEF IInv, NotYet
    <3>. QED BY <1>2, <2>2, <3>1
  <2>. QED BY <1>2, <1>4, <2>1, <2>3 DEF WellFormed, KeyOf
<1>10. CleanSoFar' /\ ReportsAreTrue' /\ Verdict'
  <2>1. CleanSoFar'
    BY <1>8 DEF CleanSoFar
  <2>2. ReportsAreTrue'
    BY <1>1, <1>3, <1>9 DEF ReportsAreTrue
  <2>3. Verdict'
    BY <1>1 DEF IInv, Verdict
  <2>. QED BY <2>1, <2>2, <2>3
<1>. QED BY <1>3, <1>5, <1>6, <1>7, <1>10 DEF IInv

\* The walk goes on with the first field of the next class, with empty sets.
LEMMA Leaves ==
  ASSUME IInv, LeaveClass, cls \in Class, phase = "visiting",
         reported' \subseteq Class \X Kind \X Nat
  PROVE  /\ TypeOK' /\ NotYet' /\ NamesAreKeys' /\ Verdict'
         /\ cls' \in Class => vectors[cls']["fields"] = <<>>
<1>1. /\ cls' = cls + 1 /\ kind' = "fields" /\ item' = 1 /\ names' = NoNames
      /\ UNCHANGED <<program, scope, vectors, phase>>
  BY DEF LeaveClass
<1>2. /\ cls \in Nat \ {0} /\ Len(program) \in Nat /\ Class' = Class
      /\ \A c \in Class : c \in Nat
      /\ \A c \in Class : \A s \in Kind : Len(program[c][s]) \in Nat
  BY <1>1, Typed DEF IInv, Class
<1>3. cls + 1 \in 1..Len(program) + 1
  BY <1>2 DEF Class
<1>4. \A c \in Class : c > cls => \A s \in Kind : vectors[c][s] = <<>>
  BY DEF IInv, NotYet
<1>5. /\ cls + 1 \in Class => \A s \in Kind : vectors[cls + 1][s] = <<>>
      /\ cls + 1 \in Class => vectors[cls + 1]["fields"] = <<>>
  <2>1. cls + 1 \in Class => \A s \in Kind : vectors[cls + 1][s] = <<>>
    BY <1>2, <1>4
  <2>. QED BY <2>1 DEF Kind
<1>6. TypeOK'
  <2>1. NoNames \in [Kind -> SUBSET Key]
    BY DEF NoNames
  <2>2. cls + 1 \in Class => 1 <= Len(program[cls + 1]["fields"]) + 1
    BY <1>2 DEF Kind
  <2>3. "fields" \in Kind /\ 1 \in Nat \ {0}
    BY DEF Kind
  <2>. QED BY <1>1, <1>2, <1>3, <2>1, <2>2, <2>3 DEF IInv, TypeOK
<1>7. NotYet'
  <2>1. \A c \in Class : c > cls + 1 => \A s \in Kind : vectors[c][s] = <<>>
    BY <1>2, <1>4
  <2>2. cls + 1 \in Class => 1..Len(vectors[cls + 1]["fields"]) = {}
    BY <1>5
  <2>. QED BY <1>1, <1>2, <1>5, <2>1, <2>2 DEF NotYet
<1>8. NamesAreKeys'
  <2>1. cls + 1 \in Class => \A s \in Kind :
          NoNames[s] = {KeyOf(cls + 1, s, vectors[cls + 1][s][i]) : i \in 1..Len(vectors[cls + 1][s])}
    BY <1>5 DEF NoNames
  <2>. QED BY <1>1, <1>2, <2>1 DEF NamesAreKeys, KeyOf, NoNames
<1>9. Verdict'
  BY <1>1 DEF Verdict
<1>. QED BY <1>1, <1>5, <1>6, <1>7, <1>8, <1>9

LEMMA UnknownTypeStep ==
  ASSUME IInv, UnknownType
  PROVE  IInv'
<1>1. /\ cls \in Class /\ item <= Len(program[cls][kind]) /\ phase = "visiting"
      /\ ~program[cls][kind][item].known
      /\ reported' = reported \cup {<<cls, kind, item>>}
      /\ LeaveClass /\ UNCHANGED <<program, scope, vectors>>
  BY DEF UnknownType, AtMember, This, LeaveClass
<1>2. kind \in Kind /\ item \in Nat \ {0} /\ Len(program[cls][kind]) \in Nat
  BY <1>1, Typed DEF IInv
<1>3. reported' \subseteq Class \X Kind \X Nat
  BY <1>1, <1>2 DEF IInv, TypeOK
<1>4. /\ Shapes' /\ KeysInScope' /\ Owners' /\ Class' = Class
      /\ \A c : WellFormed(c)' = WellFormed(c)
  BY <1>1, NothingEntered
<1>5. TypeOK' /\ NotYet' /\ NamesAreKeys' /\ Verdict'
  BY <1>1, <1>3, Leaves
<1>6. ~WellFormed(cls)
  <2>1. item \in 1..Len(program[cls][kind])
    BY <1>1, <1>2
  <2>. QED BY <1>1, <1>2, <2>1 DEF WellFormed
<1>7. CleanSoFar' /\ ReportsAreTrue'
  BY <1>1, <1>4, <1>6 DEF CleanSoFar, ReportsAreTrue
<1>. QED BY <1>4, <1>5, <1>7 DEF IInv

\* When a kind is done, what CleanSoFar says of its members is that all are good.
LEMMA KindComplete ==
  ASSUME IInv, KindDone, reported = {}
  PROVE  Complete(cls, kind)
<1>1. /\ cls \in Class /\ item > Len(program[cls][kind])
      /\ item <= Len(program[cls][kind]) + 1
  BY DEF KindDone, IInv, TypeOK
<1>2. item \in Nat \ {0} /\ Len(program[cls][kind]) \in Nat
  BY <1>1, Typed DEF IInv
<1>3. item - 1 = Len(program[cls][kind])
  BY <1>1, <1>2
<1>. QED BY <1>1, <1>3 DEF IInv, CleanSoFar, Complete

LEMMA NextKindStep ==
  ASSUME IInv, NextKind
  PROVE  IInv'
<1>1. /\ KindDone /\ cls \in Class /\ phase = "visiting" /\ kind # "ctors"
      /\ kind' = IF kind = "fields" THEN "methods" ELSE "ctors"
      /\ item' = 1
      /\ UNCHANGED <<program, cls, names, scope, vectors, reported, phase>>
  BY DEF NextKind, KindDone
<1>2. /\ kind \in Kind /\ kind' \in Kind /\ Earlier(kind, kind')
      /\ \A s \in Kind : Earlier(kind', s) => Earlier(kind, s)
      /\ \A s \in Kind : Earlier(s, kind') => s = kind \/ Earlier(s, kind)
  BY <1>1 DEF IInv, TypeOK, Kind, Earlier
<1>3. /\ Shapes' /\ KeysInScope' /\ Owners' /\ Class' = Class
      /\ \A c, s, k : KeyOf(c, s, k)' = KeyOf(c, s, k)
      /\ \A c, s : Complete(c, s)' = Complete(c, s)
      /\ \A c : WellFormed(c)' = WellFormed(c)
  BY <1>1, NothingEntered
<1>4. vectors[cls][kind'] = <<>>
  BY <1>1, <1>2 DEF IInv, NotYet
<1>5. TypeOK'
  <2>1. Len(program[cls][kind']) \in Nat
    BY <1>1, <1>2, Typed DEF IInv
  <2>2. 1 \in Nat \ {0} /\ 1 <= Len(program[cls][kind']) + 1
    BY <2>1
  <2>. QED BY <1>1, <1>2, <1>3, <2>2 DEF IInv, TypeOK
<1>6. NotYet'
  <2>1. 1..Len(vectors[cls][kind']) = {}
    BY <1>4
  <2>2. /\ \A c \in Class : c > cls => \A s \in Kind : vectors[c][s] = <<>>
        /\ \A s \in Kind : Earlier(kind', s) => vectors[cls][s] = <<>>
    BY <1>1, <1>2 DEF IInv, NotYet
  <2>. QED BY <1>1, <1>3, <2>1, <2>2 DEF NotYet, Earlier
<1>7. NamesAreKeys'
  BY <1>1, <1>3 DEF IInv, NamesAreKeys, NoNames
<1>8. CleanSoFar'
  <2>1. ASSUME reported = {}
        PROVE  /\ \A c \in Class : c < cls => \A s \in Kind : Complete(c, s)
               /\ \A s \in Kind : Earlier(s, kind') => Complete(cls, s)
    BY <1>1, <1>2, <2>1, KindComplete DEF IInv, CleanSoFar
  <2>2. UpTo(cls, kind', 0)
    <3>1. vectors[cls][kind'] = [k \in 1..0 |-> k]
      BY <1>4
    <3>. QED BY <3>1 DEF UpTo
  <2>3. UpTo(cls, kind, item - 1)'
    <3>1. item' - 1 = 0
      BY <1>1
    <3>. QED BY <1>1, <1>3, <2>2, <3>1 DEF UpTo
  <2>. QED BY <1>1, <1>3, <2>1, <2>3 DEF CleanSoFar, Earlier
<1>9. ReportsAreTrue' /\ Verdict'
  BY <1>1, <1>3 DEF IInv, ReportsAreTrue, Verdict
<1>. QED BY <1>3, <1>5, <1>6, <1>7, <1>8, <1>9 DEF IInv

LEMMA NextClassStep ==
  ASSUME IInv, NextClass
  PROVE  IInv'
<1>1. /\ KindDone /\ cls \in Class /\ phase = "visiting" /\ kind = "ctors"
      /\ LeaveClass /\ cls' = cls + 1 /\ kind' = "fields" /\ item' = 1
      /\ UNCHANGED <<program, scope, vectors, reported>>
  BY DEF NextClass, KindDone, LeaveClass
<1>2. cls \in Nat /\ \A c \in Class : c \in Nat
  BY Typed DEF IInv
<1>3. /\ Shapes' /\ KeysInScope' /\ Owners' /\ Class' = Class
      /\ \A c, s : Complete(c, s)' = Complete(c, s)
      /\ \A c : WellFormed(c)' = WellFormed(c)
  BY <1>1, NothingEntered
<1>4. reported' \subseteq Class \X Kind \X Nat
  BY <1>1 DEF IInv, TypeOK
<1>5. /\ TypeOK' /\ NotYet' /\ NamesAreKeys' /\ Verdict'
      /\ cls' \in Class => vectors[cls']["fields"] = <<>>
  BY <1>1, <1>4, Leaves
<1>6. CleanSoFar'
  <2>1. ASSUME reported = {}, NEW s \in Kind PROVE Complete(cls, s)
    <3>1. s = "ctors" \/ Earlier(s, "ctors")
      BY DEF Kind, Earlier
    <3>. QED BY <1>1, <2>1, <3>1, KindComplete DEF IInv, CleanSoFar
  <2>2. ASSUME reported = {}, NEW c \in Class, c < cls + 1, NEW s \in Kind
        PROVE  Complete(c, s)
    <3>1. c < cls \/ c = cls
      BY <1>2, <2>2
    <3>. QED BY <2>1, <2>2, <3>1 DEF IInv, CleanSoFar
  <2>3. \A s \in Kind : ~Earlier(s, "fields")
    BY DEF Kind, Earlier
  <2>4. cls' \in Class => UpTo(cls, kind, item - 1)'
    <3>1. item' - 1 = 0
      BY <1>1
    <3>2. cls' \in Class => vectors'[cls']["fields"] = [k \in 1..0 |-> k]
      BY <1>1, <1>5
    <3>. QED BY <1>1, <3>1, <3>2 DEF UpTo
  <2>. QED BY <1>1, <1>3, <2>2, <2>3, <2>4 DEF CleanSoFar, Earlier
<1>7. ReportsAreTrue'
  BY <1>1, <1>3 DEF IInv, ReportsAreTrue
<1>. QED BY <1>3, <1>5, <1>6, <1>7 DEF IInv

LEMMA GetResultStep ==
  ASSUME IInv, GetResult
  PROVE  IInv'
<1>1. /\ cls \notin Class
      /\ phase' = IF reported = {} THEN "done" ELSE "thrown"
      /\ UNCHANGED <<program, cls, kind, item, names, scope, vectors, reported>>
  BY DEF GetResult
<1>2. /\ Shapes' /\ KeysInScope' /\ Owners' /\ Class' = Class
      /\ \A c, s, k : KeyOf(c, s, k)' = KeyOf(c, s, k)
      /\ \A c, s : Complete(c, s)' = Complete(c, s)
      /\ \A c : WellFormed(c)' = WellFormed(c)
  BY <1>1, NothingEntered
<1>3. TypeOK'
  BY <1>1, <1>2 DEF IInv, TypeOK
<1>4. NotYet' /\ NamesAreKeys'
  BY <1>1, <1>2 DEF IInv, NotYet, NamesAreKeys, NoNames, Earlier
<1>5. CleanSoFar' /\ ReportsAreTrue'
  BY <1>1, <1>2 DEF IInv, CleanSoFar, ReportsAreTrue
<1>6. Verdict'
  <2>1. cls \in 1..Len(program) + 1 /\ Len(program) \in Nat
    BY Typed DEF IInv, TypeOK
  <2>2. cls = Len(program) + 1
    BY <1>1, <2>1 DEF Class
  <2>. QED BY <1>1, <2>2 DEF Verdict
<1>. QED BY <1>2, <1>3, <1>4, <1>5, <1>6 DEF IInv

LEMMA StepIInv ==
  ASSUME IInv, [Next]_vars
  PROVE  IInv'
<1>1. CASE Collect
  BY <1>1, CollectStep
<1>2. CASE Duplicate
  BY <1>2, DuplicateStep
<1>3. CASE UnknownType
  BY <1>3, UnknownTypeStep
<1>4. CASE NextKind
  BY <1>4, NextKindStep
<1>5. CASE NextClass
  BY <1>5, NextClassStep
<1>6. CASE GetResult
  BY <1>6, GetResultStep
<1>7. CASE UNCHANGED vars
  <2>1. UNCHANGED <<program, cls, kind, item, names, scope, vectors, reported, phase>>
    BY <1>7 DEF vars
  <2>2. /\ Shapes' /\ KeysInScope' /\ Owners' /\ Class' = Class
        /\ \A c, s, k : KeyOf(c, s, k)' = KeyOf(c, s, k)
        /\ \A c, s : Complete(c, s)' = Complete(c, s)
        /\ \A c : WellFormed(c)' = WellFormed(c)
    BY <2>1, NothingEntered
  <2>3. TypeOK'
    BY <2>1, <2>2 DEF IInv, TypeOK
  <2>4. NotYet' /\ NamesAreKeys'
    BY <2>1, <2>2 DEF IInv, NotYet, NamesAreKeys, NoNames, Earlier
  <2>5. CleanSoFar'
    BY <2>1, <2>2 DEF IInv, CleanSoFar, UpTo, KeyOf, Earlier
  <2>6. ReportsAreTrue' /\ Verdict'
    BY <2>1, <2>2 DEF IInv, ReportsAreTrue, Verdict
  <2>. QED BY <2>2, <2>3, <2>4, <2>5, <2>6 DEF IInv
<1>. QED BY <1>1, <1>2, <1>3, <1>4, <1>5, <1>6, <1>7 DEF Next

LEMMA IInvHolds == Spec => []IInv
<1>1. Init => IInv
  BY InitIInv
<1>2. IInv /\ [Next]_vars => IInv'
  BY StepIInv
<1>. QED BY <1>1, <1>2, PTL DEF Spec

-----------------------------------------------------------------------------

\* The variables of phase 2 keep their types, whatever the classes are.
THEOREM TypeCorrect == Spec => []TypeOK
<1>1. IInv => TypeOK
  BY DEF IInv
<1>. QED BY <1>1, IInvHolds, PTL

\* After phase 2 has succeeded, the vectors of every class list its members in the
\* order of their declarations, so that the codegen collector may go by positions.
THEOREM Positions == Spec => []PositionsAgree
<1>1. IInv => PositionsAgree
  <2>1. ASSUME IInv, phase = "done", NEW c \in Class, NEW s \in Kind PROVE Complete(c, s)
    <3>1. reported = {} /\ cls = Len(program) + 1
      BY <2>1 DEF IInv, Verdict
    <3>2. c < cls
      BY <2>1, <3>1, Typed DEF IInv, Class
    <3>. QED BY <2>1, <3>1, <3>2 DEF IInv, CleanSoFar
  <2>. QED BY <2>1 DEF PositionsAgree, Complete, UpTo
<1>. QED BY <1>1, IInvHolds, PTL

\* Phase 2 throws exactly for the programs with a class that declares two members
\* of one kind with one key, or names an unknown type: nothing it skips after an
\* error would have made a difference.
THEOREM Verdicts == Spec => []AcceptsExactlyWellFormed
<1>1. IInv => AcceptsExactlyWellFormed
  <2>1. ASSUME IInv, phase = "done", NEW c \in Class PROVE WellFormed(c)
    <3>1. reported = {} /\ cls = Len(program) + 1
      BY <2>1 DEF IInv, Verdict
    <3>2. c < cls
      BY <2>1, <3>1, Typed DEF IInv, Class
    <3>3. \A s \in Kind : Complete(c, s)
      BY <2>1, <3>1, <3>2 DEF IInv, CleanSoFar
    <3>. QED BY <3>3 DEF Complete, UpTo, WellFormed, KeyOf
  <2>2. ASSUME IInv, phase = "thrown" PROVE \E c \in Class : ~WellFormed(c)
    BY <2>2 DEF IInv, Verdict, ReportsAreTrue
  <2>3. IInv => phase \in {"visiting", "done", "thrown"}
    BY DEF IInv, TypeOK
  <2>. QED BY <2>1, <2>2, <2>3 DEF AcceptsExactlyWellFormed
<1>. QED BY <1>1, IInvHolds, PTL

\* The pointer of a vector dangles exactly for a method whose key a constructor of
\* the class has: no other symbol is replaced while a vector points to it.
THEOREM Ownership == Spec => []OwnedUnlessConstructor
<1>1. ASSUME IInv, NEW c \in Class, NEW s \in Kind, NEW k \in 1..Len(vectors[c][s])
      PROVE  Dangling(c, s, vectors[c][s][k]) <=>
               /\ s = "methods"
               /\ \E j \in 1..Len(vectors[c]["ctors"]) :
                    KeyOf(c, "ctors", vectors[c]["ctors"][j]) = KeyOf(c, "methods", vectors[c][s][k])
  <2>1. \/ scope[c][KeyOf(c, s, vectors[c][s][k])] = <<s, vectors[c][s][k]>>
        \/ /\ s = "methods"
           /\ \E j \in 1..Len(vectors[c]["ctors"]) :
                KeyOf(c, "ctors", vectors[c]["ctors"][j]) = KeyOf(c, s, vectors[c][s][k])
    BY <1>1 DEF IInv, Owners
  <2>2. ASSUME s = "methods", NEW j \in 1..Len(vectors[c]["ctors"]),
               KeyOf(c, "ctors", vectors[c]["ctors"][j]) = KeyOf(c, s, vectors[c][s][k])
        PROVE  scope[c][KeyOf(c, s, vectors[c][s][k])] # <<s, vectors[c][s][k]>>
    <3>1. scope[c][KeyOf(c, "ctors", vectors[c]["ctors"][j])] = <<"ctors", vectors[c]["ctors"][j]>>
      BY <1>1, Kinds DEF IInv, Owners
    <3>. QED BY <2>2, <3>1
  <2>. QED BY <2>1, <2>2 DEF Dangling, KeyOf
<1>2. IInv => OwnedUnlessConstructor
  BY <1>1 DEF OwnedUnlessConstructor, KeyOf
<1>. QED BY <1>2, IInvHolds, PTL
=============================================================================
