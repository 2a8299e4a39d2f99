------------------------------ MODULE MCVTable ------------------------------
(* Every hierarchy of NumClasses classes over the given signatures: every     *)
(* choice of bases that come earlier, every list of distinct methods.         *)
EXTENDS VTable, FiniteSets

MethodLists ==
  {s \in UNION {[1..n -> Signature] : n \in 0..Cardinality(Signature)} :
     \A i, j \in DOMAIN s : s[i] = s[j] => i = j}

AncestorsOf(base) ==
  LET up[c \in Class] == {c} \cup IF base[c] = Builtin THEN {} ELSE up[base[c]]
  IN  up

MCHierarchies ==
  {[base |-> b, own |-> o, ancestors |-> AncestorsOf(b)] :
     b \in {f \in [Class -> 0..NumClasses] : \A c \in Class : f[c] < c},
     o \in [Class -> MethodLists]}
=============================================================================
