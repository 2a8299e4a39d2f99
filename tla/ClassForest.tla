----------------------------- MODULE ClassForest -----------------------------
(***************************************************************************)
(* What the class collector promises to every later phase, without saying  *)
(* how it gets there: the set of known classes is a forest that starts     *)
(* with the built-in classes and grows by one leaf at a time.  A class is  *)
(* hung below a class that is already known and is not the root "Class",   *)
(* and once it is known neither it nor its parent ever changes.            *)
(***************************************************************************)
CONSTANTS ClassName,   \* every name a class may have
          Root,        \* the class nobody may inherit from
          Initial      \* the parent of each built-in class

VARIABLE parent        \* known class -> the class it inherits from

Init == parent = Initial

Extend(c, p) ==
  /\ c \notin DOMAIN parent
  /\ p \in DOMAIN parent \ {Root}
  /\ parent' = [d \in DOMAIN parent \cup {c} |-> IF d = c THEN p ELSE parent[d]]

Next == \E c, p \in ClassName : Extend(c, p)

Spec == Init /\ [][Next]_parent
=============================================================================
