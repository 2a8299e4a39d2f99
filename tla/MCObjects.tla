------------------------------ MODULE MCObjects ------------------------------
EXTENDS Objects

ClassOf(base, value, fields, ctor, method) ==
  [base |-> base, value |-> value, fields |-> fields, ctor |-> ctor, method |-> method]

\* Values: 2 extends 1, and both are what m takes and gives.
Values ==
  [classes |-> <<ClassOf(Builtin, TRUE, <<NumberType>>, <<>>, TRUE),
                 ClassOf(1, TRUE, <<NumberType>>, <<>>, TRUE),
                 ClassOf(Builtin, FALSE, <<1>>, <<>>, TRUE)>>,
   param |-> 1, ret |-> 1]

\* A value in a value: a copy of a 2 shares its field with the original.
Nested ==
  [classes |-> <<ClassOf(Builtin, TRUE, <<NumberType>>, <<>>, FALSE),
                 ClassOf(Builtin, TRUE, <<1>>, <<1>>, TRUE),
                 ClassOf(Builtin, FALSE, <<>>, <<>>, FALSE)>>,
   param |-> NumberType, ret |-> 1]

\* References to values: 3 extends 2, hands its argument on and inherits m.
References ==
  [classes |-> <<ClassOf(Builtin, TRUE, <<NumberType>>, <<>>, TRUE),
                 ClassOf(Builtin, FALSE, <<1>>, <<1>>, TRUE),
                 ClassOf(2, FALSE, <<1, NumberType>>, <<1>>, FALSE),
                 ClassOf(Builtin, FALSE, <<>>, <<>>, FALSE)>>,
   param |-> NumberType, ret |-> 1]

\* 3 hands itself to the constructor of its base while it is constructed, and that on
\* to its own base.
Unfinished ==
  [classes |-> <<ClassOf(Builtin, FALSE, <<NumberType>>, <<2>>, FALSE),
                 ClassOf(1, FALSE, <<NumberType>>, <<2>>, TRUE),
                 ClassOf(2, FALSE, <<NumberType>>, <<>>, TRUE),
                 ClassOf(Builtin, FALSE, <<>>, <<>>, FALSE)>>,
   param |-> 2, ret |-> NumberType]

MCPrograms == <<Values, Nested, References, Unfinished>>
=============================================================================
