----------------------------- MODULE LexerProofs -----------------------------
(***************************************************************************)
(* The tokens of every text, for every base and every width of an int:     *)
(* they account for the text, they are the longest there are, and they     *)
(* point at what they were made of.  Everything rests on what a scan over  *)
(* a set of classes returns.                                               *)
(***************************************************************************)
EXTENDS Lexer, WellFoundedInduction, FiniteSetTheorems, TLAPS

AnyClass == Sign \cup {"letter", "space", "digit", "end"}

TextOK == text \in Seq(Character) /\ pos \in 1..(Len(text) + 1)

LEMMA ClassFacts ==
  ASSUME TextOK, NEW i \in Nat \ {0}
  PROVE  /\ Class(i) \in AnyClass
         /\ Class(i) = "end" <=> i > Len(text)
         /\ Class(i) = "digit" => text[i][2] \in Digit
<1>1. CASE i > Len(text)
  BY <1>1, Len(text) \in Nat DEF TextOK, Class, AnyClass
<1>2. CASE i <= Len(text)
  <2>1. text[i] \in Character /\ Class(i) = text[i][1]
    BY <1>2 DEF TextOK, Class
  <2>2. CASE text[i] \in {<<"digit", d>> : d \in Digit}
    BY <2>1, <2>2, <1>2 DEF AnyClass, TextOK
  <2>3. CASE text[i] \in {<<s, 0>> : s \in Sign \cup {"letter", "space"}}
    <3>1. Class(i) \in Sign \cup {"letter", "space"}
      BY <2>1, <2>3
    <3>2. Class(i) \in AnyClass /\ Class(i) # "end" /\ Class(i) # "digit"
      BY <3>1 DEF AnyClass, Sign
    <3>. QED BY <3>2, <1>2, Len(text) \in Nat DEF TextOK
  <2>. QED BY <2>1, <2>2, <2>3 DEF Character
<1>. QED BY <1>1, <1>2, Len(text) \in Nat DEF TextOK

\* A set of positions has a first one.
LEMMA FirstPosition ==
  ASSUME NEW S \in SUBSET Nat, S # {}
  PROVE  \E j \in S : \A k \in S : j <= k
<1>1. \E j \in S : \A k \in S : <<k, j>> \notin OpToRel(<, Nat)
  BY NatLessThanWellFounded, WFMin
<1>2. PICK j \in S : \A k \in S : <<k, j>> \notin OpToRel(<, Nat)
  BY <1>1
<1>3. ASSUME NEW k \in S PROVE j <= k
  <2>1. j \in Nat /\ k \in Nat
    OBVIOUS
  <2>2. ~(k < j)
    BY <1>2, <2>1 DEF OpToRel
  <2>. QED BY <2>1, <2>2
<1>. QED BY <1>3

\* A scan stops: at the end of the text, which has no class that is skipped.
LEMMA Scan ==
  ASSUME TextOK, NEW i \in 1..(Len(text) + 1), NEW classes, "end" \notin classes
  PROVE  /\ After(i, classes) \in i..(Len(text) + 1)
         /\ Class(After(i, classes)) \notin classes
         /\ All(i, After(i, classes), classes)
<1> DEFINE S == {j \in i..(Len(text) + 1) : Class(j) \notin classes}
<1>0. Len(text) \in Nat
  BY DEF TextOK
<1>1. Class(Len(text) + 1) = "end"
  BY <1>0, ClassFacts
<1>2. S \in SUBSET Nat /\ S # {}
  BY <1>0, <1>1
<1>3. PICK j \in S : \A k \in S : j <= k
  <2>. HIDE DEF S
  <2>. QED BY <1>2, FirstPosition
<1>4. /\ j \in i..(Len(text) + 1)
      /\ Class(j) \notin classes
      /\ \A k \in i..(j - 1) : Class(k) \in classes
  BY <1>0, <1>3
<1>5. /\ After(i, classes) \in i..(Len(text) + 1)
      /\ Class(After(i, classes)) \notin classes
      /\ \A k \in i..(After(i, classes) - 1) : Class(k) \in classes
  BY <1>4 DEF After
<1>. QED BY <1>5 DEF All

-----------------------------------------------------------------------------
(* What stands before a token, and where the numbers end. *)

NoNewline(i, j) == \A k \in i..(j - 1) : Class(k) # "newline"

LEMMA BlankFacts ==
  ASSUME TextOK
  PROVE  /\ Blank \in pos..(Len(text) + 1)
         /\ Dropped(pos, Blank)
         /\ NoNewline(pos, Blank)
         /\ Class(Blank) \notin {"newline", "end"} =>
              Blank = AfterSpace /\ All(pos, Blank, {"space"})
<1>0. Len(text) \in Nat /\ pos \in 1..(Len(text) + 1)
  BY DEF TextOK
<1>1. /\ AfterSpace \in pos..(Len(text) + 1)
      /\ All(pos, AfterSpace, {"space"})
  BY Scan DEF TextOK, AfterSpace
<1>2. AfterSpace \in 1..(Len(text) + 1)
  BY <1>0, <1>1
<1>3. CASE Class(AfterSpace) = "/" /\ Class(AfterSpace + 1) = "/"
  <2> DEFINE j == After(AfterSpace, NotNewline)
  <2>1. /\ j \in AfterSpace..(Len(text) + 1)
        /\ Class(j) \notin NotNewline
        /\ All(AfterSpace, j, NotNewline)
    BY <1>2, Scan DEF NotNewline, Sign
  <2>2. Blank = j
    BY <1>3 DEF Blank
  <2>. HIDE DEF j
  <2>3. j # AfterSpace /\ j # AfterSpace + 1
    BY <1>3, <2>1 DEF NotNewline, Sign
  <2>4. AfterSpace + 1 < j /\ j \in Nat \ {0}
    BY <1>0, <1>2, <2>1, <2>3
  <2>5. Class(j) \in {"newline", "end"}
    BY <2>1, <2>4, ClassFacts DEF NotNewline, AnyClass
  <2>6. Dropped(pos, j)
    BY <1>0, <1>1, <1>3, <2>1, <2>4, <2>5 DEF Dropped
  <2>7. NoNewline(pos, j)
    <3>1. ASSUME NEW k \in pos..(j - 1) PROVE Class(k) # "newline"
      <4>1. CASE k < AfterSpace
        BY <4>1, <1>0, <1>1 DEF All
      <4>2. CASE k >= AfterSpace
        <5>1. Class(k) \in NotNewline
          BY <4>2, <1>0, <1>1, <2>1 DEF All
        <5>. QED BY <5>1 DEF NotNewline
      <4>. QED BY <4>1, <4>2, <1>0, <1>1
    <3>. QED BY <3>1 DEF NoNewline
  <2>. QED BY <1>0, <1>1, <2>1, <2>2, <2>5, <2>6, <2>7
<1>4. CASE ~(Class(AfterSpace) = "/" /\ Class(AfterSpace + 1) = "/")
  <2>1. Blank = AfterSpace
    BY <1>4 DEF Blank
  <2>2. Dropped(pos, AfterSpace)
    BY <1>0, <1>1 DEF Dropped
  <2>3. NoNewline(pos, AfterSpace)
    BY <1>1 DEF All, NoNewline
  <2>. QED BY <1>1, <2>1, <2>2, <2>3
<1>. QED BY <1>3, <1>4

LEMMA DigitsFacts ==
  ASSUME TextOK
  PROVE  /\ Digits \in pos..(Len(text) + 1)
         /\ Blank <= Digits
         /\ NoNewline(pos, Digits)
         /\ Class(Digits) # "digit" => Dropped(pos, Digits)
         /\ Digits = IF Class(Blank) = "-" THEN Blank + 1 ELSE Blank
         /\ Class(Digits) # Class(Blank) => Class(Digits - 1) = "-"
<1>0. Len(text) \in Nat /\ pos \in 1..(Len(text) + 1)
  BY DEF TextOK
<1>1. CASE Class(Blank) = "-"
  <2>1. Digits = Blank + 1
    BY <1>1 DEF Digits, Minus
  <2>2. Blank \in pos..(Len(text) + 1) /\ All(pos, Blank, {"space"})
    BY <1>1, BlankFacts
  <2>3. Blank \in Nat \ {0}
    BY <1>0, <2>2
  <2>4. Blank <= Len(text)
    BY <1>0, <1>1, <2>2, <2>3, ClassFacts
  <2>5. NoNewline(pos, Blank + 1)
    BY <1>0, <1>1, <2>2, BlankFacts DEF NoNewline
  <2>6. Class(Blank + 1) # "digit" => Dropped(pos, Blank + 1)
    BY <1>0, <1>1, <2>2 DEF Dropped
  <2>7. Class(Blank + 1 - 1) = "-"
    <3>1. Blank + 1 - 1 = Blank
      BY <2>3
    <3>. QED BY <3>1, <1>1
  <2>. QED BY <1>0, <1>1, <2>1, <2>2, <2>3, <2>4, <2>5, <2>6, <2>7
<1>2. CASE Class(Blank) # "-"
  <2>1. Digits = Blank
    BY <1>2 DEF Digits, Minus
  <2>. QED BY <1>0, <1>2, <2>1, BlankFacts
<1>. QED BY <1>1, <1>2

LEMMA NumberFacts ==
  ASSUME TextOK, Class(Digits) = "digit"
  PROVE  /\ IntEnd \in (Digits + 1)..(Len(text) + 1)
         /\ All(Digits, IntEnd, {"digit"})
         /\ Class(IntEnd) # "digit"
         /\ IsReal =>
              /\ RealEnd \in (IntEnd + 2)..(Len(text) + 1)
              /\ All(IntEnd + 1, RealEnd, {"digit"})
              /\ Class(RealEnd) # "digit"
<1>0. Len(text) \in Nat /\ pos \in 1..(Len(text) + 1) /\ Digits \in pos..(Len(text) + 1)
  BY DigitsFacts DEF TextOK
<1>1. /\ IntEnd \in Digits..(Len(text) + 1)
      /\ All(Digits, IntEnd, {"digit"})
      /\ Class(IntEnd) # "digit"
  BY <1>0, Scan DEF IntEnd
<1>2. IntEnd # Digits
  BY <1>1
<1>3. CASE IsReal
  <2>1. Class(IntEnd + 1) = "digit" /\ IntEnd + 1 \in Nat \ {0}
    BY <1>0, <1>1, <1>3 DEF IsReal
  <2>2. IntEnd + 1 \in 1..(Len(text) + 1)
    BY <1>0, <1>1, <2>1, ClassFacts
  <2>3. /\ RealEnd \in (IntEnd + 1)..(Len(text) + 1)
        /\ All(IntEnd + 1, RealEnd, {"digit"})
        /\ Class(RealEnd) # "digit"
    BY <2>2, Scan DEF RealEnd
  <2>4. RealEnd # IntEnd + 1
    BY <2>1, <2>3
  <2>. QED BY <1>0, <1>1, <1>2, <2>3, <2>4
<1>. QED BY <1>0, <1>1, <1>2, <1>3

-----------------------------------------------------------------------------
(* The value of digits: the recursion defines a function, and it is a natural number. *)

Digitwise(f, i, n) ==
  f = [k \in (i - 1)..n |-> IF k < i THEN 0 ELSE Base * f[k - 1] + text[k][2]]

LEMMA DigitwiseExists ==
  ASSUME NEW i \in Nat \ {0}, NEW j \in Nat, i <= j
  PROVE  \E f : Digitwise(f, i, j)
<1> DEFINE S == {n \in (i - 1)..j : ~\E f : Digitwise(f, i, n)}
<1>1. ASSUME S # {} PROVE FALSE
  <2>1. S \in SUBSET Nat
    OBVIOUS
  <2>2. PICK n \in S : \A k \in S : n <= k
    <3>. HIDE DEF S
    <3>. QED BY <1>1, <2>1, FirstPosition
  <2>3. n \in (i - 1)..j /\ ~\E f : Digitwise(f, i, n)
    OBVIOUS
  <2>4. CASE n = i - 1
    <3> DEFINE f == [k \in (i - 1)..n |-> 0]
    <3>1. f = [k \in (i - 1)..n |-> IF k < i THEN 0 ELSE Base * f[k - 1] + text[k][2]]
      BY <2>4
    <3>. QED BY <3>1, <2>3 DEF Digitwise
  <2>5. CASE n > i - 1
    <3>1. n - 1 \in (i - 1)..j /\ n - 1 \notin S
      BY <2>2, <2>3, <2>5
    <3>2. PICK f : Digitwise(f, i, n - 1)
      BY <3>1
    <3> DEFINE g == [k \in (i - 1)..n |-> IF k = n THEN Base * f[n - 1] + text[n][2] ELSE f[k]]
    <3>3. ASSUME NEW k \in (i - 1)..n
          PROVE  g[k] = IF k < i THEN 0 ELSE Base * g[k - 1] + text[k][2]
      <4>1. CASE k = n
        BY <4>1, <2>3, <2>5
      <4>2. CASE k # n
        <5>1. k \in (i - 1)..(n - 1) /\ g[k] = f[k]
          BY <4>2, <2>3
        <5>2. f[k] = IF k < i THEN 0 ELSE Base * f[k - 1] + text[k][2]
          BY <5>1, <3>2 DEF Digitwise
        <5>3. k >= i => g[k - 1] = f[k - 1]
          BY <5>1, <2>3
        <5>. QED BY <5>1, <5>2, <5>3
      <4>. QED BY <4>1, <4>2
    <3>4. g = [k \in (i - 1)..n |-> IF k < i THEN 0 ELSE Base * g[k - 1] + text[k][2]]
      BY <3>3
    <3>. QED BY <3>4, <2>3 DEF Digitwise
  <2>. QED BY <2>3, <2>4, <2>5
<1>2. j \in (i - 1)..j /\ j \notin S
  BY <1>1
<1>. QED BY <1>2

LEMMA ValueIsNatural ==
  ASSUME TextOK, NEW i \in Nat \ {0}, NEW e \in Nat, i < e, All(i, e, {"digit"})
  PROVE  Value(i, e - 1) \in Nat
<1> DEFINE j == e - 1
           val == CHOOSE f : Digitwise(f, i, j)
<1>1. j \in Nat /\ i <= j
  OBVIOUS
<1>2. Digitwise(val, i, j)
  <2>. HIDE DEF j
  <2>. QED BY <1>1, DigitwiseExists
<1>3. Value(i, j) = val[j]
  BY DEF Value, Digitwise
<1>4. ASSUME NEW k \in (i - 1)..j
      PROVE  val[k] = IF k < i THEN 0 ELSE Base * val[k - 1] + text[k][2]
  <2>. HIDE DEF val
  <2>. QED BY <1>2 DEF Digitwise
<1> DEFINE S == {k \in (i - 1)..j : val[k] \notin Nat}
<1>5. ASSUME S # {} PROVE FALSE
  <2>1. S \in SUBSET Nat
    OBVIOUS
  <2>2. PICK k \in S : \A n \in S : k <= n
    <3>. HIDE DEF S
    <3>. QED BY <1>5, <2>1, FirstPosition
  <2>. HIDE DEF val
  <2>3. k \in (i - 1)..j /\ val[k] \notin Nat
    OBVIOUS
  <2>4. k >= i
    BY <2>3, <1>4
  <2>5. val[k - 1] \in Nat
    <3>1. k - 1 \in (i - 1)..j /\ ~(k <= k - 1)
      BY <2>3, <2>4
    <3>. QED BY <3>1, <2>2
  <2>6. text[k][2] \in Nat
    BY <2>3, <2>4, ClassFacts, LexerAssumption DEF All, Digit
  <2>7. val[k] = Base * val[k - 1] + text[k][2]
    BY <1>4, <2>3, <2>4
  <2>8. Base * val[k - 1] \in Nat
    BY <2>5, LexerAssumption
  <2>. QED BY <2>3, <2>6, <2>7, <2>8
<1>6. j \in (i - 1)..j
  BY <1>1
<1>. QED BY <1>3, <1>5, <1>6

-----------------------------------------------------------------------------
(* Lexemes. *)

Plain == {"(", ")", ":", ".", ","}

\* What a lexeme looks like at its start, and where it ends.
LEMMA LexemeShape ==
  ASSUME NEW i \in Nat \ {0}, NEW j \in Nat, Lexeme(i, j) # {}
  PROVE  \/ Class(i) = "letter" /\ i < j /\ All(i, j, {"letter", "digit"})
         \/ IsNumber(i, j)
         \/ \E d \in (i + 1)..(j - 1) : Class(d) = "." /\ IsNumber(i, d) /\ IsDigits(d + 1, j)
         \/ IsPair(i) /\ j = i + 2
         \/ Class(i) \in Plain \cup {"newline"} /\ j = i + 1
<1>1. PICK type \in Type : type \in Lexeme(i, j)
  BY DEF Lexeme
<1>2. CASE type = "word"
  BY <1>1, <1>2 DEF Lexeme
<1>3. CASE type = "int"
  BY <1>1, <1>3 DEF Lexeme
<1>4. CASE type = "real"
  BY <1>1, <1>4 DEF Lexeme
<1>5. CASE type \in {"assignment", "fat_arrow"}
  <2>1. \/ Class(i) = ":" /\ Class(i + 1) = "=" /\ j = i + 2
        \/ Class(i) = "=" /\ Class(i + 1) = ">" /\ j = i + 2
    BY <1>1, <1>5 DEF Lexeme
  <2>. QED BY <2>1 DEF IsPair, PairEnd
<1>6. CASE type \in {"eof", "unknown"}
  BY <1>1, <1>6 DEF Lexeme
<1>7. CASE type \in Plain \cup {"newline"}
  <2>1. j = i + 1 /\ Class(i) = type
    BY <1>1, <1>7 DEF Lexeme, Plain
  <2>. QED BY <2>1, <1>7
<1>. QED BY <1>2, <1>3, <1>4, <1>5, <1>6, <1>7 DEF Type, Plain

\* A number starts with a digit or a minus and a digit, and ends behind digits.
LEMMA NumberShape ==
  ASSUME NEW i \in Nat \ {0}, NEW j \in Nat, IsNumber(i, j)
  PROVE  \/ /\ Class(i) = "digit" /\ i < j /\ All(i, j, {"digit"})
         \/ /\ Class(i) = "-" /\ Class(i + 1) = "digit" /\ i + 1 < j
            /\ All(i + 1, j, {"digit"})
<1>1. PICK c \in {i, i + 1} : (c = i \/ Class(i) = "-") /\ IsDigits(c, j)
  BY DEF IsNumber
<1>2. c < j /\ All(c, j, {"digit"}) /\ Class(c) = "digit"
  BY <1>1 DEF IsDigits, All
<1>. QED BY <1>1, <1>2

\* Only these start a number, real or not.
LEMMA NumberStart ==
  ASSUME NEW i \in Nat \ {0}, NEW j \in Nat,
         \/ IsNumber(i, j)
         \/ \E d \in (i + 1)..(j - 1) : Class(d) = "." /\ IsNumber(i, d) /\ IsDigits(d + 1, j)
  PROVE  Class(i) = "digit" \/ (Class(i) = "-" /\ Class(i + 1) = "digit")
<1>1. CASE IsNumber(i, j)
  BY <1>1, NumberShape
<1>2. CASE \E d \in (i + 1)..(j - 1) : Class(d) = "." /\ IsNumber(i, d) /\ IsDigits(d + 1, j)
  <2>1. PICK d \in (i + 1)..(j - 1) : IsNumber(i, d)
    BY <1>2
  <2>. QED BY <2>1, NumberShape
<1>. QED BY <1>1, <1>2

Longest(t) ==
  /\ t.type \notin {"eof", "unknown"} =>
       /\ t.type \in Lexeme(t.from, t.to)
       /\ \A j \in (t.to + 1)..(Len(text) + 1) : Lexeme(t.from, j) = {}
  /\ t.type = "unknown" =>
       /\ t.to = t.from + 1
       /\ \/ \A j \in t.from..(Len(text) + 1) : Lexeme(t.from, j) = {}
          \/ t.from > 1 /\ Class(t.from - 1) = "-"

LEMMA WordIsLongest ==
  ASSUME TextOK, NEW i \in Nat \ {0}, NEW e \in Nat, i < e, Class(i) = "letter",
         All(i, e, {"letter", "digit"}), Class(e) \notin {"letter", "digit"}
  PROVE  /\ "word" \in Lexeme(i, e)
         /\ \A j \in (e + 1)..(Len(text) + 1) : Lexeme(i, j) = {}
<1>1. "word" \in Lexeme(i, e)
  BY DEF Lexeme, Type
<1>2. ASSUME NEW j \in (e + 1)..(Len(text) + 1), Lexeme(i, j) # {} PROVE FALSE
  <2>0. j \in Nat /\ e < j
    BY DEF TextOK
  <2>1. ~All(i, j, {"letter", "digit"})
    BY <2>0 DEF All
  <2>2. ~(Class(i) = "digit" \/ (Class(i) = "-" /\ Class(i + 1) = "digit"))
    OBVIOUS
  <2>3. Class(i) \notin Plain \cup {"newline"} /\ ~IsPair(i)
    BY DEF Plain, IsPair, PairEnd
  <2>. QED BY <1>2, <2>0, <2>1, <2>2, <2>3, LexemeShape, NumberStart
<1>. QED BY <1>1, <1>2

\* A number whose digits from c on end at e: without a point and a digit there it is an
\* int, and with them a real that ends at r.
LEMMA NumberIsLongest ==
  ASSUME TextOK, NEW i \in Nat \ {0}, NEW c \in {i, i + 1}, c = i \/ Class(i) = "-",
         NEW e \in Nat, c < e, All(c, e, {"digit"}), Class(e) # "digit"
  PROVE  /\ IsNumber(i, e)
         /\ \A j \in Nat : IsNumber(i, j) => j <= e
         /\ \A j \in Nat : Lexeme(i, j) # {} =>
              \/ IsNumber(i, j)
              \/ \E d \in (i + 1)..(j - 1) : Class(d) = "." /\ IsNumber(i, d) /\ IsDigits(d + 1, j)
         /\ \A d \in Nat : Class(d) = "." /\ IsNumber(i, d) => d = e
<1>0. Class(c) = "digit"
  BY DEF All
<1>1. IsNumber(i, e)
  BY DEF IsNumber, IsDigits
<1>2. ASSUME NEW j \in Nat, IsNumber(i, j) PROVE j <= e /\ c < j /\ (Class(j) = "." => j = e)
  <2>1. \/ Class(i) = "digit" /\ i < j /\ All(i, j, {"digit"})
        \/ Class(i) = "-" /\ i + 1 < j /\ All(i + 1, j, {"digit"})
    BY <1>2, NumberShape
  <2>2. c < j /\ All(c, j, {"digit"})
    BY <1>0, <2>1
  <2>3. ~(e < j)
    BY <2>2 DEF All
  <2>4. j < e => Class(j) = "digit"
    BY <2>2 DEF All
  <2>. QED BY <2>2, <2>3, <2>4
<1>3. ASSUME NEW j \in Nat, Lexeme(i, j) # {}
      PROVE  \/ IsNumber(i, j)
             \/ \E d \in (i + 1)..(j - 1) : Class(d) = "." /\ IsNumber(i, d) /\ IsDigits(d + 1, j)
  <2>1. Class(i) \in {"digit", "-"}
    BY <1>0
  <2>2. Class(i) # "letter" /\ Class(i) \notin Plain \cup {"newline"} /\ ~IsPair(i)
    BY <2>1 DEF Plain, IsPair, PairEnd
  <2>. QED BY <1>3, <2>2, LexemeShape
<1>. QED BY <1>1, <1>2, <1>3

LEMMA IntIsLongest ==
  ASSUME TextOK, NEW i \in Nat \ {0}, NEW c \in {i, i + 1}, c = i \/ Class(i) = "-",
         NEW e \in Nat, c < e, All(c, e, {"digit"}), Class(e) # "digit",
         ~(Class(e) = "." /\ Class(e + 1) = "digit")
  PROVE  /\ "int" \in Lexeme(i, e)
         /\ \A j \in (e + 1)..(Len(text) + 1) : Lexeme(i, j) = {}
<1>1. "int" \in Lexeme(i, e)
  BY NumberIsLongest DEF Lexeme, Type
<1>2. ASSUME NEW j \in (e + 1)..(Len(text) + 1), Lexeme(i, j) # {} PROVE FALSE
  <2>0. j \in Nat /\ e < j
    BY DEF TextOK
  <2>1. ~IsNumber(i, j)
    BY <2>0, NumberIsLongest
  <2>2. PICK d \in (i + 1)..(j - 1) : Class(d) = "." /\ IsNumber(i, d) /\ IsDigits(d + 1, j)
    BY <1>2, <2>0, <2>1, NumberIsLongest
  <2>3. d = e
    BY <2>0, <2>2, NumberIsLongest
  <2>4. Class(e + 1) = "digit"
    BY <2>0, <2>2, <2>3 DEF IsDigits, All
  <2>. QED BY <2>2, <2>3, <2>4
<1>. QED BY <1>1, <1>2

LEMMA RealIsLongest ==
  ASSUME TextOK, NEW i \in Nat \ {0}, NEW c \in {i, i + 1}, c = i \/ Class(i) = "-",
         NEW e \in Nat, c < e, All(c, e, {"digit"}), Class(e) = ".",
         NEW r \in Nat, e + 1 < r, All(e + 1, r, {"digit"}), Class(r) # "digit"
  PROVE  /\ "real" \in Lexeme(i, r)
         /\ \A j \in (r + 1)..(Len(text) + 1) : Lexeme(i, j) = {}
<1>1. "real" \in Lexeme(i, r)
  <2>1. e \in (i + 1)..(r - 1) /\ IsNumber(i, e) /\ IsDigits(e + 1, r)
    BY NumberIsLongest DEF IsDigits
  <2>. QED BY <2>1 DEF Lexeme, Type
<1>2. ASSUME NEW j \in (r + 1)..(Len(text) + 1), Lexeme(i, j) # {} PROVE FALSE
  <2>0. j \in Nat /\ r < j
    BY DEF TextOK
  <2>1. ~IsNumber(i, j)
    BY <2>0, NumberIsLongest
  <2>2. PICK d \in (i + 1)..(j - 1) : Class(d) = "." /\ IsNumber(i, d) /\ IsDigits(d + 1, j)
    BY <1>2, <2>0, <2>1, NumberIsLongest
  <2>3. d = e
    BY <2>0, <2>2, NumberIsLongest
  <2>4. Class(r) = "digit"
    BY <2>0, <2>2, <2>3 DEF IsDigits, All
  <2>. QED BY <2>4
<1>. QED BY <1>1, <1>2

-----------------------------------------------------------------------------
(* What a call of take_next_token does: it takes a token, or it aborts. *)

TokenRecord ==
  [type : Type, from : Nat \ {0}, to : Nat \ {0}, line : Nat \ {0},
   start : Nat, end : Nat, value : (-IntMax)..IntMax]

\* The token goes from pos, or from what is dropped there, to the next position.
Lies(t) ==
  /\ t \in TokenRecord
  /\ t.from \in pos..(Len(text) + 1) /\ t.to \in t.from..(Len(text) + 1)
  /\ Dropped(pos, t.from)
  /\ Longest(t)

Takes(t) ==
  /\ Lies(t)
  /\ text' = text /\ tokens' = Append(tokens, t) /\ pos' = t.to
  /\ result' \in {"running", "done"}
  /\ t.type = "eof" <=> result' = "done"
  /\ t.type = "eof" => t.to = Len(text) + 1

\* The token stands on the line where the last one ended.
SameLine(t) ==
  /\ NoNewline(pos, t.to)
  /\ line' = line
  /\ column' = column + (t.to - pos)
  /\ t.type \notin {"newline", "eof"} =>
       /\ t.line = line
       /\ t.start = column + (t.from - pos) + 1
       /\ t.end = column + (t.to - pos) + 1

EndsLine(t) ==
  /\ NoNewline(pos, t.from)
  /\ Class(t.from) = "newline" /\ t.to = t.from + 1 /\ t.to \in 1..(Len(text) + 1)
  /\ t.type = "newline"
  /\ line' = line + 1
  /\ column' = 0

Position == TextOK /\ line \in Nat \ {0} /\ column \in Nat

\* A token that lies in the text is well typed.
LEMMA TokenType ==
  ASSUME Position, NEW type \in Type, NEW from \in pos..(Len(text) + 1),
         NEW to \in from..(Len(text) + 1), NEW start \in Nat, NEW value \in (-IntMax)..IntMax
  PROVE  Token(type, from, to, start, value) \in TokenRecord
<1>1. /\ from \in Nat \ {0} /\ to \in Nat \ {0}
      /\ column + (to - pos) + 1 \in Nat
  BY DEF Position, TextOK
<1>. QED BY <1>1 DEF Token, TokenRecord, Position

LEMMA ZeroFits == 0 \in (-IntMax)..IntMax
BY LexerAssumption

LEMMA ColumnType ==
  ASSUME Position, NEW i \in pos..(Len(text) + 1)
  PROVE  Column(i) \in Nat /\ Column(i) - 1 \in Nat /\ Column(i) = column + (i - pos) + 1
BY DEF Position, TextOK, Column

LEMMA WordTaken ==
  ASSUME Position, TakeWord
  PROVE  \E t \in TokenRecord : Takes(t) /\ SameLine(t)
<1> DEFINE e == After(Blank, {"letter", "digit"})
           t == Token("word", Blank, e, Column(Blank), 0)
<1>0. Len(text) \in Nat /\ pos \in 1..(Len(text) + 1) /\ TextOK
  BY DEF Position, TextOK
<1>1. Class(Blank) = "letter" /\ Emit(t) /\ result = "running"
  BY DEF TakeWord, Running
<1>2. /\ Blank \in pos..(Len(text) + 1) /\ Dropped(pos, Blank) /\ NoNewline(pos, Blank)
  BY <1>0, BlankFacts
<1>3. Blank \in 1..(Len(text) + 1)
  BY <1>0, <1>2
<1>4. /\ e \in Blank..(Len(text) + 1)
      /\ Class(e) \notin {"letter", "digit"}
      /\ All(Blank, e, {"letter", "digit"})
  BY <1>0, <1>3, Scan
<1>5. Blank < e /\ e \in Nat
  BY <1>1, <1>3, <1>4
<1>6. t \in TokenRecord
  BY <1>2, <1>4, TokenType, ColumnType, ZeroFits DEF Type
<1>7. t.type = "word" /\ t.from = Blank /\ t.to = e /\ t.line = line /\ t.start = Column(Blank)
        /\ t.end = column + (e - pos) + 1
  BY DEF Token
<1>. HIDE DEF e, t
<1>8. Longest(t)
  BY <1>0, <1>1, <1>3, <1>4, <1>5, <1>7, WordIsLongest DEF Longest
<1>9. NoNewline(pos, e)
  BY <1>0, <1>2, <1>4 DEF NoNewline, All
<1>. QED BY <1>0, <1>1, <1>2, <1>4, <1>6, <1>7, <1>8, <1>9, ColumnType
     DEF Takes, SameLine, Lies, Emit

\* Numbers of both kinds: where they stand, and that no line ends in them.
LEMMA NumberPlace ==
  ASSUME Position, Class(Digits) = "digit"
  PROVE  /\ Len(text) \in Nat /\ pos \in 1..(Len(text) + 1) /\ TextOK
         /\ Blank \in pos..(Len(text) + 1) /\ Blank \in Nat \ {0} /\ Dropped(pos, Blank)
         /\ Digits \in {Blank, Blank + 1} /\ (Digits = Blank \/ Class(Blank) = "-")
         /\ IntEnd \in Nat /\ Digits < IntEnd /\ Blank < IntEnd /\ IntEnd <= Len(text) + 1
         /\ All(Digits, IntEnd, {"digit"}) /\ Class(IntEnd) # "digit"
         /\ NoNewline(pos, IntEnd)
<1>0. Len(text) \in Nat /\ pos \in 1..(Len(text) + 1) /\ TextOK
  BY DEF Position, TextOK
<1>1. Blank \in pos..(Len(text) + 1) /\ Dropped(pos, Blank)
  BY <1>0, BlankFacts
<1>2. /\ Digits \in pos..(Len(text) + 1) /\ NoNewline(pos, Digits)
      /\ Digits = IF Class(Blank) = "-" THEN Blank + 1 ELSE Blank
  BY <1>0, DigitsFacts
<1>3. /\ IntEnd \in (Digits + 1)..(Len(text) + 1)
      /\ All(Digits, IntEnd, {"digit"}) /\ Class(IntEnd) # "digit"
  BY <1>0, NumberFacts
<1>4. NoNewline(pos, IntEnd)
  BY <1>0, <1>2, <1>3 DEF NoNewline, All
<1>. QED BY <1>0, <1>1, <1>2, <1>3, <1>4

LEMMA RealTaken ==
  ASSUME Position, TakeReal
  PROVE  Abort \/ \E t \in TokenRecord : Takes(t) /\ SameLine(t)
<1> DEFINE t == Token("real", Blank, RealEnd, Column(Blank), 0)
<1>0. CASE ~RealFits
  BY <1>0 DEF TakeReal
<1>. SUFFICES ASSUME RealFits PROVE \E r \in TokenRecord : Takes(r) /\ SameLine(r)
  BY <1>0
<1>1. Class(Digits) = "digit" /\ IsReal /\ Emit(t) /\ result = "running"
  BY DEF TakeReal, Running
<1>2. /\ Len(text) \in Nat /\ pos \in 1..(Len(text) + 1) /\ TextOK
      /\ Blank \in pos..(Len(text) + 1) /\ Blank \in Nat \ {0} /\ Dropped(pos, Blank)
      /\ Digits \in {Blank, Blank + 1} /\ (Digits = Blank \/ Class(Blank) = "-")
      /\ IntEnd \in Nat /\ Digits < IntEnd /\ Blank < IntEnd /\ IntEnd <= Len(text) + 1
      /\ All(Digits, IntEnd, {"digit"}) /\ Class(IntEnd) # "digit"
      /\ NoNewline(pos, IntEnd)
  BY <1>1, NumberPlace
<1>3. /\ RealEnd \in (IntEnd + 2)..(Len(text) + 1)
      /\ All(IntEnd + 1, RealEnd, {"digit"})
      /\ Class(RealEnd) # "digit" /\ Class(IntEnd) = "."
  BY <1>1, <1>2, NumberFacts DEF IsReal
<1>4. RealEnd \in Nat /\ IntEnd + 1 < RealEnd /\ RealEnd \in Blank..(Len(text) + 1)
  BY <1>2, <1>3
<1>5. t \in TokenRecord
  BY <1>2, <1>4, TokenType, ColumnType, ZeroFits DEF Type
<1>6. t.type = "real" /\ t.from = Blank /\ t.to = RealEnd /\ t.line = line
        /\ t.start = Column(Blank) /\ t.end = column + (RealEnd - pos) + 1
  BY DEF Token
<1>. HIDE DEF t
<1>7. Longest(t)
  BY <1>2, <1>3, <1>4, <1>6, RealIsLongest DEF Longest
<1>8. NoNewline(pos, RealEnd)
  <2>1. ASSUME NEW k \in pos..(RealEnd - 1) PROVE Class(k) # "newline"
    <3>1. CASE k < IntEnd
      BY <1>2, <3>1 DEF NoNewline
    <3>2. CASE k = IntEnd
      BY <1>3, <3>2
    <3>3. CASE k > IntEnd
      BY <1>2, <1>3, <3>3 DEF All
    <3>. QED BY <1>2, <3>1, <3>2, <3>3
  <2>. QED BY <2>1 DEF NoNewline
<1>. QED BY <1>1, <1>2, <1>4, <1>5, <1>6, <1>7, <1>8, ColumnType
     DEF Takes, SameLine, Lies, Emit

LEMMA IntTaken ==
  ASSUME Position, TakeInt
  PROVE  Abort \/ \E t \in TokenRecord : Takes(t) /\ SameLine(t)
<1> DEFINE n == Value(Digits, IntEnd - 1)
           v == IF Minus THEN -n ELSE n
           t == Token("int", Blank, IntEnd, Column(Blank), v)
<1>1. Class(Digits) = "digit" /\ ~IsReal /\ result = "running"
  BY DEF TakeInt, Running
<1>2. /\ Len(text) \in Nat /\ pos \in 1..(Len(text) + 1) /\ TextOK
      /\ Blank \in pos..(Len(text) + 1) /\ Blank \in Nat \ {0} /\ Dropped(pos, Blank)
      /\ Digits \in {Blank, Blank + 1} /\ (Digits = Blank \/ Class(Blank) = "-")
      /\ IntEnd \in Nat /\ Digits < IntEnd /\ Blank < IntEnd /\ IntEnd <= Len(text) + 1
      /\ All(Digits, IntEnd, {"digit"}) /\ Class(IntEnd) # "digit"
      /\ NoNewline(pos, IntEnd)
  BY <1>1, NumberPlace
<1>3. CASE n > IntMax
  BY <1>3 DEF TakeInt, Abort
<1>4. CASE ~(n > IntMax)
  <2>1. Emit(t)
    BY <1>4 DEF TakeInt
  <2>2. n \in Nat
    <3>1. Digits \in Nat \ {0}
      BY <1>2
    <3>. QED BY <1>2, <3>1, ValueIsNatural
  <2>3. v \in (-IntMax)..IntMax
    BY <1>4, <2>2, LexerAssumption
  <2>. HIDE DEF v
  <2>4. IntEnd \in Blank..(Len(text) + 1)
    BY <1>2
  <2>5. t \in TokenRecord
    BY <1>2, <2>3, <2>4, TokenType, ColumnType DEF Type
  <2>6. t.type = "int" /\ t.from = Blank /\ t.to = IntEnd /\ t.line = line
          /\ t.start = Column(Blank) /\ t.end = column + (IntEnd - pos) + 1
    BY DEF Token
  <2>. HIDE DEF t
  <2>7. Longest(t)
    BY <1>1, <1>2, <2>6, IntIsLongest DEF Longest, IsReal
  <2>. QED BY <1>1, <1>2, <2>1, <2>4, <2>5, <2>6, <2>7, ColumnType
       DEF Takes, SameLine, Lies, Emit
<1>. QED BY <1>3, <1>4

\* Where a symbol, the end of a line or of the text stands.
LEMMA SymbolPlace ==
  ASSUME Position, Class(Digits) # "digit"
  PROVE  /\ Len(text) \in Nat /\ pos \in 1..(Len(text) + 1) /\ TextOK
         /\ Digits \in pos..(Len(text) + 1) /\ Digits \in Nat \ {0}
         /\ Dropped(pos, Digits) /\ NoNewline(pos, Digits)
         /\ Class(Digits) = "end" <=> Digits = Len(text) + 1
         /\ Class(Digits) # Class(Blank) => Class(Digits - 1) = "-" /\ Digits > 1
<1>0. Len(text) \in Nat /\ pos \in 1..(Len(text) + 1) /\ TextOK
  BY DEF Position, TextOK
<1>1. /\ Digits \in pos..(Len(text) + 1) /\ Dropped(pos, Digits) /\ NoNewline(pos, Digits)
      /\ Digits = IF Class(Blank) = "-" THEN Blank + 1 ELSE Blank
      /\ Class(Digits) # Class(Blank) => Class(Digits - 1) = "-"
  BY <1>0, DigitsFacts
<1>2. Digits \in Nat \ {0}
  BY <1>0, <1>1
<1>3. Class(Digits) = "end" <=> Digits > Len(text)
  BY <1>0, <1>2, ClassFacts
<1>4. Blank \in pos..(Len(text) + 1)
  BY <1>0, BlankFacts
<1>5. Class(Digits) # Class(Blank) => Digits > 1
  BY <1>0, <1>1, <1>4
<1>. QED BY <1>0, <1>1, <1>2, <1>3, <1>5

LEMMA PairTaken ==
  ASSUME Position, TakePair
  PROVE  \E t \in TokenRecord : Takes(t) /\ SameLine(t)
<1> DEFINE type == IF Class(Digits) = ":" THEN "assignment" ELSE "fat_arrow"
           t == Token(type, Digits, Digits + 2, Column(Digits), 0)
<1>1. Class(Digits) \notin {"digit", "end"} /\ IsPair(Digits) /\ Emit(t) /\ result = "running"
  BY DEF TakePair, AtSymbol, Running
<1>2. /\ Len(text) \in Nat /\ pos \in 1..(Len(text) + 1) /\ TextOK
      /\ Digits \in pos..(Len(text) + 1) /\ Digits \in Nat \ {0}
      /\ Dropped(pos, Digits) /\ NoNewline(pos, Digits)
      /\ Class(Digits) = "end" <=> Digits = Len(text) + 1
  BY <1>1, SymbolPlace
<1>3. \/ Class(Digits) = ":" /\ Class(Digits + 1) = "="
      \/ Class(Digits) = "=" /\ Class(Digits + 1) = ">"
  BY <1>1 DEF IsPair, PairEnd
<1>4. Digits + 2 \in Digits..(Len(text) + 1) /\ Digits + 2 \in Nat
  <2>1. Class(Digits + 1) # "end" /\ Digits + 1 \in Nat \ {0}
    BY <1>2, <1>3
  <2>2. ~(Digits + 1 > Len(text))
    BY <1>2, <2>1, ClassFacts
  <2>. QED BY <1>2, <2>2
<1>5. type \in Type /\ type \in {"assignment", "fat_arrow"}
  BY DEF Type
<1>6. type \in Lexeme(Digits, Digits + 2)
  BY <1>3, <1>5 DEF Lexeme
<1>. HIDE DEF type
<1>7. t \in TokenRecord
  BY <1>2, <1>4, <1>5, TokenType, ColumnType, ZeroFits
<1>8. t.type = type /\ t.from = Digits /\ t.to = Digits + 2 /\ t.line = line
        /\ t.start = Column(Digits) /\ t.end = column + ((Digits + 2) - pos) + 1
  BY DEF Token
<1>. HIDE DEF t
<1>9. ASSUME NEW j \in (Digits + 3)..(Len(text) + 1), Lexeme(Digits, j) # {} PROVE FALSE
  <2>0. j \in Nat /\ Digits + 2 < j
    BY <1>2
  <2>1. Class(Digits) \in {":", "="}
    BY <1>3
  <2>. QED BY <1>2, <1>9, <2>0, <2>1, LexemeShape, NumberStart
<1>10. Longest(t)
  BY <1>2, <1>5, <1>6, <1>8, <1>9 DEF Longest
<1>11. NoNewline(pos, Digits + 2)
  BY <1>2, <1>3 DEF NoNewline
<1>. QED BY <1>1, <1>2, <1>4, <1>5, <1>7, <1>8, <1>10, <1>11, ColumnType
     DEF Takes, SameLine, Lies, Emit

LEMMA SignTaken ==
  ASSUME Position, TakeSign
  PROVE  \E t \in TokenRecord : Takes(t) /\ SameLine(t)
<1> DEFINE type == IF Class(Digits) \in {"(", ")", ":", ".", ","} THEN Class(Digits) ELSE "unknown"
           t == Token(type, Digits, Digits + 1, Column(Digits), 0)
<1>1. /\ Class(Digits) \notin {"digit", "end", "newline"} /\ Class(Blank) # "letter"
      /\ ~IsPair(Digits) /\ result = "running"
  BY DEF TakeSign, AtSymbol, Running
<1>e. Emit(t)
  BY DEF TakeSign
<1>2. /\ Len(text) \in Nat /\ pos \in 1..(Len(text) + 1) /\ TextOK
      /\ Digits \in pos..(Len(text) + 1) /\ Digits \in Nat \ {0}
      /\ Dropped(pos, Digits) /\ NoNewline(pos, Digits)
      /\ Class(Digits) = "end" <=> Digits = Len(text) + 1
      /\ Class(Digits) # Class(Blank) => Class(Digits - 1) = "-" /\ Digits > 1
  BY <1>1, SymbolPlace
<1>3. Digits + 1 \in Digits..(Len(text) + 1) /\ Digits + 1 \in Nat
  <2>1. Digits # Len(text) + 1
    BY <1>1, <1>2
  <2>. QED BY <1>2, <2>1
<1>4. /\ type \in Type /\ type \in Plain \cup {"unknown"}
      /\ Class(Digits) \in Plain => type = Class(Digits)
      /\ Class(Digits) \notin Plain => type = "unknown"
  BY DEF Type, Plain
<1>. HIDE DEF type
<1>6. t \in TokenRecord
  BY <1>2, <1>3, <1>4, TokenType, ColumnType, ZeroFits
<1>7. t.type = type /\ t.from = Digits /\ t.to = Digits + 1 /\ t.line = line
        /\ t.start = Column(Digits) /\ t.end = column + ((Digits + 1) - pos) + 1
  BY DEF Token
<1>. HIDE DEF t
<1>8. ASSUME Class(Digits) \in Plain
      PROVE  /\ type \in Lexeme(Digits, Digits + 1)
             /\ \A j \in (Digits + 2)..(Len(text) + 1) : Lexeme(Digits, j) = {}
  <2>1. type = Class(Digits) /\ type \in Plain
    BY <1>4, <1>8
  <2>2. type \in Lexeme(Digits, Digits + 1)
    BY <1>4, <2>1 DEF Lexeme, Plain
  <2>3. ASSUME NEW j \in (Digits + 2)..(Len(text) + 1), Lexeme(Digits, j) # {} PROVE FALSE
    <3>0. j \in Nat /\ Digits + 1 < j
      BY <1>2
    <3>1. Class(Digits) \notin {"letter", "-"}
      BY <1>8 DEF Plain
    <3>. QED BY <1>1, <1>2, <2>3, <3>0, <3>1, LexemeShape, NumberStart
  <2>. QED BY <2>2, <2>3
<1>9. ASSUME Class(Digits) \notin Plain
      PROVE  \/ \A j \in Digits..(Len(text) + 1) : Lexeme(Digits, j) = {}
             \/ Digits > 1 /\ Class(Digits - 1) = "-"
  <2>1. CASE Class(Digits) = Class(Blank) /\ Class(Digits) # "-"
    <3>1. ASSUME NEW j \in Digits..(Len(text) + 1), Lexeme(Digits, j) # {} PROVE FALSE
      <4>1. j \in Nat
        BY <1>2
      <4>. QED BY <1>1, <1>2, <1>9, <2>1, <3>1, <4>1, LexemeShape, NumberStart
    <3>. QED BY <3>1
  <2>2. CASE Class(Digits) = Class(Blank) /\ Class(Digits) = "-"
    <3>1. Blank \in pos..(Len(text) + 1) /\ Digits = Blank + 1
      BY <1>2, <2>2, BlankFacts, DigitsFacts
    <3>2. Digits > 1 /\ Digits - 1 = Blank
      BY <1>2, <3>1
    <3>. QED BY <2>2, <3>2
  <2>3. CASE Class(Digits) # Class(Blank)
    BY <1>2, <2>3
  <2>. QED BY <2>1, <2>2, <2>3
<1>10. Longest(t)
  <2>1. CASE Class(Digits) \in Plain
    <3>1. type \notin {"unknown", "eof"}
      BY <1>4, <2>1 DEF Plain
    <3>. QED BY <1>2, <1>7, <1>8, <2>1, <3>1 DEF Longest
  <2>2. CASE Class(Digits) \notin Plain
    BY <1>2, <1>4, <1>7, <1>9, <2>2 DEF Longest
  <2>. QED BY <2>1, <2>2
<1>11. NoNewline(pos, Digits + 1)
  BY <1>1, <1>2 DEF NoNewline
<1>12. type # "eof" /\ type # "newline"
  BY <1>4 DEF Plain
<1>. QED BY <1>1, <1>e, <1>2, <1>3, <1>6, <1>7, <1>10, <1>11, <1>12, ColumnType
     DEF Takes, SameLine, Lies, Emit

LEMMA NewlineTaken ==
  ASSUME Position, TakeNewline
  PROVE  \E t \in TokenRecord : Takes(t) /\ EndsLine(t)
<1> DEFINE t == [type |-> "newline", from |-> Digits, to |-> Digits + 1,
                 line |-> line + 1, start |-> 0, end |-> 1, value |-> 0]
<1>1. /\ Class(Digits) = "newline" /\ result = "running"
      /\ tokens' = Append(tokens, t) /\ pos' = Digits + 1 /\ line' = line + 1
      /\ column' = 0 /\ text' = text /\ result' = result
  BY DEF TakeNewline, AtSymbol, Running
<1>2. /\ Len(text) \in Nat /\ pos \in 1..(Len(text) + 1) /\ TextOK
      /\ Digits \in pos..(Len(text) + 1) /\ Digits \in Nat \ {0}
      /\ Dropped(pos, Digits) /\ NoNewline(pos, Digits)
      /\ Class(Digits) = "end" <=> Digits = Len(text) + 1
  BY <1>1, SymbolPlace
<1>3. Digits + 1 \in Digits..(Len(text) + 1) /\ Digits + 1 \in 1..(Len(text) + 1)
  <2>1. Digits # Len(text) + 1
    BY <1>1, <1>2
  <2>. QED BY <1>2, <2>1
<1>4. t \in TokenRecord
  BY <1>2, <1>3, ZeroFits DEF TokenRecord, Type, Position
<1>5. t.type = "newline" /\ t.from = Digits /\ t.to = Digits + 1
  OBVIOUS
<1>. HIDE DEF t
<1>6. "newline" \in Lexeme(Digits, Digits + 1)
  BY <1>1 DEF Lexeme, Type
<1>7. ASSUME NEW j \in (Digits + 2)..(Len(text) + 1), Lexeme(Digits, j) # {} PROVE FALSE
  <2>0. j \in Nat /\ Digits + 1 < j
    BY <1>2
  <2>1. ~IsPair(Digits)
    BY <1>1 DEF IsPair, PairEnd
  <2>. QED BY <1>1, <1>2, <1>7, <2>0, <2>1, LexemeShape, NumberStart
<1>8. Longest(t)
  BY <1>2, <1>5, <1>6, <1>7 DEF Longest
<1>. QED BY <1>1, <1>2, <1>3, <1>4, <1>5, <1>8 DEF Takes, EndsLine, Lies

LEMMA EofTaken ==
  ASSUME Position, TakeEof
  PROVE  \E t \in TokenRecord : Takes(t) /\ SameLine(t)
<1> DEFINE t == Token("eof", Digits, Digits, Column(Digits) - 1, 0)
<1>1. /\ Class(Digits) = "end"
      /\ tokens' = Append(tokens, t) /\ pos' = Digits /\ line' = line
      /\ column' = column + (Digits - pos) /\ text' = text /\ result' = "done"
  BY DEF TakeEof
<1>2. /\ Len(text) \in Nat /\ pos \in 1..(Len(text) + 1) /\ TextOK
      /\ Digits \in pos..(Len(text) + 1) /\ Digits \in Nat \ {0}
      /\ Dropped(pos, Digits) /\ NoNewline(pos, Digits)
      /\ Class(Digits) = "end" <=> Digits = Len(text) + 1
  BY <1>1, SymbolPlace
<1>3. Digits \in Digits..(Len(text) + 1)
  BY <1>2
<1>4. t \in TokenRecord
  BY <1>2, <1>3, TokenType, ColumnType, ZeroFits DEF Type
<1>5. t.type = "eof" /\ t.from = Digits /\ t.to = Digits
  BY DEF Token
<1>. HIDE DEF t
<1>6. Longest(t)
  BY <1>5 DEF Longest
<1>. QED BY <1>1, <1>2, <1>3, <1>4, <1>5, <1>6 DEF Takes, SameLine, Lies

LEMMA Takings ==
  ASSUME Position, Next
  PROVE  Abort \/ \E t \in TokenRecord : Takes(t) /\ (SameLine(t) \/ EndsLine(t))
BY WordTaken, RealTaken, IntTaken, PairTaken, SignTaken, NewlineTaken, EofTaken DEF Next

-----------------------------------------------------------------------------
(* Lines and columns. *)

\* The counters agree with the text: what was counted on the way is what is there.
Places ==
  /\ line = 1 + Cardinality(NewlinesBefore(pos))
  /\ LineStart(pos) = pos - (column + 1)

LEMMA NewlinesFinite ==
  ASSUME NEW i \in Nat
  PROVE  IsFiniteSet(NewlinesBefore(i)) /\ Cardinality(NewlinesBefore(i)) \in Nat
<1>1. IsFiniteSet(1..(i - 1))
  BY FS_Interval
<1>2. NewlinesBefore(i) \in SUBSET (1..(i - 1))
  BY DEF NewlinesBefore
<1>. QED BY <1>1, <1>2, FS_Subset, FS_CardinalityType

\* Without a newline between two positions they are on one line.
LEMMA OneLine ==
  ASSUME NEW i \in Nat \ {0}, NEW j \in Nat, i <= j, NoNewline(i, j)
  PROVE  NewlinesBefore(j) = NewlinesBefore(i) /\ LineStart(j) = LineStart(i)
<1>1. NewlinesBefore(j) = NewlinesBefore(i)
  BY DEF NewlinesBefore, NoNewline
<1>. QED BY <1>1 DEF LineStart

\* After a newline there is one more, and it starts the line.
LEMMA NextLine ==
  ASSUME NEW i \in Nat \ {0}, Class(i) = "newline"
  PROVE  /\ Cardinality(NewlinesBefore(i + 1)) = Cardinality(NewlinesBefore(i)) + 1
         /\ LineStart(i + 1) = i
<1>1. NewlinesBefore(i + 1) = NewlinesBefore(i) \cup {i} /\ i \notin NewlinesBefore(i)
  BY DEF NewlinesBefore
<1>2. Cardinality(NewlinesBefore(i + 1)) = Cardinality(NewlinesBefore(i)) + 1
  BY <1>1, NewlinesFinite, FS_AddElement
<1>3. \A n \in NewlinesBefore(i + 1) : n <= i /\ n \in Nat
  BY DEF NewlinesBefore
<1>4. i \in NewlinesBefore(i + 1)
  BY <1>1
<1>5. LineStart(i + 1) = i
  <2>1. LineStart(i + 1) =
          CHOOSE k \in NewlinesBefore(i + 1) : \A n \in NewlinesBefore(i + 1) : n <= k
    BY <1>4 DEF LineStart
  <2>2. LineStart(i + 1) \in NewlinesBefore(i + 1) /\ i <= LineStart(i + 1)
    BY <1>3, <1>4, <2>1
  <2>. QED BY <1>3, <2>2
<1>. QED BY <1>2, <1>5

Spans(t) ==
  t.type \notin {"newline", "eof"} =>
    /\ t.line = 1 + Cardinality(NewlinesBefore(t.from))
    /\ t.start = t.from - LineStart(t.from)
    /\ t.end = t.to - LineStart(t.from)

-----------------------------------------------------------------------------
(* The invariant. *)

IInv == TypeOK /\ TokensCoverTheText /\ LexemesAreLongest /\ SpansPointAtTheText /\ Places

LEMMA TypedPosition ==
  ASSUME TypeOK
  PROVE  Position /\ tokens \in Seq(TokenRecord) /\ Len(tokens) \in Nat
BY LexerAssumption DEF TypeOK, Position, TextOK, TokenRecord

LEMMA InitIInv ==
  ASSUME Init
  PROVE  IInv
<1>1. TypeOK
  BY LexerAssumption DEF Init, TypeOK
<1>2. TokensCoverTheText
  BY DEF Init, TokensCoverTheText
<1>3. LexemesAreLongest /\ SpansPointAtTheText
  BY DEF Init, LexemesAreLongest, SpansPointAtTheText
<1>4. Places
  <2>1. NewlinesBefore(1) = {}
    BY DEF NewlinesBefore
  <2>2. Cardinality(NewlinesBefore(1)) = 0 /\ LineStart(1) = 0
    BY <2>1, FS_EmptySet DEF LineStart
  <2>. QED BY <2>2 DEF Init, Places
<1>. QED BY <1>1, <1>2, <1>3, <1>4 DEF IInv

\* The new token is the last, and the others stay where they are.
LEMMA Appended ==
  ASSUME TypeOK, NEW t \in TokenRecord, tokens' = Append(tokens, t)
  PROVE  /\ Len(tokens') = Len(tokens) + 1
         /\ DOMAIN tokens' = 1..(Len(tokens) + 1)
         /\ DOMAIN tokens = 1..Len(tokens)
         /\ tokens'[Len(tokens) + 1] = t
         /\ \A k \in 1..Len(tokens) : tokens'[k] = tokens[k] /\ tokens[k] \in TokenRecord
BY TypedPosition

\* What is said of the text does not change with the rest of the state.
LEMMA SameText ==
  ASSUME text' = text
  PROVE  /\ \A i : Class(i)' = Class(i)
         /\ \A i, j : Dropped(i, j)' = Dropped(i, j)
         /\ \A i, j : Lexeme(i, j)' = Lexeme(i, j)
         /\ \A i : NewlinesBefore(i)' = NewlinesBefore(i)
         /\ \A i : LineStart(i)' = LineStart(i)
<1>1. \A i : Class(i)' = Class(i)
  BY DEF Class
<1>2. \A i, j : Dropped(i, j)' = Dropped(i, j)
  BY DEF Dropped, All, Class
<1>3. \A i, j : Lexeme(i, j)' = Lexeme(i, j)
  BY DEF Lexeme, IsNumber, IsDigits, All, Class
<1>4. \A i : NewlinesBefore(i)' = NewlinesBefore(i)
  BY DEF NewlinesBefore, Class
<1>5. \A i : LineStart(i)' = LineStart(i)
  BY DEF LineStart, NewlinesBefore, Class
<1>. QED BY <1>1, <1>2, <1>3, <1>4, <1>5

LEMMA CoverStep ==
  ASSUME IInv, result = "running", NEW t \in TokenRecord, Takes(t)
  PROVE  TokensCoverTheText'
<1> DEFINE n == Len(tokens)
           to(k) == IF k = 0 THEN 1 ELSE tokens[k].to
           newTo(k) == IF k = 0 THEN 1 ELSE tokens'[k].to
<1>0. /\ n \in Nat /\ Len(tokens') = n + 1 /\ DOMAIN tokens' = 1..(n + 1) /\ DOMAIN tokens = 1..n
      /\ tokens'[n + 1] = t
      /\ \A k \in 1..n : tokens'[k] = tokens[k]
  BY Appended, TypedPosition DEF IInv, Takes
<1>1. /\ \A k \in 1..n : to(k - 1) <= tokens[k].from /\ Dropped(to(k - 1), tokens[k].from)
      /\ to(n) = pos
      /\ \A k \in 1..n : tokens[k].type # "eof"
  BY <1>0 DEF IInv, TokensCoverTheText
<1>2. /\ text' = text /\ pos' = t.to /\ pos <= t.from /\ Dropped(pos, t.from)
      /\ t.type = "eof" <=> result' = "done"
      /\ t.type = "eof" => t.to = Len(text) + 1
  BY DEF Takes, Lies
<1>3. \A i, j : Dropped(i, j)' = Dropped(i, j)
  BY <1>2, SameText
<1>4. \A k \in 0..n : newTo(k) = to(k)
  BY <1>0
<1>5. newTo(n + 1) = t.to
  BY <1>0
<1>6. ASSUME NEW k \in 1..(n + 1)
      PROVE  newTo(k - 1) <= tokens'[k].from /\ Dropped(newTo(k - 1), tokens'[k].from)
  <2>1. CASE k = n + 1
    <3>1. newTo(k - 1) = pos /\ tokens'[k].from = t.from
      BY <1>0, <1>1, <1>4, <2>1
    <3>. QED BY <3>1, <1>2
  <2>2. CASE k \in 1..n
    <3>1. k - 1 \in 0..n
      BY <1>0, <2>2
    <3>2. newTo(k - 1) = to(k - 1) /\ tokens'[k].from = tokens[k].from
      BY <1>0, <1>4, <2>2, <3>1
    <3>. QED BY <1>1, <2>2, <3>2
  <2>. QED BY <1>0, <2>1, <2>2
<1>7. ASSUME NEW k \in 1..(n + 1)
      PROVE  tokens'[k].type = "eof" <=> (k = n + 1 /\ result' = "done")
  BY <1>0, <1>1, <1>2
<1>. QED BY <1>0, <1>2, <1>3, <1>5, <1>6, <1>7 DEF TokensCoverTheText

LEMMA LongestStep ==
  ASSUME IInv, NEW t \in TokenRecord, Takes(t)
  PROVE  LexemesAreLongest'
<1>0. /\ DOMAIN tokens' = 1..(Len(tokens) + 1) /\ DOMAIN tokens = 1..Len(tokens)
      /\ tokens'[Len(tokens) + 1] = t /\ Len(tokens) \in Nat
      /\ \A k \in 1..Len(tokens) : tokens'[k] = tokens[k]
  BY Appended, TypedPosition DEF IInv, Takes
<1>1. \A k \in 1..Len(tokens) : Longest(tokens[k])
  BY <1>0 DEF IInv, LexemesAreLongest, Longest
<1>2. Longest(t) /\ text' = text
  BY DEF Takes, Lies
<1>3. /\ \A i : Class(i)' = Class(i)
      /\ \A i, j : Lexeme(i, j)' = Lexeme(i, j)
  BY <1>2, SameText
<1>4. ASSUME NEW k \in 1..(Len(tokens) + 1) PROVE Longest(tokens'[k])
  BY <1>0, <1>1, <1>2
<1>. QED BY <1>0, <1>2, <1>3, <1>4 DEF LexemesAreLongest, Longest

LEMMA SpansStep ==
  ASSUME IInv, NEW t \in TokenRecord, Takes(t), SameLine(t) \/ EndsLine(t)
  PROVE  SpansPointAtTheText' /\ Places'
<1>0. /\ DOMAIN tokens' = 1..(Len(tokens) + 1) /\ DOMAIN tokens = 1..Len(tokens)
      /\ tokens'[Len(tokens) + 1] = t /\ Len(tokens) \in Nat
      /\ \A k \in 1..Len(tokens) : tokens'[k] = tokens[k]
  BY Appended, TypedPosition DEF IInv, Takes
<1>1. /\ text' = text /\ pos' = t.to /\ pos \in Nat \ {0} /\ t.from \in Nat \ {0} /\ t.to \in Nat
      /\ pos <= t.from /\ t.from <= t.to /\ column \in Nat /\ line \in Nat
      /\ line = 1 + Cardinality(NewlinesBefore(pos)) /\ LineStart(pos) = pos - (column + 1)
  BY TypedPosition DEF IInv, Takes, Lies, Places, Position, TextOK, TokenRecord
<1>2. /\ \A i : NewlinesBefore(i)' = NewlinesBefore(i)
      /\ \A i : LineStart(i)' = LineStart(i)
  BY <1>1, SameText
<1>3. \A k \in 1..Len(tokens) : Spans(tokens[k])
  BY <1>0 DEF IInv, SpansPointAtTheText, Spans
<1>4. CASE SameLine(t)
  <2>1. NoNewline(pos, t.to) /\ NoNewline(pos, t.from)
    BY <1>1, <1>4 DEF SameLine, NoNewline
  <2>2. /\ NewlinesBefore(t.to) = NewlinesBefore(pos) /\ LineStart(t.to) = LineStart(pos)
        /\ NewlinesBefore(t.from) = NewlinesBefore(pos) /\ LineStart(t.from) = LineStart(pos)
    BY <1>1, <2>1, OneLine
  <2>3. Spans(t)
    BY <1>1, <1>4, <2>2 DEF Spans, SameLine
  <2>4. line' = line /\ column' = column + (t.to - pos)
    BY <1>4 DEF SameLine
  <2>5. Places'
    BY <1>1, <1>2, <2>2, <2>4 DEF Places
  <2>6. ASSUME NEW k \in 1..(Len(tokens) + 1) PROVE Spans(tokens'[k])
    BY <1>0, <1>3, <2>3
  <2>. QED BY <1>0, <1>2, <2>5, <2>6 DEF SpansPointAtTheText, Spans
<1>5. CASE EndsLine(t)
  <2>1. /\ NoNewline(pos, t.from) /\ Class(t.from) = "newline" /\ t.to = t.from + 1
        /\ t.type = "newline" /\ line' = line + 1 /\ column' = 0
    BY <1>5 DEF EndsLine
  <2>2. NewlinesBefore(t.from) = NewlinesBefore(pos)
    BY <1>1, <2>1, OneLine
  <2>3. /\ Cardinality(NewlinesBefore(t.from + 1)) = Cardinality(NewlinesBefore(t.from)) + 1
        /\ LineStart(t.from + 1) = t.from
    BY <1>1, <2>1, NextLine
  <2>4. Cardinality(NewlinesBefore(pos)) \in Nat
    BY <1>1, NewlinesFinite
  <2>5. Places'
    BY <1>1, <1>2, <2>1, <2>2, <2>3, <2>4 DEF Places
  <2>6. ASSUME NEW k \in 1..(Len(tokens) + 1) PROVE Spans(tokens'[k])
    <3>1. Spans(t)
      BY <2>1 DEF Spans
    <3>. QED BY <1>0, <1>3, <3>1
  <2>. QED BY <1>0, <1>2, <2>5, <2>6 DEF SpansPointAtTheText, Spans
<1>. QED BY <1>4, <1>5

LEMMA TypeStep ==
  ASSUME IInv, NEW t \in TokenRecord, Takes(t), SameLine(t) \/ EndsLine(t)
  PROVE  TypeOK'
<1>1. /\ text' = text /\ pos' = t.to /\ result' \in {"running", "done"}
      /\ t.to \in t.from..(Len(text) + 1) /\ t.from \in pos..(Len(text) + 1)
      /\ tokens' = Append(tokens, t)
  BY DEF Takes, Lies
<1>2. Position /\ text \in Texts /\ tokens \in Seq(TokenRecord) /\ Len(text) \in Nat
  BY TypedPosition DEF IInv, TypeOK, Position, TextOK
<1>3. pos' \in 1..(Len(text) + 1) /\ t.to - pos \in Nat
  BY <1>1, <1>2 DEF Position, TextOK
<1>4. line' \in Nat \ {0} /\ column' \in Nat
  BY <1>2, <1>3 DEF Position, SameLine, EndsLine
<1>5. tokens' \in Seq(TokenRecord)
  BY <1>1, <1>2
<1>. QED BY <1>1, <1>2, <1>3, <1>4, <1>5 DEF TypeOK, TokenRecord

LEMMA StepIInv ==
  ASSUME IInv, [Next]_vars
  PROVE  IInv'
<1>1. ASSUME UNCHANGED <<text, pos, line, column, tokens>>, result = "running" \/ UNCHANGED result,
             result' \in {result, "aborted"}
      PROVE  IInv'
  <2>1. TypeOK'
    BY <1>1 DEF IInv, TypeOK
  <2>2. TokensCoverTheText'
    BY <1>1, SameText DEF IInv, TokensCoverTheText
  <2>3. LexemesAreLongest'
    <3>1. \A k \in DOMAIN tokens : Longest(tokens[k])
      BY DEF IInv, LexemesAreLongest, Longest
    <3>2. text' = text /\ tokens' = tokens
      BY <1>1
    <3>3. /\ \A i : Class(i)' = Class(i)
          /\ \A i, j : Lexeme(i, j)' = Lexeme(i, j)
      BY <1>1, SameText
    <3>. QED BY <3>1, <3>2, <3>3 DEF LexemesAreLongest, Longest
  <2>4. SpansPointAtTheText'
    BY <1>1, SameText DEF IInv, SpansPointAtTheText
  <2>5. Places'
    BY <1>1, SameText DEF IInv, Places
  <2>. QED BY <2>1, <2>2, <2>3, <2>4, <2>5 DEF IInv
<1>2. CASE Next
  <2>0. result = "running"
    BY <1>2 DEF Next, TakeWord, TakeReal, TakeInt, TakePair, TakeSign, TakeNewline, TakeEof,
       AtSymbol, Running
  <2>1. CASE Abort
    BY <1>1, <2>0, <2>1 DEF Abort
  <2>2. CASE \E t \in TokenRecord : Takes(t) /\ (SameLine(t) \/ EndsLine(t))
    BY <2>0, <2>2, TypeStep, CoverStep, LongestStep, SpansStep DEF IInv
  <2>. QED BY <1>2, <2>1, <2>2, Takings, TypedPosition DEF IInv
<1>3. CASE UNCHANGED vars
  BY <1>1, <1>3 DEF vars
<1>. QED BY <1>2, <1>3

LEMMA IInvHolds == Spec => []IInv
BY InitIInv, StepIInv, PTL DEF Spec

-----------------------------------------------------------------------------

\* The lexer is well typed for every text: above all, the value of a token fits an int,
\* whatever the base and the width.
THEOREM TypeCorrect == Spec => []TypeOK
<1>1. IInv => TypeOK
  BY DEF IInv
<1>. QED BY <1>1, IInvHolds, PTL

\* No character of any text is lost but blanks, comments and signs without a digit, and
\* there is one token for the end.
THEOREM TokensCover == Spec => []TokensCoverTheText
<1>1. IInv => TokensCoverTheText
  BY DEF IInv
<1>. QED BY <1>1, IInvHolds, PTL

\* No word or number is cut in two, in a text of any length.
THEOREM LongestLexemes == Spec => []LexemesAreLongest
<1>1. IInv => LexemesAreLongest
  BY DEF IInv
<1>. QED BY <1>1, IInvHolds, PTL

\* Lines and columns are right however many tokens, comments and lines came before.
THEOREM SpansCorrect == Spec => []SpansPointAtTheText
<1>1. IInv => SpansPointAtTheText
  BY DEF IInv
<1>. QED BY <1>1, IInvHolds, PTL
=============================================================================
