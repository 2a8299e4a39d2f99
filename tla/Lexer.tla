-------------------------------- MODULE Lexer --------------------------------
(***************************************************************************)
(* The lexer, compiler/lexer/lexer.h.  One action is one call of           *)
(* take_next_token: it skips whitespace and a comment, then tries a word,  *)
(* a number and a symbol, in that order.  text is a view that loses what   *)
(* was taken; here pos is the index of its first character.                *)
(*                                                                         *)
(* Characters are classes: letters and `_', whitespace other than the end  *)
(* of a line, and the signs.  Digits have their value, in base Base, and   *)
(* IntMax is the largest value of an int: 2^31 - 1 in the code.  A double  *)
(* holds the reals below RealMax + 1 that are zero, at least 1/RealScale   *)
(* (2^-1022 in the code) or, below that, multiples of 1/RealGrain          *)
(* (2^-1074): std::stod throws for the others.                             *)
(***************************************************************************)
EXTENDS Integers, Sequences, FiniteSets

CONSTANTS
  Texts,     \* the texts of a run: sequences of Character
  Base,      \* the base of the digits
  IntMax,    \* the largest int
  RealMax,   \* the largest whole part of a double
  RealScale, \* one over the smallest double that is not subnormal
  RealGrain  \* one over the smallest double

Digit == 0..(Base - 1)
Sign == {"-", ".", ":", "=", ">", "/", "(", ")", ",", "newline", "other"}
Character == {<<"digit", d>> : d \in Digit}
               \cup {<<s, 0>> : s \in Sign \cup {"letter", "space"}}

ASSUME LexerAssumption ==
  /\ Base \in Nat \ {0}
  /\ {IntMax, RealMax, RealScale, RealGrain} \subseteq Nat
  /\ Texts \subseteq Seq(Character)

VARIABLES
  text,      \* the whole text
  pos,       \* the first character that was not taken
  line,      \* line_num
  column,    \* column_num: how many characters of the line were taken
  tokens,    \* the tokens so far, with the characters each is made of
  result     \* "running", "done", or "aborted": terminated by an exception in noexcept code

vars == <<text, pos, line, column, tokens, result>>

Init ==
  /\ text \in Texts
  /\ pos = 1
  /\ line = 1
  /\ column = 0
  /\ tokens = <<>>
  /\ result = "running"

(***************************************************************************)
(* Looking at the text.                                                    *)
(***************************************************************************)
Class(i) == IF i <= Len(text) THEN text[i][1] ELSE "end"   \* peek_next_symbol

\* The first position from i on that has no character of these classes.
After(i, classes) ==
  CHOOSE j \in i..(Len(text) + 1) :
    /\ Class(j) \notin classes
    /\ \A k \in i..(j - 1) : Class(k) \in classes

NotNewline == (Sign \ {"newline"}) \cup {"letter", "digit", "space"}

AfterSpace == After(pos, {"space"})

\* Mutant: the end of the line belongs to the comment.
Blank_WithNewline ==
  IF Class(AfterSpace) = "/" /\ Class(AfterSpace + 1) = "/" /\
     Class(After(AfterSpace, NotNewline)) = "newline"
    THEN After(AfterSpace, NotNewline) + 1 ELSE AfterSpace

\* One comment; what follows it is the end of its line, or of the text.
Blank ==
  IF Class(AfterSpace) = "/" /\ Class(AfterSpace + 1) = "/"
    THEN After(AfterSpace, NotNewline) ELSE AfterSpace

\* Token from..to-1; start is the column the span begins with, counted from 1.
Token(type, from, to, start, value) ==
  [type |-> type, from |-> from, to |-> to, line |-> line, start |-> start,
   end |-> column + (to - pos) + 1, value |-> value]

\* The token is taken together with the blanks before it: it ends at to.
Emit(token) ==
  /\ tokens' = Append(tokens, token)
  /\ pos' = token.to
  /\ column' = column + (token.to - pos)
  /\ UNCHANGED <<text, line, result>>

Running == result = "running"
Column(i) == column + (i - pos) + 1     \* the column of the character at i, on this line

(***************************************************************************)
(* Words: identifiers and keywords.                                        *)
(***************************************************************************)
TakeWord ==
  /\ Running
  /\ Class(Blank) = "letter"
  /\ Emit(Token("word", Blank, After(Blank, {"letter", "digit"}), Column(Blank), 0))

(***************************************************************************)
(* Numbers.  A minus is taken before it is known that a digit follows.     *)
(***************************************************************************)
Minus == Class(Blank) = "-"
Digits == IF Minus THEN Blank + 1 ELSE Blank
IntEnd == After(Digits, {"digit"})
\* Mutant: a point makes a number real whatever follows it.
IsReal_AnyPoint == Class(IntEnd) = "."

IsReal == Class(IntEnd) = "." /\ Class(IntEnd + 1) = "digit"
RealEnd == After(IntEnd + 1, {"digit"})

\* The value of the digits from i to j.
Value(i, j) ==
  LET val[k \in (i - 1)..j] == IF k < i THEN 0 ELSE Base * val[k - 1] + text[k][2]
  IN  val[j]

\* What ends the program: an exception in noexcept code.
Abort == result' = "aborted" /\ UNCHANGED <<text, pos, line, column, tokens>>

\* A part of a real is a number of units of 1/unit, unit a power of the base.
RealFits ==
  LET whole == Value(Digits, IntEnd - 1)
      part  == Value(IntEnd + 1, RealEnd - 1)
      unit  == Base ^ (RealEnd - IntEnd - 1)
  IN  /\ whole <= RealMax
      /\ whole > 0 \/ part * RealScale >= unit \/ (part * RealGrain) % unit = 0

\* std::stod throws when no double stands for the digits.
TakeReal ==
  /\ Running
  /\ Class(Digits) = "digit"
  /\ IsReal
  /\ IF RealFits THEN Emit(Token("real", Blank, RealEnd, Column(Blank), 0)) ELSE Abort

\* Mutant: the digits are not checked against the width of an int.
TakeInt_Unchecked ==
  /\ Running
  /\ Class(Digits) = "digit"
  /\ ~IsReal
  /\ LET value == Value(Digits, IntEnd - 1)
     IN  Emit(Token("int", Blank, IntEnd, Column(Blank), IF Minus THEN -value ELSE value))

\* std::stoi throws when the digits do not fit an int, before the sign is applied.
TakeInt ==
  /\ Running
  /\ Class(Digits) = "digit"
  /\ ~IsReal
  /\ LET value == Value(Digits, IntEnd - 1)
     IN  IF value > IntMax
           THEN Abort
           ELSE Emit(Token("int", Blank, IntEnd, Column(Blank),
                           IF Minus THEN -value ELSE value))

(***************************************************************************)
(* Symbols.  After a minus that no digit follows, the next character is    *)
(* taken as a symbol whatever it is.                                       *)
(***************************************************************************)
PairEnd == [s \in {":", "="} |-> IF s = ":" THEN "=" ELSE ">"]
IsPair(i) == Class(i) \in DOMAIN PairEnd /\ Class(i + 1) = PairEnd[Class(i)]

AtSymbol ==
  /\ Running
  /\ Class(Blank) # "letter"
  /\ Class(Digits) \notin {"digit", "end"}

TakePair ==
  /\ AtSymbol
  /\ IsPair(Digits)
  /\ Emit(Token(IF Class(Digits) = ":" THEN "assignment" ELSE "fat_arrow",
                Digits, Digits + 2, Column(Digits), 0))

TakeSign ==
  /\ AtSymbol
  /\ ~IsPair(Digits)
  /\ Class(Digits) # "newline"
  /\ Emit(Token(IF Class(Digits) \in {"(", ")", ":", ".", ","} THEN Class(Digits) ELSE "unknown",
                Digits, Digits + 1, Column(Digits), 0))

\* Mutant: the column goes on counting on the next line.
TakeNewline_ColumnKept ==
  /\ AtSymbol
  /\ Class(Digits) = "newline"
  /\ tokens' = Append(tokens, [type |-> "newline", from |-> Digits, to |-> Digits + 1,
                               line |-> line + 1, start |-> 0, end |-> 1, value |-> 0])
  /\ pos' = Digits + 1
  /\ line' = line + 1
  /\ column' = column + (Digits + 1 - pos)
  /\ UNCHANGED <<text, result>>

\* The position is counted before the token is made: its span is on the next line.
TakeNewline ==
  /\ AtSymbol
  /\ Class(Digits) = "newline"
  /\ tokens' = Append(tokens, [type |-> "newline", from |-> Digits, to |-> Digits + 1,
                               line |-> line + 1, start |-> 0, end |-> 1, value |-> 0])
  /\ pos' = Digits + 1
  /\ line' = line + 1
  /\ column' = 0
  /\ UNCHANGED <<text, result>>

\* tokenize_text returns after the token for the end of the text.
TakeEof ==
  /\ Running
  /\ Class(Digits) = "end"
  /\ tokens' = Append(tokens, Token("eof", Digits, Digits, Column(Digits) - 1, 0))
  /\ pos' = Digits
  /\ column' = column + (Digits - pos)
  /\ result' = "done"
  /\ UNCHANGED <<text, line>>

Next == TakeWord \/ TakeReal \/ TakeInt \/ TakePair \/ TakeSign \/ TakeNewline \/ TakeEof

Spec == Init /\ [][Next]_vars

(***************************************************************************)
(* Properties.                                                             *)
(***************************************************************************)
Type == {"word", "int", "real", "assignment", "fat_arrow", "newline", "eof", "unknown",
         "(", ")", ":", ".", ","}

\* Every variable has its type, the value of an int included: a token holds an int of the
\* width of the code, on both sides of zero.
TypeOK ==
  /\ text \in Texts
  /\ pos \in 1..(Len(text) + 1)
  /\ line \in Nat \ {0}
  /\ column \in Nat
  /\ tokens \in Seq([type : Type, from : Nat \ {0}, to : Nat \ {0}, line : Nat \ {0},
                     start : Nat, end : Nat, value : (-IntMax)..IntMax])
  /\ result \in {"running", "done", "aborted"}

All(i, j, classes) == \A k \in i..(j - 1) : Class(k) \in classes

\* The characters i..j-1 before a token: whitespace, then perhaps a comment that ends
\* its line, or a minus that no digit follows.
Dropped(i, j) ==
  \E c \in i..j :
    /\ All(i, c, {"space"})
    /\ \/ c = j
       \/ /\ c + 1 < j /\ Class(c) = "/" /\ Class(c + 1) = "/"
          /\ All(c, j, NotNewline)
          /\ Class(j) \in {"newline", "end"}
       \/ c + 1 = j /\ Class(c) = "-" /\ Class(j) # "digit"

\* The tokens account for the text: they lie in it in order, what lies between two is
\* blank, a comment or a minus without a digit (lexer.h:167), and the token for the end
\* is the last one, once: the parser looks at its tokens without a bound and relies on it.
TokensCoverTheText ==
  LET from(k) == tokens[k].from
      to(k)   == IF k = 0 THEN 1 ELSE tokens[k].to
  IN  /\ \A k \in DOMAIN tokens : to(k - 1) <= from(k) /\ Dropped(to(k - 1), from(k))
      /\ to(Len(tokens)) = pos
      /\ \A k \in DOMAIN tokens :
           tokens[k].type = "eof" <=> (k = Len(tokens) /\ result = "done")
      /\ result = "done" => pos = Len(text) + 1

\* What a token may be made of.
IsDigits(i, j) == i < j /\ All(i, j, {"digit"})
IsNumber(i, j) == \E c \in {i, i + 1} : (c = i \/ Class(i) = "-") /\ IsDigits(c, j)
Lexeme(i, j) ==
  {type \in Type :
     CASE type = "word"       -> i < j /\ Class(i) = "letter" /\ All(i, j, {"letter", "digit"})
       [] type = "int"        -> IsNumber(i, j)
       [] type = "real"       -> \E d \in (i + 1)..(j - 1) :
                                   Class(d) = "." /\ IsNumber(i, d) /\ IsDigits(d + 1, j)
       [] type = "assignment" -> j = i + 2 /\ Class(i) = ":" /\ Class(i + 1) = "="
       [] type = "fat_arrow"  -> j = i + 2 /\ Class(i) = "=" /\ Class(i + 1) = ">"
       [] type \in {"eof", "unknown"} -> FALSE
       [] OTHER               -> j = i + 1 /\ Class(i) = type}

\* A token is the longest lexeme that starts where it starts, and no character is unknown
\* that starts one, unless a lost minus stands before it: peeking from a length that is
\* counted up by hand, and a point that belongs to a number only if a digit follows
\* (lexer.h:185), never cut a word or a number in two.
LexemesAreLongest ==
  \A k \in DOMAIN tokens :
    LET t == tokens[k]
    IN  /\ t.type \notin {"eof", "unknown"} =>
             /\ t.type \in Lexeme(t.from, t.to)
             /\ \A j \in (t.to + 1)..(Len(text) + 1) : Lexeme(t.from, j) = {}
        /\ t.type = "unknown" =>
             /\ t.to = t.from + 1
             /\ \/ \A j \in t.from..(Len(text) + 1) : Lexeme(t.from, j) = {}
                \/ t.from > 1 /\ Class(t.from - 1) = "-"

\* A span points at the characters of its token, counted in lines and columns from the
\* text alone, after any blanks, comments and signs: messages name the right place.  The
\* spans of a newline and of the end are not compared: the first is that of the next
\* line's column 0, the second starts a column early.
NewlinesBefore(i) == {k \in 1..(i - 1) : Class(k) = "newline"}
LineStart(i) == IF NewlinesBefore(i) = {} THEN 0
                ELSE CHOOSE k \in NewlinesBefore(i) : \A n \in NewlinesBefore(i) : n <= k
SpansPointAtTheText ==
  \A k \in DOMAIN tokens :
    LET t == tokens[k]
    IN  t.type \notin {"newline", "eof"} =>
          /\ t.line = 1 + Cardinality(NewlinesBefore(t.from))
          /\ t.start = t.from - LineStart(t.from)
          /\ t.end = t.to - LineStart(t.from)
=============================================================================
