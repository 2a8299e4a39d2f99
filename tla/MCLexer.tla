------------------------------- MODULE MCLexer -------------------------------
EXTENDS Lexer, FiniteSets

CONSTANT MaxLength

\* One character of each class: the parentheses and the comma are treated alike, and so
\* are `>', `/' and the others that start no token.
Alphabet ==
  {<<"digit", 0>>, <<"digit", 1>>} \cup
  {<<s, 0>> : s \in {"letter", "space", "-", ".", ":", "=", ">", "/", "(", "newline"}}
MCTexts == UNION {[1..n -> Alphabet] : n \in 0..MaxLength}
=============================================================================
