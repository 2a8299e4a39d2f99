------------------------------ MODULE MCParser ------------------------------
(***************************************************************************)
(* The parser on every file of a few contexts, against a grammar of the    *)
(* language that is written as a grammar: with choice, without lookahead.  *)
(***************************************************************************)
EXTENDS Parser

MCToken ==
  {"class", "extends", "is", "end", "var", "method", "this", "super", "while", "loop",
   "if", "then", "else", "return", "identifier", "int", "colon", "assignment", "dot",
   "comma", "open_par", "close_par", "fat_arrow", "newline", "unknown"}

InClass == <<"class", "identifier", "is">>
InBody  == InClass \o <<"this", "open_par", "close_par", "is">>
InIf    == InBody \o <<"if", "int", "then">>
File(before, after) == [before |-> before, after |-> after]

\* Where the free tokens stand: a whole file, the members of a class, a method and a
\* constructor after their parameters, parameters, a body, after a class, between members
\* of different kinds, in expressions, in arguments before another link, in a branch.
MCFiles == {
  File(<<>>, <<>>),
  File(InClass, <<"end">>),
  File(InClass \o <<"method", "identifier", "open_par", "close_par">>, <<"is", "end", "end">>),
  File(InClass \o <<"this">>, <<"close_par", "is", "end", "end">>),
  File(InClass \o <<"this", "open_par", "close_par">>, <<"is", "end", "end">>),
  File(InBody, <<"end", "end">>),
  File(InBody \o <<"return", "identifier">>, <<"end", "end">>),
  File(InClass \o <<"end">>, <<"is", "end">>),
  File(InClass \o <<"this", "open_par", "close_par", "is", "end">>,
       <<"method", "identifier", "open_par", "close_par", "newline",
         "var", "identifier", "colon", "int", "end">>),
  File(InBody \o <<"return", "identifier", "dot", "identifier">>, <<"end", "end">>),
  File(InBody \o <<"return", "identifier", "open_par">>,
       <<"close_par", "dot", "identifier", "end", "end">>),
  File(InBody \o <<"identifier", "assignment">>, <<"end", "end">>),
  File(InBody \o <<"while">>, <<"loop", "end", "end", "end">>),
  File(InIf, <<"end", "end", "end">>) }

(***************************************************************************)
(* The grammar: the right sides of each nonterminal.  The parser looks at  *)
(* one token, or two for a statement that starts with a name; here every   *)
(* right side may be tried.  The three places where the parser is narrower *)
(* than the usual reading of the language are in it: a `return' without a  *)
(* value stands at the end of its line or before `end', never before       *)
(* `else'; newlines stand only where "blank" is; and the target of an      *)
(* assignment is a name, where README.md:81 also has obj.field := v.       *)
(***************************************************************************)
Grammar == [
  blank      |-> {<<>>, <<"newline", "blank">>},
  program    |-> {<<"blank", "classes", "eof">>},
  classes    |-> {<<>>, <<"class", "identifier", "base", "is", "blank", "members", "end",
                          "blank", "classes">>},
  base       |-> {<<>>, <<"extends", "identifier">>},
  members    |-> {<<>>, <<"member", "blank", "members">>},
  member     |-> {<<"variable">>, <<"method", "identifier", "parameters", "type", "body">>,
                  <<"this", "parameters", "superclass", "is", "block", "end">>},
  variable   |-> {<<"var", "identifier", "colon", "expression">>},
  type       |-> {<<>>, <<"colon", "identifier", "blank">>},
  body       |-> {<<>>, <<"is", "block", "end">>, <<"fat_arrow", "expression">>},
  superclass |-> {<<>>, <<"colon", "super", "list">>},
  parameters |-> {<<"open_par", "close_par">>,
                  <<"open_par", "parameter", "parameterz", "close_par">>},
  parameterz |-> {<<>>, <<"comma", "parameter", "parameterz">>},
  parameter  |-> {<<"identifier", "colon", "identifier">>},
  block      |-> {<<"blank">>, <<"blank", "statements">>,
                  <<"blank", "return">>, <<"blank", "statements", "return">>},
  open       |-> {<<"blank">>, <<"blank", "statements">>},
  statements |-> {<<"statement", "blank">>, <<"statement", "blank", "statements">>},
  statement  |-> {<<"variable">>, <<"identifier", "assignment", "expression">>,
                  <<"identifier", "link", "chain">>, <<"this", "link", "chain">>,
                  <<"while", "expression", "loop", "block", "end">>,
                  <<"if", "expression", "then", "block", "end">>,
                  <<"if", "expression", "then", "open", "else", "block", "end">>,
                  <<"return", "value">>, <<"return", "newline">>},
  expression |-> {<<"blank", "value">>},
  value      |-> {<<"atom", "chain">>},
  chain      |-> {<<>>, <<"link", "chain">>},
  link       |-> {<<"dot", "identifier", "blank">>, <<"dot", "identifier", "list", "blank">>},
  atom       |-> {<<"int">>, <<"real">>, <<"true">>, <<"false">>, <<"this">>,
                  <<"identifier">>, <<"identifier", "list">>,
                  <<"open_par", "expression", "close_par">>},
  list       |-> {<<"open_par", "close_par">>,
                  <<"open_par", "expression", "expressions", "close_par">>},
  expressions |-> {<<>>, <<"comma", "expression", "expressions">>} ]

\* Where a derivation of the symbols may end when it starts at position i of the text;
\* More when the text ends first.
More == 0
RECURSIVE Ends(_, _, _)
Ends(text, symbols, i) ==
  IF symbols = <<>> THEN {i}
  ELSE LET s     == Head(symbols)
           after == IF s \in DOMAIN Grammar
                      THEN UNION {Ends(text, right, i) : right \in Grammar[s]}
                    ELSE IF i > Len(text) THEN {More}
                    ELSE IF text[i] = s THEN {i + 1} ELSE {}
       IN  UNION {IF e = More THEN {More} ELSE Ends(text, Tail(symbols), e) : e \in after}

Sentence(text) == Len(text) + 1 \in Ends(text, <<"program">>, 1)
Viable(text)   == Ends(text, <<"program">>, 1) \cap {More, Len(text) + 1} # {}

\* A file that parse() accepts is a program of the grammar, and a parse_error is never
\* about a program: the tokens before the error begin one, and with the token it points at
\* no program begins that way.  So committing to the branch of the next token, skipping
\* newlines and giving back a token lose no program and make none up.  One error is
\* reported a token early: a statement that starts with `this' and has no dot
\* (parser.cpp:304).
InAssignment == Len(stack) > 1 /\ stack[2] = Take("assignment") /\ Look = "this"
BadToken     == IF InAssignment THEN current + 1 ELSE current
ParsesExactlyTheGrammar ==
  /\ result = "accepted" => Sentence(tokens)
  /\ result = "rejected" => /\ Viable(SubSeq(tokens, 1, current - 1))
                            /\ ~Viable(SubSeq(tokens, 1, BadToken))

(***************************************************************************)
(* The tree written out again: tokens as pairs of a type and an index,     *)
(* which is 0 for those the tree does not hold; the newlines are gone.  A  *)
(* call whose callee is not a member_expression with its span is not       *)
(* written: the later phases could not read it.                            *)
(***************************************************************************)
Sign(t)    == << <<t, 0>> >>
Signs(ts)  == [k \in DOMAIN ts |-> <<ts[k], 0>>]
Listed(ws) == Signs(<<"open_par">>)
                \o FlattenSeq([k \in DOMAIN ws |->
                     IF k = 1 THEN ws[k] ELSE Sign("comma") \o ws[k]])
                \o Signs(<<"close_par">>)

\* The vectors of a class, merged by where each member begins.
RECURSIVE Merged(_)
Merged(vectors) ==
  LET left     == {v \in DOMAIN vectors : vectors[v] # <<>>}
      Begin(v) == Head(vectors[v]).kids[1].at
      first    == CHOOSE v \in left : \A w \in left : Begin(v) <= Begin(w)
  IN  IF left = {} THEN <<>>
      ELSE <<Head(vectors[first])>> \o Merged([vectors EXCEPT ![first] = Tail(@)])

MemberKind == <<"field", "method", "constructor">>

\* Foo(args): object and member are one token.
OneToken(member) == member.kids[1].kind = "identifier" /\ member.kids[1].at = member.at

RECURSIVE Written(_)
Written(node) ==
  LET kid(k)   == Written(node.kids[k])
      all(ks)  == [k \in DOMAIN ks |-> Written(ks[k])]
      flat(ks) == FlattenSeq(all(ks))
      n        == Len(node.kids)
      \* A kid that may be missing, after its sign.
      opt(k, sign) == IF k <= n THEN Sign(sign) \o kid(k) ELSE <<>>
  IN  CASE node.kind \in {"program", "block"} -> flat(node.kids)
        [] node.kind = "class" ->
             LET names == OfKind(node.kids, "name")
             IN  Sign("class") \o Written(names[1])
                   \o (IF Len(names) = 2 THEN Sign("extends") \o Written(names[2]) ELSE <<>>)
                   \o Sign("is")
                   \o flat(Merged([k \in 1..3 |-> OfKind(node.kids, MemberKind[k])]))
                   \o Sign("end")
        [] node.kind \in {"field", "variable"} ->
             Sign("var") \o kid(1) \o Sign("colon") \o kid(2)
        [] node.kind = "method" ->
             LET params == OfKind(node.kids, "parameter")
                 type   == {k \in 2..n : node.kids[k].kind = "name"}
                 body   == {n} \cap {k \in 2..n : node.kids[k].kind \notin {"name", "parameter"}}
             IN  Sign("method") \o kid(1) \o Listed(all(params))
                   \o (IF type = {} THEN <<>> ELSE Sign("colon") \o kid(Max(type)))
                   \o (IF body = {} THEN <<>>
                       ELSE IF node.kids[n].kind = "block" THEN Sign("is") \o kid(n) \o Sign("end")
                       ELSE Sign("fat_arrow") \o kid(n))
        [] node.kind = "constructor" ->
             kid(1) \o Listed(all(OfKind(node.kids, "parameter")))
               \o flat(OfKind(node.kids, "super")) \o Sign("is") \o kid(n) \o Sign("end")
        [] node.kind = "parameter"  -> kid(1) \o Sign("colon") \o kid(2)
        [] node.kind = "super"      -> Signs(<<"colon", "super">>) \o Listed(all(node.kids))
        [] node.kind = "assignment" -> kid(1) \o Sign("assignment") \o kid(2)
        [] node.kind = "while"      ->
             Sign("while") \o kid(1) \o Sign("loop") \o kid(2) \o Sign("end")
        [] node.kind = "if"         ->
             Sign("if") \o kid(1) \o Sign("then") \o kid(2) \o opt(3, "else") \o Sign("end")
        [] node.kind = "return"     -> Sign("return") \o flat(node.kids)
        [] node.kind = "group"      -> Sign("open_par") \o kid(1) \o Sign("close_par")
        [] node.kind = "member"     ->
             kid(1) \o (IF OneToken(node) THEN <<>>
                        ELSE Sign("dot") \o << <<"identifier", node.at>> >>)
        [] node.kind = "call"       ->
             IF node.kids[1].kind = "member" /\ node.kids[1].at = node.at
               THEN kid(1) \o Listed(all(Tail(node.kids))) ELSE <<>>
        [] node.kind = "literal"    -> << <<tokens[node.at], node.at>> >>
        [] node.kind = "this"       -> << <<"this", node.at>> >>
        [] node.kind \in {"name", "identifier"} -> << <<"identifier", node.at>> >>
        [] OTHER                    -> <<>>

\* The tree of an accepted file is the file: written out it gives the same tokens in the
\* same order, newlines aside, and every name, literal and `this' is in the place where its
\* token stands.  So the sorting of members by dynamic_cast and release (parser.cpp:107),
\* the wrapping of an expression into the next link, the constructor call that is
\* made of one name (parser.cpp:440) and the token that is matched and given back neither
\* lose a part of the program, nor double one, nor attach one to another owner.
TreeIsTheProgram ==
  result = "accepted" =>
    LET written == Written(tree[1])
        places  == LET Counts(i) == tokens[i] \notin {"newline", "eof"}
                   IN  SelectSeq([i \in DOMAIN tokens |-> i], Counts)
    IN  /\ Len(tree) = 1 /\ Len(written) = Len(places)
        /\ \A k \in DOMAIN places : /\ written[k][1] = tokens[places[k]]
                                   /\ written[k][2] \in {0, places[k]}
=============================================================================
