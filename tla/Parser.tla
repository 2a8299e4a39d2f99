------------------------------- MODULE Parser -------------------------------
(***************************************************************************)
(* The recursive-descent parser, compiler/parser/parser.cpp.  A call       *)
(* parse_x is the item Parse("x") of a stack; popping it puts there what   *)
(* the function does next: consume a token, skip newlines, call another    *)
(* function, start or finish a node of the tree.                           *)
(*                                                                         *)
(* tokens[current] is the token that check() reads: there is no test that  *)
(* current is still inside the vector.  The vector is made by              *)
(* lexer::tokenize_text before the parser runs; here a token is chosen     *)
(* when it is first looked at, so that the files that differ only after    *)
(* the token the parser stops at are one behaviour.                        *)
(***************************************************************************)
EXTENDS Naturals, Sequences, SequencesExt

CONSTANTS
  Token,     \* the token types the files of a run may contain
  Files,     \* records [before, after]: what the files of a run begin and end with
  MaxFree    \* how many tokens a file may have between the two

\* The token types that the parser treats alike: parse_primary makes a
\* literal_expression of each of them.
Literal == {"int", "real", "true", "false"}

ASSUME FilesAssumption ==
  /\ MaxFree \in Nat
  /\ "eof" \notin Token
  /\ \A f \in Files : f.before \in Seq(Token) /\ f.after \in Seq(Token)

VARIABLES
  file,      \* the file being parsed
  tokens,    \* its tokens, as far as they were looked at; the last one is "eof"
  current,   \* the index of the token that check() looks at
  stack,     \* what the active parse functions have yet to do, innermost first
  tree,      \* the nodes that are being built, innermost last
  result     \* "parsing", "accepted", or "rejected" by a parse_error

vars == <<file, tokens, current, stack, tree, result>>

(***************************************************************************)
(* The tree.  A node that has a name, or is a literal, holds the index of  *)
(* that token, as the node of the code holds its span.                     *)
(***************************************************************************)
Node(kind, at, kids) == [kind |-> kind, at |-> at, kids |-> kids]
Leaf(kind, i)        == Node(kind, i, <<>>)

OfKind(kids, kind) == LET Is(k) == k.kind = kind IN SelectSeq(kids, Is)

WithKid(node, kid) == [node EXCEPT !.kids = Append(@, kid)]

\* The last kid becomes the first of a node that takes its place.
WrapLast(node, kind, at, kids) ==
  [node EXCEPT !.kids = Append(Front(@), Node(kind, at, <<Last(@)>> \o kids))]

\* A member_expression of the last kid, named by token i.
MemberOf(node, i) == WrapLast(node, "member", i, <<>>)

\* A call_expression of the last kid, which is a member_expression; it has its span.
CallOf(node, args) == WrapLast(node, "call", Last(node.kids).at, args)

\* Mutant: the branch for constructors is missing.
Regrouped_TwoKinds(node) ==
  [node EXCEPT !.kids = OfKind(@, "name") \o OfKind(@, "field") \o OfKind(@, "method")]

\* A class keeps its members in three vectors, one for each kind.
Regrouped(node) ==
  [node EXCEPT !.kids = OfKind(@, "name") \o OfKind(@, "field")
                          \o OfKind(@, "method") \o OfKind(@, "constructor")]

(***************************************************************************)
(* The items of the stack.                                                 *)
(***************************************************************************)
Take(t)     == <<"take", t>>        \* consume(t): a keyword or a sign
Name(t)     == <<"name", t>>        \* consume(t): a name that its owner holds
Primary(t)  == <<"primary", t>>     \* match(t): an expression that is one token
Member      == <<"member", "identifier">>  \* consume the name after a dot
Skip        == <<"skip", "newline">>       \* skip_newlines()
Parse(f)    == <<"parse", f>>       \* a call of a parse function, or of a loop in one
Open(kind)  == <<"open", kind>>     \* make_unique of a node
Close(kind) == <<"close", kind>>    \* the node is complete: give it to its owner

Init ==
  /\ file \in Files
  /\ tokens = file.before
  /\ current = 1
  /\ stack = <<Skip, Parse("program")>>
  /\ tree = <<Node("program", 0, <<>>)>>
  /\ result = "parsing"

AtEnd == tokens # <<>> /\ Last(tokens) = "eof"

\* The parser is about to look at a token that was not chosen yet.
Read ==
  /\ result = "parsing"
  /\ stack # <<>>
  /\ current = Len(tokens) + 1
  /\ ~AtEnd
  /\ \/ /\ Len(tokens) < Len(file.before) + MaxFree
        /\ \E t \in Token : tokens' = Append(tokens, t)
     \/ tokens' = tokens \o file.after \o <<"eof">>
  /\ UNCHANGED <<file, current, stack, tree, result>>

Look == tokens[current]

Doing(item) ==
  /\ result = "parsing"
  /\ stack # <<>>
  /\ Head(stack) = item
  /\ current \in 1..Len(tokens)

Popped == stack' = Tail(stack)

\* A parse_error leaves every function; nothing catches it before main.
Reject ==
  /\ result' = "rejected"
  /\ UNCHANGED <<file, tokens, current, stack, tree>>

\* The function that was called does these items.
Expand(items) ==
  /\ stack' = items \o Tail(stack)
  /\ UNCHANGED <<file, tokens, current, tree, result>>

\* As Expand, for the branches of a function that a token starts.
Branch(branches) ==
  IF Look \in DOMAIN branches THEN Expand(branches[Look]) ELSE Reject

(***************************************************************************)
(* Tokens: consume, match and skip_newlines.                               *)
(***************************************************************************)
Consume(item, built) ==
  /\ Doing(item)
  /\ IF Look = item[2]
       THEN /\ current' = current + 1
            /\ tree' = built
            /\ Popped
            /\ UNCHANGED <<file, tokens, result>>
       ELSE Reject

Built(node) == Append(Front(tree), node)

TakeToken(t) == Consume(Take(t), tree)

\* A name is a string of its owner; `this' is the span of a constructor.
NameToken(t) ==
  Consume(Name(t), Built(WithKid(Last(tree),
    Leaf(IF t = "this" THEN "this" ELSE "name", current))))

PrimaryToken(t) ==
  Consume(Primary(t), Built(WithKid(Last(tree),
    Leaf(IF t \in Literal THEN "literal" ELSE t, current))))

\* The expression so far becomes the object.
MemberToken == Consume(Member, Built(MemberOf(Last(tree), current)))

\* Mutant: skipping ends at the next word instead of the next token.
SkipNewlines_Eof ==
  /\ Doing(Skip)
  /\ IF Look \in {"newline", "eof"}
       THEN /\ current' = current + 1
            /\ UNCHANGED <<file, tokens, stack, tree, result>>
       ELSE Expand(<<>>)

SkipNewlines ==
  /\ Doing(Skip)
  /\ IF Look = "newline"
       THEN /\ current' = current + 1
            /\ UNCHANGED <<file, tokens, stack, tree, result>>
       ELSE Expand(<<>>)

(***************************************************************************)
(* Nodes.                                                                  *)
(***************************************************************************)
OpenNode(kind) ==
  /\ Doing(Open(kind))
  /\ tree' = Append(tree, Node(kind, 0, <<>>))
  /\ Popped
  /\ UNCHANGED <<file, tokens, current, result>>

\* Foo(args) is built like Foo.Foo(args), of one token: the later phases take a call whose
\* object has the name of the member for a constructor call.
Closed(kind) ==
  LET node  == Last(tree)
      owner == Last(Front(tree))
  IN  CASE kind = "call"   -> CallOf(owner, node.kids)
        [] kind = "create" -> CallOf(MemberOf(owner, Last(owner.kids).at), node.kids)
        [] kind = "class"  -> WithKid(owner, Regrouped(node))
        [] OTHER           -> WithKid(owner, node)

CloseNode(kind) ==
  /\ Doing(Close(kind))
  /\ tree' = Append(Front(Front(tree)), Closed(kind))
  /\ Popped
  /\ UNCHANGED <<file, tokens, current, result>>

Kinds == {"class", "field", "method", "constructor", "parameter", "super", "block",
          "variable", "assignment", "while", "if", "return", "call", "create", "group"}

(***************************************************************************)
(* The parse functions, in the order of the source.  A loop of one is an   *)
(* item of its own that puts itself back.                                  *)
(***************************************************************************)
\* Mutant: the end of the file is consumed like any token.
ParseProgram_TakesEof ==
  /\ Doing(Parse("program"))
  /\ Expand(IF Look = "eof" THEN <<Take("eof")>>
            ELSE <<Take("class"), Parse("class"), Skip, Parse("program")>>)

ParseProgram ==
  /\ Doing(Parse("program"))
  /\ Expand(IF Look = "eof" THEN <<>>
            ELSE <<Take("class"), Parse("class"), Skip, Parse("program")>>)

ParseClass ==
  /\ Doing(Parse("class"))
  /\ Expand(<<Open("class"), Name("identifier"), Parse("extends"), Take("is"), Skip,
              Parse("members"), Take("end"), Close("class")>>)

ParseExtends ==
  /\ Doing(Parse("extends"))
  /\ Expand(IF Look = "extends" THEN <<Take("extends"), Name("identifier")>> ELSE <<>>)

ParseMembers ==
  /\ Doing(Parse("members"))
  /\ Expand(IF Look \in {"end", "eof"} THEN <<>>
            ELSE <<Skip, Parse("member"), Skip, Parse("members")>>)

\* Mutant: no member is found instead of an error.
ParseMember_NoError ==
  /\ Doing(Parse("member"))
  /\ IF Look \notin {"var", "method", "this"} THEN Expand(<<>>)
     ELSE Branch([
       var    |-> <<Open("field"), Take("var"), Parse("variable"), Close("field")>>,
       method |-> <<Open("method"), Take("method"), Parse("method"), Close("method")>>,
       this   |-> <<Open("constructor"), Name("this"), Parse("constructor"),
                    Close("constructor")>>])

ParseMember ==
  /\ Doing(Parse("member"))
  /\ Branch([
       var    |-> <<Open("field"), Take("var"), Parse("variable"), Close("field")>>,
       method |-> <<Open("method"), Take("method"), Parse("method"), Close("method")>>,
       this   |-> <<Open("constructor"), Name("this"), Parse("constructor"),
                    Close("constructor")>>])

ParseVariable ==
  /\ Doing(Parse("variable"))
  /\ Expand(<<Name("identifier"), Take("colon"), Parse("expression")>>)

ParseParameters ==
  /\ Doing(Parse("parameters"))
  /\ Expand(<<Take("open_par"), Parse("first parameter"), Take("close_par")>>)

\* A list in parentheses: nothing, or items with commas between them.
ListOf(item, first, more) ==
  \/ /\ Doing(first)
     /\ Expand(IF Look = "close_par" THEN <<>> ELSE <<item, more>>)
  \/ /\ Doing(more)
     /\ Expand(IF Look = "comma" THEN <<Take("comma"), item, more>> ELSE <<>>)

ParseParameter ==
  \/ ListOf(Parse("parameter"), Parse("first parameter"), Parse("more parameters"))
  \/ /\ Doing(Parse("parameter"))
     /\ Expand(<<Open("parameter"), Name("identifier"), Take("colon"), Name("identifier"),
                 Close("parameter")>>)

\* Only a return type lets newlines stand before the body.
ParseMethod ==
  \/ /\ Doing(Parse("method"))
     /\ Expand(<<Name("identifier"), Parse("parameters"), Parse("return type"),
                 Parse("method body")>>)
  \/ /\ Doing(Parse("return type"))
     /\ Expand(IF Look = "colon" THEN <<Take("colon"), Name("identifier"), Skip>>
               ELSE <<>>)
  \/ /\ Doing(Parse("method body"))
     /\ Expand(CASE Look = "is"        -> <<Take("is"), Parse("block"), Take("end")>>
                 [] Look = "fat_arrow" -> <<Take("fat_arrow"), Parse("expression")>>
                 [] OTHER              -> <<>>)

ParseConstructor ==
  \/ /\ Doing(Parse("constructor"))
     /\ Expand(<<Parse("parameters"), Parse("super"), Take("is"), Parse("block"),
                 Take("end")>>)
  \/ /\ Doing(Parse("super"))
     /\ Expand(IF Look = "colon"
               THEN <<Open("super"), Take("colon"), Take("super"), Take("open_par"),
                      Parse("arguments"), Close("super")>>
               ELSE <<>>)

StatementStart == {"identifier", "this", "while", "if", "return"}

\* The loop ends at the first token that starts nothing: parse_statement gave nullptr.
ParseBlock ==
  \/ /\ Doing(Parse("block"))
     /\ Expand(<<Open("block"), Skip, Parse("items"), Close("block")>>)
  \/ /\ Doing(Parse("items"))
     /\ Expand(CASE Look = "var" ->
                      <<Open("variable"), Take("var"), Parse("variable"), Close("variable"),
                        Skip, Parse("items")>>
                 [] Look \in StatementStart -> <<Parse("statement"), Skip, Parse("items")>>
                 [] OTHER -> <<>>)

\* A name or `this' is matched to look at the token after it, and given back.
ParseStatement ==
  /\ Doing(Parse("statement"))
  /\ IF Look \in {"identifier", "this"}
       THEN /\ current' = current + 1
            /\ stack' = <<Parse("after name")>> \o Tail(stack)
            /\ UNCHANGED <<file, tokens, tree, result>>
       ELSE Branch([
              while  |-> <<Open("while"), Take("while"), Parse("while"), Close("while")>>,
              if     |-> <<Open("if"), Take("if"), Parse("if"), Close("if")>>,
              return |-> <<Open("return"), Take("return"), Parse("return"),
                           Close("return")>>])

ParseAfterName ==
  /\ Doing(Parse("after name"))
  /\ current' = IF current > 1 THEN current - 1 ELSE current
  /\ stack' = (IF Look = "dot" THEN <<Parse("expression")>>
               ELSE <<Open("assignment"), Parse("assignment"), Close("assignment")>>)
              \o Tail(stack)
  /\ UNCHANGED <<file, tokens, tree, result>>

ParseAssignment ==
  /\ Doing(Parse("assignment"))
  /\ Expand(<<Name("identifier"), Take("assignment"), Parse("expression")>>)

ParseWhile ==
  /\ Doing(Parse("while"))
  /\ Expand(<<Parse("expression"), Take("loop"), Parse("block"), Take("end")>>)

ParseIf ==
  \/ /\ Doing(Parse("if"))
     /\ Expand(<<Parse("expression"), Take("then"), Parse("block"), Parse("else"),
                 Take("end")>>)
  \/ /\ Doing(Parse("else"))
     /\ Expand(IF Look = "else" THEN <<Take("else"), Parse("block")>> ELSE <<>>)

\* Mutant: a newline does not end a return.
ParseReturn_NextLine ==
  /\ Doing(Parse("return"))
  /\ Expand(IF Look = "end" THEN <<>> ELSE <<Parse("expression")>>)

\* A value unless `end' or a newline follows: not `else', which ends a block too.
ParseReturn ==
  /\ Doing(Parse("return"))
  /\ Expand(IF Look \in {"end", "newline"} THEN <<>> ELSE <<Parse("expression")>>)

\* Newlines are skipped after a link of the chain, not after the primary.
ParseExpression ==
  \/ /\ Doing(Parse("expression"))
     /\ Expand(<<Skip, Parse("primary"), Parse("links")>>)
  \/ /\ Doing(Parse("links"))
     /\ Expand(IF Look = "dot"
               THEN <<Take("dot"), Member, Parse("call"), Skip, Parse("links")>>
               ELSE <<>>)
  \/ \E kind \in {"call", "create"} :
       /\ Doing(Parse(kind))
       /\ Expand(IF Look = "open_par"
                 THEN <<Open(kind), Take("open_par"), Parse("arguments"), Close(kind)>>
                 ELSE <<>>)

ParsePrimary ==
  /\ Doing(Parse("primary"))
  /\ Branch([
       int        |-> <<Primary("int")>>,
       real       |-> <<Primary("real")>>,
       true       |-> <<Primary("true")>>,
       false      |-> <<Primary("false")>>,
       this       |-> <<Primary("this")>>,
       identifier |-> <<Primary("identifier"), Parse("create")>>,
       open_par   |-> <<Open("group"), Take("open_par"), Parse("expression"),
                        Take("close_par"), Close("group")>>])

ParseArguments ==
  \/ ListOf(Parse("expression"), Parse("first argument"), Parse("more arguments"))
  \/ /\ Doing(Parse("arguments"))
     /\ Expand(<<Parse("first argument"), Take("close_par")>>)

\* parse() returns the program.
Accept ==
  /\ result = "parsing"
  /\ stack = <<>>
  /\ result' = "accepted"
  /\ UNCHANGED <<file, tokens, current, stack, tree>>

Consumed == {"class", "extends", "is", "end", "var", "method", "colon", "open_par",
             "close_par", "comma", "fat_arrow", "super", "assignment", "while", "loop",
             "if", "then", "else", "return", "dot"}

Next ==
  \/ Read
  \/ \E t \in Consumed : TakeToken(t)
  \/ \E t \in {"identifier", "this"} : NameToken(t)
  \/ \E t \in Literal \cup {"identifier", "this"} : PrimaryToken(t)
  \/ MemberToken
  \/ SkipNewlines
  \/ \E kind \in Kinds : OpenNode(kind) \/ CloseNode(kind)
  \/ ParseProgram \/ ParseClass \/ ParseExtends \/ ParseMembers \/ ParseMember
  \/ ParseVariable \/ ParseParameters \/ ParseParameter \/ ParseMethod
  \/ ParseConstructor \/ ParseBlock \/ ParseStatement \/ ParseAfterName
  \/ ParseAssignment \/ ParseWhile \/ ParseIf \/ ParseReturn \/ ParseExpression
  \/ ParsePrimary \/ ParseArguments
  \/ Accept

\* The parser is one thread that never waits: it takes its next step.
Spec == Init /\ [][Next]_vars /\ WF_vars(Next)

(***************************************************************************)
(* Properties.                                                             *)
(***************************************************************************)
Function ==
  {"program", "class", "extends", "members", "member", "variable", "parameters",
   "first parameter", "more parameters", "parameter", "method", "return type",
   "method body", "constructor", "super", "block", "items", "statement", "after name",
   "assignment", "while", "if", "else", "return", "expression", "links", "call", "create",
   "primary", "arguments", "first argument", "more arguments"}

\* What some action does; to consume the end of the file is not among it.
Item ==
  {Take(t) : t \in Consumed} \cup {Name(t) : t \in {"identifier", "this"}}
    \cup {Primary(t) : t \in Literal \cup {"identifier", "this"}}
    \cup {Member, Skip} \cup {Open(k) : k \in Kinds} \cup {Close(k) : k \in Kinds}
    \cup {Parse(f) : f \in Function}

\* The parser's state is of these types; no function has the end of the file to consume.
TypeOK ==
  /\ file \in Files
  /\ tokens \in Seq(Token \cup {"eof"})
  /\ current \in Nat \ {0}
  /\ stack \in Seq(Item)
  /\ result \in {"parsing", "accepted", "rejected"}

\* check() reads tokens[current] without comparing current with the size of the vector
\* (parser.cpp:32): no sequence of matches, loops and retreats may go past "eof".
NeverPastEnd == AtEnd => current \in 1..Len(tokens)

\* Every loop of the parser consumes a token or leaves, so parsing any file ends, with a
\* tree or with an error: also for members, blocks, chains and lists that do not close.
Terminates == <>(result # "parsing")
=============================================================================
