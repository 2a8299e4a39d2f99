---------------------------- MODULE ParserProofs ----------------------------
(***************************************************************************)
(* The parser never looks past the end of its tokens, for every file.      *)
(* What makes it so is not any one function but what all of them share: a  *)
(* token is passed only after it was compared with a type other than       *)
(* "eof", and "eof" is the last token.                                     *)
(***************************************************************************)
EXTENDS Parser, TLAPS

Text == Token \cup {"eof"}

(***************************************************************************)
(* What an action may do to the position, and to the items.                *)
(***************************************************************************)
Stay    == UNCHANGED <<file, tokens, current>>
Retreat == /\ UNCHANGED <<file, tokens>>
           /\ current' = IF current > 1 THEN current - 1 ELSE current
Advance == /\ UNCHANGED <<file, tokens>>
           /\ current \in 1..Len(tokens)
           /\ tokens[current] # "eof"
           /\ current' = current + 1

Items == /\ stack' \in Seq(Item)
         /\ result' \in {"parsing", "accepted", "rejected"}

LEMMA TakeItems ==
  /\ Take("class") \in Item /\ Take("extends") \in Item /\ Take("is") \in Item
  /\ Take("end") \in Item /\ Take("var") \in Item /\ Take("method") \in Item
  /\ Take("colon") \in Item /\ Take("open_par") \in Item /\ Take("close_par") \in Item
  /\ Take("comma") \in Item /\ Take("fat_arrow") \in Item /\ Take("super") \in Item
  /\ Take("assignment") \in Item /\ Take("while") \in Item /\ Take("loop") \in Item
  /\ Take("if") \in Item /\ Take("then") \in Item /\ Take("else") \in Item
  /\ Take("return") \in Item /\ Take("dot") \in Item
BY DEF Item, Consumed

LEMMA NameItems ==
  /\ Primary("int") \in Item /\ Primary("real") \in Item /\ Primary("true") \in Item
  /\ Primary("false") \in Item /\ Primary("this") \in Item /\ Primary("identifier") \in Item
  /\ Name("identifier") \in Item /\ Name("this") \in Item
  /\ Member \in Item /\ Skip \in Item
BY DEF Item, Literal

LEMMA NodeItems ==
  /\ Open("class") \in Item /\ Close("class") \in Item /\ Open("field") \in Item
  /\ Close("field") \in Item /\ Open("method") \in Item /\ Close("method") \in Item
  /\ Open("constructor") \in Item /\ Close("constructor") \in Item /\ Open("parameter") \in Item
  /\ Close("parameter") \in Item /\ Open("super") \in Item /\ Close("super") \in Item
  /\ Open("block") \in Item /\ Close("block") \in Item /\ Open("variable") \in Item
  /\ Close("variable") \in Item /\ Open("assignment") \in Item /\ Close("assignment") \in Item
  /\ Open("while") \in Item /\ Close("while") \in Item /\ Open("if") \in Item
  /\ Close("if") \in Item /\ Open("return") \in Item /\ Close("return") \in Item
  /\ Open("call") \in Item /\ Close("call") \in Item /\ Open("create") \in Item
  /\ Close("create") \in Item /\ Open("group") \in Item /\ Close("group") \in Item
BY DEF Item, Kinds

LEMMA ParseItems ==
  /\ Parse("program") \in Item /\ Parse("class") \in Item /\ Parse("extends") \in Item
  /\ Parse("members") \in Item /\ Parse("member") \in Item /\ Parse("variable") \in Item
  /\ Parse("parameters") \in Item /\ Parse("first parameter") \in Item /\ Parse("more parameters") \in Item
  /\ Parse("parameter") \in Item /\ Parse("method") \in Item /\ Parse("return type") \in Item
  /\ Parse("method body") \in Item /\ Parse("constructor") \in Item /\ Parse("super") \in Item
  /\ Parse("block") \in Item /\ Parse("items") \in Item /\ Parse("statement") \in Item
  /\ Parse("after name") \in Item /\ Parse("assignment") \in Item /\ Parse("while") \in Item
  /\ Parse("if") \in Item /\ Parse("else") \in Item /\ Parse("return") \in Item
  /\ Parse("expression") \in Item /\ Parse("links") \in Item /\ Parse("call") \in Item
  /\ Parse("create") \in Item /\ Parse("primary") \in Item /\ Parse("arguments") \in Item
  /\ Parse("first argument") \in Item /\ Parse("more arguments") \in Item
BY DEF Item, Function

\* Lists of items, as long as the functions make them.
LEMMA ItemLists ==
  /\ <<>> \in Seq(Item)
  /\ \A a \in Item : <<a>> \in Seq(Item)
  /\ \A a, b \in Item : <<a, b>> \in Seq(Item)
  /\ \A a, b, c \in Item : <<a, b, c>> \in Seq(Item)
  /\ \A a, b, c, d \in Item : <<a, b, c, d>> \in Seq(Item)
  /\ \A a, b, c, d, e \in Item : <<a, b, c, d, e>> \in Seq(Item)
  /\ \A a, b, c, d, e, f \in Item : <<a, b, c, d, e, f>> \in Seq(Item)
  /\ \A a, b, c, d, e, f, g \in Item : <<a, b, c, d, e, f, g>> \in Seq(Item)
  /\ \A a, b, c, d, e, f, g, h \in Item : <<a, b, c, d, e, f, g, h>> \in Seq(Item)
OBVIOUS

LEMMA PoppedItems ==
  ASSUME stack \in Seq(Item), stack # <<>>
  PROVE  Tail(stack) \in Seq(Item)
OBVIOUS

LEMMA Concatenated ==
  ASSUME NEW S, NEW s \in Seq(S), NEW t \in Seq(S)
  PROVE  s \o t \in Seq(S) /\ Len(s \o t) = Len(s) + Len(t)
OBVIOUS

\* An action that expands into items leaves the position alone.
LEMMA ExpandStays ==
  ASSUME NEW items \in Seq(Item), stack \in Seq(Item), stack # <<>>, TypeOK, Expand(items)
  PROVE  Stay /\ Items
<1>1. Tail(stack) \in Seq(Item)
  OBVIOUS
<1>2. items \o Tail(stack) \in Seq(Item)
  BY <1>1
<1> QED
  BY <1>2 DEF Expand, Stay, Items, TypeOK

LEMMA RejectStays ==
  ASSUME TypeOK, Reject
  PROVE  Stay /\ Items
BY DEF Reject, Stay, Items, TypeOK

LEMMA TokenAdvances ==
  ASSUME TypeOK, NEW item \in Item, item[2] # "eof", NEW built, Consume(item, built)
  PROVE  (Stay \/ Advance) /\ Items
<1>1. CASE Look = item[2]
  <2>1. current' = current + 1 /\ UNCHANGED <<file, tokens, result>> /\ Popped
    BY <1>1 DEF Consume
  <2>2. current \in 1..Len(tokens) /\ stack # <<>>
    BY DEF Consume, Doing
  <2>3. stack' \in Seq(Item)
    BY <2>1, <2>2 DEF Popped, TypeOK
  <2> QED
    BY <1>1, <2>1, <2>2, <2>3 DEF Advance, Items, Look, TypeOK
<1>2. CASE Look # item[2]
  BY <1>2, RejectStays DEF Consume
<1> QED
  BY <1>1, <1>2

LEMMA SkipAdvances ==
  ASSUME TypeOK, SkipNewlines
  PROVE  (Stay \/ Advance) /\ Items
<1>1. CASE Look = "newline"
  BY <1>1 DEF SkipNewlines, Doing, Look, Advance, Items, TypeOK
<1>2. CASE Look # "newline"
  <2>1. <<>> \in Seq(Item)
    OBVIOUS
  <2>2. Expand(<<>>) /\ stack # <<>>
    BY <1>2 DEF SkipNewlines, Doing
  <2> QED
    BY <2>1, <2>2, ExpandStays DEF TypeOK
<1> QED
  BY <1>1, <1>2

(***************************************************************************)
(* One lemma for each parse function: what it leaves are items.            *)
(***************************************************************************)
LEMMA ParseProgramStays ==
  ASSUME TypeOK, ParseProgram
  PROVE  Stay /\ Items
<1>1. <<Take("class"), Parse("class"), Skip, Parse("program")>> \in Seq(Item)
  BY TakeItems, NameItems, NodeItems, ParseItems, ItemLists
<1> DEFINE items == IF Look = "eof" THEN <<>> ELSE <<Take("class"), Parse("class"),
                    Skip, Parse("program")>>
<1>2. items \in Seq(Item)
  BY <1>1, ItemLists
<1>3. Expand(items) /\ stack # <<>> /\ stack \in Seq(Item)
  BY DEF ParseProgram, Doing, TypeOK
<1> QED
  BY <1>2, <1>3, ExpandStays

LEMMA ParseClassStays ==
  ASSUME TypeOK, ParseClass
  PROVE  Stay /\ Items
<1>1. <<Open("class"), Name("identifier"), Parse("extends"), Take("is"), Skip,
       Parse("members"), Take("end"), Close("class")>> \in Seq(Item)
  BY TakeItems, NameItems, NodeItems, ParseItems, ItemLists
<1> DEFINE items == <<Open("class"), Name("identifier"), Parse("extends"), Take("is"),
                    Skip, Parse("members"), Take("end"), Close("class")>>
<1>2. items \in Seq(Item)
  BY <1>1, ItemLists
<1>3. Expand(items) /\ stack # <<>> /\ stack \in Seq(Item)
  BY DEF ParseClass, Doing, TypeOK
<1> QED
  BY <1>2, <1>3, ExpandStays

LEMMA ParseExtendsStays ==
  ASSUME TypeOK, ParseExtends
  PROVE  Stay /\ Items
<1>1. <<Take("extends"), Name("identifier")>> \in Seq(Item)
  BY TakeItems, NameItems, NodeItems, ParseItems, ItemLists
<1> DEFINE items == IF Look = "extends" THEN <<Take("extends"), Name("identifier")>>
                    ELSE <<>>
<1>2. items \in Seq(Item)
  BY <1>1, ItemLists
<1>3. Expand(items) /\ stack # <<>> /\ stack \in Seq(Item)
  BY DEF ParseExtends, Doing, TypeOK
<1> QED
  BY <1>2, <1>3, ExpandStays

LEMMA ParseMembersStays ==
  ASSUME TypeOK, ParseMembers
  PROVE  Stay /\ Items
<1>1. <<Skip, Parse("member"), Skip, Parse("members")>> \in Seq(Item)
  BY TakeItems, NameItems, NodeItems, ParseItems, ItemLists
<1> DEFINE items == IF Look \in {"end", "eof"} THEN <<>> ELSE <<Skip, Parse("member"),
                    Skip, Parse("members")>>
<1>2. items \in Seq(Item)
  BY <1>1, ItemLists
<1>3. Expand(items) /\ stack # <<>> /\ stack \in Seq(Item)
  BY DEF ParseMembers, Doing, TypeOK
<1> QED
  BY <1>2, <1>3, ExpandStays

LEMMA ParseVariableStays ==
  ASSUME TypeOK, ParseVariable
  PROVE  Stay /\ Items
<1>1. <<Name("identifier"), Take("colon"), Parse("expression")>> \in Seq(Item)
  BY TakeItems, NameItems, NodeItems, ParseItems, ItemLists
<1> DEFINE items == <<Name("identifier"), Take("colon"), Parse("expression")>>
<1>2. items \in Seq(Item)
  BY <1>1, ItemLists
<1>3. Expand(items) /\ stack # <<>> /\ stack \in Seq(Item)
  BY DEF ParseVariable, Doing, TypeOK
<1> QED
  BY <1>2, <1>3, ExpandStays

LEMMA ParseParametersStays ==
  ASSUME TypeOK, ParseParameters
  PROVE  Stay /\ Items
<1>1. <<Take("open_par"), Parse("first parameter"), Take("close_par")>> \in Seq(Item)
  BY TakeItems, NameItems, NodeItems, ParseItems, ItemLists
<1> DEFINE items == <<Take("open_par"), Parse("first parameter"), Take("close_par")>>
<1>2. items \in Seq(Item)
  BY <1>1, ItemLists
<1>3. Expand(items) /\ stack # <<>> /\ stack \in Seq(Item)
  BY DEF ParseParameters, Doing, TypeOK
<1> QED
  BY <1>2, <1>3, ExpandStays

LEMMA ParseAssignmentStays ==
  ASSUME TypeOK, ParseAssignment
  PROVE  Stay /\ Items
<1>1. <<Name("identifier"), Take("assignment"), Parse("expression")>> \in Seq(Item)
  BY TakeItems, NameItems, NodeItems, ParseItems, ItemLists
<1> DEFINE items == <<Name("identifier"), Take("assignment"), Parse("expression")>>
<1>2. items \in Seq(Item)
  BY <1>1, ItemLists
<1>3. Expand(items) /\ stack # <<>> /\ stack \in Seq(Item)
  BY DEF ParseAssignment, Doing, TypeOK
<1> QED
  BY <1>2, <1>3, ExpandStays

LEMMA ParseWhileStays ==
  ASSUME TypeOK, ParseWhile
  PROVE  Stay /\ Items
<1>1. <<Parse("expression"), Take("loop"), Parse("block"), Take("end")>> \in Seq(Item)
  BY TakeItems, NameItems, NodeItems, ParseItems, ItemLists
<1> DEFINE items == <<Parse("expression"), Take("loop"), Parse("block"), Take("end")>>
<1>2. items \in Seq(Item)
  BY <1>1, ItemLists
<1>3. Expand(items) /\ stack # <<>> /\ stack \in Seq(Item)
  BY DEF ParseWhile, Doing, TypeOK
<1> QED
  BY <1>2, <1>3, ExpandStays

LEMMA ParseReturnStays ==
  ASSUME TypeOK, ParseReturn
  PROVE  Stay /\ Items
<1>1. <<Parse("expression")>> \in Seq(Item)
  BY TakeItems, NameItems, NodeItems, ParseItems, ItemLists
<1> DEFINE items == IF Look \in {"end", "newline"} THEN <<>> ELSE
                    <<Parse("expression")>>
<1>2. items \in Seq(Item)
  BY <1>1, ItemLists
<1>3. Expand(items) /\ stack # <<>> /\ stack \in Seq(Item)
  BY DEF ParseReturn, Doing, TypeOK
<1> QED
  BY <1>2, <1>3, ExpandStays

LEMMA ListOfStays ==
  ASSUME TypeOK, NEW item \in Item, NEW first, NEW more \in Item, ListOf(item, first, more)
  PROVE  Stay /\ Items
<1> stack \in Seq(Item)
  BY DEF TypeOK
<1>1. <<item, more>> \in Seq(Item) /\ <<Take("comma"), item, more>> \in Seq(Item)
  BY TakeItems, ItemLists
<1>2. CASE Doing(first) /\ Expand(IF Look = "close_par" THEN <<>> ELSE <<item, more>>)
  <2> DEFINE items == IF Look = "close_par" THEN <<>> ELSE <<item, more>>
  <2>1. items \in Seq(Item)
    BY <1>1, ItemLists
  <2> QED
    BY <1>2, <2>1, ExpandStays DEF Doing
<1>3. CASE Doing(more) /\
            Expand(IF Look = "comma" THEN <<Take("comma"), item, more>> ELSE <<>>)
  <2> DEFINE items == IF Look = "comma" THEN <<Take("comma"), item, more>> ELSE <<>>
  <2>1. items \in Seq(Item)
    BY <1>1, ItemLists
  <2> QED
    BY <1>3, <2>1, ExpandStays DEF Doing
<1> QED
  BY <1>2, <1>3 DEF ListOf

LEMMA ParseParameterStays ==
  ASSUME TypeOK, ParseParameter
  PROVE  Stay /\ Items
<1> stack \in Seq(Item)
  BY DEF TypeOK
<1>1. CASE ListOf(Parse("parameter"), Parse("first parameter"), Parse("more parameters"))
  <2>1. Parse("parameter") \in Item /\ Parse("more parameters") \in Item
    BY ParseItems
  <2> QED
    BY <1>1, <2>1, ListOfStays
<1>2. CASE Doing(Parse("parameter")) /\
            Expand(<<Open("parameter"), Name("identifier"), Take("colon"),
                   Name("identifier"), Close("parameter")>>)
  <2>1. <<Open("parameter"), Name("identifier"), Take("colon"), Name("identifier"),
         Close("parameter")>> \in Seq(Item)
    BY TakeItems, NameItems, NodeItems, ParseItems, ItemLists
  <2> DEFINE items == <<Open("parameter"), Name("identifier"), Take("colon"),
                      Name("identifier"), Close("parameter")>>
  <2>2. items \in Seq(Item)
    BY <2>1, ItemLists
  <2>3. Expand(items) /\ stack # <<>>
    BY <1>2 DEF Doing
  <2> QED
    BY <2>2, <2>3, ExpandStays
<1> QED
  BY <1>1, <1>2 DEF ParseParameter

LEMMA ParseMethodStays ==
  ASSUME TypeOK, ParseMethod
  PROVE  Stay /\ Items
<1> stack \in Seq(Item)
  BY DEF TypeOK
<1>1. CASE Doing(Parse("method")) /\
            Expand(<<Name("identifier"), Parse("parameters"), Parse("return type"),
                   Parse("method body")>>)
  <2>1. <<Name("identifier"), Parse("parameters"), Parse("return type"),
         Parse("method body")>> \in Seq(Item)
    BY TakeItems, NameItems, NodeItems, ParseItems, ItemLists
  <2> DEFINE items == <<Name("identifier"), Parse("parameters"), Parse("return type"),
                      Parse("method body")>>
  <2>2. items \in Seq(Item)
    BY <2>1, ItemLists
  <2>3. Expand(items) /\ stack # <<>>
    BY <1>1 DEF Doing
  <2> QED
    BY <2>2, <2>3, ExpandStays
<1>2. CASE Doing(Parse("return type")) /\
            Expand(IF Look = "colon" THEN <<Take("colon"), Name("identifier"), Skip>>
                   ELSE <<>>)
  <2>1. <<Take("colon"), Name("identifier"), Skip>> \in Seq(Item)
    BY TakeItems, NameItems, NodeItems, ParseItems, ItemLists
  <2> DEFINE items == IF Look = "colon" THEN <<Take("colon"), Name("identifier"), Skip>>
                      ELSE <<>>
  <2>2. items \in Seq(Item)
    BY <2>1, ItemLists
  <2>3. Expand(items) /\ stack # <<>>
    BY <1>2 DEF Doing
  <2> QED
    BY <2>2, <2>3, ExpandStays
<1>3. CASE Doing(Parse("method body")) /\
            Expand(CASE Look = "is" -> <<Take("is"), Parse("block"), Take("end")>> []
                   Look = "fat_arrow" -> <<Take("fat_arrow"), Parse("expression")>> []
                   OTHER -> <<>>)
  <2>1. <<Take("is"), Parse("block"), Take("end")>> \in Seq(Item)
    BY TakeItems, NameItems, NodeItems, ParseItems, ItemLists
  <2>2. <<Take("fat_arrow"), Parse("expression")>> \in Seq(Item)
    BY TakeItems, NameItems, NodeItems, ParseItems, ItemLists
  <2> DEFINE items == CASE Look = "is" -> <<Take("is"), Parse("block"), Take("end")>> []
                      Look = "fat_arrow" -> <<Take("fat_arrow"), Parse("expression")>>
                      [] OTHER -> <<>>
  <2>3. items \in Seq(Item)
    BY <2>1, <2>2, ItemLists
  <2>4. Expand(items) /\ stack # <<>>
    BY <1>3 DEF Doing
  <2> QED
    BY <2>3, <2>4, ExpandStays
<1> QED
  BY <1>1, <1>2, <1>3 DEF ParseMethod

LEMMA ParseConstructorStays ==
  ASSUME TypeOK, ParseConstructor
  PROVE  Stay /\ Items
<1> stack \in Seq(Item)
  BY DEF TypeOK
<1>1. CASE Doing(Parse("constructor")) /\
            Expand(<<Parse("parameters"), Parse("super"), Take("is"), Parse("block"),
                   Take("end")>>)
  <2>1. <<Parse("parameters"), Parse("super"), Take("is"), Parse("block"),
         Take("end")>> \in Seq(Item)
    BY TakeItems, NameItems, NodeItems, ParseItems, ItemLists
  <2> DEFINE items == <<Parse("parameters"), Parse("super"), Take("is"), Parse("block"),
                      Take("end")>>
  <2>2. items \in Seq(Item)
    BY <2>1, ItemLists
  <2>3. Expand(items) /\ stack # <<>>
    BY <1>1 DEF Doing
  <2> QED
    BY <2>2, <2>3, ExpandStays
<1>2. CASE Doing(Parse("super")) /\
            Expand(IF Look = "colon" THEN <<Open("super"), Take("colon"), Take("super"),
                   Take("open_par"), Parse("arguments"), Close("super")>> ELSE <<>>)
  <2>1. <<Open("super"), Take("colon"), Take("super"), Take("open_par"),
         Parse("arguments"), Close("super")>> \in Seq(Item)
    BY TakeItems, NameItems, NodeItems, ParseItems, ItemLists
  <2> DEFINE items == IF Look = "colon" THEN <<Open("super"), Take("colon"),
                      Take("super"), Take("open_par"), Parse("arguments"),
                      Close("super")>> ELSE <<>>
  <2>2. items \in Seq(Item)
    BY <2>1, ItemLists
  <2>3. Expand(items) /\ stack # <<>>
    BY <1>2 DEF Doing
  <2> QED
    BY <2>2, <2>3, ExpandStays
<1> QED
  BY <1>1, <1>2 DEF ParseConstructor

LEMMA ParseBlockStays ==
  ASSUME TypeOK, ParseBlock
  PROVE  Stay /\ Items
<1> stack \in Seq(Item)
  BY DEF TypeOK
<1>1. CASE Doing(Parse("block")) /\
            Expand(<<Open("block"), Skip, Parse("items"), Close("block")>>)
  <2>1. <<Open("block"), Skip, Parse("items"), Close("block")>> \in Seq(Item)
    BY TakeItems, NameItems, NodeItems, ParseItems, ItemLists
  <2> DEFINE items == <<Open("block"), Skip, Parse("items"), Close("block")>>
  <2>2. items \in Seq(Item)
    BY <2>1, ItemLists
  <2>3. Expand(items) /\ stack # <<>>
    BY <1>1 DEF Doing
  <2> QED
    BY <2>2, <2>3, ExpandStays
<1>2. CASE Doing(Parse("items")) /\
            Expand(CASE Look = "var" -> <<Open("variable"), Take("var"),
                   Parse("variable"), Close("variable"), Skip, Parse("items")>> [] Look
                   \in StatementStart -> <<Parse("statement"), Skip, Parse("items")>> []
                   OTHER -> <<>>)
  <2>1. <<Open("variable"), Take("var"), Parse("variable"), Close("variable"), Skip,
         Parse("items")>> \in Seq(Item)
    BY TakeItems, NameItems, NodeItems, ParseItems, ItemLists
  <2>2. <<Parse("statement"), Skip, Parse("items")>> \in Seq(Item)
    BY TakeItems, NameItems, NodeItems, ParseItems, ItemLists
  <2> DEFINE items == CASE Look = "var" -> <<Open("variable"), Take("var"),
                      Parse("variable"), Close("variable"), Skip, Parse("items")>> []
                      Look \in StatementStart -> <<Parse("statement"), Skip,
                      Parse("items")>> [] OTHER -> <<>>
  <2>3. items \in Seq(Item)
    BY <2>1, <2>2, ItemLists
  <2>4. Expand(items) /\ stack # <<>>
    BY <1>2 DEF Doing
  <2> QED
    BY <2>3, <2>4, ExpandStays
<1> QED
  BY <1>1, <1>2 DEF ParseBlock

LEMMA ParseIfStays ==
  ASSUME TypeOK, ParseIf
  PROVE  Stay /\ Items
<1> stack \in Seq(Item)
  BY DEF TypeOK
<1>1. CASE Doing(Parse("if")) /\
            Expand(<<Parse("expression"), Take("then"), Parse("block"), Parse("else"),
                   Take("end")>>)
  <2>1. <<Parse("expression"), Take("then"), Parse("block"), Parse("else"),
         Take("end")>> \in Seq(Item)
    BY TakeItems, NameItems, NodeItems, ParseItems, ItemLists
  <2> DEFINE items == <<Parse("expression"), Take("then"), Parse("block"),
                      Parse("else"), Take("end")>>
  <2>2. items \in Seq(Item)
    BY <2>1, ItemLists
  <2>3. Expand(items) /\ stack # <<>>
    BY <1>1 DEF Doing
  <2> QED
    BY <2>2, <2>3, ExpandStays
<1>2. CASE Doing(Parse("else")) /\
            Expand(IF Look = "else" THEN <<Take("else"), Parse("block")>> ELSE <<>>)
  <2>1. <<Take("else"), Parse("block")>> \in Seq(Item)
    BY TakeItems, NameItems, NodeItems, ParseItems, ItemLists
  <2> DEFINE items == IF Look = "else" THEN <<Take("else"), Parse("block")>> ELSE <<>>
  <2>2. items \in Seq(Item)
    BY <2>1, ItemLists
  <2>3. Expand(items) /\ stack # <<>>
    BY <1>2 DEF Doing
  <2> QED
    BY <2>2, <2>3, ExpandStays
<1> QED
  BY <1>1, <1>2 DEF ParseIf

LEMMA ParseExpressionStays ==
  ASSUME TypeOK, ParseExpression
  PROVE  Stay /\ Items
<1> stack \in Seq(Item)
  BY DEF TypeOK
<1>1. CASE Doing(Parse("expression")) /\
            Expand(<<Skip, Parse("primary"), Parse("links")>>)
  <2>1. <<Skip, Parse("primary"), Parse("links")>> \in Seq(Item)
    BY TakeItems, NameItems, NodeItems, ParseItems, ItemLists
  <2> DEFINE items == <<Skip, Parse("primary"), Parse("links")>>
  <2>2. items \in Seq(Item)
    BY <2>1, ItemLists
  <2>3. Expand(items) /\ stack # <<>>
    BY <1>1 DEF Doing
  <2> QED
    BY <2>2, <2>3, ExpandStays
<1>2. CASE Doing(Parse("links")) /\
            Expand(IF Look = "dot" THEN <<Take("dot"), Member, Parse("call"), Skip,
                   Parse("links")>> ELSE <<>>)
  <2>1. <<Take("dot"), Member, Parse("call"), Skip, Parse("links")>> \in Seq(Item)
    BY TakeItems, NameItems, NodeItems, ParseItems, ItemLists
  <2> DEFINE items == IF Look = "dot" THEN <<Take("dot"), Member, Parse("call"), Skip,
                      Parse("links")>> ELSE <<>>
  <2>2. items \in Seq(Item)
    BY <2>1, ItemLists
  <2>3. Expand(items) /\ stack # <<>>
    BY <1>2 DEF Doing
  <2> QED
    BY <2>2, <2>3, ExpandStays
<1>3. CASE Doing(Parse("call")) /\
            Expand(IF Look = "open_par" THEN <<Open("call"), Take("open_par"),
                   Parse("arguments"), Close("call")>> ELSE <<>>)
  <2>1. <<Open("call"), Take("open_par"), Parse("arguments"), Close("call")>> \in Seq(Item)
    BY TakeItems, NameItems, NodeItems, ParseItems, ItemLists
  <2> DEFINE items == IF Look = "open_par" THEN <<Open("call"), Take("open_par"),
                      Parse("arguments"), Close("call")>> ELSE <<>>
  <2>2. items \in Seq(Item)
    BY <2>1, ItemLists
  <2>3. Expand(items) /\ stack # <<>>
    BY <1>3 DEF Doing
  <2> QED
    BY <2>2, <2>3, ExpandStays
<1>4. CASE Doing(Parse("create")) /\
            Expand(IF Look = "open_par" THEN <<Open("create"), Take("open_par"),
                   Parse("arguments"), Close("create")>> ELSE <<>>)
  <2>1. <<Open("create"), Take("open_par"), Parse("arguments"), Close("create")>> \in Seq(Item)
    BY TakeItems, NameItems, NodeItems, ParseItems, ItemLists
  <2> DEFINE items == IF Look = "open_par" THEN <<Open("create"), Take("open_par"),
                      Parse("arguments"), Close("create")>> ELSE <<>>
  <2>2. items \in Seq(Item)
    BY <2>1, ItemLists
  <2>3. Expand(items) /\ stack # <<>>
    BY <1>4 DEF Doing
  <2> QED
    BY <2>2, <2>3, ExpandStays
<1> QED
  BY <1>1, <1>2, <1>3, <1>4 DEF ParseExpression

LEMMA ParseArgumentsStays ==
  ASSUME TypeOK, ParseArguments
  PROVE  Stay /\ Items
<1> stack \in Seq(Item)
  BY DEF TypeOK
<1>1. CASE ListOf(Parse("expression"), Parse("first argument"), Parse("more arguments"))
  <2>1. Parse("expression") \in Item /\ Parse("more arguments") \in Item
    BY ParseItems
  <2> QED
    BY <1>1, <2>1, ListOfStays
<1>2. CASE Doing(Parse("arguments")) /\
            Expand(<<Parse("first argument"), Take("close_par")>>)
  <2>1. <<Parse("first argument"), Take("close_par")>> \in Seq(Item)
    BY TakeItems, NameItems, NodeItems, ParseItems, ItemLists
  <2> DEFINE items == <<Parse("first argument"), Take("close_par")>>
  <2>2. items \in Seq(Item)
    BY <2>1, ItemLists
  <2>3. Expand(items) /\ stack # <<>>
    BY <1>2 DEF Doing
  <2> QED
    BY <2>2, <2>3, ExpandStays
<1> QED
  BY <1>1, <1>2 DEF ParseArguments

LEMMA BranchStays ==
  ASSUME TypeOK, stack # <<>>, NEW branches, Branch(branches),
         \A t \in DOMAIN branches : branches[t] \in Seq(Item)
  PROVE  Stay /\ Items
<1>1. CASE Look \in DOMAIN branches
  BY <1>1, ExpandStays DEF Branch, TypeOK
<1>2. CASE Look \notin DOMAIN branches
  BY <1>2, RejectStays DEF Branch
<1> QED
  BY <1>1, <1>2

LEMMA ParseMemberTable ==
  \A a, b, c \in Seq(Item) :
    LET table == [var |-> a, method |-> b, this |-> c]
    IN  \A t \in DOMAIN table : table[t] \in Seq(Item)
OBVIOUS

LEMMA ParseMemberStays ==
  ASSUME TypeOK, ParseMember
  PROVE  Stay /\ Items
<1> stack \in Seq(Item)
  BY DEF TypeOK
<1>1. <<Open("field"), Take("var"), Parse("variable"), Close("field")>> \in Seq(Item)
  BY TakeItems, NameItems, NodeItems, ParseItems, ItemLists
<1>2. <<Open("method"), Take("method"), Parse("method"), Close("method")>> \in Seq(Item)
  BY TakeItems, NameItems, NodeItems, ParseItems, ItemLists
<1>3. <<Open("constructor"), Name("this"), Parse("constructor"), Close("constructor")>> \in Seq(Item)
  BY TakeItems, NameItems, NodeItems, ParseItems, ItemLists
<1> DEFINE table == [
       var |-> <<Open("field"), Take("var"), Parse("variable"), Close("field")>>,
       method |-> <<Open("method"), Take("method"), Parse("method"), Close("method")>>,
       this |-> <<Open("constructor"), Name("this"), Parse("constructor"),
                 Close("constructor")>>]
<1>4. \A t \in DOMAIN table : table[t] \in Seq(Item)
  BY <1>1, <1>2, <1>3, ParseMemberTable
<1> HIDE DEF table
<1>5. Branch(table) /\ stack # <<>>
  BY DEF ParseMember, Doing, table
<1> QED
  BY <1>4, <1>5, BranchStays

LEMMA ParsePrimaryTable ==
  \A a, b, c, d, e, f, g \in Seq(Item) :
    LET table == [int |-> a, real |-> b, true |-> c, false |-> d, this |-> e, identifier
                 |-> f, open_par |-> g]
    IN  \A t \in DOMAIN table : table[t] \in Seq(Item)
OBVIOUS

LEMMA ParsePrimaryStays ==
  ASSUME TypeOK, ParsePrimary
  PROVE  Stay /\ Items
<1> stack \in Seq(Item)
  BY DEF TypeOK
<1>1. <<Primary("int")>> \in Seq(Item)
  BY TakeItems, NameItems, NodeItems, ParseItems, ItemLists
<1>2. <<Primary("real")>> \in Seq(Item)
  BY TakeItems, NameItems, NodeItems, ParseItems, ItemLists
<1>3. <<Primary("true")>> \in Seq(Item)
  BY TakeItems, NameItems, NodeItems, ParseItems, ItemLists
<1>4. <<Primary("false")>> \in Seq(Item)
  BY TakeItems, NameItems, NodeItems, ParseItems, ItemLists
<1>5. <<Primary("this")>> \in Seq(Item)
  BY TakeItems, NameItems, NodeItems, ParseItems, ItemLists
<1>6. <<Primary("identifier"), Parse("create")>> \in Seq(Item)
  BY TakeItems, NameItems, NodeItems, ParseItems, ItemLists
<1>7. <<Open("group"), Take("open_par"), Parse("expression"), Take("close_par"),
       Close("group")>> \in Seq(Item)
  BY TakeItems, NameItems, NodeItems, ParseItems, ItemLists
<1> DEFINE table == [
       int |-> <<Primary("int")>>,
       real |-> <<Primary("real")>>,
       true |-> <<Primary("true")>>,
       false |-> <<Primary("false")>>,
       this |-> <<Primary("this")>>,
       identifier |-> <<Primary("identifier"), Parse("create")>>,
       open_par |-> <<Open("group"), Take("open_par"), Parse("expression"),
                     Take("close_par"), Close("group")>>]
<1>8. \A t \in DOMAIN table : table[t] \in Seq(Item)
  BY <1>1, <1>2, <1>3, <1>4, <1>5, <1>6, <1>7, ParsePrimaryTable
<1> HIDE DEF table
<1>9. Branch(table) /\ stack # <<>>
  BY DEF ParsePrimary, Doing, table
<1> QED
  BY <1>8, <1>9, BranchStays

LEMMA ParseStatementTable ==
  \A a, b, c \in Seq(Item) :
    LET table == [while |-> a, if |-> b, return |-> c]
    IN  \A t \in DOMAIN table : table[t] \in Seq(Item)
OBVIOUS

LEMMA ParseStatementStays ==
  ASSUME TypeOK, ParseStatement
  PROVE  (Stay \/ Advance) /\ Items
<1> stack \in Seq(Item)
  BY DEF TypeOK
<1>1. <<Open("while"), Take("while"), Parse("while"), Close("while")>> \in Seq(Item)
  BY TakeItems, NameItems, NodeItems, ParseItems, ItemLists
<1>2. <<Open("if"), Take("if"), Parse("if"), Close("if")>> \in Seq(Item)
  BY TakeItems, NameItems, NodeItems, ParseItems, ItemLists
<1>3. <<Open("return"), Take("return"), Parse("return"), Close("return")>> \in Seq(Item)
  BY TakeItems, NameItems, NodeItems, ParseItems, ItemLists
<1> DEFINE table == [
       while |-> <<Open("while"), Take("while"), Parse("while"), Close("while")>>,
       if |-> <<Open("if"), Take("if"), Parse("if"), Close("if")>>,
       return |-> <<Open("return"), Take("return"), Parse("return"), Close("return")>>]
<1>4. \A t \in DOMAIN table : table[t] \in Seq(Item)
  BY <1>1, <1>2, <1>3, ParseStatementTable
<1> HIDE DEF table
<1>5. CASE Look \in {"identifier", "this"}
  <2>1. current' = current + 1 /\ UNCHANGED <<file, tokens, result>>
        /\ stack' = <<Parse("after name")>> \o Tail(stack)
    BY <1>5 DEF ParseStatement
  <2>2. current \in 1..Len(tokens) /\ stack # <<>>
    BY DEF ParseStatement, Doing
  <2>3. <<Parse("after name")>> \in Seq(Item)
    BY ParseItems, ItemLists
  <2>6. Tail(stack) \in Seq(Item)
    BY <2>2, PoppedItems DEF TypeOK
  <2>4. stack' \in Seq(Item)
    BY <2>1, <2>3, <2>6, Concatenated
  <2>5. Look # "eof"
    BY <1>5
  <2> QED
    BY <2>1, <2>2, <2>4, <2>5 DEF Advance, Items, Look, TypeOK
<1>6. CASE Look \notin {"identifier", "this"}
  <2>1. Branch(table) /\ stack # <<>>
    BY <1>6 DEF ParseStatement, Doing, table
  <2> QED
    BY <1>4, <2>1, BranchStays
<1> QED
  BY <1>5, <1>6

LEMMA ParseAfterNameRetreats ==
  ASSUME TypeOK, ParseAfterName
  PROVE  Retreat /\ Items
<1>1. <<Parse("expression")>> \in Seq(Item)
  BY ParseItems, ItemLists
<1>2. <<Open("assignment"), Parse("assignment"), Close("assignment")>> \in Seq(Item)
  BY NodeItems, ParseItems, ItemLists
<1> DEFINE items == IF Look = "dot" THEN <<Parse("expression")>>
                    ELSE <<Open("assignment"), Parse("assignment"), Close("assignment")>>
<1>3. items \in Seq(Item)
  BY <1>1, <1>2
<1>4. Tail(stack) \in Seq(Item)
  <2>1. stack # <<>> /\ stack \in Seq(Item)
    BY DEF ParseAfterName, Doing, TypeOK
  <2> QED
    BY <2>1, PoppedItems
<1>5. stack' = items \o Tail(stack)
  BY DEF ParseAfterName
<1> HIDE DEF items
<1>6. stack' \in Seq(Item)
  BY <1>3, <1>4, <1>5, Concatenated
<1> QED
  BY <1>6 DEF ParseAfterName, Retreat, Items, TypeOK

LEMMA NodesStay ==
  ASSUME TypeOK, NEW kind, OpenNode(kind) \/ CloseNode(kind)
  PROVE  Stay /\ Items
<1>1. stack # <<>> /\ UNCHANGED <<file, tokens, current, result>> /\ stack' = Tail(stack)
  BY DEF OpenNode, CloseNode, Doing, Popped
<1> QED
  BY <1>1 DEF Stay, Items, TypeOK

LEMMA AcceptStays ==
  ASSUME TypeOK, Accept
  PROVE  Stay /\ Items
BY DEF Accept, Stay, Items, TypeOK

LEMMA TokensAdvance ==
  ASSUME TypeOK,
         \/ \E t \in Consumed : TakeToken(t)
         \/ \E t \in {"identifier", "this"} : NameToken(t)
         \/ \E t \in Literal \cup {"identifier", "this"} : PrimaryToken(t)
         \/ MemberToken
  PROVE  (Stay \/ Advance) /\ Items
<1>1. CASE \E t \in Consumed : TakeToken(t)
  <2>1. PICK t \in Consumed : TakeToken(t)
    BY <1>1
  <2>2. Take(t) \in Item
    BY DEF Item
  <2>3. Take(t)[2] # "eof"
    BY DEF Take, Consumed
  <2> QED
    BY <2>1, <2>2, <2>3, TokenAdvances DEF TakeToken
<1>2. CASE \E t \in {"identifier", "this"} : NameToken(t)
  <2>1. PICK t \in {"identifier", "this"} : NameToken(t)
    BY <1>2
  <2>2. Name(t) \in Item
    BY DEF Item
  <2>3. Name(t)[2] # "eof"
    BY DEF Name
  <2> QED
    BY <2>1, <2>2, <2>3, TokenAdvances DEF NameToken
<1>4. CASE \E t \in Literal \cup {"identifier", "this"} : PrimaryToken(t)
  <2>1. PICK t \in Literal \cup {"identifier", "this"} : PrimaryToken(t)
    BY <1>4
  <2>2. Primary(t) \in Item
    BY DEF Item
  <2>3. Primary(t)[2] # "eof"
    BY DEF Primary, Literal
  <2> QED
    BY <2>1, <2>2, <2>3, TokenAdvances DEF PrimaryToken
<1>3. CASE MemberToken
  <2>1. Member \in Item
    BY DEF Item
  <2>2. Member[2] # "eof"
    BY DEF Member
  <2> QED
    BY <1>3, <2>1, <2>2, TokenAdvances DEF MemberToken
<1> QED
  BY <1>1, <1>2, <1>3, <1>4

(***************************************************************************)
(* Every step stays, advances over a token that is not the end, gives one  *)
(* back, or looks at a new one.                                            *)
(***************************************************************************)
LEMMA StepsOfNext ==
  ASSUME TypeOK, Next
  PROVE  Read \/ ((Stay \/ Advance \/ Retreat) /\ Items)
<1>1. CASE Read
  BY <1>1
<1>2. CASE \/ \E t \in Consumed : TakeToken(t)
           \/ \E t \in {"identifier", "this"} : NameToken(t)
           \/ \E t \in Literal \cup {"identifier", "this"} : PrimaryToken(t)
           \/ MemberToken
  BY <1>2, TokensAdvance
<1>3. CASE SkipNewlines \/ ParseStatement \/ ParseAfterName
  BY <1>3, SkipAdvances, ParseStatementStays, ParseAfterNameRetreats
<1>4. CASE \E kind \in Kinds : OpenNode(kind) \/ CloseNode(kind)
  BY <1>4, NodesStay
<1>5. CASE ParseProgram \/ ParseClass \/ ParseExtends \/ ParseMembers \/ ParseMember
           \/ ParseVariable \/ ParseParameters \/ ParseParameter \/ ParseMethod
  BY <1>5, ParseProgramStays, ParseClassStays, ParseExtendsStays, ParseMembersStays,
     ParseMemberStays, ParseVariableStays, ParseParametersStays, ParseParameterStays,
     ParseMethodStays
<1>6. CASE ParseConstructor \/ ParseBlock \/ ParseAssignment \/ ParseWhile \/ ParseIf
           \/ ParseReturn \/ ParseExpression \/ ParsePrimary \/ ParseArguments \/ Accept
  BY <1>6, ParseConstructorStays, ParseBlockStays, ParseAssignmentStays, ParseWhileStays,
     ParseIfStays, ParseReturnStays, ParseExpressionStays, ParsePrimaryStays,
     ParseArgumentsStays, AcceptStays
<1> QED
  BY <1>1, <1>2, <1>3, <1>4, <1>5, <1>6 DEF Next

LEMMA InitTyped == Init => TypeOK /\ NeverPastEnd
<1>1. ASSUME Init PROVE tokens \in Seq(Token) /\ file \in Files
  BY <1>1, FilesAssumption DEF Init
<1>2. ASSUME Init PROVE stack \in Seq(Item)
  BY <1>2, NameItems, ParseItems, ItemLists DEF Init
<1>3. ASSUME Init PROVE ~AtEnd
  BY <1>1, <1>3, FilesAssumption DEF AtEnd, Last
<1>4. ASSUME Init PROVE tokens \in Seq(Token \cup {"eof"})
  BY <1>1, <1>4
<1>5. ASSUME Init PROVE TypeOK
  BY <1>1, <1>2, <1>4, <1>5 DEF Init, TypeOK
<1> QED
  BY <1>3, <1>5 DEF NeverPastEnd

LEMMA ReadTyped ==
  ASSUME TypeOK, Read
  PROVE  TypeOK' /\ current' \in 1..Len(tokens')
<1>1. tokens' \in Seq(Text) /\ Len(tokens') \in Nat /\ Len(tokens') > Len(tokens)
  <2>1. CASE \E t \in Token : tokens' = Append(tokens, t)
    <3>1. PICK t \in Text : tokens' = Append(tokens, t)
      BY <2>1 DEF Text
    <3>2. tokens \in Seq(Text)
      BY DEF TypeOK, Text
    <3> QED
      BY <3>1, <3>2
  <2>2. CASE tokens' = tokens \o file.after \o <<"eof">>
    <3>1. file.after \in Seq(Token)
      BY FilesAssumption DEF TypeOK
    <3>2. PICK after \in Seq(Text) : after = file.after
      BY <3>1 DEF Text
    <3>3. PICK end \in Seq(Text) : end = <<"eof">> /\ Len(end) = 1
      <4>1. "eof" \in Text
        BY DEF Text
      <4>2. <<"eof">> \in Seq(Text) /\ Len(<<"eof">>) = 1
        BY <4>1
      <4> QED
        BY <4>2
    <3>4. tokens \in Seq(Text)
      BY DEF TypeOK, Text
    <3> DEFINE both == tokens \o after
    <3>6. tokens' = both \o end
      BY <2>2, <3>2, <3>3
    <3>5. both \in Seq(Text) /\ Len(both) >= Len(tokens)
      <4>1. both \in Seq(Text) /\ Len(both) = Len(tokens) + Len(after)
        BY <3>4, Concatenated
      <4>2. Len(tokens) \in Nat /\ Len(after) \in Nat
        BY <3>4
      <4> QED
        BY <4>1, <4>2
    <3> HIDE DEF both
    <3>7. tokens' \in Seq(Text) /\ Len(tokens') = Len(both) + 1
      BY <3>3, <3>5, <3>6, Concatenated
    <3> QED
      BY <3>4, <3>5, <3>7
  <2> QED
    BY <2>1, <2>2 DEF Read
<1>2. current' = Len(tokens) + 1 /\ Len(tokens) \in Nat
  BY DEF Read, TypeOK
<1>3. current' \in 1..Len(tokens')
  BY <1>1, <1>2
<1> QED
  BY <1>1, <1>2, <1>3 DEF Read, TypeOK, Text

\* The types are kept by every step of every parse function.
LEMMA TypeStep ==
  ASSUME TypeOK, [Next]_vars
  PROVE  TypeOK'
<1>1. CASE UNCHANGED vars
  BY <1>1 DEF vars, TypeOK
<1>2. CASE Read
  BY <1>2, ReadTyped
<1>3. CASE (Stay \/ Advance \/ Retreat) /\ Items
  BY <1>3 DEF Stay, Advance, Retreat, Items, TypeOK
<1> QED
  BY <1>1, <1>2, <1>3, StepsOfNext

LEMMA EndStep ==
  ASSUME TypeOK, NeverPastEnd, [Next]_vars
  PROVE  NeverPastEnd'
<1>1. CASE UNCHANGED vars
  BY <1>1 DEF vars, NeverPastEnd, AtEnd, Last
<1>2. CASE Read
  BY <1>2, ReadTyped DEF NeverPastEnd
<1>3. CASE Stay
  BY <1>3 DEF Stay, NeverPastEnd, AtEnd, Last
<1>4. CASE Retreat
  <2>1. AtEnd' <=> AtEnd
    BY <1>4 DEF Retreat, AtEnd, Last
  <2> QED
    BY <1>4, <2>1 DEF Retreat, NeverPastEnd, TypeOK
<1>5. CASE Advance
  <2>1. SUFFICES ASSUME AtEnd'
                 PROVE  current' \in 1..Len(tokens')
    BY DEF NeverPastEnd
  <2>2. tokens[Len(tokens)] = "eof"
    BY <1>5, <2>1 DEF Advance, AtEnd, Last
  <2>3. current # Len(tokens)
    BY <1>5, <2>2 DEF Advance
  <2> QED
    BY <1>5, <2>3 DEF Advance, TypeOK
<1> QED
  BY <1>1, <1>2, <1>3, <1>4, <1>5, StepsOfNext

\* Every state of the parser has its types; no function consumes the end of the file
\* (parser.cpp:57).
THEOREM TypeCorrect == Spec => []TypeOK
<1>1. Init => TypeOK
  BY InitTyped
<1>2. TypeOK /\ [Next]_vars => TypeOK'
  BY TypeStep
<1> QED
  BY <1>1, <1>2, PTL DEF Spec

\* check() (parser.cpp:32) never reads past the vector, for every file of any length.
THEOREM InsideTheTokens == Spec => []NeverPastEnd
<1>1. Init => TypeOK /\ NeverPastEnd
  BY InitTyped
<1>2. TypeOK /\ NeverPastEnd /\ [Next]_vars => (TypeOK /\ NeverPastEnd)'
  BY TypeStep, EndStep
<1> QED
  BY <1>1, <1>2, PTL DEF Spec
=============================================================================
