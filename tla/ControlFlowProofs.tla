-------------------------- MODULE ControlFlowProofs --------------------------
(***************************************************************************)
(* The return check and the basic blocks of ControlFlow, for bodies of any *)
(* length and any depth.  The argument has three parts: what the flag says *)
(* about the paths that get here; which blocks are still without a         *)
(* terminator while statements are open; and, from the second, which       *)
(* blocks can be reached so far.                                           *)
(***************************************************************************)
EXTENDS ControlFlow, Integers, TLAPS, SequenceTheorems, FiniteSetTheorems, WellFoundedInduction

(* Sequences. *)

\* What is left of a sequence without its last element.
LEMMA FrontFacts ==
  ASSUME NEW S, NEW s \in Seq(S), s # <<>>
  PROVE  /\ SubSeq(s, 1, Len(s) - 1) \in Seq(S)
         /\ Len(SubSeq(s, 1, Len(s) - 1)) = Len(s) - 1
         /\ \A i \in 1..Len(s) - 1 : SubSeq(s, 1, Len(s) - 1)[i] = s[i] /\ i \in 1..Len(s)
<1>1. PICK m \in Nat : m = Len(s) - 1
  OBVIOUS
<1>2. \A i \in 1..m : s[i] \in S /\ i \in 1..Len(s)
  BY <1>1
<1>3. /\ SubSeq(s, 1, m) \in Seq(S)
      /\ Len(SubSeq(s, 1, m)) = IF 1 <= m THEN m - 1 + 1 ELSE 0
      /\ \A i \in 1..m - 1 + 1 : SubSeq(s, 1, m)[i] = s[1 + i - 1]
  BY <1>2, SubSeqProperties, SMT
<1>4. m - 1 + 1 = m /\ \A i \in 1..m : 1 + i - 1 = i
  OBVIOUS
<1>5. Len(SubSeq(s, 1, m)) = m
  BY <1>3, <1>4
<1>6. \A i \in 1..m : SubSeq(s, 1, m)[i] = s[i]
  BY <1>3, <1>4, Zenon
<1>. QED BY <1>1, <1>2, <1>3, <1>5, <1>6, Zenon

LEMMA FrontOfExcept ==
  ASSUME NEW S, NEW s \in Seq(S), s # <<>>, NEW x \in S
  PROVE  /\ SubSeq([s EXCEPT ![Len(s)] = x], 1, Len(s) - 1) = SubSeq(s, 1, Len(s) - 1)
         /\ Append(SubSeq(s, 1, Len(s) - 1), x) = [s EXCEPT ![Len(s)] = x]
<1> DEFINE u == [s EXCEPT ![Len(s)] = x]
<1>1. u \in Seq(S) /\ Len(u) = Len(s) /\ u[Len(s)] = x /\ u # <<>>
      /\ \A i \in 1..Len(s) - 1 : u[i] = s[i]
  OBVIOUS
<1> HIDE DEF u
<1>2. PICK f : f = SubSeq(s, 1, Len(s) - 1)
  OBVIOUS
<1>3. PICK g : g = SubSeq(u, 1, Len(u) - 1)
  OBVIOUS
<1>4. f \in Seq(S) /\ Len(f) = Len(s) - 1 /\ \A i \in 1..Len(s) - 1 : f[i] = s[i]
  BY <1>2, FrontFacts
<1>5. g \in Seq(S) /\ Len(g) = Len(s) - 1 /\ \A i \in 1..Len(s) - 1 : g[i] = u[i]
  BY <1>1, <1>3, FrontFacts
<1>6. f = g
  BY <1>1, <1>4, <1>5, SeqEqual
<1>7. Append(f, x) = u
  <2>1. Append(f, x) \in Seq(S) /\ Len(Append(f, x)) = Len(s)
    BY <1>4
  <2>2. \A i \in 1..Len(s) : Append(f, x)[i] = u[i]
    BY <1>1, <1>4
  <2>. QED BY <1>1, <2>1, <2>2, SeqEqual
<1>. QED BY <1>1, <1>2, <1>3, <1>6, <1>7, Zenon DEF u

-----------------------------------------------------------------------------
(* The blocks and who waits for them. *)

Block == Seq(Instruction)

\* The part of TypeOK that is about the stack and the blocks.
Typed(bs, a, fs) ==
  /\ fs \in Seq(Frame)
  /\ bs \in Seq(Block) /\ a \in 1..Len(bs)
  /\ \A k \in 1..Len(fs) : fs[k].emitted => {fs[k].other, fs[k].end} \subseteq 1..Len(bs)

Closed(b) == b # <<>> /\ b[Len(b)].op \in Terminators

\* The blocks that the visit of a statement still has to fill.
Pending(f) == {b \in {f.other, f.end} : f.emitted /\ (b = f.end \/ f.stmt = "then")}

\* Every block is closed, or is the insert block, or waits, empty, for exactly one
\* of the open statements; and no block has a terminator before its end.
Layout(bs, a, fs) ==
  /\ Typed(bs, a, fs)
  /\ \A b \in 1..Len(bs) : \A k \in 1..Len(bs[b]) - 1 : bs[b][k].op \notin Terminators
  /\ \A b \in 1..Len(bs) :
       Closed(bs[b]) \/ b = a \/ \E i \in 1..Len(fs) : b \in Pending(fs[i])
  /\ \A i \in 1..Len(fs) : \A b \in Pending(fs[i]) : bs[b] = <<>> /\ b # a
  /\ \A i, j \in 1..Len(fs) : \A b \in Pending(fs[i]) : b \in Pending(fs[j]) => i = j
  /\ \A i \in 1..Len(fs) : fs[i].stmt = "then" /\ fs[i].emitted => fs[i].other # fs[i].end

\* Adding an instruction to an insert block that is not closed.
LEMMA AddKeepsLayout ==
  ASSUME NEW bs, NEW a, NEW fs, Layout(bs, a, fs), ~Closed(bs[a]),
         NEW x \in Instruction
  PROVE  /\ Layout(Add(bs, a, x), a, fs)
         /\ x.op \in Terminators <=> Closed(Add(bs, a, x)[a])
         /\ Len(Add(bs, a, x)) = Len(bs)
<1> DEFINE new == Add(bs, a, x)
<1>1. bs \in Seq(Block) /\ a \in 1..Len(bs) /\ bs[a] \in Seq(Instruction)
  BY DEF Layout, Typed, Block
<1>2. /\ new \in Seq(Block) /\ Len(new) = Len(bs)
      /\ new[a] = Append(bs[a], x)
      /\ \A b \in 1..Len(bs) : b # a => new[b] = bs[b]
  BY <1>1 DEF Add, Block
<1>3. /\ Len(new[a]) = Len(bs[a]) + 1 /\ new[a][Len(bs[a]) + 1] = x
      /\ \A k \in 1..Len(bs[a]) : new[a][k] = bs[a][k]
      /\ new[a] # <<>>
  BY <1>1, <1>2
<1>4. Typed(new, a, fs)
  BY <1>1, <1>2 DEF Layout, Typed
<1>5. \A k \in 1..Len(bs[a]) : bs[a][k].op \notin Terminators
  <2>1. SUFFICES ASSUME NEW k \in 1..Len(bs[a]) PROVE bs[a][k].op \notin Terminators
    OBVIOUS
  <2>2. CASE k = Len(bs[a])
    BY <2>2, <1>1 DEF Closed
  <2>3. CASE k # Len(bs[a])
    BY <2>3, <1>1 DEF Layout
  <2>. QED BY <2>2, <2>3
<1>6. \A b \in 1..Len(new) : \A k \in 1..Len(new[b]) - 1 : new[b][k].op \notin Terminators
  <2>1. SUFFICES ASSUME NEW b \in 1..Len(new), NEW k \in 1..Len(new[b]) - 1
                 PROVE  new[b][k].op \notin Terminators
    OBVIOUS
  <2>2. CASE b = a
    BY <2>2, <1>1, <1>3, <1>5
  <2>3. CASE b # a
    BY <2>3, <1>2 DEF Layout
  <2>. QED BY <2>2, <2>3
<1>7. \A b \in 1..Len(new) :
        Closed(new[b]) \/ b = a \/ \E i \in 1..Len(fs) : b \in Pending(fs[i])
  BY <1>2 DEF Layout
<1>8. \A i \in 1..Len(fs) : \A b \in Pending(fs[i]) : new[b] = <<>> /\ b # a
  <2>1. SUFFICES ASSUME NEW i \in 1..Len(fs), NEW b \in Pending(fs[i])
                 PROVE  new[b] = <<>> /\ b # a
    OBVIOUS
  <2>2. b \in 1..Len(bs)
    BY DEF Pending, Layout, Typed
  <2>. QED BY <2>2, <1>2 DEF Layout
<1>9. x.op \in Terminators <=> Closed(new[a])
  BY <1>1, <1>3 DEF Closed
<1>. QED BY <1>2, <1>4, <1>6, <1>7, <1>8, <1>9 DEF Layout

\* A closed insert block is left for one of the blocks that the innermost statement
\* still has to fill, and that statement waits for it no longer.
LEMMA MoveKeepsLayout ==
  ASSUME NEW bs, NEW a, NEW fs, Layout(bs, a, fs), Closed(bs[a]), fs # <<>>,
         NEW f \in Frame, NEW t \in Pending(fs[Len(fs)]),
         Pending(f) = Pending(fs[Len(fs)]) \ {t},
         f.emitted => {f.other, f.end} \subseteq 1..Len(bs), f.stmt # "then"
  PROVE  Layout(bs, t, [fs EXCEPT ![Len(fs)] = f])
<1> DEFINE n == Len(fs)
           new == [fs EXCEPT ![n] = f]
<1>1. fs \in Seq(Frame) /\ n \in Nat \ {0} /\ n \in 1..n /\ bs \in Seq(Block)
  BY DEF Layout, Typed
<1>2. /\ new \in Seq(Frame) /\ Len(new) = n /\ new[n] = f
      /\ \A i \in 1..n : i # n => new[i] = fs[i]
  BY <1>1
<1>3. t \in 1..Len(bs)
  BY <1>1 DEF Pending, Layout, Typed
<1>4. Typed(bs, t, new)
  <2>1. ASSUME NEW k \in 1..n, new[k].emitted
        PROVE  {new[k].other, new[k].end} \subseteq 1..Len(bs)
    <3>1. CASE k = n
      BY <3>1, <2>1, <1>2
    <3>2. CASE k # n
      <4>1. new[k] = fs[k]
        BY <3>2, <1>2
      <4>. QED BY <4>1, <2>1 DEF Layout, Typed
    <3>. QED BY <3>1, <3>2
  <2>. QED BY <1>1, <1>2, <1>3, <2>1 DEF Typed
<1>5. \A i \in 1..n : Pending(new[i]) \subseteq Pending(fs[i]) /\ t \notin Pending(new[i])
  <2>1. SUFFICES ASSUME NEW i \in 1..n
                 PROVE  Pending(new[i]) \subseteq Pending(fs[i]) /\ t \notin Pending(new[i])
    OBVIOUS
  <2>2. CASE i = n
    BY <2>2, <1>2
  <2>3. CASE i # n
    <3>1. new[i] = fs[i]
      BY <2>3, <1>2
    <3>2. t \notin Pending(fs[i])
      BY <2>3, <1>1 DEF Layout
    <3>. QED BY <3>1, <3>2
  <2>. QED BY <2>2, <2>3
<1>6. \A b \in 1..Len(bs) :
        Closed(bs[b]) \/ b = t \/ \E i \in 1..n : b \in Pending(new[i])
  <2>1. SUFFICES ASSUME NEW b \in 1..Len(bs), ~Closed(bs[b]), b # t
                 PROVE  \E i \in 1..n : b \in Pending(new[i])
    OBVIOUS
  <2>2. PICK i \in 1..n : b \in Pending(fs[i])
    BY <2>1 DEF Layout
  <2>3. b \in Pending(new[i])
    <3>1. CASE i = n
      BY <3>1, <2>1, <2>2, <1>2
    <3>2. CASE i # n
      BY <3>2, <2>2, <1>2
    <3>. QED BY <3>1, <3>2
  <2>. QED BY <2>3
<1>7. \A i \in 1..n : \A b \in Pending(new[i]) : bs[b] = <<>> /\ b # t
  BY <1>5 DEF Layout
<1>8. \A i, j \in 1..n : \A b \in Pending(new[i]) : b \in Pending(new[j]) => i = j
  <2>1. SUFFICES ASSUME NEW i \in 1..n, NEW j \in 1..n, NEW b,
                        b \in Pending(new[i]), b \in Pending(new[j])
                 PROVE  i = j
    OBVIOUS
  <2>2. b \in Pending(fs[i]) /\ b \in Pending(fs[j])
    BY <1>5, <2>1
  <2>. QED BY <2>2 DEF Layout
<1>9. \A i \in 1..n : new[i].stmt = "then" /\ new[i].emitted => new[i].other # new[i].end
  BY <1>2 DEF Layout
<1>. QED BY <1>2, <1>4, <1>6, <1>7, <1>8, <1>9 DEF Layout

\* The innermost statement is over and waits for nothing any more.
LEMMA PopKeepsLayout ==
  ASSUME NEW bs, NEW a, NEW fs, Layout(bs, a, fs), fs # <<>>,
         Pending(fs[Len(fs)]) = {}
  PROVE  Layout(bs, a, SubSeq(fs, 1, Len(fs) - 1))
<1> DEFINE n == Len(fs)
           new == SubSeq(fs, 1, n - 1)
<1>1. fs \in Seq(Frame) /\ n \in Nat \ {0} /\ bs \in Seq(Block)
  BY DEF Layout, Typed
<1>2. /\ new \in Seq(Frame) /\ Len(new) = n - 1
      /\ \A i \in 1..n - 1 : new[i] = fs[i] /\ i \in 1..n
  BY <1>1, FrontFacts
<1>3. Typed(bs, a, new)
  BY <1>1, <1>2 DEF Layout, Typed
<1>4. ASSUME NEW b \in 1..Len(bs), ~Closed(bs[b]), b # a
      PROVE  \E i \in 1..n - 1 : b \in Pending(new[i])
  <2>1. PICK i \in 1..n : b \in Pending(fs[i])
    BY <1>4 DEF Layout
  <2>2. i # n
    BY <2>1
  <2>3. i \in 1..n - 1
    BY <2>2, <1>1
  <2>. QED BY <2>1, <2>3, <1>2
<1>5. \A i \in 1..n - 1 : \A b \in Pending(new[i]) : bs[b] = <<>> /\ b # a
  BY <1>2 DEF Layout
<1>6. \A i, j \in 1..n - 1 : \A b \in Pending(new[i]) : b \in Pending(new[j]) => i = j
  BY <1>2 DEF Layout
<1>7. \A i \in 1..n - 1 : new[i].stmt = "then" /\ new[i].emitted => new[i].other # new[i].end
  BY <1>2 DEF Layout
<1>. QED BY <1>2, <1>3, <1>4, <1>5, <1>6, <1>7 DEF Layout

\* A statement is opened behind a closed insert block: blocks are added, one of
\* which is the new insert block, and the statement waits for those left empty.
LEMMA PushKeepsLayout ==
  ASSUME NEW bs, NEW a, NEW fs, Layout(bs, a, fs),
         NEW f \in Frame, NEW more \in Seq(Block), NEW t,
         f.emitted => {f.other, f.end} \subseteq 1..Len(bs) + Len(more),
         Pending(f) \cap 1..Len(bs) = {},
         f.stmt = "then" /\ f.emitted => f.other # f.end,
         t = a \/ (Closed(bs[a]) /\ t \in Len(bs) + 1..Len(bs) + Len(more)),
         \A k \in 1..Len(more) :
           /\ Closed(more[k]) \/ Len(bs) + k = t \/ Len(bs) + k \in Pending(f)
           /\ \A i \in 1..Len(more[k]) - 1 : more[k][i].op \notin Terminators
           /\ Len(bs) + k \in Pending(f) => more[k] = <<>> /\ Len(bs) + k # t
  PROVE  Layout(bs \o more, t, Append(fs, f))
<1> DEFINE n == Len(fs)
           m == Len(bs)
           new == Append(fs, f)
           all == bs \o more
<1>1. fs \in Seq(Frame) /\ n \in Nat /\ bs \in Seq(Block) /\ m \in Nat /\ Len(more) \in Nat
      /\ a \in 1..m
  BY DEF Layout, Typed
<1>2. /\ new \in Seq(Frame) /\ Len(new) = n + 1 /\ new[n + 1] = f
      /\ \A i \in 1..n : new[i] = fs[i]
  BY <1>1
<1>3. /\ all \in Seq(Block) /\ Len(all) = m + Len(more)
      /\ \A b \in 1..m : all[b] = bs[b]
      /\ \A k \in 1..Len(more) : all[m + k] = more[k]
  BY <1>1
<1>4. \A b \in 1..Len(all) : b \in 1..m \/ \E k \in 1..Len(more) : b = m + k
  <2>1. SUFFICES ASSUME NEW b \in 1..Len(all), b \notin 1..m
                 PROVE  \E k \in 1..Len(more) : b = m + k
    OBVIOUS
  <2>2. b - m \in 1..Len(more) /\ b = m + (b - m)
    BY <2>1, <1>1, <1>3
  <2>. QED BY <2>2
<1>5. \A i \in 1..n + 1 : i \in 1..n \/ i = n + 1
  BY <1>1
<1>6. \A i \in 1..n : Pending(fs[i]) \subseteq 1..m
  BY DEF Pending, Layout, Typed
<1>7. Pending(f) \subseteq m + 1..m + Len(more)
  <2>1. Pending(f) \subseteq 1..m + Len(more)
    BY DEF Pending
  <2>. QED BY <2>1, <1>1
<1>8. Typed(all, t, new)
  <2>1. t \in 1..Len(all)
    BY <1>1, <1>3
  <2>2. ASSUME NEW k \in 1..n + 1, new[k].emitted
        PROVE  {new[k].other, new[k].end} \subseteq 1..Len(all)
    <3>1. CASE k = n + 1
      BY <3>1, <2>2, <1>2, <1>3
    <3>2. CASE k \in 1..n
      <4>1. {fs[k].other, fs[k].end} \subseteq 1..m
        BY <3>2, <2>2, <1>2 DEF Layout, Typed
      <4>. QED BY <4>1, <3>2, <1>1, <1>2, <1>3
    <3>. QED BY <3>1, <3>2, <1>5
  <2>. QED BY <1>2, <1>3, <2>1, <2>2 DEF Typed
<1>9. ASSUME NEW b \in 1..Len(all), NEW k \in 1..Len(all[b]) - 1
      PROVE  all[b][k].op \notin Terminators
  <2>1. CASE b \in 1..m
    BY <2>1, <1>3 DEF Layout
  <2>2. CASE b \notin 1..m
    <3>1. PICK j \in 1..Len(more) : b = m + j
      BY <2>2, <1>4
    <3>. QED BY <3>1, <1>3
  <2>. QED BY <2>1, <2>2
<1>10. ASSUME NEW b \in 1..Len(all), ~Closed(all[b]), b # t
       PROVE  \E i \in 1..n + 1 : b \in Pending(new[i])
  <2>1. CASE b \in 1..m
    <3>1. ~Closed(bs[b]) /\ b # a
      BY <2>1, <1>3, <1>10
    <3>2. PICK i \in 1..n : b \in Pending(fs[i])
      BY <2>1, <3>1 DEF Layout
    <3>. QED BY <3>2, <1>1, <1>2
  <2>2. CASE b \notin 1..m
    <3>1. PICK k \in 1..Len(more) : b = m + k
      BY <2>2, <1>4
    <3>2. b \in Pending(new[n + 1]) /\ n + 1 \in 1..n + 1
      BY <3>1, <1>10, <1>1, <1>2, <1>3
    <3>. QED BY <3>2
  <2>. QED BY <2>1, <2>2
<1>11. ASSUME NEW i \in 1..n + 1, NEW b \in Pending(new[i])
       PROVE  all[b] = <<>> /\ b # t
  <2>1. CASE i \in 1..n
    <3>1. b \in Pending(fs[i]) /\ b \in 1..m
      BY <2>1, <1>2, <1>6
    <3>2. bs[b] = <<>> /\ b # a
      BY <2>1, <3>1 DEF Layout
    <3>. QED BY <3>1, <3>2, <1>1, <1>3
  <2>2. CASE i = n + 1
    <3>1. b \in Pending(f)
      BY <2>2, <1>2
    <3>2. b \in 1..Len(all) /\ b \notin 1..m
      BY <3>1, <1>1, <1>3, <1>7
    <3>3. PICK k \in 1..Len(more) : b = m + k
      BY <3>2, <1>4
    <3>. QED BY <3>1, <3>3, <1>3
  <2>. QED BY <2>1, <2>2, <1>5
<1>12. ASSUME NEW i \in 1..n + 1, NEW j \in 1..n + 1, NEW b,
              b \in Pending(new[i]), b \in Pending(new[j])
       PROVE  i = j
  <2>1. CASE i \in 1..n /\ j \in 1..n
    BY <2>1, <1>2, <1>12 DEF Layout
  <2>2. CASE i = n + 1 /\ j \in 1..n
    BY <2>2, <1>1, <1>2, <1>6, <1>7, <1>12
  <2>3. CASE i \in 1..n /\ j = n + 1
    BY <2>3, <1>1, <1>2, <1>6, <1>7, <1>12
  <2>. QED BY <2>1, <2>2, <2>3, <1>5
<1>13. \A i \in 1..n + 1 : new[i].stmt = "then" /\ new[i].emitted => new[i].other # new[i].end
  BY <1>2, <1>5 DEF Layout
<1>. QED BY <1>2, <1>8, <1>9, <1>10, <1>11, <1>12, <1>13 DEF Layout

-----------------------------------------------------------------------------
(* Types. *)

LEMMA InstrTyped ==
  ASSUME NEW op \in {"code"} \cup Terminators, NEW to \in SUBSET Nat
  PROVE  Instr(op, to) \in Instruction /\ Instr(op, to).op = op
BY DEF Instr, Instruction

LEMMA NewFrameTyped ==
  ASSUME TypeOK, NEW stmt \in {"then", "else", "while"}, NEW hasElse \in BOOLEAN,
         NEW other \in Nat, NEW end \in Nat
  PROVE  LET f == NewFrame(stmt, hasElse, other, end) IN
         /\ f \in Frame
         /\ f.stmt = stmt /\ f.other = other /\ f.end = end
         /\ (f.emitted <=> ~Skipping) /\ f.liveIn = live /\ f.liveThen = {}
BY DEF NewFrame, Frame, TypeOK

LEMMA TopTyped ==
  ASSUME TypeOK, Opened
  PROVE  /\ Len(frames) \in Nat \ {0} /\ Len(frames) \in 1..Len(frames)
         /\ Top \in Frame
         /\ Top.emitted => {Top.other, Top.end} \subseteq 1..Len(blocks)
BY DEF TypeOK, Opened, Top

ElseFrame == [Top EXCEPT !.stmt = "else", !.thenReturns = returns, !.liveThen = live]

LEMMA ElseFrameTyped ==
  ASSUME TypeOK, Opened
  PROVE  /\ ElseFrame \in Frame
         /\ ElseFrame.stmt = "else" /\ ElseFrame.emitted = Top.emitted
         /\ ElseFrame.other = Top.other /\ ElseFrame.end = Top.end
         /\ ElseFrame.thenReturns = returns
         /\ ElseFrame.liveIn = Top.liveIn /\ ElseFrame.liveThen = live
<1>1. Top \in Frame /\ returns \in BOOLEAN /\ live \in SUBSET Reading
  BY TopTyped DEF TypeOK
<1>. QED BY <1>1 DEF ElseFrame, Frame

\* What happens to the stack: a frame comes, is replaced, or goes.
LEMMA StackFacts ==
  ASSUME TypeOK
  PROVE  /\ \A f \in Frame :
              /\ Append(frames, f) \in Seq(Frame)
              /\ Len(Append(frames, f)) = Len(frames) + 1
              /\ Append(frames, f)[Len(frames) + 1] = f
              /\ \A i \in 1..Len(frames) : Append(frames, f)[i] = frames[i]
         /\ Opened =>
              /\ Pop \in Seq(Frame) /\ Len(Pop) = Len(frames) - 1
              /\ \A i \in 1..Len(frames) - 1 : Pop[i] = frames[i] /\ i \in 1..Len(frames)
              /\ \A f \in Frame : LET new == [frames EXCEPT ![Len(frames)] = f] IN
                   /\ new \in Seq(Frame) /\ Len(new) = Len(frames)
                   /\ new[Len(frames)] = f
                   /\ \A i \in 1..Len(frames) : i # Len(frames) => new[i] = frames[i]
<1>1. frames \in Seq(Frame)
  BY DEF TypeOK
<1>2. ASSUME Opened
      PROVE  /\ Pop \in Seq(Frame) /\ Len(Pop) = Len(frames) - 1
             /\ \A i \in 1..Len(frames) - 1 : Pop[i] = frames[i] /\ i \in 1..Len(frames)
  BY <1>1, <1>2, FrontFacts DEF Pop, Opened
<1>3. ASSUME Opened, NEW f \in Frame
      PROVE  LET new == [frames EXCEPT ![Len(frames)] = f] IN
             /\ new \in Seq(Frame) /\ Len(new) = Len(frames)
             /\ new[Len(frames)] = f
             /\ \A i \in 1..Len(frames) : i # Len(frames) => new[i] = frames[i]
  BY <1>1, <1>3 DEF Opened
<1>. QED BY <1>1, <1>2, <1>3

\* Adding an instruction changes neither the number nor the type of blocks.
LEMMA AddTyped ==
  ASSUME NEW bs \in Seq(Block), NEW b \in 1..Len(bs), NEW x \in Instruction
  PROVE  Add(bs, b, x) \in Seq(Block) /\ Len(Add(bs, b, x)) = Len(bs)
<1>1. Append(bs[b], x) \in Block
  BY DEF Block
<1>. QED BY <1>1 DEF Add

LEMMA BranchTyped ==
  ASSUME NEW bs \in Seq(Block), NEW b \in 1..Len(bs), NEW to \in Nat
  PROVE  /\ BranchUnlessTerminated(bs, b, to) \in Seq(Block)
         /\ Len(BranchUnlessTerminated(bs, b, to)) = Len(bs)
<1>1. Instr("br", {to}) \in Instruction
  BY InstrTyped DEF Terminators
<1>. QED BY <1>1, AddTyped DEF BranchUnlessTerminated

\* TypeOK has two parts: the stack with the blocks, and the rest.
Plain ==
  /\ kind \in {"method", "constructor"} /\ returns \in BOOLEAN
  /\ verdict \in {"open", "accepted", "rejected", "thrown"} /\ failed \in BOOLEAN
  /\ size \in 0..MaxStatements
  /\ live \in SUBSET Reading /\ dead \in BOOLEAN /\ afterThrow \in BOOLEAN

LEMMA TypeParts == TypeOK <=> Plain /\ Typed(blocks, at, frames)
BY DEF TypeOK, Plain, Typed, Block

LEMMA PlainStep == ASSUME TypeOK, [Next]_vars PROVE Plain'
<1>0. /\ Plain /\ MaxStatements \in Nat
      /\ Opened => Top.liveIn \in SUBSET Reading /\ Top.liveThen \in SUBSET Reading
      /\ Opened => Top.thenReturns \in BOOLEAN
  BY TypeParts, TopTyped, BoundsAssumption DEF Frame
<1>a. ASSUME NextStatement PROVE size' \in 0..MaxStatements
  BY <1>a, <1>0 DEF NextStatement, Plain
<1>b. ASSUME NextStatement PROVE dead' \in BOOLEAN /\ verdict = "open"
  BY <1>b, <1>0, Zenon DEF NextStatement, Plain
<1>1. ASSUME NEW typed \in BOOLEAN, Simple(typed) \/ Return(typed) PROVE Plain'
  <2>1. NextStatement /\ UNCHANGED <<kind, verdict, afterThrow>> /\ failed' = (failed \/ ~typed)
    BY <1>1 DEF Simple, Return
  <2>2. failed' \in BOOLEAN
    BY <2>1, Zenon
  <2>3. returns' \in {returns, TRUE} /\ live' \in {live, {}}
    BY <1>1, Zenon DEF Simple, Return
  <2>. QED BY <2>1, <2>2, <2>3, <1>0, <1>a, <1>b, Zenon DEF Plain
<1>2. CASE IllTypedCondition \/ Throw
  BY <1>2, <1>0, <1>a, <1>b, Zenon DEF IllTypedCondition, Throw, Plain
<1>3. ASSUME NEW hasElse \in BOOLEAN, OpenIf(hasElse) PROVE Plain'
  BY <1>3, <1>0, <1>a, <1>b, Zenon DEF OpenIf, SplitIf, Plain
<1>4. CASE StartElse \/ CloseIf
  BY <1>4, <1>0 DEF StartElse, CloseIf, Plain
<1>5. CASE CloseElse
  <2>1. returns' \in BOOLEAN
    BY <1>5, Zenon DEF CloseElse, MergeElse
  <2>. QED BY <1>5, <2>1, <1>0 DEF CloseElse, MergeElse, Plain
<1>6. CASE OpenWhile
  BY <1>6, <1>0, <1>a, <1>b, Zenon DEF OpenWhile, Plain
<1>7. CASE CloseWhile
  BY <1>7, <1>0 DEF CloseWhile, Reading, Plain
<1>8. CASE EndBody
  <2>1. failed' \in BOOLEAN
    BY <1>8, Zenon DEF EndBody, FinishBody
  <2>2. verdict' \in {"accepted", "rejected"}
    BY <1>8, Zenon DEF EndBody, FinishBody
  <2>. QED BY <1>8, <2>1, <2>2, <1>0 DEF EndBody, FinishBody, Plain
<1>9. CASE NextBody
  <2>1. size' \in 0..MaxStatements
    BY <1>9, <1>0 DEF NextBody
  <2>. QED BY <1>9, <2>1, <1>0, Zenon DEF NextBody, Plain
<1>10. CASE UNCHANGED vars
  BY <1>10, <1>0 DEF vars, Plain
<1>. QED BY <1>1, <1>2, <1>3, <1>4, <1>5, <1>6, <1>7, <1>8, <1>9, <1>10 DEF Next

-----------------------------------------------------------------------------
(* The flag. *)

\* Open statements whose kept flag is right: a then branch that counts as returning
\* has no path through it with the loops entered; and the other way round, where
\* everything written so far can be reached.
SoundFrame == {f \in Frame : f.stmt = "else" /\ f.thenReturns => "entered" \notin f.liveThen}
CompleteFrame == {f \in Frame :
  /\ "entered" \in f.liveIn
  /\ f.stmt = "else" /\ ~f.thenReturns => "entered" \in f.liveThen}

FlagInv ==
  /\ verdict # "open" => frames = <<>>
  /\ verdict \in {"accepted", "rejected"} => ~returns
  /\ ~afterThrow /\ verdict = "open" =>
       (returns => "entered" \notin live) /\ frames \in Seq(SoundFrame)
  /\ ~dead /\ verdict = "open" =>
       (~returns => "entered" \in live) /\ frames \in Seq(CompleteFrame)
  /\ AcceptedReturnsIfLoopsRun
  /\ RejectedCanFallOff

LEMMA StackIn ==
  ASSUME NEW S, NEW fs \in Seq(S)
  PROVE  /\ \A f \in S : Append(fs, f) \in Seq(S)
         /\ fs # <<>> =>
              /\ fs[Len(fs)] \in S
              /\ SubSeq(fs, 1, Len(fs) - 1) \in Seq(S)
              /\ \A f \in S : [fs EXCEPT ![Len(fs)] = f] \in Seq(S)
<1>1. fs # <<>> => SubSeq(fs, 1, Len(fs) - 1) \in Seq(S)
  BY FrontFacts
<1>2. fs # <<>> => fs[Len(fs)] \in S /\ \A f \in S : [fs EXCEPT ![Len(fs)] = f] \in Seq(S)
  OBVIOUS
<1>. QED BY <1>1, <1>2

\* A step inside a body that stays open: what it owes to the flag.
LEMMA OpenStep ==
  ASSUME verdict' = "open",
         ~afterThrow' => (returns' => "entered" \notin live') /\ frames' \in Seq(SoundFrame),
         ~dead' => (~returns' => "entered" \in live') /\ frames' \in Seq(CompleteFrame)
  PROVE  FlagInv'
BY DEF FlagInv, AcceptedReturnsIfLoopsRun, RejectedCanFallOff

\* A statement is opened: its frame is sound, and complete if it can be reached.
LEMMA NewFrameFlags ==
  ASSUME TypeOK, NEW stmt \in {"then", "while"}, NEW hasElse \in BOOLEAN,
         NEW other \in Nat, NEW end \in Nat
  PROVE  /\ NewFrame(stmt, hasElse, other, end) \in SoundFrame
         /\ "entered" \in live => NewFrame(stmt, hasElse, other, end) \in CompleteFrame
BY NewFrameTyped DEF SoundFrame, CompleteFrame

LEMMA FlagStep == ASSUME TypeOK, FlagInv, [Next]_vars PROVE FlagInv'
<1>0. Len(blocks) \in Nat
  BY DEF TypeOK
<1>1. ASSUME NEW typed \in BOOLEAN, Simple(typed) PROVE FlagInv'
  BY <1>1, OpenStep, Zenon DEF Simple, NextStatement, FlagInv
<1>2. ASSUME NEW typed \in BOOLEAN, Return(typed) PROVE FlagInv'
  <2>1. "entered" \notin live' /\ returns'
    BY <1>2 DEF Return
  <2>. QED BY <1>2, <2>1, OpenStep, Zenon DEF Return, NextStatement, FlagInv
<1>3. CASE IllTypedCondition
  BY <1>3, OpenStep, Zenon DEF IllTypedCondition, NextStatement, FlagInv
<1>4. CASE Throw
  BY <1>4 DEF Throw, FlagInv, AcceptedReturnsIfLoopsRun, RejectedCanFallOff
<1>5. ASSUME NEW stmt \in {"then", "while"}, NEW hasElse \in BOOLEAN,
             NEW other \in Nat, NEW end \in Nat,
             frames' = Append(frames, NewFrame(stmt, hasElse, other, end)),
             NextStatement, UNCHANGED <<returns, verdict, live, afterThrow>>
      PROVE  FlagInv'
  <2>1. ASSUME ~afterThrow' PROVE frames' \in Seq(SoundFrame)
    BY <1>5, <2>1, NewFrameFlags, StackIn, Zenon DEF FlagInv, NextStatement
  <2>2. ASSUME ~dead' PROVE frames' \in Seq(CompleteFrame)
    BY <1>5, <2>2, NewFrameFlags, StackIn, Zenon DEF FlagInv, NextStatement
  <2>. QED BY <1>5, <2>1, <2>2, OpenStep, Zenon DEF FlagInv, NextStatement
<1>6. ASSUME NEW hasElse \in BOOLEAN, OpenIf(hasElse) PROVE FlagInv'
  <2>1. Len(blocks) + 2 \in Nat /\ Len(blocks) + 3 \in Nat
    BY <1>0
  <2>. QED BY <1>5, <1>6, <2>1, Zenon DEF OpenIf, SplitIf, Push
<1>7. CASE OpenWhile
  <2>1. Len(blocks) + 1 \in Nat /\ Len(blocks) + 3 \in Nat
    BY <1>0
  <2>. QED BY <1>5, <1>7, <2>1, Zenon DEF OpenWhile, Push
<1>8. CASE StartElse
  <2>1. /\ frames' = [frames EXCEPT ![Len(frames)] = ElseFrame]
        /\ frames # <<>> /\ verdict = "open" /\ verdict' = "open" /\ ~returns'
        /\ live' = Top.liveIn /\ afterThrow' = afterThrow /\ dead' = dead
    BY <1>8 DEF StartElse, ElseFrame, Top, Opened
  <2>2. ASSUME ~afterThrow' PROVE frames' \in Seq(SoundFrame)
    <3>1. frames \in Seq(SoundFrame) /\ (returns => "entered" \notin live)
      BY <2>1, <2>2 DEF FlagInv
    <3>2. ElseFrame \in SoundFrame
      BY <2>1, <3>1, ElseFrameTyped DEF SoundFrame, Opened
    <3>. QED BY <2>1, <3>1, <3>2, StackIn, Zenon
  <2>3. ASSUME ~dead' PROVE frames' \in Seq(CompleteFrame) /\ "entered" \in live'
    <3>1. frames \in Seq(CompleteFrame) /\ (~returns => "entered" \in live)
      BY <2>1, <2>3 DEF FlagInv
    <3>2. Top \in CompleteFrame
      BY <2>1, <3>1, StackIn DEF Top
    <3>3. ElseFrame \in CompleteFrame
      BY <2>1, <3>1, <3>2, ElseFrameTyped DEF CompleteFrame, Opened
    <3>4. frames' \in Seq(CompleteFrame)
      BY <2>1, <3>1, <3>3, StackIn, Zenon
    <3>. QED BY <2>1, <3>2, <3>4 DEF CompleteFrame
  <2>. QED BY <2>1, <2>2, <2>3, OpenStep, Zenon
<1>9. ASSUME frames' = Pop, Opened, verdict = "open",
             UNCHANGED <<verdict, dead, afterThrow>>,
             ~afterThrow /\ returns' /\ (returns => "entered" \notin live) /\ Top \in SoundFrame
               => "entered" \notin live',
             ~dead /\ ~returns' /\ (~returns => "entered" \in live) /\ Top \in CompleteFrame
               => "entered" \in live'
      PROVE  FlagInv'
  <2>1. ASSUME ~afterThrow'
        PROVE  frames' \in Seq(SoundFrame) /\ (returns' => "entered" \notin live')
    <3>1. /\ frames \in Seq(SoundFrame) /\ (returns => "entered" \notin live)
          /\ frames # <<>>
      BY <1>9, <2>1 DEF FlagInv, Opened
    <3>2. Top \in SoundFrame /\ frames' \in Seq(SoundFrame)
      BY <1>9, <3>1, StackIn, Zenon DEF Top, Pop
    <3>. QED BY <1>9, <2>1, <3>1, <3>2, Zenon
  <2>2. ASSUME ~dead'
        PROVE  frames' \in Seq(CompleteFrame) /\ (~returns' => "entered" \in live')
    <3>1. /\ frames \in Seq(CompleteFrame) /\ (~returns => "entered" \in live)
          /\ frames # <<>>
      BY <1>9, <2>2 DEF FlagInv, Opened
    <3>2. Top \in CompleteFrame /\ frames' \in Seq(CompleteFrame)
      BY <1>9, <3>1, StackIn, Zenon DEF Top, Pop
    <3>. QED BY <1>9, <2>2, <3>1, <3>2, Zenon
  <2>. QED BY <1>9, <2>1, <2>2, OpenStep, Zenon
<1>10. CASE CloseElse
  BY <1>9, <1>10 DEF CloseElse, MergeElse, SoundFrame, CompleteFrame
<1>11. CASE CloseIf
  BY <1>9, <1>11 DEF CloseIf, SoundFrame, CompleteFrame
<1>12. CASE CloseWhile
  <2>1. "entered" \in live' <=> "entered" \in live
    BY <1>12 DEF CloseWhile
  <2>. QED BY <1>9, <1>12, <2>1, Zenon DEF CloseWhile
<1>13. CASE EndBody
  BY <1>13 DEF EndBody, FinishBody, FlagInv, AcceptedReturnsIfLoopsRun, RejectedCanFallOff
<1>14. CASE NextBody
  <2>1. "entered" \in live' /\ frames' = <<>> /\ verdict' = "open"
    BY <1>14 DEF NextBody, Reading, FlagInv
  <2>2. ~afterThrow' => ~returns'
    <3>1. verdict \in {"accepted", "rejected", "thrown"}
      BY <1>14 DEF NextBody, TypeOK
    <3>. QED BY <1>14, <3>1 DEF NextBody, FlagInv
  <2>. QED BY <2>1, <2>2, OpenStep
<1>15. CASE UNCHANGED vars
  BY <1>15 DEF vars, FlagInv, AcceptedReturnsIfLoopsRun, RejectedCanFallOff
<1>. QED BY <1>1, <1>2, <1>3, <1>4, <1>6, <1>7, <1>8, <1>10, <1>11, <1>12, <1>13, <1>14, <1>15
        DEF Next

-----------------------------------------------------------------------------
(* The blocks. *)

\* A statement opened where nothing can run any more has nothing to give back.
QuietFrame == {f \in Frame : ~f.emitted => f.liveIn = {} /\ f.liveThen = {}}

Nested(fs) == \A i, j \in 1..Len(fs) : i < j /\ fs[j].emitted => fs[i].emitted

EmitInv ==
  /\ Typed(blocks, at, frames)
  /\ verdict = "open" =>
       Layout(blocks, at, frames) /\ frames \in Seq(QuietFrame) /\ Nested(frames)
  /\ DropsOnlyDeadCode
  /\ BlocksWellFormed

LEMMA NestedStack ==
  ASSUME TypeOK, Nested(frames)
  PROVE  /\ \A f \in Frame : (f.emitted /\ Opened => Top.emitted) => Nested(Append(frames, f))
         /\ Opened => Nested(Pop)
         /\ Opened /\ Top.emitted /\ Pop # <<>> => Pop[Len(Pop)].emitted
         /\ Opened => \A f \in Frame : f.emitted = Top.emitted =>
              Nested([frames EXCEPT ![Len(frames)] = f])
<1> DEFINE n == Len(frames)
<1>0. n \in Nat /\ frames \in Seq(Frame)
  BY DEF TypeOK
<1>1. ASSUME NEW f \in Frame, f.emitted /\ Opened => Top.emitted
      PROVE  Nested(Append(frames, f))
  <2>1. SUFFICES ASSUME NEW i \in 1..n + 1, NEW j \in 1..n + 1, i < j,
                        Append(frames, f)[j].emitted
                 PROVE  Append(frames, f)[i].emitted
    BY <1>0, StackFacts DEF Nested
  <2>2. i \in 1..n /\ Append(frames, f)[i] = frames[i]
    BY <1>0, <2>1
  <2>3. CASE j = n + 1
    <3>1. f.emitted /\ Opened /\ Top.emitted
      BY <1>0, <1>1, <2>1, <2>2, <2>3 DEF Opened
    <3>2. i = n \/ (i < n /\ n \in 1..n)
      BY <1>0, <2>2
    <3>3. frames[i].emitted
      BY <2>2, <3>1, <3>2 DEF Top, Nested
    <3>. QED BY <2>2, <3>3
  <2>4. CASE j # n + 1
    <3>1. j \in 1..n /\ Append(frames, f)[j] = frames[j]
      BY <1>0, <2>4
    <3>. QED BY <2>1, <2>2, <3>1 DEF Nested
  <2>. QED BY <2>3, <2>4
<1>2. ASSUME Opened
      PROVE  Nested(Pop) /\ (Top.emitted /\ Pop # <<>> => Pop[Len(Pop)].emitted)
  <2>1. /\ Pop \in Seq(Frame) /\ Len(Pop) = n - 1
        /\ \A i \in 1..n - 1 : Pop[i] = frames[i] /\ i \in 1..n
    BY <1>2, StackFacts
  <2>2. Nested(Pop)
    BY <2>1 DEF Nested
  <2>3. ASSUME Top.emitted, Pop # <<>> PROVE Pop[Len(Pop)].emitted
    <3>1. n - 1 \in 1..n - 1 /\ n - 1 < n /\ n \in 1..n
      BY <1>0, <2>1, <2>3
    <3>. QED BY <2>1, <2>3, <3>1 DEF Nested, Top
  <2>. QED BY <2>2, <2>3
<1>3. ASSUME Opened, NEW f \in Frame, f.emitted = Top.emitted
      PROVE  Nested([frames EXCEPT ![n] = f])
  <2>1. PICK new : new = [frames EXCEPT ![n] = f]
    OBVIOUS
  <2>2. /\ Len(new) = n /\ new[n] = f
        /\ \A i \in 1..n : i # n => new[i] = frames[i]
    BY <1>3, <2>1, StackFacts
  <2>3. \A i \in 1..n : new[i].emitted = frames[i].emitted
    BY <1>3, <2>2 DEF Top
  <2>. QED BY <2>1, <2>2, <2>3 DEF Nested
<1>. QED BY <1>1, <1>2, <1>3

LEMMA TerminatedMeans == \A b : Terminated(b) <=> Closed(blocks[b])
BY DEF Terminated, Closed

\* A step inside a body that stays open: what it owes to the blocks.
LEMMA OpenEmitStep ==
  ASSUME verdict' = "open",
         Layout(blocks', at', frames'), frames' \in Seq(QuietFrame), Nested(frames'),
         frames' # <<>> /\ ~frames'[Len(frames')].emitted => live' = {},
         Closed(blocks'[at']) => live' = {}
  PROVE  EmitInv'
<1>1. Typed(blocks', at', frames')
  BY DEF Layout
<1>2. DropsOnlyDeadCode'
  BY DEF DropsOnlyDeadCode, Skipping, Opened, Top, Terminated, Closed
<1>3. BlocksWellFormed'
  BY DEF BlocksWellFormed, Finished
<1>. QED BY <1>1, <1>2, <1>3 DEF EmitInv, Layout, Typed, Nested

\* The branch that ends a part of a statement.
LEMMA BranchKeepsLayout ==
  ASSUME Layout(blocks, at, frames), NEW to \in Nat
  PROVE  LET bs == BranchUnlessTerminated(blocks, at, to) IN
         Layout(bs, at, frames) /\ Closed(bs[at]) /\ Len(bs) = Len(blocks)
<1>1. CASE Terminated(at)
  BY <1>1, TerminatedMeans DEF BranchUnlessTerminated
<1>2. CASE ~Terminated(at)
  <2>1. Instr("br", {to}) \in Instruction /\ Instr("br", {to}).op \in Terminators
    BY InstrTyped DEF Terminators
  <2>. QED BY <1>2, <2>1, AddKeepsLayout, TerminatedMeans DEF BranchUnlessTerminated
<1>. QED BY <1>1, <1>2

\* The innermost statement ends in the last block it waits for.
LEMMA CloseKeepsLayout ==
  ASSUME NEW bs, NEW a, NEW fs, Layout(bs, a, fs), Closed(bs[a]), fs # <<>>,
         NEW t, Pending(fs[Len(fs)]) = {t}
  PROVE  Layout(bs, t, SubSeq(fs, 1, Len(fs) - 1)) /\ bs[t] = <<>>
<1>1. fs \in Seq(Frame) /\ Len(fs) \in 1..Len(fs) /\ fs[Len(fs)] \in Frame
  BY DEF Layout, Typed
<1>2. PICK f \in Frame : ~f.emitted /\ f.stmt # "then"
  <2>1. [fs[Len(fs)] EXCEPT !.emitted = FALSE, !.stmt = "while"] \in Frame
    BY <1>1 DEF Frame
  <2>2. /\ ~[fs[Len(fs)] EXCEPT !.emitted = FALSE, !.stmt = "while"].emitted
        /\ [fs[Len(fs)] EXCEPT !.emitted = FALSE, !.stmt = "while"].stmt = "while"
    BY <1>1 DEF Frame
  <2>. QED BY <2>1, <2>2
<1>3. Pending(f) = {}
  BY <1>2 DEF Pending
<1>4. PICK new : new = [fs EXCEPT ![Len(fs)] = f]
  OBVIOUS
<1>5. Layout(bs, t, new)
  <2>1. t \in Pending(fs[Len(fs)]) /\ Pending(f) = Pending(fs[Len(fs)]) \ {t}
    BY <1>3
  <2>. QED BY <1>2, <1>4, <2>1, MoveKeepsLayout
<1>6. Len(new) = Len(fs) /\ new[Len(fs)] = f /\ new # <<>>
  BY <1>1, <1>4
<1>7. Layout(bs, t, SubSeq(new, 1, Len(fs) - 1))
  BY <1>3, <1>5, <1>6, PopKeepsLayout
<1>8. SubSeq(new, 1, Len(fs) - 1) = SubSeq(fs, 1, Len(fs) - 1)
  BY <1>1, <1>4, FrontOfExcept
<1>9. bs[t] = <<>>
  BY <1>1 DEF Layout
<1>. QED BY <1>7, <1>8, <1>9

\* What EmitInv says while a body is open.
LEMMA WhileOpen ==
  ASSUME TypeOK, EmitInv, verdict = "open"
  PROVE  /\ Layout(blocks, at, frames) /\ frames \in Seq(QuietFrame) /\ Nested(frames)
         /\ blocks \in Seq(Block) /\ at \in 1..Len(blocks) /\ Len(blocks) \in Nat
         /\ Skipping => live = {}
         /\ Skipping <=> (Opened /\ ~Top.emitted) \/ Closed(blocks[at])
         /\ frames # <<>> /\ ~frames[Len(frames)].emitted => live = {}
         /\ Closed(blocks[at]) => live = {}
         /\ Opened => Top \in QuietFrame
<1>1. Layout(blocks, at, frames) /\ frames \in Seq(QuietFrame) /\ Nested(frames)
  BY DEF EmitInv
<1>2. Skipping => live = {}
  BY DEF EmitInv, DropsOnlyDeadCode
<1>3. Skipping <=> (Opened /\ ~Top.emitted) \/ Closed(blocks[at])
  BY TerminatedMeans DEF Skipping
<1>4. blocks \in Seq(Block) /\ at \in 1..Len(blocks) /\ Len(blocks) \in Nat
  BY <1>1 DEF Layout, Typed
<1>5. Opened => Top \in QuietFrame
  BY <1>1, StackIn DEF Opened, Top
<1>. QED BY <1>1, <1>2, <1>3, <1>4, <1>5 DEF Opened, Top

\* A statement that is not nested: at most one instruction is added.
LEMMA SingleStep ==
  ASSUME TypeOK, EmitInv, verdict = "open", UNCHANGED <<frames, at, verdict>>,
         NEW op \in {"code", "ret"},
         blocks' = IF Skipping THEN blocks ELSE Add(blocks, at, Instr(op, {})),
         live' = IF op = "ret" THEN {} ELSE live
  PROVE  EmitInv'
<1>1. CASE Skipping
  BY <1>1, WhileOpen, OpenEmitStep
<1>2. CASE ~Skipping
  <2>1. Instr(op, {}) \in Instruction /\ Instr(op, {}).op = op
    BY InstrTyped DEF Terminators
  <2>2. /\ Layout(blocks', at, frames)
        /\ op \in Terminators <=> Closed(blocks'[at])
    BY <1>2, <2>1, WhileOpen, AddKeepsLayout
  <2>3. Closed(blocks'[at']) => live' = {}
    BY <2>2 DEF Terminators
  <2>. QED BY <2>2, <2>3, WhileOpen, OpenEmitStep
<1>. QED BY <1>1, <1>2

\* A statement that is opened where it is skipped.
LEMMA OpenSkipped ==
  ASSUME TypeOK, EmitInv, verdict = "open", Skipping,
         NEW stmt \in {"then", "while"}, NEW hasElse \in BOOLEAN,
         NEW other \in Nat, NEW end \in Nat,
         frames' = Append(frames, NewFrame(stmt, hasElse, other, end)),
         UNCHANGED <<verdict, live, blocks, at>>
  PROVE  EmitInv'
<1>1. PICK f : f = NewFrame(stmt, hasElse, other, end)
  OBVIOUS
<1>2. f \in Frame /\ ~f.emitted /\ f.liveIn = {} /\ f.liveThen = {}
  BY <1>1, NewFrameTyped, WhileOpen
<1>3. Pending(f) = {}
  BY <1>2 DEF Pending
<1>4. /\ Layout(blocks, at, frames) /\ live = {}
      /\ blocks \in Seq(Block) /\ frames \in Seq(QuietFrame) /\ Nested(frames)
  BY WhileOpen
<1>5. Layout(blocks \o <<>>, at, frames')
  <2>1. <<>> \in Seq(Block) /\ Len(<<>>) = 0
    OBVIOUS
  <2>2. Layout(blocks \o <<>>, at, Append(frames, f))
    <3>1. \A k \in 1..Len(<<>>) : FALSE
      BY <2>1
    <3>2. Pending(f) \cap 1..Len(blocks) = {}
      BY <1>3
    <3>. QED BY <1>2, <1>4, <2>1, <3>1, <3>2, PushKeepsLayout
  <2>. QED BY <1>1, <2>2
<1>6. blocks \o <<>> = blocks'
  BY <1>4
<1>7. frames' \in Seq(QuietFrame)
  BY <1>1, <1>2, <1>4, StackIn DEF QuietFrame
<1>8. Nested(frames')
  BY <1>1, <1>2, <1>4, NestedStack
<1>. QED BY <1>4, <1>5, <1>6, <1>7, <1>8, OpenEmitStep

\* Blocks `more` after the first n: t is to be the insert block, the frame waits for
\* the other empty ones, and the loop's condition is complete.
Fresh(n, more, stmt, other, end, t) ==
  /\ {other, end} \subseteq 1..n + Len(more)
  /\ end > n /\ (stmt = "then" => other > n /\ other # end)
  /\ t \in n + 1..n + Len(more) /\ t # end /\ (stmt = "then" => t # other)
  /\ \A k \in 1..Len(more) :
       \/ more[k] = <<>> /\ (n + k \in {t, end} \/ (stmt = "then" /\ n + k = other))
       \/ /\ Closed(more[k]) /\ Len(more[k]) = 1
          /\ n + k \notin {t, end} /\ stmt = "while"

\* A statement that is opened where it is emitted: a branch ends the insert block
\* and new blocks follow.
LEMMA OpenEmitted ==
  ASSUME TypeOK, EmitInv, verdict = "open", ~Skipping,
         NEW stmt \in {"then", "while"}, NEW hasElse \in BOOLEAN,
         NEW other \in Nat, NEW end \in Nat, NEW to \in SUBSET Nat,
         NEW more \in Seq(Block), NEW t,
         frames' = Append(frames, NewFrame(stmt, hasElse, other, end)),
         blocks' = Add(blocks, at, Instr("br", to)) \o more, at' = t,
         UNCHANGED <<verdict, live>>,
         Fresh(Len(blocks), more, stmt, other, end, t)
  PROVE  EmitInv'
<1>1. PICK f : f = NewFrame(stmt, hasElse, other, end)
  OBVIOUS
<1>2. f \in Frame /\ f.emitted /\ f.stmt = stmt /\ f.other = other /\ f.end = end
  BY <1>1, NewFrameTyped
<1>3. Pending(f) = IF stmt = "then" THEN {other, end} ELSE {end}
  BY <1>2 DEF Pending
<1>4. /\ Layout(blocks, at, frames) /\ frames \in Seq(QuietFrame) /\ Nested(frames)
      /\ ~Closed(blocks[at]) /\ (Opened => Top.emitted) /\ Len(blocks) \in Nat
  BY WhileOpen
<1>5. PICK bs : bs = Add(blocks, at, Instr("br", to))
  OBVIOUS
<1>6. Layout(bs, at, frames) /\ Closed(bs[at]) /\ Len(bs) = Len(blocks)
  <2>1. Instr("br", to) \in Instruction /\ Instr("br", to).op \in Terminators
    BY InstrTyped DEF Terminators
  <2>. QED BY <1>4, <1>5, <2>1, AddKeepsLayout
<1>7. Layout(bs \o more, t, Append(frames, f))
  <2>1. Pending(f) \cap 1..Len(bs) = {}
    BY <1>3, <1>4, <1>6 DEF Fresh
  <2>2. ASSUME NEW k \in 1..Len(more)
        PROVE  /\ Closed(more[k]) \/ Len(bs) + k = t \/ Len(bs) + k \in Pending(f)
               /\ \A i \in 1..Len(more[k]) - 1 : more[k][i].op \notin Terminators
               /\ Len(bs) + k \in Pending(f) => more[k] = <<>> /\ Len(bs) + k # t
    <3>1. CASE more[k] = <<>>
      <4>1. \A i \in 1..Len(more[k]) - 1 : FALSE
        BY <3>1
      <4>2. Len(bs) + k = t \/ Len(bs) + k \in Pending(f)
        BY <3>1, <1>3, <1>6 DEF Closed, Fresh
      <4>3. Len(bs) + k \in Pending(f) => Len(bs) + k # t
        BY <1>3, <1>6 DEF Fresh
      <4>. QED BY <3>1, <4>1, <4>2, <4>3
    <3>2. CASE more[k] # <<>>
      <4>1. /\ Closed(more[k]) /\ Len(more[k]) = 1 /\ stmt = "while"
            /\ Len(bs) + k \notin {t, end}
        BY <3>2, <1>6 DEF Fresh
      <4>2. \A i \in 1..Len(more[k]) - 1 : FALSE
        BY <4>1
      <4>. QED BY <4>1, <4>2, <1>3
    <3>. QED BY <3>1, <3>2
  <2>3. f.emitted => {f.other, f.end} \subseteq 1..Len(bs) + Len(more)
    BY <1>2, <1>6 DEF Fresh
  <2>4. f.stmt = "then" /\ f.emitted => f.other # f.end
    BY <1>2 DEF Fresh
  <2>5. t \in Len(bs) + 1..Len(bs) + Len(more)
    BY <1>6 DEF Fresh
  <2>. QED BY <1>2, <1>6, <2>1, <2>2, <2>3, <2>4, <2>5, PushKeepsLayout
<1>8. blocks'[at'] = <<>>
  <2>1. /\ Len(bs) \in Nat /\ t - Len(bs) \in 1..Len(more)
        /\ bs \in Seq(Block) /\ Len(bs) + (t - Len(bs)) = t
    BY <1>4, <1>6 DEF Layout, Typed, Fresh
  <2>2. (bs \o more)[t] = more[t - Len(bs)]
    BY <2>1
  <2>3. more[t - Len(bs)] = <<>>
    BY <2>1, <1>6 DEF Fresh
  <2>. QED BY <1>5, <2>2, <2>3
<1>9. frames' \in Seq(QuietFrame)
  BY <1>1, <1>2, <1>4, StackIn DEF QuietFrame
<1>10. Nested(frames')
  BY <1>1, <1>2, <1>4, NestedStack
<1>11. frames' # <<>> /\ frames'[Len(frames')].emitted
  <2>1. frames' = Append(frames, f) /\ frames \in Seq(Frame)
    BY <1>1 DEF TypeOK
  <2>2. Len(frames') = Len(frames) + 1 /\ Len(frames) \in Nat
    BY <2>1
  <2>3. frames'[Len(frames) + 1] = f
    BY <2>1
  <2>. QED BY <1>2, <2>2, <2>3
<1>12. ~Closed(blocks'[at'])
  BY <1>8 DEF Closed
<1>. QED BY <1>1, <1>5, <1>7, <1>9, <1>10, <1>11, <1>12, OpenEmitStep

\* What a statement being closed owes, once its layout is right.
LEMMA ClosedStep ==
  ASSUME TypeOK, EmitInv, verdict = "open", verdict' = "open", Opened, frames' = Pop,
         Layout(blocks', at', Pop),
         IF Top.emitted THEN blocks'[at'] = <<>> ELSE live' = {}
  PROVE  EmitInv'
<1>1. frames \in Seq(QuietFrame) /\ Nested(frames)
  BY WhileOpen
<1>2. Pop \in Seq(QuietFrame)
  BY <1>1, StackIn DEF Pop, Opened
<1>3. Nested(Pop) /\ (Top.emitted /\ Pop # <<>> => Pop[Len(Pop)].emitted)
  BY <1>1, NestedStack
<1>4. Closed(blocks'[at']) => ~Top.emitted
  BY DEF Closed
<1>. QED BY <1>2, <1>3, <1>4, OpenEmitStep

\* A statement that was skipped is closed: the insert block stays.
LEMMA CloseSkipped ==
  ASSUME TypeOK, EmitInv, verdict = "open", Opened, ~Top.emitted,
         frames' = Pop, UNCHANGED <<verdict, blocks, at>>,
         live' \subseteq live \cup Top.liveIn \cup Top.liveThen
  PROVE  EmitInv'
<1>1. Layout(blocks, at, frames) /\ live = {} /\ Top \in QuietFrame
  BY WhileOpen
<1>2. Pending(Top) = {}
  BY DEF Pending
<1>3. Layout(blocks, at, Pop)
  BY <1>1, <1>2, PopKeepsLayout DEF Top, Pop, Opened
<1>4. live' = {}
  BY <1>1 DEF QuietFrame
<1>. QED BY <1>3, <1>4, ClosedStep

\* A while, or an if at the end of its else branch: a branch leaves the insert block
\* and the block after the statement takes over.
LEMMA CloseEmitted ==
  ASSUME TypeOK, EmitInv, verdict = "open", Opened, Top.emitted, Top.stmt # "then",
         NEW to \in Nat,
         frames' = Pop, blocks' = BranchUnlessTerminated(blocks, at, to), at' = Top.end,
         UNCHANGED verdict
  PROVE  EmitInv'
<1>1. Layout(blocks', at, frames) /\ Closed(blocks'[at])
  BY WhileOpen, BranchKeepsLayout
<1>2. Pending(Top) = {Top.end}
  BY DEF Pending
<1>3. Layout(blocks', Top.end, Pop) /\ blocks'[Top.end] = <<>>
  BY <1>1, <1>2, CloseKeepsLayout DEF Top, Pop, Opened
<1>. QED BY <1>3, ClosedStep

\* The end of a then branch that is emitted: if.else takes over.
LEMMA ThenEnds ==
  ASSUME TypeOK, EmitInv, verdict = "open", Opened, Top.emitted, Top.stmt = "then"
  PROVE  LET bs == BranchUnlessTerminated(blocks, at, Top.end) IN
         /\ Layout(bs, Top.other, [frames EXCEPT ![Len(frames)] = ElseFrame])
         /\ bs[Top.other] = <<>> /\ Top.other # Top.end /\ Top.end \in Nat
<1>1. PICK bs : bs = BranchUnlessTerminated(blocks, at, Top.end)
  OBVIOUS
<1>2. /\ Top \in Frame /\ {Top.other, Top.end} \subseteq 1..Len(blocks)
      /\ Len(blocks) \in Nat /\ Top.end \in Nat /\ Len(frames) \in 1..Len(frames)
  BY TopTyped DEF TypeOK
<1>3. Layout(bs, at, frames) /\ Closed(bs[at]) /\ Len(bs) = Len(blocks)
  BY <1>1, <1>2, WhileOpen, BranchKeepsLayout
<1>4. Top.other # Top.end
  BY <1>2, <1>3 DEF Layout, Top
<1>5. /\ ElseFrame \in Frame /\ ElseFrame.stmt = "else" /\ ElseFrame.emitted
      /\ ElseFrame.other = Top.other /\ ElseFrame.end = Top.end
  BY ElseFrameTyped
<1>6. Pending(Top) = {Top.other, Top.end} /\ Pending(ElseFrame) = {Top.end}
  BY <1>5 DEF Pending
<1>7. Pending(ElseFrame) = Pending(Top) \ {Top.other}
  BY <1>4, <1>6
<1>8. Layout(bs, Top.other, [frames EXCEPT ![Len(frames)] = ElseFrame])
  <2>1. ElseFrame.emitted => {ElseFrame.other, ElseFrame.end} \subseteq 1..Len(bs)
    BY <1>2, <1>3, <1>5
  <2>2. Top.other \in Pending(frames[Len(frames)])
    BY <1>6 DEF Top
  <2>3. Pending(ElseFrame) = Pending(frames[Len(frames)]) \ {Top.other}
    BY <1>7 DEF Top
  <2>. QED BY <1>3, <1>5, <2>1, <2>2, <2>3, MoveKeepsLayout DEF Opened
<1>9. bs[Top.other] = <<>>
  BY <1>2, <1>3, <1>6 DEF Layout, Top
<1>. QED BY <1>1, <1>2, <1>4, <1>8, <1>9

LEMMA StartElseEmits == ASSUME TypeOK, EmitInv, StartElse PROVE EmitInv'
<1>1. /\ verdict = "open" /\ verdict' = "open" /\ Opened /\ Top.stmt = "then"
      /\ frames' = [frames EXCEPT ![Len(frames)] = ElseFrame]
      /\ live' = Top.liveIn
  BY DEF StartElse, ElseFrame, Top
<1>2. /\ frames \in Seq(QuietFrame) /\ Nested(frames) /\ Top \in QuietFrame
      /\ Layout(blocks, at, frames) /\ (~Top.emitted => live = {})
  BY <1>1, WhileOpen
<1>3. /\ ElseFrame \in Frame /\ ElseFrame.emitted = Top.emitted
      /\ ElseFrame.liveIn = Top.liveIn /\ ElseFrame.liveThen = live
      /\ ElseFrame.stmt = "else"
  BY <1>1, ElseFrameTyped
<1>4. ElseFrame \in QuietFrame
  BY <1>2, <1>3 DEF QuietFrame
<1>5. frames' \in Seq(QuietFrame) /\ Nested(frames')
  BY <1>1, <1>2, <1>3, <1>4, StackIn, NestedStack DEF Opened
<1>6. frames' # <<>> /\ frames'[Len(frames')] = ElseFrame
  BY <1>1, <1>3, StackFacts, TopTyped DEF Opened
<1>7. CASE Top.emitted
  <2>1. blocks' = BranchUnlessTerminated(blocks, at, Top.end) /\ at' = Top.other
    BY <1>7 DEF StartElse
  <2>2. Layout(blocks', at', frames') /\ blocks'[at'] = <<>>
    BY <1>1, <1>7, <2>1, ThenEnds
  <2>. QED BY <1>1, <1>3, <1>5, <1>6, <1>7, <2>2, OpenEmitStep DEF Closed
<1>8. CASE ~Top.emitted
  <2>1. UNCHANGED <<blocks, at>> /\ live' = {}
    BY <1>1, <1>2, <1>8 DEF StartElse, QuietFrame
  <2>2. Pending(Top) = {} /\ Pending(ElseFrame) = {} /\ ~ElseFrame.emitted
    BY <1>3, <1>8 DEF Pending
  <2>3. Layout(blocks, at, Pop)
    BY <1>1, <1>2, <2>2, PopKeepsLayout DEF Top, Pop, Opened
  <2>4. Layout(blocks \o <<>>, at, Append(Pop, ElseFrame))
    <3>1. <<>> \in Seq(Block) /\ Len(<<>>) = 0 /\ \A k \in 1..Len(<<>>) : FALSE
      OBVIOUS
    <3>2. Pending(ElseFrame) \cap 1..Len(blocks) = {}
      BY <2>2
    <3>. QED BY <1>3, <2>2, <2>3, <3>1, <3>2, PushKeepsLayout
  <2>5. blocks \o <<>> = blocks
    BY <1>2 DEF Layout, Typed
  <2>6. Append(Pop, ElseFrame) = frames'
    BY <1>1, <1>3, FrontOfExcept DEF Pop, Opened, TypeOK
  <2>. QED BY <1>1, <1>5, <2>1, <2>4, <2>5, <2>6, OpenEmitStep
<1>. QED BY <1>7, <1>8

\* Without an else branch the empty if.else block is ended at once.
LEMMA CloseIfEmits == ASSUME TypeOK, EmitInv, CloseIf PROVE EmitInv'
<1>1. /\ verdict = "open" /\ verdict' = "open" /\ Opened /\ Top.stmt = "then"
      /\ frames' = Pop /\ live' = live \cup Top.liveIn
  BY DEF CloseIf
<1>2. CASE ~Top.emitted
  BY <1>1, <1>2, CloseSkipped DEF CloseIf
<1>3. CASE Top.emitted
  <2>1. PICK bs, fs : /\ bs = BranchUnlessTerminated(blocks, at, Top.end)
                      /\ fs = [frames EXCEPT ![Len(frames)] = ElseFrame]
    OBVIOUS
  <2>2. blocks' = Add(bs, Top.other, Instr("br", {Top.end})) /\ at' = Top.end
    BY <1>3, <2>1 DEF CloseIf
  <2>3. Layout(bs, Top.other, fs) /\ bs[Top.other] = <<>> /\ Top.end \in Nat
    BY <1>1, <1>3, <2>1, ThenEnds
  <2>4. Layout(blocks', Top.other, fs) /\ Closed(blocks'[Top.other])
    <3>1. /\ Instr("br", {Top.end}) \in Instruction
          /\ Instr("br", {Top.end}).op \in Terminators
      BY <2>3, InstrTyped DEF Terminators
    <3>2. ~Closed(bs[Top.other])
      BY <2>3 DEF Closed
    <3>. QED BY <2>2, <2>3, <3>1, <3>2, AddKeepsLayout
  <2>5. /\ ElseFrame \in Frame /\ ElseFrame.stmt = "else" /\ ElseFrame.emitted
        /\ ElseFrame.end = Top.end /\ ElseFrame.other = Top.other
    BY <1>1, <1>3, ElseFrameTyped
  <2>6. Len(fs) = Len(frames) /\ fs[Len(fs)] = ElseFrame /\ fs # <<>>
    BY <1>1, <2>1, <2>5, StackFacts, TopTyped DEF Opened
  <2>7. Pending(ElseFrame) = {Top.end}
    BY <2>5 DEF Pending
  <2>8. Layout(blocks', Top.end, SubSeq(fs, 1, Len(fs) - 1)) /\ blocks'[Top.end] = <<>>
    BY <2>4, <2>6, <2>7, CloseKeepsLayout
  <2>9. SubSeq(fs, 1, Len(fs) - 1) = Pop
    <3>1. frames \in Seq(Frame) /\ frames # <<>>
      BY <1>1 DEF TypeOK, Opened
    <3>2. SubSeq(fs, 1, Len(frames) - 1) = SubSeq(frames, 1, Len(frames) - 1)
      BY <2>1, <2>5, <3>1, FrontOfExcept, Zenon
    <3>. QED BY <2>6, <3>2 DEF Pop
  <2>. QED BY <1>1, <1>3, <2>2, <2>8, <2>9, ClosedStep
<1>. QED BY <1>2, <1>3

LEMMA CloseElseEmits == ASSUME TypeOK, EmitInv, CloseElse PROVE EmitInv'
<1>1. /\ verdict = "open" /\ verdict' = verdict /\ Opened /\ Top.stmt = "else"
      /\ frames' = Pop /\ live' = Top.liveThen \cup live
  BY DEF CloseElse, MergeElse
<1>2. CASE ~Top.emitted
  BY <1>1, <1>2, CloseSkipped DEF CloseElse, MergeElse
<1>3. CASE Top.emitted
  <2>1. Top.end \in Nat
    BY <1>1, TopTyped DEF Frame
  <2>. QED BY <1>1, <1>3, <2>1, CloseEmitted DEF CloseElse, MergeElse
<1>. QED BY <1>2, <1>3

LEMMA CloseWhileEmits == ASSUME TypeOK, EmitInv, CloseWhile PROVE EmitInv'
<1>1. /\ verdict = "open" /\ verdict' = verdict /\ Opened /\ Top.stmt = "while"
      /\ frames' = Pop /\ live' \subseteq live \cup Top.liveIn \cup Top.liveThen
  BY DEF CloseWhile
<1>2. CASE ~Top.emitted
  BY <1>1, <1>2, CloseSkipped DEF CloseWhile
<1>3. CASE Top.emitted
  <2>1. Top.other \in Nat
    BY <1>1, TopTyped DEF Frame
  <2>. QED BY <1>1, <1>3, <2>1, CloseEmitted DEF CloseWhile
<1>. QED BY <1>2, <1>3

LEMMA OpenIfEmits ==
  ASSUME TypeOK, EmitInv, NEW hasElse \in BOOLEAN, OpenIf(hasElse)
  PROVE  EmitInv'
<1> DEFINE n == Len(blocks)
<1>1. /\ verdict = "open" /\ verdict' = "open" /\ n \in Nat /\ n + 2 \in Nat /\ n + 3 \in Nat
      /\ UNCHANGED <<verdict, live>>
      /\ frames' = Append(frames, NewFrame("then", hasElse, n + 2, n + 3))
  BY DEF OpenIf, SplitIf, NextStatement, Push, TypeOK
<1>2. CASE Skipping
  BY <1>1, <1>2, OpenSkipped DEF OpenIf, SplitIf
<1>3. CASE ~Skipping
  <2>1. PICK more : more = << <<>>, <<>>, <<>> >>
    OBVIOUS
  <2>2. /\ more \in Seq(Block) /\ Len(more) = 3
        /\ \A k \in 1..3 : more[k] = <<>> /\ k \in {1, 2, 3}
    BY <2>1 DEF Block
  <2>3. PICK to \in SUBSET Nat :
          blocks' = Add(blocks, at, Instr("br", to)) \o more /\ at' = n + 1
    <3>1. {n + 1, n + (IF hasElse THEN 2 ELSE 3)} \in SUBSET Nat
      BY <1>1
    <3>. QED BY <1>3, <2>1, <3>1 DEF OpenIf, SplitIf
  <2>4. Fresh(n, more, "then", n + 2, n + 3, n + 1)
    BY <1>1, <2>2 DEF Fresh
  <2>. QED BY <1>1, <1>3, <2>2, <2>3, <2>4, OpenEmitted, Zenon
<1>. QED BY <1>2, <1>3

LEMMA OpenWhileEmits == ASSUME TypeOK, EmitInv, OpenWhile PROVE EmitInv'
<1> DEFINE n == Len(blocks)
<1>1. /\ verdict = "open" /\ verdict' = "open" /\ n \in Nat /\ n + 1 \in Nat /\ n + 3 \in Nat
      /\ UNCHANGED <<verdict, live>>
      /\ frames' = Append(frames, NewFrame("while", FALSE, n + 1, n + 3))
  BY DEF OpenWhile, NextStatement, Push, TypeOK
<1>2. CASE Skipping
  BY <1>1, <1>2, OpenSkipped DEF OpenWhile
<1>3. CASE ~Skipping
  <2>1. PICK more : more = << <<Instr("br", {n + 2, n + 3})>>, <<>>, <<>> >>
    OBVIOUS
  <2>2. /\ Instr("br", {n + 2, n + 3}) \in Instruction
        /\ Instr("br", {n + 2, n + 3}).op \in Terminators
    <3>1. {n + 2, n + 3} \in SUBSET Nat
      BY <1>1
    <3>. QED BY <3>1, InstrTyped DEF Terminators
  <2>3. more \in Seq(Block) /\ Len(more) = 3
    BY <2>1, <2>2 DEF Block
  <2>4. Closed(more[1]) /\ Len(more[1]) = 1
    BY <2>1, <2>2 DEF Closed
  <2>5. more[2] = <<>> /\ more[3] = <<>>
    BY <2>1
  <2>6. PICK to \in SUBSET Nat :
          blocks' = Add(blocks, at, Instr("br", to)) \o more /\ at' = n + 2
    <3>1. {n + 1} \in SUBSET Nat
      BY <1>1
    <3>. QED BY <1>3, <2>1, <3>1 DEF OpenWhile
  <2>7. Fresh(n, more, "while", n + 1, n + 3, n + 2)
    <3>1. \A k \in 1..Len(more) : k = 1 \/ k = 2 \/ k = 3
      BY <2>3
    <3>. QED BY <1>1, <2>3, <2>4, <2>5, <3>1 DEF Fresh
  <2>. QED BY <1>1, <1>3, <2>3, <2>6, <2>7, OpenEmitted, Zenon
<1>. QED BY <1>2, <1>3

LEMMA EndBodyEmits == ASSUME TypeOK, EmitInv, EndBody PROVE EmitInv'
<1>1. /\ verdict = "open" /\ frames = <<>> /\ frames' = <<>> /\ at' = at /\ verdict' # "open"
      /\ blocks' = IF Terminated(at) THEN blocks ELSE Add(blocks, at, Instr("default", {}))
  BY DEF EndBody, FinishBody
<1>2. Layout(blocks, at, frames)
  BY <1>1, WhileOpen
<1>3. Layout(blocks', at, frames) /\ Closed(blocks'[at])
  <2>1. Instr("default", {}) \in Instruction /\ Instr("default", {}).op \in Terminators
    BY InstrTyped DEF Terminators
  <2>. QED BY <1>1, <1>2, <2>1, AddKeepsLayout, TerminatedMeans
<1>4. ASSUME NEW b \in 1..Len(blocks')
      PROVE  Closed(blocks'[b]) /\
             \A k \in 1..Len(blocks'[b]) - 1 : blocks'[b][k].op \notin Terminators
  <2>1. \A i \in 1..Len(frames) : FALSE
    BY <1>1
  <2>. QED BY <1>3, <1>4, <2>1 DEF Layout
<1>5. BlocksWellFormed'
  BY <1>4 DEF BlocksWellFormed, Terminated, Closed
<1>6. Typed(blocks, at, frames)'
  BY <1>1, <1>3 DEF Layout, Typed
<1>. QED BY <1>1, <1>5, <1>6 DEF EmitInv, DropsOnlyDeadCode

LEMMA NextBodyEmits == ASSUME TypeOK, FlagInv, EmitInv, NextBody PROVE EmitInv'
<1>1. /\ frames' = <<>> /\ blocks' = << <<>> >> /\ at' = 1 /\ verdict' = "open"
  BY DEF NextBody, FlagInv
<1>2. PICK bs : bs = << <<>> >>
  OBVIOUS
<1>3. bs \in Seq(Block) /\ Len(bs) = 1 /\ bs[1] = <<>>
  BY <1>2 DEF Block
<1>4. PICK fs : fs = <<>>
  OBVIOUS
<1>5. fs \in Seq(Frame) /\ fs \in Seq(QuietFrame) /\ \A i \in 1..Len(fs) : FALSE
  BY <1>4
<1>6. Layout(bs, 1, fs)
  BY <1>3, <1>5 DEF Layout, Typed
<1>7. Nested(fs) /\ ~Closed(bs[1])
  BY <1>3, <1>5 DEF Nested, Closed
<1>. QED BY <1>1, <1>2, <1>4, <1>5, <1>6, <1>7, OpenEmitStep

LEMMA EmitStep == ASSUME TypeOK, FlagInv, EmitInv, [Next]_vars PROVE EmitInv'
<1>1. ASSUME NEW typed \in BOOLEAN, Simple(typed) PROVE EmitInv'
  BY <1>1, SingleStep DEF Simple, NextStatement
<1>2. ASSUME NEW typed \in BOOLEAN, Return(typed) PROVE EmitInv'
  BY <1>2, SingleStep DEF Return, NextStatement
<1>3. CASE IllTypedCondition
  <2>1. verdict = "open" /\ UNCHANGED <<frames, blocks, at, verdict, live>>
    BY <1>3 DEF IllTypedCondition, NextStatement
  <2>. QED BY <2>1, WhileOpen, OpenEmitStep
<1>4. CASE Throw
  <2>1. frames' = <<>> /\ verdict' = "thrown" /\ UNCHANGED <<blocks, at>>
    BY <1>4 DEF Throw
  <2>2. Typed(blocks, at, frames)'
    BY <2>1 DEF EmitInv, Typed
  <2>. QED BY <2>1, <2>2 DEF EmitInv, DropsOnlyDeadCode, BlocksWellFormed, Finished
<1>5. CASE UNCHANGED vars
  <2>1. CASE verdict = "open"
    BY <1>5, <2>1, WhileOpen, OpenEmitStep DEF vars
  <2>2. CASE verdict # "open"
    <3>1. Typed(blocks, at, frames)'
      BY <1>5 DEF vars, EmitInv, Typed
    <3>2. BlocksWellFormed'
      BY <1>5 DEF vars, EmitInv, BlocksWellFormed, Finished, Terminated
    <3>. QED BY <1>5, <2>2, <3>1, <3>2 DEF vars, EmitInv, DropsOnlyDeadCode
  <2>. QED BY <2>1, <2>2
<1>. QED BY <1>1, <1>2, <1>3, <1>4, <1>5, OpenIfEmits, StartElseEmits, CloseElseEmits,
            CloseIfEmits, OpenWhileEmits, CloseWhileEmits, EndBodyEmits, NextBodyEmits
        DEF Next

-----------------------------------------------------------------------------

IInv == TypeOK /\ FlagInv /\ EmitInv

LEMMA InitIInv == Init => IInv
<1> SUFFICES ASSUME Init PROVE IInv
  OBVIOUS
<1>1. PICK bs, fs : bs = << <<>> >> /\ fs = <<>>
  OBVIOUS
<1>2. /\ bs \in Seq(Block) /\ Len(bs) = 1 /\ bs[1] = <<>>
      /\ fs \in Seq(Frame) /\ fs \in Seq(QuietFrame) /\ fs \in Seq(SoundFrame)
      /\ fs \in Seq(CompleteFrame) /\ \A i \in 1..Len(fs) : FALSE
  BY <1>1 DEF Block
<1>3. Layout(bs, 1, fs) /\ Nested(fs) /\ ~Closed(bs[1])
  BY <1>2 DEF Layout, Typed, Nested, Closed
<1>4. TypeOK
  <2>1. Plain
    <3>1. size \in 0..MaxStatements
      BY BoundsAssumption DEF Init
    <3>. QED BY <3>1, Zenon DEF Init, Plain
  <2>2. Typed(blocks, at, frames)
    BY <1>1, <1>3 DEF Init, Layout
  <2>. QED BY <2>1, <2>2, TypeParts
<1>5. FlagInv
  BY <1>1, <1>2 DEF Init, FlagInv, Reading, AcceptedReturnsIfLoopsRun, RejectedCanFallOff
<1>6. EmitInv
  <2>1. DropsOnlyDeadCode
    BY <1>1, <1>3, TerminatedMeans DEF Init, DropsOnlyDeadCode, Skipping, Opened
  <2>. QED BY <1>1, <1>2, <1>3, <2>1 DEF Init, EmitInv, BlocksWellFormed, Finished, Layout
<1>. QED BY <1>4, <1>5, <1>6 DEF IInv

LEMMA StepIInv == IInv /\ [Next]_vars => IInv'
<1> SUFFICES ASSUME IInv, [Next]_vars PROVE IInv'
  OBVIOUS
<1>1. FlagInv' /\ EmitInv' /\ Plain'
  BY FlagStep, EmitStep, PlainStep DEF IInv
<1>2. TypeOK'
  BY <1>1 DEF EmitInv, Plain, TypeOK, Typed, Block
<1>. QED BY <1>1, <1>2 DEF IInv

LEMMA IInvHolds == Spec => []IInv
<1>. QED BY InitIInv, StepIInv, PTL DEF Spec

\* The flag, the stack of open statements and the blocks have their types, and the
\* blocks that open statements will branch to exist, whatever the body.
THEOREM TypeCorrect == Spec => []TypeOK
<1>1. IInv => TypeOK
  BY DEF IInv
<1>. QED BY <1>1, IInvHolds, PTL

\* The emitter produces blocks that the verifier it never runs would accept: each
\* one ends in its only terminator, for bodies of any length and depth.
THEOREM WellFormedBlocks == Spec => []BlocksWellFormed
<1>1. IInv => BlocksWellFormed
  BY DEF IInv, EmitInv
<1>. QED BY <1>1, IInvHolds, PTL

\* The emitter leaves out only what no path through the source reaches.
THEOREM DropsDeadCode == Spec => []DropsOnlyDeadCode
<1>1. IInv => DropsOnlyDeadCode
  BY DEF IInv, EmitInv
<1>. QED BY <1>1, IInvHolds, PTL

\* An accepted method does not run off its end when its loops are entered, however
\* many bodies were checked before it with the same flag, unless an exception has left the
\* one right before it.
THEOREM AcceptedReturns == Spec => []AcceptedReturnsIfLoopsRun
<1>1. IInv => AcceptedReturnsIfLoopsRun
  BY DEF IInv, FlagInv
<1>. QED BY <1>1, IInvHolds, PTL

\* A rejected method without unreachable statements can run off its end.
THEOREM RejectedFallsOff == Spec => []RejectedCanFallOff
<1>1. IInv => RejectedCanFallOff
  BY DEF IInv, FlagInv
<1>. QED BY <1>1, IInvHolds, PTL
-----------------------------------------------------------------------------
(* The paths through the blocks.  A set of blocks is closed if it has the  *)
(* entry block and all that its blocks branch to; the least such set has   *)
(* just the blocks that can be reached, and it grows with each branch.     *)

Closes(bs, S) ==
  1 \in S /\ \A b \in 1..Len(bs) : b \in S => \A k \in 1..Len(bs[b]) : bs[b][k].to \subseteq S
Least(bs, R) ==
  R \subseteq 1..Len(bs) /\ Closes(bs, R) /\ \A S : Closes(bs, S) => R \subseteq S

\* What is in the blocks besides branches is marked with whether it can be reached.
Marks(bs, R) ==
  \A b \in 1..Len(bs) : \A k \in 1..Len(bs[b]) :
    bs[b][k].op # "br" => (b \in R <=> bs[b][k].live)

\* The blocks that an open statement goes on to are reached so far by the edges of its
\* condition, and by the end of its then branch.
Entered(f, R) ==
  f.emitted =>
    /\ f.end \in R <=> "either" \in IF f.stmt = "else" THEN f.liveThen
                                    ELSE IF f.hasElse THEN {} ELSE f.liveIn
    /\ f.stmt # "else" =>
         (f.other \in R <=> "either" \in IF f.stmt = "then" /\ ~f.hasElse THEN {} ELSE f.liveIn)

\* Nothing becomes reachable inside a statement.
Shrinking(fs, lv) ==
  \A i \in 1..Len(fs) : /\ lv \subseteq fs[i].liveIn /\ fs[i].liveThen \subseteq fs[i].liveIn
                        /\ \A j \in 1..i : fs[i].liveIn \subseteq fs[j].liveIn

\* The condition of an open loop has its branch.
Conditions(bs, fs) ==
  \A i \in 1..Len(fs) :
    fs[i].stmt = "while" => ~fs[i].hasElse /\ (fs[i].emitted => bs[fs[i].other] # <<>>)

\* The insert block can be reached when a path through the source gets there.
Arrives(bs, a, lv, R) == ~Closed(bs[a]) => (a \in R <=> "either" \in lv)

StackPaths(bs, fs, lv, R) ==
  (\A i \in 1..Len(fs) : Entered(fs[i], R)) /\ Shrinking(fs, lv) /\ Conditions(bs, fs)

PathInv ==
  verdict # "thrown" =>
    \E R : /\ Least(blocks, R) /\ Marks(blocks, R)
           /\ verdict = "open" =>
                Arrives(blocks, at, live, R) /\ StackPaths(blocks, frames, live, R)

LEMMA AddFacts ==
  ASSUME NEW bs \in Seq(Block), NEW a \in 1..Len(bs), NEW x \in Instruction
  PROVE  LET new == Add(bs, a, x) IN
         /\ new \in Seq(Block) /\ Len(new) = Len(bs)
         /\ \A b \in 1..Len(bs) : b # a => new[b] = bs[b]
         /\ Len(new[a]) = Len(bs[a]) + 1 /\ new[a][Len(bs[a]) + 1] = x
         /\ Len(bs[a]) \in Nat
         /\ \A k \in 1..Len(bs[a]) : new[a][k] = bs[a][k]
         /\ \A b \in 1..Len(bs) : bs[b] \in Seq(Instruction) /\ Len(bs[b]) \in Nat
         /\ new[a] # <<>>
<1> DEFINE new == Add(bs, a, x)
<1>1. \A b \in 1..Len(bs) : bs[b] \in Seq(Instruction) /\ Len(bs[b]) \in Nat
  BY DEF Block
<1>2. Append(bs[a], x) \in Seq(Instruction)
  BY <1>1
<1>3. /\ new \in Seq(Block) /\ Len(new) = Len(bs) /\ new[a] = Append(bs[a], x)
      /\ \A b \in 1..Len(bs) : b # a => new[b] = bs[b]
  BY <1>2 DEF Add, Block
<1>4. ASSUME NEW s \in Seq(Instruction)
      PROVE  LET t == Append(s, x) IN
             /\ Len(t) = Len(s) + 1 /\ t[Len(s) + 1] = x /\ t # <<>>
             /\ \A k \in 1..Len(s) : t[k] = s[k]
  BY <1>4
<1>5. bs[a] \in Seq(Instruction)
  BY <1>1
<1>6. /\ Len(new[a]) = Len(bs[a]) + 1 /\ new[a][Len(bs[a]) + 1] = x
      /\ \A k \in 1..Len(bs[a]) : new[a][k] = bs[a][k]
      /\ new[a] # <<>>
  BY <1>3, <1>4, <1>5, Zenon
<1>. QED BY <1>1, <1>3, <1>6

\* A new instruction in block a, which branches to blocks that are empty or reached.
LEMMA AddReach ==
  ASSUME NEW bs \in Seq(Block), NEW a \in 1..Len(bs), NEW x \in Instruction,
         NEW R, Least(bs, R), Marks(bs, R), x.to \subseteq 1..Len(bs),
         a \in R => \A t \in x.to : bs[t] = <<>> \/ t \in R,
         x.op # "br" => (a \in R <=> x.live)
  PROVE  LET more == IF a \in R THEN x.to ELSE {} IN
         Least(Add(bs, a, x), R \cup more) /\ Marks(Add(bs, a, x), R \cup more)
<1> DEFINE new == Add(bs, a, x)
           more == IF a \in R THEN x.to ELSE {}
           R2 == R \cup more
<1>1. /\ new \in Seq(Block) /\ Len(new) = Len(bs)
      /\ \A b \in 1..Len(bs) : b # a => new[b] = bs[b]
      /\ Len(new[a]) = Len(bs[a]) + 1 /\ new[a][Len(bs[a]) + 1] = x
      /\ Len(bs[a]) \in Nat /\ Len(bs) \in Nat
      /\ \A k \in 1..Len(bs[a]) : new[a][k] = bs[a][k]
      /\ \A b \in 1..Len(bs) : Len(bs[b]) \in Nat
  BY AddFacts
<1>2. R \subseteq 1..Len(bs) /\ Closes(bs, R) /\ \A S : Closes(bs, S) => R \subseteq S
  BY DEF Least
<1>3. a \in R2 <=> a \in R
  OBVIOUS
<1>4. ASSUME NEW b \in R2, b # a, NEW k \in 1..Len(bs[b])
      PROVE  b \in R
  <2>1. b \in R \/ bs[b] = <<>>
    BY <1>4
  <2>2. bs[b] # <<>>
    BY <1>4
  <2>. QED BY <2>1, <2>2
<1> HIDE DEF new
<1>5. Closes(new, R2)
  <2>1. 1 \in R2
    BY <1>2 DEF Closes
  <2>2. ASSUME NEW b \in 1..Len(new), b \in R2, NEW k \in 1..Len(new[b])
        PROVE  new[b][k].to \subseteq R2
    <3>1. CASE b # a
      <4>1. b \in 1..Len(bs) /\ new[b] = bs[b] /\ k \in 1..Len(bs[b])
        BY <1>1, <2>2, <3>1
      <4>2. b \in R
        BY <1>4, <2>2, <3>1, <4>1
      <4>. QED BY <1>2, <4>1, <4>2 DEF Closes
    <3>2. CASE b = a
      <4>1. a \in R
        BY <1>3, <2>2, <3>2
      <4>2. k \in 1..Len(bs[a]) \/ k = Len(bs[a]) + 1
        BY <1>1, <2>2, <3>2
      <4>3. CASE k \in 1..Len(bs[a])
        BY <1>1, <1>2, <3>2, <4>1, <4>3 DEF Closes
      <4>4. CASE k = Len(bs[a]) + 1
        BY <1>1, <3>2, <4>1, <4>4
      <4>. QED BY <4>2, <4>3, <4>4
    <3>. QED BY <3>1, <3>2
  <2>. QED BY <2>1, <2>2 DEF Closes
<1>6. ASSUME NEW S, Closes(new, S)
      PROVE  R2 \subseteq S
  <2>1. ASSUME NEW b \in 1..Len(bs), b \in S, NEW k \in 1..Len(bs[b])
        PROVE  bs[b][k].to \subseteq S
    <3>1. b \in 1..Len(new) /\ k \in 1..Len(new[b]) /\ new[b][k] = bs[b][k]
      BY <1>1, <2>1
    <3>. QED BY <1>6, <2>1, <3>1 DEF Closes
  <2>2. Closes(bs, S)
    BY <1>6, <2>1 DEF Closes
  <2>3. R \subseteq S
    BY <1>2, <2>2
  <2>4. a \in R => x.to \subseteq S
    <3>1. a \in 1..Len(new) /\ Len(bs[a]) + 1 \in 1..Len(new[a])
      BY <1>1
    <3>. QED BY <1>1, <1>6, <2>3, <3>1 DEF Closes
  <2>. QED BY <2>3, <2>4
<1>7. R2 \subseteq 1..Len(new)
  BY <1>1, <1>2
<1>8. Marks(new, R2)
  <2> SUFFICES ASSUME NEW b \in 1..Len(new), NEW k \in 1..Len(new[b]), new[b][k].op # "br"
               PROVE  b \in R2 <=> new[b][k].live
    BY DEF Marks
  <2>1. CASE b # a
    <3>1. b \in 1..Len(bs) /\ new[b] = bs[b] /\ k \in 1..Len(bs[b])
      BY <1>1, <2>1
    <3>2. b \in R <=> bs[b][k].live
      BY <3>1 DEF Marks
    <3>3. b \in R2 => b \in R
      BY <1>4, <2>1, <3>1
    <3>. QED BY <3>1, <3>2, <3>3
  <2>2. CASE b = a
    <3>1. k \in 1..Len(bs[a]) \/ k = Len(bs[a]) + 1
      BY <1>1, <2>2
    <3>2. CASE k \in 1..Len(bs[a])
      BY <1>1, <1>3, <2>2, <3>2 DEF Marks
    <3>3. CASE k = Len(bs[a]) + 1
      BY <1>1, <1>3, <2>2, <3>3
    <3>. QED BY <3>1, <3>2, <3>3
  <2>. QED BY <2>1, <2>2
<1>9. Least(new, R2)
  BY <1>5, <1>6, <1>7 DEF Least
<1>. QED BY <1>8, <1>9 DEF new

\* Blocks n + 1, n + 2, ... appended to the n blocks there are.
LEMMA JoinFacts ==
  ASSUME NEW S, NEW s \in Seq(S), NEW t \in Seq(S), NEW n, n = Len(s)
  PROVE  LET u == s \o t IN
         /\ n \in Nat /\ Len(t) \in Nat
         /\ u \in Seq(S) /\ Len(u) = n + Len(t)
         /\ \A i \in 1..n : u[i] = s[i] /\ i \in 1..Len(u)
         /\ \A k \in 1..Len(t) : u[n + k] = t[k] /\ n + k \in 1..Len(u)
<1> DEFINE u == s \o t
<1>1. /\ n \in Nat /\ Len(t) \in Nat
      /\ u \in Seq(S) /\ Len(u) = n + Len(t)
      /\ \A i \in 1..n : u[i] = s[i]
      /\ \A k \in 1..Len(t) : u[n + k] = t[k]
  OBVIOUS
<1> HIDE DEF u
<1>. QED BY <1>1 DEF u

\* Of the blocks more, appended after n others, those in New can be reached from a branch x,
\* and they have nothing but branches.
Opens(n, x, more, New) ==
  /\ x.op = "br" /\ x.to \subseteq New /\ New \subseteq n + 1..n + Len(more)
  /\ \A k \in 1..Len(more) : \A i \in 1..Len(more[k]) :
       more[k][i].op = "br" /\ more[k][i].to \subseteq New
  /\ \A S : /\ x.to \subseteq S
            /\ \A k \in 1..Len(more) : n + k \in S =>
                 \A i \in 1..Len(more[k]) : more[k][i].to \subseteq S
            => New \subseteq S

\* A branch from block a to blocks that are appended with it.
LEMMA OpenReach ==
  ASSUME NEW bs \in Seq(Block), NEW a \in 1..Len(bs), NEW x \in Instruction,
         NEW more \in Seq(Block), NEW R, Least(bs, R), Marks(bs, R),
         NEW New, Opens(Len(bs), x, more, New)
  PROVE  LET all == Add(bs, a, x) \o more
             R2  == R \cup IF a \in R THEN New ELSE {}
         IN  Least(all, R2) /\ Marks(all, R2)
<1> DEFINE new == Add(bs, a, x)
           all == new \o more
           R2 == R \cup IF a \in R THEN New ELSE {}
           n == Len(bs)
<1>1. /\ new \in Seq(Block) /\ Len(new) = n
      /\ \A b \in 1..n : b # a => new[b] = bs[b]
      /\ Len(new[a]) = Len(bs[a]) + 1 /\ new[a][Len(bs[a]) + 1] = x
      /\ Len(bs[a]) \in Nat /\ n \in Nat /\ Len(more) \in Nat
      /\ \A k \in 1..Len(bs[a]) : new[a][k] = bs[a][k]
      /\ \A b \in 1..n : Len(bs[b]) \in Nat
  BY AddFacts
<1>2. R \subseteq 1..n /\ Closes(bs, R) /\ \A S : Closes(bs, S) => R \subseteq S
  BY DEF Least
<1> HIDE DEF new
<1>3. /\ Len(all) = n + Len(more)
      /\ \A b \in 1..n : all[b] = new[b] /\ b \in 1..Len(all)
      /\ \A k \in 1..Len(more) : all[n + k] = more[k] /\ n + k \in 1..Len(all)
      /\ \A b \in 1..Len(all) : b \in 1..n \/ \E k \in 1..Len(more) : b = n + k
  <2>1. n = Len(new) /\ new \in Seq(Block)
    BY <1>1
  <2> HIDE DEF n
  <2>2. Len(all) = n + Len(more)
    BY <2>1, JoinFacts
  <2>3. \A b \in 1..n : all[b] = new[b] /\ b \in 1..Len(all)
    BY <2>1, JoinFacts
  <2>4. \A k \in 1..Len(more) : all[n + k] = more[k] /\ n + k \in 1..Len(all)
    BY <2>1, JoinFacts
  <2>5. n \in Nat /\ Len(more) \in Nat
    BY <2>1, JoinFacts
  <2> HIDE DEF all
  <2>6. ASSUME NEW b \in 1..Len(all), b \notin 1..n
        PROVE  \E k \in 1..Len(more) : b = n + k
    <3>1. b - n \in 1..Len(more) /\ b = n + (b - n)
      BY <2>2, <2>5, <2>6
    <3>. QED BY <3>1
  <2>. QED BY <2>2, <2>3, <2>4, <2>6
<1>4. \A b \in 1..Len(all) : b \in 1..n \/ \E k \in 1..Len(more) : b = n + k
  BY <1>3
<1> HIDE DEF all
<1>5. \A b \in 1..n : b \in R2 <=> b \in R
  BY <1>1 DEF Opens
<1>6. Closes(all, R2)
  <2>1. 1 \in R2
    BY <1>2 DEF Closes
  <2>2. ASSUME NEW b \in 1..Len(all), b \in R2, NEW k \in 1..Len(all[b])
        PROVE  all[b][k].to \subseteq R2
    <3>1. CASE b \in 1..n /\ b # a
      <4>1. all[b] = bs[b] /\ b \in R
        BY <1>1, <1>3, <1>5, <2>2, <3>1
      <4>. QED BY <1>2, <2>2, <3>1, <4>1 DEF Closes
    <3>2. CASE b = a
      <4>1. a \in R /\ all[b] = new[a]
        BY <1>3, <1>5, <2>2, <3>2
      <4>2. k \in 1..Len(bs[a]) \/ k = Len(bs[a]) + 1
        BY <1>1, <2>2, <4>1
      <4>3. CASE k \in 1..Len(bs[a])
        BY <1>1, <1>2, <3>2, <4>1, <4>3 DEF Closes
      <4>4. CASE k = Len(bs[a]) + 1
        BY <1>1, <3>2, <4>1, <4>4 DEF Opens
      <4>. QED BY <4>2, <4>3, <4>4
    <3>3. ASSUME NEW j \in 1..Len(more), b = n + j
          PROVE  all[b][k].to \subseteq R2
      <4>1. all[b] = more[j]
        BY <1>3, <3>3
      <4>2. b \notin R
        BY <1>1, <1>2, <3>3
      <4>3. a \in R
        BY <2>2, <4>2
      <4>. QED BY <2>2, <4>1, <4>3 DEF Opens
    <3>. QED BY <1>4, <3>1, <3>2, <3>3
  <2>. QED BY <2>1, <2>2 DEF Closes
<1>7. ASSUME NEW S, Closes(all, S)
      PROVE  R2 \subseteq S
  <2>1. ASSUME NEW b \in 1..n, b \in S, NEW k \in 1..Len(bs[b])
        PROVE  bs[b][k].to \subseteq S
    <3>1. b \in 1..Len(all) /\ k \in 1..Len(all[b]) /\ all[b][k] = bs[b][k]
      BY <1>1, <1>3, <2>1
    <3>. QED BY <1>7, <2>1, <3>1 DEF Closes
  <2>2. Closes(bs, S)
    BY <1>7, <2>1 DEF Closes
  <2>3. R \subseteq S
    BY <1>2, <2>2
  <2>4. a \in R => New \subseteq S
    <3> SUFFICES ASSUME a \in R PROVE New \subseteq S
      OBVIOUS
    <3>1. a \in 1..Len(all) /\ Len(bs[a]) + 1 \in 1..Len(all[a]) /\ all[a][Len(bs[a]) + 1] = x
      BY <1>1, <1>3
    <3>2. x.to \subseteq S
      BY <1>7, <2>3, <3>1 DEF Closes
    <3>3. \A k \in 1..Len(more) : n + k \in S =>
            \A i \in 1..Len(more[k]) : more[k][i].to \subseteq S
      BY <1>3, <1>7 DEF Closes
    <3>. QED BY <3>2, <3>3 DEF Opens
  <2>. QED BY <2>3, <2>4
<1>8. R2 \subseteq 1..Len(all)
  <2>1. R \subseteq 1..Len(all) /\ New \subseteq 1..Len(all)
    BY <1>1, <1>2, <1>3 DEF Opens
  <2>. QED BY <2>1
<1>9. Marks(all, R2)
  <2> SUFFICES ASSUME NEW b \in 1..Len(all), NEW k \in 1..Len(all[b]), all[b][k].op # "br"
               PROVE  b \in R2 <=> all[b][k].live
    BY DEF Marks
  <2>1. b \in 1..n /\ k \in 1..Len(bs[b]) /\ all[b][k] = bs[b][k]
    <3>1. CASE b \in 1..n /\ b # a
      BY <1>1, <1>3, <3>1
    <3>2. CASE b = a
      <4>1. k \in 1..Len(bs[a]) \/ k = Len(bs[a]) + 1
        BY <1>1, <1>3, <3>2
      <4>2. k # Len(bs[a]) + 1
        BY <1>1, <1>3, <3>2 DEF Opens
      <4>. QED BY <1>1, <1>3, <3>2, <4>1, <4>2
    <3>3. ASSUME NEW j \in 1..Len(more), b = n + j PROVE FALSE
      BY <1>3, <3>3 DEF Opens
    <3>. QED BY <1>4, <3>1, <3>2, <3>3
  <2>. QED BY <1>5, <2>1 DEF Marks
<1>10. Least(all, R2)
  BY <1>6, <1>7, <1>8 DEF Least
<1>. QED BY <1>9, <1>10 DEF all, new

\* No block is emptied.
Fills(bs, new) == \A b \in 1..Len(bs) : b \in 1..Len(new) /\ (bs[b] # <<>> => new[b] # <<>>)

LEMMA AddFills ==
  ASSUME NEW bs \in Seq(Block), NEW a \in 1..Len(bs), NEW x \in Instruction
  PROVE  Fills(bs, Add(bs, a, x))
<1> DEFINE new == Add(bs, a, x)
<1>1. /\ Len(new) = Len(bs) /\ new[a] # <<>>
      /\ \A b \in 1..Len(bs) : b # a => new[b] = bs[b]
  BY AddFacts
<1> HIDE DEF new
<1>. QED BY <1>1 DEF Fills, new

LEMMA FillsTwice ==
  ASSUME NEW bs, NEW new, NEW more, Fills(bs, new), Fills(new, more)
  PROVE  Fills(bs, more)
BY DEF Fills

LEMMA ConditionsKept ==
  ASSUME NEW bs, NEW fs, NEW new, Conditions(bs, fs), Fills(bs, new),
         \A k \in 1..Len(fs) : fs[k].emitted => {fs[k].other, fs[k].end} \subseteq 1..Len(bs)
  PROVE  Conditions(new, fs)
BY DEF Conditions, Fills

\* A statement is opened: what could be reached before stays as it is.
LEMMA PushPaths ==
  ASSUME NEW bs, NEW a, NEW fs, NEW lv, NEW R, Typed(bs, a, fs), StackPaths(bs, fs, lv, R),
         NEW new, Fills(bs, new), NEW R2, \A b \in 1..Len(bs) : b \in R2 <=> b \in R,
         NEW f \in Frame, f.liveIn = lv, f.liveThen = {}, Entered(f, R2),
         f.stmt = "while" => ~f.hasElse /\ (f.emitted => new[f.other] # <<>>)
  PROVE  StackPaths(new, Append(fs, f), lv, R2)
<1> DEFINE n == Len(fs)
           all == Append(fs, f)
<1>1. fs \in Seq(Frame) /\ n \in Nat
  BY DEF Typed
<1>2. /\ all \in Seq(Frame) /\ Len(all) = n + 1 /\ all[n + 1] = f
      /\ \A i \in 1..n : all[i] = fs[i]
  BY <1>1
<1>3. \A i \in 1..n + 1 : i = n + 1 \/ i \in 1..n
  BY <1>1
<1> HIDE DEF all
<1>4. ASSUME NEW i \in 1..n + 1 PROVE Entered(all[i], R2)
  <2>1. CASE i = n + 1
    BY <1>2, <2>1
  <2>2. CASE i \in 1..n
    <3>1. Entered(fs[i], R) /\ (fs[i].emitted => {fs[i].other, fs[i].end} \subseteq 1..Len(bs))
      BY <2>2 DEF StackPaths, Typed
    <3>2. Entered(fs[i], R2)
      BY <3>1 DEF Entered
    <3>. QED BY <1>2, <2>2, <3>2
  <2>. QED BY <1>3, <2>1, <2>2
<1>5. ASSUME NEW i \in 1..n + 1
      PROVE  /\ lv \subseteq all[i].liveIn /\ all[i].liveThen \subseteq all[i].liveIn
             /\ \A j \in 1..i : all[i].liveIn \subseteq all[j].liveIn
  <2>1. CASE i = n + 1
    <3>1. ASSUME NEW j \in 1..i PROVE lv \subseteq all[j].liveIn
      <4>1. j = n + 1 \/ j \in 1..n
        BY <1>3, <2>1
      <4>. QED BY <1>2, <4>1 DEF StackPaths, Shrinking
    <3>. QED BY <1>2, <2>1, <3>1
  <2>2. CASE i \in 1..n
    <3>1. \A j \in 1..i : j \in 1..n
      BY <1>1, <2>2
    <3>. QED BY <1>2, <2>2, <3>1 DEF StackPaths, Shrinking
  <2>. QED BY <1>3, <2>1, <2>2
<1>6. Conditions(new, fs)
  BY ConditionsKept DEF StackPaths, Typed
<1>7. Conditions(new, all)
  BY <1>2, <1>3, <1>6 DEF Conditions
<1>8. Shrinking(all, lv)
  BY <1>2, <1>5 DEF Shrinking
<1>9. \A i \in 1..Len(all) : Entered(all[i], R2)
  BY <1>2, <1>4
<1>. QED BY <1>7, <1>8, <1>9 DEF StackPaths, all

\* A branch to a block that the innermost statement waits for changes nothing for the
\* statements around it.
LEMMA OuterEntered ==
  ASSUME NEW bs, NEW a, NEW fs, NEW lv, NEW R, Layout(bs, a, fs), StackPaths(bs, fs, lv, R),
         fs # <<>>, NEW R2, R \subseteq R2, R2 \subseteq R \cup Pending(fs[Len(fs)]),
         NEW i \in 1..Len(fs) - 1
  PROVE  Entered(fs[i], R2)
<1>1. fs \in Seq(Frame) /\ Len(fs) \in Nat \ {0} /\ i \in 1..Len(fs) /\ Len(fs) \in 1..Len(fs)
      /\ i # Len(fs)
  BY DEF Layout, Typed
<1>2. \A b \in Pending(fs[Len(fs)]) : bs[b] = <<>> /\ b \notin Pending(fs[i])
  BY <1>1 DEF Layout
<1>3. Entered(fs[i], R)
  BY <1>1 DEF StackPaths
<1>4. ASSUME fs[i].emitted PROVE fs[i].end \in R2 <=> fs[i].end \in R
  <2>1. fs[i].end \in Pending(fs[i])
    BY <1>4 DEF Pending
  <2>. QED BY <1>2, <2>1
<1>5. ASSUME fs[i].emitted, fs[i].stmt # "else" PROVE fs[i].other \in R2 <=> fs[i].other \in R
  <2>1. CASE fs[i].stmt = "then"
    <3>1. fs[i].other \in Pending(fs[i])
      BY <1>5, <2>1 DEF Pending
    <3>. QED BY <1>2, <3>1
  <2>2. CASE fs[i].stmt = "while"
    <3>1. bs[fs[i].other] # <<>>
      BY <1>1, <1>5, <2>2 DEF StackPaths, Conditions
    <3>. QED BY <1>2, <3>1
  <2>3. fs[i] \in Frame
    BY <1>1
  <2>. QED BY <1>5, <2>1, <2>2, <2>3 DEF Frame
<1>. QED BY <1>3, <1>4, <1>5 DEF Entered

\* The innermost statement goes on to its other branch.
LEMMA TopPaths ==
  ASSUME NEW bs, NEW a, NEW fs, NEW lv, NEW R, Layout(bs, a, fs), StackPaths(bs, fs, lv, R),
         fs # <<>>, NEW R2, R \subseteq R2, R2 \subseteq R \cup Pending(fs[Len(fs)]),
         NEW new, Fills(bs, new), NEW f \in Frame, NEW lv2,
         f.liveIn = fs[Len(fs)].liveIn, f.liveThen \subseteq f.liveIn, lv2 \subseteq f.liveIn,
         f.stmt # "while", Entered(f, R2)
  PROVE  StackPaths(new, [fs EXCEPT ![Len(fs)] = f], lv2, R2)
<1> DEFINE n == Len(fs)
           all == [fs EXCEPT ![n] = f]
<1>1. fs \in Seq(Frame) /\ n \in Nat \ {0} /\ n \in 1..n
  BY DEF Layout, Typed
<1>2. /\ all \in Seq(Frame) /\ Len(all) = n /\ all[n] = f
      /\ \A i \in 1..n : i # n => all[i] = fs[i]
  BY <1>1
<1> HIDE DEF all
<1>3. \A i \in 1..n : all[i].liveIn = fs[i].liveIn
  BY <1>2
<1>4. ASSUME NEW i \in 1..n PROVE Entered(all[i], R2)
  <2>1. CASE i = n
    BY <1>2, <2>1
  <2>2. CASE i # n
    <3>1. i \in 1..n - 1
      BY <1>1, <2>2
    <3>. QED BY <1>2, <2>2, <3>1, OuterEntered
  <2>. QED BY <2>1, <2>2
<1>5. ASSUME NEW i \in 1..n
      PROVE  /\ lv2 \subseteq all[i].liveIn /\ all[i].liveThen \subseteq all[i].liveIn
             /\ \A j \in 1..i : all[i].liveIn \subseteq all[j].liveIn
  <2>1. i \in 1..n /\ \A j \in 1..i : j \in 1..n
    BY <1>1
  <2>2. fs[n].liveIn \subseteq fs[i].liveIn
    BY <1>1 DEF StackPaths, Shrinking
  <2>3. \A j \in 1..i : fs[i].liveIn \subseteq fs[j].liveIn
    BY DEF StackPaths, Shrinking
  <2>4. all[i].liveThen \subseteq all[i].liveIn
    BY <1>2 DEF StackPaths, Shrinking
  <2>. QED BY <1>3, <2>1, <2>2, <2>3, <2>4
<1>6. Conditions(new, fs)
  BY ConditionsKept DEF StackPaths, Layout, Typed
<1>7. Conditions(new, all)
  BY <1>2, <1>6 DEF Conditions
<1>8. Shrinking(all, lv2)
  BY <1>2, <1>5 DEF Shrinking
<1>9. \A i \in 1..Len(all) : Entered(all[i], R2)
  BY <1>2, <1>4
<1>. QED BY <1>7, <1>8, <1>9 DEF StackPaths, all

\* The innermost statement ends.
LEMMA PopPaths ==
  ASSUME NEW bs, NEW a, NEW fs, NEW lv, NEW R, Layout(bs, a, fs), StackPaths(bs, fs, lv, R),
         fs # <<>>, NEW R2, R \subseteq R2, R2 \subseteq R \cup Pending(fs[Len(fs)]),
         NEW new, Fills(bs, new), NEW lv2, lv2 \subseteq fs[Len(fs)].liveIn
  PROVE  StackPaths(new, SubSeq(fs, 1, Len(fs) - 1), lv2, R2)
<1> DEFINE n == Len(fs)
           all == SubSeq(fs, 1, n - 1)
<1>1. fs \in Seq(Frame) /\ n \in Nat \ {0} /\ n \in 1..n
  BY DEF Layout, Typed
<1>2. /\ all \in Seq(Frame) /\ Len(all) = n - 1
      /\ \A i \in 1..n - 1 : all[i] = fs[i] /\ i \in 1..n
  BY <1>1, FrontFacts
<1> HIDE DEF all
<1>3. \A i \in 1..n - 1 : Entered(all[i], R2)
  BY <1>2, OuterEntered
<1>4. ASSUME NEW i \in 1..n - 1
      PROVE  /\ lv2 \subseteq all[i].liveIn /\ all[i].liveThen \subseteq all[i].liveIn
             /\ \A j \in 1..i : all[i].liveIn \subseteq all[j].liveIn
  <2>1. i \in 1..n /\ \A j \in 1..i : j \in 1..n - 1
    BY <1>1
  <2>2. i \in 1..n /\ fs[n].liveIn \subseteq fs[i].liveIn
    BY <1>1, <2>1 DEF StackPaths, Shrinking
  <2>3. \A j \in 1..i : fs[i].liveIn \subseteq fs[j].liveIn
    BY <2>1 DEF StackPaths, Shrinking
  <2>4. fs[i].liveThen \subseteq fs[i].liveIn
    BY <2>1 DEF StackPaths, Shrinking
  <2>. QED BY <1>2, <2>1, <2>2, <2>3, <2>4
<1>5. Conditions(new, fs)
  BY ConditionsKept DEF StackPaths, Layout, Typed
<1>6. Conditions(new, all)
  BY <1>2, <1>5 DEF Conditions
<1>7. Shrinking(all, lv2)
  BY <1>2, <1>4 DEF Shrinking
<1>8. \A i \in 1..Len(all) : Entered(all[i], R2)
  BY <1>2, <1>3
<1>. QED BY <1>6, <1>7, <1>8 DEF StackPaths, all

-----------------------------------------------------------------------------
(* Each step keeps the paths. *)

\* What PathInv says while a body is open.
LEMMA OpenPaths ==
  ASSUME PathInv, verdict = "open"
  PROVE  \E R : /\ Least(blocks, R) /\ Marks(blocks, R)
                /\ Arrives(blocks, at, live, R) /\ StackPaths(blocks, frames, live, R)
BY DEF PathInv

LEMMA PathsStep ==
  ASSUME verdict' = "open", NEW R, Least(blocks', R), Marks(blocks', R),
         Arrives(blocks', at', live', R), StackPaths(blocks', frames', live', R)
  PROVE  PathInv'
BY DEF PathInv, Least, Closes, Marks, Arrives, StackPaths, Entered, Shrinking, Conditions

\* Nothing that the paths depend on changes.
LEMMA StillPaths ==
  ASSUME PathInv, verdict = "open", UNCHANGED <<frames, blocks, at, verdict, live>>
  PROVE  PathInv'
<1>1. PICK R : /\ Least(blocks, R) /\ Marks(blocks, R)
               /\ Arrives(blocks, at, live, R) /\ StackPaths(blocks, frames, live, R)
  BY OpenPaths
<1>. QED BY <1>1, PathsStep

\* A simple statement or a return.
LEMMA SinglePaths ==
  ASSUME TypeOK, EmitInv, PathInv, verdict = "open", UNCHANGED <<frames, at, verdict>>,
         NEW op \in {"code", "ret"},
         blocks' = IF Skipping THEN blocks ELSE Add(blocks, at, Instr(op, {})),
         live' = IF op = "ret" THEN {} ELSE live
  PROVE  PathInv'
<1>1. PICK R : /\ Least(blocks, R) /\ Marks(blocks, R)
               /\ Arrives(blocks, at, live, R) /\ StackPaths(blocks, frames, live, R)
  BY OpenPaths
<1>2. CASE Skipping
  <2>1. live' = live /\ blocks' = blocks
    BY <1>2, WhileOpen
  <2>. QED BY <2>1, StillPaths
<1>3. CASE ~Skipping
  <2>1. PICK x \in Instruction : x = Instr(op, {})
    BY InstrTyped DEF Terminators
  <2>2. x.op = op /\ x.to = {} /\ (x.live <=> "either" \in live)
    BY <2>1 DEF Instr
  <2>3. /\ Layout(blocks, at, frames) /\ ~Closed(blocks[at])
        /\ blocks \in Seq(Block) /\ at \in 1..Len(blocks)
    BY <1>3, WhileOpen
  <2>4. blocks' = Add(blocks, at, x)
    BY <1>3, <2>1
  <2>5. at \in R <=> "either" \in live
    BY <1>1, <2>3 DEF Arrives
  <2>6. Least(blocks', R) /\ Marks(blocks', R)
    <3>1. LET more == IF at \in R THEN x.to ELSE {} IN
          Least(Add(blocks, at, x), R \cup more) /\ Marks(Add(blocks, at, x), R \cup more)
      BY <1>1, <2>2, <2>3, <2>5, AddReach
    <3>2. R \cup (IF at \in R THEN x.to ELSE {}) = R
      BY <2>2
    <3>. QED BY <2>4, <3>1, <3>2
  <2>7. Arrives(blocks', at, live', R)
    <3>1. op = "ret" => Closed(blocks'[at])
      BY <2>2, <2>3, <2>4, AddKeepsLayout DEF Terminators
    <3>. QED BY <2>5, <3>1 DEF Arrives
  <2>8. Conditions(blocks', frames)
    <3>1. Fills(blocks, blocks')
      BY <2>3, <2>4, AddFills
    <3>. QED BY <1>1, <2>3, <3>1, ConditionsKept DEF StackPaths, Layout, Typed
  <2>9. Shrinking(frames, live')
    BY <1>1 DEF StackPaths, Shrinking
  <2>10. StackPaths(blocks', frames, live', R)
    BY <1>1, <2>8, <2>9 DEF StackPaths
  <2>. QED BY <2>6, <2>7, <2>10, PathsStep
<1>. QED BY <1>2, <1>3

\* A statement that is opened where it is skipped.
LEMMA SkippedPaths ==
  ASSUME TypeOK, EmitInv, PathInv, verdict = "open", Skipping,
         NEW stmt \in {"then", "while"}, NEW hasElse \in BOOLEAN, stmt = "while" => ~hasElse,
         NEW other \in Nat, NEW end \in Nat,
         frames' = Append(frames, NewFrame(stmt, hasElse, other, end)),
         UNCHANGED <<verdict, live, blocks, at>>
  PROVE  PathInv'
<1>1. PICK R : /\ Least(blocks, R) /\ Marks(blocks, R)
               /\ Arrives(blocks, at, live, R) /\ StackPaths(blocks, frames, live, R)
  BY OpenPaths
<1>2. PICK f \in Frame : f = NewFrame(stmt, hasElse, other, end)
  BY NewFrameTyped
<1>3. ~f.emitted /\ f.liveIn = live /\ f.liveThen = {} /\ f.stmt = stmt /\ f.hasElse = hasElse
  BY <1>2 DEF NewFrame
<1>4. Entered(f, R)
  BY <1>3 DEF Entered
<1>5. Fills(blocks, blocks)
  BY DEF Fills
<1>6. Typed(blocks, at, frames)
  BY DEF EmitInv
<1>7. StackPaths(blocks, Append(frames, f), live, R)
  BY <1>1, <1>3, <1>4, <1>5, <1>6, PushPaths
<1>. QED BY <1>1, <1>2, <1>7, PathsStep

\* A statement that is opened where it is emitted.
LEMMA EmittedPaths ==
  ASSUME TypeOK, EmitInv, PathInv, verdict = "open", ~Skipping,
         NEW stmt \in {"then", "while"}, NEW hasElse \in BOOLEAN, stmt = "while" => ~hasElse,
         NEW other \in Nat, NEW end \in Nat, NEW to \in SUBSET Nat,
         NEW more \in Seq(Block), NEW t \in Len(blocks) + 1..Len(blocks) + Len(more),
         frames' = Append(frames, NewFrame(stmt, hasElse, other, end)),
         blocks' = Add(blocks, at, Instr("br", to)) \o more, at' = t,
         UNCHANGED <<verdict, live>>,
         NEW New, Opens(Len(blocks), Instr("br", to), more, New), t \in New,
         other > Len(blocks) /\ end > Len(blocks),
         end \in New <=> ~hasElse, other \in New <=> stmt = "while" \/ hasElse,
         stmt = "while" => blocks'[other] # <<>>
  PROVE  PathInv'
<1>1. PICK R : /\ Least(blocks, R) /\ Marks(blocks, R)
               /\ Arrives(blocks, at, live, R) /\ StackPaths(blocks, frames, live, R)
  BY OpenPaths
<1>2. PICK f \in Frame : f = NewFrame(stmt, hasElse, other, end)
  BY NewFrameTyped
<1>3. /\ f.emitted /\ f.liveIn = live /\ f.liveThen = {} /\ f.stmt = stmt /\ f.hasElse = hasElse
      /\ f.other = other /\ f.end = end
  BY <1>2 DEF NewFrame
<1>4. PICK x \in Instruction : x = Instr("br", to)
  BY InstrTyped DEF Terminators
<1>5. PICK R2 : R2 = R \cup IF at \in R THEN New ELSE {}
  OBVIOUS
<1>6. /\ Layout(blocks, at, frames) /\ ~Closed(blocks[at])
      /\ blocks \in Seq(Block) /\ at \in 1..Len(blocks) /\ Len(blocks) \in Nat
  BY WhileOpen
<1>7. Least(blocks', R2) /\ Marks(blocks', R2)
  BY <1>1, <1>4, <1>5, <1>6, OpenReach
<1>8. at \in R <=> "either" \in live
  BY <1>1, <1>6 DEF Arrives
<1>9. R \subseteq 1..Len(blocks)
  BY <1>1 DEF Least
<1>10. \A b \in Nat : b > Len(blocks) => (b \in R2 <=> b \in New /\ "either" \in live)
  BY <1>5, <1>6, <1>8, <1>9
<1>11. \A b \in 1..Len(blocks) : b \in R2 <=> b \in R
  <2>1. New \cap 1..Len(blocks) = {}
    BY <1>6 DEF Opens
  <2>. QED BY <1>5, <2>1
<1>12. Arrives(blocks', t, live, R2)
  BY <1>6, <1>10 DEF Arrives
<1>13. Entered(f, R2)
  BY <1>3, <1>10 DEF Entered
<1>14. Fills(blocks, blocks')
  <2>1. PICK bs : bs = Add(blocks, at, x)
    OBVIOUS
  <2>2. Fills(blocks, bs) /\ bs \in Seq(Block) /\ Len(bs) = Len(blocks)
    BY <1>6, <2>1, AddFills, AddTyped
  <2>3. Fills(bs, bs \o more)
    BY <2>2, JoinFacts DEF Fills
  <2>. QED BY <1>4, <2>1, <2>2, <2>3, FillsTwice
<1>15. StackPaths(blocks', Append(frames, f), live, R2)
  BY <1>1, <1>3, <1>6, <1>11, <1>13, <1>14, PushPaths DEF Layout
<1>. QED BY <1>2, <1>7, <1>12, <1>15, PathsStep

LEMMA OpenIfPaths ==
  ASSUME TypeOK, EmitInv, PathInv, NEW hasElse \in BOOLEAN, OpenIf(hasElse)
  PROVE  PathInv'
<1> DEFINE n == Len(blocks)
           edge == IF hasElse THEN 2 ELSE 3
<1>1. /\ verdict = "open" /\ UNCHANGED <<verdict, live>>
      /\ frames' = Append(frames, NewFrame("then", hasElse, n + 2, n + 3))
  BY DEF OpenIf, SplitIf, NextStatement, Push
<1>2. n \in Nat /\ n + 1 \in Nat /\ n + 2 \in Nat /\ n + 3 \in Nat /\ n + edge \in Nat
  BY <1>1, WhileOpen
<1>3. CASE Skipping
  <2>1. UNCHANGED <<blocks, at>>
    BY <1>3 DEF OpenIf, SplitIf
  <2>. QED BY <1>1, <1>2, <1>3, <2>1, SkippedPaths
<1>4. CASE ~Skipping
  <2>1. PICK more, to : more = << <<>>, <<>>, <<>> >> /\ to = {n + 1, n + edge}
    OBVIOUS
  <2>2. /\ more \in Seq(Block) /\ Len(more) = 3
        /\ \A k \in 1..Len(more) : \A i \in 1..Len(more[k]) : FALSE
    <3>1. /\ more \in Seq(Block) /\ Len(more) = 3
          /\ more[1] = <<>> /\ more[2] = <<>> /\ more[3] = <<>>
      BY <2>1 DEF Block
    <3>2. \A k \in 1..3 : k = 1 \/ k = 2 \/ k = 3
      OBVIOUS
    <3>. QED BY <3>1, <3>2
  <2>3. blocks' = Add(blocks, at, Instr("br", to)) \o more /\ at' = n + 1
    BY <1>4, <2>1 DEF OpenIf, SplitIf
  <2>4. Opens(n, Instr("br", to), more, to)
    <3>1. Instr("br", to).op = "br" /\ Instr("br", to).to = to
      BY DEF Instr
    <3>2. to \subseteq n + 1..n + Len(more)
      BY <1>2, <2>1, <2>2
    <3>. QED BY <2>2, <3>1, <3>2 DEF Opens
  <2>5. /\ n + 1 \in to /\ (n + 3 \in to <=> ~hasElse) /\ (n + 2 \in to <=> hasElse)
        /\ n + 1 \in n + 1..n + Len(more) /\ n + 2 > n /\ n + 3 > n /\ to \in SUBSET Nat
    BY <1>2, <2>1, <2>2
  <2>. QED BY <1>1, <1>2, <1>4, <2>2, <2>3, <2>4, <2>5, EmittedPaths
<1>. QED BY <1>3, <1>4

LEMMA OpenWhilePaths == ASSUME TypeOK, EmitInv, PathInv, OpenWhile PROVE PathInv'
<1> DEFINE n == Len(blocks)
<1>1. /\ verdict = "open" /\ UNCHANGED <<verdict, live>>
      /\ frames' = Append(frames, NewFrame("while", FALSE, n + 1, n + 3))
  BY DEF OpenWhile, NextStatement, Push
<1>2. /\ n \in Nat /\ n + 1 \in Nat /\ n + 2 \in Nat /\ n + 3 \in Nat
      /\ blocks \in Seq(Block) /\ at \in 1..n
  BY <1>1, WhileOpen
<1>3. CASE Skipping
  <2>1. UNCHANGED <<blocks, at>>
    BY <1>3 DEF OpenWhile
  <2>. QED BY <1>1, <1>2, <1>3, <2>1, SkippedPaths
<1>4. CASE ~Skipping
  <2>1. PICK x \in Instruction : x = Instr("br", {n + 2, n + 3})
    BY <1>2, InstrTyped DEF Terminators
  <2>2. PICK more, New : more = << <<x>>, <<>>, <<>> >> /\ New = {n + 1, n + 2, n + 3}
    OBVIOUS
  <2>3. /\ more \in Seq(Block) /\ Len(more) = 3 /\ more[1] = <<x>>
        /\ \A k \in 1..Len(more) : k # 1 => more[k] = <<>>
    <3>1. /\ more \in Seq(Block) /\ Len(more) = 3 /\ more[1] = <<x>>
          /\ more[2] = <<>> /\ more[3] = <<>>
      BY <2>2 DEF Block
    <3>2. \A k \in 1..3 : k = 1 \/ k = 2 \/ k = 3
      OBVIOUS
    <3>. QED BY <3>1, <3>2
  <2>4. blocks' = Add(blocks, at, Instr("br", {n + 1})) \o more /\ at' = n + 2
    BY <1>4, <2>1, <2>2 DEF OpenWhile
  <2>5. Opens(n, Instr("br", {n + 1}), more, New)
    <3>1. /\ Instr("br", {n + 1}).op = "br" /\ Instr("br", {n + 1}).to = {n + 1}
          /\ x.op = "br" /\ x.to = {n + 2, n + 3}
      BY <2>1 DEF Instr
    <3>2. New \subseteq n + 1..n + Len(more) /\ {n + 1} \subseteq New /\ x.to \subseteq New
      BY <1>2, <2>2, <2>3, <3>1
    <3>3. ASSUME NEW k \in 1..Len(more), NEW i \in 1..Len(more[k])
          PROVE  k = 1 /\ more[k][i] = x
      <4>1. Len(<<x>>) = 1 /\ <<x>>[1] = x /\ Len(<<>>) = 0
        OBVIOUS
      <4>. QED BY <2>3, <3>3, <4>1
    <3>4. ASSUME NEW S, {n + 1} \subseteq S,
                 \A k \in 1..Len(more) : n + k \in S =>
                   \A i \in 1..Len(more[k]) : more[k][i].to \subseteq S
          PROVE  New \subseteq S
      <4>1. 1 \in 1..Len(more) /\ 1 \in 1..Len(more[1]) /\ more[1][1] = x
        BY <2>3
      <4>2. x.to \subseteq S
        BY <3>4, <4>1
      <4>. QED BY <2>2, <3>1, <3>4, <4>2
    <3>. QED BY <3>1, <3>2, <3>3, <3>4 DEF Opens
  <2>6. /\ n + 2 \in New /\ n + 3 \in New /\ n + 1 \in New
        /\ n + 2 \in n + 1..n + Len(more) /\ n + 1 > n /\ n + 3 > n /\ {n + 1} \in SUBSET Nat
    BY <1>2, <2>2, <2>3
  <2>7. blocks'[n + 1] # <<>>
    <3>1. PICK bs : bs = Add(blocks, at, Instr("br", {n + 1}))
      OBVIOUS
    <3>2. bs \in Seq(Block) /\ Len(bs) = n
      <4>1. Instr("br", {n + 1}) \in Instruction
        BY <1>2, InstrTyped DEF Terminators
      <4>. QED BY <1>2, <3>1, <4>1, AddTyped
    <3>3. \A k \in 1..Len(more) : (bs \o more)[n + k] = more[k]
      <4>1. n = Len(bs) /\ bs \in Seq(Block) /\ more \in Seq(Block)
        BY <2>3, <3>2
      <4> HIDE DEF n
      <4>. QED BY <4>1, JoinFacts
    <3>4. 1 \in 1..Len(more)
      BY <2>3
    <3>5. blocks'[n + 1] = more[1]
      BY <2>4, <3>1, <3>3, <3>4, Zenon
    <3>6. Len(more[1]) = 1 /\ Len(<<>>) = 0
      BY <2>3
    <3>. QED BY <3>5, <3>6
  <2>8. PICK hasElse \in BOOLEAN : hasElse = FALSE
    OBVIOUS
  <2>9. PICK to \in SUBSET Nat : to = {n + 1}
    BY <2>6
  <2>10. PICK stmt \in {"then", "while"} : stmt = "while"
    OBVIOUS
  <2>11. PICK other \in Nat, end \in Nat, t \in n + 1..n + Len(more) :
           other = n + 1 /\ end = n + 3 /\ t = n + 2
    BY <1>2, <2>6
  <2>12. /\ frames' = Append(frames, NewFrame(stmt, hasElse, other, end))
         /\ blocks' = Add(blocks, at, Instr("br", to)) \o more /\ at' = t
         /\ Opens(n, Instr("br", to), more, New)
    BY <1>1, <2>4, <2>5, <2>8, <2>9, <2>10, <2>11, Zenon
  <2>13. /\ t \in New /\ other > n /\ end > n
         /\ (end \in New <=> ~hasElse) /\ (other \in New <=> stmt = "while" \/ hasElse)
         /\ (stmt = "while" => ~hasElse) /\ (stmt = "while" => blocks'[other] # <<>>)
    BY <2>6, <2>7, <2>8, <2>10, <2>11
  <2>. QED BY <1>1, <1>4, <2>3, <2>12, <2>13, EmittedPaths
<1>. QED BY <1>3, <1>4

\* The branch that ends a part of a statement, to a block that is empty, or reached if
\* the branch is.
LEMMA BranchReach ==
  ASSUME TypeOK, EmitInv, verdict = "open", NEW R, Least(blocks, R), Marks(blocks, R),
         Arrives(blocks, at, live, R), NEW t \in 1..Len(blocks),
         "either" \in live => blocks[t] = <<>> \/ t \in R
  PROVE  LET bs == BranchUnlessTerminated(blocks, at, t)
             R2 == R \cup IF "either" \in live THEN {t} ELSE {}
         IN  /\ Least(bs, R2) /\ Marks(bs, R2) /\ Fills(blocks, bs)
             /\ Layout(bs, at, frames) /\ Len(bs) = Len(blocks)
<1> DEFINE bs == BranchUnlessTerminated(blocks, at, t)
           R2 == R \cup IF "either" \in live THEN {t} ELSE {}
<1>1. /\ Layout(blocks, at, frames) /\ t \in Nat /\ (Closed(blocks[at]) => live = {})
      /\ blocks \in Seq(Block) /\ at \in 1..Len(blocks) /\ Len(blocks) \in Nat
  BY WhileOpen
<1>2. Layout(bs, at, frames) /\ Len(bs) = Len(blocks)
  BY <1>1, BranchKeepsLayout
<1>3. CASE Terminated(at)
  <2>1. bs = blocks /\ R2 = R
    BY <1>1, <1>3, TerminatedMeans DEF BranchUnlessTerminated
  <2>2. Fills(blocks, blocks)
    BY DEF Fills
  <2> HIDE DEF bs, R2
  <2>3. Least(bs, R2) /\ Marks(bs, R2) /\ Fills(blocks, bs)
    BY <2>1, <2>2
  <2>. QED BY <1>2, <2>3 DEF bs, R2
<1>4. CASE ~Terminated(at)
  <2>1. PICK x \in Instruction : x = Instr("br", {t})
    BY <1>1, InstrTyped DEF Terminators
  <2>2. x.op = "br" /\ x.to = {t}
    BY <2>1 DEF Instr
  <2>3. bs = Add(blocks, at, x)
    BY <1>4, <2>1 DEF BranchUnlessTerminated
  <2>4. at \in R <=> "either" \in live
    BY <1>4, TerminatedMeans DEF Arrives
  <2>5. R2 = R \cup IF at \in R THEN x.to ELSE {}
    BY <2>2, <2>4
  <2>6. Fills(blocks, bs)
    BY <1>1, <2>3, AddFills
  <2> HIDE DEF bs, R2
  <2>7. Least(bs, R2) /\ Marks(bs, R2)
    <3>1. at \in R => \A b \in x.to : blocks[b] = <<>> \/ b \in R
      BY <2>2, <2>4
    <3>2. x.to \subseteq 1..Len(blocks)
      BY <2>2
    <3>. QED BY <1>1, <2>2, <2>3, <2>5, <3>1, <3>2, AddReach
  <2>. QED BY <1>2, <2>6, <2>7 DEF bs, R2
<1>. QED BY <1>3, <1>4

\* The end of a statement that was skipped, or of its then branch.
LEMMA SkippedEnds ==
  ASSUME TypeOK, EmitInv, PathInv, verdict = "open", Opened, ~Top.emitted,
         UNCHANGED <<verdict, blocks, at>>,
         live' \subseteq live \cup Top.liveIn \cup Top.liveThen,
         \/ frames' = Pop
         \/ Top.stmt = "then" /\ frames' = [frames EXCEPT ![Len(frames)] = ElseFrame]
  PROVE  PathInv'
<1>1. PICK R : /\ Least(blocks, R) /\ Marks(blocks, R)
               /\ Arrives(blocks, at, live, R) /\ StackPaths(blocks, frames, live, R)
  BY OpenPaths
<1>2. Layout(blocks, at, frames) /\ live = {} /\ Top \in QuietFrame
  BY WhileOpen
<1>3. live' = {} /\ live' = live
  BY <1>2 DEF QuietFrame
<1>4. Fills(blocks, blocks)
  BY DEF Fills
<1>5. CASE frames' = Pop
  <2>1. StackPaths(blocks, SubSeq(frames, 1, Len(frames) - 1), live', R)
    BY <1>1, <1>2, <1>3, <1>4, PopPaths DEF Opened
  <2>. QED BY <1>1, <1>3, <1>5, <2>1, PathsStep DEF Pop
<1>6. CASE Top.stmt = "then" /\ frames' = [frames EXCEPT ![Len(frames)] = ElseFrame]
  <2>1. /\ ElseFrame \in Frame /\ ElseFrame.stmt = "else" /\ ~ElseFrame.emitted
        /\ ElseFrame.liveIn = frames[Len(frames)].liveIn /\ ElseFrame.liveThen = {}
    BY <1>2, ElseFrameTyped DEF Top
  <2>2. Entered(ElseFrame, R)
    BY <2>1 DEF Entered
  <2>3. StackPaths(blocks, [frames EXCEPT ![Len(frames)] = ElseFrame], live', R)
    BY <1>1, <1>2, <1>3, <1>4, <2>1, <2>2, TopPaths DEF Opened
  <2>. QED BY <1>1, <1>3, <1>6, <2>3, PathsStep
<1>. QED BY <1>5, <1>6

\* What is known of the innermost statement when it is emitted.
LEMMA TopEntered ==
  ASSUME TypeOK, EmitInv, verdict = "open", Opened, Top.emitted,
         NEW R, StackPaths(blocks, frames, live, R)
  PROVE  /\ Entered(Top, R) /\ Top.end \in Pending(Top) /\ blocks[Top.end] = <<>>
         /\ Top.stmt = "then" =>
              /\ Top.other \in Pending(Top) /\ blocks[Top.other] = <<>> /\ Top.other # Top.end
         /\ Top.stmt = "while" => ~Top.hasElse
         /\ Top.other \in 1..Len(blocks) /\ Top.end \in 1..Len(blocks)
         /\ live \subseteq Top.liveIn /\ Top.liveThen \subseteq Top.liveIn
<1>1. Len(frames) \in 1..Len(frames) /\ Top.other \in 1..Len(blocks) /\ Top.end \in 1..Len(blocks)
  BY TopTyped
<1>2. Layout(blocks, at, frames)
  BY WhileOpen
<1>3. /\ Entered(Top, R) /\ live \subseteq Top.liveIn /\ Top.liveThen \subseteq Top.liveIn
      /\ Top.stmt = "while" => ~Top.hasElse
  BY <1>1 DEF StackPaths, Top, Shrinking, Conditions
<1>4. Top.end \in Pending(Top) /\ (Top.stmt = "then" => Top.other \in Pending(Top))
  BY DEF Pending
<1>5. \A b \in Pending(Top) : blocks[b] = <<>>
  BY <1>1, <1>2 DEF Layout, Top
<1>6. Top.stmt = "then" => Top.other # Top.end
  BY <1>1, <1>2 DEF Layout, Top
<1>. QED BY <1>1, <1>3, <1>4, <1>5, <1>6

LEMMA StartElsePaths == ASSUME TypeOK, EmitInv, PathInv, StartElse PROVE PathInv'
<1>1. /\ verdict = "open" /\ UNCHANGED verdict /\ Opened /\ Top.stmt = "then" /\ Top.hasElse
      /\ frames' = [frames EXCEPT ![Len(frames)] = ElseFrame]
      /\ live' = Top.liveIn
  BY DEF StartElse, ElseFrame, Top
<1>2. CASE ~Top.emitted
  BY <1>1, <1>2, SkippedEnds DEF StartElse
<1>3. CASE Top.emitted
  <2>1. PICK R : /\ Least(blocks, R) /\ Marks(blocks, R)
                 /\ Arrives(blocks, at, live, R) /\ StackPaths(blocks, frames, live, R)
    BY <1>1, OpenPaths
  <2>2. PICK R2 : R2 = R \cup IF "either" \in live THEN {Top.end} ELSE {}
    OBVIOUS
  <2>3. /\ Entered(Top, R) /\ Top.end \in Pending(Top) /\ blocks[Top.end] = <<>>
        /\ Top.other # Top.end /\ Top.end \in 1..Len(blocks) /\ live \subseteq Top.liveIn
    BY <1>1, <1>3, <2>1, TopEntered
  <2>4. blocks' = BranchUnlessTerminated(blocks, at, Top.end) /\ at' = Top.other
    BY <1>3 DEF StartElse
  <2>5. Least(blocks', R2) /\ Marks(blocks', R2) /\ Fills(blocks, blocks')
    BY <1>1, <2>1, <2>2, <2>3, <2>4, BranchReach
  <2>6. /\ ElseFrame \in Frame /\ ElseFrame.stmt = "else"
        /\ ElseFrame.end = Top.end /\ ElseFrame.liveIn = Top.liveIn
        /\ ElseFrame.liveThen = live
    BY <1>1, ElseFrameTyped
  <2>7. Entered(ElseFrame, R2)
    BY <1>1, <1>3, <2>2, <2>3, <2>6 DEF Entered
  <2>8. Arrives(blocks', at', live', R2)
    BY <1>1, <1>3, <2>2, <2>3, <2>4 DEF Entered, Arrives
  <2>9. Layout(blocks, at, frames)
    BY <1>1, WhileOpen
  <2>10. R \subseteq R2 /\ R2 \subseteq R \cup Pending(Top)
    BY <2>2, <2>3
  <2>11. StackPaths(blocks', frames', live', R2)
    BY <1>1, <2>1, <2>3, <2>5, <2>6, <2>7, <2>9, <2>10, TopPaths DEF Opened, Top
  <2>. QED BY <1>1, <2>5, <2>8, <2>11, PathsStep
<1>. QED BY <1>2, <1>3

\* An emitted statement ends: after its last branches, its end takes over.
LEMMA EmittedEnds ==
  ASSUME TypeOK, EmitInv, PathInv, verdict = "open", Opened, Top.emitted,
         NEW R, StackPaths(blocks, frames, live, R),
         NEW R2, R \subseteq R2, R2 \subseteq R \cup {Top.end},
         Least(blocks', R2), Marks(blocks', R2), Fills(blocks, blocks'),
         frames' = Pop, at' = Top.end, UNCHANGED verdict,
         live' \subseteq Top.liveIn, Top.end \in R2 <=> "either" \in live'
  PROVE  PathInv'
<1>1. Top.end \in Pending(Top) /\ Layout(blocks, at, frames)
  BY TopEntered, WhileOpen
<1>2. R2 \subseteq R \cup Pending(frames[Len(frames)])
  BY <1>1 DEF Top
<1>3. StackPaths(blocks', SubSeq(frames, 1, Len(frames) - 1), live', R2)
  BY <1>1, <1>2, PopPaths DEF Opened, Top
<1>4. Arrives(blocks', at', live', R2)
  BY DEF Arrives
<1>. QED BY <1>3, <1>4, PathsStep DEF Pop

LEMMA CloseElsePaths == ASSUME TypeOK, EmitInv, PathInv, CloseElse PROVE PathInv'
<1>1. /\ verdict = "open" /\ UNCHANGED verdict /\ Opened /\ Top.stmt = "else"
      /\ frames' = Pop /\ live' = Top.liveThen \cup live
  BY DEF CloseElse, MergeElse
<1>2. CASE ~Top.emitted
  BY <1>1, <1>2, SkippedEnds DEF CloseElse, MergeElse
<1>3. CASE Top.emitted
  <2>1. PICK R : /\ Least(blocks, R) /\ Marks(blocks, R)
                 /\ Arrives(blocks, at, live, R) /\ StackPaths(blocks, frames, live, R)
    BY <1>1, OpenPaths
  <2>2. PICK R2 : R2 = R \cup IF "either" \in live THEN {Top.end} ELSE {}
    OBVIOUS
  <2>3. /\ Entered(Top, R) /\ blocks[Top.end] = <<>> /\ Top.end \in 1..Len(blocks)
        /\ live \subseteq Top.liveIn /\ Top.liveThen \subseteq Top.liveIn
    BY <1>1, <1>3, <2>1, TopEntered
  <2>4. blocks' = BranchUnlessTerminated(blocks, at, Top.end) /\ at' = Top.end
    BY <1>3 DEF CloseElse, MergeElse
  <2>5. Least(blocks', R2) /\ Marks(blocks', R2) /\ Fills(blocks, blocks')
    BY <1>1, <2>1, <2>2, <2>3, <2>4, BranchReach
  <2>6. Top.end \in R2 <=> "either" \in live'
    BY <1>1, <1>3, <2>2, <2>3 DEF Entered
  <2>7. R \subseteq R2 /\ R2 \subseteq R \cup {Top.end} /\ live' \subseteq Top.liveIn
    BY <1>1, <2>2, <2>3
  <2>. QED BY <1>1, <1>3, <2>1, <2>4, <2>5, <2>6, <2>7, EmittedEnds
<1>. QED BY <1>2, <1>3

LEMMA CloseIfPaths == ASSUME TypeOK, EmitInv, PathInv, CloseIf PROVE PathInv'
<1>1. /\ verdict = "open" /\ UNCHANGED verdict /\ Opened /\ Top.stmt = "then" /\ ~Top.hasElse
      /\ frames' = Pop /\ live' = live \cup Top.liveIn
  BY DEF CloseIf
<1>2. CASE ~Top.emitted
  BY <1>1, <1>2, SkippedEnds DEF CloseIf
<1>3. CASE Top.emitted
  <2>1. PICK R : /\ Least(blocks, R) /\ Marks(blocks, R)
                 /\ Arrives(blocks, at, live, R) /\ StackPaths(blocks, frames, live, R)
    BY <1>1, OpenPaths
  <2>2. PICK R2, bs, x : /\ R2 = R \cup IF "either" \in live THEN {Top.end} ELSE {}
                         /\ bs = BranchUnlessTerminated(blocks, at, Top.end)
                         /\ x = Instr("br", {Top.end})
    OBVIOUS
  <2>3. /\ Entered(Top, R) /\ blocks[Top.end] = <<>> /\ Top.end \in 1..Len(blocks)
        /\ Top.other \in 1..Len(blocks) /\ Top.other # Top.end
        /\ live \subseteq Top.liveIn
    BY <1>1, <1>3, <2>1, TopEntered
  <2>4. blocks' = Add(bs, Top.other, x) /\ at' = Top.end
    BY <1>3, <2>2 DEF CloseIf
  <2>5. /\ Least(bs, R2) /\ Marks(bs, R2) /\ Fills(blocks, bs)
        /\ Layout(bs, at, frames) /\ Len(bs) = Len(blocks)
    BY <1>1, <2>1, <2>2, <2>3, BranchReach
  <2>6. Top.other \notin R2
    BY <1>1, <1>3, <2>2, <2>3 DEF Entered
  <2>7. bs \in Seq(Block) /\ Len(blocks) \in Nat
    BY <1>1, <2>5, WhileOpen DEF Layout, Typed
  <2>8. x \in Instruction /\ x.op = "br" /\ x.to = {Top.end}
    <3>1. Top.end \in Nat
      BY <2>3, <2>7
    <3>2. x \in Instruction
      BY <2>2, <3>1, InstrTyped DEF Terminators
    <3>. QED BY <2>2, <3>2 DEF Instr
  <2>9. Least(blocks', R2) /\ Marks(blocks', R2)
    <3>1. LET more == IF Top.other \in R2 THEN x.to ELSE {} IN
          Least(Add(bs, Top.other, x), R2 \cup more) /\ Marks(Add(bs, Top.other, x), R2 \cup more)
      <4>1. Top.other \in 1..Len(bs) /\ x.to \subseteq 1..Len(bs)
        BY <2>3, <2>5, <2>8
      <4>. QED BY <2>5, <2>6, <2>7, <2>8, <4>1, AddReach
    <3>2. R2 \cup (IF Top.other \in R2 THEN x.to ELSE {}) = R2
      BY <2>6
    <3>. QED BY <2>4, <3>1, <3>2
  <2>10. Fills(blocks, blocks')
    BY <2>3, <2>4, <2>5, <2>7, <2>8, AddFills, FillsTwice
  <2>11. Top.end \in R2 <=> "either" \in live'
    BY <1>1, <1>3, <2>2, <2>3 DEF Entered
  <2>12. R \subseteq R2 /\ R2 \subseteq R \cup {Top.end} /\ live' \subseteq Top.liveIn
    BY <1>1, <2>2, <2>3
  <2>. QED BY <1>1, <1>3, <2>1, <2>4, <2>9, <2>10, <2>11, <2>12, EmittedEnds
<1>. QED BY <1>2, <1>3

\* The branch back to while.cond reaches nothing new: the body is entered from there.
LEMMA CloseWhilePaths == ASSUME TypeOK, EmitInv, PathInv, CloseWhile PROVE PathInv'
<1>1. /\ verdict = "open" /\ UNCHANGED verdict /\ Opened /\ Top.stmt = "while"
      /\ frames' = Pop
      /\ live' = (Top.liveIn \cap {"either"}) \cup (live \cap {"entered"})
  BY DEF CloseWhile
<1>2. CASE ~Top.emitted
  <2>1. live' \subseteq live \cup Top.liveIn \cup Top.liveThen
    BY <1>1
  <2>. QED BY <1>1, <1>2, <2>1, SkippedEnds DEF CloseWhile
<1>3. CASE Top.emitted
  <2>1. PICK R : /\ Least(blocks, R) /\ Marks(blocks, R)
                 /\ Arrives(blocks, at, live, R) /\ StackPaths(blocks, frames, live, R)
    BY <1>1, OpenPaths
  <2>2. /\ Entered(Top, R) /\ Top.other \in 1..Len(blocks) /\ ~Top.hasElse
        /\ live \subseteq Top.liveIn
    BY <1>1, <1>3, <2>1, TopEntered
  <2>3. blocks' = BranchUnlessTerminated(blocks, at, Top.other) /\ at' = Top.end
    BY <1>3 DEF CloseWhile
  <2>4. "either" \in live => Top.other \in R
    BY <1>1, <1>3, <2>2 DEF Entered
  <2>5. R \cup (IF "either" \in live THEN {Top.other} ELSE {}) = R
    BY <2>4
  <2>6. Least(blocks', R) /\ Marks(blocks', R) /\ Fills(blocks, blocks')
    BY <1>1, <2>1, <2>2, <2>3, <2>4, <2>5, BranchReach
  <2>7. Top.end \in R <=> "either" \in live'
    BY <1>1, <1>3, <2>2 DEF Entered
  <2>8. live' \subseteq Top.liveIn
    BY <1>1, <2>2
  <2>. QED BY <1>1, <1>3, <2>1, <2>3, <2>6, <2>7, <2>8, EmittedEnds
<1>. QED BY <1>2, <1>3

\* The default return of the last block, where it is open.
LEMMA EndBodyPaths == ASSUME TypeOK, EmitInv, PathInv, EndBody PROVE PathInv'
<1>1. /\ verdict = "open" /\ verdict' # "open"
      /\ blocks' = IF Terminated(at) THEN blocks ELSE Add(blocks, at, Instr("default", {}))
  BY DEF EndBody, FinishBody
<1>2. PICK R : /\ Least(blocks, R) /\ Marks(blocks, R)
               /\ Arrives(blocks, at, live, R) /\ StackPaths(blocks, frames, live, R)
  BY <1>1, OpenPaths
<1>3. Least(blocks', R) /\ Marks(blocks', R)
  <2>1. CASE Terminated(at)
    BY <1>1, <1>2, <2>1
  <2>2. CASE ~Terminated(at)
    <3>1. PICK x \in Instruction : x = Instr("default", {})
      BY InstrTyped DEF Terminators
    <3>2. x.op = "default" /\ x.to = {} /\ (x.live <=> "either" \in live)
      BY <3>1 DEF Instr
    <3>3. at \in R <=> "either" \in live
      BY <1>2, <2>2, TerminatedMeans DEF Arrives
    <3>4. blocks \in Seq(Block) /\ at \in 1..Len(blocks)
      BY <1>1, WhileOpen
    <3>5. LET more == IF at \in R THEN x.to ELSE {} IN
          Least(Add(blocks, at, x), R \cup more) /\ Marks(Add(blocks, at, x), R \cup more)
      BY <1>2, <3>2, <3>3, <3>4, AddReach
    <3>6. R \cup (IF at \in R THEN x.to ELSE {}) = R
      BY <3>2
    <3>. QED BY <1>1, <2>2, <3>1, <3>5, <3>6
  <2>. QED BY <2>1, <2>2
<1>. QED BY <1>1, <1>3 DEF PathInv, Least, Closes, Marks

\* One empty block, the entry.
LEMMA EntryPaths ==
  ASSUME NEW bs, NEW fs, NEW lv, bs = << <<>> >>, fs = <<>>, lv = Reading
  PROVE  /\ Least(bs, {1}) /\ Marks(bs, {1})
         /\ Arrives(bs, 1, lv, {1}) /\ StackPaths(bs, fs, lv, {1})
<1>1. Len(bs) = 1 /\ bs[1] = <<>> /\ Len(bs[1]) = 0 /\ \A i \in 1..Len(fs) : FALSE
  OBVIOUS
<1>2. \A b \in 1..Len(bs) : b = 1 /\ \A k \in 1..Len(bs[b]) : FALSE
  BY <1>1
<1>3. Closes(bs, {1}) /\ \A S : Closes(bs, S) => {1} \subseteq S
  BY <1>2 DEF Closes
<1>4. Least(bs, {1})
  BY <1>1, <1>3 DEF Least
<1>5. Marks(bs, {1})
  BY <1>2 DEF Marks
<1>6. Arrives(bs, 1, lv, {1})
  BY DEF Arrives, Reading
<1>7. StackPaths(bs, fs, lv, {1})
  BY <1>1 DEF StackPaths, Shrinking, Conditions
<1>. QED BY <1>4, <1>5, <1>6, <1>7

LEMMA InitPathInv == Init => PathInv
BY EntryPaths DEF Init, PathInv

LEMMA PathStep == ASSUME IInv, PathInv, [Next]_vars PROVE PathInv'
<1>0. TypeOK /\ FlagInv /\ EmitInv
  BY DEF IInv
<1>1. ASSUME NEW typed \in BOOLEAN, Simple(typed) PROVE PathInv'
  BY <1>0, <1>1, SinglePaths DEF Simple, NextStatement
<1>2. ASSUME NEW typed \in BOOLEAN, Return(typed) PROVE PathInv'
  BY <1>0, <1>2, SinglePaths DEF Return, NextStatement
<1>3. CASE IllTypedCondition
  BY <1>3, StillPaths DEF IllTypedCondition, NextStatement
<1>4. CASE Throw
  BY <1>4 DEF Throw, PathInv
<1>5. CASE NextBody
  <2>1. /\ frames' = <<>> /\ blocks' = << <<>> >> /\ at' = 1 /\ verdict' = "open"
        /\ live' = Reading
    BY <1>0, <1>5 DEF NextBody, FlagInv
  <2>. QED BY <2>1, EntryPaths, PathsStep
<1>6. CASE UNCHANGED vars
  BY <1>6 DEF vars, PathInv, Least, Closes, Marks, Arrives, StackPaths, Entered, Shrinking, Conditions
<1>. QED BY <1>0, <1>1, <1>2, <1>3, <1>4, <1>5, <1>6, OpenIfPaths, StartElsePaths, CloseElsePaths,
            CloseIfPaths, OpenWhilePaths, CloseWhilePaths, EndBodyPaths
        DEF Next

-----------------------------------------------------------------------------
(* Reachable follows the branches from the entry, as often as there are    *)
(* blocks: it arrives at the least closed set.                             *)

LEMMA LeastNumber ==
  ASSUME NEW S \in SUBSET Nat, S # {}
  PROVE  \E n \in S : \A k \in S : n <= k
<1>1. PICK n \in S : \A k \in S : <<k, n>> \notin OpToRel(<, Nat)
  BY NatLessThanWellFounded, WFMin
<1>2. n \in Nat /\ \A k \in S : k \in Nat /\ ~(k < n)
  BY <1>1 DEF OpToRel
<1>. QED BY <1>2

Grown(S) == S \cup UNION {Successors(b) : b \in S}
Walk(w, N) == w = [n \in 0..N |-> IF n = 0 THEN {1} ELSE Grown(w[n - 1])]

LEMMA WalkSteps ==
  ASSUME NEW N \in Nat, NEW w, Walk(w, N)
  PROVE  w[0] = {1} /\ \A n \in 1..N : w[n] = Grown(w[n - 1])
<1>1. \A n \in 0..N : w[n] = IF n = 0 THEN {1} ELSE Grown(w[n - 1])
  BY DEF Walk
<1>2. 0 \in 0..N /\ \A n \in 1..N : n \in 0..N /\ n # 0
  OBVIOUS
<1>. QED BY <1>1, <1>2

LEMMA WalkExists == ASSUME NEW N \in Nat PROVE \E w : Walk(w, N)
<1> DEFINE S == {n \in Nat : ~\E w : Walk(w, n)}
<1>1. ASSUME S # {} PROVE FALSE
  <2>1. PICK n \in S : \A k \in S : n <= k
    <3>1. S \in SUBSET Nat
      OBVIOUS
    <3> HIDE DEF S
    <3>. QED BY <1>1, <3>1, LeastNumber
  <2>2. n \in Nat /\ ~\E w : Walk(w, n)
    OBVIOUS
  <2>3. CASE n = 0
    <3> DEFINE w == [k \in 0..0 |-> {1}]
    <3>1. \A k \in 0..0 : k = 0
      OBVIOUS
    <3>2. w = [k \in 0..0 |-> IF k = 0 THEN {1} ELSE Grown(w[k - 1])]
      BY <3>1
    <3>. QED BY <2>2, <2>3, <3>2 DEF Walk
  <2>4. CASE n # 0
    <3>1. n - 1 \in Nat /\ n - 1 \notin S
      BY <2>1, <2>2, <2>4
    <3>2. PICK v : Walk(v, n - 1)
      BY <3>1
    <3>3. v[0] = {1} /\ \A k \in 1..n - 1 : v[k] = Grown(v[k - 1])
      BY <3>1, <3>2, WalkSteps
    <3> DEFINE w == [k \in 0..n |-> IF k = n THEN Grown(v[n - 1]) ELSE v[k]]
    <3>4. ASSUME NEW k \in 0..n
          PROVE  w[k] = IF k = 0 THEN {1} ELSE Grown(w[k - 1])
      <4>1. CASE k = 0
        BY <2>2, <2>4, <3>3, <4>1
      <4>2. CASE k = n
        <5>1. k - 1 \in 0..n /\ k - 1 # n
          BY <2>2, <2>4, <4>2
        <5>. QED BY <2>4, <4>2, <5>1
      <4>3. CASE k # 0 /\ k # n
        <5>1. k \in 1..n - 1 /\ k - 1 \in 0..n /\ k - 1 # n
          BY <2>2, <4>3
        <5>. QED BY <3>3, <4>3, <5>1
      <4>. QED BY <4>1, <4>2, <4>3
    <3>5. w = [k \in 0..n |-> w[k]]
      OBVIOUS
    <3> HIDE DEF w
    <3>6. w = [k \in 0..n |-> IF k = 0 THEN {1} ELSE Grown(w[k - 1])]
      BY <3>4, <3>5
    <3>. QED BY <2>2, <3>6 DEF Walk
  <2>. QED BY <2>3, <2>4
<1>. QED BY <1>1

LEMMA ReachableWalks ==
  ASSUME Len(blocks) \in Nat
  PROVE  \E w : Walk(w, Len(blocks)) /\ Reachable = w[Len(blocks)]
<1> DEFINE w == CHOOSE w : Walk(w, Len(blocks))
<1>1. Walk(w, Len(blocks))
  BY WalkExists
<1>2. Reachable = w[Len(blocks)]
  BY DEF Reachable, Walk, Grown
<1>. QED BY <1>1, <1>2

\* A set is closed when following its branches adds nothing to it.
LEMMA ClosedGrown ==
  ASSUME NEW S \in SUBSET (1..Len(blocks)), 1 \in S
  PROVE  /\ Closes(blocks, S) => Grown(S) = S
         /\ Grown(S) = S => Closes(blocks, S)
<1>1. ASSUME Closes(blocks, S), NEW b \in S PROVE Successors(b) \subseteq S
  BY <1>1 DEF Closes, Successors
<1>2. Closes(blocks, S) => Grown(S) = S
  BY <1>1 DEF Grown
<1>3. ASSUME Grown(S) = S, NEW b \in S, NEW k \in 1..Len(blocks[b])
      PROVE  blocks[b][k].to \subseteq S
  <2>1. blocks[b][k].to \subseteq Successors(b)
    BY DEF Successors
  <2>2. Successors(b) \subseteq Grown(S)
    BY DEF Grown
  <2>. QED BY <1>3, <2>1, <2>2
<1>4. Grown(S) = S => Closes(blocks, S)
  BY <1>3 DEF Closes
<1>. QED BY <1>2, <1>4

\* The walk stays within the least closed set.
LEMMA WalkInside ==
  ASSUME NEW N \in Nat, NEW w, Walk(w, N), NEW R, Least(blocks, R)
  PROVE  \A n \in 0..N : 1 \in w[n] /\ w[n] \subseteq R
<1>1. w[0] = {1} /\ \A n \in 1..N : w[n] = Grown(w[n - 1])
  BY WalkSteps
<1>2. R \subseteq 1..Len(blocks) /\ Closes(blocks, R) /\ 1 \in R
  BY DEF Least, Closes
<1>3. Grown(R) = R
  BY <1>2, ClosedGrown
<1>4. ASSUME NEW S \in SUBSET R PROVE Grown(S) \subseteq R
  <2>1. Grown(S) \subseteq Grown(R)
    BY DEF Grown
  <2>. QED BY <1>3, <2>1
<1> DEFINE Bad == {n \in 0..N : ~(1 \in w[n] /\ w[n] \subseteq R)}
<1>5. ASSUME Bad # {} PROVE FALSE
  <2>1. PICK n \in Bad : \A k \in Bad : n <= k
    <3>1. Bad \in SUBSET Nat
      OBVIOUS
    <3> HIDE DEF Bad
    <3>. QED BY <1>5, <3>1, LeastNumber
  <2>2. n \in 0..N /\ ~(1 \in w[n] /\ w[n] \subseteq R)
    OBVIOUS
  <2>3. n # 0
    BY <1>1, <1>2, <2>2
  <2>4. n \in 1..N /\ n - 1 \in 0..N /\ n - 1 \notin Bad
    BY <2>1, <2>2, <2>3
  <2>5. 1 \in w[n - 1] /\ w[n - 1] \subseteq R
    BY <2>4
  <2>6. w[n] = Grown(w[n - 1])
    BY <1>1, <2>4
  <2>7. 1 \in Grown(w[n - 1])
    BY <2>5 DEF Grown
  <2>. QED BY <1>4, <2>2, <2>5, <2>6, <2>7
<1>. QED BY <1>5

\* Each step of the walk adds a block until nothing is left to add.
LEMMA WalkGrows ==
  ASSUME NEW N \in Nat, NEW w, Walk(w, N), NEW R, Least(blocks, R), Len(blocks) \in Nat
  PROVE  \A n \in 0..N : Closes(blocks, w[n]) \/ Cardinality(w[n]) >= n + 1
<1>1. w[0] = {1} /\ \A n \in 1..N : w[n] = Grown(w[n - 1])
  BY WalkSteps
<1>2. \A n \in 0..N : 1 \in w[n] /\ w[n] \in SUBSET (1..Len(blocks))
  BY WalkInside DEF Least
<1>3. IsFiniteSet(1..Len(blocks))
  BY FS_Interval
<1>4. \A n \in 0..N : IsFiniteSet(w[n]) /\ Cardinality(w[n]) \in Nat
  BY <1>2, <1>3, FS_Subset, FS_CardinalityType
<1> DEFINE Bad == {n \in 0..N : ~(Closes(blocks, w[n]) \/ Cardinality(w[n]) >= n + 1)}
<1>5. ASSUME Bad # {} PROVE FALSE
  <2>1. PICK n \in Bad : \A k \in Bad : n <= k
    <3>1. Bad \in SUBSET Nat
      OBVIOUS
    <3> HIDE DEF Bad
    <3>. QED BY <1>5, <3>1, LeastNumber
  <2>2. n \in 0..N /\ ~Closes(blocks, w[n]) /\ ~(Cardinality(w[n]) >= n + 1)
    OBVIOUS
  <2>3. n # 0
    <3>1. Cardinality({1}) = 1
      BY FS_Singleton
    <3>2. Cardinality(w[0]) = 1
      BY <1>1, <3>1, Zenon
    <3>. QED BY <2>2, <3>2
  <2>4. n \in 1..N /\ n - 1 \in 0..N /\ n - 1 \notin Bad
    BY <2>1, <2>2, <2>3
  <2>5. PICK S, T : S = w[n - 1] /\ T = w[n]
    OBVIOUS
  <2>6. T = Grown(S) /\ S \subseteq T
    BY <1>1, <2>4, <2>5 DEF Grown
  <2>7. 1 \in S /\ S \in SUBSET (1..Len(blocks))
    BY <1>2, <2>4, <2>5
  <2>8. S # T
    <3>1. Closes(blocks, S) => Closes(blocks, T)
      BY <2>6, <2>7, ClosedGrown
    <3>2. ~Closes(blocks, T)
      BY <2>2, <2>5
    <3>. QED BY <2>6, <2>7, <3>2, ClosedGrown
  <2>9. ~Closes(blocks, S)
    BY <2>6, <2>7, <2>8, ClosedGrown
  <2>10. Cardinality(S) >= n
    BY <2>4, <2>5, <2>9
  <2>11. Cardinality(S) <= Cardinality(T) /\ Cardinality(S) # Cardinality(T)
    BY <1>4, <2>2, <2>5, <2>6, <2>8, FS_Subset
  <2>12. Cardinality(S) \in Nat /\ Cardinality(T) \in Nat /\ ~(Cardinality(T) >= n + 1)
    BY <1>4, <2>2, <2>4, <2>5
  <2>. QED BY <2>2, <2>10, <2>11, <2>12
<1>. QED BY <1>5

LEMMA LeastIsReachable ==
  ASSUME Len(blocks) \in Nat, NEW R, Least(blocks, R)
  PROVE  R = Reachable
<1>1. PICK w : Walk(w, Len(blocks)) /\ Reachable = w[Len(blocks)]
  BY ReachableWalks
<1>2. Reachable \subseteq R
  BY <1>1, WalkInside
<1>3. ~(Cardinality(Reachable) >= Len(blocks) + 1)
  <2>1. IsFiniteSet(1..Len(blocks)) /\ Cardinality(1..Len(blocks)) = Len(blocks)
    BY FS_Interval
  <2>2. Reachable \in SUBSET (1..Len(blocks))
    BY <1>2 DEF Least
  <2>3. Cardinality(Reachable) <= Len(blocks) /\ Cardinality(Reachable) \in Nat
    BY <2>1, <2>2, FS_Subset, FS_CardinalityType
  <2>. QED BY <2>3
<1>4. Closes(blocks, Reachable)
  BY <1>1, <1>3, WalkGrows
<1>5. R \subseteq Reachable
  BY <1>4 DEF Least
<1>. QED BY <1>2, <1>5

LEMMA PathInvHolds == Spec => []PathInv
<1>1. IInv /\ PathInv /\ [Next]_vars => PathInv'
  BY PathStep
<1>. QED BY <1>1, InitPathInv, IInvHolds, PTL DEF Spec

\* In the finished graph of blocks, the code, the returns and the default return that can
\* be reached over the emitted branches are those that a path through the source reaches:
\* no branch of the emitter is missing and none goes to the wrong block.
THEOREM SourcePaths == Spec => []GraphHasSourcePaths
<1>1. IInv /\ PathInv => GraphHasSourcePaths
  <2> SUFFICES ASSUME IInv, PathInv, Finished PROVE GraphHasSourcePaths
    BY DEF GraphHasSourcePaths
  <2>1. PICK R : Least(blocks, R) /\ Marks(blocks, R)
    BY DEF PathInv, Finished
  <2>2. Len(blocks) \in Nat
    BY DEF IInv, TypeOK
  <2>3. R = Reachable
    BY <2>1, <2>2, LeastIsReachable
  <2>. QED BY <2>1, <2>3 DEF GraphHasSourcePaths, Marks
<1>. QED BY <1>1, IInvHolds, PathInvHolds, PTL
=============================================================================
