----------------------------- MODULE ControlFlow -----------------------------
(***************************************************************************)
(* A method or constructor body on its way through two walks of the same   *)
(* statements: class_method_checker, which decides with one flag whether   *)
(* the method returns on all code paths, and llvm_codegen, which lays the  *)
(* statements out in basic blocks.  One action is one event of the walk:   *)
(* a simple statement, a return, the start, the middle and the end of an   *)
(* if or while.  The statements are chosen as the walk goes, so the runs   *)
(* cover every body of at most MaxStatements statements nested at most     *)
(* MaxDepth deep.                                                          *)
(*                                                                         *)
(* A statement may be ill typed.  The checker then reports it and goes on, *)
(* or throws out of the body; either way the program is rejected in the    *)
(* end, so the blocks then stand for nothing.                              *)
(***************************************************************************)
EXTENDS Naturals, Sequences, FiniteSets

CONSTANTS MaxStatements,  \* bound on the statements of a body
          MaxDepth        \* bound on the nesting of its statements

ASSUME BoundsAssumption == MaxStatements \in Nat /\ MaxDepth \in Nat

VARIABLES kind,     \* "method", or "constructor" (no verdict on its returns)
          frames,   \* the if and while statements being visited, innermost last
          returns,  \* class_method_checker::definitely_returns
          blocks,   \* the basic blocks of current_function: block 1 is entry
          at,       \* the builder's insert block
          verdict,  \* "open" while the body is walked, then the checker's answer
          failed,   \* class_method_checker::error_message is not empty
          size,     \* statements so far
          live,     \* reference: the readings under which a path gets here
          dead,     \* reference: a statement was written where no "entered" path gets
          afterThrow  \* history: an exception left the body before this one

vars == <<kind, frames, returns, blocks, at, verdict, failed, size, live, dead,
          afterThrow>>

(***************************************************************************)
(* The reference semantics follows paths.  A condition may have either     *)
(* value.  Under the reading "either" that goes for loop conditions too;   *)
(* under "entered" the body of a loop runs at least once.                  *)
(***************************************************************************)
Reading == {"either", "entered"}

Instr(op, to) == [op |-> op, to |-> to, live |-> "either" \in live]
Terminators == {"br", "ret", "default"}

Instruction == [op : {"code"} \cup Terminators, to : SUBSET Nat, live : BOOLEAN]
Frame == [stmt : {"then", "else", "while"}, hasElse : BOOLEAN, emitted : BOOLEAN,
          thenReturns : BOOLEAN, other : Nat, end : Nat,
          liveIn : SUBSET Reading, liveThen : SUBSET Reading]

Init ==
  /\ kind \in {"method", "constructor"}
  /\ frames = <<>>
  /\ returns = FALSE
  /\ blocks = << <<>> >> /\ at = 1
  /\ verdict = "open" /\ failed = FALSE
  /\ size = 0
  /\ live = Reading /\ dead = FALSE /\ afterThrow = FALSE

-----------------------------------------------------------------------------
(* The builder. *)

\* BasicBlock::getTerminator: the last instruction, if it is a terminator.
Terminated(b) ==
  blocks[b] # <<>> /\ blocks[b][Len(blocks[b])].op \in Terminators

Top == frames[Len(frames)]
Opened == frames # <<>>

\* visit(block) stops after an item that leaves the insert block terminated: what
\* follows in that block is not emitted, nor anything nested in what follows.
Skipping == \/ Opened /\ ~Top.emitted
            \/ Terminated(at)

Add(bs, b, i) == [bs EXCEPT ![b] = Append(@, i)]
BranchUnlessTerminated(bs, b, to) ==
  IF Terminated(b) THEN bs ELSE Add(bs, b, Instr("br", {to}))

Push(f) == Append(frames, f)
Pop     == SubSeq(frames, 1, Len(frames) - 1)

NextStatement ==
  /\ verdict = "open" /\ size < MaxStatements
  /\ size' = size + 1
  /\ dead' = (dead \/ "entered" \notin live)

CanNest == Len(frames) < MaxDepth

-----------------------------------------------------------------------------
(* The events of the walk. *)

\* A variable declaration, an assignment or an expression statement.
Simple(typed) ==
  /\ NextStatement
  /\ failed' = (failed \/ ~typed)
  /\ blocks' = IF Skipping THEN blocks ELSE Add(blocks, at, Instr("code", {}))
  /\ UNCHANGED <<kind, frames, returns, at, verdict, live, afterThrow>>

\* The flag is set before the value is looked at.
Return(typed) ==
  /\ NextStatement
  /\ returns' = TRUE
  /\ failed' = (failed \/ ~typed)
  /\ blocks' = IF Skipping THEN blocks ELSE Add(blocks, at, Instr("ret", {}))
  /\ live' = {}
  /\ UNCHANGED <<kind, frames, at, verdict, afterThrow>>

\* An if or while whose condition is not Boolean is reported and not visited.
IllTypedCondition ==
  /\ NextStatement
  /\ failed' = TRUE
  /\ UNCHANGED <<kind, frames, returns, blocks, at, verdict, live, afterThrow>>

\* Inferring a type or declaring a variable twice throws out of the body, past
\* the reset of the flag.  In a return statement the flag is already set.
Throw ==
  /\ NextStatement
  /\ returns' \in {returns, TRUE}
  /\ frames' = <<>>
  /\ verdict' = "thrown" /\ failed' = TRUE
  /\ UNCHANGED <<kind, blocks, at, live, afterThrow>>

\* The frame of a statement whose blocks come after the first n ones.
NewFrame(stmt, hasElse, other, end) ==
  [stmt |-> stmt, hasElse |-> hasElse, emitted |-> ~Skipping, thenReturns |-> FALSE,
   other |-> other, end |-> end, liveIn |-> live, liveThen |-> {}]

\* Blocks if.then, if.else and if.end are n + 1, n + 2 and n + 3.
SplitIf(hasElse, falseEdge) ==
  /\ NextStatement /\ CanNest
  /\ LET n == Len(blocks) IN
     /\ frames' = Push(NewFrame("then", hasElse, n + 2, n + 3))
     /\ IF Skipping THEN UNCHANGED <<blocks, at>>
        ELSE /\ blocks' = Add(blocks, at, Instr("br", {n + 1, n + falseEdge}))
                            \o << <<>>, <<>>, <<>> >>
             /\ at' = n + 1
  /\ UNCHANGED <<kind, returns, verdict, failed, live, afterThrow>>

\* Mutant: the false edge skips the else branch.
OpenIf_ToEnd(hasElse) == SplitIf(hasElse, 3)

\* All three blocks are created whether or not there is an else branch; without
\* one the false edge goes to if.end.
OpenIf(hasElse) == SplitIf(hasElse, IF hasElse THEN 2 ELSE 3)

\* Mutant: the flag of the then branch is not kept.
StartElse_ThenForgotten ==
  /\ verdict = "open" /\ Opened /\ Top.stmt = "then" /\ Top.hasElse
  /\ frames' = [frames EXCEPT ![Len(frames)] =
       [@ EXCEPT !.stmt = "else", !.liveThen = live]]
  /\ returns' = FALSE
  /\ IF Top.emitted
     THEN /\ blocks' = BranchUnlessTerminated(blocks, at, Top.end)
          /\ at' = Top.other
     ELSE UNCHANGED <<blocks, at>>
  /\ live' = Top.liveIn
  /\ UNCHANGED <<kind, verdict, failed, size, dead, afterThrow>>

\* Mutant: the insert point is not moved to if.else.
StartElse_SameBlock ==
  /\ verdict = "open" /\ Opened /\ Top.stmt = "then" /\ Top.hasElse
  /\ frames' = [frames EXCEPT ![Len(frames)] =
       [@ EXCEPT !.stmt = "else", !.thenReturns = returns, !.liveThen = live]]
  /\ returns' = FALSE
  /\ blocks' = IF Top.emitted THEN BranchUnlessTerminated(blocks, at, Top.end) ELSE blocks
  /\ live' = Top.liveIn
  /\ UNCHANGED <<kind, at, verdict, failed, size, dead, afterThrow>>

\* then_returns = std::exchange(definitely_returns, false)
StartElse ==
  /\ verdict = "open" /\ Opened /\ Top.stmt = "then" /\ Top.hasElse
  /\ frames' = [frames EXCEPT ![Len(frames)] =
       [@ EXCEPT !.stmt = "else", !.thenReturns = returns, !.liveThen = live]]
  /\ returns' = FALSE
  /\ IF Top.emitted
     THEN /\ blocks' = BranchUnlessTerminated(blocks, at, Top.end)
          /\ at' = Top.other
     ELSE UNCHANGED <<blocks, at>>
  /\ live' = Top.liveIn
  /\ UNCHANGED <<kind, verdict, failed, size, dead, afterThrow>>

MergeElse(merged) ==
  /\ verdict = "open" /\ Opened /\ Top.stmt = "else"
  /\ returns' = merged
  /\ IF Top.emitted
     THEN /\ blocks' = BranchUnlessTerminated(blocks, at, Top.end)
          /\ at' = Top.end
     ELSE UNCHANGED <<blocks, at>>
  /\ live' = Top.liveThen \cup live
  /\ frames' = Pop
  /\ UNCHANGED <<kind, verdict, failed, size, dead, afterThrow>>

\* Mutant: one returning branch is enough.
CloseElse_Either == MergeElse(Top.thenReturns \/ returns)

CloseElse == MergeElse(Top.thenReturns /\ returns)

\* Mutant: the unused if.else block is left without a branch.
CloseIf_ElseOpen ==
  /\ verdict = "open" /\ Opened /\ Top.stmt = "then" /\ ~Top.hasElse
  /\ returns' = FALSE
  /\ IF Top.emitted
     THEN /\ blocks' = BranchUnlessTerminated(blocks, at, Top.end)
          /\ at' = Top.end
     ELSE UNCHANGED <<blocks, at>>
  /\ live' = live \cup Top.liveIn
  /\ frames' = Pop
  /\ UNCHANGED <<kind, verdict, failed, size, dead, afterThrow>>

\* Without an else branch else_returns stays false, and the if.else block, which
\* nothing branches to, still gets its branch to if.end.
CloseIf ==
  /\ verdict = "open" /\ Opened /\ Top.stmt = "then" /\ ~Top.hasElse
  /\ returns' = FALSE
  /\ IF Top.emitted
     THEN /\ blocks' = Add(BranchUnlessTerminated(blocks, at, Top.end),
                           Top.other, Instr("br", {Top.end}))
          /\ at' = Top.end
     ELSE UNCHANGED <<blocks, at>>
  /\ live' = live \cup Top.liveIn
  /\ frames' = Pop
  /\ UNCHANGED <<kind, verdict, failed, size, dead, afterThrow>>

\* Mutant: while.end is not created.
OpenWhile_NoEnd ==
  /\ NextStatement /\ CanNest
  /\ LET n == Len(blocks) IN
     /\ frames' = Push(NewFrame("while", FALSE, n + 1, n + 3))
     /\ IF Skipping THEN UNCHANGED <<blocks, at>>
        ELSE /\ blocks' = Add(blocks, at, Instr("br", {n + 1}))
                            \o << <<Instr("br", {n + 2, n + 3})>>, <<>> >>
             /\ at' = n + 2
  /\ UNCHANGED <<kind, returns, verdict, failed, live, afterThrow>>

\* while.cond, which gets the branch on the condition, is n + 1; while.body is
\* n + 2 and while.end n + 3.
OpenWhile ==
  /\ NextStatement /\ CanNest
  /\ LET n == Len(blocks) IN
     /\ frames' = Push(NewFrame("while", FALSE, n + 1, n + 3))
     /\ IF Skipping THEN UNCHANGED <<blocks, at>>
        ELSE /\ blocks' = Add(blocks, at, Instr("br", {n + 1}))
                            \o << <<Instr("br", {n + 2, n + 3})>>, <<>>, <<>> >>
             /\ at' = n + 2
  /\ UNCHANGED <<kind, returns, verdict, failed, live, afterThrow>>

\* The checker leaves the flag as the body left it.
CloseWhile ==
  /\ verdict = "open" /\ Opened /\ Top.stmt = "while"
  /\ IF Top.emitted
     THEN /\ blocks' = BranchUnlessTerminated(blocks, at, Top.other)
          /\ at' = Top.end
     ELSE UNCHANGED <<blocks, at>>
  /\ live' = (Top.liveIn \cap {"either"}) \cup (live \cap {"entered"})
  /\ frames' = Pop
  /\ UNCHANGED <<kind, returns, verdict, failed, size, dead, afterThrow>>

FinishBody(flagAfter) ==
  /\ verdict = "open" /\ frames = <<>>
  /\ verdict' = IF kind = "constructor" \/ returns THEN "accepted" ELSE "rejected"
  /\ failed' = (failed \/ verdict' = "rejected")
  /\ returns' = flagAfter
  /\ blocks' = IF Terminated(at) THEN blocks ELSE Add(blocks, at, Instr("default", {}))
  /\ UNCHANGED <<kind, frames, at, size, live, dead, afterThrow>>

\* The checker reads and clears the flag; the emitter ends an open last block
\* with a default return (void, or the null value of the return type).
EndBody == FinishBody(FALSE)

\* Both walks go on to another body: the checker's flag is not initialised again.
NextBody ==
  /\ verdict # "open"
  /\ kind' \in {"method", "constructor"}
  /\ blocks' = << <<>> >> /\ at' = 1
  /\ verdict' = "open"
  /\ size' = 0
  /\ live' = Reading /\ dead' = FALSE
  /\ afterThrow' = (verdict = "thrown")
  /\ UNCHANGED <<frames, returns, failed>>

Next == \/ \E typed \in BOOLEAN : Simple(typed) \/ Return(typed)
        \/ IllTypedCondition \/ Throw
        \/ \E hasElse \in BOOLEAN : OpenIf(hasElse)
        \/ StartElse \/ CloseElse \/ CloseIf
        \/ OpenWhile \/ CloseWhile
        \/ EndBody \/ NextBody

Spec == Init /\ [][Next]_vars

-----------------------------------------------------------------------------

TypeOK ==
  /\ kind \in {"method", "constructor"}
  /\ frames \in Seq(Frame)
  /\ returns \in BOOLEAN
  /\ blocks \in Seq(Seq(Instruction)) /\ at \in 1..Len(blocks)
  /\ \A k \in 1..Len(frames) : frames[k].emitted =>
       {frames[k].other, frames[k].end} \subseteq 1..Len(blocks)
  /\ verdict \in {"open", "accepted", "rejected", "thrown"} /\ failed \in BOOLEAN
  /\ size \in 0..MaxStatements
  /\ live \in SUBSET Reading /\ dead \in BOOLEAN /\ afterThrow \in BOOLEAN

Finished == verdict \in {"accepted", "rejected"}

\* The LLVM module is never run through its verifier, so this must come out of the
\* emitter: every block ends in a terminator and has no other one before.
BlocksWellFormed ==
  Finished => \A b \in 1..Len(blocks) :
    /\ Terminated(b)
    /\ \A k \in 1..Len(blocks[b]) - 1 : blocks[b][k].op \notin Terminators

\* What the emitter leaves out could never run.
DropsOnlyDeadCode == verdict = "open" /\ Skipping => live = {}

\* The blocks reachable from the entry block over the emitted branches.
Successors(b) == UNION {blocks[b][k].to : k \in 1..Len(blocks[b])}
Reachable ==
  LET within[n \in 0..Len(blocks)] ==
        IF n = 0 THEN {1}
        ELSE LET before == within[n - 1]
             IN  before \cup UNION {Successors(b) : b \in before}
  IN  within[Len(blocks)]

\* The graph of blocks has exactly the paths of the statements: emitted code, a
\* return, or the default return can be reached in it when and only when a path
\* through the source gets there.
GraphHasSourcePaths ==
  Finished => LET reachable == Reachable IN
    \A b \in 1..Len(blocks) : \A k \in 1..Len(blocks[b]) :
      blocks[b][k].op # "br" => (b \in reachable <=> blocks[b][k].live)

\* An accepted method cannot run off its end if its loops are entered, whatever errors
\* were found in it or in earlier bodies: the flag is set and merged soundly, and nothing
\* of one body is left in it when the next is checked.  The exception is the body right
\* after one that an exception left, past the reset of the flag
\* (class-method-checker.cpp:68): no body after that is touched by it.
AcceptedReturnsIfLoopsRun ==
  verdict = "accepted" /\ ~afterThrow /\ kind = "method" => "entered" \notin live

\* In a body where every statement can be reached with the loops entered, the
\* checker rejects only what can run off its end.
RejectedCanFallOff ==
  verdict = "rejected" /\ ~dead => "entered" \in live

\* "Method '{}' does not return on all code paths" (class-method-checker.cpp:69):
\* a method that is accepted returns on all of them.
AcceptedReturnsOnAllPaths ==
  verdict = "accepted" /\ ~failed /\ kind = "method" => "either" \notin live
=============================================================================
