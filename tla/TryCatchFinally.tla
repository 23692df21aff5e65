--------------------------- MODULE TryCatchFinally ---------------------------
(***************************************************************************)
(* gen/trycatchfinally.cpp and gen/funcgenstate.cpp: how the code of a     *)
(* function leaves scopes that have cleanups, by a jump or by an exception *)
(* (landing pads; not the MSVC variant).                                   *)
(*                                                                         *)
(* g is the state of the code generator for one function.  A basic block   *)
(* is a sequence of instructions, named by its index in g.code; g.bb is    *)
(* where instructions are inserted.  An instruction is a record of its     *)
(* operation, an operand x and the blocks t it may continue with.  Each    *)
(* cleanup is generated once, and a variable, the branch selector, tells   *)
(* at its end where to continue.  The selector of a cleanup is named by    *)
(* the block the cleanup begins with.                                      *)
(***************************************************************************)
EXTENDS Statement, TLC

I(op, x, t) == [op |-> op, x |-> x, t |-> t]
Br(b) == I("br", "", <<b>>)

\* A call that is an invoke has two blocks.
IsTerminator(i) ==
  \/ i.op \in {"br", "cbr", "select", "typeid", "resume", "ret", "switch", "cmp", "unreachable"}
  \/ i.op \in {"call", "throw"} /\ i.t # <<>>

FuncGenState(ast) ==
  [ast |-> ast, code |-> << <<>> >>, bb |-> 1,
   tryCatchScopes |-> <<>>, cleanupScopes |-> <<>>,
   unresolvedGotos |-> << <<>> >>, landingPads |-> << <<>> >>,
   breakTargets |-> <<>>, continueTargets |-> <<>>, labelTargets |-> <<>>,
   switchTargets |-> <<>>, retBlock |-> 0, resumeUnwindBlock |-> 0,
   lifetimes |-> <<>>, log |-> <<>>]

\* insertBB: NewBB(g) is the block that WithBB adds.
WithBB(g) == [g EXCEPT !.code = Append(@, <<>>)]
NewBB(g) == Len(g.code) + 1

SetInsertPoint(b, g) == [g EXCEPT !.bb = b]
Emit(i, g) == [g EXCEPT !.code[g.bb] = Append(@, i)]
EmitIn(b, i, g) == [g EXCEPT !.code[b] = Append(@, i)]

scopereturned(g) == g.code[g.bb] # <<>> /\ IsTerminator(Last(g.code[g.bb]))

\* A branch to b, unless the block has its terminator already.
BranchUnlessReturned(b, g) == IF scopereturned(g) THEN g ELSE Emit(Br(b), g)

\* Before the terminator of b.
EmitBeforeEnd(b, i, g) == [g EXCEPT !.code[b] = Front(@) \o <<i, Last(@)>>]

\* The sequence of the F(x).
Map(F(_), s) == <<>> \o [i \in DOMAIN s |-> F(s[i])]

replaceAllUsesWith(old, new, g) ==
  LET target(b) == IF b = old THEN new ELSE b
      instruction(i) == [i EXCEPT !.t = Map(target, i.t)]
      block(b) == Map(instruction, b)
  IN  [g EXCEPT !.code = Map(block, g.code)]

currentCleanupScope(g) == Len(g.cleanupScopes)

-----------------------------------------------------------------------------
(* CleanupScope *)

CleanupScope(begin, end) == [begin |-> begin, end |-> end, selects |-> FALSE, exitTargets |-> <<>>]

ExitTarget(b, sources) == [branchTarget |-> b, sourceBlocks |-> sources]

\* Mutation: the sources of the first exit target keep no selector value.
AddBranchSelectorNoStores(i, g) ==
  LET c == g.cleanupScopes[i]
  IN  IF c.selects THEN g
      ELSE [g EXCEPT
              !.code[c.end] = Append(Front(@), I("select", c.begin, <<c.exitTargets[1].branchTarget>>)),
              !.cleanupScopes[i].selects = TRUE]

\* The selector is introduced: the sources known so far choose the first target.
AddBranchSelector(i, g) ==
  LET c == g.cleanupScopes[i]
      stores == Each(LAMBDA h, b : EmitBeforeEnd(b, I("store", <<c.begin, 0>>, <<>>), h),
                         g, c.exitTargets[1].sourceBlocks)
  IN  IF c.selects THEN g
      ELSE [stores EXCEPT
              !.code[c.end] = Append(Front(@), I("select", c.begin, <<c.exitTargets[1].branchTarget>>)),
              !.cleanupScopes[i].selects = TRUE]

\* The cleanup i, entered from source, has to continue with next.
run(i, source, next, g) ==
  LET c == g.cleanupScopes[i]
      targets == c.exitTargets
      known == {k \in DOMAIN targets : targets[k].branchTarget = next}
      k == IF known = {} THEN Len(targets) + 1 ELSE Min(known)
      \* the k-th exit target has one more source
      noted == [g EXCEPT !.cleanupScopes[i].exitTargets =
                  IF known = {} THEN Append(@, ExitTarget(next, <<source>>))
                                ELSE [@ EXCEPT ![k].sourceBlocks = Append(@, source)]]
      selecting == EmitBeforeEnd(source, I("store", <<c.begin, k - 1>>, <<>>), AddBranchSelector(i, noted))
  IN  IF targets = <<>> THEN EmitIn(c.end, Br(next), noted)
      ELSE IF Len(targets) = 1 /\ known # {} THEN noted
      ELSE IF known # {} THEN selecting
      ELSE [selecting EXCEPT !.code[c.end] = [@ EXCEPT ![Len(g.code[c.end])].t = Append(@, next)]]

-----------------------------------------------------------------------------
(* TryCatchFinallyScopes *)

pushCleanup(begin, end, g) ==
  [g EXCEPT !.cleanupScopes = Append(@, CleanupScope(begin, end)),
            !.unresolvedGotos = Append(@, <<>>), !.landingPads = Append(@, <<>>)]

\* The goto j leaves the cleanup i: its branches go to the cleanup, which
\* continues with the tentative target.  0 is the placeholder.
LeaveBy(i, j, g) ==
  replaceAllUsesWith(0, g.cleanupScopes[i].begin,
    run(i, j.sourceBlock, j.tentativeTarget, replaceAllUsesWith(j.tentativeTarget, 0, g)))

\* The innermost cleanup ends.
popCleanup(g) ==
  LET i == currentCleanupScope(g)
      gotos == Last(g.unresolvedGotos)
  IN  With(Each(LAMBDA x, j : LeaveBy(i, j, x), g, gotos),
           LAMBDA h : [h EXCEPT !.cleanupScopes = Front(@), !.landingPads = Front(@),
                                !.unresolvedGotos = [Front(@) EXCEPT ![i] = @ \o gotos]])

popCleanups(target, g) ==
  Each(LAMBDA x, i : popCleanup(x), g, [i \in 1..(currentCleanupScope(g) - target) |-> i])

\* Branch to next, by way of the cleanups target + 1 .. source, innermost first.
runCleanupsFrom(source, target, next, g) ==
  IF source = target THEN Emit(Br(next), g)
  ELSE Each(LAMBDA x, i : run(i, x.bb, IF i > target + 1 THEN x.cleanupScopes[i - 1].begin ELSE next, x),
                Emit(Br(g.cleanupScopes[source].begin), g),
                [i \in 1..(source - target) |-> source - i + 1])

runCleanups(target, next, g) == runCleanupsFrom(currentCleanupScope(g), target, next, g)

registerUnresolvedGoto(l, g) ==
  LET target == NewBB(g)
      jump == [sourceBlock |-> g.bb, tentativeTarget |-> target, targetLabel |-> l]
  IN  [Emit(Br(target), WithBB(g)) EXCEPT !.unresolvedGotos[Len(g.unresolvedGotos)] = Append(@, jump)]

tryResolveGotos(l, b, g) ==
  LET resolved == SelectSeq(Last(g.unresolvedGotos), LAMBDA j : j.targetLabel = l)
      h == Each(LAMBDA x, j : replaceAllUsesWith(j.tentativeTarget, b, x), g, resolved)
  IN  [h EXCEPT !.unresolvedGotos[Len(g.unresolvedGotos)] = SelectSeq(@, LAMBDA j : j.targetLabel # l)]

-----------------------------------------------------------------------------
(* Landing pads *)

getOrCreateResumeUnwindBlock(g) ==
  IF g.resumeUnwindBlock # 0 THEN g
  ELSE [EmitIn(NewBB(g), I("resume", "", <<>>), WithBB(g)) EXCEPT !.resumeUnwindBlock = NewBB(g)]

\* The pad compares the selector of the unwinder with a type.
CatchBlock(c, g) ==
  SetInsertPoint(NewBB(g), Emit(I("typeid", c.type, <<c.bb, NewBB(g)>>), WithBB(g)))

\* The cleanups from last on that are inside the scope that has target of them.
PadCleanups(last, target, g) ==
  IF last = target THEN g
  ELSE SetInsertPoint(NewBB(g), runCleanupsFrom(last, target, NewBB(g), WithBB(g)))

\* The catches of one scope, after the cleanups that are inside it.
PadScope(last, tc, g) ==
  Each(LAMBDA x, c : CatchBlock(c, x), PadCleanups(last, tc.cleanupScope, g), tc.catchBlocks)

emitLandingPad(g0) ==
  LET n == Len(g0.tryCatchScopes)
      scopes == Reverse(g0.tryCatchScopes)
      begin == NewBB(g0)
      clauses == FlattenSeq([k \in 1..n |-> [j \in DOMAIN scopes[k].catchBlocks |-> scopes[k].catchBlocks[j].type]])
      pad == I("landingpad", [clauses |-> clauses, cleanup |-> currentCleanupScope(g0) > 0], <<>>)
      lastCleanup(k) == IF k = 0 THEN currentCleanupScope(g0) ELSE scopes[k].cleanupScope
      caught == Each(LAMBDA x, k : PadScope(lastCleanup(k - 1), scopes[k], x),
                     Emit(pad, SetInsertPoint(begin, WithBB(g0))), [k \in 1..n |-> k])
      done(g) == IF lastCleanup(n) > 0 THEN runCleanupsFrom(lastCleanup(n), 0, g.resumeUnwindBlock, g)
                 ELSE IF n > 0 THEN replaceAllUsesWith(g.bb, g.resumeUnwindBlock, g)
                 ELSE Emit(Br(g.resumeUnwindBlock), g)
  IN  With(getOrCreateResumeUnwindBlock(caught), LAMBDA g : [done(g) EXCEPT !.bb = g0.bb])

\* The landing pad of the current scopes, emitted when it is first needed: 0
\* stands for one that is not there yet.
WithLandingPad(g) ==
  LET pads == Last(g.landingPads)
      h == [emitLandingPad(g) EXCEPT !.landingPads[Len(g.landingPads)] =
              IF @ = <<>> THEN <<NewBB(g)>> ELSE Append(Front(@), NewBB(g))]
  IN  IF pads = <<>> \/ Last(pads) = 0 THEN h ELSE g

getLandingPad(g) == Last(Last(g.landingPads))

\* Only once its catch bodies have been emitted is the scope registered.
pushTryCatch(catchBlocks, catchesNonExceptions, g) ==
  [g EXCEPT !.tryCatchScopes = Append(@, [cleanupScope |-> currentCleanupScope(g),
                                          catchBlocks |-> catchBlocks,
                                          catchesNonExceptions |-> catchesNonExceptions]),
            !.landingPads[Len(g.landingPads)] = Append(@, 0)]

popTryCatch(g) ==
  [g EXCEPT !.tryCatchScopes = Front(@), !.landingPads[Len(g.landingPads)] = Front(@)]

isCatchingNonExceptions(g) == \E k \in DOMAIN g.tryCatchScopes : g.tryCatchScopes[k].catchesNonExceptions

-----------------------------------------------------------------------------
(* FuncGenState *)

\* The call of x: op is "call", or "throw" for _d_throw_exception.
callOrInvoke(op, x, nothrow, g) ==
  IF \/ nothrow /\ ~isCatchingNonExceptions(g)
     \/ g.tryCatchScopes = <<>> /\ g.cleanupScopes = <<>>
  THEN Emit(I(op, x, <<>>), g)
  ELSE With(WithLandingPad(g),
            LAMBDA h : SetInsertPoint(NewBB(h), Emit(I(op, x, <<NewBB(h), getLandingPad(h)>>), WithBB(h))))

JumpTarget(b, stmt, g) == [targetBlock |-> b, cleanupScope |-> currentCleanupScope(g), targetStatement |-> stmt]

pushBreakTarget(stmt, b, g) == [g EXCEPT !.breakTargets = Append(@, JumpTarget(b, stmt, g))]
popBreakTarget(g) == [g EXCEPT !.breakTargets = Front(@)]

pushLoopTarget(stmt, continueBB, breakBB, g) ==
  [pushBreakTarget(stmt, breakBB, g) EXCEPT !.continueTargets = Append(@, JumpTarget(continueBB, stmt, g))]
popLoopTarget(g) == [popBreakTarget(g) EXCEPT !.continueTargets = Front(@)]

addLabelTarget(l, b, g) ==
  tryResolveGotos(l, b, [g EXCEPT !.labelTargets = (l :> JumpTarget(b, none, g)) @@ @])

jumpToLabel(l, g) ==
  IF l \in DOMAIN g.labelTargets
  THEN runCleanups(g.labelTargets[l].cleanupScope, g.labelTargets[l].targetBlock, g)
  ELSE registerUnresolvedGoto(l, g)

\* jumpToStatement, and jumpToClosest for none
jumpTo(targets, stmt, g) ==
  LET i == Max({k \in DOMAIN targets : stmt \in {none, targets[k].targetStatement}})
  IN  runCleanups(targets[i].cleanupScope, targets[i].targetBlock, g)

\* SwitchCaseTargets::getOrCreate: then g.switchTargets[stmt] is the block.
WithSwitchTarget(stmt, g) ==
  IF stmt \in DOMAIN g.switchTargets THEN g
  ELSE [WithBB(g) EXCEPT !.switchTargets = (stmt :> NewBB(g)) @@ @]
=============================================================================
