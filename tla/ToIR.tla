-------------------------------- MODULE ToIR --------------------------------
(***************************************************************************)
(* gen/statements.cpp, ToIRVisitor: the code of a statement, with the      *)
(* counters of an instrumented build and the lifetimes of variables.       *)
(*                                                                         *)
(* Beyond branches, the instructions are                                   *)
(*   val e        evaluate the condition or switch value e                 *)
(*   cbr          branch on that value                                     *)
(*   switch, cmp  branch on that value, by the case values x               *)
(*   call, invoke, throw                                                   *)
(*   inc c        increment the counter c                                  *)
(*   start v, end v   the lifetime of the variable v                       *)
(*   enter        _d_eh_enter_catch                                        *)
(***************************************************************************)
EXTENDS TryCatchFinally

-----------------------------------------------------------------------------
(* CodeGenPGO and LocalVariableLifetimeAnnotator *)

\* The statements in the order in which they become the current one.
setCurrentStmt(p, g) == [g EXCEPT !.log = Append(@, p)]

emitCounterIncrement(c, g) == Emit(I("inc", c, <<>>), g)

pushScope(g) == [g EXCEPT !.lifetimes = Append(@, <<>>)]

addLocalVariable(v, g) ==
  IF g.lifetimes = <<>> THEN g
  ELSE Emit(I("start", v, <<>>), [g EXCEPT !.lifetimes[Len(g.lifetimes)] = Append(@, v)])

\* Mutation: the variables of the outermost scope end.
popScopeOutermost(g) ==
  IF g.lifetimes = <<>> THEN g
  ELSE [Each(LAMBDA x, v : Emit(I("end", v, <<>>), x), g, Head(g.lifetimes))
          EXCEPT !.lifetimes = Front(@)]

popScope(g) ==
  IF g.lifetimes = <<>> THEN g
  ELSE [Each(LAMBDA x, v : Emit(I("end", v, <<>>), x), g, Last(g.lifetimes))
          EXCEPT !.lifetimes = Front(@)]

-----------------------------------------------------------------------------
(* Leaf statements *)

Value(e, g) == Emit(I("val", e, <<>>), g)

CondBr(s, t, g) == Emit(I("cbr", "", <<s, t>>), g)

\* insertBB and SetInsertPoint: code that nothing falls into.
Dummy(g) == SetInsertPoint(NewBB(g), WithBB(g))

visitReturn(p, g0) ==
  LET g == setCurrentStmt(p, g0)
      shared == IF g.retBlock # 0 THEN g ELSE [WithBB(g) EXCEPT !.retBlock = NewBB(g)]
      left == SetInsertPoint(shared.retBlock, runCleanups(0, shared.retBlock, shared))
  IN  IF currentCleanupScope(g) = 0 THEN Dummy(Emit(I("ret", "", <<>>), g))
      ELSE IF g.retBlock = 0 THEN Dummy(Emit(I("ret", "", <<>>), left))
      ELSE Dummy(left)

visitExp(p, g) ==
  LET s == At(g.ast, p)
      h == setCurrentStmt(p, g)
  IN  IF s.k = "var" THEN addLocalVariable(p, h) ELSE callOrInvoke("call", p, s.a = "nothrow", h)

visitThrow(p, g) ==
  Dummy(Emit(I("unreachable", "", <<>>), callOrInvoke("throw", p, FALSE, setCurrentStmt(p, g))))

visitBreak(p, g) ==
  IF scopereturned(g) THEN setCurrentStmt(p, g)
  ELSE Dummy(jumpTo(g.breakTargets, Labelled(g.ast, At(g.ast, p).a), setCurrentStmt(p, g)))

visitContinue(p, g) ==
  Dummy(jumpTo(g.continueTargets, Labelled(g.ast, At(g.ast, p).a), setCurrentStmt(p, g)))

visitGoto(p, g) == Dummy(jumpToLabel(At(g.ast, p).a, setCurrentStmt(p, g)))

\* Also visitGotoDefault: the block is there already then.
visitGotoCase(p, g) ==
  LET c == JumpsTo(g.ast, p)
      h == WithSwitchTarget(c, setCurrentStmt(p, g))
  IN  Dummy(Emit(Br(h.switchTargets[c]), h))

-----------------------------------------------------------------------------
(* Statements with parts *)

RECURSIVE Statement_toIR(_, _), visitFrom(_, _, _), visitIterations(_, _, _, _)

\* F of the state after the code of p has been generated.
After(p, g, F(_)) == With(Statement_toIR(p, g), F)

\* The parts of the compound or scope statement p from the i-th on.
visitFrom(p, i, g) ==
  IF i <= Len(At(g.ast, p).s) THEN After(Append(p, i), g, LAMBDA x : visitFrom(p, i + 1, x))
  ELSE IF At(g.ast, p).k = "scope" THEN popScope(g) ELSE g

visitCompound(p, g) == visitFrom(p, 1, setCurrentStmt(p, g))

visitScope(p, g) == visitFrom(p, 1, pushScope(setCurrentStmt(p, g)))

\* Is there a label, or a case of a switch that is around s?
RECURSIVE containsLabel(_, _)
containsLabel(s, insideSwitch) ==
  \/ s.k = "label"
  \/ s.k \in {"case", "default"} /\ ~insideSwitch
  \/ \E i \in DOMAIN s.s : containsLabel(s.s[i], insideSwitch \/ s.k = "switch")

\* The branch i of the if statement is all there is of it.
ElidedIf(p, i, g) ==
  Statement_toIR(Append(p, i), IF At(g.ast, p).a = "true" THEN emitCounterIncrement(p, g) ELSE g)

visitIf(p, g0) ==
  LET s == At(g0.ast, p)
      executed == IF s.a = "true" THEN 1 ELSE 2
      g == pushScope(setCurrentStmt(p, g0))
      ifbb == NewBB(g)
      elsebb == ifbb + 1
      endbb == ifbb + 2
      branched == CondBr(ifbb, elsebb, IF s.a = "dyn" THEN Value(p, WithBB(WithBB(WithBB(g))))
                                       ELSE Emit(I("const", s.a, <<>>), WithBB(WithBB(WithBB(g)))))
      then == emitCounterIncrement(p, SetInsertPoint(ifbb, branched))
      else(x) == SetInsertPoint(elsebb, BranchUnlessReturned(endbb, x))
      end(x) == popScope(SetInsertPoint(endbb, BranchUnlessReturned(endbb, x)))
  IN  IF s.a # "dyn" /\ ~containsLabel(s.s[3 - executed], FALSE)
      THEN ElidedIf(p, executed, g)
      ELSE After(Append(p, 1), then, LAMBDA x : After(Append(p, 2), else(x), end))

visitDo(p, g0) ==
  LET g == setCurrentStmt(p, g0)
      dowhilebb == NewBB(g)
      condbb == dowhilebb + 1
      endbb == dowhilebb + 2
      entered == pushLoopTarget(p, condbb, endbb,
                   SetInsertPoint(dowhilebb, Emit(Br(dowhilebb), WithBB(WithBB(WithBB(g))))))
      cond(x) == Value(Cond(p), SetInsertPoint(condbb, Emit(Br(condbb), popLoopTarget(x))))
  IN  After(Append(p, 1), emitCounterIncrement(p, entered),
            LAMBDA x : SetInsertPoint(endbb, CondBr(dowhilebb, endbb, cond(x))))

visitFor(p, g0) ==
  LET g == pushScope(setCurrentStmt(p, g0))
      forbb == NewBB(g)
      forbodybb == forbb + 1
      forincbb == forbb + 2
      endbb == forbb + 3
      loop(x) == SetInsertPoint(forbb, pushLoopTarget(p, forincbb, endbb, Emit(Br(forbb), x)))
      cond(x) == IF At(g.ast, p).a = "cond" THEN Value(Cond(p), x) ELSE Emit(I("const", "true", <<>>), x)
      body(x) == emitCounterIncrement(p, SetInsertPoint(forbodybb, CondBr(forbodybb, endbb, x)))
      inc(x) == callOrInvoke("call", Incr(p), FALSE, SetInsertPoint(forincbb, BranchUnlessReturned(forincbb, x)))
      end(x) == popScope(SetInsertPoint(endbb, popLoopTarget(BranchUnlessReturned(forbb, x))))
  IN  After(Append(p, 1), WithBB(WithBB(WithBB(WithBB(g)))), LAMBDA x :
        After(Append(p, 2), body(cond(loop(x))), LAMBDA y : end(inc(y))))

visitTryFinally(p, g0) ==
  LET g == setCurrentStmt(p, g0)
      finallybb == NewBB(g)
      successbb == finallybb + 1
      cleanupBefore == currentCleanupScope(g)
      body(x) == SetInsertPoint(g.bb, pushCleanup(finallybb, x.bb, x))
      success(x) == emitCounterIncrement(p, SetInsertPoint(successbb, runCleanups(cleanupBefore, successbb, x)))
      end(x) == popCleanups(cleanupBefore, IF scopereturned(g) THEN x ELSE success(x))
  IN  After(Append(p, 2), SetInsertPoint(finallybb, WithBB(WithBB(g))), LAMBDA x :
        After(Append(p, 1), body(x), end))

\* The body of the catch with the handler h.
CatchBody(h, endbb, g) ==
  LET enter == Emit(I("enter", "", <<>>), emitCounterIncrement(CatchOf(h), Dummy(g)))
  IN  After(h, enter, LAMBDA x : BranchUnlessReturned(endbb, x))

\* emitCatchBodies: catchBlocks so far, and the state.
emitCatchBodies(p, endbb, g) ==
  LET s == At(g.ast, p)
  IN  Each(LAMBDA x, i : [g |-> CatchBody(Append(p, i + 1), endbb, x.g),
                              catchBlocks |-> Append(x.catchBlocks, [type |-> s.a[i], bb |-> NewBB(x.g)])],
               [g |-> setCurrentStmt(p, g), catchBlocks |-> <<>>], [i \in DOMAIN s.a |-> i])

visitTryCatch(p, g) ==
  LET endbb == NewBB(g)
      catchesNonExceptions == "Throwable" \in Range(At(g.ast, p).a)
      caught == emitCatchBodies(p, endbb, WithBB(g))
      scoped == pushTryCatch(caught.catchBlocks, catchesNonExceptions, caught.g)
  IN  After(Append(p, 1), SetInsertPoint(g.bb, scoped), LAMBDA x :
        emitCounterIncrement(p, SetInsertPoint(endbb, popTryCatch(BranchUnlessReturned(endbb, x)))))

\* A block that counts the jumps from the switch to the case c, and goes there.
CountedTarget(c, g) ==
  EmitIn(NewBB(g), Br(g.switchTargets[c]), EmitIn(NewBB(g), I("inc", c, <<>>), WithBB(g)))

\* One comparison of the br chain.
CheckCase(c, g) ==
  SetInsertPoint(NewBB(g) + 1,
    Emit(I("cmp", At(g.ast, c).a, <<NewBB(g), NewBB(g) + 1>>), WithBB(CountedTarget(c, g))))

visitSwitch(p, g0) ==
  LET g == setCurrentStmt(p, g0)
      bodybb == NewBB(g)
      endbb == bodybb + 1
      cases == Cases(g.ast, p)
      sdefault == DefaultOf(g.ast, p)
      body == pushBreakTarget(p, endbb, SetInsertPoint(bodybb, WithSwitchTarget(sdefault, WithBB(WithBB(g)))))
      value(x) == Value(p, SetInsertPoint(g.bb, BranchUnlessReturned(endbb, popBreakTarget(x))))
      \* the counter of default comes first, those of the cases follow
      inst(x) == Emit(I("switch", Map(LAMBDA c : At(g.ast, c).a, cases),
                        [i \in 1..(Len(cases) + 1) |-> NewBB(x) + i - 1]),
                      Each(LAMBDA y, c : CountedTarget(c, y), x, <<sdefault>> \o cases))
      chain(x) == LET nextbb == NewBB(x)
                      first == CountedTarget(sdefault, Emit(Br(nextbb), WithBB(x)))
                  IN  Emit(Br(nextbb + 1), Each(LAMBDA y, c : CheckCase(c, y), SetInsertPoint(nextbb, first), cases))
      end(x) == emitCounterIncrement(p, SetInsertPoint(endbb, IF At(g.ast, p).a = "inst" THEN inst(x) ELSE chain(x)))
  IN  After(Append(p, 1), body, LAMBDA x : With(value(x), end))

\* Also visitDefault.
visitCase(p, g0) ==
  LET g == WithSwitchTarget(p, setCurrentStmt(p, g0))
      body == g.switchTargets[p]
      reached == SetInsertPoint(body, BranchUnlessReturned(body, g))
  IN  Statement_toIR(Append(p, 1), IF gototarget(g.ast, p) THEN emitCounterIncrement(Ptr1(p), reached) ELSE reached)

\* The iterations from the i-th on; the block of each follows endbb.
visitIterations(p, i, endbb, g) ==
  LET n == Len(At(g.ast, p).s)
      nextbb == IF i = n THEN endbb ELSE endbb + i + 1
      at == pushLoopTarget(p, nextbb, endbb, SetInsertPoint(endbb + i, g))
      end(x) == BranchUnlessReturned(nextbb, popLoopTarget(x))
  IN  IF i > n THEN emitCounterIncrement(p, SetInsertPoint(endbb, g))
      ELSE After(Append(p, i), emitCounterIncrement(Append(p, i), at), LAMBDA x : visitIterations(p, i + 1, endbb, end(x)))

visitUnrolledLoop(p, g0) ==
  LET g == setCurrentStmt(p, g0)
      n == Len(At(g.ast, p).s)
      endbb == NewBB(g)
      created == [g EXCEPT !.code = @ \o [i \in 1..(n + 1) |-> <<>>]]
  IN  IF n = 0 THEN g ELSE visitIterations(p, 1, endbb, BranchUnlessReturned(endbb + 1, created))

visitLabel(p, g0) ==
  LET g == setCurrentStmt(p, g0)
      labelBB == NewBB(g)
      reached == BranchUnlessReturned(labelBB, addLabelTarget(At(g.ast, p).a, labelBB, WithBB(g)))
  IN  Statement_toIR(Append(p, 1), emitCounterIncrement(p, SetInsertPoint(labelBB, reached)))

Statement_toIR(p, g) ==
  LET k == At(g.ast, p).k
  IN  CASE k = "seq"       -> visitCompound(p, g)
        [] k = "scope"     -> visitScope(p, g)
        [] k \in {"call", "var"} -> visitExp(p, g)
        [] k = "return"    -> visitReturn(p, g)
        [] k = "throw"     -> visitThrow(p, g)
        [] k = "break"     -> visitBreak(p, g)
        [] k = "continue"  -> visitContinue(p, g)
        [] k = "goto"      -> visitGoto(p, g)
        [] k \in {"gotocase", "gotodefault"} -> visitGotoCase(p, g)
        [] k = "if"        -> visitIf(p, g)
        [] k = "do"        -> visitDo(p, g)
        [] k = "for"       -> visitFor(p, g)
        [] k = "try"       -> visitTryCatch(p, g)
        [] k = "finally"   -> visitTryFinally(p, g)
        [] k = "switch"    -> visitSwitch(p, g)
        [] k \in {"case", "default"} -> visitCase(p, g)
        [] k = "unrolled"  -> visitUnrolledLoop(p, g)
        [] k = "label"     -> visitLabel(p, g)

\* DtoDefineFunction: the counter of the body, the body, and a return at the end.
DtoDefineFunction(fbody) ==
  LET entry == setCurrentStmt(<<>>, emitCounterIncrement(<<>>, FuncGenState(fbody)))
      g == Statement_toIR(<<>>, entry)
  IN  IF scopereturned(g) THEN g ELSE Emit(I("ret", "", <<>>), g)
=============================================================================
