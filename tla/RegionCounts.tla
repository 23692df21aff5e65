---------------------------- MODULE RegionCounts ----------------------------
(***************************************************************************)
(* gen/pgo_ASTbased.cpp: which statements have a counter in a program that *)
(* is instrumented for profiling (MapRegionCounters), how often each       *)
(* statement was reached according to the counters (ComputeRegionCounts),  *)
(* and the weights the branches get when the profile is used.              *)
(*                                                                         *)
(* w is the ComputeRegionCounts visitor.  A counter is named by its        *)
(* statement.  CountMap is a function on the statements whose count has    *)
(* been recorded.                                                          *)
(***************************************************************************)
EXTENDS Statement, ProfileWeights, TLC

-----------------------------------------------------------------------------
(* MapRegionCounters *)

CountersOf(ast, p) ==
  LET k == At(ast, p).k
  IN  CASE k \in {"if", "do", "for", "label", "switch", "finally"} -> {p}
        [] k = "unrolled" -> {p} \cup {Append(p, i) : i \in DOMAIN At(ast, p).s}
        [] k \in {"case", "default"} -> {p} \cup (IF gototarget(ast, p) THEN {Ptr1(p)} ELSE {})
        [] k = "try" -> {p} \cup {CatchOf(Append(p, i + 1)) : i \in DOMAIN At(ast, p).a}
        [] OTHER -> {}

RegionCounterMap(ast) == {<<>>} \cup UNION {CountersOf(ast, p) : p \in Paths(ast)}

-----------------------------------------------------------------------------
(* ComputeRegionCounts *)

Visitor(ast, RegionCounts) ==
  [ast |-> ast, RegionCounts |-> RegionCounts, RecordNextStmtCount |-> FALSE, CurrentCount |-> 0,
   CountMap |-> <<>>, BreakContinueStack |-> <<>>, LoopLabels |-> <<>>]

getRegionCount(p, w) == w.RegionCounts[p]

setCount(n, w) == [w EXCEPT !.CurrentCount = Wrap(n)]

\* CountMap[p] = n
Count(p, n, w) == [w EXCEPT !.CountMap = (p :> Wrap(n)) @@ @]

RecordNext(w) == [w EXCEPT !.RecordNextStmtCount = TRUE]

RecordStmtCount(p, w) ==
  IF w.RecordNextStmtCount
  THEN [Count(p, w.CurrentCount, w) EXCEPT !.RecordNextStmtCount = FALSE] ELSE w

\* Mutation: the count goes on after the statement.
LeaveCounted(p, w) == RecordNext(RecordStmtCount(p, w))

\* A statement that control does not continue after.
Leave(p, w) == RecordNext(setCount(0, RecordStmtCount(p, w)))

push(w) == [w EXCEPT !.BreakContinueStack = Append(@, [BreakCount |-> 0, ContinueCount |-> 0])]
pop(w) == [w EXCEPT !.BreakContinueStack = Front(@)]

\* The entry of the stack for a jump to the label l, or without a label.
StackIndex(l, w) ==
  IF l = "" THEN Len(w.BreakContinueStack) ELSE w.LoopLabels[l]

countBreak(p, w) ==
  [w EXCEPT !.BreakContinueStack[StackIndex(At(w.ast, p).a, w)].BreakCount = Wrap(@ + w.CurrentCount)]

countContinue(p, w) ==
  [w EXCEPT !.BreakContinueStack[StackIndex(At(w.ast, p).a, w)].ContinueCount = Wrap(@ + w.CurrentCount)]

RECURSIVE recurse(_, _), recurseFrom(_, _, _)

\* The parts from the i-th on.
recurseFrom(p, i, w) ==
  IF i > Len(At(w.ast, p).s) THEN w
  ELSE With(recurse(Append(p, i), w), LAMBDA x : recurseFrom(p, i + 1, x))

recurseInto(p, w) == recurseFrom(p, 1, w)

countLabel(p, w) ==
  LET n == getRegionCount(p, w)
      at == Count(p, n, setCount(n, [w EXCEPT !.RecordNextStmtCount = FALSE]))
  IN  recurseInto(p, [at EXCEPT !.LoopLabels = (At(w.ast, p).a :> (Len(w.BreakContinueStack) + 1)) @@ @])

countUnrolledLoop(p, w) ==
  LET iteration(x, i) == recurse(Append(p, i), RecordNext(setCount(getRegionCount(Append(p, i), x), x)))
      done == Each(iteration, push(RecordStmtCount(p, w)), [i \in DOMAIN At(w.ast, p).s |-> i])
  IN  RecordNext(setCount(getRegionCount(p, w), pop(done)))

countDo(p, w) ==
  LET FallThroughCount == w.CurrentCount
      BodyCount == getRegionCount(p, w)
      body == recurse(Append(p, 1),
                Count(Append(p, 1), BodyCount, setCount(BodyCount, push(RecordStmtCount(p, w)))))
      BC == Last(body.BreakContinueStack)
      CondCount == Wrap(body.CurrentCount + BC.ContinueCount)
      LoopCount == Wrap(BodyCount - FallThroughCount)
  IN  RecordNext(setCount(BC.BreakCount + CondCount - LoopCount, Count(Cond(p), CondCount, pop(body))))

countFor(p, w) ==
  LET init == recurse(Append(p, 1), RecordStmtCount(p, w))
      ParentCount == init.CurrentCount
      BodyCount == getRegionCount(p, w)
      body == recurse(Append(p, 2), Count(Append(p, 2), BodyCount, setCount(BodyCount, push(init))))
      BC == Last(body.BreakContinueStack)
      IncCount == Wrap(body.CurrentCount + BC.ContinueCount)
      CondCount == Wrap(ParentCount + IncCount)
      counted == Count(IF At(w.ast, p).a = "cond" THEN Cond(p) ELSE Ptr1(p), CondCount,
                       Count(Incr(p), IncCount, pop(body)))
  IN  RecordNext(setCount(BC.BreakCount + CondCount - BodyCount, counted))

\* If the switch is inside a loop, the continue counts are added to it.
countSwitch(p, w) ==
  LET body == recurse(Append(p, 1), push(setCount(0, RecordStmtCount(p, w))))
      BC == Last(body.BreakContinueStack)
      popped == pop(body)
      n == Len(popped.BreakContinueStack)
      added == IF n = 0 THEN popped
               ELSE [popped EXCEPT !.BreakContinueStack[n].ContinueCount = Wrap(@ + BC.ContinueCount)]
  IN  RecordNext(setCount(getRegionCount(p, w), added))

\* Also for default.
countCase(p, w) ==
  LET CaseCount == getRegionCount(p, w)
      goto1 == getRegionCount(Ptr1(p), w)
      counted == Count(p, CaseCount, w)
  IN  recurseInto(p, RecordNext(IF gototarget(w.ast, p) THEN Count(Ptr1(p), goto1, setCount(goto1, counted))
                                ELSE setCount(w.CurrentCount + CaseCount, counted)))

countIf(p, w) ==
  LET ParentCount == w.CurrentCount
      ThenCount == getRegionCount(p, w)
      ElseCount == Wrap(ParentCount - ThenCount)
      then == recurse(Append(p, 1), Count(Append(p, 1), ThenCount, setCount(ThenCount, RecordStmtCount(p, w))))
      else == recurse(Append(p, 2), Count(Append(p, 2), ElseCount, setCount(ElseCount, then)))
  IN  RecordNext(setCount(then.CurrentCount + else.CurrentCount, else))

countTryCatch(p, w) ==
  LET body == recurse(Append(p, 1), RecordNext(RecordStmtCount(p, w)))
      handler(x, h) == recurse(h, RecordNext(setCount(getRegionCount(CatchOf(h), x), x)))
      done == Each(handler, body, [i \in DOMAIN At(w.ast, p).a |-> Append(p, i + 1)])
  IN  RecordNext(setCount(getRegionCount(p, w), done))

countTryFinally(p, w) ==
  LET body == recurse(Append(p, 1), RecordNext(RecordStmtCount(p, w)))
      final == recurse(Append(p, 2), RecordNext(setCount(w.CurrentCount, body)))
  IN  RecordNext(setCount(getRegionCount(p, w), final))

recurse(p, w) ==
  LET k == At(w.ast, p).k
  IN  CASE k \in {"seq", "scope"} -> recurseInto(p, w)
        [] k \in {"call", "var"}  -> w
        [] k \in {"return", "throw", "goto", "gotocase", "gotodefault"} -> Leave(p, w)
        [] k = "break"    -> Leave(p, countBreak(p, w))
        [] k = "continue" -> Leave(p, countContinue(p, w))
        [] k = "label"    -> countLabel(p, w)
        [] k = "unrolled" -> countUnrolledLoop(p, w)
        [] k = "do"       -> countDo(p, w)
        [] k = "for"      -> countFor(p, w)
        [] k = "switch"   -> countSwitch(p, w)
        [] k \in {"case", "default"} -> countCase(p, w)
        [] k = "if"       -> countIf(p, w)
        [] k = "try"      -> countTryCatch(p, w)
        [] k = "finally"  -> countTryFinally(p, w)

\* The CountMap for the counters of a profile.
computeRegionCounts(ast, RegionCounts) ==
  LET BodyCount == RegionCounts[<<>>]
      w == Visitor(ast, RegionCounts)
  IN  recurse(<<>>, Count(<<>>, BodyCount, setCount(BodyCount, w))).CountMap

-----------------------------------------------------------------------------
(* The use of the counts when code is generated *)

\* Mutation: p itself does not become the current statement.
CurrentRegionCountStale(p, log, CountMap) ==
  LET i == Min({j \in DOMAIN log : log[j] = p})
      known == {j \in 1..(i - 1) : log[j] \in DOMAIN CountMap}
  IN  IF known = {} THEN 0 ELSE CountMap[log[Max(known)]]

\* CurrentRegionCount once p has become the current statement: the count of
\* the last statement, in the order log of code generation, that has one.
CurrentRegionCount(p, log, CountMap) ==
  LET i == Min({j \in DOMAIN log : log[j] = p})
      known == {j \in 1..i : log[j] \in DOMAIN CountMap}
  IN  IF known = {} THEN 0 ELSE CountMap[log[Max(known)]]

weightsOfIf(p, RegionCounts, current) ==
  createProfileWeights(<<RegionCounts[p], Wrap(current - RegionCounts[p])>>)

weightsOfDo(p, RegionCounts, CountMap, current) ==
  createProfileWeightsLoop(CountMap[Cond(p)], Wrap(RegionCounts[p] - current))

weightsOfFor(p, RegionCounts, CountMap) ==
  createProfileWeightsLoop(IF Cond(p) \in DOMAIN CountMap THEN CountMap[Cond(p)] ELSE CountMap[Ptr1(p)],
                           RegionCounts[p])

\* First the default, then the cases.
weightsOfSwitchInst(ast, p, RegionCounts) ==
  LET targets == <<DefaultOf(ast, p)>> \o Cases(ast, p)
  IN  createProfileWeights([i \in DOMAIN targets |-> RegionCounts[targets[i]]])

\* failedCompareCount before the i-th comparison of the br chain.
failedCompareCount(cases, i, RegionCounts, incoming) ==
  FoldLeft(LAMBDA n, c : Wrap(n - RegionCounts[c]), incoming, SubSeq(cases, 1, i - 1))

\* The weights of the i-th comparison.
weightsOfCompare(cases, i, RegionCounts, incoming) ==
  createProfileWeights(<<RegionCounts[cases[i]], failedCompareCount(cases, i + 1, RegionCounts, incoming)>>)
=============================================================================
