------------------------------ MODULE DInterpret ------------------------------
(***************************************************************************)
(* dmd.dinterpret: how statements are interpreted at compile time (CTFE).  *)
(*                                                                         *)
(* st is the InterState with the result of interpretStatement and the      *)
(* world of the function: in holds the outcomes of the expressions still   *)
(* to be evaluated, out the expressions evaluated so far, and entered the  *)
(* statements that were entered, one entry for each time.  When in is used *)
(* up the interpretation ends with cantexp, as it does for an expression   *)
(* that cannot be evaluated.                                               *)
(*                                                                         *)
(* A goto is a result that bubbles up to a statement that looks for the    *)
(* target: start is set and the statements are gone through again, without *)
(* effect until the one that is start is found.                            *)
(***************************************************************************)
EXTENDS Statement

Result(k) == [k |-> k, x |-> ""]
null == Result("null")
Thrown(type) == [k |-> "thrown", x |-> type]

InterState(ast, in) ==
  [ast |-> ast, start |-> none, gotoTarget |-> none, result |-> null,
   in |-> in, out |-> <<>>, entered |-> <<>>]

exceptionOrCant(st) == st.result.k \in {"thrown", "cant"}

\* interpret() of the expression e.
evaluate(e, st) ==
  IF st.in = <<>>
  THEN [st EXCEPT !.out = Append(@, e), !.result = Result("cant")]
  ELSE [st EXCEPT !.out = Append(@, e), !.in = Tail(@),
                  !.result = [k |-> "value", x |-> Head(st.in)]]

\* A call: it returns, or throws.
evaluateCall(e, st) ==
  LET v == evaluate(e, st)
  IN  IF v.result.k = "cant" THEN v
      ELSE [v EXCEPT !.result = IF @.x = "ok" THEN null ELSE Thrown(@.x)]

\* The beginning of every visit function: is this where to start?
Reach(p, st) ==
  LET there == st.start \in {none, p}
  IN  [st EXCEPT !.start = IF there THEN none ELSE @, !.result = null,
                 !.entered = IF there THEN Append(@, p) ELSE @]

Jump(kind, target, st) == [st EXCEPT !.gotoTarget = target, !.result = Result(kind)]

\* A break or continue that has reached the statement p: is it for another one?
Higher(p, st) == st.gotoTarget \notin {none, p}

\* It is for p.
Here(st) == [st EXCEPT !.gotoTarget = none, !.result = null]

\* The end of visitSwitch.
LeaveSwitch(p, st) == IF st.result.k = "break" /\ ~Higher(p, st) THEN Here(st) ELSE st

RECURSIVE interpretStatement(_, _, _), visitUnrolledLoop(_, _, _, _), iterateDo(_, _, _),
          iterateFor(_, _, _), Resume(_, _, _), scanHandlers(_, _, _, _), interpretBody(_, _), visitCompound(_, _, _, _)

\* From the i-th statement on.
visitCompound(s, p, i, st) ==
  IF i > Len(s.s) \/ st.result # null THEN st
  ELSE With(interpretStatement(s.s[i], Append(p, i), st), LAMBDA x : visitCompound(s, p, i + 1, x))

visitUnrolledLoop(s, p, i, st) ==
  IF i > Len(s.s) THEN st
  ELSE LET x == interpretStatement(s.s[i], Append(p, i), st)
       IN  IF x.result = null THEN visitUnrolledLoop(s, p, i + 1, x)
           ELSE IF x.result.k = "break" /\ ~Higher(p, x) THEN Here(x)
           ELSE IF x.result.k = "continue" /\ ~Higher(p, x) THEN visitUnrolledLoop(s, p, i + 1, Here(x))
           ELSE x

visitIf(s, p, st) ==
  IF st.start # none
  THEN LET x == interpretStatement(s.s[1], Append(p, 1), st)
       IN  IF x.result = null /\ x.start # none
           THEN interpretStatement(s.s[2], Append(p, 2), x) ELSE x
  ELSE IF s.a # "dyn" THEN LET i == IF s.a = "true" THEN 1 ELSE 2
                           IN  interpretStatement(s.s[i], Append(p, i), st)
  ELSE LET v == evaluate(p, st)
           i == IF v.result.x = "true" THEN 1 ELSE 2
       IN  IF exceptionOrCant(v) THEN v ELSE interpretStatement(s.s[i], Append(p, i), v)

\* One turn of the loop in visitDo.
iterateDo(s, p, st) ==
  LET x == interpretStatement(s.s[1], Append(p, 1), st)
      y == IF x.result.k = "continue" /\ ~Higher(p, x) THEN Here(x) ELSE x
      v == evaluate(Cond(p), y)
  IN  IF x.result = null /\ x.start # none THEN x
      ELSE IF y.result.k = "break" /\ ~Higher(p, y) THEN Here(y)
      ELSE IF y.result # null THEN y
      ELSE IF exceptionOrCant(v) THEN v
      ELSE IF v.result.x = "false" THEN Here(v)
      ELSE iterateDo(s, p, Here(v))

\* One turn of the loop in visitFor.
iterateFor(s, p, st) ==
  LET v == IF s.a = "cond" /\ st.start = none THEN evaluate(Cond(p), st) ELSE st
      x == interpretStatement(s.s[2], Append(p, 2), [v EXCEPT !.result = null])
      y == IF x.result.k = "continue" /\ ~Higher(p, x) THEN Here(x) ELSE x
      i == evaluateCall(Incr(p), y)
  IN  IF exceptionOrCant(v) THEN v
      ELSE IF v.result.x = "false" THEN [v EXCEPT !.result = null]
      ELSE IF x.result = null /\ x.start # none THEN x
      ELSE IF y.result.k = "break" /\ ~Higher(p, y) THEN Here(y)
      ELSE IF y.result # null THEN y
      ELSE IF exceptionOrCant(i) THEN i
      ELSE iterateFor(s, p, i)

visitFor(s, p, st) ==
  LET x == interpretStatement(s.s[1], Append(p, 1), st)
  IN  IF exceptionOrCant(x) THEN x ELSE iterateFor(s, p, x)

\* The case to go to for the value v.
scase(ast, p, v) ==
  IF \E q \in CasesOf(ast, p) : At(ast, q).a = v THEN CaseOf(ast, p, v) ELSE DefaultOf(ast, p)

visitSwitch(s, p, st) ==
  IF st.start # none
  THEN LeaveSwitch(p, interpretStatement(s.s[1], Append(p, 1), st))
  ELSE LET v == evaluate(p, st)
           c == scase(v.ast, p, v.result.x)
       IN  IF exceptionOrCant(v) THEN v
           ELSE LeaveSwitch(p, interpretStatement(s.s[1], Append(p, 1),
                                 [v EXCEPT !.start = c, !.entered = Append(@, Cond(c))]))

\* The loop that follows a goto out of the statement s: while the target is in
\* s, s is gone on with there.
Resume(s, p, st) ==
  LET x == interpretStatement(s, p, [st EXCEPT !.start = st.gotoTarget, !.gotoTarget = none])
  IN  IF st.result.k # "goto" \/ x.start # none THEN st ELSE Resume(s, p, x)

\* visitTryCatch with the start somewhere inside.
scanHandlers(s, p, i, st) ==
  IF i > Len(s.s) \/ st.result # null \/ st.start = none THEN st
  ELSE scanHandlers(s, p, i + 1, interpretStatement(s.s[i], Append(p, i), st))

visitTryCatch(s, p, st) ==
  IF st.start # none THEN scanHandlers(s, p, 1, st)
  ELSE LET x == interpretStatement(s.s[1], Append(p, 1), st)
           I == {i \in DOMAIN s.a : Catches(s.a[i], x.result.x)}
           h == Min(I) + 1
       IN  IF x.result.k # "thrown" \/ I = {} THEN x
           ELSE Resume(s.s[h], Append(p, h), interpretStatement(s.s[h], Append(p, h), x))

visitTryFinally(s, p, st) ==
  IF st.start # none THEN interpretStatement(s.s[1], Append(p, 1), st)
  ELSE LET x == Resume(s.s[1], Append(p, 1), interpretStatement(s.s[1], Append(p, 1), st))
           y == interpretStatement(s.s[2], Append(p, 2), x)
       IN  IF x.result.k = "cant" THEN x
           ELSE IF y.result.k = "cant" THEN y
           ELSE IF y.result.k = "thrown" /\ x.result.k # "thrown" THEN y
           ELSE [y EXCEPT !.result = x.result]

interpretStatement(s, p, st0) ==
  LET st == Reach(p, st0)
      leaf == st.start # none   \* not where to start, and nothing inside is
  IN  CASE s.k \in {"seq", "scope", "label", "case", "default"} -> visitCompound(s, p, 1, st)
        [] s.k = "unrolled" -> visitUnrolledLoop(s, p, 1, st)
        [] s.k = "if"       -> visitIf(s, p, st)
        [] s.k = "do"       -> iterateDo(s, p, st)
        [] s.k = "for"      -> visitFor(s, p, st)
        [] s.k = "switch"   -> visitSwitch(s, p, st)
        [] s.k = "try"      -> visitTryCatch(s, p, st)
        [] s.k = "finally"  -> visitTryFinally(s, p, st)
        [] leaf \/ s.k = "var" -> st
        [] ~leaf /\ s.k = "call" -> evaluateCall(p, st)
        [] ~leaf /\ s.k = "throw" -> [st EXCEPT !.result = Thrown(s.a)]
        [] ~leaf /\ s.k = "return" -> [st EXCEPT !.result = Result("return")]
        [] ~leaf /\ s.k \in {"break", "continue"} -> Jump(s.k, Labelled(st.ast, s.a), st)
        [] ~leaf /\ s.k = "goto" -> Jump("goto", LabelOf(st.ast, s.a), st)
        [] ~leaf /\ s.k \in {"gotocase", "gotodefault"} -> Jump("goto", JumpsTo(st.ast, p), st)

\* The loop around the body in interpretFunction.
interpretBody(fbody, st) ==
  LET x == interpretStatement(fbody, <<>>, st)
  IN  IF x.start # none THEN [x EXCEPT !.result = Result("error")]
      ELSE IF x.result.k = "goto"
      THEN interpretBody(fbody, [x EXCEPT !.start = x.gotoTarget, !.gotoTarget = none])
      ELSE x

interpretFunction(fbody, in) == interpretBody(fbody, InterState(fbody, in))
=============================================================================
