------------------------------- MODULE CodeGen -------------------------------
(***************************************************************************)
(* The code that ToIR generates for a function is run, with every possible *)
(* outcome of the expressions it evaluates, and compared with what the     *)
(* compile-time interpreter does for the same outcomes.                    *)
(*                                                                         *)
(* m is the machine: the block and the position in it, the value of the    *)
(* last condition, the branch selectors that have been stored, the slots   *)
(* of the exception and of its selector, whether an exception is on its    *)
(* way, the variables that are alive, and the profile counters.  m.status  *)
(* says why it does not go on: it waits for the outcome of m.at, has       *)
(* returned, has thrown, or is stuck.                                      *)
(*                                                                         *)
(* A finally block that runs because of an exception throws no other one.  *)
(***************************************************************************)
EXTENDS ToIR, RegionCounts

CONSTANTS Programs,       \* function bodies, by name
          Exceptions,     \* the types of exceptions that calls throw
          MaxEvents       \* how many expressions are evaluated at most

CTFE == INSTANCE DInterpret

VARIABLES prog,    \* the name of the function
          code,    \* what has been generated for it
          m, trace
vars == <<prog, code, m, trace>>

body == Programs[prog]

-----------------------------------------------------------------------------
(* The machine *)

Start(c) ==
  [bb |-> 1, i |-> 1, status |-> "run", at |-> none, v |-> "", sel |-> <<>>, eh |-> "", ehSel |-> "",
   unwinding |-> FALSE, live |-> {}, counts |-> [k \in RegionCounterMap(c.ast) |-> 0]]

Goto(b, x) == [x EXCEPT !.bb = b, !.i = 1]
Halt(status, x) == [x EXCEPT !.status = status]

\* The unwinder and the personality routine: an exception of type e reaches a
\* call with the landing pad b, or without one.
Unwind(c, pad, e, x) ==
  LET l == Head(c.code[pad]).x
      matching == {k \in DOMAIN l.clauses : Catches(l.clauses[k], e)}
      thrown == [Halt("thrown", x) EXCEPT !.eh = e]
      selector == IF matching = {} THEN "" ELSE l.clauses[Min(matching)]
  IN  IF pad = 0 THEN thrown
      ELSE IF matching = {} /\ ~l.cleanup THEN thrown
      ELSE [Goto(pad, x) EXCEPT !.i = 2, !.eh = e, !.ehSel = selector, !.unwinding = TRUE]

\* The landing pad of the call i.
PadOf(i) == IF i.t = <<>> THEN 0 ELSE i.t[2]

\* One instruction that needs no outcome.
Execute(c, i, x) ==
  LET next == [x EXCEPT !.i = @ + 1]
  IN  CASE i.op = "br" -> Goto(i.t[1], x)
        [] i.op = "cbr" -> Goto(IF x.v = "true" THEN i.t[1] ELSE i.t[2], x)
        [] i.op = "const" -> [next EXCEPT !.v = i.x]
        [] i.op = "switch" -> Goto(IF x.v \in Range(i.x) THEN i.t[1 + CHOOSE k \in DOMAIN i.x : i.x[k] = x.v]
                                   ELSE i.t[1], x)
        [] i.op = "cmp" -> Goto(IF x.v = i.x THEN i.t[1] ELSE i.t[2], x)
        [] i.op = "store" -> [next EXCEPT !.sel = (i.x[1] :> i.x[2]) @@ @]
        [] i.op = "select" -> IF i.x \notin DOMAIN x.sel \/ x.sel[i.x] >= Len(i.t) THEN Halt("stuck", x)
                              ELSE Goto(i.t[x.sel[i.x] + 1], x)
        [] i.op = "typeid" -> Goto(IF x.ehSel = i.x THEN i.t[1] ELSE i.t[2], x)
        [] i.op = "throw" -> Unwind(c, PadOf(i), At(c.ast, i.x).a, x)
        [] i.op = "resume" -> Halt("thrown", x)
        [] i.op = "ret" -> Halt("returned", x)
        [] i.op = "inc" -> [next EXCEPT !.counts[i.x] = @ + 1]
        [] i.op = "start" -> [next EXCEPT !.live = @ \cup {i.x}]
        [] i.op = "end" -> [next EXCEPT !.live = @ \ {i.x}]
        [] i.op = "enter" -> [next EXCEPT !.unwinding = FALSE]
        [] i.op \in {"val", "call"} -> [Halt("waits", x) EXCEPT !.at = i.x]
        [] i.op \in {"unreachable", "landingpad"} -> Halt("stuck", x)

RECURSIVE Advance(_, _)
Advance(c, x) ==
  IF x.status # "run" THEN x
  ELSE IF x.i > Len(c.code[x.bb]) THEN Halt("stuck", x)
  ELSE Advance(c, Execute(c, c.code[x.bb][x.i], x))

\* The machine goes on with the outcome o.
Continue(c, x, o) ==
  LET i == c.code[x.bb][x.i]
      run1 == Halt("run", x)
  IN  IF i.op = "val" THEN [run1 EXCEPT !.v = o, !.i = @ + 1]
      ELSE IF o # "ok" THEN Unwind(c, PadOf(i), o, run1)
      ELSE IF i.t = <<>> THEN [run1 EXCEPT !.i = @ + 1]
      ELSE Goto(i.t[1], run1)

\* What evaluating e can result in.
Outcomes(ast, e, unwinding) ==
  IF Last(e) = -1 THEN {"ok"}
  ELSE IF Last(e) = 0 THEN {"true", "false"}
  ELSE LET s == At(ast, e)
       IN  CASE s.k = "if" -> {"true", "false"}
             [] s.k = "switch" -> {At(ast, p).a : p \in CasesOf(ast, e)} \cup {"else"}
             [] s.k = "call" -> {"ok"} \cup (IF s.a = "nothrow" \/ unwinding THEN {} ELSE Exceptions)

Init ==
  /\ prog \in DOMAIN Programs
  /\ code = DtoDefineFunction(body)
  /\ m = Advance(code, Start(code))
  /\ trace = <<>>

Evaluate(o) ==
  /\ m.status = "waits"
  /\ Len(trace) < MaxEvents
  /\ m' = Advance(code, Continue(code, m, o))
  /\ trace' = Append(trace, <<m.at, o>>)
  /\ UNCHANGED <<prog, code>>

Next == \E o \in Outcomes(body, m.at, m.unwinding) : Evaluate(o)

Spec == Init /\ [][Next]_vars

-----------------------------------------------------------------------------
(* Properties *)

Interpreted == CTFE!interpretFunction(body, [i \in DOMAIN trace |-> trace[i][2]])

\* The generated code and the compile-time interpreter evaluate the same
\* expressions in the same order and end the same way, whichever way the
\* statements are left: falling off their end, break, continue, goto, return
\* or an exception, through any finally blocks and catches (popCleanups and
\* runCleanups, emitLandingPad; visitTryFinally and visitTryCatch in
\* dinterpret.d).
SameBehaviour ==
  LET st == Interpreted
      evaluated == [i \in DOMAIN trace |-> trace[i][1]]
  IN  CASE m.status = "waits"    -> st.result.k = "cant" /\ st.out = Append(evaluated, m.at)
        [] m.status = "returned" -> st.result.k \in {"null", "return"} /\ st.out = evaluated
        [] m.status = "thrown"   -> st.result = CTFE!Thrown(m.eh) /\ st.out = evaluated
        [] m.status \notin {"waits", "returned", "thrown"} -> FALSE

IsAncestor(p, q) == Len(p) < Len(q) /\ SubSeq(q, 1, Len(p)) = p

\* A scope with a cleanup is left by way of the cleanup, "whether as part of
\* normal control flow or exception unwinding" (CleanupScope in
\* trycatchfinally.h): what is evaluated after an expression in the body of a
\* try-finally is in the body as well, or in the finally block.
CleanupsRun ==
  LET evaluated == [i \in DOMAIN trace |-> trace[i][1]] \o (IF m.status = "waits" THEN <<m.at>> ELSE <<>>)
  IN  \A p \in {q \in Paths(body) : At(body, q).k = "finally"} : \A i \in 1..(Len(evaluated) - 1) :
        IsAncestor(Append(p, 1), evaluated[i]) =>
          \E k \in {1, 2} : IsAncestor(Append(p, k), evaluated[i + 1])

\* Is the variable v in scope where e is evaluated?  What the initialisation of
\* a for statement declares is in scope in the whole statement.
InScope(ast, v, e) ==
  LET list == Front(v)
      loop == Front(list)
  IN  \/ IsAncestor(list, e) /\ e[Len(v)] > Last(v)
      \/ list # <<>> /\ At(ast, loop).k = "for" /\ Last(list) = 1 /\ IsAncestor(loop, e) /\ ~IsAncestor(list, e)

\* The variables whose lifetime the code marks.
Annotated(c) ==
  LET starts(b) == {k \in DOMAIN c.code[b] : c.code[b][k].op = "start"}
  IN  UNION {{c.code[b][k].x : k \in starts(b)} : b \in DOMAIN c.code}

\* Whenever an expression is evaluated, the variables in scope there are alive,
\* although scopes are pushed and popped in the order of code generation and an
\* if statement that is elided pushes one that it does not pop
\* (LocalVariableLifetimeAnnotator; visitIf, visitScope and visitFor).
VariablesAlive ==
  m.status = "waits" => \A v \in Annotated(code) : InScope(body, v, m.at) => v \in m.live

-----------------------------------------------------------------------------
(* Profiles *)

\* How often has p been reached, according to the interpreter?  Of a case, how
\* often has the switch chosen it; the second counter is for all ways to it.
Reached(st, p) ==
  LET occurrences(seq1, x) == Cardinality({i \in DOMAIN seq1 : seq1[i] = x})
      isCase(q) == At(body, q).k \in {"case", "default"}
  IN  IF Last(<<1>> \o p) \in {0, -1} THEN occurrences(st.out, p)
      ELSE IF Last(<<1>> \o p) = -2
      THEN IF isCase(Front(p)) THEN occurrences(st.entered, Front(p)) ELSE 0
      ELSE IF isCase(p) THEN occurrences(st.entered, Cond(p)) ELSE occurrences(st.entered, p)

CallThrew == \E i \in DOMAIN trace : trace[i][2] \in Exceptions

\* The counters of the instrumented code account for every statement: what
\* ComputeRegionCounts derives from them is never less than the number of
\* times the statement was reached, at whatever point the profile is taken,
\* and it is exactly that once the function is left without a call having
\* thrown.
CountsSound ==
  LET CountMap == computeRegionCounts(body, m.counts)
      st == Interpreted
      exact == m.status \in {"returned", "thrown"} /\ ~CallThrew
  IN  \A p \in DOMAIN CountMap :
        IF exact /\ Last(<<1>> \o p) # -2 THEN CountMap[p] = Reached(st, p) ELSE CountMap[p] >= Reached(st, p)

\* How often did e have the outcome o?
Times(e, o) == Cardinality({i \in DOMAIN trace : trace[i] = <<e, o>>})

\* What the weights should be: the counts, plus one.
Exact(Counts) == IF MaxCount(Counts) = 0 THEN <<>> ELSE [i \in DOMAIN Counts |-> Counts[i] + 1]

ElseTimes(p, cases) == Cardinality({i \in DOMAIN trace : trace[i][1] = p}) -
                       Cardinality({i \in DOMAIN trace : trace[i][1] = p /\ trace[i][2] \in {At(body, cases[k]).a : k \in DOMAIN cases}})

\* When the profile of a call that nothing interrupted is used, each branch has
\* the weights it was taken with, although the count that the weights are
\* derived from is the one of the statement that code was generated for last:
\* finally blocks and catches come before the body they belong to, and the
\* body of a switch comes before its branches.  The br chain of a switch never
\* meets a case that was chosen more often than the comparisons before it let
\* through ("Higher branch count than switch incoming count!").
WeightsExact ==
  LET CountMap == computeRegionCounts(body, m.counts)
      current(p) == CurrentRegionCount(p, code.log, CountMap)
      exact == m.status \in {"returned", "thrown"} /\ ~CallThrew
  IN  \A p \in Paths(body) :
        LET s == At(body, p)
            cases == Cases(body, p)
            counts == m.counts
        IN  /\ s.k = "if" /\ s.a = "dyn" /\ exact =>
                 weightsOfIf(p, counts, current(p)) = Exact(<<Times(p, "true"), Times(p, "false")>>)
            /\ s.k = "do" /\ exact =>
                 weightsOfDo(p, counts, CountMap, current(p)) = Exact(<<Times(Cond(p), "true"), Times(Cond(p), "false")>>)
            /\ s.k = "for" /\ s.a = "cond" /\ exact =>
                 weightsOfFor(p, counts, CountMap) = Exact(<<Times(Cond(p), "true"), Times(Cond(p), "false")>>)
            /\ s.k = "switch" /\ s.a = "inst" /\ exact =>
                 weightsOfSwitchInst(body, p, counts) =
                   Exact(<<ElseTimes(p, cases)>> \o [i \in DOMAIN cases |-> Times(p, At(body, cases[i]).a)])
            /\ s.k = "switch" /\ s.a = "chain" =>
                 \A i \in DOMAIN cases : counts[cases[i]] <= failedCompareCount(cases, i, counts, current(p))
            /\ s.k = "switch" /\ s.a = "chain" /\ exact =>
                 \A i \in DOMAIN cases : weightsOfCompare(cases, i, counts, current(p)) =
                   Exact(<<Times(p, At(body, cases[i]).a), ElseTimes(p, SubSeq(cases, 1, i))>>)
=============================================================================
