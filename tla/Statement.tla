------------------------------ MODULE Statement ------------------------------
(***************************************************************************)
(* dmd.statement: the statements of a function body, as the frontend hands *)
(* them to the code generator and to the compile-time interpreter.  A      *)
(* statement is a record of its kind k, its attribute a and its parts s.   *)
(* It is named by its path, the positions that lead to it from the body.   *)
(*                                                                         *)
(*   k          a                            s                             *)
(*   seq, scope, unrolled                    the statements                *)
(*   call       may it throw?                                              *)
(*   var        (a local variable)                                         *)
(*   if         "dyn", "true" or "false"     then, else                    *)
(*   for        is there a condition?        init, body                    *)
(*   do                                      body                          *)
(*   break, continue                         label or ""                   *)
(*   return                                                                *)
(*   throw      the type of the exception                                  *)
(*   goto, label  the label                  (label) the statement         *)
(*   switch     "inst", or "chain" when some case index is no constant     *)
(*   case       the value                    the statement                 *)
(*   default                                 the statement                 *)
(*   gotocase   the value                                                  *)
(*   gotodefault                                                           *)
(*   try        (catch) sequence of types    body, handlers                *)
(*   finally                                 body, finalbody               *)
(*                                                                         *)
(* While and foreach loops have become for loops by then.  What the        *)
(* statements compute is left out; what is kept of an expression is that   *)
(* it is evaluated, and which of the possible outcomes that has.           *)
(***************************************************************************)
EXTENDS Integers, Sequences, SequencesExt, FiniteSets, FiniteSetsExt

\* F of the value of x, which is evaluated first.
With(x, F(_)) == CHOOSE y \in {F(v) : v \in {x}} : TRUE

\* F for each element of s in turn, beginning with x.
Each(F(_, _), x, s) ==
  LET done[i \in 0..Len(s)] == IF i = 0 THEN x ELSE With(done[i - 1], LAMBDA y : F(y, s[i]))
  IN  done[Len(s)]

\* No statement.
none == <<0>>

\* The condition and the increment of the loop p.
Cond(p) == Append(p, 0)
Incr(p) == Append(p, -1)

\* The second counter of the statement p (CodeGenPGO::getCounterPtr).
Ptr1(p) == Append(p, -2)

\* The catch that has the handler p.
CatchOf(p) == Append(p, -3)

RECURSIVE At(_, _)
At(s, p) == IF s.s = <<>> \/ p = <<>> THEN s ELSE At(s.s[Head(p)], Tail(p))

RECURSIVE Paths(_)
Paths(s) == {<<>>} \cup UNION {{<<i>> \o p : p \in Paths(s.s[i])} : i \in DOMAIN s.s}

\* The order of the program text.
Before(p, q) ==
  \E i \in 1..Min({Len(p), Len(q)}) :
    SubSeq(p, 1, i - 1) = SubSeq(q, 1, i - 1) /\ p[i] < q[i]

\* The statement with the label l.
LabelOf(ast, l) == CHOOSE p \in Paths(ast) : At(ast, p).k = "label" /\ At(ast, p).a = l

\* The statement that break l or continue l refers to.
Labelled(ast, l) == IF l = "" THEN none ELSE Append(LabelOf(ast, l), 1)

\* The innermost switch around p.
SwitchOf(ast, p) ==
  LET S == {i \in 0..(Len(p) - 1) : At(ast, SubSeq(p, 1, i)).k = "switch"}
  IN  SubSeq(p, 1, Max(S))

CasesOf(ast, sw) ==
  {p \in Paths(ast) : At(ast, p).k = "case" /\ SwitchOf(ast, p) = sw}

DefaultOf(ast, sw) ==
  CHOOSE p \in Paths(ast) : At(ast, p).k = "default" /\ SwitchOf(ast, p) = sw

\* SwitchStatement.cases, in the order of the text.
Cases(ast, sw) == SetToSortSeq(CasesOf(ast, sw), Before)

CaseOf(ast, sw, v) == CHOOSE p \in CasesOf(ast, sw) : At(ast, p).a = v

\* Where goto case and goto default go.
JumpsTo(ast, p) ==
  IF At(ast, p).k = "gotocase" THEN CaseOf(ast, SwitchOf(ast, p), At(ast, p).a)
                               ELSE DefaultOf(ast, SwitchOf(ast, p))

\* CaseStatement.gototarget, DefaultStatement.gototarget
gototarget(ast, p) ==
  \E q \in Paths(ast) : At(ast, q).k \in {"gotocase", "gotodefault"} /\ JumpsTo(ast, q) = p

\* Does the type catch an exception of type e (is it its class or a base of it)?
Catches(type, e) == type = e \/ type \in {"Exception", "Throwable"}

-----------------------------------------------------------------------------
(* Writing programs down. *)
Stmt(k, a, s) == [k |-> k, a |-> a, s |-> s]

seq(s) == Stmt("seq", "", s)
scope(s) == Stmt("scope", "", s)
call == Stmt("call", "throws", <<>>)
quiet == Stmt("call", "nothrow", <<>>)
var == Stmt("var", "", <<>>)
if(a, s, t) == Stmt("if", a, <<s, t>>)
for(s) == Stmt("for", "cond", <<seq(<<>>), s>>)
do(s) == Stmt("do", "", <<s>>)
break(l) == Stmt("break", l, <<>>)
continue(l) == Stmt("continue", l, <<>>)
return == Stmt("return", "", <<>>)
throw(t) == Stmt("throw", t, <<>>)
goto(l) == Stmt("goto", l, <<>>)
label(l, s) == Stmt("label", l, <<s>>)
switch(a, s) == Stmt("switch", a, <<s>>)
case(v, s) == Stmt("case", v, <<s>>)
default(s) == Stmt("default", "", <<s>>)
gotocase(v) == Stmt("gotocase", v, <<>>)
gotodefault == Stmt("gotodefault", "", <<>>)
try(s, types, handlers) == Stmt("try", types, <<s>> \o handlers)
finally(s, f) == Stmt("finally", "", <<s, f>>)
unrolled(s) == Stmt("unrolled", "", s)
=============================================================================
