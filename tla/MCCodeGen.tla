------------------------------ MODULE MCCodeGen ------------------------------
(***************************************************************************)
(* Function bodies for CodeGen: every way to leave (or not to leave) two   *)
(* nested statements, a body being named by the outer statement, the inner *)
(* one and the leaf.  The bodies that the frontend rejects are left out.   *)
(***************************************************************************)
EXTENDS CodeGen

\* The statement called k around s; l is its label if it has one.
Frame(k, l, s) ==
  CASE k = "block"     -> scope(<<var, s, call>>)
    [] k = "if"        -> if("dyn", s, quiet)
    [] k = "elided"    -> scope(<<var, if("true", s, call), var, quiet>>)
    [] k = "kept"      -> scope(<<if("dyn", goto(l), quiet), if("false", label(l, scope(<<s, quiet>>)), quiet)>>)
    [] k = "forever"   -> label(l, Stmt("for", "", <<seq(<<>>), scope(<<s, quiet>>)>>))
    [] k = "for"       -> label(l, Stmt("for", "cond", <<seq(<<var>>), scope(<<s, quiet>>)>>))
    [] k = "do"        -> do(scope(<<s, quiet>>))
    [] k = "unrolled"  -> unrolled(<<scope(<<s>>), scope(<<call>>)>>)
    [] k = "inst"      -> switch("inst", scope(<<case("a", scope(<<s>>)), case("b", scope(<<call>>)),
                                                 default(scope(<<quiet>>))>>))
    [] k = "chain"     -> switch("chain", scope(<<default(scope(<<s>>)), case("a", scope(<<break("")>>)),
                                                  case("b", scope(<<quiet>>))>>))
    [] k = "try"       -> try(scope(<<s, call>>), <<"A">>, <<scope(<<quiet>>)>>)
    [] k = "handler"   -> try(scope(<<call>>), <<"A", "Throwable">>, <<scope(<<s>>), scope(<<quiet>>)>>)
    [] k = "finally"   -> finally(scope(<<s, call>>), scope(<<quiet>>))
    [] k = "finalbody" -> finally(scope(<<call>>), scope(<<s>>))

Loops == {"for", "forever", "do", "unrolled"}
Switches == {"inst", "chain"}
Frames == Loops \cup Switches \cup {"block", "if", "elided", "kept", "try", "handler", "finally", "finalbody"}

\* The leaves, each of which is taken or not.
Leaf(l) ==
  CASE l = "call"     -> call
    [] l = "throw"    -> if("dyn", throw("B"), quiet)
    [] l = "return"   -> if("dyn", return, quiet)
    [] l = "break"    -> if("dyn", break(""), quiet)
    [] l = "continue" -> if("dyn", continue(""), quiet)
    [] l = "outer"    -> if("dyn", break("F"), continue("F"))
    [] l = "goto"     -> if("dyn", goto("S"), goto("E"))
    [] l = "case"     -> if("dyn", gotocase("b"), gotodefault)

Leaves == {"call", "throw", "return", "break", "continue", "outer", "goto", "case"}

\* Does the frontend accept it?  A finally block is not left by a jump, and
\* contains no catch.  A goto case that leaves a finally is in CasePrograms.  A
\* goto or goto case that stays inside the body of a try, or inside a finally
\* block, is left out: the interpreter enters the try again to find the target,
\* and then catches nothing, and drops the goto in the finally block.
Accepted(k1, k2, l) ==
  LET inner == {k2} \cup (IF k2 = "finalbody" THEN {} ELSE {k1})
  IN  /\ k1 = "finalbody" => k2 \notin {"try", "handler", "kept"}
      /\ k1 = "try" => k2 # "kept"
      /\ "finalbody" \in {k1, k2} => l \in {"call", "break", "continue"}
      /\ k2 = "finalbody" => l = "call"
      /\ l = "break" => inner \cap (Loops \cup Switches) # {}
      /\ l = "continue" => inner \cap Loops # {}
      /\ l = "outer" => k1 \in {"for", "forever"}
      /\ l = "case" => \/ k2 \in Switches /\ k1 # "try"
                       \/ k1 \in Switches /\ k2 \notin {"finally"}

\* S, a call, the nested statements, a call, E, a call
Body(n) ==
  seq(<<label("S", scope(<<>>)), quiet,
        Frame(n[1], "F", Frame(n[2], "G", Leaf(n[3]))), call, label("E", scope(<<>>)), quiet>>)

Names == {n \in Frames \X Frames \X Leaves : Accepted(n[1], n[2], n[3])}

MCPrograms == [n \in Names |-> Body(n)]

\* A goto case, or goto default, out of a try-finally inside of a switch.
CasePrograms == [n \in Switches \X {"finally"} \X {"case"} |-> Body(n)]
=============================================================================
