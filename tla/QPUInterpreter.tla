--------------------------- MODULE QPUInterpreter ---------------------------
(* The source interpreter (Source/Interpreter.cpp), the reference that the
   compiled kernel is tested against.  A core is a record: env (variable id ->
   vector), heap (word address -> word), stack (statements, the next one
   last), output (the vectors printed) and loadBuffer (gathered, not received).
   One core; strides stay 0.                                                *)
EXTENDS QPUSyntax

LOCAL INSTANCE SequencesExt

EvalVar(s, v) ==
    IF v = ElemNum THEN [l \in Lane |-> l] ELSE s.env[v[2]]

RECURSIVE Eval(_, _)
Eval(s, e) ==
    CASE e.tag = "LIT"   -> AllLanes(e.n)
      [] e.tag = "VAR"   -> EvalVar(s, e.v)
      [] e.tag = "APPLY" -> Compute(e.op, Eval(s, e.x), Eval(s, e.y))
      [] e.tag = "DEREF" -> LET hp == Eval(s, e.p)[0] \div 4
                            IN  [l \in Lane |-> s.heap[hp + l]]

(* Orderings are decided by the sign of a difference that may wrap.         *)
Compare(op, x, y) ==
    CASE op = "EQ"  -> x = y
      [] op = "NEQ" -> x /= y
      [] op = "LT"  -> Wrap(x - y) < 0
      [] op = "GE"  -> Wrap(x - y) >= 0
      [] op = "LE"  -> Wrap(y - x) >= 0
      [] op = "GT"  -> Wrap(y - x) < 0

RECURSIVE EvalBool(_, _)
EvalBool(s, b) ==
    CASE b.tag = "NOT" -> LET v == EvalBool(s, b.b) IN [l \in Lane |-> ~ v[l]]
      [] b.tag = "AND" -> LET v == EvalBool(s, b.x)
                              w == EvalBool(s, b.y)
                          IN  [l \in Lane |-> v[l] /\ w[l]]
      [] b.tag = "OR"  -> LET v == EvalBool(s, b.x)
                              w == EvalBool(s, b.y)
                          IN  [l \in Lane |-> v[l] \/ w[l]]
      [] b.tag = "CMP" -> LET v == Eval(s, b.x)
                              w == Eval(s, b.y)
                          IN  [l \in Lane |-> Compare(b.op, v[l], w[l])]

EvalCond(s, c) ==
    LET v == EvalBool(s, c.b)
    IN  IF c.tag = "ALL" THEN \A l \in Lane : v[l] ELSE \E l \in Lane : v[l]

Gathered(heap, addr) == [l \in Lane |-> heap[addr[l] \div 4]]

AssignToVar(s, cond, v, x) ==
    IF v = Tmu0Addr
    THEN [s EXCEPT !.loadBuffer = Append(@, Gathered(s.heap, x))]
    ELSE [s EXCEPT !.env[v[2]] = [l \in Lane |-> IF cond[l] THEN x[l] ELSE @[l]]]

(* Write a vector to the heap at the address in the first element.          *)
Stored(heap, addr, x) ==
    LET hp == addr[0] \div 4
    IN  [a \in DOMAIN heap |-> IF a - hp \in Lane THEN x[a - hp] ELSE heap[a]]

ExecAssign(s, cond, lhs, rhs) ==
    IF lhs.tag = "VAR"
    THEN AssignToVar(s, cond, lhs.v, Eval(s, rhs))
    ELSE [s EXCEPT !.heap = Stored(@, Eval(s, lhs.p), Eval(s, rhs))]

RECURSIVE ExecWhere(_, _, _)
ExecWhere(s, cond, t) ==
    CASE t.tag = "NULL"   -> s
      [] t.tag = "SEQ"    -> ExecWhere(ExecWhere(s, cond, t.s0), cond, t.s1)
      [] t.tag = "ASSIGN" -> ExecAssign(s, cond, t.lhs, t.rhs)
      [] t.tag = "WHERE"  ->
            LET b    == EvalBool(s, t.b)
                both == [l \in Lane |-> b[l] /\ cond[l]]
                rest == [l \in Lane |-> ~ b[l] /\ cond[l]]
            IN  ExecWhere(ExecWhere(s, both, t.then), rest, t.else)

(* One step: the statement on top of the control stack.                     *)
Exec(core) ==
    LET t == Last(core.stack)
        s == [core EXCEPT !.stack = Front(@)]
        Push(ts) == [s EXCEPT !.stack = @ \o ts]
    IN  CASE t.tag \in {"NULL", "FLUSH"} -> s
          [] t.tag = "ASSIGN" -> ExecAssign(s, AllLanes(TRUE), t.lhs, t.rhs)
          [] t.tag = "SEQ"    -> Push(<<t.s1, t.s0>>)
          [] t.tag = "WHERE"  -> ExecWhere(s, AllLanes(TRUE), t)
          [] t.tag = "IF"     -> Push(<<IF EvalCond(s, t.c) THEN t.then ELSE t.else>>)
          [] t.tag = "WHILE"  -> IF EvalCond(s, t.c) THEN Push(<<t, t.body>>) ELSE s
          [] t.tag = "PRINT"  -> [s EXCEPT !.output = Append(@, Eval(s, t.e))]
          [] t.tag = "LOAD_RECEIVE" ->
                [AssignToVar(s, AllLanes(TRUE), t.v, Head(s.loadBuffer))
                    EXCEPT !.loadBuffer = Tail(@)]
          [] t.tag = "STORE_REQUEST" ->
                [s EXCEPT !.heap = Stored(@, Eval(s, t.addr), Eval(s, t.data))]
=============================================================================
