---------------------------- MODULE QPUTranslate ----------------------------
(* From source statements to target instructions over variables
   (Source/Translate.cpp), and the pass that spells memory transfers out
   (Target/LoadStore.cpp).  A generator g carries the instructions emitted so
   far and the counters of fresh variables and labels.  The condition of a
   boolean expression is always one of the four flags here, so the cases of
   boolOr for ALWAYS and NEVER do not arise; its `modify' is always true.   *)
EXTENDS QPUSyntax

LOCAL INSTANCE SequencesExt

Emit(g, is) == [g EXCEPT !.code = @ \o is]

FreshVar(g)   == [g EXCEPT !.vars = @ + 1]
FreshLabel(g) == [g EXCEPT !.labels = @ + 1]

SrcReg(v) == IF v = ElemNum THEN ELEM_NUM ELSE RegA(v[2])
DstReg(v) == IF v = Tmu0Addr THEN TMU0_S ELSE RegA(v[2])
Operand(e) == IF e.tag = "VAR" THEN SrcReg(e.v) ELSE Imm(e.n)

(* A literal that is too large for an operand goes through a variable; so
   does one of two literals.                                                *)
RECURSIVE VarAssign(_, _, _, _)
Simplify(g, e) ==
    IF IsSimple(e) THEN <<g, e>>
    ELSE <<VarAssign(FreshVar(g), "ALWAYS", Std(g.vars), e), Var(Std(g.vars))>>

PutInVar(g, e) ==
    IF e.tag = "VAR" THEN <<g, e>>
    ELSE <<VarAssign(FreshVar(g), "ALWAYS", Std(g.vars), e), Var(Std(g.vars))>>

VarAssign(g, cond, v, e) ==
    CASE e.tag = "VAR" -> Emit(g, <<Move(cond, FALSE, DstReg(v), SrcReg(e.v))>>)
      [] e.tag = "LIT" -> Emit(g, <<LI(cond, DstReg(v), e.n)>>)
      [] e.tag = "APPLY" ->
            LET x == Simplify(g, e.x)
                y == Simplify(x[1], e.y)
                tmp == Std(y[1].vars)
                lits == x[2].tag = "LIT" /\ y[2].tag = "LIT"
                h == IF lits THEN VarAssign(FreshVar(y[1]), cond, tmp, x[2]) ELSE y[1]
                lhs == IF lits THEN Var(tmp) ELSE x[2]
            IN  Emit(h, <<ALU(cond, FALSE, DstReg(v), Operand(lhs), e.op, Operand(y[2]))>>)
      [] e.tag = "DEREF" ->
            LET p == Simplify(g, e.p)
            IN  Emit(p[1], <<FromReg("LD1", SrcReg(p[2].v)), Plain("LD2"), Plain("LD3"),
                             ToReg("LD4", DstReg(v))>>)

AssignStmt(g, lhs, rhs) ==
    IF lhs.tag = "VAR" THEN VarAssign(g, "ALWAYS", lhs.v, rhs)
    ELSE LET p == Simplify(g, lhs.p)
             x == PutInVar(p[1], rhs)
         IN  Emit(x[1], <<FromReg("ST1", SrcReg(x[2].v)), FromReg("ST2", SrcReg(p[2].v)),
                          Plain("ST3")>>)

----------------------------------------------------------------------------
(* Conditions                                                               *)

NegFlag(f) == CASE f = "ZS" -> "ZC" [] f = "ZC" -> "ZS"
                [] f = "NS" -> "NC" [] f = "NC" -> "NS"

NegBranchCond(c) ==
    [tag |-> IF c.tag = "ANY" THEN "ALL" ELSE "ANY", flag |-> NegFlag(c.flag)]

(* A value that sets the flag.                                              *)
SetFlag(f) == CASE f \in {"ZS", "NC"} -> 0 [] f = "ZC" -> 1 [] f = "NS" -> -1

SetCond(v) == Move("ALWAYS", TRUE, NoReg, SrcReg(v))

(* condA holds of condVarA; condB holds of the flags.  Afterwards the result
   holds of condVarA and of the flags.                                      *)
BoolOr(g, condA, condVarA, condB) ==
    <<Emit(g, <<LI(condB, DstReg(condVarA), SetFlag(condA)), SetCond(condVarA)>>), condA>>

BoolAnd(g, condA, condVarA, condB) ==
    LET r == BoolOr(g, NegFlag(condA), condVarA, NegFlag(condB))
    IN  <<r[1], NegFlag(r[2])>>

RECURSIVE BoolExp(_, _, _)
BoolExp(g, b, v) ==
    CASE b.tag = "CMP" ->
            LET swap == b.op \in {"GT", "LE"}
                x == Simplify(g, IF swap THEN b.y ELSE b.x)
                y == Simplify(x[1], IF swap THEN b.x ELSE b.y)
                tmp == Std(y[1].vars)
                lits == x[2].tag = "LIT" /\ y[2].tag = "LIT"
                h == IF lits THEN VarAssign(FreshVar(y[1]), "ALWAYS", tmp, x[2]) ELSE y[1]
                lhs == IF lits THEN Var(tmp) ELSE x[2]
            IN  <<Emit(h, <<ALU("ALWAYS", TRUE, DstReg(v), Operand(lhs), "SUB", Operand(y[2]))>>),
                  CASE b.op = "EQ" -> "ZS" [] b.op = "NEQ" -> "ZC"
                    [] b.op \in {"LT", "GT"} -> "NS" [] b.op \in {"GE", "LE"} -> "NC">>
      [] b.tag = "NOT" -> LET r == BoolExp(g, b.b, v) IN <<r[1], NegFlag(r[2])>>
      [] b.tag = "OR" ->
            LET w    == Std(g.vars)
                a    == BoolExp(FreshVar(g), b.x, v)
                both == BoolExp(a[1], b.y, w)
            IN  BoolOr(both[1], a[2], v, both[2])
      [] b.tag = "AND" -> BoolExp(g, NotB(OrB(NotB(b.x), NotB(b.y))), v)

CondExp(g, c) ==
    LET r == BoolExp(FreshVar(g), c.b, Std(g.vars))
    IN  <<r[1], [tag |-> c.tag, flag |-> r[2]]>>

----------------------------------------------------------------------------
(* Statements                                                               *)

MoveVar(dst, src, flags) == Move("ALWAYS", flags, DstReg(dst), SrcReg(src))

(* Assignments under a condition that holds of condVar and of the flags; the
   two are put back at the end when saveRestore asks for it.  Inside another
   `where', with new the outcome of translating its condition into newVar:
   saved keeps condVar when it is needed again.                             *)
RECURSIVE WhereStmt(_, _, _, _, _)

NestedThen(new, then, condVar, cond) ==
    IF then = Null THEN new[1]
    ELSE LET both == BoolAnd(new[1], cond, condVar, new[2])
         IN  WhereStmt(both[1], then, condVar, both[2], FALSE)

NestedElse(g, else, newVar, newCond, cond) ==
    LET rest == BoolAnd(g, NegFlag(newCond), newVar, cond)
    IN  WhereStmt(rest[1], else, newVar, rest[2], FALSE)

\* Mutant: the outer condition is not restored for what follows the else branch.
NestedUnrestored(new, s, condVar, cond, saveRestore, saved, newVar) ==
    LET back(g) == Emit(g, <<MoveVar(condVar, saved, TRUE)>>)
        then    == NestedThen(new, s.then, condVar, cond)
    IN  CASE s.else /= Null -> NestedElse(back(then), s.else, newVar, new[2], cond)
          [] s.else = Null /\ saveRestore   -> back(then)
          [] s.else = Null /\ ~ saveRestore -> then

Nested(new, s, condVar, cond, saveRestore, saved, newVar) ==
    LET back(g) == Emit(g, <<MoveVar(condVar, saved, TRUE)>>)
        then    == NestedThen(new, s.then, condVar, cond)
    IN  CASE s.else /= Null ->
                LET else == NestedElse(back(then), s.else, newVar, new[2], cond)
                IN  IF saveRestore THEN back(else) ELSE else
          [] s.else = Null /\ saveRestore   -> back(then)
          [] s.else = Null /\ ~ saveRestore -> then

WhereStmt(g, s, condVar, cond, saveRestore) ==
    CASE s.tag = "NULL"   -> g
      [] s.tag = "ASSIGN" -> VarAssign(g, cond, s.lhs.v, s.rhs)
      [] s.tag = "SEQ"    -> WhereStmt(WhereStmt(g, s.s0, condVar, cond, TRUE),
                                       s.s1, condVar, cond, saveRestore)
      [] s.tag = "WHERE" /\ cond = "ALWAYS" ->
            LET Else(new, t) == WhereStmt(t, s.else, condVar, NegFlag(new[2]), FALSE)
                Then(new) == Else(new, WhereStmt(new[1], s.then, condVar, new[2], s.else /= Null))
            IN  Then(BoolExp(g, s.b, condVar))
      [] s.tag = "WHERE" /\ cond /= "ALWAYS" ->
            LET saved  == Std(g.vars)
                newVar == Std(g.vars + 1)
                keep   == IF saveRestore \/ s.else /= Null
                          THEN <<MoveVar(saved, condVar, FALSE)>> ELSE <<>>
                new    == BoolExp(FreshVar(FreshVar(Emit(g, keep))), s.b, newVar)
            IN  Nested(new, s, condVar, cond, saveRestore, saved, newVar)

Always == [tag |-> "ALWAYS", flag |-> "ZS"]

RECURSIVE Stmt(_, _)

(* c: the outcome of translating the condition.                             *)
IfStmt(c, s, elseL, endifL) ==
    LET then == Stmt(Emit(c[1], <<BRL(NegBranchCond(c[2]), elseL)>>), s.then)
        skip == IF s.else = Null THEN <<>> ELSE <<BRL(Always, endifL)>>
    IN  Emit(Stmt(Emit(then, skip \o <<LAB(elseL)>>), s.else), <<LAB(endifL)>>)

WhileStmt(c, s, startL, endL) ==
    LET body == Stmt(Emit(c[1], <<BRL(NegBranchCond(c[2]), endL), LAB(startL)>>), s.body)
    IN  Emit(CondExp(body, s.c)[1], <<BRL(c[2], startL), LAB(endL)>>)

StoreRequest(g, s) ==
    LET x == PutInVar(g, s.data)
        Put(data, p) == Emit(p[1], <<Plain("ST3"), FromReg("ST1", SrcReg(data)),
                                        FromReg("ST2", SrcReg(p[2].v))>>)
    IN  Put(x[2].v, PutInVar(x[1], s.addr))

Stmt(g, s) ==
    LET branches == FreshLabel(FreshLabel(g))
        label    == g.labels
    IN  CASE s.tag = "NULL"   -> g
          [] s.tag = "ASSIGN" -> AssignStmt(g, s.lhs, s.rhs)
          [] s.tag = "SEQ"    -> Stmt(Stmt(g, s.s0), s.s1)
          [] s.tag = "IF"     -> IfStmt(CondExp(branches, s.c), s, label, label + 1)
          [] s.tag = "WHILE"  -> WhileStmt(CondExp(branches, s.c), s, label, label + 1)
          [] s.tag = "WHERE"  -> WhereStmt(FreshVar(g), s, Std(g.vars), "ALWAYS", FALSE)
          [] s.tag = "PRINT"  -> Emit(VarAssign(FreshVar(g), "ALWAYS", Std(g.vars), s.e),
                                      <<FromReg("PRI", RegA(g.vars))>>)
          [] s.tag = "LOAD_RECEIVE"  -> Emit(g, <<ToReg("RECV", DstReg(s.v))>>)
          [] s.tag = "STORE_REQUEST" -> StoreRequest(g, s)
          [] s.tag = "FLUSH"  -> Emit(g, <<Plain("ST3")>>)

(* vars: the number of variables the source program uses already.           *)
TranslateStmt(s, vars) ==
    Emit(Stmt([code |-> <<>>, vars |-> vars, labels |-> 0], s), <<Plain("END")>>)

----------------------------------------------------------------------------
(* Loads and stores                                                         *)

ReadStride  == SetupWord(0)     \* stride 0, in all lanes
WriteStride == SetupWord(1)
DmaLoad     == SetupWord(2)
DmaStore    == SetupWord(3)
VpmLoad     == SetupWord(4)
VpmStore    == SetupWord(5)

GenMove(dst, src) == Move("ALWAYS", FALSE, dst, src)
GenLI(dst, n)     == LI("ALWAYS", dst, n)
GenOR(dst, x, y)  == ALU("ALWAYS", FALSE, dst, x, "BOR", y)

LoadStorePass(g) ==
    LET Fresh(n) == RegA(g.vars + n)
        qpuId == Fresh(0)
        vpmLoadSetup  == Fresh(1)
        dmaLoadSetup  == Fresh(2)
        dmaStoreSetup == Fresh(3)
        start == <<GenMove(qpuId, QPU_NUM),
                   GenLI(RegA(RSV_READ_STRIDE), ReadStride),
                   GenLI(RegA(RSV_WRITE_STRIDE), WriteStride),
                   GenLI(Fresh(4), DmaLoad), GenOR(dmaLoadSetup, qpuId, Fresh(4)),
                   GenLI(Fresh(5), DmaStore),
                   ALU("ALWAYS", FALSE, Fresh(6), qpuId, "SHL", Imm(3)),
                   GenOR(dmaStoreSetup, Fresh(5), Fresh(6)),
                   GenLI(Fresh(7), VpmLoad), GenOR(vpmLoadSetup, qpuId, Fresh(7)),
                   GenLI(Fresh(8), VpmStore), GenOR(WR_SETUP, qpuId, Fresh(8))>>
        Elaborate(i) ==
            CASE i.tag = "LD1" -> <<GenMove(RD_SETUP, RegA(RSV_READ_STRIDE)),
                                    GenMove(RD_SETUP, dmaLoadSetup),
                                    GenMove(DMA_LD_ADDR, i.src)>>
              [] i.tag = "LD3" -> <<GenMove(RD_SETUP, vpmLoadSetup), Nop, Nop, Nop>>
              [] i.tag = "ST2" -> <<GenMove(WR_SETUP, RegA(RSV_WRITE_STRIDE)),
                                    GenMove(WR_SETUP, dmaStoreSetup),
                                    GenMove(DMA_ST_ADDR, i.src)>>
              [] i.tag = "RECV" -> <<Plain("TMU0_TO_ACC4"), GenMove(i.dest, Acc(4))>>
              [] OTHER -> <<i>>
    IN  [g EXCEPT !.vars = @ + 9,
                  !.code = start \o FlattenSeq([n \in DOMAIN @ |-> Elaborate(@[n])])]
=============================================================================
