----------------------------- MODULE QPUTarget -----------------------------
(* The passes over target code: control flow and liveness (CFG.cpp,
   Liveness.cpp), register allocation (RegAlloc.cpp, Subst.cpp), the hardware
   constraints (Satisfy.cpp), the removal of labels (RemoveLabels.cpp) and the
   assertions of the encoder (Encode.cpp).                                  *)
EXTENDS QPUSyntax

LOCAL INSTANCE SequencesExt
LOCAL INSTANCE FiniteSetsExt

CONSTANT NumRegs        \* registers of a file, 32 in the code

ASSUME RegsAssumption == NumRegs \in Nat \ {0}

(* Registers an instruction writes and reads; a conditional write also reads. *)
DefReg(i) == IF i.tag \in {"LI", "ALU", "LD4", "RECV"} THEN {i.dest} ELSE {}
UseReg(i) ==
    CASE i.tag = "LI"  -> IF i.cond = "ALWAYS" THEN {} ELSE {i.dest}
      [] i.tag = "ALU" -> {x \in {i.srcA, i.srcB} : IsReg(x)}
                              \cup (IF i.cond = "ALWAYS" THEN {} ELSE {i.dest})
      [] i.tag \in {"LD1", "ST1", "ST2", "PRI"} -> {i.src}
      [] OTHER -> {}

Ids(regs) == {r[2] : r \in {q \in regs : q[1] = "REG_A"}}
Def(i) == Ids(DefReg(i))
Use(i) == Ids(UseReg(i))

LabelAt(code, label) ==
    CHOOSE n \in DOMAIN code : code[n].tag = "LAB" /\ code[n].label = label

BuildCFG(code) ==
    [n \in DOMAIN code |->
        LET i == code[n]
            uncond == i.tag = "BRL" /\ i.bcond.tag = "ALWAYS"
            end    == i.tag = "END" \/ n = Len(code)
        IN  (IF uncond \/ end THEN {} ELSE {n + 1})
                \cup (IF i.tag = "BRL" THEN {LabelAt(code, i.label)} ELSE {})]

LiveOut(cfg, live, n) == UNION {live[m] : m \in cfg[n]}

RECURSIVE LiveFrom(_, _, _)
LiveFrom(code, cfg, live) ==
    LET next == [n \in DOMAIN code |->
                    (LiveOut(cfg, live, n) \ Def(code[n])) \cup Use(code[n])]
    IN  IF next = live THEN live ELSE LiveFrom(code, cfg, next)

(* The variables live before each instruction.                              *)
Liveness(code, cfg) == LiveFrom(code, cfg, [n \in DOMAIN code |-> {}])

----------------------------------------------------------------------------
(* Register allocation                                                      *)

RenameDest(i, r, new) == IF "dest" \in DOMAIN i /\ i.dest = r
                         THEN [i EXCEPT !.dest = new] ELSE i

(* Rename the registers an instruction reads; names maps old ones to new.   *)
RenameUses(i, names) ==
    LET New(x) == IF x \in DOMAIN names THEN names[x] ELSE x
    IN  CASE i.tag = "ALU" -> [i EXCEPT !.srcA = New(@), !.srcB = New(@)]
          [] i.tag \in {"LD1", "ST1", "ST2", "PRI"} -> [i EXCEPT !.src = New(@)]
          [] OTHER -> i

(* The value of an instruction that only the next one uses.                 *)
UsedOnce(code, cfg, live, n) ==
    /\ n + 1 \in DOMAIN code
    /\ code[n].tag \in {"LI", "ALU"} /\ code[n].cond = "ALWAYS"
    /\ \E v \in Def(code[n]) : v \in Use(code[n + 1]) /\ v \notin LiveOut(cfg, live, n + 1)

(* Such a value goes through an accumulator.                                *)
IntroduceAccum(code, cfg, live) ==
    LET short == {n \in DOMAIN code : UsedOnce(code, cfg, live, n)}
        Uses(n) == IF n - 1 \in short
                   THEN RenameUses(code[n], [x \in {code[n - 1].dest} |-> Acc(1)])
                   ELSE code[n]
    IN  [n \in DOMAIN code |->
            IF n \in short THEN RenameDest(Uses(n), code[n].dest, Acc(1)) ELSE Uses(n)]

(* Which file a variable should be in: apart from the other operand of its
   instruction, in A beside an immediate.                                   *)
Preferences(code, vars) ==
    LET IsVar(x) == x[1] = "REG_A"
        Step(p, i) ==
            IF i.tag /= "ALU" THEN p
            ELSE LET x == i.srcA[2]
                     y == i.srcB[2]
                 IN  CASE IsVar(i.srcA) /\ IsVar(i.srcB) ->
                            IF p.a[x] > p.a[y] \/ p.b[y] > p.b[x]
                            THEN [a |-> [p.a EXCEPT ![x] = @ + 1], b |-> [p.b EXCEPT ![y] = @ + 1]]
                            ELSE [a |-> [p.a EXCEPT ![y] = @ + 1], b |-> [p.b EXCEPT ![x] = @ + 1]]
                       [] IsVar(i.srcA) /\ ~ IsReg(i.srcB) -> [p EXCEPT !.a[x] = @ + 1]
                       [] IsVar(i.srcB) /\ ~ IsReg(i.srcA) -> [p EXCEPT !.a[y] = @ + 1]
                       [] OTHER -> p
        none == [v \in 0 .. vars - 1 |-> 0]
    IN  FoldLeft(Step, [a |-> none, b |-> none], code)

(* Variables that need different registers: live together, or one written
   while the other is live.                                                 *)
LiveWith(code, cfg, live) ==
    UNION {LET out == LiveOut(cfg, live, n)
               pairs == out \X (out \cup Def(code[n]))
           IN  pairs \cup {<<p[2], p[1]>> : p \in pairs} : n \in DOMAIN code}

Free(file, alloc, near) ==
    {j \in 0 .. NumRegs - 1 : \A v \in near : alloc[v] /= <<file, j>>}

(* The register of each variable, or NoReg for all when there are too few.  *)
Allocate(code, cfg, live, vars) ==
    LET pref == Preferences(code, vars)
        with == LiveWith(code, cfg, live)
        Step(s, v) ==
            LET near == {w \in 0 .. v - 1 : <<v, w>> \in with}
                freeA == Free("REG_A", s.alloc, near)
                freeB == Free("REG_B", s.alloc, near)
                inA == \/ freeB = {}
                       \/ /\ freeA /= {}
                          /\ \/ pref.a[v] > pref.b[v]
                             \/ pref.a[v] = pref.b[v] /\ s.prev = "REG_B"
            IN  IF ~ s.ok \/ (freeA = {} /\ freeB = {}) THEN [s EXCEPT !.ok = FALSE]
                ELSE IF inA THEN [s EXCEPT !.alloc[v] = RegA(Min(freeA)), !.prev = "REG_A"]
                            ELSE [s EXCEPT !.alloc[v] = RegB(Min(freeB)), !.prev = "REG_B"]
        start == [alloc |-> [v \in 0 .. vars - 1 |-> NoReg], prev |-> "REG_B", ok |-> TRUE]
    IN  FoldLeft(Step, start, [v \in 1 .. vars |-> v - 1])

(* The code after allocation; <<>> when the compiler gives up.              *)
RegAlloc(code, vars) ==
    LET cfg  == BuildCFG(code)
        live == Liveness(code, cfg)
        accs == IntroduceAccum(code, cfg, live)
        got  == Allocate(accs, cfg, live, vars)
        names == [x \in {RegA(v) : v \in 0 .. vars - 1} |-> got.alloc[x[2]]]
        Rename(i) == LET j == RenameUses(i, names)
                     IN  IF "dest" \in DOMAIN j /\ j.dest \in DOMAIN names
                         THEN [j EXCEPT !.dest = names[@]] ELSE j
    IN  IF got.ok THEN [n \in DOMAIN accs |-> Rename(accs[n])] ELSE <<>>

----------------------------------------------------------------------------
(* Constraints of the hardware                                              *)

(* SPECIAL_ELEM_NUM and DMA_LD_WAIT are in file A, QPU_NUM and DMA_ST_WAIT in B. *)
RegFileOf(x) == CASE x[1] \in {"REG_A", "REG_B"} -> x[1]
                  [] x[1] = "SPECIAL" /\ x[2] \in {1, 9} -> "REG_A"
                  [] x[1] = "SPECIAL" /\ x[2] \in {2, 7} -> "REG_B"
                  [] OTHER -> "NONE"

(* Move the operand to an accumulator, then use that.                       *)
RemapA(i, acc) == <<Move("ALWAYS", FALSE, Acc(acc), i.srcA), [i EXCEPT !.srcA = Acc(acc)]>>
RemapB(i, acc) == <<Move("ALWAYS", FALSE, Acc(acc), i.srcB), [i EXCEPT !.srcB = Acc(acc)]>>

FileConflict(i) ==
    /\ IsReg(i.srcA) /\ IsReg(i.srcB)
    /\ RegFileOf(i.srcA) /= "NONE"
    /\ RegFileOf(i.srcA) = RegFileOf(i.srcB)
    /\ i.srcA[2] /= i.srcB[2]

InsertMoves(code) ==
    LET Satisfied(i) ==
            CASE i.tag /= "ALU" -> <<i>>
              [] i.tag = "ALU" /\ i.op = "ROTATE" ->
                    LET a == RemapA(i, 0)
                        b == RemapB(a[2], 5)
                    IN  IF IsReg(i.srcB) THEN <<a[1], b[1], Nop, b[2]>>
                                         ELSE <<a[1], Nop, a[2]>>
              [] i.tag = "ALU" /\ i.op /= "ROTATE" ->
                    CASE ~ IsReg(i.srcA) /\ RegFileOf(i.srcB) = "REG_B" -> RemapB(i, 0)
                      [] ~ IsReg(i.srcB) /\ RegFileOf(i.srcA) = "REG_B" -> RemapA(i, 0)
                      [] FileConflict(i) -> RemapA(i, 0)
                      [] OTHER -> <<i>>
    IN  FlattenSeq([n \in DOMAIN code |-> Satisfied(code[n])])

\* Mutant: only the first operand is looked at.
TooEarlyA(prev, i) ==
    i.tag = "ALU" /\ i.srcA \in DefReg(prev) /\ i.srcA[1] \in {"REG_A", "REG_B"}

(* Instructions that read a register of a file just after it is written.    *)
TooEarly(prev, i) == \E r \in DefReg(prev) \cap UseReg(i) : r[1] \in {"REG_A", "REG_B"}

DelaySlots == 3

InsertNops(code) ==
    LET before(n) == {m \in 1 .. n - 1 : code[m].tag /= "LAB"}
        prev(n) == IF before(n) = {} THEN Nop ELSE code[Max(before(n))]
        gap(n)  == IF TooEarly(prev(n), code[n]) THEN <<Nop>> ELSE <<>>
        slots(n) == [k \in 1 .. IF code[n].tag \in {"BRL", "END"} THEN DelaySlots ELSE 0 |-> Nop]
    IN  FlattenSeq([n \in DOMAIN code |-> gap(n) \o <<code[n]>> \o slots(n)])

Satisfy(code) == InsertNops(InsertMoves(code))

(* Branches relative to the fourth instruction after them.                  *)
RemoveLabels(code) ==
    LET NotLabel(i) == i.tag /= "LAB"
        before(n) == Len(SelectSeq(SubSeq(code, 1, n - 1), NotLabel))
        kept == SelectSeq([n \in DOMAIN code |-> [n |-> n, i |-> code[n]]],
                          LAMBDA k : NotLabel(k.i))
        Resolve(i, at) == IF i.tag /= "BRL" THEN i
                          ELSE BR(i.bcond, before(LabelAt(code, i.label)) - 4 - at)
    IN  [m \in DOMAIN kept |-> Resolve(kept[m].i, m - 1)]

----------------------------------------------------------------------------
(* What the encoder asserts of the operands of an ALU instruction           *)

ReadableFrom(x, file) ==
    CASE x[1] \in {"REG_A", "REG_B"} -> x[1] = file
      [] x[1] = "ACC" -> x[2] \in 0 .. 4
      [] x[1] = "SPECIAL" -> RegFileOf(x) \in {"NONE", file}
      [] OTHER -> TRUE

OperandsFit(i) ==
    CASE i.op = "ROTATE" -> i.srcA = Acc(0) /\ ~ IsReg(i.srcB)
      [] i.op /= "ROTATE" /\ ~ IsReg(i.srcB) -> ReadableFrom(i.srcA, "REG_A")
      [] i.op /= "ROTATE" /\ ~ IsReg(i.srcA) -> ReadableFrom(i.srcB, "REG_A")
      [] OTHER -> \/ i.srcA = i.srcB
                  \/ RegFileOf(i.srcA) = "NONE"
                  \/ RegFileOf(i.srcA) /= RegFileOf(i.srcB)
============================================================================
