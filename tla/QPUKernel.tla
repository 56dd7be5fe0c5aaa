----------------------------- MODULE QPUKernel -----------------------------
(* A kernel compiled by compileKernel (Kernel.cpp), then interpreted in its
   source form (Source/Interpreter.cpp) and run in its compiled form by the
   emulator (Target/Emulator.cpp), one action per instruction.  One QPU.  The
   variables, the registers and the flags start with arbitrary contents.     *)
EXTENDS QPUInterpreter, QPUTranslate, QPUTarget

CONSTANTS
    Kernels,    \* source programs
    NumVars,    \* variables a source program uses, the reserved ones included
    HeapSize,   \* words of shared memory
    Garbage     \* what an uninitialised word may hold

VARIABLES
    core,       \* the interpreter's core, CoreState
    code,       \* the compiled kernel, <<>> when the compiler gave up
    stage,      \* "interpret", "run", "halted"; "exit" when the compiler gave up
    qpu         \* the emulated QPU, QPUState, and its part of the VPM

kvars == <<core, code, stage, qpu>>

Heap0 == [a \in 0 .. HeapSize - 1 |-> Wrap(a)]

Idle == [pc |-> 1, A |-> <<>>, B |-> <<>>, acc |-> <<>>, zero |-> <<>>, neg |-> <<>>,
         heap |-> Heap0, output |-> <<>>, loadBuffer |-> <<>>,
         dmaLoad |-> <<>>, dmaStore |-> <<>>, vpmLoadQueue |-> 0,
         vpmLoad |-> <<>>, vpmStore |-> <<>>]

(* compileKernel: the passes in their order.                                *)
Finish(alloc) == IF alloc = <<>> THEN <<>> ELSE RemoveLabels(Satisfy(alloc))
CompileKernel(gen) == Finish(RegAlloc(gen.code, gen.vars))
Compiled == [k \in Kernels |-> CompileKernel(LoadStorePass(TranslateStmt(k, NumVars)))]

Init ==
    /\ \E k \in Kernels :
          /\ code = Compiled[k]
          /\ \E g \in Garbage :
                core = [env |-> [v \in 0 .. NumVars - 1 |-> AllLanes(g)], heap |-> Heap0,
                        stack |-> <<k>>, output |-> <<>>, loadBuffer |-> <<>>]
    /\ stage = IF code = <<>> THEN "exit" ELSE "interpret"
    /\ qpu = Idle

----------------------------------------------------------------------------
(* interpreter                                                              *)

Interpret ==
    /\ stage = "interpret"
    /\ core.stack /= <<>>
    /\ core' = Exec(core)
    /\ UNCHANGED <<code, stage, qpu>>

(* The interpreter is done; emulate() sets a QPU up.                        *)
Launch ==
    /\ stage = "interpret"
    /\ core.stack = <<>>
    /\ \E g \in Garbage :
          LET file == [r \in 0 .. NumRegs - 1 |-> AllLanes(g)]
          IN  qpu' = [qpu EXCEPT !.A = file, !.B = file,
                                 !.acc = [r \in 0 .. 5 |-> AllLanes(g)],
                                 !.zero = AllLanes(g = 0), !.neg = AllLanes(g < 0),
                                 !.vpmLoad = AllLanes(g), !.vpmStore = AllLanes(g)]
    /\ stage' = "run"
    /\ UNCHANGED <<core, code>>

----------------------------------------------------------------------------
(* emulate                                                                  *)

ReadReg(r) ==
    CASE r[1] = "REG_A" -> qpu.A[r[2]]
      [] r[1] = "REG_B" -> qpu.B[r[2]]
      [] r[1] = "ACC"   -> qpu.acc[r[2]]
      [] r = ELEM_NUM   -> [l \in Lane |-> l]
      [] r = QPU_NUM    -> AllLanes(0)
      [] r = NoReg      -> AllLanes(0)
      [] r[1] = "IMM"   -> AllLanes(r[2])

Flagged(f, l) == CASE f = "ZS" -> qpu.zero[l] [] f = "ZC" -> ~ qpu.zero[l]
                   [] f = "NS" -> qpu.neg[l]  [] f = "NC" -> ~ qpu.neg[l]

CheckAssignCond(cond, l) == cond = "ALWAYS" \/ (cond /= "ALWAYS" /\ Flagged(cond, l))

CheckBranchCond(c) ==
    CASE c.tag = "ALWAYS" -> TRUE
      [] c.tag = "ALL" -> \A l \in Lane : Flagged(c.flag, l)
      [] c.tag = "ANY" -> \E l \in Lane : Flagged(c.flag, l)

(* What the code asserts before it writes a special register.               *)
CanWrite(r, v) ==
    CASE r = RD_SETUP /\ v[0] = VpmLoad -> qpu.vpmLoadQueue < 2
      [] r = DMA_LD_ADDR -> qpu.dmaLoad = <<>>
      [] r = DMA_ST_ADDR -> qpu.dmaStore = <<>>
      [] r = TMU0_S      -> Len(qpu.loadBuffer) < 8
      [] OTHER -> TRUE

WriteReg(flags, cond, r, v) ==
    LET on == {l \in Lane : CheckAssignCond(cond, l)}
        Over(old) == [l \in Lane |-> IF l \in on THEN v[l] ELSE old[l]]
        q == CASE r[1] = "REG_A" -> [qpu EXCEPT !.A[r[2]] = Over(@)]
               [] r[1] = "REG_B" -> [qpu EXCEPT !.B[r[2]] = Over(@)]
               [] r[1] = "ACC"   -> [qpu EXCEPT !.acc[r[2]] = Over(@)]
               [] r = RD_SETUP /\ v[0] = VpmLoad -> [qpu EXCEPT !.vpmLoadQueue = @ + 1]
               [] r = DMA_LD_ADDR -> [qpu EXCEPT !.dmaLoad = v]
               [] r = DMA_ST_ADDR -> [qpu EXCEPT !.dmaStore = v]
               [] r = TMU0_S -> [qpu EXCEPT !.loadBuffer = Append(@, Gathered(qpu.heap, v))]
               [] OTHER -> qpu
    IN  IF ~ flags THEN q
        ELSE [q EXCEPT !.zero = [l \in Lane |-> IF l \in on THEN v[l] = 0 ELSE @[l]],
                       !.neg  = [l \in Lane |-> IF l \in on THEN v[l] < 0 ELSE @[l]]]

(* The instruction at pc has this tag; executing it leaves the QPU as q and
   pc further by `by'.  A failed assertion is a QPU that cannot go on.      *)
Instr == code[qpu.pc]
At(tag) == stage = "run" /\ Instr.tag = tag
Step(q, by) ==
    /\ qpu' = [q EXCEPT !.pc = @ + by]
    /\ UNCHANGED <<core, code, stage>>

EmuLI ==
    /\ At("LI")
    /\ Step(WriteReg(FALSE, Instr.cond, Instr.dest, AllLanes(Instr.imm)), 1)

EmuALU ==
    /\ At("ALU")
    /\ LET v == Compute(Instr.op, ReadReg(Instr.srcA), ReadReg(Instr.srcB))
       IN  /\ CanWrite(Instr.dest, v)
           /\ Step(WriteReg(Instr.flags, Instr.cond, Instr.dest, v), 1)

EmuBR ==
    /\ At("BR")
    /\ Step(qpu, IF CheckBranchCond(Instr.bcond) THEN 1 + 3 + Instr.offset ELSE 1)

EmuEND ==
    /\ At("END")
    /\ stage' = "halted"
    /\ UNCHANGED <<core, code, qpu>>

EmuNOP == At("NO_OP") /\ Step(qpu, 1)

(* A load: DMA into the VPM, then from the VPM into a register.             *)
EmuLD2 ==
    /\ At("LD2")
    /\ qpu.dmaLoad /= <<>>
    /\ LET hp == qpu.dmaLoad[0] \div 4
       IN  Step([qpu EXCEPT !.vpmLoad = [l \in Lane |-> qpu.heap[hp + l]], !.dmaLoad = <<>>], 1)

EmuLD4 ==
    /\ At("LD4")
    /\ qpu.vpmLoadQueue > 0
    /\ Step([WriteReg(FALSE, "ALWAYS", Instr.dest, qpu.vpmLoad) EXCEPT !.vpmLoadQueue = @ - 1], 1)

(* A store: into the VPM, then DMA to memory, done at the next ST3.         *)
EmuST1 == At("ST1") /\ Step([qpu EXCEPT !.vpmStore = ReadReg(Instr.src)], 1)

EmuST3 ==
    /\ At("ST3")
    /\ Step(IF qpu.dmaStore = <<>> THEN qpu
            ELSE [qpu EXCEPT !.heap = Stored(@, qpu.dmaStore, qpu.vpmStore), !.dmaStore = <<>>], 1)

EmuTMU0 ==
    /\ At("TMU0_TO_ACC4")
    /\ qpu.loadBuffer /= <<>>
    /\ Step([WriteReg(FALSE, "ALWAYS", Acc(4), Head(qpu.loadBuffer))
                EXCEPT !.loadBuffer = Tail(@)], 1)

EmuPRI == At("PRI") /\ Step([qpu EXCEPT !.output = Append(@, ReadReg(Instr.src))], 1)

Done == stage \in {"exit", "halted"} /\ UNCHANGED kvars

Emulate == \/ EmuLI \/ EmuALU \/ EmuBR \/ EmuEND \/ EmuNOP
           \/ EmuLD2 \/ EmuLD4 \/ EmuST1 \/ EmuST3 \/ EmuTMU0 \/ EmuPRI
Next == Interpret \/ Launch \/ Emulate \/ Done

Spec == Init /\ [][Next]_kvars
FairSpec == Spec /\ WF_kvars(Next)

----------------------------------------------------------------------------
(* The compiled kernel does what its source says: whatever the registers and
   the flags start with, the emulator gets to the end of every kernel that
   fits the registers, having printed and stored what the interpreter has.
   It covers the translation of nested conditions, liveness, allocation,
   accumulators, inserted moves and branch offsets together.                *)
CompiledRight ==
    <>(\/ stage = "exit"
       \/ stage = "halted" /\ qpu.output = core.output /\ qpu.heap = core.heap)

(* On the hardware a register of a file cannot be read by the instruction
   after the one that writes it, and the three instructions after a branch or
   the end are executed: along every path of the linked code neither happens
   with a visible effect.                                                   *)
HazardFree ==
    \A n \in DOMAIN code :
        LET i == code[n]
        IN  /\ i.tag \in {"BR", "END"} =>
                  \A k \in 1 .. 3 : n + k \in DOMAIN code /\ code[n + k] = Nop
            /\ n < Len(code) =>
                  \A r \in UseReg(code[n + 1]) :
                     r \in DefReg(i) => r[1] \notin {"REG_A", "REG_B"}

(* Every operand of the linked code can be encoded: two operands of one file
   are the same register, the operand beside an immediate is not in file B,
   a rotation takes its vector from accumulator 0.                          *)
Encodable ==
    \A n \in DOMAIN code : code[n].tag = "ALU" => OperandsFit(code[n])

(* What the satisfaction pass is for.                                       *)
Executable == HazardFree /\ Encodable
============================================================================
