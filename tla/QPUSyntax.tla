----------------------------- MODULE QPUSyntax -----------------------------
(* The two languages of the QPULib compiler: source expressions, conditions
   and statements (Source/Syntax.h), target registers and instructions
   (Target/Syntax.h), and the words both of them compute with.

   A word is a Width-bit two's complement integer, 32 bits in the code.  Words
   that set up a memory transfer are built by SetupWord outside that range:
   the code marks them with their top bits and only moves them and ORs them
   with the QPU number.  Floats, masks and the operators of Op not named in
   Compute are left out.                                                    *)
EXTENDS Integers, Sequences

CONSTANTS
    Lanes,      \* elements of a vector, NUM_LANES = 16 in the code
    Width       \* bits of a word, 32 in the code

ASSUME SizesAssumption == Lanes \in Nat \ {0} /\ Width \in Nat \ {0, 1}

Lane == 0 .. Lanes - 1
AllLanes(n) == [l \in Lane |-> n]

Wrap(n) == ((n + 2^(Width - 1)) % 2^Width) - 2^(Width - 1)

SetupWord(kind) == 2^Width + kind

(* x | y where the compiler itself needs it: a move (x | x) and a setup word
   combined with the QPU number 0.                                          *)
Or(x, y) == IF x = 0 THEN y ELSE x

Rotate(v, n) == [l \in Lane |-> v[(l - n) % Lanes]]

(* The vector `a op b'.                                                     *)
Compute(op, a, b) ==
    CASE op = "ADD"    -> [l \in Lane |-> Wrap(a[l] + b[l])]
      [] op = "SUB"    -> [l \in Lane |-> Wrap(a[l] - b[l])]
      [] op = "SHL"    -> [l \in Lane |-> Wrap(a[l] * 2^b[l])]
      [] op = "BOR"    -> [l \in Lane |-> Or(a[l], b[l])]
      [] op = "ROTATE" -> Rotate(a, b[0])

----------------------------------------------------------------------------
(* Source language                                                          *)

Std(id)   == <<"STANDARD", id>>
ElemNum   == <<"ELEM_NUM", 0>>
Tmu0Addr  == <<"TMU0_ADDR", 0>>

Lit(n)          == [tag |-> "LIT", n |-> n]
Var(v)          == [tag |-> "VAR", v |-> v]
Apply(x, op, y) == [tag |-> "APPLY", x |-> x, op |-> op, y |-> y]
Deref(p)        == [tag |-> "DEREF", p |-> p]

(* A small literal fits the immediate field of an instruction.              *)
IsSmallLit(e) == e.tag = "LIT" /\ e.n \in -16 .. 15
IsSimple(e)   == e.tag = "VAR" \/ IsSmallLit(e)

Cmp(x, op, y) == [tag |-> "CMP", x |-> x, op |-> op, y |-> y]
NotB(b)       == [tag |-> "NOT", b |-> b]
OrB(a, b)     == [tag |-> "OR", x |-> a, y |-> b]
AndB(a, b)    == [tag |-> "AND", x |-> a, y |-> b]

(* A scalar condition: `all' or `any' of a vector of booleans.              *)
AllOf(b) == [tag |-> "ALL", b |-> b]
AnyOf(b) == [tag |-> "ANY", b |-> b]

Null           == [tag |-> "NULL"]      \* an absent else branch
Assign(l, e)   == [tag |-> "ASSIGN", lhs |-> l, rhs |-> e]
Seq2(s0, s1)   == [tag |-> "SEQ", s0 |-> s0, s1 |-> s1]
Where(b, s, t) == [tag |-> "WHERE", b |-> b, then |-> s, else |-> t]
If(c, s, t)    == [tag |-> "IF", c |-> c, then |-> s, else |-> t]
While(c, s)    == [tag |-> "WHILE", c |-> c, body |-> s]
PrintInt(e)       == [tag |-> "PRINT", e |-> e]
Receive(v)     == [tag |-> "LOAD_RECEIVE", v |-> v]
Store(e, p)    == [tag |-> "STORE_REQUEST", data |-> e, addr |-> p]
Flush          == [tag |-> "FLUSH"]

----------------------------------------------------------------------------
(* Target language: registers and operands are pairs of a tag and a number.
   Special registers carry their place in enum Special.                     *)

RegA(r) == <<"REG_A", r>>
RegB(r) == <<"REG_B", r>>
Acc(r)  == <<"ACC", r>>
NoReg   == <<"NONE", 0>>
Imm(n)  == <<"IMM", n>>

ELEM_NUM    == <<"SPECIAL", 1>>
QPU_NUM     == <<"SPECIAL", 2>>
RD_SETUP    == <<"SPECIAL", 4>>
WR_SETUP    == <<"SPECIAL", 5>>
DMA_ST_ADDR == <<"SPECIAL", 6>>
DMA_LD_ADDR == <<"SPECIAL", 8>>
TMU0_S      == <<"SPECIAL", 12>>

RSV_READ_STRIDE  == 2       \* variables reserved by the compiler
RSV_WRITE_STRIDE == 3

IsReg(x) == x[1] /= "IMM"

LI(cond, dest, n) ==
    [tag |-> "LI", cond |-> cond, dest |-> dest, imm |-> n]
ALU(cond, flags, dest, x, op, y) ==
    [tag |-> "ALU", cond |-> cond, flags |-> flags, dest |-> dest,
     srcA |-> x, op |-> op, srcB |-> y]
Move(cond, flags, dest, src) == ALU(cond, flags, dest, src, "BOR", src)
BRL(bcond, label) == [tag |-> "BRL", bcond |-> bcond, label |-> label]
BR(bcond, offset) == [tag |-> "BR", bcond |-> bcond, offset |-> offset]
LAB(label)        == [tag |-> "LAB", label |-> label]
Plain(tag)        == [tag |-> tag]  \* END, NO_OP, LD2, LD3, ST3, TMU0_TO_ACC4
ToReg(tag, reg)   == [tag |-> tag, dest |-> reg]    \* LD4, RECV
FromReg(tag, reg) == [tag |-> tag, src |-> reg]     \* LD1, ST1, ST2, PRI
Nop == Plain("NO_OP")
============================================================================
