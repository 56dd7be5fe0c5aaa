---------------------------- MODULE MCQPUKernel ----------------------------
(* Small kernels over two variables and a pointer.  Each starts with x the
   same in all lanes, y the lane's number and p a pointer to the second vector
   of memory, and prints x and y at its end.                                *)
EXTENDS QPUKernel

X == Std(4)
Y == Std(5)
P == Std(6)
x == Var(X)
y == Var(Y)
p == Var(P)

Set(v, e) == Assign(Var(v), e)
Block(s) == Seq2(s[1], IF Len(s) = 2 THEN s[2] ELSE Seq2(s[2], s[3]))

Kernel(n, s) ==
    Seq2(Block(<<Set(X, Lit(n)), Set(Y, Var(ElemNum)), Set(P, Lit(8))>>),
         Seq2(s, Block(<<PrintInt(x), PrintInt(y), Flush>>)))

Conds == {Cmp(x, "LT", y), Cmp(y, "EQ", Lit(0)),
          OrB(Cmp(x, "LE", Lit(20)), AndB(Cmp(y, "GT", x), NotB(Cmp(x, "NEQ", y))))}
Body1 == Set(X, Apply(x, "ADD", Lit(1)))
Body2 == Set(Y, Apply(Apply(x, "SUB", y), "ADD", Apply(Lit(20), "SUB", x)))
Else  == {Null, Set(X, Apply(Lit(20), "SUB", Lit(3)))}

Wheres ==
    {Where(b, Body1, e) : b \in Conds, e \in Else}
      \cup {Where(b, Seq2(Where(c, Body1, d), Body2), e) :
              b \in Conds, c \in Conds, d \in Else, e \in Else}
      \cup {Where(b, Where(c, Where(Cmp(y, "GE", x), Body2, f), d), e) :
              b \in Conds, c \in Conds, d \in Else, e \in Else, f \in Else}

Scalars == {AllOf(Cmp(x, "GE", y)), AnyOf(OrB(Cmp(y, "GT", x), NotB(Cmp(x, "LT", Lit(3)))))}
Inner == {Body1, Where(Cmp(y, "LT", x), Body2, Body1), If(AnyOf(Cmp(y, "EQ", x)), Body1, Body2)}
Branches ==
    {If(c, s, t) : c \in Scalars, s \in Inner, t \in Else \cup Inner}
      \cup {While(c, Block(<<Set(X, Apply(x, "ADD", Lit(2))), s>>)) :
              c \in {AllOf(Cmp(x, "LT", Lit(6))), AnyOf(Cmp(Apply(x, "SUB", y), "LE", Lit(2)))},
              s \in {Null, Where(Cmp(x, "NEQ", y), Set(Y, Apply(y, "ADD", Lit(1))), Null),
                     If(AllOf(Cmp(x, "LT", y)), Null, Set(Y, Apply(y, "ADD", Lit(1))))}}

(* Reads and writes through the pointer, plain, gathered or by request; a
   request is only followed by a flush or another one.                      *)
Offset(n) == Apply(p, "SUB", Lit(n))
Fetch == {Set(X, Deref(p)), Set(X, Apply(Deref(Offset(4)), "ADD", y)),
          Set(X, Apply(y, "ROTATE", Lit(1))), Set(Y, Apply(x, "ROTATE", Lit(1))),
          Block(<<Set(Tmu0Addr, Apply(p, "SUB", Apply(y, "SHL", Lit(2)))), Body1, Receive(X)>>),
          Block(<<Set(Tmu0Addr, p), Set(Tmu0Addr, Offset(8)), Block(<<Receive(X), Receive(Y)>>)>>)}
Put == {Assign(Deref(p), y), Assign(Deref(Offset(4)), Apply(x, "ADD", y)),
        Block(<<Store(y, p), Flush>>), Block(<<Store(x, p), Store(Apply(y, "ADD", Lit(1)), Offset(4)), Flush>>)}
Transfers == {Block(<<f, g>>) : f \in Fetch, g \in Put} \cup {Block(<<g, f>>) : f \in Fetch, g \in Put}

Kernels1 ==
    {Kernel(n, s) : n \in {1}, s \in Wheres \cup Branches}
      \cup {Kernel(n, s) : n \in {0, 5}, s \in Branches \cup Transfers}

(* The lane's number as one operand of two.                                 *)
Kernels2 ==
    {Kernel(n, Block(<<Set(X, Apply(v, op, Var(ElemNum))), Assign(Deref(p), x)>>)) :
        n \in {0, 1}, v \in {x, y, p}, op \in {"ADD", "SUB"}}
============================================================================
