------------------------------- MODULE MCAsm -------------------------------
(***************************************************************************)
(* Programs for model checking AsmCodeGen against Meaning.  A program is   *)
(* written as a tree of records and turned into its node table; Null is    *)
(* the NULL pointer.  No program of MCPrograms evaluates || or ??, has a   *)
(* call, declaration or loop in an argument after the first, or uses the   *)
(* value of a loop that makes no round: there the code and LangTree.h      *)
(* differ.                                                                 *)
(***************************************************************************)
EXTENDS AsmCodeGen, SequencesExt

MCInput == <<3, 1, 2>>
MCBase  == 1000
MCJunk  == -7777

Nd(op, arg, num, params, kids) ==
    [op |-> op, arg |-> arg, num |-> num, params |-> params, kids |-> kids]
Null       == Nd("null", "", 0, <<>>, <<>>)
Num(v)     == Nd("number", "", v, <<>>, <<>>)
Id(x)      == Nd("ident", x, 0, <<>>, <<>>)
Leaf(op)   == Nd(op, "", 0, <<>>, <<>>)
N(op, arg, kids) == Nd(op, arg, 0, <<>>, kids)
Bump(op, x, d)   == Nd(op, x, d, <<>>, <<>>)
Fun(f, ps, body) == Nd("func", f, 0, ps, <<body>>)
Ap(f, args)      == N("call", f, args)
Decl(x, t)       == N("var", x, <<t>>)
Asg(x, t)        == N("set", x, <<t>>)
Show(t)          == N("out", "", <<t>>)
Add(a, b)        == N("binary", "ADD", <<a, b>>)
Sub(a, b)        == N("binary", "SUB", <<a, b>>)
If(c, a, b)      == N("tern", "", <<c, a, b>>)
Rep(c, b)        == N("while", "", <<c, b>>)
At0(t)           == N("val", "", <<t>>)
Ref(x)           == N("addr", x, <<>>)
Put(a, v)        == N("setmem", "", <<a, v>>)

\* The statements ts, one after the other.
Block(ts) == FoldRight(LAMBDA t, acc : IF acc = Null THEN N("endl", "", <<t, Null>>)
                                       ELSE N("endl", "", <<t, acc>>), ts, Null)

\* The node table of t when its root is node `at`, and those of ts in a row.
RECURSIVE Table(_, _), Tables(_, _)
Tables(ts, at) ==
    IF ts = <<>> THEN <<>>
    ELSE LET one == IF Head(ts).op = "null" THEN <<>> ELSE Table(Head(ts), at)
         IN  <<one>> \o Tables(Tail(ts), at + Len(one))
Table(t, at) ==
    LET sub == Tables(t.kids, at + 1)
        Root(k) == IF sub[k] = <<>> THEN 0
                   ELSE at + 1 + Len(FlattenSeq(SubSeq(sub, 1, k - 1)))
    IN  <<[t EXCEPT !.kids = [k \in DOMAIN @ |-> Root(k)]]>> \o FlattenSeq(sub)

-----------------------------------------------------------------------------
x == Id("x")
y == Id("y")
n == Id("n")

(* Operators: every pair of operands, with what they leave behind shown.   *)
Atoms == {Num(2), x, Leaf("in"), Bump("post", "x", 1), Bump("pre", "x", -1),
          Asg("x", Num(4)), Decl("y", x), Ap("inc", <<x>>), Show(x)}
F1 == Fun("inc", <<"n">>, Add(n, Num(1)))

Binaries == {N("binary", o, <<a, b>>) : o \in {"SUB"}, a \in Atoms, b \in Atoms}
            \union {N("binary", o, <<x, Num(2)>>) : o \in {"ADD", "MUL"}}
Compares == {N("compare", o, <<a, b>>) :
                o \in {"LESS", "GRTR", "LESS_EQ", "GRTR_EQ", "EQUAL", "NON_EQ"},
                a \in {Num(1), x}, b \in {Leaf("in"), Num(2), Num(5)}}
Logics   == {N("land", "", <<a, b>>) : a \in {Num(0), x}, b \in Atoms \union {Num(0)}}
            \union {N("not", "", <<a>>) : a \in Atoms \union {Num(0)}}
Branches == {If(c, a, b) : c \in {Num(0), x, N("compare", "LESS", <<x, Num(1)>>)},
                           a \in Atoms, b \in {Num(7), Leaf("in")}}
            \union {If(Num(0), a, Num(7)) :
                      a \in {Leaf("unsup"), N("lor", "", <<x, x>>), N("qq", "", <<x, Num(2)>>)}}
Exprs == Binaries \union Compares \union Logics \union Branches

\* e in the main program, in a loop, in a function with a loop, as a first argument.
InMain(e) == Block(<<F1, Decl("x", Num(3)), Show(e), x>>)
InLoop(e) == Block(<<F1, Decl("x", Num(3)), Decl("k", Num(2)),
                     Rep(Bump("post", "k", -1), Show(e)), x>>)
InFunc(e) == Block(<<F1, Fun("f", <<"k", "x">>,
                             Block(<<Show(Rep(Id("k"), Block(<<Bump("pre", "k", -1), e>>))), x>>)),
                     Ap("f", <<Num(2), Num(3)>>)>>)
InRight(e) == Block(<<F1, Decl("x", Num(3)), Show(Sub(x, e)), If(e, x, Num(9))>>)
InArg(e)  == Block(<<F1, Fun("f", <<"p", "q">>, Sub(Id("p"), Id("q"))), Decl("x", Num(3)),
                     Show(Add(x, Ap("f", <<e, x>>))), x>>)

(* Functions, frames, loops and memory. *)
Down(body) == Rep(x, Block(<<body, Bump("post", "x", -1)>>))
Bodies == {Show(x), Show(Ap("inc", <<x>>)), Decl("y", Add(x, x)),
           Block(<<Decl("y", Num(2)), Rep(y, Block(<<Show(Sub(x, y)), Asg("y", Sub(y, Num(1)))>>)), Show(x)>>),
           Asg("z", Add(Id("z"), x)),
           If(N("compare", "EQUAL", <<x, Num(2)>>), Show(x), Null),
           Put(Ref("z"), Add(At0(Ref("z")), Num(10)))}
Looping(b) == Block(<<F1, Decl("z", Num(5)), Decl("x", Num(3)), Show(Down(b)), Show(Id("z")), x>>)

Sum3 == Fun("sum", <<"a", "b", "n">>,
            Block(<<Decl("y", Sub(Id("a"), Id("b"))), Show(y), Sub(y, n)>>))
Fact == Fun("fact", <<"n">>,
            If(n, Add(n, Ap("fact", <<Sub(n, Num(1))>>)), Num(0)))
\* Recursion with a local on either side of the call.
Tree == Fun("tree", <<"n", "k">>,
            If(n, Block(<<Decl("l", Ap("tree", <<Sub(n, Num(1)), Id("k")>>)),
                          Decl("r", Ap("tree", <<Sub(n, Num(1)), Id("l")>>)),
                          Show(Id("l")), Add(Id("l"), Id("r"))>>),
                  Id("k")))
SetAt == Fun("put", <<"p", "v">>, Block(<<Put(Id("p"), Id("v")), At0(Id("p"))>>))
Swap  == Fun("swap", <<"p", "q">>,
             Block(<<Decl("t", At0(Id("p"))), Put(Id("p"), At0(Id("q"))), Put(Id("q"), Id("t"))>>))
LoopF == Fun("count", <<"n">>,
             Block(<<Decl("s", Num(0)),
                     Rep(n, Block(<<Decl("y", Ap("inc", <<n>>)), Asg("s", Add(Id("s"), y)),
                                    Bump("pre", "n", -1)>>)),
                     Id("s")>>))
Outer == Fun("outer", <<"x">>, Block(<<F1, Ap("inc", <<Ap("inc", <<x>>)>>)>>))

\* A function with k parameters shows its last two; 31 of them fill the table.
Names32 == [k \in 1 .. 32 |-> "v" \o ToString(k)]
Wide(k) == Block(<<Fun("wide", SubSeq(Names32, 1, k),
                       Sub(Id(Names32[k - 1]), Id(Names32[k]))),
                   Ap("wide", [j \in 1 .. k |-> Num(j * j)])>>)

Others ==
    {Looping(b) : b \in Bodies}
    \union {Block(<<Sum3, Decl("x", Num(3)), Show(Ap("sum", <<a, b, c>>)), x>>) :
              a \in {x, Leaf("in"), Ap("sum", <<x, Num(1), x>>), Decl("y", Num(2))},
              b \in {x, Num(1), Bump("post", "x", 1), Show(x)},
              c \in {x, Asg("x", Num(9))}}
    \union {Block(<<Fact, Show(Ap("fact", <<Num(k)>>)), Ap("fact", <<Leaf("in")>>)>>) : k \in 0 .. 3}
    \union {Block(<<Tree, Ap("tree", <<Num(k), Num(1)>>)>>) : k \in 0 .. 2}
    \union {Block(<<SetAt, Decl("x", Num(1)), Decl("y", Num(2)),
                    Show(Ap("put", <<Ref(v), Num(8)>>)), Show(x), y>>) : v \in {"x", "y"}}
    \union {Block(<<Swap, Decl("x", Num(1)), Decl("y", Num(2)),
                    Ap("swap", <<Ref("x"), Ref("y")>>), Show(x), y>>)}
    \union {Block(<<F1, LoopF, Show(Ap("count", <<Num(k)>>)), Ap("count", <<Ap("count", <<Num(2)>>)>>)>>) :
              k \in 0 .. 2}
    \union {Block(<<Outer, Decl("x", Num(6)), Show(Ap("outer", <<Num(1)>>)), x>>)}
    \union {Wide(2), Wide(31)}
    \union {Block(<<F1, Decl("x", Num(1)), Rep(N("compare", "LESS", <<x, Num(3)>>),
                    Block(<<Decl("w", x), Show(Ap("inc", <<Id("w")>>)), Asg("x", Add(x, Id("w")))>>)),
                    x>>)}
    \union {Block(<<Decl("x", Num(1)), Decl("x", Num(2)), Show(x), Asg("x", Num(3)), x>>)}
    \union {N("endl", "", <<Null, Num(1)>>), Num(4)}

\* An argument after the first that calls: sum(x, 1, inc(x)).
ArgPrograms ==
    {Table(Block(<<F1, Sum3, Decl("x", Num(3)), Ap("sum", <<x, Num(1), Ap("inc", <<x>>)>>)>>), 1)}

MCPrograms == {Table(t, 1) : t \in UNION {{InMain(e), InLoop(e), InFunc(e), InRight(e), InArg(e)} : e \in Exprs} \union Others}

-----------------------------------------------------------------------------
(* The code that backend() writes keeps the promise of Meaning: what it    *)
(* prints is what the program prints, word by word, and when it halts it   *)
(* has printed all of it, the value of the program last.                   *)
Source == INSTANCE Meaning WITH printed <- m.printed, over <- m.halted
KeepsPromise == Source!Spec
=============================================================================
