----------------------------- MODULE MCCodeGen -----------------------------
(***************************************************************************)
(* Families of program trees for model checking CodeGen.  A tree is built  *)
(* bottom-up as a node table; Null is the NULL pointer.  A family with an  *)
(* argument b holds trees for a place where b registers are in use.        *)
(***************************************************************************)
EXTENDS CodeGen, SequencesExt

MCNames == {"x", "y", "p", "q"}
MCWord  == 65536

Null == <<>>

\* The table of t with every index moved up by d.
Shifted(t, d) ==
    [i \in DOMAIN t |->
        [t[i] EXCEPT !.kids = [k \in DOMAIN @ |-> IF @[k] = 0 THEN 0 ELSE @[k] + d],
                     !.last = @ + d]]

\* The node `op` over the trees `subs`; `pre` are the nodes of its parameters.
TreeOf(op, names, pre, subs) ==
    LET off[i \in 1 .. Len(subs) + 1] ==
            IF i = 1 THEN 1 + Len(pre) ELSE off[i - 1] + Len(subs[i - 1])
        kid(i) == IF subs[i] = Null THEN 0 ELSE off[i] + 1
    IN  <<[op |-> op, names |-> names, last |-> off[Len(subs) + 1],
           kids |-> [i \in DOMAIN subs |-> kid(i)]]>>
        \o Shifted(pre, 1)
        \o FlattenSeq([i \in DOMAIN subs |-> Shifted(subs[i], off[i])])

Leaf(op, x) == TreeOf(op, IF x = "" THEN <<>> ELSE <<x>>, <<>>, <<>>)
Num    == Leaf("number", "")
X      == Leaf("ident", "x")
N(op, subs)      == TreeOf(op, <<>>, <<>>, subs)
Named(op, x, t)  == TreeOf(op, <<x>>, <<>>, <<t>>)
Function(ps, t)  ==
    TreeOf("func", ps, [i \in DOMAIN ps |-> Leaf("ident", ps[i])[1]], <<t>>)

\* b + (b + ... t): t starts with b registers in use.
Under0(b, t) ==
    [i \in 1 .. 2 * b |->
        IF i % 2 = 1
          THEN [op |-> "binary", names |-> <<>>, last |-> 2 * b + Len(t),
                kids |-> <<i + 1, IF i = 2 * b - 1 /\ t = Null THEN 0 ELSE i + 2>>]
          ELSE [Num[1] EXCEPT !.last = i]]
    \o Shifted(t, 2 * b)

\* var x = 0; t
WithX(t) == N("endl", <<Named("var", "x", Num), t>>)

-----------------------------------------------------------------------------
(* Trees one level deep over the atoms A(b), at a place where b registers  *)
(* are in use, of the shapes whose code is right there.                    *)

Atoms(b) == {Num, X, Null, Leaf("post", "x")}
MoreAtoms(b) == Atoms(b) \union {Leaf("addr", "x"), Leaf("pre", "x")}
                         \union (IF b <= 1 THEN {Leaf("in", "")} ELSE {})

Deep(b, A(_)) ==
    {N(op, <<l, r>>) : op \in TwoOperand \ (IF b = 0 THEN {"mod"} ELSE {}),
                       l \in A(b), r \in A(b + 1)}
    \union {N("compare", <<l, r>>) : l \in A(b + 1), r \in A(b + 2)}
    \union {N("logic", <<l, r>>) : l \in A(b), r \in A(b)}
    \union {N("unary", <<t>>) : t \in A(b)}
    \union {Named("set", "x", t) : t \in A(b)}
    \union {Named("var", "y", t) : t \in A(b)}
    \union {N("out", <<t>>) : t \in IF b <= 2 THEN A(b) ELSE {}}
    \union {N("endl", <<t, Null>>) : t \in A(b)}

\* Shapes whose code is right only where no register is in use.
Deep0(A(_)) ==
    {N("endl", <<l, r>>) : l \in A(0), r \in A(0)}
    \union {N("tern", <<c, l, r>>) : c \in {X, Null}, l \in A(0) \ {Null},
                                     r \in A(0) \ {Null}}
    \union {N("call", args) : args \in {<<>>} \union {<<a>> : a \in A(0) \ {Null}}}
    \union {N("call", <<k, l>>) : k \in A(0) \ {Null}, l \in A(0) \ {Null}}
    \union {Function(ps, t) : ps \in {<<"x">>, <<"y", "x">>}, t \in A(0)}
    \union {Function(<<>>, Num)}

\* Trees that declare no variable of the frame they are in: getVarCnt misses
\* declarations in arguments, initial values and the condition of ?:.
Quiet(S) == {t \in S : \A i \in DOMAIN t : t[i].op # "var"}

\* A declaration and a use of it.
Local == N("endl", <<Named("var", "y", X), N("binary", <<X, Leaf("ident", "y")>>)>>)

\* One operand deep, the others plain.
Mixed(D(_)) ==
    LET arms == D(0) \union {Local}
    IN  {N(op, <<t, X>>) : op \in {"binary", "div", "logic", "endl"}, t \in arms}
        \union {N("compare", <<t, X>>) : t \in D(1)}
        \union {N("binary", <<X, t>>) : t \in D(1)}
        \union {N(op, <<X, t>>) : op \in {"logic", "endl"}, t \in arms}
        \union {N("tern", <<t, X, Num>>) : t \in Quiet(D(0))}
        \union {N("tern", <<X, t, Num>>) : t \in arms}
        \union {N("tern", <<X, Num, t>>) : t \in arms}
        \union {N("call", <<X, t>>) : t \in Quiet(D(0))}
        \union {N("call", <<t, X>>) : t \in Quiet(D(0))}
        \union {Function(<<"p", "x">>, t) : t \in arms}
        \union {Named("var", "y", t) : t \in Quiet(D(0))}

-----------------------------------------------------------------------------
\* Every operator at every register depth the code generator serves without
\* spilling, with every choice of atoms.
ExprPrograms ==
    {WithX(Under0(b, t)) : b \in {0}, t \in Deep(0, MoreAtoms) \union Deep0(MoreAtoms)}
    \union UNION {{WithX(Under0(b, t)) : t \in Deep(b, Atoms)} : b \in 1 .. 8}

\* One operand one level deep inside every control structure that opens a
\* frame, saves registers or joins two paths.
FewAtoms(b) == {Num, X}
OneDeep(b)  == Deep(b, FewAtoms) \union (IF b = 0 THEN Deep0(FewAtoms) ELSE {})

\* Calls and functions with up to n arguments.
ArgList(n)   == [i \in 1 .. n |-> IF i % 2 = 0 THEN X ELSE N("unary", <<Num>>)]
ParamList(n) == [i \in 1 .. n |-> IF i = n THEN "x" ELSE IF i % 2 = 0 THEN "p" ELSE "q"]
Calls        == {N("call", ArgList(n)) : n \in 3 .. 6}
Functions    == {Function(ParamList(n), N("tern", <<X, Local, Leaf("pre", "x")>>)) :
                    n \in 1 .. 8}

\* Loops, where no statement follows them.
Loops(A(_)) == {N("while", <<c, b>>) : c \in A(1), b \in A(0) \union {Local}}
LoopPrograms ==
    LET loops == Loops(OneDeep) IN
    {WithX(t) : t \in loops}
    \union {WithX(N("tern", <<X, Num, t>>)) : t \in Loops(FewAtoms)}
    \union {WithX(N("while", <<X, t>>)) : t \in Loops(FewAtoms)}
    \union {WithX(Function(<<"x">>, t)) : t \in Loops(FewAtoms)}

NestedPrograms ==
    {WithX(t) : t \in Mixed(OneDeep) \union Calls \union Functions} \union LoopPrograms

ValuePrograms == ExprPrograms \union NestedPrograms

\* Every operator at every depth, spilled or not, right or wrong.
Wild(A) ==
    {N(op, <<l, r>>) : op \in TwoOperand \union {"compare", "qq", "logic", "while", "endl"},
                       l \in A, r \in A}
    \union {N(op, <<t>>) : op \in {"unary", "out"}, t \in A}
    \union {Named(op, "x", t) : op \in {"set", "var"}, t \in A}
    \union {N("tern", <<X, l, r>>) : l \in A, r \in A}
    \union {N("call", <<t, t>>) : t \in A \ {Null}}
    \union {Function(<<"x">>, t) : t \in A}
WildAtoms == {Num, X, Null, Leaf("in", ""), Leaf("unsup", ""), Leaf("stray", ""),
              Leaf("ident", "p"), Leaf("pre", "p")}
WildPrograms ==
    {WithX(Under0(b, t)) : b \in 0 .. 12, t \in Wild(WildAtoms)}
    \union {WithX(N("binary", <<Under0(b, Num), t>>)) : b \in 9 .. 12, t \in Wild({X, Num})}
    \union {WithX(N("endl", <<Under0(b, Num), X>>)) : b \in 9 .. 12}
    \union {WithX(N("call", ArgList(n))) : n \in 7 .. 8}

-----------------------------------------------------------------------------
(* One program for each disagreement between the code and what the         *)
(* repository says of it.                                                  *)

LoopThenStatement == {WithX(N("endl", <<N("while", <<X, Num>>), X>>))}

\* x / f(x).  With an operator that commutes the exchange of operands that the
\* run shows makes no difference.
CallAsOperand == {WithX(N("div", <<X, N("call", <<X>>)>>))}
=============================================================================
