------------------------------- MODULE Parser -------------------------------
(***************************************************************************)
(* The syntax analyser (src/FrontEnd/cht/SyntaxAnal): recursive descent    *)
(* over the array of tokens.  The tokens are the nodes of the tree: a rule *)
(* links the nodes it has consumed to each other, in place.  A rule that   *)
(* fails gives its context back to the caller unchanged, because contexts  *)
(* are passed by value, but the links it made stay in the shared array.    *)
(***************************************************************************)
EXTENDS Integers, Sequences

Null == 0

\* newNode: the token of a given kind, not linked to anything.
NewNode(kind) == [kind |-> kind, left |-> Null, right |-> Null]

\* SyntaxContext, with the node array it points into.  n is nParsed: negative
\* after a failure.
Context(nodes) == [nodes |-> nodes, cur |-> 1, n |-> 0, root |-> Null]

Failed(c) == [c EXCEPT !.n = -1]

\* Context c again, after an attempt d that was given up.
Back(c, d) == [c EXCEPT !.nodes = d.nodes]

\* getOpr, getCustom, getNumber and getId: consume one token of this kind.
Match(c, kind) ==
    IF c.nodes[c.cur].kind = kind
    THEN [c EXCEPT !.nodes[c.cur] = NewNode(kind), !.root = c.cur, !.cur = @ + 1, !.n = 1]
    ELSE Failed(c)

(***************************************************************************)
(* The steps of a rule.  Each leaves a failed context alone: that is the   *)
(* early return of REQUIRE, REQUIRE_OPR and REQUIRE_CUSTOM.                *)
(***************************************************************************)
Require(c, kind) == IF c.n < 0 THEN c ELSE Match(c, kind)

SetLeft(c, node, kid)  == IF c.n < 0 THEN c ELSE [c EXCEPT !.nodes[node].left = kid]
SetRight(c, node, kid) == IF c.n < 0 THEN c ELSE [c EXCEPT !.nodes[node].right = kid]

Return(c, root, n) == IF c.n < 0 THEN c ELSE [c EXCEPT !.root = root, !.n = n]

\* The rule of a name, defined below.
RECURSIVE Get(_, _)

\* TRY, one rule after the other: the first that consumes something, or c as
\* the attempts have left it.
RECURSIVE Try(_, _)
Try(c, rules) ==
    IF rules = <<>> THEN [hit |-> FALSE, c |-> c]
    ELSE LET d == Get(Head(rules), c)
         IN  IF d.n > 0 THEN [hit |-> TRUE, c |-> d] ELSE Try(Back(c, d), Tail(rules))

(***************************************************************************)
(* getOprLadder: rule {opr rule}*, linked to the right: every operator     *)
(* takes the right operand of the one before it as its left operand.  The  *)
(* code asks whether the context it was called with has failed, not the    *)
(* one the first operand has returned, so a ladder may start without its   *)
(* first operand.                                                          *)
(***************************************************************************)

\* Mutant of Link: every operator is linked like the first of its ladder.
LinkFirst(nodes, c, last, opr, operand) ==
    [nodes EXCEPT ![opr].left = c.root, ![opr].right = operand]

Link(nodes, c, last, opr, operand) ==
    IF last = Null
    THEN [nodes EXCEPT ![opr].left = c.root, ![opr].right = operand]
    ELSE [nodes EXCEPT ![opr].left = nodes[last].right, ![opr].right = operand,
                       ![last].right = opr]

RECURSIVE Rungs(_, _, _, _)
Rungs(c, oprs, rule, last) ==
    LET opr  == c.cur
        next == Get(rule, Match(c, c.nodes[opr].kind))
    IN  IF c.nodes[opr].kind \notin oprs THEN c
        ELSE IF next.n < 0 THEN Back(c, next)
        ELSE Rungs([nodes |-> Link(next.nodes, c, last, opr, next.root),
                    cur   |-> next.cur,
                    n     |-> c.n + next.n + 1,
                    root  |-> IF last = Null THEN opr ELSE c.root], oprs, rule, opr)

OprLadder(c, oprs, rule) == IF c.n < 0 THEN c ELSE Rungs(Get(rule, c), oprs, rule, Null)

-----------------------------------------------------------------------------
(***************************************************************************)
(* The rules of the grammar.                                               *)
(***************************************************************************)
Expr(c) == OprLadder(c, {"ENDL"}, "Line")

Line(c) ==
    LET out  == Match(c, "OUT")
        line == Get("OLine", IF out.n >= 0 THEN out ELSE c)
    IN  IF out.n < 0 THEN line
        ELSE Return(SetRight(line, out.root, line.root), out.root, line.n + out.n)

\* A line may be empty: then nothing is consumed and nParsed is the caller's.
OLine(c) ==
    LET t == Try(c, <<"DeclF", "DeclV", "Asg", "Opt">>)
    IN  IF t.hit THEN t.c ELSE [t.c EXCEPT !.root = Null]

\* A function: without its body, where that fails, the rule goes on.
Function(head, body, arg, func, own) ==
    IF head.n >= 0 /\ body.n < 0
    THEN [body EXCEPT !.root = func.root, !.n = own]
    ELSE Return(SetRight(body, arg.root, body.root), func.root, own + body.n)

DeclF(c) ==
    LET func == Require(c, "FUNC")
        id   == Require(func, "ID")
        parL == Require(SetLeft(id, func.root, id.root), "(")
        args == OprLadder(parL, {"COMMA"}, "Id")
        parR == Require(SetRight(args, func.root, args.root), ")")
        arg  == Require(parR, "F_ARG")
        head == SetRight(SetLeft(arg, arg.root, args.root), func.root, arg.root)
    IN  Function(head, Get("Line", head), arg, func,
                 func.n + id.n + parL.n + args.n + parR.n + arg.n)

\* A variable and its initial value, without it where that fails.
Variable(decl, line, var, own) ==
    IF line.n < 0 THEN Return(Back(decl, line), var.root, own)
    ELSE Return(SetRight(line, var.root, line.root), var.root, line.n + own + 1)

DeclV(c) ==
    LET var  == Require(c, "VAR")
        id   == Require(var, "ID")
        decl == SetLeft(id, var.root, id.root)
        set  == Require(decl, "SET")
    IN  IF set.n < 0 THEN Return(decl, var.root, var.n + id.n)
        ELSE Variable(decl, Get("Line", set), var, var.n + id.n)

Asg(c) ==
    LET lval == Get("Lval", c)
        set  == Require(lval, "SET")
        line == Get("Line", SetLeft(set, set.root, lval.root))
    IN  Return(SetRight(line, set.root, line.root), set.root, lval.n + set.n + line.n)

\* L ?? R, with R being line; without one it is the L before it.
Qq(c, qq, line) ==
    IF line.n < 0 THEN Back(c, line)
    ELSE Return(SetRight(SetLeft(line, qq.root, c.root), qq.root, line.root),
                qq.root, line.n + c.n)

\* Mutant of TernQ: both arms are the first one.
TernQTwice(c, ternQ) ==
    LET then  == Get("Line", SetLeft(ternQ, ternQ.root, c.root))
        ternC == Require(then, "TERN_C")
        arms  == SetLeft(SetRight(ternC, ternQ.root, ternC.root), ternC.root, then.root)
        els   == Get("Line", arms)
    IN  Return(SetRight(els, ternC.root, then.root), ternQ.root, els.n)

TernQ(c, ternQ) ==
    LET then  == Get("Line", SetLeft(ternQ, ternQ.root, c.root))
        ternC == Require(then, "TERN_C")
        arms  == SetLeft(SetRight(ternC, ternQ.root, ternC.root), ternC.root, then.root)
        els   == Get("Line", arms)
    IN  Return(SetRight(els, ternC.root, els.root), ternQ.root,
               c.n + ternQ.n + then.n + ternC.n + els.n)

Opt(c) ==
    LET rval  == Get("Logic", c)          \* Rval is Logic
        qq    == Match(rval, "QQ")
        ternQ == Match(rval, "TERN_Q")
    IN  IF rval.n < 0 THEN rval
        ELSE IF qq.n >= 0 THEN Qq(rval, qq, Get("Line", qq))       \* then there is no TERN_Q
        ELSE IF ternQ.n >= 0 THEN TernQ(rval, ternQ)
        ELSE rval

\* Logic, Comp, Binary, Sum and Mul: a ladder that has to consume something.
Level(c, oprs, rule) ==
    LET l == OprLadder(c, oprs, rule) IN IF l.n <= 0 THEN Failed(l) ELSE l

Neg(c) ==
    LET sub == Match(c, "SUB")
        not == Match(c, "NOT")
        opr == IF sub.n > 0 THEN sub ELSE not
        p   == Get("P", IF opr.n > 0 THEN opr ELSE c)
    IN  IF opr.n < 0 THEN p
        ELSE Return(SetRight(p, opr.root, p.root), opr.root, opr.n + p.n)

P(c) ==
    LET t    == Try(c, <<"Wh", "DIFF">>)
        parL == Match(t.c, "(")
        expr == Get("Expr", parL)
        parR == Require(expr, ")")
    IN  IF t.hit THEN t.c
        ELSE IF parL.n >= 0 THEN Return(parR, expr.root, parR.n + 2)
        ELSE Get("Basic", t.c)

Wh(c) ==
    LET while == Require(c, "WHILE")
        parL  == Require(while, "(")
        cond  == Get("Expr", parL)
        parR  == Require(SetLeft(cond, while.root, cond.root), ")")
        line  == Get("Line", parR)
    IN  Return(SetRight(line, while.root, line.root), while.root,
               line.n + while.n + parL.n + cond.n + parR.n)

Basic(c) ==
    LET t == Try(c, <<"Number", "Call", "Unary", "Addr", "Lval">>)
    IN  IF t.hit THEN t.c ELSE Require(t.c, "IN")

\* The left parenthesis becomes the CALL operator, for good.
Call(c) ==
    LET id   == Require(c, "ID")
        parL == Require(id, "(")
        args == OprLadder(SetLeft(parL, parL.root, id.root), {"COMMA"}, "Line")
        parR == Require(SetRight(args, parL.root, args.root), ")")
        call == IF parR.n < 0 THEN parR ELSE [parR EXCEPT !.nodes[parL.root].kind = "CALL"]
    IN  Return(call, parL.root, id.n + parL.n + args.n + parR.n)

\* The postfix operators return the context from before the operator.
Unary(c) ==
    LET pre  == IF Match(c, "INC").n > 0 THEN Match(c, "INC") ELSE Match(c, "DEC")
        lval == Get("Lval", IF pre.n > 0 THEN pre ELSE c)
        post == IF Match(lval, "INC").n > 0 THEN Match(lval, "INC") ELSE Match(lval, "DEC")
    IN  IF lval.n < 0 THEN lval
        ELSE IF pre.n > 0
             THEN Return(SetRight(lval, pre.root, lval.root), pre.root, pre.n + lval.n)
        ELSE IF post.n < 0 THEN post
        ELSE Return(Back(lval, SetLeft(post, post.root, lval.root)), post.root, lval.n + post.n)

Lval(c) ==
    LET t   == Try(c, <<"Id">>)
        val == Require(t.c, "VAL")
        p   == Get("P", val)
    IN  IF t.hit THEN t.c ELSE Return(SetRight(p, val.root, p.root), val.root, p.n + val.n)

DIFF(c) ==
    LET diff == Require(c, "DIFF")
        parL == Require(diff, "(")
        sum  == Get("Sum", parL)
        parR == Require(SetRight(sum, diff.root, sum.root), ")")
    IN  Return(parR, diff.root, diff.n + parL.n + sum.n + parR.n)

Addr(c) ==
    LET addr == Require(c, "ADDR")
        id   == Require(addr, "ID")
    IN  Return(SetRight(id, addr.root, id.root), addr.root, addr.n + id.n)

Get(rule, c) ==
    IF c.n < 0 THEN c
    ELSE CASE rule = "Expr"   -> Expr(c)
           [] rule = "Line"   -> Line(c)
           [] rule = "OLine"  -> OLine(c)
           [] rule = "DeclF"  -> DeclF(c)
           [] rule = "DeclV"  -> DeclV(c)
           [] rule = "Asg"    -> Asg(c)
           [] rule = "Opt"    -> Opt(c)
           [] rule = "Logic"  -> Level(c, {"LAND", "LOR"}, "Comp")
           [] rule = "Comp"   -> Level(c, {"LESS", "LESS_EQ", "GRTR", "GRTR_EQ", "EQUAL", "NON_EQ"},
                                       "Binary")
           [] rule = "Binary" -> Level(c, {"AND", "OR", "XOR", "SHL", "SHR"}, "Sum")
           [] rule = "Sum"    -> Level(c, {"ADD", "SUB"}, "Mul")
           [] rule = "Mul"    -> Level(c, {"MUL", "DIV", "MOD"}, "Neg")
           [] rule = "Neg"    -> Neg(c)
           [] rule = "P"      -> P(c)
           [] rule = "Wh"     -> Wh(c)
           [] rule = "DIFF"   -> DIFF(c)
           [] rule = "Basic"  -> Basic(c)
           [] rule = "Number" -> Match(c, "NUM")
           [] rule = "Call"   -> Call(c)
           [] rule = "Unary"  -> Unary(c)
           [] rule = "Addr"   -> Addr(c)
           [] rule = "Lval"   -> Lval(c)
           [] rule = "Id"     -> Match(c, "ID")

\* getG: an expression, and nothing but the closing NONE node behind it.
G(nodes) ==
    LET expr == Get("Expr", Context(nodes))
    IN  IF expr.n < 0 THEN expr
        ELSE IF expr.cur = Len(nodes) THEN [expr EXCEPT !.n = @ + 1, !.cur = @ + 1]
        ELSE Failed(expr)
=============================================================================
