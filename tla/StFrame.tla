------------------------------ MODULE StFrame ------------------------------
(***************************************************************************)
(* The name frames of the x86_64 backend (StFrame.h, StFrame.cpp): what    *)
(* the compiler believes about the stack of the code it emits.             *)
(* context->nf is a sequence of frames, innermost last; `root` marks a     *)
(* frame made with parent NULL.  Offsets and sizes are in words of INT_SZ. *)
(* A table entry also carries two things the code does not keep, used only *)
(* by properties: the node that declared the variable and the stack depth  *)
(* its offset meant when it was registered.                                *)
(***************************************************************************)
EXTENDS X86, FiniteSets

CONSTANT Names          \* variable names (idt_t)

VarOffset == [name : Names, off : Int, decl : Nat, slot : Int]

Nameframe == [root : BOOLEAN, nSub : Nat, pushed : Int, regSaved : 0 .. regStackSz,
              above : Nat, vars : Seq(VarOffset)]

createNF(root, nSub, regSaved) ==
    [root |-> root, nSub |-> nSub, pushed |-> 0, regSaved |-> regSaved,
     above |-> 0, vars |-> <<>>]

\* XPUSH / XPOP: the push counter of the innermost frame, if there is one.
Pushed(nf, k) ==
    IF nf = <<>> THEN nf ELSE [nf EXCEPT ![Len(nf)].pushed = @ + k]

\* registerVar with the default offset: the next word below the saved registers.
registerVar(nf, x, decl, bp) ==
    LET f   == nf[Len(nf)]
        off == -(f.above + 1 + f.regSaved)
    IN  [nf EXCEPT ![Len(nf)] =
            [f EXCEPT !.above = @ + 1,
                      !.vars  = Append(@, [name |-> x, off |-> off,
                                           decl |-> decl, slot |-> bp - off])]]

-----------------------------------------------------------------------------
(* getOffset                                                               *)

Declares(f, x) == \E i \in DOMAIN f.vars : f.vars[i].name = x

\* The frames the lookup visits: from the innermost to the first root.
Chain(nf) == {j \in DOMAIN nf : \A k \in j + 1 .. Len(nf) : ~ nf[k].root}

Owners(nf, x) == {j \in Chain(nf) : Declares(nf[j], x)}

Declared(nf, x) == Owners(nf, x) # {}

\* The frame where the lookup stops, and the first entry for x in its table.
Owner(nf, x) == CHOOSE j \in Owners(nf, x) : \A k \in Owners(nf, x) : k <= j

Entry(nf, x) ==
    LET vs == nf[Owner(nf, x)].vars
        i  == CHOOSE i \in DOMAIN vs :
                 vs[i].name = x /\ \A k \in 1 .. i - 1 : vs[k].name # x
    IN  vs[i]

\* What getOffset adds on its way back from frame j: nSub + pushed of j and
\* of every frame between j and the innermost.
Hops(nf, j) ==
    LET f[k \in Nat] == IF k < Len(nf) THEN nf[k].nSub + nf[k].pushed + f[k + 1]
                                       ELSE 0
    IN  f[j]

getOffset(nf, x) == Hops(nf, Owner(nf, x)) + Entry(nf, x).off

\* The depth that [rbp + getOffset(nf, x)] names, with rbp pointing at bp.
Addressed(nf, bp, x) == bp - getOffset(nf, x)

\* A name no frame of the chain knows gets the offset -1 byte (plus the hops):
\* the word written there straddles two slots.
Straddled(nf, bp) ==
    LET d == bp - Hops(nf, CHOOSE j \in Chain(nf) : \A k \in Chain(nf) : j <= k)
    IN  {d, d + 1}

\* mov [rbp + getOffset(x)], r  and  mov r, [rbp + getOffset(x)]
StoreVar(m, nf, x) ==
    IF Declared(nf, x)
      THEN Poke(m, {Addressed(nf, m.bp, x)}, Slot(Entry(nf, x).decl))
      ELSE Poke(m, Straddled(nf, m.bp), Junk)

Readable(m, nf, x) ==
    /\ Declared(nf, x)
    /\ Addressed(nf, m.bp, x) \in 1 .. Len(m.stk)
    /\ m.stk[Addressed(nf, m.bp, x)] = Slot(Entry(nf, x).decl)
=============================================================================
