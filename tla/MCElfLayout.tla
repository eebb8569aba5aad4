---------------------------- MODULE MCElfLayout ----------------------------
(* Code sizes around every boundary of the layout: one byte, the end of    *)
(* each page with and without the 48 bytes of the PLT, the start of the    *)
(* dynamic section, and the first size the buffer has to grow for.         *)
EXTENDS ElfLayout

Around(n) == (n - 3) .. (n + 3)

Sizes ==
    1 .. 8 \union
    UNION {Around(k * Page) \union Around(k * Page - PltSz) : k \in 1 .. 6} \union
    Around(DynStart - CodeStart) \union Around(DynStart + Page - CodeStart)
=============================================================================
