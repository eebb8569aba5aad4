----------------------------- MODULE MCFrontEnd -----------------------------
(***************************************************************************)
(* Source texts for TLC: every text of up to three words over one word of  *)
(* each kind, every longer one over the words that the given-up attempts   *)
(* of the parser are about, and programs made of the larger constructs.    *)
(***************************************************************************)
EXTENDS FrontEnd

Words == {"ID", "NUM", "(", ")", "ENDL", "OUT", "FUNC", "VAR", "COMMA", "SET", "QQ", "TERN_Q",
          "TERN_C", "LAND", "LESS", "XOR", "ADD", "SUB", "MUL", "NOT", "WHILE", "INC", "ADDR",
          "VAL", "IN", "RET"}

Core == {"ID", "(", ")", "SET", "VAL", "SUB", "MUL", "TERN_Q", "TERN_C"}

UpTo(words, n) == UNION {[1..k -> words] : k \in 0..n}

\* Operands, and statements with an operand in them.
Operands ==
    {<<"ID">>, <<"NUM">>, <<"IN">>, <<"ADDR", "ID">>, <<"VAL", "ID">>, <<"INC", "ID">>,
     <<"ID", "(", ")">>, <<"ID", "(", "ID", "COMMA", "NUM", ")">>, <<"SUB", "ID">>,
     <<"NUM", "NUM">>, <<"(", "ID", "ENDL", "ID", ")">>, <<"VAL", "(", "ID", "ADD", "NUM", ")">>}

Infix == {<<"ADD">>, <<"SUB">>, <<"MUL">>, <<"LESS">>, <<"XOR">>, <<"LAND">>}

Pairs(operands) == {a \o o \o b : a, b \in operands, o \in Infix}

\* Those of the operands that a pair in a statement is made of.
Few == {<<"ID">>, <<"ID", "(", ")">>, <<"(", "ID", "ENDL", "ID", ")">>}

Three == {<<"ID">> \o o \o <<"NUM">> \o p \o <<"ID">> \o q \o <<"NUM">> : o, p, q \in Infix}

Statements(e) ==
    {e, <<"OUT">> \o e, <<"VAR", "ID", "SET">> \o e, <<"ID", "SET">> \o e,
     <<"VAL", "ID", "SET">> \o e, e \o <<"QQ">> \o e,
     e \o <<"TERN_Q">> \o e \o <<"TERN_C", "ID", "SET">> \o e,
     <<"WHILE", "(">> \o e \o <<")", "ID", "SET">> \o e,
     <<"FUNC", "ID", "(", "ID", ")", "F_ARG">> \o e,
     <<"FUNC", "ID", "(", "ID", "COMMA", "ID", ")", "F_ARG", "(">> \o e
        \o <<"ENDL">> \o e \o <<")">>}

Programs ==
    Three \cup Pairs(Operands) \cup UNION {Statements(e) : e \in Operands \cup Pairs(Few)}
          \cup UNION {{s \o <<"ENDL">> \o t : s, t \in Statements(e)} : e \in {<<"ID">>, <<"ID", "(", ")">>}}

Thunks == {<<"FUNC", "ID", "(", ")", "F_ARG">> \o e : e \in Operands}

\* Parentheses: a construct of each rank in them, on each side of each other.
Par(w) == <<"(">> \o w \o <<")">>

Constructs ==
    {<<"ID", o, "NUM">> : o \in {"ENDL", "SET", "QQ", "LAND", "LESS", "XOR", "ADD", "SUB", "MUL"}}
    \cup {<<o, "ID">> : o \in {"SUB", "NOT", "OUT", "VAR", "VAL"}}
    \cup {<<"ID", "TERN_Q", "NUM", "TERN_C", "ID">>, <<"WHILE", "(", "ID", ")", "NUM">>,
          <<"FUNC", "ID", "(", "ID", ")", "F_ARG", "NUM">>}

Around(w) ==
    UNION {{w \o o \o <<"ID">>, <<"ID">> \o o \o w} :
           o \in Infix \cup {<<"ENDL">>, <<"QQ">>, <<"TERN_Q", "NUM", "TERN_C">>}}
    \cup {<<o>> \o w : o \in {"SUB", "NOT", "OUT", "VAL"}}
    \cup {<<"ID", "TERN_Q">> \o w \o <<"TERN_C", "NUM">>, <<"ID", "(">> \o w \o <<")">>,
          <<"ID", "(">> \o w \o <<"COMMA", "NUM", ")">>, <<"ID", "(", "NUM", "COMMA">> \o w \o <<")">>,
          <<"ID", "SET">> \o w, <<"VAR", "ID", "SET">> \o w, <<"WHILE", "(">> \o w \o <<")", "ID">>,
          <<"WHILE", "(", "ID", ")">> \o w}

Twofold ==
    UNION {Around(Par(w)) : w \in Constructs}
    \cup UNION {Around(Par(v)) : v \in UNION {Around(Par(w)) :
             w \in {<<"WHILE", "(", "ID", ")", "NUM">>, <<"ID", "SUB", "NUM">>}}}

AllTexts == UpTo(Words, 3) \cup UpTo(Core, 4) \cup Programs \cup Thunks \cup Twofold
=============================================================================
