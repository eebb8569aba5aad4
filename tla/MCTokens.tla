------------------------------ MODULE MCTokens ------------------------------
(***************************************************************************)
(* Texts for Tokenisator: every short sequence of characters, and rows of  *)
(* a few words that the short ones have no place for.  "me" stands for     *)
(* meow, and a token has three characters.                                 *)
(***************************************************************************)
EXTENDS Lexis

CONSTANTS MaxLen, MaxPieces

MCLetters     == {"a", "m", "e", "z"}
MCCommentEnds == {".", " ", "nl"}     \* "nl" stands for the end of the line
MCSymbols     == MCCommentEnds \union {"+"}
MCMeow        == <<"m", "e">>
MCJunk        == {<<>>, <<"a">>, <<"+">>}

MCDictionary ==
    [w \in {<<".">>, <<"z">>, <<"z", "z">>, <<"a", "m">>} |->
        CASE w = <<".">>      -> [kind |-> "OPERATOR", val |-> 29]
          [] w = <<"z">>      -> [kind |-> "NUMBER", val |-> 0]
          [] w = <<"z", "z">> -> [kind |-> "NUMBER", val |-> 9]
          [] w = <<"a", "m">> -> [kind |-> "OPERATOR", val |-> 3]]

Pieces ==
    {<<"a", " ">>, <<"a", "a", "+">>, <<"a", "a", "a", " ">>, <<"a", "a", "a", "a", ".">>,
     <<"z", "z", " ">>, <<"z", " ">>, <<"a", "m", "nl">>, <<"'", "a", "'">>, <<"'", "z">>,
     <<"m", " ">>, <<"m", "e", "nl">>}

MCTexts ==
    SeqOf(MCLetters \union MCSymbols \union {"'"}, MaxLen)
        \union {FlattenSeq(s) : s \in SeqOf(Pieces, MaxPieces)}
=============================================================================
