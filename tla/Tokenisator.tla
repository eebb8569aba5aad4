----------------------------- MODULE Tokenisator -----------------------------
(***************************************************************************)
(* parseText: the characters of a source to the tokens that the syntax     *)
(* analyser reads (src/FrontEnd/cht/Tokenisator).  One step for each turn  *)
(* of its loop.                                                            *)
(*                                                                         *)
(* Words and keywords are sequences of characters; which characters there  *)
(* are, and the keywords, are constants, so that an instance can use short *)
(* ones.                                                                   *)
(***************************************************************************)
EXTENDS Integers, SequencesExt

CONSTANTS
    Letters,        \* isalnum, or '_'
    Symbols,        \* the other characters, without the quote
    CommentEnds,    \* those of them that end a comment: "'.;:,?!()-" SPACE_SYM
    Quote, Newline,
    Meow,           \* the word "meow"
    Dictionary,     \* what findKeyword knows: [word -> node]
    MAX_TOKEN_LEN, TABLE_INIT_SZ,
    Junk,           \* what the stack may hold behind the array token
    Texts           \* the sources

ASSUME CharacterAssumption ==
    /\ CommentEnds \subseteq Symbols /\ Newline \in CommentEnds
    /\ Quote \notin Letters \union Symbols /\ Letters \cap Symbols = {}

Characters == Letters \union Symbols \union {Quote}
Node       == [kind : {"NUMBER", "IDENTIFIER", "OPERATOR", "CUSTOM"}, val : Int]

ASSUME SizeAssumption == MAX_TOKEN_LEN \in Nat \ {0} /\ TABLE_INIT_SZ \in Nat \ {0}
ASSUME TextAssumption == \A t \in Texts \union Junk : t \in Seq(Characters)
ASSUME DictionaryAssumption ==
    \A w \in DOMAIN Dictionary : Dictionary[w] \in Node /\ Dictionary[w].kind # "IDENTIFIER"

VARIABLES
    text,           \* the source
    at,             \* position of the character *text; NULL is 0, the end Len + 1
    token,          \* the characters of the word so far
    idTable, tabCap,\* the identifiers, by id, and the capacity of the table
    list,           \* the nodes
    status          \* "runs", "done" or "crash"

vars == <<text, at, token, idTable, tabCap, list, status>>

NUL == Len(text) + 1

\* strpbrk, strchr: the first position from i on with one of cs, or NULL.
FirstOf(cs, i) ==
    LET found == {k \in i .. Len(text) : text[k] \in cs}
    IN  IF found = {} THEN 0 ELSE Min(found)

\* What strcmp and strdup see: a token as long as the array has no end.
Reads == IF Len(token) < MAX_TOKEN_LEN THEN {token} ELSE {token \o j : j \in Junk}

IsKeyword(w) == w \in DOMAIN Dictionary

-----------------------------------------------------------------------------
(* The list after the token is done.                                       *)

\* Digits are words of their own.  Mutant: the new digit is put in front.
DigitFirst(nodes, node) ==
    [nodes EXCEPT ![Len(nodes)].val = @ + 10 * node.val]

Digit(nodes, node) ==
    [nodes EXCEPT ![Len(nodes)].val = 10 * @ + node.val]

AddKeyword(nodes, node) ==
    IF nodes # <<>> /\ node.kind = "NUMBER" /\ Last(nodes).kind = "NUMBER"
    THEN Digit(nodes, node) ELSE Append(nodes, node)

Identifier(id) == [kind |-> "IDENTIFIER", val |-> id]

Known(w) == {id \in DOMAIN idTable : idTable[id] = w}

\* Ids start at 1, so that idTable[0] is free.  Mutant: the table grows when its
\* end has been passed.
ExpandLate == IF tabCap < Len(idTable) + 1 THEN 2 * tabCap ELSE tabCap

Expand == IF tabCap <= Len(idTable) + 1 THEN 2 * tabCap ELSE tabCap

\* The tables after an identifier.
Register(w) ==
    IF Known(w) # {}
    THEN [list |-> Append(list, Identifier(Min(Known(w)))), idTable |-> idTable, tabCap |-> tabCap]
    ELSE [list |-> Append(list, Identifier(Len(idTable) + 1)),
          idTable |-> Append(idTable, w), tabCap |-> Expand]

\* The tables after the word in token.
WordDone ==
    IF token = <<>> THEN {[list |-> list, idTable |-> idTable, tabCap |-> tabCap]}
    ELSE IF IsKeyword(token)
    THEN {[list |-> AddKeyword(list, Dictionary[token]), idTable |-> idTable, tabCap |-> tabCap]}
    ELSE {Register(w) : w \in Reads}

-----------------------------------------------------------------------------
Runs == status = "runs" /\ at # 0 /\ at # NUL

AtMeow == token = Meow

\* Mutant: the quote that ends a comment starts the next one.
CommentTwice ==
    /\ Runs /\ text[at] = Quote
    /\ at' = FirstOf(CommentEnds \union {Quote}, at + 1)
    /\ UNCHANGED <<text, token, idTable, tabCap, list, status>>

\* '...' or '... up to a separator, which is not part of the comment.  The token
\* goes on behind the comment.
Comment ==
    /\ Runs /\ text[at] = Quote
    /\ LET nxt == FirstOf(CommentEnds \union {Quote}, at + 1)
       IN  at' = IF nxt # 0 /\ text[nxt] = Quote THEN nxt + 1 ELSE nxt
    /\ UNCHANGED <<text, token, idTable, tabCap, list, status>>

\* meow ... meow.  Where the second meow is makes no difference: text = nxt2
\* follows without an else.  The token stays as it is.  strstr looks for it from
\* the length of a meow on; where that is behind the end of the text, it reads
\* what is not there and may stop the program.
MeowComment ==
    /\ Runs /\ text[at] # Quote /\ AtMeow
    /\ \/ at' = FirstOf({Newline}, at + 1)
       \/ at + Len(Meow) > NUL /\ at' = 0
    /\ UNCHANGED <<text, token, idTable, tabCap, list, status>>

\* Mutant: what is too long is not passed over.
LetterStuck ==
    /\ Runs /\ text[at] \in Letters /\ ~AtMeow
    /\ token' = IF Len(token) = MAX_TOKEN_LEN THEN token ELSE Append(token, text[at])
    /\ at' = IF Len(token) = MAX_TOKEN_LEN THEN at ELSE at + 1
    /\ UNCHANGED <<text, idTable, tabCap, list, status>>

Letter ==
    /\ Runs /\ text[at] \in Letters /\ ~AtMeow
    /\ token' = IF Len(token) = MAX_TOKEN_LEN THEN token ELSE Append(token, text[at])
    /\ at' = at + 1
    /\ UNCHANGED <<text, idTable, tabCap, list, status>>

\* Any other character ends the word before it, and may be a keyword itself.
Symbol ==
    /\ Runs /\ text[at] \in Symbols /\ ~AtMeow
    /\ \E s \in WordDone :
         /\ list' = IF IsKeyword(<<text[at]>>)
                    THEN Append(s.list, Dictionary[<<text[at]>>]) ELSE s.list
         /\ idTable' = s.idTable /\ tabCap' = s.tabCap
    /\ token' = <<>> /\ at' = at + 1
    /\ UNCHANGED <<text, status>>

\* The loop ends at the NUL, whatever is in token; it does not ask for NULL.
End ==
    /\ status = "runs" /\ at \in {0, NUL}
    /\ status' = IF at = NUL THEN "done" ELSE "crash"
    /\ UNCHANGED <<text, at, token, idTable, tabCap, list>>

-----------------------------------------------------------------------------
Init ==
    /\ text \in Texts
    /\ at = 1 /\ token = <<>>
    /\ idTable = <<>> /\ tabCap = TABLE_INIT_SZ
    /\ list = <<>> /\ status = "runs"

Next == Comment \/ MeowComment \/ Letter \/ Symbol \/ End

\* A loop of one thread: it takes its next turn.
Spec == Init /\ [][Next]_vars /\ WF_vars(Next)

-----------------------------------------------------------------------------
\* Types.  The table of identifiers has a place for the next one, an identifier
\* in the list is one of the table, and no word is in the table twice.
TypeOK ==
    /\ text \in Seq(Characters) /\ token \in Seq(Letters) /\ idTable \in Seq(Seq(Characters))
    /\ tabCap \in Nat /\ list \in Seq(Node)
    /\ at \in 0 .. NUL /\ status \in {"runs", "done", "crash"}
    /\ Len(token) <= MAX_TOKEN_LEN /\ Len(idTable) < tabCap
    /\ \A k \in DOMAIN list : list[k].kind = "IDENTIFIER" => list[k].val \in DOMAIN idTable
    /\ IsInjective(idTable)

\* parseText ends, also where it skips what is too long for a token.
Terminates == <>(status # "runs")
=============================================================================
