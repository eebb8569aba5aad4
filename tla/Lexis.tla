------------------------------- MODULE Lexis -------------------------------
(***************************************************************************)
(* What the tokens of a text are, said of the whole text at once: the      *)
(* reference definition for parseText, and the properties that compare     *)
(* the two.                                                                *)
(***************************************************************************)
EXTENDS Tokenisator

\* The end of the comment that starts text t, 0 if it has none.
CommentEnd(t) ==
    LET ends == {k \in 2 .. Len(t) : t[k] \in CommentEnds \union {Quote}}
    IN  IF ends = {} THEN 0 ELSE Min(ends)

\* t without its '...' comments.
RECURSIVE Plain(_)
Plain(t) ==
    IF t = <<>> THEN <<>>
    ELSE IF Head(t) # Quote THEN <<Head(t)>> \o Plain(Tail(t))
    ELSE LET e == CommentEnd(t)
         IN  IF e = 0 THEN <<>>
             ELSE Plain(SubSeq(t, IF t[e] = Quote THEN e + 1 ELSE e, Len(t)))

RECURSIVE Unfinished(_)
Unfinished(t) ==
    /\ t # <<>>
    /\ IF Head(t) # Quote THEN Unfinished(Tail(t))
       ELSE LET e == CommentEnd(t)
            IN  e = 0 \/ Unfinished(SubSeq(t, IF t[e] = Quote THEN e + 1 ELSE e, Len(t)))

\* The words and symbols of p.  Only what a symbol follows is a word.
RECURSIVE Words(_)
Words(p) ==
    LET ends == {k \in DOMAIN p : p[k] \in Symbols}
        e    == Min(ends)
    IN  IF ends = {} THEN <<>>
        ELSE (IF e = 1 THEN <<>> ELSE <<SubSeq(p, 1, e - 1)>>)
             \o <<<<p[e]>>>> \o Words(SubSeq(p, e + 1, Len(p)))

\* Those that make a token: symbols that are no keywords separate only.
Lexemes(t) ==
    LET Counts(w) == IsKeyword(w) \/ w[1] \in Letters
    IN  SelectSeq(Words(Plain(t)), Counts)

IsDigit(w) == IsKeyword(w) /\ Dictionary[w].kind = "NUMBER"

\* A row of digits is one number, read from the left.
Row(l, i) == {j \in i .. Len(l) : \A k \in i .. j : IsDigit(l[k])}

Value(l, i) ==
    LET last == Max(Row(l, i))
    IN  FoldFunction(LAMBDA d, n : d + n, 0,
                     [j \in Row(l, i) |-> Dictionary[l[j]].val * 10 ^ (last - j)])

Expected(t) ==
    LET l      == Lexemes(t)
        starts == {i \in DOMAIN l : ~(IsDigit(l[i]) /\ i > 1 /\ IsDigit(l[i - 1]))}
        s      == [k \in 1 .. Cardinality(starts) |->
                    CHOOSE i \in starts : Cardinality({j \in starts : j <= i}) = k]
        Token(w, i) == IF IsDigit(w) THEN [kind |-> "NUMBER", val |-> Value(l, i)]
                       ELSE IF IsKeyword(w) THEN Dictionary[w]
                       ELSE [kind |-> "IDENTIFIER", val |-> w]
    IN  [k \in DOMAIN s |-> Token(l[s[k]], s[k])]

Short(w) == Len(w) < MAX_TOKEN_LEN

\* The list has the tokens of the text, in their order: comments leave nothing
\* behind, a row of digits is one number, and two names have the same id if and
\* only if they are the same, as far as they are short enough to have an end
\* (names of MAX_TOKEN_LEN characters are read beyond the array).
TokensRight ==
    status = "done" =>
        LET e     == Expected(text)
            names == {k \in DOMAIN e : e[k].kind = "IDENTIFIER"}
        IN  /\ DOMAIN list = DOMAIN e
            /\ \A k \in DOMAIN e :
                 list[k].kind = e[k].kind /\ (k \notin names => list[k].val = e[k].val)
            /\ \A j, k \in names : Short(e[j].val) =>
                 (list[j].val = list[k].val <=> e[j].val = e[k].val)

\* Where words start that begin with meow and have something behind it.
Meows(t) ==
    LET p == Plain(t)
    IN  {k \in DOMAIN p : /\ k = 1 \/ p[k - 1] \in Symbols
                          /\ IsStrictPrefix(Meow, SubSeq(p, k, Len(p)))}

\* A text in which no word begins with meow and every '...' comment has its end
\* is read to its end: the NULL that strpbrk gives for a comment without end is
\* the only one that is followed (Tokenisator.cpp:38).  Nothing is said of texts
\* with a meow: LangSyntax.md:11 has them closed by a second one, and the code
\* follows NULL for every one of them (:52).
QuotesEnd == Meows(text) = {} /\ ~Unfinished(text) => status # "crash"
=============================================================================
