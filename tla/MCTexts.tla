------------------------------ MODULE MCTexts ------------------------------
(***************************************************************************)
(* Every input of each algorithm up to a length, over a few symbols each.  *)
(***************************************************************************)
EXTENDS Texts

UpTo(set, n) == UNION {[1..l -> set] : l \in 0..n}

Contents == Symbol \ {"fence"}
MCReplies == UpTo(Contents, 4) \cup [1..6 -> {"{", "}", "[", "quote", "backslash"}]
             \cup {<<"other", "fence", "{", "quote", "fence", "}", "quote", "}", "fence", "{", "}">>}

\* A line may fill the window, or be longer.
MCLongClauses == UpTo([len : {1, 2, 4, 5}, terms : SUBSET {"report", "timer"}], 3)

\* A stored clause is trimmed.
MCGapClauses == {c \in UpTo(Kind, 6) : c = <<>> \/ (c[1] # "blank" /\ c[Len(c)] # "blank")}

\* Clauses 5, 5.3 and 5.3.1; a numbered list item; a line of the table of
\* contents; two lines of text.
L(id, toc, title, keywords, refs) ==
    [id |-> id, toc |-> toc, title |-> title, keywords |-> keywords, refs |-> refs, specs |-> {}]
MCLines == {L(<<5>>, FALSE, "upper", {}, {}), L(<<5, 3>>, FALSE, "upper", {}, {}),
            L(<<5, 3, 1>>, FALSE, "lower", {}, {}), L(<<5>>, FALSE, "lower", {}, {}),
            L(<<5, 3>>, TRUE, "upper", {}, {}), L(<<>>, FALSE, "lower", {"shall"}, {<<5, 3>>})}
MCSpecs == UpTo(MCLines, 5)

MCTokens == {"shall", "may", "not", "nl", "stop", "report", "timer"}
Slices(t) == {SubSeq(t, i, j) : i \in {1, 2}, j \in (Len(t) - 1)..Len(t)}
MCExcerpts == UNION {{t} \X Slices(t) : t \in [1..4 -> MCTokens]}
              \cup {<<t, t>> : t \in {<<"report", "shall", "timer", "may", "report", "timer", "stop">>}}
=============================================================================
