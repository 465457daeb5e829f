---------------------------- MODULE ExtractJson ----------------------------
(***************************************************************************)
(* lib/json.ts: the first balanced JSON value of a model's reply, found by *)
(* one scan that counts the brackets of the kind it opens with.            *)
(*                                                                         *)
(* A reply is a sequence of symbols; "other" stands for every character    *)
(* the scan passes over, "fence" for a Markdown fence, which is removed    *)
(* wherever it stands, inside a string too.                                *)
(***************************************************************************)
EXTENDS Integers, Sequences, FiniteSets

Symbol == {"{", "}", "[", "]", "quote", "backslash", "fence", "other"}

Closing(open) == IF open = "{" THEN "}" ELSE "]"

VARIABLES fenced,     \* the reply without its fences
          openAt,     \* where its first bracket stands, 0 when it has none
          at,         \* the next symbol to scan
          depth, inStr, esc,
          closeAt,    \* where the value ends, 0 until it is found
          nest        \* history: the brackets of both kinds that are open by
                      \* the grammar, innermost last; <<"broken">> once the
                      \* text is no JSON

jsonVars == <<fenced, openAt, at, depth, inStr, esc, closeAt, nest>>

Fenced(reply) == SelectSeq(reply, LAMBDA c : c # "fence")

FirstBracket(text) ==
    LET brackets == {i \in 1..Len(text) : text[i] \in {"{", "["}}
    IN  IF brackets = {} THEN 0 ELSE CHOOSE i \in brackets : \A j \in brackets : i <= j

JsonInit(reply) ==
    /\ fenced = Fenced(reply)
    /\ openAt = FirstBracket(fenced)
    /\ at = openAt
    /\ depth = 0 /\ inStr = FALSE /\ esc = FALSE
    /\ closeAt = 0
    /\ nest = <<>>

Scanning == openAt # 0 /\ closeAt = 0 /\ at <= Len(fenced)

\* The strings of the value by the grammar, without the scan's own flags: a
\* quote is escaped by an odd run of backslashes before it, and a symbol is in a
\* string when an odd number of unescaped quotes stands before it.
Run(m, k) == /\ \A j \in (k - m)..(k - 1) : fenced[j] = "backslash"
             /\ fenced[k - m - 1] # "backslash"

Escaped(k) == \E m \in 0..(k - 1 - openAt) : m % 2 = 1 /\ Run(m, k)

Quotes(k) == {q \in openAt..(k - 1) : fenced[q] = "quote" /\ ~Escaped(q)}

InString(k) == Cardinality(Quotes(k)) % 2 = 1

\* What the grammar makes of a symbol outside the strings, given the brackets
\* that are open; no value has a backslash there.
Nested(stack, c) ==
    IF stack = <<"broken">> \/ c = "backslash" THEN <<"broken">>
    ELSE IF c \in {"{", "["} THEN Append(stack, c)
    ELSE IF c \notin {"}", "]"} THEN stack
    ELSE IF stack # <<>> /\ c = Closing(stack[Len(stack)])
      THEN SubSeq(stack, 1, Len(stack) - 1)
    ELSE <<"broken">>

Parsed == IF InString(at) THEN nest ELSE Nested(nest, fenced[at])

\* Mutant: a quote ends the string though a backslash stands before it.
ScanStringIgnoresEscape ==
    /\ Scanning /\ inStr
    /\ esc' = FALSE
    /\ inStr' = (fenced[at] # "quote")
    /\ nest' = Parsed
    /\ at' = at + 1
    /\ UNCHANGED <<fenced, openAt, depth, closeAt>>

\* A symbol inside a string.
ScanString ==
    /\ Scanning /\ inStr
    /\ esc' = (~esc /\ fenced[at] = "backslash")
    /\ inStr' = (esc \/ fenced[at] # "quote")
    /\ nest' = Parsed
    /\ at' = at + 1
    /\ UNCHANGED <<fenced, openAt, depth, closeAt>>

\* Mutant: the scan returns at any closing bracket of its kind.
ScanSymbolFirstClose ==
    /\ Scanning /\ ~inStr
    /\ LET c == fenced[at]
       IN  /\ inStr' = (c = "quote")
           /\ depth' = depth
           /\ closeAt' = IF c = Closing(fenced[openAt]) THEN at ELSE 0
    /\ nest' = Parsed
    /\ at' = at + 1
    /\ UNCHANGED <<fenced, openAt, esc>>

ScanSymbol ==
    /\ Scanning /\ ~inStr
    /\ LET c     == fenced[at]
           open  == fenced[openAt]
       IN  /\ inStr' = (c = "quote")
           /\ depth' = IF c = open THEN depth + 1
                       ELSE IF c = Closing(open) THEN depth - 1 ELSE depth
           /\ closeAt' = IF c = Closing(open) /\ depth' = 0 THEN at ELSE 0
    /\ nest' = Parsed
    /\ at' = at + 1
    /\ UNCHANGED <<fenced, openAt, esc>>

JsonNext == ScanString \/ ScanSymbol

\* What extractJSON returns, once the scan is over.
Extracted ==
    IF openAt = 0 THEN fenced
    ELSE SubSeq(fenced, openAt, IF closeAt # 0 THEN closeAt ELSE Len(fenced))

\* The scan, which counts one kind of bracket and keeps two flags for the
\* strings, returns what the grammar delimits: it stops at the very symbol that
\* closes the value, whatever brackets and escaped quotes its strings hold, and
\* it stops nowhere else but in a text that is no JSON (its brackets cross, or a
\* backslash stands outside its strings), which JSON.parse then refuses.
ExtractedIsOneValue ==
    openAt # 0 /\ at > openAt =>
        /\ nest = <<>> => closeAt = at - 1
        /\ closeAt # 0 => nest \in {<<>>, <<"broken">>}
=============================================================================
