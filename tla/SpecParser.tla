----------------------------- MODULE SpecParser -----------------------------
(***************************************************************************)
(* lib/parser-3gpp.ts: from the lines of a specification to its tree of    *)
(* clauses.  Offsets count lines.                                          *)
(***************************************************************************)
EXTENDS Integers, Sequences

CONSTANT Number     \* the numbers a segment of a clause id may hold

ASSUME ParserAssumption == Number \subseteq Nat

\* NORMATIVE_PATTERNS, strongest first, then "none".
Forces == <<"shall_not", "shall", "should_not", "should", "may", "none">>

ClauseId == Seq(Number) \ {<<>>}

\* A line as CLAUSE_RE and the keyword and reference patterns see it: the
\* dotted number it starts with before a separator (<<>> for none), whether a
\* further TAB follows (a line of the table of contents), the first letter of
\* its title, its normative keywords and the clauses and specs it names.
SpecLine == [id : ClauseId \cup {<<>>}, toc : BOOLEAN, title : {"upper", "lower", "empty"},
             keywords : SUBSET {Forces[i] : i \in 1..5}, refs : SUBSET ClauseId, specs : SUBSET STRING]

VARIABLES spec,      \* the lines of the text
          stage,     \* "heads", "bodies", "tree", "parsed"
          cursor,         \* the loop's position
          heads,     \* the lines that are clause headings
          nodes,     \* the clauses by id
          order,     \* the ids, in document order
          roots      \* the ids without a parent node

parserVars == <<spec, stage, cursor, heads, nodes, order, roots>>

ParserInit(text) ==
    /\ spec = text
    /\ stage = "heads" /\ cursor = 1
    /\ heads = <<>> /\ nodes = [id \in {} |-> <<>>] /\ order = <<>> /\ roots = <<>>

\* A dotted number is a heading; a single number only with a capitalised title.
IsHeading(line) ==
    /\ line.id # <<>> /\ ~line.toc /\ line.title # "empty"
    /\ Len(line.id) > 1 \/ line.title = "upper"

\* The strongest keyword present.
DetectNormative(keywords) ==
    LET present == {i \in 1..(Len(Forces) - 1) : Forces[i] \in keywords}
    IN  IF present = {} THEN Forces[Len(Forces)]
        ELSE Forces[CHOOSE i \in present : \A j \in present : i <= j]

ParentOf(id) == SubSeq(id, 1, Len(id) - 1)

LocateHead ==
    /\ stage = "heads" /\ cursor <= Len(spec)
    /\ heads' = IF IsHeading(spec[cursor]) THEN Append(heads, cursor) ELSE heads
    /\ cursor' = cursor + 1
    /\ UNCHANGED <<spec, stage, nodes, order, roots>>

HeadsLocated ==
    /\ stage = "heads" /\ cursor > Len(spec)
    /\ stage' = "bodies" /\ cursor' = 1
    /\ UNCHANGED <<spec, heads, nodes, order, roots>>

BodyEnd(i) == IF i < Len(heads) THEN heads[i + 1] - 1 ELSE Len(spec)

ExtractXrefs(body) == [clauses |-> UNION {spec[l].refs : l \in body},
                       specs   |-> UNION {spec[l].specs : l \in body}]

\* The node of the i-th heading.
NodeOf(i) ==
    LET body == heads[i]..BodyEnd(i)
    IN  [start     |-> heads[i],
         end       |-> BodyEnd(i),
         normative |-> DetectNormative(UNION {spec[l].keywords : l \in body}),
         xrefs     |-> ExtractXrefs(body).clauses \ {spec[heads[i]].id},
         specs     |-> ExtractXrefs(body).specs,
         children  |-> <<>>]

\* Mutant: a clause heading met a second time leaves the node of the first.
ReadBodyKeepsFirst ==
    /\ stage = "bodies" /\ cursor <= Len(heads)
    /\ LET id == spec[heads[cursor]].id
       IN  /\ nodes' = [c \in DOMAIN nodes \cup {id} |->
                          IF c \in DOMAIN nodes THEN nodes[c] ELSE NodeOf(cursor)]
           /\ order' = Append(order, id)
    /\ cursor' = cursor + 1
    /\ UNCHANGED <<spec, stage, heads, roots>>

\* A clause heading met a second time replaces the node of the first.
ReadBody ==
    /\ stage = "bodies" /\ cursor <= Len(heads)
    /\ LET id == spec[heads[cursor]].id
       IN  /\ nodes' = [c \in DOMAIN nodes \cup {id} |-> IF c = id THEN NodeOf(cursor) ELSE nodes[c]]
           /\ order' = Append(order, id)
    /\ cursor' = cursor + 1
    /\ UNCHANGED <<spec, stage, heads, roots>>

BodiesRead ==
    /\ stage = "bodies" /\ cursor > Len(heads)
    /\ stage' = "tree" /\ cursor' = 1
    /\ UNCHANGED <<spec, heads, nodes, order, roots>>

\* Mutant: a clause whose parent has no heading of its own is left out.
WireClauseDropsOrphan ==
    /\ stage = "tree" /\ cursor <= Len(order)
    /\ LET id == order[cursor]
           p  == ParentOf(id)
       IN  IF p \in DOMAIN nodes
             THEN /\ nodes' = [nodes EXCEPT ![p].children = Append(@, id)]
                  /\ UNCHANGED roots
             ELSE /\ roots' = IF p = <<>> THEN Append(roots, id) ELSE roots
                  /\ UNCHANGED nodes
    /\ cursor' = cursor + 1
    /\ UNCHANGED <<spec, stage, heads, order>>

WireClause ==
    /\ stage = "tree" /\ cursor <= Len(order)
    /\ LET id == order[cursor]
           p  == ParentOf(id)
       IN  IF p \in DOMAIN nodes
             THEN /\ nodes' = [nodes EXCEPT ![p].children = Append(@, id)]
                  /\ UNCHANGED roots
             ELSE roots' = Append(roots, id) /\ UNCHANGED nodes
    /\ cursor' = cursor + 1
    /\ UNCHANGED <<spec, stage, heads, order>>

TreeWired ==
    /\ stage = "tree" /\ cursor > Len(order)
    /\ stage' = "parsed"
    /\ UNCHANGED <<spec, cursor, heads, nodes, order, roots>>

ParserNext == LocateHead \/ HeadsLocated \/ ReadBody \/ BodiesRead \/ WireClause \/ TreeWired

\* tableOfContents: the clauses down to a depth, in document order.
TableOfContents(depth) == SelectSeq(order, LAMBDA id : Len(id) <= depth)

\* neighbours: the references of a clause that lead to a clause of the tree.
Neighbours(id) == IF id \in DOMAIN nodes THEN nodes[id].xrefs \cap DOMAIN nodes ELSE {}

(***************************************************************************)
(* Properties.                                                             *)
(***************************************************************************)
HeadingLines == {l \in 1..Len(spec) : IsHeading(spec[l])}

\* A list of clauses follows a set of lines: it names the clause of each line,
\* once for each, in the order of the document.
ListsHeads(list, marks) ==
    \E place \in [1..Len(list) -> marks] :
        /\ \A i, j \in 1..Len(list) : i < j => place[i] < place[j]
        /\ \A l \in marks : \E i \in 1..Len(list) : place[i] = l
        /\ \A i \in 1..Len(list) : list[i] = spec[place[i]].id

\* The navigator walks down from the roots: a clause hangs where its number says,
\* under its parent when that has a heading of its own and among the roots when
\* it has not, nowhere else, in the order of the document and as often as it is a
\* heading (a repeated number is listed and hangs again, parser-3gpp.ts:134-142).
\* Its node is that of the last heading of the number and holds the lines from
\* there to the next heading, all of them and no others: lost is what stands
\* before the first heading or under an earlier heading of the same number, and
\* nothing else (parser-3gpp.ts:113-135).
TreeIsWhole ==
    stage = "parsed" =>
        /\ DOMAIN nodes = {spec[h].id : h \in HeadingLines}
        /\ ListsHeads(order, HeadingLines)
        /\ ListsHeads(roots, {h \in HeadingLines : ParentOf(spec[h].id) \notin DOMAIN nodes})
        /\ \A p \in DOMAIN nodes :
              ListsHeads(nodes[p].children, {h \in HeadingLines : ParentOf(spec[h].id) = p})
        /\ \A h \in HeadingLines :
              (\A m \in (h + 1)..Len(spec) : IsHeading(spec[m]) => spec[m].id # spec[h].id) =>
                  \A l \in 1..Len(spec) :
                      l \in nodes[spec[h].id].start..nodes[spec[h].id].end
                          <=> h <= l /\ \A m \in (h + 1)..l : ~IsHeading(spec[m])
=============================================================================
