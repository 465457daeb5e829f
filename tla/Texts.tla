------------------------------- MODULE Texts -------------------------------
(***************************************************************************)
(* The pure algorithms on texts side by side.  They share nothing but the  *)
(* code that calls them one at a time, so a behaviour runs one of them, on *)
(* any of its inputs, to its end; each turn of a loop is a step.           *)
(***************************************************************************)
EXTENDS ExtractJson, CitationWindow, GapPassage, ExtractionMatch, GoverningForce

CONSTANTS Replies,        \* model replies
          LongClauses,    \* clauses as lines with their salient terms
          GapClauses,     \* clauses as lines of a kind
          Scores,         \* Dice coefficients
          Specs,          \* specifications
          Excerpts        \* pairs of a clause and an excerpt, as tokens

ASSUME TextsAssumption ==
    /\ Replies \subseteq Seq(Symbol)
    /\ LongClauses \subseteq Seq(Line)
    /\ GapClauses \subseteq Seq(Kind)
    /\ Scores \subseteq 0..100
    /\ Specs \subseteq Seq(SpecLine)
    /\ Excerpts \subseteq Seq(Token) \X Seq(Token)
    /\ \A x \in Excerpts :                     \* an excerpt is a slice of its clause
          \E i \in 0..Len(x[1]) : /\ i + Len(x[2]) <= Len(x[1])
                                  /\ \A j \in 1..Len(x[2]) : x[2][j] = x[1][i + j]

VARIABLE task      \* the algorithm that runs

vars == <<task, jsonVars, windowVars, passageVars, matchVars, parserVars, governingVars>>

Idle(t) == task # t

Init ==
    /\ task \in {"json", "window", "passage", "match", "parser", "governing"}
    /\ \/ Idle("json") /\ JsonInit(<<>>)
       \/ task = "json" /\ \E reply \in Replies : JsonInit(reply)
    /\ \/ Idle("window") /\ WindowInit(<<>>, {})
       \/ task = "window" /\ \E text \in LongClauses, req \in SUBSET Terms : WindowInit(text, req)
    /\ \/ Idle("passage") /\ PassageInit(<<>>, <<1, 0>>, FALSE)
       \/ /\ task = "passage"
          /\ \E text \in GapClauses, colons \in BOOLEAN :
             \E i \in 1..Len(text) : \E j \in i..Len(text) :
                /\ text[i] # "blank" /\ text[j] # "blank"       \* a quote is trimmed
                /\ PassageInit(text, <<i, j>>, colons)
    /\ \/ Idle("match") /\ MatchInit([c \in Pairs |-> 0])
       \/ task = "match" /\ \E scores \in [Pairs -> Scores] : MatchInit(scores)
    /\ \/ Idle("parser") /\ ParserInit(<<>>)
       \/ task = "parser" /\ \E text \in Specs : ParserInit(text)
    /\ \/ Idle("governing") /\ GoverningInit(<<>>, <<>>, {})
       \/ task = "governing" /\ \E x \in Excerpts, req \in SUBSET Term : GoverningInit(x[1], x[2], req)

RunJson      == task = "json" /\ JsonNext
RunWindow    == task = "window" /\ WindowNext
RunPassage   == task = "passage" /\ PassageNext
RunMatch     == task = "match" /\ MatchNext
RunParser    == task = "parser" /\ ParserNext
RunGoverning == task = "governing" /\ GoverningNext

Next ==
    \/ RunJson /\ UNCHANGED <<task, windowVars, passageVars, matchVars, parserVars, governingVars>>
    \/ RunWindow /\ UNCHANGED <<task, jsonVars, passageVars, matchVars, parserVars, governingVars>>
    \/ RunPassage /\ UNCHANGED <<task, jsonVars, windowVars, matchVars, parserVars, governingVars>>
    \/ RunMatch /\ UNCHANGED <<task, jsonVars, windowVars, passageVars, parserVars, governingVars>>
    \/ RunParser /\ UNCHANGED <<task, jsonVars, windowVars, passageVars, matchVars, governingVars>>
    \/ RunGoverning /\ UNCHANGED <<task, jsonVars, windowVars, passageVars, matchVars, parserVars>>

Spec == Init /\ [][Next]_vars
=============================================================================
