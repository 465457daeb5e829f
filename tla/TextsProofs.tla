----------------------------- MODULE TextsProofs -----------------------------
(***************************************************************************)
(* Proofs about the algorithms on texts, for texts of any length: each     *)
(* keeps an invariant of its loop, and the steps of the others leave its   *)
(* variables alone.                                                        *)
(***************************************************************************)
EXTENDS Texts, FiniteSetTheorems, SequenceTheorems, WellFoundedInduction, TLAPS

\* A set of positions has a first one.
LEMMA Smallest == ASSUME NEW T \in SUBSET Nat, T # {} PROVE \E n \in T : \A m \in T : n <= m
<1>1. PICK x \in T : \A y \in T : ~(<<y, x>> \in OpToRel(<, Nat))
  BY NatLessThanWellFounded, WFMin
<1>2. ASSUME NEW y \in T PROVE x <= y
  <2>1. x \in Nat /\ y \in Nat
    OBVIOUS
  <2>2. y < x => <<y, x>> \in OpToRel(<, Nat)
    BY <2>1, Zenon DEF OpToRel
  <2>3. ~(y < x)
    BY <1>1, <2>2, Zenon
  <2> QED
    BY <2>1, <2>3
<1> QED
  BY <1>2

(***************************************************************************)
(* The matching.  Candidates are looked at best first, so a pair matched   *)
(* is at least as good as every candidate left; and a candidate that was   *)
(* passed over shares an element with a pair at least as good.             *)
(***************************************************************************)
Shares(p, c) == p[1] = c[1] \/ p[2] = c[2]

MatchInv ==
    /\ dice \in [Pairs -> 0..100] /\ cand \subseteq Pairs /\ pairs \subseteq Pairs
    /\ \A p, q \in pairs : Shares(p, q) => p = q
    /\ \A p \in pairs, c \in cand : dice[p] >= dice[c]
    /\ \A c \in Pairs \ cand :
          dice[c] >= MatchThreshold => \E p \in pairs : Shares(p, c) /\ dice[p] >= dice[c]

LEMMA MatchStarts == Init => MatchInv
<1> SUFFICES ASSUME Init PROVE MatchInv
  OBVIOUS
<1> SUFFICES ASSUME NEW scores \in [Pairs -> 0..100], MatchInit(scores) PROVE MatchInv
  <2>1. [c \in Pairs |-> 0] \in [Pairs -> 0..100]
    OBVIOUS
  <2>2. \A scores \in [Pairs -> Scores] : scores \in [Pairs -> 0..100]
    BY TextsAssumption
  <2> QED
    BY <2>1, <2>2 DEF Init
<1> QED
  BY MatchAssumption DEF MatchInit, MatchInv

LEMMA MatchStep == MatchInv /\ MatchNext => MatchInv'
<1> SUFFICES ASSUME MatchInv, MatchNext PROVE MatchInv'
  OBVIOUS
<1>1. PICK c \in cand : /\ \A d \in cand : d = c \/ Before(c, d)
                        /\ cand' = cand \ {c}
                        /\ pairs' = IF Used(c) THEN pairs ELSE pairs \cup {c}
                        /\ dice' = dice
  BY DEF MatchNext, TakeBest
<1>2. \A d \in cand : dice[c] >= dice[d]
  <2> SUFFICES ASSUME NEW d \in cand PROVE dice[c] >= dice[d]
    OBVIOUS
  <2>1. dice[c] \in Int /\ dice[d] \in Int
    BY DEF MatchInv
  <2> QED
    BY <1>1, <2>1 DEF Before
<1>3. CASE Used(c)
  <2>1. PICK p \in pairs : Shares(p, c) /\ dice[p] >= dice[c]
    BY <1>3 DEF Used, Shares, MatchInv
  <2>2. \A d \in Pairs \ cand' : d = c \/ d \in Pairs \ cand
    BY <1>1
  <2> QED
    BY <1>1, <1>3, <2>1, <2>2 DEF MatchInv
<1>4. CASE ~Used(c)
  <2>1. pairs' = pairs \cup {c} /\ cand' = cand \ {c} /\ dice' = dice
    BY <1>1, <1>4
  <2>2. \A p, q \in pairs' : Shares(p, q) => p = q
    BY <1>4, <2>1 DEF Used, Shares, MatchInv
  <2>3. \A p \in pairs', d \in cand' : dice[p] >= dice[d]
    BY <1>2, <2>1 DEF MatchInv
  <2>4. ASSUME NEW d \in Pairs \ cand', dice[d] >= MatchThreshold
        PROVE  \E p \in pairs' : Shares(p, d) /\ dice[p] >= dice[d]
    <3>1. CASE d = c
      <4>1. dice[d] >= dice[d]
        BY DEF MatchInv
      <4> QED
        BY <2>1, <3>1, <4>1 DEF Shares
    <3>2. CASE d # c
      BY <2>1, <2>4, <3>2 DEF MatchInv
    <3> QED
      BY <3>1, <3>2
  <2>5. dice \in [Pairs -> 0..100] /\ cand' \subseteq Pairs /\ pairs' \subseteq Pairs
    BY <2>1 DEF MatchInv
  <2> QED
    BY <2>1, <2>2, <2>3, <2>4, <2>5 DEF MatchInv
<1> QED
  BY <1>3, <1>4

\* However many requirements there are and however alike they score, the
\* matching is one to one and stable (MatchingIsStable).
THEOREM MatchStable == Spec => []MatchingIsStable
<1>1. MatchInv /\ [Next]_vars => MatchInv'
  <2> SUFFICES ASSUME MatchInv, [Next]_vars PROVE MatchInv'
    OBVIOUS
  <2>1. MatchNext \/ UNCHANGED matchVars
    BY DEF Next, vars, RunMatch
  <2>2. CASE UNCHANGED matchVars
    BY <2>2 DEF MatchInv, matchVars, Shares
  <2> QED
    BY <2>1, <2>2, MatchStep
<1>2. MatchInv => MatchingIsStable
  <2> SUFFICES ASSUME MatchInv PROVE MatchingIsStable
    OBVIOUS
  <2>1. \A p, q \in pairs : (p[1] = q[1] \/ p[2] = q[2]) => p = q
    BY DEF MatchInv, Shares
  <2>2. cand = {} => \A c \in Pairs : dice[c] >= MatchThreshold =>
           \E p \in pairs : (p[1] = c[1] \/ p[2] = c[2]) /\ dice[p] >= dice[c]
    BY DEF MatchInv, Shares
  <2> QED
    BY <2>1, <2>2 DEF MatchingIsStable
<1> QED
  BY MatchStarts, <1>1, <1>2, PTL DEF Spec

(***************************************************************************)
(* The JSON scan.  It counts the brackets of the kind it opened with; that *)
(* is how many of these the grammar's stack holds, the first being the one *)
(* the value opens with.                                                   *)
(***************************************************************************)
OpenIn(stack, open) == {i \in 1..Len(stack) : stack[i] = open}

Opening == {"{", "["}

Nesting == Seq(Opening)

\* The flags of the scan are what the grammar says of the next symbol.
ScansStrings ==
    /\ inStr \in BOOLEAN /\ esc \in BOOLEAN
    /\ inStr <=> InString(at)
    /\ esc <=> Escaped(at)
    /\ esc => inStr

JsonInv ==
    /\ openAt # 0 => /\ openAt \in Nat /\ at \in Nat /\ openAt <= at
                     /\ fenced[openAt] \in Opening
    /\ closeAt # 0 => openAt # 0 /\ at > openAt /\ closeAt = at - 1
    /\ nest # <<"broken">> /\ openAt # 0 =>
          /\ nest \in Nesting
          /\ closeAt = 0 => depth = Cardinality(OpenIn(nest, fenced[openAt]))
          /\ closeAt = 0 => ScansStrings
          /\ closeAt = 0 /\ at > openAt => nest # <<>> /\ nest[1] = fenced[openAt]
          /\ at = openAt => nest = <<>> /\ inStr = FALSE
          /\ closeAt # 0 => nest = <<>>

LEMMA OpenInFinite ==
    ASSUME NEW stack \in Nesting, NEW open
    PROVE  IsFiniteSet(OpenIn(stack, open)) /\ Cardinality(OpenIn(stack, open)) \in Nat
<1>1. Len(stack) \in Int
  BY DEF Nesting
<1>2. IsFiniteSet(1..Len(stack))
  BY <1>1, FS_Interval
<1>3. OpenIn(stack, open) \subseteq 1..Len(stack)
  BY DEF OpenIn
<1>4. IsFiniteSet(OpenIn(stack, open))
  BY <1>2, <1>3, FS_Subset
<1> QED
  BY <1>4, FS_CardinalityType

\* What a bracket that opens and one that closes do to the count.
LEMMA Pushed ==
    ASSUME NEW stack \in Nesting, NEW open, NEW c \in Opening
    PROVE  /\ Append(stack, c) \in Nesting /\ Append(stack, c) # <<>>
           /\ stack = <<>> => Append(stack, c)[1] = c
           /\ stack # <<>> => Append(stack, c)[1] = stack[1]
           /\ Cardinality(OpenIn(Append(stack, c), open))
                 = Cardinality(OpenIn(stack, open)) + (IF c = open THEN 1 ELSE 0)
<1> DEFINE n == Len(stack) + 1
<1>1. /\ Append(stack, c) \in Nesting /\ Len(Append(stack, c)) = n /\ n \in Nat
      /\ Append(stack, c)[n] = c /\ \A i \in 1..Len(stack) : Append(stack, c)[i] = stack[i]
      /\ Append(stack, c) # <<>>
  BY AppendProperties DEF Nesting
<1>2. OpenIn(Append(stack, c), open) = OpenIn(stack, open) \cup (IF c = open THEN {n} ELSE {})
  <2>1. 1..n = (1..Len(stack)) \cup {n} /\ n \notin 1..Len(stack)
    BY <1>1
  <2> QED
    BY <1>1, <2>1 DEF OpenIn
<1>3. n \notin OpenIn(stack, open)
  BY <1>1 DEF OpenIn
<1>4. stack = <<>> => Append(stack, c)[1] = c
  BY <1>1
<1>5. stack # <<>> => Append(stack, c)[1] = stack[1]
  BY DEF Nesting
<1>6. Cardinality(OpenIn(stack, open) \cup {n}) = Cardinality(OpenIn(stack, open)) + 1
  BY <1>3, OpenInFinite, FS_AddElement
<1>7. Cardinality(OpenIn(Append(stack, c), open))
         = Cardinality(OpenIn(stack, open)) + (IF c = open THEN 1 ELSE 0)
  <2>1. Cardinality(OpenIn(stack, open)) \in Nat
    BY OpenInFinite
  <2>2. CASE c = open
    BY <1>2, <1>6, <2>2
  <2>3. CASE c # open
    <3>1. OpenIn(Append(stack, c), open) = OpenIn(stack, open)
      BY <1>2, <2>3
    <3> QED
      BY <2>1, <2>3, <3>1
  <2> QED
    BY <2>2, <2>3
<1> QED
  BY <1>1, <1>4, <1>5, <1>7

LEMMA Popped ==
    ASSUME NEW stack \in Nesting, stack # <<>>, NEW open, NEW rest,
           rest = SubSeq(stack, 1, Len(stack) - 1)
    PROVE  /\ rest \in Nesting
           /\ rest = <<>> => stack[Len(stack)] = stack[1]
           /\ rest # <<>> => rest[1] = stack[1]
           /\ Cardinality(OpenIn(stack, open))
                 = Cardinality(OpenIn(rest, open)) + (IF stack[Len(stack)] = open THEN 1 ELSE 0)
<1>0. PICK n \in Nat : n = Len(stack)
  BY DEF Nesting
<1>1. n >= 1 /\ stack \in [1..n -> Opening]
  BY <1>0 DEF Nesting
<1>2. /\ rest \in Nesting /\ Len(rest) = n - 1 /\ \A i \in 1..(n - 1) : rest[i] = stack[i]
  BY <1>0, <1>1 DEF Nesting
<1>3. OpenIn(stack, open) = OpenIn(rest, open) \cup (IF stack[n] = open THEN {n} ELSE {})
  <2>1. 1..n = (1..(n - 1)) \cup {n} /\ n \notin 1..(n - 1)
    BY <1>1
  <2> QED
    BY <1>0, <1>2, <2>1 DEF OpenIn
<1>4. n \notin OpenIn(rest, open)
  BY <1>1, <1>2 DEF OpenIn
<1>5. Cardinality(OpenIn(rest, open) \cup {n}) = Cardinality(OpenIn(rest, open)) + 1
  BY <1>2, <1>4, OpenInFinite, FS_AddElement
<1>6. Cardinality(OpenIn(stack, open))
         = Cardinality(OpenIn(rest, open)) + (IF stack[n] = open THEN 1 ELSE 0)
  <2>1. Cardinality(OpenIn(rest, open)) \in Nat
    BY <1>2, OpenInFinite
  <2>2. CASE stack[n] = open
    BY <1>3, <1>5, <2>2
  <2>3. CASE stack[n] # open
    <3>1. OpenIn(stack, open) = OpenIn(rest, open)
      BY <1>3, <2>3
    <3> QED
      BY <2>1, <2>3, <3>1
  <2> QED
    BY <2>2, <2>3
<1>7. rest = <<>> => n = 1
  <2>1. rest = <<>> => Len(rest) = 0
    BY EmptySeq
  <2> QED
    BY <1>1, <1>2, <2>1
<1>8. rest # <<>> => n > 1
  BY <1>1, <1>2 DEF Nesting
<1> QED
  BY <1>0, <1>1, <1>2, <1>6, <1>7, <1>8

LEMMA FirstBracketIsOne ==
    ASSUME NEW text, FirstBracket(text) # 0
    PROVE  FirstBracket(text) \in Nat /\ text[FirstBracket(text)] \in Opening
<1> DEFINE brackets == {i \in 1..Len(text) : text[i] \in Opening}
<1>1. brackets # {} /\ FirstBracket(text) = CHOOSE i \in brackets : \A j \in brackets : i <= j
  BY Zenon DEF FirstBracket, Opening
<1>2. brackets \in SUBSET Nat
  OBVIOUS
<1>3. \E i \in brackets : \A j \in brackets : i <= j
  BY <1>1, <1>2, Smallest
<1>4. FirstBracket(text) \in brackets
  BY <1>1, <1>3
<1> QED
  BY <1>4

(***************************************************************************)
(* The strings.  Every symbol after the first has one run of backslashes   *)
(* before it, so whether it is escaped follows from the symbol before it,  *)
(* and whether it is in a string too.                                      *)
(***************************************************************************)
LEMMA RunBefore ==
    ASSUME openAt \in Nat, fenced[openAt] # "backslash", NEW k \in Nat, k > openAt
    PROVE  \E m \in 0..(k - 1 - openAt) : Run(m, k)
<1> DEFINE others == {m \in 0..(k - 1 - openAt) : fenced[k - m - 1] # "backslash"}
<1>1. (k - 1 - openAt) \in others
  <2>1. (k - 1 - openAt) \in 0..(k - 1 - openAt) /\ k - (k - 1 - openAt) - 1 = openAt
    OBVIOUS
  <2> QED
    BY <2>1
<1>2. others \in SUBSET Nat /\ others # {}
  BY <1>1
<1>3. PICK m \in others : \A n \in others : m <= n
  <2> HIDE DEF others
  <2> QED
    BY <1>2, Smallest
<1>4. ASSUME NEW j \in (k - m)..(k - 1) PROVE fenced[j] = "backslash"
  <2>1. (k - 1 - j) \in 0..(k - 1 - openAt) /\ k - 1 - j < m /\ k - (k - 1 - j) - 1 = j
    BY <1>2
  <2>2. (k - 1 - j) \notin others
    BY <1>3, <2>1
  <2> QED
    BY <2>1, <2>2
<1> QED
  BY <1>4 DEF Run

LEMMA OneRun ==
    ASSUME NEW k \in Nat, NEW m \in Nat, NEW n \in Nat, Run(m, k), Run(n, k)
    PROVE  m = n
<1>1. ASSUME NEW x \in Nat, NEW y \in Nat, Run(x, k), Run(y, k), x < y PROVE FALSE
  <2>1. (k - x - 1) \in (k - y)..(k - 1)
    BY <1>1
  <2> QED
    BY <1>1, <2>1 DEF Run
<1> QED
  BY <1>1

LEMMA EscapedNext ==
    ASSUME openAt \in Nat, fenced[openAt] # "backslash", NEW k \in Nat, k >= openAt
    PROVE  Escaped(k + 1) <=> fenced[k] = "backslash" /\ ~Escaped(k)
<1>1. CASE k = openAt
  <2>1. ~Escaped(k + 1)
    BY <1>1 DEF Escaped
  <2> QED
    BY <1>1, <2>1
<1>2. CASE k > openAt /\ fenced[k] # "backslash"
  <2>1. ASSUME NEW m \in 0..(k - openAt), m % 2 = 1, Run(m, k + 1) PROVE FALSE
    <3>1. k \in (k + 1 - m)..(k + 1 - 1)
      BY <2>1
    <3> QED
      BY <1>2, <2>1, <3>1 DEF Run
  <2>2. ~Escaped(k + 1)
    BY <2>1 DEF Escaped
  <2> QED
    BY <1>2, <2>2
<1>3. CASE k > openAt /\ fenced[k] = "backslash"
  <2>1. PICK m \in 0..(k - 1 - openAt) : Run(m, k)
    BY <1>3, RunBefore
  <2>2. Run(m + 1, k + 1)
    <3>1. k + 1 - (m + 1) - 1 = k - m - 1
      OBVIOUS
    <3>2. ASSUME NEW j \in (k + 1 - (m + 1))..(k + 1 - 1) PROVE fenced[j] = "backslash"
      <4>1. j = k \/ j \in (k - m)..(k - 1)
        OBVIOUS
      <4> QED
        BY <1>3, <2>1, <4>1 DEF Run
    <3> QED
      BY <2>1, <3>1, <3>2 DEF Run
  <2>3. Escaped(k) <=> m % 2 = 1
    <3>1. \A n \in 0..(k - 1 - openAt) : Run(n, k) => n = m
      BY <2>1, OneRun
    <3> QED
      BY <2>1, <3>1 DEF Escaped
  <2>4. Escaped(k + 1) <=> (m + 1) % 2 = 1
    <3>1. \A n \in 0..(k + 1 - 1 - openAt) : Run(n, k + 1) => n = m + 1
      BY <2>2, OneRun
    <3>2. (m + 1) \in 0..(k + 1 - 1 - openAt)
      BY <1>3
    <3> QED
      BY <2>2, <3>1, <3>2 DEF Escaped
  <2>5. (m + 1) % 2 = 1 <=> ~(m % 2 = 1)
    OBVIOUS
  <2> QED
    BY <1>3, <2>3, <2>4, <2>5
<1> QED
  BY <1>1, <1>2, <1>3

LEMMA InStringNext ==
    ASSUME openAt \in Nat, NEW k \in Nat, k >= openAt
    PROVE  InString(k + 1) <=> (InString(k) <=> ~(fenced[k] = "quote" /\ ~Escaped(k)))
<1>1. IsFiniteSet(Quotes(k)) /\ Cardinality(Quotes(k)) \in Nat
  <2>1. IsFiniteSet(openAt..(k - 1)) /\ Quotes(k) \subseteq openAt..(k - 1)
    BY FS_Interval DEF Quotes
  <2> QED
    BY <2>1, FS_Subset, FS_CardinalityType
<1>2. openAt..(k + 1 - 1) = openAt..(k - 1) \cup {k} /\ k \notin openAt..(k - 1)
  OBVIOUS
<1>3. CASE fenced[k] = "quote" /\ ~Escaped(k)
  <2>1. Quotes(k + 1) = Quotes(k) \cup {k} /\ k \notin Quotes(k)
    BY <1>2, <1>3 DEF Quotes
  <2>2. Cardinality(Quotes(k + 1)) = Cardinality(Quotes(k)) + 1
    BY <1>1, <2>1, FS_AddElement
  <2>3. Cardinality(Quotes(k + 1)) % 2 = 1 <=> ~(Cardinality(Quotes(k)) % 2 = 1)
    BY <1>1, <2>2
  <2> QED
    BY <1>3, <2>3 DEF InString
<1>4. CASE ~(fenced[k] = "quote" /\ ~Escaped(k))
  <2>1. Quotes(k + 1) = Quotes(k)
    BY <1>2, <1>4 DEF Quotes
  <2> QED
    BY <1>4, <2>1 DEF InString
<1> QED
  BY <1>3, <1>4

\* At the first bracket nothing is escaped and no string is open.
LEMMA OutsideAtFirst ==
    ASSUME openAt \in Nat
    PROVE  ~InString(openAt) /\ ~Escaped(openAt)
<1>1. Quotes(openAt) = {}
  BY DEF Quotes
<1>2. Cardinality(Quotes(openAt)) = 0
  BY <1>1, FS_EmptySet
<1> QED
  BY <1>2 DEF InString, Escaped

LEMMA JsonStarts == Init => JsonInv
<1> SUFFICES ASSUME NEW reply, JsonInit(reply) PROVE JsonInv
  BY DEF Init
<1>1. ASSUME openAt # 0 PROVE openAt \in Nat /\ fenced[openAt] \in Opening
  BY <1>1, FirstBracketIsOne DEF JsonInit
<1>2. OpenIn(<<>>, fenced[openAt]) = {}
  BY DEF OpenIn
<1>3. Cardinality(OpenIn(<<>>, fenced[openAt])) = 0
  BY <1>2, FS_EmptySet
<1>4. openAt # 0 => ScansStrings
  BY <1>1, OutsideAtFirst DEF JsonInit, ScansStrings
<1> QED
  BY <1>1, <1>3, <1>4 DEF JsonInit, JsonInv, Nesting

\* What the grammar makes of a symbol.
LEMMA Symbols ==
    /\ \A open \in Opening : Closing(open) \notin Opening
    /\ \A x, y \in Opening : Closing(x) = Closing(y) => x = y
    /\ \A c : Nested(<<"broken">>, c) = <<"broken">>
    /\ \A stack, c : stack # <<"broken">> /\ Nested(stack, c) # <<"broken">> =>
          /\ c # "backslash"
          /\ \/ c \in Opening /\ Nested(stack, c) = Append(stack, c)
             \/ /\ c \notin Opening /\ \A open \in Opening : c # Closing(open)
                /\ Nested(stack, c) = stack
             \/ /\ stack # <<>> /\ c = Closing(stack[Len(stack)])
                /\ Nested(stack, c) = SubSeq(stack, 1, Len(stack) - 1)
<1>1. \A open \in Opening : Closing(open) \notin Opening
  BY Zenon DEF Closing, Opening
<1>2. \A x, y \in Opening : Closing(x) = Closing(y) => x = y
  BY Zenon DEF Closing, Opening
<1>3. \A c : Nested(<<"broken">>, c) = <<"broken">>
  BY Zenon DEF Nested
<1>4. ASSUME NEW stack, NEW c, stack # <<"broken">>, Nested(stack, c) # <<"broken">>
      PROVE  /\ c # "backslash"
             /\ \/ c \in Opening /\ Nested(stack, c) = Append(stack, c)
                \/ /\ c \notin Opening /\ \A open \in Opening : c # Closing(open)
                   /\ Nested(stack, c) = stack
                \/ /\ stack # <<>> /\ c = Closing(stack[Len(stack)])
                   /\ Nested(stack, c) = SubSeq(stack, 1, Len(stack) - 1)
  <2>1. c # "backslash"
    BY <1>4, Zenon DEF Nested
  <2>2. CASE c \in Opening
    BY <1>4, <2>1, <2>2, Zenon DEF Nested, Opening
  <2>3. CASE c \notin Opening /\ c \notin {"}", "]"}
    <3>1. Nested(stack, c) = stack
      BY <1>4, <2>1, <2>3, Zenon DEF Nested, Opening
    <3>2. \A open \in Opening : c # Closing(open)
      BY <2>3, Zenon DEF Closing
    <3> QED
      BY <2>1, <2>3, <3>1, <3>2, Zenon
  <2>4. CASE c \notin Opening /\ c \in {"}", "]"}
    BY <1>4, <2>1, <2>4, Zenon DEF Nested, Opening
  <2> QED
    BY <2>2, <2>3, <2>4, Zenon
<1> QED
  BY <1>1, <1>2, <1>3, <1>4, Zenon

\* A symbol outside the strings, for a reply whose brackets do not cross.
LEMMA ScanSymbolKeeps ==
    ASSUME JsonInv, ScanSymbol, nest' # <<"broken">>
    PROVE  /\ nest' \in Nesting
           /\ closeAt' = 0 => depth' = Cardinality(OpenIn(nest', fenced[openAt]))
           /\ closeAt' = 0 => nest' # <<>> /\ nest'[1] = fenced[openAt]
           /\ closeAt' # 0 => nest' = <<>>
           /\ nest # <<"broken">> /\ fenced[at] # "backslash"
<1>1. PICK open \in Opening, c \in {fenced[at]} :
         /\ open = fenced[openAt] /\ c = fenced[at]
         /\ depth' = IF c = open THEN depth + 1 ELSE IF c = Closing(open) THEN depth - 1 ELSE depth
         /\ closeAt' = IF c = Closing(open) /\ depth' = 0 THEN at ELSE 0
         /\ nest # <<"broken">> => nest' = Nested(nest, c)
         /\ nest = <<"broken">> => nest' \in {nest, Nested(nest, c)}
  BY DEF ScanSymbol, Scanning, JsonInv, ScansStrings, Parsed
<1>2. nest # <<"broken">> /\ nest' = Nested(nest, c) /\ c # "backslash"
  BY <1>1, Symbols
<1>3. /\ openAt # 0 /\ closeAt = 0 /\ openAt \in Nat /\ at \in Nat /\ openAt <= at
      /\ nest \in Nesting /\ depth = Cardinality(OpenIn(nest, open))
      /\ at = openAt => nest = <<>> /\ c = open
      /\ at # openAt => nest # <<>> /\ nest[1] = open
  BY <1>1, <1>2 DEF JsonInv, ScanSymbol, Scanning
<1>4. depth \in Nat
  BY <1>3, OpenInFinite
<1>5. CASE c \in Opening /\ nest' = Append(nest, c)
  <2>1. c # Closing(open)
    BY <1>5, Symbols
  <2>2. closeAt' = 0 /\ depth' = depth + (IF c = open THEN 1 ELSE 0)
    BY <1>1, <1>4, <2>1
  <2>3. /\ nest' \in Nesting /\ nest' # <<>>
        /\ nest = <<>> => nest'[1] = c
        /\ nest # <<>> => nest'[1] = nest[1]
        /\ Cardinality(OpenIn(nest', open)) = Cardinality(OpenIn(nest, open)) + (IF c = open THEN 1 ELSE 0)
    <3>1. nest \in Nesting /\ c \in Opening
      BY <1>3, <1>5
    <3>2. /\ Append(nest, c) \in Nesting /\ Append(nest, c) # <<>>
          /\ nest = <<>> => Append(nest, c)[1] = c
          /\ nest # <<>> => Append(nest, c)[1] = nest[1]
          /\ Cardinality(OpenIn(Append(nest, c), open))
                = Cardinality(OpenIn(nest, open)) + (IF c = open THEN 1 ELSE 0)
      BY <3>1, Pushed
    <3> QED
      BY <1>5, <3>2
  <2> QED
    BY <1>1, <1>2, <1>3, <2>2, <2>3
<1>6. CASE c \notin Opening /\ (\A o \in Opening : c # Closing(o)) /\ nest' = nest
  <2>1. c # open /\ c # Closing(open)
    BY <1>6
  <2> QED
    BY <1>1, <1>2, <1>3, <1>6, <2>1
<1>7. CASE nest # <<>> /\ c = Closing(nest[Len(nest)]) /\ nest' = SubSeq(nest, 1, Len(nest) - 1)
  <2>1. at # openAt /\ at # 0
    BY <1>3, <1>7
  <2>2. /\ nest' \in Nesting
        /\ nest' = <<>> => nest[Len(nest)] = nest[1]
        /\ nest' # <<>> => nest'[1] = nest[1]
        /\ Cardinality(OpenIn(nest, open))
              = Cardinality(OpenIn(nest', open)) + (IF nest[Len(nest)] = open THEN 1 ELSE 0)
    BY <1>3, <1>7, Popped
  <2>3. nest[Len(nest)] \in Opening
    BY <1>3, <1>7 DEF Nesting
  <2>4. c # open /\ (c = Closing(open) <=> nest[Len(nest)] = open)
    BY <1>7, <2>3, Symbols
  <2>5. Cardinality(OpenIn(nest', open)) \in Nat
    BY <2>2, OpenInFinite
  <2>6. depth' = Cardinality(OpenIn(nest', open))
    BY <1>1, <1>3, <1>4, <2>2, <2>4, <2>5
  <2>7. nest' = <<>> => Cardinality(OpenIn(nest', open)) = 0
    <3>1. OpenIn(<<>>, open) = {}
      BY DEF OpenIn
    <3> QED
      BY <3>1, FS_EmptySet
  <2>8. nest' # <<>> => Cardinality(OpenIn(nest', open)) # 0
    <3> SUFFICES ASSUME nest' # <<>> PROVE Cardinality(OpenIn(nest', open)) # 0
      OBVIOUS
    <3>1. 1 \in OpenIn(nest', open)
      BY <1>3, <2>1, <2>2 DEF OpenIn, Nesting
    <3>2. OpenIn(nest', open) # {} /\ IsFiniteSet(OpenIn(nest', open))
      BY <2>2, <3>1, OpenInFinite
    <3> QED
      BY <3>2, FS_EmptySet
  <2>9. CASE nest[Len(nest)] = open
    BY <1>1, <1>2, <1>3, <2>1, <2>2, <2>4, <2>6, <2>7, <2>8, <2>9
  <2>10. CASE nest[Len(nest)] # open
    BY <1>1, <1>2, <1>3, <2>1, <2>2, <2>4, <2>6, <2>7, <2>8, <2>10
  <2> QED
    BY <2>9, <2>10
<1> QED
  BY <1>1, <1>2, <1>5, <1>6, <1>7, Symbols

\* The flags keep up with the grammar, inside a string and outside.
LEMMA StringsKept ==
    ASSUME openAt \in Nat, at \in Nat, openAt <= at, fenced[openAt] # "backslash",
           fenced' = fenced, openAt' = openAt, at' = at + 1, ScansStrings,
           \/ ScanString
           \/ ScanSymbol /\ fenced[at] # "backslash"
    PROVE  ScansStrings'
<1>1. Escaped(at + 1) <=> fenced[at] = "backslash" /\ ~Escaped(at)
  BY EscapedNext
<1>2. InString(at + 1) <=> (InString(at) <=> ~(fenced[at] = "quote" /\ ~Escaped(at)))
  BY InStringNext
<1>3. Escaped(at)' = Escaped(at + 1) /\ InString(at)' = InString(at + 1)
  BY ZenonT(60) DEF Escaped, Run, InString, Quotes
<1> HIDE DEF Escaped, InString
<1>4. CASE ScanString
  <2>1. inStr /\ esc' = (~esc /\ fenced[at] = "backslash") /\ inStr' = (esc \/ fenced[at] # "quote")
    BY <1>4 DEF ScanString
  <2> QED
    BY <1>1, <1>2, <1>3, <2>1 DEF ScansStrings
<1>5. CASE ScanSymbol /\ fenced[at] # "backslash"
  <2>1. ~inStr /\ esc' = esc /\ inStr' = (fenced[at] = "quote")
    BY <1>5 DEF ScanSymbol
  <2> QED
    BY <1>1, <1>2, <1>3, <1>5, <2>1 DEF ScansStrings
<1> QED
  BY <1>4, <1>5

LEMMA JsonStep == JsonInv /\ JsonNext => JsonInv'
<1> SUFFICES ASSUME JsonInv, JsonNext PROVE JsonInv'
  OBVIOUS
<1>1. /\ openAt # 0 /\ closeAt = 0 /\ openAt \in Nat /\ at \in Nat /\ openAt <= at
      /\ openAt' = openAt /\ fenced' = fenced /\ at' = at + 1
      /\ fenced[openAt] \in Opening
  BY DEF JsonNext, ScanString, ScanSymbol, Scanning, JsonInv
<1>2. fenced[openAt] # "backslash"
  BY <1>1 DEF Opening
<1>3. CASE ScanString
  <2>1. CASE nest = <<"broken">>
    <3>1. nest' = <<"broken">>
      BY <1>3, <2>1, Symbols DEF ScanString, Parsed
    <3> QED
      BY <1>1, <1>3, <3>1 DEF ScanString, JsonInv
  <2>2. CASE nest # <<"broken">>
    <3>1. ScansStrings /\ at # openAt
      BY <1>1, <1>3, <2>2 DEF ScanString, JsonInv
    <3>2. ScansStrings'
      BY <1>1, <1>2, <1>3, <3>1, StringsKept
    <3>3. nest' = nest
      BY <1>3, <3>1 DEF ScanString, Parsed, ScansStrings
    <3> QED
      BY <1>1, <1>3, <3>1, <3>2, <3>3 DEF ScanString, JsonInv
  <2> QED
    BY <2>1, <2>2
<1>4. CASE ScanSymbol
  <2>1. closeAt' # 0 => closeAt' = at
    BY <1>4 DEF ScanSymbol
  <2>2. at' \in Nat /\ at' > openAt' /\ fenced'[openAt'] \in Opening
    BY <1>1 DEF JsonInv
  <2>3. nest' # <<"broken">> =>
           /\ nest' \in Nesting
           /\ closeAt' = 0 => depth' = Cardinality(OpenIn(nest', fenced'[openAt']))
           /\ closeAt' = 0 => nest' # <<>> /\ nest'[1] = fenced'[openAt']
           /\ closeAt' # 0 => nest' = <<>>
           /\ nest # <<"broken">> /\ fenced[at] # "backslash"
    BY <1>1, <1>4, ScanSymbolKeeps
  <2>4. nest' # <<"broken">> => ScansStrings'
    <3>1. nest # <<"broken">> => ScansStrings
      BY <1>1 DEF JsonInv
    <3> QED
      BY <1>1, <1>2, <1>4, <2>3, <3>1, StringsKept
  <2> QED
    BY <1>1, <2>1, <2>2, <2>3, <2>4 DEF JsonInv
<1> QED
  BY <1>3, <1>4 DEF JsonNext

\* For every reply, with strings and escapes of any length in it, the scan stops
\* at the symbol that closes the value by the grammar, and at no other unless the
\* text is no JSON (ExtractedIsOneValue).
THEOREM JsonDelimits == Spec => []ExtractedIsOneValue
<1>1. JsonInv /\ [Next]_vars => JsonInv'
  <2> SUFFICES ASSUME JsonInv, [Next]_vars PROVE JsonInv'
    OBVIOUS
  <2>1. JsonNext \/ UNCHANGED jsonVars
    BY DEF Next, vars, RunJson
  <2>2. CASE UNCHANGED jsonVars
    <3>1. ScansStrings' = ScansStrings
      BY <2>2, Zenon DEF jsonVars, ScansStrings, InString, Quotes, Escaped, Run
    <3> QED
      BY <2>2, <3>1 DEF JsonInv, jsonVars
  <2> QED
    BY <2>1, <2>2, JsonStep
<1>2. JsonInv => ExtractedIsOneValue
  <2> SUFFICES ASSUME JsonInv, openAt # 0, at > openAt
               PROVE  /\ nest = <<>> => closeAt = at - 1
                      /\ closeAt # 0 => nest \in {<<>>, <<"broken">>}
    BY DEF ExtractedIsOneValue
  <2>1. nest = <<>> => nest # <<"broken">>
    OBVIOUS
  <2> QED
    BY <2>1 DEF JsonInv
<1> QED
  BY JsonStarts, <1>1, <1>2, PTL DEF Spec

(***************************************************************************)
(* The passage and the notes.  A line at which a paragraph starts is the   *)
(* first line of the paragraph the loop is at, never one further down, so  *)
(* the loops pass over no line that starts a paragraph without looking at  *)
(* it.                                                                     *)
(***************************************************************************)
PassageInv ==
    /\ clause \in Seq(Kind)
    /\ quoted \in Nat \X Nat /\ (clause # <<>> => quoted[2] >= 1)
    /\ end \in Nat /\ quoted[2] <= end /\ end - quoted[2] <= MaxBulletExtension
    /\ used \in Nat /\ used <= MaxNotes /\ notes \in Seq(Nat)
    /\ pos \in Nat \ {0} /\ (pos # 1 /\ pos - 1 <= Len(clause) => clause[pos - 1] = "blank")
    /\ gathering \in {"bullets", "notes", "done"}
    /\ \A l \in (quoted[2] + 1)..end : StartsParagraph(l) => IsBullet(l) \/ IsNote(l)
    /\ gathering = "bullets" =>
          \A l \in (end + 1)..(pos - 1) : l <= Len(clause) => ~StartsParagraph(l)
    /\ gathering # "bullets" =>
          \A l \in 1..(pos - 1) :
             l <= Len(clause) /\ IsNote(l) /\ StartsParagraph(l) =>
                l \in quoted[1]..end \/ \E i \in 1..Len(notes) : notes[i] = l
    /\ gathering = "done" /\ ~truncated => pos > Len(clause)

LEMMA ParagraphEndIs ==
    ASSUME clause \in Seq(Kind), NEW p \in 1..Len(clause)
    PROVE  /\ ParagraphEnd(p) \in p..Len(clause)
           /\ \A k \in p..(ParagraphEnd(p) - 1) : k <= Len(clause) - 2 => clause[k + 1] # "blank"
           /\ ParagraphEnd(p) # Len(clause) =>
                 ParagraphEnd(p) <= Len(clause) - 2 /\ clause[ParagraphEnd(p) + 1] = "blank"
<1> DEFINE breaks == {k \in p..(Len(clause) - 2) : clause[k + 1] = "blank"}
<1>1. Len(clause) \in Nat
  OBVIOUS
<1>2. CASE breaks = {}
  <2>1. ParagraphEnd(p) = Len(clause)
    BY <1>2 DEF ParagraphEnd
  <2>2. ASSUME NEW k \in p..(Len(clause) - 1), k <= Len(clause) - 2 PROVE clause[k + 1] # "blank"
    <3>1. k \in p..(Len(clause) - 2)
      BY <1>1, <2>2
    <3>2. k \notin breaks
      BY <1>2
    <3> QED
      BY <3>1, <3>2
  <2> QED
    BY <1>1, <2>1, <2>2
<1>3. CASE breaks # {}
  <2>1. \E k \in breaks : \A j \in breaks : k <= j
    <3>1. breaks \in SUBSET Nat
      BY <1>1
    <3> QED
      BY <1>3, <3>1, Smallest
  <2>2. ParagraphEnd(p) = CHOOSE k \in breaks : \A j \in breaks : k <= j
    BY <1>3 DEF ParagraphEnd
  <2>3. ParagraphEnd(p) \in breaks /\ \A j \in breaks : ParagraphEnd(p) <= j
    BY <2>1, <2>2
  <2> QED
    BY <1>1, <2>3
<1> QED
  BY <1>2, <1>3

\* Inside a paragraph, and on the blank line after it, no paragraph starts.
LEMMA InParagraph ==
    ASSUME PassageInv, pos <= Len(clause),
           NEW l \in (pos + 1)..(ParagraphEnd(pos) + 1), l <= Len(clause)
    PROVE  ~StartsParagraph(l)
<1> DEFINE stop == ParagraphEnd(pos)
<1>1. /\ pos \in 1..Len(clause) /\ Len(clause) \in Nat
      /\ pos = 1 \/ clause[pos - 1] = "blank"
  BY DEF PassageInv
<1>2. /\ stop \in pos..Len(clause)
      /\ \A k \in pos..(stop - 1) : k <= Len(clause) - 2 => clause[k + 1] # "blank"
      /\ stop # Len(clause) => clause[stop + 1] = "blank"
  BY <1>1, ParagraphEndIs DEF PassageInv
<1>3. CASE l = stop + 1
  BY <1>1, <1>2, <1>3 DEF StartsParagraph
<1>4. CASE l = pos + 1
  BY <1>1, <1>2, <1>4 DEF StartsParagraph
<1>5. CASE l > pos + 1 /\ l <= stop
  <2>1. l - 2 \in pos..(stop - 1) /\ l - 2 <= Len(clause) - 2 /\ (l - 2) + 1 = l - 1
    BY <1>1, <1>2, <1>5
  <2>2. clause[l - 1] # "blank"
    BY <1>2, <2>1
  <2> QED
    BY <1>1, <1>5, <2>2 DEF StartsParagraph
<1> QED
  BY <1>1, <1>2, <1>3, <1>4, <1>5

LEMMA NextPosition ==
    ASSUME PassageInv, pos <= Len(clause), pos' = NextParagraph(pos), clause' = clause
    PROVE  /\ pos' = ParagraphEnd(pos) + 2 /\ pos' \in Nat \ {0}
           /\ pos' - 1 <= Len(clause) => clause[pos' - 1] = "blank"
<1>1. pos \in 1..Len(clause) /\ Len(clause) \in Nat
  BY DEF PassageInv
<1>2. /\ ParagraphEnd(pos) \in pos..Len(clause)
      /\ ParagraphEnd(pos) # Len(clause) => clause[ParagraphEnd(pos) + 1] = "blank"
  BY <1>1, ParagraphEndIs DEF PassageInv
<1>3. pos' = ParagraphEnd(pos) + 2
  BY DEF NextParagraph
<1> QED
  BY <1>1, <1>2, <1>3

LEMMA PassageStarts == Init => PassageInv
<1> SUFFICES ASSUME NEW text \in Seq(Kind), NEW q \in Nat \X Nat, NEW colons \in BOOLEAN,
                    text # <<>> => q[2] >= 1, PassageInit(text, q, colons)
             PROVE  PassageInv
  <2> SUFFICES ASSUME Init
               PROVE  \E text \in Seq(Kind), q \in Nat \X Nat, colons \in BOOLEAN :
                         (text # <<>> => q[2] >= 1) /\ PassageInit(text, q, colons)
    OBVIOUS
  <2>1. CASE PassageInit(<<>>, <<1, 0>>, FALSE)
    <3>1. <<>> \in Seq(Kind) /\ <<1, 0>> \in Nat \X Nat /\ FALSE \in BOOLEAN
      OBVIOUS
    <3> QED
      BY <2>1, <3>1
  <2>2. CASE \E text \in GapClauses, colons \in BOOLEAN :
                \E i \in 1..Len(text) : \E j \in i..Len(text) : PassageInit(text, <<i, j>>, colons)
    <3>1. PICK text \in GapClauses, colons \in BOOLEAN :
             \E i \in 1..Len(text) : \E j \in i..Len(text) : PassageInit(text, <<i, j>>, colons)
      BY <2>2
    <3>2. PICK i \in 1..Len(text) : \E j \in i..Len(text) : PassageInit(text, <<i, j>>, colons)
      BY <3>1
    <3>4. PICK j \in i..Len(text) : PassageInit(text, <<i, j>>, colons)
      BY <3>2
    <3>3. text \in Seq(Kind) /\ i \in Nat /\ j \in Nat /\ j >= 1
      BY TextsAssumption
    <3> QED
      BY <3>4, <3>3
  <2> QED
    BY <2>1, <2>2 DEF Init
<1> QED
  BY PassageAssumption DEF PassageInit, PassageInv

LEMMA ExtendKeeps == PassageInv /\ ExtendPassage => PassageInv'
<1> SUFFICES ASSUME PassageInv, ExtendPassage PROVE PassageInv'
  OBVIOUS
<1> USE DEF StartsParagraph, IsBullet, IsNote
<1>1. PICK stop : stop = ParagraphEnd(pos)
  OBVIOUS
<1>2. /\ gathering = "bullets" /\ pos \in 1..Len(clause) /\ Len(clause) \in Nat
      /\ clause' = clause /\ quoted' = quoted /\ notes' = notes
      /\ used' = used /\ truncated' = truncated
  BY DEF ExtendPassage, PassageInv
<1>3. stop \in pos..Len(clause)
  BY <1>1, <1>2, ParagraphEndIs DEF PassageInv
<1>4. \A l \in (pos + 1)..(stop + 1) : l <= Len(clause) => ~StartsParagraph(l)
  BY ONLY <1>1, <1>2, InParagraph, PassageInv
<1>5. CASE (pos <= end \/ IsBlankParagraph(pos)) /\ pos' = NextParagraph(pos)
           /\ UNCHANGED <<gathering, end>>
  <2>1. pos' = stop + 2 /\ pos' \in Nat \ {0}
        /\ (pos' - 1 <= Len(clause) => clause[pos' - 1] = "blank")
    BY <1>1, <1>2, <1>5, NextPosition
  <2>2. pos > end => ~StartsParagraph(pos)
    BY <1>2, <1>5 DEF IsBlankParagraph, PassageInv
  <2>3. \A l \in (end + 1)..(pos' - 1) : l <= Len(clause) => ~StartsParagraph(l)
    <3> SUFFICES ASSUME NEW l \in (end + 1)..(pos' - 1), l <= Len(clause)
                 PROVE  ~StartsParagraph(l)
      OBVIOUS
    <3>1. l \in (end + 1)..(pos - 1) \/ (l = pos /\ pos > end) \/ l \in (pos + 1)..(stop + 1)
      BY <1>2, <1>3, <2>1 DEF PassageInv
    <3> QED
      BY <1>2, <1>4, <2>2, <3>1 DEF PassageInv
  <2> QED
    BY <1>2, <1>5, <2>1, <2>3 DEF PassageInv
<1>6. CASE pos > end /\ (IsBullet(pos) \/ IsNote(pos)) /\ stop - quoted[2] <= MaxBulletExtension
           /\ pos' = NextParagraph(pos) /\ end' = stop /\ gathering' = gathering
  <2>1. pos' = stop + 2 /\ pos' \in Nat \ {0}
        /\ (pos' - 1 <= Len(clause) => clause[pos' - 1] = "blank")
    BY <1>1, <1>2, <1>6, NextPosition
  <2>2. \A l \in (quoted[2] + 1)..stop : StartsParagraph(l) => IsBullet(l) \/ IsNote(l)
    <3> SUFFICES ASSUME NEW l \in (quoted[2] + 1)..stop, StartsParagraph(l)
                 PROVE  IsBullet(l) \/ IsNote(l)
      OBVIOUS
    <3>1. \/ l \in (quoted[2] + 1)..end \/ l \in (end + 1)..(pos - 1)
          \/ l = pos \/ l \in (pos + 1)..(stop + 1)
      BY <1>2, <1>3 DEF PassageInv
    <3>2. l <= Len(clause)
      BY <1>3
    <3> QED
      BY <1>2, <1>4, <1>6, <3>1, <3>2 DEF PassageInv
  <2>3. \A l \in (stop + 1)..(pos' - 1) : l <= Len(clause) => ~StartsParagraph(l)
    BY <1>2, <1>3, <1>4, <2>1
  <2>4. end' \in Nat /\ quoted[2] <= end'
    BY <1>2, <1>3, <1>6 DEF PassageInv
  <2> QED
    BY <1>2, <1>6, <2>1, <2>2, <2>3, <2>4 DEF PassageInv
<1>7. CASE pos' = 1 /\ gathering' = "notes" /\ end' = end
  BY <1>2, <1>7 DEF PassageInv
<1> QED
  BY <1>1, <1>5, <1>6, <1>7 DEF ExtendPassage

LEMMA CollectKeeps == PassageInv /\ CollectNote => PassageInv'
<1> SUFFICES ASSUME PassageInv, CollectNote PROVE PassageInv'
  OBVIOUS
<1> USE DEF StartsParagraph, IsBullet, IsNote
<1>1. PICK stop : stop = ParagraphEnd(pos)
  OBVIOUS
<1>2. /\ gathering = "notes" /\ pos \in 1..Len(clause) /\ Len(clause) \in Nat
      /\ clause' = clause /\ quoted' = quoted /\ end' = end
  BY DEF CollectNote, PassageInv
<1>3. stop \in pos..Len(clause)
  BY <1>1, <1>2, ParagraphEndIs DEF PassageInv
<1>4. \A l \in (pos + 1)..(stop + 1) : l <= Len(clause) => ~StartsParagraph(l)
  BY ONLY <1>1, <1>2, InParagraph, PassageInv
<1>5. CASE truncated' = TRUE /\ gathering' = "done" /\ UNCHANGED <<pos, notes, used>>
  BY <1>2, <1>5 DEF PassageInv
<1>6. ASSUME pos' = NextParagraph(pos), gathering' = gathering,
             notes' \in Seq(Nat), used' \in Nat, used' <= MaxNotes,
             \A i \in 1..Len(notes) : \E j \in 1..Len(notes') : notes'[j] = notes[i],
             IsNote(pos) => pos \in quoted[1]..end \/ \E i \in 1..Len(notes') : notes'[i] = pos
      PROVE  PassageInv'
  <2>1. pos' = stop + 2 /\ pos' \in Nat \ {0}
        /\ (pos' - 1 <= Len(clause) => clause[pos' - 1] = "blank")
    BY <1>1, <1>2, <1>6, NextPosition
  <2>2. ASSUME NEW l \in 1..(pos' - 1), l <= Len(clause), IsNote(l), StartsParagraph(l)
        PROVE  l \in quoted[1]..end \/ \E i \in 1..Len(notes') : notes'[i] = l
    <3>1. l \in 1..(pos - 1) \/ l = pos \/ l \in (pos + 1)..(stop + 1)
      BY <1>2, <1>3, <2>1
    <3>2. CASE l \in 1..(pos - 1)
      <4>1. l \in quoted[1]..end \/ \E i \in 1..Len(notes) : notes[i] = l
        BY <1>2, <2>2, <3>2 DEF PassageInv
      <4> QED
        BY <1>6, <4>1
    <3> QED
      BY <1>4, <1>6, <2>2, <3>1, <3>2
  <2> QED
    BY <1>2, <1>6, <2>1, <2>2 DEF PassageInv
<1>7. CASE /\ ~IsNote(pos) \/ (quoted[1] <= pos /\ stop <= end)
           /\ pos' = NextParagraph(pos) /\ UNCHANGED <<gathering, notes, used, truncated>>
  <2>1. IsNote(pos) => pos \in quoted[1]..end
    BY <1>2, <1>3, <1>7 DEF PassageInv
  <2> QED
    BY <1>6, <1>7, <2>1 DEF PassageInv
<1>8. CASE /\ ~(used + (stop - pos + 1) > MaxNotes)
           /\ pos' = NextParagraph(pos) /\ notes' = Append(notes, pos)
           /\ used' = used + (stop - pos + 1) /\ UNCHANGED <<gathering, truncated>>
  <2>1. notes \in Seq(Nat) /\ pos \in Nat /\ used \in Nat
    BY DEF PassageInv
  <2>2. /\ notes' \in Seq(Nat) /\ Len(notes') = Len(notes) + 1 /\ Len(notes) \in Nat
        /\ notes'[Len(notes) + 1] = pos /\ \A i \in 1..Len(notes) : notes'[i] = notes[i]
    BY <1>8, <2>1, AppendProperties
  <2>3. used' \in Nat /\ used' <= MaxNotes
    BY <1>2, <1>3, <1>8, <2>1, PassageAssumption
  <2>4. \A i \in 1..Len(notes) : \E j \in 1..Len(notes') : notes'[j] = notes[i]
    BY <2>2
  <2>5. \E i \in 1..Len(notes') : notes'[i] = pos
    BY <2>2
  <2> QED
    BY <1>6, <1>8, <2>2, <2>3, <2>4, <2>5
<1> QED
  BY <1>1, <1>5, <1>7, <1>8 DEF CollectNote

LEMMA PassageStep == PassageInv /\ PassageNext => PassageInv'
<1> SUFFICES ASSUME PassageInv, PassageNext PROVE PassageInv'
  OBVIOUS
<1>1. CASE PassageEnds
  BY <1>1 DEF PassageEnds, PassageInv, StartsParagraph, IsBullet, IsNote
<1>2. CASE NotesEnd
  BY <1>2 DEF NotesEnd, PassageInv, StartsParagraph, IsBullet, IsNote
<1> QED
  BY <1>1, <1>2, ExtendKeeps, CollectKeeps DEF PassageNext

\* No NOTE is withheld unsaid and nothing else taken in, for every clause and
\* quote (VerifierSeesNotes).
THEOREM NotesSeen == Spec => []VerifierSeesNotes
<1>1. PassageInv /\ [Next]_vars => PassageInv'
  <2> SUFFICES ASSUME PassageInv, [Next]_vars PROVE PassageInv'
    OBVIOUS
  <2>1. PassageNext \/ UNCHANGED passageVars
    BY DEF Next, vars, RunPassage
  <2>2. CASE UNCHANGED passageVars
    BY <2>2 DEF PassageInv, passageVars, StartsParagraph, IsBullet, IsNote
  <2> QED
    BY <2>1, <2>2, PassageStep
<1>2. PassageInv => VerifierSeesNotes
  <2> SUFFICES ASSUME PassageInv PROVE VerifierSeesNotes
    OBVIOUS
  <2>1. ASSUME gathering = "done" /\ ~truncated, NEW l \in 1..Len(clause),
               IsNote(l) /\ StartsParagraph(l)
        PROVE  l \in quoted[1]..end \/ \E i \in 1..Len(notes) : notes[i] = l
    <3>1. l \in 1..(pos - 1)
      BY <2>1 DEF PassageInv
    <3> QED
      BY <2>1, <3>1 DEF PassageInv
  <2> QED
    BY <2>1 DEF PassageInv, VerifierSeesNotes
<1> QED
  BY PassageStarts, <1>1, <1>2, PTL DEF Spec

(***************************************************************************)
(* The window.  The stretch that leads covers at least what any stretch    *)
(* covers that starts at a line already looked at; a longer stretch from   *)
(* the same line covers no less.                                           *)
(***************************************************************************)
StartsUpTo(ls, n) ==
    \E f \in [1..(n + 1) -> Nat] :
       f[1] = 0 /\ \A i \in 2..(n + 1) : f[i] = f[i - 1] + ls[i - 1].len

LEMMA LineLengths ==
    ASSUME NEW ls \in Seq(Line)
    PROVE  Len(ls) \in Nat /\ \A i \in 1..Len(ls) : ls[i].len \in Nat \ {0}
<1>1. Len(ls) \in Nat /\ \A i \in 1..Len(ls) : ls[i] \in Line
  OBVIOUS
<1> QED
  BY <1>1 DEF Line

LEMMA StartsExist == ASSUME NEW ls \in Seq(Line), NEW n \in 0..Len(ls) PROVE StartsUpTo(ls, n)
<1> DEFINE Without == {k \in 0..Len(ls) : ~StartsUpTo(ls, k)}
<1>1. Len(ls) \in Nat /\ \A i \in 1..Len(ls) : ls[i].len \in Nat
  BY LineLengths
<1>2. ASSUME Without # {} PROVE FALSE
  <2>1. Without \in SUBSET Nat
    BY <1>1
  <2>2. PICK m \in Without : \A k \in Without : m <= k
    BY <1>2, <2>1, Smallest
  <2>3. m \in Nat /\ m <= Len(ls) /\ ~StartsUpTo(ls, m)
    BY <1>1, <2>2
  <2>4. CASE m = 0
    <3>1. PICK f \in [1..1 -> Nat] : f[1] = 0
      <4>1. [i \in 1..1 |-> 0] \in [1..1 -> Nat] /\ [i \in 1..1 |-> 0][1] = 0
        OBVIOUS
      <4> QED
        BY <4>1
    <3>2. 1..(m + 1) = 1..1 /\ 2..(m + 1) = {}
      BY <2>4
    <3> QED
      BY <2>3, <3>1, <3>2, Zenon DEF StartsUpTo
  <2>5. CASE m # 0
    <3>1. m - 1 \notin Without /\ m - 1 \in 0..Len(ls)
      BY <1>1, <2>2, <2>3, <2>5
    <3>2. PICK f \in [1..m -> Nat] : f[1] = 0 /\ \A i \in 2..m : f[i] = f[i - 1] + ls[i - 1].len
      <4>1. StartsUpTo(ls, m - 1) /\ (m - 1) + 1 = m
        BY <2>3, <3>1
      <4> QED
        BY <4>1 DEF StartsUpTo
    <3> DEFINE g == [i \in 1..(m + 1) |-> IF i = m + 1 THEN f[m] + ls[m].len ELSE f[i]]
    <3>3. g \in [1..(m + 1) -> Nat]
      BY <1>1, <2>3, <2>5, <3>2
    <3>4. g[1] = 0 /\ \A i \in 2..(m + 1) : g[i] = g[i - 1] + ls[i - 1].len
      BY <2>3, <2>5, <3>2
    <3> QED
      BY <2>3, <3>3, <3>4 DEF StartsUpTo
  <2> QED
    BY <2>4, <2>5
<1> QED
  BY <1>2

\* Where the lines start.
LEMMA StartsAre ==
    ASSUME NEW ls \in Seq(Line)
    PROVE  /\ StartsOf(ls) \in [1..(Len(ls) + 1) -> Nat] /\ StartsOf(ls)[1] = 0
           /\ \A i \in 1..Len(ls) : StartsOf(ls)[i + 1] = StartsOf(ls)[i] + ls[i].len
<1>1. Len(ls) \in Nat /\ \A i \in 1..Len(ls) : ls[i].len \in Nat
  BY LineLengths
<1>2. PICK f \in [1..(Len(ls) + 1) -> Nat] :
         f[1] = 0 /\ \A i \in 2..(Len(ls) + 1) : f[i] = f[i - 1] + ls[i - 1].len
  <2>1. StartsUpTo(ls, Len(ls))
    BY <1>1, StartsExist
  <2> QED
    BY <2>1, Zenon DEF StartsUpTo
<1>3. f = [i \in 1..(Len(ls) + 1) |-> IF i = 1 THEN 0 ELSE f[i - 1] + ls[i - 1].len]
  BY <1>1, <1>2
<1>4. PICK g : g = StartsOf(ls)
  OBVIOUS
<1>5. g = [i \in 1..(Len(ls) + 1) |-> IF i = 1 THEN 0 ELSE g[i - 1] + ls[i - 1].len]
  BY <1>3, <1>4, Zenon DEF StartsOf
<1> HIDE <1>4
<1>6. g[1] = 0 /\ \A i \in 1..Len(ls) : g[i + 1] = g[i] + ls[i].len
  BY <1>1, <1>5
<1>7. ASSUME {i \in 1..(Len(ls) + 1) : g[i] \notin Nat} # {} PROVE FALSE
  <2> DEFINE Off == {i \in 1..(Len(ls) + 1) : g[i] \notin Nat}
  <2>1. Off \in SUBSET Nat
    OBVIOUS
  <2>2. PICK m \in Off : \A k \in Off : m <= k
    BY <1>7, <2>1, Smallest
  <2>3. m \in 2..(Len(ls) + 1) /\ m - 1 \in 1..Len(ls) /\ (m - 1) + 1 = m
    BY <1>1, <1>6, <2>2
  <2>4. m - 1 \notin Off
    BY <2>2, <2>3
  <2>5. g[m - 1] \in Nat /\ g[m] = g[m - 1] + ls[m - 1].len
    BY <1>1, <1>6, <2>3, <2>4
  <2> QED
    BY <1>1, <2>2, <2>3, <2>5
<1>8. g \in [1..(Len(ls) + 1) -> Nat]
  BY <1>5, <1>7
<1> QED
  BY <1>4, <1>6, <1>8

\* A later line starts later.
LEMMA StartsGrow ==
    ASSUME lines \in Seq(Line), NEW i \in 1..(Len(lines) + 1), NEW j \in (i + 1)..(Len(lines) + 1)
    PROVE  Start(i) \in Nat /\ Start(j) \in Nat /\ Start(i) < Start(j)
<1>1. Len(lines) \in Nat /\ \A k \in 1..Len(lines) : lines[k].len \in Nat \ {0}
  BY LineLengths
<1>2. /\ \A k \in 1..(Len(lines) + 1) : Start(k) \in Nat
      /\ \A k \in 1..Len(lines) : Start(k + 1) = Start(k) + lines[k].len
  BY <1>1, StartsAre DEF Start
<1> DEFINE Off == {k \in (i + 1)..(Len(lines) + 1) : ~(Start(i) < Start(k))}
<1>3. ASSUME Off # {} PROVE FALSE
  <2>1. Off \in SUBSET Nat
    BY <1>1
  <2>2. PICK m \in Off : \A k \in Off : m <= k
    BY <1>3, <2>1, Smallest
  <2>3. m - 1 \in i..Len(lines) /\ m - 1 \in 1..Len(lines) /\ (m - 1) + 1 = m
    BY <1>1, <2>2
  <2>4. Start(m) = Start(m - 1) + lines[m - 1].len /\ Start(m - 1) \in Nat /\ Start(i) \in Nat
    BY <1>1, <1>2, <2>3
  <2>5. m - 1 = i \/ Start(i) < Start(m - 1)
    <3>1. m - 1 \notin Off
      BY <2>2, <2>3
    <3> QED
      BY <1>1, <2>3, <3>1
  <2>6. Start(i) < Start(m)
    BY <1>1, <2>3, <2>4, <2>5
  <2> QED
    BY <2>2, <2>6
<1>4. j \notin Off
  BY <1>3
<1> QED
  BY <1>1, <1>2, <1>4

LEMMA CoveredIsFinite ==
    ASSUME salient \subseteq Terms, NEW i, NEW j
    PROVE  IsFiniteSet(Covered(i, j)) /\ Cardinality(Covered(i, j)) \in Nat
<1>1. Covered(i, j) \subseteq Terms
  BY DEF Covered
<1>2. IsFiniteSet(Covered(i, j))
  BY <1>1, FS_Subset, WindowAssumption
<1> QED
  BY <1>2, FS_CardinalityType

\* The longest stretch that fits covers no less than a shorter one.
LEMMA ReachCoversMost ==
    ASSUME lines \in Seq(Line), salient \subseteq Terms, NEW i \in 1..Len(lines)
    PROVE  /\ Reach(i) \in (i - 1)..Len(lines)
           /\ Reach(i) >= i => Fits(i, Reach(i))
           /\ \A j \in i..Len(lines) : Fits(i, j) =>
                 Cardinality(Covered(i, j)) <= Cardinality(Covered(i, Reach(i)))
<1> DEFINE ends == {j \in i..Len(lines) : Fits(i, j)}
<1>1. Len(lines) \in Nat
  OBVIOUS
<1>2. CASE ends = {}
  <2>1. Reach(i) = i - 1
    BY <1>2 DEF Reach
  <2>2. \A j \in i..Len(lines) : ~Fits(i, j)
    BY <1>2
  <2> QED
    BY <1>1, <2>1, <2>2
<1>3. CASE ends # {}
  <2>1. \E j \in ends : \A k \in ends : k <= j
    <3> DEFINE rest == {n \in 0..Len(lines) : Len(lines) - n \in ends}
    <3>1. \A k \in ends : k \in 1..Len(lines) /\ Len(lines) - k \in rest
      BY <1>1
    <3>2. rest # {} /\ rest \in SUBSET Nat
      <4>1. PICK k \in ends : TRUE
        BY <1>3
      <4>2. Len(lines) - k \in rest
        BY <3>1, <4>1
      <4>3. rest \in SUBSET Nat
        OBVIOUS
      <4> QED
        BY <4>2, <4>3
    <3>3. PICK n \in rest : \A m \in rest : n <= m
      BY <3>2, Smallest
    <3>4. Len(lines) - n \in ends /\ n \in Nat
      BY <1>1, <3>3
    <3>5. ASSUME NEW k \in ends PROVE k <= Len(lines) - n
      <4>1. Len(lines) - k \in rest /\ k \in Nat
        BY <3>1
      <4>2. n <= Len(lines) - k
        BY <3>3, <4>1
      <4> QED
        BY <1>1, <3>4, <4>1, <4>2
    <3> QED
      BY <3>4, <3>5
  <2>2. Reach(i) = CHOOSE j \in ends : \A k \in ends : k <= j
    BY <1>3 DEF Reach
  <2>3. Reach(i) \in ends /\ \A k \in ends : k <= Reach(i)
    BY <2>1, <2>2
  <2>4. ASSUME NEW j \in i..Len(lines), Fits(i, j)
        PROVE  Cardinality(Covered(i, j)) <= Cardinality(Covered(i, Reach(i)))
    <3>1. j \in ends /\ j <= Reach(i) /\ Reach(i) \in i..Len(lines)
      BY <2>3, <2>4
    <3>2. Covered(i, j) \subseteq Covered(i, Reach(i))
      <4>1. i..j \subseteq i..Reach(i)
        BY <1>1, <3>1
      <4> QED
        BY <4>1 DEF Covered
    <3> QED
      BY <3>2, CoveredIsFinite, FS_Subset
  <2> QED
    BY <1>1, <2>3, <2>4
<1> QED
  BY <1>2, <1>3

WindowInv ==
    /\ lines \in Seq(Line) /\ salient \subseteq Terms
    /\ from \in 1..(Len(lines) + 1)
    /\ best.score \in Int /\ (from = 1 => best.score = -1)
    /\ from > 1 => /\ best.first \in 1..(from - 1) /\ best.last \in best.first..Len(lines)
                   /\ Fits(best.first, best.last) \/ best.score = 0
                   /\ best.score >= 0 /\ (best.score = 0 => best.first = 1)
    /\ \A i \in 1..(from - 1) : \A j \in i..Len(lines) :
          Fits(i, j) => \/ Cardinality(Covered(i, j)) < best.score
                        \/ Cardinality(Covered(i, j)) = best.score /\ best.first <= i

LEMMA WindowStarts == Init => WindowInv
<1> SUFFICES ASSUME NEW text \in Seq(Line), NEW req \in SUBSET Terms, WindowInit(text, req)
             PROVE  WindowInv
  <2>1. <<>> \in Seq(Line) /\ {} \in SUBSET Terms /\ LongClauses \subseteq Seq(Line)
    BY TextsAssumption
  <2> QED
    BY <2>1 DEF Init
<1> QED
  BY DEF WindowInit, WindowInv

LEMMA WindowStep == WindowInv /\ WindowNext => WindowInv'
<1> SUFFICES ASSUME WindowInv, WindowNext PROVE WindowInv'
  OBVIOUS
<1>1. PICK last, score :
         /\ last = Reach(from) /\ score = Cardinality(Covered(from, last))
         /\ best' = IF score > best.score
                      THEN [score |-> score, first |-> from,
                            last |-> IF last < from THEN from ELSE last]
                      ELSE best
         /\ from' = from + 1 /\ lines' = lines /\ salient' = salient
         /\ from <= Len(lines)
  BY DEF WindowNext, ExtendFrom
<1>2. /\ lines \in Seq(Line) /\ salient \subseteq Terms /\ Len(lines) \in Nat
      /\ from \in 1..Len(lines) /\ best.score \in Int
  BY <1>1 DEF WindowInv
<1>3. /\ last \in (from - 1)..Len(lines) /\ (last >= from => Fits(from, last))
      /\ \A j \in from..Len(lines) : Fits(from, j) => Cardinality(Covered(from, j)) <= score
  BY <1>1, <1>2, ReachCoversMost
<1>4. score \in Nat /\ \A i, j : Cardinality(Covered(i, j)) \in Nat
  BY <1>1, <1>2, CoveredIsFinite
<1>5. last < from => score = 0
  <2>1. ASSUME last < from PROVE Covered(from, last) = {}
    <3>1. from..last = {}
      BY <1>2, <1>3, <2>1
    <3> QED
      BY <3>1 DEF Covered
  <2> QED
    BY <1>1, <2>1, FS_EmptySet
<1>6. \A i, j : (Fits(i, j))' = Fits(i, j) /\ (Covered(i, j))' = Covered(i, j)
  BY <1>1 DEF Fits, Start, Covered
<1>7. \A i \in 1..(from' - 1) : i \in 1..(from - 1) \/ i = from
  BY <1>1, <1>2
<1>8. CASE score > best.score
  <2>1. best'.score = score /\ best'.first = from /\ best'.last = IF last < from THEN from ELSE last
    BY <1>1, <1>8
  <2>2. ASSUME NEW i \in 1..(from' - 1), NEW j \in i..Len(lines), Fits(i, j)
        PROVE  \/ Cardinality(Covered(i, j)) < best'.score
               \/ Cardinality(Covered(i, j)) = best'.score /\ best'.first <= i
    <3>1. CASE i \in 1..(from - 1)
      <4>1. Cardinality(Covered(i, j)) <= best.score
        BY <1>2, <1>4, <2>2, <3>1 DEF WindowInv
      <4> QED
        BY <1>2, <1>4, <1>8, <2>1, <4>1
    <3>2. CASE i = from
      BY <1>2, <1>3, <1>4, <2>1, <2>2, <3>2
    <3> QED
      BY <1>7, <3>1, <3>2
  <2>3. /\ best'.first \in 1..(from' - 1) /\ best'.last \in best'.first..Len(lines)
        /\ Fits(best'.first, best'.last) \/ best'.score = 0
    BY <1>1, <1>2, <1>3, <1>5, <2>1
  <2>4. best'.score >= 0 /\ (best'.score = 0 => best'.first = 1)
    BY <1>2, <1>4, <1>8, <2>1 DEF WindowInv
  <2> QED
    BY <1>1, <1>2, <1>4, <1>6, <2>1, <2>2, <2>3, <2>4 DEF WindowInv
<1>9. CASE ~(score > best.score)
  <2>1. best' = best /\ from > 1
    BY <1>1, <1>2, <1>4, <1>9 DEF WindowInv
  <2>2. ASSUME NEW i \in 1..(from' - 1), NEW j \in i..Len(lines), Fits(i, j)
        PROVE  \/ Cardinality(Covered(i, j)) < best.score
               \/ Cardinality(Covered(i, j)) = best.score /\ best.first <= i
    <3>1. CASE i \in 1..(from - 1)
      BY <2>2, <3>1 DEF WindowInv
    <3>2. CASE i = from
      <4>1. Cardinality(Covered(from, j)) <= score /\ best.first \in 1..(from - 1)
        BY <1>3, <2>1, <2>2, <3>2 DEF WindowInv
      <4> QED
        BY <1>2, <1>4, <1>9, <3>2, <4>1
    <3> QED
      BY <1>7, <3>1, <3>2
  <2>3. /\ best.first \in 1..(from' - 1) /\ best.last \in best.first..Len(lines)
        /\ Fits(best.first, best.last) \/ best.score = 0
        /\ best.score >= 0 /\ (best.score = 0 => best.first = 1)
    BY <1>1, <1>2, <2>1 DEF WindowInv
  <2> QED
    BY <1>1, <1>2, <1>6, <2>1, <2>2, <2>3 DEF WindowInv
<1> QED
  BY <1>8, <1>9

\* The window covers as much of the requirement as any stretch of its size, for
\* every clause (WindowCoversMost).
THEOREM WindowBest == Spec => []WindowCoversMost
<1>1. WindowInv /\ [Next]_vars => WindowInv'
  <2> SUFFICES ASSUME WindowInv, [Next]_vars PROVE WindowInv'
    OBVIOUS
  <2>1. WindowNext \/ UNCHANGED windowVars
    BY DEF Next, vars, RunWindow
  <2>2. CASE UNCHANGED windowVars
    <3>1. lines' = lines /\ salient' = salient /\ from' = from /\ best' = best
      BY <2>2 DEF windowVars
    <3>2. \A i, j : (Fits(i, j))' = Fits(i, j) /\ (Covered(i, j))' = Covered(i, j)
      BY <3>1 DEF Fits, Start, Covered
    <3> QED
      BY <3>1, <3>2 DEF WindowInv
  <2> QED
    BY <2>1, <2>2, WindowStep
<1>2. WindowInv => WindowCoversMost
  <2> SUFFICES ASSUME WindowInv, Selected PROVE WindowCoversMost
    BY DEF WindowCoversMost
  <2>1. /\ lines \in Seq(Line) /\ Len(lines) \in Nat /\ from = Len(lines) + 1
        /\ ~Short
    BY DEF WindowInv, Selected
  <2>2. Start(1) = 0
    BY <2>1, StartsAre DEF Start
  <2>3. from > 1
    BY <2>1, <2>2, WindowAssumption DEF Short
  <2>4. /\ best.first \in 1..Len(lines) /\ best.last \in best.first..Len(lines)
        /\ Fits(best.first, best.last) \/ best.score = 0
        /\ best.score = 0 => best.first = 1
    BY <2>1, <2>3 DEF WindowInv
  <2>5. /\ Start(best.first) \in Nat /\ Start(best.last + 1) \in Nat
        /\ Start(best.first) < Start(best.last + 1)
    BY <2>1, <2>4, StartsGrow, SMTT(30)
  <2>6. SelectWindow.start < SelectWindow.end /\ SelectWindow.end - SelectWindow.start <= WindowChars
    BY <2>1, <2>5, WindowAssumption DEF SelectWindow
  <2>7. \A i, j \in 1..Len(lines) :
           i <= j /\ Fits(i, j) =>
              \/ Cardinality(Covered(i, j)) < best.score
              \/ Cardinality(Covered(i, j)) = best.score /\ best.first <= i
    BY <2>1 DEF WindowInv
  <2>8. ASSUME ~Fits(best.first, best.last)
        PROVE  best.score = 0 /\ SelectWindow = [start |-> 0, end |-> WindowChars]
    <3>1. best.score = 0 /\ Start(best.first) = 0
      BY <2>2, <2>4, <2>8
    <3>2. Start(best.last + 1) > WindowChars
      BY <2>5, <2>8, <3>1, WindowAssumption DEF Fits
    <3>3. SelectWindow = [start |-> 0, end |-> WindowChars]
      BY <2>1, <2>5, <3>1, <3>2, WindowAssumption DEF SelectWindow
    <3> QED
      BY <3>1, <3>3
  <2> QED
    BY <2>4, <2>6, <2>7, <2>8 DEF WindowCoversMost
<1> QED
  BY WindowStarts, <1>1, <1>2, PTL DEF Spec

(***************************************************************************)
(* The governing sentence.  A modal of the excerpt is one of the clause;   *)
(* unless a line break follows it there, so does the word that follows it  *)
(* in the excerpt, and the parser reads the keyword the excerpt has, or a  *)
(* stronger one when the excerpt ends between its words.                   *)
(***************************************************************************)

\* read holds, for each i, the first i tokens of the text without line breaks.
Reading(read, text, i) ==
    IF i = 0 THEN <<>>
    ELSE IF text[i] = "nl" THEN read[i - 1] ELSE Append(read[i - 1], text[i])

Reads(read, text, n) == read = [i \in 0..n |-> Reading(read, text, i)]

LEMMA ReadsExist == ASSUME NEW text, Len(text) \in Nat, NEW n \in 0..Len(text)
                    PROVE  \E read : Reads(read, text, n)
<1> DEFINE Without == {k \in 0..Len(text) : ~\E read : Reads(read, text, k)}
<1>1. \A f, g, i : i = 0 \/ f[i - 1] = g[i - 1] => Reading(f, text, i) = Reading(g, text, i)
  BY Zenon DEF Reading
<1>2. ASSUME Without # {} PROVE FALSE
  <2>1. Without \in SUBSET Nat
    OBVIOUS
  <2>2. PICK m \in Without : \A k \in Without : m <= k
    BY <1>2, <2>1, Smallest
  <2>3. m \in 0..Len(text) /\ m \in Nat /\ ~\E read : Reads(read, text, m)
    BY <2>2
  <2>4. PICK read : m # 0 => Reads(read, text, m - 1)
    <3>1. CASE m = 0
      BY <3>1
    <3>2. CASE m # 0
      <4>1. m - 1 \notin Without /\ m - 1 \in 0..Len(text)
        BY <2>2, <2>3, <3>2
      <4> QED
        BY <4>1
    <3> QED
      BY <3>1, <3>2
  <2> DEFINE r == [i \in 0..m |-> IF i = m THEN Reading(read, text, m) ELSE read[i]]
  <2>5. ASSUME NEW i \in 0..m PROVE r[i] = Reading(r, text, i)
    <3>1. CASE i = m
      <4>1. i = 0 \/ r[i - 1] = read[i - 1]
        BY <2>3
      <4> QED
        BY <1>1, <3>1, <4>1
    <3>2. CASE i # m
      <4>1. r[i] = read[i] /\ (i = 0 \/ r[i - 1] = read[i - 1])
        BY <2>3, <3>2
      <4>2. read = [k \in 0..(m - 1) |-> Reading(read, text, k)] /\ i \in 0..(m - 1)
        BY <2>3, <2>4, <3>2 DEF Reads
      <4>3. read[i] = Reading(read, text, i)
        BY <4>2, Zenon
      <4> QED
        BY <1>1, <4>1, <4>3
    <3> QED
      BY <3>1, <3>2
  <2>6. r = [i \in 0..m |-> r[i]]
    OBVIOUS
  <2> HIDE DEF r
  <2>7. Reads(r, text, m)
    BY <2>5, <2>6 DEF Reads
  <2> QED
    BY <2>3, <2>7
<1> QED
  BY <1>2

\* Every token read stands in the text, before the one read next or a line
\* break.
Follows(f, text, n) ==
    /\ f \in Seq(Token)
    /\ \A m \in 1..Len(f) : \E i \in 1..n :
          /\ text[i] = f[m]
          /\ m < Len(f) => i < n
          /\ i < n => text[i + 1] = "nl" \/ (m < Len(f) /\ text[i + 1] = f[m + 1])

LEMMA FlatFollows == ASSUME NEW text \in Seq(Token) PROVE Follows(Flat(text), text, Len(text))
<1>1. Len(text) \in Nat /\ \A i \in 1..Len(text) : text[i] \in Token
  OBVIOUS
<1>2. PICK read : /\ Flat(text) = read[Len(text)] /\ Reads(read, text, Len(text))
  <2>1. \E read : Reads(read, text, Len(text))
    BY <1>1, ReadsExist
  <2>2. PICK read : read = CHOOSE f : Reads(f, text, Len(text))
    OBVIOUS
  <2>3. Reads(read, text, Len(text))
    BY <2>1, <2>2, Zenon
  <2>4. Flat(text) = read[Len(text)]
    BY <2>2, Zenon DEF Flat, Reads, Reading
  <2> QED
    BY <2>3, <2>4
<1>3. read[0] = <<>> /\ \A i \in 1..Len(text) :
         read[i] = IF text[i] = "nl" THEN read[i - 1] ELSE Append(read[i - 1], text[i])
  <2>1. \A i \in 0..Len(text) : read[i] = Reading(read, text, i)
    BY <1>2, Zenon DEF Reads
  <2>2. \A i \in 1..Len(text) : i \in 0..Len(text) /\ i # 0
    OBVIOUS
  <2>3. 0 \in 0..Len(text)
    BY <1>1
  <2>4. read[0] = <<>>
    BY <2>1, <2>3, Zenon DEF Reading
  <2> QED
    BY <2>1, <2>2, <2>4, Zenon DEF Reading
<1> DEFINE Off == {n \in 0..Len(text) : ~Follows(read[n], text, n)}
<1>4. ASSUME Off # {} PROVE FALSE
  <2>1. Off \in SUBSET Nat
    BY <1>1
  <2>2. PICK n \in Off : \A k \in Off : n <= k
    BY <1>4, <2>1, Smallest
  <2>3. n \in 0..Len(text) /\ n \in Nat /\ ~Follows(read[n], text, n)
    BY <1>1, <2>2
  <2>4. n # 0
    <3>1. <<>> \in Seq(Token) /\ Len(<<>>) = 0
      BY EmptySeq
    <3>2. Follows(<<>>, text, 0)
      BY <3>1 DEF Follows
    <3> QED
      BY <1>3, <2>3, <3>2, Zenon
  <2>5. PICK p \in 0..Len(text) : n = p + 1 /\ p \in Nat /\ Follows(read[p], text, p)
    <3>1. n - 1 \notin Off /\ n - 1 \in 0..Len(text) /\ n - 1 \in Nat /\ n = (n - 1) + 1
      BY <1>1, <2>2, <2>3, <2>4
    <3> QED
      BY <3>1
  <2>6. CASE text[n] = "nl"
    <3>1. read[n] = read[p]
      BY <1>3, <2>3, <2>4, <2>5, <2>6
    <3>2. Follows(read[p], text, n)
      BY <2>5, <2>6 DEF Follows
    <3> QED
      BY <2>3, <3>1, <3>2
  <2>7. CASE text[n] # "nl"
    <3> DEFINE f == read[p]
    <3>1. read[n] = Append(f, text[n]) /\ text[n] \in Token
      <4>1. n \in 1..Len(text) /\ n - 1 = p
        BY <2>3, <2>4, <2>5
      <4>2. read[n] = Append(read[n - 1], text[n])
        BY <1>3, <2>7, <4>1, Zenon
      <4> QED
        BY <1>1, <4>1, <4>2
    <3>2. /\ f \in Seq(Token) /\ Len(f) \in Nat
          /\ \A m \in 1..Len(f) : \E i \in 1..p :
                /\ text[i] = f[m] /\ (m < Len(f) => i < p)
                /\ i < p => text[i + 1] = "nl" \/ (m < Len(f) /\ text[i + 1] = f[m + 1])
      BY <2>5 DEF Follows
    <3> HIDE DEF f
    <3>3. /\ read[n] \in Seq(Token) /\ Len(read[n]) = Len(f) + 1
          /\ read[n][Len(f) + 1] = text[n] /\ \A m \in 1..Len(f) : read[n][m] = f[m]
      BY <3>1, <3>2, AppendProperties
    <3>4. ASSUME NEW m \in 1..Len(read[n])
          PROVE  \E i \in 1..n :
                    /\ text[i] = read[n][m] /\ (m < Len(read[n]) => i < n)
                    /\ i < n => text[i + 1] = "nl"
                                 \/ (m < Len(read[n]) /\ text[i + 1] = read[n][m + 1])
      <4>1. CASE m \in 1..Len(f)
        <5>1. PICK i \in 1..p :
                 /\ text[i] = f[m] /\ (m < Len(f) => i < p)
                 /\ i < p => text[i + 1] = "nl" \/ (m < Len(f) /\ text[i + 1] = f[m + 1])
          BY <3>2, <4>1
        <5>2. i \in 1..n /\ i < n
          BY <2>5
        <5>3. text[i] = read[n][m]
          BY <3>3, <4>1, <5>1
        <5>4. CASE i < p
          BY <3>2, <3>3, <4>1, <5>1, <5>2, <5>3, <5>4, SMTT(30)
        <5>5. CASE i = p
          BY <2>5, <3>2, <3>3, <4>1, <5>1, <5>2, <5>3, <5>5, SMTT(20)
        <5>6. i < p \/ i = p
          BY <2>5
        <5> QED
          BY <5>4, <5>5, <5>6
      <4>2. CASE m = Len(f) + 1
        <5>1. n \in 1..n /\ ~ (n < n) /\ ~ (m < Len(read[n]))
          BY <2>5, <3>2, <3>3, <4>2
        <5>2. text[n] = read[n][m]
          BY <3>3, <4>2
        <5> QED
          BY <5>1, <5>2, Zenon
      <4> QED
        BY <3>2, <3>3, <4>1, <4>2
    <3> QED
      BY <2>3, <3>3, <3>4 DEF Follows
  <2> QED
    BY <2>6, <2>7
<1>5. Follows(read[Len(text)], text, Len(text))
  BY <1>1, <1>4
<1> QED
  BY <1>2, <1>5

\* The words of the excerpt in the clause.
InClause ==
    \A m \in 1..Len(flat) : \E i \in 1..Len(clauseText) :
       /\ clauseText[i] = flat[m]
       /\ m < Len(flat) /\ flat[m + 1] = "not" =>
             i < Len(clauseText) /\ clauseText[i + 1] \in {"nl", "not"}

GoverningInv ==
    /\ clauseText \in Seq(Token) /\ flat \in Seq(Token) /\ wanted \subseteq Term
    /\ word \in Nat \ {0}
    /\ InClause
    /\ \/ governing = NoSegment
       \/ \E m \in 1..Len(flat) :
             /\ m < word /\ flat[m] \in Modal
             /\ governing = [force |-> KeywordAt(flat, m), modal |-> m, overlap |-> Overlap(m)]
    /\ \A m \in 1..Len(flat) :
          m < word /\ flat[m] \in Modal /\ Overlap(m) >= MinOverlap =>
             \/ Overlap(m) < governing.overlap
             \/ Overlap(m) = governing.overlap /\ governing.modal <= m

LEMMA FlatInClause ==
    ASSUME NEW text \in Seq(Token), NEW excerpt \in Seq(Token),
           clauseText = text, flat = Flat(excerpt),
           NEW off \in 0..Len(text), off + Len(excerpt) <= Len(text),
           \A j \in 1..Len(excerpt) : excerpt[j] = text[off + j]
    PROVE  InClause /\ flat \in Seq(Token)
<1>1. Follows(flat, excerpt, Len(excerpt))
  BY FlatFollows
<1>2. flat \in Seq(Token) /\ Len(flat) \in Nat /\ Len(excerpt) \in Nat /\ Len(text) \in Nat
  BY <1>1 DEF Follows
<1>3. ASSUME NEW m \in 1..Len(flat)
      PROVE  \E i \in 1..Len(clauseText) :
                /\ clauseText[i] = flat[m]
                /\ m < Len(flat) /\ flat[m + 1] = "not" =>
                      i < Len(clauseText) /\ clauseText[i + 1] \in {"nl", "not"}
  <2>1. PICK j \in 1..Len(excerpt) :
           /\ excerpt[j] = flat[m] /\ (m < Len(flat) => j < Len(excerpt))
           /\ j < Len(excerpt) => excerpt[j + 1] = "nl" \/ (m < Len(flat) /\ excerpt[j + 1] = flat[m + 1])
    BY <1>1 DEF Follows
  <2>2. off + j \in 1..Len(text) /\ text[off + j] = flat[m]
    BY <1>2, <2>1
  <2>3. ASSUME m < Len(flat), flat[m + 1] = "not"
        PROVE  off + j < Len(text) /\ text[(off + j) + 1] \in {"nl", "not"}
    <3>1. j + 1 \in 1..Len(excerpt) /\ off + (j + 1) = (off + j) + 1
      BY <1>2, <2>1, <2>3
    <3>2. text[(off + j) + 1] = excerpt[j + 1]
      BY <3>1
    <3> QED
      BY <1>2, <2>1, <2>3, <3>1, <3>2
  <2> QED
    BY <2>2, <2>3
<1> QED
  BY <1>2, <1>3 DEF InClause

LEMMA OverlapIsNumber ==
    ASSUME wanted \subseteq Term PROVE \A m : Overlap(m) \in Nat
<1> SUFFICES ASSUME NEW m PROVE Overlap(m) \in Nat
  OBVIOUS
<1> DEFINE shared == {flat[l] : l \in {j \in 1..Len(flat) : InSegment(m, j)}} \cap wanted
<1>1. IsFiniteSet(shared)
  <2>1. shared \subseteq Term
    OBVIOUS
  <2> QED
    BY <2>1, FS_Subset, GoverningAssumption
<1>2. Cardinality(shared) \in Nat
  BY <1>1, FS_CardinalityType
<1> QED
  BY <1>2 DEF Overlap

LEMMA GoverningStarts == Init => GoverningInv
<1> SUFFICES ASSUME NEW text \in Seq(Token), NEW excerpt \in Seq(Token), NEW req \in SUBSET Term,
                    GoverningInit(text, excerpt, req),
                    \E i \in 0..Len(text) :
                       /\ i + Len(excerpt) <= Len(text)
                       /\ \A j \in 1..Len(excerpt) : excerpt[j] = text[i + j]
             PROVE  GoverningInv
  <2> SUFFICES ASSUME Init
               PROVE  \E text \in Seq(Token), excerpt \in Seq(Token), req \in SUBSET Term :
                         /\ GoverningInit(text, excerpt, req)
                         /\ \E i \in 0..Len(text) :
                               /\ i + Len(excerpt) <= Len(text)
                               /\ \A j \in 1..Len(excerpt) : excerpt[j] = text[i + j]
    OBVIOUS
  <2>1. CASE GoverningInit(<<>>, <<>>, {})
    <3>1. /\ <<>> \in Seq(Token) /\ {} \in SUBSET Term
          /\ 0 \in 0..Len(<<>>) /\ 0 + Len(<<>>) <= Len(<<>>) /\ 1..Len(<<>>) = {}
      OBVIOUS
    <3> QED
      BY <2>1, <3>1
  <2>2. CASE \E x \in Excerpts, req \in SUBSET Term : GoverningInit(x[1], x[2], req)
    <3>1. PICK x \in Excerpts, req \in SUBSET Term : GoverningInit(x[1], x[2], req)
      BY <2>2
    <3>2. /\ x[1] \in Seq(Token) /\ x[2] \in Seq(Token)
          /\ \E i \in 0..Len(x[1]) :
                i + Len(x[2]) <= Len(x[1]) /\ \A j \in 1..Len(x[2]) : x[2][j] = x[1][i + j]
      BY TextsAssumption
    <3> QED
      BY <3>1, <3>2
  <2> QED
    BY <2>1, <2>2 DEF Init
<1>1. InClause /\ flat \in Seq(Token)
  BY FlatInClause DEF GoverningInit
<1> QED
  BY <1>1 DEF GoverningInit, GoverningInv

LEMMA GoverningStep == GoverningInv /\ GoverningNext => GoverningInv'
<1> SUFFICES ASSUME GoverningInv, GoverningNext PROVE GoverningInv'
  OBVIOUS
<1>1. /\ word \in 1..Len(flat) /\ Len(flat) \in Nat /\ word' = word + 1
      /\ clauseText' = clauseText /\ flat' = flat /\ wanted' = wanted
  BY DEF GoverningNext, LookAt, GoverningInv
<1>2. \A m : Overlap(m) \in Nat
  BY OverlapIsNumber DEF GoverningInv
<1>3. \A m : (Overlap(m))' = Overlap(m)
  BY <1>1 DEF Overlap, InSegment, Clear
<1>4. InClause'
  BY <1>1 DEF GoverningInv, InClause
<1>5. governing.overlap \in Nat /\ governing.modal \in Nat /\ governing.modal < word
  BY <1>1, <1>2 DEF GoverningInv, NoSegment
<1>6. CASE /\ flat[word] \in Modal /\ Overlap(word) >= MinOverlap /\ Overlap(word) > governing.overlap
           /\ governing' = [force |-> KeywordAt(flat, word), modal |-> word, overlap |-> Overlap(word)]
  <2>1. ASSUME NEW m \in 1..Len(flat), m < word', flat[m] \in Modal, Overlap(m) >= MinOverlap
        PROVE  Overlap(m) < governing'.overlap \/ (Overlap(m) = governing'.overlap /\ governing'.modal <= m)
    <3>1. CASE m = word
      BY <1>1, <1>6, <3>1
    <3>2. CASE m < word
      <4>1. Overlap(m) <= governing.overlap
        BY <1>2, <1>5, <2>1, <3>2 DEF GoverningInv
      <4>2. governing'.overlap = Overlap(word)
        BY <1>6
      <4> QED
        BY <1>2, <1>5, <1>6, <4>1, <4>2
    <3> QED
      BY <1>1, <2>1, <3>1, <3>2
  <2>2. \E m \in 1..Len(flat) :
           /\ m < word' /\ flat[m] \in Modal
           /\ governing' = [force |-> KeywordAt(flat, m), modal |-> m, overlap |-> Overlap(m)]
    BY <1>1, <1>6
  <2> QED
    BY <1>1, <1>3, <1>4, <2>1, <2>2 DEF GoverningInv
<1>7. CASE /\ ~(/\ flat[word] \in Modal /\ Overlap(word) >= MinOverlap
                /\ Overlap(word) > governing.overlap)
           /\ governing' = governing
  <2>1. ASSUME NEW m \in 1..Len(flat), m < word', flat[m] \in Modal, Overlap(m) >= MinOverlap
        PROVE  Overlap(m) < governing.overlap \/ (Overlap(m) = governing.overlap /\ governing.modal <= m)
    <3>1. CASE m = word
      BY <1>1, <1>2, <1>5, <1>7, <2>1, <3>1
    <3>2. CASE m < word
      BY <2>1, <3>2 DEF GoverningInv
    <3> QED
      BY <1>1, <2>1, <3>1, <3>2
  <2>2. \/ governing = NoSegment
        \/ \E m \in 1..Len(flat) :
              /\ m < word' /\ flat[m] \in Modal
              /\ governing = [force |-> KeywordAt(flat, m), modal |-> m, overlap |-> Overlap(m)]
    BY <1>1 DEF GoverningInv
  <2> QED
    BY <1>1, <1>3, <1>4, <1>7, <2>1, <2>2 DEF GoverningInv, NoSegment
<1> QED
  BY <1>6, <1>7 DEF GoverningNext, LookAt

LEMMA Strengths == \A n \in 1..6 : Strength(Forces[n]) = n
  BY DEF Strength, Forces

\* The parser takes the strongest keyword.
LEMMA DetectsStrongest ==
    ASSUME NEW keywords, NEW n \in 1..5, Forces[n] \in keywords
    PROVE  Strength(DetectNormative(keywords)) \in 1..n
<1> DEFINE present == {i \in 1..(Len(Forces) - 1) : Forces[i] \in keywords}
<1>1. Len(Forces) = 6
  BY DEF Forces
<1>2. present # {} /\ present \in SUBSET Nat /\ n \in present
  BY <1>1
<1>3. \E i \in present : \A j \in present : i <= j
  BY <1>2, Smallest
<1>4. PICK k \in present : /\ k = CHOOSE i \in present : \A j \in present : i <= j
                           /\ \A j \in present : k <= j
  BY <1>3
<1>5. DetectNormative(keywords) = Forces[k]
  BY <1>2, <1>4 DEF DetectNormative
<1>6. k \in 1..6 /\ k <= n
  BY <1>1, <1>2, <1>4
<1> QED
  BY <1>5, <1>6, Strengths

LEMMA ClauseIsAsStrong ==
    ASSUME GoverningInv, governing # NoSegment, ~ModalIsBroken
    PROVE  Strength(ClauseForce) <= Strength(governing.force)
<1>1. PICK m \in 1..Len(flat) : flat[m] \in Modal /\ governing.force = KeywordAt(flat, m)
  BY DEF GoverningInv
<1>2. PICK i \in 1..Len(clauseText) :
         /\ clauseText[i] = flat[m]
         /\ m < Len(flat) /\ flat[m + 1] = "not" =>
               i < Len(clauseText) /\ clauseText[i + 1] \in {"nl", "not"}
  BY DEF GoverningInv, InClause
<1>3. i < Len(clauseText) => clauseText[i + 1] # "nl"
  <2>1. Len(clauseText) \in Nat
    BY DEF GoverningInv
  <2> QED
    BY <1>1, <1>2, <2>1 DEF ModalIsBroken
<1>4. PICK n \in 1..5 : /\ KeywordAt(clauseText, i) = Forces[n]
                        /\ Strength(KeywordAt(flat, m)) \in n..5
  <2>1. /\ Forces[1] = "shall_not" /\ Forces[2] = "shall" /\ Forces[3] = "should_not"
        /\ Forces[4] = "should" /\ Forces[5] = "may"
    BY DEF Forces
  <2>2. /\ Strength("shall_not") = 1 /\ Strength("shall") = 2 /\ Strength("should_not") = 3
        /\ Strength("should") = 4 /\ Strength("may") = 5
    BY <2>1, Strengths
  <2>3. CASE flat[m] = "shall"
    BY <1>2, <1>3, <2>1, <2>2, <2>3 DEF KeywordAt
  <2>4. CASE flat[m] = "should"
    BY <1>2, <1>3, <2>1, <2>2, <2>4 DEF KeywordAt
  <2>5. CASE flat[m] = "may"
    BY <1>2, <1>3, <2>1, <2>2, <2>5 DEF KeywordAt
  <2> QED
    BY <1>1, <2>3, <2>4, <2>5 DEF Modal
<1>5. Strength(ClauseForce) \in 1..n
  BY <1>4, DetectsStrongest DEF ClauseForce
<1> QED
  BY <1>1, <1>4, <1>5

\* The governing sentence shares most terms, and the parser found at least its
\* force (GoverningForceIsOfTheClause).
THEOREM GoverningBest == Spec => []GoverningForceIsOfTheClause
<1>1. GoverningInv /\ [Next]_vars => GoverningInv'
  <2> SUFFICES ASSUME GoverningInv, [Next]_vars PROVE GoverningInv'
    OBVIOUS
  <2>1. GoverningNext \/ UNCHANGED governingVars
    BY DEF Next, vars, RunGoverning
  <2>2. CASE UNCHANGED governingVars
    <3>1. /\ clauseText' = clauseText /\ flat' = flat /\ wanted' = wanted
          /\ word' = word /\ governing' = governing
      BY <2>2 DEF governingVars
    <3>2. (\A m : (Overlap(m))' = Overlap(m)) /\ (InClause' <=> InClause)
      BY <3>1 DEF Overlap, InSegment, Clear, InClause
    <3> QED
      BY <3>1, <3>2 DEF GoverningInv
  <2> QED
    BY <2>1, <2>2, GoverningStep
<1>2. GoverningInv => GoverningForceIsOfTheClause
  <2> SUFFICES ASSUME GoverningInv PROVE GoverningForceIsOfTheClause
    OBVIOUS
  <2>1. word > Len(flat) => \A m \in 1..Len(flat) :
           flat[m] \in Modal /\ Overlap(m) >= MinOverlap =>
              \/ Overlap(m) < governing.overlap
              \/ Overlap(m) = governing.overlap /\ governing.modal <= m
    BY DEF GoverningInv
  <2> QED
    BY <2>1, ClauseIsAsStrong DEF GoverningForceIsOfTheClause
<1> QED
  BY GoverningStarts, <1>1, <1>2, PTL DEF Spec

(***************************************************************************)
(* The parser.  Its three loops one after the other: the heads are the     *)
(* heading lines in their order; the node of an id is that of its last     *)
(* heading so far; and each clause wired hangs under its parent, or among  *)
(* the roots when it has none.                                             *)
(***************************************************************************)
HeadsUpTo(n) ==
    /\ heads \in Seq(Nat)
    /\ \A k \in 1..Len(heads) : heads[k] \in 1..n /\ IsHeading(spec[heads[k]])
    /\ \A j, k \in 1..Len(heads) : j < k => heads[j] < heads[k]
    /\ \A l \in 1..n : IsHeading(spec[l]) => \E k \in 1..Len(heads) : heads[k] = l

Fields == {"start", "end", "normative", "xrefs", "specs", "children"}

NodesUpTo(n) ==
    /\ order \in Seq(ClauseId) /\ Len(order) = n /\ n <= Len(heads)
    /\ \A i \in 1..n : order[i] = spec[heads[i]].id /\ order[i] \in DOMAIN nodes
    /\ \A c \in DOMAIN nodes :
          /\ DOMAIN nodes[c] = Fields /\ nodes[c].children \in Seq(ClauseId)
          /\ \E k \in 1..n : /\ order[k] = c /\ nodes[c].start = heads[k] /\ nodes[c].end = BodyEnd(k)
                             /\ \A j \in (k + 1)..n : order[j] # c

\* The lines of the first n headings that hang under p, and that hang nowhere.
LinesUnder(p, n) == {heads[i] : i \in {j \in 1..n : ParentOf(order[j]) = p}}

LinesOfRoots(n) == {heads[i] : i \in {j \in 1..n : ParentOf(order[j]) \notin DOMAIN nodes}}

WiredUpTo(n) ==
    /\ roots \in Seq(ClauseId)
    /\ \A p \in DOMAIN nodes : ListsHeads(nodes[p].children, LinesUnder(p, n))
    /\ ListsHeads(roots, LinesOfRoots(n))

Unwired == roots = <<>> /\ \A c \in DOMAIN nodes : nodes[c].children = <<>>

ParserInv ==
    /\ spec \in Seq(SpecLine) /\ cursor \in Nat \ {0}
    /\ \/ /\ stage = "heads" /\ cursor <= Len(spec) + 1
          /\ HeadsUpTo(cursor - 1) /\ NodesUpTo(0) /\ Unwired
       \/ /\ stage = "bodies" /\ cursor <= Len(heads) + 1
          /\ HeadsUpTo(Len(spec)) /\ NodesUpTo(cursor - 1) /\ Unwired
       \/ /\ stage = "tree" /\ cursor <= Len(heads) + 1
          /\ HeadsUpTo(Len(spec)) /\ NodesUpTo(Len(heads)) /\ WiredUpTo(cursor - 1)
       \/ /\ stage = "parsed"
          /\ HeadsUpTo(Len(spec)) /\ NodesUpTo(Len(heads)) /\ WiredUpTo(Len(heads))

LEMMA HeadingHasId == ASSUME NEW line \in SpecLine, IsHeading(line) PROVE line.id \in ClauseId
  BY DEF IsHeading, SpecLine

\* A heading below all the others goes to the end of a list.
LEMMA ListGrows ==
    ASSUME NEW list \in Seq(ClauseId), NEW marks \in SUBSET Nat, ListsHeads(list, marks),
           NEW l \in Nat, \A m \in marks : m < l, NEW id \in ClauseId, id = spec[l].id
    PROVE  ListsHeads(Append(list, id), marks \cup {l})
<1>1. PICK n \in Nat : n = Len(list)
  OBVIOUS
<1>2. PICK place \in [1..n -> marks] :
         /\ \A i, j \in 1..n : i < j => place[i] < place[j]
         /\ \A m \in marks : \E i \in 1..n : place[i] = m
         /\ \A i \in 1..n : list[i] = spec[place[i]].id
  BY <1>1 DEF ListsHeads
<1> DEFINE longer == [i \in 1..(n + 1) |-> IF i = n + 1 THEN l ELSE place[i]]
<1>3. /\ longer \in [1..(n + 1) -> marks \cup {l}] /\ longer[n + 1] = l
      /\ \A i \in 1..n : longer[i] = place[i]
  BY <1>2
<1> HIDE DEF longer
<1>4. /\ Len(Append(list, id)) = n + 1 /\ Append(list, id)[n + 1] = id
      /\ \A i \in 1..n : Append(list, id)[i] = list[i]
  BY <1>1, AppendProperties
<1>5. ASSUME NEW i \in 1..(n + 1), NEW j \in 1..(n + 1), i < j PROVE longer[i] < longer[j]
  <2>1. i \in 1..n /\ longer[i] = place[i] /\ place[i] \in marks
    BY <1>2, <1>3, <1>5
  <2>2. CASE j = n + 1
    BY <1>3, <2>1, <2>2
  <2>3. CASE j # n + 1
    BY <1>2, <1>3, <1>5, <2>1, <2>3
  <2> QED
    BY <2>2, <2>3
<1>6. \A m \in marks \cup {l} : \E i \in 1..(n + 1) : longer[i] = m
  BY <1>2, <1>3
<1>7. \A i \in 1..(n + 1) : Append(list, id)[i] = spec[longer[i]].id
  BY <1>2, <1>3, <1>4
<1> QED
  BY <1>3, <1>4, <1>5, <1>6, <1>7 DEF ListsHeads

LEMMA ParserStarts == Init => ParserInv
<1> SUFFICES ASSUME NEW text \in Seq(SpecLine), ParserInit(text) PROVE ParserInv
  <2>1. <<>> \in Seq(SpecLine) /\ Specs \subseteq Seq(SpecLine)
    BY TextsAssumption
  <2> QED
    BY <2>1 DEF Init
<1>1. /\ spec \in Seq(SpecLine) /\ cursor = 1 /\ stage = "heads"
      /\ heads = <<>> /\ order = <<>> /\ roots = <<>> /\ DOMAIN nodes = {}
  BY DEF ParserInit
<1>2. HeadsUpTo(0)
  BY <1>1 DEF HeadsUpTo
<1>3. NodesUpTo(0)
  BY <1>1 DEF NodesUpTo
<1> QED
  BY <1>1, <1>2, <1>3 DEF ParserInv, Unwired

LEMMA HeadKeeps == ParserInv /\ LocateHead => ParserInv'
<1> SUFFICES ASSUME ParserInv, LocateHead PROVE ParserInv'
  OBVIOUS
<1>1. PICK c \in Nat : /\ c = cursor /\ c \in 1..Len(spec)
  BY DEF LocateHead, ParserInv
<1>2. /\ stage = "heads" /\ Len(spec) \in Nat /\ spec \in Seq(SpecLine)
      /\ cursor' = c + 1 /\ spec' = spec /\ stage' = stage /\ nodes' = nodes
      /\ order' = order /\ roots' = roots
      /\ HeadsUpTo(c - 1) /\ NodesUpTo(0) /\ Unwired
      /\ heads' = IF IsHeading(spec[c]) THEN Append(heads, c) ELSE heads
  BY <1>1 DEF LocateHead, ParserInv
<1>3. heads \in Seq(Nat) /\ Len(heads) \in Nat
  BY <1>2 DEF HeadsUpTo
<1>6. HeadsUpTo(c)'
  <2>1. CASE IsHeading(spec[c])
    <3>1. /\ heads' \in Seq(Nat) /\ Len(heads') = Len(heads) + 1
          /\ heads'[Len(heads) + 1] = c /\ \A k \in 1..Len(heads) : heads'[k] = heads[k]
      BY <1>2, <1>3, <2>1, AppendProperties
    <3>2. \A k \in 1..Len(heads') : heads'[k] \in 1..c /\ IsHeading(spec[heads'[k]])
      BY <1>1, <1>2, <1>3, <2>1, <3>1 DEF HeadsUpTo
    <3>3. \A j, k \in 1..Len(heads') : j < k => heads'[j] < heads'[k]
      BY <1>1, <1>2, <1>3, <3>1 DEF HeadsUpTo
    <3>4. \A l \in 1..c : IsHeading(spec[l]) => \E k \in 1..Len(heads') : heads'[k] = l
      BY <1>1, <1>2, <1>3, <3>1 DEF HeadsUpTo
    <3> QED
      BY <1>2, <3>1, <3>2, <3>3, <3>4 DEF HeadsUpTo
  <2>2. CASE ~IsHeading(spec[c])
    <3>1. heads' = heads
      BY <1>2, <2>2
    <3>2. \A k \in 1..Len(heads) : heads[k] \in 1..c /\ IsHeading(spec[heads[k]])
      BY <1>1, <1>2, <1>3 DEF HeadsUpTo
    <3>3. \A l \in 1..c : IsHeading(spec[l]) => \E k \in 1..Len(heads) : heads[k] = l
      BY <1>1, <1>2, <1>3, <2>2 DEF HeadsUpTo
    <3>4. \A j, k \in 1..Len(heads) : j < k => heads[j] < heads[k]
      BY <1>2 DEF HeadsUpTo
    <3> QED
      BY <1>2, <1>3, <3>1, <3>2, <3>3, <3>4 DEF HeadsUpTo
  <2> QED
    BY <2>1, <2>2
<1>7. NodesUpTo(0)'
  <2>1. \A k \in DOMAIN nodes : FALSE
    BY <1>2 DEF NodesUpTo
  <2>3. order \in Seq(ClauseId) /\ Len(order) = 0
    BY <1>2 DEF NodesUpTo
  <2>2. heads' \in Seq(Nat)
    BY <1>6 DEF HeadsUpTo
  <2> QED
    BY <1>2, <1>3, <2>1, <2>2, <2>3 DEF NodesUpTo
<1>8. Unwired'
  BY <1>2 DEF Unwired
<1>9. cursor' - 1 = c /\ cursor' <= Len(spec') + 1 /\ cursor' \in Nat \ {0}
  BY <1>1, <1>2
<1>10. HeadsUpTo(cursor - 1)'
  BY <1>6, <1>9
<1> QED
  BY <1>2, <1>7, <1>8, <1>9, <1>10 DEF ParserInv

LEMMA BodyKeeps == ParserInv /\ ReadBody => ParserInv'
<1> SUFFICES ASSUME ParserInv, ReadBody PROVE ParserInv'
  OBVIOUS
<1>1. PICK c \in Nat : c = cursor /\ c \in 1..Len(heads)
  BY DEF ReadBody, ParserInv
<1>2. /\ stage = "bodies" /\ spec \in Seq(SpecLine) /\ Len(spec) \in Nat
      /\ cursor' = c + 1 /\ spec' = spec /\ stage' = stage /\ heads' = heads /\ roots' = roots
      /\ HeadsUpTo(Len(spec)) /\ NodesUpTo(c - 1) /\ Unwired
  BY <1>1 DEF ReadBody, ParserInv
<1>3. heads \in Seq(Nat) /\ Len(heads) \in Nat
  BY <1>2 DEF HeadsUpTo
<1>4. PICK id, node :
         /\ id = spec[heads[c]].id
         /\ nodes' = [k \in DOMAIN nodes \cup {id} |-> IF k = id THEN node ELSE nodes[k]]
         /\ order' = Append(order, id)
         /\ DOMAIN node = Fields /\ node.children = <<>>
         /\ node.start = heads[c] /\ node.end = BodyEnd(c)
  <2>1. /\ nodes' = [k \in DOMAIN nodes \cup {spec[heads[c]].id} |->
                       IF k = spec[heads[c]].id THEN NodeOf(c) ELSE nodes[k]]
        /\ order' = Append(order, spec[heads[c]].id)
    BY <1>1 DEF ReadBody
  <2>2. /\ DOMAIN NodeOf(c) = Fields /\ NodeOf(c).children = <<>>
        /\ NodeOf(c).start = heads[c] /\ NodeOf(c).end = BodyEnd(c)
    BY DEF NodeOf, Fields
  <2> QED
    BY <2>1, <2>2
<1>5. id \in ClauseId
  <2>1. heads[c] \in 1..Len(spec) /\ IsHeading(spec[heads[c]])
    BY <1>1, <1>2 DEF HeadsUpTo
  <2>2. spec[heads[c]] \in SpecLine
    BY <1>2, <2>1
  <2> QED
    BY <1>4, <2>1, <2>2, HeadingHasId
<1>6. /\ order \in Seq(ClauseId) /\ Len(order) = c - 1
      /\ order' \in Seq(ClauseId) /\ Len(order') = c /\ order'[c] = id
      /\ \A i \in 1..(c - 1) : order'[i] = order[i]
  <2>1. order \in Seq(ClauseId) /\ Len(order) = c - 1
    BY <1>2 DEF NodesUpTo
  <2> QED
    BY <1>1, <1>4, <1>5, <2>1, AppendProperties
<1>7. DOMAIN nodes' = DOMAIN nodes \cup {id}
  BY <1>4
<1>8. \A i \in 1..c : order'[i] = spec[heads[i]].id /\ order'[i] \in DOMAIN nodes'
  <2> SUFFICES ASSUME NEW i \in 1..c
               PROVE  order'[i] = spec[heads[i]].id /\ order'[i] \in DOMAIN nodes'
    OBVIOUS
  <2>1. CASE i = c
    BY <1>4, <1>6, <1>7, <2>1
  <2>2. CASE i \in 1..(c - 1)
    <3>1. order[i] = spec[heads[i]].id /\ order[i] \in DOMAIN nodes
      BY <1>2, <2>2 DEF NodesUpTo
    <3> QED
      BY <1>6, <1>7, <2>2, <3>1
  <2> QED
    BY <1>1, <2>1, <2>2
<1>9. \A i : (BodyEnd(i))' = BodyEnd(i)
  BY <1>2 DEF BodyEnd
<1>10. ASSUME NEW k \in DOMAIN nodes'
       PROVE  /\ DOMAIN nodes'[k] = Fields /\ nodes'[k].children = <<>>
              /\ \E i \in 1..c : /\ order'[i] = k /\ nodes'[k].start = heads[i]
                                 /\ nodes'[k].end = BodyEnd(i)
                                 /\ \A j \in (i + 1)..c : order'[j] # k
  <2>1. CASE k = id
    <3>1. nodes'[k] = node
      BY <1>4, <2>1
    <3>2. c \in 1..c /\ (c + 1)..c = {}
      BY <1>1
    <3> QED
      BY <1>4, <1>6, <2>1, <3>1, <3>2
  <2>2. CASE k # id
    <3>1. k \in DOMAIN nodes /\ nodes'[k] = nodes[k]
      BY <1>4, <1>7, <2>2
    <3>2. DOMAIN nodes[k] = Fields /\ nodes[k].children = <<>>
      BY <1>2, <3>1 DEF NodesUpTo, Unwired
    <3>3. PICK i \in 1..(c - 1) : /\ order[i] = k /\ nodes[k].start = heads[i]
                                  /\ nodes[k].end = BodyEnd(i)
                                  /\ \A j \in (i + 1)..(c - 1) : order[j] # k
      BY <1>2, <3>1 DEF NodesUpTo
    <3>4. \A j \in (i + 1)..c : order'[j] # k
      BY <1>1, <1>6, <2>2, <3>3
    <3> QED
      BY <1>1, <1>6, <3>1, <3>2, <3>3, <3>4
  <2> QED
    BY <2>1, <2>2
<1>11. NodesUpTo(c)'
  <2>1. \A k \in DOMAIN nodes' : nodes'[k].children \in Seq(ClauseId)
    <3>1. <<>> \in Seq(ClauseId)
      BY EmptySeq
    <3> QED
      BY <1>10, <3>1
  <2>2. c <= Len(heads') /\ Len(order') = c
    BY <1>1, <1>2, <1>3, <1>6
  <2>3. \A k \in DOMAIN nodes' :
           \E i \in 1..c : /\ order'[i] = k /\ nodes'[k].start = heads'[i]
                           /\ nodes'[k].end = (BodyEnd(i))'
                           /\ \A j \in (i + 1)..c : order'[j] # k
    BY <1>2, <1>9, <1>10
  <2>4. \A i \in 1..c : order'[i] = spec'[heads'[i]].id /\ order'[i] \in DOMAIN nodes'
    BY <1>2, <1>8
  <2> QED
    BY <1>6, <1>10, <2>1, <2>2, <2>3, <2>4 DEF NodesUpTo
<1>12. Unwired' /\ HeadsUpTo(Len(spec))'
  BY <1>2, <1>10 DEF Unwired, HeadsUpTo
<1>13. cursor' - 1 = c /\ cursor' <= Len(heads') + 1 /\ cursor' \in Nat \ {0}
  BY <1>1, <1>2, <1>3
<1>14. NodesUpTo(cursor - 1)'
  BY <1>11, <1>13
<1> QED
  BY <1>2, <1>12, <1>13, <1>14 DEF ParserInv

LEMMA WireKeeps == ParserInv /\ WireClause => ParserInv'
<1> SUFFICES ASSUME ParserInv, WireClause PROVE ParserInv'
  OBVIOUS
<1>1. PICK c \in Nat, n \in Nat : c = cursor /\ n = Len(heads) /\ Len(order) = n /\ c \in 1..n
  <2>1. Len(heads) \in Nat /\ Len(order) = Len(heads) /\ cursor \in 1..Len(order)
    BY DEF WireClause, ParserInv, NodesUpTo, HeadsUpTo
  <2> QED
    BY <2>1
<1>2. /\ stage = "tree" /\ spec \in Seq(SpecLine)
      /\ cursor' = c + 1 /\ spec' = spec /\ stage' = stage /\ heads' = heads /\ order' = order
      /\ HeadsUpTo(Len(spec)) /\ NodesUpTo(n) /\ WiredUpTo(c - 1)
  BY <1>1 DEF WireClause, ParserInv
<1>3. PICK id \in ClauseId, p \in {ParentOf(order[c])} :
         /\ id = order[c] /\ p = ParentOf(id)
         /\ IF p \in DOMAIN nodes
              THEN nodes' = [nodes EXCEPT ![p].children = Append(@, id)] /\ roots' = roots
              ELSE roots' = Append(roots, id) /\ nodes' = nodes
  <2>1. order[c] \in ClauseId
    BY <1>1, <1>2 DEF NodesUpTo
  <2> QED
    BY <1>1, <2>1 DEF WireClause
<1>4. /\ \A k \in DOMAIN nodes : DOMAIN nodes[k] = Fields /\ nodes[k].children \in Seq(ClauseId)
      /\ roots \in Seq(ClauseId)
  BY <1>2 DEF NodesUpTo, WiredUpTo
<1>5. \A i \in 1..c : i \in 1..(c - 1) \/ i = c
  BY <1>1
<1>6. /\ heads[c] \in Nat /\ id = spec[heads[c]].id
      /\ \A i \in 1..(c - 1) : heads[i] \in Nat /\ heads[i] < heads[c]
  <2>1. n = Len(heads) /\ c \in 1..n
    BY <1>1, <1>2 DEF NodesUpTo
  <2>2. order[c] = spec[heads[c]].id
    BY <1>2, <2>1 DEF NodesUpTo
  <2>3. /\ \A k \in 1..n : heads[k] \in 1..Len(spec)
        /\ \A j, k \in 1..n : j < k => heads[j] < heads[k]
    BY <1>2, <2>1 DEF HeadsUpTo
  <2>4. \A i \in 1..(c - 1) : i \in 1..n /\ i < c
    BY <1>1, <2>1
  <2> QED
    BY <1>3, <2>1, <2>2, <2>3, <2>4
<1>7. /\ \A k : /\ LinesUnder(k, c) = LinesUnder(k, c - 1) \cup (IF k = p THEN {heads[c]} ELSE {})
                /\ LinesUnder(k, c - 1) \in SUBSET Nat
                /\ \A m \in LinesUnder(k, c - 1) : m < heads[c]
      /\ LinesOfRoots(c) = LinesOfRoots(c - 1) \cup (IF p \notin DOMAIN nodes THEN {heads[c]} ELSE {})
      /\ LinesOfRoots(c - 1) \in SUBSET Nat
      /\ \A m \in LinesOfRoots(c - 1) : m < heads[c]
  <2>1. 1..c = (1..(c - 1)) \cup {c}
    BY <1>1
  <2> QED
    BY <1>3, <1>6, <2>1 DEF LinesUnder, LinesOfRoots
<1>8. /\ DOMAIN nodes' = DOMAIN nodes
      /\ \A k \in DOMAIN nodes : /\ DOMAIN nodes'[k] = Fields /\ nodes'[k].children \in Seq(ClauseId)
                                 /\ nodes'[k].start = nodes[k].start /\ nodes'[k].end = nodes[k].end
      /\ roots' \in Seq(ClauseId)
      /\ \A k \in DOMAIN nodes : ListsHeads(nodes'[k].children, LinesUnder(k, c))
      /\ ListsHeads(roots', LinesOfRoots(c))
  <2>1. CASE p \in DOMAIN nodes
    <3>1. /\ DOMAIN nodes' = DOMAIN nodes /\ roots' = roots
          /\ \A k \in DOMAIN nodes : k # p => nodes'[k] = nodes[k]
          /\ nodes'[p] = [nodes[p] EXCEPT !.children = Append(@, id)]
      BY <1>3, <2>1
    <3>2. /\ DOMAIN nodes'[p] = Fields /\ nodes'[p].children = Append(nodes[p].children, id)
          /\ nodes'[p].start = nodes[p].start /\ nodes'[p].end = nodes[p].end
      BY <1>4, <2>1, <3>1 DEF Fields
    <3>3. nodes[p].children \in Seq(ClauseId) /\ ListsHeads(nodes[p].children, LinesUnder(p, c - 1))
      BY <1>2, <1>4, <2>1 DEF WiredUpTo
    <3>4. /\ ListsHeads(nodes'[p].children, LinesUnder(p, c))
          /\ nodes'[p].children \in Seq(ClauseId)
      <4>1. ListsHeads(Append(nodes[p].children, id), LinesUnder(p, c - 1) \cup {heads[c]})
        BY <1>6, <1>7, <3>3, ListGrows
      <4>2. LinesUnder(p, c) = LinesUnder(p, c - 1) \cup {heads[c]}
        BY <1>7
      <4> QED
        BY <3>2, <3>3, <4>1, <4>2, AppendProperties
    <3>5. \A k \in DOMAIN nodes : k # p => ListsHeads(nodes'[k].children, LinesUnder(k, c))
      <4>1. \A k : k # p => LinesUnder(k, c) = LinesUnder(k, c - 1)
        BY <1>7
      <4> QED
        BY <1>2, <3>1, <4>1 DEF WiredUpTo
    <3>6. ListsHeads(roots, LinesOfRoots(c))
      <4>1. LinesOfRoots(c) = LinesOfRoots(c - 1)
        BY <1>7, <2>1
      <4> QED
        BY <1>2, <4>1 DEF WiredUpTo
    <3> QED
      BY <1>4, <3>1, <3>2, <3>4, <3>5, <3>6
  <2>2. CASE p \notin DOMAIN nodes
    <3>1. nodes' = nodes /\ roots' = Append(roots, id)
      BY <1>3, <2>2
    <3>2. roots' \in Seq(ClauseId) /\ ListsHeads(roots', LinesOfRoots(c))
      <4>1. ListsHeads(roots, LinesOfRoots(c - 1))
        BY <1>2 DEF WiredUpTo
      <4>2. ListsHeads(Append(roots, id), LinesOfRoots(c - 1) \cup {heads[c]})
        BY <1>4, <1>6, <1>7, <4>1, ListGrows
      <4> QED
        BY <1>4, <1>7, <2>2, <3>1, <4>2, AppendProperties
    <3>3. ASSUME NEW k \in DOMAIN nodes PROVE ListsHeads(nodes[k].children, LinesUnder(k, c))
      <4>1. LinesUnder(k, c) = LinesUnder(k, c - 1)
        BY <1>7, <2>2
      <4> QED
        BY <1>2, <4>1 DEF WiredUpTo
    <3> QED
      BY <1>4, <3>1, <3>2, <3>3
  <2> QED
    BY <2>1, <2>2
<1>9. WiredUpTo(c)'
  <2>1. \A k : LinesUnder(k, c)' = LinesUnder(k, c)
    BY <1>2 DEF LinesUnder
  <2>2. LinesOfRoots(c)' = LinesOfRoots(c)
    <3>1. DOMAIN nodes' = DOMAIN nodes
      BY <1>8
    <3> QED
      BY <1>2, <3>1, Zenon DEF LinesOfRoots
  <2>3. \A list, marks : ListsHeads(list, marks)' <=> ListsHeads(list, marks)
    BY <1>2 DEF ListsHeads
  <2> QED
    BY <1>8, <2>1, <2>2, <2>3 DEF WiredUpTo
<1>10. NodesUpTo(n)'
  <2>1. \A i : (BodyEnd(i))' = BodyEnd(i)
    BY <1>2 DEF BodyEnd
  <2>2. ASSUME NEW k \in DOMAIN nodes
        PROVE  \E i \in 1..n : /\ order[i] = k /\ nodes'[k].start = heads[i]
                               /\ nodes'[k].end = BodyEnd(i)
                               /\ \A j \in (i + 1)..n : order[j] # k
    <3>1. PICK i \in 1..n : /\ order[i] = k /\ nodes[k].start = heads[i]
                            /\ nodes[k].end = BodyEnd(i)
                            /\ \A j \in (i + 1)..n : order[j] # k
      BY <1>2 DEF NodesUpTo
    <3>2. nodes'[k].start = nodes[k].start /\ nodes'[k].end = nodes[k].end
      BY <1>8
    <3> QED
      BY <3>1, <3>2
  <2>3. /\ order \in Seq(ClauseId) /\ Len(order) = n /\ n <= Len(heads)
        /\ \A i \in 1..n : order[i] = spec[heads[i]].id /\ order[i] \in DOMAIN nodes
    BY <1>2 DEF NodesUpTo
  <2>4. ASSUME NEW k \in DOMAIN nodes'
        PROVE  /\ DOMAIN nodes'[k] = Fields /\ nodes'[k].children \in Seq(ClauseId)
               /\ \E i \in 1..n : /\ order'[i] = k /\ nodes'[k].start = heads'[i]
                                  /\ nodes'[k].end = (BodyEnd(i))'
                                  /\ \A j \in (i + 1)..n : order'[j] # k
    BY <1>2, <1>8, <2>1, <2>2
  <2>5. /\ order' \in Seq(ClauseId) /\ Len(order') = n /\ n <= Len(heads')
        /\ \A i \in 1..n : order'[i] = spec'[heads'[i]].id /\ order'[i] \in DOMAIN nodes'
    BY <1>2, <1>8, <2>3
  <2> QED
    BY <2>4, <2>5 DEF NodesUpTo
<1>11. HeadsUpTo(Len(spec))'
  BY <1>2 DEF HeadsUpTo
<1>12. cursor' - 1 = c /\ cursor' <= Len(heads') + 1 /\ cursor' \in Nat \ {0} /\ Len(heads') = n
  BY <1>1, <1>2
<1>13. NodesUpTo(Len(heads))' /\ WiredUpTo(cursor - 1)'
  BY <1>10, <1>12, <1>9
<1> QED
  BY <1>2, <1>11, <1>12, <1>13 DEF ParserInv

\* The ends of the three loops.
LEMMA LoopsEnd ==
    ParserInv /\ (HeadsLocated \/ BodiesRead \/ TreeWired) => ParserInv'
<1> SUFFICES ASSUME ParserInv, HeadsLocated \/ BodiesRead \/ TreeWired PROVE ParserInv'
  OBVIOUS
<1>1. /\ spec' = spec /\ heads' = heads /\ nodes' = nodes /\ order' = order /\ roots' = roots
      /\ spec \in Seq(SpecLine) /\ cursor \in Nat \ {0}
  BY DEF HeadsLocated, BodiesRead, TreeWired, ParserInv
<1>2. PICK h \in Nat, l \in Nat : h = Len(heads) /\ l = Len(spec)
  <2>1. heads \in Seq(Nat)
    BY DEF ParserInv, HeadsUpTo
  <2> QED
    BY <1>1, <2>1
<1>3. \A n : /\ HeadsUpTo(n)' <=> HeadsUpTo(n)
             /\ NodesUpTo(n)' <=> NodesUpTo(n)
             /\ WiredUpTo(n)' <=> WiredUpTo(n)
  BY <1>1 DEF HeadsUpTo, NodesUpTo, WiredUpTo, BodyEnd, LinesUnder, LinesOfRoots, ListsHeads
<1>4. Unwired' <=> Unwired
  BY <1>1 DEF Unwired
<1>5. CASE HeadsLocated
  <2>1. /\ stage' = "bodies" /\ cursor' = 1 /\ cursor - 1 = l
        /\ HeadsUpTo(l) /\ NodesUpTo(0) /\ Unwired
    <3>1. /\ stage = "heads" /\ cursor <= l + 1 /\ cursor > l
          /\ HeadsUpTo(cursor - 1) /\ NodesUpTo(0) /\ Unwired
      BY <1>2, <1>5 DEF HeadsLocated, ParserInv
    <3>2. cursor - 1 = l
      BY <1>1, <1>2, <3>1
    <3> QED
      BY <1>5, <3>1, <3>2 DEF HeadsLocated
  <2>2. HeadsUpTo(Len(spec))' /\ NodesUpTo(cursor - 1)' /\ Unwired'
    BY <1>1, <1>2, <1>3, <1>4, <2>1
  <2> QED
    BY <1>1, <1>2, <2>1, <2>2 DEF ParserInv
<1>6. CASE BodiesRead
  <2>1. /\ stage' = "tree" /\ cursor' = 1
        /\ HeadsUpTo(l) /\ NodesUpTo(h) /\ Unwired
    <3>1. /\ stage = "bodies" /\ cursor <= h + 1 /\ cursor > h
          /\ HeadsUpTo(l) /\ NodesUpTo(cursor - 1) /\ Unwired
      BY <1>2, <1>6 DEF BodiesRead, ParserInv
    <3>2. cursor - 1 = h
      BY <1>1, <1>2, <3>1
    <3> QED
      BY <1>6, <3>1, <3>2 DEF BodiesRead
  <2>2. WiredUpTo(0)
    <3>1. ListsHeads(<<>>, {})
      <4>1. [i \in 1..0 |-> 0] \in [1..0 -> {}]
        OBVIOUS
      <4> QED
        BY <4>1 DEF ListsHeads
    <3>2. LinesOfRoots(0) = {} /\ \A p : LinesUnder(p, 0) = {}
      BY DEF LinesOfRoots, LinesUnder
    <3> QED
      BY <2>1, <3>1, <3>2, EmptySeq DEF Unwired, WiredUpTo
  <2>3. HeadsUpTo(Len(spec))' /\ NodesUpTo(Len(heads))' /\ WiredUpTo(cursor - 1)'
    BY <1>1, <1>2, <1>3, <2>1, <2>2
  <2> QED
    BY <1>1, <1>2, <2>1, <2>3 DEF ParserInv
<1>7. CASE TreeWired
  <2>1. /\ stage' = "parsed" /\ cursor' = cursor
        /\ HeadsUpTo(l) /\ NodesUpTo(h) /\ WiredUpTo(h)
    <3>1. /\ stage = "tree" /\ cursor <= h + 1 /\ cursor > Len(order)
          /\ HeadsUpTo(l) /\ NodesUpTo(h) /\ WiredUpTo(cursor - 1)
      BY <1>2, <1>7 DEF TreeWired, ParserInv
    <3>2. Len(order) = h
      BY <3>1 DEF NodesUpTo
    <3>3. cursor - 1 = h
      BY <1>1, <1>2, <3>1, <3>2
    <3> QED
      BY <1>7, <3>1, <3>3 DEF TreeWired
  <2>2. HeadsUpTo(Len(spec))' /\ NodesUpTo(Len(heads))' /\ WiredUpTo(Len(heads))'
    BY <1>1, <1>2, <1>3, <2>1
  <2> QED
    BY <1>1, <2>1, <2>2 DEF ParserInv
<1> QED
  BY <1>5, <1>6, <1>7

\* The node of a clause holds the lines from its last heading to the next one.
LEMMA BodyOfHeading ==
    ASSUME ParserInv, stage = "parsed", NEW h \in HeadingLines,
           \A m \in (h + 1)..Len(spec) : IsHeading(spec[m]) => spec[m].id # spec[h].id,
           NEW l \in 1..Len(spec)
    PROVE  l \in nodes[spec[h].id].start..nodes[spec[h].id].end
              <=> h <= l /\ \A m \in (h + 1)..l : ~IsHeading(spec[m])
<1>1. /\ Len(spec) \in Nat /\ HeadsUpTo(Len(spec)) /\ NodesUpTo(Len(heads))
      /\ h \in 1..Len(spec) /\ IsHeading(spec[h])
  BY DEF ParserInv, HeadingLines
<1>2. /\ heads \in Seq(Nat) /\ Len(heads) \in Nat
      /\ \A k \in 1..Len(heads) : heads[k] \in 1..Len(spec) /\ IsHeading(spec[heads[k]])
      /\ \A j, k \in 1..Len(heads) : j < k => heads[j] < heads[k]
      /\ \A m \in 1..Len(spec) : IsHeading(spec[m]) => \E k \in 1..Len(heads) : heads[k] = m
  BY <1>1 DEF HeadsUpTo
<1>3. PICK k \in 1..Len(heads) : heads[k] = h
  BY <1>1, <1>2
<1>4. \A i \in 1..Len(heads) : order[i] = spec[heads[i]].id /\ order[i] \in DOMAIN nodes
  BY <1>1 DEF NodesUpTo
<1>5. PICK i \in 1..Len(heads) :
         /\ order[i] = spec[h].id
         /\ nodes[spec[h].id].start = heads[i] /\ nodes[spec[h].id].end = BodyEnd(i)
         /\ \A j \in (i + 1)..Len(heads) : order[j] # spec[h].id
  BY <1>1, <1>3, <1>4 DEF NodesUpTo
<1>6. i = k
  <2>1. i >= k
    <3>1. order[k] = spec[h].id
      BY <1>3, <1>4
    <3>2. k \notin (i + 1)..Len(heads)
      BY <1>5, <3>1
    <3> QED
      BY <1>2, <3>2
  <2>2. ASSUME i > k PROVE FALSE
    <3>1. heads[i] \in (h + 1)..Len(spec) /\ IsHeading(spec[heads[i]])
      BY <1>1, <1>2, <1>3, <2>2, SMTT(30)
    <3>2. spec[heads[i]].id = spec[h].id
      BY <1>4, <1>5
    <3> QED
      BY <3>1, <3>2
  <2> QED
    BY <1>2, <2>1, <2>2
<1>7. CASE k < Len(heads)
  <2>1. PICK next \in Nat : next = heads[k + 1]
    BY <1>2, <1>7
  <2>2. k + 1 \in 1..Len(heads) /\ h < next /\ next <= Len(spec) /\ IsHeading(spec[next])
    <3>1. k + 1 \in 1..Len(heads)
      BY <1>2, <1>7
    <3>2. heads[k] < heads[k + 1]
      BY <1>2, <3>1
    <3>3. heads[k + 1] \in 1..Len(spec) /\ IsHeading(spec[heads[k + 1]])
      BY <1>2, <3>1
    <3> QED
      BY <1>1, <1>3, <2>1, <3>1, <3>2, <3>3
  <2>3. BodyEnd(k) = next - 1
    BY <1>7, <2>1 DEF BodyEnd
  <2>4. \A m \in (h + 1)..(next - 1) : ~IsHeading(spec[m])
    <3> SUFFICES ASSUME NEW m \in (h + 1)..(next - 1), IsHeading(spec[m]) PROVE FALSE
      OBVIOUS
    <3>1. m \in 1..Len(spec) /\ h < m /\ m < next
      BY <1>1, <2>2
    <3>2. PICK j \in 1..Len(heads) : heads[j] = m
      BY <1>2, <3>1
    <3>3. (j < k => m < h) /\ (k + 1 < j => next < m)
      BY <1>2, <1>3, <2>1, <2>2, <3>2
    <3>4. j # k /\ j # k + 1
      BY <1>1, <1>3, <2>1, <3>1, <3>2
    <3> QED
      BY <1>1, <1>2, <3>1, <3>3, <3>4
  <2>5. l \in h..(next - 1) <=> h <= l /\ \A m \in (h + 1)..l : ~IsHeading(spec[m])
    <3>1. CASE l < next
      BY <1>1, <2>4, <3>1
    <3>2. CASE ~(l < next)
      <4>1. next \in (h + 1)..l
        BY <1>1, <2>2, <3>2
      <4> QED
        BY <1>1, <2>2, <3>2, <4>1
    <3> QED
      BY <3>1, <3>2
  <2> QED
    BY <1>3, <1>5, <1>6, <2>3, <2>5
<1>8. CASE ~(k < Len(heads))
  <2>1. k = Len(heads) /\ BodyEnd(k) = Len(spec)
    BY <1>2, <1>8 DEF BodyEnd
  <2>2. \A m \in (h + 1)..l : ~IsHeading(spec[m])
    <3> SUFFICES ASSUME NEW m \in (h + 1)..l, IsHeading(spec[m]) PROVE FALSE
      OBVIOUS
    <3>1. m \in 1..Len(spec) /\ h < m
      BY <1>1
    <3>2. PICK j \in 1..Len(heads) : heads[j] = m
      BY <1>2, <3>1
    <3> QED
      BY <1>2, <1>3, <2>1, <3>1, <3>2
  <2> QED
    BY <1>1, <1>3, <1>5, <1>6, <2>1, <2>2
<1> QED
  BY <1>7, <1>8

\* Once the tree is wired, its lists are those of the headings.
LEMMA ListsOfHeadings ==
    ASSUME ParserInv, stage = "parsed"
    PROVE  /\ DOMAIN nodes = {spec[h].id : h \in HeadingLines}
           /\ ListsHeads(order, HeadingLines)
           /\ ListsHeads(roots, {h \in HeadingLines : ParentOf(spec[h].id) \notin DOMAIN nodes})
           /\ \A p \in DOMAIN nodes :
                 ListsHeads(nodes[p].children, {h \in HeadingLines : ParentOf(spec[h].id) = p})
<1>1. HeadsUpTo(Len(spec)) /\ NodesUpTo(Len(heads)) /\ WiredUpTo(Len(heads))
  BY DEF ParserInv
<1>2. PICK n \in Nat : n = Len(heads) /\ heads \in [1..n -> Nat]
  BY <1>1 DEF HeadsUpTo
<1>3. /\ \A i \in 1..n : heads[i] \in HeadingLines
      /\ \A i, j \in 1..n : i < j => heads[i] < heads[j]
      /\ \A l \in HeadingLines : \E i \in 1..n : heads[i] = l
  BY <1>1, <1>2 DEF HeadsUpTo, HeadingLines
<1>4. /\ Len(order) = n /\ \A i \in 1..n : order[i] = spec[heads[i]].id /\ order[i] \in DOMAIN nodes
      /\ \A c \in DOMAIN nodes : \E i \in 1..n : order[i] = c
  BY <1>1, <1>2 DEF NodesUpTo
<1>5. DOMAIN nodes = {spec[h].id : h \in HeadingLines}
  <2>1. \A h \in HeadingLines : spec[h].id \in DOMAIN nodes
    BY <1>3, <1>4
  <2>2. \A c \in DOMAIN nodes : \E h \in HeadingLines : spec[h].id = c
    BY <1>3, <1>4
  <2> QED
    BY <2>1, <2>2
<1>6. ListsHeads(order, HeadingLines)
  <2>1. heads \in [1..Len(order) -> HeadingLines]
    BY <1>2, <1>3, <1>4
  <2> QED
    BY <1>3, <1>4, <2>1 DEF ListsHeads
<1>7. LinesOfRoots(n) = {h \in HeadingLines : ParentOf(spec[h].id) \notin DOMAIN nodes}
  BY <1>3, <1>4 DEF LinesOfRoots
<1>8. \A p : LinesUnder(p, n) = {h \in HeadingLines : ParentOf(spec[h].id) = p}
  BY <1>3, <1>4 DEF LinesUnder
<1> QED
  BY <1>1, <1>2, <1>5, <1>6, <1>7, <1>8 DEF WiredUpTo

\* For every specification: a clause hangs where its number says, as often as it
\* is a heading, and its node holds the lines of its last heading, all of them
\* and no others (TreeIsWhole).
THEOREM TreeWhole == Spec => []TreeIsWhole
<1>1. ParserInv /\ [Next]_vars => ParserInv'
  <2> SUFFICES ASSUME ParserInv, [Next]_vars PROVE ParserInv'
    OBVIOUS
  <2>1. ParserNext \/ UNCHANGED parserVars
    BY DEF Next, vars, RunParser
  <2>2. CASE UNCHANGED parserVars
    <3>1. /\ spec' = spec /\ stage' = stage /\ cursor' = cursor /\ heads' = heads
          /\ nodes' = nodes /\ order' = order /\ roots' = roots
      BY <2>2 DEF parserVars
    <3>2. \A n : /\ HeadsUpTo(n)' <=> HeadsUpTo(n)
                 /\ NodesUpTo(n)' <=> NodesUpTo(n)
                 /\ WiredUpTo(n)' <=> WiredUpTo(n)
      BY <3>1 DEF HeadsUpTo, NodesUpTo, WiredUpTo, BodyEnd, LinesUnder, LinesOfRoots, ListsHeads
    <3>3. Unwired' <=> Unwired
      BY <3>1 DEF Unwired
    <3>4. /\ HeadsUpTo(cursor - 1)' <=> HeadsUpTo(cursor - 1)
          /\ HeadsUpTo(Len(spec))' <=> HeadsUpTo(Len(spec))
          /\ NodesUpTo(cursor - 1)' <=> NodesUpTo(cursor - 1)
          /\ NodesUpTo(Len(heads))' <=> NodesUpTo(Len(heads))
          /\ WiredUpTo(cursor - 1)' <=> WiredUpTo(cursor - 1)
          /\ WiredUpTo(Len(heads))' <=> WiredUpTo(Len(heads))
      BY <3>1, <3>2
    <3> QED
      BY <3>1, <3>2, <3>3, <3>4 DEF ParserInv
  <2> QED
    BY <2>1, <2>2, HeadKeeps, BodyKeeps, WireKeeps, LoopsEnd DEF ParserNext
<1>2. ParserInv => TreeIsWhole
  <2> SUFFICES ASSUME ParserInv, stage = "parsed" PROVE TreeIsWhole
    BY DEF TreeIsWhole
  <2>1. \A h \in HeadingLines :
           (\A m \in (h + 1)..Len(spec) : IsHeading(spec[m]) => spec[m].id # spec[h].id) =>
               \A l \in 1..Len(spec) :
                   l \in nodes[spec[h].id].start..nodes[spec[h].id].end
                       <=> h <= l /\ \A m \in (h + 1)..l : ~IsHeading(spec[m])
    BY BodyOfHeading
  <2> QED
    BY <2>1, ListsOfHeadings DEF TreeIsWhole
<1> QED
  BY ParserStarts, <1>1, <1>2, PTL DEF Spec

=============================================================================
