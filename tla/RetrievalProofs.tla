-------------------------- MODULE RetrievalProofs --------------------------
(***************************************************************************)
(* Proofs about ClauseStore and Retrieval, for any editions, ingestions    *)
(* and queries and any bounds of the walk.                                 *)
(***************************************************************************)
EXTENDS Retrieval, SequenceTheorems, TLAPS

(***************************************************************************)
(* The stores: nothing is indexed or linked before it is in the graph.     *)
(***************************************************************************)
Ingested(i) ==
    /\ \A n \in 1..merged[i] : Exists(Order[i][n])
    /\ unlinked[i] \subseteq Links(i) /\ Links(i) \ unlinked[i] \subseteq links
    /\ job[i] = "done" => merged[i] = Len(Order[i]) /\ unlinked[i] = {} /\ Points(i) \subseteq index

StoreInv ==
    /\ \A i \in Ingestions : Ingested(i)
    /\ \A o \in Organizations : \A c \in Hits(o) : Exists(c)

\* The stores only grow.
Grow ==
    /\ \A c \in Clauses : Exists(c) => Exists(c)'
    /\ links \subseteq links' /\ index \subseteq index'

LEMMA StoreInitInv == StoreInit => StoreTypeOK /\ StoreInv
<1> SUFFICES ASSUME StoreInit PROVE StoreTypeOK /\ StoreInv
  OBVIOUS
<1>1. StoreTypeOK
  <2>1. \A i \in Ingestions : Len(Order[i]) \in Nat
    BY StoreAssumption
  <2> QED
    BY <2>1, StoreAssumption DEF StoreInit, StoreTypeOK, Links
<1>2. StoreInv
  BY DEF StoreInit, StoreInv, Ingested, Hits, Points, Exists
<1> QED
  BY <1>1, <1>2

LEMMA OrderType ==
    ASSUME NEW i \in Ingestions
    PROVE  /\ Len(Order[i]) \in Nat
           /\ \A n \in 1..Len(Order[i]) : Order[i][n] \in Clauses
           /\ Tree(i) \subseteq Clauses /\ Links(i) \subseteq Clauses \X Clauses
           /\ Points(i) \subseteq Organizations \X Clauses
<1>1. Order[i] \in Seq(Clauses) /\ Org[i] \in Organizations
  BY StoreAssumption
<1>2. Len(Order[i]) \in Nat /\ \A n \in 1..Len(Order[i]) : Order[i][n] \in Clauses
  BY <1>1
<1>3. Tree(i) \subseteq Clauses
  BY <1>2 DEF Tree
<1>4. Links(i) \subseteq Clauses \X Clauses
  BY StoreAssumption DEF Links
<1>5. Points(i) \subseteq Organizations \X Clauses
  BY <1>1, <1>3 DEF Points
<1> QED
  BY <1>2, <1>3, <1>4, <1>5

LEMMA NextMerged ==
    ASSUME StoreTypeOK, NEW i \in Ingestions, MergeClause(i)
    PROVE  /\ merged[i] \in Nat /\ merged[i] + 1 \in 1..Len(Order[i])
           /\ Order[i][merged[i] + 1] \in Clauses
<1>1. merged[i] \in Nat /\ Len(Order[i]) \in Nat /\ merged[i] < Len(Order[i])
  BY OrderType DEF MergeClause, StoreTypeOK
<1>2. merged[i] + 1 \in 1..Len(Order[i])
  BY <1>1
<1> QED
  BY <1>1, <1>2, OrderType

LEMMA StoreStep ==
    ASSUME StoreTypeOK, StoreInv, NEW i \in Ingestions, Ingest(i)
    PROVE  StoreTypeOK' /\ Grow
<1> USE DEF StoreTypeOK, Grow, Exists
<1>1. CASE MergeClause(i)
  <2>1. merged[i] \in Nat /\ merged[i] + 1 \in 1..Len(Order[i])
    BY <1>1, NextMerged
  <2>2. Order[i][merged[i] + 1] \in Clauses
    BY <1>1, NextMerged
  <2>3. graph' \in [Clauses -> Ingestions \cup {Missing}] /\ \A c \in Clauses : Exists(c) => Exists(c)'
    BY <1>1, <2>2, StoreAssumption DEF MergeClause
  <2>4. merged' \in [Ingestions -> Nat] /\ \A j \in Ingestions : merged'[j] <= Len(Order[j])
    BY <1>1, <2>1 DEF MergeClause
  <2> QED
    BY <1>1, <2>3, <2>4 DEF MergeClause
<1>2. CASE MergeLink(i)
  <2>1. PICK ref \in unlinked[i] :
           /\ links' \in {links, links \cup {ref}}
           /\ unlinked' = [unlinked EXCEPT ![i] = @ \ {ref}]
    BY <1>2 DEF MergeLink, Link
  <2>2. ref \in Clauses \X Clauses
    BY <2>1
  <2>3. unlinked[i] \ {ref} \in SUBSET (Clauses \X Clauses)
    BY DEF StoreTypeOK
  <2> QED
    BY <1>2, <2>1, <2>2, <2>3 DEF MergeLink, Link
<1>3. CASE UpsertPoints(i) \/ StopIngestion(i)
  <2>1. index \subseteq index' /\ index' \subseteq Organizations \X Clauses
    BY <1>3, OrderType DEF UpsertPoints, StopIngestion
  <2> QED
    BY <1>3, <2>1 DEF UpsertPoints, StopIngestion
<1> QED
  BY <1>1, <1>2, <1>3 DEF Ingest

LEMMA WholeTree ==
    ASSUME NEW i \in Ingestions, Ingested(i), merged[i] = Len(Order[i])
    PROVE  \A c \in Tree(i) : Exists(c)
  BY DEF Ingested, Tree

LEMMA StoreKeeps ==
    ASSUME StoreTypeOK, StoreInv, NEW i \in Ingestions, Ingest(i) PROVE StoreInv'
<1>1. Grow /\ StoreTypeOK'
  BY StoreStep
<1>2. ASSUME NEW j \in Ingestions, j # i PROVE Ingested(j)'
  <2>1. merged'[j] = merged[j] /\ unlinked'[j] = unlinked[j] /\ job'[j] = job[j]
    BY <1>2 DEF Ingest, MergeClause, MergeLink, Link, UpsertPoints, StopIngestion, StoreTypeOK
  <2>2. \A n \in 1..merged[j] : Order[j][n] \in Clauses
    BY OrderType DEF StoreTypeOK
  <2> QED
    BY <1>1, <2>1, <2>2 DEF StoreInv, Ingested, Grow
<1>3. Ingested(i)'
  <2>1. Ingested(i)
    BY DEF StoreInv
  <2>2. \A n \in 1..merged[i] : Order[i][n] \in Clauses
    BY OrderType DEF StoreTypeOK
  <2>3. CASE MergeClause(i)
    <3>1. merged[i] \in Nat
      BY <2>3, NextMerged
    <3>0. merged'[i] = merged[i] + 1 /\ UNCHANGED <<links, index, job, unlinked>>
      BY <2>3 DEF MergeClause, StoreTypeOK
    <3>2. Order[i][merged[i] + 1] \in Clauses
      BY <2>3, NextMerged
    <3>3. graph'[Order[i][merged[i] + 1]] # Missing
      BY <2>3, <3>2, StoreAssumption DEF MergeClause, StoreTypeOK
    <3>4. \A n \in 1..merged'[i] : Exists(Order[i][n])'
      <4> SUFFICES ASSUME NEW n \in 1..merged'[i] PROVE Exists(Order[i][n])'
        OBVIOUS
      <4>1. CASE n = merged[i] + 1
        BY <3>3, <4>1 DEF Exists
      <4>2. CASE n \in 1..merged[i]
        BY <1>1, <2>1, <2>2, <4>2 DEF Grow, Ingested
      <4> QED
        BY <3>0, <3>1, <4>1, <4>2
    <3>5. job[i] = "running"
      BY <2>3 DEF MergeClause
    <3> QED
      BY <2>1, <3>0, <3>4, <3>5 DEF Ingested
  <2>4. CASE MergeLink(i)
    <3>1. PICK ref \in unlinked[i] :
             /\ links' = IF graph[ref[1]] # Missing /\ graph[ref[2]] # Missing
                         THEN links \cup {ref} ELSE links
             /\ unlinked' = [unlinked EXCEPT ![i] = @ \ {ref}]
      BY <2>4 DEF MergeLink, Link
    <3>2. ref[1] \in Tree(i) /\ ref[2] \in Tree(i)
      BY <2>1, <3>1 DEF Ingested, Links
    <3>3. Exists(ref[1]) /\ Exists(ref[2])
      BY <2>1, <2>4, <3>2, WholeTree DEF MergeLink
    <3>4. links' = links \cup {ref} /\ unlinked'[i] = unlinked[i] \ {ref}
      BY <3>1, <3>3 DEF Exists, StoreTypeOK
    <3>5. job[i] = "running" /\ UNCHANGED <<graph, job, merged>>
      BY <2>4 DEF MergeLink, Link
    <3> QED
      BY <2>1, <3>4, <3>5 DEF Ingested, Exists
  <2>5. CASE UpsertPoints(i) \/ StopIngestion(i)
    <3>1. UNCHANGED <<graph, links, merged, unlinked>>
      BY <2>5 DEF UpsertPoints, StopIngestion
    <3>2. job'[i] = "done" => merged[i] = Len(Order[i]) /\ unlinked[i] = {} /\ Points(i) \subseteq index'
      BY <2>5 DEF UpsertPoints, StopIngestion, StoreTypeOK
    <3> QED
      BY <2>1, <3>1, <3>2 DEF Ingested, Exists
  <2> QED
    BY <2>3, <2>4, <2>5 DEF Ingest
<1>4. ASSUME NEW o \in Organizations, NEW c \in Hits(o)' PROVE Exists(c)'
  <2>1. c \in Clauses /\ <<o, c>> \in index'
    BY <1>4 DEF Hits
  <2>2. CASE <<o, c>> \in index
    BY <1>1, <2>1, <2>2 DEF StoreInv, Hits, Grow
  <2>3. CASE <<o, c>> \notin index
    <3>1. <<o, c>> \in Points(i) /\ merged[i] = Len(Order[i])
      BY <2>1, <2>3 DEF Ingest, MergeClause, MergeLink, Link, UpsertPoints, StopIngestion
    <3>2. c \in Tree(i)
      BY <3>1 DEF Points
    <3> QED
      BY <1>1, <2>1, <3>1, <3>2, WholeTree DEF StoreInv, Grow
  <2> QED
    BY <2>2, <2>3
<1> QED
  BY <1>2, <1>3, <1>4 DEF StoreInv

(***************************************************************************)
(* The queries: what a walk stands on was visited or found, and the calls  *)
(* made are within the steps taken.                                        *)
(***************************************************************************)
Visited(q, c) == (\E n \in 1..Len(path[q]) : path[q][n] = c) \/ c \in Hits(Asker[q])

WalkInv(q) ==
    /\ \A n \in 1..Len(path[q]) : Exists(path[q][n])
    /\ pc[q] \in {"start", "ask", "lookup", "search", "cite"} /\ current[q] # None =>
          Visited(q, current[q])
    /\ pc[q] \in {"hint", "cite"} => current[q] # None
    /\ pc[q] = "lookup" => picked[q].clause \in Clauses
    /\ pc[q] \notin Over => answer[q].clause = None
    /\ answer[q].clause # None => Visited(q, answer[q].clause) /\ answer[q].text # Missing

Spent(q) == MaxHops * reseed[q] + hop[q]
Round(q) == MaxHops * (reseed[q] + 1)
Budget   == MaxHops * (MaxReseeds + 1)

WorkInv(q) ==
    /\ pc[q] \in {"start", "hint", "ask", "lookup"} => hop[q] < MaxHops /\ Len(path[q]) <= Spent(q)
    /\ pc[q] \in {"start", "hint", "ask"} => calls[q] <= 2 * Spent(q)
    /\ pc[q] = "lookup" => calls[q] <= 2 * (Spent(q) + 1)
    /\ pc[q] = "search" =>
          reseed[q] < MaxReseeds /\ calls[q] <= 2 * Round(q) /\ Len(path[q]) <= Round(q)
    /\ calls[q] <= 2 * Budget /\ Len(path[q]) <= Budget

Inv == TypeOK /\ StoreInv /\ \A q \in Queries : WalkInv(q) /\ WorkInv(q)

LEMMA PathType ==
    ASSUME TypeOK, NEW q \in Queries
    PROVE  /\ path[q] \in Seq(Clauses) /\ Len(path[q]) \in Nat
           /\ \A n \in 1..Len(path[q]) : path[q][n] \in Clauses
<1>1. path[q] \in Seq(Clauses)
  BY DEF TypeOK
<1> QED
  BY <1>1

\* A query that takes no step keeps its invariant while the stores grow.
LEMMA QueryFrame ==
    ASSUME TypeOK, NEW q \in Queries, WalkInv(q), WorkInv(q), Grow,
           pc'[q] = pc[q], current'[q] = current[q], picked'[q] = picked[q], hop'[q] = hop[q],
           reseed'[q] = reseed[q], path'[q] = path[q], calls'[q] = calls[q], answer'[q] = answer[q]
    PROVE  WalkInv(q)' /\ WorkInv(q)'
<1>1. ASSUME NEW c, Visited(q, c) PROVE Visited(q, c)'
  BY <1>1 DEF Visited, Hits, Grow
<1>2. WalkInv(q)'
  BY <1>1, PathType DEF WalkInv, Grow
<1>3. WorkInv(q)'
  BY DEF WorkInv, Spent, Round
<1> QED
  BY <1>2, <1>3

LEMMA VisitedExists ==
    ASSUME StoreInv, NEW q \in Queries, WalkInv(q), NEW c, Visited(q, c)
    PROVE  Exists(c)
<1>1. Asker[q] \in Organizations
  BY RetrievalAssumption
<1> QED
  BY <1>1 DEF StoreInv, WalkInv, Visited

(***************************************************************************)
(* Arithmetic of the bounds.                                               *)
(***************************************************************************)
LEMMA Products ==
    ASSUME NEW m \in Nat, NEW r \in Nat, NEW s \in Nat, r <= s
    PROVE  m * r \in Nat /\ m * (r + 1) = m * r + m /\ m * r <= m * s
  OBVIOUS

LEMMA Bounds ==
    ASSUME TypeOK, NEW q \in Queries
    PROVE  /\ Spent(q) \in Nat /\ Round(q) \in Nat /\ Budget \in Nat
           /\ Round(q) <= Budget /\ MaxHops <= Budget
           /\ MaxHops * reseed[q] \in Nat
           /\ Spent(q) = MaxHops * reseed[q] + hop[q] /\ Round(q) = MaxHops * reseed[q] + MaxHops
<1>1. MaxHops \in Nat /\ MaxReseeds \in Nat /\ reseed[q] \in Nat /\ hop[q] \in Nat
      /\ reseed[q] <= MaxReseeds
  BY RetrievalAssumption DEF TypeOK
<1>2. MaxHops * reseed[q] \in Nat /\ Round(q) = MaxHops * reseed[q] + MaxHops
  BY <1>1, Products DEF Round
<1>3. MaxHops * MaxReseeds \in Nat /\ Budget = MaxHops * MaxReseeds + MaxHops
  BY <1>1, Products DEF Budget
<1>4. MaxHops * reseed[q] <= MaxHops * MaxReseeds
  BY <1>1, Products
<1> QED
  BY <1>1, <1>2, <1>3, <1>4 DEF Spent

(***************************************************************************)
(* The steps of a query.                                                   *)
(***************************************************************************)
LEMMA StallGoes ==
    ASSUME TypeOK, NEW q \in Queries, Stall(q)
    PROVE  /\ pc' \in [Queries -> PC]
           /\ \/ pc'[q] = "search" /\ reseed[q] < MaxReseeds
              \/ pc'[q] = "done"
  BY DEF Stall, Goto, TypeOK, PC, Over

LEMMA StartKeeps ==
    ASSUME TypeOK, StoreInv, NEW q \in Queries, WalkInv(q), WorkInv(q), Start(q)
    PROVE  TypeOK' /\ WalkInv(q)' /\ WorkInv(q)'
<1>1. UNCHANGED <<graph, links, index, job, merged, unlinked, picked, hop, reseed, path, calls, answer>>
  BY DEF Start, stores, jobs
<1>2. pc[q] = "start"
  BY DEF Start
<1>3. /\ pc' \in [Queries -> PC] /\ current' \in [Queries -> Clauses \cup {None}]
      /\ \/ pc'[q] = "hint" /\ current'[q] \in Clauses
         \/ pc'[q] = "cite" /\ current'[q] \in Hits(Asker[q])
         \/ pc'[q] = "ask" /\ current'[q] = current[q]
  <2>1. pc \in [Queries -> PC] /\ current \in [Queries -> Clauses \cup {None}]
    BY DEF TypeOK
  <2>2. ASSUME NEW c \in Clauses, StandOn(q, c), Goto(q, "hint") PROVE <1>3!:
    BY <2>1, <2>2 DEF StandOn, Goto, PC, Over
  <2>3. ASSUME NEW c \in Hits(Asker[q]), StandOn(q, c), Goto(q, "cite") PROVE <1>3!:
    BY <2>1, <2>3 DEF StandOn, Goto, PC, Over, Hits
  <2>4. CASE Goto(q, "ask") /\ UNCHANGED current
    BY <2>1, <2>4 DEF Goto, PC, Over
  <2> QED
    BY <2>2, <2>3, <2>4 DEF Start
<1>4. TypeOK'
  BY <1>1, <1>3 DEF TypeOK, StoreTypeOK
<1>5. WalkInv(q)'
  <2>1. \A c : Visited(q, c)' <=> Visited(q, c)
    BY <1>1 DEF Visited, Hits
  <2>2. \A n \in 1..Len(path[q]) : Exists(path[q][n])'
    BY <1>1 DEF WalkInv, Exists
  <2>3. answer[q].clause = None
    BY <1>2 DEF WalkInv, Over
  <2>4. pc'[q] \in {"ask", "cite"} /\ current'[q] # None => Visited(q, current'[q])
    BY <1>2, <1>3 DEF WalkInv, Visited
  <2>5. pc'[q] \in {"hint", "cite"} => current'[q] # None
    BY <1>3, RetrievalAssumption DEF Hits
  <2> QED
    BY <1>1, <1>3, <2>1, <2>2, <2>3, <2>4, <2>5 DEF WalkInv, Over
<1>6. WorkInv(q)'
  BY <1>1, <1>2, <1>3 DEF WorkInv, Spent, Round
<1> QED
  BY <1>4, <1>5, <1>6

LEMMA HintKeeps ==
    ASSUME TypeOK, StoreInv, NEW q \in Queries, WalkInv(q), WorkInv(q), Hint(q)
    PROVE  TypeOK' /\ WalkInv(q)' /\ WorkInv(q)'
<1>1. UNCHANGED <<graph, links, index, job, merged, unlinked, current, picked, hop, reseed, calls, answer>>
  BY DEF Hint, stores, jobs
<1>2. pc[q] = "hint" /\ current[q] \in Clauses /\ current[q] # None
  BY DEF Hint, WalkInv, TypeOK
<1>3. CASE Exists(current[q])
  <2>1. pc' = [pc EXCEPT ![q] = "cite"] /\ path' = [path EXCEPT ![q] = <<current[q]>>]
    BY <1>3 DEF Hint, Goto
  <2>2. <<current[q]>> \in Seq(Clauses)
    BY <1>2
  <2>3. pc'[q] = "cite" /\ path'[q] = <<current[q]>> /\ Len(path'[q]) = 1 /\ path'[q][1] = current[q]
    BY <2>1 DEF TypeOK
  <2>4. TypeOK'
    BY <1>1, <2>1, <2>2 DEF TypeOK, StoreTypeOK, PC
  <2>5. WalkInv(q)'
    <3>1. answer[q].clause = None
      BY <1>2 DEF WalkInv, Over
    <3> QED
      BY <1>1, <1>2, <1>3, <2>3, <3>1 DEF WalkInv, Visited, Exists
  <2>6. WorkInv(q)'
    BY <1>1, <1>2, <2>3, Bounds, RetrievalAssumption DEF WorkInv, Spent, Round
  <2> QED
    BY <2>4, <2>5, <2>6
<1>4. CASE ~Exists(current[q])
  <2>1. pc' = [pc EXCEPT ![q] = "failed"] /\ UNCHANGED path
    BY <1>4 DEF Hint, Goto
  <2>2. pc'[q] = "failed"
    BY <2>1 DEF TypeOK
  <2>3. TypeOK'
    BY <1>1, <2>1 DEF TypeOK, StoreTypeOK, PC, Over
  <2>4. WalkInv(q)'
    BY <1>1, <1>2, <2>1, <2>2 DEF WalkInv, Exists, Over
  <2>5. WorkInv(q)'
    BY <1>1, <2>1, <2>2 DEF WorkInv, Spent, Round
  <2> QED
    BY <2>3, <2>4, <2>5
<1> QED
  BY <1>3, <1>4

LEMMA AskKeeps ==
    ASSUME TypeOK, StoreInv, NEW q \in Queries, WalkInv(q), WorkInv(q), Ask(q)
    PROVE  TypeOK' /\ WalkInv(q)' /\ WorkInv(q)'
<1>1. UNCHANGED <<graph, links, index, job, merged, unlinked, current, hop, reseed, path, answer>>
  BY DEF Ask, stores, jobs
<1>2. pc[q] = "ask" /\ calls[q] \in Nat
  BY DEF Ask, TypeOK
<1>3. PICK tries \in 1..2 : calls' = [calls EXCEPT ![q] = @ + tries]
  BY DEF Ask
<1>4. calls'[q] = calls[q] + tries /\ calls' \in [Queries -> Nat]
  BY <1>2, <1>3 DEF TypeOK
<1>5. /\ pc' \in [Queries -> PC] /\ picked' \in [Queries -> [clause : Clauses \cup {None}, last : BOOLEAN]]
      /\ \/ pc'[q] = "search" /\ reseed[q] < MaxReseeds
         \/ pc'[q] = "done"
         \/ pc'[q] = "cite" /\ current[q] # None
         \/ pc'[q] = "lookup" /\ picked'[q].clause \in Clauses
  <2>1. CASE Stall(q) /\ UNCHANGED picked
    BY <2>1, StallGoes DEF TypeOK
  <2>2. CASE current[q] # None /\ Goto(q, "cite") /\ UNCHANGED picked
    BY <2>2 DEF TypeOK, Goto, PC
  <2>3. CASE /\ \E c \in Clauses, last \in BOOLEAN :
                   picked' = [picked EXCEPT ![q] = [clause |-> c, last |-> last]]
             /\ Goto(q, "lookup")
    BY <2>3 DEF TypeOK, Goto, PC
  <2> QED
    BY <2>1, <2>2, <2>3 DEF Ask
<1>6. TypeOK'
  BY <1>1, <1>4, <1>5 DEF TypeOK, StoreTypeOK
<1>7. WalkInv(q)'
  <2>1. answer[q].clause = None
    BY <1>2 DEF WalkInv, Over
  <2>2. \A n \in 1..Len(path[q]) : Exists(path[q][n])'
    BY <1>1 DEF WalkInv, Exists
  <2>3. current[q] # None => Visited(q, current[q])'
    BY <1>1, <1>2 DEF WalkInv, Visited, Hits
  <2> QED
    BY <1>1, <1>5, <2>1, <2>2, <2>3 DEF WalkInv, Over
<1>8. WorkInv(q)'
  <2>1. hop[q] \in Nat /\ MaxHops \in Nat /\ hop[q] < MaxHops
    BY <1>2, RetrievalAssumption DEF TypeOK, WorkInv
  <2>2. Spent(q) + 1 <= Round(q)
    BY <2>1, Bounds
  <2>3. calls'[q] <= 2 * (Spent(q) + 1) /\ Len(path[q]) <= Spent(q)
    BY <1>2, <1>4, Bounds DEF WorkInv
  <2>4. Spent(q)' = Spent(q) /\ Round(q)' = Round(q) /\ calls'[q] \in Nat /\ Len(path[q]) \in Nat
    BY <1>1, <1>4, PathType DEF Spent, Round
  <2>5. /\ calls'[q] <= 2 * Round(q) /\ Len(path[q]) <= Round(q)
        /\ calls'[q] <= 2 * Budget /\ Len(path[q]) <= Budget
    BY <2>2, <2>3, <2>4, Bounds
  <2> QED
    BY <1>1, <1>5, <2>1, <2>3, <2>4, <2>5 DEF WorkInv
<1> QED
  BY <1>6, <1>7, <1>8

LEMMA LookupKeeps ==
    ASSUME TypeOK, StoreInv, NEW q \in Queries, WalkInv(q), WorkInv(q), Lookup(q)
    PROVE  TypeOK' /\ WalkInv(q)' /\ WorkInv(q)'
<1>0. PICK c : c = picked[q].clause
  OBVIOUS
<1>1. UNCHANGED <<graph, links, index, job, merged, unlinked, picked, reseed, calls, answer>>
  BY DEF Lookup, stores, jobs
<1>2. pc[q] = "lookup" /\ c \in Clauses /\ hop[q] \in Nat /\ hop[q] < MaxHops
      /\ MaxHops \in Nat /\ answer[q].clause = None /\ calls[q] \in Nat
  BY <1>0, RetrievalAssumption DEF Lookup, TypeOK, WalkInv, WorkInv, Over
<1>3. /\ pc' \in [Queries -> PC] /\ current' \in [Queries -> Clauses \cup {None}]
      /\ path' \in [Queries -> Seq(Clauses)] /\ hop' \in [Queries -> 0..MaxHops]
      /\ \/ /\ Exists(c) /\ current'[q] = c /\ path'[q] = Append(path[q], c)
            /\ \/ pc'[q] = "cite" /\ hop'[q] = hop[q]
               \/ pc'[q] = "ask" /\ hop'[q] = hop[q] + 1 /\ hop'[q] < MaxHops
               \/ pc'[q] = "search" /\ reseed[q] < MaxReseeds
               \/ pc'[q] = "done"
         \/ /\ UNCHANGED <<current, path, hop>>
            /\ \/ pc'[q] = "search" /\ reseed[q] < MaxReseeds
               \/ pc'[q] = "done"
  <2>1. CASE Exists(c)
    <3>1. Append(path[q], c) \in Seq(Clauses)
      BY <1>2, PathType, AppendProperties
    <3>2. /\ current' = [current EXCEPT ![q] = c] /\ path' = [path EXCEPT ![q] = Append(path[q], c)]
      BY <1>0, <2>1 DEF Lookup, StandOn
    <3>3. /\ current'[q] = c /\ path'[q] = Append(path[q], c)
          /\ current' \in [Queries -> Clauses \cup {None}] /\ path' \in [Queries -> Seq(Clauses)]
      BY <1>2, <3>1, <3>2 DEF TypeOK
    <3>4. CASE picked[q].last
      BY <1>0, <2>1, <3>3, <3>4 DEF Lookup, Goto, TypeOK, PC
    <3>5. CASE ~picked[q].last
      <4>1. hop' = [hop EXCEPT ![q] = hop[q] + 1] /\ IF hop'[q] < MaxHops THEN Goto(q, "ask") ELSE Stall(q)
        BY <1>0, <2>1, <3>5 DEF Lookup
      <4>2. hop'[q] = hop[q] + 1 /\ hop' \in [Queries -> 0..MaxHops]
        BY <1>2, <4>1 DEF TypeOK
      <4>3. CASE hop'[q] < MaxHops
        BY <2>1, <3>3, <4>1, <4>2, <4>3 DEF Goto, TypeOK, PC
      <4>4. CASE ~(hop'[q] < MaxHops)
        BY <2>1, <3>3, <4>1, <4>2, <4>4, StallGoes
      <4> QED
        BY <4>3, <4>4
    <3> QED
      BY <3>4, <3>5
  <2>2. CASE ~Exists(c)
    BY <1>0, <2>2, StallGoes DEF Lookup, TypeOK
  <2> QED
    BY <2>1, <2>2
<1>4. TypeOK'
  BY <1>1, <1>3 DEF TypeOK, StoreTypeOK
<1>5. \A n \in 1..Len(path[q]) : Exists(path[q][n])
  BY DEF WalkInv
<1>6. ASSUME Exists(c), path'[q] = Append(path[q], c)
      PROVE  /\ Len(path'[q]) = Len(path[q]) + 1 /\ Visited(q, c)'
             /\ \A n \in 1..Len(path'[q]) : Exists(path'[q][n])
  <2>1. /\ Len(path'[q]) = Len(path[q]) + 1
        /\ \A n \in 1..Len(path[q]) : path'[q][n] = path[q][n]
        /\ path'[q][Len(path[q]) + 1] = c
    BY <1>2, <1>6, PathType, AppendProperties
  <2>2. Visited(q, c)'
    BY <2>1, PathType DEF Visited
  <2> QED
    BY <1>5, <1>6, <2>1, <2>2, PathType
<1>7. WalkInv(q)'
  <2>1. \A n \in 1..Len(path'[q]) : Exists(path'[q][n])
    BY <1>3, <1>5, <1>6
  <2>2. pc'[q] \in {"ask", "search", "cite"} /\ current'[q] # None => Visited(q, current[q])'
    <3>1. CASE Exists(c) /\ current'[q] = c /\ path'[q] = Append(path[q], c)
      BY <1>6, <3>1
    <3>2. CASE UNCHANGED <<current, path, hop>>
      BY <1>1, <1>2, <3>2 DEF WalkInv, Visited, Hits
    <3> QED
      BY <1>3, <3>1, <3>2
  <2>3. pc'[q] = "cite" => current'[q] # None
    BY <1>2, <1>3, RetrievalAssumption
  <2> QED
    BY <1>1, <1>2, <1>3, <2>1, <2>2, <2>3 DEF WalkInv, Over, Exists
<1>8. WorkInv(q)'
  <2>1. Spent(q) + 1 <= Round(q) /\ calls[q] <= 2 * (Spent(q) + 1) /\ Len(path[q]) <= Spent(q)
    BY <1>2, Bounds DEF WorkInv
  <2>2. Len(path'[q]) \in Nat /\ Len(path'[q]) <= Spent(q) + 1
    BY <1>3, <1>6, <2>1, PathType, Bounds
  <2>3. /\ calls[q] <= 2 * Round(q) /\ Len(path'[q]) <= Round(q)
        /\ calls[q] <= 2 * Budget /\ Len(path'[q]) <= Budget
    BY <1>2, <2>1, <2>2, Bounds
  <2>4. Round(q)' = Round(q)
    BY <1>1 DEF Round
  <2>5. pc'[q] = "ask" => hop'[q] < MaxHops /\ Spent(q)' = Spent(q) + 1
    <3>1. Spent(q)' = MaxHops * reseed[q] + hop'[q]
      BY <1>1 DEF Spent
    <3>2. pc'[q] = "ask" => hop'[q] = hop[q] + 1 /\ hop'[q] < MaxHops
      BY <1>3
    <3> QED
      BY <1>2, <3>1, <3>2, Bounds
  <2> QED
    BY <1>1, <1>3, <2>1, <2>2, <2>3, <2>4, <2>5 DEF WorkInv
<1> QED
  BY <1>4, <1>7, <1>8

LEMMA SearchKeeps ==
    ASSUME TypeOK, StoreInv, NEW q \in Queries, WalkInv(q), WorkInv(q), Search(q)
    PROVE  TypeOK' /\ WalkInv(q)' /\ WorkInv(q)'
<1>1. UNCHANGED <<graph, links, index, job, merged, unlinked, picked, path, calls, answer>>
  BY DEF Search, stores, jobs
<1>2. /\ pc[q] = "search" /\ answer[q].clause = None /\ reseed[q] \in Nat /\ reseed[q] < MaxReseeds
      /\ MaxHops \in Nat \ {0} /\ MaxReseeds \in Nat
  BY RetrievalAssumption DEF Search, TypeOK, WalkInv, WorkInv, Over
<1>3. /\ pc' \in [Queries -> PC] /\ current' \in [Queries -> Clauses \cup {None}]
      /\ hop' \in [Queries -> 0..MaxHops] /\ reseed' \in [Queries -> 0..MaxReseeds]
      /\ \/ pc'[q] = "done" /\ UNCHANGED <<current, hop, reseed>>
         \/ /\ pc'[q] = "ask" /\ current'[q] \in Hits(Asker[q])
            /\ hop'[q] = 0 /\ reseed'[q] = reseed[q] + 1
  <2>1. CASE Goto(q, "done") /\ UNCHANGED <<current, hop, reseed>>
    BY <2>1 DEF TypeOK, Goto, PC, Over
  <2>2. CASE /\ \E c \in Hits(Asker[q]) : StandOn(q, c)
             /\ hop' = [hop EXCEPT ![q] = 0]
             /\ reseed' = [reseed EXCEPT ![q] = reseed[q] + 1]
             /\ Goto(q, "ask")
    <3>1. PICK c \in Hits(Asker[q]) : current' = [current EXCEPT ![q] = c]
      BY <2>2 DEF StandOn
    <3>2. c \in Clauses
      BY DEF Hits
    <3>3. pc' \in [Queries -> PC] /\ pc'[q] = "ask"
      BY <2>2 DEF Goto, TypeOK, PC
    <3>4. current' \in [Queries -> Clauses \cup {None}] /\ current'[q] = c
      BY <3>1, <3>2 DEF TypeOK
    <3>5. hop' \in [Queries -> 0..MaxHops] /\ hop'[q] = 0
      BY <1>2, <2>2 DEF TypeOK
    <3>6. reseed' \in [Queries -> 0..MaxReseeds] /\ reseed'[q] = reseed[q] + 1
      BY <1>2, <2>2 DEF TypeOK
    <3> QED
      BY <3>3, <3>4, <3>5, <3>6
  <2> QED
    BY <2>1, <2>2 DEF Search
<1>4. TypeOK'
  BY <1>1, <1>3 DEF TypeOK, StoreTypeOK
<1>5. WalkInv(q)'
  <2>1. \A n \in 1..Len(path[q]) : Exists(path[q][n])'
    BY <1>1 DEF WalkInv, Exists
  <2>2. pc'[q] = "ask" => Visited(q, current[q])'
    BY <1>1, <1>3 DEF Visited, Hits
  <2> QED
    BY <1>1, <1>2, <1>3, <2>1, <2>2 DEF WalkInv, Over
<1>6. WorkInv(q)'
  <2>1. calls[q] <= 2 * Round(q) /\ Len(path[q]) <= Round(q)
    BY <1>2 DEF WorkInv
  <2>2. calls[q] <= 2 * Budget /\ Len(path[q]) <= Budget
    BY DEF WorkInv
  <2>3. pc'[q] = "ask" => Spent(q)' = Round(q) /\ hop'[q] < MaxHops
    <3>1. ASSUME reseed'[q] = reseed[q] + 1, hop'[q] = 0 PROVE Spent(q)' = Round(q) + 0
      BY <3>1 DEF Spent, Round
    <3>2. Round(q) \in Nat
      BY Bounds
    <3> QED
      BY <1>2, <1>3, <3>1, <3>2
  <2> QED
    BY <1>1, <1>3, <2>1, <2>2, <2>3 DEF WorkInv
<1> QED
  BY <1>4, <1>5, <1>6

LEMMA CiteKeeps ==
    ASSUME TypeOK, StoreInv, NEW q \in Queries, WalkInv(q), WorkInv(q), Cite(q)
    PROVE  TypeOK' /\ WalkInv(q)' /\ WorkInv(q)'
<1>1. UNCHANGED <<graph, links, index, job, merged, unlinked, current, picked, hop, reseed, path, calls>>
  BY DEF Cite, stores, jobs, walk
<1>2. pc[q] = "cite" /\ current[q] # None /\ current[q] \in Clauses /\ Visited(q, current[q])
  BY DEF Cite, WalkInv, TypeOK
<1>3. Exists(current[q])
  BY <1>2, VisitedExists
<1>4. pc' = [pc EXCEPT ![q] = "done"]
      /\ answer' = [answer EXCEPT ![q] = [clause |-> current[q], text |-> graph[current[q]]]]
  BY DEF Cite, Goto
<1>5. pc'[q] = "done" /\ answer'[q].clause = current[q] /\ answer'[q].text = graph[current[q]]
  BY <1>4 DEF TypeOK
<1>6. TypeOK'
  <2>1. [clause |-> current[q], text |-> graph[current[q]]]
          \in [clause : Clauses \cup {None}, text : Ingestions \cup {Missing}]
    BY <1>2 DEF TypeOK, StoreTypeOK
  <2> QED
    BY <1>1, <1>4, <2>1 DEF TypeOK, StoreTypeOK, PC, Over
<1>7. WalkInv(q)'
  <2>1. \A n \in 1..Len(path[q]) : Exists(path[q][n])'
    BY <1>1 DEF WalkInv, Exists
  <2>2. Visited(q, answer[q].clause)'
    BY <1>1, <1>2, <1>5 DEF Visited, Hits
  <2> QED
    BY <1>1, <1>3, <1>5, <2>1, <2>2 DEF WalkInv, Over, Exists
<1>8. WorkInv(q)'
  BY <1>1, <1>5 DEF WorkInv
<1> QED
  BY <1>6, <1>7, <1>8

LEMMA ThrowKeeps ==
    ASSUME TypeOK, StoreInv, NEW q \in Queries, WalkInv(q), WorkInv(q), ThrowIn(q)
    PROVE  TypeOK' /\ WalkInv(q)' /\ WorkInv(q)'
<1>1. UNCHANGED <<graph, links, index, job, merged, unlinked, current, picked, hop, reseed, path, answer>>
  BY DEF ThrowIn, stores, jobs
<1>2. pc[q] \notin Over /\ pc' = [pc EXCEPT ![q] = "failed"] /\ pc'[q] = "failed"
  BY DEF ThrowIn, Goto, TypeOK
<1>3. PICK tries \in 0..2 : /\ tries > 0 => pc[q] = "ask"
                            /\ calls' = [calls EXCEPT ![q] = @ + tries]
  BY DEF ThrowIn
<1>4. calls[q] \in Nat /\ calls'[q] = calls[q] + tries /\ calls' \in [Queries -> Nat]
  BY <1>3 DEF TypeOK
<1>5. TypeOK'
  BY <1>1, <1>2, <1>4 DEF TypeOK, StoreTypeOK, PC, Over
<1>6. WalkInv(q)'
  BY <1>1, <1>2 DEF WalkInv, Over, Exists
<1>7. WorkInv(q)'
  <2>1. CASE pc[q] = "ask"
    <3>1. hop[q] \in Nat /\ MaxHops \in Nat /\ hop[q] < MaxHops /\ calls[q] <= 2 * Spent(q)
      BY <2>1, RetrievalAssumption DEF TypeOK, WorkInv
    <3>2. calls'[q] <= 2 * Budget
      BY <1>4, <3>1, Bounds
    <3> QED
      BY <1>1, <1>2, <3>2 DEF WorkInv
  <2>2. CASE tries = 0
    BY <1>1, <1>2, <1>4, <2>2 DEF WorkInv
  <2> QED
    BY <1>3, <2>1, <2>2
<1> QED
  BY <1>5, <1>6, <1>7

(***************************************************************************)
(* The invariant.                                                          *)
(***************************************************************************)
LEMMA InitInv == Init => Inv
<1> SUFFICES ASSUME Init PROVE Inv
  OBVIOUS
<1>1. StoreTypeOK /\ StoreInv
  BY StoreInitInv DEF Init
<1>2. <<>> \in Seq(Clauses) /\ Len(<<>>) = 0
  OBVIOUS
<1>3. TypeOK
  BY <1>1, <1>2, RetrievalAssumption DEF Init, TypeOK, PC, NoPick, NoAnswer
<1>4. ASSUME NEW q \in Queries PROVE WalkInv(q) /\ WorkInv(q)
  <2>1. /\ pc[q] = "start" /\ current[q] = None /\ hop[q] = 0 /\ reseed[q] = 0 /\ path[q] = <<>>
        /\ calls[q] = 0 /\ answer[q].clause = None
    BY DEF Init, NoAnswer
  <2>2. WalkInv(q)
    BY <1>2, <2>1 DEF WalkInv
  <2>3. WorkInv(q)
    <3>1. Spent(q) \in Nat /\ Budget \in Nat /\ MaxHops \in Nat /\ 0 < MaxHops
      BY <1>3, Bounds, RetrievalAssumption
    <3> QED
      BY <1>2, <2>1, <3>1 DEF WorkInv
  <2> QED
    BY <2>2, <2>3
<1> QED
  BY <1>1, <1>3, <1>4 DEF Inv

\* A step of a query leaves the other queries and the stores alone.
LEMMA QueryStepFrame ==
    ASSUME TypeOK, NEW q \in Queries, Start(q) \/ Step(q) \/ ThrowIn(q), NEW p \in Queries \ {q}
    PROVE  /\ Grow
           /\ pc'[p] = pc[p] /\ current'[p] = current[p] /\ picked'[p] = picked[p] /\ hop'[p] = hop[p]
           /\ reseed'[p] = reseed[p] /\ path'[p] = path[p] /\ calls'[p] = calls[p]
           /\ answer'[p] = answer[p]
<1> USE DEF TypeOK, Grow, Exists, stores, jobs, walk, StandOn, Goto
<1>1. CASE Start(q)
  BY <1>1 DEF Start
<1>2. CASE Hint(q)
  BY <1>2 DEF Hint
<1>3. CASE Ask(q)
  BY <1>3 DEF Ask, Stall
<1>4. CASE Lookup(q)
  BY <1>4 DEF Lookup, Stall
<1>5. CASE Search(q)
  BY <1>5 DEF Search
<1>6. CASE Cite(q) \/ ThrowIn(q)
  BY <1>6 DEF Cite, ThrowIn
<1> QED
  BY <1>1, <1>2, <1>3, <1>4, <1>5, <1>6 DEF Step

LEMMA StoresUnchanged ==
    ASSUME NEW q \in Queries, Start(q) \/ Step(q) \/ ThrowIn(q)
    PROVE  UNCHANGED <<graph, links, index, job, merged, unlinked>>
  BY DEF Step, Start, Hint, Ask, Lookup, Search, Cite, ThrowIn, stores, jobs

LEMMA StoreInvStutters ==
    ASSUME StoreInv, UNCHANGED <<graph, links, index, job, merged, unlinked>> PROVE StoreInv'
  BY DEF StoreInv, Ingested, Exists, Hits

LEMMA NextInv == Inv /\ [Next]_vars => Inv'
<1> SUFFICES ASSUME Inv, [Next]_vars PROVE Inv'
  OBVIOUS
<1>1. TypeOK /\ StoreInv /\ \A q \in Queries : WalkInv(q) /\ WorkInv(q)
  BY DEF Inv
<1>2. ASSUME NEW q \in Queries, Start(q) \/ Step(q) \/ ThrowIn(q) PROVE Inv'
  <2>1. TypeOK' /\ WalkInv(q)' /\ WorkInv(q)'
    BY <1>1, <1>2, StartKeeps, HintKeeps, AskKeeps, LookupKeeps, SearchKeeps, CiteKeeps, ThrowKeeps DEF Step
  <2>2. ASSUME NEW p \in Queries \ {q} PROVE WalkInv(p)' /\ WorkInv(p)'
    BY <1>1, <1>2, QueryStepFrame, QueryFrame
  <2>3. StoreInv'
    BY <1>1, <1>2, StoresUnchanged, StoreInvStutters
  <2> QED
    BY <2>1, <2>2, <2>3 DEF Inv
<1>3. ASSUME NEW i \in Ingestions, Fill(i) PROVE Inv'
  <2>1. Ingest(i) /\ UNCHANGED <<pc, current, picked, hop, reseed, path, calls, answer>>
    BY <1>3 DEF Fill, walk
  <2>2. StoreTypeOK' /\ Grow /\ StoreInv'
    BY <1>1, <2>1, StoreStep, StoreKeeps DEF TypeOK
  <2>3. TypeOK'
    BY <1>1, <2>1, <2>2 DEF TypeOK
  <2>4. ASSUME NEW q \in Queries PROVE WalkInv(q)' /\ WorkInv(q)'
    BY <1>1, <2>1, <2>2, QueryFrame
  <2> QED
    BY <2>2, <2>3, <2>4 DEF Inv
<1>4. CASE UNCHANGED vars
  <2>1. UNCHANGED <<graph, links, index, job, merged, unlinked, pc, current, picked, hop, reseed, path, calls,
                    answer>>
    BY <1>4 DEF vars, stores, jobs, walk
  <2>2. StoreInv'
    BY <1>1, <2>1, StoreInvStutters
  <2>3. TypeOK' /\ Grow
    BY <1>1, <2>1 DEF TypeOK, StoreTypeOK, Grow, Exists
  <2>4. ASSUME NEW q \in Queries PROVE WalkInv(q)' /\ WorkInv(q)'
    BY <1>1, <2>1, <2>3, QueryFrame
  <2> QED
    BY <2>2, <2>3, <2>4 DEF Inv
<1> QED
  BY <1>2, <1>3, <1>4 DEF Next, Quiet

THEOREM InvariantHolds == Spec => []Inv
  BY InitInv, NextInv, PTL DEF Spec

\* Every variable keeps its type and the walk its bounds.
THEOREM TypeCorrect == Spec => []TypeOK
<1>1. Inv => TypeOK
  BY DEF Inv
<1> QED
  BY <1>1, InvariantHolds, PTL

\* An ingestion that reports success left everything it parsed (ingest.ts:26-65).
THEOREM IngestedWhole == Spec => []IngestedIsWhole
<1>1. Inv => IngestedIsWhole
  <2> SUFFICES ASSUME Inv, NEW i \in Ingestions, job[i] = "done"
               PROVE  /\ \A c \in Tree(i) : Exists(c)
                      /\ Links(i) \subseteq links
                      /\ Tree(i) \subseteq Hits(Org[i])
    BY DEF IngestedIsWhole
  <2>1. /\ Ingested(i) /\ merged[i] = Len(Order[i]) /\ unlinked[i] = {} /\ Points(i) \subseteq index
    BY DEF Inv, StoreInv, Ingested
  <2>2. \A c \in Tree(i) : Exists(c)
    BY <2>1, WholeTree
  <2>3. Links(i) \subseteq links
    BY <2>1 DEF Ingested
  <2>4. Tree(i) \subseteq Hits(Org[i])
    BY <2>1, OrderType DEF Points, Hits
  <2> QED
    BY <2>2, <2>3, <2>4
<1> QED
  BY <1>1, InvariantHolds, PTL

\* A citation has the text of its clause (retrieve.ts:55, 89, 94).
THEOREM CitedExists == Spec => []CitedClauseExists
<1>1. Inv => CitedClauseExists
  BY DEF Inv, WalkInv, CitedClauseExists
<1> QED
  BY <1>1, InvariantHolds, PTL

\* The path lists clauses that exist, and what is cited was visited or found (retrieve.ts:73-83).
THEOREM PathReal == Spec => []PathIsReal
<1>1. Inv => PathIsReal
  BY DEF Inv, WalkInv, Visited, PathIsReal
<1> QED
  BY <1>1, InvariantHolds, PTL

\* A requirement costs a bounded number of model calls, however the model answers
\* (retrieve.ts:8, openrouter.ts:83-93).
THEOREM WorkBounded == Spec => []WorkIsBounded
<1>1. Inv => WorkIsBounded
  BY DEF Inv, WorkInv, Budget, WorkIsBounded
<1> QED
  BY <1>1, InvariantHolds, PTL

(***************************************************************************)
(* The stores implement ClauseLibrary.                                     *)
(***************************************************************************)
Readable == {c \in Clauses : Exists(c)}
Findable == [o \in Organizations |-> Hits(o)]

LEMMA IngestRefines ==
    ASSUME StoreTypeOK, StoreInv, StoreInv', NEW i \in Ingestions, Ingest(i)
    PROVE  Library!Next \/ UNCHANGED <<Readable, Findable>>
<1>1. CASE MergeClause(i)
  <2>1. PICK c \in Clauses : graph' = [graph EXCEPT ![c] = i]
    BY <1>1, NextMerged DEF MergeClause
  <2>2. UNCHANGED Findable
    BY <1>1 DEF MergeClause, Findable, Hits
  <2>3. Readable' = Readable \cup {c}
    BY <2>1, StoreAssumption DEF Readable, Exists, StoreTypeOK
  <2> QED
    BY <2>2, <2>3 DEF Library!Next, Library!Publish, Readable, Findable
<1>2. CASE MergeLink(i)
  BY <1>2 DEF MergeLink, Link, Readable, Findable, Exists, Hits
<1>3. CASE UpsertPoints(i) \/ StopIngestion(i)
  <2> DEFINE o == Org[i]
             found == {c \in Clauses : <<o, c>> \in index'}
  <2>1. o \in Organizations /\ UNCHANGED graph
    BY <1>3, StoreAssumption DEF UpsertPoints, StopIngestion
  <2>2. index \subseteq index' /\ index' \subseteq index \cup Points(i)
    BY <1>3 DEF UpsertPoints, StopIngestion
  <2>3. found \subseteq Readable
    BY <2>1 DEF StoreInv, Hits, Readable, Exists
  <2>4. Findable' = [Findable EXCEPT ![o] = @ \cup found]
    <3>1. ASSUME NEW p \in Organizations \ {o} PROVE Hits(p)' = Hits(p)
      BY <2>2 DEF Hits, Points
    <3>2. Hits(o)' = Hits(o) \cup found
      BY <2>2 DEF Hits
    <3> QED
      BY <2>1, <3>1, <3>2 DEF Findable
  <2>5. UNCHANGED Readable
    BY <2>1 DEF Readable, Exists
  <2> QED
    BY <2>1, <2>3, <2>4, <2>5 DEF Library!Next, Library!Index, Readable, Findable
<1> QED
  BY <1>1, <1>2, <1>3 DEF Ingest

\* What retrieval may rely on: clauses stay readable, and a search finds only
\* clauses that can be read (neo4j.ts:33-42, qdrant.ts:28-34, ingest.ts:23-65).
THEOREM ImplementsClauseLibrary == Spec => ImplementsLibrary
<1>1. Init => Library!Init
  BY DEF Init, StoreInit, Library!Init, Exists, Hits
<1>2. Inv /\ Inv' /\ [Next]_vars => [Library!Next]_<<Readable, Findable>>
  <2> SUFFICES ASSUME Inv, Inv', [Next]_vars PROVE Library!Next \/ UNCHANGED <<Readable, Findable>>
    OBVIOUS
  <2>1. CASE \E q \in Queries : Start(q) \/ Step(q) \/ ThrowIn(q)
    BY <2>1, StoresUnchanged DEF Readable, Findable, Exists, Hits
  <2>2. CASE \E i \in Ingestions : Fill(i)
    BY <2>2, IngestRefines DEF Fill, Inv, TypeOK
  <2>3. CASE UNCHANGED vars
    BY <2>3 DEF vars, stores, Readable, Findable, Exists, Hits
  <2> QED
    BY <2>1, <2>2, <2>3 DEF Next, Quiet
<1> QED
  BY <1>1, <1>2, InvariantHolds, PTL DEF Spec, ImplementsLibrary, Library!Spec, Readable, Findable
=============================================================================
