----------------------------- MODULE Retrieval -----------------------------
(***************************************************************************)
(* Retrieval of the clause a requirement is judged by, while the stores    *)
(* are being filled: the walk of a model through the clause graph with its *)
(* restarts from the vector index (lib/graph/nodes/retrieve.ts), and the   *)
(* two shorter ways of the MCP server, a clause the client names and the   *)
(* search (mcp/real-deps.ts).  What the model reads only tells it what to  *)
(* answer, and it may answer anything; what the code does with the answer  *)
(* is modelled.  Every await may throw.                                    *)
(***************************************************************************)
EXTENDS ClauseStore

CONSTANTS Queries,
          Asker,       \* the organisation of each query
          MaxHops,     \* MAX_HOPS: steps of one walk
          MaxReseeds,  \* MAX_RESEEDS: restarts from the index
          None         \* no clause

ASSUME RetrievalAssumption ==
    /\ Asker \in [Queries -> Organizations]
    /\ MaxHops \in Nat \ {0} /\ MaxReseeds \in Nat
    /\ None \notin Clauses

VARIABLES pc,        \* what each query awaits
          current,   \* the clause the walk stands on
          picked,    \* the clause the model chose, and whether it is the last
          hop, reseed,
          path,      \* the clauses visited
          calls,     \* model calls made so far
          answer     \* the citation: a clause and whose text it carries

walk == <<current, picked, hop, reseed, path, calls>>
vars == <<stores, jobs, pc, walk, answer>>

Over == {"done", "failed"}
PC == {"start", "ask", "lookup", "hint", "search", "cite"} \cup Over

NoPick   == [clause |-> None, last |-> FALSE]
NoAnswer == [clause |-> None, text |-> Missing]

Init ==
    /\ StoreInit
    /\ pc = [q \in Queries |-> "start"]
    /\ current = [q \in Queries |-> None]
    /\ picked = [q \in Queries |-> NoPick]
    /\ hop = [q \in Queries |-> 0]
    /\ reseed = [q \in Queries |-> 0]
    /\ path = [q \in Queries |-> <<>>]
    /\ calls = [q \in Queries |-> 0]
    /\ answer = [q \in Queries |-> NoAnswer]

Goto(q, next) == pc' = [pc EXCEPT ![q] = next]

StandOn(q, c) == current' = [current EXCEPT ![q] = c]

\* The walk of this round found nothing: restart, or give up.
Stall(q) == Goto(q, IF reseed[q] < MaxReseeds THEN "search" ELSE "done")

\* A query names a clause, searches, or is a requirement to be walked for.
Start(q) ==
    /\ pc[q] = "start"
    /\ \/ \E c \in Clauses : StandOn(q, c) /\ Goto(q, "hint")
       \/ \E c \in Hits(Asker[q]) : StandOn(q, c) /\ Goto(q, "cite")
       \/ Goto(q, "ask") /\ UNCHANGED current
    /\ UNCHANGED <<stores, jobs, picked, hop, reseed, path, calls, answer>>

\* An unknown clause is the error clause_not_found.
Hint(q) ==
    /\ pc[q] = "hint"
    /\ IF Exists(current[q])
       THEN Goto(q, "cite") /\ path' = [path EXCEPT ![q] = <<current[q]>>]
       ELSE Goto(q, "failed") /\ UNCHANGED path
    /\ UNCHANGED <<stores, jobs, current, picked, hop, reseed, calls, answer>>

\* The model is shown the current clause, its neighbours and the search results.
\* It is asked a second time when its first answer is not JSON.
Ask(q) ==
    /\ pc[q] = "ask"
    /\ \E tries \in 1..2 : calls' = [calls EXCEPT ![q] = @ + tries]
    /\ \/ Stall(q) /\ UNCHANGED picked   \* stuck, done before anything was read, or no action
       \/ current[q] # None /\ Goto(q, "cite") /\ UNCHANGED picked   \* done
       \/ /\ \E c \in Clauses, last \in BOOLEAN :                    \* read or follow
                picked' = [picked EXCEPT ![q] = [clause |-> c, last |-> last]]
          /\ Goto(q, "lookup")
    /\ UNCHANGED <<stores, jobs, current, hop, reseed, path, answer>>

\* Mutant: a clause the model invented costs a hop and the walk goes on.
LookupGoesOn(q) ==
    /\ pc[q] = "lookup"
    /\ IF Exists(picked[q].clause)
       THEN /\ StandOn(q, picked[q].clause)
            /\ path' = [path EXCEPT ![q] = Append(@, picked[q].clause)]
            /\ IF picked[q].last THEN Goto(q, "cite") /\ UNCHANGED hop
               ELSE /\ hop' = [hop EXCEPT ![q] = @ + 1]
                    /\ IF hop'[q] < MaxHops THEN Goto(q, "ask") ELSE Stall(q)
       ELSE Goto(q, "ask") /\ UNCHANGED <<current, path, hop>>
    /\ UNCHANGED <<stores, jobs, picked, reseed, calls, answer>>

\* Only a clause of the graph is followed; another one ends this walk.
Lookup(q) ==
    /\ pc[q] = "lookup"
    /\ IF Exists(picked[q].clause)
       THEN /\ StandOn(q, picked[q].clause)
            /\ path' = [path EXCEPT ![q] = Append(@, picked[q].clause)]
            /\ IF picked[q].last THEN Goto(q, "cite") /\ UNCHANGED hop
               ELSE /\ hop' = [hop EXCEPT ![q] = @ + 1]
                    /\ IF hop'[q] < MaxHops THEN Goto(q, "ask") ELSE Stall(q)
       ELSE Stall(q) /\ UNCHANGED <<current, path, hop>>
    /\ UNCHANGED <<stores, jobs, picked, reseed, calls, answer>>

\* Mutant: an empty index is waited for.
SearchWaits(q) ==
    /\ pc[q] = "search"
    /\ \E c \in Hits(Asker[q]) : StandOn(q, c)
    /\ hop' = [hop EXCEPT ![q] = 0]
    /\ reseed' = [reseed EXCEPT ![q] = @ + 1]
    /\ Goto(q, "ask")
    /\ UNCHANGED <<stores, jobs, picked, path, calls, answer>>

\* The walk restarts from the first search result, which is not looked up.
Search(q) ==
    /\ pc[q] = "search"
    /\ \/ Hits(Asker[q]) = {} /\ Goto(q, "done") /\ UNCHANGED <<current, hop, reseed>>
       \/ /\ \E c \in Hits(Asker[q]) : StandOn(q, c)
          /\ hop' = [hop EXCEPT ![q] = 0]
          /\ reseed' = [reseed EXCEPT ![q] = @ + 1]
          /\ Goto(q, "ask")
    /\ UNCHANGED <<stores, jobs, picked, path, calls, answer>>

\* The clause is read once more: its text may have changed since the walk read it.
Cite(q) ==
    /\ pc[q] = "cite"
    /\ answer' = [answer EXCEPT ![q] = [clause |-> current[q], text |-> graph[current[q]]]]
    /\ Goto(q, "done")
    /\ UNCHANGED <<stores, jobs, walk>>

\* A store or the model does not answer, or the second answer is no JSON either.
ThrowIn(q) ==
    /\ pc[q] \notin Over
    /\ \E tries \in 0..2 : /\ tries > 0 => pc[q] = "ask"
                          /\ calls' = [calls EXCEPT ![q] = @ + tries]
    /\ Goto(q, "failed")
    /\ UNCHANGED <<stores, jobs, current, picked, hop, reseed, path, answer>>

Step(q) == Hint(q) \/ Ask(q) \/ Lookup(q) \/ Search(q) \/ Cite(q)

\* Meanwhile a script of ClauseStore goes on.
Fill(i) == Ingest(i) /\ UNCHANGED <<pc, walk, answer>>

Quiet == (\A q \in Queries : pc[q] \in Over) /\ (\A i \in Ingestions : job[i] # "running")
         /\ UNCHANGED vars

Next ==
    \/ \E q \in Queries : Start(q) \/ Step(q) \/ ThrowIn(q)
    \/ \E i \in Ingestions : Fill(i)
    \/ Quiet

Spec == Init /\ [][Next]_vars /\ \A q \in Queries : WF_vars(Step(q))

(***************************************************************************)
(* Properties.                                                             *)
(***************************************************************************)
TypeOK ==
    /\ StoreTypeOK
    /\ pc \in [Queries -> PC]
    /\ current \in [Queries -> Clauses \cup {None}]
    /\ picked \in [Queries -> [clause : Clauses \cup {None}, last : BOOLEAN]]
    /\ hop \in [Queries -> 0..MaxHops]
    /\ reseed \in [Queries -> 0..MaxReseeds]
    /\ path \in [Queries -> Seq(Clauses)]
    /\ calls \in [Queries -> Nat]
    /\ answer \in [Queries -> [clause : Clauses \cup {None}, text : Ingestions \cup {Missing}]]

\* A citation never comes without the text of its clause, although the walk
\* restarts from search results it does not look up and the stores are being
\* filled meanwhile (retrieve.ts:55, 89, 94; ingest.ts:23-63).
CitedClauseExists == \A q \in Queries : answer[q].clause # None => answer[q].text # Missing

\* The path lists clauses that exist, and what is cited was visited or found by
\* the search of the asking organisation (retrieve.ts:73-83, 89).
PathIsReal ==
    \A q \in Queries :
        /\ \A n \in 1..Len(path[q]) : Exists(path[q][n])
        /\ answer[q].clause # None =>
              \/ \E n \in 1..Len(path[q]) : path[q][n] = answer[q].clause
              \/ answer[q].clause \in Hits(Asker[q])

\* However the model answers, a requirement costs a bounded number of model
\* calls: 2 * 4 * 3 in the code (retrieve.ts:8, openrouter.ts:83-93).
WorkIsBounded ==
    \A q \in Queries : calls[q] <= 2 * (MaxHops * (MaxReseeds + 1))
                       /\ Len(path[q]) <= MaxHops * (MaxReseeds + 1)

\* Every retrieval ends, whatever the model answers (retrieve.ts:54-98).
RetrievalsEnd == \A q \in Queries : pc[q] # "start" ~> pc[q] \in Over

\* The text of a citation was ingested for the organisation that asked
\* (docs/INTEGRATION.md:58).
CitationIsOfOwnOrganisation ==
    \A q \in Queries : answer[q].text # Missing => Org[answer[q].text] = Asker[q]
=============================================================================
