---------------------------- MODULE ClauseStore ----------------------------
(***************************************************************************)
(* The clause graph (lib/clients/neo4j.ts) and the vector index            *)
(* (lib/clients/qdrant.ts) of one standard, and the script that fills them *)
(* (scripts/ingest.ts).  Ingestions run for several organisations, at the  *)
(* same time, of different editions of the standard, and may stop          *)
(* anywhere.  The graph knows no organisation: an edition overwrites the   *)
(* clauses of another, and nothing is ever deleted.                        *)
(***************************************************************************)
EXTENDS Naturals, Sequences

CONSTANTS Clauses,        \* clause ids
          Organizations,
          Ingestions,     \* runs of the script
          Org,            \* the organisation of each,
          Order,          \* the clauses of the edition it parsed, in document order,
          References,     \* and the pairs of clauses of which one's text names the other
          Missing         \* what the graph holds of a clause it does not have

ASSUME StoreAssumption ==
    /\ Org \in [Ingestions -> Organizations]
    /\ Order \in [Ingestions -> Seq(Clauses)]
    /\ References \in [Ingestions -> SUBSET (Clauses \X Clauses)]
    /\ Missing \notin Ingestions

VARIABLES graph,   \* per clause, the ingestion whose title and text it has
          links,   \* the XREF relationships
          index,   \* the points: pairs of an organisation and a clause
          job,     \* how far each ingestion is,
          merged,  \* the number of clauses it has merged,
          unlinked \* and the references it has yet to merge

stores == <<graph, links, index>>
jobs   == <<job, merged, unlinked>>

Tree(i) == {Order[i][n] : n \in 1..Len(Order[i])}

\* References to clauses the edition does not have are dropped.
Links(i) == {ref \in References[i] : ref[1] \in Tree(i) /\ ref[2] \in Tree(i)}

Points(i) == {<<Org[i], c>> : c \in Tree(i)}

StoreInit ==
    /\ graph = [c \in Clauses |-> Missing]
    /\ links = {}
    /\ index = {}
    /\ job = [i \in Ingestions |-> "running"]
    /\ merged = [i \in Ingestions |-> 0]
    /\ unlinked = [i \in Ingestions |-> Links(i)]

MergeClause(i) ==
    /\ job[i] = "running" /\ merged[i] < Len(Order[i])
    /\ graph' = [graph EXCEPT ![Order[i][merged[i] + 1]] = i]
    /\ merged' = [merged EXCEPT ![i] = @ + 1]
    /\ UNCHANGED <<links, index, job, unlinked>>

\* Both ends are matched first: a reference to a clause the graph does not have
\* creates nothing and raises no error.
Link(i) ==
    /\ \E ref \in unlinked[i] :
          /\ links' = IF graph[ref[1]] # Missing /\ graph[ref[2]] # Missing
                      THEN links \cup {ref} ELSE links
          /\ unlinked' = [unlinked EXCEPT ![i] = @ \ {ref}]
    /\ UNCHANGED <<graph, index, job, merged>>

\* Mutant: references are merged while clauses still are.
MergeLinkEarly(i) == job[i] = "running" /\ Link(i)

MergeLink(i) == job[i] = "running" /\ merged[i] = Len(Order[i]) /\ Link(i)

\* Mutant: the points are written first.
UpsertPointsFirst(i) ==
    /\ job[i] = "running"
    /\ index' = index \cup Points(i)
    /\ IF merged[i] = Len(Order[i]) /\ unlinked[i] = {}
       THEN job' = [job EXCEPT ![i] = "done"] ELSE UNCHANGED job
    /\ UNCHANGED <<graph, links, merged, unlinked>>

\* One call for all clauses, after all of them were embedded.
UpsertPoints(i) ==
    /\ job[i] = "running" /\ merged[i] = Len(Order[i]) /\ unlinked[i] = {}
    /\ index' = index \cup Points(i)
    /\ job' = [job EXCEPT ![i] = "done"]
    /\ UNCHANGED <<graph, links, merged, unlinked>>

\* The script throws or is killed; the upsert may have stored some points.
StopIngestion(i) ==
    /\ job[i] = "running"
    /\ \/ UNCHANGED index
       \/ /\ merged[i] = Len(Order[i]) /\ unlinked[i] = {}
          /\ \E stored \in SUBSET Points(i) : index' = index \cup stored
    /\ job' = [job EXCEPT ![i] = "failed"]
    /\ UNCHANGED <<graph, links, merged, unlinked>>

Ingest(i) == MergeClause(i) \/ MergeLink(i) \/ UpsertPoints(i) \/ StopIngestion(i)

(***************************************************************************)
(* Queries of lib/clients.                                                 *)
(***************************************************************************)

\* getClause and neighbours match the standard and the clause only.
Exists(c) == graph[c] # Missing

\* searchClauses filters by organisation and standard; the order is the vectors'.
Hits(org) == {c \in Clauses : <<org, c>> \in index}

(***************************************************************************)
(* Properties.                                                             *)
(***************************************************************************)
StoreTypeOK ==
    /\ graph \in [Clauses -> Ingestions \cup {Missing}]
    /\ links \subseteq Clauses \X Clauses
    /\ index \subseteq Organizations \X Clauses
    /\ job \in [Ingestions -> {"running", "done", "failed"}]
    /\ merged \in [Ingestions -> Nat]
    /\ unlinked \in [Ingestions -> SUBSET (Clauses \X Clauses)]
    /\ \A i \in Ingestions : merged[i] <= Len(Order[i])

\* An ingestion that reports success left everything it parsed: its clauses in
\* the graph and in the index, and all their references, forward ones included
\* (ingest.ts:26-65).
IngestedIsWhole ==
    \A i \in Ingestions : job[i] = "done" =>
        /\ \A c \in Tree(i) : Exists(c)
        /\ Links(i) \subseteq links
        /\ Tree(i) \subseteq Hits(Org[i])

\* What retrieval may rely on.
Library == INSTANCE ClauseLibrary
    WITH readable <- {c \in Clauses : Exists(c)},
         findable <- [o \in Organizations |-> Hits(o)]

ImplementsLibrary == Library!Spec
=============================================================================
