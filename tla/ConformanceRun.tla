--------------------------- MODULE ConformanceRun ---------------------------
(***************************************************************************)
(* A conformance run started from the web: POST /api/runs                  *)
(* (app/api/runs/route.ts), the LangGraph loop and the persistence         *)
(* (lib/graph/pipeline.ts, lib/graph/persist.ts), and a reader of the run  *)
(* (app/api/runs/[id]/route.ts and its export), for several runs at once.  *)
(*                                                                         *)
(* Every await may throw.  A statement that throws may have been committed *)
(* nonetheless: only its acknowledgement was lost.  The host may kill the  *)
(* handler at any point (maxDuration, a deploy, a crash); nothing resumes  *)
(* it.                                                                     *)
(***************************************************************************)
EXTENDS RunStore

CONSTANTS MaxRequirements,   \* bound of the model: requirements one extraction yields
          RecursionLimit     \* LangGraph's default limit on the nodes of one invocation

ASSUME RunAssumption == MaxRequirements \in Nat /\ RecursionLimit \in Nat

VARIABLES assets,        \* the Asset records of the request
          pc,            \* what the handler awaits
          requirements,  \* number of requirements the extraction returned
          cursor, rows,  \* the graph's state
          reply,         \* what the client got
          reader         \* a GET of one run: what it has read so far

graph == <<requirements, cursor, rows>>
vars  == <<status, stored, quotes, summary, assets, pc, requirements, cursor, rows, reply, reader>>

Before == {"received", "organization", "standardAsset", "implAsset", "createRun"}
Inside == {"extract", "retrieve", "compile", "insertRows", "insertQuotes", "markComplete"}
PC     == Before \cup Inside \cup {"markFailed", "answered", "killed"}

Assets  == {"standard", "implementation"}
Replies == {"none", "bad_request", "ok", "failed", "unhandled"}

Init ==
    /\ StoreInit
    /\ assets = [r \in Runs |-> {}]
    /\ pc = [r \in Runs |-> "received"]
    /\ requirements = [r \in Runs |-> 0]
    /\ cursor = [r \in Runs |-> 0]
    /\ rows = [r \in Runs |-> <<>>]
    /\ reply = [r \in Runs |-> "none"]
    /\ reader = [state |-> "idle"]

Goto(r, next) == pc' = [pc EXCEPT ![r] = next] /\ UNCHANGED reply

Answer(r, what) == pc' = [pc EXCEPT ![r] = "answered"] /\ reply' = [reply EXCEPT ![r] = what]

\* An exception: handled by the route's catch once the run record exists.
Throw(r) == IF pc[r] \in Inside THEN Goto(r, "markFailed") ELSE Answer(r, "unhandled")

\* An awaited statement: acknowledged, or thrown with or without effect.
Statement(r, effect, acknowledged) ==
    \/ effect /\ acknowledged
    \/ effect /\ Throw(r)
    \/ UNCHANGED <<store, assets>> /\ Throw(r)

(***************************************************************************)
(* The request, up to the run record.                                      *)
(***************************************************************************)

\* A file is missing, or cannot be parsed (this throws), or both are read.
Receive(r) ==
    /\ pc[r] = "received"
    /\ Answer(r, "bad_request") \/ Throw(r) \/ Goto(r, "organization")
    /\ UNCHANGED <<store, assets, graph, reader>>

UpsertOrganization(r) ==
    /\ pc[r] = "organization"
    /\ Goto(r, "standardAsset") \/ Throw(r)
    /\ UNCHANGED <<store, assets, graph, reader>>

CreateAsset(r, kind, at, next) ==
    /\ pc[r] = at
    /\ Statement(r, assets' = [assets EXCEPT ![r] = @ \cup {kind}] /\ UNCHANGED store, Goto(r, next))
    /\ UNCHANGED <<graph, reader>>

CreateAssets(r) ==
    \/ CreateAsset(r, "standard", "standardAsset", "implAsset")
    \/ CreateAsset(r, "implementation", "implAsset", "createRun")

CreateRunRecord(r) ==
    /\ pc[r] = "createRun"
    /\ Statement(r, CreateRun(r) /\ UNCHANGED assets, Goto(r, "extract"))
    /\ UNCHANGED <<graph, reader>>

(***************************************************************************)
(* The graph: extract, then retrieve and compile for each requirement.     *)
(***************************************************************************)
NodesRun(r) == IF pc[r] = "extract" THEN 0
               ELSE 1 + 2 * cursor[r] + IF pc[r] = "compile" THEN 1 ELSE 0

MayRunNode(r) == NodesRun(r) < RecursionLimit

\* persistRows writes nothing for an empty matrix.
AfterGraph(matrix) == IF matrix = <<>> THEN "markComplete" ELSE "insertRows"

HasMore(r, at, matrix) == IF at < requirements'[r] THEN "retrieve" ELSE AfterGraph(matrix)

Extract(r) ==
    /\ pc[r] = "extract"
    /\ \/ /\ MayRunNode(r)
          /\ \E n \in 0..MaxRequirements : requirements' = [requirements EXCEPT ![r] = n]
          /\ cursor' = [cursor EXCEPT ![r] = 0]
          /\ Goto(r, HasMore(r, 0, rows[r]))
       \/ Throw(r) /\ UNCHANGED <<requirements, cursor>>
    /\ UNCHANGED <<store, assets, rows, reader>>

Retrieve(r) ==
    /\ pc[r] = "retrieve"
    /\ (MayRunNode(r) /\ Goto(r, "compile")) \/ Throw(r)
    /\ UNCHANGED <<store, assets, graph, reader>>

\* Mutant: the loop stops one requirement early.
CompileStopsEarly(r) ==
    /\ pc[r] = "compile"
    /\ \/ /\ MayRunNode(r)
          /\ \E row \in Rows : rows' = [rows EXCEPT ![r] = Append(@, row)]
          /\ cursor' = [cursor EXCEPT ![r] = @ + 1]
          /\ UNCHANGED requirements
          /\ Goto(r, HasMore(r, cursor'[r] + 1, rows'[r]))
       \/ Throw(r) /\ UNCHANGED graph
    /\ UNCHANGED <<store, assets, reader>>

\* One row per requirement: the evaluation ends with a row or throws (Judge).
Compile(r) ==
    /\ pc[r] = "compile"
    /\ \/ /\ MayRunNode(r)
          /\ \E row \in Rows : rows' = [rows EXCEPT ![r] = Append(@, row)]
          /\ cursor' = [cursor EXCEPT ![r] = @ + 1]
          /\ UNCHANGED requirements
          /\ Goto(r, HasMore(r, cursor'[r], rows'[r]))
       \/ Throw(r) /\ UNCHANGED graph
    /\ UNCHANGED <<store, assets, reader>>

(***************************************************************************)
(* Persistence, completion and failure.                                    *)
(***************************************************************************)
Report(matrix) == [total                |-> Len(matrix),
                   conformant           |-> CommittedWith(matrix, "conformant"),
                   gaps                 |-> CommittedWith(matrix, "gap"),
                   insufficientEvidence |-> CommittedWith(matrix, "insufficient_evidence"),
                   needsReview          |-> NeedsReview(matrix)]

PersistRows(r) ==
    /\ pc[r] = "insertRows"
    /\ Statement(r, InsertRows(r, rows[r]) /\ UNCHANGED assets,
         Goto(r, IF RejectedOf(rows[r]) = {} THEN "markComplete" ELSE "insertQuotes"))
    /\ UNCHANGED <<graph, reader>>

PersistQuotes(r) ==
    /\ pc[r] = "insertQuotes"
    /\ Statement(r, InsertQuotes(r, rows[r]) /\ UNCHANGED assets, Goto(r, "markComplete"))
    /\ UNCHANGED <<graph, reader>>

CompleteRun(r) ==
    /\ pc[r] = "markComplete"
    /\ Statement(r, MarkComplete(r, Report(rows[r])) /\ UNCHANGED assets, Answer(r, "ok"))
    /\ UNCHANGED <<graph, reader>>

\* Mutant: a failing run is left alone.
FailRunForgets(r) ==
    /\ pc[r] = "markFailed"
    /\ Answer(r, "failed")
    /\ UNCHANGED <<store, assets, graph, reader>>

\* Mutant: the catch clause ignores the failure of its own update.
FailRunSwallows(r) ==
    /\ pc[r] = "markFailed"
    /\ MarkFailed(r) \/ UNCHANGED store
    /\ Answer(r, "failed")
    /\ UNCHANGED <<assets, graph, reader>>

\* The catch clause; when its own update throws, nothing handles it.
FailRun(r) ==
    /\ pc[r] = "markFailed"
    /\ Statement(r, MarkFailed(r) /\ UNCHANGED assets, Answer(r, "failed"))
    /\ UNCHANGED <<graph, reader>>

Kill(r) ==
    /\ pc[r] \notin {"answered", "killed"}
    /\ Goto(r, "killed")
    /\ UNCHANGED <<store, assets, graph, reader>>

(***************************************************************************)
(* A reader: the run record first, then its rows, in two queries.          *)
(***************************************************************************)
Idle == [state |-> "idle"]

\* Mutant: the rows first, then the run record.
ReadRunLast ==
    /\ \/ reader.state = "idle" /\ \E r \in Runs :
             reader' = [state |-> "rows", run |-> r, rows |-> stored[r], status |-> "absent"]
       \/ reader.state = "rows" /\ reader' =
             IF status[reader.run] = "absent" THEN Idle
             ELSE [state |-> "done", run |-> reader.run, status |-> status[reader.run],
                   summary |-> summary[reader.run], rows |-> reader.rows]
       \/ reader.state = "done" /\ reader' = Idle
    /\ UNCHANGED <<store, assets, pc, graph, reply>>

ReadRun ==
    /\ reader.state \in {"idle", "done"}
    /\ \E r \in Runs :
          reader' = IF status[r] = "absent" THEN Idle   \* not found
                    ELSE [state |-> "run", run |-> r, status |-> status[r], summary |-> summary[r]]
    /\ UNCHANGED <<store, assets, pc, graph, reply>>

ReadRows ==
    /\ reader.state = "run"
    /\ reader' = [state |-> "done", run |-> reader.run, status |-> reader.status,
                  summary |-> reader.summary, rows |-> stored[reader.run]]
    /\ UNCHANGED <<store, assets, pc, graph, reply>>

(***************************************************************************)
(* The specification.                                                      *)
(***************************************************************************)
Handle(r) ==
    \/ Receive(r) \/ UpsertOrganization(r) \/ CreateAssets(r) \/ CreateRunRecord(r)
    \/ Extract(r) \/ Retrieve(r) \/ Compile(r)
    \/ PersistRows(r) \/ PersistQuotes(r) \/ CompleteRun(r) \/ FailRun(r)

Next == (\E r \in Runs : Handle(r) \/ Kill(r)) \/ ReadRun \/ ReadRows

\* A handler goes on when its await settles; one that never settles is killed
\* by the host's time limit.
Spec == Init /\ [][Next]_vars /\ \A r \in Runs : WF_vars(Handle(r) \/ Kill(r))

(***************************************************************************)
(* Properties.                                                             *)
(***************************************************************************)
TypeOK ==
    /\ StoreTypeOK
    /\ assets \in [Runs -> SUBSET Assets]
    /\ pc \in [Runs -> PC]
    /\ requirements \in [Runs -> 0..MaxRequirements]
    /\ cursor \in [Runs -> Nat] /\ \A r \in Runs : cursor[r] <= requirements[r]
    /\ rows \in [Runs -> Seq(Rows)]
    /\ reply \in [Runs -> Replies]
    /\ reader.state \in {"idle", "run", "done"}
    /\ reader.state # "idle" => reader.run \in Runs /\ reader.status \in Statuses

\* A run marked complete has one row for every extracted requirement, the
\* rejected quote of every row that has one, and a summary of exactly these
\* rows, whatever failed or was killed (pipeline.ts:59-71, persist.ts:11-26).
CompleteIsWhole ==
    \A r \in Runs : status[r] = "complete" =>
        /\ Len(stored[r]) = requirements[r]
        /\ quotes[r] = RejectedOf(stored[r])
        /\ summary[r] = Report(stored[r])

\* A matrix is written at once and never again: no statement, failure or kill
\* leaves a part of it or changes it (persist.ts:12).
MatrixIsWrittenOnce ==
    [][\A r \in Runs : stored'[r] # stored[r] =>
          stored[r] = <<>> /\ Len(stored'[r]) = requirements[r] /\ status[r] = "running"]_vars

\* What the client was told is what the record says: 200 only for a complete
\* run, 500 with a run id only for a failed one, 400 before anything was
\* recorded (route.ts:28-29, 61, 64-65).
ReplyMatchesRecord ==
    \A r \in Runs :
        /\ reply[r] = "ok" => status[r] = "complete"
        /\ reply[r] = "failed" => status[r] = "failed" /\ assets[r] = Assets
        /\ reply[r] = "bad_request" => status[r] = "absent" /\ assets[r] = {}

\* Nothing writes to a run whose client has been answered: the answer, the
\* status and the matrix stay as they were told.
FinalOnceAnswered ==
    [][\A r \in Runs : reply[r] # "none" =>
          /\ status'[r] = status[r] /\ stored'[r] = stored[r] /\ quotes'[r] = quotes[r]
          /\ summary'[r] = summary[r] /\ reply'[r] = reply[r]]_vars

\* A reader never sees a part of a matrix, and one that sees a complete run sees
\* the rows its summary counts, although record and rows are read in two
\* queries while the run goes on (app/api/runs/[id]/route.ts:10-12).
ReadersSeeWhole ==
    reader.state = "done" =>
        /\ reader.rows # <<>> => Len(reader.rows) = requirements[reader.run]
        /\ reader.status = "complete" =>
              reader.summary = Report(reader.rows) /\ reader.rows = stored[reader.run]

\* A run completes only with a matrix that LangGraph had the nodes for, one for the
\* extraction and two for each requirement: the limit ends a longer loop with an
\* exception, and what was judged until then is never reported as the whole
\* (pipeline.ts:30-40, 52-59).
CompleteIsWithinLimit ==
    \A r \in Runs : status[r] = "complete" => 1 + 2 * Len(stored[r]) <= RecursionLimit

\* How many more steps a handler may take at most, togo requirements from the end.
Ahead(at, togo) ==
    CASE at = "received"      -> 2 * MaxRequirements + 10
      [] at = "organization"  -> 2 * MaxRequirements + 9
      [] at = "standardAsset" -> 2 * MaxRequirements + 8
      [] at = "implAsset"     -> 2 * MaxRequirements + 7
      [] at = "createRun"     -> 2 * MaxRequirements + 6
      [] at = "extract"       -> 2 * MaxRequirements + 5
      [] at = "retrieve"      -> 2 * togo + 4
      [] at = "compile"       -> 2 * togo + 3
      [] at = "insertRows"    -> 4
      [] at = "insertQuotes"  -> 3
      [] at = "markComplete"  -> 2
      [] at = "markFailed"    -> 1
      [] at = "answered"      -> 0
      [] at = "killed"        -> 0

StepsLeft(r) == Ahead(pc[r], requirements[r] - cursor[r])

\* A run has an end in sight: whatever changes anything of it, its records, its
\* graph or its answer, takes its handler nearer to the end, so no failure makes
\* the route try again and the loop turns once per requirement (route.ts:24-67,
\* pipeline.ts:27-40).
HandlersDescend ==
    [][\A r \in Runs :
          LET run == <<status[r], stored[r], quotes[r], summary[r], assets[r], pc[r],
                       requirements[r], cursor[r], rows[r], reply[r]>>
          IN  run' # run => StepsLeft(r)' \in 0..(StepsLeft(r) - 1)]_vars

\* A run that is recorded as running ends complete or failed, unless its handler
\* was killed or an exception escaped the route.
RunsSettle ==
    \A r \in Runs :
        status[r] = "running" ~>
            (status[r] \in {"complete", "failed"} \/ pc[r] = "killed" \/ reply[r] = "unhandled")

\* The web run implements the lifecycle its readers rely on.
Lifecycle == INSTANCE RunLifecycle WITH record <- Record

ImplementsLifecycle == Lifecycle!Spec
=============================================================================
