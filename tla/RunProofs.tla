------------------------------ MODULE RunProofs ------------------------------
(***************************************************************************)
(* Proofs about ConformanceRun and the pages that show its runs, for any   *)
(* number of runs and requirements and any recursion limit.                *)
(***************************************************************************)
EXTENDS RunPages, SequenceTheorems, TLAPS

Untouched == Before \cup {"extract"}
Looping   == {"retrieve", "compile"}
Saving    == {"insertRows", "insertQuotes", "markComplete"}
Over      == {"markFailed", "answered", "killed"}

(***************************************************************************)
(* The inductive invariant, for one run.                                   *)
(***************************************************************************)

\* The graph's state: one row per requirement the cursor passed.
Progress(r) ==
    /\ Len(rows[r]) = cursor[r] /\ cursor[r] <= requirements[r]
    /\ pc[r] \in Untouched => rows[r] = <<>>
    /\ pc[r] \in Looping => cursor[r] < requirements[r]
    /\ pc[r] \in Saving => cursor[r] = requirements[r]

\* The matrix in the tables is absent or whole.
Saved(r) ==
    /\ stored[r] # <<>> => stored[r] = rows[r] /\ cursor[r] = requirements[r]
    /\ pc[r] \in Untouched \cup Looping \cup {"insertRows"} => stored[r] = <<>>
    /\ pc[r] \in {"insertQuotes", "markComplete"} => stored[r] = rows[r]
    /\ pc[r] \in Untouched \cup Looping \cup {"insertRows", "insertQuotes"} => quotes[r] = {}
    /\ pc[r] = "markComplete" => quotes[r] = RejectedOf(rows[r])

\* The status follows the handler.
Recorded(r) ==
    /\ pc[r] \in Before => status[r] = "absent"
    /\ pc[r] \in Inside => status[r] = "running"
    /\ pc[r] = "markFailed" => status[r] \in {"running", "complete"}
    /\ status[r] = "complete" =>
          /\ pc[r] \in Over /\ stored[r] = rows[r] /\ cursor[r] = requirements[r]
          /\ quotes[r] = RejectedOf(stored[r]) /\ summary[r] = Report(stored[r])
    /\ pc[r] \in {"received", "organization", "standardAsset"} => assets[r] = {}
    /\ pc[r] = "implAsset" => assets[r] = {"standard"}
    /\ pc[r] \in {"createRun", "markFailed"} \cup Inside => assets[r] = Assets

\* The client was answered with what is recorded.
Answered(r) ==
    /\ reply[r] # "none" => pc[r] = "answered"
    /\ reply[r] = "ok" => status[r] = "complete"
    /\ reply[r] = "failed" => status[r] = "failed" /\ assets[r] = Assets
    /\ reply[r] = "bad_request" => status[r] = "absent" /\ assets[r] = {}

RunInv(r) == Progress(r) /\ Saved(r) /\ Recorded(r) /\ Answered(r)

\* What a reader has seen stays true of the run.
ReaderInv ==
    /\ reader.state \in {"run", "done"} /\ reader.status = "complete" =>
          /\ pc[reader.run] \in Over
          /\ Len(stored[reader.run]) = requirements[reader.run]
          /\ reader.summary = Report(stored[reader.run]) /\ reader.summary = summary[reader.run]
          /\ reader.state = "done" => reader.rows = stored[reader.run]
    /\ reader.state = "done" /\ reader.rows # <<>> => reader.rows = stored[reader.run]

Inv == (\A r \in Runs : RunInv(r)) /\ ReaderInv

(***************************************************************************)
(* Frames: a handler's step touches only its own run.                      *)
(***************************************************************************)
Same(s) ==
    /\ status'[s] = status[s] /\ stored'[s] = stored[s] /\ quotes'[s] = quotes[s]
    /\ summary'[s] = summary[s] /\ assets'[s] = assets[s] /\ pc'[s] = pc[s]
    /\ requirements'[s] = requirements[s] /\ cursor'[s] = cursor[s] /\ rows'[s] = rows[s]
    /\ reply'[s] = reply[s]

\* Every per-run variable is a function on the runs.
Domains ==
    /\ DOMAIN status = Runs /\ DOMAIN stored = Runs /\ DOMAIN quotes = Runs
    /\ DOMAIN summary = Runs /\ DOMAIN assets = Runs /\ DOMAIN pc = Runs
    /\ DOMAIN requirements = Runs /\ DOMAIN cursor = Runs /\ DOMAIN rows = Runs
    /\ DOMAIN reply = Runs

LEMMA HandlerFrame ==
    ASSUME Domains, NEW r \in Runs, Handle(r) \/ Kill(r)
    PROVE  reader' = reader /\ \A s \in Runs \ {r} : Same(s)
<1> SUFFICES ASSUME NEW s \in Runs, s # r PROVE reader' = reader /\ Same(s)
  <2>1. reader' = reader
    BY DEF Handle, Kill, Receive, UpsertOrganization, CreateAssets, CreateAsset, CreateRunRecord,
           Extract, Retrieve, Compile, PersistRows, PersistQuotes, CompleteRun, FailRun
  <2> QED
    BY <2>1
<1> USE DEF Same, Domains, store, graph, Throw, Goto, Answer
<1>1. CASE Receive(r)
  BY <1>1 DEF Receive
<1>2. CASE UpsertOrganization(r)
  BY <1>2 DEF UpsertOrganization
<1>3. CASE CreateAssets(r)
  BY <1>3 DEF CreateAssets, CreateAsset, Statement
<1>4. CASE CreateRunRecord(r)
  BY <1>4 DEF CreateRunRecord, Statement, CreateRun
<1>5. CASE Extract(r)
  BY <1>5 DEF Extract
<1>6. CASE Retrieve(r)
  BY <1>6 DEF Retrieve
<1>7. CASE Compile(r)
  BY <1>7 DEF Compile
<1>8. CASE PersistRows(r)
  BY <1>8 DEF PersistRows, Statement, InsertRows
<1>9. CASE PersistQuotes(r)
  BY <1>9 DEF PersistQuotes, Statement, InsertQuotes
<1>10. CASE CompleteRun(r)
  BY <1>10 DEF CompleteRun, Statement, MarkComplete
<1>11. CASE FailRun(r)
  BY <1>11 DEF FailRun, Statement, MarkFailed
<1>12. CASE Kill(r)
  BY <1>12 DEF Kill
<1> QED
  BY <1>1, <1>2, <1>3, <1>4, <1>5, <1>6, <1>7, <1>8, <1>9, <1>10, <1>11, <1>12 DEF Handle

(***************************************************************************)
(* Type correctness.                                                       *)
(***************************************************************************)

\* The types without the bound on the cursor, which needs the invariant.
Types ==
    /\ StoreTypeOK
    /\ assets \in [Runs -> SUBSET Assets]
    /\ pc \in [Runs -> PC]
    /\ requirements \in [Runs -> 0..MaxRequirements]
    /\ cursor \in [Runs -> Nat]
    /\ rows \in [Runs -> Seq(Rows)]
    /\ reply \in [Runs -> Replies]
    /\ reader.state \in {"idle", "run", "done"}
    /\ reader.state # "idle" => reader.run \in Runs /\ reader.status \in Statuses

LEMMA RejectedType ==
    ASSUME NEW matrix \in Seq(Rows) PROVE RejectedOf(matrix) \in SUBSET Nat
  BY DEF RejectedOf

LEMMA AppendType ==
    ASSUME NEW S, NEW seq \in Seq(S), NEW elt \in S
    PROVE  Append(seq, elt) \in Seq(S) /\ Len(Append(seq, elt)) = Len(seq) + 1 /\ Len(seq) \in Nat
           /\ Append(seq, elt) # <<>>
  BY AppendProperties

PcTypes == pc \in [Runs -> PC] /\ reply \in [Runs -> Replies]

\* Wherever control goes, it stays typed.
LEMMA ControlTypes ==
    ASSUME PcTypes, NEW r \in Runs
    PROVE  /\ \A next \in PC : Goto(r, next) => PcTypes'
           /\ \A what \in Replies : Answer(r, what) => PcTypes'
           /\ Throw(r) => PcTypes'
<1>1. \A next \in PC : Goto(r, next) => PcTypes'
  BY DEF PcTypes, Goto
<1>2. \A what \in Replies : Answer(r, what) => PcTypes'
  BY DEF PcTypes, Answer, PC
<1>3. Throw(r) => PcTypes'
  BY <1>1, <1>2 DEF Throw, PC, Replies
<1> QED
  BY <1>1, <1>2, <1>3

TableTypes ==
    /\ StoreTypeOK
    /\ assets \in [Runs -> SUBSET Assets]

GraphTypes ==
    /\ requirements \in [Runs -> 0..MaxRequirements]
    /\ cursor \in [Runs -> Nat]
    /\ rows \in [Runs -> Seq(Rows)]

LEMMA HandlerTypes ==
    ASSUME Types, NEW r \in Runs, Handle(r) \/ Kill(r) PROVE Types'
<1>1. PcTypes /\ TableTypes /\ GraphTypes
  BY DEF Types, PcTypes, TableTypes, GraphTypes
<1>2. PcTypes'
  <2> USE <1>1, ControlTypes DEF PC, Before, Inside, Replies
  <2>1. CASE Receive(r)
    BY <2>1 DEF Receive
  <2>2. CASE UpsertOrganization(r) \/ Retrieve(r) \/ Kill(r)
    BY <2>2 DEF UpsertOrganization, Retrieve, Kill
  <2>3. CASE CreateAssets(r) \/ CreateRunRecord(r)
    BY <2>3 DEF CreateAssets, CreateAsset, CreateRunRecord, Statement
  <2>4. CASE Extract(r) \/ Compile(r)
    <3>1. \A at, matrix : HasMore(r, at, matrix) \in PC
      BY DEF HasMore, AfterGraph
    <3> QED
      BY <2>4, <3>1 DEF Extract, Compile
  <2>5. CASE PersistRows(r) \/ PersistQuotes(r) \/ CompleteRun(r) \/ FailRun(r)
    BY <2>5 DEF PersistRows, PersistQuotes, CompleteRun, FailRun, Statement
  <2> QED
    BY <2>1, <2>2, <2>3, <2>4, <2>5 DEF Handle
<1>3. GraphTypes'
  <2> USE <1>1 DEF GraphTypes, graph
  <2>1. CASE Receive(r) \/ UpsertOrganization(r) \/ Retrieve(r) \/ Kill(r) \/ CreateAssets(r)
             \/ CreateRunRecord(r) \/ PersistRows(r) \/ PersistQuotes(r) \/ CompleteRun(r)
             \/ FailRun(r)
    BY <2>1 DEF Receive, UpsertOrganization, Retrieve, Kill, CreateAssets, CreateAsset,
                CreateRunRecord, PersistRows, PersistQuotes, CompleteRun, FailRun
  <2>2. CASE Extract(r)
    <3>1. CASE \E n \in 0..MaxRequirements : requirements' = [requirements EXCEPT ![r] = n]
      <4>1. requirements' \in [Runs -> 0..MaxRequirements]
        BY <3>1
      <4>2. cursor' = [cursor EXCEPT ![r] = 0] \/ cursor' = cursor
        BY <2>2 DEF Extract
      <4>3. rows' = rows
        BY <2>2 DEF Extract
      <4> QED
        BY <4>1, <4>2, <4>3
    <3>2. CASE UNCHANGED graph
      BY <3>2
    <3> QED
      BY <2>2, <3>1, <3>2 DEF Extract
  <2>3. CASE Compile(r)
    <3>1. CASE /\ \E row \in Rows : rows' = [rows EXCEPT ![r] = Append(@, row)]
               /\ cursor' = [cursor EXCEPT ![r] = @ + 1]
               /\ UNCHANGED requirements
      <4>1. PICK row \in Rows : rows' = [rows EXCEPT ![r] = Append(@, row)]
        BY <3>1
      <4>2. Append(rows[r], row) \in Seq(Rows)
        BY AppendType
      <4>3. rows' \in [Runs -> Seq(Rows)]
        BY <4>1, <4>2
      <4> QED
        BY <3>1, <4>3
    <3>2. CASE UNCHANGED graph
      BY <3>2
    <3> QED
      BY <2>3, <3>1, <3>2 DEF Compile
  <2> QED
    BY <2>1, <2>2, <2>3 DEF Handle
<1>4. TableTypes'
  <2>1. CASE UNCHANGED <<store, assets>>
    BY <1>1, <2>1 DEF TableTypes, StoreTypeOK, store
  <2>2. CASE CreateRun(r) /\ UNCHANGED assets
    BY <1>1, <2>2 DEF TableTypes, StoreTypeOK, CreateRun, Statuses
  <2>3. CASE InsertRows(r, rows[r]) /\ UNCHANGED assets
    <3>1. rows[r] \in Seq(Rows)
      BY <1>1 DEF GraphTypes
    <3>2. stored' \in [Runs -> Seq(Rows)]
      BY <1>1, <2>3, <3>1 DEF TableTypes, StoreTypeOK, InsertRows
    <3> QED
      BY <1>1, <2>3, <3>2 DEF TableTypes, StoreTypeOK, InsertRows
  <2>4. CASE InsertQuotes(r, rows[r]) /\ UNCHANGED assets
    <3>1. RejectedOf(rows[r]) \in SUBSET Nat
      BY <1>1, RejectedType DEF GraphTypes
    <3>2. quotes' \in [Runs -> SUBSET Nat]
      BY <1>1, <2>4, <3>1 DEF TableTypes, StoreTypeOK, InsertQuotes
    <3> QED
      BY <1>1, <2>4, <3>2 DEF TableTypes, StoreTypeOK, InsertQuotes
  <2>5. CASE MarkComplete(r, Report(rows[r])) /\ UNCHANGED assets
    BY <1>1, <2>5 DEF TableTypes, StoreTypeOK, MarkComplete, Statuses
  <2>6. CASE MarkFailed(r) /\ UNCHANGED assets
    BY <1>1, <2>6 DEF TableTypes, StoreTypeOK, MarkFailed, Statuses
  <2>7. CASE UNCHANGED store /\ \E kind \in Assets : assets' = [assets EXCEPT ![r] = @ \cup {kind}]
    BY <1>1, <2>7 DEF TableTypes, StoreTypeOK, store
  <2> QED
    BY <2>1, <2>2, <2>3, <2>4, <2>5, <2>6, <2>7
       DEF Handle, Receive, UpsertOrganization, Retrieve, Kill, CreateAssets, CreateAsset,
           CreateRunRecord, PersistRows, PersistQuotes, CompleteRun, FailRun, Extract, Compile,
           Statement, Assets
<1>5. UNCHANGED reader
  BY HandlerFrame DEF Domains, Types, StoreTypeOK
<1> QED
  BY <1>2, <1>3, <1>4, <1>5 DEF Types, PcTypes, TableTypes, GraphTypes

\* Every variable keeps its type.
LEMMA TypesInvariant == Spec => []Types
<1>1. Init => Types
  BY RunAssumption DEF Init, StoreInit, Types, StoreTypeOK, Statuses, PC, Before, Assets, Replies
<1>2. Types /\ [Next]_vars => Types'
  <2> SUFFICES ASSUME Types, [Next]_vars PROVE Types'
    OBVIOUS
  <2>1. CASE \E r \in Runs : Handle(r) \/ Kill(r)
    BY <2>1, HandlerTypes
  <2>2. CASE ReadRun
    BY <2>2 DEF ReadRun, Idle, Types, StoreTypeOK, store, graph
  <2>3. CASE ReadRows
    BY <2>3 DEF ReadRows, Types, StoreTypeOK, store, graph
  <2>4. CASE UNCHANGED vars
    BY <2>4 DEF vars, Types, StoreTypeOK
  <2> QED
    BY <2>1, <2>2, <2>3, <2>4 DEF Next
<1> QED
  BY <1>1, <1>2, PTL DEF Spec

(***************************************************************************)
(* The invariant is inductive.  First the runs a step leaves alone, then   *)
(* the run whose handler goes on, then the reader.                         *)
(***************************************************************************)
LEMMA OtherRuns ==
    ASSUME NEW s \in Runs, RunInv(s), Same(s) PROVE RunInv(s)'
<1> USE DEF Same
<1>1. Progress(s)' /\ Saved(s)'
  BY DEF RunInv, Progress, Saved
<1>2. Recorded(s)' /\ Answered(s)'
  BY DEF RunInv, Recorded, Answered
<1> QED
  BY <1>1, <1>2 DEF RunInv

\* An exception before a statement took effect, anywhere in the handler.
LEMMA ThrowKeeps ==
    ASSUME Types, NEW r \in Runs, RunInv(r), pc[r] \in Before \cup Inside \cup {"markFailed"},
           Throw(r), UNCHANGED <<store, assets, graph>>
    PROVE  RunInv(r)'
<1> USE DEF Types, StoreTypeOK, store, graph, Throw, Goto, Answer, RunInv, Untouched, Looping,
            Saving, Over, Before, Inside
<1>1. Progress(r)'
  BY DEF Progress
<1>2. Saved(r)'
  BY DEF Saved
<1>3. Recorded(r)'
  BY DEF Recorded
<1>4. Answered(r)'
  BY DEF Answered
<1> QED
  BY <1>1, <1>2, <1>3, <1>4

LEMMA RequestKeeps ==
    ASSUME Types, NEW r \in Runs, RunInv(r),
           Receive(r) \/ UpsertOrganization(r) \/ CreateAssets(r) \/ CreateRunRecord(r) \/ Kill(r)
           \/ Retrieve(r)
    PROVE  RunInv(r)'
<1> USE DEF Types, StoreTypeOK, store, graph, Throw, Goto, Answer, RunInv, Untouched, Looping,
            Saving, Over, Before, Inside, Assets
<1>1. Progress(r)'
  BY DEF Progress, Receive, UpsertOrganization, CreateAssets, CreateAsset, CreateRunRecord, Kill,
         Statement, CreateRun, Retrieve
<1>2. Saved(r)'
  BY DEF Saved, Receive, UpsertOrganization, CreateAssets, CreateAsset, CreateRunRecord, Kill,
         Statement, CreateRun, Retrieve
<1>3. Recorded(r)'
  BY DEF Recorded, Receive, UpsertOrganization, CreateAssets, CreateAsset, CreateRunRecord, Kill,
         Statement, CreateRun, Retrieve
<1>4. Answered(r)'
  BY DEF Answered, Recorded, Receive, UpsertOrganization, CreateAssets, CreateAsset,
         CreateRunRecord, Kill, Statement, CreateRun, Retrieve
<1> QED
  BY <1>1, <1>2, <1>3, <1>4

LEMMA ExtractKeeps ==
    ASSUME Types, NEW r \in Runs, RunInv(r), Extract(r) PROVE RunInv(r)'
<1> USE DEF Types, StoreTypeOK
<1>1. pc[r] = "extract" /\ rows[r] = <<>> /\ stored[r] = <<>> /\ quotes[r] = {}
      /\ status[r] = "running" /\ assets[r] = Assets /\ reply[r] = "none"
  BY DEF Extract, RunInv, Progress, Saved, Recorded, Answered, Untouched, Inside, Before
<1>2. CASE Throw(r) /\ UNCHANGED <<requirements, cursor>>
  BY <1>1, <1>2, ThrowKeeps DEF Extract, Inside, graph
<1>3. CASE ~(Throw(r) /\ UNCHANGED <<requirements, cursor>>)
  <2>1. PICK n \in 0..MaxRequirements : requirements' = [requirements EXCEPT ![r] = n]
    BY <1>3 DEF Extract
  <2>2. requirements'[r] = n /\ cursor'[r] = 0 /\ rows'[r] = <<>> /\ n \in Nat
    BY <1>1, <1>3, <2>1, RunAssumption DEF Extract
  <2>3. pc'[r] = (IF 0 < n THEN "retrieve" ELSE "markComplete") /\ reply' = reply
    BY <1>1, <1>3, <2>2 DEF Extract, Goto, HasMore, AfterGraph
  <2>4. UNCHANGED <<status, stored, quotes, summary, assets>>
    BY DEF Extract, store
  <2>5. RejectedOf(<<>>) = {}
    BY DEF RejectedOf
  <2>6. Progress(r)'
    BY <2>2, <2>3 DEF Progress, Untouched, Looping, Saving, Before
  <2>7. Saved(r)'
    BY <1>1, <2>2, <2>3, <2>4, <2>5 DEF Saved, Untouched, Looping, Before
  <2>8. Recorded(r)' /\ Answered(r)'
    BY <1>1, <2>3, <2>4 DEF Recorded, Answered, Before, Inside, Over
  <2> QED
    BY <2>6, <2>7, <2>8 DEF RunInv
<1> QED
  BY <1>2, <1>3

LEMMA CompileKeeps ==
    ASSUME Types, NEW r \in Runs, RunInv(r), Compile(r) PROVE RunInv(r)'
<1> USE DEF Types, StoreTypeOK
<1>1. pc[r] = "compile" /\ Len(rows[r]) = cursor[r] /\ cursor[r] < requirements[r]
      /\ stored[r] = <<>> /\ quotes[r] = {}
      /\ status[r] = "running" /\ assets[r] = Assets /\ reply[r] = "none"
  <2>1. pc[r] = "compile"
    BY DEF Compile
  <2>2. Len(rows[r]) = cursor[r] /\ cursor[r] < requirements[r]
    BY <2>1 DEF RunInv, Progress, Looping
  <2>3. stored[r] = <<>> /\ quotes[r] = {}
    BY <2>1 DEF RunInv, Saved, Looping
  <2>4. status[r] = "running" /\ assets[r] = Assets /\ reply[r] = "none"
    BY <2>1 DEF RunInv, Recorded, Answered, Inside
  <2> QED
    BY <2>1, <2>2, <2>3, <2>4
<1>2. CASE Throw(r) /\ UNCHANGED graph
  BY <1>1, <1>2, ThrowKeeps DEF Compile, Inside
<1>3. CASE ~(Throw(r) /\ UNCHANGED graph)
  <2>1. PICK row \in Rows : rows' = [rows EXCEPT ![r] = Append(@, row)]
    BY <1>3 DEF Compile
  <2>2. rows'[r] # <<>> /\ Len(rows'[r]) = cursor[r] + 1
    <3>1. rows'[r] = Append(rows[r], row)
      BY <2>1
    <3>2. rows[r] \in Seq(Rows)
      OBVIOUS
    <3>3. Append(rows[r], row) # <<>> /\ Len(Append(rows[r], row)) = Len(rows[r]) + 1
      BY <3>2, AppendType
    <3> QED
      BY <1>1, <3>1, <3>3
  <2>3. cursor'[r] = cursor[r] + 1 /\ requirements' = requirements /\ cursor[r] \in Nat
        /\ requirements[r] \in Nat
    BY <1>3, RunAssumption DEF Compile
  <2>4. pc'[r] = (IF cursor'[r] < requirements[r] THEN "retrieve" ELSE "insertRows")
        /\ reply' = reply
    BY <1>3, <2>2, <2>3 DEF Compile, Goto, HasMore, AfterGraph
  <2>5. UNCHANGED <<status, stored, quotes, summary, assets>>
    BY DEF Compile, store
  <2>6. Progress(r)'
    BY <1>1, <2>2, <2>3, <2>4 DEF Progress, Untouched, Looping, Saving, Before
  <2>7. Saved(r)'
    BY <1>1, <2>4, <2>5 DEF Saved, Untouched, Looping, Before
  <2>8. Recorded(r)' /\ Answered(r)'
    BY <1>1, <2>4, <2>5 DEF Recorded, Answered, Before, Inside, Over
  <2> QED
    BY <2>6, <2>7, <2>8 DEF RunInv
<1> QED
  BY <1>2, <1>3

LEMMA PersistKeeps ==
    ASSUME Types, NEW r \in Runs, RunInv(r), PersistRows(r) \/ PersistQuotes(r)
    PROVE  RunInv(r)'
<1> USE DEF Types, StoreTypeOK
<1>1. pc[r] \in {"insertRows", "insertQuotes"} /\ cursor[r] = requirements[r]
      /\ status[r] = "running" /\ assets[r] = Assets /\ reply[r] = "none"
  BY DEF PersistRows, PersistQuotes, RunInv, Progress, Recorded, Answered, Saving, Inside
<1>2. CASE UNCHANGED <<store, assets>> /\ Throw(r)
  BY <1>1, <1>2, ThrowKeeps DEF PersistRows, PersistQuotes, Inside
<1>3. CASE ~(UNCHANGED <<store, assets>> /\ Throw(r))
  <2>1. UNCHANGED <<status, summary, assets, graph, reply>>
    BY <1>1, <1>3 DEF PersistRows, PersistQuotes, Statement, InsertRows, InsertQuotes, Throw, Goto, Inside
  <2>2. pc'[r] \in {"insertQuotes", "markComplete", "markFailed"}
    BY <1>1, <1>3 DEF PersistRows, PersistQuotes, Statement, Throw, Goto, Inside
  <2>3. Progress(r)'
    BY <1>1, <2>1, <2>2 DEF RunInv, Progress, graph, Untouched, Looping, Saving, Before
  <2>4. Recorded(r)' /\ Answered(r)'
    BY <1>1, <2>1, <2>2 DEF Recorded, Answered, Before, Inside, Over
  <2>5. stored'[r] = rows'[r]
    BY <1>3, <2>1 DEF PersistRows, PersistQuotes, Statement, InsertRows, InsertQuotes, graph, RunInv, Saved
  <2>6. pc'[r] = "insertQuotes" => quotes'[r] = {}
    BY <1>3 DEF PersistRows, PersistQuotes, Statement, InsertRows, Throw, Goto, Inside, RunInv, Saved
  <2>7. pc'[r] = "markComplete" => quotes'[r] = RejectedOf(rows[r])
    BY <1>3 DEF PersistRows, PersistQuotes, Statement, InsertRows, InsertQuotes, Throw, Goto, Inside,
                RunInv, Saved
  <2>8. Saved(r)'
    BY <1>1, <2>1, <2>2, <2>5, <2>6, <2>7 DEF Saved, graph, Untouched, Looping, Before
  <2> QED
    BY <2>3, <2>4, <2>8 DEF RunInv
<1> QED
  BY <1>2, <1>3

LEMMA CompleteKeeps ==
    ASSUME Types, NEW r \in Runs, RunInv(r), CompleteRun(r) PROVE RunInv(r)'
<1> USE DEF Types, StoreTypeOK
<1>1. pc[r] = "markComplete" /\ cursor[r] = requirements[r] /\ stored[r] = rows[r]
      /\ quotes[r] = RejectedOf(stored[r]) /\ assets[r] = Assets /\ reply[r] = "none"
  BY DEF CompleteRun, RunInv, Progress, Saved, Recorded, Answered, Saving, Inside
<1>2. CASE UNCHANGED <<store, assets>> /\ Throw(r)
  BY <1>1, <1>2, ThrowKeeps DEF CompleteRun, Inside
<1>3. CASE MarkComplete(r, Report(rows[r])) /\ UNCHANGED assets /\ (Answer(r, "ok") \/ Throw(r))
  <2>1. UNCHANGED <<stored, quotes, assets, graph>>
    BY <1>3 DEF MarkComplete, CompleteRun
  <2>2. status'[r] = "complete" /\ summary'[r] = Report(rows[r])
    BY <1>3 DEF MarkComplete
  <2>3. \/ pc'[r] = "answered" /\ reply'[r] = "ok"
        \/ pc'[r] = "markFailed" /\ reply'[r] = "none"
    BY <1>1, <1>3 DEF Answer, Throw, Goto, Inside
  <2>4. Progress(r)'
    BY <1>1, <2>1, <2>3 DEF RunInv, Progress, graph, Untouched, Looping, Saving, Before
  <2>5. Saved(r)'
    BY <1>1, <2>1, <2>3 DEF Saved, graph, Untouched, Looping, Before
  <2>6. Recorded(r)' /\ Answered(r)'
    BY <1>1, <2>1, <2>2, <2>3 DEF Recorded, Answered, graph, Before, Inside, Over
  <2> QED
    BY <2>4, <2>5, <2>6 DEF RunInv
<1> QED
  BY <1>2, <1>3 DEF CompleteRun, Statement

LEMMA FailKeeps ==
    ASSUME Types, NEW r \in Runs, RunInv(r), FailRun(r) PROVE RunInv(r)'
<1> USE DEF Types, StoreTypeOK
<1>1. pc[r] = "markFailed" /\ assets[r] = Assets /\ reply[r] = "none"
  BY DEF FailRun, RunInv, Recorded, Answered
<1>2. CASE UNCHANGED <<store, assets>> /\ Throw(r)
  BY <1>1, <1>2, ThrowKeeps DEF FailRun
<1>3. CASE MarkFailed(r) /\ UNCHANGED assets /\ (Answer(r, "failed") \/ Throw(r))
  <2>1. UNCHANGED <<stored, quotes, summary, assets, graph>>
    BY <1>3 DEF MarkFailed, FailRun
  <2>2. status'[r] = "failed"
    BY <1>3 DEF MarkFailed
  <2>3. pc'[r] = "answered" /\ reply'[r] \in {"failed", "unhandled"}
    BY <1>1, <1>3 DEF Answer, Throw, Goto, Inside
  <2>4. Progress(r)'
    BY <1>1, <2>1, <2>3 DEF RunInv, Progress, graph, Untouched, Looping, Saving, Before
  <2>5. Saved(r)'
    BY <1>1, <2>1, <2>3 DEF RunInv, Saved, graph, Untouched, Looping, Before
  <2>6. Recorded(r)' /\ Answered(r)'
    BY <1>1, <2>1, <2>2, <2>3 DEF Recorded, Answered, Before, Inside
  <2> QED
    BY <2>4, <2>5, <2>6 DEF RunInv
<1> QED
  BY <1>2, <1>3 DEF FailRun, Statement

\* Whatever the handler does, the invariant of its run survives.
LEMMA HandlerKeeps ==
    ASSUME Types, NEW r \in Runs, RunInv(r), Handle(r) \/ Kill(r) PROVE RunInv(r)'
  BY RequestKeeps, ExtractKeeps, CompileKeeps, PersistKeeps, CompleteKeeps, FailKeeps DEF Handle

\* ... and what a reader has seen of it stays true: a complete run, or one whose
\* rows are stored, has left the loop for good.
LEMMA ReaderKeeps ==
    ASSUME Types, Inv, NEW r \in Runs, Handle(r) \/ Kill(r) PROVE ReaderInv'
<1>1. reader' = reader /\ \A s \in Runs \ {r} : Same(s)
  BY HandlerFrame DEF Types, StoreTypeOK, Domains
<1>2. CASE reader.state = "idle"
  BY <1>1, <1>2 DEF ReaderInv
<1>3. CASE reader.state # "idle" /\ reader.run # r
  BY <1>1, <1>3 DEF ReaderInv, Inv, Same, Types
<1>4. CASE reader.state # "idle" /\ reader.run = r
  <2>1. RunInv(r) /\ RunInv(r)'
    BY HandlerKeeps DEF Inv
  <2>2. pc[r] \in Over => /\ pc'[r] \in Over /\ stored'[r] = stored[r]
                         /\ requirements'[r] = requirements[r] /\ summary'[r] = summary[r]
    BY DEF Over, Inside, Before, Handle, Receive, UpsertOrganization, CreateAssets, CreateAsset, CreateRunRecord,
           Extract, Retrieve, Compile, PersistRows, PersistQuotes, CompleteRun, FailRun, Kill,
           Statement, MarkFailed, Goto, Answer, Throw, store, graph, Types, StoreTypeOK
  <2>3. stored[r] # <<>> => stored'[r] = stored[r]
    BY <2>1 DEF RunInv, Saved, Looping, Untouched, Over, Inside, Before, Handle, Receive, UpsertOrganization, CreateAssets, CreateAsset, CreateRunRecord,
           Extract, Retrieve, Compile, PersistRows, PersistQuotes, CompleteRun, FailRun, Kill,
           Statement, MarkFailed, MarkComplete, InsertRows, InsertQuotes, CreateRun, store, Types, StoreTypeOK
  <2> QED
    BY <1>1, <1>4, <2>2, <2>3 DEF ReaderInv, Inv
<1> QED
  BY <1>2, <1>3, <1>4

LEMMA ReaderStepKeeps ==
    ASSUME Types, Inv, ReadRun \/ ReadRows PROVE Inv'
<1>1. \A s \in Runs : Same(s)
  BY DEF ReadRun, ReadRows, Same, store, graph
<1>2. \A s \in Runs : RunInv(s)'
  BY <1>1, OtherRuns DEF Inv
<1>3. \A s \in Runs : status[s] = "complete" =>
         pc[s] \in Over /\ Len(stored[s]) = requirements[s] /\ summary[s] = Report(stored[s])
  BY DEF Inv, RunInv, Recorded, Progress
<1>4. CASE ReadRun
  <2>1. CASE reader' = Idle
    <3>1. reader'.state = "idle"
      BY <2>1 DEF Idle
    <3> QED
      BY <1>2, <3>1 DEF ReaderInv, Inv
  <2>2. CASE \E r \in Runs : reader' = [state |-> "run", run |-> r, status |-> status[r],
                                       summary |-> summary[r]]
    <3>1. PICK r \in Runs : reader' = [state |-> "run", run |-> r, status |-> status[r],
                                       summary |-> summary[r]]
      BY <2>2
    <3>2. reader'.state = "run" /\ reader'.run = r /\ reader'.status = status[r]
          /\ reader'.summary = summary[r]
      BY <3>1
    <3>3. Same(r)
      BY <1>1
    <3> QED
      BY <1>2, <1>3, <3>2, <3>3 DEF ReaderInv, Same, Inv
  <2> QED
    BY <1>4, <2>1, <2>2 DEF ReadRun
<1>5. CASE ReadRows
  <2>1. reader.state = "run" /\ reader.run \in Runs
        /\ reader' = [state |-> "done", run |-> reader.run, status |-> reader.status,
                      summary |-> reader.summary, rows |-> stored[reader.run]]
    BY <1>5 DEF ReadRows, Types
  <2>2. ReaderInv'
    BY <1>1, <2>1 DEF ReaderInv, Inv, Same
  <2> QED
    BY <1>2, <2>2 DEF Inv
<1> QED
  BY <1>4, <1>5

LEMMA InitInv == Init => Inv
<1> SUFFICES ASSUME Init PROVE Inv
  OBVIOUS
<1>1. ReaderInv
  BY DEF Init, ReaderInv
<1>2. ASSUME NEW r \in Runs PROVE RunInv(r)
  BY <1>2 DEF Init, StoreInit, RunInv, Progress, Saved, Recorded, Answered, Before, Inside, Untouched,
         Looping, Saving, Over
<1> QED
  BY <1>1, <1>2 DEF Inv

LEMMA StepInv == Types /\ Inv /\ [Next]_vars => Inv'
<1> SUFFICES ASSUME Types, Inv, [Next]_vars PROVE Inv'
  OBVIOUS
<1>1. ASSUME NEW r \in Runs, Handle(r) \/ Kill(r) PROVE Inv'
  <2>1. \A s \in Runs \ {r} : Same(s)
    BY <1>1, HandlerFrame DEF Types, StoreTypeOK, Domains
  <2>2. \A s \in Runs : RunInv(s)'
    BY <1>1, <2>1, OtherRuns, HandlerKeeps DEF Inv
  <2> QED
    BY <1>1, <2>2, ReaderKeeps DEF Inv
<1>2. CASE ReadRun \/ ReadRows
  BY <1>2, ReaderStepKeeps
<1>3. CASE UNCHANGED vars
  <2>1. \A s \in Runs : Same(s)
    BY <1>3 DEF vars, Same
  <2>2. ReaderInv'
    BY <1>3 DEF vars, Inv, ReaderInv
  <2> QED
    BY <2>1, <2>2, OtherRuns DEF Inv
<1> QED
  BY <1>1, <1>2, <1>3 DEF Next

(***************************************************************************)
(* The theorems.                                                           *)
(***************************************************************************)

\* The graph, the tables and the answer of every run stay consistent with the
\* point its handler has reached, and a reader with the run it has read.
THEOREM RunInvariant == Spec => [](Types /\ Inv)
<1>1. Init => Inv
  BY InitInv
<1>2. Types /\ Inv /\ [Next]_vars => Inv'
  BY StepInv
<1> QED
  BY <1>1, <1>2, TypesInvariant, PTL DEF Spec

\* Every variable keeps its type, and the cursor never passes the requirements.
THEOREM TypeCorrect == Spec => []TypeOK
<1>1. Types /\ Inv => TypeOK
  BY DEF Types, Inv, RunInv, Progress, TypeOK
<1> QED
  BY <1>1, RunInvariant, PTL

\* A run marked complete is whole (CompleteIsWhole), whatever else failed.
THEOREM CompleteWhole == Spec => []CompleteIsWhole
<1>1. Types /\ Inv => CompleteIsWhole
  BY DEF Inv, RunInv, Recorded, Progress, CompleteIsWhole
<1> QED
  BY <1>1, RunInvariant, PTL

\* The client is told what is recorded (ReplyMatchesRecord).
THEOREM RepliesTrue == Spec => []ReplyMatchesRecord
<1>1. Types /\ Inv => ReplyMatchesRecord
  BY DEF Inv, RunInv, Answered, ReplyMatchesRecord
<1> QED
  BY <1>1, RunInvariant, PTL

\* Two queries of a reader see a whole matrix or none (ReadersSeeWhole).
THEOREM ReadersWhole == Spec => []ReadersSeeWhole
<1>1. Types /\ Inv => ReadersSeeWhole
  <2> SUFFICES ASSUME Types, Inv, reader.state = "done"
               PROVE  /\ reader.rows # <<>> => Len(reader.rows) = requirements[reader.run]
                      /\ reader.status = "complete" => reader.summary = Report(reader.rows)
                                                      /\ reader.rows = stored[reader.run]
    BY DEF ReadersSeeWhole
  <2>1. reader.run \in Runs
    BY DEF Types
  <2>2. stored[reader.run] # <<>> => Len(stored[reader.run]) = requirements[reader.run]
    BY <2>1 DEF Inv, RunInv, Saved, Progress
  <2> QED
    BY <2>2 DEF Inv, ReaderInv
<1> QED
  BY <1>1, RunInvariant, PTL

\* The cards of a complete run's page count its pills, the dashboard repeats
\* them, and the sheet agrees (PagesAgree).  No verdict may be spelt like the
\* pill of a row in review.
THEOREM PagesTell == "needs_review" \notin RowVerdict => (Spec => []PagesAgree)
<1> SUFFICES ASSUME "needs_review" \notin RowVerdict PROVE Spec => []PagesAgree
  OBVIOUS
<1>1. Types /\ Inv /\ ReadersSeeWhole => PagesAgree
  <2> SUFFICES ASSUME Types, Inv, ReadersSeeWhole, reader.state = "done" PROVE PagesAgree
    BY DEF PagesAgree
  <2> DEFINE matrix == reader.rows
             pills  == [i \in 1..Len(matrix) |-> DisplayVerdict(matrix[i])]
  <2>1. Page.pills = pills /\ Page.status = reader.status
    BY DEF Page
  <2>2. reader.run \in Runs /\ stored[reader.run] \in Seq(Rows)
    BY DEF Types, StoreTypeOK
  <2>3. matrix # <<>> => matrix = stored[reader.run] /\ Len(matrix) = requirements[reader.run]
    BY DEF Inv, ReaderInv, ReadersSeeWhole
  <2>4. matrix \in Seq(Rows)
    <3>1. CASE matrix # <<>>
      BY <2>2, <2>3, <3>1
    <3>2. CASE matrix = <<>>
      <4>1. <<>> \in Seq(Rows)
        OBVIOUS
      <4> QED
        BY <3>2, <4>1
    <3> QED
      BY <3>1, <3>2
  <2>5. Len(pills) = Len(matrix) /\ (pills # <<>> => matrix # <<>>)
    <3>1. Len(matrix) \in Nat /\ DOMAIN pills = 1..Len(matrix)
      BY <2>4
    <3>2. Len(pills) = Len(matrix)
      BY <3>1
    <3>3. matrix = <<>> => 1..Len(matrix) = {}
      BY <2>4
    <3>4. matrix = <<>> => pills = <<>>
      BY <3>3
    <3> QED
      BY <3>2, <3>4
  <2>6. CASE reader.status # "complete"
    BY <2>1, <2>3, <2>5, <2>6 DEF PagesAgree
  <2>7. CASE reader.status = "complete"
    <3>1. reader.summary = Report(matrix) /\ reader.summary = summary[reader.run]
      BY <2>7 DEF ReadersSeeWhole, Inv, ReaderInv
    <3>2. reader.summary # NoSummary /\ Page.cards = Report(matrix)
      BY <3>1 DEF Report, NoSummary, Page
    <3>3. \A i \in 1..Len(matrix) : matrix[i].verdict # "needs_review"
      BY <2>4, RowsAssumption DEF Promise!Row
    <3>4. \A what : Shown(what) = Cardinality({i \in 1..Len(matrix) : pills[i] = what})
      BY <2>1, <2>5 DEF Shown
    <3>5. \A what : what # "needs_review" => Shown(what) = CommittedWith(matrix, what)
      <4> SUFFICES ASSUME NEW what, what # "needs_review"
                   PROVE  Shown(what) = CommittedWith(matrix, what)
        OBVIOUS
      <4>1. {i \in 1..Len(matrix) : pills[i] = what}
              = {i \in 1..Len(matrix) : matrix[i].verdict = what /\ Promise!Committed(matrix[i])}
        BY DEF DisplayVerdict
      <4> QED
        BY <3>4, <4>1 DEF CommittedWith
    <3>6. Shown("needs_review") = NeedsReview(matrix)
      <4>1. {i \in 1..Len(matrix) : pills[i] = "needs_review"}
              = {i \in 1..Len(matrix) : ~Promise!Committed(matrix[i])}
        BY <3>3 DEF DisplayVerdict
      <4> QED
        BY <3>4, <4>1 DEF NeedsReview
    <3>7. NeedsReview(matrix) =
            Cardinality({i \in 1..Len(Sheet) : Sheet[i].confidence.kind = "review"})
      <4>1. Len(Sheet) = Len(matrix)
        <5>1. Len(matrix) \in Nat /\ DOMAIN Sheet = 1..Len(matrix)
          BY <2>4 DEF Sheet
        <5> QED
          BY <5>1 DEF Sheet
      <4>3. {i \in 1..Len(Sheet) : Sheet[i].confidence.kind = "review"}
              = {i \in 1..Len(matrix) : ~Promise!Committed(matrix[i])}
        BY <4>1 DEF Sheet
      <4> QED
        BY <4>3 DEF NeedsReview
    <3>8. Page.selected = 0 <=> Page.cards.total = 0
      BY <2>4, <3>2 DEF Page, Report
    <3>9. /\ Page.cards.total = Len(matrix) /\ Page.cards.gaps = Report(matrix).gaps
          /\ Page.cards.needsReview = NeedsReview(matrix)
      BY <3>2 DEF Report
    <3>10. DashboardLine(reader.run).counts
             = <<Page.cards.total, Page.cards.gaps, Page.cards.needsReview>>
      BY <3>1, <3>2 DEF DashboardLine
    <3>11. Page.cards = [total                |-> Len(Page.pills),
                         conformant           |-> Shown("conformant"),
                         gaps                 |-> Shown("gap"),
                         insufficientEvidence |-> Shown("insufficient_evidence"),
                         needsReview          |-> Shown("needs_review")]
      BY <2>1, <2>5, <3>2, <3>5, <3>6 DEF Report
    <3> QED
      BY <2>1, <2>3, <2>5, <3>7, <3>8, <3>9, <3>10, <3>11 DEF PagesAgree
  <2> QED
    BY <2>6, <2>7
<1> QED
  BY <1>1, RunInvariant, ReadersWhole, PTL

\* A matrix is stored at once, for a running run, and then never changes
\* (MatrixIsWrittenOnce).
THEOREM WrittenOnce == Spec => MatrixIsWrittenOnce
<1>1. Types /\ Inv /\ [Next]_vars =>
        [\A r \in Runs : stored'[r] # stored[r] =>
           stored[r] = <<>> /\ Len(stored'[r]) = requirements[r] /\ status[r] = "running"]_vars
  <2> SUFFICES ASSUME Types, Inv, [Next]_vars, NEW r \in Runs, stored'[r] # stored[r]
               PROVE  stored[r] = <<>> /\ Len(stored'[r]) = requirements[r] /\ status[r] = "running"
    OBVIOUS
  <2>1. PICK s \in Runs : Handle(s) \/ Kill(s)
    BY DEF Next, ReadRun, ReadRows, store, vars
  <2>2. r = s
    BY <2>1, HandlerFrame DEF Types, StoreTypeOK, Domains, Same
  <2>3. PersistRows(r)
    BY <2>1, <2>2 DEF Handle, Receive, UpsertOrganization, CreateAssets, CreateAsset, CreateRunRecord,
           Extract, Retrieve, Compile, PersistQuotes, CompleteRun, FailRun, Kill,
           Statement, MarkFailed, MarkComplete, InsertQuotes, CreateRun, store
  <2>4. stored'[r] = rows[r] /\ pc[r] = "insertRows"
    BY <2>3 DEF PersistRows, Statement, InsertRows, store, Types, StoreTypeOK
  <2>5. RunInv(r)
    BY DEF Inv
  <2> QED
    BY <2>4, <2>5 DEF RunInv, Progress, Saved, Recorded, Saving, Inside
<1> QED
  BY <1>1, RunInvariant, PTL DEF Spec, MatrixIsWrittenOnce

\* Nothing writes to a run whose client has been answered (FinalOnceAnswered).
THEOREM FinalAnswered == Spec => FinalOnceAnswered
<1> DEFINE Final == \A r \in Runs : reply[r] # "none" =>
          /\ status'[r] = status[r] /\ stored'[r] = stored[r] /\ quotes'[r] = quotes[r]
          /\ summary'[r] = summary[r] /\ reply'[r] = reply[r]
<1>1. Types /\ Inv /\ [Next]_vars => [Final]_vars
  <2> SUFFICES ASSUME Types, Inv, Next, NEW r \in Runs, reply[r] # "none" PROVE Same(r)
    BY DEF Same
  <2>1. pc[r] = "answered"
    BY DEF Inv, RunInv, Answered
  <2>2. ~Handle(r) /\ ~Kill(r)
    BY <2>1 DEF Handle, Receive, UpsertOrganization, CreateAssets, CreateAsset, CreateRunRecord,
           Extract, Retrieve, Compile, PersistRows, PersistQuotes, CompleteRun, FailRun, Kill
  <2>3. CASE \E s \in Runs : Handle(s) \/ Kill(s)
    BY <2>2, <2>3, HandlerFrame DEF Types, StoreTypeOK, Domains
  <2>4. CASE ReadRun \/ ReadRows
    BY <2>4 DEF ReadRun, ReadRows, Same, store, graph
  <2> QED
    BY <2>3, <2>4 DEF Next
<1> HIDE DEF Final
<1>2. Spec => [][Final]_vars
  BY <1>1, RunInvariant, PTL DEF Spec
<1> QED
  BY <1>2 DEF FinalOnceAnswered, Final

(***************************************************************************)
(* How far a run gets.                                                     *)
(***************************************************************************)

\* The nodes that have run are within the limit, while the loop goes on and after.
Fits(r) ==
    pc[r] \in Looping \cup Saving \/ status[r] = "complete" => 1 + 2 * cursor[r] <= RecursionLimit

LEMMA FitsKept ==
    ASSUME Types, NEW r \in Runs, RunInv(r), Fits(r), Handle(r) \/ Kill(r) PROVE Fits(r)'
<1> USE RunAssumption DEF Types, StoreTypeOK, store, graph
<1>1. CASE Extract(r)
  <2>1. pc[r] = "extract" /\ status[r] = "running" /\ status' = status
    BY <1>1 DEF Extract, RunInv, Recorded, Inside
  <2>2. CASE MayRunNode(r) /\ cursor' = [cursor EXCEPT ![r] = 0]
    BY <2>1, <2>2 DEF Fits, MayRunNode, NodesRun
  <2>3. CASE Throw(r)
    BY <2>1, <2>3 DEF Fits, Throw, Goto, Inside, Looping, Saving
  <2> QED
    BY <1>1, <2>2, <2>3 DEF Extract
<1>2. CASE Retrieve(r)
  BY <1>2 DEF Retrieve, Fits, Throw, Goto, Inside, Looping, Saving
<1>3. CASE Compile(r)
  <2>1. pc[r] = "compile" /\ status[r] = "running" /\ status' = status
    BY <1>3 DEF Compile, RunInv, Recorded, Inside
  <2>2. CASE MayRunNode(r) /\ cursor' = [cursor EXCEPT ![r] = @ + 1]
    <3>1. cursor'[r] = cursor[r] + 1 /\ 1 + 2 * cursor[r] + 1 < RecursionLimit
      BY <2>1, <2>2 DEF MayRunNode, NodesRun
    <3> QED
      BY <3>1 DEF Fits
  <2>3. CASE Throw(r)
    BY <2>1, <2>3 DEF Fits, Throw, Goto, Inside, Looping, Saving
  <2> QED
    BY <1>3, <2>2, <2>3 DEF Compile
<1>4. CASE PersistRows(r) \/ PersistQuotes(r)
  BY <1>4 DEF PersistRows, PersistQuotes, Statement, InsertRows, InsertQuotes, Fits, Throw, Goto,
              Inside, Looping, Saving
<1>5. CASE CompleteRun(r)
  BY <1>5 DEF CompleteRun, Statement, Fits, Saving
<1>6. CASE FailRun(r)
  BY <1>6 DEF FailRun, Statement, MarkFailed, Fits, Throw, Goto, Answer, Inside, Looping, Saving
<1>7. CASE Receive(r) \/ UpsertOrganization(r) \/ CreateAssets(r) \/ CreateRunRecord(r) \/ Kill(r)
  <2>1. status'[r] = "complete" => status[r] = "complete"
    BY <1>7 DEF Receive, UpsertOrganization, CreateAssets, CreateAsset, CreateRunRecord, CreateRun,
                Kill, Statement
  <2>2. pc'[r] \notin Looping \cup Saving /\ cursor' = cursor
    BY <1>7 DEF Receive, UpsertOrganization, CreateAssets, CreateAsset, CreateRunRecord,
                Kill, Statement, Throw, Goto, Answer, Inside, Looping, Saving
  <2> QED
    BY <2>1, <2>2 DEF Fits
<1> QED
  BY <1>1, <1>2, <1>3, <1>4, <1>5, <1>6, <1>7 DEF Handle

\* For any limit on the graph's nodes, no run completes with a matrix the limit
\* did not leave room for (CompleteIsWithinLimit).
THEOREM WithinLimit == Spec => []CompleteIsWithinLimit
<1> DEFINE AllFit == \A r \in Runs : Fits(r)
<1>1. Init => AllFit
  BY DEF Init, StoreInit, Fits, Looping, Saving
<1>2. Types /\ Inv /\ AllFit /\ [Next]_vars => AllFit'
  <2> SUFFICES ASSUME Types, Inv, AllFit, [Next]_vars, NEW s \in Runs PROVE Fits(s)'
    OBVIOUS
  <2>1. ASSUME Same(s) PROVE Fits(s)'
    BY <2>1 DEF Same, Fits
  <2>2. ASSUME NEW r \in Runs, Handle(r) \/ Kill(r) PROVE Fits(s)'
    <3>1. CASE s = r
      BY <2>2, <3>1, FitsKept DEF Inv
    <3>2. CASE s # r
      BY <2>1, <2>2, <3>2, HandlerFrame DEF Types, StoreTypeOK, Domains
    <3> QED
      BY <3>1, <3>2
  <2>3. CASE ReadRun \/ ReadRows \/ UNCHANGED vars
    BY <2>1, <2>3 DEF ReadRun, ReadRows, Same, store, graph, vars
  <2> QED
    BY <2>2, <2>3 DEF Next
<1>3. Inv /\ AllFit => CompleteIsWithinLimit
  BY DEF Inv, RunInv, Progress, Recorded, Fits, CompleteIsWithinLimit
<1> HIDE DEF AllFit
<1> QED
  BY <1>1, <1>2, <1>3, RunInvariant, PTL DEF Spec

\* The steps ahead, point by point.
LEMMA AheadAt ==
    ASSUME NEW togo
    PROVE  /\ Ahead("received", togo) = 2 * MaxRequirements + 10
           /\ Ahead("organization", togo) = 2 * MaxRequirements + 9
           /\ Ahead("standardAsset", togo) = 2 * MaxRequirements + 8
           /\ Ahead("implAsset", togo) = 2 * MaxRequirements + 7
           /\ Ahead("createRun", togo) = 2 * MaxRequirements + 6
           /\ Ahead("extract", togo) = 2 * MaxRequirements + 5
           /\ Ahead("retrieve", togo) = 2 * togo + 4
           /\ Ahead("compile", togo) = 2 * togo + 3
           /\ Ahead("insertRows", togo) = 4
           /\ Ahead("insertQuotes", togo) = 3
           /\ Ahead("markComplete", togo) = 2
           /\ Ahead("markFailed", togo) = 1
           /\ Ahead("answered", togo) = 0
           /\ Ahead("killed", togo) = 0
  BY DEF Ahead

\* Every step of a handler leaves it fewer steps to go.
LEMMA HandlerDescends ==
    ASSUME Types, NEW r \in Runs, RunInv(r), Handle(r) \/ Kill(r)
    PROVE  StepsLeft(r)' \in 0..(StepsLeft(r) - 1)
<1> DEFINE left  == requirements[r] - cursor[r]
           left2 == requirements'[r] - cursor'[r]
<1>1. /\ left \in 0..MaxRequirements /\ (pc[r] \in Looping => left > 0)
      /\ requirements[r] \in 0..MaxRequirements /\ MaxRequirements \in Nat
  BY RunAssumption DEF Types, RunInv, Progress
<1>2. /\ StepsLeft(r) = Ahead(pc[r], left) /\ StepsLeft(r)' = Ahead(pc'[r], left2)
      /\ DOMAIN pc = Runs
  BY DEF StepsLeft, Types
<1> USE DEF Throw, Goto, Answer, Before, Inside
<1>3. CASE Receive(r) \/ UpsertOrganization(r) \/ CreateAssets(r) \/ CreateRunRecord(r)
  <2>1. \/ pc[r] = "received"      /\ pc'[r] \in {"answered", "organization"}
        \/ pc[r] = "organization"  /\ pc'[r] \in {"answered", "standardAsset"}
        \/ pc[r] = "standardAsset" /\ pc'[r] \in {"answered", "implAsset"}
        \/ pc[r] = "implAsset"     /\ pc'[r] \in {"answered", "createRun"}
        \/ pc[r] = "createRun"     /\ pc'[r] \in {"answered", "extract"}
    BY <1>2, <1>3 DEF Receive, UpsertOrganization, CreateAssets, CreateAsset, CreateRunRecord, Statement
  <2> QED
    BY <1>1, <1>2, <2>1, AheadAt
<1>4. CASE Extract(r)
  <2>1. /\ pc[r] = "extract"
        /\ pc'[r] \in {"retrieve", "markComplete", "insertRows", "markFailed"}
    BY <1>2, <1>4 DEF Extract, HasMore, AfterGraph
  <2>2. pc'[r] = "retrieve" => left2 \in 0..MaxRequirements
    <3> SUFFICES ASSUME pc'[r] = "retrieve" PROVE left2 \in 0..MaxRequirements
      OBVIOUS
    <3>1. PICK n \in 0..MaxRequirements : requirements' = [requirements EXCEPT ![r] = n]
      BY <1>2, <1>4, <2>1 DEF Extract
    <3>2. requirements'[r] = n /\ cursor'[r] = 0
      BY <1>2, <1>4, <2>1, <3>1 DEF Extract, Types
    <3> QED
      BY <1>1, <3>2
  <2> HIDE DEF left2
  <2> QED
    BY <1>1, <1>2, <2>1, <2>2, AheadAt
<1>5. CASE Retrieve(r)
  <2>1. /\ pc[r] = "retrieve" /\ pc'[r] \in {"compile", "markFailed"} /\ left2 = left
    BY <1>2, <1>5 DEF Retrieve, graph
  <2> HIDE DEF left, left2
  <2> QED
    BY <1>1, <1>2, <2>1, AheadAt
<1>6. CASE Compile(r)
  <2>1. /\ pc[r] = "compile"
        /\ pc'[r] \in {"retrieve", "markComplete", "insertRows", "markFailed"}
    BY <1>2, <1>6 DEF Compile, HasMore, AfterGraph
  <2>2. pc'[r] = "retrieve" => left2 = left - 1
    BY <1>1, <1>2, <1>6, <2>1 DEF Compile, Types
  <2>3. left > 0
    BY <1>1, <2>1 DEF Looping
  <2> HIDE DEF left, left2
  <2> QED
    BY <1>1, <1>2, <2>1, <2>2, <2>3, AheadAt
<1>7. CASE PersistRows(r) \/ PersistQuotes(r) \/ CompleteRun(r) \/ FailRun(r)
  <2>1. \/ pc[r] = "insertRows"   /\ pc'[r] \in {"insertQuotes", "markComplete", "markFailed"}
        \/ pc[r] = "insertQuotes" /\ pc'[r] \in {"markComplete", "markFailed"}
        \/ pc[r] = "markComplete" /\ pc'[r] \in {"answered", "markFailed"}
        \/ pc[r] = "markFailed"   /\ pc'[r] = "answered"
    BY <1>2, <1>7 DEF PersistRows, PersistQuotes, CompleteRun, FailRun, Statement
  <2> QED
    BY <1>2, <2>1, AheadAt
<1>8. CASE Kill(r)
  <2>1. pc'[r] = "killed" /\ pc[r] \in PC \ {"answered", "killed"}
    BY <1>2, <1>8 DEF Kill, Types
  <2> HIDE DEF left, left2
  <2> QED
    BY <1>1, <1>2, <2>1, AheadAt DEF PC
<1> QED
  BY <1>3, <1>4, <1>5, <1>6, <1>7, <1>8 DEF Handle

\* Whatever fails, a handler has a bounded number of steps, and nothing but its own
\* steps changes its run: with fairness, the run ends (HandlersDescend).
THEOREM HandlersEnd == Spec => HandlersDescend
<1> DEFINE Descends == \A r \in Runs :
          LET run == <<status[r], stored[r], quotes[r], summary[r], assets[r], pc[r],
                       requirements[r], cursor[r], rows[r], reply[r]>>
          IN  run' # run => StepsLeft(r)' \in 0..(StepsLeft(r) - 1)
<1>1. Types /\ Inv /\ [Next]_vars => [Descends]_vars
  <2> SUFFICES ASSUME Types, Inv, Next, NEW r \in Runs, ~Same(r)
               PROVE  StepsLeft(r)' \in 0..(StepsLeft(r) - 1)
    BY DEF Same
  <2>1. PICK s \in Runs : Handle(s) \/ Kill(s)
    BY DEF Next, ReadRun, ReadRows, Same, store, graph
  <2>2. r = s
    BY <2>1, HandlerFrame DEF Types, StoreTypeOK, Domains
  <2> QED
    BY <2>1, <2>2, HandlerDescends DEF Inv
<1> HIDE DEF Descends
<1>2. Spec => [][Descends]_vars
  BY <1>1, RunInvariant, PTL DEF Spec
<1> QED
  BY <1>2 DEF HandlersDescend, Descends

(***************************************************************************)
(* The web run implements the run lifecycle.                               *)
(***************************************************************************)
LEMMA RecordStep ==
    ASSUME NEW r \in Runs, \A s \in Runs \ {r} : Same(s)
    PROVE  Record' = [Record EXCEPT ![r] = Record'[r]]
<1>1. \A s \in Runs \ {r} : Record'[s] = Record[s]
  BY DEF Record, Same
<1>2. Record' = [s \in Runs |-> Record'[s]] /\ Record = [s \in Runs |-> Record[s]]
  BY DEF Record
<1> HIDE DEF Record
<1> QED
  BY <1>1, <1>2

LEMMA ReportIsSummary == ASSUME NEW matrix PROVE Report(matrix) # NoSummary
<1>1. "total" \in DOMAIN Report(matrix)
  BY DEF Report
<1>2. DOMAIN NoSummary = {}
  BY DEF NoSummary
<1> QED
  BY <1>1, <1>2

LEMMA HandlerRefines ==
    ASSUME Types, Inv, NEW r \in Runs, Handle(r) \/ Kill(r)
    PROVE  Lifecycle!Next \/ Record' = Record
<1>1. Record' = [Record EXCEPT ![r] = Record'[r]]
  BY HandlerFrame, RecordStep DEF Types, StoreTypeOK, Domains
<1>2. /\ Record[r] = [phase |-> status[r], rows |-> stored[r],
                      reported |-> IF summary[r] = NoSummary THEN 0 ELSE summary[r].total]
      /\ Record'[r] = [phase |-> status'[r], rows |-> stored'[r],
                       reported |-> IF summary'[r] = NoSummary THEN 0 ELSE summary'[r].total]
  BY DEF Record
<1>3. RunInv(r)
  BY DEF Inv
<1>4. CASE UNCHANGED <<status, stored, summary>>
  BY <1>4 DEF Record
<1>5. CASE CreateRunRecord(r) /\ CreateRun(r)
  <2>1. status[r] = "absent" /\ status'[r] = "running" /\ UNCHANGED <<stored, summary>>
    BY <1>3, <1>5 DEF CreateRunRecord, CreateRun, RunInv, Recorded, Before, Types, StoreTypeOK
  <2>2. Record[r].phase = "absent" /\ Record'[r] = [Record[r] EXCEPT !.phase = "running"]
    BY <1>2, <2>1
  <2> QED
    BY <1>1, <2>2 DEF Lifecycle!Next, Lifecycle!Create, Lifecycle!Become
<1>6. CASE PersistRows(r) /\ InsertRows(r, rows[r])
  <2>1. status[r] = "running" /\ stored[r] = <<>> /\ stored'[r] = rows[r]
        /\ UNCHANGED <<status, summary>>
    BY <1>3, <1>6 DEF PersistRows, InsertRows, RunInv, Recorded, Saved, Inside, Types, StoreTypeOK
  <2>2. rows[r] \in Seq(Rows)
    BY DEF Types
  <2>3. /\ Record[r].phase = "running" /\ Record[r].rows = <<>> /\ Record'[r].rows = rows[r]
        /\ Record'[r] = [Record[r] EXCEPT !.rows = rows[r]]
    BY <1>2, <2>1
  <2> QED
    BY <1>1, <2>2, <2>3 DEF Lifecycle!Next, Lifecycle!Store, Lifecycle!Become
<1>7. CASE CompleteRun(r) /\ MarkComplete(r, Report(rows[r]))
  <2>1. status[r] = "running" /\ status'[r] = "complete" /\ stored[r] = rows[r]
        /\ summary'[r] = Report(rows[r]) /\ stored' = stored
    BY <1>3, <1>7 DEF CompleteRun, MarkComplete, RunInv, Recorded, Saved, Inside, Types, StoreTypeOK
  <2>2. summary'[r] # NoSummary /\ summary'[r].total = Len(rows[r])
    BY <2>1, ReportIsSummary DEF Report
  <2>3. /\ Record[r].phase = "running" /\ Record[r].rows = rows[r]
        /\ Record'[r] = [phase |-> "complete", rows |-> rows[r], reported |-> Len(rows[r])]
    BY <1>2, <2>1, <2>2
  <2> QED
    BY <1>1, <2>3 DEF Lifecycle!Next, Lifecycle!Complete, Lifecycle!Become
<1>8. CASE FailRun(r) /\ MarkFailed(r)
  <2>1. status[r] \in {"running", "complete"} /\ status'[r] = "failed"
        /\ UNCHANGED <<stored, summary>>
    BY <1>3, <1>8 DEF FailRun, MarkFailed, RunInv, Recorded, Types, StoreTypeOK
  <2>2. /\ Record[r].phase \in {"running", "complete"}
        /\ Record'[r] = [Record[r] EXCEPT !.phase = "failed"]
    BY <1>2, <2>1
  <2> QED
    BY <1>1, <2>2 DEF Lifecycle!Next, Lifecycle!Fail, Lifecycle!Become
<1> QED
  BY <1>4, <1>5, <1>6, <1>7, <1>8
     DEF Handle, Receive, UpsertOrganization, CreateAssets, CreateAsset, CreateRunRecord, Extract,
         Retrieve, Compile, PersistRows, PersistQuotes, CompleteRun, FailRun, Kill, Statement,
         InsertQuotes, store

\* The web run implements the lifecycle its readers rely on: running, then the
\* whole matrix at once, then complete with its count, or failed.
THEOREM ImplementsRunLifecycle == Spec => ImplementsLifecycle
<1>1. Init => Lifecycle!Init
  BY DEF Init, StoreInit, Lifecycle!Init, Record
<1>2. Types /\ Inv /\ [Next]_vars => [Lifecycle!Next]_Record
  <2> SUFFICES ASSUME Types, Inv, [Next]_vars PROVE Lifecycle!Next \/ Record' = Record
    OBVIOUS
  <2>1. CASE \E r \in Runs : Handle(r) \/ Kill(r)
    BY <2>1, HandlerRefines
  <2>2. CASE UNCHANGED store
    BY <2>2 DEF store, Record
  <2> QED
    BY <2>1, <2>2 DEF Next, ReadRun, ReadRows, vars, store
<1> QED
  BY <1>1, <1>2, RunInvariant, PTL DEF Spec, ImplementsLifecycle, Lifecycle!Spec
=============================================================================
