----------------------------- MODULE McpServer -----------------------------
(***************************************************************************)
(* The tool calls of an authenticated MCP client: the five tools of        *)
(* mcp/tools.ts in the wrapper that records every call, with the wiring of *)
(* mcp/real-deps.ts.  check_conformance writes the same tables as the web  *)
(* run: each call opens a run of one row, so a call stands for its run and *)
(* for its verdict.  Calls of one organisation run concurrently, every     *)
(* await may throw, a statement that throws may have been committed, and   *)
(* the process may be killed.                                              *)
(***************************************************************************)
EXTENDS RunStore

CONSTANT NoCall   \* no verdict id

ASSUME NoCallAssumption == NoCall \notin Runs

VARIABLES pc,        \* what each call awaits
          tool,      \* the tool it called
          asked,     \* the verdict id it asked for
          row,       \* the evaluated row it holds, or the one it read
          done,      \* what the tool ended with: outcome and verdict id
          signed,    \* the sidecar signed the record
          records,   \* the McpToolCall records of the call
          reply      \* what the client got

vars == <<status, stored, quotes, summary, pc, tool, asked, row, done, signed, records, reply>>

Calls == Runs
NoRow == [verdict |-> "none"]

Tools    == {"check_conformance", "get_verdict", "verify_verdict", "read_only"}
Outcomes == {"ok", "abstained", "error"}

Writing == {"evaluate", "insertRow", "insertQuote", "markComplete"}   \* inside the try of create
PC == {"idle", "prepare", "createRun", "markFailed", "readVerdict", "verify", "sign", "record",
       "answered", "killed"} \cup Writing

Done   == [outcome : Outcomes, verdict : Calls \cup {NoCall}]
NoDone == [outcome |-> "error", verdict |-> NoCall]
NoReply == [kind |-> "none"]

Init ==
    /\ StoreInit
    /\ pc = [c \in Calls |-> "idle"]
    /\ tool = [c \in Calls |-> "read_only"]
    /\ asked = [c \in Calls |-> NoCall]
    /\ row = [c \in Calls |-> NoRow]
    /\ done = [c \in Calls |-> NoDone]
    /\ signed = [c \in Calls |-> FALSE]
    /\ records = [c \in Calls |-> <<>>]
    /\ reply = [c \in Calls |-> NoReply]

Goto(c, next) == pc' = [pc EXCEPT ![c] = next] /\ UNCHANGED done

\* The tool's handler ends: its result, or the error it threw, goes to the wrapper.
Finish(c, outcome, verdict) ==
    /\ pc' = [pc EXCEPT ![c] = "sign"]
    /\ done' = [done EXCEPT ![c] = [outcome |-> outcome, verdict |-> verdict]]

\* Handlers throw; inside create the run is marked failed first.
Throw(c) == IF pc[c] \in Writing THEN Goto(c, "markFailed") ELSE Finish(c, "error", NoCall)

Statement(c, effect, acknowledged) ==
    \/ effect /\ acknowledged
    \/ effect /\ Throw(c)
    \/ UNCHANGED store /\ Throw(c)

Abstained(r) == ~Promise!Committed(r)

OutcomeOf(r) == IF Abstained(r) THEN "abstained" ELSE "ok"

request == <<tool, asked>>
audit   == <<signed, records, reply>>

(***************************************************************************)
(* A call arrives.                                                         *)
(***************************************************************************)
Call(c) ==
    /\ pc[c] = "idle"
    /\ \E t \in Tools, v \in Calls :
          /\ tool' = [tool EXCEPT ![c] = t]
          /\ asked' = [asked EXCEPT ![c] = IF t \in {"get_verdict", "verify_verdict"} THEN v ELSE NoCall]
          /\ Goto(c, IF asked'[c] = NoCall THEN "prepare" ELSE "readVerdict")
    /\ UNCHANGED <<store, row, audit>>

\* search_spec and extract_requirements answer from here; check_conformance has
\* found its spec and retrieved its citations.  Any of these may throw.
Prepare(c) ==
    /\ pc[c] = "prepare"
    /\ \/ Throw(c)
       \/ tool[c] = "read_only" /\ Finish(c, "ok", NoCall)
       \/ tool[c] = "check_conformance" /\ Goto(c, "createRun")
    /\ UNCHANGED <<store, request, row, audit>>

(***************************************************************************)
(* check_conformance: verdicts.create of real-deps.ts.                     *)
(***************************************************************************)
OpenRun(c) ==
    /\ pc[c] = "createRun"
    /\ Statement(c, CreateRun(c), Goto(c, "evaluate"))
    /\ UNCHANGED <<request, row, audit>>

Evaluate(c) ==
    /\ pc[c] = "evaluate"
    /\ \/ (\E r \in Rows : row' = [row EXCEPT ![c] = r]) /\ Goto(c, "insertRow")
       \/ Throw(c) /\ UNCHANGED row
    /\ UNCHANGED <<store, request, audit>>

Report(r) == [total |-> 1, needsReview |-> IF Abstained(r) THEN 1 ELSE 0]

\* Mutant: the run is completed before its row is stored.
InsertRowAfterComplete(c) ==
    /\ \/ /\ pc[c] = "insertRow" /\ status[c] = "running"
          /\ MarkComplete(c, Report(row[c])) /\ UNCHANGED <<pc, done>>
       \/ /\ pc[c] = "insertRow" /\ status[c] = "complete"
          /\ Statement(c, InsertRows(c, <<row[c]>>), Finish(c, OutcomeOf(row[c]), c))
    /\ UNCHANGED <<request, row, audit>>

\* Mutant: the row is built once more for the table.
InsertRowRebuilt(c) ==
    /\ pc[c] = "insertRow"
    /\ \E r \in Rows : Statement(c, InsertRows(c, <<r>>),
                        Goto(c, IF r.rejected THEN "insertQuote" ELSE "markComplete"))
    /\ UNCHANGED <<request, row, audit>>

InsertRow(c) ==
    /\ pc[c] = "insertRow"
    /\ Statement(c, InsertRows(c, <<row[c]>>),
                 Goto(c, IF row[c].rejected THEN "insertQuote" ELSE "markComplete"))
    /\ UNCHANGED <<request, row, audit>>

InsertQuote(c) ==
    /\ pc[c] = "insertQuote"
    /\ Statement(c, InsertQuotes(c, <<row[c]>>), Goto(c, "markComplete"))
    /\ UNCHANGED <<request, row, audit>>

CompleteRun(c) ==
    /\ pc[c] = "markComplete"
    /\ Statement(c, MarkComplete(c, Report(row[c])), Finish(c, OutcomeOf(row[c]), c))
    /\ UNCHANGED <<request, row, audit>>

\* Mutant: a failure after the row was built is answered with the row.
FailRunAnswersRow(c) ==
    /\ pc[c] = "markFailed"
    /\ MarkFailed(c) \/ UNCHANGED store
    /\ IF row[c] = NoRow THEN Finish(c, "error", NoCall) ELSE Finish(c, OutcomeOf(row[c]), c)
    /\ UNCHANGED <<request, row, audit>>

\* The failure of this update is swallowed; the original error is thrown on.
FailRun(c) ==
    /\ pc[c] = "markFailed"
    /\ MarkFailed(c) \/ UNCHANGED store
    /\ Finish(c, "error", NoCall)
    /\ UNCHANGED <<request, row, audit>>

(***************************************************************************)
(* get_verdict and verify_verdict.                                         *)
(***************************************************************************)

\* Whatever the state of its run is: the row is looked up by its own id.
ReadVerdict(c) ==
    /\ pc[c] = "readVerdict"
    /\ \/ Throw(c) /\ UNCHANGED row   \* the query throws, or no such verdict
       \/ \E i \in 1..Len(stored[asked[c]]) :
             LET found == stored[asked[c]][i] IN
             /\ row' = [row EXCEPT ![c] = found]
             /\ IF tool[c] = "get_verdict" THEN Finish(c, OutcomeOf(found), asked[c])
                ELSE Goto(c, "verify")
    /\ UNCHANGED <<store, request, audit>>

\* The sidecar answers, or the verdict has no attestation, or the sidecar is down.
Verify(c) ==
    /\ pc[c] = "verify"
    /\ Finish(c, "ok", asked[c]) \/ Throw(c)
    /\ UNCHANGED <<store, request, row, audit>>

(***************************************************************************)
(* The wrapper: sign, record, answer.                                      *)
(***************************************************************************)
Sign(c) ==
    /\ pc[c] = "sign"
    /\ \E ok \in BOOLEAN : signed' = [signed EXCEPT ![c] = ok]
    /\ Goto(c, "record")
    /\ UNCHANGED <<store, request, row, records, reply>>

RecordOf(c) == [outcome |-> done[c].outcome, verdict |-> done[c].verdict, signed |-> signed[c]]

Result(c) == [kind    |-> "result",
              outcome |-> done[c].outcome,
              verdict |-> done[c].verdict,
              call    |-> TRUE,    \* the reply carries the id of the record
              signed  |-> signed[c],
              row     |-> IF done[c].verdict = NoCall \/ tool[c] = "verify_verdict" THEN NoRow ELSE row[c]]

Withheld == [kind |-> "audit_failed", call |-> FALSE]

AnswerWith(c, what) ==
    /\ reply' = [reply EXCEPT ![c] = what]
    /\ Goto(c, "answered")

Insert(c) == records' = [records EXCEPT ![c] = Append(@, RecordOf(c))]

\* Mutant: the record is written on a best-effort basis.
StoreRecordBestEffort(c) ==
    /\ pc[c] = "record"
    /\ Insert(c) \/ UNCHANGED records
    /\ AnswerWith(c, Result(c))
    /\ UNCHANGED <<store, request, row, signed>>

\* Mutant: a record that could not be stored is tried once more.
StoreRecordRetried(c) ==
    /\ pc[c] = "record"
    /\ \/ Insert(c) /\ AnswerWith(c, Result(c))
       \/ (Insert(c) \/ UNCHANGED records) /\ Len(records[c]) = 0 /\ UNCHANGED <<pc, done, reply>>
       \/ UNCHANGED records /\ AnswerWith(c, Withheld)
    /\ UNCHANGED <<store, request, row, signed>>

\* Fails closed: without the record's id the result is withheld, even when the
\* record was stored and only its acknowledgement lost.
StoreRecord(c) ==
    /\ pc[c] = "record"
    /\ \/ Insert(c) /\ AnswerWith(c, Result(c))
       \/ (Insert(c) \/ UNCHANGED records) /\ AnswerWith(c, Withheld)
    /\ UNCHANGED <<store, request, row, signed>>

Kill(c) ==
    /\ pc[c] \notin {"idle", "answered", "killed"}
    /\ Goto(c, "killed")
    /\ UNCHANGED <<store, request, row, audit>>

Serve(c) ==
    \/ Prepare(c) \/ OpenRun(c) \/ Evaluate(c) \/ InsertRow(c) \/ InsertQuote(c) \/ CompleteRun(c)
    \/ FailRun(c) \/ ReadVerdict(c) \/ Verify(c) \/ Sign(c) \/ StoreRecord(c)

\* Every call was answered or killed.
Quiet == (\A c \in Calls : pc[c] \in {"answered", "killed"}) /\ UNCHANGED vars

Next == (\E c \in Calls : Call(c) \/ Serve(c) \/ Kill(c)) \/ Quiet

Spec == Init /\ [][Next]_vars

(***************************************************************************)
(* Properties.                                                             *)
(***************************************************************************)
TypeOK ==
    /\ StoreTypeOK
    /\ pc \in [Calls -> PC]
    /\ tool \in [Calls -> Tools]
    /\ asked \in [Calls -> Calls \cup {NoCall}]
    /\ row \in [Calls -> Rows \cup {NoRow}]
    /\ done \in [Calls -> Done]
    /\ signed \in [Calls -> BOOLEAN]
    /\ records \in [Calls -> Seq([outcome : Outcomes, verdict : Calls \cup {NoCall}, signed : BOOLEAN])]
    /\ DOMAIN reply = Calls
    /\ \A c \in Calls : asked[c] # NoCall <=> tool[c] \in {"get_verdict", "verify_verdict"}

Answered(c) == reply[c].kind = "result"

\* Every answered call has exactly one record, with the outcome, the verdict id
\* and the signature the client was told (tools.ts:61-77).
AnswersAreRecorded ==
    \A c \in Calls : Answered(c) =>
        /\ Len(records[c]) = 1
        /\ records[c][1] = [outcome |-> reply[c].outcome, verdict |-> reply[c].verdict,
                            signed |-> reply[c].signed]

\* A call never leaves two records, and one it leaves names a verdict that is
\* stored, with the outcome that verdict has (tools.ts:62-66, 116).
RecordsAreTrue ==
    \A c \in Calls :
        /\ Len(records[c]) <= 1
        /\ \A i \in 1..Len(records[c]) :
              LET rec == records[c][i] IN
              rec.verdict # NoCall =>
                  /\ stored[rec.verdict] # <<>>
                  /\ rec.outcome = "abstained" => Abstained(stored[rec.verdict][1])
                  /\ rec.outcome # "error"

\* The verdict a check_conformance ends with is the one stored, its run is
\* complete and reports it, and stays so whatever becomes of the answer: withheld
\* because the call could not be recorded, or lost with the process.  A client
\* that is answered is answered that very row (real-deps.ts:58-63, tools.ts:75).
CheckedVerdictIsStored ==
    \A c \in Calls : tool[c] = "check_conformance" /\ done[c].outcome # "error" =>
        /\ status[c] = "complete" /\ summary[c] = Report(row[c])
        /\ stored[c] = <<row[c]>> /\ quotes[c] = RejectedOf(stored[c])
        /\ Answered(c) => reply[c].verdict = c /\ reply[c].row = row[c]

\* Whoever asks for a verdict, whenever: all clients that were answered the same
\* id were answered the same verdict (tools.ts:112-116, 139-141).
OneVerdictPerId ==
    \A c, d \in Calls :
        Answered(c) /\ Answered(d) /\ reply[c].verdict = reply[d].verdict
            /\ reply[c].row # NoRow /\ reply[d].row # NoRow => reply[c].row = reply[d].row

\* Nothing happens after the answer: what the client was told, its record and
\* the run of its verdict stay as they are (tools.ts:67-81, real-deps.ts:61-66).
NothingAfterAnswer ==
    [][\A c \in Calls : reply[c].kind # "none" =>
          /\ reply'[c] = reply[c] /\ records'[c] = records[c]
          /\ status'[c] = status[c] /\ stored'[c] = stored[c]
          /\ quotes'[c] = quotes[c] /\ summary'[c] = summary[c]]_vars

\* The server writes its runs as the readers of the tables expect.
Lifecycle == INSTANCE RunLifecycle WITH record <- Record

ImplementsLifecycle == Lifecycle!Spec
=============================================================================
