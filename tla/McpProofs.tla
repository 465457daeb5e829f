----------------------------- MODULE McpProofs -----------------------------
(***************************************************************************)
(* Proofs about McpServer, for any number of calls and any rows.           *)
(***************************************************************************)
EXTENDS AgentClient, FiniteSetTheorems, SequenceTheorems, TLAPS

Early == {"idle", "prepare", "createRun", "readVerdict", "verify"}
Late  == {"sign", "record", "answered"}

(***************************************************************************)
(* The inductive invariant, for one call.                                  *)
(***************************************************************************)

\* The tables hold what the handler has written so far.
Written(c) ==
    /\ pc[c] \in Early \/ tool[c] # "check_conformance" =>
          status[c] = "absent" /\ stored[c] = <<>> /\ quotes[c] = {}
    /\ pc[c] \in Writing \cup {"createRun", "markFailed"} => tool[c] = "check_conformance"
    /\ pc[c] \in {"readVerdict", "verify"} => asked[c] # NoCall
    /\ pc[c] = "verify" => tool[c] = "verify_verdict"
    /\ pc[c] \in Writing => status[c] = "running"
    /\ pc[c] \in {"evaluate", "insertRow"} => stored[c] = <<>>
    /\ pc[c] \in {"evaluate", "insertRow", "insertQuote"} => quotes[c] = {}
    /\ pc[c] \in Writing \ {"evaluate"} => row[c] \in Rows
    /\ pc[c] \in {"insertQuote", "markComplete"} => stored[c] = <<row[c]>>
    /\ pc[c] = "markComplete" => quotes[c] = RejectedOf(<<row[c]>>)
    /\ pc[c] = "markFailed" => status[c] \in {"running", "complete"}
    /\ stored[c] # <<>> => stored[c] = <<row[c]>> /\ row[c] \in Rows
    /\ status[c] = "complete" =>
          /\ stored[c] = <<row[c]>> /\ quotes[c] = RejectedOf(stored[c]) /\ summary[c] = Report(row[c])

\* What a tool ended with agrees with the verdict it names.
Ended(c) ==
    /\ pc[c] \in Late =>
          /\ done[c].verdict = NoCall => done[c].outcome # "abstained"
          /\ done[c].verdict # NoCall =>
                /\ done[c].outcome # "error" /\ stored[done[c].verdict] # <<>>
                /\ tool[c] = "verify_verdict" => done[c].outcome = "ok"
                /\ tool[c] # "verify_verdict" => row[c] = stored[done[c].verdict][1]
                                                 /\ done[c].outcome = OutcomeOf(row[c])
    /\ pc[c] \notin Late \cup {"killed"} => done[c].outcome = "error"
    /\ tool[c] = "check_conformance" /\ done[c].outcome # "error" =>
          done[c].verdict = c /\ status[c] = "complete"
    /\ pc[c] = "verify" => stored[asked[c]] # <<>>

\* One record at most, and the reply says what it says.
Audited(c) ==
    /\ pc[c] # "answered" => records[c] = <<>> /\ reply[c] = NoReply
    /\ records[c] # <<>> => records[c] = <<RecordOf(c)>>
    /\ reply[c] \in {NoReply, Withheld} \/ (reply[c] = Result(c) /\ records[c] = <<RecordOf(c)>>)

CallInv(c) == Written(c) /\ Ended(c) /\ Audited(c)

Inv == \A c \in Calls : CallInv(c)

(***************************************************************************)
(* Types.                                                                  *)
(***************************************************************************)
LEMMA NoRowIsNoRow == NoRow \notin Rows
  BY RowsAssumption DEF NoRow, Promise!Row

LEMMA OneRow == ASSUME NEW r \in Rows PROVE <<r>> \in Seq(Rows) /\ <<r>>[1] = r /\ <<r>> # <<>>
  OBVIOUS

LEMMA RejectedType == ASSUME NEW matrix \in Seq(Rows) PROVE RejectedOf(matrix) \in SUBSET Nat
  BY DEF RejectedOf

RecordType == [outcome : Outcomes, verdict : Calls \cup {NoCall}, signed : BOOLEAN]

LEMMA InitType == Init => TypeOK
  BY NoCallAssumption DEF Init, StoreInit, TypeOK, StoreTypeOK, Statuses, PC, Tools, Done, NoDone, Outcomes

\* The statements keep the tables typed.
LEMMA StatementsType ==
    ASSUME StoreTypeOK, NEW c \in Calls, NEW r \in Rows, NEW report,
           \/ CreateRun(c) \/ InsertRows(c, <<r>>) \/ InsertQuotes(c, <<r>>)
           \/ MarkComplete(c, report) \/ MarkFailed(c) \/ UNCHANGED store
    PROVE  StoreTypeOK'
<1>1. CASE CreateRun(c) \/ MarkFailed(c) \/ MarkComplete(c, report) \/ UNCHANGED store
  BY <1>1 DEF StoreTypeOK, CreateRun, MarkFailed, MarkComplete, store, Statuses, Calls
<1>2. CASE InsertRows(c, <<r>>)
  BY <1>2, OneRow DEF StoreTypeOK, InsertRows, Calls
<1>3. CASE InsertQuotes(c, <<r>>)
  <2>1. RejectedOf(<<r>>) \in SUBSET Nat
    BY OneRow, RejectedType
  <2> QED
    BY <1>3, <2>1 DEF StoreTypeOK, InsertQuotes, Calls
<1> QED
  BY <1>1, <1>2, <1>3

CallTypes ==
    /\ pc \in [Calls -> PC]
    /\ done \in [Calls -> Done]

LEMMA ControlTypes ==
    ASSUME CallTypes, NEW c \in Calls
    PROVE  /\ \A next \in PC : Goto(c, next) => CallTypes'
           /\ \A o \in Outcomes, v \in Calls \cup {NoCall} : Finish(c, o, v) => CallTypes'
           /\ Throw(c) => CallTypes'
<1>1. \A next \in PC : Goto(c, next) => CallTypes'
  BY DEF CallTypes, Goto
<1>2. \A o \in Outcomes, v \in Calls \cup {NoCall} : Finish(c, o, v) => CallTypes'
  BY DEF CallTypes, Finish, PC, Done
<1>3. Throw(c) => CallTypes'
  BY <1>1, <1>2 DEF Throw, PC, Outcomes
<1> QED
  BY <1>1, <1>2, <1>3

LEMMA OutcomeType == \A r : OutcomeOf(r) \in Outcomes
  BY DEF OutcomeOf, Outcomes

Step(c) == Call(c) \/ Serve(c) \/ Kill(c)

LEMMA StepType ==
    ASSUME TypeOK, Inv, NEW c \in Calls, Step(c) PROVE TypeOK'
<1>1. CallTypes /\ StoreTypeOK
  BY DEF TypeOK, CallTypes
<1>2. StoreTypeOK'
  <2>1. CASE UNCHANGED store
    BY <2>1 DEF store, StoreTypeOK, TypeOK
  <2>2. CASE CreateRun(c) \/ MarkFailed(c) \/ MarkComplete(c, Report(row[c]))
    BY <1>1, <2>2 DEF StoreTypeOK, CreateRun, MarkFailed, MarkComplete, Statuses, Calls
  <2>3. CASE InsertRow(c) \/ InsertQuote(c)
    <3>1. row[c] \in Rows
      BY <2>3 DEF Inv, CallInv, Written, InsertRow, InsertQuote, Writing
    <3> QED
      BY <1>1, <2>3, <3>1, StatementsType DEF InsertRow, InsertQuote, Statement
  <2> QED
    BY <2>1, <2>2, <2>3 DEF Step, Call, Serve, Kill, Prepare, OpenRun, Evaluate, CompleteRun, FailRun,
           ReadVerdict, Verify, Sign, StoreRecord, Statement
<1>3. CallTypes'
  <2> USE <1>1, ControlTypes, OutcomeType DEF PC, Writing, Outcomes
  <2>1. CASE Call(c) \/ Kill(c) \/ Sign(c)
    BY <2>1 DEF Call, Kill, Sign
  <2>2. CASE Prepare(c) \/ Evaluate(c) \/ FailRun(c)
    BY <2>2 DEF Prepare, Evaluate, FailRun
  <2>3. CASE OpenRun(c) \/ InsertRow(c) \/ InsertQuote(c) \/ CompleteRun(c)
    BY <2>3 DEF OpenRun, InsertRow, InsertQuote, CompleteRun, Statement
  <2>4. CASE ReadVerdict(c) \/ Verify(c)
    <3>1. asked[c] \in Calls \cup {NoCall}
      BY DEF TypeOK
    <3>2. \/ Throw(c) \/ Goto(c, "verify") \/ Finish(c, "ok", asked[c])
          \/ \E r : Finish(c, OutcomeOf(r), asked[c])
      BY <2>4 DEF ReadVerdict, Verify
    <3> QED
      BY <3>1, <3>2
  <2>5. CASE StoreRecord(c)
    BY <2>5 DEF StoreRecord, AnswerWith
  <2> QED
    BY <2>1, <2>2, <2>3, <2>4, <2>5 DEF Step, Serve
<1>4. /\ tool' \in [Calls -> Tools] /\ asked' \in [Calls -> Calls \cup {NoCall}]
      /\ \A d \in Calls : asked'[d] # NoCall <=> tool'[d] \in {"get_verdict", "verify_verdict"}
  <2>1. CASE Call(c)
    BY <2>1, NoCallAssumption DEF Call, TypeOK, Calls, Tools
  <2>2. CASE UNCHANGED request
    BY <2>2 DEF request, TypeOK
  <2> QED
    BY <2>1, <2>2 DEF Step, Serve, Kill, Prepare, OpenRun, Evaluate, InsertRow, InsertQuote, CompleteRun,
           FailRun, ReadVerdict, Verify, Sign, StoreRecord
<1>5. row' \in [Calls -> Rows \cup {NoRow}]
  <2>1. CASE ReadVerdict(c)
    <3>1. CASE UNCHANGED row
      BY <3>1 DEF TypeOK
    <3>2. CASE ~UNCHANGED row
      <4>1. asked[c] \in Calls
        <5>1. pc[c] = "readVerdict" /\ Written(c)
          BY <2>1 DEF ReadVerdict, Inv, CallInv
        <5>2. asked[c] # NoCall
          BY <5>1 DEF Written
        <5> QED
          BY <5>2 DEF TypeOK
      <4>2. PICK i \in 1..Len(stored[asked[c]]) :
               row' = [row EXCEPT ![c] = stored[asked[c]][i]]
        BY <2>1, <3>2 DEF ReadVerdict
      <4>3. stored[asked[c]] \in Seq(Rows)
        BY <1>1, <4>1 DEF StoreTypeOK, Calls
      <4>4. stored[asked[c]][i] \in Rows
        BY <4>3
      <4> QED
        BY <4>2, <4>4 DEF TypeOK
    <3> QED
      BY <3>1, <3>2
  <2>2. CASE Evaluate(c)
    BY <2>2 DEF Evaluate, TypeOK
  <2>3. CASE UNCHANGED row
    BY <2>3 DEF TypeOK
  <2> QED
    BY <2>1, <2>2, <2>3 DEF Step, Call, Serve, Kill, Prepare, OpenRun, InsertRow, InsertQuote, CompleteRun,
           FailRun, Verify, Sign, StoreRecord
<1>6. /\ signed' \in [Calls -> BOOLEAN]
      /\ records' \in [Calls -> Seq(RecordType)] /\ DOMAIN reply' = Calls
  <2>1. CASE StoreRecord(c)
    <3>1. RecordOf(c) \in RecordType
      BY DEF RecordOf, RecordType, TypeOK, Done
    <3>2. records' = records \/ records' = [records EXCEPT ![c] = Append(@, RecordOf(c))]
      BY <2>1 DEF StoreRecord, Insert
    <3>3. records \in [Calls -> Seq(RecordType)]
      BY DEF TypeOK, RecordType
    <3>4. Append(records[c], RecordOf(c)) \in Seq(RecordType)
      BY <3>1, <3>3, AppendProperties
    <3>5. records' \in [Calls -> Seq(RecordType)]
      BY <3>2, <3>3, <3>4
    <3> QED
      BY <2>1, <3>5 DEF StoreRecord, AnswerWith, TypeOK
  <2>2. CASE Sign(c)
    BY <2>2 DEF Sign, TypeOK, RecordType
  <2>3. CASE UNCHANGED audit
    BY <2>3 DEF audit, TypeOK, RecordType
  <2> QED
    BY <2>1, <2>2, <2>3 DEF Step, Call, Serve, Kill, Prepare, OpenRun, Evaluate, InsertRow, InsertQuote,
           CompleteRun, FailRun, ReadVerdict, Verify
<1> QED
  BY <1>2, <1>3, <1>4, <1>5, <1>6 DEF TypeOK, CallTypes, RecordType

(***************************************************************************)
(* Frames: a step touches its own call only, and no verdict once stored.   *)
(***************************************************************************)
Same(d) ==
    /\ status'[d] = status[d] /\ stored'[d] = stored[d] /\ quotes'[d] = quotes[d]
    /\ summary'[d] = summary[d] /\ pc'[d] = pc[d] /\ tool'[d] = tool[d] /\ asked'[d] = asked[d]
    /\ row'[d] = row[d] /\ done'[d] = done[d] /\ signed'[d] = signed[d]
    /\ records'[d] = records[d] /\ reply'[d] = reply[d]

\* Every variable is a function on the calls.
Domains ==
    /\ DOMAIN status = Calls /\ DOMAIN stored = Calls /\ DOMAIN quotes = Calls
    /\ DOMAIN summary = Calls /\ DOMAIN pc = Calls /\ DOMAIN tool = Calls /\ DOMAIN asked = Calls
    /\ DOMAIN row = Calls /\ DOMAIN done = Calls /\ DOMAIN signed = Calls
    /\ DOMAIN records = Calls /\ DOMAIN reply = Calls

StoredStays == \A v \in Calls : stored[v] # <<>> => stored'[v] = stored[v]

LEMMA StepFrame ==
    ASSUME NEW c \in Calls, NEW d \in Calls, d # c, Step(c), Domains
    PROVE  Same(d)
<1> USE DEF Same, Domains, store, request, audit, Goto, Finish, Throw
<1>1. CASE Call(c) \/ Kill(c) \/ Prepare(c)
  BY <1>1 DEF Call, Kill, Prepare
<1>2. CASE OpenRun(c) \/ Evaluate(c)
  BY <1>2 DEF OpenRun, Evaluate, Statement, CreateRun
<1>3. CASE InsertRow(c) \/ InsertQuote(c)
  BY <1>3 DEF InsertRow, InsertQuote, Statement, InsertRows, InsertQuotes
<1>4. CASE CompleteRun(c) \/ FailRun(c)
  BY <1>4 DEF CompleteRun, FailRun, Statement, MarkComplete, MarkFailed
<1>5. CASE ReadVerdict(c)
  BY <1>5 DEF ReadVerdict
<1>6. CASE Verify(c) \/ Sign(c)
  BY <1>6 DEF Verify, Sign
<1>7. CASE StoreRecord(c)
  BY <1>7 DEF StoreRecord, AnswerWith, Insert
<1> QED
  BY <1>1, <1>2, <1>3, <1>4, <1>5, <1>6, <1>7 DEF Step, Serve

LEMMA StepStored ==
    ASSUME TypeOK, Inv, NEW c \in Calls, Step(c) PROVE StoredStays
<1>1. CASE InsertRow(c)
  <2>1. stored[c] = <<>>
    BY <1>1 DEF InsertRow, Inv, CallInv, Written
  <2> QED
    BY <1>1, <2>1 DEF InsertRow, Statement, InsertRows, StoredStays, store, TypeOK, StoreTypeOK, Calls
<1>2. CASE ~InsertRow(c)
  <2>1. stored' = stored
    BY <1>2 DEF Step, Call, Serve, Kill, Prepare, OpenRun, Evaluate, InsertQuote, CompleteRun, FailRun,
           ReadVerdict, Verify, Sign, StoreRecord, Statement, CreateRun, InsertQuotes, MarkComplete,
           MarkFailed, store
  <2> QED
    BY <2>1 DEF StoredStays
<1> QED
  BY <1>1, <1>2

(***************************************************************************)
(* The invariant is inductive.  First the calls a step leaves alone, then  *)
(* the call that goes on.                                                  *)
(***************************************************************************)
LEMMA OtherCalls ==
    ASSUME TypeOK, NEW d \in Calls, CallInv(d), Same(d), StoredStays PROVE CallInv(d)'
<1> USE DEF Same
<1>1. Written(d)'
  BY DEF CallInv, Written
<1>2. Ended(d)'
  <2>1. done[d].verdict \in Calls \cup {NoCall} /\ asked[d] \in Calls \cup {NoCall}
    BY DEF TypeOK, Done
  <2>2. done[d].verdict # NoCall /\ stored[done[d].verdict] # <<>> =>
           stored'[done[d].verdict] = stored[done[d].verdict]
    BY <2>1 DEF StoredStays
  <2>3. pc[d] = "verify" => stored'[asked[d]] # <<>>
    BY <2>1 DEF StoredStays, CallInv, Ended, Written
  <2> QED
    BY <2>2, <2>3 DEF CallInv, Ended
<1>3. Audited(d)'
  BY DEF CallInv, Audited, RecordOf, Result
<1> QED
  BY <1>1, <1>2, <1>3 DEF CallInv

\* Until the record is stored there is nothing to audit.
LEMMA AuditKeeps ==
    ASSUME NEW c \in Calls, CallInv(c), pc[c] # "answered", UNCHANGED <<records, reply>>
    PROVE  Audited(c)'
  BY DEF CallInv, Audited, NoReply

\* An exception whose statement had no effect.
LEMMA ThrowKeeps ==
    ASSUME TypeOK, NEW c \in Calls, CallInv(c), Throw(c),
           pc[c] \in {"prepare", "createRun", "readVerdict", "verify"} \cup Writing,
           UNCHANGED <<store, request, row, audit>>
    PROVE  CallInv(c)'
<1> USE DEF Throw, Goto, Finish, store, request, audit, TypeOK, StoreTypeOK, Early, Late, Writing
<1>1. Written(c)'
  BY DEF CallInv, Written
<1>2. Ended(c)'
  <2>1. \/ pc'[c] = "markFailed" /\ done'[c].outcome = "error"
        \/ pc'[c] = "sign" /\ done'[c] = [outcome |-> "error", verdict |-> NoCall]
    BY DEF CallInv, Ended
  <2> QED
    BY <2>1 DEF Ended
<1>3. Audited(c)'
  BY AuditKeeps
<1> QED
  BY <1>1, <1>2, <1>3 DEF CallInv

LEMMA CallKeeps ==
    ASSUME TypeOK, NEW c \in Calls, CallInv(c), Call(c) \/ Kill(c) \/ Prepare(c)
    PROVE  CallInv(c)'
<1> USE DEF Calls, store, request, audit, TypeOK, StoreTypeOK, Early, Late, Writing
<1>1. CASE Prepare(c) /\ Throw(c)
  BY <1>1, ThrowKeeps DEF Prepare
<1>2. CASE ~(Prepare(c) /\ Throw(c))
  <2>1. Written(c)'
    BY <1>2, NoCallAssumption DEF CallInv, Written, Call, Kill, Prepare, Goto, Finish
  <2>2. Ended(c)'
    <3>1. CASE Call(c) \/ Kill(c)
      BY <3>1 DEF Call, Kill, Goto, Ended, CallInv, Written
    <3>2. CASE Prepare(c)
      BY <1>2, <3>2 DEF Prepare, Goto, Finish, Ended, CallInv
    <3> QED
      BY <3>1, <3>2
  <2>3. Audited(c)'
    BY AuditKeeps DEF Call, Kill, Prepare
  <2> QED
    BY <2>1, <2>2, <2>3 DEF CallInv
<1> QED
  BY <1>1, <1>2

\* The statements of check_conformance, in their order.
LEMMA WriteKeeps ==
    ASSUME TypeOK, NEW c \in Calls, CallInv(c), OpenRun(c) \/ Evaluate(c) \/ InsertRow(c)
                                                \/ InsertQuote(c)
    PROVE  CallInv(c)'
<1> USE DEF Calls, store, request, audit, TypeOK, StoreTypeOK, Early, Late, Writing
<1>1. CASE Throw(c) /\ UNCHANGED <<store, row>>
  BY <1>1, ThrowKeeps DEF OpenRun, Evaluate, InsertRow, InsertQuote
<1>2. CASE ~(Throw(c) /\ UNCHANGED <<store, row>>)
  <2>1. Audited(c)'
    BY AuditKeeps DEF OpenRun, Evaluate, InsertRow, InsertQuote
  <2>2. CASE OpenRun(c)
    <3>1. CreateRun(c) /\ pc[c] = "createRun" /\ (Goto(c, "evaluate") \/ Finish(c, "error", NoCall))
      BY <1>2, <2>2 DEF OpenRun, Statement, Throw
    <3>2. Written(c)'
      BY <2>2, <3>1 DEF OpenRun, CreateRun, Goto, Finish, CallInv, Written
    <3>3. Ended(c)'
      BY <3>1 DEF Goto, Finish, Ended, CallInv
    <3> QED
      BY <2>1, <3>2, <3>3 DEF CallInv
  <2>3. CASE Evaluate(c)
    <3>1. PICK r \in Rows : row' = [row EXCEPT ![c] = r] /\ Goto(c, "insertRow")
      BY <1>2, <2>3 DEF Evaluate
    <3>2. row'[c] \in Rows /\ pc'[c] = "insertRow" /\ pc[c] = "evaluate"
          /\ UNCHANGED <<store, tool, asked, done>>
      BY <2>3, <3>1 DEF Evaluate, Goto
    <3>3. Written(c)'
      BY <3>2 DEF CallInv, Written
    <3>4. Ended(c)'
      BY <3>2 DEF Ended, CallInv
    <3> QED
      BY <2>1, <3>3, <3>4 DEF CallInv
  <2>4. CASE InsertRow(c)
    <3>1. pc[c] = "insertRow" /\ stored' = [stored EXCEPT ![c] = <<row[c]>>]
          /\ UNCHANGED <<status, quotes, summary, tool, asked, row>>
      BY <1>2, <2>4 DEF InsertRow, Statement, InsertRows
    <3>2. /\ pc'[c] = "markFailed" \/ pc'[c] = (IF row[c].rejected THEN "insertQuote" ELSE "markComplete")
          /\ UNCHANGED done
      BY <1>2, <2>4 DEF InsertRow, Statement, Throw, Goto
    <3>3. row[c] \in Rows /\ quotes[c] = {} /\ status[c] = "running"
      BY <3>1 DEF CallInv, Written
    <3>4. ~row[c].rejected => RejectedOf(<<row[c]>>) = {}
      BY DEF RejectedOf
    <3>5. stored'[c] = <<row[c]>>
      BY <3>1
    <3>6. Written(c)'
      BY <3>1, <3>2, <3>3, <3>4, <3>5 DEF CallInv, Written
    <3>7. Ended(c)'
      BY <3>1, <3>2 DEF Ended, CallInv
    <3> QED
      BY <2>1, <3>6, <3>7 DEF CallInv
  <2>5. CASE InsertQuote(c)
    <3>1. pc[c] = "insertQuote" /\ quotes' = [quotes EXCEPT ![c] = RejectedOf(<<row[c]>>)]
          /\ UNCHANGED <<status, stored, summary, tool, asked, row>>
      BY <1>2, <2>5 DEF InsertQuote, Statement, InsertQuotes
    <3>2. pc'[c] \in {"markFailed", "markComplete"} /\ UNCHANGED done
      BY <1>2, <2>5 DEF InsertQuote, Statement, Throw, Goto
    <3>3. Written(c)'
      BY <3>1, <3>2 DEF CallInv, Written
    <3>4. Ended(c)'
      BY <3>1, <3>2 DEF Ended, CallInv
    <3> QED
      BY <2>1, <3>3, <3>4 DEF CallInv
  <2> QED
    BY <2>2, <2>3, <2>4, <2>5
<1> QED
  BY <1>1, <1>2

\* The run is closed.
LEMMA CloseKeeps ==
    ASSUME TypeOK, NEW c \in Calls, CallInv(c), CompleteRun(c) \/ FailRun(c)
    PROVE  CallInv(c)'
<1> USE DEF Calls, store, request, audit, TypeOK, StoreTypeOK, Early, Late, Writing
<1>1. CASE CompleteRun(c) /\ Throw(c) /\ UNCHANGED store
  BY <1>1, ThrowKeeps DEF CompleteRun
<1>2. CASE CompleteRun(c) /\ ~(Throw(c) /\ UNCHANGED store)
  <2>1. /\ pc[c] = "markComplete" /\ UNCHANGED <<stored, quotes, tool, asked, row>>
        /\ status'[c] = "complete" /\ summary'[c] = Report(row[c])
    BY <1>2 DEF CompleteRun, Statement, MarkComplete
  <2>2. \/ pc'[c] = "markFailed" /\ done'[c] = done[c]
        \/ pc'[c] = "sign" /\ done'[c] = [outcome |-> OutcomeOf(row[c]), verdict |-> c]
    BY <1>2, <2>1 DEF CompleteRun, Statement, Throw, Goto, Finish
  <2>3. stored[c] = <<row[c]>> /\ row[c] \in Rows /\ quotes[c] = RejectedOf(<<row[c]>>)
        /\ tool[c] = "check_conformance"
    BY <2>1 DEF CallInv, Written
  <2>4. Written(c)'
    BY <2>1, <2>2, <2>3 DEF CallInv, Written
  <2>5. Ended(c)'
    <3>1. CASE pc'[c] = "markFailed" /\ done'[c] = done[c]
      <4>1. done[c].outcome = "error"
        BY <2>1 DEF CallInv, Ended
      <4> QED
        BY <3>1, <4>1 DEF Ended
    <3>2. CASE pc'[c] = "sign" /\ done'[c] = [outcome |-> OutcomeOf(row[c]), verdict |-> c]
      <4>1. c # NoCall /\ stored'[c] # <<>> /\ stored'[c][1] = row'[c] /\ OutcomeOf(row[c]) # "error"
        BY <2>1, <2>3, NoCallAssumption DEF Calls, OutcomeOf
      <4>2. done'[c].verdict = c /\ done'[c].outcome = OutcomeOf(row'[c]) /\ pc'[c] # "verify"
            /\ tool'[c] = "check_conformance"
        BY <2>1, <2>3, <3>2
      <4>3. /\ status'[c] = "complete" /\ stored'[done'[c].verdict] # <<>>
            /\ row'[c] = stored'[done'[c].verdict][1] /\ done'[c].verdict # NoCall
            /\ done'[c].outcome # "error" /\ pc'[c] = "sign"
        BY <2>1, <3>2, <4>1, <4>2
      <4> QED
        BY <4>2, <4>3 DEF Ended
    <3> QED
      BY <2>2, <3>1, <3>2
  <2>6. Audited(c)'
    BY <2>1, AuditKeeps, <1>2 DEF CompleteRun
  <2> QED
    BY <2>4, <2>5, <2>6 DEF CallInv
<1>3. CASE FailRun(c)
  <2>1. /\ pc[c] = "markFailed" /\ UNCHANGED <<stored, quotes, summary, tool, asked, row>>
        /\ status'[c] \in {"failed", status[c]}
        /\ pc'[c] = "sign" /\ done'[c] = [outcome |-> "error", verdict |-> NoCall]
    BY <1>3 DEF FailRun, MarkFailed, Finish
  <2>2. Written(c)'
    BY <2>1 DEF CallInv, Written
  <2>3. Ended(c)'
    BY <2>1 DEF Ended
  <2>4. Audited(c)'
    BY <2>1, AuditKeeps, <1>3 DEF FailRun
  <2> QED
    BY <2>2, <2>3, <2>4 DEF CallInv
<1> QED
  BY <1>1, <1>2, <1>3

\* A verdict read from the tables is the one its id names.
LEMMA ReadKeeps ==
    ASSUME TypeOK, Inv, NEW c \in Calls, ReadVerdict(c) \/ Verify(c)
    PROVE  CallInv(c)'
<1> USE DEF Calls, store, request, audit, TypeOK, StoreTypeOK, Early, Late, Writing
<1> CallInv(c)
  BY DEF Inv
<1>1. CASE Throw(c) /\ UNCHANGED row
  BY <1>1, ThrowKeeps DEF ReadVerdict, Verify
<1>2. CASE ReadVerdict(c) /\ ~(Throw(c) /\ UNCHANGED row)
  <2>1. pc[c] = "readVerdict" /\ tool[c] \in {"get_verdict", "verify_verdict"} /\ asked[c] \in Calls
        /\ stored[c] = <<>> /\ status[c] = "absent" /\ quotes[c] = {}
        /\ UNCHANGED <<store, tool, asked>>
    <3>1. pc[c] = "readVerdict" /\ asked[c] # NoCall
      BY <1>2 DEF ReadVerdict, CallInv, Written
    <3>2. stored[c] = <<>> /\ status[c] = "absent" /\ quotes[c] = {}
      BY <3>1 DEF CallInv, Written
    <3> QED
      BY <1>2, <3>1, <3>2 DEF ReadVerdict
  <2>2. PICK i \in 1..Len(stored[asked[c]]) :
             LET found == stored[asked[c]][i] IN
             /\ row' = [row EXCEPT ![c] = found]
             /\ IF tool[c] = "get_verdict" THEN Finish(c, OutcomeOf(found), asked[c])
                ELSE Goto(c, "verify")
    BY <1>2 DEF ReadVerdict
  <2>3. stored[asked[c]] # <<>> => Len(stored[asked[c]]) = 1
    <3>1. Written(asked[c])
      BY <2>1 DEF Inv, CallInv
    <3>2. stored[asked[c]] # <<>> => stored[asked[c]] = <<row[asked[c]]>>
      BY <3>1 DEF Written
    <3>3. Len(<<row[asked[c]]>>) = 1
      OBVIOUS
    <3> QED
      BY <3>2, <3>3
  <2>4. stored[asked[c]] # <<>> /\ row'[c] = stored[asked[c]][1]
    BY <2>2, <2>3
  <2>5. Written(c)'
    BY <2>1, <2>2 DEF Written, Finish, Goto
  <2>6. Ended(c)'
    <3>1. CASE tool[c] = "get_verdict"
      <4>1. pc'[c] = "sign" /\ done'[c] = [outcome |-> OutcomeOf(row'[c]), verdict |-> asked[c]]
        BY <2>2, <3>1 DEF Finish
      <4>2. asked[c] # NoCall /\ stored'[asked[c]] # <<>> /\ row'[c] = stored'[asked[c]][1]
        BY <2>1, <2>4, NoCallAssumption DEF Calls
      <4>3. done'[c].verdict = asked[c] /\ done'[c].outcome = OutcomeOf(row'[c])
            /\ done'[c].outcome # "error"
        BY <4>1 DEF OutcomeOf
      <4> QED
        BY <2>1, <3>1, <4>1, <4>2, <4>3 DEF Ended
    <3>2. CASE tool[c] = "verify_verdict"
      BY <2>1, <2>2, <2>4, <3>2 DEF Goto, Ended, CallInv
    <3> QED
      BY <2>1, <3>1, <3>2
  <2>7. Audited(c)'
    BY <1>2, <2>1, AuditKeeps DEF ReadVerdict
  <2> QED
    BY <2>5, <2>6, <2>7 DEF CallInv
<1>3. CASE Verify(c) /\ ~(Throw(c) /\ UNCHANGED row)
  <2>1. /\ pc[c] = "verify" /\ pc'[c] = "sign" /\ done'[c] = [outcome |-> "ok", verdict |-> asked[c]]
        /\ UNCHANGED <<store, row, tool, asked>>
    BY <1>3 DEF Verify, Finish
  <2>2. asked[c] # NoCall /\ stored[asked[c]] # <<>>
    BY <2>1 DEF CallInv, Written, Ended
  <2>3. tool[c] = "verify_verdict"
    BY <2>1 DEF CallInv, Written
  <2>4. Written(c)'
    BY <2>1 DEF CallInv, Written
  <2>5. Ended(c)'
    BY <2>1, <2>2, <2>3 DEF Ended
  <2>6. Audited(c)'
    BY <1>3, <2>1, AuditKeeps DEF Verify
  <2> QED
    BY <2>4, <2>5, <2>6 DEF CallInv
<1> QED
  BY <1>1, <1>2, <1>3

\* The wrapper: the record says what the reply says.
LEMMA SignKeeps ==
    ASSUME TypeOK, NEW c \in Calls, CallInv(c), Sign(c) PROVE CallInv(c)'
<1>1. pc[c] = "sign" /\ pc' = [pc EXCEPT ![c] = "record"] /\ UNCHANGED <<store, tool, asked, row, done, records, reply>>
  BY DEF Sign, Goto, request
<1>2. pc'[c] = "record"
  BY <1>1 DEF TypeOK
<1>3. Written(c)'
  BY <1>1, <1>2 DEF CallInv, Written, store, Early, Writing
<1>4. Ended(c)'
  BY <1>1, <1>2 DEF CallInv, Ended, store, Late
<1>5. Audited(c)'
  BY <1>1, AuditKeeps
<1> QED
  BY <1>3, <1>4, <1>5 DEF CallInv

LEMMA RecordKeeps ==
    ASSUME TypeOK, NEW c \in Calls, CallInv(c), StoreRecord(c) PROVE CallInv(c)'
<1>1. /\ pc[c] = "record" /\ pc' = [pc EXCEPT ![c] = "answered"]
      /\ UNCHANGED <<store, tool, asked, row, done, signed>>
      /\ records[c] = <<>>
  BY DEF StoreRecord, AnswerWith, Goto, request, CallInv, Audited
<1>2. pc'[c] = "answered"
  BY <1>1 DEF TypeOK
<1>3. Written(c)'
  BY <1>1, <1>2 DEF CallInv, Written, store, Early, Writing
<1>4. Ended(c)'
  BY <1>1, <1>2 DEF CallInv, Ended, store, Late
<1>5. Audited(c)'
  <2>1. RecordOf(c)' = RecordOf(c) /\ Result(c)' = Result(c)
    BY <1>1 DEF RecordOf, Result
  <2>2. Insert(c) => records'[c] = <<RecordOf(c)>>
    <3>1. Append(<<>>, RecordOf(c)) = <<RecordOf(c)>>
      OBVIOUS
    <3> QED
      BY <1>1, <3>1 DEF Insert, TypeOK
  <2>3. UNCHANGED records => records'[c] = <<>>
    BY <1>1
  <2>4. \/ reply'[c] = Result(c) /\ records'[c] = <<RecordOf(c)>>
        \/ reply'[c] = Withheld /\ records'[c] \in {<<>>, <<RecordOf(c)>>}
    BY <2>2, <2>3 DEF StoreRecord, AnswerWith, TypeOK
  <2> QED
    BY <1>2, <2>1, <2>4 DEF Audited
<1> QED
  BY <1>3, <1>4, <1>5 DEF CallInv

LEMMA InitInv == Init => Inv
<1> SUFFICES ASSUME Init, NEW c \in Calls PROVE CallInv(c)
  BY DEF Inv
<1> USE DEF Init, StoreInit, Calls
<1>1. Written(c)
  BY NoCallAssumption DEF Written, Early, Writing
<1>2. Ended(c)
  BY DEF Ended, Late, NoDone
<1>3. Audited(c)
  BY DEF Audited
<1> QED
  BY <1>1, <1>2, <1>3 DEF CallInv

LEMMA StepInv == TypeOK /\ Inv /\ [Next]_vars => Inv'
<1> SUFFICES ASSUME TypeOK, Inv, [Next]_vars, NEW d \in Calls PROVE CallInv(d)'
  BY DEF Inv
<1>1. CallInv(d)
  BY DEF Inv
<1>2. CASE UNCHANGED vars
  <2>1. Same(d) /\ StoredStays
    BY <1>2 DEF vars, Same, StoredStays
  <2> QED
    BY <1>1, <2>1, OtherCalls
<1>3. CASE \E c \in Calls : Step(c)
  <2>1. PICK c \in Calls : Step(c)
    BY <1>3
  <2>2. CASE d # c
    <3>1. Same(d) /\ StoredStays
      BY <2>1, <2>2, StepFrame, StepStored DEF Domains, TypeOK, StoreTypeOK, Calls
    <3> QED
      BY <1>1, <3>1, OtherCalls
  <2>3. CASE d = c
    BY <1>1, <2>1, <2>3, CallKeeps, WriteKeeps, CloseKeeps, ReadKeeps, SignKeeps, RecordKeeps DEF Step, Serve
  <2> QED
    BY <2>2, <2>3
<1> QED
  BY <1>2, <1>3 DEF Next, Quiet, Step

(***************************************************************************)
(* The theorems.                                                           *)
(***************************************************************************)

\* What the tables, the records and the answers hold agrees with the point every
\* call has reached.
THEOREM CallsInvariant == Spec => [](TypeOK /\ Inv)
<1>1. Init => TypeOK /\ Inv
  BY InitType, InitInv
<1>2. TypeOK /\ Inv /\ [Next]_vars => TypeOK'
  <2> SUFFICES ASSUME TypeOK, Inv, [Next]_vars PROVE TypeOK'
    OBVIOUS
  <2>1. CASE \E c \in Calls : Step(c)
    BY <2>1, StepType
  <2>2. CASE UNCHANGED vars
    BY <2>2 DEF vars, TypeOK, StoreTypeOK
  <2> QED
    BY <2>1, <2>2 DEF Next, Quiet, Step
<1> QED
  BY <1>1, <1>2, StepInv, PTL DEF Spec

\* Every variable keeps its type.
THEOREM TypeCorrect == Spec => []TypeOK
  BY CallsInvariant, PTL

\* Whatever a client is told is on record, word for word (AnswersAreRecorded).
THEOREM AnswersRecorded == Spec => []AnswersAreRecorded
<1>1. TypeOK /\ Inv => AnswersAreRecorded
  <2> SUFFICES ASSUME TypeOK, Inv, NEW c \in Calls, Answered(c)
               PROVE  /\ Len(records[c]) = 1
                      /\ records[c][1] = [outcome |-> reply[c].outcome, verdict |-> reply[c].verdict,
                                          signed |-> reply[c].signed]
    BY DEF AnswersAreRecorded
  <2>1. reply[c] = Result(c) /\ records[c] = <<RecordOf(c)>>
    BY DEF Inv, CallInv, Audited, Answered, NoReply, Withheld
  <2>2. Result(c).outcome = done[c].outcome /\ Result(c).verdict = done[c].verdict
        /\ Result(c).signed = signed[c]
    BY DEF Result
  <2> QED
    BY <2>1, <2>2 DEF RecordOf
<1> QED
  BY <1>1, CallsInvariant, PTL

\* No record names a verdict that is not stored or mistakes its outcome
\* (RecordsAreTrue).
THEOREM RecordsTrue == Spec => []RecordsAreTrue
<1>1. TypeOK /\ Inv => RecordsAreTrue
  <2> SUFFICES ASSUME TypeOK, Inv, NEW c \in Calls
               PROVE  /\ Len(records[c]) <= 1
                      /\ \A i \in 1..Len(records[c]) :
                            records[c][i].verdict # NoCall =>
                                /\ stored[records[c][i].verdict] # <<>>
                                /\ records[c][i].outcome = "abstained" =>
                                      Abstained(stored[records[c][i].verdict][1])
                                /\ records[c][i].outcome # "error"
    BY DEF RecordsAreTrue
  <2>1. CallInv(c)
    BY DEF Inv
  <2>2. CASE records[c] = <<>>
    BY <2>2
  <2>3. CASE records[c] # <<>>
    <3>1. records[c] = <<RecordOf(c)>> /\ pc[c] = "answered"
      BY <2>1, <2>3 DEF CallInv, Audited
    <3>2. Len(records[c]) = 1 /\ records[c][1] = RecordOf(c)
      BY <3>1
    <3>3. RecordOf(c).verdict = done[c].verdict /\ RecordOf(c).outcome = done[c].outcome
      BY DEF RecordOf
    <3>4. done[c].verdict # NoCall =>
             /\ stored[done[c].verdict] # <<>> /\ done[c].outcome # "error"
             /\ done[c].outcome = "abstained" => Abstained(stored[done[c].verdict][1])
      BY <2>1, <3>1 DEF CallInv, Ended, Late, OutcomeOf
    <3> QED
      BY <3>2, <3>3, <3>4
  <2> QED
    BY <2>2, <2>3
<1> QED
  BY <1>1, CallsInvariant, PTL

\* The verdict a check_conformance ends with is stored, in a run that is complete
\* and reports it, answered or not (CheckedVerdictIsStored).
THEOREM CheckedStored == Spec => []CheckedVerdictIsStored
<1>1. TypeOK /\ Inv => CheckedVerdictIsStored
  <2> SUFFICES ASSUME TypeOK, Inv, NEW c \in Calls, tool[c] = "check_conformance",
                      done[c].outcome # "error"
               PROVE  /\ status[c] = "complete" /\ summary[c] = Report(row[c])
                      /\ stored[c] = <<row[c]>> /\ quotes[c] = RejectedOf(stored[c])
                      /\ Answered(c) => reply[c].verdict = c /\ reply[c].row = row[c]
    BY DEF CheckedVerdictIsStored
  <2>1. CallInv(c)
    BY DEF Inv
  <2>2. done[c].verdict = c /\ status[c] = "complete" /\ c # NoCall
    BY <2>1, NoCallAssumption DEF CallInv, Ended, Calls
  <2>3. stored[c] = <<row[c]>> /\ quotes[c] = RejectedOf(stored[c]) /\ summary[c] = Report(row[c])
    BY <2>1, <2>2 DEF CallInv, Written
  <2>4. ASSUME Answered(c) PROVE reply[c].verdict = c /\ reply[c].row = row[c]
    <3>1. reply[c] = Result(c)
      BY <2>1, <2>4 DEF CallInv, Audited, Answered, NoReply, Withheld
    <3> QED
      BY <2>2, <3>1 DEF Result
  <2> QED
    BY <2>2, <2>3, <2>4
<1> QED
  BY <1>1, CallsInvariant, PTL

\* Two clients answered the same id hold the same verdict (OneVerdictPerId).
THEOREM OnePerId == Spec => []OneVerdictPerId
<1>1. ASSUME TypeOK, Inv, NEW c \in Calls, Answered(c), reply[c].row # NoRow
      PROVE  reply[c].row = stored[reply[c].verdict][1]
  <2>1. CallInv(c) /\ reply[c] = Result(c) /\ pc[c] = "answered"
    BY <1>1 DEF Inv, CallInv, Audited, Answered, NoReply, Withheld
  <2>2. reply[c].verdict = done[c].verdict
        /\ reply[c].row = (IF done[c].verdict = NoCall \/ tool[c] = "verify_verdict" THEN NoRow ELSE row[c])
    BY <2>1 DEF Result
  <2>3. done[c].verdict # NoCall /\ tool[c] # "verify_verdict" /\ reply[c].row = row[c]
    BY <1>1, <2>2
  <2> QED
    BY <2>1, <2>2, <2>3 DEF CallInv, Ended, Late
<1>2. TypeOK /\ Inv => OneVerdictPerId
  BY <1>1 DEF OneVerdictPerId
<1> QED
  BY <1>2, CallsInvariant, PTL

\* After its answer a call writes nothing: the reply, the record and the run it
\* made are final (NothingAfterAnswer).
THEOREM AfterAnswer == Spec => NothingAfterAnswer
<1> DEFINE Final == \A c \in Calls : reply[c].kind # "none" =>
          /\ reply'[c] = reply[c] /\ records'[c] = records[c]
          /\ status'[c] = status[c] /\ stored'[c] = stored[c]
          /\ quotes'[c] = quotes[c] /\ summary'[c] = summary[c]
<1>1. TypeOK /\ Inv /\ [Next]_vars => [Final]_vars
  <2> SUFFICES ASSUME TypeOK, Inv, Next, NEW c \in Calls, reply[c].kind # "none" PROVE Same(c)
    BY DEF Same
  <2>1. pc[c] = "answered"
    BY DEF Inv, CallInv, Audited, NoReply
  <2>2. ~Step(c)
    BY <2>1 DEF Step, Call, Serve, Kill, Prepare, OpenRun, Evaluate, InsertRow, InsertQuote, CompleteRun,
           FailRun, ReadVerdict, Verify, Sign, StoreRecord
  <2>3. CASE \E d \in Calls : Step(d)
    BY <2>2, <2>3, StepFrame DEF TypeOK, StoreTypeOK, Calls, Domains
  <2>4. CASE UNCHANGED vars
    BY <2>4 DEF vars, Same
  <2> QED
    BY <2>3, <2>4 DEF Next, Quiet, Step
<1> HIDE DEF Final
<1>2. Spec => [][Final]_vars
  BY <1>1, CallsInvariant, PTL DEF Spec
<1> QED
  BY <1>2 DEF NothingAfterAnswer, Final

(***************************************************************************)
(* The server implements the run lifecycle.                                *)
(***************************************************************************)
LEMMA RecordStep ==
    ASSUME NEW c \in Calls, \A d \in Calls \ {c} : Same(d)
    PROVE  Record' = [Record EXCEPT ![c] = Record'[c]]
<1>1. \A d \in Runs \ {c} : Record'[d] = Record[d]
  BY DEF Record, Same, Calls
<1>2. Record' = [d \in Runs |-> Record'[d]] /\ Record = [d \in Runs |-> Record[d]] /\ c \in Runs
  BY DEF Record, Calls
<1> HIDE DEF Record
<1> QED
  BY <1>1, <1>2

LEMMA ReportIsSummary == ASSUME NEW r PROVE Report(r) # NoSummary
<1>1. "total" \in DOMAIN Report(r)
  BY DEF Report
<1>2. DOMAIN NoSummary = {}
  BY DEF NoSummary
<1> QED
  BY <1>1, <1>2

LEMMA StepRefines ==
    ASSUME TypeOK, Inv, NEW c \in Calls, Step(c) PROVE Lifecycle!Next \/ Record' = Record
<1>1. Record' = [Record EXCEPT ![c] = Record'[c]] /\ c \in Runs
  BY StepFrame, RecordStep DEF Domains, TypeOK, StoreTypeOK, Calls
<1>2. /\ Record[c] = [phase |-> status[c], rows |-> stored[c],
                      reported |-> IF summary[c] = NoSummary THEN 0 ELSE summary[c].total]
      /\ Record'[c] = [phase |-> status'[c], rows |-> stored'[c],
                       reported |-> IF summary'[c] = NoSummary THEN 0 ELSE summary'[c].total]
  BY <1>1 DEF Record
<1>3. CallInv(c)
  BY DEF Inv
<1>4. CASE UNCHANGED <<status, stored, summary>>
  BY <1>4 DEF Record
<1>5. CASE OpenRun(c) /\ CreateRun(c)
  <2>1. status[c] = "absent" /\ status'[c] = "running" /\ UNCHANGED <<stored, summary>>
    BY <1>3, <1>5 DEF OpenRun, CreateRun, CallInv, Written, Early, TypeOK, StoreTypeOK, Calls
  <2>2. Record[c].phase = "absent" /\ Record'[c] = [Record[c] EXCEPT !.phase = "running"]
    BY <1>2, <2>1
  <2> QED
    BY <1>1, <2>2 DEF Lifecycle!Next, Lifecycle!Create, Lifecycle!Become
<1>6. CASE InsertRow(c) /\ InsertRows(c, <<row[c]>>)
  <2>1. status[c] = "running" /\ stored[c] = <<>> /\ row[c] \in Rows
    BY <1>3, <1>6 DEF InsertRow, CallInv, Written, Writing
  <2>2. stored'[c] = <<row[c]>> /\ UNCHANGED <<status, summary>>
    BY <1>6 DEF InsertRows, TypeOK, StoreTypeOK, Calls
  <2>3. <<row[c]>> \in Seq(Rows)
    BY <2>1, OneRow
  <2>4. /\ Record[c].phase = "running" /\ Record[c].rows = <<>> /\ Record'[c].rows = <<row[c]>>
        /\ Record'[c] = [Record[c] EXCEPT !.rows = <<row[c]>>]
    BY <1>2, <2>1, <2>2
  <2> QED
    BY <1>1, <2>3, <2>4 DEF Lifecycle!Next, Lifecycle!Store, Lifecycle!Become
<1>7. CASE CompleteRun(c) /\ MarkComplete(c, Report(row[c]))
  <2>1. status[c] = "running" /\ stored[c] = <<row[c]>>
    BY <1>3, <1>7 DEF CompleteRun, CallInv, Written, Writing
  <2>2. status'[c] = "complete" /\ summary'[c] = Report(row[c]) /\ stored' = stored
    BY <1>7 DEF MarkComplete, TypeOK, StoreTypeOK, Calls
  <2>3. summary'[c] # NoSummary /\ summary'[c].total = 1
    BY <2>2, ReportIsSummary DEF Report
  <2>4. Len(<<row[c]>>) = 1
    OBVIOUS
  <2>5. /\ Record[c].phase = "running" /\ Record[c].rows = <<row[c]>>
        /\ Record'[c] = [phase |-> "complete", rows |-> Record[c].rows, reported |-> Len(Record[c].rows)]
    BY <1>2, <2>1, <2>2, <2>3, <2>4
  <2> QED
    BY <1>1, <2>5 DEF Lifecycle!Next, Lifecycle!Complete, Lifecycle!Become
<1>8. CASE FailRun(c) /\ MarkFailed(c)
  <2>1. status[c] \in {"running", "complete"} /\ status'[c] = "failed" /\ UNCHANGED <<stored, summary>>
    BY <1>3, <1>8 DEF FailRun, MarkFailed, CallInv, Written, TypeOK, StoreTypeOK, Calls
  <2>2. /\ Record[c].phase \in {"running", "complete"}
        /\ Record'[c] = [Record[c] EXCEPT !.phase = "failed"]
    BY <1>2, <2>1
  <2> QED
    BY <1>1, <2>2 DEF Lifecycle!Next, Lifecycle!Fail, Lifecycle!Become
<1> QED
  BY <1>4, <1>5, <1>6, <1>7, <1>8
     DEF Step, Call, Serve, Kill, Prepare, OpenRun, Evaluate, InsertRow, InsertQuote, CompleteRun,
         FailRun, ReadVerdict, Verify, Sign, StoreRecord, Statement, InsertQuotes, store

\* The server's runs are what their readers rely on, like the web route's.
THEOREM ImplementsRunLifecycle == Spec => ImplementsLifecycle
<1>1. Init => Lifecycle!Init
  BY DEF Init, StoreInit, Lifecycle!Init, Record
<1>2. TypeOK /\ Inv /\ [Next]_vars => [Lifecycle!Next]_Record
  <2> SUFFICES ASSUME TypeOK, Inv, [Next]_vars PROVE Lifecycle!Next \/ Record' = Record
    OBVIOUS
  <2>1. CASE \E c \in Calls : Step(c)
    BY <2>1, StepRefines
  <2>2. CASE UNCHANGED vars
    BY <2>2 DEF vars, Record
  <2> QED
    BY <2>1, <2>2 DEF Next, Quiet, Step
<1> QED
  BY <1>1, <1>2, CallsInvariant, PTL DEF Spec, ImplementsLifecycle, Lifecycle!Spec

(***************************************************************************)
(* The workflow of AgentClient.                                            *)
(***************************************************************************)

\* What the tool of a call answers with names what the call asked for.
Named(c) == pc[c] \in Late =>
                /\ tool[c] = "read_only" => done[c].verdict = NoCall
                /\ tool[c] = "verify_verdict" /\ done[c].outcome # "error" => done[c].verdict = asked[c]

Settled(c) == c \in AgentCalls /\ Answered(c) /\ reply[c].outcome # "error"
Searched(c) == Settled(c) /\ tool[c] = "read_only"
Checked(c) == Settled(c) /\ tool[c] = "check_conformance"
Verified(c, k) == Settled(c) /\ tool[c] = "verify_verdict" /\ asked[c] = k

\* A finding rests on calls that ended.
Rests(f) ==
    /\ Checked(f.id) /\ f.verdict = reply[f.id].row
    /\ f.abstained <=> reply[f.id].outcome = "abstained"
    /\ \E s \in AgentCalls : Searched(s) /\
          IF f.abstained THEN f.records = {s, f.id}
          ELSE \E v \in AgentCalls : Verified(v, f.id) /\ f.records = {s, f.id, v}

\* So do the records and the answer that the graph's state holds.
Collected ==
    /\ agent.node = "check" => \E s \in AgentCalls : Searched(s) /\ agent.records = {s}
    /\ agent.node = "verify" =>
          \E s, k \in AgentCalls : /\ Searched(s) /\ Checked(k) /\ agent.records = {s, k}
                                   /\ agent.current = reply[k] /\ reply[k].outcome # "abstained"

\* The call it awaits was made for the node, and is new.
Awaited ==
    agent.call # NoCall =>
        /\ Calling /\ agent.call \in AgentCalls /\ pc[agent.call] # "idle"
        /\ tool[agent.call] = ToolOf(agent.node)
        /\ agent.node = "verify" => asked[agent.call] = agent.current.verdict
        /\ \A f \in agent.findings : agent.call \notin f.records

\* Each finding has records of its own.
Apart ==
    /\ \A f, g \in agent.findings : f # g => f.records \cap g.records = {}
    /\ agent.node \in {"check", "verify"} => \A f \in agent.findings : f.records \cap agent.records = {}

\* No requirement is lost.
Counted ==
    /\ agent.queue \in 0..Requirements
    /\ Calling => agent.queue > 0
    /\ {f.requirement : f \in agent.findings} = (agent.queue + 1)..Requirements
    /\ agent.toReview = {f.requirement : f \in {g \in agent.findings : g.abstained}}

AgentInv == (\A f \in agent.findings : Rests(f)) /\ Collected /\ Awaited /\ Apart /\ Counted

NamedInv == \A c \in Calls : Named(c)

AgentShape ==
    agent = [node |-> agent.node, call |-> agent.call, queue |-> agent.queue,
             current |-> agent.current, records |-> agent.records,
             findings |-> agent.findings, toReview |-> agent.toReview]

LEMMA NamedStep ==
    ASSUME TypeOK, Inv, NamedInv, [Next]_vars PROVE NamedInv'
<1> SUFFICES ASSUME NEW d \in Calls PROVE Named(d)'
  BY DEF NamedInv
<1>1. Named(d) /\ CallInv(d)
  BY DEF NamedInv, Inv
<1>2. CASE Same(d)
  BY <1>1, <1>2 DEF Same, Named
<1>3. CASE Step(d)
  <2>0. DOMAIN pc = Calls /\ DOMAIN done = Calls /\ DOMAIN tool = Calls /\ DOMAIN asked = Calls
    BY DEF TypeOK
  <2> USE <1>1, <2>0 DEF Named, Late, Goto, Finish, request
  <2>1. CASE Call(d)
    BY <2>1 DEF Call
  <2>2. CASE Prepare(d)
    BY <2>2 DEF Prepare, Throw, Writing
  <2>3. CASE OpenRun(d) \/ Evaluate(d) \/ InsertRow(d) \/ InsertQuote(d) \/ CompleteRun(d) \/ FailRun(d)
    <3>1. tool[d] = "check_conformance" /\ tool'[d] = tool[d]
      BY <2>3 DEF CallInv, Written, Writing, OpenRun, Evaluate, InsertRow, InsertQuote, CompleteRun, FailRun
    <3> QED
      BY <3>1
  <2>4. CASE ReadVerdict(d)
    BY <2>4 DEF ReadVerdict, Throw, Writing, CallInv, Written, TypeOK
  <2>5. CASE Verify(d)
    BY <2>5 DEF Verify, Throw, Writing, CallInv, Written
  <2>6. CASE Sign(d) \/ StoreRecord(d) \/ Kill(d)
    BY <2>6 DEF Sign, StoreRecord, AnswerWith, Kill
  <2> QED
    BY <1>3, <2>1, <2>2, <2>3, <2>4, <2>5, <2>6 DEF Step, Serve
<1>4. Same(d) \/ Step(d)
  BY StepFrame DEF TypeOK, StoreTypeOK, Calls, Domains, Next, Quiet, Step, vars, Same
<1> QED
  BY <1>2, <1>3, <1>4

\* An answered call is left alone; one that was made keeps its tool.
LEMMA AnsweredStays ==
    ASSUME TypeOK, Inv, [Next]_vars, NEW c \in Calls PROVE
           /\ Answered(c) => Same(c)
           /\ pc[c] # "idle" => pc'[c] # "idle" /\ tool'[c] = tool[c] /\ asked'[c] = asked[c]
<1>1. Same(c) \/ Step(c)
  BY StepFrame DEF TypeOK, StoreTypeOK, Calls, Domains, Next, Quiet, Step, vars, Same
<1>2. CASE Same(c)
  BY <1>2 DEF Same
<1>3. CASE Step(c)
  <2>1. Answered(c) => pc[c] = "answered"
    BY DEF Inv, CallInv, Audited, NoReply, Answered
  <2>2. pc[c] # "answered"
    BY <1>3 DEF Step, Call, Serve, Kill, Prepare, OpenRun, Evaluate, InsertRow, InsertQuote, CompleteRun,
           FailRun, ReadVerdict, Verify, Sign, StoreRecord
  <2>3. pc[c] # "idle" => tool' = tool /\ asked' = asked
    BY <1>3 DEF Step, Call, Serve, Kill, Prepare, OpenRun, Evaluate, InsertRow, InsertQuote, CompleteRun,
           FailRun, ReadVerdict, Verify, Sign, StoreRecord, request
  <2>4. pc'[c] # "idle"
    BY <1>3 DEF Step, Call, Serve, Kill, Prepare, OpenRun, Evaluate, InsertRow, InsertQuote, CompleteRun,
           FailRun, ReadVerdict, Verify, Sign, StoreRecord, Goto, Finish, Throw, Statement, AnswerWith, TypeOK
  <2> QED
    BY <2>1, <2>2, <2>3, <2>4
<1> QED
  BY <1>1, <1>2, <1>3

\* What an answered check says.
LEMMA CheckedAnswer ==
    ASSUME TypeOK, Inv, NEW k, Checked(k)
    PROVE  /\ reply[k].verdict = k /\ status[k] = "complete" /\ stored[k] = <<reply[k].row>>
           /\ reply[k].outcome = OutcomeOf(reply[k].row)
<1>1. k \in Calls /\ k # NoCall
  BY AgentAssumption, NoCallAssumption DEF Checked, Settled, Calls
<1>2. CallInv(k) /\ reply[k] = Result(k) /\ pc[k] = "answered"
  BY <1>1 DEF Inv, CallInv, Audited, Checked, Settled, Answered, NoReply, Withheld
<1>3. reply[k].outcome = done[k].outcome /\ reply[k].verdict = done[k].verdict
      /\ reply[k].row = (IF done[k].verdict = NoCall \/ tool[k] = "verify_verdict" THEN NoRow ELSE row[k])
  BY <1>2 DEF Result
<1>4. done[k].verdict = k /\ status[k] = "complete"
  BY <1>2, <1>3 DEF CallInv, Ended, Late, Checked, Settled
<1>5. reply[k].row = row[k] /\ done[k].outcome = OutcomeOf(row[k])
  BY <1>1, <1>2, <1>3, <1>4 DEF CallInv, Ended, Late, Checked
<1>6. stored[k] = <<row[k]>>
  BY <1>2, <1>4 DEF CallInv, Written
<1> QED
  BY <1>3, <1>4, <1>5, <1>6

\* What the records of the other calls name.
LEMMA RecordOfAnswer ==
    ASSUME TypeOK, Inv, NamedInv, NEW c, Settled(c)
    PROVE  /\ Len(records[c]) = 1 /\ records[c][1].verdict = reply[c].verdict
           /\ tool[c] = "read_only" => reply[c].verdict = NoCall
           /\ tool[c] = "verify_verdict" => reply[c].verdict = asked[c]
<1>1. c \in Calls
  BY AgentAssumption DEF Settled, Calls
<1>2. reply[c] = Result(c) /\ records[c] = <<RecordOf(c)>> /\ pc[c] = "answered"
  BY <1>1 DEF Inv, CallInv, Audited, Settled, Answered, NoReply, Withheld
<1>3. reply[c].verdict = done[c].verdict /\ reply[c].outcome = done[c].outcome
      /\ RecordOf(c).verdict = done[c].verdict
  BY <1>2 DEF Result, RecordOf
<1> QED
  BY <1>1, <1>2, <1>3 DEF NamedInv, Named, Late, Settled

\* Calls that ended, and the findings that rest on them, stay as they are.
LEMMA EndedStays ==
    ASSUME TypeOK, Inv, [Next]_vars
    PROVE  /\ \A c \in AgentCalls : Settled(c) => Settled(c)' /\ reply'[c] = reply[c]
           /\ \A c \in AgentCalls : Searched(c) => Searched(c)'
           /\ \A c \in AgentCalls : Checked(c) => Checked(c)'
           /\ \A c \in AgentCalls : \A k : Verified(c, k) => Settled(c)' /\ tool'[c] = tool[c] /\ asked'[c] = asked[c]
<1>1. \A c \in AgentCalls : Answered(c) => Same(c)
  BY AnsweredStays, AgentAssumption DEF Calls
<1> QED
  BY <1>1 DEF Same, Settled, Searched, Checked, Verified, Answered

LEMMA RestsStays ==
    ASSUME TypeOK, Inv, [Next]_vars, NEW f, Rests(f)
    PROVE  Rests(f)'
<1>1. f.id \in AgentCalls /\ Checked(f.id)' /\ reply'[f.id] = reply[f.id]
  BY EndedStays DEF Rests, Checked, Settled
<1>2. PICK s \in AgentCalls :
          /\ Searched(s)
          /\ IF f.abstained THEN f.records = {s, f.id}
             ELSE \E v \in AgentCalls : Verified(v, f.id) /\ f.records = {s, f.id, v}
  BY DEF Rests
<1>3. Searched(s)'
  BY <1>2, EndedStays
<1>4. \A v \in AgentCalls : Verified(v, f.id) => Verified(v, f.id)'
  BY EndedStays DEF Verified
<1> QED
  BY <1>1, <1>2, <1>3, <1>4 DEF Rests

\* The steps of the server leave the workflow where it is.
LEMMA ServerStep ==
    ASSUME TypeOK, Inv, AgentInv, [Next]_vars, UNCHANGED agent
    PROVE  AgentInv'
<1>1. \A f \in agent.findings : Rests(f)'
  BY RestsStays DEF AgentInv
<1>2. Collected'
  <2>1. agent.node = "check" => \E s \in AgentCalls : Searched(s)' /\ agent.records = {s}
    BY EndedStays DEF AgentInv, Collected
  <2>2. agent.node = "verify" =>
          \E s, k \in AgentCalls : /\ Searched(s)' /\ Checked(k)' /\ agent.records = {s, k}
                                   /\ agent.current = reply'[k] /\ reply'[k].outcome # "abstained"
    BY EndedStays DEF AgentInv, Collected, Checked
  <2> QED
    BY <2>1, <2>2 DEF Collected
<1>3. Awaited'
  <2> SUFFICES ASSUME agent.call # NoCall PROVE Awaited'
    BY DEF Awaited
  <2>1. agent.call \in Calls /\ pc[agent.call] # "idle"
    BY AgentAssumption DEF AgentInv, Awaited, Calls
  <2> QED
    BY <2>1, AnsweredStays DEF AgentInv, Awaited, Calling, ToolOf
<1>4. Apart' /\ Counted'
  BY DEF AgentInv, Apart, Counted, Calling
<1> QED
  BY <1>1, <1>2, <1>3, <1>4 DEF AgentInv

\* A call is made.
LEMMA InvokeStep ==
    ASSUME TypeOK, Inv, AgentInv, AgentShape, Invoke
    PROVE  AgentInv' /\ AgentShape'
<1> DEFINE c == CHOOSE i \in Idle : TRUE
<1>1. c \in AgentCalls /\ pc[c] = "idle" /\ c \in Calls /\ c # NoCall
  BY AgentAssumption, NoCallAssumption DEF Invoke, Idle, Calls
<1>2. /\ Call(c) /\ tool'[c] = ToolOf(agent.node)
      /\ asked'[c] = IF agent.node = "verify" THEN agent.current.verdict ELSE NoCall
      /\ agent' = [agent EXCEPT !.call = c] /\ Calling
  BY DEF Invoke
<1> HIDE DEF c
<1>3. [Next]_vars
  BY <1>1, <1>2 DEF Next
<1>4. AgentShape' /\ agent'.call = c /\ agent'.node = agent.node /\ agent'.queue = agent.queue
      /\ agent'.current = agent.current /\ agent'.records = agent.records
      /\ agent'.findings = agent.findings /\ agent'.toReview = agent.toReview
  BY <1>2 DEF AgentShape
<1>5. \A f \in agent.findings : Rests(f)'
  BY <1>3, RestsStays DEF AgentInv
<1>6. Collected'
  <2>1. agent.node = "check" => \E s \in AgentCalls : Searched(s)' /\ agent.records = {s}
    BY <1>3, EndedStays DEF AgentInv, Collected
  <2>2. agent.node = "verify" =>
          \E s, k \in AgentCalls : /\ Searched(s)' /\ Checked(k)' /\ agent.records = {s, k}
                                   /\ agent.current = reply'[k] /\ reply'[k].outcome # "abstained"
    BY <1>3, EndedStays DEF AgentInv, Collected, Checked
  <2> QED
    BY <2>1, <2>2, <1>4 DEF Collected
<1>7. Awaited'
  <2>1. pc'[c] # "idle"
    BY <1>1, <1>2 DEF Call, Goto, TypeOK
  <2>2. ~Answered(c)
    BY <1>1 DEF Inv, CallInv, Audited, NoReply, Answered
  <2>3. \A f \in agent.findings : c \notin f.records
    BY <2>2 DEF AgentInv, Rests, Searched, Checked, Verified, Settled
  <2> QED
    BY <1>1, <1>2, <1>4, <2>1, <2>3 DEF Awaited, Calling, ToolOf
<1>8. Apart' /\ Counted'
  BY <1>4 DEF AgentInv, Apart, Counted, Calling
<1> QED
  BY <1>4, <1>5, <1>6, <1>7, <1>8 DEF AgentInv

\* A finding is added; f is what Finding adds.
LEMMA FindingStep ==
    ASSUME TypeOK, Inv, AgentInv, AgentShape, UNCHANGED vars, Calling,
           NEW answer, NEW ids, NEW withheld \in BOOLEAN, agent' = Finding(answer, ids, withheld),
           NEW f, f = [requirement |-> agent.queue, abstained |-> withheld,
                       verdict |-> answer.row, id |-> answer.verdict, records |-> ids],
           Rests(f), \A g \in agent.findings : g.records \cap ids = {}
    PROVE  AgentInv' /\ AgentShape'
<1>1. /\ AgentShape' /\ agent'.node = NextRequirement /\ agent'.call = NoCall
      /\ agent'.queue = agent.queue - 1 /\ agent'.findings = agent.findings \cup {f}
      /\ agent'.toReview = IF withheld THEN agent.toReview \cup {agent.queue} ELSE agent.toReview
  BY DEF AgentShape, Finding
<1>2. f.requirement = agent.queue /\ f.abstained = withheld /\ f.records = ids
  OBVIOUS
<1>3. \A g \in agent'.findings : Rests(g)'
  <2>1. \A g : Rests(g) => Rests(g)'
    BY DEF vars, Rests, Searched, Checked, Verified, Settled, Answered
  <2> QED
    BY <1>1, <2>1 DEF AgentInv
<1>4. agent'.node \in {"search", "end"}
  BY <1>1 DEF NextRequirement
<1>5. Collected' /\ Awaited'
  BY <1>1, <1>4 DEF Collected, Awaited
<1>6. Apart'
  <2>1. \A g, h \in agent'.findings : g # h => g.records \cap h.records = {}
    BY <1>1, <1>2 DEF AgentInv, Apart
  <2> QED
    BY <1>4, <2>1 DEF Apart
<1>7. Counted'
  <2>1. agent.queue \in 1..Requirements /\ Requirements \in Nat
    BY AgentAssumption DEF AgentInv, Counted
  <2>2. agent'.queue \in 0..Requirements /\ (Calling' => agent'.queue > 0)
    BY <1>1, <2>1 DEF NextRequirement, Calling
  <2>3. {g.requirement : g \in agent'.findings} = {g.requirement : g \in agent.findings} \cup {agent.queue}
    BY <1>1, <1>2
  <2>4. {g.requirement : g \in agent'.findings} = (agent'.queue + 1)..Requirements
    BY <1>1, <2>1, <2>3 DEF AgentInv, Counted
  <2>5. {g.requirement : g \in {h \in agent'.findings : h.abstained}}
           = IF withheld THEN {g.requirement : g \in {h \in agent.findings : h.abstained}} \cup {agent.queue}
             ELSE {g.requirement : g \in {h \in agent.findings : h.abstained}}
    BY <1>1, <1>2
  <2> QED
    BY <1>1, <2>2, <2>4, <2>5 DEF AgentInv, Counted
<1> QED
  BY <1>1, <1>3, <1>5, <1>6, <1>7 DEF AgentInv

LEMMA TwoElements ==
    ASSUME NEW x, NEW y, x # y PROVE IsFiniteSet({x, y}) /\ Cardinality({x, y}) = 2
<1>1. IsFiniteSet({x}) /\ Cardinality({x}) = 1
  BY FS_Singleton
<1>2. {x, y} = {x} \cup {y} /\ y \notin {x}
  OBVIOUS
<1> QED
  BY <1>1, <1>2, FS_AddElement

\* The answer to the call is heard.
LEMMA HearStep ==
    ASSUME TypeOK, Inv, AgentInv, AgentShape, Hear
    PROVE  AgentInv' /\ AgentShape'
<1>0. PICK c : c = agent.call
  OBVIOUS
<1> DEFINE answer == reply[c]
           ids == agent.records \cup {c}
<1>1. /\ c \in AgentCalls /\ Calling /\ tool[c] = ToolOf(agent.node)
      /\ agent.node = "verify" => asked[c] = agent.current.verdict
      /\ \A f \in agent.findings : c \notin f.records
  BY <1>0 DEF Hear, AgentInv, Awaited
<1>2. UNCHANGED vars
  BY DEF Hear
<1>3. CASE agent' = Thrown
  <2>1. AgentShape' /\ agent'.node = "thrown" /\ agent'.call = NoCall /\ agent'.queue = agent.queue
        /\ agent'.findings = agent.findings /\ agent'.toReview = agent.toReview
    BY <1>3 DEF AgentShape, Thrown
  <2>2. \A f : Rests(f) => Rests(f)'
    BY <1>2, RestsStays
  <2> QED
    BY <2>1, <2>2 DEF AgentInv, Collected, Awaited, Apart, Counted, Calling
<1>4. CASE Answered(c) /\ answer.outcome # "error" /\ agent' = After(answer)
  <2>0. Settled(c)
    BY <1>1, <1>4 DEF Settled
  <2>1. CASE agent.node = "search"
    <3>1. agent' = [agent EXCEPT !.node = "check", !.call = NoCall, !.records = {c}]
      BY <1>0, <1>4, <2>1 DEF After
    <3>2. AgentShape' /\ agent'.node = "check" /\ agent'.call = NoCall /\ agent'.queue = agent.queue
          /\ agent'.findings = agent.findings /\ agent'.toReview = agent.toReview /\ agent'.records = {c}
      BY <3>1 DEF AgentShape
    <3>3. Searched(c)'
      BY <1>1, <1>2, <2>0, <2>1 DEF Searched, Settled, Answered, ToolOf, vars
    <3>4. \A f : Rests(f) => Rests(f)'
      BY <1>2, RestsStays
    <3>5. Collected' /\ Awaited'
      BY <1>1, <3>2, <3>3 DEF Collected, Awaited
    <3>6. Apart' /\ Counted'
      BY <1>1, <3>2 DEF AgentInv, Apart, Counted, Calling
    <3> QED
      BY <3>2, <3>4, <3>5, <3>6 DEF AgentInv
  <2>2. CASE agent.node = "check"
    <3>1. agent' = AfterCheck(answer, ids)
      BY <1>0, <1>4, <2>2 DEF After
    <3>2. Checked(c)
      BY <1>1, <2>0, <2>2 DEF Checked, ToolOf
    <3>3. PICK s \in AgentCalls : Searched(s) /\ agent.records = {s}
      BY <2>2 DEF AgentInv, Collected
    <3>4. answer.verdict = c
      BY <3>2, CheckedAnswer
    <3>5. \A f \in agent.findings : f.records \cap ids = {}
      BY <1>1, <2>2 DEF AgentInv, Apart
    <3>6. CASE answer.outcome = "abstained"
      <4> DEFINE f == [requirement |-> agent.queue, abstained |-> TRUE,
                       verdict |-> answer.row, id |-> answer.verdict, records |-> ids]
      <4>1. agent' = Finding(answer, ids, TRUE)
        BY <3>1, <3>6 DEF AfterCheck
      <4>2. f.abstained = TRUE /\ f.verdict = reply[c].row /\ f.id = c /\ f.records = {s, c}
        BY <3>3, <3>4
      <4> HIDE DEF f
      <4>3. Rests(f)
        BY <3>2, <3>3, <3>6, <4>2 DEF Rests
      <4> QED
        BY <1>1, <1>2, <3>5, <4>1, <4>3, FindingStep DEF f
    <3>7. CASE answer.outcome # "abstained"
      <4>1. agent' = [agent EXCEPT !.node = "verify", !.call = NoCall, !.records = ids, !.current = answer]
        BY <3>1, <3>7 DEF AfterCheck
      <4>2. AgentShape' /\ agent'.node = "verify" /\ agent'.call = NoCall /\ agent'.queue = agent.queue
            /\ agent'.findings = agent.findings /\ agent'.toReview = agent.toReview
            /\ agent'.records = ids /\ agent'.current = answer
        BY <4>1 DEF AgentShape
      <4>3. Searched(s)' /\ Checked(c)' /\ agent'.current = reply'[c] /\ reply'[c].outcome # "abstained"
        BY <1>2, <3>2, <3>3, <3>7, <4>2 DEF vars, Searched, Checked, Settled, Answered
      <4>4. \A f : Rests(f) => Rests(f)'
        BY <1>2, RestsStays
      <4>5. Collected' /\ Awaited'
        BY <1>1, <3>3, <4>2, <4>3 DEF Collected, Awaited
      <4>6. Apart' /\ Counted'
        BY <1>1, <3>5, <4>2 DEF AgentInv, Apart, Counted, Calling
      <4> QED
        BY <4>2, <4>4, <4>5, <4>6 DEF AgentInv
    <3> QED
      BY <3>6, <3>7
  <2>3. CASE agent.node = "verify"
    <3>1. agent' = Finding(agent.current, ids, FALSE)
      BY <1>0, <1>4, <2>3 DEF After
    <3>2. PICK s, k \in AgentCalls :
              /\ Searched(s) /\ Checked(k) /\ agent.records = {s, k}
              /\ agent.current = reply[k] /\ reply[k].outcome # "abstained"
      BY <2>3 DEF AgentInv, Collected
    <3>3. agent.current.verdict = k
      BY <3>2, CheckedAnswer
    <3>4. Verified(c, k)
      BY <1>1, <2>0, <2>3, <3>3 DEF Verified, ToolOf
    <3>5. \A f \in agent.findings : f.records \cap ids = {}
      BY <1>1, <2>3 DEF AgentInv, Apart
    <3> DEFINE f == [requirement |-> agent.queue, abstained |-> FALSE,
                     verdict |-> agent.current.row, id |-> agent.current.verdict, records |-> ids]
    <3>6. f.abstained = FALSE /\ f.verdict = reply[k].row /\ f.id = k /\ f.records = {s, k, c}
      BY <3>2, <3>3
    <3> HIDE DEF f
    <3>7. Rests(f)
      BY <1>1, <3>2, <3>4, <3>6 DEF Rests
    <3> QED
      BY <1>1, <1>2, <3>1, <3>5, <3>7, FindingStep DEF f
  <2> QED
    BY <1>1, <2>1, <2>2, <2>3 DEF Calling
<1> QED
  BY <1>0, <1>3, <1>4 DEF Hear

LEMMA AgentStep ==
    ASSUME TypeOK, Inv, AgentInv, AgentShape, [AgentNext]_agentVars
    PROVE  AgentInv' /\ AgentShape' /\ [Next]_vars
<1>1. CASE Invoke
  <2>1. [Next]_vars
    BY <1>1, AgentAssumption DEF Invoke, Idle, Next, Calls
  <2> QED
    BY <1>1, <2>1, InvokeStep
<1>2. CASE Hear
  BY <1>2, HearStep DEF Hear
<1>3. CASE ~Invoke /\ ~Hear
  <2>1. [Next]_vars /\ UNCHANGED agent
    BY <1>3 DEF AgentNext, Finished, agentVars, Others, Next
  <2> QED
    BY <2>1, ServerStep DEF AgentShape
<1> QED
  BY <1>1, <1>2, <1>3

\* What the workflow's state holds rests on calls that ended.
THEOREM AgentInvariant == AgentSpec => [](TypeOK /\ Inv /\ NamedInv /\ AgentInv /\ AgentShape)
<1>1. AgentInit => TypeOK /\ Inv /\ NamedInv /\ AgentInv /\ AgentShape
  <2> SUFFICES ASSUME AgentInit PROVE TypeOK /\ Inv /\ NamedInv /\ AgentInv /\ AgentShape
    OBVIOUS
  <2>1. TypeOK /\ Inv
    BY InitType, InitInv DEF AgentInit
  <2>2. NamedInv
    BY DEF NamedInv, Named, AgentInit, Init, Late
  <2>3. AgentShape
    BY DEF AgentShape, AgentInit
  <2>4. agent.findings = {} /\ agent.toReview = {} /\ agent.call = NoCall /\ agent.queue = Requirements
        /\ agent.node = IF Requirements = 0 THEN "end" ELSE "search"
    BY DEF AgentInit
  <2>5. AgentInv
    BY <2>4, AgentAssumption DEF AgentInv, Collected, Awaited, Apart, Counted, Calling
  <2> QED
    BY <2>1, <2>2, <2>3, <2>5
<1>2. TypeOK /\ Inv /\ [Next]_vars => TypeOK'
  <2> SUFFICES ASSUME TypeOK, Inv, [Next]_vars PROVE TypeOK'
    OBVIOUS
  <2>1. CASE \E c \in Calls : Step(c)
    BY <2>1, StepType
  <2>2. CASE UNCHANGED vars
    BY <2>2 DEF vars, TypeOK, StoreTypeOK
  <2> QED
    BY <2>1, <2>2 DEF Next, Quiet, Step
<1>3. TypeOK /\ Inv /\ NamedInv /\ AgentInv /\ AgentShape /\ [AgentNext]_agentVars
          => (TypeOK /\ Inv /\ NamedInv /\ AgentInv /\ AgentShape)'
  BY <1>2, StepInv, NamedStep, AgentStep
<1> QED
  BY <1>1, <1>3, PTL DEF AgentSpec

\* Driving the server, the workflow does what its other clients may do: what is
\* proved of the server holds of the two together.
THEOREM AgentIsAClient == AgentSpec => Spec
<1>1. AgentInit => Init
  BY DEF AgentInit
<1>2. TypeOK /\ Inv /\ NamedInv /\ AgentInv /\ AgentShape /\ [AgentNext]_agentVars => [Next]_vars
  BY AgentStep
<1> QED
  BY <1>1, <1>2, AgentInvariant, PTL DEF AgentSpec, Spec

\* The report repeats what is stored, in whatever company (FindingsAreTrue).
THEOREM FindingsTrue == AgentSpec => []FindingsAreTrue
<1>1. ASSUME TypeOK, Inv, NamedInv, AgentInv, NEW f \in agent.findings
      PROVE  /\ stored[f.id] = <<f.verdict>> /\ status[f.id] = "complete"
             /\ f.abstained <=> Abstained(stored[f.id][1])
             /\ Cardinality(f.records) = IF f.abstained THEN 2 ELSE 3
             /\ \A c \in f.records :
                   /\ Len(records[c]) = 1
                   /\ records[c][1].verdict \in {f.id, NoCall}
                   /\ records[c][1].verdict = NoCall <=> tool[c] = "read_only"
             /\ f.id \in f.records
  <2>1. Rests(f)
    BY <1>1 DEF AgentInv
  <2>2. /\ reply[f.id].verdict = f.id /\ status[f.id] = "complete" /\ stored[f.id] = <<f.verdict>>
        /\ reply[f.id].outcome = OutcomeOf(f.verdict)
    BY <1>1, <2>1, CheckedAnswer DEF Rests
  <2>3. f.abstained <=> Abstained(stored[f.id][1])
    BY <2>1, <2>2 DEF Rests, OutcomeOf
  <2>4. f.id # NoCall
    BY <2>1, AgentAssumption, NoCallAssumption DEF Rests, Checked, Settled
  <2>5. PICK s \in AgentCalls : Searched(s) /\
            IF f.abstained THEN f.records = {s, f.id}
            ELSE \E v \in AgentCalls : Verified(v, f.id) /\ f.records = {s, f.id, v}
    BY <2>1 DEF Rests
  <2>6. \A c \in f.records :
           /\ Len(records[c]) = 1
           /\ records[c][1].verdict \in {f.id, NoCall}
           /\ records[c][1].verdict = NoCall <=> tool[c] = "read_only"
    BY <1>1, <2>1, <2>2, <2>4, <2>5, RecordOfAnswer DEF Rests, Searched, Checked, Verified
  <2>7. Cardinality(f.records) = IF f.abstained THEN 2 ELSE 3
    <3>1. CASE f.abstained
      <4>1. s # f.id /\ f.records = {s, f.id}
        BY <2>1, <2>5, <3>1 DEF Rests, Searched, Checked
      <4>2. Cardinality({s, f.id}) = 2
        BY <4>1, TwoElements
      <4> QED
        BY <3>1, <4>1, <4>2
    <3>2. CASE ~f.abstained
      <4>1. PICK v \in AgentCalls : Verified(v, f.id) /\ f.records = {s, f.id, v}
        BY <2>5, <3>2
      <4>2. s # f.id /\ v \notin {s, f.id}
        BY <2>1, <2>5, <4>1 DEF Rests, Searched, Checked, Verified
      <4>3. Cardinality({s, f.id}) = 2 /\ IsFiniteSet({s, f.id})
        BY <4>2, TwoElements
      <4>4. Cardinality({s, f.id} \cup {v}) = 2 + 1
        <5> DEFINE S == {s, f.id}
        <5>1. IsFiniteSet(S) /\ Cardinality(S) = 2 /\ v \notin S
          BY <4>2, <4>3
        <5> HIDE DEF S
        <5>2. Cardinality(S \cup {v}) = 2 + 1
          BY <5>1, FS_AddElement
        <5> QED
          BY <5>2 DEF S
      <4>5. f.records = {s, f.id} \cup {v}
        BY <4>1
      <4> QED
        BY <3>2, <4>4, <4>5
    <3> QED
      BY <3>1, <3>2
  <2>8. f.id \in f.records
    BY <2>5
  <2> QED
    BY <2>2, <2>3, <2>6, <2>7, <2>8
<1>2. TypeOK /\ Inv /\ NamedInv /\ AgentInv => FindingsAreTrue
  <2> SUFFICES ASSUME TypeOK, Inv, NamedInv, AgentInv PROVE FindingsAreTrue
    OBVIOUS
  <2>1. \A f \in agent.findings : \A g \in agent.findings \ {f} : f.id # g.id /\ f.records \cap g.records = {}
    BY <1>1 DEF AgentInv, Apart
  <2>2. agent.toReview = {f.requirement : f \in {g \in agent.findings : g.abstained}}
        /\ {f.requirement : f \in agent.findings} = (agent.queue + 1)..Requirements
    BY DEF AgentInv, Counted
  <2> QED
    BY <1>1, <2>1, <2>2 DEF FindingsAreTrue
<1> QED
  BY <1>2, AgentInvariant, PTL

=============================================================================
