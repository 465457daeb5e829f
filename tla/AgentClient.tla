----------------------------- MODULE AgentClient -----------------------------
(***************************************************************************)
(* A workflow that completes a task through the MCP server                 *)
(* (examples/mcp/agent-client.ts): for each requirement it searches the    *)
(* spec, checks conformance and verifies the signed verdict, or hands an   *)
(* abstention to a human.  The server is McpServer, with other clients     *)
(* calling it at the same time; the workflow awaits one call at a time.    *)
(***************************************************************************)
EXTENDS McpServer

CONSTANTS AgentCalls,      \* the calls of the workflow; the others are other clients'
          Requirements     \* how many requirements it is given, the queue being their number left

ASSUME AgentAssumption == AgentCalls \subseteq Runs /\ Requirements \in Nat

VARIABLE agent   \* the graph's node, the call it awaits, the state of the graph

agentVars == <<vars, agent>>

AgentInit ==
    /\ Init
    /\ agent = [node |-> IF Requirements = 0 THEN "end" ELSE "search", call |-> NoCall,
                queue |-> Requirements, current |-> NoReply, records |-> {}, findings |-> {},
                toReview |-> {}]

ToolOf(node) == CASE node = "search" -> "read_only"
                  [] node = "check"  -> "check_conformance"
                  [] node = "verify" -> "verify_verdict"

Calling == agent.node \in {"search", "check", "verify"}

Idle == {c \in AgentCalls : pc[c] = "idle"}

\* tool(): the next call, with the arguments of the node.
Invoke ==
    /\ Calling /\ agent.call = NoCall /\ Idle # {}
    /\ LET c == CHOOSE i \in Idle : TRUE IN
          /\ Call(c)
          /\ tool'[c] = ToolOf(agent.node)
          /\ asked'[c] = IF agent.node = "verify" THEN agent.current.verdict ELSE NoCall
          /\ agent' = [agent EXCEPT !.call = c]

\* After a finding the queue is one shorter; the graph ends with the queue.
NextRequirement == IF agent.queue > 1 THEN "search" ELSE "end"

\* The nodes escalate, which calls nothing, and verify end with a finding on
\* the answer of check.
Finding(answer, ids, withheld) ==
    [agent EXCEPT !.node = NextRequirement, !.call = NoCall, !.queue = @ - 1, !.current = NoReply,
        !.findings = @ \cup {[requirement |-> agent.queue, abstained |-> withheld,
                              verdict |-> answer.row, id |-> answer.verdict, records |-> ids]},
        !.toReview = IF withheld THEN @ \cup {agent.queue} ELSE @]

\* Mutant: the route looks at the verdict, not at whether it was withheld.
AfterCheckByVerdict(answer, ids) ==
    IF answer.row.verdict = "insufficient_evidence" THEN Finding(answer, ids, TRUE)
    ELSE [agent EXCEPT !.node = "verify", !.call = NoCall, !.records = ids, !.current = answer]

\* The conditional edge after check.
AfterCheck(answer, ids) ==
    IF answer.outcome = "abstained" THEN Finding(answer, ids, TRUE)
    ELSE [agent EXCEPT !.node = "verify", !.call = NoCall, !.records = ids, !.current = answer]

\* What the node makes of the answer to its call.  search starts the list of
\* record ids of its requirement, the other nodes add to it.
After(answer) ==
    LET ids == agent.records \cup {agent.call} IN
    CASE agent.node = "search" -> [agent EXCEPT !.node = "check", !.call = NoCall,
                                                !.records = {agent.call}]
      [] agent.node = "check"  -> AfterCheck(answer, ids)
      [] agent.node = "verify" -> Finding(agent.current, ids, FALSE)

Thrown == [agent EXCEPT !.node = "thrown", !.call = NoCall]

\* An answer that is an error throws, and so does a call whose server is gone:
\* the workflow ends, and what it found so far is not reported.
Hear ==
    /\ agent.call # NoCall
    /\ LET answer == reply[agent.call] IN
          \/ /\ Answered(agent.call)
             /\ agent' = IF answer.outcome = "error" THEN Thrown ELSE After(answer)
          \/ /\ pc[agent.call] = "killed" \/ answer = Withheld
             /\ agent' = Thrown
    /\ UNCHANGED vars

Others == Calls \ AgentCalls

\* The workflow has ended, and so has every call that was made.
Finished ==
    /\ ~Calling
    /\ \A c \in Others : pc[c] \in {"answered", "killed"}
    /\ UNCHANGED agentVars

AgentNext ==
    \/ Invoke \/ Hear \/ Finished
    \/ ((\E c \in Others : Call(c)) \/ (\E c \in Calls : Serve(c) \/ Kill(c))) /\ UNCHANGED agent

AgentSpec == AgentInit /\ [][AgentNext]_agentVars

(***************************************************************************)
(* Properties.                                                             *)
(***************************************************************************)

\* Whatever other clients do meanwhile: each finding of the report repeats the
\* verdict stored under its id, says truly whether it was withheld, and names
\* one stored record for each of its own calls and no other finding's; what was
\* withheld, and only that, waits for a human, and no requirement is lost
\* (agent-client.ts:39-66).
FindingsAreTrue ==
    /\ \A f \in agent.findings :
          /\ stored[f.id] = <<f.verdict>> /\ status[f.id] = "complete"
          /\ f.abstained <=> Abstained(stored[f.id][1])
          /\ Cardinality(f.records) = IF f.abstained THEN 2 ELSE 3
          /\ \A c \in f.records :
                /\ Len(records[c]) = 1
                /\ records[c][1].verdict \in {f.id, NoCall}
                /\ records[c][1].verdict = NoCall <=> tool[c] = "read_only"
          /\ \A g \in agent.findings \ {f} : f.id # g.id /\ f.records \cap g.records = {}
    /\ agent.toReview = {f.requirement : f \in {g \in agent.findings : g.abstained}}
    /\ {f.requirement : f \in agent.findings} = (agent.queue + 1)..Requirements
=============================================================================
