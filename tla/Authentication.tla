--------------------------- MODULE Authentication ---------------------------
(***************************************************************************)
(* The clients of the MCP server authenticate with the keys that the       *)
(* scripts of ApiKeys create and rotate meanwhile: mcp/auth.ts, called for *)
(* every request by mcp/http.ts and once, when the process starts, by      *)
(* mcp/stdio.ts.  What the server then does for the organisation is        *)
(* McpServer's.                                                            *)
(*                                                                         *)
(* A client of the HTTP route sends one request after the other; a client  *)
(* of the stdio transport starts a process, which serves until it exits.   *)
(***************************************************************************)
EXTENDS ApiKeys

CONSTANTS HttpClients, StdioClients

ASSUME ClientsAssumption == HttpClients \cap StdioClients = {}

Clients == HttpClients \cup StdioClients

VARIABLES at,         \* what each client's request, or process, awaits
          secret,     \* the key it presented
          late        \* history: that key was revoked before it was presented

authVars == <<at, secret, late>>
allVars  == <<vars, authVars>>

\* A key somebody was shown, or another string with the prefix of one; None is a
\* missing, malformed or unknown key, which the format check or the lookup
\* refuses.
Secret   == [key : Scripts, genuine : BOOLEAN]
NoSecret == [key |-> None, genuine |-> FALSE]

AuthInit ==
    /\ Init
    /\ at = [c \in Clients |-> "idle"]
    /\ secret = [c \in Clients |-> NoSecret]
    /\ late = [c \in Clients |-> FALSE]

MoveTo(c, place) == at' = [at EXCEPT ![c] = place]

\* A request arrives (POST only: any other method is answered 405 before
\* anything else), or a stdio process starts.
Present(c) ==
    /\ at[c] = "idle"
    /\ \E s \in {x \in Secret : x.key \in shown} \cup {NoSecret} :
          /\ secret' = [secret EXCEPT ![c] = s]
          /\ late' = [late EXCEPT ![c] = s.key \in Revoked]
          /\ MoveTo(c, IF s = NoSecret THEN "refused" ELSE "lookup")

\* Mutant: the revocation date is not looked at.
LookupIgnoresRevocation(c) ==
    /\ at[c] = "lookup"
    /\ \/ MoveTo(c, IF secret[c].genuine THEN "touch" ELSE "refused")
       \/ MoveTo(c, "error")
    /\ UNCHANGED <<secret, late>>

\* findByPrefix reads the committed row; the revocation date and the hash
\* decide.  The query may fail.
Lookup(c) ==
    /\ at[c] = "lookup"
    /\ \/ MoveTo(c, IF secret[c].key \notin Revoked /\ secret[c].genuine THEN "touch" ELSE "refused")
       \/ MoveTo(c, "error")
    /\ UNCHANGED <<secret, late>>

\* The update of lastUsedAt is awaited: it waits for the row while a rotation
\* holds it.
Touch(c) ==
    /\ at[c] = "touch" /\ keyLock[secret[c].key] = None
    /\ MoveTo(c, "serving")
    /\ UNCHANGED <<secret, late>>

\* The update fails; the call goes on.
TouchFails(c) ==
    /\ at[c] = "touch"
    /\ MoveTo(c, "serving")
    /\ UNCHANGED <<secret, late>>

\* The answer is sent: what the request asked for, a 401 or a 500.  The server
\* made for the request is closed.
Answer(c) ==
    /\ c \in HttpClients /\ at[c] \in {"serving", "refused", "error"}
    /\ at' = [at EXCEPT ![c] = "idle"]
    /\ secret' = [secret EXCEPT ![c] = NoSecret]
    /\ late' = [late EXCEPT ![c] = FALSE]

\* A stdio process exits: at once when it is refused, otherwise when its client
\* ends it.  Until then it answers without looking at the key again.
Exit(c) ==
    /\ c \in StdioClients /\ at[c] # "idle"
    /\ at' = [at EXCEPT ![c] = "idle"]
    /\ secret' = [secret EXCEPT ![c] = NoSecret]
    /\ late' = [late EXCEPT ![c] = FALSE]

Authenticate(c) == Lookup(c) \/ Touch(c)

Serve(c) == Present(c) \/ Authenticate(c) \/ TouchFails(c) \/ Answer(c) \/ Exit(c)

AuthNext ==
    \/ Next /\ UNCHANGED authVars
    \/ \E c \in Clients : Serve(c) /\ UNCHANGED vars

AuthSpec ==
    /\ AuthInit
    /\ [][AuthNext]_allVars
    /\ \A p \in Scripts : WF_vars(Step(p)) /\ WF_vars(Timeout(p))
    /\ \A c \in Clients : WF_allVars((Authenticate(c) \/ Answer(c)) /\ UNCHANGED vars)

(***************************************************************************)
(* Properties.                                                             *)
(***************************************************************************)
AuthTypeOK ==
    /\ at \in [Clients -> {"idle", "lookup", "touch", "serving", "refused", "error"}]
    /\ secret \in [Clients -> Secret \cup {NoSecret}]
    /\ late \in [Clients -> BOOLEAN]

\* Once the commit of a rotation is done no HTTP request that arrives with the
\* old key is served, and no stdio process that starts with it; a request that
\* was under way, or a process that runs, may go on.  Only the very key that an
\* operator was shown is ever served.
RevokedKeyIsNotServed ==
    \A c \in Clients : at[c] = "serving" => secret[c].genuine /\ secret[c].key \in shown /\ ~late[c]

\* A request is answered although its update of lastUsedAt may have to wait for
\* the row of a rotation, which may itself wait for another transaction.
RequestsAreAnswered == \A c \in HttpClients : at[c] = "lookup" ~> at[c] = "idle"
=============================================================================
