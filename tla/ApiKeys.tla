------------------------------ MODULE ApiKeys ------------------------------
(***************************************************************************)
(* The API keys of one organisation, and the script that creates and       *)
(* rotates them (scripts/create-api-key.ts) run by several operators at    *)
(* once.  The script reads the active key OUTSIDE its transaction; what    *)
(* keeps the keys consistent is the partial unique index of the migration, *)
(* PostgreSQL's row locks and the transaction.                             *)
(*                                                                         *)
(* Each run of the script generates one key, so a run stands for its key.  *)
(***************************************************************************)
EXTENDS FiniteSets

CONSTANTS Scripts,      \* the runs of the script
          Rotating,     \* those started with --rotate
          None,
          Locking       \* those whose upsert of an existing organisation locks its row

ASSUME KeysAssumption ==
    Rotating \subseteq Scripts /\ Locking \subseteq Scripts /\ None \notin Scripts

VARIABLES key,        \* committed state of each key
          revoker,    \* whose transaction committed its revokedAt
          orgExists,  \* the Organization record is committed
          keyLock,    \* the transaction that revokes the key and has not ended
          orgLock,    \* the transaction that holds the organisation's row
          pc,         \* what each run awaits
          found,      \* the active key it read before its transaction
          shown       \* the keys that were printed

tables == <<key, revoker, orgExists>>
locks  == <<keyLock, orgLock>>
vars   == <<key, revoker, orgExists, keyLock, orgLock, pc, found, shown>>

Transaction == {"revoke", "upsert", "insert", "commit"}
Ended       == {"done", "refused", "failed"}
PC          == {"find", "print"} \cup Transaction \cup Ended

Active  == {k \in Scripts : key[k] = "active"}
Revoked == {k \in Scripts : key[k] = "revoked"}

Init ==
    /\ key = [k \in Scripts |-> "none"]
    /\ revoker = [k \in Scripts |-> None]
    /\ orgExists \in BOOLEAN
    /\ keyLock = [k \in Scripts |-> None]
    /\ orgLock = None
    /\ pc = [p \in Scripts |-> "find"]
    /\ found = [p \in Scripts |-> None]
    /\ shown = {}

Goto(p, next) == pc' = [pc EXCEPT ![p] = next]

Release(p) ==
    /\ keyLock' = [k \in Scripts |-> IF keyLock[k] = p THEN None ELSE keyLock[k]]
    /\ orgLock' = IF orgLock = p THEN None ELSE orgLock

(***************************************************************************)
(* The script.                                                             *)
(***************************************************************************)

Find(p) ==
    /\ pc[p] = "find"
    /\ \/ Active = {} /\ Goto(p, "upsert") /\ UNCHANGED found
       \/ \E k \in Active :
             /\ found' = [found EXCEPT ![p] = k]
             /\ Goto(p, IF p \in Rotating THEN "revoke" ELSE "refused")
    /\ UNCHANGED <<tables, locks, shown>>

\* The update names the key by its id only: it also overwrites the revokedAt of
\* a key that another run revoked since it was found.  It waits for the row.
Revoke(p) ==
    /\ pc[p] = "revoke" /\ keyLock[found[p]] = None
    /\ keyLock' = [keyLock EXCEPT ![found[p]] = p]
    /\ Goto(p, "upsert")
    /\ UNCHANGED <<tables, orgLock, found, shown>>

\* With nothing to update, an upsert may only read the organisation that exists.
UpsertOrganization(p) ==
    /\ pc[p] = "upsert"
    /\ IF orgExists /\ p \notin Locking
       THEN UNCHANGED orgLock
       ELSE orgLock = None /\ orgLock' = p
    /\ Goto(p, "insert")
    /\ UNCHANGED <<tables, keyLock, found, shown>>

\* The active keys the new one conflicts with: all but the one this transaction
\* revoked itself.
Conflicting(p) == {k \in Active : keyLock[k] # p}

\* The index makes an insertion wait for a transaction that inserted a key, or
\* that revokes the conflicting one, until it has ended.
MustWait(p) ==
    \/ \E q \in Scripts : pc[q] = "commit"
    \/ \E k \in Conflicting(p) : keyLock[k] # None

\* Mutant: the index does not know about keys that are not committed.
InsertWithoutWaiting(p) ==
    /\ pc[p] = "insert"
    /\ IF Conflicting(p) = {}
       THEN Goto(p, "commit") /\ UNCHANGED locks
       ELSE Goto(p, "failed") /\ Release(p)
    /\ UNCHANGED <<tables, found, shown>>

Insert(p) ==
    /\ pc[p] = "insert" /\ ~MustWait(p)
    /\ IF Conflicting(p) = {}
       THEN Goto(p, "commit") /\ UNCHANGED locks
       ELSE Goto(p, "failed") /\ Release(p)   \* unique violation
    /\ UNCHANGED <<tables, found, shown>>

Commit(p) ==
    /\ pc[p] = "commit"
    /\ key' = [k \in Scripts |-> IF k = p THEN "active"
                                 ELSE IF k = found[p] THEN "revoked" ELSE key[k]]
    /\ revoker' = [k \in Scripts |-> IF k = found[p] THEN p ELSE revoker[k]]
    /\ orgExists' = TRUE
    /\ Release(p)
    /\ Goto(p, "print") \/ Goto(p, "failed")
    /\ UNCHANGED <<found, shown>>

Show(p) ==
    /\ pc[p] = "print"
    /\ shown' = shown \cup {p}
    /\ Goto(p, "done")
    /\ UNCHANGED <<tables, locks, found>>

\* Mutant: a transaction that was rolled back is tried again.
RollBackRetries(p) ==
    /\ Release(p)
    /\ Goto(p, "find")
    /\ UNCHANGED <<tables, found, shown>>

RollBack(p) ==
    /\ Release(p)
    /\ Goto(p, "failed")
    /\ UNCHANGED <<tables, found, shown>>

\* A statement throws, or the script is killed.
Fail(p) == pc[p] \notin Ended /\ RollBack(p)

\* Prisma ends an interactive transaction that takes longer than five seconds.
Timeout(p) == pc[p] \in Transaction /\ RollBack(p)

Step(p) ==
    \/ Find(p) \/ Revoke(p) \/ UpsertOrganization(p) \/ Insert(p) \/ Commit(p) \/ Show(p)

\* Every run of the script has ended.
Terminated == (\A p \in Scripts : pc[p] \in Ended) /\ UNCHANGED vars

Next == (\E p \in Scripts : Step(p) \/ Timeout(p) \/ Fail(p)) \/ Terminated

Spec == Init /\ [][Next]_vars /\ \A p \in Scripts : WF_vars(Step(p)) /\ WF_vars(Timeout(p))

(***************************************************************************)
(* Properties.                                                             *)
(***************************************************************************)
TypeOK ==
    /\ key \in [Scripts -> {"none", "active", "revoked"}]
    /\ revoker \in [Scripts -> Scripts \cup {None}]
    /\ orgExists \in BOOLEAN
    /\ keyLock \in [Scripts -> Scripts \cup {None}]
    /\ orgLock \in Scripts \cup {None}
    /\ pc \in [Scripts -> PC]
    /\ found \in [Scripts -> Scripts \cup {None}]
    /\ \A p \in Scripts : pc[p] = "revoke" => found[p] # None
    /\ shown \subseteq Scripts

\* However many scripts create or rotate at once, one key at most is active
\* (migration.sql:56), although each looked for it before its transaction.
OneActive == \A k, l \in Active : k = l

\* An organisation that has an active key always has one: a rotation that fails,
\* is killed or loses a race leaves the old key active (create-api-key.ts:17-21).
NeverWithoutKey == [][Active # {} => Active' # {}]_vars

\* A revoked key keeps its revocation, although the update of a script that found
\* it active would overwrite its date (create-api-key.ts:18).
RevokedOnce ==
    [][\A k \in Revoked : k \in Revoked' /\ revoker'[k] = revoker[k]]_vars

\* Only a script started with --rotate revokes a key, and only by storing its own.
OnlyRotationRevokes ==
    \A k \in Revoked : revoker[k] \in Rotating /\ revoker[k] \in Active \cup Revoked

\* A key that was printed is stored, and a script that ended well has printed its
\* key: what the operator copied works until it is rotated (create-api-key.ts:22).
ShownKeysAreStored ==
    /\ shown \subseteq Active \cup Revoked
    /\ \A p \in Scripts : pc[p] = "done" => p \in shown

\* The scripts together behave like a key ring that changes in one step.
Ring == INSTANCE KeyRing WITH Keys <- Scripts, active <- Active, retired <- Revoked

ImplementsKeyRing == Ring!Spec
=============================================================================
