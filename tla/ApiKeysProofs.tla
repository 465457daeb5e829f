--------------------------- MODULE ApiKeysProofs ---------------------------
(***************************************************************************)
(* Proofs about ApiKeys and Authentication, for any number of scripts and  *)
(* of clients.                                                             *)
(***************************************************************************)
EXTENDS Authentication, TLAPS

(***************************************************************************)
(* The inductive invariant.                                                *)
(***************************************************************************)
Holding == {"upsert", "insert", "commit"}

\* A transaction has locked exactly the key it found, and finding a key means
\* that one was stored.
LocksMatch ==
    /\ \A p, k \in Scripts : keyLock[k] = p <=> (pc[p] \in Holding /\ found[p] = k)
    /\ \A p \in Scripts : found[p] # None => key[found[p]] # "none" /\ Active # {}
    /\ \A p \in Scripts : pc[p] = "find" => found[p] = None
    /\ \A p \in Scripts : found[p] # None /\ pc[p] \in Transaction => p \in Rotating

\* A key is stored by its own script's commit, and by nothing else.
Fresh ==
    /\ \A p \in Scripts : pc[p] \in {"find"} \cup Transaction => key[p] = "none"
    /\ \A p \in Scripts : pc[p] = "print" => key[p] # "none"

\* The transaction that has inserted its key is alone, and no active key but the
\* one it revokes stands against it.
Exclusive ==
    /\ \A p, q \in Scripts : pc[p] = "commit" /\ pc[q] = "commit" => p = q
    /\ \A p \in Scripts : pc[p] = "commit" => \A k \in Active : k = found[p]

Inv == OneActive /\ OnlyRotationRevokes /\ ShownKeysAreStored /\ LocksMatch /\ Fresh /\ Exclusive

LEMMA InitInv == Init => TypeOK /\ Inv
<1> SUFFICES ASSUME Init PROVE TypeOK /\ Inv
  OBVIOUS
<1>1. TypeOK
  BY DEF Init, TypeOK, PC
<1>2. Active = {} /\ Revoked = {}
  BY DEF Init, Active, Revoked
<1>3. OneActive /\ OnlyRotationRevokes /\ ShownKeysAreStored
  BY <1>2 DEF Init, OneActive, OnlyRotationRevokes, ShownKeysAreStored
<1>4. LocksMatch /\ Fresh /\ Exclusive
  BY KeysAssumption DEF Init, LocksMatch, Fresh, Exclusive, Holding, Transaction
<1> QED
  BY <1>1, <1>3, <1>4 DEF Inv

LEMMA StepType == TypeOK /\ [Next]_vars => TypeOK'
<1> SUFFICES ASSUME TypeOK, [Next]_vars PROVE TypeOK'
  OBVIOUS
<1> USE DEF TypeOK, PC, Transaction, Ended, tables, locks, Goto, Release, RollBack
<1>1. ASSUME NEW p \in Scripts, Find(p) PROVE TypeOK'
  BY <1>1, KeysAssumption DEF Find, Active
<1>2. ASSUME NEW p \in Scripts, Revoke(p) \/ UpsertOrganization(p) PROVE TypeOK'
  BY <1>2, KeysAssumption DEF Revoke, UpsertOrganization
<1>3. ASSUME NEW p \in Scripts, Insert(p) PROVE TypeOK'
  BY <1>3 DEF Insert
<1>4. ASSUME NEW p \in Scripts, Commit(p) PROVE TypeOK'
  BY <1>4 DEF Commit
<1>5. ASSUME NEW p \in Scripts, Show(p) PROVE TypeOK'
  BY <1>5 DEF Show
<1>6. ASSUME NEW p \in Scripts, Fail(p) \/ Timeout(p) PROVE TypeOK'
  BY <1>6 DEF Fail, Timeout
<1>7. CASE UNCHANGED vars
  BY <1>7 DEF vars
<1> QED
  BY <1>1, <1>2, <1>3, <1>4, <1>5, <1>6, <1>7 DEF Next, Step, Terminated

(***************************************************************************)
(* Every action keeps the invariant.                                       *)
(***************************************************************************)
LEMMA SameTables ==
    ASSUME TypeOK, Inv, UNCHANGED <<key, revoker, shown>>,
           \A p \in Scripts : pc'[p] = "done" => pc[p] = "done"
    PROVE  Active' = Active /\ OneActive' /\ OnlyRotationRevokes' /\ ShownKeysAreStored'
  BY DEF Inv, Active, Revoked, OneActive, OnlyRotationRevokes, ShownKeysAreStored

LEMMA RollBackKeeps ==
    ASSUME TypeOK, Inv, NEW p \in Scripts, RollBack(p), pc[p] \notin Ended PROVE Inv'
<1> USE DEF RollBack, Goto, Release, tables, TypeOK
<1>1. Active' = Active /\ OneActive' /\ OnlyRotationRevokes' /\ ShownKeysAreStored'
  BY SameTables
<1>2. LocksMatch'
  BY <1>1, KeysAssumption DEF Inv, LocksMatch, Holding, Transaction
<1>3. Fresh' /\ Exclusive'
  BY <1>1 DEF Inv, Fresh, Exclusive, Transaction
<1> QED
  BY <1>1, <1>2, <1>3 DEF Inv

LEMMA FindKeeps ==
    ASSUME TypeOK, Inv, NEW p \in Scripts, Find(p) PROVE Inv'
<1> USE DEF Find, Goto, tables, locks, TypeOK
<1>1. Active' = Active /\ OneActive' /\ OnlyRotationRevokes' /\ ShownKeysAreStored'
  BY SameTables
<1>2. LocksMatch'
  <2>1. CASE Active = {} /\ Goto(p, "upsert") /\ UNCHANGED found
    BY <1>1, <2>1, KeysAssumption DEF Inv, LocksMatch, Holding, Transaction
  <2>2. CASE \E k \in Active : /\ found' = [found EXCEPT ![p] = k]
                               /\ Goto(p, IF p \in Rotating THEN "revoke" ELSE "refused")
    <3>1. PICK k \in Active : found' = [found EXCEPT ![p] = k]
      BY <2>2
    <3>2. k \in Scripts /\ key[k] # "none"
      BY <3>1 DEF Active
    <3>3. pc'[p] \notin Holding /\ pc[p] \notin Holding /\ (pc'[p] \in Transaction => p \in Rotating)
          /\ pc'[p] # "find"
      BY <2>2 DEF Holding, Transaction
    <3> QED
      BY <1>1, <2>2, <3>1, <3>2, <3>3 DEF Inv, LocksMatch
  <2> QED
    BY <2>1, <2>2
<1>3. Fresh' /\ Exclusive'
  BY <1>1 DEF Inv, Fresh, Exclusive, Transaction
<1> QED
  BY <1>1, <1>2, <1>3 DEF Inv

LEMMA RevokeKeeps ==
    ASSUME TypeOK, Inv, NEW p \in Scripts, Revoke(p) PROVE Inv'
<1> USE DEF Revoke, Goto, tables, TypeOK
<1>1. Active' = Active /\ OneActive' /\ OnlyRotationRevokes' /\ ShownKeysAreStored'
  BY SameTables
<1>2. LocksMatch'
  BY <1>1, KeysAssumption DEF Inv, LocksMatch, Holding, Transaction
<1>3. Fresh' /\ Exclusive'
  BY <1>1 DEF Inv, Fresh, Exclusive, Transaction
<1> QED
  BY <1>1, <1>2, <1>3 DEF Inv

LEMMA UpsertKeeps ==
    ASSUME TypeOK, Inv, NEW p \in Scripts, UpsertOrganization(p) PROVE Inv'
<1> USE DEF UpsertOrganization, Goto, tables, TypeOK
<1>1. Active' = Active /\ OneActive' /\ OnlyRotationRevokes' /\ ShownKeysAreStored'
  BY SameTables
<1>2. LocksMatch'
  BY <1>1, KeysAssumption DEF Inv, LocksMatch, Holding, Transaction
<1>3. Fresh' /\ Exclusive'
  BY <1>1 DEF Inv, Fresh, Exclusive, Transaction
<1> QED
  BY <1>1, <1>2, <1>3 DEF Inv

\* The step the index guards: whoever inserts is alone.
LEMMA InsertKeeps ==
    ASSUME TypeOK, Inv, NEW p \in Scripts, Insert(p) PROVE Inv'
<1>1. CASE Conflicting(p) = {}
  <2>1. pc' = [pc EXCEPT ![p] = "commit"] /\ pc[p] = "insert"
        /\ UNCHANGED <<tables, locks, found, shown>>
    BY <1>1 DEF Insert, Goto
  <2>2. Active' = Active /\ OneActive' /\ OnlyRotationRevokes' /\ ShownKeysAreStored'
    BY <2>1, SameTables DEF tables, TypeOK
  <2>3. \A k \in Active : k = found[p]
    BY <1>1 DEF Conflicting, Active, Inv, LocksMatch
  <2>4. \A q \in Scripts : pc[q] # "commit"
    BY DEF Insert, MustWait
  <2>5. LocksMatch' /\ Fresh'
    BY <2>1, <2>2 DEF Inv, LocksMatch, Fresh, Holding, Transaction, tables, locks, TypeOK
  <2>6. Exclusive'
    BY <2>1, <2>2, <2>3, <2>4 DEF Exclusive, TypeOK
  <2> QED
    BY <2>2, <2>5, <2>6 DEF Inv
<1>2. CASE Conflicting(p) # {}
  BY <1>2, RollBackKeeps DEF Insert, RollBack, Ended
<1> QED
  BY <1>1, <1>2

\* What a commit does: the found key, the only active one, gives way to its own.
LEMMA CommitEffect ==
    ASSUME TypeOK, Inv, NEW p \in Scripts, Commit(p)
    PROVE  /\ Active' = {p} /\ p \notin Active \cup Revoked
           /\ \/ found[p] = None /\ Active = {} /\ Revoked' = Revoked
              \/ Active = {found[p]} /\ Revoked' = Revoked \cup {found[p]} /\ p \in Rotating
           /\ \A k \in Scripts : revoker'[k] = IF k = found[p] THEN p ELSE revoker[k]
<1>1. pc[p] = "commit" /\ key[p] = "none" /\ \A k \in Active : k = found[p]
  BY DEF Commit, Inv, Fresh, Exclusive, Transaction
<1>2. key' = [k \in Scripts |-> IF k = p THEN "active"
                                ELSE IF k = found[p] THEN "revoked" ELSE key[k]]
      /\ revoker' = [k \in Scripts |-> IF k = found[p] THEN p ELSE revoker[k]]
  BY DEF Commit
<1>3. CASE found[p] = None
  BY <1>1, <1>2, <1>3, KeysAssumption DEF Active, Revoked, TypeOK
<1>4. CASE found[p] # None
  <2>1. Active = {found[p]} /\ p \in Rotating /\ found[p] \in Scripts
    BY <1>1, <1>4 DEF Inv, LocksMatch, Transaction, TypeOK
  <2>2. found[p] # p
    BY <1>1, <2>1 DEF Active
  <2> QED
    BY <1>1, <1>2, <2>1, <2>2 DEF Active, Revoked, TypeOK
<1> QED
  BY <1>3, <1>4

LEMMA CommitKeeps ==
    ASSUME TypeOK, Inv, NEW p \in Scripts, Commit(p) PROVE Inv'
<1>1. /\ Active' = {p} /\ p \notin Active \cup Revoked
      /\ \/ found[p] = None /\ Active = {} /\ Revoked' = Revoked
         \/ Active = {found[p]} /\ Revoked' = Revoked \cup {found[p]} /\ p \in Rotating
      /\ \A k \in Scripts : revoker'[k] = IF k = found[p] THEN p ELSE revoker[k]
  BY CommitEffect
<1>2. /\ pc[p] = "commit" /\ pc'[p] \in {"print", "failed"}
      /\ \A q \in Scripts \ {p} : pc'[q] = pc[q]
      /\ UNCHANGED <<found, shown>>
  BY DEF Commit, Goto, TypeOK
<1>3. OneActive' /\ ShownKeysAreStored'
  BY <1>1, <1>2 DEF Inv, OneActive, ShownKeysAreStored
<1>4. OnlyRotationRevokes'
  <2> SUFFICES ASSUME NEW k \in Revoked' PROVE revoker'[k] \in Rotating
                                               /\ revoker'[k] \in Active' \cup Revoked'
    BY DEF OnlyRotationRevokes
  <2>1. k \in Scripts
    BY DEF Revoked
  <2>2. CASE k = found[p]
    BY <1>1, <2>1, <2>2, KeysAssumption
  <2>3. CASE k # found[p]
    <3>1. k \in Revoked /\ revoker'[k] = revoker[k]
      BY <1>1, <2>1, <2>3
    <3>2. revoker[k] \in Rotating /\ revoker[k] \in Active \cup Revoked
      BY <3>1 DEF Inv, OnlyRotationRevokes
    <3> QED
      BY <1>1, <3>1, <3>2
  <2> QED
    BY <2>2, <2>3
<1>5. \A k \in Scripts : key'[k] = "none" => key[k] = "none" /\ k # p
  BY DEF Commit
<1>6. \A k \in Scripts : keyLock'[k] = IF keyLock[k] = p THEN None ELSE keyLock[k]
  BY DEF Commit, Release
<1>7. LocksMatch'
  BY <1>1, <1>2, <1>5, <1>6, KeysAssumption DEF Inv, LocksMatch, Holding, Transaction, TypeOK
<1>8. Fresh'
  <2>1. key'[p] = "active"
    BY DEF Commit
  <2>2. \A q \in Scripts \ {p} : q # found[p] => key'[q] = key[q]
    BY DEF Commit
  <2>3. \A q \in Scripts : key[q] = "none" => q # found[p]
    BY KeysAssumption DEF Inv, LocksMatch
  <2>4. \A q \in Scripts \ {p} : key[q] # "none" => key'[q] # "none"
    BY <1>5
  <2> QED
    BY <1>2, <2>1, <2>2, <2>3, <2>4 DEF Inv, Fresh, Transaction
<1>9. Exclusive'
  BY <1>2 DEF Inv, Exclusive
<1> QED
  BY <1>3, <1>4, <1>7, <1>8, <1>9 DEF Inv

LEMMA ShowKeeps ==
    ASSUME TypeOK, Inv, NEW p \in Scripts, Show(p) PROVE Inv'
<1> USE DEF Show, Goto, tables, locks, TypeOK
<1>1. Active' = Active /\ Revoked' = Revoked /\ p \in Active \cup Revoked
  BY DEF Active, Revoked, Inv, Fresh
<1>2. OneActive' /\ OnlyRotationRevokes' /\ ShownKeysAreStored'
  BY <1>1 DEF Inv, OneActive, OnlyRotationRevokes, ShownKeysAreStored
<1>3. LocksMatch' /\ Fresh' /\ Exclusive'
  BY <1>1 DEF Inv, LocksMatch, Fresh, Exclusive, Holding, Transaction
<1> QED
  BY <1>2, <1>3 DEF Inv

LEMMA StepInv == TypeOK /\ Inv /\ [Next]_vars => Inv'
<1> SUFFICES ASSUME TypeOK, Inv, [Next]_vars PROVE Inv'
  OBVIOUS
<1>1. CASE UNCHANGED vars
  <2>1. OneActive' /\ OnlyRotationRevokes' /\ ShownKeysAreStored'
    BY <1>1, SameTables DEF vars
  <2>2. LocksMatch' /\ Fresh' /\ Exclusive'
    BY <1>1 DEF vars, Inv, LocksMatch, Fresh, Exclusive, Active
  <2> QED
    BY <2>1, <2>2 DEF Inv
<1>2. CASE \E p \in Scripts : Step(p) \/ Timeout(p) \/ Fail(p)
  BY <1>2, FindKeeps, RevokeKeeps, UpsertKeeps, InsertKeeps, CommitKeeps, ShowKeeps, RollBackKeeps
     DEF Step, Timeout, Fail, Transaction, Ended
<1> QED
  BY <1>1, <1>2 DEF Next, Terminated

(***************************************************************************)
(* The theorems.                                                           *)
(***************************************************************************)

\* Whatever the scripts do at once, locks, keys and control stay consistent.
THEOREM KeysInvariant == Spec => [](TypeOK /\ Inv)
<1>1. Init => TypeOK /\ Inv
  BY InitInv
<1>2. TypeOK /\ Inv /\ [Next]_vars => TypeOK' /\ Inv'
  BY StepType, StepInv
<1> QED
  BY <1>1, <1>2, PTL DEF Spec

\* Every variable keeps its type.
THEOREM TypeCorrect == Spec => []TypeOK
  BY KeysInvariant, PTL

\* However many scripts run at once, at most one key is active (OneActive).
THEOREM AtMostOneActive == Spec => []OneActive
<1>1. Inv => OneActive
  BY DEF Inv
<1> QED
  BY <1>1, KeysInvariant, PTL

\* Only --rotate revokes, and only by storing its own key (OnlyRotationRevokes).
THEOREM RotationOnly == Spec => []OnlyRotationRevokes
<1>1. Inv => OnlyRotationRevokes
  BY DEF Inv
<1> QED
  BY <1>1, KeysInvariant, PTL

\* A printed key is a stored one (ShownKeysAreStored).
THEOREM ShownAreStored == Spec => []ShownKeysAreStored
<1>1. Inv => ShownKeysAreStored
  BY DEF Inv
<1> QED
  BY <1>1, KeysInvariant, PTL

\* The tables change in a commit only.
LEMMA TablesChange ==
    ASSUME TypeOK, [Next]_vars
    PROVE  (\E p \in Scripts : Commit(p)) \/ UNCHANGED <<key, revoker>>
  BY DEF Next, Step, Find, Revoke, UpsertOrganization, Insert, Show, Timeout, Fail, RollBack,
         Terminated, vars, tables

\* An organisation with an active key always has one (NeverWithoutKey).
THEOREM AlwaysAKey == Spec => NeverWithoutKey
<1>1. TypeOK /\ Inv /\ [Next]_vars => [Active # {} => Active' # {}]_vars
  <2> SUFFICES ASSUME TypeOK, Inv, [Next]_vars, Active # {} PROVE Active' # {}
    OBVIOUS
  <2>1. CASE \E p \in Scripts : Commit(p)
    BY <2>1, CommitEffect
  <2>2. CASE UNCHANGED <<key, revoker>>
    BY <2>2 DEF Active
  <2> QED
    BY <2>1, <2>2, TablesChange
<1> QED
  BY <1>1, KeysInvariant, PTL DEF Spec, NeverWithoutKey

\* A revoked key keeps its revocation (RevokedOnce): the transaction that would
\* overwrite it never gets past the index.
THEOREM RevocationStays == Spec => RevokedOnce
<1> DEFINE Stays == \A k \in Revoked : k \in Revoked' /\ revoker'[k] = revoker[k]
<1>1. TypeOK /\ Inv /\ [Next]_vars => [Stays]_vars
  <2> SUFFICES ASSUME TypeOK, Inv, [Next]_vars, NEW k \in Revoked
               PROVE  k \in Revoked' /\ revoker'[k] = revoker[k]
    OBVIOUS
  <2>1. CASE \E p \in Scripts : Commit(p)
    <3>1. PICK p \in Scripts : Commit(p)
      BY <2>1
    <3>2. k \in Scripts /\ k \notin Active
      BY DEF Active, Revoked
    <3>3. k # found[p]
      BY <3>1, <3>2, CommitEffect, KeysAssumption
    <3> QED
      BY <3>1, <3>2, <3>3, CommitEffect
  <2>2. CASE UNCHANGED <<key, revoker>>
    BY <2>2 DEF Revoked
  <2> QED
    BY <2>1, <2>2, TablesChange
<1> HIDE DEF Stays
<1>2. Spec => [][Stays]_vars
  BY <1>1, KeysInvariant, PTL DEF Spec
<1> QED
  BY <1>2 DEF RevokedOnce, Stays

\* The scripts implement a key ring that changes in one step.
THEOREM ImplementsRing == Spec => ImplementsKeyRing
<1>1. Init => Ring!Init
  BY DEF Init, Ring!Init, Active, Revoked
<1>2. TypeOK /\ Inv /\ [Next]_vars => [Ring!Next]_<<Active, Revoked>>
  <2> SUFFICES ASSUME TypeOK, Inv, [Next]_vars
               PROVE  Ring!Next \/ (Active' = Active /\ Revoked' = Revoked)
    OBVIOUS
  <2>1. CASE \E p \in Scripts : Commit(p)
    <3>1. PICK p \in Scripts : Commit(p)
      BY <2>1
    <3>2. CASE found[p] = None /\ Active = {} /\ Revoked' = Revoked
      BY <3>1, <3>2, CommitEffect DEF Ring!Next, Ring!Issue
    <3>3. CASE Active = {found[p]} /\ Revoked' = Revoked \cup {found[p]}
      <4>1. found[p] \in Scripts
        BY <3>3 DEF Active
      <4>2. p \notin Revoked \cup {found[p]} /\ Active' = {p}
        BY <3>1, <3>3, CommitEffect
      <4>3. Ring!Replace(found[p], p)
        BY <3>3, <4>2 DEF Ring!Replace
      <4> QED
        BY <4>1, <4>3 DEF Ring!Next
    <3> QED
      BY <3>1, <3>2, <3>3, CommitEffect
  <2>2. CASE UNCHANGED <<key, revoker>>
    BY <2>2 DEF Active, Revoked
  <2> QED
    BY <2>1, <2>2, TablesChange
<1> QED
  BY <1>1, <1>2, KeysInvariant, PTL DEF Spec, ImplementsKeyRing, Ring!Spec

(***************************************************************************)
(* The clients of Authentication.                                          *)
(***************************************************************************)

\* What a client that got past the format check presented was shown; it was
\* revoked then only if it is revoked now, and past the lookup it was not.
ClientInv ==
    \A c \in Clients :
        /\ at[c] \in {"lookup", "touch", "serving"} =>
              secret[c].key \in shown /\ (late[c] => secret[c].key \in Revoked)
        /\ at[c] \in {"touch", "serving"} => secret[c].genuine /\ ~late[c]

\* What was shown stays shown, and what was revoked stays revoked.
LEMMA KeysGrow ==
    ASSUME TypeOK, Inv, [Next]_vars PROVE shown \subseteq shown' /\ Revoked \subseteq Revoked'
<1>1. shown \subseteq shown'
  BY DEF Next, Step, Terminated, Find, Revoke, UpsertOrganization, Insert, Commit, Show, Timeout, Fail,
         RollBack, vars
<1>2. Revoked \subseteq Revoked'
  <2> SUFFICES ASSUME NEW k \in Revoked PROVE k \in Revoked'
    OBVIOUS
  <2>1. CASE \E p \in Scripts : Commit(p)
    <3>1. PICK p \in Scripts : Commit(p)
      BY <2>1
    <3>2. k \in Scripts /\ k \notin Active
      BY DEF Active, Revoked
    <3>3. k # found[p]
      BY <3>1, <3>2, CommitEffect, KeysAssumption
    <3> QED
      BY <3>1, <3>2, <3>3, CommitEffect
  <2>2. CASE UNCHANGED <<key, revoker>>
    BY <2>2 DEF Revoked
  <2> QED
    BY <2>1, <2>2, TablesChange
<1> QED
  BY <1>1, <1>2

LEMMA ClientStep ==
    ASSUME AuthTypeOK, NEW c \in Clients, Serve(c), UNCHANGED vars, ClientInv
    PROVE  AuthTypeOK' /\ ClientInv'
<1> USE DEF AuthTypeOK, ClientInv, MoveTo
<1>0. Revoked' = Revoked /\ shown' = shown
  BY DEF vars, Revoked
<1>1. CASE Present(c)
  <2>1. PICK s \in {x \in Secret : x.key \in shown} \cup {NoSecret} :
            /\ secret' = [secret EXCEPT ![c] = s]
            /\ late' = [late EXCEPT ![c] = s.key \in Revoked]
            /\ at' = [at EXCEPT ![c] = IF s = NoSecret THEN "refused" ELSE "lookup"]
    BY <1>1 DEF Present
  <2>2. AuthTypeOK'
    BY <2>1
  <2>3. s # NoSecret => s.key \in shown
    BY <2>1
  <2> QED
    BY <1>0, <2>1, <2>2, <2>3
<1>2. CASE Lookup(c)
  BY <1>0, <1>2 DEF Lookup
<1>3. CASE Touch(c) \/ TouchFails(c)
  BY <1>0, <1>3 DEF Touch, TouchFails
<1>4. CASE Answer(c) \/ Exit(c)
  BY <1>0, <1>4 DEF Answer, Exit
<1> QED
  BY <1>1, <1>2, <1>3, <1>4 DEF Serve, Authenticate

LEMMA AuthStep ==
    ASSUME TypeOK, Inv, AuthTypeOK, ClientInv, [AuthNext]_allVars
    PROVE  AuthTypeOK' /\ ClientInv'
<1>1. CASE [Next]_vars /\ UNCHANGED authVars
  BY <1>1, KeysGrow DEF authVars, AuthTypeOK, ClientInv
<1>2. CASE \E c \in Clients : Serve(c) /\ UNCHANGED vars
  BY <1>2, ClientStep
<1> QED
  BY <1>1, <1>2 DEF AuthNext, allVars

\* To the scripts the clients are stuttering: what is proved of the keys holds
\* while they are used.
THEOREM ClientsLeaveKeys == AuthSpec => Spec
<1>1. AuthInit => Init
  BY DEF AuthInit
<1>2. [AuthNext]_allVars => [Next]_vars
  BY DEF AuthNext, allVars, vars
<1> QED
  BY <1>1, <1>2, PTL DEF AuthSpec, Spec

\* Every variable of the clients keeps its type.
THEOREM ClientsInvariant == AuthSpec => [](AuthTypeOK /\ ClientInv)
<1>1. AuthInit => AuthTypeOK /\ ClientInv
  BY DEF AuthInit, AuthTypeOK, ClientInv, NoSecret
<1>2. AuthSpec => [](TypeOK /\ Inv)
  BY ClientsLeaveKeys, KeysInvariant, PTL
<1> QED
  BY <1>1, <1>2, AuthStep, PTL DEF AuthSpec

\* A key that was revoked before it was presented is never served
\* (RevokedKeyIsNotServed).
THEOREM RevokedNotServed == AuthSpec => []RevokedKeyIsNotServed
<1>1. ClientInv => RevokedKeyIsNotServed
  BY DEF ClientInv, RevokedKeyIsNotServed
<1> QED
  BY <1>1, ClientsInvariant, PTL

=============================================================================
