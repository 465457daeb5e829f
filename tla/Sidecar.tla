------------------------------ MODULE Sidecar ------------------------------
(***************************************************************************)
(* The signing sidecar (vidimus-svc/main.py, trust.py, verify_verdict.py): *)
(* which key an instance signs with, over crashes and restarts, and who    *)
(* accepts what it signed, while an operator rotates the keys of           *)
(* trusted-keys.json as KEYS.md says.  A hash is the object it was taken   *)
(* of; a signature is a key and a hash.  Time is in seconds, as issued_at  *)
(* is.                                                                     *)
(***************************************************************************)
EXTENDS Naturals, FiniteSets

CONSTANTS Instances,    \* running services
          Keys,         \* key fingerprints: key files are sorted by them
          Volumes,      \* what VIDIMUS_KEYS_DIR may hold at first
          EnvKey,       \* per instance, the key of VIDIMUS_SIGNING_KEY_PEM
          NoKey,        \* which may be absent
          Ephemeral,    \* instances with VIDIMUS_ALLOW_EPHEMERAL=1
          Contents,     \* what is signed: a verdict with its confidence, or a record
          Never,        \* valid_until null
          MaxTime, MaxIssued   \* bounds of the model

ASSUME SidecarAssumption ==
    /\ Keys \subseteq Nat /\ Volumes \subseteq SUBSET Keys /\ NoKey \notin Keys
    /\ EnvKey \in [Instances -> Keys \cup {NoKey}]
    /\ Ephemeral \subseteq Instances
    /\ MaxTime \in Nat /\ Never \notin Nat

\* VIDIMUS_ALLOW_EPHEMERAL is for local development, where one container has the directory.
ASSUME OneDeveloper == \A i, j \in Ephemeral : EnvKey[i] = NoKey /\ EnvKey[j] = NoKey => i = j

VARIABLES files,     \* the keys of VIDIMUS_KEYS_DIR
          used,      \* keys that exist: generated keys are new
          stage,     \* "down", "saving" a generated key, or "up"
          key,       \* the key of each instance
          clock,
          listed,    \* the entries of trusted-keys.json
          issued,    \* everything signed so far
          validAt    \* history: pairs of a key and a second when the list had it valid

vars == <<files, used, stage, key, clock, listed, issued, validAt>>

(***************************************************************************)
(* trust.py                                                                *)
(***************************************************************************)
Kinds == {"verdict", "call"}

\* Mutant: the time is not signed.
PayloadUndated(kind, content, k, at) == [kind |-> kind, content |-> content, key |-> k, at |-> 0]

\* The two kinds have payloads of different shapes.
Payload(kind, content, k, at) == [kind |-> kind, content |-> content, key |-> k, at |-> at]

\* Mutant: a retired key is refused in its last second.
CoversNotLast(e, t) == e.from <= t /\ (e.until # Never => t < e.until)

Covers(e, t) == e.from <= t /\ (e.until # Never => t <= e.until)

\* What load_trusted accepts.
Valid(entries) ==
    /\ \A d, e \in entries : d.key = e.key => d = e
    /\ \A e \in entries : e.until # Never => e.from <= e.until
    /\ \A d, e \in entries : d.until = Never /\ e.until = Never => d = e

Trusting(a, entries) == \E e \in entries : e.key = a.key /\ Covers(e, a.at)

\* verify_attestation and verify_tool_call_record.
Issues(a, kind, content, entries) ==
    IF a.pub # a.key THEN {"key_id"}
    ELSE {x \in {"hash", "signature", "trust"} :
             \/ x = "hash" /\ a.hash # Payload(kind, content, a.key, a.at)
             \/ x = "signature" /\ a.signature # [by |-> a.pub, over |-> a.hash]
             \/ x = "trust" /\ ~Trusting(a, entries)}

(***************************************************************************)
(* POST /verify, and verify_verdict.py with and without --trusted-key.     *)
(***************************************************************************)
Itself(a) == {[key |-> a.key, from |-> 0, until |-> Never]}

IntegrityValid(a, kind, content) == Issues(a, kind, content, Itself(a)) = {}

SignerTrusted(a, kind, content) ==
    IntegrityValid(a, kind, content) /\ Valid(listed) /\ Issues(a, kind, content, listed) = {}

PinnedValid(a, content, pins) ==
    Issues(a, "verdict", content, IF a.key \in pins THEN Itself(a) ELSE {}) = {}

(***************************************************************************)
(* The service.                                                            *)
(***************************************************************************)
Init ==
    /\ files \in Volumes
    /\ used = files \cup {EnvKey[i] : i \in {j \in Instances : EnvKey[j] # NoKey}}
    /\ stage = [i \in Instances |-> "down"]
    /\ key = [i \in Instances |-> NoKey]
    /\ clock = 0
    /\ listed = {}
    /\ issued = {}
    /\ validAt = {}

Serve(i, k) ==
    /\ stage' = [stage EXCEPT ![i] = "up"]
    /\ key' = [key EXCEPT ![i] = k]

\* A new key, not on disk yet.
Generate(i) ==
    /\ \E k \in Keys \ used : key' = [key EXCEPT ![i] = k] /\ used' = used \cup {k}
    /\ stage' = [stage EXCEPT ![i] = "saving"]

\* Mutant: a developer's instance always generates its key.
StartFresh(i) ==
    /\ stage[i] = "down"
    /\ \/ EnvKey[i] # NoKey /\ Serve(i, EnvKey[i]) /\ UNCHANGED used
       \/ EnvKey[i] = NoKey /\ i \in Ephemeral /\ Generate(i)
    /\ UNCHANGED <<files, clock, listed, issued, validAt>>

\* The key of the environment wins over the directory, of which the first file is
\* taken; an instance that may not generate one refuses to start.
Start(i) ==
    /\ stage[i] = "down"
    /\ \/ EnvKey[i] # NoKey /\ Serve(i, EnvKey[i]) /\ UNCHANGED used
       \/ /\ EnvKey[i] = NoKey /\ UNCHANGED used
          /\ \E k \in files : (\A l \in files : k <= l) /\ Serve(i, k)
       \/ EnvKey[i] = NoKey /\ files = {} /\ i \in Ephemeral /\ Generate(i)
    /\ UNCHANGED <<files, clock, listed, issued, validAt>>

\* Mutant: the key is used and not saved.
SaveNothing(i) ==
    /\ stage[i] = "saving"
    /\ Serve(i, key[i])
    /\ UNCHANGED <<files, used, clock, listed, issued, validAt>>

Save(i) ==
    /\ stage[i] = "saving"
    /\ files' = files \cup {key[i]}
    /\ Serve(i, key[i])
    /\ UNCHANGED <<used, clock, listed, issued, validAt>>

Crash(i) ==
    /\ stage[i] # "down"
    /\ stage' = [stage EXCEPT ![i] = "down"]
    /\ key' = [key EXCEPT ![i] = NoKey]
    /\ UNCHANGED <<files, used, clock, listed, issued, validAt>>

\* What POST /attest and POST /sign-call answer, and who answered.
Signed(i, kind, content) ==
    LET hash == Payload(kind, content, key[i], clock)
    IN  [by |-> i, kind |-> kind, content |-> content, key |-> key[i], pub |-> key[i], at |-> clock,
         hash |-> hash, signature |-> [by |-> key[i], over |-> hash]]

Sign(i, kind) ==
    /\ stage[i] = "up"
    /\ Cardinality(issued) < MaxIssued
    /\ \E content \in Contents : issued' = issued \cup {Signed(i, kind, content)}
    /\ UNCHANGED <<files, used, stage, key, clock, listed, validAt>>

Attest(i)   == Sign(i, "verdict")
SignCall(i) == Sign(i, "call")

(***************************************************************************)
(* The operator: a retired key keeps its entry.  The two steps of a        *)
(* rotation may be made in either order, and planned for later.            *)
(***************************************************************************)
ValidNow(entries, now) == {<<e.key, now>> : e \in {d \in entries : Covers(d, now)}}

AddKey(k) ==
    /\ k \in used /\ \A e \in listed : e.key # k
    /\ \E from \in clock..MaxTime :
          listed' = listed \cup {[key |-> k, from |-> from, until |-> Never]}
    /\ validAt' = validAt \cup ValidNow(listed', clock)
    /\ UNCHANGED <<files, used, stage, key, clock, issued>>

RetireKey(e) ==
    /\ e.until = Never
    /\ \E until \in clock..MaxTime :
          listed' = (listed \ {e}) \cup {[key |-> e.key, from |-> e.from, until |-> until]}
    /\ UNCHANGED <<files, used, stage, key, clock, issued, validAt>>

Tick ==
    /\ clock < MaxTime
    /\ clock' = clock + 1
    /\ validAt' = validAt \cup ValidNow(listed, clock')
    /\ UNCHANGED <<files, used, stage, key, listed, issued>>

Next ==
    \/ \E i \in Instances : Start(i) \/ Save(i) \/ Crash(i) \/ Attest(i) \/ SignCall(i)
    \/ \E k \in Keys : AddKey(k)
    \/ \E e \in listed : RetireKey(e)
    \/ Tick

Spec == Init /\ [][Next]_vars

(***************************************************************************)
(* Properties.                                                             *)
(***************************************************************************)
Seconds == 0..MaxTime

Entry == [key : Keys, from : Seconds, until : Seconds \cup {Never}]

SignedObject == [kind : Kinds, content : Contents, key : Keys, at : Seconds]

Attestation ==
    [by : Instances, kind : Kinds, content : Contents, key : Keys, pub : Keys, at : Seconds,
     hash : SignedObject, signature : [by : Keys, over : SignedObject]]

TypeOK ==
    /\ files \subseteq used /\ used \subseteq Keys
    /\ stage \in [Instances -> {"down", "saving", "up"}]
    /\ key \in [Instances -> used \cup {NoKey}]
    /\ \A i \in Instances : key[i] = NoKey <=> stage[i] = "down"
    /\ clock \in Seconds
    /\ listed \subseteq Entry
    /\ issued \subseteq Attestation
    /\ validAt \subseteq Keys \X Seconds

\* Nothing is signed by a key that vanishes on restart, wherever an instance
\* stopped while it was making its key (main.py:46-47, 81-84).
SigningKeyPersists ==
    \A a \in issued : a.key \in files \/ a.key = EnvKey[a.by]

\* Restarts keep the key: the instances of one directory sign with one key
\* (test_keys.py:82, test_restart.sh:2).
OneKeyPerDirectory ==
    \A a, b \in issued : EnvKey[a.by] = NoKey /\ EnvKey[b.by] = NoKey => a.key = b.key

\* Through every rotation, an attestation is trusted exactly when the list had its
\* key valid at the second it was issued, whenever the list can be read
\* (trust.py:112-116, KEYS.md "Never delete a retired key").
TrustFollowsValidity ==
    Valid(listed) =>
        \A a \in issued : SignerTrusted(a, a.kind, a.content) <=> <<a.key, a.at>> \in validAt

\* An answer of the service that verifies was signed as it is presented: no field of it,
\* nor what it is about, nor its kind, can have changed, and nothing signed is
\* refused, offline either (trust.py:94-117, 130-150, verify_verdict.py:20-37).
OnlySignedVerifies ==
    \A a \in issued, content \in Contents, k \in Keys, t \in Seconds : \A p \in {a.pub, k} :
        LET copy == [a EXCEPT !.key = k, !.pub = p, !.at = t]
            same == copy = a /\ content = a.content
        IN  /\ \A kind \in Kinds : IntegrityValid(copy, kind, content) <=> same /\ kind = a.kind
            /\ PinnedValid(copy, content, {a.key}) <=> same /\ a.kind = "verdict"
=============================================================================
