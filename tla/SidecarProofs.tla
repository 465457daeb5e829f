--------------------------- MODULE SidecarProofs ---------------------------
(***************************************************************************)
(* Proofs about Sidecar, for any instances and keys and any rotations.     *)
(***************************************************************************)
EXTENDS Sidecar, TLAPS

(***************************************************************************)
(* The invariant.  An instance that saves a generated key does so in an    *)
(* empty directory, so the first key of a directory never changes; and the *)
(* history of validity is what the entries of the list cover.              *)
(***************************************************************************)
First(k) == k \in files /\ \A l \in files : k <= l

KeyOf(i, k) == IF EnvKey[i] = NoKey THEN First(k) ELSE k = EnvKey[i]

KeysInv ==
    /\ \A i \in Instances : EnvKey[i] \in used \cup {NoKey}
    /\ \A i \in Instances : stage[i] = "saving" =>
          i \in Ephemeral /\ EnvKey[i] = NoKey /\ files = {}
    /\ \A i \in Instances : stage[i] = "up" => KeyOf(i, key[i])
    /\ \A a \in issued : KeyOf(a.by, a.key)

WellSigned(a) ==
    /\ a.pub = a.key /\ a.at <= clock
    /\ a.hash = Payload(a.kind, a.content, a.key, a.at)
    /\ a.signature = [by |-> a.key, over |-> a.hash]

ListInv ==
    /\ \A d, e \in listed : d.key = e.key => d = e
    /\ \A e \in listed : \A t \in 0..clock : Covers(e, t) <=> <<e.key, t>> \in validAt
    /\ \A p \in validAt : p[2] <= clock /\ \E e \in listed : e.key = p[1]

Inv == TypeOK /\ KeysInv /\ ListInv /\ \A a \in issued : WellSigned(a)

LEMMA Constants ==
    /\ \A k \in Keys : k \in Nat
    /\ NoKey \notin Keys /\ MaxTime \in Nat /\ Never \notin Nat
    /\ \A i \in Instances : EnvKey[i] \in Keys \cup {NoKey}
  BY SidecarAssumption

LEMMA InitInv == Init => Inv
<1> SUFFICES ASSUME Init PROVE Inv
  OBVIOUS
<1>1. files \subseteq used /\ used \subseteq Keys
  <2>1. files \subseteq Keys
    BY SidecarAssumption DEF Init
  <2>2. \A i \in Instances : EnvKey[i] # NoKey => EnvKey[i] \in Keys
    BY Constants
  <2> QED
    BY <2>1, <2>2 DEF Init
<1>2. TypeOK
  <2>1. /\ stage \in [Instances -> {"down", "saving", "up"}] /\ key \in [Instances -> used \cup {NoKey}]
        /\ \A i \in Instances : key[i] = NoKey <=> stage[i] = "down"
    BY DEF Init
  <2>2. clock \in Seconds
    BY Constants DEF Init, Seconds
  <2>3. listed = {} /\ issued = {} /\ validAt = {}
    BY DEF Init
  <2> QED
    BY <1>1, <2>1, <2>2, <2>3 DEF TypeOK
<1>3. \A i \in Instances : EnvKey[i] \in used \cup {NoKey}
  BY DEF Init
<1>4. KeysInv /\ ListInv /\ \A a \in issued : WellSigned(a)
  BY <1>3 DEF Init, KeysInv, ListInv
<1> QED
  BY <1>2, <1>4 DEF Inv

(***************************************************************************)
(* The service.                                                            *)
(***************************************************************************)
LEMMA ServeStep ==
    ASSUME TypeOK, NEW i \in Instances, NEW k \in used, Serve(i, k)
    PROVE  /\ stage' \in [Instances -> {"down", "saving", "up"}]
           /\ key' \in [Instances -> used \cup {NoKey}]
           /\ \A j \in Instances : key'[j] = NoKey <=> stage'[j] = "down"
           /\ stage'[i] = "up" /\ key'[i] = k
           /\ \A j \in Instances \ {i} : stage'[j] = stage[j] /\ key'[j] = key[j]
  BY Constants DEF Serve, TypeOK

LEMMA StartKeeps ==
    ASSUME Inv, NEW i \in Instances, Start(i) PROVE TypeOK' /\ KeysInv'
<1> USE DEF Inv
<1>1. UNCHANGED <<files, clock, listed, issued, validAt>> /\ stage[i] = "down"
  BY DEF Start
<1>2. ASSUME NEW k \in used, Serve(i, k), UNCHANGED used, KeyOf(i, k)
      PROVE  TypeOK' /\ KeysInv'
  <2>1. TypeOK'
    BY <1>1, <1>2, ServeStep DEF TypeOK
  <2>2. KeysInv'
    BY <1>1, <1>2, ServeStep DEF KeysInv, KeyOf, First
  <2> QED
    BY <2>1, <2>2
<1>3. CASE EnvKey[i] # NoKey /\ Serve(i, EnvKey[i]) /\ UNCHANGED used
  BY <1>2, <1>3 DEF KeyOf, KeysInv
<1>4. CASE EnvKey[i] = NoKey /\ UNCHANGED used
           /\ \E k \in files : (\A l \in files : k <= l) /\ Serve(i, k)
  <2>1. PICK k \in files : (\A l \in files : k <= l) /\ Serve(i, k)
    BY <1>4
  <2>2. k \in used
    BY DEF TypeOK
  <2> QED
    BY <1>2, <1>4, <2>1, <2>2 DEF KeyOf, First
<1>5. CASE EnvKey[i] = NoKey /\ files = {} /\ i \in Ephemeral /\ Generate(i)
  <2>1. PICK k \in Keys \ used : key' = [key EXCEPT ![i] = k] /\ used' = used \cup {k}
    BY <1>5 DEF Generate
  <2>2. stage' = [stage EXCEPT ![i] = "saving"]
    BY <1>5 DEF Generate
  <2>3. TypeOK'
    BY <1>1, <2>1, <2>2, Constants DEF TypeOK
  <2>4. KeysInv'
    BY <1>1, <1>5, <2>1, <2>2 DEF KeysInv, KeyOf, First, TypeOK
  <2> QED
    BY <2>3, <2>4
<1> QED
  BY <1>3, <1>4, <1>5 DEF Start

LEMMA SaveKeeps ==
    ASSUME Inv, NEW i \in Instances, Save(i) PROVE TypeOK' /\ KeysInv'
<1> USE DEF Inv
<1>1. /\ UNCHANGED <<used, clock, listed, issued, validAt>> /\ stage[i] = "saving"
      /\ files' = files \cup {key[i]} /\ Serve(i, key[i])
  BY DEF Save
<1>2. i \in Ephemeral /\ EnvKey[i] = NoKey /\ files = {} /\ key[i] \in used
  BY <1>1 DEF TypeOK, KeysInv
<1>3. TypeOK'
  BY <1>1, <1>2, ServeStep DEF TypeOK
<1>4. PICK k : k = key[i] /\ k \in Nat
  BY <1>2, Constants DEF TypeOK
<1>5. First(k)'
  BY <1>1, <1>2, <1>4 DEF First
<1>6. /\ \A j \in Instances \ {i} : stage[j] = "up" => EnvKey[j] # NoKey
      /\ \A a \in issued : EnvKey[a.by] # NoKey
  BY <1>2 DEF KeysInv, KeyOf, First
<1>7. \A j \in Instances \ {i} : stage[j] # "saving"
  BY <1>2, OneDeveloper DEF KeysInv
<1>8. stage'[i] = "up" /\ key'[i] = k
  BY <1>1, <1>2, <1>4, ServeStep
<1>9. \A j \in Instances \ {i} : stage'[j] = stage[j] /\ key'[j] = key[j]
  BY <1>1, <1>2, ServeStep
<1> QED
  BY <1>1, <1>2, <1>3, <1>5, <1>6, <1>7, <1>8, <1>9 DEF KeysInv, KeyOf

LEMMA CrashKeeps ==
    ASSUME Inv, NEW i \in Instances, Crash(i) PROVE TypeOK' /\ KeysInv'
<1> USE DEF Inv
<1>1. /\ UNCHANGED <<files, used, clock, listed, issued, validAt>>
      /\ stage' = [stage EXCEPT ![i] = "down"] /\ key' = [key EXCEPT ![i] = NoKey]
  BY DEF Crash
<1>2. TypeOK'
  BY <1>1 DEF TypeOK
<1>3. KeysInv'
  BY <1>1 DEF KeysInv, KeyOf, First, TypeOK
<1> QED
  BY <1>2, <1>3

LEMMA SignKeeps ==
    ASSUME Inv, NEW i \in Instances, NEW kind \in Kinds, Sign(i, kind)
    PROVE  TypeOK' /\ KeysInv' /\ \A a \in issued' : WellSigned(a)'
<1> USE DEF Inv
<1>1. PICK content \in Contents : issued' = issued \cup {Signed(i, kind, content)}
  BY DEF Sign
<1>2. UNCHANGED <<files, used, stage, key, clock, listed, validAt>> /\ stage[i] = "up"
  BY DEF Sign
<1>3. PICK a : a = Signed(i, kind, content)
  OBVIOUS
<1>4. PICK object : object = Payload(kind, content, key[i], clock)
  OBVIOUS
<1>5. key[i] \in Keys /\ clock \in Seconds
  BY <1>2 DEF TypeOK
<1>6. object \in SignedObject
  BY <1>4, <1>5 DEF Payload, SignedObject
<1>7. /\ a = [by |-> i, kind |-> kind, content |-> content, key |-> key[i], pub |-> key[i], at |-> clock,
              hash |-> object, signature |-> [by |-> key[i], over |-> object]]
  BY <1>3, <1>4 DEF Signed
<1>8. a \in Attestation
  BY <1>5, <1>6, <1>7 DEF Attestation
<1>9. TypeOK'
  BY <1>1, <1>2, <1>3, <1>8 DEF TypeOK
<1>10. KeyOf(a.by, a.key)
  BY <1>2, <1>7 DEF KeysInv
<1>11. KeysInv'
  BY <1>1, <1>2, <1>3, <1>10 DEF KeysInv, KeyOf, First
<1>12. WellSigned(a)
  BY <1>4, <1>5, <1>7 DEF WellSigned, Seconds
<1>13. \A b \in issued' : WellSigned(b)'
  BY <1>1, <1>2, <1>3, <1>12 DEF WellSigned
<1> QED
  BY <1>9, <1>11, <1>13

(***************************************************************************)
(* The list.                                                               *)
(***************************************************************************)
LEMMA AddKeyKeeps ==
    ASSUME Inv, NEW k \in Keys, AddKey(k) PROVE TypeOK' /\ ListInv'
<1> USE DEF Inv
<1>1. /\ UNCHANGED <<files, used, stage, key, clock, issued>>
      /\ \A e \in listed : e.key # k
      /\ validAt' = validAt \cup ValidNow(listed', clock)
  BY DEF AddKey
<1>2. PICK from \in clock..MaxTime :
         listed' = listed \cup {[key |-> k, from |-> from, until |-> Never]}
  BY DEF AddKey
<1>3. PICK new : new = [key |-> k, from |-> from, until |-> Never]
  OBVIOUS
<1>4. clock \in Nat /\ MaxTime \in Nat /\ clock <= MaxTime /\ from \in Seconds /\ from \in Nat /\ clock <= from
  BY Constants DEF TypeOK, Seconds
<1>5. new \in Entry
  BY <1>3, <1>4 DEF Entry
<1>6. \A e \in listed' : e.key \in Keys
  BY <1>2, <1>3, <1>5 DEF TypeOK, Entry
<1>7. TypeOK'
  <2>1. listed' \subseteq Entry
    BY <1>2, <1>3, <1>5 DEF TypeOK
  <2>2. validAt' \subseteq Keys \X Seconds
    BY <1>1, <1>6 DEF ValidNow, TypeOK
  <2> QED
    BY <1>1, <2>1, <2>2 DEF TypeOK
<1>8. \A d, e \in listed' : d.key = e.key => d = e
  BY <1>1, <1>2, <1>3 DEF ListInv
<1>9. \A p \in validAt' : p[2] <= clock /\ \E e \in listed' : e.key = p[1]
  BY <1>4, <1>1, <1>2 DEF ListInv, ValidNow
<1>10. ASSUME NEW e \in listed', NEW t \in 0..clock
       PROVE  Covers(e, t) <=> <<e.key, t>> \in validAt'
  <2>1. <<e.key, t>> \in ValidNow(listed', clock) <=> t = clock /\ Covers(e, t)
    BY <1>8, <1>10 DEF ValidNow
  <2>2. CASE e \in listed
    BY <1>1, <1>10, <2>1, <2>2 DEF ListInv
  <2>3. CASE e = new
    <3>1. <<e.key, t>> \notin validAt
      BY <1>1, <1>3, <2>3 DEF ListInv
    <3>2. Covers(e, t) => t = clock
      BY <1>3, <1>4, <1>10, <2>3 DEF Covers
    <3> QED
      BY <1>1, <2>1, <3>1, <3>2
  <2> QED
    BY <1>2, <1>3, <2>2, <2>3
<1> QED
  BY <1>1, <1>7, <1>8, <1>9, <1>10 DEF ListInv

LEMMA RetireKeyKeeps ==
    ASSUME Inv, NEW e \in listed, RetireKey(e) PROVE TypeOK' /\ ListInv'
<1> USE DEF Inv
<1>1. UNCHANGED <<files, used, stage, key, clock, issued, validAt>> /\ e.until = Never
  BY DEF RetireKey
<1>2. PICK until \in clock..MaxTime :
         listed' = (listed \ {e}) \cup {[key |-> e.key, from |-> e.from, until |-> until]}
  BY DEF RetireKey
<1>3. PICK new : new = [key |-> e.key, from |-> e.from, until |-> until]
  OBVIOUS
<1>4. e \in Entry /\ clock \in Nat /\ MaxTime \in Nat /\ until \in Seconds /\ until \in Nat /\ clock <= until
  BY Constants DEF TypeOK, Seconds
<1>5. new \in Entry /\ new.key = e.key /\ new.from = e.from /\ new.until = until
  BY <1>3, <1>4 DEF Entry
<1>6. TypeOK'
  BY <1>1, <1>2, <1>3, <1>5 DEF TypeOK
<1>7. \A c, d \in listed' : c.key = d.key => c = d
  BY <1>2, <1>3, <1>5 DEF ListInv
<1>8. \A p \in validAt : p[2] <= clock /\ \E d \in listed' : d.key = p[1]
  BY <1>2, <1>3, <1>5 DEF ListInv
<1>9. ASSUME NEW d \in listed', NEW t \in 0..clock
      PROVE  Covers(d, t) <=> <<d.key, t>> \in validAt
  <2>1. CASE d \in listed
    BY <1>9, <2>1 DEF ListInv
  <2>2. CASE d = new
    <3>1. Covers(new, t) <=> Covers(e, t)
      BY <1>1, <1>4, <1>5, <1>9 DEF Covers
    <3>2. Covers(e, t) <=> <<e.key, t>> \in validAt
      BY <1>9 DEF ListInv
    <3> QED
      BY <1>5, <2>2, <3>1, <3>2
  <2> QED
    BY <1>2, <1>3, <2>1, <2>2
<1> QED
  BY <1>1, <1>6, <1>7, <1>8, <1>9 DEF ListInv

LEMMA TickKeeps == ASSUME Inv, Tick PROVE TypeOK' /\ ListInv'
<1> USE DEF Inv
<1>1. /\ UNCHANGED <<files, used, stage, key, listed, issued>> /\ clock < MaxTime /\ clock' = clock + 1
      /\ validAt' = validAt \cup ValidNow(listed, clock')
  BY DEF Tick
<1>2. clock \in Nat /\ clock' \in Seconds /\ clock' \in Nat
  BY <1>1, Constants DEF TypeOK, Seconds
<1>3. TypeOK'
  <2>1. validAt' \subseteq Keys \X Seconds
    BY <1>1, <1>2 DEF ValidNow, TypeOK, Entry
  <2> QED
    BY <1>1, <1>2, <2>1 DEF TypeOK
<1>4. \A p \in validAt' : p[2] <= clock' /\ \E e \in listed : e.key = p[1]
  BY <1>1, <1>2 DEF TypeOK, Seconds, ListInv, ValidNow
<1>5. ASSUME NEW e \in listed, NEW t \in 0..clock'
      PROVE  Covers(e, t) <=> <<e.key, t>> \in validAt'
  <2>1. <<e.key, t>> \in ValidNow(listed, clock') <=> t = clock' /\ Covers(e, t)
    BY <1>5 DEF ValidNow, ListInv
  <2>2. CASE t \in 0..clock
    <3>1. t # clock'
      BY <1>1, <1>2, <2>2
    <3> QED
      BY <1>1, <2>1, <2>2, <3>1 DEF ListInv
  <2>3. CASE t = clock'
    <3>1. <<e.key, t>> \notin validAt
      BY <1>1, <1>2, <2>3 DEF ListInv
    <3> QED
      BY <1>1, <2>1, <2>3, <3>1
  <2> QED
    BY <1>1, <1>2, <1>5, <2>2, <2>3
<1> QED
  BY <1>1, <1>3, <1>4, <1>5 DEF ListInv

(***************************************************************************)
(* The invariant is kept, and what it says.                                *)
(***************************************************************************)
LEMMA ListUnchanged ==
    ASSUME ListInv, UNCHANGED <<clock, listed, validAt>> PROVE ListInv'
  BY DEF ListInv, Covers

LEMMA SignaturesKept ==
    ASSUME Inv, issued' = issued, clock' \in Nat, clock <= clock'
    PROVE  \A a \in issued' : WellSigned(a)'
<1>1. clock \in Nat /\ \A a \in issued : a.at \in Nat
  BY Constants DEF Inv, TypeOK, Seconds, Attestation
<1>2. ASSUME NEW a \in issued PROVE WellSigned(a)'
  <2>1. WellSigned(a) /\ a.at \in Nat
    BY <1>1 DEF Inv
  <2>2. a.at <= clock'
    BY <1>1, <2>1 DEF WellSigned
  <2> QED
    BY <2>1, <2>2 DEF WellSigned
<1> QED
  BY <1>2

LEMMA KeysUnchanged ==
    ASSUME KeysInv, UNCHANGED <<files, used, stage, key, issued>> PROVE KeysInv'
  BY DEF KeysInv, KeyOf, First

LEMMA NextInv == Inv /\ [Next]_vars => Inv'
<1> SUFFICES ASSUME Inv, [Next]_vars PROVE Inv'
  OBVIOUS
<1>1. clock \in Nat /\ clock <= clock /\ ListInv /\ KeysInv
  BY Constants DEF Inv, TypeOK, Seconds
<1>2. ASSUME NEW i \in Instances, Start(i) \/ Save(i) \/ Crash(i) PROVE Inv'
  <2>1. UNCHANGED <<clock, listed, issued, validAt>>
    BY <1>2 DEF Start, Save, Crash
  <2>2. TypeOK' /\ KeysInv'
    BY <1>2, StartKeeps, SaveKeeps, CrashKeeps
  <2> QED
    BY <1>1, <2>1, <2>2, ListUnchanged, SignaturesKept DEF Inv
<1>3. ASSUME NEW i \in Instances, NEW kind \in Kinds, Sign(i, kind) PROVE Inv'
  <2>1. UNCHANGED <<clock, listed, validAt>>
    BY <1>3 DEF Sign
  <2> QED
    BY <1>1, <1>3, <2>1, ListUnchanged, SignKeeps DEF Inv
<1>4. CASE (\E k \in Keys : AddKey(k)) \/ (\E e \in listed : RetireKey(e))
  <2>1. UNCHANGED <<files, used, stage, key, clock, issued>>
    BY <1>4 DEF AddKey, RetireKey
  <2>2. TypeOK' /\ ListInv'
    BY <1>4, AddKeyKeeps, RetireKeyKeeps
  <2> QED
    BY <1>1, <2>1, <2>2, KeysUnchanged, SignaturesKept DEF Inv
<1>5. CASE Tick
  <2>1. UNCHANGED <<files, used, stage, key, issued>> /\ clock' = clock + 1
    BY <1>5 DEF Tick
  <2>2. TypeOK' /\ ListInv'
    BY <1>5, TickKeeps
  <2> QED
    BY <1>1, <2>1, <2>2, KeysUnchanged, SignaturesKept DEF Inv
<1>6. CASE UNCHANGED vars
  <2>1. UNCHANGED <<files, used, stage, key, clock, listed, issued, validAt>>
    BY <1>6 DEF vars
  <2>2. TypeOK'
    BY <2>1 DEF Inv, TypeOK
  <2> QED
    BY <1>1, <2>1, <2>2, KeysUnchanged, ListUnchanged, SignaturesKept DEF Inv
<1>7. "verdict" \in Kinds /\ "call" \in Kinds
  BY DEF Kinds
<1> QED
  BY <1>2, <1>3, <1>4, <1>5, <1>6, <1>7 DEF Next, Attest, SignCall

THEOREM InvariantHolds == Spec => []Inv
  BY InitInv, NextInv, PTL DEF Spec

\* Every variable keeps its type; an instance has a key exactly while it is not down.
THEOREM TypeCorrect == Spec => []TypeOK
<1>1. Inv => TypeOK
  BY DEF Inv
<1> QED
  BY <1>1, InvariantHolds, PTL

\* Nothing is signed by a key that vanishes on restart (main.py:46-47).
THEOREM KeyPersists == Spec => []SigningKeyPersists
<1>1. Inv => SigningKeyPersists
  BY DEF Inv, KeysInv, KeyOf, First, SigningKeyPersists
<1> QED
  BY <1>1, InvariantHolds, PTL

\* The instances of one directory sign with one key, over all their restarts (test_restart.sh:2).
THEOREM OneKey == Spec => []OneKeyPerDirectory
<1>1. Inv => OneKeyPerDirectory
  <2> SUFFICES ASSUME Inv, NEW a \in issued, NEW b \in issued,
                      EnvKey[a.by] = NoKey, EnvKey[b.by] = NoKey
               PROVE  a.key = b.key
    BY DEF OneKeyPerDirectory
  <2>1. First(a.key) /\ First(b.key)
    BY DEF Inv, KeysInv, KeyOf
  <2>2. a.key \in Nat /\ b.key \in Nat /\ a.key <= b.key /\ b.key <= a.key
    BY <2>1, Constants DEF First, Inv, TypeOK
  <2> QED
    BY <2>2
<1> QED
  BY <1>1, InvariantHolds, PTL

(***************************************************************************)
(* Verification.                                                           *)
(***************************************************************************)
LEMMA NoIssues ==
    ASSUME NEW a, NEW kind, NEW content, NEW entries
    PROVE  Issues(a, kind, content, entries) = {} <=>
             /\ a.pub = a.key
             /\ a.hash = Payload(kind, content, a.key, a.at)
             /\ a.signature = [by |-> a.pub, over |-> a.hash]
             /\ Trusting(a, entries)
  BY DEF Issues

LEMMA TrustsItself ==
    ASSUME NEW a, a.at \in Nat PROVE Trusting(a, Itself(a))
  BY DEF Trusting, Itself, Covers

\* What the code verifies is what was signed, as it was signed (trust.py:94-117).
THEOREM SignedVerifies == Spec => []OnlySignedVerifies
<1>1. Inv => OnlySignedVerifies
  <2> SUFFICES ASSUME Inv, NEW a \in issued, NEW content \in Contents, NEW k \in Keys, NEW t \in Seconds,
                      NEW p \in {a.pub, k}
               PROVE  LET copy == [a EXCEPT !.key = k, !.pub = p, !.at = t]
                          same == copy = a /\ content = a.content
                      IN  /\ \A kind \in Kinds :
                                IntegrityValid(copy, kind, content) <=> same /\ kind = a.kind
                          /\ PinnedValid(copy, content, {a.key}) <=> same /\ a.kind = "verdict"
    BY DEF OnlySignedVerifies
  <2>1. PICK copy : copy = [a EXCEPT !.key = k, !.pub = p, !.at = t]
    OBVIOUS
  <2>2. a \in Attestation /\ WellSigned(a)
    BY DEF Inv, TypeOK
  <2>3. /\ copy.key = k /\ copy.pub = p /\ copy.at = t /\ copy.kind = a.kind /\ copy.content = a.content
        /\ copy.by = a.by /\ copy.hash = a.hash /\ copy.signature = a.signature
    BY <2>1, <2>2 DEF Attestation
  <2>4. copy = a <=> k = a.key /\ p = a.pub /\ t = a.at
    BY <2>1, <2>2, <2>3 DEF Attestation
  <2>5. t \in Nat
    BY Constants DEF Seconds
  <2>6. \A kind : a.hash = Payload(kind, content, k, t) <=>
                    kind = a.kind /\ content = a.content /\ k = a.key /\ t = a.at
    BY <2>2 DEF WellSigned, Payload
  <2>7. ASSUME NEW kind
        PROVE  Issues(copy, kind, content, Itself(copy)) = {} <=>
                 copy = a /\ content = a.content /\ kind = a.kind
    <3>1. Trusting(copy, Itself(copy))
      BY <2>3, <2>5, TrustsItself
    <3>2. a.pub = a.key /\ a.signature = [by |-> a.key, over |-> a.hash]
      BY <2>2 DEF WellSigned
    <3>3. Issues(copy, kind, content, Itself(copy)) = {} <=>
            p = k /\ a.hash = Payload(kind, content, k, t) /\ a.signature = [by |-> p, over |-> a.hash]
      BY <2>3, <3>1, NoIssues
    <3>4. a.signature = [by |-> p, over |-> a.hash] <=> p = a.pub
      BY <3>2
    <3> QED
      BY <2>4, <2>6, <3>2, <3>3, <3>4
  <2>8. \A kind \in Kinds :
           IntegrityValid(copy, kind, content) <=> copy = a /\ content = a.content /\ kind = a.kind
    BY <2>7 DEF IntegrityValid
  <2>9. PinnedValid(copy, content, {a.key}) <=> copy = a /\ content = a.content /\ a.kind = "verdict"
    <3>1. CASE k = a.key
      BY <2>3, <2>7, <3>1 DEF PinnedValid
    <3>2. CASE k # a.key
      <4>1. ~Trusting(copy, {})
        BY DEF Trusting
      <4>2. Issues(copy, "verdict", content, {}) # {}
        BY <4>1, NoIssues
      <4> QED
        BY <2>3, <2>4, <3>2, <4>2 DEF PinnedValid
    <3> QED
      BY <3>1, <3>2
  <2> QED
    BY <2>1, <2>8, <2>9, SMTT(30)
<1> QED
  BY <1>1, InvariantHolds, PTL

\* Through every rotation, an attestation is trusted exactly when its key was valid
\* at the second it was issued (trust.py:112-116, KEYS.md).
THEOREM TrustFollows == Spec => []TrustFollowsValidity
<1>1. Inv => TrustFollowsValidity
  <2> SUFFICES ASSUME Inv, Valid(listed), NEW a \in issued
               PROVE  SignerTrusted(a, a.kind, a.content) <=> <<a.key, a.at>> \in validAt
    BY DEF TrustFollowsValidity
  <2>1. WellSigned(a) /\ a.at \in Nat /\ a.at \in 0..clock
    BY Constants DEF Inv, TypeOK, WellSigned, Attestation, Seconds
  <2>2. SignerTrusted(a, a.kind, a.content) <=> Trusting(a, listed)
    BY <2>1, NoIssues, TrustsItself DEF SignerTrusted, IntegrityValid, WellSigned
  <2>3. Trusting(a, listed) <=> <<a.key, a.at>> \in validAt
    BY <2>1 DEF Trusting, Inv, ListInv
  <2> QED
    BY <2>2, <2>3
<1> QED
  BY <1>1, InvariantHolds, PTL
=============================================================================
