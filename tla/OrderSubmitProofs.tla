-------------------------- MODULE OrderSubmitProofs --------------------------
(***************************************************************************)
(* Proofs about OrderSubmit, for any sets of processes, threads,           *)
(* fingerprints, orderLinkIds and attempts.                                *)
(***************************************************************************)
EXTENDS OrderSubmit, TLAPS

(***************************************************************************)
(* The inductive invariant.  Its parts speak of a journal j, because a     *)
(* transaction goes from the journal to its recovered version and then to  *)
(* its mutated version, and they hold of all three.                        *)
(***************************************************************************)
Submitting == {"reserved", "sent", "answered", "unclear"}

(* An attempt has a key exactly when it was recorded. *)
UsedHasKey == \A a \in Attempts : fate[a] = "unused" <=> key[a] = NoKey

(* No two attempts share an orderLinkId. *)
LinkIdentifies ==
    \A a, b \in Attempts :
        key[a] # NoKey /\ key[b] # NoKey /\ Link(key[a]) = Link(key[b]) => a = b

(* Every record belongs to the attempt that wrote it... *)
RecordHasAttempt(j) ==
    \A k \in Keys : j[k].state # "absent" => j[k].att \in Attempts /\ key[j[k].att] = k

(* ... and every recorded attempt still has its record. *)
AttemptHasRecord(j) ==
    \A a \in Attempts : key[a] # NoKey => j[key[a]].state # "absent"

(* Evidence behind every resolved record. *)
EvidenceBehind(j) ==
    \A a \in Attempts :
        key[a] # NoKey /\ j[key[a]].state = "resolved" => fate[a] \in Decided

(* One blocking record per fingerprint. *)
OneActive(j) ==
    \A k, q \in Keys : Active(j, k) /\ Active(j, q) /\ FP(k) = FP(q) => k = q

(* A thread in the middle of create_order owns an in_flight record. *)
SubmitterOwns(j) ==
    \A t \in Threads : pc[t] \in Submitting =>
        /\ cur[t] \in Attempts
        /\ key[cur[t]] # NoKey
        /\ j[key[cur[t]]].state = "in_flight"
        /\ j[key[cur[t]]].holder = Home[t]

(* What the thread knows agrees with what the exchange did. *)
SubmitterKnows ==
    \A t \in Threads :
        /\ pc[t] = "reserved" => fate[cur[t]] = "unsent"
        /\ pc[t] \in {"sent", "unclear"} => fate[cur[t]] \in {"pending", "created", "refused"}
        /\ pc[t] = "answered" => fate[cur[t]] \in Decided

(* No two threads submit the same attempt. *)
OneSubmitter ==
    \A t, u \in Threads :
        pc[t] \in Submitting /\ pc[u] \in Submitting /\ cur[t] = cur[u] => t = u

(* What a reconciler copied or saw confirmed is no longer in flight. *)
CopiedSettled(j) ==
    \A t \in Threads : \A k \in todo[t] : j[k].state \in {"unknown", "resolved"}

ConfirmedIsReal(j) ==
    \A t \in Threads : pc[t] = "confirmed" =>
        /\ hit[t] \in Keys
        /\ j[hit[t]].state \in {"unknown", "resolved"}
        /\ \E a \in Attempts : /\ fate[a] = "created"
                               /\ key[a] # NoKey
                               /\ Link(key[a]) = Link(hit[t])

Consistent(j) ==
    /\ j \in [Keys -> Record]
    /\ RecordHasAttempt(j)
    /\ AttemptHasRecord(j)
    /\ EvidenceBehind(j)
    /\ OneActive(j)
    /\ SubmitterOwns(j)
    /\ CopiedSettled(j)
    /\ ConfirmedIsReal(j)

IInv ==
    /\ TypeOK
    /\ UsedHasKey
    /\ LinkIdentifies
    /\ SubmitterKnows
    /\ OneSubmitter
    /\ Consistent(journal)

-----------------------------------------------------------------------------
(* Recovery preserves the shape of the journal and changes only the state  *)
(* of records whose owner is gone.                                         *)
LEMMA RecoverFacts ==
    ASSUME NEW j, j \in [Keys -> Record], NEW S \in SUBSET Orphans(j)
    PROVE  /\ Recover(j, S) \in [Keys -> Record]
           /\ \A k \in Keys :
                /\ Recover(j, S)[k].holder = j[k].holder
                /\ Recover(j, S)[k].att = j[k].att
                /\ \/ Recover(j, S)[k] = j[k]
                   \/ /\ j[k].state = "in_flight"
                      /\ j[k].holder = NoProc
                      /\ Recover(j, S)[k].state = "unknown"
BY DEF Recover, Orphans, Record

(* Every outcome of a transaction leaves either the old journal or the new *)
(* one, and only the guard of the process running it changes.              *)
LEMMA TransactFacts ==
    ASSUME TypeOK, NEW p \in Procs, NEW o \in Outcomes, NEW j, Transact(p, o, j)
    PROVE  /\ journal' = journal \/ journal' = j
           /\ guard' \in [Procs -> {"down", "unbound", "ok", "failed"}]
BY DEF Transact, TypeOK, Outcomes

(* The type invariant: every record, guard, thread and attempt stays in    *)
(* its domain, whatever outcome each transaction has.                      *)
THEOREM TypeCorrect == Spec => []TypeOK
<1> USE ConstantsAssumption
<1>1. Init => TypeOK
  BY DEF Init, TypeOK, Record, Absent
<1>2. TypeOK /\ [Next]_vars => TypeOK'
  <2> SUFFICES ASSUME TypeOK, [Next]_vars PROVE TypeOK'
    OBVIOUS
  <2>0. \A S \in SUBSET Orphans(journal) : Recover(journal, S) \in [Keys -> Record]
    BY RecoverFacts DEF TypeOK
  <2>1. ASSUME NEW p \in Procs, Start(p) PROVE TypeOK'
    BY <2>1 DEF Start, TypeOK
  <2>2. ASSUME NEW p \in Procs, Stop(p) PROVE TypeOK'
    <3>0. \A k \in Keys : [journal[k] EXCEPT !.holder = NoProc] \in Record
      BY DEF TypeOK, Record
    <3>1. journal' \in [Keys -> Record]
      BY <2>2, <3>0 DEF Stop, TypeOK
    <3>2. QED BY <2>2, <3>1 DEF Stop, TypeOK
  <2>3. ASSUME NEW p \in Procs, NEW o \in Outcomes, NEW S \in SUBSET Orphans(journal),
               Configure(p, o, S)
        PROVE  TypeOK'
    BY <2>3, <2>0 DEF Configure, TypeOK
  <2>4. ASSUME NEW t \in Threads, Submit(t) PROVE TypeOK'
    <3>1. ASSUME NEW a \in Attempts, NEW k \in Keys, NEW S \in SUBSET Orphans(journal),
                 Begin(t, a, k, S) \/ BeginTorn(t, a, k, S)
          PROVE  TypeOK'
      <4> DEFINE j == [Recover(journal, S) EXCEPT ![k] = NewRecord("in_flight", Home[t], a)]
      <4>1. Recover(journal, S) \in [Keys -> Record]
        BY <2>0
      <4>2. NewRecord("in_flight", Home[t], a) \in Record
        BY DEF NewRecord, Record
      <4>3. j \in [Keys -> Record]
        BY <4>1, <4>2
      <4>4. \E o \in Outcomes : Transact(Home[t], o, j)
        BY <3>1 DEF Begin, BeginTorn, Outcomes
      <4>5. /\ journal' \in [Keys -> Record]
            /\ guard' \in [Procs -> {"down", "unbound", "ok", "failed"}]
        <5> HIDE DEF j
        <5> QED BY <4>3, <4>4, TransactFacts DEF TypeOK
      <4>6. QED BY <3>1, <4>5 DEF Begin, BeginTorn, TypeOK
    <3>2. ASSUME NEW k \in Keys, NEW o \in Outcomes, NEW S \in SUBSET Orphans(journal),
                 BeginRefused(t, k, o, S)
          PROVE  TypeOK'
      <4>1. \E j \in {journal, Recover(journal, S)} : Transact(Home[t], o, j)
        BY <3>2 DEF BeginRefused
      <4>2. /\ journal' \in [Keys -> Record]
            /\ guard' \in [Procs -> {"down", "unbound", "ok", "failed"}]
        BY <4>1, <2>0, TransactFacts DEF TypeOK
      <4>3. QED BY <3>2, <4>2 DEF BeginRefused, TypeOK
    <3>3. CASE GrantRevoked(t)
      BY <3>3 DEF GrantRevoked, Finish, TypeOK
    <3>4. CASE Post(t)
      BY <3>4 DEF Post, TypeOK
    <3>5. CASE DefinitiveAnswer(t) \/ IndefiniteAnswer(t)
      BY <3>5 DEF DefinitiveAnswer, IndefiniteAnswer, TypeOK
    <3>6. ASSUME NEW o \in Outcomes, NEW S \in SUBSET Orphans(journal), 
                 NEW s \in {"unknown", "resolved"}, Mark(t, s, o, S)
          PROVE  TypeOK'
      <4> DEFINE r == Recover(journal, S)
                 k == key[cur[t]]
                 j == Marked(r, k, s, Home[t], cur[t])
      <4>1. r \in [Keys -> Record]
        BY <2>0
      <4>2. NewRecord(s, Home[t], cur[t]) \in Record
        BY DEF NewRecord, Record, TypeOK
      <4>3. \A q \in Keys : [r[q] EXCEPT !.state = s] \in Record
        BY <4>1 DEF Record
      <4>4. j \in [Keys -> Record]
        <5> HIDE DEF r, k
        <5> QED BY <4>1, <4>2, <4>3 DEF Marked
      <4>5. /\ journal' = journal \/ journal' = j
            /\ guard' \in [Procs -> {"down", "unbound", "ok", "failed"}]
        BY <3>6 DEF Mark, TypeOK
      <4>6. QED
        <5> HIDE DEF j
        <5> QED BY <3>6, <4>4, <4>5 DEF Mark, Finish, TypeOK
    <3>7. QED BY <2>4, <3>1, <3>2, <3>3, <3>4, <3>5, <3>6 
             DEF Submit, MarkUnknown, MarkResolved
  <2>5. ASSUME NEW t \in Threads, Reconcile(t) PROVE TypeOK'
    <3>1. ASSUME NEW o \in Outcomes, NEW S \in SUBSET Orphans(journal), ReconcileStart(t, o, S)
          PROVE  TypeOK'
      <4>1. /\ journal' \in [Keys -> Record]
            /\ guard' \in [Procs -> {"down", "unbound", "ok", "failed"}]
        BY <3>1, <2>0, TransactFacts DEF ReconcileStart, TypeOK
      <4>2. UnknownKeys(journal') \in SUBSET Keys
        BY DEF UnknownKeys
      <4>3. QED BY <3>1, <4>1, <4>2 DEF ReconcileStart, TypeOK
    <3>2. ASSUME NEW k \in Keys, QueryConfirms(t, k) \/ QueryInconclusive(t, k)
          PROVE  TypeOK'
      BY <3>2 DEF QueryConfirms, QueryInconclusive, NextEntry, TypeOK
    <3>3. ASSUME NEW o \in Outcomes, NEW S \in SUBSET Orphans(journal), ResolveReconciled(t, o, S)
          PROVE  TypeOK'
      <4> DEFINE r == Recover(journal, S)
      <4>1. r \in [Keys -> Record]
        BY <2>0
      <4>2. \A q \in Keys : [r EXCEPT ![q].state = "resolved"] \in [Keys -> Record]
        <5> HIDE DEF r
        <5> QED BY <4>1 DEF Record
      <4>3. \E j \in [Keys -> Record] : Transact(Home[t], o, j)
        <5>1. ReconcileTargets(r, hit[t]) \subseteq Keys
          BY DEF ReconcileTargets
        <5>2. QED BY <3>3, <4>1, <4>2, <5>1 DEF ResolveReconciled
      <4>4. /\ journal' \in [Keys -> Record]
            /\ guard' \in [Procs -> {"down", "unbound", "ok", "failed"}]
        BY <4>3, TransactFacts DEF TypeOK
      <4>5. QED BY <3>3, <4>4 DEF ResolveReconciled, NextEntry, TypeOK
    <3>4. CASE ResolveRefused(t)
      BY <3>4 DEF ResolveRefused, TypeOK
    <3>5. QED BY <2>5, <3>1, <3>2, <3>3, <3>4 DEF Reconcile
  <2>6. ASSUME NEW a \in Attempts, ExchangeDecides(a) PROVE TypeOK'
    BY <2>6 DEF ExchangeDecides, Decided, TypeOK
  <2>7. CASE UNCHANGED vars
    BY <2>7 DEF vars, TypeOK
  <2>8. QED BY <2>1, <2>2, <2>3, <2>4, <2>5, <2>6, <2>7 DEF Next
<1>3. QED BY <1>1, <1>2, PTL DEF Spec

-----------------------------------------------------------------------------
(* Recovery keeps the journal consistent: it touches no record a live      *)
(* thread owns, and a recovered record blocks as before.                   *)
LEMMA RecoverConsistent ==
    ASSUME IInv, NEW S \in SUBSET Orphans(journal)
    PROVE  Consistent(Recover(journal, S))
<1> DEFINE r == Recover(journal, S)
<1>0. /\ r \in [Keys -> Record]
      /\ \A k \in Keys :
            /\ r[k].holder = journal[k].holder
            /\ r[k].att = journal[k].att
            /\ \/ r[k] = journal[k]
               \/ /\ journal[k].state = "in_flight"
                  /\ journal[k].holder = NoProc
                  /\ r[k].state = "unknown"
  BY RecoverFacts DEF IInv, TypeOK
<1> HIDE DEF r
<1> USE DEF IInv, TypeOK
<1>1. RecordHasAttempt(r)
  BY <1>0 DEF Consistent, RecordHasAttempt
<1>2. AttemptHasRecord(r)
  BY <1>0 DEF Consistent, AttemptHasRecord
<1>3. EvidenceBehind(r)
  BY <1>0 DEF Consistent, EvidenceBehind
<1>4. OneActive(r)
  BY <1>0 DEF Consistent, OneActive, Active, ActiveStates
<1>5. SubmitterOwns(r)
  BY <1>0, ConstantsAssumption DEF Consistent, SubmitterOwns
<1>6. CopiedSettled(r)
  BY <1>0 DEF Consistent, CopiedSettled
<1>7. ConfirmedIsReal(r)
  BY <1>0 DEF Consistent, ConfirmedIsReal
<1>8. QED BY <1>0, <1>1, <1>2, <1>3, <1>4, <1>5, <1>6, <1>7 DEF Consistent, r

(* A step that only replaces the journal by a consistent one.              *)
LEMMA OnlyJournal ==
    ASSUME IInv, TypeOK', NEW j, Consistent(j), journal' = j,
           UNCHANGED <<pc, cur, todo, hit, key, fate>>
    PROVE  IInv'
<1>1. Consistent(journal)'
  BY DEF Consistent, RecordHasAttempt, AttemptHasRecord, EvidenceBehind, OneActive, Active,
         SubmitterOwns, CopiedSettled, ConfirmedIsReal
<1>2. QED
  BY <1>1 DEF IInv, UsedHasKey, LinkIdentifies, SubmitterKnows, OneSubmitter

(* begin: the new record is the only active one of its fingerprint, under  *)
(* a key no attempt used, so that no other record is overwritten.          *)
LEMMA BeginKeeps ==
    ASSUME ~ReuseLinks, IInv, TypeOK', NEW t \in Threads, NEW a \in Attempts, NEW k \in Keys,
           NEW S \in SUBSET Orphans(journal), Begin(t, a, k, S) \/ BeginTorn(t, a, k, S)
    PROVE  IInv'
<1> DEFINE r == Recover(journal, S)
           n == NewRecord("in_flight", Home[t], a)
<1>1. Consistent(r)
  BY RecoverConsistent
<1>2. /\ journal' = [r EXCEPT ![k] = n]
      /\ ~Blocked(r, k)
      /\ key' = [key EXCEPT ![a] = k]
      /\ fate' = [fate EXCEPT ![a] = "unsent"]
      /\ fate[a] = "unused"
      /\ pc[t] = "idle"
      /\ todo' = todo /\ hit' = hit
      /\ \A b \in Attempts : key[b] # NoKey => Link(key[b]) # Link(k)
      /\ \/ pc' = pc /\ cur' = cur
         \/ pc' = [pc EXCEPT ![t] = "reserved"] /\ cur' = [cur EXCEPT ![t] = a]
  BY DEF Begin, BeginTorn, Transact, LinkAllowed, Idle
<1>3. n.state = "in_flight" /\ n.holder = Home[t] /\ n.att = a
  BY DEF NewRecord
<1>4. r \in [Keys -> Record] /\ key[a] = NoKey /\ k # NoKey
  BY <1>1, <1>2, ConstantsAssumption DEF Consistent, IInv, UsedHasKey
<1>5. r[k].state = "absent"
  BY <1>1, <1>2, <1>4, ConstantsAssumption DEF Consistent, RecordHasAttempt, Record
<1>6. \A q \in Keys : journal'[q] = IF q = k THEN n ELSE r[q]
  BY <1>2, <1>4
<1>7. \A b \in Attempts : key'[b] = (IF b = a THEN k ELSE key[b])
                          /\ fate'[b] = (IF b = a THEN "unsent" ELSE fate[b])
  BY <1>2 DEF IInv, TypeOK
<1>8. \A b \in Attempts : key[b] # NoKey => key[b] \in Keys /\ key[b] # k
  BY <1>2 DEF IInv, TypeOK
<1>9. \A u \in Threads :
        \/ pc'[u] = pc[u] /\ cur'[u] = cur[u]
        \/ u = t /\ pc'[u] = "reserved" /\ cur'[u] = a
  BY <1>2 DEF IInv, TypeOK
<1>10. \A u \in Threads : pc[u] \in Submitting => cur[u] \in Attempts /\ cur[u] # a
  BY <1>1, <1>4 DEF Consistent, SubmitterOwns
<1>a. \A u \in Threads : pc[u] = "idle" => pc[u] \notin Submitting
  BY DEF Submitting
<1> HIDE DEF r, n
<1>11. UsedHasKey'
  BY <1>4, <1>7 DEF IInv, UsedHasKey
<1>12. LinkIdentifies'
  BY <1>2, <1>4, <1>7 DEF IInv, LinkIdentifies
<1>13. SubmitterKnows'
  BY <1>7, <1>9, <1>10 DEF IInv, SubmitterKnows, Submitting, Decided
<1>14. OneSubmitter'
  BY <1>2, <1>9, <1>10, <1>a DEF IInv, OneSubmitter
<1>15. RecordHasAttempt(journal)'
  BY ConstantsAssumption, <1>1, <1>3, <1>4, <1>6, <1>7 DEF Consistent, RecordHasAttempt
<1>16. AttemptHasRecord(journal)'
  BY <1>1, <1>3, <1>6, <1>7, <1>8 DEF Consistent, AttemptHasRecord
<1>17. EvidenceBehind(journal)'
  BY <1>1, <1>3, <1>6, <1>7, <1>8 DEF Consistent, EvidenceBehind
<1>18. OneActive(journal)'
  BY <1>1, <1>2, <1>6 DEF Consistent, OneActive, Active, Blocked
<1>19. SubmitterOwns(journal)'
  BY <1>1, <1>3, <1>4, <1>6, <1>7, <1>8, <1>9, <1>10 DEF Consistent, SubmitterOwns
<1>20. CopiedSettled(journal)'
  BY <1>1, <1>2, <1>5, <1>6 DEF Consistent, CopiedSettled, IInv, TypeOK
<1>21. ConfirmedIsReal(journal)'
  BY <1>1, <1>2, <1>4, <1>5, <1>6, <1>7, <1>9 DEF Consistent, ConfirmedIsReal
<1>22. QED
  BY <1>11, <1>12, <1>13, <1>14, <1>15, <1>16, <1>17, <1>18, <1>19, <1>20, <1>21
     DEF IInv, Consistent, TypeOK

(* mark_unknown and mark_resolved work on the in_flight record of the      *)
(* caller, and change no other record and nothing but its state.           *)
LEMMA MarkMoves ==
    ASSUME IInv, TypeOK', NEW t \in Threads, NEW s \in {"unknown", "resolved"},
           NEW o \in Outcomes, NEW S \in SUBSET Orphans(journal),
           pc[t] \in {"answered", "unclear"}, s = "resolved" => pc[t] = "answered",
           Mark(t, s, o, S)
    PROVE  /\ cur[t] \in Attempts /\ key[cur[t]] # NoKey /\ key[cur[t]] \in Keys
           /\ \A x \in {journal, Recover(journal, S)} :
                 /\ x[key[cur[t]]].state = "in_flight"
                 /\ x[key[cur[t]]].holder = Home[t]
                 /\ x[key[cur[t]]].att = cur[t]
           /\ s = "resolved" => fate[cur[t]] \in Decided
           /\ \E x \in {journal, Recover(journal, S)} :
                 /\ Consistent(x) /\ x \in [Keys -> Record]
                 /\ \A q \in Keys :
                       /\ journal'[q].holder = x[q].holder /\ journal'[q].att = x[q].att
                       /\ journal'[q].state = x[q].state
                          \/ (q = key[cur[t]] /\ journal'[q].state = s)
<1> DEFINE r == Recover(journal, S)
           a == cur[t]
           k == key[a]
<1>1. Consistent(r) /\ Consistent(journal)
  BY RecoverConsistent DEF IInv
<1>2. /\ a \in Attempts /\ k # NoKey /\ k \in Keys
      /\ \A x \in {journal, r} : /\ x \in [Keys -> Record]
                                 /\ x[k].state = "in_flight" /\ x[k].holder = Home[t]
                                 /\ x[k].att \in Attempts /\ key[x[k].att] = k
      /\ s = "resolved" => fate[a] \in Decided
  <2>1. pc[t] \in Submitting
    BY DEF Submitting
  <2>2. QED
    BY <1>1, <2>1 DEF Consistent, SubmitterOwns, RecordHasAttempt, IInv, TypeOK, SubmitterKnows
<1>3. \A x \in {journal, r} : x[k].att = a
  BY <1>2 DEF IInv, LinkIdentifies
<1>4. PICK j : /\ journal' = j
               /\ \/ Consistent(j) /\ (j = journal \/ j = r)
                  \/ j = Marked(r, k, s, Home[t], a)
  BY <1>1 DEF Mark
<1>5. \E x \in {journal, r} :
        /\ Consistent(x) /\ x \in [Keys -> Record]
        /\ \A q \in Keys :
              /\ j[q].holder = x[q].holder /\ j[q].att = x[q].att
              /\ j[q].state = x[q].state \/ (q = k /\ j[q].state = s)
  <2>1. CASE Consistent(j) /\ (j = journal \/ j = r)
    BY <2>1 DEF Consistent
  <2>2. CASE j = Marked(r, k, s, Home[t], a)
    <3>1. j = [r EXCEPT ![k] = [r[k] EXCEPT !.state = s]]
      BY <2>2, <1>2 DEF Marked
    <3>2. [r[k] EXCEPT !.state = s].state = s
          /\ [r[k] EXCEPT !.state = s].holder = r[k].holder
          /\ [r[k] EXCEPT !.state = s].att = r[k].att
      BY <1>2 DEF Record
    <3>3. QED
      <4> HIDE DEF r, k, a
      <4> QED BY <1>1, <1>2, <3>1, <3>2
  <2>3. QED BY <1>4, <2>1, <2>2
<1>6. QED BY <1>2, <1>3, <1>4, <1>5

(* mark_unknown and mark_resolved: the thread rewrites its own in_flight   *)
(* record, and "resolved" only on a definitive answer.                     *)
LEMMA MarkKeeps ==
    ASSUME IInv, TypeOK', NEW t \in Threads, NEW s \in {"unknown", "resolved"},
           NEW o \in Outcomes, NEW S \in SUBSET Orphans(journal),
           pc[t] \in {"answered", "unclear"}, s = "resolved" => pc[t] = "answered",
           Mark(t, s, o, S)
    PROVE  IInv'
<1> DEFINE r == Recover(journal, S)
           a == cur[t]
           k == key[a]
<1>1. /\ a \in Attempts /\ k # NoKey /\ k \in Keys
      /\ \A x \in {journal, r} : x[k].state = "in_flight" /\ x[k].holder = Home[t]
      /\ s = "resolved" => fate[a] \in Decided
  BY MarkMoves
<1>2. pc[t] \in Submitting
  BY DEF Submitting
<1>3. /\ key' = key /\ fate' = fate /\ todo' = todo /\ hit' = hit
      /\ pc' = [pc EXCEPT ![t] = "idle"]
  BY DEF Mark, Finish
<1>4. \A u \in Threads : u # t => pc'[u] = pc[u] /\ cur'[u] = cur[u]
  BY DEF Mark, Finish, IInv, TypeOK
<1>5. pc'[t] = "idle" /\ "idle" \notin Submitting
  BY DEF Mark, Finish, IInv, TypeOK, Submitting
<1>9. PICK x \in {journal, r} :
        /\ Consistent(x) /\ x \in [Keys -> Record]
        /\ \A q \in Keys :
              /\ journal'[q].holder = x[q].holder /\ journal'[q].att = x[q].att
              /\ journal'[q].state = x[q].state \/ (q = k /\ journal'[q].state = s)
  BY MarkMoves
<1>10. \A b \in Attempts : key[b] # NoKey => key[b] \in Keys
  BY DEF IInv, TypeOK
<1>11. \A b \in Attempts : key[b] = k => b = a
  BY <1>1, <1>2 DEF IInv, LinkIdentifies
<1>12. \A u \in Threads : u # t /\ pc[u] \in Submitting => cur[u] # a
  BY <1>1, <1>2 DEF IInv, OneSubmitter
<1> HIDE DEF r, k, a
<1>13. RecordHasAttempt(journal)'
  BY <1>1, <1>2, <1>3, <1>9 DEF Consistent, RecordHasAttempt
<1>14. AttemptHasRecord(journal)'
  BY <1>3, <1>9, <1>10 DEF Consistent, AttemptHasRecord
<1>15. EvidenceBehind(journal)'
  BY <1>1, <1>2, <1>3, <1>9, <1>10, <1>11 DEF Consistent, EvidenceBehind
<1>16. OneActive(journal)'
  BY <1>1, <1>2, <1>3, <1>9 DEF Consistent, OneActive, Active, ActiveStates
<1>17. SubmitterOwns(journal)'
  BY <1>1, <1>2, <1>3, <1>4, <1>5, <1>9, <1>10, <1>11, <1>12 DEF Consistent, SubmitterOwns
<1>18. CopiedSettled(journal)'
  BY <1>1, <1>2, <1>3, <1>9 DEF Consistent, CopiedSettled, IInv, TypeOK
<1>19. ConfirmedIsReal(journal)'
  BY <1>1, <1>2, <1>3, <1>4, <1>5, <1>9 DEF Consistent, ConfirmedIsReal
<1>20. UsedHasKey' /\ LinkIdentifies'
  BY <1>3 DEF IInv, UsedHasKey, LinkIdentifies
<1>21. SubmitterKnows'
  BY <1>3, <1>4, <1>5 DEF IInv, SubmitterKnows
<1>22. OneSubmitter'
  BY <1>4, <1>5 DEF IInv, OneSubmitter
<1>23. QED
  BY <1>13, <1>14, <1>15, <1>16, <1>17, <1>18, <1>19, <1>20, <1>21, <1>22
     DEF IInv, Consistent, TypeOK

(* resolve_reconciled: the only active record with the confirmed           *)
(* orderLinkId is the confirmed one, its order exists, and no other record *)
(* is changed.                                                             *)
LEMMA ResolveMoves ==
    ASSUME IInv, NEW t \in Threads, NEW o \in Outcomes,
           NEW S \in SUBSET Orphans(journal), ResolveReconciled(t, o, S)
    PROVE  \E a \in Attempts :
             /\ fate[a] = "created" /\ key[a] = hit[t] /\ hit[t] # NoKey /\ hit[t] \in Keys
             /\ \A x \in {journal, Recover(journal, S)} :
                   /\ x[hit[t]].state \in {"unknown", "resolved"}
                   /\ x[hit[t]].att = a
             /\ \E x \in {journal, Recover(journal, S)} :
                   /\ Consistent(x) /\ x \in [Keys -> Record]
                   /\ \A q \in Keys :
                         /\ journal'[q].holder = x[q].holder /\ journal'[q].att = x[q].att
                         /\ journal'[q].state = x[q].state
                            \/ (q = hit[t] /\ journal'[q].state = "resolved")
<1> DEFINE r == Recover(journal, S)
           k == hit[t]
<1>1. Consistent(r) /\ Consistent(journal)
  BY RecoverConsistent DEF IInv
<1>2. PICK a \in Attempts : fate[a] = "created" /\ key[a] # NoKey /\ Link(key[a]) = Link(k)
  BY <1>1 DEF ResolveReconciled, Consistent, ConfirmedIsReal
<1>3. /\ k \in Keys
      /\ \A x \in {journal, r} : x \in [Keys -> Record] /\ x[k].state \in {"unknown", "resolved"}
  BY <1>1 DEF ResolveReconciled, Consistent, ConfirmedIsReal
<1>4. key[a] = k /\ \A x \in {journal, r} : x[k].att = a
  BY <1>1, <1>2, <1>3, ConstantsAssumption DEF Consistent, RecordHasAttempt, IInv, LinkIdentifies
<1>5. ReconcileTargets(r, k) \subseteq {k}
  <2>1. SUFFICES ASSUME NEW q \in Keys, Active(r, q), Link(q) = Link(k) PROVE q = k
    BY DEF ReconcileTargets
  <2>2. r[q].att \in Attempts /\ key[r[q].att] = q
    BY <1>1, <2>1 DEF Consistent, RecordHasAttempt, Active, ActiveStates
  <2>3. QED BY <1>2, <1>4, <2>1, <2>2, ConstantsAssumption DEF IInv, LinkIdentifies
<1>6. PICK j : /\ journal' = j
               /\ j = journal \/ j = r \/ j = [r EXCEPT ![k].state = "resolved"]
  BY <1>5 DEF ResolveReconciled, Transact
<1>7. \E x \in {journal, r} :
        /\ Consistent(x) /\ x \in [Keys -> Record]
        /\ \A q \in Keys :
              /\ j[q].holder = x[q].holder /\ j[q].att = x[q].att
              /\ j[q].state = x[q].state \/ (q = k /\ j[q].state = "resolved")
  <2>1. CASE j = journal \/ j = r
    BY <1>1, <2>1 DEF Consistent
  <2>2. CASE j = [r EXCEPT ![k].state = "resolved"]
    <3> HIDE DEF r, k
    <3>1. \A q \in Keys : q # k => j[q] = r[q]
      BY <1>3, <2>2
    <3>2. j[k].state = "resolved" /\ j[k].holder = r[k].holder /\ j[k].att = r[k].att
      BY <1>3, <2>2 DEF Record
    <3>3. QED BY <1>1, <1>3, <3>1, <3>2
  <2>3. QED BY <1>6, <2>1, <2>2
<1>8. QED BY <1>2, <1>3, <1>4, <1>6, <1>7

(* resolve_reconciled keeps the invariant: it resolves the confirmed       *)
(* record, whose order exists.                                             *)
LEMMA ResolveKeeps ==
    ASSUME IInv, TypeOK', NEW t \in Threads, NEW o \in Outcomes,
           NEW S \in SUBSET Orphans(journal), ResolveReconciled(t, o, S)
    PROVE  IInv'
<1> DEFINE r == Recover(journal, S)
           k == hit[t]
<1>1. Consistent(r) /\ Consistent(journal)
  BY RecoverConsistent DEF IInv
<1>2. PICK a \in Attempts :
        /\ fate[a] = "created" /\ key[a] = k /\ k # NoKey /\ k \in Keys
        /\ \A x \in {journal, r} : x[k].state \in {"unknown", "resolved"}
        /\ \E x \in {journal, r} :
              /\ Consistent(x) /\ x \in [Keys -> Record]
              /\ \A q \in Keys :
                    /\ journal'[q].holder = x[q].holder /\ journal'[q].att = x[q].att
                    /\ journal'[q].state = x[q].state
                       \/ (q = k /\ journal'[q].state = "resolved")
  BY ResolveMoves
<1>6. /\ key' = key /\ fate' = fate /\ cur' = cur
      /\ hit' = [hit EXCEPT ![t] = NoKey]
      /\ pc[t] = "confirmed"
  BY DEF ResolveReconciled
<1>7. /\ pc'[t] \in {"idle", "reconciling"}
      /\ todo'[t] \subseteq todo[t]
      /\ \A u \in Threads : u # t => pc'[u] = pc[u] /\ todo'[u] = todo[u] /\ hit'[u] = hit[u]
  BY DEF ResolveReconciled, NextEntry, IInv, TypeOK
<1>8. {"idle", "reconciling", "confirmed"} \intersect Submitting = {}
  BY DEF Submitting
<1>11. PICK x \in {journal, r} :
        /\ Consistent(x) /\ x \in [Keys -> Record]
        /\ \A q \in Keys :
              /\ journal'[q].holder = x[q].holder /\ journal'[q].att = x[q].att
              /\ journal'[q].state = x[q].state \/ (q = k /\ journal'[q].state = "resolved")
  BY <1>2
<1>12. \A b \in Attempts : key[b] # NoKey => key[b] \in Keys
  BY DEF IInv, TypeOK
<1>13. \A b \in Attempts : key[b] = k => b = a
  BY <1>2 DEF IInv, LinkIdentifies
<1>14. \A u \in Threads : pc'[u] \in Submitting => pc[u] \in Submitting /\ u # t
  BY <1>6, <1>7, <1>8
<1> HIDE DEF r, k
<1>15. RecordHasAttempt(journal)'
  BY <1>2, <1>6, <1>11 DEF Consistent, RecordHasAttempt
<1>16. AttemptHasRecord(journal)'
  BY <1>6, <1>11, <1>12 DEF Consistent, AttemptHasRecord
<1>17. EvidenceBehind(journal)'
  BY <1>2, <1>6, <1>11, <1>12, <1>13 DEF Consistent, EvidenceBehind, Decided
<1>18. OneActive(journal)'
  BY <1>2, <1>11 DEF Consistent, OneActive, Active, ActiveStates
<1>19. SubmitterOwns(journal)'
  <2>1. ASSUME NEW u \in Threads, pc'[u] \in Submitting
        PROVE /\ cur'[u] \in Attempts /\ key'[cur'[u]] # NoKey
              /\ journal'[key'[cur'[u]]].state = "in_flight"
              /\ journal'[key'[cur'[u]]].holder = Home[u]
    <3>1. cur[u] \in Attempts /\ key[cur[u]] # NoKey /\ x[key[cur[u]]].state = "in_flight"
          /\ x[key[cur[u]]].holder = Home[u]
      BY <1>11, <1>14, <2>1 DEF Consistent, SubmitterOwns
    <3>2. key[cur[u]] # k
      BY <1>2, <3>1
    <3>3. QED BY <1>6, <1>2, <1>14, <2>1, <1>11, <1>12, <3>1, <3>2
  <2>2. QED BY <2>1 DEF SubmitterOwns
<1>20. CopiedSettled(journal)'
  BY <1>2, <1>7, <1>11 DEF Consistent, CopiedSettled, IInv, TypeOK
<1>21. ConfirmedIsReal(journal)'
  BY <1>2, <1>6, <1>7, <1>11 DEF Consistent, ConfirmedIsReal
<1>22. UsedHasKey' /\ LinkIdentifies'
  BY <1>6 DEF IInv, UsedHasKey, LinkIdentifies
<1>23. SubmitterKnows' /\ OneSubmitter'
  BY <1>6, <1>7, <1>14 DEF IInv, SubmitterKnows, OneSubmitter
<1>24. QED
  BY <1>15, <1>16, <1>17, <1>18, <1>19, <1>20, <1>21, <1>22, <1>23
     DEF IInv, Consistent, TypeOK

(* Every step keeps the inductive invariant when orderLinkIds are fresh.   *)
LEMMA StepKeeps ==
    ASSUME ~ReuseLinks, IInv, TypeOK', [Next]_vars
    PROVE  IInv'
<1> USE ConstantsAssumption
<1>0. Consistent(journal) /\ \A S \in SUBSET Orphans(journal) : Consistent(Recover(journal, S))
  BY RecoverConsistent DEF IInv
<1>1. ASSUME NEW p \in Procs, Start(p) PROVE IInv'
  BY <1>0, <1>1, OnlyJournal DEF Start
<1>2. ASSUME NEW p \in Procs, Stop(p) PROVE IInv'
  <2>1. /\ key' = key /\ fate' = fate
        /\ \A t \in Threads : IF Home[t] = p
                              THEN pc'[t] = "idle" /\ todo'[t] = {}
                              ELSE pc'[t] = pc[t] /\ todo'[t] = todo[t]
                                   /\ cur'[t] = cur[t] /\ hit'[t] = hit[t]
    BY <1>2 DEF Stop
  <2>2. \A k \in Keys : /\ journal'[k].state = journal[k].state
                        /\ journal'[k].att = journal[k].att
                        /\ journal[k].holder # p => journal'[k].holder = journal[k].holder
    BY <1>2 DEF Stop, IInv, TypeOK, Record
  <2>3. \A b \in Attempts : key[b] # NoKey => key[b] \in Keys
    BY DEF IInv, TypeOK
  <2>4. "idle" \notin Submitting
    BY DEF Submitting
  <2>5. RecordHasAttempt(journal)' /\ AttemptHasRecord(journal)' /\ EvidenceBehind(journal)'
    BY <1>0, <2>1, <2>2, <2>3 DEF Consistent, RecordHasAttempt, AttemptHasRecord, EvidenceBehind
  <2>6. OneActive(journal)'
    BY <1>0, <2>2 DEF Consistent, OneActive, Active
  <2>7. SubmitterOwns(journal)'
    BY <1>0, <2>1, <2>2, <2>3, <2>4 DEF Consistent, SubmitterOwns
  <2>8. CopiedSettled(journal)'
    BY <1>0, <2>1, <2>2 DEF Consistent, CopiedSettled, IInv, TypeOK
  <2>9. ConfirmedIsReal(journal)'
    BY <1>0, <2>1, <2>2 DEF Consistent, ConfirmedIsReal
  <2>10. UsedHasKey' /\ LinkIdentifies' /\ SubmitterKnows' /\ OneSubmitter'
    BY <2>1, <2>4 DEF IInv, UsedHasKey, LinkIdentifies, SubmitterKnows, OneSubmitter
  <2>11. QED BY <2>5, <2>6, <2>7, <2>8, <2>9, <2>10 DEF IInv, Consistent, TypeOK
<1>3. ASSUME NEW p \in Procs, NEW o \in Outcomes, NEW S \in SUBSET Orphans(journal),
             Configure(p, o, S)
      PROVE  IInv'
  <2>1. journal' = journal \/ journal' = Recover(journal, S)
    BY <1>3 DEF Configure
  <2>2. QED BY <1>0, <1>3, <2>1, OnlyJournal DEF Configure
<1>4. ASSUME NEW t \in Threads, Submit(t) PROVE IInv'
  <2>1. ASSUME NEW k \in Keys, NEW o \in Outcomes, NEW S \in SUBSET Orphans(journal),
               BeginRefused(t, k, o, S)
        PROVE  IInv'
    <3>1. journal' = journal \/ journal' = Recover(journal, S)
      BY <2>1 DEF BeginRefused, Transact
    <3>2. QED BY <1>0, <2>1, <3>1, OnlyJournal DEF BeginRefused
  <2>2. ASSUME \/ GrantRevoked(t) \/ Post(t) \/ DefinitiveAnswer(t) \/ IndefiniteAnswer(t)
        PROVE  IInv'
    <3>1. /\ journal' = journal /\ todo' = todo /\ hit' = hit /\ key' = key
          /\ \A u \in Threads : u # t => pc'[u] = pc[u] /\ cur'[u] = cur[u]
          /\ pc[t] \in {"reserved", "sent"}
          /\ pc'[t] = "idle" \/ (pc'[t] \in Submitting /\ cur'[t] = cur[t])
      BY <2>2 DEF GrantRevoked, Post, DefinitiveAnswer, IndefiniteAnswer, Finish, IInv, TypeOK,
                  Submitting
    <3>2. "idle" \notin Submitting /\ "reserved" \in Submitting /\ "sent" \in Submitting
      BY DEF Submitting
    <3>3. \/ fate' = fate
          \/ pc[t] = "reserved" /\ pc'[t] = "sent" /\ fate' = [fate EXCEPT ![cur[t]] = "pending"]
             /\ cur' = cur
      BY <2>2 DEF GrantRevoked, Post, DefinitiveAnswer, IndefiniteAnswer, IInv, TypeOK
    <3>4. cur[t] \in Attempts /\ key[cur[t]] \in Keys /\ key[cur[t]] # NoKey
          /\ journal[key[cur[t]]].state = "in_flight"
      BY <1>0, <3>1, <3>2 DEF Consistent, SubmitterOwns, IInv, TypeOK
    <3>5. UsedHasKey' /\ LinkIdentifies'
      BY <3>1, <3>3, <3>4 DEF IInv, UsedHasKey, LinkIdentifies, TypeOK
    <3>6. OneSubmitter'
      BY <3>1, <3>2 DEF IInv, OneSubmitter
    <3>7. SubmitterKnows'
      <4>1. \A u \in Threads : u # t /\ pc[u] \in Submitting => cur[u] # cur[t]
        BY <3>1, <3>2 DEF IInv, OneSubmitter
      <4>2. ASSUME NEW u \in Threads, u # t
            PROVE /\ pc'[u] = "reserved" => fate'[cur'[u]] = "unsent"
                  /\ pc'[u] \in {"sent", "unclear"} 
                       => fate'[cur'[u]] \in {"pending", "created", "refused"}
                  /\ pc'[u] = "answered" => fate'[cur'[u]] \in Decided
        BY <1>0, <3>1, <3>3, <3>4, <4>1, <4>2 
           DEF IInv, SubmitterKnows, TypeOK, Submitting, Consistent, SubmitterOwns
      <4>3. /\ pc'[t] = "reserved" => fate'[cur'[t]] = "unsent"
            /\ pc'[t] \in {"sent", "unclear"} 
                 => fate'[cur'[t]] \in {"pending", "created", "refused"}
            /\ pc'[t] = "answered" => fate'[cur'[t]] \in Decided
        BY <2>2, <3>4 DEF GrantRevoked, Post, DefinitiveAnswer, IndefiniteAnswer, Finish, IInv, 
                          TypeOK, SubmitterKnows
      <4>4. QED BY <4>2, <4>3 DEF SubmitterKnows
    <3>8. RecordHasAttempt(journal)' /\ AttemptHasRecord(journal)' /\ OneActive(journal)'
      BY <1>0, <3>1 DEF Consistent, RecordHasAttempt, AttemptHasRecord, OneActive, Active
    <3>9. EvidenceBehind(journal)'
      BY <1>0, <3>1, <3>3, <3>4 DEF Consistent, EvidenceBehind, IInv, TypeOK
    <3>10. SubmitterOwns(journal)'
      BY <1>0, <3>1, <3>2 DEF Consistent, SubmitterOwns
    <3>11. CopiedSettled(journal)'
      BY <1>0, <3>1 DEF Consistent, CopiedSettled
    <3>12. ConfirmedIsReal(journal)'
      <4>1. \A a \in Attempts : fate[a] = "created" => fate'[a] = "created"
        BY <3>3, <3>4 DEF IInv, TypeOK, SubmitterKnows
      <4>2. pc'[t] # "confirmed"
        BY <3>1 DEF Submitting
      <4>3. QED BY <1>0, <3>1, <4>1, <4>2 DEF Consistent, ConfirmedIsReal
    <3>13. QED BY <3>5, <3>6, <3>7, <3>8, <3>9, <3>10, <3>11, <3>12 DEF IInv, Consistent, TypeOK
  <2>3. QED
    BY <1>4, <2>1, <2>2, BeginKeeps, MarkKeeps DEF Submit, MarkUnknown, MarkResolved
<1>5. ASSUME NEW t \in Threads, Reconcile(t) PROVE IInv'
  <2>1. ASSUME NEW o \in Outcomes, NEW S \in SUBSET Orphans(journal), ReconcileStart(t, o, S)
        PROVE  IInv'
    <3>1. PICK j \in {journal, Recover(journal, S)} : journal' = j
      BY <2>1 DEF ReconcileStart, Transact
    <3>2. /\ UNCHANGED <<cur, hit, key, fate>>
          /\ pc[t] = "idle"
          /\ \A u \in Threads : u # t => pc'[u] = pc[u] /\ todo'[u] = todo[u]
          /\ \/ pc'[t] = pc[t] /\ todo'[t] = todo[t]
             \/ pc'[t] = "reconciling" /\ todo'[t] = UnknownKeys(j)
      BY <2>1, <3>1 DEF ReconcileStart, Idle, IInv, TypeOK
    <3>3. "idle" \notin Submitting /\ "reconciling" \notin Submitting
      BY DEF Submitting
    <3>4. RecordHasAttempt(journal)' /\ AttemptHasRecord(journal)' /\ EvidenceBehind(journal)'
          /\ OneActive(journal)'
      BY <1>0, <3>1, <3>2 DEF Consistent, RecordHasAttempt, AttemptHasRecord, EvidenceBehind, 
                              OneActive, Active
    <3>5. SubmitterOwns(journal)'
      BY <1>0, <3>1, <3>2, <3>3 DEF Consistent, SubmitterOwns
    <3>6. CopiedSettled(journal)'
      BY <1>0, <3>1, <3>2 DEF Consistent, CopiedSettled, UnknownKeys
    <3>7. ConfirmedIsReal(journal)'
      BY <1>0, <3>1, <3>2 DEF Consistent, ConfirmedIsReal
    <3>8. UsedHasKey' /\ LinkIdentifies' /\ OneSubmitter' /\ SubmitterKnows'
      BY <3>2, <3>3 DEF IInv, UsedHasKey, LinkIdentifies, OneSubmitter, SubmitterKnows
    <3>9. QED BY <3>4, <3>5, <3>6, <3>7, <3>8 DEF IInv, Consistent, TypeOK
  <2>2. ASSUME NEW k \in Keys, QueryConfirms(t, k) \/ QueryInconclusive(t, k)
        PROVE  IInv'
    <3>1. /\ UNCHANGED <<journal, cur, key, fate>>
          /\ pc[t] = "reconciling" /\ k \in todo[t]
          /\ \A u \in Threads : u # t => pc'[u] = pc[u] /\ todo'[u] = todo[u] /\ hit'[u] = hit[u]
          /\ todo'[t] \subseteq todo[t]
          /\ \/ pc'[t] \in {"idle", "reconciling"}
             \/ /\ pc'[t] = "confirmed" /\ hit'[t] = k
                /\ \E a \in Attempts : fate[a] = "created" /\ Link(key[a]) = Link(k)
      BY <2>2 DEF QueryConfirms, QueryInconclusive, NextEntry, IInv, TypeOK, StrictMatch
    <3>2. {"idle", "reconciling", "confirmed"} \intersect Submitting = {}
      BY DEF Submitting
    <3>3. RecordHasAttempt(journal)' /\ AttemptHasRecord(journal)' /\ EvidenceBehind(journal)'
          /\ OneActive(journal)'
      BY <1>0, <3>1 DEF Consistent, RecordHasAttempt, AttemptHasRecord, EvidenceBehind, 
                        OneActive, Active
    <3>4. SubmitterOwns(journal)'
      BY <1>0, <3>1, <3>2 DEF Consistent, SubmitterOwns
    <3>5. CopiedSettled(journal)'
      BY <1>0, <3>1 DEF Consistent, CopiedSettled
    <3>6. ConfirmedIsReal(journal)'
      <4>1. \A a \in Attempts : fate[a] = "created" => key[a] # NoKey
        BY DEF IInv, UsedHasKey
      <4>2. journal[k].state \in {"unknown", "resolved"}
        BY <1>0, <3>1 DEF Consistent, CopiedSettled
      <4>3. QED BY <1>0, <3>1, <4>1, <4>2 DEF Consistent, ConfirmedIsReal
    <3>7. UsedHasKey' /\ LinkIdentifies' /\ OneSubmitter' /\ SubmitterKnows'
      BY <3>1, <3>2 DEF IInv, UsedHasKey, LinkIdentifies, OneSubmitter, SubmitterKnows
    <3>8. QED BY <3>3, <3>4, <3>5, <3>6, <3>7 DEF IInv, Consistent, TypeOK
  <2>3. ASSUME ResolveRefused(t) PROVE IInv'
    <3>1. /\ UNCHANGED <<journal, cur, key, fate>>
          /\ pc'[t] = "idle" /\ todo'[t] = {}
          /\ \A u \in Threads : u # t => pc'[u] = pc[u] /\ todo'[u] = todo[u] /\ hit'[u] = hit[u]
      BY <2>3 DEF ResolveRefused, IInv, TypeOK
    <3>2. "idle" \notin Submitting
      BY DEF Submitting
    <3>3. RecordHasAttempt(journal)' /\ AttemptHasRecord(journal)' /\ EvidenceBehind(journal)'
          /\ OneActive(journal)'
      BY <1>0, <3>1 DEF Consistent, RecordHasAttempt, AttemptHasRecord, EvidenceBehind, 
                        OneActive, Active
    <3>4. SubmitterOwns(journal)' /\ CopiedSettled(journal)' /\ ConfirmedIsReal(journal)'
      BY <1>0, <3>1, <3>2 DEF Consistent, SubmitterOwns, CopiedSettled, ConfirmedIsReal
    <3>5. UsedHasKey' /\ LinkIdentifies' /\ OneSubmitter' /\ SubmitterKnows'
      BY <3>1, <3>2 DEF IInv, UsedHasKey, LinkIdentifies, OneSubmitter, SubmitterKnows
    <3>6. QED BY <3>3, <3>4, <3>5 DEF IInv, Consistent, TypeOK
  <2>4. QED BY <1>5, <2>1, <2>2, <2>3, ResolveKeeps DEF Reconcile
<1>6. ASSUME NEW a \in Attempts, ExchangeDecides(a) PROVE IInv'
  <2>1. /\ UNCHANGED <<journal, pc, cur, todo, hit, key>>
        /\ fate[a] = "pending" /\ fate'[a] \in Decided
        /\ \A b \in Attempts : b # a => fate'[b] = fate[b]
    BY <1>6 DEF ExchangeDecides, Decided, IInv, TypeOK
  <2>2. RecordHasAttempt(journal)' /\ AttemptHasRecord(journal)' /\ OneActive(journal)'
        /\ SubmitterOwns(journal)' /\ CopiedSettled(journal)'
    BY <1>0, <2>1 DEF Consistent, RecordHasAttempt, AttemptHasRecord, OneActive, Active,
                      SubmitterOwns, CopiedSettled
  <2>3. EvidenceBehind(journal)' /\ ConfirmedIsReal(journal)'
    BY <1>0, <2>1 DEF Consistent, EvidenceBehind, ConfirmedIsReal
  <2>4. UsedHasKey' /\ LinkIdentifies' /\ OneSubmitter'
    BY <2>1 DEF IInv, UsedHasKey, LinkIdentifies, OneSubmitter, Decided
  <2>5. SubmitterKnows'
    BY <1>0, <2>1 DEF IInv, SubmitterKnows, Decided, Consistent, SubmitterOwns, Submitting
  <2>6. QED BY <2>2, <2>3, <2>4, <2>5 DEF IInv, Consistent, TypeOK
<1>7. CASE UNCHANGED vars
  BY <1>0, <1>7, OnlyJournal DEF vars
<1>8. QED BY <1>1, <1>2, <1>3, <1>4, <1>5, <1>6, <1>7 DEF Next

(* The inductive invariant holds in every reachable state.                 *)
THEOREM Invariance ==
    ASSUME ~ReuseLinks PROVE Spec => []IInv
<1>1. Init => IInv
  <2>1. Init => TypeOK
    BY ConstantsAssumption DEF Init, TypeOK, Record, Absent
  <2>2. QED
    BY <2>1, ConstantsAssumption
       DEF Init, IInv, TypeOK, Absent, UsedHasKey, LinkIdentifies, SubmitterKnows, OneSubmitter,
           Consistent, RecordHasAttempt, AttemptHasRecord, EvidenceBehind, OneActive, Active,
           ActiveStates, SubmitterOwns, CopiedSettled, ConfirmedIsReal, Submitting
<1>2. IInv /\ TypeOK' /\ [Next]_vars => IInv'
  BY StepKeeps
<1>3. QED BY <1>1, <1>2, TypeCorrect, PTL DEF Spec

(* The journal always blocks a POST the exchange has not decided.          *)
LEMMA IInvBlocks == IInv => PendingIsBlocked
BY DEF IInv, Consistent, AttemptHasRecord, EvidenceBehind, PendingIsBlocked, UsedHasKey, TypeOK,
       Active, ActiveStates, Decided, Record

(* create_order never has two undecided POSTs of one fingerprint, for any  *)
(* number of processes, threads, crashes, write failures and concurrent    *)
(* reconciliations, provided orderLinkIds are fresh.                       *)
THEOREM NoDoubleSubmit ==
    ASSUME ~ReuseLinks PROVE Spec => []AtMostOneUndecided
<1>1. IInv => AtMostOneUndecided
  BY IInvBlocks DEF PendingIsBlocked, IInv, Consistent, OneActive, UsedHasKey, LinkIdentifies,
                    AtMostOneUndecided, TypeOK
<1>2. QED BY <1>1, Invariance, PTL

(* A process started at any moment finds a blocking record for every POST  *)
(* that may still create an order.                                         *)
THEOREM DurableBlock ==
    ASSUME ~ReuseLinks PROVE Spec => []PendingIsBlocked
BY IInvBlocks, Invariance, PTL

(* A record is resolved only when the exchange really decided its order.   *)
THEOREM EvidenceOnly ==
    ASSUME ~ReuseLinks PROVE Spec => []ResolvedIsDecided
<1>1. IInv => ResolvedIsDecided
  BY ConstantsAssumption 
     DEF IInv, Consistent, RecordHasAttempt, EvidenceBehind, ResolvedIsDecided
<1>2. QED BY <1>1, Invariance, PTL
-----------------------------------------------------------------------------
(* How one step moves the records of the journal.                          *)

(* The record under k keeps its state, or becomes unknown because its      *)
(* owner is gone: what Recover and the end of a process may do.            *)
Untouched(x, k) ==
    /\ x[k].att = journal[k].att
    /\ \/ x[k].state = journal[k].state
       \/ /\ journal[k].state = "in_flight" /\ journal[k].holder = NoProc
          /\ x[k].state = "unknown"

AllUntouched(x) == \A k \in Keys : Untouched(x, k)

(* The record under k is rewritten by the thread that submits it...        *)
ByOwner(k) ==
    /\ journal'[k].att = journal[k].att
    /\ journal[k].state = "in_flight" /\ journal'[k].state \in {"unknown", "resolved"}
    /\ journal'[k].state = "resolved" => fate[journal[k].att] \in Decided
    /\ \E t \in Threads : /\ Home[t] = journal[k].holder
                          /\ cur[t] = journal[k].att
                          /\ pc[t] \in {"answered", "unclear"}

(* ... or by a reconciler that has seen its order.                         *)
ByReconciler(k) ==
    /\ journal'[k].att = journal[k].att
    /\ journal[k].state \in {"unknown", "resolved"} /\ journal'[k].state = "resolved"
    /\ fate[journal[k].att] = "created"

Kept == journal' \in [Keys -> Record] /\ AllUntouched(journal')

Reserved(a, k) ==
    /\ key[a] = NoKey /\ fate[a] = "unused" /\ fate' = [fate EXCEPT ![a] = "unsent"]
    /\ journal[k].state = "absent" /\ journal'[k].state = "in_flight" /\ journal'[k].att = a
    /\ \A q \in Keys : Active(journal, q) => FP(q) # FP(k)
    /\ \A q \in Keys \ {k} : Untouched(journal', q)

Rewritten(k) ==
    /\ ByOwner(k) \/ ByReconciler(k)
    /\ \A q \in Keys \ {k} : Untouched(journal', q)

(* A record that only recovery touched blocks as before.                   *)
LEMMA UntouchedFacts ==
    ASSUME NEW x, NEW k \in Keys, Untouched(x, k)
    PROVE  /\ Active(x, k) <=> Active(journal, k)
           /\ x[k].att = journal[k].att
           /\ x[k].state = "resolved" <=> journal[k].state = "resolved"
BY DEF Untouched, Active, ActiveStates

(* Recovery leaves every record untouched, in this sense.                  *)
LEMMA RecoverUntouched ==
    ASSUME IInv, NEW S \in SUBSET Orphans(journal), NEW x \in {journal, Recover(journal, S)}
    PROVE  AllUntouched(x)
BY RecoverFacts DEF IInv, TypeOK, AllUntouched, Untouched

(* Every step leaves all records untouched, adds one record under a free   *)
(* gate, or lets the owner or a reconciler rewrite one; only Post and the  *)
(* exchange change the fate of an attempt that has its record.             *)
LEMMA JournalMoves ==
    ASSUME ~ReuseLinks, IInv, IInv', [Next]_vars
    PROVE  \/ Kept /\ fate' = fate
           \/ \E t \in Threads : Post(t)
           \/ \E a \in Attempts : ExchangeDecides(a)
           \/ \E a \in Attempts, k \in Keys : Reserved(a, k)
           \/ \E k \in Keys : Rewritten(k) /\ fate' = fate
<1> USE ConstantsAssumption
<1>0. \A S \in SUBSET Orphans(journal) : \A x \in {journal, Recover(journal, S)} : AllUntouched(x)
  BY RecoverUntouched
<1>t. TypeOK /\ TypeOK' /\ Consistent(journal) /\ journal' \in [Keys -> Record]
  BY DEF IInv, TypeOK
<1>u. ASSUME journal' = journal PROVE Kept
  BY <1>t, <1>u DEF Kept, AllUntouched, Untouched
<1>1. ASSUME NEW p \in Procs, Start(p) PROVE Kept /\ fate' = fate
  BY <1>1, <1>u DEF Start
<1>2. ASSUME NEW p \in Procs, Stop(p) PROVE Kept /\ fate' = fate
  <2>1. \A k \in Keys : journal'[k].state = journal[k].state /\ journal'[k].att = journal[k].att
    BY <1>2, <1>t DEF Stop, TypeOK, Record
  <2>2. QED BY <1>2, <1>t, <2>1 DEF Stop, Kept, AllUntouched, Untouched
<1>3. ASSUME NEW p \in Procs, NEW o \in Outcomes, NEW S \in SUBSET Orphans(journal),
             Configure(p, o, S)
      PROVE  Kept /\ fate' = fate
  <2>1. journal' \in {journal, Recover(journal, S)}
    BY <1>3 DEF Configure
  <2>2. QED BY <1>0, <1>3, <1>t, <2>1 DEF Configure, Kept
<1>4. ASSUME NEW t \in Threads, NEW a \in Attempts, NEW k \in Keys,
             NEW S \in SUBSET Orphans(journal), Begin(t, a, k, S) \/ BeginTorn(t, a, k, S)
      PROVE  Reserved(a, k)
  <2> DEFINE r == Recover(journal, S)
             n == NewRecord("in_flight", Home[t], a)
  <2>1. /\ journal' = [r EXCEPT ![k] = n]
        /\ ~Blocked(r, k)
        /\ fate[a] = "unused" /\ fate' = [fate EXCEPT ![a] = "unsent"]
        /\ \A b \in Attempts : key[b] # NoKey => Link(key[b]) # Link(k)
    BY <1>4 DEF Begin, BeginTorn, Transact, LinkAllowed
  <2>2. n.state = "in_flight" /\ n.att = a
    BY DEF NewRecord
  <2>3. key[a] = NoKey /\ k # NoKey
    BY <2>1 DEF IInv, UsedHasKey
  <2>4. journal[k].state = "absent"
    BY <1>t, <2>1, <2>3 DEF Consistent, RecordHasAttempt, Record
  <2>5. r \in [Keys -> Record] /\ AllUntouched(r)
    BY <1>0, RecoverConsistent DEF Consistent
  <2> HIDE DEF r, n
  <2>6. \A q \in Keys : journal'[q] = IF q = k THEN n ELSE r[q]
    BY <2>1, <2>5
  <2>7. \A q \in Keys : Active(journal, q) => FP(q) # FP(k)
    BY <2>1, <2>5, UntouchedFacts DEF AllUntouched, Blocked
  <2>8. \A q \in Keys \ {k} : Untouched(journal', q)
    BY <2>5, <2>6 DEF AllUntouched, Untouched
  <2>9. QED BY <2>1, <2>2, <2>3, <2>4, <2>6, <2>7, <2>8 DEF Reserved
<1>5. ASSUME NEW t \in Threads, NEW k \in Keys, NEW o \in Outcomes,
             NEW S \in SUBSET Orphans(journal), BeginRefused(t, k, o, S)
      PROVE  Kept /\ fate' = fate
  <2>1. journal' \in {journal, Recover(journal, S)}
    BY <1>5 DEF BeginRefused, Transact
  <2>2. QED BY <1>0, <1>5, <1>t, <2>1 DEF BeginRefused, Kept
<1>6. ASSUME NEW t \in Threads,
             GrantRevoked(t) \/ DefinitiveAnswer(t) \/ IndefiniteAnswer(t) \/ ResolveRefused(t)
      PROVE  Kept /\ fate' = fate
  BY <1>6, <1>u DEF GrantRevoked, DefinitiveAnswer, IndefiniteAnswer, ResolveRefused
<1>7. ASSUME NEW t \in Threads, NEW s \in {"unknown", "resolved"}, NEW o \in Outcomes,
             NEW S \in SUBSET Orphans(journal), pc[t] \in {"answered", "unclear"},
             s = "resolved" => pc[t] = "answered", Mark(t, s, o, S)
      PROVE  fate' = fate /\ (Kept \/ \E k \in Keys : Rewritten(k))
  <2> DEFINE k == key[cur[t]]
  <2>1. /\ k \in Keys /\ journal[k].state = "in_flight" /\ journal[k].holder = Home[t]
        /\ journal[k].att = cur[t]
        /\ \A x \in {journal, Recover(journal, S)} : x[k].att = cur[t]
        /\ s = "resolved" => fate[cur[t]] \in Decided
    BY <1>7, <1>t, MarkMoves
  <2>2. PICK x \in {journal, Recover(journal, S)} :
           \A q \in Keys : /\ journal'[q].att = x[q].att
                           /\ journal'[q].state = x[q].state \/ (q = k /\ journal'[q].state = s)
    BY <1>7, <1>t, MarkMoves
  <2>3. \A q \in Keys \ {k} : Untouched(journal', q)
    BY <1>0, <2>2 DEF AllUntouched, Untouched
  <2>4. Untouched(journal', k) \/ ByOwner(k)
    BY <1>0, <1>7, <2>1, <2>2 DEF AllUntouched, Untouched, ByOwner
  <2>5. fate' = fate
    BY <1>7 DEF Mark
  <2>6. QED BY <1>t, <2>1, <2>3, <2>4, <2>5 DEF Kept, AllUntouched, Rewritten
<1>8. ASSUME NEW t \in Threads, NEW o \in Outcomes, NEW S \in SUBSET Orphans(journal),
             ReconcileStart(t, o, S)
      PROVE  Kept /\ fate' = fate
  <2>1. journal' \in {journal, Recover(journal, S)}
    BY <1>8 DEF ReconcileStart, Transact
  <2>2. QED BY <1>0, <1>8, <1>t, <2>1 DEF ReconcileStart, Kept
<1>9. ASSUME NEW t \in Threads, NEW k \in Keys, QueryConfirms(t, k) \/ QueryInconclusive(t, k)
      PROVE  Kept /\ fate' = fate
  BY <1>9, <1>u DEF QueryConfirms, QueryInconclusive
<1>10. ASSUME NEW t \in Threads, NEW o \in Outcomes, NEW S \in SUBSET Orphans(journal),
              ResolveReconciled(t, o, S)
       PROVE  fate' = fate /\ (Kept \/ \E k \in Keys : Rewritten(k))
  <2> DEFINE k == hit[t]
  <2>1. PICK a \in Attempts :
          /\ fate[a] = "created" /\ k \in Keys
          /\ \A x \in {journal, Recover(journal, S)} :
                x[k].state \in {"unknown", "resolved"} /\ x[k].att = a
          /\ \E x \in {journal, Recover(journal, S)} :
                \A q \in Keys :
                   /\ journal'[q].att = x[q].att
                   /\ journal'[q].state = x[q].state \/ (q = k /\ journal'[q].state = "resolved")
    BY <1>10, ResolveMoves
  <2>2. PICK x \in {journal, Recover(journal, S)} :
          \A q \in Keys :
             /\ journal'[q].att = x[q].att
             /\ journal'[q].state = x[q].state \/ (q = k /\ journal'[q].state = "resolved")
    BY <2>1
  <2>3. \A q \in Keys \ {k} : Untouched(journal', q)
    BY <1>0, <2>2 DEF AllUntouched, Untouched
  <2>4. Untouched(journal', k) \/ ByReconciler(k)
    BY <1>0, <2>1, <2>2 DEF AllUntouched, Untouched, ByReconciler
  <2>5. fate' = fate
    BY <1>10 DEF ResolveReconciled
  <2>6. QED BY <1>t, <2>1, <2>3, <2>4, <2>5 DEF Kept, AllUntouched, Rewritten
<1>11. CASE UNCHANGED vars
  BY <1>11, <1>u DEF vars
<1>12. ASSUME NEW t \in Threads, Submit(t)
       PROVE  \/ Post(t)
              \/ \E a \in Attempts, k \in Keys : Reserved(a, k)
              \/ fate' = fate /\ (Kept \/ \E k \in Keys : Rewritten(k))
  BY <1>4, <1>5, <1>6, <1>7, <1>12 DEF Submit, MarkUnknown, MarkResolved
<1>13. ASSUME NEW t \in Threads, Reconcile(t)
       PROVE  fate' = fate /\ (Kept \/ \E k \in Keys : Rewritten(k))
  BY <1>6, <1>8, <1>9, <1>10, <1>13 DEF Reconcile
<1>14. QED BY <1>1, <1>2, <1>3, <1>11, <1>12, <1>13 DEF Next

(* What a step does to a record with the state it had: a resolved record   *)
(* stays so, and a live owner's in_flight record is moved by the owner.    *)
LEMMA RecordDiscipline ==
    ASSUME ~ReuseLinks, IInv, IInv', [Next]_vars, NEW k \in Keys
    PROVE  /\ journal[k].state = "resolved" => journal'[k].state = "resolved"
           /\ journal[k].state = "in_flight" /\ journal'[k].state # "in_flight"
              /\ journal[k].holder # NoProc
              => \E t \in Threads : /\ Home[t] = journal[k].holder
                                    /\ cur[t] = journal[k].att
                                    /\ pc[t] \in {"answered", "unclear"}
<1>1. CASE Kept
  BY <1>1 DEF Kept, AllUntouched, Untouched
<1>2. CASE (\E t \in Threads : Post(t)) \/ (\E a \in Attempts : ExchangeDecides(a))
  BY <1>2 DEF Post, ExchangeDecides
<1>3. ASSUME NEW a \in Attempts, NEW q \in Keys, Reserved(a, q)
      PROVE  Untouched(journal', k) \/ journal[k].state = "absent"
  BY <1>3 DEF Reserved
<1>4. ASSUME NEW q \in Keys, Rewritten(q)
      PROVE  Untouched(journal', k) \/ ByOwner(k) \/ ByReconciler(k)
  BY <1>4 DEF Rewritten
<1>5. CASE Untouched(journal', k) \/ journal[k].state = "absent" \/ ByOwner(k) \/ ByReconciler(k)
  BY <1>5 DEF Untouched, ByOwner, ByReconciler
<1>6. QED BY <1>1, <1>2, <1>3, <1>4, <1>5, JournalMoves

(* A submission in flight is left to its live owner, and evidence is never *)
(* undone, in every step of every behaviour.                               *)
THEOREM Discipline ==
    ASSUME ~ReuseLinks PROVE Spec => JournalDiscipline
<1>1. IInv /\ IInv' /\ [Next]_vars =>
        [\A k \in Keys :
          journal[k].state = "in_flight" /\ journal'[k].state # "in_flight"
          /\ journal[k].holder # NoProc
          => \E t \in Threads : /\ Home[t] = journal[k].holder
                                /\ cur[t] = journal[k].att
                                /\ pc[t] \in {"answered", "unclear"}]_vars
  BY RecordDiscipline
<1>2. IInv /\ IInv' /\ [Next]_vars =>
        [\A k \in Keys : journal[k].state = "resolved" => journal'[k].state = "resolved"]_vars
  BY RecordDiscipline
<1>3. Spec => []IInv
  BY Invariance
<1>4. QED BY <1>1, <1>2, <1>3, PTL DEF Spec, JournalDiscipline, OwnerDecides, ResolvedIsFinal

-----------------------------------------------------------------------------
(* The refinement of OrderGate.                                            *)

(* The gates that are taken, element by element.                           *)
LEMMA HeldMembers ==
    \A h : h \in Held <=> \E k \in Keys : Active(journal, k) /\ h = <<FP(k), journal[k].att>>
BY DEF Held

(* A gate that is taken belongs to the attempt recorded under its key.     *)
LEMMA HeldKey ==
    ASSUME IInv, NEW k \in Keys, NEW q \in Keys, Active(journal, k), Active(journal, q),
           journal[k].att = journal[q].att
    PROVE  k = q
BY DEF IInv, Consistent, RecordHasAttempt, Active, ActiveStates

LEMMA GateStep ==
    ASSUME ~ReuseLinks, IInv, IInv', [Next]_vars
    PROVE  [Gate!GateNext]_(Gate!gateVars)
<1> USE DEF Gate!GateNext, Gate!gateVars
<1>t. TypeOK /\ TypeOK' /\ Consistent(journal)
  BY DEF IInv
<1>s. \A h : h \in Held' <=> \E k \in Keys : Active(journal', k) /\ h = <<FP(k), journal'[k].att>>
  BY DEF Held
<1>f. \A k \in Keys : FP(k) \in FPs
  BY DEF Keys, FP
<1>1. CASE Kept /\ fate' = fate
  <2>1. Stage' = Stage
    BY <1>1 DEF Stage
  <2>2. Held' = Held
    BY <1>1, <1>s, HeldMembers, UntouchedFacts DEF Kept, AllUntouched
  <2>3. QED BY <2>1, <2>2
<1>2. ASSUME NEW t \in Threads, Post(t) PROVE Gate!GateNext
  <2> DEFINE a == cur[t]
  <2>1. /\ a \in Attempts /\ fate[a] = "unsent" /\ key[a] \in Keys
        /\ journal[key[a]].state = "in_flight"
    BY <1>2, <1>t DEF Post, Consistent, SubmitterOwns, Submitting, IInv, SubmitterKnows, TypeOK
  <2>2. journal[key[a]].att = a
    BY <1>t, <2>1, ConstantsAssumption
       DEF Consistent, RecordHasAttempt, IInv, LinkIdentifies
  <2>3. <<FP(key[a]), a>> \in Held
    BY <2>1, <2>2, HeldMembers DEF Active, ActiveStates
  <2>4. Held' = Held
    BY <1>2 DEF Post, Held
  <2>5. fate' = [fate EXCEPT ![a] = "pending"]
    BY <1>2 DEF Post
  <2>6. Stage[a] = "taken" /\ Stage' = [Stage EXCEPT ![a] = "sent"]
    <3> HIDE DEF a
    <3> QED BY <1>t, <2>1, <2>5 DEF Stage, TypeOK
  <2>7. Gate!Send(a)
    <3>1. <<FP(key[a]), a>>[2] = a
      OBVIOUS
    <3> HIDE DEF a
    <3> QED BY <2>3, <2>4, <2>6, <3>1 DEF Gate!Send
  <2>8. QED BY <2>1, <2>7
<1>3. ASSUME NEW a \in Attempts, ExchangeDecides(a) PROVE Gate!GateNext
  <2>1. fate[a] = "pending" /\ fate'[a] \in Decided /\ \A b \in Attempts \ {a} : fate'[b] = fate[b]
    BY <1>3, <1>t DEF ExchangeDecides, TypeOK
  <2>2. Held' = Held
    BY <1>3 DEF ExchangeDecides, Held
  <2>3. Stage[a] = "sent" /\ Stage' = [Stage EXCEPT ![a] = "decided"]
    BY <2>1 DEF Stage, Decided
  <2>4. QED BY <2>2, <2>3 DEF Gate!Decide
<1>4. ASSUME NEW a \in Attempts, NEW k \in Keys, Reserved(a, k) PROVE Gate!GateNext
  <2>1. Stage[a] = "new" /\ Stage' = [Stage EXCEPT ![a] = "taken"]
    BY <1>4, <1>t DEF Reserved, Stage, TypeOK
  <2>2. \A h \in Held : h[1] # FP(k)
    BY <1>4, HeldMembers DEF Reserved
  <2>3. /\ ~Active(journal, k) /\ Active(journal', k) /\ journal'[k].att = a
        /\ \A q \in Keys \ {k} : Untouched(journal', q)
    BY <1>4 DEF Reserved, Active, ActiveStates
  <2>4. Held' = Held \union {<<FP(k), a>>}
    BY <2>3, <1>s, HeldMembers, UntouchedFacts
  <2>5. QED BY <1>f, <2>1, <2>2, <2>4 DEF Gate!Take
<1>5. ASSUME NEW k \in Keys, Rewritten(k), fate' = fate PROVE [Gate!GateNext]_(Gate!gateVars)
  <2>1. Stage' = Stage
    BY <1>5 DEF Stage
  <2>2. /\ journal'[k].att = journal[k].att
        /\ \A q \in Keys \ {k} : Untouched(journal', q)
    BY <1>5 DEF Rewritten, ByOwner, ByReconciler
  <2>3. CASE Active(journal', k) <=> Active(journal, k)
    <3>1. \A q \in Keys : (Active(journal', q) <=> Active(journal, q)) /\ journal'[q].att = journal[q].att
      BY <2>2, <2>3, UntouchedFacts
    <3>2. Held' = Held
      BY <1>s, <3>1, HeldMembers
    <3>3. QED BY <2>1, <3>2
  <2>4. CASE ~(Active(journal', k) <=> Active(journal, k))
    <3> DEFINE h == <<FP(k), journal[k].att>>
    <3>1. Active(journal, k) /\ ~Active(journal', k) /\ fate[journal[k].att] \in Decided
      BY <1>5, <2>4 DEF Rewritten, ByOwner, ByReconciler, Active, ActiveStates, Decided
    <3>2. h \in Held /\ h[2] = journal[k].att
      BY <3>1, HeldMembers
    <3>3. journal[k].att \in Attempts
      BY <1>t, <3>1 DEF Consistent, RecordHasAttempt, Active, ActiveStates
    <3>4. Stage[h[2]] = "decided"
      BY <3>1, <3>2, <3>3 DEF Stage, Decided
    <3>5. Held' = Held \ {h}
      <4>1. ASSUME NEW g, g \in Held' PROVE g \in Held /\ g # h
        <5>1. PICK q \in Keys : Active(journal', q) /\ g = <<FP(q), journal'[q].att>>
          BY <1>s, <4>1
        <5>2. q # k /\ Active(journal, q) /\ journal'[q].att = journal[q].att
          BY <2>2, <3>1, <5>1, UntouchedFacts
        <5>3. journal[q].att # journal[k].att
          BY <3>1, <5>2, HeldKey
        <5>4. QED BY <5>1, <5>2, <5>3, HeldMembers
      <4>2. ASSUME NEW g, g \in Held, g # h PROVE g \in Held'
        <5>1. PICK q \in Keys : Active(journal, q) /\ g = <<FP(q), journal[q].att>>
          BY <4>2, HeldMembers
        <5>2. q # k
          BY <4>2, <5>1
        <5>3. QED BY <1>s, <2>2, <5>1, <5>2, UntouchedFacts
      <4>3. QED BY <4>1, <4>2
    <3>6. Gate!GiveBack(h)
      BY <2>1, <3>2, <3>4, <3>5 DEF Gate!GiveBack
    <3>7. QED BY <3>2, <3>6
  <2>5. QED BY <2>3, <2>4
<1>6. QED BY <1>1, <1>2, <1>3, <1>4, <1>5, JournalMoves

(* The guard implements the abstract gate, step by step, whatever crashes, *)
(* fails to be written, is recovered or reconciled.                        *)
THEOREM GateImplemented ==
    ASSUME ~ReuseLinks PROVE Spec => GateRefined
<1>1. Init => Gate!GateInit
  BY ConstantsAssumption
     DEF Init, Gate!GateInit, Held, Stage, Active, ActiveStates, Absent
<1>2. IInv /\ IInv' /\ [Next]_vars => [Gate!GateNext]_(Gate!gateVars)
  BY GateStep
<1>3. Spec => []IInv
  BY Invariance
<1>4. QED BY <1>1, <1>2, <1>3, PTL DEF Spec, GateRefined, Gate!GateSpec
=============================================================================
