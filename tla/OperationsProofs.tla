--------------------------- MODULE OperationsProofs ---------------------------
(***************************************************************************)
(* Proofs about the operations that MCOperations checks:                   *)
(*  - HtfFreeze: the record, the registration and the activation file      *)
(*    agree through every crash, however many operators run the tool;      *)
(*  - PaperPosition: one trade through its DCA order, its policy and its   *)
(*    restarts;                                                            *)
(*  - SrrShortFill: the capture of quotes beside the signal, with its      *)
(*    claims, its budgets and its coverage ledger;                         *)
(*  - CandleSync: the gaps that an analytics run fetches, what it stores   *)
(*    and what its quality gate lets pass;                                 *)
(*  - BudgetedGet: the attempts, grants, cooldowns and retries of the      *)
(*    logical requests that share one process;                             *)
(*  - HtfRollback: the captures of a rollback next to the statements of    *)
(*    other sessions.                                                      *)
(***************************************************************************)
EXTENDS HtfFreeze, PaperPosition, SrrShortFill, CandleSync, BudgetedGet, HtfRollback,
        WellFoundedInduction, FiniteSetTheorems, TLAPS

-----------------------------------------------------------------------------
(* The inductive invariant, in parts.                                      *)

(* Whatever names a record names one that was minted.                      *)
Known ==
    /\ \A p \in Activations : receipt[p] # Absent => Exists(receipt[p])
    /\ claimed.rec # Absent => Exists(claimed.rec) /\ claimed.path \in Activations

(* A process beyond its preflight works on a minted record; from the seal  *)
(* on, and in a repair, the receipt beside its path is of that record.     *)
Honest(row) ==
    row.at # "idle" =>
        /\ row.rec \in FreezeRecords /\ row.path \in Activations /\ Exists(row.rec)
        /\ row.at \in {"sealed", "committed", "repair"} => receipt[row.path] = row.rec
ToolsHonest == \A t \in Tools : Honest(tool[t])

(* The protocol of the registration is that of the record it claims.       *)
ProtocolIsTheClaim ==
    registration.protocol = (IF claimed.rec = Absent THEN {} ELSE {Document(claimed.rec).protocol})

IInv ==
    /\ FreezeTypeOK
    /\ Known
    /\ ToolsHonest
    /\ ActivationAgrees
    /\ ClaimIsRepairable
    /\ FreezeIsTheClaim
    /\ ProtocolIsTheClaim

-----------------------------------------------------------------------------
(* The same parts over given tables: what a step does to the tables is     *)
(* then a matter of constants.                                             *)

DocOf(m, r) == CHOOSE d \in m[r] : TRUE

HonestRow(row, m, rcp) ==
    row.at # "idle" =>
        /\ row.rec \in FreezeRecords /\ row.path \in Activations /\ m[row.rec] # {}
        /\ row.at \in {"sealed", "committed", "repair"} => rcp[row.path] = row.rec

KnownIn(m, rcp, cl) ==
    /\ \A p \in Activations : rcp[p] # Absent => m[rcp[p]] # {}
    /\ cl.rec # Absent => m[cl.rec] # {} /\ cl.path \in Activations

AgreesIn(m, rcp, act, reg) ==
    \A p \in Activations : act[p] # Absent =>
        /\ reg.freeze = {DocOf(m, act[p]).freeze}
        /\ reg.protocol = {DocOf(m, act[p]).protocol}
        /\ rcp[p] = act[p]

ClaimIn(m, rcp, reg, rgy, cl) ==
    /\ cl.rec = Absent => reg.freeze = {} /\ reg.protocol = {}
    /\ cl.rec # Absent =>
           /\ reg.freeze = {DocOf(m, cl.rec).freeze}
           /\ reg.protocol = {DocOf(m, cl.rec).protocol}
           /\ rcp[cl.path] = cl.rec
    /\ rgy = reg.freeze

LEMMA Constants ==
    /\ PastWindow \in Nat /\ FutureWindow \in Nat /\ MaxFreezeTime \in Nat /\ MaxKills \in Nat
    /\ MaxDrifts \in Nat /\ Absent \notin FreezeRecords /\ Protocols # {}
BY FreezeConstants DEF Absent

(* The invariant, over the tables now and after a step.                    *)
LEMMA Split ==
    ASSUME IInv
    PROVE  /\ FreezeTypeOK
           /\ KnownIn(minted, receipt, claimed)
           /\ \A t \in Tools : HonestRow(tool[t], minted, receipt)
           /\ AgreesIn(minted, receipt, activation, registration)
           /\ ClaimIn(minted, receipt, registration, registry, claimed)
<1>1. FreezeTypeOK
  BY DEF IInv
<1>2. KnownIn(minted, receipt, claimed)
  BY DEF IInv, Known, KnownIn, Exists
<1>3. \A t \in Tools : HonestRow(tool[t], minted, receipt)
  BY DEF IInv, ToolsHonest, Honest, HonestRow, Exists
<1>4. \A r : Document(r) = DocOf(minted, r)
  BY DEF Document, DocOf
<1>5. AgreesIn(minted, receipt, activation, registration)
  BY <1>4 DEF IInv, ActivationAgrees, AgreesIn
<1>6. ClaimIn(minted, receipt, registration, registry, claimed)
  BY <1>4 DEF IInv, ClaimIsRepairable, FreezeIsTheClaim, ProtocolIsTheClaim, ClaimIn
<1>7. QED BY <1>1, <1>2, <1>3, <1>5, <1>6

LEMMA Joined ==
    ASSUME FreezeTypeOK',
           KnownIn(minted', receipt', claimed'),
           \A t \in Tools : HonestRow(tool'[t], minted', receipt'),
           AgreesIn(minted', receipt', activation', registration'),
           ClaimIn(minted', receipt', registration', registry', claimed')
    PROVE  IInv'
<1>1. Known'
  BY DEF Known, KnownIn, Exists
<1>2. ToolsHonest'
  BY DEF ToolsHonest, Honest, HonestRow, Exists
<1>3. \A r : (CHOOSE d \in minted'[r] : TRUE) = DocOf(minted', r)
  BY DEF DocOf
<1>4. ActivationAgrees'
  BY <1>3 DEF ActivationAgrees, AgreesIn, Document
<1>5. FreezeIsTheClaim' /\ ProtocolIsTheClaim'
  BY <1>3 DEF FreezeIsTheClaim, ProtocolIsTheClaim, ClaimIn, Document
<1>6. ClaimIsRepairable'
  <2>1. SUFFICES ASSUME claimed'.rec # Absent
                 PROVE  /\ receipt'[claimed'.path] = claimed'.rec
                        /\ DocOf(minted', claimed'.rec).freeze \in registry'
                        /\ registration'.freeze = {DocOf(minted', claimed'.rec).freeze}
                        /\ registration'.protocol = {DocOf(minted', claimed'.rec).protocol}
    BY <1>3 DEF ClaimIsRepairable, Matches, Document
  <2>2. QED BY <2>1 DEF ClaimIn
<1>7. QED BY <1>1, <1>2, <1>4, <1>5, <1>6 DEF IInv

LEMMA InitHolds == FreezeInit => IInv
<1> SUFFICES ASSUME FreezeInit
             PROVE  IInv
  OBVIOUS
<1>1. FreezeTypeOK
  <2>1. deployed \in Protocols
    BY Constants DEF FreezeInit
  <2>2. Idle \in [at : {"idle", "preflighted", "connected", "sealed", "committed", "repair"},
                  rec : FreezeRecords \union {Absent}, path : Activations \union {Absent}, begun : Nat]
    BY DEF Idle
  <2>3. QED BY <2>1, <2>2, Constants DEF FreezeInit, FreezeTypeOK
<1>2. QED
  BY <1>1 DEF IInv, FreezeInit, Known, ToolsHonest, Honest, Idle, ActivationAgrees, ClaimIsRepairable,
              FreezeIsTheClaim, ProtocolIsTheClaim

-----------------------------------------------------------------------------
(* Steps.                                                                  *)

Row == [at : {"idle", "preflighted", "connected", "sealed", "committed", "repair"},
        rec : FreezeRecords \union {Absent}, path : Activations \union {Absent}, begun : Nat]

(* The clock, the environment and the bounds stay in their ranges.         *)
WorldTyped ==
    /\ serverNow' \in 0..MaxFreezeTime /\ deployed' \in Protocols
    /\ broken' \subseteq {"target", "roles", "grant"} /\ kills' \in 0..MaxKills /\ drifts' \in 0..MaxDrifts

WorldSame == UNCHANGED <<serverNow, deployed, broken, kills, drifts>>

LEMMA SameIsTyped == FreezeTypeOK /\ WorldSame => WorldTyped
BY DEF FreezeTypeOK, WorldSame, WorldTyped

LEMMA RowsTyped ==
    ASSUME FreezeTypeOK, NEW t \in Tools, NEW row \in Row, tool' = [tool EXCEPT ![t] = row]
    PROVE  /\ tool' \in [Tools -> Row] /\ tool'[t] = row
           /\ \A u \in Tools : u # t => tool'[u] = tool[u]
BY DEF FreezeTypeOK, Row

(* What a process does to itself: another place, the same work.            *)
LEMMA Moved ==
    ASSUME FreezeTypeOK, NEW t \in Tools, NEW where, NEW row,
           where \in {"idle", "preflighted", "connected", "sealed", "committed", "repair"},
           row = [tool[t] EXCEPT !.at = where]
    PROVE  /\ row \in Row /\ row.at = where /\ row.rec = tool[t].rec /\ row.path = tool[t].path
           /\ [tool EXCEPT ![t].at = where] = [tool EXCEPT ![t] = row]
<1>1. tool[t] \in Row
  BY DEF FreezeTypeOK, Row
<1>2. row \in Row /\ row.at = where /\ row.rec = tool[t].rec /\ row.path = tool[t].path
  BY <1>1 DEF Row
<1>3. QED BY <1>2

LEMMA IdleRow == Idle \in Row /\ \A m, rcp : HonestRow(Idle, m, rcp)
BY DEF Idle, Row, HonestRow

(* Only the tool of one process changes.                                   *)
LEMMA ToolMoves ==
    ASSUME IInv, NEW t \in Tools, NEW row \in Row, HonestRow(row, minted, receipt),
           tool' = [tool EXCEPT ![t] = row], WorldTyped,
           minted' = minted, receipt' = receipt, activation' = activation,
           registration' = registration, registry' = registry, claimed' = claimed
    PROVE  IInv'
<1>1. FreezeTypeOK
  BY Split
<1>2. tool' \in [Tools -> Row] /\ tool'[t] = row /\ \A u \in Tools : u # t => tool'[u] = tool[u]
  BY <1>1, RowsTyped
<1>3. FreezeTypeOK'
  BY <1>1, <1>2 DEF FreezeTypeOK, WorldTyped, Row
<1>4. \A u \in Tools : HonestRow(tool'[u], minted', receipt')
  BY <1>2, Split
<1>5. QED BY <1>3, <1>4, Split, Joined

(* Nothing but the environment changes.                                    *)
LEMMA WorldMoves ==
    ASSUME IInv, WorldTyped, tool' = tool, minted' = minted, receipt' = receipt,
           activation' = activation, registration' = registration, registry' = registry,
           claimed' = claimed
    PROVE  IInv'
<1>1. FreezeTypeOK'
  BY Split DEF FreezeTypeOK, WorldTyped
<1>2. QED BY <1>1, Split, Joined

(* A record is minted under an id that had none: no document of a record   *)
(* that anything names changes.                                            *)
LEMMA MintKeeps ==
    ASSUME IInv, NEW t \in Tools, NEW r \in FreezeRecords,
           NEW freeze \in 0..(MaxFreezeTime + FutureWindow), Mint(t, r, freeze)
    PROVE  IInv'
<1> DEFINE doc == [freeze |-> freeze, protocol |-> deployed, issued |-> serverNow]
<1>1. /\ minted[r] = {} /\ minted' = [minted EXCEPT ![r] = {doc}]
      /\ WorldSame /\ tool' = tool /\ receipt' = receipt /\ activation' = activation
      /\ registration' = registration /\ registry' = registry /\ claimed' = claimed
  BY DEF Mint, Exists, WorldSame
<1>2. doc \in [freeze : Nat, protocol : Protocols, issued : Nat]
  BY Split, Constants DEF FreezeTypeOK
<1> HIDE DEF doc
<1>3. /\ minted \in [FreezeRecords -> SUBSET [freeze : Nat, protocol : Protocols, issued : Nat]]
      /\ receipt \in [Activations -> FreezeRecords \union {Absent}]
      /\ activation \in [Activations -> FreezeRecords \union {Absent}]
      /\ claimed.rec \in FreezeRecords \union {Absent}
  BY Split DEF FreezeTypeOK
<1>4. /\ minted' \in [FreezeRecords -> SUBSET [freeze : Nat, protocol : Protocols, issued : Nat]]
      /\ minted'[r] # {} /\ \A s \in FreezeRecords : s # r => minted'[s] = minted[s]
  BY <1>1, <1>2, <1>3
<1>5. FreezeTypeOK'
  BY <1>1, <1>4, Split DEF FreezeTypeOK, WorldSame
<1>6. \A s \in FreezeRecords : minted[s] # {} => minted'[s] # {} /\ DocOf(minted', s) = DocOf(minted, s)
  BY <1>1, <1>4 DEF DocOf
<1>7. KnownIn(minted', receipt', claimed')
  BY <1>1, <1>3, <1>6, Split DEF KnownIn
<1>8. \A u \in Tools : HonestRow(tool'[u], minted', receipt')
  BY <1>1, <1>6, Split DEF HonestRow
<1>9. AgreesIn(minted', receipt', activation', registration')
  BY <1>1, <1>3, <1>6, Split DEF AgreesIn, KnownIn
<1>10. ClaimIn(minted', receipt', registration', registry', claimed')
  BY <1>1, <1>3, <1>6, Split DEF ClaimIn, KnownIn
<1>11. QED BY <1>5, <1>7, <1>8, <1>9, <1>10, Joined

LEMMA PreflightKeeps ==
    ASSUME IInv, NEW t \in Tools, NEW r \in FreezeRecords, NEW p \in Activations,
           Preflight(t, r, p) \/ CheckRepair(t, r, p)
    PROVE  IInv'
<1>1. PICK where \in {"preflighted", "repair"} :
         /\ tool' = [tool EXCEPT ![t] = [at |-> where, rec |-> r, path |-> p, begun |-> 0]]
         /\ where = "repair" => receipt[p] = r
  BY DEF Preflight, CheckRepair, OriginalRecord
<1>2. /\ minted[r] # {} /\ WorldSame
      /\ minted' = minted /\ receipt' = receipt /\ activation' = activation
      /\ registration' = registration /\ registry' = registry /\ claimed' = claimed
  BY DEF Preflight, CheckRepair, Valid, Exists, files, WorldSame
<1> DEFINE row == [at |-> where, rec |-> r, path |-> p, begun |-> 0]
<1>3. row \in Row /\ HonestRow(row, minted, receipt)
  BY <1>1, <1>2 DEF Row, HonestRow
<1>4. tool' = [tool EXCEPT ![t] = row]
  BY <1>1
<1> HIDE DEF row
<1>5. QED BY <1>2, <1>3, <1>4, ToolMoves, SameIsTyped, Split

LEMMA ConnectKeeps ==
    ASSUME IInv, NEW t \in Tools, ConnectActivate(t)
    PROVE  IInv'
<1>1. /\ tool[t].at = "preflighted" /\ WorldSame
      /\ minted' = minted /\ receipt' = receipt /\ activation' = activation
      /\ registration' = registration /\ registry' = registry /\ claimed' = claimed
  BY DEF ConnectActivate, files, WorldSame
<1>2. CASE tool' = [tool EXCEPT ![t] = Idle]
  BY <1>1, <1>2, IdleRow, ToolMoves, SameIsTyped, Split
<1>3. CASE tool' = [tool EXCEPT ![t].at = "connected", ![t].begun = serverNow]
  <2> DEFINE row == [at |-> "connected", rec |-> tool[t].rec, path |-> tool[t].path, begun |-> serverNow]
  <2>1. tool[t] \in Row /\ serverNow \in Nat /\ tool \in [Tools -> Row]
    BY Split, Constants DEF FreezeTypeOK, Row
  <2>2. row \in Row
    BY <2>1 DEF Row
  <2>3. HonestRow(row, minted, receipt)
    BY <1>1, Split DEF HonestRow
  <2>4. tool' = [tool EXCEPT ![t] = row]
    <3>1. [tool[t] EXCEPT !.at = "connected", !.begun = serverNow] = row
      <4> DEFINE w == tool[t]
                 f == [w EXCEPT !.at = "connected", !.begun = serverNow]
      <4>1. w \in Row /\ serverNow \in Nat
        BY <2>1
      <4>2. /\ DOMAIN w = {"at", "rec", "path", "begun"} /\ w = [k \in DOMAIN w |-> w[k]]
        BY <4>1 DEF Row
      <4>3. /\ DOMAIN f = {"at", "rec", "path", "begun"} /\ f = [k \in DOMAIN f |-> f[k]]
            /\ f.at = "connected" /\ f.rec = w.rec /\ f.path = w.path /\ f.begun = serverNow
        BY <4>2
      <4>4. /\ DOMAIN row = {"at", "rec", "path", "begun"} /\ row = [k \in DOMAIN row |-> row[k]]
            /\ row.at = "connected" /\ row.rec = w.rec /\ row.path = w.path /\ row.begun = serverNow
        OBVIOUS
      <4> HIDE DEF f, w, row
      <4>5. f = row
        BY <4>3, <4>4
      <4>6. QED BY <4>5 DEF f, w
    <3>2. tool' = [tool EXCEPT ![t] = [tool[t] EXCEPT !.at = "connected", !.begun = serverNow]]
      BY <1>3, <2>1
    <3>3. QED BY <3>1, <3>2
  <2> HIDE DEF row
  <2>5. QED BY <1>1, <2>2, <2>3, <2>4, ToolMoves, SameIsTyped, Split
<1>4. QED BY <1>2, <1>3 DEF ConnectActivate, Quit

(* The receipt beside a path is written once, and only of a record that    *)
(* was minted: what was sealed beside it before is the same.               *)
LEMMA SealKeeps ==
    ASSUME IInv, NEW t \in Tools, SealReceipt(t)
    PROVE  /\ IInv'
           /\ \A p \in Activations : receipt[p] # Absent => receipt'[p] = receipt[p]
<1> DEFINE r == tool[t].rec
           p == tool[t].path
<1>1. /\ tool[t].at = "connected" /\ WorldSame
      /\ minted' = minted /\ activation' = activation
      /\ registration' = registration /\ registry' = registry /\ claimed' = claimed
  BY DEF SealReceipt, WorldSame
<1>2. r \in FreezeRecords /\ p \in Activations /\ minted[r] # {}
  BY <1>1, Split DEF HonestRow
<1>3. CASE receipt' = receipt /\ Quit(t)
  BY <1>1, <1>3, IdleRow, ToolMoves, SameIsTyped, Split DEF Quit
<1>4. CASE SealAccepted(p, r) /\ receipt' = [receipt EXCEPT ![p] = r] /\ GoTo(t, "sealed")
  <2> DEFINE row == [tool[t] EXCEPT !.at = "sealed"]
  <2>1. /\ row \in Row /\ row.at = "sealed" /\ row.rec = r /\ row.path = p
        /\ tool' = [tool EXCEPT ![t] = row]
    BY <1>4, Split, Moved DEF GoTo
  <2> HIDE DEF row
  <2>2. receipt \in [Activations -> FreezeRecords \union {Absent}]
    BY Split DEF FreezeTypeOK
  <2>3. /\ receipt' \in [Activations -> FreezeRecords \union {Absent}]
        /\ receipt'[p] = r /\ (receipt[p] = Absent \/ receipt[p] = r)
        /\ \A q \in Activations : q # p => receipt'[q] = receipt[q]
    BY <1>2, <1>4, <2>2 DEF SealAccepted
  <2>4. \A q \in Activations : receipt[q] # Absent => receipt'[q] = receipt[q]
    BY <2>3
  <2>5. tool' \in [Tools -> Row] /\ tool'[t] = row /\ \A u \in Tools : u # t => tool'[u] = tool[u]
    BY <2>1, RowsTyped, Split
  <2> HIDE DEF r, p
  <2>6. FreezeTypeOK'
    BY <1>1, <2>3, <2>5, Split DEF FreezeTypeOK, WorldSame, Row
  <2>7. r # Absent
    BY <1>2, Constants
  <2>8. KnownIn(minted', receipt', claimed')
    BY <1>1, <1>2, <2>3, Split DEF KnownIn
  <2>9. ASSUME NEW u \in Tools
        PROVE  HonestRow(tool'[u], minted', receipt')
    <3>1. CASE u = t
      BY <1>1, <1>2, <2>1, <2>3, <2>5, <3>1 DEF HonestRow
    <3>2. CASE u # t
      <4>1. tool'[u] = tool[u] /\ HonestRow(tool[u], minted, receipt)
        BY <2>5, <3>2, Split
      <4>2. tool[u].rec \in FreezeRecords => tool[u].rec # Absent
        BY Constants
      <4>3. QED BY <1>1, <2>4, <4>1, <4>2 DEF HonestRow
    <3>3. QED BY <3>1, <3>2
  <2>10. AgreesIn(minted', receipt', activation', registration')
    BY <1>1, <2>4, Split DEF AgreesIn
  <2>11. ClaimIn(minted', receipt', registration', registry', claimed')
    BY <1>1, <2>4, Split DEF ClaimIn, KnownIn
  <2>12. QED BY <2>4, <2>6, <2>8, <2>9, <2>10, <2>11, Joined
<1>5. QED BY <1>3, <1>4 DEF SealReceipt

(* The claim commits while no claim has: the row it fills carried nothing, *)
(* so no activation file was written yet.                                  *)
LEMMA ActivateKeeps ==
    ASSUME IInv, NEW t \in Tools, Activate(t)
    PROVE  /\ IInv'
           /\ claimed.rec # Absent => claimed' = claimed
           /\ minted' = minted /\ receipt' = receipt /\ activation' = activation
<1> DEFINE r == tool[t].rec
           p == tool[t].path
           d == DocOf(minted, r)
<1>1. /\ tool[t].at = "sealed" /\ WorldSame
      /\ minted' = minted /\ receipt' = receipt /\ activation' = activation
  BY DEF Activate, files, WorldSame
<1>2. /\ r \in FreezeRecords /\ p \in Activations /\ minted[r] # {} /\ receipt[p] = r
  BY <1>1, Split DEF HonestRow
<1>3. CASE Quit(t) /\ registration' = registration /\ registry' = registry /\ claimed' = claimed
  BY <1>1, <1>3, IdleRow, ToolMoves, SameIsTyped, Split DEF Quit
<1>4. CASE /\ registration.freeze = {} /\ GoTo(t, "committed")
           /\ registration' = [status |-> "RUNNING", freeze |-> {d.freeze}, protocol |-> {d.protocol}]
           /\ registry' = registry \union {d.freeze}
           /\ claimed' = [rec |-> r, path |-> p]
  <2> DEFINE row == [tool[t] EXCEPT !.at = "committed"]
  <2>1. /\ row \in Row /\ row.at = "committed" /\ row.rec = r /\ row.path = p
        /\ tool' = [tool EXCEPT ![t] = row]
    BY <1>4, Split, Moved DEF GoTo
  <2> HIDE DEF row
  <2>2. tool' \in [Tools -> Row] /\ tool'[t] = row /\ \A u \in Tools : u # t => tool'[u] = tool[u]
    BY <2>1, RowsTyped, Split
  <2>3. d \in minted[r]
    BY <1>2 DEF DocOf
  <2>4. d.freeze \in Nat /\ d.protocol \in Protocols
    BY <1>2, <2>3, Split DEF FreezeTypeOK
  <2> HIDE DEF r, p, d
  <2>5. claimed.rec = Absent /\ registry = {}
    <3>1. ClaimIn(minted, receipt, registration, registry, claimed)
      BY Split
    <3>2. QED BY <1>4, <3>1 DEF ClaimIn
  <2>6. FreezeTypeOK'
    <3>1. registration' \in [status : {"PENDING", "READY_TO_START", "RUNNING", "CANCELLED", "COMPLETED"},
                             freeze : SUBSET Nat, protocol : SUBSET Protocols]
      BY <1>4, <2>4
    <3>2. claimed' \in [rec : FreezeRecords \union {Absent}, path : Activations \union {Absent}]
      BY <1>2, <1>4
    <3>3. registry' \subseteq Nat
      BY <1>4, <2>4, <2>5
    <3>4. QED BY <1>1, <2>2, <3>1, <3>2, <3>3, Split DEF FreezeTypeOK, WorldSame, Row
  <2>7. registration'.freeze = {d.freeze} /\ registration'.protocol = {d.protocol}
        /\ registry' = {d.freeze} /\ claimed'.rec = r /\ claimed'.path = p
    BY <1>4, <2>5
  <2>8. KnownIn(minted', receipt', claimed')
    BY <1>1, <1>2, <2>7, Split DEF KnownIn
  <2>9. \A u \in Tools : HonestRow(tool'[u], minted', receipt')
    BY <1>1, <1>2, <2>1, <2>2, Split DEF HonestRow
  <2>10. AgreesIn(minted', receipt', activation', registration')
    <3>1. \A q \in Activations : activation[q] = Absent
      BY <1>4, Split DEF AgreesIn
    <3>2. QED BY <1>1, <3>1 DEF AgreesIn
  <2>11. ClaimIn(minted', receipt', registration', registry', claimed')
    BY <1>1, <1>2, <2>7, Constants DEF ClaimIn, d
  <2>12. QED BY <1>1, <2>5, <2>6, <2>8, <2>9, <2>10, <2>11, Joined
<1>5. \A s : Document(s) = DocOf(minted, s)
  BY DEF Document, DocOf
<1>6. QED BY <1>1, <1>3, <1>4, <1>5 DEF Activate, Claimable

(* What the activation file at a path becomes is a sealed record of the    *)
(* timestamp and the protocol that are registered.                         *)
LEMMA FileKeeps ==
    ASSUME IInv, NEW t \in Tools, WriteActivation(t) \/ Repair(t)
    PROVE  /\ IInv'
           /\ minted' = minted /\ receipt' = receipt /\ claimed' = claimed
           /\ \A q \in Activations : activation[q] # Absent =>
                  Document(activation'[q]).freeze = Document(activation[q]).freeze
<1> DEFINE r == tool[t].rec
           p == tool[t].path
<1>1. /\ tool[t].at \in {"committed", "repair"} /\ WorldSame
      /\ tool' = [tool EXCEPT ![t] = Idle]
      /\ minted' = minted /\ receipt' = receipt
      /\ registration' = registration /\ registry' = registry /\ claimed' = claimed
  BY DEF WriteActivation, Repair, WorldSame, Quit
<1>2. /\ r \in FreezeRecords /\ p \in Activations /\ minted[r] # {} /\ receipt[p] = r
  BY <1>1, Split DEF HonestRow
<1>3. activation' = activation \/ (Matches(r) /\ activation' = [activation EXCEPT ![p] = r])
  BY DEF WriteActivation, Repair
<1>4. \A s : Document(s) = DocOf(minted, s)
  BY DEF Document, DocOf
<1>5. CASE activation' = activation
  <2>1. IInv'
    BY <1>1, <1>5, IdleRow, ToolMoves, SameIsTyped, Split
  <2>2. QED BY <1>1, <1>5, <2>1
<1>6. CASE Matches(r) /\ activation' = [activation EXCEPT ![p] = r]
  <2> HIDE DEF r, p
  <2>1. registration.freeze = {DocOf(minted, r).freeze} /\ registration.protocol = {DocOf(minted, r).protocol}
    BY <1>4, <1>6 DEF Matches
  <2>2. activation \in [Activations -> FreezeRecords \union {Absent}]
    BY Split DEF FreezeTypeOK
  <2>3. /\ activation' \in [Activations -> FreezeRecords \union {Absent}]
        /\ activation'[p] = r /\ \A q \in Activations : q # p => activation'[q] = activation[q]
    BY <1>2, <1>6, <2>2
  <2>4. tool' \in [Tools -> Row] /\ tool'[t] = Idle /\ \A u \in Tools : u # t => tool'[u] = tool[u]
    BY <1>1, IdleRow, RowsTyped, Split
  <2>5. FreezeTypeOK'
    BY <1>1, <2>3, <2>4, Split DEF FreezeTypeOK, WorldSame, Row
  <2>6. \A u \in Tools : HonestRow(tool'[u], minted', receipt')
    BY <1>1, <2>4, IdleRow, Split
  <2>7. AgreesIn(minted', receipt', activation', registration')
    BY <1>1, <1>2, <2>1, <2>3, Split DEF AgreesIn
  <2>8. IInv'
    BY <1>1, <2>5, <2>6, <2>7, Joined, Split
  <2>9. ASSUME NEW q \in Activations, activation[q] # Absent
        PROVE  DocOf(minted, activation'[q]).freeze = DocOf(minted, activation[q]).freeze
    <3>1. CASE q = p
      <4>1. registration.freeze = {DocOf(minted, activation[q]).freeze}
        BY <2>9, Split DEF AgreesIn
      <4>2. DocOf(minted, activation[q]).freeze = DocOf(minted, r).freeze
        BY <2>1, <4>1
      <4>3. QED BY <2>3, <3>1, <4>2
    <3>2. CASE q # p
      BY <2>3, <3>2
    <3>3. QED BY <3>1, <3>2
  <2>10. QED BY <1>1, <1>4, <2>8, <2>9
<1>7. QED BY <1>3, <1>5, <1>6

(* The status alone may change.                                            *)
LEMMA RetireKeeps ==
    ASSUME IInv, Retire
    PROVE  IInv'
<1>1. PICK s \in {"READY_TO_START", "CANCELLED", "COMPLETED"} :
         registration' = [registration EXCEPT !.status = s]
  BY DEF Retire
<1>2. /\ drifts' = drifts + 1 /\ drifts < MaxDrifts
      /\ serverNow' = serverNow /\ deployed' = deployed /\ broken' = broken /\ kills' = kills
      /\ tool' = tool /\ minted' = minted /\ receipt' = receipt /\ activation' = activation
      /\ registry' = registry /\ claimed' = claimed
  BY DEF Retire, files
<1>3. registration \in [status : {"PENDING", "READY_TO_START", "RUNNING", "CANCELLED", "COMPLETED"},
                        freeze : SUBSET Nat, protocol : SUBSET Protocols]
  BY Split DEF FreezeTypeOK
<1>4. /\ registration' \in [status : {"PENDING", "READY_TO_START", "RUNNING", "CANCELLED", "COMPLETED"},
                            freeze : SUBSET Nat, protocol : SUBSET Protocols]
      /\ registration'.freeze = registration.freeze /\ registration'.protocol = registration.protocol
  BY <1>1, <1>3
<1>5. FreezeTypeOK'
  BY <1>2, <1>4, Split, Constants DEF FreezeTypeOK
<1>6. QED BY <1>2, <1>4, <1>5, Split, Joined DEF AgreesIn, ClaimIn

LEMMA WorldKeeps ==
    ASSUME IInv, ServerTick \/ Drift \/ Deploy \/ UNCHANGED freezeVars
    PROVE  IInv'
<1>1. /\ tool' = tool /\ minted' = minted /\ receipt' = receipt /\ activation' = activation
      /\ registration' = registration /\ registry' = registry /\ claimed' = claimed
  BY DEF ServerTick, Drift, Deploy, freezeVars, files
<1>2. WorldTyped
  <2>1. FreezeTypeOK
    BY Split
  <2>2. CASE ServerTick
    BY <2>1, <2>2, Constants DEF ServerTick, FreezeTypeOK, WorldTyped
  <2>3. CASE Drift
    <3>1. broken' \subseteq {"target", "roles", "grant"}
      BY <2>1, <2>3 DEF Drift, FreezeTypeOK
    <3>2. QED BY <2>1, <2>3, <3>1, Constants DEF Drift, FreezeTypeOK, WorldTyped
  <2>4. CASE Deploy
    BY <2>1, <2>4, Constants DEF Deploy, FreezeTypeOK, WorldTyped
  <2>5. CASE UNCHANGED freezeVars
    BY <2>1, <2>5 DEF freezeVars, FreezeTypeOK, WorldTyped
  <2>6. QED BY <2>2, <2>3, <2>4, <2>5
<1>3. QED BY <1>1, <1>2, WorldMoves

LEMMA KillKeeps ==
    ASSUME IInv, NEW t \in Tools, Kill(t)
    PROVE  IInv'
<1>1. /\ tool' = [tool EXCEPT ![t] = Idle] /\ kills' = kills + 1 /\ kills < MaxKills
      /\ serverNow' = serverNow /\ deployed' = deployed /\ broken' = broken /\ drifts' = drifts
      /\ minted' = minted /\ receipt' = receipt /\ activation' = activation
      /\ registration' = registration /\ registry' = registry /\ claimed' = claimed
  BY DEF Kill, Quit, files
<1>2. WorldTyped
  BY <1>1, Split, Constants DEF FreezeTypeOK, WorldTyped
<1>3. QED BY <1>1, <1>2, IdleRow, ToolMoves

-----------------------------------------------------------------------------
(* Every step keeps the invariant and freezes what is frozen.              *)
LEMMA StepKeeps ==
    ASSUME IInv, [FreezeNext]_freezeVars
    PROVE  IInv' /\ FrozenOnce
<1> DEFINE Files == /\ minted' = minted /\ receipt' = receipt /\ activation' = activation
                    /\ claimed' = claimed
<1>1. Files => FrozenOnce
  BY DEF FrozenOnce
<1> HIDE DEF Files
<1>2. CASE ServerTick \/ Drift \/ Deploy \/ UNCHANGED freezeVars
  <2>1. Files
    BY <1>2 DEF ServerTick, Drift, Deploy, freezeVars, files, Files
  <2>2. QED BY <1>1, <1>2, <2>1, WorldKeeps
<1>3. CASE Retire
  <2>1. Files
    BY <1>3 DEF Retire, files, Files
  <2>2. QED BY <1>1, <1>3, <2>1, RetireKeeps
<1>4. ASSUME NEW t \in Tools, NEW r \in FreezeRecords,
             NEW freeze \in 0..(MaxFreezeTime + FutureWindow), Mint(t, r, freeze)
      PROVE  IInv' /\ FrozenOnce
  <2>1. /\ minted[r] = {} /\ receipt' = receipt /\ activation' = activation /\ claimed' = claimed
        /\ minted' = [minted EXCEPT ![r] = {[freeze |-> freeze, protocol |-> deployed, issued |-> serverNow]}]
    BY <1>4 DEF Mint, Exists
  <2>2. minted \in [FreezeRecords -> SUBSET [freeze : Nat, protocol : Protocols, issued : Nat]]
    BY Split DEF FreezeTypeOK
  <2>3. \A s \in FreezeRecords : Exists(s) => minted'[s] = minted[s]
    BY <2>1, <2>2 DEF Exists
  <2>4. FrozenOnce
    BY <2>1, <2>3 DEF FrozenOnce
  <2>5. QED BY <1>4, <2>4, MintKeeps
<1>5. ASSUME NEW t \in Tools, NEW r \in FreezeRecords, NEW p \in Activations,
             Preflight(t, r, p) \/ CheckRepair(t, r, p)
      PROVE  IInv' /\ FrozenOnce
  <2>1. Files
    BY <1>5 DEF Preflight, CheckRepair, files, Files
  <2>2. QED BY <1>1, <1>5, <2>1, PreflightKeeps
<1>6. ASSUME NEW t \in Tools, ConnectActivate(t) \/ Kill(t)
      PROVE  IInv' /\ FrozenOnce
  <2>1. Files
    BY <1>6 DEF ConnectActivate, Kill, files, Files
  <2>2. QED BY <1>1, <1>6, <2>1, ConnectKeeps, KillKeeps
<1>7. ASSUME NEW t \in Tools, SealReceipt(t)
      PROVE  IInv' /\ FrozenOnce
  <2>1. minted' = minted /\ activation' = activation /\ claimed' = claimed
    BY <1>7 DEF SealReceipt
  <2>2. QED BY <1>7, <2>1, SealKeeps DEF FrozenOnce
<1>8. ASSUME NEW t \in Tools, Activate(t)
      PROVE  IInv' /\ FrozenOnce
  BY <1>8, ActivateKeeps DEF FrozenOnce
<1>9. ASSUME NEW t \in Tools, WriteActivation(t) \/ Repair(t)
      PROVE  IInv' /\ FrozenOnce
  BY <1>9, FileKeeps DEF FrozenOnce
<1>10. QED BY <1>2, <1>3, <1>4, <1>5, <1>6, <1>7, <1>8, <1>9 DEF FreezeNext

(* The inductive invariant of the timestamp authority.                     *)
THEOREM Invariance == FreezeSpec => []IInv
<1>1. IInv /\ [FreezeNext]_freezeVars => IInv'
  BY StepKeeps
<1>2. QED BY <1>1, InitHolds, PTL DEF FreezeSpec

(* No file activates a boundary that the database did not claim, a         *)
(* committed claim can be completed from its own record whatever died, and *)
(* records, receipts and the claim are written once                        *)
(* (freeze_record_v1.py 449-771).                                          *)
THEOREM FreezeSafety == FreezeSpec => FreezeSafe
<1>1. IInv => FreezeTypeOK /\ ActivationAgrees /\ ClaimIsRepairable /\ FreezeIsTheClaim
  BY DEF IInv
<1>2. IInv /\ [FreezeNext]_freezeVars => [FrozenOnce]_freezeVars
  BY StepKeeps
<1>3. QED BY <1>1, <1>2, Invariance, PTL DEF FreezeSpec, FreezeSafe

-----------------------------------------------------------------------------
(* A set of naturals has a least member.                                   *)
LEMMA NatMin ==
    ASSUME NEW T, T \subseteq Nat, T # {}
    PROVE  \E m \in T : \A k \in T : m <= k
<1> DEFINE R == OpToRel(<, Nat)
<1>1. R = {ss \in Nat \X Nat : ss[1] < ss[2]}
  BY DEF OpToRel
<1>2. IsWellFoundedOn(R, Nat)
  BY NatLessThanWellFounded
<1> HIDE DEF R
<1>3. PICK m \in T : \A y \in T : ~(<<y, m>> \in R)
  BY <1>2, WFMin
<1>4. \A y \in T : ~(y < m)
  BY <1>1, <1>3
<1>5. QED BY <1>3, <1>4

-----------------------------------------------------------------------------
(* The paper position.  Its inductive invariant, in parts.                 *)

PlanStates == {"none", "INITIAL_FILLED", "DCA_FILLED"}
TerminalStates == {"CLOSED_BREAKEVEN", "CLOSED_STOP", "CLOSED_NO_DCA"}
Reasons == {"none", "STOP", "DCA_STOP", "FIXED_HORIZON", "DCA_BREAKEVEN", "TAKE_PROFIT_1",
            "TAKE_PROFIT_2", "TRAILING_STOP", "EXPIRED"}

TradeRow ==
    [status : {"none", "OPEN", "CLOSED"}, entry : Int, entered : Nat, size : Int,
     dca : PlanStates \cup TerminalStates, fill : Int, why : Reasons]

HeldTrade ==
    [id : Sources, entry : Int, entered : Nat, stop : Int, size : Int, dca : PlanStates,
     fill : Int, policy : {DEFAULT, HORIZON, TPSL}, target : BOOLEAN]

ReverseRow ==
    [status : {"none", "OPEN", "CLOSED"}, entry : Int, entered : Nat, why : Reasons]

PositionTypeOK ==
    /\ price \in Prices /\ minute \in Nat /\ slips \in Nat /\ alive \in BOOLEAN
    /\ trade \in [Sources -> TradeRow]
    /\ held = Flat \/ held \in HeldTrade
    /\ reverse \in [Sources -> ReverseRow]
    /\ watched \in SUBSET Sources
    /\ hook \in Sources \cup {Nobody}
    /\ check \in [at : {"idle", "fetched", "exited"}, price : Int]

(* A process that is down holds nothing, and one that looks at the exits   *)
(* has a trade to look at.                                                 *)
ProcessHolds ==
    /\ ~alive => held = Flat /\ watched = {} /\ hook = Nobody /\ check = Resting
    /\ check.at = "fetched" => held # Flat

(* At most one trade is open, also while the process is down.              *)
OneOpen == \A s, t \in Sources : trade[s].status = "OPEN" /\ trade[t].status = "OPEN" => s = t

(* A stored fill lies between its level and its stop.                      *)
FillFits(entry, fill) == fill >= entry + DcaGap /\ fill < entry + DcaStopGap

(* The trade in memory against its row.                                    *)
HeldFits(h, row) ==
    /\ row.status = "OPEN" /\ h.entry = row.entry /\ row.size = TargetSize
    /\ h.size \in {InitialSize, TargetSize}
    /\ h.dca # "DCA_FILLED" => h.fill = Unfilled
    /\ h.dca = "INITIAL_FILLED" => row.fill = Unfilled
    /\ h.dca = "DCA_FILLED" =>
           /\ h.policy = DEFAULT /\ ~h.target /\ h.size = TargetSize
           /\ FillFits(h.entry, h.fill) /\ row.fill \in {Unfilled, h.fill}

HeldIsItsRow == held # Flat => HeldFits(held, trade[held.id])

RowFits(row) ==
    /\ row.status = "none" => row.fill = Unfilled
    /\ row.status = "OPEN" => row.size = TargetSize
    /\ row.fill # Unfilled => FillFits(row.entry, row.fill)
    /\ row.dca \in TerminalStates => row.status = "CLOSED"

RowsFit == \A s \in Sources : RowFits(trade[s])

(* A shadow comes after its trade, and the hook that creates it runs once. *)
ShadowFollows ==
    /\ \A s \in Sources : trade[s].status = "none" => reverse[s].status = "none"
    /\ hook # Nobody => reverse[hook].status = "none" /\ trade[hook].status # "none"

PositionInv ==
    /\ PositionTypeOK /\ MemoryIsOpen /\ ProcessHolds /\ OneOpen
    /\ HeldIsItsRow /\ RowsFit /\ ShadowFollows

-----------------------------------------------------------------------------
LEMMA PositionNumbers ==
    /\ Nobody \notin Sources
    /\ Policy \in [Sources -> {DEFAULT, HORIZON, TPSL}]
    /\ DcaOn \in BOOLEAN /\ PolicyTakes \in BOOLEAN /\ PolicyTrails \in BOOLEAN
    /\ \A p \in Prices : p \in Int
    /\ Zone \subseteq Prices
    /\ StopGap \in Nat /\ StopGap > 0 /\ DcaGap \in Nat /\ DcaGap > 0
    /\ DcaStopGap \in Nat /\ DcaStopGap > 0
    /\ Target1 \in Nat /\ Target1 > 0 /\ Target2 \in Nat /\ Target2 > 0
    /\ Hold \in Nat /\ TradeLife \in Nat /\ MaxSlips \in Nat
    /\ MaxPositionTime \in Nat
BY PositionAssumption

(* The least of three numbers, some of which may be missing.               *)
LEMMA LeastOf ==
    ASSUME NEW a \in Int, NEW b \in Int, NEW c \in Int, NEW S \in SUBSET {a, b, c}, a \in S
    PROVE  Min(S) \in S /\ Min(S) \in Int /\ Min(S) <= a
<1>1. \E x \in S : \A y \in S : x <= y
  <2>1. CASE S = {a}
    BY <2>1
  <2>2. CASE S = {a, b}
    BY <2>2
  <2>3. CASE S = {a, c}
    BY <2>3
  <2>4. CASE S = {a, b, c}
    BY <2>4
  <2>5. S = {a} \/ S = {a, b} \/ S = {a, c} \/ S = {a, b, c}
    OBVIOUS
  <2>6. QED BY <2>1, <2>2, <2>3, <2>4, <2>5
<1>2. Min(S) \in S /\ \A y \in S : Min(S) <= y
  BY <1>1 DEF Min
<1>3. QED BY <1>2

(* The first exit that fires.                                              *)
LEMMA FirstExit ==
    ASSUME NEW S \in SUBSET (1..7), S # {}
    PROVE  Min(S) \in S /\ \A i \in S : Min(S) <= i
<1>1. S \in SUBSET Nat
  OBVIOUS
<1>2. PICK m \in S : \A k \in S : m <= k
  BY <1>1, NatMin
<1>3. QED BY <1>2 DEF Min

LEMMA ExitsAre ==
    /\ DOMAIN Exits = 1..7
    /\ Exits[1] = "STOP" /\ Exits[2] = "FIXED_HORIZON" /\ Exits[3] = "DCA_BREAKEVEN"
    /\ Exits[4] = "TAKE_PROFIT_1" /\ Exits[5] = "TAKE_PROFIT_2"
    /\ Exits[6] = "TRAILING_STOP" /\ Exits[7] = "EXPIRED"
BY DEF Exits

(* What check_exits may call the end of a trade.                           *)
LEMMA DueIs ==
    ASSUME NEW h, NEW p
    PROVE  /\ Due(h, p) \in SUBSET (1..7)
           /\ 1 \in Due(h, p) <=> StopHit(h, p)
           /\ 2 \in Due(h, p) <=> HorizonDue(h)
           /\ 3 \in Due(h, p) <=> Fires("DCA_BREAKEVEN", h, p)
           /\ 4 \in Due(h, p) <=> Fires("TAKE_PROFIT_1", h, p)
           /\ 5 \in Due(h, p) <=> Fires("TAKE_PROFIT_2", h, p)
           /\ 6 \in Due(h, p) <=> Fires("TRAILING_STOP", h, p)
           /\ 7 \in Due(h, p) <=> Fires("EXPIRED", h, p)
<1>1. Fires("STOP", h, p) = StopHit(h, p) /\ Fires("FIXED_HORIZON", h, p) = HorizonDue(h)
  BY DEF Fires
<1>2. \A i \in 1..7 : i \in Due(h, p) <=> Fires(Exits[i], h, p)
  BY ExitsAre, Zenon DEF Due
<1>3. Due(h, p) \in SUBSET (1..7)
  BY ExitsAre, Zenon DEF Due
<1>4. 1 \in 1..7 /\ 2 \in 1..7 /\ 3 \in 1..7 /\ 4 \in 1..7 /\ 5 \in 1..7 /\ 6 \in 1..7
      /\ 7 \in 1..7
  OBVIOUS
<1>5. QED BY <1>1, <1>2, <1>3, <1>4, ExitsAre, Zenon

(* AverageDown: the order fills once, between its level and the stop.      *)
LEMMA Managing ==
    ASSUME held \in HeldTrade, NEW p \in Int
    PROVE  \/ Managed(held, p) = held
           \/ /\ Managed(held, p) = [id |-> held.id, entry |-> held.entry,
                     entered |-> held.entered, stop |-> held.stop, size |-> TargetSize,
                     dca |-> "DCA_FILLED", fill |-> p, policy |-> DEFAULT, target |-> FALSE]
              /\ held.dca = "INITIAL_FILLED" /\ held.policy = DEFAULT
              /\ FillFits(held.entry, p)
<1> DEFINE f == [held EXCEPT !.dca = "DCA_FILLED", !.fill = p, !.size = TargetSize,
                             !.target = FALSE]
<1>1. CASE Managed(held, p) = held
  BY <1>1
<1>2. CASE Managed(held, p) # held
  <2>1. /\ Managed(held, p) = f /\ ~StopHit(held, p) /\ held.dca = "INITIAL_FILLED"
        /\ ~ByPolicy(held) /\ p >= held.entry + DcaGap
    BY <1>2 DEF Managed, AverageDown
  <2>2. held.policy = DEFAULT /\ FillFits(held.entry, p)
    BY <2>1, PositionNumbers DEF FillFits, StopHit, ActiveStop, ByPolicy, HeldTrade
  <2>3. PICK w : w = f
    OBVIOUS
  <2>4. w = [id |-> held.id, entry |-> held.entry, entered |-> held.entered,
             stop |-> held.stop, size |-> TargetSize, dca |-> "DCA_FILLED", fill |-> p,
             policy |-> held.policy, target |-> FALSE]
    BY <2>3 DEF HeldTrade
  <2>5. QED BY <2>1, <2>2, <2>3, <2>4
<1>3. QED BY <1>1, <1>2

(* _check_trailing_stop moves nothing but the stop, and only downwards.    *)
LEMMA Trailing ==
    ASSUME NEW h \in HeldTrade, NEW p \in Int
    PROVE  /\ Trail(h, p).stop \in Int /\ Trail(h, p).stop <= h.stop
           /\ Trail(h, p) = [id |-> h.id, entry |-> h.entry, entered |-> h.entered,
                  stop |-> Trail(h, p).stop, size |-> h.size, dca |-> h.dca,
                  fill |-> h.fill, policy |-> h.policy, target |-> h.target]
<1> DEFINE risk == IF h.stop > h.entry THEN h.stop - h.entry ELSE h.entry - h.stop
           gain == h.entry - p
           low == h.entry - risk \div 2
           last == p + risk
           levels == {h.stop} \union (IF gain >= risk THEN {low} ELSE {})
                              \union (IF 2 * gain >= 3 * risk THEN {last} ELSE {})
           stop == Min(levels)
<1>1. h.stop \in Int /\ risk \in Int /\ low \in Int /\ last \in Int
  BY DEF HeldTrade
<1>2. levels \in SUBSET {h.stop, low, last} /\ h.stop \in levels
  OBVIOUS
<1>3. stop \in Int /\ stop <= h.stop
  <2> HIDE DEF levels, low, last
  <2>1. QED BY <1>1, <1>2, LeastOf
<1>4. Trail(h, p) = h \/ Trail(h, p) = [h EXCEPT !.stop = stop]
  BY DEF Trail
<1> HIDE DEF stop
<1>5. h = [id |-> h.id, entry |-> h.entry, entered |-> h.entered, stop |-> h.stop,
           size |-> h.size, dca |-> h.dca, fill |-> h.fill, policy |-> h.policy,
           target |-> h.target]
  BY DEF HeldTrade
<1>6. [h EXCEPT !.stop = stop] =
          [id |-> h.id, entry |-> h.entry, entered |-> h.entered, stop |-> stop,
           size |-> h.size, dca |-> h.dca, fill |-> h.fill, policy |-> h.policy,
           target |-> h.target]
  BY DEF HeldTrade
<1>7. CASE Trail(h, p) = h
  BY <1>1, <1>5, <1>7
<1>8. CASE Trail(h, p) = [h EXCEPT !.stop = stop]
  BY <1>3, <1>6, <1>8
<1>9. QED BY <1>4, <1>7, <1>8

LEMMA ReasonIs ==
    ASSUME NEW h, NEW p, Due(h, p) # {}
    PROVE  /\ Min(Due(h, p)) \in 1..7
           /\ Named(Exits[Min(Due(h, p))], h) \in Reasons \ {"none"}
<1>1. Min(Due(h, p)) \in 1..7
  BY DueIs, FirstExit
<1>2. QED BY <1>1, ExitsAre DEF Named, Reasons

(* The trade after its management still fits its row.                      *)
LEMMA ManagedFits ==
    ASSUME held \in HeldTrade, NEW row, HeldFits(held, row), NEW p \in Int
    PROVE  /\ Managed(held, p) \in HeldTrade
           /\ HeldFits(Managed(held, p), row)
           /\ Managed(held, p).id = held.id /\ Managed(held, p).entry = held.entry
           /\ Managed(held, p).policy = held.policy /\ Managed(held, p).stop = held.stop
           /\ held.dca = "none" => Managed(held, p) = held
           /\ held.dca # "none" => Managed(held, p).dca # "none"
           /\ held.dca = "DCA_FILLED" => Managed(held, p) = held
<1>1. CASE Managed(held, p) = held
  BY <1>1
<1>2. CASE Managed(held, p) # held
  <2>1. PICK m : m = Managed(held, p)
    OBVIOUS
  <2>2. /\ m = [id |-> held.id, entry |-> held.entry,
                entered |-> held.entered, stop |-> held.stop, size |-> TargetSize,
                dca |-> "DCA_FILLED", fill |-> p, policy |-> DEFAULT, target |-> FALSE]
        /\ held.dca = "INITIAL_FILLED" /\ held.policy = DEFAULT
        /\ FillFits(held.entry, p)
    BY <1>2, <2>1, Managing
  <2>3. m \in HeldTrade
    BY <2>2 DEF HeldTrade, PlanStates, TargetSize
  <2>4. HeldFits(m, row)
    BY <2>2 DEF HeldFits
  <2>5. QED BY <2>1, <2>2, <2>3, <2>4
<1>3. QED BY <1>1, <1>2

(* check_exits: what it makes of the trade and of its row.                 *)
ExitOf(m, row) ==
    /\ m = Managed(held, check.price)
    /\ trade' = [trade EXCEPT ![held.id] = row]
    /\ row.entry = trade[held.id].entry /\ row.entered = trade[held.id].entered
    /\ row.size = trade[held.id].size
    /\ \/ row.fill = trade[held.id].fill /\ row.dca = trade[held.id].dca
       \/ /\ row.fill = m.fill /\ m.dca # "none"
          /\ row.dca = m.dca \/ row.status = "CLOSED"
    /\ \/ /\ Due(m, check.price) # {} /\ row.status = "CLOSED" /\ held' = Flat
          /\ row.why = Named(Exits[Min(Due(m, check.price))], m)
       \/ /\ Due(m, check.price) = {} /\ row.status = "OPEN"
          /\ held' = Trail(m, check.price)

LEMMA ExitStep ==
    ASSUME PositionInv, CheckExits
    PROVE  /\ held \in HeldTrade /\ HeldFits(held, trade[held.id]) /\ check.price \in Int
           /\ \E m \in HeldTrade, row \in TradeRow : ExitOf(m, row)
<1>1. held \in HeldTrade /\ HeldFits(held, trade[held.id]) /\ check.price \in Int
  BY DEF PositionInv, PositionTypeOK, ProcessHolds, HeldIsItsRow, CheckExits
<1>2. held.id \in Sources /\ trade[held.id] \in TradeRow
  BY <1>1 DEF PositionInv, PositionTypeOK, HeldTrade
<1>3. PICK m : m = Managed(held, check.price)
  OBVIOUS
<1>4. /\ m \in HeldTrade /\ HeldFits(m, trade[held.id])
      /\ held.dca = "none" => m = held
      /\ held.dca # "none" => m.dca # "none"
  BY <1>1, <1>3, ManagedFits
<1> DEFINE s == held.id
           due == Due(m, check.price)
           closing == due # {}
           cause == IF closing THEN Named(Exits[Min(due)], m) ELSE "none"
           status == IF closing THEN "CLOSED" ELSE "OPEN"
           over == [trade[s] EXCEPT !.status = status, !.why = cause]
           saves == (m # held) \/ (closing /\ m.dca # "none")
<1>5. PICK lost \in BOOLEAN :
          /\ trade' = [trade EXCEPT ![s] =
                 IF saves /\ ~lost THEN DcaSaved(over, m, cause) ELSE over]
          /\ held' = IF closing THEN Flat ELSE Trail(m, check.price)
  BY <1>3 DEF CheckExits
<1>6. cause \in Reasons /\ (cause = "none" <=> ~closing)
  BY ReasonIs DEF Reasons
<1>7. saves => m.dca # "none"
  BY <1>4
<1>7a. PICK st : st = status
  OBVIOUS
<1>7b. PICK w : w = cause
  OBVIOUS
<1>8. over = [status |-> st, entry |-> trade[s].entry, entered |-> trade[s].entered,
              size |-> trade[s].size, dca |-> trade[s].dca, fill |-> trade[s].fill,
              why |-> w]
  <2>1. over = [trade[s] EXCEPT !.status = st, !.why = w]
    BY <1>7a, <1>7b
  <2> HIDE DEF over
  <2>2. QED BY <2>1, <1>2 DEF TradeRow
<1>9. DcaSaved(over, m, cause) =
          [status |-> st, entry |-> trade[s].entry, entered |-> trade[s].entered,
           size |-> trade[s].size, dca |-> IF w = "none" THEN m.dca ELSE DcaClosed(w),
           fill |-> m.fill, why |-> w]
  <2> HIDE DEF over, cause
  <2>1. PICK d : d = IF w = "none" THEN m.dca ELSE DcaClosed(w)
    OBVIOUS
  <2>2. DcaSaved(over, m, cause) = [over EXCEPT !.fill = m.fill, !.dca = d]
    BY <2>1, <1>7b DEF DcaSaved
  <2>3. QED BY <1>8, <2>1, <2>2
<1>10. PICK row : row = IF saves /\ ~lost THEN DcaSaved(over, m, cause) ELSE over
  OBVIOUS
<1>11. DcaClosed(w) \in TerminalStates
  BY DEF DcaClosed, TerminalStates
<1> HIDE DEF over
<1>12. CASE saves /\ ~lost
  <2>1. row = [status |-> st, entry |-> trade[s].entry, entered |-> trade[s].entered,
           size |-> trade[s].size, dca |-> IF w = "none" THEN m.dca ELSE DcaClosed(w),
           fill |-> m.fill, why |-> w]
    BY <1>9, <1>10, <1>12
  <2>2. row \in TradeRow
    <3> HIDE DEF status, cause
    <3>1. st \in {"none", "OPEN", "CLOSED"} /\ w \in Reasons
      BY <1>6, <1>7a, <1>7b DEF status
    <3>2. m.dca \in PlanStates /\ m.fill \in Int
      BY <1>4 DEF HeldTrade
    <3>3. QED BY <1>2, <1>11, <2>1, <3>1, <3>2 DEF TradeRow
  <2>3. /\ row.fill = m.fill /\ m.dca # "none"
        /\ row.dca = m.dca \/ row.status = "CLOSED"
    BY <2>1, <1>6, <1>7, <1>7a, <1>7b, <1>12
  <2>4. row.entry = trade[s].entry /\ row.entered = trade[s].entered
        /\ row.size = trade[s].size /\ row.status = status /\ row.why = cause
    BY <2>1, <1>7a, <1>7b
  <2>5. trade' = [trade EXCEPT ![s] = row]
    BY <1>5, <1>10
  <2> HIDE DEF saves
  <2>6. ExitOf(m, row)
    BY <1>3, <1>5, <2>3, <2>4, <2>5 DEF ExitOf
  <2>7. QED BY <1>1, <1>4, <2>2, <2>6
<1>13. CASE ~(saves /\ ~lost)
  <2>1. row = [status |-> st, entry |-> trade[s].entry, entered |-> trade[s].entered,
              size |-> trade[s].size, dca |-> trade[s].dca, fill |-> trade[s].fill,
              why |-> w]
    BY <1>8, <1>10, <1>13
  <2>2. row \in TradeRow
    <3> HIDE DEF status, cause
    <3>1. st \in {"none", "OPEN", "CLOSED"} /\ w \in Reasons
      BY <1>6, <1>7a, <1>7b DEF status
    <3>2. QED BY <1>2, <2>1, <3>1 DEF TradeRow
  <2>4. row.entry = trade[s].entry /\ row.entered = trade[s].entered
        /\ row.size = trade[s].size /\ row.status = status /\ row.why = cause
        /\ row.fill = trade[s].fill /\ row.dca = trade[s].dca
    BY <2>1, <1>7a, <1>7b
  <2>5. trade' = [trade EXCEPT ![s] = row]
    BY <1>5, <1>10
  <2> HIDE DEF saves
  <2>6. ExitOf(m, row)
    BY <1>3, <1>5, <2>4, <2>5 DEF ExitOf
  <2>7. QED BY <1>1, <1>4, <2>2, <2>6
<1>14. QED BY <1>12, <1>13

(* The invariant is of the rows and of what the process holds.             *)
LEMMA ExitKeeps ==
    ASSUME PositionInv, CheckExits
    PROVE  PositionInv'
<1> DEFINE s == held.id
           p == check.price
<1>1. /\ held \in HeldTrade /\ HeldFits(held, trade[s]) /\ p \in Int
      /\ s \in Sources /\ s # Nobody /\ trade[s].status = "OPEN"
  BY ExitStep, PositionNumbers DEF HeldTrade, HeldFits
<1>2. PICK m \in HeldTrade, row \in TradeRow : ExitOf(m, row)
  BY ExitStep
<1>3. /\ HeldFits(m, trade[s]) /\ m.id = s /\ m.entry = held.entry /\ m.stop = held.stop
  BY <1>1, <1>2, ManagedFits DEF ExitOf
<1>4. /\ trade' = [trade EXCEPT ![s] = row]
      /\ row.entry = trade[s].entry /\ row.size = trade[s].size
      /\ \/ row.fill = trade[s].fill /\ row.dca = trade[s].dca
         \/ /\ row.fill = m.fill /\ m.dca # "none"
            /\ row.dca = m.dca \/ row.status = "CLOSED"
  BY <1>2 DEF ExitOf
<1>5. \/ row.status = "CLOSED" /\ held' = Flat
      \/ row.status = "OPEN" /\ held' = Trail(m, p)
  BY <1>2 DEF ExitOf
<1>6. /\ check' = [check EXCEPT !.at = "exited"] /\ alive /\ slips' \in Nat
      /\ UNCHANGED <<price, minute, reverse, watched, hook, alive>>
  BY DEF CheckExits, Slip, PositionInv, PositionTypeOK
<1>7. trade \in [Sources -> TradeRow] /\ trade'[s] = row
      /\ \A t \in Sources : t # s => trade'[t] = trade[t]
  BY <1>1, <1>4 DEF PositionInv, PositionTypeOK
<1>8. ASSUME held' = Trail(m, p)
      PROVE  held' \in HeldTrade /\ held'.id = s /\ HeldFits(held', trade[s])
  <2>1. Trail(m, p).stop \in Int
        /\ Trail(m, p) = [id |-> m.id, entry |-> m.entry, entered |-> m.entered,
              stop |-> Trail(m, p).stop, size |-> m.size, dca |-> m.dca,
              fill |-> m.fill, policy |-> m.policy, target |-> m.target]
    BY <1>1, Trailing
  <2>2. held' \in HeldTrade /\ held'.id = s
    BY <1>3, <1>8, <2>1 DEF HeldTrade
  <2>3. HeldFits(held', trade[s])
    BY <1>3, <1>8, <2>1 DEF HeldFits
  <2>4. QED BY <2>2, <2>3
<1>9. held' = Flat \/ (held' \in HeldTrade /\ held'.id = s /\ HeldFits(held', trade[s]))
  BY <1>5, <1>8
<1>10. PositionTypeOK'
  <2>1. trade' \in [Sources -> TradeRow]
    BY <1>1, <1>4 DEF PositionInv, PositionTypeOK
  <2>2. check' \in [at : {"idle", "fetched", "exited"}, price : Int]
    BY <1>6 DEF PositionInv, PositionTypeOK
  <2>3. QED BY <1>6, <1>9, <2>1, <2>2 DEF PositionInv, PositionTypeOK
<1>11. row.status \in {"OPEN", "CLOSED"} /\ (row.status = "OPEN" <=> held' # Flat)
       /\ (held' # Flat => held'.id = s)
  <2>1. \A h \in HeldTrade : h # Flat
    BY PositionNumbers DEF HeldTrade, Flat
  <2>2. Trail(m, p) = held' => held'.id = s
    BY <1>1, <1>3, Trailing
  <2>3. Trail(m, p) = held' => held' # Flat
    BY <1>1, <2>2, PositionNumbers DEF Flat
  <2>4. QED BY <1>5, <2>2, <2>3
<1>12. MemoryIsOpen'
  <2>1. {t \in Sources : trade[t].status = "OPEN"} = {s}
    BY <1>1 DEF PositionInv, OneOpen
  <2>2. {t \in Sources : trade'[t].status = "OPEN"} = IF row.status = "OPEN" THEN {s} ELSE {}
    BY <1>1, <1>7, <2>1
  <2>3. {held'.id} \ {Nobody} = IF row.status = "OPEN" THEN {s} ELSE {}
    BY <1>1, <1>11 DEF Flat
  <2>4. \A t \in watched' : reverse'[t].status = "OPEN"
    BY <1>6 DEF PositionInv, MemoryIsOpen
  <2>5. QED BY <2>2, <2>3, <2>4 DEF MemoryIsOpen
<1>13. ProcessHolds'
  BY <1>6 DEF PositionInv, ProcessHolds, PositionTypeOK
<1>14. OneOpen'
  BY <1>1, <1>7 DEF PositionInv, OneOpen
<1>15. RowFits(row)
  <2>1. RowFits(trade[s])
    BY <1>1 DEF PositionInv, RowsFit
  <2>2. m.dca \in PlanStates /\ PlanStates \cap TerminalStates = {}
    BY DEF HeldTrade, PlanStates, TerminalStates
  <2>3. row.fill = m.fill /\ m.fill # Unfilled => FillFits(row.entry, row.fill)
    BY <1>1, <1>3, <1>4 DEF HeldFits
  <2>4. row.dca \in TerminalStates => row.status = "CLOSED"
    BY <1>1, <1>4, <2>1, <2>2 DEF RowFits
  <2>5. QED BY <1>1, <1>4, <1>11, <2>1, <2>3, <2>4 DEF RowFits, HeldFits
<1>16. RowsFit'
  BY <1>7, <1>15 DEF PositionInv, RowsFit
<1>17. HeldIsItsRow'
  <2>1. CASE held' # Flat
    <3>1. HeldFits(held', trade[s]) /\ row.status = "OPEN" /\ held'.id = s
      BY <1>9, <1>11, <2>1
    <3>2. held' = Trail(m, p)
      BY <1>5, <2>1
    <3>3. held'.dca = m.dca /\ held'.fill = m.fill
      BY <1>1, <3>2, Trailing
    <3>4. HeldFits(held', row)
      BY <1>3, <1>4, <3>1, <3>3 DEF HeldFits
    <3>5. QED BY <1>7, <3>1, <3>4 DEF HeldIsItsRow
  <2>2. QED BY <2>1 DEF HeldIsItsRow
<1>18. ShadowFollows'
  <2>1. \A t \in Sources : trade'[t].status = "none" <=> trade[t].status = "none"
    BY <1>1, <1>7, <1>11
  <2>2. hook \in Sources \cup {Nobody}
    BY DEF PositionInv, PositionTypeOK
  <2>3. QED BY <1>6, <2>1, <2>2 DEF PositionInv, ShadowFollows
<1>19. QED BY <1>10, <1>12, <1>13, <1>14, <1>16, <1>17, <1>18 DEF PositionInv

(* check_shadow_exits touches the shadow trades only.                      *)
LEMMA ReverseKeeps ==
    ASSUME PositionInv, CheckReverse
    PROVE  /\ PositionInv'
           /\ \A s \in Sources : reverse[s].status = "CLOSED" => reverse'[s] = reverse[s]
<1> DEFINE ending == {s \in watched : ReverseEnds(s, check.price) # "none"}
<1>1. PICK lost \in SUBSET ending :
        /\ reverse' = [s \in Sources |->
              IF s \in ending \ lost THEN ReverseClosed(s, check.price) ELSE reverse[s]]
        /\ watched' = watched \ ending /\ slips' \in Nat
  BY DEF CheckReverse, Slip, PositionInv, PositionTypeOK
<1>2. /\ check' = Resting /\ alive
      /\ UNCHANGED <<price, minute, trade, held, hook, alive>>
  BY DEF CheckReverse
<1>3. /\ reverse \in [Sources -> ReverseRow] /\ watched \in SUBSET Sources
      /\ \A s \in watched : reverse[s].status = "OPEN"
  BY DEF PositionInv, PositionTypeOK, MemoryIsOpen
<1>4. \A s \in ending : /\ ReverseClosed(s, check.price) \in ReverseRow
                        /\ ReverseClosed(s, check.price).status = "CLOSED"
  <2> TAKE s \in ending
  <2>1. PICK w : w = ReverseEnds(s, check.price)
    OBVIOUS
  <2>2. w \in Reasons
    BY <2>1 DEF ReverseEnds, Reasons
  <2>3. ReverseClosed(s, check.price) = [reverse[s] EXCEPT !.status = "CLOSED", !.why = w]
    BY <2>1 DEF ReverseClosed
  <2>4. ReverseClosed(s, check.price) =
           [status |-> "CLOSED", entry |-> reverse[s].entry, entered |-> reverse[s].entered,
            why |-> w]
    BY <1>3, <2>3 DEF ReverseRow
  <2>5. reverse[s] \in ReverseRow
    BY <1>3
  <2>6. QED BY <2>2, <2>4, <2>5 DEF ReverseRow
<1> HIDE DEF ending
<1>5. reverse' \in [Sources -> ReverseRow]
  BY <1>1, <1>3, <1>4
<1>6. ending \in SUBSET watched
  BY DEF ending
<1>7. \A s \in Sources : s \notin ending => reverse'[s] = reverse[s]
  BY <1>1
<1>8. \A s \in Sources : reverse[s].status # "OPEN" => reverse'[s] = reverse[s]
  BY <1>3, <1>6, <1>7
<1>9. PositionTypeOK'
  BY <1>1, <1>2, <1>3, <1>5 DEF PositionInv, PositionTypeOK, Resting
<1>10. MemoryIsOpen'
  BY <1>1, <1>2, <1>3, <1>7 DEF PositionInv, MemoryIsOpen
<1>11. ProcessHolds' /\ OneOpen' /\ HeldIsItsRow' /\ RowsFit'
  BY <1>2 DEF PositionInv, ProcessHolds, OneOpen, HeldIsItsRow, RowsFit, Resting
<1>12. ShadowFollows'
  BY <1>2, <1>8 DEF PositionInv, PositionTypeOK, ShadowFollows
<1>13. QED BY <1>8, <1>9, <1>10, <1>11, <1>12 DEF PositionInv

(* check_entries: the row and the trade it describes.                      *)
LEMMA OpenStep ==
    ASSUME PositionInv, NEW s \in Sources, OpenTrade(s)
    PROVE  \E row \in TradeRow :
              /\ trade' = [trade EXCEPT ![s] = row] /\ row.status = "OPEN"
              /\ RowFits(row) /\ HeldFits(held', row)
              /\ held' \in HeldTrade /\ held'.id = s
<1>1. PICK lost \in BOOLEAN :
        trade' = [trade EXCEPT ![s] =
                [Untraded EXCEPT !.status = "OPEN", !.entry = price, !.entered = minute,
                                 !.size = TargetSize,
                                 !.dca = IF DcaOn /\ ~lost THEN "INITIAL_FILLED" ELSE "none"]]
  BY DEF OpenTrade
<1>2. PICK d \in {"INITIAL_FILLED", "none"} :
          d = IF DcaOn /\ ~lost THEN "INITIAL_FILLED" ELSE "none"
  OBVIOUS
<1>3. PICK row : row = [Untraded EXCEPT !.status = "OPEN", !.entry = price, !.entered = minute,
                                        !.size = TargetSize, !.dca = d]
  OBVIOUS
<1>4. row = [status |-> "OPEN", entry |-> price, entered |-> minute, size |-> TargetSize,
             dca |-> d, fill |-> Unfilled, why |-> "none"]
  BY <1>3 DEF Untraded
<1>5. price \in Int /\ minute \in Nat /\ Unfilled \in Int /\ TargetSize \in Int
      /\ InitialSize \in Int
  BY PositionNumbers DEF PositionInv, PositionTypeOK, Unfilled, TargetSize, InitialSize
<1>6. row \in TradeRow
  BY <1>4, <1>5 DEF TradeRow, PlanStates, Reasons
<1>7. RowFits(row)
  BY <1>4 DEF RowFits, TerminalStates
<1>8. PICK e \in {"INITIAL_FILLED", "none"}, z \in {InitialSize, TargetSize} :
        held' = [id |-> s, entry |-> price, entered |-> minute, stop |-> price + StopGap,
                size |-> z, dca |-> e, fill |-> Unfilled,
                policy |-> Policy[s], target |-> TRUE]
  BY DEF OpenTrade
<1>9. held' \in HeldTrade /\ held'.id = s
  BY <1>5, <1>8, PositionNumbers DEF HeldTrade, PlanStates
<1>10. HeldFits(held', row)
  BY <1>4, <1>8 DEF HeldFits
<1>11. trade' = [trade EXCEPT ![s] = row]
  BY <1>1, <1>2, <1>3
<1>12. QED BY <1>4, <1>6, <1>7, <1>9, <1>10, <1>11

LEMMA OpenKeeps ==
    ASSUME PositionInv, NEW s \in Sources, OpenTrade(s)
    PROVE  PositionInv'
<1>1. PICK row \in TradeRow :
              /\ trade' = [trade EXCEPT ![s] = row] /\ row.status = "OPEN"
              /\ RowFits(row) /\ HeldFits(held', row)
              /\ held' \in HeldTrade /\ held'.id = s
  BY OpenStep
<1>2. /\ held = Flat /\ hook' = s /\ alive /\ slips' \in Nat /\ trade[s].status = "none"
      /\ UNCHANGED <<price, minute, reverse, watched, check, alive>>
  BY DEF OpenTrade, Slip, PositionInv, PositionTypeOK
<1>3. trade \in [Sources -> TradeRow] /\ trade'[s] = row
      /\ \A t \in Sources : t # s => trade'[t] = trade[t]
  BY <1>1 DEF PositionInv, PositionTypeOK
<1>4. \A t \in Sources : trade[t].status # "OPEN"
  BY <1>2 DEF PositionInv, MemoryIsOpen, Flat
<1>5. PositionTypeOK'
  BY <1>1, <1>2, <1>3 DEF PositionInv, PositionTypeOK
<1>6. MemoryIsOpen'
  BY <1>1, <1>2, <1>3, <1>4, PositionNumbers DEF PositionInv, MemoryIsOpen
<1>7. s # Nobody
  BY PositionNumbers
<1>8. held' # Flat
  BY <1>1, <1>7 DEF Flat
<1>9. ProcessHolds'
  BY <1>2, <1>8 DEF PositionInv, ProcessHolds
<1>10. OneOpen'
  BY <1>3, <1>4 DEF OneOpen
<1>11. HeldIsItsRow' /\ RowsFit'
  BY <1>1, <1>3 DEF PositionInv, HeldIsItsRow, RowsFit
<1>12. ShadowFollows'
  BY <1>1, <1>2, <1>3 DEF PositionInv, ShadowFollows
<1>13. QED BY <1>5, <1>6, <1>9, <1>10, <1>11, <1>12 DEF PositionInv

(* check_shadow_entries.                                                   *)
LEMMA OpenReverseKeeps ==
    ASSUME PositionInv, OpenReverse
    PROVE  PositionInv'
<1>1. /\ hook \in Sources /\ hook' = Nobody /\ reverse[hook].status = "none"
      /\ trade[hook].status # "none" /\ alive
      /\ UNCHANGED <<price, minute, trade, held, check, alive>>
  BY DEF OpenReverse, PositionInv, PositionTypeOK, ShadowFollows
<1>2. PICK row \in BOOLEAN, told \in BOOLEAN :
          /\ told => row
          /\ reverse' = IF row THEN [reverse EXCEPT ![hook] = NewReverse(hook)] ELSE reverse
          /\ watched' = IF told THEN watched \union {hook} ELSE watched
          /\ slips' \in Nat
  BY DEF OpenReverse, Slip, PositionInv, PositionTypeOK
<1>3. NewReverse(hook) = [status |-> "OPEN", entry |-> trade[hook].entry, entered |-> minute,
                          why |-> "none"]
  <2>1. PICK e : e = trade[hook].entry
    OBVIOUS
  <2>2. NewReverse(hook) = [NoReverse EXCEPT !.status = "OPEN", !.entry = e, !.entered = minute]
    BY <2>1 DEF NewReverse
  <2>3. NewReverse(hook) = [status |-> "OPEN", entry |-> e, entered |-> minute, why |-> "none"]
    BY <2>2 DEF NoReverse
  <2>4. QED BY <2>1, <2>3
<1>4. NewReverse(hook) \in ReverseRow
  <2>1. trade[hook] \in TradeRow /\ minute \in Nat
    BY <1>1 DEF PositionInv, PositionTypeOK
  <2>2. QED BY <1>3, <2>1 DEF ReverseRow, TradeRow, Reasons
<1>5. /\ reverse' \in [Sources -> ReverseRow] /\ watched' \in SUBSET Sources
      /\ \A t \in Sources : t # hook => reverse'[t] = reverse[t]
      /\ told => reverse'[hook].status = "OPEN"
  BY <1>1, <1>2, <1>3, <1>4 DEF PositionInv, PositionTypeOK
<1>6. PositionTypeOK'
  BY <1>1, <1>2, <1>5 DEF PositionInv, PositionTypeOK
<1>7. MemoryIsOpen'
  <2>1. \A t \in watched : t # hook /\ t \in Sources /\ reverse[t].status = "OPEN"
    BY <1>1 DEF PositionInv, MemoryIsOpen, PositionTypeOK
  <2>2. \A t \in watched' : reverse'[t].status = "OPEN"
    BY <1>1, <1>2, <1>5, <2>1
  <2>3. QED BY <1>1, <2>2 DEF PositionInv, MemoryIsOpen
<1>8. ProcessHolds' /\ OneOpen' /\ HeldIsItsRow' /\ RowsFit'
  BY <1>1 DEF PositionInv, ProcessHolds, OneOpen, HeldIsItsRow, RowsFit
<1>9. ShadowFollows'
  BY <1>1, <1>5 DEF PositionInv, ShadowFollows
<1>10. QED BY <1>6, <1>7, <1>8, <1>9 DEF PositionInv

(* The restart: _load_open_trades of both engines.                         *)
LEMMA StartKeeps ==
    ASSUME PositionInv, PaperStarts
    PROVE  PositionInv'
<1> DEFINE open == {s \in Sources : trade[s].status = "OPEN"}
<1>1. /\ alive' = TRUE /\ held = Flat /\ hook = Nobody /\ check = Resting
      /\ held' = (IF open = {} THEN Flat ELSE Reloaded(CHOOSE s \in open : TRUE))
      /\ watched' = OpenReverses
      /\ UNCHANGED <<price, minute, trade, reverse, hook, check, slips>>
  BY DEF PaperStarts, PositionInv, ProcessHolds
<1>2. CASE open = {}
  <2>1. held' = Flat
    BY <1>1, <1>2
  <2>2. PositionTypeOK' /\ MemoryIsOpen' /\ ProcessHolds'
    BY <1>1, <1>2, <2>1
    DEF PositionInv, PositionTypeOK, MemoryIsOpen, ProcessHolds, OpenReverses, Flat, Resting
  <2>3. OneOpen' /\ HeldIsItsRow' /\ RowsFit' /\ ShadowFollows'
    BY <1>1, <2>1 DEF PositionInv, OneOpen, HeldIsItsRow, RowsFit, ShadowFollows
  <2>4. QED BY <2>2, <2>3 DEF PositionInv
<1>3. CASE open # {}
  <2>1. PICK s \in open : held' = Reloaded(s)
    BY <1>1, <1>3
  <2>2. open = {s} /\ s \in Sources /\ s # Nobody
    BY PositionNumbers DEF PositionInv, OneOpen
  <2>3. trade[s] \in TradeRow /\ trade[s].status = "OPEN"
    BY <2>2 DEF PositionInv, PositionTypeOK
  <2>4. PICK stop \in Int :
            held' = [id |-> s, entry |-> trade[s].entry, entered |-> trade[s].entered,
                     stop |-> stop, size |-> trade[s].size, dca |-> "none",
                     fill |-> Unfilled, policy |-> DEFAULT, target |-> TRUE]
    <3>1. trade[s].entry + (IF trade[s].dca = "none" THEN StopGap ELSE DcaStopGap) \in Int
      BY <2>3, PositionNumbers DEF TradeRow
    <3>2. QED BY <2>1, <3>1 DEF Reloaded
  <2>5. held' \in HeldTrade /\ held'.id = s
    BY <2>2, <2>3, <2>4 DEF HeldTrade, TradeRow, PlanStates, Unfilled
  <2>6. HeldFits(held', trade[s])
    BY <2>2, <2>3, <2>4 DEF HeldFits, PositionInv, RowsFit, RowFits
  <2>7. PositionTypeOK'
    BY <1>1, <2>5 DEF PositionInv, PositionTypeOK, OpenReverses
  <2>8. MemoryIsOpen'
    BY <1>1, <2>2, <2>5 DEF MemoryIsOpen, OpenReverses
  <2>9. ProcessHolds'
    BY <1>1 DEF ProcessHolds, Resting
  <2>10. OneOpen' /\ RowsFit' /\ ShadowFollows'
    BY <1>1 DEF PositionInv, OneOpen, RowsFit, ShadowFollows
  <2>11. HeldIsItsRow'
    BY <1>1, <2>5, <2>6 DEF HeldIsItsRow
  <2>12. QED BY <2>7, <2>8, <2>9, <2>10, <2>11 DEF PositionInv
<1>4. QED BY <1>2, <1>3

LEMMA QuietKeeps ==
    ASSUME PositionInv, PriceMoves \/ MinutePasses \/ FetchPrices \/ UNCHANGED positionVars
    PROVE  PositionInv' /\ UNCHANGED <<trade, held, reverse>>
<1>1. UNCHANGED <<trade, held, reverse, watched, hook, alive, slips>>
  BY DEF PriceMoves, MinutePasses, FetchPrices, positionVars
<1>2. price' \in Prices /\ minute' \in Nat
  BY DEF PositionInv, PositionTypeOK, PriceMoves, MinutePasses, FetchPrices, positionVars
<1>3. \/ check' = check
      \/ alive /\ held # Flat /\ check' = [at |-> "fetched", price |-> price]
  BY DEF PriceMoves, MinutePasses, FetchPrices, positionVars
<1>4. check' \in [at : {"idle", "fetched", "exited"}, price : Int]
  BY <1>3, PositionNumbers DEF PositionInv, PositionTypeOK
<1>5. PositionTypeOK'
  BY <1>1, <1>2, <1>4 DEF PositionInv, PositionTypeOK
<1>6. ProcessHolds'
  BY <1>1, <1>3 DEF PositionInv, ProcessHolds
<1>7. MemoryIsOpen' /\ OneOpen' /\ HeldIsItsRow' /\ RowsFit' /\ ShadowFollows'
  BY <1>1 DEF PositionInv, MemoryIsOpen, OneOpen, HeldIsItsRow, RowsFit, ShadowFollows
<1>8. QED BY <1>1, <1>5, <1>6, <1>7 DEF PositionInv

LEMMA StopKeeps ==
    ASSUME PositionInv, PaperStops
    PROVE  PositionInv' /\ held' = Flat /\ UNCHANGED <<trade, reverse>>
<1>1. /\ alive' = FALSE /\ slips' \in Nat /\ held' = Flat /\ watched' = {} /\ hook' = Nobody
      /\ check' = Resting /\ UNCHANGED <<price, minute, trade, reverse>>
  BY DEF PaperStops, PositionInv, PositionTypeOK
<1>2. PositionTypeOK' /\ ProcessHolds'
  <2>1. Resting \in [at : {"idle", "fetched", "exited"}, price : Int] /\ Resting.at = "idle"
    BY DEF Resting
  <2>2. PositionTypeOK'
    BY <1>1, <2>1 DEF PositionInv, PositionTypeOK
  <2>3. QED BY <1>1, <2>1, <2>2 DEF ProcessHolds
<1>3. MemoryIsOpen' /\ OneOpen' /\ HeldIsItsRow' /\ RowsFit' /\ ShadowFollows'
  BY <1>1 DEF PositionInv, MemoryIsOpen, OneOpen, HeldIsItsRow, RowsFit, ShadowFollows
<1>4. QED BY <1>1, <1>2, <1>3 DEF PositionInv

LEMMA PositionStart == PositionInit => PositionInv
<1> SUFFICES ASSUME PositionInit PROVE PositionInv
  OBVIOUS
<1>1. Untraded \in TradeRow /\ NoReverse \in ReverseRow /\ RowFits(Untraded)
  BY DEF Untraded, NoReverse, TradeRow, ReverseRow, Unfilled, PlanStates, Reasons, RowFits,
     TerminalStates
<1>2. PositionTypeOK
  BY <1>1, PositionNumbers DEF PositionInit, PositionTypeOK, Resting
<1>3. MemoryIsOpen /\ OneOpen
  BY DEF PositionInit, MemoryIsOpen, OneOpen, Flat, Untraded
<1>4. ProcessHolds /\ HeldIsItsRow /\ RowsFit /\ ShadowFollows
  BY <1>1 DEF PositionInit, ProcessHolds, HeldIsItsRow, RowsFit, ShadowFollows, Resting,
     Untraded, NoReverse
<1>5. QED BY <1>2, <1>3, <1>4 DEF PositionInv

LEMMA PositionStep == PositionInv /\ [PositionNext]_positionVars => PositionInv'
BY ExitKeeps, ReverseKeeps, OpenKeeps, OpenReverseKeeps, StartKeeps, QuietKeeps, StopKeeps
DEF PositionNext

(* The inductive invariant of one trade through DCA, policy and restart.   *)
THEOREM PositionInvariance == PositionSpec => []PositionInv
<1>1. QED BY PositionStart, PositionStep, PTL DEF PositionSpec

LEMMA PositionImplies == PositionInv => MemoryIsOpen /\ FillInsideStop
<1> SUFFICES ASSUME PositionInv PROVE FillInsideStop
  BY DEF PositionInv
<1> USE DEF FillInsideStop
<1> TAKE s \in Sources
<1>1. RowFits(trade[s])
  BY DEF PositionInv, RowsFit
<1>2. held.id = s => held # Flat
  BY PositionNumbers DEF Flat
<1>3. held.id = s => held.size <= trade[s].size /\ (held.dca = "DCA_FILLED" => held.size = trade[s].size)
  BY <1>2 DEF PositionInv, HeldIsItsRow, HeldFits, InitialSize, TargetSize
<1>4. QED BY <1>1, <1>3 DEF RowFits, FillFits, TerminalStates

(* While the process lives an averaged trade and a trade under a policy    *)
(* end only by the exits that are theirs.                                  *)
LEMMA ManagedEnd ==
    ASSUME NEW m \in HeldTrade, NEW p \in Int, NEW row, HeldFits(m, row), Due(m, p) # {}
    PROVE  LET why == Named(Exits[Min(Due(m, p))], m) IN
        /\ m.dca = "DCA_FILLED" => why \in {"DCA_STOP", "DCA_BREAKEVEN", "EXPIRED"}
        /\ m.policy = HORIZON => why \in {"STOP", "FIXED_HORIZON"}
        /\ m.policy = TPSL =>
               why \in {"STOP", "FIXED_HORIZON"}
                   \union (IF PolicyTakes THEN {"TAKE_PROFIT_1"} ELSE {})
                   \union (IF PolicyTrails THEN {"TRAILING_STOP"} ELSE {})
<1> DEFINE i == Min(Due(m, p))
           why == Named(Exits[i], m)
<1>1. i \in Due(m, p) /\ i \in 1..7 /\ (3 \in Due(m, p) => i <= 3)
  BY DueIs, FirstExit
<1>2. DEFAULT # HORIZON /\ DEFAULT # TPSL /\ HORIZON # TPSL
  BY DEF DEFAULT, HORIZON, TPSL
<1> HIDE DEF i
<1>3. /\ Exits[1] = "STOP" /\ Exits[2] = "FIXED_HORIZON" /\ Exits[3] = "DCA_BREAKEVEN"
      /\ Exits[4] = "TAKE_PROFIT_1" /\ Exits[5] = "TAKE_PROFIT_2"
      /\ Exits[6] = "TRAILING_STOP" /\ Exits[7] = "EXPIRED"
  BY ExitsAre
<1>4. /\ i = 1 => why = IF m.dca = "DCA_FILLED" THEN "DCA_STOP" ELSE "STOP"
      /\ i # 1 => why = Exits[i]
  BY <1>1, <1>3 DEF Named
<1>5. i \in {1, 2, 3, 4, 5, 6, 7}
  BY <1>1
<1>6. ASSUME m.dca = "DCA_FILLED"
      PROVE  why \in {"DCA_STOP", "DCA_BREAKEVEN", "EXPIRED"}
  <2>1. m.policy = DEFAULT /\ ~m.target /\ FillFits(m.entry, m.fill)
    BY <1>6 DEF HeldFits
  <2>2. i # 2
    BY <1>1, <2>1, DueIs DEF HorizonDue, ByPolicy
  <2>3. i # 4
    BY <1>1, <2>1, DueIs DEF Fires
  <2>4. i # 6
    BY <1>1, <1>6, DueIs DEF Fires, TrailsAt
  <2>5. i # 5
    <3> SUFFICES ASSUME i = 5 PROVE FALSE
      OBVIOUS
    <3>1. p <= m.entry - Target2
      BY <1>1, DueIs DEF Fires
    <3>2. 2 * p <= m.entry + m.fill
      BY <2>1, <3>1, PositionNumbers DEF FillFits, HeldTrade
    <3>3. Fires("DCA_BREAKEVEN", m, p)
      BY <1>6, <2>1, <3>2 DEF Fires, ByPolicy
    <3>4. QED BY <1>1, <3>3, DueIs
  <2>6. QED BY <1>3, <1>4, <1>5, <1>6, <2>2, <2>3, <2>4, <2>5
<1>7. ASSUME m.policy # DEFAULT
      PROVE  i \in {1, 2, 4, 6} /\ m.dca # "DCA_FILLED"
  <2>1. i # 3
    BY <1>1, <1>7, DueIs DEF Fires, ByPolicy
  <2>2. i # 5
    BY <1>1, <1>7, DueIs DEF Fires, ByPolicy
  <2>3. i # 7
    BY <1>1, <1>7, DueIs DEF Fires, ByPolicy
  <2>4. QED BY <1>5, <1>7, <2>1, <2>2, <2>3 DEF HeldFits
<1>8. i = 4 => Takes(m)
  BY <1>1, DueIs DEF Fires
<1>9. i = 6 => TrailsAt(m)
  BY <1>1, DueIs DEF Fires
<1>10. m.policy = HORIZON => why \in {"STOP", "FIXED_HORIZON"}
  BY <1>2, <1>3, <1>4, <1>7, <1>8, <1>9 DEF Takes, TrailsAt
<1>11. m.policy = TPSL =>
               why \in {"STOP", "FIXED_HORIZON"}
                   \union (IF PolicyTakes THEN {"TAKE_PROFIT_1"} ELSE {})
                   \union (IF PolicyTrails THEN {"TRAILING_STOP"} ELSE {})
  BY <1>2, <1>3, <1>4, <1>7, <1>8, <1>9 DEF Takes, TrailsAt
<1>12. QED BY <1>6, <1>10, <1>11 DEF i

(* A step of check_exits ends a trade as its management says and keeps     *)
(* what is over.                                                           *)
LEMMA ExitSafe ==
    ASSUME PositionInv, CheckExits, NEW s \in Sources
    PROVE  EndsAsManaged(s) /\ PastIsKept(s)
<1> DEFINE p == check.price
<1>1. /\ held \in HeldTrade /\ HeldFits(held, trade[held.id]) /\ p \in Int
      /\ held.id \in Sources /\ trade[held.id].status = "OPEN"
  BY ExitStep DEF HeldTrade, HeldFits
<1>2. PICK m \in HeldTrade, row \in TradeRow : ExitOf(m, row)
  BY ExitStep
<1>3. /\ HeldFits(m, trade[held.id]) /\ m.id = held.id /\ m.policy = held.policy
      /\ m.stop = held.stop
      /\ held.dca = "none" => m.dca = "none"
      /\ held.dca = "DCA_FILLED" => m.dca = "DCA_FILLED"
  BY <1>1, <1>2, ManagedFits DEF ExitOf
<1>4. reverse' = reverse
  BY DEF CheckExits
<1>5. trade'[held.id] = row /\ \A t \in Sources : t # held.id => trade'[t] = trade[t]
  BY <1>1, <1>2 DEF ExitOf, PositionInv, PositionTypeOK
<1>6. EndsAsManaged(s)
  <2> SUFFICES ASSUME Ended(s) PROVE EndsAsManaged(s)
    BY DEF EndsAsManaged
  <2>1. s = held.id /\ row.status = "CLOSED"
    BY <1>5 DEF Ended
  <2>2. Due(m, p) # {} /\ trade'[s].why = Named(Exits[Min(Due(m, p))], m)
    BY <1>2, <1>5, <2>1 DEF ExitOf
  <2>3. QED BY <1>1, <1>3, <2>2, ManagedEnd DEF EndsAsManaged
<1>7. PastIsKept(s)
  <2>1. trade[s].status = "CLOSED" => trade'[s] = trade[s]
    BY <1>1, <1>5
  <2>2. trade[s].fill # Unfilled => trade'[s].fill = trade[s].fill
    <3>1. CASE s = held.id
      <4>1. row.fill = trade[s].fill \/ (row.fill = m.fill /\ m.dca # "none")
        BY <1>2, <3>1 DEF ExitOf
      <4>2. m.dca # "none" /\ trade[s].fill # Unfilled => m.fill = trade[s].fill
        BY <1>3, <3>1 DEF HeldFits, HeldTrade, PlanStates
      <4>3. QED BY <1>5, <3>1, <4>1, <4>2
    <3>2. QED BY <1>5, <3>1
  <2>3. held.id = s /\ held'.id = s => held'.stop <= held.stop
    <3>1. held' = Flat => held'.id # s
      BY PositionNumbers DEF Flat
    <3>2. held' = Trail(m, p) => held'.stop <= held.stop
      BY <1>1, <1>3, Trailing
    <3>3. QED BY <1>2, <3>1, <3>2 DEF ExitOf
  <2>4. QED BY <1>4, <2>1, <2>2, <2>3 DEF PastIsKept
<1>8. QED BY <1>6, <1>7

LEMMA PositionStepSafe ==
    ASSUME PositionInv, [PositionNext]_positionVars, NEW s \in Sources
    PROVE  EndsAsManaged(s) /\ PastIsKept(s)
<1>0. held = Flat \/ held' = Flat => ~(held.id = s /\ held'.id = s)
  BY PositionNumbers DEF Flat
<1>1. CASE PriceMoves \/ MinutePasses \/ FetchPrices \/ UNCHANGED positionVars
  <2>1. UNCHANGED <<trade, held, reverse>>
    BY <1>1, QuietKeeps
  <2>2. held.id = s => held.stop \in Int
    BY PositionNumbers DEF PositionInv, PositionTypeOK, Flat, HeldTrade
  <2>3. QED BY <2>1, <2>2 DEF EndsAsManaged, PastIsKept, Ended
<1>2. CASE PaperStops
  BY <1>0, <1>2, StopKeeps DEF EndsAsManaged, PastIsKept, Ended
<1>3. CASE PaperStarts
  <2>1. held = Flat /\ UNCHANGED <<trade, reverse>>
    BY <1>3 DEF PaperStarts, PositionInv, ProcessHolds
  <2>2. QED BY <1>0, <2>1 DEF EndsAsManaged, PastIsKept, Ended
<1>4. CASE CheckReverse
  <2>1. UNCHANGED <<trade, held>> /\ (reverse[s].status = "CLOSED" => reverse'[s] = reverse[s])
    BY <1>4, ReverseKeeps DEF CheckReverse
  <2>2. held.id = s => held.stop \in Int
    BY PositionNumbers DEF PositionInv, PositionTypeOK, Flat, HeldTrade
  <2>3. QED BY <2>1, <2>2 DEF EndsAsManaged, PastIsKept, Ended
<1>5. CASE OpenReverse
  <2>1. UNCHANGED <<trade, held>>
    BY <1>5 DEF OpenReverse
  <2>2. reverse[s].status = "CLOSED" => reverse'[s] = reverse[s]
    <3>1. hook \in Sources /\ reverse[hook].status = "none"
      BY <1>5 DEF OpenReverse, PositionInv, PositionTypeOK, ShadowFollows
    <3>2. reverse' = reverse \/ reverse' = [reverse EXCEPT ![hook] = NewReverse(hook)]
      BY <1>5 DEF OpenReverse
    <3>3. QED BY <3>1, <3>2 DEF PositionInv, PositionTypeOK
  <2>3. held.id = s => held.stop \in Int
    BY PositionNumbers DEF PositionInv, PositionTypeOK, Flat, HeldTrade
  <2>4. QED BY <2>1, <2>2, <2>3 DEF EndsAsManaged, PastIsKept, Ended
<1>6. CASE CheckExits
  BY <1>6, ExitSafe
<1>7. ASSUME NEW t \in Sources, OpenTrade(t)
      PROVE  EndsAsManaged(s) /\ PastIsKept(s)
  <2>1. held = Flat /\ trade[t].status = "none" /\ reverse' = reverse
    BY <1>7 DEF OpenTrade
  <2>2. PICK row \in TradeRow : trade' = [trade EXCEPT ![t] = row] /\ row.status = "OPEN"
    BY <1>7, OpenStep
  <2>3. s # t => trade'[s] = trade[s]
    BY <2>2 DEF PositionInv, PositionTypeOK
  <2>4. s = t => trade[s].status = "none" /\ trade'[s].status = "OPEN"
    BY <2>1, <2>2 DEF PositionInv, PositionTypeOK
  <2>5. trade[s].status = "none" => trade[s].fill = Unfilled
    BY DEF PositionInv, RowsFit, RowFits
  <2>6. QED BY <1>0, <2>1, <2>3, <2>4, <2>5 DEF EndsAsManaged, PastIsKept, Ended
<1>8. QED BY <1>1, <1>2, <1>3, <1>4, <1>5, <1>6, <1>7 DEF PositionNext

(* The position, for every set of sources, any policies, gaps and prices.  *)
THEOREM PositionSafety == PositionSpec => PositionSafe
<1>1. PositionInv /\ [PositionNext]_positionVars
          => [\A s \in Sources : EndsAsManaged(s) /\ PastIsKept(s)]_positionVars
  BY PositionStepSafe
<1>2. QED BY PositionInvariance, PositionImplies, <1>1, PTL DEF PositionSafe, PositionSpec

-----------------------------------------------------------------------------
(* The capture of SRR SHORT quotes.  Its inductive invariant, in parts.    *)

Claimed == {"quote", "join", "finalize"}
Capturing == Claimed \cup {"preflight", "claim"}

FillRecord ==
    [state : {"absent", "PENDING", "eligible", "not eligible"},
     by : Capturers \cup {NoTaker}, deadline : Nat, received : Nat]
TakerRecord ==
    [at : Capturing \cup {"idle", "dead"}, obs : FillObs \cup {NoTaker}, started : Nat,
     taken : BOOLEAN, cycle : Nat, run : Nat, latency : Int]
WorkerRecord ==
    [at : LiveWorker \cup {"none", "refused", "received", "error"}, ok : BOOLEAN,
     known : BOOLEAN, time : Nat]

FillTyped ==
    /\ fillTime \in Nat
    /\ fillRow \in [FillObs -> FillRecord]
    /\ coverage \in SUBSET FillObs /\ counted \in SUBSET FillObs
    /\ taker \in [Capturers -> TakerRecord]
    /\ worker \in [Capturers -> [FillObs -> WorkerRecord]]

(* A row is absent until somebody claims it.                               *)
RowIsClaimed ==
    \A o \in FillObs : fillRow[o].state = "absent" \/ fillRow[o].by = NoTaker
                          => fillRow[o] = NoFill

(* A capture is of an observation after the boundary; from its claim to    *)
(* its finalisation the PENDING row is its own; and what it takes for a    *)
(* quote was recorded in time.                                             *)
CaptureIsOwn(p) ==
    LET c == taker[p]
    IN /\ c.at \in Capturing => c.obs \in FillObs /\ ObsSignal[c.obs] > ActivationTs
       /\ c.at \in Claimed => fillRow[c.obs].state = "PENDING" /\ fillRow[c.obs].by = p
       /\ c.taken => c.at = "finalize" /\ OnTime(p, c.obs)
CapturesAreOwn == \A p \in Capturers : CaptureIsOwn(p)

(* The rows a process may have claimed by its own count: one less while it *)
(* is about to claim.                                                      *)
RowsOf(p) == {o \in FillObs : fillRow[o].by = p}
MayHold(c) ==
    IF c.at = "dead" THEN MaxPerRun ELSE IF c.at = "claim" THEN c.run - 1 ELSE c.run
RowsAreCounted ==
    \A p \in Capturers :
        /\ taker[p].run <= MaxPerRun /\ (taker[p].at = "claim" => taker[p].run > 0)
        /\ IsFiniteSet(RowsOf(p)) /\ Cardinality(RowsOf(p)) <= MayHold(taker[p])

ThreadsAreBounded ==
    \A p \in Capturers :
        IsFiniteSet(LiveWorkers(p)) /\ Cardinality(LiveWorkers(p)) <= MaxQuoteWorkers

(* A PENDING row nobody works on has been counted, or its claimer is dead. *)
PendingIsWorkedOn ==
    \A o \in FillObs :
      fillRow[o].state = "PENDING" =>
        LET c == taker[fillRow[o].by]
        IN (c.obs = o /\ c.at \in Claimed) \/ c.at = "dead" \/ o \in counted

FillInv ==
    /\ FillTyped /\ RowIsClaimed /\ CapturesAreOwn /\ RowsAreCounted /\ ThreadsAreBounded
    /\ PendingIsWorkedOn /\ EligibleIsTimely

-----------------------------------------------------------------------------
LEMMA FillNumbers ==
    /\ NoTaker \notin Capturers
    /\ ObsSignal \in [FillObs -> Nat] /\ ActivationTs \in Int
    /\ CaptureWindow \in Nat /\ CycleWindow \in Nat /\ DelayLimit \in Nat
    /\ MaxPerCycle \in Nat /\ MaxPerRun \in Nat /\ MaxPerRun > 0
    /\ MaxQuoteWorkers \in Nat /\ MaxQuoteWorkers > 0
BY SrrFillAssumption

LEMMA CaptureStates ==
    /\ Claimed \subseteq Capturing
    /\ "idle" \notin Capturing /\ "dead" \notin Capturing /\ "claim" \notin Claimed
    /\ "preflight" \notin Claimed
    /\ {"preflight", "claim", "quote", "join", "finalize"} \subseteq Capturing
BY DEF Claimed, Capturing

(* A step of process p: what it must show for the invariant to hold again. *)
LEMMA FillJoin ==
    ASSUME FillInv, NEW p \in Capturers, NEW c \in TakerRecord,
           taker' = [taker EXCEPT ![p] = c],
           fillTime' \in Nat, coverage' \in SUBSET FillObs,
           counted' \in SUBSET FillObs, counted \subseteq counted',
           worker' \in [Capturers -> [FillObs -> WorkerRecord]],
           \A q \in Capturers \ {p} : worker'[q] = worker[q],
           fillRow' \in [FillObs -> FillRecord],
           \A o \in FillObs :
              \/ fillRow'[o] = fillRow[o]
              \/ /\ fillRow[o] = NoFill \/ (fillRow[o].state = "PENDING" /\ fillRow[o].by = p)
                 /\ fillRow'[o].by = p /\ fillRow'[o].state # "absent"
                 /\ fillRow'[o].state = "eligible" =>
                        /\ ObsSignal[o] > ActivationTs
                        /\ fillRow'[o].received \in ObsSignal[o]..(ObsSignal[o] + DelayLimit)
                        /\ fillRow'[o].received <= fillRow'[o].deadline,
           CaptureIsOwn(p)',
           c.run <= MaxPerRun, c.at = "claim" => c.run > 0,
           IsFiniteSet(RowsOf(p)'), Cardinality(RowsOf(p)') <= MayHold(c),
           IsFiniteSet(LiveWorkers(p)'), Cardinality(LiveWorkers(p)') <= MaxQuoteWorkers,
           \A o \in FillObs : fillRow'[o].state = "PENDING" /\ fillRow'[o].by = p =>
              (c.obs = o /\ c.at \in Claimed) \/ c.at = "dead" \/ o \in counted'
    PROVE  FillInv'
<1>1. FillTyped /\ RowIsClaimed /\ CapturesAreOwn /\ RowsAreCounted /\ ThreadsAreBounded
      /\ PendingIsWorkedOn /\ EligibleIsTimely
  BY DEF FillInv
<1>2. taker'[p] = c /\ \A q \in Capturers \ {p} : taker'[q] = taker[q]
  BY <1>1 DEF FillTyped
<1>3. FillTyped'
  BY <1>1 DEF FillTyped
<1>4. RowIsClaimed'
  BY <1>1, FillNumbers DEF RowIsClaimed
<1>5. \A q \in Capturers \ {p}, o \in FillObs : fillRow[o].by = q => fillRow'[o] = fillRow[o]
  BY FillNumbers DEF NoFill
<1>6. \A q \in Capturers \ {p}, o \in FillObs : fillRow'[o].by = q => fillRow'[o] = fillRow[o]
  OBVIOUS
<1>7. CapturesAreOwn'
  <2> SUFFICES ASSUME NEW q \in Capturers, q # p PROVE CaptureIsOwn(q)'
    BY DEF CapturesAreOwn
  <2>1. CaptureIsOwn(q) /\ taker'[q] = taker[q] /\ worker'[q] = worker[q]
    BY <1>1, <1>2 DEF CapturesAreOwn
  <2>2. taker[q].at \in Claimed => taker[q].obs \in FillObs
    BY <2>1, CaptureStates DEF CaptureIsOwn
  <2>3. QED BY <1>5, <2>1, <2>2 DEF CaptureIsOwn, OnTime, DeadlineAt
<1>8. RowsAreCounted'
  <2> SUFFICES ASSUME NEW q \in Capturers
               PROVE  /\ taker'[q].run <= MaxPerRun
                      /\ (taker'[q].at = "claim" => taker'[q].run > 0)
                      /\ IsFiniteSet(RowsOf(q)') /\ Cardinality(RowsOf(q)') <= MayHold(taker'[q])
    BY DEF RowsAreCounted
  <2>1. CASE q = p
    BY <1>2, <2>1
  <2>2. CASE q # p
    <3>1. RowsOf(q)' = RowsOf(q)
      BY <1>5, <1>6, <2>2 DEF RowsOf
    <3>2. QED BY <1>1, <1>2, <2>2, <3>1 DEF RowsAreCounted
  <2>3. QED BY <2>1, <2>2
<1>9. ThreadsAreBounded'
  <2> SUFFICES ASSUME NEW q \in Capturers, q # p
               PROVE  IsFiniteSet(LiveWorkers(q)') /\ Cardinality(LiveWorkers(q)') <= MaxQuoteWorkers
    BY DEF ThreadsAreBounded
  <2>1. LiveWorkers(q)' = LiveWorkers(q)
    BY DEF LiveWorkers
  <2>2. QED BY <1>1, <2>1 DEF ThreadsAreBounded
<1>10. PendingIsWorkedOn'
  <2> SUFFICES ASSUME NEW o \in FillObs, fillRow'[o].state = "PENDING"
               PROVE  LET c1 == taker'[fillRow'[o].by]
                      IN (c1.obs = o /\ c1.at \in Claimed) \/ c1.at = "dead" \/ o \in counted'
    BY DEF PendingIsWorkedOn
  <2>1. CASE fillRow'[o].by = p
    BY <1>2, <2>1
  <2>2. CASE fillRow'[o].by # p
    <3>1. fillRow'[o] = fillRow[o]
      BY <2>2
    <3>2. fillRow[o].by \in Capturers
      <4>1. NoFill.state = "absent"
        BY DEF NoFill
      <4>2. fillRow[o].by # NoTaker
        BY <1>1, <3>1, <4>1 DEF RowIsClaimed
      <4>3. QED BY <1>1, <4>2 DEF FillTyped, FillRecord
    <3>3. QED BY <1>1, <1>2, <2>2, <3>1, <3>2 DEF PendingIsWorkedOn
  <2>3. QED BY <2>1, <2>2
<1>11. EligibleIsTimely'
  <2> SUFFICES ASSUME NEW o \in FillObs, fillRow'[o].state = "eligible"
               PROVE  /\ ObsSignal[o] > ActivationTs
                      /\ fillRow'[o].received \in ObsSignal[o]..(ObsSignal[o] + DelayLimit)
                      /\ fillRow'[o].received <= fillRow'[o].deadline
    BY DEF EligibleIsTimely
  <2>1. QED BY <1>1 DEF EligibleIsTimely
<1>12. QED BY <1>3, <1>4, <1>7, <1>8, <1>9, <1>10, <1>11 DEF FillInv

(* The same for a step that leaves the rows and the threads alone.         *)
LEMMA FillStays ==
    ASSUME FillInv, NEW p \in Capturers, NEW c \in TakerRecord,
           taker' = [taker EXCEPT ![p] = c],
           fillTime' \in Nat, coverage' \in SUBSET FillObs,
           counted' \in SUBSET FillObs, counted \subseteq counted',
           worker' \in [Capturers -> [FillObs -> WorkerRecord]],
           \A q \in Capturers \ {p} : worker'[q] = worker[q],
           fillRow' = fillRow,
           CaptureIsOwn(p)',
           c.run <= MaxPerRun, c.at = "claim" => c.run > 0,
           MayHold(taker[p]) <= MayHold(c),
           IsFiniteSet(LiveWorkers(p)'), Cardinality(LiveWorkers(p)') <= MaxQuoteWorkers,
           taker[p].at = "dead" => c.at = "dead",
           taker[p].at \in Claimed =>
              \/ c.obs = taker[p].obs /\ c.at \in Claimed
              \/ c.at = "dead" \/ taker[p].obs \in counted'
    PROVE  FillInv'
<1>1. FillTyped /\ RowsAreCounted /\ PendingIsWorkedOn
  BY DEF FillInv
<1>2. RowsOf(p)' = RowsOf(p)
  BY DEF RowsOf
<1>3. IsFiniteSet(RowsOf(p)') /\ Cardinality(RowsOf(p)') <= MayHold(c)
  <2>1. IsFiniteSet(RowsOf(p)) /\ Cardinality(RowsOf(p)) <= MayHold(taker[p])
    BY <1>1 DEF RowsAreCounted
  <2>2. Cardinality(RowsOf(p)) \in Nat
    BY <2>1, FS_CardinalityType
  <2>3. MayHold(taker[p]) \in Int /\ MayHold(c) \in Int
    BY <1>1, FillNumbers DEF FillTyped, TakerRecord, MayHold
  <2>4. QED BY <1>2, <2>1, <2>2, <2>3
<1>4. \A o \in FillObs : fillRow'[o].state = "PENDING" /\ fillRow'[o].by = p =>
              (c.obs = o /\ c.at \in Claimed) \/ c.at = "dead" \/ o \in counted'
  BY <1>1 DEF PendingIsWorkedOn
<1>5. fillRow' \in [FillObs -> FillRecord]
  BY <1>1 DEF FillTyped
<1>6. QED BY <1>3, <1>4, <1>5, FillJoin

LEMMA ThreadsStay ==
    ASSUME FillInv, NEW p \in Capturers, worker' = worker
    PROVE  /\ IsFiniteSet(LiveWorkers(p)') /\ Cardinality(LiveWorkers(p)') <= MaxQuoteWorkers
           /\ worker' \in [Capturers -> [FillObs -> WorkerRecord]]
           /\ \A q \in Capturers \ {p} : worker'[q] = worker[q]
<1>1. LiveWorkers(p)' = LiveWorkers(p)
  BY DEF LiveWorkers
<1>2. QED BY <1>1 DEF FillInv, ThreadsAreBounded, FillTyped

(* The end of a capture gives up its slot and keeps the counts of the run. *)
LEMMA EndedIs ==
    ASSUME FillInv, NEW p \in Capturers
    PROVE  \E c \in TakerRecord :
              /\ CaptureEnded(p) = [taker EXCEPT ![p] = c]
              /\ c.at = "idle" /\ ~c.taken /\ c.run = taker[p].run
<1>1. taker \in [Capturers -> TakerRecord] /\ fillTime \in Nat
  BY DEF FillInv, FillTyped
<1>2. PICK l \in Int : l = taker[p].latency + (fillTime - taker[p].started)
  BY <1>1 DEF TakerRecord
<1>3. PICK c : c = [taker[p] EXCEPT !.at = "idle", !.obs = NoTaker, !.taken = FALSE,
                                    !.started = 0, !.latency = l]
  OBVIOUS
<1>4. c = [at |-> "idle", obs |-> NoTaker, started |-> 0, taken |-> FALSE,
           cycle |-> taker[p].cycle, run |-> taker[p].run, latency |-> l]
  BY <1>1, <1>3 DEF TakerRecord
<1>5. c \in TakerRecord
  BY <1>1, <1>2, <1>4 DEF TakerRecord
<1>6. CaptureEnded(p) = [taker EXCEPT ![p] = c]
  BY <1>1, <1>2, <1>3 DEF CaptureEnded, TakerRecord
<1>7. QED BY <1>4, <1>5, <1>6

(* Steps that end a capture without touching the row.                      *)
LEMMA CaptureGivenUp ==
    ASSUME FillInv, NEW p \in Capturers, taker' = CaptureEnded(p),
           UNCHANGED <<fillTime, fillRow, worker>>,
           coverage' \in SUBSET FillObs,
           counted' \in SUBSET FillObs, counted \subseteq counted',
           taker[p].at \in Capturing,
           taker[p].at \in Claimed => taker[p].obs \in counted'
    PROVE  FillInv'
<1>1. FillTyped /\ RowsAreCounted
  BY DEF FillInv
<1>2. PICK c \in TakerRecord : /\ taker' = [taker EXCEPT ![p] = c]
                               /\ c.at = "idle" /\ ~c.taken /\ c.run = taker[p].run
  BY EndedIs
<1>3. taker'[p] = c /\ fillTime' \in Nat
  BY <1>1, <1>2 DEF FillTyped
<1>4. CaptureIsOwn(p)'
  BY <1>2, <1>3, CaptureStates DEF CaptureIsOwn
<1>5. taker[p].run \in Nat /\ taker[p].run <= MaxPerRun
  BY <1>1 DEF FillTyped, TakerRecord, RowsAreCounted
<1>6. c.run <= MaxPerRun /\ c.at # "claim" /\ taker[p].at # "dead"
  BY <1>2, <1>5, CaptureStates
<1>7. MayHold(taker[p]) <= MayHold(c)
  BY <1>2, <1>5, <1>6 DEF MayHold
<1>8. QED BY <1>2, <1>3, <1>4, <1>6, <1>7, ThreadsStay, FillStays

LEMMA ErrorKeeps ==
    ASSUME FillInv, NEW p \in Capturers, CaptureError(p)
    PROVE  FillInv'
<1>1. taker[p].at \in Capturing /\ taker[p].obs \in FillObs
  BY CaptureStates DEF CaptureError, FillInv, CapturesAreOwn, CaptureIsOwn
<1>2. coverage \in SUBSET FillObs /\ counted \in SUBSET FillObs
  BY DEF FillInv, FillTyped
<1>3. QED BY <1>1, <1>2, CaptureGivenUp DEF CaptureError

LEMMA RefuseKeeps ==
    ASSUME FillInv, NEW p \in Capturers,
           \/ RefuseOffer(p)
           \/ /\ counted' = counted \union {taker[p].obs} /\ taker' = CaptureEnded(p)
              /\ UNCHANGED <<offered, fillTime, fillRow, coverage, worker>>,
           taker[p].at \in {"preflight", "claim"}
    PROVE  FillInv'
<1>1. taker[p].at \in Capturing /\ taker[p].obs \in FillObs /\ taker[p].at \notin Claimed
  BY CaptureStates DEF FillInv, CapturesAreOwn, CaptureIsOwn
<1>2. coverage \in SUBSET FillObs /\ counted \in SUBSET FillObs
  BY DEF FillInv, FillTyped
<1>3. /\ UNCHANGED <<fillTime, fillRow, worker>> /\ taker' = CaptureEnded(p)
      /\ coverage' \in SUBSET FillObs /\ counted' \in SUBSET FillObs
      /\ counted \subseteq counted'
  BY <1>1, <1>2 DEF RefuseOffer, RecordCoverage
<1>4. QED BY <1>1, <1>3, CaptureGivenUp

(* Steps that take a capture on, without touching the row.                 *)
LEMMA CaptureGoesOn ==
    ASSUME FillInv, NEW p \in Capturers, NEW c \in TakerRecord,
           taker' = [taker EXCEPT ![p] = c],
           UNCHANGED <<fillTime, fillRow>>,
           coverage' \in SUBSET FillObs,
           counted' \in SUBSET FillObs, counted \subseteq counted',
           worker' \in [Capturers -> [FillObs -> WorkerRecord]],
           \A q \in Capturers \ {p} : worker'[q] = worker[q],
           IsFiniteSet(LiveWorkers(p)'), Cardinality(LiveWorkers(p)') <= MaxQuoteWorkers,
           taker[p].at # "dead", c.at # "dead",
           c.at \in Capturing => c.obs \in FillObs /\ ObsSignal[c.obs] > ActivationTs,
           c.at \in Claimed => taker[p].at \in Claimed,
           taker[p].at \in Claimed => c.at \in Claimed /\ c.obs = taker[p].obs,
           c.taken => c.at = "finalize" /\ OnTime(p, c.obs)',
           \/ c.at # "claim" /\ c.run = taker[p].run
           \/ c.at = "claim" /\ c.run = taker[p].run + 1 /\ taker[p].run < MaxPerRun
    PROVE  FillInv'
<1>1. FillTyped /\ RowsAreCounted /\ CaptureIsOwn(p)
  BY DEF FillInv, CapturesAreOwn
<1>2. taker'[p] = c /\ fillTime' \in Nat
  BY <1>1 DEF FillTyped
<1>3. CaptureIsOwn(p)'
  BY <1>1, <1>2 DEF CaptureIsOwn
<1>4. taker[p].run \in Nat /\ taker[p].run <= MaxPerRun
  BY <1>1 DEF FillTyped, TakerRecord, RowsAreCounted
<1>5. c.run <= MaxPerRun /\ (c.at = "claim" => c.run > 0)
  BY <1>4, FillNumbers
<1>6. MayHold(taker[p]) <= MayHold(c)
  BY <1>4 DEF MayHold
<1>7. QED BY <1>2, <1>3, <1>5, <1>6, FillStays

LEMMA FillTakes ==
    ASSUME FillInv, NEW p \in Capturers
    PROVE  /\ taker \in [Capturers -> TakerRecord] /\ taker[p] \in TakerRecord
           /\ fillTime \in Nat /\ coverage \in SUBSET FillObs /\ counted \in SUBSET FillObs
           /\ taker[p].at \in Capturing =>
                  taker[p].obs \in FillObs /\ ObsSignal[taker[p].obs] > ActivationTs
           /\ taker[p].taken => taker[p].at = "finalize" /\ OnTime(p, taker[p].obs)
           /\ taker[p] = [at |-> taker[p].at, obs |-> taker[p].obs,
                  started |-> taker[p].started, taken |-> taker[p].taken,
                  cycle |-> taker[p].cycle, run |-> taker[p].run, latency |-> taker[p].latency]
BY DEF FillInv, FillTyped, TakerRecord, CapturesAreOwn, CaptureIsOwn

LEMMA BeginKeeps ==
    ASSUME FillInv, NEW p \in Capturers, BeginCaptureCycle(p)
    PROVE  FillInv'
<1>1. PICK c : c = [taker[p] EXCEPT !.cycle = 0, !.latency = 0]
  OBVIOUS
<1>2. c = [at |-> taker[p].at, obs |-> taker[p].obs, started |-> taker[p].started,
           taken |-> taker[p].taken, cycle |-> 0, run |-> taker[p].run, latency |-> 0]
  BY <1>1, FillTakes DEF TakerRecord
<1>3. c \in TakerRecord
  <2>1. taker[p] \in TakerRecord /\ fillTime \in Nat
    BY FillTakes
  <2>2. QED BY <1>2, <2>1 DEF TakerRecord
<1>4. taker' = [taker EXCEPT ![p] = c] /\ taker[p].at = "idle"
      /\ UNCHANGED <<fillTime, fillRow, coverage, counted, worker>>
  BY <1>1, FillTakes DEF BeginCaptureCycle
<1>5. c.at = "idle" /\ ~c.taken /\ c.run = taker[p].run
  BY <1>2, <1>4, FillTakes
<1>6. QED BY <1>3, <1>4, <1>5, CaptureStates, FillTakes, ThreadsStay, CaptureGoesOn

LEMMA OfferKeeps ==
    ASSUME FillInv, NEW p \in Capturers, NEW o \in FillObs, CaptureOffer(p, o)
    PROVE  FillInv'
<1>1. PICK c : c = [taker[p] EXCEPT !.at = "preflight", !.obs = o, !.started = fillTime]
  OBVIOUS
<1>2. c = [at |-> "preflight", obs |-> o, started |-> fillTime,
           taken |-> taker[p].taken, cycle |-> taker[p].cycle, run |-> taker[p].run,
           latency |-> taker[p].latency]
  BY <1>1, FillTakes DEF TakerRecord
<1>3. c \in TakerRecord
  <2>1. taker[p] \in TakerRecord /\ fillTime \in Nat
    BY FillTakes
  <2>2. QED BY <1>2, <2>1 DEF TakerRecord, Capturing
<1>4. taker' = [taker EXCEPT ![p] = c] /\ taker[p].at = "idle" /\ ObsSignal[o] > ActivationTs
      /\ UNCHANGED <<fillTime, fillRow, coverage, counted, worker>>
  BY <1>1, FillTakes DEF CaptureOffer
<1>5. c.at = "preflight" /\ ~c.taken /\ c.run = taker[p].run /\ c.obs = o
  BY <1>2, <1>4, FillTakes
<1>6. QED BY <1>3, <1>4, <1>5, CaptureStates, FillTakes, ThreadsStay, CaptureGoesOn

LEMMA PassKeeps ==
    ASSUME FillInv, NEW p \in Capturers, PreflightPassed(p)
    PROVE  FillInv'
<1>1. PICK c : c = [taker[p] EXCEPT !.at = "claim", !.cycle = @ + 1, !.run = @ + 1]
  OBVIOUS
<1>2. c = [at |-> "claim", obs |-> taker[p].obs, started |-> taker[p].started,
           taken |-> taker[p].taken, cycle |-> taker[p].cycle + 1, run |-> taker[p].run + 1,
           latency |-> taker[p].latency]
  BY <1>1, FillTakes DEF TakerRecord
<1>3. c \in TakerRecord
  <2>1. taker[p] \in TakerRecord /\ fillTime \in Nat
    BY FillTakes
  <2>2. QED BY <1>2, <2>1 DEF TakerRecord, Capturing
<1>4. taker' = [taker EXCEPT ![p] = c] /\ taker[p].at = "preflight" /\ taker[p].run < MaxPerRun
      /\ UNCHANGED <<fillTime, fillRow, coverage, counted, worker>>
  BY <1>1, FillTakes DEF PreflightPassed, BudgetAvailable
<1>5. c.at = "claim" /\ ~c.taken /\ c.run = taker[p].run + 1 /\ c.obs = taker[p].obs
  BY <1>2, <1>4, FillTakes
<1>6. QED BY <1>3, <1>4, <1>5, CaptureStates, FillTakes, ThreadsStay, CaptureGoesOn

LEMMA ToFinalizeIs ==
    ASSUME FillInv, NEW p \in Capturers, NEW taken \in BOOLEAN
    PROVE  \E c \in TakerRecord :
              /\ ToFinalize(p, taken) = [taker EXCEPT ![p] = c]
              /\ c.at = "finalize" /\ c.taken = taken /\ c.obs = taker[p].obs
              /\ c.run = taker[p].run /\ c.started = taker[p].started
<1>1. PICK c : c = [taker[p] EXCEPT !.at = "finalize", !.taken = taken]
  OBVIOUS
<1>2. c = [at |-> "finalize", obs |-> taker[p].obs, started |-> taker[p].started,
           taken |-> taken, cycle |-> taker[p].cycle, run |-> taker[p].run,
           latency |-> taker[p].latency]
  BY <1>1, FillTakes DEF TakerRecord
<1>3. c \in TakerRecord
  <2>1. taker[p] \in TakerRecord /\ fillTime \in Nat
    BY FillTakes
  <2>2. QED BY <1>2, <2>1 DEF TakerRecord, Capturing, Claimed
<1>4. ToFinalize(p, taken) = [taker EXCEPT ![p] = c]
  BY <1>1, FillTakes DEF ToFinalize
<1>5. QED BY <1>2, <1>3, <1>4

LEMMA JoinKeeps ==
    ASSUME FillInv, NEW p \in Capturers, JoinReturns(p)
    PROVE  FillInv'
<1>1. PICK taken \in BOOLEAN : taken = OnTime(p, taker[p].obs)
  BY DEF OnTime
<1>2. /\ taker' = ToFinalize(p, taken) /\ taker[p].at = "join"
      /\ UNCHANGED <<offered, fillTime, fillRow, coverage, counted, worker>>
  BY <1>1 DEF JoinReturns
<1>3. PICK c \in TakerRecord :
              /\ taker' = [taker EXCEPT ![p] = c]
              /\ c.at = "finalize" /\ c.taken = taken /\ c.obs = taker[p].obs
              /\ c.run = taker[p].run /\ c.started = taker[p].started
  BY <1>2, ToFinalizeIs
<1>4. taker'[p] = c
  BY <1>3, FillTakes
<1>5. c.taken => OnTime(p, c.obs)'
  BY <1>1, <1>2, <1>3, <1>4 DEF OnTime, DeadlineAt
<1>6. "join" \in Claimed /\ "finalize" \in Claimed
  BY DEF Claimed
<1>7. QED BY <1>2, <1>3, <1>5, <1>6, CaptureStates, FillTakes, ThreadsStay, CaptureGoesOn

(* The threads of p after a step of one of them.                           *)
LEMMA OneThread ==
    ASSUME FillInv, NEW p \in Capturers, NEW o \in FillObs, NEW w \in WorkerRecord,
           worker' = [worker EXCEPT ![p][o] = w],
           w.at \in LiveWorker => o \in LiveWorkers(p) \/ CapacityAvailable(p)
    PROVE  /\ IsFiniteSet(LiveWorkers(p)') /\ Cardinality(LiveWorkers(p)') <= MaxQuoteWorkers
           /\ worker' \in [Capturers -> [FillObs -> WorkerRecord]]
           /\ \A q \in Capturers \ {p} : worker'[q] = worker[q]
           /\ worker'[p][o] = w
           /\ \A x \in FillObs \ {o} : worker'[p][x] = worker[p][x]
<1>1. worker \in [Capturers -> [FillObs -> WorkerRecord]]
      /\ IsFiniteSet(LiveWorkers(p)) /\ Cardinality(LiveWorkers(p)) <= MaxQuoteWorkers
  BY DEF FillInv, FillTyped, ThreadsAreBounded
<1>2. /\ worker' \in [Capturers -> [FillObs -> WorkerRecord]]
      /\ \A q \in Capturers \ {p} : worker'[q] = worker[q]
      /\ worker'[p][o] = w /\ \A x \in FillObs \ {o} : worker'[p][x] = worker[p][x]
  BY <1>1
<1>3. Cardinality(LiveWorkers(p)) \in Nat
  BY <1>1, FS_CardinalityType
<1>4. CASE w.at \in LiveWorker /\ o \notin LiveWorkers(p)
  <2>1. LiveWorkers(p)' = LiveWorkers(p) \cup {o}
    BY <1>2, <1>4 DEF LiveWorkers
  <2>2. IsFiniteSet(LiveWorkers(p)') /\ Cardinality(LiveWorkers(p)') = Cardinality(LiveWorkers(p)) + 1
    BY <1>1, <1>4, <2>1, FS_AddElement
  <2>3. QED BY <1>2, <1>3, <1>4, <2>2, FillNumbers DEF CapacityAvailable
<1>5. CASE ~(w.at \in LiveWorker /\ o \notin LiveWorkers(p))
  <2>1. LiveWorkers(p)' \subseteq LiveWorkers(p)
    BY <1>2, <1>5 DEF LiveWorkers
  <2>2. IsFiniteSet(LiveWorkers(p)')
        /\ Cardinality(LiveWorkers(p)') <= Cardinality(LiveWorkers(p))
    BY <1>1, <2>1, FS_Subset
  <2>3. Cardinality(LiveWorkers(p)') \in Nat
    BY <2>2, FS_CardinalityType
  <2>4. QED BY <1>1, <1>2, <1>3, <2>2, <2>3, FillNumbers
<1>6. QED BY <1>4, <1>5

LEMMA SpawnKeeps ==
    ASSUME FillInv, NEW p \in Capturers, SpawnWorker(p)
    PROVE  FillInv'
<1> DEFINE o == taker[p].obs
<1>1. /\ taker[p].at = "quote" /\ "quote" \in Claimed /\ "join" \in Claimed
      /\ "finalize" \in Claimed
      /\ UNCHANGED <<offered, fillTime, fillRow, coverage, counted>>
  BY DEF SpawnWorker, Claimed
<1>2. o \in FillObs /\ ObsSignal[o] > ActivationTs /\ ~taker[p].taken
  BY <1>1, CaptureStates, FillTakes
<1>3. CASE taker' = ToFinalize(p, FALSE) /\ worker' = worker
  <2>1. PICK c \in TakerRecord :
              /\ taker' = [taker EXCEPT ![p] = c]
              /\ c.at = "finalize" /\ c.taken = FALSE /\ c.obs = taker[p].obs
              /\ c.run = taker[p].run /\ c.started = taker[p].started
    BY <1>3, ToFinalizeIs
  <2>2. QED BY <1>1, <1>2, <1>3, <2>1, CaptureStates, FillTakes, ThreadsStay, CaptureGoesOn
<1>4. CASE /\ worker' = [worker EXCEPT ![p][o] = [NoQuote EXCEPT !.at = "starting",
                                                                 !.time = DeadlineAt(p)]]
           /\ taker' = [taker EXCEPT ![p].at = "join"] /\ CapacityAvailable(p)
  <2>1. PICK c : c = [taker[p] EXCEPT !.at = "join"]
    OBVIOUS
  <2>2. c = [at |-> "join", obs |-> taker[p].obs, started |-> taker[p].started,
             taken |-> taker[p].taken, cycle |-> taker[p].cycle, run |-> taker[p].run,
             latency |-> taker[p].latency]
    BY <2>1, FillTakes DEF TakerRecord
  <2>3. c \in TakerRecord
    BY <2>2, FillTakes DEF TakerRecord, Capturing, Claimed
  <2>4. taker' = [taker EXCEPT ![p] = c]
    BY <1>4, <2>1, FillTakes
  <2>5. PICK d \in Nat : d = DeadlineAt(p)
    <3>1. taker[p] \in TakerRecord /\ CaptureWindow \in Nat
      BY FillTakes, FillNumbers
    <3>2. QED BY <3>1 DEF DeadlineAt, TakerRecord
  <2>6. PICK w : w = [NoQuote EXCEPT !.at = "starting", !.time = d]
    OBVIOUS
  <2>7. w = [at |-> "starting", ok |-> FALSE, known |-> FALSE, time |-> d]
    BY <2>6 DEF NoQuote
  <2>8. w \in WorkerRecord
    BY <2>7 DEF WorkerRecord, LiveWorker
  <2>9. worker' = [worker EXCEPT ![p][o] = w]
    BY <1>4, <2>5, <2>6
  <2>10. /\ IsFiniteSet(LiveWorkers(p)') /\ Cardinality(LiveWorkers(p)') <= MaxQuoteWorkers
         /\ worker' \in [Capturers -> [FillObs -> WorkerRecord]]
         /\ \A q \in Capturers \ {p} : worker'[q] = worker[q]
    BY <1>2, <1>4, <2>8, <2>9, OneThread
  <2>11. c.at = "join" /\ ~c.taken /\ c.run = taker[p].run /\ c.obs = taker[p].obs
    BY <1>2, <2>2
  <2>12. QED BY <1>1, <1>2, <2>3, <2>4, <2>10, <2>11, CaptureStates, FillTakes, CaptureGoesOn
<1>5. QED BY <1>3, <1>4 DEF SpawnWorker

(* A step that leaves the main thread where it is.                         *)
LEMMA TakerStays ==
    ASSUME FillInv, NEW p \in Capturers, taker' = taker,
           UNCHANGED <<fillTime, fillRow>>,
           coverage' \in SUBSET FillObs,
           counted' \in SUBSET FillObs, counted \subseteq counted',
           worker' \in [Capturers -> [FillObs -> WorkerRecord]],
           \A q \in Capturers \ {p} : worker'[q] = worker[q],
           IsFiniteSet(LiveWorkers(p)'), Cardinality(LiveWorkers(p)') <= MaxQuoteWorkers,
           taker[p].taken => OnTime(p, taker[p].obs)'
    PROVE  FillInv'
<1> DEFINE c == taker[p]
<1>1. c \in TakerRecord /\ fillTime \in Nat /\ taker' = [taker EXCEPT ![p] = c]
  BY FillTakes
<1>2. RowsAreCounted /\ CaptureIsOwn(p)
  BY DEF FillInv, CapturesAreOwn
<1>3. c.run <= MaxPerRun /\ (c.at = "claim" => c.run > 0)
  BY <1>2 DEF RowsAreCounted
<1>4. CaptureIsOwn(p)'
  BY <1>2 DEF CaptureIsOwn
<1>5. MayHold(taker[p]) <= MayHold(c)
  BY <1>1, FillNumbers DEF MayHold, TakerRecord
<1>6. fillTime' \in Nat
  BY <1>1
<1> HIDE DEF c
<1>7. c = taker[p]
  BY DEF c
<1>8. QED BY <1>1, <1>3, <1>4, <1>5, <1>6, <1>7, FillStays

LEMMA DeniedKeeps ==
    ASSUME FillInv, NEW p \in Capturers, NEW o \in FillObs, PolicyDenied(p, o)
    PROVE  FillInv'
<1>1. /\ taker' = taker /\ worker' = worker /\ UNCHANGED <<fillTime, fillRow>>
      /\ coverage' \in SUBSET FillObs /\ counted' \in SUBSET FillObs
      /\ counted \subseteq counted'
  BY FillTakes DEF PolicyDenied, RecordCoverage
<1>2. taker[p].taken => OnTime(p, taker[p].obs)'
  BY <1>1, FillTakes DEF OnTime, DeadlineAt
<1>3. QED BY <1>1, <1>2, ThreadsStay, TakerStays

LEMMA WorkerIs ==
    ASSUME FillInv, NEW p \in Capturers, NEW o \in FillObs, WorkerStep(p, o)
    PROVE  /\ o \in LiveWorkers(p)
           /\ \E w \in WorkerRecord : worker' = [worker EXCEPT ![p][o] = w]
<1>1. worker \in [Capturers -> [FillObs -> WorkerRecord]] /\ fillTime \in Nat
  BY DEF FillInv, FillTyped
<1>2. worker[p][o].at \in LiveWorker
  BY DEF WorkerStep, LiveWorker
<1>3. PICK old \in WorkerRecord : old = worker[p][o]
  BY <1>1
<1>4. ASSUME NEW how \in {"refused", "received", "error"}, NEW ok \in BOOLEAN,
             WorkerEnds(p, o, how, ok)
      PROVE  \E w \in WorkerRecord : worker' = [worker EXCEPT ![p][o] = w]
  <2>1. CASE taker[p].obs = o
    <3>1. PICK w : w = [old EXCEPT !.at = how, !.ok = ok, !.time = fillTime]
      OBVIOUS
    <3>2. w = [at |-> how, ok |-> ok, known |-> old.known, time |-> fillTime]
      BY <3>1 DEF WorkerRecord
    <3>3. w \in WorkerRecord
      BY <1>1, <3>2 DEF WorkerRecord
    <3>4. worker' = [worker EXCEPT ![p][o] = w]
      BY <1>1, <1>3, <1>4, <2>1, <3>1 DEF WorkerEnds
    <3>5. QED BY <3>3, <3>4
  <2>2. CASE taker[p].obs # o
    <3>1. NoQuote \in WorkerRecord
      BY DEF NoQuote, WorkerRecord
    <3>2. worker' = [worker EXCEPT ![p][o] = NoQuote]
      BY <1>1, <1>4, <2>2 DEF WorkerEnds
    <3>3. QED BY <3>1, <3>2
  <2>3. QED BY <2>1, <2>2
<1>5. ASSUME worker' = [worker EXCEPT ![p][o].at = "lookup"]
      PROVE  \E w \in WorkerRecord : worker' = [worker EXCEPT ![p][o] = w]
  <2>1. PICK w : w = [old EXCEPT !.at = "lookup"]
    OBVIOUS
  <2>2. w = [at |-> "lookup", ok |-> old.ok, known |-> old.known, time |-> old.time]
    BY <2>1 DEF WorkerRecord
  <2>3. w \in WorkerRecord
    BY <2>2 DEF WorkerRecord, LiveWorker
  <2>4. worker' = [worker EXCEPT ![p][o] = w]
    BY <1>1, <1>3, <1>5, <2>1
  <2>5. QED BY <2>3, <2>4
<1>6. ASSUME NEW known \in BOOLEAN,
             worker' = [worker EXCEPT ![p][o].at = "book", ![p][o].known = known]
      PROVE  \E w \in WorkerRecord : worker' = [worker EXCEPT ![p][o] = w]
  <2>1. PICK w : w = [old EXCEPT !.at = "book", !.known = known]
    OBVIOUS
  <2>2. w = [at |-> "book", ok |-> old.ok, known |-> known, time |-> old.time]
    BY <2>1 DEF WorkerRecord
  <2>3. w \in WorkerRecord
    BY <2>2 DEF WorkerRecord, LiveWorker
  <2>4. worker' = [worker EXCEPT ![p][o] = w]
    BY <1>1, <1>3, <1>6, <2>1
  <2>5. QED BY <2>3, <2>4
<1>7. \/ \E how \in {"refused", "received", "error"}, ok \in BOOLEAN : WorkerEnds(p, o, how, ok)
      \/ worker' = [worker EXCEPT ![p][o].at = "lookup"]
      \/ \E known \in BOOLEAN :
            worker' = [worker EXCEPT ![p][o].at = "book", ![p][o].known = known]
  BY DEF WorkerStep, SnapshotOk
<1>8. QED BY <1>2, <1>4, <1>5, <1>6, <1>7 DEF LiveWorkers

LEMMA WorkerKeeps ==
    ASSUME FillInv, NEW p \in Capturers, NEW o \in FillObs, WorkerStep(p, o)
    PROVE  FillInv'
<1>1. o \in LiveWorkers(p)
      /\ UNCHANGED <<offered, fillTime, fillRow, coverage, counted, taker>>
  BY WorkerIs DEF WorkerStep
<1>2. PICK w \in WorkerRecord : worker' = [worker EXCEPT ![p][o] = w]
  BY WorkerIs
<1>3. /\ IsFiniteSet(LiveWorkers(p)') /\ Cardinality(LiveWorkers(p)') <= MaxQuoteWorkers
      /\ worker' \in [Capturers -> [FillObs -> WorkerRecord]]
      /\ \A q \in Capturers \ {p} : worker'[q] = worker[q]
      /\ \A x \in FillObs \ {o} : worker'[p][x] = worker[p][x]
  BY <1>1, <1>2, OneThread
<1>4. taker[p].taken => OnTime(p, taker[p].obs)'
  <2> SUFFICES ASSUME taker[p].taken PROVE OnTime(p, taker[p].obs)'
    OBVIOUS
  <2>1. OnTime(p, taker[p].obs) /\ taker[p].obs \in FillObs
    BY FillTakes, CaptureStates
  <2>2. taker[p].obs # o
    BY <1>1, <2>1 DEF OnTime, LiveWorkers, LiveWorker
  <2>3. QED BY <1>1, <1>3, <2>1, <2>2 DEF OnTime, DeadlineAt
<1>5. QED BY <1>1, <1>3, <1>4, FillTakes, TakerStays

LEMMA TickKeeps ==
    ASSUME FillInv, FillTick \/ UNCHANGED fillVars
    PROVE  FillInv'
<1>1. UNCHANGED <<fillRow, coverage, counted, taker, worker>> /\ fillTime' \in Nat
  BY DEF FillTick, fillVars, FillInv, FillTyped
<1>2. FillTyped' /\ RowIsClaimed' /\ RowsAreCounted' /\ PendingIsWorkedOn' /\ EligibleIsTimely'
  BY <1>1
  DEF FillInv, FillTyped, RowIsClaimed, RowsAreCounted, PendingIsWorkedOn, EligibleIsTimely,
      RowsOf
<1>3. CapturesAreOwn' /\ ThreadsAreBounded'
  BY <1>1 DEF FillInv, CapturesAreOwn, CaptureIsOwn, OnTime, DeadlineAt, ThreadsAreBounded,
     LiveWorkers
<1>4. QED BY <1>2, <1>3 DEF FillInv

LEMMA DiesKeeps ==
    ASSUME FillInv, NEW p \in Capturers, CapturerDies(p)
    PROVE  FillInv'
<1>1. PICK c : c = [IdleTaker EXCEPT !.at = "dead"]
  OBVIOUS
<1>2. c = [at |-> "dead", obs |-> NoTaker, started |-> 0, taken |-> FALSE, cycle |-> 0,
           run |-> 0, latency |-> 0]
  BY <1>1 DEF IdleTaker
<1>3. c \in TakerRecord
  BY <1>2 DEF TakerRecord
<1>4. taker' = [taker EXCEPT ![p] = c]
      /\ worker' = [worker EXCEPT ![p] = [o \in FillObs |-> NoQuote]]
      /\ UNCHANGED <<fillTime, fillRow, coverage, counted>>
  BY <1>1 DEF CapturerDies
<1>5. /\ worker' \in [Capturers -> [FillObs -> WorkerRecord]]
      /\ \A q \in Capturers \ {p} : worker'[q] = worker[q]
      /\ worker'[p] = [o \in FillObs |-> NoQuote]
  <2>1. NoQuote \in WorkerRecord
    BY DEF NoQuote, WorkerRecord
  <2>2. QED BY <1>4, <2>1 DEF FillInv, FillTyped
<1>6. LiveWorkers(p)' = {}
  <2>1. NoQuote.at \notin LiveWorker
    BY DEF NoQuote, LiveWorker
  <2>2. QED BY <1>5, <2>1 DEF LiveWorkers
<1>7. IsFiniteSet(LiveWorkers(p)') /\ Cardinality(LiveWorkers(p)') <= MaxQuoteWorkers
  BY <1>6, FS_EmptySet, FillNumbers
<1>8. taker'[p] = c
  BY <1>4, FillTakes
<1>9. CaptureIsOwn(p)'
  BY <1>2, <1>8, CaptureStates DEF CaptureIsOwn
<1>10. MayHold(taker[p]) <= MayHold(c)
  <2>1. taker[p].run \in Nat /\ taker[p].run <= MaxPerRun
    BY FillTakes DEF TakerRecord, FillInv, RowsAreCounted
  <2>2. QED BY <1>2, <2>1, FillNumbers DEF MayHold
<1>11. c.at = "dead" /\ c.run <= MaxPerRun
  BY <1>2, FillNumbers
<1>12. QED BY <1>3, <1>4, <1>5, <1>7, <1>9, <1>10, <1>11, FillTakes, FillStays

(* INSERT ... ON CONFLICT: the row is new, and the count has gone before.  *)
LEMMA ClaimKeeps ==
    ASSUME FillInv, NEW p \in Capturers, Claim(p)
    PROVE  FillInv'
<1> DEFINE o == taker[p].obs
<1>1. /\ taker[p].at = "claim" /\ fillRow[o] = NoFill
      /\ fillRow' = [fillRow EXCEPT ![o].state = "PENDING", ![o].by = p]
      /\ UNCHANGED <<offered, fillTime, coverage, worker>>
  BY DEF Claim
<1>2. o \in FillObs /\ ObsSignal[o] > ActivationTs /\ ~taker[p].taken
  BY <1>1, CaptureStates, FillTakes
<1>3. fillRow \in [FillObs -> FillRecord]
  BY DEF FillInv, FillTyped
<1>4. PICK row : row = [NoFill EXCEPT !.state = "PENDING", !.by = p]
  OBVIOUS
<1>5. row = [state |-> "PENDING", by |-> p, deadline |-> 0, received |-> 0]
  BY <1>4 DEF NoFill
<1>6. row \in FillRecord
  BY <1>5 DEF FillRecord
<1>7. fillRow' = [fillRow EXCEPT ![o] = row]
  BY <1>1, <1>2, <1>3, <1>4
<1>8. fillRow' \in [FillObs -> FillRecord] /\ fillRow'[o] = row
      /\ \A x \in FillObs \ {o} : fillRow'[x] = fillRow[x]
  BY <1>2, <1>3, <1>6, <1>7
<1>9. /\ IsFiniteSet(RowsOf(p)) /\ Cardinality(RowsOf(p)) <= taker[p].run - 1
      /\ taker[p].run <= MaxPerRun /\ taker[p].run \in Nat
  BY <1>1, FillTakes DEF FillInv, RowsAreCounted, MayHold, TakerRecord
<1>10. IsFiniteSet(RowsOf(p)') /\ Cardinality(RowsOf(p)') <= taker[p].run
  <2>1. NoFill.by = NoTaker
    BY DEF NoFill
  <2>2. o \notin RowsOf(p)
    BY <1>1, <2>1, FillNumbers DEF RowsOf
  <2>3. RowsOf(p)' = RowsOf(p) \cup {o}
    BY <1>2, <1>5, <1>8 DEF RowsOf
  <2>4. IsFiniteSet(RowsOf(p)') /\ Cardinality(RowsOf(p)') = Cardinality(RowsOf(p)) + 1
    BY <1>9, <2>2, <2>3, FS_AddElement
  <2>5. Cardinality(RowsOf(p)) \in Nat
    BY <1>9, FS_CardinalityType
  <2>6. QED BY <1>9, <2>4, <2>5
<1>11. PICK c \in TakerRecord :
          /\ taker' = [taker EXCEPT ![p] = c] /\ c.run = taker[p].run /\ ~c.taken
          /\ \/ c.at = "quote" /\ c.obs = o /\ counted' = counted
             \/ c.at = "idle" /\ counted' = counted \union {o}
  <2>1. CASE taker' = CaptureEnded(p) /\ counted' = counted \union {o}
    <3>1. PICK c \in TakerRecord :
              /\ CaptureEnded(p) = [taker EXCEPT ![p] = c]
              /\ c.at = "idle" /\ ~c.taken /\ c.run = taker[p].run
      BY EndedIs
    <3>2. QED BY <2>1, <3>1
  <2>2. CASE taker' = [taker EXCEPT ![p].at = "quote"] /\ counted' = counted
    <3>1. PICK c : c = [taker[p] EXCEPT !.at = "quote"]
      OBVIOUS
    <3>2. c = [at |-> "quote", obs |-> o, started |-> taker[p].started,
               taken |-> taker[p].taken, cycle |-> taker[p].cycle, run |-> taker[p].run,
               latency |-> taker[p].latency]
      BY <3>1, FillTakes DEF TakerRecord
    <3>3. c \in TakerRecord
      <4>1. taker[p] \in TakerRecord
        BY FillTakes
      <4>2. QED BY <3>2, <4>1 DEF TakerRecord, Capturing, Claimed
    <3>4. taker' = [taker EXCEPT ![p] = c]
      BY <2>2, <3>1, FillTakes
    <3>5. c.at = "quote" /\ c.obs = o /\ c.run = taker[p].run /\ ~c.taken
      BY <1>2, <3>2
    <3>6. QED BY <2>2, <3>3, <3>4, <3>5
  <2>3. QED BY <2>1, <2>2 DEF Claim
<1>12. taker'[p] = c
  BY <1>11, FillTakes
<1>13. "quote" \in Claimed
  BY DEF Claimed
<1>14. CaptureIsOwn(p)'
  BY <1>2, <1>5, <1>8, <1>11, <1>12, CaptureStates DEF CaptureIsOwn
<1>15. counted' \in SUBSET FillObs /\ counted \subseteq counted' /\ coverage' \in SUBSET FillObs
       /\ fillTime' \in Nat
  BY <1>1, <1>2, <1>11, FillTakes
<1>16. MayHold(c) = taker[p].run /\ c.run <= MaxPerRun /\ c.at # "claim"
  BY <1>9, <1>11 DEF MayHold
<1>17. \A x \in FillObs : fillRow'[x].state = "PENDING" /\ fillRow'[x].by = p =>
              (c.obs = x /\ c.at \in Claimed) \/ c.at = "dead" \/ x \in counted'
  <2> SUFFICES ASSUME NEW x \in FillObs, fillRow'[x].state = "PENDING", fillRow'[x].by = p
               PROVE  (c.obs = x /\ c.at \in Claimed) \/ x \in counted'
    OBVIOUS
  <2>1. CASE x = o
    BY <1>11, <1>13, <2>1
  <2>2. CASE x # o
    <3>1. fillRow[x].state = "PENDING" /\ fillRow[x].by = p
      BY <1>8, <2>2
    <3>2. x \in counted
      BY <1>1, <3>1, CaptureStates DEF FillInv, PendingIsWorkedOn
    <3>3. QED BY <1>15, <3>2
  <2>3. QED BY <2>1, <2>2
<1>18. \A x \in FillObs :
              \/ fillRow'[x] = fillRow[x]
              \/ /\ fillRow[x] = NoFill
                 /\ fillRow'[x].by = p /\ fillRow'[x].state = "PENDING"
  BY <1>1, <1>5, <1>8
<1>19. /\ IsFiniteSet(LiveWorkers(p)') /\ Cardinality(LiveWorkers(p)') <= MaxQuoteWorkers
       /\ worker' \in [Capturers -> [FillObs -> WorkerRecord]]
       /\ \A q \in Capturers \ {p} : worker'[q] = worker[q]
  BY <1>1, ThreadsStay
<1>20. Cardinality(RowsOf(p)') <= MayHold(c)
  BY <1>10, <1>16
<1>21. taker' = [taker EXCEPT ![p] = c]
  BY <1>11
<1> HIDE DEF o
<1>22. QED BY <1>8, <1>10, <1>14, <1>15, <1>16, <1>17, <1>18, <1>19, <1>20, <1>21, FillJoin

(* What the payload says when it counts for the statistics.                *)
LEMMA EvidenceIs ==
    ASSUME FillInv, NEW p \in Capturers, taker[p].at = "finalize"
    PROVE  LET o == taker[p].obs row == Evidence(p, taker[p].obs)
           IN /\ row \in FillRecord /\ row.by = p
              /\ row.state \in {"eligible", "not eligible"}
              /\ row.state = "eligible" =>
                     /\ row.received \in ObsSignal[o]..(ObsSignal[o] + DelayLimit)
                     /\ row.received <= row.deadline
<1> DEFINE o == taker[p].obs
           w == worker[p][o]
<1>1. o \in FillObs /\ (taker[p].taken => OnTime(p, o)) /\ taker[p].started \in Nat
      /\ "finalize" \in Capturing
  BY CaptureStates, FillTakes DEF TakerRecord
<1>2. w \in WorkerRecord
  BY <1>1 DEF FillInv, FillTyped
<1>3. w.time \in Nat /\ DeadlineAt(p) \in Nat /\ ObsSignal[o] \in Nat /\ DelayLimit \in Nat
  BY <1>1, <1>2, FillNumbers DEF WorkerRecord, DeadlineAt
<1>4. CASE taker[p].taken /\ w.at = "received" /\ QuoteFresh(o, w.time) /\ w.ok /\ w.known
  <2>1. Evidence(p, o) = [state |-> "eligible", by |-> p, deadline |-> DeadlineAt(p),
                          received |-> w.time]
    BY <1>4 DEF Evidence
  <2>2. w.time <= DeadlineAt(p)
    BY <1>1, <1>4 DEF OnTime
  <2>3. w.time \in ObsSignal[o]..(ObsSignal[o] + DelayLimit)
    BY <1>3, <1>4 DEF QuoteFresh
  <2>4. Evidence(p, o) \in FillRecord
    BY <1>3, <2>1 DEF FillRecord
  <2>5. QED BY <2>1, <2>2, <2>3, <2>4
<1>5. CASE ~(taker[p].taken /\ w.at = "received" /\ QuoteFresh(o, w.time) /\ w.ok /\ w.known)
  <2>1. PICK r : r = [NoFill EXCEPT !.state = "not eligible", !.by = p]
    OBVIOUS
  <2>2. r = [state |-> "not eligible", by |-> p, deadline |-> 0, received |-> 0]
    BY <2>1 DEF NoFill
  <2>3. r \in FillRecord
    BY <2>2 DEF FillRecord
  <2>4. Evidence(p, o) = r
    BY <1>5, <2>1 DEF Evidence
  <2>5. r.by = p /\ r.state = "not eligible"
    BY <2>2
  <2>6. QED BY <2>3, <2>4, <2>5
<1>6. QED BY <1>4, <1>5

LEMMA FinalizeKeeps ==
    ASSUME FillInv, NEW p \in Capturers, FinalizeRow(p)
    PROVE  FillInv'
<1> DEFINE o == taker[p].obs
<1>1. PICK row : row = Evidence(p, o)
  OBVIOUS
<1>2. /\ taker[p].at = "finalize" /\ fillRow[o].state = "PENDING"
      /\ fillRow' = [fillRow EXCEPT ![o] = row] /\ counted' \in {counted, counted \union {o}}
      /\ taker' = CaptureEnded(p)
      /\ worker' = [worker EXCEPT ![p][o] = IF @.at \in LiveWorker THEN @ ELSE NoQuote]
      /\ UNCHANGED <<offered, fillTime, coverage>>
  BY <1>1 DEF FinalizeRow
<1>3. "finalize" \in Claimed
  BY DEF Claimed
<1>4. o \in FillObs /\ ObsSignal[o] > ActivationTs /\ fillRow[o].by = p
  BY <1>2, <1>3, CaptureStates, FillTakes DEF FillInv, CapturesAreOwn, CaptureIsOwn
<1>5. /\ row \in FillRecord /\ row.by = p /\ row.state \in {"eligible", "not eligible"}
      /\ row.state = "eligible" =>
             /\ row.received \in ObsSignal[o]..(ObsSignal[o] + DelayLimit)
             /\ row.received <= row.deadline
  BY <1>1, <1>2, EvidenceIs
<1>6. fillRow' \in [FillObs -> FillRecord] /\ fillRow'[o] = row
      /\ \A x \in FillObs \ {o} : fillRow'[x] = fillRow[x]
  BY <1>2, <1>4, <1>5 DEF FillInv, FillTyped
<1>7. PICK c \in TakerRecord : /\ taker' = [taker EXCEPT ![p] = c]
                               /\ c.at = "idle" /\ ~c.taken /\ c.run = taker[p].run
  BY <1>2, EndedIs
<1>8. taker'[p] = c
  BY <1>7, FillTakes
<1>9. CaptureIsOwn(p)'
  BY <1>7, <1>8, CaptureStates DEF CaptureIsOwn
<1>10. RowsOf(p)' = RowsOf(p)
  BY <1>4, <1>5, <1>6 DEF RowsOf
<1>11. /\ IsFiniteSet(RowsOf(p)') /\ Cardinality(RowsOf(p)') <= MayHold(c)
       /\ c.run <= MaxPerRun /\ c.at # "claim"
  BY <1>2, <1>7, <1>10 DEF FillInv, RowsAreCounted, MayHold
<1>12. PICK w \in WorkerRecord :
          /\ w = IF worker[p][o].at \in LiveWorker THEN worker[p][o] ELSE NoQuote
          /\ worker' = [worker EXCEPT ![p][o] = w]
  <2>1. worker[p][o] \in WorkerRecord /\ worker \in [Capturers -> [FillObs -> WorkerRecord]]
    BY <1>4 DEF FillInv, FillTyped
  <2>2. NoQuote \in WorkerRecord
    BY DEF NoQuote, WorkerRecord
  <2>3. QED BY <1>2, <1>4, <2>1, <2>2
<1>13. w.at \in LiveWorker => o \in LiveWorkers(p)
  <2>1. NoQuote.at \notin LiveWorker
    BY DEF NoQuote, LiveWorker
  <2>2. QED BY <1>4, <1>12, <2>1 DEF LiveWorkers
<1>14. /\ IsFiniteSet(LiveWorkers(p)') /\ Cardinality(LiveWorkers(p)') <= MaxQuoteWorkers
       /\ worker' \in [Capturers -> [FillObs -> WorkerRecord]]
       /\ \A q \in Capturers \ {p} : worker'[q] = worker[q]
  BY <1>4, <1>12, <1>13, OneThread
<1>15. counted' \in SUBSET FillObs /\ counted \subseteq counted' /\ coverage' \in SUBSET FillObs
       /\ fillTime' \in Nat
  BY <1>2, <1>4, FillTakes
<1>16. \A x \in FillObs : fillRow'[x].state = "PENDING" /\ fillRow'[x].by = p =>
              (c.obs = x /\ c.at \in Claimed) \/ c.at = "dead" \/ x \in counted'
  <2> SUFFICES ASSUME NEW x \in FillObs, fillRow'[x].state = "PENDING", fillRow'[x].by = p
               PROVE  x \in counted'
    OBVIOUS
  <2>1. x # o
    BY <1>5, <1>6
  <2>2. fillRow[x].state = "PENDING" /\ fillRow[x].by = p
    BY <1>6, <2>1
  <2>3. x \in counted
    BY <1>2, <2>1, <2>2 DEF FillInv, PendingIsWorkedOn
  <2>4. QED BY <1>15, <2>3
<1>17. \A x \in FillObs :
              \/ fillRow'[x] = fillRow[x]
              \/ /\ fillRow[x].state = "PENDING" /\ fillRow[x].by = p
                 /\ fillRow'[x].by = p /\ fillRow'[x].state # "absent"
                 /\ fillRow'[x].state = "eligible" =>
                        /\ ObsSignal[x] > ActivationTs
                        /\ fillRow'[x].received \in ObsSignal[x]..(ObsSignal[x] + DelayLimit)
                        /\ fillRow'[x].received <= fillRow'[x].deadline
  BY <1>2, <1>4, <1>5, <1>6
<1>18. QED BY <1>6, <1>7, <1>9, <1>11, <1>14, <1>15, <1>16, <1>17, FillJoin

LEMMA FillStart == SrrFillInit => FillInv
<1> SUFFICES ASSUME SrrFillInit PROVE FillInv
  OBVIOUS
<1>1. NoFill \in FillRecord /\ NoFill.by = NoTaker /\ NoFill.state = "absent"
  BY DEF NoFill, FillRecord
<1>2. IdleTaker \in TakerRecord /\ IdleTaker.at = "idle" /\ ~IdleTaker.taken /\ IdleTaker.run = 0
  BY DEF IdleTaker, TakerRecord
<1>3. NoQuote \in WorkerRecord /\ NoQuote.at \notin LiveWorker
  BY DEF NoQuote, WorkerRecord, LiveWorker
<1>4. /\ fillTime = 0 /\ coverage = {} /\ counted = {}
      /\ fillRow = [o \in FillObs |-> NoFill] /\ taker = [p \in Capturers |-> IdleTaker]
      /\ worker = [p \in Capturers |-> [o \in FillObs |-> NoQuote]]
  BY DEF SrrFillInit
<1>5. FillTyped
  BY <1>1, <1>2, <1>3, <1>4 DEF FillTyped
<1>6. RowIsClaimed /\ PendingIsWorkedOn /\ EligibleIsTimely
  BY <1>1, <1>4 DEF RowIsClaimed, PendingIsWorkedOn, EligibleIsTimely
<1>7. CapturesAreOwn
  BY <1>2, <1>4, CaptureStates DEF CapturesAreOwn, CaptureIsOwn
<1>8. \A p \in Capturers : RowsOf(p) = {} /\ LiveWorkers(p) = {}
  BY <1>1, <1>3, <1>4, FillNumbers DEF RowsOf, LiveWorkers
<1>9. RowsAreCounted /\ ThreadsAreBounded
  BY <1>2, <1>4, <1>8, FS_EmptySet, FillNumbers DEF RowsAreCounted, ThreadsAreBounded, MayHold
<1>10. QED BY <1>5, <1>6, <1>7, <1>9 DEF FillInv

LEMMA FillStep == FillInv /\ [SrrFillNext]_fillVars => FillInv'
<1> SUFFICES ASSUME FillInv, [SrrFillNext]_fillVars PROVE FillInv'
  OBVIOUS
<1>1. CASE FillTick \/ UNCHANGED fillVars
  BY <1>1, TickKeeps
<1>2. ASSUME NEW p \in Capturers, PreflightRefused(p) PROVE FillInv'
  BY <1>2, RefuseKeeps DEF PreflightRefused
<1>3. ASSUME NEW p \in Capturers, ClaimLost(p) PROVE FillInv'
  BY <1>3, RefuseKeeps DEF ClaimLost
<1>4. QED BY <1>1, <1>2, <1>3, DiesKeeps, BeginKeeps, ErrorKeeps, PassKeeps, ClaimKeeps,
             SpawnKeeps, JoinKeeps, FinalizeKeeps, OfferKeeps, DeniedKeeps, WorkerKeeps
          DEF SrrFillNext

(* The inductive invariant of the capture of SRR SHORT quotes.             *)
THEOREM FillInvariance == SrrFillSpec => []FillInv
<1>1. QED BY FillStart, FillStep, PTL DEF SrrFillSpec

LEMMA FillImplies ==
    FillInv => SrrFillTypeOK /\ EligibleIsTimely /\ CaptureIsBounded /\ PendingIsExplained
<1> SUFFICES ASSUME FillInv
             PROVE  SrrFillTypeOK /\ EligibleIsTimely /\ CaptureIsBounded /\ PendingIsExplained
  OBVIOUS
<1>1. SrrFillTypeOK /\ EligibleIsTimely
  BY DEF FillInv, FillTyped, SrrFillTypeOK, FillRecord
<1>2. CaptureIsBounded
  <2> SUFFICES ASSUME NEW p \in Capturers
               PROVE  /\ Cardinality(LiveWorkers(p)) <= MaxQuoteWorkers
                      /\ Cardinality({o \in FillObs : fillRow[o].by = p}) <= MaxPerRun
    BY DEF CaptureIsBounded
  <2>1. /\ Cardinality(LiveWorkers(p)) <= MaxQuoteWorkers
        /\ IsFiniteSet(RowsOf(p)) /\ Cardinality(RowsOf(p)) <= MayHold(taker[p])
        /\ taker[p].run <= MaxPerRun
    BY DEF FillInv, ThreadsAreBounded, RowsAreCounted
  <2>2. Cardinality(RowsOf(p)) \in Nat /\ taker[p].run \in Nat
    BY <2>1, FS_CardinalityType, FillTakes DEF TakerRecord
  <2>3. Cardinality(RowsOf(p)) <= MaxPerRun
    BY <2>1, <2>2, FillNumbers DEF MayHold
  <2>4. QED BY <2>1, <2>3 DEF RowsOf
<1>3. PendingIsExplained
  BY DEF FillInv, PendingIsWorkedOn, PendingIsExplained
<1>4. QED BY <1>1, <1>2, <1>3

(* A capture that returns leaves evidence, a coverage row or a count.      *)
LEMMA ReturnLeaves ==
    ASSUME FillInv, [SrrFillNext]_fillVars, NEW p \in Capturers,
           taker[p].at \notin {"idle", "dead"}, taker'[p].at = "idle"
    PROVE  LET o == taker[p].obs
           IN fillRow'[o] # NoFill \/ o \in coverage' \/ o \in counted'
<1> DEFINE o == taker[p].obs
<1>1. taker \in [Capturers -> TakerRecord] /\ fillRow \in [FillObs -> FillRecord]
  BY DEF FillInv, FillTyped
<1>2. taker[p].at \in Capturing /\ o \in FillObs
  BY FillTakes DEF TakerRecord
<1>3. ASSUME NEW q \in Capturers, q # p, NEW c, taker' = [taker EXCEPT ![q] = c]
      PROVE  FALSE
  BY <1>1, <1>3
<1>4. \A q \in Capturers : \E c \in TakerRecord : CaptureEnded(q) = [taker EXCEPT ![q] = c]
  BY EndedIs
<1>5. taker' # taker
  OBVIOUS
<1>6. CASE FillTick \/ UNCHANGED fillVars
  BY <1>5, <1>6 DEF FillTick, fillVars
<1>7. ASSUME NEW q \in Capturers,
             CapturerDies(q) \/ BeginCaptureCycle(q) \/ PreflightPassed(q) \/ SpawnWorker(q)
             \/ JoinReturns(q)
             \/ \E x \in FillObs : CaptureOffer(q, x) \/ PolicyDenied(q, x) \/ WorkerStep(q, x)
      PROVE  FALSE
  <2>1. taker'[p].at = taker[p].at \/ taker'[p].at # "idle"
    BY <1>1, <1>7 DEF CapturerDies, BeginCaptureCycle, PreflightPassed, SpawnWorker, ToFinalize,
       JoinReturns, CaptureOffer, PolicyDenied, WorkerStep, IdleTaker, TakerRecord
  <2>2. QED BY <2>1
<1>8. ASSUME NEW q \in Capturers,
             CaptureError(q) \/ PreflightRefused(q) \/ Claim(q) \/ ClaimLost(q) \/ FinalizeRow(q)
      PROVE  fillRow'[o] # NoFill \/ o \in coverage' \/ o \in counted'
  <2>1. taker' = CaptureEnded(q) \/ taker' = [taker EXCEPT ![q].at = "quote"]
    BY <1>8 DEF CaptureError, PreflightRefused, Claim, ClaimLost, FinalizeRow, RefuseOffer
  <2>2. q = p
    <3>1. CASE taker' = CaptureEnded(q)
      BY <1>3, <1>4, <3>1
    <3>2. CASE taker' = [taker EXCEPT ![q].at = "quote"]
      BY <1>1, <3>2
    <3>3. QED BY <2>1, <3>1, <3>2
  <2>3. CASE FinalizeRow(p)
    <3>1. fillRow'[o] = Evidence(p, o) /\ taker[p].at = "finalize"
      BY <1>1, <1>2, <2>3 DEF FinalizeRow
    <3>2. Evidence(p, o).state \in {"eligible", "not eligible"}
      BY <3>1, EvidenceIs
    <3>3. NoFill.state = "absent"
      BY DEF NoFill
    <3>4. QED BY <3>1, <3>2, <3>3
  <2>4. CASE CaptureError(p) \/ PreflightRefused(p) \/ Claim(p) \/ ClaimLost(p)
    <3>1. taker' = [taker EXCEPT ![p].at = "quote"] => FALSE
      BY <1>1
    <3>2. QED BY <2>4, <3>1
              DEF CaptureError, PreflightRefused, Claim, ClaimLost, RefuseOffer, RecordCoverage
  <2>5. QED BY <1>8, <2>2, <2>3, <2>4
<1>9. QED BY <1>6, <1>7, <1>8 DEF SrrFillNext

(* A final row stays.                                                      *)
LEMMA RowStep ==
    ASSUME FillInv, [SrrFillNext]_fillVars, NEW o \in FillObs, fillRow'[o] # fillRow[o]
    PROVE  /\ fillRow[o].state \in {"absent", "PENDING"}
           /\ fillRow[o].state = "PENDING" => fillRow'[o].by = fillRow[o].by
<1>1. fillRow \in [FillObs -> FillRecord]
  BY DEF FillInv, FillTyped
<1>2. fillRow' # fillRow
  OBVIOUS
<1>3. PICK p \in Capturers : Claim(p) \/ FinalizeRow(p)
  BY <1>2 DEF SrrFillNext, FillTick, fillVars, CapturerDies, BeginCaptureCycle, CaptureError,
     PreflightRefused, RefuseOffer, PreflightPassed, ClaimLost, SpawnWorker, JoinReturns,
     CaptureOffer, PolicyDenied, WorkerStep
<1>4. CASE Claim(p)
  <2>1. fillRow[taker[p].obs] = NoFill
        /\ fillRow' = [fillRow EXCEPT ![taker[p].obs].state = "PENDING", ![taker[p].obs].by = p]
    BY <1>4 DEF Claim
  <2>2. o = taker[p].obs
    BY <1>1, <2>1
  <2>3. QED BY <2>1, <2>2 DEF NoFill
<1>5. CASE FinalizeRow(p)
  <2>1. fillRow[taker[p].obs].state = "PENDING" /\ taker[p].at = "finalize"
        /\ fillRow' = [fillRow EXCEPT ![taker[p].obs] = Evidence(p, taker[p].obs)]
    BY <1>5 DEF FinalizeRow
  <2>2. o = taker[p].obs
    BY <1>1, <2>1
  <2>3. fillRow[o].by = p
    BY <2>1, <2>2 DEF FillInv, CapturesAreOwn, CaptureIsOwn, Claimed
  <2>4. fillRow'[o] = Evidence(p, o)
    BY <1>1, <2>1, <2>2
  <2>5. Evidence(p, o).by = p
    BY <2>1, <2>2, EvidenceIs
  <2>6. QED BY <2>1, <2>2, <2>3, <2>4, <2>5
<1>6. QED BY <1>3, <1>4, <1>5

(* However many processes capture at once, die, hang in a request or lose  *)
(* the answer to a commit: only timely quotes count, threads and claims    *)
(* stay inside their budgets, no event goes uncounted and a final row      *)
(* stays (srr_short_fill_feasibility_v1.py).                               *)
THEOREM FillSafety == SrrFillSpec => SrrFillSafe
<1>1. FillInv /\ [SrrFillNext]_fillVars
        => [\A p \in Capturers :
              (taker[p].at \notin {"idle", "dead"} /\ taker'[p].at = "idle") =>
                LET o == taker[p].obs
                IN fillRow'[o] # NoFill \/ o \in coverage' \/ o \in counted']_fillVars
  BY ReturnLeaves
<1>2. FillInv /\ [SrrFillNext]_fillVars
        => [\A o \in FillObs :
              fillRow'[o] # fillRow[o] =>
                /\ fillRow[o].state \in {"absent", "PENDING"}
                /\ fillRow[o].state = "PENDING" => fillRow'[o].by = fillRow[o].by]_fillVars
  BY RowStep
<1>3. QED BY FillInvariance, FillImplies, <1>1, <1>2, PTL
          DEF SrrFillSpec, SrrFillSafe, NoEventUncounted, EvidenceIsFinal

-----------------------------------------------------------------------------
(* The candle stages of an analytics run.  First the grid of open times.   *)

LEMMA TfPositive == Tf \in Nat \ {0} /\ Tf \in Nat /\ Tf > 0
BY CandleSyncAssumption

LEMMA DivMod ==
    ASSUME NEW a \in Int, NEW b \in Nat \ {0}
    PROVE  /\ a \div b \in Int /\ a % b \in 0..(b - 1)
           /\ a = (a \div b) * b + (a % b)
OBVIOUS

LEMMA AlignFacts ==
    ASSUME NEW t \in Int
    PROVE  /\ AlignToGrid(t) \in Int /\ AlignToGrid(t) % Tf = 0
           /\ AlignToGrid(t) <= t /\ t < AlignToGrid(t) + Tf
<1> DEFINE k == t \div Tf
           m == t % Tf
<1>1. k \in Int /\ t = k * Tf + m /\ m >= 0 /\ m < Tf /\ m \in Int
  BY TfPositive, DivMod
<1>2. k * Tf \in Int /\ (k * Tf) % Tf = 0
  BY <1>1, TfPositive
<1>3. AlignToGrid(t) = k * Tf
  BY DEF AlignToGrid
<1> HIDE DEF k, m
<1>4. AlignToGrid(t) \in Int /\ t = AlignToGrid(t) + m
  BY <1>1, <1>2, <1>3
<1>5. AlignToGrid(t) <= t /\ t < AlignToGrid(t) + Tf
  BY <1>1, <1>4, TfPositive
<1>6. AlignToGrid(t) % Tf = 0
  BY <1>2, <1>3
<1>7. QED BY <1>4, <1>5, <1>6

(* The quotients of open times are ordered like the times.                 *)
LEMMA QuotientGrows ==
    ASSUME NEW a \in Int, NEW b \in Int, a <= b
    PROVE  a \div Tf \in Int /\ b \div Tf \in Int /\ a \div Tf <= b \div Tf
<1> DEFINE i == a \div Tf
           j == b \div Tf
           m == a % Tf
           n == b % Tf
<1>1. i \in Int /\ a = i * Tf + m /\ m \in Int /\ m >= 0
  BY TfPositive, DivMod
<1>2. j \in Int /\ b = j * Tf + n /\ n \in Int /\ n < Tf
  BY TfPositive, DivMod
<1> HIDE DEF i, j, m, n
<1>3. ASSUME j < i PROVE FALSE
  <2>1. (i - (j + 1)) * Tf >= 0
    BY <1>1, <1>2, <1>3, TfPositive
  <2>2. (i - (j + 1)) * Tf = i * Tf - j * Tf - Tf
    BY <1>1, <1>2, TfPositive
  <2>3. i * Tf \in Int /\ j * Tf \in Int
    BY <1>1, <1>2, TfPositive
  <2>4. QED BY <1>1, <1>2, <2>1, <2>2, <2>3, TfPositive
<1>4. QED BY <1>1, <1>2, <1>3 DEF i, j

(* Two different open times are a candle apart.                            *)
LEMMA CandlesApart ==
    ASSUME NEW a \in Int, NEW b \in Int, a % Tf = 0, b % Tf = 0, a < b
    PROVE  a + Tf <= b /\ a \div Tf < b \div Tf
<1> DEFINE i == a \div Tf
           j == b \div Tf
<1>1. i \in Int /\ j \in Int /\ a = i * Tf /\ b = j * Tf
  BY TfPositive
<1>0. i <= j
  BY QuotientGrows
<1> HIDE DEF i, j
<1>2. i < j
  BY <1>0, <1>1
<1>3. (j - (i + 1)) * Tf >= 0
  BY <1>1, <1>2, TfPositive
<1>4. (j - (i + 1)) * Tf = j * Tf - i * Tf - Tf
  BY <1>1, TfPositive
<1>5. QED BY <1>1, <1>2, <1>3, <1>4, TfPositive DEF i, j

LEMMA AlignIsLargest ==
    ASSUME NEW a \in Int, NEW t \in Int, a % Tf = 0, a <= t
    PROVE  a <= AlignToGrid(t)
<1>1. AlignToGrid(t) \in Int /\ AlignToGrid(t) % Tf = 0 /\ t < AlignToGrid(t) + Tf
  BY AlignFacts
<1>2. AlignToGrid(t) < a => AlignToGrid(t) + Tf <= a
  BY <1>1, CandlesApart
<1>3. QED BY <1>1, <1>2, TfPositive

LEMMA OpensFinite == IsFiniteSet(Opens) /\ \A o \in Opens : o \in Nat /\ o % Tf = 0 /\ o <= MaxMarketTime
<1>1. IsFiniteSet(0..MaxMarketTime)
  BY FS_Interval, CandleSyncAssumption
<1>2. Opens \subseteq 0..MaxMarketTime
  BY DEF Opens
<1>3. QED BY <1>1, <1>2, FS_Subset, CandleSyncAssumption DEF Opens

(* No more open times than quotients: after a and up to b.                 *)
LEMMA CandlesBetween ==
    ASSUME NEW a \in Int, NEW b \in Int, NEW S, S \subseteq Opens,
           \A q \in S : a \div Tf < q \div Tf /\ q <= b, a <= b
    PROVE  /\ IsFiniteSet(S) /\ Cardinality(S) \in Nat
           /\ Cardinality(S) <= (b \div Tf) - (a \div Tf)
<1> DEFINE i == a \div Tf
           j == b \div Tf
           f == [q \in S |-> q \div Tf]
<1>1. i \in Int /\ j \in Int /\ i <= j
  BY QuotientGrows
<1>2. IsFiniteSet(S)
  BY OpensFinite, FS_Subset
<1>3. \A q \in S : q \in Nat /\ q % Tf = 0
  BY OpensFinite
<1>4. \A q \in S : q \div Tf \in Int /\ q \div Tf <= j
  BY <1>3, QuotientGrows
<1>5. f \in [S -> (i + 1)..j]
  BY <1>1, <1>4
<1>6. \A p, q \in S : f[p] = f[q] => p = q
  <2> SUFFICES ASSUME NEW p \in S, NEW q \in S, p # q PROVE p \div Tf # q \div Tf
    OBVIOUS
  <2>1. p \in Int /\ q \in Int /\ p % Tf = 0 /\ q % Tf = 0 /\ (p < q \/ q < p)
    BY <1>3
  <2>2. QED BY <1>4, <2>1, CandlesApart
<1> HIDE DEF f
<1>7. f \in Injection(S, (i + 1)..j)
  BY <1>5, <1>6 DEF Injection, IsInjective
<1> HIDE DEF i, j
<1>8. IsFiniteSet((i + 1)..j) /\ Cardinality((i + 1)..j) = (IF i + 1 > j THEN 0 ELSE j - (i + 1) + 1)
  BY <1>1, FS_Interval
<1>9. Cardinality(S) <= Cardinality((i + 1)..j)
  BY <1>7, <1>8, FS_Injection
<1>10. QED BY <1>1, <1>2, <1>8, <1>9, FS_CardinalityType DEF i, j

(* The quotient of a difference is at least the difference of quotients.   *)
LEMMA QuotientShift ==
    ASSUME NEW a \in Int, NEW b \in Int, a % Tf = 0
    PROVE  /\ (b \div Tf) \in Int /\ (a \div Tf) \in Int /\ ((b - a) \div Tf) \in Int
           /\ (b \div Tf) - (a \div Tf) <= (b - a) \div Tf
<1> DEFINE c == b - a
           i == a \div Tf
           j == b \div Tf
           k == c \div Tf
           m == c % Tf
           n == b % Tf
<1>0. c \in Int
  OBVIOUS
<1>1. i \in Int /\ a = i * Tf
  BY TfPositive
<1>2. j \in Int /\ b = j * Tf + n /\ n \in Int /\ n >= 0
  BY TfPositive, DivMod
<1> HIDE DEF c
<1>3. k \in Int /\ c = k * Tf + m /\ m \in Int /\ m < Tf
  BY <1>0, TfPositive, DivMod
<1> HIDE DEF i, j, k, m, n
<1>4. ASSUME k < j - i PROVE FALSE
  <2>1. ((j - i) - (k + 1)) * Tf >= 0
    BY <1>1, <1>2, <1>3, <1>4, TfPositive
  <2>2. ((j - i) - (k + 1)) * Tf = j * Tf - i * Tf - k * Tf - Tf
    BY <1>1, <1>2, <1>3, TfPositive
  <2>3. i * Tf \in Int /\ j * Tf \in Int /\ k * Tf \in Int
    BY <1>1, <1>2, <1>3, TfPositive
  <2>4. c = b - a
    BY DEF c
  <2>5. QED BY <1>1, <1>2, <1>3, <2>1, <2>2, <2>3, <2>4, TfPositive
<1>5. j - i <= k
  BY <1>1, <1>2, <1>3, <1>4
<1>6. QED BY <1>1, <1>2, <1>3, <1>5 DEF c, i, j, k

LEMMA GridMoves ==
    ASSUME NEW a \in Int, a % Tf = 0
    PROVE  (a - Tf) % Tf = 0 /\ (a + Tf) % Tf = 0
<1> DEFINE i == a \div Tf
<1>1. i \in Int /\ a = i * Tf
  BY TfPositive
<1> HIDE DEF i
<1>2. a - Tf = (i - 1) * Tf /\ a + Tf = (i + 1) * Tf
  BY <1>1, TfPositive
<1>3. ((i - 1) * Tf) % Tf = 0 /\ ((i + 1) * Tf) % Tf = 0
  BY <1>1, TfPositive
<1>4. QED BY <1>2, <1>3

(* A non-empty set of numbers has a least one.                             *)
LEMMA HasLeast == ASSUME NEW T, T \subseteq Nat, T # {} PROVE \E m \in T : \A k \in T : m <= k
<1> DEFINE R == OpToRel(<, Nat)
<1>1. R = {ss \in Nat \X Nat : ss[1] < ss[2]}
  BY DEF OpToRel
<1>2. IsWellFoundedOn(R, Nat)
  BY NatLessThanWellFounded
<1> HIDE DEF R
<1>3. PICK m \in T : \A y \in T : ~(<<y, m>> \in R)
  BY <1>2, WFMin
<1>4. \A y \in T : ~(y < m)
  BY <1>1, <1>3
<1>5. QED BY <1>3, <1>4

-----------------------------------------------------------------------------
(* The inductive invariant of the run, in parts.                           *)

Gap == [from : Opens, to : Int]
SyncRecord ==
    [at : {"idle", "plan", "fetch", "gate", "SUCCEEDED", "FAILED"},
     mode : {"none", "provisional", "final"}, cutoff : Nat, gaps : SUBSET Gap, pos : Int,
     read : SUBSET Opens, open : SUBSET Opens, failed : BOOLEAN, rejected : BOOLEAN,
     rows : BOOLEAN, blocking : BOOLEAN, warned : BOOLEAN]

(* The cutoff is in the past, so nothing open passes _parse_candle; what   *)
(* was read waits only while there is a gap to store it for.               *)
SyncTyped ==
    /\ market \in 0..MaxMarketTime /\ stored \subseteq Opens /\ unfinished = {}
    /\ ingested \subseteq Opens /\ sync \in SyncRecord
    /\ sync.cutoff <= market /\ sync.open = {}
    /\ sync.gaps = {} => sync.read = {}
    /\ sync.at = "plan" => sync.read = {}

(* A candle the stage owes: it closed before the cutoff.                   *)
Owed(o) == o \in RequiredOpens(sync.mode, sync.cutoff, sync.cutoff) /\ o + Tf <= sync.cutoff
Kept(o) == o \in stored \/ o < market - RetainTicks

(* It lies in a gap, and the fetch has not passed it.                      *)
Ahead(o) ==
    \E g \in sync.gaps : g.from <= o /\ o < g.to /\ (g = FirstGap => sync.pos <= o)

NothingSkipped ==
    (sync.at = "fetch" /\ ~sync.failed /\ ~sync.rejected) =>
       \A o \in Opens : Owed(o) => Kept(o) \/ o \in sync.read \/ Ahead(o)

SyncInv == SyncTyped /\ NothingSkipped /\ StageCloses /\ SilenceMeansCovered

(* The longest runs of missing candles contain every missing candle.       *)
LEMMA GapsCover ==
    ASSUME NEW M, M \subseteq Opens, NEW o \in M
    PROVE  /\ GapsOf(M) \subseteq Gap
           /\ \E g \in GapsOf(M) : g.from <= o /\ o < g.to
<1> DEFINE S == {a \in Opens : a <= o /\ \A x \in Opens : a <= x /\ x <= o => x \in M}
           T == {n \in Nat : \E b \in Opens : /\ n = MaxMarketTime - b /\ o <= b
                                /\ \A x \in Opens : o <= x /\ x <= b => x \in M}
<1>0. \A x \in Opens : x \in Nat /\ x % Tf = 0 /\ x <= MaxMarketTime
  BY OpensFinite
<1>1. MaxMarketTime \in Nat /\ o \in Opens
  BY CandleSyncAssumption
<1>2. S \subseteq Nat /\ o \in S
  BY <1>0, <1>1
<1>3. PICK a \in S : \A y \in S : a <= y
  BY <1>2, HasLeast
<1>4. MaxMarketTime - o \in T
  BY <1>0, <1>1
<1>5. PICK n \in T : \A y \in T : n <= y
  BY <1>4, HasLeast
<1>6. PICK b \in Opens : /\ n = MaxMarketTime - b /\ o <= b
                         /\ \A x \in Opens : o <= x /\ x <= b => x \in M
  BY <1>5
<1>7. a - Tf \notin M
  <2> SUFFICES ASSUME a - Tf \in M PROVE FALSE
    OBVIOUS
  <2>1. \A x \in Opens : a - Tf <= x /\ x <= o => x \in M
    <3> SUFFICES ASSUME NEW x \in Opens, a - Tf <= x, x <= o, x # a - Tf PROVE x \in M
      OBVIOUS
    <3>1. x >= a
      <4>1. a \in Int /\ x \in Int /\ a % Tf = 0 /\ x % Tf = 0
        BY <1>0, <1>3
      <4>2. x < a => x + Tf <= a
        BY <4>1, CandlesApart
      <4>3. QED BY <4>1, <4>2, TfPositive
    <3>2. QED BY <1>3, <3>1
  <2>2. a - Tf \in S
    BY <1>0, <1>1, <1>3, <2>1, TfPositive
  <2>3. QED BY <1>0, <1>3, <2>2, TfPositive
<1>8. b + Tf \notin M
  <2> SUFFICES ASSUME b + Tf \in M PROVE FALSE
    OBVIOUS
  <2>0. b \in Nat /\ b + Tf \in Opens /\ b + Tf <= MaxMarketTime /\ o \in Nat
    BY <1>0, <1>1, TfPositive
  <2>1. \A x \in Opens : o <= x /\ x <= b + Tf => x \in M
    <3> SUFFICES ASSUME NEW x \in Opens, o <= x, x <= b + Tf, x # b + Tf PROVE x \in M
      OBVIOUS
    <3>1. x <= b
      <4>1. b \in Int /\ x \in Int /\ b % Tf = 0 /\ x % Tf = 0
        BY <1>0
      <4>2. b < x => b + Tf <= x
        BY <4>1, CandlesApart
      <4>3. QED BY <4>1, <4>2, TfPositive
    <3>2. QED BY <1>6, <3>1
  <2>2. MaxMarketTime - (b + Tf) \in T
    BY <1>1, <1>6, <2>0, <2>1, TfPositive
  <2>3. QED BY <1>1, <1>5, <1>6, <2>0, <2>2, TfPositive
<1>9. a <= o /\ o <= b /\ a \in Nat /\ b \in Nat /\ o \in Nat
  BY <1>0, <1>1, <1>3, <1>6
<1>10. \A x \in Opens : a <= x /\ x <= b => x \in M
  <2> TAKE x \in Opens
  <2>1. x \in Nat
    BY <1>0
  <2>2. QED BY <1>3, <1>6, <1>9, <2>1
<1>11. a \in M /\ b \in M
  BY <1>1, <1>3, <1>6, <1>9
<1> HIDE DEF S, T
<1>12. [from |-> a, to |-> b + Tf] \in GapsOf(M)
  <2> DEFINE p == <<a, b>>
  <2>1. p \in M \X M /\ p[1] = a /\ p[2] = b
    BY <1>11
  <2>2. p \in {r \in M \X M :
          /\ r[1] <= r[2] /\ r[1] - Tf \notin M /\ r[2] + Tf \notin M
          /\ \A x \in Opens : r[1] <= x /\ x <= r[2] => x \in M}
    BY <1>7, <1>8, <1>9, <1>10, <2>1
  <2>3. QED BY <2>1, <2>2 DEF GapsOf
<1>13. GapsOf(M) \subseteq Gap
  <2> SUFFICES ASSUME NEW p \in M \X M PROVE [from |-> p[1], to |-> p[2] + Tf] \in Gap
    BY DEF GapsOf
  <2>1. p[1] \in Opens /\ p[2] \in Opens /\ p[2] + Tf \in Int
    BY <1>0, TfPositive
  <2>2. QED BY <2>1 DEF Gap
<1>14. QED BY <1>9, <1>12, <1>13, TfPositive

LEMMA FirstGapThere ==
    ASSUME NEW G, G \subseteq Gap, G # {}
    PROVE  (CHOOSE g \in G : \A h \in G : g.from <= h.from) \in G
<1> DEFINE T == {g.from : g \in G}
<1>1. T \subseteq Nat /\ T # {}
  BY OpensFinite DEF Gap
<1>2. PICK m \in T : \A k \in T : m <= k
  BY <1>1, HasLeast
<1>3. PICK g \in G : g.from = m
  BY <1>2
<1>4. \A h \in G : g.from <= h.from
  BY <1>2, <1>3
<1>5. QED BY <1>4

LEMMA StartIsInt == ASSUME NEW G, G \subseteq Gap PROVE StartOf(G) \in Int
<1>1. CASE G = {}
  BY <1>1 DEF StartOf
<1>2. CASE G # {}
  BY <1>2, FirstGapThere, OpensFinite DEF StartOf, Gap
<1>3. QED BY <1>1, <1>2

(* A later look finds every closed trade of an earlier one.                *)
LEMMA RequiredGrows ==
    ASSUME NEW mode, NEW cutoff \in Nat, NEW now \in Nat, cutoff <= now
    PROVE  /\ RequiredOpens(mode, cutoff, cutoff) \subseteq RequiredOpens(mode, cutoff, now)
           /\ RequiredOpens(mode, cutoff, now) \subseteq Opens
<1>1. \A t \in PaperTrades : t.closed \in Nat
  BY CandleSyncAssumption
<1>2. ClosedTrades(cutoff) \subseteq ClosedTrades(now)
  BY <1>1 DEF ClosedTrades
<1>3. QED BY <1>2 DEF RequiredOpens, OpensOf

LEMMA SyncStart == CandleSyncInit => SyncInv
<1> SUFFICES ASSUME CandleSyncInit PROVE SyncInv
  OBVIOUS
<1>1. NoRunYet \in SyncRecord
  BY DEF SyncRecord, NoRunYet
<1>2. SyncTyped
  BY <1>1, CandleSyncAssumption DEF CandleSyncInit, SyncTyped, NoRunYet
<1>3. QED BY <1>2 DEF SyncInv, CandleSyncInit, NoRunYet, NothingSkipped, StageCloses,
             SilenceMeansCovered

(* Time, the retention and other runs never break a promise about a        *)
(* candle, because an expired one is excused.                              *)
LEMMA OthersKeep ==
    ASSUME SyncInv, sync' = sync, market' \in 0..MaxMarketTime, market <= market',
           stored' \subseteq Opens, unfinished' = {}, ingested' \subseteq Opens,
           \A o \in Opens : Kept(o) => Kept(o)'
    PROVE  SyncInv'
<1>1. SyncTyped'
  BY CandleSyncAssumption DEF SyncInv, SyncTyped, SyncRecord
<1>2. \A o : Owed(o)' <=> Owed(o)
  BY DEF Owed
<1>3. \A o : Ahead(o)' <=> Ahead(o)
  BY DEF Ahead, FirstGap
<1>4. NothingSkipped'
  BY <1>2, <1>3 DEF SyncInv, NothingSkipped
<1>5. \A o : o \in RequiredOpens(sync.mode, sync.cutoff, sync.cutoff) => o \in Opens
  BY RequiredGrows DEF SyncInv, SyncTyped, SyncRecord
<1>6. StageCloses'
  BY <1>5 DEF SyncInv, StageCloses, Kept
<1>7. SilenceMeansCovered'
  BY DEF SyncInv, SilenceMeansCovered, Kept
<1>8. QED BY <1>1, <1>4, <1>6, <1>7 DEF SyncInv

LEMMA OthersStep ==
    ASSUME SyncInv, MarketTick \/ RunRetention \/ (\E o \in Opens : OtherRunStores(o))
                    \/ UNCHANGED syncVars
    PROVE  SyncInv'
<1>0. /\ market \in 0..MaxMarketTime /\ stored \subseteq Opens /\ unfinished = {}
      /\ ingested \subseteq Opens /\ MaxMarketTime \in Nat /\ RetainTicks \in Nat
      /\ \A o \in Opens : o \in Nat
  BY CandleSyncAssumption, OpensFinite DEF SyncInv, SyncTyped
<1>1. CASE MarketTick
  <2>1. \A o \in Opens : Kept(o) => Kept(o)'
    BY <1>0, <1>1 DEF Kept, MarketTick
  <2>2. QED BY <1>0, <1>1, <2>1, OthersKeep DEF MarketTick
<1>2. CASE RunRetention
  <2>1. \A o \in Opens : Kept(o) => Kept(o)'
    BY <1>0, <1>2 DEF Kept, RunRetention, Expirable
  <2>2. QED BY <1>0, <1>2, <2>1, OthersKeep DEF RunRetention
<1>3. ASSUME NEW o \in Opens, OtherRunStores(o) PROVE SyncInv'
  <2>1. \A c \in Opens : Kept(c) => Kept(c)'
    BY <1>0, <1>3 DEF Kept, OtherRunStores
  <2>2. QED BY <1>0, <1>3, <2>1, OthersKeep DEF OtherRunStores
<1>4. CASE UNCHANGED syncVars
  <2>1. \A o \in Opens : Kept(o) => Kept(o)'
    BY <1>0, <1>4 DEF Kept, syncVars
  <2>2. QED BY <1>0, <1>4, <2>1, OthersKeep DEF syncVars
<1>5. QED BY <1>1, <1>2, <1>3, <1>4

LEMMA StartSyncKeeps ==
    ASSUME SyncInv, NEW mode \in {"provisional", "final"}, StartSync(mode)
    PROVE  SyncInv'
<1>1. sync' = [at |-> "plan", mode |-> mode, cutoff |-> market, gaps |-> {}, pos |-> 0,
               read |-> {}, open |-> {}, failed |-> FALSE, rejected |-> FALSE, rows |-> FALSE,
               blocking |-> (mode = "final" /\ sync.at = "FAILED"), warned |-> FALSE]
  BY DEF StartSync, NoRunYet
<1>2. market \in Nat
  BY CandleSyncAssumption DEF SyncInv, SyncTyped
<1>3. sync' \in SyncRecord
  BY <1>1, <1>2 DEF SyncRecord
<1>4. SyncTyped'
  <2>1. UNCHANGED <<market, stored, unfinished>> /\ ingested' = {}
    BY DEF StartSync
  <2>2. QED BY <1>1, <1>2, <1>3, <2>1 DEF SyncInv, SyncTyped
<1>5. QED BY <1>1, <1>4 DEF SyncInv, NothingSkipped, StageCloses, SilenceMeansCovered

LEMMA SyncFailsKeeps == ASSUME SyncInv, SyncFails PROVE SyncInv'
<1>1. sync' = [at |-> "FAILED", mode |-> "none", cutoff |-> 0, gaps |-> {}, pos |-> 0,
               read |-> {}, open |-> {}, failed |-> FALSE, rejected |-> FALSE, rows |-> FALSE,
               blocking |-> FALSE, warned |-> FALSE]
  BY DEF SyncFails, NoRunYet
<1>2. sync' \in SyncRecord
  BY <1>1 DEF SyncRecord
<1>3. SyncTyped'
  BY <1>1, <1>2 DEF SyncInv, SyncTyped, SyncFails
<1>4. QED BY <1>1, <1>3 DEF SyncInv, NothingSkipped, StageCloses, SilenceMeansCovered

LEMMA PlanKeeps == ASSUME SyncInv, PlanGaps PROVE SyncInv'
<1> DEFINE missing == RequiredOpens(sync.mode, sync.cutoff, market) \ stored
           gaps == GapsOf(missing)
<1>0. /\ sync \in SyncRecord /\ market \in Nat /\ sync.cutoff \in Nat /\ sync.cutoff <= market
      /\ sync.read = {} /\ sync.at = "plan"
  BY CandleSyncAssumption DEF SyncInv, SyncTyped, SyncRecord, PlanGaps
<1>1. missing \subseteq Opens
  BY <1>0, RequiredGrows
<1>2. sync' = [sync EXCEPT !.at = "fetch", !.gaps = gaps, !.pos = StartOf(gaps)]
  BY DEF PlanGaps
<1>3. gaps \subseteq Gap
  <2>1. CASE missing = {}
    BY <2>1 DEF GapsOf
  <2>2. CASE missing # {}
    <3>1. PICK o : o \in missing
      BY <2>2
    <3>2. QED BY <1>1, <3>1, GapsCover
  <2>3. QED BY <2>1, <2>2
<1>4. \A o \in missing : \E g \in gaps : g.from <= o /\ o < g.to
  BY <1>1, GapsCover
<1> HIDE DEF gaps
<1>5. StartOf(gaps) \in Int
  BY <1>3, StartIsInt
<1>6. sync' = [at |-> "fetch", mode |-> sync.mode, cutoff |-> sync.cutoff, gaps |-> gaps,
               pos |-> StartOf(gaps), read |-> sync.read, open |-> sync.open,
               failed |-> sync.failed, rejected |-> sync.rejected, rows |-> sync.rows,
               blocking |-> sync.blocking, warned |-> sync.warned]
  BY <1>0, <1>2 DEF SyncRecord
<1>7. sync' \in SyncRecord
  BY <1>0, <1>3, <1>5, <1>6 DEF SyncRecord
<1>8. SyncTyped'
  BY <1>0, <1>6, <1>7 DEF SyncInv, SyncTyped, PlanGaps
<1>9. ASSUME NEW o \in Opens, Owed(o)' PROVE Kept(o)' \/ Ahead(o)'
  <2>1. o \in RequiredOpens(sync.mode, sync.cutoff, market)
    BY <1>0, <1>6, <1>9, RequiredGrows DEF Owed
  <2>2. CASE o \in stored
    BY <2>2 DEF Kept, PlanGaps
  <2>3. CASE o \notin stored
    <3>1. PICK g \in gaps : g.from <= o /\ o < g.to
      BY <1>4, <2>1, <2>3
    <3>2. g = FirstGap' => sync'.pos = g.from
      BY <1>6, <3>1 DEF FirstGap, StartOf
    <3>3. QED BY <1>6, <3>1, <3>2 DEF Ahead
  <2>4. QED BY <2>2, <2>3
<1>10. QED BY <1>6, <1>8, <1>9 DEF SyncInv, NothingSkipped, StageCloses, SilenceMeansCovered

(* The answer holds every closed candle of the interval: it fits into it.  *)
LEMMA AnswerIsWhole ==
    ASSUME BatchFits, SyncTyped, BatchEnd \in Int, NEW o \in Opens,
           BatchEnd <= sync.pos + BatchSpan,
           sync.pos <= o, o <= BatchEnd, o + Tf <= sync.cutoff
    PROVE  o \in KlineAnswer
<1> DEFINE there == {q \in Opens : sync.pos <= q /\ q <= BatchEnd /\ q <= market}
           S == {q \in there : q > o}
           limit == LesserOf(ApiLimit, (BatchEnd - sync.pos) \div Tf + 1)
<1>0. /\ sync.pos \in Int /\ sync.cutoff \in Nat /\ market \in Nat /\ sync.cutoff <= market
      /\ o \in Nat /\ o % Tf = 0
      /\ \A q \in Opens : q \in Nat /\ q % Tf = 0
  BY OpensFinite, CandleSyncAssumption DEF SyncTyped, SyncRecord
<1>1. o \in there
  BY <1>0, TfPositive
<1>2. \A q \in S : o \div Tf < q \div Tf /\ q <= BatchEnd
  <2> TAKE q \in S
  <2>1. q \in Int /\ o \in Int /\ o < q /\ q % Tf = 0
    BY <1>0
  <2>2. QED BY <1>0, <2>1, CandlesApart
<1>3. S \subseteq Opens
  OBVIOUS
<1> HIDE DEF S, there, limit
<1>a. o \in Int /\ o % Tf = 0 /\ BatchEnd \in Int /\ o <= BatchEnd
  BY <1>0
<1>4. Cardinality(S) \in Nat /\ Cardinality(S) <= (BatchEnd \div Tf) - (o \div Tf)
  BY <1>a, <1>2, <1>3, CandlesBetween
<1>5. /\ (BatchEnd \div Tf) \in Int /\ (o \div Tf) \in Int /\ ((BatchEnd - o) \div Tf) \in Int
      /\ (BatchEnd \div Tf) - (o \div Tf) <= (BatchEnd - o) \div Tf
  BY <1>a, QuotientShift
<1>6. /\ ((BatchEnd - sync.pos) \div Tf) \in Int
      /\ (BatchEnd - o) \div Tf <= (BatchEnd - sync.pos) \div Tf
  BY <1>0, QuotientGrows
<1>7. (BatchEnd - sync.pos) \div Tf < ApiLimit /\ ApiLimit \in Nat
  <2>1. /\ BatchSpan \in Int /\ BatchSpan \div Tf < ApiLimit /\ ApiLimit \in Nat
        /\ (BatchEnd - sync.pos) \in Int /\ BatchEnd - sync.pos <= BatchSpan
    BY <1>0, CandleSyncAssumption DEF BatchFits
  <2>2. (BatchEnd - sync.pos) \div Tf <= BatchSpan \div Tf /\ BatchSpan \div Tf \in Int
    BY <2>1, QuotientGrows
  <2>3. QED BY <1>6, <2>1, <2>2
<1>8. Cardinality(S) < limit
  BY <1>4, <1>5, <1>6, <1>7 DEF LesserOf, limit
<1>9. Cardinality({q \in there : q > o}) < limit
  BY <1>8 DEF S
<1>10. QED BY <1>1, <1>9 DEF KlineAnswer, there, limit

LEMMA FetchKeeps == ASSUME BatchFits, SyncInv, FetchBatch PROVE SyncInv'
<1>0. /\ SyncTyped /\ sync \in SyncRecord /\ market \in Nat /\ sync.cutoff \in Nat
      /\ sync.cutoff <= market /\ sync.at = "fetch" /\ sync.gaps # {} /\ sync.pos < GapEnd
      /\ sync.gaps \subseteq Gap /\ sync.pos \in Int /\ BatchSpan \in Nat
      /\ UNCHANGED <<market, stored, unfinished, ingested>>
  BY CandleSyncAssumption DEF SyncInv, SyncTyped, SyncRecord, FetchBatch
<1>1. FirstGap \in Gap /\ FirstGap.to \in Int /\ GapEnd \in Int
  <2>1. FirstGap \in Gap
    BY <1>0, FirstGapThere DEF FirstGap
  <2>2. QED BY <1>0, <2>1 DEF Gap, GapEnd, LesserOf
<1>2. BatchEnd \in Int /\ BatchEnd <= sync.pos + BatchSpan
  BY <1>0, <1>1 DEF BatchEnd, LesserOf
<1>3. CASE sync' = [sync EXCEPT !.pos = BatchEnd, !.failed = TRUE]
  <2>1. sync' = [at |-> "fetch", mode |-> sync.mode, cutoff |-> sync.cutoff, gaps |-> sync.gaps,
                 pos |-> BatchEnd, read |-> sync.read, open |-> sync.open,
                 failed |-> TRUE, rejected |-> sync.rejected, rows |-> sync.rows,
                 blocking |-> sync.blocking, warned |-> sync.warned]
    BY <1>0, <1>3 DEF SyncRecord
  <2>2. sync' \in SyncRecord
    BY <1>0, <1>2, <2>1 DEF SyncRecord
  <2>3. SyncTyped'
    BY <1>0, <2>1, <2>2 DEF SyncTyped
  <2>4. QED BY <2>1, <2>3 DEF SyncInv, NothingSkipped, StageCloses, SilenceMeansCovered
<1> DEFINE got == {o \in KlineAnswer : Parsed(o)}
           unclosed == {o \in got : o + Tf > market}
<1>4. CASE sync' = [sync EXCEPT !.pos = BatchEnd, !.read = @ \union got,
                                !.open = @ \union unclosed]
  <2>1. got \subseteq Opens /\ unclosed = {}
    <3>1. KlineAnswer \subseteq Opens
      BY DEF KlineAnswer
    <3>2. \A o \in got : o \in Nat /\ o + Tf <= sync.cutoff
      BY <3>1, OpensFinite DEF Parsed
    <3>3. QED BY <1>0, <3>1, <3>2, TfPositive
  <2> HIDE DEF unclosed
  <2>2. sync' = [at |-> "fetch", mode |-> sync.mode, cutoff |-> sync.cutoff, gaps |-> sync.gaps,
                 pos |-> BatchEnd, read |-> sync.read \union got, open |-> sync.open \union unclosed,
                 failed |-> sync.failed, rejected |-> sync.rejected, rows |-> sync.rows,
                 blocking |-> sync.blocking, warned |-> sync.warned]
    BY <1>0, <1>4 DEF SyncRecord
  <2>3. ASSUME NEW o \in Opens, Ahead(o), Owed(o) PROVE o \in sync'.read \/ Ahead(o)'
    <3>1. PICK g \in sync.gaps : g.from <= o /\ o < g.to /\ (g = FirstGap => sync.pos <= o)
      BY <2>3 DEF Ahead
    <3>2. FirstGap' = FirstGap
      BY <2>2 DEF FirstGap
    <3>3. o \in Nat /\ o + Tf <= sync.cutoff
      BY <2>3, OpensFinite DEF Owed
    <3>4. CASE g # FirstGap \/ BatchEnd <= o
      BY <2>2, <3>1, <3>2, <3>4 DEF Ahead
    <3>5. CASE g = FirstGap /\ o < BatchEnd
      <4>1. o \in KlineAnswer
        BY <1>0, <1>2, <3>1, <3>3, <3>5, AnswerIsWhole
      <4>2. o \in got
        BY <3>3, <4>1 DEF Parsed
      <4>3. QED BY <2>2, <4>2
    <3>6. QED BY <1>2, <3>3, <3>4, <3>5
  <2> HIDE DEF got
  <2>4. sync' \in SyncRecord
    BY <1>0, <1>2, <2>1, <2>2 DEF SyncRecord
  <2>5. SyncTyped'
    BY <1>0, <2>1, <2>2, <2>4 DEF SyncTyped
  <2>6. \A o \in Opens : Owed(o)' => Owed(o)
    BY <2>2 DEF Owed
  <2>7. \A o \in Opens : Kept(o) => Kept(o)'
    BY <1>0 DEF Kept
  <2>8. NothingSkipped'
    <3> SUFFICES ASSUME ~sync.failed, ~sync.rejected, NEW o \in Opens, Owed(o)
                 PROVE  Kept(o)' \/ o \in sync'.read \/ Ahead(o)'
      BY <2>2, <2>6 DEF NothingSkipped
    <3>1. Kept(o) \/ o \in sync.read \/ Ahead(o)
      BY <1>0 DEF SyncInv, NothingSkipped
    <3>2. QED BY <2>2, <2>3, <2>7, <3>1
  <2>9. QED BY <2>2, <2>5, <2>8 DEF SyncInv, StageCloses, SilenceMeansCovered
<1>5. QED BY <1>3, <1>4 DEF FetchBatch

LEMMA StoreKeeps == ASSUME SyncInv, StoreGap PROVE SyncInv'
<1>0. /\ SyncTyped /\ sync \in SyncRecord /\ market \in Nat /\ sync.cutoff \in Nat
      /\ sync.at = "fetch" /\ sync.gaps # {} /\ sync.pos >= GapEnd
      /\ sync.gaps \subseteq Gap /\ sync.pos \in Int /\ sync.open = {} /\ unfinished = {}
      /\ stored \subseteq Opens /\ ingested \subseteq Opens /\ sync.read \subseteq Opens
      /\ market' = market
  BY CandleSyncAssumption DEF SyncInv, SyncTyped, SyncRecord, StoreGap
<1> DEFINE left == sync.gaps \ {FirstGap}
<1>1. PICK rejected \in {{}} \union {{o} : o \in sync.read} :
         /\ stored' = stored \union (sync.read \ rejected)
         /\ unfinished' = (unfinished \ (sync.read \ rejected))
                             \union (sync.open \cap (sync.read \ rejected))
         /\ ingested' = ingested \union (sync.read \ rejected)
         /\ sync' = [sync EXCEPT !.gaps = left, !.pos = StartOf(left),
                                 !.read = {}, !.open = {},
                                 !.rejected = @ \/ rejected # {},
                                 !.rows = @ \/ (sync.read \ rejected) # {}]
  BY DEF StoreGap
<1>2. sync' = [at |-> "fetch", mode |-> sync.mode, cutoff |-> sync.cutoff, gaps |-> left,
               pos |-> StartOf(left), read |-> {}, open |-> {},
               failed |-> sync.failed, rejected |-> sync.rejected \/ rejected # {},
               rows |-> sync.rows \/ (sync.read \ rejected) # {},
               blocking |-> sync.blocking, warned |-> sync.warned]
  BY <1>0, <1>1 DEF SyncRecord
<1>3. left \subseteq Gap /\ StartOf(left) \in Int
  BY <1>0, StartIsInt
<1>4. FirstGap.to \in Int
  <2>1. FirstGap \in Gap
    BY <1>0, FirstGapThere DEF FirstGap
  <2>2. QED BY <2>1 DEF Gap
<1>5. ASSUME NEW o \in Opens, Ahead(o), Owed(o) PROVE Ahead(o)'
  <2>1. PICK g \in sync.gaps : g.from <= o /\ o < g.to /\ (g = FirstGap => sync.pos <= o)
    BY <1>5 DEF Ahead
  <2>2. o \in Nat /\ o + Tf <= sync.cutoff
    BY <1>5, OpensFinite DEF Owed
  <2>3. g # FirstGap
    BY <1>0, <1>4, <2>1, <2>2, TfPositive DEF GapEnd, LesserOf
  <2>4. g \in left
    BY <2>1, <2>3
  <2>5. g = FirstGap' => sync'.pos = g.from
    BY <1>2, <2>4 DEF FirstGap, StartOf
  <2>6. QED BY <1>2, <2>1, <2>4, <2>5 DEF Ahead
<1> HIDE DEF left
<1>6. sync' \in SyncRecord
  <2>1. (sync.rejected \/ rejected # {}) \in BOOLEAN
        /\ (sync.rows \/ (sync.read \ rejected) # {}) \in BOOLEAN
    OBVIOUS
  <2>2. QED BY <1>0, <1>2, <1>3, <2>1 DEF SyncRecord
<1>7. SyncTyped'
  BY <1>0, <1>1, <1>2, <1>6 DEF SyncTyped
<1>8. \A o \in Opens : Owed(o)' => Owed(o)
  BY <1>2 DEF Owed
<1>9. \A o \in Opens : Kept(o) => Kept(o)'
  BY <1>0, <1>1 DEF Kept
<1>10. NothingSkipped'
  <2> SUFFICES ASSUME ~sync.failed, ~sync.rejected, rejected = {}, NEW o \in Opens, Owed(o)
               PROVE  Kept(o)' \/ Ahead(o)'
    BY <1>2, <1>8 DEF NothingSkipped
  <2>1. Kept(o) \/ o \in sync.read \/ Ahead(o)
    BY <1>0 DEF SyncInv, NothingSkipped
  <2>2. o \in sync.read => Kept(o)'
    BY <1>1 DEF Kept
  <2>3. QED BY <1>5, <1>9, <2>1, <2>2
<1>11. QED BY <1>2, <1>7, <1>10 DEF SyncInv, StageCloses, SilenceMeansCovered

LEMMA EndKeeps == ASSUME SyncInv, StageEnds PROVE SyncInv'
<1> DEFINE to == IF sync.failed /\ (sync.mode = "final" \/ ~sync.rows) THEN "FAILED" ELSE "gate"
<1>0. /\ SyncTyped /\ sync \in SyncRecord /\ sync.at = "fetch" /\ sync.gaps = {}
      /\ sync.read = {} /\ UNCHANGED <<market, stored, unfinished, ingested>>
  BY DEF SyncInv, SyncTyped, StageEnds
<1>1. sync' = [at |-> to, mode |-> sync.mode, cutoff |-> sync.cutoff, gaps |-> sync.gaps,
               pos |-> sync.pos, read |-> sync.read, open |-> sync.open,
               failed |-> sync.failed, rejected |-> sync.rejected, rows |-> sync.rows,
               blocking |-> sync.blocking, warned |-> sync.warned]
  BY <1>0 DEF SyncRecord, StageEnds
<1>2. to \in {"gate", "FAILED"}
  OBVIOUS
<1> HIDE DEF to
<1>3. sync' \in SyncRecord
  BY <1>0, <1>1, <1>2 DEF SyncRecord
<1>4. SyncTyped'
  BY <1>0, <1>1, <1>2, <1>3 DEF SyncTyped
<1>5. \A o : ~Ahead(o)
  BY <1>0 DEF Ahead
<1>6. StageCloses'
  <2> SUFFICES ASSUME ~sync.failed, ~sync.rejected,
                      NEW o \in RequiredOpens(sync.mode, sync.cutoff, sync.cutoff),
                      o + Tf <= sync.cutoff
               PROVE  o \in stored \/ o < market - RetainTicks
    BY <1>0, <1>1 DEF StageCloses
  <2>1. o \in Opens /\ Owed(o)
    BY <1>0, RequiredGrows DEF Owed, SyncTyped, SyncRecord
  <2>2. QED BY <1>0, <1>5, <2>1 DEF SyncInv, NothingSkipped, Kept
<1>7. QED BY <1>1, <1>2, <1>4, <1>6 DEF SyncInv, NothingSkipped, SilenceMeansCovered

(* As many candles as the window has room for: none is missing.            *)
LEMMA CoverageIsWhole ==
    ASSUME NEW c \in Nat, NEW d \in Nat, c <= d, NEW W, NEW K,
           W = OpensOf([from |-> AlignToGrid(c), to |-> AlignToGrid(d)]),
           Cardinality(W \cap K) >= (AlignToGrid(d) - AlignToGrid(c)) \div Tf
    PROVE  W \subseteq K
<1> DEFINE a == AlignToGrid(c)
           b == AlignToGrid(d)
           a1 == a - Tf
           b1 == b - Tf
<1>1. /\ a \in Int /\ b \in Int /\ a % Tf = 0 /\ b % Tf = 0
      /\ a <= c /\ c < a + Tf /\ b <= d
  BY AlignFacts
<1>2. a <= b
  BY <1>1, AlignIsLargest
<1> HIDE DEF a, b
<1>3. a1 \in Int /\ b1 \in Int /\ a1 % Tf = 0 /\ b1 % Tf = 0 /\ a1 <= b1 /\ b1 - a1 = b - a
  BY <1>1, <1>2, GridMoves, TfPositive
<1>4. \A q \in W : q \in Int /\ q % Tf = 0 /\ a <= q /\ q < b
  BY OpensFinite DEF OpensOf, a, b
<1>5. \A q \in W : a1 \div Tf < q \div Tf /\ q <= b1
  <2> TAKE q \in W
  <2>1. q \in Int /\ q % Tf = 0 /\ a1 < q /\ q + Tf <= b
    BY <1>1, <1>4, CandlesApart, TfPositive
  <2>2. a1 \div Tf < q \div Tf
    BY <1>3, <2>1, CandlesApart
  <2>3. QED BY <1>1, <2>1, <2>2, TfPositive
<1>6. W \subseteq Opens
  BY DEF OpensOf
<1> HIDE DEF a1, b1
<1>7. /\ IsFiniteSet(W) /\ Cardinality(W) \in Nat
      /\ Cardinality(W) <= (b1 \div Tf) - (a1 \div Tf)
  BY <1>3, <1>5, <1>6, CandlesBetween
<1>8. /\ (b1 \div Tf) \in Int /\ (a1 \div Tf) \in Int /\ ((b1 - a1) \div Tf) \in Int
      /\ (b1 \div Tf) - (a1 \div Tf) <= (b1 - a1) \div Tf
  BY <1>3, QuotientShift
<1>9. Cardinality(W) <= (b - a) \div Tf /\ ((b - a) \div Tf) \in Int
  BY <1>3, <1>7, <1>8
<1>10. W \cap K \in SUBSET W
  OBVIOUS
<1>11. /\ IsFiniteSet(W \cap K) /\ Cardinality(W \cap K) <= Cardinality(W)
       /\ Cardinality(W) = Cardinality(W \cap K) => W = W \cap K
  BY <1>7, <1>10, FS_Subset
<1>12. Cardinality(W \cap K) \in Nat /\ Cardinality(W \cap K) >= (b - a) \div Tf
  BY <1>11, FS_CardinalityType DEF a, b
<1>13. QED BY <1>7, <1>9, <1>11, <1>12

LEMMA GateKeeps == ASSUME SyncInv, QualityGate PROVE SyncInv'
<1>0. /\ SyncTyped /\ sync \in SyncRecord /\ sync.at = "gate"
      /\ UNCHANGED <<market, stored, unfinished, ingested>>
  BY DEF SyncInv, SyncTyped, QualityGate
<1>1. PICK ohlc \in OhlcAnswers :
        LET passed == SourceTimestampsOk /\ ohlc /\ (PostExitCovered \/ ~sync.blocking)
        IN sync' = [sync EXCEPT !.at = IF passed THEN "SUCCEEDED" ELSE "FAILED",
                                !.warned = ~PostExitCovered]
  BY DEF QualityGate
<1> DEFINE to == IF SourceTimestampsOk /\ ohlc /\ (PostExitCovered \/ ~sync.blocking)
                 THEN "SUCCEEDED" ELSE "FAILED"
           warned == ~PostExitCovered
<1>2. sync' = [sync EXCEPT !.at = to, !.warned = warned]
  BY <1>1
<1>3. to \in {"SUCCEEDED", "FAILED"} /\ warned \in BOOLEAN
  BY DEF PostExitCovered
<1> HIDE DEF to
<1>4. sync' = [at |-> to, mode |-> sync.mode, cutoff |-> sync.cutoff, gaps |-> sync.gaps,
               pos |-> sync.pos, read |-> sync.read, open |-> sync.open,
               failed |-> sync.failed, rejected |-> sync.rejected, rows |-> sync.rows,
               blocking |-> sync.blocking, warned |-> warned]
  BY <1>0, <1>2 DEF SyncRecord
<1> HIDE DEF warned
<1>5. sync' \in SyncRecord
  BY <1>0, <1>3, <1>4 DEF SyncRecord
<1>6. SyncTyped'
  BY <1>0, <1>3, <1>4, <1>5 DEF SyncTyped
<1>7. StageCloses'
  BY <1>0, <1>3, <1>4 DEF SyncInv, StageCloses
<1>8. SilenceMeansCovered'
  <2> SUFFICES ASSUME PostExitCovered, NEW t \in ClosedTrades(sync.cutoff), NEW o \in Opens,
                      AlignToGrid(t.closed) <= o, o + Tf <= t.closed + PostExit
               PROVE  o \in stored
    BY <1>0, <1>4 DEF SilenceMeansCovered, warned
  <2> DEFINE c == t.closed
             d == t.closed + PostExit
             W == OpensOf([from |-> AlignToGrid(c), to |-> AlignToGrid(d)])
  <2>1. c \in Nat /\ d \in Nat /\ c <= d
    BY CandleSyncAssumption DEF ClosedTrades
  <2>2. Cardinality(W \cap stored) >= (AlignToGrid(d) - AlignToGrid(c)) \div Tf
    BY DEF PostExitCovered
  <2>3. o \in W
    <3>1. o \in Int /\ o % Tf = 0 /\ o + Tf \in Int /\ (o + Tf) % Tf = 0
      BY OpensFinite, GridMoves, TfPositive
    <3>2. o + Tf <= AlignToGrid(d)
      BY <2>1, <3>1, AlignIsLargest
    <3>3. AlignToGrid(d) \in Int
      BY <2>1, AlignFacts
    <3>4. QED BY <3>1, <3>2, <3>3, TfPositive DEF OpensOf
  <2> HIDE DEF c, d
  <2>4. W \subseteq stored
    BY <2>1, <2>2, CoverageIsWhole
  <2>5. QED BY <2>3, <2>4
<1>9. QED BY <1>3, <1>4, <1>6, <1>7, <1>8 DEF SyncInv, NothingSkipped

LEMMA SyncStep == ASSUME BatchFits PROVE SyncInv /\ [CandleSyncNext]_syncVars => SyncInv'
BY OthersStep, StartSyncKeeps, SyncFailsKeeps, PlanKeeps, FetchKeeps, StoreKeeps, EndKeeps,
   GateKeeps
DEF CandleSyncNext

(* The inductive invariant of the candle stages.                           *)
THEOREM SyncInvariance == ASSUME BatchFits PROVE CandleSyncSpec => []SyncInv
<1>1. QED BY SyncStart, SyncStep, PTL DEF CandleSyncSpec

(* A candle stage that reports no failure has closed every gap, a run that *)
(* succeeds without a warning has every post-exit candle, and no candle is *)
(* stored before its close: the paged fetch of 8 hours a request, the      *)
(* cutoff and the count of the quality gate leave nothing out              *)
(* (candle_sync.py 112-448, quality.py 117-513).                           *)
THEOREM CandleSafety == ASSUME BatchFits PROVE CandleSyncSpec => []CandleSafe
<1>1. SyncInv => CandleSafe
  <2> SUFFICES ASSUME SyncInv PROVE CandleSafe
    OBVIOUS
  <2>1. CandleSyncTypeOK
    BY DEF SyncInv, SyncTyped, SyncRecord, CandleSyncTypeOK
  <2>2. QED BY <2>1 DEF SyncInv, SyncTyped, CandleSafe, NoUnfinishedCandle
<1>2. QED BY <1>1, SyncInvariance, PTL

-----------------------------------------------------------------------------
(* The budgeted GET.  A logical request, in parts: r is its record, t the  *)
(* time and c the end of the shared cooldown.                              *)

Waited == {"check", "gate", "gated", "token", "ready", "acquire"}
Leaving == {"granted", "prepared"}
Stages == Waited \cup Leaving \cup {"new", "http", "decide", "backoff", "over"}
Unsent == {"NOT_SENT", "REVOKED"}

GetRecord ==
    [at : Stages, deadline : Nat, attempt : Nat, class : Retryable \cup {"none"}, rl : Nat,
     timeouts : Nat, delay : Nat, wake : Nat, cut : BOOLEAN,
     grant : Answers \cup Unsent \cup {"none", "open", "twice"},
     sent : Nat, records : Nat, skips : Nat, ownUntil : Nat]

(* How many attempts were sent and recorded at each place.                 *)
Counted(r) ==
    /\ r.at = "new" => r.attempt = 0 /\ r.sent = 0 /\ r.records = 0
    /\ r.at # "new" => r.attempt >= 1 /\ r.attempt <= Budget
    /\ r.at \in Waited \cup Leaving => r.sent + 1 = r.attempt /\ r.records = r.sent
    /\ r.at = "http" => r.sent = r.attempt /\ r.records + 1 = r.sent
    /\ r.at \in {"decide", "backoff"} => r.sent = r.attempt /\ r.records = r.sent
    /\ r.at = "backoff" => r.attempt < Budget
    /\ r.at = "over" => r.sent \in {r.attempt - 1, r.attempt} /\ r.records = r.sent

(* Who holds a grant, and what closed it.                                  *)
Granted(r) ==
    /\ r.at \in Waited \cup {"new", "backoff"} => r.grant = "none"
    /\ r.at = "granted" => r.grant = "open"
    /\ r.at \in {"prepared", "http"} => r.grant \in {"open", "none"}
    /\ r.at = "decide" => r.grant \in Retryable \cup {"none"} /\ r.class \in Retryable
    /\ r.at = "over" => /\ r.grant \notin {"open", "twice"}
                        /\ r.grant \in Unsent => r.sent < r.attempt
                        /\ r.grant \in Answers => r.sent = r.attempt

(* Its own cooldown is part of the shared one, and is over once it passed  *)
(* the gate.                                                               *)
Cooled(r, t, c) ==
    /\ r.ownUntil <= c
    /\ r.at = "gated" /\ ~r.cut => r.ownUntil <= r.wake
    /\ r.at \in {"token", "ready", "acquire"} \cup Leaving => r.ownUntil <= t

RowKept(q, r, t, c) ==
    r \in GetRecord /\ r.rl <= RlCap(q) /\ Counted(r) /\ Granted(r) /\ Cooled(r, t, c)

(* The retries that the storm guard let pass and has not noted yet.        *)
Armed == {q \in Requests : get[q].attempt > 1 /\ get[q].at \in {"gate", "gated", "token", "ready"}}

BudgetNote == [time : Nat, by : Requests, n : Nat, retry : BOOLEAN]

StormKept ==
    /\ IsFiniteSet(noted) /\ noted \subseteq BudgetNote
    /\ \/ RetryNotes = {} /\ Armed = {}
       \/ Cardinality(RetryNotes) + Cardinality(Armed) <= StormMax + Cardinality(Requests) - 1

BudgetInv ==
    /\ clock \in 0..MaxGetTime /\ cooldown \in 0..(MaxGetTime + Cooldown) /\ token \in Int
    /\ DOMAIN get = Requests
    /\ \A q \in Requests : RowKept(q, get[q], clock, cooldown)
    /\ StormKept

LEMMA BudgetFacts ==
    /\ Budget \in Nat /\ Budget >= 1 /\ Budget <= 3
    /\ \A q \in Requests : RlCap(q) \in Nat
    /\ IsFiniteSet(Requests) /\ Cardinality(Requests) \in Nat
    /\ {RetryDeadline, HttpTimeout, Cooldown, GateWait, MaxDelay, MaxGetTime, StormMax,
        RateLimitBase, TimeoutBase, TokenInterval} \subseteq Nat
<1>1. Budget \in Nat /\ Budget >= 1 /\ Budget <= 3
  BY BudgetAssumption DEF Budget, HigherOf, LowerOf, HardMax
<1>2. ASSUME NEW q \in Requests PROVE RlCap(q) \in Nat
  BY BudgetAssumption DEF RlCap, LowerOf
<1>3. QED BY <1>1, <1>2, BudgetAssumption, FS_CardinalityType

(* A step of one request that keeps its own row.                           *)
LEMMA GetRowStep ==
    ASSUME BudgetInv, NEW q \in Requests, NEW r, get' = [get EXCEPT ![q] = r], clock' = clock,
           cooldown' \in 0..(MaxGetTime + Cooldown), cooldown <= cooldown', token' \in Int,
           RowKept(q, r, clock, cooldown'), StormKept'
    PROVE  BudgetInv'
<1>1. DOMAIN get' = Requests /\ get'[q] = r /\ \A p \in Requests \ {q} : get'[p] = get[p]
  BY DEF BudgetInv
<1>2. ASSUME NEW p \in Requests \ {q} PROVE RowKept(p, get[p], clock, cooldown')
  <2>1. RowKept(p, get[p], clock, cooldown)
    BY DEF BudgetInv
  <2>2. Cooled(get[p], clock, cooldown')
    BY <2>1, BudgetFacts DEF RowKept, Cooled, BudgetInv, GetRecord
  <2>3. QED BY <2>1, <2>2 DEF RowKept
<1>3. \A p \in Requests : RowKept(p, get'[p], clock', cooldown')
  BY <1>1, <1>2
<1>4. QED BY <1>1, <1>3 DEF BudgetInv

LEMMA ArmedFinite == /\ IsFiniteSet(Armed) /\ Cardinality(Armed) \in Nat
                     /\ Cardinality(Armed) <= Cardinality(Requests)
<1>1. Armed \in SUBSET Requests
  BY DEF Armed
<1>2. QED BY <1>1, BudgetFacts, FS_Subset, FS_CardinalityType

(* Nothing is armed that was not, and nothing noted.                       *)
LEMMA StormQuiet ==
    ASSUME BudgetInv, NEW q \in Requests, NEW r, get' = [get EXCEPT ![q] = r], noted' = noted,
           r.attempt > 1 /\ r.at \in {"gate", "gated", "token", "ready"} => q \in Armed
    PROVE  StormKept'
<1>1. get'[q] = r /\ \A p \in Requests \ {q} : get'[p] = get[p]
  BY DEF BudgetInv
<1>2. Armed' \in SUBSET Armed
  BY <1>1 DEF Armed
<1>3. RetryNotes' = RetryNotes /\ IsFiniteSet(noted) /\ noted \subseteq BudgetNote
  BY DEF RetryNotes, BudgetInv, StormKept
<1>4. RetryNotes \in SUBSET noted
  BY DEF RetryNotes
<1>5. /\ Cardinality(Armed') \in Nat /\ Cardinality(Armed') <= Cardinality(Armed)
      /\ Cardinality(RetryNotes) \in Nat
  BY <1>2, <1>3, <1>4, ArmedFinite, FS_Subset, FS_CardinalityType
<1>6. Armed = {} => Armed' = {}
  BY <1>2
<1>7. QED BY <1>3, <1>5, <1>6, ArmedFinite, BudgetFacts DEF BudgetInv, StormKept

(* The row of a request before its step.                                   *)
LEMMA RowOf ==
    ASSUME BudgetInv, NEW q \in Requests
    PROVE  /\ get[q] \in GetRecord /\ get[q].rl <= RlCap(q) /\ RlCap(q) \in Nat
           /\ Counted(get[q]) /\ Granted(get[q]) /\ Cooled(get[q], clock, cooldown)
           /\ clock \in Nat /\ cooldown \in Nat /\ clock <= MaxGetTime
           /\ cooldown \in 0..(MaxGetTime + Cooldown) /\ token \in Int
BY BudgetFacts DEF BudgetInv, RowKept

LEMMA MoveForm ==
    ASSUME NEW r \in GetRecord, NEW w \in Stages, NEW s, s = [r EXCEPT !.at = w]
    PROVE  /\ s \in GetRecord
           /\ s = [at |-> w, deadline |-> r.deadline, attempt |-> r.attempt,
                   class |-> r.class, rl |-> r.rl, timeouts |-> r.timeouts,
                   delay |-> r.delay, wake |-> r.wake, cut |-> r.cut, grant |-> r.grant,
                   sent |-> r.sent, records |-> r.records, skips |-> r.skips,
                   ownUntil |-> r.ownUntil]
<1>1. s = [at |-> w, deadline |-> r.deadline, attempt |-> r.attempt, class |-> r.class,
           rl |-> r.rl, timeouts |-> r.timeouts, delay |-> r.delay, wake |-> r.wake,
           cut |-> r.cut, grant |-> r.grant, sent |-> r.sent, records |-> r.records,
           skips |-> r.skips, ownUntil |-> r.ownUntil]
  BY DEF GetRecord
<1>2. QED BY <1>1 DEF GetRecord

(* A move to a place where as many attempts were sent and the grant is the *)
(* same.                                                                   *)
LEMMA MoveKeeps ==
    ASSUME BudgetInv, NEW q \in Requests, NEW w \in Stages, GoesTo(q, w),
           clock' = clock, cooldown' = cooldown, token' \in Int, StormKept',
           \/ get[q].at \in Waited /\ w \in Waited
           \/ get[q].at \in Waited /\ w = "prepared"
           \/ get[q].at = "granted" /\ w = "prepared",
           w = "gated" => get[q].cut,
           (w \in {"token", "ready", "acquire"} \cup Leaving) => get[q].ownUntil <= clock
    PROVE  BudgetInv'
<1> DEFINE r == get[q]
<1>0. /\ r \in GetRecord /\ r.rl <= RlCap(q) /\ RlCap(q) \in Nat
      /\ Counted(r) /\ Granted(r) /\ Cooled(r, clock, cooldown)
      /\ cooldown \in 0..(MaxGetTime + Cooldown)
  BY RowOf
<1> HIDE DEF r
<1>1. PICK s : s = [r EXCEPT !.at = w]
  OBVIOUS
<1>2. /\ s \in GetRecord
      /\ s = [at |-> w, deadline |-> r.deadline, attempt |-> r.attempt, class |-> r.class,
              rl |-> r.rl, timeouts |-> r.timeouts, delay |-> r.delay, wake |-> r.wake,
              cut |-> r.cut, grant |-> r.grant, sent |-> r.sent, records |-> r.records,
              skips |-> r.skips, ownUntil |-> r.ownUntil]
  BY <1>0, <1>1, MoveForm
<1>3. Counted(s)
  BY <1>0, <1>2 DEF Counted, Waited, Leaving, r
<1>4. Granted(s)
  BY <1>0, <1>2 DEF Granted, Waited, Leaving, Unsent, Answers, Retryable, r
<1>5. Cooled(s, clock, cooldown)
  BY <1>0, <1>2 DEF Cooled, Waited, Leaving, r
<1>6. RowKept(q, s, clock, cooldown')
  BY <1>0, <1>2, <1>3, <1>4, <1>5 DEF RowKept
<1>7. get' = [get EXCEPT ![q] = s]
  BY <1>1 DEF GoesTo, Becomes, r
<1>8. cooldown' \in 0..(MaxGetTime + Cooldown) /\ cooldown <= cooldown'
  BY <1>0, BudgetFacts
<1>9. QED BY <1>6, <1>7, <1>8, GetRowStep

(* A step of one request that notes nothing and arms nothing.              *)
LEMMA RowTurns ==
    ASSUME BudgetInv, NEW q \in Requests, NEW s, get' = [get EXCEPT ![q] = s],
           clock' = clock, noted' = noted, token' \in Int,
           cooldown' \in 0..(MaxGetTime + Cooldown), cooldown <= cooldown',
           RowKept(q, s, clock, cooldown'),
           s.attempt > 1 /\ s.at \in {"gate", "gated", "token", "ready"} => q \in Armed
    PROVE  BudgetInv'
<1>1. StormKept'
  BY StormQuiet
<1>2. QED BY <1>1, GetRowStep

(* The ways out before the answer.                                         *)
LEMMA LeaveKeeps ==
    ASSUME BudgetInv, NEW q \in Requests, get[q].at \in Waited \cup Leaving,
           NEW g \in Unsent \cup {"none"}, NEW n \in Nat,
           get' = [get EXCEPT ![q] = [get[q] EXCEPT !.at = "over", !.skips = n, !.grant = g]],
           UNCHANGED <<clock, cooldown, token, noted>>
    PROVE  BudgetInv'
<1> DEFINE r == get[q]
<1>0. /\ r \in GetRecord /\ r.rl <= RlCap(q) /\ RlCap(q) \in Nat
      /\ Counted(r) /\ Granted(r) /\ Cooled(r, clock, cooldown)
      /\ clock \in Nat /\ cooldown \in Nat /\ token \in Int
      /\ cooldown \in 0..(MaxGetTime + Cooldown) /\ r.at \in Waited \cup Leaving
  BY RowOf
<1>1. PICK s : s = [r EXCEPT !.at = "over", !.skips = n, !.grant = g]
  OBVIOUS
<1>2. s = [at |-> "over", deadline |-> r.deadline, attempt |-> r.attempt,
           class |-> r.class, rl |-> r.rl, timeouts |-> r.timeouts, delay |-> r.delay,
           wake |-> r.wake, cut |-> r.cut, grant |-> g, sent |-> r.sent,
           records |-> r.records, skips |-> n, ownUntil |-> r.ownUntil]
  BY <1>0, <1>1 DEF GetRecord
<1>3. s \in GetRecord
  BY <1>0, <1>2 DEF GetRecord, Stages
<1>4. get' = [get EXCEPT ![q] = s]
  BY <1>1
<1> HIDE DEF r
<1>5. Counted(s) /\ Cooled(s, clock, cooldown)
  BY <1>0, <1>2 DEF Counted, Cooled, Waited, Leaving, GetRecord
<1>6. r.sent < r.attempt
  BY <1>0 DEF Counted, GetRecord
<1>7. Granted(s)
  BY <1>2, <1>6 DEF Granted, Unsent, Answers, Retryable, Waited
<1>8. RowKept(q, s, clock, cooldown')
  BY <1>0, <1>2, <1>3, <1>5, <1>7 DEF RowKept
<1>9. cooldown' \in 0..(MaxGetTime + Cooldown) /\ cooldown <= cooldown'
  BY <1>0
<1>10. s.at = "over"
  BY <1>2
<1>11. QED BY <1>0, <1>4, <1>8, <1>9, <1>10, RowTurns

LEMMA RaisedForm ==
    ASSUME NEW r \in GetRecord
    PROVE  GetRaised(r) = [r EXCEPT !.at = "over", !.skips = r.skips, !.grant = r.grant]
<1>1. PICK s : s = GetRaised(r)
  OBVIOUS
<1>2. PICK t : t = [r EXCEPT !.at = "over", !.skips = r.skips, !.grant = r.grant]
  OBVIOUS
<1>3. s = [at |-> "over", deadline |-> r.deadline, attempt |-> r.attempt,
           class |-> r.class, rl |-> r.rl, timeouts |-> r.timeouts, delay |-> r.delay,
           wake |-> r.wake, cut |-> r.cut, grant |-> r.grant, sent |-> r.sent,
           records |-> r.records, skips |-> r.skips, ownUntil |-> r.ownUntil]
  BY <1>1 DEF GetRaised, GetRecord
<1>4. t = [at |-> "over", deadline |-> r.deadline, attempt |-> r.attempt,
           class |-> r.class, rl |-> r.rl, timeouts |-> r.timeouts, delay |-> r.delay,
           wake |-> r.wake, cut |-> r.cut, grant |-> r.grant, sent |-> r.sent,
           records |-> r.records, skips |-> r.skips, ownUntil |-> r.ownUntil]
  BY <1>2 DEF GetRecord
<1>5. QED BY <1>1, <1>2, <1>3, <1>4

LEMMA SkippedForm ==
    ASSUME NEW r \in GetRecord, NEW o \in Unsent, r.grant \in {"open", "none"}
    PROVE  \E g \in Unsent \cup {"none"}, n \in Nat :
              Skipped(r, o) = [r EXCEPT !.at = "over", !.skips = n, !.grant = g]
<1> DEFINE g == Close(r.grant, o)
           n == r.skips + 1
<1>0. g \in Unsent \cup {"none"} /\ n \in Nat
  BY DEF Close, GetRecord
<1>1. PICK s : s = Skipped(r, o)
  OBVIOUS
<1>2. PICK t : t = [r EXCEPT !.at = "over", !.skips = n, !.grant = g]
  OBVIOUS
<1>3. s = [at |-> "over", deadline |-> r.deadline, attempt |-> r.attempt,
           class |-> r.class, rl |-> r.rl, timeouts |-> r.timeouts, delay |-> r.delay,
           wake |-> r.wake, cut |-> r.cut, grant |-> g, sent |-> r.sent,
           records |-> r.records, skips |-> n, ownUntil |-> r.ownUntil]
  <2>1. PICK u : u = [r EXCEPT !.skips = @ + 1, !.grant = Close(@, o)]
    OBVIOUS
  <2>2. u = [at |-> r.at, deadline |-> r.deadline, attempt |-> r.attempt,
             class |-> r.class, rl |-> r.rl, timeouts |-> r.timeouts, delay |-> r.delay,
             wake |-> r.wake, cut |-> r.cut, grant |-> g, sent |-> r.sent,
             records |-> r.records, skips |-> n, ownUntil |-> r.ownUntil]
    BY <2>1 DEF GetRecord
  <2>3. s = [u EXCEPT !.at = "over"]
    BY <1>1, <2>1 DEF Skipped, GetRaised
  <2> HIDE DEF n, g
  <2>4. QED BY <2>2, <2>3
<1> HIDE DEF n, g
<1>4. t = [at |-> "over", deadline |-> r.deadline, attempt |-> r.attempt,
           class |-> r.class, rl |-> r.rl, timeouts |-> r.timeouts, delay |-> r.delay,
           wake |-> r.wake, cut |-> r.cut, grant |-> g, sent |-> r.sent,
           records |-> r.records, skips |-> n, ownUntil |-> r.ownUntil]
  BY <1>2 DEF GetRecord
<1>5. Skipped(r, o) = [r EXCEPT !.at = "over", !.skips = n, !.grant = g]
  BY <1>1, <1>2, <1>3, <1>4
<1>6. QED BY <1>0, <1>5

LEMMA RaiseKeeps ==
    ASSUME BudgetInv, NEW q \in Requests, get[q].at \in Waited, Becomes(q, GetRaised(get[q])),
           UNCHANGED <<clock, cooldown, token, noted>>
    PROVE  BudgetInv'
<1>1. get[q] \in GetRecord /\ get[q].grant = "none" /\ get[q].skips \in Nat
  BY RowOf DEF Granted, GetRecord
<1>2. get' = [get EXCEPT ![q] = [get[q] EXCEPT !.at = "over", !.skips = get[q].skips,
                                               !.grant = get[q].grant]]
  BY <1>1, RaisedForm DEF Becomes
<1>3. QED BY <1>1, <1>2, LeaveKeeps

LEMMA SkipKeeps ==
    ASSUME BudgetInv, NEW q \in Requests, get[q].at \in Waited \cup Leaving, NEW o \in Unsent,
           Becomes(q, Skipped(get[q], o)), UNCHANGED <<clock, cooldown, token, noted>>
    PROVE  BudgetInv'
<1>1. get[q] \in GetRecord /\ get[q].grant \in {"open", "none"}
  BY RowOf DEF Granted, Leaving
<1>2. PICK g \in Unsent \cup {"none"}, n \in Nat :
        Skipped(get[q], o) = [get[q] EXCEPT !.at = "over", !.skips = n, !.grant = g]
  BY <1>1, SkippedForm
<1>3. QED BY <1>2, LeaveKeeps DEF Becomes

LEMMA GateKeepsRow ==
    ASSUME BudgetInv, NEW q \in Requests, Gate(q)
    PROVE  BudgetInv'
<1> DEFINE r == get[q]
           wait == LowerOf(cooldown - clock, GateWait)
<1>0. /\ r \in GetRecord /\ r.rl <= RlCap(q) /\ RlCap(q) \in Nat /\ r.at = "gate"
      /\ Counted(r) /\ Granted(r) /\ Cooled(r, clock, cooldown)
      /\ clock \in Nat /\ cooldown \in Nat /\ token \in Int /\ GateWait \in Nat
      /\ cooldown \in 0..(MaxGetTime + Cooldown)
      /\ UNCHANGED <<clock, cooldown, token, noted>>
  BY RowOf, BudgetFacts DEF Gate, At
<1>1. CASE cooldown - clock <= 0 /\ GoesTo(q, "token")
  <2>1. get' = [get EXCEPT ![q] = [get[q] EXCEPT !.at = "token"]]
    BY <1>1 DEF GoesTo, Becomes
  <2>2. [get[q] EXCEPT !.at = "token"] \in GetRecord
        /\ [get[q] EXCEPT !.at = "token"].attempt = r.attempt
    <3>1. PICK s : s = [r EXCEPT !.at = "token"]
      OBVIOUS
    <3>2. s \in GetRecord /\ s.attempt = r.attempt
      BY <1>0, <3>1, MoveForm DEF Stages, Waited
    <3>3. QED BY <3>1, <3>2
  <2>3. r.attempt > 1 => q \in Armed
    BY <1>0 DEF Armed
  <2>4. StormKept'
    BY <1>0, <2>1, <2>2, <2>3, StormQuiet
  <2>5. r.ownUntil <= clock
    BY <1>0, <1>1 DEF Cooled, GetRecord
  <2>6. QED BY <1>0, <1>1, <2>4, <2>5, MoveKeeps DEF Waited, Stages, Leaving
<1>2. CASE Becomes(q, GetRaised(r))
  BY <1>0, <1>2, RaiseKeeps DEF Waited
<1>3. CASE /\ cooldown - clock > 0
           /\ Becomes(q, [r EXCEPT !.at = "gated", !.wake = clock + wait,
                                   !.cut = GateWait < cooldown - clock])
  <2>0. wait \in Nat /\ (GateWait < cooldown - clock \/ wait = cooldown - clock)
    BY <1>0, <1>3 DEF LowerOf
  <2> HIDE DEF wait
  <2>1. PICK s : s = [r EXCEPT !.at = "gated", !.wake = clock + wait,
                               !.cut = GateWait < cooldown - clock]
    OBVIOUS
  <2>2. s = [at |-> "gated", deadline |-> r.deadline, attempt |-> r.attempt,
             class |-> r.class, rl |-> r.rl, timeouts |-> r.timeouts, delay |-> r.delay,
             wake |-> clock + wait, cut |-> (GateWait < cooldown - clock),
             grant |-> r.grant, sent |-> r.sent, records |-> r.records, skips |-> r.skips,
             ownUntil |-> r.ownUntil]
    BY <1>0, <2>1 DEF GetRecord
  <2>3. s \in GetRecord
    BY <1>0, <2>0, <2>2 DEF GetRecord, Stages, Waited
  <2> HIDE DEF r
  <2>4. Counted(s) /\ Granted(s)
    BY <1>0, <2>2 DEF Counted, Granted, Waited, Leaving, Unsent, Answers, Retryable, GetRecord
  <2>5. Cooled(s, clock, cooldown)
    <3>1. r.ownUntil <= cooldown /\ r.ownUntil \in Nat
      BY <1>0 DEF Cooled, GetRecord
    <3>2. ~s.cut => r.ownUntil <= clock + wait
      <4> SUFFICES ASSUME ~s.cut PROVE r.ownUntil <= clock + wait
        OBVIOUS
      <4>1. s.cut = (GateWait < cooldown - clock)
        BY <2>2
      <4>2. wait = cooldown - clock
        BY <2>0, <4>1
      <4>3. QED BY <1>0, <3>1, <4>2
    <3>3. QED BY <2>2, <3>1, <3>2 DEF Cooled, Leaving
  <2>6. get' = [get EXCEPT ![q] = s]
    BY <1>3, <2>1 DEF Becomes
  <2>7. s.attempt > 1 => q \in Armed
    BY <1>0, <2>2 DEF Armed, r
  <2>8. StormKept'
    BY <1>0, <2>6, <2>7, StormQuiet
  <2>9. RowKept(q, s, clock, cooldown')
    BY <1>0, <2>2, <2>3, <2>4, <2>5 DEF RowKept
  <2>10. cooldown' \in 0..(MaxGetTime + Cooldown) /\ cooldown <= cooldown'
    BY <1>0
  <2>11. QED BY <1>0, <2>6, <2>8, <2>9, <2>10, GetRowStep
<1>4. QED BY <1>1, <1>2, <1>3 DEF Gate

LEMMA EnterKeeps == ASSUME BudgetInv, NEW q \in Requests, EnterRequest(q) PROVE BudgetInv'
<1>0. /\ clock \in Nat /\ cooldown \in Nat /\ token \in Int /\ RlCap(q) \in Nat
      /\ cooldown \in 0..(MaxGetTime + Cooldown)
      /\ UNCHANGED <<clock, cooldown, token, noted>>
  BY RowOf DEF EnterRequest
<1>1. PICK s : s = [NewGet EXCEPT !.at = "gate", !.attempt = 1,
                                  !.deadline = clock + RetryDeadline]
  OBVIOUS
<1>2. s = [at |-> "gate", deadline |-> clock + RetryDeadline, attempt |-> 1, class |-> "none",
           rl |-> 0, timeouts |-> 0, delay |-> 0, wake |-> 0, cut |-> FALSE, grant |-> "none",
           sent |-> 0, records |-> 0, skips |-> 0, ownUntil |-> 0]
  BY <1>1 DEF NewGet
<1>3. s \in GetRecord
  BY <1>0, <1>2, BudgetFacts DEF GetRecord, Stages, Waited
<1>4. Counted(s) /\ Granted(s) /\ Cooled(s, clock, cooldown)
  BY <1>0, <1>2, BudgetFacts DEF Counted, Granted, Cooled, Waited, Leaving
<1>5. RowKept(q, s, clock, cooldown')
  BY <1>0, <1>2, <1>3, <1>4 DEF RowKept
<1>6. get' = [get EXCEPT ![q] = s]
  BY <1>1 DEF EnterRequest, Becomes
<1>7. cooldown' \in 0..(MaxGetTime + Cooldown) /\ cooldown <= cooldown' /\ ~(s.attempt > 1)
  BY <1>0, <1>2
<1>8. QED BY <1>0, <1>5, <1>6, <1>7, RowTurns

(* The cap may be passed by the retries already past the check: one of     *)
(* each thread.                                                            *)
LEMMA CheckKeeps == ASSUME BudgetInv, NEW q \in Requests, CheckRetry(q) PROVE BudgetInv'
<1>0. /\ get[q] \in GetRecord /\ get[q].at = "check" /\ clock \in Nat /\ cooldown \in Nat
      /\ token \in Int /\ Cooled(get[q], clock, cooldown)
      /\ UNCHANGED <<clock, cooldown, token, noted>>
  BY RowOf DEF CheckRetry, At
<1>1. CASE Becomes(q, GetRaised(get[q]))
  BY <1>0, <1>1, RaiseKeeps DEF Waited
<1>2. CASE AllowRetry /\ GoesTo(q, "gate")
  <2>1. IsFiniteSet(noted) /\ noted \subseteq BudgetNote /\ RetryNotes \in SUBSET noted
    BY DEF BudgetInv, StormKept, RetryNotes
  <2>2. Cardinality(RetryNotes) \in Nat /\ Cardinality(RetryNotes) + 1 <= StormMax
    BY <1>2, <2>1, FS_Subset, FS_CardinalityType DEF AllowRetry
  <2>3. Armed' \in SUBSET Requests
    BY DEF Armed
  <2>4. Cardinality(Armed') \in Nat /\ Cardinality(Armed') <= Cardinality(Requests)
    BY <2>3, BudgetFacts, FS_Subset, FS_CardinalityType
  <2>5. RetryNotes' = RetryNotes /\ noted' = noted
    BY <1>0 DEF RetryNotes
  <2>6. StormKept'
    BY <2>1, <2>2, <2>4, <2>5, BudgetFacts DEF StormKept
  <2>7. QED BY <1>0, <1>2, <2>6, MoveKeeps DEF Waited, Stages, Leaving
<1>3. QED BY <1>1, <1>2 DEF CheckRetry

LEMMA MoveQuiet ==
    ASSUME BudgetInv, NEW q \in Requests, NEW w \in Stages, GoesTo(q, w), noted' = noted,
           w \in {"gate", "gated", "token", "ready"} =>
              get[q].at \in {"gate", "gated", "token", "ready"}
    PROVE  StormKept'
<1>0. get[q] \in GetRecord
  BY RowOf
<1>1. PICK s : s = [get[q] EXCEPT !.at = w]
  OBVIOUS
<1>2. s.attempt = get[q].attempt /\ s.at = w
  BY <1>0, <1>1, MoveForm
<1>3. get' = [get EXCEPT ![q] = s]
  BY <1>1 DEF GoesTo, Becomes
<1>4. s.attempt > 1 /\ s.at \in {"gate", "gated", "token", "ready"} => q \in Armed
  BY <1>2 DEF Armed
<1>5. QED BY <1>3, <1>4, StormQuiet

LEMMA LeaveGateKeeps == ASSUME BudgetInv, NEW q \in Requests, LeaveGate(q) PROVE BudgetInv'
<1>0. /\ get[q] \in GetRecord /\ get[q].at = "gated" /\ clock \in Nat /\ cooldown \in Nat
      /\ token \in Int /\ Cooled(get[q], clock, cooldown)
      /\ UNCHANGED <<clock, cooldown, token, noted>>
  BY RowOf DEF LeaveGate, At
<1>1. CASE Becomes(q, GetRaised(get[q]))
  BY <1>0, <1>1, RaiseKeeps DEF Waited
<1>2. CASE MayPassGate(q) /\ GoesTo(q, "token")
  <2>1. get[q].ownUntil \in Nat /\ get[q].wake \in Nat /\ get[q].cut \in BOOLEAN
    BY <1>0 DEF GetRecord
  <2>2. clock >= get[q].wake
    BY DEF LeaveGate
  <2>3. get[q].ownUntil <= cooldown /\ (~get[q].cut => get[q].ownUntil <= get[q].wake)
    BY <1>0 DEF Cooled
  <2>4. ~get[q].cut \/ cooldown <= clock
    BY <1>2 DEF MayPassGate
  <2>5. get[q].ownUntil <= clock
    BY <1>0, <2>1, <2>2, <2>3, <2>4
  <2>6. StormKept'
    BY <1>0, <1>2, MoveQuiet DEF Stages, Waited
  <2>7. QED BY <1>0, <1>2, <2>5, <2>6, MoveKeeps DEF Waited, Stages, Leaving
<1>3. QED BY <1>1, <1>2 DEF LeaveGate

LEMMA TokenKeeps == ASSUME BudgetInv, NEW q \in Requests, TakeToken(q) PROVE BudgetInv'
<1>0. /\ get[q] \in GetRecord /\ get[q].at = "token" /\ clock \in Nat
      /\ Cooled(get[q], clock, cooldown) /\ GoesTo(q, "ready") /\ token' = clock
      /\ UNCHANGED <<clock, cooldown, noted>>
  BY RowOf DEF TakeToken, At
<1>1. get[q].ownUntil <= clock
  BY <1>0 DEF Cooled
<1>2. StormKept'
  BY <1>0, MoveQuiet DEF Stages, Waited
<1>3. QED BY <1>0, <1>1, <1>2, MoveKeeps DEF Waited, Stages, Leaving

LEMMA NoteKeeps == ASSUME BudgetInv, NEW q \in Requests, NoteAttempt(q) PROVE BudgetInv'
<1> DEFINE r == get[q]
           w == IF SharedLimiter THEN "acquire" ELSE "prepared"
           x == [time |-> clock, by |-> q, n |-> r.attempt, retry |-> r.attempt > 1]
<1>0. /\ r \in GetRecord /\ r.at = "ready" /\ clock \in Nat /\ cooldown \in Nat /\ token \in Int
      /\ Cooled(r, clock, cooldown) /\ UNCHANGED <<clock, cooldown, token>>
  BY RowOf DEF NoteAttempt, At
<1>1. CASE Becomes(q, Skipped(r, "NOT_SENT")) /\ UNCHANGED noted
  BY <1>0, <1>1, SkipKeeps DEF Waited, Unsent
<1>2. CASE GoesTo(q, w) /\ noted' = noted \union {x}
  <2>1. r.ownUntil <= clock
    BY <1>0 DEF Cooled
  <2>2. x \in BudgetNote /\ x.retry = (r.attempt > 1)
    BY <1>0 DEF BudgetNote, GetRecord
  <2>3. IsFiniteSet(noted) /\ noted \subseteq BudgetNote /\ RetryNotes \in SUBSET noted
    BY DEF BudgetInv, StormKept, RetryNotes
  <2>4. IsFiniteSet(RetryNotes) /\ Cardinality(RetryNotes) \in Nat
    BY <2>3, FS_Subset, FS_CardinalityType
  <2>5. IsFiniteSet(noted') /\ noted' \subseteq BudgetNote
    BY <1>2, <2>2, <2>3, FS_AddElement
  <2>6. PICK s : s = [r EXCEPT !.at = w]
    OBVIOUS
  <2>7. s.at = w /\ w \in {"acquire", "prepared"} /\ w \in Stages
    BY <1>0, <2>6, MoveForm DEF Stages, Waited, Leaving
  <2>8. get'[q] = s /\ \A p \in Requests \ {q} : get'[p] = get[p]
    BY <1>2, <2>6 DEF GoesTo, Becomes, BudgetInv
  <2> HIDE DEF x, w
  <2>9. Armed' = Armed \ {q}
    BY <2>7, <2>8 DEF Armed
  <2>10. CASE ~(r.attempt > 1)
    <3>1. RetryNotes' = RetryNotes
      BY <1>2, <2>2, <2>10 DEF RetryNotes
    <3>2. q \notin Armed
      BY <2>10 DEF Armed
    <3>3. StormKept'
      BY <2>5, <2>9, <3>1, <3>2 DEF BudgetInv, StormKept
    <3>4. QED BY <1>0, <1>2, <2>1, <2>7, <3>3, MoveKeeps DEF Waited, Stages, Leaving
  <2>11. CASE r.attempt > 1
    <3>1. RetryNotes' = RetryNotes \union {x}
      BY <1>2, <2>2, <2>11 DEF RetryNotes
    <3>2. q \in Armed
      BY <1>0, <2>11 DEF Armed
    <3>3. Cardinality(RetryNotes') \in Nat
          /\ Cardinality(RetryNotes') <= Cardinality(RetryNotes) + 1
      BY <2>4, <3>1, FS_AddElement
    <3>4. Cardinality(Armed') = Cardinality(Armed) - 1
      BY <2>9, <3>2, ArmedFinite, FS_RemoveElement
    <3>5. StormKept'
      BY <2>4, <2>5, <3>2, <3>3, <3>4, ArmedFinite, BudgetFacts DEF BudgetInv, StormKept
    <3>6. QED BY <1>0, <1>2, <2>1, <2>7, <3>5, MoveKeeps DEF Waited, Stages, Leaving
  <2>12. QED BY <2>10, <2>11
<1>3. QED BY <1>1, <1>2 DEF NoteAttempt

LEMMA AcquireKeeps == ASSUME BudgetInv, NEW q \in Requests, AcquireShared(q) PROVE BudgetInv'
<1> DEFINE r == get[q]
<1>0. /\ r \in GetRecord /\ r.rl <= RlCap(q) /\ RlCap(q) \in Nat /\ r.at = "acquire"
      /\ Counted(r) /\ Granted(r) /\ Cooled(r, clock, cooldown)
      /\ clock \in Nat /\ cooldown \in Nat /\ token \in Int
      /\ cooldown \in 0..(MaxGetTime + Cooldown)
      /\ UNCHANGED <<clock, cooldown, token, noted>>
  BY RowOf DEF AcquireShared, At
<1>1. CASE Becomes(q, Skipped(r, "NOT_SENT"))
  BY <1>0, <1>1, SkipKeeps DEF Waited, Unsent
<1>2. PICK o : o = [r EXCEPT !.grant = "open"]
  OBVIOUS
<1>3. o = [at |-> r.at, deadline |-> r.deadline, attempt |-> r.attempt, class |-> r.class,
           rl |-> r.rl, timeouts |-> r.timeouts, delay |-> r.delay, wake |-> r.wake,
           cut |-> r.cut, grant |-> "open", sent |-> r.sent, records |-> r.records,
           skips |-> r.skips, ownUntil |-> r.ownUntil]
  BY <1>0, <1>2 DEF GetRecord
<1>4. o \in GetRecord
  BY <1>0, <1>3 DEF GetRecord
<1>5. CASE Becomes(q, Skipped(o, "NOT_SENT"))
  <2>1. PICK g \in Unsent \cup {"none"}, n \in Nat :
          Skipped(o, "NOT_SENT") = [o EXCEPT !.at = "over", !.skips = n, !.grant = g]
    BY <1>3, <1>4, SkippedForm DEF Unsent
  <2>2. PICK s : s = [o EXCEPT !.at = "over", !.skips = n, !.grant = g]
    OBVIOUS
  <2>3. PICK t : t = [r EXCEPT !.at = "over", !.skips = n, !.grant = g]
    OBVIOUS
  <2>4. s = [at |-> "over", deadline |-> r.deadline, attempt |-> r.attempt,
             class |-> r.class, rl |-> r.rl, timeouts |-> r.timeouts, delay |-> r.delay,
             wake |-> r.wake, cut |-> r.cut, grant |-> g, sent |-> r.sent,
             records |-> r.records, skips |-> n, ownUntil |-> r.ownUntil]
    BY <1>3, <2>2
  <2>5. t = [at |-> "over", deadline |-> r.deadline, attempt |-> r.attempt,
             class |-> r.class, rl |-> r.rl, timeouts |-> r.timeouts, delay |-> r.delay,
             wake |-> r.wake, cut |-> r.cut, grant |-> g, sent |-> r.sent,
             records |-> r.records, skips |-> n, ownUntil |-> r.ownUntil]
    BY <1>0, <2>3 DEF GetRecord
  <2>6. s = t
    BY <2>4, <2>5
  <2>7. get' = [get EXCEPT ![q] = s]
    BY <1>5, <2>1, <2>2 DEF Becomes
  <2>8. get' = [get EXCEPT ![q] = [get[q] EXCEPT !.at = "over", !.skips = n, !.grant = g]]
    BY <2>3, <2>6, <2>7
  <2>9. QED BY <1>0, <2>8, LeaveKeeps DEF Waited
<1>6. CASE Becomes(q, [o EXCEPT !.at = "granted"])
  <2>1. PICK s : s = [o EXCEPT !.at = "granted"]
    OBVIOUS
  <2>2. s = [at |-> "granted", deadline |-> r.deadline, attempt |-> r.attempt,
             class |-> r.class, rl |-> r.rl, timeouts |-> r.timeouts, delay |-> r.delay,
             wake |-> r.wake, cut |-> r.cut, grant |-> "open", sent |-> r.sent,
             records |-> r.records, skips |-> r.skips, ownUntil |-> r.ownUntil]
    BY <1>3, <2>1
  <2>3. s \in GetRecord
    BY <1>0, <2>2 DEF GetRecord, Stages, Leaving
  <2>4. get' = [get EXCEPT ![q] = s]
    BY <1>6, <2>1 DEF Becomes
  <2> HIDE DEF r
  <2>5. Counted(s) /\ Granted(s) /\ Cooled(s, clock, cooldown)
    BY <1>0, <2>2 DEF Counted, Granted, Cooled, Waited, Leaving
  <2>6. RowKept(q, s, clock, cooldown')
    BY <1>0, <2>2, <2>3, <2>5 DEF RowKept
  <2>7. cooldown' \in 0..(MaxGetTime + Cooldown) /\ cooldown <= cooldown' /\ s.at = "granted"
    BY <1>0, <2>2
  <2>8. QED BY <1>0, <2>4, <2>6, <2>7, RowTurns
<1>7. QED BY <1>1, <1>2, <1>5, <1>6 DEF AcquireShared

LEMMA PrepareKeeps == ASSUME BudgetInv, NEW q \in Requests, PrepareSend(q) PROVE BudgetInv'
<1>0. /\ get[q] \in GetRecord /\ get[q].at = "granted" /\ clock \in Nat
      /\ token \in Int /\ Cooled(get[q], clock, cooldown)
      /\ UNCHANGED <<clock, cooldown, token, noted>>
  BY RowOf DEF PrepareSend, At
<1>1. CASE Becomes(q, Skipped(get[q], "REVOKED"))
  BY <1>0, <1>1, SkipKeeps DEF Leaving, Unsent
<1>2. CASE GoesTo(q, "prepared")
  <2>1. get[q].ownUntil <= clock
    BY <1>0 DEF Cooled, Leaving
  <2>2. StormKept'
    BY <1>0, <1>2, MoveQuiet DEF Stages, Leaving
  <2>3. QED BY <1>0, <1>2, <2>1, <2>2, MoveKeeps DEF Stages, Leaving
<1>3. QED BY <1>1, <1>2 DEF PrepareSend

LEMMA SendKeeps == ASSUME BudgetInv, NEW q \in Requests, Send(q) PROVE BudgetInv'
<1> DEFINE r == get[q]
           until == LowerOf(clock + HttpTimeout, r.deadline)
<1>0. /\ r \in GetRecord /\ r.rl <= RlCap(q) /\ RlCap(q) \in Nat /\ r.at = "prepared"
      /\ Counted(r) /\ Granted(r) /\ Cooled(r, clock, cooldown)
      /\ clock \in Nat /\ cooldown \in Nat /\ token \in Int
      /\ cooldown \in 0..(MaxGetTime + Cooldown)
      /\ UNCHANGED <<clock, cooldown, token, noted>>
  BY RowOf DEF Send, At
<1>1. CASE Becomes(q, Skipped(r, "NOT_SENT"))
  BY <1>0, <1>1, SkipKeeps DEF Leaving, Unsent
<1>2. CASE Becomes(q, [r EXCEPT !.at = "http", !.sent = @ + 1, !.wake = until])
  <2>0. until \in Nat
    BY <1>0, BudgetFacts DEF LowerOf, GetRecord
  <2> HIDE DEF until
  <2>1. PICK s : s = [r EXCEPT !.at = "http", !.sent = @ + 1, !.wake = until]
    OBVIOUS
  <2>2. s = [at |-> "http", deadline |-> r.deadline, attempt |-> r.attempt,
             class |-> r.class, rl |-> r.rl, timeouts |-> r.timeouts, delay |-> r.delay,
             wake |-> until, cut |-> r.cut, grant |-> r.grant, sent |-> r.sent + 1,
             records |-> r.records, skips |-> r.skips, ownUntil |-> r.ownUntil]
    BY <1>0, <2>1 DEF GetRecord
  <2>3. s \in GetRecord
    BY <1>0, <2>0, <2>2 DEF GetRecord, Stages
  <2>4. get' = [get EXCEPT ![q] = s]
    BY <1>2, <2>1 DEF Becomes
  <2> HIDE DEF r
  <2>5. Counted(s) /\ Granted(s) /\ Cooled(s, clock, cooldown)
    BY <1>0, <2>2 DEF Counted, Granted, Cooled, Waited, Leaving, GetRecord
  <2>6. RowKept(q, s, clock, cooldown')
    BY <1>0, <2>2, <2>3, <2>5 DEF RowKept
  <2>7. cooldown' \in 0..(MaxGetTime + Cooldown) /\ cooldown <= cooldown' /\ s.at = "http"
    BY <1>0, <2>2
  <2>8. QED BY <1>0, <2>4, <2>6, <2>7, RowTurns
<1>3. QED BY <1>1, <1>2 DEF Send

LEMMA AnswerKeeps ==
    ASSUME BudgetInv, NEW q \in Requests, NEW a \in Answers, Answer(q, a)
    PROVE  BudgetInv'
<1> DEFINE r == get[q]
           g == Close(r.grant, a)
           n == r.records + 1
           o == [Recorded(r) EXCEPT !.grant = Close(@, a)]
<1>0. /\ r \in GetRecord /\ r.rl <= RlCap(q) /\ RlCap(q) \in Nat /\ r.at = "http"
      /\ Counted(r) /\ Granted(r) /\ Cooled(r, clock, cooldown)
      /\ clock \in Nat /\ cooldown \in Nat /\ token \in Int
      /\ cooldown \in 0..(MaxGetTime + Cooldown)
      /\ UNCHANGED <<clock, cooldown, token, noted>>
  BY RowOf DEF Answer, At
<1>1. PICK t : t = o
  OBVIOUS
<1>2. t = [at |-> r.at, deadline |-> r.deadline, attempt |-> r.attempt, class |-> r.class,
           rl |-> r.rl, timeouts |-> r.timeouts, delay |-> r.delay, wake |-> r.wake,
           cut |-> r.cut, grant |-> g, sent |-> r.sent, records |-> n, skips |-> r.skips,
           ownUntil |-> r.ownUntil]
  <2>1. PICK u : u = Recorded(r)
    OBVIOUS
  <2>2. u = [at |-> r.at, deadline |-> r.deadline, attempt |-> r.attempt,
             class |-> r.class, rl |-> r.rl, timeouts |-> r.timeouts, delay |-> r.delay,
             wake |-> r.wake, cut |-> r.cut, grant |-> r.grant, sent |-> r.sent,
             records |-> n, skips |-> r.skips, ownUntil |-> r.ownUntil]
    BY <1>0, <2>1 DEF GetRecord, Recorded
  <2>3. t = [u EXCEPT !.grant = Close(@, a)]
    BY <1>1, <2>1
  <2> HIDE DEF n
  <2>4. QED BY <2>2, <2>3
<1>3. g \in {a, "none"} /\ n \in Nat /\ n = r.records + 1
  BY <1>0 DEF Close, Granted, GetRecord
<1>4. Becomes(q, IF a \in Retryable THEN [t EXCEPT !.at = "decide", !.class = a]
                 ELSE GetRaised(t))
  BY <1>1 DEF Answer
<1> HIDE DEF r, g, n, o
<1>5. CASE a \in Retryable
  <2>1. PICK s : s = [t EXCEPT !.at = "decide", !.class = a]
    OBVIOUS
  <2>2. s = [at |-> "decide", deadline |-> r.deadline, attempt |-> r.attempt, class |-> a,
             rl |-> r.rl, timeouts |-> r.timeouts, delay |-> r.delay, wake |-> r.wake,
             cut |-> r.cut, grant |-> g, sent |-> r.sent, records |-> n,
             skips |-> r.skips, ownUntil |-> r.ownUntil]
    BY <1>2, <2>1
  <2>3. s \in GetRecord
    BY <1>0, <1>3, <1>5, <2>2 DEF GetRecord, Stages
  <2>4. get' = [get EXCEPT ![q] = s]
    BY <1>4, <1>5, <2>1 DEF Becomes
  <2>5. Counted(s) /\ Cooled(s, clock, cooldown)
    BY <1>0, <1>3, <2>2 DEF Counted, Cooled, Waited, Leaving, GetRecord
  <2>6. Granted(s)
    BY <1>3, <1>5, <2>2 DEF Granted, Waited, Unsent, Answers
  <2>7. RowKept(q, s, clock, cooldown')
    BY <1>0, <2>2, <2>3, <2>5, <2>6 DEF RowKept
  <2>8. cooldown' \in 0..(MaxGetTime + Cooldown) /\ cooldown <= cooldown' /\ s.at = "decide"
    BY <1>0, <2>2
  <2>9. QED BY <1>0, <2>4, <2>7, <2>8, RowTurns
<1>6. CASE a \notin Retryable
  <2>1. PICK s : s = GetRaised(t)
    OBVIOUS
  <2>2. s = [at |-> "over", deadline |-> r.deadline, attempt |-> r.attempt,
             class |-> r.class, rl |-> r.rl, timeouts |-> r.timeouts, delay |-> r.delay,
             wake |-> r.wake, cut |-> r.cut, grant |-> g, sent |-> r.sent, records |-> n,
             skips |-> r.skips, ownUntil |-> r.ownUntil]
    BY <1>2, <2>1 DEF GetRaised
  <2>3. s \in GetRecord
    BY <1>0, <1>3, <2>2 DEF GetRecord, Stages
  <2>4. get' = [get EXCEPT ![q] = s]
    BY <1>4, <1>6, <2>1 DEF Becomes
  <2>5. Counted(s) /\ Cooled(s, clock, cooldown)
    BY <1>0, <1>3, <2>2 DEF Counted, Cooled, Waited, Leaving, GetRecord
  <2>6. Granted(s)
    BY <1>0, <1>3, <2>2 DEF Granted, Waited, Unsent, Answers, Retryable, Counted
  <2>7. RowKept(q, s, clock, cooldown')
    BY <1>0, <2>2, <2>3, <2>5, <2>6 DEF RowKept
  <2>8. cooldown' \in 0..(MaxGetTime + Cooldown) /\ cooldown <= cooldown' /\ s.at = "over"
    BY <1>0, <2>2
  <2>9. QED BY <1>0, <2>4, <2>7, <2>8, RowTurns
<1>7. QED BY <1>5, <1>6

LEMMA DelayFacts ==
    ASSUME NEW r, r.delay \in Nat, NEW d \in Nat
    PROVE  NextDelay(r, d) \in Nat
BY BudgetFacts DEF NextDelay, LowerOf, HigherOf

LEMMA DoublesNat == ASSUME NEW k \in Nat, NEW b \in Nat PROVE b * Doubled(k) \in Nat
<1>1. Doubled(k) \in Nat
  BY DEF Doubled
<1>2. QED BY <1>1

LEMMA RlDelaysNat == ASSUME NEW k \in Nat PROVE RlDelays(k) \subseteq Nat
<1>1. RateLimitBase * Doubled(k) \in Nat
  BY DoublesNat, BudgetFacts
<1>2. QED BY <1>1 DEF RlDelays

(* Asleep before the next attempt.                                         *)
LEMMA SleepKeeps ==
    ASSUME BudgetInv, NEW q \in Requests, get[q].at = "decide",
           NEW rl \in Nat, NEW timeouts \in Nat, NEW until \in Nat, NEW d \in Nat,
           rl <= RlCap(q), get[q].attempt < Budget, until <= cooldown',
           cooldown' \in 0..(MaxGetTime + Cooldown), cooldown <= cooldown',
           UNCHANGED <<clock, token, noted>>, NEW s,
           s = [at |-> "backoff", deadline |-> get[q].deadline,
                attempt |-> get[q].attempt, class |-> get[q].class, rl |-> rl,
                timeouts |-> timeouts, delay |-> d, wake |-> clock + d,
                cut |-> get[q].cut, grant |-> "none", sent |-> get[q].sent,
                records |-> get[q].records, skips |-> get[q].skips, ownUntil |-> until],
           get' = [get EXCEPT ![q] = s]
    PROVE  BudgetInv'
<1> DEFINE r == get[q]
<1>0. /\ r \in GetRecord /\ RlCap(q) \in Nat /\ Counted(r) /\ clock \in Nat /\ token \in Int
      /\ r.at = "decide" /\ r.attempt < Budget
  BY RowOf
<1>1. s = [at |-> "backoff", deadline |-> r.deadline, attempt |-> r.attempt,
           class |-> r.class, rl |-> rl, timeouts |-> timeouts, delay |-> d,
           wake |-> clock + d, cut |-> r.cut, grant |-> "none", sent |-> r.sent,
           records |-> r.records, skips |-> r.skips, ownUntil |-> until]
  OBVIOUS
<1> HIDE DEF r
<1>2. s \in GetRecord
  BY <1>0, <1>1 DEF GetRecord, Stages
<1>3. Counted(s) /\ Granted(s) /\ Cooled(s, clock, cooldown')
  BY <1>0, <1>1 DEF Counted, Granted, Cooled, Waited, Leaving, GetRecord
<1>4. RowKept(q, s, clock, cooldown')
  BY <1>1, <1>2, <1>3 DEF RowKept
<1>5. s.at = "backoff"
  BY <1>1
<1>6. QED BY <1>0, <1>4, <1>5, RowTurns

LEMMA DecideRateLimitKeeps ==
    ASSUME BudgetInv, NEW q \in Requests, DecideRateLimit(q) PROVE BudgetInv'
<1> DEFINE r == get[q]
           until == clock + Cooldown
           o == [get[q] EXCEPT !.ownUntil = clock + Cooldown]
<1>0. /\ r \in GetRecord /\ r.rl <= RlCap(q) /\ RlCap(q) \in Nat /\ r.at = "decide"
      /\ Counted(r) /\ Granted(r) /\ Cooled(r, clock, cooldown)
      /\ clock \in Nat /\ cooldown \in Nat /\ token \in Int /\ clock <= MaxGetTime
      /\ cooldown \in 0..(MaxGetTime + Cooldown)
      /\ UNCHANGED <<clock, token, noted>>
  BY RowOf DEF DecideRateLimit, At
<1>1. /\ until \in Nat /\ until <= cooldown' /\ cooldown <= cooldown'
      /\ cooldown' \in 0..(MaxGetTime + Cooldown)
  BY <1>0, BudgetFacts DEF DecideRateLimit, HigherOf
<1>2. PICK t : t = o
  OBVIOUS
<1>3. \/ (t.attempt >= Budget \/ t.rl >= RlCap(q)) /\ Becomes(q, GetRaised(t))
      \/ /\ t.attempt < Budget /\ t.rl < RlCap(q)
         /\ \E d \in RlDelays(t.rl + 1) : Becomes(q, SleepFor([t EXCEPT !.rl = @ + 1], d))
  BY <1>2 DEF DecideRateLimit
<1> HIDE DEF until
<1>4. t = [at |-> r.at, deadline |-> r.deadline, attempt |-> r.attempt, class |-> r.class,
           rl |-> r.rl, timeouts |-> r.timeouts, delay |-> r.delay, wake |-> r.wake,
           cut |-> r.cut, grant |-> r.grant, sent |-> r.sent, records |-> r.records,
           skips |-> r.skips, ownUntil |-> until]
  BY <1>0, <1>2 DEF GetRecord, until
<1> HIDE DEF r, o
<1>5. CASE Becomes(q, GetRaised(t))
  <2>1. PICK s : s = GetRaised(t)
    OBVIOUS
  <2>2. s = [at |-> "over", deadline |-> r.deadline, attempt |-> r.attempt,
             class |-> r.class, rl |-> r.rl, timeouts |-> r.timeouts, delay |-> r.delay,
             wake |-> r.wake, cut |-> r.cut, grant |-> r.grant, sent |-> r.sent,
             records |-> r.records, skips |-> r.skips, ownUntil |-> until]
    BY <1>4, <2>1 DEF GetRaised
  <2>3. s \in GetRecord
    BY <1>0, <1>1, <2>2 DEF GetRecord, Stages
  <2>4. get' = [get EXCEPT ![q] = s]
    BY <1>5, <2>1 DEF Becomes
  <2>5. Counted(s) /\ Cooled(s, clock, cooldown')
    BY <1>0, <1>1, <2>2 DEF Counted, Cooled, Waited, Leaving, GetRecord
  <2>6. Granted(s)
    BY <1>0, <2>2 DEF Granted, Waited, Unsent, Answers, Retryable, Counted
  <2>7. RowKept(q, s, clock, cooldown')
    BY <1>0, <2>2, <2>3, <2>5, <2>6 DEF RowKept
  <2>8. s.at = "over"
    BY <2>2
  <2>9. QED BY <1>0, <1>1, <2>4, <2>7, <2>8, RowTurns
<1>6. ASSUME NEW d \in RlDelays(t.rl + 1), t.attempt < Budget, t.rl < RlCap(q),
             Becomes(q, SleepFor([t EXCEPT !.rl = @ + 1], d))
      PROVE  BudgetInv'
  <2>1. PICK u : u = [t EXCEPT !.rl = @ + 1]
    OBVIOUS
  <2>2. u = [at |-> r.at, deadline |-> r.deadline, attempt |-> r.attempt,
             class |-> r.class, rl |-> r.rl + 1, timeouts |-> r.timeouts,
             delay |-> r.delay, wake |-> r.wake, cut |-> r.cut, grant |-> r.grant,
             sent |-> r.sent, records |-> r.records, skips |-> r.skips, ownUntil |-> until]
    BY <1>4, <2>1
  <2>3. r.rl + 1 \in Nat /\ r.rl + 1 <= RlCap(q) /\ r.attempt < Budget /\ u.delay \in Nat
        /\ r.timeouts \in Nat
    BY <1>0, <1>4, <1>6, <2>2 DEF GetRecord
  <2>4. d \in Nat
    BY <1>4, <1>6, <2>3, RlDelaysNat
  <2>5. PICK e \in Nat : e = NextDelay(u, d)
    BY <2>3, <2>4, DelayFacts
  <2>6. PICK s : s = SleepFor(u, d)
    OBVIOUS
  <2>7. s = [at |-> "backoff", deadline |-> r.deadline, attempt |-> r.attempt,
             class |-> r.class, rl |-> r.rl + 1, timeouts |-> r.timeouts, delay |-> e,
             wake |-> clock + e, cut |-> r.cut, grant |-> "none", sent |-> r.sent,
             records |-> r.records, skips |-> r.skips, ownUntil |-> until]
    <3>1. s = [u EXCEPT !.at = "backoff", !.delay = e, !.wake = clock + e, !.grant = "none"]
      BY <2>5, <2>6 DEF SleepFor
    <3>2. QED BY <2>2, <3>1
  <2>8. get' = [get EXCEPT ![q] = s]
    BY <1>6, <2>1, <2>6 DEF Becomes
  <2>9. s = [at |-> "backoff", deadline |-> get[q].deadline, attempt |-> get[q].attempt,
             class |-> get[q].class, rl |-> r.rl + 1, timeouts |-> r.timeouts,
             delay |-> e, wake |-> clock + e, cut |-> get[q].cut, grant |-> "none",
             sent |-> get[q].sent, records |-> get[q].records, skips |-> get[q].skips,
             ownUntil |-> until]
    BY <2>7 DEF r
  <2>10. get[q].at = "decide" /\ get[q].attempt < Budget
    BY <1>0, <2>3 DEF r
  <2>11. QED BY <1>0, <1>1, <2>3, <2>8, <2>9, <2>10, SleepKeeps
<1>7. QED BY <1>3, <1>5, <1>6

LEMMA DecideTimeoutKeeps ==
    ASSUME BudgetInv, NEW q \in Requests, DecideTimeout(q) PROVE BudgetInv'
<1> DEFINE r == get[q]
<1>0. /\ r \in GetRecord /\ r.rl <= RlCap(q) /\ RlCap(q) \in Nat /\ r.at = "decide"
      /\ Counted(r) /\ Granted(r) /\ Cooled(r, clock, cooldown)
      /\ clock \in Nat /\ cooldown \in Nat /\ token \in Int
      /\ cooldown \in 0..(MaxGetTime + Cooldown) /\ cooldown' = cooldown
      /\ UNCHANGED <<clock, token, noted>>
  BY RowOf DEF DecideTimeout, At
<1>1. \/ Becomes(q, GetRaised(r))
      \/ r.attempt < Budget
         /\ Becomes(q, SleepFor([r EXCEPT !.timeouts = @ + 1], TimeoutBase * Doubled(r.timeouts + 1)))
  <2>1. r.attempt \in Nat /\ Budget \in Nat
    BY <1>0, BudgetFacts DEF GetRecord
  <2>2. QED BY <2>1 DEF DecideTimeout
<1> HIDE DEF r
<1>2. CASE Becomes(q, GetRaised(r))
  <2>1. PICK s : s = GetRaised(r)
    OBVIOUS
  <2>2. s = [at |-> "over", deadline |-> r.deadline, attempt |-> r.attempt,
             class |-> r.class, rl |-> r.rl, timeouts |-> r.timeouts, delay |-> r.delay,
             wake |-> r.wake, cut |-> r.cut, grant |-> r.grant, sent |-> r.sent,
             records |-> r.records, skips |-> r.skips, ownUntil |-> r.ownUntil]
    BY <1>0, <2>1 DEF GetRaised, GetRecord
  <2>3. s \in GetRecord
    BY <1>0, <2>2 DEF GetRecord, Stages
  <2>4. get' = [get EXCEPT ![q] = s]
    BY <1>2, <2>1 DEF Becomes
  <2>5. Counted(s) /\ Cooled(s, clock, cooldown')
    BY <1>0, <2>2 DEF Counted, Cooled, Waited, Leaving, GetRecord
  <2>6. Granted(s)
    BY <1>0, <2>2 DEF Granted, Waited, Unsent, Answers, Retryable, Counted
  <2>7. RowKept(q, s, clock, cooldown')
    BY <1>0, <2>2, <2>3, <2>5, <2>6 DEF RowKept
  <2>8. s.at = "over" /\ cooldown <= cooldown'
    BY <1>0, <2>2
  <2>9. QED BY <1>0, <2>4, <2>7, <2>8, RowTurns
<1>3. CASE r.attempt < Budget /\ Becomes(q, SleepFor([r EXCEPT !.timeouts = @ + 1],
                                                     TimeoutBase * Doubled(r.timeouts + 1)))
  <2>1. PICK u : u = [r EXCEPT !.timeouts = @ + 1]
    OBVIOUS
  <2>2. u = [at |-> r.at, deadline |-> r.deadline, attempt |-> r.attempt,
             class |-> r.class, rl |-> r.rl, timeouts |-> r.timeouts + 1,
             delay |-> r.delay, wake |-> r.wake, cut |-> r.cut, grant |-> r.grant,
             sent |-> r.sent, records |-> r.records, skips |-> r.skips,
             ownUntil |-> r.ownUntil]
    BY <1>0, <2>1 DEF GetRecord
  <2>3. r.timeouts + 1 \in Nat /\ u.delay \in Nat /\ r.rl \in Nat /\ r.ownUntil \in Nat
        /\ r.ownUntil <= cooldown
    BY <1>0, <2>2 DEF GetRecord, Cooled
  <2>4. PICK d \in Nat : d = TimeoutBase * Doubled(r.timeouts + 1)
    BY <2>3, DoublesNat, BudgetFacts
  <2>5. PICK e \in Nat : e = NextDelay(u, d)
    BY <2>3, <2>4, DelayFacts
  <2>6. PICK s : s = SleepFor(u, d)
    OBVIOUS
  <2>7. s = [at |-> "backoff", deadline |-> r.deadline, attempt |-> r.attempt,
             class |-> r.class, rl |-> r.rl, timeouts |-> r.timeouts + 1, delay |-> e,
             wake |-> clock + e, cut |-> r.cut, grant |-> "none", sent |-> r.sent,
             records |-> r.records, skips |-> r.skips, ownUntil |-> r.ownUntil]
    <3>1. s = [u EXCEPT !.at = "backoff", !.delay = e, !.wake = clock + e, !.grant = "none"]
      BY <2>5, <2>6 DEF SleepFor
    <3>2. QED BY <2>2, <3>1
  <2>8. get' = [get EXCEPT ![q] = s]
    BY <1>3, <2>1, <2>4, <2>6 DEF Becomes
  <2>9. s = [at |-> "backoff", deadline |-> get[q].deadline, attempt |-> get[q].attempt,
             class |-> get[q].class, rl |-> r.rl, timeouts |-> r.timeouts + 1,
             delay |-> e, wake |-> clock + e, cut |-> get[q].cut, grant |-> "none",
             sent |-> get[q].sent, records |-> get[q].records, skips |-> get[q].skips,
             ownUntil |-> r.ownUntil]
    BY <2>7 DEF r
  <2>10. get[q].at = "decide" /\ get[q].attempt < Budget
    BY <1>0, <1>3 DEF r
  <2>11. r.ownUntil <= cooldown' /\ cooldown <= cooldown'
    BY <1>0, <2>3
  <2>12. QED BY <1>0, <2>3, <2>8, <2>9, <2>10, <2>11, SleepKeeps
<1>4. QED BY <1>1, <1>2, <1>3

LEMMA WakeKeeps == ASSUME BudgetInv, NEW q \in Requests, WakeUp(q) PROVE BudgetInv'
<1> DEFINE r == get[q]
<1>0. /\ r \in GetRecord /\ r.rl <= RlCap(q) /\ RlCap(q) \in Nat /\ r.at = "backoff"
      /\ Counted(r) /\ Granted(r) /\ Cooled(r, clock, cooldown)
      /\ clock \in Nat /\ cooldown \in Nat /\ token \in Int
      /\ cooldown \in 0..(MaxGetTime + Cooldown) /\ Budget \in Nat
      /\ UNCHANGED <<clock, cooldown, token, noted>>
  BY RowOf, BudgetFacts DEF WakeUp, At
<1>1. PICK s : s = [r EXCEPT !.at = "check", !.attempt = @ + 1]
  OBVIOUS
<1>2. s = [at |-> "check", deadline |-> r.deadline, attempt |-> r.attempt + 1,
           class |-> r.class, rl |-> r.rl, timeouts |-> r.timeouts, delay |-> r.delay,
           wake |-> r.wake, cut |-> r.cut, grant |-> r.grant, sent |-> r.sent,
           records |-> r.records, skips |-> r.skips, ownUntil |-> r.ownUntil]
  BY <1>0, <1>1 DEF GetRecord
<1>3. s \in GetRecord
  BY <1>0, <1>2 DEF GetRecord, Stages, Waited
<1>4. get' = [get EXCEPT ![q] = s]
  BY <1>1 DEF WakeUp, Becomes
<1> HIDE DEF r
<1>5. Counted(s) /\ Granted(s) /\ Cooled(s, clock, cooldown)
  BY <1>0, <1>2 DEF Counted, Granted, Cooled, Waited, Leaving, GetRecord
<1>6. RowKept(q, s, clock, cooldown')
  BY <1>0, <1>2, <1>3, <1>5 DEF RowKept
<1>7. cooldown' \in 0..(MaxGetTime + Cooldown) /\ cooldown <= cooldown' /\ s.at = "check"
  BY <1>0, <1>2
<1>8. QED BY <1>0, <1>4, <1>6, <1>7, RowTurns

LEMMA GetTickKeeps == ASSUME BudgetInv, ClockTick PROVE BudgetInv'
<1>0. /\ clock' = clock + 1 /\ clock \in Nat /\ clock' \in 0..MaxGetTime
      /\ UNCHANGED <<cooldown, token, get>> /\ noted' \in SUBSET noted
  BY BudgetFacts DEF ClockTick, BudgetInv
<1>1. ASSUME NEW q \in Requests PROVE RowKept(q, get[q], clock', cooldown)
  <2>1. RowKept(q, get[q], clock, cooldown)
    BY DEF BudgetInv
  <2>2. Cooled(get[q], clock', cooldown)
    BY <1>0, <2>1 DEF RowKept, Cooled, GetRecord
  <2>3. QED BY <2>1, <2>2 DEF RowKept
<1>2. IsFiniteSet(noted) /\ noted \subseteq BudgetNote
  BY DEF BudgetInv, StormKept
<1>3. RetryNotes \in SUBSET noted /\ RetryNotes' \in SUBSET RetryNotes /\ Armed' = Armed
  BY <1>0 DEF RetryNotes, Armed
<1>4. IsFiniteSet(RetryNotes) /\ Cardinality(RetryNotes) \in Nat
  BY <1>2, <1>3, FS_Subset, FS_CardinalityType
<1>5. Cardinality(RetryNotes') \in Nat /\ Cardinality(RetryNotes') <= Cardinality(RetryNotes)
  BY <1>3, <1>4, FS_Subset, FS_CardinalityType
<1>6. IsFiniteSet(noted') /\ noted' \subseteq BudgetNote
  BY <1>0, <1>2, FS_Subset
<1>7. StormKept'
  <2>1. CASE RetryNotes = {} /\ Armed = {}
    BY <1>3, <1>6, <2>1 DEF StormKept
  <2>2. CASE Cardinality(RetryNotes) + Cardinality(Armed) <= StormMax + Cardinality(Requests) - 1
    BY <1>3, <1>4, <1>5, <1>6, <2>2, ArmedFinite, BudgetFacts DEF StormKept
  <2>3. QED BY <2>1, <2>2 DEF BudgetInv, StormKept
<1>8. QED BY <1>0, <1>1, <1>7 DEF BudgetInv

LEMMA BudgetStart == BudgetInit => BudgetInv
<1> SUFFICES ASSUME BudgetInit PROVE BudgetInv
  OBVIOUS
<1>1. NewGet \in GetRecord
  BY DEF NewGet, GetRecord, Stages
<1>2. Counted(NewGet) /\ Granted(NewGet) /\ Cooled(NewGet, clock, cooldown)
  BY DEF BudgetInit, NewGet, Counted, Granted, Cooled, Waited, Leaving
<1>3. ASSUME NEW q \in Requests PROVE RowKept(q, get[q], clock, cooldown)
  BY <1>1, <1>2, BudgetFacts DEF BudgetInit, RowKept, NewGet
<1>4. RetryNotes = {} /\ Armed = {} /\ IsFiniteSet(noted) /\ noted = {}
  BY FS_EmptySet DEF BudgetInit, RetryNotes, Armed, NewGet
<1>5. StormKept
  BY <1>4 DEF StormKept
<1>6. QED BY <1>3, <1>5, BudgetFacts DEF BudgetInit, BudgetInv

LEMMA BudgetStep == BudgetInv /\ [BudgetNext]_budgetVars => BudgetInv'
<1>1. ASSUME BudgetInv, UNCHANGED budgetVars PROVE BudgetInv'
  <2>1. RetryNotes' = RetryNotes /\ Armed' = Armed
    BY <1>1 DEF budgetVars, RetryNotes, Armed
  <2>2. StormKept'
    BY <1>1, <2>1 DEF budgetVars, StormKept, BudgetInv
  <2>3. QED BY <1>1, <2>2 DEF budgetVars, BudgetInv
<1>2. QED BY <1>1, GetTickKeeps, EnterKeeps, CheckKeeps, GateKeepsRow, LeaveGateKeeps, TokenKeeps,
             NoteKeeps, AcquireKeeps, PrepareKeeps, SendKeeps, AnswerKeeps,
             DecideRateLimitKeeps, DecideTimeoutKeeps, WakeKeeps
          DEF BudgetNext

(* The inductive invariant of the budgeted GET.                            *)
THEOREM BudgetInvariance == BudgetSpec => []BudgetInv
<1>1. QED BY BudgetStart, BudgetStep, PTL DEF BudgetSpec

LEMMA BudgetImplies ==
    BudgetInv => BudgetTypeOK /\ BudgetKept /\ NothingLeftBehind /\ StormIsBounded
<1> SUFFICES ASSUME BudgetInv
             PROVE  BudgetTypeOK /\ BudgetKept /\ NothingLeftBehind /\ StormIsBounded
  OBVIOUS
<1>1. ASSUME NEW q \in Requests
      PROVE  /\ get[q].attempt \in 0..Budget /\ get[q].rl \in 0..RlCap(q)
             /\ get[q].sent <= get[q].attempt /\ get[q].attempt <= Budget
             /\ get[q].grant # "twice"
             /\ get[q].at = "over" => get[q].grant # "open" /\ get[q].records = get[q].sent
             /\ get[q].grant \in {"NOT_SENT", "REVOKED"} => get[q].sent < get[q].attempt
             /\ get[q].grant \in Answers => get[q].sent = get[q].attempt
  <2>1. PICK r : r = get[q]
    OBVIOUS
  <2>2. /\ r \in GetRecord /\ r.rl <= RlCap(q) /\ RlCap(q) \in Nat /\ Budget \in Nat
        /\ Counted(r) /\ Granted(r)
    BY <2>1, RowOf, BudgetFacts
  <2>3. r.attempt \in 0..Budget /\ r.rl \in 0..RlCap(q) /\ r.sent <= r.attempt
        /\ (r.at = "over" => r.records = r.sent)
    BY <2>2 DEF Counted, GetRecord, Stages
  <2>4. /\ r.grant # "twice" /\ (r.at = "over" => r.grant # "open")
        /\ r.grant \in Unsent => r.sent < r.attempt
        /\ r.grant \in Answers => r.sent = r.attempt
    BY <2>2 DEF Counted, Granted, GetRecord, Stages, Leaving, Unsent, Answers, Retryable
  <2>5. QED BY <2>1, <2>2, <2>3, <2>4 DEF Unsent
<1>2. BudgetTypeOK
  BY <1>1 DEF BudgetTypeOK, BudgetInv, StormKept, BudgetNote
<1>3. BudgetKept /\ NothingLeftBehind
  BY <1>1 DEF BudgetKept, NothingLeftBehind
<1>4. StormIsBounded
  <2>1. IsFiniteSet(noted) /\ RetryNotes \in SUBSET noted
    BY DEF BudgetInv, StormKept, RetryNotes
  <2>2. Cardinality(RetryNotes) \in Nat
    BY <2>1, FS_Subset, FS_CardinalityType
  <2>3. CASE RetryNotes = {}
    BY <2>3, FS_EmptySet, BudgetFacts DEF StormIsBounded, HigherOf
  <2>4. CASE Cardinality(RetryNotes) + Cardinality(Armed) <= StormMax + Cardinality(Requests) - 1
    BY <2>2, <2>4, ArmedFinite, BudgetFacts DEF StormIsBounded, HigherOf
  <2>5. QED BY <2>3, <2>4 DEF BudgetInv, StormKept
<1>5. QED BY <1>2, <1>3, <1>4

LEMMA SameSent ==
    ASSUME BudgetInv, NEW q \in Requests, NEW s, get' = [get EXCEPT ![q] = s],
           s.sent = get[q].sent
    PROVE  SendsInTime
<1>1. \A p \in Requests : get'[p].sent = get[p].sent
  BY DEF BudgetInv
<1>2. \A p \in Requests : get[p].sent \in Nat
  BY RowOf DEF GetRecord
<1>3. QED BY <1>1, <1>2 DEF SendsInTime

LEMMA SentForms ==
    ASSUME NEW r, "sent" \in DOMAIN r
    PROVE  /\ \A w : [r EXCEPT !.at = w].sent = r.sent
           /\ GetRaised(r).sent = r.sent
           /\ \A o : Skipped(r, o).sent = r.sent
           /\ \A d : SleepFor(r, d).sent = r.sent
BY DEF GetRaised, Skipped, SleepFor

(* No step but the send counts an attempt as sent.                         *)
LEMMA OnlySend ==
    ASSUME BudgetInv, NEW q \in Requests,
           \/ EnterRequest(q) \/ CheckRetry(q) \/ Gate(q) \/ LeaveGate(q) \/ TakeToken(q)
           \/ NoteAttempt(q) \/ AcquireShared(q) \/ PrepareSend(q)
           \/ \E a \in Answers : Answer(q, a)
           \/ DecideRateLimit(q) \/ DecideTimeout(q) \/ WakeUp(q)
    PROVE  SendsInTime
<1> DEFINE r == get[q]
<1>0. r \in GetRecord /\ "sent" \in DOMAIN r /\ Counted(r)
  BY RowOf DEF GetRecord
<1>1. SUFFICES \E s : Becomes(q, s) /\ s.sent = get[q].sent
  BY SameSent DEF Becomes
<1>2. CASE EnterRequest(q)
  <2>1. r.sent = 0
    BY <1>0, <1>2 DEF Counted, EnterRequest, At
  <2>2. PICK s : s = [NewGet EXCEPT !.at = "gate", !.attempt = 1,
                                    !.deadline = clock + RetryDeadline]
    OBVIOUS
  <2>3. s.sent = 0
    BY <2>2 DEF NewGet
  <2>4. Becomes(q, s)
    BY <1>2, <2>2 DEF EnterRequest
  <2>5. QED BY <2>1, <2>3, <2>4
<1> HIDE DEF r
<1>3. \A w : GoesTo(q, w) => \E s : Becomes(q, s) /\ s.sent = r.sent
  BY <1>0, SentForms DEF GoesTo, r
<1>4. \A o : Becomes(q, Skipped(get[q], o)) => \E s : Becomes(q, s) /\ s.sent = r.sent
  BY <1>0, SentForms DEF r
<1>5. Becomes(q, GetRaised(get[q])) => \E s : Becomes(q, s) /\ s.sent = r.sent
  BY <1>0, SentForms DEF r
<1>6. CASE CheckRetry(q)
  BY <1>3, <1>5, <1>6 DEF CheckRetry, r
<1>7. CASE Gate(q)
  <2>1. \A w, c : [r EXCEPT !.at = "gated", !.wake = w, !.cut = c].sent = r.sent
    BY <1>0
  <2>2. QED BY <1>3, <1>5, <1>7, <2>1 DEF Gate, r
<1>8. CASE LeaveGate(q)
  BY <1>3, <1>5, <1>8 DEF LeaveGate, r
<1>9. CASE TakeToken(q)
  BY <1>3, <1>9 DEF TakeToken, r
<1>10. CASE NoteAttempt(q)
  BY <1>3, <1>4, <1>10 DEF NoteAttempt, r
<1>11. CASE AcquireShared(q)
  <2>1. PICK o : o = [r EXCEPT !.grant = "open"]
    OBVIOUS
  <2>2. o.sent = r.sent /\ "sent" \in DOMAIN o
    BY <1>0, <2>1
  <2>3. Skipped(o, "NOT_SENT").sent = r.sent /\ [o EXCEPT !.at = "granted"].sent = r.sent
    BY <2>2, SentForms
  <2>4. \/ Becomes(q, Skipped(r, "NOT_SENT")) \/ Becomes(q, Skipped(o, "NOT_SENT"))
        \/ Becomes(q, [o EXCEPT !.at = "granted"])
    BY <1>11, <2>1 DEF AcquireShared, r
  <2>5. QED BY <1>4, <2>3, <2>4 DEF r
<1>12. CASE PrepareSend(q)
  BY <1>3, <1>4, <1>12 DEF PrepareSend, r
<1>13. ASSUME NEW a \in Answers, Answer(q, a)
       PROVE  \E s : Becomes(q, s) /\ s.sent = get[q].sent
  <2>1. PICK o : o = [Recorded(r) EXCEPT !.grant = Close(@, a)]
    OBVIOUS
  <2>2. o.sent = r.sent /\ "sent" \in DOMAIN o
    BY <1>0, <2>1 DEF Recorded
  <2>3. GetRaised(o).sent = r.sent /\ [o EXCEPT !.at = "decide", !.class = a].sent = r.sent
    BY <2>2, SentForms
  <2>4. Becomes(q, GetRaised(o)) \/ Becomes(q, [o EXCEPT !.at = "decide", !.class = a])
    BY <1>13, <2>1 DEF Answer, r
  <2>5. QED BY <2>3, <2>4 DEF r
<1>14. CASE DecideRateLimit(q)
  <2>1. PICK o : o = [r EXCEPT !.ownUntil = clock + Cooldown]
    OBVIOUS
  <2>2. PICK u : u = [o EXCEPT !.rl = @ + 1]
    OBVIOUS
  <2>3. o.sent = r.sent /\ "sent" \in DOMAIN o /\ u.sent = r.sent /\ "sent" \in DOMAIN u
    BY <1>0, <2>1, <2>2
  <2>4. GetRaised(o).sent = r.sent /\ \A d : SleepFor(u, d).sent = r.sent
    BY <2>3, SentForms
  <2>5. Becomes(q, GetRaised(o)) \/ \E d : Becomes(q, SleepFor(u, d))
    BY <1>14, <2>1, <2>2 DEF DecideRateLimit, r
  <2>6. QED BY <2>4, <2>5 DEF r
<1>15. CASE DecideTimeout(q)
  <2>1. PICK u : u = [r EXCEPT !.timeouts = @ + 1]
    OBVIOUS
  <2>2. u.sent = r.sent /\ "sent" \in DOMAIN u
    BY <1>0, <2>1
  <2>3. \A d : SleepFor(u, d).sent = r.sent
    BY <2>2, SentForms
  <2>4. Becomes(q, GetRaised(r)) \/ \E d : Becomes(q, SleepFor(u, d))
    BY <1>15, <2>1 DEF DecideTimeout, r
  <2>5. QED BY <1>5, <2>3, <2>4 DEF r
<1>16. CASE WakeUp(q)
  <2>1. \A a : [r EXCEPT !.at = "check", !.attempt = a].sent = r.sent
    BY <1>0
  <2>2. Becomes(q, [r EXCEPT !.at = "check", !.attempt = r.attempt + 1])
    BY <1>16 DEF WakeUp, r
  <2>3. QED BY <2>1, <2>2 DEF r
<1>17. QED BY <1>2, <1>6, <1>7, <1>8, <1>9, <1>10, <1>11, <1>12, <1>13, <1>14, <1>15, <1>16

(* The send is behind the gate that its own cooldown holds shut, and       *)
(* checks the deadline last.                                               *)
LEMMA SendInTime == ASSUME BudgetInv, NEW q \in Requests, Send(q) PROVE SendsInTime
<1>0. /\ get[q] \in GetRecord /\ get[q].at = "prepared" /\ Cooled(get[q], clock, cooldown)
      /\ clock \in Nat /\ DOMAIN get = Requests
  BY RowOf DEF Send, At, BudgetInv
<1>1. CASE Expired(q)
  <2>1. "sent" \in DOMAIN get[q]
    BY <1>0 DEF GetRecord
  <2>2. Becomes(q, Skipped(get[q], "NOT_SENT")) /\ Skipped(get[q], "NOT_SENT").sent = get[q].sent
    BY <1>1, <2>1, SentForms DEF Send
  <2>3. QED BY <2>2, SameSent DEF Becomes
<1>2. CASE ~Expired(q)
  <2>1. clock < get[q].deadline
    BY <1>0, <1>2 DEF Expired, GetRecord
  <2>2. clock >= get[q].ownUntil
    BY <1>0 DEF Cooled, Leaving, GetRecord
  <2>3. ASSUME NEW p \in Requests, p # q PROVE ~(get'[p].sent > get[p].sent)
    <3>1. get'[p] = get[p]
      BY <1>0, <1>2, <2>3 DEF Send, Becomes
    <3>2. get[p].sent \in Nat
      BY RowOf DEF GetRecord
    <3>3. QED BY <3>1, <3>2
  <2>4. QED BY <2>1, <2>2, <2>3 DEF SendsInTime
<1>3. QED BY <1>1, <1>2

LEMMA BudgetSendsInTime == BudgetInv /\ [BudgetNext]_budgetVars => [SendsInTime]_budgetVars
<1>1. ASSUME BudgetInv, ClockTick PROVE SendsInTime
  <2>1. get' = get /\ \A q \in Requests : get[q].sent \in Nat
    BY <1>1, RowOf DEF ClockTick, GetRecord
  <2>2. QED BY <2>1 DEF SendsInTime
<1>2. QED BY <1>1, OnlySend, SendInTime DEF BudgetNext

(* However many threads share the limiter, the breaker and the storm       *)
(* guard, and whatever each attempt meets: a logical request keeps its     *)
(* budget, gives back every grant with a true outcome, and sends neither   *)
(* after its deadline nor inside the cooldown it opened; the storm cap is  *)
(* passed by one retry of each other thread at most (bybit_client.py,      *)
(* retry_budget.py).                                                       *)
THEOREM BudgetSafety == BudgetSpec => BudgetSafe
<1>1. BudgetInv => BudgetTypeOK /\ BudgetKept /\ NothingLeftBehind /\ StormIsBounded
  BY BudgetImplies
<1>2. BudgetInv /\ [BudgetNext]_budgetVars => [SendsInTime]_budgetVars
  BY BudgetSendsInTime
<1>3. QED BY <1>1, <1>2, BudgetInvariance, PTL DEF BudgetSpec, BudgetSafe

-----------------------------------------------------------------------------
(* The rollback of migration 075.  The catalog, and what a capture holds   *)
(* of it.                                                                  *)
RbAcl == [Objects -> SUBSET Entries]
RbConfig == [SecuredFunctions -> {"INVOKER", "DEFINER"}]
RbCatalog == [acl : RbAcl, config : RbConfig, roles : SUBSET Roles,
              members : SUBSET (Roles \X Roles), ties : SUBSET Roles]
RbCapture == [acl : RbAcl, config : RbConfig, roles : SUBSET Roles,
              members : SUBSET (Roles \X Roles),
              depends : SUBSET (Roles \X (Objects \cup {"outside"})),
              effective : SUBSET (Roles \X Objects \X {"use", "more"})]
RbDraft(d) ==
    /\ d = [acl |-> d.acl, config |-> d.config, dropped |-> d.dropped]
    /\ DOMAIN d.acl \subseteq AuditedObjects
    /\ \A o \in DOMAIN d.acl : d.acl[o] \in SUBSET Entries
    /\ DOMAIN d.config \subseteq SecuredFunctions
    /\ \A f \in DOMAIN d.config : d.config[f] \in {"INVOKER", "DEFINER"}
    /\ d.dropped \in SUBSET PhaseRoles

RollbackTypeOK ==
    /\ catalog \in RbCatalog
    /\ snapFile \in RbCapture /\ sidecar \in RbCapture
    /\ survey = [pos |-> survey.pos, seen |-> survey.seen]
    /\ survey.pos \in 0..(Sections + 2) /\ survey.seen \in RbCapture
    /\ restore = [at |-> restore.at, pos |-> restore.pos, before |-> restore.before,
                  seen |-> restore.seen, draft |-> restore.draft]
    /\ restore.at \in {"idle", "read", "run", "verify"} /\ restore.pos \in 1..(Sections + 1)
    /\ restore.before \in RbCapture /\ restore.seen \in RbCapture
    /\ RbDraft(restore.draft)
    /\ foreign \subseteq Objects \X Entries

(* Memberships are between roles of the same moment: a capture reads both  *)
(* in one section.                                                         *)
OfItsRoles(c) == c.members \subseteq c.roles \X c.roles
MembersAreRoles ==
    /\ OfItsRoles(catalog) /\ OfItsRoles(snapFile) /\ OfItsRoles(survey.seen)
    /\ OfItsRoles(restore.before) /\ OfItsRoles(restore.seen)

(* A grant of another session is in the catalog, and 075 does not make it. *)
ForeignIsForeign ==
    \A g \in foreign :
        /\ g[2] \in catalog.acl[g[1]]
        /\ ~(g[2][2] = "use" /\ <<g[1], g[2][1]>> \in GrantSurface)

ReadBefore(pos) == {ReadOrder[i] : i \in {j \in DOMAIN ReadOrder : j < pos}}

(* What the rollback has read is still so, unless it was disturbed since.  *)
ReadIsCurrent ==
    restore.at \in {"read", "run"} =>
        \A o \in ReadBefore(restore.pos) \ raced : restore.seen.acl[o] = catalog.acl[o]

(* What it read again is what it will commit.                              *)
RereadIsCurrent ==
    restore.at = "verify" =>
        /\ \A o \in ReadBefore(restore.pos) \ late :
               /\ restore.seen.acl[o] = View.acl[o]
               /\ o \in SecuredFunctions => restore.seen.config[o] = View.config[o]
        /\ restore.pos > Len(ReadOrder) + 1 /\ "roles" \notin late =>
               restore.seen.roles = View.roles /\ restore.seen.members = View.members

(* The plan is made from a complete capture that 075 explains.             *)
PlanIsExplained ==
    /\ restore.at = "run" => /\ restore.pos = Sections + 1
                             /\ AclExplained(restore.before, restore.seen)
                             /\ restore.draft.dropped \subseteq RolesToDrop
    /\ restore.at \in {"idle", "read"} => restore.draft = NoDraft

(* The draft keeps the grants of others.                                   *)
DraftKeepsForeign ==
    \A g \in foreign :
        g[1] \in DOMAIN restore.draft.acl \ raced => g[2] \in restore.draft.acl[g[1]]

(* No role to be dropped is a member, has one, or is tied elsewhere.       *)
DroppedAreUnused ==
    /\ restore.at = "run" /\ "roles" \notin raced =>
           \A m \in catalog.members : m[1] \notin RolesToDrop /\ m[2] \notin RolesToDrop
    /\ restore.at = "verify" /\ "roles" \notin raced =>
           \A m \in catalog.members :
               m[1] \notin restore.draft.dropped /\ m[2] \notin restore.draft.dropped
    /\ restore.draft.dropped \cap catalog.ties = {}

RollbackInv ==
    /\ RollbackTypeOK /\ MembersAreRoles /\ ForeignIsForeign
    /\ ReadIsCurrent /\ RereadIsCurrent /\ PlanIsExplained
    /\ DraftKeepsForeign /\ DroppedAreUnused

LEMMA RbUnread == Unread \in RbCapture /\ Unread.members = {} /\ Unread.roles = {}
BY DEF Unread, RbCapture, RbAcl, RbConfig

LEMMA RbLength == Len(ReadOrder) \in Nat /\ DOMAIN ReadOrder = 1..Len(ReadOrder)
                  /\ \A i \in 1..Len(ReadOrder) : ReadOrder[i] \in Objects
BY CaptureIsWhole

LEMMA RbCaptureForm ==
  ASSUME NEW s \in RbCapture
  PROVE  /\ s = [acl |-> s.acl, config |-> s.config, roles |-> s.roles, members |-> s.members,
                 depends |-> s.depends, effective |-> s.effective]
         /\ s.acl \in RbAcl /\ s.config \in RbConfig /\ s.roles \in SUBSET Roles
         /\ s.members \in SUBSET (Roles \X Roles)
         /\ s.depends \in SUBSET (Roles \X (Objects \cup {"outside"}))
         /\ s.effective \in SUBSET (Roles \X Objects \X {"use", "more"})
BY DEF RbCapture

LEMMA RbCatalogForm ==
  ASSUME NEW c \in RbCatalog
  PROVE  /\ c = [acl |-> c.acl, config |-> c.config, roles |-> c.roles, members |-> c.members,
                 ties |-> c.ties]
         /\ c.acl \in RbAcl /\ c.config \in RbConfig /\ c.roles \in SUBSET Roles
         /\ c.members \in SUBSET (Roles \X Roles) /\ c.ties \in SUBSET Roles
BY DEF RbCatalog

(* What one section of a capture writes.                                   *)
LEMMA CapturedObject ==
  ASSUME NEW s \in RbCapture, NEW c, NEW pos \in 1..Len(ReadOrder)
  PROVE  Captured(s, pos, c) =
            [acl |-> [s.acl EXCEPT ![ReadOrder[pos]] = c.acl[ReadOrder[pos]]],
             config |-> [f \in SecuredFunctions |->
                            IF f = ReadOrder[pos] THEN c.config[f] ELSE s.config[f]],
             roles |-> s.roles, members |-> s.members, depends |-> s.depends,
             effective |-> s.effective]
<1> DEFINE o == ReadOrder[pos]
<1>1. Captured(s, pos, c) = [s EXCEPT !.acl[o] = c.acl[o],
                                      !.config = [f \in SecuredFunctions |->
                                                     IF f = o THEN c.config[f] ELSE @[f]]]
  BY RbLength DEF Captured
<1> HIDE DEF o
<1>2. QED BY <1>1, RbCaptureForm DEF o

LEMMA CapturedRoles ==
  ASSUME NEW s \in RbCapture, NEW c
  PROVE  Captured(s, Len(ReadOrder) + 1, c) =
            [acl |-> s.acl, config |-> s.config, roles |-> c.roles, members |-> c.members,
             depends |-> s.depends, effective |-> s.effective]
<1>1. Captured(s, Len(ReadOrder) + 1, c) = [s EXCEPT !.roles = c.roles, !.members = c.members]
  BY RbLength DEF Captured
<1>2. QED BY <1>1, RbCaptureForm

LEMMA CapturedLast ==
  ASSUME NEW s \in RbCapture, NEW c
  PROVE  Captured(s, Len(ReadOrder) + 2, c) =
            [acl |-> s.acl, config |-> s.config, roles |-> s.roles, members |-> s.members,
             depends |-> {d \in Dependencies(c) : d[1] \in s.roles},
             effective |-> Effective(c, s.roles)]
<1> DEFINE dp == {d \in Dependencies(c) : d[1] \in s.roles}
          ef == Effective(c, s.roles)
<1>1. Captured(s, Len(ReadOrder) + 2, c) = [s EXCEPT !.depends = dp, !.effective = ef]
  BY RbLength DEF Captured
<1>2. s = [acl |-> s.acl, config |-> s.config, roles |-> s.roles, members |-> s.members,
           depends |-> s.depends, effective |-> s.effective]
  BY RbCaptureForm
<1> HIDE DEF dp, ef
<1>3. Captured(s, Len(ReadOrder) + 2, c) =
        [acl |-> s.acl, config |-> s.config, roles |-> s.roles, members |-> s.members,
         depends |-> dp, effective |-> ef]
  BY <1>1, <1>2
<1>4. QED BY <1>3 DEF dp, ef

LEMMA CapturedTyped ==
  ASSUME NEW s \in RbCapture, NEW c \in RbCatalog, NEW pos \in 1..Sections,
         OfItsRoles(s), OfItsRoles(c)
  PROVE  Captured(s, pos, c) \in RbCapture /\ OfItsRoles(Captured(s, pos, c))
<1>1. CASE pos \in 1..Len(ReadOrder)
  <2>1. ReadOrder[pos] \in Objects
    BY <1>1, RbLength
  <2>2. [s.acl EXCEPT ![ReadOrder[pos]] = c.acl[ReadOrder[pos]]] \in RbAcl
    BY <2>1, RbCaptureForm, RbCatalogForm DEF RbAcl
  <2>3. [f \in SecuredFunctions |-> IF f = ReadOrder[pos] THEN c.config[f] ELSE s.config[f]]
            \in RbConfig
    BY RbCaptureForm, RbCatalogForm DEF RbConfig
  <2>4. QED BY <1>1, <2>2, <2>3, CapturedObject, RbCaptureForm DEF RbCapture, OfItsRoles
<1>2. CASE pos = Len(ReadOrder) + 1
  <2>1. PICK z : z = Captured(s, pos, c)
    OBVIOUS
  <2>2. z = [acl |-> s.acl, config |-> s.config, roles |-> c.roles, members |-> c.members,
             depends |-> s.depends, effective |-> s.effective]
    BY <1>2, <2>1, CapturedRoles
  <2>3. z \in RbCapture
    BY <2>2, RbCaptureForm, RbCatalogForm DEF RbCapture
  <2>4. QED BY <2>1, <2>2, <2>3 DEF OfItsRoles
<1>3. CASE pos = Len(ReadOrder) + 2
  <2>1. {d \in Dependencies(c) : d[1] \in s.roles} \subseteq Roles \X (Objects \cup {"outside"})
    BY RbCatalogForm DEF Dependencies
  <2>2. Effective(c, s.roles) \subseteq Roles \X Objects \X {"use", "more"}
    BY RbCaptureForm DEF Effective
  <2>3. PICK z : z = Captured(s, pos, c)
    OBVIOUS
  <2>4. PICK dp, ef : dp = {d \in Dependencies(c) : d[1] \in s.roles} /\ ef = Effective(c, s.roles)
    OBVIOUS
  <2>5. z = [acl |-> s.acl, config |-> s.config, roles |-> s.roles, members |-> s.members,
             depends |-> dp, effective |-> ef]
    BY <1>3, <2>3, <2>4, CapturedLast
  <2>6. z \in RbCapture
    BY <2>1, <2>2, <2>4, <2>5, RbCaptureForm DEF RbCapture
  <2>7. QED BY <2>3, <2>5, <2>6 DEF OfItsRoles
<1>4. QED BY <1>1, <1>2, <1>3, RbLength DEF Sections

LEMMA ViewTyped ==
  ASSUME RollbackTypeOK, OfItsRoles(catalog)
  PROVE  View \in RbCatalog /\ OfItsRoles(View)
<1> DEFINE d == restore.draft
<1>0. RbDraft(d) /\ catalog \in RbCatalog
  BY DEF RollbackTypeOK
<1>1. [o \in Objects |-> IF o \in DOMAIN d.acl THEN d.acl[o] ELSE catalog.acl[o]] \in RbAcl
  BY <1>0, RbCatalogForm DEF RbDraft, RbAcl
<1>2. [f \in SecuredFunctions |->
          IF f \in DOMAIN d.config THEN d.config[f] ELSE catalog.config[f]] \in RbConfig
  BY <1>0, RbCatalogForm DEF RbDraft, RbConfig
<1>3. {m \in catalog.members : {m[1], m[2]} \cap d.dropped = {}} \subseteq Roles \X Roles
  BY <1>0, RbCatalogForm
<1>4. {m \in catalog.members : {m[1], m[2]} \cap d.dropped = {}}
         \subseteq (catalog.roles \ d.dropped) \X (catalog.roles \ d.dropped)
  BY DEF OfItsRoles
<1>5. catalog.roles \ d.dropped \subseteq Roles /\ catalog.ties \subseteq Roles
  BY <1>0, RbCatalogForm
<1>6. QED BY <1>1, <1>2, <1>3, <1>4, <1>5 DEF View, RbCatalog, OfItsRoles

-----------------------------------------------------------------------------
(* What the steps of the rollback write.                                   *)
RbRow(at, pos, before, seen, draft) ==
    [at |-> at, pos |-> pos, before |-> before, seen |-> seen, draft |-> draft]

RbRestoreForm == restore = RbRow(restore.at, restore.pos, restore.before, restore.seen, restore.draft)

LEMMA NoRestoreForm == NoRestore = RbRow("idle", 1, Unread, Unread, NoDraft)
BY DEF NoRestore, RbRow

LEMMA NoDraftTyped == /\ RbDraft(NoDraft) /\ NoDraft.dropped = {}
                      /\ DOMAIN NoDraft.acl = {} /\ DOMAIN NoDraft.config = {}
BY DEF NoDraft, RbDraft

LEMMA BeginForm == RestoreBegin => restore' = RbRow("read", 1, snapFile, Unread, NoDraft)
BY NoRestoreForm DEF RestoreBegin, RbRow

LEMMA ReadForm ==
  RbRestoreForm /\ RestoreRead =>
    restore' = RbRow(restore.at, restore.pos + 1, restore.before,
                     Captured(restore.seen, restore.pos, catalog), restore.draft)
BY DEF RestoreRead, RbRow, RbRestoreForm

LEMMA PlanForm ==
  RbRestoreForm /\ RestorePlan =>
    restore' = RbRow("run", restore.pos, restore.before, restore.seen, restore.draft)
BY DEF RestorePlan, RbRow, RbRestoreForm

RbAclNew(o) ==
    {e \in View.acl[o] : e[1] \notin {x[1] : x \in restore.before.acl[o] \cup restore.seen.acl[o]}}
        \cup restore.before.acl[o]

LEMMA RestoreAclForm ==
  ASSUME RbRestoreForm, RbDraft(restore.draft), NEW o, RestoreAcl(o)
  PROVE  restore' = RbRow(restore.at, restore.pos, restore.before, restore.seen,
                          [acl |-> Extend(restore.draft.acl, o, RbAclNew(o)),
                           config |-> restore.draft.config, dropped |-> restore.draft.dropped])
<1> DEFINE w == RbAclNew(o)
<1>1. restore' = [restore EXCEPT !.draft.acl = Extend(@, o, w)]
  BY DEF RestoreAcl, RbAclNew
<1> HIDE DEF w
<1>2. QED BY <1>1 DEF RbRow, RbRestoreForm, RbDraft, w

LEMMA RestoreConfigForm ==
  ASSUME RbRestoreForm, RbDraft(restore.draft), NEW f, RestoreConfig(f)
  PROVE  restore' = RbRow(restore.at, restore.pos, restore.before, restore.seen,
                          [acl |-> restore.draft.acl,
                           config |-> Extend(restore.draft.config, f, restore.before.config[f]),
                           dropped |-> restore.draft.dropped])
BY DEF RbRow, RbRestoreForm, RbDraft, RestoreConfig

LEMMA DropRoleForm ==
  ASSUME RbRestoreForm, RbDraft(restore.draft), NEW r, DropRole(r)
  PROVE  restore' = RbRow(restore.at, restore.pos, restore.before, restore.seen,
                          [acl |-> restore.draft.acl, config |-> restore.draft.config,
                           dropped |-> restore.draft.dropped \cup {r}])
BY DEF RbRow, RbRestoreForm, RbDraft, DropRole

LEMMA RecaptureForm ==
  RbRestoreForm /\ RestoreRecapture =>
    restore' = RbRow("verify", 1, restore.before, Unread, restore.draft)
BY DEF RestoreRecapture, RbRow, RbRestoreForm

LEMMA RereadForm ==
  RbRestoreForm /\ RestoreReread =>
    restore' = RbRow(restore.at, restore.pos + 1, restore.before,
                     Captured(restore.seen, restore.pos, View), restore.draft)
BY DEF RestoreReread, RbRow, RbRestoreForm

LEMMA ExtendForm ==
  ASSUME NEW f, NEW x, NEW v
  PROVE  /\ DOMAIN Extend(f, x, v) = DOMAIN f \cup {x}
         /\ Extend(f, x, v)[x] = v
         /\ \A y \in DOMAIN f : y # x => Extend(f, x, v)[y] = f[y]
BY DEF Extend

LEMMA RowFields ==
  ASSUME NEW at, NEW pos, NEW before, NEW seen, NEW draft
  PROVE  LET r == RbRow(at, pos, before, seen, draft) IN
         /\ r.at = at /\ r.pos = pos /\ r.before = before /\ r.seen = seen /\ r.draft = draft
         /\ r = RbRow(r.at, r.pos, r.before, r.seen, r.draft)
BY DEF RbRow

(* The catalog after a statement.                                          *)
LEMMA ExceptAcl ==
  ASSUME catalog \in RbCatalog, NEW o \in Objects, NEW v
  PROVE  [catalog EXCEPT !.acl[o] = v] =
            [acl |-> [catalog.acl EXCEPT ![o] = v], config |-> catalog.config,
             roles |-> catalog.roles, members |-> catalog.members, ties |-> catalog.ties]
BY RbCatalogForm

RbMigrated ==
    [o \in Objects |->
        {e \in catalog.acl[o] : ~(o \in HardenedObjects /\ e[1] \in AppRoles \cup {Public})}
        \cup {<<r, "use">> : r \in {p \in PhaseRoles : <<o, p>> \in GrantSurface}}]

LEMMA MigrateForm ==
  ASSUME catalog \in RbCatalog, Migrate
  PROVE  catalog' = [acl |-> RbMigrated, config |-> [f \in SecuredFunctions |-> "DEFINER"],
                     roles |-> catalog.roles \cup PhaseRoles, members |-> catalog.members,
                     ties |-> catalog.ties]
<1> DEFINE m == RbMigrated
          k == [f \in SecuredFunctions |-> "DEFINER"]
<1>1. catalog' = [catalog EXCEPT !.roles = catalog.roles \cup PhaseRoles, !.config = k, !.acl = m]
  BY DEF Migrate, RbMigrated
<1>2. catalog = [acl |-> catalog.acl, config |-> catalog.config, roles |-> catalog.roles,
                 members |-> catalog.members, ties |-> catalog.ties]
  BY RbCatalogForm
<1> HIDE DEF m, k
<1>3. catalog' = [acl |-> m, config |-> k, roles |-> catalog.roles \cup PhaseRoles,
                  members |-> catalog.members, ties |-> catalog.ties]
  BY <1>1, <1>2
<1>4. QED BY <1>3 DEF m, k

(* One statement of another session: the catalog and what is remembered.   *)
AclStatement(o, e, v) ==
    /\ catalog' = [acl |-> [catalog.acl EXCEPT ![o] = v], config |-> catalog.config,
                   roles |-> catalog.roles, members |-> catalog.members, ties |-> catalog.ties]
    /\ \/ /\ v = catalog.acl[o] \cup {e}
          /\ \/ foreign' = foreign
             \/ /\ foreign' = foreign \cup {<<o, e>>}
                /\ ~(e[2] = "use" /\ <<o, e[1]>> \in GrantSurface)
       \/ v = catalog.acl[o] \ {e} /\ foreign' = foreign \ {<<o, e>>}
    /\ Disturb({o})

MemberStatement(g, m) ==
    /\ g \in catalog.roles /\ m \in catalog.roles
    /\ catalog' = [acl |-> catalog.acl, config |-> catalog.config, roles |-> catalog.roles,
                   members |-> catalog.members \cup {<<g, m>>}, ties |-> catalog.ties]
    /\ foreign' = foreign /\ Disturb({"roles"})

TieStatement(r) ==
    /\ catalog' = [acl |-> catalog.acl, config |-> catalog.config, roles |-> catalog.roles,
                   members |-> catalog.members, ties |-> catalog.ties \cup {r}]
    /\ r \in catalog.roles /\ foreign' = foreign /\ Disturb({"roles"})

LEMMA ForeignForm ==
  ASSUME catalog \in RbCatalog, Foreign
  PROVE  \/ \E o \in Objects \ Locked, e \in Entries, v \in SUBSET Entries : AclStatement(o, e, v)
         \/ \E g, m \in Roles \ Locked : MemberStatement(g, m)
         \/ \E r \in PhaseRoles \ Locked : TieStatement(r)
<1>0. catalog.acl \in RbAcl
  BY RbCatalogForm
<1>1. ASSUME NEW o \in Objects \ Locked, NEW e \in Entries, ForeignGrant(o, e)
      PROVE  \E v \in SUBSET Entries : AclStatement(o, e, v)
  <2> DEFINE v == catalog.acl[o] \cup {e}
  <2>1. catalog' = [catalog EXCEPT !.acl[o] = v]
    BY <1>1 DEF ForeignGrant
  <2>2. catalog' = [acl |-> [catalog.acl EXCEPT ![o] = v], config |-> catalog.config,
                    roles |-> catalog.roles, members |-> catalog.members, ties |-> catalog.ties]
    BY <2>1, ExceptAcl
  <2>3. v \in SUBSET Entries
    BY <1>0 DEF RbAcl
  <2>4. AclStatement(o, e, v)
    BY <1>1, <2>2 DEF ForeignGrant, AclStatement
  <2>5. QED BY <2>3, <2>4
<1>2. ASSUME NEW o \in Objects \ Locked, NEW e \in Entries, ForeignRevoke(o, e)
      PROVE  \E v \in SUBSET Entries : AclStatement(o, e, v)
  <2> DEFINE v == catalog.acl[o] \ {e}
  <2>1. catalog' = [catalog EXCEPT !.acl[o] = v]
    BY <1>2 DEF ForeignRevoke
  <2>2. catalog' = [acl |-> [catalog.acl EXCEPT ![o] = v], config |-> catalog.config,
                    roles |-> catalog.roles, members |-> catalog.members, ties |-> catalog.ties]
    BY <2>1, ExceptAcl
  <2>3. v \in SUBSET Entries
    BY <1>0 DEF RbAcl
  <2>4. AclStatement(o, e, v)
    BY <1>2, <2>2 DEF ForeignRevoke, AclStatement
  <2>5. QED BY <2>3, <2>4
<1>3. ASSUME NEW g \in Roles \ Locked, NEW m \in Roles \ Locked, ForeignMember(g, m)
      PROVE  MemberStatement(g, m)
  BY <1>3, RbCatalogForm DEF ForeignMember, MemberStatement
<1>4. ASSUME NEW r \in PhaseRoles \ Locked, ForeignTie(r) PROVE TieStatement(r)
  <2>1. catalog' = [catalog EXCEPT !.ties = catalog.ties \cup {r}]
    BY <1>4 DEF ForeignTie
  <2>2. catalog = [acl |-> catalog.acl, config |-> catalog.config, roles |-> catalog.roles,
                   members |-> catalog.members, ties |-> catalog.ties]
    BY RbCatalogForm
  <2>3. QED BY <1>4, <2>1, <2>2 DEF ForeignTie, TieStatement
<1>5. QED BY <1>1, <1>2, <1>3, <1>4 DEF Foreign

-----------------------------------------------------------------------------
(* Types, and memberships between roles of the same moment.                *)
RollbackBase == RollbackTypeOK /\ MembersAreRoles

LEMMA RollbackBaseInit == RollbackInit => RollbackBase
<1> SUFFICES ASSUME RollbackInit PROVE RollbackBase
  OBVIOUS
<1>1. catalog \in RbCatalog /\ OfItsRoles(catalog)
  <2>1. [o \in Objects |-> {<<Public, "use">>}
            \cup (AppRoles \X (IF o \in HardenedObjects THEN {"use"} ELSE {}))] \in RbAcl
    BY DEF RbAcl, Entries, Roles
  <2>2. [f \in SecuredFunctions |-> "INVOKER"] \in RbConfig
    BY DEF RbConfig
  <2>3. (Roles \ PhaseRoles) \cup BornBefore \subseteq Roles
    BY CaptureIsWhole DEF Roles
  <2>4. QED BY <2>1, <2>2, <2>3 DEF RollbackInit, RbCatalog, OfItsRoles
<1>2. survey = [pos |-> 0, seen |-> Unread] /\ OfItsRoles(Unread)
  BY RbUnread DEF RollbackInit, OfItsRoles
<1>3. restore = RbRow("idle", 1, Unread, Unread, NoDraft) /\ foreign = {}
      /\ snapFile = Unread /\ sidecar = Unread
  BY NoRestoreForm DEF RollbackInit
<1>4. 0 \in 0..(Sections + 2) /\ 1 \in 1..(Sections + 1)
  BY RbLength DEF Sections
<1>5. QED BY <1>1, <1>2, <1>3, <1>4, NoDraftTyped, RbUnread
        DEF RollbackBase, RollbackTypeOK, MembersAreRoles, RbRow

RestoreTypeOK ==
    /\ restore = [at |-> restore.at, pos |-> restore.pos, before |-> restore.before,
                  seen |-> restore.seen, draft |-> restore.draft]
    /\ restore.at \in {"idle", "read", "run", "verify"} /\ restore.pos \in 1..(Sections + 1)
    /\ restore.before \in RbCapture /\ restore.seen \in RbCapture
    /\ RbDraft(restore.draft)
    /\ OfItsRoles(restore.before) /\ OfItsRoles(restore.seen)

(* A row of the right parts is a row of the rollback.                      *)
LEMMA RestoreTyped ==
  ASSUME NEW at \in {"idle", "read", "run", "verify"}, NEW pos \in 1..(Sections + 1),
         NEW before \in RbCapture, NEW seen \in RbCapture, NEW draft, RbDraft(draft),
         OfItsRoles(before), OfItsRoles(seen), restore' = RbRow(at, pos, before, seen, draft)
  PROVE  RestoreTypeOK'
<1>1. RestoreTypeOK' <=>
        /\ restore' = [at |-> restore'.at, pos |-> restore'.pos, before |-> restore'.before,
                       seen |-> restore'.seen, draft |-> restore'.draft]
        /\ restore'.at \in {"idle", "read", "run", "verify"} /\ restore'.pos \in 1..(Sections + 1)
        /\ restore'.before \in RbCapture /\ restore'.seen \in RbCapture
        /\ RbDraft(restore'.draft)
        /\ OfItsRoles(restore'.before) /\ OfItsRoles(restore'.seen)
  BY DEF RestoreTypeOK, RbDraft, OfItsRoles, RbCapture, RbAcl, RbConfig, Sections, Entries, Roles,
         Objects, Public
<1>2. /\ restore'.at = at /\ restore'.pos = pos /\ restore'.before = before
      /\ restore'.seen = seen /\ restore'.draft = draft
  BY DEF RbRow
<1>3. restore' = [at |-> restore'.at, pos |-> restore'.pos, before |-> restore'.before,
                  seen |-> restore'.seen, draft |-> restore'.draft]
  BY DEF RbRow
<1>4. QED BY <1>1, <1>2, <1>3

(* The steps that write the rollback's row only.                           *)
LEMMA RestoreStepTyped ==
  ASSUME RollbackBase,
         \/ RestoreBegin \/ RestoreRead \/ RestorePlan
         \/ \E o \in AuditedObjects : RestoreAcl(o)
         \/ \E f \in SecuredFunctions : RestoreConfig(f)
         \/ \E r \in PhaseRoles : DropRole(r)
         \/ RestoreRecapture \/ RestoreReread \/ RestoreCommit \/ RestoreEnds
  PROVE  RestoreTypeOK'
<1>0. /\ RestoreTypeOK /\ RbRestoreForm /\ RbDraft(restore.draft)
      /\ snapFile \in RbCapture /\ OfItsRoles(snapFile)
      /\ catalog \in RbCatalog /\ OfItsRoles(catalog)
      /\ Unread \in RbCapture /\ OfItsRoles(Unread)
      /\ View \in RbCatalog /\ OfItsRoles(View)
  BY ViewTyped, RbUnread
     DEF RollbackBase, RollbackTypeOK, MembersAreRoles, RestoreTypeOK, RbRestoreForm, RbRow,
         OfItsRoles
<1>1. CASE RestoreBegin
  <2>1. 1 \in 1..(Sections + 1)
    BY RbLength DEF Sections
  <2>2. QED BY <1>0, <1>1, <2>1, BeginForm, RestoreTyped, NoDraftTyped DEF RestoreTypeOK
<1>2. ASSUME NEW c \in RbCatalog, OfItsRoles(c), restore.pos <= Sections,
             restore' = RbRow(restore.at, restore.pos + 1, restore.before,
                              Captured(restore.seen, restore.pos, c), restore.draft)
      PROVE  RestoreTypeOK'
  <2>1. restore.pos \in 1..Sections /\ restore.pos + 1 \in 1..(Sections + 1)
    BY <1>0, <1>2, RbLength DEF RestoreTypeOK, Sections
  <2>2. PICK s : s = Captured(restore.seen, restore.pos, c)
    OBVIOUS
  <2>3. s \in RbCapture /\ OfItsRoles(s)
    BY <1>0, <1>2, <2>1, <2>2, CapturedTyped DEF RestoreTypeOK
  <2>4. QED BY <1>0, <1>2, <2>1, <2>2, <2>3, RestoreTyped DEF RestoreTypeOK
<1>3. CASE RestoreRead
  BY <1>0, <1>2, <1>3, ReadForm DEF RestoreRead
<1>4. CASE RestorePlan
  BY <1>0, <1>4, PlanForm, RestoreTyped DEF RestoreTypeOK
<1>5. ASSUME NEW d, RbDraft(d),
             restore' = RbRow(restore.at, restore.pos, restore.before, restore.seen, d)
      PROVE  RestoreTypeOK'
  BY <1>0, <1>5, RestoreTyped DEF RestoreTypeOK
<1>6. ASSUME NEW o \in AuditedObjects, RestoreAcl(o) PROVE RestoreTypeOK'
  <2> DEFINE a == Extend(restore.draft.acl, o, RbAclNew(o))
  <2>1. o \in Objects /\ RbAclNew(o) \subseteq Entries
    BY <1>0, CaptureIsWhole, RbCatalogForm, RbCaptureForm DEF RestoreTypeOK, RbAcl, RbAclNew
  <2>2. DOMAIN a = DOMAIN restore.draft.acl \cup {o} /\ a[o] = RbAclNew(o)
        /\ \A y \in DOMAIN restore.draft.acl : y # o => a[y] = restore.draft.acl[y]
    BY DEF Extend
  <2>3. restore' = RbRow(restore.at, restore.pos, restore.before, restore.seen,
                         [acl |-> a, config |-> restore.draft.config,
                          dropped |-> restore.draft.dropped])
    BY <1>0, <1>6, RestoreAclForm
  <2> HIDE DEF a
  <2>4. RbDraft([acl |-> a, config |-> restore.draft.config, dropped |-> restore.draft.dropped])
    BY <1>0, <2>1, <2>2 DEF RbDraft
  <2>5. QED BY <1>5, <2>3, <2>4
<1>7. ASSUME NEW f \in SecuredFunctions, RestoreConfig(f) PROVE RestoreTypeOK'
  <2> DEFINE a == Extend(restore.draft.config, f, restore.before.config[f])
  <2>1. restore.before.config[f] \in {"INVOKER", "DEFINER"}
    BY <1>0, RbCaptureForm DEF RestoreTypeOK, RbConfig
  <2>2. DOMAIN a = DOMAIN restore.draft.config \cup {f} /\ a[f] = restore.before.config[f]
        /\ \A y \in DOMAIN restore.draft.config : y # f => a[y] = restore.draft.config[y]
    BY DEF Extend
  <2>3. restore' = RbRow(restore.at, restore.pos, restore.before, restore.seen,
                         [acl |-> restore.draft.acl, config |-> a,
                          dropped |-> restore.draft.dropped])
    BY <1>0, <1>7, RestoreConfigForm
  <2> HIDE DEF a
  <2>4. RbDraft([acl |-> restore.draft.acl, config |-> a, dropped |-> restore.draft.dropped])
    BY <1>0, <2>1, <2>2 DEF RbDraft
  <2>5. QED BY <1>5, <2>3, <2>4
<1>8. ASSUME NEW r \in PhaseRoles, DropRole(r) PROVE RestoreTypeOK'
  <2>1. RbDraft([acl |-> restore.draft.acl, config |-> restore.draft.config,
                 dropped |-> restore.draft.dropped \cup {r}])
    BY <1>0, <1>8 DEF RbDraft
  <2>2. QED BY <1>0, <1>5, <1>8, <2>1, DropRoleForm
<1>9. CASE RestoreRecapture
  <2>1. 1 \in 1..(Sections + 1)
    BY RbLength DEF Sections
  <2>2. QED BY <1>0, <1>9, <2>1, RecaptureForm, RestoreTyped DEF RestoreTypeOK
<1>10. CASE RestoreReread
  BY <1>0, <1>2, <1>10, RereadForm DEF RestoreReread
<1>11. CASE RestoreCommit \/ RestoreEnds
  <2>1. 1 \in 1..(Sections + 1) /\ restore' = NoRestore
    BY <1>11, RbLength DEF Sections, RestoreCommit, RestoreEnds
  <2>2. QED BY <1>0, <2>1, NoRestoreForm, NoDraftTyped, RestoreTyped DEF RestoreTypeOK
<1>12. QED BY <1>1, <1>3, <1>4, <1>6, <1>7, <1>8, <1>9, <1>10, <1>11

RestoreSteps ==
    \/ RestoreBegin \/ RestoreRead \/ RestorePlan
    \/ \E o \in AuditedObjects : RestoreAcl(o)
    \/ \E f \in SecuredFunctions : RestoreConfig(f)
    \/ \E r \in PhaseRoles : DropRole(r)
    \/ RestoreRecapture \/ RestoreReread \/ RestoreCommit \/ RestoreEnds

SurveySteps == SurveyBegin \/ SurveyRead \/ SurveyWrite \/ SurveySeal \/ SurveyDies

LEMMA RollbackStepKinds == RollbackNext <=> SurveySteps \/ Migrate \/ Foreign \/ RestoreSteps
BY DEF RollbackNext, SurveySteps, RestoreSteps

CatalogTypeOK ==
    /\ catalog \in RbCatalog /\ OfItsRoles(catalog)
    /\ foreign \subseteq Objects \X Entries

SurveyTypeOK ==
    /\ snapFile \in RbCapture /\ sidecar \in RbCapture /\ OfItsRoles(snapFile)
    /\ survey = [pos |-> survey.pos, seen |-> survey.seen]
    /\ survey.pos \in 0..(Sections + 2) /\ survey.seen \in RbCapture /\ OfItsRoles(survey.seen)

LEMMA BaseParts == RollbackBase <=> CatalogTypeOK /\ SurveyTypeOK /\ RestoreTypeOK
BY DEF RollbackBase, RollbackTypeOK, MembersAreRoles, CatalogTypeOK, SurveyTypeOK, RestoreTypeOK

LEMMA BasePartsPrime == RollbackBase' <=> CatalogTypeOK' /\ SurveyTypeOK' /\ RestoreTypeOK'
BY DEF RollbackBase, RollbackTypeOK, MembersAreRoles, CatalogTypeOK, SurveyTypeOK, RestoreTypeOK

LEMMA SurveyStepTyped == ASSUME RollbackBase, SurveySteps PROVE SurveyTypeOK'
<1>0. SurveyTypeOK /\ catalog \in RbCatalog /\ OfItsRoles(catalog)
      /\ Unread \in RbCapture /\ OfItsRoles(Unread) /\ Sections \in Nat
  BY BaseParts, RbUnread, RbLength DEF CatalogTypeOK, OfItsRoles, Sections
<1>1. SurveyTypeOK' <=>
        /\ snapFile' \in RbCapture /\ sidecar' \in RbCapture /\ OfItsRoles(snapFile')
        /\ survey' = [pos |-> survey'.pos, seen |-> survey'.seen]
        /\ survey'.pos \in 0..(Sections + 2) /\ survey'.seen \in RbCapture
        /\ OfItsRoles(survey'.seen)
  BY DEF SurveyTypeOK, OfItsRoles, RbCapture, RbAcl, RbConfig, Sections, Entries, Roles,
         Objects, Public
<1>2. CASE SurveyBegin
  BY <1>0, <1>1, <1>2 DEF SurveyBegin, SurveyTypeOK
<1>3. CASE SurveyRead
  <2>1. PICK s : s = Captured(survey.seen, survey.pos, catalog)
    OBVIOUS
  <2>2. s \in RbCapture /\ OfItsRoles(s)
    BY <1>0, <1>3, <2>1, CapturedTyped DEF SurveyRead, SurveyTypeOK
  <2>3. survey' = [pos |-> survey.pos + 1, seen |-> s] /\ survey.pos + 1 \in 0..(Sections + 2)
        /\ UNCHANGED <<snapFile, sidecar>>
    BY <1>0, <1>3, <2>1 DEF SurveyRead
  <2>4. QED BY <1>0, <1>1, <2>2, <2>3 DEF SurveyTypeOK
<1>4. CASE SurveyWrite
  <2>1. survey' = [pos |-> survey.pos + 1, seen |-> survey.seen] /\ survey.pos = Sections + 1
    BY <1>0, <1>4 DEF SurveyWrite, SurveyTypeOK
  <2>2. snapFile' = survey.seen /\ sidecar' = sidecar
    BY <1>4 DEF SurveyWrite
  <2>3. QED BY <1>0, <1>1, <2>1, <2>2 DEF SurveyTypeOK
<1>5. CASE SurveySeal
  <2>1. survey' = [pos |-> 0, seen |-> survey.seen] /\ sidecar' = survey.seen /\ snapFile' = snapFile
    BY <1>0, <1>5 DEF SurveySeal, SurveyTypeOK
  <2>2. QED BY <1>0, <1>1, <2>1 DEF SurveyTypeOK
<1>6. CASE SurveyDies
  <2>1. survey' = [pos |-> 0, seen |-> survey.seen] /\ UNCHANGED <<snapFile, sidecar>>
    BY <1>0, <1>6 DEF SurveyDies, SurveyTypeOK
  <2>2. QED BY <1>0, <1>1, <2>1 DEF SurveyTypeOK
<1>7. QED BY <1>2, <1>3, <1>4, <1>5, <1>6 DEF SurveySteps

LEMMA CatalogWritten ==
  ASSUME NEW acl \in RbAcl, NEW config \in RbConfig, NEW roles \in SUBSET Roles,
         NEW members, members \subseteq roles \X roles, NEW ties \in SUBSET Roles,
         catalog' = [acl |-> acl, config |-> config, roles |-> roles, members |-> members,
                     ties |-> ties],
         foreign' \subseteq Objects \X Entries
  PROVE  CatalogTypeOK'
<1>1. CatalogTypeOK' <=> /\ catalog' \in RbCatalog /\ OfItsRoles(catalog')
                         /\ foreign' \subseteq Objects \X Entries
  BY DEF CatalogTypeOK, OfItsRoles, RbCatalog, RbAcl, RbConfig, Entries, Roles, Objects, Public
<1>2. members \in SUBSET (Roles \X Roles)
  OBVIOUS
<1>3. catalog' \in RbCatalog
  BY <1>2 DEF RbCatalog
<1>4. OfItsRoles(catalog')
  BY DEF OfItsRoles
<1>5. QED BY <1>1, <1>3, <1>4

LEMMA MigrateTyped == ASSUME RollbackBase, Migrate PROVE CatalogTypeOK'
<1>0. catalog \in RbCatalog /\ OfItsRoles(catalog) /\ foreign \subseteq Objects \X Entries
  BY BaseParts DEF CatalogTypeOK
<1>1. RbMigrated \in RbAcl
  <2>1. ASSUME NEW o \in Objects
        PROVE  {e \in catalog.acl[o] : ~(o \in HardenedObjects /\ e[1] \in AppRoles \cup {Public})}
                  \subseteq Entries
    BY <1>0, RbCatalogForm DEF RbAcl
  <2>2. ASSUME NEW o \in Objects
        PROVE  {<<r, "use">> : r \in {p \in PhaseRoles : <<o, p>> \in GrantSurface}} \subseteq Entries
    <3>1. \A r \in PhaseRoles : <<r, "use">> \in Entries
      BY DEF Entries, Roles
    <3>2. QED BY <3>1
  <2>3. QED BY <2>1, <2>2 DEF RbMigrated, RbAcl
<1>2. [f \in SecuredFunctions |-> "DEFINER"] \in RbConfig
  BY DEF RbConfig
<1>3. catalog.roles \cup PhaseRoles \in SUBSET Roles /\ catalog.ties \in SUBSET Roles
  BY <1>0, RbCatalogForm DEF Roles
<1>4. catalog.members \subseteq (catalog.roles \cup PhaseRoles) \X (catalog.roles \cup PhaseRoles)
  BY <1>0 DEF OfItsRoles
<1>5. foreign' \subseteq Objects \X Entries
  BY <1>0 DEF Migrate
<1>6. QED BY <1>0, <1>1, <1>2, <1>3, <1>4, <1>5, MigrateForm, CatalogWritten

LEMMA ForeignTyped == ASSUME RollbackBase, Foreign PROVE CatalogTypeOK'
<1>0. catalog \in RbCatalog /\ OfItsRoles(catalog) /\ foreign \subseteq Objects \X Entries
      /\ catalog.acl \in RbAcl /\ catalog.config \in RbConfig /\ catalog.roles \in SUBSET Roles
      /\ catalog.ties \in SUBSET Roles /\ catalog.members \subseteq catalog.roles \X catalog.roles
  BY BaseParts, RbCatalogForm DEF CatalogTypeOK, OfItsRoles
<1>1. ASSUME NEW o \in Objects, NEW e \in Entries, NEW v \in SUBSET Entries, AclStatement(o, e, v)
      PROVE  CatalogTypeOK'
  <2>1. [catalog.acl EXCEPT ![o] = v] \in RbAcl
    BY <1>0 DEF RbAcl
  <2>2. foreign' \subseteq Objects \X Entries
    BY <1>0, <1>1 DEF AclStatement
  <2>3. QED BY <1>0, <1>1, <2>1, <2>2, CatalogWritten DEF AclStatement
<1>2. ASSUME NEW g \in Roles, NEW m \in Roles, MemberStatement(g, m) PROVE CatalogTypeOK'
  <2>1. catalog.members \cup {<<g, m>>} \subseteq catalog.roles \X catalog.roles
    BY <1>0, <1>2 DEF MemberStatement
  <2>2. QED BY <1>0, <1>2, <2>1, CatalogWritten DEF MemberStatement
<1>3. ASSUME NEW r \in PhaseRoles, TieStatement(r) PROVE CatalogTypeOK'
  <2>1. catalog.ties \cup {r} \in SUBSET Roles
    BY <1>0, <1>3 DEF Roles
  <2>2. QED BY <1>0, <1>3, <2>1, CatalogWritten DEF TieStatement
<1>4. QED BY <1>0, <1>1, <1>2, <1>3, ForeignForm

LEMMA CommitTyped == ASSUME RollbackBase, RestoreCommit PROVE CatalogTypeOK'
<1>1. View \in RbCatalog /\ OfItsRoles(View) /\ foreign \subseteq Objects \X Entries
  BY ViewTyped DEF RollbackBase, MembersAreRoles, RollbackTypeOK
<1>2. CatalogTypeOK' <=> /\ catalog' \in RbCatalog /\ OfItsRoles(catalog')
                         /\ foreign' \subseteq Objects \X Entries
  BY DEF CatalogTypeOK, OfItsRoles, RbCatalog, RbAcl, RbConfig, Entries, Roles, Objects, Public
<1>3. catalog' = View /\ foreign' \subseteq foreign
  BY DEF RestoreCommit
<1>4. QED BY <1>1, <1>2, <1>3

LEMMA RollbackBaseStep == ASSUME RollbackBase, RollbackNext PROVE RollbackBase'
<1>1. CatalogTypeOK /\ SurveyTypeOK /\ RestoreTypeOK
  BY BaseParts
<1>2. UNCHANGED <<catalog, foreign>> => CatalogTypeOK'
  BY <1>1 DEF CatalogTypeOK, OfItsRoles, RbCatalog, RbAcl, RbConfig, Entries, Roles, Objects, Public
<1>3. UNCHANGED <<snapFile, sidecar, survey>> => SurveyTypeOK'
  BY <1>1 DEF SurveyTypeOK, OfItsRoles, RbCapture, RbAcl, RbConfig, Entries, Roles, Objects, Public,
              Sections
<1>4. UNCHANGED restore => RestoreTypeOK'
  BY <1>1 DEF RestoreTypeOK, OfItsRoles, RbCapture, RbDraft, RbAcl, RbConfig, Entries, Roles,
              Objects, Public, Sections
<1>5. CASE SurveySteps
  <2>1. UNCHANGED <<catalog, foreign, restore>>
    BY <1>5 DEF SurveySteps, SurveyBegin, SurveyRead, SurveyWrite, SurveySeal, SurveyDies
  <2>2. QED BY <1>2, <1>4, <1>5, <2>1, SurveyStepTyped, BasePartsPrime
<1>6. CASE Migrate
  BY <1>3, <1>4, <1>6, MigrateTyped, BasePartsPrime DEF Migrate
<1>7. CASE Foreign
  BY <1>3, <1>4, <1>7, ForeignTyped, BasePartsPrime DEF Foreign
<1>8. CASE RestoreSteps
  <2>1. RestoreTypeOK'
    BY <1>8, RestoreStepTyped DEF RestoreSteps
  <2>2. UNCHANGED <<snapFile, sidecar, survey>>
    BY <1>8 DEF RestoreSteps, RestoreBegin, RestoreRead, RestorePlan, RestoreAcl, RestoreConfig,
                DropRole, RestoreRecapture, RestoreReread, RestoreCommit, RestoreEnds
  <2>3. RestoreCommit \/ UNCHANGED <<catalog, foreign>>
    BY <1>8 DEF RestoreSteps, RestoreBegin, RestoreRead, RestorePlan, RestoreAcl, RestoreConfig,
                DropRole, RestoreRecapture, RestoreReread, RestoreEnds
  <2>4. QED BY <1>2, <1>3, <2>1, <2>2, <2>3, CommitTyped, BasePartsPrime
<1>9. QED BY <1>5, <1>6, <1>7, <1>8, RollbackStepKinds

-----------------------------------------------------------------------------
(* What the other sessions do to the catalog, and what is remembered of    *)
(* it: nothing changes that is not disturbed, and nothing locked.          *)
OthersChange(what) ==
    /\ Disturb(what)
    /\ \A o \in Objects \ what : catalog'.acl[o] = catalog.acl[o]
    /\ \A f \in SecuredFunctions \ what : catalog'.config[f] = catalog.config[f]
    /\ "roles" \notin what =>
           catalog'.roles = catalog.roles /\ catalog'.members = catalog.members
    /\ \A g \in foreign' \ foreign : g[1] \notin Locked
    /\ \A r \in Locked : r \in catalog'.ties => r \in catalog.ties

LEMMA OtherSessionsStep ==
  ASSUME RollbackBase, Migrate \/ Foreign
  PROVE  /\ restore' = restore
         /\ \E what : OthersChange(what)
<1>0. catalog \in RbCatalog /\ restore' = restore /\ catalog.acl \in RbAcl
  BY BaseParts, RbCatalogForm DEF CatalogTypeOK, Migrate, Foreign
<1>1. CASE Migrate
  <2> DEFINE what == AuditedObjects \cup {"roles"}
  <2>0. /\ catalog'.acl = RbMigrated /\ catalog'.ties = catalog.ties
        /\ Disturb(what) /\ foreign' \subseteq foreign /\ "roles" \in what
        /\ SecuredFunctions \subseteq what
    BY <1>0, <1>1, MigrateForm, SurfaceIsAudited DEF Migrate
  <2>1. ASSUME NEW o \in Objects \ what PROVE RbMigrated[o] = catalog.acl[o]
    <3>1. o \notin HardenedObjects /\ \A p \in PhaseRoles : <<o, p>> \notin GrantSurface
      BY <2>1, SurfaceIsAudited
    <3>2. RbMigrated[o] = {e \in catalog.acl[o] :
                               ~(o \in HardenedObjects /\ e[1] \in AppRoles \cup {Public})}
              \cup {<<r, "use">> : r \in {p \in PhaseRoles : <<o, p>> \in GrantSurface}}
      BY <2>1 DEF RbMigrated
    <3>3. {p \in PhaseRoles : <<o, p>> \in GrantSurface} = {}
      BY <3>1
    <3>4. {<<r, "use">> : r \in {p \in PhaseRoles : <<o, p>> \in GrantSurface}} = {}
      BY <3>3
    <3>5. QED BY <3>1, <3>2, <3>4
  <2>2. OthersChange(what)
    <3> HIDE DEF what
    <3>1. QED BY <2>0, <2>1 DEF OthersChange
  <2>3. QED BY <1>0, <2>2
<1>2. CASE Foreign
  <2>1. ASSUME NEW o \in Objects \ Locked, NEW e \in Entries, NEW v, AclStatement(o, e, v)
        PROVE  OthersChange({o})
    <3>1. catalog'.acl = [catalog.acl EXCEPT ![o] = v] /\ catalog'.config = catalog.config
          /\ catalog'.roles = catalog.roles /\ catalog'.members = catalog.members
          /\ catalog'.ties = catalog.ties
      BY <2>1 DEF AclStatement
    <3>2. \A y \in Objects \ {o} : catalog'.acl[y] = catalog.acl[y]
      BY <1>0, <3>1 DEF RbAcl
    <3>3. \A g \in foreign' \ foreign : g[1] = o
      BY <2>1 DEF AclStatement
    <3>4. QED BY <2>1, <3>1, <3>2, <3>3 DEF OthersChange, AclStatement
  <2>2. ASSUME NEW g, NEW m, MemberStatement(g, m) PROVE OthersChange({"roles"})
    BY <2>2 DEF OthersChange, MemberStatement
  <2>3. ASSUME NEW r \in PhaseRoles \ Locked, TieStatement(r) PROVE OthersChange({"roles"})
    BY <2>3 DEF OthersChange, TieStatement
  <2>4. QED BY <1>0, <1>2, <2>1, <2>2, <2>3, ForeignForm
<1>3. QED BY <1>1, <1>2

LEMMA DisturbForm ==
  ASSUME NEW what, Disturb(what)
  PROVE  /\ restore.at # "idle" => raced' = raced \cup what /\ late' = late \cup what
         /\ restore.at = "idle" => raced' = raced /\ late' = late
BY DEF Disturb

-----------------------------------------------------------------------------
(* Foreign grants.                                                         *)
LEMMA ForeignIsForeignStep ==
  ASSUME RollbackBase, ForeignIsForeign, RollbackNext PROVE ForeignIsForeign'
<1>0. catalog \in RbCatalog /\ catalog.acl \in RbAcl /\ foreign \subseteq Objects \X Entries
  BY BaseParts, RbCatalogForm DEF CatalogTypeOK
<1>1. ASSUME \A g \in foreign' : /\ g[2] \in catalog'.acl[g[1]]
                                 /\ g \in foreign \/ ~(g[2][2] = "use" /\ <<g[1], g[2][1]>> \in GrantSurface)
      PROVE  ForeignIsForeign'
  BY <1>1 DEF ForeignIsForeign
<1>2. CASE Migrate \/ RestoreCommit
  BY <1>1, <1>2 DEF Migrate, RestoreCommit
<1>3. CASE Foreign
  <2>0. \A g \in foreign : g[1] \in Objects /\ g[2] \in catalog.acl[g[1]] /\ g = <<g[1], g[2]>>
    <3>1. \A g \in Objects \X Entries : g[1] \in Objects /\ g = <<g[1], g[2]>>
      OBVIOUS
    <3>2. QED BY <1>0, <3>1 DEF ForeignIsForeign
  <2>1. ASSUME NEW o \in Objects, NEW e \in Entries, NEW v, AclStatement(o, e, v)
        PROVE  ForeignIsForeign'
    <3>1. catalog'.acl = [catalog.acl EXCEPT ![o] = v]
      BY <2>1 DEF AclStatement
    <3>2. catalog'.acl[o] = v /\ \A y \in Objects : y # o => catalog'.acl[y] = catalog.acl[y]
      BY <1>0, <3>1 DEF RbAcl
    <3>3. CASE v = catalog.acl[o] \cup {e} /\ foreign' = foreign
      BY <1>1, <2>0, <3>2, <3>3
    <3>4. CASE /\ v = catalog.acl[o] \cup {e} /\ foreign' = foreign \cup {<<o, e>>}
               /\ ~(e[2] = "use" /\ <<o, e[1]>> \in GrantSurface)
      BY <1>1, <2>0, <3>2, <3>4
    <3>5. CASE v = catalog.acl[o] \ {e} /\ foreign' = foreign \ {<<o, e>>}
      <4>1. ASSUME NEW g \in foreign' PROVE g[2] \in catalog'.acl[g[1]] /\ g \in foreign
        <5>1. g \in foreign /\ g # <<o, e>>
          BY <3>5, <4>1
        <5>2. g[1] = o => g[2] # e
          BY <2>0, <5>1
        <5>3. QED BY <2>0, <3>2, <3>5, <5>1, <5>2
      <4>2. QED BY <1>1, <4>1
    <3>6. QED BY <2>1, <3>3, <3>4, <3>5 DEF AclStatement
  <2>2. catalog'.acl = catalog.acl /\ foreign' = foreign => ForeignIsForeign'
    BY <1>1 DEF ForeignIsForeign
  <2>3. QED BY <1>0, <1>3, <2>1, <2>2, ForeignForm DEF MemberStatement, TieStatement
<1>4. CASE UNCHANGED <<catalog, foreign>>
  BY <1>4 DEF ForeignIsForeign
<1>5. RestoreCommit \/ Migrate \/ Foreign \/ UNCHANGED <<catalog, foreign>>
  BY DEF RollbackNext, SurveyBegin, SurveyRead, SurveyWrite, SurveySeal, SurveyDies,
         RestoreBegin, RestoreRead, RestorePlan, RestoreAcl, RestoreConfig,
         DropRole, RestoreRecapture, RestoreReread, RestoreEnds
<1>6. QED BY <1>2, <1>3, <1>4, <1>5

-----------------------------------------------------------------------------
(* What one more section adds to what has been read.                       *)
LEMMA RolesSection ==
  ASSUME NEW s \in RbCapture, NEW c, NEW z, z = Captured(s, Len(ReadOrder) + 1, c)
  PROVE  /\ z.acl = s.acl /\ z.config = s.config /\ z.roles = c.roles /\ z.members = c.members
<1>1. z = [acl |-> s.acl, config |-> s.config, roles |-> c.roles, members |-> c.members,
           depends |-> s.depends, effective |-> s.effective]
  BY CapturedRoles
<1>2. QED BY <1>1

LEMMA LastSection ==
  ASSUME NEW s \in RbCapture, NEW c, NEW z, z = Captured(s, Len(ReadOrder) + 2, c)
  PROVE  /\ z.acl = s.acl /\ z.config = s.config /\ z.roles = s.roles /\ z.members = s.members
<1>1. PICK dp, ef : dp = {d \in Dependencies(c) : d[1] \in s.roles} /\ ef = Effective(c, s.roles)
  OBVIOUS
<1>2. z = [acl |-> s.acl, config |-> s.config, roles |-> s.roles, members |-> s.members,
           depends |-> dp, effective |-> ef]
  BY <1>1, CapturedLast
<1>3. QED BY <1>2

LEMMA SectionAcl ==
  ASSUME NEW s \in RbCapture, NEW c, NEW pos \in 1..Sections,
         NEW o \in ReadBefore(pos + 1)
  PROVE  /\ o \in Objects
         /\ \/ /\ o \in Described(pos) /\ Captured(s, pos, c).acl[o] = c.acl[o]
               /\ o \in SecuredFunctions => Captured(s, pos, c).config[o] = c.config[o]
            \/ /\ o \notin Described(pos) /\ o \in ReadBefore(pos)
               /\ Captured(s, pos, c).acl[o] = s.acl[o]
               /\ o \in SecuredFunctions => Captured(s, pos, c).config[o] = s.config[o]
<1>0. o \in Objects /\ Len(ReadOrder) \in Nat /\ DOMAIN ReadOrder = 1..Len(ReadOrder) /\ pos \in Nat
      /\ "roles" \notin Objects /\ DOMAIN s.acl = Objects
  BY RbLength, CaptureIsWhole, RbCaptureForm DEF ReadBefore, RbAcl, Sections
<1>1. PICK i \in 1..Len(ReadOrder) : o = ReadOrder[i] /\ i < pos + 1
  BY <1>0 DEF ReadBefore
<1>2. i < pos => o \in ReadBefore(pos)
  BY <1>0, <1>1 DEF ReadBefore
<1>3. CASE pos \in 1..Len(ReadOrder)
  <2> DEFINE a == [s.acl EXCEPT ![ReadOrder[pos]] = c.acl[ReadOrder[pos]]]
             k == [f \in SecuredFunctions |->
                      IF f = ReadOrder[pos] THEN c.config[f] ELSE s.config[f]]
  <2>1. Captured(s, pos, c).acl = a /\ Captured(s, pos, c).config = k
    BY <1>3, CapturedObject
  <2>2. Described(pos) = {ReadOrder[pos]}
    BY <1>0, <1>3 DEF Described
  <2>3. o = ReadOrder[pos] => a[o] = c.acl[o] /\ (o \in SecuredFunctions => k[o] = c.config[o])
    BY <1>0
  <2>4. o # ReadOrder[pos] => a[o] = s.acl[o] /\ (o \in SecuredFunctions => k[o] = s.config[o])
    BY <1>0
  <2>5. o # ReadOrder[pos] => i < pos
    BY <1>0, <1>1
  <2> HIDE DEF a, k
  <2>6. QED BY <1>0, <1>2, <2>1, <2>2, <2>3, <2>4, <2>5
<1>4. CASE pos = Len(ReadOrder) + 1
  <2>1. Captured(s, pos, c).acl = s.acl /\ Captured(s, pos, c).config = s.config
    BY <1>4, RolesSection
  <2>2. Described(pos) = {"roles"} /\ i < pos
    BY <1>0, <1>1, <1>4 DEF Described
  <2>3. QED BY <1>0, <1>2, <2>1, <2>2
<1>5. CASE pos = Len(ReadOrder) + 2
  <2>1. Captured(s, pos, c).acl = s.acl /\ Captured(s, pos, c).config = s.config
    BY <1>5, LastSection
  <2>2. Described(pos) = {} /\ i < pos
    BY <1>0, <1>1, <1>5 DEF Described
  <2>3. QED BY <1>0, <1>2, <2>1, <2>2
<1>6. QED BY <1>0, <1>3, <1>4, <1>5 DEF Sections

LEMMA SectionRoles ==
  ASSUME NEW s \in RbCapture, NEW c, NEW pos \in 1..Sections
  PROVE  LET n == Captured(s, pos, c) IN
         \/ /\ pos = Len(ReadOrder) + 1 /\ Described(pos) = {"roles"}
            /\ n.roles = c.roles /\ n.members = c.members
         \/ /\ pos # Len(ReadOrder) + 1 /\ "roles" \notin Described(pos)
            /\ n.roles = s.roles /\ n.members = s.members
<1>0. Len(ReadOrder) \in Nat /\ "roles" \notin Objects /\ pos \in Nat
      /\ \A i \in 1..Len(ReadOrder) : ReadOrder[i] \in Objects
  BY RbLength, CaptureIsWhole DEF Sections
<1>1. CASE pos \in 1..Len(ReadOrder)
  <2>1. Described(pos) = {ReadOrder[pos]}
    BY <1>0, <1>1 DEF Described
  <2>2. QED BY <1>0, <1>1, <2>1, CapturedObject
<1>2. CASE pos = Len(ReadOrder) + 1
  <2>1. Described(pos) = {"roles"}
    BY <1>0, <1>2 DEF Described
  <2>2. QED BY <1>2, <2>1, RolesSection
<1>3. CASE pos = Len(ReadOrder) + 2
  <2>1. Described(pos) = {} /\ pos # Len(ReadOrder) + 1
    BY <1>0, <1>3 DEF Described
  <2>2. QED BY <1>3, <2>1, LastSection
<1>4. QED BY <1>0, <1>1, <1>2, <1>3 DEF Sections

LEMMA NothingReadYet == ReadBefore(1) = {}
BY RbLength DEF ReadBefore

LEMMA ReadBeforePrime == ASSUME NEW p PROVE ReadBefore(p) \subseteq Objects
BY DEF ReadBefore, Objects

DraftSteps ==
    \/ \E o \in AuditedObjects : RestoreAcl(o)
    \/ \E f \in SecuredFunctions : RestoreConfig(f)
    \/ \E r \in PhaseRoles : DropRole(r)

LEMMA DraftStep ==
  ASSUME RestoreTypeOK, DraftSteps
  PROVE  /\ restore.at = "run" /\ restore'.at = "run"
         /\ restore'.pos = restore.pos /\ restore'.seen = restore.seen
         /\ restore'.before = restore.before
         /\ UNCHANGED <<catalog, foreign, raced, late>>
<1>0. RbRestoreForm /\ RbDraft(restore.draft)
  BY DEF RestoreTypeOK, RbRestoreForm, RbRow
<1>1. \E d : restore' = RbRow(restore.at, restore.pos, restore.before, restore.seen, d)
  <2>1. ASSUME NEW o, RestoreAcl(o)
        PROVE  \E d : restore' = RbRow(restore.at, restore.pos, restore.before, restore.seen, d)
    BY <1>0, <2>1, RestoreAclForm
  <2>2. ASSUME NEW f, RestoreConfig(f)
        PROVE  \E d : restore' = RbRow(restore.at, restore.pos, restore.before, restore.seen, d)
    BY <1>0, <2>2, RestoreConfigForm
  <2>3. ASSUME NEW r, DropRole(r)
        PROVE  \E d : restore' = RbRow(restore.at, restore.pos, restore.before, restore.seen, d)
    BY <1>0, <2>3, DropRoleForm
  <2>4. QED BY <2>1, <2>2, <2>3 DEF DraftSteps
<1>2. restore.at = "run" /\ UNCHANGED <<catalog, foreign, raced, late>>
  BY DEF DraftSteps, RestoreAcl, RestoreConfig, DropRole
<1>3. QED BY <1>1, <1>2 DEF RbRow

LEMMA ReadIsCurrentStep ==
  ASSUME RollbackBase, ReadIsCurrent, RollbackNext PROVE ReadIsCurrent'
<1>0. RestoreTypeOK /\ RbRestoreForm /\ RbDraft(restore.draft)
  BY BaseParts DEF RestoreTypeOK, RbRestoreForm, RbRow
<1>1. ReadIsCurrent' <=>
        (restore'.at \in {"read", "run"} =>
            \A o \in ReadBefore(restore'.pos) \ raced' : restore'.seen.acl[o] = catalog'.acl[o])
  BY DEF ReadIsCurrent, ReadBefore
<1>2. CASE SurveySteps
  BY <1>2 DEF SurveySteps, SurveyBegin, SurveyRead, SurveyWrite, SurveySeal, SurveyDies, ReadIsCurrent,
             ReadBefore
<1>3. CASE Migrate \/ Foreign
  <2>1. PICK what : OthersChange(what)
    BY <1>3, OtherSessionsStep
  <2>2. restore' = restore
    BY <1>3, OtherSessionsStep
  <2>3. restore.at # "idle" => raced' = raced \cup what
    BY <2>1, DisturbForm DEF OthersChange
  <2>4. \A o \in Objects \ what : catalog'.acl[o] = catalog.acl[o]
    BY <2>1 DEF OthersChange
  <2>5. QED BY <1>1, <2>2, <2>3, <2>4, ReadBeforePrime DEF ReadIsCurrent
<1>4. CASE RestoreBegin
  <2>1. restore'.pos = 1
    BY <1>4, BeginForm, RowFields
  <2>2. QED BY <1>1, <2>1, NothingReadYet
<1>5. CASE RestoreRead
  <2>1. /\ restore'.pos = restore.pos + 1 /\ restore.at = "read"
        /\ restore'.seen = Captured(restore.seen, restore.pos, catalog)
        /\ raced' = raced \ Described(restore.pos) /\ catalog' = catalog
        /\ restore.pos \in 1..Sections
    BY <1>0, <1>5, ReadForm, RowFields, RbLength DEF RestoreRead, RestoreTypeOK, Sections
  <2>2. ASSUME NEW o \in ReadBefore(restore.pos + 1), o \notin raced'
        PROVE  restore'.seen.acl[o] = catalog'.acl[o]
    <3>1. restore.seen \in RbCapture
      BY <1>0 DEF RestoreTypeOK
    <3>2. \/ /\ o \in Described(restore.pos) /\ restore'.seen.acl[o] = catalog.acl[o]
          \/ /\ o \notin Described(restore.pos) /\ o \in ReadBefore(restore.pos)
             /\ restore'.seen.acl[o] = restore.seen.acl[o]
      BY <2>1, <3>1, SectionAcl
    <3>3. QED BY <2>1, <2>2, <3>2 DEF ReadIsCurrent
  <2>3. QED BY <1>1, <2>1, <2>2
<1>6. CASE RestorePlan
  <2>1. restore'.pos = restore.pos /\ restore'.seen = restore.seen /\ restore.at = "read"
        /\ UNCHANGED <<catalog, raced>>
    BY <1>0, <1>6, PlanForm, RowFields DEF RestorePlan
  <2>2. QED BY <1>1, <2>1 DEF ReadIsCurrent
<1>7. CASE \/ \E o \in AuditedObjects : RestoreAcl(o)
           \/ \E f \in SecuredFunctions : RestoreConfig(f)
           \/ \E r \in PhaseRoles : DropRole(r)
  <2>1. restore'.pos = restore.pos /\ restore'.seen = restore.seen /\ restore'.at = restore.at
        /\ UNCHANGED <<catalog, raced>>
    BY <1>0, <1>7, DraftStep DEF DraftSteps
  <2>2. QED BY <1>1, <2>1 DEF ReadIsCurrent
<1>8. CASE RestoreRecapture
  BY <1>0, <1>1, <1>8, RecaptureForm, RowFields
<1>9. CASE RestoreReread
  BY <1>0, <1>1, <1>9, RereadForm, RowFields DEF RestoreReread
<1>10. CASE RestoreCommit \/ RestoreEnds
  BY <1>1, <1>10, NoRestoreForm, RowFields DEF RestoreCommit, RestoreEnds
<1>11. QED BY <1>2, <1>3, <1>4, <1>5, <1>6, <1>7, <1>8, <1>9, <1>10, RollbackStepKinds
         DEF RestoreSteps

LEMMA ViewPrime ==
  View' = LET d == restore'.draft IN
    [acl     |-> [o \in Objects |-> IF o \in DOMAIN d.acl THEN d.acl[o] ELSE catalog'.acl[o]],
     config  |-> [f \in SecuredFunctions |->
                     IF f \in DOMAIN d.config THEN d.config[f] ELSE catalog'.config[f]],
     roles   |-> catalog'.roles \ d.dropped,
     members |-> {m \in catalog'.members : {m[1], m[2]} \cap d.dropped = {}},
     ties    |-> catalog'.ties]
BY DEF View, Objects

LEMMA RereadIsCurrentStep ==
  ASSUME RollbackBase, RereadIsCurrent, RollbackNext PROVE RereadIsCurrent'
<1>0. RestoreTypeOK /\ RbRestoreForm /\ RbDraft(restore.draft)
  BY BaseParts DEF RestoreTypeOK, RbRestoreForm, RbRow
<1>1. RereadIsCurrent' <=>
        (restore'.at = "verify" =>
          /\ \A o \in ReadBefore(restore'.pos) \ late' :
                 /\ restore'.seen.acl[o] = View'.acl[o]
                 /\ o \in SecuredFunctions => restore'.seen.config[o] = View'.config[o]
          /\ restore'.pos > Len(ReadOrder) + 1 /\ "roles" \notin late' =>
                 restore'.seen.roles = View'.roles /\ restore'.seen.members = View'.members)
  BY DEF RereadIsCurrent, ReadBefore
<1>2. CASE SurveySteps
  <2>1. UNCHANGED <<restore, catalog, late>>
    BY <1>2 DEF SurveySteps, SurveyBegin, SurveyRead, SurveyWrite, SurveySeal, SurveyDies
  <2>2. View' = View
    BY <2>1, ViewPrime DEF View
  <2>3. QED BY <1>1, <2>1, <2>2 DEF RereadIsCurrent
<1>3. CASE Migrate \/ Foreign
  <2>1. PICK what : OthersChange(what)
    BY <1>3, OtherSessionsStep
  <2>2. restore' = restore
    BY <1>3, OtherSessionsStep
  <2>3. restore.at # "idle" => late' = late \cup what
    BY <2>1, DisturbForm DEF OthersChange
  <2>4. /\ \A o \in Objects \ what : View'.acl[o] = View.acl[o]
        /\ \A f \in SecuredFunctions \ what : View'.config[f] = View.config[f]
        /\ "roles" \notin what => View'.roles = View.roles /\ View'.members = View.members
    BY <2>1, <2>2, ViewPrime DEF OthersChange, View
  <2>5. QED BY <1>1, <2>2, <2>3, <2>4, ReadBeforePrime DEF RereadIsCurrent
<1>4. CASE RestoreReread
  <2>1. /\ restore'.pos = restore.pos + 1 /\ restore.at = "verify"
        /\ restore'.seen = Captured(restore.seen, restore.pos, View)
        /\ late' = late \ Described(restore.pos)
        /\ restore'.draft = restore.draft /\ catalog' = catalog
        /\ restore.pos \in 1..Sections
    BY <1>0, <1>4, RereadForm, RowFields, RbLength DEF RestoreReread, RestoreTypeOK, Sections
  <2>2. View' = View
    BY <2>1, ViewPrime DEF View
  <2>3. restore.seen \in RbCapture
    BY <1>0 DEF RestoreTypeOK
  <2>4. ASSUME NEW o \in ReadBefore(restore.pos + 1), o \notin late'
        PROVE  /\ restore'.seen.acl[o] = View.acl[o]
               /\ o \in SecuredFunctions => restore'.seen.config[o] = View.config[o]
    <3>1. \/ /\ o \in Described(restore.pos) /\ restore'.seen.acl[o] = View.acl[o]
             /\ o \in SecuredFunctions => restore'.seen.config[o] = View.config[o]
          \/ /\ o \notin Described(restore.pos) /\ o \in ReadBefore(restore.pos)
             /\ restore'.seen.acl[o] = restore.seen.acl[o]
             /\ o \in SecuredFunctions => restore'.seen.config[o] = restore.seen.config[o]
      BY <2>1, <2>3, SectionAcl
    <3>2. QED BY <2>1, <2>4, <3>1 DEF RereadIsCurrent
  <2>5. ASSUME restore.pos + 1 > Len(ReadOrder) + 1, "roles" \notin late'
        PROVE  restore'.seen.roles = View.roles /\ restore'.seen.members = View.members
    <3>1. \/ /\ restore.pos = Len(ReadOrder) + 1
             /\ restore'.seen.roles = View.roles /\ restore'.seen.members = View.members
          \/ /\ restore.pos # Len(ReadOrder) + 1 /\ "roles" \notin Described(restore.pos)
             /\ restore'.seen.roles = restore.seen.roles
             /\ restore'.seen.members = restore.seen.members
      BY <2>1, <2>3, SectionRoles
    <3>2. restore.pos # Len(ReadOrder) + 1 => restore.pos > Len(ReadOrder) + 1
      BY <2>1, <2>5, RbLength DEF Sections
    <3>3. QED BY <2>1, <2>5, <3>1, <3>2 DEF RereadIsCurrent
  <2>6. QED BY <1>1, <2>1, <2>2, <2>4, <2>5
<1>5. CASE RestoreRecapture
  <2>1. restore'.pos = 1
    BY <1>0, <1>5, RecaptureForm, RowFields
  <2>2. ~(1 > Len(ReadOrder) + 1)
    BY RbLength
  <2>3. QED BY <1>1, <2>1, <2>2, NothingReadYet
<1>6. CASE \/ RestoreBegin \/ RestoreRead \/ RestorePlan \/ RestoreCommit \/ RestoreEnds
           \/ \E o \in AuditedObjects : RestoreAcl(o)
           \/ \E f \in SecuredFunctions : RestoreConfig(f)
           \/ \E r \in PhaseRoles : DropRole(r)
  <2>1. restore'.at # "verify"
    <3>1. CASE RestoreBegin
      BY <3>1, BeginForm, RowFields
    <3>2. CASE RestoreRead
      BY <1>0, <3>2, ReadForm, RowFields DEF RestoreRead
    <3>3. CASE RestorePlan
      BY <1>0, <3>3, PlanForm, RowFields
    <3>4. CASE RestoreCommit \/ RestoreEnds
      BY <3>4, NoRestoreForm, RowFields DEF RestoreCommit, RestoreEnds
    <3>5. CASE DraftSteps
      BY <1>0, <3>5, DraftStep
    <3>6. QED BY <1>6, <3>1, <3>2, <3>3, <3>4, <3>5 DEF DraftSteps
  <2>2. QED BY <1>1, <2>1
<1>7. QED BY <1>2, <1>3, <1>4, <1>5, <1>6, RollbackStepKinds DEF RestoreSteps

-----------------------------------------------------------------------------
(* The plan, and what the draft does with the grants and roles of others.  *)
LEMMA PlanIsExplainedStep ==
  ASSUME RollbackBase, PlanIsExplained, RollbackNext PROVE PlanIsExplained'
<1>0. RestoreTypeOK /\ RbRestoreForm /\ RbDraft(restore.draft)
  BY BaseParts DEF RestoreTypeOK, RbRestoreForm, RbRow
<1>1. PlanIsExplained' <=>
        /\ restore'.at = "run" => /\ restore'.pos = Sections + 1
                                  /\ AclExplained(restore'.before, restore'.seen)
                                  /\ restore'.draft.dropped \subseteq
                                         (PhaseRoles \ restore'.before.roles) \cap restore'.seen.roles
        /\ restore'.at \in {"idle", "read"} => restore'.draft = NoDraft
  BY DEF PlanIsExplained, RolesToDrop, AclExplained, Sections, Objects, NoDraft, Public
<1>2. CASE UNCHANGED restore
  BY <1>1, <1>2 DEF PlanIsExplained, RolesToDrop
<1>3. CASE RestoreBegin
  BY <1>1, <1>3, BeginForm, RowFields
<1>4. CASE RestoreRead
  BY <1>0, <1>1, <1>4, ReadForm, RowFields DEF RestoreRead, PlanIsExplained
<1>5. CASE RestorePlan
  <2>1. /\ restore'.at = "run" /\ restore'.pos = restore.pos /\ restore.pos = Sections + 1
        /\ restore'.before = restore.before /\ restore'.seen = restore.seen
        /\ restore'.draft = restore.draft /\ restore.at = "read"
        /\ AclExplained(restore.before, restore.seen)
    BY <1>0, <1>5, PlanForm, RowFields DEF RestorePlan, Explained
  <2>2. restore.draft = NoDraft
    BY <2>1 DEF PlanIsExplained
  <2>3. QED BY <1>1, <2>1, <2>2, NoDraftTyped
<1>6. CASE DraftSteps
  <2>1. /\ restore.at = "run" /\ restore'.at = "run"
        /\ restore'.pos = restore.pos /\ restore'.seen = restore.seen
        /\ restore'.before = restore.before
    BY <1>0, <1>6, DraftStep
  <2>2. restore'.draft.dropped \subseteq RolesToDrop
    <3>1. restore.draft.dropped \subseteq RolesToDrop
      BY <2>1 DEF PlanIsExplained
    <3>2. ASSUME NEW o, RestoreAcl(o) PROVE restore'.draft.dropped = restore.draft.dropped
      BY <1>0, <3>2, RestoreAclForm DEF RbRow
    <3>3. ASSUME NEW f, RestoreConfig(f) PROVE restore'.draft.dropped = restore.draft.dropped
      BY <1>0, <3>3, RestoreConfigForm DEF RbRow
    <3>4. ASSUME NEW r, DropRole(r)
          PROVE  restore'.draft.dropped = restore.draft.dropped \cup {r} /\ r \in RolesToDrop
      <4>1. r \in RolesToDrop
        BY <3>4 DEF DropRole
      <4>2. QED BY <1>0, <3>4, <4>1, DropRoleForm DEF RbRow
    <3>5. QED BY <1>6, <3>1, <3>2, <3>3, <3>4 DEF DraftSteps
  <2>3. QED BY <1>1, <2>1, <2>2 DEF PlanIsExplained, RolesToDrop
<1>7. CASE RestoreRecapture
  BY <1>0, <1>1, <1>7, RecaptureForm, RowFields
<1>8. CASE RestoreReread
  BY <1>0, <1>1, <1>8, RereadForm, RowFields DEF RestoreReread
<1>9. CASE RestoreCommit \/ RestoreEnds
  BY <1>1, <1>9, NoRestoreForm, RowFields DEF RestoreCommit, RestoreEnds
<1>10. SurveySteps \/ Migrate \/ Foreign => UNCHANGED restore
  BY DEF SurveySteps, SurveyBegin, SurveyRead, SurveyWrite, SurveySeal, SurveyDies, Migrate, Foreign
<1>11. QED BY <1>2, <1>3, <1>4, <1>5, <1>6, <1>7, <1>8, <1>9, <1>10, RollbackStepKinds
         DEF RestoreSteps, DraftSteps

(* The statements that restore an object keep the grants of others on it.  *)
LEMMA RestoreAclKeepsForeign ==
  ASSUME RollbackBase, ForeignIsForeign, ReadIsCurrent, PlanIsExplained,
         NEW o \in AuditedObjects, RestoreAcl(o), o \notin raced,
         NEW g \in foreign, g[1] = o
  PROVE  g[2] \in RbAclNew(o)
<1>1. restore.at = "run" /\ o \in Objects /\ o \in ReadBefore(Sections + 1)
  <2>1. o \in Objects
    BY CaptureIsWhole
  <2>2. PICK i \in DOMAIN ReadOrder : ReadOrder[i] = o
    BY <2>1 DEF Objects
  <2>3. i < Sections + 1
    BY <2>2, RbLength DEF Sections
  <2>4. QED BY <2>1, <2>2, <2>3 DEF ReadBefore, RestoreAcl
<1>2. restore.seen.acl[o] = catalog.acl[o] /\ AclExplained(restore.before, restore.seen)
  BY <1>1 DEF ReadIsCurrent, PlanIsExplained
<1>3. g[2] \in catalog.acl[o] /\ ~(g[2][2] = "use" /\ <<o, g[2][1]>> \in GrantSurface)
  BY DEF ForeignIsForeign
<1>4. g[2] \in restore.before.acl[o]
  BY <1>1, <1>2, <1>3 DEF AclExplained
<1>5. QED BY <1>4 DEF RbAclNew

LEMMA DraftKeepsForeignStep ==
  ASSUME RollbackBase, ForeignIsForeign, ReadIsCurrent, PlanIsExplained, DraftKeepsForeign,
         RollbackNext
  PROVE  DraftKeepsForeign'
<1>0. RestoreTypeOK /\ RbRestoreForm /\ RbDraft(restore.draft)
  BY BaseParts DEF RestoreTypeOK, RbRestoreForm, RbRow
<1>1. DraftKeepsForeign' <=>
        \A g \in foreign' :
            g[1] \in DOMAIN restore'.draft.acl \ raced' => g[2] \in restore'.draft.acl[g[1]]
  BY DEF DraftKeepsForeign
<1>2. restore'.draft = NoDraft => DraftKeepsForeign'
  BY <1>1, NoDraftTyped
<1>3. restore'.draft.acl = restore.draft.acl /\ UNCHANGED <<foreign, raced>> => DraftKeepsForeign'
  BY <1>1 DEF DraftKeepsForeign
<1>4. CASE SurveySteps
  BY <1>3, <1>4 DEF SurveySteps, SurveyBegin, SurveyRead, SurveyWrite, SurveySeal, SurveyDies
<1>5. CASE Migrate \/ Foreign
  <2>1. PICK what : OthersChange(what)
    BY <1>5, OtherSessionsStep
  <2>2. restore' = restore
    BY <1>5, OtherSessionsStep
  <2>3. CASE restore.at = "idle"
    BY <1>2, <2>2, <2>3 DEF PlanIsExplained
  <2>4. CASE restore.at # "idle"
    <3>1. raced \subseteq raced'
      BY <2>1, <2>4, DisturbForm DEF OthersChange
    <3>2. \A g \in foreign' \ foreign : g[1] \notin DOMAIN restore.draft.acl
      BY <2>1 DEF OthersChange, Locked
    <3>3. QED BY <1>1, <2>2, <3>1, <3>2 DEF DraftKeepsForeign
  <2>5. QED BY <2>3, <2>4
<1>6. CASE RestoreBegin
  BY <1>2, <1>6, BeginForm, RowFields
<1>7. CASE RestoreRead
  <2>1. restore'.draft = restore.draft
    BY <1>0, <1>7, ReadForm, RowFields
  <2>2. restore.draft = NoDraft
    BY <1>7 DEF RestoreRead, PlanIsExplained
  <2>3. QED BY <1>2, <2>1, <2>2
<1>8. CASE RestorePlan \/ RestoreRecapture \/ RestoreReread
  <2>1. restore'.draft = restore.draft
    BY <1>0, <1>8, PlanForm, RecaptureForm, RereadForm, RowFields
  <2>2. QED BY <1>3, <1>8, <2>1 DEF RestorePlan, RestoreRecapture, RestoreReread
<1>9. ASSUME NEW o \in AuditedObjects, RestoreAcl(o) PROVE DraftKeepsForeign'
  <2> DEFINE w == RbAclNew(o)
             a == Extend(restore.draft.acl, o, w)
  <2>1. restore'.draft.acl = a
    BY <1>0, <1>9, RestoreAclForm DEF RbRow
  <2>2. DOMAIN a = DOMAIN restore.draft.acl \cup {o} /\ a[o] = w
        /\ \A y \in DOMAIN restore.draft.acl : y # o => a[y] = restore.draft.acl[y]
    BY DEF Extend
  <2>3. UNCHANGED <<foreign, raced>>
    BY <1>9 DEF RestoreAcl
  <2>4. \A g \in foreign : g[1] = o /\ o \notin raced => g[2] \in w
    BY <1>9, RestoreAclKeepsForeign
  <2> HIDE DEF a, w
  <2>5. QED BY <1>1, <2>1, <2>2, <2>3, <2>4 DEF DraftKeepsForeign
<1>10. ASSUME NEW f, RestoreConfig(f) PROVE DraftKeepsForeign'
  <2>1. restore'.draft.acl = restore.draft.acl
    BY <1>0, <1>10, RestoreConfigForm DEF RbRow
  <2>2. QED BY <1>3, <1>10, <2>1 DEF RestoreConfig
<1>11. ASSUME NEW r, DropRole(r) PROVE DraftKeepsForeign'
  <2>1. restore'.draft.acl = restore.draft.acl
    BY <1>0, <1>11, DropRoleForm DEF RbRow
  <2>2. QED BY <1>3, <1>11, <2>1 DEF DropRole
<1>12. CASE RestoreCommit \/ RestoreEnds
  BY <1>2, <1>12, NoRestoreForm, RowFields DEF RestoreCommit, RestoreEnds
<1>13. QED BY <1>4, <1>5, <1>6, <1>7, <1>8, <1>9, <1>10, <1>11, <1>12, RollbackStepKinds
         DEF RestoreSteps

LEMMA DroppedAreUnusedStep ==
  ASSUME RollbackBase, PlanIsExplained, DroppedAreUnused, RollbackNext
  PROVE  DroppedAreUnused'
<1>0. RestoreTypeOK /\ RbRestoreForm /\ RbDraft(restore.draft)
  BY BaseParts DEF RestoreTypeOK, RbRestoreForm, RbRow
<1>1. DroppedAreUnused' <=>
        /\ restore'.at = "run" /\ "roles" \notin raced' =>
               \A m \in catalog'.members :
                   LET doomed == (PhaseRoles \ restore'.before.roles) \cap restore'.seen.roles
                   IN  m[1] \notin doomed /\ m[2] \notin doomed
        /\ restore'.at = "verify" /\ "roles" \notin raced' =>
               \A m \in catalog'.members :
                   m[1] \notin restore'.draft.dropped /\ m[2] \notin restore'.draft.dropped
        /\ restore'.draft.dropped \cap catalog'.ties = {}
  BY DEF DroppedAreUnused, RolesToDrop
<1>2. UNCHANGED <<restore, catalog, raced>> => DroppedAreUnused'
  BY <1>1 DEF DroppedAreUnused, RolesToDrop
<1>3. restore'.draft = NoDraft /\ restore'.at \in {"idle", "read"} => DroppedAreUnused'
  BY <1>1, NoDraftTyped
<1>4. CASE SurveySteps
  BY <1>2, <1>4 DEF SurveySteps, SurveyBegin, SurveyRead, SurveyWrite, SurveySeal, SurveyDies
<1>5. CASE Migrate \/ Foreign
  <2>1. PICK what : OthersChange(what)
    BY <1>5, OtherSessionsStep
  <2>2. restore' = restore
    BY <1>5, OtherSessionsStep
  <2>3. restore.at # "idle" => raced' = raced \cup what
    BY <2>1, DisturbForm DEF OthersChange
  <2>4. "roles" \notin what => catalog'.members = catalog.members
    BY <2>1 DEF OthersChange
  <2>5. \A r \in restore.draft.dropped : r \in catalog'.ties => r \in catalog.ties
    BY <2>1 DEF OthersChange, Locked
  <2>6. QED BY <1>1, <2>2, <2>3, <2>4, <2>5 DEF DroppedAreUnused, RolesToDrop
<1>6. CASE RestoreBegin
  BY <1>3, <1>6, BeginForm, RowFields
<1>7. CASE RestoreRead
  <2>1. restore'.draft = restore.draft /\ restore'.at = "read"
    BY <1>0, <1>7, ReadForm, RowFields DEF RestoreRead
  <2>2. restore.draft = NoDraft
    BY <1>7 DEF RestoreRead, PlanIsExplained
  <2>3. QED BY <1>3, <2>1, <2>2
<1>8. CASE RestorePlan
  <2>1. /\ restore'.at = "run" /\ restore'.before = restore.before /\ restore'.seen = restore.seen
        /\ restore'.draft = restore.draft /\ UNCHANGED <<catalog, raced>>
        /\ RolesFree(restore.before)
    BY <1>0, <1>8, PlanForm, RowFields DEF RestorePlan
  <2>2. OfItsRoles(restore.before)
    BY <1>0 DEF RestoreTypeOK
  <2>3. ASSUME NEW m \in catalog.members
        PROVE  m[1] \notin RolesToDrop /\ m[2] \notin RolesToDrop
    BY <2>1, <2>2 DEF RolesFree, OfItsRoles, RolesToDrop
  <2>4. QED BY <1>1, <2>1, <2>3 DEF DroppedAreUnused, RolesToDrop
<1>9. CASE DraftSteps
  <2>1. /\ restore.at = "run" /\ restore'.at = "run" /\ restore'.seen = restore.seen
        /\ restore'.before = restore.before /\ UNCHANGED <<catalog, raced>>
    BY <1>0, <1>9, DraftStep
  <2>2. restore'.draft.dropped \cap catalog.ties = {}
    <3>1. restore.draft.dropped \cap catalog.ties = {}
      BY DEF DroppedAreUnused
    <3>2. ASSUME NEW o, RestoreAcl(o) PROVE restore'.draft.dropped = restore.draft.dropped
      BY <1>0, <3>2, RestoreAclForm DEF RbRow
    <3>3. ASSUME NEW f, RestoreConfig(f) PROVE restore'.draft.dropped = restore.draft.dropped
      BY <1>0, <3>3, RestoreConfigForm DEF RbRow
    <3>4. ASSUME NEW r, DropRole(r)
          PROVE  restore'.draft.dropped = restore.draft.dropped \cup {r} /\ r \notin catalog.ties
      <4>1. View.ties = catalog.ties
        BY DEF View
      <4>2. r \in catalog.ties => <<r, "outside">> \in Dependencies(View)
        BY <4>1 DEF Dependencies
      <4>3. \A d \in Dependencies(View) : d[1] # r
        BY <3>4 DEF DropRole
      <4>4. r \notin catalog.ties
        BY <4>2, <4>3
      <4>5. QED BY <1>0, <3>4, <4>4, DropRoleForm DEF RbRow
    <3>5. QED BY <1>9, <3>1, <3>2, <3>3, <3>4 DEF DraftSteps
  <2>3. QED BY <1>1, <2>1, <2>2 DEF DroppedAreUnused, RolesToDrop
<1>10. CASE RestoreRecapture
  <2>1. /\ restore.at = "run" /\ restore'.at = "verify" /\ restore'.draft = restore.draft
        /\ UNCHANGED <<catalog, raced>>
    BY <1>0, <1>10, RecaptureForm, RowFields DEF RestoreRecapture
  <2>2. restore.draft.dropped \subseteq RolesToDrop
    BY <2>1 DEF PlanIsExplained
  <2>3. QED BY <1>1, <2>1, <2>2 DEF DroppedAreUnused
<1>11. CASE RestoreReread
  <2>1. /\ restore.at = "verify" /\ restore'.at = "verify" /\ restore'.draft = restore.draft
        /\ UNCHANGED <<catalog, raced>>
    BY <1>0, <1>11, RereadForm, RowFields DEF RestoreReread
  <2>2. QED BY <1>1, <2>1 DEF DroppedAreUnused
<1>12. CASE RestoreCommit \/ RestoreEnds
  BY <1>3, <1>12, NoRestoreForm, RowFields DEF RestoreCommit, RestoreEnds
<1>13. QED BY <1>4, <1>5, <1>6, <1>7, <1>8, <1>9, <1>10, <1>11, <1>12, RollbackStepKinds
         DEF RestoreSteps, DraftSteps

-----------------------------------------------------------------------------
LEMMA RollbackInvForm ==
  RollbackInv <=> /\ RollbackBase /\ ForeignIsForeign /\ ReadIsCurrent /\ RereadIsCurrent
                  /\ PlanIsExplained /\ DraftKeepsForeign /\ DroppedAreUnused
BY DEF RollbackInv, RollbackBase

LEMMA RollbackInvInit == RollbackInit => RollbackInv
<1> SUFFICES ASSUME RollbackInit PROVE RollbackInv
  OBVIOUS
<1>1. restore = RbRow("idle", 1, Unread, Unread, NoDraft) /\ foreign = {}
  BY NoRestoreForm DEF RollbackInit
<1>2. restore.at = "idle" /\ restore.draft = NoDraft
  BY <1>1, RowFields
<1>3. QED BY <1>1, <1>2, RollbackBaseInit, RollbackInvForm, NoDraftTyped
        DEF ForeignIsForeign, ReadIsCurrent, RereadIsCurrent, PlanIsExplained,
            DraftKeepsForeign, DroppedAreUnused

LEMMA RollbackInvStep == RollbackInv /\ [RollbackNext]_rollbackVars => RollbackInv'
<1> SUFFICES ASSUME RollbackInv, [RollbackNext]_rollbackVars PROVE RollbackInv'
  OBVIOUS
<1>1. CASE RollbackNext
  <2>1. RollbackBase' /\ ForeignIsForeign' /\ ReadIsCurrent' /\ RereadIsCurrent'
        /\ PlanIsExplained' /\ DraftKeepsForeign' /\ DroppedAreUnused'
    BY <1>1, RollbackInvForm, RollbackBaseStep, ForeignIsForeignStep, ReadIsCurrentStep,
       RereadIsCurrentStep, PlanIsExplainedStep, DraftKeepsForeignStep, DroppedAreUnusedStep
  <2>2. QED BY <2>1 DEF RollbackInv, RollbackBase
<1>2. CASE UNCHANGED rollbackVars
  <2>0. UNCHANGED <<catalog, snapFile, sidecar, survey, restore, foreign, raced, late>>
    BY <1>2 DEF rollbackVars
  <2>1. RollbackTypeOK'
    BY <2>0 DEF RollbackInv, RollbackTypeOK, RbCatalog, RbCapture, RbAcl, RbConfig, RbDraft, Entries,
                Roles, Objects, Public, Sections
  <2>2. MembersAreRoles' /\ ForeignIsForeign'
    BY <2>0 DEF RollbackInv, MembersAreRoles, OfItsRoles, ForeignIsForeign
  <2>3. ReadIsCurrent'
    BY <2>0 DEF RollbackInv, ReadIsCurrent, ReadBefore
  <2>4. RereadIsCurrent'
    <3>1. View' = View
      BY <2>0 DEF View, Objects
    <3>2. QED BY <2>0, <3>1 DEF RollbackInv, RereadIsCurrent, ReadBefore
  <2>5. PlanIsExplained'
    BY <2>0 DEF RollbackInv, PlanIsExplained, RolesToDrop, AclExplained, Sections, Objects, NoDraft,
                Public
  <2>6. DraftKeepsForeign' /\ DroppedAreUnused'
    BY <2>0 DEF RollbackInv, DraftKeepsForeign, DroppedAreUnused, RolesToDrop
  <2>7. QED BY <2>1, <2>2, <2>3, <2>4, <2>5, <2>6 DEF RollbackInv
<1>3. QED BY <1>1, <1>2

(* While others grant and revoke, a rollback never holds more than it      *)
(* read, and what it draws up keeps what it does not know                  *)
(* (htf_baseline_short_phase2_rollback_075_v1.py).                         *)
THEOREM RollbackInvariance == RollbackSpec => []RollbackInv
<1>1. QED BY RollbackInvInit, RollbackInvStep, PTL DEF RollbackSpec

(* The commit of a verified rollback.                                      *)
LEMMA CommitIsSafe ==
  ASSUME RollbackInv, RestoreCommit
  PROVE  SnapshotRestored /\ ForeignKept /\ UsedRolesKept
<1>0. /\ RollbackBase /\ RestoreTypeOK /\ ForeignIsForeign /\ RereadIsCurrent
      /\ DraftKeepsForeign /\ DroppedAreUnused
      /\ catalog' = View /\ restore.at = "verify" /\ restore.pos = Sections + 1
      /\ ~Differs(restore.before, restore.seen) /\ foreign \subseteq Objects \X Entries
  BY RollbackInvForm, BaseParts DEF RestoreCommit, Restored, CatalogTypeOK
<1>1. SnapshotRestored
  <2>1. ASSUME NEW o \in Objects PROVE o \in ReadBefore(restore.pos)
    <3>1. PICK i \in DOMAIN ReadOrder : ReadOrder[i] = o
      BY DEF Objects
    <3>2. i < restore.pos
      BY <1>0, <3>1, RbLength DEF Sections
    <3>3. QED BY <3>1, <3>2 DEF ReadBefore
  <2>2. \A f \in SecuredFunctions : f \in Objects
    BY SurfaceIsAudited, CaptureIsWhole
  <2>3. restore.pos > Len(ReadOrder) + 1
    BY <1>0, RbLength DEF Sections
  <2>4. /\ restore.before.acl = restore.seen.acl /\ restore.before.config = restore.seen.config
        /\ restore.before.roles = restore.seen.roles
        /\ restore.before.members = restore.seen.members
    BY <1>0 DEF Differs
  <2>5. QED BY <1>0, <2>1, <2>2, <2>3, <2>4 DEF RereadIsCurrent, SnapshotRestored
<1>2. ForeignKept
  <2>1. ASSUME NEW g \in foreign, g[1] \notin raced PROVE g[2] \in View.acl[g[1]]
    <3>1. g[1] \in Objects /\ g[2] \in catalog.acl[g[1]]
      BY <1>0 DEF ForeignIsForeign
    <3>2. g[1] \in DOMAIN restore.draft.acl => g[2] \in restore.draft.acl[g[1]]
      BY <1>0, <2>1 DEF DraftKeepsForeign
    <3>3. QED BY <3>1, <3>2 DEF View
  <2>2. QED BY <1>0, <2>1 DEF ForeignKept
<1>3. UsedRolesKept
  <2>1. ASSUME "roles" \notin raced, NEW r \in catalog.roles \ View.roles
        PROVE  r \notin catalog.ties /\ \A m \in catalog.members : r \notin {m[1], m[2]}
    <3>1. r \in restore.draft.dropped
      BY <2>1 DEF View
    <3>2. QED BY <1>0, <2>1, <3>1 DEF DroppedAreUnused
  <2>2. QED BY <1>0, <2>1 DEF UsedRolesKept
<1>4. QED BY <1>1, <1>2, <1>3

(* Whatever other sessions do meanwhile: a rollback of migration 075 that  *)
(* commits puts back what the snapshot holds, but for what was changed     *)
(* after its verification, and takes neither a grant of others nor a role  *)
(* in use that was there when it read them (run_rollback).                 *)
THEOREM RollbackSafety == RollbackSpec => RollbackSafe
<1>1. RollbackInv /\ [RollbackNext]_rollbackVars =>
        [restore.at = "verify" /\ catalog' # catalog /\ restore' = NoRestore
            => SnapshotRestored /\ ForeignKept /\ UsedRolesKept]_rollbackVars
  <2> SUFFICES ASSUME RollbackInv, RollbackNext, restore.at = "verify", catalog' # catalog,
                      restore' = NoRestore
               PROVE  SnapshotRestored /\ ForeignKept /\ UsedRolesKept
    OBVIOUS
  <2>1. NoRestore.at = "idle"
    BY NoRestoreForm, RowFields
  <2>2. RestoreCommit
    BY <2>1 DEF RollbackNext, SurveyBegin, SurveyRead, SurveyWrite, SurveySeal, SurveyDies, Migrate,
        Foreign, RestoreBegin, RestoreRead, RestorePlan, RestoreAcl, RestoreConfig,
        DropRole, RestoreRecapture, RestoreReread, RestoreEnds
  <2>3. QED BY <2>2, CommitIsSafe
<1>2. QED BY <1>1, RollbackInvariance, PTL DEF RollbackSpec, RollbackSafe
===============================================================================
