------------------------------ MODULE HtfFreeze ------------------------------
(***************************************************************************)
(* The timestamp authority of HTF Phase 2: the operator's tool that mints  *)
(* a freeze record, claims its timestamp in PostgreSQL and deploys the     *)
(* runtime activation file (tools/research/..._freeze_record_v1.py), the   *)
(* admin session it works through, and the files it leaves.                *)
(*                                                                         *)
(* Three authorities have to agree: the record, the registration row with  *)
(* the registry of claimed timestamps, and the activation file.  The claim *)
(* writes them one after the other (receipt, commit, activation file), the *)
(* tool may die between any two of them, and two operators may run it.     *)
(*                                                                         *)
(* A record stands for its id and its hash; the contents of a receipt and  *)
(* of an activation file are named by the record they were built from.     *)
(* Time counts whole seconds, the resolution of a freeze timestamp.        *)
(***************************************************************************)
EXTENDS Integers, FiniteSets

CONSTANTS
    Tools,          \* processes of the tool that may run at one time
    FreezeRecords,  \* ids a record can be minted under
    Activations,    \* values of --activation-out
    Protocols,      \* fingerprints of the reviewed protocol, as deployed in turn
    PastWindow,     \* ACCEPTANCE_PAST_WINDOW_S
    FutureWindow,   \* ACCEPTANCE_FUTURE_WINDOW_S
    Legacy,         \* FORBIDDEN_LEGACY_FREEZE_TS
    MaxFreezeTime,  \* bound: the server clock
    MaxKills,       \* bound: tool processes that die
    MaxDrifts       \* bound: changes of the environment of the admin session

ASSUME FreezeConstants ==
    /\ {PastWindow, FutureWindow, MaxFreezeTime, MaxKills, MaxDrifts} \subseteq Nat
    /\ "absent" \notin FreezeRecords /\ Protocols # {}

VARIABLES
    serverNow,     \* now() of a transaction that starts now
    deployed,      \* the fingerprint of the running, pinned code
    broken,        \* what is wrong with the admin session's environment
    minted,        \* the record files
    receipt,       \* the claim receipt beside each activation path
    activation,    \* the activation file at each path
    registration,  \* the row of the experiment
    registry,      \* the freeze registry
    claimed,       \* ghost: the record and path of the claim that committed
    tool,          \* what each process is doing
    kills, drifts

freezeVars == <<serverNow, deployed, broken, minted, receipt, activation,
                registration, registry, claimed, tool, kills, drifts>>

files == <<minted, receipt, activation>>

Absent == "absent"

Idle == [at |-> "idle", rec |-> Absent, path |-> Absent, begun |-> 0]

FreezeTypeOK ==
    /\ serverNow \in 0..MaxFreezeTime /\ deployed \in Protocols
    /\ broken \subseteq {"target", "roles", "grant"} /\ kills \in 0..MaxKills /\ drifts \in 0..MaxDrifts
    /\ minted \in [FreezeRecords -> SUBSET [freeze : Nat, protocol : Protocols, issued : Nat]]
    /\ {receipt, activation} \subseteq [Activations -> FreezeRecords \union {Absent}]
    /\ registration \in [status : {"PENDING", "READY_TO_START", "RUNNING", "CANCELLED", "COMPLETED"},
                         freeze : SUBSET Nat, protocol : SUBSET Protocols]
    /\ registry \subseteq Nat
    /\ claimed \in [rec : FreezeRecords \union {Absent}, path : Activations \union {Absent}]
    /\ tool \in [Tools -> [at : {"idle", "preflighted", "connected", "sealed", "committed", "repair"},
                           rec : FreezeRecords \union {Absent}, path : Activations \union {Absent},
                           begun : Nat]]

FreezeInit ==
    /\ serverNow = 0
    /\ deployed = CHOOSE protocol \in Protocols : TRUE
    /\ broken = {}
    /\ minted = [r \in FreezeRecords |-> {}]
    /\ receipt = [p \in Activations |-> Absent]
    /\ activation = [p \in Activations |-> Absent]
    /\ registration = [status |-> "PENDING", freeze |-> {}, protocol |-> {}]
    /\ registry = {}
    /\ claimed = [rec |-> Absent, path |-> Absent]
    /\ tool = [t \in Tools |-> Idle]
    /\ kills = 0
    /\ drifts = 0

(* The document of a record that was minted.                               *)
Document(r) == CHOOSE d \in minted[r] : TRUE

Exists(r) == minted[r] # {}

(***************************************************************************)
(* The admin session.                                                      *)
(***************************************************************************)
(* connect_admin_db: the pinned server, the reviewed roles and grants and  *)
(* the effective context after SET ROLE are verified on every connection.  *)
TargetPinned == "target" \notin broken

RolesReviewed == "roles" \notin broken

ContextEffective == "grant" \notin broken

Connects == TargetPinned /\ RolesReviewed /\ ContextEffective

(* The tunnel, the roles or the grants change, or are put right.           *)
Drift ==
    /\ drifts < MaxDrifts
    /\ \E b \in {"target", "roles", "grant"} :
           broken' = IF b \in broken THEN broken \ {b} ELSE broken \cup {b}
    /\ drifts' = drifts + 1
    /\ UNCHANGED <<serverNow, deployed, files, registration, registry, claimed, tool, kills>>

(***************************************************************************)
(* Records.                                                                *)
(***************************************************************************)
(* The acceptance window of PostgreSQL, around the given now.              *)
Fresh(freeze, now) == now - PastWindow <= freeze /\ freeze <= now + FutureWindow

(* validate_freeze_record without the window: intact, of the running and   *)
(* pinned protocol, not a legacy boundary, consistent with claimed_at.     *)
Valid(r) ==
    /\ Exists(r)
    /\ Document(r).protocol = deployed
    /\ Document(r).freeze \notin Legacy
    /\ Fresh(Document(r).freeze, Document(r).issued)

(* mint: published by os.link, which refuses a file that is there.         *)
Mint(t, r, freeze) ==
    /\ tool[t] = Idle /\ Connects
    /\ ~Exists(r)
    /\ freeze \notin Legacy /\ Fresh(freeze, serverNow)
    /\ minted' = [minted EXCEPT ![r] = {[freeze   |-> freeze, protocol |-> deployed,
                                         issued   |-> serverNow]}]
    /\ UNCHANGED <<serverNow, deployed, broken, receipt, activation, registration, registry,
                   claimed, tool, kills, drifts>>

(***************************************************************************)
(* Claim.                                                                  *)
(***************************************************************************)
(* _committed_claim_matches: the row says nothing of which record it was.  *)
Matches(r) ==
    /\ registration.status = "RUNNING"
    /\ registration.freeze = {Document(r).freeze}
    /\ registration.protocol = {Document(r).protocol}

Claimable ==
    /\ registration.status \in {"PENDING", "READY_TO_START"}
    /\ registration.freeze = {} /\ registration.protocol = {}

GoTo(t, where) == tool' = [tool EXCEPT ![t].at = where]

Quit(t) == tool' = [tool EXCEPT ![t] = Idle]

(* The read-only preflight of the initial activation.                      *)
Preflight(t, r, p) ==
    /\ tool[t] = Idle /\ Connects
    /\ Valid(r) /\ ~Matches(r)
    /\ Fresh(Document(r).freeze, serverNow)
    /\ Claimable
    /\ tool' = [tool EXCEPT ![t] = [at |-> "preflighted", rec |-> r, path |-> p, begun |-> 0]]
    /\ UNCHANGED <<serverNow, deployed, broken, files, registration, registry, claimed,
                   kills, drifts>>

(* The read-write session.  now() is fixed when its transaction begins.    *)
ConnectActivate(t) ==
    /\ tool[t].at = "preflighted"
    /\ IF Connects
       THEN tool' = [tool EXCEPT ![t].at = "connected", ![t].begun = serverNow]
       ELSE Quit(t)
    /\ UNCHANGED <<serverNow, deployed, broken, files, registration, registry, claimed,
                   kills, drifts>>

SealAccepted(p, r) == receipt[p] \in {Absent, r}

(* The row is read again; _seal_claim_receipt publishes the receipt, or    *)
(* accepts one that is byte for byte the same.                             *)
SealReceipt(t) ==
    LET r == tool[t].rec
        p == tool[t].path
    IN
    /\ tool[t].at = "connected"
    /\ \/ /\ Claimable /\ SealAccepted(p, r)
          /\ receipt' = [receipt EXCEPT ![p] = r]
          /\ GoTo(t, "sealed")
       \/ /\ ~(Claimable /\ SealAccepted(p, r))
          /\ Quit(t)
          /\ UNCHANGED receipt
    /\ UNCHANGED <<serverNow, deployed, broken, minted, activation, registration, registry,
                   claimed, kills, drifts>>

(* research.htf_baseline_short_phase2_activate and COMMIT.  The row is     *)
(* locked, so the checks and the writes are one step; any refusal ends the *)
(* tool and leaves the receipt.                                            *)
Activate(t) ==
    LET r == tool[t].rec
        f == Document(r).freeze
        accepted == /\ ContextEffective
                    /\ Fresh(f, tool[t].begun)
                    /\ Claimable /\ f \notin registry
    IN
    /\ tool[t].at = "sealed"
    /\ \/ /\ accepted
          /\ registration' = [status |-> "RUNNING", freeze |-> {f},
                              protocol |-> {Document(r).protocol}]
          /\ registry' = registry \cup {f}
          /\ claimed' = [rec |-> r, path |-> tool[t].path]
          /\ GoTo(t, "committed")
       \/ /\ ~accepted
          /\ Quit(t)
          /\ UNCHANGED <<registration, registry, claimed>>
    /\ UNCHANGED <<serverNow, deployed, broken, files, kills, drifts>>

(* _write_activation_and_verify(overwrite=False): an activation file that  *)
(* is there is never replaced.                                             *)
WriteActivation(t) ==
    LET p == tool[t].path IN
    /\ tool[t].at = "committed"
    /\ activation' = IF Matches(tool[t].rec) /\ activation[p] = Absent
                     THEN [activation EXCEPT ![p] = tool[t].rec]
                     ELSE activation
    /\ Quit(t)
    /\ UNCHANGED <<serverNow, deployed, broken, minted, receipt, registration, registry,
                   claimed, kills, drifts>>

SameBoundary(r, p) == Exists(r)

(* _require_original_record_identity: the receipt beside the path names    *)
(* this record.                                                            *)
OriginalRecord(r, p) == receipt[p] = r

(* claim --repair-activation-json: the checks of the delayed repair.       *)
CheckRepair(t, r, p) ==
    /\ tool[t] = Idle /\ Connects
    /\ Valid(r) /\ Matches(r)
    /\ OriginalRecord(r, p)
    /\ Document(r).freeze \in registry
    /\ tool' = [tool EXCEPT ![t] = [at |-> "repair", rec |-> r, path |-> p, begun |-> 0]]
    /\ UNCHANGED <<serverNow, deployed, broken, files, registration, registry, claimed,
                   kills, drifts>>

(* The row is read again and the file replaced (os.replace).               *)
Repair(t) ==
    /\ tool[t].at = "repair"
    /\ activation' = IF Matches(tool[t].rec)
                     THEN [activation EXCEPT ![tool[t].path] = tool[t].rec]
                     ELSE activation
    /\ Quit(t)
    /\ UNCHANGED <<serverNow, deployed, broken, minted, receipt, registration, registry,
                   claimed, kills, drifts>>

(* The process dies, or the answer of its commit is lost.                  *)
Kill(t) ==
    /\ kills < MaxKills /\ tool[t] # Idle
    /\ Quit(t)
    /\ kills' = kills + 1
    /\ UNCHANGED <<serverNow, deployed, broken, files, registration, registry, claimed, drifts>>

(***************************************************************************)
(* The rest of the world.                                                  *)
(***************************************************************************)
ServerTick ==
    /\ serverNow < MaxFreezeTime
    /\ serverNow' = serverNow + 1
    /\ UNCHANGED <<deployed, broken, files, registration, registry, claimed, tool,
                   kills, drifts>>

(* Another reviewed protocol is deployed.                                  *)
Deploy ==
    /\ drifts < MaxDrifts
    /\ deployed' \in Protocols \ {deployed}
    /\ drifts' = drifts + 1
    /\ UNCHANGED <<serverNow, broken, files, registration, registry, claimed, tool, kills>>

(* What the registration's guard lets an operator do to the status.        *)
Retire ==
    /\ drifts < MaxDrifts
    /\ \E s \in (CASE registration.status = "PENDING" -> {"READY_TO_START", "CANCELLED"}
                   [] registration.status = "READY_TO_START" -> {"CANCELLED"}
                   [] registration.status = "RUNNING" -> {"CANCELLED", "COMPLETED"}
                   [] OTHER -> {}) :
           registration' = [registration EXCEPT !.status = s]
    /\ drifts' = drifts + 1
    /\ UNCHANGED <<serverNow, deployed, broken, files, registry, claimed, tool, kills>>

FreezeNext ==
    \/ ServerTick \/ Drift \/ Deploy \/ Retire
    \/ \E t \in Tools :
          \/ \E r \in FreezeRecords, freeze \in 0..(MaxFreezeTime + FutureWindow) :
                 Mint(t, r, freeze)
          \/ \E r \in FreezeRecords, p \in Activations :
                 Preflight(t, r, p) \/ CheckRepair(t, r, p)
          \/ ConnectActivate(t) \/ SealReceipt(t) \/ Activate(t) \/ WriteActivation(t)
          \/ Repair(t) \/ Kill(t)

FreezeSpec == FreezeInit /\ [][FreezeNext]_freezeVars

(***************************************************************************)
(* Properties.                                                             *)
(***************************************************************************)
(* An activation file is of the timestamp and the protocol that the        *)
(* registration carries, and of a record sealed beside it: whatever died   *)
(* in between, no file activates a boundary the database did not claim.    *)
ActivationAgrees ==
    \A p \in Activations : activation[p] # Absent =>
        /\ registration.freeze = {Document(activation[p]).freeze}
        /\ registration.protocol = {Document(activation[p]).protocol}
        /\ receipt[p] = activation[p]

(* A committed claim can be completed from its own record after a crash at *)
(* any point: the receipt was sealed before the commit and the registry    *)
(* evidences the timestamp.                                                *)
ClaimIsRepairable ==
    claimed.rec # Absent =>
        /\ receipt[claimed.path] = claimed.rec
        /\ Document(claimed.rec).freeze \in registry
        /\ registration.status = "RUNNING" => Matches(claimed.rec)

(* One claim, one timestamp: nothing is frozen that was not claimed, and   *)
(* the registry holds what was claimed.                                    *)
FreezeIsTheClaim ==
    /\ registration.freeze = (IF claimed.rec = Absent THEN {} ELSE {Document(claimed.rec).freeze})
    /\ registry = registration.freeze

(* Records and receipts are written once, an activation file is replaced   *)
(* by one of the same boundary only, and a second claim never commits.     *)
FrozenOnce ==
    /\ \A r \in FreezeRecords : Exists(r) => minted'[r] = minted[r]
    /\ \A p \in Activations : receipt[p] # Absent => receipt'[p] = receipt[p]
    /\ \A p \in Activations : activation[p] # Absent =>
           Document(activation'[p]).freeze = Document(activation[p]).freeze
    /\ claimed.rec # Absent => claimed' = claimed

(* The three authorities through crashes, two operators, drifting roles    *)
(* and a redeployment (freeze_record_v1.py 449-771).                       *)
FreezeSafe ==
    /\ [](FreezeTypeOK /\ ActivationAgrees /\ ClaimIsRepairable /\ FreezeIsTheClaim)
    /\ [][FrozenOnce]_freezeVars

(* freeze_record_v1.py 40-42: a second record minted in the same second    *)
(* "is therefore always refused" by the repair.                            *)
RepairIsOriginal == \A p \in Activations : activation[p] \in {Absent, claimed.rec}

=============================================================================
