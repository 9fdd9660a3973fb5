----------------------------- MODULE HtfRollback -----------------------------
(***************************************************************************)
(* The privilege snapshot taken before migration 075 of HTF Phase 2 and    *)
(* the rollback driven by it (tools/research/..._acl_snapshot_v1.py and    *)
(* ..._rollback_075_v1.py).                                                *)
(*                                                                         *)
(* A capture is a sequence of SELECTs.  Neither tool holds the catalog     *)
(* still while it reads: the snapshot command works in autocommit and the  *)
(* rollback at READ COMMITTED, so other sessions may grant and revoke      *)
(* between two sections of a capture, between the capture and the          *)
(* statements planned from it, and between the verification and the        *)
(* commit.                                                                 *)
(*                                                                         *)
(* An ACL entry is a grantee with a privilege: "use" is the one 075 grants *)
(* on that object, "more" stands for every other privilege and for a grant *)
(* option.  Owners keep their own entries and are left out, and so are the *)
(* identity of objects, default privileges and role attributes: a change   *)
(* of one of them is never explained by 075 and refuses the rollback as a  *)
(* foreign entry does.                                                     *)
(***************************************************************************)
EXTENDS Integers, Sequences

CONSTANTS
    ReadOrder,         \* the objects of a capture in the order it reads them
    AuditedObjects,    \* database, schema research, Phase-2 relations and functions
    HardenedObjects,   \* of them those that 075 takes from PUBLIC and the app roles
    SecuredFunctions,  \* the insert and the activate function
    GrantSurface,      \* <<object, role>> for every grant of 075
    PhaseRoles,        \* the observer and the admin role
    AppRoles,          \* trad_bot, analytics_runner, analytics_agent
    OtherRoles,        \* every other role
    BornBefore,        \* Phase-2 roles that exist before 075
    MaxForeign,        \* bound: statements of other sessions
    MaxSurveys,        \* bound: snapshot commands
    MaxMigrations,     \* bound: times 075 is applied
    MaxRestores        \* bound: rollback commands

ASSUME SurfaceIsAudited ==
    /\ HardenedObjects \subseteq AuditedObjects
    /\ SecuredFunctions \subseteq HardenedObjects
    /\ GrantSurface \subseteq AuditedObjects \X PhaseRoles

Public == "PUBLIC"

Objects == {ReadOrder[i] : i \in DOMAIN ReadOrder}

Roles == PhaseRoles \cup AppRoles \cup OtherRoles

(* A capture reads every audited object; "roles" names its section of      *)
(* roles and memberships (Described) and is not an object.                 *)
ASSUME CaptureIsWhole ==
    /\ ReadOrder \in Seq(Objects) /\ "roles" \notin Objects
    /\ AuditedObjects \subseteq Objects
    /\ BornBefore \subseteq PhaseRoles

Entries == (Roles \cup {Public}) \X {"use", "more"}

VARIABLES
    catalog,   \* the committed privilege state of the cluster
    snapFile,  \* the snapshot file
    sidecar,   \* its .sha256 file, as the state whose digest it holds
    survey,    \* the snapshot command
    restore,   \* the rollback command and its transaction
    foreign,   \* ghost: grants of other sessions, which 075 never makes
    raced,     \* ghost: what changed after the rollback first read it
    late,      \* ghost: what changed after the rollback verified it
    spent      \* statements and commands so far

rollbackVars == <<catalog, snapFile, sidecar, survey, restore, foreign, raced, late, spent>>

(* What a capture knows before it has read anything, or a missing file.    *)
Unread == [acl       |-> [o \in Objects |-> {}],
           config    |-> [f \in SecuredFunctions |-> "INVOKER"],
           roles     |-> {}, members |-> {}, depends |-> {}, effective |-> {}]

NoDraft == [acl |-> << >>, config |-> << >>, dropped |-> {}]

NoRestore == [at     |-> "idle", pos |-> 1, before |-> Unread, seen |-> Unread,
            draft  |-> NoDraft]

RollbackInit ==
    /\ catalog = [acl     |-> [o \in Objects |-> {<<Public, "use">>}
                                  \cup (AppRoles \X (IF o \in HardenedObjects THEN {"use"} ELSE {}))],
                  config  |-> [f \in SecuredFunctions |-> "INVOKER"],
                  roles   |-> (Roles \ PhaseRoles) \cup BornBefore,
                  members |-> {}, ties |-> {}]
    /\ snapFile = Unread /\ sidecar = Unread
    /\ survey = [pos |-> 0, seen |-> Unread]
    /\ restore = NoRestore
    /\ foreign = {} /\ raced = {} /\ late = {}
    /\ spent = [foreign |-> 0, surveys |-> 0, migrations |-> 0, restores |-> 0]

Spend(what) == spent' = [spent EXCEPT ![what] = @ + 1]

(***************************************************************************)
(* Captures.                                                               *)
(***************************************************************************)
(* _privilege_source_roles: a role draws on itself, PUBLIC and whatever it *)
(* is a member of, directly or not.                                        *)
DrawsOn(r, members) ==
    {Public} \cup
    {g \in Roles : \A closed \in SUBSET Roles :
        (r \in closed /\ \A m \in members : m[2] \in closed => m[1] \in closed)
            => g \in closed}

(* _capture_effective_privileges; the Phase-2 roles are NOINHERIT.         *)
Effective(c, roles) ==
    {x \in roles \X Objects \X {"use", "more"} :
        \E g \in (IF x[1] \in PhaseRoles THEN {x[1], Public} ELSE DrawsOn(x[1], c.members)) :
            <<g, x[3]>> \in c.acl[x[2]]}

(* _capture_shdepend: one row per role named by an ACL, and the ties of a  *)
(* Phase-2 role to something outside the audited surface.                  *)
Dependencies(c) ==
    {d \in Roles \X Objects : \E p \in {"use", "more"} : <<d[1], p>> \in c.acl[d[2]]}
    \cup {<<r, "outside">> : r \in c.ties}

Sections == Len(ReadOrder) + 2

(* capture_state, one section: an object with its ACL and configuration,   *)
(* then roles and memberships, then dependencies and effective privileges. *)
Captured(seen, pos, c) ==
    CASE pos <= Len(ReadOrder) ->
            LET o == ReadOrder[pos] IN
            [seen EXCEPT !.acl[o] = c.acl[o],
                         !.config = [f \in SecuredFunctions |->
                                        IF f = o THEN c.config[f] ELSE @[f]]]
      [] pos = Len(ReadOrder) + 1 ->
            [seen EXCEPT !.roles = c.roles, !.members = c.members]
      [] OTHER ->
            [seen EXCEPT !.depends = {d \in Dependencies(c) : d[1] \in seen.roles},
                         !.effective = Effective(c, seen.roles)]

(* The part of the state that the section at pos describes; the last one   *)
(* is derived from the others.                                             *)
Described(pos) ==
    CASE pos <= Len(ReadOrder)    -> {ReadOrder[pos]}
      [] pos = Len(ReadOrder) + 1 -> {"roles"}
      [] OTHER                    -> {}

(***************************************************************************)
(* The snapshot command.                                                   *)
(***************************************************************************)
SurveyBegin ==
    /\ survey.pos = 0 /\ spent.surveys < MaxSurveys
    /\ survey' = [pos |-> 1, seen |-> Unread]
    /\ Spend("surveys")
    /\ UNCHANGED <<catalog, snapFile, sidecar, restore, foreign, raced, late>>

SurveyRead ==
    /\ survey.pos \in 1..Sections
    /\ survey' = [pos |-> survey.pos + 1, seen |-> Captured(survey.seen, survey.pos, catalog)]
    /\ UNCHANGED <<catalog, snapFile, sidecar, restore, foreign, raced, late, spent>>

(* write_snapshot: the file, over any older one, then its checksum.        *)
SurveyWrite ==
    /\ survey.pos = Sections + 1
    /\ snapFile' = survey.seen
    /\ survey' = [survey EXCEPT !.pos = @ + 1]
    /\ UNCHANGED <<catalog, sidecar, restore, foreign, raced, late, spent>>

SurveySeal ==
    /\ survey.pos = Sections + 2
    /\ sidecar' = survey.seen
    /\ survey' = [survey EXCEPT !.pos = 0]
    /\ UNCHANGED <<catalog, snapFile, restore, foreign, raced, late, spent>>

(* The command dies or loses its connection; what it wrote stays.          *)
SurveyDies ==
    /\ survey.pos # 0
    /\ survey' = [survey EXCEPT !.pos = 0]
    /\ UNCHANGED <<catalog, snapFile, sidecar, restore, foreign, raced, late, spent>>

(***************************************************************************)
(* Migration 075 and the other sessions of the cluster.                    *)
(***************************************************************************)
(* Objects and roles whose catalog rows the open transaction has locked.   *)
Locked == DOMAIN restore.draft.acl \cup DOMAIN restore.draft.config \cup restore.draft.dropped

(* What changed is remembered while a rollback is under way.               *)
Disturb(what) ==
    IF restore.at = "idle" THEN UNCHANGED <<raced, late>>
    ELSE raced' = raced \cup what /\ late' = late \cup what

(* 075, one transaction: roles, revokes, SECURITY DEFINER, grants.         *)
Migrate ==
    /\ spent.migrations < MaxMigrations
    /\ Locked = {}
    /\ catalog' = [catalog EXCEPT
           !.roles  = @ \cup PhaseRoles,
           !.config = [f \in SecuredFunctions |-> "DEFINER"],
           !.acl    = [o \in Objects |->
               {e \in @[o] : ~(o \in HardenedObjects /\ e[1] \in AppRoles \cup {Public})}
               \cup {<<r, "use">> : r \in {p \in PhaseRoles : <<o, p>> \in GrantSurface}}]]
    /\ foreign' = {g \in foreign : g[2] \in catalog'.acl[g[1]]}
    /\ Disturb(AuditedObjects \cup {"roles"})
    /\ Spend("migrations")
    /\ UNCHANGED <<snapFile, sidecar, survey, restore>>

(* Somebody grants, and 075 would not have.                                *)
ForeignGrant(o, e) ==
    /\ e \notin catalog.acl[o]
    /\ e[1] \in catalog.roles \cup {Public}
    /\ catalog' = [catalog EXCEPT !.acl[o] = @ \cup {e}]
    /\ foreign' = IF e[2] = "use" /\ <<o, e[1]>> \in GrantSurface
                  THEN foreign ELSE foreign \cup {<<o, e>>}
    /\ Disturb({o})

ForeignRevoke(o, e) ==
    /\ e \in catalog.acl[o]
    /\ catalog' = [catalog EXCEPT !.acl[o] = @ \ {e}]
    /\ foreign' = foreign \ {<<o, e>>}
    /\ Disturb({o})

ForeignMember(granted, member) ==
    /\ granted # member /\ {granted, member} \subseteq catalog.roles
    /\ <<granted, member>> \notin catalog.members
    /\ <<member, granted>> \notin catalog.members
    /\ catalog' = [catalog EXCEPT !.members = @ \cup {<<granted, member>>}]
    /\ Disturb({"roles"})
    /\ UNCHANGED foreign

(* A Phase-2 role comes to own something, or is granted something outside. *)
ForeignTie(r) ==
    /\ r \in catalog.roles \ catalog.ties
    /\ catalog' = [catalog EXCEPT !.ties = @ \cup {r}]
    /\ Disturb({"roles"})
    /\ UNCHANGED foreign

Foreign ==
    /\ spent.foreign < MaxForeign
    /\ \/ \E o \in Objects \ Locked, e \in Entries :
              /\ e[1] \notin Locked
              /\ ForeignGrant(o, e) \/ ForeignRevoke(o, e)
       \/ \E g, m \in Roles \ Locked : ForeignMember(g, m)
       \/ \E r \in PhaseRoles \ Locked : ForeignTie(r)
    /\ Spend("foreign")
    /\ UNCHANGED <<snapFile, sidecar, survey, restore>>

(***************************************************************************)
(* The rollback: capture, refuse what 075 does not explain.                *)
(***************************************************************************)
(* What the transaction sees: the committed catalog under its own writes.  *)
View ==
    LET d == restore.draft IN
    [acl     |-> [o \in Objects |-> IF o \in DOMAIN d.acl THEN d.acl[o] ELSE catalog.acl[o]],
     config  |-> [f \in SecuredFunctions |->
                     IF f \in DOMAIN d.config THEN d.config[f] ELSE catalog.config[f]],
     roles   |-> catalog.roles \ d.dropped,
     members |-> {m \in catalog.members : {m[1], m[2]} \cap d.dropped = {}},
     ties    |-> catalog.ties]

(* verify_snapshot_file: the file and the checksum beside it agree.        *)
Verified == snapFile # Unread /\ sidecar = snapFile

RestoreBegin ==
    /\ restore.at = "idle" /\ spent.restores < MaxRestores
    /\ Verified
    /\ restore' = [NoRestore EXCEPT !.at = "read", !.before = snapFile]
    /\ Spend("restores")
    /\ UNCHANGED <<catalog, snapFile, sidecar, survey, foreign, raced, late>>

RestoreRead ==
    /\ restore.at = "read" /\ restore.pos <= Sections
    /\ restore' = [restore EXCEPT !.seen = Captured(@, restore.pos, catalog), !.pos = @ + 1]
    /\ raced' = raced \ Described(restore.pos)
    /\ UNCHANGED <<catalog, snapFile, sidecar, survey, foreign, late, spent>>

(* _acl_change_explained: grants only to the Phase-2 roles and only of     *)
(* what 075 gives; revokes only from PUBLIC and the app roles.             *)
AclExplained(b, s) ==
    \A o \in Objects :
        /\ \A e \in s.acl[o] \ b.acl[o] : <<o, e[1]>> \in GrantSurface /\ e[2] = "use"
        /\ \A e \in b.acl[o] \ s.acl[o] :
               o \in HardenedObjects /\ e[1] \in AppRoles \cup {Public}

ConfigExplained(b, s) ==
    \A f \in SecuredFunctions :
        b.config[f] # s.config[f] => b.config[f] = "INVOKER" /\ s.config[f] = "DEFINER"

RolesExplained(b, s) ==
    /\ b.roles \subseteq s.roles /\ s.roles \ b.roles \subseteq PhaseRoles
    /\ s.members = b.members

DependsExplained(b, s) ==
    /\ \A d \in s.depends \ b.depends : d[1] \in PhaseRoles /\ d[2] \in AuditedObjects
    /\ \A d \in b.depends \ s.depends :
           d[1] \in PhaseRoles \cup AppRoles /\ d[2] \in AuditedObjects

(* _effective_change_explained: every flip of a role both states know is   *)
(* covered by a change of an ACL entry it draws on.                        *)
EffectiveExplained(b, s) ==
    \A r \in b.roles \cap s.roles, o \in Objects, p \in {"use", "more"} :
        LET was == <<r, o, p>> \in b.effective
            is  == <<r, o, p>> \in s.effective
        IN  was # is =>
                \E g \in DrawsOn(r, b.members) :
                    /\ was => <<g, p>> \in b.acl[o] \ s.acl[o]
                    /\ is  => <<g, p>> \in s.acl[o] \ b.acl[o]

(* check_075_delta_complete: a state that differs has the whole of 075.    *)
DeltaComplete(s) == \A g \in GrantSurface : <<g[2], "use">> \in s.acl[g[1]]

Differs(b, s) ==
    \/ b.acl # s.acl \/ b.config # s.config \/ b.roles # s.roles
    \/ b.members # s.members \/ b.depends # s.depends

(* check_role_dependencies, on the catalog of that moment.                 *)
RolesFree(b) ==
    LET present == PhaseRoles \cap restore.seen.roles IN
    /\ \A m \in catalog.members : {m[1], m[2]} \cap present = {} \/ m \in b.members
    /\ \A d \in Dependencies(catalog) :
           d[1] \in present => d[2] \in AuditedObjects \/ d \in b.depends

(* The bug of a rollback that puts the ACLs back without classifying them. *)
ExplainedButAcls(b, s) ==
    ConfigExplained(b, s) /\ RolesExplained(b, s) /\ DependsExplained(b, s)

Explained(b, s) ==
    /\ AclExplained(b, s) /\ ConfigExplained(b, s) /\ RolesExplained(b, s)
    /\ DependsExplained(b, s) /\ EffectiveExplained(b, s)
    /\ Differs(b, s) => DeltaComplete(s)

(* Everything is explained and there is something to roll back.            *)
RestorePlan ==
    /\ restore.at = "read" /\ restore.pos = Sections + 1
    /\ RolesFree(restore.before)
    /\ Explained(restore.before, restore.seen)
    /\ Differs(restore.before, restore.seen)
    /\ restore' = [restore EXCEPT !.at = "run"]
    /\ UNCHANGED <<catalog, snapFile, sidecar, survey, foreign, raced, late, spent>>

(***************************************************************************)
(* The rollback: one transaction, verified before it is committed.         *)
(***************************************************************************)
(* build_restore_plan: what is left to be restored.                        *)
AclTodo ==
    {o \in AuditedObjects \ DOMAIN restore.draft.acl :
        restore.before.acl[o] # restore.seen.acl[o]}

ConfigTodo ==
    {f \in SecuredFunctions \ DOMAIN restore.draft.config :
        restore.before.config[f] # restore.seen.config[f]}

RolesToDrop == (PhaseRoles \ restore.before.roles) \cap restore.seen.roles

Extend(f, x, v) == [y \in DOMAIN f \cup {x} |-> IF y = x THEN v ELSE f[y]]

(* _restore_acl_statements: REVOKE ALL from every grantee the snapshot or  *)
(* the capture names, then GRANT what the snapshot holds.  PostgreSQL      *)
(* applies it to the entries of that moment.                               *)
RestoreAcl(o) ==
    LET target   == restore.before.acl[o]
        grantees == {e[1] : e \in target \cup restore.seen.acl[o]}
    IN  /\ restore.at = "run" /\ o \in AclTodo
        /\ grantees \subseteq View.roles \cup {Public}
        /\ restore' = [restore EXCEPT !.draft.acl =
               Extend(@, o, {e \in View.acl[o] : e[1] \notin grantees} \cup target)]
        /\ UNCHANGED <<catalog, snapFile, sidecar, survey, foreign, raced, late, spent>>

RestoreConfig(f) ==
    /\ restore.at = "run" /\ AclTodo = {} /\ f \in ConfigTodo
    /\ restore' = [restore EXCEPT !.draft.config = Extend(@, f, restore.before.config[f])]
    /\ UNCHANGED <<catalog, snapFile, sidecar, survey, foreign, raced, late, spent>>

(* DROP ROLE: PostgreSQL refuses a role anything depends on, and forgets   *)
(* its memberships.                                                        *)
DropRole(r) ==
    /\ restore.at = "run" /\ AclTodo = {} /\ ConfigTodo = {}
    /\ r \in RolesToDrop \ restore.draft.dropped
    /\ \A d \in Dependencies(View) : d[1] # r
    /\ restore' = [restore EXCEPT !.draft.dropped = @ \cup {r}]
    /\ UNCHANGED <<catalog, snapFile, sidecar, survey, foreign, raced, late, spent>>

(* The plan is done; the uncommitted state is captured again.              *)
RestoreRecapture ==
    /\ restore.at = "run" /\ AclTodo = {} /\ ConfigTodo = {}
    /\ RolesToDrop \subseteq restore.draft.dropped
    /\ restore' = [restore EXCEPT !.at = "verify", !.pos = 1, !.seen = Unread]
    /\ UNCHANGED <<catalog, snapFile, sidecar, survey, foreign, raced, late, spent>>

RestoreReread ==
    /\ restore.at = "verify" /\ restore.pos <= Sections
    /\ restore' = [restore EXCEPT !.seen = Captured(@, restore.pos, View), !.pos = @ + 1]
    /\ late' = late \ Described(restore.pos)
    /\ UNCHANGED <<catalog, snapFile, sidecar, survey, foreign, raced, spent>>

(* compare_states finds no difference in entries, configuration, roles,    *)
(* memberships, dependencies and effective privileges.                     *)
Restored(b, s) ==
    /\ ~Differs(b, s)
    /\ \A r \in b.roles \cap s.roles, o \in Objects, p \in {"use", "more"} :
           <<r, o, p>> \in b.effective <=> <<r, o, p>> \in s.effective

RestoreCommit ==
    /\ restore.at = "verify" /\ restore.pos = Sections + 1
    /\ Restored(restore.before, restore.seen)
    /\ catalog' = View
    /\ foreign' = {g \in foreign : g[2] \in catalog'.acl[g[1]]}
    /\ restore' = NoRestore /\ raced' = {} /\ late' = {}
    /\ UNCHANGED <<snapFile, sidecar, survey, spent>>

(* Refused, nothing to roll back, a dry run, a statement that fails or a   *)
(* process that dies: the transaction is rolled back.                      *)
RestoreEnds ==
    /\ restore.at # "idle"
    /\ restore' = NoRestore /\ raced' = {} /\ late' = {}
    /\ UNCHANGED <<catalog, snapFile, sidecar, survey, foreign, spent>>

RollbackNext ==
    \/ SurveyBegin \/ SurveyRead \/ SurveyWrite \/ SurveySeal \/ SurveyDies
    \/ Migrate \/ Foreign
    \/ RestoreBegin \/ RestoreRead \/ RestorePlan
    \/ \E o \in AuditedObjects : RestoreAcl(o)
    \/ \E f \in SecuredFunctions : RestoreConfig(f)
    \/ \E r \in PhaseRoles : DropRole(r)
    \/ RestoreRecapture \/ RestoreReread \/ RestoreCommit \/ RestoreEnds

RollbackSpec == RollbackInit /\ [][RollbackNext]_rollbackVars

(***************************************************************************)
(* Properties.                                                             *)
(***************************************************************************)
(* What is committed is the snapshot, but for what other sessions changed  *)
(* after the verification had read it.                                     *)
SnapshotRestored ==
    /\ \A o \in Objects \ late : catalog'.acl[o] = restore.before.acl[o]
    /\ \A f \in SecuredFunctions \ late : catalog'.config[f] = restore.before.config[f]
    /\ "roles" \notin late => /\ catalog'.roles = restore.before.roles
                              /\ catalog'.members = restore.before.members

(* A grant of another session that was there when the rollback first read  *)
(* the object is never taken away.                                         *)
ForeignKept ==
    \A g \in foreign : g[1] \notin raced => g[2] \in catalog'.acl[g[1]]

(* A role that somebody made a member, or that is needed elsewhere, when   *)
(* the rollback read the roles is not dropped.                             *)
UsedRolesKept ==
    "roles" \notin raced =>
        \A r \in catalog.roles \ catalog'.roles :
            r \notin catalog.ties /\ \A m \in catalog.members : r \notin {m[1], m[2]}

(* A rollback of migration 075 that commits has put back exactly the       *)
(* captured privileges and has neither removed a grant nor dropped a role  *)
(* that somebody else had come to rely on (run_rollback).                  *)
RollbackSafe ==
    [][restore.at = "verify" /\ catalog' # catalog
         /\ restore' = NoRestore => SnapshotRestored /\ ForeignKept /\ UsedRolesKept]_rollbackVars

(* A sealed snapshot is the state of one moment: "opens and closes its own *)
(* clean read-only transaction" (capture_state).  The command connects in  *)
(* autocommit, so it is not: the effective privileges, read last, need not *)
(* be those of the ACLs read first.                                        *)
SnapshotIsOneMoment ==
    Verified =>
        snapFile.effective =
            Effective([acl |-> snapFile.acl, members |-> snapFile.members], snapFile.roles)
=============================================================================
