-------------------------------- MODULE Policy --------------------------------
(***************************************************************************)
(* How the configuration of a run is resolved (config/resolver.rs,         *)
(* config/policy.rs): compiled defaults, the trusted global file, the      *)
(* project's file and the operator's overrides, in that order.  The        *)
(* project is not trusted: it and the operator may only narrow what the    *)
(* global layer defines, the operator may undo what the project narrowed.  *)
(* What is resolved is compared with the project's lock (config/lock.rs)   *)
(* and, when a client joins a run, with the run's snapshot                 *)
(* (config/snapshot.rs).                                                   *)
(*                                                                         *)
(* A layer is a record; a field a layer does not give is Unset.  Parsing,  *)
(* names and instructions are left out, and resolution that fails is a     *)
(* predicate that is false.  There are no states: what holds for all       *)
(* layers is proved in RunCoordination_proofs.                             *)
(***************************************************************************)
EXTENDS Integers, Sequences

CONSTANTS
    Unset,
    Roles, Names,       \* role names, names of permission profiles
    References,         \* archetypes, among them the built-in one
    Builtin,            \* the definition of the built-in archetype
    DefaultReference, DefaultLimits, DefaultSupervision,
    NulArguments,       \* arguments of commands that contain a NUL byte
    MaxInterval         \* i64::MAX / 1000: what fits in milliseconds

LimitFields == {"max_concurrent_agents", "max_agents_per_run",
                "max_spawns_per_minute"}

PermissionProfile ==
    [filesystem : {"unrestricted", "project-write", "workspace-write",
                   "read-only"},
     network : {"provider-default", "deny"},
     approvals : {"interactive", "never"},
     reviewer : {"user", "auto-review"}]

OrUnset(S) == S \cup {Unset}

(* What parsing leaves of the two untrusted layers.                         *)
Restriction == [enabled : OrUnset(BOOLEAN), max_instances : OrUnset(Nat),
                profile : OrUnset(Names)]
Layer == [archetype : OrUnset(References), limits : [LimitFields -> OrUnset(Nat)],
          roles : UNION {[S -> Restriction] : S \in SUBSET Roles}]

-----------------------------------------------------------------------------
(* Intersection: only what both sides allow.                                *)

Meet(p, q) ==
    LET approvals ==
            IF p.approvals = q.approvals /\ p.reviewer = q.reviewer
            THEN p.approvals ELSE "never"
    IN [filesystem |->
            IF p.filesystem = q.filesystem \/ q.filesystem = "unrestricted"
            THEN p.filesystem
            ELSE IF p.filesystem = "unrestricted" THEN q.filesystem
            ELSE "read-only",
        network |-> IF p.network = q.network THEN p.network ELSE "deny",
        approvals |-> approvals,
        reviewer |-> IF approvals = "interactive" THEN p.reviewer ELSE "user"]

NoMorePermissiveThan(p, ceiling) == Meet(p, ceiling) = p

Lower(a, b) == IF a <= b THEN a ELSE b

LimitsMeet(a, b) == [f \in LimitFields |-> Lower(a[f], b[f])]

(* A role without a ceiling of its own is subject to the run's limits only. *)
CapacityMeet(a, b) ==
    IF a = Unset THEN b ELSE IF b = Unset THEN a ELSE Lower(a, b)

RoleMeet(a, b) ==
    [enabled |-> a.enabled /\ b.enabled,
     max_instances |-> CapacityMeet(a.max_instances, b.max_instances),
     profile |-> Meet(a.profile, b.profile)]

-----------------------------------------------------------------------------
(* What the global layer may define.                                        *)

ProfileAccepted(p) ==
    /\ p \in PermissionProfile
    /\ ~(p.filesystem = "unrestricted" /\ p.network = "deny")
    /\ ~(p.reviewer = "auto-review" /\ p.approvals = "never")

ProfilesAccepted(global) ==
    \A n \in DOMAIN global.profiles : ProfileAccepted(global.profiles[n])

(* A command is a sequence of arguments, and its first names a program.     *)
Runnable(command) == command # <<>> /\ command[1] # ""

(* Bindings include the compiled ones, whose command a layer may keep.      *)
ProvidersAccepted(global) ==
    \A b \in DOMAIN global.providers :
        LET command == global.providers[b].command
        IN /\ command # Unset /\ Runnable(command)
           /\ \A i \in DOMAIN command : command[i] \notin NulArguments

(* resolve_archetype: the lead is an interactive role that works in the     *)
(* project, and roles use known providers and profiles.                     *)
ArchetypeAccepted(a, global) ==
    /\ \A r \in DOMAIN a.roles :
          /\ a.roles[r].provider \in DOMAIN global.providers
          /\ a.roles[r].profile \in DOMAIN global.profiles
    /\ a.lead \in DOMAIN a.roles
    /\ a.roles[a.lead].mode = "interactive"
    /\ a.roles[a.lead].workspace # "worktree"

(* An archetype with the profiles its roles select.                         *)
Resolved(a, global) ==
    [lead |-> a.lead, roles |-> a.roles,
     profiles |-> [n \in {a.roles[r].profile : r \in DOMAIN a.roles} |->
                      global.profiles[n]]]

Archetypes(global) ==
    [ref \in DOMAIN global.archetypes \cup {DefaultReference} |->
        IF ref = DefaultReference THEN Builtin
        ELSE Resolved(global.archetypes[ref], global)]

(* resolve_supervision: bounds fit in milliseconds, and only the idle       *)
(* timeout may be 0.                                                        *)
Supervision(global) ==
    [f \in DOMAIN DefaultSupervision |->
        IF global.supervision[f] = Unset THEN DefaultSupervision[f]
        ELSE global.supervision[f]]

SupervisionAccepted(global) ==
    /\ \A f \in DOMAIN DefaultSupervision :
          global.supervision[f] # Unset =>
              /\ global.supervision[f] \in 0..MaxInterval
              /\ f # "idle_timeout_seconds" => global.supervision[f] # 0
    /\ Supervision(global)["interrupt_grace_ms"]
          < Supervision(global)["shutdown_timeout_ms"]

-----------------------------------------------------------------------------
(* Limits: apply_limits, layer by layer.                                    *)

Requested(effective, input) ==
    [f \in LimitFields |->
        IF input[f] = Unset THEN effective[f] ELSE input[f]]

(* What a layer gives is positive and not cut by the ceiling.               *)
LimitsAccepted(input, bounded) ==
    \A f \in LimitFields :
        input[f] # Unset => input[f] # 0 /\ input[f] = bounded[f]

TrustedLimits(global) == Requested(DefaultLimits, global.limits)

ProjectLimits(global, project) ==
    LimitsMeet(Requested(TrustedLimits(global), project.limits),
               TrustedLimits(global))

(* The operator starts from the project's limits under the trusted ceiling. *)
Limits(global, project, operator) ==
    LimitsMeet(Requested(ProjectLimits(global, project), operator.limits),
               TrustedLimits(global))

AllLimitsAccepted(global, project, operator) ==
    /\ LimitsAccepted(global.limits, TrustedLimits(global))
    /\ LimitsAccepted(project.limits, ProjectLimits(global, project))
    /\ LimitsAccepted(operator.limits, Limits(global, project, operator))

(* The layer that provenance records for a limit.                           *)
LimitLayer(global, project, operator, f) ==
    IF operator.limits[f] # Unset THEN "operator"
    ELSE IF project.limits[f] # Unset THEN "project"
    ELSE IF global.limits[f] # Unset THEN "global" ELSE "compiled"

-----------------------------------------------------------------------------
(* The archetype and its roles.                                             *)

First(a, b) == IF a # Unset THEN a ELSE b

(* The operator's choice, the project's, the global one, the default.       *)
Reference(global, project, operator) ==
    First(operator.archetype, First(project.archetype,
        First(global.archetype, DefaultReference)))

Selectable(layer, global) ==
    layer.archetype # Unset => layer.archetype \in DOMAIN Archetypes(global)

Archetype(global, project, operator) ==
    Archetypes(global)[Reference(global, project, operator)]

(* The role as the trusted archetype has it: where layers start, and how    *)
(* far they may go.                                                         *)
Baseline(archetype, r) ==
    [enabled |-> TRUE, max_instances |-> archetype.roles[r].max_instances,
     profile |-> archetype.profiles[archetype.roles[r].profile]]

Wanted(role, restriction, profiles) ==
    [enabled |-> IF restriction.enabled = Unset THEN role.enabled
                 ELSE restriction.enabled,
     max_instances |-> First(restriction.max_instances, role.max_instances),
     profile |-> IF restriction.profile = Unset THEN role.profile
                 ELSE profiles[restriction.profile]]

(* apply_roles, for the roles a layer restricts.                            *)
ApplyRoles(archetype, roles, layer, profiles) ==
    [r \in DOMAIN roles |->
        IF r \in DOMAIN layer.roles
        THEN RoleMeet(Wanted(roles[r], layer.roles[r], profiles),
                      Baseline(archetype, r))
        ELSE roles[r]]

RolesAccepted(archetype, roles, layer, profiles) ==
    \A r \in DOMAIN layer.roles :
        LET wanted == Wanted(roles[r], layer.roles[r], profiles)
            bounded == RoleMeet(wanted, Baseline(archetype, r))
        IN /\ r \in DOMAIN archetype.roles
           /\ layer.roles[r].profile # Unset =>
                 layer.roles[r].profile \in DOMAIN profiles
           /\ ~(r = archetype.lead /\ layer.roles[r].enabled = FALSE)
           /\ wanted.max_instances = bounded.max_instances
           /\ wanted.profile = bounded.profile

Baselines(archetype) ==
    [r \in DOMAIN archetype.roles |-> Baseline(archetype, r)]

ProjectRoles(global, project, operator) ==
    LET a == Archetype(global, project, operator)
    IN ApplyRoles(a, Baselines(a), project, global.profiles)

EffectiveRoles(global, project, operator) ==
    ApplyRoles(Archetype(global, project, operator),
               ProjectRoles(global, project, operator), operator,
               global.profiles)

(* A read-only workspace needs a read-only profile; unrestricted access     *)
(* needs the archetype to be the choice of a trusted layer.                 *)
ProfilesFitRoles(global, project, operator) ==
    LET a == Archetype(global, project, operator)
        roles == EffectiveRoles(global, project, operator)
        enabled == {r \in DOMAIN roles : roles[r].enabled}
    IN /\ \A r \in enabled :
             a.roles[r].workspace = "read-only" =>
                 roles[r].profile.filesystem = "read-only"
       /\ (\E r \in enabled : roles[r].profile.filesystem = "unrestricted")
             => First(operator.archetype, global.archetype)
                    = Reference(global, project, operator)

-----------------------------------------------------------------------------
(* resolve *)
Accepted(global, project, operator) ==
    /\ ProvidersAccepted(global) /\ ProfilesAccepted(global)
    /\ \A ref \in DOMAIN global.archetypes :
          ref # DefaultReference /\ ArchetypeAccepted(global.archetypes[ref], global)
    /\ SupervisionAccepted(global)
    /\ \A layer \in {global, project, operator} : Selectable(layer, global)
    /\ AllLimitsAccepted(global, project, operator)
    /\ LET a == Archetype(global, project, operator)
       IN /\ RolesAccepted(a, Baselines(a), project, global.profiles)
          /\ RolesAccepted(a, ProjectRoles(global, project, operator), operator,
                           global.profiles)
    /\ ProfilesFitRoles(global, project, operator)

Effective(global, project, operator) ==
    [archetype |-> Archetype(global, project, operator),
     providers |-> global.providers,
     allowed_project_roots |-> global.allowed_project_roots,
     limits |-> Limits(global, project, operator),
     supervision |-> Supervision(global),
     roles |-> EffectiveRoles(global, project, operator)]

-----------------------------------------------------------------------------
(* The lock and the snapshot.                                               *)

(* ConfigLock::for_config: what a host may bind differently is left out;    *)
(* the fingerprint stands for the rest.                                     *)
Portable(effective) ==
    [archetype |-> effective.archetype, limits |-> effective.limits,
     supervision |-> effective.supervision, roles |-> effective.roles]

LockedFor(effective, version) ==
    [requires |-> version, policy |-> Portable(effective)]

(* verify, compare: an absent lock binds nobody.                            *)
LockVerifies(lock, effective, compatible) ==
    lock = Unset \/ (lock.policy = Portable(effective) /\ lock.requires \in compatible)

(* RunConfiguration::differences, ensure_configuration_compatible.          *)
Differences(saved, current) ==
    {f \in DOMAIN saved : saved[f] # current[f]}

Joins(saved, current) == Differences(saved, current) = {}

(* snapshot_configuration: what is written with a new run.  The fingerprint *)
(* is that of the lock; here it is what it digests.                         *)
Fingerprint(effective) == Portable(effective)

Snapshot(effective) ==
    [schema_version |-> 1, fingerprint |-> Fingerprint(effective),
     effective |-> effective]

(* run_configuration, RunConfiguration::valid: without it a run is neither  *)
(* served nor recovered.                                                    *)
SnapshotValid(row) ==
    LET saved == row.effective
        archetype == saved.archetype
    IN /\ row.schema_version = 1
       /\ DOMAIN archetype.roles = DOMAIN saved.roles
       /\ archetype.lead \in DOMAIN saved.roles
       /\ saved.roles[archetype.lead].enabled
       /\ \A r \in DOMAIN archetype.roles :
             /\ archetype.roles[r].provider \in DOMAIN saved.providers
             /\ Runnable(saved.providers[archetype.roles[r].provider].command)
       /\ row.fingerprint = Fingerprint(saved)

(* required_capabilities of a provider that starts a role.                  *)
PermissionCapabilities(profile) ==
    {"supervisor-rpc", "working-directory", "filesystem-sandbox",
     "approval-policy"}
    \cup (IF profile.network = "deny" THEN {"network-sandbox"} ELSE {})
    \cup (IF profile.reviewer = "auto-review"
          THEN {"automatic-approval-review"} ELSE {})
    \cup (IF profile.filesystem = "unrestricted"
          THEN {"unrestricted-access"} ELSE {})

RequiredCapabilities(mode, profile, instructed) ==
    PermissionCapabilities(profile)
    \cup (IF instructed THEN {"startup-instructions"} ELSE {})
    \cup (IF mode = "job"
          THEN {"background-jobs", "structured-lifecycle-events",
                "transcript-streaming", "interrupt", "termination"}
          ELSE {"foreground-interactive"})

-----------------------------------------------------------------------------
(* What a role may do. An agent is told when it starts which commands it    *)
(* has (available_commands); each handler then asks for a capability of its *)
(* role itself (require_capability).  The operator needs none.              *)

Allows(grant, namespace, action) ==
    grant.namespace = namespace /\ grant.action \in {"*", action}

(* RoleDefinition::authorize. *)
Authorized(caller, namespace, action) ==
    \E grant \in caller.grants : Allows(grant, namespace, action)

(* send_message: the lead and peers may be addressed as such, any role by   *)
(* its name; nobody writes to itself.                                       *)
Recipient(caller, target) ==
    IF target.role = caller.lead THEN "lead"
    ELSE IF target.role = caller.role THEN "peer" ELSE target.role

MaySend(caller, target) ==
    /\ ~target.self
    /\ \/ Authorized(caller, "send", target.role)
       \/ Authorized(caller, "send", Recipient(caller, target))

(* execute_request and the handlers it calls, each with its own check: logs,*)
(* spawn_agent, attach, progress, create_task, ready_tasks, task_show,      *)
(* assignment_show, close_task, recover_task, submit_retained,              *)
(* resubmit_task, integrate_workspace.  caller: its role, the grants of the *)
(* role, the role that leads.  target: the agent that is addressed or whose *)
(* log is read, or the role that is spawned; self: it is the caller.        *)
Permitted(caller, command, target) ==
    \/ command \in {"whoami", "prime", "project list", "inbox", "finish"}
    \/ command = "send" /\ MaySend(caller, target)
    \/ command = "logs"
          /\ (target.self \/ Authorized(caller, "logs", target.role))
    \/ command = "spawn" /\ Authorized(caller, "spawn", target.role)
    \/ command = "project attach" /\ Authorized(caller, "project", "attach")
    \/ command = "progress" /\ Authorized(caller, "task", "read")
    \/ command = "task create" /\ Authorized(caller, "task", "create")
    \/ command = "task ready" /\ Authorized(caller, "task", "read")
    \/ command = "task show" /\ Authorized(caller, "task", "read")
    \/ command = "assignment show" /\ Authorized(caller, "task", "read")
    \/ command = "task close" /\ Authorized(caller, "task", "close")
    \/ command = "task recover" /\ Authorized(caller, "task", "recover")
    \/ command = "task submit-retained"
          /\ Authorized(caller, "task", "submit-retained")
    \/ command = "task resubmit" /\ Authorized(caller, "task", "resubmit")
    \/ command = "workspace integrate"
          /\ Authorized(caller, "workspace", "integrate")

(* available_commands: its table, of capabilities and what is told to those *)
(* who have them.                                                           *)
Told ==
    {<<"task", "read", "progress">>, <<"task", "read", "task show">>,
     <<"task", "read", "assignment show">>,
     <<"project", "attach", "project attach">>,
     <<"task", "create", "task create">>, <<"task", "close", "task close">>,
     <<"task", "recover", "task recover">>,
     <<"task", "submit-retained", "task submit-retained">>,
     <<"logs", "*", "logs">>,
     <<"workspace", "integrate", "workspace integrate">>}

Advertised(caller) ==
    {"whoami", "prime", "project list", "task ready", "send", "inbox", "finish"}
    \cup {row[3] : row \in {row \in Told : Authorized(caller, row[1], row[2])}}
=============================================================================
