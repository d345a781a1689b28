----------------------------- MODULE Lifecycle -----------------------------
(***************************************************************************)
(* The CI registry (argo_registry.c, argo_registry_persistence.c) and the  *)
(* lifecycle manager on top of it (argo_lifecycle.c,                       *)
(* argo_lifecycle_monitoring.c).  Both keep a status of every CI; the      *)
(* registry also hands out the ports, ten for each role, and takes a port  *)
(* back from a CI that is offline when a role has none left.               *)
(*                                                                         *)
(* The registry's list is a function from names: names are unique in it.   *)
(* The list's order would only decide which of several offline CIs loses   *)
(* its port, and is left open.  Times are abstracted to what the code      *)
(* compares, whether the last heartbeat is older than the timeout, and the *)
(* history of transitions, which is only printed, is left out.             *)
(***************************************************************************)
EXTENDS Integers, FiniteSets

CONSTANTS
  Names,            \* names of CIs
  Roles,
  Offset,           \* get_role_offset: where the ports of a role begin
  BasePort,         \* REGISTRY_BASE_PORT
  PortsPerRole,     \* REGISTRY_PORTS_PER_ROLE
  MaxCIs,           \* REGISTRY_MAX_CIS
  Tasks,            \* task descriptions
  MaxMissed,        \* DEFAULT_MAX_MISSED; missed_heartbeats is not counted further
  None              \* a null pointer, an absent entry

ASSUME PortsAssumption ==
  /\ BasePort \in Nat \ {0} /\ PortsPerRole \in Nat \ {0} /\ Offset \in [Roles -> Nat]
  /\ MaxCIs \in Nat /\ MaxMissed \in Nat \ {0}

VARIABLES
  registry,     \* ci_registry_t: the entry of each registered CI
  cis,          \* lifecycle_manager_t: the record of each CI it created
  stale,        \* CIs whose last heartbeat is older than the timeout
  file          \* the saved registry state

vars == <<registry, cis, stale, file>>

CIStatus == {"OFFLINE", "STARTING", "READY", "BUSY", "ERROR", "SHUTDOWN"}
RoleBase(role) == BasePort + Offset[role]
RolePorts(role) == RoleBase(role) .. (RoleBase(role) + PortsPerRole - 1)
Ports == UNION {RolePorts(role) : role \in Roles}

RegistryEntry == [role : Roles, port : Ports, status : CIStatus]
CI == [status : CIStatus, task : Tasks \cup {None}, missed : 0..MaxMissed]
ASSUME NoneAssumption == None \notin Tasks /\ None \notin RegistryEntry

NewCI == [status |-> "OFFLINE", task |-> None, missed |-> 0]

Init ==
  /\ registry = [c \in Names |-> None]
  /\ cis = [c \in Names |-> None]
  /\ stale = Names
  /\ file = [c \in Names |-> None]
-----------------------------------------------------------------------------
(* The registry. *)

Registered(reg) == {c \in Names : reg[c] # None}
IsPortAvailable(reg, port) == \A c \in Registered(reg) : reg[c].port # port
FreePorts(role) == {port \in RolePorts(role) : IsPortAvailable(registry, port)}

\* mutant: a port is taken from a CI in any status
ReclaimableAny(role) ==
  {c \in Registered(registry) : registry[c].port \in RolePorts(role)}

\* reclaim_port_from_offline_ci
Reclaimable(role) ==
  {c \in Registered(registry) : /\ registry[c].status = "OFFLINE"
                                /\ registry[c].port \in RolePorts(role)}

\* mutant: the CI whose port is reclaimed stays in the registry
AllocatePortKeeps(role) ==
  {[port |-> port, registry |-> registry] :
     port \in {p \in FreePorts(role) : \A q \in FreePorts(role) : p <= q}}
  \cup {[port |-> registry[v].port, registry |-> registry] :
          v \in IF FreePorts(role) = {} THEN Reclaimable(role) ELSE {}}

\* mutant: lifecycle_create_ci does not notice that there is no port
AllocatePortUnchecked(role) ==
  IF FreePorts(role) = {} THEN {[port |-> -1, registry |-> registry]}
  ELSE {[port |-> port, registry |-> registry] :
          port \in {p \in FreePorts(role) : \A q \in FreePorts(role) : p <= q}}

\* registry_allocate_port: the first free port of the role, else the port of an
\* offline CI, which is removed; what the call may return and leave behind
AllocatePort(role) ==
  {[port |-> port, registry |-> registry] :
     port \in {p \in FreePorts(role) : \A q \in FreePorts(role) : p <= q}}
  \cup {[port |-> registry[v].port, registry |-> [registry EXCEPT ![v] = None]] :
          v \in IF FreePorts(role) = {} THEN Reclaimable(role) ELSE {}}

\* registry_add_ci
CanAdd(reg, c) == Cardinality(Registered(reg)) < MaxCIs /\ reg[c] = None
Added(reg, c, role, port) ==
  [reg EXCEPT ![c] = [role |-> role, port |-> port, status |-> "OFFLINE"]]

\* mutant: the update is skipped for a CI that stops
UpdatedStatusNotOffline(c, status) ==
  IF registry[c] = None \/ status = "OFFLINE" THEN registry
  ELSE [registry EXCEPT ![c].status = status]

\* registry_update_status: nothing happens when the name is unknown
UpdatedStatus(c, status) ==
  IF registry[c] = None THEN registry ELSE [registry EXCEPT ![c].status = status]
-----------------------------------------------------------------------------
(* lifecycle_create_ci.  A port that was reclaimed stays reclaimed when      *)
(* registry_add_ci then refuses the name.                                    *)
CreateCI(c, role) ==
  /\ cis[c] = None
  /\ \E alloc \in AllocatePort(role) :
       IF CanAdd(alloc.registry, c)
         THEN /\ registry' = Added(alloc.registry, c, role, alloc.port)
              /\ cis' = [cis EXCEPT ![c] = NewCI]
              /\ stale' = stale \cup {c}          \* last_heartbeat is 0
         ELSE registry' = alloc.registry /\ UNCHANGED <<cis, stale>>
  /\ UNCHANGED file

\* already exists, or no port
CreateRefused(c, role) ==
  /\ cis[c] # None \/ AllocatePort(role) = {}
  /\ UNCHANGED vars

(* c becomes ci and the registry is told. *)
Change(c, ci) ==
  /\ cis' = [cis EXCEPT ![c] = ci]
  /\ registry' = UpdatedStatus(c, ci.status)
  /\ UNCHANGED <<stale, file>>

StartCI(c) ==
  /\ cis[c] # None /\ cis[c].status = "OFFLINE"
  /\ Change(c, [cis[c] EXCEPT !.status = "STARTING"])

\* any other status counts as started
StartIgnored(c) == cis[c] # None /\ cis[c].status # "OFFLINE" /\ UNCHANGED vars

StopStatus(graceful) == IF graceful THEN "SHUTDOWN" ELSE "OFFLINE"

StopCI(c, graceful) ==
  /\ cis[c] # None
  /\ Change(c, [cis[c] EXCEPT !.status = StopStatus(graceful)])

\* lifecycle_stop_ci, graceful, then lifecycle_start_ci, which starts a CI only
\* when that has left it OFFLINE
RestartCI(c) ==
  /\ cis[c] # None
  /\ Change(c, [cis[c] EXCEPT !.status =
                  IF StopStatus(TRUE) = "OFFLINE" THEN "STARTING" ELSE StopStatus(TRUE)])

(* lifecycle_transition_internal: the event alone decides the new status. *)
StatusAfter == [INITIALIZING |-> "STARTING", READY |-> "READY", TASK_ASSIGNED |-> "BUSY",
                TASK_COMPLETE |-> "READY", ERROR |-> "ERROR", SHUTDOWN_REQ |-> "SHUTDOWN",
                SHUTDOWN |-> "SHUTDOWN", TERMINATED |-> "OFFLINE"]

\* ci is c's record with what the caller has changed already
Transition(c, ci, event) ==
  IF StatusAfter[event] # ci.status
    THEN Change(c, [ci EXCEPT !.status = StatusAfter[event]])
    ELSE cis' = [cis EXCEPT ![c] = ci] /\ UNCHANGED <<registry, stale, file>>

\* the CI reports itself ready
Ready(c) == cis[c] # None /\ Transition(c, cis[c], "READY")

AssignTask(c, task) ==
  /\ cis[c] # None /\ cis[c].status = "READY"
  /\ Transition(c, [cis[c] EXCEPT !.task = task], "TASK_ASSIGNED")

AssignRefused(c) == cis[c] # None /\ cis[c].status # "READY" /\ UNCHANGED vars

CompleteTask(c) ==
  /\ cis[c] # None
  /\ Transition(c, [cis[c] EXCEPT !.task = None], "TASK_COMPLETE")

ReportError(c) == cis[c] # None /\ Transition(c, cis[c], "ERROR")
-----------------------------------------------------------------------------
(* Heartbeats. *)

Heartbeat(c) ==
  /\ cis[c] # None
  /\ stale' = stale \ {c}
  /\ cis' = [cis EXCEPT ![c].missed = 0]
  /\ UNCHANGED <<registry, file>>

\* more than heartbeat_timeout_seconds pass without one
HeartbeatAges(c) == cis[c] # None /\ stale' = stale \cup {c} /\ UNCHANGED <<registry, cis, file>>

Checked(c) == cis[c] # None /\ cis[c].status # "OFFLINE" /\ c \in stale
Missed(c) == IF cis[c].missed < MaxMissed THEN cis[c].missed + 1 ELSE MaxMissed
Overdue(c) == Checked(c) /\ Missed(c) >= MaxMissed
Fails(c) == Overdue(c) /\ cis[c].status # "ERROR"

\* lifecycle_check_heartbeats, with lifecycle_report_error for each overdue CI
CheckHeartbeats ==
  /\ cis' = [c \in Names |->
       IF ~Checked(c) THEN cis[c]
       ELSE [cis[c] EXCEPT !.missed = Missed(c),
                           !.status = IF Overdue(c) THEN "ERROR" ELSE @]]
  /\ registry' = [c \in Names |-> IF Fails(c) THEN UpdatedStatus(c, "ERROR")[c] ELSE registry[c]]
  /\ UNCHANGED <<stale, file>>
-----------------------------------------------------------------------------
(* Persistence.  registry_save_state rewrites the file in place.             *)

\* what registry_load_state makes of a file: every entry that can be added,
\* with its status
Loaded(f) == [c \in Names |-> IF f[c] # None /\ f[c].port > 0 THEN f[c] ELSE None]

SaveState == file' = registry /\ UNCHANGED <<registry, cis, stale>>

\* The process ends, and the next one loads f into a new registry.
NewProcess(f) ==
  /\ file' = f /\ registry' = Loaded(f)
  /\ cis' = [c \in Names |-> None] /\ stale' = Names

Restart == NewProcess(file)

\* the end comes while the file is written: only some entries are in it
CrashInSave == \E written \in SUBSET Registered(registry) :
  NewProcess([c \in Names |-> IF c \in written THEN registry[c] ELSE None])
-----------------------------------------------------------------------------
Operate(c) ==
  \/ \E role \in Roles : CreateCI(c, role) \/ CreateRefused(c, role)
  \/ StartCI(c) \/ StartIgnored(c) \/ RestartCI(c)
  \/ \E graceful \in BOOLEAN : StopCI(c, graceful)
  \/ Ready(c) \/ CompleteTask(c) \/ ReportError(c)
  \/ AssignRefused(c) \/ \E task \in Tasks : AssignTask(c, task)
  \/ Heartbeat(c) \/ HeartbeatAges(c)

Next == (\E c \in Names : Operate(c)) \/ CheckHeartbeats \/ SaveState \/ Restart \/ CrashInSave

Spec == Init /\ [][Next]_vars
-----------------------------------------------------------------------------
\* Registry entries and lifecycle records keep the types of their structures; in
\* particular a registered CI has a port that was handed out.
TypeOK ==
  /\ registry \in [Names -> RegistryEntry \cup {None}]
  /\ cis \in [Names -> CI \cup {None}]
  /\ stale \subseteq Names
  /\ file \in [Names -> RegistryEntry \cup {None}]

UniquePorts(reg) ==
  \A c \in Registered(reg) :
    /\ reg[c].port \in RolePorts(reg[c].role)
    /\ \A d \in Registered(reg) \ {c} : reg[d].port # reg[c].port

\* Two registered CIs never have the same port and every port belongs to the
\* range of its CI's role, whatever was reclaimed, saved, cut off and loaded.
PortsUnique == UniquePorts(registry)

\* The registry, which decides who may be given messages and whose port may be
\* reclaimed, shows the status that the lifecycle manager has.
StatusAgrees ==
  \A c \in Registered(registry) : cis[c] # None => registry[c].status = cis[c].status

\* While the process lives, a CI that the lifecycle manager has not stopped keeps
\* its place and its port in the registry when ports are reclaimed for others.
ActiveKeepsPort ==
  [][Restart \/ CrashInSave \/
     \A c \in Registered(registry) :
       (cis[c] # None /\ cis[c].status # "OFFLINE")
         => registry'[c] # None /\ registry'[c].port = registry[c].port]_vars
=============================================================================
