-------------------------- MODULE LifecycleProofs --------------------------
(***************************************************************************)
(* For every set of CIs and roles and every number of ports: the types,    *)
(* the uniqueness of ports and the agreement of the registry with the      *)
(* lifecycle manager.  Ports stay unique because a new registry differs    *)
(* from the old one in one of two ways: it has no other ports than the old *)
(* one (SamePorts), or one CI is added on a port that nobody holds.  The   *)
(* saved file must satisfy the same invariant, for it becomes the registry.*)
(***************************************************************************)
EXTENDS Lifecycle, TLAPS

Registries == [Names -> RegistryEntry \cup {None}]

\* every CI of new is in old, with the same role and port
SamePorts(new, old) ==
  \A c \in Names : new[c] # None =>
    /\ old[c] # None
    /\ new[c].port = old[c].port /\ new[c].role = old[c].role

\* A status update changes one entry's status and nothing else.
LEMMA UpdatedStatusIs ==
  ASSUME registry \in Registries, NEW c \in Names, NEW s \in CIStatus
  PROVE  /\ UpdatedStatus(c, s) \in Registries
         /\ SamePorts(UpdatedStatus(c, s), registry)
         /\ \A d \in Names \ {c} : UpdatedStatus(c, s)[d] = registry[d]
         /\ UpdatedStatus(c, s)[c] # None => UpdatedStatus(c, s)[c].status = s
<1>1. CASE registry[c] = None
  BY <1>1 DEF UpdatedStatus, SamePorts
<1>2. CASE registry[c] # None
  <2>1. registry[c] \in RegistryEntry
    BY <1>2 DEF Registries
  <2>2. UpdatedStatus(c, s) = [registry EXCEPT ![c] = [registry[c] EXCEPT !.status = s]]
    BY <1>2 DEF UpdatedStatus
  <2>3. [registry[c] EXCEPT !.status = s] \in RegistryEntry
    BY <2>1 DEF RegistryEntry
  <2> QED  BY <1>2, <2>1, <2>2, <2>3 DEF Registries, SamePorts, RegistryEntry
<1> QED  BY <1>1, <1>2

\* Uniqueness of ports carries over to a registry without new ports.
LEMMA FewerPorts ==
  ASSUME NEW new \in Registries, NEW old \in Registries,
         SamePorts(new, old), UniquePorts(old)
  PROVE  UniquePorts(new)
BY DEF UniquePorts, SamePorts, Registered, Registries

\* What registry_allocate_port leaves is a part of the registry in which the
\* port that it returns, one of the role's, is free.
LEMMA AllocatedPortIsFree ==
  ASSUME registry \in Registries, UniquePorts(registry), NEW role \in Roles,
         NEW alloc \in AllocatePort(role)
  PROVE  /\ alloc.registry \in Registries
         /\ SamePorts(alloc.registry, registry)
         /\ \A c \in Names : alloc.registry[c] \in {registry[c], None}
         /\ alloc.port \in RolePorts(role)
         /\ IsPortAvailable(alloc.registry, alloc.port)
<1>1. CASE \E port \in FreePorts(role) : alloc = [port |-> port, registry |-> registry]
  BY <1>1 DEF FreePorts, SamePorts
<1>2. CASE \E v \in Reclaimable(role) :
        alloc = [port |-> registry[v].port, registry |-> [registry EXCEPT ![v] = None]]
  <2>1. PICK v \in Reclaimable(role) :
          alloc = [port |-> registry[v].port, registry |-> [registry EXCEPT ![v] = None]]
    BY <1>2
  <2>2. v \in Names /\ v \in Registered(registry) /\ registry[v].port \in RolePorts(role)
    BY DEF Reclaimable, Registered
  <2>3. IsPortAvailable(alloc.registry, alloc.port)
    BY <2>1, <2>2 DEF IsPortAvailable, UniquePorts, Registered, Registries
  <2> QED  BY <2>1, <2>2, <2>3 DEF Registries, SamePorts
<1> QED  BY <1>1, <1>2 DEF AllocatePort

\* A CI that is added on a free port of its role keeps the ports unique.
LEMMA AddedKeepsPortsUnique ==
  ASSUME NEW reg \in Registries, UniquePorts(reg), NEW c \in Names, reg[c] = None,
         NEW role \in Roles, NEW port \in RolePorts(role), IsPortAvailable(reg, port)
  PROVE  /\ Added(reg, c, role, port) \in Registries
         /\ UniquePorts(Added(reg, c, role, port))
<1> DEFINE e == [role |-> role, port |-> port, status |-> "OFFLINE"]
<1>1. e \in RegistryEntry
  BY DEF RegistryEntry, Ports, CIStatus
<1>2. Added(reg, c, role, port) = [reg EXCEPT ![c] = e]
  BY DEF Added
<1>3. UniquePorts([reg EXCEPT ![c] = e])
  BY <1>1 DEF UniquePorts, Registered, IsPortAvailable, Registries
<1> QED  BY <1>1, <1>2, <1>3 DEF Registries
-----------------------------------------------------------------------------
Inv == TypeOK /\ PortsUnique /\ UniquePorts(file) /\ StatusAgrees

\* What a lifecycle call does to one CI preserves the invariant.
LEMMA ChangePreserves ==
  ASSUME Inv, NEW c \in Names, cis[c] # None, NEW ci \in CI, Change(c, ci)
  PROVE  Inv'
<1>1. ci.status \in CIStatus
  BY DEF CI
<1>2. registry \in Registries
  BY DEF Inv, TypeOK, Registries
<1>3. /\ registry' \in Registries
      /\ SamePorts(registry', registry)
      /\ \A d \in Names \ {c} : registry'[d] = registry[d]
      /\ registry'[c] # None => registry'[c].status = ci.status
  BY <1>1, <1>2, UpdatedStatusIs DEF Change
<1>4. cis' = [cis EXCEPT ![c] = ci] /\ UNCHANGED <<stale, file>>
  BY DEF Change
<1>5. TypeOK'
  BY <1>3, <1>4 DEF Inv, TypeOK, Registries
<1>6. PortsUnique' /\ UniquePorts(file)'
  BY <1>2, <1>3, <1>4, FewerPorts DEF Inv, PortsUnique, UniquePorts, Registered
<1>7. StatusAgrees'
  BY <1>3, <1>4 DEF Inv, StatusAgrees, Registered, TypeOK
<1> QED  BY <1>5, <1>6, <1>7 DEF Inv

\* lifecycle_transition_internal preserves the invariant when the caller has left
\* the status alone.
LEMMA TransitionPreserves ==
  ASSUME Inv, NEW c \in Names, cis[c] # None, NEW ci \in CI, ci.status = cis[c].status,
         NEW event \in DOMAIN StatusAfter, Transition(c, ci, event)
  PROVE  Inv'
<1>1. StatusAfter[event] \in CIStatus
  BY DEF StatusAfter, CIStatus
<1>2. CASE StatusAfter[event] # ci.status
  <2>1. [ci EXCEPT !.status = StatusAfter[event]] \in CI
    BY <1>1 DEF CI
  <2> QED  BY <1>2, <2>1, ChangePreserves DEF Transition
<1>3. CASE StatusAfter[event] = ci.status
  <2>1. cis' = [cis EXCEPT ![c] = ci] /\ UNCHANGED <<registry, stale, file>>
    BY <1>3 DEF Transition
  <2> QED  BY <2>1 DEF Inv, TypeOK, PortsUnique, UniquePorts, StatusAgrees, Registered
<1> QED  BY <1>2, <1>3

LEMMA CreatePreserves ==
  ASSUME Inv, NEW c \in Names, NEW role \in Roles, CreateCI(c, role)
  PROVE  Inv'
<1>1. registry \in Registries
  BY DEF Inv, TypeOK, Registries
<1>2. PICK alloc \in AllocatePort(role) :
        IF CanAdd(alloc.registry, c)
          THEN /\ registry' = Added(alloc.registry, c, role, alloc.port)
               /\ cis' = [cis EXCEPT ![c] = NewCI]
               /\ stale' = stale \cup {c}
          ELSE registry' = alloc.registry /\ UNCHANGED <<cis, stale>>
  BY DEF CreateCI
<1>3. /\ alloc.registry \in Registries
      /\ SamePorts(alloc.registry, registry)
      /\ \A d \in Names : alloc.registry[d] \in {registry[d], None}
      /\ alloc.port \in RolePorts(role)
      /\ IsPortAvailable(alloc.registry, alloc.port)
  BY <1>1, AllocatedPortIsFree DEF Inv, PortsUnique
<1>4. UniquePorts(alloc.registry)
  BY <1>1, <1>3, FewerPorts DEF Inv, PortsUnique
<1>5. file' = file /\ UniquePorts(file)'
  BY DEF CreateCI, Inv, UniquePorts, Registered
<1>6. CASE CanAdd(alloc.registry, c)
  <2>1. alloc.registry[c] = None
    BY <1>6 DEF CanAdd
  <2>2. registry' \in Registries /\ UniquePorts(registry')
    BY <1>2, <1>3, <1>4, <1>6, <2>1, AddedKeepsPortsUnique
  <2>3. NewCI \in CI
    BY PortsAssumption DEF NewCI, CI, CIStatus
  <2>4. TypeOK'
    BY <1>2, <1>5, <1>6, <2>2, <2>3 DEF Inv, TypeOK, Registries
  <2>5. registry'[c].status = "OFFLINE" /\ \A d \in Names \ {c} : registry'[d] = alloc.registry[d]
    BY <1>2, <1>3, <1>6 DEF Added, Registries
  <2>6. cis'[c].status = "OFFLINE" /\ \A d \in Names \ {c} : cis'[d] = cis[d]
    BY <1>2, <1>6 DEF Inv, TypeOK, NewCI
  <2>7. StatusAgrees'
    BY <1>3, <2>5, <2>6 DEF Inv, StatusAgrees, Registered
  <2> QED  BY <1>5, <2>2, <2>4, <2>7 DEF Inv, PortsUnique
<1>7. CASE ~CanAdd(alloc.registry, c)
  <2>1. registry' = alloc.registry /\ UNCHANGED <<cis, stale>>
    BY <1>2, <1>7
  <2>2. TypeOK'
    BY <1>3, <1>5, <2>1 DEF Inv, TypeOK, Registries
  <2>3. StatusAgrees'
    BY <1>3, <2>1 DEF Inv, StatusAgrees, Registered
  <2> QED  BY <1>4, <1>5, <2>1, <2>2, <2>3 DEF Inv, PortsUnique
<1> QED  BY <1>6, <1>7

\* A new process takes over a file whose ports are unique.
LEMMA NewProcessPreserves ==
  ASSUME Inv, NEW f \in Registries, UniquePorts(f), NewProcess(f)
  PROVE  Inv'
<1>1. Loaded(f) \in Registries /\ SamePorts(Loaded(f), f)
  BY DEF Loaded, Registries, SamePorts
<1>2. UniquePorts(Loaded(f))
  BY <1>1, FewerPorts
<1>3. /\ file' = f /\ registry' = Loaded(f)
      /\ cis' = [c \in Names |-> None] /\ stale' = Names
  BY DEF NewProcess
<1> QED  BY <1>1, <1>2, <1>3 DEF Inv, TypeOK, Registries, PortsUnique, StatusAgrees, Registered

LEMMA CheckHeartbeatsPreserves ==
  ASSUME Inv, CheckHeartbeats
  PROVE  Inv'
<1>1. registry \in Registries /\ cis \in [Names -> CI \cup {None}]
  BY DEF Inv, TypeOK, Registries
<1>2. ASSUME NEW c \in Names
      PROVE  /\ cis'[c] \in CI \cup {None}
             /\ cis'[c] # None =>
                  /\ cis[c] # None
                  /\ cis'[c].status = IF Fails(c) THEN "ERROR" ELSE cis[c].status
  <2>1. cis'[c] = IF ~Checked(c) THEN cis[c]
                  ELSE [cis[c] EXCEPT !.missed = Missed(c),
                                      !.status = IF Overdue(c) THEN "ERROR" ELSE @]
    BY DEF CheckHeartbeats
  <2>2. CASE Checked(c)
    <3>1. cis[c] \in CI /\ cis[c] # None
      BY <1>1, <2>2 DEF Checked
    <3>2. Missed(c) \in 0..MaxMissed
      BY <3>1, PortsAssumption DEF CI, Missed
    <3>3. PICK s \in CIStatus : s = IF Overdue(c) THEN "ERROR" ELSE cis[c].status
      BY <3>1 DEF CI, CIStatus
    <3>4. cis'[c] = [cis[c] EXCEPT !.missed = Missed(c), !.status = s]
      BY <2>1, <2>2, <3>3
    <3>5. cis'[c] \in CI /\ cis'[c].status = s
      BY <3>1, <3>2, <3>4 DEF CI
    <3>6. s = IF Fails(c) THEN "ERROR" ELSE cis[c].status
      BY <3>3 DEF Fails
    <3> QED  BY <3>1, <3>5, <3>6
  <2>3. CASE ~Checked(c)
    BY <1>1, <2>1, <2>3 DEF Fails, Overdue
  <2> QED  BY <2>2, <2>3
<1>3. ASSUME NEW c \in Names
      PROVE  /\ registry'[c] \in RegistryEntry \cup {None}
             /\ registry'[c] # None =>
                  /\ registry[c] # None
                  /\ registry'[c].port = registry[c].port
                  /\ registry'[c].role = registry[c].role
                  /\ registry'[c].status = IF Fails(c) THEN "ERROR" ELSE registry[c].status
  <2>1. registry'[c] = IF Fails(c) THEN UpdatedStatus(c, "ERROR")[c] ELSE registry[c]
    BY DEF CheckHeartbeats
  <2>2. CASE Fails(c)
    <3>1. "ERROR" \in CIStatus
      BY DEF CIStatus
    <3>2. /\ UpdatedStatus(c, "ERROR") \in Registries
          /\ SamePorts(UpdatedStatus(c, "ERROR"), registry)
          /\ UpdatedStatus(c, "ERROR")[c] # None => UpdatedStatus(c, "ERROR")[c].status = "ERROR"
      BY <1>1, <3>1, UpdatedStatusIs
    <3> QED  BY <2>1, <2>2, <3>2 DEF Registries, SamePorts
  <2>3. CASE ~Fails(c)
    BY <1>1, <2>1, <2>3 DEF Registries
  <2> QED  BY <2>2, <2>3
<1>4. DOMAIN cis' = Names /\ DOMAIN registry' = Names /\ UNCHANGED <<stale, file>>
  BY DEF CheckHeartbeats
<1>5. cis' = [c \in Names |-> cis'[c]] /\ registry' = [c \in Names |-> registry'[c]]
  BY DEF CheckHeartbeats
<1>6. registry' \in Registries /\ cis' \in [Names -> CI \cup {None}]
  BY <1>2, <1>3, <1>5 DEF Registries
<1>7. TypeOK'
  BY <1>4, <1>6 DEF Inv, TypeOK, Registries
<1>8. SamePorts(registry', registry)
  BY <1>3 DEF SamePorts
<1>9. PortsUnique' /\ UniquePorts(file)'
  BY <1>1, <1>4, <1>6, <1>8, FewerPorts DEF Inv, PortsUnique, UniquePorts, Registered
<1>10. StatusAgrees'
  BY <1>2, <1>3 DEF Inv, StatusAgrees, Registered
<1> QED  BY <1>7, <1>9, <1>10 DEF Inv

\* Every step preserves the invariant.
LEMMA NextPreserves ==
  ASSUME Inv, [Next]_vars
  PROVE  Inv'
<1>1. ASSUME NEW c \in Names, cis[c] # None
      PROVE  cis[c] \in CI
  BY <1>1 DEF Inv, TypeOK
<1>2. ASSUME NEW c \in Names, cis[c] # None, NEW s \in CIStatus
      PROVE  [cis[c] EXCEPT !.status = s] \in CI
  BY <1>1, <1>2 DEF CI
<1>3. ASSUME NEW c \in Names, NEW role \in Roles, CreateCI(c, role)
      PROVE  Inv'
  BY <1>3, CreatePreserves
<1>4. ASSUME NEW c \in Names, StartCI(c)
      PROVE  Inv'
  <2>1. cis[c] # None /\ Change(c, [cis[c] EXCEPT !.status = "STARTING"])
    BY <1>4 DEF StartCI
  <2>2. [cis[c] EXCEPT !.status = "STARTING"] \in CI
    BY <1>2, <2>1 DEF CIStatus
  <2> QED  BY <2>1, <2>2, ChangePreserves
<1>5. ASSUME NEW c \in Names, NEW graceful \in BOOLEAN, StopCI(c, graceful)
      PROVE  Inv'
  <2>1. cis[c] # None /\ Change(c, [cis[c] EXCEPT !.status = StopStatus(graceful)])
    BY <1>5 DEF StopCI
  <2>2. StopStatus(graceful) \in CIStatus
    BY DEF StopStatus, CIStatus
  <2>3. [cis[c] EXCEPT !.status = StopStatus(graceful)] \in CI
    BY <1>2, <2>1, <2>2
  <2> QED  BY <2>1, <2>3, ChangePreserves
<1>6. ASSUME NEW c \in Names, RestartCI(c)
      PROVE  Inv'
  <2>1. cis[c] # None /\ Change(c, [cis[c] EXCEPT !.status = "SHUTDOWN"])
    BY <1>6 DEF RestartCI, StopStatus
  <2>2. [cis[c] EXCEPT !.status = "SHUTDOWN"] \in CI
    BY <1>2, <2>1 DEF CIStatus
  <2> QED  BY <2>1, <2>2, ChangePreserves
<1>7. ASSUME NEW c \in Names, Ready(c) \/ ReportError(c)
      PROVE  Inv'
  <2>1. /\ cis[c] # None
        /\ Transition(c, cis[c], "READY") \/ Transition(c, cis[c], "ERROR")
    BY <1>7 DEF Ready, ReportError
  <2>2. {"READY", "ERROR"} \subseteq DOMAIN StatusAfter
    BY DEF StatusAfter
  <2> QED  BY <1>1, <2>1, <2>2, TransitionPreserves
<1>8. ASSUME NEW c \in Names, CompleteTask(c) \/ \E task \in Tasks : AssignTask(c, task)
      PROVE  Inv'
  <2>1. /\ cis[c] # None
        /\ \E task \in Tasks \cup {None}, event \in DOMAIN StatusAfter :
             Transition(c, [cis[c] EXCEPT !.task = task], event)
    BY <1>8 DEF CompleteTask, AssignTask, StatusAfter
  <2>2. PICK task \in Tasks \cup {None}, event \in DOMAIN StatusAfter :
          Transition(c, [cis[c] EXCEPT !.task = task], event)
    BY <2>1
  <2>3. /\ [cis[c] EXCEPT !.task = task] \in CI
        /\ [cis[c] EXCEPT !.task = task].status = cis[c].status
    BY <1>1, <2>1 DEF CI
  <2> QED  BY <2>1, <2>2, <2>3, TransitionPreserves
<1>9. ASSUME NEW c \in Names, Heartbeat(c)
      PROVE  Inv'
  <2>1. cis[c] \in CI /\ cis' = [cis EXCEPT ![c] = [cis[c] EXCEPT !.missed = 0]]
    BY <1>1, <1>9 DEF Heartbeat
  <2>2. /\ [cis[c] EXCEPT !.missed = 0] \in CI
        /\ [cis[c] EXCEPT !.missed = 0].status = cis[c].status
    BY <2>1, PortsAssumption DEF CI
  <2>3. cis[c] # None /\ stale' = stale \ {c} /\ UNCHANGED <<registry, file>>
    BY <1>9 DEF Heartbeat
  <2>4. TypeOK'
    BY <2>1, <2>2, <2>3 DEF Inv, TypeOK
  <2>5. StatusAgrees'
    BY <2>1, <2>2, <2>3 DEF Inv, TypeOK, StatusAgrees, Registered
  <2> QED  BY <2>3, <2>4, <2>5 DEF Inv, PortsUnique, UniquePorts, Registered
<1>10. ASSUME NEW c \in Names, HeartbeatAges(c)
       PROVE  Inv'
  BY <1>10 DEF HeartbeatAges, Inv, TypeOK, PortsUnique, UniquePorts, StatusAgrees, Registered
<1>11. CASE CheckHeartbeats
  BY <1>11, CheckHeartbeatsPreserves
<1>12. CASE SaveState
  BY <1>12 DEF SaveState, Inv, TypeOK, PortsUnique, UniquePorts, StatusAgrees, Registered
<1>13. CASE Restart
  <2>1. file \in Registries /\ UniquePorts(file)
    BY DEF Inv, TypeOK, Registries
  <2> QED  BY <1>13, <2>1, NewProcessPreserves DEF Restart
<1>14. CASE CrashInSave
  <2>1. PICK written \in SUBSET Registered(registry) :
          NewProcess([c \in Names |-> IF c \in written THEN registry[c] ELSE None])
    BY <1>14 DEF CrashInSave
  <2> DEFINE f == [c \in Names |-> IF c \in written THEN registry[c] ELSE None]
  <2>2. f \in Registries /\ registry \in Registries /\ SamePorts(f, registry)
    BY DEF Inv, TypeOK, Registries, SamePorts
  <2>3. UniquePorts(f)
    BY <2>2, FewerPorts DEF Inv, PortsUnique
  <2> QED  BY <2>1, <2>2, <2>3, NewProcessPreserves
<1>15. CASE UNCHANGED vars
  BY <1>15 DEF vars, Inv, TypeOK, PortsUnique, UniquePorts, StatusAgrees, Registered
<1> QED
  BY <1>3, <1>4, <1>5, <1>6, <1>7, <1>8, <1>9, <1>10, <1>11, <1>12, <1>13, <1>14, <1>15
  DEF Next, Operate, CreateRefused, StartIgnored, AssignRefused

\* The initial registry, manager and file are empty.
LEMMA InitEstablishes == Init => Inv
BY DEF Init, Inv, TypeOK, PortsUnique, UniquePorts, StatusAgrees, Registered

\* The invariant holds in every reachable state.
LEMMA InvHolds == Spec => []Inv
<1>1. Inv /\ [Next]_vars => Inv'
  BY NextPreserves
<1> QED  BY <1>1, InitEstablishes, PTL DEF Spec

\* Registry entries and lifecycle records keep the types of their structures, and
\* a registered CI always has a port that was handed out.
THEOREM TypeCorrect == Spec => []TypeOK
<1>1. Inv => TypeOK
  BY DEF Inv
<1> QED  BY <1>1, InvHolds, PTL

\* Ports stay unique and in the range of their role, however many CIs, roles and
\* ports there are, through reclaiming, crashes in registry_save_state and loading.
THEOREM PortsStayUnique == Spec => []PortsUnique
<1>1. Inv => PortsUnique
  BY DEF Inv
<1> QED  BY <1>1, InvHolds, PTL

\* The registry's status of a CI is always that of the lifecycle manager.
THEOREM StatusesAgree == Spec => []StatusAgrees
<1>1. Inv => StatusAgrees
  BY DEF Inv
<1> QED  BY <1>1, InvHolds, PTL

\* c keeps its place and its port in the registry
Keeps(c) == registry'[c] # None /\ registry'[c].port = registry[c].port

\* Allocation takes the port of no CI that is not offline.
LEMMA AllocateKeepsActive ==
  ASSUME registry \in Registries, NEW role \in Roles, NEW alloc \in AllocatePort(role),
         NEW c \in Names, registry[c] # None, registry[c].status # "OFFLINE"
  PROVE  alloc.registry[c] = registry[c]
<1>1. CASE alloc.registry = registry
  BY <1>1
<1>2. CASE \E v \in Reclaimable(role) : alloc.registry = [registry EXCEPT ![v] = None]
  BY <1>2 DEF Reclaimable, Registered, Registries
<1> QED  BY <1>1, <1>2 DEF AllocatePort

\* A status update removes nobody.
LEMMA UpdateKeeps ==
  ASSUME registry \in Registries, NEW d \in Names, NEW s \in CIStatus,
         registry' = UpdatedStatus(d, s), NEW c \in Names, registry[c] # None
  PROVE  Keeps(c)
<1>1. registry[c] \in RegistryEntry
  BY DEF Registries
<1>2. registry'[c] = registry[c] \/ registry'[c] = [registry[c] EXCEPT !.status = s]
  BY DEF UpdatedStatus, Registries
<1>3. /\ [registry[c] EXCEPT !.status = s] \in RegistryEntry
      /\ [registry[c] EXCEPT !.status = s].port = registry[c].port
  BY <1>1 DEF RegistryEntry
<1> QED  BY <1>2, <1>3, NoneAssumption DEF Keeps

\* While the process lives, a CI that was not stopped keeps its port when ports
\* are reclaimed for others.
THEOREM ActiveCIsKeepPorts == Spec => ActiveKeepsPort
<1> DEFINE Active(c) == registry[c] # None /\ cis[c] # None /\ cis[c].status # "OFFLINE"
<1>1. ASSUME Inv, [Next]_vars, ~Restart, ~CrashInSave, NEW c \in Names, Active(c)
      PROVE  Keeps(c)
  <2>1. /\ registry \in Registries /\ registry[c].status # "OFFLINE"
        /\ cis \in [Names -> CI \cup {None}]
    BY <1>1 DEF Inv, TypeOK, Registries, StatusAgrees, Registered
  <2>2. ASSUME NEW d \in Names, NEW role \in Roles, CreateCI(d, role)
        PROVE  Keeps(c)
    <3>1. PICK alloc \in AllocatePort(role) :
            \/ CanAdd(alloc.registry, d) /\ registry' = Added(alloc.registry, d, role, alloc.port)
            \/ registry' = alloc.registry
      BY <2>2 DEF CreateCI
    <3>2. alloc.registry[c] = registry[c]
      BY <1>1, <2>1, AllocateKeepsActive
    <3>3. CanAdd(alloc.registry, d) => d # c
      BY <1>1, <3>2 DEF CanAdd
    <3>4. alloc.registry \in Registries
      BY <1>1, <2>1, AllocatedPortIsFree DEF Inv, PortsUnique
    <3>5. registry'[c] = registry[c]
      BY <3>1, <3>2, <3>3, <3>4 DEF Added, Registries
    <3> QED  BY <1>1, <3>5 DEF Keeps
  <2>3. ASSUME NEW d \in Names, StartCI(d) \/ RestartCI(d) \/ \E graceful \in BOOLEAN : StopCI(d, graceful)
        PROVE  Keeps(c)
    <3>1. PICK s \in CIStatus : cis[d] # None /\ Change(d, [cis[d] EXCEPT !.status = s])
      BY <2>3 DEF StartCI, RestartCI, StopCI, StopStatus, CIStatus
    <3>2. [cis[d] EXCEPT !.status = s].status = s
      BY <2>1, <3>1 DEF CI
    <3>3. registry' = UpdatedStatus(d, s)
      BY <3>1, <3>2 DEF Change
    <3> QED  BY <1>1, <2>1, <3>3, UpdateKeeps
  <2>4. ASSUME NEW d \in Names, NEW ci \in CI, NEW event \in DOMAIN StatusAfter,
               Transition(d, ci, event)
        PROVE  Keeps(c)
    <3>1. StatusAfter[event] \in CIStatus
      BY DEF StatusAfter, CIStatus
    <3>2. [ci EXCEPT !.status = StatusAfter[event]].status = StatusAfter[event]
      BY DEF CI
    <3>3. registry' = UpdatedStatus(d, StatusAfter[event]) \/ registry' = registry
      BY <2>4, <3>2 DEF Transition, Change
    <3> QED  BY <1>1, <2>1, <3>1, <3>3, UpdateKeeps DEF Keeps
  <2>5. ASSUME NEW d \in Names,
               \/ Ready(d) \/ ReportError(d) \/ CompleteTask(d)
               \/ \E task \in Tasks : AssignTask(d, task)
        PROVE  Keeps(c)
    <3>1. cis[d] \in CI
      BY <2>1, <2>5 DEF Ready, ReportError, CompleteTask, AssignTask
    <3>2. \A task \in Tasks \cup {None} : [cis[d] EXCEPT !.task = task] \in CI
      BY <3>1 DEF CI
    <3>3. {"READY", "ERROR", "TASK_COMPLETE", "TASK_ASSIGNED"} \subseteq DOMAIN StatusAfter
      BY DEF StatusAfter
    <3> QED  BY <2>4, <2>5, <3>1, <3>2, <3>3 DEF Ready, ReportError, CompleteTask, AssignTask
  <2>6. CASE CheckHeartbeats
    <3>1. registry'[c] = registry[c] \/ registry'[c] = UpdatedStatus(c, "ERROR")[c]
      BY <2>6 DEF CheckHeartbeats
    <3>2. registry[c] \in RegistryEntry
      BY <1>1, <2>1 DEF Registries
    <3>3. UpdatedStatus(c, "ERROR")[c] = [registry[c] EXCEPT !.status = "ERROR"]
      BY <1>1, <2>1 DEF UpdatedStatus, Registries
    <3>4. /\ [registry[c] EXCEPT !.status = "ERROR"] \in RegistryEntry
          /\ [registry[c] EXCEPT !.status = "ERROR"].port = registry[c].port
      BY <3>2 DEF RegistryEntry, CIStatus
    <3> QED  BY <1>1, <3>1, <3>3, <3>4, NoneAssumption DEF Keeps
  <2>7. CASE UNCHANGED registry
    BY <1>1, <2>7 DEF Keeps
  <2> QED
    BY <1>1, <2>2, <2>3, <2>5, <2>6, <2>7
    DEF Next, Operate, CreateRefused, StartIgnored, AssignRefused, Heartbeat, HeartbeatAges,
        SaveState, vars
<1>2. Inv /\ [Next]_vars =>
        \/ Restart \/ CrashInSave
        \/ \A c \in Registered(registry) :
             (cis[c] # None /\ cis[c].status # "OFFLINE")
               => registry'[c] # None /\ registry'[c].port = registry[c].port
  BY <1>1 DEF Keeps, Registered
<1> QED  BY <1>2, InvHolds, PTL DEF Spec, ActiveKeepsPort
=============================================================================
