--------------------------- MODULE InventoryProofs ---------------------------
(***************************************************************************)
(* Proofs about how hosts come into the inventory and what is said of them: *)
(* ProxmoxSync, for any sets of VMs, nodes, credentials, syncs and admins   *)
(* and any number of faults, and InventoryVars, for any statuses, types,    *)
(* roles, apps, declarations and values, any requests of the role matrix    *)
(* and any number of writes.                                                *)
(*                                                                         *)
(* ProxmoxSync.  SnapshotHolds is inductive only together with OneSync: the *)
(* one actor that removes an entry or makes it pending again is a sync that *)
(* commits, and no other sync is then at work on what it has read.          *)
(*                                                                         *)
(* InventoryVars.  That the explorer and the export agree is a fact about   *)
(* the two lists of layers, whatever the host is: layer by layer they hold  *)
(* the same rows, so that the same layer has the last word, and rows are    *)
(* applied in the same order unless a priority of 0 says otherwise.  What a *)
(* save does rests on an invariant, PanelSave: a panel, a save and an       *)
(* answer that no write has made old still agree with what would be         *)
(* composed now.  AddedInOrder needs what the matrix has read: no role is   *)
(* above the top that a request read, unless the request is late.           *)
(***************************************************************************)
EXTENDS ProxmoxSync, InventoryVars, TLAPS, FiniteSetTheorems

-----------------------------------------------------------------------------
(* ProxmoxSync.                                                             *)

\* Whoever syncs has taken the lock.
LockInv == \A s \in Syncs : InProgress(s) => lock

SyncInv == TypeOK /\ LockInv /\ OneSync /\ SnapshotHolds

-----------------------------------------------------------------------------
(* Types.                                                                   *)

\* The values of an idle sync and of an empty list of entries have their types.
LEMMA IdleTyped ==
    /\ IdleSync \in Sync
    /\ NoEntries \in Entries
  BY DEF IdleSync, Sync, NoEntries, Entries

\* What a sync writes concerns VMs and nodes only.
LEMMA WritesTyped ==
  ASSUME NEW t \in Sync
  PROVE  /\ Touches(t) \subseteq VMs /\ Creates(t) \subseteq VMs
         /\ Waits(t) \subseteq VMs
         /\ Drops(t) \subseteq VMs /\ Queues(t) \subseteq Keys
         /\ Requeues(t) \subseteq VMs
  BY DEF Sync, Touches, Creates, Waits, Drops, Queues, Requeues, Keys

\* The faults that happen stay below their bound.
LEMMA FaultTyped ==
  ASSUME faults \in 0 .. MaxFaults, Fault
  PROVE  faults' \in 0 .. MaxFaults
  BY MaxFaultsAssumption DEF Fault

\* A sync that ends leaves the record of an idle one.
LEMMA EndTyped ==
  ASSUME sync \in [Syncs -> Sync], NEW s \in Syncs, SyncEnds(s)
  PROVE  /\ lock' = FALSE
         /\ sync' \in [Syncs -> Sync]
         /\ sync'[s].pc = "idle"
         /\ \A u \in Syncs : u # s => sync'[u] = sync[u]
  BY IdleTyped DEF SyncEnds, IdleSync

\* An admin's request begins.
LEMMA AdminBeginsTyped ==
  ASSUME TypeOK, NEW a \in Admins, NEW pc \in {"promote", "dismiss", "recycle"},
         NEW k \in Keys, AdminBegins(a, pc, k)
  PROVE  admin' \in [Admins -> {IdleAdmin} \cup Request]
  BY DEF TypeOK, AdminBegins, Request

\* An admin's request ends.
LEMMA AdminEndsTyped ==
  ASSUME TypeOK, NEW a \in Admins, AdminEnds(a)
  PROVE  admin' \in [Admins -> {IdleAdmin} \cup Request]
  BY DEF TypeOK, AdminEnds

\* Every step of a sync keeps the types.
LEMMA SyncStepTyped ==
  ASSUME TypeOK, NEW s \in Syncs, SyncSteps(s)
  PROVE  TypeOK'
<1>1. CASE SyncLocks(s)
  BY <1>1 DEF SyncLocks, TypeOK, Sync
<1>2. CASE SyncLeaks(s)
  BY <1>2, IdleTyped, FaultTyped DEF SyncLeaks, TypeOK
<1>3. CASE SyncBegins(s)
  BY <1>3, KeysAssumption DEF SyncBegins, TypeOK, Sync, Keys
<1>4. CASE SyncTakes(s)
  <2>1. CASE SyncEnds(s)
    BY <1>4, <2>1, EndTyped DEF SyncTakes, TypeOK
  <2>2. CASE UNCHANGED lock /\ \E r \in sync[s].todo : \E again \in BOOLEAN :
                 sync' = [sync EXCEPT ![s].todo = @ \ {r},
                                      ![s].done = @ \cup {r[1]}]
              \/ sync' = [sync EXCEPT ![s].todo = @ \ {r}, ![s].twice = again]
    <3>1. PICK r \in sync[s].todo, again \in BOOLEAN :
              \/ sync' = [sync EXCEPT ![s].todo = @ \ {r},
                                      ![s].done = @ \cup {r[1]}]
              \/ sync' = [sync EXCEPT ![s].todo = @ \ {r}, ![s].twice = again]
      BY <2>2
    <3>2. sync[s] \in Sync /\ r[1] \in VMs
      BY DEF TypeOK, Sync
    <3> QED BY <1>4, <2>2, <3>1, <3>2 DEF SyncTakes, TypeOK, Sync
  <2>3. \A r \in sync[s].todo : sync[s].twice \in BOOLEAN
    BY DEF TypeOK, Sync
  <2> QED BY <1>4, <2>1, <2>2, <2>3 DEF SyncTakes
<1>5. CASE SyncSucceeds(s)
  <2>1. sync[s] \in Sync
    BY DEF TypeOK
  <2>2. host' \subseteq Keys
    BY <1>5, <2>1, WritesTyped DEF SyncSucceeds, TypeOK, Keys
  <2>3. entry' \in Entries
    BY <1>5 DEF SyncSucceeds, TypeOK, Entries, Statuses
  <2> QED BY <1>5, <2>2, <2>3, EndTyped DEF SyncSucceeds, TypeOK
<1>6. CASE SyncConflicts(s)
  BY <1>6, EndTyped DEF SyncConflicts, TypeOK
<1>7. CASE SyncFails(s)
  BY <1>7, EndTyped, FaultTyped DEF SyncFails, TypeOK
<1> QED BY <1>1, <1>2, <1>3, <1>4, <1>5, <1>6, <1>7 DEF SyncSteps

\* Every step of an admin's request keeps the types.
LEMMA AdminStepTyped ==
  ASSUME TypeOK, NEW a \in Admins, AdminSteps(a)
  PROVE  TypeOK'
<1>1. CASE PromoteLoads(a)
  BY <1>1, AdminBeginsTyped DEF PromoteLoads, TypeOK
<1>2. CASE PromoteCommits(a)
  <2>1. admin[a].key \in Keys
    BY <1>2 DEF PromoteCommits, TypeOK, Request, IdleAdmin
  <2> QED BY <1>2, <2>1, AdminEndsTyped DEF PromoteCommits, TypeOK, Entries, Statuses
<1>3. CASE DismissLoads(a)
  BY <1>3, AdminBeginsTyped DEF DismissLoads, TypeOK
<1>4. CASE DismissCommits(a)
  BY <1>4, AdminEndsTyped DEF DismissCommits, TypeOK, Entries, Statuses
<1>5. CASE RecycleDeletes(a)
  BY <1>5, AdminBeginsTyped DEF RecycleDeletes, TypeOK, Keys
<1>6. CASE RecycleQueues(a)
  BY <1>6, AdminEndsTyped DEF RecycleQueues, TypeOK, Entries, Statuses
<1> QED BY <1>1, <1>2, <1>3, <1>4, <1>5, <1>6 DEF AdminSteps

\* Every step keeps the types.
LEMMA StepTyped ==
  ASSUME TypeOK, [Next]_vars
  PROVE  TypeOK'
<1>1. CASE \E s \in Syncs : SyncSteps(s)
  BY <1>1, SyncStepTyped
<1>2. CASE \E a \in Admins : AdminSteps(a)
  BY <1>2, AdminStepTyped
<1>3. CASE CreateHost \/ DeleteHost
  BY <1>3 DEF CreateHost, DeleteHost, TypeOK, Keys
<1>4. CASE DefaultsChange
  BY <1>4 DEF DefaultsChange, TypeOK
<1>5. CASE Crash
  BY <1>5, IdleTyped, FaultTyped DEF Crash, TypeOK
<1>6. CASE UNCHANGED vars
  BY <1>6 DEF vars, TypeOK
<1> QED BY <1>1, <1>2, <1>3, <1>4, <1>5, <1>6 DEF Next

-----------------------------------------------------------------------------
(* The invariant.                                                           *)

\* Before anything happens the invariant holds.
LEMMA InitInv ==
  ASSUME Init
  PROVE  SyncInv
<1>1. TypeOK
  <2>1. lock \in BOOLEAN /\ defaults \in BOOLEAN /\ host \subseteq Keys
    BY Zenon DEF Init
  <2>2. entry \in Entries /\ sync \in [Syncs -> Sync]
    BY IdleTyped DEF Init
  <2>3. faults \in 0 .. MaxFaults
    BY MaxFaultsAssumption DEF Init
  <2>4. admin \in [Admins -> {IdleAdmin} \cup Request]
    BY DEF Init
  <2> QED BY <2>1, <2>2, <2>3, <2>4 DEF TypeOK
<1>2. \A s \in Syncs : sync[s].pc = "idle"
  BY DEF Init, IdleSync
<1> QED BY <1>1, <1>2 DEF SyncInv, LockInv, OneSync, SnapshotHolds, InProgress

\* A sync keeps the lock for itself: who begins finds it free, and who ends was
\* the only one.
LEMMA SyncStepLock ==
  ASSUME SyncInv, NEW s \in Syncs, SyncSteps(s)
  PROVE  (LockInv /\ OneSync)'
<1>1. sync \in [Syncs -> Sync] /\ LockInv /\ OneSync
  BY DEF SyncInv, TypeOK
<1>2. CASE SyncLocks(s)
  BY <1>1, <1>2 DEF SyncLocks, LockInv, OneSync, InProgress
<1>3. CASE InProgress(s) /\ SyncEnds(s)
  BY <1>1, <1>3, EndTyped DEF LockInv, OneSync, InProgress
<1>4. CASE /\ InProgress(s) /\ lock' = lock
           /\ \A u \in Syncs : u # s => sync'[u] = sync[u]
  BY <1>1, <1>4 DEF LockInv, OneSync, InProgress
<1>5. CASE SyncLeaks(s) \/ SyncBegins(s)
  BY <1>1, <1>4, <1>5 DEF SyncLeaks, SyncBegins, InProgress
<1>6. CASE SyncTakes(s)
  <2>1. InProgress(s)
    BY <1>6 DEF SyncTakes, InProgress
  <2>2. \/ SyncEnds(s)
        \/ lock' = lock /\ \A u \in Syncs : u # s => sync'[u] = sync[u]
    BY <1>1, <1>6 DEF SyncTakes
  <2> QED BY <1>3, <1>4, <2>1, <2>2
<1>7. CASE SyncSucceeds(s) \/ SyncConflicts(s) \/ SyncFails(s)
  BY <1>3, <1>7 DEF SyncSucceeds, SyncConflicts, SyncFails, InProgress
<1> QED BY <1>2, <1>5, <1>6, <1>7 DEF SyncSteps

\* What the other syncs have read still holds after a step of one sync: only a
\* commit changes entries, and then no other sync is at work.
LEMMA SyncStepSnapshot ==
  ASSUME SyncInv, NEW s \in Syncs, SyncSteps(s)
  PROVE  SnapshotHolds'
<1>1. sync \in [Syncs -> Sync] /\ OneSync /\ SnapshotHolds
  BY DEF SyncInv, TypeOK
<1>2. CASE SyncBegins(s)
  BY <1>1, <1>2 DEF SyncBegins, SnapshotHolds, OneSync, InProgress
<1>3. CASE SyncSucceeds(s)
  BY <1>1, <1>3, EndTyped DEF SyncSucceeds, SnapshotHolds, OneSync, InProgress
<1>4. CASE SyncEnds(s) /\ UNCHANGED entry
  BY <1>1, <1>4, EndTyped DEF SnapshotHolds
<1>5. CASE SyncLocks(s) \/ SyncLeaks(s)
  <2>1. /\ sync'[s].pc # "syncing" /\ entry' = entry
        /\ \A u \in Syncs : u # s => sync'[u] = sync[u]
    BY <1>1, <1>5 DEF SyncLocks, SyncLeaks, IdleSync, Sync
  <2> QED BY <1>1, <2>1 DEF SnapshotHolds
<1>6. CASE SyncTakes(s)
  <2>1. \/ SyncEnds(s)
        \/ \A u \in Syncs : sync'[u].pc = "syncing" =>
               /\ sync[u].pc = "syncing"
               /\ sync'[u].seenEntry = sync[u].seenEntry
    BY <1>1, <1>6 DEF SyncTakes, Sync
  <2> QED BY <1>1, <1>4, <1>6, <2>1 DEF SyncTakes, SnapshotHolds
<1>7. CASE SyncConflicts(s) \/ SyncFails(s)
  BY <1>4, <1>7 DEF SyncConflicts, SyncFails
<1> QED BY <1>2, <1>3, <1>5, <1>6, <1>7 DEF SyncSteps

\* No request of an admin removes an entry, and none makes an entry pending
\* that was decided on.
LEMMA AdminStepSnapshot ==
  ASSUME SyncInv, NEW a \in Admins, AdminSteps(a)
  PROVE  SnapshotHolds' /\ UNCHANGED <<lock, sync>>
<1>1. UNCHANGED <<lock, sync>>
  BY DEF AdminSteps, PromoteLoads, PromoteCommits, DismissLoads, DismissCommits,
         RecycleDeletes, RecycleQueues
<1>2. \A k \in Keys : /\ entry[k] # "none" => entry'[k] # "none"
                      /\ entry'[k] = "pending" => entry[k] \in {"pending", "none"}
  BY DEF SyncInv, TypeOK, Entries, AdminSteps, PromoteLoads, PromoteCommits,
         DismissLoads, DismissCommits, RecycleDeletes, RecycleQueues
<1> QED BY <1>1, <1>2 DEF SyncInv, TypeOK, SnapshotHolds

\* Every step keeps the invariant.
LEMMA NextInv ==
  ASSUME SyncInv, [Next]_vars
  PROVE  SyncInv'
<1>1. TypeOK'
  BY StepTyped DEF SyncInv
<1>2. (LockInv /\ OneSync /\ SnapshotHolds)'
  <2>1. CASE \E s \in Syncs : SyncSteps(s)
    BY <2>1, SyncStepLock, SyncStepSnapshot
  <2>2. CASE \E a \in Admins : AdminSteps(a)
    BY <2>2, AdminStepSnapshot DEF SyncInv, LockInv, OneSync, InProgress
  <2>3. CASE Crash
    BY <2>3 DEF Crash, IdleSync, LockInv, OneSync, SnapshotHolds, InProgress
  <2>4. CASE CreateHost \/ DeleteHost \/ DefaultsChange \/ UNCHANGED vars
    BY <2>4 DEF CreateHost, DeleteHost, DefaultsChange, vars, SyncInv, LockInv,
                OneSync, SnapshotHolds, InProgress
  <2> QED BY <2>1, <2>2, <2>3, <2>4 DEF Next
<1> QED BY <1>1, <1>2 DEF SyncInv

\* The inductive invariant.
THEOREM SyncInvariant == Spec => []SyncInv
<1>1. Init => SyncInv
  BY InitInv
<1>2. SyncInv /\ [Next]_vars => SyncInv'
  BY NextInv
<1> QED BY <1>1, <1>2, PTL DEF Spec

-----------------------------------------------------------------------------
(* The properties.                                                          *)

\* Type correctness.
THEOREM SyncTyped == Spec => []TypeOK
<1>1. SyncInv => TypeOK
  BY DEF SyncInv
<1> QED BY <1>1, SyncInvariant, PTL

\* Two syncs are never in progress at once.
THEOREM OneSyncAtATime == Spec => []OneSync
<1>1. SyncInv => OneSync
  BY DEF SyncInv
<1> QED BY <1>1, SyncInvariant, PTL

\* No admin takes away an entry that a sync has read, or undoes a decision that
\* it has read.
THEOREM SnapshotsHold == Spec => []SnapshotHolds
<1>1. SyncInv => SnapshotHolds
  BY DEF SyncInv
<1> QED BY <1>1, SyncInvariant, PTL

\* A decision of an admin is only undone by a sync that began after it, and only
\* for a VM.
THEOREM DecisionsAreKept == Spec => DecisionsStand
<1> DEFINE Undone == \A k \in Keys :
              entry[k] \in {"dismissed", "promoted"} /\ entry'[k] = "pending" =>
                  /\ k \in VMs
                  /\ \E s \in Syncs : SyncSucceeds(s) /\ sync[s].seenEntry[k] = "dismissed"
<1>1. SyncInv /\ [Next]_vars => [Undone]_vars
  <2> SUFFICES ASSUME SyncInv, Next, NEW k \in Keys,
                      entry[k] \in {"dismissed", "promoted"}, entry'[k] = "pending"
               PROVE  /\ k \in VMs
                      /\ \E s \in Syncs : SyncSucceeds(s) /\ sync[s].seenEntry[k] = "dismissed"
    BY DEF vars
  <2>1. PICK s \in Syncs : SyncSucceeds(s)
    <3>1. ~ \E a \in Admins : AdminSteps(a)
      BY DEF SyncInv, TypeOK, Entries, AdminSteps, PromoteLoads, PromoteCommits,
             DismissLoads, DismissCommits, RecycleDeletes, RecycleQueues
    <3>2. \E s \in Syncs : SyncSteps(s)
      BY <3>1 DEF Next, CreateHost, DeleteHost, DefaultsChange, Crash
    <3> QED BY <3>2 DEF SyncSteps, SyncLocks, SyncLeaks, SyncBegins, SyncTakes,
                        SyncConflicts, SyncFails
  <2>2. sync[s] \in Sync /\ ~Conflicts(sync[s])
    BY <2>1 DEF SyncInv, TypeOK, SyncSucceeds
  <2>3. k \in Queues(sync[s]) \cup Requeues(sync[s])
    BY <2>1 DEF SyncSucceeds
  <2>4. k \notin Queues(sync[s])
    BY <2>2 DEF Conflicts
  <2> QED BY <2>1, <2>2, <2>3, <2>4, WritesTyped DEF Requeues
<1>2. [][Undone]_vars => DecisionsStand
  BY PTL DEF DecisionsStand
<1> QED BY <1>1, <1>2, SyncInvariant, PTL DEF Spec

\* A sync that succeeds leaves every VM that it dealt with as a host or with an
\* entry.
THEOREM SyncedAreKnown == Spec => SyncedIsKnown
<1> DEFINE Known == \A s \in Syncs : SyncSucceeds(s) =>
                        \A v \in sync[s].done : v \in host' \/ entry'[v] # "none"
<1>1. SyncInv => [Known]_vars
  <2> SUFFICES ASSUME SyncInv, NEW s \in Syncs, SyncSucceeds(s),
                      NEW v \in sync[s].done
               PROVE  v \in host' \/ entry'[v] # "none"
    BY DEF vars
  <2> DEFINE t == sync[s]
  <2>1. /\ t \in Sync /\ v \in VMs /\ v \in Keys /\ ~Conflicts(t)
        /\ t.pc = "syncing" /\ entry \in Entries
        /\ t.seenEntry[v] \in {"none", "pending", "promoted", "dismissed"}
    BY DEF SyncInv, TypeOK, SyncSucceeds, Sync, Keys, Entries, Statuses
  <2>2. CASE v \in t.seenHost
    BY <2>1, <2>2 DEF SyncSucceeds, Touches, Conflicts
  <2>3. CASE v \notin t.seenHost /\ t.defaults
    BY <2>3 DEF SyncSucceeds, Creates
  <2>4. CASE v \notin t.seenHost /\ ~t.defaults
    <3>1. v \in Waits(t) /\ v \notin Drops(t)
      BY <2>4 DEF Waits, Drops, Touches, Creates
    <3>2. CASE t.seenEntry[v] = "none"
      BY <2>1, <3>1, <3>2 DEF SyncSucceeds, Queues
    <3>3. CASE t.seenEntry[v] # "none"
      <4>1. entry[v] # "none"
        BY <2>1, <3>3 DEF SyncInv, SnapshotHolds
      <4> QED BY <2>1, <3>1, <4>1 DEF SyncSucceeds
    <3> QED BY <3>2, <3>3
  <2> QED BY <2>1, <2>2, <2>3, <2>4 DEF Sync
<1>2. [][Known]_vars => SyncedIsKnown
  BY PTL DEF SyncedIsKnown
<1> QED BY <1>1, <1>2, SyncInvariant, PTL

-----------------------------------------------------------------------------
(* InventoryVars: the layers of one variable.                               *)

\* Where a save may go, and what a panel may have loaded.
Targets == Fields \cup {Ansible, Fallback}
Panels == [target : Targets \cup {Nowhere}, overridden : BOOLEAN, behind : BOOLEAN]

\* The declarations, the host and its overrides have their types.
HostTyped ==
    /\ schema \in Schemas
    /\ ansible \in {"absent", "null", "set"}
    /\ details \in [status : HostStatuses, type : HostTypes, apps : SUBSET Apps]
    /\ Numbered(priority)
    /\ over \in [Fields \cup {Ansible} -> Values \cup {None}]

\* The layers of the explorer, one by one.
LEMMA ExplorerLayer ==
    /\ DOMAIN ExplorerLayers = 1 .. 13
    /\ ExplorerLayers[1] = Layer("assign", "base", AnyOrder(BaseRows))
    /\ ExplorerLayers[2] = Layer("setdefault", "default", AnyOrder(AnsibleRows))
    /\ ExplorerLayers[3] = Layer("setdefault", "default",
                                 AnyOrder(Defaults("status", {details.status})))
    /\ ExplorerLayers[4] = ShownRoles("setdefault", schema.globals)
    /\ ExplorerLayers[5] = Layer("setdefault", "default",
                                 AnyOrder(Defaults("type", {details.type})))
    /\ ExplorerLayers[6] = ShownRoles("assign", schema.ofType)
    /\ ExplorerLayers[7] = ShownRoles("assign", priority)
    /\ ExplorerLayers[8] = Layer("setdefault", "default",
                                 ByName(Defaults("app", details.apps)))
    /\ ExplorerLayers[9] = Layer("assign", "override",
                                 AnyOrder(Overrides(TypeFields)))
    /\ ExplorerLayers[10] = Layer("assign", "override",
                                  AnyOrder(Overrides(StatusFields)))
    /\ ExplorerLayers[11] = Layer("assign", "override",
                                  ByName(Overrides(RoleFields)))
    /\ ExplorerLayers[12] = Layer("assign", "override",
                                  ByName(Overrides(AppFields)))
    /\ ExplorerLayers[13] = Layer("assign", "override",
                                  AnyOrder(Overrides({Ansible})))
  BY DEF ExplorerLayers, ShownRoleDefaults

\* The layers of the export: the explorer's, but for the order of the rows of
\* roles, of apps and of the overrides of roles and apps.
LEMMA ExportLayer ==
    /\ DOMAIN ExportLayers = 1 .. 13
    /\ \A i \in {1, 2, 3, 5, 9, 10, 13} : ExportLayers[i] = ExplorerLayers[i]
    /\ ExportLayers[4] = ExportedRoles("setdefault", schema.globals)
    /\ ExportLayers[6] = ExportedRoles("assign", schema.ofType)
    /\ ExportLayers[7] = ExportedRoles("assign", priority)
    /\ ExportLayers[8] = Layer("setdefault", "default",
                               AnyOrder(Defaults("app", details.apps)))
    /\ ExportLayers[11] = Layer("assign", "override",
                                AnyOrder(Overrides(RoleFields)))
    /\ ExportLayers[12] = Layer("assign", "override",
                                AnyOrder(Overrides(AppFields)))
  BY DEF ExportLayers, ExplorerLayers, ShownRoleDefaults

\* What a layer is made of.
LEMMA LayerParts ==
  ASSUME NEW mode, NEW kind, NEW rank
  PROVE  /\ Layer(mode, kind, rank).mode = mode
         /\ Layer(mode, kind, rank).kind = kind
         /\ Layer(mode, kind, rank).rank = rank
         /\ Owners(Layer(mode, kind, rank)) = DOMAIN rank
  BY DEF Layer, Owners

\* Rows that come in any order may each be the one in force.
LEMMA AnyOrderLeft ==
  ASSUME NEW mode, NEW kind, NEW rows
  PROVE  Left(Layer(mode, kind, AnyOrder(rows)))
            = {[kind |-> kind, owner |-> o] : o \in rows}
  BY LayerParts DEF Left, Rows, AnyOrder, Applied

\* In any other order only some of them.
LEMMA LeftRows ==
  ASSUME NEW mode, NEW kind, NEW rank
  PROVE  /\ Left(Layer(mode, kind, rank))
               \subseteq {[kind |-> kind, owner |-> o] : o \in DOMAIN rank}
         /\ \A o \in DOMAIN rank :
               rank[o] \in Int /\ DOMAIN rank = {o} =>
                  Left(Layer(mode, kind, rank)) = {[kind |-> kind, owner |-> o]}
  BY LayerParts DEF Left, Rows, Applied

\* Rows in an order of their own leave one of them.
LEMMA UntiedLeft ==
  ASSUME NEW mode, NEW kind, NEW rank, \A o \in DOMAIN rank : rank[o] \in Int,
         ~Tied(Layer(mode, kind, rank))
  PROVE  \A row, other \in Left(Layer(mode, kind, rank)) : row = other
<1> DEFINE layer == Layer(mode, kind, rank)
<1> SUFFICES ASSUME NEW row \in Left(layer), NEW other \in Left(layer)
             PROVE  row = other
  OBVIOUS
<1>1. PICK o \in DOMAIN rank : row = [kind |-> kind, owner |-> o]
  BY LeftRows
<1>2. PICK p \in DOMAIN rank : other = [kind |-> kind, owner |-> p]
  BY LeftRows
<1>3. Applied(layer, o, p) /\ Applied(layer, p, o)
  BY <1>1, <1>2, LayerParts DEF Left
<1>4. rank[o] = rank[p]
  BY <1>3, LayerParts DEF Applied
<1> QED
  BY <1>1, <1>2, <1>4, LayerParts DEF Tied

\* The rank of a row in each of the orders.
LEMMA RankTyped ==
  ASSUME HostTyped, NEW rows
  PROVE  /\ DOMAIN AnyOrder(rows) = rows
         /\ DOMAIN ByName(rows) = rows
         /\ \A o \in rows : AnyOrder(rows)[o] \in Int
         /\ rows \subseteq RoleFields \cup AppFields =>
               \A o \in rows : ByName(rows)[o] \in Int
  BY NumbersAssumption DEF HostTyped, AnyOrder, ByName, RoleFields, AppFields

\* Who the defaults and the overrides belong to.
LEMMA RowsTyped ==
  ASSUME HostTyped
  PROVE  /\ \A ids : Defaults("role", ids) \subseteq RoleFields
         /\ \A ids : Defaults("app", ids) \subseteq AppFields
         /\ \A ids : Defaults("status", ids) \subseteq StatusFields
         /\ \A ids : Defaults("type", ids) \subseteq TypeFields
         /\ \A targets : Overrides(targets) \subseteq targets
<1>1. schema.defaults \subseteq Fields
  BY SchemasAssumption DEF HostTyped, SchemaOK
<1> QED
  BY <1>1 DEF Defaults, Overrides, Fields, RoleFields, AppFields, StatusFields,
              TypeFields

\* No priority of 0 stands beside one that the export takes for smaller.
Ordered ==
    \A number \in {schema.globals, schema.ofType, priority} : ~Disordered(number)

\* The numbers of the declarations and of the host are integers.
LEMMA AllNumbered ==
  ASSUME HostTyped, NEW number \in {schema.globals, schema.ofType, priority}
  PROVE  Numbered(number)
  BY SchemasAssumption DEF HostTyped, SchemaOK

\* The layer of some numbered roles in the explorer and in the export.
LEMMA RolesParts ==
  ASSUME NEW mode, NEW number
  PROVE  LET rows == Defaults("role", DOMAIN number)
         IN  /\ ShownRoles(mode, number).mode = mode
             /\ ExportedRoles(mode, number).mode = mode
             /\ ShownRoles(mode, number).kind = "default"
             /\ ExportedRoles(mode, number).kind = "default"
             /\ Owners(ShownRoles(mode, number)) = rows
             /\ Owners(ExportedRoles(mode, number)) = rows
  BY LayerParts DEF ShownRoles, ExportedRoles

\* Both apply such roles in the same order, but for a priority of 0.
LEMMA SameOrder ==
  ASSUME HostTyped, NEW mode, NEW number, Numbered(number), ~Disordered(number),
         NEW o \in Defaults("role", DOMAIN number),
         NEW p \in Defaults("role", DOMAIN number)
  PROVE  Applied(ShownRoles(mode, number), o, p)
            <=> Applied(ExportedRoles(mode, number), o, p)
<1> DEFINE m == number[o[2]]
           n == number[p[2]]
<1>1. o[2] \in DOMAIN number /\ p[2] \in DOMAIN number
  BY DEF Defaults
<1>2. m \in Int /\ n \in Int
  BY <1>1 DEF Numbered
<1>3. ~(m = 0 /\ n \in 1 .. 100) /\ ~(n = 0 /\ m \in 1 .. 100)
  BY DEF Disordered
<1>4. /\ ShownRoles(mode, number).rank[o] = -m /\ ShownRoles(mode, number).rank[p] = -n
      /\ ExportedRoles(mode, number).rank[o] = -OrHundred(m)
      /\ ExportedRoles(mode, number).rank[p] = -OrHundred(n)
  BY LayerParts DEF ShownRoles, ExportedRoles
<1> HIDE DEF m, n
<1>5. -m <= -n <=> -OrHundred(m) <= -OrHundred(n)
  BY <1>2, <1>3 DEF OrHundred
<1> QED
  BY <1>4, <1>5 DEF Applied

\* So that the same roles are left, and one of them unless two have one number.
LEMMA SameRoles ==
  ASSUME HostTyped, NEW mode, NEW number, Numbered(number), ~Disordered(number)
  PROVE  /\ Left(ShownRoles(mode, number)) = Left(ExportedRoles(mode, number))
         /\ ~Tied(ExportedRoles(mode, number)) =>
               \A row, other \in Left(ExportedRoles(mode, number)) : row = other
<1> DEFINE rows == Defaults("role", DOMAIN number)
<1>1. Left(ShownRoles(mode, number)) = Left(ExportedRoles(mode, number))
  <2>1. Rows(ShownRoles(mode, number)) = Rows(ExportedRoles(mode, number))
    BY RolesParts DEF Rows
  <2>2. \A o, p \in rows : Applied(ShownRoles(mode, number), o, p)
                           <=> Applied(ExportedRoles(mode, number), o, p)
    BY SameOrder
  <2>3. \A row \in Rows(ShownRoles(mode, number)) : row.owner \in rows
    BY RolesParts DEF Rows
  <2> QED
    BY <2>1, <2>2, <2>3, RolesParts DEF Left
<1>2. ASSUME NEW o \in rows PROVE -OrHundred(number[o[2]]) \in Int
  <2>1. number[o[2]] \in Int
    BY DEF Defaults, Numbered
  <2> QED
    BY <2>1 DEF OrHundred
<1> DEFINE rank == [o \in rows |-> -OrHundred(number[o[2]])]
<1>3. ExportedRoles(mode, number) = Layer(mode, "default", rank)
  BY DEF ExportedRoles
<1>4. \A o \in DOMAIN rank : rank[o] \in Int
  BY <1>2
<1> HIDE DEF rank
<1> QED
  BY <1>1, <1>3, <1>4, UntiedLeft

\* The export and the explorer hold the same rows in the same layers.
LEMMA LayersAlike ==
  ASSUME NEW i \in 1 .. 13
  PROVE  /\ ExportLayers[i].mode = ExplorerLayers[i].mode
         /\ ExportLayers[i].kind = ExplorerLayers[i].kind
         /\ Owners(ExportLayers[i]) = Owners(ExplorerLayers[i])
<1>1. CASE i \in {1, 2, 3, 5, 9, 10, 13}
  BY <1>1, ExportLayer
<1>2. CASE i \in {4, 6, 7}
  BY <1>2, ExportLayer, ExplorerLayer, RolesParts
<1>3. CASE i \in {8, 11, 12}
  <2>1. \A rows : DOMAIN AnyOrder(rows) = rows /\ DOMAIN ByName(rows) = rows
    BY DEF AnyOrder, ByName
  <2> QED
    BY <1>3, <2>1, ExportLayer, ExplorerLayer, LayerParts
<1> QED
  BY <1>1, <1>2, <1>3

\* Whatever row a layer leaves in force in the explorer it may leave in the
\* export, but for roles in another order.
LEMMA LeftAlike ==
  ASSUME HostTyped, NEW i \in 1 .. 13, Ordered \/ i >= 9
  PROVE  Left(ExplorerLayers[i]) \subseteq Left(ExportLayers[i])
<1>1. CASE i \in {1, 2, 3, 5, 9, 10, 13}
  BY <1>1, ExportLayer
<1>2. CASE i \in {4, 6, 7}
  <2>1. \A mode : \A number \in {schema.globals, schema.ofType, priority} :
           Left(ShownRoles(mode, number)) = Left(ExportedRoles(mode, number))
    BY <1>2, AllNumbered, SameRoles DEF Ordered
  <2> QED
    BY <1>2, <2>1, ExportLayer, ExplorerLayer
<1>3. CASE i \in {8, 11, 12}
  <2>1. PICK mode, kind, rows :
           /\ ExportLayers[i] = Layer(mode, kind, AnyOrder(rows))
           /\ ExplorerLayers[i] = Layer(mode, kind, ByName(rows))
    BY <1>3, ExportLayer, ExplorerLayer
  <2>2. DOMAIN AnyOrder(rows) = rows /\ DOMAIN ByName(rows) = rows
    BY DEF AnyOrder, ByName
  <2> QED
    BY <2>1, <2>2, AnyOrderLeft, LeftRows
<1> QED
  BY <1>1, <1>2, <1>3

\* A layer assigns or fills what is missing.
LEMMA LayerModes ==
  ASSUME NEW i \in 1 .. 13
  PROVE  /\ ExplorerLayers[i].mode \in {"assign", "setdefault"}
         /\ i >= 9 => /\ ExplorerLayers[i].mode = "assign"
                      /\ ExplorerLayers[i].kind = "override"
         /\ i < 9 => ExplorerLayers[i].kind \in {"base", "default"}
<1>1. CASE i <= 8
  <2>1. CASE i \in {1, 2, 3, 5, 8}
    BY <1>1, <2>1, ExplorerLayer, LayerParts
  <2>2. CASE i \in {4, 6, 7}
    BY <1>1, <2>2, ExplorerLayer, RolesParts
  <2> QED
    BY <1>1, <2>1, <2>2
<1>2. CASE i > 8
  <2>1. i \in {9, 10, 11, 12, 13}
    BY <1>2
  <2> QED
    BY <1>2, <2>1, ExplorerLayer, LayerParts
<1> QED
  BY <1>1, <1>2

\* The same layer has the last word in both.
LEMMA DecidersAlike ==
  ASSUME NEW i \in 1 .. 13
  PROVE  Decides(ExportLayers, i) <=> Decides(ExplorerLayers, i)
<1>1. DOMAIN ExportLayers = 1 .. 13 /\ DOMAIN ExplorerLayers = 1 .. 13
  BY ExportLayer, ExplorerLayer
<1>2. \A j \in 1 .. 13 : /\ ExportLayers[j].mode = ExplorerLayers[j].mode
                         /\ Owners(ExportLayers[j]) = Owners(ExplorerLayers[j])
  BY LayersAlike
<1> QED
  BY <1>1, <1>2 DEF Decides

\* One layer has the last word.
LEMMA OneDecides ==
  ASSUME NEW i \in 1 .. 13, NEW j \in 1 .. 13,
         Decides(ExplorerLayers, i), Decides(ExplorerLayers, j)
  PROVE  i = j
<1>1. DOMAIN ExplorerLayers = 1 .. 13
  BY ExplorerLayer
<1>2. CASE ExplorerLayers[i].mode = "assign"
  BY <1>1, <1>2, LayerModes DEF Decides
<1>3. CASE ExplorerLayers[i].mode = "setdefault"
  BY <1>1, <1>3, LayerModes DEF Decides
<1> QED
  BY <1>2, <1>3, LayerModes

\* The row in force, layer by layer.
LEMMA InForceRows ==
    /\ \A row : row \in Exported <=>
          \E i \in 1 .. 13 : Decides(ExportLayers, i) /\ row \in Left(ExportLayers[i])
    /\ \A row : row \in Shown <=>
          \E i \in 1 .. 13 : /\ Decides(ExplorerLayers, i)
                             /\ row \in Left(ExplorerLayers[i])
  BY ExportLayer, ExplorerLayer DEF Exported, Shown, InForce

\* A layer of the export whose rows all have places of their own leaves the
\* one row that the explorer's layer leaves.
LEMMA UntiedAlike ==
  ASSUME HostTyped, Ordered, NEW i \in 1 .. 13, ~Tied(ExportLayers[i])
  PROVE  /\ Left(ExportLayers[i]) = Left(ExplorerLayers[i])
         /\ \A row, other \in Left(ExportLayers[i]) : row = other
<1> DEFINE One(mode, kind, rank) ==
      /\ ExportLayers[i] = Layer(mode, kind, rank)
      /\ ExplorerLayers[i] = Layer(mode, kind, rank)
      /\ \A o \in DOMAIN rank : rank[o] \in Int
<1> DEFINE Other(mode, kind, rows) ==
      /\ ExportLayers[i] = Layer(mode, kind, AnyOrder(rows))
      /\ ExplorerLayers[i] = Layer(mode, kind, ByName(rows))
      /\ rows \subseteq RoleFields \cup AppFields
<1>1. ASSUME NEW mode, NEW kind, NEW rank, One(mode, kind, rank)
      PROVE  /\ Left(ExportLayers[i]) = Left(ExplorerLayers[i])
             /\ \A row, other \in Left(ExportLayers[i]) : row = other
  BY <1>1, UntiedLeft
<1>2. ASSUME NEW mode, NEW kind, NEW rows, Other(mode, kind, rows)
      PROVE  /\ Left(ExportLayers[i]) = Left(ExplorerLayers[i])
             /\ \A row, other \in Left(ExportLayers[i]) : row = other
  <2>1. \A o \in rows : AnyOrder(rows)[o] = 0
    BY DEF AnyOrder
  <2>2. \A o, p \in rows : o = p
    BY <1>2, <2>1, RankTyped, LayerParts DEF Tied
  <2>3. \A o \in rows : rows = {o}
    BY <2>2
  <2>4. \A o \in rows : Left(ExplorerLayers[i]) = {[kind |-> kind, owner |-> o]}
    BY <1>2, <2>3, RankTyped, LeftRows
  <2>5. Left(ExportLayers[i]) = {[kind |-> kind, owner |-> o] : o \in rows}
    BY <1>2, AnyOrderLeft
  <2>6. CASE rows = {}
    BY <1>2, <2>5, <2>6, RankTyped, LeftRows
  <2>7. CASE rows # {}
    BY <2>3, <2>4, <2>5, <2>7
  <2> QED
    BY <2>6, <2>7
<1>3. CASE i \in {1, 2, 3, 5, 9, 10, 13}
  <2>1. PICK mode, kind, rows : ExplorerLayers[i] = Layer(mode, kind, AnyOrder(rows))
    BY <1>3, ExplorerLayer
  <2>2. One(mode, kind, AnyOrder(rows))
    BY <1>3, <2>1, ExportLayer, RankTyped
  <2> QED
    BY <1>1, <2>2
<1>4. CASE i \in {4, 6, 7}
  <2>1. PICK number \in {schema.globals, schema.ofType, priority} : \E mode :
           /\ ExplorerLayers[i] = ShownRoles(mode, number)
           /\ ExportLayers[i] = ExportedRoles(mode, number)
    BY <1>4, ExplorerLayer, ExportLayer
  <2>2. Numbered(number) /\ ~Disordered(number)
    BY AllNumbered DEF Ordered
  <2> QED
    BY <2>1, <2>2, SameRoles
<1>5. CASE i = 8
  <2>1. Other("setdefault", "default", Defaults("app", details.apps))
    BY <1>5, ExplorerLayer, ExportLayer, RowsTyped
  <2> QED
    BY <1>2, <2>1
<1>6. CASE i = 11
  <2>1. Other("assign", "override", Overrides(RoleFields))
    BY <1>6, ExplorerLayer, ExportLayer, RowsTyped
  <2> QED
    BY <1>2, <2>1
<1>7. CASE i = 12
  <2>1. Other("assign", "override", Overrides(AppFields))
    BY <1>7, ExplorerLayer, ExportLayer, RowsTyped
  <2> QED
    BY <1>2, <2>1
<1> QED
  BY <1>3, <1>4, <1>5, <1>6, <1>7

\* Whatever the host and its overrides are, the explorer shows a row that the
\* export hands out, and the export hands out no other one unless rows tie.
LEMMA TypedAlike == HostTyped => ShownIsExported
<1> SUFFICES ASSUME HostTyped, Ordered
             PROVE  /\ Shown \subseteq Exported
                    /\ (\A i \in DOMAIN ExportLayers : ~Tied(ExportLayers[i])) =>
                          /\ Exported = Shown
                          /\ \A row, other \in Exported : row = other
  BY DEF ShownIsExported, Ordered
<1>1. Shown \subseteq Exported
  BY InForceRows, LeftAlike, DecidersAlike
<1>2. ASSUME \A i \in DOMAIN ExportLayers : ~Tied(ExportLayers[i])
      PROVE  Exported = Shown /\ \A row, other \in Exported : row = other
  <2>1. \A i \in 1 .. 13 :
           /\ Left(ExportLayers[i]) = Left(ExplorerLayers[i])
           /\ \A row, other \in Left(ExportLayers[i]) : row = other
    BY <1>2, ExportLayer, UntiedAlike
  <2>2. \A row : row \in Exported <=> row \in Shown
    BY <2>1, InForceRows, DecidersAlike
  <2>3. ASSUME NEW row \in Exported, NEW other \in Exported PROVE row = other
    <3>1. PICK i \in 1 .. 13 :
             Decides(ExportLayers, i) /\ row \in Left(ExportLayers[i])
      BY <2>3, InForceRows
    <3>2. PICK j \in 1 .. 13 :
             Decides(ExportLayers, j) /\ other \in Left(ExportLayers[j])
      BY <2>3, InForceRows
    <3>3. i = j
      BY <3>1, <3>2, DecidersAlike, OneDecides
    <3> QED
      BY <2>1, <3>1, <3>2, <3>3
  <2> QED
    BY <2>2, <2>3
<1> QED
  BY <1>1, <1>2

-----------------------------------------------------------------------------
(* Types of the host and of the requests.                                   *)

\* Requests of the role matrix and of the panel.
ToggleStates ==
    [step : {"idle", "read"}, role : Roles \cup {0}, named : SUBSET Int,
     had : BOOLEAN, top : Int, late : BOOLEAN]

SaveStates ==
    [step : {"idle", "sent", "read", "answered", "refused"},
     target : Targets \cup {Nowhere}, value : Values \cup {None},
     late : BOOLEAN, answer : Panels]

RequestsTyped ==
    /\ toggles \in [Toggles -> ToggleStates]
    /\ \A k \in Toggles : toggles[k].step = "read" => toggles[k].role \in Roles
    /\ panel \in Panels
    /\ save \in SaveStates

VarsTyped == HostTyped /\ RequestsTyped

\* The records that stand for no request have their types.
LEMMA NoneTyped ==
    /\ NoToggle \in ToggleStates /\ NoToggle.step = "idle"
    /\ NoPanel \in Panels /\ NoPanel.target = Nowhere /\ ~NoPanel.behind
    /\ NoSave \in SaveStates /\ NoSave.step = "idle" /\ NoSave.answer = NoPanel
<1>1. NoPanel \in Panels /\ NoPanel.target = Nowhere /\ ~NoPanel.behind
  BY DEF NoPanel, Panels
<1>2. NoSave \in SaveStates /\ NoSave.step = "idle" /\ NoSave.answer = NoPanel
  BY <1>1 DEF NoSave, SaveStates
<1> QED
  BY <1>1, <1>2 DEF NoToggle, ToggleStates

\* Nowhere is no target, and the kinds of owners are told apart.
LEMMA TargetsApart ==
    /\ Nowhere \notin Targets
    /\ Base \notin Targets
    /\ Ansible \notin Fields /\ Fallback \notin Fields /\ Ansible # Fallback
  BY DEF Targets, Fields, StatusFields, TypeFields, RoleFields, AppFields,
         Nowhere, Base, Ansible, Fallback

\* Whoever owns a row that may be in force is a field, Ansible or the column.
LEMMA OwnersTyped ==
  ASSUME HostTyped, NEW i \in 1 .. 13
  PROVE  /\ Owners(ExplorerLayers[i]) \subseteq Fields \cup {Ansible, Base}
         /\ i >= 9 => Owners(ExplorerLayers[i]) \subseteq Fields \cup {Ansible}
<1>1. /\ BaseRows \subseteq {Base} /\ AnsibleRows \subseteq {Ansible}
      /\ \A ids : Defaults("role", ids) \subseteq Fields
      /\ \A ids : Defaults("app", ids) \subseteq Fields
      /\ \A ids : Defaults("status", ids) \subseteq Fields
      /\ \A ids : Defaults("type", ids) \subseteq Fields
      /\ Overrides(TypeFields) \subseteq Fields
      /\ Overrides(StatusFields) \subseteq Fields
      /\ Overrides(RoleFields) \subseteq Fields
      /\ Overrides(AppFields) \subseteq Fields
      /\ Overrides({Ansible}) \subseteq {Ansible}
  BY RowsTyped DEF BaseRows, AnsibleRows, Fields
<1>2. CASE i <= 8
  <2>1. CASE i \in {1, 2, 3, 5, 8}
    BY <1>1, <1>2, <2>1, ExplorerLayer, LayerParts, RankTyped
  <2>2. CASE i \in {4, 6, 7}
    BY <1>1, <1>2, <2>2, ExplorerLayer, RolesParts
  <2> QED
    BY <1>2, <2>1, <2>2
<1>3. CASE i > 8
  <2>1. i \in {9, 10, 11, 12, 13}
    BY <1>3
  <2> QED
    BY <1>1, <1>3, <2>1, ExplorerLayer, LayerParts, RankTyped
<1> QED
  BY <1>2, <1>3

\* A row in force is one of its layer.
LEMMA ShownRow ==
  ASSUME HostTyped, NEW row \in Shown
  PROVE  \E i \in 1 .. 13 :
            /\ Decides(ExplorerLayers, i)
            /\ row \in Left(ExplorerLayers[i])
            /\ row.kind = ExplorerLayers[i].kind
            /\ row.owner \in Owners(ExplorerLayers[i])
            /\ row = [kind |-> row.kind, owner |-> row.owner]
<1>1. PICK i \in 1 .. 13 :
         Decides(ExplorerLayers, i) /\ row \in Left(ExplorerLayers[i])
  BY InForceRows
<1>2. row \in Rows(ExplorerLayers[i])
  BY <1>1 DEF Left
<1> QED
  BY <1>1, <1>2 DEF Rows

\* A save of a row in force goes to a field, to Ansible or to the fallback.
LEMMA TargetTyped ==
  ASSUME HostTyped, NEW row \in Shown
  PROVE  TargetOf(row) \in Targets
<1>1. row.owner \in Fields \cup {Ansible, Base}
  BY ShownRow, OwnersTyped
<1>2. \A r \in Lineage : r.owner \in Fields \cup {Ansible, Base}
  BY OwnersTyped, ExplorerLayer DEF Lineage, Rows
<1> QED
  BY <1>1, <1>2 DEF TargetOf, Targets

\* What the explorer composes: a target for each row in force.
LEMMA PayloadsTyped ==
  ASSUME HostTyped
  PROVE  \A p \in Payloads :
            /\ p \in Panels /\ ~p.behind
            /\ p.target # Nowhere => \E row \in Shown : p.target = TargetOf(row)
<1> SUFFICES ASSUME NEW p \in Payloads
             PROVE  /\ p \in Panels /\ ~p.behind
                    /\ p.target # Nowhere =>
                          \E row \in Shown : p.target = TargetOf(row)
  OBVIOUS
<1>1. CASE Shown = {}
  BY <1>1, NoneTyped DEF Payloads
<1>2. CASE Shown # {}
  <2>1. PICK row \in Shown :
           p = [target |-> TargetOf(row),
                overridden |-> \E o \in DOMAIN over : over[o] # None,
                behind |-> FALSE]
    BY <1>2 DEF Payloads
  <2>2. (\E o \in DOMAIN over : over[o] # None) \in BOOLEAN
    OBVIOUS
  <2> QED
    BY <2>1, <2>2, TargetTyped DEF Panels
<1> QED
  BY <1>1, <1>2

\* The rows read and not written yet, after a request has written.
LEMMA TogglesLateTyped ==
  ASSUME RequestsTyped, NEW k
  PROVE  /\ TogglesLate(k) \in [Toggles -> ToggleStates]
         /\ \A j \in Toggles : TogglesLate(k)[j].step = "read" =>
               /\ toggles[j].step = "read" /\ TogglesLate(k)[j].late
               /\ TogglesLate(k)[j].role = toggles[j].role
<1> SUFFICES ASSUME NEW j \in Toggles
             PROVE  /\ TogglesLate(k)[j] \in ToggleStates
                    /\ TogglesLate(k)[j].step = "read" =>
                          /\ toggles[j].step = "read" /\ TogglesLate(k)[j].late
                          /\ TogglesLate(k)[j].role = toggles[j].role
  BY DEF TogglesLate
<1>1. toggles[j] \in ToggleStates
  BY DEF RequestsTyped
<1>2. TogglesLate(k)[j] = IF j = k THEN NoToggle
                          ELSE IF toggles[j].step = "idle" THEN toggles[j]
                          ELSE [toggles[j] EXCEPT !.late = TRUE]
  BY DEF TogglesLate
<1> QED
  BY <1>1, <1>2, NoneTyped DEF ToggleStates

\* A panel and a save that a write has made old.
LEMMA LateTyped ==
  ASSUME RequestsTyped
  PROVE  /\ PanelBehind => /\ panel' \in Panels
                           /\ panel'.target # Nowhere => panel'.behind
         /\ SaveLate => /\ save' \in SaveStates
                        /\ save'.step = save.step /\ save'.target = save.target
                        /\ save'.answer = save.answer
                        /\ save'.step \notin {"idle", "refused"} => save'.late
  BY DEF RequestsTyped, PanelBehind, SaveLate, Panels, SaveStates

\* The roles of a form, in its order: each has one place.
LEMMA FormOrder ==
  ASSUME NEW chosen \in SUBSET Roles, NEW roles \in SetToSeqs(chosen)
  PROVE  /\ DOMAIN roles \subseteq Nat \ {0}
         /\ \A i \in DOMAIN roles : roles[i] \in Roles
         /\ \A i, j \in DOMAIN roles : roles[i] = roles[j] => i = j
<1>1. Cardinality(chosen) \in Nat
  BY NumbersAssumption, FS_Subset, FS_CardinalityType
<1> DEFINE places == 1 .. Cardinality(chosen)
<1>2. roles \in {f \in [places -> chosen] : \A i, j \in places : i # j => f[i] # f[j]}
  BY DEF SetToSeqs
<1>3. DOMAIN roles = places /\ \A i \in places : roles[i] \in chosen
  BY <1>2
<1>4. places \subseteq Nat \ {0}
  BY <1>1
<1> HIDE DEF places
<1> QED
  BY <1>2, <1>3, <1>4

\* The priority that the form gives: a role's place in it.
FormPriority(roles) ==
    [r \in ToSet(roles) |-> CHOOSE i \in DOMAIN roles : roles[i] = r]

\* Each role of the form has its place as its priority.
LEMMA FormPriorities ==
  ASSUME NEW chosen \in SUBSET Roles, NEW roles \in SetToSeqs(chosen)
  PROVE  /\ Numbered(FormPriority(roles))
         /\ \A i \in DOMAIN roles : /\ roles[i] \in DOMAIN FormPriority(roles)
                                    /\ FormPriority(roles)[roles[i]] = i
<1>1. ASSUME NEW r \in ToSet(roles)
      PROVE  r \in Roles /\ FormPriority(roles)[r] \in Int
  <2>1. PICK j \in DOMAIN roles : roles[j] = r
    BY DEF ToSet
  <2>2. (CHOOSE i \in DOMAIN roles : roles[i] = r) \in DOMAIN roles
    BY <2>1
  <2> QED
    BY <2>1, <2>2, FormOrder DEF FormPriority
<1>2. ASSUME NEW i \in DOMAIN roles
      PROVE  /\ roles[i] \in DOMAIN FormPriority(roles)
             /\ FormPriority(roles)[roles[i]] = i
  <2>1. roles[i] \in ToSet(roles) /\ \E j \in DOMAIN roles : roles[j] = roles[i]
    BY DEF ToSet
  <2>2. FormPriority(roles)[roles[i]] =
           CHOOSE j \in DOMAIN roles : roles[j] = roles[i]
    BY <2>1 DEF FormPriority
  <2>3. /\ (CHOOSE j \in DOMAIN roles : roles[j] = roles[i]) \in DOMAIN roles
        /\ roles[CHOOSE j \in DOMAIN roles : roles[j] = roles[i]] = roles[i]
    BY <2>1
  <2> QED
    BY <2>1, <2>2, <2>3, FormOrder DEF FormPriority
<1>3. /\ FormPriority(roles) = [r \in ToSet(roles) |-> FormPriority(roles)[r]]
      /\ DOMAIN FormPriority(roles) = ToSet(roles)
  BY DEF FormPriority
<1> QED
  BY <1>1, <1>2, <1>3 DEF Numbered

\* The steps that write the host: the panel, the save and the rows read by the
\* role matrix are then old.
HostWritten ==
    \/ \E k \in Toggles : ToggleRemoves(k) \/ ToggleAdds(k)
    \/ \E chosen \in SUBSET Roles, status \in HostStatuses, type \in HostTypes :
          \E roles \in SetToSeqs(chosen) : HostFormSaves(roles, status, type)
    \/ \E a \in Apps : AppGiven(a) \/ AppTaken(a)
    \/ \E r \in Roles, v \in Values : RoleFieldSaved(r, v)

\* The steps that write neither the host nor its overrides.
HostKept ==
    \/ \E k \in Toggles, r \in Roles :
          \E named \in {{}} \cup {{p} : p \in Explicit} : ToggleReads(k, r, named)
    \/ \E k \in Toggles : ToggleFails(k)
    \/ PanelLoads
    \/ (\E v \in Values : SaveOverride(v)) \/ Reset
    \/ SaveReads \/ SaveFails \/ SaveAnswered \/ SaveRefused

\* Every step writes the host, keeps it, or is the commit of a save.
LEMMA VarsSteps == VarsNext <=> HostWritten \/ HostKept \/ SaveCommits
  BY DEF VarsNext, HostWritten, HostKept

\* What every write of the host leaves behind.
LEMMA WrittenLate == HostWritten => PanelBehind /\ SaveLate /\ schema' = schema
  BY DEF HostWritten, ToggleRemoves, ToggleAdds, HostFormSaves, AppGiven,
         AppTaken, RoleFieldSaved

\* What the other steps leave alone.
LEMMA KeptHost ==
    HostKept => UNCHANGED <<schema, ansible, details, priority, over, before, crossed>>
  BY DEF HostKept, ToggleReads, ToggleFails, PanelLoads, SaveOverride, Reset,
         Sends, SaveReads, SaveFails, SaveAnswered, SaveRefused

\* Every step keeps the types of the host.
LEMMA HostTypedStep ==
  ASSUME VarsTyped, VarsNext
  PROVE  HostTyped'
<1> USE DEF VarsTyped, HostTyped
<1>1. ASSUME NEW k \in Toggles, ToggleRemoves(k) PROVE HostTyped'
  BY <1>1 DEF ToggleRemoves, Numbered, HostRoles
<1>2. ASSUME NEW k \in Toggles, ToggleAdds(k) PROVE HostTyped'
  <2>1. PICK given \in GivenPriorities(toggles[k]) :
           priority' = [q \in HostRoles \cup {toggles[k].role} |->
                           IF q = toggles[k].role THEN given ELSE priority[q]]
    BY <1>2 DEF ToggleAdds
  <2>2. given \in Int /\ toggles[k].role \in Roles
    BY <1>2 DEF ToggleAdds, GivenPriorities, NextPriority, RequestsTyped, ToggleStates
  <2>3. Numbered(priority')
    BY <2>1, <2>2 DEF Numbered, HostRoles
  <2> QED
    BY <1>2, <2>3 DEF ToggleAdds
<1>3. ASSUME NEW chosen \in SUBSET Roles, NEW roles \in SetToSeqs(chosen),
             NEW status \in HostStatuses, NEW type \in HostTypes,
             HostFormSaves(roles, status, type)
      PROVE  HostTyped'
  <2>1. priority' = FormPriority(roles)
    BY <1>3 DEF HostFormSaves, FormPriority
  <2>2. Numbered(priority')
    BY <2>1, FormPriorities
  <2> QED
    BY <1>3, <2>2 DEF HostFormSaves
<1>4. ASSUME NEW a \in Apps, AppGiven(a) PROVE HostTyped'
  BY <1>4 DEF AppGiven
<1>5. ASSUME NEW a \in Apps, AppTaken(a) PROVE HostTyped'
  BY <1>5 DEF AppTaken
<1>6. ASSUME NEW r \in Roles, NEW v \in Values, RoleFieldSaved(r, v)
      PROVE  HostTyped'
  BY <1>6 DEF RoleFieldSaved
<1>7. CASE HostKept
  BY <1>7, KeptHost
<1>8. CASE SaveCommits
  <2>1. save.value \in Values \cup {None}
    BY DEF RequestsTyped, SaveStates
  <2>2. over' \in [Fields \cup {Ansible} -> Values \cup {None}]
    BY <1>8, <2>1 DEF SaveCommits
  <2>3. ansible' \in {"absent", "null", "set"}
    BY <1>8 DEF SaveCommits
  <2> QED
    BY <1>8, <2>2, <2>3 DEF SaveCommits
<1> QED
  BY <1>1, <1>2, <1>3, <1>4, <1>5, <1>6, <1>7, <1>8, VarsSteps DEF HostWritten

\* Every step keeps the types of the requests of the role matrix.
LEMMA TogglesTypedStep ==
  ASSUME VarsTyped, VarsNext
  PROVE  /\ toggles' \in [Toggles -> ToggleStates]
         /\ \A k \in Toggles : toggles'[k].step = "read" => toggles'[k].role \in Roles
<1> USE DEF VarsTyped
<1> DEFINE Goal ==
      /\ toggles' \in [Toggles -> ToggleStates]
      /\ \A k \in Toggles : toggles'[k].step = "read" => toggles'[k].role \in Roles
<1>1. ASSUME NEW k, toggles' = TogglesLate(k) PROVE Goal
  BY <1>1, TogglesLateTyped DEF RequestsTyped
<1>2. ASSUME NEW k \in Toggles, ToggleRemoves(k) \/ ToggleAdds(k) PROVE Goal
  BY <1>1, <1>2 DEF ToggleRemoves, ToggleAdds
<1>3. ASSUME NEW roles, NEW status, NEW type, HostFormSaves(roles, status, type)
      PROVE  Goal
  BY <1>1, <1>3 DEF HostFormSaves
<1>4. ASSUME NEW k \in Toggles, NEW r \in Roles,
             NEW named \in {{}} \cup {{p} : p \in Explicit}, ToggleReads(k, r, named)
      PROVE  Goal
  <2>1. PICK top \in Tops :
           toggles' = [toggles EXCEPT ![k] =
                         [step |-> "read", role |-> r, named |-> named,
                          had |-> r \in HostRoles, top |-> top, late |-> FALSE]]
    BY <1>4 DEF ToggleReads
  <2>2. top \in Int /\ named \subseteq Int
    BY NumbersAssumption DEF HostTyped, Numbered, Tops, HostRoles
  <2>3. [step |-> "read", role |-> r, named |-> named, had |-> r \in HostRoles,
         top |-> top, late |-> FALSE] \in ToggleStates
    BY <2>2 DEF ToggleStates
  <2> QED
    BY <2>1, <2>3 DEF RequestsTyped
<1>5. ASSUME NEW k \in Toggles, ToggleFails(k) PROVE Goal
  BY <1>5, NoneTyped DEF ToggleFails, RequestsTyped
<1>6. CASE UNCHANGED toggles
  BY <1>6 DEF RequestsTyped
<1>7. CASE SaveCommits
  BY <1>6, <1>7 DEF SaveCommits
<1>8. CASE HostKept
  BY <1>4, <1>5, <1>6, <1>8
  DEF HostKept, PanelLoads, SaveOverride, Reset, Sends, SaveReads, SaveFails,
      SaveAnswered, SaveRefused
<1>9. CASE HostWritten
  BY <1>2, <1>3, <1>6, <1>9 DEF HostWritten, AppGiven, AppTaken, RoleFieldSaved
<1> QED
  BY <1>7, <1>8, <1>9, VarsSteps

-----------------------------------------------------------------------------
(* What the panel shows and what a save may expect.                         *)

\* A panel that nothing has made old shows what the explorer would compose.
PanelInv == panel.target # Nowhere /\ ~panel.behind => panel \in Payloads

\* A save that nothing has made old goes where the row in force is, and its
\* answer is what the explorer would compose.
SaveInv ==
    /\ save.step # "idle" => save.target # Nowhere
    /\ ~save.answer.behind
    /\ save.step \in {"sent", "read"} /\ ~save.late =>
          \E p \in Payloads : p.target = save.target
    /\ save.step = "answered" /\ ~save.late => save.answer \in Payloads

\* Whatever the explorer composes is typed and fresh.
PayloadsFresh == \A p \in Payloads : p \in Panels /\ ~p.behind

\* The same as a fact about states, for the next state.
LEMMA PayloadsFreshNow == HostTyped => PayloadsFresh
  BY PayloadsTyped DEF PayloadsFresh

\* The payloads depend on the host, its overrides and the declarations.
LEMMA PayloadsKept ==
  ASSUME UNCHANGED <<schema, ansible, details, priority, over>>
  PROVE  Payloads' = Payloads
<1>1. ExplorerLayers' = ExplorerLayers
  BY DEF ExplorerLayers, ShownRoleDefaults, BaseRows, AnsibleRows, Defaults,
         Overrides, ShownRoles
<1>2. Shown' = Shown /\ Lineage' = Lineage
  BY <1>1 DEF Shown, Lineage
<1> QED
  BY <1>1, <1>2 DEF Payloads, TargetOf

\* What the panel and its save keep, step by step.
PanelSave == panel \in Panels /\ save \in SaveStates /\ PanelInv /\ SaveInv

\* A write of the host makes the panel and the save old.
LEMMA PanelSaveWritten ==
  ASSUME VarsTyped, PanelSave, PanelBehind, SaveLate
  PROVE  PanelSave'
<1>1. panel' \in Panels /\ PanelInv'
  BY LateTyped DEF VarsTyped, PanelInv
<1>2. /\ save' \in SaveStates
      /\ save'.step = save.step /\ save'.target = save.target
      /\ save'.answer = save.answer
      /\ save'.step \notin {"idle", "refused"} => save'.late
  BY LateTyped DEF VarsTyped
<1>3. SaveInv'
  BY <1>2 DEF SaveInv, PanelSave
<1> QED
  BY <1>1, <1>2, <1>3 DEF PanelSave

\* A save goes out as old as the panel that it is sent from.
LEMMA PanelSaveSent ==
  ASSUME VarsTyped, PanelSave, NEW v \in Values \cup {None}, Sends(v)
  PROVE  PanelSave'
<1>1. Payloads' = Payloads
  BY PayloadsKept DEF Sends
<1>2. /\ save' = [NoSave EXCEPT !.step = "sent", !.target = panel.target,
                                !.value = v, !.late = panel.behind]
      /\ panel' = panel /\ panel.target # Nowhere
  BY DEF Sends
<1>3. /\ save' = [step |-> "sent", target |-> panel.target, value |-> v,
                  late |-> panel.behind, answer |-> NoPanel]
  BY <1>2 DEF NoSave
<1>4. save' \in SaveStates
  BY <1>3, NoneTyped DEF PanelSave, SaveStates, Panels
<1>5. SaveInv'
  BY <1>1, <1>2, <1>3, NoneTyped DEF SaveInv, PanelSave, PanelInv
<1> QED
  BY <1>1, <1>2, <1>4, <1>5 DEF PanelSave, PanelInv

\* A save that is accepted has been compared with what is composed now.
LEMMA PanelSaveRead ==
  ASSUME VarsTyped, PanelSave, SaveReads
  PROVE  PanelSave'
<1>1. Payloads' = Payloads
  BY PayloadsKept DEF SaveReads
<1>2. PICK p \in Payloads :
         LET accepted == p.target = save.target /\ Belongs(save.target)
         IN  save' = [save EXCEPT !.step = IF accepted THEN "read" ELSE "refused",
                                  !.late = IF accepted THEN FALSE ELSE @]
  BY DEF SaveReads
<1>3. panel' = panel /\ save.step = "sent"
  BY DEF SaveReads
<1>4. CASE p.target = save.target /\ Belongs(save.target)
  <2>1. save' = [save EXCEPT !.step = "read", !.late = FALSE]
    BY <1>2, <1>4
  <2> QED
    BY <1>1, <1>3, <1>4, <2>1 DEF PanelSave, SaveStates, SaveInv, PanelInv
<1>5. CASE ~(p.target = save.target /\ Belongs(save.target))
  <2>1. save' = [save EXCEPT !.step = "refused", !.late = save.late]
    BY <1>2, <1>5
  <2> QED
    BY <1>1, <1>3, <2>1 DEF PanelSave, SaveStates, SaveInv, PanelInv
<1> QED
  BY <1>4, <1>5

\* The answer of a commit is composed from what it has written.
LEMMA PanelSaveCommitted ==
  ASSUME VarsTyped, PanelSave, SaveCommits, HostTyped'
  PROVE  PanelSave'
<1>1. panel' \in Panels /\ PanelInv'
  BY LateTyped DEF SaveCommits, VarsTyped, PanelInv
<1>2. PayloadsFresh'
  BY PayloadsFreshNow, PTL
<1>3. PICK p \in Payloads' :
         save' = [save EXCEPT !.step = "answered", !.answer = p, !.late = FALSE]
  BY DEF SaveCommits
<1>4. p \in Panels /\ ~p.behind
  BY <1>2 DEF PayloadsFresh
<1>5. save.step = "read"
  BY DEF SaveCommits
<1>6. save' \in SaveStates
  BY <1>3, <1>4 DEF PanelSave, SaveStates
<1>7. SaveInv'
  BY <1>3, <1>4, <1>5 DEF PanelSave, SaveStates, SaveInv
<1> QED
  BY <1>1, <1>6, <1>7 DEF PanelSave

\* The panel takes over the age of the answer that it shows.
LEMMA PanelSaveAnswered ==
  ASSUME VarsTyped, PanelSave, SaveAnswered
  PROVE  PanelSave'
<1>1. Payloads' = Payloads
  BY PayloadsKept DEF SaveAnswered
<1>2. /\ save.step = "answered" /\ save' = NoSave
      /\ panel' = [save.answer EXCEPT !.behind = save.late /\ save.answer # NoPanel]
  BY DEF SaveAnswered
<1>3. /\ save.answer \in Panels /\ ~save.answer.behind /\ save.late \in BOOLEAN
      /\ ~save.late => save.answer \in Payloads
  BY <1>2 DEF PanelSave, SaveStates, SaveInv
<1>4. panel' \in Panels /\ panel'.target = save.answer.target
  BY <1>2, <1>3 DEF Panels
<1>5. ASSUME panel'.target # Nowhere, ~panel'.behind PROVE panel' \in Payloads
  <2>1. ~save.late
    BY <1>2, <1>3, <1>4, <1>5, NoneTyped DEF Panels
  <2>2. panel' = save.answer
    BY <1>2, <1>3, <2>1 DEF Panels
  <2> QED
    BY <1>3, <2>1, <2>2
<1>6. SaveInv' /\ save' \in SaveStates
  BY <1>2, NoneTyped DEF SaveInv
<1> QED
  BY <1>1, <1>4, <1>5, <1>6 DEF PanelSave, PanelInv

\* No step leaves a panel or a save that takes old for new.
LEMMA PanelSaveStep ==
  ASSUME VarsTyped, PanelSave, HostTyped', VarsNext
  PROVE  PanelSave'
<1>1. CASE HostWritten
  BY <1>1, WrittenLate, PanelSaveWritten
<1>2. CASE SaveCommits
  BY <1>2, PanelSaveCommitted
<1>3. CASE PanelLoads
  <2>1. Payloads' = Payloads
    BY <1>3, PayloadsKept DEF PanelLoads
  <2>2. panel' \in Panels
    BY <1>3, PayloadsTyped DEF PanelLoads, VarsTyped
  <2> QED
    BY <1>3, <2>1, <2>2 DEF PanelLoads, PanelSave, PanelInv, SaveInv
<1>4. ASSUME NEW v \in Values, SaveOverride(v) PROVE PanelSave'
  BY <1>4, PanelSaveSent DEF SaveOverride
<1>5. CASE Reset
  BY <1>5, PanelSaveSent DEF Reset
<1>6. CASE SaveReads
  BY <1>6, PanelSaveRead
<1>7. CASE SaveFails
  <2>1. Payloads' = Payloads
    BY <1>7, PayloadsKept DEF SaveFails
  <2>2. /\ save.step = "read" /\ panel' = panel
        /\ save' = [save EXCEPT !.step = "refused", !.late = TRUE]
    BY <1>7 DEF SaveFails
  <2> QED
    BY <2>1, <2>2 DEF PanelSave, SaveStates, PanelInv, SaveInv
<1>8. CASE SaveAnswered
  BY <1>8, PanelSaveAnswered
<1>9. CASE SaveRefused
  <2>1. Payloads' = Payloads
    BY <1>9, PayloadsKept DEF SaveRefused
  <2> QED
    BY <1>9, <2>1, NoneTyped DEF SaveRefused, PanelSave, PanelInv, SaveInv
<1>10. ASSUME NEW k, NEW r, NEW named, ToggleReads(k, r, named) \/ ToggleFails(k)
       PROVE  PanelSave'
  <2>1. Payloads' = Payloads /\ UNCHANGED <<panel, save>>
    BY <1>10, PayloadsKept DEF ToggleReads, ToggleFails
  <2> QED
    BY <2>1 DEF PanelSave, PanelInv, SaveInv
<1> QED
  BY <1>1, <1>2, <1>3, <1>4, <1>5, <1>6, <1>7, <1>8, <1>9, <1>10, VarsSteps
  DEF HostKept

-----------------------------------------------------------------------------
(* The order in which roles were given.                                     *)

\* The roles in the order they were given, and what a fresh request has read.
OrderInv ==
    /\ before \subseteq HostRoles \X HostRoles
    /\ AddedInOrder
    /\ \A k \in Toggles : toggles[k].step = "read" /\ ~toggles[k].late =>
          \A q \in HostRoles : priority[q] <= toggles[k].top

\* A role taken away leaves the order of the others.
LEMMA OrderRemoves ==
  ASSUME VarsTyped, OrderInv, NEW k \in Toggles, ToggleRemoves(k)
  PROVE  OrderInv'
<1> DEFINE r == toggles[k].role
<1>1. /\ priority' = [q \in HostRoles \ {r} |-> priority[q]] /\ crossed' = crossed
      /\ before' = Without(r) /\ toggles' = TogglesLate(k)
  BY DEF ToggleRemoves
<1>2. HostRoles' = HostRoles \ {r}
  BY <1>1 DEF HostRoles
<1>3. \A pair \in before' :
         /\ pair \in before /\ pair[1] # r /\ pair[2] # r
         /\ priority'[pair[1]] = priority[pair[1]]
         /\ priority'[pair[2]] = priority[pair[2]]
  BY <1>1 DEF Without, OrderInv
<1>4. before' \subseteq HostRoles' \X HostRoles'
  <2> SUFFICES ASSUME NEW pair \in before'
               PROVE  pair \in HostRoles' \X HostRoles'
    OBVIOUS
  <2>1. pair \in HostRoles \X HostRoles
    BY <1>3 DEF OrderInv
  <2>2. pair[1] \in HostRoles' /\ pair[2] \in HostRoles'
    BY <1>2, <1>3, <2>1
  <2> QED
    BY <2>1, <2>2
<1>5. AddedInOrder'
  BY <1>1, <1>3 DEF AddedInOrder, OrderInv
<1>6. \A j \in Toggles : toggles'[j].step = "read" => toggles'[j].late
  BY <1>1, TogglesLateTyped DEF VarsTyped
<1> QED
  BY <1>4, <1>5, <1>6 DEF OrderInv

\* A role given gets a number above those of the roles it was read with.
LEMMA OrderAdds ==
  ASSUME VarsTyped, OrderInv, NEW k \in Toggles, ToggleAdds(k)
  PROVE  OrderInv'
<1> DEFINE r == toggles[k].role
<1> DEFINE numbers == toggles[k].named = {}
<1>1. /\ toggles' = TogglesLate(k)
      /\ toggles[k].step = "read" /\ r \notin HostRoles
      /\ before' = IF numbers THEN before \cup (HostRoles \X {r}) ELSE before
      /\ crossed' = (crossed \/ (numbers /\ toggles[k].late))
  BY DEF ToggleAdds
<1>2. /\ toggles[k].top \in Int /\ toggles[k].late \in BOOLEAN
      /\ \A q \in HostRoles : priority[q] \in Int
  BY <1>1 DEF VarsTyped, HostTyped, RequestsTyped, ToggleStates, Numbered, HostRoles
<1>3. /\ numbers => priority'[r] = toggles[k].top + 1
      /\ \A q \in HostRoles : q # r /\ priority'[q] = priority[q]
      /\ HostRoles' = HostRoles \cup {r}
  <2>1. PICK given \in GivenPriorities(toggles[k]) :
           priority' = [q \in HostRoles \cup {r} |->
                           IF q = r THEN given ELSE priority[q]]
    BY DEF ToggleAdds
  <2>2. numbers => given = toggles[k].top + 1
    BY DEF GivenPriorities, NextPriority
  <2> QED
    BY <1>1, <2>1, <2>2 DEF HostRoles
<1> HIDE DEF r, numbers
<1>4. before' \subseteq HostRoles' \X HostRoles'
  BY <1>1, <1>3 DEF OrderInv
<1>5. ASSUME ~crossed', NEW pair \in before'
      PROVE  priority'[pair[1]] < priority'[pair[2]]
  <2>1. ~crossed /\ (numbers => ~toggles[k].late)
    BY <1>1, <1>5
  <2>2. CASE pair \in before
    <3>1. pair[1] \in HostRoles /\ pair[2] \in HostRoles
      BY <2>2 DEF OrderInv
    <3>2. priority[pair[1]] < priority[pair[2]]
      BY <2>1, <2>2 DEF OrderInv, AddedInOrder
    <3> QED
      BY <1>3, <3>1, <3>2
  <2>3. CASE numbers /\ pair \in HostRoles \X {r}
    <3>1. pair[1] \in HostRoles /\ pair[2] = r
      BY <2>3
    <3>2. priority[pair[1]] <= toggles[k].top
      BY <1>1, <2>1, <2>3, <3>1 DEF OrderInv
    <3>3. priority[pair[1]] < toggles[k].top + 1
      BY <1>2, <3>1, <3>2
    <3> QED
      BY <1>3, <2>3, <3>1, <3>3
  <2> QED
    BY <1>1, <1>5, <2>2, <2>3
<1>6. \A j \in Toggles : toggles'[j].step = "read" => toggles'[j].late
  BY <1>1, TogglesLateTyped DEF VarsTyped
<1> QED
  BY <1>4, <1>5, <1>6 DEF OrderInv, AddedInOrder

\* The form numbers its roles by their places.
LEMMA OrderForm ==
  ASSUME VarsTyped, OrderInv, NEW chosen \in SUBSET Roles,
         NEW roles \in SetToSeqs(chosen), NEW status, NEW type,
         HostFormSaves(roles, status, type)
  PROVE  OrderInv'
<1>1. /\ priority' = FormPriority(roles)
      /\ before' = {pair \in Roles \X Roles : \E i, j \in DOMAIN roles :
                       i < j /\ pair = <<roles[i], roles[j]>>}
      /\ toggles' = TogglesLate(None)
  BY DEF HostFormSaves, FormPriority
<1>2. \A i \in DOMAIN roles : roles[i] \in HostRoles' /\ priority'[roles[i]] = i
  BY <1>1, FormPriorities DEF HostRoles
<1>3. \A pair \in before' : /\ pair[1] \in HostRoles' /\ pair[2] \in HostRoles'
                            /\ pair \in Roles \X Roles
                            /\ priority'[pair[1]] < priority'[pair[2]]
  BY <1>1, <1>2
<1>4. \A j \in Toggles : toggles'[j].step = "read" => toggles'[j].late
  BY <1>1, TogglesLateTyped DEF VarsTyped
<1> QED
  BY <1>3, <1>4 DEF OrderInv, AddedInOrder

\* A chip that is tapped reads the largest number there is.
LEMMA OrderReads ==
  ASSUME VarsTyped, OrderInv, NEW k \in Toggles, NEW r, NEW named,
         ToggleReads(k, r, named)
  PROVE  OrderInv'
<1>1. PICK top \in Tops :
         toggles' = [toggles EXCEPT ![k] =
                       [step |-> "read", role |-> r, named |-> named,
                        had |-> r \in HostRoles, top |-> top, late |-> FALSE]]
  BY DEF ToggleReads
<1>5. \A q \in HostRoles : priority[q] <= top
  BY DEF Tops
<1>2. UNCHANGED <<priority, before, crossed>>
  BY DEF ToggleReads
<1>3. toggles \in [Toggles -> ToggleStates]
  BY DEF VarsTyped, RequestsTyped
<1>4. /\ toggles'[k].top = top
      /\ \A j \in Toggles : j # k => toggles'[j] = toggles[j]
  BY <1>1, <1>3
<1> QED
  BY <1>1, <1>2, <1>4, <1>5 DEF OrderInv, AddedInOrder, HostRoles

\* No step gives a role out of order, unless requests crossed.
LEMMA OrderStep ==
  ASSUME VarsTyped, OrderInv, VarsNext
  PROVE  OrderInv'
<1>1. ASSUME NEW k \in Toggles, ToggleFails(k) PROVE OrderInv'
  <2>1. UNCHANGED <<priority, before, crossed>>
    BY <1>1 DEF ToggleFails
  <2>2. \A j \in Toggles : toggles'[j] = toggles[j] \/ toggles'[j].step = "idle"
    BY <1>1, NoneTyped DEF ToggleFails, VarsTyped, RequestsTyped
  <2> QED
    BY <2>1, <2>2 DEF OrderInv, AddedInOrder, HostRoles
<1>2. CASE UNCHANGED <<priority, before, crossed, toggles>>
  BY <1>2 DEF OrderInv, AddedInOrder, HostRoles
<1>3. CASE SaveCommits
  BY <1>2, <1>3 DEF SaveCommits
<1>4. CASE HostKept
  BY <1>1, <1>2, <1>4, OrderReads
  DEF HostKept, PanelLoads, SaveOverride, Reset, Sends, SaveReads, SaveFails,
      SaveAnswered, SaveRefused
<1>5. CASE HostWritten
  BY <1>2, <1>5, OrderRemoves, OrderAdds, OrderForm
  DEF HostWritten, AppGiven, AppTaken, RoleFieldSaved
<1> QED
  BY <1>3, <1>4, <1>5, VarsSteps

-----------------------------------------------------------------------------
(* The invariant.                                                           *)

\* The inductive invariant: types, freshness and order.
VarsInv == VarsTyped /\ PanelSave /\ OrderInv

\* A host without roles, apps and overrides, and nobody at work.
LEMMA VarsInitInv == VarsInit => VarsInv
<1> SUFFICES ASSUME VarsInit PROVE VarsInv
  OBVIOUS
<1> USE DEF VarsInit
<1>1. HostTyped
  BY SchemasAssumption DEF HostTyped, SchemaOK, Numbered
<1>2. panel \in Panels /\ save \in SaveStates
  BY NoneTyped
<1>3. RequestsTyped
  BY <1>2, NoneTyped DEF RequestsTyped
<1>4. PanelInv /\ SaveInv
  BY NoneTyped DEF PanelInv, SaveInv
<1>5. OrderInv
  BY NoneTyped DEF OrderInv, AddedInOrder
<1> QED
  BY <1>1, <1>2, <1>3, <1>4, <1>5 DEF VarsInv, VarsTyped, PanelSave

\* No step of an admin or of the backend disturbs the invariant.
LEMMA VarsNextInv == VarsInv /\ [VarsNext]_hostVars => VarsInv'
<1> SUFFICES ASSUME VarsInv, [VarsNext]_hostVars PROVE VarsInv'
  OBVIOUS
<1> USE DEF VarsInv
<1>1. CASE VarsNext
  <2>1. HostTyped'
    BY <1>1, HostTypedStep
  <2>2. PanelSave'
    BY <1>1, <2>1, PanelSaveStep
  <2>3. RequestsTyped'
    BY <1>1, <2>2, TogglesTypedStep DEF RequestsTyped, PanelSave
  <2>4. OrderInv'
    BY <1>1, OrderStep
  <2> QED
    BY <2>1, <2>2, <2>3, <2>4 DEF VarsTyped
<1>2. CASE UNCHANGED hostVars
  <2>1. Payloads' = Payloads
    BY <1>2, PayloadsKept DEF hostVars
  <2>2. HostTyped' /\ RequestsTyped'
    BY <1>2 DEF hostVars, VarsTyped, HostTyped, RequestsTyped
  <2>3. PanelSave'
    BY <1>2, <2>1 DEF hostVars, PanelSave, PanelInv, SaveInv
  <2>4. OrderInv'
    BY <1>2 DEF hostVars, OrderInv, AddedInOrder, HostRoles
  <2> QED
    BY <2>2, <2>3, <2>4 DEF VarsTyped
<1> QED
  BY <1>1, <1>2

\* In every state the host and the requests are typed, what nothing has made old is
\* still what would be composed, and roles are numbered in the order of adding.
THEOREM VarsInvariant == VarsSpec => []VarsInv
  BY VarsInitInv, VarsNextInv, PTL DEF VarsSpec

\* Whatever is declared, given, taken and overridden, the explorer shows the
\* row that the export hands to Ansible unless a role of priority 0 says the
\* variable beside one of 1 to 100, and the export hands out one row unless
\* rows of a layer tie (_build_inventory_explorer_payload against
\* _build_ansible_inventory).
THEOREM ExplorerShowsExport == VarsSpec => []ShownIsExported
<1>1. VarsInv => ShownIsExported
  BY TypedAlike DEF VarsInv, VarsTyped
<1> QED
  BY <1>1, VarsInvariant, PTL

\* A role given without naming a priority has a larger one than every role that
\* the host had then, unless requests of the matrix crossed (toggle_assignment,
\* _sync_roles).
THEOREM RolesInOrder == VarsSpec => []AddedInOrder
<1>1. VarsInv => AddedInOrder
  BY DEF VarsInv, OrderInv
<1> QED
  BY <1>1, VarsInvariant, PTL

-----------------------------------------------------------------------------
(* A save that is accepted is in force.                                     *)

\* The one override that is written is in force over every default.
LEMMA OverrideDecides ==
  ASSUME NEW layers, DOMAIN layers = 1 .. 13, NEW t, NEW j \in 9 .. 13, NEW rank,
         layers[j] = Layer("assign", "override", rank),
         DOMAIN rank = {t}, rank[t] \in Int,
         \A i \in 9 .. 13 : i # j => Owners(layers[i]) = {}
  PROVE  [kind |-> "override", owner |-> t] \in InForce(layers)
<1>1. /\ Owners(layers[j]) = {t} /\ layers[j].mode = "assign"
      /\ [kind |-> "override", owner |-> t] \in Left(layers[j])
  BY LayerParts, LeftRows
<1>2. \A i \in 1 .. 13 : Owners(layers[i]) # {} => i <= j
  <2> SUFFICES ASSUME NEW i \in 1 .. 13, Owners(layers[i]) # {}, i > j PROVE FALSE
    OBVIOUS
  <2>1. i \in 9 .. 13 /\ i # j
    OBVIOUS
  <2> QED
    BY <2>1
<1>3. Decides(layers, j)
  BY <1>1, <1>2 DEF Decides
<1>4. j \in 1 .. 13
  OBVIOUS
<1> QED
  BY <1>1, <1>3, <1>4 DEF InForce

\* While a default or the column is in force, nothing is overridden.
LEMMA DefaultInForce ==
  ASSUME HostTyped, NEW row \in Shown, row.kind # "override"
  PROVE  \A o \in Fields \cup {Ansible} : over[o] = None
<1>1. PICK i \in 1 .. 13 :
         Decides(ExplorerLayers, i) /\ row.kind = ExplorerLayers[i].kind
  BY ShownRow
<1>2. i < 9
  BY <1>1, LayerModes
<1>3. ASSUME NEW j \in 9 .. 13 PROVE Owners(ExplorerLayers[j]) = {}
  <2>1. j \in 1 .. 13 /\ i # j /\ ~(j <= i)
    BY <1>2
  <2>2. ExplorerLayers[j].mode = "assign"
    BY <2>1, LayerModes
  <2> QED
    BY <1>1, <2>1, <2>2, ExplorerLayer DEF Decides
<1>4. /\ Overrides(TypeFields) = {} /\ Overrides(StatusFields) = {}
      /\ Overrides(RoleFields) = {} /\ Overrides(AppFields) = {}
      /\ Overrides({Ansible}) = {}
  <2>1. Owners(ExplorerLayers[9]) = {} /\ Owners(ExplorerLayers[10]) = {}
        /\ Owners(ExplorerLayers[11]) = {} /\ Owners(ExplorerLayers[12]) = {}
        /\ Owners(ExplorerLayers[13]) = {}
    BY <1>3
  <2>2. \A rows : DOMAIN AnyOrder(rows) = rows /\ DOMAIN ByName(rows) = rows
    BY DEF AnyOrder, ByName
  <2>3. /\ Owners(ExplorerLayers[9]) = Overrides(TypeFields)
        /\ Owners(ExplorerLayers[10]) = Overrides(StatusFields)
        /\ Owners(ExplorerLayers[11]) = Overrides(RoleFields)
        /\ Owners(ExplorerLayers[12]) = Overrides(AppFields)
        /\ Owners(ExplorerLayers[13]) = Overrides({Ansible})
    BY <2>2, ExplorerLayer, LayerParts
  <2> QED
    BY <2>1, <2>3
<1> QED
  BY <1>4 DEF Overrides, Fields

\* The explorer's layers after a commit: those of the overrides may differ.
LEMMA CommittedLayers ==
  ASSUME SaveCommits
  PROVE  /\ ExplorerLayers'[9] = Layer("assign", "override",
                                       AnyOrder(Overrides(TypeFields)'))
         /\ ExplorerLayers'[10] = Layer("assign", "override",
                                        AnyOrder(Overrides(StatusFields)'))
         /\ ExplorerLayers'[11] = Layer("assign", "override",
                                        ByName(Overrides(RoleFields)'))
         /\ ExplorerLayers'[12] = Layer("assign", "override",
                                        ByName(Overrides(AppFields)'))
         /\ ExplorerLayers'[13] = Layer("assign", "override",
                                        AnyOrder(Overrides({Ansible})'))
         /\ DOMAIN ExplorerLayers' = 1 .. 13
  BY DEF ExplorerLayers

\* A commit that overrides what is overridden already changes no layer.
LEMMA SameLayers ==
  ASSUME SaveCommits, \A targets : Overrides(targets)' = Overrides(targets)
  PROVE  ExplorerLayers' = ExplorerLayers
<1>1. UNCHANGED <<schema, details, priority>> /\ AnsibleRows' = AnsibleRows
  BY DEF SaveCommits, AnsibleRows
<1>2. BaseRows' = BaseRows
  BY <1>1 DEF BaseRows
<1> QED
  BY <1>1, <1>2 DEF ExplorerLayers, ShownRoleDefaults, Defaults, ShownRoles

\* The one row that is overridden after a commit is in force.
LEMMA OnlyOverride ==
  ASSUME HostTyped, SaveCommits, NEW t \in Fields \cup {Ansible},
         \A o \in Fields \cup {Ansible} : over'[o] # None <=> o = t
  PROVE  [kind |-> "override", owner |-> t] \in Shown'
<1> DEFINE Only(targets) == {o \in targets : o = t}
<1>1. /\ Overrides(TypeFields)' = Only(TypeFields)
      /\ Overrides(StatusFields)' = Only(StatusFields)
      /\ Overrides(RoleFields)' = Only(RoleFields)
      /\ Overrides(AppFields)' = Only(AppFields)
      /\ Overrides({Ansible})' = Only({Ansible})
  BY DEF Overrides, Fields
<1>2. /\ \A rows : DOMAIN AnyOrder(rows) = rows /\ DOMAIN ByName(rows) = rows
      /\ \A rows : \A o \in rows : AnyOrder(rows)[o] \in Int
  BY DEF AnyOrder, ByName
<1>3. /\ Owners(ExplorerLayers'[9]) = Only(TypeFields)
      /\ Owners(ExplorerLayers'[10]) = Only(StatusFields)
      /\ Owners(ExplorerLayers'[11]) = Only(RoleFields)
      /\ Owners(ExplorerLayers'[12]) = Only(AppFields)
      /\ Owners(ExplorerLayers'[13]) = Only({Ansible})
  BY <1>1, <1>2, CommittedLayers, LayerParts
<1>4. \A j \in 9 .. 13 : j \in {9, 10, 11, 12, 13}
  OBVIOUS
<1>5. DOMAIN ExplorerLayers' = 1 .. 13
  BY CommittedLayers
<1>6. ASSUME NEW j \in {9, 10, 11, 12, 13}, NEW rank,
             ExplorerLayers'[j] = Layer("assign", "override", rank),
             DOMAIN rank = {t}, rank[t] \in Int,
             \A k \in 9 .. 13 : k # j => Owners(ExplorerLayers'[k]) = {}
      PROVE  [kind |-> "override", owner |-> t] \in Shown'
  <2>1. j \in 9 .. 13
    OBVIOUS
  <2> QED
    BY <1>5, <1>6, <2>1, OverrideDecides DEF Shown
<1>7. CASE t \in TypeFields
  <2>1. /\ Only(TypeFields) = {t} /\ Only(StatusFields) = {} /\ Only(RoleFields) = {}
        /\ Only(AppFields) = {} /\ Only({Ansible}) = {}
    BY <1>7 DEF TypeFields, StatusFields, RoleFields, AppFields, Ansible
  <2>2. \A k \in 9 .. 13 : k # 9 => Owners(ExplorerLayers'[k]) = {}
    BY <1>3, <1>4, <2>1
  <2>3. ExplorerLayers'[9] = Layer("assign", "override", AnyOrder({t}))
    BY <1>1, <2>1, CommittedLayers
  <2>4. DOMAIN AnyOrder({t}) = {t} /\ AnyOrder({t})[t] \in Int
    BY <1>2
  <2> QED
    BY <1>6, <2>2, <2>3, <2>4
<1>8. CASE t \in StatusFields
  <2>1. /\ Only(TypeFields) = {} /\ Only(StatusFields) = {t} /\ Only(RoleFields) = {}
        /\ Only(AppFields) = {} /\ Only({Ansible}) = {}
    BY <1>8 DEF TypeFields, StatusFields, RoleFields, AppFields, Ansible
  <2>2. \A k \in 9 .. 13 : k # 10 => Owners(ExplorerLayers'[k]) = {}
    BY <1>3, <1>4, <2>1
  <2>3. ExplorerLayers'[10] = Layer("assign", "override", AnyOrder({t}))
    BY <1>1, <2>1, CommittedLayers
  <2>4. DOMAIN AnyOrder({t}) = {t} /\ AnyOrder({t})[t] \in Int
    BY <1>2
  <2> QED
    BY <1>6, <2>2, <2>3, <2>4
<1>9. CASE t \in RoleFields
  <2>1. /\ Only(TypeFields) = {} /\ Only(StatusFields) = {} /\ Only(RoleFields) = {t}
        /\ Only(AppFields) = {} /\ Only({Ansible}) = {}
    BY <1>9 DEF TypeFields, StatusFields, RoleFields, AppFields, Ansible
  <2>2. \A k \in 9 .. 13 : k # 11 => Owners(ExplorerLayers'[k]) = {}
    BY <1>3, <1>4, <2>1
  <2>3. ExplorerLayers'[11] = Layer("assign", "override", ByName({t}))
    BY <1>1, <2>1, CommittedLayers
  <2>4. DOMAIN ByName({t}) = {t} /\ ByName({t})[t] \in Int
    BY <1>2, <1>9, RankTyped
  <2> QED
    BY <1>6, <2>2, <2>3, <2>4
<1>10. CASE t \in AppFields
  <2>1. /\ Only(TypeFields) = {} /\ Only(StatusFields) = {} /\ Only(RoleFields) = {}
        /\ Only(AppFields) = {t} /\ Only({Ansible}) = {}
    BY <1>10 DEF TypeFields, StatusFields, RoleFields, AppFields, Ansible
  <2>2. \A k \in 9 .. 13 : k # 12 => Owners(ExplorerLayers'[k]) = {}
    BY <1>3, <1>4, <2>1
  <2>3. ExplorerLayers'[12] = Layer("assign", "override", ByName({t}))
    BY <1>1, <2>1, CommittedLayers
  <2>4. DOMAIN ByName({t}) = {t} /\ ByName({t})[t] \in Int
    BY <1>2, <1>10, RankTyped
  <2> QED
    BY <1>6, <2>2, <2>3, <2>4
<1>11. CASE t = Ansible
  <2>1. /\ Only(TypeFields) = {} /\ Only(StatusFields) = {} /\ Only(RoleFields) = {}
        /\ Only(AppFields) = {} /\ Only({Ansible}) = {t}
    BY <1>11, TargetsApart DEF Fields
  <2>2. \A k \in 9 .. 13 : k # 13 => Owners(ExplorerLayers'[k]) = {}
    BY <1>3, <1>4, <2>1
  <2>3. ExplorerLayers'[13] = Layer("assign", "override", AnyOrder({t}))
    BY <1>1, <2>1, CommittedLayers
  <2>4. DOMAIN AnyOrder({t}) = {t} /\ AnyOrder({t})[t] \in Int
    BY <1>2
  <2> QED
    BY <1>6, <2>2, <2>3, <2>4
<1> QED
  BY <1>7, <1>8, <1>9, <1>10, <1>11 DEF Fields

\* What a fresh save that is accepted writes is in force, as the explorer sees it.
LEMMA CommitInForce ==
  ASSUME VarsInv, SaveCommits, ~save.late, save.value # None
  PROVE  [kind |-> "override", owner |-> Overridden(save.target)] \in Shown'
<1> DEFINE t == Overridden(save.target)
<1>1. HostTyped /\ save.step = "read"
  BY DEF VarsInv, VarsTyped, SaveCommits
<1>2. PICK p \in Payloads : p.target = save.target
  BY <1>1 DEF VarsInv, PanelSave, SaveInv
<1>3. save.target # Nowhere
  BY <1>1 DEF VarsInv, PanelSave, SaveInv
<1>4. PICK row \in Shown : save.target = TargetOf(row)
  BY <1>1, <1>2, <1>3, PayloadsTyped
<1>5. t \in Fields \cup {Ansible}
  BY <1>1, <1>4, TargetTyped DEF Overridden, Targets
<1>6. over' = [over EXCEPT ![t] = save.value]
  BY DEF SaveCommits
<1>7. over \in [Fields \cup {Ansible} -> Values \cup {None}]
  BY <1>1 DEF HostTyped
<1>8. PICK i \in 1 .. 13 : /\ Decides(ExplorerLayers, i)
                           /\ row \in Left(ExplorerLayers[i])
                           /\ row.kind = ExplorerLayers[i].kind
                           /\ row.owner \in Owners(ExplorerLayers[i])
                           /\ row = [kind |-> row.kind, owner |-> row.owner]
  BY <1>1, ShownRow
<1>9. CASE row.kind = "override"
  <2>1. i >= 9
    <3> SUFFICES ASSUME i < 9 PROVE FALSE
      OBVIOUS
    <3>1. ExplorerLayers[i].kind \in {"base", "default"}
      BY LayerModes
    <3> QED
      BY <1>8, <1>9, <3>1
  <2>2. row.owner \in Fields \cup {Ansible}
    BY <1>1, <1>8, <2>1, OwnersTyped
  <2>3. t = row.owner
    BY <1>4, <2>2, TargetsApart DEF TargetOf, Overridden, Targets
  <2>4. over[t] # None
    <3>1. i \in {9, 10, 11, 12, 13}
      BY <2>1
    <3>2. \E targets : row.owner \in Overrides(targets)
      BY <1>1, <1>8, <3>1, ExplorerLayer, LayerParts, RankTyped
    <3> QED
      BY <2>3, <3>2 DEF Overrides
  <2>5. \A o : over'[o] # None <=> over[o] # None
    BY <1>5, <1>6, <1>7, <2>4
  <2>6. \A targets : Overrides(targets)' = Overrides(targets)
    BY <2>5 DEF Overrides
  <2>7. Shown' = Shown
    BY <2>6, SameLayers DEF Shown
  <2> QED
    BY <1>8, <1>9, <2>3, <2>7
<1>10. CASE row.kind # "override"
  <2>1. \A o \in Fields \cup {Ansible} : over[o] = None
    BY <1>1, <1>10, DefaultInForce
  <2>2. \A o \in Fields \cup {Ansible} : over'[o] # None <=> o = t
    BY <1>5, <1>6, <1>7, <2>1
  <2> QED
    BY <1>1, <1>5, <2>2, OnlyOverride
<1> QED
  BY <1>9, <1>10

\* An override that the explorer shows in force is exported, in whatever order
\* the roles are.
OverridesExported ==
    \A row \in Shown : row.kind = "override" => row \in Exported

LEMMA OverridesAlike == HostTyped => OverridesExported
<1> SUFFICES ASSUME HostTyped, NEW row \in Shown, row.kind = "override"
             PROVE  row \in Exported
  BY DEF OverridesExported
<1>1. PICK i \in 1 .. 13 : /\ Decides(ExplorerLayers, i)
                           /\ row \in Left(ExplorerLayers[i])
                           /\ row.kind = ExplorerLayers[i].kind
  BY ShownRow
<1>2. i >= 9
  <2> SUFFICES ASSUME i < 9 PROVE FALSE
    OBVIOUS
  <2>1. ExplorerLayers[i].kind \in {"base", "default"}
    BY LayerModes
  <2> QED
    BY <1>1, <2>1
<1> QED
  BY <1>1, <1>2, LeftAlike, DecidersAlike, InForceRows

\* A save that the explorer accepts, and that nothing has made old since, is in
\* force when it is committed, in the explorer and in the export
\* (_apply_inventory_override, _persist_override).
THEOREM SavesAreInForce == VarsSpec => SavedIsInForce
<1> DEFINE Kept == (SaveCommits /\ ~save.late /\ save.value # None) =>
             LET row == [kind |-> "override", owner |-> Overridden(save.target)]
             IN  row \in Shown' /\ row \in Exported'
<1>1. OverridesExported' =>
         \A o : [kind |-> "override", owner |-> o] \in Shown' =>
                   [kind |-> "override", owner |-> o] \in Exported'
  BY DEF OverridesExported
<1>2. VarsInv' => OverridesExported'
  <2>1. VarsInv => OverridesExported
    BY OverridesAlike DEF VarsInv, VarsTyped
  <2> QED
    BY <2>1, PTL
<1>3. VarsInv /\ VarsInv' /\ [VarsNext]_hostVars => [Kept]_hostVars
  <2> SUFFICES ASSUME VarsInv, VarsInv', SaveCommits, ~save.late, save.value # None
               PROVE  /\ [kind |-> "override", owner |-> Overridden(save.target)]
                            \in Shown'
                      /\ [kind |-> "override", owner |-> Overridden(save.target)]
                            \in Exported'
    OBVIOUS
  <2> QED
    BY <1>1, <1>2, CommitInForce
<1> QED
  BY <1>3, VarsInvariant, PTL DEF VarsSpec, SavedIsInForce

-----------------------------------------------------------------------------
(* A save is refused for a reason.                                          *)

\* Whoever owns a target that is refused is not the host's.
LEMMA RefusedForeign ==
  ASSUME HostTyped, save.target \in Targets, ~Belongs(save.target)
  PROVE  Foreign(save.target)
<1> DEFINE t == save.target
<1>1. t \in Fields
  BY DEF Targets, Belongs
<1> HIDE DEF t
<1>2. ASSUME t \in StatusFields, ~Belongs(t) PROVE Foreign(t)
  BY <1>2 DEF StatusFields, Belongs, Foreign
<1>3. ASSUME t \in TypeFields, ~Belongs(t) PROVE Foreign(t)
  BY <1>3 DEF TypeFields, Belongs, Foreign
<1>4. ASSUME t \in RoleFields, ~Belongs(t) PROVE Foreign(t)
  BY <1>4 DEF RoleFields, Belongs, Foreign, HostRoles, HostTyped
<1>5. ASSUME t \in AppFields, ~Belongs(t) PROVE Foreign(t)
  BY <1>5 DEF AppFields, Belongs, Foreign
<1> QED
  BY <1>1, <1>2, <1>3, <1>4, <1>5 DEF Fields, t

\* A fresh save with one payload to go by is refused for a foreign owner only.
LEMMA ReadsRefuse ==
  ASSUME VarsInv, SaveReads, save'.step = "refused", ~save.late,
         \A p, q \in Payloads : p = q
  PROVE  Foreign(save.target)
<1>1. save.step = "sent" /\ save \in SaveStates /\ HostTyped
  BY DEF SaveReads, VarsInv, PanelSave, VarsTyped
<1>2. PICK q \in Payloads : q.target = save.target
  BY <1>1 DEF VarsInv, PanelSave, SaveInv
<1>3. PICK p \in Payloads :
         LET accepted == p.target = save.target /\ Belongs(save.target)
         IN  save' = [save EXCEPT !.step = IF accepted THEN "read" ELSE "refused",
                                  !.late = IF accepted THEN FALSE ELSE @]
  BY DEF SaveReads
<1>4. ~Belongs(save.target)
  BY <1>1, <1>2, <1>3 DEF SaveStates
<1>5. save.target \in Targets
  BY <1>1 DEF VarsInv, PanelSave, SaveInv, SaveStates
<1> QED
  BY <1>1, <1>4, <1>5, RefusedForeign

\* A save is refused only because something was written since the panel was
\* loaded, rows tie, or the row in force is of an owner that the host does not
\* have (_apply_inventory_override, InventoryExplorerPage.tsx).
THEOREM RefusalsHaveAReason == VarsSpec => RefusedForAReason
<1> DEFINE Reason == (SaveReads /\ save'.step = "refused") =>
             \/ save.late
             \/ \E p, q \in Payloads : p # q
             \/ Foreign(save.target)
<1>1. VarsInv /\ [VarsNext]_hostVars => [Reason]_hostVars
  BY ReadsRefuse
<1> QED
  BY <1>1, VarsInvariant, PTL DEF VarsSpec, RefusedForAReason
=============================================================================
