----------------------------- MODULE ProxmoxSync -----------------------------
(***************************************************************************)
(* The Proxmox sync (services/proxmox.py) beside the admin's requests      *)
(* about the same hosts (routers/proxmox.py, routers/hosts.py).            *)
(*                                                                         *)
(* A sync is one long transaction.  It reads hosts and pending entries as  *)
(* they were when it began (REPEATABLE READ), asks Proxmox, and writes at  *)
(* its one commit, except that a new host is flushed at once and locks its *)
(* row.  Admins meanwhile promote, dismiss, create, delete and recycle, in *)
(* short transactions of their own.                                        *)
(*                                                                         *)
(* A VM or node is the id of a host and the key of a pending entry.  What  *)
(* Proxmox says about it does not matter here, and a promotion that is     *)
(* refused for missing fields does nothing.                                *)
(***************************************************************************)
EXTENDS Naturals

CONSTANTS
    VMs, Nodes,   \* virtual machines, and the physical nodes of credentials
    Credentials,  \* active credentials; two of them may report one VMID
    Syncs,        \* requests and scheduler threads that run a sync
    Admins,       \* requests of admins
    MaxFaults     \* bound: failing syncs, databases and containers

ASSUME MaxFaultsAssumption == MaxFaults \in Nat
ASSUME KeysAssumption == VMs \cap Nodes = {}

VARIABLES
    lock,      \* _sync_lock
    defaults,  \* whether environments, VLANs and roles have a first row
    host,      \* the ids in `hosts`
    entry,     \* the status in `proxmox_pending_hosts`
    sync,      \* each sync in progress: what it read and what it did
    admin,     \* each admin's request in progress
    faults

vars == <<lock, defaults, host, entry, sync, admin, faults>>

Keys == VMs \cup Nodes
Statuses == {"pending", "promoted", "dismissed"}
Entries == [Keys -> Statuses \cup {"none"}]

\* todo is what credentials reported and the loop has not come to yet, done
\* the VMs it has dealt with, found the nodes reported, twice whether one row
\* was added to the session two times.
Sync == [pc : {"idle", "locked", "syncing"}, defaults : BOOLEAN,
         todo : SUBSET (VMs \X Credentials), done : SUBSET VMs,
         found : SUBSET Nodes, twice : BOOLEAN,
         seenHost : SUBSET Keys, seenEntry : Entries]
Request == [pc : {"promote", "dismiss", "recycle"}, key : Keys]

NoEntries == [k \in Keys |-> "none"]
IdleSync == [pc |-> "idle", defaults |-> FALSE, todo |-> {}, done |-> {},
             found |-> {}, twice |-> FALSE, seenHost |-> {},
             seenEntry |-> NoEntries]
IdleAdmin == [pc |-> "idle", key |-> "none"]

TypeOK ==
    /\ lock \in BOOLEAN /\ defaults \in BOOLEAN
    /\ host \subseteq Keys
    /\ entry \in Entries
    /\ sync \in [Syncs -> Sync]
    /\ admin \in [Admins -> {IdleAdmin} \cup Request]
    /\ faults \in 0 .. MaxFaults

Init ==
    /\ lock = FALSE /\ defaults \in BOOLEAN
    /\ host = {}
    /\ entry = NoEntries
    /\ sync = [s \in Syncs |-> IdleSync]
    /\ admin = [a \in Admins |-> IdleAdmin]
    /\ faults = 0

Fault == faults < MaxFaults /\ faults' = faults + 1

-----------------------------------------------------------------------------
(* What a sync will have written when it commits, from what it has read.    *)

Touches(t) == t.done \cap t.seenHost
Creates(t) == IF t.defaults THEN t.done \ t.seenHost ELSE {}
Waits(t) == IF t.defaults THEN {} ELSE t.done \ t.seenHost

\* "Clean up any pending entry for this VMID now that a real host exists".
Drops(t) == {v \in Touches(t) \cup Creates(t) : t.seenEntry[v] # "none"}

\* New entries of VMs and of nodes.
Queues(t) == {k \in Waits(t) \cup t.found : t.seenEntry[k] = "none"}

\* Wrong: queues again what an admin has promoted, too.
RequeuesDecided(t) == {v \in Waits(t) : t.seenEntry[v] \in {"dismissed", "promoted"}}

\* A dismissed VM is queued again; a promoted one, and a node, is not.
Requeues(t) == {v \in Waits(t) : t.seenEntry[v] = "dismissed"}

\* Entries refreshed in place, by id and without their status.
Refreshes(t) == {k \in Waits(t) \cup t.found : t.seenEntry[k] = "pending"}

\* Wrong: a host is updated without a look at the number of rows.
ConflictsOfEntries(t) ==
    \/ t.twice
    \/ \E k \in Queues(t) : entry[k] # "none"
    \/ \E k \in Requeues(t) \cup Refreshes(t) : entry[k] = "none"

\* A commit fails if a row to insert exists by now or was added twice, or a row
\* to update is gone.
Conflicts(t) ==
    \/ t.twice
    \/ \E k \in Queues(t) : entry[k] # "none"
    \/ \E k \in Requeues(t) \cup Refreshes(t) : entry[k] = "none"
    \/ ~(Touches(t) \subseteq host)

\* A host that was flushed but not committed blocks who inserts the same id.
Flushed(k) == \E s \in Syncs : k \in Creates(sync[s])

-----------------------------------------------------------------------------
(* A sync.                                                                  *)

\* Wrong: does not look at what acquire returned.
SyncLocksAnyway(s) ==
    /\ sync[s].pc = "idle"
    /\ lock' = TRUE
    /\ sync' = [sync EXCEPT ![s].pc = "locked"]
    /\ UNCHANGED <<defaults, host, entry, admin, faults>>

\* acquire(blocking=False); a sync that finds the lock taken is refused.
SyncLocks(s) ==
    /\ sync[s].pc = "idle" /\ ~lock
    /\ lock' = TRUE
    /\ sync' = [sync EXCEPT ![s].pc = "locked"]
    /\ UNCHANGED <<defaults, host, entry, admin, faults>>

\* The commit of the run's row fails before the try: nobody will release the
\* lock.
SyncLeaks(s) ==
    /\ sync[s].pc = "locked" /\ Fault
    /\ sync' = [sync EXCEPT ![s] = IdleSync]
    /\ UNCHANGED <<lock, defaults, host, entry, admin>>

\* The transaction begins, and the credentials that can be reached report.
SyncBegins(s) ==
    /\ sync[s].pc = "locked"
    /\ \E reported \in SUBSET (VMs \X Credentials), found \in SUBSET Nodes :
          sync' = [sync EXCEPT ![s] =
              [pc |-> "syncing", defaults |-> defaults, todo |-> reported,
               done |-> {}, found |-> found, twice |-> FALSE,
               seenHost |-> host, seenEntry |-> entry]]
    /\ UNCHANGED <<lock, defaults, host, entry, admin, faults>>

\* rollback, the run recorded as failed, and the finally block.
SyncEnds(s) ==
    /\ lock' = FALSE
    /\ sync' = [sync EXCEPT ![s] = IdleSync]

\* The next report.  A VM with the same VMID on a second cluster is added again
\* to a session that does not flush by itself, unless something else did.
SyncTakes(s) ==
    /\ sync[s].pc = "syncing"
    /\ \E r \in sync[s].todo :
          LET t == sync[s]
              isNew == r[1] \notin t.seenHost /\ (t.defaults \/ t.seenEntry[r[1]] = "none")
          IN \/ /\ r[1] \notin t.done /\ t.defaults /\ r[1] \notin t.seenHost
                /\ r[1] \in host  \* the flush of the new host fails
                /\ SyncEnds(s)
             \/ /\ r[1] \notin t.done
                /\ (t.defaults /\ r[1] \notin t.seenHost) => r[1] \notin host
                /\ sync' = [sync EXCEPT ![s].todo = @ \ {r},
                                        ![s].done = @ \cup {r[1]}]
                /\ UNCHANGED lock
             \/ /\ r[1] \in t.done
                /\ \E again \in {t.twice, t.twice \/ isNew} :
                      sync' = [sync EXCEPT ![s].todo = @ \ {r}, ![s].twice = again]
                /\ UNCHANGED lock
    /\ UNCHANGED <<defaults, host, entry, admin, faults>>

SyncSucceeds(s) ==
    LET t == sync[s] IN
    /\ t.pc = "syncing" /\ t.todo = {} /\ ~Conflicts(t)
    /\ host' = host \cup Creates(t)
    /\ entry' = [k \in Keys |->
           CASE k \in Drops(t) -> "none"
             [] k \in Queues(t) \cup Requeues(t) -> "pending"
             [] OTHER -> entry[k]]
    /\ SyncEnds(s)
    /\ UNCHANGED <<defaults, admin, faults>>

SyncConflicts(s) ==
    /\ sync[s].pc = "syncing" /\ sync[s].todo = {} /\ Conflicts(sync[s])
    /\ SyncEnds(s)
    /\ UNCHANGED <<defaults, host, entry, admin, faults>>

\* Any other exception in the try.
SyncFails(s) ==
    /\ sync[s].pc = "syncing" /\ Fault
    /\ SyncEnds(s)
    /\ UNCHANGED <<defaults, host, entry, admin>>

-----------------------------------------------------------------------------
(* Admins.  A request reads the entry and commits later; an INSERT of a host *)
(* that exists, or an UPDATE of an entry that is gone, is answered with 500. *)

AdminBegins(a, pc, k) ==
    /\ admin[a].pc = "idle"
    /\ admin' = [admin EXCEPT ![a] = [pc |-> pc, key |-> k]]

AdminEnds(a) == admin' = [admin EXCEPT ![a] = IdleAdmin]

\* promote_pending and each step of bulk_promote_pending.
PromoteLoads(a) ==
    /\ \E k \in Keys : /\ entry[k] = "pending" /\ k \notin host
                       /\ AdminBegins(a, "promote", k)
    /\ UNCHANGED <<lock, defaults, host, entry, sync, faults>>

PromoteCommits(a) ==
    /\ admin[a].pc = "promote" /\ ~Flushed(admin[a].key)
    /\ LET k == admin[a].key IN
       \/ /\ k \notin host /\ entry[k] # "none"
          /\ host' = host \cup {k}
          /\ entry' = [entry EXCEPT ![k] = "promoted"]
       \/ /\ k \in host \/ entry[k] = "none"
          /\ UNCHANGED <<host, entry>>
    /\ AdminEnds(a)
    /\ UNCHANGED <<lock, defaults, sync, faults>>

\* dismiss_pending and each step of bulk_dismiss_pending.
DismissLoads(a) ==
    /\ \E k \in Keys : entry[k] = "pending" /\ AdminBegins(a, "dismiss", k)
    /\ UNCHANGED <<lock, defaults, host, entry, sync, faults>>

\* Wrong: deletes the row.
DismissDeletes(a) ==
    /\ admin[a].pc = "dismiss"
    /\ entry' = [entry EXCEPT ![admin[a].key] = "none"]
    /\ AdminEnds(a)
    /\ UNCHANGED <<lock, defaults, host, sync, faults>>

DismissCommits(a) ==
    /\ admin[a].pc = "dismiss"
    /\ entry' = [entry EXCEPT ![admin[a].key] =
                     IF @ = "none" THEN @ ELSE "dismissed"]
    /\ AdminEnds(a)
    /\ UNCHANGED <<lock, defaults, host, sync, faults>>

\* recycle_host: the deletion and the new entry are two transactions.
RecycleDeletes(a) ==
    /\ \E v \in VMs \cap host : /\ entry[v] = "none"
                                /\ host' = host \ {v}
                                /\ AdminBegins(a, "recycle", v)
    /\ UNCHANGED <<lock, defaults, entry, sync, faults>>

\* Wrong: a status of its own.
RecycleQueuesRecycled(a) ==
    /\ admin[a].pc = "recycle"
    /\ entry' = [entry EXCEPT ![admin[a].key] = IF @ = "none" THEN "recycled" ELSE @]
    /\ AdminEnds(a)
    /\ UNCHANGED <<lock, defaults, host, sync, faults>>

RecycleQueues(a) ==
    /\ admin[a].pc = "recycle"
    /\ entry' = [entry EXCEPT ![admin[a].key] = IF @ = "none" THEN "pending" ELSE @]
    /\ AdminEnds(a)
    /\ UNCHANGED <<lock, defaults, host, sync, faults>>

\* POST /hosts and DELETE /hosts/{id}, which do not look at entries.
CreateHost ==
    /\ \E k \in VMs \ host : ~Flushed(k) /\ host' = host \cup {k}
    /\ UNCHANGED <<lock, defaults, entry, sync, admin, faults>>

DeleteHost ==
    /\ \E k \in host : host' = host \ {k}
    /\ UNCHANGED <<lock, defaults, entry, sync, admin, faults>>

\* Somebody creates the first environment, VLAN or role, or deletes the last.
DefaultsChange ==
    /\ defaults' = ~defaults
    /\ UNCHANGED <<lock, host, entry, sync, admin, faults>>

\* The container restarts; its transactions are rolled back.
Crash ==
    /\ Fault
    /\ lock' = FALSE
    /\ sync' = [s \in Syncs |-> IdleSync]
    /\ admin' = [a \in Admins |-> IdleAdmin]
    /\ UNCHANGED <<defaults, host, entry>>

SyncSteps(s) ==
    \/ SyncLocks(s) \/ SyncLeaks(s) \/ SyncBegins(s) \/ SyncTakes(s)
    \/ SyncSucceeds(s) \/ SyncConflicts(s) \/ SyncFails(s)

AdminSteps(a) ==
    \/ PromoteLoads(a) \/ PromoteCommits(a) \/ DismissLoads(a)
    \/ DismissCommits(a) \/ RecycleDeletes(a) \/ RecycleQueues(a)

Next ==
    \/ \E s \in Syncs : SyncSteps(s)
    \/ \E a \in Admins : AdminSteps(a)
    \/ CreateHost \/ DeleteHost \/ DefaultsChange \/ Crash

Spec == Init /\ [][Next]_vars

-----------------------------------------------------------------------------
(* Properties.                                                              *)

InProgress(s) == sync[s].pc # "idle"

\* "A sync is already running": manual and scheduled syncs exclude each other,
\* although a lock may be left taken and a failing sync releases it.
OneSync == \A s, t \in Syncs : InProgress(s) /\ InProgress(t) => s = t

\* While a sync works from the entries it has read, no admin takes one of them
\* away or undoes a promotion or a dismissal; an entry that was pending may
\* have been decided on, and the sync must not depend on it.
SnapshotHolds ==
    \A s \in Syncs : sync[s].pc = "syncing" =>
        \A k \in Keys :
            /\ sync[s].seenEntry[k] # "none" => entry[k] # "none"
            /\ sync[s].seenEntry[k] \in {"promoted", "dismissed"} =>
                   entry[k] # "pending"

\* routers/proxmox.py:495: what an admin has decided on "won't reappear unless
\* re-synced": an entry that is dismissed or promoted becomes pending again only
\* for a VM, and by a sync that began after the decision, not by one that was in
\* progress.
DecisionsStand ==
    [][\A k \in Keys : entry[k] \in {"dismissed", "promoted"} /\ entry'[k] = "pending" =>
         /\ k \in VMs
         /\ \E s \in Syncs : SyncSucceeds(s) /\ sync[s].seenEntry[k] = "dismissed"]_vars

\* A sync that succeeds leaves every VM that it dealt with as a host or with an
\* entry, whatever admins did meanwhile.
SyncedIsKnown ==
    [][\A s \in Syncs : SyncSucceeds(s) =>
         \A v \in sync[s].done : v \in host' \/ entry'[v] # "none"]_vars

\* README.md:313, "new VMs are queued for manual review": a sync during which no admin
\* did anything leaves every VM that it dealt with as a host or in the list of
\* pending entries.  Not true of the code, and checked by no run: an entry that was
\* promoted keeps that status when its host is deleted.
SyncedIsShown ==
    [][\A s \in Syncs :
         SyncSucceeds(s) /\ sync[s].seenHost = host /\ sync[s].seenEntry = entry =>
             \A v \in sync[s].done : v \in host' \/ entry'[v] = "pending"]_vars
===============================================================================
