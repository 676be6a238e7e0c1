---------------------------- MODULE AnsibleRunner ----------------------------
(***************************************************************************)
(* The ansible-runner sidecar, src/ansible-runner/main.py: a FastAPI       *)
(* service whose handlers run in a thread pool and share the dictionary    *)
(* `_jobs` under `_jobs_lock`.  Every job has a waiter thread, then a      *)
(* thread that sleeps through the retention time and removes the job; a    *)
(* DELETE runs beside them, and readers look at a job's fields without the *)
(* lock.  The threads interleave at every access to the shared state; the  *)
(* sections under the lock are single steps, except the waiter's, whose    *)
(* two assignments are visible to the unlocked readers one by one.         *)
(***************************************************************************)
EXTENDS Naturals

CONSTANTS
    Jobs,       \* job ids: POST /run draws a fresh one for every request
    Clients,    \* the threads that serve GET /run/{id}/output
    MaxOut,     \* bound: the pieces of output a process writes
    MaxCrashes, \* bound: how often the container dies
    None

ASSUME BoundsAssumption == MaxOut \in Nat /\ MaxCrashes \in Nat
ASSUME NoneAssumption == None \notin Jobs /\ None \notin {"ok", "bad"}

VARIABLES
    phase,     \* how far the handler of the POST that drew the id has come
    files,     \* the job's temporary files on disk
    jobs,      \* the keys of _jobs
    proc,      \* the ansible-playbook process
    out,       \* the pieces of output it has written
    signalled, \* the processes that were sent SIGTERM
    status,    \* Job.status
    exit,      \* Job.exit_code, "ok" for 0 and "bad" for any other
    waiter,    \* the thread in _wait_for_job
    reaper,    \* the thread in _cleanup_job_later
    cancel,    \* the thread in cancel_run that took the job out of _jobs
    poll,      \* the threads in get_output, one per client
    crashes

process == <<proc, out, signalled>>
fields  == <<status, exit>>
threads == <<waiter, reaper, cancel>>
vars == <<phase, files, jobs, process, fields, threads, poll, crashes>>

TempKinds == {"inv", "vault", "krb"}
FileKinds == TempKinds \cup {"output"}

ExitCodes == {"ok", "bad"}

\* Where a text read from an offset on ends: seek and read go no further than
\* the file, and read nothing behind its end.
TextEnd(j, from) == IF from <= out[j] THEN out[j] ELSE from

\* A poll before its reply: `seen` is how far its text goes at its lookup.
Unanswered(pc, j, from, seen) ==
    [pc |-> pc, job |-> j, from |-> from, to |-> 0, seen |-> seen,
     done |-> FALSE, code |-> None]

NoPoll == Unanswered("idle", None, 0, 0)
LostPoll == Unanswered("error", None, 0, 0)

Polls == [pc : {"idle", "looked", "read", "done", "found", "gone", "error"},
          job : Jobs \cup {None}, from : 0 .. MaxOut, to : 0 .. MaxOut,
          seen : 0 .. MaxOut, done : BOOLEAN, code : ExitCodes \cup {None}]

TypeOK ==
    /\ phase \in [Jobs -> TempKinds \cup {"none", "ccache", "open", "popen",
                                          "register", "answered", "refused",
                                          "lost"}]
    /\ files \in [Jobs -> SUBSET FileKinds]
    /\ jobs \subseteq Jobs
    /\ proc \in [Jobs -> {"absent", "alive", "ok", "bad", "killed"}]
    /\ out \in [Jobs -> 0 .. MaxOut]
    /\ signalled \subseteq Jobs
    /\ status \in [Jobs -> {"running", "done"}]
    /\ exit \in [Jobs -> ExitCodes \cup {None}]
    /\ waiter \in [Jobs -> {"none", "waiting", "coded", "done"}]
    /\ reaper \in [Jobs -> {"none", "asleep", "unlinking", "end"}]
    /\ cancel \in [Jobs -> {"none", "popped", "flagged", "unlinking", "end"}]
    /\ poll \in [Clients -> Polls]
    /\ crashes \in 0 .. MaxCrashes

Init ==
    /\ phase = [j \in Jobs |-> "none"]
    /\ files = [j \in Jobs |-> {}]
    /\ jobs = {}
    /\ proc = [j \in Jobs |-> "absent"]
    /\ out = [j \in Jobs |-> 0]
    /\ signalled = {}
    /\ status = [j \in Jobs |-> "running"]
    /\ exit = [j \in Jobs |-> None]
    /\ waiter = [j \in Jobs |-> "none"]
    /\ reaper = [j \in Jobs |-> "none"]
    /\ cancel = [j \in Jobs |-> "none"]
    /\ poll = [c \in Clients |-> NoPoll]
    /\ crashes = 0

-----------------------------------------------------------------------------
\* POST /run.

\* The request passes the path checks and gets its id.
StartRun(j) ==
    /\ phase[j] = "none"
    /\ phase' = [phase EXCEPT ![j] = "inv"]
    /\ UNCHANGED <<files, jobs, process, fields, threads, poll, crashes>>

NextPhase == [inv |-> "vault", vault |-> "krb", krb |-> "ccache"]

\* The inventory, vault-password and krb5 files are written in this order,
\* those that the request needs.
WriteTemp(j) ==
    /\ phase[j] \in TempKinds
    /\ \E needed \in SUBSET {phase[j]} :
          files' = [files EXCEPT ![j] = @ \cup needed]
    /\ phase' = [phase EXCEPT ![j] = NextPhase[@]]
    /\ UNCHANGED <<jobs, process, fields, threads, poll, crashes>>

\* Writing one fails (a full disk): the handler raises.  Only the vault
\* password's helper removes what it had created; earlier files stay.
WriteTempFails(j) ==
    /\ phase[j] \in TempKinds
    /\ \E created \in SUBSET ({phase[j]} \ {"vault"}) :
          files' = [files EXCEPT ![j] = @ \cup created]
    /\ phase' = [phase EXCEPT ![j] = "refused"]
    /\ UNCHANGED <<jobs, process, fields, threads, poll, crashes>>

\* The name of the credential cache is checked only now: a refusal leaves
\* the files.
CheckCcache(j) ==
    /\ phase[j] = "ccache"
    /\ \E verdict \in {"open", "refused"} :
          phase' = [phase EXCEPT ![j] = verdict]
    /\ UNCHANGED <<files, jobs, process, fields, threads, poll, crashes>>

OpenOutput(j) ==
    /\ phase[j] = "open"
    /\ \/ /\ phase' = [phase EXCEPT ![j] = "popen"]
          /\ files' = [files EXCEPT ![j] = @ \cup {"output"}]
       \/ /\ phase' = [phase EXCEPT ![j] = "refused"]
          /\ UNCHANGED files
    /\ UNCHANGED <<jobs, process, fields, threads, poll, crashes>>

Popen(j) ==
    /\ phase[j] = "popen"
    /\ phase' = [phase EXCEPT ![j] = "register"]
    /\ proc' = [proc EXCEPT ![j] = "alive"]
    /\ UNCHANGED <<files, jobs, out, signalled, fields, threads, poll,
                   crashes>>

\* FileNotFoundError removes the job's files; any other OSError (such as an
\* argument list that is too long) passes the handler by and leaves them.
PopenFails(j) ==
    /\ phase[j] = "popen"
    /\ phase' = [phase EXCEPT ![j] = "refused"]
    /\ files' \in {files, [files EXCEPT ![j] = {}]}
    /\ UNCHANGED <<jobs, process, fields, threads, poll, crashes>>

\* No thread is between the waiter's two assignments, which hold the lock.
LockFree == \A j \in Jobs : waiter[j] # "coded"

\* The job enters _jobs, its waiter thread starts, and the id is answered.
Register(j) ==
    /\ phase[j] = "register" /\ LockFree
    /\ phase' = [phase EXCEPT ![j] = "answered"]
    /\ jobs' = jobs \cup {j}
    /\ waiter' = [waiter EXCEPT ![j] = "waiting"]
    /\ UNCHANGED <<files, process, fields, reaper, cancel, poll, crashes>>

-----------------------------------------------------------------------------
\* The process, which is ansible-playbook and not part of the repository.

Emit(j) ==
    /\ proc[j] = "alive" /\ out[j] < MaxOut
    /\ out' = [out EXCEPT ![j] = @ + 1]
    /\ UNCHANGED <<phase, files, jobs, proc, signalled, fields, threads, poll,
                   crashes>>

Exit(j) ==
    /\ proc[j] = "alive"
    /\ \E c \in ExitCodes : proc' = [proc EXCEPT ![j] = c]
    /\ UNCHANGED <<phase, files, jobs, out, signalled, fields, threads, poll,
                   crashes>>

-----------------------------------------------------------------------------
\* _wait_for_job.

WaiterCodes(j) ==
    /\ waiter[j] = "waiting" /\ proc[j] \in ExitCodes /\ LockFree
    /\ exit' = [exit EXCEPT ![j] = proc[j]]
    /\ waiter' = [waiter EXCEPT ![j] = "coded"]
    /\ UNCHANGED <<phase, files, jobs, process, status, reaper, cancel, poll,
                   crashes>>

WaiterFlags(j) ==
    /\ waiter[j] = "coded"
    /\ status' = [status EXCEPT ![j] = "done"]
    /\ waiter' = [waiter EXCEPT ![j] = "done"]
    /\ reaper' = [reaper EXCEPT ![j] = "asleep"]
    /\ UNCHANGED <<phase, files, jobs, process, exit, cancel, poll, crashes>>

-----------------------------------------------------------------------------
\* Wrong: get in place of pop.
ReaperGets(j) ==
    /\ reaper[j] = "asleep" /\ LockFree
    /\ reaper' = [reaper EXCEPT ![j] = IF j \in jobs /\ status[j] = "done"
                                       THEN "unlinking" ELSE "end"]
    /\ UNCHANGED <<phase, files, jobs, process, fields, waiter, cancel, poll,
                   crashes>>

\* _cleanup_job_later: it may wake up at any time, there is no clock here.

ReaperPops(j) ==
    /\ reaper[j] = "asleep" /\ LockFree
    /\ IF j \in jobs /\ status[j] = "done"
       THEN /\ jobs' = jobs \ {j}
            /\ reaper' = [reaper EXCEPT ![j] = "unlinking"]
       ELSE /\ reaper' = [reaper EXCEPT ![j] = "end"]
            /\ UNCHANGED jobs
    /\ UNCHANGED <<phase, files, process, fields, waiter, cancel, poll, crashes>>

ReaperUnlinks(j) ==
    /\ reaper[j] = "unlinking"
    /\ files' = [files EXCEPT ![j] = {}]
    /\ reaper' = [reaper EXCEPT ![j] = "end"]
    /\ UNCHANGED <<phase, jobs, process, fields, waiter, cancel, poll, crashes>>

-----------------------------------------------------------------------------
\* Wrong: get in place of pop.
CancelGets(j) ==
    /\ j \in jobs /\ LockFree
    /\ cancel' = [cancel EXCEPT ![j] = "popped"]
    /\ UNCHANGED <<phase, files, jobs, process, fields, waiter, reaper, poll,
                   crashes>>

\* DELETE /run/{id}.  Only the thread that pops the job goes on.

CancelPops(j) ==
    /\ j \in jobs /\ LockFree
    /\ jobs' = jobs \ {j}
    /\ cancel' = [cancel EXCEPT ![j] = "popped"]
    /\ UNCHANGED <<phase, files, process, fields, waiter, reaper, poll, crashes>>

\* Wrong: flags the job without terminating its process.
CancelFlags(j) ==
    /\ cancel[j] = "popped"
    /\ status' = [status EXCEPT ![j] = "done"]
    /\ cancel' = [cancel EXCEPT ![j] = "flagged"]
    /\ UNCHANGED <<phase, files, jobs, process, exit, waiter, reaper, poll,
                   crashes>>

\* Without the lock: a job that still looks running is terminated and
\* flagged done, and its exit code is set in the next statement.
CancelTerminates(j) ==
    /\ cancel[j] = "popped"
    /\ IF status[j] = "running"
       THEN /\ signalled' = signalled \cup {j}
            /\ status' = [status EXCEPT ![j] = "done"]
            /\ cancel' = [cancel EXCEPT ![j] = "flagged"]
       ELSE /\ cancel' = [cancel EXCEPT ![j] = "unlinking"]
            /\ UNCHANGED <<signalled, status>>
    /\ UNCHANGED <<phase, files, jobs, proc, out, exit, waiter, reaper, poll,
                   crashes>>

\* Wrong: stores the signal and not an exit code.
CancelSignals(j) ==
    /\ cancel[j] = "flagged"
    /\ exit' = [exit EXCEPT ![j] = "SIGTERM"]
    /\ cancel' = [cancel EXCEPT ![j] = "unlinking"]
    /\ UNCHANGED <<phase, files, jobs, process, status, waiter, reaper, poll,
                   crashes>>

CancelCodes(j) ==
    /\ cancel[j] = "flagged"
    /\ exit' = [exit EXCEPT ![j] = "bad"]
    /\ cancel' = [cancel EXCEPT ![j] = "unlinking"]
    /\ UNCHANGED <<phase, files, jobs, process, status, waiter, reaper, poll,
                   crashes>>

\* Wrong: leaves the inventory and the secrets behind.
CancelUnlinksOutput(j) ==
    /\ cancel[j] = "unlinking"
    /\ files' = [files EXCEPT ![j] = @ \ {"output"}]
    /\ cancel' = [cancel EXCEPT ![j] = "end"]
    /\ UNCHANGED <<phase, jobs, process, fields, waiter, reaper, poll, crashes>>

CancelUnlinks(j) ==
    /\ cancel[j] = "unlinking"
    /\ files' = [files EXCEPT ![j] = {}]
    /\ cancel' = [cancel EXCEPT ![j] = "end"]
    /\ UNCHANGED <<phase, jobs, process, fields, waiter, reaper, poll, crashes>>

-----------------------------------------------------------------------------
\* GET /run/{id}/output.

PollLooks(c, j, offset) ==
    /\ poll[c].pc = "idle" /\ LockFree
    /\ phase[j] = "answered"
    /\ poll' = [poll EXCEPT ![c] =
          IF j \in jobs
          THEN Unanswered("looked", j, offset, TextEnd(j, offset))
          ELSE Unanswered("gone", j, 0, 0)]
    /\ UNCHANGED <<phase, files, jobs, process, fields, threads, crashes>>

\* The text from the offset on; none when the file has been unlinked.
PollReads(c) ==
    LET j == poll[c].job IN
    /\ poll[c].pc = "looked"
    /\ poll' = [poll EXCEPT ![c].pc = "read",
                            ![c].to = IF "output" \in files[j]
                                      THEN TextEnd(j, poll[c].from)
                                      ELSE poll[c].from]
    /\ UNCHANGED <<phase, files, jobs, process, fields, threads, crashes>>

\* job.status, then job.exit_code, which nobody looks at before it is done.
PollReadsStatus(c) ==
    /\ poll[c].pc = "read"
    /\ poll' = [poll EXCEPT ![c].pc =
                   IF status[poll[c].job] = "done" THEN "done" ELSE "found"]
    /\ UNCHANGED <<phase, files, jobs, process, fields, threads, crashes>>

\* Wrong: `exit_code or 0`.
PollReadsCodeOrZero(c) ==
    /\ poll[c].pc = "done"
    /\ poll' = [poll EXCEPT ![c].pc = "found", ![c].done = TRUE,
                            ![c].code = IF exit[poll[c].job] = None THEN "ok"
                                        ELSE exit[poll[c].job]]
    /\ UNCHANGED <<phase, files, jobs, process, fields, threads, crashes>>

PollReadsCode(c) ==
    /\ poll[c].pc = "done"
    /\ poll' = [poll EXCEPT ![c].pc = "found", ![c].done = TRUE,
                            ![c].code = exit[poll[c].job]]
    /\ UNCHANGED <<phase, files, jobs, process, fields, threads, crashes>>

\* The client's timeout, or a connection that fails before or after this.
PollLost(c) ==
    /\ poll[c].pc \in {"idle", "looked", "read", "done"}
    /\ poll' = [poll EXCEPT ![c] = LostPoll]
    /\ UNCHANGED <<phase, files, jobs, process, fields, threads, crashes>>

PollEnds(c) ==
    /\ poll[c].pc # "idle"
    /\ poll' = [poll EXCEPT ![c] = NoPoll]
    /\ UNCHANGED <<phase, files, jobs, process, fields, threads, crashes>>

-----------------------------------------------------------------------------
\* The container dies: uvicorn is its first process, so ansible-playbook
\* dies with it.  _jobs and every thread are gone; the files of /tmp are not.
Crash ==
    /\ crashes < MaxCrashes
    /\ crashes' = crashes + 1
    /\ phase' = [j \in Jobs |-> IF phase[j] \in {"none", "answered", "refused"}
                                THEN phase[j] ELSE "lost"]
    /\ jobs' = {}
    /\ proc' = [j \in Jobs |-> IF proc[j] = "alive" THEN "killed" ELSE proc[j]]
    /\ waiter' = [j \in Jobs |-> IF waiter[j] = "done" THEN "done" ELSE "none"]
    /\ reaper' = [j \in Jobs |-> "none"]
    /\ cancel' = [j \in Jobs |-> "none"]
    /\ poll' = [c \in Clients |->
                   IF poll[c].pc \in {"looked", "read", "done"}
                   THEN LostPoll ELSE poll[c]]
    /\ UNCHANGED <<files, out, signalled, fields>>

StartStep(j) ==
    \/ StartRun(j) \/ WriteTemp(j) \/ WriteTempFails(j) \/ CheckCcache(j)
    \/ OpenOutput(j) \/ Popen(j) \/ PopenFails(j) \/ Register(j)

ThreadStep(j) ==
    \/ WaiterCodes(j) \/ WaiterFlags(j) \/ ReaperPops(j) \/ ReaperUnlinks(j)
    \/ CancelTerminates(j) \/ CancelCodes(j) \/ CancelUnlinks(j)

PollStep(c) ==
    \/ \E j \in Jobs, offset \in 0 .. MaxOut : PollLooks(c, j, offset)
    \/ PollReads(c) \/ PollReadsStatus(c) \/ PollReadsCode(c)
    \/ PollLost(c) \/ PollEnds(c)

Next ==
    \/ \E j \in Jobs : \/ StartStep(j) \/ Emit(j) \/ Exit(j)
                       \/ ThreadStep(j) \/ CancelPops(j)
    \/ \E c \in Clients : PollStep(c)
    \/ Crash

Spec == Init /\ [][Next]_vars

\* Threads are scheduled, and a process that was sent SIGTERM ends; nothing
\* makes a playbook end by itself, and nobody has to cancel.
FairSpec ==
    /\ Spec
    /\ \A j \in Jobs : /\ WF_vars(ThreadStep(j))
                       /\ WF_vars(j \in signalled /\ Exit(j))
                       /\ WF_vars(Register(j))

-----------------------------------------------------------------------------
\* What the threads preserve.

\* A job that can still be looked up never shows an exit code other than its
\* process's: the -1 of a cancellation and the window between the waiter's
\* two unlocked-readable assignments (main.py:98-101, 319-320) stay hidden.
FieldsTruthful ==
    \A j \in jobs : status[j] = "done" => exit[j] = proc[j]

\* No thread unlinks the output of a job that can still be looked up: the
\* reaper and the cancellation both take the job out of _jobs first
\* (main.py:118-123, 309-322).
RegisteredHasOutput ==
    \A j \in jobs : "output" \in files[j]

\* A playbook that runs is known to _jobs, about to be, or being stopped:
\* no interleaving of POST, DELETE and the cleanup loses a live process.
NoRunawayProcess ==
    \A j \in Jobs : proc[j] = "alive" =>
        \/ j \in jobs
        \/ phase[j] = "register"
        \/ cancel[j] = "popped"
        \/ j \in signalled

\* "Stream accumulated stdout/stderr" (main.py:11): the reply that tells the
\* client to stop polling carries everything the process wrote.  Not true of
\* the code, and checked by no run: get_output reads the file before it reads
\* job.status.
DoneReplyIsComplete ==
    \A c \in Clients : poll[c].pc = "found" /\ poll[c].done /\ poll[c].job \in jobs
                          => poll[c].to = TextEnd(poll[c].job, poll[c].from)

\* Once a job's process has ended its inventory, password and output files
\* go away, whichever of the reaper and a cancellation gets to them, unless
\* the container dies first (main.py:106-123, 322).
FilesRemoved ==
    \A j \in Jobs : (phase[j] = "answered" /\ proc[j] \in ExitCodes)
                        ~> (files[j] = {} \/ crashes > 0)

\* A DELETE that found the job stops its process (main.py:314-318).
CancelStops ==
    \A j \in Jobs : (cancel[j] = "popped") ~> (proc[j] # "alive")

\* The threads together are what clients rely on: every step is a step of
\* the contract or invisible to it.
entryOf(j) == IF j \in jobs THEN "in"
              ELSE IF phase[j] = "answered" THEN "out"
              ELSE IF phase[j] = "lost" /\ proc[j] # "absent" THEN "out"
              ELSE "unnamed"

pollOf(c) ==
    LET p == poll[c]
        open == p.pc \in {"looked", "read", "done"}
    IN [pc |-> IF open THEN "looked" ELSE p.pc, job |-> p.job, from |-> p.from,
        to |-> IF open THEN p.seen ELSE p.to,
        done |-> p.done, code |-> p.code]

Contract == INSTANCE RunnerContract WITH
    entry <- [j \in Jobs |-> entryOf(j)],
    recorded <- {j \in Jobs : waiter[j] = "done"},
    poll <- [c \in Clients |-> pollOf(c)]

ImplementsContract == Contract!ContractSpec

-----------------------------------------------------------------------------
\* What the steps preserve together, from which the properties above follow.

\* Of a job: how the phase of its request, its process, its entry in _jobs
\* and the threads that own it hang together.
JobInv(j) ==
    /\ phase[j] # "answered" =>
          /\ j \notin jobs
          /\ waiter[j] = "none" /\ reaper[j] = "none" /\ cancel[j] = "none"
          /\ status[j] = "running"
    /\ proc[j] # "absent" => phase[j] \in {"register", "answered", "lost"}
    /\ phase[j] \in {"register", "answered"} => proc[j] # "absent"
    /\ phase[j] = "lost" => proc[j] # "alive"
    /\ phase[j] = "register" => proc[j] # "killed"
    /\ phase[j] \in {"popen", "register"} => "output" \in files[j]
    /\ waiter[j] \in {"coded", "done"} => proc[j] \in ExitCodes
    /\ waiter[j] = "done" => status[j] = "done"
    /\ reaper[j] # "none" => waiter[j] = "done"
    /\ proc[j] = "alive" =>
          /\ status[j] = "done" => j \in signalled
          /\ phase[j] = "answered" =>
                j \in jobs \/ cancel[j] = "popped" \/ j \in signalled
    /\ exit[j] = "ok" => proc[j] = "ok"
    /\ j \in jobs =>
          /\ "output" \in files[j]
          /\ cancel[j] = "none" /\ reaper[j] \in {"none", "asleep"}
          /\ waiter[j] \in {"coded", "done"} => exit[j] = proc[j]
          /\ status[j] = "done" => waiter[j] = "done"
          /\ proc[j] # "killed"

\* Of a poll in progress: the text it has read is what the contract lets a
\* reply carry, and it cannot see its job registered again.
PollInv(c) ==
    LET p == poll[c] IN
    /\ p.pc \in {"looked", "read", "done"} =>
          /\ p.job \in Jobs /\ phase[p.job] = "answered"
          /\ p.seen <= TextEnd(p.job, p.from)
          /\ p.done = FALSE /\ p.code = None
    /\ p.pc \in {"read", "done"} =>
          \/ p.seen <= p.to /\ p.to <= TextEnd(p.job, p.from)
          \/ p.to = p.from /\ p.job \notin jobs
    /\ p.pc = "done" => status[p.job] = "done"

IInv ==
    /\ TypeOK
    /\ \A j \in Jobs : JobInv(j)
    /\ \A c \in Clients : PollInv(c)
=============================================================================
