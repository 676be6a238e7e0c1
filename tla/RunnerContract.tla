--------------------------- MODULE RunnerContract ---------------------------
(***************************************************************************)
(* What the ansible-runner sidecar (src/ansible-runner/main.py) promises   *)
(* the backend that polls it, with the sidecar's threads and files         *)
(* abstracted away.  A job is an ansible-playbook process; it is known to  *)
(* clients while it is in the dictionary `_jobs`.  A client polls a job's  *)
(* output: the sidecar looks the job up under its lock, and later, without *)
(* the lock, reads the output file and the job's fields and replies.       *)
(* Module AnsibleRunner implements this contract; module PlaybookRuns is   *)
(* the backend composed with it.                                           *)
(***************************************************************************)
EXTENDS Naturals

CONSTANTS
    Jobs,     \* job ids the sidecar may draw (uuid4, never drawn twice)
    Clients,  \* the pollers of the sidecar: each has at most one poll open
    MaxOut,   \* bound: the number of pieces of output a process may write
    None      \* no job, no exit code

ASSUME ContractAssumption == MaxOut \in Nat /\ None \notin Jobs

VARIABLES
    entry,     \* each job's entry in _jobs: not yet made, present, removed
    proc,      \* each job's process: not started, alive, exited, killed
    out,       \* how many pieces each process has written to its file
    recorded,  \* jobs whose exit the waiter thread has recorded (`done`)
    poll       \* the open poll of each client

contractVars == <<entry, proc, out, recorded, poll>>

registered == {j \in Jobs : entry[j] = "in"}

\* "ok": exited with code 0; "bad": with another code; "killed": died with
\* the container, its code never read.
ProcState == {"absent", "alive", "ok", "bad", "killed"}
ExitCodes == {"ok", "bad"}

\* Where a text that was asked for from an offset on ends.  A client may ask for
\* more than the file holds: the text is empty then.
TextEnd(j, from) == IF from <= out[j] THEN out[j] ELSE from

\* A poll that was not answered with a job's fields.
Unanswered(pc, j, from, to) ==
    [pc |-> pc, job |-> j, from |-> from, to |-> to, done |-> FALSE, code |-> None]

NoPoll == Unanswered("idle", None, 0, 0)
LostPoll == Unanswered("error", None, 0, 0)

Polls == [pc : {"idle", "looked", "found", "gone", "error"},
          job : Jobs \cup {None}, from : 0 .. MaxOut, to : 0 .. MaxOut,
          done : BOOLEAN, code : ExitCodes \cup {None}]

ContractTypeOK ==
    /\ entry \in [Jobs -> {"unnamed", "in", "out"}]
    /\ proc \in [Jobs -> ProcState]
    /\ out \in [Jobs -> 0 .. MaxOut]
    /\ recorded \subseteq Jobs
    /\ poll \in [Clients -> Polls]

ContractInit ==
    /\ entry = [j \in Jobs |-> "unnamed"]
    /\ proc = [j \in Jobs |-> "absent"]
    /\ out = [j \in Jobs |-> 0]
    /\ recorded = {}
    /\ poll = [c \in Clients |-> NoPoll]

-----------------------------------------------------------------------------
\* The life of a job.

\* POST /run reaches Popen: the process runs before anyone can name it.
Launch(j) ==
    /\ proc[j] = "absent"
    /\ proc' = [proc EXCEPT ![j] = "alive"]
    /\ UNCHANGED <<entry, out, recorded, poll>>

\* POST /run puts the job into _jobs and answers with its id.
Register(j) ==
    /\ proc[j] \in {"alive", "ok", "bad"}
    /\ entry[j] = "unnamed"
    /\ entry' = [entry EXCEPT ![j] = "in"]
    /\ UNCHANGED <<proc, out, recorded, poll>>

\* The process writes one more piece of output.
Emit(j) ==
    /\ proc[j] = "alive"
    /\ out[j] < MaxOut
    /\ out' = [out EXCEPT ![j] = @ + 1]
    /\ UNCHANGED <<entry, proc, recorded, poll>>

\* The process ends by itself, or on the SIGTERM of a cancellation.
Exit(j) ==
    /\ proc[j] = "alive"
    /\ \E c \in ExitCodes : proc' = [proc EXCEPT ![j] = c]
    /\ UNCHANGED <<entry, out, recorded, poll>>

\* The waiter thread stores the return code and flags the job done.
Record(j) ==
    /\ proc[j] \in ExitCodes
    /\ entry[j] # "unnamed"
    /\ j \notin recorded
    /\ recorded' = recorded \cup {j}
    /\ UNCHANGED <<entry, proc, out, poll>>

\* DELETE /run/{id}, or the retention time of a done job: it leaves _jobs.
Withdraw(j) ==
    /\ j \in registered
    /\ entry' = [entry EXCEPT ![j] = "out"]
    /\ UNCHANGED <<proc, out, recorded, poll>>

-----------------------------------------------------------------------------
\* A poll of a job's output.

\* Wrong: a job that is done is answered with 404 as well.
LookupLive(c, j, offset) ==
    /\ poll[c].pc = "idle"
    /\ entry[j] # "unnamed"
    /\ poll' = [poll EXCEPT ![c] =
          IF j \in registered \ recorded
          THEN Unanswered("looked", j, offset, TextEnd(j, offset))
          ELSE Unanswered("gone", j, 0, 0)]
    /\ UNCHANGED <<entry, proc, out, recorded>>

\* The lookup under the lock: 404 at once, or a handle with which the rest
\* of the handler goes on.  What is written by now will be in the reply.
\* Nobody asks for an id that POST /run has not answered.
Lookup(c, j, offset) ==
    /\ poll[c].pc = "idle"
    /\ entry[j] # "unnamed"
    /\ poll' = [poll EXCEPT ![c] =
          IF j \in registered
          THEN Unanswered("looked", j, offset, TextEnd(j, offset))
          ELSE Unanswered("gone", j, 0, 0)]
    /\ UNCHANGED <<entry, proc, out, recorded>>

\* What a reply carries: how far its text goes, whether the job is done, and
\* with which code.
Replied(p, to, done, code) ==
    [pc |-> "found", job |-> p.job, from |-> p.from, to |-> to,
     done |-> done, code |-> code]

\* While the job is registered its fields are what the waiter recorded.  A
\* handle that outlives the registration may find the fields as a
\* cancellation leaves them; even so they never show code 0 for a process
\* that did not exit with 0.
FieldsFit(j, done, code) ==
    /\ code = "ok" => proc[j] = "ok"
    /\ done = FALSE => code = None
    /\ j \in registered =>
          /\ done = TRUE <=> j \in recorded
          /\ done = TRUE => code = proc[j]

\* The text was read before the fields, so it may be shorter than what the
\* file holds when `done` is read; a job that is no longer registered may
\* have lost its file.
ReplyWith(c, to, done, code) ==
    LET j == poll[c].job IN
    /\ poll[c].pc = "looked"
    /\ \/ poll[c].to <= to /\ to <= TextEnd(j, poll[c].from)
       \/ to = poll[c].from /\ j \notin registered
    /\ FieldsFit(j, done, code)
    /\ poll' = [poll EXCEPT ![c] = Replied(poll[c], to, done, code)]
    /\ UNCHANGED <<entry, proc, out, recorded>>

Reply(c) ==
    \E to \in 0 .. MaxOut, done \in BOOLEAN, code \in ExitCodes \cup {None} :
        ReplyWith(c, to, done, code)

\* The request or its reply is lost, or the client's timeout passes first.
Lose(c) ==
    /\ poll[c].pc \in {"idle", "looked"}
    /\ poll' = [poll EXCEPT ![c] = LostPoll]
    /\ UNCHANGED <<entry, proc, out, recorded>>

\* The client has read the reply, or has gone away.
Hangup(c) ==
    /\ poll[c].pc # "idle"
    /\ poll' = [poll EXCEPT ![c] = NoPoll]
    /\ UNCHANGED <<entry, proc, out, recorded>>

\* The process that all the clients are part of has died.
HangupAll ==
    /\ poll' = [c \in Clients |-> NoPoll]
    /\ UNCHANGED <<entry, proc, out, recorded>>

\* The container dies with every process in it, and restarts with an empty
\* registry; open polls see their connection reset.
Crash ==
    /\ entry' = [j \in Jobs |-> IF proc[j] = "absent" THEN "unnamed" ELSE "out"]
    /\ proc' = [j \in Jobs |-> IF proc[j] = "alive" THEN "killed" ELSE proc[j]]
    /\ poll' = [c \in Clients |-> IF poll[c].pc = "looked"
                                  THEN LostPoll ELSE poll[c]]
    /\ UNCHANGED <<out, recorded>>

ContractNext ==
    \/ \E j \in Jobs : \/ Launch(j) \/ Register(j) \/ Emit(j)
                       \/ Exit(j) \/ Record(j) \/ Withdraw(j)
    \/ \E c \in Clients : \/ \E j \in Jobs, o \in 0 .. MaxOut : Lookup(c, j, o)
                          \/ Reply(c) \/ Lose(c) \/ Hangup(c)
    \/ HangupAll
    \/ Crash

ContractSpec == ContractInit /\ [][ContractNext]_contractVars

-----------------------------------------------------------------------------
\* What a client may rely on.

\* 404 is final: a client told that a job is gone never finds it again.  The
\* backend's recovery declares a run dead on one 404.
GoneIsFinal ==
    [][\A c \in Clients : poll[c].pc = "gone" /\ poll[c].job # None
                             => entry'[poll[c].job] # "in"]_contractVars

-----------------------------------------------------------------------------
\* What the steps preserve together, from which the promises follow.

\* Only a process that was started has a name, only one that has ended is
\* recorded.
JobFacts(j) ==
    /\ entry[j] # "unnamed" => proc[j] # "absent"
    /\ j \in recorded => proc[j] \in ExitCodes

\* An open poll is about a named job; what it was told stays true.
PollFacts(c) ==
    LET p == poll[c] IN
    /\ p.pc \in {"looked", "found", "gone"} =>
          p.job \in Jobs /\ entry[p.job] # "unnamed"
    /\ p.pc = "gone" => entry[p.job] = "out"
    /\ p.pc = "found" =>
          /\ p.code = "ok" => proc[p.job] = "ok"
          /\ p.done /\ p.job \in registered =>
                p.code = proc[p.job] /\ p.code \in ExitCodes

ContractInv ==
    /\ ContractTypeOK
    /\ \A j \in Jobs : JobFacts(j)
    /\ \A c \in Clients : PollFacts(c)
=============================================================================
