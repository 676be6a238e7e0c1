----------------------------- MODULE PlaybookRuns -----------------------------
(***************************************************************************)
(* Automation runs in the backend: the row of `playbook_runs` and all that *)
(* reads and writes it.                                                    *)
(*                                                                         *)
(*   execute_run   one coroutine per run (services/playbook_execution.py), *)
(*                 on the event loop when a request started it, in a       *)
(*                 scheduler thread when a schedule did                    *)
(*   viewers       GET /{id}/stream: coroutines on the event loop, which   *)
(*                 write to the row what they stream                       *)
(*   checkers      GET / and GET /{id}: threads that declare dead a run    *)
(*                 which did not start, or whose job the sidecar lost      *)
(*   cancel        DELETE /{id}: a coroutine on the event loop             *)
(*                                                                         *)
(* They share nothing but the row, each with a database session of its     *)
(* own, and the sidecar, which is the contract this module extends.  A     *)
(* coroutine gives way where it awaits.  A block that only reads a row,    *)
(* changes it and commits is one step; a checker's load and commit are     *)
(* two, because a list request probes the sidecar for other runs between.  *)
(***************************************************************************)
EXTENDS RunnerContract, Sequences

CONSTANTS
    Runs,      \* rows of playbook_runs, and their execute_run coroutines
    Viewers,   \* GET /{id}/stream requests, each made at most once
    Checkers,  \* list and get requests in progress
    MaxFaults  \* bound: crashes and lost requests, all taken together

ASSUME ClientsAssumption == Clients = Runs \cup Viewers \cup Checkers
ASSUME BoundsAssumption == MaxFaults \in Nat
ASSUME DisjointAssumption ==
    /\ Runs \cap Viewers = {} /\ Runs \cap Checkers = {}
    /\ Viewers \cap Checkers = {} /\ None \notin Runs

VARIABLES
    row,     \* each run's row; status "absent" before it is inserted
    aged,    \* the runs created at least 15 seconds ago
    home,    \* where each run's execute_run runs: event loop or thread
    exec,    \* how far execute_run has come
    post,    \* its POST /run, which outlives the client's patience
    owner,   \* the run whose POST made the sidecar start a job
    cancel,  \* the DELETE request on each run, if one is in progress
    viewer,  \* each viewer: waiting for a job id, or streaming
    checker, \* each checker: the row it loaded, and its verdict
    offset,  \* how far each stream_output generator has read
    notified, \* runs for which playbook_run_failed was dispatched
    faults

backendVars == <<row, aged, home, exec, post, owner, cancel, viewer, checker,
                 offset, notified, faults>>
vars == <<contractVars, backendVars>>

Active == {"pending", "running"}
Terminal == {"success", "failed", "cancelled"}

\* A row's output is the pieces appended to it, by number; 0 is what the
\* playbook did not print: a message of the backend's own, such as "Failed to
\* start" or a recovery note, or a character that decoding put in place of one
\* that a reply cut in two.
Row == [status : Active \cup Terminal \cup {"absent"},
        output : Seq(0 .. MaxOut), exit : ExitCodes \cup {None},
        job : Jobs \cup {None}, finished : BOOLEAN]

NewRow == [status |-> "pending", output |-> <<>>, exit |-> None, job |-> None,
           finished |-> FALSE]

NoViewer == [pc |-> "idle", run |-> None]
ClosedViewer == [pc |-> "closed", run |-> None]
NoCheck == [pc |-> "idle", run |-> None, seen |-> NewRow]

TypeOK ==
    /\ ContractTypeOK
    /\ row \in [Runs -> Row]
    /\ aged \subseteq Runs
    /\ home \in [Runs -> {"loop", "thread"}]
    /\ exec \in [Runs -> {"none", "queued", "prep", "posting", "stream",
                          "finishing", "end", "dead"}]
    /\ post \in [Runs -> {"none", "sent", "taken", "answered", "refused"}]
    /\ owner \in [Jobs -> Runs \cup {None}]
    /\ cancel \in [Runs -> {"idle", "sent", "ready"}]
    /\ viewer \in [Viewers -> [pc : {"idle", "wait", "stream", "closed"},
                               run : Runs \cup {None}]]
    /\ checker \in [Checkers -> [pc : {"idle", "probe", "marked"},
                                 run : Runs \cup {None}, seen : Row]]
    /\ offset \in [Clients -> 0 .. MaxOut]
    /\ notified \subseteq Runs
    /\ faults \in 0 .. MaxFaults

Init ==
    /\ ContractInit
    /\ row = [r \in Runs |-> [NewRow EXCEPT !.status = "absent"]]
    /\ aged = {}
    /\ home \in [Runs -> {"loop", "thread"}]
    /\ exec = [r \in Runs |-> "none"]
    /\ post = [r \in Runs |-> "none"]
    /\ owner = [j \in Jobs |-> None]
    /\ cancel = [r \in Runs |-> "idle"]
    /\ viewer = [v \in Viewers |-> NoViewer]
    /\ checker = [k \in Checkers |-> NoCheck]
    /\ offset = [c \in Clients |-> 0]
    /\ notified = {}
    /\ faults = 0

\* What the code writes to a row.
MarkFailed(r) == [r EXCEPT !.status = "failed", !.finished = TRUE,
                           !.output = Append(@, 0)]

\* Wrong: no exit code counts as 0.
FinishFalsy(r, code) == [r EXCEPT !.status = IF code = "bad" THEN "failed"
                                                             ELSE "success",
                                  !.exit = code, !.finished = TRUE]

Finish(r, code) == [r EXCEPT !.status = IF code = "ok" THEN "success"
                                                       ELSE "failed",
                             !.exit = code, !.finished = TRUE]

\* Wrong: not the spelling of the other states.
Canceled(r) == [r EXCEPT !.status = "canceled", !.finished = TRUE]

Cancelled(r) == [r EXCEPT !.status = "cancelled", !.finished = TRUE]

\* Wrong: all the text, whatever the offset.
WholeText(p) == [i \in 1 .. p.to |-> i]

\* The pieces that a reply carries, in order.
Chunk(p) == [i \in 1 .. (p.to - p.from) |-> p.from + i]

\* A row with the text of a reply appended.  If the text begins or ends within
\* a character there is a replacement in it: the sidecar decodes what it reads
\* of the file with errors="replace".
Extended(r, p, replaced) ==
    [r EXCEPT !.output = IF replaced THEN Append(@ \o Chunk(p), 0)
                                     ELSE @ \o Chunk(p)]

\* Where the next text begins: the reader counts the bytes of the text, encoded
\* again.  A replacement has three and stands for one to three of the file, so
\* the count may pass some of what follows and never falls back.
Passed(p, replaced) == IF replaced THEN {o \in p.to .. MaxOut : o > p.from}
                                   ELSE {p.to}

\* Wrong: every completion is taken for a failure.
NotifiesAll(p) == p.done

\* The final reply that makes execute_run dispatch playbook_run_failed.
Notifies(p) == p.code # "ok"

\* Wrong: a probe that failed is a verdict.
CondemnsOnError(p) == p.pc \in {"gone", "error"}

\* Wrong: a 404 is no verdict.
CondemnsNever(p) == FALSE

\* What sidecar_job_exists_sync makes of a probe: only 404 says that the job
\* is gone.
Condemns(p) == p.pc = "gone"

\* execute_run prepares a run, git sync and all, without awaiting, and goes on
\* from a last chunk to the end of the run so: on the event loop it keeps
\* every other coroutine waiting meanwhile, in a thread it does not.
LoopFree == \A r \in Runs :
    ~(exec[r] \in {"prep", "finishing"} /\ home[r] = "loop")
MayRun(r) == home[r] = "thread" \/ LoopFree

-----------------------------------------------------------------------------
\* execute_run.

\* POST /playbook-runs/, a job template's launch, or a schedule.
CreateRun(r) ==
    /\ row[r].status = "absent" /\ MayRun(r)
    /\ row' = [row EXCEPT ![r] = NewRow]
    /\ exec' = [exec EXCEPT ![r] = "queued"]
    /\ UNCHANGED <<contractVars, aged, home, post, owner, cancel, viewer,
                   checker, offset, notified, faults>>

\* The 15 seconds of _RUN_START_TIMEOUT_SECONDS have passed.
Age(r) ==
    /\ row[r].status # "absent" /\ r \notin aged
    /\ aged' = aged \cup {r}
    /\ UNCHANGED <<contractVars, row, home, exec, post, owner, cancel, viewer,
                   checker, offset, notified, faults>>

ExecBegins(r) ==
    /\ exec[r] = "queued" /\ MayRun(r)
    /\ exec' = [exec EXCEPT ![r] = "prep"]
    /\ UNCHANGED <<contractVars, row, aged, home, post, owner, cancel, viewer,
                   checker, offset, notified, faults>>

\* No repository, no runtime secrets, or two vault passwords: a message in
\* place of the output.  Any other exception: a message after it.
ExecFailsInPrep(r) ==
    /\ exec[r] = "prep"
    /\ row' = [row EXCEPT ![r].status = "failed", ![r].finished = TRUE,
                          ![r].output = <<0>>]
       \/ row' = [row EXCEPT ![r] = MarkFailed(@)]
    /\ exec' = [exec EXCEPT ![r] = "end"]
    /\ UNCHANGED <<contractVars, aged, home, post, owner, cancel, viewer,
                   checker, offset, notified, faults>>

\* Whatever the row says by now, it says `running`; then POST /run.
ExecPosts(r) ==
    /\ exec[r] = "prep"
    /\ row' = [row EXCEPT ![r].status = "running"]
    /\ exec' = [exec EXCEPT ![r] = "posting"]
    /\ post' = [post EXCEPT ![r] = "sent"]
    /\ UNCHANGED <<contractVars, aged, home, owner, cancel, viewer, checker,
                   offset, notified, faults>>

\* Wrong: posts again.
ExecPostsAgain(r) ==
    /\ exec[r] = "posting" /\ post[r] = "refused" /\ MayRun(r)
    /\ post' = [post EXCEPT ![r] = "sent"]
    /\ UNCHANGED <<contractVars, row, aged, home, exec, owner, cancel, viewer,
                   checker, offset, notified, faults>>

ExecFailsToStart(r) ==
    /\ exec[r] = "posting" /\ post[r] = "refused" /\ MayRun(r)
    /\ row' = [row EXCEPT ![r] = MarkFailed(@)]
    /\ exec' = [exec EXCEPT ![r] = "end"]
    /\ UNCHANGED <<contractVars, aged, home, post, owner, cancel, viewer,
                   checker, offset, notified, faults>>

\* 30 seconds without an answer, or a broken connection: for execute_run the
\* same, but the sidecar may still be at work on the request.
ExecTimesOut(r) ==
    /\ exec[r] = "posting" /\ MayRun(r)
    /\ faults < MaxFaults
    /\ faults' = faults + 1
    /\ row' = [row EXCEPT ![r] = MarkFailed(@)]
    /\ exec' = [exec EXCEPT ![r] = "end"]
    /\ UNCHANGED <<contractVars, aged, home, post, owner, cancel, viewer,
                   checker, offset, notified>>

ExecStoresJob(r) ==
    /\ exec[r] = "posting" /\ post[r] = "answered" /\ MayRun(r)
    /\ \E j \in Jobs : /\ owner[j] = r /\ entry[j] # "unnamed"
                       /\ row' = [row EXCEPT ![r].job = j]
    /\ exec' = [exec EXCEPT ![r] = "stream"]
    /\ UNCHANGED <<contractVars, aged, home, post, owner, cancel, viewer,
                   checker, offset, notified, faults>>

ExecPolls(r) ==
    /\ exec[r] = "stream" /\ MayRun(r)
    /\ Lookup(r, row[r].job, offset[r])
    /\ UNCHANGED backendVars

\* A reply: its text is appended.  When it also says done the coroutine goes
\* on without awaiting, but in a second transaction.
ExecReads(r) ==
    LET p == poll[r] IN
    /\ exec[r] = "stream" /\ p.pc = "found" /\ MayRun(r)
    /\ \E replaced \in BOOLEAN : \E o \in Passed(p, replaced) :
          /\ row' = [row EXCEPT ![r] = Extended(@, p, replaced)]
          /\ offset' = [offset EXCEPT ![r] = o]
    /\ exec' = [exec EXCEPT ![r] = IF p.done THEN "finishing" ELSE @]
    /\ IF p.done THEN UNCHANGED contractVars ELSE Hangup(r)
    /\ UNCHANGED <<aged, home, post, owner, cancel, viewer, checker, notified,
                   faults>>

\* The run ends with the exit code.  Only here is a failure notified.
ExecFinishes(r) ==
    LET p == poll[r] IN
    /\ exec[r] = "finishing"
    /\ row' = [row EXCEPT ![r] = Finish(@, p.code)]
    /\ exec' = [exec EXCEPT ![r] = "end"]
    /\ notified' = IF Notifies(p) THEN notified \cup {r} ELSE notified
    /\ Hangup(r)
    /\ UNCHANGED <<aged, home, post, owner, cancel, viewer, checker, offset,
                   faults>>

\* 404: the generator's "orphaned" event, for which execute_run has no branch.
ExecOrphaned(r) ==
    /\ exec[r] = "stream" /\ poll[r].pc = "gone" /\ MayRun(r)
    /\ exec' = [exec EXCEPT ![r] = "end"]
    /\ Hangup(r)
    /\ UNCHANGED <<row, aged, home, post, owner, cancel, viewer, checker,
                   offset, notified, faults>>

\* Any other failure is logged and polled again, for ever.
ExecRetries(r) ==
    /\ exec[r] = "stream" /\ poll[r].pc = "error" /\ MayRun(r)
    /\ Hangup(r)
    /\ UNCHANGED backendVars

-----------------------------------------------------------------------------
\* GET /{id}/stream.  A finished run is replayed and nothing is written, so
\* only the streams of other runs are viewers here.

ViewerOpens(v, r) ==
    /\ viewer[v].pc = "idle" /\ row[r].status \in Active /\ LoopFree
    /\ viewer' = [viewer EXCEPT ![v] =
          [pc |-> IF row[r].job = None THEN "wait" ELSE "stream", run |-> r]]
    /\ offset' = [offset EXCEPT ![v] = 0]
    /\ UNCHANGED <<contractVars, row, aged, home, exec, post, owner, cancel,
                   checker, notified, faults>>

\* One of the 20 looks at the row finds a job id.
ViewerFindsJob(v) ==
    /\ viewer[v].pc = "wait" /\ row[viewer[v].run].job # None /\ LoopFree
    /\ viewer' = [viewer EXCEPT ![v].pc = "stream"]
    /\ UNCHANGED <<contractVars, row, aged, home, exec, post, owner, cancel,
                   checker, offset, notified, faults>>

\* The last of them does not: the viewer declares the run dead, even if its
\* job id has just come.
ViewerGivesUp(v) ==
    LET r == viewer[v].run IN
    /\ viewer[v].pc = "wait" /\ row[r].status \in Active /\ LoopFree
    /\ row' = [row EXCEPT ![r] = MarkFailed(@)]
    /\ viewer' = [viewer EXCEPT ![v] = ClosedViewer]
    /\ UNCHANGED <<contractVars, aged, home, exec, post, owner, cancel,
                   checker, offset, notified, faults>>

\* The browser closes the stream, or a waiting viewer finds the run finished.
ViewerLeaves(v) ==
    /\ viewer[v].pc \in {"wait", "stream"} /\ LoopFree
    /\ viewer' = [viewer EXCEPT ![v] = ClosedViewer]
    /\ IF poll[v].pc = "idle" THEN UNCHANGED contractVars ELSE Hangup(v)
    /\ UNCHANGED <<row, aged, home, exec, post, owner, cancel, checker, offset,
                   notified, faults>>

ViewerPolls(v) ==
    /\ viewer[v].pc = "stream" /\ LoopFree
    /\ Lookup(v, row[viewer[v].run].job, offset[v])
    /\ UNCHANGED backendVars

\* Text: it goes to the browser, then to the row.  Sending it awaits, so the
\* "done" of the same reply is a step of its own.
ViewerReads(v) ==
    LET p == poll[v] IN
    /\ viewer[v].pc = "stream" /\ p.pc = "found" /\ LoopFree
    /\ p.from = offset[v]
    /\ \E replaced \in BOOLEAN : \E o \in Passed(p, replaced) :
          /\ replaced \/ p.to > p.from
          /\ row' = [row EXCEPT ![viewer[v].run] = Extended(@, p, replaced)]
          /\ offset' = [offset EXCEPT ![v] = o]
    /\ IF p.done THEN UNCHANGED contractVars ELSE Hangup(v)
    /\ UNCHANGED <<aged, home, exec, post, owner, cancel, viewer, checker,
                   notified, faults>>

ViewerFinishes(v) ==
    LET p == poll[v] IN
    /\ viewer[v].pc = "stream" /\ p.pc = "found" /\ LoopFree
    /\ p.done /\ p.to <= offset[v]
    /\ row' = [row EXCEPT ![viewer[v].run] = Finish(@, p.code)]
    /\ viewer' = [viewer EXCEPT ![v] = ClosedViewer]
    /\ Hangup(v)
    /\ UNCHANGED <<aged, home, exec, post, owner, cancel, checker, offset,
                   notified, faults>>

\* 404: unlike execute_run, a viewer records it.
ViewerOrphaned(v) ==
    LET r == viewer[v].run IN
    /\ viewer[v].pc = "stream" /\ poll[v].pc = "gone" /\ LoopFree
    /\ row' = [row EXCEPT ![r] = IF @.status \in Active THEN MarkFailed(@) ELSE @]
    /\ viewer' = [viewer EXCEPT ![v] = ClosedViewer]
    /\ Hangup(v)
    /\ UNCHANGED <<aged, home, exec, post, owner, cancel, checker, offset,
                   notified, faults>>

\* Nothing new, or an error: the viewer polls again.
ViewerRetries(v) ==
    LET p == poll[v] IN
    /\ viewer[v].pc = "stream" /\ LoopFree
    /\ \/ p.pc = "error"
       \/ p.pc = "found" /\ ~p.done /\ p.to = p.from
    /\ Hangup(v)
    /\ UNCHANGED backendVars

-----------------------------------------------------------------------------
\* GET / and GET /{id}: _recover_run_if_orphaned, in the thread pool.

\* The rows are loaded.  Without a job id the verdict is the run's age; with
\* one, the sidecar is asked.
CheckerLoads(k, r) ==
    /\ checker[k].pc = "idle" /\ row[r].status \in Active
    /\ row[r].job = None => r \in aged
    /\ checker' = [checker EXCEPT ![k] =
          [pc |-> IF row[r].job = None THEN "marked" ELSE "probe",
           run |-> r, seen |-> row[r]]]
    /\ UNCHANGED <<contractVars, row, aged, home, exec, post, owner, cancel,
                   viewer, offset, notified, faults>>

CheckerProbes(k) ==
    /\ checker[k].pc = "probe"
    /\ Lookup(k, checker[k].seen.job, 0)
    /\ UNCHANGED backendVars

\* 404 condemns the run; a reply or a failed probe does not.
CheckerHears(k) ==
    /\ checker[k].pc = "probe" /\ poll[k].pc \in {"found", "gone", "error"}
    /\ checker' = [checker EXCEPT ![k] = IF Condemns(poll[k])
                                         THEN [@ EXCEPT !.pc = "marked"]
                                         ELSE NoCheck]
    /\ Hangup(k)
    /\ UNCHANGED <<row, aged, home, exec, post, owner, cancel, viewer, offset,
                   notified, faults>>

\* The commit writes the columns that differ from the row as it was loaded,
\* whatever the row is by now.
CheckerCommits(k) ==
    LET seen == MarkFailed(checker[k].seen) IN
    /\ checker[k].pc = "marked"
    /\ row' = [row EXCEPT ![checker[k].run].status = seen.status,
                          ![checker[k].run].finished = TRUE,
                          ![checker[k].run].output = seen.output]
    /\ checker' = [checker EXCEPT ![k] = NoCheck]
    /\ UNCHANGED <<contractVars, aged, home, exec, post, owner, cancel, viewer,
                   offset, notified, faults>>

-----------------------------------------------------------------------------
\* DELETE /{id}: nothing to do without a job id, else the sidecar is asked
\* first and the row written when it has answered, or failed to.

CancelPending(r) ==
    /\ cancel[r] = "idle" /\ LoopFree
    /\ row[r].status \in Active /\ row[r].job = None
    /\ row' = [row EXCEPT ![r] = Cancelled(@)]
    /\ UNCHANGED <<contractVars, aged, home, exec, post, owner, cancel, viewer,
                   checker, offset, notified, faults>>

CancelSends(r) ==
    /\ cancel[r] = "idle" /\ LoopFree
    /\ row[r].status \in Active /\ row[r].job # None
    /\ cancel' = [cancel EXCEPT ![r] = "sent"]
    /\ UNCHANGED <<contractVars, row, aged, home, exec, post, owner, viewer,
                   checker, offset, notified, faults>>

\* The sidecar takes the job out, or answers 404: all one to the backend.
CancelArrives(r) ==
    /\ cancel[r] = "sent"
    /\ cancel' = [cancel EXCEPT ![r] = "ready"]
    /\ IF row[r].job \in registered THEN Withdraw(row[r].job)
                                    ELSE UNCHANGED contractVars
    /\ UNCHANGED <<row, aged, home, exec, post, owner, viewer, checker, offset,
                   notified, faults>>

CancelLost(r) ==
    /\ cancel[r] = "sent"
    /\ faults < MaxFaults
    /\ faults' = faults + 1
    /\ cancel' = [cancel EXCEPT ![r] = "ready"]
    /\ UNCHANGED <<contractVars, row, aged, home, exec, post, owner, viewer,
                   checker, offset, notified>>

CancelCommits(r) ==
    /\ cancel[r] = "ready" /\ LoopFree
    /\ row' = [row EXCEPT ![r] = Cancelled(@)]
    /\ cancel' = [cancel EXCEPT ![r] = "idle"]
    /\ UNCHANGED <<contractVars, aged, home, exec, post, owner, viewer,
                   checker, offset, notified, faults>>

-----------------------------------------------------------------------------
\* The sidecar's side, and faults.

SidecarLaunches(r) ==
    /\ post[r] = "sent"
    /\ post' = [post EXCEPT ![r] = "taken"]
    /\ \E j \in Jobs : /\ Launch(j)
                       /\ owner' = [owner EXCEPT ![j] = r]
    /\ UNCHANGED <<row, aged, home, exec, cancel, viewer, checker, offset,
                   notified, faults>>

SidecarAnswers(r) ==
    /\ post[r] = "taken"
    /\ post' = [post EXCEPT ![r] = "answered"]
    /\ \E j \in Jobs : owner[j] = r /\ Register(j)
    /\ UNCHANGED <<row, aged, home, exec, owner, cancel, viewer, checker,
                   offset, notified, faults>>

SidecarRefuses(r) ==
    /\ post[r] = "sent"
    /\ post' = [post EXCEPT ![r] = "refused"]
    /\ UNCHANGED <<contractVars, row, aged, home, exec, owner, cancel, viewer,
                   checker, offset, notified, faults>>

\* The job's own steps; it is forgotten when its retention time is over.
JobRuns(j) ==
    /\ Emit(j) \/ Exit(j) \/ Record(j) \/ (j \in recorded /\ Withdraw(j))
    /\ UNCHANGED backendVars

SidecarReplies(c) == Reply(c) /\ UNCHANGED backendVars

\* A request of an actor that is polling gets lost.
PollFails(c) ==
    /\ poll[c].pc = "looked"
    /\ faults < MaxFaults
    /\ faults' = faults + 1
    /\ Lose(c)
    /\ UNCHANGED <<row, aged, home, exec, post, owner, cancel, viewer, checker,
                   offset, notified>>

SidecarCrashes ==
    /\ faults < MaxFaults
    /\ faults' = faults + 1
    /\ Crash
    /\ post' = [r \in Runs |-> IF post[r] \in {"sent", "taken"} THEN "refused"
                                                                ELSE post[r]]
    /\ UNCHANGED <<row, aged, home, exec, owner, cancel, viewer, checker,
                   offset, notified>>

\* Nothing relaunches the coroutines of a backend that stopped.
BackendCrashes ==
    /\ faults < MaxFaults
    /\ faults' = faults + 1
    /\ exec' = [r \in Runs |-> IF exec[r] \in {"none", "end"} THEN exec[r]
                                                              ELSE "dead"]
    /\ cancel' = [r \in Runs |-> "idle"]
    /\ viewer' = [v \in Viewers |-> IF viewer[v].pc = "idle" THEN NoViewer
                                                           ELSE ClosedViewer]
    /\ checker' = [k \in Checkers |-> NoCheck]
    /\ HangupAll
    /\ UNCHANGED <<row, aged, home, post, owner, offset, notified>>

ExecStep(r) ==
    \/ ExecBegins(r) \/ ExecFailsInPrep(r) \/ ExecPosts(r)
    \/ ExecFailsToStart(r) \/ ExecStoresJob(r) \/ ExecPolls(r)
    \/ ExecReads(r) \/ ExecFinishes(r) \/ ExecOrphaned(r) \/ ExecRetries(r)

ViewerStep(v) ==
    \/ \E r \in Runs : ViewerOpens(v, r)
    \/ ViewerFindsJob(v) \/ ViewerGivesUp(v) \/ ViewerLeaves(v)
    \/ ViewerPolls(v) \/ ViewerReads(v) \/ ViewerFinishes(v)
    \/ ViewerOrphaned(v) \/ ViewerRetries(v)

CheckerStep(k) ==
    \/ \E r \in Runs : CheckerLoads(k, r)
    \/ CheckerProbes(k) \/ CheckerHears(k) \/ CheckerCommits(k)

CancelStep(r) ==
    \/ CancelPending(r) \/ CancelSends(r) \/ CancelArrives(r)
    \/ CancelLost(r) \/ CancelCommits(r)

SidecarStep(r) == SidecarLaunches(r) \/ SidecarAnswers(r) \/ SidecarRefuses(r)

Next ==
    \/ \E r \in Runs : \/ CreateRun(r) \/ Age(r) \/ ExecStep(r)
                       \/ ExecTimesOut(r) \/ CancelStep(r) \/ SidecarStep(r)
    \/ \E v \in Viewers : ViewerStep(v)
    \/ \E k \in Checkers : CheckerStep(k)
    \/ \E j \in Jobs : JobRuns(j)
    \/ \E c \in Clients : SidecarReplies(c) \/ PollFails(c)
    \/ SidecarCrashes
    \/ BackendCrashes

Spec == Init /\ [][Next]_vars

\* Coroutines and sidecar threads are scheduled; requests are answered or
\* time out; a playbook comes to an end, and its job is forgotten after the
\* retention time; and somebody keeps the list of runs open, which asks for
\* it every five seconds (PlaybookRunsPage.tsx:65).
Fairness ==
    /\ \A r \in Runs : /\ WF_vars(ExecStep(r)) /\ WF_vars(SidecarStep(r))
                       /\ WF_vars(Age(r)) /\ WF_vars(CancelArrives(r))
                       /\ WF_vars(CancelCommits(r))
    /\ \A j \in Jobs :
          /\ WF_vars(Exit(j) /\ UNCHANGED backendVars)
          /\ WF_vars(Record(j) /\ UNCHANGED backendVars)
          /\ WF_vars(j \in recorded /\ Withdraw(j) /\ UNCHANGED backendVars)
    /\ \A c \in Clients : WF_vars(SidecarReplies(c))
    /\ \A k \in Checkers : /\ \A r \in Runs : SF_vars(CheckerLoads(k, r))
                           /\ WF_vars(CheckerProbes(k))
                           /\ WF_vars(CheckerHears(k))
                           /\ WF_vars(CheckerCommits(k))

FairSpec == Spec /\ Fairness

-----------------------------------------------------------------------------
\* What holds.

\* A run is shown as a success only if its own playbook exited with code 0:
\* no interleaving of streams, recovery, cancellation, crashes and late
\* replies turns anything else into one (playbook_execution.py:198-207,
\* routers/playbook_runs.py:221-230).
SuccessIsReal ==
    \A r \in Runs : row[r].status = "success" =>
        \E j \in Jobs : owner[j] = r /\ row[r].job = j /\ proc[j] = "ok"

\* However requests are lost and processes crash, a run's playbook is
\* started at most once: no retry repeats the POST (playbook_execution.py:
\* 159-180).
AtMostOneLaunch ==
    \A i, j \in Jobs : owner[i] = owner[j] /\ owner[i] # None => i = j

\* Recovery condemns a run that has a job id only after the sidecar dropped
\* the job for good; a probe that failed is no verdict, and the verdict
\* still holds when it is committed (routers/playbook_runs.py:63-71).
RecoveryOnlyWhenGone ==
    \A k \in Checkers : checker[k].pc = "marked" /\ checker[k].seen.job # None
                            => entry[checker[k].seen.job] = "out"

\* The failure of a run is notified only when its playbook did fail, unless
\* the job was taken off the sidecar meanwhile (playbook_execution.py:
\* 208-215).
NotifiedIsReal ==
    \A r \in notified : /\ row[r].job # None
                        /\ row[r].job \in registered => proc[row[r].job] = "bad"

\* The stored output of a run that nobody watches holds what the playbook wrote
\* in order and each piece at most once, however polls are lost, characters
\* are cut in two and the run is cancelled or recovered; and until a message or
\* a replaced character is mixed in, it is all of it, from the first piece on
\* (playbook_execution.py:191-196, ansible_runner.py:110-112).
IsPrefix(o) == (\A i \in DOMAIN o : o[i] # 0) => \A i \in DOMAIN o : o[i] = i

NothingTwice(o) == \A i, j \in DOMAIN o : i < j /\ o[j] # 0 => o[i] < o[j]

Unwatched == \A v \in Viewers : viewer[v].pc = "idle"

UnwatchedOutputIsPrefix ==
    Unwatched => \A r \in Runs : /\ IsPrefix(row[r].output)
                                 /\ NothingTwice(row[r].output)

\* Every run comes to an end and stays there, whatever crashed: what
\* execute_run leaves behind, recovery finishes.
RunsSettle ==
    \A r \in Runs : <>[](row[r].status \in Terminal \cup {"absent"})

-----------------------------------------------------------------------------
\* What the code's own words promise and the code does not keep.

\* "TASK [restart exporter]\nok: [node1]\n" (tests/test_playbook_runs.py:112):
\* after a stream the row holds the playbook's output, once.  Checked by no run:
\* a viewer and execute_run both append, so it does not hold.
OutputIsPrefix == \A r \in Runs : IsPrefix(row[r].output)

\* "DELETE /playbook-runs/{id} - cancel a running job"
\* (routers/playbook_runs.py:8): the sidecar is not asked any more to start the
\* playbook of a run that is cancelled.
CancelledNeverStarts ==
    [][\A r \in Runs : row[r].status = "cancelled" /\ post[r] = "none"
                           => post'[r] = "none"]_vars

-----------------------------------------------------------------------------
\* What the steps preserve together, from which the invariants above follow.

\* A poll that names a job: on its way, answered, or answered with 404.
Told == {"looked", "found", "gone"}

\* A run and its execute_run: the row has a job id from the moment the
\* coroutine stores it, for good, and that job was started by this run's POST.
RunFacts(r) ==
    /\ row[r].status = "absent" <=> exec[r] = "none"
    /\ cancel[r] # "idle" => row[r].status # "absent"
    /\ exec[r] \in {"none", "queued", "prep"} => post[r] = "none"
    /\ exec[r] \in {"none", "queued", "prep", "posting"} => row[r].job = None
    /\ exec[r] \in {"stream", "finishing"} => row[r].job # None
    /\ exec[r] = "finishing" => poll[r].pc = "found" /\ poll[r].done
    /\ row[r].job # None => /\ owner[row[r].job] = r
                            /\ entry[row[r].job] # "unnamed"
    /\ row[r].status = "success" => row[r].job # None /\ proc[row[r].job] = "ok"
    /\ post[r] \in {"none", "sent"} => \A j \in Jobs : owner[j] # r
    /\ r \in notified => /\ row[r].job # None
                         /\ row[r].job \in registered => proc[row[r].job] = "bad"
    /\ poll[r].pc # "idle" => exec[r] \in {"stream", "finishing"}
    /\ poll[r].pc \in Told => poll[r].job = row[r].job

OwnerFacts(j) ==
    /\ owner[j] = None <=> proc[j] = "absent"
    /\ \A i \in Jobs : owner[i] = owner[j] /\ owner[i] # None => i = j

ViewerFacts(v) ==
    LET r == viewer[v].run IN
    /\ viewer[v].pc \in {"wait", "stream"} => r \in Runs /\ row[r].status # "absent"
    /\ viewer[v].pc = "stream" => row[r].job # None
    /\ poll[v].pc # "idle" => viewer[v].pc = "stream"
    /\ poll[v].pc \in Told => poll[v].job = row[r].job

CheckerFacts(k) ==
    LET r == checker[k].run
        job == checker[k].seen.job
    IN
    /\ checker[k].pc # "idle" => r \in Runs /\ row[r].status # "absent"
    /\ checker[k].pc = "probe" => job # None
    /\ checker[k].pc = "marked" /\ job # None => entry[job] = "out"
    /\ poll[k].pc # "idle" => checker[k].pc = "probe"
    /\ poll[k].pc \in Told => poll[k].job = job

RunsInv ==
    /\ TypeOK /\ ContractInv
    /\ \A r \in Runs : RunFacts(r)
    /\ \A j \in Jobs : OwnerFacts(j)
    /\ \A v \in Viewers : ViewerFacts(v)
    /\ \A k \in Checkers : CheckerFacts(k)

\* What the output of an unwatched run rests on: execute_run starts at offset
\* 0 and asks for the text from where it stopped; a reply begins there; the row
\* and every copy of it that a checker holds keep to what was read by then;
\* and while the row holds nothing but the playbook's output, it holds as many
\* pieces as execute_run has read.
ReadInOrder(o, to) == (\A i \in DOMAIN o : o[i] <= to) /\ NothingTwice(o)

OutputFacts(r) ==
    LET p == poll[r] IN
    /\ exec[r] \in {"none", "queued", "prep", "posting"} => offset[r] = 0
    /\ exec[r] = "stream" /\ p.pc \in {"looked", "found"} =>
          p.from = offset[r] /\ p.from <= p.to
    /\ (\A i \in DOMAIN row[r].output : row[r].output[i] # 0) =>
          Len(row[r].output) = offset[r]
    /\ IsPrefix(row[r].output) /\ ReadInOrder(row[r].output, offset[r])

SeenFacts(k) == checker[k].pc # "idle" =>
    ReadInOrder(checker[k].seen.output, offset[checker[k].run])

OutputInv == Unwatched => /\ \A r \in Runs : OutputFacts(r)
                          /\ \A k \in Checkers : SeenFacts(k)
=============================================================================
