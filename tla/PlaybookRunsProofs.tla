--------------------------- MODULE PlaybookRunsProofs ---------------------------
(***************************************************************************)
(* Proofs about automation runs and about the sidecar's promises they rest *)
(* on, for any number of runs, jobs, viewers and concurrent requests, any  *)
(* amount of output and any number of faults.  The first part is about the *)
(* contract alone.  Every step of the backend is a step of the contract or *)
(* leaves the sidecar alone, so what the contract preserves is cited from  *)
(* there; the rest is about the rows, the coroutines and threads, and what *)
(* each of them has been told.                                             *)
(***************************************************************************)
EXTENDS PlaybookRuns, TLAPS, SequenceTheorems

-----------------------------------------------------------------------------
\* The sidecar's contract.  The lemmas are about single steps.

LEMMA ContractTypeInit == ContractInit => ContractTypeOK
<1> SUFFICES ASSUME ContractInit PROVE ContractTypeOK
  OBVIOUS
<1>1. 0 \in 0 .. MaxOut
  BY ContractAssumption
<1>2. NoPoll \in Polls
  BY <1>1 DEF NoPoll, Unanswered, Polls
<1> QED BY <1>1, <1>2 DEF ContractInit, ContractTypeOK, ProcState

\* The values that an operation gives to a poll are polls.
LEMMA UnansweredTypes ==
    ASSUME NEW pc \in {"idle", "looked", "gone", "error"},
           NEW j \in Jobs \cup {None}, NEW from \in 0 .. MaxOut,
           NEW to \in 0 .. MaxOut
    PROVE  Unanswered(pc, j, from, to) \in Polls
BY DEF Unanswered, Polls

LEMMA ContractTypeNext ==
    ASSUME ContractTypeOK, [ContractNext]_contractVars
    PROVE  ContractTypeOK'
<1> USE ContractAssumption
<1>0. NoPoll \in Polls /\ LostPoll \in Polls
  BY UnansweredTypes, 0 \in 0 .. MaxOut DEF NoPoll, LostPoll
<1>1. CASE UNCHANGED contractVars
  BY <1>1 DEF contractVars, ContractTypeOK
<1>2. ASSUME NEW j \in Jobs,
             \/ Launch(j) \/ Register(j) \/ Emit(j)
             \/ Exit(j) \/ Record(j) \/ Withdraw(j)
      PROVE  ContractTypeOK'
  BY <1>2 DEF Launch, Register, Emit, Exit, Record, Withdraw, ContractTypeOK,
     ProcState, ExitCodes, registered
<1>3. ASSUME NEW c \in Clients, NEW j \in Jobs, NEW o \in 0 .. MaxOut,
             Lookup(c, j, o)
      PROVE  ContractTypeOK'
  <2>1. TextEnd(j, o) \in 0 .. MaxOut
    BY DEF ContractTypeOK, TextEnd
  <2>3. Unanswered("looked", j, o, TextEnd(j, o)) \in Polls
    BY <2>1, UnansweredTypes
  <2>2. Unanswered("gone", j, 0, 0) \in Polls
    BY UnansweredTypes
  <2> QED BY <1>3, <2>2, <2>3 DEF Lookup, ContractTypeOK
<1>4. ASSUME NEW c \in Clients, Reply(c)
      PROVE  ContractTypeOK'
  <2>1. PICK to \in 0 .. MaxOut, done \in BOOLEAN, code \in ExitCodes \cup {None} :
             ReplyWith(c, to, done, code)
    BY <1>4 DEF Reply
  <2>2. [pc |-> "found", job |-> poll[c].job, from |-> poll[c].from,
         to |-> to, done |-> done, code |-> code] \in Polls
    BY DEF ContractTypeOK, Polls
  <2> QED BY <2>1, <2>2 DEF ReplyWith, Replied, ContractTypeOK
<1>5. ASSUME NEW c \in Clients, Lose(c) \/ Hangup(c)
      PROVE  ContractTypeOK'
  BY <1>0, <1>5 DEF Lose, Hangup, ContractTypeOK
<1>6. CASE HangupAll \/ Crash
  BY <1>0, <1>6 DEF HangupAll, Crash, ContractTypeOK, ProcState
<1> QED BY <1>1, <1>2, <1>3, <1>4, <1>5, <1>6 DEF ContractNext

-----------------------------------------------------------------------------
\* What is over stays over: ended processes, removed jobs, recorded exits.
ContractAdvances(j) ==
    /\ proc[j] # "absent" => proc'[j] # "absent"
    /\ proc[j] \in ExitCodes => proc'[j] = proc[j]
    /\ entry[j] # "unnamed" => entry'[j] # "unnamed"
    /\ entry[j] = "out" => entry'[j] = "out"

LEMMA ContractAdvance ==
    ASSUME ContractInv, [ContractNext]_contractVars, NEW j \in Jobs
    PROVE  ContractAdvances(j)
<1>0. ContractTypeOK /\ JobFacts(j)
  BY DEF ContractInv
<1> QED
  BY <1>0 DEF ContractNext, contractVars, Launch, Register, Emit, Exit, Record,
     Withdraw, Lookup, Reply, ReplyWith, Lose, Hangup, HangupAll, Crash,
     ContractTypeOK, JobFacts, ContractAdvances, ExitCodes, registered

LEMMA JobFactsNext ==
    ASSUME ContractInv, [ContractNext]_contractVars, NEW j \in Jobs
    PROVE  JobFacts(j)'
<1>0. ContractTypeOK /\ JobFacts(j)
  BY DEF ContractInv
<1> QED
  BY <1>0 DEF ContractNext, contractVars, Launch, Register, Emit, Exit, Record,
     Withdraw, Lookup, Reply, ReplyWith, Lose, Hangup, HangupAll, Crash,
     ContractTypeOK, JobFacts, ExitCodes, registered

\* A poll that the step does not touch keeps its facts, because what they
\* speak of only advances.
LEMMA PollFactsKept ==
    ASSUME ContractInv, [ContractNext]_contractVars, NEW c \in Clients,
           poll'[c] = poll[c]
    PROVE  PollFacts(c)'
<1>0. ContractTypeOK /\ PollFacts(c)
  BY DEF ContractInv
<1>1. \A j \in Jobs : ContractAdvances(j)
  BY ContractAdvance
<1>2. \A j \in Jobs : entry[j] \in {"unnamed", "in", "out"}
  BY <1>0 DEF ContractTypeOK
<1> QED BY <1>0, <1>1, <1>2 DEF PollFacts, ContractAdvances, registered,
            ExitCodes

LEMMA PollFactsNext ==
    ASSUME ContractInv, [ContractNext]_contractVars, NEW c \in Clients
    PROVE  PollFacts(c)'
<1>0. ContractTypeOK /\ \A j \in Jobs : JobFacts(j)
  BY DEF ContractInv
<1>1. PollFacts(c)
  BY DEF ContractInv
<1>2. CASE poll'[c] = poll[c]
  BY <1>2, PollFactsKept
<1>3. CASE poll'[c] \in {NoPoll, LostPoll}
  BY <1>3 DEF PollFacts, NoPoll, LostPoll, Unanswered
<1>4. ASSUME NEW j \in Jobs, NEW o \in 0 .. MaxOut, Lookup(c, j, o)
      PROVE  PollFacts(c)'
  BY <1>0, <1>4 DEF Lookup, PollFacts, Unanswered, ContractTypeOK, registered
<1>5. CASE Reply(c)
  <2>1. PICK to \in 0 .. MaxOut, done \in BOOLEAN, code \in ExitCodes \cup {None} :
             ReplyWith(c, to, done, code)
    BY <1>5 DEF Reply
  <2>2. poll'[c] = [pc |-> "found", job |-> poll[c].job,
                    from |-> poll[c].from, to |-> to, done |-> done,
                    code |-> code]
    BY <1>0, <2>1 DEF ReplyWith, Replied, ContractTypeOK
  <2>3. poll[c].job \in Jobs /\ entry[poll[c].job] # "unnamed"
    BY <1>1, <2>1 DEF ReplyWith, PollFacts
  <2>4. done = TRUE /\ poll[c].job \in registered =>
            code = proc[poll[c].job] /\ code \in ExitCodes
    BY <1>0, <2>1, <2>3 DEF ReplyWith, FieldsFit, JobFacts
  <2> QED BY <2>1, <2>2, <2>3, <2>4 DEF ReplyWith, FieldsFit, PollFacts, registered
<1>6. CASE UNCHANGED poll
  BY <1>6, <1>2
<1>7. CASE HangupAll \/ Crash
  BY <1>2, <1>3, <1>7 DEF HangupAll, Crash
<1>8. ASSUME NEW d \in Clients, NEW j \in Jobs, NEW o \in 0 .. MaxOut,
             d # c, Lookup(d, j, o) \/ Reply(d) \/ Lose(d) \/ Hangup(d)
      PROVE  poll'[c] = poll[c]
  BY <1>0, <1>8 DEF Lookup, Reply, ReplyWith, Lose, Hangup, ContractTypeOK
<1>9. ASSUME NEW d \in Clients, d # c, Reply(d) \/ Lose(d) \/ Hangup(d)
      PROVE  poll'[c] = poll[c]
  BY <1>0, <1>9 DEF Reply, ReplyWith, Lose, Hangup, ContractTypeOK
<1>10. CASE Lose(c) \/ Hangup(c)
  BY <1>0, <1>3, <1>10 DEF Lose, Hangup, ContractTypeOK
<1>11. ASSUME NEW j \in Jobs,
             \/ Launch(j) \/ Register(j) \/ Emit(j)
             \/ Exit(j) \/ Record(j) \/ Withdraw(j)
      PROVE  UNCHANGED poll
  BY <1>11 DEF Launch, Register, Emit, Exit, Record, Withdraw
<1>12. CASE UNCHANGED contractVars
  BY <1>6, <1>12 DEF contractVars
<1> QED BY <1>2, <1>4, <1>5, <1>6, <1>7, <1>8, <1>9, <1>10, <1>11, <1>12
        DEF ContractNext

LEMMA ContractInvInit == ContractInit => ContractInv
<1> SUFFICES ASSUME ContractInit PROVE ContractInv
  OBVIOUS
<1>1. ContractTypeOK
  BY ContractTypeInit
<1>2. \A j \in Jobs : JobFacts(j)
  BY DEF ContractInit, JobFacts
<1>3. \A c \in Clients : PollFacts(c)
  BY DEF ContractInit, PollFacts, NoPoll, Unanswered
<1> QED BY <1>1, <1>2, <1>3 DEF ContractInv

LEMMA ContractInvNext ==
    ContractInv /\ [ContractNext]_contractVars => ContractInv'
<1> SUFFICES ASSUME ContractInv, [ContractNext]_contractVars
             PROVE  ContractInv'
  OBVIOUS
<1>1. ContractTypeOK'
  BY ContractTypeNext DEF ContractInv
<1>2. \A j \in Jobs : JobFacts(j)'
  BY JobFactsNext
<1>3. \A c \in Clients : PollFacts(c)'
  BY PollFactsNext
<1> QED BY <1>1, <1>2, <1>3 DEF ContractInv

-----------------------------------------------------------------------------
\* The invariant of the contract.
THEOREM ContractInvariant == ContractSpec => []ContractInv
BY ContractInvInit, ContractInvNext, PTL DEF ContractSpec

\* A job that was answered with 404 is never registered again.
THEOREM GoneStaysGone == ContractSpec => GoneIsFinal
<1> DEFINE Step == \A c \in Clients :
                      poll[c].pc = "gone" /\ poll[c].job # None
                          => entry'[poll[c].job] # "in"
<1>1. ContractInv /\ [ContractNext]_contractVars => [Step]_contractVars
  <2> SUFFICES ASSUME ContractInv, [ContractNext]_contractVars,
                      NEW c \in Clients, poll[c].pc = "gone"
               PROVE  entry'[poll[c].job] # "in"
    OBVIOUS
  <2>1. poll[c].job \in Jobs /\ entry[poll[c].job] = "out"
    BY DEF ContractInv, PollFacts
  <2>2. entry'[poll[c].job] = "out"
    BY <2>1, ContractAdvance DEF ContractAdvances
  <2> QED BY <2>2
<1> QED BY <1>1, ContractInvariant, PTL DEF ContractSpec, GoneIsFinal

-----------------------------------------------------------------------------
\* The composition uses the sidecar only through its contract.
LEMMA StepsAreContract ==
    ASSUME RunsInv, [Next]_vars
    PROVE  [ContractNext]_contractVars
<1> USE DEF backendVars
<1>0. /\ row \in [Runs -> Row] /\ offset \in [Clients -> 0 .. MaxOut]
      /\ checker \in [Checkers -> [pc : {"idle", "probe", "marked"},
                                   run : Runs \cup {None}, seen : Row]]
      /\ Runs \subseteq Clients /\ Viewers \subseteq Clients
      /\ Checkers \subseteq Clients /\ 0 \in 0 .. MaxOut
  BY ClientsAssumption, ContractAssumption DEF RunsInv, TypeOK
<1>1. CASE UNCHANGED vars
  BY <1>1 DEF vars
<1>2. ASSUME NEW r \in Runs,
             \/ CreateRun(r) \/ Age(r) \/ ExecBegins(r) \/ ExecFailsInPrep(r)
             \/ ExecPosts(r) \/ ExecFailsToStart(r) \/ ExecTimesOut(r)
             \/ ExecStoresJob(r) \/ CancelPending(r) \/ CancelSends(r)
             \/ CancelLost(r) \/ CancelCommits(r) \/ SidecarRefuses(r)
      PROVE  UNCHANGED contractVars
  BY <1>2 DEF CreateRun, Age, ExecBegins, ExecFailsInPrep, ExecPosts,
     ExecFailsToStart, ExecTimesOut, ExecStoresJob, CancelPending, CancelSends,
     CancelLost, CancelCommits, SidecarRefuses
<1>3. ASSUME NEW r \in Runs,
             ExecReads(r) \/ ExecFinishes(r) \/ ExecOrphaned(r) \/ ExecRetries(r)
      PROVE  ContractNext \/ UNCHANGED contractVars
  BY <1>0, <1>3
  DEF ExecReads, ExecFinishes, ExecOrphaned, ExecRetries, ContractNext
<1>4. ASSUME NEW r \in Runs, ExecPolls(r)
      PROVE  ContractNext
  <2>1. Lookup(r, row[r].job, offset[r]) /\ r \in Clients
    BY <1>0, <1>4 DEF ExecPolls
  <2>2. row[r].job \in Jobs
    BY <1>0, <1>4 DEF ExecPolls, RunsInv, RunFacts, Row
  <2> QED BY <1>0, <2>1, <2>2 DEF ContractNext
<1>5. ASSUME NEW r \in Runs, CancelArrives(r)
      PROVE  [ContractNext]_contractVars
  BY <1>5 DEF CancelArrives, ContractNext, registered
<1>6. ASSUME NEW r \in Runs, SidecarLaunches(r) \/ SidecarAnswers(r)
      PROVE  ContractNext
  BY <1>6 DEF SidecarLaunches, SidecarAnswers, ContractNext
<1>7. ASSUME NEW v \in Viewers, NEW r \in Runs, ViewerOpens(v, r)
      PROVE  UNCHANGED contractVars
  BY <1>7 DEF ViewerOpens
<1>8. ASSUME NEW v \in Viewers, ViewerFindsJob(v) \/ ViewerGivesUp(v)
      PROVE  UNCHANGED contractVars
  BY <1>8 DEF ViewerFindsJob, ViewerGivesUp
<1>9. ASSUME NEW v \in Viewers,
             \/ ViewerLeaves(v) \/ ViewerReads(v) \/ ViewerFinishes(v)
             \/ ViewerOrphaned(v) \/ ViewerRetries(v)
      PROVE  [ContractNext]_contractVars
  BY <1>0, <1>9 DEF ViewerLeaves, ViewerReads, ViewerFinishes, ViewerOrphaned,
     ViewerRetries, ContractNext
<1>10. ASSUME NEW v \in Viewers, ViewerPolls(v)
      PROVE  ContractNext
  <2>1. viewer[v].run \in Runs /\ row[viewer[v].run].job # None
    BY <1>10 DEF ViewerPolls, RunsInv, ViewerFacts
  <2>2. row[viewer[v].run].job \in Jobs
    BY <1>0, <2>1 DEF Row
  <2>3. Lookup(v, row[viewer[v].run].job, offset[v]) /\ v \in Clients
    BY <1>0, <1>10 DEF ViewerPolls
  <2> QED BY <1>0, <2>2, <2>3 DEF ContractNext
<1>11. ASSUME NEW k \in Checkers, NEW r \in Runs, CheckerLoads(k, r)
      PROVE  UNCHANGED contractVars
  BY <1>11 DEF CheckerLoads
<1>12. ASSUME NEW k \in Checkers, CheckerHears(k) \/ CheckerCommits(k)
      PROVE  [ContractNext]_contractVars
  BY <1>0, <1>12 DEF CheckerHears, CheckerCommits, ContractNext
<1>13. ASSUME NEW k \in Checkers, CheckerProbes(k)
      PROVE  ContractNext
  <2>1. checker[k].seen.job \in Jobs
    BY <1>0, <1>13 DEF CheckerProbes, RunsInv, CheckerFacts, Row
  <2>2. Lookup(k, checker[k].seen.job, 0) /\ k \in Clients
    BY <1>0, <1>13 DEF CheckerProbes
  <2> QED BY <1>0, <2>1, <2>2 DEF ContractNext
<1>14. ASSUME NEW j \in Jobs, JobRuns(j)
      PROVE  ContractNext
  BY <1>14 DEF JobRuns, ContractNext
<1>15. ASSUME NEW c \in Clients, SidecarReplies(c) \/ PollFails(c)
      PROVE  ContractNext
  BY <1>15 DEF SidecarReplies, PollFails, ContractNext
<1>16. CASE SidecarCrashes \/ BackendCrashes
  BY <1>16 DEF SidecarCrashes, BackendCrashes, ContractNext
<1> QED
  BY <1>1, <1>2, <1>3, <1>4, <1>5, <1>6, <1>7, <1>8, <1>9, <1>10, <1>11, <1>12,
     <1>13, <1>14, <1>15, <1>16
  DEF Next, ExecStep, ViewerStep, CheckerStep, CancelStep, SidecarStep

-----------------------------------------------------------------------------
\* Type correctness.

\* What the code writes to a row is a row.
LEMMA ChunkType ==
    ASSUME NEW p \in Polls
    PROVE  Chunk(p) \in Seq(0 .. MaxOut)
<1>1. p.from \in 0 .. MaxOut /\ p.to \in 0 .. MaxOut /\ MaxOut \in Nat
  BY ContractAssumption DEF Polls
<1>2. \A i \in 1 .. (p.to - p.from) : p.from + i \in 0 .. MaxOut
  BY <1>1
<1>3. PICK n \in Nat : 1 .. n = 1 .. (p.to - p.from)
  <2>1. CASE p.from <= p.to
    BY <1>1, <2>1, p.to - p.from \in Nat
  <2>2. CASE p.to < p.from
    BY <1>1, <2>2, 1 .. 0 = 1 .. (p.to - p.from)
  <2> QED BY <1>1, <2>1, <2>2
<1>4. Chunk(p) \in [1 .. n -> 0 .. MaxOut]
  BY <1>2, <1>3 DEF Chunk
<1>5. [1 .. n -> 0 .. MaxOut] \in {[1 .. m -> 0 .. MaxOut] : m \in Nat}
  BY <1>3
<1>6. Seq(0 .. MaxOut) = UNION {[1 .. m -> 0 .. MaxOut] : m \in Nat}
  BY SeqDef
<1> HIDE DEF Chunk
<1> QED BY <1>4, <1>5, <1>6, Zenon

LEMMA MarkTypes ==
    ASSUME NEW r \in Row
    PROVE  /\ MarkFailed(r) \in Row /\ Cancelled(r) \in Row
           /\ [r EXCEPT !.status = "running"] \in Row
           /\ [r EXCEPT !.status = "failed", !.finished = TRUE,
                        !.output = <<0>>] \in Row
<1>1. Append(r.output, 0) \in Seq(0 .. MaxOut) /\ <<0>> \in Seq(0 .. MaxOut)
  BY ContractAssumption, 0 \in 0 .. MaxOut DEF Row
<1>2. MarkFailed(r) \in Row /\ Cancelled(r) \in Row
  BY <1>1 DEF Row, MarkFailed, Cancelled, Terminal
<1>3. [r EXCEPT !.status = "failed", !.finished = TRUE, !.output = <<0>>] \in Row
  BY <1>1 DEF Row, Terminal
<1> QED BY <1>2, <1>3 DEF Row, Active

LEMMA FinishType ==
    ASSUME NEW r \in Row, NEW code \in ExitCodes \cup {None}
    PROVE  Finish(r, code) \in Row
BY DEF Row, Finish, Terminal

LEMMA ExtendedType ==
    ASSUME NEW r \in Row, NEW p \in Polls, NEW replaced \in BOOLEAN
    PROVE  Extended(r, p, replaced) \in Row
<1>1. r.output \o Chunk(p) \in Seq(0 .. MaxOut)
  BY ChunkType DEF Row
<1>2. Append(r.output \o Chunk(p), 0) \in Seq(0 .. MaxOut)
  BY <1>1, ContractAssumption, 0 \in 0 .. MaxOut
<1> QED BY <1>1, <1>2 DEF Row, Extended

LEMMA PassedType ==
    ASSUME NEW p \in Polls, NEW replaced, NEW o \in Passed(p, replaced)
    PROVE  o \in 0 .. MaxOut
BY ContractAssumption DEF Passed, Polls

LEMMA JobType ==
    ASSUME NEW r \in Row, NEW j \in Jobs
    PROVE  [r EXCEPT !.job = j] \in Row
BY DEF Row

LEMMA OverwrittenType ==
    ASSUME NEW r \in Row, NEW s \in Row
    PROVE  [r EXCEPT !.status = s.status, !.finished = TRUE,
                     !.output = s.output] \in Row
BY DEF Row

LEMMA NewRowType == NewRow \in Row /\ [NewRow EXCEPT !.status = "absent"] \in Row
<1>1. << >> \in Seq(0 .. MaxOut)
  OBVIOUS
<1> QED BY <1>1 DEF NewRow, Row, Active, Terminal

LEMMA RunsTypeInit == Init => TypeOK
<1> SUFFICES ASSUME Init PROVE TypeOK
  OBVIOUS
<1>1. ContractTypeOK
  BY ContractTypeInit DEF Init
<1>2. 0 \in 0 .. MaxOut /\ 0 \in 0 .. MaxFaults
  BY ContractAssumption, BoundsAssumption
<1> QED BY <1>1, <1>2, NewRowType DEF Init, TypeOK, NoViewer, NoCheck

\* What an action of each actor writes keeps its type.
LEMMA ExecTypes ==
    ASSUME TypeOK, ContractTypeOK', NEW r \in Runs,
           CreateRun(r) \/ Age(r) \/ ExecStep(r) \/ ExecTimesOut(r)
    PROVE  TypeOK'
<1> USE DEF TypeOK, backendVars
<1>0. row[r] \in Row /\ r \in Clients
  BY ClientsAssumption
<1>1. CASE CreateRun(r) \/ Age(r) \/ ExecBegins(r)
  BY <1>1, NewRowType DEF CreateRun, Age, ExecBegins
<1>2. CASE ExecFailsInPrep(r)
  <2>1. \E new \in Row : row' = [row EXCEPT ![r] = new]
    <3>1. CASE row' = [row EXCEPT ![r] = MarkFailed(@)]
      BY <1>0, <3>1, MarkTypes
    <3>2. CASE row' = [row EXCEPT ![r] = [row[r] EXCEPT
                          !.status = "failed", !.finished = TRUE,
                          !.output = <<0>>]]
      BY <1>0, <3>2, MarkTypes
    <3> QED BY <1>2, <3>1, <3>2 DEF ExecFailsInPrep
  <2> QED BY <1>2, <2>1 DEF ExecFailsInPrep
<1>3. CASE ExecPosts(r) \/ ExecFailsToStart(r) \/ ExecTimesOut(r)
  <2>1. /\ exec' \in {[exec EXCEPT ![r] = "end"], [exec EXCEPT ![r] = "posting"]}
        /\ post' \in {post, [post EXCEPT ![r] = "sent"]}
        /\ faults' = faults \/ (faults < MaxFaults /\ faults' = faults + 1)
        /\ UNCHANGED <<aged, home, owner, cancel, viewer, checker, offset,
                       notified>>
    BY <1>3 DEF ExecPosts, ExecFailsToStart, ExecTimesOut
  <2>2. row' \in [Runs -> Row]
    <3>1. CASE row' = [row EXCEPT ![r] = MarkFailed(@)]
      BY <1>0, <3>1, MarkTypes
    <3>2. CASE row' = [row EXCEPT ![r] = [row[r] EXCEPT !.status = "running"]]
      BY <1>0, <3>2, MarkTypes
    <3> QED BY <1>3, <3>1, <3>2
            DEF ExecPosts, ExecFailsToStart, ExecTimesOut
  <2> QED BY <2>1, <2>2, BoundsAssumption
<1>4. CASE ExecStoresJob(r)
  BY <1>0, <1>4, JobType DEF ExecStoresJob
<1>5. CASE ExecPolls(r) \/ ExecOrphaned(r) \/ ExecRetries(r)
  BY <1>0, <1>5 DEF ExecPolls, ExecOrphaned, ExecRetries
<1>6. CASE ExecReads(r)
  <2> DEFINE p == poll[r]
  <2>1. p \in Polls
    BY <1>0 DEF ContractTypeOK
  <2>20. PICK replaced \in BOOLEAN : \E o \in Passed(p, replaced) :
                /\ row' = [row EXCEPT ![r] = Extended(row[r], p, replaced)]
                /\ offset' = [offset EXCEPT ![r] = o]
    BY <1>6 DEF ExecReads
  <2>2. PICK o \in Passed(p, replaced) :
             /\ row' = [row EXCEPT ![r] = Extended(row[r], p, replaced)]
             /\ offset' = [offset EXCEPT ![r] = o]
    BY <2>20
  <2>3. Extended(row[r], p, replaced) \in Row /\ o \in 0 .. MaxOut
    BY <1>0, <2>1, ExtendedType, PassedType
  <2>4. /\ exec' = [exec EXCEPT ![r] = IF p.done THEN "finishing" ELSE @]
        /\ UNCHANGED <<aged, home, post, owner, cancel, viewer, checker,
                       notified, faults>>
    BY <1>6 DEF ExecReads
  <2> HIDE DEF p
  <2> QED BY <1>0, <2>2, <2>3, <2>4
<1>7. CASE ExecFinishes(r)
  <2>1. poll[r].code \in ExitCodes \cup {None}
    BY <1>0 DEF ContractTypeOK, Polls
  <2>2. Finish(row[r], poll[r].code) \in Row
    BY <1>0, <2>1, FinishType
  <2>3. notified' \in {notified \cup {r}, notified}
    BY <1>7 DEF ExecFinishes
  <2> QED BY <1>0, <1>7, <2>2, <2>3 DEF ExecFinishes
<1> QED BY <1>1, <1>2, <1>3, <1>4, <1>5, <1>6, <1>7 DEF ExecStep

LEMMA ViewerTypes ==
    ASSUME RunsInv, ContractTypeOK', NEW v \in Viewers, ViewerStep(v)
    PROVE  TypeOK'
<1> USE DEF TypeOK, backendVars
<1>0. /\ TypeOK /\ v \in Clients /\ ViewerFacts(v)
      /\ 0 \in 0 .. MaxOut
  BY ClientsAssumption, ContractAssumption DEF RunsInv
<1>1. CASE \E r \in Runs : ViewerOpens(v, r)
  BY <1>0, <1>1 DEF ViewerOpens
<1>2. CASE ViewerFindsJob(v)
  BY <1>0, <1>2 DEF ViewerFindsJob
<1>3. CASE ViewerGivesUp(v)
  BY <1>0, <1>3, MarkTypes DEF ViewerGivesUp, ClosedViewer, ViewerFacts
<1>4. CASE ViewerLeaves(v) \/ ViewerPolls(v) \/ ViewerRetries(v)
  BY <1>0, <1>4 DEF ViewerLeaves, ViewerPolls, ViewerRetries, ClosedViewer
<1>5. CASE ViewerReads(v)
  <2> DEFINE p == poll[v]
             r == viewer[v].run
  <2>1. p \in Polls /\ r \in Runs
    BY <1>0, <1>5 DEF ContractTypeOK, ViewerReads, ViewerFacts
  <2>20. PICK replaced \in BOOLEAN : \E o \in Passed(p, replaced) :
                /\ row' = [row EXCEPT ![r] = Extended(row[r], p, replaced)]
                /\ offset' = [offset EXCEPT ![v] = o]
    BY <1>5 DEF ViewerReads
  <2>2. PICK o \in Passed(p, replaced) :
             /\ row' = [row EXCEPT ![r] = Extended(row[r], p, replaced)]
             /\ offset' = [offset EXCEPT ![v] = o]
    BY <2>20
  <2>3. Extended(row[r], p, replaced) \in Row /\ o \in 0 .. MaxOut
    BY <1>0, <2>1, ExtendedType, PassedType
  <2>4. UNCHANGED <<aged, home, exec, post, owner, cancel, viewer, checker,
                    notified, faults>>
    BY <1>5 DEF ViewerReads
  <2> HIDE DEF p, r
  <2> QED BY <1>0, <2>1, <2>2, <2>3, <2>4
<1>6. CASE ViewerFinishes(v)
  <2>1. viewer[v].run \in Runs /\ poll[v].code \in ExitCodes \cup {None}
    BY <1>0, <1>6 DEF ContractTypeOK, ViewerFinishes, ViewerFacts, Polls
  <2>2. Finish(row[viewer[v].run], poll[v].code) \in Row
    BY <1>0, <2>1, FinishType
  <2> QED BY <1>0, <1>6, <2>1, <2>2 DEF ViewerFinishes, ClosedViewer
<1>7. CASE ViewerOrphaned(v)
  BY <1>0, <1>7, MarkTypes DEF ViewerOrphaned, ClosedViewer, ViewerFacts
<1> QED BY <1>1, <1>2, <1>3, <1>4, <1>5, <1>6, <1>7 DEF ViewerStep

LEMMA CheckerTypes ==
    ASSUME RunsInv, ContractTypeOK', NEW k \in Checkers, CheckerStep(k)
    PROVE  TypeOK'
<1> USE DEF TypeOK, backendVars
<1>0. TypeOK /\ k \in Clients /\ CheckerFacts(k) /\ NewRow \in Row
  BY ClientsAssumption, NewRowType DEF RunsInv
<1>1. CASE \E r \in Runs : CheckerLoads(k, r)
  BY <1>0, <1>1 DEF CheckerLoads
<1>2. CASE CheckerProbes(k) \/ CheckerHears(k)
  BY <1>0, <1>2 DEF CheckerProbes, CheckerHears, NoCheck
<1>3. CASE CheckerCommits(k)
  <2> DEFINE r == checker[k].run
             seen == MarkFailed(checker[k].seen)
  <2>1. r \in Runs /\ seen \in Row
    BY <1>0, <1>3, MarkTypes DEF CheckerCommits, CheckerFacts
  <2>3. /\ row' = [row EXCEPT ![r] =
                      [row[r] EXCEPT !.status = seen.status, !.finished = TRUE,
                                     !.output = seen.output]]
        /\ checker' = [checker EXCEPT ![k] = NoCheck]
        /\ UNCHANGED <<aged, home, exec, post, owner, cancel, viewer, offset,
                       notified, faults>>
    BY <1>0, <1>3, <2>1 DEF CheckerCommits
  <2> HIDE DEF r, seen
  <2>2. [row[r] EXCEPT !.status = seen.status, !.finished = TRUE,
                       !.output = seen.output] \in Row
    BY <1>0, <2>1, OverwrittenType
  <2> QED BY <1>0, <2>1, <2>2, <2>3 DEF NoCheck
<1> QED BY <1>1, <1>2, <1>3 DEF CheckerStep

LEMMA CancelTypes ==
    ASSUME TypeOK, ContractTypeOK', NEW r \in Runs,
           CancelStep(r) \/ SidecarStep(r)
    PROVE  TypeOK'
<1> USE DEF TypeOK, backendVars
<1>1. CASE CancelStep(r)
  <2>1. row' = row \/ row' = [row EXCEPT ![r] = Cancelled(@)]
    BY <1>1 DEF CancelStep, CancelPending, CancelSends, CancelArrives,
       CancelLost, CancelCommits
  <2>2. row' \in [Runs -> Row]
    <3>1. row[r] \in Row /\ row \in [Runs -> Row]
      OBVIOUS
    <3>2. Cancelled(row[r]) \in Row
      BY <3>1, MarkTypes
    <3> QED BY <2>1, <3>1, <3>2
  <2> QED BY <1>1, <2>2, BoundsAssumption DEF CancelStep, CancelPending,
          CancelSends, CancelArrives, CancelLost, CancelCommits
<1>2. CASE SidecarStep(r)
  BY <1>2 DEF SidecarStep, SidecarLaunches, SidecarAnswers, SidecarRefuses
<1> QED BY <1>1, <1>2

LEMMA FaultTypes ==
    ASSUME TypeOK, ContractTypeOK',
           \/ \E j \in Jobs : JobRuns(j)
           \/ \E c \in Clients : SidecarReplies(c) \/ PollFails(c)
           \/ SidecarCrashes \/ BackendCrashes
    PROVE  TypeOK'
<1> USE DEF TypeOK, backendVars
<1>1. CASE \/ \E j \in Jobs : JobRuns(j)
           \/ \E c \in Clients : SidecarReplies(c) \/ PollFails(c)
  BY <1>1, BoundsAssumption DEF JobRuns, SidecarReplies, PollFails
<1>2. CASE SidecarCrashes \/ BackendCrashes
  BY <1>2, BoundsAssumption, NewRowType
  DEF SidecarCrashes, BackendCrashes, NoViewer, ClosedViewer, NoCheck
<1> QED BY <1>1, <1>2

LEMMA RunsTypeNext == RunsInv /\ [Next]_vars => TypeOK'
<1> SUFFICES ASSUME RunsInv, [Next]_vars PROVE TypeOK'
  OBVIOUS
<1>1. TypeOK /\ ContractTypeOK'
  BY StepsAreContract, ContractTypeNext DEF RunsInv, ContractInv
<1>2. CASE UNCHANGED vars
  BY <1>1, <1>2 DEF vars, backendVars, TypeOK
<1> QED BY <1>1, <1>2, ExecTypes, ViewerTypes, CheckerTypes, CancelTypes,
           FaultTypes DEF Next

-----------------------------------------------------------------------------
\* What a step may do to a row: a job id, once stored, stays; a row, once
\* inserted, stays; and a row turns into a success only on the word of a
\* process that exited with 0.
RowKept(r) ==
    /\ row'[r].job = row[r].job
    /\ row'[r].status = "absent" <=> row[r].status = "absent"
    /\ row'[r].status = "success" =>
          \/ row[r].status = "success"
          \/ row[r].job # None /\ proc[row[r].job] = "ok"

LEMMA WrittenFields ==
    ASSUME NEW r \in Row
    PROVE  /\ MarkFailed(r).job = r.job /\ MarkFailed(r).status = "failed"
           /\ Cancelled(r).job = r.job /\ Cancelled(r).status = "cancelled"
           /\ \A code : /\ Finish(r, code).job = r.job
                        /\ Finish(r, code).status \in {"success", "failed"}
                        /\ Finish(r, code).status = "success" => code = "ok"
BY DEF Row, MarkFailed, Cancelled, Finish

LEMMA ExtendedFields ==
    ASSUME NEW r \in Row, NEW p \in Polls, NEW replaced \in BOOLEAN
    PROVE  /\ Extended(r, p, replaced).job = r.job
           /\ Extended(r, p, replaced).status = r.status
BY DEF Row, Extended

\* A found poll of an actor that knows the run's job speaks of its process.
LEMMA FinishIsReal ==
    ASSUME RunsInv, NEW c \in Clients, poll[c].pc = "found",
           poll[c].code = "ok"
    PROVE  poll[c].job \in Jobs /\ proc[poll[c].job] = "ok"
BY DEF RunsInv, ContractInv, PollFacts

LEMMA ExecRow ==
    ASSUME RunsInv, NEW r \in Runs,
           Age(r) \/ ExecStep(r) \/ ExecTimesOut(r), ~ExecStoresJob(r)
    PROVE  RowKept(r) /\ \A s \in Runs : s # r => row'[s] = row[s]
<1>0. /\ row \in [Runs -> Row] /\ r \in Clients /\ row[r] \in Row
      /\ RunFacts(r) /\ poll[r] \in Polls /\ TypeOK
  BY ClientsAssumption DEF RunsInv, TypeOK, ContractTypeOK
<1> USE DEF backendVars
<1>1. CASE UNCHANGED row
  BY <1>1 DEF RowKept
<1>2. CASE /\ row' = [row EXCEPT ![r] = MarkFailed(@)]
           /\ exec[r] \in {"prep", "posting"}
  <2>1. row[r].status # "absent"
    BY <1>0, <1>2 DEF RunFacts
  <2> QED BY <1>0, <1>2, <2>1, WrittenFields DEF RowKept
<1>3. CASE ExecPosts(r)
  <2>1. row[r].status # "absent" /\ exec[r] = "prep"
    BY <1>0, <1>3 DEF RunFacts, ExecPosts
  <2>2. row'[r] = [row[r] EXCEPT !.status = "running"]
    BY <1>0, <1>3 DEF ExecPosts
  <2> QED BY <1>0, <1>3, <2>1, <2>2 DEF RowKept, ExecPosts, Row
<1>4. CASE /\ row' = [row EXCEPT ![r].status = "failed", ![r].finished = TRUE,
                                 ![r].output = <<0>>]
           /\ exec[r] = "prep"
  <2>1. row[r].status # "absent"
    BY <1>0, <1>4 DEF RunFacts
  <2>2. row'[r].job = row[r].job /\ row'[r].status = "failed"
    BY <1>0, <1>4 DEF Row
  <2> QED BY <1>0, <1>4, <2>1, <2>2 DEF RowKept
<1>5. CASE ExecReads(r)
  <2>2. PICK replaced \in BOOLEAN :
             row' = [row EXCEPT ![r] = Extended(row[r], poll[r], replaced)]
    BY <1>5 DEF ExecReads
  <2>1. /\ Extended(row[r], poll[r], replaced).job = row[r].job
        /\ Extended(row[r], poll[r], replaced).status = row[r].status
    BY <1>0, ExtendedFields
  <2> QED BY <1>0, <2>1, <2>2 DEF RowKept
<1>6. CASE ExecFinishes(r)
  <2> DEFINE p == poll[r]
  <2>1. /\ row[r].status # "absent" /\ row[r].job # None
        /\ p.pc = "found" /\ p.job = row[r].job
    BY <1>0, <1>6 DEF RunFacts, ExecFinishes, Told
  <2>2. p.code = "ok" => proc[row[r].job] = "ok"
    BY <1>0, <2>1, FinishIsReal
  <2>3. row' = [row EXCEPT ![r] = Finish(@, p.code)]
    BY <1>6 DEF ExecFinishes
  <2> HIDE DEF p
  <2> QED BY <1>0, <2>1, <2>2, <2>3, WrittenFields DEF RowKept
<1> QED
  BY <1>1, <1>2, <1>3, <1>4, <1>5, <1>6
  DEF ExecStep, Age, ExecBegins, ExecFailsInPrep, ExecFailsToStart,
      ExecTimesOut, ExecPolls, ExecOrphaned, ExecRetries, ExecPosts

LEMMA ViewerRow ==
    ASSUME RunsInv, NEW v \in Viewers, ViewerStep(v), NEW s \in Runs
    PROVE  RowKept(s)
<1> DEFINE r == viewer[v].run
<1>0. /\ row \in [Runs -> Row] /\ v \in Clients /\ row[s] \in Row
      /\ ViewerFacts(v) /\ poll[v] \in Polls
  BY ClientsAssumption DEF RunsInv, TypeOK, ContractTypeOK
<1>1. CASE row'[s] = row[s]
  BY <1>1 DEF RowKept
<1>2. ASSUME viewer[v].pc \in {"wait", "stream"}
      PROVE  r \in Runs /\ row[r] \in Row /\ row[r].status # "absent"
  BY <1>0, <1>2 DEF ViewerFacts
<1>3. CASE ViewerGivesUp(v) \/ ViewerOrphaned(v)
  <2>1. row'[s] = row[s] \/ (s = r /\ row'[r] = MarkFailed(row[r]))
    BY <1>0, <1>3 DEF ViewerGivesUp, ViewerOrphaned
  <2> QED BY <1>1, <1>2, <1>3, <2>1, WrittenFields
          DEF RowKept, ViewerGivesUp, ViewerOrphaned
<1>4. CASE ViewerReads(v)
  <2>1. r \in Runs /\ row[r] \in Row /\ row[r].status # "absent"
    BY <1>2, <1>4 DEF ViewerReads
  <2>2. PICK replaced \in BOOLEAN :
             row' = [row EXCEPT ![r] = Extended(row[r], poll[v], replaced)]
    BY <1>4 DEF ViewerReads
  <2>3. \/ row'[s] = row[s]
        \/ s = r /\ row'[r] = Extended(row[r], poll[v], replaced)
    BY <1>0, <2>1, <2>2
  <2>4. /\ Extended(row[r], poll[v], replaced).job = row[r].job
        /\ Extended(row[r], poll[v], replaced).status = row[r].status
    BY <1>0, <2>1, ExtendedFields
  <2> QED BY <1>1, <2>3, <2>4 DEF RowKept
<1>5. CASE ViewerFinishes(v)
  <2>1. /\ r \in Runs /\ row[r] \in Row /\ row[r].status # "absent"
        /\ row[r].job # None /\ poll[v].job = row[r].job
    BY <1>0, <1>2, <1>5 DEF ViewerFinishes, ViewerFacts, Told
  <2>2. poll[v].code = "ok" => proc[row[r].job] = "ok"
    BY <1>0, <1>5, <2>1, FinishIsReal DEF ViewerFinishes
  <2>3. row'[s] = row[s] \/ (s = r /\ row'[r] = Finish(row[r], poll[v].code))
    BY <1>0, <1>5, <2>1 DEF ViewerFinishes
  <2> QED BY <1>1, <2>1, <2>2, <2>3, WrittenFields DEF RowKept
<1> QED
  BY <1>1, <1>3, <1>4, <1>5
  DEF ViewerStep, ViewerOpens, ViewerFindsJob, ViewerLeaves, ViewerPolls,
      ViewerRetries, backendVars

LEMMA CheckerRow ==
    ASSUME RunsInv, NEW k \in Checkers, CheckerStep(k), NEW s \in Runs
    PROVE  RowKept(s)
<1>0. /\ row \in [Runs -> Row] /\ row[s] \in Row /\ CheckerFacts(k) /\ TypeOK
  BY DEF RunsInv, TypeOK
<1>1. CASE row'[s] = row[s]
  BY <1>1 DEF RowKept
<1>2. CASE CheckerCommits(k)
  <2> DEFINE r == checker[k].run
  <2>1. r \in Runs /\ row[r].status # "absent" /\ checker[k].seen \in Row
    BY <1>0, <1>2 DEF CheckerFacts, CheckerCommits, TypeOK
  <2>2. \/ row'[s] = row[s]
        \/ s = r /\ row'[r].status = MarkFailed(checker[k].seen).status
                 /\ row'[r].job = row[r].job
    BY <1>0, <1>2, <2>1 DEF CheckerCommits, Row
  <2> QED BY <1>1, <2>1, <2>2, WrittenFields DEF RowKept
<1> QED
  BY <1>1, <1>2
  DEF CheckerStep, CheckerLoads, CheckerProbes, CheckerHears, backendVars

LEMMA CancelRow ==
    ASSUME RunsInv, NEW r \in Runs, CancelStep(r)
    PROVE  RowKept(r) /\ \A s \in Runs : s # r => row'[s] = row[s]
<1>0. /\ row \in [Runs -> Row] /\ row[r] \in Row /\ RunFacts(r)
  BY DEF RunsInv, TypeOK
<1>1. CASE UNCHANGED row
  BY <1>1 DEF RowKept
<1>2. CASE CancelPending(r) \/ CancelCommits(r)
  <2>1. row[r].status # "absent"
    BY <1>0, <1>2 DEF CancelPending, CancelCommits, RunFacts, Active
  <2>2. row' = [row EXCEPT ![r] = Cancelled(@)]
    BY <1>2 DEF CancelPending, CancelCommits
  <2> QED BY <1>0, <2>1, <2>2, WrittenFields DEF RowKept
<1> QED
  BY <1>1, <1>2 DEF CancelStep, CancelSends, CancelArrives, CancelLost

-----------------------------------------------------------------------------
\* The other actors leave a run's coroutine, its requests and its polls
\* alone, and start no job in its name.
Framed(r) ==
    /\ RowKept(r)
    /\ exec'[r] = exec[r] /\ post'[r] = post[r] /\ cancel'[r] = cancel[r]
    /\ poll'[r] = poll[r]
    /\ r \in notified' <=> r \in notified
    /\ \A j \in Jobs : owner'[j] = r <=> owner[j] = r

\* Whoever acts: what is said of a run's job only becomes truer.
LEMMA RowFactsKept ==
    ASSUME RunsInv, NEW r \in Runs, RowKept(r), TypeOK',
           \A j \in Jobs : ContractAdvances(j),
           \A j \in Jobs : owner[j] = r => owner'[j] = r
    PROVE  /\ row'[r].job # None =>
                 owner'[row'[r].job] = r /\ entry'[row'[r].job] # "unnamed"
           /\ row'[r].status = "success" =>
                 row'[r].job # None /\ proc'[row'[r].job] = "ok"
           /\ r \in notified => /\ row'[r].job # None
                                /\ row'[r].job \in registered' =>
                                      proc'[row'[r].job] = "bad"
<1>0. RunFacts(r) /\ row[r].job \in Jobs \cup {None} /\ TypeOK
  BY DEF RunsInv, TypeOK, Row
<1>1. \A j \in Jobs : entry[j] \in {"unnamed", "in", "out"}
  BY <1>0 DEF TypeOK, ContractTypeOK
<1>2. row'[r].job # None =>
         owner'[row'[r].job] = r /\ entry'[row'[r].job] # "unnamed"
  BY <1>0 DEF RunFacts, RowKept, ContractAdvances
<1>3. row'[r].status = "success" =>
         row'[r].job # None /\ proc'[row'[r].job] = "ok"
  BY <1>0 DEF RunFacts, RowKept, ContractAdvances, ExitCodes
<1>4. r \in notified => /\ row'[r].job # None
                        /\ row'[r].job \in registered' =>
                              proc'[row'[r].job] = "bad"
  BY <1>0, <1>1 DEF RunFacts, RowKept, ContractAdvances, ExitCodes, registered
<1> QED BY <1>2, <1>3, <1>4

LEMMA FramedKeeps ==
    ASSUME RunsInv, NEW r \in Runs, Framed(r),
           \A j \in Jobs : ContractAdvances(j), TypeOK'
    PROVE  RunFacts(r)'
<1>1. RowKept(r) /\ \A j \in Jobs : owner[j] = r => owner'[j] = r
  BY DEF Framed
<1>2. /\ row'[r].job # None =>
            owner'[row'[r].job] = r /\ entry'[row'[r].job] # "unnamed"
      /\ row'[r].status = "success" =>
            row'[r].job # None /\ proc'[row'[r].job] = "ok"
      /\ r \in notified => /\ row'[r].job # None
                           /\ row'[r].job \in registered' =>
                                 proc'[row'[r].job] = "bad"
  BY <1>1, RowFactsKept
<1>3. RunFacts(r)
  BY DEF RunsInv
<1> QED BY <1>2, <1>3 DEF RunFacts, Framed, RowKept

LEMMA OtherRunsFramed ==
    ASSUME RunsInv, [Next]_vars, NEW r \in Runs, NEW s \in Runs, r # s,
           \/ CreateRun(s) \/ Age(s) \/ ExecStep(s) \/ ExecTimesOut(s)
           \/ CancelStep(s) \/ SidecarStep(s)
    PROVE  Framed(r)
<1>0. /\ r \in Clients /\ s \in Clients /\ TypeOK /\ RunFacts(r)
      /\ \A j \in Jobs : OwnerFacts(j) /\ JobFacts(j)
      /\ DOMAIN poll = Clients /\ DOMAIN row = Runs
  BY ClientsAssumption DEF RunsInv, ContractInv, TypeOK, ContractTypeOK
<1>1. row'[r] = row[r]
  <2>1. CASE ExecStoresJob(s)
    BY <1>0, <2>1 DEF ExecStoresJob
  <2>2. CASE CreateRun(s) \/ SidecarStep(s)
    BY <1>0, <2>2 DEF CreateRun, SidecarStep, SidecarLaunches, SidecarAnswers,
       SidecarRefuses
  <2> QED BY <2>1, <2>2, ExecRow, CancelRow
<1>2. RowKept(r)
  BY <1>1 DEF RowKept
<1>3. /\ exec'[r] = exec[r] /\ post'[r] = post[r] /\ cancel'[r] = cancel[r]
      /\ poll'[r] = poll[r]
      /\ r \in notified' <=> r \in notified
  <2> USE <1>0 DEF TypeOK, backendVars, contractVars
  <2>1. CASE CreateRun(s) \/ Age(s) \/ ExecBegins(s) \/ ExecFailsInPrep(s)
    BY <2>1 DEF CreateRun, Age, ExecBegins, ExecFailsInPrep
  <2>2. CASE ExecPosts(s) \/ ExecFailsToStart(s) \/ ExecTimesOut(s) \/ ExecStoresJob(s)
    BY <2>2 DEF ExecPosts, ExecFailsToStart, ExecTimesOut, ExecStoresJob
  <2>3. CASE \/ ExecPolls(s) \/ ExecReads(s) \/ ExecFinishes(s)
              \/ ExecOrphaned(s) \/ ExecRetries(s)
    BY <2>3 DEF ExecPolls, ExecReads, ExecFinishes, ExecOrphaned, ExecRetries, Lookup, Hangup
  <2>4. CASE CancelStep(s)
    BY <2>4 DEF CancelStep, CancelPending, CancelSends, CancelArrives,
       CancelLost, CancelCommits, Withdraw
  <2>5. CASE SidecarStep(s)
    BY <2>5 DEF SidecarStep, SidecarLaunches, SidecarAnswers, SidecarRefuses,
       Launch, Register
  <2> QED BY <2>1, <2>2, <2>3, <2>4, <2>5 DEF ExecStep
<1>4. \A j \in Jobs : owner'[j] = r <=> owner[j] = r
  <2>1. CASE SidecarLaunches(s)
    <3>1. PICK j \in Jobs : Launch(j) /\ owner' = [owner EXCEPT ![j] = s]
      BY <2>1 DEF SidecarLaunches
    <3>2. owner[j] = None
      BY <1>0, <3>1 DEF Launch, OwnerFacts
    <3> QED BY <1>0, <3>1, <3>2, DisjointAssumption DEF TypeOK
  <2>2. CASE ~SidecarLaunches(s)
    <3>1. owner' = owner
      BY <2>2 DEF CreateRun, Age, ExecStep, ExecBegins, ExecFailsInPrep,
         ExecPosts, ExecFailsToStart, ExecTimesOut, ExecStoresJob, ExecPolls,
         ExecReads, ExecFinishes, ExecOrphaned, ExecRetries, CancelStep, CancelPending,
         CancelSends, CancelArrives, CancelLost, CancelCommits, SidecarStep,
         SidecarAnswers, SidecarRefuses, backendVars
    <3> QED BY <3>1
  <2> QED BY <2>1, <2>2
<1> QED BY <1>2, <1>3, <1>4 DEF Framed

LEMMA OthersFramed ==
    ASSUME RunsInv, NEW r \in Runs,
           \/ \E v \in Viewers : ViewerStep(v)
           \/ \E k \in Checkers : CheckerStep(k)
           \/ \E j \in Jobs : JobRuns(j)
           \/ \E c \in Clients \ {r} : SidecarReplies(c) \/ PollFails(c)
           \/ UNCHANGED vars
    PROVE  Framed(r)
<1>0. /\ r \in Clients /\ TypeOK /\ DOMAIN poll = Clients
      /\ Viewers \subseteq Clients \ {r} /\ Checkers \subseteq Clients \ {r}
  BY ClientsAssumption, DisjointAssumption DEF RunsInv, TypeOK, ContractTypeOK
<1> USE <1>0 DEF backendVars, contractVars
<1>1. ASSUME NEW v \in Viewers, ViewerStep(v)
      PROVE  Framed(r)
  <2>1. UNCHANGED <<exec, post, cancel, notified, owner>> /\ poll'[r] = poll[r]
    BY <1>1 DEF ViewerStep, ViewerOpens, ViewerFindsJob, ViewerGivesUp,
       ViewerLeaves, ViewerPolls, ViewerReads, ViewerFinishes, ViewerOrphaned,
       ViewerRetries, Lookup, Hangup
  <2> QED BY <1>1, <2>1, ViewerRow DEF Framed
<1>2. ASSUME NEW k \in Checkers, CheckerStep(k)
      PROVE  Framed(r)
  <2>1. UNCHANGED <<exec, post, cancel, notified, owner>> /\ poll'[r] = poll[r]
    BY <1>2 DEF CheckerStep, CheckerLoads, CheckerProbes, CheckerHears,
       CheckerCommits, Lookup, Hangup
  <2> QED BY <1>2, <2>1, CheckerRow DEF Framed
<1>3. ASSUME NEW j \in Jobs, JobRuns(j)
      PROVE  Framed(r)
  BY <1>3 DEF JobRuns, Emit, Exit, Record, Withdraw, Framed, RowKept
<1>4. ASSUME NEW c \in Clients, c # r, SidecarReplies(c) \/ PollFails(c)
      PROVE  Framed(r)
  BY <1>4 DEF SidecarReplies, PollFails, Reply, ReplyWith, Lose, Framed, RowKept
<1>5. CASE UNCHANGED vars
  BY <1>5 DEF vars, Framed, RowKept
<1> QED BY <1>1, <1>2, <1>3, <1>4, <1>5

\* A run's own coroutine, requests and polls.
LEMMA OwnExecKeeps ==
    ASSUME RunsInv, NEW r \in Runs, TypeOK', ContractInv',
           \A j \in Jobs : ContractAdvances(j),
           CreateRun(r) \/ Age(r) \/ ExecStep(r) \/ ExecTimesOut(r)
    PROVE  RunFacts(r)'
<1>0. /\ r \in Clients /\ TypeOK /\ RunFacts(r) /\ row[r] \in Row
      /\ row \in [Runs -> Row] /\ poll \in [Clients -> Polls]
      /\ exec[r] \in {"none", "queued", "prep", "posting", "stream",
                     "finishing", "end", "dead"}
      /\ DOMAIN exec = Runs /\ DOMAIN post = Runs
  BY ClientsAssumption DEF RunsInv, TypeOK, ContractTypeOK
<1> USE DEF backendVars, contractVars
<1>1. CASE CreateRun(r)
  <2>1. /\ row'[r] = NewRow /\ exec'[r] = "queued"
        /\ UNCHANGED <<post, cancel, notified, owner, poll>>
    BY <1>0, <1>1 DEF CreateRun
  <2>2. row[r].status = "absent"
    BY <1>1 DEF CreateRun
  <2> QED BY <1>0, <2>1, <2>2 DEF RunFacts, NewRow
<1>2. CASE ExecStoresJob(r)
  <2>1. PICK j \in Jobs : /\ owner[j] = r /\ entry[j] # "unnamed"
                          /\ row' = [row EXCEPT ![r].job = j]
    BY <1>2 DEF ExecStoresJob
  <2>2. row'[r].job = j /\ row'[r].status = row[r].status
    BY <1>0, <2>1 DEF Row
  <2>3. /\ exec[r] = "posting" /\ exec'[r] = "stream" /\ post[r] = "answered"
        /\ UNCHANGED <<post, cancel, notified, owner, poll, entry, proc>>
    BY <1>0, <1>2 DEF ExecStoresJob
  <2>4. row[r].job = None /\ poll[r].pc = "idle" /\ r \notin notified
        /\ row[r].status # "success" /\ row[r].status # "absent"
    BY <1>0, <2>3 DEF RunFacts
  <2>5. j # None
    BY ContractAssumption
  <2> QED BY <2>1, <2>2, <2>3, <2>4, <2>5 DEF RunFacts, Told
<1>3. CASE ExecFinishes(r)
  <2>1. RowKept(r) /\ owner' = owner
    BY <1>3, ExecRow DEF ExecFinishes, ExecStep, ExecStoresJob
  <2>2. /\ row'[r].job # None =>
              owner'[row'[r].job] = r /\ entry'[row'[r].job] # "unnamed"
        /\ row'[r].status = "success" =>
              row'[r].job # None /\ proc'[row'[r].job] = "ok"
        /\ r \in notified => /\ row'[r].job # None
                             /\ row'[r].job \in registered' =>
                                   proc'[row'[r].job] = "bad"
    BY <2>1, RowFactsKept
  <2>3. /\ exec[r] = "finishing" /\ poll[r].pc = "found" /\ poll[r].done
        /\ exec'[r] = "end" /\ poll'[r] = NoPoll
        /\ UNCHANGED <<post, cancel, entry, proc>>
    BY <1>0, <1>3 DEF ExecFinishes, Hangup, RunFacts
  <2>4. /\ row[r].job # None /\ poll[r].job = row[r].job
        /\ row'[r].job = row[r].job
    BY <1>0, <2>1, <2>3 DEF RunFacts, RowKept, Told
  <2>5. r \in notified' => r \in notified \/ poll[r].code # "ok"
    BY <1>3 DEF ExecFinishes, Notifies
  <2>6. poll[r].code # "ok" /\ row[r].job \in registered =>
           proc[row[r].job] = "bad"
    BY <1>0, <2>3, <2>4 DEF RunsInv, ContractInv, PollFacts, ExitCodes
  <2>7. r \in notified' => /\ row'[r].job # None
                           /\ row'[r].job \in registered' =>
                                 proc'[row'[r].job] = "bad"
    BY <2>2, <2>3, <2>4, <2>5, <2>6 DEF registered
  <2> QED BY <1>0, <2>1, <2>2, <2>3, <2>4, <2>7
          DEF RunFacts, RowKept, NoPoll, Unanswered, Told
<1>4. CASE /\ Age(r) \/ ExecStep(r) \/ ExecTimesOut(r)
           /\ ~ExecStoresJob(r) /\ ~ExecFinishes(r)
  <2>1. UNCHANGED <<cancel, notified, owner>>
    BY <1>4 DEF Age, ExecStep, ExecBegins, ExecFailsInPrep, ExecPosts,
       ExecFailsToStart, ExecTimesOut, ExecPolls, ExecReads, ExecOrphaned,
       ExecRetries
  <2>2. RowKept(r)
    BY <1>4, ExecRow
  <2>3. /\ row'[r].job # None =>
              owner'[row'[r].job] = r /\ entry'[row'[r].job] # "unnamed"
        /\ row'[r].status = "success" =>
              row'[r].job # None /\ proc'[row'[r].job] = "ok"
        /\ r \in notified => /\ row'[r].job # None
                             /\ row'[r].job \in registered' =>
                                   proc'[row'[r].job] = "bad"
    BY <2>1, <2>2, RowFactsKept
  <2>4. CASE Age(r) \/ ExecBegins(r)
    BY <1>0, <2>1, <2>2, <2>3, <2>4 DEF Age, ExecBegins, RunFacts, RowKept
  <2>5. CASE ExecFailsInPrep(r) \/ ExecFailsToStart(r) \/ ExecTimesOut(r)
    BY <1>0, <2>1, <2>2, <2>3, <2>5
    DEF ExecFailsInPrep, ExecFailsToStart, ExecTimesOut, RunFacts, RowKept
  <2>6. CASE ExecPosts(r)
    BY <1>0, <2>1, <2>2, <2>3, <2>6 DEF ExecPosts, RunFacts, RowKept
  <2>7. CASE ExecOrphaned(r) \/ ExecRetries(r)
    BY <1>0, <2>1, <2>2, <2>3, <2>7
    DEF ExecOrphaned, ExecRetries, Hangup, NoPoll, Unanswered, RunFacts,
        RowKept, Told
  <2>8. CASE ExecPolls(r)
    <3>1. /\ exec[r] = "stream" /\ UNCHANGED <<exec, post, row>>
          /\ poll'[r].job = row[r].job
      BY <1>0, <2>8 DEF ExecPolls, Lookup, Unanswered
    <3> QED BY <1>0, <2>1, <2>2, <2>3, <3>1 DEF RunFacts, RowKept
  <2>9. CASE ExecReads(r)
    <3>1. /\ exec[r] = "stream" /\ poll[r].pc = "found"
          /\ UNCHANGED <<post, cancel>>
          /\ \/ poll[r].done /\ exec'[r] = "finishing" /\ poll' = poll
             \/ exec'[r] = "stream" /\ poll'[r] = NoPoll
      BY <1>0, <2>9 DEF ExecReads, Hangup
    <3> QED BY <1>0, <2>1, <2>2, <2>3, <3>1
            DEF RunFacts, RowKept, NoPoll, Unanswered, Told
  <2> QED BY <1>4, <2>4, <2>5, <2>6, <2>7, <2>8, <2>9 DEF ExecStep
<1> QED BY <1>1, <1>2, <1>3, <1>4 DEF ExecStep

LEMMA OwnRequestsKeep ==
    ASSUME RunsInv, NEW r \in Runs, TypeOK',
           \A j \in Jobs : ContractAdvances(j),
           \/ CancelStep(r) \/ SidecarStep(r)
           \/ SidecarReplies(r) \/ PollFails(r)
           \/ SidecarCrashes \/ BackendCrashes
    PROVE  RunFacts(r)'
<1>0. /\ r \in Clients /\ TypeOK /\ RunFacts(r) /\ row[r] \in Row
      /\ poll \in [Clients -> Polls]
      /\ \A j \in Jobs : OwnerFacts(j)
  BY ClientsAssumption DEF RunsInv, TypeOK, ContractTypeOK
<1> USE DEF backendVars, contractVars
<1>1. RowKept(r) /\ (UNCHANGED row \/ CancelStep(r))
  <2>1. CASE CancelStep(r)
    BY <2>1, CancelRow
  <2>2. CASE UNCHANGED row
    BY <2>2 DEF RowKept
  <2> QED BY <2>1, <2>2 DEF SidecarStep, SidecarLaunches, SidecarAnswers,
          SidecarRefuses, SidecarReplies, PollFails, SidecarCrashes,
          BackendCrashes
<1>2. /\ \A j \in Jobs : owner[j] = r => owner'[j] = r
      /\ notified' = notified
      /\ SidecarLaunches(r) \/ owner' = owner
  BY <1>0, DisjointAssumption DEF CancelStep, CancelPending, CancelSends, CancelArrives,
     CancelLost, CancelCommits, SidecarStep, SidecarLaunches, SidecarAnswers,
     SidecarRefuses, SidecarReplies, PollFails, SidecarCrashes, BackendCrashes,
     Launch, OwnerFacts, TypeOK
<1>3. /\ row'[r].job # None =>
            owner'[row'[r].job] = r /\ entry'[row'[r].job] # "unnamed"
      /\ row'[r].status = "success" =>
            row'[r].job # None /\ proc'[row'[r].job] = "ok"
      /\ r \in notified => /\ row'[r].job # None
                           /\ row'[r].job \in registered' =>
                                 proc'[row'[r].job] = "bad"
  BY <1>1, <1>2, RowFactsKept
<1>4. CASE CancelStep(r)
  <2>1. UNCHANGED <<exec, post, poll>>
    BY <1>4 DEF CancelStep, CancelPending, CancelSends, CancelArrives,
       CancelLost, CancelCommits, Withdraw
  <2>2. cancel'[r] # "idle" => row[r].status # "absent"
    BY <1>0, <1>4 DEF CancelStep, CancelPending, CancelSends, CancelArrives,
       CancelLost, CancelCommits, RunFacts, TypeOK, Active
  <2>3. owner' = owner
    BY <1>4 DEF CancelStep, CancelPending, CancelSends, CancelArrives,
       CancelLost, CancelCommits
  <2> QED BY <1>0, <1>1, <1>2, <1>3, <2>1, <2>2, <2>3 DEF RunFacts, RowKept
<1>5. CASE SidecarStep(r)
  <2>1. UNCHANGED <<exec, poll, cancel>>
    BY <1>5 DEF SidecarStep, SidecarLaunches, SidecarAnswers, SidecarRefuses,
       Launch, Register
  <2>2. /\ post[r] \in {"sent", "taken"}
        /\ post'[r] \in {"taken", "answered", "refused"}
    BY <1>0, <1>5 DEF SidecarStep, SidecarLaunches, SidecarAnswers,
       SidecarRefuses, TypeOK
  <2> QED BY <1>0, <1>1, <1>2, <1>3, <2>1, <2>2 DEF RunFacts, RowKept
<1>6. CASE SidecarReplies(r) \/ PollFails(r)
  <2>1. UNCHANGED <<exec, post, cancel, owner, row>>
    BY <1>6 DEF SidecarReplies, PollFails
  <2>2. /\ poll[r].pc = "looked"
        /\ poll'[r].pc \in Told => poll'[r].job = poll[r].job
    BY <1>0, <1>6 DEF SidecarReplies, PollFails, Reply, ReplyWith, Replied, Lose,
       LostPoll, Unanswered, Told
  <2> QED BY <1>0, <1>1, <1>2, <1>3, <2>1, <2>2 DEF RunFacts, RowKept, Told
<1>7. CASE SidecarCrashes
  <2>1. UNCHANGED <<exec, cancel, owner, row>>
    BY <1>7 DEF SidecarCrashes
  <2>2. poll'[r] = poll[r] \/ (poll[r].pc = "looked" /\ poll'[r] = LostPoll)
    BY <1>0, <1>7 DEF SidecarCrashes, Crash
  <2>3. post'[r] = post[r] \/ (post[r] \in {"sent", "taken"} /\ post'[r] = "refused")
    BY <1>7 DEF SidecarCrashes
  <2> QED BY <1>0, <1>1, <1>2, <1>3, <2>1, <2>2, <2>3
          DEF RunFacts, RowKept, LostPoll, Unanswered, Told
<1>8. CASE BackendCrashes
  <2>1. UNCHANGED <<post, owner, row>> /\ poll'[r] = NoPoll /\ cancel'[r] = "idle"
    BY <1>0, <1>8 DEF BackendCrashes, HangupAll
  <2>2. \/ exec[r] \in {"none", "end"} /\ exec'[r] = exec[r]
        \/ exec[r] # "none" /\ exec'[r] = "dead"
    BY <1>8 DEF BackendCrashes
  <2> QED BY <1>0, <1>1, <1>2, <1>3, <2>1, <2>2
          DEF RunFacts, RowKept, NoPoll, Unanswered, Told
<1> QED BY <1>4, <1>5, <1>6, <1>7, <1>8

LEMMA RunFactsNext ==
    ASSUME RunsInv, [Next]_vars, NEW r \in Runs, TypeOK', ContractInv',
           \A j \in Jobs : ContractAdvances(j)
    PROVE  RunFacts(r)'
<1>1. CASE Framed(r)
  BY <1>1, FramedKeeps
<1>2. CASE UNCHANGED vars
  BY <1>1, <1>2, OthersFramed
<1>3. ASSUME NEW s \in Runs,
             \/ CreateRun(s) \/ Age(s) \/ ExecStep(s) \/ ExecTimesOut(s)
             \/ CancelStep(s) \/ SidecarStep(s)
      PROVE  RunFacts(r)'
  <2>1. CASE r = s
    BY <1>3, <2>1, OwnExecKeeps, OwnRequestsKeep
  <2>2. CASE r # s
    BY <1>1, <1>3, <2>2, OtherRunsFramed
  <2> QED BY <2>1, <2>2
<1>4. CASE \E c \in Clients : SidecarReplies(c) \/ PollFails(c)
  <2>1. PICK c \in Clients : SidecarReplies(c) \/ PollFails(c)
    BY <1>4
  <2>2. CASE c = r
    BY <2>1, <2>2, OwnRequestsKeep
  <2>3. CASE c # r
    BY <1>1, <2>1, <2>3, OthersFramed
  <2> QED BY <2>2, <2>3
<1>5. CASE SidecarCrashes \/ BackendCrashes
  BY <1>5, OwnRequestsKeep
<1>6. CASE \/ \E v \in Viewers : ViewerStep(v)
           \/ \E k \in Checkers : CheckerStep(k)
           \/ \E j \in Jobs : JobRuns(j)
  BY <1>1, <1>6, OthersFramed
<1> QED BY <1>2, <1>3, <1>4, <1>5, <1>6 DEF Next

-----------------------------------------------------------------------------
\* A row's status and job, for every actor but the run's own creation and
\* the moment its job id is stored.
LEMMA RowNext ==
    ASSUME RunsInv, [Next]_vars, NEW r \in Runs
    PROVE  /\ row[r].status # "absent" => row'[r].status # "absent"
           /\ row[r].job # None => row'[r].job = row[r].job
<1>0. RunFacts(r) /\ TypeOK /\ row \in [Runs -> Row]
  BY DEF RunsInv, TypeOK
<1>1. CASE RowKept(r)
  BY <1>1 DEF RowKept
<1>2. CASE CreateRun(r)
  BY <1>0, <1>2 DEF CreateRun, RunFacts
<1>3. CASE ExecStoresJob(r)
  BY <1>0, <1>3 DEF ExecStoresJob, RunFacts, Row
<1>4. CASE \E s \in Runs \ {r} : \/ CreateRun(s) \/ Age(s) \/ ExecStep(s)
                                 \/ ExecTimesOut(s) \/ CancelStep(s)
                                 \/ SidecarStep(s)
  BY <1>1, <1>4, OtherRunsFramed DEF Framed
<1>5. CASE \/ (Age(r) \/ ExecStep(r) \/ ExecTimesOut(r)) /\ ~ExecStoresJob(r)
           \/ CancelStep(r)
  BY <1>1, <1>5, ExecRow, CancelRow
<1>6. CASE \/ \E v \in Viewers : ViewerStep(v)
           \/ \E k \in Checkers : CheckerStep(k)
  BY <1>1, <1>6, ViewerRow, CheckerRow
<1>7. CASE UNCHANGED row
  BY <1>7
<1>8. CASE \/ SidecarStep(r) \/ \E j \in Jobs : JobRuns(j)
           \/ \E c \in Clients : SidecarReplies(c) \/ PollFails(c)
           \/ SidecarCrashes \/ BackendCrashes \/ UNCHANGED vars
  BY <1>7, <1>8 DEF SidecarStep, SidecarLaunches, SidecarAnswers,
     SidecarRefuses, JobRuns, SidecarReplies, PollFails, SidecarCrashes,
     BackendCrashes, vars, backendVars
<1> QED BY <1>2, <1>3, <1>4, <1>5, <1>6, <1>8 DEF Next

\* Only the sidecar's launch gives a job an owner, and only that step starts
\* the job's process.
LEMMA OwnerNext ==
    ASSUME RunsInv, [Next]_vars, TypeOK', NEW j \in Jobs,
           \A i \in Jobs : ContractAdvances(i)
    PROVE  OwnerFacts(j)'
<1>0. /\ TypeOK /\ \A i \in Jobs : OwnerFacts(i)
      /\ owner \in [Jobs -> Runs \cup {None}] /\ proc \in [Jobs -> ProcState]
  BY DEF RunsInv, TypeOK, ContractTypeOK
<1>1. CASE \E r \in Runs : SidecarLaunches(r)
  <2>1. PICK r \in Runs, i \in Jobs :
             /\ post[r] = "sent" /\ Launch(i)
             /\ owner' = [owner EXCEPT ![i] = r]
    BY <1>1 DEF SidecarLaunches
  <2>2. owner[i] = None /\ proc' = [proc EXCEPT ![i] = "alive"]
    BY <1>0, <2>1 DEF Launch, OwnerFacts
  <2>3. r # None /\ \A k \in Jobs : owner[k] # r
    BY <1>0, <2>1, DisjointAssumption DEF RunsInv, RunFacts
  <2>4. \A k \in Jobs : owner'[k] = IF k = i THEN r ELSE owner[k]
    BY <1>0, <2>1
  <2>5. owner'[j] = None <=> proc'[j] = "absent"
    BY <1>0, <2>2, <2>3, <2>4 DEF OwnerFacts
  <2>6. ASSUME NEW k \in Jobs, owner'[k] = owner'[j], owner'[k] # None
        PROVE  k = j
    BY <1>0, <2>3, <2>4, <2>6 DEF OwnerFacts
  <2> QED BY <2>5, <2>6 DEF OwnerFacts
<1>2. CASE ~(\E r \in Runs : SidecarLaunches(r))
  <2>1. owner' = owner
    BY <1>2 DEF Next, CreateRun, Age, ExecStep, ExecBegins, ExecFailsInPrep,
       ExecPosts, ExecFailsToStart, ExecTimesOut, ExecStoresJob, ExecPolls,
       ExecReads, ExecFinishes, ExecOrphaned, ExecRetries, CancelStep, CancelPending,
       CancelSends, CancelArrives, CancelLost, CancelCommits, SidecarStep,
       SidecarAnswers, SidecarRefuses, ViewerStep, ViewerOpens, ViewerFindsJob,
       ViewerGivesUp, ViewerLeaves, ViewerPolls, ViewerReads, ViewerFinishes,
       ViewerOrphaned, ViewerRetries, CheckerStep, CheckerLoads, CheckerProbes,
       CheckerHears, CheckerCommits, JobRuns, SidecarReplies, PollFails,
       SidecarCrashes, BackendCrashes, vars, backendVars
  <2>2. proc'[j] = "absent" <=> proc[j] = "absent"
    <3>1. CASE UNCHANGED proc
      BY <3>1
    <3>2. CASE \E i \in Jobs : Exit(i)
      BY <1>0, <3>2 DEF Exit, ExitCodes
    <3>3. CASE Crash
      BY <1>0, <3>3 DEF Crash
    <3>4. ASSUME NEW r \in Runs,
                 \/ CreateRun(r) \/ Age(r) \/ ExecStep(r) \/ ExecTimesOut(r)
                 \/ CancelStep(r) \/ SidecarAnswers(r) \/ SidecarRefuses(r)
          PROVE  UNCHANGED proc
      BY <3>4 DEF CreateRun, Age, ExecStep, ExecBegins, ExecFailsInPrep,
         ExecPosts, ExecFailsToStart, ExecTimesOut, ExecStoresJob, ExecPolls,
         ExecReads, ExecFinishes, ExecOrphaned, ExecRetries, CancelStep, CancelPending,
         CancelSends, CancelArrives, CancelLost, CancelCommits, SidecarAnswers,
         SidecarRefuses, Withdraw, Register, Lookup, Hangup, contractVars,
         backendVars
    <3>5. ASSUME NEW v \in Viewers, ViewerStep(v)
          PROVE  UNCHANGED proc
      BY <3>5 DEF ViewerStep, ViewerOpens, ViewerFindsJob, ViewerGivesUp,
         ViewerLeaves, ViewerPolls, ViewerReads, ViewerFinishes,
         ViewerOrphaned, ViewerRetries, Lookup, Hangup, contractVars
    <3>6. ASSUME NEW k \in Checkers, CheckerStep(k)
          PROVE  UNCHANGED proc
      BY <3>6 DEF CheckerStep, CheckerLoads, CheckerProbes, CheckerHears,
         CheckerCommits, Lookup, Hangup, contractVars
    <3>7. ASSUME NEW c \in Clients, SidecarReplies(c) \/ PollFails(c)
          PROVE  UNCHANGED proc
      BY <3>7 DEF SidecarReplies, PollFails, Reply, ReplyWith, Lose
    <3>8. ASSUME NEW i \in Jobs, JobRuns(i)
          PROVE  UNCHANGED proc \/ Exit(i)
      BY <3>8 DEF JobRuns, Emit, Record, Withdraw
    <3>9. CASE SidecarCrashes \/ BackendCrashes \/ UNCHANGED vars
      BY <3>1, <3>3, <3>9 DEF SidecarCrashes, BackendCrashes, HangupAll, vars,
         contractVars
    <3> QED BY <1>2, <3>1, <3>2, <3>4, <3>5, <3>6, <3>7, <3>8, <3>9
            DEF Next, SidecarStep
  <2> QED BY <1>0, <2>1, <2>2 DEF OwnerFacts
<1> QED BY <1>1, <1>2

\* The poll of a viewer or a checker, when it is not that actor's own step:
\* it may be answered, lost or reset, and is about the same job.
PollFollows(c) ==
    /\ poll'[c].pc # "idle" => poll[c].pc # "idle"
    /\ poll'[c].pc \in Told => poll[c].pc \in Told /\ poll'[c].job = poll[c].job

LEMMA OthersLeavePolls ==
    ASSUME RunsInv, NEW c \in Viewers \cup Checkers,
           \/ \E r \in Runs : \/ CreateRun(r) \/ Age(r) \/ ExecStep(r)
                              \/ ExecTimesOut(r) \/ CancelStep(r)
                              \/ SidecarStep(r)
           \/ \E v \in Viewers \ {c} : ViewerStep(v)
           \/ \E k \in Checkers \ {c} : CheckerStep(k)
           \/ \E j \in Jobs : JobRuns(j)
           \/ \E d \in Clients : SidecarReplies(d) \/ PollFails(d)
           \/ SidecarCrashes \/ BackendCrashes \/ UNCHANGED vars
    PROVE  PollFollows(c)
<1>0. /\ c \in Clients /\ poll \in [Clients -> Polls] /\ c \notin Runs
      /\ Runs \subseteq Clients /\ Viewers \subseteq Clients
      /\ Checkers \subseteq Clients
  BY ClientsAssumption, DisjointAssumption DEF RunsInv, TypeOK, ContractTypeOK
<1> USE <1>0 DEF PollFollows, backendVars, contractVars
<1>1. CASE poll'[c] = poll[c]
  BY <1>1
<1>2. ASSUME NEW r \in Runs,
             \/ CreateRun(r) \/ Age(r) \/ ExecStep(r) \/ ExecTimesOut(r)
             \/ CancelStep(r) \/ SidecarStep(r)
      PROVE  poll'[c] = poll[c]
  BY <1>2 DEF CreateRun, Age, ExecStep, ExecBegins, ExecFailsInPrep,
     ExecPosts, ExecFailsToStart, ExecTimesOut, ExecStoresJob, ExecPolls,
     ExecReads, ExecFinishes, ExecOrphaned, ExecRetries, CancelStep, CancelPending,
     CancelSends, CancelArrives, CancelLost, CancelCommits, SidecarStep,
     SidecarLaunches, SidecarAnswers, SidecarRefuses, Withdraw, Register,
     Launch, Lookup, Hangup
<1>3. ASSUME NEW v \in Viewers \ {c}, ViewerStep(v)
      PROVE  poll'[c] = poll[c]
  BY <1>3 DEF ViewerStep, ViewerOpens, ViewerFindsJob, ViewerGivesUp,
     ViewerLeaves, ViewerPolls, ViewerReads, ViewerFinishes, ViewerOrphaned,
     ViewerRetries, Lookup, Hangup
<1>4. ASSUME NEW k \in Checkers \ {c}, CheckerStep(k)
      PROVE  poll'[c] = poll[c]
  BY <1>4 DEF CheckerStep, CheckerLoads, CheckerProbes, CheckerHears,
     CheckerCommits, Lookup, Hangup
<1>5. ASSUME NEW j \in Jobs, JobRuns(j)
      PROVE  poll'[c] = poll[c]
  BY <1>5 DEF JobRuns, Emit, Exit, Record, Withdraw
<1>6. ASSUME NEW d \in Clients, SidecarReplies(d) \/ PollFails(d)
      PROVE  PollFollows(c)
  BY <1>6 DEF SidecarReplies, PollFails, Reply, ReplyWith, Replied, Lose, LostPoll,
     Unanswered, Told
<1>7. CASE SidecarCrashes \/ BackendCrashes
  BY <1>7 DEF SidecarCrashes, BackendCrashes, Crash, HangupAll, NoPoll,
     LostPoll, Unanswered, Told
<1>8. CASE UNCHANGED vars
  BY <1>1, <1>8 DEF vars
<1> HIDE DEF PollFollows
<1> QED BY <1>1, <1>2, <1>3, <1>4, <1>5, <1>6, <1>7, <1>8

\* A viewer streams the job of its run's row.
LEMMA ViewerNext ==
    ASSUME RunsInv, [Next]_vars, TypeOK', NEW v \in Viewers
    PROVE  ViewerFacts(v)'
<1>0. /\ TypeOK /\ ViewerFacts(v) /\ v \in Clients /\ v \notin Checkers
      /\ poll \in [Clients -> Polls]
      /\ \A r \in Runs : /\ row[r].status # "absent" => row'[r].status # "absent"
                         /\ row[r].job # None => row'[r].job = row[r].job
  BY ClientsAssumption, DisjointAssumption, RowNext
  DEF RunsInv, TypeOK, ContractTypeOK
<1>1. ASSUME PollFollows(v),
             \/ viewer'[v] = viewer[v]
             \/ viewer'[v] = ClosedViewer /\ poll'[v].pc = "idle"
             \/ viewer[v].pc = "idle" /\ viewer'[v] = NoViewer
      PROVE  ViewerFacts(v)'
  BY <1>0, <1>1
  DEF ViewerFacts, PollFollows, NoViewer, ClosedViewer, Told
<1>2. CASE ViewerStep(v)
  <2> USE DEF backendVars, contractVars
  <2>1. CASE \E r \in Runs : ViewerOpens(v, r)
    <3>1. PICK r \in Runs : ViewerOpens(v, r)
      BY <2>1
    <3>2. /\ viewer'[v].run = r /\ row[r].status # "absent" /\ row' = row
          /\ viewer'[v].pc = "stream" => row[r].job # None
          /\ viewer[v].pc = "idle" /\ poll' = poll
      BY <1>0, <3>1 DEF ViewerOpens, TypeOK, Active
    <3> QED BY <1>0, <3>2 DEF ViewerFacts, Told
  <2>2. CASE ViewerFindsJob(v)
    <3>1. /\ viewer'[v].run = viewer[v].run /\ viewer'[v].pc = "stream"
          /\ viewer[v].pc = "wait" /\ row[viewer[v].run].job # None
          /\ UNCHANGED <<row, poll>>
      BY <1>0, <2>2 DEF ViewerFindsJob, TypeOK
    <3> QED BY <1>0, <3>1 DEF ViewerFacts, Told
  <2>3. CASE ViewerGivesUp(v) \/ ViewerLeaves(v) \/ ViewerFinishes(v)
             \/ ViewerOrphaned(v)
    <3>1. viewer'[v] = ClosedViewer
      BY <1>0, <2>3 DEF ViewerGivesUp, ViewerLeaves, ViewerFinishes,
         ViewerOrphaned, TypeOK
    <3>2. poll'[v].pc = "idle"
      BY <1>0, <2>3 DEF ViewerGivesUp, ViewerLeaves, ViewerFinishes,
         ViewerOrphaned, ViewerFacts, Hangup, NoPoll, Unanswered
    <3> QED BY <3>1, <3>2 DEF ViewerFacts, ClosedViewer, Told
  <2>4. CASE ViewerPolls(v)
    <3>1. /\ viewer[v].pc = "stream" /\ UNCHANGED <<viewer, row>>
          /\ poll'[v].job = row[viewer[v].run].job
      BY <1>0, <2>4 DEF ViewerPolls, Lookup, Unanswered
    <3> QED BY <1>0, <3>1 DEF ViewerFacts
  <2>5. CASE ViewerReads(v) \/ ViewerRetries(v)
    <3>1. viewer' = viewer /\ poll'[v] \in {poll[v], NoPoll}
      BY <1>0, <2>5 DEF ViewerReads, ViewerRetries, Hangup
    <3> QED BY <1>0, <3>1 DEF ViewerFacts, NoPoll, Unanswered, Told
  <2> QED BY <1>2, <2>1, <2>2, <2>3, <2>4, <2>5 DEF ViewerStep
<1>3. CASE ~ViewerStep(v)
  <2>1. PollFollows(v)
    BY <1>0, <1>3, OthersLeavePolls DEF Next
  <2>2. ASSUME NEW u \in Viewers, u # v, ViewerStep(u)
        PROVE  viewer'[v] = viewer[v]
    BY <1>0, <2>2 DEF ViewerStep, ViewerOpens, ViewerFindsJob, ViewerGivesUp,
       ViewerLeaves, ViewerPolls, ViewerReads, ViewerFinishes, ViewerOrphaned,
       ViewerRetries, backendVars, TypeOK
  <2>3. ASSUME NEW r \in Runs,
               \/ CreateRun(r) \/ Age(r) \/ ExecStep(r) \/ ExecTimesOut(r)
               \/ CancelStep(r) \/ SidecarStep(r)
        PROVE  viewer' = viewer
    BY <2>3 DEF CreateRun, Age, ExecStep, ExecBegins, ExecFailsInPrep,
       ExecPosts, ExecFailsToStart, ExecTimesOut, ExecStoresJob, ExecPolls,
       ExecReads, ExecFinishes, ExecOrphaned, ExecRetries, CancelStep, CancelPending,
       CancelSends, CancelArrives, CancelLost, CancelCommits, SidecarStep,
       SidecarLaunches, SidecarAnswers, SidecarRefuses, backendVars
  <2>4. ASSUME NEW k \in Checkers, CheckerStep(k)
        PROVE  viewer' = viewer
    BY <2>4 DEF CheckerStep, CheckerLoads, CheckerProbes, CheckerHears,
       CheckerCommits, backendVars
  <2>5. CASE \/ \E j \in Jobs : JobRuns(j)
             \/ \E d \in Clients : SidecarReplies(d) \/ PollFails(d)
             \/ SidecarCrashes \/ UNCHANGED vars
    BY <1>1, <2>1, <2>5 DEF JobRuns, SidecarReplies, PollFails, SidecarCrashes,
       vars, backendVars
  <2>6. CASE BackendCrashes
    <3>1. poll'[v].pc = "idle"
      BY <1>0, <2>6 DEF BackendCrashes, HangupAll, NoPoll, Unanswered
    <3>2. \/ viewer'[v] = ClosedViewer
          \/ viewer[v].pc = "idle" /\ viewer'[v] = NoViewer
      BY <2>6 DEF BackendCrashes
    <3> QED BY <1>1, <2>1, <3>1, <3>2
  <2> QED BY <1>1, <1>3, <2>1, <2>2, <2>3, <2>4, <2>5, <2>6 DEF Next
<1> QED BY <1>2, <1>3

\* A checker that was told 404 has the proof: its job is out for good.
LEMMA CheckerNext ==
    ASSUME RunsInv, [Next]_vars, TypeOK', ContractInv',
           \A j \in Jobs : ContractAdvances(j), NEW k \in Checkers
    PROVE  CheckerFacts(k)'
<1>0. /\ TypeOK /\ CheckerFacts(k) /\ k \in Clients /\ k \notin Viewers
      /\ poll \in [Clients -> Polls] /\ checker[k].seen.job \in Jobs \cup {None}
      /\ \A r \in Runs : row[r].status # "absent" => row'[r].status # "absent"
  BY ClientsAssumption, DisjointAssumption, RowNext
  DEF RunsInv, TypeOK, ContractTypeOK, Row
<1>1. ASSUME PollFollows(k),
             \/ checker'[k] = checker[k]
             \/ checker'[k] = NoCheck /\ poll'[k].pc = "idle"
      PROVE  CheckerFacts(k)'
  <2>1. CASE checker'[k] = checker[k]
    BY <1>0, <1>1, <2>1 DEF CheckerFacts, PollFollows, ContractAdvances
  <2>2. CASE checker'[k] = NoCheck /\ poll'[k].pc = "idle"
    BY <2>2 DEF CheckerFacts, NoCheck, Told
  <2> QED BY <1>1, <2>1, <2>2
<1>2. CASE CheckerStep(k)
  <2> USE DEF backendVars, contractVars
  <2>1. CASE \E r \in Runs : CheckerLoads(k, r)
    <3>1. PICK r \in Runs : CheckerLoads(k, r)
      BY <2>1
    <3>2. /\ checker[k].pc = "idle" /\ row[r].status # "absent"
          /\ UNCHANGED <<row, poll>>
          /\ checker'[k].run = r /\ checker'[k].seen = row[r]
          /\ checker'[k].pc = IF row[r].job = None THEN "marked" ELSE "probe"
      BY <1>0, <3>1 DEF CheckerLoads, TypeOK, Active
    <3> QED BY <1>0, <3>2 DEF CheckerFacts, Told
  <2>2. CASE CheckerProbes(k)
    <3>1. /\ checker[k].pc = "probe" /\ UNCHANGED <<checker, row, entry>>
          /\ poll'[k].job = checker[k].seen.job
      BY <1>0, <2>2 DEF CheckerProbes, Lookup, Unanswered
    <3> QED BY <1>0, <3>1 DEF CheckerFacts
  <2>3. CASE CheckerHears(k)
    <3>1. /\ checker[k].pc = "probe" /\ UNCHANGED <<row, entry>>
          /\ poll'[k] = NoPoll
          /\ \/ checker'[k] = NoCheck
             \/ /\ poll[k].pc = "gone"
                /\ checker'[k] = [checker[k] EXCEPT !.pc = "marked"]
      BY <1>0, <2>3 DEF CheckerHears, Condemns, Hangup, TypeOK
    <3>2. CASE checker'[k] = NoCheck
      BY <3>1, <3>2 DEF CheckerFacts, NoCheck, NoPoll, Unanswered, Told
    <3>3. CASE /\ poll[k].pc = "gone"
               /\ checker'[k] = [checker[k] EXCEPT !.pc = "marked"]
      <4>1. /\ poll[k].job = checker[k].seen.job
            /\ entry[checker[k].seen.job] = "out"
        BY <1>0, <3>3 DEF CheckerFacts, Told, RunsInv, ContractInv, PollFacts
      <4>2. /\ checker'[k].run = checker[k].run /\ checker'[k].pc = "marked"
            /\ checker'[k].seen = checker[k].seen
        BY <1>0, <3>3 DEF TypeOK
      <4> QED BY <1>0, <3>1, <4>1, <4>2
              DEF CheckerFacts, NoPoll, Unanswered, Told
    <3> QED BY <3>1, <3>2, <3>3
  <2>4. CASE CheckerCommits(k)
    <3>1. /\ checker'[k] = NoCheck /\ poll' = poll /\ checker[k].pc = "marked"
      BY <1>0, <2>4 DEF CheckerCommits, TypeOK
    <3> QED BY <1>0, <3>1 DEF CheckerFacts, NoCheck, Told
  <2> QED BY <1>2, <2>1, <2>2, <2>3, <2>4 DEF CheckerStep
<1>3. CASE ~CheckerStep(k)
  <2>1. PollFollows(k)
    BY <1>0, <1>3, OthersLeavePolls DEF Next
  <2>2. ASSUME NEW u \in Checkers, u # k, CheckerStep(u)
        PROVE  checker'[k] = checker[k]
    BY <1>0, <2>2 DEF CheckerStep, CheckerLoads, CheckerProbes, CheckerHears,
       CheckerCommits, backendVars, TypeOK
  <2>3. ASSUME NEW r \in Runs,
               \/ CreateRun(r) \/ Age(r) \/ ExecStep(r) \/ ExecTimesOut(r)
               \/ CancelStep(r) \/ SidecarStep(r)
        PROVE  checker' = checker
    BY <2>3 DEF CreateRun, Age, ExecStep, ExecBegins, ExecFailsInPrep,
       ExecPosts, ExecFailsToStart, ExecTimesOut, ExecStoresJob, ExecPolls,
       ExecReads, ExecFinishes, ExecOrphaned, ExecRetries, CancelStep, CancelPending,
       CancelSends, CancelArrives, CancelLost, CancelCommits, SidecarStep,
       SidecarLaunches, SidecarAnswers, SidecarRefuses, backendVars
  <2>4. ASSUME NEW v \in Viewers, ViewerStep(v)
        PROVE  checker' = checker
    BY <2>4 DEF ViewerStep, ViewerOpens, ViewerFindsJob, ViewerGivesUp,
       ViewerLeaves, ViewerPolls, ViewerReads, ViewerFinishes, ViewerOrphaned,
       ViewerRetries, backendVars
  <2>5. CASE \/ \E j \in Jobs : JobRuns(j)
             \/ \E d \in Clients : SidecarReplies(d) \/ PollFails(d)
             \/ SidecarCrashes \/ UNCHANGED vars
    BY <1>1, <2>1, <2>5 DEF JobRuns, SidecarReplies, PollFails, SidecarCrashes,
       vars, backendVars
  <2>6. CASE BackendCrashes
    BY <1>0, <1>1, <2>1, <2>6 DEF BackendCrashes, HangupAll, NoPoll, Unanswered
  <2> QED BY <1>1, <1>3, <2>1, <2>2, <2>3, <2>4, <2>5, <2>6 DEF Next
<1> QED BY <1>2, <1>3

-----------------------------------------------------------------------------
\* The output of a run that nobody watches.

\* A step after which nobody watches is no viewer's, and nobody watched before.
LEMMA UnwatchedBefore ==
    ASSUME TypeOK, [Next]_vars, Unwatched'
    PROVE  Unwatched /\ \A v \in Viewers : ~ViewerStep(v)
<1> USE DEF Unwatched, TypeOK, backendVars
<1>1. ASSUME NEW v \in Viewers
      PROVE  ~ViewerStep(v)
  BY <1>1 DEF ViewerStep, ViewerOpens, ViewerFindsJob, ViewerGivesUp,
     ViewerLeaves, ViewerPolls, ViewerReads, ViewerFinishes, ViewerOrphaned,
     ViewerRetries, ClosedViewer
<1>2. CASE BackendCrashes
  BY <1>1, <1>2 DEF BackendCrashes, ClosedViewer
<1>3. CASE UNCHANGED viewer
  BY <1>1, <1>3
<1>4. ASSUME NEW r \in Runs,
             \/ CreateRun(r) \/ Age(r) \/ ExecStep(r) \/ ExecTimesOut(r)
             \/ CancelStep(r) \/ SidecarStep(r)
      PROVE  UNCHANGED viewer
  BY <1>4 DEF CreateRun, Age, ExecStep, ExecBegins, ExecFailsInPrep,
     ExecPosts, ExecFailsToStart, ExecTimesOut, ExecStoresJob, ExecPolls,
     ExecReads, ExecFinishes, ExecOrphaned, ExecRetries, CancelStep, CancelPending,
     CancelSends, CancelArrives, CancelLost, CancelCommits, SidecarStep,
     SidecarLaunches, SidecarAnswers, SidecarRefuses
<1>5. ASSUME NEW k \in Checkers, CheckerStep(k)
      PROVE  UNCHANGED viewer
  BY <1>5 DEF CheckerStep, CheckerLoads, CheckerProbes, CheckerHears,
     CheckerCommits
<1>6. CASE \/ \E j \in Jobs : JobRuns(j)
           \/ \E c \in Clients : SidecarReplies(c) \/ PollFails(c)
           \/ SidecarCrashes \/ UNCHANGED vars
  BY <1>3, <1>6 DEF JobRuns, SidecarReplies, PollFails, SidecarCrashes, vars
<1> HIDE DEF Unwatched
<1> QED BY <1>1, <1>2, <1>3, <1>4, <1>5, <1>6 DEF Next

Mixed(o) == \E i \in DOMAIN o : o[i] = 0

\* A step that reads nothing for a run: its output stays, or a message of the
\* backend is mixed in.
OutputKept(r) ==
    /\ row'[r].job = row[r].job
    /\ \/ row'[r].output = row[r].output
       \/ Mixed(row'[r].output) /\ ReadInOrder(row'[r].output, offset[r])
    /\ offset'[r] = offset[r]
    /\ exec'[r] \in {"none", "queued", "prep", "posting"} =>
          exec[r] \in {"none", "queued", "prep", "posting"}
    /\ exec'[r] = "stream" => exec[r] = "stream"
    /\ poll'[r] = poll[r] \/ poll'[r].pc \notin {"looked", "found"}

LEMMA OutputStays ==
    ASSUME RunsInv, [Next]_vars, NEW r \in Runs, OutputFacts(r), OutputKept(r)
    PROVE  OutputFacts(r)'
<1>1. ASSUME exec'[r] = "stream", poll'[r].pc \in {"looked", "found"}
      PROVE  poll'[r].from = offset'[r] /\ poll'[r].from <= poll'[r].to
  BY <1>1 DEF OutputKept, OutputFacts
<1>2. CASE row'[r].output = row[r].output
  BY <1>1, <1>2 DEF OutputFacts, OutputKept
<1>3. CASE Mixed(row'[r].output) /\ ReadInOrder(row'[r].output, offset[r])
  BY <1>1, <1>3 DEF OutputFacts, OutputKept, Mixed, IsPrefix
<1> QED BY <1>2, <1>3 DEF OutputKept

\* A message or a replacement at the end leaves what was read in order.
LEMMA MarkInOrder ==
    ASSUME NEW o \in Seq(0 .. MaxOut), NEW to \in Nat, ReadInOrder(o, to)
    PROVE  Mixed(Append(o, 0)) /\ ReadInOrder(Append(o, 0), to)
<1> DEFINE n == Len(o)
<1>1. /\ n \in Nat /\ DOMAIN o = 1 .. n /\ DOMAIN Append(o, 0) = 1 .. (n + 1)
      /\ Append(o, 0)[n + 1] = 0
      /\ \A i \in 1 .. n : Append(o, 0)[i] = o[i]
  OBVIOUS
<1> HIDE DEF n
<1>2. \A i \in DOMAIN Append(o, 0) : i = n + 1 \/ i \in 1 .. n
  BY <1>1
<1>3. \A i \in DOMAIN Append(o, 0) : Append(o, 0)[i] <= to
  BY <1>1, <1>2 DEF ReadInOrder
<1>4. ASSUME NEW i \in DOMAIN Append(o, 0), NEW j \in DOMAIN Append(o, 0),
             i < j, Append(o, 0)[j] # 0
      PROVE  Append(o, 0)[i] < Append(o, 0)[j]
  <2>1. j \in 1 .. n
    BY <1>1, <1>2, <1>4
  <2>2. i \in 1 .. n
    BY <1>1, <1>4, <2>1
  <2> QED BY <1>1, <1>4, <2>1, <2>2 DEF ReadInOrder, NothingTwice
<1>5. Mixed(Append(o, 0))
  <2>1. n + 1 \in DOMAIN Append(o, 0)
    BY <1>1
  <2> QED BY <1>1, <2>1 DEF Mixed
<1> QED BY <1>3, <1>4, <1>5 DEF ReadInOrder, NothingTwice

LEMMA LaterInOrder ==
    ASSUME NEW o \in Seq(0 .. MaxOut), NEW to \in Nat, NEW later \in Nat,
           to <= later, ReadInOrder(o, to)
    PROVE  ReadInOrder(o, later)
<1>1. DOMAIN o = 1 .. Len(o) /\ \A i \in 1 .. Len(o) : o[i] \in 0 .. MaxOut
  BY ContractAssumption
<1>2. \A i \in DOMAIN o : o[i] <= later
  BY <1>1, ContractAssumption DEF ReadInOrder
<1> QED BY <1>2 DEF ReadInOrder

LEMMA MessageAlone ==
    ASSUME NEW to \in Nat
    PROVE  Mixed(<<0>>) /\ ReadInOrder(<<0>>, to)
<1>1. DOMAIN <<0>> = {1} /\ <<0>>[1] = 0
  OBVIOUS
<1> HIDE DEF Mixed
<1>2. Mixed(<<0>>)
  BY <1>1 DEF Mixed
<1>3. \A i \in DOMAIN <<0>> : <<0>>[i] <= to
  BY <1>1
<1>4. \A i, j \in DOMAIN <<0>> : ~(i < j)
  BY <1>1
<1> QED BY <1>2, <1>3, <1>4 DEF ReadInOrder, NothingTwice

\* A chunk read at the offset goes on where the output ended.
LEMMA AppendedIsPrefix ==
    ASSUME NEW o \in Seq(0 .. MaxOut), NEW p \in Polls, p.from <= p.to,
           IsPrefix(o), ReadInOrder(o, p.from),
           (\A i \in DOMAIN o : o[i] # 0) => Len(o) = p.from
    PROVE  /\ IsPrefix(o \o Chunk(p))
           /\ ReadInOrder(o \o Chunk(p), p.to)
           /\ (\A i \in DOMAIN (o \o Chunk(p)) : (o \o Chunk(p))[i] # 0)
                 => Len(o \o Chunk(p)) = p.to
<1> DEFINE c == Chunk(p)
           n == p.to - p.from
<1>1. p.from \in Nat /\ p.to \in Nat /\ n \in Nat
  BY ContractAssumption DEF Polls
<1>2. c \in Seq(0 .. MaxOut)
  BY ChunkType
<1>3. DOMAIN c = 1 .. n /\ \A i \in 1 .. n : c[i] = p.from + i
  BY DEF Chunk
<1>4. Len(c) = n
  BY <1>1, <1>2, <1>3
<1> HIDE DEF c, n
<1>5. /\ Len(o \o c) = Len(o) + n /\ DOMAIN (o \o c) = 1 .. Len(o) + n
      /\ Len(o) \in Nat /\ DOMAIN o = 1 .. Len(o)
      /\ \A i \in 1 .. Len(o) : (o \o c)[i] = o[i]
  BY <1>1, <1>2, <1>4
<1>6. \A i \in (Len(o) + 1) .. (Len(o) + n) : (o \o c)[i] = c[i - Len(o)]
  BY <1>1, <1>2, <1>4
<1>12. \A i \in 1 .. (Len(o) + n) :
          \/ i \in 1 .. Len(o) /\ (o \o c)[i] = o[i]
          \/ /\ i \in (Len(o) + 1) .. (Len(o) + n)
             /\ (o \o c)[i] = p.from + (i - Len(o))
  <2> SUFFICES ASSUME NEW i \in 1 .. (Len(o) + n), i \notin 1 .. Len(o)
               PROVE  /\ i \in (Len(o) + 1) .. (Len(o) + n)
                      /\ (o \o c)[i] = p.from + (i - Len(o))
    BY <1>5
  <2>1. i \in (Len(o) + 1) .. (Len(o) + n) /\ i - Len(o) \in 1 .. n
    BY <1>1, <1>5
  <2> QED BY <1>3, <1>6, <2>1
<1>13. ReadInOrder(o \o c, p.to)
  <2>1. \A i \in 1 .. Len(o) : o[i] \in Nat /\ o[i] <= p.from
    BY <1>5, ContractAssumption DEF ReadInOrder
  <2>2. ASSUME NEW i \in DOMAIN (o \o c)
        PROVE  (o \o c)[i] <= p.to
    <3>1. CASE i \in 1 .. Len(o) /\ (o \o c)[i] = o[i]
      BY <1>1, <2>1, <3>1
    <3>2. CASE /\ i \in (Len(o) + 1) .. (Len(o) + n)
               /\ (o \o c)[i] = p.from + (i - Len(o))
      BY <1>1, <1>5, <3>2 DEF n
    <3> QED BY <1>5, <1>12, <3>1, <3>2
  <2>3. ASSUME NEW i \in DOMAIN (o \o c), NEW j \in DOMAIN (o \o c),
               i < j, (o \o c)[j] # 0
        PROVE  (o \o c)[i] < (o \o c)[j]
    <3>1. CASE j \in 1 .. Len(o) /\ (o \o c)[j] = o[j]
      <4>1. i \in 1 .. Len(o) /\ (o \o c)[i] = o[i]
        BY <1>1, <1>5, <2>3, <3>1
      <4> QED BY <1>5, <2>3, <3>1, <4>1 DEF ReadInOrder, NothingTwice
    <3>2. CASE /\ j \in (Len(o) + 1) .. (Len(o) + n)
               /\ (o \o c)[j] = p.from + (j - Len(o))
      <4>1. CASE i \in 1 .. Len(o) /\ (o \o c)[i] = o[i]
        BY <1>1, <1>5, <2>1, <3>2, <4>1
      <4>2. CASE /\ i \in (Len(o) + 1) .. (Len(o) + n)
                 /\ (o \o c)[i] = p.from + (i - Len(o))
        BY <1>1, <1>5, <2>3, <3>2, <4>2
      <4> QED BY <1>5, <1>12, <4>1, <4>2
    <3> QED BY <1>5, <1>12, <3>1, <3>2
  <2> QED BY <2>2, <2>3 DEF ReadInOrder, NothingTwice
<1>7. SUFFICES ASSUME \A i \in DOMAIN (o \o c) : (o \o c)[i] # 0
               PROVE  /\ \A i \in DOMAIN (o \o c) : (o \o c)[i] = i
                      /\ Len(o \o c) = p.to
  BY <1>13 DEF IsPrefix, c
<1>8. \A i \in DOMAIN o : o[i] # 0
  BY <1>1, <1>5, <1>7
<1>9. Len(o) = p.from /\ \A i \in DOMAIN o : o[i] = i
  BY <1>8 DEF IsPrefix
<1>10. Len(o \o c) = p.to
  BY <1>1, <1>5, <1>9 DEF n
<1>11. ASSUME NEW i \in DOMAIN (o \o c)
       PROVE  (o \o c)[i] = i
  <2>1. CASE i \in 1 .. Len(o)
    BY <1>5, <1>9, <2>1
  <2>2. CASE i \notin 1 .. Len(o)
    <3>1. i \in (Len(o) + 1) .. (Len(o) + n) /\ i - Len(o) \in 1 .. n
      BY <1>1, <1>5, <1>11, <2>2
    <3>2. (o \o c)[i] = p.from + (i - Len(o))
      BY <1>3, <1>6, <3>1
    <3> QED BY <1>1, <1>5, <1>9, <3>1, <3>2
  <2> QED BY <2>1, <2>2
<1> QED BY <1>10, <1>11

\* The steps of a run's own coroutine that are about its output.
LEMMA OwnOutput ==
    ASSUME RunsInv, [Next]_vars, NEW r \in Runs, OutputFacts(r),
           \/ CreateRun(r) \/ ExecStoresJob(r) \/ ExecPolls(r) \/ ExecReads(r)
           \/ SidecarReplies(r)
    PROVE  OutputFacts(r)' /\ offset[r] <= offset'[r]
<1>0. /\ r \in Clients /\ poll[r] \in Polls /\ offset[r] \in 0 .. MaxOut
      /\ poll \in [Clients -> Polls] /\ offset \in [Clients -> 0 .. MaxOut]
      /\ row \in [Runs -> Row] /\ row[r] \in Row
      /\ exec \in [Runs -> {"none", "queued", "prep", "posting", "stream",
                            "finishing", "end", "dead"}]
      /\ RunFacts(r) /\ PollFacts(r)
      /\ \A j \in Jobs : out[j] \in Nat
  BY ClientsAssumption, ContractAssumption
  DEF RunsInv, ContractInv, TypeOK, ContractTypeOK
<1>1. /\ poll[r].to \in Nat /\ poll[r].from \in Nat /\ offset[r] \in Nat
      /\ row[r].job \in Jobs \cup {None} /\ row[r].output \in Seq(0 .. MaxOut)
  BY <1>0, ContractAssumption DEF Polls, Row
<1> USE DEF backendVars, contractVars
<1>2. CASE CreateRun(r)
  <2>1. /\ exec[r] = "none" /\ exec'[r] = "queued" /\ row'[r] = NewRow
        /\ offset' = offset
    BY <1>0, <1>2 DEF CreateRun, RunFacts
  <2>2. /\ NewRow.job = None /\ NewRow.output = << >> /\ offset[r] = 0
    BY <2>1 DEF NewRow, OutputFacts
  <2>3. IsPrefix(NewRow.output) /\ ReadInOrder(NewRow.output, offset[r])
    BY <2>2 DEF IsPrefix, ReadInOrder, NothingTwice
  <2> QED BY <1>1, <2>1, <2>2, <2>3 DEF OutputFacts
<1>3. CASE ExecStoresJob(r)
  <2>1. PICK j \in Jobs : row' = [row EXCEPT ![r].job = j]
    BY <1>3 DEF ExecStoresJob
  <2>2. row'[r].job = j /\ row'[r].output = row[r].output
    BY <1>0, <2>1 DEF Row
  <2>3. /\ exec[r] = "posting" /\ exec'[r] = "stream"
        /\ UNCHANGED <<offset, out, poll>>
    BY <1>0, <1>3 DEF ExecStoresJob
  <2>4. offset[r] = 0 /\ poll[r].pc = "idle"
    BY <1>0, <2>3 DEF OutputFacts, RunFacts
  <2> QED BY <1>0, <1>1, <2>2, <2>3, <2>4 DEF OutputFacts
<1>4. CASE ExecPolls(r)
  <2>1. /\ exec[r] = "stream" /\ UNCHANGED <<row, exec, offset, out>>
        /\ row[r].job \in Jobs
        /\ \/ poll'[r] = Unanswered("looked", row[r].job, offset[r],
                                   TextEnd(row[r].job, offset[r]))
           \/ poll'[r] = Unanswered("gone", row[r].job, 0, 0)
    BY <1>0, <1>1, <1>4 DEF ExecPolls, Lookup, RunFacts
  <2>2. poll'[r].pc \in {"looked", "found"} =>
           /\ poll'[r].from = offset[r]
           /\ poll'[r].to = TextEnd(row[r].job, offset[r])
    BY <2>1 DEF Unanswered
  <2>3. offset[r] <= TextEnd(row[r].job, offset[r])
    BY <1>0, <1>1, <2>1 DEF TextEnd
  <2> QED BY <1>1, <2>1, <2>2, <2>3 DEF OutputFacts
<1>5. CASE ExecReads(r)
  <2> DEFINE p == poll[r]
             o == row[r].output
  <2>1. /\ exec[r] = "stream" /\ p.pc = "found"
        /\ exec'[r] = IF p.done THEN "finishing" ELSE "stream"
        /\ p.done \/ poll'[r] = NoPoll
    BY <1>0, <1>5 DEF ExecReads, Hangup
  <2>20. PICK replaced \in BOOLEAN : \E q \in Passed(p, replaced) :
                /\ row' = [row EXCEPT ![r] = Extended(row[r], p, replaced)]
                /\ offset'[r] = q
    BY <1>0, <1>5 DEF ExecReads
  <2>2. PICK q \in Passed(p, replaced) :
             /\ row' = [row EXCEPT ![r] = Extended(row[r], p, replaced)]
             /\ offset'[r] = q
    BY <2>20
  <2>3. p.from = offset[r] /\ p.from <= p.to
    BY <2>1 DEF OutputFacts
  <2>4. /\ q \in Nat /\ p.to <= q
        /\ ~replaced => q = p.to
    BY <1>1, <2>2, ContractAssumption DEF Passed
  <2>5. row'[r].output = IF replaced THEN Append(o \o Chunk(p), 0) ELSE o \o Chunk(p)
    BY <1>0, <2>2 DEF Row, Extended
  <2>6. /\ IsPrefix(o \o Chunk(p)) /\ ReadInOrder(o \o Chunk(p), p.to)
        /\ (\A i \in DOMAIN (o \o Chunk(p)) : (o \o Chunk(p))[i] # 0)
              => Len(o \o Chunk(p)) = p.to
    BY <1>0, <1>1, <2>3, AppendedIsPrefix DEF OutputFacts
  <2>7. ~(exec'[r] = "stream" /\ poll'[r].pc \in {"looked", "found"})
    BY <1>0, <2>1 DEF NoPoll, Unanswered, Polls
  <2>8. exec'[r] \notin {"none", "queued", "prep", "posting"}
    BY <2>1
  <2>9. o \o Chunk(p) \in Seq(0 .. MaxOut)
    BY <1>0, <1>1, ChunkType
  <2>12. p.to \in Nat /\ offset[r] <= offset'[r]
    BY <1>1, <2>2, <2>3, <2>4
  <2> DEFINE read == o \o Chunk(p)
             new == row'[r].output
  <2>13. /\ read \in Seq(0 .. MaxOut) /\ ReadInOrder(read, p.to)
         /\ IsPrefix(read)
         /\ (\A i \in DOMAIN read : read[i] # 0) => Len(read) = p.to
         /\ new = IF replaced THEN Append(read, 0) ELSE read
    BY <2>5, <2>6, <2>9
  <2>14. offset'[r] = q
    BY <2>2
  <2> HIDE DEF p, o, read, new
  <2>10. CASE replaced
    <3>1. ReadInOrder(read, q)
      BY <2>4, <2>12, <2>13, LaterInOrder
    <3>2. Mixed(new) /\ ReadInOrder(new, q)
      BY <2>4, <2>10, <2>13, <3>1, MarkInOrder
    <3>3. IsPrefix(new) /\ ~(\A i \in DOMAIN new : new[i] # 0)
      BY <3>2 DEF Mixed, IsPrefix
    <3> QED BY <2>7, <2>8, <2>12, <2>14, <3>2, <3>3 DEF OutputFacts, new
  <2>11. CASE ~replaced
    <3>1. new = read /\ q = p.to
      BY <2>4, <2>11, <2>13
    <3> QED BY <2>7, <2>8, <2>12, <2>13, <2>14, <3>1 DEF OutputFacts, new
  <2> QED BY <2>10, <2>11
<1>6. CASE SidecarReplies(r)
  <2>1. UNCHANGED <<row, exec, offset>>
    BY <1>6 DEF SidecarReplies
  <2>2. PICK to \in 0 .. MaxOut, done \in BOOLEAN, code \in ExitCodes \cup {None} :
             ReplyWith(r, to, done, code)
    BY <1>6 DEF SidecarReplies, Reply
  <2>3. /\ poll[r].pc = "looked" /\ out' = out
        /\ poll'[r] = Replied(poll[r], to, done, code)
        /\ poll[r].to <= to \/ to = poll[r].from
    BY <1>0, <2>2 DEF ReplyWith
  <2>4. /\ poll'[r].from = poll[r].from /\ poll'[r].to = to
        /\ poll'[r].job = poll[r].job
    BY <2>3 DEF Replied
  <2>5. to \in Nat
    BY ContractAssumption
  <2>6. ASSUME exec[r] = "stream"
        PROVE  poll[r].from <= to
    BY <1>1, <2>3, <2>5, <2>6 DEF OutputFacts
  <2> QED BY <1>1, <2>1, <2>3, <2>4, <2>6 DEF OutputFacts
<1> QED BY <1>2, <1>3, <1>4, <1>5, <1>6

\* Every other step but a viewer's reads nothing for the run.
LEMMA OthersKeepOutput ==
    ASSUME RunsInv, [Next]_vars, NEW r \in Runs, OutputFacts(r),
           \A k \in Checkers : SeenFacts(k),
           \A v \in Viewers : ~ViewerStep(v),
           ~(\/ CreateRun(r) \/ ExecStoresJob(r) \/ ExecPolls(r) \/ ExecReads(r)
             \/ SidecarReplies(r))
    PROVE  OutputKept(r)
<1>0. /\ r \in Clients /\ poll \in [Clients -> Polls] /\ TypeOK
      /\ offset \in [Clients -> 0 .. MaxOut] /\ row \in [Runs -> Row]
      /\ row[r] \in Row /\ RunFacts(r) /\ Runs \subseteq Clients
      /\ exec \in [Runs -> {"none", "queued", "prep", "posting", "stream",
                            "finishing", "end", "dead"}]
  BY ClientsAssumption DEF RunsInv, TypeOK, ContractTypeOK
<1>13. offset[r] \in Nat /\ row[r].output \in Seq(0 .. MaxOut)
       /\ ReadInOrder(row[r].output, offset[r])
  BY <1>0, ContractAssumption DEF Row, OutputFacts
<1> USE <1>0 DEF backendVars, contractVars, OutputKept
<1>1. ASSUME NEW s \in Runs, s # r,
             \/ CreateRun(s) \/ Age(s) \/ ExecStep(s) \/ ExecTimesOut(s)
             \/ CancelStep(s) \/ SidecarStep(s)
      PROVE  OutputKept(r)
  <2>1. poll'[r] = poll[r] /\ exec'[r] = exec[r]
    BY <1>1, OtherRunsFramed DEF Framed
  <2>2. offset'[r] = offset[r]
    BY <1>1 DEF CreateRun, Age, ExecStep, ExecBegins, ExecFailsInPrep,
       ExecPosts, ExecFailsToStart, ExecTimesOut, ExecStoresJob, ExecPolls,
       ExecReads, ExecFinishes, ExecOrphaned, ExecRetries, CancelStep,
       CancelPending, CancelSends, CancelArrives, CancelLost, CancelCommits,
       SidecarStep, SidecarLaunches, SidecarAnswers, SidecarRefuses
  <2>3. row'[r] = row[r]
    <3>1. CASE ExecStoresJob(s)
      BY <1>1, <3>1 DEF ExecStoresJob
    <3>2. CASE CreateRun(s) \/ SidecarStep(s)
      BY <1>1, <3>2 DEF CreateRun, SidecarStep, SidecarLaunches, SidecarAnswers,
         SidecarRefuses
    <3> QED BY <1>1, <3>1, <3>2, ExecRow, CancelRow
  <2> QED BY <2>1, <2>2, <2>3
<1>2. CASE Age(r) \/ SidecarStep(r) \/ ExecBegins(r)
  BY <1>2 DEF Age, ExecBegins, SidecarStep, SidecarLaunches, SidecarAnswers,
     SidecarRefuses, Launch, Register
<1>3. CASE ExecFailsInPrep(r) \/ ExecFailsToStart(r) \/ ExecTimesOut(r)
  <2>1. /\ exec'[r] = "end" /\ offset' = offset /\ poll' = poll
    BY <1>3 DEF ExecFailsInPrep, ExecFailsToStart, ExecTimesOut
  <2>2. \/ row' = [row EXCEPT ![r] = MarkFailed(@)]
        \/ row' = [row EXCEPT ![r].status = "failed", ![r].finished = TRUE,
                              ![r].output = <<0>>]
    BY <1>3 DEF ExecFailsInPrep, ExecFailsToStart, ExecTimesOut
  <2>3. /\ row'[r].job = row[r].job
        /\ row'[r].output \in {MarkFailed(row[r]).output, <<0>>}
    <3>1. CASE row' = [row EXCEPT ![r] = MarkFailed(@)]
      BY <3>1, WrittenFields
    <3>2. CASE row' = [row EXCEPT ![r] = [row[r] EXCEPT
                          !.status = "failed", !.finished = TRUE,
                          !.output = <<0>>]]
      BY <3>2 DEF Row
    <3> QED BY <2>2, <3>1, <3>2
  <2>4. MarkFailed(row[r]).output = Append(row[r].output, 0)
    BY DEF MarkFailed, Row
  <2> QED BY <1>13, <2>1, <2>3, <2>4, MarkInOrder, MessageAlone
<1>4. CASE ExecPosts(r)
  BY <1>4 DEF ExecPosts, Row
<1>5. CASE ExecFinishes(r) \/ ExecOrphaned(r) \/ ExecRetries(r)
  <2>1. poll'[r].pc = "idle" /\ offset' = offset
    BY <1>5 DEF ExecFinishes, ExecOrphaned, ExecRetries, Hangup, NoPoll,
       Unanswered
  <2>2. exec'[r] = exec[r] \/ exec'[r] = "end"
    BY <1>5 DEF ExecFinishes, ExecOrphaned, ExecRetries
  <2>3. row'[r] = row[r] \/ row'[r] = Finish(row[r], poll[r].code)
    BY <1>5 DEF ExecFinishes, ExecOrphaned, ExecRetries
  <2>4. row'[r].job = row[r].job /\ row'[r].output = row[r].output
    BY <2>3 DEF Finish, Row
  <2> QED BY <2>1, <2>2, <2>4
<1>6. CASE CancelStep(r)
  <2>1. UNCHANGED <<exec, offset, poll>>
    BY <1>6 DEF CancelStep, CancelPending, CancelSends, CancelArrives,
       CancelLost, CancelCommits, Withdraw
  <2>2. row'[r] = row[r] \/ row'[r] = Cancelled(row[r])
    BY <1>6 DEF CancelStep, CancelPending, CancelSends, CancelArrives,
       CancelLost, CancelCommits
  <2>3. row'[r].job = row[r].job /\ row'[r].output = row[r].output
    BY <2>2 DEF Cancelled, Row
  <2> QED BY <2>1, <2>3
<1>7. ASSUME NEW k \in Checkers, CheckerStep(k)
      PROVE  OutputKept(r)
  <2>0. poll'[r] = poll[r] /\ exec'[r] = exec[r]
    BY <1>7, OthersFramed DEF Framed
  <2>1. offset' = offset
    BY <1>7 DEF CheckerStep, CheckerLoads, CheckerProbes, CheckerHears,
       CheckerCommits
  <2>2. CASE ~CheckerCommits(k)
    BY <1>7, <2>0, <2>1, <2>2
    DEF CheckerStep, CheckerLoads, CheckerProbes, CheckerHears
  <2>3. CASE CheckerCommits(k) /\ checker[k].run # r
    <3>1. row'[r] = row[r]
      BY <2>3 DEF CheckerCommits
    <3> QED BY <2>0, <2>1, <3>1
  <2>4. CASE CheckerCommits(k) /\ checker[k].run = r
    <3>1. checker[k].seen \in Row /\ checker[k].seen.output \in Seq(0 .. MaxOut)
      BY DEF TypeOK, Row
    <3>2. /\ row'[r].job = row[r].job
          /\ row'[r].output = MarkFailed(checker[k].seen).output
      BY <2>4 DEF CheckerCommits, Row
    <3>3. MarkFailed(checker[k].seen).output = Append(checker[k].seen.output, 0)
      BY <3>1 DEF MarkFailed, Row
    <3>4. ReadInOrder(checker[k].seen.output, offset[r])
      BY <2>4 DEF CheckerCommits, SeenFacts
    <3> QED BY <1>13, <2>0, <2>1, <3>1, <3>2, <3>3, <3>4, MarkInOrder
  <2> QED BY <2>2, <2>3, <2>4
<1>8. CASE \/ \E j \in Jobs : JobRuns(j)
           \/ \E c \in Clients \ {r} : SidecarReplies(c) \/ PollFails(c)
           \/ UNCHANGED vars
  <2>1. poll'[r] = poll[r] /\ exec'[r] = exec[r]
    BY <1>8, OthersFramed DEF Framed
  <2>2. UNCHANGED <<row, offset>>
    BY <1>8 DEF JobRuns, SidecarReplies, PollFails, vars
  <2> QED BY <2>1, <2>2
<1>9. CASE PollFails(r)
  BY <1>9 DEF PollFails, Lose, LostPoll, Unanswered
<1>10. CASE SidecarCrashes
  BY <1>10 DEF SidecarCrashes, Crash, LostPoll, Unanswered
<1>11. CASE BackendCrashes
  BY <1>11 DEF BackendCrashes, HangupAll, NoPoll, Unanswered
<1> HIDE DEF OutputKept
<1>12. CASE Age(r) \/ ExecStep(r) \/ ExecTimesOut(r) \/ CancelStep(r) \/ SidecarStep(r)
  BY <1>2, <1>3, <1>4, <1>5, <1>6, <1>12 DEF ExecStep
<1> QED BY <1>1, <1>7, <1>8, <1>9, <1>10, <1>11, <1>12 DEF Next

\* What a checker holds of a row is what the row held when it was loaded.
LEMMA SeenStays ==
    ASSUME RunsInv, [Next]_vars, NEW k \in Checkers,
           \A v \in Viewers : ~ViewerStep(v)
    PROVE  \/ checker'[k].pc = "idle"
           \/ /\ checker[k].pc # "idle"
              /\ checker'[k].run = checker[k].run
              /\ checker'[k].seen = checker[k].seen
           \/ \E r \in Runs : /\ checker'[k].run = r /\ checker'[k].seen = row[r]
                             /\ UNCHANGED offset
<1> USE DEF backendVars
<1>0. /\ checker \in [Checkers -> [pc : {"idle", "probe", "marked"},
                                   run : Runs \cup {None}, seen : Row]]
      /\ NoCheck.pc = "idle"
  BY DEF RunsInv, TypeOK, NoCheck
<1>1. CASE UNCHANGED checker
  BY <1>1
<1>2. ASSUME NEW d \in Checkers, CheckerStep(d), d # k
      PROVE  checker'[k] = checker[k]
  BY <1>0, <1>2 DEF CheckerStep, CheckerLoads, CheckerProbes, CheckerHears,
     CheckerCommits
<1>3. ASSUME NEW r \in Runs, CheckerLoads(k, r)
      PROVE  /\ checker'[k].run = r /\ checker'[k].seen = row[r]
             /\ UNCHANGED offset
  BY <1>0, <1>3 DEF CheckerLoads
<1>4. CASE CheckerProbes(k) \/ CheckerCommits(k) \/ BackendCrashes
  BY <1>0, <1>1, <1>4 DEF CheckerProbes, CheckerCommits, BackendCrashes
<1>5. CASE CheckerHears(k)
  <2>1. checker'[k] \in {[checker[k] EXCEPT !.pc = "marked"], NoCheck}
        /\ checker[k].pc = "probe"
    BY <1>0, <1>5 DEF CheckerHears
  <2> QED BY <1>0, <2>1
<1>6. ASSUME NEW r \in Runs,
             \/ CreateRun(r) \/ Age(r) \/ ExecStep(r) \/ ExecTimesOut(r)
             \/ CancelStep(r) \/ SidecarStep(r)
      PROVE  UNCHANGED checker
  BY <1>6 DEF CreateRun, Age, ExecStep, ExecBegins, ExecFailsInPrep,
     ExecPosts, ExecFailsToStart, ExecTimesOut, ExecStoresJob, ExecPolls,
     ExecReads, ExecFinishes, ExecOrphaned, ExecRetries, CancelStep, CancelPending,
     CancelSends, CancelArrives, CancelLost, CancelCommits, SidecarStep,
     SidecarLaunches, SidecarAnswers, SidecarRefuses
<1>7. CASE \/ \E j \in Jobs : JobRuns(j)
           \/ \E c \in Clients : SidecarReplies(c) \/ PollFails(c)
           \/ SidecarCrashes \/ UNCHANGED vars
  BY <1>1, <1>7 DEF JobRuns, SidecarReplies, PollFails, SidecarCrashes, vars
<1>8. ASSUME NEW d \in Checkers, CheckerStep(d)
      PROVE  \/ checker'[k] = checker[k] /\ d # k
             \/ CheckerProbes(k) \/ CheckerCommits(k) \/ CheckerHears(k)
             \/ \E r \in Runs : CheckerLoads(k, r)
  BY <1>2, <1>8 DEF CheckerStep
<1>9. CASE checker'[k] = checker[k]
  BY <1>9
<1> QED BY <1>1, <1>3, <1>4, <1>5, <1>6, <1>7, <1>8, <1>9 DEF Next

LEMMA OutputInvNext == RunsInv /\ OutputInv /\ [Next]_vars => OutputInv'
<1> SUFFICES ASSUME RunsInv, OutputInv, [Next]_vars, Unwatched'
             PROVE  /\ \A r \in Runs : OutputFacts(r)'
                    /\ \A k \in Checkers : SeenFacts(k)'
  BY DEF OutputInv
<1>1. Unwatched /\ \A v \in Viewers : ~ViewerStep(v)
  BY UnwatchedBefore DEF RunsInv
<1>2. /\ \A r \in Runs : OutputFacts(r)
      /\ \A k \in Checkers : SeenFacts(k)
  BY <1>1 DEF OutputInv
<1>3. \A r \in Runs : offset[r] \in Nat /\ offset'[r] \in Nat
  BY RunsTypeNext, ClientsAssumption, ContractAssumption DEF RunsInv, TypeOK
<1>4. ASSUME NEW r \in Runs
      PROVE  OutputFacts(r)' /\ offset[r] <= offset'[r]
  <2>1. CASE \/ CreateRun(r) \/ ExecStoresJob(r) \/ ExecPolls(r) \/ ExecReads(r)
             \/ SidecarReplies(r)
    BY <1>2, <2>1, OwnOutput
  <2>2. CASE ~(\/ CreateRun(r) \/ ExecStoresJob(r) \/ ExecPolls(r) \/ ExecReads(r)
               \/ SidecarReplies(r))
    <3>1. OutputKept(r)
      BY <1>1, <1>2, <2>2, OthersKeepOutput
    <3>2. offset'[r] = offset[r]
      BY <3>1 DEF OutputKept
    <3> QED BY <1>2, <1>3, <3>1, <3>2, OutputStays
  <2> QED BY <2>1, <2>2
<1>5. ASSUME NEW k \in Checkers, checker'[k].pc # "idle"
      PROVE  ReadInOrder(checker'[k].seen.output, offset'[checker'[k].run])
  <2>1. CASE /\ checker[k].pc # "idle"
             /\ checker'[k].run = checker[k].run
             /\ checker'[k].seen = checker[k].seen
    <3>1. /\ checker[k].run \in Runs
          /\ checker[k].seen.output \in Seq(0 .. MaxOut)
      BY <2>1 DEF RunsInv, CheckerFacts, TypeOK, Row
    <3>2. ReadInOrder(checker[k].seen.output, offset[checker[k].run])
      BY <1>2, <2>1 DEF SeenFacts
    <3> QED BY <1>3, <1>4, <2>1, <3>1, <3>2, LaterInOrder
  <2>2. ASSUME NEW r \in Runs, checker'[k].run = r, checker'[k].seen = row[r],
               UNCHANGED offset
        PROVE  ReadInOrder(checker'[k].seen.output, offset'[checker'[k].run])
    BY <1>2, <2>2 DEF OutputFacts
  <2> QED BY <1>1, <1>5, <2>1, <2>2, SeenStays
<1> QED BY <1>4, <1>5 DEF SeenFacts, ReadInOrder, NothingTwice

-----------------------------------------------------------------------------
LEMMA RunsInvInit == Init => RunsInv
<1> SUFFICES ASSUME Init PROVE RunsInv
  OBVIOUS
<1>1. TypeOK /\ ContractInv
  BY RunsTypeInit, ContractInvInit DEF Init
<1>2. \A c \in Clients : poll[c] = NoPoll
  BY DEF Init, ContractInit
<1>3. NoPoll.pc = "idle" /\ "idle" \notin Told
  BY DEF NoPoll, Unanswered, Told
<1>4. \A r \in Runs : RunFacts(r)
  <2> SUFFICES ASSUME NEW r \in Runs PROVE RunFacts(r)
    OBVIOUS
  <2>1. /\ row[r].status = "absent" /\ row[r].job = None
        /\ exec[r] = "none" /\ post[r] = "none" /\ cancel[r] = "idle"
        /\ \A j \in Jobs : owner[j] = None
        /\ notified = {} /\ r # None
    BY DisjointAssumption DEF Init, NewRow
  <2> QED BY <1>2, <1>3, <2>1, ClientsAssumption DEF RunFacts
<1>5. \A j \in Jobs : OwnerFacts(j)
  BY DEF Init, ContractInit, OwnerFacts
<1>6. \A v \in Viewers : ViewerFacts(v)
  BY <1>2, <1>3, ClientsAssumption DEF Init, NoViewer, ViewerFacts
<1>7. \A k \in Checkers : CheckerFacts(k)
  BY <1>2, <1>3, ClientsAssumption DEF Init, NoCheck, CheckerFacts
<1> QED BY <1>1, <1>4, <1>5, <1>6, <1>7 DEF RunsInv

LEMMA RunsInvNext == RunsInv /\ [Next]_vars => RunsInv'
<1> SUFFICES ASSUME RunsInv, [Next]_vars PROVE RunsInv'
  OBVIOUS
<1>1. ContractInv /\ [ContractNext]_contractVars
  BY StepsAreContract DEF RunsInv
<1>2. ContractInv' /\ TypeOK'
  BY <1>1, ContractInvNext, RunsTypeNext
<1>3. \A j \in Jobs : ContractAdvances(j)
  BY <1>1, ContractAdvance
<1>4. \A r \in Runs : RunFacts(r)'
  BY <1>2, <1>3, RunFactsNext
<1>5. \A j \in Jobs : OwnerFacts(j)'
  BY <1>2, <1>3, OwnerNext
<1>6. \A v \in Viewers : ViewerFacts(v)'
  BY <1>2, ViewerNext
<1>7. \A k \in Checkers : CheckerFacts(k)'
  BY <1>2, <1>3, CheckerNext
<1> QED BY <1>2, <1>4, <1>5, <1>6, <1>7 DEF RunsInv

\* The invariant of the backend and the sidecar together.
THEOREM RunsInvariant == Spec => []RunsInv
BY RunsInvInit, RunsInvNext, PTL DEF Spec

\* Every variable has its type in every reachable state.
THEOREM RunsTyped == Spec => []TypeOK
<1>1. RunsInv => TypeOK
  BY DEF RunsInv
<1> QED BY <1>1, RunsInvariant, PTL

\* A run is shown as a success only if its own playbook exited with 0.
THEOREM SuccessesAreReal == Spec => []SuccessIsReal
<1>1. RunsInv => SuccessIsReal
  <2> SUFFICES ASSUME RunsInv, NEW r \in Runs, row[r].status = "success"
               PROVE  \E j \in Jobs : /\ owner[j] = r /\ row[r].job = j
                                      /\ proc[j] = "ok"
    BY DEF SuccessIsReal
  <2>1. row[r].job \in Jobs \cup {None}
    BY DEF RunsInv, TypeOK, Row
  <2>2. /\ row[r].job # None /\ owner[row[r].job] = r
        /\ proc[row[r].job] = "ok"
    BY DEF RunsInv, RunFacts
  <2> QED BY <2>1, <2>2
<1> QED BY <1>1, RunsInvariant, PTL

\* No run's playbook is ever started twice.
THEOREM LaunchedAtMostOnce == Spec => []AtMostOneLaunch
<1>1. RunsInv => AtMostOneLaunch
  BY DEF RunsInv, OwnerFacts, AtMostOneLaunch
<1> QED BY <1>1, RunsInvariant, PTL

\* Recovery condemns no run whose job the sidecar may still find.
THEOREM OnlyGoneIsCondemned == Spec => []RecoveryOnlyWhenGone
<1>1. RunsInv => RecoveryOnlyWhenGone
  BY DEF RunsInv, CheckerFacts, RecoveryOnlyWhenGone
<1> QED BY <1>1, RunsInvariant, PTL

\* A failure that is notified is one, while the sidecar can still tell.
THEOREM NotificationsAreReal == Spec => []NotifiedIsReal
<1>1. RunsInv => NotifiedIsReal
  BY DEF RunsInv, TypeOK, RunFacts, NotifiedIsReal
<1> QED BY <1>1, RunsInvariant, PTL

\* The stored output of a run that nobody watches holds what the playbook wrote
\* in order and nothing twice; and all of it from the first piece on, until a
\* message or a replaced character is mixed in.
THEOREM UnwatchedOutputsArePrefixes == Spec => []UnwatchedOutputIsPrefix
<1>1. Init => OutputInv
  <2> SUFFICES ASSUME Init
               PROVE  /\ \A r \in Runs : OutputFacts(r)
                      /\ \A k \in Checkers : SeenFacts(k)
    BY DEF OutputInv
  <2>1. ASSUME NEW r \in Runs
        PROVE  OutputFacts(r)
    <3>1. /\ r \in Clients /\ offset[r] = 0 /\ row[r].job = None
          /\ row[r].output = << >> /\ exec[r] = "none"
      BY ClientsAssumption DEF Init, NewRow
    <3> QED BY <3>1 DEF OutputFacts, IsPrefix, ReadInOrder, NothingTwice
  <2>2. \A k \in Checkers : checker[k].pc = "idle"
    BY DEF Init, NoCheck
  <2> QED BY <2>1, <2>2 DEF SeenFacts
<1>2. OutputInv => UnwatchedOutputIsPrefix
  BY DEF OutputInv, OutputFacts, ReadInOrder, UnwatchedOutputIsPrefix
<1> QED BY <1>1, <1>2, RunsInvariant, OutputInvNext, PTL DEF Spec

\* The clients of the composed system get what the contract promises.
THEOREM BackendMeetsContract == Spec => ContractSpec
<1>1. Init => ContractInit
  BY DEF Init
<1>2. RunsInv /\ [Next]_vars => [ContractNext]_contractVars
  BY StepsAreContract
<1> QED BY <1>1, <1>2, RunsInvariant, PTL DEF Spec, ContractSpec
=============================================================================
