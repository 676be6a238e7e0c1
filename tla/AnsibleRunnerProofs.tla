-------------------------- MODULE AnsibleRunnerProofs --------------------------
(***************************************************************************)
(* Theorems about the sidecar: IInv is inductive, the safety properties    *)
(* follow from it, and the threads implement RunnerContract.               *)
(***************************************************************************)
EXTENDS AnsibleRunner, TLAPS

USE DEF ExitCodes, TempKinds, FileKinds

\* Every variable keeps its type.
LEMMA TypeInit == Init => TypeOK
BY BoundsAssumption DEF Init, TypeOK, NoPoll, Unanswered, Polls

LEMMA PollTypes == NoPoll \in Polls /\ LostPoll \in Polls
BY BoundsAssumption DEF NoPoll, LostPoll, Unanswered, Polls

LEMMA TypeNext == IInv /\ [Next]_vars => TypeOK'
<1> SUFFICES ASSUME TypeOK, \A c \in Clients : PollInv(c), [Next]_vars
             PROVE  TypeOK'
  BY DEF IInv
<1> USE BoundsAssumption
<1>1. ASSUME NEW j \in Jobs, StartStep(j) PROVE TypeOK'
  <2>1. CASE StartRun(j)
    BY <2>1 DEF StartRun, TypeOK, process, fields, threads
  <2>2. CASE WriteTemp(j)
    <3>1. NextPhase[phase[j]] \in TempKinds \cup {"ccache"}
      BY <2>2 DEF WriteTemp, NextPhase
    <3>2. PICK needed \in SUBSET {phase[j]} :
             files' = [files EXCEPT ![j] = @ \cup needed]
      BY <2>2 DEF WriteTemp
    <3>4. files[j] \cup needed \in SUBSET FileKinds
      BY <2>2, <3>2 DEF WriteTemp, TypeOK
    <3>3. phase' \in [Jobs -> TempKinds \cup {"none", "ccache", "open", "popen",
                                          "register", "answered", "refused",
                                          "lost"}]
      BY <2>2, <3>1 DEF WriteTemp, TypeOK
    <3> QED BY <2>2, <3>2, <3>3, <3>4 DEF WriteTemp, TypeOK, process, fields, threads
  <2>3. CASE WriteTempFails(j)
    <3>1. PICK created \in SUBSET ({phase[j]} \ {"vault"}) :
             files' = [files EXCEPT ![j] = @ \cup created]
      BY <2>3 DEF WriteTempFails
    <3>2. files[j] \cup created \in SUBSET FileKinds
      BY <2>3, <3>1 DEF WriteTempFails, TypeOK
    <3> QED BY <2>3, <3>1, <3>2 DEF WriteTempFails, TypeOK, process, fields, threads
  <2>4. CASE CheckCcache(j)
    BY <2>4 DEF CheckCcache, TypeOK, process, fields, threads
  <2>5. CASE OpenOutput(j)
    BY <2>5 DEF OpenOutput, TypeOK, process, fields, threads
  <2>6. CASE Popen(j)
    BY <2>6 DEF Popen, TypeOK, process, fields, threads
  <2>7. CASE PopenFails(j)
    BY <2>7 DEF PopenFails, TypeOK, process, fields, threads
  <2>8. CASE Register(j)
    BY <2>8 DEF Register, TypeOK, process, fields, threads
  <2> QED BY <1>1, <2>1, <2>2, <2>3, <2>4, <2>5, <2>6, <2>7, <2>8 DEF StartStep
<1>2. ASSUME NEW j \in Jobs, Emit(j) \/ Exit(j) PROVE TypeOK'
  BY <1>2 DEF Emit, Exit, TypeOK, process, fields, threads
<1>3. ASSUME NEW j \in Jobs, ThreadStep(j) \/ CancelPops(j) PROVE TypeOK'
  <2>1. CASE WaiterCodes(j)
    BY <2>1 DEF WaiterCodes, TypeOK, process, fields, threads
  <2>2. CASE WaiterFlags(j)
    BY <2>2 DEF WaiterFlags, TypeOK, process, fields, threads
  <2>3. CASE ReaperPops(j)
    BY <2>3 DEF ReaperPops, TypeOK, process, fields, threads
  <2>4. CASE ReaperUnlinks(j)
    BY <2>4 DEF ReaperUnlinks, TypeOK, process, fields, threads
  <2>5. CASE CancelPops(j)
    BY <2>5 DEF CancelPops, TypeOK, process, fields, threads
  <2>6. CASE CancelTerminates(j)
    BY <2>6 DEF CancelTerminates, TypeOK, process, fields, threads
  <2>7. CASE CancelCodes(j)
    BY <2>7 DEF CancelCodes, TypeOK, process, fields, threads
  <2>8. CASE CancelUnlinks(j)
    BY <2>8 DEF CancelUnlinks, TypeOK, process, fields, threads
  <2> QED BY <1>3, <2>1, <2>2, <2>3, <2>4, <2>5, <2>6, <2>7, <2>8 DEF ThreadStep
<1>4. ASSUME NEW c \in Clients, PollStep(c) PROVE TypeOK'
  <2>1. \A d \in Clients : poll[d] \in Polls
    BY DEF TypeOK
  <2>2. \E p \in Polls : poll' = [poll EXCEPT ![c] = p]
    <3>1. CASE \E j \in Jobs, offset \in 0 .. MaxOut : PollLooks(c, j, offset)
      <4>1. PICK j \in Jobs, offset \in 0 .. MaxOut : PollLooks(c, j, offset)
        BY <3>1
      <4>2. TextEnd(j, offset) \in 0 .. MaxOut
        BY DEF TypeOK, TextEnd
      <4>3. /\ Unanswered("looked", j, offset, TextEnd(j, offset)) \in Polls
            /\ Unanswered("gone", j, 0, 0) \in Polls
        BY <4>2 DEF Unanswered, Polls
      <4> QED BY <4>1, <4>3 DEF PollLooks
    <3>2. CASE PollReads(c)
      <4> DEFINE to == IF "output" \in files[poll[c].job]
                       THEN TextEnd(poll[c].job, poll[c].from) ELSE poll[c].from
                 p == [poll[c] EXCEPT !.pc = "read", !.to = to]
      <4>1. poll[c].job \in Jobs
        BY <3>2 DEF PollReads, PollInv
      <4>2. to \in 0 .. MaxOut
        BY <4>1, <2>1 DEF TypeOK, Polls, TextEnd
      <4>3. p \in Polls
        BY <4>2, <2>1 DEF Polls
      <4>4. poll' = [poll EXCEPT ![c] = p]
        BY <3>2 DEF PollReads
      <4> QED BY <4>3, <4>4
    <3>3. CASE PollReadsStatus(c)
      <4> DEFINE p(pc) == [poll[c] EXCEPT !.pc = pc]
      <4>1. p("done") \in Polls /\ p("found") \in Polls
        BY <2>1 DEF Polls
      <4>2. poll' \in {[poll EXCEPT ![c] = p("done")], [poll EXCEPT ![c] = p("found")]}
        BY <3>3 DEF PollReadsStatus
      <4> QED BY <4>1, <4>2
    <3>4. CASE PollReadsCode(c)
      <4> DEFINE p == [poll[c] EXCEPT !.pc = "found", !.done = TRUE,
                                      !.code = exit[poll[c].job]]
      <4>1. exit[poll[c].job] \in ExitCodes \cup {None}
        BY <3>4 DEF PollReadsCode, PollInv, TypeOK
      <4>2. p \in Polls
        BY <4>1, <2>1 DEF Polls
      <4>3. poll' = [poll EXCEPT ![c] = p]
        BY <3>4 DEF PollReadsCode
      <4> QED BY <4>2, <4>3
    <3>5. CASE PollLost(c)
      <4> QED BY <3>5, PollTypes DEF PollLost
    <3>6. CASE PollEnds(c)
      <4> QED BY <3>6, PollTypes DEF PollEnds
    <3> QED BY <1>4, <3>1, <3>2, <3>3, <3>4, <3>5, <3>6 DEF PollStep
  <2>3. poll' \in [Clients -> Polls]
    BY <2>2 DEF TypeOK
  <2> QED
    BY <1>4, <2>3 DEF PollStep, PollLooks, PollReads, PollReadsStatus,
       PollReadsCode, PollLost, PollEnds, TypeOK, process, fields, threads
<1>5. CASE Crash
  <2>2. poll' \in [Clients -> Polls]
    BY <1>5, PollTypes DEF Crash, TypeOK
  <2> QED BY <1>5, <2>2 DEF Crash, TypeOK, process, fields, threads
<1>6. CASE UNCHANGED vars
  BY <1>6 DEF TypeOK, vars, process, fields, threads
<1> QED BY <1>1, <1>2, <1>3, <1>4, <1>5, <1>6 DEF Next

-----------------------------------------------------------------------------
\* The threads that own a job hand it over without overlap.
LEMMA JobInit == Init => \A j \in Jobs : JobInv(j)
BY NoneAssumption DEF Init, JobInv

LEMMA JobNext == IInv /\ [Next]_vars => \A j \in Jobs : JobInv(j)'
<1> SUFFICES ASSUME TypeOK, \A j \in Jobs : JobInv(j), [Next]_vars, NEW i \in Jobs
             PROVE  JobInv(i)'
  BY DEF IInv
<1>a. JobInv(i)
  OBVIOUS
<1> USE NoneAssumption, <1>a
<1>1. ASSUME NEW j \in Jobs, StartStep(j) PROVE JobInv(i)'
  <2>1. CASE StartRun(j)
    BY <2>1 DEF StartRun, JobInv, TypeOK, process, fields, threads
  <2>2. CASE WriteTemp(j)
    <3>1. NextPhase[phase[j]] \in {"vault", "krb", "ccache"}
      BY <2>2 DEF WriteTemp, NextPhase
    <3>2. i # j => files'[i] = files[i]
      BY <2>2 DEF WriteTemp, TypeOK
    <3> QED
      BY <2>2, <3>1, <3>2 DEF WriteTemp, JobInv, TypeOK, process, fields, threads
  <2>3. CASE WriteTempFails(j)
    BY <2>3 DEF WriteTempFails, JobInv, TypeOK, process, fields, threads
  <2>4. CASE CheckCcache(j)
    BY <2>4 DEF CheckCcache, JobInv, TypeOK, process, fields, threads
  <2>5. CASE OpenOutput(j)
    BY <2>5 DEF OpenOutput, JobInv, TypeOK, process, fields, threads
  <2>6. CASE Popen(j)
    BY <2>6 DEF Popen, JobInv, TypeOK, process, fields, threads
  <2>7. CASE PopenFails(j)
    <3>1. i # j => files'[i] = files[i]
      BY <2>7 DEF PopenFails, TypeOK
    <3> QED
      BY <2>7, <3>1 DEF PopenFails, JobInv, TypeOK, process, fields, threads
  <2>8. CASE Register(j)
    BY <2>8 DEF Register, JobInv, TypeOK, process, fields, threads
  <2> QED BY <1>1, <2>1, <2>2, <2>3, <2>4, <2>5, <2>6, <2>7, <2>8 DEF StartStep
<1>2. ASSUME NEW j \in Jobs, Emit(j) \/ Exit(j) PROVE JobInv(i)'
  <2>1. CASE Emit(j)
    BY <2>1 DEF Emit, JobInv, fields, threads
  <2>2. CASE Exit(j)
    <3>1. PICK c \in ExitCodes : proc' = [proc EXCEPT ![j] = c]
      BY <2>2 DEF Exit
    <3>2. proc[j] = "alive" /\ proc'[j] = c
      BY <2>2, <3>1 DEF Exit, TypeOK
    <3>3. i # j => proc'[i] = proc[i]
      BY <3>1 DEF TypeOK
    <3> QED BY <2>2, <3>2, <3>3 DEF Exit, JobInv, process, fields, threads
  <2> QED BY <1>2, <2>1, <2>2
<1>3. ASSUME NEW j \in Jobs, ThreadStep(j) \/ CancelPops(j) PROVE JobInv(i)'
  <2>1. CASE WaiterCodes(j)
    BY <2>1 DEF WaiterCodes, JobInv, TypeOK, process, fields, threads
  <2>2. CASE WaiterFlags(j)
    BY <2>2 DEF WaiterFlags, JobInv, TypeOK, process, fields, threads
  <2>3. CASE ReaperPops(j)
    <3>1. CASE j \in jobs /\ status[j] = "done"
      BY <2>3, <3>1 DEF ReaperPops, JobInv, TypeOK, process, fields, threads
    <3>2. CASE ~(j \in jobs /\ status[j] = "done")
      BY <2>3, <3>2 DEF ReaperPops, JobInv, TypeOK, process, fields, threads
    <3> QED BY <3>1, <3>2
  <2>4. CASE ReaperUnlinks(j)
    BY <2>4 DEF ReaperUnlinks, JobInv, TypeOK, process, fields, threads
  <2>5. CASE CancelPops(j)
    BY <2>5 DEF CancelPops, JobInv, TypeOK, process, fields, threads
  <2>6. CASE CancelTerminates(j)
    BY <2>6 DEF CancelTerminates, JobInv, TypeOK, process, fields, threads
  <2>7. CASE CancelCodes(j)
    BY <2>7 DEF CancelCodes, JobInv, TypeOK, process, fields, threads
  <2>8. CASE CancelUnlinks(j)
    BY <2>8 DEF CancelUnlinks, JobInv, TypeOK, process, fields, threads
  <2> QED BY <1>3, <2>1, <2>2, <2>3, <2>4, <2>5, <2>6, <2>7, <2>8 DEF ThreadStep
<1>4. ASSUME NEW c \in Clients, PollStep(c) PROVE JobInv(i)'
  BY <1>4 DEF PollStep, PollLooks, PollReads, PollReadsStatus, PollReadsCode,
              PollLost, PollEnds, JobInv, process, fields, threads
<1>5. CASE Crash
  BY <1>5 DEF Crash, JobInv, TypeOK, fields
<1>6. CASE UNCHANGED vars
  BY <1>6 DEF JobInv, vars, process, fields, threads
<1> QED BY <1>1, <1>2, <1>3, <1>4, <1>5, <1>6 DEF Next

-----------------------------------------------------------------------------
\* A poll's handle stays valid while other threads take their steps.

\* What steps outside get_output do to a job that was answered to a client:
\* nothing that a poll could have relied on is taken back.
Advances(j) ==
    /\ phase[j] = "answered" => phase'[j] = "answered"
    /\ out[j] <= out'[j]
    /\ phase[j] = "answered" /\ j \notin jobs => j \notin jobs'
    /\ status[j] = "done" => status'[j] = "done"

LEMMA AdvanceStep ==
    ASSUME TypeOK, \A j \in Jobs : JobInv(j), NEW i \in Jobs,
           \/ \E j \in Jobs : \/ StartStep(j) \/ Emit(j) \/ Exit(j)
                              \/ ThreadStep(j) \/ CancelPops(j)
           \/ Crash
           \/ UNCHANGED vars
    PROVE  Advances(i)
<1>0. out[i] \in Nat /\ (out[i] <= out[i])
  BY BoundsAssumption DEF TypeOK
<1> USE <1>0 DEF Advances, process, fields, threads
<1>1. ASSUME NEW j \in Jobs, StartStep(j) PROVE Advances(i)
  BY <1>1 DEF StartStep, StartRun, WriteTemp, WriteTempFails, CheckCcache,
     OpenOutput, Popen, PopenFails, Register, TypeOK
<1>2. ASSUME NEW j \in Jobs, Emit(j) PROVE Advances(i)
  <2>1. out'[i] = IF i = j THEN out[i] + 1 ELSE out[i]
    BY <1>2 DEF Emit, TypeOK
  <2> QED BY <1>2, <2>1 DEF Emit
<1>3. ASSUME NEW j \in Jobs, Exit(j) PROVE Advances(i)
  BY <1>3 DEF Exit
<1>4. ASSUME NEW j \in Jobs, ThreadStep(j) \/ CancelPops(j) PROVE Advances(i)
  BY <1>4 DEF ThreadStep, WaiterCodes, WaiterFlags, ReaperPops, ReaperUnlinks,
     CancelPops, CancelTerminates, CancelCodes, CancelUnlinks, TypeOK
<1>5. CASE Crash
  BY <1>5 DEF Crash
<1>6. CASE UNCHANGED vars
  BY <1>6 DEF vars
<1> QED BY <1>1, <1>2, <1>3, <1>4, <1>5, <1>6

LEMMA PollInit == Init => \A c \in Clients : PollInv(c)
BY DEF Init, PollInv, NoPoll, LostPoll, Unanswered

LEMMA PollNext == IInv /\ [Next]_vars => \A c \in Clients : PollInv(c)'
<1> SUFFICES ASSUME IInv, [Next]_vars, NEW d \in Clients PROVE PollInv(d)'
  OBVIOUS
<1>0. /\ TypeOK /\ \A j \in Jobs : JobInv(j)
      /\ PollInv(d) /\ poll[d] \in Polls /\ DOMAIN poll = Clients
      /\ \A j \in Jobs : out[j] \in Nat
  BY BoundsAssumption DEF IInv, TypeOK
<1>1. ASSUME \A j \in Jobs : Advances(j), poll'[d] = poll[d],
             TypeOK'
      PROVE  PollInv(d)'
  <2>1. \A j \in Jobs : out'[j] \in Nat
    BY <1>1, BoundsAssumption DEF TypeOK
  <2>2. poll[d].seen \in Nat /\ poll[d].to \in Nat /\ poll[d].from \in Nat
    BY <1>0, BoundsAssumption DEF Polls
  <2>3. \A j \in Jobs, from \in Nat, t \in Nat :
           t <= TextEnd(j, from) => t <= (IF from <= out'[j] THEN out'[j] ELSE from)
    BY <1>0, <1>1, <2>1 DEF Advances, TextEnd
  <2>4. \A j \in Jobs : TextEnd(j, poll[d].from)' =
           IF poll[d].from <= out'[j] THEN out'[j] ELSE poll[d].from
    BY <1>1 DEF TextEnd
  <2>5. \A j \in Jobs, t \in Nat :
           t <= TextEnd(j, poll[d].from) => t <= TextEnd(j, poll[d].from)'
    BY <2>2, <2>3, <2>4
  <2> QED BY <1>0, <1>1, <2>1, <2>2, <2>5 DEF PollInv, Advances
<1>2. ASSUME NEW j \in Jobs,
             StartStep(j) \/ Emit(j) \/ Exit(j) \/ ThreadStep(j) \/ CancelPops(j)
      PROVE  PollInv(d)'
  <2>1. poll' = poll
    BY <1>2 DEF StartStep, StartRun, WriteTemp, WriteTempFails, CheckCcache,
       OpenOutput, Popen, PopenFails, Register, Emit, Exit, ThreadStep,
       WaiterCodes, WaiterFlags, ReaperPops, ReaperUnlinks,
       CancelPops, CancelTerminates, CancelCodes, CancelUnlinks
  <2> QED BY <1>0, <1>1, <1>2, <2>1, AdvanceStep, TypeNext
<1>3. CASE UNCHANGED vars
  BY <1>0, <1>1, <1>3, AdvanceStep, TypeNext DEF vars
<1>4. CASE Crash
  BY <1>0, <1>4 DEF Crash, PollInv, NoPoll, LostPoll, Unanswered
<1>5. ASSUME NEW c \in Clients, PollStep(c) PROVE PollInv(d)'
  <2>0. UNCHANGED <<phase, jobs, out, status>>
    BY <1>5 DEF PollStep, PollLooks, PollReads, PollReadsStatus, PollReadsCode,
       PollLost, PollEnds, process, fields
  <2>1. CASE c # d
    <3>1. poll'[d] = poll[d]
      BY <1>0, <1>5, <2>1 DEF PollStep, PollLooks, PollReads, PollReadsStatus,
         PollReadsCode, PollLost, PollEnds
    <3> QED BY <1>0, <2>0, <3>1 DEF PollInv, TextEnd
  <2> USE <1>0, <2>0
  <2>2. CASE c = d /\ \E j \in Jobs, offset \in 0 .. MaxOut : PollLooks(c, j, offset)
    BY <2>2 DEF PollLooks, PollInv, NoPoll, LostPoll, Unanswered, TextEnd
  <2>3. CASE c = d /\ PollReads(c)
    <3>1. poll'[d] = [poll[d] EXCEPT !.pc = "read",
                         !.to = IF "output" \in files[poll[d].job]
                                THEN TextEnd(poll[d].job, poll[d].from)
                                ELSE poll[d].from]
      BY <2>3 DEF PollReads
    <3>2. poll[d].job \in jobs => "output" \in files[poll[d].job]
      BY <2>3 DEF PollReads, PollInv, JobInv
    <3>3. /\ poll[d].job \in Jobs /\ poll[d].seen <= TextEnd(poll[d].job, poll[d].from)
          /\ poll[d].pc = "looked" /\ poll[d].done = FALSE /\ poll[d].code = None
          /\ phase[poll[d].job] = "answered"
      BY <2>3 DEF PollReads, PollInv
    <3>4. /\ poll'[d].pc = "read" /\ poll'[d].job = poll[d].job
          /\ poll'[d].from = poll[d].from /\ poll'[d].seen = poll[d].seen
          /\ poll'[d].done = FALSE /\ poll'[d].code = None
          /\ poll'[d].to = IF "output" \in files[poll[d].job]
                           THEN TextEnd(poll[d].job, poll[d].from)
                           ELSE poll[d].from
      BY <3>1, <3>3 DEF Polls
    <3>5. TextEnd(poll[d].job, poll[d].from) \in Nat
      BY <3>3, BoundsAssumption DEF Polls, TextEnd
    <3>6. TextEnd(poll[d].job, poll[d].from)' = TextEnd(poll[d].job, poll[d].from)
      BY <3>4 DEF TextEnd
    <3> QED BY <3>2, <3>3, <3>4, <3>5, <3>6 DEF PollInv
  <2>4. CASE c = d /\ PollReadsStatus(c)
    <3>1. poll'[d] = [poll[d] EXCEPT !.pc =
                         IF status[poll[d].job] = "done" THEN "done" ELSE "found"]
      BY <2>4 DEF PollReadsStatus
    <3>2. /\ poll'[d].job = poll[d].job /\ poll'[d].from = poll[d].from
          /\ poll'[d].seen = poll[d].seen /\ poll'[d].to = poll[d].to
          /\ poll'[d].done = poll[d].done /\ poll'[d].code = poll[d].code
          /\ poll'[d].pc = IF status[poll[d].job] = "done" THEN "done" ELSE "found"
      BY <3>1 DEF Polls
    <3>3. TextEnd(poll[d].job, poll[d].from)' = TextEnd(poll[d].job, poll[d].from)
      BY <3>2 DEF TextEnd
    <3> QED BY <2>4, <3>2, <3>3 DEF PollReadsStatus, PollInv
  <2>5. CASE c = d /\ PollReadsCode(c)
    BY <2>5 DEF PollReadsCode, PollInv, Polls
  <2>6. CASE c = d /\ (PollLost(c) \/ PollEnds(c))
    BY <2>6 DEF PollLost, PollEnds, PollInv, NoPoll, LostPoll, Unanswered
  <2> QED BY <1>5, <2>1, <2>2, <2>3, <2>4, <2>5, <2>6 DEF PollStep
<1> QED BY <1>2, <1>3, <1>4, <1>5 DEF Next

-----------------------------------------------------------------------------
\* IInv is an inductive invariant.
THEOREM IInvariant == Spec => []IInv
<1>1. Init => IInv
  BY TypeInit, JobInit, PollInit DEF IInv
<1>2. IInv /\ [Next]_vars => IInv'
  BY TypeNext, JobNext, PollNext DEF IInv
<1> QED BY <1>1, <1>2, PTL DEF Spec

\* The typing of every variable (main.py:55-69 and the handlers' locals).
THEOREM Typed == Spec => []TypeOK
<1>1. IInv => TypeOK
  BY DEF IInv
<1> QED BY <1>1, IInvariant, PTL

\* A job that can be looked up shows its process's exit code or none.
THEOREM TruthfulFields == Spec => []FieldsTruthful
<1>1. IInv => FieldsTruthful
  BY DEF IInv, JobInv, FieldsTruthful, TypeOK
<1> QED BY <1>1, IInvariant, PTL

\* The output of a job that can be looked up is never unlinked.
THEOREM OutputKept == Spec => []RegisteredHasOutput
<1>1. IInv => RegisteredHasOutput
  BY DEF IInv, JobInv, RegisteredHasOutput, TypeOK
<1> QED BY <1>1, IInvariant, PTL

\* No interleaving of POST, DELETE and cleanup loses a live playbook.
THEOREM NoneRunsAway == Spec => []NoRunawayProcess
<1>1. IInv => NoRunawayProcess
  BY DEF IInv, JobInv, NoRunawayProcess, TypeOK
<1> QED BY <1>1, IInvariant, PTL

-----------------------------------------------------------------------------
\* The threads implement the contract.

Entry == [j \in Jobs |-> entryOf(j)]
Recorded == {j \in Jobs : waiter[j] = "done"}
OpenPolls == [c \in Clients |-> pollOf(c)]

LEMMA RefineInit == Init => Contract!ContractInit
BY DEF Init, Contract!ContractInit, entryOf, pollOf, NoPoll, LostPoll, Unanswered,
       Contract!NoPoll, Contract!LostPoll, Contract!Unanswered

\* A POST handler is invisible until it has started the process.
LEMMA RefineStart ==
    ASSUME IInv, NEW j \in Jobs, StartStep(j)
    PROVE  [Contract!ContractNext]_(Contract!contractVars)
<1> USE DEF IInv, process, fields, threads
<1>0. TypeOK /\ JobInv(j)
  OBVIOUS
<1>1. UNCHANGED <<out, OpenPolls>>
  BY DEF StartStep, StartRun, WriteTemp, WriteTempFails, CheckCcache, OpenOutput,
         Popen, PopenFails, Register, OpenPolls, pollOf
<1>2. \A i \in Jobs : i # j => entryOf(i)' = entryOf(i)
  BY DEF StartStep, StartRun, WriteTemp, WriteTempFails, CheckCcache, OpenOutput,
         Popen, PopenFails, Register, entryOf, TypeOK
<1>3. CASE Popen(j)
  <2>1. entryOf(j)' = entryOf(j)
    BY <1>0, <1>3 DEF Popen, entryOf, JobInv, TypeOK
  <2>2. UNCHANGED <<Entry, Recorded>>
    BY <1>2, <1>3, <2>1 DEF Popen, Entry, Recorded
  <2>3. proc[j] = "absent"
    BY <1>0, <1>3 DEF Popen, JobInv
  <2>4. Contract!Launch(j)
    BY <1>1, <1>3, <2>2, <2>3 DEF Popen, Contract!Launch, Entry, Recorded,
       OpenPolls
  <2> QED BY <2>4 DEF Contract!ContractNext
<1>4. CASE Register(j)
  <2>1. UNCHANGED <<proc, Recorded>>
    <3>1. waiter[j] = "none" /\ waiter' = [waiter EXCEPT ![j] = "waiting"]
      BY <1>0, <1>4 DEF Register, JobInv
    <3> QED BY <1>4, <3>1 DEF Register, Recorded, TypeOK
  <2>2. Entry[j] = "unnamed" /\ Entry' = [Entry EXCEPT ![j] = "in"]
    <3>1. entryOf(j) = "unnamed" /\ entryOf(j)' = "in"
      BY <1>0, <1>4 DEF Register, entryOf, JobInv, TypeOK
    <3> QED BY <1>2, <3>1 DEF Entry
  <2>3. proc[j] \in {"alive", "ok", "bad"}
    BY <1>0, <1>4 DEF Register, JobInv, TypeOK
  <2>4. Contract!Register(j)
    BY <1>1, <2>1, <2>2, <2>3 DEF Contract!Register, Entry, Recorded, OpenPolls
  <2> QED BY <2>4 DEF Contract!ContractNext
<1>5. CASE ~(Popen(j) \/ Register(j))
  <2>1. UNCHANGED <<proc, Recorded, Entry>>
    BY <1>0, <1>2, <1>5 DEF StartStep, StartRun, WriteTemp, NextPhase,
       WriteTempFails, CheckCcache, OpenOutput, PopenFails, Entry, Recorded,
       entryOf, JobInv, TypeOK
  <2> QED BY <1>1, <2>1 DEF Contract!contractVars, Entry, Recorded, OpenPolls
<1> QED BY <1>3, <1>4, <1>5

\* The process, the waiter, the reaper and a cancellation.
LEMMA RefineThreads ==
    ASSUME IInv, NEW j \in Jobs,
           Emit(j) \/ Exit(j) \/ ThreadStep(j) \/ CancelPops(j)
    PROVE  [Contract!ContractNext]_(Contract!contractVars)
<1> USE DEF IInv, process, fields, threads
<1>0. TypeOK /\ JobInv(j)
  OBVIOUS
<1>1. UNCHANGED <<phase, OpenPolls>>
  BY DEF Emit, Exit, ThreadStep, WaiterCodes, WaiterFlags, ReaperPops,
     ReaperUnlinks, CancelPops, CancelTerminates, CancelCodes, CancelUnlinks,
     OpenPolls, pollOf
<1>2. \A i \in Jobs : i # j => entryOf(i)' = entryOf(i)
  BY DEF Emit, Exit, ThreadStep, WaiterCodes, WaiterFlags, ReaperPops,
     ReaperUnlinks, CancelPops, CancelTerminates, CancelCodes, CancelUnlinks,
     entryOf, TypeOK
<1>3. CASE Emit(j)
  <2>1. UNCHANGED <<proc, Entry, Recorded>>
    BY <1>3 DEF Emit, Entry, Recorded, entryOf
  <2>2. Contract!Emit(j)
    BY <1>1, <1>3, <2>1 DEF Emit, Contract!Emit, Entry, Recorded, OpenPolls
  <2> QED BY <2>2 DEF Contract!ContractNext
<1>4. CASE Exit(j)
  <2>1. UNCHANGED <<out, Entry, Recorded>>
    BY <1>0, <1>2, <1>4 DEF Exit, Entry, Recorded, entryOf, JobInv, TypeOK
  <2>2. Contract!Exit(j)
    BY <1>1, <1>4, <2>1 DEF Exit, Contract!Exit, Contract!ExitCodes, Entry,
       Recorded, OpenPolls
  <2> QED BY <2>2 DEF Contract!ContractNext
<1>5. CASE WaiterFlags(j)
  <2>1. UNCHANGED <<proc, out, Entry>>
    BY <1>5 DEF WaiterFlags, Entry, entryOf
  <2>2. /\ Recorded' = Recorded \cup {j} /\ j \notin Recorded
        /\ proc[j] \in ExitCodes /\ Entry[j] # "unnamed"
    BY <1>0, <1>5 DEF WaiterFlags, Recorded, Entry, entryOf, JobInv, TypeOK
  <2>3. Contract!Record(j)
    BY <1>1, <2>1, <2>2 DEF Contract!Record, Contract!ExitCodes, Entry, Recorded,
       OpenPolls
  <2> QED BY <2>3 DEF Contract!ContractNext
<1>6. CASE j \in jobs /\ jobs' = jobs \ {j} /\ (CancelPops(j) \/ ReaperPops(j))
  <2>1. UNCHANGED <<proc, out, Recorded>>
    BY <1>6 DEF CancelPops, ReaperPops, Recorded
  <2>2. Entry[j] = "in" /\ Entry' = [Entry EXCEPT ![j] = "out"]
    BY <1>0, <1>1, <1>2, <1>6 DEF Entry, entryOf, JobInv, TypeOK
  <2>3. Contract!Withdraw(j)
    BY <1>1, <2>1, <2>2 DEF Contract!Withdraw, Contract!registered, Entry,
       Recorded, OpenPolls
  <2> QED BY <2>3 DEF Contract!ContractNext
<1>7. CASE \/ WaiterCodes(j) \/ ReaperUnlinks(j) \/ CancelTerminates(j)
           \/ CancelCodes(j) \/ CancelUnlinks(j)
           \/ ReaperPops(j) /\ ~(j \in jobs /\ status[j] = "done")
  <2>1. UNCHANGED <<proc, out, jobs>>
    BY <1>7 DEF WaiterCodes, ReaperUnlinks, CancelTerminates, CancelCodes,
       CancelUnlinks, ReaperPops
  <2>2. Recorded' = Recorded
    BY <1>7 DEF WaiterCodes, ReaperUnlinks, CancelTerminates, CancelCodes,
       CancelUnlinks, ReaperPops, Recorded, TypeOK
  <2> QED BY <1>1, <2>1, <2>2 DEF Contract!contractVars, Entry, Recorded,
       OpenPolls, entryOf
<1> QED
  BY <1>3, <1>4, <1>5, <1>6, <1>7 DEF ThreadStep, CancelPops, ReaperPops

\* get_output: reading the file and the status is invisible, the reply is
\* one that the contract allows.
LEMMA RefinePoll ==
    ASSUME IInv, IInv', NEW c \in Clients, PollStep(c)
    PROVE  [Contract!ContractNext]_(Contract!contractVars)
<1> USE DEF process, fields, threads
<1>0. /\ TypeOK /\ (\A j \in Jobs : JobInv(j)) /\ PollInv(c)
      /\ poll[c] \in Polls /\ DOMAIN poll = Clients
      /\ MaxOut \in Nat
  BY BoundsAssumption DEF IInv, TypeOK
<1>1. /\ UNCHANGED <<phase, jobs, proc, out, status, exit, waiter, files>>
      /\ UNCHANGED <<Entry, Recorded>>
  BY DEF PollStep, PollLooks, PollReads, PollReadsStatus, PollReadsCode,
         PollLost, PollEnds, Entry, Recorded, entryOf
<1>2. \A d \in Clients : d # c => pollOf(d)' = pollOf(d)
  BY <1>0 DEF PollStep, PollLooks, PollReads, PollReadsStatus, PollReadsCode,
     PollLost, PollEnds, pollOf
<1>3. OpenPolls' = [OpenPolls EXCEPT ![c] = pollOf(c)']
  BY <1>2 DEF OpenPolls
<1>4. OpenPolls[c] = pollOf(c)
  BY DEF OpenPolls
<1>5. CASE \E j \in Jobs, offset \in 0 .. MaxOut : PollLooks(c, j, offset)
  <2>1. PICK j \in Jobs, offset \in 0 .. MaxOut : PollLooks(c, j, offset)
    BY <1>5
  <2>2. pollOf(c)' = IF j \in jobs
          THEN Contract!Unanswered("looked", j, offset, TextEnd(j, offset))
          ELSE Contract!Unanswered("gone", j, 0, 0)
    BY <1>0, <1>1, <2>1 DEF PollLooks, pollOf, NoPoll, LostPoll, Unanswered,
       Contract!NoPoll, Contract!LostPoll, Contract!Unanswered
  <2>3. /\ j \in Contract!registered <=> j \in jobs
        /\ Entry[j] # "unnamed" /\ pollOf(c).pc = "idle"
    BY <2>1 DEF Contract!registered, Entry, entryOf, PollLooks, pollOf
  <2>4. Contract!Lookup(c, j, offset)
    BY <1>1, <1>3, <1>4, <2>2, <2>3 DEF Contract!Lookup, Entry, Recorded,
       OpenPolls, TextEnd, Contract!TextEnd
  <2> QED BY <2>4 DEF Contract!ContractNext
<1>6. CASE PollReads(c) \/ (PollReadsStatus(c) /\ status[poll[c].job] = "done")
  <2>1. /\ poll[c].pc \in {"looked", "read"} /\ poll'[c].pc \in {"read", "done"}
        /\ poll'[c].job = poll[c].job /\ poll'[c].from = poll[c].from
        /\ poll'[c].seen = poll[c].seen /\ poll'[c].done = poll[c].done
        /\ poll'[c].code = poll[c].code
    BY <1>0, <1>6 DEF PollReads, PollReadsStatus, Polls
  <2>3. pollOf(c)' = pollOf(c)
    BY <2>1 DEF pollOf
  <2>2. OpenPolls' = OpenPolls
    BY <1>2, <2>3 DEF OpenPolls
  <2> QED BY <1>1, <2>2 DEF Contract!contractVars, Entry, Recorded, OpenPolls
<1>7. CASE \/ PollReadsStatus(c) /\ status[poll[c].job] # "done"
           \/ PollReadsCode(c)
  <2> DEFINE p == poll[c]
             q == poll'[c]
             j == p.job
  <2>1. /\ j \in Jobs
        /\ OpenPolls[c] = [pc |-> "looked", job |-> j, from |-> p.from,
                            to |-> p.seen, done |-> p.done, code |-> p.code]
    BY <1>0, <1>4, <1>7 DEF PollInv, PollReadsStatus, PollReadsCode, pollOf
  <2>2. /\ q.pc = "found" /\ q.job = j /\ q.from = p.from /\ q.to = p.to
        /\ q.done \in BOOLEAN /\ q.to \in 0 .. MaxOut
        /\ \/ q.done = FALSE /\ q.code = None /\ status[j] # "done"
           \/ q.done = TRUE /\ q.code = exit[j] /\ status[j] = "done"
    BY <1>0, <1>7 DEF PollInv, PollReadsStatus, PollReadsCode, Polls
  <2>3. exit[j] \in ExitCodes \cup {None}
    BY <1>0, <2>1 DEF TypeOK
  <2>4. q.code \in Contract!ExitCodes \cup {None}
    BY <2>2, <2>3 DEF Contract!ExitCodes
  <2>5. j \in Contract!registered <=> j \in jobs
    BY <2>1 DEF Contract!registered, Entry, entryOf
  <2>6. \/ p.seen <= q.to /\ q.to <= TextEnd(j, p.from)
        \/ q.to = p.from /\ j \notin jobs
    BY <1>0, <1>7, <2>2 DEF PollInv, PollReadsStatus, PollReadsCode
  <2>7. q.code = "ok" => proc[j] = "ok"
    BY <1>0, <2>1, <2>2, NoneAssumption DEF JobInv
  <2>8. j \in jobs => /\ q.done = TRUE <=> j \in Recorded
                      /\ q.done = TRUE => q.code = proc[j]
    BY <1>0, <2>1, <2>2 DEF JobInv, Recorded
  <2>9. pollOf(c)' = [pc |-> "found", job |-> j, from |-> p.from,
                      to |-> q.to, done |-> q.done, code |-> q.code]
    BY <2>2 DEF pollOf
  <2> HIDE DEF p, q, j
  <2>10. OpenPolls' = [OpenPolls EXCEPT ![c] =
              [pc |-> "found", job |-> OpenPolls[c].job,
               from |-> OpenPolls[c].from, to |-> q.to, done |-> q.done,
               code |-> q.code]]
    <3>1. OpenPolls[c].from = p.from /\ OpenPolls[c].job = j
      BY <2>1
    <3> QED BY <1>3, <2>9, <3>1
  <2>11. /\ \/ OpenPolls[c].to <= q.to /\ q.to <= Contract!TextEnd(j, OpenPolls[c].from)
            \/ q.to = OpenPolls[c].from /\ j \notin Contract!registered
         /\ q.code = "ok" => proc[j] = "ok"
         /\ q.done = FALSE => q.code = None
         /\ j \in Contract!registered => /\ q.done = TRUE <=> j \in Recorded
                                         /\ q.done = TRUE => q.code = proc[j]
         /\ OpenPolls[c].pc = "looked" /\ OpenPolls[c].job = j
    BY <2>1, <2>2, <2>5, <2>6, <2>7, <2>8 DEF TextEnd, Contract!TextEnd
  <2>12. Contract!ReplyWith(c, q.to, q.done, q.code)
    BY <1>1, <2>10, <2>11 DEF Contract!ReplyWith, Contract!FieldsFit, Contract!Replied, Entry,
        Recorded, OpenPolls
  <2>13. Contract!Reply(c)
    BY <2>2, <2>4, <2>12 DEF Contract!Reply
  <2> QED BY <2>13 DEF Contract!ContractNext
<1>8. CASE PollLost(c)
  <2>1. poll'[c] = LostPoll
    BY <1>0, <1>8 DEF PollLost
  <2>3. pollOf(c)' = Contract!LostPoll
    BY <2>1 DEF pollOf, NoPoll, LostPoll, Unanswered,
       Contract!NoPoll, Contract!LostPoll, Contract!Unanswered
  <2>4. pollOf(c).pc \in {"idle", "looked"}
    <3>1. poll[c].pc \in {"idle", "looked", "read", "done"}
      BY <1>8 DEF PollLost
    <3> QED BY <3>1 DEF pollOf
  <2>2. Contract!Lose(c)
    BY <1>1, <1>3, <1>4, <2>3, <2>4 DEF Contract!Lose, Entry, Recorded, OpenPolls
  <2> QED BY <2>2 DEF Contract!ContractNext
<1>9. CASE PollEnds(c)
  <2>1. pollOf(c)' = Contract!NoPoll /\ pollOf(c).pc # "idle"
    BY <1>0, <1>9 DEF PollEnds, pollOf, NoPoll, LostPoll, Unanswered,
       Contract!NoPoll, Contract!LostPoll, Contract!Unanswered
  <2>2. Contract!Hangup(c)
    BY <1>1, <1>3, <1>4, <2>1 DEF Contract!Hangup, Entry, Recorded, OpenPolls
  <2> QED BY <2>2 DEF Contract!ContractNext
<1> QED BY <1>5, <1>6, <1>7, <1>8, <1>9 DEF PollStep

LEMMA RefineCrash ==
    ASSUME IInv, Crash
    PROVE  [Contract!ContractNext]_(Contract!contractVars)
<1>0. TypeOK /\ \A j \in Jobs : JobInv(j)
  BY DEF IInv
<1>1. Recorded' = Recorded /\ out' = out
  BY <1>0 DEF Crash, Recorded, fields
<1>2. Entry' = [j \in Jobs |-> IF proc[j] = "absent" THEN "unnamed" ELSE "out"]
  BY <1>0 DEF Crash, Entry, entryOf, JobInv, TypeOK
<1>3. OpenPolls' = [c \in Clients |-> IF OpenPolls[c].pc = "looked"
                                     THEN Contract!LostPoll
                                     ELSE OpenPolls[c]]
  BY <1>0 DEF Crash, OpenPolls, pollOf, NoPoll, LostPoll, Unanswered,
       Contract!NoPoll, Contract!LostPoll, Contract!Unanswered
<1>4. Contract!Crash
  BY <1>1, <1>2, <1>3 DEF Contract!Crash, Crash, Entry, Recorded, OpenPolls
<1> QED BY <1>4 DEF Contract!ContractNext

\* The sidecar implements RunnerContract: whatever is proved of the contract
\* holds of the threads.
THEOREM Implementation == Spec => ImplementsContract
<1>1. IInv /\ IInv' /\ [Next]_vars => [Contract!ContractNext]_(Contract!contractVars)
  <2> SUFFICES ASSUME IInv, IInv', [Next]_vars
               PROVE  [Contract!ContractNext]_(Contract!contractVars)
    OBVIOUS
  <2>1. CASE UNCHANGED vars
    BY <2>1 DEF vars, process, fields, threads, Contract!contractVars, entryOf,
       pollOf
  <2> QED BY <2>1, RefineStart, RefineThreads, RefinePoll, RefineCrash DEF Next
<1> QED BY RefineInit, <1>1, IInvariant, PTL
        DEF Spec, ImplementsContract, Contract!ContractSpec
=============================================================================
