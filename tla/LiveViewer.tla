------------------------------ MODULE LiveViewer ------------------------------
(***************************************************************************)
(* The live output of a playbook run in the browser: PlaybookRunOutput.tsx *)
(* in the drawers of PlaybookRunsPage.tsx and JobTemplatesPage.tsx, on the *)
(* other end of GET /playbook-runs/{id}/stream.                            *)
(*                                                                         *)
(* One drawer shows one run; the component in it keeps the output and the  *)
(* badge, and an EventSource that connects again by itself.  The answer of *)
(* a launch puts its run in the drawer whenever it comes: into a drawer    *)
(* that is open already, the same component goes on with another run.      *)
(*                                                                         *)
(* The backend is that of PlaybookRuns, with a cancellation in one step:   *)
(* here it is what the browser sees of it that matters.                    *)
(***************************************************************************)
EXTENDS Naturals, Sequences

CONSTANTS
    Runs,          \* the runs
    MaxOut,        \* bound: pieces of output of one run
    MaxIncidents   \* bound: drawers opened, output asked again, failures

ASSUME ViewerAssumption ==
    Runs \subseteq Nat \ {0} /\ {MaxOut, MaxIncidents} \subseteq Nat

VARIABLES
    run,        \* each run: its row, its job, how far execute_run has come, and
                \* the history lossy: a poll of its output has lost some of it
    launched,   \* runs that this page has launched, to be answered
    viewer,     \* the component in the drawer
    stream,     \* the request behind its EventSource
    carried,    \* history: the badge is of a run that was shown before
    incidents   \* number of incidents

vars == <<run, launched, viewer, stream, carried, incidents>>

Active == {"pending", "running"}
Final == {"success", "failed", "cancelled"}

Unlaunched ==
    [status |-> "absent", output |-> <<>>, code |-> "none",
     job |-> "none", exit |-> "none", printed |-> 0,
     exec |-> "todo", execAt |-> 0, lossy |-> FALSE]

Closed == [run |-> 0, output |-> <<>>, badge |-> "pending", code |-> "none",
           live |-> FALSE]

NoStream == [phase |-> "none", run |-> 0, at |-> 0]

\* A piece of output says which run printed it.
Piece(r, n) == [of |-> r, n |-> n]

\* Half a character at the end of a poll is replaced by a mark, whose length is
\* added to the offset: the poll after it misses some of the text.
ReadAs(r, n, cut) == IF cut THEN Piece(r, 0) ELSE Piece(r, n)

StatusOf(code) == IF code = "ok" THEN "success" ELSE "failed"

Init ==
    /\ run = [r \in Runs |-> Unlaunched]
    /\ launched = {}
    /\ viewer = Closed
    /\ stream = NoStream
    /\ carried = FALSE
    /\ incidents = 0

Incident ==
    /\ incidents < MaxIncidents
    /\ incidents' = incidents + 1

------------------------------------------------------------------------------
(* The backend and the sidecar.                                             *)

\* By this page, or by another one or a schedule.
Launches(r, here) ==
    /\ run[r].status = "absent"
    /\ run' = [run EXCEPT ![r].status = "pending"]
    /\ launched' = IF here THEN launched \cup {r} ELSE launched
    /\ UNCHANGED <<viewer, stream, carried, incidents>>

\* execute_run starts its job whatever has become of the row.
Starts(r) ==
    /\ run[r].status # "absent" /\ run[r].exec = "todo"
    /\ \/ run' = [run EXCEPT ![r].status = "running", ![r].job = "alive",
                             ![r].exec = "streams"]
       \/ run' = [run EXCEPT ![r].status = "failed", ![r].exec = "over"]
    /\ UNCHANGED <<launched, viewer, stream, carried, incidents>>

Prints(r) ==
    /\ run[r].job = "alive" /\ run[r].printed < MaxOut
    /\ run' = [run EXCEPT ![r].printed = @ + 1]
    /\ UNCHANGED <<launched, viewer, stream, carried, incidents>>

Exits(r) ==
    /\ run[r].job = "alive"
    /\ \E code \in {"ok", "bad"} :
         run' = [run EXCEPT ![r].job = "exited", ![r].exit = code]
    /\ UNCHANGED <<launched, viewer, stream, carried, incidents>>

\* The row of a run whose stream has ended with the exit code of its job.  The
\* sidecar reads the file before it looks whether the job is done, and a reader
\* stops at done: what is printed in between stays unread.
Settled(row, at) == [row EXCEPT !.status = StatusOf(row.exit), !.code = row.exit,
                                !.lossy = @ \/ at < row.printed]

\* execute_run reads its own stream; on an orphaned job it changes nothing.
ExecReads(r) ==
    /\ run[r].exec = "streams"
    /\ \/ /\ run[r].job # "gone" /\ run[r].execAt < run[r].printed
          /\ \E cut \in BOOLEAN :
               run' = [run EXCEPT
                 ![r].execAt = @ + 1, ![r].lossy = @ \/ cut,
                 ![r].output = Append(@, ReadAs(r, run[r].execAt + 1, cut))]
       \/ /\ run[r].job = "exited"
          /\ run' = [run EXCEPT ![r] = [Settled(@, @.execAt) EXCEPT !.exec = "over"]]
       \/ /\ run[r].job = "gone"
          /\ run' = [run EXCEPT ![r].exec = "over"]
    /\ UNCHANGED <<launched, viewer, stream, carried, incidents>>

\* An admin cancels a run; its job is dropped.
Cancels(r) ==
    /\ Incident
    /\ run[r].status \in Active
    /\ run' = [run EXCEPT ![r].status = "cancelled",
                          ![r].job = IF @ = "none" THEN @ ELSE "gone"]
    /\ UNCHANGED <<launched, viewer, stream, carried>>

------------------------------------------------------------------------------
(* The drawer.                                                              *)

Finished(v) == v.badge \in Final

\* connect(): the output of before stays.
Connected(v) ==
    [v EXCEPT !.live = TRUE, !.code = "none",
              !.badge = IF Finished(v) THEN @ ELSE "running"]

ConnectsTo(r) == [phase |-> "asked", run |-> r, at |-> 0]

\* The component is mounted with a row, and connects unless it is final.
Mounts(row, r) ==
    LET v == [Closed EXCEPT !.run = r, !.output = row.output, !.badge = row.status]
    IN /\ viewer' = IF Finished(v) THEN v ELSE Connected(v)
       /\ stream' = IF Finished(v) THEN NoStream ELSE ConnectsTo(r)
       /\ carried' = FALSE

\* Wrong: the effect runs when the component is mounted, not for another run.
GoesOnUnconnected(r) ==
    /\ viewer' = [viewer EXCEPT !.run = r]
    /\ UNCHANGED <<stream, carried>>

\* The component goes on with another run.  The effect on runId closes the old
\* connection, and makes a new one only if the badge, which is still of the run
\* before, is not final.
GoesOn(r) ==
    LET v == [viewer EXCEPT !.run = r]
    IN /\ viewer' = IF Finished(v) THEN v ELSE Connected(v)
       /\ stream' = IF Finished(v) THEN NoStream ELSE ConnectsTo(r)
       /\ carried' = (carried \/ Finished(v))

\* The row is that of the list of runs, which is read every five seconds: to open
\* it later is to be slow to connect, which the stream may always be.
Opens(r) ==
    /\ Incident
    /\ viewer.run = 0 /\ run[r].status # "absent"
    /\ Mounts(run[r], r)
    /\ UNCHANGED <<run, launched>>

\* A launch is answered with the row as it was inserted, and shown.
LaunchIsAnswered(r) ==
    /\ r \in launched
    /\ launched' = launched \ {r}
    /\ IF viewer.run = 0 THEN Mounts([Unlaunched EXCEPT !.status = "pending"], r)
       ELSE IF viewer.run = r THEN UNCHANGED <<viewer, stream, carried>>
       ELSE GoesOn(r)
    /\ UNCHANGED <<run, incidents>>

Closes ==
    /\ viewer.run # 0
    /\ viewer' = Closed /\ stream' = NoStream /\ carried' = FALSE
    /\ UNCHANGED <<run, launched, incidents>>

Restreams ==
    /\ Incident
    /\ viewer.run # 0 /\ Finished(viewer)
    /\ viewer' = Connected(viewer)
    /\ stream' = ConnectsTo(viewer.run)
    /\ UNCHANGED <<run, launched, carried>>

------------------------------------------------------------------------------
(* The stream, from the request to the handlers of the EventSource.         *)

Received(pieces) == [viewer EXCEPT !.output = @ \o pieces]

\* The event done, after some last pieces.
Done(pieces, code) ==
    /\ viewer' = [Received(pieces) EXCEPT !.live = FALSE, !.code = code,
                                          !.badge = StatusOf(code)]
    /\ stream' = NoStream /\ carried' = FALSE

\* Wrong: the handler of an error leaves the light on.
FailedStillLive == viewer

\* The event error: the light goes out, the badge stays.
Failed == [viewer EXCEPT !.live = FALSE]

\* A run that is complete when it is asked for, or becomes so while the stream
\* waits for its job, is replayed; one without a job is waited for, ten seconds.
StreamBegins ==
    /\ stream.phase \in {"asked", "waits"}
    /\ LET r == stream.run
       IN \/ /\ run[r].status \in Final
             /\ stream.phase = "asked" \/ run[r].job = "none"
             /\ Done(run[r].output, run[r].code)
             /\ UNCHANGED run
          \/ /\ stream.phase = "waits" \/ run[r].status \in Active
             /\ run[r].job # "none"
             /\ stream' = [stream EXCEPT !.phase = "live"]
             /\ UNCHANGED <<run, viewer, carried>>
          \/ /\ stream.phase = "asked"
             /\ run[r].status \in Active /\ run[r].job = "none"
             /\ stream' = [stream EXCEPT !.phase = "waits"]
             /\ UNCHANGED <<run, viewer, carried>>
          \/ /\ stream.phase = "waits" /\ run[r].status \in Active
             /\ run[r].job = "none"
             /\ run' = [run EXCEPT ![r].status = "failed"]
             /\ viewer' = Failed
             /\ stream' = NoStream
             /\ UNCHANGED carried
    /\ UNCHANGED <<launched, incidents>>

\* The stream is a second reader of the job, and appends to the row as well.
StreamSends ==
    /\ stream.phase = "live"
    /\ LET r == stream.run
       IN /\ run[r].job # "gone" /\ stream.at < run[r].printed
          /\ \E cut \in BOOLEAN :
               LET piece == ReadAs(r, stream.at + 1, cut)
               IN /\ run' = [run EXCEPT ![r].output = Append(@, piece),
                                        ![r].lossy = @ \/ cut]
                  /\ viewer' = Received(<<piece>>)
    /\ stream' = [stream EXCEPT !.at = @ + 1]
    /\ UNCHANGED <<launched, carried, incidents>>

\* The end of a job, or the job is gone: an active run has failed then.
StreamEnds ==
    /\ stream.phase = "live"
    /\ LET r == stream.run
       IN \/ /\ run[r].job = "exited"
             /\ run' = [run EXCEPT ![r] = Settled(@, stream.at)]
             /\ Done(<<>>, run[r].exit)
          \/ /\ run[r].job = "gone"
             /\ run' = IF run[r].status \in Active
                       THEN [run EXCEPT ![r].status = "failed"] ELSE run
             /\ Done(<<>>, "none")
    /\ UNCHANGED <<launched, incidents>>

\* An error is sent, or a connection refused: neither connects again.
StreamFails ==
    /\ Incident
    /\ stream.phase # "none"
    /\ viewer' = Failed
    /\ stream' = NoStream
    /\ UNCHANGED <<run, launched, carried>>

\* The connection is lost, and the browser makes another one.
StreamDrops ==
    /\ Incident
    /\ stream.phase # "none"
    /\ stream' = ConnectsTo(stream.run)
    /\ UNCHANGED <<run, launched, viewer, carried>>

RunStep(r) == Starts(r) \/ Prints(r) \/ Exits(r) \/ ExecReads(r)
StreamStep == StreamBegins \/ StreamSends \/ StreamEnds

Next ==
    \/ \E r \in Runs : \/ \E here \in BOOLEAN : Launches(r, here)
                       \/ RunStep(r) \/ Cancels(r) \/ Opens(r)
                       \/ LaunchIsAnswered(r)
    \/ Closes \/ Restreams
    \/ StreamStep \/ StreamFails \/ StreamDrops

Spec == Init /\ [][Next]_vars

\* Playbooks end, execute_run and the streams go on.
FairSpec ==
    /\ Spec
    /\ WF_vars(StreamStep)
    /\ \A r \in Runs : WF_vars(RunStep(r)) /\ SF_vars(Exits(r))

------------------------------------------------------------------------------
(* Properties.                                                              *)

\* A drawer that shows how its run ended is right, whatever was on the screen
\* before, however often the connection was lost, and whoever else wrote to the
\* row: unless the badge was carried over from the run before
\* (PlaybookRunOutput.tsx:114-124).  It shows everything that the run has printed,
\* unless a poll of either reader has lost some: by half a character
\* (ansible_runner.py:110-112), or because the file was read before the last
\* output came and the status after the end (main.py:292-302).
EndIsOfThisRun ==
    LET r == run[viewer.run]
        known == viewer.badge = "success" \/ viewer.code # "none"
    IN (viewer.run # 0 /\ known /\ ~carried) =>
         /\ (viewer.badge = "success") = (r.exit = "ok")
         /\ viewer.code # "none" => viewer.code = r.exit
         /\ \A n \in 1..(IF r.lossy THEN 0 ELSE r.printed) :
              \E i \in DOMAIN viewer.output : viewer.output[i] = Piece(viewer.run, n)

\* The light of a live stream goes out: on the end of the run, an error, or the
\* end of the connection.  It does not if a badge was carried over, since then
\* no connection is left that could put it out.
LiveGoesOut == viewer.live ~> (~viewer.live \/ carried)

\* Not true of the code, and checked by no run: what is on the screen is the
\* output of the run in the title, each piece once.  Re-stream, a connection made
\* again, and a run that is opened while it is running repeat what is there
\* already; a run that takes the place of another one follows its output.
EachPieceOnce ==
    viewer.run # 0 =>
        /\ \A i \in DOMAIN viewer.output : viewer.output[i].of = viewer.run
        /\ \A i, j \in DOMAIN viewer.output :
             viewer.output[i] = viewer.output[j] => i = j
==============================================================================
