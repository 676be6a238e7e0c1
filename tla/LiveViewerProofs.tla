--------------------------- MODULE LiveViewerProofs ---------------------------
(***************************************************************************)
(* Proofs about LiveViewer for any number of runs, pieces of output and    *)
(* incidents.                                                              *)
(*                                                                         *)
(* EndIsOfThisRun is about two readers of one job, execute_run and the     *)
(* stream of the drawer, which write one row, and about a drawer that is   *)
(* filled now from the row and now from the stream.  It needs that a row   *)
(* with an end has the end of its job and, unless a poll has lost some of  *)
(* it, all the output (RowOK), that a live stream has put what it has read *)
(* so far both in the row and on the screen (StreamOK), and that nothing   *)
(* is printed once a job has ended (Keeps).                                *)
(***************************************************************************)
EXTENDS LiveViewer, TLAPS

Pieces == [of : Nat, n : Nat]
Codes == {"none", "ok", "bad"}
Statuses == {"absent"} \cup Active \cup Final

Rows == [status : Statuses, output : Seq(Pieces), code : Codes,
         job : {"none", "alive", "exited", "gone"}, exit : Codes,
         printed : Nat, exec : {"todo", "streams", "over"}, execAt : Nat,
         lossy : BOOLEAN]
Viewers == [run : Runs \cup {0}, output : Seq(Pieces), badge : Statuses,
            code : Codes, live : BOOLEAN]
Streams == [phase : {"none", "asked", "waits", "live"}, run : Runs \cup {0},
            at : Nat]

Typed ==
    /\ run \in [Runs -> Rows] /\ launched \subseteq Runs
    /\ viewer \in Viewers /\ stream \in Streams /\ carried \in BOOLEAN

------------------------------------------------------------------------------
Shows(output, r, n) == \E i \in DOMAIN output : output[i] = Piece(r, n)
ShowsUpTo(output, r, k) == \A n \in 1..k : Shows(output, r, n)

Ended(row) == row.job \in {"exited", "gone"}
HasEnd(row) == row.status = "success" \/ row.code # "none"

RowOK(r, row) ==
    /\ row.exec = "todo" => row.job = "none"
    /\ row.job = "exited" => row.exit # "none"
    /\ row.lossy \/ ShowsUpTo(row.output, r, row.execAt)
    /\ HasEnd(row) => /\ Ended(row)
                      /\ row.lossy \/ ShowsUpTo(row.output, r, row.printed)
                      /\ row.status = "success" => row.exit = "ok"
                      /\ row.code # "none" => row.code = row.exit

StreamOK(rows, v, s) ==
    s.phase # "none" =>
        /\ s.run = v.run /\ v.run \in Runs
        /\ s.phase \in {"asked", "waits"} => s.at = 0
        /\ (s.phase = "live" /\ ~rows[v.run].lossy) =>
              /\ ShowsUpTo(rows[v.run].output, v.run, s.at)
              /\ ShowsUpTo(v.output, v.run, s.at)

Known(v) == v.badge = "success" \/ v.code # "none"

ViewerOK(rows, v, c) ==
    (v.run # 0 /\ Known(v) /\ ~c) =>
        /\ Ended(rows[v.run])
        /\ (v.badge = "success") = (rows[v.run].exit = "ok")
        /\ v.code # "none" => v.code = rows[v.run].exit
        /\ rows[v.run].lossy \/ ShowsUpTo(v.output, v.run, rows[v.run].printed)

IInv ==
    /\ Typed
    /\ \A r \in Runs : RowOK(r, run[r])
    /\ StreamOK(run, viewer, stream)
    /\ ViewerOK(run, viewer, carried)

\* What no step takes away from a row.
Keeps(r, old, new) ==
    /\ \A n \in Nat : Shows(old.output, r, n) => Shows(new.output, r, n)
    /\ Ended(old) => Ended(new) /\ new.exit = old.exit /\ new.printed = old.printed
    /\ old.lossy => new.lossy

------------------------------------------------------------------------------
LEMMA AppendShows ==
    ASSUME NEW s \in Seq(Pieces), NEW p \in Pieces, NEW r, NEW n
    PROVE  /\ Append(s, p) \in Seq(Pieces)
           /\ Shows(s, r, n) => Shows(Append(s, p), r, n)
           /\ p = Piece(r, n) => Shows(Append(s, p), r, n)
<1>1. /\ Append(s, p) \in Seq(Pieces)
      /\ DOMAIN Append(s, p) = 1..(Len(s) + 1) /\ DOMAIN s = 1..Len(s)
      /\ Len(s) \in Nat /\ Append(s, p)[Len(s) + 1] = p
      /\ \A i \in 1..Len(s) : Append(s, p)[i] = s[i]
  OBVIOUS
<1>2. Len(s) + 1 \in 1..(Len(s) + 1) /\ \A i \in 1..Len(s) : i \in 1..(Len(s) + 1)
  BY <1>1
<1> QED
  BY <1>1, <1>2 DEF Shows

LEMMA ConcatShows ==
    ASSUME NEW s \in Seq(Pieces), NEW t \in Seq(Pieces), NEW r, NEW n
    PROVE  /\ s \o t \in Seq(Pieces)
           /\ Shows(s, r, n) => Shows(s \o t, r, n)
           /\ Shows(t, r, n) => Shows(s \o t, r, n)
<1>1. /\ s \o t \in Seq(Pieces)
      /\ Len(s) \in Nat /\ Len(t) \in Nat
      /\ DOMAIN s = 1..Len(s) /\ DOMAIN t = 1..Len(t)
      /\ DOMAIN (s \o t) = 1..(Len(s) + Len(t))
  OBVIOUS
<1>2. \A i \in 1..Len(s) : i \in 1..(Len(s) + Len(t)) /\ (s \o t)[i] = s[i]
  BY <1>1
<1>3. \A i \in 1..Len(t) : /\ Len(s) + i \in 1..(Len(s) + Len(t))
                           /\ (s \o t)[Len(s) + i] = t[i]
  BY <1>1
<1>4. Shows(s, r, n) => Shows(s \o t, r, n)
  BY <1>1, <1>2 DEF Shows
<1>5. Shows(t, r, n) => Shows(s \o t, r, n)
  BY <1>1, <1>3 DEF Shows
<1> QED
  BY <1>1, <1>4, <1>5

LEMMA PieceTyped ==
    ASSUME NEW r \in Runs, NEW n \in Nat
    PROVE  /\ Piece(r, n) \in Pieces
           /\ \A cut \in BOOLEAN : ReadAs(r, n, cut) \in Pieces
           /\ ReadAs(r, n, FALSE) = Piece(r, n)
BY ViewerAssumption DEF Piece, ReadAs, Pieces

LEMMA ShowsLess ==
    ASSUME NEW output, NEW r, NEW m \in Nat, NEW k \in Nat,
           ShowsUpTo(output, r, m), ~(m < k)
    PROVE  ShowsUpTo(output, r, k)
<1>1. \A n \in 1..k : n \in 1..m
  OBVIOUS
<1> QED
  BY <1>1 DEF ShowsUpTo

\* The next piece of a reader that has shown all before it, if it is read whole.
LEMMA NextPiece ==
    ASSUME NEW r \in Runs, NEW k \in Nat, NEW s \in Seq(Pieces), ShowsUpTo(s, r, k)
    PROVE  ShowsUpTo(Append(s, Piece(r, k + 1)), r, k + 1)
<1>0. k + 1 \in Nat
  OBVIOUS
<1>1. Piece(r, k + 1) \in Pieces
  BY <1>0, PieceTyped
<1>2. SUFFICES ASSUME NEW n \in 1..(k + 1)
               PROVE  Shows(Append(s, Piece(r, k + 1)), r, n)
  BY DEF ShowsUpTo
<1>3. CASE n = k + 1
  BY <1>1, <1>3, AppendShows
<1>4. CASE n \in 1..k
  BY <1>1, <1>4, AppendShows DEF ShowsUpTo
<1> QED
  BY <1>3, <1>4

\* A row that changes and keeps what it had: whoever only looks at it may go on.
LEMMA RowChanges ==
    ASSUME IInv, NEW r \in Runs, NEW row \in Rows, RowOK(r, row),
           Keeps(r, run[r], row), run' = [run EXCEPT ![r] = row]
    PROVE  /\ run' \in [Runs -> Rows]
           /\ \A q \in Runs : RowOK(q, run'[q])
           /\ StreamOK(run', viewer, stream)
           /\ ViewerOK(run', viewer, carried)
<1>1. run \in [Runs -> Rows] /\ viewer \in Viewers /\ stream \in Streams
  BY DEF IInv, Typed
<1>2. run'[r] = row /\ \A q \in Runs \ {r} : run'[q] = run[q]
  BY <1>1
<1>3. \A q \in Runs : RowOK(q, run'[q])
  BY <1>2 DEF IInv
<1>4. \A q \in Runs : Keeps(q, run[q], run'[q])
  BY <1>2 DEF Keeps
<1>5. StreamOK(run', viewer, stream)
  <2>1. \A n \in 1..stream.at : n \in Nat
    BY <1>1 DEF Streams
  <2> QED
    BY <1>4, <2>1 DEF IInv, StreamOK, Keeps, ShowsUpTo
<1>6. ViewerOK(run', viewer, carried)
  <2>1. viewer.run # 0 => viewer.run \in Runs
    BY <1>1 DEF Viewers
  <2> QED
    BY <1>4, <2>1 DEF IInv, ViewerOK, Keeps
<1> QED
  BY <1>1, <1>3, <1>5, <1>6

------------------------------------------------------------------------------
(* The backend and the sidecar: the drawer is left alone.                   *)

LEMMA UnlaunchedTyped ==
    Unlaunched \in Rows
<1>1. <<>> \in Seq(Pieces)
  OBVIOUS
<1> QED
  BY <1>1 DEF Unlaunched, Rows, Statuses, Codes

LEMMA RowFacts ==
    ASSUME IInv, NEW r \in Runs
    PROVE  run[r] \in Rows /\ RowOK(r, run[r]) /\ Keeps(r, run[r], run[r])
BY DEF IInv, Typed, Keeps

LEMMA RowStepKeeps ==
    ASSUME IInv, NEW r \in Runs, NEW row \in Rows, RowOK(r, row),
           Keeps(r, run[r], row), run' = [run EXCEPT ![r] = row],
           launched' \subseteq Runs, UNCHANGED <<viewer, stream, carried>>
    PROVE  IInv'
<1>1. StreamOK(run', viewer, stream) /\ ViewerOK(run', viewer, carried)
  BY RowChanges
<1>2. run' \in [Runs -> Rows] /\ \A q \in Runs : RowOK(q, run'[q])
  BY RowChanges
<1> QED
  BY <1>1, <1>2 DEF IInv, Typed

LEMMA LaunchesKeeps ==
    ASSUME IInv, NEW r \in Runs, NEW here \in BOOLEAN, Launches(r, here)
    PROVE  IInv'
<1> DEFINE row == [run[r] EXCEPT !.status = "pending"]
<1>1. run[r] \in Rows /\ RowOK(r, run[r])
  BY RowFacts
<1>2. row \in Rows
  BY <1>1 DEF Rows, Statuses, Active
<1>3. RowOK(r, row)
  BY <1>1 DEF Rows, RowOK, HasEnd, Ended
<1>4. Keeps(r, run[r], row)
  BY <1>1 DEF Rows, Keeps, Ended
<1>5. run' = [run EXCEPT ![r] = row]
  BY DEF Launches, IInv, Typed
<1>6. launched' \subseteq Runs /\ UNCHANGED <<viewer, stream, carried>>
  BY DEF Launches, IInv, Typed
<1> QED
  BY <1>2, <1>3, <1>4, <1>5, <1>6, RowStepKeeps

LEMMA StartsKeeps ==
    ASSUME IInv, NEW r \in Runs, Starts(r)
    PROVE  IInv'
<1> DEFINE begun == [run[r] EXCEPT !.status = "running", !.job = "alive",
                                   !.exec = "streams"]
           failed == [run[r] EXCEPT !.status = "failed", !.exec = "over"]
<1>1. run[r] \in Rows /\ RowOK(r, run[r])
  BY RowFacts
<1>2. /\ begun \in Rows /\ failed \in Rows
      /\ Keeps(r, run[r], failed)
  BY <1>1 DEF Rows, Statuses, Active, Final, Keeps, Ended
<1>3. run[r].job = "none" /\ ~HasEnd(run[r])
  BY <1>1 DEF Starts, RowOK, Ended
<1>4. RowOK(r, begun) /\ RowOK(r, failed) /\ Keeps(r, run[r], begun)
  BY <1>1, <1>3 DEF Rows, RowOK, HasEnd, Ended, Keeps
<1>5. \E row \in {begun, failed} : run' = [run EXCEPT ![r] = row]
  BY DEF Starts, IInv, Typed
<1>6. launched' \subseteq Runs /\ UNCHANGED <<viewer, stream, carried>>
  BY DEF Starts, IInv, Typed
<1> QED
  BY <1>2, <1>4, <1>5, <1>6, RowStepKeeps

LEMMA PrintsKeeps ==
    ASSUME IInv, NEW r \in Runs, Prints(r)
    PROVE  IInv'
<1> DEFINE row == [run[r] EXCEPT !.printed = @ + 1]
<1>1. run[r] \in Rows /\ RowOK(r, run[r])
  BY RowFacts
<1>2. row \in Rows /\ ~Ended(run[r])
  BY <1>1 DEF Rows, Prints, Ended
<1>3. RowOK(r, row) /\ Keeps(r, run[r], row)
  BY <1>1, <1>2 DEF Rows, RowOK, HasEnd, Ended, Keeps
<1>4. run' = [run EXCEPT ![r] = row]
  BY DEF Prints, IInv, Typed
<1>5. launched' \subseteq Runs /\ UNCHANGED <<viewer, stream, carried>>
  BY DEF Prints, IInv, Typed
<1> QED
  BY <1>2, <1>3, <1>4, <1>5, RowStepKeeps

LEMMA ExitsKeeps ==
    ASSUME IInv, NEW r \in Runs, Exits(r)
    PROVE  IInv'
<1>1. PICK code \in {"ok", "bad"} :
        run' = [run EXCEPT ![r].job = "exited", ![r].exit = code]
  BY DEF Exits
<1> DEFINE row == [run[r] EXCEPT !.job = "exited", !.exit = code]
<1>2. run[r] \in Rows /\ RowOK(r, run[r]) /\ ~Ended(run[r])
  BY RowFacts DEF Exits, Ended
<1>3. row \in Rows
  BY <1>2 DEF Rows, Codes
<1>4. run[r].exec # "todo"
  BY <1>2 DEF RowOK, Exits
<1>5. RowOK(r, row) /\ Keeps(r, run[r], row)
  BY <1>2, <1>4 DEF Rows, RowOK, HasEnd, Ended, Keeps
<1>6. run' = [run EXCEPT ![r] = row]
  BY <1>1 DEF IInv, Typed
<1>7. launched' \subseteq Runs /\ UNCHANGED <<viewer, stream, carried>>
  BY DEF Exits, IInv, Typed
<1> QED
  BY <1>3, <1>5, <1>6, <1>7, RowStepKeeps

LEMMA CancelsKeeps ==
    ASSUME IInv, NEW r \in Runs, Cancels(r)
    PROVE  IInv'
<1> DEFINE row == [run[r] EXCEPT !.status = "cancelled",
                                 !.job = IF @ = "none" THEN @ ELSE "gone"]
<1>1. run[r] \in Rows /\ RowOK(r, run[r])
  BY RowFacts
<1>2. row \in Rows
  BY <1>1 DEF Rows, Statuses, Final
<1>3. RowOK(r, row) /\ Keeps(r, run[r], row)
  BY <1>1 DEF Rows, RowOK, HasEnd, Ended, Keeps
<1>4. run' = [run EXCEPT ![r] = row]
  BY DEF Cancels, IInv, Typed
<1>5. launched' \subseteq Runs /\ UNCHANGED <<viewer, stream, carried>>
  BY DEF Cancels, IInv, Typed
<1> QED
  BY <1>2, <1>3, <1>4, <1>5, RowStepKeeps

\* The row of a reader that is told of the end of its job at a place up to which
\* it has put everything in the row.
LEMMA SettledOK ==
    ASSUME IInv, NEW r \in Runs, run[r].job = "exited", NEW at \in Nat,
           run[r].lossy \/ ShowsUpTo(run[r].output, r, at)
    PROVE  LET row == Settled(run[r], at)
           IN row \in Rows /\ RowOK(r, row) /\ Keeps(r, run[r], row)
<1> DEFINE row == Settled(run[r], at)
<1>1. run[r] \in Rows /\ RowOK(r, run[r])
  BY RowFacts
<1>2. row = [run[r] EXCEPT !.status = StatusOf(run[r].exit), !.code = run[r].exit,
                           !.lossy = @ \/ at < run[r].printed]
  BY DEF Settled
<1>3. run[r].exit \in {"ok", "bad"}
  BY <1>1 DEF Rows, Codes, RowOK
<1>4. row \in Rows
  <2>1. (run[r].lossy \/ at < run[r].printed) \in BOOLEAN
    OBVIOUS
  <2> QED
    BY <1>1, <1>2, <2>1 DEF Rows, Statuses, Final, StatusOf
<1>5. /\ row.exec = run[r].exec /\ row.job = run[r].job /\ row.exit = run[r].exit
      /\ row.execAt = run[r].execAt /\ row.printed = run[r].printed
      /\ row.output = run[r].output
      /\ row.status = StatusOf(run[r].exit) /\ row.code = run[r].exit
      /\ row.lossy = (run[r].lossy \/ at < run[r].printed)
      /\ row.printed \in Nat
  BY <1>1, <1>2 DEF Rows
<1> HIDE DEF row
<1>6. row.lossy \/ ShowsUpTo(row.output, r, row.printed)
  <2>1. CASE run[r].lossy \/ at < run[r].printed
    BY <1>5, <2>1
  <2>2. CASE ~run[r].lossy /\ ~(at < run[r].printed)
    BY <1>5, <2>2, ShowsLess
  <2> QED
    BY <2>1, <2>2
<1>7. RowOK(r, row) /\ Keeps(r, run[r], row)
  BY <1>1, <1>3, <1>5, <1>6 DEF RowOK, HasEnd, Ended, Keeps, StatusOf
<1> QED
  BY <1>4, <1>7 DEF row

\* The row of a reader that has read the next piece.
LEMMA AppendedOK ==
    ASSUME IInv, NEW r \in Runs, NEW k \in Nat, NEW cut \in BOOLEAN
    PROVE  LET row == [run[r] EXCEPT !.output = Append(@, ReadAs(r, k, cut)),
                                     !.lossy = @ \/ cut]
           IN row \in Rows /\ RowOK(r, row) /\ Keeps(r, run[r], row)
<1> DEFINE row == [run[r] EXCEPT !.output = Append(@, ReadAs(r, k, cut)),
                                 !.lossy = @ \/ cut]
<1>1. run[r] \in Rows /\ RowOK(r, run[r]) /\ run[r].output \in Seq(Pieces)
  BY RowFacts DEF Rows
<1>2. ReadAs(r, k, cut) \in Pieces
  BY PieceTyped
<1>3. /\ row.output = Append(run[r].output, ReadAs(r, k, cut))
      /\ row.output \in Seq(Pieces)
      /\ \A n \in Nat : Shows(run[r].output, r, n) => Shows(row.output, r, n)
  BY <1>1, <1>2, AppendShows DEF Rows
<1>4. row \in Rows
  BY <1>1, <1>3 DEF Rows
<1>5. \A m \in Nat : ShowsUpTo(run[r].output, r, m) => ShowsUpTo(row.output, r, m)
  BY <1>3 DEF ShowsUpTo
<1>6. /\ row.exec = run[r].exec /\ row.job = run[r].job /\ row.exit = run[r].exit
      /\ row.execAt = run[r].execAt /\ row.printed = run[r].printed
      /\ row.status = run[r].status /\ row.code = run[r].code
      /\ row.execAt \in Nat /\ row.printed \in Nat
      /\ row.lossy = (run[r].lossy \/ cut)
  BY <1>1 DEF Rows
<1> HIDE DEF row
<1>7. RowOK(r, row) /\ Keeps(r, run[r], row)
  BY <1>1, <1>3, <1>5, <1>6 DEF RowOK, HasEnd, Ended, Keeps
<1> QED
  BY <1>4, <1>7 DEF row

LEMMA ExecReadsKeeps ==
    ASSUME IInv, NEW r \in Runs, ExecReads(r)
    PROVE  IInv'
<1>0. run[r] \in Rows /\ RowOK(r, run[r]) /\ run \in [Runs -> Rows]
  BY RowFacts DEF IInv, Typed
<1>1. launched' \subseteq Runs /\ UNCHANGED <<viewer, stream, carried>>
  BY DEF ExecReads, IInv, Typed
<1>2. ASSUME NEW cut \in BOOLEAN,
             run' = [run EXCEPT ![r].execAt = @ + 1, ![r].lossy = @ \/ cut,
                       ![r].output = Append(@, ReadAs(r, run[r].execAt + 1, cut))]
      PROVE  IInv'
  <2> DEFINE k == run[r].execAt + 1
             longer == [run[r] EXCEPT !.output = Append(@, ReadAs(r, k, cut)),
                                      !.lossy = @ \/ cut]
             row == [longer EXCEPT !.execAt = k]
  <2>1. k \in Nat /\ run[r].execAt \in Nat /\ run[r].output \in Seq(Pieces)
    BY <1>0 DEF Rows
  <2>2. longer \in Rows /\ RowOK(r, longer) /\ Keeps(r, run[r], longer)
    BY <2>1, AppendedOK
  <2>3. \/ run[r].lossy \/ cut
        \/ ShowsUpTo(Append(run[r].output, ReadAs(r, k, cut)), r, k)
    <3>1. CASE run[r].lossy \/ cut
      BY <3>1
    <3>2. CASE ~run[r].lossy /\ cut = FALSE
      <4>1. ReadAs(r, k, cut) = Piece(r, k)
        BY <3>2, <2>1, PieceTyped
      <4>2. ShowsUpTo(run[r].output, r, run[r].execAt)
        BY <1>0, <3>2 DEF RowOK
      <4> QED
        BY <2>1, <4>1, <4>2, NextPiece
    <3> QED
      BY <3>1, <3>2
  <2>4. /\ longer.output = Append(run[r].output, ReadAs(r, k, cut))
        /\ longer.lossy = (run[r].lossy \/ cut)
    BY <1>0 DEF Rows
  <2>5. row \in Rows
    BY <2>1, <2>2 DEF Rows
  <2>6. RowOK(r, row) /\ Keeps(r, run[r], row)
    BY <2>2, <2>3, <2>4 DEF Rows, RowOK, HasEnd, Ended, Keeps
  <2>7. run' = [run EXCEPT ![r] = row]
    BY <1>0, <1>2 DEF Rows
  <2> QED
    BY <1>1, <2>5, <2>6, <2>7, RowStepKeeps
<1>3. CASE /\ run[r].job = "exited"
           /\ run' = [run EXCEPT ![r] = [Settled(@, @.execAt) EXCEPT !.exec = "over"]]
  <2> DEFINE settled == Settled(run[r], run[r].execAt)
             row == [settled EXCEPT !.exec = "over"]
  <2>0. run[r].execAt \in Nat
    BY <1>0 DEF Rows
  <2>1. settled \in Rows /\ RowOK(r, settled) /\ Keeps(r, run[r], settled)
    BY <1>0, <1>3, <2>0, SettledOK DEF RowOK
  <2>2. row \in Rows
    BY <2>1 DEF Rows
  <2>3. RowOK(r, row) /\ Keeps(r, run[r], row)
    BY <2>1 DEF Rows, RowOK, HasEnd, Ended, Keeps
  <2>4. run' = [run EXCEPT ![r] = row]
    BY <1>0, <1>3
  <2> QED
    BY <1>1, <2>2, <2>3, <2>4, RowStepKeeps
<1>4. CASE run' = [run EXCEPT ![r].exec = "over"]
  <2> DEFINE row == [run[r] EXCEPT !.exec = "over"]
  <2>1. row \in Rows /\ RowOK(r, row) /\ Keeps(r, run[r], row)
    BY <1>0 DEF Rows, RowOK, HasEnd, Ended, Keeps
  <2>2. run' = [run EXCEPT ![r] = row]
    BY <1>0, <1>4
  <2> QED
    BY <1>1, <2>1, <2>2, RowStepKeeps
<1> QED
  BY <1>2, <1>3, <1>4 DEF ExecReads

------------------------------------------------------------------------------
(* The drawer: no row changes.                                              *)

LEMMA DrawerKeeps ==
    ASSUME IInv, UNCHANGED run, launched' \subseteq Runs, carried' \in BOOLEAN,
           viewer' \in Viewers, stream' \in Streams,
           StreamOK(run, viewer', stream'), ViewerOK(run, viewer', carried')
    PROVE  IInv'
BY DEF IInv, Typed

LEMMA ConnectedOK ==
    ASSUME IInv, NEW v \in Viewers, v.run \in Runs, NEW c, ViewerOK(run, v, c)
    PROVE  /\ Connected(v) \in Viewers /\ ConnectsTo(v.run) \in Streams
           /\ StreamOK(run, Connected(v), ConnectsTo(v.run))
           /\ ViewerOK(run, Connected(v), c)
<1>1. /\ Connected(v) \in Viewers
      /\ Connected(v).run = v.run /\ Connected(v).output = v.output
      /\ Connected(v).code = "none"
      /\ Connected(v).badge = "success" <=> v.badge = "success"
  BY DEF Connected, Finished, Final, Viewers, Statuses, Active, Codes
<1>2. ConnectsTo(v.run) \in Streams /\ StreamOK(run, Connected(v), ConnectsTo(v.run))
  BY <1>1 DEF ConnectsTo, Streams, StreamOK
<1>3. ViewerOK(run, Connected(v), c)
  BY <1>1 DEF ViewerOK, Known
<1> QED
  BY <1>1, <1>2, <1>3

LEMMA NoStreamOK ==
    ASSUME NEW v
    PROVE  NoStream \in Streams /\ StreamOK(run, v, NoStream)
BY DEF NoStream, Streams, StreamOK

LEMMA MountsKeeps ==
    ASSUME IInv, UNCHANGED run, launched' \subseteq Runs, NEW r \in Runs,
           NEW row \in Rows, Mounts(row, r),
           row.status = "success" =>
             /\ Ended(run[r]) /\ run[r].exit = "ok"
             /\ run[r].lossy \/ ShowsUpTo(row.output, r, run[r].printed)
    PROVE  IInv'
<1> DEFINE v == [Closed EXCEPT !.run = r, !.output = row.output, !.badge = row.status]
<1>1. /\ v \in Viewers /\ v.run = r /\ v.output = row.output
      /\ v.badge = row.status /\ v.code = "none"
  BY DEF Closed, Viewers, Rows, Codes
<1>2. ViewerOK(run, v, FALSE)
  BY <1>1 DEF ViewerOK, Known
<1>3. /\ viewer' = IF Finished(v) THEN v ELSE Connected(v)
      /\ stream' = IF Finished(v) THEN NoStream ELSE ConnectsTo(r)
      /\ carried' = FALSE
  BY DEF Mounts
<1> HIDE DEF v
<1> QED
  BY <1>1, <1>2, <1>3, NoStreamOK, ConnectedOK, DrawerKeeps

LEMMA OpensKeeps ==
    ASSUME IInv, NEW r \in Runs, Opens(r)
    PROVE  IInv'
<1>1. run[r] \in Rows /\ RowOK(r, run[r])
  BY RowFacts
<1>2. UNCHANGED run /\ launched' \subseteq Runs /\ Mounts(run[r], r)
  BY DEF Opens, IInv, Typed
<1> QED
  BY <1>1, <1>2, MountsKeeps DEF RowOK, HasEnd

LEMMA GoesOnKeeps ==
    ASSUME IInv, UNCHANGED run, launched' \subseteq Runs, NEW r \in Runs, GoesOn(r)
    PROVE  IInv'
<1> DEFINE v == [viewer EXCEPT !.run = r]
<1>1. viewer \in Viewers /\ carried \in BOOLEAN
  BY DEF IInv, Typed
<1>2. v \in Viewers /\ v.run = r /\ v.badge = viewer.badge /\ v.code = viewer.code
  BY <1>1 DEF Viewers
<1>3. /\ viewer' = IF Finished(v) THEN v ELSE Connected(v)
      /\ stream' = IF Finished(v) THEN NoStream ELSE ConnectsTo(r)
      /\ carried' = (carried \/ Finished(v))
  BY DEF GoesOn
<1> HIDE DEF v
<1>4. CASE Finished(v)
  <2>1. carried' = TRUE /\ viewer' = v /\ stream' = NoStream
    BY <1>3, <1>4
  <2>2. ViewerOK(run, v, TRUE)
    BY DEF ViewerOK
  <2> QED
    BY <1>2, <2>1, <2>2, NoStreamOK, DrawerKeeps
<1>5. CASE ~Finished(v)
  <2>1. carried' = carried /\ viewer' = Connected(v) /\ stream' = ConnectsTo(r)
    BY <1>1, <1>3, <1>5
  <2>2. /\ Connected(v) \in Viewers /\ ConnectsTo(r) \in Streams
        /\ Connected(v).badge = "running" /\ Connected(v).code = "none"
    BY <1>2, <1>5 DEF Connected, ConnectsTo, Viewers, Streams, Statuses, Active, Codes
  <2>3. StreamOK(run, Connected(v), ConnectsTo(r))
    BY <1>2 DEF Connected, ConnectsTo, StreamOK, Viewers
  <2>4. ViewerOK(run, Connected(v), carried)
    BY <2>2 DEF ViewerOK, Known
  <2> QED
    BY <1>1, <2>1, <2>2, <2>3, <2>4, DrawerKeeps
<1> QED
  BY <1>4, <1>5

LEMMA LaunchIsAnsweredKeeps ==
    ASSUME IInv, NEW r \in Runs, LaunchIsAnswered(r)
    PROVE  IInv'
<1> DEFINE row == [Unlaunched EXCEPT !.status = "pending"]
<1>1. UNCHANGED run /\ launched' \subseteq Runs
  BY DEF LaunchIsAnswered, IInv, Typed
<1>2. row \in Rows /\ row.status = "pending"
  BY UnlaunchedTyped DEF Rows, Statuses, Active
<1>3. CASE Mounts(row, r)
  <2> HIDE DEF row
  <2> QED
    BY <1>1, <1>2, <1>3, MountsKeeps
<1>4. CASE UNCHANGED <<viewer, stream, carried>>
  BY <1>1, <1>4 DEF IInv, Typed
<1>5. CASE GoesOn(r)
  BY <1>1, <1>5, GoesOnKeeps
<1> QED
  BY <1>3, <1>4, <1>5 DEF LaunchIsAnswered

LEMMA ClosesKeeps ==
    ASSUME IInv, Closes
    PROVE  IInv'
<1>1. /\ UNCHANGED run /\ launched' \subseteq Runs
      /\ viewer' = Closed /\ stream' = NoStream /\ carried' = FALSE
  BY DEF Closes, IInv, Typed
<1>2. Closed \in Viewers /\ Closed.run = 0
  BY DEF Closed, Viewers, Statuses, Active, Codes
<1>3. ViewerOK(run, Closed, FALSE)
  BY <1>2 DEF ViewerOK
<1> QED
  BY <1>1, <1>2, <1>3, NoStreamOK, DrawerKeeps

LEMMA RestreamsKeeps ==
    ASSUME IInv, Restreams
    PROVE  IInv'
<1>1. viewer \in Viewers /\ carried \in BOOLEAN /\ ViewerOK(run, viewer, carried)
  BY DEF IInv, Typed
<1>2. /\ UNCHANGED <<run, carried>> /\ launched' \subseteq Runs
      /\ viewer' = Connected(viewer) /\ stream' = ConnectsTo(viewer.run)
  BY DEF Restreams, IInv, Typed
<1>3. viewer.run \in Runs
  BY <1>1 DEF Restreams, Viewers
<1> QED
  BY <1>1, <1>2, <1>3, ConnectedOK, DrawerKeeps

------------------------------------------------------------------------------
(* The stream.                                                              *)

\* The light goes out, and nothing else on the screen changes.
LEMMA FailedOK ==
    ASSUME IInv, NEW rows, ViewerOK(rows, viewer, carried)
    PROVE  /\ Failed \in Viewers /\ ViewerOK(rows, Failed, carried)
<1>1. viewer \in Viewers
  BY DEF IInv, Typed
<1>2. /\ Failed \in Viewers /\ Failed.run = viewer.run
      /\ Failed.output = viewer.output
      /\ Failed.badge = viewer.badge /\ Failed.code = viewer.code
  BY <1>1 DEF Failed, Viewers
<1> QED
  BY <1>2 DEF ViewerOK, Known

LEMMA StreamFailsKeeps ==
    ASSUME IInv, StreamFails
    PROVE  IInv'
<1>1. /\ UNCHANGED <<run, carried>> /\ launched' \subseteq Runs
      /\ viewer' = Failed /\ stream' = NoStream /\ carried \in BOOLEAN
  BY DEF StreamFails, IInv, Typed
<1>2. Failed \in Viewers /\ ViewerOK(run, Failed, carried)
  BY FailedOK DEF IInv
<1> QED
  BY <1>1, <1>2, NoStreamOK, DrawerKeeps

LEMMA StreamDropsKeeps ==
    ASSUME IInv, StreamDrops
    PROVE  IInv'
<1>1. /\ UNCHANGED <<run, viewer, carried>> /\ launched' \subseteq Runs
      /\ stream' = ConnectsTo(stream.run) /\ carried \in BOOLEAN
      /\ viewer \in Viewers /\ stream \in Streams
  BY DEF StreamDrops, IInv, Typed
<1>2. stream.run = viewer.run /\ viewer.run \in Runs
  BY DEF StreamDrops, IInv, StreamOK
<1>3. ConnectsTo(stream.run) \in Streams
  BY <1>1 DEF ConnectsTo, Streams
<1>4. StreamOK(run, viewer, ConnectsTo(stream.run))
  BY <1>2 DEF ConnectsTo, StreamOK
<1> QED
  BY <1>1, <1>3, <1>4, DrawerKeeps DEF IInv

\* The event done: what it shows is right if the pieces complete the output and
\* the code is that of the job, or is not known.
LEMMA DoneOK ==
    ASSUME IInv, NEW rows, NEW pieces \in Seq(Pieces), NEW code \in Codes,
           Done(pieces, code),
           code # "none" =>
             /\ Ended(rows[viewer.run]) /\ rows[viewer.run].exit = code
             /\ \/ rows[viewer.run].lossy
                \/ ShowsUpTo(pieces, viewer.run, rows[viewer.run].printed)
                \/ ShowsUpTo(viewer.output, viewer.run, rows[viewer.run].printed)
    PROVE  /\ viewer' \in Viewers /\ stream' \in Streams /\ carried' \in BOOLEAN
           /\ StreamOK(rows, viewer', stream') /\ ViewerOK(rows, viewer', carried')
<1>1. viewer \in Viewers /\ viewer.output \in Seq(Pieces)
  BY DEF IInv, Typed, Viewers
<1>2. /\ viewer.output \o pieces \in Seq(Pieces)
      /\ \A n : \/ Shows(viewer.output, viewer.run, n)
                \/ Shows(pieces, viewer.run, n)
                => Shows(viewer.output \o pieces, viewer.run, n)
  BY <1>1, ConcatShows
<1>3. /\ viewer' \in Viewers /\ viewer'.run = viewer.run
      /\ viewer'.output = viewer.output \o pieces
      /\ viewer'.badge = StatusOf(code) /\ viewer'.code = code
  BY <1>1, <1>2 DEF Done, Received, Viewers, StatusOf, Statuses, Final
<1>4. stream' = NoStream /\ carried' = FALSE
  BY DEF Done
<1>5. StreamOK(rows, viewer', stream') /\ stream' \in Streams
  BY <1>4 DEF NoStream, StreamOK, Streams
<1>6. ViewerOK(rows, viewer', carried')
  <2>1. Known(viewer') => code # "none"
    BY <1>3 DEF Known, StatusOf
  <2>2. viewer'.badge = "success" <=> code = "ok"
    BY <1>3 DEF StatusOf
  <2>3. ASSUME code # "none"
        PROVE  \/ rows[viewer.run].lossy
               \/ ShowsUpTo(viewer'.output, viewer.run, rows[viewer.run].printed)
    BY <1>2, <1>3, <2>3 DEF ShowsUpTo
  <2> QED
    BY <1>3, <2>1, <2>2, <2>3 DEF ViewerOK
<1> QED
  BY <1>3, <1>4, <1>5, <1>6

LEMMA StreamBeginsKeeps ==
    ASSUME IInv, StreamBegins
    PROVE  IInv'
<1> DEFINE r == stream.run
<1>1. /\ r = viewer.run /\ r \in Runs
      /\ launched' \subseteq Runs
      /\ viewer \in Viewers /\ stream \in Streams /\ carried \in BOOLEAN
  BY DEF StreamBegins, IInv, Typed, StreamOK
<1>2. run[r] \in Rows /\ RowOK(r, run[r])
  BY <1>1, RowFacts
<1>3. CASE Done(run[r].output, run[r].code) /\ UNCHANGED run
  <2>1. run[r].output \in Seq(Pieces) /\ run[r].code \in Codes
    BY <1>2 DEF Rows
  <2>2. /\ viewer' \in Viewers /\ stream' \in Streams /\ carried' \in BOOLEAN
        /\ StreamOK(run, viewer', stream') /\ ViewerOK(run, viewer', carried')
    BY <1>1, <1>2, <1>3, <2>1, DoneOK DEF RowOK, HasEnd
  <2> QED
    BY <1>1, <1>3, <2>2, DrawerKeeps
<1>4. CASE /\ \E phase \in {"live", "waits"} :
                stream' = [stream EXCEPT !.phase = phase]
           /\ UNCHANGED <<run, viewer, carried>>
  <2>1. PICK phase \in {"live", "waits"} : stream' = [stream EXCEPT !.phase = phase]
    BY <1>4
  <2>2. stream.at = 0 /\ stream.run = viewer.run
    BY DEF StreamBegins, IInv, StreamOK
  <2>3. /\ stream' \in Streams /\ stream'.at = 0 /\ stream'.run = viewer.run
        /\ stream'.phase \in {"live", "waits"}
    BY <1>1, <2>1, <2>2 DEF Streams
  <2>4. \A output : ShowsUpTo(output, viewer.run, 0)
    BY DEF ShowsUpTo
  <2>5. StreamOK(run, viewer, stream')
    BY <1>1, <2>3, <2>4 DEF StreamOK
  <2> QED
    BY <1>1, <1>4, <2>3, <2>5, DrawerKeeps DEF IInv
<1>5. CASE /\ run' = [run EXCEPT ![r].status = "failed"]
           /\ run[r].status \in Active
           /\ viewer' = Failed /\ stream' = NoStream
           /\ UNCHANGED carried
  <2> DEFINE row == [run[r] EXCEPT !.status = "failed"]
  <2>1. row \in Rows /\ RowOK(r, row) /\ Keeps(r, run[r], row)
    BY <1>2 DEF Rows, Statuses, Final, RowOK, HasEnd, Ended, Keeps
  <2>2. run' = [run EXCEPT ![r] = row]
    BY <1>1, <1>5 DEF IInv, Typed
  <2>3. /\ run' \in [Runs -> Rows] /\ \A q \in Runs : RowOK(q, run'[q])
        /\ ViewerOK(run', viewer, carried)
    BY <1>1, <2>1, <2>2, RowChanges
  <2>4. Failed \in Viewers /\ ViewerOK(run', Failed, carried)
    BY <2>3, FailedOK
  <2>5. NoStream \in Streams /\ StreamOK(run', Failed, NoStream)
    BY DEF NoStream, Streams, StreamOK
  <2> QED
    BY <1>1, <1>5, <2>3, <2>4, <2>5 DEF IInv, Typed
<1> QED
  BY <1>3, <1>4, <1>5 DEF StreamBegins

LEMMA StreamSendsKeeps ==
    ASSUME IInv, StreamSends
    PROVE  IInv'
<1> DEFINE r == viewer.run
           k == stream.at + 1
<1>1. /\ stream.run = r /\ r \in Runs
      /\ \/ run[r].lossy
         \/ /\ ShowsUpTo(run[r].output, r, stream.at)
            /\ ShowsUpTo(viewer.output, r, stream.at)
  BY DEF StreamSends, IInv, StreamOK
<1>2. /\ run \in [Runs -> Rows] /\ viewer \in Viewers /\ stream \in Streams
      /\ carried \in BOOLEAN /\ launched' \subseteq Runs /\ carried' = carried
  BY DEF StreamSends, IInv, Typed
<1>0. PICK cut \in BOOLEAN :
        /\ run' = [run EXCEPT ![r].output = Append(@, ReadAs(r, k, cut)),
                              ![r].lossy = @ \/ cut]
        /\ viewer' = Received(<<ReadAs(r, k, cut)>>)
  BY <1>1, Zenon DEF StreamSends
<1> DEFINE piece == ReadAs(r, k, cut)
           row == [run[r] EXCEPT !.output = Append(@, piece), !.lossy = @ \/ cut]
<1>3. /\ run' = [run EXCEPT ![r] = row]
      /\ viewer' = Received(<<piece>>)
      /\ stream' = [stream EXCEPT !.at = k]
      /\ stream.phase = "live"
  BY <1>0, <1>1, <1>2 DEF StreamSends
<1>4. stream.at \in Nat /\ k \in Nat /\ piece \in Pieces
  <2>1. stream.at \in Nat /\ k \in Nat
    BY <1>2 DEF Streams
  <2> QED
    BY <1>1, <2>1, PieceTyped
<1>5. row \in Rows /\ RowOK(r, row) /\ Keeps(r, run[r], row)
  BY <1>1, <1>4, AppendedOK
<1>6. /\ run' \in [Runs -> Rows] /\ \A q \in Runs : RowOK(q, run'[q])
      /\ ViewerOK(run', viewer, carried)
  BY <1>1, <1>3, <1>5, RowChanges
<1>7. viewer.output \in Seq(Pieces) /\ run[r].output \in Seq(Pieces)
  BY <1>1, <1>2 DEF Viewers, Rows
<1>8. /\ viewer' \in Viewers /\ viewer'.run = r
      /\ viewer'.output = Append(viewer.output, piece)
      /\ viewer'.badge = viewer.badge /\ viewer'.code = viewer.code
  <2>1. viewer.output \o <<piece>> = Append(viewer.output, piece)
    BY <1>4, <1>7
  <2>2. Append(viewer.output, piece) \in Seq(Pieces)
    BY <1>4, <1>7
  <2> QED
    BY <1>2, <1>3, <2>1, <2>2 DEF Received, Viewers
<1>9. /\ stream' \in Streams /\ stream'.run = r /\ stream'.at = k
      /\ stream'.phase = "live"
  BY <1>1, <1>2, <1>3, <1>4 DEF Streams
<1>10. /\ run'[r].output = Append(run[r].output, piece)
       /\ run'[r].lossy = (run[r].lossy \/ cut)
  BY <1>1, <1>2, <1>3 DEF Rows
<1>11. \/ run'[r].lossy
       \/ ShowsUpTo(viewer'.output, r, k) /\ ShowsUpTo(run'[r].output, r, k)
  <2>1. CASE run[r].lossy \/ cut
    BY <1>10, <2>1
  <2>2. CASE ~run[r].lossy /\ cut = FALSE
    <3>1. piece = Piece(r, k)
      BY <1>1, <1>4, <2>2, PieceTyped
    <3> QED
      BY <1>1, <1>4, <1>7, <1>8, <1>10, <2>2, <3>1, NextPiece
  <2> QED
    BY <2>1, <2>2
<1>12. StreamOK(run', viewer', stream')
  BY <1>1, <1>8, <1>9, <1>11 DEF StreamOK
<1>13. ViewerOK(run', viewer', carried)
  <2>1. \A n : Shows(viewer.output, r, n) => Shows(viewer'.output, r, n)
    BY <1>4, <1>7, <1>8, AppendShows
  <2> QED
    BY <1>6, <1>8, <2>1 DEF ViewerOK, Known, ShowsUpTo
<1> QED
  BY <1>2, <1>6, <1>8, <1>9, <1>12, <1>13 DEF IInv, Typed

LEMMA StreamEndsKeeps ==
    ASSUME IInv, StreamEnds
    PROVE  IInv'
<1> DEFINE r == viewer.run
<1>1. /\ stream.run = r /\ r \in Runs
      /\ \/ run[r].lossy
         \/ /\ ShowsUpTo(run[r].output, r, stream.at)
            /\ ShowsUpTo(viewer.output, r, stream.at)
  BY DEF StreamEnds, IInv, StreamOK
<1>2. run \in [Runs -> Rows] /\ launched' \subseteq Runs /\ stream.at \in Nat
  BY DEF StreamEnds, IInv, Typed, Streams
<1>3. run[r] \in Rows /\ RowOK(r, run[r]) /\ Keeps(r, run[r], run[r])
  BY <1>1, RowFacts
<1>4. <<>> \in Seq(Pieces)
  OBVIOUS
<1>5. CASE /\ run[r].job = "exited"
           /\ run' = [run EXCEPT ![r] = Settled(@, stream.at)]
           /\ Done(<<>>, run[r].exit)
  <2> DEFINE row == Settled(run[r], stream.at)
  <2>1. row \in Rows /\ RowOK(r, row) /\ Keeps(r, run[r], row)
    BY <1>1, <1>2, <1>5, SettledOK
  <2>2. run' = [run EXCEPT ![r] = row]
    BY <1>2, <1>5
  <2>3. run' \in [Runs -> Rows] /\ \A q \in Runs : RowOK(q, run'[q])
    BY <1>1, <2>1, <2>2, RowChanges
  <2>4. /\ Ended(run'[r]) /\ run'[r].exit = run[r].exit
        /\ run'[r].lossy \/ ShowsUpTo(viewer.output, r, run'[r].printed)
    <3>1. run'[r] = row
      BY <1>1, <1>2, <2>2
    <3>2. /\ row.printed = run[r].printed /\ row.printed \in Nat
          /\ row.lossy = (run[r].lossy \/ stream.at < run[r].printed)
      BY <1>3, <1>2 DEF Settled, Rows
    <3>3. CASE run[r].lossy \/ stream.at < run[r].printed
      BY <1>5, <2>1, <3>1, <3>2, <3>3 DEF Keeps, Ended
    <3>4. CASE ~run[r].lossy /\ ~(stream.at < run[r].printed)
      <4>1. ShowsUpTo(viewer.output, r, row.printed)
        BY <1>1, <1>2, <3>2, <3>4, ShowsLess
      <4> QED
        BY <1>5, <2>1, <3>1, <4>1 DEF Keeps, Ended
    <3> QED
      BY <3>3, <3>4
  <2>5. /\ viewer' \in Viewers /\ stream' \in Streams /\ carried' \in BOOLEAN
        /\ StreamOK(run', viewer', stream') /\ ViewerOK(run', viewer', carried')
    BY <1>3, <1>4, <1>5, <2>4, DoneOK DEF Rows
  <2> QED
    BY <1>2, <2>3, <2>5 DEF IInv, Typed
<1>6. CASE /\ run[r].job = "gone"
           /\ run' = IF run[r].status \in Active
                     THEN [run EXCEPT ![r].status = "failed"] ELSE run
           /\ Done(<<>>, "none")
  <2> DEFINE row == IF run[r].status \in Active
                    THEN [run[r] EXCEPT !.status = "failed"] ELSE run[r]
  <2>1. row \in Rows /\ RowOK(r, row) /\ Keeps(r, run[r], row)
    BY <1>3 DEF Rows, Statuses, Final, RowOK, HasEnd, Ended, Keeps
  <2>2. run' = [run EXCEPT ![r] = row]
    BY <1>1, <1>2, <1>6
  <2>3. run' \in [Runs -> Rows] /\ \A q \in Runs : RowOK(q, run'[q])
    BY <1>1, <2>1, <2>2, RowChanges
  <2>4. /\ viewer' \in Viewers /\ stream' \in Streams /\ carried' \in BOOLEAN
        /\ StreamOK(run', viewer', stream') /\ ViewerOK(run', viewer', carried')
    BY <1>4, <1>6, DoneOK DEF Codes
  <2> QED
    BY <1>2, <2>3, <2>4 DEF IInv, Typed
<1> QED
  BY <1>1, <1>5, <1>6 DEF StreamEnds

------------------------------------------------------------------------------
(* The theorem.                                                             *)

LEMMA InitHolds ==
    ASSUME Init
    PROVE  IInv
<1>1. run \in [Runs -> Rows] /\ \A r \in Runs : run[r] = Unlaunched
  BY UnlaunchedTyped DEF Init
<1>2. <<>> \in Seq(Pieces)
  OBVIOUS
<1>3. viewer \in Viewers /\ viewer.run = 0
  BY <1>2 DEF Init, Closed, Viewers, Statuses, Active, Codes
<1>4. stream \in Streams /\ stream.phase = "none"
  BY DEF Init, NoStream, Streams
<1>5. \A r \in Runs : RowOK(r, run[r])
  <2>1. /\ Unlaunched.job = "none" /\ Unlaunched.status = "absent"
        /\ Unlaunched.code = "none" /\ Unlaunched.execAt = 0
    BY DEF Unlaunched
  <2>2. \A r : ShowsUpTo(Unlaunched.output, r, 0)
    BY DEF ShowsUpTo
  <2>3. \A r : RowOK(r, Unlaunched)
    BY <2>1, <2>2 DEF RowOK, HasEnd
  <2> QED
    BY <1>1, <2>3
<1>6. StreamOK(run, viewer, stream) /\ ViewerOK(run, viewer, carried)
  BY <1>3, <1>4 DEF StreamOK, ViewerOK
<1> QED
  BY <1>1, <1>3, <1>4, <1>5, <1>6 DEF IInv, Typed, Init

LEMMA StepKeeps ==
    ASSUME IInv, [Next]_vars
    PROVE  IInv'
<1>1. ASSUME NEW r \in Runs, RunStep(r)
      PROVE  IInv'
  BY <1>1, StartsKeeps, PrintsKeeps, ExitsKeeps, ExecReadsKeeps DEF RunStep
<1>2. ASSUME NEW r \in Runs, \/ \E here \in BOOLEAN : Launches(r, here)
                             \/ Cancels(r) \/ Opens(r) \/ LaunchIsAnswered(r)
      PROVE  IInv'
  BY <1>2, LaunchesKeeps, CancelsKeeps, OpensKeeps, LaunchIsAnsweredKeeps
<1>3. CASE Closes \/ Restreams
  BY <1>3, ClosesKeeps, RestreamsKeeps
<1>4. CASE StreamStep
  BY <1>4, StreamBeginsKeeps, StreamSendsKeeps, StreamEndsKeeps DEF StreamStep
<1>5. CASE StreamFails \/ StreamDrops
  BY <1>5, StreamFailsKeeps, StreamDropsKeeps
<1>6. CASE UNCHANGED vars
  BY <1>6 DEF vars, IInv, Typed
<1> QED
  BY <1>1, <1>2, <1>3, <1>4, <1>5, <1>6 DEF Next

\* What is on the screen, in the row and in the stream fits together, for any
\* number of runs and any failures of the connection (PlaybookRunOutput.tsx,
\* routers/playbook_runs.py:180-240).
THEOREM ViewerInvariant == Spec => []IInv
<1>1. Init => IInv
  BY InitHolds
<1>2. IInv /\ [Next]_vars => IInv'
  BY StepKeeps
<1> QED
  BY <1>1, <1>2, PTL DEF Spec

\* A drawer that shows how its run ended is right, unless its badge was carried
\* over from the run before, and shows all that the run has printed, unless a
\* poll has lost some of it (PlaybookRunOutput.tsx:40-124, main.py:292-302).
THEOREM EndsAreOfTheRunShown == Spec => []EndIsOfThisRun
<1>1. IInv => EndIsOfThisRun
  <2>1. ASSUME ViewerOK(run, viewer, carried)
        PROVE  EndIsOfThisRun
    <3>1. ASSUME viewer.run # 0, Known(viewer), ~carried
          PROVE  /\ (viewer.badge = "success") = (run[viewer.run].exit = "ok")
                 /\ viewer.code # "none" => viewer.code = run[viewer.run].exit
                 /\ \/ run[viewer.run].lossy
                    \/ \A n \in 1..run[viewer.run].printed :
                         \E i \in DOMAIN viewer.output :
                           viewer.output[i] = Piece(viewer.run, n)
      BY <2>1, <3>1, Zenon DEF ViewerOK, ShowsUpTo, Shows
    <3>2. \A n \in 1..0 : FALSE
      OBVIOUS
    <3> QED
      BY <3>1, <3>2, Zenon DEF EndIsOfThisRun, Known
  <2> QED
    BY <2>1 DEF IInv
<1> QED
  BY <1>1, ViewerInvariant, PTL
==============================================================================
