------------------------------ MODULE QueryCache ------------------------------
(***************************************************************************)
(* One entry of the query cache that the pages of frontend/src share       *)
(* (react-query, an external library), as those pages use it with the      *)
(* defaults of frontend/src/App.tsx:49-51.                                 *)
(*                                                                         *)
(* A fetch is sent, answered by the backend and delivered, in three steps: *)
(* between the second and the third the answer can grow old.  An           *)
(* invalidation marks an entry stale; if the entry is on the screen it is  *)
(* fetched again, and a fetch in flight is dropped, unless the entry has   *)
(* never had any data: that fetch goes on, and puts the entry right.       *)
(***************************************************************************)

\* An entry that has never been fetched; blank stands for having no data.
Unfetched(blank) ==
    [loaded |-> FALSE, data |-> blank, stale |-> TRUE, fetch |-> "idle",
     answer |-> blank]

\* A query that is mounted, or asked again, fetches unless it already does.
Fetched(q) == IF q.fetch = "idle" THEN [q EXCEPT !.fetch = "sent"] ELSE q

\* Coming on the screen: only a stale entry is fetched.
MountedQuery(q) == IF q.stale THEN Fetched(q) ELSE q

\* invalidateQueries on an entry that is not on the screen.
Invalidated(q) == [q EXCEPT !.stale = TRUE]

\* invalidateQueries on an entry that is on the screen.
Refetched(q) == IF q.fetch # "idle" /\ ~q.loaded THEN Invalidated(q)
                ELSE [q EXCEPT !.stale = TRUE, !.fetch = "sent"]

Answered(q, data) == [q EXCEPT !.fetch = "answered", !.answer = data]

\* A response puts the entry right, whatever happened since it was answered.
Delivered(q, blank) ==
    [loaded |-> TRUE, data |-> q.answer, stale |-> FALSE, fetch |-> "idle",
     answer |-> blank]

\* A fetch that fails leaves the data of before on the screen.
FetchFailed(q) == [q EXCEPT !.fetch = "idle"]
==============================================================================
