----------------------------- MODULE FieldEditors -----------------------------
(***************************************************************************)
(* The pages of frontend/src that edit the whole of a record in a draft of *)
(* their own: the YAML editors of the fields of apps, roles, host types    *)
(* and statuses, the lists of roles, the values of a host's app, the       *)
(* settings pages, and the overrides of a host's variables.                *)
(*                                                                         *)
(* All of them have one shape.  A query reads the record; the draft is     *)
(* made from what the query holds, the admin types in it, Save sends the   *)
(* draft as it is, and a handler refreshes the query.  They differ in when *)
(* the draft is made again, what Save sends when nothing has been read,    *)
(* what becomes of a secret that the backend only shows masked, and what   *)
(* the handler does.  An editor is a record of these choices.              *)
(***************************************************************************)
EXTENDS Naturals, FiniteSets, QueryCache

CONSTANTS
    Records,       \* apps, roles, hosts...: the records that an editor opens
    MaxSaves,      \* bound: saves
    MaxTexts,      \* bound: drafts and writes of other admins
    MaxIncidents   \* bound: openings, moves, closings, failures, time passing

ASSUME EditorsAssumption ==
    /\ Records \subseteq Nat \ {0}
    /\ {MaxSaves, MaxTexts, MaxIncidents} \subseteq Nat

------------------------------------------------------------------------------
(* The editors.                                                             *)

(* takes     "first": the draft is made once, from the first data seen;     *)
(*           "follows": it is made again whenever the data change.          *)
(* unloaded  what Save does when there is no draft: it is "refused" (the    *)
(*           YAML is not a mapping), sends "nothing", or sends an "empty"   *)
(*           record; "failed" sends it once the query has failed; "waits"   *)
(*           refuses, and also waits for a fetch in flight.                 *)
(* secrets   "masked": the draft holds the mask that the backend sent, and  *)
(*           Save sends it back; "blank": the draft holds nothing, and Save *)
(*           leaves the secret out; "none".                                 *)
(* after     what the handler of a save does: "invalidates" the query of    *)
(*           the record on the screen, also "closes" the editor, also       *)
(*           "puts" the answer in the cache, or also in the "form".         *)
(* moves     Previous and Next go to another record in the same editor.     *)
(* early     the admin can type before anything has been read.              *)
(* imports   a file can be chosen, whose text becomes the draft.            *)

FieldsYaml ==
    [takes |-> "first", unloaded |-> "refused", secrets |-> "masked",
     after |-> "invalidates", moves |-> TRUE, early |-> TRUE, imports |-> TRUE]

AppFields == FieldsYaml
RoleFields == FieldsYaml
HostTypeFields == FieldsYaml
StatusFields == FieldsYaml

\* The other mode of the role editor: a row for each field.  An imported file
\* turns to the YAML of it.
RoleFieldRows == [FieldsYaml EXCEPT !.unloaded = "empty"]

HostTypeRoles ==
    [takes |-> "first", unloaded |-> "empty", secrets |-> "none",
     after |-> "invalidates", moves |-> FALSE, early |-> FALSE, imports |-> FALSE]

GlobalDefaultRoles == [HostTypeRoles EXCEPT !.takes = "follows"]

AnsibleDefaults == [FieldsYaml EXCEPT !.unloaded = "waits", !.moves = FALSE]

HostAppValues ==
    [takes |-> "follows", unloaded |-> "empty", secrets |-> "masked",
     after |-> "closes", moves |-> FALSE, early |-> TRUE, imports |-> FALSE]

MonitoringForm ==
    [takes |-> "follows", unloaded |-> "nothing", secrets |-> "blank",
     after |-> "invalidates", moves |-> FALSE, early |-> TRUE, imports |-> FALSE]

BitwardenForm == MonitoringForm

RunnerForm ==
    [takes |-> "follows", unloaded |-> "failed", secrets |-> "none",
     after |-> "form", moves |-> FALSE, early |-> TRUE, imports |-> FALSE]

HostVars ==
    [takes |-> "follows", unloaded |-> "refused", secrets |-> "blank",
     after |-> "puts", moves |-> TRUE, early |-> FALSE, imports |-> FALSE]

Editors == {AppFields, RoleFields, HostTypeFields, StatusFields, RoleFieldRows,
            HostTypeRoles, GlobalDefaultRoles, AnsibleDefaults, HostAppValues,
            MonitoringForm, BitwardenForm, RunnerForm, HostVars}

------------------------------------------------------------------------------
VARIABLES
    editor,     \* which editor this is
    stored,     \* backend: each record
    cache,      \* the query of each record
    open,       \* the record on the screen, 0 for none
    draft,      \* the draft of the editor
    file,       \* the text of the file that the editor reads
    saves,      \* the requests that Save has sent
    mine,       \* history: what the last save of a record that was answered wrote
    excused,    \* history: records saved before they were read, or left before
                \* a save of them was read again
    strayed,    \* history: records that got the file chosen for another one
    texts,      \* number of texts written
    versions,   \* number of writes in the backend
    incidents   \* number of incidents

vars == <<editor, stored, cache, open, draft, file, saves, mine, excused, strayed,
          texts, versions, incidents>>

\* A text says which record it was written for; the n-th of them, 0 for a
\* record with nothing in it.
Text(r, n) == [of |-> r, n |-> n]

\* What the backend keeps of a record: its text, the number of the write, and
\* its secret: "real", the "mask" or "lost".
Content(text, version, secret) ==
    [text |-> text, version |-> version, secret |-> secret]

Blank == Content(Text(0, 0), 0, "real")

NoDraft == [set |-> FALSE, typed |-> FALSE, from |-> Blank, text |-> Text(0, 0)]

NoFile == Text(0, 0)

NoSave == [phase |-> "none", of |-> 0, at |-> 0, draft |-> NoDraft,
           current |-> FALSE, result |-> Blank]

Init ==
    /\ editor \in Editors
    /\ stored = [r \in Records |-> Content(Text(r, 1), 0, "real")]
    /\ cache = [r \in Records |-> Unfetched(Blank)]
    /\ open = 0
    /\ draft = NoDraft
    /\ file = NoFile
    /\ saves = [i \in 1..MaxSaves |-> NoSave]
    /\ mine = [r \in Records |-> Blank]
    /\ excused = {}
    /\ strayed = {}
    /\ texts = 1
    /\ versions = 0
    /\ incidents = 0

Incident ==
    /\ incidents < MaxIncidents
    /\ incidents' = incidents + 1

------------------------------------------------------------------------------
(* The draft.                                                               *)

\* The draft made from the data of the query.
Taken(data) == [set |-> TRUE, typed |-> FALSE, from |-> data, text |-> data.text]

\* What a page can see of a content: one secret looks like another.
Looks(content) == <<content.text, content.secret = "lost">>

\* Wrong: an effect that runs for every response, not for every change.
FollowsResponses(old, new) == new.loaded

\* Do the data that the effect depends on change?
FollowsChanges(old, new) ==
    new.loaded /\ (~old.loaded \/ Looks(old.data) # Looks(new.data))

\* The draft after a response for the record on the screen.
DraftAfter(old, new) ==
    CASE editor.takes = "first"   -> IF draft.set \/ ~new.loaded THEN draft
                                     ELSE Taken(new.data)
      [] editor.takes = "follows" -> IF FollowsChanges(old, new)
                                     THEN Taken(new.data) ELSE draft

\* Wrong: the draft of the record before is kept.
DraftKeptFor(r) == IF draft.set THEN draft
                   ELSE IF cache[r].loaded THEN Taken(cache[r].data) ELSE NoDraft

\* The draft of a record that comes on the screen: whatever the cache holds is
\* taken, however old.
DraftFor(r) == IF cache[r].loaded THEN Taken(cache[r].data) ELSE NoDraft

------------------------------------------------------------------------------
(* What the editor offers, and what the admin does.                         *)

Pending == {i \in 1..MaxSaves : saves[i].phase \in {"sent", "done"}}
Saving == \E i \in Pending : saves[i].current

\* Wrong: Save is always there.
SaveAlwaysOffered == ~Saving

\* Save is a spinner while a save of this editor is pending.
SaveOffered ==
    /\ ~Saving
    /\ \/ /\ draft.set
          /\ editor.unloaded = "waits" => cache[open].fetch = "idle"
       \/ /\ ~draft.set
          /\ editor.unloaded \in {"empty", "nothing", "failed"}
          /\ editor.unloaded = "failed" => cache[open].fetch = "idle"

EditorOffers ==
    IF open = 0 THEN {<<"open", r>> : r \in Records}
    ELSE {<<"close">>}
         \cup {<<"move", r>> : r \in IF editor.moves THEN Records \ {open} ELSE {}}
         \cup (IF draft.set \/ editor.early THEN {<<"type">>} ELSE {})
         \cup (IF editor.imports /\ file = NoFile THEN {<<"import">>} ELSE {})
         \cup (IF SaveOffered THEN {<<"save">>} ELSE {})

\* Is there a save or a change of the record that the editor has not read?
Unread(r) ==
    \/ \E i \in Pending : saves[i].of = r
    \/ cache[r].stale \/ cache[r].fetch # "idle"

Left == IF open # 0 /\ Unread(open) THEN excused \cup {open} ELSE excused

Opens(r) ==
    /\ Incident
    /\ <<"open", r>> \in EditorOffers
    /\ open' = r
    /\ draft' = DraftFor(r)
    /\ cache' = [cache EXCEPT ![r] = MountedQuery(@)]
    /\ UNCHANGED <<editor, stored, file, saves, mine, excused, strayed, texts,
                   versions>>

\* Previous and Next: the same component goes on with another record, and so
\* does the handler of a save that is pending.
Moves(r) ==
    /\ Incident
    /\ <<"move", r>> \in EditorOffers
    /\ open' = r
    /\ draft' = DraftFor(r)
    /\ cache' = [cache EXCEPT ![r] = MountedQuery(@)]
    /\ saves' = [i \in 1..MaxSaves |->
                   IF saves[i].current THEN [saves[i] EXCEPT !.at = r]
                   ELSE saves[i]]
    /\ excused' = Left
    /\ UNCHANGED <<editor, stored, file, mine, strayed, texts, versions>>

\* The editor is closed, or the page left.  Saves go on; a file has no draft left
\* to come to.
Closes ==
    /\ Incident
    /\ <<"close">> \in EditorOffers
    /\ open' = 0
    /\ draft' = NoDraft
    /\ file' = NoFile
    /\ saves' = [i \in 1..MaxSaves |-> [saves[i] EXCEPT !.current = FALSE]]
    /\ excused' = Left
    /\ UNCHANGED <<editor, stored, cache, mine, strayed, texts, versions>>

\* The admin types, moves a role: the draft is a new text.
Types ==
    /\ <<"type">> \in EditorOffers
    /\ texts < MaxTexts
    /\ ~draft.typed
    /\ texts' = texts + 1
    /\ draft' = [draft EXCEPT !.set = TRUE, !.typed = TRUE,
                              !.text = Text(open, texts + 1)]
    /\ UNCHANGED <<editor, stored, cache, open, file, saves, mine, excused,
                   strayed, versions, incidents>>

\* The admin chooses a file to import.
ChoosesFile ==
    /\ <<"import">> \in EditorOffers
    /\ texts < MaxTexts
    /\ texts' = texts + 1
    /\ file' = Text(open, texts + 1)
    /\ UNCHANGED <<editor, stored, cache, open, draft, saves, mine, excused,
                   strayed, versions, incidents>>

\* The file has been read: it becomes the draft of the record that is on the
\* screen by now, unless it is no YAML.
FileIsRead ==
    /\ file # NoFile
    /\ file' = NoFile
    /\ \/ /\ draft' = [draft EXCEPT !.set = TRUE, !.typed = TRUE, !.text = file]
          /\ strayed' = IF file.of = open THEN strayed ELSE strayed \cup {open}
       \/ UNCHANGED <<draft, strayed>>
    /\ UNCHANGED <<editor, stored, cache, open, saves, mine, excused, texts,
                   versions, incidents>>

\* Without a draft, what is sent is a record with nothing in it.
Sent == IF draft.set THEN draft ELSE [NoDraft EXCEPT !.text = Text(open, 0)]

Saves(i) ==
    /\ <<"save">> \in EditorOffers
    /\ saves[i].phase = "none"
    /\ \A j \in 1..(i - 1) : saves[j].phase # "none"
    /\ saves' = [saves EXCEPT ![i] =
                   [NoSave EXCEPT !.phase = "sent", !.of = open, !.at = open,
                                  !.draft = Sent, !.current = TRUE]]
    /\ excused' = IF cache[open].loaded THEN excused ELSE excused \cup {open}
    /\ UNCHANGED <<editor, stored, cache, open, draft, file, mine, strayed, texts,
                   versions, incidents>>

------------------------------------------------------------------------------
(* The backend.                                                             *)

\* The secret of a record after draft d has been saved over it.
SecretAfter(d, old) ==
    IF editor.secrets # "masked" THEN old
    ELSE IF ~d.set \/ d.from = Blank \/ d.from.secret = "lost" THEN "lost"
    ELSE "mask"

\* The record that a save writes: the one on the screen when it was sent.
Written(i) == saves[i].of

\* The request arrives; a form that was never filled changes nothing.
SaveArrives(i) ==
    /\ saves[i].phase = "sent"
    /\ LET r == Written(i)
           d == saves[i].draft
           new == IF ~d.set /\ editor.unloaded = "nothing" THEN stored[r]
                  ELSE Content(d.text, versions + 1,
                               SecretAfter(d, stored[r].secret))
       IN /\ stored' = [stored EXCEPT ![r] = new]
          /\ saves' = [saves EXCEPT ![i].phase = "done", ![i].result = new]
    /\ versions' = versions + 1
    /\ UNCHANGED <<editor, cache, open, draft, file, mine, excused, strayed,
                   texts, incidents>>

\* Wrong: nothing is refreshed.
RefreshesNothing(i) == cache

\* The handler of a save refreshes the query of the record that is on the screen
\* of its editor now, or was when it closed: not always the one it has saved.
Refreshes(i) ==
    LET r == saves[i].at
        q == IF editor.after = "puts"
             THEN [cache[r] EXCEPT !.loaded = TRUE, !.data = saves[i].result]
             ELSE cache[r]
    IN [cache EXCEPT ![r] = IF open = r THEN Refetched(q) ELSE Invalidated(q)]

SaveEnds(i) ==
    /\ saves[i].phase = "done"
    /\ saves' = [saves EXCEPT ![i].phase = "over", ![i].current = FALSE]
    /\ mine' = [mine EXCEPT ![saves[i].of] = saves[i].result]
    /\ cache' = Refreshes(i)
    /\ IF saves[i].current /\ editor.after = "closes"
       THEN /\ open' = 0 /\ draft' = NoDraft /\ file' = NoFile
            /\ excused' = excused \cup {open}
       ELSE /\ draft' = IF saves[i].current /\ editor.after = "form"
                        THEN Taken(saves[i].result)
                        ELSE IF open # 0
                        THEN DraftAfter(cache[open], cache'[open])
                        ELSE draft
            /\ UNCHANGED <<open, file, excused>>
    /\ UNCHANGED <<editor, stored, strayed, texts, versions, incidents>>

SaveFails(i) ==
    /\ Incident
    /\ saves[i].phase = "sent"
    /\ saves' = [saves EXCEPT ![i].phase = "over", ![i].current = FALSE]
    /\ UNCHANGED <<editor, stored, cache, open, draft, file, mine, excused,
                   strayed, texts, versions>>

\* Another admin writes the record, in a page of their own.
OthersWrite(r) ==
    /\ texts < MaxTexts
    /\ texts' = texts + 1
    /\ versions' = versions + 1
    /\ stored' = [stored EXCEPT ![r] =
                    Content(Text(r, texts + 1), versions + 1, @.secret)]
    /\ UNCHANGED <<editor, cache, open, draft, file, saves, mine, excused,
                   strayed, incidents>>

------------------------------------------------------------------------------
(* Fetches.                                                                 *)

FetchAnswered(r) ==
    /\ cache[r].fetch = "sent"
    /\ cache' = [cache EXCEPT ![r] = Answered(@, stored[r])]
    /\ UNCHANGED <<editor, stored, open, draft, file, saves, mine, excused,
                   strayed, texts, versions, incidents>>

FetchArrives(r) ==
    /\ cache[r].fetch = "answered"
    /\ cache' = [cache EXCEPT ![r] = Delivered(@, Blank)]
    /\ draft' = IF open = r THEN DraftAfter(cache[r], cache'[r]) ELSE draft
    /\ UNCHANGED <<editor, stored, open, file, saves, mine, excused, strayed,
                   texts, versions, incidents>>

FetchFails(r) ==
    /\ Incident
    /\ cache[r].fetch = "sent"
    /\ cache' = [cache EXCEPT ![r] = FetchFailed(@)]
    /\ UNCHANGED <<editor, stored, open, draft, file, saves, mine, excused,
                   strayed, texts, versions>>

\* Thirty seconds pass, and the window comes back to the front.
Refocuses ==
    /\ Incident
    /\ open # 0 /\ cache[open].loaded
    /\ cache' = [cache EXCEPT ![open] = Fetched(Invalidated(@))]
    /\ UNCHANGED <<editor, stored, open, draft, file, saves, mine, excused,
                   strayed, texts, versions>>

Next ==
    \/ Closes \/ Types \/ ChoosesFile \/ FileIsRead \/ Refocuses
    \/ \E r \in Records : \/ Opens(r) \/ Moves(r) \/ OthersWrite(r)
                          \/ FetchAnswered(r) \/ FetchArrives(r) \/ FetchFails(r)
    \/ \E i \in 1..MaxSaves : Saves(i) \/ SaveArrives(i) \/ SaveEnds(i)
                              \/ SaveFails(i)

Spec == Init /\ [][Next]_vars

------------------------------------------------------------------------------
(* Properties.                                                              *)

\* What was written for one record is never saved over another, though the same
\* editor goes on with the next record while requests of the one before are
\* pending (AppsPage.tsx:76-79).  Two things break it, and nothing else does.  A
\* file that is chosen for one record and read when the next one is on the screen
\* becomes the draft of that one (AppsPage.tsx:133-144).  And the handler of the
\* panel of a host's variables puts the answer for one host in the cache of the
\* next one (InventoryHostVarsPanel.tsx:112).
SavesGoHome ==
    editor.after # "puts" =>
        \A r \in Records \ strayed : stored[r].text.of = r

\* Once all is read, an editor shows no less than what it has saved of a record,
\* unless it saved the record before it had read it, or left it before it had read it
\* again: then the draft of the next opening is made from the old data, and
\* stays as it is (AppsPage.tsx:87-93).
NotBehindOwnSave ==
    (draft.set /\ ~draft.typed /\ open \notin excused
       /\ ~cache[open].stale /\ cache[open].fetch = "idle") =>
        \/ draft.from.version >= mine[open].version
        \/ draft.text = mine[open].text
        \/ /\ cache[open].data.version >= mine[open].version
           /\ cache[open].data.text = draft.text

\* A record is not emptied by a Save that came before its data, except in the
\* editors that send a list or a form whatever they have read
\* (HostTypesPage.tsx:281, RolesPage.tsx:165, GlobalDefaultRolesPage.tsx:83).
NothingErasedUnseen ==
    (\E r \in Records : stored[r].text.n = 0)
        => editor.unloaded \in {"empty", "failed"}

\* What the admin has typed is not replaced on the screen by a response, except in
\* the editors that follow the data, and there only when the data have changed
\* (MonitoringSettingsPanel.tsx:113-138) or their own save is answered.  A file
\* that the admin has chosen takes its place.
TypingIsKept ==
    (draft.typed /\ open # 0 /\ open' = open) =>
        \/ draft' = draft
        \/ file # NoFile /\ file' = NoFile /\ draft'.text = file
        \/ editor.takes = "follows" /\ Looks(cache'[open].data) # Looks(cache[open].data)
        \/ editor.after = "form" /\ mine' # mine
TypingSurvives == [][TypingIsKept]_vars

\* Not true of the code, and checked by no run: a secret that the admin has not
\* touched is stored afterwards as it was.  The editors with secrets |-> "masked"
\* send the mask back (AppsPage.tsx:119-127, backend app_fields.py:122-126).
UntouchedSecretStays ==
    \A r \in Records : stored[r].secret # "mask"
==============================================================================
