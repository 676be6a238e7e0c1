----------------------------- MODULE RecordDialogs -----------------------------
(***************************************************************************)
(* The pages of frontend/src that show records in a table and create, edit *)
(* and delete them in a dialog: CrudPage with the pages built on it, and   *)
(* those that have a dialog of their own.                                  *)
(*                                                                         *)
(* A page has one form, which every dialog of it uses again, and at most   *)
(* one save in flight.  Cancel works while it is: the admin may then edit  *)
(* the next record before the handler of the first save closes whichever   *)
(* dialog is open.  A dialog can ask for something that goes into its form *)
(* when it comes: a linked record that is created on the spot, a text that *)
(* the AI drafts.  Apps and job templates save a second thing after the    *)
(* record: the fields, the schedule.  The checked rows are edited or       *)
(* deleted by requests that follow each other and stop at the first that   *)
(* fails.                                                                  *)
(***************************************************************************)
EXTENDS Naturals, FiniteSets, QueryCache

CONSTANTS
    Records,       \* the records that a page can show, created or not
    MaxTexts,      \* bound: fields typed
    MaxIncidents   \* bound: openings, deletions, failures

ASSUME DialogsAssumption ==
    /\ Records \subseteq Nat \ {0}
    /\ MaxTexts \in Nat /\ MaxIncidents \in Nat

------------------------------------------------------------------------------
(* The pages.                                                               *)

(* offers    what the page offers for its records.                          *)
(* fields    what the form has: "text" for all that the table shows too, a  *)
(*           "secret" that the backend never sends, a "link" to a record    *)
(*           that can be created on the spot, and the "extra" thing that is *)
(*           loaded and saved by requests of its own.                       *)
(* fills     the fields that Edit sets, to the record's or to nothing; the  *)
(*           others stay what they were.                                    *)
(* resets    when the form is emptied: on "edit", "cancel" or "success".    *)
(* blank     what a blank secret does: it "keeps" the stored one, or        *)
(*           "clears" it.                                                   *)
(* waits     the handler of a save waits for the table before it closes.    *)
(* quick     where the answer to what a dialog asks for goes: the "link",   *)
(*           the "text", or the text of a record that is edited, once the   *)
(*           admin "accepts" it.                                            *)
(* extra     the second request is sent "after" the dialog was closed, or   *)
(*           "before".                                                      *)

\* CrudPage offers all that a page does not switch off.
Crud ==
    [offers |-> {"create", "edit", "delete", "bulk"}, fields |-> {"text"},
     fills |-> {"text", "link"}, resets |-> {"cancel", "success"},
     blank |-> "keeps", waits |-> FALSE, quick |-> "none", extra |-> "none"]

Environments == Crud
Domains == Crud
Vlans == Crud
Datastores == Crud
HostTypes == Crud
HostStatuses == Crud
Roles == Crud

\* A form that can create the host, or whatever else it links to, on the spot.
QuickHost == "link"
HostResources ==
    [Crud EXCEPT !.fields = {"text", QuickHost}, !.quick = QuickHost]
HostStorage == HostResources
K3sClusters == HostResources
HostForm == {"text", "link"}
Hosts == [HostResources EXCEPT !.fields = HostForm, !.offers = @ \cup {"clone"}]

\* The YAML editor in the dialog of an app: its fields, which it saves after
\* the record.
AppForm == {"text", "extra"}
Apps == [Crud EXCEPT !.fields = AppForm, !.extra = "after"]

\* Pages with a dialog of their own, which most of them only reset to create.
Plain == [Crud EXCEPT !.offers = {"create", "edit", "delete"}, !.resets = {}]

Users == [Plain EXCEPT !.resets = {"cancel", "success"}]
HostAppTable == {"create", "delete"}
HostApps == [HostResources EXCEPT !.offers = HostAppTable]

ChannelForm == {"text", "secret"}
NotificationChannels ==
    [Plain EXCEPT !.fields = ChannelForm, !.fills = ChannelForm,
                  !.resets = {"edit"}]

GitCredentialForm == {"text", "secret"}
GitCredentials ==
    [Plain EXCEPT !.fields = GitCredentialForm, !.fills = GitCredentialForm]
VaultCredentials == [GitCredentials EXCEPT !.blank = "clears"]

\* The key itself is made by the backend, and only its name is typed.
ApiKeyForm == {"text"}
InventoryApiKeys == [Plain EXCEPT !.fields = ApiKeyForm]
SecretMappings == Plain

AiTables == {"create", "edit", "delete"}
ProviderForm == {"text", "secret"}
AiProviders == [Plain EXCEPT !.offers = AiTables, !.fields = ProviderForm,
                             !.fills = ProviderForm, !.waits = TRUE]
AgentForm == {"text"}
AiAgents == [Plain EXCEPT !.offers = AiTables, !.fields = AgentForm,
                          !.waits = TRUE, !.quick = "accepts"]
ToolForm == {"text"}
AiTools == [Plain EXCEPT !.offers = AiTables, !.fields = ToolForm,
                         !.waits = TRUE, !.quick = "text"]

RepoTable == {"create", "edit", "delete"}
RepoForm == {"text", "secret", "link"}
GitRepos == [Plain EXCEPT !.offers = RepoTable, !.fields = RepoForm,
                          !.quick = "link"]

ProxmoxCredentialTable == {"create", "edit", "delete"}
ProxmoxCredentialForm == {"text", "secret"}
ProxmoxCredentials ==
    [Plain EXCEPT !.offers = ProxmoxCredentialTable,
                  !.fields = ProxmoxCredentialForm, !.fills = {"text"},
                  !.resets = {"cancel", "success"}, !.waits = TRUE]
PendingTable == {"edit", "delete", "bulk"}
PendingForm == {"text", "link"}
ProxmoxPending ==
    [Plain EXCEPT !.offers = PendingTable, !.fields = PendingForm,
                  !.quick = "link", !.resets = {"cancel", "success"},
                  !.waits = TRUE]

TemplateTable == {"create", "edit", "delete"}
TemplateForm == {"text", "extra"}
JobTemplates ==
    [Plain EXCEPT !.offers = TemplateTable, !.fields = TemplateForm,
                  !.fills = {"text", "extra"}, !.extra = "before"]

Pages == {Environments, Domains, Vlans, Datastores, HostTypes, HostStatuses,
          Roles, HostResources, HostStorage, K3sClusters, Hosts, Apps, Users,
          HostApps, NotificationChannels, GitCredentials, VaultCredentials,
          InventoryApiKeys, SecretMappings, AiProviders, AiAgents, AiTools,
          GitRepos, ProxmoxCredentials, ProxmoxPending, JobTemplates}

------------------------------------------------------------------------------
VARIABLES
    page,       \* which page this is
    stored,     \* backend: each record
    list,       \* the query of the table
    loads,      \* the query of the extra thing of each record
    dialog,     \* the dialog and its form
    request,    \* the save in flight
    quick,      \* what the dialog has asked for, in flight
    deleting,   \* the deletion of each record
    bulk,       \* the requests for the checked rows
    mine,       \* history: the version of each record after this page's last write
    unlisted,   \* history: records written by what stopped halfway, or before
                \* the table had been read
    crossed,    \* history: dialogs were changed while something was pending, or a
                \* form was saved that had lost its extra on reopening
    texts,      \* number of texts typed
    incidents   \* number of incidents

vars == <<page, stored, list, loads, dialog, request, quick, deleting, bulk,
          mine, unlisted, crossed, texts, incidents>>

\* What is in a field says which record it was typed for, 0 in the dialog that
\* creates one; it is the n-th, 0 for nothing.
Text(r, n) == [of |-> r, n |-> n]
Nothing == Text(0, 0)

EmptyForm == [f \in {"text", "secret", "link", "extra"} |-> Nothing]

\* A record of the backend: its fields, and how often it was written.
Content(there, version, form) ==
    [there |-> there, version |-> version, form |-> form]

Original(r) == [f \in DOMAIN EmptyForm |-> Text(r, 1)]

Blank == [r \in Records |-> Content(FALSE, 0, EmptyForm)]

NoRequest == [phase |-> "idle", of |-> 0, new |-> FALSE, form |-> EmptyForm]
NoQuick == [phase |-> "idle", text |-> Nothing]
NoBulk == [kind |-> "none", rest |-> {}, done |-> {}]

Init ==
    /\ page \in Pages
    /\ \E kept \in {R \in SUBSET Records : Records \cap 1..Cardinality(R) = R} :
         stored = [r \in Records |->
                     IF r \in kept THEN Content(TRUE, 0, Original(r))
                     ELSE Content(FALSE, 0, EmptyForm)]
    /\ list = Fetched(Unfetched(Blank))
    /\ loads = [r \in Records |-> Unfetched(Nothing)]
    /\ dialog = [open |-> FALSE, of |-> 0, form |-> EmptyForm, seen |-> <<0, 0>>,
                 unset |-> FALSE]
    /\ request = NoRequest
    /\ quick = NoQuick
    /\ deleting = [r \in Records |-> "idle"]
    /\ bulk = NoBulk
    /\ mine = [r \in Records |-> 0]
    /\ unlisted = {}
    /\ crossed = {}
    /\ texts = 1
    /\ incidents = 0

Incident ==
    /\ incidents < MaxIncidents
    /\ incidents' = incidents + 1

------------------------------------------------------------------------------
(* What the page offers, and the dialogs that it opens.                     *)

Saving == request.phase # "idle"

PageOffers ==
    IF dialog.open THEN {}
    ELSE ({<<"create">>} \cap {<<o>> : o \in page.offers})
         \cup {<<o, r>> : o \in page.offers \cap {"edit", "clone", "delete"},
                          r \in {s \in Records : list.data[s].there}}
         \cup {<<"bulk">> : o \in page.offers \cap {"bulk"}}

DialogOffers ==
    IF ~dialog.open THEN {}
    ELSE {<<"cancel">>}
         \cup {<<"type", f>> : f \in page.fields \ {"link"}}
         \cup (IF page.quick = "none" \/ (page.quick = "accepts" /\ dialog.of = 0)
               THEN {} ELSE {<<"quick">>})
         \cup (IF Saving THEN {} ELSE {<<"save">>})

\* form.resetFields(): the YAML of an app is not in the form.
Emptied(form) ==
    [f \in DOMAIN form |-> IF f = "extra" THEN form[f] ELSE Nothing]

\* The effect that puts the schedule in the form of a job template runs when
\* `editing` is another object than before.  A row that reads as before is the
\* same object, unless it has moved in the table.
EffectRuns(r, moved) == moved \/ dialog.seen # <<r, list.data[r].version>>

\* Wrong: the fields are left as they were.
KeptFor(r, runs) ==
    [f \in DOMAIN EmptyForm |->
        IF f = "text" /\ dialog.form.text # Nothing THEN dialog.form.text
        ELSE IF f \in {"text", "link"} THEN list.data[r].form[f]
        ELSE dialog.form[f]]

\* The form in which record r is edited: without a schedule, unless the effect runs.
FilledFor(r, runs) ==
    [f \in DOMAIN EmptyForm |->
        CASE f \in {"text", "link"} -> list.data[r].form[f]
          [] f = "extra" /\ page.extra = "before" ->
               IF runs /\ loads[r].loaded THEN loads[r].data ELSE Nothing
          [] f = "secret" /\ ("secret" \in page.fills \/ "edit" \in page.resets) ->
               Nothing
          [] OTHER -> dialog.form[f]]

\* unset: the form shows no schedule, as the effect has not run.
Opened(r, form, unset) ==
    dialog' = [open |-> TRUE, of |-> r, form |-> form,
               seen |-> IF r = 0 \/ page.extra # "before" THEN <<0, 0>>
                        ELSE <<r, list.data[r].version>>,
               unset |-> unset]

OpensEdit(r) ==
    /\ Incident
    /\ <<"edit", r>> \in PageOffers
    /\ \E moved \in BOOLEAN :
         LET runs == EffectRuns(r, moved) IN Opened(r, FilledFor(r, runs), ~runs)
    /\ loads' = CASE page.extra = "after" -> [loads EXCEPT ![r] = Fetched(@)]
                  [] page.extra = "before" -> [loads EXCEPT ![r] = MountedQuery(@)]
                  [] OTHER -> loads
    /\ UNCHANGED <<page, stored, list, request, quick, deleting, bulk, mine,
                   unlisted, crossed, texts>>

\* Wrong: what was last in the editor of the fields stays there.
KeepsExtra == Emptied(dialog.form)

NewForm == EmptyForm

OpensCreate ==
    /\ Incident
    /\ <<"create">> \in PageOffers
    /\ Opened(0, NewForm, FALSE)
    /\ UNCHANGED <<page, stored, list, loads, request, quick, deleting, bulk,
                   mine, unlisted, crossed, texts>>

\* A clone is a new record with the fields of another one.
OpensClone(r) ==
    /\ Incident
    /\ <<"clone", r>> \in PageOffers
    /\ Opened(0, [EmptyForm EXCEPT !.text = Text(0, list.data[r].form.text.n)],
              FALSE)
    /\ UNCHANGED <<page, stored, list, loads, request, quick, deleting, bulk,
                   mine, unlisted, crossed, texts>>

\* What a dialog that closes now leaves to be mixed up with the next one.
Crossing ==
    crossed \cup {"quick" : x \in {quick.phase} \ {"idle"}}
            \cup {"extra" : r \in {r \in Records : loads[r].fetch # "idle"}}

Cancels ==
    /\ <<"cancel">> \in DialogOffers
    /\ dialog' = [dialog EXCEPT !.open = FALSE,
                    !.form = IF "cancel" \in page.resets THEN Emptied(@) ELSE @]
    /\ crossed' = Crossing \cup (IF Saving /\ page.extra # "none" THEN {"extra"}
                                 ELSE {})
    /\ UNCHANGED <<page, stored, list, loads, request, quick, deleting, bulk,
                   mine, unlisted, texts, incidents>>

Types(f) ==
    /\ texts < MaxTexts
    /\ <<"type", f>> \in DialogOffers
    /\ texts' = texts + 1
    /\ dialog' = [dialog EXCEPT !.form[f] = Text(dialog.of, texts + 1)]
    /\ UNCHANGED <<page, stored, list, loads, request, quick, deleting, bulk,
                   mine, unlisted, crossed, incidents>>

------------------------------------------------------------------------------
(* Saving.                                                                  *)

\* Has the extra thing of the record in the dialog been read?
ExtraRead == dialog.of = 0 \/ loads[dialog.of].fetch = "idle"

\* The form is sent; the YAML of an app must be a mapping.
Saves ==
    /\ <<"save">> \in DialogOffers
    /\ page.extra = "after" => dialog.form.extra.n # 0
    /\ request' = [phase |-> "sent", of |-> dialog.of, new |-> dialog.of = 0,
                   form |-> dialog.form]
    /\ crossed' = crossed \cup (IF ExtraRead THEN {} ELSE {"extra"})
                          \cup (IF dialog.unset THEN {"reopened"} ELSE {})
    /\ UNCHANGED <<page, stored, list, loads, dialog, quick, deleting, bulk, mine,
                   unlisted, texts, incidents>>

\* What was typed for a record to be created is for the one that was.
Named(r, t) == IF t.of = 0 THEN Text(r, t.n) ELSE t

\* The fields of a record after an update; every field is sent, whether or not
\* the admin has changed it.
Updated(old, form) ==
    [old EXCEPT !.text = form.text, !.link = form.link,
                !.secret = IF form.secret = Nothing /\ page.blank = "keeps"
                           THEN @ ELSE form.secret]

Written(c, form) == Content(TRUE, c.version + 1, form)

\* The row after an update.  Values that are what they were issue no UPDATE, and
\* the row keeps its version; a secret is encrypted anew.
Saved(c, form) ==
    LET new == Updated(c.form, form)
    IN IF new = c.form /\ form.secret = Nothing THEN c ELSE Written(c, new)

Unborn == {r \in Records : stored[r].version = 0 /\ ~stored[r].there}

\* The backend updates a record that is there, or creates one with the next id.
SaveArrives ==
    /\ request.phase = "sent"
    /\ \/ /\ ~request.new
          /\ IF stored[request.of].there
             THEN /\ stored' = [stored EXCEPT ![request.of] =
                                  Saved(@, request.form)]
                  /\ request' = [request EXCEPT !.phase = "done"]
             ELSE /\ request' = [request EXCEPT !.phase = "failed"]
                  /\ UNCHANGED stored
       \/ /\ request.new
          /\ \E r \in Unborn :
               /\ \A s \in Unborn : r <= s
               /\ stored' = [stored EXCEPT ![r] =
                    Written(@, [f \in DOMAIN EmptyForm |->
                                  IF f = "extra" THEN Text(r, 0)
                                  ELSE Named(r, request.form[f])])]
               /\ request' = [request EXCEPT !.phase = "done", !.of = r]
    /\ UNCHANGED <<page, list, loads, dialog, quick, deleting, bulk, mine,
                   unlisted, crossed, texts, incidents>>

\* The request is refused or lost on its way: the dialog stays open.
SaveFails ==
    /\ \/ request.phase = "sent" /\ Incident
       \/ request.phase = "failed" /\ UNCHANGED incidents
    /\ request' = NoRequest
    /\ UNCHANGED <<page, stored, list, loads, dialog, quick, deleting, bulk, mine,
                   unlisted, crossed, texts>>

\* Wrong: the table is not read again.
ListUnchanged == list

\* invalidateQueries on the query of the table.
ListRefreshed == Refetched(list)

\* The handler has this page's write of r in its hands.
Noted(r) ==
    /\ mine' = [mine EXCEPT ![r] = stored[r].version]
    /\ unlisted' = IF list.loaded THEN unlisted ELSE unlisted \cup {r}

\* The dialog that is open by now is closed, whichever it is.
ClosesDialog ==
    /\ dialog' = [dialog EXCEPT !.open = FALSE,
                    !.form = IF "success" \in page.resets THEN Emptied(@) ELSE @]
    /\ crossed' = IF dialog.open THEN Crossing ELSE crossed

\* The second request sends what the editor holds by now.
Second == [request EXCEPT !.phase = "second", !.form = dialog.form]

SaveEnds ==
    /\ request.phase = "done"
    /\ Noted(request.of)
    /\ IF page.extra = "before"
       THEN /\ IF dialog.of = 0 /\ dialog.form.extra.n = 0
               THEN request' = [request EXCEPT !.phase = "secondDone"]
               ELSE request' = Second
            /\ UNCHANGED <<list, dialog, crossed>>
       ELSE /\ list' = ListRefreshed
            /\ CASE page.waits -> /\ request' = [request EXCEPT !.phase = "refreshing"]
                                  /\ UNCHANGED <<dialog, crossed>>
                 [] page.extra = "after" -> request' = Second /\ ClosesDialog
                 [] OTHER -> request' = NoRequest /\ ClosesDialog
    /\ UNCHANGED <<page, stored, loads, quick, deleting, bulk, texts, incidents>>

\* A handler that waits for the table closes the dialog then.
RefreshEnds ==
    /\ request.phase = "refreshing"
    /\ list.fetch = "idle"
    /\ request' = NoRequest
    /\ ClosesDialog
    /\ UNCHANGED <<page, stored, list, loads, quick, deleting, bulk, mine,
                   unlisted, texts, incidents>>

\* The fields are replaced, the schedule is replaced or, without one, deleted.
ExtraArrives ==
    /\ request.phase = "second"
    /\ IF stored[request.of].there
       THEN /\ stored' = [stored EXCEPT ![request.of].form.extra =
                            IF request.new THEN Named(request.of, request.form.extra)
                            ELSE request.form.extra]
            /\ request' = [request EXCEPT !.phase = "secondDone"]
       ELSE /\ request' = [request EXCEPT !.phase = "secondFailed"]
            /\ UNCHANGED stored
    /\ UNCHANGED <<page, list, loads, dialog, quick, deleting, bulk, mine,
                   unlisted, crossed, texts, incidents>>

ExtraEnds ==
    /\ request.phase = "secondDone"
    /\ request' = NoRequest
    /\ IF page.extra = "before"
       THEN /\ list' = ListRefreshed
            /\ loads' = [r \in Records |->
                           IF dialog.of = r THEN Refetched(loads[r])
                           ELSE Invalidated(loads[r])]
            /\ ClosesDialog
            /\ unlisted' = IF list.loaded THEN unlisted
                           ELSE unlisted \cup {request.of}
       ELSE UNCHANGED <<list, loads, dialog, crossed, unlisted>>
    /\ UNCHANGED <<page, stored, quick, deleting, bulk, mine, texts, incidents>>

\* The record is saved and the second thing is not.  The dialog of a job
\* template stays open, and the table is not read again.
ExtraFails ==
    /\ \/ request.phase = "second" /\ Incident
       \/ request.phase = "secondFailed" /\ UNCHANGED incidents
    /\ request' = NoRequest
    /\ unlisted' = unlisted \cup {request.of}
    /\ UNCHANGED <<page, stored, list, loads, dialog, quick, deleting, bulk, mine,
                   crossed, texts>>

------------------------------------------------------------------------------
(* What a dialog asks for.                                                  *)

QuickSends ==
    /\ <<"quick">> \in DialogOffers
    /\ texts < MaxTexts
    /\ quick.phase = "idle"
    /\ quick' = [phase |-> "sent", text |-> Text(dialog.of, texts + 1)]
    /\ texts' = texts + 1
    /\ UNCHANGED <<page, stored, list, loads, dialog, request, deleting, bulk,
                   mine, unlisted, crossed, incidents>>

\* The answer is put in the form, whichever record it is filled with by now.
\* (A draft of the AI is a stream, and this is when the admin accepts it.)
QuickEnds ==
    /\ quick.phase = "sent"
    /\ page.quick = "accepts" => dialog.open
    /\ quick' = NoQuick
    /\ LET f == IF page.quick = "link" THEN "link" ELSE "text"
       IN dialog' = [dialog EXCEPT !.form[f] = quick.text]
    /\ UNCHANGED <<page, stored, list, loads, request, deleting, bulk, mine,
                   unlisted, crossed, texts, incidents>>

QuickFails ==
    /\ Incident
    /\ quick.phase = "sent"
    /\ quick' = NoQuick
    /\ UNCHANGED <<page, stored, list, loads, dialog, request, deleting, bulk,
                   mine, unlisted, crossed, texts>>

------------------------------------------------------------------------------
(* Deleting, and the checked rows.                                          *)

ConfirmsDelete(r) ==
    /\ Incident
    /\ <<"delete", r>> \in PageOffers
    /\ deleting[r] = "idle"
    /\ deleting' = [deleting EXCEPT ![r] = "sent"]
    /\ UNCHANGED <<page, stored, list, loads, dialog, request, quick, bulk, mine,
                   unlisted, crossed, texts>>

Gone(c) == Content(FALSE, c.version + 1, EmptyForm)

\* A record that is gone already is not found, and nothing is read again.
DeletionArrives(r) ==
    /\ deleting[r] = "sent"
    /\ IF stored[r].there
       THEN /\ stored' = [stored EXCEPT ![r] = Gone(@)]
            /\ deleting' = [deleting EXCEPT ![r] = "done"]
       ELSE /\ deleting' = [deleting EXCEPT ![r] = "idle"]
            /\ UNCHANGED stored
    /\ UNCHANGED <<page, list, loads, dialog, request, quick, bulk, mine,
                   unlisted, crossed, texts, incidents>>

DeletionEnds(r) ==
    /\ deleting[r] = "done"
    /\ deleting' = [deleting EXCEPT ![r] = "idle"]
    /\ list' = ListRefreshed
    /\ Noted(r)
    /\ UNCHANGED <<page, stored, loads, dialog, request, quick, bulk, crossed,
                   texts, incidents>>

\* Bulk Edit and Bulk Delete of rows that were checked, by now or long ago.
BulkStarts(kind, rows) ==
    /\ Incident
    /\ <<"bulk">> \in PageOffers
    /\ kind = "delete" => "delete" \in page.offers
    /\ bulk.kind = "none"
    /\ rows # {}
    /\ \A r \in rows : list.data[r].there \/ list.data[r].version > 0
    /\ bulk' = [kind |-> kind, rest |-> rows, done |-> {}]
    /\ UNCHANGED <<page, stored, list, loads, dialog, request, quick, deleting,
                   mine, unlisted, crossed, texts>>

\* The next request, with its answer; after one that fails there are no more.
BulkGoesOn(r) ==
    /\ r \in bulk.rest
    /\ IF stored[r].there
       THEN /\ stored' = [stored EXCEPT ![r] =
                            IF bulk.kind = "delete" THEN Gone(@)
                            ELSE Written(@, @.form)]
            /\ bulk' = [bulk EXCEPT !.rest = @ \ {r}, !.done = @ \cup {r}]
            /\ mine' = [mine EXCEPT ![r] = stored[r].version + 1]
            /\ UNCHANGED unlisted
       ELSE /\ bulk' = NoBulk
            /\ unlisted' = unlisted \cup bulk.done
            /\ UNCHANGED <<stored, mine>>
    /\ UNCHANGED <<page, list, loads, dialog, request, quick, deleting, crossed,
                   texts, incidents>>

BulkEnds ==
    /\ bulk.kind # "none" /\ bulk.rest = {}
    /\ bulk' = NoBulk
    /\ list' = ListRefreshed
    /\ unlisted' = IF list.loaded THEN unlisted ELSE unlisted \cup bulk.done
    /\ UNCHANGED <<page, stored, loads, dialog, request, quick, deleting, mine,
                   crossed, texts, incidents>>

BulkFails ==
    /\ Incident
    /\ bulk.rest # {}
    /\ bulk' = NoBulk
    /\ unlisted' = unlisted \cup bulk.done
    /\ UNCHANGED <<page, stored, list, loads, dialog, request, quick, deleting,
                   mine, crossed, texts>>

------------------------------------------------------------------------------
(* Fetches, and other admins.                                               *)

ListAnswers ==
    /\ list.fetch = "sent"
    /\ list' = Answered(list, stored)
    /\ UNCHANGED <<page, stored, loads, dialog, request, quick, deleting, bulk,
                   mine, unlisted, crossed, texts, incidents>>

ListArrives ==
    /\ list.fetch = "answered"
    /\ list' = Delivered(list, Blank)
    /\ UNCHANGED <<page, stored, loads, dialog, request, quick, deleting, bulk,
                   mine, unlisted, crossed, texts, incidents>>

ListFails ==
    /\ Incident
    /\ list.fetch = "sent"
    /\ list' = FetchFailed(list)
    /\ UNCHANGED <<page, stored, loads, dialog, request, quick, deleting, bulk,
                   mine, unlisted, crossed, texts>>

LoadAnswers(r) ==
    /\ loads[r].fetch = "sent"
    /\ loads' = [loads EXCEPT ![r] = Answered(@, stored[r].form.extra)]
    /\ UNCHANGED <<page, stored, list, dialog, request, quick, deleting, bulk,
                   mine, unlisted, crossed, texts, incidents>>

\* The fields that arrive are put in the editor, whichever app is in the dialog;
\* a schedule only in the form of its own template, over what was typed, and only
\* if it reads otherwise than before: its next run counts, too.
LoadArrives(r) ==
    /\ loads[r].fetch = "answered"
    /\ loads' = [loads EXCEPT ![r] = Delivered(@, Nothing)]
    /\ \/ /\ \/ page.extra = "after"
             \/ dialog.of = r /\ (loads[r].data # loads[r].answer
                                  \/ loads[r].answer.n # 0)
          /\ dialog' = [dialog EXCEPT !.form.extra = loads[r].answer, !.unset = FALSE]
       \/ /\ page.extra # "after"
          /\ dialog.of = r => loads[r].data = loads[r].answer
          /\ UNCHANGED dialog
    /\ UNCHANGED <<page, stored, list, request, quick, deleting, bulk, mine,
                   unlisted, crossed, texts, incidents>>

\* Without its fields, the editor is emptied.
LoadFails(r) ==
    /\ Incident
    /\ loads[r].fetch = "sent"
    /\ loads' = [loads EXCEPT ![r] = FetchFailed(@)]
    /\ dialog' = IF page.extra = "after" THEN [dialog EXCEPT !.form.extra = Nothing]
                 ELSE dialog
    /\ crossed' = IF page.extra = "before" THEN crossed \cup {"extra"} ELSE crossed
    /\ UNCHANGED <<page, stored, list, request, quick, deleting, bulk, mine,
                   unlisted, texts>>

\* Another admin deletes the record.
OthersDelete(r) ==
    /\ Incident
    /\ stored[r].there
    /\ stored' = [stored EXCEPT ![r] = Gone(@)]
    /\ UNCHANGED <<page, list, loads, dialog, request, quick, deleting, bulk, mine,
                   unlisted, crossed, texts>>

Next ==
    \/ OpensCreate \/ Cancels \/ Saves \/ SaveArrives \/ SaveFails \/ SaveEnds
    \/ RefreshEnds \/ ExtraArrives \/ ExtraEnds \/ ExtraFails
    \/ QuickSends \/ QuickEnds \/ QuickFails \/ BulkEnds \/ BulkFails
    \/ ListAnswers \/ ListArrives \/ ListFails
    \/ \E f \in DOMAIN EmptyForm : Types(f)
    \/ \E kind \in {"edit", "delete"}, rows \in SUBSET Records :
         BulkStarts(kind, rows)
    \/ \E r \in Records : \/ OpensEdit(r) \/ OpensClone(r) \/ ConfirmsDelete(r)
                          \/ DeletionArrives(r) \/ DeletionEnds(r)
                          \/ BulkGoesOn(r) \/ OthersDelete(r)
                          \/ LoadAnswers(r) \/ LoadArrives(r) \/ LoadFails(r)

Spec == Init /\ [][Next]_vars

------------------------------------------------------------------------------
(* Properties.                                                              *)

OwnIn(r, f) == stored[r].form[f].of = r

\* What is typed for one record is never stored in another one, although all
\* dialogs of a page share a form, saves end while the next record is edited,
\* and answers come late.  A secret stays in the form of a git repository when
\* its dialog is cancelled (GitReposPage.tsx:181); what a dialog has asked for
\* goes into the form of the next record if it is closed before the answer
\* (CrudPage.tsx:257, AssistantPanel.tsx:813, 874).
TypedGoesHome ==
    \A r \in Records : stored[r].there =>
        /\ OwnIn(r, "text") \/ (page.quick # "link" /\ "quick" \in crossed)
        /\ OwnIn(r, "secret") \/ stored[r].form.secret = Nothing
             \/ page = GitRepos
        /\ OwnIn(r, "link") \/ "quick" \in crossed

\* The same of secrets, for every page.  Not true of the code, and checked by no
\* run: a repository's form keeps the secret of the one edited before it
\* (GitReposPage.tsx:181-193).
SecretGoesHome ==
    \A r \in Records : stored[r].there =>
        OwnIn(r, "secret") \/ stored[r].form.secret = Nothing

\* The fields of an app and the schedule of a job template stay its own, and no
\* Save erases them, except in two ways: a dialog is closed with something pending,
\* or saved before its extra was read or when that failed (AppsPage.tsx:352-362,
\* 393-401; "extra"); or a job template is opened again that is the same object as
\* before, for which the effect does not run, and the form that shows no schedule
\* is saved (JobTemplatesPage.tsx:137-144, 193-203; "reopened").
ExtraGoesHome ==
    \A r \in Records : stored[r].there =>
        OwnIn(r, "extra") \/ {"extra", "reopened"} \cap crossed # {}

\* Once it is read again, the table shows no less than what this page has written,
\* except what was written by a bulk operation or a save of two requests that
\* stopped halfway (CrudPage.tsx:451-462), or before the table had been read.
ListShowsOwnWrites ==
    (~list.stale /\ list.fetch = "idle" /\ bulk.kind = "none"
       /\ ~Saving) =>
        \A r \in Records \ unlisted : list.data[r].version >= mine[r]
==============================================================================
