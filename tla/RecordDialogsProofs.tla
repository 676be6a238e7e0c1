------------------------- MODULE RecordDialogsProofs -------------------------
(***************************************************************************)
(* Proofs about RecordDialogs for any records, texts and incidents.        *)
(*                                                                         *)
(* The table: a write that this page has noted is either pending, and will *)
(* have the table read again, or older than the answer on its way and the  *)
(* data that are not stale (ListInv).                                      *)
(*                                                                         *)
(* The texts: wherever a text is on its way, in the table, in the form, in *)
(* a save, it is one of the record it is going to (FormsInv).  The extra   *)
(* thing of a record takes a way of its own, by queries and saves of its   *)
(* own, past the dialogs that are opened meanwhile (ExtraInv).             *)
(***************************************************************************)
EXTENDS RecordDialogs, TLAPS

Fields == {"text", "secret", "link", "extra"}
Texts == [of : Records \cup {0}, n : Nat]
Forms == [Fields -> Texts]
Contents == [there : BOOLEAN, version : Nat, form : Forms]
Tables == [Records -> Contents]
Queries(D) == [loaded : BOOLEAN, data : D, stale : BOOLEAN,
               fetch : {"idle", "sent", "answered"}, answer : D]
Dialogs == [open : BOOLEAN, of : Records \cup {0}, form : Forms,
            seen : (Records \cup {0}) \X Nat, unset : BOOLEAN]
Requests == [phase : {"idle", "sent", "failed", "done", "refreshing", "second",
                      "secondDone", "secondFailed"},
             of : Records \cup {0}, new : BOOLEAN, form : Forms]

RequestNamed ==
    /\ request.phase \notin {"idle", "sent"} => request.of \in Records
    /\ request.phase = "sent" => (request.new <=> request.of = 0)

Typed ==
    /\ page \in Pages
    /\ stored \in Tables /\ list \in Queries(Tables)
    /\ loads \in [Records -> Queries(Texts)]
    /\ dialog \in Dialogs
    /\ request \in Requests /\ RequestNamed
    /\ quick \in [phase : {"idle", "sent"}, text : Texts]
    /\ deleting \in [Records -> {"idle", "sent", "done"}]
    /\ bulk \in [kind : {"none", "edit", "delete"}, rest : SUBSET Records,
                 done : SUBSET Records]
    /\ mine \in [Records -> Nat]
    /\ unlisted \in SUBSET Records
    /\ crossed \in SUBSET {"quick", "extra", "reopened"}
    /\ texts \in Nat /\ incidents \in Nat

------------------------------------------------------------------------------
(* The table.                                                               *)

\* A write that is noted, and after which the table is still to be read again.
Pending(r) ==
    \/ r \in bulk.done
    \/ /\ request.phase \in {"second", "secondDone", "secondFailed"}
       /\ page.extra = "before"
       /\ r = request.of

\* The answer on its way, or else the table, shows the last write of r.
Listed(r) ==
    /\ list.fetch = "answered" => mine[r] <= list.answer[r].version
    /\ list.fetch = "idle" /\ ~list.stale => mine[r] <= list.data[r].version

FetchedIsStale == list.fetch # "idle" => list.stale
NothingChecked == bulk.kind = "none" => bulk.done = {} /\ bulk.rest = {}
MineIsStored == \A r \in Records : mine[r] <= stored[r].version

ListInv ==
    /\ FetchedIsStale /\ NothingChecked /\ MineIsStored
    /\ \A r \in Records \ unlisted : ~Pending(r) => Listed(r)

------------------------------------------------------------------------------
(* The texts.                                                               *)

\* On page p, after dialogs have been changed while those of c were pending.
TextFits(t, r, p, c) == t.of = r \/ (p.quick # "link" /\ "quick" \in c)
SecretFits(t, r, p) == t.of = r \/ t = Nothing \/ p = GitRepos
LinkFits(t, r, c) == t.of = r \/ "quick" \in c

FormFits(form, r, p, c) ==
    /\ TextFits(form["text"], r, p, c)
    /\ SecretFits(form["secret"], r, p)
    /\ LinkFits(form["link"], r, c)

TableFits(table, p, c) ==
    \A r \in Records : table[r].there => FormFits(table[r].form, r, p, c)

\* Opening a dialog leaves the secret in the form as it was.
SecretStays(p) == "secret" \notin p.fills /\ "edit" \notin p.resets

TablesFit ==
    /\ TableFits(stored, page, crossed) /\ TableFits(list.data, page, crossed)
    /\ list.fetch = "answered" => TableFits(list.answer, page, crossed)

SecretGone ==
    \/ "secret" \notin page.fields
    \/ ~dialog.open /\ SecretStays(page) /\ page # GitRepos

FormInDialog ==
    /\ dialog.open => FormFits(dialog.form, dialog.of, page, crossed)
    /\ SecretGone => dialog.form["secret"] = Nothing

RequestFits ==
    request.phase = "sent" => FormFits(request.form, request.of, page, crossed)

QuickInDialog ==
    quick.phase = "sent" /\ "quick" \notin crossed =>
      dialog.open /\ quick.text.of = dialog.of

FormsInv == TablesFit /\ FormInDialog /\ RequestFits /\ QuickInDialog

------------------------------------------------------------------------------
(* The extra thing.                                                         *)

\* The records that have been there, and those that will never be there again.
Known == {r \in Records : stored[r].there \/ stored[r].version > 0}
Dead == {r \in Records : ~stored[r].there /\ stored[r].version > 0}

ExtraCrossed == "extra" \in crossed \/ "reopened" \in crossed
ExtraFits(t, r, dead) == t.of = r \/ r \in dead

TableKnown(table, known) == \A r \in Records : table[r].there => r \in known

KnownInv ==
    /\ TableKnown(list.data, Known)
    /\ list.fetch = "answered" => TableKnown(list.answer, Known)
    /\ dialog.of # 0 => dialog.of \in Known

StoredExtra == \A r \in Records : stored[r].there => stored[r].form["extra"].of = r

LoadFits(q, r, known, dead) ==
    /\ q.fetch # "idle" => r \in known
    /\ q.loaded => r \in known /\ ExtraFits(q.data, r, dead)
    /\ ~q.loaded => q.data = Nothing /\ q.stale
    /\ q.fetch = "answered" => ExtraFits(q.answer, r, dead)

LoadsFit == \A r \in Records : LoadFits(loads[r], r, Known, Dead)

\* The editor of an app is only filled while that app is in the dialog.
LoadsInDialog ==
    page.extra = "after" => \A r \in Records : loads[r].fetch # "idle" =>
      dialog.open /\ dialog.of = r

\* The extra thing in the form is that of the record in the dialog, or the
\* record is not to be saved yet.
DialogFits ==
    LET d == dialog.of
        extra == dialog.form["extra"]
    IN
    \/ ExtraFits(extra, d, Dead)
    \/ d # 0 /\ dialog.unset
    \/ d # 0 /\ loads[d].fetch # "idle" /\ (page.extra = "after" \/ ~loads[d].loaded)
    \/ page.extra = "after" /\ extra.n = 0

DialogHasExtra == page.extra # "none" /\ dialog.open => DialogFits

\* What is saved is still in the dialog, and is to be sent when the record is.
SecondToCome ==
    /\ dialog.open
    /\ dialog.of = IF request.new THEN 0 ELSE request.of
    /\ ExtraFits(dialog.form["extra"], dialog.of, Dead)
    /\ dialog.of # 0 => loads[dialog.of].fetch = "idle"

SaveHasExtra ==
    page.extra # "none" /\ request.phase \in {"sent", "done"} => SecondToCome

SecondHasExtra ==
    /\ page.extra = "none" => request.phase \notin {"second", "secondDone",
                                                    "secondFailed"}
    /\ request.phase = "second" =>
         ExtraFits(request.form["extra"], IF request.new THEN 0 ELSE request.of, Dead)

ExtraKept ==
    /\ StoredExtra /\ LoadsFit /\ LoadsInDialog
    /\ DialogHasExtra /\ SaveHasExtra /\ SecondHasExtra

ExtraInv == KnownInv /\ (~ExtraCrossed => ExtraKept)

IInv == Typed /\ ListInv /\ FormsInv /\ ExtraInv

------------------------------------------------------------------------------
(* What the operators return.                                               *)

LEMMA TextTypes ==
    /\ Nothing \in Texts /\ EmptyForm \in Forms /\ DOMAIN EmptyForm = Fields
    /\ \A r \in Records \cup {0}, n \in Nat : Text(r, n) \in Texts
BY DEF Nothing, Text, Texts, EmptyForm, Forms, Fields

LEMMA FormTypes ==
    ASSUME NEW form \in Forms
    PROVE  /\ Emptied(form) \in Forms
           /\ \A f \in Fields, t \in Texts : [form EXCEPT ![f] = t] \in Forms
BY TextTypes DEF Emptied, Forms

LEMMA ContentTypes ==
    ASSUME NEW c \in Contents, NEW form \in Forms
    PROVE  Written(c, form) \in Contents /\ Gone(c) \in Contents
<1>1. Content(TRUE, c.version + 1, form) \in Contents
  BY DEF Content, Contents
<1>2. Content(FALSE, c.version + 1, EmptyForm) \in Contents
  BY TextTypes DEF Content, Contents
<1> QED
  BY <1>1, <1>2 DEF Written, Gone

LEMMA QueryTypes ==
    ASSUME NEW D, NEW q \in Queries(D)
    PROVE  /\ Fetched(q) \in Queries(D) /\ MountedQuery(q) \in Queries(D)
           /\ Invalidated(q) \in Queries(D) /\ Refetched(q) \in Queries(D)
           /\ FetchFailed(q) \in Queries(D)
           /\ \A d \in D : /\ Answered(q, d) \in Queries(D)
                           /\ Delivered(q, d) \in Queries(D)
<1>1. Fetched(q) \in Queries(D) /\ MountedQuery(q) \in Queries(D)
  BY DEF Queries, Fetched, MountedQuery
<1>2. Invalidated(q) \in Queries(D) /\ Refetched(q) \in Queries(D)
  BY DEF Queries, Invalidated, Refetched
<1>3. FetchFailed(q) \in Queries(D)
  BY DEF Queries, FetchFailed
<1>4. ASSUME NEW d \in D
      PROVE  Answered(q, d) \in Queries(D) /\ Delivered(q, d) \in Queries(D)
  BY DEF Queries, Answered, Delivered
<1> QED
  BY <1>1, <1>2, <1>3, <1>4

LEMMA BlankType == Blank \in Tables
<1>1. Content(FALSE, 0, EmptyForm) \in Contents
  BY TextTypes DEF Content, Contents
<1> QED
  BY <1>1 DEF Blank, Tables

LEMMA UpdatedType ==
    ASSUME NEW old \in Forms, NEW form \in Forms
    PROVE  Updated(old, form) \in Forms
BY DEF Updated, Forms, Fields

LEMMA NamedTypes ==
    ASSUME NEW r \in Records, NEW t \in Texts
    PROVE  Named(r, t) \in Texts /\ Named(r, t).of # 0
<1>1. r # 0 /\ t.n \in Nat
  BY DialogsAssumption DEF Texts
<1> QED
  BY <1>1, TextTypes DEF Named, Text, Texts

\* The form of a new record: all its texts are named for it.
BornForm(r) == [f \in DOMAIN EmptyForm |-> IF f = "extra" THEN Text(r, 0)
                                           ELSE Named(r, request.form[f])]

LEMMA BornFormType ==
    ASSUME request \in Requests, NEW r \in Records
    PROVE  BornForm(r) \in Forms
<1>1. \A f \in Fields : request.form[f] \in Texts
  BY DEF Requests, Forms
<1>2. Text(r, 0) \in Texts
  BY TextTypes
<1> QED
  BY <1>1, <1>2, TextTypes, NamedTypes DEF BornForm, Forms

LEMMA FilledForType ==
    ASSUME Typed, NEW r \in Records, NEW runs \in BOOLEAN
    PROVE  FilledFor(r, runs) \in Forms
<1>1. list.data[r].form \in Forms /\ dialog.form \in Forms
  BY DEF Typed, Queries, Tables, Contents, Dialogs
<1>2. loads[r].data \in Texts /\ Nothing \in Texts
  BY TextTypes DEF Typed, Queries
<1>3. \A f \in Fields : list.data[r].form[f] \in Texts /\ dialog.form[f] \in Texts
  BY <1>1 DEF Forms
<1>4. \A f \in Fields :
        (CASE f \in {"text", "link"} -> list.data[r].form[f]
           [] f = "extra" /\ page.extra = "before" ->
                IF runs /\ loads[r].loaded THEN loads[r].data ELSE Nothing
           [] f = "secret" /\ ("secret" \in page.fills \/ "edit" \in page.resets) ->
                Nothing
           [] OTHER -> dialog.form[f]) \in Texts
  BY <1>2, <1>3
<1> QED
  BY <1>4, TextTypes DEF FilledFor, Forms

LEMMA OpenedTypes ==
    ASSUME Typed, NEW r \in Records \cup {0}, NEW form \in Forms,
           NEW unset \in BOOLEAN, Opened(r, form, unset)
    PROVE  /\ dialog' \in Dialogs
           /\ dialog'.open /\ dialog'.of = r /\ dialog'.form = form
           /\ dialog'.unset = unset
<1>1. r # 0 => list.data[r].version \in Nat
  BY DEF Typed, Queries, Tables, Contents
<1>2. (IF r = 0 \/ page.extra # "before" THEN <<0, 0>> ELSE <<r, list.data[r].version>>)
        \in (Records \cup {0}) \X Nat
  BY <1>1
<1> QED
  BY <1>2 DEF Opened, Dialogs

\* The effect either runs for a record that is opened, or it does not.
LEMMA OpensEditOpens ==
    ASSUME NEW r, OpensEdit(r)
    PROVE  /\ ~dialog.open /\ list.data[r].there
           /\ \E runs \in BOOLEAN : Opened(r, FilledFor(r, runs), ~runs)
<1>1. /\ <<"edit", r>> \in PageOffers
      /\ \E moved \in BOOLEAN :
           Opened(r, FilledFor(r, EffectRuns(r, moved)), ~EffectRuns(r, moved))
  BY Zenon DEF OpensEdit
<1>2. \A moved \in BOOLEAN : EffectRuns(r, moved) \in BOOLEAN
  BY DEF EffectRuns
<1>3. ~dialog.open /\ list.data[r].there
  BY <1>1 DEF PageOffers
<1> QED
  BY <1>1, <1>2, <1>3, Zenon

LEMMA ClosesTypes ==
    ASSUME Typed, ClosesDialog
    PROVE  /\ dialog' \in Dialogs /\ crossed' \in SUBSET {"quick", "extra", "reopened"}
           /\ ~dialog'.open /\ dialog'.of = dialog.of
           /\ dialog'.form = IF "success" \in page.resets THEN Emptied(dialog.form)
                             ELSE dialog.form
           /\ crossed \subseteq crossed'
<1>1. dialog \in Dialogs /\ dialog.form \in Forms /\ Emptied(dialog.form) \in Forms
  BY FormTypes DEF Typed, Dialogs
<1> QED
  BY <1>1 DEF ClosesDialog, Crossing, Typed, Dialogs

------------------------------------------------------------------------------
(* What a step may do to the records of the backend.                        *)

Extended(c, t) == [c EXCEPT !.form = [c.form EXCEPT !["extra"] = t]]

StoredStep(r) ==
    \/ stored'[r] = stored[r]
    \/ stored[r].there /\ stored'[r] = Gone(stored[r])
    \/ stored[r].there /\ stored'[r] = Written(stored[r], stored[r].form)
    \/ /\ stored[r].there /\ request.phase = "sent"
       /\ ~request.new /\ r = request.of
       /\ stored'[r] = Written(stored[r], Updated(stored[r].form, request.form))
    \/ /\ r \in Unborn /\ request.phase = "sent" /\ request.new
       /\ stored'[r] = Written(stored[r], BornForm(r))
    \/ /\ stored[r].there /\ request.phase = "second" /\ r = request.of
       /\ stored'[r] = Extended(stored[r],
                         IF request.new THEN Named(r, request.form["extra"])
                         ELSE request.form["extra"])

StoredSteps == stored' \in Tables /\ \A r \in Records : StoredStep(r)

LEMMA StoredKept ==
    ASSUME Typed, UNCHANGED stored
    PROVE  StoredSteps
BY DEF StoredSteps, StoredStep, Typed

\* One record changes.
LEMMA StoredChange ==
    ASSUME Typed, NEW r \in Records, NEW c \in Contents,
           stored' = [stored EXCEPT ![r] = c], StoredStep(r)
    PROVE  StoredSteps
BY DEF StoredSteps, StoredStep, Typed, Tables

\* The ways in which a save arrives.
LEMMA SaveArrivesCases ==
    ASSUME SaveArrives
    PROVE  /\ request.phase = "sent"
           /\ UNCHANGED <<page, list, loads, dialog, quick, deleting, bulk, mine,
                          unlisted, crossed, texts, incidents>>
           /\ \/ /\ ~request.new /\ stored[request.of].there
                 /\ stored' = [stored EXCEPT ![request.of] = Saved(@, request.form)]
                 /\ request' = [request EXCEPT !.phase = "done"]
              \/ /\ ~request.new /\ ~stored[request.of].there
                 /\ request' = [request EXCEPT !.phase = "failed"]
                 /\ stored' = stored
              \/ /\ request.new
                 /\ \E r \in Unborn :
                      /\ stored' = [stored EXCEPT ![r] = Written(@, BornForm(r))]
                      /\ request' = [request EXCEPT !.phase = "done", !.of = r]
<1>1. CASE request.new
  BY <1>1, Zenon DEF SaveArrives, BornForm
<1>2. CASE ~request.new /\ stored[request.of].there
  BY <1>2, Zenon DEF SaveArrives
<1>3. CASE ~request.new /\ ~stored[request.of].there
  BY <1>3, Zenon DEF SaveArrives
<1> QED
  BY <1>1, <1>2, <1>3, Zenon

LEMMA SaveArrivesStores == Typed /\ SaveArrives => StoredSteps
<1> SUFFICES ASSUME Typed, SaveArrives
             PROVE  StoredSteps
  OBVIOUS
<1>0. /\ request \in Requests /\ request.form \in Forms /\ request.phase = "sent"
      /\ stored \in Tables /\ request.of \in Records \cup {0}
      /\ ~request.new => request.of \in Records
  <2>1. request.phase = "sent"
    BY SaveArrivesCases, Zenon
  <2> QED
    BY <2>1 DEF Typed, RequestNamed, Requests
<1>1. CASE UNCHANGED stored
  BY <1>1, StoredKept
<1>2. ASSUME ~request.new, stored[request.of].there,
             stored' = [stored EXCEPT ![request.of] = Saved(@, request.form)]
      PROVE  StoredSteps
  <2> DEFINE r == request.of
             new == Written(stored[r], Updated(stored[r].form, request.form))
             c == Saved(stored[r], request.form)
  <2>1. r \in Records /\ stored[r] \in Contents /\ stored[r].form \in Forms
    BY <1>0, <1>2 DEF Tables, Contents
  <2>2. c \in {stored[r], new} /\ c \in Contents
    <3>1. c \in {stored[r], new}
      BY DEF Saved
    <3>2. new \in Contents
      BY <1>0, <2>1, UpdatedType, ContentTypes
    <3> QED
      BY <2>1, <3>1, <3>2
  <2>3. stored' = [stored EXCEPT ![r] = c] /\ stored'[r] = c
    BY <1>0, <1>2, <2>1 DEF Tables
  <2>4. StoredStep(r)
    BY <1>0, <1>2, <2>2, <2>3 DEF StoredStep
  <2> QED
    BY <2>1, <2>2, <2>3, <2>4, StoredChange
<1>3. ASSUME request.new, NEW r \in Unborn,
             stored' = [stored EXCEPT ![r] = Written(@, BornForm(r))]
      PROVE  StoredSteps
  <2>1. r \in Records /\ stored[r] \in Contents
    BY <1>0, <1>3 DEF Unborn, Tables
  <2>2. Written(stored[r], BornForm(r)) \in Contents
    BY <1>0, <2>1, BornFormType, ContentTypes
  <2>3. /\ stored' = [stored EXCEPT ![r] = Written(stored[r], BornForm(r))]
        /\ stored'[r] = Written(stored[r], BornForm(r))
    BY <1>0, <1>3, <2>1 DEF Tables
  <2>4. StoredStep(r)
    BY <1>0, <1>3, <2>3 DEF StoredStep
  <2> QED
    BY <2>1, <2>2, <2>3, <2>4, StoredChange
<1> QED
  BY <1>1, <1>2, <1>3, SaveArrivesCases, Zenon

LEMMA ExtraArrivesStores == Typed /\ ExtraArrives => StoredSteps
<1> SUFFICES ASSUME Typed, ExtraArrives
             PROVE  StoredSteps
  OBVIOUS
<1>0. /\ request \in Requests /\ request.form \in Forms /\ request.phase = "second"
      /\ stored \in Tables /\ request.of \in Records
  <2>1. request.phase = "second"
    BY DEF ExtraArrives
  <2> QED
    BY <2>1 DEF Typed, RequestNamed, Requests
<1>1. CASE UNCHANGED stored
  BY <1>1, StoredKept
<1>2. CASE ~UNCHANGED stored
  <2> DEFINE r == request.of
             t == IF request.new THEN Named(r, request.form["extra"])
                  ELSE request.form["extra"]
  <2>1. /\ stored[r].there
        /\ stored' = [stored EXCEPT ![r].form["extra"] = t]
    BY <1>2 DEF ExtraArrives
  <2>2. stored[r] \in Contents /\ t \in Texts
    BY <1>0, NamedTypes DEF Tables, Forms, Fields
  <2> HIDE DEF t
  <2>3. stored' = [stored EXCEPT ![r] = Extended(stored[r], t)]
    BY <2>1 DEF Extended
  <2>4. Extended(stored[r], t) \in Contents
    BY <2>2, FormTypes DEF Extended, Contents, Forms, Fields
  <2>5. stored'[r] = Extended(stored[r], t)
    BY <1>0, <2>3 DEF Tables
  <2>6. StoredStep(r)
    BY <1>0, <2>1, <2>5 DEF StoredStep, t
  <2> QED
    BY <1>0, <2>3, <2>4, <2>6, StoredChange
<1> QED
  BY <1>1, <1>2

LEMMA NextStores == Typed /\ [Next]_vars => StoredSteps
<1> SUFFICES ASSUME Typed, [Next]_vars
             PROVE  StoredSteps
  OBVIOUS
<1>0. stored \in Tables /\ \A r \in Records : stored[r] \in Contents
  BY DEF Typed, Tables
<1>1. CASE UNCHANGED stored
  BY <1>1, StoredKept
<1>2. ASSUME NEW r \in Records, stored[r].there,
             stored' = [stored EXCEPT ![r] = Gone(@)]
      PROVE  StoredSteps
  <2>1. Gone(stored[r]) \in Contents /\ stored'[r] = Gone(stored[r])
    BY <1>0, <1>2, ContentTypes, TextTypes DEF Tables
  <2> QED
    BY <1>2, <2>1, StoredChange DEF StoredStep
<1>3. ASSUME NEW r \in Records, BulkGoesOn(r)
      PROVE  StoredSteps
  <2>1. CASE UNCHANGED stored
    BY <2>1, StoredKept
  <2>2. CASE stored[r].there /\ bulk.kind = "delete"
    BY <1>2, <1>3, <2>2 DEF BulkGoesOn
  <2>3. CASE stored[r].there /\ bulk.kind # "delete"
    <3>1. stored' = [stored EXCEPT ![r] = Written(stored[r], stored[r].form)]
      BY <1>3, <2>3 DEF BulkGoesOn
    <3>2. Written(stored[r], stored[r].form) \in Contents
      BY <1>0, ContentTypes DEF Contents
    <3>3. stored'[r] = Written(stored[r], stored[r].form)
      BY <1>0, <3>1 DEF Tables
    <3> QED
      BY <2>3, <3>1, <3>2, <3>3, StoredChange DEF StoredStep
  <2> QED
    BY <1>3, <2>1, <2>2, <2>3 DEF BulkGoesOn
<1>4. ASSUME NEW r \in Records, DeletionArrives(r) \/ OthersDelete(r)
      PROVE  StoredSteps
  BY <1>1, <1>2, <1>4 DEF DeletionArrives, OthersDelete
<1>5. ASSUME NEW r \in Records,
             \/ OpensEdit(r) \/ OpensClone(r) \/ ConfirmsDelete(r)
             \/ DeletionEnds(r) \/ LoadAnswers(r) \/ LoadArrives(r)
             \/ LoadFails(r)
      PROVE  UNCHANGED stored
  BY <1>5 DEF OpensEdit, OpensClone, ConfirmsDelete, DeletionEnds, LoadAnswers,
     LoadArrives, LoadFails
<1>6. CASE \/ OpensCreate \/ Cancels \/ Saves \/ SaveFails \/ SaveEnds
           \/ RefreshEnds \/ ExtraEnds \/ ExtraFails \/ QuickSends
           \/ QuickEnds \/ QuickFails \/ BulkEnds \/ BulkFails
           \/ ListAnswers \/ ListArrives \/ ListFails \/ UNCHANGED vars
           \/ \E f \in DOMAIN EmptyForm : Types(f)
           \/ \E kind \in {"edit", "delete"}, rows \in SUBSET Records :
                BulkStarts(kind, rows)
  BY <1>1, <1>6 DEF OpensCreate, Cancels, Saves, SaveFails, SaveEnds,
     RefreshEnds, ExtraEnds, ExtraFails, QuickSends, QuickEnds, QuickFails,
     BulkEnds, BulkFails, ListAnswers, ListArrives, ListFails, Types,
     BulkStarts, vars
<1> QED
  BY <1>1, <1>3, <1>4, <1>5, <1>6, SaveArrivesStores, ExtraArrivesStores
  DEF Next

------------------------------------------------------------------------------
(* What the pages are, and what they offer.                                 *)

Shape(p) ==
    /\ p.waits \in BOOLEAN /\ p.extra \in {"none", "before", "after"}
    /\ p.waits => p.extra = "none"
    /\ SecretStays(p) => \/ "secret" \notin p.fields
                         \/ "cancel" \in p.resets /\ "success" \in p.resets
                         \/ p = GitRepos

LEMMA PageFacts ==
    ASSUME page \in Pages
    PROVE  Shape(page)
<1> USE DEF Shape, SecretStays
<1>1. Shape(Crud) /\ Shape(HostResources) /\ Shape(Hosts) /\ Shape(Apps)
  BY DEF Crud, HostResources, Hosts, Apps, QuickHost, HostForm, AppForm
<1>2. Shape(Users) /\ Shape(HostApps) /\ Shape(NotificationChannels)
  BY DEF Crud, Plain, Users, HostApps, HostResources, QuickHost, NotificationChannels,
     HostAppTable, ChannelForm
<1>3. Shape(GitCredentials) /\ Shape(VaultCredentials) /\ Shape(InventoryApiKeys)
  BY DEF Crud, Plain, GitCredentials, VaultCredentials, InventoryApiKeys,
     GitCredentialForm, ApiKeyForm
<1>4. Shape(SecretMappings)
  BY DEF Crud, Plain, SecretMappings
<1>5. Shape(AiProviders) /\ Shape(AiAgents) /\ Shape(AiTools)
  BY DEF Crud, Plain, AiProviders, AiAgents, AiTools, AiTables, ProviderForm,
     AgentForm, ToolForm
<1>6. Shape(GitRepos)
  <2>1. /\ GitRepos.waits = FALSE /\ GitRepos.extra = "none"
    BY DEF Crud, Plain, GitRepos
  <2> QED
    BY <2>1
<1>7. Shape(ProxmoxCredentials) /\ Shape(ProxmoxPending)
  BY DEF Crud, Plain, ProxmoxCredentials, ProxmoxPending, ProxmoxCredentialTable,
     ProxmoxCredentialForm, PendingTable, PendingForm
<1>8. Shape(JobTemplates)
  BY DEF Crud, Plain, JobTemplates, TemplateTable, TemplateForm
<1> HIDE DEF Shape, SecretStays
<1>9. page \in {Crud, HostResources, Hosts, Apps, Users, HostApps,
                NotificationChannels, GitCredentials, VaultCredentials,
                InventoryApiKeys, SecretMappings, AiProviders, AiAgents, AiTools,
                GitRepos, ProxmoxCredentials, ProxmoxPending, JobTemplates}
  BY DEF Pages, Environments, Domains, Vlans, Datastores, HostTypes,
     HostStatuses, Roles, HostStorage, K3sClusters
<1> QED
  BY <1>1, <1>2, <1>3, <1>4, <1>5, <1>6, <1>7, <1>8, <1>9

LEMMA EditOffered ==
    ASSUME NEW r, <<"edit", r>> \in PageOffers
    PROVE  ~dialog.open /\ r \in Records /\ list.data[r].there
BY DEF PageOffers

LEMMA CreateOffered ==
    ASSUME <<"create">> \in PageOffers
    PROVE  ~dialog.open
BY DEF PageOffers

LEMMA CloneOffered ==
    ASSUME NEW r, <<"clone", r>> \in PageOffers
    PROVE  ~dialog.open /\ r \in Records /\ list.data[r].there
BY DEF PageOffers

LEMMA CancelOffered ==
    ASSUME <<"cancel">> \in DialogOffers
    PROVE  dialog.open
BY DEF DialogOffers

LEMMA TypeOffered ==
    ASSUME NEW f, <<"type", f>> \in DialogOffers
    PROVE  dialog.open /\ f \in page.fields /\ f # "link"
BY DEF DialogOffers

LEMMA SaveOffered ==
    ASSUME <<"save">> \in DialogOffers
    PROVE  dialog.open /\ request.phase = "idle"
BY DEF DialogOffers, Saving

LEMMA QuickOffered ==
    ASSUME <<"quick">> \in DialogOffers
    PROVE  dialog.open
BY DEF DialogOffers

\* The ways in which the handler of a save goes on.
LEMMA SaveEndsCases ==
    ASSUME SaveEnds, Shape(page)
    PROVE  /\ request.phase = "done" /\ Noted(request.of)
           /\ UNCHANGED <<page, stored, loads, quick, deleting, bulk, texts, incidents>>
           /\ \/ /\ page.extra = "before"
                 /\ request' = [request EXCEPT !.phase = "secondDone"]
                 /\ UNCHANGED <<list, dialog, crossed>>
              \/ /\ page.extra = "before" /\ request' = Second
                 /\ UNCHANGED <<list, dialog, crossed>>
              \/ /\ page.extra = "none" /\ list' = ListRefreshed
                 /\ request' = [request EXCEPT !.phase = "refreshing"]
                 /\ UNCHANGED <<dialog, crossed>>
              \/ /\ page.extra = "none" /\ list' = ListRefreshed
                 /\ request' = NoRequest /\ ClosesDialog
              \/ /\ page.extra = "after" /\ list' = ListRefreshed
                 /\ request' = Second /\ ClosesDialog
<1>0. request.phase = "done" /\ Noted(request.of)
      /\ UNCHANGED <<page, stored, loads, quick, deleting, bulk, texts, incidents>>
  BY Zenon DEF SaveEnds
<1>1. CASE page.extra = "before"
  BY <1>0, <1>1, Zenon DEF SaveEnds
<1>2. CASE page.extra = "after"
  <2>1. page.extra # "before" /\ ~page.waits
    BY <1>2 DEF Shape
  <2>2. list' = ListRefreshed /\ request' = Second /\ ClosesDialog
    BY <1>2, <2>1 DEF SaveEnds
  <2> QED
    BY <1>0, <1>2, <2>2, Zenon
<1>3. CASE page.extra = "none"
  <2>1. page.extra # "before" /\ page.extra # "after"
    BY <1>3
  <2>2. list' = ListRefreshed
    BY <2>1 DEF SaveEnds
  <2>3. CASE page.waits
    <3>1. /\ request' = [request EXCEPT !.phase = "refreshing"]
          /\ UNCHANGED <<dialog, crossed>>
      BY <2>1, <2>3 DEF SaveEnds
    <3> QED
      BY <1>0, <1>3, <2>2, <3>1, Zenon
  <2>4. CASE ~page.waits
    <3>1. request' = NoRequest /\ ClosesDialog
      BY <2>1, <2>4 DEF SaveEnds
    <3> QED
      BY <1>0, <1>3, <2>2, <3>1, Zenon
  <2> QED
    BY <2>3, <2>4
<1> QED
  BY <1>1, <1>2, <1>3 DEF Shape

------------------------------------------------------------------------------
(* Every variable keeps its type.                                           *)

LEMMA TypedInit == Init => Typed
<1> SUFFICES ASSUME Init
             PROVE  Typed
  OBVIOUS
<1> USE TextTypes
<1>1. stored \in Tables
  <2>1. PICK kept : stored = [r \in Records |->
                                IF r \in kept THEN Content(TRUE, 0, Original(r))
                                ELSE Content(FALSE, 0, EmptyForm)]
    BY Zenon DEF Init
  <2>2. ASSUME NEW r \in Records
        PROVE  Original(r) \in Forms
    BY DEF Original, Forms
  <2>3. ASSUME NEW r \in Records
        PROVE  /\ Content(TRUE, 0, Original(r)) \in Contents
               /\ Content(FALSE, 0, EmptyForm) \in Contents
    BY <2>2 DEF Content, Contents
  <2> QED
    BY <2>1, <2>3 DEF Tables
<1>2. list \in Queries(Tables)
  <2>1. Unfetched(Blank) \in Queries(Tables)
    BY BlankType DEF Unfetched, Queries
  <2> QED
    BY <2>1, QueryTypes DEF Init
<1>3. loads \in [Records -> Queries(Texts)]
  <2>1. Unfetched(Nothing) \in Queries(Texts)
    BY DEF Unfetched, Queries
  <2> QED
    BY <2>1 DEF Init
<1>4. dialog \in Dialogs /\ request \in Requests /\ RequestNamed
  BY DEF Init, Dialogs, Requests, RequestNamed, NoRequest
<1> QED
  BY <1>1, <1>2, <1>3, <1>4 DEF Init, Typed, NoQuick, NoBulk

LEMMA CellTypes ==
    ASSUME Typed, NEW r \in Records
    PROVE  /\ list.data[r] \in Contents /\ stored[r] \in Contents
           /\ list.data[r].form \in Forms /\ stored[r].form \in Forms
           /\ loads[r] \in Queries(Texts)
           /\ list.data[r].version \in Nat /\ stored[r].version \in Nat
           /\ stored[r].form["extra"] \in Texts
           /\ loads[r].data \in Texts /\ loads[r].answer \in Texts
BY DEF Typed, Queries, Tables, Contents, Forms, Fields

LEMMA DialogTypes ==
    ASSUME Typed
    PROVE  /\ dialog \in Dialogs /\ dialog.form \in Forms
           /\ dialog.of \in Records \cup {0} /\ dialog.open \in BOOLEAN
           /\ request \in Requests /\ request.form \in Forms
           /\ request.of \in Records \cup {0} /\ request.new \in BOOLEAN
           /\ \A f \in Fields : dialog.form[f] \in Texts /\ request.form[f] \in Texts
           /\ list.data \in Tables /\ list.answer \in Tables
           /\ quick.text \in Texts
BY DEF Typed, Dialogs, Requests, Queries, Forms

LEMMA NamedOf ==
    ASSUME Typed, request.phase \notin {"idle", "sent"}
    PROVE  request.of \in Records
BY DEF Typed, RequestNamed

LEMMA DialogsTyped ==
    ASSUME Typed,
           \/ OpensCreate \/ Cancels \/ QuickEnds
           \/ \E f \in DOMAIN EmptyForm : Types(f)
           \/ \E r \in Records : OpensEdit(r) \/ OpensClone(r)
    PROVE  Typed'
<1> USE TextTypes
<1>1. ASSUME dialog' \in Dialogs, texts' \in Nat, incidents' \in Nat,
             crossed' \in SUBSET {"quick", "extra", "reopened"},
             quick' \in [phase : {"idle", "sent"}, text : Texts],
             loads' \in [Records -> Queries(Texts)],
             UNCHANGED <<page, stored, list, request, deleting, bulk, mine,
                         unlisted>>
      PROVE  Typed'
  BY <1>1 DEF Typed, RequestNamed
<1>2. CASE OpensCreate
  <2>1. /\ Opened(0, EmptyForm, FALSE) /\ incidents' = incidents + 1
        /\ UNCHANGED <<page, stored, list, loads, request, quick, deleting, bulk,
                       mine, unlisted, crossed, texts>>
    BY <1>2 DEF OpensCreate, NewForm, Incident
  <2>2. dialog' \in Dialogs
    BY <2>1, OpenedTypes
  <2> QED
    BY <1>1, <2>1, <2>2 DEF Typed
<1>3. ASSUME NEW r \in Records, OpensEdit(r)
      PROVE  Typed'
  <2>1. /\ incidents' = incidents + 1
        /\ loads' \in {[loads EXCEPT ![r] = Fetched(@)],
                       [loads EXCEPT ![r] = MountedQuery(@)], loads}
        /\ UNCHANGED <<page, stored, list, request, quick, deleting, bulk, mine,
                       unlisted, crossed, texts>>
    BY <1>3, Zenon DEF OpensEdit, Incident
  <2>2. dialog' \in Dialogs
    <3>1. PICK runs \in BOOLEAN : Opened(r, FilledFor(r, runs), ~runs)
      BY <1>3, OpensEditOpens
    <3> QED
      BY <3>1, OpenedTypes, FilledForType
  <2>3. loads' \in [Records -> Queries(Texts)]
    <3>1. /\ Fetched(loads[r]) \in Queries(Texts)
          /\ MountedQuery(loads[r]) \in Queries(Texts)
      BY CellTypes, QueryTypes
    <3>2. \A q \in Queries(Texts) : [loads EXCEPT ![r] = q] \in [Records -> Queries(Texts)]
      BY DEF Typed
    <3>3. /\ [loads EXCEPT ![r] = Fetched(@)] = [loads EXCEPT ![r] = Fetched(loads[r])]
          /\ [loads EXCEPT ![r] = MountedQuery(@)]
               = [loads EXCEPT ![r] = MountedQuery(loads[r])]
      OBVIOUS
    <3> QED
      BY <2>1, <3>1, <3>2, <3>3, Zenon DEF Typed
  <2> QED
    BY <1>1, <2>1, <2>2, <2>3 DEF Typed
<1>4. ASSUME NEW r \in Records, OpensClone(r)
      PROVE  Typed'
  <2> DEFINE form == [EmptyForm EXCEPT !["text"] = Text(0, list.data[r].form["text"].n)]
  <2>1. /\ Opened(0, form, FALSE) /\ incidents' = incidents + 1
        /\ UNCHANGED <<page, stored, list, loads, request, quick, deleting, bulk,
                       mine, unlisted, crossed, texts>>
    BY <1>4 DEF OpensClone, Incident
  <2>2. list.data[r].form["text"].n \in Nat
    <3>1. list.data[r].form["text"] \in Texts
      BY CellTypes DEF Forms, Fields
    <3> QED
      BY <3>1 DEF Texts
  <2>3. form \in Forms
    BY <2>2, FormTypes DEF Fields
  <2> HIDE DEF form
  <2>4. dialog' \in Dialogs
    BY <2>1, <2>3, OpenedTypes
  <2> QED
    BY <1>1, <2>1, <2>4 DEF Typed
<1>5. CASE Cancels
  <2>1. Emptied(dialog.form) \in Forms
    BY FormTypes, DialogTypes
  <2>2. dialog' \in Dialogs
    BY <1>5, <2>1, DialogTypes DEF Cancels, Dialogs
  <2>3. /\ crossed' \in SUBSET {"quick", "extra", "reopened"}
        /\ UNCHANGED <<page, stored, list, loads, request, quick, deleting, bulk,
                       mine, unlisted, texts, incidents>>
    BY <1>5 DEF Cancels, Crossing, Typed
  <2> QED
    BY <1>1, <2>2, <2>3 DEF Typed
<1>6. ASSUME NEW f \in DOMAIN EmptyForm, Types(f)
      PROVE  Typed'
  <2>1. /\ texts' = texts + 1
        /\ dialog' = [dialog EXCEPT !.form =
                        [dialog.form EXCEPT ![f] = Text(dialog.of, texts + 1)]]
        /\ UNCHANGED <<page, stored, list, loads, request, quick, deleting, bulk,
                       mine, unlisted, crossed, incidents>>
    BY <1>6 DEF Types
  <2>2. [dialog.form EXCEPT ![f] = Text(dialog.of, texts + 1)] \in Forms
    <3>1. f \in Fields /\ texts + 1 \in Nat
      BY <1>6 DEF Typed
    <3> QED
      BY <3>1, FormTypes, DialogTypes, Zenon
  <2>3. dialog' \in Dialogs
    BY <2>1, <2>2, DialogTypes DEF Dialogs
  <2> QED
    BY <1>1, <2>1, <2>3 DEF Typed
<1>7. CASE QuickEnds
  <2>1. PICK f \in Fields :
           dialog' = [dialog EXCEPT !.form = [dialog.form EXCEPT ![f] = quick.text]]
    BY <1>7 DEF QuickEnds, Fields
  <2>2. [dialog.form EXCEPT ![f] = quick.text] \in Forms
    BY FormTypes, DialogTypes
  <2>3. dialog' \in Dialogs
    BY <2>1, <2>2, DialogTypes DEF Dialogs
  <2>4. /\ quick' = NoQuick
        /\ UNCHANGED <<page, stored, list, loads, request, deleting, bulk,
                       mine, unlisted, crossed, texts, incidents>>
    BY <1>7 DEF QuickEnds
  <2>5. NoQuick \in [phase : {"idle", "sent"}, text : Texts]
    BY DEF NoQuick
  <2> QED
    BY <1>1, <2>3, <2>4, <2>5 DEF Typed
<1> QED
  BY <1>2, <1>3, <1>4, <1>5, <1>6, <1>7

LEMMA RequestsTyped ==
    ASSUME Typed, StoredSteps,
           \/ Saves \/ SaveArrives \/ SaveFails \/ SaveEnds \/ RefreshEnds
           \/ ExtraArrives \/ ExtraEnds \/ ExtraFails
    PROVE  Typed'
<1> USE TextTypes
<1>0. /\ stored' \in Tables /\ Shape(page) /\ NoRequest \in Requests
      /\ ListRefreshed \in Queries(Tables)
  BY PageFacts, QueryTypes
  DEF StoredSteps, Typed, NoRequest, Requests, ListRefreshed
<1>1. ASSUME dialog' \in Dialogs, request' \in Requests, RequestNamed',
             list' \in Queries(Tables), loads' \in [Records -> Queries(Texts)],
             crossed' \in SUBSET {"quick", "extra", "reopened"}, mine' \in [Records -> Nat],
             unlisted' \in SUBSET Records, incidents' \in Nat,
             UNCHANGED <<page, quick, deleting, bulk, texts>>
      PROVE  Typed'
  BY <1>0, <1>1 DEF Typed
<1>2. ASSUME request' = NoRequest
      PROVE  request' \in Requests /\ RequestNamed'
  BY <1>0, <1>2 DEF RequestNamed, NoRequest
<1>3. ASSUME NEW phase, request.of \in Records,
             phase \in {"done", "failed", "refreshing", "second", "secondDone",
                        "secondFailed"},
             request' = [request EXCEPT !.phase = phase]
      PROVE  request' \in Requests /\ RequestNamed'
  BY <1>3, DialogTypes DEF Requests, RequestNamed
<1>4. ASSUME request.of \in Records, request' = Second
      PROVE  request' \in Requests /\ RequestNamed'
  BY <1>4, DialogTypes DEF Second, Requests, RequestNamed
<1>5. CASE Saves
  <2>1. /\ request' = [phase |-> "sent", of |-> dialog.of, new |-> (dialog.of = 0),
                       form |-> dialog.form]
        /\ crossed' \subseteq crossed \cup {"extra", "reopened"}
        /\ UNCHANGED <<page, stored, list, loads, dialog, quick, deleting, bulk,
                       mine, unlisted, texts, incidents>>
    BY <1>5 DEF Saves
  <2>2. request' \in Requests /\ RequestNamed'
    BY <2>1, DialogTypes DEF Requests, RequestNamed
  <2> QED
    BY <1>1, <2>1, <2>2 DEF Typed
<1>6. CASE SaveArrives
  <2>1. request.phase = "sent"
        /\ UNCHANGED <<page, list, loads, dialog, quick, deleting, bulk, mine,
                       unlisted, crossed, texts, incidents>>
    BY <1>6, SaveArrivesCases, Zenon
  <2>2. ASSUME ~request.new,
               \/ request' = [request EXCEPT !.phase = "done"]
               \/ request' = [request EXCEPT !.phase = "failed"]
        PROVE  request' \in Requests /\ RequestNamed'
    <3>1. request.of \in Records
      BY <2>1, <2>2, DialogTypes DEF Typed, RequestNamed
    <3> QED
      BY <1>3, <2>2, <3>1
  <2>3. ASSUME NEW r \in Unborn, request' = [request EXCEPT !.phase = "done", !.of = r]
        PROVE  request' \in Requests /\ RequestNamed'
    BY <2>3, DialogTypes DEF Requests, RequestNamed, Unborn
  <2>4. request' \in Requests /\ RequestNamed'
    BY <1>6, <2>2, <2>3, SaveArrivesCases, Zenon
  <2> QED
    BY <1>1, <2>1, <2>4 DEF Typed
<1>7. CASE SaveFails \/ ExtraFails
  <2>1. /\ request' = NoRequest /\ incidents' \in {incidents, incidents + 1}
        /\ UNCHANGED <<page, stored, list, loads, dialog, quick, deleting, bulk,
                       mine, crossed, texts>>
    BY <1>7 DEF SaveFails, ExtraFails, Incident
  <2>2. unlisted' = unlisted \/ unlisted' = unlisted \cup {request.of}
    BY <1>7 DEF SaveFails, ExtraFails
  <2>3. unlisted' \in SUBSET Records
    <3>1. CASE SaveFails
      BY <3>1 DEF SaveFails, Typed
    <3>2. CASE ExtraFails
      <4>1. request.of \in Records
        BY <3>2, NamedOf DEF ExtraFails
      <4> QED
        BY <2>2, <4>1 DEF Typed
    <3> QED
      BY <1>7, <3>1, <3>2
  <2> QED
    BY <1>1, <1>2, <2>1, <2>3 DEF Typed
<1>8. CASE SaveEnds
  <2>1. /\ request.phase = "done" /\ Noted(request.of)
        /\ UNCHANGED <<page, stored, loads, quick, deleting, bulk, texts, incidents>>
    BY <1>0, <1>8, SaveEndsCases, Zenon
  <2>2. request.of \in Records
    BY <2>1, NamedOf
  <2>3. mine' \in [Records -> Nat] /\ unlisted' \in SUBSET Records
    BY <2>1, <2>2, CellTypes DEF Noted, Typed
  <2>4. \/ request' = [request EXCEPT !.phase = "secondDone"]
        \/ request' = [request EXCEPT !.phase = "refreshing"]
        \/ request' = Second \/ request' = NoRequest
    BY <1>0, <1>8, SaveEndsCases, Zenon
  <2>5. request' \in Requests /\ RequestNamed'
    BY <1>2, <1>3, <1>4, <2>2, <2>4
  <2>6. list' = list \/ list' = ListRefreshed
    BY <1>0, <1>8, SaveEndsCases, Zenon
  <2>7. UNCHANGED <<dialog, crossed>> \/ ClosesDialog
    BY <1>0, <1>8, SaveEndsCases, Zenon
  <2>8. dialog' \in Dialogs /\ crossed' \in SUBSET {"quick", "extra", "reopened"}
    BY <2>7, ClosesTypes DEF Typed
  <2> QED
    BY <1>0, <1>1, <2>1, <2>3, <2>5, <2>6, <2>8 DEF Typed
<1>9. CASE RefreshEnds
  <2>1. /\ request' = NoRequest /\ ClosesDialog
        /\ UNCHANGED <<page, stored, list, loads, quick, deleting, bulk, mine,
                       unlisted, texts, incidents>>
    BY <1>9 DEF RefreshEnds
  <2> QED
    BY <1>1, <1>2, <2>1, ClosesTypes DEF Typed
<1>10. CASE ExtraArrives
  <2>1. /\ request.phase = "second"
        /\ \/ request' = [request EXCEPT !.phase = "secondDone"]
           \/ request' = [request EXCEPT !.phase = "secondFailed"]
        /\ UNCHANGED <<page, list, loads, dialog, quick, deleting, bulk, mine,
                       unlisted, crossed, texts, incidents>>
    BY <1>10 DEF ExtraArrives
  <2>2. request' \in Requests /\ RequestNamed'
    BY <1>3, <2>1, NamedOf
  <2> QED
    BY <1>1, <2>1, <2>2 DEF Typed
<1>11. CASE ExtraEnds
  <2>1. /\ request' = NoRequest /\ request.phase = "secondDone"
        /\ UNCHANGED <<page, stored, quick, deleting, bulk, mine, texts, incidents>>
    BY <1>11 DEF ExtraEnds
  <2>2. request.of \in Records
    BY <2>1, NamedOf
  <2>3. \/ UNCHANGED <<list, loads, dialog, crossed, unlisted>>
        \/ /\ list' = ListRefreshed /\ ClosesDialog
           /\ loads' = [r \in Records |-> IF dialog.of = r THEN Refetched(loads[r])
                                          ELSE Invalidated(loads[r])]
           /\ unlisted' \in {unlisted, unlisted \cup {request.of}}
    BY <1>11 DEF ExtraEnds
  <2>4. \A r \in Records : /\ Refetched(loads[r]) \in Queries(Texts)
                           /\ Invalidated(loads[r]) \in Queries(Texts)
    BY CellTypes, QueryTypes
  <2>5. CASE UNCHANGED <<list, loads, dialog, crossed, unlisted>>
    BY <1>1, <1>2, <2>1, <2>5 DEF Typed
  <2>6. CASE /\ list' = ListRefreshed /\ ClosesDialog
             /\ loads' = [r \in Records |-> IF dialog.of = r THEN Refetched(loads[r])
                                            ELSE Invalidated(loads[r])]
             /\ unlisted' \in {unlisted, unlisted \cup {request.of}}
    BY <1>0, <1>1, <1>2, <2>1, <2>2, <2>4, <2>6, ClosesTypes DEF Typed
  <2> QED
    BY <2>3, <2>5, <2>6
<1> QED
  BY <1>5, <1>6, <1>7, <1>8, <1>9, <1>10, <1>11

LEMMA OthersTyped ==
    ASSUME Typed, StoredSteps,
           \/ QuickSends \/ QuickFails \/ BulkEnds \/ BulkFails
           \/ ListAnswers \/ ListArrives \/ ListFails \/ UNCHANGED vars
           \/ \E kind \in {"edit", "delete"}, rows \in SUBSET Records :
                BulkStarts(kind, rows)
           \/ \E r \in Records :
                \/ ConfirmsDelete(r) \/ DeletionArrives(r) \/ DeletionEnds(r)
                \/ BulkGoesOn(r) \/ OthersDelete(r)
                \/ LoadAnswers(r) \/ LoadArrives(r) \/ LoadFails(r)
    PROVE  Typed'
<1> USE TextTypes
<1>0. /\ stored' \in Tables /\ stored \in Tables
      /\ ListRefreshed \in Queries(Tables) /\ list \in Queries(Tables)
  BY QueryTypes DEF StoredSteps, Typed, ListRefreshed
<1>1. ASSUME dialog' \in Dialogs, list' \in Queries(Tables),
             loads' \in [Records -> Queries(Texts)],
             quick' \in [phase : {"idle", "sent"}, text : Texts],
             deleting' \in [Records -> {"idle", "sent", "done"}],
             bulk' \in [kind : {"none", "edit", "delete"}, rest : SUBSET Records,
                        done : SUBSET Records],
             mine' \in [Records -> Nat], unlisted' \in SUBSET Records,
             crossed' \in SUBSET {"quick", "extra", "reopened"},
             texts' \in Nat, incidents' \in Nat,
             UNCHANGED <<page, request>>
      PROVE  Typed'
  BY <1>0, <1>1 DEF Typed, RequestNamed
<1>2. CASE QuickSends \/ QuickFails
  <2>1. /\ quick' \in {NoQuick, [phase |-> "sent", text |-> Text(dialog.of, texts + 1)]}
        /\ texts' \in {texts, texts + 1} /\ incidents' \in {incidents, incidents + 1}
        /\ UNCHANGED <<page, stored, list, loads, dialog, request, deleting, bulk,
                       mine, unlisted, crossed>>
    BY <1>2 DEF QuickSends, QuickFails, Incident
  <2>2. quick' \in [phase : {"idle", "sent"}, text : Texts]
    BY <2>1, DialogTypes DEF NoQuick, Typed
  <2> QED
    BY <1>1, <2>1, <2>2 DEF Typed
<1>3. ASSUME NEW kind \in {"edit", "delete"}, NEW rows \in SUBSET Records,
             BulkStarts(kind, rows)
      PROVE  Typed'
  BY <1>1, <1>3 DEF BulkStarts, Incident, Typed
<1>4. CASE BulkEnds \/ BulkFails
  <2>1. bulk' = NoBulk /\ incidents' \in {incidents, incidents + 1}
        /\ list' \in {list, ListRefreshed}
        /\ unlisted' \in {unlisted, unlisted \cup bulk.done}
        /\ UNCHANGED <<page, stored, loads, dialog, request, quick, deleting, mine,
                       crossed, texts>>
    BY <1>4 DEF BulkEnds, BulkFails, Incident
  <2> QED
    BY <1>0, <1>1, <2>1 DEF Typed, NoBulk
<1>5. CASE ListAnswers \/ ListArrives \/ ListFails
  <2>1. /\ list' \in {Answered(list, stored), Delivered(list, Blank), FetchFailed(list)}
        /\ incidents' \in {incidents, incidents + 1}
        /\ UNCHANGED <<page, stored, loads, dialog, request, quick, deleting, bulk,
                       mine, unlisted, crossed, texts>>
    BY <1>5 DEF ListAnswers, ListArrives, ListFails, Incident
  <2>2. list' \in Queries(Tables)
    BY <1>0, <2>1, QueryTypes, BlankType
  <2> QED
    BY <1>1, <2>1, <2>2 DEF Typed
<1>6. ASSUME NEW r \in Records, ConfirmsDelete(r) \/ DeletionArrives(r) \/ OthersDelete(r)
      PROVE  Typed'
  <2>1. /\ deleting' \in {deleting, [deleting EXCEPT ![r] = "sent"],
                          [deleting EXCEPT ![r] = "done"],
                          [deleting EXCEPT ![r] = "idle"]}
        /\ incidents' \in {incidents, incidents + 1}
        /\ UNCHANGED <<page, list, loads, dialog, request, quick, bulk, mine,
                       unlisted, crossed, texts>>
    BY <1>6 DEF ConfirmsDelete, DeletionArrives, OthersDelete, Incident
  <2> QED
    BY <1>1, <2>1 DEF Typed
<1>7. ASSUME NEW r \in Records, DeletionEnds(r)
      PROVE  Typed'
  <2>1. /\ deleting' = [deleting EXCEPT ![r] = "idle"]
        /\ list' = ListRefreshed /\ mine' = [mine EXCEPT ![r] = stored[r].version]
        /\ unlisted' \in {unlisted, unlisted \cup {r}}
        /\ UNCHANGED <<page, stored, loads, dialog, request, quick, bulk, crossed,
                       texts, incidents>>
    BY <1>7 DEF DeletionEnds, Noted
  <2> QED
    BY <1>0, <1>1, <2>1, CellTypes DEF Typed
<1>8. ASSUME NEW r \in Records, BulkGoesOn(r)
      PROVE  Typed'
  <2>1. /\ \/ /\ bulk' = [bulk EXCEPT !.rest = @ \ {r}, !.done = @ \cup {r}]
              /\ mine' = [mine EXCEPT ![r] = stored[r].version + 1]
              /\ unlisted' = unlisted
           \/ /\ bulk' = NoBulk /\ mine' = mine
              /\ unlisted' = unlisted \cup bulk.done
        /\ UNCHANGED <<page, list, loads, dialog, request, quick, deleting,
                       crossed, texts, incidents>>
    BY <1>8, Zenon DEF BulkGoesOn
  <2>2. bulk' \in [kind : {"none", "edit", "delete"}, rest : SUBSET Records,
                  done : SUBSET Records]
    <3> DEFINE rest == bulk.rest \ {r}
               done == bulk.done \cup {r}
               Bulks == [kind : {"none", "edit", "delete"}, rest : SUBSET Records,
                         done : SUBSET Records]
    <3>0. bulk \in Bulks
      BY DEF Typed
    <3>1. rest \in SUBSET Records /\ done \in SUBSET Records
      BY DEF Typed
    <3>2. bulk' = [bulk EXCEPT !.rest = rest, !.done = done] \/ bulk' = NoBulk
      BY <2>1
    <3>3. NoBulk \in Bulks
      BY DEF NoBulk
    <3> HIDE DEF rest, done
    <3>4. [bulk EXCEPT !.rest = rest, !.done = done] \in Bulks
      BY <3>0, <3>1
    <3> QED
      BY <3>2, <3>3, <3>4
  <2>3. mine' \in [Records -> Nat]
    BY <2>1, CellTypes DEF Typed
  <2>4. unlisted' \in SUBSET Records
    BY <2>1 DEF Typed
  <2> QED
    BY <1>0, <1>1, <2>1, <2>2, <2>3, <2>4 DEF Typed
<1>9. ASSUME NEW r \in Records, LoadAnswers(r) \/ LoadArrives(r) \/ LoadFails(r)
      PROVE  Typed'
  <2>1. \/ loads' = [loads EXCEPT ![r] = Answered(@, stored[r].form["extra"])]
        \/ loads' = [loads EXCEPT ![r] = Delivered(@, Nothing)]
        \/ loads' = [loads EXCEPT ![r] = FetchFailed(@)]
    BY <1>9, Zenon DEF LoadAnswers, LoadArrives, LoadFails
  <2>2. /\ crossed' \in {crossed, crossed \cup {"extra"}}
        /\ incidents' \in {incidents, incidents + 1}
        /\ UNCHANGED <<page, stored, list, request, quick, deleting, bulk, mine,
                       unlisted, texts>>
    <3>1. CASE LoadAnswers(r)
      BY <3>1, Zenon DEF LoadAnswers
    <3>2. CASE LoadArrives(r)
      BY <3>2, Zenon DEF LoadArrives
    <3>3. CASE LoadFails(r)
      <4>1. crossed' = IF page.extra = "before" THEN crossed \cup {"extra"} ELSE crossed
        BY <3>3, Zenon DEF LoadFails
      <4>2. /\ incidents' = incidents + 1
            /\ UNCHANGED <<page, stored, list, request, quick, deleting, bulk, mine,
                           unlisted, texts>>
        BY <3>3, Zenon DEF LoadFails, Incident
      <4> QED
        BY <4>1, <4>2, Zenon
    <3> QED
      BY <1>9, <3>1, <3>2, <3>3, Zenon
  <2>3. loads' \in [Records -> Queries(Texts)]
    <3>1. /\ Answered(loads[r], stored[r].form["extra"]) \in Queries(Texts)
          /\ Delivered(loads[r], Nothing) \in Queries(Texts)
          /\ FetchFailed(loads[r]) \in Queries(Texts)
      BY CellTypes, QueryTypes
    <3> QED
      BY <2>1, <3>1 DEF Typed
  <2>4. \/ dialog' = dialog
        \/ dialog' = [dialog EXCEPT !.form = [dialog.form EXCEPT !["extra"] =
                                                loads[r].answer], !.unset = FALSE]
        \/ dialog' = [dialog EXCEPT !.form = [dialog.form EXCEPT !["extra"] = Nothing]]
    <3>1. CASE LoadAnswers(r)
      BY <3>1 DEF LoadAnswers
    <3>2. CASE LoadArrives(r)
      <4>1. \/ dialog' = [dialog EXCEPT !.form.extra = loads[r].answer, !.unset = FALSE]
            \/ dialog' = dialog
        BY <3>2, Zenon DEF LoadArrives
      <4> QED
        BY <4>1
    <3>3. CASE LoadFails(r)
      <4>1. dialog' = [dialog EXCEPT !.form.extra = Nothing] \/ dialog' = dialog
        BY <3>3, Zenon DEF LoadFails
      <4> QED
        BY <4>1
    <3> QED
      BY <1>9, <3>1, <3>2, <3>3, Zenon
  <2>5. /\ [dialog.form EXCEPT !["extra"] = loads[r].answer] \in Forms
        /\ [dialog.form EXCEPT !["extra"] = Nothing] \in Forms
    BY DialogTypes, FormTypes, CellTypes DEF Fields
  <2>6. dialog' \in Dialogs
    BY <2>4, <2>5, DialogTypes DEF Dialogs
  <2> QED
    BY <1>1, <2>2, <2>3, <2>6 DEF Typed
<1>10. CASE UNCHANGED vars
  BY <1>1, <1>10 DEF vars, Typed
<1> QED
  BY <1>2, <1>3, <1>4, <1>5, <1>6, <1>7, <1>8, <1>9, <1>10

LEMMA TypedNext == Typed /\ [Next]_vars => Typed'
BY NextStores, DialogsTyped, RequestsTyped, OthersTyped DEF Next

------------------------------------------------------------------------------
(* The table shows what this page has written.                              *)

LEMMA StoredGrows ==
    ASSUME Typed, StoredSteps, NEW r \in Records
    PROVE  /\ stored[r].version \in Nat /\ stored'[r].version \in Nat
           /\ stored[r].version <= stored'[r].version
<1>1. stored[r] \in Contents /\ stored'[r] \in Contents /\ StoredStep(r)
  BY DEF StoredSteps, Typed, Tables
<1>2. stored[r].version \in Nat /\ stored'[r].version \in Nat
  BY <1>1 DEF Contents
<1>3. \/ stored'[r] = stored[r]
      \/ stored'[r] = Gone(stored[r])
      \/ \E form : stored'[r] = Written(stored[r], form)
      \/ \E t : stored'[r] = Extended(stored[r], t)
  BY <1>1, Zenon DEF StoredStep
<1>4. /\ Gone(stored[r]).version = stored[r].version + 1
      /\ \A form : Written(stored[r], form).version = stored[r].version + 1
      /\ \A t : Extended(stored[r], t).version = stored[r].version
  BY <1>1 DEF Gone, Written, Content, Extended, Contents
<1> QED
  BY <1>2, <1>3, <1>4

\* The write of r that this page has noted is the one of before.
SameWrite(r) == r \notin unlisted /\ ~Pending(r) /\ mine'[r] = mine[r]

LEMMA ListStays ==
    ASSUME Typed, ListInv, UNCHANGED list, MineIsStored', NothingChecked',
           \A r \in Records \ unlisted' : ~Pending(r)' => SameWrite(r)
    PROVE  ListInv'
<1>1. FetchedIsStale'
  BY DEF ListInv, FetchedIsStale
<1>2. ASSUME NEW r \in Records \ unlisted', ~Pending(r)'
      PROVE  Listed(r)'
  <2>1. r \in Records \ unlisted /\ ~Pending(r) /\ mine'[r] = mine[r]
    BY <1>2 DEF SameWrite
  <2>2. Listed(r)
    BY <2>1 DEF ListInv
  <2> QED
    BY <2>1, <2>2 DEF Listed
<1> QED
  BY <1>1, <1>2 DEF ListInv

\* A table that is not to be fetched anew has a fetch in flight, for the first
\* time.
LEMMA ListRefreshes ==
    ASSUME Typed, ListInv, list' = ListRefreshed, MineIsStored', NothingChecked',
           ~list.loaded =>
             \A r \in Records \ unlisted' : ~Pending(r)' => SameWrite(r)
    PROVE  ListInv'
<1>1. CASE list.fetch # "idle" /\ ~list.loaded
  <2>1. /\ list'.fetch = list.fetch /\ list'.stale
        /\ list'.answer = list.answer /\ list'.data = list.data
    BY <1>1 DEF ListRefreshed, Refetched, Invalidated, Typed, Queries
  <2>2. ASSUME NEW r \in Records \ unlisted', ~Pending(r)'
        PROVE  Listed(r)'
    <3>1. r \in Records \ unlisted /\ ~Pending(r) /\ mine'[r] = mine[r]
      BY <1>1, <2>2 DEF SameWrite
    <3>2. Listed(r)
      BY <3>1 DEF ListInv
    <3> QED
      BY <2>1, <3>1, <3>2 DEF Listed
  <2> QED
    BY <2>1, <2>2 DEF ListInv, FetchedIsStale
<1>2. CASE ~(list.fetch # "idle" /\ ~list.loaded)
  <2>1. list'.fetch = "sent" /\ list'.stale
    BY <1>2 DEF ListRefreshed, Refetched, Typed, Queries
  <2> QED
    BY <2>1 DEF ListInv, FetchedIsStale, Listed
<1> QED
  BY <1>1, <1>2

\* Nothing happens to the table or to what this page has written.
LEMMA ListQuiet ==
    ASSUME Typed, ListInv, StoredSteps,
           UNCHANGED <<list, mine, unlisted, bulk>>,
           \A r \in Records : Pending(r) => Pending(r)'
    PROVE  ListInv'
<1>1. MineIsStored'
  <2>1. ASSUME NEW r \in Records
        PROVE  mine'[r] <= stored'[r].version
    <3>1. mine[r] \in Nat /\ mine[r] <= stored[r].version
      BY DEF ListInv, MineIsStored, Typed
    <3> QED
      BY <3>1, StoredGrows
  <2> QED
    BY <2>1 DEF MineIsStored
<1>2. NothingChecked'
  BY DEF ListInv, NothingChecked
<1> QED
  BY <1>1, <1>2, ListStays DEF SameWrite

LEMMA QuietSteps ==
    ASSUME Typed, ListInv, StoredSteps,
           \/ OpensCreate \/ Cancels \/ Saves \/ SaveArrives \/ SaveFails
           \/ RefreshEnds \/ ExtraArrives \/ QuickSends \/ QuickEnds \/ QuickFails
           \/ UNCHANGED vars
           \/ \E f \in DOMAIN EmptyForm : Types(f)
           \/ \E r \in Records :
                \/ OpensEdit(r) \/ OpensClone(r) \/ ConfirmsDelete(r)
                \/ DeletionArrives(r) \/ OthersDelete(r)
                \/ LoadAnswers(r) \/ LoadArrives(r) \/ LoadFails(r)
    PROVE  ListInv'
<1> DEFINE Quiet == UNCHANGED <<page, list, mine, unlisted, bulk>>
<1>1. ASSUME Quiet, UNCHANGED request
      PROVE  ListInv'
  BY <1>1, ListQuiet DEF Pending
<1>2. ASSUME Quiet,
             request.phase \notin {"second", "secondDone", "secondFailed"}
      PROVE  ListInv'
  BY <1>2, ListQuiet DEF Pending
<1>3. CASE \/ OpensCreate \/ Cancels \/ QuickSends \/ QuickEnds \/ QuickFails
           \/ UNCHANGED vars
           \/ \E f \in DOMAIN EmptyForm : Types(f)
  BY <1>1, <1>3 DEF OpensCreate, Cancels, QuickSends, QuickEnds, QuickFails, Types,
     vars
<1>4. ASSUME NEW r \in Records,
             \/ OpensEdit(r) \/ OpensClone(r) \/ ConfirmsDelete(r)
             \/ DeletionArrives(r) \/ OthersDelete(r)
             \/ LoadAnswers(r) \/ LoadArrives(r) \/ LoadFails(r)
      PROVE  ListInv'
  <2>1. Quiet /\ UNCHANGED request
    BY <1>4, Zenon DEF OpensEdit, OpensClone, ConfirmsDelete, DeletionArrives,
       OthersDelete, LoadAnswers, LoadArrives, LoadFails
  <2> QED
    BY <1>1, <2>1
<1>5. CASE Saves
  <2>1. request.phase = "idle" /\ Quiet
    BY <1>5, SaveOffered DEF Saves
  <2> QED
    BY <1>2, <2>1
<1>6. CASE SaveArrives
  <2>1. request.phase = "sent" /\ Quiet
    BY <1>6, SaveArrivesCases, Zenon
  <2> QED
    BY <1>2, <2>1
<1>7. CASE SaveFails
  BY <1>2, <1>7 DEF SaveFails
<1>8. CASE RefreshEnds
  BY <1>2, <1>8 DEF RefreshEnds
<1>9. CASE ExtraArrives
  <2>1. /\ request.phase = "second" /\ Quiet
        /\ \/ request' = [request EXCEPT !.phase = "secondDone"]
           \/ request' = [request EXCEPT !.phase = "secondFailed"]
    BY <1>9, Zenon DEF ExtraArrives
  <2>2. /\ request'.of = request.of
        /\ request'.phase \in {"second", "secondDone", "secondFailed"}
    BY <2>1, DialogTypes DEF Requests
  <2> QED
    BY <2>1, <2>2, ListQuiet DEF Pending
<1> QED
  BY <1>3, <1>4, <1>5, <1>6, <1>7, <1>8, <1>9

\* The page has noted its write of r, the newest one of that record.
LEMMA NotedIsStored ==
    ASSUME Typed, MineIsStored, UNCHANGED stored, NEW r \in Records, Noted(r)
    PROVE  /\ MineIsStored'
           /\ ~list.loaded => unlisted' = unlisted \cup {r}
           /\ unlisted \subseteq unlisted'
           /\ \A s \in Records \ {r} : mine'[s] = mine[s]
<1>1. mine \in [Records -> Nat] /\ mine' = [mine EXCEPT ![r] = stored[r].version]
  BY DEF Noted, Typed
<1>2. stored[r].version \in Nat
  BY CellTypes
<1> QED
  BY <1>1, <1>2 DEF Noted, MineIsStored, Typed

LEMMA SaveEndsListed ==
    ASSUME Typed, ListInv, SaveEnds
    PROVE  ListInv'
<1>1. Shape(page)
  BY PageFacts DEF Typed
<1> DEFINE r == request.of
<1>2. /\ request.phase = "done" /\ Noted(r) /\ UNCHANGED <<page, stored, bulk>>
      /\ r \in Records
  BY <1>1, SaveEndsCases DEF Typed, RequestNamed
<1>3. /\ MineIsStored' /\ NothingChecked'
      /\ unlisted \subseteq unlisted'
      /\ ~list.loaded => r \in unlisted'
      /\ \A s \in Records \ {r} : mine'[s] = mine[s]
  BY <1>2, NotedIsStored DEF ListInv, NothingChecked
<1>4. \A s \in Records : Pending(s) => Pending(s)'
  BY <1>2 DEF Pending
<1>5. CASE list' = ListRefreshed
  <2>1. ASSUME ~list.loaded, NEW s \in Records \ unlisted', ~Pending(s)'
        PROVE  SameWrite(s)
    BY <1>3, <1>4, <2>1 DEF SameWrite
  <2> QED
    BY <1>3, <1>5, <2>1, ListRefreshes
<1>6. CASE /\ page.extra = "before" /\ UNCHANGED list
           /\ \/ request' = [request EXCEPT !.phase = "secondDone"]
              \/ request' = Second
  <2>1. request'.of = r /\ request'.phase \in {"second", "secondDone"}
    BY <1>6, DialogTypes DEF Second, Requests
  <2>2. ASSUME NEW s \in Records, ~Pending(s)'
        PROVE  s # r
    BY <1>2, <1>6, <2>1, <2>2 DEF Pending
  <2>3. ASSUME NEW s \in Records \ unlisted', ~Pending(s)'
        PROVE  SameWrite(s)
    <3>1. s # r
      BY <2>2, <2>3
    <3> QED
      BY <1>3, <1>4, <2>3, <3>1 DEF SameWrite
  <2> QED
    BY <1>3, <1>6, <2>3, ListStays
<1> QED
  BY <1>1, <1>5, <1>6, SaveEndsCases, Zenon

LEMMA DeletionEndsListed ==
    ASSUME Typed, ListInv, NEW r \in Records, DeletionEnds(r)
    PROVE  ListInv'
<1>1. Noted(r) /\ list' = ListRefreshed /\ UNCHANGED <<page, stored, request, bulk>>
  BY DEF DeletionEnds
<1>2. /\ MineIsStored' /\ NothingChecked'
      /\ unlisted \subseteq unlisted'
      /\ ~list.loaded => r \in unlisted'
      /\ \A s \in Records \ {r} : mine'[s] = mine[s]
  BY <1>1, NotedIsStored DEF ListInv, NothingChecked
<1>3. \A s \in Records : Pending(s)' <=> Pending(s)
  BY <1>1 DEF Pending
<1>4. ASSUME ~list.loaded, NEW s \in Records \ unlisted', ~Pending(s)'
      PROVE  SameWrite(s)
  BY <1>2, <1>3, <1>4 DEF SameWrite
<1> QED
  BY <1>1, <1>2, <1>4, ListRefreshes

LEMMA ExtraStepsListed ==
    ASSUME Typed, ListInv, ExtraEnds \/ ExtraFails
    PROVE  ListInv'
<1>1. /\ request' = NoRequest /\ UNCHANGED <<page, stored, bulk, mine>>
      /\ unlisted \subseteq unlisted'
  BY Zenon DEF ExtraEnds, ExtraFails
<1>2. MineIsStored' /\ NothingChecked'
  BY <1>1 DEF ListInv, MineIsStored, NothingChecked
<1>3. \A s \in Records : ~Pending(s)' => s \notin bulk.done
  BY <1>1 DEF Pending
<1>4. \A s \in Records : Pending(s) => \/ s \in bulk.done
                                       \/ page.extra = "before" /\ s = request.of
  BY DEF Pending
<1>5. CASE ExtraEnds /\ page.extra = "before"
  <2>1. /\ list' = ListRefreshed
        /\ ~list.loaded => unlisted' = unlisted \cup {request.of}
    BY <1>5, Zenon DEF ExtraEnds
  <2>2. ASSUME ~list.loaded, NEW s \in Records \ unlisted', ~Pending(s)'
        PROVE  SameWrite(s)
    <3>1. s # request.of /\ s \notin unlisted
      BY <2>1, <2>2
    <3> QED
      BY <1>1, <1>3, <1>4, <2>2, <3>1 DEF SameWrite
  <2> QED
    BY <1>2, <2>1, <2>2, ListRefreshes
<1>6. CASE ExtraFails \/ page.extra # "before"
  <2>1. /\ UNCHANGED list
        /\ page.extra = "before" => unlisted' = unlisted \cup {request.of}
    BY <1>6, Zenon DEF ExtraEnds, ExtraFails
  <2>2. ASSUME NEW s \in Records \ unlisted', ~Pending(s)'
        PROVE  SameWrite(s)
    <3>1. s \notin unlisted /\ (page.extra = "before" => s # request.of)
      BY <1>1, <2>1, <2>2
    <3> QED
      BY <1>1, <1>3, <1>4, <2>2, <3>1 DEF SameWrite
  <2> QED
    BY <1>2, <2>1, <2>2, ListStays
<1> QED
  BY <1>5, <1>6

LEMMA BulkGoesOnListed ==
    ASSUME Typed, ListInv, StoredSteps, NEW r \in Records, BulkGoesOn(r)
    PROVE  ListInv'
<1>1. UNCHANGED <<page, list, request>> /\ r \in bulk.rest
  BY Zenon DEF BulkGoesOn
<1>2. CASE stored[r].there
  <2>1. /\ stored' = [stored EXCEPT ![r] = IF bulk.kind = "delete" THEN Gone(stored[r])
                                           ELSE Written(stored[r], stored[r].form)]
        /\ bulk' = [bulk EXCEPT !.rest = bulk.rest \ {r}, !.done = bulk.done \cup {r}]
        /\ mine' = [mine EXCEPT ![r] = stored[r].version + 1]
        /\ unlisted' = unlisted
    BY <1>2 DEF BulkGoesOn
  <2>2. stored'[r].version = stored[r].version + 1
    BY <2>1, CellTypes DEF Typed, Tables, Gone, Written, Content
  <2>3. /\ mine' \in [Records -> Nat] /\ mine'[r] = stored'[r].version
        /\ \A s \in Records \ {r} : mine'[s] = mine[s]
    BY <2>1, <2>2, CellTypes DEF Typed
  <2>4. /\ bulk'.kind = bulk.kind /\ bulk'.done = bulk.done \cup {r}
        /\ bulk.kind # "none"
    BY <1>1, <2>1 DEF Typed, ListInv, NothingChecked
  <2>5. MineIsStored'
    <3>1. ASSUME NEW s \in Records \ {r}
          PROVE  mine'[s] <= stored'[s].version
      <4>1. mine[s] \in Nat /\ mine[s] <= stored[s].version
        BY DEF Typed, ListInv, MineIsStored
      <4> QED
        BY <2>3, <4>1, StoredGrows
    <3>2. mine'[r] <= stored'[r].version
      BY <2>3, StoredGrows
    <3> QED
      BY <3>1, <3>2 DEF MineIsStored
  <2>6. NothingChecked'
    BY <2>4 DEF NothingChecked
  <2>7. ASSUME NEW s \in Records \ unlisted', ~Pending(s)'
        PROVE  SameWrite(s)
    <3>1. s # r /\ ~Pending(s)
      BY <1>1, <2>4, <2>7 DEF Pending
    <3> QED
      BY <2>1, <2>3, <2>7, <3>1 DEF SameWrite
  <2> QED
    BY <1>1, <2>5, <2>6, <2>7, ListStays
<1>3. CASE ~stored[r].there
  <2>1. /\ bulk' = NoBulk /\ unlisted' = unlisted \cup bulk.done
        /\ UNCHANGED <<stored, mine>>
    BY <1>3, Zenon DEF BulkGoesOn
  <2>2. MineIsStored' /\ NothingChecked'
    BY <2>1 DEF ListInv, MineIsStored, NothingChecked, NoBulk
  <2>3. ASSUME NEW s \in Records \ unlisted', ~Pending(s)'
        PROVE  SameWrite(s)
    BY <1>1, <2>1, <2>3 DEF SameWrite, Pending
  <2> QED
    BY <1>1, <2>2, <2>3, ListStays
<1> QED
  BY <1>2, <1>3

LEMMA BulkStepsListed ==
    ASSUME Typed, ListInv, StoredSteps,
           \/ BulkEnds \/ BulkFails
           \/ \E kind \in {"edit", "delete"}, rows \in SUBSET Records :
                BulkStarts(kind, rows)
    PROVE  ListInv'
<1>1. CASE BulkEnds \/ BulkFails
  <2>1. /\ bulk' = NoBulk /\ UNCHANGED <<page, stored, request, mine>>
        /\ unlisted \subseteq unlisted'
        /\ \/ UNCHANGED list /\ unlisted' = unlisted \cup bulk.done
           \/ /\ list' = ListRefreshed
              /\ ~list.loaded => unlisted' = unlisted \cup bulk.done
    BY <1>1 DEF BulkEnds, BulkFails
  <2>2. MineIsStored' /\ NothingChecked'
    BY <2>1 DEF ListInv, MineIsStored, NothingChecked, NoBulk
  <2>3. ASSUME unlisted' = unlisted \cup bulk.done,
               NEW s \in Records \ unlisted', ~Pending(s)'
        PROVE  SameWrite(s)
    BY <2>1, <2>3 DEF SameWrite, Pending
  <2>4. CASE UNCHANGED list /\ unlisted' = unlisted \cup bulk.done
    BY <2>2, <2>3, <2>4, ListStays
  <2>5. CASE /\ list' = ListRefreshed
             /\ ~list.loaded => unlisted' = unlisted \cup bulk.done
    BY <2>2, <2>3, <2>5, ListRefreshes
  <2> QED
    BY <2>1, <2>4, <2>5
<1>2. ASSUME NEW kind \in {"edit", "delete"}, NEW rows \in SUBSET Records,
             BulkStarts(kind, rows)
      PROVE  ListInv'
  <2>1. /\ bulk.kind = "none" /\ bulk' = [kind |-> kind, rest |-> rows, done |-> {}]
        /\ UNCHANGED <<page, stored, list, request, mine, unlisted>>
    BY <1>2 DEF BulkStarts
  <2>2. bulk.done = {} /\ MineIsStored' /\ NothingChecked'
    BY <1>2, <2>1 DEF ListInv, MineIsStored, NothingChecked
  <2>3. \A s \in Records : Pending(s)' <=> Pending(s)
    BY <2>1, <2>2 DEF Pending
  <2> QED
    BY <2>1, <2>2, <2>3, ListStays DEF SameWrite
<1> QED
  BY <1>1, <1>2

LEMMA ListFetched ==
    ASSUME Typed, ListInv, ListAnswers \/ ListArrives \/ ListFails
    PROVE  ListInv'
<1>1. /\ UNCHANGED <<page, stored, request, bulk, mine, unlisted>>
      /\ list.fetch # "idle" /\ list.stale
  BY DEF ListAnswers, ListArrives, ListFails, ListInv, FetchedIsStale
<1>2. MineIsStored' /\ NothingChecked' /\ \A s \in Records : Pending(s)' <=> Pending(s)
  BY <1>1 DEF ListInv, MineIsStored, NothingChecked, Pending
<1>3. CASE ListAnswers
  <2>1. list'.fetch = "answered" /\ list'.answer = stored /\ list'.stale
    BY <1>1, <1>3 DEF ListAnswers, Answered, Typed, Queries
  <2>2. \A s \in Records : Listed(s)'
    BY <1>1, <2>1 DEF ListInv, MineIsStored, Listed
  <2> QED
    BY <1>2, <2>1, <2>2 DEF ListInv, FetchedIsStale
<1>4. CASE ListArrives
  <2>1. /\ list.fetch = "answered" /\ list'.fetch = "idle"
        /\ list'.data = list.answer
    BY <1>4 DEF ListArrives, Delivered
  <2>2. ASSUME NEW s \in Records \ unlisted', ~Pending(s)'
        PROVE  Listed(s)'
    <3>1. Listed(s)
      BY <1>1, <1>2, <2>2 DEF ListInv
    <3> QED
      BY <1>1, <2>1, <3>1 DEF Listed
  <2> QED
    BY <1>2, <2>1, <2>2 DEF ListInv, FetchedIsStale
<1>5. CASE ListFails
  <2>1. list'.fetch = "idle" /\ list'.stale
    BY <1>1, <1>5 DEF ListFails, FetchFailed, Typed, Queries
  <2> QED
    BY <1>2, <2>1 DEF ListInv, FetchedIsStale, Listed
<1> QED
  BY <1>3, <1>4, <1>5

LEMMA ListInvNext == Typed /\ ListInv /\ [Next]_vars => ListInv'
BY NextStores, QuietSteps, SaveEndsListed, DeletionEndsListed, ExtraStepsListed,
   BulkGoesOnListed, BulkStepsListed, ListFetched DEF Next

LEMMA ListInvInit == Init => ListInv
<1>1. Init => list.fetch = "sent" /\ list.stale
  BY DEF Init, Fetched, Unfetched
<1>2. Init => NothingChecked
  BY DEF Init, NoBulk, NothingChecked
<1>3. Init => MineIsStored
  <2> SUFFICES ASSUME Init
               PROVE  MineIsStored
    OBVIOUS
  <2>1. mine = [r \in Records |-> 0]
    BY Zenon DEF Init
  <2> QED
    BY <2>1, TypedInit, CellTypes DEF MineIsStored
<1> QED
  BY <1>1, <1>2, <1>3 DEF ListInv, FetchedIsStale, Listed

------------------------------------------------------------------------------
(* What a step may do to the dialog, the table and what is on its way.      *)

\* Something else is put in the editor of the extra thing.
ExtraPut ==
    \E t \in Texts, u \in BOOLEAN :
      dialog' = [dialog EXCEPT !.form = [dialog.form EXCEPT !["extra"] = t],
                               !.unset = u]

DialogStep ==
    \/ UNCHANGED <<dialog, crossed>>
    \/ UNCHANGED dialog /\ crossed \subseteq crossed'
    \/ ExtraPut /\ crossed \subseteq crossed'
    \/ OpensCreate \/ Cancels \/ ClosesDialog \/ QuickEnds
    \/ \E f \in DOMAIN EmptyForm : Types(f)
    \/ \E r \in Records : OpensEdit(r) \/ OpensClone(r)

LEMMA ExtraPuts ==
    ASSUME Typed, NEW t \in Texts
    PROVE  /\ dialog' = [dialog EXCEPT !.form.extra = t] => ExtraPut
           /\ dialog' = [dialog EXCEPT !.form.extra = t, !.unset = FALSE] => ExtraPut
<1>1. dialog \in Dialogs /\ dialog.unset \in BOOLEAN
  BY DEF Typed, Dialogs
<1>2. ASSUME dialog' = [dialog EXCEPT !.form.extra = t]
      PROVE  dialog' = [dialog EXCEPT !.form = [dialog.form EXCEPT !["extra"] = t],
                                      !.unset = dialog.unset]
  BY <1>1, <1>2 DEF Dialogs
<1>3. ASSUME dialog' = [dialog EXCEPT !.form.extra = t, !.unset = FALSE]
      PROVE  dialog' = [dialog EXCEPT !.form = [dialog.form EXCEPT !["extra"] = t],
                                      !.unset = FALSE]
  BY <1>1, <1>3 DEF Dialogs
<1> QED
  BY <1>1, <1>2, <1>3, Zenon DEF ExtraPut

LEMMA NextDialog ==
    ASSUME Typed, [Next]_vars
    PROVE  DialogStep /\ UNCHANGED page
<1> USE DEF DialogStep
<1>1. CASE \/ OpensCreate \/ Cancels \/ QuickEnds
           \/ \E f \in DOMAIN EmptyForm : Types(f)
  BY <1>1, Zenon DEF OpensCreate, Cancels, QuickEnds, Types
<1>2. ASSUME NEW r \in Records, OpensEdit(r) \/ OpensClone(r)
      PROVE  DialogStep /\ UNCHANGED page
  BY <1>2, Zenon DEF OpensEdit, OpensClone
<1>3. CASE \/ Saves \/ SaveFails \/ ExtraArrives \/ ExtraFails \/ QuickSends
           \/ QuickFails \/ BulkEnds \/ BulkFails \/ ListAnswers \/ ListArrives
           \/ ListFails \/ UNCHANGED vars
           \/ \E kind \in {"edit", "delete"}, rows \in SUBSET Records :
                BulkStarts(kind, rows)
  <2>1. CASE Saves
    BY <2>1 DEF Saves
  <2>2. CASE UNCHANGED vars
    BY <2>2 DEF vars
  <2> QED
    BY <1>3, <2>1, <2>2, Zenon DEF SaveFails, ExtraArrives, ExtraFails, QuickSends,
       QuickFails, BulkEnds, BulkFails, ListAnswers, ListArrives, ListFails, BulkStarts
<1>4. CASE SaveArrives
  BY <1>4, SaveArrivesCases, Zenon
<1>5. CASE SaveEnds
  <2>1. Shape(page)
    BY PageFacts DEF Typed
  <2> QED
    BY <1>5, <2>1, SaveEndsCases, Zenon
<1>6. CASE RefreshEnds \/ ExtraEnds
  BY <1>6, Zenon DEF RefreshEnds, ExtraEnds
<1>7. ASSUME NEW r \in Records,
             \/ ConfirmsDelete(r) \/ DeletionArrives(r) \/ DeletionEnds(r)
             \/ BulkGoesOn(r) \/ OthersDelete(r) \/ LoadAnswers(r)
      PROVE  DialogStep /\ UNCHANGED page
  BY <1>7, Zenon DEF ConfirmsDelete, DeletionArrives, DeletionEnds, BulkGoesOn,
     OthersDelete, LoadAnswers
<1>8. ASSUME NEW r \in Records, LoadArrives(r)
      PROVE  DialogStep /\ UNCHANGED page
  <2>1. /\ UNCHANGED <<page, crossed>>
        /\ \/ UNCHANGED dialog
           \/ dialog' = [dialog EXCEPT !.form.extra = loads[r].answer, !.unset = FALSE]
    BY <1>8, Zenon DEF LoadArrives
  <2>2. loads[r].answer \in Texts
    BY CellTypes
  <2>3. UNCHANGED dialog \/ ExtraPut
    BY <2>1, <2>2, ExtraPuts, Zenon
  <2> QED
    BY <2>1, <2>3
<1>9. ASSUME NEW r \in Records, LoadFails(r)
      PROVE  DialogStep /\ UNCHANGED page
  <2>1. /\ UNCHANGED page
        /\ UNCHANGED dialog \/ dialog' = [dialog EXCEPT !.form.extra = Nothing]
        /\ crossed' = IF page.extra = "before" THEN crossed \cup {"extra"} ELSE crossed
    BY <1>9, Zenon DEF LoadFails
  <2>2. crossed \subseteq crossed'
    BY <2>1
  <2>3. UNCHANGED dialog \/ ExtraPut
    BY <2>1, ExtraPuts, TextTypes, Zenon
  <2> QED
    BY <2>1, <2>2, <2>3
<1> QED
  BY <1>1, <1>2, <1>3, <1>4, <1>5, <1>6, <1>7, <1>8, <1>9 DEF Next

LEMMA CrossedGrows ==
    ASSUME Typed, DialogStep
    PROVE  crossed \subseteq crossed'
<1>1. CASE ClosesDialog
  BY <1>1, ClosesTypes
<1>2. CASE Cancels
  BY <1>2 DEF Cancels, Crossing
<1>3. CASE OpensCreate \/ QuickEnds \/ \E f \in DOMAIN EmptyForm : Types(f)
  BY <1>3, Zenon DEF OpensCreate, QuickEnds, Types
<1>4. ASSUME NEW r \in Records, OpensEdit(r) \/ OpensClone(r)
      PROVE  UNCHANGED crossed
  BY <1>4, Zenon DEF OpensEdit, OpensClone
<1> QED
  BY <1>1, <1>2, <1>3, <1>4 DEF DialogStep

ListStep ==
    \/ UNCHANGED list
    \/ list' = ListRefreshed
    \/ list' = Answered(list, stored)
    \/ list.fetch = "answered" /\ list' = Delivered(list, Blank)
    \/ list' = FetchFailed(list)

LEMMA NextList ==
    ASSUME Typed, [Next]_vars
    PROVE  ListStep
<1> USE DEF ListStep
<1>1. CASE SaveArrives
  BY <1>1, SaveArrivesCases, Zenon
<1>2. CASE SaveEnds
  <2>1. Shape(page)
    BY PageFacts DEF Typed
  <2> QED
    BY <1>2, <2>1, SaveEndsCases, Zenon
<1>3. CASE \/ OpensCreate \/ Cancels \/ Saves \/ SaveFails \/ RefreshEnds
           \/ ExtraArrives \/ ExtraEnds \/ ExtraFails \/ QuickSends \/ QuickEnds
           \/ QuickFails \/ BulkEnds \/ BulkFails \/ ListAnswers \/ ListArrives
           \/ ListFails \/ UNCHANGED vars
           \/ \E f \in DOMAIN EmptyForm : Types(f)
           \/ \E kind \in {"edit", "delete"}, rows \in SUBSET Records :
                BulkStarts(kind, rows)
  <2>1. CASE UNCHANGED vars
    BY <2>1 DEF vars
  <2> QED
    BY <1>3, <2>1, Zenon DEF OpensCreate, Cancels, Saves, SaveFails, RefreshEnds,
       ExtraArrives, ExtraEnds, ExtraFails, QuickSends, QuickEnds, QuickFails,
       BulkEnds, BulkFails, ListAnswers, ListArrives, ListFails, Types, BulkStarts
<1>4. ASSUME NEW r \in Records,
             \/ OpensEdit(r) \/ OpensClone(r)
             \/ ConfirmsDelete(r) \/ DeletionArrives(r) \/ DeletionEnds(r)
             \/ BulkGoesOn(r) \/ OthersDelete(r) \/ LoadAnswers(r) \/ LoadArrives(r)
             \/ LoadFails(r)
      PROVE  ListStep
  BY <1>4, Zenon DEF OpensEdit, OpensClone, ConfirmsDelete, DeletionArrives,
     DeletionEnds, BulkGoesOn, OthersDelete, LoadAnswers, LoadArrives, LoadFails
<1> QED
  BY <1>1, <1>2, <1>3, <1>4 DEF Next

------------------------------------------------------------------------------
(* The texts stay with their records.                                       *)

LEMMA FitsStays ==
    ASSUME NEW p, NEW c, NEW d, c \subseteq d, NEW form, NEW r,
           FormFits(form, r, p, c)
    PROVE  FormFits(form, r, p, d)
BY DEF FormFits, TextFits, SecretFits, LinkFits

\* What is written into a record is for that record.
LEMMA StoredFits ==
    ASSUME Typed, StoredSteps, TablesFit, RequestFits,
           UNCHANGED page, crossed \subseteq crossed'
    PROVE  TableFits(stored', page', crossed')
<1> SUFFICES ASSUME NEW r \in Records, stored'[r].there
             PROVE  FormFits(stored'[r].form, r, page', crossed')
  BY DEF TableFits
<1>0. /\ StoredStep(r) /\ stored[r] \in Contents /\ stored[r].form \in Forms
      /\ stored[r].there => FormFits(stored[r].form, r, page, crossed)
  BY CellTypes DEF StoredSteps, TablesFit, TableFits
<1>1. CASE stored'[r] = stored[r]
  BY <1>0, <1>1, FitsStays
<1>2. CASE stored'[r] = Gone(stored[r])
  BY <1>2 DEF Gone, Content
<1>3. CASE stored[r].there /\ stored'[r] = Written(stored[r], stored[r].form)
  BY <1>0, <1>3, FitsStays DEF Written, Content
<1>4. CASE /\ request.phase = "sent" /\ r = request.of
           /\ stored[r].there
           /\ stored'[r] = Written(stored[r], Updated(stored[r].form, request.form))
  <2> DEFINE new == Updated(stored[r].form, request.form)
  <2>1. FormFits(request.form, r, page, crossed) /\ FormFits(stored[r].form, r, page, crossed)
    BY <1>0, <1>4 DEF RequestFits
  <2>2. /\ new["text"] = request.form["text"] /\ new["link"] = request.form["link"]
        /\ new["secret"] \in {request.form["secret"], stored[r].form["secret"]}
    BY <1>0 DEF Updated, Forms, Fields
  <2>3. FormFits(new, r, page, crossed)
    BY <2>1, <2>2 DEF FormFits
  <2>4. stored'[r].form = new
    BY <1>4 DEF Written, Content
  <2> HIDE DEF new
  <2> QED
    BY <2>3, <2>4, FitsStays
<1>5. CASE /\ request.phase = "sent" /\ request.new
           /\ stored'[r] = Written(stored[r], BornForm(r))
  <2>1. FormFits(request.form, 0, page, crossed)
    BY <1>5 DEF RequestFits, Typed, RequestNamed
  <2>2. /\ BornForm(r)["text"] = Named(r, request.form["text"])
        /\ BornForm(r)["link"] = Named(r, request.form["link"])
        /\ BornForm(r)["secret"] = Named(r, request.form["secret"])
    BY TextTypes DEF BornForm, Fields
  <2>3. TextFits(BornForm(r)["text"], r, page, crossed)
    BY <2>1, <2>2 DEF FormFits, TextFits, Named, Text
  <2>4. LinkFits(BornForm(r)["link"], r, crossed)
    BY <2>1, <2>2 DEF FormFits, LinkFits, Named, Text
  <2>5. SecretFits(BornForm(r)["secret"], r, page)
    BY <2>1, <2>2 DEF FormFits, SecretFits, Named, Text, Nothing
  <2>6. FormFits(BornForm(r), r, page, crossed)
    BY <2>3, <2>4, <2>5 DEF FormFits
  <2>7. stored'[r].form = BornForm(r)
    BY <1>5 DEF Written, Content
  <2> QED
    BY <2>6, <2>7, FitsStays
<1>6. ASSUME stored[r].there, NEW t, stored'[r] = Extended(stored[r], t)
      PROVE  FormFits(stored'[r].form, r, page', crossed')
  <2> DEFINE new == [stored[r].form EXCEPT !["extra"] = t]
  <2>1. stored'[r].form = new
    BY <1>0, <1>6 DEF Extended, Contents
  <2>2. /\ new["text"] = stored[r].form["text"]
        /\ new["secret"] = stored[r].form["secret"]
        /\ new["link"] = stored[r].form["link"]
    BY <1>0 DEF Forms, Fields
  <2>3. FormFits(new, r, page, crossed)
    BY <1>0, <1>6, <2>2 DEF FormFits
  <2> HIDE DEF new
  <2> QED
    BY <2>1, <2>3, FitsStays
<1> QED
  BY <1>0, <1>1, <1>2, <1>3, <1>4, <1>5, <1>6 DEF StoredStep

LEMMA TablesFitNext ==
    ASSUME Typed, StoredSteps, ListStep, TablesFit, RequestFits,
           UNCHANGED page, crossed \subseteq crossed'
    PROVE  TablesFit'
<1>0. ASSUME NEW table, TableFits(table, page, crossed)
      PROVE  TableFits(table, page', crossed')
  BY <1>0, FitsStays DEF TableFits
<1>1. TableFits(stored', page', crossed')
  BY StoredFits
<1>2. /\ TableFits(list'.data, page', crossed')
      /\ list'.fetch = "answered" => TableFits(list'.answer, page', crossed')
  <2>1. CASE UNCHANGED list
    BY <1>0, <2>1 DEF TablesFit
  <2>2. CASE list' = ListRefreshed
    <3>1. /\ list'.data = list.data
          /\ list'.fetch = "answered" => list.fetch = "answered"
          /\ list'.answer = list.answer
      BY <2>2 DEF ListRefreshed, Refetched, Invalidated, Typed, Queries
    <3> QED
      BY <1>0, <3>1 DEF TablesFit
  <2>3. CASE list' = Answered(list, stored)
    <3>1. list'.data = list.data /\ list'.answer = stored
      BY <2>3 DEF Answered, Typed, Queries
    <3> QED
      BY <1>0, <3>1 DEF TablesFit
  <2>4. CASE list.fetch = "answered" /\ list' = Delivered(list, Blank)
    <3>1. list'.data = list.answer /\ list'.fetch = "idle"
      BY <2>4 DEF Delivered
    <3> QED
      BY <1>0, <2>4, <3>1 DEF TablesFit
  <2>5. CASE list' = FetchFailed(list)
    <3>1. list'.data = list.data /\ list'.fetch = "idle"
      BY <2>5 DEF FetchFailed, Typed, Queries
    <3> QED
      BY <1>0, <3>1 DEF TablesFit
  <2> QED
    BY <2>1, <2>2, <2>3, <2>4, <2>5 DEF ListStep
<1> QED
  BY <1>1, <1>2 DEF TablesFit, TableFits

LEMMA EmptiedFields ==
    ASSUME NEW form \in Forms
    PROVE  /\ Emptied(form)["secret"] = Nothing
           /\ Emptied(form)["extra"] = form["extra"]
BY DEF Emptied, Forms, Fields

\* A dialog that is closed leaves a secret only where no other dialog has one.
LEMMA ClosedForm ==
    ASSUME Typed, FormInDialog, UNCHANGED page, ~dialog'.open, dialog'.of = dialog.of,
           \/ dialog'.form = Emptied(dialog.form)
           \/ dialog'.form = dialog.form /\
                (dialog.open => ~({"cancel", "success"} \subseteq page.resets))
    PROVE  FormInDialog'
<1>1. Shape(page) /\ dialog.form \in Forms
  BY PageFacts, DialogTypes DEF Typed
<1>2. ASSUME SecretGone'
      PROVE  dialog'.form["secret"] = Nothing
  <2>1. CASE dialog'.form = Emptied(dialog.form)
    BY <1>1, <2>1, EmptiedFields
  <2>2. CASE /\ dialog'.form = dialog.form
             /\ dialog.open => ~({"cancel", "success"} \subseteq page.resets)
    <3>1. SecretGone
      BY <1>1, <1>2, <2>2 DEF SecretGone, Shape
    <3> QED
      BY <2>2, <3>1 DEF FormInDialog
  <2> QED
    BY <2>1, <2>2
<1> QED
  BY <1>2 DEF FormInDialog

LEMMA OpenedForm ==
    ASSUME Typed, NEW r \in Records \cup {0}, NEW form \in Forms,
           NEW unset \in BOOLEAN, Opened(r, form, unset), UNCHANGED page,
           FormFits(form, r, page', crossed'),
           "secret" \notin page.fields => form["secret"] = Nothing
    PROVE  FormInDialog'
BY OpenedTypes DEF FormInDialog, SecretGone

LEMMA OpensEditForm ==
    ASSUME Typed, FormInDialog, TablesFit, NEW r \in Records, OpensEdit(r)
    PROVE  FormInDialog'
<1>1. ~dialog.open /\ list.data[r].there /\ UNCHANGED <<page, crossed>>
  BY OpensEditOpens, Zenon DEF OpensEdit
<1>2. PICK runs \in BOOLEAN : Opened(r, FilledFor(r, runs), ~runs)
  BY OpensEditOpens
<1> DEFINE form == FilledFor(r, runs)
<1>3. form \in Forms /\ FormFits(list.data[r].form, r, page, crossed)
  BY <1>1, FilledForType DEF TablesFit, TableFits
<1>4. /\ form["text"] = list.data[r].form["text"]
      /\ form["link"] = list.data[r].form["link"]
      /\ form["secret"] = IF SecretStays(page) THEN dialog.form["secret"] ELSE Nothing
  BY TextTypes DEF FilledFor, Fields, SecretStays
<1> HIDE DEF form
<1>5. page = GitRepos \/ form["secret"] = Nothing
  BY <1>1, <1>4 DEF FormInDialog, SecretGone
<1>6. "secret" \notin page.fields => form["secret"] = Nothing
  BY <1>1, <1>4 DEF FormInDialog, SecretGone
<1>7. FormFits(form, r, page', crossed')
  BY <1>1, <1>3, <1>4, <1>5 DEF FormFits, SecretFits
<1>8. PICK unset \in BOOLEAN : Opened(r, form, unset)
  BY <1>2 DEF form
<1>9. UNCHANGED page
  BY <1>1
<1> QED
  BY <1>3, <1>6, <1>7, <1>8, <1>9, OpenedForm

\* A new record, or a clone.
LEMMA OpensNewForm ==
    ASSUME Typed, OpensCreate \/ \E r \in Records : OpensClone(r)
    PROVE  FormInDialog'
<1>1. ASSUME NEW t \in Texts, t.of = 0, UNCHANGED page,
             Opened(0, [EmptyForm EXCEPT !["text"] = t], FALSE)
      PROVE  FormInDialog'
  <2> DEFINE form == [EmptyForm EXCEPT !["text"] = t]
  <2>1. /\ form \in Forms /\ form["text"] = t
        /\ form["link"] = Nothing /\ form["secret"] = Nothing
    BY TextTypes DEF Forms, EmptyForm, Fields
  <2>2. FormFits(form, 0, page', crossed')
    BY <1>1, <2>1 DEF FormFits, TextFits, LinkFits, SecretFits, Nothing, Text
  <2> QED
    BY <1>1, <2>1, <2>2, OpenedForm
<1>2. CASE OpensCreate
  <2>1. Opened(0, EmptyForm, FALSE) /\ UNCHANGED page
    BY <1>2 DEF OpensCreate, NewForm
  <2>2. EmptyForm = [EmptyForm EXCEPT !["text"] = Nothing]
    BY DEF EmptyForm
  <2>3. Nothing \in Texts /\ Nothing.of = 0
    BY TextTypes DEF Nothing, Text
  <2> QED
    BY <1>1, <2>1, <2>2, <2>3
<1>3. ASSUME NEW r \in Records, OpensClone(r)
      PROVE  FormInDialog'
  <2> DEFINE t == Text(0, list.data[r].form["text"].n)
  <2>1. list.data[r].form["text"] \in Texts
    BY CellTypes DEF Forms, Fields
  <2>2. t \in Texts /\ t.of = 0
    BY <2>1 DEF Text, Texts
  <2>3. Opened(0, [EmptyForm EXCEPT !["text"] = t], FALSE) /\ UNCHANGED page
    BY <1>3 DEF OpensClone
  <2> HIDE DEF t
  <2> QED
    BY <1>1, <2>2, <2>3
<1> QED
  BY <1>2, <1>3

LEMMA FormInDialogNext ==
    ASSUME Typed, FormInDialog, TablesFit, QuickInDialog, DialogStep, UNCHANGED page
    PROVE  FormInDialog'
<1>0. /\ crossed \subseteq crossed' /\ dialog \in Dialogs /\ dialog.form \in Forms
      /\ dialog.of \in Records \cup {0}
  BY CrossedGrows, DialogTypes
<1>1. ASSUME dialog'.of = dialog.of, dialog'.open = dialog.open,
             dialog'.form["text"] = dialog.form["text"],
             dialog'.form["secret"] = dialog.form["secret"],
             dialog'.form["link"] = dialog.form["link"]
      PROVE  FormInDialog'
  <2>1. SecretGone' <=> SecretGone
    BY <1>1 DEF SecretGone
  <2>2. FormFits(dialog.form, dialog.of, page, crossed) =>
          FormFits(dialog'.form, dialog'.of, page', crossed')
    BY <1>0, <1>1 DEF FormFits, TextFits, SecretFits, LinkFits
  <2> QED
    BY <1>1, <2>1, <2>2 DEF FormInDialog
<1>2. CASE UNCHANGED dialog
  BY <1>1, <1>2
<1>3. CASE ExtraPut
  <2>1. PICK t \in Texts, u \in BOOLEAN :
          dialog' = [dialog EXCEPT !.form = [dialog.form EXCEPT !["extra"] = t],
                                   !.unset = u]
    BY <1>3, Zenon DEF ExtraPut
  <2>2. /\ dialog'.of = dialog.of /\ dialog'.open = dialog.open
        /\ dialog'.form = [dialog.form EXCEPT !["extra"] = t]
    BY <1>0, <2>1 DEF Dialogs
  <2>3. \A f \in Fields \ {"extra"} : dialog'.form[f] = dialog.form[f]
    BY <1>0, <2>2 DEF Forms
  <2> QED
    BY <1>1, <2>2, <2>3 DEF Fields
<1>4. CASE Cancels
  <2>1. dialog' = [dialog EXCEPT !.open = FALSE,
                     !.form = IF "cancel" \in page.resets THEN Emptied(dialog.form)
                              ELSE dialog.form]
    BY <1>4 DEF Cancels
  <2>2. /\ ~dialog'.open /\ dialog'.of = dialog.of
        /\ dialog'.form = IF "cancel" \in page.resets THEN Emptied(dialog.form)
                          ELSE dialog.form
    BY <1>0, <2>1 DEF Dialogs
  <2> QED
    BY <2>2, ClosedForm
<1>5. CASE ClosesDialog
  <2>1. /\ ~dialog'.open /\ dialog'.of = dialog.of
        /\ dialog'.form = IF "success" \in page.resets THEN Emptied(dialog.form)
                          ELSE dialog.form
    BY <1>5, ClosesTypes
  <2> QED
    BY <2>1, ClosedForm
<1>6. ASSUME NEW f \in DOMAIN EmptyForm, Types(f)
      PROVE  FormInDialog'
  <2>1. /\ dialog.open /\ f \in page.fields /\ f # "link" /\ f \in Fields
        /\ dialog' = [dialog EXCEPT !.form =
                        [dialog.form EXCEPT ![f] = Text(dialog.of, texts + 1)]]
    BY <1>6, TypeOffered, TextTypes DEF Types
  <2>2. /\ dialog'.of = dialog.of /\ dialog'.open
        /\ dialog'.form = [dialog.form EXCEPT ![f] = Text(dialog.of, texts + 1)]
    BY <1>0, <2>1 DEF Dialogs
  <2>3. /\ \A g \in Fields \ {f} : dialog'.form[g] = dialog.form[g]
        /\ dialog'.form[f].of = dialog.of
    BY <1>0, <2>1, <2>2 DEF Forms, Text
  <2>4. FormFits(dialog.form, dialog.of, page, crossed)
    BY <2>1 DEF FormInDialog
  <2>5. FormFits(dialog'.form, dialog'.of, page', crossed')
    BY <1>0, <2>2, <2>3, <2>4 DEF FormFits, TextFits, SecretFits, LinkFits, Fields
  <2>6. SecretGone' => dialog'.form["secret"] = Nothing
    BY <2>1, <2>2, <2>3 DEF FormInDialog, SecretGone, Fields
  <2> QED
    BY <2>5, <2>6 DEF FormInDialog
<1>7. CASE QuickEnds
  <2> DEFINE f == IF page.quick = "link" THEN "link" ELSE "text"
  <2>1. /\ quick.phase = "sent" /\ UNCHANGED crossed
        /\ dialog' = [dialog EXCEPT !.form = [dialog.form EXCEPT ![f] = quick.text]]
    BY <1>7 DEF QuickEnds
  <2>2. /\ dialog'.of = dialog.of /\ dialog'.open = dialog.open
        /\ dialog'.form = [dialog.form EXCEPT ![f] = quick.text]
    BY <1>0, <2>1 DEF Dialogs
  <2>3. /\ \A g \in Fields \ {f} : dialog'.form[g] = dialog.form[g]
        /\ dialog'.form[f] = quick.text
    BY <1>0, <2>1, <2>2 DEF Forms, Fields
  <2>4. "quick" \in crossed \/ quick.text.of = dialog.of
    BY <2>1 DEF QuickInDialog
  <2>5. dialog.open => FormFits(dialog'.form, dialog'.of, page', crossed')
    BY <2>1, <2>2, <2>3, <2>4
    DEF FormInDialog, FormFits, TextFits, SecretFits, LinkFits, Fields
  <2>6. SecretGone' => dialog'.form["secret"] = Nothing
    BY <2>1, <2>2, <2>3 DEF FormInDialog, SecretGone, Fields
  <2> QED
    BY <2>2, <2>5, <2>6 DEF FormInDialog
<1> QED
  BY <1>2, <1>3, <1>4, <1>5, <1>6, <1>7, OpensEditForm, OpensNewForm DEF DialogStep

LEMMA QuickInDialogNext ==
    ASSUME Typed, QuickInDialog, [Next]_vars, DialogStep, UNCHANGED page
    PROVE  QuickInDialog'
<1> SUFFICES ASSUME quick'.phase = "sent", "quick" \notin crossed'
             PROVE  dialog'.open /\ quick'.text.of = dialog'.of
  BY DEF QuickInDialog
<1>0. /\ crossed \subseteq crossed' /\ dialog \in Dialogs
      /\ quick.phase \in {"idle", "sent"}
  BY CrossedGrows, DialogTypes DEF Typed
<1>1. CASE QuickSends
  <2>1. /\ UNCHANGED dialog /\ quick' = [phase |-> "sent", text |-> Text(dialog.of, texts + 1)]
        /\ dialog.open
    BY <1>1, QuickOffered DEF QuickSends
  <2> QED
    BY <2>1 DEF Text
<1>2. CASE QuickEnds \/ QuickFails
  BY <1>2 DEF QuickEnds, QuickFails, NoQuick
<1>3. CASE UNCHANGED quick
  <2>0. dialog.open /\ quick.text.of = dialog.of /\ quick.phase = "sent"
    BY <1>0, <1>3 DEF QuickInDialog
  <2>1. "quick" \notin Crossing => FALSE
    BY <2>0 DEF Crossing
  <2>2. CASE UNCHANGED dialog
    BY <1>3, <2>0, <2>2
  <2>3. CASE ExtraPut
    BY <1>0, <1>3, <2>0, <2>3 DEF ExtraPut, Dialogs
  <2>4. CASE Cancels \/ ClosesDialog
    <3>1. Crossing \subseteq crossed'
      BY <2>0, <2>4 DEF Cancels, ClosesDialog
    <3> QED
      BY <2>1, <3>1
  <2>5. ASSUME NEW f \in DOMAIN EmptyForm, Types(f)
        PROVE  dialog'.open /\ quick'.text.of = dialog'.of
    BY <1>0, <1>3, <2>0, <2>5 DEF Types, Dialogs
  <2>6. CASE OpensCreate
    BY <2>0, <2>6, CreateOffered DEF OpensCreate
  <2>7. ASSUME NEW r \in Records, OpensEdit(r) \/ OpensClone(r)
        PROVE  FALSE
    BY <2>0, <2>7, EditOffered, CloneOffered, Zenon DEF OpensEdit, OpensClone
  <2>8. CASE QuickEnds
    BY <1>2, <2>8
  <2> QED
    BY <2>2, <2>3, <2>4, <2>5, <2>6, <2>7, <2>8 DEF DialogStep
<1>4. QuickSends \/ QuickEnds \/ QuickFails \/ UNCHANGED quick
  <2>1. CASE SaveArrives
    BY <2>1, SaveArrivesCases, Zenon
  <2>2. CASE \/ OpensCreate \/ Cancels \/ Saves \/ SaveFails \/ SaveEnds \/ RefreshEnds
             \/ ExtraArrives \/ ExtraEnds \/ ExtraFails \/ BulkEnds \/ BulkFails
             \/ ListAnswers \/ ListArrives \/ ListFails
             \/ \E f \in DOMAIN EmptyForm : Types(f)
             \/ \E kind \in {"edit", "delete"}, rows \in SUBSET Records :
                  BulkStarts(kind, rows)
    BY <2>2, Zenon DEF OpensCreate, Cancels, Saves, SaveFails, SaveEnds, RefreshEnds,
       ExtraArrives, ExtraEnds, ExtraFails, BulkEnds, BulkFails, ListAnswers,
       ListArrives, ListFails, Types, BulkStarts
  <2>3. ASSUME NEW r \in Records,
               \/ OpensEdit(r) \/ OpensClone(r)
               \/ ConfirmsDelete(r) \/ DeletionArrives(r) \/ DeletionEnds(r)
               \/ BulkGoesOn(r) \/ OthersDelete(r) \/ LoadAnswers(r)
               \/ LoadArrives(r) \/ LoadFails(r)
        PROVE  UNCHANGED quick
    BY <2>3, Zenon DEF OpensEdit, OpensClone, ConfirmsDelete, DeletionArrives,
       DeletionEnds, BulkGoesOn, OthersDelete, LoadAnswers, LoadArrives, LoadFails
  <2> QED
    BY <2>1, <2>2, <2>3 DEF Next, vars
<1> QED
  BY <1>1, <1>2, <1>3, <1>4

\* The save that is on its way; what is known of a step that is of the save.
RequestStep ==
    \/ UNCHANGED request
    \/ SaveArrives \/ SaveFails \/ SaveEnds \/ RefreshEnds
    \/ ExtraArrives \/ ExtraEnds \/ ExtraFails

LEMMA NextRequest ==
    ASSUME [Next]_vars
    PROVE  Saves \/ RequestStep
<1>1. CASE \/ OpensCreate \/ Cancels \/ QuickSends \/ QuickEnds \/ QuickFails
           \/ BulkEnds \/ BulkFails \/ ListAnswers \/ ListArrives \/ ListFails
           \/ \E f \in DOMAIN EmptyForm : Types(f)
           \/ \E kind \in {"edit", "delete"}, rows \in SUBSET Records :
                BulkStarts(kind, rows)
  BY <1>1, Zenon DEF OpensCreate, Cancels, QuickSends, QuickEnds, QuickFails, BulkEnds,
     BulkFails, ListAnswers, ListArrives, ListFails, Types, BulkStarts, RequestStep
<1>2. ASSUME NEW r \in Records,
             \/ OpensEdit(r) \/ OpensClone(r)
             \/ ConfirmsDelete(r) \/ DeletionArrives(r) \/ DeletionEnds(r)
             \/ BulkGoesOn(r) \/ OthersDelete(r) \/ LoadAnswers(r)
             \/ LoadArrives(r) \/ LoadFails(r)
      PROVE  UNCHANGED request
  BY <1>2, Zenon DEF OpensEdit, OpensClone, ConfirmsDelete, DeletionArrives,
     DeletionEnds, BulkGoesOn, OthersDelete, LoadAnswers, LoadArrives, LoadFails
<1> QED
  BY <1>1, <1>2 DEF Next, vars, RequestStep

\* The phase that the save is in after a step of it.
LEMMA RequestPhases ==
    ASSUME Typed, RequestStep
    PROVE  /\ UNCHANGED request \/ request'.phase # "sent"
           /\ UNCHANGED request \/ SaveArrives \/ request'.phase \notin {"sent", "done"}
<1>0. /\ [request EXCEPT !.phase = "done"].phase = "done"
      /\ [request EXCEPT !.phase = "failed"].phase = "failed"
      /\ [request EXCEPT !.phase = "refreshing"].phase = "refreshing"
      /\ [request EXCEPT !.phase = "secondDone"].phase = "secondDone"
      /\ Second.phase = "second" /\ NoRequest.phase = "idle"
  BY DialogTypes DEF Requests, Second, NoRequest
<1>1. CASE SaveArrives
  <2>1. \/ request' = [request EXCEPT !.phase = "done"]
        \/ request' = [request EXCEPT !.phase = "failed"]
        \/ \E r : request' = [request EXCEPT !.phase = "done", !.of = r]
    BY <1>1, SaveArrivesCases, Zenon
  <2>2. ASSUME NEW r, request' = [request EXCEPT !.phase = "done", !.of = r]
        PROVE  request'.phase = "done"
    BY <2>2, DialogTypes DEF Requests
  <2>3. ASSUME \/ request' = [request EXCEPT !.phase = "done"]
               \/ request' = [request EXCEPT !.phase = "failed"]
        PROVE  request'.phase # "sent"
    BY <1>0, <2>3
  <2>4. request'.phase = "done" => request'.phase # "sent"
    OBVIOUS
  <2> QED
    BY <1>1, <2>1, <2>2, <2>3, <2>4, Zenon
<1>2. CASE SaveEnds
  <2>1. Shape(page)
    BY PageFacts DEF Typed
  <2>2. \/ request' = [request EXCEPT !.phase = "secondDone"]
        \/ request' = [request EXCEPT !.phase = "refreshing"]
        \/ request' = Second \/ request' = NoRequest
    BY <1>2, <2>1, SaveEndsCases, Zenon
  <2> QED
    BY <1>0, <2>2
<1>3. CASE SaveFails \/ RefreshEnds \/ ExtraEnds \/ ExtraFails
  <2>1. request' = NoRequest
    BY <1>3, Zenon DEF SaveFails, RefreshEnds, ExtraEnds, ExtraFails
  <2> QED
    BY <2>1 DEF NoRequest
<1>4. CASE ExtraArrives
  <2>1. \/ request' = [request EXCEPT !.phase = "secondDone"]
        \/ request' = [request EXCEPT !.phase = "secondFailed"]
    BY <1>4, Zenon DEF ExtraArrives
  <2> QED
    BY <2>1, DialogTypes DEF Requests
<1> QED
  BY <1>1, <1>2, <1>3, <1>4 DEF RequestStep

LEMMA RequestFitsNext ==
    ASSUME Typed, RequestFits, FormInDialog, [Next]_vars, UNCHANGED page,
           crossed \subseteq crossed'
    PROVE  RequestFits'
<1>1. CASE UNCHANGED request
  BY <1>1, FitsStays DEF RequestFits
<1>2. CASE Saves
  <2>1. /\ dialog.open
        /\ request'.of = dialog.of /\ request'.form = dialog.form
    BY <1>2, SaveOffered DEF Saves
  <2> QED
    BY <2>1, FitsStays DEF RequestFits, FormInDialog
<1>3. CASE request'.phase # "sent"
  BY <1>3 DEF RequestFits
<1> QED
  BY <1>1, <1>2, <1>3, NextRequest, RequestPhases

LEMMA FormsInvNext == Typed /\ FormsInv /\ [Next]_vars => FormsInv'
BY NextStores, NextDialog, CrossedGrows, NextList, TablesFitNext, FormInDialogNext,
   QuickInDialogNext, RequestFitsNext DEF FormsInv

LEMMA FormsInvInit == Init => FormsInv
<1> SUFFICES ASSUME Init
             PROVE  FormsInv
  OBVIOUS
<1>1. TablesFit
  <2>1. PICK kept : stored = [r \in Records |->
                                IF r \in kept THEN Content(TRUE, 0, Original(r))
                                ELSE Content(FALSE, 0, EmptyForm)]
    BY Zenon DEF Init
  <2>2. ASSUME NEW r \in Records
        PROVE  FormFits(Original(r), r, page, crossed)
    BY DEF Original, EmptyForm, FormFits, TextFits, SecretFits, LinkFits, Text
  <2>3. TableFits(stored, page, crossed)
    <3> SUFFICES ASSUME NEW r \in Records, stored[r].there
                 PROVE  FormFits(stored[r].form, r, page, crossed)
      BY DEF TableFits
    <3>1. stored[r] = IF r \in kept THEN Content(TRUE, 0, Original(r))
                      ELSE Content(FALSE, 0, EmptyForm)
      BY <2>1
    <3>2. stored[r] = Content(TRUE, 0, Original(r))
      BY <3>1 DEF Content
    <3> QED
      BY <2>2, <3>2 DEF Content
  <2>4. list.data = Blank /\ list.fetch = "sent"
    BY DEF Init, Fetched, Unfetched
  <2>5. TableFits(Blank, page, crossed)
    BY DEF TableFits, Blank, Content
  <2> QED
    BY <2>3, <2>4, <2>5 DEF TablesFit
<1>2. FormInDialog /\ QuickInDialog
  BY DEF Init, FormInDialog, QuickInDialog, EmptyForm, NoQuick
<1>3. RequestFits
  BY DEF Init, RequestFits, NoRequest
<1> QED
  BY <1>1, <1>2, <1>3 DEF FormsInv

------------------------------------------------------------------------------
(* The extra things stay with their records.                                *)

LEMMA KnownGrows ==
    ASSUME Typed, StoredSteps
    PROVE  /\ Known \subseteq Known' /\ Dead \subseteq Dead'
           /\ Dead \subseteq Records /\ 0 \notin Dead'
<1>1. ASSUME NEW r \in Records
      PROVE  /\ stored[r].there \/ stored[r].version > 0 =>
                  stored'[r].there \/ stored'[r].version > 0
             /\ ~stored[r].there /\ stored[r].version > 0 =>
                  ~stored'[r].there /\ stored'[r].version > 0
  <2>1. /\ stored[r] \in Contents /\ stored[r].version \in Nat
        /\ stored'[r] \in Contents /\ StoredStep(r)
    BY CellTypes DEF StoredSteps, Tables
  <2>2. CASE stored'[r] = stored[r]
    BY <2>2
  <2>3. CASE stored[r].there /\ stored'[r] = Gone(stored[r])
    BY <2>1, <2>3 DEF Gone, Content
  <2>4. ASSUME NEW form, stored'[r] = Written(stored[r], form),
               stored[r].there \/ r \in Unborn
        PROVE  /\ stored'[r].there
               /\ stored[r].there \/ stored[r].version = 0
    BY <2>4 DEF Written, Content, Unborn
  <2>5. ASSUME NEW t, stored[r].there, stored'[r] = Extended(stored[r], t)
        PROVE  stored'[r].there
    BY <2>1, <2>5 DEF Extended, Contents
  <2> QED
    BY <2>1, <2>2, <2>3, <2>4, <2>5 DEF StoredStep
<1> QED
  BY <1>1, DialogsAssumption DEF Known, Dead

LEMMA KnownInvNext ==
    ASSUME Typed, KnownInv, StoredSteps, ListStep, DialogStep, UNCHANGED page
    PROVE  KnownInv'
<1>0. Known \subseteq Known'
  BY KnownGrows
<1>1. ASSUME NEW table, TableKnown(table, Known)
      PROVE  TableKnown(table, Known')
  BY <1>0, <1>1 DEF TableKnown
<1>2. TableKnown(stored, Known)
  BY DEF TableKnown, Known
<1>3. /\ TableKnown(list'.data, Known')
      /\ list'.fetch = "answered" => TableKnown(list'.answer, Known')
  <2>1. CASE UNCHANGED list
    BY <1>1, <2>1 DEF KnownInv
  <2>2. CASE list' = ListRefreshed
    <3>1. /\ list'.data = list.data
          /\ list'.fetch = "answered" => list.fetch = "answered"
          /\ list'.answer = list.answer
      BY <2>2 DEF ListRefreshed, Refetched, Invalidated, Typed, Queries
    <3> QED
      BY <1>1, <3>1 DEF KnownInv
  <2>3. CASE list' = Answered(list, stored)
    <3>1. list'.data = list.data /\ list'.answer = stored
      BY <2>3 DEF Answered, Typed, Queries
    <3> QED
      BY <1>1, <1>2, <3>1 DEF KnownInv
  <2>4. CASE list.fetch = "answered" /\ list' = Delivered(list, Blank)
    <3>1. list'.data = list.answer /\ list'.fetch = "idle"
      BY <2>4 DEF Delivered
    <3> QED
      BY <1>1, <2>4, <3>1 DEF KnownInv
  <2>5. CASE list' = FetchFailed(list)
    <3>1. list'.data = list.data /\ list'.fetch = "idle"
      BY <2>5 DEF FetchFailed, Typed, Queries
    <3> QED
      BY <1>1, <3>1 DEF KnownInv
  <2> QED
    BY <2>1, <2>2, <2>3, <2>4, <2>5 DEF ListStep
<1>4. dialog'.of # 0 => dialog'.of \in Known'
  <2>0. dialog \in Dialogs
    BY DialogTypes
  <2>1. CASE dialog'.of \in {0, dialog.of}
    BY <1>0, <2>1 DEF KnownInv
  <2>2. CASE ExtraPut \/ ClosesDialog
    <3>1. ExtraPut => dialog'.of = dialog.of
      BY <2>0 DEF ExtraPut, Dialogs
    <3>2. ClosesDialog => dialog'.of = dialog.of
      BY ClosesTypes
    <3> QED
      BY <2>1, <2>2, <3>1, <3>2
  <2>3. CASE OpensCreate
    BY <2>1, <2>3 DEF OpensCreate, Opened
  <2>4. CASE Cancels
    BY <2>0, <2>1, <2>4 DEF Cancels, Dialogs
  <2>5. CASE QuickEnds
    BY <2>0, <2>1, <2>5 DEF QuickEnds, Dialogs
  <2>6. ASSUME NEW f \in DOMAIN EmptyForm, Types(f)
        PROVE  dialog'.of = dialog.of
    BY <2>0, <2>6 DEF Types, Dialogs
  <2>7. ASSUME NEW r \in Records, OpensClone(r)
        PROVE  dialog'.of = 0
    BY <2>7 DEF OpensClone, Opened
  <2>8. ASSUME NEW r \in Records, OpensEdit(r)
        PROVE  dialog'.of \in Known
    <3>1. list.data[r].there /\ \E runs : Opened(r, FilledFor(r, runs), ~runs)
      BY <2>8, OpensEditOpens, Zenon
    <3> QED
      BY <3>1 DEF Opened, KnownInv, TableKnown
  <2> QED
    BY <1>0, <2>1, <2>2, <2>3, <2>4, <2>5, <2>6, <2>7, <2>8 DEF DialogStep
<1> QED
  BY <1>3, <1>4 DEF KnownInv, TableKnown

LEMMA StoredExtraNext ==
    ASSUME Typed, StoredSteps, StoredExtra, SecondHasExtra
    PROVE  StoredExtra'
<1> SUFFICES ASSUME NEW r \in Records, stored'[r].there
             PROVE  stored'[r].form["extra"].of = r
  BY DEF StoredExtra
<1>0. /\ StoredStep(r) /\ stored[r] \in Contents /\ stored[r].form \in Forms
      /\ stored[r].there => stored[r].form["extra"].of = r
  BY CellTypes DEF StoredSteps, StoredExtra
<1>1. CASE stored'[r] = stored[r]
  BY <1>0, <1>1
<1>2. CASE stored'[r] = Gone(stored[r])
  BY <1>2 DEF Gone, Content
<1>3. CASE stored[r].there /\ stored'[r] = Written(stored[r], stored[r].form)
  BY <1>0, <1>3 DEF Written, Content
<1>4. CASE /\ stored[r].there
           /\ stored'[r] = Written(stored[r], Updated(stored[r].form, request.form))
  <2>1. Updated(stored[r].form, request.form)["extra"] = stored[r].form["extra"]
    BY <1>0 DEF Updated, Forms, Fields
  <2>2. stored'[r].form = Updated(stored[r].form, request.form)
    BY <1>4 DEF Written, Content
  <2> QED
    BY <1>0, <1>4, <2>1, <2>2
<1>5. CASE stored'[r] = Written(stored[r], BornForm(r))
  <2>1. BornForm(r)["extra"] = Text(r, 0)
    BY TextTypes DEF BornForm, Fields
  <2>2. stored'[r].form = BornForm(r)
    BY <1>5 DEF Written, Content
  <2> QED
    BY <2>1, <2>2 DEF Text
<1>6. CASE /\ stored[r].there /\ request.phase = "second" /\ r = request.of
           /\ stored'[r] = Extended(stored[r],
                             IF request.new THEN Named(r, request.form["extra"])
                             ELSE request.form["extra"])
  <2> DEFINE t == IF request.new THEN Named(r, request.form["extra"])
                  ELSE request.form["extra"]
  <2>1. stored'[r].form["extra"] = t
    <3>1. stored'[r].form = [stored[r].form EXCEPT !["extra"] = t]
      BY <1>0, <1>6 DEF Extended, Contents
    <3> QED
      BY <1>0, <3>1 DEF Forms, Fields
  <2>2. ExtraFits(request.form["extra"], IF request.new THEN 0 ELSE r, Dead)
    BY <1>6 DEF SecondHasExtra
  <2>3. r \notin Dead /\ 0 \notin Dead
    BY <1>6, DialogsAssumption DEF Dead
  <2>4. t.of = r
    BY <2>2, <2>3 DEF ExtraFits, Named, Text
  <2> QED
    BY <2>1, <2>4
<1> QED
  BY <1>0, <1>1, <1>2, <1>3, <1>4, <1>5, <1>6 DEF StoredStep

\* What a step does to the extra things that are on their way, and to the dialog
\* that they are on their way to.
LoadsStep ==
    \/ /\ UNCHANGED loads
       /\ \/ UNCHANGED dialog
          \/ ClosesDialog /\ request' \in {NoRequest, Second}
          \/ OpensCreate \/ Cancels \/ QuickEnds
          \/ \E f \in DOMAIN EmptyForm : Types(f)
          \/ \E r \in Records : OpensClone(r)
    \/ \E r \in Records : OpensEdit(r)
    \/ ExtraEnds
    \/ \E r \in Records : LoadAnswers(r) \/ LoadArrives(r) \/ LoadFails(r)

LEMMA NextLoads ==
    ASSUME Typed, [Next]_vars
    PROVE  LoadsStep
<1> USE DEF LoadsStep
<1>1. CASE SaveArrives
  BY <1>1, SaveArrivesCases, Zenon
<1>2. CASE SaveEnds
  <2>1. Shape(page)
    BY PageFacts DEF Typed
  <2>2. NoRequest \in {NoRequest, Second} /\ Second \in {NoRequest, Second}
    OBVIOUS
  <2> QED
    BY <1>2, <2>1, <2>2, SaveEndsCases, Zenon
<1>3. CASE \/ OpensCreate \/ Cancels \/ QuickEnds \/ RefreshEnds
           \/ \E f \in DOMAIN EmptyForm : Types(f)
           \/ \E r \in Records : OpensClone(r)
  BY <1>3, Zenon DEF OpensCreate, Cancels, QuickEnds, RefreshEnds, Types, OpensClone
<1>4. CASE \/ Saves \/ SaveFails \/ ExtraArrives \/ ExtraFails \/ QuickSends
           \/ QuickFails \/ BulkEnds \/ BulkFails \/ ListAnswers \/ ListArrives
           \/ ListFails
           \/ \E kind \in {"edit", "delete"}, rows \in SUBSET Records :
                BulkStarts(kind, rows)
  BY <1>4, Zenon DEF Saves, SaveFails, ExtraArrives, ExtraFails, QuickSends,
     QuickFails, BulkEnds, BulkFails, ListAnswers, ListArrives, ListFails, BulkStarts
<1>5. ASSUME NEW r \in Records,
             \/ ConfirmsDelete(r) \/ DeletionArrives(r) \/ DeletionEnds(r)
             \/ BulkGoesOn(r) \/ OthersDelete(r)
      PROVE  UNCHANGED <<loads, dialog>>
  BY <1>5, Zenon DEF ConfirmsDelete, DeletionArrives, DeletionEnds, BulkGoesOn,
     OthersDelete
<1>6. CASE UNCHANGED vars
  BY <1>6 DEF vars
<1> QED
  BY <1>1, <1>2, <1>3, <1>4, <1>5, <1>6 DEF Next

\* The query of one record changes.
LoadsChange(r, q) == loads' = [loads EXCEPT ![r] = q]

LEMMA LoadsChanged ==
    ASSUME Typed, NEW r \in Records, NEW q, LoadsChange(r, q)
    PROVE  /\ loads'[r] = q
           /\ \A s \in Records \ {r} : loads'[s] = loads[s]
BY DEF LoadsChange, Typed

\* What a record that is opened has in its form, and asks for.
LEMMA OpensEditExtra ==
    ASSUME Typed, NEW r \in Records, OpensEdit(r)
    PROVE  /\ ~dialog.open /\ list.data[r].there /\ UNCHANGED <<page, request>>
           /\ dialog'.open /\ dialog'.of = r
           /\ page.extra = "before" /\ loads[r].loaded =>
                dialog'.unset \/ dialog'.form["extra"] = loads[r].data
           /\ page.extra = "after" => LoadsChange(r, Fetched(loads[r]))
           /\ page.extra = "before" => LoadsChange(r, MountedQuery(loads[r]))
           /\ page.extra = "none" => UNCHANGED loads
<1>1. /\ ~dialog.open /\ list.data[r].there /\ UNCHANGED <<page, request>>
      /\ loads' = CASE page.extra = "after" -> [loads EXCEPT ![r] = Fetched(@)]
                    [] page.extra = "before" -> [loads EXCEPT ![r] = MountedQuery(@)]
                    [] OTHER -> loads
  BY OpensEditOpens, Zenon DEF OpensEdit
<1>2. PICK runs \in BOOLEAN : /\ dialog'.open /\ dialog'.of = r
                              /\ dialog'.form = FilledFor(r, runs)
                              /\ dialog'.unset = ~runs
  <2>1. PICK runs \in BOOLEAN : Opened(r, FilledFor(r, runs), ~runs)
    BY OpensEditOpens
  <2> QED
    BY <2>1, FilledForType, OpenedTypes
<1>3. page.extra = "before" /\ loads[r].loaded /\ runs =>
        FilledFor(r, runs)["extra"] = loads[r].data
  BY TextTypes DEF FilledFor, Fields
<1>4. /\ page.extra = "after" => LoadsChange(r, Fetched(loads[r]))
      /\ page.extra = "before" => LoadsChange(r, MountedQuery(loads[r]))
      /\ page.extra = "none" => UNCHANGED loads
  BY <1>1 DEF LoadsChange
<1> QED
  BY <1>1, <1>2, <1>3, <1>4

LEMMA LoadAnswersExtra ==
    ASSUME Typed, NEW r \in Records, LoadAnswers(r)
    PROVE  /\ UNCHANGED <<page, dialog, request, stored>> /\ loads[r].fetch = "sent"
           /\ LoadsChange(r, Answered(loads[r], stored[r].form["extra"]))
BY DEF LoadAnswers, LoadsChange

\* The dialog takes another extra thing, and is otherwise the same.
SameButExtra ==
    dialog'.open = dialog.open /\ dialog'.of = dialog.of

LEMMA LoadArrivesExtra ==
    ASSUME Typed, NEW r \in Records, LoadArrives(r)
    PROVE  /\ UNCHANGED <<page, request>> /\ loads[r].fetch = "answered"
           /\ LoadsChange(r, Delivered(loads[r], Nothing)) /\ SameButExtra
           /\ \/ /\ page.extra = "after" \/ dialog.of = r
                 /\ dialog'.form["extra"] = loads[r].answer
              \/ /\ page.extra # "after" /\ UNCHANGED dialog
                 /\ dialog.of = r => loads[r].data = loads[r].answer
<1>1. /\ UNCHANGED <<page, request>> /\ loads[r].fetch = "answered"
      /\ LoadsChange(r, Delivered(loads[r], Nothing))
  <2>1. /\ UNCHANGED <<page, request>> /\ loads[r].fetch = "answered"
        /\ loads' = [loads EXCEPT ![r] = Delivered(@, Nothing)]
    BY Zenon DEF LoadArrives
  <2> QED
    BY <2>1 DEF LoadsChange
<1>2. \/ /\ page.extra = "after" \/ dialog.of = r
         /\ dialog' = [dialog EXCEPT !.form.extra = loads[r].answer, !.unset = FALSE]
      \/ /\ page.extra # "after" /\ UNCHANGED dialog
         /\ dialog.of = r => loads[r].data = loads[r].answer
  BY Zenon DEF LoadArrives
<1>3. CASE /\ page.extra = "after" \/ dialog.of = r
           /\ dialog' = [dialog EXCEPT !.form.extra = loads[r].answer, !.unset = FALSE]
  <2>1. dialog' = [dialog EXCEPT !.form = [dialog.form EXCEPT !["extra"] = loads[r].answer],
                                 !.unset = FALSE]
    BY <1>3
  <2>2. /\ SameButExtra
        /\ dialog'.form = [dialog.form EXCEPT !["extra"] = loads[r].answer]
    BY <2>1, DialogTypes DEF Dialogs, SameButExtra
  <2>3. dialog'.form["extra"] = loads[r].answer
    BY <2>2, DialogTypes DEF Forms, Fields
  <2> QED
    BY <1>1, <1>3, <2>2, <2>3
<1>4. CASE /\ page.extra # "after" /\ UNCHANGED dialog
           /\ dialog.of = r => loads[r].data = loads[r].answer
  BY <1>1, <1>4 DEF SameButExtra
<1> QED
  BY <1>2, <1>3, <1>4

LEMMA LoadFailsExtra ==
    ASSUME Typed, NEW r \in Records, LoadFails(r)
    PROVE  /\ UNCHANGED <<page, request>> /\ loads[r].fetch = "sent"
           /\ LoadsChange(r, FetchFailed(loads[r])) /\ SameButExtra
           /\ IF page.extra = "after" THEN dialog'.form["extra"] = Nothing
              ELSE UNCHANGED dialog
           /\ page.extra = "before" => ExtraCrossed'
<1>1. /\ UNCHANGED <<page, request>> /\ loads[r].fetch = "sent"
      /\ loads' = [loads EXCEPT ![r] = FetchFailed(@)]
      /\ dialog' = IF page.extra = "after" THEN [dialog EXCEPT !.form.extra = Nothing]
                   ELSE dialog
      /\ crossed' = IF page.extra = "before" THEN crossed \cup {"extra"} ELSE crossed
  BY Zenon DEF LoadFails
<1>2. LoadsChange(r, FetchFailed(loads[r])) /\ (page.extra = "before" => ExtraCrossed')
  BY <1>1 DEF LoadsChange, ExtraCrossed
<1>3. CASE page.extra = "after"
  <2>1. dialog' = [dialog EXCEPT !.form = [dialog.form EXCEPT !["extra"] = Nothing]]
    BY <1>1, <1>3
  <2>2. /\ SameButExtra
        /\ dialog'.form = [dialog.form EXCEPT !["extra"] = Nothing]
    BY <2>1, DialogTypes DEF Dialogs, SameButExtra
  <2>3. dialog'.form["extra"] = Nothing
    BY <2>2, DialogTypes DEF Forms, Fields
  <2> QED
    BY <1>1, <1>2, <1>3, <2>2, <2>3
<1>4. CASE page.extra # "after"
  BY <1>1, <1>2, <1>4 DEF SameButExtra
<1> QED
  BY <1>3, <1>4

LEMMA ExtraEndsExtra ==
    ASSUME Typed, ExtraEnds
    PROVE  /\ UNCHANGED page /\ request.phase = "secondDone" /\ request' = NoRequest
           /\ IF page.extra = "before"
              THEN /\ ClosesDialog
                   /\ loads' = [r \in Records |->
                                  IF dialog.of = r THEN Refetched(loads[r])
                                  ELSE Invalidated(loads[r])]
              ELSE UNCHANGED <<loads, dialog, crossed>>
BY Zenon DEF ExtraEnds

LEMMA LoadFitsGrows ==
    ASSUME NEW q, NEW r, NEW known, NEW dead, NEW known2, NEW dead2,
           LoadFits(q, r, known, dead), known \subseteq known2, dead \subseteq dead2
    PROVE  LoadFits(q, r, known2, dead2)
BY DEF LoadFits, ExtraFits

\* What fits goes on fitting as a query is asked, fails and is delivered.
LEMMA LoadFitsSteps ==
    ASSUME NEW q \in Queries(Texts), NEW r \in Records, NEW known, NEW dead,
           LoadFits(q, r, known, dead)
    PROVE  /\ LoadFits(Invalidated(q), r, known, dead)
           /\ LoadFits(FetchFailed(q), r, known, dead)
           /\ q.fetch = "answered" => LoadFits(Delivered(q, Nothing), r, known, dead)
           /\ r \in known => /\ LoadFits(Fetched(q), r, known, dead)
                             /\ LoadFits(MountedQuery(q), r, known, dead)
                             /\ LoadFits(Refetched(q), r, known, dead)
<1>1. LoadFits(Invalidated(q), r, known, dead)
  BY DEF LoadFits, Invalidated, Queries
<1>2. LoadFits(FetchFailed(q), r, known, dead)
  BY DEF LoadFits, FetchFailed, Queries
<1>3. ASSUME q.fetch = "answered"
      PROVE  LoadFits(Delivered(q, Nothing), r, known, dead)
  BY <1>3 DEF LoadFits, Delivered, Queries
<1>4. ASSUME r \in known
      PROVE  /\ LoadFits(Fetched(q), r, known, dead)
             /\ LoadFits(MountedQuery(q), r, known, dead)
             /\ LoadFits(Refetched(q), r, known, dead)
  <2>1. LoadFits(Fetched(q), r, known, dead)
    BY <1>4 DEF LoadFits, Fetched, Queries
  <2>2. LoadFits(MountedQuery(q), r, known, dead)
    BY <2>1 DEF MountedQuery
  <2>3. LoadFits(Refetched(q), r, known, dead)
    BY <1>1, <1>4 DEF LoadFits, Refetched, Queries
  <2> QED
    BY <2>1, <2>2, <2>3
<1> QED
  BY <1>1, <1>2, <1>3, <1>4

LEMMA LoadsFitNext ==
    ASSUME Typed, StoredSteps, LoadsStep, KnownInv, StoredExtra, LoadsFit
    PROVE  LoadsFit'
<1>0. /\ Known \subseteq Known' /\ Dead \subseteq Dead'
      /\ \A r \in Records : /\ loads[r] \in Queries(Texts)
                            /\ LoadFits(loads[r], r, Known, Dead)
  BY KnownGrows DEF LoadsFit, Typed
<1>1. ASSUME \A r \in Records : LoadFits(loads'[r], r, Known, Dead)
      PROVE  LoadsFit'
  BY <1>0, <1>1, LoadFitsGrows DEF LoadsFit
<1>2. CASE UNCHANGED loads
  BY <1>0, <1>1, <1>2
<1>3. ASSUME NEW r \in Records, NEW q, LoadsChange(r, q), LoadFits(q, r, Known, Dead)
      PROVE  LoadsFit'
  BY <1>0, <1>1, <1>3, LoadsChanged
<1>4. ASSUME NEW r \in Records, OpensEdit(r)
      PROVE  LoadsFit'
  <2>1. r \in Known
    BY <1>4, OpensEditExtra DEF KnownInv, TableKnown
  <2>2. \/ LoadsChange(r, Fetched(loads[r])) \/ LoadsChange(r, MountedQuery(loads[r]))
        \/ UNCHANGED loads
    <3>1. page.extra \in {"none", "before", "after"}
      BY PageFacts DEF Typed, Shape
    <3> QED
      BY <1>4, <3>1, OpensEditExtra
  <2> QED
    BY <1>0, <1>2, <1>3, <2>1, <2>2, LoadFitsSteps
<1>5. CASE ExtraEnds
  <2>1. CASE page.extra # "before"
    BY <1>2, <1>5, <2>1, ExtraEndsExtra
  <2>2. CASE page.extra = "before"
    <3>1. loads' = [r \in Records |-> IF dialog.of = r THEN Refetched(loads[r])
                                      ELSE Invalidated(loads[r])]
      BY <1>5, <2>2, ExtraEndsExtra
    <3>2. ASSUME NEW r \in Records
          PROVE  LoadFits(loads'[r], r, Known, Dead)
      <4>1. dialog.of = r => r \in Known
        BY DialogsAssumption DEF KnownInv
      <4> QED
        BY <1>0, <3>1, <4>1, LoadFitsSteps
    <3> QED
      BY <1>1, <3>2
  <2> QED
    BY <2>1, <2>2
<1>6. ASSUME NEW r \in Records, LoadAnswers(r)
      PROVE  LoadsFit'
  <2> DEFINE t == stored[r].form["extra"]
             q == Answered(loads[r], t)
  <2>1. /\ loads[r].fetch = "sent"
        /\ LoadsChange(r, q)
    BY <1>6, LoadAnswersExtra
  <2>2. r \in Known
    BY <1>0, <2>1 DEF LoadFits
  <2>3. ExtraFits(t, r, Dead)
    BY <2>2 DEF Known, Dead, ExtraFits, StoredExtra
  <2>4. LoadFits(q, r, Known, Dead)
    BY <1>0, <2>2, <2>3 DEF LoadFits, Answered, Queries
  <2> QED
    BY <1>3, <2>1, <2>4
<1>7. ASSUME NEW r \in Records, LoadArrives(r) \/ LoadFails(r)
      PROVE  LoadsFit'
  <2>1. \/ LoadsChange(r, FetchFailed(loads[r]))
        \/ loads[r].fetch = "answered" /\ LoadsChange(r, Delivered(loads[r], Nothing))
    BY <1>7, LoadArrivesExtra, LoadFailsExtra
  <2> QED
    BY <1>0, <1>3, <2>1, LoadFitsSteps
<1> QED
  BY <1>2, <1>4, <1>5, <1>6, <1>7 DEF LoadsStep

\* A dialog that closes with an extra thing on its way is crossed with the next.
LEMMA ClosingCrosses ==
    ASSUME Typed, Cancels \/ ClosesDialog, dialog.open, ~ExtraCrossed'
    PROVE  \A r \in Records : loads[r].fetch = "idle"
<1>1. Crossing \subseteq crossed'
  BY DEF Cancels, ClosesDialog
<1> QED
  BY <1>1 DEF Crossing, ExtraCrossed

\* Opening takes a dialog that is closed; other steps leave it to the same record.
LEMMA DialogChanges ==
    ASSUME Typed
    PROVE  /\ OpensCreate => ~dialog.open /\ dialog'.open /\ dialog'.of = 0
                             /\ dialog'.form["extra"] = Nothing /\ UNCHANGED page
           /\ \A r \in Records : OpensClone(r) =>
                ~dialog.open /\ dialog'.open /\ dialog'.of = 0
                /\ dialog'.form["extra"] = Nothing /\ UNCHANGED page
           /\ Cancels \/ ClosesDialog => ~dialog'.open
           /\ Cancels => dialog.open
           /\ QuickEnds => SameButExtra /\ dialog'.unset = dialog.unset
                           /\ dialog'.form["extra"] = dialog.form["extra"]
           /\ \A f \in DOMAIN EmptyForm : Types(f) =>
                /\ dialog.open /\ SameButExtra /\ dialog'.unset = dialog.unset
                /\ \/ dialog'.form["extra"] = dialog.form["extra"]
                   \/ dialog'.form["extra"].of = dialog.of
<1>0. dialog \in Dialogs /\ dialog.form \in Forms /\ dialog.of \in Records \cup {0}
  BY DialogTypes
<1>1. ASSUME OpensCreate
      PROVE  ~dialog.open /\ dialog'.open /\ dialog'.of = 0
             /\ dialog'.form["extra"] = Nothing /\ UNCHANGED page
  <2>1. /\ <<"create">> \in PageOffers /\ Opened(0, EmptyForm, FALSE) /\ UNCHANGED page
    BY <1>1 DEF OpensCreate, NewForm
  <2> QED
    BY <2>1, CreateOffered DEF Opened, EmptyForm
<1>2. ASSUME NEW r \in Records, OpensClone(r)
      PROVE  ~dialog.open /\ dialog'.open /\ dialog'.of = 0
             /\ dialog'.form["extra"] = Nothing /\ UNCHANGED page
  <2>1. /\ <<"clone", r>> \in PageOffers /\ UNCHANGED page
        /\ Opened(0, [EmptyForm EXCEPT !["text"] = Text(0, list.data[r].form["text"].n)],
                  FALSE)
    BY <1>2 DEF OpensClone
  <2> QED
    BY <2>1, CloneOffered DEF Opened, EmptyForm
<1>3. ASSUME Cancels
      PROVE  dialog.open /\ ~dialog'.open
  <2>1. dialog.open
    BY <1>3, CancelOffered DEF Cancels
  <2>2. ~dialog'.open
    BY <1>0, <1>3 DEF Cancels, Dialogs
  <2> QED
    BY <2>1, <2>2
<1>4. ClosesDialog => ~dialog'.open
  BY ClosesTypes
<1>5. ASSUME QuickEnds
      PROVE  SameButExtra /\ dialog'.unset = dialog.unset
             /\ dialog'.form["extra"] = dialog.form["extra"]
  <2> DEFINE f == IF page.quick = "link" THEN "link" ELSE "text"
  <2>1. dialog' = [dialog EXCEPT !.form = [dialog.form EXCEPT ![f] = quick.text]]
    BY <1>5 DEF QuickEnds
  <2>2. /\ SameButExtra /\ dialog'.unset = dialog.unset
        /\ dialog'.form = [dialog.form EXCEPT ![f] = quick.text]
    BY <1>0, <2>1 DEF Dialogs, SameButExtra
  <2>3. dialog'.form["extra"] = dialog.form["extra"]
    BY <1>0, <2>2 DEF Forms, Fields
  <2> QED
    BY <2>2, <2>3
<1>6. ASSUME NEW f \in DOMAIN EmptyForm, Types(f)
      PROVE  /\ dialog.open /\ SameButExtra /\ dialog'.unset = dialog.unset
             /\ \/ dialog'.form["extra"] = dialog.form["extra"]
                \/ dialog'.form["extra"].of = dialog.of
  <2> DEFINE t == Text(dialog.of, texts + 1)
  <2>1. /\ dialog.open
        /\ dialog' = [dialog EXCEPT !.form = [dialog.form EXCEPT ![f] = t]]
    BY <1>6, TypeOffered DEF Types
  <2>2. t.of = dialog.of
    BY DEF Text
  <2> HIDE DEF t
  <2>3. /\ SameButExtra /\ dialog'.unset = dialog.unset
        /\ dialog'.form = [dialog.form EXCEPT ![f] = t]
    BY <1>0, <2>1 DEF Dialogs, SameButExtra
  <2>4. dialog'.form["extra"] \in {dialog.form["extra"], t}
    BY <1>0, <2>3 DEF Forms, Fields
  <2> QED
    BY <2>1, <2>2, <2>3, <2>4
<1> QED
  BY <1>1, <1>2, <1>3, <1>4, <1>5, <1>6

LEMMA LoadsInDialogNext ==
    ASSUME Typed, LoadsStep, LoadsInDialog, UNCHANGED page, ~ExtraCrossed'
    PROVE  LoadsInDialog'
<1> SUFFICES ASSUME page.extra = "after", NEW s \in Records, loads'[s].fetch # "idle"
             PROVE  dialog'.open /\ dialog'.of = s
  BY DEF LoadsInDialog
<1>0. loads[s].fetch # "idle" => dialog.open /\ dialog.of = s
  BY DEF LoadsInDialog
<1>1. CASE SameButExtra /\ loads[s].fetch # "idle"
  BY <1>0, <1>1 DEF SameButExtra
<1>2. CASE UNCHANGED loads
  <2>1. dialog.open /\ dialog.of = s
    BY <1>0, <1>2
  <2>2. ~(Cancels \/ ClosesDialog)
    BY <1>2, <2>1, ClosingCrosses
  <2>3. UNCHANGED dialog => SameButExtra
    BY DEF SameButExtra
  <2>4. ~OpensCreate /\ \A r \in Records : ~OpensClone(r) /\ ~OpensEdit(r)
    BY <2>1, DialogChanges, OpensEditExtra
  <2>5. ~ExtraEnds \/ UNCHANGED dialog
    BY <2>2, ExtraEndsExtra
  <2>6. ASSUME NEW r \in Records, LoadAnswers(r) \/ LoadArrives(r) \/ LoadFails(r)
        PROVE  SameButExtra
    BY <2>3, <2>6, LoadAnswersExtra, LoadArrivesExtra, LoadFailsExtra
  <2> QED
    BY <1>1, <1>2, <2>2, <2>3, <2>4, <2>5, <2>6, DialogChanges DEF LoadsStep
<1>3. ASSUME NEW r \in Records, OpensEdit(r)
      PROVE  dialog'.open /\ dialog'.of = s
  <2>1. /\ ~dialog.open /\ LoadsChange(r, Fetched(loads[r]))
        /\ dialog'.open /\ dialog'.of = r
    BY <1>3, OpensEditExtra
  <2>2. s # r => loads'[s] = loads[s]
    BY <2>1, LoadsChanged
  <2> QED
    BY <1>0, <2>1, <2>2
<1>4. CASE ExtraEnds
  BY <1>2, <1>4, ExtraEndsExtra
<1>5. ASSUME NEW r \in Records, LoadAnswers(r)
      PROVE  dialog'.open /\ dialog'.of = s
  <2>1. /\ UNCHANGED dialog /\ loads[r].fetch = "sent"
        /\ LoadsChange(r, Answered(loads[r], stored[r].form["extra"]))
    BY <1>5, LoadAnswersExtra
  <2>2. s # r => loads'[s] = loads[s]
    BY <2>1, LoadsChanged
  <2> QED
    BY <1>0, <2>1, <2>2
<1>6. ASSUME NEW r \in Records, LoadArrives(r) \/ LoadFails(r)
      PROVE  dialog'.open /\ dialog'.of = s
  <2>1. /\ SameButExtra
        /\ \/ LoadsChange(r, Delivered(loads[r], Nothing))
           \/ LoadsChange(r, FetchFailed(loads[r]))
    BY <1>6, LoadArrivesExtra, LoadFailsExtra
  <2>2. /\ s # r => loads'[s] = loads[s]
        /\ loads'[r] \in {Delivered(loads[r], Nothing), FetchFailed(loads[r])}
    BY <2>1, LoadsChanged
  <2>3. loads'[r].fetch = "idle"
    BY <2>2, CellTypes DEF Delivered, FetchFailed, Queries
  <2> QED
    BY <1>1, <2>1, <2>2, <2>3
<1> QED
  BY <1>2, <1>3, <1>4, <1>5, <1>6 DEF LoadsStep

LEMMA DialogHasExtraNext ==
    ASSUME Typed, StoredSteps, LoadsStep, UNCHANGED page, ~ExtraCrossed',
           LoadsFit, LoadsInDialog, DialogHasExtra
    PROVE  DialogHasExtra'
<1> SUFFICES ASSUME page.extra # "none", dialog'.open
             PROVE  DialogFits'
  BY DEF DialogHasExtra
<1>0. /\ Dead \subseteq Dead' /\ dialog.of \in Records \cup {0}
      /\ page.extra \in {"before", "after"} /\ 0 \notin Records
  BY KnownGrows, DialogTypes, PageFacts, DialogsAssumption DEF Typed, Shape
<1>1. ASSUME ExtraFits(dialog'.form["extra"], dialog'.of, Dead)
      PROVE  DialogFits'
  BY <1>0, <1>1 DEF DialogFits, ExtraFits
\* The extra thing in the form is as good as it was.
<1>2. ASSUME dialog.open, SameButExtra, dialog'.unset = dialog.unset,
             dialog'.form["extra"] = dialog.form["extra"],
             dialog.of # 0 => /\ loads'[dialog.of].fetch # "idle" <=>
                                   loads[dialog.of].fetch # "idle"
                              /\ loads'[dialog.of].loaded = loads[dialog.of].loaded
      PROVE  DialogFits'
  <2>1. DialogFits
    BY <1>2 DEF DialogHasExtra
  <2> QED
    BY <1>0, <1>2, <2>1 DEF DialogFits, ExtraFits, SameButExtra
<1>3. CASE UNCHANGED <<loads, dialog>>
  BY <1>2, <1>3 DEF SameButExtra
<1>4. ASSUME OpensCreate \/ \E r \in Records : OpensClone(r)
      PROVE  DialogFits'
  <2>1. dialog'.form["extra"] = Nothing /\ dialog'.of = 0
    BY <1>4, DialogChanges
  <2> QED
    BY <1>1, <2>1 DEF ExtraFits, Nothing, Text
<1>5. CASE Cancels \/ ClosesDialog
  BY <1>5, DialogChanges
<1>6. ASSUME UNCHANGED loads, QuickEnds \/ \E f \in DOMAIN EmptyForm : Types(f)
      PROVE  DialogFits'
  <2>1. /\ SameButExtra /\ dialog'.unset = dialog.unset
        /\ \/ dialog'.form["extra"] = dialog.form["extra"]
           \/ dialog'.form["extra"].of = dialog.of
    BY <1>6, DialogChanges
  <2>2. dialog.open
    BY <2>1 DEF SameButExtra
  <2>3. CASE dialog'.form["extra"] = dialog.form["extra"]
    BY <1>2, <1>6, <2>1, <2>2, <2>3
  <2>4. CASE dialog'.form["extra"].of = dialog.of
    BY <1>1, <2>1, <2>4 DEF ExtraFits, SameButExtra
  <2> QED
    BY <2>1, <2>3, <2>4
<1>7. ASSUME NEW r \in Records, OpensEdit(r)
      PROVE  DialogFits'
  <2>1. /\ dialog'.of = r /\ r # 0
        /\ loads[r] \in Queries(Texts) /\ LoadFits(loads[r], r, Known, Dead)
    BY <1>7, OpensEditExtra, DialogsAssumption, CellTypes DEF LoadsFit
  <2>2. CASE page.extra = "after"
    <3>1. LoadsChange(r, Fetched(loads[r]))
      BY <1>7, <2>2, OpensEditExtra
    <3>2. loads'[r] = Fetched(loads[r])
      BY <3>1, LoadsChanged
    <3>3. loads'[r].fetch # "idle"
      BY <2>1, <3>2 DEF Fetched, Queries
    <3> QED
      BY <2>1, <2>2, <3>3 DEF DialogFits
  <2>3. CASE page.extra = "before" /\ loads[r].loaded
    <3>1. dialog'.unset \/ dialog'.form["extra"] = loads[r].data
      BY <1>7, <2>3, OpensEditExtra
    <3>2. CASE dialog'.unset
      BY <2>1, <3>2 DEF DialogFits
    <3>3. CASE dialog'.form["extra"] = loads[r].data
      BY <1>1, <2>1, <2>3, <3>3 DEF LoadFits
    <3> QED
      BY <3>1, <3>2, <3>3
  <2>4. CASE page.extra = "before" /\ ~loads[r].loaded
    <3>1. LoadsChange(r, MountedQuery(loads[r]))
      BY <1>7, <2>4, OpensEditExtra
    <3>2. loads'[r] = MountedQuery(loads[r])
      BY <3>1, LoadsChanged
    <3>3. loads'[r].fetch # "idle" /\ ~loads'[r].loaded
      BY <2>1, <2>4, <3>2 DEF MountedQuery, Fetched, Queries, LoadFits
    <3> QED
      BY <2>1, <3>3 DEF DialogFits
  <2> QED
    BY <1>0, <2>2, <2>3, <2>4
<1>8. CASE ExtraEnds
  <2>1. CASE page.extra = "before"
    BY <1>5, <1>8, <2>1, ExtraEndsExtra
  <2>2. CASE page.extra # "before"
    BY <1>3, <1>8, <2>2, ExtraEndsExtra
  <2> QED
    BY <2>1, <2>2
<1>9. ASSUME NEW r \in Records, LoadAnswers(r)
      PROVE  DialogFits'
  <2> DEFINE q == Answered(loads[r], stored[r].form["extra"])
  <2>1. UNCHANGED dialog /\ loads[r].fetch = "sent" /\ LoadsChange(r, q)
    BY <1>9, LoadAnswersExtra
  <2>2. q.fetch = "answered" /\ q.loaded = loads[r].loaded
    BY CellTypes DEF Answered, Queries
  <2> HIDE DEF q
  <2>3. loads'[r] = q /\ \A s \in Records \ {r} : loads'[s] = loads[s]
    BY <2>1, LoadsChanged
  <2>4. dialog.of # 0 => /\ loads'[dialog.of].fetch # "idle" <=>
                               loads[dialog.of].fetch # "idle"
                         /\ loads'[dialog.of].loaded = loads[dialog.of].loaded
    BY <1>0, <2>1, <2>2, <2>3
  <2> QED
    BY <1>2, <2>1, <2>4 DEF SameButExtra
<1>10. ASSUME NEW r \in Records, LoadArrives(r)
       PROVE  DialogFits'
  <2>1. /\ SameButExtra /\ loads[r].fetch = "answered"
        /\ LoadFits(loads[r], r, Known, Dead)
        /\ LoadsChange(r, Delivered(loads[r], Nothing))
    BY <1>10, LoadArrivesExtra DEF LoadsFit
  <2>2. /\ dialog.open /\ dialog'.of = dialog.of
        /\ ExtraFits(loads[r].answer, r, Dead)
    BY <2>1 DEF SameButExtra, LoadFits
  <2>3. CASE page.extra = "after"
    <3>1. dialog.of = r /\ dialog'.form["extra"] = loads[r].answer
      BY <1>10, <2>1, <2>3, LoadArrivesExtra DEF LoadsInDialog
    <3> QED
      BY <1>1, <2>2, <3>1
  <2>4. CASE dialog.of = r /\ dialog'.form["extra"] = loads[r].answer
    BY <1>1, <2>2, <2>4
  <2>5. CASE /\ page.extra = "before" /\ dialog.of = r /\ UNCHANGED dialog
             /\ loads[r].data = loads[r].answer
    <3>1. UNCHANGED dialog /\ r # 0
      BY <2>5, DialogsAssumption
    <3>2. DialogFits
      BY <1>0, <2>2 DEF DialogHasExtra
    <3>3. CASE ExtraFits(dialog.form["extra"], r, Dead)
      BY <1>1, <2>5, <3>1, <3>3
    <3>4. CASE dialog.unset
      BY <2>5, <3>1, <3>4 DEF DialogFits
    <3>5. CASE ~loads[r].loaded
      <4>1. loads[r].answer = Nothing
        BY <2>1, <2>5, <3>5 DEF LoadFits
      <4>2. r \in Dead
        BY <2>2, <3>1, <4>1 DEF ExtraFits, Nothing, Text
      <4> QED
        BY <1>1, <2>5, <3>1, <4>2 DEF ExtraFits
    <3> QED
      BY <2>5, <3>2, <3>3, <3>4, <3>5 DEF DialogFits
  <2>6. CASE page.extra = "before" /\ dialog.of # r
    <3>1. UNCHANGED dialog
      BY <1>10, <2>6, LoadArrivesExtra
    <3>2. dialog.of # 0 => loads'[dialog.of] = loads[dialog.of]
      BY <1>0, <2>1, <2>6, LoadsChanged
    <3> QED
      BY <1>2, <2>1, <2>2, <3>1, <3>2
  <2> QED
    BY <1>0, <1>10, <2>3, <2>4, <2>5, <2>6, LoadArrivesExtra
<1>11. ASSUME NEW r \in Records, LoadFails(r)
       PROVE  DialogFits'
  <2>1. page.extra = "after" /\ dialog'.form["extra"] = Nothing
    BY <1>0, <1>11, LoadFailsExtra
  <2> QED
    BY <2>1 DEF DialogFits, Nothing, Text
<1> QED
  BY <1>3, <1>4, <1>5, <1>6, <1>7, <1>8, <1>9, <1>10, <1>11 DEF LoadsStep

\* What a save that starts has read, is the extra thing of its own record.
LEMMA SavesExtra ==
    ASSUME Typed, DialogHasExtra, Saves, ~ExtraCrossed', page.extra # "none"
    PROVE  /\ dialog.open /\ UNCHANGED <<dialog, loads>>
           /\ request'.of = dialog.of /\ (request'.new <=> dialog.of = 0)
           /\ ExtraFits(dialog.form["extra"], dialog.of, Dead)
           /\ dialog.of # 0 => loads[dialog.of].fetch = "idle"
<1>1. /\ dialog.open /\ UNCHANGED <<dialog, loads>>
      /\ request'.of = dialog.of /\ (request'.new <=> dialog.of = 0)
      /\ page.extra = "after" => dialog.form["extra"].n # 0
      /\ ~ExtraRead => "extra" \in crossed'
      /\ dialog.unset => "reopened" \in crossed'
  BY SaveOffered DEF Saves
<1>2. ExtraRead /\ ~dialog.unset
  BY <1>1 DEF ExtraCrossed
<1>3. DialogFits
  BY <1>1 DEF DialogHasExtra
<1> QED
  BY <1>1, <1>2, <1>3 DEF ExtraRead, DialogFits

LEMMA SaveHasExtraNext ==
    ASSUME Typed, StoredSteps, LoadsStep, Saves \/ RequestStep, UNCHANGED page,
           ~ExtraCrossed', LoadsInDialog, DialogHasExtra, SaveHasExtra
    PROVE  SaveHasExtra'
<1> SUFFICES ASSUME page.extra # "none", request'.phase \in {"sent", "done"}
             PROVE  SecondToCome'
  BY DEF SaveHasExtra
<1>0. /\ Dead \subseteq Dead' /\ dialog.of \in Records \cup {0}
      /\ page.extra \in {"before", "after"} /\ 0 \notin Records
  BY KnownGrows, DialogTypes, PageFacts, DialogsAssumption DEF Typed, Shape
<1>1. CASE Saves
  <2>1. /\ dialog.open /\ UNCHANGED <<dialog, loads>>
        /\ request'.of = dialog.of /\ (request'.new <=> dialog.of = 0)
        /\ ExtraFits(dialog.form["extra"], dialog.of, Dead)
        /\ dialog.of # 0 => loads[dialog.of].fetch = "idle"
    BY <1>1, SavesExtra
  <2> QED
    BY <1>0, <2>1 DEF SecondToCome, ExtraFits
<1>2. CASE SaveArrives
  <2>1. request.phase = "sent" /\ UNCHANGED <<dialog, loads>>
    BY <1>2, SaveArrivesCases, Zenon
  <2>2. request'.new = request.new /\ (~request.new => request'.of = request.of)
    <3>1. \/ request' = [request EXCEPT !.phase = "done"]
          \/ request' = [request EXCEPT !.phase = "failed"]
          \/ request.new /\ \E r : request' = [request EXCEPT !.phase = "done", !.of = r]
      BY <1>2, SaveArrivesCases, Zenon
    <3>2. CASE \/ request' = [request EXCEPT !.phase = "done"]
               \/ request' = [request EXCEPT !.phase = "failed"]
      BY <3>2, DialogTypes DEF Requests
    <3>3. ASSUME NEW r, request' = [request EXCEPT !.phase = "done", !.of = r]
          PROVE  request'.new = request.new
      BY <3>3, DialogTypes DEF Requests
    <3> QED
      BY <3>1, <3>2, <3>3, Zenon
  <2>3. SecondToCome
    BY <2>1 DEF SaveHasExtra
  <2> QED
    BY <1>0, <2>1, <2>2, <2>3 DEF SecondToCome, ExtraFits
<1>3. CASE UNCHANGED request
  <2>0. SecondToCome /\ dialog.open
    BY <1>3 DEF SaveHasExtra, SecondToCome
  <2>1. ASSUME SameButExtra, dialog'.form["extra"] = dialog.form["extra"]
                               \/ dialog'.form["extra"].of = dialog.of,
               dialog.of # 0 => loads'[dialog.of].fetch = "idle"
        PROVE  SecondToCome'
    BY <1>0, <1>3, <2>0, <2>1 DEF SecondToCome, ExtraFits, SameButExtra
  <2>2. dialog.of # 0 => loads[dialog.of].fetch = "idle"
    BY <2>0 DEF SecondToCome
  <2>3. CASE UNCHANGED <<loads, dialog>>
    BY <2>1, <2>2, <2>3 DEF SameButExtra
  <2>4. ~OpensCreate /\ \A r \in Records : ~OpensClone(r) /\ ~OpensEdit(r)
    BY <2>0, DialogChanges, OpensEditExtra
  <2>5. ~Cancels
    <3>1. Cancels => (Saving /\ page.extra # "none" => "extra" \in crossed')
      BY DEF Cancels
    <3> QED
      BY <1>3, <3>1 DEF Saving, ExtraCrossed
  <2>6. request' \notin {NoRequest, Second} /\ ~ExtraEnds
    <3>1. NoRequest.phase = "idle" /\ Second.phase = "second"
      BY DialogTypes DEF NoRequest, Second, Requests
    <3>2. request'.phase \notin {"idle", "second"}
      OBVIOUS
    <3> QED
      BY <3>1, <3>2, ExtraEndsExtra
  <2>7. CASE UNCHANGED loads /\ (QuickEnds \/ \E f \in DOMAIN EmptyForm : Types(f))
    BY <2>1, <2>2, <2>7, DialogChanges
  <2>8. ASSUME NEW r \in Records, LoadAnswers(r) \/ LoadArrives(r) \/ LoadFails(r)
        PROVE  SecondToCome'
    <3>1. dialog.of # r
      BY <2>2, <2>8, DialogsAssumption, LoadAnswersExtra, LoadArrivesExtra, LoadFailsExtra
    <3>2. page.extra = "before"
      BY <1>0, <2>8, <3>1, LoadAnswersExtra, LoadArrivesExtra, LoadFailsExtra
      DEF LoadsInDialog
    <3>3. UNCHANGED dialog
      BY <2>8, <3>1, <3>2, LoadAnswersExtra, LoadArrivesExtra, LoadFailsExtra
    <3>4. \A s \in Records \ {r} : loads'[s] = loads[s]
      BY <2>8, LoadAnswersExtra, LoadArrivesExtra, LoadFailsExtra, LoadsChanged
    <3> QED
      BY <1>0, <2>1, <2>2, <3>1, <3>3, <3>4 DEF SameButExtra
  <2> QED
    BY <2>3, <2>4, <2>5, <2>6, <2>7, <2>8 DEF LoadsStep
<1> QED
  BY <1>1, <1>2, <1>3, RequestPhases

LEMMA SecondHasExtraNext ==
    ASSUME Typed, StoredSteps, Saves \/ RequestStep, UNCHANGED page,
           SaveHasExtra, SecondHasExtra
    PROVE  SecondHasExtra'
<1>0. Dead \subseteq Dead' /\ Shape(page) /\ request \in Requests
  BY KnownGrows, PageFacts, DialogTypes DEF Typed
<1>1. CASE UNCHANGED request
  BY <1>0, <1>1 DEF SecondHasExtra, ExtraFits
<1>2. CASE request'.phase \notin {"second", "secondDone", "secondFailed"}
  BY <1>2 DEF SecondHasExtra
<1>3. CASE Saves
  BY <1>2, <1>3 DEF Saves
<1>4. CASE SaveArrives
  <2>1. \/ request' = [request EXCEPT !.phase = "done"]
        \/ request' = [request EXCEPT !.phase = "failed"]
        \/ \E r : request' = [request EXCEPT !.phase = "done", !.of = r]
    BY <1>4, SaveArrivesCases, Zenon
  <2>2. CASE \/ request' = [request EXCEPT !.phase = "done"]
             \/ request' = [request EXCEPT !.phase = "failed"]
    BY <1>0, <1>2, <2>2 DEF Requests
  <2>3. ASSUME NEW r, request' = [request EXCEPT !.phase = "done", !.of = r]
        PROVE  SecondHasExtra'
    BY <1>0, <1>2, <2>3 DEF Requests
  <2> QED
    BY <2>1, <2>2, <2>3, Zenon
<1>5. CASE SaveFails \/ RefreshEnds \/ ExtraEnds \/ ExtraFails
  <2>1. request' = NoRequest
    BY <1>5, Zenon DEF SaveFails, RefreshEnds, ExtraEnds, ExtraFails
  <2> QED
    BY <1>2, <2>1 DEF NoRequest
<1>6. CASE SaveEnds
  <2>1. /\ request.phase = "done"
        /\ \/ page.extra = "before" /\ request' = [request EXCEPT !.phase = "secondDone"]
           \/ page.extra # "none" /\ request' = Second
           \/ request' = [request EXCEPT !.phase = "refreshing"]
           \/ request' = NoRequest
    <3>1. page.extra \in {"before", "after"} => page.extra # "none"
      OBVIOUS
    <3>2. "before" \in {"before", "after"} /\ "after" \in {"before", "after"}
      OBVIOUS
    <3> QED
      BY <1>0, <1>6, <3>1, <3>2, SaveEndsCases, Zenon
  <2>2. CASE page.extra = "before" /\ request' = [request EXCEPT !.phase = "secondDone"]
    BY <1>0, <2>2 DEF SecondHasExtra, Requests
  <2>3. CASE page.extra # "none" /\ request' = Second
    <3>1. /\ request'.form = dialog.form /\ request'.new = request.new
          /\ request'.of = request.of
      BY <1>0, <2>3 DEF Second, Requests
    <3>2. /\ ExtraFits(dialog.form["extra"], dialog.of, Dead)
          /\ dialog.of = IF request.new THEN 0 ELSE request.of
      BY <2>1, <2>3 DEF SaveHasExtra, SecondToCome
    <3> QED
      BY <1>0, <2>3, <3>1, <3>2 DEF SecondHasExtra, ExtraFits
  <2>4. CASE request' = [request EXCEPT !.phase = "refreshing"] \/ request' = NoRequest
    BY <1>0, <1>2, <2>4 DEF Requests, NoRequest
  <2> QED
    BY <2>1, <2>2, <2>3, <2>4
<1>7. CASE ExtraArrives
  <2>1. /\ request.phase = "second"
        /\ \/ request' = [request EXCEPT !.phase = "secondDone"]
           \/ request' = [request EXCEPT !.phase = "secondFailed"]
    BY <1>7, Zenon DEF ExtraArrives
  <2>2. request'.phase # "second"
    BY <1>0, <2>1 DEF Requests
  <2>3. page.extra # "none"
    BY <2>1 DEF SecondHasExtra
  <2> QED
    BY <2>2, <2>3 DEF SecondHasExtra
<1> QED
  BY <1>1, <1>3, <1>4, <1>5, <1>6, <1>7 DEF RequestStep

LEMMA ExtraInvNext == Typed /\ ExtraInv /\ [Next]_vars => ExtraInv'
<1> SUFFICES ASSUME Typed, ExtraInv, [Next]_vars
             PROVE  ExtraInv'
  OBVIOUS
<1>1. /\ StoredSteps /\ DialogStep /\ UNCHANGED page /\ ListStep /\ LoadsStep
      /\ Saves \/ RequestStep
  BY NextStores, NextDialog, NextList, NextLoads, NextRequest
<1>2. KnownInv /\ KnownInv'
  BY <1>1, KnownInvNext DEF ExtraInv
<1>3. ASSUME ~ExtraCrossed'
      PROVE  ExtraKept'
  <2>1. ExtraKept
    BY <1>1, <1>3, CrossedGrows DEF ExtraCrossed, ExtraInv
  <2> QED
    BY <1>1, <1>2, <1>3, <2>1, StoredExtraNext, LoadsFitNext, LoadsInDialogNext,
       DialogHasExtraNext, SaveHasExtraNext, SecondHasExtraNext DEF ExtraKept
<1> QED
  BY <1>2, <1>3 DEF ExtraInv

LEMMA ExtraInvInit == Init => ExtraInv
<1> SUFFICES ASSUME Init
             PROVE  ExtraInv
  OBVIOUS
<1>1. list.data = Blank /\ list.fetch = "sent"
  BY DEF Init, Fetched, Unfetched
<1>2. dialog.of = 0 /\ ~dialog.open /\ request.phase = "idle"
  BY DEF Init, NoRequest
<1>3. \A r \in Records : loads[r] = Unfetched(Nothing)
  BY DEF Init
<1>4. KnownInv
  BY <1>1, <1>2 DEF KnownInv, TableKnown, Blank, Content
<1>5. StoredExtra
  <2>1. PICK kept : stored = [r \in Records |->
                                IF r \in kept THEN Content(TRUE, 0, Original(r))
                                ELSE Content(FALSE, 0, EmptyForm)]
    BY Zenon DEF Init
  <2> SUFFICES ASSUME NEW r \in Records, stored[r].there
               PROVE  stored[r].form["extra"].of = r
    BY DEF StoredExtra
  <2>2. stored[r] = IF r \in kept THEN Content(TRUE, 0, Original(r))
                    ELSE Content(FALSE, 0, EmptyForm)
    BY <2>1
  <2>3. stored[r].form = Original(r)
    BY <2>2 DEF Content
  <2> QED
    BY <2>3 DEF Original, EmptyForm, Text
<1>6. LoadsFit /\ LoadsInDialog
  BY <1>3 DEF LoadsFit, LoadsInDialog, LoadFits, Unfetched
<1>7. DialogHasExtra /\ SaveHasExtra /\ SecondHasExtra
  BY <1>2 DEF DialogHasExtra, SaveHasExtra, SecondHasExtra
<1> QED
  BY <1>4, <1>5, <1>6, <1>7 DEF ExtraInv, ExtraKept

------------------------------------------------------------------------------
(* The theorems.                                                            *)

LEMMA Inductive ==
    /\ Init => IInv
    /\ IInv /\ [Next]_vars => IInv'
<1>1. Init => IInv
  BY TypedInit, ListInvInit, FormsInvInit, ExtraInvInit DEF IInv
<1>2. IInv /\ [Next]_vars => IInv'
  BY TypedNext, ListInvNext, FormsInvNext, ExtraInvNext DEF IInv
<1> QED
  BY <1>1, <1>2

\* The invariant of all pages: every variable keeps its type, and the table, the
\* texts and the extra things keep what is said of them above.
THEOREM DialogsInvariant == Spec => []IInv
BY Inductive, PTL DEF Spec

\* However saves, answers and dialogs are interleaved, a text that was typed, a
\* secret or a link is stored in the record it was meant for, with the exceptions
\* of TypedGoesHome (CrudPage.tsx:257, GitReposPage.tsx:181).
THEOREM TextsGoHome == Spec => []TypedGoesHome
<1>1. IInv => TypedGoesHome
  BY DEF IInv, FormsInv, TablesFit, TableFits, FormFits, TextFits, SecretFits, LinkFits,
     TypedGoesHome, OwnIn
<1> QED
  BY <1>1, DialogsInvariant, PTL

\* The fields of an app and the schedule of a template stay its own, unless a dialog
\* was closed or saved with something pending, or a template was opened again for
\* which the effect did not run (AppsPage.tsx:352-362, JobTemplatesPage.tsx:137-144).
THEOREM ExtrasGoHome == Spec => []ExtraGoesHome
<1>1. IInv => ExtraGoesHome
  BY DEF IInv, ExtraInv, ExtraKept, StoredExtra, ExtraCrossed, ExtraGoesHome, OwnIn
<1> QED
  BY <1>1, DialogsInvariant, PTL

\* Once nothing is pending and the table has been read again, it shows this page's
\* writes (CrudPage.tsx:451-462), but for what stopped halfway.
THEOREM WritesAreListed == Spec => []ListShowsOwnWrites
<1>1. IInv => ListShowsOwnWrites
  <2> SUFFICES ASSUME IInv, ~list.stale, list.fetch = "idle", bulk.kind = "none",
                      ~Saving, NEW r \in Records \ unlisted
               PROVE  list.data[r].version >= mine[r]
    BY DEF ListShowsOwnWrites
  <2>1. ~Pending(r)
    BY DEF IInv, ListInv, NothingChecked, Saving, Pending
  <2>2. mine[r] <= list.data[r].version
    BY <2>1 DEF IInv, ListInv, Listed
  <2>3. mine[r] \in Nat /\ list.data[r].version \in Nat
    BY CellTypes DEF IInv, Typed
  <2> QED
    BY <2>2, <2>3
<1> QED
  BY <1>1, DialogsInvariant, PTL
==============================================================================
