-------------------------- MODULE FieldEditorsProofs --------------------------
(***************************************************************************)
(* Proofs about FieldEditors for any records, saves, texts and incidents.  *)
(*                                                                         *)
(* A text travels: from the backend to the answer of a fetch, the cache,   *)
(* the draft, a save, and back.  SavesGoHome and NothingErasedUnseen hold  *)
(* because it is a text that fits its record (Fits) wherever it is on the  *)
(* way, although the editor goes on with other records meanwhile.          *)
(* TypingSurvives also needs that an entry without data holds none, and    *)
(* that no two saves write the same version.                               *)
(*                                                                         *)
(* NotBehindOwnSave is about versions, on the same way: SeenInv, in the    *)
(* second half, which rests on the invariant of the first.                 *)
(***************************************************************************)
EXTENDS FieldEditors, TLAPS

Texts == [of : Nat, n : Nat]
Contents == [text : Texts, version : Nat, secret : {"real", "mask", "lost"}]
Queries == [loaded : BOOLEAN, data : Contents, stale : BOOLEAN,
            fetch : {"idle", "sent", "answered"}, answer : Contents]
Drafts == [set : BOOLEAN, typed : BOOLEAN, from : Contents, text : Texts]
SaveStates == [phase : {"none", "sent", "done", "over"}, of : Records \cup {0},
               at : Records \cup {0}, draft : Drafts, current : BOOLEAN,
               result : Contents]

Typed ==
    /\ editor \in Editors
    /\ stored \in [Records -> Contents] /\ cache \in [Records -> Queries]
    /\ open \in Records \cup {0} /\ draft \in Drafts
    /\ file \in Texts /\ strayed \subseteq Records
    /\ saves \in [1..MaxSaves -> SaveStates]
    /\ mine \in [Records -> Contents]
    /\ texts \in Nat /\ versions \in Nat

------------------------------------------------------------------------------
\* A text that record r may be given, in editor e, when st are the records that
\* have got the file chosen for another one.
Fits(e, st, text, r) ==
    /\ text.of \in Records
    /\ e.after # "puts" => text.of = r \/ r \in st
    /\ e.unloaded \notin {"empty", "failed"} => text.n # 0

QueryFits(e, st, q, r) ==
    /\ IF q.loaded THEN Fits(e, st, q.data.text, r) ELSE q.data = Blank
    /\ q.fetch = "answered" => Fits(e, st, q.answer.text, r)

DraftFits(e, st, d, r) ==
    (d.typed => d.set) /\ (d.set => r \in Records /\ Fits(e, st, d.text, r))

Waiting(s) == s.phase \in {"sent", "done"}

SaveFits(e, st, s) ==
    /\ Waiting(s) =>
         /\ s.of \in Records /\ s.at \in Records
         /\ IF s.draft.set THEN Fits(e, st, s.draft.text, s.of)
            ELSE /\ s.draft.text = Text(s.of, 0)
                 /\ e.unloaded \in {"empty", "nothing", "failed"}
    /\ s.phase = "done" => Fits(e, st, s.result.text, s.of)

\* The handler of a save that is still shown is that of the record on the screen.
AtHome(e, s, r) ==
    s.current => /\ Waiting(s) /\ s.at = r /\ r \in Records
                 /\ ~e.moves => s.of = r

StoredInv == \A r \in Records : Fits(editor, strayed, stored[r].text, r)
CacheInv == \A r \in Records : QueryFits(editor, strayed, cache[r], r)
SavesInv == \A i \in 1..MaxSaves : /\ SaveFits(editor, strayed, saves[i])
                                   /\ AtHome(editor, saves[i], open)
FileInv == file # NoFile => open # 0 /\ file.of \in Records /\ file.n # 0
OneIsShown == \A i, j \in 1..MaxSaves : saves[i].current /\ saves[j].current => i = j

TextsInv ==
    /\ StoredInv /\ CacheInv /\ DraftFits(editor, strayed, draft, open)
    /\ SavesInv /\ OneIsShown /\ FileInv

\* Versions tell the saves apart, in an editor whose saves always write.
VersionsInv ==
    editor.unloaded # "nothing" =>
        /\ \A r \in Records : mine[r].version <= versions
        /\ \A i \in 1..MaxSaves : saves[i].phase = "done" =>
             /\ saves[i].result.version <= versions
             /\ \A r \in Records : mine[r].version # saves[i].result.version
             /\ \A j \in 1..MaxSaves \ {i} : saves[j].phase = "done" =>
                  saves[j].result.version # saves[i].result.version

IInv == Typed /\ TextsInv /\ VersionsInv

------------------------------------------------------------------------------
(* What the editors are, and what they offer.                               *)

Shape(e) ==
    /\ e.takes \in {"first", "follows"}
    /\ e.moves \in BOOLEAN
    /\ e.after = "form" => ~e.moves /\ e.unloaded = "failed"

LEMMA EditorFacts ==
    ASSUME editor \in Editors
    PROVE  Shape(editor)
<1>1. Shape(FieldsYaml) /\ Shape(RoleFieldRows) /\ Shape(AnsibleDefaults)
  BY DEF Shape, FieldsYaml, RoleFieldRows, AnsibleDefaults
<1>2. Shape(HostTypeRoles) /\ Shape(GlobalDefaultRoles)
  BY DEF Shape, HostTypeRoles, GlobalDefaultRoles
<1>3. Shape(HostAppValues) /\ Shape(MonitoringForm) /\ Shape(RunnerForm) /\ Shape(HostVars)
  BY DEF Shape, HostAppValues, MonitoringForm, RunnerForm, HostVars
<1>4. editor \in {FieldsYaml, RoleFieldRows, AnsibleDefaults, HostTypeRoles,
                  GlobalDefaultRoles, HostAppValues, MonitoringForm, RunnerForm,
                  HostVars}
  BY DEF Editors, AppFields, RoleFields, HostTypeFields, StatusFields, BitwardenForm
<1> QED
  BY <1>1, <1>2, <1>3, <1>4

LEMMA OpenOffered ==
    ASSUME NEW r, <<"open", r>> \in EditorOffers
    PROVE  open = 0
BY DEF EditorOffers

LEMMA MoveOffered ==
    ASSUME NEW r, <<"move", r>> \in EditorOffers
    PROVE  open # 0 /\ editor.moves /\ r \in Records \ {open}
BY DEF EditorOffers

LEMMA CloseOffered ==
    ASSUME <<"close">> \in EditorOffers
    PROVE  open # 0
BY DEF EditorOffers

LEMMA TypeOffered ==
    ASSUME <<"type">> \in EditorOffers
    PROVE  open # 0
BY DEF EditorOffers

LEMMA ImportOffered ==
    ASSUME <<"import">> \in EditorOffers
    PROVE  open # 0 /\ file = NoFile
BY DEF EditorOffers

LEMMA SaveIsOffered ==
    ASSUME <<"save">> \in EditorOffers
    PROVE  open # 0 /\ SaveOffered
BY DEF EditorOffers

LEMMA BlankTyped ==
    Blank \in Contents /\ NoDraft \in Drafts /\ Text(0, 0) \in Texts
BY DEF Blank, Content, Contents, Text, Texts, NoDraft, Drafts

------------------------------------------------------------------------------
(* Queries, drafts and saves one by one.                                    *)

LEMMA QueryOps ==
    ASSUME NEW e, NEW st, NEW r, NEW q \in Queries, QueryFits(e, st, q, r)
    PROVE  /\ MountedQuery(q) \in Queries /\ QueryFits(e, st, MountedQuery(q), r)
           /\ Invalidated(q) \in Queries /\ QueryFits(e, st, Invalidated(q), r)
           /\ Refetched(q) \in Queries /\ QueryFits(e, st, Refetched(q), r)
           /\ FetchFailed(q) \in Queries /\ QueryFits(e, st, FetchFailed(q), r)
           /\ Fetched(Invalidated(q)) \in Queries
           /\ QueryFits(e, st, Fetched(Invalidated(q)), r)
<1>1. MountedQuery(q) \in Queries /\ QueryFits(e, st, MountedQuery(q), r)
  BY DEF MountedQuery, Fetched, Queries, QueryFits
<1>2. Invalidated(q) \in Queries /\ QueryFits(e, st, Invalidated(q), r)
  BY DEF Invalidated, Queries, QueryFits
<1>3. Refetched(q) \in Queries /\ QueryFits(e, st, Refetched(q), r)
  BY DEF Refetched, Invalidated, Queries, QueryFits
<1>4. FetchFailed(q) \in Queries /\ QueryFits(e, st, FetchFailed(q), r)
  BY DEF FetchFailed, Queries, QueryFits
<1>5. /\ Fetched(Invalidated(q)) \in Queries
      /\ QueryFits(e, st, Fetched(Invalidated(q)), r)
  BY <1>2 DEF Fetched, Queries, QueryFits
<1> QED
  BY <1>1, <1>2, <1>3, <1>4, <1>5

LEMMA TakenFits ==
    ASSUME NEW e, NEW st, NEW r \in Records, NEW data \in Contents, Fits(e, st, data.text, r)
    PROVE  Taken(data) \in Drafts /\ DraftFits(e, st, Taken(data), r)
BY DEF Taken, Drafts, DraftFits, Contents

LEMMA NoDraftFits ==
    ASSUME NEW e, NEW st, NEW r
    PROVE  NoDraft \in Drafts /\ DraftFits(e, st, NoDraft, r)
BY BlankTyped DEF NoDraft, DraftFits

LEMMA DraftForFits ==
    ASSUME Typed, CacheInv, NEW r \in Records
    PROVE  DraftFor(r) \in Drafts /\ DraftFits(editor, strayed, DraftFor(r), r)
<1>1. cache[r] \in Queries /\ QueryFits(editor, strayed, cache[r], r)
  BY DEF Typed, CacheInv
<1>2. cache[r].data \in Contents
  BY <1>1 DEF Queries
<1> QED
  BY <1>1, <1>2, TakenFits, NoDraftFits DEF DraftFor, QueryFits

LEMMA DraftAfterFits ==
    ASSUME Typed, DraftFits(editor, strayed, draft, open), open \in Records, NEW old,
           NEW new \in Queries, QueryFits(editor, strayed, new, open)
    PROVE  /\ DraftAfter(old, new) \in Drafts
           /\ DraftFits(editor, strayed, DraftAfter(old, new), open)
<1>1. draft \in Drafts /\ new.data \in Contents
  BY DEF Typed, Queries
<1>2. new.loaded => /\ Taken(new.data) \in Drafts
                    /\ DraftFits(editor, strayed, Taken(new.data), open)
  BY <1>1, TakenFits DEF QueryFits
<1>3. Shape(editor)
  BY EditorFacts DEF Typed
<1>4. DraftAfter(old, new) = draft \/ (new.loaded /\ DraftAfter(old, new) = Taken(new.data))
  BY <1>3 DEF DraftAfter, Shape, FollowsChanges
<1> QED
  BY <1>1, <1>2, <1>4

\* A query of one record changes, and nothing that another one reads.
LEMMA CacheChanges ==
    ASSUME Typed, CacheInv, NEW r \in Records, NEW q \in Queries,
           QueryFits(editor, strayed, q, r), cache' = [cache EXCEPT ![r] = q],
           UNCHANGED <<editor, strayed>>
    PROVE  cache' \in [Records -> Queries] /\ CacheInv'
BY DEF Typed, CacheInv

\* Versions do not matter to what neither writes nor answers a save.
LEMMA VersionsSame ==
    ASSUME VersionsInv, UNCHANGED <<editor, mine, versions>>,
           \A i \in 1..MaxSaves : /\ saves'[i].phase = saves[i].phase
                                  /\ saves'[i].result = saves[i].result
    PROVE  VersionsInv'
<1>1. CASE editor.unloaded = "nothing"
  BY <1>1 DEF VersionsInv
<1>2. CASE editor.unloaded # "nothing"
  <2>1. ASSUME NEW i \in 1..MaxSaves, saves'[i].phase = "done"
        PROVE  /\ saves'[i].result.version <= versions'
               /\ \A r \in Records : mine'[r].version # saves'[i].result.version
               /\ \A j \in 1..MaxSaves \ {i} : saves'[j].phase = "done" =>
                    saves'[j].result.version # saves'[i].result.version
    BY <1>2, <2>1 DEF VersionsInv
  <2> QED
    BY <1>2, <2>1 DEF VersionsInv
<1> QED
  BY <1>1, <1>2

LEMMA VersionsKept ==
    ASSUME VersionsInv, UNCHANGED <<editor, mine, saves, versions>>
    PROVE  VersionsInv'
BY VersionsSame

LEMMA SavesKept ==
    ASSUME SavesInv, OneIsShown, UNCHANGED <<editor, strayed, saves, open>>
    PROVE  SavesInv' /\ OneIsShown'
BY DEF SavesInv, OneIsShown

------------------------------------------------------------------------------
(* The page.                                                                *)

LEMMA OpensKeeps ==
    ASSUME IInv, NEW r \in Records, Opens(r)
    PROVE  IInv'
<1>1. Typed /\ CacheInv /\ SavesInv
  BY DEF IInv, TextsInv
<1>2. /\ open = 0 /\ open' = r /\ draft' = DraftFor(r)
      /\ cache' = [cache EXCEPT ![r] = MountedQuery(cache[r])]
      /\ UNCHANGED <<editor, strayed, file, stored, saves, mine, texts, versions>>
  BY <1>1, OpenOffered DEF Opens, Typed
<1>3. MountedQuery(cache[r]) \in Queries /\ QueryFits(editor, strayed, MountedQuery(cache[r]), r)
  BY <1>1, QueryOps DEF Typed, CacheInv
<1>4. cache' \in [Records -> Queries] /\ CacheInv'
  BY <1>1, <1>2, <1>3, CacheChanges
<1>5. draft' \in Drafts /\ DraftFits(editor, strayed, draft', r)
  BY <1>1, <1>2, DraftForFits
<1>6. SavesInv' /\ OneIsShown'
  <2>1. 0 \notin Records
    BY EditorsAssumption
  <2> QED
    BY <1>1, <1>2, <2>1 DEF SavesInv, AtHome, OneIsShown, IInv, TextsInv
<1> QED
  BY <1>2, <1>4, <1>5, <1>6, VersionsKept, EditorsAssumption
     DEF IInv, Typed, TextsInv, FileInv, StoredInv

LEMMA MovesKeeps ==
    ASSUME IInv, NEW r \in Records, Moves(r)
    PROVE  IInv'
<1>1. Typed /\ CacheInv /\ SavesInv /\ VersionsInv
  BY DEF IInv, TextsInv
<1>2. /\ editor.moves /\ open' = r /\ draft' = DraftFor(r)
      /\ cache' = [cache EXCEPT ![r] = MountedQuery(cache[r])]
      /\ saves' = [i \in 1..MaxSaves |->
                     IF saves[i].current THEN [saves[i] EXCEPT !.at = r]
                     ELSE saves[i]]
      /\ UNCHANGED <<editor, strayed, file, stored, mine, texts, versions>>
  BY <1>1, MoveOffered DEF Moves, Typed
<1>3. MountedQuery(cache[r]) \in Queries /\ QueryFits(editor, strayed, MountedQuery(cache[r]), r)
  BY <1>1, QueryOps DEF Typed, CacheInv
<1>4. cache' \in [Records -> Queries] /\ CacheInv'
  BY <1>1, <1>2, <1>3, CacheChanges
<1>5. draft' \in Drafts /\ DraftFits(editor, strayed, draft', r)
  BY <1>1, <1>2, DraftForFits
<1>6. \A i \in 1..MaxSaves :
        /\ saves'[i] \in SaveStates
        /\ saves'[i].phase = saves[i].phase /\ saves'[i].of = saves[i].of
        /\ saves'[i].draft = saves[i].draft /\ saves'[i].result = saves[i].result
        /\ saves'[i].current = saves[i].current
        /\ saves'[i].at = IF saves[i].current THEN r ELSE saves[i].at
  BY <1>1, <1>2 DEF Typed, SaveStates
<1>7. SavesInv' /\ OneIsShown'
  BY <1>1, <1>2, <1>6
     DEF SavesInv, SaveFits, AtHome, Waiting, OneIsShown, IInv, TextsInv
<1>8. VersionsInv'
  BY <1>1, <1>2, <1>6, VersionsSame
<1>9. saves' \in [1..MaxSaves -> SaveStates] /\ r # 0
  BY <1>2, <1>6, EditorsAssumption
<1> QED
  BY <1>2, <1>4, <1>5, <1>7, <1>8, <1>9 DEF IInv, Typed, TextsInv, FileInv, StoredInv

LEMMA ClosesKeeps ==
    ASSUME IInv, Closes
    PROVE  IInv'
<1>1. Typed /\ SavesInv /\ VersionsInv
  BY DEF IInv, TextsInv
<1>2. /\ open' = 0 /\ draft' = NoDraft /\ file' = NoFile
      /\ saves' = [i \in 1..MaxSaves |-> [saves[i] EXCEPT !.current = FALSE]]
      /\ UNCHANGED <<editor, strayed, stored, cache, mine, texts, versions>>
  BY DEF Closes
<1>3. \A i \in 1..MaxSaves :
        /\ saves'[i] \in SaveStates
        /\ saves'[i].phase = saves[i].phase /\ saves'[i].of = saves[i].of
        /\ saves'[i].draft = saves[i].draft /\ saves'[i].result = saves[i].result
        /\ saves'[i].current = FALSE /\ saves'[i].at = saves[i].at
  BY <1>1, <1>2 DEF Typed, SaveStates
<1>4. SavesInv' /\ OneIsShown'
  BY <1>1, <1>2, <1>3 DEF SavesInv, SaveFits, AtHome, Waiting, OneIsShown
<1>5. VersionsInv'
  BY <1>1, <1>2, <1>3, VersionsSame
<1>6. saves' \in [1..MaxSaves -> SaveStates] /\ NoFile \in Texts
  BY <1>2, <1>3, BlankTyped DEF NoFile
<1> QED
  BY <1>2, <1>4, <1>5, <1>6, NoDraftFits
     DEF IInv, Typed, TextsInv, FileInv, StoredInv, CacheInv

LEMMA TypesKeeps ==
    ASSUME IInv, Types
    PROVE  IInv'
<1>1. Typed /\ open \in Records
  BY TypeOffered DEF IInv, Types, Typed
<1>2. /\ texts' = texts + 1
      /\ draft' = [draft EXCEPT !.set = TRUE, !.typed = TRUE,
                                !.text = Text(open, texts + 1)]
      /\ UNCHANGED <<editor, strayed, file, stored, cache, open, saves, mine, versions>>
  BY DEF Types
<1>3. Text(open, texts + 1) \in Texts /\ Fits(editor, strayed, Text(open, texts + 1), open)
  BY <1>1, EditorsAssumption DEF Text, Texts, Fits, Typed
<1>4. draft' \in Drafts /\ DraftFits(editor, strayed, draft', open)
  BY <1>1, <1>2, <1>3 DEF Typed, Drafts, DraftFits
<1>5. texts' \in Nat
  BY <1>1, <1>2 DEF Typed
<1> QED
  BY <1>2, <1>4, <1>5, VersionsKept, SavesKept
     DEF IInv, Typed, TextsInv, FileInv, StoredInv, CacheInv

LEMMA ChoosesFileKeeps ==
    ASSUME IInv, ChoosesFile
    PROVE  IInv'
<1>1. Typed /\ open \in Records
  BY ImportOffered DEF IInv, ChoosesFile, Typed
<1>2. /\ texts' = texts + 1 /\ file' = Text(open, texts + 1)
      /\ UNCHANGED <<editor, strayed, stored, cache, open, draft, saves, mine, versions>>
  BY DEF ChoosesFile
<1>3. /\ texts' \in Nat /\ file' \in Texts /\ file'.of \in Records /\ file'.n # 0
      /\ open # 0
  BY <1>1, <1>2, EditorsAssumption DEF Text, Texts, Typed
<1> QED
  BY <1>2, <1>3, VersionsKept, SavesKept
     DEF IInv, Typed, TextsInv, FileInv, StoredInv, CacheInv

\* What fits goes on to fit when more records have strayed.
LEMMA MoreStray ==
    ASSUME NEW e, NEW st, NEW more, st \subseteq more
    PROVE  /\ \A t, r : Fits(e, st, t, r) => Fits(e, more, t, r)
           /\ \A q, r : QueryFits(e, st, q, r) => QueryFits(e, more, q, r)
           /\ \A d, r : DraftFits(e, st, d, r) => DraftFits(e, more, d, r)
           /\ \A s : SaveFits(e, st, s) => SaveFits(e, more, s)
<1>1. \A t, r : Fits(e, st, t, r) => Fits(e, more, t, r)
  BY DEF Fits
<1>2. \A q, r : QueryFits(e, st, q, r) => QueryFits(e, more, q, r)
  BY <1>1 DEF QueryFits
<1>3. \A d, r : DraftFits(e, st, d, r) => DraftFits(e, more, d, r)
  BY <1>1 DEF DraftFits
<1>4. \A s : SaveFits(e, st, s) => SaveFits(e, more, s)
  BY <1>1 DEF SaveFits
<1> QED
  BY <1>1, <1>2, <1>3, <1>4

LEMMA FileIsReadKeeps ==
    ASSUME IInv, FileIsRead
    PROVE  IInv'
<1>1. /\ Typed /\ FileInv /\ StoredInv /\ CacheInv /\ SavesInv /\ OneIsShown
      /\ DraftFits(editor, strayed, draft, open) /\ VersionsInv
  BY DEF IInv, TextsInv
<1>2. /\ file # NoFile /\ file' = NoFile
      /\ UNCHANGED <<editor, stored, cache, open, saves, mine, texts, versions>>
  BY DEF FileIsRead
<1>3. NoFile \in Texts /\ file \in Texts /\ file.of \in Records /\ file.n # 0
  BY <1>1, <1>2, BlankTyped DEF NoFile, FileInv, Typed
<1>4. \/ draft' = draft /\ strayed' = strayed
      \/ /\ draft' = [draft EXCEPT !.set = TRUE, !.typed = TRUE, !.text = file]
         /\ strayed' = IF file.of = open THEN strayed ELSE strayed \cup {open}
  BY DEF FileIsRead
<1>5. open \in Records
  BY <1>1, <1>2 DEF Typed, FileInv
<1>6. strayed' \subseteq Records /\ strayed \subseteq strayed'
  BY <1>1, <1>4, <1>5 DEF Typed
<1>7. draft' \in Drafts /\ DraftFits(editor, strayed', draft', open)
  <2>1. CASE draft' = draft
    BY <1>1, <1>6, <2>1, MoreStray DEF Typed
  <2>2. CASE /\ draft' = [draft EXCEPT !.set = TRUE, !.typed = TRUE, !.text = file]
             /\ strayed' = IF file.of = open THEN strayed ELSE strayed \cup {open}
    <3>1. /\ draft' \in Drafts /\ draft'.set /\ draft'.typed
          /\ draft'.text = file
      BY <1>1, <1>3, <2>2 DEF Typed, Drafts
    <3>2. file.of = open \/ open \in strayed'
      BY <2>2
    <3>3. Fits(editor, strayed', file, open)
      BY <1>3, <3>2 DEF Fits
    <3> QED
      BY <1>5, <3>1, <3>3 DEF DraftFits
  <2> QED
    BY <1>4, <2>1, <2>2
<1>8. /\ \A r \in Records : Fits(editor, strayed', stored[r].text, r)
      /\ \A r \in Records : QueryFits(editor, strayed', cache[r], r)
      /\ \A i \in 1..MaxSaves : SaveFits(editor, strayed', saves[i])
  BY <1>1, <1>6, MoreStray DEF StoredInv, CacheInv, SavesInv
<1>9. StoredInv' /\ CacheInv' /\ SavesInv' /\ OneIsShown'
  BY <1>1, <1>2, <1>8 DEF StoredInv, CacheInv, SavesInv, OneIsShown
<1>10. VersionsInv'
  BY <1>1, <1>2, VersionsKept
<1> QED
  BY <1>1, <1>2, <1>3, <1>6, <1>7, <1>9, <1>10 DEF IInv, Typed, TextsInv, FileInv

LEMMA SavesKeeps ==
    ASSUME IInv, NEW i \in 1..MaxSaves, Saves(i)
    PROVE  IInv'
<1> DEFINE s == [NoSave EXCEPT !.phase = "sent", !.of = open, !.at = open,
                               !.draft = Sent, !.current = TRUE]
<1>1. Typed /\ SavesInv /\ VersionsInv /\ DraftFits(editor, strayed, draft, open)
  BY DEF IInv, TextsInv
<1>2. open \in Records /\ SaveOffered
  BY <1>1, SaveIsOffered DEF Saves, Typed
<1>3. /\ saves' = [saves EXCEPT ![i] = s]
      /\ UNCHANGED <<editor, strayed, file, stored, cache, open, draft, mine, texts, versions>>
  BY DEF Saves
<1>4. Sent \in Drafts /\ IF Sent.set THEN Sent = draft
                         ELSE Sent.text = Text(open, 0) /\ ~draft.set
  <2>1. Text(open, 0) \in Texts
    BY <1>2, EditorsAssumption DEF Text, Texts
  <2> QED
    BY <1>1, <2>1, BlankTyped DEF Sent, Typed, Drafts, NoDraft
<1>5. /\ s \in SaveStates /\ s.phase = "sent" /\ s.of = open /\ s.at = open
      /\ s.draft = Sent /\ s.current
  BY <1>2, <1>4, BlankTyped DEF NoSave, SaveStates
<1>6. ~Sent.set => editor.unloaded \in {"empty", "nothing", "failed"}
  BY <1>2, <1>4 DEF SaveOffered
<1> HIDE DEF s
<1>7. SaveFits(editor, strayed, s) /\ AtHome(editor, s, open)
  BY <1>1, <1>2, <1>4, <1>5, <1>6 DEF SaveFits, AtHome, Waiting, DraftFits
<1>8. saves' \in [1..MaxSaves -> SaveStates] /\ SavesInv'
  BY <1>1, <1>3, <1>5, <1>7 DEF Typed, SavesInv
<1>10. OneIsShown'
  <2>1. \A j \in 1..MaxSaves : ~saves[j].current
    BY <1>1, <1>2 DEF SaveOffered, Saving, Pending, SavesInv, AtHome, Waiting
  <2>2. \A j \in 1..MaxSaves \ {i} : saves'[j] = saves[j]
    BY <1>1, <1>3 DEF Typed
  <2> QED
    BY <2>1, <2>2 DEF OneIsShown
<1>9. VersionsInv'
  BY <1>1, <1>3, <1>5 DEF Typed, VersionsInv
<1> QED
  BY <1>3, <1>8, <1>9, <1>10 DEF IInv, Typed, TextsInv, FileInv, StoredInv, CacheInv

------------------------------------------------------------------------------
(* The backend.                                                             *)

LEMMA SaveArrivesKeeps ==
    ASSUME IInv, NEW i \in 1..MaxSaves, SaveArrives(i)
    PROVE  IInv'
<1> DEFINE r == saves[i].of
           d == saves[i].draft
           written == Content(d.text, versions + 1, SecretAfter(d, stored[r].secret))
           new == IF ~d.set /\ editor.unloaded = "nothing" THEN stored[r] ELSE written
           s == [saves[i] EXCEPT !.phase = "done", !.result = new]
<1>1. Typed /\ StoredInv /\ CacheInv /\ SavesInv /\ OneIsShown /\ VersionsInv
  BY DEF IInv, TextsInv
<1>2. /\ saves[i] \in SaveStates /\ SaveFits(editor, strayed, saves[i])
      /\ AtHome(editor, saves[i], open)
      /\ saves[i].phase = "sent" /\ Waiting(saves[i]) /\ r \in Records
      /\ d \in Drafts
  BY <1>1 DEF SaveArrives, SavesInv, SaveFits, Waiting, Typed, SaveStates
<1>3. /\ stored' = [stored EXCEPT ![r] = new]
      /\ saves' = [saves EXCEPT ![i] = s]
      /\ versions' = versions + 1
      /\ UNCHANGED <<editor, strayed, file, cache, open, draft, mine, texts>>
  BY <1>1 DEF SaveArrives, Written, Typed
<1>4. written \in Contents /\ written.version = versions + 1 /\ written.text = d.text
  <2>1. d.text \in Texts /\ versions + 1 \in Nat /\ stored[r] \in Contents
    BY <1>1, <1>2 DEF Typed, Drafts
  <2>2. SecretAfter(d, stored[r].secret) \in {"real", "mask", "lost"}
    BY <2>1 DEF SecretAfter, Contents
  <2> QED
    BY <2>1, <2>2 DEF Content, Contents
<1>5. new \in Contents /\ Fits(editor, strayed, new.text, r)
  <2>1. stored[r] \in Contents /\ Fits(editor, strayed, stored[r].text, r)
    BY <1>1, <1>2 DEF Typed, StoredInv
  <2>2. CASE d.set
    BY <1>2, <1>4, <2>2 DEF SaveFits
  <2>3. CASE ~d.set /\ editor.unloaded = "nothing"
    BY <2>1, <2>3
  <2>4. CASE ~d.set /\ editor.unloaded # "nothing"
    <3>1. new = written /\ written.text = Text(r, 0)
      BY <1>2, <1>4, <2>4 DEF SaveFits
    <3>2. editor.unloaded \in {"empty", "failed"}
      BY <1>2, <2>4 DEF SaveFits
    <3>3. Fits(editor, strayed, Text(r, 0), r)
      BY <1>2, <3>2 DEF Fits, Text
    <3> QED
      BY <1>4, <3>1, <3>3
  <2> QED
    BY <2>2, <2>3, <2>4
<1>6. editor.unloaded # "nothing" => new.version = versions + 1
  BY <1>4
<1> HIDE DEF new
<1>7. /\ s \in SaveStates /\ s.phase = "done" /\ s.result = new
      /\ s.of = saves[i].of /\ s.at = saves[i].at /\ s.draft = saves[i].draft
      /\ s.current = saves[i].current
  BY <1>2, <1>5 DEF SaveStates
<1> HIDE DEF s
<1>8. SaveFits(editor, strayed, s) /\ AtHome(editor, s, open)
  BY <1>2, <1>5, <1>7 DEF SaveFits, AtHome, Waiting
<1>9. /\ saves' \in [1..MaxSaves -> SaveStates] /\ saves'[i] = s
      /\ \A j \in 1..MaxSaves \ {i} : saves'[j] = saves[j]
  BY <1>1, <1>3, <1>7 DEF Typed
<1>10. SavesInv' /\ OneIsShown'
  BY <1>1, <1>3, <1>7, <1>8, <1>9 DEF SavesInv, OneIsShown
<1>11. stored' \in [Records -> Contents] /\ StoredInv'
  BY <1>1, <1>2, <1>3, <1>5 DEF Typed, StoredInv
<1>12. VersionsInv'
  <2>1. CASE editor.unloaded = "nothing"
    BY <1>3, <2>1 DEF VersionsInv
  <2>2. CASE editor.unloaded # "nothing"
    <3>1. /\ versions \in Nat /\ versions' = versions + 1
          /\ new.version = versions + 1
          /\ \A q \in Records : mine[q].version \in Nat
          /\ \A j \in 1..MaxSaves : saves[j].result.version \in Nat
      BY <1>1, <1>3, <1>6, <2>2 DEF Typed, Contents, SaveStates
    <3>2. \A q \in Records : mine'[q].version <= versions
      BY <1>1, <1>3, <2>2 DEF VersionsInv
    <3>3. ASSUME NEW j \in 1..MaxSaves \ {i}, saves'[j].phase = "done"
          PROVE  /\ saves'[j].result.version \in Nat
                 /\ saves'[j].result.version <= versions
                 /\ \A q \in Records : mine'[q].version # saves'[j].result.version
                 /\ \A k \in 1..MaxSaves \ {i, j} : saves'[k].phase = "done" =>
                      saves'[k].result.version # saves'[j].result.version
      BY <1>1, <1>3, <1>9, <2>2, <3>1, <3>3 DEF VersionsInv
    <3>4. saves'[i].result.version = versions + 1
      BY <1>7, <1>9, <3>1
    <3>5. \A q \in Records : mine'[q].version # saves'[i].result.version
      BY <1>3, <3>1, <3>2, <3>4
    <3>6. ASSUME NEW j \in 1..MaxSaves \ {i}, saves'[j].phase = "done"
          PROVE  saves'[j].result.version # saves'[i].result.version
      BY <3>1, <3>3, <3>4, <3>6
    <3>7. ASSUME NEW j \in 1..MaxSaves, saves'[j].phase = "done"
          PROVE  /\ saves'[j].result.version <= versions'
                 /\ \A q \in Records : mine'[q].version # saves'[j].result.version
                 /\ \A k \in 1..MaxSaves \ {j} : saves'[k].phase = "done" =>
                      saves'[k].result.version # saves'[j].result.version
      <4>1. CASE j = i
        BY <3>1, <3>4, <3>5, <3>6, <4>1
      <4>2. CASE j # i
        BY <3>1, <3>3, <3>6, <3>7, <4>2
      <4> QED
        BY <4>1, <4>2
    <3>8. \A q \in Records : mine'[q].version <= versions'
      BY <1>3, <3>1, <3>2
    <3> QED
      BY <3>7, <3>8 DEF VersionsInv
  <2> QED
    BY <2>1, <2>2
<1>13. versions' \in Nat
  BY <1>1, <1>3 DEF Typed
<1> QED
  BY <1>1, <1>3, <1>9, <1>10, <1>11, <1>12, <1>13 DEF IInv, Typed, TextsInv, FileInv, CacheInv

LEMMA OthersWriteKeeps ==
    ASSUME IInv, NEW r \in Records, OthersWrite(r)
    PROVE  IInv'
<1> DEFINE new == Content(Text(r, texts + 1), versions + 1, stored[r].secret)
<1>1. Typed /\ StoredInv /\ VersionsInv
  BY DEF IInv, TextsInv
<1>2. /\ stored' = [stored EXCEPT ![r] = new]
      /\ texts' = texts + 1 /\ versions' = versions + 1
      /\ UNCHANGED <<editor, strayed, file, cache, open, draft, saves, mine>>
  BY <1>1 DEF OthersWrite, Typed
<1>3. texts \in Nat /\ versions \in Nat /\ stored[r] \in Contents /\ r \in Nat \ {0}
  BY <1>1, EditorsAssumption DEF Typed
<1>4. new \in Contents /\ new.text = Text(r, texts + 1)
  BY <1>3 DEF Content, Contents, Text, Texts
<1>5. Fits(editor, strayed, Text(r, texts + 1), r)
  BY <1>3 DEF Fits, Text
<1> HIDE DEF new
<1>6. stored' \in [Records -> Contents] /\ StoredInv'
  BY <1>1, <1>2, <1>4, <1>5 DEF Typed, StoredInv
<1>7. VersionsInv'
  <2>1. /\ \A q \in Records : mine[q].version \in Nat
        /\ \A j \in 1..MaxSaves : saves[j].result.version \in Nat
    BY <1>1 DEF Typed, Contents, SaveStates
  <2>2. CASE editor.unloaded = "nothing"
    BY <1>2, <2>2 DEF VersionsInv
  <2>3. CASE editor.unloaded # "nothing"
    <3>1. /\ \A q \in Records : mine[q].version <= versions
          /\ \A i \in 1..MaxSaves : saves[i].phase = "done" =>
               /\ saves[i].result.version <= versions
               /\ \A q \in Records : mine[q].version # saves[i].result.version
               /\ \A j \in 1..MaxSaves \ {i} : saves[j].phase = "done" =>
                    saves[j].result.version # saves[i].result.version
      BY <1>1, <2>3 DEF VersionsInv
    <3>2. versions' = versions + 1 /\ mine' = mine /\ saves' = saves
      BY <1>2
    <3>3. ASSUME NEW q \in Records
          PROVE  mine[q].version <= versions + 1
      <4>1. mine[q].version <= versions /\ mine[q].version \in Nat
        BY <2>1, <3>1
      <4> QED
        BY <1>3, <4>1
    <3>4. ASSUME NEW i \in 1..MaxSaves, saves[i].phase = "done"
          PROVE  saves[i].result.version <= versions + 1
      <4>1. saves[i].result.version <= versions /\ saves[i].result.version \in Nat
        BY <2>1, <3>1, <3>4
      <4> QED
        BY <1>3, <4>1
    <3>5. /\ \A q \in Records : mine'[q].version <= versions'
          /\ \A i \in 1..MaxSaves : saves'[i].phase = "done" =>
               /\ saves'[i].result.version <= versions'
               /\ \A q \in Records : mine'[q].version # saves'[i].result.version
               /\ \A j \in 1..MaxSaves \ {i} : saves'[j].phase = "done" =>
                    saves'[j].result.version # saves'[i].result.version
      BY ZenonT(30), <3>1, <3>2, <3>3, <3>4
    <3> QED
      BY <3>5 DEF VersionsInv
  <2> QED
    BY <2>2, <2>3
<1> QED
  BY <1>1, <1>2, <1>3, <1>6, <1>7, SavesKept DEF IInv, Typed, TextsInv, FileInv, CacheInv

------------------------------------------------------------------------------
(* The answers.                                                             *)

\* A save that is over leaves the others as they are.
LEMMA OverKeeps ==
    ASSUME IInv, NEW i \in 1..MaxSaves,
           UNCHANGED <<editor, strayed>>,
           saves' = [saves EXCEPT ![i].phase = "over", ![i].current = FALSE],
           open' = open \/ (open' = 0 /\ saves[i].current)
    PROVE  /\ saves' \in [1..MaxSaves -> SaveStates]
           /\ SavesInv' /\ OneIsShown'
           /\ saves'[i].phase = "over"
           /\ \A j \in 1..MaxSaves \ {i} : saves'[j] = saves[j]
<1>1. Typed /\ SavesInv /\ OneIsShown
  BY DEF IInv, TextsInv
<1> DEFINE s == [saves[i] EXCEPT !.phase = "over", !.current = FALSE]
<1>2. /\ s \in SaveStates /\ s.phase = "over" /\ ~s.current
      /\ saves' = [saves EXCEPT ![i] = s]
  BY <1>1 DEF Typed, SaveStates
<1> HIDE DEF s
<1>3. /\ saves' \in [1..MaxSaves -> SaveStates] /\ saves'[i] = s
      /\ \A j \in 1..MaxSaves \ {i} : saves'[j] = saves[j]
  BY <1>1, <1>2 DEF Typed
<1>4. SaveFits(editor, strayed, s) /\ \A q : AtHome(editor, s, q)
  BY <1>2 DEF SaveFits, AtHome, Waiting
<1>5. OneIsShown'
  BY <1>1, <1>2, <1>3 DEF OneIsShown
<1>6. SavesInv'
  <2>1. CASE open' = open
    BY <1>1, <1>3, <1>4, <2>1 DEF SavesInv
  <2>2. CASE open' = 0 /\ saves[i].current
    <3>1. ASSUME NEW j \in 1..MaxSaves
          PROVE  SaveFits(editor, strayed, saves'[j]) /\ AtHome(editor, saves'[j], open')
      <4>1. CASE j = i
        BY <1>3, <1>4, <4>1
      <4>2. CASE j # i
        <5>1. ~saves[j].current /\ saves'[j] = saves[j]
          BY <1>1, <1>3, <2>2, <4>2 DEF OneIsShown
        <5> QED
          BY <1>1, <5>1 DEF SavesInv, AtHome
      <4> QED
        BY <4>1, <4>2
    <3> QED
      BY <3>1 DEF SavesInv
  <2> QED
    BY <2>1, <2>2
<1> QED
  BY <1>2, <1>3, <1>5, <1>6

LEMMA SaveFailsKeeps ==
    ASSUME IInv, NEW i \in 1..MaxSaves, SaveFails(i)
    PROVE  IInv'
<1>1. /\ saves' = [saves EXCEPT ![i].phase = "over", ![i].current = FALSE]
      /\ UNCHANGED <<editor, strayed, file, stored, cache, open, draft, mine, texts, versions>>
  BY DEF SaveFails
<1>2. /\ saves' \in [1..MaxSaves -> SaveStates]
      /\ SavesInv' /\ OneIsShown' /\ saves'[i].phase = "over"
      /\ \A j \in 1..MaxSaves \ {i} : saves'[j] = saves[j]
  BY <1>1, OverKeeps
<1>3. VersionsInv'
  BY <1>1, <1>2 DEF IInv, VersionsInv
<1> QED
  BY <1>1, <1>2, <1>3 DEF IInv, Typed, TextsInv, FileInv, StoredInv, CacheInv

\* What the handler of a save leaves in the cache.
LEMMA RefreshesFit ==
    ASSUME IInv, NEW i \in 1..MaxSaves, saves[i].phase = "done",
           cache' = Refreshes(i), UNCHANGED <<editor, strayed>>
    PROVE  /\ cache' \in [Records -> Queries] /\ CacheInv'
<1> DEFINE r == saves[i].at
           q == IF editor.after = "puts"
                THEN [cache[r] EXCEPT !.loaded = TRUE, !.data = saves[i].result]
                ELSE cache[r]
           p == IF open = r THEN Refetched(q) ELSE Invalidated(q)
<1>1. Typed /\ CacheInv /\ SavesInv
  BY DEF IInv, TextsInv
<1>2. /\ saves[i] \in SaveStates /\ saves[i].result \in Contents
      /\ r \in Records /\ Fits(editor, strayed, saves[i].result.text, saves[i].of)
  BY <1>1 DEF Typed, SaveStates, SavesInv, SaveFits, Waiting
<1>3. cache[r] \in Queries /\ QueryFits(editor, strayed, cache[r], r)
  BY <1>1, <1>2 DEF Typed, CacheInv
<1>4. q \in Queries /\ QueryFits(editor, strayed, q, r)
  BY <1>2, <1>3 DEF Queries, QueryFits, Fits
<1> HIDE DEF q
<1>5. p \in Queries /\ QueryFits(editor, strayed, p, r)
  BY <1>4, QueryOps
<1>6. cache' = [cache EXCEPT ![r] = p]
  BY DEF Refreshes, q
<1> HIDE DEF p
<1>7. cache' \in [Records -> Queries] /\ CacheInv'
  BY <1>1, <1>2, <1>5, <1>6, CacheChanges
<1> QED
  BY <1>7

LEMMA SaveEndsKeeps ==
    ASSUME IInv, NEW i \in 1..MaxSaves, SaveEnds(i)
    PROVE  IInv'
<1>1. Typed /\ StoredInv /\ CacheInv /\ SavesInv /\ VersionsInv
      /\ DraftFits(editor, strayed, draft, open)
  BY DEF IInv, TextsInv
<1>2. /\ saves[i].phase = "done"
      /\ saves' = [saves EXCEPT ![i].phase = "over", ![i].current = FALSE]
      /\ mine' = [mine EXCEPT ![saves[i].of] = saves[i].result]
      /\ cache' = Refreshes(i)
      /\ UNCHANGED <<editor, strayed, stored, texts, versions>>
  BY DEF SaveEnds
<1>3. /\ cache' \in [Records -> Queries] /\ CacheInv'
  BY <1>2, RefreshesFit
<1>4. /\ saves[i] \in SaveStates /\ saves[i].of \in Records
      /\ saves[i].result \in Contents
      /\ Fits(editor, strayed, saves[i].result.text, saves[i].of)
      /\ AtHome(editor, saves[i], open)
  BY <1>1, <1>2 DEF Typed, SaveStates, SavesInv, SaveFits, Waiting
<1>5. \/ saves[i].current /\ open' = 0 /\ draft' = NoDraft /\ file' = NoFile
      \/ /\ open' = open /\ file' = file
         /\ draft' = IF saves[i].current /\ editor.after = "form"
                     THEN Taken(saves[i].result)
                     ELSE IF open # 0
                     THEN DraftAfter(cache[open], cache'[open])
                     ELSE draft
  BY DEF SaveEnds
<1>6. /\ saves' \in [1..MaxSaves -> SaveStates]
      /\ SavesInv' /\ OneIsShown' /\ saves'[i].phase = "over"
      /\ \A j \in 1..MaxSaves \ {i} : saves'[j] = saves[j]
  BY <1>2, <1>5, OverKeeps
<1>7. draft' \in Drafts /\ DraftFits(editor, strayed, draft', open') /\ open' \in Records \cup {0}
  <2>1. CASE open' = 0 /\ draft' = NoDraft
    BY <2>1, NoDraftFits
  <2>2. CASE saves[i].current /\ editor.after = "form" /\ open' = open
             /\ draft' = Taken(saves[i].result)
    <3>1. Shape(editor)
      BY <1>1, EditorFacts DEF Typed
    <3>2. open \in Records /\ saves[i].of = open
      BY <1>4, <2>2, <3>1 DEF AtHome, Shape
    <3> QED
      BY <1>4, <2>2, <3>2, TakenFits
  <2>3. CASE open # 0 /\ open' = open
             /\ draft' = DraftAfter(cache[open], cache'[open])
    <3>1. open \in Records
      BY <1>1, <2>3 DEF Typed
    <3>2. cache'[open] \in Queries /\ QueryFits(editor, strayed, cache'[open], open)
      BY <1>2, <1>3, <3>1 DEF CacheInv
    <3> QED
      BY <1>1, <2>3, <3>1, <3>2, DraftAfterFits
  <2>4. CASE open' = open /\ draft' = draft
    BY <1>1, <2>4 DEF Typed
  <2> QED
    BY <1>5, <2>1, <2>2, <2>3, <2>4
<1>8. mine' \in [Records -> Contents] /\ file' \in Texts /\ FileInv'
  BY <1>1, <1>2, <1>4, <1>5, BlankTyped DEF Typed, NoFile, FileInv, IInv, TextsInv
<1>9. VersionsInv'
  <2>1. CASE editor.unloaded = "nothing"
    BY <1>2, <2>1 DEF VersionsInv
  <2>2. CASE editor.unloaded # "nothing"
    <3>1. \A q \in Records : \/ mine'[q] = mine[q]
                             \/ mine'[q] = saves[i].result
      BY <1>1, <1>2 DEF Typed
    <3>2. \A q \in Records : mine'[q].version <= versions'
      BY <1>1, <1>2, <2>2, <3>1 DEF VersionsInv
    <3>3. ASSUME NEW j \in 1..MaxSaves, saves'[j].phase = "done"
          PROVE  /\ saves'[j].result.version <= versions'
                 /\ \A q \in Records : mine'[q].version # saves'[j].result.version
                 /\ \A k \in 1..MaxSaves \ {j} : saves'[k].phase = "done" =>
                      saves'[k].result.version # saves'[j].result.version
      <4>1. j # i /\ saves'[j] = saves[j]
        BY <1>6, <3>3
      <4>2. /\ saves[j].result.version <= versions
            /\ \A q \in Records : mine[q].version # saves[j].result.version
            /\ saves[i].result.version # saves[j].result.version
        BY <1>1, <1>2, <2>2, <3>3, <4>1 DEF VersionsInv
      <4>3. ASSUME NEW k \in 1..MaxSaves \ {j}, saves'[k].phase = "done"
            PROVE  saves'[k].result.version # saves'[j].result.version
        <5>1. k # i /\ saves'[k] = saves[k]
          BY <1>6, <4>3
        <5> QED
          BY <1>1, <2>2, <3>3, <4>1, <4>3, <5>1 DEF VersionsInv
      <4> QED
        BY <1>2, <3>1, <4>1, <4>2, <4>3
    <3> QED
      BY <3>2, <3>3 DEF VersionsInv
  <2> QED
    BY <2>1, <2>2
<1> QED
  BY <1>1, <1>2, <1>3, <1>6, <1>7, <1>8, <1>9 DEF IInv, Typed, TextsInv, FileInv, StoredInv

LEMMA AnsweredFits ==
    ASSUME NEW e, NEW st, NEW r \in Records, NEW q \in Queries, QueryFits(e, st, q, r),
           NEW data \in Contents, Fits(e, st, data.text, r)
    PROVE  Answered(q, data) \in Queries /\ QueryFits(e, st, Answered(q, data), r)
BY DEF Answered, Queries, QueryFits

LEMMA DeliveredFits ==
    ASSUME NEW e, NEW st, NEW r \in Records, NEW q \in Queries, QueryFits(e, st, q, r),
           q.fetch = "answered"
    PROVE  /\ Delivered(q, Blank) \in Queries /\ QueryFits(e, st, Delivered(q, Blank), r)
           /\ Delivered(q, Blank).data = q.answer
BY BlankTyped DEF Delivered, Queries, QueryFits

\* A step of the query of r that the draft of the record on the screen may follow.
LEMMA FetchKeeps ==
    ASSUME IInv, NEW r \in Records, NEW q \in Queries, QueryFits(editor, strayed, q, r),
           cache' = [cache EXCEPT ![r] = q],
           \/ draft' = draft
           \/ open = r /\ draft' = DraftAfter(cache[r], cache'[r]),
           UNCHANGED <<editor, strayed, file, stored, open, saves, mine, texts, versions>>
    PROVE  IInv'
<1>1. Typed /\ CacheInv /\ DraftFits(editor, strayed, draft, open)
  BY DEF IInv, TextsInv
<1>2. cache' \in [Records -> Queries] /\ CacheInv' /\ cache'[r] = q
  BY <1>1, CacheChanges DEF Typed
<1>3. draft' \in Drafts /\ DraftFits(editor, strayed, draft', open)
  <2>1. CASE draft' = draft
    BY <1>1, <2>1 DEF Typed
  <2>2. CASE open = r /\ draft' = DraftAfter(cache[r], cache'[r])
    BY <1>1, <1>2, <2>2, DraftAfterFits
  <2> QED
    BY <2>1, <2>2
<1> QED
  BY <1>2, <1>3, SavesKept, VersionsKept DEF IInv, Typed, TextsInv, FileInv, StoredInv

LEMMA FetchesKeep ==
    ASSUME IInv, NEW r \in Records,
           FetchAnswered(r) \/ FetchArrives(r) \/ FetchFails(r)
    PROVE  IInv'
<1>1. /\ cache[r] \in Queries /\ QueryFits(editor, strayed, cache[r], r)
      /\ stored[r] \in Contents /\ Fits(editor, strayed, stored[r].text, r)
      /\ cache \in [Records -> Queries]
  BY DEF IInv, Typed, TextsInv, CacheInv, StoredInv
<1>2. CASE FetchAnswered(r)
  <2>1. /\ cache' = [cache EXCEPT ![r] = Answered(cache[r], stored[r])]
        /\ UNCHANGED <<editor, strayed, file, stored, open, draft, saves, mine, texts, versions>>
    BY <1>1, <1>2 DEF FetchAnswered
  <2> QED
    BY <1>1, <2>1, AnsweredFits, FetchKeeps
<1>3. CASE FetchArrives(r)
  <2>1. /\ cache' = [cache EXCEPT ![r] = Delivered(cache[r], Blank)]
        /\ draft' = IF open = r THEN DraftAfter(cache[r], cache'[r]) ELSE draft
        /\ UNCHANGED <<editor, strayed, file, stored, open, saves, mine, texts, versions>>
        /\ cache[r].fetch = "answered"
    BY <1>1, <1>3 DEF FetchArrives
  <2> QED
    BY <1>1, <2>1, DeliveredFits, FetchKeeps
<1>4. CASE FetchFails(r)
  <2>1. /\ cache' = [cache EXCEPT ![r] = FetchFailed(cache[r])]
        /\ UNCHANGED <<editor, strayed, file, stored, open, draft, saves, mine, texts, versions>>
    BY <1>1, <1>4 DEF FetchFails
  <2> QED
    BY <1>1, <2>1, QueryOps, FetchKeeps
<1> QED
  BY <1>2, <1>3, <1>4

LEMMA RefocusesKeeps ==
    ASSUME IInv, Refocuses
    PROVE  IInv'
<1>1. open \in Records
  BY DEF IInv, Typed, Refocuses
<1>2. /\ cache[open] \in Queries /\ QueryFits(editor, strayed, cache[open], open)
      /\ cache \in [Records -> Queries]
  BY <1>1 DEF IInv, Typed, TextsInv, CacheInv
<1>3. /\ cache' = [cache EXCEPT ![open] = Fetched(Invalidated(cache[open]))]
      /\ UNCHANGED <<editor, strayed, file, stored, open, draft, saves, mine, texts, versions>>
  BY <1>1, <1>2 DEF Refocuses
<1> QED
  BY <1>1, <1>2, <1>3, QueryOps, FetchKeeps

------------------------------------------------------------------------------
(* The theorems.                                                            *)

LEMMA InitHolds ==
    ASSUME Init
    PROVE  IInv
<1>1. \A r \in Records : /\ Text(r, 1) \in Texts
                         /\ Content(Text(r, 1), 0, "real") \in Contents
                         /\ Content(Text(r, 1), 0, "real").text = Text(r, 1)
                         /\ Fits(editor, strayed, Text(r, 1), r)
  BY EditorsAssumption DEF Text, Texts, Content, Contents, Fits
<1>2. /\ Unfetched(Blank) \in Queries
      /\ \A r : QueryFits(editor, strayed, Unfetched(Blank), r)
  BY BlankTyped DEF Unfetched, Queries, QueryFits
<1>3. /\ NoSave \in SaveStates /\ NoSave.phase = "none" /\ ~NoSave.current
  BY BlankTyped DEF NoSave, SaveStates
<1>4. /\ editor \in Editors /\ open = 0 /\ draft = NoDraft
      /\ stored = [r \in Records |-> Content(Text(r, 1), 0, "real")]
      /\ cache = [r \in Records |-> Unfetched(Blank)]
      /\ saves = [i \in 1..MaxSaves |-> NoSave]
      /\ mine = [r \in Records |-> Blank]
      /\ texts = 1 /\ versions = 0
      /\ file = NoFile /\ strayed = {} /\ NoFile \in Texts
  BY BlankTyped DEF Init, NoFile
<1>5. Typed
  BY <1>1, <1>2, <1>3, <1>4, BlankTyped DEF Typed
<1>6. StoredInv /\ CacheInv /\ DraftFits(editor, strayed, draft, open)
  BY <1>1, <1>2, <1>4, NoDraftFits DEF StoredInv, CacheInv
<1>7. SavesInv /\ OneIsShown
  BY <1>3, <1>4 DEF SavesInv, OneIsShown, SaveFits, AtHome, Waiting
<1>8. VersionsInv
  <2>1. \A r \in Records : mine[r].version = 0
    BY <1>4 DEF Blank, Content
  <2>2. \A i \in 1..MaxSaves : saves[i].phase = "none"
    BY <1>3, <1>4
  <2> QED
    BY <1>4, <2>1, <2>2 DEF VersionsInv
<1> QED
  BY <1>4, <1>5, <1>6, <1>7, <1>8 DEF IInv, TextsInv, FileInv

LEMMA StepKeeps ==
    ASSUME IInv, [Next]_vars
    PROVE  IInv'
<1>1. CASE Closes \/ Types \/ ChoosesFile \/ FileIsRead \/ Refocuses
  BY <1>1, ClosesKeeps, TypesKeeps, ChoosesFileKeeps, FileIsReadKeeps, RefocusesKeeps
<1>2. ASSUME NEW r \in Records, Opens(r) \/ Moves(r) \/ OthersWrite(r)
      PROVE  IInv'
  BY <1>2, OpensKeeps, MovesKeeps, OthersWriteKeeps
<1>3. ASSUME NEW r \in Records, FetchAnswered(r) \/ FetchArrives(r) \/ FetchFails(r)
      PROVE  IInv'
  BY <1>3, FetchesKeep
<1>4. ASSUME NEW i \in 1..MaxSaves,
             Saves(i) \/ SaveArrives(i) \/ SaveEnds(i) \/ SaveFails(i)
      PROVE  IInv'
  BY <1>4, SavesKeeps, SaveArrivesKeeps, SaveEndsKeeps, SaveFailsKeeps
<1>5. CASE UNCHANGED vars
  <2>1. UNCHANGED <<editor, strayed, file, stored, cache, open, draft, saves, mine, texts, versions>>
    BY <1>5 DEF vars
  <2> QED
    BY <2>1, SavesKept, VersionsKept DEF IInv, Typed, TextsInv, FileInv, StoredInv, CacheInv
<1> QED
  BY <1>1, <1>2, <1>3, <1>4, <1>5 DEF Next

\* Wherever a text is on its way between the backend and the screen, it fits the
\* record that it is there for, in every one of the thirteen editors and for any
\* number of records and saves (AppsPage.tsx:70-127 and its like).
THEOREM EditorsInvariant == Spec => []IInv
<1>1. Init => IInv
  BY InitHolds
<1>2. IInv /\ [Next]_vars => IInv'
  BY StepKeeps
<1> QED
  BY <1>1, <1>2, PTL DEF Spec

\* Nothing that was written for one record is saved over another one, although
\* Previous and Next go on in the same editor (AppsPage.tsx:76-79): only a file
\* that was still being read then can stray (AppsPage.tsx:133-144).
THEOREM NothingSavedElsewhere == Spec => []SavesGoHome
<1>1. IInv => SavesGoHome
  BY DEF IInv, TextsInv, StoredInv, Fits, SavesGoHome
<1> QED
  BY <1>1, EditorsInvariant, PTL

\* Only the editors that send a list or a form unread can empty a record that was
\* not read (HostTypesPage.tsx:281, RolesPage.tsx:165, GlobalDefaultRolesPage.tsx:83).
THEOREM NothingErased == Spec => []NothingErasedUnseen
<1>1. IInv => NothingErasedUnseen
  BY DEF IInv, TextsInv, StoredInv, Fits, NothingErasedUnseen
<1> QED
  BY <1>1, EditorsInvariant, PTL

\* A draft that is typed in is only made again when the data that it follows are
\* others than before: an entry without data does not look like any record.
LEMMA TypedIsFollowed ==
    ASSUME IInv, draft.typed, open \in Records, NEW new \in Queries,
           QueryFits(editor, strayed, new, open)
    PROVE  \/ DraftAfter(cache[open], new) = draft
           \/ editor.takes = "follows" /\ Looks(new.data) # Looks(cache[open].data)
<1> DEFINE old == cache[open]
<1>1. /\ QueryFits(editor, strayed, old, open) /\ draft.set /\ Shape(editor)
  BY EditorFacts DEF IInv, Typed, TextsInv, CacheInv, DraftFits
<1>2. CASE editor.takes = "first"
  BY <1>1, <1>2 DEF DraftAfter
<1>3. CASE editor.takes = "follows"
  <2>1. CASE ~FollowsChanges(old, new)
    BY <1>3, <2>1 DEF DraftAfter
  <2>2. CASE FollowsChanges(old, new) /\ old.loaded
    BY <1>3, <2>2 DEF FollowsChanges
  <2>3. CASE FollowsChanges(old, new) /\ ~old.loaded
    <3>1. old.data.text.of = 0
      BY <1>1, <2>3 DEF QueryFits, Blank, Content, Text
    <3>2. new.data.text.of \in Records
      BY <2>3 DEF FollowsChanges, QueryFits, Fits
    <3>3. new.data.text # old.data.text
      BY <3>1, <3>2, EditorsAssumption
    <3>4. Looks(new.data) # Looks(old.data)
      BY <3>3 DEF Looks
    <3> QED
      BY <1>3, <3>4
  <2> QED
    BY <2>1, <2>2, <2>3
<1> QED
  BY <1>1, <1>2, <1>3 DEF Shape

LEMMA SaveEndsSurvives ==
    ASSUME IInv, NEW i \in 1..MaxSaves, SaveEnds(i), draft.typed, open # 0,
           open' = open
    PROVE  TypingIsKept
<1>1. /\ Typed /\ SavesInv /\ VersionsInv /\ open \in Records
      /\ saves[i].phase = "done" /\ saves[i].of \in Records
      /\ mine' = [mine EXCEPT ![saves[i].of] = saves[i].result]
      /\ cache' = Refreshes(i) /\ UNCHANGED <<editor, strayed>>
  BY DEF IInv, Typed, TextsInv, SaveEnds, SavesInv, SaveFits, Waiting
<1>2. draft' = IF saves[i].current /\ editor.after = "form"
               THEN Taken(saves[i].result)
               ELSE IF open # 0
               THEN DraftAfter(cache[open], cache'[open])
               ELSE draft
  BY DEF SaveEnds
<1>3. CASE saves[i].current /\ editor.after = "form"
  <2>1. editor.unloaded # "nothing"
    BY <1>1, <1>3, EditorFacts DEF Typed, Shape
  <2>2. mine[saves[i].of].version # saves[i].result.version
    BY <1>1, <2>1 DEF VersionsInv
  <2>3. mine'[saves[i].of] = saves[i].result
    BY <1>1 DEF Typed
  <2> QED
    BY <1>3, <2>2, <2>3 DEF TypingIsKept
<1>4. CASE ~(saves[i].current /\ editor.after = "form")
  <2>1. cache' \in [Records -> Queries] /\ CacheInv'
    BY <1>1, RefreshesFit
  <2>2. cache'[open] \in Queries /\ QueryFits(editor, strayed, cache'[open], open)
    BY <1>1, <2>1 DEF CacheInv
  <2> QED
    BY <1>1, <1>2, <1>4, <2>2, TypedIsFollowed DEF TypingIsKept
<1> QED
  BY <1>3, <1>4

LEMMA StepSurvives ==
    ASSUME IInv, [Next]_vars
    PROVE  [TypingIsKept]_vars
<1>1. SUFFICES ASSUME Next, draft.typed, open # 0, open' = open
               PROVE  TypingIsKept
  BY DEF TypingIsKept
<1>2. open \in Records /\ Typed /\ CacheInv
  BY <1>1 DEF IInv, Typed, TextsInv
<1>3. CASE Closes \/ Types \/ ChoosesFile \/ FileIsRead \/ Refocuses
  BY <1>1, <1>3 DEF Closes, Types, ChoosesFile, Refocuses, TypingIsKept,
                   FileIsRead, IInv, Typed, Drafts
<1>4. ASSUME NEW r \in Records, Opens(r) \/ Moves(r) \/ OthersWrite(r)
      PROVE  TypingIsKept
  <2>1. ~Opens(r) /\ ~Moves(r)
    BY <1>1, OpenOffered, MoveOffered DEF Opens, Moves
  <2> QED
    BY <1>4, <2>1 DEF OthersWrite, TypingIsKept
<1>5. ASSUME NEW r \in Records, FetchArrives(r)
      PROVE  TypingIsKept
  <2>1. cache[r] \in Queries /\ QueryFits(editor, strayed, cache[r], r) /\ cache[r].fetch = "answered"
    BY <1>2, <1>5 DEF Typed, CacheInv, FetchArrives
  <2>2. CASE open # r
    BY <1>5, <2>2 DEF FetchArrives, TypingIsKept
  <2>3. CASE open = r
    <3>1. cache'[r] = Delivered(cache[r], Blank)
      BY <1>2, <1>5 DEF FetchArrives, Typed
    <3>2. cache'[r] \in Queries /\ QueryFits(editor, strayed, cache'[r], r)
      BY <2>1, <3>1, DeliveredFits
    <3>3. draft' = DraftAfter(cache[r], cache'[r])
      BY <1>5, <2>3 DEF FetchArrives
    <3> QED
      BY <1>1, <2>3, <3>2, <3>3, TypedIsFollowed DEF TypingIsKept
  <2> QED
    BY <2>2, <2>3
<1>6. ASSUME NEW r \in Records, FetchAnswered(r) \/ FetchFails(r)
      PROVE  TypingIsKept
  BY <1>6 DEF FetchAnswered, FetchFails, TypingIsKept
<1>7. ASSUME NEW i \in 1..MaxSaves, Saves(i) \/ SaveArrives(i) \/ SaveFails(i)
      PROVE  TypingIsKept
  BY <1>7 DEF Saves, SaveArrives, SaveFails, TypingIsKept
<1>8. ASSUME NEW i \in 1..MaxSaves, SaveEnds(i)
      PROVE  TypingIsKept
  BY <1>1, <1>8, SaveEndsSurvives
<1> QED
  BY <1>1, <1>3, <1>4, <1>5, <1>6, <1>7, <1>8 DEF Next

\* What the admin has typed is not replaced by a response, except where the
\* editor follows data that have changed or its own save is answered
\* (MonitoringSettingsPanel.tsx:113-138, AnsibleRunnerSettingsPage.tsx).
THEOREM TypingIsSafe == Spec => TypingSurvives
<1>1. IInv /\ [Next]_vars => [TypingIsKept]_vars
  BY StepSurvives
<1> QED
  BY <1>1, EditorsInvariant, PTL DEF Spec, TypingSurvives

------------------------------------------------------------------------------
(* What the editor shows and what it has saved.  That the draft is not      *)
(* older cannot be said of the draft alone: the next one is made from the   *)
(* cache, the cache from an answer, and the answer may be older than the    *)
(* save that overtook it.                                                   *)

\* Versions grow from what a record's last save wrote to what is stored.
OrderInv ==
    /\ \A r \in Records : /\ mine[r].version <= stored[r].version
                          /\ stored[r].version <= versions
    /\ \A i \in 1..MaxSaves : saves[i].phase = "done" =>
         saves[i].result.version <= stored[saves[i].of].version

\* A query of a record whose last save wrote version v: an answer on its way, data
\* that are not stale, and data that the next opening will take, are not older.
Fresh(e, q, v, hidden) ==
    /\ q.fetch = "answered" => q.answer.version >= v
    /\ ~q.stale => q.loaded /\ q.data.version >= v
    /\ hidden /\ q.loaded /\ e.after # "puts" => q.data.version >= v

FreshInv == \A r \in Records \ excused :
    Fresh(editor, cache[r], mine[r].version, r # open)

\* A save of a record that is not excused is that of the editor, which has read
\* the record; unless the admin has typed since, it writes what is shown.
IsShown(e, s, q, d, r) ==
    /\ s.current /\ s.of = r /\ q.loaded
    /\ e.takes = "first" /\ ~d.typed =>
         /\ s.draft.text = d.text
         /\ s.phase = "done" => s.result.text = d.text

ShownInv == \A i \in 1..MaxSaves :
    (Waiting(saves[i]) /\ saves[i].of \notin excused) =>
        IsShown(editor, saves[i], cache[saves[i].of], draft, open)

\* The draft of an editor with query q, whose last save is m.
UpToDate(e, d, q, m, seen) ==
    /\ q.loaded => d.set
    /\ d.set /\ ~d.typed =>
         IF e.takes = "follows" /\ e.after # "form"
         THEN q.loaded /\ d.text = q.data.text
         ELSE seen => \/ d.from.version >= m.version
                      \/ e.takes = "first" /\ d.text = m.text

DraftInv == open # 0 =>
    UpToDate(editor, draft, cache[open], mine[open], open \notin excused)

SeenInv == OrderInv /\ FreshInv /\ ShownInv /\ DraftInv

\* What of an editor's choices this rests on.
SaveShape(e) ==
    /\ e.takes = "first" => e.after = "invalidates" /\ e.unloaded # "nothing"
    /\ e.after = "form" => e.takes = "follows" /\ ~e.moves

LEMMA SaveFacts ==
    ASSUME editor \in Editors
    PROVE  SaveShape(editor)
<1>1. SaveShape(FieldsYaml) /\ SaveShape(RoleFieldRows) /\ SaveShape(AnsibleDefaults)
  BY DEF SaveShape, FieldsYaml, RoleFieldRows, AnsibleDefaults
<1>2. SaveShape(HostTypeRoles) /\ SaveShape(GlobalDefaultRoles)
  BY DEF SaveShape, HostTypeRoles, GlobalDefaultRoles
<1>3. /\ SaveShape(HostAppValues) /\ SaveShape(MonitoringForm)
      /\ SaveShape(RunnerForm) /\ SaveShape(HostVars)
  BY DEF SaveShape, HostAppValues, MonitoringForm, RunnerForm, HostVars
<1>4. editor \in {FieldsYaml, RoleFieldRows, AnsibleDefaults, HostTypeRoles,
                  GlobalDefaultRoles, HostAppValues, MonitoringForm, RunnerForm,
                  HostVars}
  BY DEF Editors, AppFields, RoleFields, HostTypeFields, StatusFields, BitwardenForm
<1> QED
  BY <1>1, <1>2, <1>3, <1>4

\* A query that is asked again, fails or is answered by no less than v stays fresh.
LEMMA FreshOps ==
    ASSUME NEW e, NEW q \in Queries, NEW v \in Nat, NEW h \in BOOLEAN,
           Fresh(e, q, v, h)
    PROVE  /\ Fresh(e, MountedQuery(q), v, h) /\ Fresh(e, Invalidated(q), v, h)
           /\ Fresh(e, Refetched(q), v, h) /\ Fresh(e, FetchFailed(q), v, h)
           /\ Fresh(e, Fetched(Invalidated(q)), v, h)
<1>1. Fresh(e, MountedQuery(q), v, h) /\ Fresh(e, Invalidated(q), v, h)
  BY DEF Fresh, MountedQuery, Fetched, Invalidated, Queries
<1>2. Fresh(e, Refetched(q), v, h) /\ Fresh(e, FetchFailed(q), v, h)
  BY DEF Fresh, Refetched, Invalidated, FetchFailed, Queries
<1>3. Fresh(e, Fetched(Invalidated(q)), v, h)
  BY DEF Fresh, Fetched, Invalidated, Queries
<1> QED
  BY <1>1, <1>2, <1>3

\* What asking again leaves of a query.
LEMMA SameData ==
    ASSUME NEW q \in Queries
    PROVE  /\ MountedQuery(q).loaded = q.loaded /\ MountedQuery(q).data = q.data
           /\ Invalidated(q).loaded = q.loaded /\ Invalidated(q).data = q.data
           /\ Refetched(q).loaded = q.loaded /\ Refetched(q).data = q.data
           /\ FetchFailed(q).loaded = q.loaded /\ FetchFailed(q).data = q.data
           /\ Fetched(Invalidated(q)).loaded = q.loaded
           /\ Fetched(Invalidated(q)).data = q.data
BY DEF MountedQuery, Fetched, Invalidated, Refetched, FetchFailed, Queries

\* The draft of a record that comes on the screen.
LEMMA DraftForUpToDate ==
    ASSUME Typed, NEW r \in Records,
           r \notin excused => Fresh(editor, cache[r], mine[r].version, TRUE),
           NEW q, q.loaded = cache[r].loaded, q.data = cache[r].data
    PROVE  UpToDate(editor, DraftFor(r), q, mine[r], r \notin excused)
<1>1. /\ cache[r] \in Queries /\ SaveShape(editor)
  BY SaveFacts DEF Typed
<1>2. CASE ~cache[r].loaded
  BY <1>2 DEF DraftFor, UpToDate, NoDraft
<1>3. CASE cache[r].loaded
  <2>1. DraftFor(r) = Taken(cache[r].data)
    BY <1>3 DEF DraftFor
  <2>2. /\ Taken(cache[r].data).set /\ Taken(cache[r].data).from = q.data
        /\ Taken(cache[r].data).text = q.data.text
    BY DEF Taken
  <2>3. (editor.takes = "first" \/ editor.after = "form") /\ r \notin excused
          => q.data.version >= mine[r].version
    BY <1>1, <1>3 DEF Fresh, SaveShape
  <2>4. editor.takes \in {"first", "follows"}
    BY EditorFacts DEF Typed, Shape
  <2> QED
    BY <1>3, <2>1, <2>2, <2>3, <2>4 DEF UpToDate
<1> QED
  BY <1>2, <1>3

\* The draft after the query of the record on the screen has changed.
LEMMA DraftAfterUpToDate ==
    ASSUME Typed, NEW old \in Queries, NEW new \in Queries, NEW m, NEW seen \in BOOLEAN,
           UpToDate(editor, draft, old, m, seen), old.loaded => new.loaded,
           \/ editor.takes = "follows" /\ editor.after # "form"
           \/ new.loaded = old.loaded /\ new.data = old.data
           \/ seen => new.data.version >= m.version
    PROVE  UpToDate(editor, DraftAfter(old, new), new, m, seen)
<1>1. SaveShape(editor) /\ editor.takes \in {"first", "follows"}
  BY SaveFacts, EditorFacts DEF Typed, Shape
<1>2. /\ Taken(new.data).set /\ Taken(new.data).from = new.data
      /\ Taken(new.data).text = new.data.text
  BY DEF Taken
<1>3. CASE editor.takes = "first"
  <2>1. CASE draft.set \/ ~new.loaded
    BY <1>1, <1>3, <2>1 DEF DraftAfter, UpToDate
  <2>2. CASE ~draft.set /\ new.loaded
    <3>1. DraftAfter(old, new) = Taken(new.data) /\ ~old.loaded
      BY <1>3, <2>2 DEF DraftAfter, UpToDate
    <3> QED
      BY <1>2, <1>3, <2>2, <3>1 DEF UpToDate
  <2> QED
    BY <2>1, <2>2
<1>4. CASE editor.takes = "follows"
  <2>1. CASE FollowsChanges(old, new)
    <3>1. DraftAfter(old, new) = Taken(new.data) /\ new.loaded
      BY <1>4, <2>1 DEF DraftAfter, FollowsChanges
    <3>2. CASE editor.after # "form"
      BY <1>2, <1>4, <3>1, <3>2 DEF UpToDate
    <3>3. CASE editor.after = "form" /\ (seen => new.data.version >= m.version)
      BY <1>2, <3>1, <3>3 DEF UpToDate
    <3>4. ~(new.loaded = old.loaded /\ new.data = old.data)
      BY <2>1 DEF FollowsChanges
    <3> QED
      BY <3>2, <3>3, <3>4
  <2>2. CASE ~FollowsChanges(old, new)
    <3>1. DraftAfter(old, new) = draft
      BY <1>4, <2>2 DEF DraftAfter
    <3>2. new.loaded => old.loaded /\ new.data.text = old.data.text
      BY <2>2 DEF FollowsChanges, Looks
    <3> QED
      BY <3>1, <3>2 DEF UpToDate
  <2> QED
    BY <2>1, <2>2
<1> QED
  BY <1>1, <1>3, <1>4

------------------------------------------------------------------------------
(* The steps of the page.                                                   *)

LEMMA OpensIsSeen ==
    ASSUME IInv, SeenInv, NEW r \in Records, Opens(r)
    PROVE  SeenInv'
<1>1. Typed /\ SavesInv /\ OrderInv /\ FreshInv /\ ShownInv
  BY DEF IInv, TextsInv, SeenInv
<1>2. /\ open = 0 /\ open' = r /\ draft' = DraftFor(r)
      /\ cache' = [cache EXCEPT ![r] = MountedQuery(cache[r])]
      /\ UNCHANGED <<editor, stored, saves, mine, excused, versions>>
  BY <1>1, OpenOffered DEF Opens, Typed
<1>3. cache[r] \in Queries /\ mine[r].version \in Nat /\ r # 0
  BY <1>1, EditorsAssumption DEF Typed, Contents
<1>4. /\ cache'[r] = MountedQuery(cache[r])
      /\ \A q \in Records \ {r} : cache'[q] = cache[q]
  BY <1>1, <1>2 DEF Typed
<1>5. r \notin excused => Fresh(editor, cache[r], mine[r].version, TRUE)
  BY <1>1, <1>2, <1>3 DEF FreshInv
<1>6. FreshInv'
  <2>1. ASSUME NEW q \in Records \ excused
        PROVE  Fresh(editor, cache'[q], mine[q].version, q # r)
    <3>1. CASE q = r
      <4>1. Fresh(editor, MountedQuery(cache[r]), mine[r].version, TRUE)
        BY <1>3, <1>5, <3>1, FreshOps
      <4> QED
        BY <1>4, <3>1, <4>1 DEF Fresh
    <3>2. CASE q # r
      <4>1. q # open
        BY <1>2, EditorsAssumption
      <4> QED
        BY <1>1, <1>4, <3>2, <4>1 DEF FreshInv
    <3> QED
      BY <3>1, <3>2
  <2> QED
    BY <1>2, <2>1 DEF FreshInv
<1>7. ShownInv'
  <2>1. \A i \in 1..MaxSaves : Waiting(saves[i]) => saves[i].of \in excused
    BY <1>1, <1>2, EditorsAssumption DEF ShownInv, IsShown, SavesInv, SaveFits
  <2> QED
    BY <1>2, <2>1 DEF ShownInv
<1>8. DraftInv'
  <2>1. cache'[r].loaded = cache[r].loaded /\ cache'[r].data = cache[r].data
    BY <1>3, <1>4, SameData
  <2>2. UpToDate(editor, DraftFor(r), cache'[r], mine[r], r \notin excused)
    BY <1>1, <1>5, <2>1, DraftForUpToDate
  <2> QED
    BY <1>2, <2>2 DEF DraftInv
<1> QED
  BY <1>1, <1>2, <1>6, <1>7, <1>8 DEF SeenInv, OrderInv

\* A record that is left and not excused has been read since its last save, and
\* no save of it is on its way.
LEMMA LeftIsRead ==
    ASSUME IInv, SeenInv, open # 0
    PROVE  /\ excused \subseteq Left
           /\ \A i \in 1..MaxSaves : Waiting(saves[i]) => saves[i].of \in Left
           /\ \A r \in Records \ Left :
                Fresh(editor, cache[r], mine[r].version, TRUE)
<1>1. Typed /\ SavesInv /\ FreshInv /\ ShownInv
  BY DEF IInv, TextsInv, SeenInv
<1>2. excused \subseteq Left
  BY DEF Left
<1>3. ASSUME NEW i \in 1..MaxSaves, Waiting(saves[i]), saves[i].of \notin Left
      PROVE  FALSE
  <2>1. saves[i].of = open
    BY <1>1, <1>2, <1>3 DEF ShownInv, IsShown
  <2>2. Unread(open)
    BY <1>3, <2>1 DEF Unread, Pending, Waiting
  <2> QED
    BY <1>3, <2>1, <2>2 DEF Left
<1>4. ASSUME NEW r \in Records \ Left
      PROVE  Fresh(editor, cache[r], mine[r].version, TRUE)
  <2>1. Fresh(editor, cache[r], mine[r].version, r # open)
    BY <1>1, <1>2, <1>4 DEF FreshInv
  <2>2. CASE r = open
    <3>1. ~cache[r].stale
      BY <1>4, <2>2 DEF Left, Unread
    <3> QED
      BY <2>1, <3>1 DEF Fresh
  <2>3. CASE r # open
    BY <2>1, <2>3 DEF Fresh
  <2> QED
    BY <2>2, <2>3
<1> QED
  BY <1>2, <1>3, <1>4

LEMMA MovesIsSeen ==
    ASSUME IInv, SeenInv, NEW r \in Records, Moves(r)
    PROVE  SeenInv'
<1>1. Typed /\ OrderInv /\ FreshInv
  BY DEF IInv, SeenInv
<1>2. /\ open # 0 /\ r # open /\ open' = r /\ draft' = DraftFor(r)
      /\ cache' = [cache EXCEPT ![r] = MountedQuery(cache[r])]
      /\ saves' = [i \in 1..MaxSaves |->
                     IF saves[i].current THEN [saves[i] EXCEPT !.at = r]
                     ELSE saves[i]]
      /\ excused' = Left
      /\ UNCHANGED <<editor, stored, mine, versions>>
  BY <1>1, MoveOffered DEF Moves, Typed
<1>3. cache[r] \in Queries /\ mine[r].version \in Nat
  BY <1>1 DEF Typed, Contents
<1>4. /\ cache'[r] = MountedQuery(cache[r])
      /\ \A q \in Records \ {r} : cache'[q] = cache[q]
  BY <1>1, <1>2 DEF Typed
<1>5. \A i \in 1..MaxSaves :
        /\ saves'[i].phase = saves[i].phase /\ saves'[i].of = saves[i].of
        /\ saves'[i].result = saves[i].result
  BY <1>1, <1>2 DEF Typed, SaveStates
<1>6. /\ \A i \in 1..MaxSaves : Waiting(saves[i]) => saves[i].of \in Left
      /\ \A q \in Records \ Left : Fresh(editor, cache[q], mine[q].version, TRUE)
  BY <1>2, LeftIsRead
<1>7. FreshInv'
  <2>1. ASSUME NEW q \in Records \ Left
        PROVE  Fresh(editor, cache'[q], mine[q].version, q # r)
    <3>1. CASE q = r
      <4>1. Fresh(editor, MountedQuery(cache[r]), mine[r].version, TRUE)
        BY <1>3, <1>6, <3>1, FreshOps
      <4> QED
        BY <1>4, <3>1, <4>1 DEF Fresh
    <3>2. CASE q # r
      BY <1>4, <1>6, <3>2
    <3> QED
      BY <3>1, <3>2
  <2> QED
    BY <1>2, <2>1 DEF FreshInv
<1>8. ShownInv'
  BY <1>2, <1>5, <1>6 DEF ShownInv, Waiting
<1>9. DraftInv'
  <2>1. cache'[r].loaded = cache[r].loaded /\ cache'[r].data = cache[r].data
    BY <1>3, <1>4, SameData
  <2>2. r \notin excused => Fresh(editor, cache[r], mine[r].version, TRUE)
    BY <1>1, <1>2 DEF FreshInv
  <2>3. UpToDate(editor, DraftFor(r), cache'[r], mine[r], r \notin excused)
    BY <1>1, <2>1, <2>2, DraftForUpToDate
  <2>4. r \notin Left => r \notin excused
    BY DEF Left
  <2>5. UpToDate(editor, DraftFor(r), cache'[r], mine[r], r \notin Left)
    BY <2>3, <2>4 DEF UpToDate
  <2> QED
    BY <1>2, <2>5 DEF DraftInv
<1>10. OrderInv'
  BY <1>1, <1>2, <1>5 DEF OrderInv
<1> QED
  BY <1>7, <1>8, <1>9, <1>10 DEF SeenInv

LEMMA ClosesIsSeen ==
    ASSUME IInv, SeenInv, Closes
    PROVE  SeenInv'
<1>1. Typed /\ OrderInv
  BY DEF IInv, SeenInv
<1>2. /\ open # 0 /\ open' = 0
      /\ saves' = [i \in 1..MaxSaves |-> [saves[i] EXCEPT !.current = FALSE]]
      /\ excused' = Left
      /\ UNCHANGED <<editor, stored, cache, mine, versions>>
  BY CloseOffered DEF Closes
<1>3. \A i \in 1..MaxSaves :
        /\ saves'[i].phase = saves[i].phase /\ saves'[i].of = saves[i].of
        /\ saves'[i].result = saves[i].result
  BY <1>1, <1>2 DEF Typed, SaveStates
<1>4. /\ \A i \in 1..MaxSaves : Waiting(saves[i]) => saves[i].of \in Left
      /\ \A q \in Records \ Left : Fresh(editor, cache[q], mine[q].version, TRUE)
  BY <1>2, LeftIsRead
<1>5. FreshInv'
  BY <1>2, <1>4 DEF FreshInv, Fresh
<1>6. ShownInv'
  BY <1>2, <1>3, <1>4 DEF ShownInv, Waiting
<1>7. OrderInv'
  BY <1>1, <1>2, <1>3 DEF OrderInv
<1> QED
  BY <1>2, <1>5, <1>6, <1>7 DEF SeenInv, DraftInv

LEMMA TypesIsSeen ==
    ASSUME IInv, SeenInv, Types
    PROVE  SeenInv'
<1>1. Typed
  BY DEF IInv
<1>2. /\ draft' = [draft EXCEPT !.set = TRUE, !.typed = TRUE,
                                !.text = Text(open, texts + 1)]
      /\ UNCHANGED <<editor, stored, cache, open, saves, mine, excused, versions>>
  BY DEF Types
<1>3. draft'.set /\ draft'.typed
  BY <1>1, <1>2 DEF Typed, Drafts
<1>4. ShownInv'
  BY <1>2, <1>3 DEF SeenInv, ShownInv, IsShown
<1>5. DraftInv'
  BY <1>2, <1>3 DEF DraftInv, UpToDate
<1> QED
  BY <1>2, <1>4, <1>5 DEF SeenInv, OrderInv, FreshInv

LEMMA ImportIsSeen ==
    ASSUME IInv, SeenInv, ChoosesFile \/ FileIsRead
    PROVE  SeenInv'
<1>1. Typed
  BY DEF IInv
<1>2. UNCHANGED <<editor, stored, cache, open, saves, mine, excused, versions>>
  BY DEF ChoosesFile, FileIsRead
<1>3. CASE draft' = draft
  BY <1>2, <1>3 DEF SeenInv, OrderInv, FreshInv, ShownInv, DraftInv
<1>4. CASE draft' = [draft EXCEPT !.set = TRUE, !.typed = TRUE, !.text = file]
  <2>1. draft'.set /\ draft'.typed
    BY <1>1, <1>4 DEF Typed, Drafts
  <2>2. ShownInv'
    BY <1>2, <2>1 DEF SeenInv, ShownInv, IsShown
  <2>3. DraftInv'
    BY <1>2, <2>1 DEF DraftInv, UpToDate
  <2> QED
    BY <1>2, <2>2, <2>3 DEF SeenInv, OrderInv, FreshInv
<1> QED
  BY <1>3, <1>4 DEF ChoosesFile, FileIsRead

LEMMA SavesIsSeen ==
    ASSUME IInv, SeenInv, NEW i \in 1..MaxSaves, Saves(i)
    PROVE  SeenInv'
<1> DEFINE s == [NoSave EXCEPT !.phase = "sent", !.of = open, !.at = open,
                               !.draft = Sent, !.current = TRUE]
<1>1. Typed /\ OrderInv /\ FreshInv /\ ShownInv /\ DraftInv
  BY DEF IInv, SeenInv
<1>2. open # 0
  BY SaveIsOffered DEF Saves
<1>3. /\ saves' = [saves EXCEPT ![i] = s]
      /\ excused' = IF cache[open].loaded THEN excused ELSE excused \cup {open}
      /\ UNCHANGED <<editor, stored, cache, open, draft, mine, versions>>
  BY DEF Saves
<1>4. s.phase = "sent" /\ s.of = open /\ s.draft = Sent /\ s.current
  BY DEF NoSave
<1> HIDE DEF s
<1>5. saves'[i] = s /\ \A j \in 1..MaxSaves \ {i} : saves'[j] = saves[j]
  BY <1>1, <1>3 DEF Typed
<1>6. UpToDate(editor, draft, cache[open], mine[open], open \notin excused)
  BY <1>1, <1>2 DEF DraftInv
<1>7. ShownInv'
  <2>1. CASE cache[open].loaded
    <3>1. Sent.text = draft.text
      BY <1>6, <2>1 DEF Sent, UpToDate
    <3>2. IsShown(editor, s, cache[s.of], draft, open)
      BY <1>4, <2>1, <3>1 DEF IsShown
    <3> QED
      BY <1>1, <1>3, <1>5, <3>2 DEF ShownInv
  <2>2. CASE ~cache[open].loaded
    BY <1>1, <1>3, <1>4, <1>5, <2>2 DEF ShownInv
  <2> QED
    BY <2>1, <2>2
<1>8. FreshInv'
  BY <1>1, <1>3 DEF FreshInv
<1>9. DraftInv'
  BY <1>3, <1>6 DEF DraftInv, UpToDate
<1>10. OrderInv'
  BY <1>1, <1>3, <1>4, <1>5 DEF OrderInv
<1> QED
  BY <1>7, <1>8, <1>9, <1>10 DEF SeenInv

------------------------------------------------------------------------------
(* The steps of the backend.                                                *)

LEMMA SaveArrivesIsSeen ==
    ASSUME IInv, SeenInv, NEW i \in 1..MaxSaves, SaveArrives(i)
    PROVE  SeenInv'
<1> DEFINE r == saves[i].of
           d == saves[i].draft
           new == IF ~d.set /\ editor.unloaded = "nothing" THEN stored[r]
                  ELSE Content(d.text, versions + 1,
                               SecretAfter(d, stored[r].secret))
           s == [saves[i] EXCEPT !.phase = "done", !.result = new]
<1>1. Typed /\ SavesInv /\ OrderInv /\ FreshInv /\ ShownInv /\ DraftInv
  BY DEF IInv, TextsInv, SeenInv
<1>2. /\ saves[i] \in SaveStates /\ r \in Records /\ Waiting(saves[i])
      /\ stored[r] \in Contents /\ versions \in Nat
      /\ \A q \in Records : mine[q].version \in Nat /\ stored[q].version \in Nat
  BY <1>1 DEF SaveArrives, SavesInv, SaveFits, Waiting, Typed, Contents
<1>3. /\ stored' = [stored EXCEPT ![r] = new]
      /\ saves' = [saves EXCEPT ![i] = s]
      /\ versions' = versions + 1
      /\ UNCHANGED <<editor, cache, open, draft, mine, excused>>
  BY <1>1 DEF SaveArrives, Written, Typed
<1>4. new.version = versions + 1 \/ new.version = stored[r].version
  BY DEF Content
<1>5. editor.unloaded # "nothing" => new.text = d.text
  BY DEF Content
<1> HIDE DEF new
<1>6. /\ s.phase = "done" /\ s.result = new /\ s.of = r
      /\ s.draft = d /\ s.current = saves[i].current
  BY <1>2 DEF SaveStates
<1> HIDE DEF s
<1>7. /\ saves'[i] = s /\ \A j \in 1..MaxSaves \ {i} : saves'[j] = saves[j]
      /\ stored'[r] = new /\ \A q \in Records \ {r} : stored'[q] = stored[q]
  BY <1>1, <1>2, <1>3 DEF Typed
<1>8. \A q \in Records : /\ stored[q].version <= stored'[q].version
                         /\ stored'[q].version <= versions + 1
                         /\ stored'[q].version \in Nat
  <2>1. /\ stored[r].version <= versions /\ new.version \in Nat
        /\ stored[r].version <= new.version /\ new.version <= versions + 1
    BY <1>1, <1>2, <1>4 DEF OrderInv
  <2>2. \A q \in Records : stored[q].version <= versions
    BY <1>1 DEF OrderInv
  <2> QED
    BY <1>2, <1>7, <2>1, <2>2
<1>9. OrderInv'
  <2>1. \A q \in Records : mine[q].version <= stored'[q].version
    BY <1>1, <1>2, <1>8 DEF OrderInv
  <2>2. ASSUME NEW j \in 1..MaxSaves, saves'[j].phase = "done"
        PROVE  saves'[j].result.version <= stored'[saves'[j].of].version
    <3>1. CASE j = i
      BY <1>6, <1>7, <1>8, <1>2, <3>1
    <3>2. CASE j # i
      <4>1. /\ saves[j].result.version <= stored[saves[j].of].version
            /\ saves[j].of \in Records /\ saves[j].result.version \in Nat
        BY <1>1, <1>7, <2>2, <3>2
           DEF OrderInv, SavesInv, SaveFits, Waiting, Typed, SaveStates, Contents
      <4> QED
        BY <1>2, <1>7, <1>8, <3>2, <4>1
    <3> QED
      BY <3>1, <3>2
  <2> QED
    BY <1>3, <1>8, <2>1, <2>2 DEF OrderInv
<1>10. ShownInv'
  <2>1. ASSUME r \notin excused
        PROVE  IsShown(editor, s, cache[r], draft, open)
    <3>1. IsShown(editor, saves[i], cache[r], draft, open)
      BY <1>1, <1>2, <2>1 DEF ShownInv
    <3>2. editor.takes = "first" => editor.unloaded # "nothing"
      BY <1>1, SaveFacts DEF Typed, SaveShape
    <3> QED
      BY <1>5, <1>6, <3>1, <3>2 DEF IsShown
  <2> QED
    BY <1>1, <1>3, <1>6, <1>7, <2>1 DEF ShownInv
<1> QED
  BY <1>1, <1>3, <1>9, <1>10 DEF SeenInv, FreshInv, DraftInv

LEMMA OthersWriteIsSeen ==
    ASSUME IInv, SeenInv, NEW r \in Records, OthersWrite(r)
    PROVE  SeenInv'
<1> DEFINE new == Content(Text(r, texts + 1), versions + 1, stored[r].secret)
<1>1. Typed /\ SavesInv /\ OrderInv /\ FreshInv /\ ShownInv /\ DraftInv
  BY DEF IInv, TextsInv, SeenInv
<1>2. /\ stored' = [stored EXCEPT ![r] = new]
      /\ versions' = versions + 1
      /\ UNCHANGED <<editor, cache, open, draft, saves, mine, excused>>
  BY <1>1 DEF OthersWrite, Typed
<1>3. new.version = versions + 1
  BY DEF Content
<1> HIDE DEF new
<1>4. stored'[r] = new /\ \A q \in Records \ {r} : stored'[q] = stored[q]
  BY <1>1, <1>2 DEF Typed
<1>5. /\ versions \in Nat
      /\ \A q \in Records : mine[q].version \in Nat /\ stored[q].version \in Nat
  BY <1>1 DEF Typed, Contents
<1>6. \A q \in Records : /\ stored[q].version <= stored'[q].version
                         /\ stored'[q].version <= versions + 1
                         /\ stored'[q].version \in Nat
  <2>1. \A q \in Records : stored[q].version <= versions
    BY <1>1 DEF OrderInv
  <2> QED
    BY <1>3, <1>4, <1>5, <2>1
<1>7. OrderInv'
  <2>1. \A q \in Records : mine[q].version <= stored'[q].version
    BY <1>1, <1>5, <1>6 DEF OrderInv
  <2>2. ASSUME NEW j \in 1..MaxSaves, saves[j].phase = "done"
        PROVE  saves[j].result.version <= stored'[saves[j].of].version
    <3>1. /\ saves[j].result.version <= stored[saves[j].of].version
          /\ saves[j].of \in Records /\ saves[j].result.version \in Nat
      BY <1>1, <2>2
         DEF OrderInv, SavesInv, SaveFits, Waiting, Typed, SaveStates, Contents
    <3> QED
      BY <1>5, <1>6, <3>1
  <2> QED
    BY <1>2, <1>6, <2>1, <2>2 DEF OrderInv
<1> QED
  BY <1>1, <1>2, <1>7 DEF SeenInv, FreshInv, ShownInv, DraftInv

------------------------------------------------------------------------------
(* The answers.                                                             *)

LEMMA SaveFailsIsSeen ==
    ASSUME IInv, SeenInv, NEW i \in 1..MaxSaves, SaveFails(i)
    PROVE  SeenInv'
<1>1. Typed /\ OrderInv /\ FreshInv /\ ShownInv /\ DraftInv
  BY DEF IInv, SeenInv
<1>2. /\ saves' = [saves EXCEPT ![i].phase = "over", ![i].current = FALSE]
      /\ UNCHANGED <<editor, strayed, stored, cache, open, draft, mine, excused,
                     versions>>
  BY DEF SaveFails
<1>3. /\ saves'[i].phase = "over"
      /\ \A j \in 1..MaxSaves \ {i} : saves'[j] = saves[j]
  BY <1>2, OverKeeps
<1>4. OrderInv'
  BY <1>1, <1>2, <1>3 DEF OrderInv
<1>5. ShownInv'
  <2>1. ASSUME NEW j \in 1..MaxSaves, Waiting(saves'[j]), saves'[j].of \notin excused
        PROVE  IsShown(editor, saves'[j], cache[saves'[j].of], draft, open)
    <3>1. saves'[j] = saves[j]
      BY <1>3, <2>1 DEF Waiting
    <3> QED
      BY <1>1, <2>1, <3>1 DEF ShownInv
  <2> QED
    BY <1>2, <2>1 DEF ShownInv
<1> QED
  BY <1>1, <1>2, <1>4, <1>5 DEF SeenInv, FreshInv, DraftInv

\* A step of the query of r that leaves its data as they are.
LEMMA QuietIsSeen ==
    ASSUME IInv, SeenInv, NEW r \in Records, NEW q \in Queries,
           q.loaded = cache[r].loaded, q.data = cache[r].data,
           r \notin excused => Fresh(editor, q, mine[r].version, r # open),
           cache' = [cache EXCEPT ![r] = q],
           UNCHANGED <<editor, stored, open, draft, saves, mine, excused, versions>>
    PROVE  SeenInv'
<1>1. Typed /\ SavesInv /\ OrderInv /\ FreshInv /\ ShownInv /\ DraftInv
  BY DEF IInv, TextsInv, SeenInv
<1>2. /\ cache'[r] = q /\ \A p \in Records \ {r} : cache'[p] = cache[p]
      /\ \A p \in Records : /\ cache'[p].loaded = cache[p].loaded
                            /\ cache'[p].data = cache[p].data
  BY <1>1 DEF Typed
<1>3. FreshInv'
  BY <1>1, <1>2 DEF FreshInv
<1>4. ShownInv'
  <2>1. ASSUME NEW j \in 1..MaxSaves, Waiting(saves[j]), saves[j].of \notin excused
        PROVE  IsShown(editor, saves[j], cache'[saves[j].of], draft, open)
    <3>1. IsShown(editor, saves[j], cache[saves[j].of], draft, open)
      BY <1>1, <2>1 DEF ShownInv
    <3>2. cache'[saves[j].of].loaded = cache[saves[j].of].loaded
      BY <1>1, <1>2, <2>1 DEF SavesInv, SaveFits
    <3> QED
      BY <3>1, <3>2 DEF IsShown
  <2> QED
    BY <2>1 DEF ShownInv
<1>5. DraftInv'
  <2>1. ASSUME open # 0
        PROVE  UpToDate(editor, draft, cache'[open], mine[open], open \notin excused)
    <3>1. open \in Records
      BY <1>1, <2>1 DEF Typed
    <3>2. /\ cache'[open].loaded = cache[open].loaded
          /\ cache'[open].data = cache[open].data
      BY <1>2, <3>1
    <3> QED
      BY <1>1, <2>1, <3>2 DEF DraftInv, UpToDate
  <2> QED
    BY <2>1 DEF DraftInv
<1> QED
  BY <1>1, <1>3, <1>4, <1>5 DEF SeenInv, OrderInv

LEMMA AskedIsSeen ==
    ASSUME IInv, SeenInv, \/ \E r \in Records : FetchAnswered(r) \/ FetchFails(r)
                          \/ Refocuses
    PROVE  SeenInv'
<1>1. Typed /\ OrderInv /\ FreshInv
  BY DEF IInv, SeenInv
<1>2. ASSUME NEW r \in Records
      PROVE  /\ cache[r] \in Queries /\ mine[r].version \in Nat /\ stored[r] \in Contents
             /\ stored[r].version >= mine[r].version
             /\ r \notin excused => Fresh(editor, cache[r], mine[r].version, r # open)
  <2>1. cache[r] \in Queries /\ mine[r].version \in Nat /\ stored[r] \in Contents
    BY <1>1 DEF Typed, Contents
  <2>2. stored[r].version \in Nat /\ mine[r].version <= stored[r].version
    BY <1>1, <2>1 DEF OrderInv, Contents
  <2> QED
    BY <1>1, <2>1, <2>2 DEF FreshInv
<1>3. ASSUME NEW r \in Records, FetchAnswered(r)
      PROVE  SeenInv'
  <2> DEFINE q == Answered(cache[r], stored[r])
  <2>1. /\ cache' = [cache EXCEPT ![r] = q]
        /\ UNCHANGED <<editor, stored, open, draft, saves, mine, excused, versions>>
    BY <1>1, <1>3 DEF FetchAnswered, Typed
  <2>2. q \in Queries /\ q.loaded = cache[r].loaded /\ q.data = cache[r].data
    BY <1>2 DEF Answered, Queries
  <2>3. r \notin excused => Fresh(editor, q, mine[r].version, r # open)
    BY <1>2 DEF Answered, Queries, Fresh
  <2> QED
    BY <2>1, <2>2, <2>3, QuietIsSeen
<1>4. ASSUME NEW r \in Records, FetchFails(r)
      PROVE  SeenInv'
  <2>1. /\ cache' = [cache EXCEPT ![r] = FetchFailed(cache[r])]
        /\ UNCHANGED <<editor, stored, open, draft, saves, mine, excused, versions>>
    BY <1>1, <1>4 DEF FetchFails, Typed
  <2>2. FetchFailed(cache[r]) \in Queries
    BY <1>2 DEF FetchFailed, Queries
  <2> QED
    BY <1>2, <2>1, <2>2, FreshOps, SameData, QuietIsSeen
<1>5. ASSUME Refocuses
      PROVE  SeenInv'
  <2>1. /\ open \in Records
        /\ cache' = [cache EXCEPT ![open] = Fetched(Invalidated(cache[open]))]
        /\ UNCHANGED <<editor, stored, open, draft, saves, mine, excused, versions>>
    BY <1>1, <1>5 DEF Refocuses, Typed
  <2>2. Fetched(Invalidated(cache[open])) \in Queries
    BY <1>2, <2>1 DEF Fetched, Invalidated, Queries
  <2> QED
    BY <1>2, <2>1, <2>2, FreshOps, SameData, QuietIsSeen
<1> QED
  BY <1>3, <1>4, <1>5

LEMMA FetchArrivesIsSeen ==
    ASSUME IInv, SeenInv, NEW r \in Records, FetchArrives(r)
    PROVE  SeenInv'
<1> DEFINE q == Delivered(cache[r], Blank)
<1>1. /\ Typed /\ SavesInv /\ DraftFits(editor, strayed, draft, open)
      /\ OrderInv /\ FreshInv /\ ShownInv /\ DraftInv
  BY DEF IInv, TextsInv, SeenInv
<1>2. /\ cache' = [cache EXCEPT ![r] = q] /\ cache[r].fetch = "answered"
      /\ draft' = IF open = r THEN DraftAfter(cache[r], cache'[r]) ELSE draft
      /\ UNCHANGED <<editor, stored, open, saves, mine, excused, versions>>
  BY <1>1 DEF FetchArrives, Typed
<1>3. /\ cache[r] \in Queries /\ QueryFits(editor, strayed, cache[r], r)
      /\ mine[r].version \in Nat
  BY DEF IInv, Typed, Contents, TextsInv, CacheInv
<1>4. q \in Queries /\ q.loaded /\ q.data = cache[r].answer /\ q.fetch = "idle"
  BY <1>2, <1>3, BlankTyped DEF Delivered, Queries
<1> HIDE DEF q
<1>5. cache'[r] = q /\ \A p \in Records \ {r} : cache'[p] = cache[p]
  BY <1>1, <1>2 DEF Typed
<1>6. r \notin excused => q.data.version >= mine[r].version
  BY <1>1, <1>2, <1>4 DEF FreshInv, Fresh
<1>7. FreshInv'
  <2>1. r \notin excused => Fresh(editor, q, mine[r].version, r # open)
    BY <1>4, <1>6 DEF Fresh
  <2> QED
    BY <1>1, <1>2, <1>5, <2>1 DEF FreshInv
<1>8. ShownInv'
  <2>1. ASSUME NEW j \in 1..MaxSaves, Waiting(saves[j]), saves[j].of \notin excused
        PROVE  IsShown(editor, saves[j], cache'[saves[j].of], draft', open)
    <3>1. IsShown(editor, saves[j], cache[saves[j].of], draft, open)
      BY <1>1, <2>1 DEF ShownInv
    <3>2. saves[j].of \in Records /\ open = saves[j].of /\ open # 0
      BY <1>1, <2>1, <3>1, EditorsAssumption DEF SavesInv, SaveFits, IsShown
    <3>3. cache'[saves[j].of].loaded
      BY <1>4, <1>5, <3>1, <3>2 DEF IsShown
    <3>4. editor.takes = "first" => draft' = draft
      <4>1. draft.set
        BY <1>1, <3>1, <3>2 DEF DraftInv, UpToDate, IsShown
      <4> QED
        BY <1>2, <4>1 DEF DraftAfter
    <3> QED
      BY <3>1, <3>3, <3>4 DEF IsShown
  <2> QED
    BY <1>2, <2>1 DEF ShownInv
<1>9. DraftInv'
  <2>1. CASE open = r
    <3>1. UpToDate(editor, draft, cache[r], mine[r], r \notin excused)
      BY <1>1, <2>1, EditorsAssumption DEF DraftInv
    <3>2. UpToDate(editor, DraftAfter(cache[r], q), q, mine[r], r \notin excused)
      BY <1>1, <1>3, <1>4, <1>6, <3>1, DraftAfterUpToDate
    <3> QED
      BY <1>2, <1>5, <2>1, <3>2 DEF DraftInv
  <2>2. CASE open # r
    <3>1. open # 0 => cache'[open] = cache[open]
      BY <1>1, <1>5, <2>2 DEF Typed
    <3> QED
      BY <1>1, <1>2, <2>2, <3>1 DEF DraftInv
  <2> QED
    BY <2>1, <2>2
<1> QED
  BY <1>1, <1>2, <1>7, <1>8, <1>9 DEF SeenInv, OrderInv

\* What a handler makes of the query that it refreshes.
LEMMA RefreshedIsFresh ==
    ASSUME IInv, SeenInv, NEW i \in 1..MaxSaves, saves[i].phase = "done",
           cache' = Refreshes(i)
    PROVE  /\ saves[i].at \in Records
           /\ \A q \in Records \ {saves[i].at} : cache'[q] = cache[q]
           /\ \A q \in Records :
                /\ cache[q].loaded => cache'[q].loaded
                /\ editor.after # "puts" => /\ cache'[q].loaded = cache[q].loaded
                                            /\ cache'[q].data = cache[q].data
                /\ q \notin excused =>
                     Fresh(editor, cache'[q], mine[q].version, q # open)
           /\ saves[i].at = open /\ cache[open].loaded =>
                cache'[open].stale /\ cache'[open].fetch = "sent"
<1> DEFINE r == saves[i].at
           q0 == IF editor.after = "puts"
                 THEN [cache[r] EXCEPT !.loaded = TRUE, !.data = saves[i].result]
                 ELSE cache[r]
           p == IF open = r THEN Refetched(q0) ELSE Invalidated(q0)
<1>1. Typed /\ SavesInv /\ FreshInv
  BY DEF IInv, TextsInv, SeenInv
<1>2. /\ r \in Records /\ saves[i].result \in Contents /\ cache[r] \in Queries
      /\ mine[r].version \in Nat
  BY <1>1 DEF Typed, SaveStates, Contents, SavesInv, SaveFits, Waiting
<1>3. /\ q0 \in Queries
      /\ cache[r].loaded => q0.loaded
      /\ q0.fetch = cache[r].fetch /\ q0.answer = cache[r].answer
      /\ editor.after # "puts" => q0 = cache[r]
  BY <1>2 DEF Queries
<1>4. cache' = [cache EXCEPT ![r] = p]
  BY DEF Refreshes
<1> HIDE DEF q0
<1>5. /\ p.loaded = q0.loaded /\ p.data = q0.data /\ p.stale
      /\ p.fetch = "answered" => cache[r].fetch = "answered" /\ p.answer = cache[r].answer
      /\ open = r /\ q0.loaded => p.fetch = "sent"
  BY <1>3 DEF Refetched, Invalidated, Queries
<1> HIDE DEF p
<1>6. cache'[r] = p /\ \A q \in Records \ {r} : cache'[q] = cache[q]
  BY <1>1, <1>2, <1>4 DEF Typed
<1>7. r \notin excused => Fresh(editor, p, mine[r].version, r # open)
  <2>1. ASSUME r \notin excused
        PROVE  Fresh(editor, cache[r], mine[r].version, r # open)
    BY <1>1, <1>2, <2>1 DEF FreshInv
  <2> QED
    BY <1>3, <1>5, <2>1 DEF Fresh
<1>8. \A q \in Records \ excused : Fresh(editor, cache'[q], mine[q].version, q # open)
  BY <1>1, <1>6, <1>7 DEF FreshInv
<1>9. \A q \in Records :
        /\ cache[q].loaded => cache'[q].loaded
        /\ editor.after # "puts" => /\ cache'[q].loaded = cache[q].loaded
                                    /\ cache'[q].data = cache[q].data
  BY <1>3, <1>5, <1>6
<1>10. r = open /\ cache[open].loaded =>
         cache'[open].stale /\ cache'[open].fetch = "sent"
  BY <1>3, <1>5, <1>6
<1> QED
  BY <1>2, <1>6, <1>8, <1>9, <1>10

LEMMA SaveEndsIsSeen ==
    ASSUME IInv, SeenInv, NEW i \in 1..MaxSaves, SaveEnds(i)
    PROVE  SeenInv'
<1> DEFINE o == saves[i].of
           result == saves[i].result
           closes == saves[i].current /\ editor.after = "closes"
<1>1. /\ Typed /\ SavesInv /\ OneIsShown
      /\ OrderInv /\ FreshInv /\ ShownInv /\ DraftInv
  BY DEF IInv, TextsInv, SeenInv
<1>2. /\ saves[i].phase = "done" /\ Waiting(saves[i])
      /\ saves' = [saves EXCEPT ![i].phase = "over", ![i].current = FALSE]
      /\ mine' = [mine EXCEPT ![o] = result]
      /\ cache' = Refreshes(i)
      /\ UNCHANGED <<editor, strayed, stored, versions>>
  BY DEF SaveEnds, Waiting
<1>3. closes => open' = 0 /\ excused' = excused \cup {open}
  BY DEF SaveEnds
<1>4. ~closes =>
        /\ draft' = IF saves[i].current /\ editor.after = "form" THEN Taken(result)
                    ELSE IF open # 0 THEN DraftAfter(cache[open], cache'[open])
                    ELSE draft
        /\ UNCHANGED <<open, excused>>
  BY DEF SaveEnds
<1>5. /\ o \in Records /\ result \in Contents /\ result.version \in Nat
      /\ result.version <= stored[o].version
      /\ saves[i].current => saves[i].at = open /\ open \in Records
                             /\ (~editor.moves => o = open)
  BY <1>1, <1>2 DEF Typed, SaveStates, Contents, SavesInv, SaveFits, AtHome, OrderInv
<1>6. /\ mine'[o] = result /\ \A q \in Records \ {o} : mine'[q] = mine[q]
      /\ \A q \in Records : mine[q].version \in Nat /\ mine'[q].version \in Nat
  BY <1>1, <1>2, <1>5 DEF Typed, Contents
<1>7. /\ saves'[i].phase = "over"
      /\ \A j \in 1..MaxSaves \ {i} : saves'[j] = saves[j]
  <2>1. open' = open \/ (open' = 0 /\ saves[i].current)
    BY <1>3, <1>4
  <2> QED
    BY <1>2, <2>1, OverKeeps
<1>8. /\ \A q \in Records :
           /\ cache[q].loaded => cache'[q].loaded
           /\ editor.after # "puts" => /\ cache'[q].loaded = cache[q].loaded
                                       /\ cache'[q].data = cache[q].data
           /\ q \notin excused => Fresh(editor, cache'[q], mine[q].version, q # open)
      /\ saves[i].at = open /\ cache[open].loaded =>
           cache'[open].stale /\ cache'[open].fetch = "sent"
  BY <1>2, RefreshedIsFresh
<1>9. o \notin excused => /\ IsShown(editor, saves[i], cache[o], draft, open)
                          /\ saves[i].current /\ o = open /\ cache[open].loaded
  BY <1>1, <1>2 DEF ShownInv, IsShown
<1>10. excused \subseteq excused' /\ (open' = open \/ (open' = 0 /\ open \in excused'))
  BY <1>3, <1>4
<1>11. OrderInv'
  BY <1>1, <1>2, <1>5, <1>6, <1>7 DEF OrderInv
<1>12. FreshInv'
  <2>1. ASSUME NEW q \in Records, q \notin excused'
        PROVE  Fresh(editor, cache'[q], mine'[q].version, q # open')
    <3>1. q \notin excused /\ (q # open' => q # open)
      BY <1>10, <2>1
    <3>2. Fresh(editor, cache'[q], mine[q].version, q # open)
      BY <1>8, <3>1
    <3>3. CASE q # o
      BY <1>6, <3>1, <3>2, <3>3 DEF Fresh
    <3>4. CASE q = o
      <4>1. q = open /\ open' = open
        BY <1>9, <1>10, <2>1, <3>1, <3>4
      <4>2. cache'[q].stale /\ cache'[q].fetch = "sent"
        BY <1>5, <1>8, <1>9, <3>1, <3>4, <4>1
      <4> QED
        BY <4>1, <4>2 DEF Fresh
    <3> QED
      BY <3>3, <3>4
  <2> QED
    BY <1>2, <2>1 DEF FreshInv
<1>13. ShownInv'
  <2>1. ASSUME NEW j \in 1..MaxSaves, Waiting(saves'[j]), saves'[j].of \notin excused'
        PROVE  IsShown(editor, saves'[j], cache'[saves'[j].of], draft', open')
    <3>1. j # i /\ saves'[j] = saves[j] /\ saves[j].of \notin excused
      BY <1>7, <1>10, <2>1 DEF Waiting
    <3>2. IsShown(editor, saves[j], cache[saves[j].of], draft, open)
      BY <1>1, <2>1, <3>1 DEF ShownInv
    <3>3. saves[j].current /\ saves[j].of = open /\ cache[open].loaded
      BY <3>2 DEF IsShown
    <3>4. open \in Records
      BY <1>1, <2>1, <3>1, <3>3 DEF SavesInv, SaveFits
    <3>5. ~saves[i].current /\ open' = open
      BY <1>1, <1>4, <3>1, <3>3 DEF OneIsShown
    <3>6. cache'[open].loaded
      BY <1>8, <3>3, <3>4
    <3>7. editor.takes = "first" => draft' = draft
      <4>1. open # 0
        BY <3>4, EditorsAssumption
      <4>2. draft.set
        BY <1>1, <3>3, <4>1 DEF DraftInv, UpToDate
      <4>3. draft' = DraftAfter(cache[open], cache'[open])
        BY <1>4, <3>5, <4>1
      <4> QED
        BY <4>2, <4>3 DEF DraftAfter
    <3>8. IsShown(editor, saves[j], cache'[open], draft', open)
      BY <3>2, <3>3, <3>6, <3>7 DEF IsShown
    <3> QED
      BY <3>1, <3>3, <3>5, <3>8
  <2> QED
    BY <1>2, <2>1 DEF ShownInv
<1>14. DraftInv'
  <2>1. SUFFICES ASSUME open' # 0
                 PROVE  UpToDate(editor, draft', cache'[open], mine'[open],
                                 open \notin excused)
    BY <1>2, <1>3, <1>4 DEF DraftInv
  <2>2. ~closes /\ open # 0 /\ open \in Records
    BY <1>1, <1>3, <1>4, <2>1 DEF Typed
  <2>3. /\ cache[open] \in Queries /\ cache'[open] \in Queries
        /\ SaveShape(editor) /\ editor.takes \in {"first", "follows"}
    <3>1. cache' \in [Records -> Queries]
      BY <1>2, RefreshesFit
    <3> QED
      BY <1>1, <2>2, <3>1, SaveFacts, EditorFacts DEF Typed, Shape
  <2>4. UpToDate(editor, draft, cache[open], mine[open], open \notin excused)
    BY <1>1, <2>2 DEF DraftInv
  <2>5. CASE saves[i].current /\ editor.after = "form"
    <3>1. draft' = Taken(result) /\ mine'[open] = result
      BY <1>4, <1>5, <1>6, <2>2, <2>3, <2>5 DEF SaveShape
    <3>2. Taken(result).set /\ Taken(result).from.version >= result.version
      BY <1>5 DEF Taken
    <3> QED
      BY <2>5, <3>1, <3>2 DEF UpToDate
  <2>6. CASE ~(saves[i].current /\ editor.after = "form")
    <3>1. draft' = DraftAfter(cache[open], cache'[open])
      BY <1>4, <2>2, <2>6
    <3>2. /\ cache[open].loaded => cache'[open].loaded
          /\ \/ editor.takes = "follows" /\ editor.after # "form"
             \/ /\ cache'[open].loaded = cache[open].loaded
                /\ cache'[open].data = cache[open].data
      BY <1>8, <2>2, <2>3 DEF SaveShape
    <3>3. UpToDate(editor, draft', cache'[open], mine[open], open \notin excused)
      BY <1>1, <2>3, <2>4, <3>1, <3>2, DraftAfterUpToDate
    <3>4. CASE open # o \/ open \in excused
      BY <1>6, <2>2, <3>3, <3>4 DEF UpToDate
    <3>5. CASE open = o /\ open \notin excused /\ editor.takes = "first"
      <4>1. draft.set /\ draft' = draft
        BY <1>9, <2>4, <3>1, <3>5 DEF UpToDate, DraftAfter
      <4>2. ~draft.typed => draft.text = result.text
        BY <1>2, <1>9, <3>5 DEF IsShown
      <4>3. editor.after # "form"
        BY <2>3, <3>5 DEF SaveShape
      <4> QED
        BY <1>6, <3>3, <3>5, <4>1, <4>2, <4>3 DEF UpToDate
    <3>6. CASE open = o /\ open \notin excused /\ editor.takes = "follows"
      <4>1. editor.after # "form"
        BY <1>9, <2>6, <3>6
      <4> QED
        BY <3>3, <3>6, <4>1 DEF UpToDate
    <3> QED
      BY <2>3, <3>4, <3>5, <3>6
  <2> QED
    BY <2>5, <2>6
<1> QED
  BY <1>11, <1>12, <1>13, <1>14 DEF SeenInv

------------------------------------------------------------------------------
(* The theorem.                                                             *)

LEMMA SeenAtFirst ==
    ASSUME Init
    PROVE  SeenInv
<1>1. /\ stored = [r \in Records |-> Content(Text(r, 1), 0, "real")]
      /\ cache = [r \in Records |-> Unfetched(Blank)]
      /\ saves = [i \in 1..MaxSaves |-> NoSave]
      /\ mine = [r \in Records |-> Blank]
      /\ open = 0 /\ versions = 0
  BY DEF Init
<1>2. OrderInv
  BY <1>1 DEF OrderInv, Content, Blank, NoSave
<1>3. FreshInv
  BY <1>1 DEF FreshInv, Fresh, Unfetched
<1>4. ShownInv
  BY <1>1 DEF ShownInv, Waiting, NoSave
<1> QED
  BY <1>1, <1>2, <1>3, <1>4 DEF SeenInv, DraftInv

LEMMA StepIsSeen ==
    ASSUME IInv, SeenInv, [Next]_vars
    PROVE  SeenInv'
<1>1. CASE Closes \/ Types \/ ChoosesFile \/ FileIsRead \/ Refocuses
  BY <1>1, ClosesIsSeen, TypesIsSeen, ImportIsSeen, AskedIsSeen
<1>2. ASSUME NEW r \in Records, Opens(r) \/ Moves(r) \/ OthersWrite(r)
      PROVE  SeenInv'
  BY <1>2, OpensIsSeen, MovesIsSeen, OthersWriteIsSeen
<1>3. ASSUME NEW r \in Records, FetchAnswered(r) \/ FetchArrives(r) \/ FetchFails(r)
      PROVE  SeenInv'
  BY <1>3, AskedIsSeen, FetchArrivesIsSeen
<1>4. ASSUME NEW i \in 1..MaxSaves,
             Saves(i) \/ SaveArrives(i) \/ SaveEnds(i) \/ SaveFails(i)
      PROVE  SeenInv'
  BY <1>4, SavesIsSeen, SaveArrivesIsSeen, SaveEndsIsSeen, SaveFailsIsSeen
<1>5. CASE UNCHANGED vars
  BY <1>5 DEF vars, SeenInv, OrderInv, FreshInv, ShownInv, DraftInv
<1> QED
  BY <1>1, <1>2, <1>3, <1>4, <1>5 DEF Next

\* Once all is read, an editor shows no less than what it has saved of a record,
\* unless the record was saved before it was read or left before it was read
\* again: whatever the order in which saves, their refreshes and the writes of
\* others arrive, for any number of them (AppsPage.tsx:87-117 and its like).
THEOREM SavesAreShown == Spec => []NotBehindOwnSave
<1>1. Init => SeenInv
  BY SeenAtFirst
<1>2. IInv /\ SeenInv /\ [Next]_vars => SeenInv'
  BY StepIsSeen
<1>3. IInv /\ SeenInv => NotBehindOwnSave
  <2>1. SUFFICES ASSUME IInv, SeenInv, draft.set, ~draft.typed, open \notin excused,
                        ~cache[open].stale
                 PROVE  \/ draft.from.version >= mine[open].version
                        \/ draft.text = mine[open].text
                        \/ /\ cache[open].data.version >= mine[open].version
                           /\ cache[open].data.text = draft.text
    BY DEF NotBehindOwnSave
  <2>2. open \in Records
    BY <2>1 DEF IInv, TextsInv, DraftFits
  <2>3. UpToDate(editor, draft, cache[open], mine[open], TRUE)
    BY <2>1, <2>2, EditorsAssumption DEF SeenInv, DraftInv
  <2>4. cache[open].data.version >= mine[open].version
    BY <2>1, <2>2 DEF SeenInv, FreshInv, Fresh
  <2> QED
    BY <2>1, <2>3, <2>4 DEF UpToDate
<1> QED
  BY <1>1, <1>2, <1>3, EditorsInvariant, PTL DEF Spec
==============================================================================
