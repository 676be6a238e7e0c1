---------------------------- MODULE AssistantChat ----------------------------
(***************************************************************************)
(* The AI chat of the browser: frontend/src/components/AssistantPanel.tsx  *)
(* with the stream reader of frontend/src/api/ai.ts, beside the backend    *)
(* that answers it (backend/app/routers/ai.py).                            *)
(*                                                                         *)
(* A question is sent by handleSend, which first creates a conversation if *)
(* none is selected.  The backend saves the question, streams the reply,   *)
(* saves it, may start a run, and says that the message is complete.  The  *)
(* panel shows the pieces while they come, and what the query cache holds  *)
(* of the conversation afterwards.  The panel can be left and come back to *)
(* at any moment; what it was waiting for then goes on without it.         *)
(*                                                                         *)
(* What the panel shows of the backend comes through the query cache,      *)
(* see QueryCache.                                                         *)
(***************************************************************************)
EXTENDS Naturals, FiniteSets, Sequences, QueryCache

CONSTANTS
    Conversations,  \* ids a conversation can have
    MaxSends,       \* bound: questions sent
    MaxIncidents,   \* bound: clicks other than Send, failures, other tabs
    Compact         \* TRUE for the popup, FALSE for the page

None == "none"
Sends == 1..MaxSends

ASSUME ChatAssumption ==
    /\ None \notin Conversations
    /\ MaxSends \in Nat /\ MaxIncidents \in Nat
    /\ Compact \in BOOLEAN

VARIABLES
    stored,     \* backend: is a conversation unborn, kept or gone
    saved,      \* backend: the questions of a conversation whose reply is saved
    runs,       \* backend: the questions that started a run
    stream,     \* the chat request of each question
    panel,      \* what the component keeps in its state
    creating,   \* createConversationMutation, by the question that awaits it
    deleting,   \* deleteConversationMutation
    list,       \* cache: the query of all conversations
    detail,     \* cache: the query of each conversation
    onComplete, \* the handler of message_complete, between its two awaits
    incidents   \* number of incidents so far

vars == <<stored, saved, runs, stream, panel, creating, deleting, list,
          detail, onComplete, incidents>>

------------------------------------------------------------------------------
(* The query cache.                                                         *)

Unloaded == Unfetched({})

Shown(c) == panel.mounted /\ panel.active = c

\* qc.invalidateQueries(["/ai/conversations"]): the list, and every
\* conversation, whose keys begin with the same element.
InvalidateAll ==
    /\ list' = IF panel.mounted THEN Refetched(list) ELSE Invalidated(list)
    /\ detail' = [c \in Conversations |->
                    IF Shown(c) THEN Refetched(detail[c])
                    ELSE Invalidated(detail[c])]

\* Is what an await of an invalidation waits for over?
Refreshed == /\ list.fetch = "idle"
             /\ panel.active # None => detail[panel.active].fetch = "idle"

------------------------------------------------------------------------------
(* The panel.                                                               *)

NoCreation == [phase |-> "idle", conv |-> None, mine |-> FALSE]
Asked == [phase |-> "asked", conv |-> None, mine |-> TRUE]

\* The creation of a click on New, and those that questions wait for.  Clicks
\* on New are bounded: one of them is in flight at a time.
New == 0
Creators == {New} \cup Sends

Over == [phase |-> "over", conv |-> None, wire |-> <<>>, mine |-> FALSE]
NoStream == [phase |-> "none", conv |-> None, wire |-> <<>>, mine |-> FALSE]

\* The state of a component that has just been mounted: the selected conversation
\* comes from localStorage, the rest is new.  (The draft does too; what the admin
\* types is not modelled, only that there is something to send.)
Mounted(active) ==
    [mounted |-> TRUE, active |-> active, streaming |-> FALSE,
     reply |-> {}, lastRun |-> 0, view |-> "chat",
     asked |-> 0]

Init ==
    /\ stored \in [Conversations -> {"unborn", "kept"}]
    /\ saved = [c \in Conversations |-> {}]
    /\ runs = {}
    /\ stream = [n \in Sends |-> NoStream]
    /\ \E active \in {None} \cup {c \in Conversations : stored[c] = "kept"} :
         /\ panel = Mounted(active)
         /\ detail = [c \in Conversations |->
                        IF c = active THEN Fetched(Unloaded) ELSE Unloaded]
    /\ creating = [k \in Creators |-> NoCreation]
    /\ deleting = [c \in Conversations |-> "idle"]
    /\ list = Fetched(Unloaded)
    /\ onComplete = [n \in Sends |-> None]
    /\ incidents = 0

\* With no conversation selected, an effect selects the first of the list.
AutoSelected(active, l) ==
    IF active # None \/ l.data = {} THEN {active} ELSE l.data

\* A conversation that comes on the screen is fetched if it is stale.
Opened(c, d) ==
    IF c = None THEN d ELSE [d EXCEPT ![c] = MountedQuery(@)]

\* A click or a failure, of which there are MaxIncidents.
Incident ==
    /\ incidents < MaxIncidents
    /\ incidents' = incidents + 1

\* What the conversation list offers.
SelectorOffers ==
    IF ~panel.mounted THEN {}
    ELSE {<<"new">>}
         \cup {<<"select", c>> : c \in list.data}
         \cup {<<"delete", c>> : c \in IF Compact THEN {panel.active} \ {None}
                                       ELSE list.data}

\* What the rest of the chat offers: the popup has a second view, which shows
\* the output of the run that the reply has started, instead of the text box.
TailShown == Compact /\ panel.view = "run" /\ panel.lastRun # 0
ChatOffers ==
    IF ~panel.mounted THEN {}
    ELSE IF TailShown THEN {<<"chat">>}
    ELSE {<<"send">>} \cup (IF Compact /\ panel.lastRun # 0 THEN {<<"tail">>} ELSE {})

SwitchesView ==
    /\ Incident
    /\ \/ /\ <<"chat">> \in ChatOffers
          /\ panel' = [panel EXCEPT !.view = "chat"]
       \/ /\ <<"tail">> \in ChatOffers
          /\ panel' = [panel EXCEPT !.view = "run"]
    /\ UNCHANGED <<stored, saved, runs, stream, creating, deleting, list,
                   detail, onComplete>>

Selects(c) ==
    /\ Incident
    /\ <<"select", c>> \in SelectorOffers
    /\ c # panel.active
    /\ panel' = [panel EXCEPT !.active = c]
    /\ detail' = Opened(c, detail)
    /\ UNCHANGED <<stored, saved, runs, stream, creating, deleting, list,
                   onComplete>>

------------------------------------------------------------------------------
(* handleSend.                                                              *)

NextSend == Cardinality({n \in Sends : stream[n].phase # "none"}) + 1

Request(c, phase, mine) ==
    [NoStream EXCEPT !.phase = phase, !.conv = c, !.mine = mine]

\* Wrong: the run of the question before is not forgotten.
AskingKeepsRun(n) == [panel EXCEPT !.streaming = TRUE, !.reply = {},
                                   !.view = "chat", !.asked = n]

\* Wrong: the reply to the question before is not forgotten.
AskingKeepsReply(n) == [panel EXCEPT !.streaming = TRUE,
                                     !.lastRun = 0, !.view = "chat",
                                     !.asked = n]

\* What handleSend resets before anything else.
Asking(n) == [panel EXCEPT !.streaming = TRUE, !.reply = {},
                           !.lastRun = 0, !.view = "chat", !.asked = n]

\* handleSend: with a conversation selected the request is sent at once;
\* without one, createConversationMutation is awaited first.
Send(n) ==
    /\ <<"send">> \in ChatOffers
    /\ ~panel.streaming
    /\ n = NextSend
    /\ panel' = Asking(n)
    /\ \/ /\ panel.active # None
          /\ stream' = [stream EXCEPT ![n] =
                          Request(panel.active, "posted", TRUE)]
          /\ UNCHANGED creating
       \/ /\ panel.active = None
          /\ stream' = [stream EXCEPT ![n] = Request(None, "waiting", TRUE)]
          /\ creating' = [creating EXCEPT ![n] = Asked]
    /\ UNCHANGED <<stored, saved, runs, deleting, list, detail, onComplete,
                   incidents>>

------------------------------------------------------------------------------
(* Creating and deleting conversations.                                     *)

ClicksNew ==
    /\ Incident
    /\ <<"new">> \in SelectorOffers
    /\ creating[New].phase = "idle"
    /\ creating' = [creating EXCEPT ![New] = Asked]
    /\ UNCHANGED <<stored, saved, runs, stream, panel, deleting, list, detail,
                   onComplete>>

\* The backend creates it; onSuccess invalidates, and waits for the queries to be
\* fetched.
CreationAnswered(k, c) ==
    /\ creating[k].phase = "asked"
    /\ stored[c] = "unborn"
    /\ stored' = [stored EXCEPT ![c] = "kept"]
    /\ creating' = [creating EXCEPT ![k].phase = "refreshing", ![k].conv = c]
    /\ InvalidateAll
    /\ UNCHANGED <<saved, runs, stream, panel, deleting, onComplete, incidents>>

\* Then it selects the conversation; a handleSend that waits for it goes on
\* with its request, even when the panel has been left.
CreationEnds(k) ==
    /\ creating[k].phase = "refreshing"
    /\ Refreshed
    /\ IF creating[k].mine
       THEN /\ panel' = [panel EXCEPT !.active = creating[k].conv]
            /\ detail' = Opened(creating[k].conv, detail)
       ELSE UNCHANGED <<panel, detail>>
    /\ stream' = IF k = New THEN stream
                 ELSE [stream EXCEPT ![k] =
                         Request(creating[k].conv, "posted", @.mine)]
    /\ creating' = [creating EXCEPT ![k] = NoCreation]
    /\ UNCHANGED <<stored, saved, runs, deleting, list, onComplete,
                   incidents>>

\* The creation fails.  handleSend awaits it outside its try: nothing resets
\* streaming, and no error is shown.
CreationFails(k) ==
    /\ creating[k].phase = "asked"
    /\ Incident
    /\ creating' = [creating EXCEPT ![k] = NoCreation]
    /\ stream' = IF k = New THEN stream
                 ELSE [stream EXCEPT ![k].phase = "abandoned"]
    /\ UNCHANGED <<stored, saved, runs, panel, deleting, list, detail,
                   onComplete>>

ConfirmsDelete(c) ==
    /\ Incident
    /\ <<"delete", c>> \in SelectorOffers
    /\ deleting[c] = "idle"
    /\ deleting' = [deleting EXCEPT ![c] = "asked"]
    /\ UNCHANGED <<stored, saved, runs, stream, panel, creating, list, detail,
                   onComplete>>

\* The backend deletes the conversation with its messages; onSuccess invalidates,
\* and waits for the queries to be fetched.  A conversation that is gone already
\* is answered with 404, which the mutation ignores.
DeletionAnswered(c) ==
    /\ deleting[c] \in {"asked", "asked and left"}
    /\ IF stored[c] = "kept"
       THEN /\ deleting' = [deleting EXCEPT ![c] =
                              IF @ = "asked" THEN "refreshing" ELSE "idle"]
            /\ InvalidateAll
       ELSE /\ deleting' = [deleting EXCEPT ![c] = "idle"]
            /\ UNCHANGED <<list, detail>>
    /\ stored' = [stored EXCEPT ![c] = "gone"]
    /\ saved' = [saved EXCEPT ![c] = {}]
    /\ UNCHANGED <<runs, stream, panel, creating, onComplete, incidents>>

\* setActiveConversationId(null), whichever conversation is selected by now;
\* the effect then selects the first of the list.
DeletionEnds(c) ==
    /\ deleting[c] = "refreshing"
    /\ Refreshed
    /\ deleting' = [deleting EXCEPT ![c] = "idle"]
    /\ \E a \in AutoSelected(None, list) :
         /\ panel' = [panel EXCEPT !.active = a]
         /\ detail' = Opened(a, detail)
    /\ UNCHANGED <<stored, saved, runs, stream, creating, list, onComplete,
                   incidents>>

\* Another tab, or a browser elsewhere, deletes a conversation.
DeletedElsewhere(c) ==
    /\ Incident
    /\ stored[c] = "kept"
    /\ stored' = [stored EXCEPT ![c] = "gone"]
    /\ saved' = [saved EXCEPT ![c] = {}]
    /\ UNCHANGED <<runs, stream, panel, creating, deleting, list, detail,
                   onComplete>>

------------------------------------------------------------------------------
(* stream_chat of the backend.                                              *)

InBackend == {"posted", "routing", "speaking", "spoken", "direct", "saved"}

Moves(n, phase) == stream' = [stream EXCEPT ![n].phase = phase]

Says(n, phase, events) ==
    stream' = [stream EXCEPT ![n].phase = phase, ![n].wire = @ \o events]

Kept(n) == stored[stream[n].conv] = "kept"

\* The request arrives and the question is saved, unless the conversation does
\* not exist (404) or the chat cannot be used (409, an incident: Breaks).
Arrives(n) ==
    /\ stream[n].phase = "posted"
    /\ Moves(n, IF Kept(n) THEN "routing" ELSE "broken")
    /\ UNCHANGED <<stored, saved, runs, panel, creating, deleting, list, detail,
                   onComplete, incidents>>

\* The manager hands the question to a specialist.
Routes(n) ==
    /\ stream[n].phase = "routing"
    /\ Moves(n, "speaking")
    /\ UNCHANGED <<stored, saved, runs, panel, creating, deleting, list,
                   detail, onComplete, incidents>>

\* The specialist's reply is streamed; one piece stands for any number of them.
Speaks(n) ==
    /\ stream[n].phase = "speaking"
    /\ Says(n, "spoken", <<"piece">>)
    /\ UNCHANGED <<stored, saved, runs, panel, creating, deleting, list,
                   detail, onComplete, incidents>>

\* The provider fails: an error event ends the stream.
Fails(n) ==
    /\ stream[n].phase \in {"routing", "speaking", "spoken"}
    /\ Says(n, "closed", <<"error">>)
    /\ UNCHANGED <<stored, saved, runs, panel, creating, deleting, list,
                   detail, onComplete, incidents>>

\* The reply of the manager itself, or of the specialist, is saved; that fails
\* in a conversation that is gone, and ends the response without an event.
Saves(n) ==
    /\ stream[n].phase \in {"routing", "spoken"}
    /\ IF Kept(n)
       THEN /\ saved' = [saved EXCEPT ![stream[n].conv] = @ \cup {n}]
            /\ Moves(n, IF stream[n].phase = "routing" THEN "direct"
                        ELSE "saved")
       ELSE Moves(n, "broken") /\ UNCHANGED saved
    /\ UNCHANGED <<stored, runs, panel, creating, deleting, list, detail,
                   onComplete, incidents>>

\* The manager's reply is sent as one piece; a specialist's may start a run.
Completes(n) ==
    /\ \/ /\ stream[n].phase = "direct"
          /\ Says(n, "closed", <<"piece", "complete">>)
          /\ UNCHANGED runs
       \/ /\ stream[n].phase = "saved"
          /\ \/ /\ Says(n, "closed", <<"complete">>)
                /\ UNCHANGED runs
             \/ /\ Says(n, "closed", <<"complete with run">>)
                /\ runs' = runs \cup {n}
    /\ UNCHANGED <<stored, saved, panel, creating, deleting, list, detail,
                   onComplete, incidents>>

\* The connection is lost, the backend stops, or it refuses the request.
Breaks(n) ==
    /\ stream[n].phase \in InBackend
    /\ Incident
    /\ Moves(n, "broken")
    /\ UNCHANGED <<stored, saved, runs, panel, creating, deleting, list,
                   detail, onComplete>>

------------------------------------------------------------------------------
(* streamAssistantChat and the handlers of its events.                      *)

\* The component that sent the question is the one on the screen.
Mine(n) == stream[n].mine

\* An event of the stream.  A panel that has been left sees nothing of it, but
\* its handler still refreshes the cache.
Receives(n) ==
    /\ stream[n].wire # <<>>
    /\ LET event == Head(stream[n].wire)
       IN \/ /\ event = "piece"
             /\ stream' = [stream EXCEPT ![n].wire = Tail(@)]
             /\ panel' = IF Mine(n) THEN [panel EXCEPT !.reply = @ \cup {n}]
                         ELSE panel
             /\ UNCHANGED <<list, detail, onComplete>>
          \/ /\ event = "error"
             /\ stream' = [stream EXCEPT ![n] = Over]
             /\ panel' = IF Mine(n) THEN [panel EXCEPT !.streaming = FALSE]
                         ELSE panel
             /\ UNCHANGED <<list, detail, onComplete>>
          \/ /\ event \in {"complete", "complete with run"}
             /\ stream' = [stream EXCEPT ![n] = Over]
             /\ panel' = IF ~Mine(n) THEN panel
                         ELSE IF event = "complete"
                         THEN [panel EXCEPT !.streaming = FALSE]
                         ELSE [panel EXCEPT !.streaming = FALSE, !.lastRun = n,
                                            !.view = IF Compact THEN "run" ELSE @]
             /\ InvalidateAll
             /\ onComplete' = [onComplete EXCEPT ![n] = stream[n].conv]
    /\ UNCHANGED <<stored, saved, runs, creating, deleting, incidents>>

\* Wrong: message_complete refreshes the cache only once.
RefreshedOnce(n) ==
    /\ onComplete[n] # None
    /\ Refreshed
    /\ onComplete' = [onComplete EXCEPT ![n] = None]
    /\ UNCHANGED <<stored, saved, runs, stream, panel, creating, deleting, list,
                   detail, incidents>>

\* The handler goes on after its first await, and invalidates the conversation
\* once more: the first time may have met a fetch that it could not drop.
RefreshesAgain(n) ==
    /\ onComplete[n] # None
    /\ Refreshed
    /\ onComplete' = [onComplete EXCEPT ![n] = None]
    /\ LET c == onComplete[n]
       IN detail' = [detail EXCEPT ![c] = IF Shown(c) THEN Refetched(@)
                                          ELSE Invalidated(@)]
    /\ UNCHANGED <<stored, saved, runs, stream, panel, creating, deleting, list,
                   incidents>>

\* Wrong: the button goes on spinning.
CatchesErrorSpinning(n) ==
    /\ stream[n].phase = "broken"
    /\ stream' = [stream EXCEPT ![n] = Over]
    /\ UNCHANGED <<stored, saved, runs, panel, creating, deleting, list, detail,
                   onComplete, incidents>>

\* The request is refused or the connection breaks: handleSend catches it, and
\* shows an error.  What has not been read of the stream is lost.
CatchesError(n) ==
    /\ stream[n].phase = "broken"
    /\ stream' = [stream EXCEPT ![n] = Over]
    /\ panel' = IF Mine(n) THEN [panel EXCEPT !.streaming = FALSE] ELSE panel
    /\ UNCHANGED <<stored, saved, runs, creating, deleting, list, detail,
                   onComplete, incidents>>

------------------------------------------------------------------------------
(* Fetches, and leaving the panel.                                          *)

ListAnswers ==
    /\ list.fetch = "sent"
    /\ list' = Answered(list, {c \in Conversations : stored[c] = "kept"})
    /\ UNCHANGED <<stored, saved, runs, stream, panel, creating, deleting,
                   detail, onComplete, incidents>>

ListArrives ==
    /\ list.fetch = "answered"
    /\ list' = Delivered(list, {})
    /\ IF panel.mounted
       THEN \E a \in AutoSelected(panel.active, list') :
              /\ panel' = [panel EXCEPT !.active = a]
              /\ detail' = IF a = panel.active THEN detail ELSE Opened(a, detail)
       ELSE UNCHANGED <<panel, detail>>
    /\ UNCHANGED <<stored, saved, runs, stream, creating, deleting, onComplete,
                   incidents>>

\* The list cannot be fetched: the old one stays on the screen.
ListFails ==
    /\ list.fetch = "sent"
    /\ Incident
    /\ list' = FetchFailed(list)
    /\ UNCHANGED <<stored, saved, runs, stream, panel, creating, deleting,
                   detail, onComplete>>

DetailAnswers(c) ==
    /\ detail[c].fetch = "sent"
    /\ detail' = [detail EXCEPT ![c] =
                    IF stored[c] = "kept" THEN Answered(@, saved[c])
                    ELSE FetchFailed(@)]
    /\ UNCHANGED <<stored, saved, runs, stream, panel, creating, deleting, list,
                   onComplete, incidents>>

DetailArrives(c) ==
    /\ detail[c].fetch = "answered"
    /\ detail' = [detail EXCEPT ![c] = Delivered(@, {})]
    /\ UNCHANGED <<stored, saved, runs, stream, panel, creating, deleting, list,
                   onComplete, incidents>>

\* The admin goes to another page, or closes the popup.  Requests go on, but what
\* their handlers set in the state of the component is lost: a deletion leaves
\* the deleted conversation in localStorage.
Leave ==
    /\ Incident
    /\ panel.mounted
    /\ panel' = [Mounted(panel.active) EXCEPT !.mounted = FALSE]
    /\ stream' = [n \in Sends |-> [stream[n] EXCEPT !.mine = FALSE]]
    /\ creating' = [k \in Creators |-> [creating[k] EXCEPT !.mine = FALSE]]
    /\ deleting' = [c \in Conversations |->
                      IF deleting[c] = "idle" \/ deleting[c] = "refreshing"
                      THEN "idle" ELSE "asked and left"]
    /\ UNCHANGED <<stored, saved, runs, list, detail, onComplete>>

Return ==
    /\ ~panel.mounted
    /\ \E a \in AutoSelected(panel.active, list) :
         /\ panel' = Mounted(a)
         /\ detail' = Opened(a, detail)
    /\ list' = MountedQuery(list)
    /\ UNCHANGED <<stored, saved, runs, stream, creating, deleting, onComplete,
                   incidents>>

ConversationStep ==
    \/ \E k \in Creators : \/ CreationEnds(k)
                          \/ \E c \in Conversations : CreationAnswered(k, c)
    \/ \E c \in Conversations : DeletionAnswered(c) \/ DeletionEnds(c)

AnswerStep(n) == Arrives(n) \/ Routes(n) \/ Speaks(n) \/ Fails(n) \/ Saves(n)
                 \/ Completes(n)

ReaderStep(n) == Receives(n) \/ CatchesError(n)

FetchStep ==
    \/ ListAnswers \/ ListArrives
    \/ \E c \in Conversations : DetailAnswers(c) \/ DetailArrives(c)

Next ==
    \/ SwitchesView \/ ClicksNew \/ Leave \/ Return
    \/ \E c \in Conversations : Selects(c) \/ ConfirmsDelete(c)
                               \/ DeletedElsewhere(c)
    \/ \E k \in Creators : CreationFails(k)
    \/ ListFails
    \/ ConversationStep \/ FetchStep
    \/ \E n \in Sends : \/ Send(n) \/ AnswerStep(n) \/ Breaks(n)
                        \/ ReaderStep(n) \/ RefreshesAgain(n)

Spec == Init /\ [][Next]_vars

\* Requests are answered, responses are read, and the handlers of what has been
\* answered go on.
FairSpec ==
    /\ Spec
    /\ \A k \in Creators :
         /\ WF_vars(\E c \in Conversations : CreationAnswered(k, c))
         /\ WF_vars(CreationEnds(k))
    /\ WF_vars(ListAnswers) /\ WF_vars(ListArrives)
    /\ \A c \in Conversations :
         /\ WF_vars(DeletionAnswered(c)) /\ WF_vars(DeletionEnds(c))
         /\ WF_vars(DetailAnswers(c)) /\ WF_vars(DetailArrives(c))
    /\ \A n \in Sends :
         /\ WF_vars(AnswerStep(n)) /\ WF_vars(ReaderStep(n))
         /\ WF_vars(RefreshesAgain(n))

------------------------------------------------------------------------------
(* Properties.                                                              *)

\* The run that the panel offers to watch is one that the last question asked in
\* this panel has started (AssistantPanel.tsx:607, 629): never an older one, and
\* never one of a panel that has been left.
RunShownIsOfThisQuestion ==
    panel.lastRun # 0 => panel.lastRun = panel.asked /\ panel.lastRun \in runs

\* The streamed text is that of the last question, however the streams of
\* earlier ones have ended (AssistantPanel.tsx:605, 626).
ReplyIsOfThisQuestion ==
    panel.reply \subseteq {panel.asked}

\* The Send button only spins while something will end it.  The one exception is
\* a conversation that could not be created (AssistantPanel.tsx:613), which
\* leaves the panel spinning until it is left.
SpinsForAReason ==
    panel.streaming =>
        LET s == stream[panel.asked]
        IN \/ s.phase \in InBackend \cup {"waiting", "broken"}
           \/ s.phase = "closed" /\ s.wire # <<>>
           \/ s.phase = "abandoned"

\* A reply that is complete is on the screen at some time, saved as it is in the
\* backend, unless the conversation is left or deleted: no response that was on
\* its way hides it (AssistantPanel.tsx:634-637).
AnswersShow ==
    \A n \in Sends, c \in Conversations :
        (onComplete[n] = c /\ Shown(c))
        ~> (n \in detail[c].data \/ ~Shown(c) \/ stored[c] = "gone")
==============================================================================
