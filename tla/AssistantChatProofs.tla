-------------------------- MODULE AssistantChatProofs -------------------------
(***************************************************************************)
(* Proofs about AssistantChat for any conversations, questions and         *)
(* incidents, in the popup and on the page.                                *)
(*                                                                         *)
(* What the panel shows of a question comes through the handlers of its    *)
(* stream.  The argument is that a stream whose handlers still belong to   *)
(* the panel on the screen (mine) is that of the last question, and that   *)
(* the button spins exactly while there is one (PanelInv); together with   *)
(* what may be on the wire (WireOK) this gives the three invariants.       *)
(***************************************************************************)
EXTENDS AssistantChat, TLAPS

Events == {"piece", "error", "complete", "complete with run"}
Phases == InBackend \cup {"none", "waiting", "abandoned", "broken", "closed", "over"}
Chosen == Conversations \cup {None}

Panels == [mounted : BOOLEAN, active : Chosen, streaming : BOOLEAN,
           reply : SUBSET Sends, lastRun : Sends \cup {0},
           view : {"chat", "run"}, asked : Sends \cup {0}]
Streams == [phase : Phases, conv : Chosen, wire : Seq(Events), mine : BOOLEAN]
Creation == [phase : {"idle", "asked", "refreshing"}, conv : Chosen,
             mine : BOOLEAN]
Creations == [Creators -> Creation]
Lists == [loaded : BOOLEAN, data : SUBSET Conversations, stale : BOOLEAN,
          fetch : {"idle", "sent", "answered"}, answer : SUBSET Conversations]

Typed ==
    /\ panel \in Panels /\ stream \in [Sends -> Streams]
    /\ creating \in Creations /\ list \in Lists /\ runs \subseteq Sends

------------------------------------------------------------------------------
\* What is left to read of question n: a run that it announces has been started,
\* and a response that has ended does so with an event that stops the spinner.
Announced(n, w, started) ==
    \A i \in 1..Len(w) : w[i] = "complete with run" => n \in started

WireOK(n, s, started) ==
    /\ Announced(n, s.wire, started)
    /\ s.phase = "closed" => Len(s.wire) > 0 /\ s.wire[Len(s.wire)] # "piece"

\* A stream that still belongs to panel p.
Belongs(n, s, p) ==
    s.mine => /\ p.asked = n /\ p.streaming
              /\ s.phase \notin {"none", "over"}

PanelOK(p, started) ==
    /\ p.lastRun # 0 => p.lastRun = p.asked /\ p.lastRun \in started
    /\ p.reply \subseteq {p.asked}
    /\ p.streaming => p.asked \in Sends /\ p.mounted

StreamsInv == \A n \in Sends : WireOK(n, stream[n], runs) /\ Belongs(n, stream[n], panel)
PanelInv == PanelOK(panel, runs) /\ (panel.streaming => stream[panel.asked].mine)

IInv == Typed /\ StreamsInv /\ PanelInv

------------------------------------------------------------------------------
(* Steps of one stream, and of the panel.                                   *)

LEMMA StreamFacts ==
    ASSUME IInv, NEW n \in Sends
    PROVE  /\ stream[n] \in Streams /\ WireOK(n, stream[n], runs)
           /\ Belongs(n, stream[n], panel)
BY DEF IInv, Typed, StreamsInv

\* A stream that goes on, for the same panel or for none.
LEMMA StreamGoesOn ==
    ASSUME IInv, NEW n \in Sends, NEW s \in Streams, s.mine = stream[n].mine,
           s.mine => s.phase \notin {"none", "over"}, WireOK(n, s, runs'),
           runs \subseteq runs', runs' \subseteq Sends,
           stream' = [stream EXCEPT ![n] = s],
           creating' \in Creations, list' \in Lists, panel' = panel
    PROVE  IInv'
<1>1. Typed /\ StreamsInv /\ PanelInv /\ stream \in [Sends -> Streams]
  BY DEF IInv, Typed
<1>2. stream'[n] = s /\ \A m \in Sends \ {n} : stream'[m] = stream[m]
  BY <1>1
<1>3. ASSUME NEW m \in Sends
      PROVE  WireOK(m, stream'[m], runs') /\ Belongs(m, stream'[m], panel')
  <2>1. WireOK(m, stream[m], runs) /\ Belongs(m, stream[m], panel)
    BY StreamFacts
  <2>2. CASE m = n
    BY <1>2, <2>1, <2>2 DEF Belongs
  <2>3. CASE m # n
    <3>1. WireOK(m, stream[m], runs')
      BY <2>1 DEF WireOK, Announced
    <3> QED
      BY <1>2, <2>1, <2>3, <3>1
  <2> QED
    BY <2>2, <2>3
<1>4. PanelInv'
  BY <1>1, <1>2 DEF PanelInv, PanelOK
<1>5. StreamsInv'
  BY <1>3 DEF StreamsInv
<1> QED
  BY <1>1, <1>4, <1>5 DEF IInv, Typed

\* The panel changes in what no question depends on.
LEMMA PanelGoesOn ==
    ASSUME IInv, NEW active \in Chosen, NEW view \in {"chat", "run"},
           panel' = [panel EXCEPT !.active = active, !.view = view],
           UNCHANGED <<stream, runs>>, creating' \in Creations, list' \in Lists
    PROVE  IInv'
<1>1. Typed /\ StreamsInv /\ PanelInv /\ panel \in Panels
  BY DEF IInv, Typed
<1>2. /\ panel' \in Panels /\ panel'.asked = panel.asked
      /\ panel'.streaming = panel.streaming /\ panel'.lastRun = panel.lastRun
      /\ panel'.reply = panel.reply /\ panel'.mounted = panel.mounted
  BY <1>1 DEF Panels
<1>3. StreamsInv'
  BY <1>1, <1>2 DEF StreamsInv, Belongs
<1>4. PanelInv'
  BY <1>1, <1>2 DEF PanelInv, PanelOK
<1> QED
  BY <1>1, <1>2, <1>3, <1>4 DEF IInv, Typed

\* Neither the panel nor a stream changes.
LEMMA NothingShownChanges ==
    ASSUME IInv, UNCHANGED <<stream, runs, panel>>, creating' \in Creations,
           list' \in Lists
    PROVE  IInv'
BY DEF IInv, Typed, StreamsInv, PanelInv

\* The stream of question n is over, for the panel that sent it too.
LEMMA StreamIsOver ==
    ASSUME IInv, NEW n \in Sends, stream' = [stream EXCEPT ![n] = Over],
           UNCHANGED <<runs, creating>>, list' \in Lists, NEW p \in Panels,
           PanelOK(p, runs), ~p.streaming,
           panel' = IF stream[n].mine THEN p ELSE panel
    PROVE  IInv'
<1>1. Typed /\ StreamsInv /\ PanelInv /\ stream \in [Sends -> Streams]
      /\ panel \in Panels
  BY DEF IInv, Typed
<1>2. Over \in Streams /\ ~Over.mine /\ WireOK(n, Over, runs)
  <2>1. <<>> \in Seq(Events)
    OBVIOUS
  <2> QED
    BY <2>1 DEF Over, Streams, Phases, Chosen, WireOK, Announced
<1>3. /\ stream' \in [Sends -> Streams] /\ stream'[n] = Over
      /\ \A m \in Sends \ {n} : stream'[m] = stream[m]
  BY <1>1, <1>2
<1>4. stream[n].mine => \A m \in Sends \ {n} : ~stream[m].mine
  BY <1>1 DEF StreamsInv, Belongs
<1>5. StreamsInv'
  <2>1. ASSUME NEW m \in Sends
        PROVE  WireOK(m, stream'[m], runs) /\ Belongs(m, stream'[m], panel')
    <3>1. CASE m = n
      BY <1>2, <1>3, <3>1 DEF Belongs
    <3>2. CASE m # n
      BY <1>1, <1>3, <1>4, <3>2 DEF StreamsInv, Belongs
    <3> QED
      BY <3>1, <3>2
  <2> QED
    BY <2>1 DEF StreamsInv
<1>6. PanelInv'
  <2>1. CASE stream[n].mine
    BY <2>1 DEF PanelInv
  <2>2. CASE ~stream[n].mine
    BY <1>1, <1>3, <2>2 DEF PanelInv, PanelOK
  <2> QED
    BY <2>1, <2>2
<1> QED
  BY <1>1, <1>3, <1>5, <1>6 DEF IInv, Typed

------------------------------------------------------------------------------
(* The list of conversations.                                               *)

LEMMA ListOps ==
    ASSUME NEW l \in Lists, NEW kept \in SUBSET Conversations
    PROVE  /\ Refetched(l) \in Lists /\ Invalidated(l) \in Lists
           /\ MountedQuery(l) \in Lists /\ FetchFailed(l) \in Lists
           /\ Answered(l, kept) \in Lists /\ Delivered(l, {}) \in Lists
BY DEF Lists, Refetched, Invalidated, MountedQuery, Fetched, FetchFailed,
       Answered, Delivered

LEMMA InvalidatesList ==
    ASSUME Typed, InvalidateAll
    PROVE  list' \in Lists
BY ListOps DEF Typed, InvalidateAll

LEMMA SelectsKnown ==
    ASSUME NEW active \in Chosen, NEW l \in Lists, NEW a \in AutoSelected(active, l)
    PROVE  a \in Chosen
BY DEF AutoSelected, Lists, Chosen

\* The panel with another conversation, as the actions write it.
LEMMA Activates ==
    ASSUME IInv, NEW active \in Chosen, panel' = [panel EXCEPT !.active = active],
           UNCHANGED <<stream, runs>>, creating' \in Creations, list' \in Lists
    PROVE  IInv'
<1>1. panel \in Panels /\ panel.view \in {"chat", "run"}
  BY DEF IInv, Typed, Panels
<1>2. panel' = [panel EXCEPT !.active = active, !.view = panel.view]
  BY <1>1 DEF Panels
<1> QED
  BY <1>1, <1>2, PanelGoesOn

------------------------------------------------------------------------------
(* Conversations.                                                           *)

LEMMA ConversationsKeep ==
    ASSUME IInv, NEW c \in Conversations,
           \/ Selects(c) \/ ConfirmsDelete(c) \/ DeletedElsewhere(c)
           \/ DeletionAnswered(c) \/ DeletionEnds(c)
    PROVE  IInv'
<1>1. Typed /\ creating \in Creations /\ list \in Lists /\ c \in Chosen
  BY DEF IInv, Typed, Chosen
<1>2. CASE Selects(c)
  BY <1>1, <1>2, Activates DEF Selects
<1>3. CASE ConfirmsDelete(c) \/ DeletedElsewhere(c)
  BY <1>1, <1>3, NothingShownChanges DEF ConfirmsDelete, DeletedElsewhere
<1>4. CASE DeletionAnswered(c)
  <2>1. list' \in Lists
    BY <1>1, <1>4, InvalidatesList DEF DeletionAnswered
  <2> QED
    BY <1>1, <1>4, <2>1, NothingShownChanges DEF DeletionAnswered
<1>5. CASE DeletionEnds(c)
  <2>1. PICK a \in AutoSelected(None, list) : panel' = [panel EXCEPT !.active = a]
    BY <1>5 DEF DeletionEnds
  <2>2. a \in Chosen
    BY <1>1, SelectsKnown DEF Chosen
  <2> QED
    BY <1>1, <1>5, <2>1, <2>2, Activates DEF DeletionEnds
<1> QED
  BY <1>2, <1>3, <1>4, <1>5

LEMMA ListKeeps ==
    ASSUME IInv, ListAnswers \/ ListArrives \/ ListFails
    PROVE  IInv'
<1>1. creating \in Creations /\ list \in Lists /\ panel.active \in Chosen
  BY DEF IInv, Typed, Panels
<1>2. CASE ListAnswers
  <2>1. list' \in Lists
    BY <1>1, <1>2, ListOps DEF ListAnswers
  <2> QED
    BY <1>1, <1>2, <2>1, NothingShownChanges DEF ListAnswers
<1>3. CASE ListArrives
  <2>1. list' \in Lists
    BY <1>1, <1>3, ListOps DEF ListArrives
  <2>2. CASE panel' = panel
    BY <1>1, <1>3, <2>1, <2>2, NothingShownChanges DEF ListArrives
  <2>3. CASE \E a \in AutoSelected(panel.active, list') :
               panel' = [panel EXCEPT !.active = a]
    <3>1. PICK a \in AutoSelected(panel.active, list') :
            panel' = [panel EXCEPT !.active = a]
      BY <2>3
    <3>2. a \in Chosen
      BY <1>1, <2>1, SelectsKnown
    <3> QED
      BY <1>1, <1>3, <2>1, <3>1, <3>2, Activates DEF ListArrives
  <2> QED
    BY <1>3, <2>2, <2>3 DEF ListArrives
<1>4. CASE ListFails
  <2>1. list' \in Lists
    BY <1>1, <1>4, ListOps DEF ListFails
  <2> QED
    BY <1>1, <1>4, <2>1, NothingShownChanges DEF ListFails
<1> QED
  BY <1>2, <1>3, <1>4

LEMMA RequestFacts ==
    ASSUME NEW c \in Chosen, NEW phase \in Phases, NEW mine \in BOOLEAN
    PROVE  LET s == Request(c, phase, mine)
           IN s \in Streams /\ s.mine = mine /\ s.phase = phase /\ s.wire = <<>>
<1>1. <<>> \in Seq(Events)
  OBVIOUS
<1>2. NoStream \in Streams /\ NoStream.wire = <<>>
  BY <1>1 DEF NoStream, Streams, Phases, Chosen
<1> QED
  BY <1>2 DEF Request, Streams

\* One creation goes on while the others are left alone.
LEMMA OneCreation ==
    ASSUME creating \in Creations, NEW k \in Creators, NEW e \in Creation,
           creating' = [creating EXCEPT ![k] = e]
    PROVE  creating' \in Creations
BY DEF Creations

LEMMA CreationValues ==
    /\ NoCreation \in Creation /\ Asked \in Creation
    /\ New \in Creators /\ Sends \subseteq Creators
    /\ \A k \in Creators : k # New => k \in Sends
BY DEF NoCreation, Asked, Creation, Chosen, Creators

LEMMA AnsweredKeeps ==
    ASSUME IInv, NEW k \in Creators, NEW c \in Conversations,
           CreationAnswered(k, c)
    PROVE  IInv'
<1>1. Typed /\ creating \in Creations /\ list \in Lists /\ c \in Chosen
  BY DEF IInv, Typed, Chosen
<1> DEFINE asked == [creating[k] EXCEPT !.phase = "refreshing"]
           e == [asked EXCEPT !.conv = c]
           first == [creating EXCEPT ![k] = asked]
<1>2. creating[k] \in Creation
  BY <1>1 DEF Creations
<1>3. e \in Creation
  BY <1>1, <1>2 DEF Creation
<1>4. creating' = [creating EXCEPT ![k] = e]
  <2>1. creating' = [first EXCEPT ![k] = [@ EXCEPT !.conv = c]]
    BY DEF CreationAnswered
  <2>2. first[k] = asked
    BY <1>1 DEF Creations
  <2> QED
    BY <1>1, <2>1, <2>2 DEF Creations
<1>5. creating' \in Creations
  BY <1>1, <1>3, <1>4, OneCreation
<1>6. list' \in Lists
  BY <1>1, InvalidatesList DEF CreationAnswered
<1> QED
  BY <1>1, <1>5, <1>6, NothingShownChanges DEF CreationAnswered

LEMMA NewKeeps ==
    ASSUME IInv, ClicksNew
    PROVE  IInv'
<1>1. creating \in Creations /\ list \in Lists
  BY DEF IInv, Typed
<1>2. creating' \in Creations
  BY <1>1, OneCreation, CreationValues DEF ClicksNew
<1> QED
  BY <1>1, <1>2, NothingShownChanges DEF ClicksNew

LEMMA CreatingKeeps ==
    ASSUME IInv, NEW k \in Creators, CreationEnds(k) \/ CreationFails(k)
    PROVE  IInv'
<1>1. /\ creating \in Creations /\ list \in Lists
      /\ stream \in [Sends -> Streams]
  BY DEF IInv, Typed
<1>2. creating' \in Creations
  BY <1>1, OneCreation, CreationValues DEF CreationEnds, CreationFails
<1>3. k # New => k \in Sends
  BY CreationValues
<1>4. CASE CreationFails(k)
  <2>1. creating' \in Creations /\ UNCHANGED <<runs, panel, list>>
    BY <1>2, <1>4 DEF CreationFails
  <2>2. CASE k = New
    BY <1>1, <1>4, <2>1, <2>2, NothingShownChanges DEF CreationFails
  <2>3. CASE k # New
    <3> DEFINE n == k
               s == [stream[n] EXCEPT !.phase = "abandoned"]
    <3>1. n \in Sends
      BY <1>3, <2>3
    <3>2. stream[n] \in Streams /\ WireOK(n, stream[n], runs)
      BY <3>1, StreamFacts
    <3>3. s \in Streams /\ s.mine = stream[n].mine /\ s.phase = "abandoned"
          /\ s.wire = stream[n].wire
      BY <3>2 DEF Streams, Phases
    <3>4. stream' = [stream EXCEPT ![n] = s]
      BY <1>1, <1>4, <2>3, <3>1 DEF CreationFails
    <3> HIDE DEF s
    <3>5. WireOK(n, s, runs)
      BY <3>2, <3>3 DEF WireOK
    <3> QED
      BY <1>1, <2>1, <3>1, <3>3, <3>4, <3>5, StreamGoesOn DEF IInv, Typed
  <2> QED
    BY <2>2, <2>3
<1>5. CASE CreationEnds(k)
  <2>1. creating' \in Creations /\ UNCHANGED <<runs, list>>
    BY <1>2, <1>5 DEF CreationEnds
  <2>2. creating[k].conv \in Chosen
    BY <1>1 DEF Creations, Creation
  <2>3. panel' = panel \/ panel' = [panel EXCEPT !.active = creating[k].conv]
    BY <1>5 DEF CreationEnds
  <2>4. ASSUME UNCHANGED stream
        PROVE  IInv'
    BY <1>1, <2>1, <2>2, <2>3, <2>4, Activates, NothingShownChanges
  <2>5. CASE k # New
    <3> DEFINE n == k
               s == Request(creating[k].conv, "posted", stream[n].mine)
    <3>1. n \in Sends
      BY <1>3, <2>5
    <3>2. stream[n] \in Streams /\ <<>> \in Seq(Events)
      BY <1>1, <3>1
    <3>3. /\ s \in Streams /\ s.mine = stream[n].mine /\ s.phase = "posted"
          /\ s.wire = <<>>
      <4>1. stream[n].mine \in BOOLEAN
        BY <3>2 DEF Streams
      <4> QED
        BY <2>2, <4>1, RequestFacts DEF Phases, InBackend
    <3>4. stream' = [stream EXCEPT ![n] = s]
      BY <1>1, <1>5, <2>5, <3>1 DEF CreationEnds
    <3> HIDE DEF n, s
    <3>5. WireOK(n, s, runs)
      BY <3>3 DEF WireOK, Announced
    <3>6. /\ Typed /\ StreamsInv /\ PanelInv /\ panel \in Panels
      BY DEF IInv, Typed
    <3>7. /\ panel' \in Panels /\ panel'.asked = panel.asked
          /\ panel'.streaming = panel.streaming /\ panel'.lastRun = panel.lastRun
          /\ panel'.reply = panel.reply /\ panel'.mounted = panel.mounted
      BY <2>2, <2>3, <3>6 DEF Panels
    <3>8. /\ stream' \in [Sends -> Streams] /\ stream'[n] = s
          /\ \A m \in Sends \ {n} : stream'[m] = stream[m]
      BY <1>1, <3>1, <3>3, <3>4
    <3>9. StreamsInv'
      <4>1. ASSUME NEW m \in Sends
            PROVE  WireOK(m, stream'[m], runs') /\ Belongs(m, stream'[m], panel')
        <5>1. WireOK(m, stream[m], runs) /\ Belongs(m, stream[m], panel)
          BY StreamFacts
        <5>2. CASE m = n
          BY <2>1, <3>3, <3>5, <3>7, <3>8, <5>1, <5>2 DEF Belongs
        <5>3. CASE m # n
          BY <2>1, <3>7, <3>8, <5>1, <5>3 DEF Belongs
        <5> QED
          BY <5>2, <5>3
      <4> QED
        BY <4>1 DEF StreamsInv
    <3>10. PanelInv'
      BY <2>1, <3>3, <3>6, <3>7, <3>8 DEF PanelInv, PanelOK
    <3> QED
      BY <1>1, <2>1, <3>6, <3>7, <3>8, <3>9, <3>10 DEF IInv, Typed
  <2> QED
    BY <1>5, <2>4, <2>5 DEF CreationEnds
<1> QED
  BY <1>4, <1>5

------------------------------------------------------------------------------
(* The panel is left, comes back, and asks.                                 *)

LEMMA SwitchKeeps ==
    ASSUME IInv, SwitchesView
    PROVE  IInv'
<1>1. /\ creating \in Creations /\ list \in Lists /\ panel \in Panels
      /\ panel.active \in Chosen
  BY DEF IInv, Typed, Panels
<1>2. PICK view \in {"chat", "run"} : panel' = [panel EXCEPT !.view = view]
  BY DEF SwitchesView
<1>3. panel' = [panel EXCEPT !.active = panel.active, !.view = view]
  BY <1>1, <1>2 DEF Panels
<1> QED
  BY <1>1, <1>3, PanelGoesOn DEF SwitchesView

\* While nothing streams no stream belongs to the panel.
LEMMA Quiet ==
    ASSUME IInv, ~panel.streaming, NEW n \in Sends
    PROVE  ~stream[n].mine
BY StreamFacts DEF Belongs

LEMMA SendKeeps ==
    ASSUME IInv, NEW n \in Sends, Send(n)
    PROVE  IInv'
<1>1. /\ Typed /\ creating \in Creations /\ panel \in Panels
      /\ stream \in [Sends -> Streams] /\ panel.active \in Chosen
  BY DEF IInv, Typed, Panels
<1>2. panel.mounted /\ ~panel.streaming
  BY DEF Send, ChatOffers
<1>3. /\ panel' \in Panels /\ panel'.mounted /\ panel'.streaming
      /\ panel'.asked = n /\ panel'.reply = {} /\ panel'.lastRun = 0
  BY <1>1, <1>2 DEF Send, Asking, Panels
<1>4. PICK s \in Streams : /\ s.mine /\ s.phase \in {"posted", "waiting"}
                           /\ s.wire = <<>> /\ stream' = [stream EXCEPT ![n] = s]
  <2>1. CASE stream' = [stream EXCEPT ![n] = Request(panel.active, "posted", TRUE)]
    <3> DEFINE s == Request(panel.active, "posted", TRUE)
    <3>1. s \in Streams /\ s.mine /\ s.phase = "posted" /\ s.wire = <<>>
      BY <1>1, RequestFacts DEF Phases, InBackend
    <3> HIDE DEF s
    <3> QED
      BY <2>1, <3>1 DEF s
  <2>2. CASE stream' = [stream EXCEPT ![n] = Request(None, "waiting", TRUE)]
    <3> DEFINE s == Request(None, "waiting", TRUE)
    <3>1. s \in Streams /\ s.mine /\ s.phase = "waiting" /\ s.wire = <<>>
      BY RequestFacts DEF Phases, Chosen
    <3> HIDE DEF s
    <3> QED
      BY <2>2, <3>1 DEF s
  <2> QED
    BY <2>1, <2>2 DEF Send
<1>5. creating' \in Creations
  <2>1. n \in Creators /\ Asked \in Creation
    BY CreationValues
  <2>2. creating' = creating \/ creating' = [creating EXCEPT ![n] = Asked]
    BY DEF Send
  <2> QED
    BY <1>1, <2>1, <2>2, OneCreation
<1>6. /\ stream' \in [Sends -> Streams] /\ stream'[n] = s
      /\ \A m \in Sends \ {n} : stream'[m] = stream[m]
  BY <1>1, <1>4
<1>7. runs' = runs /\ list' = list
  BY DEF Send
<1>8. StreamsInv'
  <2>1. ASSUME NEW m \in Sends
        PROVE  WireOK(m, stream'[m], runs') /\ Belongs(m, stream'[m], panel')
    <3>1. CASE m = n
      <4>1. WireOK(n, s, runs')
        BY <1>4 DEF WireOK, Announced
      <4>2. Belongs(n, s, panel')
        BY <1>3, <1>4 DEF Belongs
      <4> QED
        BY <1>6, <3>1, <4>1, <4>2
    <3>2. CASE m # n
      BY <1>2, <1>6, <1>7, <3>2, Quiet, StreamFacts DEF Belongs
    <3> QED
      BY <3>1, <3>2
  <2> QED
    BY <2>1 DEF StreamsInv
<1>9. PanelInv'
  BY <1>3, <1>4, <1>6 DEF PanelInv, PanelOK
<1> QED
  BY <1>1, <1>3, <1>5, <1>6, <1>7, <1>8, <1>9 DEF IInv, Typed

\* A panel that starts afresh, mounted or not, shows nothing of any question.
LEMMA StartsAfresh ==
    ASSUME Typed, NEW p \in Panels, ~p.streaming, p.reply = {}, p.lastRun = 0,
           panel' = p, UNCHANGED runs, stream' \in [Sends -> Streams],
           creating' \in Creations, list' \in Lists,
           \A n \in Sends : ~stream'[n].mine /\ WireOK(n, stream'[n], runs)
    PROVE  IInv'
BY DEF IInv, Typed, StreamsInv, PanelInv, PanelOK, Belongs

LEMMA MountedFacts ==
    ASSUME NEW a \in Chosen
    PROVE  /\ Mounted(a) \in Panels /\ ~Mounted(a).streaming
           /\ Mounted(a).reply = {} /\ Mounted(a).lastRun = 0
BY DEF Mounted, Panels

LEMMA LeaveKeeps ==
    ASSUME IInv, Leave
    PROVE  IInv'
<1>1. /\ Typed /\ creating \in Creations /\ panel.active \in Chosen
      /\ stream \in [Sends -> Streams] /\ list \in Lists
  BY DEF IInv, Typed, Panels
<1> DEFINE p == [Mounted(panel.active) EXCEPT !.mounted = FALSE]
<1>2. p \in Panels /\ ~p.streaming /\ p.reply = {} /\ p.lastRun = 0
  BY <1>1 DEF Mounted, Panels
<1>3. creating' \in Creations
  BY <1>1 DEF Leave, Creations, Creation
<1>4. ASSUME NEW n \in Sends
      PROVE  /\ stream'[n] \in Streams /\ ~stream'[n].mine
             /\ WireOK(n, stream'[n], runs)
  <2>1. stream'[n] = [stream[n] EXCEPT !.mine = FALSE]
    BY DEF Leave
  <2>2. stream[n] \in Streams /\ WireOK(n, stream[n], runs)
    BY StreamFacts
  <2> QED
    BY <2>1, <2>2 DEF Streams, WireOK
<1>5. stream' \in [Sends -> Streams]
  BY <1>4 DEF Leave
<1> QED
  BY <1>1, <1>2, <1>3, <1>4, <1>5, StartsAfresh DEF Leave

LEMMA ReturnKeeps ==
    ASSUME IInv, Return
    PROVE  IInv'
<1>1. /\ Typed /\ creating \in Creations /\ panel.active \in Chosen
      /\ stream \in [Sends -> Streams] /\ list \in Lists /\ PanelInv
  BY DEF IInv, Typed, Panels
<1>2. PICK a \in AutoSelected(panel.active, list) : panel' = Mounted(a)
  BY DEF Return
<1>3. a \in Chosen
  BY <1>1, SelectsKnown
<1>4. ~panel.streaming
  BY <1>1 DEF Return, PanelInv, PanelOK
<1>5. \A n \in Sends : ~stream[n].mine /\ WireOK(n, stream[n], runs)
  BY <1>4, Quiet, StreamFacts
<1>6. list' \in Lists
  BY <1>1, ListOps DEF Return
<1> QED
  BY <1>1, <1>2, <1>3, <1>5, <1>6, MountedFacts, StartsAfresh DEF Return

------------------------------------------------------------------------------
(* The backend answers.                                                     *)

LEMMA MovesKeeps ==
    ASSUME IInv, NEW n \in Sends, NEW phase \in InBackend \cup {"broken"},
           Moves(n, phase), UNCHANGED <<runs, panel, creating, list>>
    PROVE  IInv'
<1>1. Typed /\ creating \in Creations /\ list \in Lists
      /\ stream \in [Sends -> Streams] /\ runs \subseteq Sends
  BY DEF IInv, Typed
<1> DEFINE s == [stream[n] EXCEPT !.phase = phase]
<1>2. stream[n] \in Streams /\ WireOK(n, stream[n], runs)
  BY StreamFacts
<1>3. phase \notin {"none", "over", "closed"}
  BY DEF InBackend
<1>4. /\ s \in Streams /\ s.mine = stream[n].mine /\ s.phase = phase
      /\ s.wire = stream[n].wire
  BY <1>2 DEF Streams, Phases
<1>5. stream' = [stream EXCEPT ![n] = s]
  BY DEF Moves
<1> HIDE DEF s
<1>6. WireOK(n, s, runs)
  BY <1>2, <1>3, <1>4 DEF WireOK
<1> QED
  BY <1>1, <1>3, <1>4, <1>5, <1>6, StreamGoesOn

\* What the backend says is well-formed, and ends the response if it closes it.
Sayable(n, phase, events, started) ==
    /\ events \in Seq(Events) /\ Len(events) > 0
    /\ Announced(n, events, started)
    /\ phase = "closed" => events[Len(events)] # "piece"

LEMMA AnnouncedJoined ==
    ASSUME NEW n, NEW started, NEW v \in Seq(Events), NEW w \in Seq(Events),
           Announced(n, v, started), Announced(n, w, started)
    PROVE  Announced(n, v \o w, started)
<1>1. SUFFICES ASSUME NEW i \in 1..Len(v \o w), (v \o w)[i] = "complete with run"
               PROVE  n \in started
  BY DEF Announced
<1>2. CASE i <= Len(v)
  <2>1. i \in 1..Len(v) /\ (v \o w)[i] = v[i]
    BY <1>2
  <2> QED
    BY <1>1, <2>1 DEF Announced
<1>3. CASE i > Len(v)
  <2>1. i - Len(v) \in 1..Len(w) /\ (v \o w)[i] = w[i - Len(v)]
    BY <1>3
  <2> QED
    BY <1>1, <2>1 DEF Announced
<1> QED
  BY <1>2, <1>3

LEMMA LastJoined ==
    ASSUME NEW v \in Seq(Events), NEW w \in Seq(Events), Len(w) > 0
    PROVE  Len(v \o w) > 0 /\ (v \o w)[Len(v \o w)] = w[Len(w)]
OBVIOUS

LEMMA AnnouncedTail ==
    ASSUME NEW n, NEW started, NEW w \in Seq(Events), w # <<>>,
           Announced(n, w, started)
    PROVE  Announced(n, Tail(w), started)
<1>1. SUFFICES ASSUME NEW i \in 1..Len(Tail(w)), Tail(w)[i] = "complete with run"
               PROVE  n \in started
  BY DEF Announced
<1>2. i + 1 \in 1..Len(w) /\ Tail(w)[i] = w[i + 1]
  OBVIOUS
<1> QED
  BY <1>1, <1>2 DEF Announced

LEMMA LastOfTail ==
    ASSUME NEW w \in Seq(Events), w # <<>>, w[1] # w[Len(w)]
    PROVE  Len(Tail(w)) > 0 /\ Tail(w)[Len(Tail(w))] = w[Len(w)]
<1>1. Len(w) \in Nat /\ Len(w) > 1 /\ Len(Tail(w)) = Len(w) - 1
  OBVIOUS
<1> QED
  BY <1>1

LEMMA SaysKeeps ==
    ASSUME IInv, NEW n \in Sends, NEW phase \in {"spoken", "closed"}, NEW events,
           Says(n, phase, events), Sayable(n, phase, events, runs'),
           runs \subseteq runs', runs' \subseteq Sends,
           UNCHANGED <<panel, creating, list>>
    PROVE  IInv'
<1>1. Typed /\ creating \in Creations /\ list \in Lists
      /\ stream \in [Sends -> Streams]
  BY DEF IInv, Typed
<1> DEFINE s == [stream[n] EXCEPT !.phase = phase, !.wire = @ \o events]
<1>2. /\ stream[n] \in Streams /\ WireOK(n, stream[n], runs)
      /\ stream[n].wire \in Seq(Events) /\ events \in Seq(Events)
  BY StreamFacts DEF Streams, Sayable
<1>3. stream[n].wire \o events \in Seq(Events)
  BY <1>2
<1>4. /\ s \in Streams /\ s.mine = stream[n].mine /\ s.phase = phase
      /\ s.wire = stream[n].wire \o events
  BY <1>2, <1>3 DEF Streams, Phases, InBackend
<1>5. stream' = [stream EXCEPT ![n] = s]
  BY DEF Says
<1> HIDE DEF s
<1>6. WireOK(n, s, runs')
  <2> DEFINE w == stream[n].wire
  <2>1. /\ w \in Seq(Events) /\ events \in Seq(Events) /\ Len(events) > 0
        /\ Announced(n, w, runs') /\ Announced(n, events, runs')
    BY <1>2 DEF WireOK, Sayable, Announced
  <2>2. s.wire = w \o events
    BY <1>4
  <2> HIDE DEF w
  <2>3. Announced(n, s.wire, runs')
    BY <2>1, <2>2, AnnouncedJoined
  <2>4. Len(s.wire) > 0 /\ s.wire[Len(s.wire)] = events[Len(events)]
    BY <2>1, <2>2, LastJoined
  <2> QED
    BY <1>4, <2>3, <2>4 DEF WireOK, Sayable
<1>7. s.phase \notin {"none", "over"}
  BY <1>4
<1> QED
  BY <1>1, <1>4, <1>5, <1>6, <1>7, StreamGoesOn

LEMMA OneOrTwo ==
    ASSUME NEW d \in Events, NEW e \in Events
    PROVE  /\ <<e>> \in Seq(Events) /\ Len(<<e>>) = 1 /\ <<e>>[1] = e
           /\ <<d, e>> \in Seq(Events) /\ Len(<<d, e>>) = 2
           /\ <<d, e>>[1] = d /\ <<d, e>>[2] = e
<1>1. <<e>> \in Seq(Events)
  OBVIOUS
<1>2. Len(<<e>>) = 1
  OBVIOUS
<1>3. <<d, e>> \in Seq(Events)
  OBVIOUS
<1>4. Len(<<d, e>>) = 2
  OBVIOUS
<1>5. <<e>>[1] = e /\ <<d, e>>[1] = d /\ <<d, e>>[2] = e
  OBVIOUS
<1> QED
  BY <1>1, <1>2, <1>3, <1>4, <1>5

LEMMA Positions ==
    /\ 1 > 0 /\ \A i \in 1..1 : i = 1
    /\ 2 > 0 /\ \A i \in 1..2 : i = 1 \/ i = 2
OBVIOUS

LEMMA SayableOne ==
    ASSUME NEW n, NEW phase, NEW e \in Events, NEW started,
           e = "complete with run" => n \in started, phase = "closed" => e # "piece"
    PROVE  Sayable(n, phase, <<e>>, started)
<1>1. \A w \in Seq(Events) :
        Len(w) = 1 /\ w[1] = e => Sayable(n, phase, w, started)
  BY Positions, Zenon DEF Sayable, Announced
<1> QED
  BY <1>1, OneOrTwo

LEMMA SayableTwo ==
    ASSUME NEW n, NEW d \in Events, NEW e \in Events, NEW started,
           d # "complete with run", e # "complete with run", e # "piece"
    PROVE  Sayable(n, "closed", <<d, e>>, started)
<1>1. \A w \in Seq(Events) :
        Len(w) = 2 /\ w[1] = d /\ w[2] = e => Sayable(n, "closed", w, started)
  BY Positions, Zenon DEF Sayable, Announced
<1> QED
  BY <1>1, OneOrTwo

LEMMA AnswerKeeps ==
    ASSUME IInv, NEW n \in Sends, AnswerStep(n) \/ Breaks(n)
    PROVE  IInv'
<1>1. runs \subseteq Sends
  BY DEF IInv, Typed
<1>2. CASE Arrives(n) \/ Routes(n) \/ Saves(n) \/ Breaks(n)
  <2>1. UNCHANGED <<runs, panel, creating, list>>
    BY <1>2 DEF Arrives, Routes, Saves, Breaks
  <2>2. PICK phase \in InBackend \cup {"broken"} : Moves(n, phase)
    BY <1>2 DEF Arrives, Routes, Saves, Breaks, InBackend
  <2> QED
    BY <2>1, <2>2, MovesKeeps
<1>3. CASE Speaks(n)
  <2>1. Sayable(n, "spoken", <<"piece">>, runs')
    BY SayableOne DEF Events
  <2> QED
    BY <1>1, <1>3, <2>1, SaysKeeps DEF Speaks
<1>4. CASE Fails(n)
  <2>1. Sayable(n, "closed", <<"error">>, runs')
    BY SayableOne DEF Events
  <2> QED
    BY <1>1, <1>4, <2>1, SaysKeeps DEF Fails
<1>5. CASE Completes(n)
  <2>1. Sayable(n, "closed", <<"piece", "complete">>, runs')
    BY SayableTwo DEF Events
  <2>2. Sayable(n, "closed", <<"complete">>, runs')
    BY SayableOne DEF Events
  <2>3. n \in runs' => Sayable(n, "closed", <<"complete with run">>, runs')
    BY SayableOne DEF Events
  <2>4. UNCHANGED <<panel, creating, list>>
    BY <1>5 DEF Completes
  <2>5. CASE Says(n, "closed", <<"piece", "complete">>) /\ UNCHANGED runs
    BY <1>1, <2>1, <2>4, <2>5, SaysKeeps
  <2>6. CASE Says(n, "closed", <<"complete">>) /\ UNCHANGED runs
    BY <1>1, <2>2, <2>4, <2>6, SaysKeeps
  <2>7. CASE Says(n, "closed", <<"complete with run">>) /\ runs' = runs \cup {n}
    BY <1>1, <2>3, <2>4, <2>7, SaysKeeps
  <2> QED
    BY <1>5, <2>5, <2>6, <2>7 DEF Completes
<1> QED
  BY <1>2, <1>3, <1>4, <1>5 DEF AnswerStep

------------------------------------------------------------------------------
(* The panel reads.                                                         *)

LEMMA PieceKeeps ==
    ASSUME IInv, NEW n \in Sends, Receives(n), Head(stream[n].wire) = "piece"
    PROVE  IInv'
<1>1. /\ Typed /\ StreamsInv /\ PanelInv /\ panel \in Panels
      /\ creating \in Creations /\ list \in Lists
      /\ stream \in [Sends -> Streams]
  BY DEF IInv, Typed
<1> DEFINE w == stream[n].wire
           s == [stream[n] EXCEPT !.wire = Tail(w)]
<1>2. /\ stream[n] \in Streams /\ WireOK(n, stream[n], runs)
      /\ Belongs(n, stream[n], panel) /\ w \in Seq(Events) /\ w # <<>>
  BY StreamFacts DEF Streams, Receives
<1>3. /\ stream' = [stream EXCEPT ![n] = s]
      /\ panel' = IF stream[n].mine THEN [panel EXCEPT !.reply = @ \cup {n}]
                  ELSE panel
      /\ UNCHANGED <<runs, creating, list>>
  BY DEF Receives, Mine
<1>4. /\ Tail(w) \in Seq(Events) /\ Len(w) \in Nat \ {0}
      /\ Len(Tail(w)) = Len(w) - 1
      /\ \A i \in 1..(Len(w) - 1) : Tail(w)[i] = w[i + 1]
  BY <1>2
<1>5. /\ s \in Streams /\ s.mine = stream[n].mine /\ s.phase = stream[n].phase
      /\ s.wire = Tail(w)
  BY <1>2, <1>4 DEF Streams
<1>6. WireOK(n, s, runs)
  <2>1. w[1] = "piece"
    BY <1>2
  <2>2. Announced(n, s.wire, runs)
    BY <1>2, <1>5, AnnouncedTail DEF WireOK
  <2>3. ASSUME s.phase = "closed"
        PROVE  Len(s.wire) > 0 /\ s.wire[Len(s.wire)] # "piece"
    <3>1. w[Len(w)] # "piece"
      BY <1>2, <1>5, <2>3 DEF WireOK
    <3>2. s.wire = Tail(w) /\ w \in Seq(Events) /\ w # <<>>
      BY <1>2, <1>5
    <3> HIDE DEF w, s
    <3> QED
      BY <2>1, <3>1, <3>2, LastOfTail
  <2> HIDE DEF s
  <2> QED
    BY <2>2, <2>3 DEF WireOK
<1> HIDE DEF w, s
<1>7. /\ stream' \in [Sends -> Streams] /\ stream'[n] = s
      /\ \A m \in Sends \ {n} : stream'[m] = stream[m]
  BY <1>1, <1>3, <1>5
<1>8. /\ panel' \in Panels /\ panel'.asked = panel.asked
      /\ panel'.streaming = panel.streaming /\ panel'.lastRun = panel.lastRun
      /\ panel'.mounted = panel.mounted /\ panel'.reply \subseteq {panel.asked}
  BY <1>1, <1>2, <1>3 DEF Panels, PanelInv, PanelOK, Belongs
<1>9. StreamsInv'
  <2>1. ASSUME NEW m \in Sends
        PROVE  WireOK(m, stream'[m], runs') /\ Belongs(m, stream'[m], panel')
    <3>1. CASE m = n
      BY <1>2, <1>3, <1>5, <1>6, <1>7, <1>8, <3>1 DEF Belongs
    <3>2. CASE m # n
      BY <1>3, <1>7, <1>8, <3>2, StreamFacts DEF Belongs
    <3> QED
      BY <3>1, <3>2
  <2> QED
    BY <2>1 DEF StreamsInv
<1>10. PanelInv'
  <2>1. PanelOK(panel', runs')
    BY <1>1, <1>3, <1>8 DEF PanelInv, PanelOK
  <2>2. panel.streaming => stream'[panel.asked].mine
    BY <1>1, <1>5, <1>7 DEF PanelInv, PanelOK
  <2> QED
    BY <1>8, <2>1, <2>2 DEF PanelInv
<1> QED
  BY <1>1, <1>3, <1>7, <1>8, <1>9, <1>10 DEF IInv, Typed

LEMMA EndKeeps ==
    ASSUME IInv, NEW n \in Sends,
           \/ Receives(n) /\ Head(stream[n].wire) # "piece"
           \/ CatchesError(n)
    PROVE  IInv'
<1>1. Typed /\ PanelInv /\ panel \in Panels /\ list \in Lists
      /\ panel.view \in {"chat", "run"}
  BY DEF IInv, Typed, Panels
<1> DEFINE stops == [panel EXCEPT !.streaming = FALSE]
           shows == [panel EXCEPT !.streaming = FALSE, !.lastRun = n,
                                  !.view = IF Compact THEN "run" ELSE @]
<1>2. stops \in Panels /\ ~stops.streaming /\ PanelOK(stops, runs)
  BY <1>1 DEF Panels, PanelInv, PanelOK
<1>3. stream' = [stream EXCEPT ![n] = Over] /\ UNCHANGED <<runs, creating>>
  BY DEF Receives, CatchesError
<1>4. list' \in Lists
  <2>1. CASE UNCHANGED list
    BY <1>1, <2>1
  <2>2. CASE InvalidateAll
    BY <1>1, <2>2, InvalidatesList
  <2> QED
    BY <2>1, <2>2 DEF Receives, CatchesError
<1>5. CASE panel' = IF stream[n].mine THEN stops ELSE panel
  <2> HIDE DEF stops
  <2> QED
    BY <1>2, <1>3, <1>4, <1>5, StreamIsOver
<1>6. CASE /\ Receives(n) /\ Head(stream[n].wire) = "complete with run"
           /\ panel' = IF ~stream[n].mine THEN panel ELSE shows
  <2>1. /\ stream[n].wire \in Seq(Events) /\ stream[n].wire # <<>>
        /\ WireOK(n, stream[n], runs) /\ Belongs(n, stream[n], panel)
    BY <1>6, StreamFacts DEF Receives, Streams
  <2>2. n \in runs
    <3>1. 1 \in 1..Len(stream[n].wire) /\ stream[n].wire[1] = Head(stream[n].wire)
      BY <2>1
    <3> QED
      BY <1>6, <2>1, <3>1 DEF WireOK, Announced
  <2>3. CASE ~stream[n].mine
    BY <1>2, <1>3, <1>4, <1>6, <2>3, StreamIsOver
  <2>4. CASE stream[n].mine
    <3>1. panel.asked = n
      BY <2>1, <2>4 DEF Belongs
    <3>2. shows \in Panels /\ ~shows.streaming /\ PanelOK(shows, runs)
      BY <1>1, <2>2, <3>1 DEF Panels, PanelInv, PanelOK
    <3>3. panel' = IF stream[n].mine THEN shows ELSE panel
      BY <1>6, <2>4
    <3> HIDE DEF shows
    <3> QED
      BY <1>3, <1>4, <3>2, <3>3, StreamIsOver
  <2> QED
    BY <2>3, <2>4
<1> QED
  BY <1>5, <1>6 DEF Receives, CatchesError, Mine

LEMMA FetchKeeps ==
    ASSUME IInv,
           \/ \E n \in Sends : RefreshesAgain(n)
           \/ \E c \in Conversations : DetailAnswers(c) \/ DetailArrives(c)
    PROVE  IInv'
<1>1. creating \in Creations /\ list \in Lists
  BY DEF IInv, Typed
<1>2. UNCHANGED <<stream, runs, panel, creating, list>>
  BY DEF RefreshesAgain, DetailAnswers, DetailArrives
<1> QED
  BY <1>1, <1>2, NothingShownChanges

------------------------------------------------------------------------------
(* The invariant.                                                           *)

LEMMA InitHolds == Init => IInv
<1> SUFFICES ASSUME Init PROVE IInv
  OBVIOUS
<1>1. <<>> \in Seq(Events)
  OBVIOUS
<1>2. NoStream \in Streams /\ ~NoStream.mine
      /\ \A n \in Sends : WireOK(n, NoStream, runs)
  BY <1>1 DEF NoStream, Streams, Phases, Chosen, WireOK, Announced
<1>3. stream \in [Sends -> Streams] /\ \A n \in Sends : stream[n] = NoStream
  BY <1>2 DEF Init
<1>4. PICK a \in Chosen : panel = Mounted(a)
  BY DEF Init, Chosen
<1>5. list \in Lists
  BY DEF Init, Unloaded, Unfetched, Fetched, Lists
<1>6. creating \in Creations
  BY CreationValues DEF Init, Creations
<1>7. runs \subseteq Sends
  BY DEF Init
<1>8. StreamsInv
  BY <1>2, <1>3 DEF StreamsInv, Belongs
<1>9. panel \in Panels /\ PanelInv
  BY <1>4, MountedFacts DEF PanelInv, PanelOK
<1> QED
  BY <1>3, <1>5, <1>6, <1>7, <1>8, <1>9 DEF IInv, Typed

LEMMA StepKeeps == IInv /\ [Next]_vars => IInv'
<1> SUFFICES ASSUME IInv, [Next]_vars PROVE IInv'
  OBVIOUS
<1>1. CASE UNCHANGED vars
  BY <1>1, NothingShownChanges DEF vars, IInv, Typed
<1>2. CASE SwitchesView \/ Leave \/ Return
  BY <1>2, SwitchKeeps, LeaveKeeps, ReturnKeeps
<1>3. CASE ClicksNew
  BY <1>3, NewKeeps
<1>9. ASSUME NEW k \in Creators,
             \/ CreationEnds(k) \/ CreationFails(k)
             \/ \E c \in Conversations : CreationAnswered(k, c)
      PROVE  IInv'
  BY <1>9, CreatingKeeps, AnsweredKeeps
<1>4. CASE ListFails \/ ListAnswers \/ ListArrives
  BY <1>4, ListKeeps
<1>5. ASSUME NEW c \in Conversations,
             \/ Selects(c) \/ ConfirmsDelete(c) \/ DeletedElsewhere(c)
             \/ DeletionAnswered(c) \/ DeletionEnds(c)
      PROVE  IInv'
  BY <1>5, ConversationsKeep
<1>6. ASSUME NEW c \in Conversations, DetailAnswers(c) \/ DetailArrives(c)
      PROVE  IInv'
  BY <1>6, FetchKeeps
<1>7. ASSUME NEW n \in Sends,
             Send(n) \/ AnswerStep(n) \/ Breaks(n) \/ RefreshesAgain(n)
      PROVE  IInv'
  BY <1>7, SendKeeps, AnswerKeeps, FetchKeeps
<1>8. ASSUME NEW n \in Sends, ReaderStep(n)
      PROVE  IInv'
  BY <1>8, PieceKeeps, EndKeeps DEF ReaderStep
<1> QED
  BY <1>1, <1>2, <1>3, <1>4, <1>5, <1>6, <1>7, <1>8, <1>9
     DEF Next, ConversationStep, FetchStep

------------------------------------------------------------------------------
\* The panel shows nothing but what the stream of its last question has brought,
\* and spins only while that stream is still its own (AssistantPanel.tsx:595-654):
\* the inductive invariant behind the three theorems that follow.
THEOREM ChatInvariant == Spec => []IInv
<1>1. Init => IInv
  BY InitHolds
<1>2. IInv /\ [Next]_vars => IInv'
  BY StepKeeps
<1> QED
  BY <1>1, <1>2, PTL DEF Spec

\* The run that the panel offers to watch is one that the last question asked in
\* this panel has started (AssistantPanel.tsx:607, 629), whatever older streams
\* still bring.
THEOREM RunShown == Spec => []RunShownIsOfThisQuestion
<1>1. IInv => RunShownIsOfThisQuestion
  BY DEF IInv, PanelInv, PanelOK, RunShownIsOfThisQuestion
<1> QED
  BY <1>1, ChatInvariant, PTL

\* The streamed text is that of the last question, however the streams of
\* earlier ones have ended (AssistantPanel.tsx:605, 626).
THEOREM ReplyShown == Spec => []ReplyIsOfThisQuestion
<1>1. IInv => ReplyIsOfThisQuestion
  BY DEF IInv, PanelInv, PanelOK, ReplyIsOfThisQuestion
<1> QED
  BY <1>1, ChatInvariant, PTL

\* A panel that spins waits for a request that is on its way, for an event that
\* has not been read, for an error that has not been caught, or for a
\* conversation that could not be created (AssistantPanel.tsx:613).
THEOREM SpinnerEnds == Spec => []SpinsForAReason
<1>1. IInv => SpinsForAReason
  <2> SUFFICES ASSUME IInv, panel.streaming PROVE SpinsForAReason
    BY DEF SpinsForAReason
  <2> DEFINE s == stream[panel.asked]
  <2>1. panel.asked \in Sends /\ s.mine
    BY DEF IInv, PanelInv, PanelOK
  <2>2. /\ s \in Streams /\ WireOK(panel.asked, s, runs)
        /\ s.phase \notin {"none", "over"}
    BY <2>1, StreamFacts DEF Belongs
  <2>3. s.phase = "closed" => s.wire # <<>>
    <3>1. s.phase = "closed" => Len(s.wire) > 0
      BY <2>2 DEF WireOK
    <3>2. \A w : Len(w) > 0 => w # <<>>
      OBVIOUS
    <3> QED
      BY <3>1, <3>2
  <2>4. s.phase \in Phases
    BY <2>2 DEF Streams
  <2> HIDE DEF s
  <2>5. \/ s.phase \in InBackend \cup {"waiting", "broken"}
        \/ s.phase = "closed" /\ s.wire # <<>>
        \/ s.phase = "abandoned"
    BY <2>2, <2>3, <2>4 DEF Phases
  <2> QED
    BY <2>5 DEF SpinsForAReason, s
<1> QED
  BY <1>1, ChatInvariant, PTL
==============================================================================
