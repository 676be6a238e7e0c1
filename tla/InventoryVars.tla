---------------------------- MODULE InventoryVars ----------------------------
(***************************************************************************)
(* One inventory variable of one host: where its value comes from, how the *)
(* explorer shows and overrides it, and what the export hands to Ansible.  *)
(*                                                                         *)
(* A status, a host type, a role or an app (an owner) may declare a field  *)
(* of the variable's name, with or without a default, and the host may     *)
(* override it; the variable may also be a base column of the inventory    *)
(* view and an Ansible default.  backend/app/routers/inventory.py lays     *)
(* these on each other in thirteen layers, twice: for the export and for   *)
(* the explorer.  Meanwhile the role matrix gives and takes roles, the     *)
(* host form sets roles, status and type, and apps come and go.            *)
(*                                                                         *)
(* A value is told apart by the row it comes from.  A role and an app are  *)
(* numbers: their places in the order of names.  The rows that give a role *)
(* a priority (global_default_roles, host_type_roles, host_roles) are a    *)
(* function from the roles that have one; the schemas accept any integer.  *)
(***************************************************************************)
EXTENDS Integers, FiniteSets, SequencesExt

CONSTANTS HostStatuses, HostTypes, Roles, Apps,   \* finite sets of numbers
          Schemas,     \* the declarations explored: see SchemaOK
          Values,      \* what a user types as an override
          Toggles,     \* requests of the role matrix that may overlap
          Explicit,    \* the priorities that a request of it may name
          MaxWrites    \* bound: requests that change the host

None == "none"
Base == <<"base", 0>>
Ansible == <<"ansible", 0>>
Fallback == <<"fallback", 0>>
Nowhere == <<"nowhere", 0>>

StatusFields == {"status"} \X HostStatuses
TypeFields == {"type"} \X HostTypes
RoleFields == {"role"} \X Roles
AppFields == {"app"} \X Apps
Fields == StatusFields \cup TypeFields \cup RoleFields \cup AppFields

\* base: a column has the name; fields: who declares one, and with a default;
\* globals, ofType: the priorities of the global default roles and of the roles
\* of the host's types.
Numbered(number) ==
    DOMAIN number \subseteq Roles /\ number \in [DOMAIN number -> Int]

SchemaOK(s) ==
    /\ s.base \in BOOLEAN
    /\ s.ansible \in {"absent", "null", "set"}
    /\ s.fields \subseteq Fields
    /\ s.defaults \subseteq s.fields
    /\ Numbered(s.globals)
    /\ Numbered(s.ofType)

ASSUME SchemasAssumption == \A s \in Schemas : SchemaOK(s)
ASSUME NumbersAssumption ==
    Roles \cup Apps \subseteq Nat /\ IsFiniteSet(Roles) /\ Explicit \subseteq Int

VARIABLES
    schema,    \* the declarations, which stay
    ansible,   \* the row of ansible_defaults: absent, with no value, or set
    details,   \* the host's status, type and apps
    priority,  \* host_roles: the priorities of the roles that the host has
    over,      \* the overrides of the host, by what they override
    toggles,   \* requests of the role matrix
    panel,     \* what the panel has loaded: where a save would go
    save,      \* the panel's request
    before,    \* history: pairs of the host's roles, the second one numbered
               \* by the backend when the host had the first
    crossed,   \* history: a role was given while others were written
    writes     \* requests so far, for the bound

hostVars == <<schema, ansible, details, priority, over, toggles, panel, save,
              before, crossed, writes>>

NoToggle == [step |-> "idle", role |-> 0, named |-> {}, had |-> FALSE,
             top |-> 0, late |-> FALSE]
NoPanel == [target |-> Nowhere, overridden |-> FALSE, behind |-> FALSE]
NoSave == [step |-> "idle", target |-> Nowhere, value |-> None, late |-> FALSE,
           answer |-> NoPanel]

HostRoles == DOMAIN priority

-----------------------------------------------------------------------------
(* The layers.  A layer holds rows of one kind, by owner, with the place at *)
(* which each is applied: rows of the same place come in any order.         *)

Layer(mode, kind, rank) == [mode |-> mode, kind |-> kind, rank |-> rank]

AnyOrder(rows) == [o \in rows |-> 0]
ByName(rows) == [o \in rows |-> o[2]]

BaseRows == IF schema.base THEN {Base} ELSE {}
AnsibleRows == IF ansible = "set" THEN {Ansible} ELSE {}
Defaults(kind, ids) == schema.defaults \cap ({kind} \X ids)
Overrides(targets) == {o \in targets : over[o] # None}

\* "priority or 100", in the export only.
OrHundred(p) == IF p = 0 THEN 100 ELSE p

\* The defaults of numbered roles, the highest number first.
ExportedRoles(mode, number) ==
    Layer(mode, "default", [o \in Defaults("role", DOMAIN number) |->
                               -OrHundred(number[o[2]])])
ShownRoles(mode, number) ==
    Layer(mode, "default", [o \in Defaults("role", DOMAIN number) |->
                               -number[o[2]]])

\* _build_ansible_inventory, over queries that order nothing.
ExportLayers == <<
    Layer("assign", "base", AnyOrder(BaseRows)),
    Layer("setdefault", "default", AnyOrder(AnsibleRows)),
    Layer("setdefault", "default", AnyOrder(Defaults("status", {details.status}))),
    ExportedRoles("setdefault", schema.globals),
    Layer("setdefault", "default", AnyOrder(Defaults("type", {details.type}))),
    ExportedRoles("assign", schema.ofType),
    ExportedRoles("assign", priority),
    Layer("setdefault", "default", AnyOrder(Defaults("app", details.apps))),
    Layer("assign", "override", AnyOrder(Overrides(TypeFields))),
    Layer("assign", "override", AnyOrder(Overrides(StatusFields))),
    Layer("assign", "override", AnyOrder(Overrides(RoleFields))),
    Layer("assign", "override", AnyOrder(Overrides(AppFields))),
    Layer("assign", "override", AnyOrder(Overrides({Ansible}))) >>

\* Wrong: ordered by priority, and not by priority descending.
LowestRoleFirst ==
    Layer("assign", "default",
          [o \in Defaults("role", HostRoles) |-> priority[o[2]]])

\* The explorer's layer of the host's own roles.
ShownRoleDefaults == ShownRoles("assign", priority)

\* _build_inventory_explorer_payload: the same rows, in the queries' order.
ExplorerLayers == <<
    Layer("assign", "base", AnyOrder(BaseRows)),
    Layer("setdefault", "default", AnyOrder(AnsibleRows)),
    Layer("setdefault", "default", AnyOrder(Defaults("status", {details.status}))),
    ShownRoles("setdefault", schema.globals),
    Layer("setdefault", "default", AnyOrder(Defaults("type", {details.type}))),
    ShownRoles("assign", schema.ofType),
    ShownRoleDefaults,
    Layer("setdefault", "default", ByName(Defaults("app", details.apps))),
    Layer("assign", "override", AnyOrder(Overrides(TypeFields))),
    Layer("assign", "override", AnyOrder(Overrides(StatusFields))),
    Layer("assign", "override", ByName(Overrides(RoleFields))),
    Layer("assign", "override", ByName(Overrides(AppFields))),
    Layer("assign", "override", AnyOrder(Overrides({Ansible}))) >>

Owners(layer) == DOMAIN layer.rank
Rows(layer) == {[kind |-> layer.kind, owner |-> o] : o \in Owners(layer)}

Applied(layer, o, p) == layer.rank[o] <= layer.rank[p]

\* The rows a layer may leave in force: the last ones, or for a layer that
\* only fills what is missing the first ones.
Left(layer) ==
    {row \in Rows(layer) : \A o \in Owners(layer) :
        IF layer.mode = "assign" THEN Applied(layer, o, row.owner)
                                 ELSE Applied(layer, row.owner, o)}

\* The layer that has the last word once every layer is applied: the last one
\* that assigns or, if none does, the first one that fills what is missing.
Decides(layers, i) ==
    /\ Owners(layers[i]) # {}
    /\ \A j \in DOMAIN layers : Owners(layers[j]) # {} =>
           IF layers[i].mode = "assign" THEN layers[j].mode = "assign" => j <= i
                                        ELSE layers[j].mode = "setdefault" /\ i <= j

\* The rows that may be in force then (_append_lineage).
InForce(layers) ==
    UNION {Left(layers[i]) : i \in {j \in DOMAIN layers : Decides(layers, j)}}

Exported == InForce(ExportLayers)
Shown == InForce(ExplorerLayers)

Lineage == UNION {Rows(ExplorerLayers[i]) : i \in DOMAIN ExplorerLayers}

\* Wrong: the first target of the lineage, whatever row is in force.
FirstTarget(row) ==
    LET layers == SelectSeq(ExplorerLayers,
                            LAMBDA layer : Owners(layer) \ {Base} # {})
    IN  IF layers = <<>> THEN Fallback
        ELSE CHOOSE t \in Owners(layers[1]) : TRUE

\* Where a save of the variable goes when row is the one in force.
TargetOf(row) ==
    LET targets == {r.owner : r \in Lineage} \ {Base}
    IN  IF row.owner # Base THEN row.owner
        ELSE IF \E t \in targets : targets = {t} THEN CHOOSE t \in targets : TRUE
        ELSE Fallback

\* The payloads that the explorer may compose now.
Payloads ==
    IF Shown = {} THEN {NoPanel}
    ELSE {[target |-> TargetOf(row), overridden |-> \E o \in DOMAIN over :
              over[o] # None, behind |-> FALSE] : row \in Shown}

\* The row of over that an accepted target writes.
Overridden(target) == IF target = Fallback THEN Ansible ELSE target

\* Wrong: an Ansible override needs a default to hang on.
BelongsByDefault(target) ==
    \/ target = Ansible
    \/ target \in {<<"status", details.status>>, <<"type", details.type>>}
    \/ target \in {"role"} \X HostRoles
    \/ target \in {"app"} \X details.apps

\* _apply_inventory_override: the owner must be one of the host's.
Belongs(target) ==
    \/ target \in {Ansible, Fallback}
    \/ target \in {<<"status", details.status>>, <<"type", details.type>>}
    \/ target \in {"role"} \X HostRoles
    \/ target \in {"app"} \X details.apps

-----------------------------------------------------------------------------
(* A request that changes the host makes what others have read of it old.   *)

VarsInit ==
    /\ schema \in Schemas
    /\ ansible = schema.ansible
    /\ details \in [status : HostStatuses, type : HostTypes, apps : {{}}]
    /\ priority = <<>>
    /\ over = [o \in Fields \cup {Ansible} |-> None]
    /\ toggles = [k \in Toggles |-> NoToggle]
    /\ panel = NoPanel
    /\ save = NoSave
    /\ before = {}
    /\ crossed = FALSE
    /\ writes = 0

Counted == writes < MaxWrites /\ writes' = writes + 1

PanelBehind == panel' = IF panel.target = Nowhere THEN panel
                        ELSE [panel EXCEPT !.behind = TRUE]

SaveLate == save' = IF save.step \in {"idle", "refused"} THEN save
                    ELSE [save EXCEPT !.late = TRUE]

TogglesLate(k) == [j \in Toggles |-> IF j = k THEN NoToggle
                      ELSE IF toggles[j].step = "idle" THEN toggles[j]
                      ELSE [toggles[j] EXCEPT !.late = TRUE]]

\* The chip of a role can be tapped while no request of it is pending; other
\* chips, and the same one on another admin's page, can be tapped meanwhile.
Tappable(k) == toggles[k].step = "idle"

\* The largest priority of the host, 0 without any.
Tops == IF HostRoles = {} THEN {0}
        ELSE {top \in {priority[q] : q \in HostRoles} :
                 \A q \in HostRoles : priority[q] <= top}

\* An admin taps the chip of a role, or a caller names the priority it is to
\* have; the handler reads what the host has.
ToggleReads(k, r, named) ==
    /\ Tappable(k)
    /\ Counted
    /\ \E top \in Tops :
           toggles' = [toggles EXCEPT ![k] =
               [step |-> "read", role |-> r, named |-> named,
                had |-> r \in HostRoles, top |-> top, late |-> FALSE]]
    /\ UNCHANGED <<schema, ansible, details, priority, over, panel, save, before,
                   crossed>>

Without(r) == {pair \in before : r \notin {pair[1], pair[2]}}

\* The role was there: its row is deleted, unless somebody else did it first.
\* The host's overrides of the role's fields stay.
ToggleRemoves(k) ==
    LET r == toggles[k].role
    IN  /\ toggles[k].step = "read" /\ toggles[k].had
        /\ priority' = [q \in HostRoles \ {r} |-> priority[q]]
        /\ before' = Without(r)
        /\ toggles' = TogglesLate(k)
        /\ PanelBehind /\ SaveLate
        /\ UNCHANGED <<schema, ansible, details, over, crossed, writes>>

\* Wrong: the number of the roles instead of the largest priority.
CountedPriority(t) == Cardinality(HostRoles) + 1

\* The priority of a role that is given (toggle_assignment).
NextPriority(t) == t.top + 1
GivenPriorities(t) == IF t.named # {} THEN t.named ELSE {NextPriority(t)}

\* It was not there: a row with the priority that was named, or one after the
\* last one read.
ToggleAdds(k) ==
    LET r == toggles[k].role
        numbers == toggles[k].named = {}
    IN  /\ toggles[k].step = "read" /\ ~toggles[k].had /\ r \notin HostRoles
        /\ \E given \in GivenPriorities(toggles[k]) :
               priority' = [q \in HostRoles \cup {r} |->
                               IF q = r THEN given ELSE priority[q]]
        /\ before' = IF numbers THEN before \cup (HostRoles \X {r}) ELSE before
        /\ crossed' = (crossed \/ (numbers /\ toggles[k].late))
        /\ toggles' = TogglesLate(k)
        /\ PanelBehind /\ SaveLate
        /\ UNCHANGED <<schema, ansible, details, over, writes>>

\* Somebody else gave the role meanwhile: its key is taken, and the request
\* fails.
ToggleFails(k) ==
    /\ toggles[k].step = "read" /\ ~toggles[k].had
    /\ toggles[k].role \in HostRoles
    /\ toggles' = [toggles EXCEPT ![k] = NoToggle]
    /\ UNCHANGED <<schema, ansible, details, priority, over, panel, save, before,
                   crossed, writes>>

\* Saving the host form writes the roles in the form's order (_sync_roles),
\* and the status and the type of the form.  Roles added to many hosts at once
\* (_append_roles) are such a list too: those of the host, and the new ones.
HostFormSaves(roles, status, type) ==
    /\ Counted
    /\ priority' = [r \in ToSet(roles) |->
                       CHOOSE i \in DOMAIN roles : roles[i] = r]
    /\ before' = {pair \in Roles \X Roles : \E i, j \in DOMAIN roles :
                      i < j /\ pair = <<roles[i], roles[j]>>}
    /\ crossed' = FALSE
    /\ details' = [details EXCEPT !.status = status, !.type = type]
    /\ toggles' = TogglesLate(None)
    /\ PanelBehind /\ SaveLate
    /\ UNCHANGED <<schema, ansible, over>>

AppGiven(a) ==
    /\ a \notin details.apps
    /\ Counted
    /\ details' = [details EXCEPT !.apps = @ \cup {a}]
    /\ PanelBehind /\ SaveLate
    /\ UNCHANGED <<schema, ansible, priority, over, toggles, before, crossed>>

\* Taking an app away takes the overrides of its fields with it.
AppTaken(a) ==
    /\ a \in details.apps
    /\ Counted
    /\ details' = [details EXCEPT !.apps = @ \ {a}]
    /\ over' = [over EXCEPT ![<<"app", a>>] = None]
    /\ PanelBehind /\ SaveLate
    /\ UNCHANGED <<schema, ansible, priority, toggles, before, crossed>>

\* The dashboard's role fields write an override of a role the host has.
RoleFieldSaved(r, v) ==
    /\ <<"role", r>> \in schema.fields
    /\ r \in HostRoles
    /\ Counted
    /\ over' = [over EXCEPT ![<<"role", r>>] = v]
    /\ PanelBehind /\ SaveLate
    /\ UNCHANGED <<schema, ansible, details, priority, toggles, before, crossed>>

-----------------------------------------------------------------------------
(* The panel of the explorer.                                               *)

\* The panel's query is fetched: on coming up, after a save, on refocus.
PanelLoads ==
    /\ panel' \in Payloads
    /\ UNCHANGED <<schema, ansible, details, priority, over, toggles, save, before,
                   crossed, writes>>

Sends(v) ==
    /\ save.step = "idle" /\ panel.target # Nowhere
    /\ Counted
    /\ save' = [NoSave EXCEPT !.step = "sent", !.target = panel.target,
                              !.value = v, !.late = panel.behind]
    /\ UNCHANGED <<schema, ansible, details, priority, over, toggles, panel, before,
                   crossed>>

SaveOverride(v) == Sends(v)

Reset == panel.overridden /\ Sends(None)

\* The handler composes the payload again, and accepts a target that is still
\* the variable's and whose owner is the host's.
SaveReads ==
    /\ save.step = "sent"
    /\ \E p \in Payloads :
          LET accepted == p.target = save.target /\ Belongs(save.target)
          IN  save' = [save EXCEPT !.step = IF accepted THEN "read" ELSE "refused",
                                   !.late = IF accepted THEN FALSE ELSE @]
    /\ UNCHANGED <<schema, ansible, details, priority, over, toggles, panel, before,
                   crossed, writes>>

AppGone == save.target[1] = "app" /\ save.target[2] \notin details.apps

\* The override is written, or deleted, and read again for the answer.  The
\* fallback creates the row of ansible_defaults that it hangs on.
SaveCommits ==
    /\ save.step = "read" /\ ~AppGone
    /\ over' = [over EXCEPT ![Overridden(save.target)] = save.value]
    /\ ansible' = IF save.target = Fallback /\ ansible = "absent"
                  THEN "null" ELSE ansible
    /\ PanelBehind
    /\ UNCHANGED <<schema, details, priority, toggles, before, crossed, writes>>
    /\ save' \in {[save EXCEPT !.step = "answered", !.answer = p, !.late = FALSE] :
                     p \in Payloads'}

\* The app was taken away meanwhile: there is no host_apps row to hang on.
SaveFails ==
    /\ save.step = "read" /\ AppGone
    /\ save' = [save EXCEPT !.step = "refused", !.late = TRUE]
    /\ UNCHANGED <<schema, ansible, details, priority, over, toggles, panel, before,
                   crossed, writes>>

\* onSuccess: the panel shows the answer.
SaveAnswered ==
    /\ save.step = "answered"
    /\ panel' = [save.answer EXCEPT !.behind = save.late /\ save.answer # NoPanel]
    /\ save' = NoSave
    /\ UNCHANGED <<schema, ansible, details, priority, over, toggles, before, crossed,
                   writes>>

\* onError: a message.
SaveRefused ==
    /\ save.step = "refused"
    /\ save' = NoSave
    /\ UNCHANGED <<schema, ansible, details, priority, over, toggles, panel, before,
                   crossed, writes>>

VarsNext ==
    \/ \E k \in Toggles, r \in Roles :
          \E named \in {{}} \cup {{p} : p \in Explicit} : ToggleReads(k, r, named)
    \/ \E k \in Toggles : ToggleRemoves(k) \/ ToggleAdds(k) \/ ToggleFails(k)
    \/ \E chosen \in SUBSET Roles, status \in HostStatuses, type \in HostTypes :
          \E roles \in SetToSeqs(chosen) : HostFormSaves(roles, status, type)
    \/ \E a \in Apps : AppGiven(a) \/ AppTaken(a)
    \/ \E r \in Roles, v \in Values : RoleFieldSaved(r, v)
    \/ PanelLoads
    \/ \E v \in Values : SaveOverride(v)
    \/ Reset
    \/ SaveReads
    \/ SaveCommits
    \/ SaveFails
    \/ SaveAnswered
    \/ SaveRefused

VarsSpec == VarsInit /\ [][VarsNext]_hostVars

-----------------------------------------------------------------------------
(* Properties.                                                              *)

\* Rows of layer i that come in no order, so that either may be in force.
Tied(layer) == \E o, p \in Owners(layer) :
                  o # p /\ layer.rank[o] = layer.rank[p]

\* A role of priority 0, which the export alone takes for 100, says the same
\* variable as a role of 1 to 100 in the same layer.
Disordered(number) ==
    \E o, p \in Defaults("role", DOMAIN number) :
        number[o[2]] = 0 /\ number[p[2]] \in 1 .. 100

\* Unless a priority of 0 puts roles in another order in the export
\* (inventory.py:329), what the explorer shows in force is what the export
\* hands to Ansible, whatever roles, apps and overrides came and went (the two
\* walk the layers each in its own code); and the export gives one value unless
\* two roles have one priority, or two rows of a layer say the same variable.
ShownIsExported ==
    (\A number \in {schema.globals, schema.ofType, priority} : ~Disordered(number)) =>
        /\ Shown \subseteq Exported
        /\ (\A i \in DOMAIN ExportLayers : ~Tied(ExportLayers[i])) =>
               Exported = Shown /\ \A row, other \in Exported : row = other

\* A save that the explorer accepts is in force: no layer above it hides what
\* the user wrote, as long as nobody wrote between the check and the commit.
SavedIsInForce ==
    [][(SaveCommits /\ ~save.late /\ save.value # None) =>
         LET row == [kind |-> "override", owner |-> Overridden(save.target)]
         IN  row \in Shown' /\ row \in Exported']_hostVars

\* The owner of a field is one that the host does not have.
Foreign(target) ==
    \/ target[1] = "role" /\ target[2] \notin HostRoles
    \/ target[1] = "status" /\ details.status # target[2]
    \/ target[1] = "type" /\ details.type # target[2]
    \/ target[1] = "app" /\ target[2] \notin details.apps

\* "Write only to valid host-level overrides" (InventoryExplorerPage.tsx:94):
\* a save is refused only because something was written since the panel was
\* loaded, because rows are tied, or because the row in force is of a role, a
\* status or a type that the host does not have.
RefusedForAReason ==
    [][(SaveReads /\ save'.step = "refused") =>
         \/ save.late
         \/ \E p, q \in Payloads : p # q
         \/ Foreign(save.target)]_hostVars

\* Priority is auto-assigned in the order roles are added
\* (RoleMatrixPage.tsx:230): a role that is given without naming a priority has
\* a larger one than every role that the host had then, those with a named one
\* included, unless requests of the matrix crossed.
AddedInOrder ==
    ~crossed => \A pair \in before : priority[pair[1]] < priority[pair[2]]

\* README.md:293 ranks the layers, each above those before it.  Not so in the
\* code: the layers of defaults up to the host type's only fill what is
\* missing, so that of these the first one wins.
Place(row) ==
    CASE row.kind = "base" -> 1
      [] row.kind = "default" /\ row.owner = Ansible -> 2
      [] row.kind = "default" /\ row.owner[1] = "status" -> 3
      [] row.kind = "default" /\ row.owner[1] = "role" -> 4
      [] row.kind = "default" /\ row.owner[1] = "app" -> 5
      [] row.kind = "override" /\ row.owner[1] = "status" -> 6
      [] row.kind = "override" /\ row.owner[1] = "role" -> 7
      [] row.kind = "override" /\ row.owner[1] = "app" -> 8
      [] row.kind = "override" /\ row.owner = Ansible -> 9
      [] OTHER -> 0

LaterLayerWins ==
    \A won \in Exported, row \in Lineage :
        Place(won) > 0 => Place(row) <= Place(won)

=============================================================================
