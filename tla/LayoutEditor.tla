---------------------------- MODULE LayoutEditor ----------------------------
(***************************************************************************)
(* The template editor of the configurator (ss7): the rows of a window     *)
(* template on screen, the marks set on them, the warnings of the web      *)
(* check with their mutes and profiles, and the tasks that load and store  *)
(* the rows.                                                               *)
(*                                                                         *)
(* A register's row is named by the register; a text or an image gets the  *)
(* next free negative number, anew at every load and save.  Marks, mutes,  *)
(* drags and profiles hold these numbers, the rows come and go below them. *)
(* `look` stands for place, size, label and format: "small" looks raise a  *)
(* warning of the web check.  `item` is the row's content, which no code   *)
(* compares: the register, or what the user wrote.                         *)
(***************************************************************************)
EXTENDS Integers, Sequences, FiniteSets, FiniteSetsExt, Ranks

CONSTANTS
    Layouts,       \* window templates
    NoLayout,
    FreeRegs,      \* registers of the selected groups
    FirstRows,     \* the rows of each template in the database at the start
    Looks,         \* "plain" and "small"
    MaxRows,       \* bound: rows on screen
    MaxClicks,     \* bound: steps of the user
    MaxBreaks      \* bound: database calls that fail

ASSUME LayoutBounds == MaxRows \in Nat /\ MaxClicks \in Nat /\ MaxBreaks \in Nat

Kinds == {"reg", "text", "image"}
RowOf(ids, kinds) ==
    [id : ids, kind : kinds, pos : Nat, look : Looks, flag : BOOLEAN, item : Nat]
TextItem == [kind : Kinds \ {"reg"}, pos : Nat, look : Looks, flag : BOOLEAN, item : Nat]

\* A template in the database: its registers, each once, and its texts, both
\* numbered 10, 20, ... as Save all and Save template do (actions_templates.rs:348,
\* :517).  No window a user can open writes other numbers.
Template == [regs : Seq(RowOf(Nat \ {0}, {"reg"})), texts : Seq(TextItem)]
Numbered(s) == \A i \in DOMAIN s : s[i].pos = 10 * i
AllApart(s) == \A i, j \in DOMAIN s : i # j => s[i].id # s[j].id

ASSUME StoredTemplates ==
    /\ FirstRows \in [Layouts -> Template]
    /\ \A t \in Layouts : /\ Numbered(FirstRows[t].regs) /\ AllApart(FirstRows[t].regs)
                          /\ Numbered(FirstRows[t].texts)
    /\ FreeRegs \subseteq Nat \ {0} /\ IsFiniteSet(FreeRegs) /\ "plain" \in Looks

VARIABLES ed, disk, slot, profile, clicks, breaks

layoutVars == <<ed, disk, slot, profile, clicks, breaks>>

-----------------------------------------------------------------------------
(* Rows.                                                                   *)

IdsOf(s) == {s[i].id : i \in DOMAIN s}
Before(a, b) == a.pos < b.pos \/ (a.pos = b.pos /\ a.id < b.id)

\* The rows of s sorted by position and number: each at the place that as many
\* rows come before.
Sorted(s) ==
    [n \in DOMAIN s |->
        s[CHOOSE i \in DOMAIN s : Cardinality({j \in DOMAIN s : Before(s[j], s[i])}) = n - 1]]

Renumbered(s) == [i \in DOMAIN s |-> [s[i] EXCEPT !.pos = 10 * i]]
TopPos(s) == Max({0} \cup {s[i].pos : i \in DOMAIN s})
RegPlaces(s) == {i \in DOMAIN s : s[i].kind = "reg"}
TextPlaces(s) == {i \in DOMAIN s : s[i].kind # "reg"}

FreshRow(id, kind, s, item) ==
    [id |-> id, kind |-> kind, pos |-> TopPos(s) + 10, look |-> "plain", flag |-> FALSE,
     item |-> item]

\* Mutant: the number of a text is taken from the number of rows.
IdByCount(s) == -(Len(s) + 1)

NewTextId(s) == LET low == Min({0} \cup IdsOf(s)) IN IF low <= -1 THEN low - 1 ELSE -1

\* Mutant: the stored text forgets that its warnings are muted.
TextWithoutFlag(r) == [pos |-> r.pos, look |-> r.look, kind |-> r.kind, item |-> r.item,
                       flag |-> FALSE]

binding_to_text_item(r) == [pos |-> r.pos, look |-> r.look, kind |-> r.kind, item |-> r.item,
                            flag |-> r.flag]

text_item_to_binding(t, id) == [pos |-> t.pos, look |-> t.look, kind |-> t.kind,
                                item |-> t.item, flag |-> t.flag, id |-> id]

collect_template_text_items(s) ==
    LET texts == Kept(s, TextPlaces(s))
    IN Renumbered([i \in DOMAIN texts |-> binding_to_text_item(texts[i])])

append_template_text_bindings(regs, texts) ==
    Sorted(regs \o [i \in DOMAIN texts |-> text_item_to_binding(texts[i], -i)])

RowsOnDisk(t) == append_template_text_bindings(disk[t].regs, disk[t].texts)

-----------------------------------------------------------------------------
(* The editor: its functions as operators on its state.                    *)

NoDrag == [how |-> "none", ids |-> {}]

EmptyEditor ==
    [rows |-> <<>>, primary |-> 0, chosen |-> {}, muted |-> {}, trail |-> <<>>, nav |-> 0,
     drag |-> NoDrag, filters |-> {}, dirty |-> FALSE, tpl |-> NoLayout, shown |-> NoLayout,
     due |-> {}]

\* Every change of the rows leaves the mark "Unsaved changes".
Changed(e, s) == [e EXCEPT !.rows = s, !.dirty = @ \/ s # e.rows]

WithLook(e, ids, look) ==
    Changed(e, [i \in DOMAIN e.rows |->
                  IF e.rows[i].id \in ids THEN [e.rows[i] EXCEPT !.look = look] ELSE e.rows[i]])

WithFlags(s, ids) == [i \in DOMAIN s |-> [s[i] EXCEPT !.flag = s[i].id \in ids]]

FlaggedIn(s) == {s[i].id : i \in {j \in DOMAIN s : s[j].flag}}

clear_web_safe_changed_trail(e) == [e EXCEPT !.trail = <<>>, !.nav = 0]

\* New template leaves selected_template_id alone, and what is put off.
ClearForNew(e) == [EmptyEditor EXCEPT !.tpl = e.tpl, !.filters = e.filters, !.due = e.due]

\* What open_kp_window_viewer clears of the editor, and what
\* refresh_ui_link_for_selected_kpz clears: the template selected and the mark
\* "Unsaved changes" stay.
ClearForViewer(e) == [e EXCEPT !.rows = <<>>, !.muted = {}, !.shown = NoLayout]
ClearForKpz(e) ==
    [e EXCEPT !.rows = <<>>, !.muted = {}, !.shown = NoLayout, !.primary = 0, !.chosen = {},
              !.due = {}]

sync_web_safe_muted_from_bindings(e) == [e EXCEPT !.muted = FlaggedIn(e.rows)]

\* Mutant: muting is not a change to be saved.
MuteUnmarked(e, id, on) ==
    [e EXCEPT !.rows = WithFlags(@, IF on THEN FlaggedIn(@) \cup {id} ELSE FlaggedIn(@) \ {id}),
              !.muted = IF on THEN @ \cup {id} ELSE @ \ {id}]

set_web_safe_muted(e, id, on) ==
    LET m == IF on THEN e.muted \cup {id} ELSE e.muted \ {id}
        s == WithFlags(e.rows, IF on THEN FlaggedIn(e.rows) \cup {id} ELSE FlaggedIn(e.rows) \ {id})
    IN [e EXCEPT !.rows = s, !.muted = m, !.dirty = @ \/ m # e.muted \/ s # e.rows]

\* The registers asked for that are not on screen yet, in the order of the list.
add_selected_regs_to_bindings(e, regs) ==
    LET new == regs \ IdsOf(e.rows)
        added == [i \in 1 .. Cardinality(new) |->
                    [FreshRow(Nth(new, i), "reg", e.rows, Nth(new, i))
                        EXCEPT !.pos = TopPos(e.rows) + 10 * i]]
    IN [e EXCEPT !.rows = Sorted(@ \o added), !.dirty = @ \/ new # {}]

AddItem(e, kind) ==
    LET id == NewTextId(e.rows)
    IN [e EXCEPT !.rows = Append(@, FreshRow(id, kind, @, 100 + clicks)), !.primary = id,
                 !.chosen = @ \cup {id}, !.dirty = TRUE]

IndexOf(s, id) == CHOOSE i \in DOMAIN s : s[i].id = id

move_binding(e, id, dir) ==
    LET i == IndexOf(e.rows, id)
        j == i + dir
        s == e.rows
    IN IF j \notin DOMAIN s THEN e
       ELSE [e EXCEPT !.rows = Renumbered([s EXCEPT ![i] = s[j], ![j] = s[i]]), !.dirty = TRUE]

send_selected_images_to_back(e) ==
    LET back == {i \in DOMAIN e.rows : e.rows[i].kind = "image" /\ e.rows[i].id \in e.chosen}
        front == DOMAIN e.rows \ back
    IN Changed(e, Renumbered(Sorted(Kept(e.rows, back)) \o Sorted(Kept(e.rows, front))))

\* Mutant: the rows left keep their old numbers and the row its mute.
RemoveKeepsMute(e, id) ==
    [e EXCEPT !.rows = Renumbered(Kept(@, {i \in DOMAIN @ : @[i].id # id})),
              !.primary = IF @ = id THEN 0 ELSE @, !.chosen = @ \ {id}, !.dirty = TRUE]

\* The trail of changed rows is not cleaned.
remove_binding(e, id) ==
    [e EXCEPT !.rows = Renumbered(Kept(@, {i \in DOMAIN @ : @[i].id # id})),
              !.primary = IF @ = id THEN 0 ELSE @, !.chosen = @ \ {id}, !.muted = @ \ {id},
              !.dirty = TRUE]

focus_binding_from_warning(e, id) == [e EXCEPT !.primary = id, !.chosen = {id}]

set_changed_binding_navigation(e, ids) ==
    LET n == [e EXCEPT !.trail = ids, !.nav = 0]
    IN IF ids = <<>> THEN n ELSE focus_binding_from_warning(n, ids[1])

navigate_changed_binding(e, step) ==
    IF e.trail = <<>> THEN e
    ELSE LET n == (e.nav + step) % Len(e.trail)
         IN focus_binding_from_warning([e EXCEPT !.nav = n], e.trail[n + 1])

-----------------------------------------------------------------------------
(* The web check.                                                          *)

issues_for_binding(r) == IF r.look = "small" THEN {"size"} ELSE {}

Matches(e, r) == e.filters = {} \/ e.filters \cap issues_for_binding(r) # {}

collect_warning_items(e, muted) ==
    Kept(e.rows, {i \in DOMAIN e.rows : /\ (e.rows[i].id \in e.muted) <=> muted
                                        /\ issues_for_binding(e.rows[i]) # {}})

Warnings(e) ==
    LET open == collect_warning_items(e, FALSE) IN Kept(open, {i \in DOMAIN open : Matches(e, open[i])})

warning_navigation_target(e, step) ==
    LET w == Warnings(e)
        at == {i \in DOMAIN w : w[i].id = e.primary}
    IN CASE at # {} -> w[((Min(at) - 1 + step) % Len(w)) + 1].id
         [] at = {} /\ step > 0 -> w[1].id
         [] OTHER -> w[Len(w)].id

PanelShown(e) == collect_warning_items(e, FALSE) # <<>> \/ collect_warning_items(e, TRUE) # <<>>

HasIssue(e, id) == \E i \in DOMAIN e.rows :
                      e.rows[i].id = id /\ issues_for_binding(e.rows[i]) # {}

build_web_safe_profile(e, ids) == [muted |-> e.muted \cap ids, filters |-> e.filters]

\* Mutant: the import sets the flags of the rows and not the mutes in use.
ApplyFlagsOnly(e, p, mutes, filters) ==
    LET target == p.muted \cap IdsOf(e.rows)
        muting == IF mutes
                  THEN [e EXCEPT !.rows = WithFlags(@, target), !.dirty = @ \/ e.muted # target]
                  ELSE e
    IN IF filters THEN [muting EXCEPT !.filters = p.filters] ELSE muting

apply_profile(e, p, mutes, filters) ==
    LET target == p.muted \cap IdsOf(e.rows)
        muting == IF mutes
                  THEN [e EXCEPT !.rows = WithFlags(@, target), !.muted = target,
                                 !.dirty = @ \/ e.muted # target]
                  ELSE e
    IN IF filters THEN [muting EXCEPT !.filters = p.filters] ELSE muting

apply_profile_to_selection(e, p) ==
    LET here == e.chosen \cap IdsOf(e.rows)
        flags == (FlaggedIn(e.rows) \ here) \cup (p.muted \cap here)
        changed == Kept(e.rows, {i \in DOMAIN e.rows : e.rows[i].flag # (e.rows[i].id \in flags)})
        applied == [e EXCEPT !.rows = WithFlags(@, flags), !.muted = flags,
                             !.dirty = @ \/ e.muted # flags]
    IN set_changed_binding_navigation(applied, [i \in DOMAIN changed |-> changed[i].id])

-----------------------------------------------------------------------------
(* Tasks.                                                                  *)

NoJob == [op |-> "none"]

Job(op, t, regs, texts) ==
    [op |-> op, tpl |-> t, at |-> "regs", regs |-> regs, texts |-> texts, out |-> <<>>,
     ok |-> TRUE, whole |-> TRUE, seen |-> IF op = "save" THEN ed.rows ELSE <<>>]

\* The lists of windows, of templates and of links, read in a row.
ListsJob == Job("lists", NoLayout, <<>>, <<>>)

Idle == slot = NoJob

\* What ui_link_load_template clears before the task starts.
LoadClears(e, t) ==
    [e EXCEPT !.rows = <<>>, !.muted = {}, !.primary = 0, !.chosen = {}, !.drag = NoDrag,
              !.dirty = FALSE, !.tpl = t, !.shown = NoLayout]

\* get_ui_template_bindings, then get_ui_template_text_items, whose failure is ignored.
JobLoads ==
    /\ slot.op = "load" /\ slot.at # "done"
    /\ \/ /\ slot.at = "regs"
          /\ slot' = [slot EXCEPT !.regs = disk[slot.tpl].regs, !.at = "texts"]
          /\ UNCHANGED breaks
       \/ /\ slot.at = "texts"
          /\ slot' = [slot EXCEPT !.out = RowsOnDisk(slot.tpl), !.at = "done"]
          /\ UNCHANGED breaks
       \/ /\ slot.at = "texts" /\ breaks < MaxBreaks
          /\ slot' = [slot EXCEPT !.out = slot.regs, !.at = "done", !.whole = FALSE]
          /\ breaks' = breaks + 1
    /\ UNCHANGED <<ed, disk, profile, clicks>>

\* Mutant: the texts are sent with a save and not stored.
JobSavesRegsOnly ==
    /\ slot.op = "save" /\ slot.at # "done"
    /\ disk' = [disk EXCEPT ![slot.tpl].regs = slot.regs]
    /\ slot' = [slot EXCEPT !.at = "done",
                            !.out = append_template_text_bindings(slot.regs, slot.texts)]
    /\ UNCHANGED <<ed, profile, clicks, breaks>>

\* save_ui_template_bindings, then save_ui_template_text_items: a transaction each.
JobSaves ==
    /\ slot.op = "save" /\ slot.at # "done"
    /\ IF slot.at = "regs"
       THEN /\ disk' = [disk EXCEPT ![slot.tpl].regs = slot.regs]
            /\ slot' = [slot EXCEPT !.at = "texts"]
       ELSE /\ disk' = [disk EXCEPT ![slot.tpl].texts = slot.texts]
            /\ slot' = [slot EXCEPT !.at = "done",
                                    !.out = append_template_text_bindings(slot.regs, slot.texts)]
    /\ UNCHANGED <<ed, profile, clicks, breaks>>

\* The connection, the first query of a load, or either transaction fails.
JobFails ==
    /\ ~Idle /\ slot.at # "done" /\ breaks < MaxBreaks
    /\ slot.op = "load" => slot.at = "regs"
    /\ slot' = [slot EXCEPT !.at = "done", !.ok = FALSE]
    /\ breaks' = breaks + 1
    /\ UNCHANGED <<ed, disk, profile, clicks>>

\* The registers, or the lists: nothing of them is in the rows.
JobReads ==
    /\ slot.op \in {"regs", "lists"} /\ slot.at # "done"
    /\ slot' = [slot EXCEPT !.at = "done"]
    /\ UNCHANGED <<ed, disk, profile, clicks, breaks>>

Taken(e, j) ==
    IF j.out = <<>> THEN [e EXCEPT !.tpl = j.tpl]
    ELSE sync_web_safe_muted_from_bindings(
            [e EXCEPT !.tpl = j.tpl, !.rows = j.out, !.primary = j.out[1].id, !.dirty = FALSE,
                      !.shown = IF j.whole THEN j.tpl ELSE NoLayout])

\* The slot becomes free, and one thing put off is served.
SlotFreed ==
    CASE "windows" \in ed.due -> ed' = [ed EXCEPT !.due = @ \ {"windows"}] /\ slot' = ListsJob
      [] ed.due = {"refresh"} -> ed' = ClearForKpz(ed) /\ slot' = ListsJob
      [] OTHER -> slot' = NoJob /\ UNCHANGED ed

\* The answer is shown, whatever was edited since it was asked for.
AnswerShown ==
    /\ ~Idle /\ slot.at = "done"
    /\ IF slot.ok /\ slot.op \in {"load", "save"}
       THEN /\ ed' = Taken(ed, slot)
            /\ slot' = Job("regs", slot.tpl, <<>>, <<>>)
       ELSE SlotFreed
    /\ UNCHANGED <<disk, profile, clicks, breaks>>

-----------------------------------------------------------------------------
(* The user.                                                               *)

Edit(e) ==
    /\ clicks < MaxClicks
    /\ clicks' = clicks + 1
    /\ ed' = e
    /\ UNCHANGED <<disk, slot, profile, breaks>>

Free == ed.drag = NoDrag

ChooseLayout(t) ==
    /\ Free /\ t # ed.tpl /\ clicks < MaxClicks
    /\ clicks' = clicks + 1
    /\ IF t # NoLayout /\ Idle
       THEN ed' = LoadClears(ed, t) /\ slot' = Job("load", t, <<>>, <<>>)
       ELSE /\ ed' = IF t # NoLayout THEN [ed EXCEPT !.tpl = t]
                     ELSE [ed EXCEPT !.tpl = t, !.rows = <<>>, !.muted = {}, !.shown = NoLayout]
            /\ UNCHANGED slot
    /\ UNCHANGED <<disk, profile, breaks>>

PressSaveAll ==
    /\ Free /\ ed.tpl # NoLayout /\ Idle /\ clicks < MaxClicks
    /\ clicks' = clicks + 1
    /\ slot' = Job("save", ed.tpl, Renumbered(Kept(ed.rows, RegPlaces(ed.rows))),
                   collect_template_text_items(ed.rows))
    /\ UNCHANGED <<ed, disk, profile, breaks>>

PressNew == Free /\ Edit(ClearForNew(ed))

\* The combo box of the control points, which is always there.
ChangeKpz ==
    /\ Free /\ clicks < MaxClicks
    /\ clicks' = clicks + 1
    /\ IF Idle
       THEN ed' = ClearForKpz(ed) /\ slot' = ListsJob
       ELSE ed' = [ed EXCEPT !.due = @ \cup {"refresh"}] /\ UNCHANGED slot
    /\ UNCHANGED <<disk, profile, breaks>>

\* The viewer's button.  The template panel is open and forces its mode: no
\* window is loaded.
OpenViewer ==
    /\ Free /\ clicks < MaxClicks
    /\ clicks' = clicks + 1
    /\ IF Idle
       THEN ed' = [ClearForViewer(ed) EXCEPT !.due = @ \ {"windows"}] /\ slot' = ListsJob
       ELSE ed' = [ClearForViewer(ed) EXCEPT !.due = @ \cup {"windows"}] /\ UNCHANGED slot
    /\ UNCHANGED <<disk, profile, breaks>>

AddRegs ==
    /\ Free
    /\ \E S \in {{r} : r \in FreeRegs} \cup {FreeRegs} :
          /\ Cardinality(S \cup IdsOf(ed.rows)) <= MaxRows
          /\ Edit(add_selected_regs_to_bindings(ed, S))

AddTextOrImage ==
    /\ Free /\ Len(ed.rows) < MaxRows
    /\ \E kind \in {"text", "image"} : Edit(AddItem(ed, kind))

\* The fields of a row in the table, and the label above the layout.
EditRow == Free /\ \E id \in IdsOf(ed.rows), look \in Looks : Edit(WithLook(ed, {id}, look))

batch_set_size == Free /\ \E look \in Looks : Edit(WithLook(ed, ed.chosen, look))

batch_arrange ==
    /\ Free /\ Cardinality(ed.chosen \cap IdsOf(ed.rows)) >= 2
    /\ \E look \in Looks : Edit(WithLook(ed, ed.chosen, look))

fit_selected_images_to_layout ==
    LET images == {id \in ed.chosen \cap IdsOf(ed.rows) :
                      ed.rows[IndexOf(ed.rows, id)].kind = "image"}
    IN /\ Free /\ images # {}
       /\ \/ Edit(WithLook(ed, images, "plain"))
          \/ Edit(send_selected_images_to_back(ed))

MoveRow == Free /\ \E id \in IdsOf(ed.rows), dir \in {-1, 1} : Edit(move_binding(ed, id, dir))

RemoveRow == Free /\ \E id \in IdsOf(ed.rows) : Edit(remove_binding(ed, id))

\* Sel all, Clear, the check box and the title of a row, a click on the layout.
MarkRows ==
    /\ Free
    /\ \/ \E S \in {IdsOf(ed.rows), {}} : Edit([ed EXCEPT !.chosen = S])
       \/ \E id \in IdsOf(ed.rows) :
             \/ Edit([ed EXCEPT !.chosen = SymDiff(@, {id})])
             \/ Edit([ed EXCEPT !.primary = id, !.chosen = @ \cup {id}])
             \/ Edit([ed EXCEPT !.primary = id, !.chosen = {id}])
             \/ Edit([ed EXCEPT !.primary = id, !.chosen = SymDiff(@, {id})])

\* A drag begins on a row, which may be one of several chosen, on its corner, or beside all.
DragStarts ==
    /\ Free
    /\ \/ \E id \in IdsOf(ed.rows) :
             LET now == IF id \in ed.chosen THEN ed.chosen ELSE {id}
                 ids == IF Cardinality(now) > 1 THEN now \cap IdsOf(ed.rows) ELSE {id}
             IN \/ Edit([ed EXCEPT !.primary = id, !.chosen = now,
                                   !.drag = [how |-> "move", ids |-> ids]])
                \/ Edit([ed EXCEPT !.primary = id, !.drag = [how |-> "resize", ids |-> {id}]])
       \/ Edit([ed EXCEPT !.drag = [how |-> "select", ids |-> {}]])

\* A frame of the drag; rows that came meanwhile under a number of the drag move with it.
DragMoves ==
    /\ ed.drag.how \in {"move", "resize"}
    /\ \E look \in Looks : Edit(WithLook(ed, ed.drag.ids, look))

DragEnds ==
    /\ ~Free
    /\ IF ed.drag.how = "select"
       THEN \E S \in SUBSET IdsOf(ed.rows), keep \in BOOLEAN :
               LET now == IF keep THEN ed.chosen \cup S ELSE S
               IN ed' = [ed EXCEPT !.drag = NoDrag, !.chosen = now,
                                   !.primary = IF now = {} THEN @ ELSE Min(now)]
       ELSE ed' = [ed EXCEPT !.drag = NoDrag]
    /\ UNCHANGED <<disk, slot, profile, clicks, breaks>>

MuteSelected ==
    /\ Free /\ PanelShown(ed) /\ HasIssue(ed, ed.primary)
    /\ Edit(set_web_safe_muted(ed, ed.primary, ed.primary \notin ed.muted))

ClearMuted ==
    /\ Free /\ collect_warning_items(ed, TRUE) # <<>>
    /\ Edit([ed EXCEPT !.muted = {}, !.rows = WithFlags(@, {}),
                       !.dirty = @ \/ FlaggedIn(ed.rows) # {}])

SetFilters == Free /\ PanelShown(ed) /\ \E f \in SUBSET {"size"} : Edit([ed EXCEPT !.filters = f])

NextWarning ==
    /\ Free /\ Warnings(ed) # <<>>
    /\ \E step \in {-1, 1} : Edit(focus_binding_from_warning(ed, warning_navigation_target(ed, step)))

ExportProfile ==
    /\ Free /\ PanelShown(ed) /\ clicks < MaxClicks
    /\ clicks' = clicks + 1
    /\ \E ids \in {ed.muted} \cup (IF ed.chosen # {} THEN {ed.chosen} ELSE {}) :
          profile' = build_web_safe_profile(ed, ids)
    /\ ed' = clear_web_safe_changed_trail(ed)
    /\ UNCHANGED <<disk, slot, breaks>>

\* Import profile, mutes only, filters only, and the preview.
ImportProfile ==
    /\ Free /\ PanelShown(ed)
    /\ \E mutes, filters \in BOOLEAN :
          Edit(clear_web_safe_changed_trail(apply_profile(ed, profile, mutes, filters)))

ImportIntoSelection ==
    /\ Free /\ PanelShown(ed) /\ ed.chosen # {}
    /\ Edit(apply_profile_to_selection(ed, profile))

WalkTrail ==
    /\ Free /\ PanelShown(ed) /\ ed.trail # <<>>
    /\ \/ \E step \in {-1, 1} : Edit(navigate_changed_binding(ed, step))
       \/ Edit(clear_web_safe_changed_trail(ed))

-----------------------------------------------------------------------------
NoProfile == [muted |-> {}, filters |-> {}]

\* The editor is empty, or a template was just loaded.
LayoutInit ==
    /\ disk = FirstRows
    /\ slot = NoJob
    /\ \/ ed = EmptyEditor /\ clicks = 0
       \/ \E t \in Layouts :
             /\ RowsOnDisk(t) # <<>>
             /\ ed = Taken(LoadClears(EmptyEditor, t),
                           [tpl |-> t, out |-> RowsOnDisk(t), whole |-> TRUE])
             /\ clicks = 1
    /\ profile = NoProfile
    /\ breaks = 0

LayoutNext ==
    \/ JobLoads \/ JobSaves \/ JobFails \/ JobReads \/ AnswerShown
    \/ \E t \in Layouts \cup {NoLayout} : ChooseLayout(t)
    \/ PressSaveAll \/ PressNew \/ ChangeKpz \/ OpenViewer \/ AddRegs \/ AddTextOrImage \/ EditRow
    \/ batch_set_size \/ batch_arrange \/ fit_selected_images_to_layout \/ MoveRow \/ RemoveRow
    \/ MarkRows \/ DragStarts \/ DragMoves \/ DragEnds
    \/ MuteSelected \/ ClearMuted \/ SetFilters \/ NextWarning
    \/ ExportProfile \/ ImportProfile \/ ImportIntoSelection \/ WalkTrail

LayoutSpec == LayoutInit /\ [][LayoutNext]_layoutVars

-----------------------------------------------------------------------------
Contents(s) ==
    [i \in DOMAIN s |-> [item |-> s[i].item, kind |-> s[i].kind, look |-> s[i].look,
                         flag |-> s[i].flag]]

\* With no task under way and no "Unsaved changes" (window_link_editor.rs:4416)
\* the editor shows the template as the database holds it, row by row with the
\* numbers a load would give them, and mutes what is stored as muted; whatever
\* was edited, moved, dropped, imported or half saved before.  `shown` leaves
\* out a screen that was not filled from the template selected: after New
\* template, after a choice made while a task ran (actions_templates.rs:163),
\* after a load whose texts could not be read (actions_templates.rs:447), and
\* after another control point was chosen or the viewer opened, which empty the
\* rows and leave the template selected, without a mark
\* (actions_windows.rs:13-42).
UnsavedIsMarked ==
    Idle /\ ~ed.dirty /\ ed.shown = ed.tpl /\ ed.tpl # NoLayout =>
       ed.rows = RowsOnDisk(ed.tpl) /\ ed.muted = FlaggedIn(ed.rows)

\* Saving changes numbers, never content: what a finished save leaves in the
\* database is, registers and texts each in their order on screen, what the
\* editor showed when Save all was pressed (actions_templates.rs:499, :14, :69).
\* The order between a register and a text is not kept: both start from 10.
SaveLosesNothing ==
    slot.op = "save" /\ slot.at = "done" /\ slot.ok =>
       /\ Contents(disk[slot.tpl].regs) = Contents(Kept(slot.seen, RegPlaces(slot.seen)))
       /\ Contents(disk[slot.tpl].texts) = Contents(Kept(slot.seen, TextPlaces(slot.seen)))

\* The mutes the web check uses are those Save all will store, and no number
\* names two rows (window_link_editor.rs:341, :427; web_safe.rs:705).
MutesAreStored ==
    /\ ed.muted = FlaggedIn(ed.rows)
    /\ Cardinality(IdsOf(ed.rows)) = Len(ed.rows)
    /\ \A i \in 1..Len(ed.rows) - 1 : Before(ed.rows[i], ed.rows[i + 1])

\* What was edited is kept: no change is left unmarked, none is lost or changed
\* by the save that takes it to the database.
EditsAreKept == UnsavedIsMarked /\ SaveLosesNothing
=============================================================================
