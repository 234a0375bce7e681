---------------------------- MODULE ListEditors ----------------------------
(***************************************************************************)
(* The other editors of the desktop station (ss5): objects, registers,     *)
(* dictionaries, alarm rules, archive indices, the configuration of the    *)
(* scheduler, scripts and their templates.  Each is a list read from its   *)
(* table, a row selected and a form of that row; they differ in what       *)
(* "save" takes the id from, in what "new" leaves in the form, and in what *)
(* is read again afterwards.  A behaviour is about one window.             *)
(*                                                                         *)
(* Values are as in Station, `of` being <<table, id>>: the row they were   *)
(* read from or typed for.  An id the user types, and a text he asks to be *)
(* copied, make the value that row's own.                                  *)
(***************************************************************************)
EXTENDS Station

CONSTANTS
    Windows,      \* the windows that may be open
    RowIds,       \* ids of rows
    OldRows       \* the ids in use at the start

ASSUME EditorIds == OldRows \subseteq RowIds /\ RowIds \subseteq Nat \ {0} /\ OldRows # {}
ASSUME EditorWindows ==
    Windows \subseteq {"obj", "reg", "dict", "alarm_rule", "arx_state", "runtime_cfg", "gscript"}
\* The table of the configuration is empty or has the row ss4 has put there (db.rs:60).
ASSUME RuntimeRow == "runtime_cfg" \in Windows => 1 \in OldRows

VARIABLES
    rows,         \* the tables of the window
    form,         \* the window: table shown, row selected, id and value typed, list
    stray         \* history: a form was saved whose load had failed

editorVars == <<rows, form, stray>>

-----------------------------------------------------------------------------
TablesOf(w) == CASE w = "dict" -> {"ip", "port"}
                 [] w = "gscript" -> {"g_script", "template"}
                 [] OTHER -> {w}
\* What else a window writes: the bindings of templates, the journals.
Beside(w) == CASE w = "gscript" -> {"bound"} [] w = "arx_state" -> {"logs"} [] OTHER -> {}

\* `here`: an alarm rule is about the control point selected.
Row(t, id, n) == [of |-> <<t, id>>, n |-> n, by |-> "me", here |-> TRUE]
NoRow(t) == Row(t, 0, 0)
Own(v, t, id) == [v EXCEPT !.of = <<t, id>>, !.by = "me"]

update_obj(t, id, v) == [t EXCEPT ![id] = v]
Without(t, id) == [i \in DOMAIN t \ {id} |-> t[i]]
Table(f) == rows[f.tab]
NextId == Max(DOMAIN Table(form) \cup DOMAIN form.list \cup {0}) + 1

\* Rules are listed by the filter on control points.
Shown(f, t) == IF f.win = "alarm_rule" /\ ~f.all
               THEN [id \in {i \in DOMAIN t : t[i].here} |-> t[id]] ELSE t

-----------------------------------------------------------------------------
(* Filling a form from the list.                                           *)

sync_obj_editor_from_selected(f) ==
    [f EXCEPT !.val = IF f.sel \in DOMAIN f.list THEN f.list[f.sel] ELSE NoRow(f.tab)]

\* Mutant: the id in the form is the one shown before.
IdLeft(f) == [f EXCEPT !.val = IF f.sel \in DOMAIN f.list THEN f.list[f.sel] ELSE NoRow(f.tab)]

sync_reg_editor_from_selected(f) ==
    IF f.sel \in DOMAIN f.list THEN [f EXCEPT !.id = f.sel, !.val = f.list[f.sel]]
    ELSE [f EXCEPT !.id = 0, !.val = NoRow(f.tab)]

sync_dict_editor_from_selected(f) ==
    IF f.sel \in DOMAIN f.list THEN [f EXCEPT !.id = f.sel, !.val = f.list[f.sel]]
    ELSE [f EXCEPT !.id = 0, !.val = NoRow(f.tab)]

\* The values of the rule shown before stay in the form: the next save makes a copy.
new_alarm_rule_form(f) == [f EXCEPT !.sel = 0, !.val.of = <<f.tab, 0>>]

sync_alarm_editor_from_selected(f) ==
    IF f.sel \in DOMAIN f.list THEN [f EXCEPT !.val = f.list[f.sel]]
    ELSE new_alarm_rule_form(f)

\* A list read again: a row no longer in it gives way to the first.
Relisted(f, t) ==
    [f EXCEPT !.list = t, !.sel = IF @ \in DOMAIN t THEN @
                                  ELSE IF DOMAIN t = {} THEN 0 ELSE Min(DOMAIN t)]

reload_reg_rows(f, t) == sync_reg_editor_from_selected(Relisted(f, t))
reload_dict_items(f, t) == [sync_dict_editor_from_selected(Relisted(f, t)) EXCEPT !.lost = FALSE]

\* Mutant: the form is not filled again when the list has moved the selection.
RuleFormLeft(f, t) == Relisted(f, Shown(f, t))

reload_alarm_data(f, t) == sync_alarm_editor_from_selected(Relisted(f, Shown(f, t)))

\* The objects are also read with the other references, and the form is left alone.
reload_kpz_refs(f, t) == [f EXCEPT !.list = t]

\* The filter names a control point: here that of the first row.
get_arx_state_rows(f, t) == IF f.all THEN t ELSE [id \in DOMAIN t \cap {Min(OldRows)} |-> t[id]]
reload_arx_state_rows(f, t) == [f EXCEPT !.list = get_arx_state_rows(f, t)]

\* The first row is read; an empty table stands for the defaults in row 1.
get_scheduler_runtime_cfg(t) == IF DOMAIN t = {} THEN Row("runtime_cfg", 1, 0) ELSE t[Min(DOMAIN t)]
reload_runtime_cfg_from_db(f, t) == [f EXCEPT !.val = get_scheduler_runtime_cfg(t)]

Reloaded(f, t) ==
    CASE f.win = "obj" -> sync_obj_editor_from_selected(reload_kpz_refs(f, t))
      [] f.win = "reg" -> reload_reg_rows(f, t)
      [] f.win = "dict" -> reload_dict_items(f, t)
      [] f.win = "alarm_rule" -> reload_alarm_data(f, t)
      [] f.win = "arx_state" -> reload_arx_state_rows(f, t)
      [] OTHER -> reload_runtime_cfg_from_db(f, t)

Synced(f) ==
    CASE f.win = "obj" -> sync_obj_editor_from_selected(f)
      [] f.win = "reg" -> sync_reg_editor_from_selected(f)
      [] f.win = "dict" -> sync_dict_editor_from_selected(f)
      [] f.win = "alarm_rule" -> sync_alarm_editor_from_selected(f)
      [] OTHER -> [f EXCEPT !.id = f.sel, !.val = f.list[f.sel]]

-----------------------------------------------------------------------------
Shows(f) == Use /\ form' = f /\ UNCHANGED <<rows, others, fails>>

\* "Обновить"; objects are filled from the old list if it cannot be read.
Refresh ==
    /\ Use
    /\ \E ok \in BOOLEAN : Call(ok) /\ form' = IF ok THEN Reloaded(form, Table(form))
                                            ELSE IF form.win = "obj" THEN Synced(form) ELSE form
    /\ UNCHANGED <<rows, others>>

ClickRow == \E k \in DOMAIN form.list : Shows(Synced([form EXCEPT !.sel = k]))

\* Typing changes some of the fields: the value stays that of the row it came from.
TypeValue ==
    \E here \in IF form.win = "alarm_rule" THEN BOOLEAN ELSE {TRUE} :
       Shows([form EXCEPT !.val = [Edited(@) EXCEPT !.here = here]])

TypeId == \E k \in RowIds : Shows([form EXCEPT !.id = k, !.val = Own(@, form.tab, k)])

\* A row stored, the list read again (or not), and the form after each.
Stored(id, v, read, unread) ==
    \E ok \in BOOLEAN :
       /\ Call(ok)
       /\ rows' = [rows EXCEPT ![form.tab] = With(@, id, IF ok THEN v ELSE [v EXCEPT !.by = "unread"])]
       /\ form' = IF ok THEN read ELSE unread

Deleted(id, read, unread) ==
    /\ \E ok \in BOOLEAN : Call(ok) /\ form' = IF ok THEN read ELSE unread
    /\ rows' = [rows EXCEPT ![form.tab] = Without(@, id)]

-----------------------------------------------------------------------------
(* Objects: the list is patched, not read again.                           *)

ObjDirty == IF form.sel \in DOMAIN form.list THEN ~Same(form.val, form.list[form.sel])
            ELSE form.val.n # 0

save_obj_editor ==
    /\ Use /\ ObjDirty
    /\ \E ok \in BOOLEAN :
          /\ Call(ok)
          /\ LET id == IF form.sel = 0 THEN NextId ELSE form.sel
                 v == IF form.sel = 0 THEN Own(form.val, form.tab, id) ELSE Mine(form.val)
             IN IF ok THEN /\ rows' = [rows EXCEPT ![form.tab] = IF form.sel = 0 THEN With(@, id, v)
                                                                 ELSE update_obj(@, id, v)]
                           /\ form' = [form EXCEPT !.list = With(@, id, v), !.sel = id, !.val = v]
                      ELSE UNCHANGED <<rows, form>>
    /\ UNCHANGED others

\* Opened again, the window shows the object of the control point selected.
open_obj_editor ==
    \E k \in DOMAIN form.list : Shows(sync_obj_editor_from_selected([form EXCEPT !.sel = k]))

show_obj_editor ==
    /\ form.win = "obj"
    /\ \/ ClickRow \/ TypeValue \/ save_obj_editor \/ Refresh \/ open_obj_editor
       \/ Shows(reload_kpz_refs(form, Table(form)))
       \/ Shows([form EXCEPT !.sel = 0, !.val.of = <<form.tab, 0>>])

-----------------------------------------------------------------------------
(* Registers: the id is typed, and the row of that id written or made.     *)

RegDirty == IF form.sel \in DOMAIN form.list
            THEN form.id # form.sel \/ ~Same(form.val, form.list[form.sel])
            ELSE form.id # 0 \/ form.val.n # 0

\* Against its name it inserts a row that is not there.
update_reg_edit(t, id, v) == With(t, id, v)

\* If the list is not read again the form is filled with the old values.
save_reg_editor ==
    LET v == Mine(form.val)
        f == [form EXCEPT !.sel = form.id]
    IN /\ Use /\ RegDirty /\ form.id # 0 /\ form.val.n # 0
       /\ Stored(form.id, v, reload_reg_rows(f, update_reg_edit(Table(form), form.id, v)),
                 sync_reg_editor_from_selected(f))
       /\ UNCHANGED others

show_reg_editor ==
    /\ form.win = "reg"
    /\ \/ ClickRow \/ TypeValue \/ TypeId \/ save_reg_editor \/ Refresh
       \/ Shows([form EXCEPT !.sel = 0])

-----------------------------------------------------------------------------
(* Dictionaries: several tables in one window.  `lost`: what the list and  *)
(* the form show is not of the table (or group) chosen, whose load has     *)
(* failed.  The message goes with the next click on a row, or the next     *)
(* template saved (dict_editor.rs:38, gscript.rs:428).                     *)

\* The rows of the table chosen; if they cannot be read, those of the former stay.
SetTable ==
    \E t \in TablesOf("dict") \ {form.tab} : \E ok \in BOOLEAN :
       /\ Use /\ Call(ok)
       /\ LET f == [form EXCEPT !.tab = t]
          IN form' = IF ok THEN reload_dict_items(f, rows[t]) ELSE [f EXCEPT !.lost = TRUE]
       /\ UNCHANGED <<rows, others>>

save_dict_editor ==
    LET v == Mine(form.val)
        f == [form EXCEPT !.sel = form.id]
    IN /\ Use /\ form.id # 0 /\ form.val.n # 0
       /\ Stored(form.id, v, reload_dict_items(f, With(Table(form), form.id, v)),
                 sync_dict_editor_from_selected(f))
       /\ UNCHANGED others

delete_dict_editor ==
    /\ Use /\ form.id # 0
    /\ Deleted(form.id, reload_dict_items(form, Without(Table(form), form.id)), form)
    /\ UNCHANGED others

show_dict_editor ==
    /\ form.win = "dict"
    /\ \/ ClickRow \/ TypeValue \/ TypeId \/ save_dict_editor \/ delete_dict_editor
       \/ Refresh \/ SetTable
       \/ Shows([form EXCEPT !.sel = 0, !.id = 0, !.val = NoRow(form.tab)])

-----------------------------------------------------------------------------
(* Alarm rules.                                                            *)

insert_alarm_rule(v) == [id |-> NextId, val |-> Own(v, form.tab, NextId)]
upsert_alarm_rule(id, v) == [id |-> id, val |-> Mine(v)]

\* A rule moved to a control point that is not listed gives way to another.
save_alarm_rule ==
    LET new == IF form.sel = 0 THEN insert_alarm_rule(form.val) ELSE upsert_alarm_rule(form.sel, form.val)
        id == new.id
        v == new.val
        f == [form EXCEPT !.sel = id, !.val = v]
    IN /\ Use /\ form.val.n # 0
       /\ Stored(id, v, reload_alarm_data(f, With(Table(form), id, v)), f)
       /\ UNCHANGED others

\* The list read again shows another rule; the form then takes it for a new one.
delete_alarm_rule ==
    /\ Use /\ form.sel # 0
    /\ Deleted(form.sel, new_alarm_rule_form(reload_alarm_data(form, Without(Table(form), form.sel))),
               new_alarm_rule_form(form))
    /\ UNCHANGED others

show_alarm_window ==
    /\ form.win = "alarm_rule"
    /\ \/ ClickRow \/ TypeValue \/ save_alarm_rule \/ delete_alarm_rule \/ Refresh
       \/ Shows(new_alarm_rule_form(form))

-----------------------------------------------------------------------------
(* Archive indices and the configuration of the scheduler.                 *)

upsert_arx_state(t) == With(t, form.id, Mine(form.val))

save_arx_state_row ==
    /\ Use /\ form.id # 0 /\ form.val.n # 0
    /\ Stored(form.id, Mine(form.val), reload_arx_state_rows(form, upsert_arx_state(Table(form))), form)
    /\ UNCHANGED others

\* The journals: of one control point if the filter names it, or of all.  Rows
\* of poll_log that are of no control point (0) go with any.
Kept(journal, only) ==
    IF only = 0 THEN {} ELSE rows.logs[journal] \ ({only} \cup IF journal = "poll_log" THEN {0} ELSE {})

ClearJournal ==
    /\ Use
    /\ \E journal \in DOMAIN rows.logs, only \in RowIds \cup {0} :
          \E ok \in BOOLEAN :
             Call(ok) /\ rows' = IF ok THEN [rows EXCEPT !.logs[journal] = Kept(journal, only)] ELSE rows
    /\ UNCHANGED <<form, others>>

\* Three statements: what was cleared before one fails stays cleared.
clear_all_from_window ==
    /\ Use
    /\ \E n \in 0 .. 3 :
          /\ Call(n = 3)
          /\ rows' = [rows EXCEPT !.logs = [j \in DOMAIN @ |->
                         IF j \in {<<"arx_val", "elam", "poll_log">>[i] : i \in 1 .. n} THEN {} ELSE @[j]]]
          /\ form' = IF n = 3 THEN reload_arx_state_rows(form, Table(form)) ELSE form
    /\ UNCHANGED others

show_arx_state_window ==
    /\ form.win = "arx_state"
    /\ ClickRow \/ TypeValue \/ TypeId \/ save_arx_state_row \/ Refresh
       \/ ClearJournal \/ clear_all_from_window

upsert_scheduler_runtime_cfg(t) == With(t, 1, Mine(form.val))

save_runtime_cfg_to_db ==
    /\ Use
    /\ \E ok \in BOOLEAN :
          /\ Call(ok)
          /\ rows' = IF ok THEN [rows EXCEPT ![form.tab] = upsert_scheduler_runtime_cfg(@)] ELSE rows
    /\ UNCHANGED <<form, others>>

show_runtime_cfg_window ==
    form.win = "runtime_cfg" /\ (TypeValue \/ save_runtime_cfg_to_db \/ Refresh)

-----------------------------------------------------------------------------
(* Scripts of groups: `sel` is the group, `tpl` the template chosen and    *)
(* `list` the templates; rows.bound is ui.gscript_group_template.          *)

Scripts == rows.g_script
Templates == rows.template
BoundTo(g) == IF g \in DOMAIN rows.bound THEN rows.bound[g] ELSE 0

reload_gscript_templates(f, t) ==
    [f EXCEPT !.list = t, !.tpl = IF @ \in DOMAIN t THEN @ ELSE 0]

load_group_template_binding(f, g) == [f EXCEPT !.tpl = BoundTo(g)]

\* Templates and bindings are read first; what cannot be read leaves the editor
\* as it was, under the group chosen.
load_gscript(f, g, ok) ==
    LET h == load_group_template_binding(reload_gscript_templates([f EXCEPT !.sel = g], Templates), g)
    IN IF ~ok THEN [h EXCEPT !.lost = TRUE]
       ELSE [h EXCEPT !.lost = FALSE,
                      !.val = IF g \in DOMAIN Scripts THEN Scripts[g] ELSE Row("g_script", g, 0)]

ChooseGroup ==
    \E g \in RowIds, ok \in BOOLEAN :
       Use /\ Call(ok) /\ form' = load_gscript(form, g, ok) /\ UNCHANGED <<rows, others>>

\* A script of the group's own goes before the template it is bound to.
get_effective_g_script(g) ==
    IF g \in DOMAIN Scripts THEN Scripts[g] ELSE Own(Templates[BoundTo(g)], "g_script", g)

load_effective_gscript ==
    /\ form.sel \in DOMAIN Scripts \/ BoundTo(form.sel) # 0
    /\ Shows([form EXCEPT !.val = get_effective_g_script(form.sel), !.lost = FALSE])

upsert_g_script(t) == With(t, form.sel, Mine(form.val))

save_gscript ==
    /\ Use /\ form.val.n # 0
    /\ \E ok \in BOOLEAN :
          /\ Call(ok)
          /\ rows' = IF ok THEN [rows EXCEPT !.g_script = upsert_g_script(@)] ELSE rows
          /\ form' = IF ok THEN load_group_template_binding(form, form.sel) ELSE form
    /\ UNCHANGED others

load_gscript_template_into_editor ==
    /\ form.tpl \in DOMAIN form.list
    /\ Shows([form EXCEPT !.val = Own(form.list[form.tpl], "g_script", form.sel), !.lost = FALSE])

\* A template without an id takes the place of one with its name, if there is one.
upsert_g_script_template(tpl) ==
    IF tpl \in DOMAIN Templates THEN {tpl}
    ELSE DOMAIN Templates \cup {Max(DOMAIN Templates \cup {0}) + 1}

save_gscript_template ==
    /\ Use /\ form.val.n # 0
    /\ \E id \in upsert_g_script_template(form.tpl), ok \in BOOLEAN :
          /\ Call(ok)
          /\ LET v == Own(form.val, "template", id)
                 t == With(Templates, id, IF ok THEN v ELSE [v EXCEPT !.by = "unread"])
             IN /\ rows' = [rows EXCEPT !.template = t]
                /\ form' = LET f == [form EXCEPT !.tpl = id]
                           IN IF ok THEN reload_gscript_templates(f, t) ELSE f
    /\ UNCHANGED others

\* Its bindings go with it.
delete_selected_gscript_template ==
    /\ Use /\ form.tpl # 0
    /\ LET t == Without(Templates, form.tpl)
       IN /\ rows' = [rows EXCEPT !.template = t,
                                   !.bound = [g \in {i \in DOMAIN @ : @[i] # form.tpl} |-> @[g]]]
          /\ \E ok \in BOOLEAN :
                /\ Call(ok)
                /\ form' = LET f == [form EXCEPT !.tpl = 0]
                           IN IF ok THEN reload_gscript_templates(f, t) ELSE f
    /\ UNCHANGED others

\* A template that is no longer there is refused by the foreign key.
set_group_template(b, g, tpl) ==
    IF tpl = 0 THEN Without(b, g) ELSE IF tpl \in DOMAIN Templates THEN With(b, g, tpl) ELSE b

bind_template_to_group ==
    /\ Use
    /\ rows' = [rows EXCEPT !.bound = set_group_template(@, form.sel, form.tpl)]
    /\ UNCHANGED <<form, others, fails>>

show_gscript_window ==
    /\ form.win = "gscript"
    /\ \/ ChooseGroup \/ load_effective_gscript \/ save_gscript \/ TypeValue
       \/ load_gscript_template_into_editor \/ save_gscript_template
       \/ delete_selected_gscript_template \/ bind_template_to_group
       \/ \E k \in DOMAIN form.list \cup {0} : Shows([form EXCEPT !.tpl = k])

-----------------------------------------------------------------------------
(* Another station or the configurator writes a row, or deletes one.       *)
OtherEdits ==
    /\ others < MaxOthers /\ others' = others + 1
    /\ \E t \in TablesOf(form.win) : \E id \in DOMAIN rows[t] :
          \/ rows' = [rows EXCEPT ![t][id] = [Row(t, id, 1000) EXCEPT !.by = "other"]]
          \/ form.win \in {"dict", "alarm_rule"} /\ rows' = [rows EXCEPT ![t] = Without(@, id)]
    /\ UNCHANGED <<form, uses, fails>>

Shut == [win |-> "none"]

\* The window just opened.
Opened(w, all) ==
    LET t == IF w = "dict" THEN "ip" ELSE IF w = "gscript" THEN "g_script" ELSE w
        f == [win |-> w, tab |-> t, sel |-> 0, id |-> 0,
              val |-> NoRow(t), list |-> <<>>, tpl |-> 0, lost |-> FALSE, all |-> all]
    IN CASE w = "gscript" -> load_gscript(f, Min(OldRows), TRUE)
         [] w = "obj" -> sync_obj_editor_from_selected([f EXCEPT !.list = rows[t], !.sel = Min(OldRows)])
         [] OTHER -> Reloaded(f, rows[t])

EditorsInit ==
    \E w \in Windows, all \in BOOLEAN :
       /\ w \notin {"alarm_rule", "arx_state"} => all
       /\ \E old \in {OldRows} \cup IF w = "runtime_cfg" THEN {{}} ELSE {} :
           rows = [t \in TablesOf(w) \cup Beside(w) |->
                     CASE t = "bound" -> <<>>
                       [] t = "logs" -> [j \in {"arx_val", "elam", "poll_log"} |-> OldRows \cup {0}]
                       [] OTHER -> [id \in old |-> Row(t, id, 1)]]
       /\ form = Opened(w, all)
       /\ stray = FALSE

GoesAstray ==
    /\ form.lost
    /\ \/ form.win = "dict" /\ save_dict_editor
       \/ form.win = "gscript" /\ save_gscript

EditorsNext ==
    /\ \/ show_obj_editor \/ show_reg_editor \/ show_dict_editor \/ show_alarm_window
       \/ show_arx_state_window \/ show_runtime_cfg_window \/ show_gscript_window
       \/ OtherEdits
    /\ stray' = (stray \/ GoesAstray)

-----------------------------------------------------------------------------
(* The program: one thread draws the tool bar and whatever window is open. *)

NoStation == kpz = <<>> /\ desk = [list |-> <<>>] /\ uses = 0 /\ others = 0 /\ fails = 0
NoEditor == rows = <<>> /\ form = Shut /\ stray = FALSE

DeskInit == (StationInit \/ NoStation) /\ (EditorsInit \/ NoEditor)
DeskNext == \/ kpz # <<>> /\ StationNext /\ UNCHANGED editorVars
            \/ form # Shut /\ EditorsNext /\ UNCHANGED <<kpz, desk>>
DeskSpec == DeskInit /\ [][DeskNext]_<<stationVars, editorVars>>

-----------------------------------------------------------------------------
(* The same of the other windows: a row is stored under the id it was read *)
(* from or typed for, though selections move, lists shrink and reloads     *)
(* fail (reg_editor.rs:42, dict_editor.rs:13, alarm.rs:108, gscript.rs:98).*)
(* The exception: when a table or a group is chosen and its load fails,    *)
(* what was shown before stays, and "save" stores it under the new one.    *)
RowsKeepTheirOwn ==
    ~stray => \A t \in DOMAIN rows \ {"bound", "logs"} : \A id \in DOMAIN rows[t] :
                 rows[t][id].of = <<t, id>>

(* And what is listed is what this station stored last (obj_editor.rs:65,  *)
(* reg_editor.rs:162, gscript.rs:426).                                     *)
ListIsCurrent ==
    form # Shut /\ ~form.lost =>
       LET t == IF form.win = "gscript" THEN Templates ELSE Table(form)
       IN \A id \in DOMAIN form.list \cap DOMAIN t : form.list[id] = t[id] \/ t[id].by # "me"

FormsKeepToTheirRows ==
    KpzRowsKeepTheirOwn /\ KpzListIsCurrent /\ RowsKeepTheirOwn /\ ListIsCurrent
=============================================================================
