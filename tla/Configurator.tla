---------------------------- MODULE Configurator ----------------------------
(***************************************************************************)
(* The desktop configurator (ss7): one egui thread that owns the editor    *)
(* state, and at most one background thread whose answer is awaited in     *)
(* io_task_rx.  A request made while the slot is taken is lost, except for *)
(* three that leave a flag behind; a result is applied to whatever the     *)
(* editor shows by then, and many results start the next task themselves.  *)
(*                                                                         *)
(* The editor state is one record, ui, because the code composes functions *)
(* on it: every operator from EditorState to Served translates one of      *)
(* them.  `layout` stands for the rows in ui_link_editor.bindings: the     *)
(* template or window they were loaded from, None when the list is empty;  *)
(* `live` for the layout whose values were read last (live_values).        *)
(* db is the part of the schema ui the tasks read and write.               *)
(*                                                                         *)
(* The user follows UI_LINK_EDITOR.md except for the slips listed in       *)
(* Slips.  Window editing proper (Save window, Create window from          *)
(* template, ...) has no actions: show_ui_link_editor forces the template  *)
(* mode before it draws those buttons, so they are never drawn.            *)
(***************************************************************************)
EXTENDS Naturals, Functions

CONSTANTS
    Kpz,            \* control points; a window is a pair <<kpz, template>>
    Templates,      \* window templates (ui.kpz_window_template)
    KpTemplates,    \* sets of window templates (ui.kp_template)
    Rows,           \* the window templates of each set (ui.kp_template_window)
    None,
    Slips,          \* what the user does against the manual: see "The user"
    Failing,        \* the tasks whose database calls may fail
    MaxInputs,      \* bound: clicks of the user
    MaxFaults       \* bound: failed tasks

ASSUME RowsAssumption == Rows \in [KpTemplates -> SUBSET Templates]
ASSUME BoundsAssumption == MaxInputs \in Nat /\ MaxFaults \in Nat
ASSUME NamesAssumption ==    \* a layout is of a window, a template, a draft or of nothing
    /\ None \notin Kpz \X Templates /\ None \notin Templates \cup KpTemplates /\ None # "draft"
    /\ None \notin Kpz \X KpTemplates
    /\ Templates \cap (Kpz \X Templates) = {} /\ "draft" \notin Templates \cup (Kpz \X Templates)

VARIABLES
    ui, db, inputs, faults,
    list          \* history: what the list of windows is worth, see ListStates

vars == <<ui, db, inputs, faults, list>>

\* Changing the control point with every panel closed does not touch the list
\* of windows (app.rs:240).  It is then of the former one until it is read
\* again, and a window of the former one stays on screen when that reading
\* fails, or when the mode of the set editor forbids to let the window go
\* (actions_windows.rs:182): "stale", until a reading does replace it.
ListStates == {"read", "former", "stale"}

Windows == Kpz \X Templates
NoTask == [op |-> "none"]
Panels == {"template", "kp_template", "binding", "viewer"}

-----------------------------------------------------------------------------
(* The slot.  A task remembers what it captured when it was spawned.       *)

Task(op, kpz, id) ==
    [op |-> op, kpz |-> kpz, id |-> id, todo |-> {}, at |-> "run", rows |-> {}, ok |-> TRUE]

Busy(u) == u.task # NoTask

Spawn(u, op, id) == [u EXCEPT !.task = Task(op, u.kpz, id)]

Try(u, op, id) == IF Busy(u) THEN u ELSE Spawn(u, op, id)

EditorState ==
    [kpz : Kpz, open : SUBSET Panels, mode : Panels \cup {"none"},
     pend : SUBSET {"bindwins", "windows", "refresh"},
     windows : SUBSET Windows, selWin : Windows \cup {None},
     selTpl : Templates \cup {None}, bindSel : KpTemplates \cup {None},
     bindWins : KpTemplates \cup {None}, link : (Kpz \X KpTemplates) \cup {None},
     layout : Windows \cup Templates \cup {"draft", None},
     live : Windows \cup Templates \cup {"draft", None}]

-----------------------------------------------------------------------------
(* Requests.                                                               *)

ui_link_reload_windows(u) ==
    IF Busy(u) THEN [u EXCEPT !.pend = @ \cup {"windows"}]
               ELSE Spawn([u EXCEPT !.pend = @ \ {"windows"}], "windows", None)

\* Mutant: a refresh asked for while a task runs is lost like other requests.
RefreshForgotten(u) ==
    IF Busy(u) THEN u
    ELSE ui_link_reload_windows(
            [u EXCEPT !.pend = @ \ {"refresh"}, !.selWin = None, !.windows = {},
                      !.layout = None, !.link = None, !.bindWins = None])

refresh_ui_link_for_selected_kpz(u) ==
    IF Busy(u) THEN [u EXCEPT !.pend = @ \cup {"refresh"}]
    ELSE ui_link_reload_windows(
            [u EXCEPT !.pend = @ \ {"refresh"}, !.selWin = None, !.windows = {},
                      !.layout = None, !.link = None, !.bindWins = None])

ui_link_reload_kp_binding_template_windows(u) ==
    IF Busy(u) THEN [u EXCEPT !.pend = @ \cup {"bindwins"}]
    ELSE IF u.bindSel = None THEN [u EXCEPT !.bindWins = None, !.pend = @ \ {"bindwins"}]
    ELSE Spawn([u EXCEPT !.pend = @ \ {"bindwins"}], "bindwins", u.bindSel)

\* Mutant: the values read for the last window stay.
LoadKeepsValues(u, w) ==
    IF u.mode \in {"template", "kp_template"} \/ Busy(u) THEN u
    ELSE LET v == [u EXCEPT !.selWin = w, !.layout = None]
         IN IF w = None THEN v ELSE Spawn(v, "load_win", w)

ui_link_load_window(u, w) ==
    IF u.mode \in {"template", "kp_template"} \/ Busy(u) THEN u
    ELSE LET v == [u EXCEPT !.selWin = w, !.layout = None, !.live = None]
         IN IF w = None THEN v ELSE Spawn(v, "load_win", w)

\* Mutant: the old template's rows stay on screen while the new one is loaded.
LoadKeepsRows(u, t) ==
    IF Busy(u) THEN u ELSE Spawn([u EXCEPT !.selTpl = t, !.live = None], "load_tpl", t)

ui_link_load_template(u, t) ==
    IF Busy(u) THEN u
    ELSE Spawn([u EXCEPT !.selTpl = t, !.layout = None, !.live = None], "load_tpl", t)

ui_link_select_template(u, t) ==
    LET v == [u EXCEPT !.selTpl = t]
    IN IF u.mode # "template" THEN v
       ELSE IF t = None THEN [v EXCEPT !.layout = None] ELSE ui_link_load_template(v, t)

ui_link_select_kp_binding_template(u, p) ==
    ui_link_reload_kp_binding_template_windows([u EXCEPT !.bindSel = p, !.bindWins = None])

(* Save all, and Save template for template t (its own id or a new code). *)
SaveTemplate(u, t) ==
    IF Busy(u) THEN u ELSE [Spawn(u, "save_tpl", t) EXCEPT !.task.rows = {u.layout} \ {None}]

clear_for_new_window(u) ==
    [u EXCEPT !.selWin = None, !.bindSel = None, !.bindWins = None, !.layout = None,
              !.live = None, !.open = @ \ {"viewer"}]

-----------------------------------------------------------------------------
(* Results (poll_io_task_events): u is the editor with the slot empty.     *)

WindowsLoaded(u, r) ==
    LET first == CHOOSE w \in r.rows : TRUE
        listed == [u EXCEPT !.windows = r.rows]
        shown == IF "viewer" \in u.open /\ u.selWin = None /\ r.rows # {}
                 THEN ui_link_load_window(listed, first) ELSE listed
        kept == IF shown.selWin # None /\ shown.selWin \notin r.rows
                THEN ui_link_load_window(shown, None) ELSE shown
        tpls == IF u.open # {} THEN Try(kept, "templates", None) ELSE kept
    IN IF "binding" \in u.open THEN Try(tpls, "klink", None) ELSE tpls

TemplatesLoaded(u) ==
    IF u.open # {} /\ u.mode # "kp_template" THEN Try(u, "links", None) ELSE u

LinksLoaded(u) ==
    IF "binding" \in u.open THEN Try(u, "kptpls", None) ELSE u

KpTemplatesLoaded(u) ==
    IF "binding" \in u.open THEN Try(u, "klink", None) ELSE u

(* Reads, apply and unlink all answer with the link of a control point.    *)
KpLinkLoaded(u, r) ==
    LET reload == r.op \in {"apply", "unlink"}
        row == IF r.rows = {} THEN None ELSE <<r.kpz, CHOOSE p \in r.rows : TRUE>>
        linked == [u EXCEPT !.link = row, !.bindSel = IF row = None THEN None ELSE row[2]]
        chosen == CASE row = None ->
                         [linked EXCEPT !.bindWins = None, !.pend = @ \ {"bindwins"}]
                    [] row # None /\ "binding" \in u.open ->
                         ui_link_reload_kp_binding_template_windows(
                            IF reload THEN [linked EXCEPT !.pend = @ \cup {"windows"}] ELSE linked)
                    [] OTHER -> linked
    IN IF reload /\ "binding" \notin u.open THEN ui_link_reload_windows(chosen) ELSE chosen

Loaded(u, r) ==
    IF ~r.ok THEN u ELSE
    CASE r.op = "windows" -> WindowsLoaded(u, r)
      [] r.op = "templates" -> TemplatesLoaded(u)
      [] r.op = "links" -> LinksLoaded(u)
      [] r.op = "kptpls" -> KpTemplatesLoaded(u)
      [] r.op \in {"klink", "apply", "unlink"} -> KpLinkLoaded(u, r)
      [] r.op = "bindwins" -> [u EXCEPT !.bindWins = r.id]
      [] r.op = "load_win" -> Try([u EXCEPT !.selWin = r.id, !.layout = r.id], "regs", None)
      [] r.op \in {"load_tpl", "save_tpl"} ->
            Try([u EXCEPT !.selTpl = r.id, !.layout = IF r.rows = {} THEN @ ELSE r.id],
                "regs", None)
      [] r.op = "command" -> [u EXCEPT !.live = r.id]
      [] OTHER -> u                               \* regs

\* Mutant: the flag of the refresh is not looked at.
ServedButRefresh(u) ==
    IF Busy(u) THEN u ELSE
    CASE "bindwins" \in u.pend ->
            ui_link_reload_kp_binding_template_windows([u EXCEPT !.pend = @ \ {"bindwins"}])
      [] "bindwins" \notin u.pend /\ "windows" \in u.pend ->
            ui_link_reload_windows([u EXCEPT !.pend = @ \ {"windows"}])
      [] OTHER -> u

(* With the slot still empty one flag is served, in this order.            *)
Served(u) ==
    IF Busy(u) THEN u ELSE
    CASE "bindwins" \in u.pend ->
            ui_link_reload_kp_binding_template_windows([u EXCEPT !.pend = @ \ {"bindwins"}])
      [] "bindwins" \notin u.pend /\ "windows" \in u.pend ->
            ui_link_reload_windows([u EXCEPT !.pend = @ \ {"windows"}])
      [] u.pend = {"refresh"} -> refresh_ui_link_for_selected_kpz(u)
      [] OTHER -> u

-----------------------------------------------------------------------------
(* The background thread: its statements one by one; rows are what it has  *)
(* read, todo the windows apply has still to create.                       *)

Init ==
    /\ \E k \in Kpz, p \in KpTemplates :
          db = [klink |-> [x \in Kpz |-> IF x = k THEN p ELSE None],
                win |-> [x \in Kpz |-> IF x = k THEN Rows[p] ELSE {}],
                stored |-> [t \in UNION Range(Rows) |-> t]]
    /\ \E k \in Kpz :
          ui = [kpz |-> k, open |-> {}, mode |-> "none", task |-> NoTask, pend |-> {},
                windows |-> {}, selWin |-> None, selTpl |-> None, bindSel |-> None,
                bindWins |-> None, link |-> None, layout |-> None, live |-> None]
    /\ inputs = 0
    /\ faults = 0
    /\ list = "read"

Running(op) == ui.task.op = op /\ ui.task.at # "done"

WindowsOf(k) == {k} \X db.win[k]

LinkOf(k) == {db.klink[k]} \ {None}

SetLink(k, p) == db' = [db EXCEPT !.klink[k] = p]

CreateWindow(k, t) == db' = [db EXCEPT !.win[k] = @ \cup {t}]

DeleteWindows(k) == db' = [db EXCEPT !.win[k] = {}]

StoreRows(t, from) ==
    db' = [db EXCEPT !.stored =
              [x \in {t} \cup DOMAIN @ |-> IF x = t THEN from ELSE db.stored[x]]]

Finish(rows) == ui' = [ui EXCEPT !.task.at = "done", !.task.rows = rows]

(* Every task that only reads, and the exchange with a device.             *)
TaskReads ==
    LET k == ui.task.kpz
    IN /\ \/ Running("windows") /\ Finish(WindowsOf(k))
          \/ Running("klink") /\ Finish(LinkOf(k))
          \/ \E op \in {"templates", "links", "kptpls", "bindwins", "regs", "command"} :
                Running(op) /\ Finish({})
          \/ \E op \in {"load_win", "load_tpl"} : Running(op) /\ Finish({ui.task.id})
       /\ UNCHANGED <<db, inputs, faults, list>>

(* save_ui_template_bindings and ..._text_items: the rows are replaced.    *)
TaskSaves ==
    /\ Running("save_tpl")
    /\ LET t == ui.task.id
           new == t \notin DOMAIN db.stored
           own == CASE ui.task.rows = {} -> None
                    [] ui.task.rows = {"draft"} /\ new -> t
                    [] OTHER -> CHOOSE x \in ui.task.rows : TRUE
       IN StoreRows(t, own)
    /\ ui' = [ui EXCEPT !.task.at = "done"]
    /\ UNCHANGED <<inputs, faults, list>>

\* Mutant: the windows are created without a look at those there are.
ApplyAgain ==
    /\ Running("apply")
    /\ LET k == ui.task.kpz
           p == ui.task.id
       IN CASE ui.task.at = "run" ->
                 /\ SetLink(k, p)
                 /\ ui' = [ui EXCEPT !.task.at = "create", !.task.todo = Rows[p]]
            [] ui.task.at = "create" /\ ui.task.todo # {} ->
                 \E c \in ui.task.todo :
                    /\ CreateWindow(k, c)
                    /\ ui' = [ui EXCEPT !.task.todo = @ \ {c}]
            [] OTHER -> Finish(LinkOf(k)) /\ UNCHANGED db
    /\ UNCHANGED <<inputs, faults, list>>

TaskApplies ==
    /\ Running("apply")
    /\ LET k == ui.task.kpz
           p == ui.task.id
       IN CASE ui.task.at = "run" ->        \* set_ui_kpz_kp_template_link
                 /\ SetLink(k, p)
                 /\ ui' = [ui EXCEPT !.task.at = "linked"]
            [] ui.task.at = "linked" ->     \* any windows yet?
                 /\ ui' = [ui EXCEPT !.task.at = "create",
                                     !.task.todo = IF db.win[k] = {} THEN Rows[p] ELSE {}]
                 /\ UNCHANGED db
            [] ui.task.at = "create" /\ ui.task.todo # {} ->
                 \E c \in ui.task.todo :
                    /\ CreateWindow(k, c)
                    /\ ui' = [ui EXCEPT !.task.todo = @ \ {c}]
            [] OTHER -> Finish(LinkOf(k)) /\ UNCHANGED db
    /\ UNCHANGED <<inputs, faults, list>>

TaskUnlinks ==
    /\ Running("unlink")
    /\ LET k == ui.task.kpz
       IN CASE ui.task.at = "run" ->        \* clear_ui_kpz_kp_template_link
                 /\ SetLink(k, None)
                 /\ ui' = [ui EXCEPT !.task.at = "cleared"]
            [] OTHER ->                     \* delete_ui_kpz_windows_by_kpz
                 DeleteWindows(k) /\ Finish({})
    /\ UNCHANGED <<inputs, faults, list>>

(* A statement fails: what the earlier ones did stays.                     *)
TaskFails ==
    /\ faults < MaxFaults
    /\ ui.task.op \in Failing /\ ui.task.at # "done"
    /\ ui' = [ui EXCEPT !.task.at = "done", !.task.ok = FALSE]
    /\ faults' = faults + 1
    /\ UNCHANGED <<db, inputs, list>>

Thread == TaskReads \/ TaskSaves \/ TaskApplies \/ TaskUnlinks

(* A frame finds the answer.                                               *)
PollTask ==
    /\ Busy(ui) /\ ui.task.at = "done"
    /\ ui' = Served(Loaded([ui EXCEPT !.task = NoTask], ui.task))
    /\ list' = CASE ui.task.op # "windows" \/ ui.task.kpz # ui.kpz \/ list = "read" -> list
                 [] ui.task.op = "windows" /\ ui.task.kpz = ui.kpz /\ list # "read" ->
                       IF ui.task.ok /\ ui'.selWin \in ui'.windows \cup {None}
                       THEN "read" ELSE "stale"
    /\ UNCHANGED <<db, inputs, faults>>

-----------------------------------------------------------------------------
(* The user.  Slips:                                                       *)
(*   "busy"   chooses a template, <none> in the binding panel or New       *)
(*            template while a task runs (UI_LINK_EDITOR.md:78);           *)
(*   "mixed"  opens the template editor over a window in the viewer, also  *)
(*            if its layout could not be loaded, or the viewer after the   *)
(*            template editor has been used;                               *)
(*   "empty"  presses Save all with nothing on screen;                     *)
(*   "code"   saves a draft under a code in use;                           *)
(*   "new"    draws straight after New template (UI_LINK_EDITOR.md:47).    *)

Waits == Busy(ui) => "busy" \in Slips

(* show_ui_link_editor forces the mode while the template panel is open.   *)
Shown(u) == IF "template" \in u.open THEN [u EXCEPT !.mode = "template"] ELSE u

Press(u) ==
    /\ inputs < MaxInputs
    /\ inputs' = inputs + 1
    /\ ui' = Shown(u)
    /\ UNCHANGED <<db, faults>>

Click(u) == Press(u) /\ UNCHANGED list

\* With every panel closed nothing is read again.
SelectKpz(k) ==
    /\ k # ui.kpz
    /\ LET u == [ui EXCEPT !.kpz = k]
       IN \/ u.open # {} /\ Click(refresh_ui_link_for_selected_kpz(u))
          \/ u.open = {} /\ Press(u) /\ list' = IF list = "stale" THEN list ELSE "former"

OpenPanel(panel) ==
    LET u == [ui EXCEPT !.open = @ \cup {panel}, !.mode = IF panel = "viewer" THEN @ ELSE panel]
    IN CASE panel = "template" ->
              /\ \/ "mixed" \in Slips
                 \/ /\ ui.layout = ui.selTpl /\ ui.task.op # "load_win"
                    /\ "viewer" \in ui.open => ui.selWin = None
              /\ Click(Try(u, "templates", None))
         [] panel = "viewer" ->
              /\ "mixed" \in Slips \/ (ui.mode \notin {"template", "kp_template"} /\ ui.selTpl = None)
              /\ Click(ui_link_reload_windows([u EXCEPT !.selWin = None, !.layout = None,
                                                          !.live = None]))
         [] OTHER -> Click(Try(u, "kptpls", None))

ClosePanel(panel) ==
    /\ panel \in ui.open
    /\ Click([ui EXCEPT !.open = @ \ {panel}])

ReloadWindows ==
    /\ "viewer" \in ui.open
    /\ Click(ui_link_reload_windows(ui))

SelectWindow(w) ==
    /\ "viewer" \in ui.open /\ w \in ui.windows /\ w # ui.selWin
    /\ Click(ui_link_load_window(ui, w))

SelectTemplate(t) ==
    /\ "template" \in ui.open /\ t # ui.selTpl /\ Waits
    /\ t \in DOMAIN db.stored \cup {None}
    /\ Click(ui_link_select_template(ui, t))

EditLayout ==
    /\ "template" \in ui.open /\ ui.layout = None
    /\ ui.selTpl = None \/ "new" \in Slips
    /\ Click([ui EXCEPT !.layout = "draft"])

SaveAll ==
    /\ "template" \in ui.open /\ ui.selTpl # None /\ Waits
    /\ ui.layout # None \/ "empty" \in Slips
    /\ Click(SaveTemplate(ui, ui.selTpl))

SaveNewTemplate(t) ==
    /\ "template" \in ui.open /\ ui.selTpl = None /\ ui.layout = "draft"
    /\ "code" \in Slips \/ t \notin DOMAIN db.stored
    /\ Click(SaveTemplate(ui, t))

NewTemplate ==
    /\ "template" \in ui.open /\ Waits
    /\ Click(clear_for_new_window(ui))

SelectBinding(p) ==
    /\ "binding" \in ui.open /\ p # ui.bindSel
    /\ p = None => Waits
    /\ Click(ui_link_select_kp_binding_template(ui, p))

Apply ==
    /\ "binding" \in ui.open /\ ui.bindSel # None
    /\ Click(Try(ui, "apply", ui.bindSel))

Unlink ==
    /\ "binding" \in ui.open
    /\ Click(Try(ui, "unlink", None))

(* Poll now, a switched output or a written value of the layout shown.     *)
Command ==
    /\ ("viewer" \in ui.open /\ ui.selWin # None) \/ "template" \in ui.open
    /\ ui.layout # None
    /\ ~Busy(ui)
    /\ Click(Spawn(ui, "command", ui.layout))

User ==
    \/ \E k \in Kpz : SelectKpz(k)
    \/ \E panel \in Panels : OpenPanel(panel) \/ ClosePanel(panel)
    \/ ReloadWindows
    \/ \E w \in ui.windows : SelectWindow(w)
    \/ \E t \in Templates \cup {None} : SelectTemplate(t)
    \/ EditLayout \/ SaveAll \/ NewTemplate
    \/ \E t \in Templates : SaveNewTemplate(t)
    \/ \E p \in KpTemplates \cup {None} : SelectBinding(p)
    \/ Apply \/ Unlink \/ Command

Next == Thread \/ TaskFails \/ PollTask \/ User

(* A thread ends (its requests time out) and frames go on being drawn.     *)
Spec == Init /\ [][Next]_vars /\ WF_vars(Thread) /\ WF_vars(PollTask)

-----------------------------------------------------------------------------
(* A command goes to the control point whose window is on screen, though   *)
(* it takes the address from the window and the modem from the selection   *)
(* (actions_io.rs:113-119, 492), which change at different moments.  The   *)
(* exception: the control point was changed with every panel closed and a  *)
(* reading of its windows failed to replace those of the former one, which *)
(* can then still be chosen.  Holds with the types of the state.           *)
CommandsReachShownKpz ==
    /\ [f \in DOMAIN ui \ {"task"} |-> ui[f]] \in EditorState /\ list \in ListStates
    /\ ui.task.op = "command" /\ ui.task.id \in Windows /\ list # "stale" =>
          ui.task.id[1] = ui.task.kpz

(* The screen belongs to the selection.  The values the viewer shows were  *)
(* read for the window it shows: answers come late, and only loading or    *)
(* opening clears them (background.rs:221, 240, 251).  When no task runs   *)
(* the list of windows is of the selected control point: a list read for   *)
(* another one is never the last word.  The exception: after a change with *)
(* every panel closed the binding panel shows the former list              *)
(* (window_link_editor.rs:3703) until the viewer has read it, and longer   *)
(* when that fails (app.rs:240, actions_kp_templates.rs:22).               *)
ShownIsSelected ==
    /\ "viewer" \in ui.open /\ ui.selWin # None /\ ui.layout # None =>
          ui.layout = ui.selWin /\ ui.live \in {None, ui.selWin}
    /\ ~Busy(ui) /\ (list = "read" \/ (list = "former" /\ "viewer" \in ui.open)) =>
          ui.windows \subseteq {ui.kpz} \X Templates

(* What is stored fits together.  The rows stored for a template were      *)
(* loaded from it or drawn for it (actions_templates.rs:499-530 stores     *)
(* whatever is on screen).  The windows of a control point come from one   *)
(* set: applying again, or another set, adds none                          *)
(* (window_link_editor.rs:3642, 3683).                                     *)
StoresItsOwn ==
    /\ \A t \in DOMAIN db.stored : db.stored[t] = t
    /\ \A k \in Kpz : \E p \in KpTemplates : db.win[k] \subseteq Rows[p]

(* A refresh put off because a task runs is served in the end              *)
(* (background.rs:650-660).                                                *)
RefreshServed == "refresh" \in ui.pend ~> "refresh" \notin ui.pend
=============================================================================
