------------------------- MODULE ConfiguratorProofs -------------------------
(***************************************************************************)
(* Theorems about Configurator for any control points, templates and sets, *)
(* any tasks that may fail and any number of clicks, of a user without     *)
(* slips: commands go where the screen says, what is shown is what is      *)
(* selected, and what is stored fits together.                             *)
(*                                                                         *)
(* From "Ranks" on, about LayoutEditor, for any templates, looks and       *)
(* registers and any number of rows and clicks: the mutes in use are those *)
(* Save all stores, and no edit is left unmarked or lost by a save.        *)
(*                                                                         *)
(* From "Lists in an order" on, about LivePoll, for any registers, any     *)
(* limits and any losses: a reading is right from the plan to the screen.  *)
(***************************************************************************)
EXTENDS Configurator, LayoutEditor, LivePoll, FiniteSetTheorems, WellFoundedInduction, TLAPS

-----------------------------------------------------------------------------
(* The inductive invariant *)

Ops    == {"windows", "templates", "links", "kptpls", "klink", "apply", "unlink", "bindwins",
           "load_win", "load_tpl", "save_tpl", "regs", "command"}
Things == Windows \cup Templates \cup KpTemplates \cup {"draft"}

TaskType ==
  [op : Ops, kpz : Kpz, id : Things \cup {None}, todo : SUBSET Templates,
   at : {"run", "linked", "create", "cleared", "done"}, rows : SUBSET Things, ok : BOOLEAN]

UiType ==
  [kpz : Kpz, open : SUBSET Panels, mode : Panels \cup {"none"}, task : TaskType \cup {NoTask},
   pend : SUBSET {"bindwins", "windows", "refresh"},
   windows : SUBSET Windows, selWin : Windows \cup {None},
   selTpl : Templates \cup {None}, bindSel : KpTemplates \cup {None},
   bindWins : KpTemplates \cup {None}, link : (Kpz \X KpTemplates) \cup {None},
   layout : Windows \cup Templates \cup {"draft", None},
   live : Windows \cup Templates \cup {"draft", None}]

\* Another control point has been selected and what is shown waits to be replaced;
\* l says what the list of windows is worth.
Moved(l, u) == l # "read" \/ "refresh" \in u.pend

\* Where the viewer is open the windows of the control point are on their way.
Coming(u) == {"windows", "refresh"} \cap u.pend # {} \/ (u.task.op = "windows" /\ u.task.kpz = u.kpz)

ComingOK(l, u) == l = "former" /\ "viewer" \in u.open => Coming(u)

OfKpz(u, w) == w \in Windows => w[1] = u.kpz

\* A window in the viewer is not covered by anything else.
Viewed(u) == "viewer" \in u.open /\ u.selWin # None

ViewerOK(u) == Viewed(u) => u.layout \in {None, u.selWin} /\ u.live \in {None, u.selWin}

\* The template editor has the screen for itself, with the rows of its template.
TemplateOK(u) ==
  "template" \in u.open =>
    /\ u.mode = "template" /\ ~Viewed(u)
    /\ u.layout \in {u.selTpl, None} \/ (u.selTpl = None /\ u.layout = "draft")

KpzOK(l, u) == Moved(l, u) \/ (u.windows \subseteq {u.kpz} \X Templates /\ OfKpz(u, u.selWin))

ScreenOK(l, u) ==
  /\ u \in UiType
  /\ "bindwins" \in u.pend => u.bindSel # None
  /\ ViewerOK(u) /\ TemplateOK(u) /\ KpzOK(l, u)

\* What a task was asked for still goes with the screen.
AskedOK(l, u, op, kpz, id) ==
  /\ Moved(l, u) \/ kpz = u.kpz
  /\ op = "load_win" => /\ id \in Windows /\ u.live = None /\ "template" \notin u.open
                        /\ Moved(l, u) \/ OfKpz(u, id)
  /\ op \in {"load_tpl", "save_tpl"} => id \in Templates /\ ~Viewed(u)
  /\ op = "command" => /\ id \in Windows \cup Templates \cup {"draft"}
                       /\ l # "stale" /\ id \in Windows => id[1] = kpz
                       /\ Viewed(u) => id = u.selWin
  /\ op \in {"apply", "bindwins"} => id \in KpTemplates

\* What a task has found.
FoundOK(r) ==
  /\ r.op = "windows" => r.rows \subseteq {r.kpz} \X Templates
  /\ r.op \in {"klink", "apply", "unlink"} => r.rows \subseteq KpTemplates
  /\ r.op = "load_tpl" /\ r.at = "done" /\ r.ok => r.rows # {}
  /\ r.op = "save_tpl" => r.rows \in {{r.id}, {"draft"}}

TaskOK(l, u, r) == r \in TaskType /\ AskedOK(l, u, r.op, r.kpz, r.id) /\ FoundOK(r)

UiOK(l, u) == ScreenOK(l, u) /\ (Busy(u) => TaskOK(l, u, u.task)) /\ ComingOK(l, u)

\* Who creates windows found none; who saves a draft found no template of the name.
DbOK ==
  /\ db.klink \in [Kpz -> KpTemplates \cup {None}] /\ db.win \in [Kpz -> SUBSET Templates]
  /\ DOMAIN db.stored \subseteq Templates
  /\ db = [klink |-> db.klink, win |-> db.win, stored |-> db.stored]
  /\ StoresItsOwn
  /\ ui.task.op = "apply" /\ ui.task.todo # {} =>
       db.win[ui.task.kpz] \cup ui.task.todo \subseteq Rows[ui.task.id]
  /\ ui.task.op = "save_tpl" /\ ui.task.rows = {"draft"} /\ ui.task.at # "done" =>
       ui.task.id \notin DOMAIN db.stored

IInv == list \in ListStates /\ UiOK(list, ui) /\ (~Busy(ui) => ui.pend = {}) /\ DbOK

-----------------------------------------------------------------------------
(* Tasks *)

LEMMA NoTaskIs == NoTask.op = "none" /\ NoTask.op \notin Ops /\ NoTask \notin TaskType
BY DEF NoTask, TaskType, Ops

LEMMA TaskIs ==
  ASSUME NEW op \in Ops, NEW k \in Kpz, NEW id \in Things \cup {None}
  PROVE  /\ Task(op, k, id) \in TaskType /\ Task(op, k, id) # NoTask
         /\ Task(op, k, id).op = op /\ Task(op, k, id).kpz = k /\ Task(op, k, id).id = id
         /\ Task(op, k, id).rows = {} /\ Task(op, k, id).todo = {} /\ Task(op, k, id).at = "run"
<1>1. Task(op, k, id) \in TaskType  BY DEF Task, TaskType
<1> QED BY <1>1, NoTaskIs DEF Task

\* The types of the screen are what CommandsReachShownKpz says of them.
LEMMA ScreenType ==
  ASSUME NEW u \in UiType
  PROVE  [f \in DOMAIN u \ {"task"} |-> u[f]] \in EditorState
<1> DEFINE r == [kpz |-> u.kpz, open |-> u.open, mode |-> u.mode, pend |-> u.pend,
                 windows |-> u.windows, selWin |-> u.selWin, selTpl |-> u.selTpl,
                 bindSel |-> u.bindSel, bindWins |-> u.bindWins, link |-> u.link,
                 layout |-> u.layout, live |-> u.live]
<1>1. r \in EditorState  BY DEF UiType, EditorState
<1>2. DOMAIN u = {"kpz", "open", "mode", "task", "pend", "windows", "selWin", "selTpl", "bindSel",
                  "bindWins", "link", "layout", "live"}
  BY DEF UiType
<1>3. [f \in DOMAIN u \ {"task"} |-> u[f]] = r
  BY <1>2
<1> QED BY <1>1, <1>3

LEMMA InitOK == Init => IInv
<1> SUFFICES ASSUME Init PROVE IInv  OBVIOUS
<1>1. /\ ui \in UiType /\ ui.task = NoTask /\ ui.open = {} /\ ui.pend = {} /\ ui.windows = {}
      /\ ui.selWin = None /\ list = "read"
  BY DEF Init, UiType
<1>2. ScreenOK(list, ui)
  BY <1>1, NamesAssumption DEF ScreenOK, ViewerOK, Viewed, TemplateOK, KpzOK, OfKpz, Windows
<1>3. DbOK
  <2>1. PICK k \in Kpz, p \in KpTemplates :
          db = [klink |-> [x \in Kpz |-> IF x = k THEN p ELSE None],
                win |-> [x \in Kpz |-> IF x = k THEN Rows[p] ELSE {}],
                stored |-> [t \in UNION Range(Rows) |-> t]]
    BY DEF Init
  <2>2. UNION Range(Rows) \subseteq Templates  BY RowsAssumption DEF Range
  <2>3. Rows[p] \subseteq Templates  BY RowsAssumption
  <2>4. StoresItsOwn  BY <2>1 DEF StoresItsOwn
  <2>5. ui.task.op = "none"  BY <1>1, NoTaskIs
  <2> QED BY <2>1, <2>2, <2>3, <2>4, <2>5 DEF DbOK
<1> QED BY <1>1, <1>2, <1>3 DEF IInv, UiOK, ComingOK, ListStates, Busy

-----------------------------------------------------------------------------
(* Requests *)

\* What a click or a result may start.
Startable(l, u, op, id) == op \in Ops \ {"save_tpl"} /\ id \in Things \cup {None} /\ AskedOK(l, u, op, u.kpz, id)

LEMMA SpawnOK ==
  ASSUME NEW l, NEW u, ScreenOK(l, u), ~Busy(u), NEW op, NEW id, Startable(l, u, op, id),
         op = "windows" \/ ComingOK(l, u)
  PROVE  UiOK(l, Spawn(u, op, id)) /\ Busy(Spawn(u, op, id))
<1> DEFINE v == Spawn(u, op, id)
<1>1. u.kpz \in Kpz /\ u \in UiType  BY DEF ScreenOK, UiType
<1>2. Task(op, u.kpz, id) \in TaskType /\ Task(op, u.kpz, id) # NoTask
  BY <1>1, TaskIs DEF Startable
<1>3. v \in UiType /\ v = [u EXCEPT !.task = Task(op, u.kpz, id)]  BY <1>1, <1>2 DEF UiType, Spawn
<1>4. v.task = Task(op, u.kpz, id)  BY <1>1, <1>3 DEF UiType
<1>5. /\ v.kpz = u.kpz /\ v.open = u.open /\ v.mode = u.mode /\ v.pend = u.pend
      /\ v.windows = u.windows /\ v.selWin = u.selWin /\ v.selTpl = u.selTpl
      /\ v.bindSel = u.bindSel /\ v.layout = u.layout /\ v.live = u.live
  BY <1>1, <1>3 DEF UiType
<1>6. ScreenOK(l, v)
  BY <1>3, <1>5 DEF ScreenOK, ViewerOK, Viewed, TemplateOK, KpzOK, OfKpz, Moved
<1>7. AskedOK(l, v, op, u.kpz, id)
  BY <1>5 DEF Startable, AskedOK, Viewed, OfKpz, Moved
<1>8. FoundOK(v.task)
  BY <1>1, <1>4, TaskIs DEF Startable, FoundOK
<1>9. v.task.op = op /\ v.task.kpz = u.kpz /\ v.task.id = id
  BY <1>1, <1>4, TaskIs DEF Startable
<1>10. ComingOK(l, v)
  <2>1. u.task.op # "windows"  BY NoTaskIs DEF Busy, Ops
  <2> QED BY <1>5, <1>9, <2>1 DEF ComingOK, Coming
<1> QED BY <1>2, <1>4, <1>6, <1>7, <1>8, <1>9, <1>10 DEF UiOK, TaskOK, Busy

LEMMA TryOK ==
  ASSUME NEW l, NEW u, UiOK(l, u), NEW op, NEW id, ~Busy(u) => Startable(l, u, op, id)
  PROVE  UiOK(l, Try(u, op, id)) /\ Busy(Try(u, op, id))
<1>1. CASE Busy(u)  BY <1>1 DEF Try
<1>2. CASE ~Busy(u)  BY <1>2, SpawnOK DEF Try, UiOK, ComingOK, Coming
<1> QED BY <1>1, <1>2

\* The tasks that only fill lists can be started at any time.
LEMMA ListsStartable ==
  ASSUME NEW l, NEW u, ScreenOK(l, u), NEW op \in {"windows", "templates", "links", "kptpls", "klink", "regs", "unlink"}
  PROVE  Startable(l, u, op, None)
BY DEF Startable, Ops, AskedOK

LEMMA ReloadWindowsOK ==
  ASSUME NEW l, NEW u, ScreenOK(l, u), Busy(u) => TaskOK(l, u, u.task)
  PROVE  UiOK(l, ui_link_reload_windows(u)) /\ Busy(ui_link_reload_windows(u))
<1>1. CASE Busy(u)
  <2> DEFINE v == [u EXCEPT !.pend = @ \cup {"windows"}]
  <2>1. /\ v.kpz = u.kpz /\ v.open = u.open /\ v.mode = u.mode /\ v.pend = u.pend \cup {"windows"}
        /\ v.windows = u.windows /\ v.selWin = u.selWin /\ v.selTpl = u.selTpl
        /\ v.bindSel = u.bindSel /\ v.layout = u.layout /\ v.live = u.live /\ v.task = u.task
        /\ v \in UiType
    BY DEF UiOK, ComingOK, Coming, ScreenOK, UiType
  <2>2. ScreenOK(l, v)
    BY <2>1 DEF UiOK, ComingOK, Coming, ScreenOK, ViewerOK, Viewed, TemplateOK, KpzOK, OfKpz, Moved
  <2>3. TaskOK(l, v, v.task)
    BY <1>1, <2>1 DEF UiOK, ComingOK, Coming, TaskOK, AskedOK, Viewed, OfKpz, Moved
  <2>4. ui_link_reload_windows(u) = v  BY <1>1 DEF ui_link_reload_windows
  <2> QED BY <1>1, <2>1, <2>2, <2>3, <2>4 DEF UiOK, ComingOK, Coming, Busy
<1>2. CASE ~Busy(u)
  <2> DEFINE v == [u EXCEPT !.pend = @ \ {"windows"}]
  <2>1. /\ v.kpz = u.kpz /\ v.open = u.open /\ v.mode = u.mode /\ v.pend = u.pend \ {"windows"}
        /\ v.windows = u.windows /\ v.selWin = u.selWin /\ v.selTpl = u.selTpl
        /\ v.bindSel = u.bindSel /\ v.layout = u.layout /\ v.live = u.live /\ v.task = u.task
        /\ v \in UiType
    BY DEF ScreenOK, UiType
  <2>2. ScreenOK(l, v)
    BY <2>1 DEF UiOK, ComingOK, Coming, ScreenOK, ViewerOK, Viewed, TemplateOK, KpzOK, OfKpz, Moved
  <2>3. ui_link_reload_windows(u) = Spawn(v, "windows", None)  BY <1>2 DEF ui_link_reload_windows
  <2>4. ~Busy(v)  BY <1>2, <2>1 DEF Busy
  <2> HIDE DEF v
  <2> QED BY <2>2, <2>3, <2>4, SpawnOK, ListsStartable
<1> QED BY <1>1, <1>2

\* Everything shown for the control point is cleared; the values stay, unseen.
LEMMA RefreshOK ==
  ASSUME NEW l, NEW u, u \in UiType, "bindwins" \in u.pend => u.bindSel # None,
         TemplateOK(u), ~Busy(u)
  PROVE  /\ UiOK(l, refresh_ui_link_for_selected_kpz(u))
         /\ Busy(refresh_ui_link_for_selected_kpz(u))
<1> DEFINE v == [u EXCEPT !.pend = @ \ {"refresh"}, !.selWin = None, !.windows = {},
                          !.layout = None, !.link = None, !.bindWins = None]
<1>1. /\ v.kpz = u.kpz /\ v.open = u.open /\ v.mode = u.mode /\ v.pend = u.pend \ {"refresh"}
      /\ v.windows = {} /\ v.selWin = None /\ v.selTpl = u.selTpl
      /\ v.bindSel = u.bindSel /\ v.layout = None /\ v.live = u.live /\ v.task = u.task
      /\ v \in UiType
  BY ZenonT(40) DEF UiType
<1>2. ScreenOK(l, v)
  BY <1>1, NamesAssumption DEF ScreenOK, ViewerOK, Viewed, TemplateOK, KpzOK, OfKpz, Moved, Windows
<1>3. ScreenOK(l, v) /\ ~Busy(v)  BY <1>1, <1>2 DEF Busy
<1>4. refresh_ui_link_for_selected_kpz(u) = ui_link_reload_windows(v)
  BY DEF refresh_ui_link_for_selected_kpz
<1> HIDE DEF v
<1> QED BY <1>3, <1>4, ReloadWindowsOK

WithPending(u, q, c) == [u EXCEPT !.pend = q, !.bindWins = c]

LEMMA PendingSet ==
  ASSUME NEW u \in UiType, NEW q \in SUBSET {"bindwins", "windows", "refresh"},
         NEW c \in KpTemplates \cup {None}
  PROVE  LET v == WithPending(u, q, c)
         IN  /\ v.kpz = u.kpz /\ v.open = u.open /\ v.mode = u.mode /\ v.pend = q
             /\ v.windows = u.windows /\ v.selWin = u.selWin /\ v.selTpl = u.selTpl
             /\ v.bindSel = u.bindSel /\ v.layout = u.layout /\ v.live = u.live /\ v.task = u.task
             /\ v \in UiType
<1> DEFINE y == [u EXCEPT !.pend = q]
           v == [y EXCEPT !.bindWins = c]
<1>1. /\ y.kpz = u.kpz /\ y.open = u.open /\ y.mode = u.mode /\ y.pend = q
      /\ y.windows = u.windows /\ y.selWin = u.selWin /\ y.selTpl = u.selTpl
      /\ y.bindSel = u.bindSel /\ y.layout = u.layout /\ y.live = u.live /\ y.task = u.task
      /\ y \in UiType
  BY DEF UiType
<1> HIDE DEF y
<1>2. /\ v.kpz = y.kpz /\ v.open = y.open /\ v.mode = y.mode /\ v.pend = y.pend
      /\ v.windows = y.windows /\ v.selWin = y.selWin /\ v.selTpl = y.selTpl
      /\ v.bindSel = y.bindSel /\ v.layout = y.layout /\ v.live = y.live /\ v.task = y.task
      /\ v \in UiType
  BY <1>1 DEF UiType
<1>3. WithPending(u, q, c) = v  BY DEF WithPending, y
<1> HIDE DEF v
<1> QED BY <1>1, <1>2, <1>3

LEMMA ReloadBindingOK ==
  ASSUME NEW l, NEW u, UiOK(l, u), Busy(u) => u.bindSel # None
  PROVE  /\ UiOK(l, ui_link_reload_kp_binding_template_windows(u))
         /\ Busy(u) \/ u.bindSel # None => Busy(ui_link_reload_kp_binding_template_windows(u))
<1> DEFINE p == IF Busy(u) THEN u.pend \cup {"bindwins"} ELSE u.pend \ {"bindwins"}
           b == IF Busy(u) \/ u.bindSel # None THEN u.bindWins ELSE None
           v == [u EXCEPT !.pend = p, !.bindWins = b]
           w == ui_link_reload_kp_binding_template_windows(u)
<1>1. u \in UiType  BY DEF UiOK, ComingOK, Coming, ScreenOK
<1>2. p \in SUBSET {"bindwins", "windows", "refresh"} /\ b \in KpTemplates \cup {None}
  BY <1>1 DEF UiType
<1>3. /\ "refresh" \in u.pend <=> "refresh" \in p
      /\ {"windows", "refresh"} \cap u.pend = {"windows", "refresh"} \cap p
  BY <1>1 DEF UiType
<1>4. w = IF Busy(u) \/ u.bindSel = None THEN v ELSE Spawn(v, "bindwins", u.bindSel)
  <2>1. CASE Busy(u)
    <3>1. v = [u EXCEPT !.pend = @ \cup {"bindwins"}]  BY <1>1, <2>1 DEF UiType
    <3> QED BY <2>1, <3>1 DEF ui_link_reload_kp_binding_template_windows
  <2>2. CASE ~Busy(u) /\ u.bindSel = None
    <3>1. v = [u EXCEPT !.bindWins = None, !.pend = @ \ {"bindwins"}]  BY <1>1, <2>2 DEF UiType
    <3> QED BY <2>2, <3>1 DEF ui_link_reload_kp_binding_template_windows
  <2>3. CASE ~Busy(u) /\ u.bindSel # None
    <3>1. v = [u EXCEPT !.pend = @ \ {"bindwins"}]  BY <1>1, <2>3 DEF UiType
    <3> QED BY <2>3, <3>1 DEF ui_link_reload_kp_binding_template_windows
  <2> QED BY <2>1, <2>2, <2>3
<1>5. "bindwins" \in p => u.bindSel # None  OBVIOUS
<1> HIDE DEF p, b
<1>6. /\ v.kpz = u.kpz /\ v.open = u.open /\ v.mode = u.mode /\ v.pend = p
      /\ v.windows = u.windows /\ v.selWin = u.selWin /\ v.selTpl = u.selTpl
      /\ v.bindSel = u.bindSel /\ v.layout = u.layout /\ v.live = u.live /\ v.task = u.task
      /\ v \in UiType
  <2>1. v = WithPending(u, p, b)  BY DEF WithPending
  <2> HIDE DEF v
  <2> QED BY <1>1, <1>2, <2>1, PendingSet
<1>7. ScreenOK(l, v)
  BY <1>3, <1>5, <1>6 DEF UiOK, ComingOK, Coming, ScreenOK, ViewerOK, Viewed, TemplateOK, KpzOK, OfKpz, Moved
<1>10. ComingOK(l, v)  BY <1>3, <1>6 DEF UiOK, ComingOK, Coming
<1>8. CASE Busy(u) \/ u.bindSel = None
  <2>1. Busy(u) => TaskOK(l, v, v.task)
    BY <1>3, <1>6 DEF UiOK, ComingOK, Coming, TaskOK, AskedOK, Viewed, OfKpz, Moved
  <2>2. Busy(v) <=> Busy(u)  BY <1>6 DEF Busy
  <2> QED BY <1>4, <1>7, <1>8, <1>10, <2>1, <2>2 DEF UiOK
<1>9. CASE ~Busy(u) /\ u.bindSel # None
  <2>1. u.bindSel \in KpTemplates  BY <1>1, <1>9 DEF UiType
  <2>2. Startable(l, v, "bindwins", u.bindSel)  BY <1>6, <2>1 DEF Startable, Ops, Things, AskedOK
  <2>4. ~Busy(v)  BY <1>6, <1>9 DEF Busy
  <2> HIDE DEF v
  <2>3. w = Spawn(v, "bindwins", u.bindSel)  BY <1>4, <1>9
  <2> QED BY <1>7, <1>10, <2>2, <2>3, <2>4, SpawnOK
<1> QED BY <1>8, <1>9

\* A window is loaded only where the template editor is not in front.
LEMMA LoadWindowOK ==
  ASSUME NEW l, NEW u, UiOK(l, u), NEW w \in Windows \cup {None}, w # None => Moved(l, u) \/ w[1] = u.kpz
  PROVE  /\ UiOK(l, ui_link_load_window(u, w))
         /\ Busy(u) => ui_link_load_window(u, w) = u
         /\ ui_link_load_window(u, w).pend = u.pend
         /\ ui_link_load_window(u, w).open = u.open
         /\ ui_link_load_window(u, w).windows = u.windows
         /\ Busy(ui_link_load_window(u, w)) => Busy(u) \/ w # None
<1> DEFINE v == [u EXCEPT !.selWin = w, !.layout = None, !.live = None]
           x == ui_link_load_window(u, w)
<1>1. CASE u.mode \in {"template", "kp_template"} \/ Busy(u)
  BY <1>1 DEF ui_link_load_window
<1>2. CASE ~(u.mode \in {"template", "kp_template"} \/ Busy(u))
  <2>1. /\ v.kpz = u.kpz /\ v.open = u.open /\ v.mode = u.mode /\ v.pend = u.pend
        /\ v.windows = u.windows /\ v.selWin = w /\ v.selTpl = u.selTpl
        /\ v.bindSel = u.bindSel /\ v.layout = None /\ v.live = None /\ v.task = u.task
        /\ v \in UiType
    BY ZenonT(40) DEF UiOK, ComingOK, Coming, ScreenOK, UiType
  <2>2. "template" \notin u.open  BY <1>2 DEF UiOK, ComingOK, Coming, ScreenOK, TemplateOK
  <2>3. ScreenOK(l, v)
    BY <2>1, <2>2, NamesAssumption
    DEF UiOK, ComingOK, Coming, ScreenOK, ViewerOK, Viewed, TemplateOK, KpzOK, OfKpz, Moved, Windows
  <2>4. x = IF w = None THEN v ELSE Spawn(v, "load_win", w)
    BY <1>2 DEF ui_link_load_window
  <2>5. w # None => Startable(l, v, "load_win", w)
    BY <2>1, <2>2 DEF Startable, Ops, Things, AskedOK, OfKpz, Moved
  <2>6. ~Busy(v) /\ ComingOK(l, v)  BY <1>2, <2>1 DEF Busy, UiOK, ComingOK, Coming
  <2>7. UiOK(l, x) /\ (Busy(x) => w # None)
    <3> HIDE DEF v
    <3> QED BY <2>3, <2>4, <2>5, <2>6, SpawnOK DEF UiOK
  <2>8. x.pend = u.pend /\ x.open = u.open /\ x.windows = u.windows
    <3>1. CASE w = None  BY <2>1, <2>4, <3>1
    <3>2. CASE w # None
      <4> HIDE DEF v
      <4>1. x = [v EXCEPT !.task = Task("load_win", v.kpz, w)]  BY <2>4, <3>2 DEF Spawn
      <4> QED BY <2>1, <4>1 DEF UiType
    <3> QED BY <3>1, <3>2
  <2> QED BY <1>2, <2>7, <2>8
<1> QED BY <1>1, <1>2

\* The editor of templates shows the template it loads, or nothing yet.
LEMMA LoadTemplateOK ==
  ASSUME NEW l, NEW u, UiOK(l, u), NEW t \in Templates, ~Viewed(u)
  PROVE  /\ UiOK(l, ui_link_load_template(u, t))
         /\ ~Busy(ui_link_load_template(u, t)) => u.pend = {}
<1>1. CASE Busy(u)  BY <1>1 DEF ui_link_load_template
<1>2. CASE ~Busy(u)
  <2> DEFINE v == [u EXCEPT !.selTpl = t, !.layout = None, !.live = None]
  <2>1. /\ v.kpz = u.kpz /\ v.open = u.open /\ v.mode = u.mode /\ v.pend = u.pend
        /\ v.windows = u.windows /\ v.selWin = u.selWin /\ v.selTpl = t
        /\ v.bindSel = u.bindSel /\ v.layout = None /\ v.live = None /\ v.task = u.task
        /\ v \in UiType
    BY ZenonT(40) DEF UiOK, ComingOK, Coming, ScreenOK, UiType
  <2>2. ScreenOK(l, v)
    BY <2>1, NamesAssumption
    DEF UiOK, ComingOK, Coming, ScreenOK, ViewerOK, Viewed, TemplateOK, KpzOK, OfKpz, Moved, Windows
  <2>3. Startable(l, v, "load_tpl", t)
    BY <2>1 DEF Startable, Ops, Things, AskedOK, Viewed
  <2>4. ui_link_load_template(u, t) = Spawn(v, "load_tpl", t)
    BY <1>2 DEF ui_link_load_template
  <2>5. ~Busy(v) /\ ComingOK(l, v)  BY <1>2, <2>1 DEF Busy, UiOK, ComingOK, Coming
  <2> HIDE DEF v
  <2> QED BY <2>2, <2>3, <2>4, <2>5, SpawnOK
<1> QED BY <1>1, <1>2

-----------------------------------------------------------------------------
(* Results *)

\* The list of windows arrives: a window is shown if none was, or none if its
\* window is gone.
LEMMA WindowsLoadedOK ==
  ASSUME NEW l, NEW u, UiOK(l, u), ~Busy(u), NEW r, TaskOK(l, u, r), r.op = "windows"
  PROVE  UiOK(l, WindowsLoaded(u, r))
<1> DEFINE first  == CHOOSE w \in r.rows : TRUE
           listed == [u EXCEPT !.windows = r.rows]
           seen   == IF "viewer" \in u.open /\ u.selWin = None /\ r.rows # {}
                     THEN ui_link_load_window(listed, first) ELSE listed
           kept   == IF seen.selWin # None /\ seen.selWin \notin r.rows
                     THEN ui_link_load_window(seen, None) ELSE seen
           tpls   == IF u.open # {} THEN Try(kept, "templates", None) ELSE kept
<1>1. r.rows \in SUBSET Windows /\ (Moved(l, u) \/ r.rows \subseteq {u.kpz} \X Templates)
  BY DEF TaskOK, FoundOK, AskedOK, TaskType, Windows
<1>2. /\ listed.kpz = u.kpz /\ listed.open = u.open /\ listed.mode = u.mode /\ listed.pend = u.pend
      /\ listed.windows = r.rows /\ listed.selWin = u.selWin /\ listed.selTpl = u.selTpl
      /\ listed.bindSel = u.bindSel /\ listed.layout = u.layout /\ listed.live = u.live
      /\ listed.task = u.task /\ listed \in UiType
  BY <1>1 DEF UiOK, ScreenOK, UiType
<1>3. UiOK(l, listed)
  <2>1. ~Busy(listed)  BY <1>2 DEF Busy
  <2> QED BY <1>1, <1>2, <2>1
          DEF UiOK, ComingOK, Coming, ScreenOK, ViewerOK, Viewed, TemplateOK, KpzOK, OfKpz, Moved
<1>4. r.rows # {} => first \in Windows /\ (Moved(l, listed) \/ first[1] = listed.kpz)
  <2>1. r.rows # {} => first \in r.rows  OBVIOUS
  <2> QED BY <1>1, <1>2, <2>1 DEF Moved
<1> HIDE DEF listed, first
<1>5. UiOK(l, seen)  BY <1>3, <1>4, LoadWindowOK
<1> HIDE DEF seen
<1>6. UiOK(l, kept)  BY <1>5, LoadWindowOK
<1> HIDE DEF kept
<1>7. UiOK(l, tpls)  BY <1>6, TryOK, ListsStartable DEF UiOK
<1>8. WindowsLoaded(u, r) = IF "binding" \in u.open THEN Try(tpls, "klink", None) ELSE tpls
  BY DEF WindowsLoaded, tpls, kept, seen, listed, first
<1> HIDE DEF tpls
<1> QED BY <1>7, <1>8, TryOK, ListsStartable DEF UiOK

LEMMA ListsLoadedOK ==
  ASSUME NEW l, NEW u, UiOK(l, u)
  PROVE  UiOK(l, TemplatesLoaded(u)) /\ UiOK(l, LinksLoaded(u)) /\ UiOK(l, KpTemplatesLoaded(u))
BY TryOK, ListsStartable DEF UiOK, TemplatesLoaded, LinksLoaded, KpTemplatesLoaded

WithLink(u, l, c) == [u EXCEPT !.link = l, !.bindSel = c]

LEMMA LinkSet ==
  ASSUME NEW u \in UiType, NEW l \in (Kpz \X KpTemplates) \cup {None},
         NEW c \in KpTemplates \cup {None}
  PROVE  LET v == WithLink(u, l, c)
         IN  /\ v.kpz = u.kpz /\ v.open = u.open /\ v.mode = u.mode /\ v.pend = u.pend
             /\ v.windows = u.windows /\ v.selWin = u.selWin /\ v.selTpl = u.selTpl
             /\ v.bindSel = c /\ v.layout = u.layout /\ v.live = u.live /\ v.task = u.task
             /\ v \in UiType
<1> DEFINE y == [u EXCEPT !.link = l]
           v == [y EXCEPT !.bindSel = c]
<1>1. /\ y.kpz = u.kpz /\ y.open = u.open /\ y.mode = u.mode /\ y.pend = u.pend
      /\ y.windows = u.windows /\ y.selWin = u.selWin /\ y.selTpl = u.selTpl
      /\ y.bindSel = u.bindSel /\ y.layout = u.layout /\ y.live = u.live /\ y.task = u.task
      /\ y \in UiType
  BY DEF UiType
<1> HIDE DEF y
<1>2. /\ v.kpz = y.kpz /\ v.open = y.open /\ v.mode = y.mode /\ v.pend = y.pend
      /\ v.windows = y.windows /\ v.selWin = y.selWin /\ v.selTpl = y.selTpl
      /\ v.bindSel = c /\ v.layout = y.layout /\ v.live = y.live /\ v.task = y.task
      /\ v \in UiType
  BY <1>1 DEF UiType
<1>3. WithLink(u, l, c) = v  BY DEF WithLink, y
<1> HIDE DEF v
<1> QED BY <1>1, <1>2, <1>3

\* The link of a control point arrives, and the choice in its panel follows it.
LEMMA KpLinkLoadedOK ==
  ASSUME NEW l, NEW u, UiOK(l, u), ~Busy(u), NEW r, TaskOK(l, u, r), r.op \in {"klink", "apply", "unlink"}
  PROVE  UiOK(l, KpLinkLoaded(u, r))
<1> DEFINE reload == r.op \in {"apply", "unlink"}
           row    == IF r.rows = {} THEN None ELSE <<r.kpz, CHOOSE p \in r.rows : TRUE>>
           sel    == IF row = None THEN None ELSE row[2]
           linked == [u EXCEPT !.link = row, !.bindSel = sel]
           bare   == [linked EXCEPT !.bindWins = None, !.pend = @ \ {"bindwins"}]
           again  == IF reload THEN [linked EXCEPT !.pend = @ \cup {"windows"}] ELSE linked
           chosen == CASE row = None -> bare
                       [] row # None /\ "binding" \in u.open ->
                            ui_link_reload_kp_binding_template_windows(again)
                       [] OTHER -> linked
<1>1. /\ row = None => sel = None
      /\ row # None => row \in Kpz \X KpTemplates /\ sel \in KpTemplates /\ sel # None
      /\ row = None \/ row # None
  <2>1. r.rows # {} => (CHOOSE p \in r.rows : TRUE) \in KpTemplates  BY DEF TaskOK, FoundOK
  <2>2. r.kpz \in Kpz  BY DEF TaskOK, TaskType
  <2> QED BY <2>1, <2>2, NamesAssumption
<1> HIDE DEF row, sel
<1>2. /\ linked.kpz = u.kpz /\ linked.open = u.open /\ linked.mode = u.mode /\ linked.pend = u.pend
      /\ linked.windows = u.windows /\ linked.selWin = u.selWin /\ linked.selTpl = u.selTpl
      /\ linked.bindSel = sel /\ linked.layout = u.layout /\ linked.live = u.live
      /\ linked.task = u.task /\ linked \in UiType
  <2>1. row \in (Kpz \X KpTemplates) \cup {None} /\ sel \in KpTemplates \cup {None}  BY <1>1
  <2>2. u \in UiType  BY DEF UiOK, ScreenOK
  <2>3. linked = WithLink(u, row, sel)  BY DEF WithLink
  <2> HIDE DEF linked
  <2> QED BY <2>1, <2>2, <2>3, LinkSet, SMTT(30)
<1>3. linked.bindSel # None \/ "bindwins" \notin linked.pend => UiOK(l, linked)
  BY <1>2 DEF UiOK, ComingOK, Coming, Busy, ScreenOK, ViewerOK, Viewed, TemplateOK, KpzOK, OfKpz, Moved
<1> HIDE DEF linked
<1>4. UiOK(l, bare)
  <2>1. u.pend \in SUBSET {"bindwins", "windows", "refresh"}  BY DEF UiOK, ScreenOK, UiType
  <2>2. /\ bare.kpz = linked.kpz /\ bare.open = linked.open /\ bare.mode = linked.mode
        /\ bare.pend = linked.pend \ {"bindwins"} /\ bare.windows = linked.windows
        /\ bare.selWin = linked.selWin /\ bare.selTpl = linked.selTpl
        /\ bare.bindSel = linked.bindSel /\ bare.layout = linked.layout /\ bare.live = linked.live
        /\ bare.task = linked.task /\ bare \in UiType
    <3> DEFINE q == linked.pend \ {"bindwins"}
    <3>1. q \in SUBSET {"bindwins", "windows", "refresh"}  BY <1>2, <2>1
    <3>2. bare = WithPending(linked, q, None)  BY <1>2 DEF UiType, WithPending
    <3>3. q = linked.pend \ {"bindwins"} /\ linked \in UiType  BY <1>2
    <3> HIDE DEF q, bare
    <3> QED BY <3>1, <3>2, <3>3, PendingSet
  <2> QED BY <1>2, <2>2
          DEF UiOK, ComingOK, Coming, Busy, ScreenOK, ViewerOK, Viewed, TemplateOK, KpzOK, OfKpz, Moved
<1>5. row # None => UiOK(l, again) /\ again.bindSel = sel
  <2>1. CASE reload
    <3>1. /\ again.kpz = u.kpz /\ again.open = u.open /\ again.mode = u.mode
          /\ again.pend = u.pend \cup {"windows"}
          /\ again.windows = u.windows /\ again.selWin = u.selWin /\ again.selTpl = u.selTpl
          /\ again.bindSel = sel /\ again.layout = u.layout /\ again.live = u.live
          /\ again.task = u.task /\ again \in UiType
      BY <1>2, <2>1 DEF UiType
    <3> QED BY <1>1, <3>1 DEF UiOK, ComingOK, Coming, Busy, ScreenOK, ViewerOK, Viewed, TemplateOK, KpzOK, OfKpz, Moved
  <2>2. CASE ~reload  BY <1>1, <1>2, <1>3, <2>2
  <2> QED BY <2>1, <2>2
<1> HIDE DEF again, bare
<1>6. UiOK(l, chosen)  BY <1>1, <1>2, <1>3, <1>4, <1>5, ReloadBindingOK
<1>7. KpLinkLoaded(u, r) = IF reload /\ "binding" \notin u.open THEN ui_link_reload_windows(chosen) ELSE chosen
  BY DEF KpLinkLoaded, chosen, again, bare, linked, row, sel
<1> HIDE DEF chosen
<1> QED BY <1>6, <1>7, ReloadWindowsOK DEF UiOK

\* A layout arrives for what was asked, whatever has been selected since.
LEMMA LayoutLoadedOK ==
  ASSUME NEW l, NEW u, UiOK(l, u), ~Busy(u), NEW r, TaskOK(l, u, r), r.at = "done", r.ok
  PROVE  /\ r.op = "load_win" => UiOK(l, [u EXCEPT !.selWin = r.id, !.layout = r.id])
         /\ r.op \in {"load_tpl", "save_tpl"} =>
              UiOK(l, [u EXCEPT !.selTpl = r.id, !.layout = IF r.rows = {} THEN @ ELSE r.id])
         /\ r.op = "command" => UiOK(l, [u EXCEPT !.live = r.id])
         /\ r.op = "bindwins" => UiOK(l, [u EXCEPT !.bindWins = r.id])
<1>0. u \in UiType  BY DEF UiOK, ScreenOK
<1>1. ASSUME r.op = "load_win" PROVE UiOK(l, [u EXCEPT !.selWin = r.id, !.layout = r.id])
  <2> DEFINE v == [u EXCEPT !.selWin = r.id, !.layout = r.id]
  <2>1. r.id \in Windows /\ u.live = None /\ "template" \notin u.open /\ (Moved(l, u) \/ OfKpz(u, r.id))
    BY <1>1 DEF TaskOK, AskedOK
  <2>2. /\ v.kpz = u.kpz /\ v.open = u.open /\ v.mode = u.mode /\ v.pend = u.pend
        /\ v.windows = u.windows /\ v.selWin = r.id /\ v.selTpl = u.selTpl
        /\ v.bindSel = u.bindSel /\ v.layout = r.id /\ v.live = u.live /\ v.task = u.task
        /\ v \in UiType
    BY <1>0, <2>1, ZenonT(40) DEF UiType
  <2> QED BY <2>1, <2>2
          DEF UiOK, ComingOK, Coming, Busy, ScreenOK, ViewerOK, Viewed, TemplateOK, KpzOK, OfKpz, Moved
<1>2. ASSUME r.op \in {"load_tpl", "save_tpl"}
      PROVE  UiOK(l, [u EXCEPT !.selTpl = r.id, !.layout = IF r.rows = {} THEN @ ELSE r.id])
  <2> DEFINE v == [u EXCEPT !.selTpl = r.id, !.layout = r.id]
  <2>1. r.id \in Templates /\ ~Viewed(u)  BY <1>2 DEF TaskOK, AskedOK
  <2>2. r.rows # {}  BY <1>2 DEF TaskOK, FoundOK
  <2>3. /\ v.kpz = u.kpz /\ v.open = u.open /\ v.mode = u.mode /\ v.pend = u.pend
        /\ v.windows = u.windows /\ v.selWin = u.selWin /\ v.selTpl = r.id
        /\ v.bindSel = u.bindSel /\ v.layout = r.id /\ v.live = u.live /\ v.task = u.task
        /\ v \in UiType
    BY <1>0, <2>1, ZenonT(40) DEF UiType
  <2>4. r.id \notin Windows  BY <2>1, NamesAssumption DEF Windows
  <2>5. UiOK(l, v)
    BY <2>1, <2>3, <2>4
    DEF UiOK, ComingOK, Coming, Busy, ScreenOK, ViewerOK, Viewed, TemplateOK, KpzOK, OfKpz, Moved
  <2> QED BY <2>2, <2>5
<1>3. ASSUME r.op = "command" PROVE UiOK(l, [u EXCEPT !.live = r.id])
  <2> DEFINE v == [u EXCEPT !.live = r.id]
  <2>1. r.id \in Windows \cup Templates \cup {"draft"} /\ (Viewed(u) => r.id = u.selWin)
    BY <1>3 DEF TaskOK, AskedOK
  <2>2. /\ v.kpz = u.kpz /\ v.open = u.open /\ v.mode = u.mode /\ v.pend = u.pend
        /\ v.windows = u.windows /\ v.selWin = u.selWin /\ v.selTpl = u.selTpl
        /\ v.bindSel = u.bindSel /\ v.layout = u.layout /\ v.live = r.id /\ v.task = u.task
        /\ v \in UiType
    BY <1>0, <2>1 DEF UiType
  <2> QED BY <2>1, <2>2
          DEF UiOK, ComingOK, Coming, Busy, ScreenOK, ViewerOK, Viewed, TemplateOK, KpzOK, OfKpz, Moved
<1>4. ASSUME r.op = "bindwins" PROVE UiOK(l, [u EXCEPT !.bindWins = r.id])
  <2> DEFINE v == [u EXCEPT !.bindWins = r.id]
  <2>1. r.id \in KpTemplates  BY <1>4 DEF TaskOK, AskedOK
  <2>2. /\ v.kpz = u.kpz /\ v.open = u.open /\ v.mode = u.mode /\ v.pend = u.pend
        /\ v.windows = u.windows /\ v.selWin = u.selWin /\ v.selTpl = u.selTpl
        /\ v.bindSel = u.bindSel /\ v.layout = u.layout /\ v.live = u.live /\ v.task = u.task
        /\ v \in UiType
    BY <1>0, <2>1 DEF UiType
  <2> QED BY <2>2
          DEF UiOK, ComingOK, Coming, Busy, ScreenOK, ViewerOK, Viewed, TemplateOK, KpzOK, OfKpz, Moved
<1> QED BY <1>1, <1>2, <1>3, <1>4

LEMMA LoadedOK ==
  ASSUME NEW l, NEW u, UiOK(l, u), ~Busy(u), NEW r, TaskOK(l, u, r), r.at = "done"
  PROVE  UiOK(l, Loaded(u, r))
<1>0. UiOK(l, u)  OBVIOUS
<1>1. CASE ~r.ok  BY <1>0, <1>1 DEF Loaded
<1>2. CASE r.ok /\ r.op = "windows"
  <2>1. Loaded(u, r) = WindowsLoaded(u, r)  BY <1>2 DEF Loaded
  <2> QED BY <1>2, <2>1, WindowsLoadedOK
<1>3. CASE r.ok /\ r.op \in {"templates", "links", "kptpls"}
  <2>1. Loaded(u, r) \in {TemplatesLoaded(u), LinksLoaded(u), KpTemplatesLoaded(u)}
    BY <1>3 DEF Loaded
  <2> QED BY <1>0, <2>1, ListsLoadedOK
<1>4. CASE r.ok /\ r.op \in {"klink", "apply", "unlink"}
  <2>1. Loaded(u, r) = KpLinkLoaded(u, r)  BY <1>4 DEF Loaded
  <2> QED BY <1>4, <2>1, KpLinkLoadedOK
<1>5. CASE r.ok /\ r.op \in {"bindwins", "command"}
  <2> DEFINE v == [u EXCEPT !.bindWins = r.id]
             w == [u EXCEPT !.live = r.id]
  <2>1. Loaded(u, r) = IF r.op = "bindwins" THEN v ELSE w  BY <1>5 DEF Loaded
  <2>2. (r.op = "bindwins" => UiOK(l, v)) /\ (r.op = "command" => UiOK(l, w))
    BY <1>5, LayoutLoadedOK
  <2> HIDE DEF v, w
  <2> QED BY <1>5, <2>1, <2>2
<1>6. CASE r.ok /\ r.op = "load_win"
  <2> DEFINE v == [u EXCEPT !.selWin = r.id, !.layout = r.id]
  <2>1. Loaded(u, r) = Try(v, "regs", None)  BY <1>6 DEF Loaded
  <2>2. UiOK(l, v)  BY <1>6, LayoutLoadedOK
  <2> HIDE DEF v
  <2> QED BY <2>1, <2>2, TryOK, ListsStartable DEF UiOK
<1>7. CASE r.ok /\ r.op \in {"load_tpl", "save_tpl"}
  <2> DEFINE v == [u EXCEPT !.selTpl = r.id, !.layout = IF r.rows = {} THEN @ ELSE r.id]
  <2>1. Loaded(u, r) = Try(v, "regs", None)  BY <1>7 DEF Loaded
  <2>2. UiOK(l, v)  BY <1>7, LayoutLoadedOK
  <2> HIDE DEF v
  <2> QED BY <2>1, <2>2, TryOK, ListsStartable DEF UiOK
<1>8. CASE r.ok /\ r.op = "regs"
  <2>1. Loaded(u, r) = u  BY <1>8 DEF Loaded
  <2> QED BY <1>0, <2>1
<1>9. r.op \in Ops  BY DEF TaskOK, TaskType
<1> QED BY <1>1, <1>2, <1>3, <1>4, <1>5, <1>6, <1>7, <1>8, <1>9 DEF Ops

\* Whoever leaves the slot empty leaves no flag behind.
LEMMA ServedOK ==
  ASSUME NEW l, NEW u, UiOK(l, u)
  PROVE  UiOK(l, Served(u)) /\ (~Busy(Served(u)) => Served(u).pend = {})
<1>1. CASE Busy(u)  BY <1>1 DEF Served
<1>0. u \in UiType  BY DEF UiOK, ComingOK, Coming, ScreenOK
<1>2. CASE ~Busy(u) /\ "bindwins" \in u.pend
  <2> DEFINE v == [u EXCEPT !.pend = @ \ {"bindwins"}]
  <2>1. /\ v.kpz = u.kpz /\ v.open = u.open /\ v.mode = u.mode /\ v.pend = u.pend \ {"bindwins"}
        /\ v.windows = u.windows /\ v.selWin = u.selWin /\ v.selTpl = u.selTpl
        /\ v.bindSel = u.bindSel /\ v.layout = u.layout /\ v.live = u.live /\ v.task = u.task
        /\ v \in UiType
    BY <1>0 DEF UiType
  <2>2. UiOK(l, v) /\ v.bindSel # None
    BY <1>2, <2>1
    DEF UiOK, ComingOK, Coming, Busy, ScreenOK, ViewerOK, Viewed, TemplateOK, KpzOK, OfKpz, Moved
  <2>3. Served(u) = ui_link_reload_kp_binding_template_windows(v)  BY <1>2 DEF Served
  <2> HIDE DEF v
  <2> QED BY <2>2, <2>3, ReloadBindingOK
<1>3. CASE ~Busy(u) /\ "bindwins" \notin u.pend /\ "windows" \in u.pend
  <2> DEFINE v == [u EXCEPT !.pend = @ \ {"windows"}]
  <2>1. /\ v.kpz = u.kpz /\ v.open = u.open /\ v.mode = u.mode /\ v.pend = u.pend \ {"windows"}
        /\ v.windows = u.windows /\ v.selWin = u.selWin /\ v.selTpl = u.selTpl
        /\ v.bindSel = u.bindSel /\ v.layout = u.layout /\ v.live = u.live /\ v.task = u.task
        /\ v \in UiType
    BY <1>0 DEF UiType
  <2>2. ScreenOK(l, v) /\ ~Busy(v)
    BY <1>3, <2>1
    DEF UiOK, Busy, ScreenOK, ViewerOK, Viewed, TemplateOK, KpzOK, OfKpz, Moved
  <2>3. Served(u) = ui_link_reload_windows(v)  BY <1>3 DEF Served
  <2> HIDE DEF v
  <2> QED BY <2>2, <2>3, ReloadWindowsOK
<1>4. CASE ~Busy(u) /\ u.pend = {"refresh"}
  <2>1. Served(u) = refresh_ui_link_for_selected_kpz(u)  BY <1>4 DEF Served
  <2> QED BY <1>0, <1>4, <2>1, RefreshOK DEF UiOK, ComingOK, Coming, ScreenOK
<1>5. CASE ~Busy(u) /\ u.pend = {}
  <2>1. Served(u) = u  BY <1>5 DEF Served
  <2> QED BY <1>5, <2>1
<1>6. u.pend \subseteq {"bindwins", "windows", "refresh"}  BY <1>0 DEF UiType
<1>7. "bindwins" \in u.pend \/ "windows" \in u.pend \/ u.pend = {"refresh"} \/ u.pend = {}
  BY <1>6
<1> QED BY <1>1, <1>2, <1>3, <1>4, <1>5, <1>7

-----------------------------------------------------------------------------
(* A list of windows that is of the control point selected makes up for    *)
(* all that was out of step with it.                                       *)

Fresh(k, u) ==
  /\ u \in UiType /\ u.kpz = k /\ u.windows \subseteq {k} \X Templates
  /\ Busy(u) => /\ u.task.kpz = k /\ u.task.op # "command"
                /\ u.task.op = "load_win" => u.task.id[1] = k

LEMMA FreshSpawn ==
  ASSUME NEW k \in Kpz, NEW u, Fresh(k, u), NEW op \in Ops \ {"command"},
         NEW id \in Things \cup {None}, op = "load_win" => id[1] = k
  PROVE  Fresh(k, Spawn(u, op, id)) /\ Fresh(k, Try(u, op, id))
<1> DEFINE s == Task(op, k, id)
           v == [u EXCEPT !.task = s]
<1>1. s \in TaskType /\ s.op = op /\ s.kpz = k /\ s.id = id  BY TaskIs
<1>2. Spawn(u, op, id) = v  BY DEF Spawn, Fresh
<1> HIDE DEF s
<1>3. v \in UiType /\ v.kpz = k /\ v.windows = u.windows /\ v.task = s
  BY <1>1 DEF Fresh, UiType
<1> HIDE DEF v
<1>4. Fresh(k, v)  BY <1>1, <1>3 DEF Fresh
<1> QED BY <1>2, <1>4 DEF Try

LEMMA FreshPends ==
  ASSUME NEW k, NEW u, Fresh(k, u), NEW q \in SUBSET {"bindwins", "windows", "refresh"}
  PROVE  Fresh(k, [u EXCEPT !.pend = q])
<1> DEFINE v == [u EXCEPT !.pend = q]
<1>1. v \in UiType /\ v.kpz = u.kpz /\ v.windows = u.windows /\ v.task = u.task
  BY DEF Fresh, UiType
<1> HIDE DEF v
<1>2. Fresh(k, v)  BY <1>1 DEF Fresh, Busy
<1> QED BY <1>2 DEF v

LEMMA FreshRequests ==
  ASSUME NEW k \in Kpz, NEW u, Fresh(k, u)
  PROVE  /\ Fresh(k, ui_link_reload_windows(u))
         /\ ~Busy(u) => Fresh(k, refresh_ui_link_for_selected_kpz(u))
         /\ Fresh(k, ui_link_reload_kp_binding_template_windows(u))
         /\ \A w \in ({k} \X Templates) \cup {None} : Fresh(k, ui_link_load_window(u, w))
<1>1. ASSUME NEW v, Fresh(k, v) PROVE Fresh(k, ui_link_reload_windows(v))
  <2> DEFINE q == v.pend \cup {"windows"}
             p == v.pend \ {"windows"}
             y == [v EXCEPT !.pend = p]
  <2>1. q \in SUBSET {"bindwins", "windows", "refresh"} /\ p \in SUBSET {"bindwins", "windows", "refresh"}
    BY <1>1 DEF Fresh, UiType
  <2>2. ui_link_reload_windows(v) = IF Busy(v) THEN [v EXCEPT !.pend = q] ELSE Spawn(y, "windows", None)
    BY DEF ui_link_reload_windows
  <2> HIDE DEF q, p
  <2>3. Fresh(k, [v EXCEPT !.pend = q]) /\ Fresh(k, y)  BY <1>1, <2>1, FreshPends
  <2> HIDE DEF y
  <2>4. Fresh(k, Spawn(y, "windows", None))  BY <2>3, FreshSpawn DEF Ops
  <2> QED BY <2>2, <2>3, <2>4
<1>2. ASSUME ~Busy(u) PROVE Fresh(k, refresh_ui_link_for_selected_kpz(u))
  <2> DEFINE v == [u EXCEPT !.pend = @ \ {"refresh"}, !.selWin = None, !.windows = {},
                            !.layout = None, !.link = None, !.bindWins = None]
  <2>1. v \in UiType /\ v.kpz = u.kpz /\ v.windows = {} /\ v.task = u.task
    BY ZenonT(40) DEF Fresh, UiType
  <2>2. refresh_ui_link_for_selected_kpz(u) = ui_link_reload_windows(v)
    BY <1>2 DEF refresh_ui_link_for_selected_kpz
  <2> HIDE DEF v
  <2>3. Fresh(k, v)  BY <1>2, <2>1 DEF Fresh, Busy
  <2> QED BY <1>1, <2>2, <2>3
<1>3. Fresh(k, ui_link_reload_kp_binding_template_windows(u))
  <2> DEFINE q == u.pend \cup {"bindwins"}
             p == u.pend \ {"bindwins"}
             y == [u EXCEPT !.pend = p]
             z == WithPending(u, p, None)
  <2>1. q \in SUBSET {"bindwins", "windows", "refresh"} /\ p \in SUBSET {"bindwins", "windows", "refresh"}
    BY DEF Fresh, UiType
  <2>2. ui_link_reload_kp_binding_template_windows(u) =
           IF Busy(u) THEN [u EXCEPT !.pend = q]
           ELSE IF u.bindSel = None THEN z ELSE Spawn(y, "bindwins", u.bindSel)
    <3>1. [u EXCEPT !.bindWins = None, !.pend = @ \ {"bindwins"}] = z
      BY DEF Fresh, UiType, WithPending
    <3> QED BY <3>1 DEF ui_link_reload_kp_binding_template_windows
  <2> HIDE DEF q, p
  <2>3. Fresh(k, [u EXCEPT !.pend = q]) /\ Fresh(k, y)  BY <2>1, FreshPends
  <2>4. u \in UiType /\ u.bindSel \in KpTemplates \cup {None}  BY DEF Fresh, UiType
  <2>5. Fresh(k, z)
    <3>1. z \in UiType /\ z.kpz = u.kpz /\ z.windows = u.windows /\ z.task = u.task
      BY <2>1, <2>4, PendingSet
    <3> HIDE DEF z
    <3> QED BY <3>1 DEF Fresh, Busy
  <2> HIDE DEF y, z
  <2>6. Fresh(k, Spawn(y, "bindwins", u.bindSel))
    BY <2>3, <2>4, FreshSpawn DEF Ops, Things
  <2> QED BY <2>2, <2>3, <2>5, <2>6
<1>4. ASSUME NEW w \in ({k} \X Templates) \cup {None} PROVE Fresh(k, ui_link_load_window(u, w))
  <2> DEFINE v == [u EXCEPT !.selWin = w, !.layout = None, !.live = None]
  <2>1. w \in Windows \cup {None} /\ (w # None => w[1] = k)  BY DEF Windows
  <2>2. v \in UiType /\ v.kpz = u.kpz /\ v.windows = u.windows /\ v.task = u.task
    BY <2>1, ZenonT(40) DEF Fresh, UiType
  <2>3. ui_link_load_window(u, w) \in {u, v} \/ (w # None /\ ui_link_load_window(u, w) = Spawn(v, "load_win", w))
    BY DEF ui_link_load_window
  <2> HIDE DEF v
  <2>4. Fresh(k, v)  BY <2>2 DEF Fresh, Busy
  <2>5. w # None => Fresh(k, Spawn(v, "load_win", w))
    BY <2>1, <2>4, FreshSpawn DEF Ops, Things
  <2> QED BY <2>3, <2>4, <2>5
<1> QED BY <1>1, <1>2, <1>3, <1>4

LEMMA FreshWindows ==
  ASSUME NEW u \in UiType, ~Busy(u), NEW r, r.rows \subseteq {u.kpz} \X Templates
  PROVE  Fresh(u.kpz, Served(WindowsLoaded(u, r)))
<1> DEFINE k      == u.kpz
           first  == CHOOSE w \in r.rows : TRUE
           listed == [u EXCEPT !.windows = r.rows]
           seen   == IF "viewer" \in u.open /\ u.selWin = None /\ r.rows # {}
                     THEN ui_link_load_window(listed, first) ELSE listed
           kept   == IF seen.selWin # None /\ seen.selWin \notin r.rows
                     THEN ui_link_load_window(seen, None) ELSE seen
           tpls   == IF u.open # {} THEN Try(kept, "templates", None) ELSE kept
           x      == WindowsLoaded(u, r)
<1>1. k \in Kpz  BY DEF UiType
<1>2. Fresh(k, listed)
  <2>1. listed \in UiType /\ listed.kpz = u.kpz /\ listed.windows = r.rows /\ listed.task = u.task
    BY <1>1 DEF UiType, Windows
  <2> HIDE DEF listed
  <2> QED BY <2>1 DEF Fresh, Busy
<1>3. r.rows # {} => first \in {k} \X Templates  OBVIOUS
<1>4. x = IF "binding" \in u.open THEN Try(tpls, "klink", None) ELSE tpls  BY DEF WindowsLoaded
<1> HIDE DEF k, listed, first, x
<1>5. Fresh(k, seen)  BY <1>1, <1>2, <1>3, FreshRequests
<1> HIDE DEF seen
<1>6. Fresh(k, kept)  BY <1>1, <1>5, FreshRequests
<1> HIDE DEF kept
<1>7. Fresh(k, tpls)  BY <1>1, <1>6, FreshSpawn DEF Ops
<1> HIDE DEF tpls
<1>8. Fresh(k, x)  BY <1>1, <1>4, <1>7, FreshSpawn DEF Ops
<1> DEFINE p == x.pend \ {"bindwins"}
           q == x.pend \ {"windows"}
           a == [x EXCEPT !.pend = p]
           b == [x EXCEPT !.pend = q]
<1>9. p \in SUBSET {"bindwins", "windows", "refresh"} /\ q \in SUBSET {"bindwins", "windows", "refresh"}
  BY <1>8 DEF Fresh, UiType
<1>10. \/ Served(x) \in {x, ui_link_reload_kp_binding_template_windows(a), ui_link_reload_windows(b)}
       \/ ~Busy(x) /\ Served(x) = refresh_ui_link_for_selected_kpz(x)
  BY DEF Served
<1> HIDE DEF p, q
<1>11. Fresh(k, a) /\ Fresh(k, b)  BY <1>8, <1>9, FreshPends
<1> HIDE DEF a, b
<1>12. Fresh(k, Served(x))  BY <1>1, <1>8, <1>10, <1>11, FreshRequests
<1> QED BY <1>12 DEF k, x

LEMMA FreshOK ==
  ASSUME NEW l, NEW u, UiOK(l, u), Fresh(u.kpz, u), u.selWin \in u.windows \cup {None}
  PROVE  UiOK("read", u)
<1>1. KpzOK("read", u)  BY NamesAssumption DEF KpzOK, OfKpz, Fresh, Windows
<1>2. Busy(u) => TaskOK("read", u, u.task)
  BY DEF UiOK, TaskOK, AskedOK, Fresh, OfKpz
<1> QED BY <1>1, <1>2 DEF UiOK, ScreenOK, ComingOK

\* The list of windows may get worse at any time.
LEMMA Worse ==
  ASSUME NEW l, NEW m, NEW u, UiOK(l, u), m = l \/ m # "read", l = "stale" => m = "stale", ComingOK(m, u)
  PROVE  UiOK(m, u)
BY DEF UiOK, ScreenOK, KpzOK, Moved, TaskOK, AskedOK

-----------------------------------------------------------------------------
(* None of this writes to the database: what requests and results start    *)
(* reads, or talks to a device.                                            *)

ReadsOnly(u, v) ==
  "task" \in DOMAIN v /\ (v.task = u.task \/ v.task.op \notin {"save_tpl", "apply"})

LEMMA ReadsOn == ASSUME NEW u, NEW v, NEW w, ReadsOnly(u, v), ReadsOnly(v, w) PROVE ReadsOnly(u, w)
BY DEF ReadsOnly

LEMMA SpawnReads ==
  ASSUME NEW u, "task" \in DOMAIN u, NEW op, NEW id, op \notin {"save_tpl", "apply"}
  PROVE  ReadsOnly(u, Spawn(u, op, id)) /\ ReadsOnly(u, Try(u, op, id))
<1>1. Spawn(u, op, id).task.op = op /\ "task" \in DOMAIN Spawn(u, op, id)  BY DEF Spawn, Task
<1>2. ReadsOnly(u, Spawn(u, op, id))  BY <1>1 DEF ReadsOnly
<1>3. Try(u, op, id) \in {u, Spawn(u, op, id)}  BY DEF Try
<1> QED BY <1>2, <1>3 DEF ReadsOnly

LEMMA RequestsRead ==
  ASSUME NEW u, "task" \in DOMAIN u
  PROVE  /\ ReadsOnly(u, ui_link_reload_windows(u))
         /\ ReadsOnly(u, refresh_ui_link_for_selected_kpz(u))
         /\ ReadsOnly(u, ui_link_reload_kp_binding_template_windows(u))
         /\ \A w : ReadsOnly(u, ui_link_load_window(u, w))
         /\ \A t : ReadsOnly(u, ui_link_load_template(u, t))
<1>1. ASSUME NEW v, "task" \in DOMAIN v PROVE ReadsOnly(v, ui_link_reload_windows(v))
  <2> DEFINE x == [v EXCEPT !.pend = @ \cup {"windows"}]
             y == [v EXCEPT !.pend = @ \ {"windows"}]
  <2>1. ReadsOnly(v, x) /\ ReadsOnly(v, y) /\ "task" \in DOMAIN y  BY <1>1 DEF ReadsOnly
  <2>2. ui_link_reload_windows(v) \in {x, Spawn(y, "windows", None)}  BY DEF ui_link_reload_windows
  <2> HIDE DEF x, y
  <2>3. ReadsOnly(y, Spawn(y, "windows", None))  BY <2>1, SpawnReads
  <2> QED BY <2>1, <2>2, <2>3, ReadsOn
<1>2. ReadsOnly(u, refresh_ui_link_for_selected_kpz(u))
  <2> DEFINE x == [u EXCEPT !.pend = @ \cup {"refresh"}]
             y == [u EXCEPT !.pend = @ \ {"refresh"}, !.selWin = None, !.windows = {},
                            !.layout = None, !.link = None, !.bindWins = None]
  <2>1. ReadsOnly(u, x) /\ ReadsOnly(u, y) /\ "task" \in DOMAIN y  BY DEF ReadsOnly
  <2>2. refresh_ui_link_for_selected_kpz(u) \in {x, ui_link_reload_windows(y)}
    BY DEF refresh_ui_link_for_selected_kpz
  <2> HIDE DEF x, y
  <2>3. ReadsOnly(y, ui_link_reload_windows(y))  BY <1>1, <2>1
  <2> QED BY <2>1, <2>2, <2>3, ReadsOn
<1>3. ReadsOnly(u, ui_link_reload_kp_binding_template_windows(u))
  <2> DEFINE x == [u EXCEPT !.pend = @ \cup {"bindwins"}]
             y == [u EXCEPT !.bindWins = None, !.pend = @ \ {"bindwins"}]
             z == [u EXCEPT !.pend = @ \ {"bindwins"}]
  <2>1. ReadsOnly(u, x) /\ ReadsOnly(u, y) /\ ReadsOnly(u, z) /\ "task" \in DOMAIN z  BY DEF ReadsOnly
  <2>2. ui_link_reload_kp_binding_template_windows(u) \in {x, y, Spawn(z, "bindwins", u.bindSel)}
    BY DEF ui_link_reload_kp_binding_template_windows
  <2> HIDE DEF x, y, z
  <2>3. ReadsOnly(z, Spawn(z, "bindwins", u.bindSel))  BY <2>1, SpawnReads
  <2> QED BY <2>1, <2>2, <2>3, ReadsOn
<1>4. ASSUME NEW w PROVE ReadsOnly(u, ui_link_load_window(u, w))
  <2> DEFINE x == [u EXCEPT !.selWin = w, !.layout = None, !.live = None]
  <2>1. ReadsOnly(u, u) /\ ReadsOnly(u, x) /\ "task" \in DOMAIN x  BY DEF ReadsOnly
  <2>2. ui_link_load_window(u, w) \in {u, x, Spawn(x, "load_win", w)}  BY DEF ui_link_load_window
  <2> HIDE DEF x
  <2>3. ReadsOnly(x, Spawn(x, "load_win", w))  BY <2>1, SpawnReads
  <2> QED BY <2>1, <2>2, <2>3, ReadsOn
<1>5. ASSUME NEW t PROVE ReadsOnly(u, ui_link_load_template(u, t))
  <2> DEFINE x == [u EXCEPT !.selTpl = t, !.layout = None, !.live = None]
  <2>1. ReadsOnly(u, u) /\ ReadsOnly(u, x) /\ "task" \in DOMAIN x  BY DEF ReadsOnly
  <2>2. ui_link_load_template(u, t) \in {u, Spawn(x, "load_tpl", t)}  BY DEF ui_link_load_template
  <2> HIDE DEF x
  <2>3. ReadsOnly(x, Spawn(x, "load_tpl", t))  BY <2>1, SpawnReads
  <2> QED BY <2>1, <2>2, <2>3, ReadsOn
<1> QED BY <1>1, <1>2, <1>3, <1>4, <1>5

LEMMA ResultsRead ==
  ASSUME NEW u, "task" \in DOMAIN u, NEW r
  PROVE  ReadsOnly(u, Loaded(u, r)) /\ ReadsOnly(u, Served(u))
<1>1. \A v : "task" \in DOMAIN v => ReadsOnly(v, v)  BY DEF ReadsOnly
<1>2. \A v, w : ReadsOnly(v, w) => "task" \in DOMAIN w  BY DEF ReadsOnly
<1>3. \A v : "task" \in DOMAIN v =>
        /\ ReadsOnly(v, Try(v, "templates", None)) /\ ReadsOnly(v, Try(v, "klink", None))
        /\ ReadsOnly(v, Try(v, "links", None)) /\ ReadsOnly(v, Try(v, "kptpls", None))
        /\ ReadsOnly(v, Try(v, "regs", None))
  BY SpawnReads
<1>4. ReadsOnly(u, WindowsLoaded(u, r))
  <2> DEFINE first  == CHOOSE w \in r.rows : TRUE
             listed == [u EXCEPT !.windows = r.rows]
             seen   == IF "viewer" \in u.open /\ u.selWin = None /\ r.rows # {}
                       THEN ui_link_load_window(listed, first) ELSE listed
             kept   == IF seen.selWin # None /\ seen.selWin \notin r.rows
                       THEN ui_link_load_window(seen, None) ELSE seen
             tpls   == IF u.open # {} THEN Try(kept, "templates", None) ELSE kept
             all    == IF "binding" \in u.open THEN Try(tpls, "klink", None) ELSE tpls
  <2>1. ReadsOnly(u, listed)  BY DEF ReadsOnly
  <2>2. WindowsLoaded(u, r) = all  BY DEF WindowsLoaded
  <2> HIDE DEF listed
  <2>3. ReadsOnly(listed, seen)  BY <1>1, <1>2, <2>1, RequestsRead
  <2> HIDE DEF seen
  <2>4. ReadsOnly(seen, kept)  BY <1>1, <1>2, <2>3, RequestsRead
  <2> HIDE DEF kept
  <2>5. ReadsOnly(kept, tpls)  BY <1>1, <1>2, <1>3, <2>4
  <2> HIDE DEF tpls
  <2>6. ReadsOnly(tpls, all)  BY <1>1, <1>2, <1>3, <2>5
  <2> HIDE DEF all
  <2> QED BY <2>1, <2>2, <2>3, <2>4, <2>5, <2>6, ReadsOn
<1>5. ReadsOnly(u, KpLinkLoaded(u, r))
  <2> DEFINE reload == r.op \in {"apply", "unlink"}
             row    == IF r.rows = {} THEN None ELSE <<r.kpz, CHOOSE p \in r.rows : TRUE>>
             linked == [u EXCEPT !.link = row, !.bindSel = IF row = None THEN None ELSE row[2]]
             bare   == [linked EXCEPT !.bindWins = None, !.pend = @ \ {"bindwins"}]
             again  == IF reload THEN [linked EXCEPT !.pend = @ \cup {"windows"}] ELSE linked
             chosen == CASE row = None -> bare
                         [] row # None /\ "binding" \in u.open ->
                              ui_link_reload_kp_binding_template_windows(again)
                         [] OTHER -> linked
             all    == IF reload /\ "binding" \notin u.open
                       THEN ui_link_reload_windows(chosen) ELSE chosen
  <2>1. KpLinkLoaded(u, r) = all  BY DEF KpLinkLoaded
  <2> HIDE DEF row
  <2>2. ReadsOnly(u, linked)  BY DEF ReadsOnly
  <2> HIDE DEF linked
  <2>3. "task" \in DOMAIN linked  BY <2>2 DEF ReadsOnly
  <2>4. ReadsOnly(linked, bare) /\ ReadsOnly(linked, again)  BY <2>3 DEF ReadsOnly
  <2> HIDE DEF bare, again
  <2>5. ReadsOnly(linked, chosen)
    <3>1. ReadsOnly(again, ui_link_reload_kp_binding_template_windows(again))
      BY <1>2, <2>4, RequestsRead
    <3>2. chosen \in {bare, linked, ui_link_reload_kp_binding_template_windows(again)}  OBVIOUS
    <3> HIDE DEF chosen
    <3> QED BY <1>1, <2>3, <2>4, <3>1, <3>2, ReadsOn
  <2> HIDE DEF chosen
  <2>6. ReadsOnly(chosen, all)  BY <1>1, <1>2, <2>5, RequestsRead
  <2> HIDE DEF all
  <2> QED BY <2>1, <2>2, <2>5, <2>6, ReadsOn
<1>6. ReadsOnly(u, Loaded(u, r))
  <2> DEFINE a == [u EXCEPT !.bindWins = r.id]
             b == [u EXCEPT !.selWin = r.id, !.layout = r.id]
             c == [u EXCEPT !.selTpl = r.id, !.layout = IF r.rows = {} THEN @ ELSE r.id]
             d == [u EXCEPT !.live = r.id]
  <2>1. ReadsOnly(u, a) /\ ReadsOnly(u, b) /\ ReadsOnly(u, c) /\ ReadsOnly(u, d)  BY DEF ReadsOnly
  <2>2. Loaded(u, r) \in {u, WindowsLoaded(u, r), TemplatesLoaded(u), LinksLoaded(u),
                          KpTemplatesLoaded(u), KpLinkLoaded(u, r), a, d,
                          Try(b, "regs", None), Try(c, "regs", None)}
    BY DEF Loaded
  <2> HIDE DEF a, b, c, d
  <2>3. ReadsOnly(u, TemplatesLoaded(u)) /\ ReadsOnly(u, LinksLoaded(u)) /\ ReadsOnly(u, KpTemplatesLoaded(u))
    BY <1>1, <1>3 DEF TemplatesLoaded, LinksLoaded, KpTemplatesLoaded
  <2>4. ReadsOnly(u, Try(b, "regs", None)) /\ ReadsOnly(u, Try(c, "regs", None))
    BY <1>2, <1>3, <2>1, ReadsOn
  <2> QED BY <1>1, <1>4, <1>5, <2>1, <2>2, <2>3, <2>4
<1>7. ReadsOnly(u, Served(u))
  <2> DEFINE a == [u EXCEPT !.pend = @ \ {"bindwins"}]
             b == [u EXCEPT !.pend = @ \ {"windows"}]
  <2>1. ReadsOnly(u, a) /\ ReadsOnly(u, b)  BY DEF ReadsOnly
  <2>2. Served(u) \in {u, ui_link_reload_kp_binding_template_windows(a), ui_link_reload_windows(b),
                       refresh_ui_link_for_selected_kpz(u)}
    BY DEF Served
  <2> HIDE DEF a, b
  <2>3. /\ ReadsOnly(a, ui_link_reload_kp_binding_template_windows(a))
        /\ ReadsOnly(b, ui_link_reload_windows(b))
    BY <1>2, <2>1, RequestsRead
  <2> QED BY <1>1, <2>1, <2>2, <2>3, ReadsOn, RequestsRead
<1> QED BY <1>6, <1>7

-----------------------------------------------------------------------------
(* The steps of a task *)

\* A task goes on without asking anything else.
LEMMA TaskGoesOn ==
  ASSUME UiOK(list, ui), Busy(ui), NEW r \in TaskType, FoundOK(r),
         r.op = ui.task.op, r.kpz = ui.task.kpz, r.id = ui.task.id,
         ui' = [ui EXCEPT !.task = r]
  PROVE  UiOK(list, ui') /\ Busy(ui') /\ ui'.task = r
<1>1. /\ ui'.kpz = ui.kpz /\ ui'.open = ui.open /\ ui'.mode = ui.mode /\ ui'.pend = ui.pend
      /\ ui'.windows = ui.windows /\ ui'.selWin = ui.selWin /\ ui'.selTpl = ui.selTpl
      /\ ui'.bindSel = ui.bindSel /\ ui'.layout = ui.layout /\ ui'.live = ui.live
      /\ ui'.task = r /\ ui' \in UiType
  BY DEF UiOK, ComingOK, Coming, ScreenOK, UiType
<1>2. ScreenOK(list, ui')
  BY <1>1 DEF UiOK, ComingOK, Coming, ScreenOK, ViewerOK, Viewed, TemplateOK, KpzOK, OfKpz, Moved
<1>3. AskedOK(list, ui', r.op, r.kpz, r.id)
  BY <1>1 DEF UiOK, ComingOK, Coming, TaskOK, AskedOK, Viewed, OfKpz, Moved
<1>4. Busy(ui')  BY <1>1, NoTaskIs DEF Busy
<1> QED BY <1>1, <1>2, <1>3, <1>4 DEF UiOK, ComingOK, Coming, TaskOK

LEMMA RunningTask ==
  ASSUME IInv, NEW op \in Ops, Running(op)
  PROVE  /\ Busy(ui) /\ ui.task \in TaskType /\ TaskOK(list, ui, ui.task)
         /\ ui.task.kpz \in Kpz /\ ui.task.op = op /\ ui \in UiType
<1>1. ui \in UiType  BY DEF IInv, UiOK, ComingOK, Coming, ScreenOK
<1>2. Busy(ui)  BY NoTaskIs DEF Running, Busy, Ops
<1>3. TaskOK(list, ui, ui.task)  BY <1>2 DEF IInv, UiOK, ComingOK, Coming
<1> QED BY <1>1, <1>2, <1>3 DEF TaskOK, TaskType, Running

\* A task that has read ends with what it found.
LEMMA FinishOK ==
  ASSUME IInv, NEW op \in Ops, Running(op), NEW rows \in SUBSET Things, Finish(rows),
         FoundOK([ui.task EXCEPT !.at = "done", !.rows = rows])
  PROVE  /\ UiOK(list, ui') /\ Busy(ui')
         /\ ui'.task = [ui.task EXCEPT !.at = "done", !.rows = rows]
<1> DEFINE r == [ui.task EXCEPT !.at = "done", !.rows = rows]
<1>1. /\ Busy(ui) /\ ui.task \in TaskType /\ ui \in UiType  BY RunningTask
<1>2. r \in TaskType /\ r.op = ui.task.op /\ r.kpz = ui.task.kpz /\ r.id = ui.task.id
  BY <1>1 DEF TaskType
<1>3. ui' = [ui EXCEPT !.task = r]  BY <1>1 DEF Finish, UiType, TaskType
<1>4. FoundOK(r)  OBVIOUS
<1> HIDE DEF r
<1>5. UiOK(list, ui') /\ Busy(ui') /\ ui'.task = r
  BY <1>1, <1>2, <1>3, <1>4, TaskGoesOn DEF IInv
<1> QED BY <1>5 DEF r

LEMMA TaskReadsOK == ASSUME IInv, TaskReads PROVE IInv'
<1> DEFINE k == ui.task.kpz
           r(rows) == [ui.task EXCEPT !.at = "done", !.rows = rows]
<1>1. ASSUME NEW op \in Ops \ {"apply", "save_tpl"}, Running(op),
             NEW rows \in SUBSET Things, Finish(rows), FoundOK(r(rows)), UNCHANGED <<db, list>>
      PROVE  IInv'
  <2>1. UiOK(list, ui') /\ Busy(ui') /\ ui'.task = r(rows)  BY <1>1, FinishOK
  <2>2. ui'.task.op = op  BY <1>1, <2>1, RunningTask DEF TaskType
  <2>3. DbOK'  BY <1>1, <2>2 DEF IInv, DbOK, StoresItsOwn
  <2> QED BY <1>1, <2>1, <2>3 DEF IInv
<1>2. UNCHANGED <<db, list>>  BY DEF TaskReads
<1>3. ASSUME NEW op \in Ops, Running(op), NEW rows \in SUBSET Things
      PROVE  r(rows).op = op /\ r(rows).kpz = k /\ r(rows).rows = rows /\ r(rows).id = ui.task.id
  BY <1>3, RunningTask DEF TaskType
<1>4. CASE Running("windows") /\ Finish(WindowsOf(k))
  <2>1. "windows" \in Ops /\ k \in Kpz  BY <1>4, RunningTask DEF Ops
  <2>2. db.win[k] \subseteq Templates  BY <2>1 DEF IInv, DbOK
  <2>3. WindowsOf(k) \subseteq {k} \X Templates  BY <2>2 DEF WindowsOf
  <2>4. WindowsOf(k) \in SUBSET Things  BY <2>1, <2>3 DEF Things, Windows
  <2>5. FoundOK(r(WindowsOf(k)))  BY <1>3, <1>4, <2>1, <2>3, <2>4 DEF FoundOK
  <2> QED BY <1>1, <1>2, <1>4, <2>1, <2>4, <2>5
<1>5. CASE Running("klink") /\ Finish(LinkOf(k))
  <2>1. "klink" \in Ops /\ k \in Kpz  BY <1>5, RunningTask DEF Ops
  <2>2. LinkOf(k) \subseteq KpTemplates  BY <2>1 DEF IInv, DbOK, LinkOf
  <2>3. LinkOf(k) \in SUBSET Things  BY <2>2 DEF Things
  <2>4. FoundOK(r(LinkOf(k)))  BY <1>3, <1>5, <2>1, <2>2, <2>3 DEF FoundOK
  <2> QED BY <1>1, <1>2, <1>5, <2>1, <2>3, <2>4
<1>6. ASSUME NEW op \in {"templates", "links", "kptpls", "bindwins", "regs", "command"},
             Running(op) /\ Finish({})
      PROVE  IInv'
  <2>1. op \in Ops  BY DEF Ops
  <2>2. FoundOK(r({}))  BY <1>3, <1>6, <2>1 DEF FoundOK
  <2> QED BY <1>1, <1>2, <1>6, <2>1, <2>2
<1>7. ASSUME NEW op \in {"load_win", "load_tpl"}, Running(op) /\ Finish({ui.task.id})
      PROVE  IInv'
  <2>1. op \in Ops  BY DEF Ops
  <2>2. ui.task.id \in Things
    BY <1>7, <2>1, RunningTask DEF TaskOK, AskedOK, Things
  <2>3. FoundOK(r({ui.task.id}))  BY <1>3, <1>7, <2>1, <2>2 DEF FoundOK
  <2> QED BY <1>1, <1>2, <1>7, <2>1, <2>2, <2>3
<1> HIDE DEF r
<1> QED BY <1>4, <1>5, <1>6, <1>7 DEF TaskReads

\* What is stored for a template is its own: the rows were loaded from it, or drawn
\* while no template had its name.
LEMMA TaskSavesOK == ASSUME IInv, TaskSaves PROVE IInv'
<1> DEFINE t == ui.task.id
           new == t \notin DOMAIN db.stored
           own == CASE ui.task.rows = {} -> None
                    [] ui.task.rows = {"draft"} /\ new -> t
                    [] OTHER -> CHOOSE x \in ui.task.rows : TRUE
           r == [ui.task EXCEPT !.at = "done"]
<1>0. Running("save_tpl") /\ "save_tpl" \in Ops  BY DEF TaskSaves, Ops
<1>1. /\ Busy(ui) /\ ui.task \in TaskType /\ TaskOK(list, ui, ui.task) /\ ui \in UiType
      /\ ui.task.op = "save_tpl"
  BY <1>0, RunningTask
<1>2. t \in Templates /\ ui.task.rows \in {{t}, {"draft"}}  BY <1>1 DEF TaskOK, AskedOK, FoundOK
<1>3. ui.task.rows = {"draft"} => new  BY <1>0 DEF IInv, DbOK, Running
<1>4. own = t  BY <1>2, <1>3
<1>5. db' = [db EXCEPT !.stored = [x \in {t} \cup DOMAIN @ |-> IF x = t THEN t ELSE db.stored[x]]]
  BY <1>4 DEF TaskSaves, StoreRows
<1>6. UiOK(list, ui') /\ Busy(ui') /\ ui'.task = r
  <2>1. r \in TaskType /\ r.op = ui.task.op /\ r.kpz = ui.task.kpz /\ r.id = ui.task.id
        /\ r.rows = ui.task.rows
    BY <1>1 DEF TaskType
  <2>2. FoundOK(r)  BY <1>1, <1>2, <2>1 DEF FoundOK
  <2>3. ui' = [ui EXCEPT !.task = r]  BY <1>1 DEF TaskSaves, UiType, TaskType
  <2> HIDE DEF r
  <2> QED BY <1>1, <2>1, <2>2, <2>3, TaskGoesOn DEF IInv
<1>7. ui'.task.op = "save_tpl" /\ ui'.task.at = "done"  BY <1>1, <1>6 DEF TaskType
<1>8. DbOK'
  <2> DEFINE old == db.stored
             s == [x \in {t} \cup DOMAIN old |-> IF x = t THEN t ELSE old[x]]
  <2>1. DOMAIN s = {t} \cup DOMAIN old /\ \A x \in DOMAIN s : s[x] = IF x = t THEN t ELSE old[x]
    OBVIOUS
  <2>2. db' = [klink |-> db.klink, win |-> db.win, stored |-> s]
    <3>1. db = [klink |-> db.klink, win |-> db.win, stored |-> db.stored]  BY DEF IInv, DbOK
    <3> HIDE DEF s
    <3>2. db' = [db EXCEPT !.stored = s]  BY <1>5 DEF s
    <3> QED BY <3>1, <3>2
  <2> HIDE DEF s
  <2>3. db'.klink = db.klink /\ db'.win = db.win /\ db'.stored = s  BY <2>2
  <2> QED BY <1>2, <1>7, <2>1, <2>2, <2>3 DEF IInv, DbOK, StoresItsOwn
<1>9. UNCHANGED list  BY DEF TaskSaves
<1> QED BY <1>6, <1>8, <1>9 DEF IInv

\* A set is applied link first, and windows are created where there are none.
LEMMA TaskAppliesOK == ASSUME IInv, TaskApplies PROVE IInv'
<1> DEFINE k == ui.task.kpz
           p == ui.task.id
           on(at, todo) == [ui.task EXCEPT !.at = at, !.todo = todo]
<1>9. UNCHANGED list  BY DEF TaskApplies
<1>0. Running("apply") /\ "apply" \in Ops  BY DEF TaskApplies, Ops
<1>1. /\ Busy(ui) /\ ui.task \in TaskType /\ TaskOK(list, ui, ui.task) /\ ui \in UiType
      /\ ui.task.op = "apply" /\ k \in Kpz
  BY <1>0, RunningTask
<1>2. p \in KpTemplates /\ ui.task.rows \subseteq KpTemplates  BY <1>1 DEF TaskOK, AskedOK, FoundOK
<1>3. ASSUME NEW at \in {"run", "linked", "create", "cleared"}, NEW todo \in SUBSET Templates,
             ui' = [ui EXCEPT !.task = on(at, todo)]
      PROVE  /\ UiOK(list, ui') /\ Busy(ui') /\ ui'.task.op = "apply" /\ ui'.task.kpz = k
             /\ ui'.task.id = p /\ ui'.task.todo = todo
  <2>1. /\ on(at, todo) \in TaskType /\ on(at, todo).op = "apply" /\ on(at, todo).kpz = k
        /\ on(at, todo).id = p /\ on(at, todo).todo = todo /\ on(at, todo).rows = ui.task.rows
    BY <1>1 DEF TaskType
  <2>2. FoundOK(on(at, todo))  BY <1>2, <2>1 DEF FoundOK
  <2>3. UiOK(list, ui) /\ ui.task.op = "apply"  BY <1>1 DEF IInv
  <2> DEFINE r == on(at, todo)
  <2>4. ui' = [ui EXCEPT !.task = r]  BY <1>3
  <2>5. /\ r \in TaskType /\ r.op = "apply" /\ r.kpz = k /\ r.id = p /\ r.todo = todo /\ FoundOK(r)
    BY <2>1, <2>2
  <2> HIDE DEF r
  <2> QED BY <1>1, <2>3, <2>4, <2>5, TaskGoesOn
<1>4. db = [klink |-> db.klink, win |-> db.win, stored |-> db.stored]  BY DEF IInv, DbOK
<1>5. CASE ui.task.at = "run"
  <2>1. SetLink(k, p) /\ ui' = [ui EXCEPT !.task.at = "linked"]  BY <1>5 DEF TaskApplies
  <2>2. ui' = [ui EXCEPT !.task = on("linked", ui.task.todo)]  BY <1>1, <2>1 DEF UiType, TaskType
  <2>3. /\ UiOK(list, ui') /\ Busy(ui') /\ ui'.task.op = "apply" /\ ui'.task.kpz = k
        /\ ui'.task.id = p /\ ui'.task.todo = ui.task.todo
    <3>1. ui.task.todo \in SUBSET Templates  BY <1>1 DEF TaskType
    <3> HIDE DEF on
    <3> QED BY <1>3, <2>2, <3>1
  <2>4. /\ db'.klink = [db.klink EXCEPT ![k] = p] /\ db'.win = db.win /\ db'.stored = db.stored
        /\ db' = [klink |-> db'.klink, win |-> db'.win, stored |-> db'.stored]
    BY <1>4, <2>1 DEF SetLink
  <2>5. db'.klink \in [Kpz -> KpTemplates \cup {None}]  BY <1>2, <2>4 DEF IInv, DbOK
  <2>6. DbOK'  BY <1>1, <2>3, <2>4, <2>5 DEF IInv, DbOK, StoresItsOwn
  <2> QED BY <1>9, <2>3, <2>6 DEF IInv
<1>6. CASE ui.task.at = "linked"
  <2> DEFINE todo == IF db.win[k] = {} THEN Rows[p] ELSE {}
  <2>1. ui' = [ui EXCEPT !.task.at = "create", !.task.todo = todo] /\ UNCHANGED db
    BY <1>6 DEF TaskApplies
  <2>2. todo \in SUBSET Templates  BY <1>2, RowsAssumption
  <2>3. todo # {} => db.win[k] \cup todo \subseteq Rows[p]  OBVIOUS
  <2> HIDE DEF todo
  <2>4. ui' = [ui EXCEPT !.task = on("create", todo)]  BY <1>1, <2>1 DEF UiType, TaskType
  <2>5. /\ UiOK(list, ui') /\ Busy(ui') /\ ui'.task.op = "apply" /\ ui'.task.kpz = k
        /\ ui'.task.id = p /\ ui'.task.todo = todo
    <3> HIDE DEF on
    <3> QED BY <1>3, <2>2, <2>4
  <2>6. DbOK'  BY <2>1, <2>3, <2>5 DEF IInv, DbOK, StoresItsOwn
  <2> QED BY <1>9, <2>5, <2>6 DEF IInv
<1>7. CASE ui.task.at = "create" /\ ui.task.todo # {}
  <2>1. PICK c \in ui.task.todo : CreateWindow(k, c) /\ ui' = [ui EXCEPT !.task.todo = @ \ {c}]
    BY <1>7 DEF TaskApplies
  <2> DEFINE todo == ui.task.todo \ {c}
  <2>2. todo \in SUBSET Templates /\ c \in Templates  BY <1>1 DEF TaskType
  <2>3. ui' = [ui EXCEPT !.task = on("create", todo)]  BY <1>1, <1>7, <2>1, ZenonT(40) DEF UiType, TaskType
  <2>4. /\ UiOK(list, ui') /\ Busy(ui') /\ ui'.task.op = "apply" /\ ui'.task.kpz = k
        /\ ui'.task.id = p /\ ui'.task.todo = todo
    <3> HIDE DEF on, todo
    <3> QED BY <1>3, <2>2, <2>3
  <2>5. /\ db'.win = [db.win EXCEPT ![k] = @ \cup {c}] /\ db'.klink = db.klink
        /\ db'.stored = db.stored
        /\ db' = [klink |-> db'.klink, win |-> db'.win, stored |-> db'.stored]
    BY <1>4, <2>1 DEF CreateWindow
  <2>6. db.win \in [Kpz -> SUBSET Templates] /\ db.win[k] \cup ui.task.todo \subseteq Rows[p]
    BY <1>1, <1>7 DEF IInv, DbOK
  <2>7. /\ db'.win \in [Kpz -> SUBSET Templates] /\ db'.win[k] \cup todo \subseteq Rows[p]
        /\ \A x \in Kpz \ {k} : db'.win[x] = db.win[x]
    BY <1>1, <2>2, <2>5, <2>6
  <2>8. StoresItsOwn'
    <3>1. \A x \in Kpz : \E q \in KpTemplates : db'.win[x] \subseteq Rows[q]
      BY <1>2, <2>7 DEF IInv, DbOK, StoresItsOwn
    <3> QED BY <2>5, <3>1 DEF IInv, DbOK, StoresItsOwn
  <2>9. DbOK'  BY <2>4, <2>5, <2>7, <2>8 DEF IInv, DbOK
  <2> QED BY <1>9, <2>4, <2>9 DEF IInv
<1>8. CASE ~(ui.task.at = "run" \/ ui.task.at = "linked" \/ (ui.task.at = "create" /\ ui.task.todo # {}))
  <2>1. Finish(LinkOf(k)) /\ UNCHANGED db  BY <1>8 DEF TaskApplies
  <2>2. LinkOf(k) \subseteq KpTemplates  BY <1>1 DEF IInv, DbOK, LinkOf
  <2>3. LinkOf(k) \in SUBSET Things  BY <2>2 DEF Things
  <2> DEFINE r == [ui.task EXCEPT !.at = "done", !.rows = LinkOf(k)]
  <2>4. /\ r.op = "apply" /\ r.rows = LinkOf(k) /\ r.todo = ui.task.todo
        /\ r.kpz = k /\ r.id = p
    BY <1>1, <2>3 DEF TaskType
  <2>5. FoundOK(r)  BY <2>2, <2>4 DEF FoundOK
  <2>6. UiOK(list, ui') /\ Busy(ui') /\ ui'.task = r  BY <1>0, <2>1, <2>3, <2>5, FinishOK
  <2> HIDE DEF r
  <2>7. DbOK'  BY <1>1, <2>1, <2>4, <2>6 DEF IInv, DbOK, StoresItsOwn
  <2> QED BY <1>9, <2>6, <2>7 DEF IInv
<1> QED BY <1>5, <1>6, <1>7, <1>8

LEMMA TaskUnlinksOK == ASSUME IInv, TaskUnlinks PROVE IInv'
<1> DEFINE k == ui.task.kpz
<1>9. UNCHANGED list  BY DEF TaskUnlinks
<1>0. Running("unlink") /\ "unlink" \in Ops  BY DEF TaskUnlinks, Ops
<1>1. /\ Busy(ui) /\ ui.task \in TaskType /\ TaskOK(list, ui, ui.task) /\ ui \in UiType
      /\ ui.task.op = "unlink" /\ k \in Kpz
  BY <1>0, RunningTask
<1>2. db = [klink |-> db.klink, win |-> db.win, stored |-> db.stored]  BY DEF IInv, DbOK
<1>3. CASE ui.task.at = "run"
  <2>1. SetLink(k, None) /\ ui' = [ui EXCEPT !.task.at = "cleared"]  BY <1>3 DEF TaskUnlinks
  <2> DEFINE r == [ui.task EXCEPT !.at = "cleared"]
  <2>2. /\ r \in TaskType /\ r.op = "unlink" /\ r.kpz = k /\ r.id = ui.task.id
        /\ r.rows = ui.task.rows
    BY <1>1 DEF TaskType
  <2>3. ui' = [ui EXCEPT !.task = r]  BY <1>1, <2>1 DEF UiType, TaskType
  <2>4. FoundOK(r)  BY <1>1, <2>2 DEF TaskOK, FoundOK
  <2> HIDE DEF r
  <2>5. UiOK(list, ui') /\ Busy(ui') /\ ui'.task = r
    BY <1>1, <2>2, <2>3, <2>4, TaskGoesOn DEF IInv
  <2>6. /\ db'.klink = [db.klink EXCEPT ![k] = None] /\ db'.win = db.win /\ db'.stored = db.stored
        /\ db' = [klink |-> db'.klink, win |-> db'.win, stored |-> db'.stored]
    BY <1>2, <2>1 DEF SetLink
  <2>7. db'.klink \in [Kpz -> KpTemplates \cup {None}]  BY <2>6 DEF IInv, DbOK
  <2>8. DbOK'  BY <2>2, <2>5, <2>6, <2>7 DEF IInv, DbOK, StoresItsOwn
  <2> QED BY <1>9, <2>5, <2>8 DEF IInv
<1>4. CASE ui.task.at # "run"
  <2>1. DeleteWindows(k) /\ Finish({})  BY <1>4 DEF TaskUnlinks
  <2> DEFINE r == [ui.task EXCEPT !.at = "done", !.rows = {}]
  <2>2. r.op = "unlink" /\ r.rows = {}  BY <1>1 DEF TaskType
  <2>3. FoundOK(r)  BY <2>2 DEF FoundOK
  <2>4. UiOK(list, ui') /\ Busy(ui') /\ ui'.task = r  BY <1>0, <2>1, <2>3, FinishOK
  <2> HIDE DEF r
  <2>5. /\ db'.win = [db.win EXCEPT ![k] = {}] /\ db'.klink = db.klink /\ db'.stored = db.stored
        /\ db' = [klink |-> db'.klink, win |-> db'.win, stored |-> db'.stored]
    BY <1>2, <2>1 DEF DeleteWindows
  <2>6. /\ db'.win \in [Kpz -> SUBSET Templates]
        /\ \A x \in Kpz : db'.win[x] \subseteq db.win[x]
    BY <1>1, <2>5 DEF IInv, DbOK
  <2>7. StoresItsOwn'
    <3>1. \A x \in Kpz : \E q \in KpTemplates : db'.win[x] \subseteq Rows[q]
      BY <2>6 DEF IInv, DbOK, StoresItsOwn
    <3> QED BY <2>5, <3>1 DEF IInv, DbOK, StoresItsOwn
  <2>8. DbOK'  BY <2>2, <2>4, <2>5, <2>6, <2>7 DEF IInv, DbOK
  <2> QED BY <1>9, <2>4, <2>8 DEF IInv
<1> QED BY <1>3, <1>4

LEMMA TaskFailsOK == ASSUME IInv, TaskFails PROVE IInv'
<1> DEFINE r == [ui.task EXCEPT !.at = "done", !.ok = FALSE]
<1>0. ui \in UiType /\ ui.task \in TaskType \cup {NoTask}  BY DEF IInv, UiOK, ComingOK, Coming, ScreenOK, UiType
<1>1. CASE ~Busy(ui)
  <2>1. ui.task = NoTask  BY <1>1 DEF Busy
  <2>2. ui' = [ui EXCEPT !.task.at = "done", !.task.ok = FALSE] /\ UNCHANGED <<db, list>>
    BY DEF TaskFails
  <2>3. ui'.task = [NoTask EXCEPT !.at = "done", !.ok = FALSE]  BY <1>0, <2>1, <2>2 DEF UiType
  <2>4. ui'.task = NoTask  BY <2>3 DEF NoTask
  <2>5. ui' = ui  BY <1>0, <2>1, <2>2, <2>4 DEF UiType
  <2>6. UiOK(list, ui)' /\ (~Busy(ui) => ui.pend = {})'
    <3>1. UiOK(list, ui) /\ (~Busy(ui) => ui.pend = {})  BY DEF IInv
    <3>2. list' = list  BY <2>2
    <3> QED BY ONLY <2>5, <3>1, <3>2
            DEF UiOK, ComingOK, Coming, Busy, ScreenOK, TaskOK, AskedOK, ViewerOK, Viewed, TemplateOK,
                KpzOK, OfKpz, Moved
  <2> QED BY <2>2, <2>5, <2>6 DEF IInv, DbOK, StoresItsOwn
<1>2. CASE Busy(ui)
  <2>1. ui.task \in TaskType /\ TaskOK(list, ui, ui.task)  BY <1>2 DEF IInv, UiOK, ComingOK, Coming, TaskOK
  <2>2. /\ r \in TaskType /\ r.op = ui.task.op /\ r.kpz = ui.task.kpz /\ r.id = ui.task.id
        /\ r.rows = ui.task.rows /\ ~r.ok /\ r.at = "done" /\ r.todo = ui.task.todo
    BY <2>1 DEF TaskType
  <2>3. ui' = [ui EXCEPT !.task = r] /\ UNCHANGED <<db, list>>
    BY <1>0, <2>1 DEF TaskFails, UiType, TaskType
  <2>4. FoundOK(r)  BY <2>1, <2>2 DEF TaskOK, FoundOK
  <2> HIDE DEF r
  <2>5. UiOK(list, ui') /\ Busy(ui') /\ ui'.task = r
    BY <1>2, <2>2, <2>3, <2>4, TaskGoesOn DEF IInv
  <2>6. DbOK'  BY <2>2, <2>3, <2>5 DEF IInv, DbOK, StoresItsOwn
  <2> QED BY <2>3, <2>5, <2>6 DEF IInv
<1> QED BY <1>1, <1>2

\* A frame finds the answer, applies it to what is shown, and serves a flag.
LEMMA PollTaskOK == ASSUME IInv, PollTask PROVE IInv'
<1> DEFINE u == [ui EXCEPT !.task = NoTask]
           r == ui.task
           v == Loaded(u, r)
           m == IF list' = "read" /\ list # "read" THEN "stale" ELSE list'
<1>1. ui \in UiType /\ TaskOK(list, ui, r) /\ r.at = "done" /\ UiOK(list, ui)
  BY DEF PollTask, IInv, UiOK, ScreenOK
<1>2. /\ u.kpz = ui.kpz /\ u.open = ui.open /\ u.mode = ui.mode /\ u.pend = ui.pend
      /\ u.windows = ui.windows /\ u.selWin = ui.selWin /\ u.selTpl = ui.selTpl
      /\ u.bindSel = ui.bindSel /\ u.layout = ui.layout /\ u.live = ui.live
      /\ u.task = NoTask /\ u \in UiType /\ "task" \in DOMAIN u
  BY <1>1 DEF UiType
<1>3. /\ ui' = Served(v) /\ UNCHANGED db
      /\ list' = list \/ list' \in {"read", "stale"}
      /\ list' = "former" => ~(r.op = "windows" /\ r.kpz = ui.kpz)
      /\ list' = "read" /\ list # "read" =>
           /\ r.op = "windows" /\ r.kpz = ui.kpz /\ r.ok
           /\ ui'.selWin \in ui'.windows \cup {None}
      /\ list = "read" => list' = "read"
  BY DEF PollTask
<1>4. list \in ListStates  BY DEF IInv
<1>5. m \in {list, "stale"} /\ (m = "former" => list' = "former")  BY <1>3
<1> HIDE DEF u, m
<1>6. UiOK(m, ui)
  <2>1. ComingOK(m, ui)  BY <1>1, <1>5 DEF UiOK, ComingOK
  <2>2. m = list \/ m # "read"  BY <1>5
  <2>3. list = "stale" => m = "stale"  BY <1>5
  <2> QED BY <1>1, <2>1, <2>2, <2>3, Worse
<1>7. UiOK(m, u) /\ ~Busy(u) /\ TaskOK(m, u, r)
  <2>1. ScreenOK(m, u) /\ ~Busy(u)
    BY <1>2, <1>6 DEF UiOK, Busy, ScreenOK, ViewerOK, Viewed, TemplateOK, KpzOK, OfKpz, Moved
  <2>2. Busy(ui)  BY DEF PollTask
  <2>3. TaskOK(m, u, r)
    BY <1>2, <1>6, <2>2 DEF UiOK, TaskOK, AskedOK, Viewed, OfKpz, Moved
  <2>4. ComingOK(m, u)
    BY <1>2, <1>3, <1>5, <1>6 DEF UiOK, ComingOK, Coming
  <2> QED BY <2>1, <2>3, <2>4 DEF UiOK
<1>8. UiOK(m, v)  BY <1>1, <1>7, LoadedOK
<1>9. ReadsOnly(u, v)  BY <1>2, ResultsRead
<1>10. ReadsOnly(v, Served(v))  BY <1>9, ResultsRead DEF ReadsOnly
<1> HIDE DEF v
<1>11. UiOK(m, ui') /\ (~Busy(ui') => ui'.pend = {})
  <2>1. UiOK(m, Served(v)) /\ (~Busy(Served(v)) => Served(v).pend = {})  BY <1>8, ServedOK
  <2> QED BY <1>3, <2>1
<1>12. UiOK(list', ui')
  <2>1. CASE list' = "read" /\ list # "read"
    <3>1. v = WindowsLoaded(u, r)  BY <1>3, <2>1 DEF v, Loaded
    <3>2. r.rows \subseteq {u.kpz} \X Templates  BY <1>2, <1>3, <1>7, <2>1 DEF TaskOK, FoundOK
    <3>3. Fresh(u.kpz, ui')
      <4>1. Fresh(u.kpz, Served(WindowsLoaded(u, r)))  BY <1>2, <1>7, <3>2, FreshWindows
      <4> QED BY <1>3, <3>1, <4>1
    <3>4. u.kpz = ui'.kpz  BY <3>3 DEF Fresh
    <3>5. UiOK("read", ui')
      <4> DEFINE w == ui'
      <4>1. UiOK(m, w) /\ Fresh(w.kpz, w) /\ w.selWin \in w.windows \cup {None}
        BY <1>3, <1>11, <2>1, <3>3, <3>4
      <4> HIDE DEF w
      <4>2. UiOK("read", w)  BY <4>1, FreshOK
      <4> QED BY <4>2 DEF w
    <3> QED BY <2>1, <3>5
  <2>2. CASE ~(list' = "read" /\ list # "read")
    <3>1. m = list'  BY <2>2 DEF m
    <3> QED BY <1>11, <3>1
  <2> QED BY <2>1, <2>2
<1>13. ui'.task = NoTask \/ ui'.task.op \notin {"save_tpl", "apply"}
  BY <1>2, <1>3, <1>9, <1>10, ReadsOn DEF ReadsOnly
<1>14. ui'.task.op \notin {"save_tpl", "apply"}  BY <1>13, NoTaskIs
<1>15. DbOK'  BY <1>3, <1>14 DEF IInv, DbOK, StoresItsOwn
<1>16. list' \in ListStates  BY <1>3, <1>4 DEF ListStates
<1> QED BY <1>11, <1>12, <1>15, <1>16 DEF IInv

-----------------------------------------------------------------------------
(* The user *)

\* The user does nothing the manual tells not to.
Careful == Slips = {}

\* What a click starts spoils nothing stored.
Harmless(x) ==
  \/ x.task = ui.task
  \/ /\ x.task.op = "apply" => x.task.todo = {}
     /\ x.task.op = "save_tpl" /\ x.task.rows = {"draft"} => x.task.id \notin DOMAIN db.stored

\* Windows that are on their way stay so while nothing of them is touched.
LEMMA ComingKept ==
  ASSUME NEW l, NEW u, UiOK(l, u), NEW v, v.kpz = u.kpz, v.pend = u.pend, v.task = u.task,
         "viewer" \in v.open => "viewer" \in u.open
  PROVE  ComingOK(l, v)
BY DEF UiOK, ComingOK, Coming

LEMMA ClickOK ==
  ASSUME IInv, NEW x, Click(x), x.task = Shown(x).task, Harmless(x),
         UiOK(list, Shown(x)), ~Busy(Shown(x)) => Shown(x).pend = {}
  PROVE  IInv'
<1>1. ui' = Shown(x) /\ UNCHANGED <<db, list>>  BY DEF Click, Press
<1>2. ui'.task = x.task  BY <1>1
<1>3. DbOK'
  <2>1. CASE x.task = ui.task  BY <1>1, <1>2, <2>1 DEF IInv, DbOK, StoresItsOwn
  <2>2. CASE x.task # ui.task  BY <1>1, <1>2, <2>2 DEF IInv, DbOK, StoresItsOwn, Harmless
  <2> QED BY <2>1, <2>2
<1> QED BY <1>1, <1>3 DEF IInv

\* Only the panel that was just opened can be out of step with the mode.
LEMMA ShownIs ==
  ASSUME NEW l, NEW x, UiOK(l, x)
  PROVE  Shown(x) = x
BY DEF Shown, UiOK, ComingOK, Coming, ScreenOK, TemplateOK, UiType

LEMMA RequestClickOK ==
  ASSUME IInv, NEW x, Click(x), UiOK(list, x), ~Busy(x) => x.pend = {}, Harmless(x)
  PROVE  IInv'
BY ClickOK, ShownIs

LEMMA ReadingClickOK ==
  ASSUME IInv, NEW x, Click(x), UiOK(list, x), ~Busy(x) => x.pend = {}, ReadsOnly(ui, x)
  PROVE  IInv'
BY RequestClickOK DEF Harmless, ReadsOnly

LEMMA UiFacts ==
  ASSUME IInv
  PROVE  /\ UiOK(list, ui) /\ ScreenOK(list, ui) /\ ui \in UiType /\ "task" \in DOMAIN ui
         /\ ~Busy(ui) => ui.pend = {} /\ ui.task = NoTask /\ (list = "read" => ~Moved(list, ui))
         /\ list \in ListStates
BY DEF IInv, UiOK, ScreenOK, UiType, Moved, Busy

\* With a panel open all that was shown is read again; with none it is only known that the
\* list is of the former control point.
LEMMA SelectKpzOK == ASSUME IInv, NEW k \in Kpz, SelectKpz(k) PROVE IInv'
<1> DEFINE u == [ui EXCEPT !.kpz = k]
           x == refresh_ui_link_for_selected_kpz(u)
<1>1. /\ u.kpz = k /\ u.open = ui.open /\ u.mode = ui.mode /\ u.pend = ui.pend
      /\ u.windows = ui.windows /\ u.selWin = ui.selWin /\ u.selTpl = ui.selTpl
      /\ u.bindSel = ui.bindSel /\ u.layout = ui.layout /\ u.live = ui.live
      /\ u.task = ui.task /\ u \in UiType /\ "task" \in DOMAIN u
  BY UiFacts DEF UiType
<1>2. /\ u.open # {} => Click(x)
      /\ u.open = {} => Press(u) /\ list' = IF list = "stale" THEN list ELSE "former"
  BY <1>1 DEF SelectKpz
<1>3. TemplateOK(u) /\ ("bindwins" \in u.pend => u.bindSel # None) /\ ViewerOK(u)
  BY <1>1, UiFacts DEF ScreenOK, TemplateOK, ViewerOK, Viewed
<1> HIDE DEF u
<1>4. ReadsOnly(ui, u) /\ ReadsOnly(u, x)  BY <1>1, RequestsRead DEF ReadsOnly
<1>5. Busy(u) <=> Busy(ui)  BY <1>1 DEF Busy
<1>6. CASE u.open # {} /\ ~Busy(ui)
  <2>1. UiOK(list, x) /\ Busy(x)  BY <1>1, <1>3, <1>5, <1>6, RefreshOK
  <2> HIDE DEF x
  <2> QED BY <1>2, <1>4, <1>6, <2>1, ReadingClickOK, ReadsOn
<1>7. CASE u.open # {} /\ Busy(ui)
  <2> DEFINE q == u.pend \cup {"refresh"}
             v == [u EXCEPT !.pend = q]
  <2>1. x = v  BY <1>5, <1>7 DEF refresh_ui_link_for_selected_kpz
  <2>2. q \in SUBSET {"bindwins", "windows", "refresh"}  BY <1>1 DEF UiType
  <2>3. "refresh" \in q /\ ("bindwins" \in q <=> "bindwins" \in u.pend)  OBVIOUS
  <2> HIDE DEF q
  <2>4. /\ v.kpz = u.kpz /\ v.open = u.open /\ v.mode = u.mode /\ v.pend = q
        /\ v.windows = u.windows /\ v.selWin = u.selWin /\ v.selTpl = u.selTpl
        /\ v.bindSel = u.bindSel /\ v.layout = u.layout /\ v.live = u.live
        /\ v.task = u.task /\ v \in UiType
    BY <1>1, <2>2 DEF UiType
  <2> HIDE DEF v
  <2>5. ScreenOK(list, v)
    BY <1>3, <2>3, <2>4 DEF ScreenOK, ViewerOK, Viewed, TemplateOK, KpzOK, Moved
  <2>6. TaskOK(list, v, v.task) /\ Busy(v)
    BY <1>1, <1>7, <2>3, <2>4, UiFacts DEF UiOK, Busy, TaskOK, AskedOK, Viewed, Moved
  <2>7. ComingOK(list, v)  BY <2>3, <2>4 DEF ComingOK, Coming
  <2> HIDE DEF x
  <2> QED BY <1>2, <1>4, <1>7, <2>1, <2>5, <2>6, <2>7, ReadingClickOK, ReadsOn DEF UiOK
<1>8. CASE u.open = {}
  <2> DEFINE m == IF list = "stale" THEN list ELSE "former"
  <2>1. Press(u) /\ list' = m  BY <1>2, <1>8
  <2>2. m \in {"former", "stale"} /\ (list = "stale" => m = "stale")  OBVIOUS
  <2>3. ui' = u /\ db' = db  BY <1>8, <2>1 DEF Press, Shown
  <2> HIDE DEF m
  <2>4. ScreenOK(m, u)
    BY <1>1, <1>3, <2>2 DEF ScreenOK, KpzOK, Moved
  <2>5. Busy(u) => TaskOK(m, u, u.task)
    BY <1>1, <1>5, <2>2, UiFacts DEF UiOK, TaskOK, AskedOK, Viewed, Moved
  <2>6. ComingOK(m, u)  BY <1>8 DEF ComingOK
  <2>7. UiOK(list', ui')  BY <2>1, <2>3, <2>4, <2>5, <2>6 DEF UiOK
  <2>8. DbOK'  BY <1>1, <2>3 DEF IInv, DbOK, StoresItsOwn
  <2>9. ~Busy(ui)' => ui'.pend = {}  BY <1>1, <2>3, UiFacts DEF Busy
  <2> QED BY <2>1, <2>2, <2>7, <2>8, <2>9 DEF IInv, ListStates
<1> QED BY <1>6, <1>7, <1>8

LEMMA ClosePanelOK == ASSUME IInv, NEW panel \in Panels, ClosePanel(panel) PROVE IInv'
<1> DEFINE x == [ui EXCEPT !.open = @ \ {panel}]
<1>1. Click(x)  BY DEF ClosePanel
<1>2. /\ x.kpz = ui.kpz /\ x.open = ui.open \ {panel} /\ x.mode = ui.mode /\ x.pend = ui.pend
      /\ x.windows = ui.windows /\ x.selWin = ui.selWin /\ x.selTpl = ui.selTpl
      /\ x.bindSel = ui.bindSel /\ x.layout = ui.layout /\ x.live = ui.live
      /\ x.task = ui.task /\ x \in UiType /\ "task" \in DOMAIN x
  BY UiFacts DEF UiType
<1>3. ScreenOK(list, x)
  BY <1>2, UiFacts DEF ScreenOK, ViewerOK, Viewed, TemplateOK, KpzOK, OfKpz, Moved
<1>4. Busy(ui) => TaskOK(list, x, x.task)
  BY <1>2, UiFacts DEF UiOK, ComingOK, Coming, TaskOK, AskedOK, Viewed, OfKpz, Moved
<1>5. (Busy(x) <=> Busy(ui)) /\ ReadsOnly(ui, x)  BY <1>2 DEF Busy, ReadsOnly
<1>6. ~Busy(x) => x.pend = {}  BY <1>2, <1>5, UiFacts
<1>8. ComingOK(list, x)  BY <1>2, UiFacts, ComingKept
<1> HIDE DEF x
<1>7. UiOK(list, x)  BY <1>3, <1>4, <1>5, <1>8 DEF UiOK
<1> QED BY <1>1, <1>5, <1>6, <1>7, ReadingClickOK

LEMMA ReloadWindowsClickOK == ASSUME IInv, ReloadWindows PROVE IInv'
<1>1. Click(ui_link_reload_windows(ui))  BY DEF ReloadWindows
<1> QED BY <1>1, UiFacts, ReloadWindowsOK, RequestsRead, ReadingClickOK DEF UiOK

LEMMA SelectWindowOK == ASSUME IInv, NEW w \in ui.windows, SelectWindow(w) PROVE IInv'
<1> DEFINE x == ui_link_load_window(ui, w)
<1>1. Click(x)  BY DEF SelectWindow
<1>2. w \in Windows  BY UiFacts DEF UiType
<1>3. Moved(list, ui) \/ w[1] = ui.kpz  BY UiFacts DEF ScreenOK, KpzOK
<1>4. UiOK(list, x) /\ x.pend = ui.pend /\ (Busy(ui) => x = ui)  BY <1>2, <1>3, UiFacts, LoadWindowOK
<1>5. ReadsOnly(ui, x)  BY UiFacts, RequestsRead
<1> HIDE DEF x
<1> QED BY <1>1, <1>4, <1>5, UiFacts, ReadingClickOK

\* A panel comes to the front; while the template editor is open it keeps the mode.
LEMMA OpenPanelOK == ASSUME Careful, IInv, NEW panel \in Panels, OpenPanel(panel) PROVE IInv'
<1> DEFINE u == [ui EXCEPT !.open = @ \cup {panel}, !.mode = IF panel = "viewer" THEN @ ELSE panel]
<1>1. /\ u.kpz = ui.kpz /\ u.open = ui.open \cup {panel}
      /\ u.mode = (IF panel = "viewer" THEN ui.mode ELSE panel) /\ u.pend = ui.pend
      /\ u.windows = ui.windows /\ u.selWin = ui.selWin /\ u.selTpl = ui.selTpl
      /\ u.bindSel = ui.bindSel /\ u.layout = ui.layout /\ u.live = ui.live
      /\ u.task = ui.task /\ u \in UiType /\ "task" \in DOMAIN u
  <2> DEFINE m == IF panel = "viewer" THEN ui.mode ELSE panel
             a == [ui EXCEPT !.open = @ \cup {panel}]
             b == [a EXCEPT !.mode = m]
  <2>1. m \in Panels \cup {"none"}  BY UiFacts DEF UiType
  <2> HIDE DEF m
  <2>2. /\ a.kpz = ui.kpz /\ a.open = ui.open \cup {panel} /\ a.mode = ui.mode /\ a.pend = ui.pend
        /\ a.windows = ui.windows /\ a.selWin = ui.selWin /\ a.selTpl = ui.selTpl
        /\ a.bindSel = ui.bindSel /\ a.layout = ui.layout /\ a.live = ui.live
        /\ a.task = ui.task /\ a \in UiType
    BY UiFacts DEF UiType
  <2>3. u = b  BY UiFacts, <2>2 DEF UiType, m
  <2> HIDE DEF a, u
  <2>4. /\ b.kpz = a.kpz /\ b.open = a.open /\ b.mode = m /\ b.pend = a.pend
        /\ b.windows = a.windows /\ b.selWin = a.selWin /\ b.selTpl = a.selTpl
        /\ b.bindSel = a.bindSel /\ b.layout = a.layout /\ b.live = a.live
        /\ b.task = a.task /\ b \in UiType /\ "task" \in DOMAIN b
    BY <2>1, <2>2 DEF UiType
  <2> HIDE DEF b
  <2> QED BY <2>2, <2>3, <2>4 DEF m
<1>2. CASE panel = "template"
  <2>1. /\ Click(Try(u, "templates", None)) /\ ui.layout = ui.selTpl /\ ui.task.op # "load_win"
        /\ "viewer" \in ui.open => ui.selWin = None
    BY <1>2 DEF Careful, OpenPanel
  <2> HIDE DEF u
  <2>2. ScreenOK(list, u)
    BY <1>1, <1>2, <2>1, UiFacts DEF ScreenOK, ViewerOK, Viewed, TemplateOK, KpzOK, OfKpz, Moved
  <2>3. Busy(ui) => TaskOK(list, u, u.task)
    BY <1>1, <1>2, <2>1, UiFacts DEF UiOK, ComingOK, Coming, TaskOK, AskedOK, Viewed, OfKpz, Moved
  <2>7. ComingOK(list, u)  BY <1>1, <1>2, UiFacts, ComingKept
  <2>4. UiOK(list, u)  BY <1>1, <2>2, <2>3, <2>7 DEF UiOK, Busy
  <2>5. UiOK(list, Try(u, "templates", None)) /\ Busy(Try(u, "templates", None))
    BY <2>2, <2>4, TryOK, ListsStartable
  <2>6. ReadsOnly(ui, u) /\ ReadsOnly(u, Try(u, "templates", None))  BY <1>1, SpawnReads DEF ReadsOnly
  <2> QED BY <2>1, <2>5, <2>6, ReadsOn, ReadingClickOK
<1>3. CASE panel = "viewer"
  <2> DEFINE v == [u EXCEPT !.selWin = None, !.layout = None, !.live = None]
             x == ui_link_reload_windows(v)
  <2>1. Click(x) /\ ui.mode \notin {"template", "kp_template"}
    BY <1>3 DEF Careful, OpenPanel
  <2> HIDE DEF u
  <2>2. /\ v.kpz = u.kpz /\ v.open = u.open /\ v.mode = u.mode /\ v.pend = u.pend
        /\ v.windows = u.windows /\ v.selWin = None /\ v.selTpl = u.selTpl
        /\ v.bindSel = u.bindSel /\ v.layout = None /\ v.live = None
        /\ v.task = u.task /\ v \in UiType /\ "task" \in DOMAIN v
    BY <1>1, ZenonT(40) DEF UiType
  <2>3. "template" \notin ui.open  BY <2>1, UiFacts DEF ScreenOK, TemplateOK
  <2>4. ScreenOK(list, v)
    BY <1>1, <1>3, <2>2, <2>3, UiFacts, NamesAssumption
    DEF ScreenOK, ViewerOK, Viewed, TemplateOK, KpzOK, OfKpz, Moved, Windows
  <2>5. Busy(ui) => TaskOK(list, v, v.task)
    BY <1>1, <1>3, <2>2, <2>3, UiFacts DEF UiOK, ComingOK, Coming, TaskOK, AskedOK, Viewed, OfKpz, Moved
  <2>6. ScreenOK(list, v) /\ (Busy(v) => TaskOK(list, v, v.task))
    BY <1>1, <2>2, <2>4, <2>5 DEF Busy
  <2>7. ReadsOnly(ui, v)  BY <1>1, <2>2 DEF ReadsOnly
  <2> HIDE DEF v
  <2>8. UiOK(list, x) /\ Busy(x) /\ ReadsOnly(v, x)  BY <2>2, <2>6, ReloadWindowsOK, RequestsRead
  <2> HIDE DEF x
  <2> QED BY <2>1, <2>7, <2>8, ReadsOn, ReadingClickOK
<1>4. CASE panel \notin {"template", "viewer"}
  <2> DEFINE x == Try(u, "kptpls", None)
             v == Shown(u)
             y == Try(v, "kptpls", None)
  <2>1. Click(x)  BY <1>4 DEF OpenPanel
  <2>2. panel # "template" /\ panel # "viewer" /\ panel \in Panels  BY <1>4
  <2> HIDE DEF u
  <2>3. /\ v.kpz = u.kpz /\ v.open = u.open /\ v.pend = u.pend
        /\ v.mode = IF "template" \in u.open THEN "template" ELSE u.mode
        /\ v.windows = u.windows /\ v.selWin = u.selWin /\ v.selTpl = u.selTpl
        /\ v.bindSel = u.bindSel /\ v.layout = u.layout /\ v.live = u.live
        /\ v.task = u.task /\ v \in UiType /\ "task" \in DOMAIN v
    BY <1>1 DEF Shown, UiType, Panels
  <2>4. ScreenOK(list, v)
    BY <1>1, <2>2, <2>3, UiFacts DEF ScreenOK, ViewerOK, Viewed, TemplateOK, KpzOK, OfKpz, Moved
  <2>5. Busy(ui) => TaskOK(list, v, v.task)
    BY <1>1, <2>2, <2>3, UiFacts DEF UiOK, ComingOK, Coming, TaskOK, AskedOK, Viewed, OfKpz, Moved
  <2>11. ComingOK(list, v)  BY <1>1, <2>2, <2>3, UiFacts, ComingKept
  <2>6. UiOK(list, v)  BY <1>1, <2>3, <2>4, <2>5, <2>11 DEF UiOK, Busy
  <2>7. Shown(x) = y /\ x.task = y.task
    <3>1. CASE Busy(u)
      <4>1. Busy(v)  BY <2>3, <3>1 DEF Busy
      <4> QED BY <2>3, <3>1, <4>1 DEF Try
    <3>2. CASE ~Busy(u)
      <4>1. ~Busy(v)  BY <2>3, <3>2 DEF Busy
      <4>2. x = [u EXCEPT !.task = Task("kptpls", u.kpz, None)]  BY <3>2 DEF Try, Spawn
      <4>3. y = [v EXCEPT !.task = Task("kptpls", u.kpz, None)]  BY <2>3, <4>1 DEF Try, Spawn
      <4> HIDE DEF x, y
      <4>4. x.open = u.open /\ x.task = y.task  BY <1>1, <2>3, <4>2, <4>3 DEF UiType
      <4> DEFINE t == Task("kptpls", u.kpz, None)
      <4>5. Shown(x) = y
        <5> HIDE DEF t
        <5> QED BY <1>1, <4>2, <4>3, <4>4 DEF Shown, UiType, t
      <4> QED BY <4>4, <4>5
    <3> QED BY <3>1, <3>2
  <2>8. UiOK(list, y) /\ Busy(y)
    <3> HIDE DEF v
    <3> QED BY <2>6, TryOK, ListsStartable DEF UiOK
  <2>9. ReadsOnly(ui, u) /\ ReadsOnly(u, x)  BY <1>1, SpawnReads DEF ReadsOnly
  <2>10. Harmless(x)  BY <2>9, ReadsOn DEF ReadsOnly, Harmless
  <2> HIDE DEF x, y
  <2> QED BY <2>1, <2>7, <2>8, <2>10, ClickOK
<1> QED BY <1>2, <1>3, <1>4

LEMMA SelectTemplateOK ==
  ASSUME Careful, IInv, NEW t \in Templates \cup {None}, SelectTemplate(t) PROVE IInv'
<1> DEFINE v == [ui EXCEPT !.selTpl = t]
           x == ui_link_select_template(ui, t)
<1>1. Click(x) /\ "template" \in ui.open /\ ~Busy(ui)  BY DEF Careful, SelectTemplate, Waits
<1>2. ui.mode = "template" /\ ~Viewed(ui)  BY <1>1, UiFacts DEF ScreenOK, TemplateOK
<1>3. CASE t = None
  <2> DEFINE w == [v EXCEPT !.layout = None]
  <2>1. x = w  BY <1>2, <1>3 DEF ui_link_select_template
  <2>2. /\ w.kpz = ui.kpz /\ w.open = ui.open /\ w.mode = ui.mode /\ w.pend = ui.pend
        /\ w.windows = ui.windows /\ w.selWin = ui.selWin /\ w.selTpl = None
        /\ w.bindSel = ui.bindSel /\ w.layout = None /\ w.live = ui.live
        /\ w.task = ui.task /\ w \in UiType /\ "task" \in DOMAIN w
    BY <1>3, UiFacts, ZenonT(40) DEF UiType
  <2>3. ScreenOK(list, w)
    BY <1>2, <2>2, UiFacts, NamesAssumption
    DEF ScreenOK, ViewerOK, Viewed, TemplateOK, KpzOK, OfKpz, Moved, Windows
  <2>4. UiOK(list, w) /\ w.pend = {} /\ ReadsOnly(ui, w)  BY <1>1, <2>2, <2>3, UiFacts DEF UiOK, ComingOK, Coming, Busy, ReadsOnly
  <2> HIDE DEF w, x
  <2> QED BY <1>1, <2>1, <2>4, ReadingClickOK
<1>4. CASE t # None
  <2> DEFINE y == [v EXCEPT !.layout = None, !.live = None]
  <2>1. t \in Templates  BY <1>4
  <2>2. x = Spawn(y, "load_tpl", t)
    <3>1. x = ui_link_load_template(v, t)  BY <1>2, <1>4 DEF ui_link_select_template
    <3>2. ~Busy(v) /\ [v EXCEPT !.selTpl = t, !.layout = None, !.live = None] = y
      BY <1>1, UiFacts DEF Busy, UiType
    <3> QED BY <3>1, <3>2 DEF ui_link_load_template
  <2>3. /\ y.kpz = ui.kpz /\ y.open = ui.open /\ y.mode = ui.mode /\ y.pend = ui.pend
        /\ y.windows = ui.windows /\ y.selWin = ui.selWin /\ y.selTpl = t
        /\ y.bindSel = ui.bindSel /\ y.layout = None /\ y.live = None
        /\ y.task = ui.task /\ y \in UiType /\ "task" \in DOMAIN y
    BY <2>1, UiFacts, ZenonT(40) DEF UiType
  <2>4. ScreenOK(list, y)
    BY <1>2, <2>3, UiFacts, NamesAssumption
    DEF ScreenOK, ViewerOK, Viewed, TemplateOK, KpzOK, OfKpz, Moved, Windows
  <2>5. Startable(list, y, "load_tpl", t)
    BY <1>2, <2>1, <2>3 DEF Startable, Ops, Things, AskedOK, Viewed
  <2>8. ~Busy(y) /\ ComingOK(list, y)
    <3>1. y.task = ui.task /\ y.kpz = ui.kpz /\ y.pend = ui.pend /\ y.open = ui.open  BY <2>3
    <3> HIDE DEF y
    <3> QED BY <1>1, <3>1, UiFacts, ComingKept DEF Busy
  <2> HIDE DEF y
  <2>6. UiOK(list, x) /\ Busy(x)  BY <2>2, <2>4, <2>5, <2>8, SpawnOK
  <2>7. ReadsOnly(ui, y) /\ ReadsOnly(y, x)  BY <2>2, <2>3, SpawnReads DEF ReadsOnly
  <2> HIDE DEF x
  <2> QED BY <1>1, <2>6, <2>7, ReadsOn, ReadingClickOK
<1> QED BY <1>3, <1>4

LEMMA EditLayoutOK == ASSUME Careful, IInv, EditLayout PROVE IInv'
<1> DEFINE x == [ui EXCEPT !.layout = "draft"]
<1>1. Click(x) /\ "template" \in ui.open /\ ui.selTpl = None  BY DEF Careful, EditLayout
<1>2. /\ x.kpz = ui.kpz /\ x.open = ui.open /\ x.mode = ui.mode /\ x.pend = ui.pend
      /\ x.windows = ui.windows /\ x.selWin = ui.selWin /\ x.selTpl = None
      /\ x.bindSel = ui.bindSel /\ x.layout = "draft" /\ x.live = ui.live
      /\ x.task = ui.task /\ x \in UiType /\ "task" \in DOMAIN x
  BY <1>1, UiFacts DEF UiType
<1>3. ScreenOK(list, x)
  BY <1>1, <1>2, UiFacts, NamesAssumption
  DEF ScreenOK, ViewerOK, Viewed, TemplateOK, KpzOK, OfKpz, Moved, Windows
<1>4. Busy(ui) => TaskOK(list, x, x.task)
  BY <1>2, UiFacts DEF UiOK, ComingOK, Coming, TaskOK, AskedOK, Viewed, OfKpz, Moved
<1>5. (Busy(x) <=> Busy(ui)) /\ ReadsOnly(ui, x)  BY <1>2 DEF Busy, ReadsOnly
<1>6. ~Busy(x) => x.pend = {}  BY <1>2, <1>5, UiFacts
<1>8. ComingOK(list, x)  BY <1>2, UiFacts, ComingKept
<1> HIDE DEF x
<1>7. UiOK(list, x)  BY <1>3, <1>4, <1>5, <1>8 DEF UiOK
<1> QED BY <1>1, <1>5, <1>6, <1>7, ReadingClickOK

\* The rows on screen are of the template they are saved for, or drawn for a new one.
LEMMA SaveOK ==
  ASSUME IInv, NEW t \in Templates, "template" \in ui.open, Click(SaveTemplate(ui, t)),
         ui.layout \in {t, "draft"}, ui.layout = "draft" => t \notin DOMAIN db.stored
  PROVE  IInv'
<1> DEFINE x == SaveTemplate(ui, t)
<1>0. Click(x)  OBVIOUS
<1>1. CASE Busy(ui)
  <2>1. x = ui /\ Harmless(ui)  BY <1>1 DEF SaveTemplate, Harmless
  <2> HIDE DEF x
  <2> QED BY <1>0, <1>1, <2>1, UiFacts, RequestClickOK
<1>2. CASE ~Busy(ui)
  <2> DEFINE s == Task("save_tpl", ui.kpz, t)
             r == [s EXCEPT !.rows = {ui.layout}]
             v == [ui EXCEPT !.task = r]
  <2>1. x = v
    <3>1. ui.layout # None  BY NamesAssumption
    <3>2. {ui.layout} \ {None} = {ui.layout}  BY <3>1
    <3>3. Spawn(ui, "save_tpl", t) = [ui EXCEPT !.task = s]  BY DEF Spawn
    <3> HIDE DEF s
    <3>4. [[ui EXCEPT !.task = s] EXCEPT !.task.rows = {ui.layout}] = v
      BY UiFacts DEF UiType
    <3> QED BY <1>2, <3>2, <3>3, <3>4 DEF SaveTemplate
  <2>2. s \in TaskType /\ s.op = "save_tpl" /\ s.kpz = ui.kpz /\ s.id = t
    BY TaskIs, UiFacts DEF UiType, Ops, Things
  <2> HIDE DEF s
  <2>3. /\ r \in TaskType /\ r # NoTask
        /\ r.op = "save_tpl" /\ r.kpz = ui.kpz /\ r.id = t /\ r.rows = {ui.layout}
    <3>1. {ui.layout} \in SUBSET Things  BY DEF Things
    <3>2. /\ r \in TaskType /\ r.op = s.op /\ r.kpz = s.kpz /\ r.id = s.id
          /\ r.rows = {ui.layout}
      BY <2>2, <3>1 DEF TaskType
    <3> QED BY <2>2, <3>2, NoTaskIs
  <2> HIDE DEF r
  <2>4. /\ v.kpz = ui.kpz /\ v.open = ui.open /\ v.mode = ui.mode /\ v.pend = ui.pend
        /\ v.windows = ui.windows /\ v.selWin = ui.selWin /\ v.selTpl = ui.selTpl
        /\ v.bindSel = ui.bindSel /\ v.layout = ui.layout /\ v.live = ui.live
        /\ v.task = r /\ v \in UiType
    BY <2>3, UiFacts DEF UiType
  <2>5. ~Viewed(ui)  BY UiFacts DEF ScreenOK, TemplateOK
  <2>6. ScreenOK(list, v)
    BY <2>4, UiFacts DEF ScreenOK, ViewerOK, Viewed, TemplateOK, KpzOK, OfKpz, Moved
  <2>7. TaskOK(list, v, r) /\ Busy(v)
    BY <2>3, <2>4, <2>5 DEF TaskOK, AskedOK, FoundOK, Viewed, Busy
  <2>8. Harmless(v)
    <3>1. r.rows = {"draft"} => r.id \notin DOMAIN db.stored  BY <2>3
    <3> HIDE DEF v
    <3> QED BY <2>3, <2>4, <3>1 DEF Harmless
  <2>9. ComingOK(list, v)
    <3>1. ~(list = "former" /\ "viewer" \in ui.open)
      BY <1>2, UiFacts, NoTaskIs DEF UiOK, ComingOK, Coming, Ops
    <3> QED BY <2>4, <3>1 DEF ComingOK
  <2> HIDE DEF v, x
  <2> QED BY <1>0, <2>1, <2>4, <2>6, <2>7, <2>8, <2>9, RequestClickOK DEF UiOK
<1> QED BY <1>1, <1>2

LEMMA SaveAllOK == ASSUME Careful, IInv, SaveAll PROVE IInv'
<1>1. /\ Click(SaveTemplate(ui, ui.selTpl)) /\ "template" \in ui.open
      /\ ui.selTpl # None /\ ui.layout # None
  BY DEF Careful, SaveAll
<1>2. ui.selTpl \in Templates  BY <1>1, UiFacts DEF UiType
<1>3. ui.layout = ui.selTpl  BY <1>1, UiFacts DEF ScreenOK, TemplateOK
<1>4. ui.layout # "draft"  BY <1>2, <1>3, NamesAssumption
<1> QED BY <1>1, <1>2, <1>3, <1>4, SaveOK

LEMMA SaveNewTemplateOK ==
  ASSUME Careful, IInv, NEW t \in Templates, SaveNewTemplate(t) PROVE IInv'
BY SaveOK DEF Careful, SaveNewTemplate

\* Another set is chosen, or none, and its windows are no longer listed.
Choosing(u, c) == [u EXCEPT !.bindSel = c, !.bindWins = None]

LEMMA BindingSet ==
  ASSUME NEW u \in UiType, NEW c \in KpTemplates \cup {None}
  PROVE  LET v == Choosing(u, c)
         IN  /\ v.kpz = u.kpz /\ v.open = u.open /\ v.mode = u.mode /\ v.pend = u.pend
             /\ v.windows = u.windows /\ v.selWin = u.selWin /\ v.selTpl = u.selTpl
             /\ v.bindSel = c /\ v.layout = u.layout /\ v.live = u.live /\ v.task = u.task
             /\ v \in UiType /\ "task" \in DOMAIN v
<1> DEFINE y == [u EXCEPT !.bindSel = c]
           v == [y EXCEPT !.bindWins = None]
<1>1. /\ y.kpz = u.kpz /\ y.open = u.open /\ y.mode = u.mode /\ y.pend = u.pend
      /\ y.windows = u.windows /\ y.selWin = u.selWin /\ y.selTpl = u.selTpl
      /\ y.bindSel = c /\ y.layout = u.layout /\ y.live = u.live /\ y.task = u.task
      /\ y \in UiType
  BY DEF UiType
<1> HIDE DEF y
<1>2. /\ v.kpz = y.kpz /\ v.open = y.open /\ v.mode = y.mode /\ v.pend = y.pend
      /\ v.windows = y.windows /\ v.selWin = y.selWin /\ v.selTpl = y.selTpl
      /\ v.bindSel = y.bindSel /\ v.layout = y.layout /\ v.live = y.live /\ v.task = y.task
      /\ v \in UiType /\ "task" \in DOMAIN v
  BY <1>1 DEF UiType
<1>3. Choosing(u, c) = v  BY DEF Choosing, y
<1> HIDE DEF v
<1> QED BY <1>1, <1>2, <1>3

LEMMA NewTemplateOK == ASSUME Careful, IInv, NewTemplate PROVE IInv'
<1> DEFINE x == clear_for_new_window(ui)
           a == [ui EXCEPT !.selWin = None, !.layout = None, !.live = None, !.open = @ \ {"viewer"}]
           b == Choosing(a, None)
<1>1. Click(x) /\ "template" \in ui.open /\ ~Busy(ui)  BY DEF Careful, NewTemplate, Waits
<1>2. ui.pend = {} /\ ui.task = NoTask /\ ui \in UiType /\ ScreenOK(list, ui)  BY <1>1, UiFacts
<1>3. /\ a.kpz = ui.kpz /\ a.open = ui.open \ {"viewer"} /\ a.mode = ui.mode /\ a.pend = ui.pend
      /\ a.windows = ui.windows /\ a.selWin = None /\ a.selTpl = ui.selTpl
      /\ a.layout = None /\ a.live = None /\ a.task = ui.task /\ a \in UiType
  BY <1>2, ZenonT(40) DEF UiType
<1>4. x = b  BY <1>2 DEF Choosing, clear_for_new_window, UiType
<1> HIDE DEF a, x
<1>5. /\ b.kpz = a.kpz /\ b.open = a.open /\ b.mode = a.mode /\ b.pend = a.pend
      /\ b.windows = a.windows /\ b.selWin = a.selWin /\ b.selTpl = a.selTpl
      /\ b.bindSel = None /\ b.layout = a.layout /\ b.live = a.live
      /\ b.task = a.task /\ b \in UiType /\ "task" \in DOMAIN b
  BY <1>3, BindingSet
<1> HIDE DEF b
<1>6. ScreenOK(list, b)
  BY <1>2, <1>3, <1>5, NamesAssumption
  DEF ScreenOK, ViewerOK, Viewed, TemplateOK, KpzOK, OfKpz, Moved, Windows
<1>7. ~Busy(b) /\ b.pend = {} /\ ReadsOnly(ui, b)  BY <1>2, <1>3, <1>5 DEF Busy, ReadsOnly
<1>8. ComingOK(list, b)  BY <1>3, <1>5 DEF ComingOK
<1> QED BY <1>1, <1>4, <1>6, <1>7, <1>8, ReadingClickOK DEF UiOK

LEMMA SelectBindingOK ==
  ASSUME Careful, IInv, NEW p \in KpTemplates \cup {None}, SelectBinding(p) PROVE IInv'
<1> DEFINE u == Choosing(ui, p)
           x == ui_link_reload_kp_binding_template_windows(u)
<1>1. Click(x) /\ (Busy(ui) => p # None)
  BY DEF Careful, SelectBinding, Waits, ui_link_select_kp_binding_template, Choosing
<1>2. /\ u.kpz = ui.kpz /\ u.open = ui.open /\ u.mode = ui.mode /\ u.pend = ui.pend
      /\ u.windows = ui.windows /\ u.selWin = ui.selWin /\ u.selTpl = ui.selTpl
      /\ u.bindSel = p /\ u.layout = ui.layout /\ u.live = ui.live
      /\ u.task = ui.task /\ u \in UiType /\ "task" \in DOMAIN u
  BY UiFacts, BindingSet
<1> HIDE DEF u
<1>3. ScreenOK(list, u)
  <2>1. "bindwins" \in u.pend => u.bindSel # None  BY <1>1, <1>2, UiFacts
  <2> QED
    BY <1>2, <2>1, UiFacts DEF ScreenOK, ViewerOK, Viewed, TemplateOK, KpzOK, OfKpz, Moved
<1>4. Busy(ui) => TaskOK(list, u, u.task)
  BY <1>2, UiFacts DEF UiOK, ComingOK, Coming, TaskOK, AskedOK, Viewed, OfKpz, Moved
<1>5. (Busy(u) <=> Busy(ui)) /\ ReadsOnly(ui, u)  BY <1>2 DEF Busy, ReadsOnly
<1>10. ComingOK(list, u)  BY <1>2, UiFacts, ComingKept
<1>6. UiOK(list, u) /\ (Busy(u) => u.bindSel # None)
  BY <1>1, <1>2, <1>3, <1>4, <1>5, <1>10 DEF UiOK
<1>7. UiOK(list, x) /\ (Busy(u) \/ u.bindSel # None => Busy(x))  BY <1>6, ReloadBindingOK
<1>8. ReadsOnly(u, x)  BY <1>2, RequestsRead
<1>9. ~Busy(x) => x.pend = {}
  <2>1. ASSUME ~Busy(x) PROVE x = [u EXCEPT !.bindWins = None, !.pend = @ \ {"bindwins"}]
    <3>1. ~Busy(u) /\ u.bindSel = None  BY <1>7, <2>1
    <3> QED BY <3>1 DEF ui_link_reload_kp_binding_template_windows
  <2>2. ASSUME ~Busy(x) PROVE u.pend = {}  BY <1>2, <1>5, <1>7, <2>2, UiFacts
  <2>3. [u EXCEPT !.bindWins = None, !.pend = @ \ {"bindwins"}].pend = u.pend \ {"bindwins"}
    BY <1>2 DEF UiType
  <2> HIDE DEF x
  <2> QED BY <2>1, <2>2, <2>3
<1> HIDE DEF x
<1> QED BY <1>1, <1>5, <1>7, <1>8, <1>9, ReadsOn, ReadingClickOK

LEMMA ApplyOK == ASSUME Careful, IInv, Apply PROVE IInv'
<1> DEFINE x == Try(ui, "apply", ui.bindSel)
<1>1. Click(x) /\ ui.bindSel # None  BY DEF Apply
<1>2. ui.bindSel \in KpTemplates /\ ui.kpz \in Kpz  BY <1>1, UiFacts DEF UiType
<1>3. ~Busy(ui) => Startable(list, ui, "apply", ui.bindSel)
  BY <1>2 DEF Startable, Ops, Things, AskedOK
<1>4. UiOK(list, x) /\ Busy(x)  BY <1>3, UiFacts, TryOK
<1>5. Harmless(x)
  <2>1. CASE Busy(ui)  BY <2>1 DEF Try, Harmless
  <2>2. CASE ~Busy(ui)
    <3>1. x.task = Task("apply", ui.kpz, ui.bindSel)  BY <2>2, UiFacts DEF Try, Spawn, UiType
    <3>2. Task("apply", ui.kpz, ui.bindSel).op = "apply" /\ Task("apply", ui.kpz, ui.bindSel).todo = {}
      BY DEF Task
    <3> QED BY <3>1, <3>2 DEF Harmless
  <2> QED BY <2>1, <2>2
<1> HIDE DEF x
<1> QED BY <1>1, <1>4, <1>5, RequestClickOK

LEMMA UnlinkOK == ASSUME IInv, Unlink PROVE IInv'
<1> DEFINE x == Try(ui, "unlink", None)
<1>1. Click(x)  BY DEF Unlink
<1>2. UiOK(list, x) /\ Busy(x)  BY UiFacts, TryOK, ListsStartable
<1>3. ReadsOnly(ui, x)  BY UiFacts, SpawnReads
<1> HIDE DEF x
<1> QED BY <1>1, <1>2, <1>3, ReadingClickOK

\* What is on screen is of the control point selected, whose modem the command uses: while
\* the viewer waits for the windows of a control point the slot is taken.
LEMMA CommandOK == ASSUME IInv, Command PROVE IInv'
<1> DEFINE x == Spawn(ui, "command", ui.layout)
<1>1. /\ Click(x) /\ ui.layout # None /\ ~Busy(ui)
      /\ Viewed(ui) \/ "template" \in ui.open
  BY DEF Command, Viewed
<1>2. ui.layout \in Windows \cup Templates \cup {"draft"}  BY <1>1, UiFacts DEF UiType
<1>3. ASSUME list # "stale", ui.layout \in Windows PROVE ui.layout[1] = ui.kpz
  <2>1. "template" \notin ui.open
    <3>1. SUFFICES ASSUME "template" \in ui.open PROVE FALSE  OBVIOUS
    <3>2. ui.layout \in {ui.selTpl, None, "draft"} /\ ui.selTpl \in Templates \cup {None}
      BY <3>1, UiFacts DEF ScreenOK, TemplateOK, UiType
    <3> QED BY <1>3, <3>2, NamesAssumption DEF Windows
  <2>2. Viewed(ui) /\ ui.layout = ui.selWin  BY <1>1, <2>1, UiFacts DEF ScreenOK, ViewerOK
  <2>3. list # "former"
    BY <1>1, <2>2, UiFacts, NoTaskIs DEF UiOK, ComingOK, Coming, Viewed, Ops
  <2>4. list = "read"  BY <1>3, <2>3, UiFacts DEF ListStates
  <2> QED BY <1>1, <1>3, <2>2, <2>4, UiFacts DEF ScreenOK, KpzOK, OfKpz
<1>4. Viewed(ui) => ui.layout = ui.selWin  BY <1>1, UiFacts DEF ScreenOK, ViewerOK
<1>5. Startable(list, ui, "command", ui.layout)
  BY <1>2, <1>3, <1>4 DEF Startable, Ops, Things, AskedOK
<1>6. UiOK(list, x) /\ Busy(x)  BY <1>1, <1>5, UiFacts, SpawnOK DEF UiOK
<1>7. ReadsOnly(ui, x)  BY UiFacts, SpawnReads
<1> HIDE DEF x
<1> QED BY <1>1, <1>6, <1>7, ReadingClickOK

-----------------------------------------------------------------------------
(* The theorems *)

LEMMA UserOK == ASSUME Careful, IInv, User PROVE IInv'
<1>1. ASSUME NEW k \in Kpz, SelectKpz(k) PROVE IInv'  BY <1>1, SelectKpzOK
<1>2. ASSUME NEW panel \in Panels, OpenPanel(panel) PROVE IInv'  BY <1>2, OpenPanelOK
<1>3. ASSUME NEW panel \in Panels, ClosePanel(panel) PROVE IInv'  BY <1>3, ClosePanelOK
<1>4. ASSUME ReloadWindows PROVE IInv'  BY <1>4, ReloadWindowsClickOK
<1>5. ASSUME NEW w \in ui.windows, SelectWindow(w) PROVE IInv'  BY <1>5, SelectWindowOK
<1>6. ASSUME NEW t \in Templates \cup {None}, SelectTemplate(t) PROVE IInv'
  BY <1>6, SelectTemplateOK
<1>7. ASSUME EditLayout PROVE IInv'  BY <1>7, EditLayoutOK
<1>8. ASSUME SaveAll PROVE IInv'  BY <1>8, SaveAllOK
<1>9. ASSUME NewTemplate PROVE IInv'  BY <1>9, NewTemplateOK
<1>10. ASSUME NEW t \in Templates, SaveNewTemplate(t) PROVE IInv'  BY <1>10, SaveNewTemplateOK
<1>11. ASSUME NEW p \in KpTemplates \cup {None}, SelectBinding(p) PROVE IInv'
  BY <1>11, SelectBindingOK
<1>12. ASSUME Apply PROVE IInv'  BY <1>12, ApplyOK
<1>13. ASSUME Unlink PROVE IInv'  BY <1>13, UnlinkOK
<1>14. ASSUME Command PROVE IInv'  BY <1>14, CommandOK
<1> QED
  BY <1>1, <1>2, <1>3, <1>4, <1>5, <1>6, <1>7, <1>8, <1>9, <1>10, <1>11, <1>12, <1>13, <1>14
  DEF User

LEMMA NextOK == ASSUME Careful, IInv, [Next]_vars PROVE IInv'
<1>1. CASE Thread
  BY <1>1, TaskReadsOK, TaskSavesOK, TaskAppliesOK, TaskUnlinksOK DEF Thread
<1>2. CASE TaskFails  BY <1>2, TaskFailsOK
<1>3. CASE PollTask  BY <1>3, PollTaskOK
<1>4. CASE User  BY <1>4, UserOK
<1>5. CASE UNCHANGED vars
  <2>1. ui' = ui /\ db' = db /\ list' = list  BY <1>5 DEF vars
  <2>2. UiOK(list, ui)' /\ (~Busy(ui) => ui.pend = {})'
    <3>1. UiOK(list, ui) /\ (~Busy(ui) => ui.pend = {})  BY DEF IInv
    <3> QED BY ONLY <2>1, <3>1
            DEF UiOK, ComingOK, Coming, Busy, ScreenOK, TaskOK, AskedOK, ViewerOK, Viewed, TemplateOK,
                KpzOK, OfKpz, Moved
  <2> QED BY <2>1, <2>2 DEF IInv, DbOK, StoresItsOwn
<1> QED BY <1>1, <1>2, <1>3, <1>4, <1>5 DEF Next

\* While the user makes no slip, the screen, the task and the stored rows agree as IInv says,
\* whatever is clicked while an answer is due, and wherever a task fails.
THEOREM Inductive == ASSUME Careful PROVE Spec => []IInv
<1>1. Init => IInv  BY InitOK
<1>2. IInv /\ [Next]_vars => IInv'  BY NextOK
<1> QED BY <1>1, <1>2, PTL DEF Spec

\* The window's address and the selection's modem belong to one control point, although a
\* new selection replaces the window only later (actions_io.rs:113-119, 492), and whether or
\* not a panel was open when it was made, unless its windows could not be read since.
THEOREM CommandsReach == ASSUME Careful PROVE Spec => []CommandsReachShownKpz
<1>1. IInv => CommandsReachShownKpz
  <2> SUFFICES ASSUME IInv PROVE CommandsReachShownKpz  OBVIOUS
  <2>1. [f \in DOMAIN ui \ {"task"} |-> ui[f]] \in EditorState  BY UiFacts, ScreenType
  <2>2. ASSUME ui.task.op = "command", ui.task.id \in Windows, list # "stale"
        PROVE  ui.task.id[1] = ui.task.kpz
    <3>1. Busy(ui)  BY <2>2, NoTaskIs DEF Busy
    <3> QED BY <2>2, <3>1, UiFacts DEF UiOK, ComingOK, Coming, TaskOK, AskedOK
  <2>3. list \in ListStates  BY UiFacts
  <2> QED BY <2>1, <2>2, <2>3 DEF CommandsReachShownKpz
<1>2. Spec => []IInv  BY Inductive
<1> QED BY <1>1, <1>2, PTL

\* A late answer never puts another window's rows or values under the window selected, and a
\* list read for another control point does not stay (background.rs:221, 240, 251, 650-660);
\* after a change with every panel closed that holds once the viewer is open (app.rs:240).
THEOREM ShowsSelection == ASSUME Careful PROVE Spec => []ShownIsSelected
<1>1. IInv => ShownIsSelected
  <2> SUFFICES ASSUME IInv PROVE ShownIsSelected  OBVIOUS
  <2>1. "viewer" \in ui.open /\ ui.selWin # None /\ ui.layout # None =>
          ui.layout = ui.selWin /\ ui.live \in {None, ui.selWin}
    BY UiFacts DEF ScreenOK, ViewerOK, Viewed
  <2>2. ~Busy(ui) => ~(list = "former" /\ "viewer" \in ui.open)
    BY UiFacts, NoTaskIs DEF UiOK, ComingOK, Coming, Ops
  <2>3. ~Busy(ui) /\ list = "read" => ui.windows \subseteq {ui.kpz} \X Templates
    BY UiFacts DEF ScreenOK, KpzOK
  <2> QED BY <2>1, <2>2, <2>3 DEF ShownIsSelected
<1>2. Spec => []IInv  BY Inductive
<1> QED BY <1>1, <1>2, PTL

\* Rows are stored for the template they were loaded from or drawn for, and a control point
\* has the windows of one set, also when apply fails half-way and is repeated
\* (actions_templates.rs:499-530, window_link_editor.rs:3642, 3683).
THEOREM KeepsItsOwn == ASSUME Careful PROVE Spec => []StoresItsOwn
<1>1. IInv => StoresItsOwn  BY DEF IInv, DbOK
<1>2. Spec => []IInv  BY Inductive
<1> QED BY <1>1, <1>2, PTL

-----------------------------------------------------------------------------
(* Ranks.  before[i] are the elements before i in some order of the finite *)
(* set D; the rank of an element is how many are before it.                *)

IsOrder(D, before) ==
  /\ before \in [D -> SUBSET D]
  /\ \A i \in D : i \notin before[i]
  /\ \A i, j \in D : i # j => i \in before[j] \/ j \in before[i]
  /\ \A i, j \in D : i \in before[j] => before[i] \subseteq before[j]

\* Earlier elements have lower ranks, and every rank below the size is taken.
LEMMA RankIs ==
  ASSUME NEW D, IsFiniteSet(D), NEW before, IsOrder(D, before)
  PROVE  /\ \A i \in D : Cardinality(before[i]) \in 0 .. Cardinality(D) - 1
         /\ \A i, j \in D : i \in before[j] <=> Cardinality(before[i]) < Cardinality(before[j])
         /\ \A n \in 1 .. Cardinality(D) : \E i \in D : Cardinality(before[i]) = n - 1
<1>1. Cardinality(D) \in Nat  BY FS_CardinalityType
<1>2. \A i \in D : before[i] \in SUBSET D  BY DEF IsOrder
<1>3. \A i \in D : IsFiniteSet(before[i]) /\ Cardinality(before[i]) \in 0 .. Cardinality(D) - 1
  <2> SUFFICES ASSUME NEW i \in D
               PROVE  IsFiniteSet(before[i]) /\ Cardinality(before[i]) \in 0 .. Cardinality(D) - 1
    OBVIOUS
  <2>1. before[i] \in SUBSET D /\ before[i] # D  BY <1>2 DEF IsOrder
  <2>2. IsFiniteSet(before[i]) /\ Cardinality(before[i]) <= Cardinality(D)
        /\ Cardinality(before[i]) # Cardinality(D)
    BY <2>1, FS_Subset
  <2>3. Cardinality(before[i]) \in Nat  BY <2>2, FS_CardinalityType
  <2> QED BY <1>1, <2>2, <2>3
<1>4. \A i, j \in D : i \in before[j] => Cardinality(before[i]) < Cardinality(before[j])
  <2> SUFFICES ASSUME NEW i \in D, NEW j \in D, i \in before[j]
               PROVE  Cardinality(before[i]) < Cardinality(before[j])
    OBVIOUS
  <2>1. before[i] \in SUBSET before[j] /\ before[i] # before[j]  BY DEF IsOrder
  <2>2. Cardinality(before[i]) <= Cardinality(before[j])
        /\ Cardinality(before[i]) # Cardinality(before[j])
    BY <1>3, <2>1, FS_Subset
  <2> QED BY <1>3, <2>2
<1>5. \A i, j \in D : Cardinality(before[i]) < Cardinality(before[j]) => i \in before[j]
  <2> SUFFICES ASSUME NEW i \in D, NEW j \in D, i \notin before[j],
                      Cardinality(before[i]) < Cardinality(before[j])
               PROVE  FALSE
    OBVIOUS
  <2>1. Cardinality(before[i]) \in Int /\ Cardinality(before[j]) \in Int  BY <1>3
  <2>2. i # j  BY <2>1
  <2>3. j \in before[i]  BY <2>2 DEF IsOrder
  <2> QED BY <1>4, <2>1, <2>3
<1> DEFINE rank == [i \in D |-> Cardinality(before[i]) + 1]
<1>6. rank \in Injection(D, 1 .. Cardinality(D))
  <2>1. \A i \in D : Cardinality(before[i]) + 1 \in 1 .. Cardinality(D)  BY <1>1, <1>3
  <2>2. rank \in [D -> 1 .. Cardinality(D)]  BY <2>1
  <2>3. ASSUME NEW i \in D, NEW j \in D, i # j PROVE rank[i] # rank[j]
    <3>1. i \in before[j] \/ j \in before[i]  BY <2>3 DEF IsOrder
    <3>2. Cardinality(before[i]) \in Int /\ Cardinality(before[j]) \in Int  BY <1>3
    <3>3. Cardinality(before[i]) # Cardinality(before[j])  BY <1>4, <3>1, <3>2
    <3> QED BY <3>2, <3>3
  <2> QED BY <2>2, <2>3 DEF Injection, IsInjective
<1>7. Cardinality(1 .. Cardinality(D)) = Cardinality(D) /\ IsFiniteSet(1 .. Cardinality(D))
  BY <1>1, FS_Interval
<1>8. rank \in Surjection(D, 1 .. Cardinality(D))  BY <1>6, <1>7, FS_Injection
<1>9. ASSUME NEW n \in 1 .. Cardinality(D) PROVE \E i \in D : Cardinality(before[i]) = n - 1
  <2>1. PICK i \in D : rank[i] = n  BY <1>8 DEF Surjection
  <2>2. Cardinality(before[i]) \in Int  BY <1>3
  <2> QED BY <2>1, <2>2
<1> QED BY <1>3, <1>4, <1>5, <1>9

\* The n-th number of a set.
LEMMA NthIs ==
  ASSUME NEW S \in SUBSET Int, IsFiniteSet(S)
  PROVE  /\ Cardinality(S) \in Nat
         /\ \A n \in 1 .. Cardinality(S) : Nth(S, n) \in S
         /\ \A m, n \in 1 .. Cardinality(S) : m < n => Nth(S, m) < Nth(S, n)
         /\ \A x \in S : \E n \in 1 .. Cardinality(S) : Nth(S, n) = x
<1> DEFINE before == [x \in S |-> {y \in S : y < x}]
<1>1. IsOrder(S, before)
  <2>1. \A i, j, k \in S : i < j /\ k < i => k < j  OBVIOUS
  <2>2. \A i, j \in S : i # j => i < j \/ j < i  OBVIOUS
  <2>3. \A i \in S : ~(i < i)  OBVIOUS
  <2> QED BY <2>1, <2>2, <2>3 DEF IsOrder
<1>2. /\ \A i \in S : Cardinality(before[i]) \in 0 .. Cardinality(S) - 1
      /\ \A i, j \in S : i \in before[j] <=> Cardinality(before[i]) < Cardinality(before[j])
      /\ \A n \in 1 .. Cardinality(S) : \E i \in S : Cardinality(before[i]) = n - 1
  <2> HIDE DEF before
  <2> QED BY <1>1, RankIs
<1>3. Cardinality(S) \in Nat  BY FS_CardinalityType
<1>4. ASSUME NEW n \in 1 .. Cardinality(S)
      PROVE  Nth(S, n) \in S /\ Cardinality(before[Nth(S, n)]) = n - 1
  <2>1. \E x \in S : Cardinality({y \in S : y < x}) = n - 1  BY <1>2
  <2>2. Nth(S, n) \in S /\ Cardinality({y \in S : y < Nth(S, n)}) = n - 1  BY <2>1 DEF Nth
  <2> QED BY <2>2
<1>5. \A x, y \in S : x < y <=> Cardinality(before[x]) < Cardinality(before[y])
  BY <1>2
<1>6. ASSUME NEW m \in 1 .. Cardinality(S), NEW n \in 1 .. Cardinality(S), m < n
      PROVE  Nth(S, m) < Nth(S, n)
  <2>1. m - 1 < n - 1  BY <1>3, <1>6
  <2> QED BY <1>4, <1>5, <2>1
<1>7. ASSUME NEW x \in S PROVE \E n \in 1 .. Cardinality(S) : Nth(S, n) = x
  <2> DEFINE n == Cardinality(before[x]) + 1
  <2>1. n \in 1 .. Cardinality(S) /\ n - 1 = Cardinality(before[x])  BY <1>2, <1>3
  <2>2. PICK z \in S : z = Nth(S, n) /\ Cardinality(before[z]) = Cardinality(before[x])  BY <1>4, <2>1
  <2>3. Cardinality(before[x]) \in Int  BY <1>2
  <2> HIDE DEF n, before
  <2>4. ~(x < z) /\ ~(z < x)  BY <1>5, <2>2, <2>3
  <2>5. x \in Int /\ z \in Int  OBVIOUS
  <2>6. z = x  BY <2>4, <2>5
  <2> QED BY <2>1, <2>2, <2>6
<1> QED BY <1>3, <1>4, <1>6, <1>7

-----------------------------------------------------------------------------
(* Rows: what is kept of them, sorted, and numbered anew                   *)

Row == RowOf(Int, Kinds)
Elems(s) == {s[i] : i \in DOMAIN s}
InOrder(s) == \A i, j \in DOMAIN s : i < j => Before(s[i], s[j])

LEMMA RowIs ==
  ASSUME NEW r \in Row
  PROVE  /\ r.id \in Int /\ r.kind \in Kinds /\ r.pos \in Int /\ r.pos >= 0
         /\ r.look \in Looks /\ r.flag \in BOOLEAN /\ r.item \in Nat
         /\ DOMAIN r = {"id", "kind", "pos", "look", "flag", "item"}
BY DEF Row, RowOf

LEMMA BeforeIsOrder ==
  /\ \A a \in Row : ~Before(a, a)
  /\ \A a, b \in Row : a.id # b.id => Before(a, b) \/ Before(b, a)
  /\ \A a, b, c \in Row : Before(a, b) /\ Before(b, c) => Before(a, c)
<1>1. \A r \in Row : r.id \in Int /\ r.pos \in Int  BY RowIs
<1> QED BY <1>1 DEF Before

LEMMA KeptIs ==
  ASSUME NEW T, NEW s \in Seq(T), NEW P \in SUBSET DOMAIN s
  PROVE  /\ Kept(s, P) \in Seq(T) /\ DOMAIN Kept(s, P) = 1 .. Cardinality(P)
         /\ Cardinality(P) \in Nat /\ Len(Kept(s, P)) = Cardinality(P)
         /\ \A n \in DOMAIN Kept(s, P) : Nth(P, n) \in P /\ Kept(s, P)[n] = s[Nth(P, n)]
         /\ \A m, n \in DOMAIN Kept(s, P) : m < n => Nth(P, m) < Nth(P, n)
         /\ \A i \in P : \E n \in DOMAIN Kept(s, P) : Nth(P, n) = i
<1>1. Len(s) \in Nat /\ DOMAIN s = 1 .. Len(s) /\ \A i \in DOMAIN s : s[i] \in T  OBVIOUS
<1>2. P \in SUBSET Int /\ IsFiniteSet(P)
  <2>1. IsFiniteSet(1 .. Len(s))  BY <1>1, FS_Interval
  <2>2. P \in SUBSET (1 .. Len(s))  BY <1>1
  <2> QED BY <2>1, <2>2, FS_Subset
<1>3. /\ Cardinality(P) \in Nat
      /\ \A n \in 1 .. Cardinality(P) : Nth(P, n) \in P
      /\ \A m, n \in 1 .. Cardinality(P) : m < n => Nth(P, m) < Nth(P, n)
      /\ \A x \in P : \E n \in 1 .. Cardinality(P) : Nth(P, n) = x
  BY <1>2, NthIs
<1>4. \A n \in 1 .. Cardinality(P) : s[Nth(P, n)] \in T  BY <1>1, <1>3
<1>5. DOMAIN Kept(s, P) = 1 .. Cardinality(P)
      /\ \A n \in 1 .. Cardinality(P) : Kept(s, P)[n] = s[Nth(P, n)]
  BY DEF Kept
<1>6. Kept(s, P) \in Seq(T) /\ Len(Kept(s, P)) = Cardinality(P)
  <2>1. Kept(s, P) \in [1 .. Cardinality(P) -> T]  BY <1>4 DEF Kept
  <2> QED BY <1>3, <2>1
<1> QED BY <1>3, <1>5, <1>6

\* What is kept of rows that differ, or are in order, differs or is in order.
LEMMA KeptRows ==
  ASSUME NEW s \in Seq(Row), NEW P \in SUBSET DOMAIN s
  PROVE  /\ Kept(s, P) \in Seq(Row)
         /\ Elems(Kept(s, P)) = {s[i] : i \in P}
         /\ AllApart(s) => AllApart(Kept(s, P))
         /\ InOrder(s) => InOrder(Kept(s, P))
<1> DEFINE k == Kept(s, P)
<1>1. /\ k \in Seq(Row) /\ DOMAIN k \in SUBSET Int
      /\ \A n \in DOMAIN k : Nth(P, n) \in P /\ k[n] = s[Nth(P, n)]
      /\ \A m, n \in DOMAIN k : m < n => Nth(P, m) < Nth(P, n)
      /\ \A i \in P : \E n \in DOMAIN k : Nth(P, n) = i
  BY KeptIs
<1>2. P \in SUBSET Int  OBVIOUS
<1> HIDE DEF k
<1>3. Elems(k) = {s[i] : i \in P}  BY <1>1 DEF Elems
<1>4. ASSUME AllApart(s) PROVE AllApart(k)
  <2> SUFFICES ASSUME NEW m \in DOMAIN k, NEW n \in DOMAIN k, m # n PROVE k[m].id # k[n].id
    BY DEF AllApart
  <2>1. m < n \/ n < m  BY <1>1
  <2>2. Nth(P, m) # Nth(P, n)  BY <1>1, <1>2, <2>1
  <2> QED BY <1>1, <1>4, <2>2 DEF AllApart
<1>5. ASSUME InOrder(s) PROVE InOrder(k)
  BY <1>1, <1>5 DEF InOrder
<1> QED BY <1>1, <1>3, <1>4, <1>5 DEF k

LEMMA SortedIs ==
  ASSUME NEW s \in Seq(Row), AllApart(s)
  PROVE  /\ Sorted(s) \in Seq(Row) /\ DOMAIN Sorted(s) = DOMAIN s
         /\ Elems(Sorted(s)) = Elems(s)
         /\ AllApart(Sorted(s)) /\ InOrder(Sorted(s))
<1> DEFINE D == DOMAIN s
           before == [i \in D |-> {j \in D : Before(s[j], s[i])}]
           at(n) == CHOOSE i \in D : Cardinality({j \in D : Before(s[j], s[i])}) = n - 1
<1>1. Len(s) \in Nat /\ D = 1 .. Len(s) /\ \A i \in D : s[i] \in Row  OBVIOUS
<1>2. IsFiniteSet(D) /\ Cardinality(D) = Len(s)  BY <1>1, FS_Interval
<1>3. IsOrder(D, before)
  <2>1. \A i, j \in D : i # j => s[i].id # s[j].id  BY DEF AllApart
  <2> QED BY <1>1, <2>1, BeforeIsOrder DEF IsOrder
<1>4. /\ \A i \in D : Cardinality(before[i]) \in 0 .. Cardinality(D) - 1
      /\ \A i, j \in D : i \in before[j] <=> Cardinality(before[i]) < Cardinality(before[j])
      /\ \A n \in 1 .. Cardinality(D) : \E i \in D : Cardinality(before[i]) = n - 1
  <2> HIDE DEF before, D
  <2> QED BY <1>2, <1>3, RankIs
<1>5. \A n \in D : at(n) \in D /\ Cardinality(before[at(n)]) = n - 1
  <2> SUFFICES ASSUME NEW n \in D PROVE at(n) \in D /\ Cardinality(before[at(n)]) = n - 1
    OBVIOUS
  <2>1. \E i \in D : Cardinality({j \in D : Before(s[j], s[i])}) = n - 1  BY <1>1, <1>2, <1>4
  <2>2. at(n) \in D /\ Cardinality({j \in D : Before(s[j], s[at(n)])}) = n - 1  BY <2>1
  <2> QED BY <2>2
<1>6. DOMAIN Sorted(s) = D /\ \A n \in D : Sorted(s)[n] = s[at(n)]  BY DEF Sorted
<1>7. \A i \in D : \E n \in D : at(n) = i
  <2> SUFFICES ASSUME NEW i \in D PROVE \E n \in D : at(n) = i  OBVIOUS
  <2> DEFINE n == Cardinality(before[i]) + 1
  <2>1. n \in D /\ n - 1 = Cardinality(before[i]) /\ Cardinality(before[i]) \in Int
    BY <1>1, <1>2, <1>4, SMTT(30)
  <2>2. PICK z \in D : z = at(n) /\ Cardinality(before[z]) = Cardinality(before[i])  BY <1>5, <2>1
  <2>3. z \notin before[i] /\ i \notin before[z]
    <3> HIDE DEF n, before, D, at
    <3> QED BY <1>4, <2>1, <2>2
  <2>4. z = i
    <3> HIDE DEF n, before, D, at
    <3> QED BY <1>3, <2>2, <2>3 DEF IsOrder
  <2> QED BY <2>1, <2>2, <2>4
<1>8. \A m, n \in D : m < n => Before(s[at(m)], s[at(n)])
  <2> SUFFICES ASSUME NEW m \in D, NEW n \in D, m < n PROVE Before(s[at(m)], s[at(n)])  OBVIOUS
  <2>1. PICK x \in D : x = at(m) /\ Cardinality(before[x]) = m - 1  BY <1>5
  <2>2. PICK y \in D : y = at(n) /\ Cardinality(before[y]) = n - 1  BY <1>5
  <2>3. x \in before[y]
    <3>1. m - 1 < n - 1  BY <1>1
    <3> HIDE DEF before, D, at
    <3> QED BY <1>4, <2>1, <2>2, <3>1
  <2> QED BY <2>1, <2>2, <2>3
<1> DEFINE q == Sorted(s)
<1> HIDE DEF before, at
<1>9. q \in Seq(Row)
  <2>1. \A n \in D : s[at(n)] \in Row  BY <1>1, <1>5
  <2>2. q \in [1 .. Len(s) -> Row]  BY <1>1, <1>6, <2>1 DEF Sorted, at
  <2> QED BY <1>1, <2>2
<1>10. Elems(q) = Elems(s)  BY <1>5, <1>6, <1>7 DEF Elems
<1>11. InOrder(q)  BY <1>6, <1>8 DEF InOrder
<1>12. AllApart(q)
  <2> SUFFICES ASSUME NEW m \in D, NEW n \in D, m # n PROVE q[m].id # q[n].id
    BY <1>6 DEF AllApart
  <2>1. m < n \/ n < m  BY <1>1
  <2>2. Before(s[at(m)], s[at(n)]) \/ Before(s[at(n)], s[at(m)])  BY <1>8, <2>1
  <2>3. at(m) \in D /\ at(n) \in D  BY <1>5
  <2>4. at(m) # at(n)  BY <1>1, <2>2, <2>3, BeforeIsOrder
  <2> QED BY <1>6, <2>3, <2>4 DEF AllApart
<1> QED BY <1>6, <1>9, <1>10, <1>11, <1>12

\* A set of rows has one list in order.
LEMMA OrderedRank ==
  ASSUME NEW s \in Seq(Row), InOrder(s), NEW n \in DOMAIN s
  PROVE  Cardinality({r \in Elems(s) : Before(r, s[n])}) = n - 1
<1>1. Len(s) \in Nat /\ DOMAIN s = 1 .. Len(s) /\ \A i \in DOMAIN s : s[i] \in Row  OBVIOUS
<1> DEFINE R == {r \in Elems(s) : Before(r, s[n])}
           f == [i \in 1 .. n - 1 |-> s[i]]
<1>2. \A i \in DOMAIN s : Before(s[i], s[n]) <=> i < n
  <2> SUFFICES ASSUME NEW i \in DOMAIN s PROVE Before(s[i], s[n]) <=> i < n  OBVIOUS
  <2>1. i < n => Before(s[i], s[n])  BY DEF InOrder
  <2>2. n < i => Before(s[n], s[i])  BY DEF InOrder
  <2>3. i < n \/ i = n \/ n < i  BY <1>1
  <2>4. ~Before(s[n], s[n]) /\ ~(Before(s[n], s[i]) /\ Before(s[i], s[n]))
    BY <1>1, BeforeIsOrder
  <2>5. ~(n < n) /\ ~(n < i /\ i < n)  BY <1>1
  <2> QED BY <2>1, <2>2, <2>3, <2>4, <2>5
<1>3. \A i, j \in DOMAIN s : i # j => s[i] # s[j]
  <2> SUFFICES ASSUME NEW i \in DOMAIN s, NEW j \in DOMAIN s, i # j PROVE s[i] # s[j]  OBVIOUS
  <2>1. i < j \/ j < i  BY <1>1
  <2>2. Before(s[i], s[j]) \/ Before(s[j], s[i])  BY <2>1 DEF InOrder
  <2> QED BY <1>1, <2>2, BeforeIsOrder
<1>4. 1 .. n - 1 \subseteq DOMAIN s /\ \A i \in 1 .. n - 1 : i < n  BY <1>1
<1>5. f \in Bijection(1 .. n - 1, R)
  <2>1. f \in [1 .. n - 1 -> R]  BY <1>2, <1>4 DEF Elems
  <2>2. \A i, j \in 1 .. n - 1 : i # j => f[i] # f[j]  BY <1>3, <1>4
  <2>3. \A r \in R : \E i \in 1 .. n - 1 : f[i] = r
    <3> SUFFICES ASSUME NEW r \in R PROVE \E i \in 1 .. n - 1 : f[i] = r  OBVIOUS
    <3>1. PICK i \in DOMAIN s : s[i] = r  BY DEF Elems
    <3>2. i < n  BY <1>2, <3>1
    <3>3. i \in 1 .. n - 1  BY <1>1, <3>2
    <3> QED BY <3>1, <3>3
  <2> QED BY <2>1, <2>2, <2>3 DEF Bijection, Injection, Surjection, IsInjective
<1>6. ExistsBijection(1 .. n - 1, R)  BY <1>5 DEF ExistsBijection
<1>7. IsFiniteSet(1 .. n - 1) /\ Cardinality(1 .. n - 1) = n - 1
  <2>1. PICK m \in Nat : m = n - 1  BY <1>1
  <2>2. 1 \in Int /\ m \in Int  BY <2>1
  <2>3. IsFiniteSet(1 .. m) /\ Cardinality(1 .. m) = IF 1 > m THEN 0 ELSE m - 1 + 1
    BY <2>2, FS_Interval
  <2>4. Cardinality(1 .. m) = m  BY <2>2, <2>3
  <2> QED BY <2>1, <2>3, <2>4
<1>8. Cardinality(R) = n - 1
  <2> HIDE DEF R
  <2> QED BY <1>6, <1>7, FS_Bijection
<1> QED BY <1>8

LEMMA OrderedOnce ==
  ASSUME NEW s \in Seq(Row), NEW q \in Seq(Row), InOrder(s), InOrder(q), Elems(s) = Elems(q)
  PROVE  s = q
<1>1. ASSUME NEW a \in Seq(Row), NEW b \in Seq(Row), InOrder(a), InOrder(b), Elems(a) = Elems(b)
      PROVE  \A n \in DOMAIN a : n \in DOMAIN b /\ a[n] = b[n]
  <2> SUFFICES ASSUME NEW n \in DOMAIN a PROVE n \in DOMAIN b /\ a[n] = b[n]  OBVIOUS
  <2>1. a[n] \in Elems(b)  BY <1>1 DEF Elems
  <2>2. PICK m \in DOMAIN b : b[m] = a[n]  BY <2>1 DEF Elems
  <2>3. Cardinality({r \in Elems(a) : Before(r, a[n])}) = n - 1  BY <1>1, OrderedRank
  <2>4. Cardinality({r \in Elems(b) : Before(r, b[m])}) = m - 1  BY <1>1, OrderedRank
  <2>5. n - 1 = m - 1  BY <1>1, <2>2, <2>3, <2>4
  <2>6. n \in Int /\ m \in Int  OBVIOUS
  <2>7. n = m  BY <2>5, <2>6
  <2> QED BY <2>2, <2>7
<1>2. \A n \in DOMAIN s : n \in DOMAIN q /\ s[n] = q[n]  BY <1>1
<1>3. \A n \in DOMAIN q : n \in DOMAIN s  BY <1>1
<1>4. DOMAIN s = DOMAIN q  BY <1>2, <1>3
<1> QED BY <1>2, <1>4

-----------------------------------------------------------------------------
(* The rows on screen                                                      *)

\* A positive number is a register's.
Signed(r) == r.kind = "reg" <=> r.id > 0

Loose(s) == s \in Seq(Row) /\ AllApart(s) /\ \A i \in DOMAIN s : Signed(s[i])
RowsOK(s) == Loose(s) /\ InOrder(s)

LEMMA SeqOfRows ==
  ASSUME NEW s \in Seq(Row)
  PROVE  /\ Len(s) \in Nat /\ DOMAIN s = 1 .. Len(s) /\ \A i \in DOMAIN s : s[i] \in Row
         /\ \A i \in DOMAIN s : i \in Nat /\ i >= 1 /\ s[i].id \in Int /\ s[i].pos \in Nat
         /\ s = [i \in DOMAIN s |-> s[i]]
<1>1. Len(s) \in Nat /\ DOMAIN s = 1 .. Len(s) /\ \A i \in DOMAIN s : s[i] \in Row  OBVIOUS
<1>2. \A i \in DOMAIN s : s[i].id \in Int /\ s[i].pos \in Nat  BY <1>1, RowIs
<1>3. s = [i \in DOMAIN s |-> s[i]]  OBVIOUS
<1> QED BY <1>1, <1>2, <1>3

LEMMA RowsBuilt ==
  ASSUME NEW n \in Nat, NEW q, q = [i \in 1 .. n |-> q[i]], \A i \in 1 .. n : q[i] \in Row
  PROVE  q \in Seq(Row) /\ DOMAIN q = 1 .. n /\ Len(q) = n
<1>1. q \in [1 .. n -> Row]  OBVIOUS
<1> QED BY <1>1

LEMMA IdsAre ==
  ASSUME NEW s
  PROVE  /\ IdsOf(s) = {r.id : r \in Elems(s)}
         /\ FlaggedIn(s) = {r.id : r \in {q \in Elems(s) : q.flag}}
         /\ FlaggedIn(s) \subseteq IdsOf(s)
BY DEF IdsOf, FlaggedIn, Elems

\* A change that leaves numbers, kinds and positions alone.
LEMMA SameKeys ==
  ASSUME NEW s, RowsOK(s), NEW q \in Seq(Row), DOMAIN q = DOMAIN s,
         \A i \in DOMAIN s : q[i].id = s[i].id /\ q[i].pos = s[i].pos /\ q[i].kind = s[i].kind
  PROVE  RowsOK(q) /\ IdsOf(q) = IdsOf(s)
<1>1. AllApart(q)  BY DEF RowsOK, Loose, AllApart
<1>2. InOrder(q)  BY DEF RowsOK, InOrder, Before
<1>3. \A i \in DOMAIN q : Signed(q[i])  BY DEF RowsOK, Loose, Signed
<1>4. IdsOf(q) = IdsOf(s)  BY DEF IdsOf
<1> QED BY <1>1, <1>2, <1>3, <1>4 DEF RowsOK, Loose

LEMMA RenumberedIs ==
  ASSUME NEW s, Loose(s)
  PROVE  /\ RowsOK(Renumbered(s)) /\ DOMAIN Renumbered(s) = DOMAIN s
         /\ IdsOf(Renumbered(s)) = IdsOf(s) /\ FlaggedIn(Renumbered(s)) = FlaggedIn(s)
         /\ \A i \in DOMAIN s : Renumbered(s)[i] = [s[i] EXCEPT !.pos = 10 * i]
<1> DEFINE q == Renumbered(s)
<1>1. s \in Seq(Row)  BY DEF Loose
<1>2. Len(s) \in Nat /\ DOMAIN s = 1 .. Len(s) /\ \A i \in DOMAIN s : s[i] \in Row /\ i \in Nat
  BY <1>1, SeqOfRows
<1>3. DOMAIN q = DOMAIN s /\ \A i \in DOMAIN s : q[i] = [s[i] EXCEPT !.pos = 10 * i]
  BY DEF Renumbered
<1>4. \A i \in DOMAIN s :
        /\ q[i] \in Row /\ q[i].id = s[i].id /\ q[i].kind = s[i].kind /\ q[i].pos = 10 * i
        /\ q[i].flag = s[i].flag
  <2> SUFFICES ASSUME NEW i \in DOMAIN s
               PROVE  /\ q[i] \in Row /\ q[i].id = s[i].id /\ q[i].kind = s[i].kind
                      /\ q[i].pos = 10 * i /\ q[i].flag = s[i].flag
    OBVIOUS
  <2>1. s[i] \in Row /\ 10 * i \in Nat  BY <1>2
  <2> QED BY <1>3, <2>1 DEF Row, RowOf
<1>5. q = [i \in 1 .. Len(s) |-> q[i]]  BY <1>2, <1>3 DEF Renumbered
<1> HIDE DEF q
<1>6. q \in Seq(Row)  BY <1>2, <1>4, <1>5, RowsBuilt
<1>7. AllApart(q) /\ \A i \in DOMAIN q : Signed(q[i])
  BY <1>3, <1>4 DEF Loose, AllApart, Signed
<1>8. InOrder(q)
  <2> SUFFICES ASSUME NEW i \in DOMAIN s, NEW j \in DOMAIN s, i < j PROVE Before(q[i], q[j])
    BY <1>3 DEF InOrder
  <2>1. q[i].pos = 10 * i /\ q[j].pos = 10 * j /\ i \in Nat /\ j \in Nat  BY <1>2, <1>4
  <2> QED BY <2>1 DEF Before
<1>9. IdsOf(q) = IdsOf(s)  BY <1>3, <1>4 DEF IdsOf
<1>10. FlaggedIn(q) = FlaggedIn(s)  BY <1>3, <1>4 DEF FlaggedIn
<1> QED BY <1>3, <1>6, <1>7, <1>8, <1>9, <1>10 DEF RowsOK, Loose, q

LEMMA WithFlagsIs ==
  ASSUME NEW s, RowsOK(s), NEW ids
  PROVE  /\ RowsOK(WithFlags(s, ids)) /\ IdsOf(WithFlags(s, ids)) = IdsOf(s)
         /\ FlaggedIn(WithFlags(s, ids)) = ids \cap IdsOf(s)
         /\ ids \cap IdsOf(s) = FlaggedIn(s) => WithFlags(s, ids) = s
<1> DEFINE q == WithFlags(s, ids)
<1>1. s \in Seq(Row)  BY DEF RowsOK, Loose
<1>2. Len(s) \in Nat /\ DOMAIN s = 1 .. Len(s) /\ (\A i \in DOMAIN s : s[i] \in Row)
      /\ s = [i \in DOMAIN s |-> s[i]]
  BY <1>1, SeqOfRows
<1>3. DOMAIN q = DOMAIN s /\ \A i \in DOMAIN s : q[i] = [s[i] EXCEPT !.flag = s[i].id \in ids]
  BY DEF WithFlags
<1>4. \A i \in DOMAIN s :
        /\ q[i] \in Row /\ q[i].id = s[i].id /\ q[i].kind = s[i].kind /\ q[i].pos = s[i].pos
        /\ q[i].flag <=> s[i].id \in ids
  <2> SUFFICES ASSUME NEW i \in DOMAIN s
               PROVE  /\ q[i] \in Row /\ q[i].id = s[i].id /\ q[i].kind = s[i].kind
                      /\ q[i].pos = s[i].pos /\ (q[i].flag <=> s[i].id \in ids)
    OBVIOUS
  <2>1. s[i] \in Row /\ (s[i].id \in ids) \in BOOLEAN  BY <1>2
  <2> QED BY <1>3, <2>1 DEF Row, RowOf
<1>5. q = [i \in 1 .. Len(s) |-> q[i]]  BY <1>2, <1>3 DEF WithFlags
<1> HIDE DEF q
<1>6. q \in Seq(Row)  BY <1>2, <1>4, <1>5, RowsBuilt
<1>7. RowsOK(q) /\ IdsOf(q) = IdsOf(s)  BY <1>3, <1>4, <1>6, SameKeys
<1>8. FlaggedIn(q) = ids \cap IdsOf(s)  BY <1>3, <1>4 DEF FlaggedIn, IdsOf
<1>9. ASSUME ids \cap IdsOf(s) = FlaggedIn(s) PROVE q = s
  <2>1. ASSUME NEW i \in DOMAIN s PROVE q[i] = s[i]
    <3>1. s[i] \in Row /\ s[i].flag \in BOOLEAN  BY <1>2, RowIs
    <3>2. s[i].id \in FlaggedIn(s) <=> s[i].flag
      <4>1. s[i].flag => s[i].id \in FlaggedIn(s)  BY DEF FlaggedIn
      <4>2. ASSUME s[i].id \in FlaggedIn(s) PROVE s[i].flag
        <5>1. PICK j \in DOMAIN s : s[j].flag /\ s[j].id = s[i].id  BY <4>2 DEF FlaggedIn
        <5>2. j = i  BY <5>1 DEF RowsOK, Loose, AllApart
        <5> QED BY <5>1, <5>2
      <4> QED BY <4>1, <4>2
    <3>3. s[i].id \in IdsOf(s)  BY DEF IdsOf
    <3>4. (s[i].id \in ids) = s[i].flag  BY <1>9, <3>1, <3>2, <3>3
    <3> QED BY <1>3, <3>1, <3>4 DEF Row, RowOf
  <2>2. s = [i \in 1 .. Len(s) |-> s[i]]  BY <1>2
  <2> QED BY <1>2, <1>5, <2>1, <2>2
<1> QED BY <1>7, <1>8, <1>9 DEF q

LEMMA WithLookRows ==
  ASSUME NEW s, RowsOK(s), NEW ids, NEW look \in Looks,
         NEW q, q = [i \in DOMAIN s |->
                       IF s[i].id \in ids THEN [s[i] EXCEPT !.look = look] ELSE s[i]]
  PROVE  RowsOK(q) /\ FlaggedIn(q) = FlaggedIn(s)
<1>1. s \in Seq(Row)  BY DEF RowsOK, Loose
<1>2. Len(s) \in Nat /\ DOMAIN s = 1 .. Len(s) /\ \A i \in DOMAIN s : s[i] \in Row
  BY <1>1, SeqOfRows
<1>3. \A i \in DOMAIN s :
        /\ q[i] \in Row /\ q[i].id = s[i].id /\ q[i].kind = s[i].kind /\ q[i].pos = s[i].pos
        /\ q[i].flag = s[i].flag
  <2> SUFFICES ASSUME NEW i \in DOMAIN s
               PROVE  /\ q[i] \in Row /\ q[i].id = s[i].id /\ q[i].kind = s[i].kind
                      /\ q[i].pos = s[i].pos /\ q[i].flag = s[i].flag
    OBVIOUS
  <2>1. s[i] \in Row  BY <1>2
  <2>2. q[i] = IF s[i].id \in ids THEN [s[i] EXCEPT !.look = look] ELSE s[i]  OBVIOUS
  <2> QED BY <2>1, <2>2 DEF Row, RowOf
<1>4. DOMAIN q = DOMAIN s /\ q = [i \in 1 .. Len(s) |-> q[i]]  BY <1>2
<1>5. q \in Seq(Row)  BY <1>2, <1>3, <1>4, RowsBuilt
<1>6. RowsOK(q)  BY <1>3, <1>4, <1>5, SameKeys
<1>7. FlaggedIn(q) = FlaggedIn(s)  BY <1>3, <1>4 DEF FlaggedIn
<1> QED BY <1>6, <1>7

LEMMA SortedRows ==
  ASSUME NEW s, Loose(s)
  PROVE  /\ RowsOK(Sorted(s)) /\ Elems(Sorted(s)) = Elems(s)
         /\ IdsOf(Sorted(s)) = IdsOf(s) /\ FlaggedIn(Sorted(s)) = FlaggedIn(s)
         /\ InOrder(s) => Sorted(s) = s
<1>1. s \in Seq(Row) /\ AllApart(s)  BY DEF Loose
<1>2. /\ Sorted(s) \in Seq(Row) /\ Elems(Sorted(s)) = Elems(s)
      /\ AllApart(Sorted(s)) /\ InOrder(Sorted(s))
  BY <1>1, SortedIs
<1>3. \A r \in Elems(s) : Signed(r)  BY DEF Loose, Elems
<1>4. \A i \in DOMAIN Sorted(s) : Signed(Sorted(s)[i])  BY <1>2, <1>3 DEF Elems
<1>5. InOrder(s) => Sorted(s) = s  BY <1>1, <1>2, OrderedOnce
<1>6. IdsOf(Sorted(s)) = IdsOf(s) /\ FlaggedIn(Sorted(s)) = FlaggedIn(s)
  BY <1>2, IdsAre
<1> QED BY <1>2, <1>4, <1>5, <1>6 DEF RowsOK, Loose

LEMMA KeptOK ==
  ASSUME NEW s, RowsOK(s), NEW P \in SUBSET DOMAIN s
  PROVE  RowsOK(Kept(s, P)) /\ Elems(Kept(s, P)) = {s[i] : i \in P}
<1>1. s \in Seq(Row)  BY DEF RowsOK, Loose
<1>2. /\ Kept(s, P) \in Seq(Row) /\ Elems(Kept(s, P)) = {s[i] : i \in P}
      /\ AllApart(Kept(s, P)) /\ InOrder(Kept(s, P))
  BY <1>1, KeptRows DEF RowsOK, Loose
<1>3. \A r \in Elems(Kept(s, P)) : Signed(r)  BY <1>2 DEF RowsOK, Loose
<1>4. \A i \in DOMAIN Kept(s, P) : Signed(Kept(s, P)[i])  BY <1>3 DEF Elems
<1> QED BY <1>2, <1>4 DEF RowsOK, Loose

LEMMA TopPosIs ==
  ASSUME NEW s, RowsOK(s)
  PROVE  TopPos(s) \in Nat /\ \A i \in DOMAIN s : s[i].pos <= TopPos(s)
<1>1. s \in Seq(Row)  BY DEF RowsOK, Loose
<1>2. /\ Len(s) \in Nat /\ DOMAIN s = 1 .. Len(s)
      /\ \A i \in DOMAIN s : s[i].pos \in Nat /\ s[i].id \in Int
  BY <1>1, SeqOfRows
<1> DEFINE S == {0} \cup {s[i].pos : i \in DOMAIN s}
<1>3. \E x \in S : \A y \in S : x >= y
  <2>1. CASE Len(s) = 0
    <3>1. S = {0}  BY <1>2, <2>1
    <3> QED BY <3>1
  <2>2. CASE Len(s) # 0
    <3>1. Len(s) \in DOMAIN s /\ \A i \in DOMAIN s : i < Len(s) \/ i = Len(s)  BY <1>2, <2>2
    <3>2. \A i \in DOMAIN s : s[i].pos <= s[Len(s)].pos
      BY <1>2, <3>1 DEF RowsOK, InOrder, Before
    <3>3. s[Len(s)].pos \in S /\ s[Len(s)].pos \in Nat  BY <1>2, <3>1
    <3>4. PICK x \in S : x = s[Len(s)].pos /\ x \in Nat  BY <3>3
    <3>5. \A y \in S : y = 0 \/ \E i \in DOMAIN s : y = s[i].pos  OBVIOUS
    <3>6. \A y \in S : y \in Nat /\ y <= x  BY <1>2, <3>2, <3>4, <3>5
    <3> HIDE DEF S
    <3>7. \A y \in S : x >= y  BY <3>4, <3>6
    <3> QED BY <3>4, <3>7
  <2> QED BY <2>1, <2>2
<1>4. Max(S) \in S /\ \A y \in S : Max(S) >= y
  <2> HIDE DEF S
  <2> QED BY <1>3 DEF Max
<1>5. TopPos(s) = Max(S)  BY DEF TopPos
<1>6. S \subseteq Nat  BY <1>2
<1>7. \A i \in DOMAIN s : s[i].pos \in S  OBVIOUS
<1> HIDE DEF S
<1>8. \A y \in S : y <= TopPos(s)  BY <1>4, <1>5, <1>6
<1> QED BY <1>4, <1>5, <1>6, <1>7, <1>8

LEMMA NewTextIdIs ==
  ASSUME NEW s \in Seq(Row)
  PROVE  NewTextId(s) \in Int /\ NewTextId(s) < 0 /\ NewTextId(s) \notin IdsOf(s)
<1>1. Len(s) \in Nat /\ DOMAIN s = 1 .. Len(s) /\ \A i \in DOMAIN s : s[i].id \in Int
  BY SeqOfRows
<1> DEFINE S == {0} \cup IdsOf(s)
<1>2. S \subseteq Int  BY <1>1 DEF IdsOf
<1>3. IsFiniteSet(S)
  <2>1. IsFiniteSet(DOMAIN s)  BY <1>1, FS_Interval
  <2> DEFINE f == [i \in DOMAIN s |-> s[i].id]
  <2>2. f \in Surjection(DOMAIN s, IdsOf(s))  BY DEF IdsOf, Surjection
  <2>3. IsFiniteSet(IdsOf(s))  BY <2>1, <2>2, FS_Surjection
  <2>4. IsFiniteSet(IdsOf(s) \cup {0})  BY <2>3, FS_AddElement
  <2>5. S = IdsOf(s) \cup {0}  OBVIOUS
  <2> QED BY <2>4, <2>5
<1>4. 0 \in S  OBVIOUS
<1>5. Min(S) \in S /\ \A y \in S : Min(S) <= y
  <2> HIDE DEF S
  <2>1. /\ Cardinality(S) \in Nat
        /\ \A n \in 1 .. Cardinality(S) : Nth(S, n) \in S
        /\ \A m, n \in 1 .. Cardinality(S) : m < n => Nth(S, m) < Nth(S, n)
        /\ \A x \in S : \E n \in 1 .. Cardinality(S) : Nth(S, n) = x
    BY <1>2, <1>3, NthIs
  <2>2. 1 \in 1 .. Cardinality(S)  BY <1>4, <2>1
  <2>3. \A y \in S : Nth(S, 1) <= y
    <3> SUFFICES ASSUME NEW y \in S PROVE Nth(S, 1) <= y  OBVIOUS
    <3>1. PICK n \in 1 .. Cardinality(S) : Nth(S, n) = y  BY <2>1
    <3>2. PICK x \in S : x = Nth(S, 1)  BY <2>1, <2>2
    <3>3. n = 1 \/ 1 < n  OBVIOUS
    <3>4. x = y \/ x < y  BY <2>1, <2>2, <3>1, <3>2, <3>3
    <3> QED BY <1>2, <3>2, <3>4
  <2>4. \E x \in S : \A y \in S : x <= y  BY <2>1, <2>2, <2>3
  <2> QED BY <2>4 DEF Min
<1> HIDE DEF S
<1>6. PICK low \in Int : low = Min(S)  BY <1>2, <1>5
<1>7. NewTextId(s) = IF low <= -1 THEN low - 1 ELSE -1  BY <1>6 DEF NewTextId, S
<1>8. \A y \in S : low <= y  BY <1>5, <1>6
<1>9. NewTextId(s) \in Int /\ NewTextId(s) < low /\ NewTextId(s) < 0
  <2>1. low - 1 \in Int /\ low - 1 < low /\ (low <= -1 => low - 1 < 0)  OBVIOUS
  <2>2. ~(low <= -1) => -1 < low  OBVIOUS
  <2> QED BY <1>7, <2>1, <2>2
<1>10. NewTextId(s) \notin S  BY <1>2, <1>8, <1>9
<1>11. IdsOf(s) \subseteq S  BY DEF S
<1> QED BY <1>9, <1>10, <1>11

-----------------------------------------------------------------------------
(* What the user does to the rows                                          *)

EdFields == {"rows", "primary", "chosen", "muted", "trail", "nav", "drag", "filters", "dirty",
             "tpl", "shown", "due"}

EdOK(e) ==
  /\ DOMAIN e = EdFields /\ RowsOK(e.rows) /\ e.muted = FlaggedIn(e.rows)
  /\ e.dirty \in BOOLEAN /\ {e.tpl, e.shown} \subseteq Layouts \cup {NoLayout}

\* An edit leaves f of e: it says "Unsaved changes" if the rows changed.
EditOK(e, f) ==
  /\ EdOK(f) /\ f.tpl = e.tpl /\ f.shown = e.shown
  /\ ~f.dirty => ~e.dirty /\ f.rows = e.rows

\* An edit of marks, filters or the trail.
LEMMA MarksOK ==
  ASSUME NEW e, EdOK(e), NEW f, DOMAIN f = EdFields,
         \A x \in {"rows", "muted", "dirty", "tpl", "shown"} : f[x] = e[x]
  PROVE  EditOK(e, f)
BY DEF EditOK, EdOK, EdFields

LEMMA ChangedOK ==
  ASSUME NEW e, EdOK(e), NEW s, RowsOK(s), FlaggedIn(s) = FlaggedIn(e.rows)
  PROVE  EditOK(e, Changed(e, s))
BY DEF EditOK, EdOK, EdFields, Changed

LEMMA WithLookOK ==
  ASSUME NEW e, EdOK(e), NEW ids, NEW look \in Looks
  PROVE  EditOK(e, WithLook(e, ids, look))
<1> DEFINE s == [i \in DOMAIN e.rows |->
                  IF e.rows[i].id \in ids THEN [e.rows[i] EXCEPT !.look = look] ELSE e.rows[i]]
<1>1. WithLook(e, ids, look) = Changed(e, s)  BY DEF WithLook
<1>2. RowsOK(e.rows)  BY DEF EdOK
<1>3. RowsOK(s) /\ FlaggedIn(s) = FlaggedIn(e.rows)  BY <1>2, WithLookRows
<1> HIDE DEF s
<1> QED BY <1>1, <1>3, ChangedOK

LEMMA MutedOK ==
  ASSUME NEW e, EdOK(e), NEW id \in IdsOf(e.rows), NEW on \in BOOLEAN
  PROVE  EditOK(e, set_web_safe_muted(e, id, on))
<1> DEFINE was == FlaggedIn(e.rows)
           m == IF on THEN e.muted \cup {id} ELSE e.muted \ {id}
           flags == IF on THEN was \cup {id} ELSE was \ {id}
           s == WithFlags(e.rows, flags)
           f == set_web_safe_muted(e, id, on)
<1>1. RowsOK(e.rows) /\ e.muted = was /\ DOMAIN e = EdFields /\ e.dirty \in BOOLEAN  BY DEF EdOK
<1>2. was \subseteq IdsOf(e.rows)  BY IdsAre
<1>3. m = flags /\ flags \cap IdsOf(e.rows) = flags  BY <1>1, <1>2
<1>4. /\ RowsOK(s) /\ FlaggedIn(s) = flags \cap IdsOf(e.rows)
  <2> HIDE DEF flags
  <2> QED BY <1>1, WithFlagsIs
<1>5. f = [e EXCEPT !.rows = s, !.muted = m, !.dirty = @ \/ m # e.muted \/ s # e.rows]
  BY DEF set_web_safe_muted
<1> HIDE DEF was, m, flags, s, f
<1>6. /\ DOMAIN f = EdFields /\ f.rows = s /\ f.muted = m /\ f.tpl = e.tpl /\ f.shown = e.shown
      /\ f.dirty = (e.dirty \/ m # e.muted \/ s # e.rows)
  BY <1>1, <1>5 DEF EdFields
<1> QED BY <1>1, <1>3, <1>4, <1>6 DEF EditOK, EdOK, f

LEMMA AppendOK ==
  ASSUME NEW s, RowsOK(s), NEW r \in Row, Signed(r), ~r.flag, r.id \notin IdsOf(s),
         r.pos > TopPos(s)
  PROVE  RowsOK(Append(s, r)) /\ FlaggedIn(Append(s, r)) = FlaggedIn(s)
<1> DEFINE q == Append(s, r)
<1>1. s \in Seq(Row)  BY DEF RowsOK, Loose
<1>2. /\ Len(s) \in Nat /\ DOMAIN s = 1 .. Len(s)
      /\ \A i \in DOMAIN s : s[i] \in Row /\ s[i].pos \in Nat
  BY <1>1, SeqOfRows
<1>3. /\ q \in Seq(Row) /\ DOMAIN q = DOMAIN s \cup {Len(s) + 1} /\ q[Len(s) + 1] = r
      /\ \A i \in DOMAIN s : q[i] = s[i] /\ i < Len(s) + 1 /\ i # Len(s) + 1
  BY <1>1, <1>2
<1>4. \A i \in DOMAIN s : s[i].id # r.id  BY DEF IdsOf
<1>5. AllApart(q)  BY <1>3, <1>4 DEF RowsOK, Loose, AllApart
<1>6. \A i \in DOMAIN s : Before(s[i], r)
  <2>1. r.pos \in Nat  BY RowIs
  <2> QED BY <1>2, <2>1, TopPosIs DEF Before
<1>7. InOrder(q)
  <2> SUFFICES ASSUME NEW i \in DOMAIN q, NEW j \in DOMAIN q, i < j PROVE Before(q[i], q[j])
    BY DEF InOrder
  <2>1. i \in DOMAIN s  BY <1>2, <1>3
  <2>2. CASE j \in DOMAIN s  BY <1>3, <2>1, <2>2 DEF RowsOK, InOrder
  <2>3. CASE j = Len(s) + 1  BY <1>3, <1>6, <2>1, <2>3
  <2> QED BY <1>3, <2>2, <2>3
<1>8. \A i \in DOMAIN q : Signed(q[i])  BY <1>3 DEF RowsOK, Loose
<1>9. FlaggedIn(q) = FlaggedIn(s)
  <2>1. \A i \in DOMAIN q : q[i].flag => i \in DOMAIN s  BY <1>3
  <2> QED BY <1>3, <2>1 DEF FlaggedIn
<1> QED BY <1>3, <1>5, <1>7, <1>8, <1>9 DEF RowsOK, Loose

LEMMA AddItemOK ==
  ASSUME NEW e, EdOK(e), NEW kind \in {"text", "image"}, clicks \in Nat
  PROVE  EditOK(e, AddItem(e, kind))
<1> DEFINE id == NewTextId(e.rows)
           r == FreshRow(id, kind, e.rows, 100 + clicks)
           f == AddItem(e, kind)
<1>1. RowsOK(e.rows) /\ e.rows \in Seq(Row) /\ DOMAIN e = EdFields /\ e.muted = FlaggedIn(e.rows)
  BY DEF EdOK, RowsOK, Loose
<1>2. id \in Int /\ id < 0 /\ id \notin IdsOf(e.rows)  BY <1>1, NewTextIdIs
<1>3. TopPos(e.rows) \in Nat  BY <1>1, TopPosIs
<1>4. r = [id |-> id, kind |-> kind, pos |-> TopPos(e.rows) + 10, look |-> "plain",
           flag |-> FALSE, item |-> 100 + clicks]
  BY DEF FreshRow
<1>5. f = [e EXCEPT !.rows = Append(@, r), !.primary = id, !.chosen = @ \cup {id}, !.dirty = TRUE]
  BY DEF AddItem
<1> HIDE DEF id, r, f
<1>6. r \in Row /\ Signed(r) /\ ~r.flag /\ r.id \notin IdsOf(e.rows) /\ r.pos > TopPos(e.rows)
  BY <1>2, <1>3, <1>4, StoredTemplates DEF Row, RowOf, Kinds, Signed
<1>7. RowsOK(Append(e.rows, r)) /\ FlaggedIn(Append(e.rows, r)) = FlaggedIn(e.rows)
  BY <1>1, <1>6, AppendOK
<1>8. /\ DOMAIN f = EdFields /\ f.rows = Append(e.rows, r) /\ f.muted = e.muted /\ f.tpl = e.tpl
      /\ f.shown = e.shown /\ f.dirty = TRUE
  BY <1>1, <1>5 DEF EdFields
<1> QED BY <1>1, <1>7, <1>8 DEF EditOK, EdOK, f

LEMMA ConcatIs ==
  ASSUME NEW T, NEW s \in Seq(T), NEW t \in Seq(T)
  PROVE  /\ s \o t \in Seq(T) /\ Len(s \o t) = Len(s) + Len(t)
         /\ DOMAIN (s \o t) = 1 .. Len(s) + Len(t)
         /\ \A i \in 1 .. Len(s) : (s \o t)[i] = s[i]
         /\ \A i \in 1 .. Len(t) : (s \o t)[Len(s) + i] = t[i]
         /\ \A i \in 1 .. Len(s) + Len(t) : i \notin 1 .. Len(s) =>
               i - Len(s) \in 1 .. Len(t) /\ (s \o t)[i] = t[i - Len(s)]
         /\ Elems(s \o t) = Elems(s) \cup Elems(t)
<1> DEFINE q == s \o t
<1>1. Len(s) \in Nat /\ Len(t) \in Nat /\ DOMAIN s = 1 .. Len(s) /\ DOMAIN t = 1 .. Len(t)  OBVIOUS
<1>2. q \in Seq(T) /\ Len(q) = Len(s) + Len(t)  OBVIOUS
<1>3. DOMAIN q = 1 .. Len(s) + Len(t)  BY <1>2
<1>4. \A i \in 1 .. Len(s) + Len(t) : q[i] = IF i <= Len(s) THEN s[i] ELSE t[i - Len(s)]  OBVIOUS
<1>5. \A i \in 1 .. Len(s) : i \in 1 .. Len(s) + Len(t) /\ i <= Len(s)  BY <1>1
<1>6. \A i \in 1 .. Len(t) : /\ Len(s) + i \in 1 .. Len(s) + Len(t) /\ ~(Len(s) + i <= Len(s))
                              /\ (Len(s) + i) - Len(s) = i
  BY <1>1
<1>7. \A i \in 1 .. Len(s) + Len(t) : i \notin 1 .. Len(s) =>
        i - Len(s) \in 1 .. Len(t) /\ ~(i <= Len(s))
  BY <1>1
<1> HIDE DEF q
<1>8. \A i \in 1 .. Len(s) : q[i] = s[i]  BY <1>4, <1>5
<1>9. \A i \in 1 .. Len(t) : q[Len(s) + i] = t[i]  BY <1>4, <1>6
<1>10. Elems(q) = Elems(s) \cup Elems(t)
  BY <1>1, <1>3, <1>5, <1>6, <1>7, <1>8, <1>9, <1>4, SMTT(30) DEF Elems
<1> QED BY <1>2, <1>3, <1>4, <1>7, <1>8, <1>9, <1>10 DEF q

LEMMA LooseConcat ==
  ASSUME NEW s, NEW t, Loose(s), Loose(t), IdsOf(s) \cap IdsOf(t) = {}
  PROVE  /\ Loose(s \o t) /\ Elems(s \o t) = Elems(s) \cup Elems(t)
         /\ FlaggedIn(s \o t) = FlaggedIn(s) \cup FlaggedIn(t)
         /\ IdsOf(s \o t) = IdsOf(s) \cup IdsOf(t)
<1>1. s \in Seq(Row) /\ t \in Seq(Row)  BY DEF Loose
<1>2. /\ Len(s) \in Nat /\ Len(t) \in Nat /\ DOMAIN s = 1 .. Len(s) /\ DOMAIN t = 1 .. Len(t)
      /\ \A i \in DOMAIN s : s[i] \in Row
  BY <1>1, SeqOfRows
<1> DEFINE q == s \o t
<1>3. /\ q \in Seq(Row) /\ DOMAIN q = 1 .. Len(s) + Len(t)
      /\ \A i \in 1 .. Len(s) : q[i] = s[i]
      /\ \A i \in 1 .. Len(s) + Len(t) : i \notin 1 .. Len(s) =>
           i - Len(s) \in 1 .. Len(t) /\ q[i] = t[i - Len(s)]
      /\ Elems(q) = Elems(s) \cup Elems(t)
  BY <1>1, ConcatIs
<1> HIDE DEF q
<1>4. \A i \in DOMAIN s, k \in DOMAIN t : s[i].id # t[k].id  BY DEF IdsOf
<1>5. AllApart(q)
  <2> SUFFICES ASSUME NEW i \in DOMAIN q, NEW j \in DOMAIN q, i # j PROVE q[i].id # q[j].id
    BY DEF AllApart
  <2>1. CASE i \in 1 .. Len(s) /\ j \in 1 .. Len(s)
    BY <1>2, <1>3, <2>1 DEF Loose, AllApart
  <2>2. CASE i \in 1 .. Len(s) /\ j \notin 1 .. Len(s)
    <3>1. j - Len(s) \in 1 .. Len(t) /\ q[i] = s[i] /\ q[j] = t[j - Len(s)]  BY <1>3, <2>2
    <3> QED BY <1>2, <1>4, <2>2, <3>1
  <2>3. CASE i \notin 1 .. Len(s) /\ j \in 1 .. Len(s)
    <3>1. i - Len(s) \in 1 .. Len(t) /\ q[j] = s[j] /\ q[i] = t[i - Len(s)]  BY <1>3, <2>3
    <3> QED BY <1>2, <1>4, <2>3, <3>1
  <2>4. CASE i \notin 1 .. Len(s) /\ j \notin 1 .. Len(s)
    <3>1. i - Len(s) \in 1 .. Len(t) /\ j - Len(s) \in 1 .. Len(t)
          /\ q[i] = t[i - Len(s)] /\ q[j] = t[j - Len(s)]
      BY <1>3, <2>4
    <3>2. i - Len(s) # j - Len(s)  BY <1>2, <1>3
    <3> QED BY <1>2, <3>1, <3>2 DEF Loose, AllApart
  <2> QED BY <2>1, <2>2, <2>3, <2>4
<1>6. \A r \in Elems(q) : Signed(r)  BY <1>3 DEF Loose, Elems
<1>7. \A i \in DOMAIN q : Signed(q[i])  BY <1>6 DEF Elems
<1>8. Loose(q)  BY <1>3, <1>5, <1>7 DEF Loose
<1>9. FlaggedIn(q) = FlaggedIn(s) \cup FlaggedIn(t) /\ IdsOf(q) = IdsOf(s) \cup IdsOf(t)
  <2>1. /\ FlaggedIn(q) = {r.id : r \in {x \in Elems(q) : x.flag}}
        /\ FlaggedIn(s) = {r.id : r \in {x \in Elems(s) : x.flag}}
        /\ FlaggedIn(t) = {r.id : r \in {x \in Elems(t) : x.flag}}
        /\ IdsOf(q) = {r.id : r \in Elems(q)} /\ IdsOf(s) = {r.id : r \in Elems(s)}
        /\ IdsOf(t) = {r.id : r \in Elems(t)}
    BY IdsAre
  <2> QED BY <1>3, <2>1
<1> QED BY <1>3, <1>8, <1>9 DEF q

\* Registers are added under numbers of their own.
LEMMA AddedRows ==
  ASSUME NEW s, RowsOK(s), NEW new \in SUBSET (Nat \ {0}), IsFiniteSet(new), NEW added,
         added = [i \in 1 .. Cardinality(new) |->
                    [FreshRow(Nth(new, i), "reg", s, Nth(new, i)) EXCEPT !.pos = TopPos(s) + 10 * i]]
  PROVE  Loose(added) /\ FlaggedIn(added) = {} /\ IdsOf(added) \subseteq new
<1> DEFINE n == Cardinality(new)
<1>1. /\ n \in Nat /\ \A i \in 1 .. n : Nth(new, i) \in new
      /\ \A i, j \in 1 .. n : i < j => Nth(new, i) < Nth(new, j)
  BY NthIs
<1>2. TopPos(s) \in Nat  BY TopPosIs
<1>4. \A i \in 1 .. n :
        /\ added[i] \in Row /\ added[i].id = Nth(new, i) /\ Signed(added[i]) /\ ~added[i].flag
  <2> SUFFICES ASSUME NEW i \in 1 .. n
               PROVE  /\ added[i] \in Row /\ added[i].id = Nth(new, i) /\ Signed(added[i])
                      /\ ~added[i].flag
    OBVIOUS
  <2>1. added[i] = [id |-> Nth(new, i), kind |-> "reg", pos |-> TopPos(s) + 10 * i,
                    look |-> "plain", flag |-> FALSE, item |-> Nth(new, i)]
    BY DEF FreshRow
  <2>2. PICK x \in Nat : x = Nth(new, i) /\ x > 0  BY <1>1
  <2>3. PICK p \in Nat : p = TopPos(s) + 10 * i  BY <1>1, <1>2
  <2>4. "plain" \in Looks  BY StoredTemplates
  <2> DEFINE r == [id |-> x, kind |-> "reg", pos |-> p, look |-> "plain", flag |-> FALSE, item |-> x]
  <2>5. added[i] = r  BY <2>1, <2>2, <2>3
  <2>6. r \in Row /\ Signed(r) /\ ~r.flag /\ r.id = x  BY <2>2, <2>4 DEF Row, RowOf, Kinds, Signed
  <2> HIDE DEF r
  <2> QED BY <2>2, <2>5, <2>6
<1>5. added \in Seq(Row) /\ DOMAIN added = 1 .. n
  BY <1>1, <1>4, RowsBuilt
<1>6. \A i, j \in 1 .. n : i # j => Nth(new, i) # Nth(new, j)
  <2> SUFFICES ASSUME NEW i \in 1 .. n, NEW j \in 1 .. n, i # j PROVE Nth(new, i) # Nth(new, j)
    OBVIOUS
  <2>1. i < j \/ j < i  BY <1>1
  <2>2. PICK x \in Nat : x = Nth(new, i)  BY <1>1
  <2>3. PICK y \in Nat : y = Nth(new, j)  BY <1>1
  <2> QED BY <1>1, <2>1, <2>2, <2>3
<1> HIDE DEF n
<1>7. AllApart(added)
  <2> SUFFICES ASSUME NEW i \in 1 .. n, NEW j \in 1 .. n, i # j PROVE added[i].id # added[j].id
    BY <1>5, ZenonT(40) DEF AllApart
  <2>1. added[i].id = Nth(new, i) /\ added[j].id = Nth(new, j)  BY <1>4
  <2> QED BY <1>6, <2>1
<1>8. FlaggedIn(added) = {}  BY <1>4, <1>5 DEF FlaggedIn
<1>9. IdsOf(added) \subseteq new
  <2> SUFFICES ASSUME NEW i \in 1 .. n PROVE added[i].id \in new  BY <1>5 DEF IdsOf
  <2> QED BY ONLY <1>1, <1>4
<1> QED BY <1>4, <1>5, <1>7, <1>8, <1>9 DEF Loose

LEMMA AddRegsOK ==
  ASSUME NEW e, EdOK(e), NEW regs \in SUBSET FreeRegs
  PROVE  EditOK(e, add_selected_regs_to_bindings(e, regs))
<1> DEFINE new == regs \ IdsOf(e.rows)
           added == [i \in 1 .. Cardinality(new) |->
                       [FreshRow(Nth(new, i), "reg", e.rows, Nth(new, i))
                           EXCEPT !.pos = TopPos(e.rows) + 10 * i]]
           s == e.rows \o added
           f == add_selected_regs_to_bindings(e, regs)
<1>1. RowsOK(e.rows) /\ e.rows \in Seq(Row) /\ DOMAIN e = EdFields /\ e.dirty \in BOOLEAN
      /\ e.muted = FlaggedIn(e.rows)
  BY DEF EdOK, RowsOK, Loose
<1>2. new \in SUBSET (Nat \ {0}) /\ new \cap IdsOf(e.rows) = {}  BY StoredTemplates
<1>3. IsFiniteSet(new)
  <2>1. IsFiniteSet(FreeRegs) /\ new \in SUBSET FreeRegs  BY StoredTemplates
  <2> QED BY <2>1, FS_Subset
<1>4. f = [e EXCEPT !.rows = Sorted(@ \o added), !.dirty = @ \/ new # {}]
  BY DEF add_selected_regs_to_bindings
<1>5. Loose(s) /\ FlaggedIn(s) = FlaggedIn(e.rows)
  <2>1. Loose(added) /\ FlaggedIn(added) = {} /\ IdsOf(added) \subseteq new
    <3> HIDE DEF new
    <3> QED BY <1>1, <1>2, <1>3, AddedRows
  <2> HIDE DEF new, added
  <2>2. IdsOf(e.rows) \cap IdsOf(added) = {} /\ Loose(e.rows)  BY <1>1, <1>2, <2>1 DEF RowsOK
  <2>3. Loose(s) /\ FlaggedIn(s) = FlaggedIn(e.rows) \cup FlaggedIn(added)
    BY <2>1, <2>2, LooseConcat
  <2> QED BY <2>1, <2>3
<1>6. new = {} => s = e.rows
  <2> SUFFICES ASSUME new = {} PROVE s = e.rows  OBVIOUS
  <2>1. Cardinality(new) = 0  BY FS_EmptySet
  <2>2. added \in [1 .. 0 -> Row]  BY <2>1
  <2> HIDE DEF added, new
  <2>3. added \in Seq(Row) /\ Len(added) = 0  BY <2>2
  <2>4. /\ DOMAIN (e.rows \o added) = 1 .. Len(e.rows) + 0
        /\ \A i \in 1 .. Len(e.rows) : (e.rows \o added)[i] = e.rows[i]
        /\ e.rows \o added \in Seq(Row)
    BY <1>1, <2>3, ConcatIs
  <2> QED BY <1>1, <2>4
<1> HIDE DEF new, added, s, f
<1>7. RowsOK(Sorted(s)) /\ FlaggedIn(Sorted(s)) = FlaggedIn(s)  BY <1>5, SortedRows
<1>8. new = {} => Sorted(s) = e.rows
  <2> SUFFICES ASSUME new = {} PROVE Sorted(s) = e.rows  OBVIOUS
  <2>1. s = e.rows /\ InOrder(s)  BY <1>1, <1>6 DEF RowsOK
  <2> QED BY <1>5, <2>1, SortedRows
<1>9. /\ DOMAIN f = EdFields /\ f.rows = Sorted(s) /\ f.muted = e.muted /\ f.tpl = e.tpl
      /\ f.shown = e.shown /\ f.dirty = (e.dirty \/ new # {})
  BY <1>1, <1>4 DEF EdFields, s
<1> QED BY <1>1, <1>5, <1>7, <1>8, <1>9 DEF EditOK, EdOK, f

LEMMA SwappedRows ==
  ASSUME NEW s, RowsOK(s), NEW i \in DOMAIN s, NEW j \in DOMAIN s,
         NEW q, q = [s EXCEPT ![i] = s[j], ![j] = s[i]]
  PROVE  Loose(q) /\ FlaggedIn(q) = FlaggedIn(s)
<1>0. RowsOK(s)  OBVIOUS
<1>1. s \in Seq(Row)  BY DEF RowsOK, Loose
<1>2. Len(s) \in Nat /\ DOMAIN s = 1 .. Len(s) /\ \A k \in DOMAIN s : s[k] \in Row
  BY <1>1, SeqOfRows
<1> DEFINE h(k) == IF k = j THEN i ELSE IF k = i THEN j ELSE k
<1>3. DOMAIN q = DOMAIN s /\ \A k \in DOMAIN s : h(k) \in DOMAIN s /\ q[k] = s[h(k)]  OBVIOUS
<1>4. \A k, l \in DOMAIN s : k # l => h(k) # h(l)  OBVIOUS
<1>5. \A k \in DOMAIN s : h(h(k)) = k  OBVIOUS
<1>6. q = [k \in 1 .. Len(s) |-> q[k]]  BY <1>2
<1> HIDE DEF h
<1>7. q \in Seq(Row)
  <2>1. \A k \in 1 .. Len(s) : q[k] \in Row  BY <1>2, <1>3
  <2>2. Len(s) \in Nat  BY <1>2
  <2> QED BY ONLY <1>6, <2>1, <2>2, RowsBuilt
<1>8. AllApart(q)
  <2> SUFFICES ASSUME NEW k \in DOMAIN s, NEW l \in DOMAIN s, k # l PROVE q[k].id # q[l].id
    BY <1>3 DEF AllApart
  <2>1. h(k) \in DOMAIN s /\ h(l) \in DOMAIN s /\ h(k) # h(l) /\ q[k] = s[h(k)] /\ q[l] = s[h(l)]
    BY <1>3, <1>4
  <2> QED BY <2>1 DEF RowsOK, Loose, AllApart
<1>9. Elems(q) = Elems(s)
  <2>1. Elems(q) \subseteq Elems(s)  BY <1>3 DEF Elems
  <2>2. ASSUME NEW k \in DOMAIN s PROVE s[k] \in Elems(q)
    <3>1. h(k) \in DOMAIN q /\ q[h(k)] = s[k]  BY <1>3, <1>5
    <3> QED BY <3>1 DEF Elems
  <2> QED BY <2>1, <2>2 DEF Elems
<1>10. \A k \in DOMAIN q : Signed(q[k])
  <2>1. \A r \in Elems(s) : Signed(r)  BY DEF RowsOK, Loose, Elems
  <2> QED BY <1>9, <2>1 DEF Elems
<1>11. FlaggedIn(q) = FlaggedIn(s)  BY <1>9, IdsAre
<1> QED BY <1>7, <1>8, <1>10, <1>11 DEF Loose

LEMMA MoveOK ==
  ASSUME NEW e, EdOK(e), NEW id \in IdsOf(e.rows), NEW dir \in Int
  PROVE  EditOK(e, move_binding(e, id, dir))
<1> DEFINE s == e.rows
           i == IndexOf(s, id)
           j == i + dir
           q == [s EXCEPT ![i] = s[j], ![j] = s[i]]
           f == move_binding(e, id, dir)
<1>1. RowsOK(s) /\ DOMAIN e = EdFields /\ e.muted = FlaggedIn(s)  BY DEF EdOK
<1>2. i \in DOMAIN s
  <2>1. \E k \in DOMAIN s : s[k].id = id  BY DEF IdsOf
  <2> QED BY <2>1 DEF IndexOf
<1>3. f = IF j \notin DOMAIN s THEN e ELSE [e EXCEPT !.rows = Renumbered(q), !.dirty = TRUE]
  BY DEF move_binding
<1>4. CASE j \notin DOMAIN s
  BY <1>3, <1>4 DEF EditOK
<1>5. CASE j \in DOMAIN s
  <2>1. Loose(q) /\ FlaggedIn(q) = FlaggedIn(s)
    <3> HIDE DEF i, j, s
    <3> QED BY <1>1, <1>2, <1>5, SwappedRows
  <2> HIDE DEF q
  <2>2. RowsOK(Renumbered(q)) /\ FlaggedIn(Renumbered(q)) = FlaggedIn(q)  BY <2>1, RenumberedIs
  <2>3. f = [e EXCEPT !.rows = Renumbered(q), !.dirty = TRUE]  BY <1>3, <1>5
  <2> HIDE DEF f
  <2>4. /\ DOMAIN f = EdFields /\ f.rows = Renumbered(q) /\ f.muted = e.muted /\ f.tpl = e.tpl
        /\ f.shown = e.shown /\ f.dirty = TRUE
    BY <1>1, <2>3 DEF EdFields
  <2> QED BY <1>1, <2>1, <2>2, <2>4 DEF EditOK, EdOK, f
<1> QED BY <1>4, <1>5

LEMMA ToBackOK ==
  ASSUME NEW e, EdOK(e)
  PROVE  EditOK(e, send_selected_images_to_back(e))
<1> DEFINE s == e.rows
           back == {i \in DOMAIN s : s[i].kind = "image" /\ s[i].id \in e.chosen}
           front == DOMAIN s \ back
           b == Kept(s, back)
           r == Kept(s, front)
           q == Sorted(b) \o Sorted(r)
<1>1. RowsOK(s)  BY DEF EdOK
<1>2. send_selected_images_to_back(e) = Changed(e, Renumbered(q))
  BY DEF send_selected_images_to_back
<1>3. back \in SUBSET DOMAIN s /\ front \in SUBSET DOMAIN s /\ back \cup front = DOMAIN s
      /\ back \cap front = {}
  OBVIOUS
<1> HIDE DEF back, front
<1>4. RowsOK(b) /\ Elems(b) = {s[i] : i \in back} /\ RowsOK(r) /\ Elems(r) = {s[i] : i \in front}
  BY <1>1, <1>3, KeptOK
<1> HIDE DEF b, r
<1>5. /\ Loose(Sorted(b)) /\ Elems(Sorted(b)) = Elems(b) /\ IdsOf(Sorted(b)) = IdsOf(b)
      /\ Loose(Sorted(r)) /\ Elems(Sorted(r)) = Elems(r) /\ IdsOf(Sorted(r)) = IdsOf(r)
  BY <1>4, SortedRows DEF RowsOK
<1>6. IdsOf(b) \cap IdsOf(r) = {}
  <2> SUFFICES ASSUME NEW x \in IdsOf(b), x \in IdsOf(r) PROVE FALSE  OBVIOUS
  <2>1. PICK i \in back : s[i].id = x  BY <1>4, IdsAre
  <2>2. PICK j \in front : s[j].id = x  BY <1>4, IdsAre
  <2>3. i # j /\ i \in DOMAIN s /\ j \in DOMAIN s  BY <1>3
  <2> QED BY <1>1, <2>1, <2>2, <2>3 DEF RowsOK, Loose, AllApart
<1>7. Loose(q) /\ Elems(q) = Elems(b) \cup Elems(r)  BY <1>5, <1>6, LooseConcat
<1>8. Elems(q) = Elems(s)  BY <1>3, <1>4, <1>7 DEF Elems
<1>9. FlaggedIn(q) = FlaggedIn(s)  BY <1>8, IdsAre
<1> HIDE DEF q
<1>10. RowsOK(Renumbered(q)) /\ FlaggedIn(Renumbered(q)) = FlaggedIn(s)
  BY <1>7, <1>9, RenumberedIs
<1> HIDE DEF s
<1> QED BY <1>2, <1>10, ChangedOK DEF s

LEMMA RemoveOK ==
  ASSUME NEW e, EdOK(e), NEW id
  PROVE  EditOK(e, remove_binding(e, id))
<1> DEFINE s == e.rows
           P == {i \in DOMAIN s : s[i].id # id}
           q == Kept(s, P)
           f == remove_binding(e, id)
<1>1. RowsOK(s) /\ DOMAIN e = EdFields /\ e.muted = FlaggedIn(s)  BY DEF EdOK
<1>2. f = [e EXCEPT !.rows = Renumbered(q), !.primary = IF @ = id THEN 0 ELSE @,
                    !.chosen = @ \ {id}, !.muted = @ \ {id}, !.dirty = TRUE]
  BY DEF remove_binding
<1>3. P \in SUBSET DOMAIN s  OBVIOUS
<1>4. RowsOK(q) /\ Elems(q) = {s[i] : i \in P}
  <2> HIDE DEF P
  <2> QED BY <1>1, <1>3, KeptOK
<1> HIDE DEF q
<1>5. FlaggedIn(q) = FlaggedIn(s) \ {id}
  <2>1. /\ FlaggedIn(q) = {r.id : r \in {x \in Elems(q) : x.flag}}
        /\ FlaggedIn(s) = {r.id : r \in {x \in Elems(s) : x.flag}}
    BY IdsAre
  <2>2. Elems(q) = {x \in Elems(s) : x.id # id}  BY <1>4 DEF Elems
  <2> QED BY ONLY <2>1, <2>2
<1>6. RowsOK(Renumbered(q)) /\ FlaggedIn(Renumbered(q)) = FlaggedIn(q)
  BY <1>4, RenumberedIs DEF RowsOK
<1> HIDE DEF f
<1>7. /\ DOMAIN f = EdFields /\ f.rows = Renumbered(q) /\ f.muted = e.muted \ {id} /\ f.tpl = e.tpl
      /\ f.shown = e.shown /\ f.dirty = TRUE
  BY <1>1, <1>2 DEF EdFields
<1> QED BY <1>1, <1>5, <1>6, <1>7 DEF EditOK, EdOK, f

\* The mutes become m, which are numbers of rows, and the flags follow.
LEMMA FlagsOK ==
  ASSUME NEW e, EdOK(e), NEW m \in SUBSET IdsOf(e.rows), NEW f, DOMAIN f = EdFields,
         f.rows = WithFlags(e.rows, m), f.muted = m, f.tpl = e.tpl, f.shown = e.shown,
         f.dirty = (e.dirty \/ e.muted # m)
  PROVE  EditOK(e, f)
<1>1. RowsOK(e.rows) /\ e.muted = FlaggedIn(e.rows) /\ e.dirty \in BOOLEAN  BY DEF EdOK
<1>2. m \cap IdsOf(e.rows) = m  OBVIOUS
<1>3. /\ RowsOK(WithFlags(e.rows, m)) /\ FlaggedIn(WithFlags(e.rows, m)) = m
      /\ m = FlaggedIn(e.rows) => WithFlags(e.rows, m) = e.rows
  BY <1>1, <1>2, WithFlagsIs, ZenonT(40)
<1> QED BY <1>1, <1>3 DEF EditOK, EdOK

LEMMA ProfileOK ==
  ASSUME NEW e, EdOK(e), NEW p, NEW mutes \in BOOLEAN, NEW filters \in BOOLEAN
  PROVE  EditOK(e, clear_web_safe_changed_trail(apply_profile(e, p, mutes, filters)))
<1> DEFINE target == p.muted \cap IdsOf(e.rows)
           muting == IF mutes
                     THEN [e EXCEPT !.rows = WithFlags(@, target), !.muted = target,
                                    !.dirty = @ \/ e.muted # target]
                     ELSE e
           g == IF filters THEN [muting EXCEPT !.filters = p.filters] ELSE muting
           f == clear_web_safe_changed_trail(g)
<1>1. apply_profile(e, p, mutes, filters) = g  BY DEF apply_profile
<1>2. DOMAIN e = EdFields  BY DEF EdOK
<1>3. EditOK(e, muting)
  <2>1. CASE mutes
    <3>1. muting = [e EXCEPT !.rows = WithFlags(@, target), !.muted = target,
                             !.dirty = @ \/ e.muted # target]
      BY <2>1
    <3>2. target \in SUBSET IdsOf(e.rows)  OBVIOUS
    <3> HIDE DEF target, muting
    <3>3. /\ DOMAIN muting = EdFields /\ muting.rows = WithFlags(e.rows, target)
          /\ muting.muted = target /\ muting.tpl = e.tpl /\ muting.shown = e.shown
          /\ muting.dirty = (e.dirty \/ e.muted # target)
      BY <1>2, <3>1 DEF EdFields
    <3> QED BY <3>2, <3>3, FlagsOK
  <2>2. CASE ~mutes  BY <2>2 DEF EditOK
  <2> QED BY <2>1, <2>2
<1> HIDE DEF muting
<1>4. /\ DOMAIN f = EdFields
      /\ \A x \in {"rows", "muted", "dirty", "tpl", "shown"} : f[x] = muting[x]
  BY <1>3 DEF clear_web_safe_changed_trail, EditOK, EdOK, EdFields
<1>5. EditOK(muting, f)
  <2> HIDE DEF f
  <2> QED BY <1>3, <1>4, MarksOK DEF EditOK
<1>6. EditOK(e, f)
  <2> HIDE DEF f
  <2> QED BY <1>3, <1>5 DEF EditOK
<1> QED BY <1>1, <1>6

LEMMA FocusOK ==
  ASSUME NEW e, EdOK(e), NEW id, NEW ids, NEW step
  PROVE  /\ EditOK(e, focus_binding_from_warning(e, id))
         /\ EditOK(e, set_changed_binding_navigation(e, ids))
         /\ EditOK(e, navigate_changed_binding(e, step))
<1>1. DOMAIN e = EdFields  BY DEF EdOK
<1>2. EditOK(e, e)  BY DEF EditOK
<1>3. ASSUME NEW x, NEW c, NEW t, NEW n
      PROVE  /\ EditOK(e, [e EXCEPT !.primary = x, !.chosen = c])
             /\ EditOK(e, [e EXCEPT !.trail = t, !.nav = n])
             /\ EditOK(e, [[e EXCEPT !.trail = t, !.nav = n] EXCEPT !.primary = x, !.chosen = c])
             /\ EditOK(e, [[e EXCEPT !.nav = n] EXCEPT !.primary = x, !.chosen = c])
  <2> DEFINE a == [e EXCEPT !.primary = x, !.chosen = c]
             b == [e EXCEPT !.trail = t, !.nav = n]
             d == [[e EXCEPT !.trail = t, !.nav = n] EXCEPT !.primary = x, !.chosen = c]
             g == [[e EXCEPT !.nav = n] EXCEPT !.primary = x, !.chosen = c]
  <2>1. DOMAIN a = EdFields /\ \A y \in {"rows", "muted", "dirty", "tpl", "shown"} : a[y] = e[y]
    BY <1>1 DEF EdFields
  <2>2. DOMAIN b = EdFields /\ \A y \in {"rows", "muted", "dirty", "tpl", "shown"} : b[y] = e[y]
    BY <1>1 DEF EdFields
  <2>3. DOMAIN d = EdFields /\ \A y \in {"rows", "muted", "dirty", "tpl", "shown"} : d[y] = e[y]
    BY <1>1 DEF EdFields
  <2>4. DOMAIN g = EdFields /\ \A y \in {"rows", "muted", "dirty", "tpl", "shown"} : g[y] = e[y]
    BY <1>1 DEF EdFields
  <2> HIDE DEF a, b, d, g
  <2>5. EditOK(e, a) /\ EditOK(e, b) /\ EditOK(e, d) /\ EditOK(e, g)
    BY <2>1, <2>2, <2>3, <2>4, MarksOK, SMTT(30)
  <2> QED BY <2>5 DEF a, b, d, g
<1>4. EditOK(e, focus_binding_from_warning(e, id))
  BY <1>3, ZenonT(40) DEF focus_binding_from_warning
<1>5. EditOK(e, set_changed_binding_navigation(e, ids))
  BY <1>3, ZenonT(40) DEF set_changed_binding_navigation, focus_binding_from_warning
<1>6. EditOK(e, navigate_changed_binding(e, step))
  BY <1>2, <1>3, Zenon DEF navigate_changed_binding, focus_binding_from_warning
<1> QED BY <1>4, <1>5, <1>6

LEMMA SelectionProfileOK ==
  ASSUME NEW e, EdOK(e), NEW p
  PROVE  EditOK(e, apply_profile_to_selection(e, p))
<1> DEFINE here == e.chosen \cap IdsOf(e.rows)
           flags == (FlaggedIn(e.rows) \ here) \cup (p.muted \cap here)
           changed == Kept(e.rows, {i \in DOMAIN e.rows : e.rows[i].flag # (e.rows[i].id \in flags)})
           trail == [i \in DOMAIN changed |-> changed[i].id]
           f == [e EXCEPT !.rows = WithFlags(@, flags), !.muted = flags,
                          !.dirty = @ \/ e.muted # flags]
<1>1. apply_profile_to_selection(e, p) = set_changed_binding_navigation(f, trail)
  BY DEF apply_profile_to_selection
<1>2. flags \in SUBSET IdsOf(e.rows)  BY IdsAre
<1> HIDE DEF trail, flags
<1>3. /\ DOMAIN f = EdFields /\ f.rows = WithFlags(e.rows, flags) /\ f.muted = flags
      /\ f.tpl = e.tpl /\ f.shown = e.shown /\ f.dirty = (e.dirty \/ e.muted # flags)
  BY DEF EdOK, EdFields
<1> HIDE DEF f
<1>4. EditOK(e, f)  BY <1>2, <1>3, FlagsOK
<1>5. EditOK(f, set_changed_binding_navigation(f, trail))  BY <1>4, FocusOK DEF EditOK
<1>6. EditOK(e, set_changed_binding_navigation(f, trail))
  <2> DEFINE g == set_changed_binding_navigation(f, trail)
  <2> HIDE DEF g
  <2>1. EditOK(f, g)  BY <1>5 DEF g
  <2>2. EditOK(e, g)  BY <1>4, <2>1 DEF EditOK
  <2> QED BY <2>2 DEF g
<1> QED BY <1>1, <1>6

LEMMA ClearMutedOK ==
  ASSUME NEW e, EdOK(e)
  PROVE  EditOK(e, [e EXCEPT !.muted = {}, !.rows = WithFlags(@, {}),
                             !.dirty = @ \/ FlaggedIn(e.rows) # {}])
<1> DEFINE f == [e EXCEPT !.muted = {}, !.rows = WithFlags(@, {}),
                          !.dirty = @ \/ FlaggedIn(e.rows) # {}]
<1>1. /\ DOMAIN f = EdFields /\ f.rows = WithFlags(e.rows, {}) /\ f.muted = {}
      /\ f.tpl = e.tpl /\ f.shown = e.shown /\ f.dirty = (e.dirty \/ e.muted # {})
  BY DEF EdOK, EdFields
<1>2. {} \in SUBSET IdsOf(e.rows)  OBVIOUS
<1> HIDE DEF f
<1>3. EditOK(e, f)  BY <1>1, <1>2, FlagsOK
<1> QED BY <1>3 DEF f

-----------------------------------------------------------------------------
(* Templates in the database                                               *)

Merged(d) == append_template_text_bindings(d.regs, d.texts)
RegsOf(s) == Renumbered(Kept(s, RegPlaces(s)))

StoredOK(d) == d \in Template /\ Numbered(d.regs) /\ AllApart(d.regs) /\ Numbered(d.texts)
DiskOK(d) == DOMAIN d = Layouts /\ \A t \in Layouts : StoredOK(d[t])

\* The texts of a template as rows.
TextRows(d) == [i \in DOMAIN d.texts |-> text_item_to_binding(d.texts[i], -i)]

LEMMA TemplateIs ==
  ASSUME NEW d, StoredOK(d)
  PROVE  /\ d.regs \in Seq(RowOf(Nat \ {0}, {"reg"})) /\ d.texts \in Seq(TextItem)
         /\ DOMAIN d = {"regs", "texts"} /\ Numbered(d.regs) /\ AllApart(d.regs)
         /\ Numbered(d.texts)
BY DEF StoredOK, Template

LEMMA RegRows ==
  ASSUME NEW s \in Seq(RowOf(Nat \ {0}, {"reg"})), Numbered(s), AllApart(s)
  PROVE  RowsOK(s) /\ (\A i \in DOMAIN s : s[i].kind = "reg" /\ s[i].id > 0) /\ Renumbered(s) = s
<1>1. /\ Len(s) \in Nat /\ DOMAIN s = 1 .. Len(s) /\ s = [i \in 1 .. Len(s) |-> s[i]]
      /\ \A i \in DOMAIN s : s[i] \in RowOf(Nat \ {0}, {"reg"}) /\ i \in Nat
  OBVIOUS
<1>2. \A i \in DOMAIN s : s[i] \in Row /\ s[i].kind = "reg" /\ s[i].id > 0
  <2>1. "reg" \in Kinds  BY DEF Kinds
  <2> QED BY <1>1, <2>1 DEF Row, RowOf
<1>3. s \in Seq(Row)  BY <1>1, <1>2, RowsBuilt
<1>4. InOrder(s)
  <2> SUFFICES ASSUME NEW i \in DOMAIN s, NEW j \in DOMAIN s, i < j PROVE Before(s[i], s[j])
    BY DEF InOrder
  <2>1. s[i].pos = 10 * i /\ s[j].pos = 10 * j /\ i \in Nat /\ j \in Nat  BY <1>1 DEF Numbered
  <2> QED BY <2>1 DEF Before
<1>5. Renumbered(s) = s
  <2>1. ASSUME NEW i \in DOMAIN s PROVE [s[i] EXCEPT !.pos = 10 * i] = s[i]
    <3>1. s[i].pos = 10 * i /\ s[i] \in Row  BY <1>2 DEF Numbered
    <3> QED BY <3>1 DEF Row, RowOf
  <2>2. Renumbered(s) = [i \in DOMAIN s |-> s[i]]  BY <2>1 DEF Renumbered
  <2> QED BY <1>1, <2>2
<1> QED BY <1>2, <1>3, <1>4, <1>5 DEF RowsOK, Loose, Signed

LEMMA TextRowsAre ==
  ASSUME NEW d, StoredOK(d)
  PROVE  /\ RowsOK(TextRows(d)) /\ DOMAIN TextRows(d) = DOMAIN d.texts
         /\ \A i \in DOMAIN d.texts :
              /\ TextRows(d)[i].id < 0 /\ TextRows(d)[i].kind # "reg"
              /\ binding_to_text_item(TextRows(d)[i]) = d.texts[i]
<1> DEFINE s == d.texts
           q == TextRows(d)
<1>1. s \in Seq(TextItem) /\ Numbered(s)  BY TemplateIs
<1>2. /\ Len(s) \in Nat /\ DOMAIN s = 1 .. Len(s)
      /\ \A i \in DOMAIN s : s[i] \in TextItem /\ i \in Nat /\ i >= 1 /\ -i \in Int /\ -i < 0
  <2>1. Len(s) \in Nat /\ DOMAIN s = 1 .. Len(s) /\ \A i \in DOMAIN s : s[i] \in TextItem
    BY <1>1
  <2> QED BY <2>1
<1>3. DOMAIN q = DOMAIN s /\ \A i \in DOMAIN s : q[i] = text_item_to_binding(s[i], -i)
  BY DEF TextRows
<1>4. q = [i \in 1 .. Len(s) |-> q[i]]  BY <1>2, <1>3 DEF TextRows
<1>5. \A i \in DOMAIN s :
        /\ q[i] \in Row /\ q[i].id = -i /\ q[i].kind # "reg" /\ q[i].pos = 10 * i
        /\ binding_to_text_item(q[i]) = s[i]
  <2> SUFFICES ASSUME NEW i \in DOMAIN s
               PROVE  /\ q[i] \in Row /\ q[i].id = -i /\ q[i].kind # "reg" /\ q[i].pos = 10 * i
                      /\ binding_to_text_item(q[i]) = s[i]
    OBVIOUS
  <2>1. s[i] \in TextItem /\ -i \in Int /\ s[i].pos = 10 * i  BY <1>1, <1>2 DEF Numbered
  <2>2. q[i] = text_item_to_binding(s[i], -i)  BY <1>3
  <2> HIDE DEF q, s
  <2>3. q[i] \in Row /\ q[i].id = -i /\ q[i].kind # "reg" /\ q[i].pos = 10 * i
    BY <2>1, <2>2 DEF text_item_to_binding, TextItem, Row, RowOf, Kinds
  <2>4. binding_to_text_item(q[i]) = s[i]
    BY <2>1, <2>2 DEF text_item_to_binding, binding_to_text_item, TextItem
  <2> QED BY <2>3, <2>4
<1> HIDE DEF q, s
<1>6. q \in Seq(Row)  BY ONLY <1>2, <1>4, <1>3, <1>5, RowsBuilt
<1>7. AllApart(q)
  <2> SUFFICES ASSUME NEW i \in DOMAIN s, NEW j \in DOMAIN s, i # j PROVE q[i].id # q[j].id
    BY <1>3 DEF AllApart
  <2>1. q[i].id = -i /\ q[j].id = -j /\ i \in Nat /\ j \in Nat  BY <1>2, <1>5
  <2> QED BY <2>1
<1>8. InOrder(q)
  <2> SUFFICES ASSUME NEW i \in DOMAIN s, NEW j \in DOMAIN s, i < j PROVE Before(q[i], q[j])
    BY <1>3 DEF InOrder
  <2>1. q[i].pos = 10 * i /\ q[j].pos = 10 * j /\ i \in Nat /\ j \in Nat  BY <1>2, <1>5
  <2> QED BY <2>1 DEF Before
<1>9. \A i \in DOMAIN q : q[i].id < 0 /\ Signed(q[i])
  <2> SUFFICES ASSUME NEW i \in DOMAIN s PROVE q[i].id < 0 /\ Signed(q[i])  BY <1>3
  <2>1. q[i].id = -i /\ q[i].kind # "reg" /\ i \in Nat /\ i >= 1  BY <1>2, <1>5
  <2> QED BY <2>1 DEF Signed
<1> QED BY <1>3, <1>5, <1>6, <1>7, <1>8, <1>9 DEF RowsOK, Loose, q, s

\* A template as rows: its registers and its texts, which a save takes apart again.
LEMMA MergedIs ==
  ASSUME NEW d, StoredOK(d)
  PROVE  /\ RowsOK(Merged(d)) /\ RowsOK(d.regs)
         /\ RegsOf(Merged(d)) = d.regs
         /\ collect_template_text_items(Merged(d)) = d.texts
<1> DEFINE r == d.regs
           x == TextRows(d)
           m == Merged(d)
<1>1. /\ RowsOK(r) /\ Renumbered(r) = r /\ \A i \in DOMAIN r : r[i].kind = "reg" /\ r[i].id > 0
  BY TemplateIs, RegRows
<1>2. /\ RowsOK(x) /\ DOMAIN x = DOMAIN d.texts
      /\ \A i \in DOMAIN x : /\ x[i].id < 0 /\ x[i].kind # "reg"
                             /\ binding_to_text_item(x[i]) = d.texts[i]
  BY TextRowsAre
<1>3. m = Sorted(r \o x)  BY DEF Merged, append_template_text_bindings, TextRows
<1> HIDE DEF r, x, m
<1>4. IdsOf(r) \cap IdsOf(x) = {}
  <2> SUFFICES ASSUME NEW i \in DOMAIN r, NEW j \in DOMAIN x PROVE r[i].id # x[j].id  BY DEF IdsOf
  <2>1. r[i].id \in Int /\ x[j].id \in Int /\ r[i].id > 0 /\ x[j].id < 0
    BY <1>1, <1>2, SeqOfRows DEF RowsOK, Loose
  <2> QED BY <2>1
<1>5. Loose(r \o x) /\ Elems(r \o x) = Elems(r) \cup Elems(x)
  BY <1>1, <1>2, <1>4, LooseConcat DEF RowsOK
<1>6. RowsOK(m) /\ Elems(m) = Elems(r) \cup Elems(x)
  <2>1. RowsOK(Sorted(r \o x)) /\ Elems(Sorted(r \o x)) = Elems(r \o x)  BY <1>5, SortedRows
  <2> QED BY <1>3, <1>5, <2>1
<1>7. ASSUME NEW P \in SUBSET DOMAIN m, NEW s, RowsOK(s), Elems(s) = {m[i] : i \in P}
      PROVE  Kept(m, P) = s
  <2>1. RowsOK(Kept(m, P)) /\ Elems(Kept(m, P)) = Elems(s)  BY <1>6, <1>7, KeptOK
  <2> QED BY <1>7, <2>1, OrderedOnce DEF RowsOK, Loose
<1>8. Kept(m, RegPlaces(m)) = r
  <2>1. ASSUME NEW i \in RegPlaces(m) PROVE m[i] \in Elems(r)
    <3>1. m[i] \in Elems(r) \cup Elems(x) /\ m[i].kind = "reg"  BY <1>6 DEF Elems, RegPlaces
    <3>2. m[i] \notin Elems(x)  BY <1>2, <3>1 DEF Elems
    <3> QED BY <3>1, <3>2
  <2>3. ASSUME NEW q \in Elems(r) PROVE \E i \in RegPlaces(m) : q = m[i]
    <3>1. q.kind = "reg"  BY <1>1 DEF Elems
    <3>2. PICK i \in DOMAIN m : q = m[i]  BY <1>6 DEF Elems
    <3> QED BY <3>1, <3>2 DEF RegPlaces
  <2>4. Elems(r) = {m[i] : i \in RegPlaces(m)}  BY <2>1, <2>3
  <2>2. RegPlaces(m) \in SUBSET DOMAIN m  BY DEF RegPlaces
  <2> QED BY <1>1, <1>7, <2>2, <2>4
<1>9. Kept(m, TextPlaces(m)) = x
  <2>1. Elems(x) = {m[i] : i \in TextPlaces(m)}  BY <1>1, <1>2, <1>6 DEF Elems, TextPlaces
  <2>2. TextPlaces(m) \in SUBSET DOMAIN m  BY DEF TextPlaces
  <2> QED BY <1>2, <1>7, <2>1, <2>2
<1>10. RegsOf(m) = r  BY <1>1, <1>8 DEF RegsOf
<1>11. collect_template_text_items(m) = d.texts
  <2> DEFINE t == [i \in DOMAIN x |-> binding_to_text_item(x[i])]
  <2>1. collect_template_text_items(m) = Renumbered(t)  BY <1>9 DEF collect_template_text_items
  <2>2. d.texts \in Seq(TextItem) /\ Numbered(d.texts)  BY TemplateIs
  <2>3. d.texts = [i \in DOMAIN d.texts |-> d.texts[i]]  BY <2>2
  <2>4. t = d.texts  BY <1>2, <2>3
  <2>5. ASSUME NEW i \in DOMAIN d.texts PROVE [d.texts[i] EXCEPT !.pos = 10 * i] = d.texts[i]
    <3>1. d.texts[i].pos = 10 * i /\ d.texts[i] \in TextItem  BY <2>2 DEF Numbered
    <3> QED BY <3>1 DEF TextItem
  <2>6. Renumbered(d.texts) = d.texts  BY <2>3, <2>5 DEF Renumbered
  <2> QED BY <2>1, <2>4, <2>6
<1> QED BY <1>1, <1>6, <1>10, <1>11 DEF r, m

\* What Save all takes from the screen.
LEMMA PartsOK ==
  ASSUME NEW s, RowsOK(s)
  PROVE  /\ RegsOf(s) \in Seq(RowOf(Nat \ {0}, {"reg"})) /\ Numbered(RegsOf(s))
         /\ AllApart(RegsOf(s)) /\ Contents(RegsOf(s)) = Contents(Kept(s, RegPlaces(s)))
         /\ collect_template_text_items(s) \in Seq(TextItem)
         /\ Numbered(collect_template_text_items(s))
         /\ Contents(collect_template_text_items(s)) = Contents(Kept(s, TextPlaces(s)))
<1> DEFINE k == Kept(s, RegPlaces(s))
           r == RegsOf(s)
           x == Kept(s, TextPlaces(s))
           t == [i \in DOMAIN x |-> binding_to_text_item(x[i])]
           c == collect_template_text_items(s)
<1>1. RegPlaces(s) \in SUBSET DOMAIN s /\ TextPlaces(s) \in SUBSET DOMAIN s
  BY DEF RegPlaces, TextPlaces
<1>2. /\ RowsOK(k) /\ Elems(k) = {s[i] : i \in RegPlaces(s)}
      /\ RowsOK(x) /\ Elems(x) = {s[i] : i \in TextPlaces(s)}
  BY <1>1, KeptOK
<1>3. \A i \in DOMAIN k : k[i].kind = "reg"
  <2>1. \A q \in {s[i] : i \in RegPlaces(s)} : q.kind = "reg"  BY DEF RegPlaces
  <2> QED BY <1>2, <2>1 DEF Elems
<1>4. \A i \in DOMAIN x : x[i].kind # "reg"
  <2>1. \A q \in {s[i] : i \in TextPlaces(s)} : q.kind # "reg"  BY DEF TextPlaces
  <2> QED BY <1>2, <2>1 DEF Elems
<1>5. /\ RowsOK(r) /\ DOMAIN r = DOMAIN k
      /\ \A i \in DOMAIN k : r[i] = [k[i] EXCEPT !.pos = 10 * i]
  BY <1>2, RenumberedIs DEF RegsOf, RowsOK
<1>6. c = Renumbered(t)  BY DEF collect_template_text_items
<1>7. /\ k \in Seq(Row) /\ \A i \in DOMAIN k : k[i] \in Row /\ i \in Nat
      /\ x \in Seq(Row) /\ \A i \in DOMAIN x : x[i] \in Row /\ i \in Nat
      /\ r \in Seq(Row) /\ Len(r) \in Nat /\ DOMAIN r = 1 .. Len(r) /\ \A i \in DOMAIN r : r[i] \in Row
      /\ Len(x) \in Nat /\ DOMAIN x = 1 .. Len(x)
      /\ r = [i \in DOMAIN r |-> r[i]]
  <2>1. k \in Seq(Row) /\ x \in Seq(Row) /\ r \in Seq(Row)  BY <1>2, <1>5 DEF RowsOK, Loose
  <2> QED BY <2>1, SeqOfRows
<1>8. DOMAIN c = DOMAIN x /\ \A i \in DOMAIN x : c[i] = [binding_to_text_item(x[i]) EXCEPT !.pos = 10 * i]
  BY <1>6 DEF Renumbered
<1>9. c = [i \in 1 .. Len(x) |-> c[i]]  BY <1>6, <1>7, <1>8 DEF Renumbered
<1> HIDE DEF k, r, x, c
<1>10. \A i \in DOMAIN r :
         /\ r[i] \in RowOf(Nat \ {0}, {"reg"}) /\ r[i].pos = 10 * i
         /\ r[i].item = k[i].item /\ r[i].kind = k[i].kind /\ r[i].look = k[i].look
         /\ r[i].flag = k[i].flag
  <2> SUFFICES ASSUME NEW i \in DOMAIN r
               PROVE  /\ r[i] \in RowOf(Nat \ {0}, {"reg"}) /\ r[i].pos = 10 * i
                      /\ r[i].item = k[i].item /\ r[i].kind = k[i].kind /\ r[i].look = k[i].look
                      /\ r[i].flag = k[i].flag
    OBVIOUS
  <2>1. k[i] \in Row /\ r[i] = [k[i] EXCEPT !.pos = 10 * i] /\ k[i].kind = "reg"
    BY <1>3, <1>5, <1>7
  <2>2. /\ r[i].id = k[i].id /\ r[i].kind = k[i].kind /\ r[i].look = k[i].look
        /\ r[i].flag = k[i].flag /\ r[i].item = k[i].item /\ r[i].pos = 10 * i
    BY <2>1 DEF Row, RowOf
  <2>3. r[i] \in Row /\ r[i].id \in Int /\ r[i].id > 0
    BY <1>5, <1>7, <2>1, <2>2, RowIs DEF RowsOK, Loose, Signed
  <2>4. r[i] \in RowOf(Nat \ {0}, {"reg"})  BY <2>1, <2>2, <2>3 DEF Row, RowOf
  <2> QED BY <2>2, <2>4
<1>11. r \in Seq(RowOf(Nat \ {0}, {"reg"}))
  <2>1. r \in [1 .. Len(r) -> RowOf(Nat \ {0}, {"reg"})]  BY ONLY <1>7, <1>10
  <2> QED BY <1>7, <2>1
<1>12. Numbered(r) /\ AllApart(r)  BY <1>5, <1>10 DEF Numbered, RowsOK, Loose
<1>13. Contents(r) = Contents(k)
  <2>1. DOMAIN r = DOMAIN k  BY <1>5
  <2> QED BY <1>10, <2>1 DEF Contents
<1>14. \A i \in DOMAIN x :
         /\ c[i] \in TextItem /\ c[i].pos = 10 * i
         /\ c[i].item = x[i].item /\ c[i].kind = x[i].kind /\ c[i].look = x[i].look
         /\ c[i].flag = x[i].flag
  <2> SUFFICES ASSUME NEW i \in DOMAIN x
               PROVE  /\ c[i] \in TextItem /\ c[i].pos = 10 * i
                      /\ c[i].item = x[i].item /\ c[i].kind = x[i].kind /\ c[i].look = x[i].look
                      /\ c[i].flag = x[i].flag
    OBVIOUS
  <2>1. /\ x[i] \in Row /\ x[i].kind # "reg" /\ 10 * i \in Nat
        /\ c[i] = [binding_to_text_item(x[i]) EXCEPT !.pos = 10 * i]
    BY <1>4, <1>7, <1>8
  <2> QED BY <2>1 DEF Row, RowOf, TextItem, Kinds, binding_to_text_item
<1>15. c \in Seq(TextItem)
  <2>1. c \in [1 .. Len(x) -> TextItem]  BY ONLY <1>7, <1>9, <1>14
  <2>2. Len(x) \in Nat  BY <1>7
  <2> QED BY ONLY <2>1, <2>2
<1>16. Numbered(c)  BY <1>8, <1>14 DEF Numbered
<1>17. Contents(c) = Contents(x)
  <2>1. DOMAIN c = DOMAIN x  BY <1>8
  <2> QED BY <1>14, <2>1 DEF Contents
<1> QED BY <1>11, <1>12, <1>13, <1>15, <1>16, <1>17 DEF k, r, x, c

LEMMA NoRows == RowsOK(<<>>) /\ FlaggedIn(<<>>) = {}
<1>1. <<>> \in Seq(Row) /\ DOMAIN <<>> = {}  OBVIOUS
<1>2. FlaggedIn(<<>>) = {}  BY <1>1 DEF FlaggedIn
<1> QED BY <1>1, <1>2 DEF RowsOK, Loose, AllApart, InOrder

LEMMA EmptyOK ==
  /\ EdOK(EmptyEditor)
  /\ \A e : EdOK(e) => EdOK(ClearForNew(e)) /\ ClearForNew(e).shown = NoLayout
  /\ \A e : \A t \in Layouts : EdOK(e) => EdOK(LoadClears(e, t)) /\ LoadClears(e, t).shown = NoLayout
<1>1. EdOK(EmptyEditor) /\ EmptyEditor.shown = NoLayout /\ EmptyEditor.rows = <<>>
      /\ EmptyEditor.muted = {} /\ EmptyEditor.dirty = FALSE /\ DOMAIN EmptyEditor = EdFields
  BY NoRows DEF EdOK, EmptyEditor, EdFields
<1>2. ASSUME NEW e, EdOK(e)
      PROVE  EdOK(ClearForNew(e)) /\ ClearForNew(e).shown = NoLayout
  <2> DEFINE f == ClearForNew(e)
  <2>1. f = [EmptyEditor EXCEPT !.tpl = e.tpl, !.filters = e.filters, !.due = e.due]
    BY DEF ClearForNew
  <2> HIDE DEF f
  <2>2. /\ DOMAIN f = EdFields /\ f.rows = <<>> /\ f.muted = {} /\ f.dirty = FALSE
        /\ f.shown = NoLayout /\ f.tpl = e.tpl
    BY <1>1, <2>1 DEF EdFields
  <2>3. {f.tpl, f.shown} \subseteq Layouts \cup {NoLayout}  BY <1>2, <2>2 DEF EdOK
  <2> QED BY <2>2, <2>3, NoRows DEF EdOK, f
<1>3. ASSUME NEW e, NEW t \in Layouts, EdOK(e)
      PROVE  EdOK(LoadClears(e, t)) /\ LoadClears(e, t).shown = NoLayout
  <2> DEFINE f == LoadClears(e, t)
  <2>1. DOMAIN e = EdFields  BY <1>3 DEF EdOK
  <2>2. /\ DOMAIN f = EdFields /\ f.rows = <<>> /\ f.muted = {} /\ f.dirty = FALSE
        /\ f.shown = NoLayout /\ f.tpl = t
    BY <2>1 DEF EdFields, LoadClears
  <2> HIDE DEF f
  <2>3. {f.tpl, f.shown} \subseteq Layouts \cup {NoLayout}  BY <2>2
  <2> QED BY <2>2, <2>3, NoRows DEF EdOK, f
<1> QED BY <1>1, <1>2, <1>3

\* An editor without rows is in order under any template, marked or not.
LEMMA ClearedOK ==
  ASSUME NEW e, EdOK(e), NEW d
  PROVE  /\ EdOK(ClearForKpz(e)) /\ ClearForKpz(e).shown = NoLayout
         /\ EdOK([ClearForViewer(e) EXCEPT !.due = d])
         /\ [ClearForViewer(e) EXCEPT !.due = d].shown = NoLayout
<1>1. /\ DOMAIN e = EdFields /\ e.dirty \in BOOLEAN /\ {e.tpl} \subseteq Layouts \cup {NoLayout}
  BY DEF EdOK
<1>2. ASSUME NEW f, DOMAIN f = EdFields, f.rows = <<>>, f.muted = {}, f.shown = NoLayout,
             f.tpl = e.tpl, f.dirty = e.dirty
      PROVE  EdOK(f)
  BY <1>1, <1>2, NoRows DEF EdOK
<1>3. EdOK(ClearForKpz(e)) /\ ClearForKpz(e).shown = NoLayout
  <2> DEFINE f == ClearForKpz(e)
  <2>1. /\ DOMAIN f = EdFields /\ f.rows = <<>> /\ f.muted = {} /\ f.shown = NoLayout
        /\ f.tpl = e.tpl /\ f.dirty = e.dirty
    BY <1>1 DEF EdFields, ClearForKpz
  <2> HIDE DEF f
  <2> QED BY <1>2, <2>1 DEF f
<1>4. /\ EdOK([ClearForViewer(e) EXCEPT !.due = d])
      /\ [ClearForViewer(e) EXCEPT !.due = d].shown = NoLayout
  <2> DEFINE f == [ClearForViewer(e) EXCEPT !.due = d]
  <2>1. /\ DOMAIN f = EdFields /\ f.rows = <<>> /\ f.muted = {} /\ f.shown = NoLayout
        /\ f.tpl = e.tpl /\ f.dirty = e.dirty
    BY <1>1 DEF EdFields, ClearForViewer
  <2> HIDE DEF f
  <2> QED BY <1>2, <2>1 DEF f
<1> QED BY <1>3, <1>4

\* The rows of an answer are shown, unless there are none.
LEMMA TakenOK ==
  ASSUME NEW e, EdOK(e), NEW j, RowsOK(j.out), j.tpl \in Layouts, j.whole \in BOOLEAN
  PROVE  /\ EdOK(Taken(e, j))
         /\ IF j.out = <<>>
            THEN /\ Taken(e, j).rows = e.rows /\ Taken(e, j).shown = e.shown
                 /\ Taken(e, j).dirty = e.dirty
            ELSE /\ Taken(e, j).rows = j.out /\ Taken(e, j).dirty = FALSE
                 /\ Taken(e, j).shown = IF j.whole THEN j.tpl ELSE NoLayout
<1> DEFINE f == Taken(e, j)
<1>1. DOMAIN e = EdFields /\ {e.tpl, e.shown} \subseteq Layouts \cup {NoLayout}  BY DEF EdOK
<1>2. CASE j.out = <<>>
  <2>1. f = [e EXCEPT !.tpl = j.tpl]  BY <1>2 DEF Taken
  <2> HIDE DEF f
  <2>2. /\ DOMAIN f = EdFields /\ f.rows = e.rows /\ f.muted = e.muted /\ f.dirty = e.dirty
        /\ f.shown = e.shown /\ f.tpl = j.tpl
    BY <1>1, <2>1 DEF EdFields
  <2>3. EdOK(f)  BY <1>1, <2>2 DEF EdOK
  <2> QED BY <1>2, <2>2, <2>3 DEF f
<1>3. CASE j.out # <<>>
  <2> DEFINE g == [e EXCEPT !.tpl = j.tpl, !.rows = j.out, !.primary = j.out[1].id, !.dirty = FALSE,
                            !.shown = IF j.whole THEN j.tpl ELSE NoLayout]
  <2>1. f = [g EXCEPT !.muted = FlaggedIn(g.rows)]
    BY <1>3 DEF Taken, sync_web_safe_muted_from_bindings
  <2>2. /\ DOMAIN g = EdFields /\ g.rows = j.out /\ g.dirty = FALSE /\ g.tpl = j.tpl
        /\ g.shown = IF j.whole THEN j.tpl ELSE NoLayout
    BY <1>1 DEF EdFields
  <2> HIDE DEF f, g
  <2>3. /\ DOMAIN f = EdFields /\ f.rows = j.out /\ f.muted = FlaggedIn(j.out) /\ f.dirty = FALSE
        /\ f.shown = (IF j.whole THEN j.tpl ELSE NoLayout) /\ f.tpl = j.tpl
    BY <2>1, <2>2 DEF EdFields
  <2>4. EdOK(f)  BY <2>3 DEF EdOK
  <2> QED BY <1>3, <2>3, <2>4 DEF f
<1> QED BY <1>2, <1>3

-----------------------------------------------------------------------------
(* The invariant                                                           *)

JobFields == {"op", "tpl", "at", "regs", "texts", "out", "ok", "whole", "seen"}

\* What a task holds is what it read, or what the screen showed at Save all.
JobOK(j, d) ==
  j # NoJob =>
    /\ DOMAIN j = JobFields /\ j.op \in {"load", "save", "regs", "lists"}
    /\ j.op # "lists" => j.tpl \in Layouts
    /\ j.op = "load" =>
         /\ j.whole \in BOOLEAN /\ (j.at # "done" => j.whole = TRUE)
         /\ j.at = "texts" => j.regs = d[j.tpl].regs
         /\ j.at = "done" /\ j.ok =>
              j.out = IF j.whole THEN Merged(d[j.tpl]) ELSE d[j.tpl].regs
    /\ j.op = "save" =>
         /\ RowsOK(j.seen) /\ j.regs = RegsOf(j.seen)
         /\ j.texts = collect_template_text_items(j.seen) /\ j.whole = TRUE
         /\ j.at # "regs" /\ j.ok => d[j.tpl].regs = j.regs
         /\ j.at = "done" /\ j.ok => d[j.tpl].texts = j.texts /\ j.out = Merged(d[j.tpl])

\* A clean screen shows a stored template, and what is being saved to it is the same.
CleanOK(e, j, d) ==
  ~e.dirty /\ e.shown # NoLayout =>
    /\ e.rows = Merged(d[e.shown])
    /\ j.op = "save" /\ j.at # "done" /\ j.tpl = e.shown =>
         j.regs = d[e.shown].regs /\ j.texts = d[e.shown].texts

LayoutIInv ==
  /\ clicks \in Nat
  /\ EdOK(ed) /\ DiskOK(disk) /\ JobOK(slot, disk) /\ CleanOK(ed, slot, disk)

LEMMA NoJobOK ==
  /\ \A d : JobOK(NoJob, d)
  /\ NoJob.op = "none"
BY DEF JobOK, NoJob

LEMMA ListsJobOK == (\A d : JobOK(ListsJob, d)) /\ ListsJob.op = "lists"
<1>1. DOMAIN ListsJob = JobFields /\ ListsJob.op = "lists"  BY DEF ListsJob, Job, JobFields
<1> QED BY <1>1 DEF JobOK

LEMMA LayoutStarts == LayoutInit => LayoutIInv
<1> SUFFICES ASSUME LayoutInit PROVE LayoutIInv  OBVIOUS
<1>1. DiskOK(disk)
  <2>1. disk \in [Layouts -> Template]  BY StoredTemplates DEF LayoutInit
  <2>2. \A t \in Layouts : Numbered(disk[t].regs) /\ AllApart(disk[t].regs) /\ Numbered(disk[t].texts)
    BY StoredTemplates DEF LayoutInit
  <2> QED BY <2>1, <2>2 DEF DiskOK, StoredOK
<1>2. slot = NoJob /\ JobOK(slot, disk) /\ slot.op = "none"  BY NoJobOK DEF LayoutInit
<1>3. CASE ed = EmptyEditor /\ clicks = 0
  <2>1. EdOK(ed)  BY <1>3, EmptyOK
  <2>2. ed.shown = NoLayout  BY <1>3 DEF EmptyEditor
  <2> QED BY <1>1, <1>2, <1>3, <2>1, <2>2 DEF LayoutIInv, CleanOK
<1>4. ASSUME NEW t \in Layouts, RowsOnDisk(t) # <<>>, clicks = 1,
             ed = Taken(LoadClears(EmptyEditor, t),
                        [tpl |-> t, out |-> RowsOnDisk(t), whole |-> TRUE])
      PROVE  LayoutIInv
  <2> DEFINE e == LoadClears(EmptyEditor, t)
             j == [tpl |-> t, out |-> RowsOnDisk(t), whole |-> TRUE]
  <2>1. EdOK(e)  BY EmptyOK
  <2>2. RowsOnDisk(t) = Merged(disk[t])  BY DEF RowsOnDisk, Merged
  <2>3. RowsOK(RowsOnDisk(t))  BY <1>1, <2>2, MergedIs DEF DiskOK
  <2>4. j.out = RowsOnDisk(t) /\ j.tpl = t /\ j.whole = TRUE  OBVIOUS
  <2>5. ed = Taken(e, j)  BY <1>4
  <2> HIDE DEF e, j
  <2>6. EdOK(ed) /\ ed.rows = RowsOnDisk(t) /\ ed.shown = t
    BY <1>4, <2>1, <2>3, <2>4, <2>5, TakenOK, ZenonT(40)
  <2> QED BY <1>1, <1>2, <1>4, <2>2, <2>6 DEF LayoutIInv, CleanOK
<1> QED BY <1>3, <1>4 DEF LayoutInit

-----------------------------------------------------------------------------
(* Edits                                                                   *)

LEMMA EditKeeps ==
  ASSUME LayoutIInv, NEW f, EditOK(ed, f), Edit(f)
  PROVE  LayoutIInv'
<1>1. clicks' \in Nat /\ EdOK(ed')  BY DEF LayoutIInv, Edit, EditOK
<1>2. disk' = disk /\ slot' = slot /\ ed' = f  BY DEF Edit
<1>3. DiskOK(disk') /\ JobOK(slot', disk')  BY <1>2 DEF LayoutIInv
<1>4. CleanOK(ed', slot', disk')  BY <1>2 DEF LayoutIInv, CleanOK, EditOK
<1> QED BY <1>1, <1>3, <1>4 DEF LayoutIInv

\* A step of the user that sets marks, a drag or filters.
LEMMA MarkKeeps ==
  ASSUME LayoutIInv, NEW f, DOMAIN f = EdFields,
         \A x \in {"rows", "muted", "dirty", "tpl", "shown"} : f[x] = ed[x], Edit(f)
  PROVE  LayoutIInv'
<1>1. EditOK(ed, f)  BY MarksOK DEF LayoutIInv
<1> QED BY <1>1, EditKeeps

LEMMA RowEditsKeep ==
  ASSUME LayoutIInv,
         \/ AddRegs \/ AddTextOrImage \/ EditRow \/ batch_set_size \/ batch_arrange
         \/ fit_selected_images_to_layout \/ MoveRow \/ RemoveRow \/ DragMoves
  PROVE  LayoutIInv'
<1>1. EdOK(ed) /\ clicks \in Nat  BY DEF LayoutIInv
<1>2. CASE AddRegs
  <2>1. PICK S \in SUBSET FreeRegs : Edit(add_selected_regs_to_bindings(ed, S))  BY <1>2 DEF AddRegs
  <2>2. S \in SUBSET (Nat \ {0}) /\ IsFiniteSet(S)  BY StoredTemplates, FS_Subset
  <2>3. EditOK(ed, add_selected_regs_to_bindings(ed, S))  BY <1>1, <2>2, AddRegsOK
  <2> QED BY <2>1, <2>3, EditKeeps
<1>3. CASE AddTextOrImage
  <2>1. PICK kind \in {"text", "image"} : Edit(AddItem(ed, kind))  BY <1>3 DEF AddTextOrImage
  <2> QED BY <1>1, <2>1, AddItemOK, EditKeeps
<1>4. CASE EditRow \/ batch_set_size \/ batch_arrange \/ DragMoves
  <2>1. \E ids : \E look \in Looks : Edit(WithLook(ed, ids, look))
    BY <1>4 DEF EditRow, batch_set_size, batch_arrange, DragMoves
  <2>2. PICK ids : \E look \in Looks : Edit(WithLook(ed, ids, look))  BY <2>1
  <2>3. PICK look \in Looks : Edit(WithLook(ed, ids, look))  BY <2>2
  <2> QED BY <1>1, <2>3, WithLookOK, EditKeeps
<1>5. CASE fit_selected_images_to_layout
  <2>1. \/ \E ids : Edit(WithLook(ed, ids, "plain"))
        \/ Edit(send_selected_images_to_back(ed))
    BY <1>5 DEF fit_selected_images_to_layout
  <2>2. ASSUME NEW ids, Edit(WithLook(ed, ids, "plain")) PROVE LayoutIInv'
    <3>1. EditOK(ed, WithLook(ed, ids, "plain"))  BY <1>1, StoredTemplates, WithLookOK
    <3> QED BY <2>2, <3>1, EditKeeps
  <2>3. CASE Edit(send_selected_images_to_back(ed))  BY <1>1, <2>3, ToBackOK, EditKeeps
  <2> QED BY <2>1, <2>2, <2>3
<1>6. CASE MoveRow
  <2>1. PICK id \in IdsOf(ed.rows), dir \in {-1, 1} : Edit(move_binding(ed, id, dir))
    BY <1>6 DEF MoveRow
  <2>2. dir \in Int  OBVIOUS
  <2> QED BY <1>1, <2>1, <2>2, MoveOK, EditKeeps
<1>7. CASE RemoveRow
  <2>1. PICK id \in IdsOf(ed.rows) : Edit(remove_binding(ed, id))  BY <1>7 DEF RemoveRow
  <2> QED BY <1>1, <2>1, RemoveOK, EditKeeps
<1> QED BY <1>2, <1>3, <1>4, <1>5, <1>6, <1>7

LEMMA MarkStepsKeep ==
  ASSUME LayoutIInv, MarkRows \/ DragStarts \/ SetFilters
  PROVE  LayoutIInv'
<1>1. DOMAIN ed = EdFields  BY DEF LayoutIInv, EdOK
<1>2. CASE MarkRows
  <2>1. \/ \E c : Edit([ed EXCEPT !.chosen = c])
        \/ \E c : \E p : Edit([ed EXCEPT !.primary = p, !.chosen = c])
    BY <1>2, Zenon DEF MarkRows
  <2>2. ASSUME NEW c, Edit([ed EXCEPT !.chosen = c]) PROVE LayoutIInv'
    <3> DEFINE f == [ed EXCEPT !.chosen = c]
    <3>1. DOMAIN f = EdFields /\ \A x \in {"rows", "muted", "dirty", "tpl", "shown"} : f[x] = ed[x]
      BY <1>1 DEF EdFields
    <3> HIDE DEF f
    <3>2. Edit(f)  BY <2>2 DEF f
    <3> QED BY <3>1, <3>2, MarkKeeps
  <2>3. ASSUME NEW c, NEW p, Edit([ed EXCEPT !.primary = p, !.chosen = c]) PROVE LayoutIInv'
    <3> DEFINE f == [ed EXCEPT !.primary = p, !.chosen = c]
    <3>1. DOMAIN f = EdFields /\ \A x \in {"rows", "muted", "dirty", "tpl", "shown"} : f[x] = ed[x]
      BY <1>1 DEF EdFields
    <3> HIDE DEF f
    <3>2. Edit(f)  BY <2>3 DEF f
    <3> QED BY <3>1, <3>2, MarkKeeps
  <2> QED BY <2>1, <2>2, <2>3, ZenonT(40)
<1>3. CASE DragStarts
  <2>1. \/ \E d : \E p : \E c : Edit([ed EXCEPT !.primary = p, !.chosen = c, !.drag = d])
        \/ \E d : \E p : Edit([ed EXCEPT !.primary = p, !.drag = d])
        \/ \E d : Edit([ed EXCEPT !.drag = d])
    BY <1>3, Zenon DEF DragStarts
  <2>2. ASSUME NEW d, NEW p, NEW c, NEW f,
               \/ f = [ed EXCEPT !.primary = p, !.chosen = c, !.drag = d]
               \/ f = [ed EXCEPT !.primary = p, !.drag = d]
               \/ f = [ed EXCEPT !.drag = d],
               Edit(f)
        PROVE  LayoutIInv'
    <3>1. DOMAIN f = EdFields /\ \A x \in {"rows", "muted", "dirty", "tpl", "shown"} : f[x] = ed[x]
      BY <1>1, <2>2 DEF EdFields
    <3> QED BY ONLY <2>2, <3>1, MarkKeeps, LayoutIInv
  <2> QED BY <2>1, <2>2, ZenonT(40)
<1>4. CASE SetFilters
  <2>1. PICK c : Edit([ed EXCEPT !.filters = c])  BY <1>4 DEF SetFilters
  <2> DEFINE f == [ed EXCEPT !.filters = c]
  <2>2. DOMAIN f = EdFields /\ \A x \in {"rows", "muted", "dirty", "tpl", "shown"} : f[x] = ed[x]
    BY <1>1 DEF EdFields
  <2> HIDE DEF f
  <2>3. Edit(f)  BY <2>1 DEF f
  <2> QED BY <2>2, <2>3, MarkKeeps
<1> QED BY <1>2, <1>3, <1>4

LEMMA CheckStepsKeep ==
  ASSUME LayoutIInv,
         MuteSelected \/ ClearMuted \/ NextWarning \/ ImportProfile \/ ImportIntoSelection \/ WalkTrail
  PROVE  LayoutIInv'
<1>1. EdOK(ed) /\ DOMAIN ed = EdFields  BY DEF LayoutIInv, EdOK
<1>2. CASE MuteSelected
  <2>1. ed.primary \in IdsOf(ed.rows)  BY <1>2 DEF MuteSelected, HasIssue, IdsOf
  <2>2. (ed.primary \notin ed.muted) \in BOOLEAN  OBVIOUS
  <2>3. EditOK(ed, set_web_safe_muted(ed, ed.primary, ed.primary \notin ed.muted))
    BY <1>1, <2>1, <2>2, MutedOK
  <2> QED BY <1>2, <2>3, EditKeeps DEF MuteSelected
<1>3. CASE ClearMuted  BY <1>1, <1>3, ClearMutedOK, EditKeeps DEF ClearMuted
<1>4. CASE NextWarning
  <2>1. PICK step \in {-1, 1} :
          Edit(focus_binding_from_warning(ed, warning_navigation_target(ed, step)))
    BY <1>4 DEF NextWarning
  <2>2. EditOK(ed, focus_binding_from_warning(ed, warning_navigation_target(ed, step)))
    BY <1>1, FocusOK
  <2> QED BY <2>1, <2>2, EditKeeps
<1>5. CASE ImportProfile
  <2>1. PICK mutes \in BOOLEAN, filters \in BOOLEAN :
          Edit(clear_web_safe_changed_trail(apply_profile(ed, profile, mutes, filters)))
    BY <1>5 DEF ImportProfile
  <2> QED BY <1>1, <2>1, ProfileOK, EditKeeps
<1>6. CASE ImportIntoSelection
  BY <1>1, <1>6, SelectionProfileOK, EditKeeps DEF ImportIntoSelection
<1>7. CASE WalkTrail
  <2>1. CASE \E step \in {-1, 1} : Edit(navigate_changed_binding(ed, step))
    BY <1>1, <2>1, FocusOK, EditKeeps
  <2>2. CASE Edit(clear_web_safe_changed_trail(ed))
    <3> DEFINE f == clear_web_safe_changed_trail(ed)
    <3>1. DOMAIN f = EdFields /\ \A x \in {"rows", "muted", "dirty", "tpl", "shown"} : f[x] = ed[x]
      BY <1>1 DEF EdFields, clear_web_safe_changed_trail
    <3> HIDE DEF f
    <3>2. Edit(f)  BY <2>2 DEF f
    <3> QED BY <3>1, <3>2, MarkKeeps
  <2> QED BY <1>7, <2>1, <2>2 DEF WalkTrail
<1> QED BY <1>2, <1>3, <1>4, <1>5, <1>6, <1>7

-----------------------------------------------------------------------------
(* Tasks                                                                   *)

LEMMA NewKeeps ==
  ASSUME LayoutIInv, PressNew
  PROVE  LayoutIInv'
<1>1. EdOK(ed') /\ ed'.shown = NoLayout  BY EmptyOK DEF LayoutIInv, PressNew, Edit
<1>2. disk' = disk /\ slot' = slot /\ clicks' = clicks + 1  BY DEF PressNew, Edit
<1>3. CleanOK(ed', slot', disk')  BY <1>1 DEF CleanOK
<1> QED BY <1>1, <1>2, <1>3 DEF LayoutIInv

\* The rows go, the template selected and the mark stay.
LEMMA ScreenEmptiedKeeps ==
  ASSUME LayoutIInv, ChangeKpz \/ OpenViewer
  PROVE  LayoutIInv'
<1>1. /\ EdOK(ed) /\ DOMAIN ed = EdFields /\ DiskOK(disk) /\ JobOK(slot, disk)
      /\ CleanOK(ed, slot, disk) /\ clicks' \in Nat /\ disk' = disk
  BY DEF LayoutIInv, EdOK, ChangeKpz, OpenViewer
<1>2. JobOK(slot', disk')  BY <1>1, ListsJobOK DEF ChangeKpz, OpenViewer
<1>3. CASE ChangeKpz /\ ~Idle
  <2>1. ed' = [ed EXCEPT !.due = @ \cup {"refresh"}] /\ slot' = slot  BY <1>3 DEF ChangeKpz
  <2>2. /\ DOMAIN ed' = EdFields
        /\ \A x \in {"rows", "muted", "dirty", "tpl", "shown"} : ed'[x] = ed[x]
    BY <1>1, <2>1 DEF EdFields
  <2>3. EditOK(ed, ed')  BY <1>1, <2>2, MarksOK
  <2>4. CleanOK(ed', slot', disk')  BY <1>1, <2>1, <2>3 DEF CleanOK, EditOK
  <2> QED BY <1>1, <1>2, <2>3, <2>4 DEF LayoutIInv, EditOK
<1>4. CASE ~(ChangeKpz /\ ~Idle)
  <2>1. ed' = ClearForKpz(ed) \/ \E d : ed' = [ClearForViewer(ed) EXCEPT !.due = d]
    BY <1>4 DEF ChangeKpz, OpenViewer
  <2>2. EdOK(ed') /\ ed'.shown = NoLayout
    <3>1. CASE ed' = ClearForKpz(ed)  BY <1>1, <3>1, ClearedOK
    <3>2. ASSUME NEW d, ed' = [ClearForViewer(ed) EXCEPT !.due = d]
          PROVE  EdOK(ed') /\ ed'.shown = NoLayout
      BY <1>1, <3>2, ClearedOK
    <3> QED BY <2>1, <3>1, <3>2
  <2>3. CleanOK(ed', slot', disk')  BY <2>2 DEF CleanOK
  <2> QED BY <1>1, <1>2, <2>2, <2>3 DEF LayoutIInv
<1> QED BY <1>3, <1>4

LEMMA ChooseKeeps ==
  ASSUME LayoutIInv, NEW t \in Layouts \cup {NoLayout}, ChooseLayout(t)
  PROVE  LayoutIInv'
<1>1. EdOK(ed) /\ DOMAIN ed = EdFields /\ DiskOK(disk) /\ JobOK(slot, disk)
      /\ CleanOK(ed, slot, disk) /\ clicks' \in Nat /\ disk' = disk
  BY DEF LayoutIInv, EdOK, ChooseLayout
<1>2. CASE t # NoLayout /\ Idle
  <2>1. ed' = LoadClears(ed, t) /\ slot' = Job("load", t, <<>>, <<>>) /\ t \in Layouts
    BY <1>2 DEF ChooseLayout
  <2>2. EdOK(ed') /\ ed'.shown = NoLayout  BY <1>1, <2>1, EmptyOK
  <2>3. /\ slot'.op = "load" /\ slot'.tpl = t /\ slot'.at = "regs" /\ DOMAIN slot' = JobFields
        /\ slot'.whole = TRUE
    BY <2>1 DEF Job, JobFields
  <2>5. JobOK(slot', disk')  BY <2>1, <2>3 DEF JobOK
  <2>4. CleanOK(ed', slot', disk')  BY <2>2 DEF CleanOK
  <2> QED BY <1>1, <2>2, <2>4, <2>5 DEF LayoutIInv
<1>3. CASE t # NoLayout /\ ~Idle
  <2>1. ed' = [ed EXCEPT !.tpl = t] /\ slot' = slot /\ t \in Layouts  BY <1>3 DEF ChooseLayout
  <2>2. /\ DOMAIN ed' = EdFields /\ ed'.rows = ed.rows /\ ed'.muted = ed.muted
        /\ ed'.dirty = ed.dirty /\ ed'.shown = ed.shown /\ ed'.tpl = t
    BY <1>1, <2>1 DEF EdFields
  <2>3. EdOK(ed')  BY <1>1, <2>1, <2>2 DEF EdOK
  <2>4. JobOK(slot', disk') /\ DiskOK(disk')  BY <1>1, <2>1
  <2>5. CleanOK(ed', slot', disk')  BY <1>1, <2>1, <2>2 DEF CleanOK
  <2> QED BY <1>1, <2>3, <2>4, <2>5 DEF LayoutIInv
<1>4. CASE t = NoLayout
  <2>1. ed' = [ed EXCEPT !.tpl = t, !.rows = <<>>, !.muted = {}, !.shown = NoLayout] /\ slot' = slot
    BY <1>4 DEF ChooseLayout
  <2>2. /\ DOMAIN ed' = EdFields /\ ed'.rows = <<>> /\ ed'.muted = {}
        /\ ed'.dirty = ed.dirty /\ ed'.shown = NoLayout /\ ed'.tpl = NoLayout
    BY <1>1, <1>4, <2>1 DEF EdFields
  <2>3. EdOK(ed')  BY <1>1, <2>2, NoRows DEF EdOK
  <2>4. JobOK(slot', disk') /\ DiskOK(disk')  BY <1>1, <2>1
  <2>5. CleanOK(ed', slot', disk')  BY <2>2 DEF CleanOK
  <2> QED BY <1>1, <2>3, <2>4, <2>5 DEF LayoutIInv
<1> QED BY <1>2, <1>3, <1>4

LEMMA SavePressKeeps ==
  ASSUME LayoutIInv, PressSaveAll
  PROVE  LayoutIInv'
<1> DEFINE r == RegsOf(ed.rows)
           x == collect_template_text_items(ed.rows)
<1>1. /\ EdOK(ed) /\ DiskOK(disk) /\ CleanOK(ed, slot, disk) /\ clicks' \in Nat
      /\ disk' = disk /\ ed' = ed /\ ed.tpl \in Layouts
  BY DEF LayoutIInv, EdOK, PressSaveAll
<1>2. slot' = Job("save", ed.tpl, r, x)  BY DEF PressSaveAll, RegsOf
<1>3. RowsOK(ed.rows)  BY <1>1 DEF EdOK
<1> HIDE DEF r, x
<1>4. /\ DOMAIN slot' = JobFields /\ slot'.op = "save" /\ slot'.tpl = ed.tpl /\ slot'.at = "regs"
      /\ slot'.regs = r /\ slot'.texts = x /\ slot'.whole = TRUE /\ slot'.seen = ed.rows
  BY <1>2 DEF Job, JobFields
<1>5. JobOK(slot', disk')  BY <1>1, <1>3, <1>4 DEF JobOK, r, x
<1>6. CleanOK(ed', slot', disk')
  <2> SUFFICES ASSUME ~ed.dirty, ed.shown # NoLayout
               PROVE  /\ ed.rows = Merged(disk[ed.shown])
                      /\ r = disk[ed.shown].regs /\ x = disk[ed.shown].texts
    BY <1>1, <1>4 DEF CleanOK
  <2>1. ed.rows = Merged(disk[ed.shown])  BY <1>1 DEF CleanOK
  <2>2. StoredOK(disk[ed.shown])  BY <1>1 DEF EdOK, DiskOK
  <2> QED BY <2>1, <2>2, MergedIs DEF r, x
<1> QED BY <1>1, <1>5, <1>6 DEF LayoutIInv

LEMMA LoadsKeep ==
  ASSUME LayoutIInv, JobLoads
  PROVE  LayoutIInv'
<1>1. /\ EdOK(ed) /\ DiskOK(disk) /\ CleanOK(ed, slot, disk) /\ JobOK(slot, disk) /\ clicks \in Nat
      /\ disk' = disk /\ ed' = ed /\ clicks' = clicks /\ slot.op = "load" /\ slot.at # "done"
  BY DEF LayoutIInv, JobLoads
<1>2. slot # NoJob /\ DOMAIN slot = JobFields /\ slot.tpl \in Layouts
  BY <1>1, NoJobOK DEF JobOK
<1>3. JobOK(slot', disk) /\ slot'.op = "load"
  <2>1. CASE slot' = [slot EXCEPT !.regs = disk[slot.tpl].regs, !.at = "texts"]
    <3>1. /\ DOMAIN slot' = JobFields /\ slot'.op = "load" /\ slot'.tpl = slot.tpl
          /\ slot'.at = "texts" /\ slot'.regs = disk[slot.tpl].regs /\ slot'.whole = TRUE
      BY <1>1, <1>2, <2>1 DEF JobFields, JobOK
    <3> QED BY <1>2, <3>1 DEF JobOK
  <2>2. CASE slot' = [slot EXCEPT !.out = RowsOnDisk(slot.tpl), !.at = "done"] /\ slot.at = "texts"
    <3>1. RowsOnDisk(slot.tpl) = Merged(disk[slot.tpl])  BY DEF RowsOnDisk, Merged
    <3>2. slot.whole = TRUE  BY <1>1, <1>2, <2>2 DEF JobOK
    <3>3. /\ DOMAIN slot' = JobFields /\ slot'.op = "load" /\ slot'.tpl = slot.tpl
          /\ slot'.at = "done" /\ slot'.out = RowsOnDisk(slot.tpl) /\ slot'.whole = TRUE
      BY <1>1, <1>2, <2>2, <3>2 DEF JobFields
    <3> QED BY <1>2, <3>1, <3>3 DEF JobOK
  <2>3. CASE slot' = [slot EXCEPT !.out = slot.regs, !.at = "done", !.whole = FALSE]
             /\ slot.at = "texts"
    <3>1. slot.regs = disk[slot.tpl].regs  BY <1>1, <1>2, <2>3 DEF JobOK
    <3>2. /\ DOMAIN slot' = JobFields /\ slot'.op = "load" /\ slot'.tpl = slot.tpl
          /\ slot'.at = "done" /\ slot'.out = slot.regs /\ slot'.whole = FALSE
      BY <1>1, <1>2, <2>3 DEF JobFields
    <3> QED BY <1>2, <3>1, <3>2 DEF JobOK
  <2> QED BY <2>1, <2>2, <2>3 DEF JobLoads
<1>4. CleanOK(ed', slot', disk')  BY <1>1, <1>3 DEF CleanOK
<1> QED BY <1>1, <1>3, <1>4 DEF LayoutIInv

LEMMA SavesKeep ==
  ASSUME LayoutIInv, JobSaves
  PROVE  LayoutIInv'
<1> DEFINE t == slot.tpl
           was == disk[t]
           r == slot.regs
           x == slot.texts
<1>1. /\ EdOK(ed) /\ DiskOK(disk) /\ CleanOK(ed, slot, disk) /\ JobOK(slot, disk) /\ clicks \in Nat
      /\ ed' = ed /\ clicks' = clicks /\ slot.op = "save" /\ slot.at # "done"
  BY DEF LayoutIInv, JobSaves
<1>2. /\ slot # NoJob /\ DOMAIN slot = JobFields /\ t \in Layouts /\ RowsOK(slot.seen)
      /\ r = RegsOf(slot.seen) /\ x = collect_template_text_items(slot.seen) /\ slot.whole = TRUE
      /\ (slot.at # "regs" /\ slot.ok => was.regs = r)
  BY <1>1, NoJobOK DEF JobOK
<1>3. /\ was \in Template /\ Numbered(was.regs) /\ AllApart(was.regs) /\ Numbered(was.texts)
      /\ was.regs \in Seq(RowOf(Nat \ {0}, {"reg"})) /\ was.texts \in Seq(TextItem)
  <2>1. StoredOK(was)  BY <1>1, <1>2 DEF DiskOK
  <2> HIDE DEF was
  <2> QED BY <2>1, TemplateIs DEF StoredOK
<1>4. /\ r \in Seq(RowOf(Nat \ {0}, {"reg"})) /\ Numbered(r) /\ AllApart(r)
      /\ x \in Seq(TextItem) /\ Numbered(x)
  BY <1>2, PartsOK
<1> HIDE DEF t, was, r, x
<1>5. CASE slot.at = "regs"
  <2> DEFINE d == [disk EXCEPT ![t].regs = r]
  <2>1. disk' = d /\ slot' = [slot EXCEPT !.at = "texts"]  BY <1>5 DEF JobSaves, t, r
  <2>2. StoredOK([regs |-> r, texts |-> was.texts])  BY <1>3, <1>4 DEF StoredOK, Template
  <2>3. /\ DiskOK(d) /\ d[t] = [regs |-> r, texts |-> was.texts]
        /\ \A u \in Layouts \ {t} : d[u] = disk[u]
    <3>1. DOMAIN disk = Layouts /\ \A u \in Layouts : StoredOK(disk[u])  BY <1>1 DEF DiskOK
    <3>2. /\ DOMAIN d = Layouts /\ d[t] = [was EXCEPT !.regs = r]
          /\ \A u \in Layouts \ {t} : d[u] = disk[u]
      BY <1>2, <3>1 DEF was
    <3>3. was = [regs |-> was.regs, texts |-> was.texts]  BY <1>3 DEF Template
    <3>4. d[t] = [regs |-> r, texts |-> was.texts]  BY <3>2, <3>3
    <3> HIDE DEF d
    <3>5. \A u \in Layouts : StoredOK(d[u])  BY <2>2, <3>1, <3>2, <3>4
    <3> QED BY <3>2, <3>4, <3>5 DEF DiskOK
  <2> HIDE DEF d
  <2>4. /\ DOMAIN slot' = JobFields /\ slot'.op = "save" /\ slot'.tpl = t /\ slot'.at = "texts"
        /\ slot'.regs = r /\ slot'.texts = x /\ slot'.whole = TRUE /\ slot'.seen = slot.seen
    BY <1>1, <1>2, <2>1 DEF JobFields, t, r, x
  <2>5. JobOK(slot', d)  BY <1>2, <2>3, <2>4 DEF JobOK
  <2>6. CleanOK(ed, slot', d)
    <3> SUFFICES ASSUME ~ed.dirty, ed.shown # NoLayout
                 PROVE  /\ ed.rows = Merged(d[ed.shown])
                        /\ t = ed.shown => r = d[ed.shown].regs /\ x = d[ed.shown].texts
      BY <2>4 DEF CleanOK
    <3>1. ed.shown \in Layouts /\ ed.rows = Merged(disk[ed.shown])  BY <1>1 DEF CleanOK, EdOK
    <3>2. CASE ed.shown = t
      <4>1. r = was.regs /\ x = was.texts  BY <1>1, <3>2 DEF CleanOK, t, r, x, was
      <4>2. ed.rows = append_template_text_bindings(was.regs, was.texts)
        BY <3>1, <3>2 DEF Merged, was
      <4> QED BY <2>3, <3>2, <4>1, <4>2 DEF Merged
    <3>3. CASE ed.shown # t  BY <2>3, <3>1, <3>3
    <3> QED BY <3>2, <3>3
  <2> QED BY <1>1, <2>1, <2>3, <2>5, <2>6 DEF LayoutIInv
<1>6. CASE slot.at # "regs"
  <2> DEFINE d == [disk EXCEPT ![t].texts = x]
             rows == append_template_text_bindings(r, x)
  <2>1. disk' = d /\ slot' = [slot EXCEPT !.at = "done", !.out = rows]
    BY <1>6 DEF JobSaves, t, r, x
  <2>2. StoredOK([regs |-> was.regs, texts |-> x])  BY <1>3, <1>4 DEF StoredOK, Template
  <2>3. /\ DiskOK(d) /\ d[t] = [regs |-> was.regs, texts |-> x]
        /\ \A u \in Layouts \ {t} : d[u] = disk[u]
    <3>1. DOMAIN disk = Layouts /\ \A u \in Layouts : StoredOK(disk[u])  BY <1>1 DEF DiskOK
    <3>2. /\ DOMAIN d = Layouts /\ d[t] = [was EXCEPT !.texts = x]
          /\ \A u \in Layouts \ {t} : d[u] = disk[u]
      BY <1>2, <3>1 DEF was
    <3>3. was = [regs |-> was.regs, texts |-> was.texts]  BY <1>3 DEF Template
    <3>4. d[t] = [regs |-> was.regs, texts |-> x]  BY <3>2, <3>3
    <3> HIDE DEF d
    <3>5. \A u \in Layouts : StoredOK(d[u])  BY <2>2, <3>1, <3>2, <3>4
    <3> QED BY <3>2, <3>4, <3>5 DEF DiskOK
  <2> HIDE DEF d
  <2>4. /\ DOMAIN slot' = JobFields /\ slot'.op = "save" /\ slot'.tpl = t /\ slot'.at = "done"
        /\ slot'.regs = r /\ slot'.texts = x /\ slot'.whole = TRUE /\ slot'.seen = slot.seen
        /\ slot'.out = rows /\ slot'.ok = slot.ok
    <3> HIDE DEF rows
    <3> QED BY <1>1, <1>2, <2>1 DEF JobFields, t, r, x
  <2>5. slot'.ok => was.regs = r /\ rows = Merged(d[t])
    BY <1>2, <1>6, <2>3, <2>4 DEF Merged
  <2>6. JobOK(slot', d)  BY <1>2, <2>3, <2>4, <2>5 DEF JobOK
  <2>7. CleanOK(ed, slot', d)
    <3> SUFFICES ASSUME ~ed.dirty, ed.shown # NoLayout PROVE ed.rows = Merged(d[ed.shown])
      BY <2>4 DEF CleanOK
    <3>1. ed.shown \in Layouts /\ ed.rows = Merged(disk[ed.shown])  BY <1>1 DEF CleanOK, EdOK
    <3>2. CASE ed.shown = t
      <4>1. x = was.texts  BY <1>1, <3>2 DEF CleanOK, t, x, was
      <4>2. ed.rows = append_template_text_bindings(was.regs, was.texts)
        BY <3>1, <3>2 DEF Merged, was
      <4> QED BY <2>3, <3>2, <4>1, <4>2 DEF Merged
    <3>3. CASE ed.shown # t  BY <2>3, <3>1, <3>3
    <3> QED BY <3>2, <3>3
  <2> QED BY <1>1, <2>1, <2>3, <2>6, <2>7 DEF LayoutIInv
<1> QED BY <1>5, <1>6

LEMMA TasksEndKeep ==
  ASSUME LayoutIInv, JobFails \/ JobReads
  PROVE  LayoutIInv'
<1>1. /\ EdOK(ed) /\ DiskOK(disk) /\ CleanOK(ed, slot, disk) /\ JobOK(slot, disk) /\ clicks \in Nat
      /\ ed' = ed /\ disk' = disk /\ clicks' = clicks /\ slot.at # "done" /\ slot # NoJob
  BY NoJobOK DEF LayoutIInv, JobFails, JobReads, Idle
<1>2. DOMAIN slot = JobFields  BY <1>1 DEF JobOK
<1>3. JobOK(slot', disk)
  <2>1. CASE JobFails
    <3>1. slot' = [slot EXCEPT !.at = "done", !.ok = FALSE]  BY <2>1 DEF JobFails
    <3>2. /\ DOMAIN slot' = JobFields /\ slot'.at = "done" /\ slot'.ok = FALSE
          /\ slot'.op = slot.op /\ slot'.tpl = slot.tpl /\ slot'.seen = slot.seen
          /\ slot'.regs = slot.regs /\ slot'.texts = slot.texts /\ slot'.whole = slot.whole
      BY <1>2, <3>1 DEF JobFields
    <3> QED BY <1>1, <3>2 DEF JobOK
  <2>2. CASE JobReads
    <3>1. slot' = [slot EXCEPT !.at = "done"] /\ slot.op \in {"regs", "lists"}  BY <2>2 DEF JobReads
    <3>2. DOMAIN slot' = JobFields /\ slot'.op = slot.op /\ slot'.tpl = slot.tpl
      BY <1>2, <3>1 DEF JobFields
    <3> QED BY <1>1, <3>1, <3>2 DEF JobOK
  <2> QED BY <2>1, <2>2
<1>4. slot'.at = "done"
  <2>1. CASE JobFails
    <3>1. slot' = [slot EXCEPT !.at = "done", !.ok = FALSE]  BY <2>1 DEF JobFails
    <3> QED BY <1>2, <3>1 DEF JobFields
  <2>2. CASE JobReads
    <3>1. slot' = [slot EXCEPT !.at = "done"]  BY <2>2 DEF JobReads
    <3> QED BY <1>2, <3>1 DEF JobFields
  <2> QED BY <2>1, <2>2
<1>5. CleanOK(ed', slot', disk')  BY <1>1, <1>4 DEF CleanOK
<1> QED BY <1>1, <1>3, <1>5 DEF LayoutIInv

LEMMA AnswerKeeps ==
  ASSUME LayoutIInv, AnswerShown
  PROVE  LayoutIInv'
<1>1. /\ EdOK(ed) /\ DiskOK(disk) /\ CleanOK(ed, slot, disk) /\ JobOK(slot, disk) /\ clicks \in Nat
      /\ disk' = disk /\ clicks' = clicks /\ slot.at = "done" /\ slot # NoJob
  BY DEF LayoutIInv, AnswerShown, Idle
<1>2. CASE ~(slot.ok /\ slot.op \in {"load", "save"})
  <2>1. SlotFreed  BY <1>2 DEF AnswerShown
  <2>2. JobOK(slot', disk) /\ slot'.op \in {"none", "lists"}
    BY <2>1, NoJobOK, ListsJobOK DEF SlotFreed
  <2>3. CASE ed' = ClearForKpz(ed)
    <3>1. EdOK(ed') /\ ed'.shown = NoLayout  BY <1>1, <2>3, ClearedOK
    <3>2. CleanOK(ed', slot', disk')  BY <3>1 DEF CleanOK
    <3> QED BY <1>1, <2>2, <3>1, <3>2 DEF LayoutIInv
  <2>4. CASE ed' = ed \/ ed' = [ed EXCEPT !.due = @ \ {"windows"}]
    <3>1. /\ DOMAIN ed' = EdFields
          /\ \A x \in {"rows", "muted", "dirty", "tpl", "shown"} : ed'[x] = ed[x]
      BY <1>1, <2>4 DEF EdFields, EdOK
    <3>2. EditOK(ed, ed')  BY <1>1, <3>1, MarksOK
    <3>3. CleanOK(ed', slot', disk')  BY <1>1, <2>2, <3>2 DEF CleanOK, EditOK
    <3> QED BY <1>1, <2>2, <3>2, <3>3 DEF LayoutIInv, EditOK
  <2> QED BY <2>1, <2>3, <2>4 DEF SlotFreed
<1>3. CASE slot.ok /\ slot.op \in {"load", "save"}
  <2>1. ed' = Taken(ed, slot) /\ slot' = Job("regs", slot.tpl, <<>>, <<>>)
    BY <1>3 DEF AnswerShown
  <2>2. slot.tpl \in Layouts /\ StoredOK(disk[slot.tpl])  BY <1>1, <1>3 DEF JobOK, DiskOK
  <2>3. /\ slot.whole \in BOOLEAN
        /\ slot.out = IF slot.whole THEN Merged(disk[slot.tpl]) ELSE disk[slot.tpl].regs
    BY <1>1, <1>3 DEF JobOK
  <2>4. RowsOK(slot.out)  BY <2>2, <2>3, MergedIs
  <2>5. JobOK(slot', disk) /\ slot'.op = "regs"
    <3>1. DOMAIN slot' = JobFields /\ slot'.op = "regs" /\ slot'.tpl = slot.tpl
      BY <2>1 DEF Job, JobFields
    <3> QED BY <2>2, <3>1 DEF JobOK
  <2>6. /\ EdOK(ed')
        /\ IF slot.out = <<>>
           THEN ed'.rows = ed.rows /\ ed'.shown = ed.shown /\ ed'.dirty = ed.dirty
           ELSE /\ ed'.rows = slot.out /\ ed'.dirty = FALSE
                /\ ed'.shown = IF slot.whole THEN slot.tpl ELSE NoLayout
    BY <1>1, <2>1, <2>2, <2>3, <2>4, TakenOK
  <2>7. CleanOK(ed', slot', disk')  BY <1>1, <2>3, <2>5, <2>6 DEF CleanOK
  <2> QED BY <1>1, <2>5, <2>6, <2>7 DEF LayoutIInv
<1> QED BY <1>2, <1>3

LEMMA OtherStepsKeep ==
  ASSUME LayoutIInv, DragEnds \/ ExportProfile
  PROVE  LayoutIInv'
<1>1. /\ EdOK(ed) /\ DiskOK(disk) /\ CleanOK(ed, slot, disk) /\ JobOK(slot, disk) /\ clicks' \in Nat
      /\ disk' = disk /\ slot' = slot /\ DOMAIN ed = EdFields
  <2>1. /\ EdOK(ed) /\ DiskOK(disk) /\ CleanOK(ed, slot, disk) /\ JobOK(slot, disk)
        /\ clicks \in Nat
    BY DEF LayoutIInv
  <2>2. disk' = disk /\ slot' = slot /\ (clicks' = clicks \/ clicks' = clicks + 1)
    BY DEF DragEnds, ExportProfile
  <2> QED BY <2>1, <2>2 DEF EdOK
<1>2. /\ DOMAIN ed' = EdFields
      /\ \A x \in {"rows", "muted", "dirty", "tpl", "shown"} : ed'[x] = ed[x]
  <2>1. CASE DragEnds
    <3>1. \/ \E now : \E p : ed' = [ed EXCEPT !.drag = NoDrag, !.chosen = now, !.primary = p]
          \/ ed' = [ed EXCEPT !.drag = NoDrag]
      BY <2>1 DEF DragEnds
    <3> QED BY <1>1, <3>1 DEF EdFields
  <2>2. CASE ExportProfile
    BY <1>1, <2>2 DEF ExportProfile, clear_web_safe_changed_trail, EdFields
  <2> QED BY <2>1, <2>2
<1>3. EditOK(ed, ed')  BY <1>1, <1>2, MarksOK
<1>4. CleanOK(ed', slot', disk')  BY <1>1, <1>3 DEF CleanOK, EditOK
<1> QED BY <1>1, <1>3, <1>4 DEF LayoutIInv, EditOK

-----------------------------------------------------------------------------
(* The invariant holds, and what follows from it                           *)

\* Whatever the user does to the rows of a template, and whatever task runs or
\* fails meanwhile, the rows keep numbers of their own and their order, the
\* mutes are the flags, and a screen without a mark shows a stored template.
THEOREM LayoutIsInductive == LayoutSpec => []LayoutIInv
<1>1. ASSUME LayoutIInv, [LayoutNext]_layoutVars PROVE LayoutIInv'
  <2>1. CASE UNCHANGED layoutVars
    BY <1>1, <2>1 DEF LayoutIInv, layoutVars
  <2>2. CASE JobLoads \/ JobSaves \/ JobFails \/ JobReads \/ AnswerShown
    BY <1>1, <2>2, LoadsKeep, SavesKeep, TasksEndKeep, AnswerKeeps
  <2>3. CASE \/ PressSaveAll \/ PressNew \/ ChangeKpz \/ OpenViewer \/ DragEnds \/ ExportProfile
             \/ \E t \in Layouts \cup {NoLayout} : ChooseLayout(t)
    BY <1>1, <2>3, SavePressKeeps, NewKeeps, ScreenEmptiedKeeps, OtherStepsKeep, ChooseKeeps
  <2>4. CASE \/ AddRegs \/ AddTextOrImage \/ EditRow \/ batch_set_size \/ batch_arrange
             \/ fit_selected_images_to_layout \/ MoveRow \/ RemoveRow \/ DragMoves
    BY <1>1, <2>4, RowEditsKeep
  <2>5. CASE MarkRows \/ DragStarts \/ SetFilters
    BY <1>1, <2>5, MarkStepsKeep
  <2>6. CASE \/ MuteSelected \/ ClearMuted \/ NextWarning \/ ImportProfile
             \/ ImportIntoSelection \/ WalkTrail
    BY <1>1, <2>6, CheckStepsKeep
  <2> QED BY <1>1, <2>1, <2>2, <2>3, <2>4, <2>5, <2>6 DEF LayoutNext
<1> QED BY LayoutStarts, <1>1, PTL DEF LayoutSpec

LEMMA RowsApart ==
  ASSUME NEW s, RowsOK(s)
  PROVE  /\ Cardinality(IdsOf(s)) = Len(s)
         /\ \A i \in 1 .. Len(s) - 1 : Before(s[i], s[i + 1])
<1>1. s \in Seq(Row)  BY DEF RowsOK, Loose
<1>2. Len(s) \in Nat /\ DOMAIN s = 1 .. Len(s)  BY <1>1, SeqOfRows
<1> DEFINE f == [i \in 1 .. Len(s) |-> s[i].id]
<1>3. f \in Bijection(1 .. Len(s), IdsOf(s))
  <2>1. f \in [1 .. Len(s) -> IdsOf(s)]  BY <1>2 DEF IdsOf
  <2>2. \A i, j \in 1 .. Len(s) : i # j => f[i] # f[j]  BY <1>2 DEF RowsOK, Loose, AllApart
  <2>3. \A x \in IdsOf(s) : \E i \in 1 .. Len(s) : f[i] = x  BY <1>2 DEF IdsOf
  <2> QED BY <2>1, <2>2, <2>3 DEF Bijection, Injection, Surjection, IsInjective
<1>4. ExistsBijection(1 .. Len(s), IdsOf(s))  BY <1>3 DEF ExistsBijection
<1>5. IsFiniteSet(1 .. Len(s)) /\ Cardinality(1 .. Len(s)) = Len(s)
  <2>1. PICK n \in Nat : n = Len(s)  BY <1>2
  <2>2. 1 \in Int /\ n \in Int  OBVIOUS
  <2>3. IsFiniteSet(1 .. n) /\ Cardinality(1 .. n) = IF 1 > n THEN 0 ELSE n - 1 + 1
    BY <2>2, FS_Interval
  <2>4. Cardinality(1 .. n) = n  BY <2>2, <2>3
  <2> QED BY <2>1, <2>3, <2>4, SMTT(30)
<1>6. Cardinality(IdsOf(s)) = Len(s)  BY <1>4, <1>5, FS_Bijection
<1>7. ASSUME NEW i \in 1 .. Len(s) - 1 PROVE Before(s[i], s[i + 1])
  <2>1. i \in DOMAIN s /\ i + 1 \in DOMAIN s /\ i < i + 1  BY <1>2
  <2> QED BY <2>1 DEF RowsOK, InOrder
<1> QED BY <1>6, <1>7

\* The mutes in use are those Save all stores, and no number names two rows
\* (window_link_editor.rs:341, :427; web_safe.rs:705).
THEOREM MutesStored == LayoutSpec => []MutesAreStored
<1>1. LayoutIInv => MutesAreStored
  <2> SUFFICES ASSUME LayoutIInv PROVE MutesAreStored  OBVIOUS
  <2>1. RowsOK(ed.rows) /\ ed.muted = FlaggedIn(ed.rows)  BY DEF LayoutIInv, EdOK
  <2> QED BY <2>1, RowsApart DEF MutesAreStored
<1> QED BY <1>1, LayoutIsInductive, PTL

\* A screen without "Unsaved changes" shows the template as it is stored, and a
\* finished save has stored what was on screen (actions_templates.rs:499).
THEOREM EditsKept == LayoutSpec => []EditsAreKept
<1>1. LayoutIInv => UnsavedIsMarked
  <2> SUFFICES ASSUME LayoutIInv, ~ed.dirty, ed.shown = ed.tpl, ed.tpl # NoLayout
               PROVE  ed.rows = RowsOnDisk(ed.tpl) /\ ed.muted = FlaggedIn(ed.rows)
    BY DEF UnsavedIsMarked
  <2>1. ed.rows = Merged(disk[ed.tpl]) /\ ed.muted = FlaggedIn(ed.rows)
    BY DEF LayoutIInv, CleanOK, EdOK
  <2> QED BY <2>1 DEF Merged, RowsOnDisk
<1>2. LayoutIInv => SaveLosesNothing
  <2> SUFFICES ASSUME LayoutIInv, slot.op = "save", slot.at = "done", slot.ok
               PROVE  /\ Contents(disk[slot.tpl].regs) = Contents(Kept(slot.seen, RegPlaces(slot.seen)))
                      /\ Contents(disk[slot.tpl].texts) = Contents(Kept(slot.seen, TextPlaces(slot.seen)))
    BY DEF SaveLosesNothing
  <2>1. slot # NoJob /\ JobOK(slot, disk)  BY NoJobOK DEF LayoutIInv
  <2>2. /\ RowsOK(slot.seen) /\ disk[slot.tpl].regs = RegsOf(slot.seen)
        /\ disk[slot.tpl].texts = collect_template_text_items(slot.seen)
    BY <2>1 DEF JobOK
  <2> QED BY <2>2, PartsOK
<1>3. LayoutIInv => EditsAreKept  BY <1>1, <1>2 DEF EditsAreKept
<1> QED BY <1>3, LayoutIsInductive, PTL

-----------------------------------------------------------------------------
(* Lists in an order *)

\* The list of a set in an order.
LEMMA OrderedIs ==
  ASSUME NEW D, IsFiniteSet(D), NEW before, IsOrder(D, before)
  PROVE  /\ Cardinality(D) \in Nat /\ Ordered(D, before) \in [1 .. Cardinality(D) -> D]
         /\ \A x \in D : \E n \in 1 .. Cardinality(D) : Ordered(D, before)[n] = x
         /\ \A m, n \in 1 .. Cardinality(D) : m < n => Ordered(D, before)[m] \in before[Ordered(D, before)[n]]
<1> DEFINE c == Cardinality(D)
           s == Ordered(D, before)
<1>1. c \in Nat  BY FS_CardinalityType
<1>2. /\ \A x \in D : Cardinality(before[x]) \in 0 .. c - 1
      /\ \A x, y \in D : x \in before[y] <=> Cardinality(before[x]) < Cardinality(before[y])
      /\ \A n \in 1 .. c : \E x \in D : Cardinality(before[x]) = n - 1
  BY RankIs
<1>3. \A n \in 1 .. c : s[n] \in D /\ Cardinality(before[s[n]]) = n - 1
  <2> TAKE n \in 1 .. c
  <2>1. \E x \in D : Cardinality(before[x]) = n - 1  BY <1>2
  <2>2. s[n] = CHOOSE x \in D : Cardinality(before[x]) = n - 1  BY DEF Ordered
  <2> HIDE DEF s
  <2> QED BY <2>1, <2>2
<1>4. s \in [1 .. c -> D]  BY <1>3 DEF Ordered
<1> HIDE DEF s, c
<1>5. \A m, n \in 1 .. c : m < n => s[m] \in before[s[n]]
  <2> TAKE m \in 1 .. c, n \in 1 .. c
  <2> HAVE m < n
  <2>1. m - 1 < n - 1  BY <1>1
  <2> QED BY <1>2, <1>3, <2>1
<1>6. \A x \in D : \E n \in 1 .. c : s[n] = x
  <2> TAKE x \in D
  <2>1. PICK n \in Int : n = Cardinality(before[x]) + 1  BY <1>2
  <2>2. n \in 1 .. c /\ n - 1 = Cardinality(before[x])  BY <1>1, <1>2, <2>1
  <2>3. s[n] \in D /\ Cardinality(before[s[n]]) = Cardinality(before[x])  BY <1>3, <2>2
  <2>4. s[n] \notin before[x] /\ x \notin before[s[n]]
    <3>1. Cardinality(before[x]) \in Int  BY <1>2
    <3> QED BY <1>2, <2>3, <3>1
  <2>5. s[n] = x  BY <2>3, <2>4 DEF IsOrder
  <2> QED BY <2>2, <2>5
<1> QED BY <1>1, <1>4, <1>5, <1>6 DEF s, c

\* The n-th of a set that begins with lo + 1, lo + 2, ...
LEMMA NthOfRun ==
  ASSUME NEW lo \in Int, NEW e \in Int, NEW S \in SUBSET (lo + 1 .. e),
         NEW k \in Nat, lo + 1 .. lo + k \subseteq S
  PROVE  k <= Cardinality(S) /\ \A n \in 1 .. k : Nth(S, n) = lo + n
<1>1. IsFiniteSet(S) /\ S \in SUBSET Int
  <2>1. IsFiniteSet(lo + 1 .. e)  BY FS_Interval
  <2>2. IsFiniteSet(S)  BY <2>1, FS_Subset
  <2>3. lo + 1 .. e \subseteq Int  OBVIOUS
  <2> QED BY <2>2, <2>3
<1>2. Cardinality(S) \in Nat  BY <1>1, FS_CardinalityType
<1>3. k <= Cardinality(S)
  <2>1. Cardinality(lo + 1 .. lo + k) = k  BY FS_Interval
  <2>2. Cardinality(lo + 1 .. lo + k) <= Cardinality(S)  BY <1>1, FS_Subset
  <2> QED BY <2>1, <2>2
<1>4. /\ \A n \in 1 .. Cardinality(S) : Nth(S, n) \in S
      /\ \A m, n \in 1 .. Cardinality(S) : m < n => Nth(S, m) < Nth(S, n)
      /\ \A x \in S : \E n \in 1 .. Cardinality(S) : Nth(S, n) = x
  BY <1>1, NthIs
<1>5. ASSUME NEW n \in 1 .. k PROVE Nth(S, n) = lo + n
  <2> DEFINE x == lo + n
  <2>1. x \in S /\ n \in 1 .. Cardinality(S)
    <3>1. x \in lo + 1 .. lo + k  OBVIOUS
    <3> QED BY <1>2, <1>3, <3>1
  <2>2. {y \in S : y < x} = lo + 1 .. lo + (n - 1)
    <3>1. ASSUME NEW y \in lo + 1 .. lo + (n - 1) PROVE y \in S /\ y < x
      <4>1. y \in lo + 1 .. lo + k  OBVIOUS
      <4> QED BY <4>1
    <3>2. ASSUME NEW y \in S, y < x PROVE y \in lo + 1 .. lo + (n - 1)
      <4>1. y \in Int /\ lo + 1 <= y  OBVIOUS
      <4> QED BY <3>2, <4>1
    <3> QED BY <3>1, <3>2
  <2>3. Cardinality({y \in S : y < x}) = n - 1
    <3>1. Cardinality(lo + 1 .. lo + (n - 1)) = n - 1
      <4>1. n - 1 \in Nat /\ lo + 1 \in Int /\ lo + (n - 1) \in Int  OBVIOUS
      <4>2. Cardinality(lo + 1 .. lo + (n - 1)) = IF lo + 1 > lo + (n - 1) THEN 0 ELSE lo + (n - 1) - (lo + 1) + 1
        BY <4>1, FS_Interval
      <4> QED BY <4>1, <4>2
    <3> QED BY <2>2, <3>1
  <2>4. Nth(S, n) \in S /\ Cardinality({y \in S : y < Nth(S, n)}) = n - 1
    <3>1. \E z \in S : Cardinality({y \in S : y < z}) = n - 1  BY <2>1, <2>3
    <3> QED BY <3>1 DEF Nth
  <2> DEFINE z == Nth(S, n)
             before(w) == {y \in S : y < w}
  <2> HIDE DEF x, z
  <2>5. x \in Int /\ z \in Int /\ x \in S /\ z \in S  BY <1>1, <2>1, <2>4 DEF z
  <2>6. ~(x < z)
    <3> SUFFICES ASSUME x < z PROVE FALSE  OBVIOUS
    <3>0. \A y \in S : y \in Int  BY <1>1
    <3>1. before(x) \subseteq before(z)
      <4> SUFFICES ASSUME NEW y \in S, y < x PROVE y < z  OBVIOUS
      <4> QED BY <2>5, <3>0
    <3>2. x \in before(z) /\ x \notin before(x)  BY <2>5
    <3>3. IsFiniteSet(before(z))
      <4>1. before(z) \in SUBSET S  OBVIOUS
      <4> QED BY ONLY <1>1, <4>1, FS_Subset
    <3>4. Cardinality(before(x)) # Cardinality(before(z))
      <4> HIDE DEF before
      <4> QED BY <3>1, <3>2, <3>3, FS_Subset
    <3> QED BY <2>3, <2>4, <3>4 DEF z
  <2>7. ~(z < x)
    <3> SUFFICES ASSUME z < x PROVE FALSE  OBVIOUS
    <3>0. \A y \in S : y \in Int  BY <1>1
    <3>1. before(z) \subseteq before(x)
      <4> SUFFICES ASSUME NEW y \in S, y < z PROVE y < x  OBVIOUS
      <4> QED BY <2>5, <3>0
    <3>2. z \in before(x) /\ z \notin before(z)  BY <2>5
    <3>3. IsFiniteSet(before(x))
      <4>1. before(x) \in SUBSET S  OBVIOUS
      <4> QED BY ONLY <1>1, <4>1, FS_Subset
    <3>4. Cardinality(before(x)) # Cardinality(before(z))
      <4> HIDE DEF before
      <4> QED BY <3>1, <3>2, <3>3, FS_Subset
    <3> QED BY <2>3, <2>4, <3>4 DEF z
  <2>8. x = z  BY <2>5, <2>6, <2>7
  <2> QED BY <2>8 DEF x, z
<1> QED BY <1>3, <1>5

-----------------------------------------------------------------------------
(* Reads of registers (LivePoll)                                           *)

Read == [func : {3, 4}, type : {"TIT", "REG", "other"}, first : Int, last : Int, regs : SUBSET Regs]

\* A read covers the words of its registers and nothing else.
Covers(b) ==
  /\ b.regs # {} /\ b.first <= b.last
  /\ \A r \in b.regs : /\ Func(r) = b.func /\ (prog = "web" => r.type = b.type)
                       /\ b.first <= r.mb /\ Last1(r) <= b.last
  /\ \A a \in b.first .. b.last : \E r \in b.regs : a \in Span(r)
  /\ prog # "web" => b.last - b.first + 1 <= MaxWords

\* Reads of which no two share a register, and reads of just the registers S.
Disjoint(p) == /\ p \in Seq(Read) /\ \A i \in DOMAIN p : Covers(p[i])
               /\ \A i, j \in DOMAIN p : i # j => p[i].regs \cap p[j].regs = {}
Divides(p, S) == /\ Disjoint(p) /\ \A i \in DOMAIN p : p[i].regs \subseteq S
                 /\ \A r \in S : \E i \in DOMAIN p : r \in p[i].regs

LEMMA RegIs ==
  ASSUME NEW r \in Regs
  PROVE  /\ r.id \in Int /\ r.mb \in Int /\ r.type \in {"TIT", "REG", "other"}
         /\ Last1(r) \in {r.mb, r.mb + 1} /\ Func(r) \in {3, 4}
         /\ Cardinality(Span(r)) = Last1(r) - r.mb + 1
<1>1. /\ r.id \in Int /\ r.mb \in Int /\ r.type \in {"TIT", "REG", "other"}
      /\ Last1(r) \in {r.mb, r.mb + 1} /\ Func(r) \in {3, 4}
  BY PollAssumption DEF Last1, Func
<1>2. PICK l \in Int : l = Last1(r)  BY <1>1
<1>3. Cardinality(r.mb .. l) = l - r.mb + 1
  <2>1. Cardinality(r.mb .. l) = IF r.mb > l THEN 0 ELSE l - r.mb + 1
    BY ONLY <1>1, <1>2, FS_Interval
  <2> QED BY <1>1, <1>2, <2>1
<1> QED BY <1>1, <1>2, <1>3 DEF Span

LEMMA AloneCovers ==
  ASSUME NEW r \in Regs
  PROVE  Alone(r) \in Read /\ Covers(Alone(r)) /\ Alone(r).regs = {r} /\ Alone(r).first = r.mb
<1> DEFINE b == Alone(r)
<1>1. b = [func |-> Func(r), type |-> r.type, first |-> r.mb, last |-> Last1(r), regs |-> {r}]
  BY DEF Alone
<1>2. r.mb \in Int /\ Last1(r) \in {r.mb, r.mb + 1} /\ Func(r) \in {3, 4}
      /\ r.type \in {"TIT", "REG", "other"}
  BY RegIs
<1>3. /\ b.func = Func(r) /\ b.type = r.type /\ b.first = r.mb /\ b.last = Last1(r) /\ b.regs = {r}
  BY <1>1
<1>4. b \in Read
  <2>1. Last1(r) \in Int  BY <1>2
  <2> QED BY <1>1, <1>2, <2>1 DEF Read
<1> HIDE DEF b
<1>5. b.last - b.first + 1 <= MaxWords  BY <1>2, <1>3, PollAssumption
<1>6. \A a \in b.first .. b.last : a \in Span(r)  BY <1>3 DEF Span
<1>7. Covers(b)  BY <1>2, <1>3, <1>5, <1>6 DEF Covers
<1> QED BY <1>3, <1>4, <1>7 DEF b

LEMMA JoinedCovers ==
  ASSUME NEW b \in Read, Covers(b), NEW r \in Regs, Joins(b, r), \A q \in b.regs : q.mb <= r.mb
  PROVE  /\ Joined(b, r) \in Read /\ Covers(Joined(b, r))
         /\ Joined(b, r).regs = b.regs \cup {r} /\ Joined(b, r).first = b.first
<1> DEFINE c == Joined(b, r)
           l == Farther(b.last, Last1(r))
<1>1. /\ b.func \in {3, 4} /\ b.type \in {"TIT", "REG", "other"} /\ b.first \in Int /\ b.last \in Int
      /\ b.regs \in SUBSET Regs
      /\ b = [func |-> b.func, type |-> b.type, first |-> b.first, last |-> b.last, regs |-> b.regs]
  BY DEF Read
<1>2. r.mb \in Int /\ Last1(r) \in Int /\ Last1(r) >= r.mb
  BY RegIs
<1>3. l \in Int /\ l >= b.last /\ l >= Last1(r) /\ l \in {b.last, Last1(r)}
  BY <1>1, <1>2 DEF Farther
<1>4. c = [func |-> b.func, type |-> b.type, first |-> b.first, last |-> l, regs |-> b.regs \cup {r}]
  <2>1. c = [b EXCEPT !.last = l, !.regs = b.regs \cup {r}]  BY DEF Joined
  <2> HIDE DEF c, l
  <2> QED BY <2>1 DEF Read
<1>5. /\ c.func = b.func /\ c.type = b.type /\ c.first = b.first /\ c.last = l
      /\ c.regs = b.regs \cup {r}
  BY <1>4
<1>6. c \in Read
  <2>1. b.regs \cup {r} \in SUBSET Regs  BY <1>1
  <2>2. \A f \in {3, 4}, t \in {"TIT", "REG", "other"}, x, y \in Int, R \in SUBSET Regs :
           [func |-> f, type |-> t, first |-> x, last |-> y, regs |-> R] \in Read
    BY DEF Read
  <2> HIDE DEF c, l
  <2> QED BY <1>1, <1>3, <1>4, <2>1, <2>2
<1>7. b.func = Func(r) /\ (prog = "web" => b.type = r.type) /\ r.mb <= b.last + 1
      /\ (prog # "web" => l - b.first + 1 <= MaxWords)
  BY DEF Joins
<1> HIDE DEF c, l
<1>8. b.first <= r.mb
  <2>1. PICK q \in b.regs : q \in Regs  BY <1>1 DEF Covers
  <2>2. b.first <= q.mb /\ q.mb <= r.mb /\ q.mb \in Int  BY <2>1, RegIs DEF Covers
  <2> QED BY <1>1, <1>2, <2>2
<1>9. \A q \in c.regs : /\ Func(q) = c.func /\ (prog = "web" => q.type = c.type)
                        /\ c.first <= q.mb /\ Last1(q) <= c.last
  <2> TAKE q \in c.regs
  <2>1. CASE q = r  BY <1>3, <1>5, <1>7, <1>8, <2>1
  <2>2. CASE q \in b.regs
    <3>1. Func(q) = b.func /\ (prog = "web" => q.type = b.type) /\ b.first <= q.mb /\ Last1(q) <= b.last
      BY <2>2 DEF Covers
    <3>2. Last1(q) \in Int  BY <1>1, <2>2, RegIs
    <3> QED BY <1>1, <1>3, <1>5, <3>1, <3>2
  <2> QED BY <1>5, <2>1, <2>2
<1>10. \A a \in c.first .. c.last : \E q \in c.regs : a \in Span(q)
  <2> TAKE a \in c.first .. c.last
  <2>1. a \in Int /\ b.first <= a /\ a <= l  BY <1>5
  <2>2. CASE a <= b.last
    <3>1. a \in b.first .. b.last  BY <1>1, <2>1, <2>2
    <3> QED BY <1>5, <3>1 DEF Covers
  <2>3. CASE a > b.last
    <3>1. a \in r.mb .. Last1(r)  BY <1>1, <1>2, <1>3, <1>7, <2>1, <2>3
    <3> QED BY <1>5, <3>1 DEF Span
  <2> QED BY <1>1, <2>1, <2>2, <2>3
<1>11. c.regs # {} /\ c.first <= c.last
  <2>1. b.first <= b.last  BY DEF Covers
  <2> QED BY <1>1, <1>3, <1>5, <2>1
<1>12. Covers(c)  BY <1>5, <1>7, <1>9, <1>10, <1>11 DEF Covers
<1> QED BY <1>5, <1>6, <1>12 DEF c

\* One more register, not below the others.
LEMMA GatherDivides ==
  ASSUME NEW S \in SUBSET Regs, NEW p, Divides(p, S), NEW r \in Regs, r \notin S,
         \A q \in S : q.mb <= r.mb
  PROVE  Divides(Gather(p, r), S \cup {r})
<1> DEFINE n == Len(p)
           g == Gather(p, r)
           T == S \cup {r}
<1>1. p \in Seq(Read) /\ n \in Nat /\ DOMAIN p = 1 .. n /\ \A i \in 1 .. n : p[i] \in Read
  BY DEF Divides, Disjoint
<1>2. /\ \A i \in 1 .. n : Covers(p[i]) /\ p[i].regs \subseteq S
      /\ \A i, j \in 1 .. n : i # j => p[i].regs \cap p[j].regs = {}
      /\ \A q \in S : \E i \in 1 .. n : q \in p[i].regs
  BY <1>1 DEF Divides, Disjoint
<1>3. CASE n > 0 /\ Joins(p[n], r)
  <2> DEFINE b == p[n]
             c == Joined(b, r)
  <2>1. n \in 1 .. n  BY <1>1, <1>3
  <2>2. b \in Read /\ Covers(b) /\ b.regs \subseteq S  BY <1>1, <1>2, <2>1
  <2>3. c \in Read /\ Covers(c) /\ c.regs = b.regs \cup {r}
    <3>1. \A q \in b.regs : q.mb <= r.mb  BY <2>2
    <3> HIDE DEF b
    <3> QED BY <1>3, <2>2, <3>1, JoinedCovers DEF b
  <2>4. g = [p EXCEPT ![n] = c]  BY <1>3 DEF Gather
  <2> HIDE DEF c
  <2>5. /\ DOMAIN g = 1 .. n /\ g[n] = c /\ \A i \in 1 .. n : i # n => g[i] = p[i]
    BY <1>1, <2>1, <2>4
  <2>6. g \in Seq(Read)
    <3>1. g \in [1 .. n -> Read]  BY <1>1, <2>3, <2>4
    <3> QED BY <1>1, <3>1
  <2> HIDE DEF g, n, b
  <2>7. \A i \in 1 .. n : Covers(g[i]) /\ g[i].regs \subseteq T
    <3> TAKE i \in 1 .. n
    <3>1. CASE i = n  BY <2>2, <2>3, <2>5, <3>1
    <3>2. CASE i # n  BY <1>2, <2>5, <3>2
    <3> QED BY <3>1, <3>2
  <2>8. \A i, j \in 1 .. n : i # j => g[i].regs \cap g[j].regs = {}
    <3> TAKE i \in 1 .. n, j \in 1 .. n
    <3> HAVE i # j
    <3>0. r \notin p[i].regs /\ r \notin p[j].regs /\ p[i].regs \cap p[j].regs = {}
      BY <1>2
    <3>1. CASE i = n  BY <2>3, <2>5, <3>0, <3>1 DEF b
    <3>2. CASE j = n  BY <2>3, <2>5, <3>0, <3>2 DEF b
    <3>3. CASE i # n /\ j # n  BY <2>5, <3>0, <3>3
    <3> QED BY <3>1, <3>2, <3>3
  <2>9. \A q \in T : \E i \in 1 .. n : q \in g[i].regs
    <3> TAKE q \in T
    <3>1. CASE q = r  BY <2>1, <2>3, <2>5, <3>1
    <3>2. CASE q \in S
      <4>1. PICK i \in 1 .. n : q \in p[i].regs  BY <1>2, <3>2
      <4>2. q \in g[i].regs  BY <2>3, <2>5, <4>1 DEF b
      <4> QED BY <4>2
    <3> QED BY <3>1, <3>2
  <2> QED BY <2>5, <2>6, <2>7, <2>8, <2>9 DEF Divides, Disjoint, g
<1>4. CASE ~(n > 0 /\ Joins(p[n], r))
  <2> DEFINE c == Alone(r)
  <2>1. c \in Read /\ Covers(c) /\ c.regs = {r}  BY AloneCovers
  <2>2. g = Append(p, c)  BY <1>4 DEF Gather
  <2> HIDE DEF c
  <2>3. /\ g \in Seq(Read) /\ DOMAIN g = 1 .. n + 1 /\ g[n + 1] = c
        /\ \A i \in 1 .. n : g[i] = p[i]
    BY <1>1, <2>1, <2>2
  <2>4. \A i \in 1 .. n + 1 : i = n + 1 \/ i \in 1 .. n  BY <1>1
  <2>5. 1 .. n \subseteq 1 .. n + 1 /\ n + 1 \in 1 .. n + 1  BY <1>1
  <2> HIDE DEF g, n
  <2>6. \A i \in 1 .. n + 1 : Covers(g[i]) /\ g[i].regs \subseteq T
    BY <1>2, <2>1, <2>3, <2>4
  <2>7. \A i, j \in 1 .. n + 1 : i # j => g[i].regs \cap g[j].regs = {}
    <3> TAKE i \in 1 .. n + 1, j \in 1 .. n + 1
    <3> HAVE i # j
    <3>1. \A k \in 1 .. n : r \notin p[k].regs  BY <1>2
    <3>2. CASE i = n + 1  BY <2>1, <2>3, <2>4, <3>1, <3>2
    <3>3. CASE j = n + 1  BY <2>1, <2>3, <2>4, <3>1, <3>3
    <3>4. CASE i \in 1 .. n /\ j \in 1 .. n  BY <1>2, <2>3, <3>4
    <3> QED BY <2>4, <3>2, <3>3, <3>4
  <2>8. \A q \in T : \E i \in 1 .. n + 1 : q \in g[i].regs
    BY <1>2, <2>1, <2>3, <2>5
  <2> QED BY <2>3, <2>6, <2>7, <2>8 DEF Divides, Disjoint, g
<1> QED BY <1>3, <1>4

\* The loop of Gathered is what its steps make of it.
Gathers(c, s, n) == c = [k \in 0 .. n |-> IF k = 0 THEN <<>> ELSE Gather(c[k - 1], s[k])]

LEMMA GathersExists ==
  ASSUME NEW s, NEW n \in Nat
  PROVE  \E c : Gathers(c, s, n)
<1> USE DEF Gathers
<1> DEFINE Has(i) == \E c : c = [k \in 0 .. i |-> IF k = 0 THEN <<>> ELSE Gather(c[k - 1], s[k])]
           S == {i \in Nat : ~Has(i)}
           R == OpToRel(<, Nat)
<1>1. SUFFICES ASSUME S # {} PROVE FALSE  OBVIOUS
<1>2. PICK x \in S : \A y \in S : ~(<<y, x>> \in R)
  <2>1. IsWellFoundedOn(R, Nat)  BY NatLessThanWellFounded
  <2>2. S \subseteq Nat  OBVIOUS
  <2> HIDE DEF R, S
  <2> QED BY <1>1, <2>1, <2>2, WFMin
<1>3. x \in Nat /\ ~Has(x)  OBVIOUS
<1>4. \A y \in Nat : y < x => Has(y)  BY <1>2, <1>3 DEF OpToRel
<1>5. CASE x = 0
  <2> DEFINE c == [k \in 0 .. 0 |-> <<>>]
  <2>1. c = [k \in 0 .. 0 |-> IF k = 0 THEN <<>> ELSE Gather(c[k - 1], s[k])]  OBVIOUS
  <2>2. Has(0)
    <3> HIDE DEF c
    <3> QED BY <2>1
  <2> QED BY <1>3, <1>5, <2>2
<1>6. CASE x # 0
  <2>1. x - 1 \in Nat /\ x - 1 < x  BY <1>3, <1>6
  <2>2. Has(x - 1)  BY <1>4, <2>1
  <2>3. PICK b : b = [k \in 0 .. x - 1 |-> IF k = 0 THEN <<>> ELSE Gather(b[k - 1], s[k])]
    BY <2>2
  <2> DEFINE c == [k \in 0 .. x |-> IF k = x THEN Gather(b[x - 1], s[x]) ELSE b[k]]
  <2>4. \A k \in 0 .. x - 1 : c[k] = b[k] /\ b[k] = IF k = 0 THEN <<>> ELSE Gather(b[k - 1], s[k])
    <3>1. \A k \in 0 .. x - 1 : k \in 0 .. x /\ k # x  BY <1>3
    <3>2. \A k \in 0 .. x - 1 : c[k] = b[k]  BY <3>1
    <3>3. \A k \in 0 .. x - 1 : b[k] = IF k = 0 THEN <<>> ELSE Gather(b[k - 1], s[k])  BY <2>3
    <3> QED BY <3>2, <3>3
  <2>5. c[x] = Gather(b[x - 1], s[x]) /\ DOMAIN c = 0 .. x  BY <1>3
  <2> DEFINE e == [k \in 0 .. x |-> IF k = 0 THEN <<>> ELSE Gather(c[k - 1], s[k])]
  <2>6. ASSUME NEW k \in 0 .. x PROVE c[k] = e[k]
    <3>1. e[k] = IF k = 0 THEN <<>> ELSE Gather(c[k - 1], s[k])  OBVIOUS
    <3> HIDE DEF c, e
    <3>2. CASE k = x
      <4>1. x - 1 \in 0 .. x - 1  BY <1>3, <1>6
      <4>2. c[x - 1] = b[x - 1]  BY <2>4, <4>1
      <4> QED BY <1>6, <2>5, <3>1, <3>2, <4>2
    <3>3. CASE k # x
      <4>1. k \in 0 .. x - 1  BY <1>3, <3>3
      <4>2. CASE k = 0  BY <2>4, <3>1, <4>1, <4>2
      <4>3. CASE k # 0
        <5>1. k - 1 \in 0 .. x - 1  BY <4>1, <4>3
        <5> QED BY <2>4, <3>1, <4>1, <4>3, <5>1
      <4> QED BY <4>2, <4>3
    <3> QED BY <3>2, <3>3
  <2>7. c = [k \in 0 .. x |-> c[k]]  OBVIOUS
  <2>8. c = e
    <3>1. e = [k \in 0 .. x |-> e[k]]  OBVIOUS
    <3> HIDE DEF c, e
    <3> QED BY <2>6, <2>7, <3>1
  <2>9. Has(x)
    <3> HIDE DEF c
    <3> QED BY <2>8
  <2> QED BY <1>3, <2>9
<1> QED BY <1>5, <1>6

\* A list by address gives reads of its registers.
LEMMA GatheredDivides ==
  ASSUME NEW S \in SUBSET Regs, NEW n \in Nat, NEW s \in [1 .. n -> S],
         \A r \in S : \E i \in 1 .. n : s[i] = r,
         \A i, j \in 1 .. n : i < j => s[i] # s[j] /\ s[i].mb <= s[j].mb
  PROVE  Divides(Gathered(s), S)
<1> DEFINE c == CHOOSE f : f = [k \in 0 .. n |-> IF k = 0 THEN <<>> ELSE Gather(f[k - 1], s[k])]
<1>1. Len(s) = n  OBVIOUS
<1>2. Gathered(s) = c[n]  BY <1>1 DEF Gathered
<1>3. c = [k \in 0 .. n |-> IF k = 0 THEN <<>> ELSE Gather(c[k - 1], s[k])]
  <2>1. \E f : Gathers(f, s, n)
    <3> HIDE DEF c
    <3> QED BY GathersExists
  <2>2. \E f : f = [k \in 0 .. n |-> IF k = 0 THEN <<>> ELSE Gather(f[k - 1], s[k])]
    BY <2>1, Zenon DEF Gathers
  <2> QED BY <2>2, Zenon
<1> HIDE DEF c
<1>4. c[0] = <<>> /\ \A k \in 1 .. n : c[k] = Gather(c[k - 1], s[k])  BY <1>3
<1> DEFINE Upto(k) == {s[i] : i \in 1 .. k}
           Good(k) == Divides(c[k], Upto(k))
           B == {k \in 0 .. n : ~Good(k)}
           R == OpToRel(<, Nat)
<1>5. B = {}
  <2>1. SUFFICES ASSUME B # {} PROVE FALSE  OBVIOUS
  <2>2. PICK x \in B : \A y \in B : ~(<<y, x>> \in R)
    <3>1. IsWellFoundedOn(R, Nat)  BY NatLessThanWellFounded
    <3>2. B \subseteq Nat  OBVIOUS
    <3> HIDE DEF R, B
    <3> QED BY <2>1, <3>1, <3>2, WFMin
  <2>3. x \in 0 .. n /\ ~Good(x)  OBVIOUS
  <2>4. ASSUME NEW y \in 0 .. n, y < x PROVE Good(y)
    <3> HIDE DEF Good
    <3>1. y \in Nat /\ x \in Nat  BY <2>3
    <3>2. <<y, x>> \in R  BY <2>4, <3>1 DEF OpToRel
    <3>3. y \notin B  BY <2>2, <3>2
    <3> QED BY <3>3
  <2>5. x # 0
    <3>1. Upto(0) = {}  OBVIOUS
    <3>2. Good(0)  BY <1>4, <3>1 DEF Divides, Disjoint
    <3> QED BY <2>3, <3>2
  <2>6. x - 1 \in 0 .. n /\ x - 1 < x /\ x \in 1 .. n  BY <2>3, <2>5
  <2>7. Good(x - 1)
    <3> HIDE DEF Good
    <3> QED BY <2>4, <2>6
  <2>8. s[x] \in Regs /\ Upto(x - 1) \in SUBSET Regs
    <3>1. \A i \in 1 .. x - 1 : i \in 1 .. n  BY <2>6
    <3> QED BY <2>6, <3>1
  <2>9. s[x] \notin Upto(x - 1) /\ \A q \in Upto(x - 1) : q.mb <= s[x].mb
    <3>1. \A i \in 1 .. x - 1 : i \in 1 .. n /\ i < x  BY <2>6
    <3> QED BY <2>6, <3>1
  <2>10. Upto(x) = Upto(x - 1) \cup {s[x]}
    <3>1. 1 .. x = 1 .. x - 1 \cup {x}  BY <2>6
    <3> QED BY <3>1
  <2>11. c[x] = Gather(c[x - 1], s[x])  BY <1>4, <2>6
  <2>12. Divides(c[x - 1], Upto(x - 1))  BY <2>7
  <2>13. Divides(Gather(c[x - 1], s[x]), Upto(x - 1) \cup {s[x]})
    <3> HIDE DEF Upto, Good, B, R
    <3> QED BY ONLY <2>8, <2>9, <2>12, GatherDivides
  <2> QED BY <2>3, <2>10, <2>11, <2>13
<1>6. Good(n)
  <2>1. n \in 0 .. n  OBVIOUS
  <2> HIDE DEF Good
  <2> QED BY <1>5, <2>1
<1>7. Upto(n) = S  OBVIOUS
<1> QED BY <1>2, <1>6, <1>7

LEMMA ByAddressIs ==
  ASSUME NEW S \in SUBSET Regs
  PROVE  /\ Cardinality(S) \in Nat /\ ByAddress(S) \in [1 .. Cardinality(S) -> S]
         /\ \A r \in S : \E i \in 1 .. Cardinality(S) : ByAddress(S)[i] = r
         /\ \A i, j \in 1 .. Cardinality(S) :
              i < j => ByAddress(S)[i] # ByAddress(S)[j] /\ ByAddress(S)[i].mb <= ByAddress(S)[j].mb
<1> DEFINE before == [r \in S |-> {q \in S : Lower(q, r)}]
<1>1. IsFiniteSet(S)  BY PollAssumption, FS_Subset
<1>2. /\ \A r \in S : r.mb \in Int /\ r.id \in Int
      /\ \A r, q \in S : r # q => r.id # q.id
  BY PollAssumption
<1>3. /\ \A r \in S : ~Lower(r, r)
      /\ \A r, q \in S : r # q => Lower(r, q) \/ Lower(q, r)
      /\ \A r, q, t \in S : Lower(r, q) /\ Lower(q, t) => Lower(r, t)
      /\ \A r, q \in S : Lower(r, q) => r.mb <= q.mb
  BY <1>2 DEF Lower
<1>4. IsOrder(S, before)
  <2>1. before \in [S -> SUBSET S]  OBVIOUS
  <2>2. \A q, r \in S : q \in before[r] <=> Lower(q, r)  OBVIOUS
  <2> HIDE DEF before
  <2>3. \A q, r \in S : q \in before[r] => before[q] \subseteq before[r]
    BY <1>3, <2>1, <2>2
  <2> QED BY <1>3, <2>1, <2>2, <2>3 DEF IsOrder
<1>5. ByAddress(S) = Ordered(S, before)  BY DEF ByAddress
<1>6. \A q, r \in S : q \in before[r] => q # r /\ q.mb <= r.mb  BY <1>3
<1> HIDE DEF before
<1> QED BY <1>1, <1>4, <1>5, <1>6, OrderedIs

LEMMA AddressesDivide == ASSUME NEW S \in SUBSET Regs PROVE Divides(Gathered(ByAddress(S)), S)
<1> DEFINE s == ByAddress(S)
<1>1. PICK n \in Nat : n = Cardinality(S)  BY ByAddressIs
<1>2. s \in [1 .. n -> S] /\ (\A r \in S : \E i \in 1 .. n : s[i] = r)
      /\ \A i, j \in 1 .. n : i < j => s[i] # s[j] /\ s[i].mb <= s[j].mb
  BY <1>1, ByAddressIs
<1> HIDE DEF s
<1>3. Divides(Gathered(s), S)  BY <1>2, GatheredDivides
<1> QED BY <1>3 DEF s

LEMMA BothDivide ==
  ASSUME NEW S, NEW T, S \cap T = {}, NEW p, NEW q, Divides(p, S), Divides(q, T)
  PROVE  Divides(p \o q, S \cup T)
<1> DEFINE c == p \o q
           m == Len(p)
           n == Len(q)
<1>1. /\ p \in Seq(Read) /\ q \in Seq(Read) /\ m \in Nat /\ n \in Nat /\ DOMAIN p = 1 .. m /\ DOMAIN q = 1 .. n
  BY DEF Divides, Disjoint
<1>2. /\ c \in Seq(Read) /\ DOMAIN c = 1 .. m + n
      /\ \A i \in 1 .. m + n : c[i] = IF i <= m THEN p[i] ELSE q[i - m]
  BY <1>1
<1>3. \A i \in 1 .. m + n : IF i <= m THEN i \in 1 .. m ELSE i - m \in 1 .. n  BY <1>1
<1>4. \A i \in 1 .. m : i \in 1 .. m + n /\ i <= m  BY <1>1
<1>5. \A i \in 1 .. n : \E x \in 1 .. m + n : ~(x <= m) /\ x - m = i
  <2> TAKE i \in 1 .. n
  <2> WITNESS m + i \in 1 .. m + n
  <2> QED BY <1>1
<1> HIDE DEF c, m, n
<1>6. /\ \A i \in 1 .. m : Covers(p[i]) /\ p[i].regs \subseteq S
      /\ \A i \in 1 .. n : Covers(q[i]) /\ q[i].regs \subseteq T
      /\ \A i, j \in 1 .. m : i # j => p[i].regs \cap p[j].regs = {}
      /\ \A i, j \in 1 .. n : i # j => q[i].regs \cap q[j].regs = {}
      /\ \A r \in S : \E i \in 1 .. m : r \in p[i].regs
      /\ \A r \in T : \E i \in 1 .. n : r \in q[i].regs
  BY <1>1 DEF Divides, Disjoint
<1>7. \A i \in 1 .. m + n : Covers(c[i]) /\ c[i].regs \subseteq S \cup T
  <2> TAKE i \in 1 .. m + n
  <2>1. CASE i <= m  BY <1>2, <1>3, <1>6, <2>1
  <2>2. CASE ~(i <= m)  BY <1>2, <1>3, <1>6, <2>2
  <2> QED BY <2>1, <2>2
<1>8. \A i, j \in 1 .. m + n : i # j => c[i].regs \cap c[j].regs = {}
  <2> TAKE i \in 1 .. m + n, j \in 1 .. m + n
  <2> HAVE i # j
  <2>1. CASE i <= m /\ j <= m  BY <1>2, <1>3, <1>6, <2>1
  <2>2. CASE ~(i <= m) /\ ~(j <= m)
    <3>1. i - m # j - m  BY <1>1
    <3> QED BY <1>2, <1>3, <1>6, <2>2, <3>1
  <2>3. CASE i <= m /\ ~(j <= m)
    <3>1. c[i].regs \subseteq S /\ c[j].regs \subseteq T  BY <1>2, <1>3, <1>6, <2>3
    <3> QED BY <3>1
  <2>4. CASE ~(i <= m) /\ j <= m
    <3>1. c[j].regs \subseteq S /\ c[i].regs \subseteq T  BY <1>2, <1>3, <1>6, <2>4
    <3> QED BY <3>1
  <2> QED BY <2>1, <2>2, <2>3, <2>4
<1>9. \A r \in S \cup T : \E i \in 1 .. m + n : r \in c[i].regs
  <2> TAKE r \in S \cup T
  <2>1. CASE r \in S
    <3>1. PICK i \in 1 .. m : r \in p[i].regs  BY <1>6, <2>1
    <3>2. i \in 1 .. m + n /\ c[i] = p[i]  BY <1>2, <1>4
    <3> QED BY <3>1, <3>2
  <2>2. CASE r \in T
    <3>1. PICK i \in 1 .. n : r \in q[i].regs  BY <1>6, <2>2
    <3>2. PICK x \in 1 .. m + n : ~(x <= m) /\ x - m = i  BY <1>5
    <3>3. c[x] = q[i]  BY <1>2, <3>2
    <3> QED BY <3>1, <3>3
  <2> QED BY <2>1, <2>2
<1>10. Disjoint(c)  BY <1>2, <1>7, <1>8 DEF Disjoint
<1>11. Divides(c, S \cup T)  BY <1>2, <1>7, <1>9, <1>10 DEF Divides
<1> QED BY <1>11 DEF c

LEMMA ByFirstDivides ==
  ASSUME NEW S, NEW p, Divides(p, S)
  PROVE  Divides(ByFirst(p), S)
<1> DEFINE D == DOMAIN p
           Sooner(j, i) == p[j].first < p[i].first \/ (p[j].first = p[i].first /\ j < i)
           before == [i \in D |-> {j \in D : Sooner(j, i)}]
           at == Ordered(D, before)
           b == ByFirst(p)
<1>1. PICK n \in Nat : p \in Seq(Read) /\ n = Len(p) /\ D = 1 .. n /\ \A i \in D : p[i] \in Read
  <2>1. p \in Seq(Read)  BY DEF Divides, Disjoint
  <2>2. Len(p) \in Nat /\ D = 1 .. Len(p) /\ \A i \in D : p[i] \in Read  BY <2>1
  <2> QED BY <2>1, <2>2, Zenon
<1>2. \A i \in D : p[i].first \in Int /\ i \in Int  BY <1>1 DEF Read
<1>3. IsFiniteSet(D) /\ Cardinality(D) = n
  <2>1. IsFiniteSet(1 .. n) /\ Cardinality(1 .. n) = IF 1 > n THEN 0 ELSE n - 1 + 1  BY FS_Interval
  <2> QED BY <1>1, <2>1
<1>4. /\ \A i \in D : ~Sooner(i, i)
      /\ \A i, j \in D : i # j => Sooner(i, j) \/ Sooner(j, i)
      /\ \A i, j, k \in D : Sooner(i, j) /\ Sooner(j, k) => Sooner(i, k)
  BY <1>2
<1>5. IsOrder(D, before)
  <2>1. before \in [D -> SUBSET D]  OBVIOUS
  <2>2. \A i, j \in D : i \in before[j] <=> Sooner(i, j)  OBVIOUS
  <2> HIDE DEF before, Sooner
  <2>3. \A i, j \in D : i \in before[j] => before[i] \subseteq before[j]
    BY <1>4, <2>1, <2>2
  <2> QED BY <1>4, <2>1, <2>2, <2>3 DEF IsOrder
<1>6. b = [i \in D |-> p[at[i]]]  BY DEF ByFirst
<1> HIDE DEF before, at, b
<1>7. /\ at \in [1 .. n -> D] /\ \A x \in D : \E i \in 1 .. n : at[i] = x
      /\ \A i, j \in 1 .. n : i < j => at[i] \in before[at[j]]
  <2> HIDE DEF D
  <2> QED BY <1>3, <1>5, OrderedIs DEF at
<1>8. \A i, j \in 1 .. n : i # j => at[i] # at[j]
  <2> TAKE i \in 1 .. n, j \in 1 .. n
  <2> HAVE i # j
  <2>1. i < j \/ j < i  OBVIOUS
  <2>2. at[i] \in before[at[j]] \/ at[j] \in before[at[i]]  BY <1>7, <2>1
  <2> QED BY <1>5, <1>7, <2>2 DEF IsOrder
<1>9. DOMAIN b = 1 .. n /\ \A i \in 1 .. n : b[i] = p[at[i]] /\ at[i] \in D  BY <1>1, <1>6, <1>7
<1>10. b \in Seq(Read)
  <2>1. b \in [1 .. n -> Read]  BY <1>1, <1>6, <1>7
  <2> QED BY <2>1
<1>11. /\ \A i \in D : Covers(p[i]) /\ p[i].regs \subseteq S
       /\ \A i, j \in D : i # j => p[i].regs \cap p[j].regs = {}
       /\ \A r \in S : \E i \in D : r \in p[i].regs
  BY DEF Divides, Disjoint
<1> HIDE DEF D
<1>12. \A i, j \in 1 .. n : i # j => b[i].regs \cap b[j].regs = {}  BY <1>8, <1>9, <1>11
<1>13. \A r \in S : \E i \in 1 .. n : r \in b[i].regs
  <2> TAKE r \in S
  <2>1. PICK x \in D : r \in p[x].regs  BY <1>11
  <2>2. PICK i \in 1 .. n : at[i] = x  BY <1>7
  <2> QED BY <1>9, <2>1, <2>2
<1>14. Divides(b, S)  BY <1>9, <1>10, <1>11, <1>12, <1>13 DEF Divides, Disjoint
<1> QED BY <1>14 DEF b

LEMMA PlanDivides == ASSUME prog \in Programs, NEW S \in SUBSET Regs PROVE Divides(PlanOf(S), S)
<1> DEFINE G(T) == Gathered(ByAddress(T))
<1>1. \A T \in SUBSET Regs : Divides(G(T), T)  BY AddressesDivide
<1>2. /\ OfFunc(S, 3) \in SUBSET Regs /\ OfFunc(S, 4) \in SUBSET Regs
      /\ OfFunc(S, 3) \cap OfFunc(S, 4) = {} /\ OfFunc(S, 3) \cup OfFunc(S, 4) = S
  BY RegIs DEF OfFunc
<1>3. /\ OfType(S, "REG") \in SUBSET Regs /\ OfType(S, "other") \in SUBSET Regs /\ OfType(S, "TIT") \in SUBSET Regs
      /\ OfType(S, "REG") \cap OfType(S, "other") = {}
      /\ (OfType(S, "REG") \cup OfType(S, "other")) \cap OfType(S, "TIT") = {}
      /\ (OfType(S, "REG") \cup OfType(S, "other")) \cup OfType(S, "TIT") = S
  BY RegIs DEF OfType
<1> HIDE DEF G
<1>4. Divides(G(OfFunc(S, 4)) \o G(OfFunc(S, 3)), S)
  <2>1. OfFunc(S, 4) \cap OfFunc(S, 3) = {} /\ OfFunc(S, 4) \cup OfFunc(S, 3) = S  BY <1>2
  <2>2. Divides(G(OfFunc(S, 4)) \o G(OfFunc(S, 3)), OfFunc(S, 4) \cup OfFunc(S, 3))
    BY <1>1, <1>2, <2>1, BothDivide
  <2> QED BY <2>1, <2>2
<1>5. Divides(G(OfFunc(S, 3)) \o G(OfFunc(S, 4)), S)
  <2>1. Divides(G(OfFunc(S, 3)) \o G(OfFunc(S, 4)), OfFunc(S, 3) \cup OfFunc(S, 4))
    BY <1>1, <1>2, BothDivide
  <2> QED BY <1>2, <2>1
<1>6. Divides(G(OfType(S, "REG")) \o G(OfType(S, "other")) \o G(OfType(S, "TIT")), S)
  <2>1. Divides(G(OfType(S, "REG")) \o G(OfType(S, "other")), OfType(S, "REG") \cup OfType(S, "other"))
    BY <1>1, <1>3, BothDivide
  <2>2. Divides((G(OfType(S, "REG")) \o G(OfType(S, "other"))) \o G(OfType(S, "TIT")),
                (OfType(S, "REG") \cup OfType(S, "other")) \cup OfType(S, "TIT"))
    BY <1>1, <1>3, <2>1, BothDivide
  <2> QED BY <1>3, <2>2
<1>7. CASE prog = "server"
  BY <1>4, <1>7, ByFirstDivides DEF PlanOf, ServerPlan, G
<1>8. CASE prog = "window"
  BY <1>5, <1>8 DEF PlanOf, WindowPlan, G
<1>9. CASE prog = "web"
  BY <1>6, <1>9 DEF PlanOf, WebPlan, G
<1>10. CASE prog = "table"
  BY <1>1, <1>10 DEF PlanOf, TablePlan, G
<1> QED BY <1>7, <1>8, <1>9, <1>10, PollAssumption

LEMMA KeepsDivide ==
  ASSUME NEW S, NEW p, Divides(p, S)
  PROVE  /\ Disjoint(WebKeeps(p)) /\ \A i \in DOMAIN WebKeeps(p) : WebKeeps(p)[i].regs \subseteq S
         /\ \A i \in DOMAIN WebKeeps(p) : Sendable(WebKeeps(p)[i])
         /\ \A r \in S : \A j \in DOMAIN p : r \in p[j].regs /\ Sendable(p[j]) =>
              \E i \in DOMAIN WebKeeps(p) : r \in WebKeeps(p)[i].regs
<1> DEFINE P == {i \in DOMAIN p : Sendable(p[i])}
           k == WebKeeps(p)
<1>1. p \in Seq(Read)  BY DEF Divides, Disjoint
<1>2. k = Kept(p, P) /\ P \in SUBSET DOMAIN p  BY DEF WebKeeps
<1>3. /\ k \in Seq(Read)
      /\ \A n \in DOMAIN k : Nth(P, n) \in P /\ k[n] = p[Nth(P, n)] /\ n \in Int
      /\ \A m, n \in DOMAIN k : m < n => Nth(P, m) < Nth(P, n)
      /\ \A i \in P : \E n \in DOMAIN k : Nth(P, n) = i
  <2> HIDE DEF P
  <2>1. \A n \in DOMAIN Kept(p, P) : n \in Int
    <3>1. DOMAIN Kept(p, P) = 1 .. Cardinality(P) /\ Cardinality(P) \in Nat  BY <1>1, <1>2, KeptIs
    <3> QED BY <3>1
  <2> QED BY <1>1, <1>2, <2>1, KeptIs
<1>4. \A i \in P : Sendable(p[i]) /\ i \in DOMAIN p /\ i \in Int  BY <1>1
<1>5. \A i \in DOMAIN p : Sendable(p[i]) => i \in P  OBVIOUS
<1> HIDE DEF P, k
<1>6. \A m, n \in DOMAIN k : m # n => Nth(P, m) # Nth(P, n)
  <2> TAKE m \in DOMAIN k, n \in DOMAIN k
  <2> HAVE m # n
  <2>1. m < n \/ n < m  BY <1>3
  <2>2. Nth(P, m) < Nth(P, n) \/ Nth(P, n) < Nth(P, m)  BY <1>3, <2>1
  <2>3. Nth(P, m) \in Int /\ Nth(P, n) \in Int  BY <1>3, <1>4
  <2> QED BY <2>2, <2>3
<1>7. /\ \A i \in DOMAIN p : Covers(p[i]) /\ p[i].regs \subseteq S
      /\ \A i, j \in DOMAIN p : i # j => p[i].regs \cap p[j].regs = {}
  BY DEF Divides, Disjoint
<1>8. Disjoint(k)  BY <1>3, <1>4, <1>6, <1>7 DEF Disjoint
<1>9. \A i \in DOMAIN k : k[i].regs \subseteq S /\ Sendable(k[i])  BY <1>3, <1>4, <1>7
<1>10. \A r \in S : \A j \in DOMAIN p : r \in p[j].regs /\ Sendable(p[j]) => \E i \in DOMAIN k : r \in k[i].regs
  <2> SUFFICES ASSUME NEW r \in S, NEW j \in DOMAIN p, r \in p[j].regs, Sendable(p[j])
               PROVE  \E i \in DOMAIN k : r \in k[i].regs
    OBVIOUS
  <2>1. PICK i \in DOMAIN k : Nth(P, i) = j  BY <1>3, <1>5
  <2> QED BY <1>3, <2>1
<1> QED BY <1>8, <1>9, <1>10 DEF k

-----------------------------------------------------------------------------
(* Answers, and what is taken from them                                    *)

Size(i)  == plan[i].last - plan[i].first + 1
Frame    == [func : Int, words : Seq(Int \X Int)]
Run(i, n) == [m \in 1 .. n |-> <<plan[i].func, plan[i].first + m - 1>>]

\* A frame for read i when F has failed: a refusal, or words from the first on.
Fits(i, f, F) ==
  \/ f.func = plan[i].func + 128 /\ <<"bad", i>> \in F
  \/ f.func = plan[i].func /\ \E n \in 1 .. Size(i) : /\ f.words = Run(i, n)
                                                      /\ n = Size(i) \/ <<"bad", i>> \in F

\* Up to the first read the device left out, frame and read go together.
Lined(fs, n, F) ==
  /\ \A i \in 1 .. n : (\A j \in 1 .. i : <<"silent", j>> \notin F) => i \in DOMAIN fs /\ Fits(i, fs[i], F)
  /\ (\A j \in 1 .. n : <<"silent", j>> \notin F) => Len(fs) = n

\* Functions on 1 .. n are lists, and their parts as well.
LEMMA FunIsList ==
  ASSUME NEW T, NEW n \in Nat, NEW w \in [1 .. n -> T]
  PROVE  w \in Seq(T) /\ Len(w) = n
OBVIOUS

LEMMA PartIs ==
  ASSUME NEW T, NEW n \in Nat, NEW w \in [1 .. n -> T], NEW a \in Nat, NEW k \in Nat, a + k <= n
  PROVE  SubSeq(w, a + 1, a + k) = [m \in 1 .. k |-> w[a + m]]
<1>1. w \in Seq(T) /\ Len(w) = n  BY FunIsList
<1> DEFINE s == SubSeq(w, a + 1, a + k)
<1>2. Len(s) = k /\ s \in Seq(T) /\ \A m \in 1 .. k : s[m] = w[a + m]  BY <1>1
<1> HIDE DEF s
<1>3. s = [m \in 1 .. k |-> s[m]]  BY <1>2
<1>4. s = [m \in 1 .. k |-> w[a + m]]  BY <1>2, <1>3
<1> QED BY <1>4 DEF s

LEMMA ReadIs ==
  ASSUME Disjoint(plan), NEW i \in DOMAIN plan
  PROVE  /\ plan[i].func \in {3, 4} /\ plan[i].first \in Int /\ plan[i].last \in Int
         /\ plan[i].regs \in SUBSET Regs /\ Covers(plan[i])
         /\ Size(i) \in Nat \ {0} /\ i \in Nat \ {0} /\ i <= Len(plan)
         /\ Len(plan) \in Nat /\ DOMAIN plan = 1 .. Len(plan)
<1>1. plan \in Seq(Read) /\ Covers(plan[i])  BY DEF Disjoint
<1>2. plan[i] \in Read /\ Len(plan) \in Nat /\ DOMAIN plan = 1 .. Len(plan)  BY <1>1
<1>3. plan[i].func \in {3, 4} /\ plan[i].first \in Int /\ plan[i].last \in Int
      /\ plan[i].regs \in SUBSET Regs
  BY <1>2 DEF Read
<1>4. plan[i].first <= plan[i].last  BY <1>1 DEF Covers
<1> QED BY <1>1, <1>2, <1>3, <1>4 DEF Size

\* What an answer can be.
LEMMA AnswerIs ==
  ASSUME Disjoint(plan), NEW i \in DOMAIN plan, NEW a \in Answers(plan[i])
  PROVE  \/ a = <<>> /\ ~InFull(plan[i], a)
         \/ \E f \in Frame : /\ a = <<f>>
                             /\ \/ f.func = plan[i].func + 128 /\ ~InFull(plan[i], a)
                                \/ f.func = plan[i].func
                                   /\ \E n \in 1 .. Size(i) : /\ f.words = Run(i, n)
                                                              /\ n = Size(i) \/ ~InFull(plan[i], a)
<1> DEFINE b == plan[i]
<1>1. /\ b.func \in {3, 4} /\ b.first \in Int /\ b.last \in Int /\ Size(i) \in Nat \ {0}
  BY ReadIs
<1>2. PICK z \in Nat \ {0} : z = Size(i) /\ b.last - b.first + 1 = z  BY <1>1 DEF Size
<1>3. Words(b) = [m \in 1 .. z |-> <<b.func, b.first + m - 1>>]  BY <1>2 DEF Words
<1>4. Words(b) \in Seq(Int \X Int) /\ Len(Words(b)) = z
  <2>1. Words(b) \in [1 .. z -> Int \X Int]  BY <1>1, <1>3
  <2> QED BY ONLY <1>2, <2>1, FunIsList
<1>5. ASSUME NEW n \in 1 .. z
      PROVE  SubSeq(Words(b), 1, n) = Run(i, n) /\ Run(i, n) \in Seq(Int \X Int)
  <2>1. SubSeq(Words(b), 1, n) = [m \in 1 .. n |-> Words(b)[m]]
    BY <1>2, <1>4
  <2>2. \A m \in 1 .. n : m \in 1 .. z /\ Words(b)[m] = <<b.func, b.first + m - 1>>  BY <1>2, <1>3
  <2>3. SubSeq(Words(b), 1, n) = Run(i, n)  BY <2>1, <2>2 DEF Run
  <2>4. Run(i, n) \in [1 .. n -> Int \X Int]  BY <1>1 DEF Run
  <2>5. n \in Nat  OBVIOUS
  <2> QED BY <2>3, <2>4, <2>5
<1>6. \A n : Data(b, n) = <<[func |-> b.func, words |-> SubSeq(Words(b), 1, n)]>>  BY DEF Data
<1>7. InFull(b, a) <=> a = Data(b, z)  BY <1>4 DEF InFull
<1>8. CASE a = <<>>
  <2>1. \A f : <<>> # <<f>>  OBVIOUS
  <2>2. <<>> # Data(b, z)  BY <1>6, <2>1
  <2> QED BY <1>7, <1>8, <2>2
<1>9. CASE a = Exception(b)
  <2> DEFINE f == [func |-> b.func + 128, words |-> <<>>]
  <2>1. a = <<f>>  BY <1>9 DEF Exception
  <2>2. f \in Frame
    <3>1. <<>> \in Seq(Int \X Int) /\ b.func + 128 \in Int  BY <1>1
    <3> QED BY <3>1 DEF Frame
  <2>3. f.func = b.func + 128  OBVIOUS
  <2>4. ~InFull(b, a)
    <3> SUFFICES ASSUME a = Data(b, z) PROVE FALSE  BY <1>7
    <3>1. a[1].func = b.func  BY <1>6
    <3>2. a[1].func = b.func + 128  BY <2>1
    <3> QED BY <1>1, <3>1, <3>2
  <2> QED BY <2>1, <2>2, <2>3, <2>4
<1>10. CASE \E n \in 1 .. Len(Words(b)) : a = Data(b, n)
  <2>1. PICK n \in 1 .. z : a = Data(b, n)  BY <1>4, <1>10
  <2> DEFINE f == [func |-> b.func, words |-> Run(i, n)]
  <2>2. a = <<f>> /\ f.func = b.func /\ f.words = Run(i, n)  BY <1>5, <1>6, <2>1
  <2>3. f \in Frame  BY <1>1, <1>5, SMTT(30) DEF Frame
  <2>4. n = z \/ ~InFull(b, a)
    <3> SUFFICES ASSUME InFull(b, a) PROVE n = z  OBVIOUS
    <3>1. z \in 1 .. z  OBVIOUS
    <3>2. a = <<[func |-> b.func, words |-> Run(i, z)]>>  BY <1>5, <1>6, <1>7, <3>1
    <3>3. a[1].words = Run(i, z) /\ a[1].words = Run(i, n)  BY <2>2, <3>2
    <3>4. DOMAIN Run(i, z) = 1 .. z /\ DOMAIN Run(i, n) = 1 .. n  BY DEF Run
    <3>5. 1 .. z = 1 .. n  BY <3>3, <3>4
    <3> QED BY <3>5
  <2> HIDE DEF f
  <2> QED BY <1>2, <2>1, <2>2, <2>3, <2>4
<1>11. a \in {<<>>, Exception(b)} \/ \E n \in 1 .. Len(Words(b)) : a = Data(b, n)
  BY DEF Answers
<1> QED BY <1>8, <1>9, <1>10, <1>11

\* The frames of one packet: as long as no read is left out, each at its place.
LEMMA CameIs ==
  ASSUME NEW lo \in Nat, NEW e \in Nat, NEW as, DOMAIN as = lo + 1 .. e,
         \A i \in lo + 1 .. e : as[i] = <<>> \/ \E f \in Frame : as[i] = <<f>>
  PROVE  /\ Came(as) \in Seq(Frame)
         /\ \A i \in lo + 1 .. e : (\A j \in lo + 1 .. i : as[j] # <<>>) =>
              i - lo \in 1 .. Len(Came(as)) /\ as[i] = <<Came(as)[i - lo]>>
         /\ (\A i \in lo + 1 .. e : as[i] = <<>>) => Came(as) = <<>>
         /\ Cardinality({i \in lo + 1 .. e : as[i] # <<>>}) = Len(Came(as))
<1> DEFINE there == {i \in DOMAIN as : as[i] # <<>>}
           c == Came(as)
<1>1. there \in SUBSET (lo + 1 .. e) /\ there = {i \in lo + 1 .. e : as[i] # <<>>}  OBVIOUS
<1>2. IsFiniteSet(there) /\ there \in SUBSET Int
  <2>1. IsFiniteSet(lo + 1 .. e)  BY FS_Interval
  <2>2. lo + 1 .. e \in SUBSET Int  OBVIOUS
  <2> HIDE DEF there
  <2> QED BY <1>1, <2>1, <2>2, FS_Subset
<1>3. PICK k \in Nat : k = Cardinality(there)  BY <1>2, FS_CardinalityType
<1>4. \A n \in 1 .. k : Nth(there, n) \in there  BY <1>2, <1>3, NthIs
<1>5. \A i \in there : \E f \in Frame : as[i] = <<f>>  BY <1>1
<1>6. c = [n \in 1 .. k |-> as[Nth(there, n)][1]]  BY <1>3 DEF Came
<1> HIDE DEF there, c
<1>7. \A i \in there : as[i][1] \in Frame /\ as[i] = <<as[i][1]>>
  <2> TAKE i \in there
  <2>1. PICK f \in Frame : as[i] = <<f>>  BY <1>5
  <2>2. <<f>>[1] = f  OBVIOUS
  <2> QED BY <2>1, <2>2
<1>8. c \in [1 .. k -> Frame]  BY <1>4, <1>6, <1>7
<1>9. c \in Seq(Frame) /\ Len(c) = k  BY <1>3, <1>8
<1>10. ASSUME NEW i \in lo + 1 .. e, \A j \in lo + 1 .. i : as[j] # <<>>
       PROVE  i - lo \in 1 .. k /\ as[i] = <<c[i - lo]>>
  <2>1. PICK d \in Nat : d = i - lo /\ d >= 1 /\ lo + d = i  OBVIOUS
  <2>2. lo + 1 .. lo + d \subseteq there
    <3> SUFFICES ASSUME NEW j \in lo + 1 .. lo + d PROVE j \in there  OBVIOUS
    <3>1. j \in lo + 1 .. i /\ j \in lo + 1 .. e  BY <2>1
    <3> QED BY <1>1, <1>10, <3>1
  <2>3. d <= k /\ Nth(there, d) = i
    <3>1. d <= Cardinality(there) /\ \A n \in 1 .. d : Nth(there, n) = lo + n
      <4>1. lo \in Int /\ e \in Int /\ d \in Nat  BY <2>1
      <4>2. there \in SUBSET (lo + 1 .. e)  BY <1>1
      <4> QED BY ONLY <2>2, <4>1, <4>2, NthOfRun
    <3>2. d \in 1 .. d  BY <2>1
    <3> QED BY <1>3, <2>1, <3>1, <3>2
  <2>4. d \in 1 .. k /\ i \in there  BY <1>3, <1>4, <2>1, <2>3
  <2>5. c[d] = as[i][1]  BY <1>6, <2>3, <2>4
  <2> QED BY <1>7, <2>1, <2>4, <2>5
<1>11. ASSUME \A i \in lo + 1 .. e : as[i] = <<>> PROVE c = <<>>
  <2>1. there = {}  BY <1>1, <1>11
  <2>2. k = 0  BY <1>3, <2>1, FS_EmptySet
  <2> QED BY <1>9, <2>2
<1> QED BY <1>1, <1>3, <1>9, <1>10, <1>11 DEF c

\* The words a register is given are its own, or none.
LEMMA WordsAre ==
  ASSUME Disjoint(plan), NEW i \in DOMAIN plan, NEW r \in plan[i].regs, NEW f, NEW F, Fits(i, f, F)
  PROVE  /\ WordsOf(plan[i], f, r) \in {NoValue, RightValue(r)}
         /\ <<"bad", i>> \in F \/ WordsOf(plan[i], f, r) = RightValue(r)
<1> DEFINE b == plan[i]
           off == r.mb - b.first
           len == Cardinality(Span(r))
<1>1. /\ b.func \in {3, 4} /\ b.first \in Int /\ b.last \in Int /\ Size(i) \in Nat \ {0} /\ r \in Regs
  BY ReadIs
<1>2. /\ r.mb \in Int /\ len \in {1, 2} /\ Last1(r) = r.mb + len - 1 /\ Last1(r) \in Int
  BY <1>1, RegIs
<1>3. Func(r) = b.func /\ b.first <= r.mb /\ Last1(r) <= b.last
  BY ReadIs DEF Covers
<1>4. off \in Nat /\ off + len <= Size(i)  BY <1>1, <1>2, <1>3 DEF Size
<1>5. WordsOf(b, f, r) = IF f.func = b.func /\ off + len <= Len(f.words)
                         THEN SubSeq(f.words, off + 1, off + len) ELSE NoValue
  BY DEF WordsOf
<1> HIDE DEF off, len
<1>6. CASE f.func = b.func + 128 /\ <<"bad", i>> \in F
  <2>1. f.func # b.func  BY <1>1, <1>6
  <2> QED BY <1>5, <1>6, <2>1
<1>7. CASE f.func = b.func /\ \E n \in 1 .. Size(i) : f.words = Run(i, n) /\ (n = Size(i) \/ <<"bad", i>> \in F)
  <2>1. PICK n \in 1 .. Size(i) : f.words = Run(i, n) /\ (n = Size(i) \/ <<"bad", i>> \in F)
    BY <1>7
  <2>2. n \in Nat /\ Run(i, n) \in [1 .. n -> Int \X Int]  BY <1>1 DEF Run
  <2>3. Run(i, n) \in Seq(Int \X Int) /\ Len(Run(i, n)) = n  BY <2>2
  <2>4. CASE off + len <= n
    <3>1. SubSeq(Run(i, n), off + 1, off + len) = [m \in 1 .. len |-> Run(i, n)[off + m]]
      <4>1. len \in Nat  BY <1>2
      <4> QED BY ONLY <1>4, <2>2, <2>4, <4>1, PartIs
    <3>2. \A m \in 1 .. len : Run(i, n)[off + m] = <<Func(r), r.mb + m - 1>>
      <4> TAKE m \in 1 .. len
      <4>1. off + m \in 1 .. n  BY <1>2, <1>4, <2>2, <2>4
      <4>2. Run(i, n)[off + m] = <<b.func, b.first + (off + m) - 1>>  BY <4>1 DEF Run
      <4>3. b.first + (off + m) - 1 = r.mb + m - 1  BY <1>1, <1>2 DEF off
      <4> QED BY <1>3, <4>2, <4>3
    <3>3. SubSeq(Run(i, n), off + 1, off + len) = RightValue(r)  BY <3>1, <3>2 DEF RightValue, len
    <3> QED BY <1>5, <1>7, <2>1, <2>3, <2>4, <3>3
  <2>5. CASE ~(off + len <= n)
    <3>1. WordsOf(b, f, r) = NoValue  BY <1>5, <2>1, <2>3, <2>5
    <3>2. n # Size(i)  BY <1>4, <2>5
    <3> QED BY <2>1, <3>1, <3>2
  <2> QED BY <2>4, <2>5
<1> QED BY <1>6, <1>7 DEF Fits

\* What is given out for the reads lo .. hi.
LEMMA GivenIs ==
  ASSUME Disjoint(plan), wanted \in SUBSET Regs, NEW lo \in Int, NEW hi \in Int, lo .. hi \subseteq DOMAIN plan,
         NEW fs, NEW r \in wanted, r.id \in DOMAIN shown
  PROVE  /\ \A i \in lo .. hi : r \in plan[i].regs =>
              GivenOut(lo, hi, fs)[r.id] = IF i - lo + 1 <= Len(fs) THEN WordsOf(plan[i], fs[i - lo + 1], r)
                                                                    ELSE NoValue
         /\ (\A i \in lo .. hi : r \notin plan[i].regs) => GivenOut(lo, hi, fs)[r.id] = shown[r.id]
<1> DEFINE id == r.id
           Has(n) == \E q \in plan[n].regs : q.id = id
           i0 == CHOOSE n \in lo .. hi : Has(n)
           r0 == CHOOSE x \in plan[i0].regs : x.id = id
           g == GivenOut(lo, hi, fs)
<1>1. g[id] = IF \E n \in lo .. hi : Has(n)
              THEN IF i0 - lo + 1 <= Len(fs) THEN WordsOf(plan[i0], fs[i0 - lo + 1], r0) ELSE NoValue
              ELSE shown[id]
  BY DEF GivenOut
<1>2. \A n \in lo .. hi : \A q \in plan[n].regs : q.id = id => q = r
  <2> TAKE n \in lo .. hi
  <2> TAKE q \in plan[n].regs
  <2>1. q \in Regs /\ r \in Regs  BY ReadIs
  <2> QED BY <2>1, PollAssumption
<1>3. ASSUME NEW i \in lo .. hi, r \in plan[i].regs
      PROVE  i0 = i /\ r0 = r /\ \E n \in lo .. hi : Has(n)
  <2>1. Has(i)  BY <1>3
  <2>2. i0 \in lo .. hi /\ Has(i0)  BY <2>1
  <2>3. r \in plan[i0].regs  BY <1>2, <2>2
  <2>4. i0 = i
    <3> HIDE DEF i0
    <3> QED BY <1>3, <2>2, <2>3 DEF Disjoint
  <2>5. r0 \in plan[i0].regs /\ r0.id = id  BY <2>2
  <2> HIDE DEF i0, r0
  <2>6. r0 = r  BY <1>2, <2>2, <2>5
  <2> QED BY <2>1, <2>4, <2>6
<1>4. ASSUME \A i \in lo .. hi : r \notin plan[i].regs PROVE ~\E n \in lo .. hi : Has(n)
  BY <1>2, <1>4
<1> HIDE DEF i0, r0, Has, g
<1> QED BY <1>1, <1>3, <1>4 DEF g

LEMMA DivIs ==
  ASSUME NEW P \in Nat \ {0}, NEW k \in Nat, NEW d \in 0 .. P - 1
  PROVE  (k * P + d) \div P = k
<1> DEFINE a == k * P + d
           q == a \div P
<1>1. a \in Int /\ q \in Int /\ a = P * q + (a % P) /\ a % P \in 0 .. P - 1 /\ P * q \in Int /\ k * P \in Int
  OBVIOUS
<1>2. P * k = k * P  OBVIOUS
<1>3. CASE q > k
  <2>1. P * q >= P * (k + 1)  BY <1>1, <1>3
  <2>2. P * (k + 1) = P * k + P  OBVIOUS
  <2> QED BY <1>1, <1>2, <2>1, <2>2
<1>4. CASE q < k
  <2>1. P * (q + 1) <= P * k  BY <1>1, <1>4
  <2>2. P * (q + 1) = P * q + P  BY <1>1
  <2> QED BY <1>1, <1>2, <2>1, <2>2
<1> QED BY <1>1, <1>3, <1>4
-----------------------------------------------------------------------------
(* The invariant of a reading                                              *)

Polled == {r \in wanted : Reads(r)}

\* Each register of a read has its value, or something it depends on failed.
ReadServed(i) == \A r \in plan[i].regs : Touched(i) \/ shown[r.id] = RightValue(r)

NeverWrong ==
  \A r \in wanted : \/ shown[r.id] \in {NoValue, Db, RightValue(r)}
                    \/ \E i \in ReadsOf(r) : Shifted(i) \/ Zeroed(i)

ReadingOK ==
  /\ prog \in Programs /\ wanted \in SUBSET Regs
  /\ prog = "table" => \A r, q \in wanted : r.type = q.type
  /\ \A r \in wanted : r.id \in DOMAIN shown
  /\ phase \in {"plan", "talk", "end"}
  /\ phase = "plan" => /\ plan = <<>> /\ sent = 0 /\ frames = <<>> /\ failed = {}
                       /\ \A r \in wanted : shown[r.id] = NoValue

PlanOK ==
  /\ Disjoint(plan) /\ \A i \in DOMAIN plan : plan[i].regs \subseteq Polled
  /\ phase # "plan" => \A r \in Polled : (prog = "web" => r.mb \in 0 .. TopAddress /\ AllSent) =>
                         \E i \in DOMAIN plan : r \in plan[i].regs

\* While it talks, all earlier packets were full; frames are lined up with
\* the reads, and in the table every read sent was answered with data.
TalkOK ==
  /\ sent \in 0 .. Len(plan)
  /\ phase = "talk" => prog # "server" /\ sent < Len(plan) /\ \E k \in Nat : sent = k * PerPacket
  /\ frames \in Seq(Frame)
  /\ phase = "talk" /\ prog # "web" => Lined(frames, sent, failed)
  /\ phase = "talk" /\ prog = "table" => /\ \A f \in failed : f[1] # "silent"
                                         /\ \A i \in 1 .. sent : frames[i].func < 128

AllServed ==
  /\ prog = "web" => /\ \A i \in 1 .. sent : ReadServed(i)
                     /\ phase = "end" => sent = Len(plan)
  /\ phase = "end" /\ prog # "server" => \A i \in DOMAIN plan : ReadServed(i)

PollIInv == ReadingOK /\ PlanOK /\ TalkOK /\ AllServed /\ NeverWrong

LEMMA PacketIs ==
  ASSUME ReadingOK, PlanOK, TalkOK, phase = "talk"
  PROVE  /\ PerPacket \in Nat \ {0} /\ sent \in Nat /\ PacketEnd \in Nat /\ Len(plan) \in Nat
         /\ sent < PacketEnd /\ PacketEnd <= Len(plan) /\ sent + 1 .. PacketEnd \subseteq DOMAIN plan
         /\ DOMAIN plan = 1 .. Len(plan)
         /\ PacketEnd < Len(plan) => PacketEnd = sent + PerPacket
         /\ prog = "table" => PacketEnd = sent + 1
         /\ \A i, j \in sent + 1 .. PacketEnd : Packet(i) = Packet(j)
<1>1. PerPacket \in Nat \ {0} /\ (prog = "table" => PerPacket = 1)  BY PollAssumption DEF PerPacket
<1>2. Len(plan) \in Nat /\ DOMAIN plan = 1 .. Len(plan)
  <2>1. plan \in Seq(Read)  BY DEF PlanOK, Disjoint
  <2> QED BY <2>1
<1>3. sent \in Nat /\ sent < Len(plan)  BY <1>2 DEF TalkOK
<1>4. PacketEnd \in Nat /\ sent < PacketEnd /\ PacketEnd <= Len(plan)
      /\ PacketEnd <= sent + PerPacket
      /\ (PacketEnd < Len(plan) => PacketEnd = sent + PerPacket)
  BY <1>1, <1>2, <1>3 DEF PacketEnd
<1>5. PICK k \in Nat : sent = k * PerPacket  BY DEF TalkOK
<1>6. ASSUME NEW i \in sent + 1 .. PacketEnd PROVE Packet(i) = k
  <2>1. PICK d \in Nat : i - 1 = sent + d /\ d <= PerPacket - 1
    <3>1. i - 1 - sent \in Nat /\ i - 1 = sent + (i - 1 - sent) /\ i - 1 - sent <= PerPacket - 1
      BY <1>1, <1>3, <1>4
    <3> QED BY <3>1
  <2>2. d \in 0 .. PerPacket - 1  BY <1>1, <2>1
  <2>3. (k * PerPacket + d) \div PerPacket = k  BY <1>1, <2>2, DivIs
  <2> QED BY <1>5, <2>1, <2>3 DEF Packet
<1>7. sent + 1 .. PacketEnd \subseteq DOMAIN plan  BY <1>2, <1>3, <1>4
<1>8. prog = "table" => PacketEnd = sent + 1  BY <1>1, <1>3, <1>4
<1> QED BY <1>1, <1>2, <1>3, <1>4, <1>6, <1>7, <1>8

\* What failed stays failed.
LEMMA StaysFailed ==
  ASSUME failed \subseteq failed', UNCHANGED <<prog, plan>>, NEW i
  PROVE  /\ Shifted(i) => Shifted(i)'
         /\ Zeroed(i) => Zeroed(i)'
         /\ Touched(i) => Touched(i)'
<1>1. Shifted(i) => Shifted(i)'  BY DEF Shifted, Packet, PerPacket
<1>2. Zeroed(i) => Zeroed(i)'  BY DEF Zeroed
<1>3. GivesUp(plan)' = GivesUp(plan)  BY DEF GivesUp, Sendable
<1>4. \A n : Packet(n)' = Packet(n)  BY DEF Packet, PerPacket
<1>5. Touched(i) => Touched(i)'
  <2>1. CASE prog = "web"  BY <1>1, <1>4, <2>1 DEF Touched
  <2>2. CASE prog = "window"  BY <1>1, <1>3, <2>2 DEF Touched
  <2>3. CASE prog # "web" /\ prog # "window"  BY <1>3, <2>3 DEF Touched
  <2> QED BY <2>1, <2>2, <2>3
<1> QED BY <1>1, <1>2, <1>5

\* Of the answers to a packet each is none, and noted, or a frame that fits.
LEMMA RepliesFit ==
  ASSUME ReadingOK, PlanOK, TalkOK, phase = "talk",
         NEW as, DOMAIN as = sent + 1 .. PacketEnd, \A i \in DOMAIN as : as[i] \in Answers(plan[i]),
         NEW F, F = failed \cup Spoilt(as)
  PROVE  /\ \A i \in sent + 1 .. PacketEnd :
              \/ as[i] = <<>> /\ <<"silent", i>> \in F
              \/ \E f \in Frame : as[i] = <<f>> /\ Fits(i, f, F)
         /\ \A i \in sent + 1 .. PacketEnd : <<"silent", i>> \notin F => as[i] # <<>>
<1>1. ASSUME NEW i \in sent + 1 .. PacketEnd
      PROVE  \/ as[i] = <<>> /\ <<"silent", i>> \in F
             \/ \E f \in Frame : as[i] = <<f>> /\ Fits(i, f, F)
  <2>1. i \in DOMAIN plan /\ Disjoint(plan)  BY PacketIs DEF PlanOK
  <2>2. ~InFull(plan[i], as[i]) => <<IF as[i] = <<>> THEN "silent" ELSE "bad", i>> \in F
    BY DEF Spoilt
  <2>3. as[i] \in Answers(plan[i])  OBVIOUS
  <2>4. CASE as[i] = <<>> /\ ~InFull(plan[i], as[i])
    BY <2>2, <2>4
  <2>5. CASE \E f \in Frame : /\ as[i] = <<f>>
                              /\ \/ f.func = plan[i].func + 128 /\ ~InFull(plan[i], as[i])
                                 \/ f.func = plan[i].func
                                    /\ \E n \in 1 .. Size(i) : /\ f.words = Run(i, n)
                                                               /\ n = Size(i) \/ ~InFull(plan[i], as[i])
    <3>1. PICK f \in Frame : /\ as[i] = <<f>>
                             /\ \/ f.func = plan[i].func + 128 /\ ~InFull(plan[i], as[i])
                                \/ f.func = plan[i].func
                                   /\ \E n \in 1 .. Size(i) : /\ f.words = Run(i, n)
                                                              /\ n = Size(i) \/ ~InFull(plan[i], as[i])
      BY <2>5
    <3>2. as[i] # <<>>
      <4>1. <<f>> # <<>>  OBVIOUS
      <4> QED BY <3>1, <4>1
    <3>3. ~InFull(plan[i], as[i]) => <<"bad", i>> \in F  BY <2>2, <3>2
    <3>4. Fits(i, f, F)  BY <3>1, <3>3 DEF Fits
    <3> QED BY <3>1, <3>4
  <2> QED BY <2>1, <2>3, <2>4, <2>5, AnswerIs
<1>2. ASSUME NEW i \in sent + 1 .. PacketEnd, as[i] = <<>> PROVE <<"silent", i>> \in F
  <2>1. \A f : <<f>> # <<>>  OBVIOUS
  <2> QED BY <1>1, <1>2, <2>1
<1> QED BY <1>1, <1>2

\* The frames of the packet, each at its place up to the first silence.
LEMMA PacketFrames ==
  ASSUME ReadingOK, PlanOK, TalkOK, phase = "talk",
         NEW as, DOMAIN as = sent + 1 .. PacketEnd, \A i \in DOMAIN as : as[i] \in Answers(plan[i]),
         NEW F, F = failed \cup Spoilt(as)
  PROVE  /\ Came(as) \in Seq(Frame)
         /\ \A i \in sent + 1 .. PacketEnd : (\A j \in sent + 1 .. i : <<"silent", j>> \notin F) =>
              i - sent \in 1 .. Len(Came(as)) /\ Fits(i, Came(as)[i - sent], F)
         /\ (\A j \in sent + 1 .. PacketEnd : <<"silent", j>> \notin F) => Len(Came(as)) = PacketEnd - sent
         /\ \A i \in sent + 1 .. PacketEnd : (\A j \in sent + 1 .. i : as[j] # <<>>) =>
              i - sent \in 1 .. Len(Came(as)) /\ as[i] = <<Came(as)[i - sent]>>
         /\ (\A i \in sent + 1 .. PacketEnd : as[i] = <<>>) => Came(as) = <<>>
<1> DEFINE c == Came(as)
<1>1. sent \in Nat /\ PacketEnd \in Nat /\ sent < PacketEnd  BY PacketIs
<1>2. /\ \A i \in sent + 1 .. PacketEnd :
            \/ as[i] = <<>> /\ <<"silent", i>> \in F
            \/ \E f \in Frame : as[i] = <<f>> /\ Fits(i, f, F)
      /\ \A i \in sent + 1 .. PacketEnd : <<"silent", i>> \notin F => as[i] # <<>>
  BY RepliesFit
<1>3. \A i \in sent + 1 .. PacketEnd : as[i] = <<>> \/ \E f \in Frame : as[i] = <<f>>  BY <1>2
<1>4. /\ c \in Seq(Frame)
      /\ \A i \in sent + 1 .. PacketEnd : (\A j \in sent + 1 .. i : as[j] # <<>>) =>
            i - sent \in 1 .. Len(c) /\ as[i] = <<c[i - sent]>>
      /\ (\A i \in sent + 1 .. PacketEnd : as[i] = <<>>) => c = <<>>
      /\ Cardinality({i \in sent + 1 .. PacketEnd : as[i] # <<>>}) = Len(c)
  BY <1>1, <1>3, CameIs
<1> HIDE DEF c
<1>5. ASSUME NEW i \in sent + 1 .. PacketEnd, \A j \in sent + 1 .. i : <<"silent", j>> \notin F
      PROVE  i - sent \in 1 .. Len(c) /\ Fits(i, c[i - sent], F)
  <2>1. \A j \in sent + 1 .. i : j \in sent + 1 .. PacketEnd  BY <1>1
  <2>2. \A j \in sent + 1 .. i : as[j] # <<>>  BY <1>2, <1>5, <2>1
  <2>3. i - sent \in 1 .. Len(c) /\ as[i] = <<c[i - sent]>>  BY <1>4, <2>2
  <2>4. PICK f \in Frame : as[i] = <<f>> /\ Fits(i, f, F)
    <3>1. i \in sent + 1 .. i  BY <1>1
    <3> QED BY <1>2, <2>2, <3>1
  <2>5. c[i - sent] = f
    <3> DEFINE x == c[i - sent]
    <3>1. <<x>> = <<f>>  BY <2>3, <2>4
    <3> HIDE DEF x
    <3>2. x = f  BY <3>1
    <3> QED BY <3>2 DEF x
  <2> QED BY <2>3, <2>4, <2>5
<1>6. ASSUME \A j \in sent + 1 .. PacketEnd : <<"silent", j>> \notin F PROVE Len(c) = PacketEnd - sent
  <2>1. {i \in sent + 1 .. PacketEnd : as[i] # <<>>} = sent + 1 .. PacketEnd  BY <1>2, <1>6
  <2>2. Cardinality(sent + 1 .. PacketEnd) =
          IF sent + 1 > PacketEnd THEN 0 ELSE PacketEnd - (sent + 1) + 1
    <3>1. sent + 1 \in Int /\ PacketEnd \in Int  BY <1>1
    <3> QED BY <3>1, FS_Interval
  <2>3. ~(sent + 1 > PacketEnd) /\ PacketEnd - (sent + 1) + 1 = PacketEnd - sent  BY <1>1
  <2>4. Cardinality(sent + 1 .. PacketEnd) = PacketEnd - sent  BY ONLY <2>2, <2>3
  <2>5. Cardinality(sent + 1 .. PacketEnd) = Len(c)  BY <1>4, <2>1
  <2> QED BY ONLY <2>4, <2>5
<1> QED BY <1>4, <1>5, <1>6 DEF c

\* Frames collected over packets stay lined up.
LEMMA LinesUp ==
  ASSUME ReadingOK, PlanOK, TalkOK, phase = "talk", prog # "web",
         NEW as, DOMAIN as = sent + 1 .. PacketEnd, \A i \in DOMAIN as : as[i] \in Answers(plan[i]),
         NEW F, F = failed \cup Spoilt(as)
  PROVE  frames \o Came(as) \in Seq(Frame) /\ Lined(frames \o Came(as), PacketEnd, F)
<1> DEFINE c == Came(as)
           all == frames \o c
<1>1. sent \in Nat /\ PacketEnd \in Nat /\ sent < PacketEnd  BY PacketIs
<1>2. /\ c \in Seq(Frame)
      /\ \A i \in sent + 1 .. PacketEnd : (\A j \in sent + 1 .. i : <<"silent", j>> \notin F) =>
            i - sent \in 1 .. Len(c) /\ Fits(i, c[i - sent], F)
      /\ (\A j \in sent + 1 .. PacketEnd : <<"silent", j>> \notin F) => Len(c) = PacketEnd - sent
  BY PacketFrames
<1>3. frames \in Seq(Frame) /\ Lined(frames, sent, failed)  BY DEF TalkOK
<1>4. Len(frames) \in Nat /\ DOMAIN frames = 1 .. Len(frames)  BY <1>3
<1> HIDE DEF c
<1>5. /\ all \in Seq(Frame) /\ Len(all) = Len(frames) + Len(c) /\ Len(c) \in Nat
      /\ DOMAIN all = 1 .. Len(frames) + Len(c)
      /\ \A i \in 1 .. Len(frames) : all[i] = frames[i]
      /\ \A i \in 1 .. Len(c) : all[Len(frames) + i] = c[i]
  BY <1>2, <1>3
<1> HIDE DEF all
<1>6. ASSUME NEW i, NEW f, Fits(i, f, failed) PROVE Fits(i, f, F)
  BY <1>6 DEF Fits
<1>7. ASSUME NEW i \in 1 .. PacketEnd, \A j \in 1 .. i : <<"silent", j>> \notin F
      PROVE  i \in DOMAIN all /\ Fits(i, all[i], F)
  <2>1. CASE i <= sent
    <3>0. failed \subseteq F  OBVIOUS
    <3>1. i \in 1 .. sent /\ \A j \in 1 .. i : <<"silent", j>> \notin failed
      <4>1. i \in 1 .. sent  BY <1>1, <1>7, <2>1
      <4> QED BY ONLY <1>7, <3>0, <4>1
    <3>2. i \in 1 .. Len(frames) /\ Fits(i, frames[i], failed)  BY <1>3, <1>4, <3>1 DEF Lined
    <3>3. i \in DOMAIN all /\ all[i] = frames[i]  BY <1>4, <1>5, <3>2
    <3> QED BY <1>6, <3>2, <3>3
  <2>2. CASE i > sent
    <3>1. i \in sent + 1 .. PacketEnd  BY <1>1, <2>2
    <3>2. \A j \in sent + 1 .. i : j \in 1 .. i  BY <1>1
    <3>3. i - sent \in 1 .. Len(c) /\ Fits(i, c[i - sent], F)  BY <1>2, <1>7, <3>1, <3>2
    <3>4. \A j \in 1 .. sent : j \in 1 .. i  BY <1>1, <2>2
    <3>5. Len(frames) = sent  BY <1>3, <1>7, <3>4 DEF Lined
    <3>6. PICK d \in 1 .. Len(c) : d = i - sent  BY <3>3
    <3>7. all[Len(frames) + d] = c[d] /\ Len(frames) + d = i  BY <1>1, <1>5, <3>5, <3>6
    <3>8. i \in DOMAIN all  BY <1>1, <1>5, <3>5, <3>6
    <3> QED BY <3>3, <3>6, <3>7, <3>8
  <2> QED BY <1>1, <2>1, <2>2
<1>8. ASSUME \A j \in 1 .. PacketEnd : <<"silent", j>> \notin F PROVE Len(all) = PacketEnd
  <2>1. /\ \A j \in 1 .. sent : j \in 1 .. PacketEnd
        /\ \A j \in sent + 1 .. PacketEnd : j \in 1 .. PacketEnd
    BY <1>1
  <2>2. Len(frames) = sent  BY <1>3, <1>8, <2>1 DEF Lined
  <2>3. Len(c) = PacketEnd - sent  BY <1>2, <1>8, <2>1
  <2> QED BY <1>1, <1>5, <2>2, <2>3
<1>9. Lined(all, PacketEnd, F)  BY <1>7, <1>8 DEF Lined
<1> QED BY <1>5, <1>9 DEF all, c

-----------------------------------------------------------------------------
(* The steps of a reading                                                  *)

LEMMA PollStarts == PollInit => PollIInv
<1> SUFFICES ASSUME PollInit PROVE PollIInv  OBVIOUS
<1> USE DEF PollInit
<1>1. wanted \in SUBSET Regs /\ prog \in Programs  OBVIOUS
<1>2. ASSUME prog = "table" PROVE \A r, q \in wanted : r.type = q.type
  <2> DEFINE T == {r.type : r \in wanted}
  <2>1. IsFiniteSet(T)
    <3>1. T \in SUBSET {"TIT", "REG", "other"}  BY <1>1, PollAssumption
    <3>2. IsFiniteSet({"TIT", "REG", "other"})
      <4>1. IsFiniteSet({"TIT"})  BY FS_Singleton
      <4>2. IsFiniteSet({"TIT"} \cup {"REG"})  BY <4>1, FS_AddElement
      <4>3. IsFiniteSet(({"TIT"} \cup {"REG"}) \cup {"other"})  BY <4>2, FS_AddElement
      <4>4. ({"TIT"} \cup {"REG"}) \cup {"other"} = {"TIT", "REG", "other"}  OBVIOUS
      <4> QED BY <4>3, <4>4
    <3> QED BY <3>1, <3>2, FS_Subset
  <2>2. Cardinality(T) = 1  BY <1>2
  <2>3. PICK t : T = {t}  BY <2>1, <2>2, FS_Singleton
  <2> QED BY <2>3
<1>3. ReadingOK
  <2>1. \A r \in wanted : r.id \in DOMAIN shown /\ shown[r.id] = NoValue  OBVIOUS
  <2> QED BY <1>1, <1>2, <2>1 DEF ReadingOK
<1>4. plan \in Seq(Read) /\ DOMAIN plan = {} /\ Len(plan) = 0 /\ frames \in Seq(Frame)  OBVIOUS
<1>5. PlanOK  BY <1>4 DEF PlanOK, Disjoint
<1>6. TalkOK  BY <1>4 DEF TalkOK
<1>7. AllServed  BY <1>4 DEF AllServed
<1>8. NeverWrong  BY <1>3 DEF NeverWrong, ReadingOK
<1> QED BY <1>3, <1>5, <1>6, <1>7, <1>8 DEF PollIInv

\* A read that is sent begins at a register wanted.
LEMMA BeginsAtOne ==
  ASSUME NEW p, Disjoint(p), NEW j \in DOMAIN p, NEW r \in p[j].regs
  PROVE  /\ \E q \in p[j].regs : p[j].first = q.mb
         /\ p[j].first \in Int /\ p[j].first <= r.mb /\ r.mb \in Int
<1>1. p \in Seq(Read) /\ Covers(p[j])  BY DEF Disjoint
<1>2. p[j] \in Read  BY <1>1
<1>3. p[j].first \in Int /\ p[j].last \in Int /\ p[j].regs \in SUBSET Regs  BY <1>2 DEF Read
<1>4. p[j].first <= p[j].last /\ \A q \in p[j].regs : p[j].first <= q.mb  BY <1>1 DEF Covers
<1>5. PICK q \in p[j].regs : p[j].first \in Span(q)
  <2>1. p[j].first \in p[j].first .. p[j].last  BY <1>3, <1>4
  <2> QED BY <1>1, <2>1 DEF Covers
<1>6. q.mb \in Int /\ Last1(q) \in Int
  <2>1. q.mb \in Int /\ Last1(q) \in {q.mb, q.mb + 1}  BY <1>3, RegIs
  <2> QED BY <2>1
<1>7. q.mb <= p[j].first  BY <1>3, <1>5, <1>6 DEF Span
<1>8. p[j].first = q.mb  BY <1>3, <1>4, <1>6, <1>7
<1>9. r.mb \in Int  BY <1>3, RegIs
<1> QED BY <1>3, <1>4, <1>8, <1>9

LEMMA PollPlans == PollIInv /\ Plan => PollIInv'
<1> SUFFICES ASSUME PollIInv, Plan PROVE PollIInv'  OBVIOUS
<1> DEFINE p == PlanOf(Polled)
<1>1. /\ phase = "plan" /\ prog' = prog /\ wanted' = wanted /\ sent' = sent /\ frames' = frames
      /\ shown' = shown /\ failed' = failed
      /\ plan' = IF prog = "web" THEN WebKeeps(p) ELSE p
      /\ phase' = IF prog = "server" \/ GivesUp(p) \/ plan' = <<>> THEN "end" ELSE "talk"
  BY DEF Plan, Polled
<1>2. /\ prog \in Programs /\ wanted \in SUBSET Regs /\ sent = 0 /\ frames = <<>> /\ failed = {}
      /\ \A r \in wanted : r.id \in DOMAIN shown /\ shown[r.id] = NoValue
      /\ prog = "table" => \A r, q \in wanted : r.type = q.type
  BY <1>1 DEF PollIInv, ReadingOK
<1>3. Polled' = Polled /\ Polled \in SUBSET Regs /\ Polled \subseteq wanted
  BY <1>1, <1>2 DEF Polled, Reads
<1>4. Divides(p, Polled)  BY <1>2, <1>3, PlanDivides
<1>5. /\ Disjoint(WebKeeps(p)) /\ \A i \in DOMAIN WebKeeps(p) : WebKeeps(p)[i].regs \subseteq Polled
      /\ \A r \in Polled : \A j \in DOMAIN p : r \in p[j].regs /\ Sendable(p[j]) =>
           \E i \in DOMAIN WebKeeps(p) : r \in WebKeeps(p)[i].regs
  BY <1>4, KeepsDivide
<1>6. \A r \in Polled : \E j \in DOMAIN p : r \in p[j].regs  BY <1>4 DEF Divides
<1>7. Disjoint(p) /\ \A j \in DOMAIN p : p[j].regs \subseteq Polled  BY <1>4 DEF Divides
<1> HIDE DEF p
<1>8. \A b : Covers(b)' <=> Covers(b)  BY <1>1 DEF Covers
<1> DEFINE k == plan'
<1>9. Disjoint(k) /\ \A i \in DOMAIN k : k[i].regs \subseteq Polled  BY <1>1, <1>5, <1>7
<1>10. ASSUME NEW r \in Polled, prog = "web" => r.mb \in 0 .. TopAddress /\ AllSent
       PROVE  \E i \in DOMAIN k : r \in k[i].regs
  <2>1. PICK j \in DOMAIN p : r \in p[j].regs  BY <1>6
  <2>2. CASE prog # "web"  BY <1>1, <2>1, <2>2
  <2>3. CASE prog = "web"
    <3>1. PICK q \in p[j].regs : p[j].first = q.mb  BY <1>7, <2>1, BeginsAtOne
    <3>2. p[j].first \in Int /\ p[j].first <= r.mb /\ r.mb \in Int  BY <1>7, <2>1, BeginsAtOne
    <3>3. q.mb >= 0  BY <1>3, <1>7, <1>10, <2>3, <3>1 DEF AllSent
    <3>4. TopAddress \in Int /\ r.mb <= TopAddress  BY <1>10, <2>3, PollAssumption
    <3>5. p[j].first \in 0 .. TopAddress  BY <3>1, <3>2, <3>3, <3>4
    <3>6. Sendable(p[j])  BY <3>5 DEF Sendable
    <3> QED BY <1>1, <1>5, <2>1, <2>3, <3>6
  <2> QED BY <2>2, <2>3
<1>11. k \in Seq(Read) /\ \A i \in DOMAIN k : Covers(k[i])  BY <1>9 DEF Disjoint
<1>12. Len(k) \in Nat /\ DOMAIN k = 1 .. Len(k) /\ (Len(k) = 0 => k = <<>>)  BY <1>11
<1>13. Disjoint(plan)'
  <2>1. \A i, j \in DOMAIN k : i # j => k[i].regs \cap k[j].regs = {}  BY <1>9 DEF Disjoint
  <2>2. \A i \in DOMAIN k : Covers(plan[i])'
    <3> TAKE i \in DOMAIN k
    <3>1. Covers(k[i])  BY <1>11
    <3> QED BY <1>1, <3>1 DEF Covers
  <2> QED BY <1>11, <2>1, <2>2 DEF Disjoint, Read
<1>14. PlanOK'
  <2>1. AllSent' = AllSent  BY <1>1 DEF AllSent
  <2>2. \A r \in Polled : (prog = "web" => r.mb \in 0 .. TopAddress /\ AllSent) =>
           \E i \in DOMAIN k : r \in k[i].regs
    BY <1>10
  <2> QED BY <1>1, <1>3, <1>9, <1>13, <2>1, <2>2 DEF PlanOK
<1>15. ReadingOK'  BY <1>1, <1>2 DEF ReadingOK
<1>16. phase' = "talk" => prog # "server" /\ k # <<>> /\ ~GivesUp(p)  BY <1>1
<1>17. TalkOK'
  <2>1. sent' = 0 /\ frames' = <<>> /\ failed' = {} /\ frames' \in Seq(Frame)  BY <1>1, <1>2
  <2>2. phase' = "talk" => prog' # "server" /\ 0 < Len(k)  BY <1>1, <1>12, <1>16
  <2>3. 0 \in Nat /\ 0 = 0 * PerPacket'
    <3>1. PerPacket' \in Nat  BY PollAssumption DEF PerPacket
    <3>2. \A m \in Nat : 0 \in Nat /\ 0 = 0 * m  OBVIOUS
    <3> QED BY <3>1, <3>2
  <2>4. Lined(frames, sent, failed)'  BY <2>1 DEF Lined
  <2>5. frames' \in Seq(Frame')  BY <2>1
  <2> QED BY <1>12, <2>1, <2>2, <2>3, <2>4, <2>5 DEF TalkOK
<1>18. AllServed'
  <2>1. ASSUME phase' = "end", prog # "server" PROVE k = <<>> \/ (prog # "web" /\ k = p /\ GivesUp(p))
    BY <1>1, <2>1 DEF GivesUp
  <2>2. ASSUME phase' = "end", prog # "server" PROVE \A i \in DOMAIN k : ReadServed(i)'
    <3>1. CASE k = <<>>
      <4>1. DOMAIN k = {}  BY <3>1
      <4> QED BY <4>1
    <3>2. CASE prog # "web" /\ k = p /\ GivesUp(p)
      <4>1. GivesUp(plan)'  BY <1>1, <3>2 DEF GivesUp, Sendable
      <4>2. \A i : Touched(i)'  BY <1>1, <3>2, <4>1 DEF Touched
      <4> QED BY <4>2 DEF ReadServed
    <3> QED BY <2>1, <2>2, <3>1, <3>2
  <2>3. prog = "web" /\ phase' = "end" => sent' = Len(k)
    <3>1. k = <<>> => Len(k) = 0  OBVIOUS
    <3> QED BY <1>1, <1>2, <2>1, <3>1
  <2>4. 1 .. sent' = {}  BY <1>1, <1>2
  <2> QED BY <1>1, <2>2, <2>3, <2>4 DEF AllServed
<1>19. NeverWrong'
  <2>1. \A r \in wanted' : shown'[r.id] = NoValue  BY <1>1, <1>2
  <2> QED BY <2>1 DEF NeverWrong
<1> QED BY <1>14, <1>15, <1>17, <1>18, <1>19 DEF PollIInv

\* The frames fs are in the places of the reads lo .. hi, up to the first one left out.
InPlace(lo, hi, fs, F) ==
  \A i \in lo .. hi : (\A j \in lo .. i : <<"silent", j>> \notin F) =>
    i - lo + 1 <= Len(fs) /\ Fits(i, fs[i - lo + 1], F)

\* What register r of read i may be given when the reads from lo on are served.
Due(v, r, lo, i, F) ==
  \/ \E j \in lo .. i : <<"silent", j>> \in F
  \/ v \in {NoValue, RightValue(r)} /\ (<<"bad", i>> \in F \/ v = RightValue(r))

LEMMA GivesRight ==
  ASSUME Disjoint(plan), wanted \in SUBSET Regs, NEW lo \in Int, NEW hi \in Int, lo .. hi \subseteq DOMAIN plan,
         NEW fs, NEW F, NEW r \in wanted, r.id \in DOMAIN shown, InPlace(lo, hi, fs, F)
  PROVE  \A i \in lo .. hi : r \in plan[i].regs => Due(GivenOut(lo, hi, fs)[r.id], r, lo, i, F)
<1> SUFFICES ASSUME NEW i \in lo .. hi, r \in plan[i].regs, \A j \in lo .. i : <<"silent", j>> \notin F
             PROVE  /\ GivenOut(lo, hi, fs)[r.id] \in {NoValue, RightValue(r)}
                    /\ <<"bad", i>> \in F \/ GivenOut(lo, hi, fs)[r.id] = RightValue(r)
  BY DEF Due
<1>1. i - lo + 1 <= Len(fs) /\ Fits(i, fs[i - lo + 1], F)  BY DEF InPlace
<1>2. GivenOut(lo, hi, fs)[r.id] = WordsOf(plan[i], fs[i - lo + 1], r)
  <2>1. GivenOut(lo, hi, fs)[r.id] =
          IF i - lo + 1 <= Len(fs) THEN WordsOf(plan[i], fs[i - lo + 1], r) ELSE NoValue
    <3>1. Disjoint(plan) /\ wanted \in SUBSET Regs /\ lo .. hi \subseteq DOMAIN plan
          /\ r.id \in DOMAIN shown /\ i \in lo .. hi /\ r \in plan[i].regs
      OBVIOUS
    <3> QED BY ONLY <3>1, GivenIs
  <2> QED BY <1>1, <2>1
<1>3. i \in DOMAIN plan  OBVIOUS
<1> QED BY <1>1, <1>2, <1>3, WordsAre

\* The frames of this step's answers are those of the next state.
LEMMA LinedNext ==
  ASSUME plan' = plan, NEW fs, NEW n, NEW F, Lined(fs, n, F), frames' = fs, sent' = n, failed' = F
  PROVE  Lined(frames, sent, failed)'
<1>1. \A i : Size(i)' = Size(i)  BY DEF Size
<1>2. \A i, m : Run(i, m)' = Run(i, m)  BY DEF Run
<1>3. ASSUME NEW i, Fits(i, fs[i], F) PROVE Fits(i, frames[i], failed)'
  BY <1>1, <1>2, <1>3 DEF Fits
<1> QED BY <1>3, Zenon DEF Lined

\* The parts of the invariant that every step of the exchange keeps.
LEMMA StepKeeps ==
  ASSUME PollIInv, UNCHANGED <<prog, wanted, plan>>, DOMAIN shown' = DOMAIN shown,
         phase # "plan", phase' \in {"talk", "end"}
  PROVE  ReadingOK' /\ PlanOK'
<1>1. ReadingOK'  BY DEF PollIInv, ReadingOK
<1>2. Polled' = Polled  BY DEF Polled, Reads
<1>3. Disjoint(plan)'  BY DEF PollIInv, PlanOK, Disjoint, Covers, Read
<1>4. AllSent' = AllSent  BY DEF AllSent
<1>5. PlanOK'  BY <1>2, <1>3, <1>4 DEF PollIInv, PlanOK
<1> QED BY <1>1, <1>5

\* Where nothing new is shown a register is right as before.
LEMMA StaysRight ==
  ASSUME PollIInv, UNCHANGED <<prog, wanted, plan>>, failed \subseteq failed',
         NEW r \in wanted, shown'[r.id] = shown[r.id]
  PROVE  \/ shown'[r.id] \in {NoValue, Db, RightValue(r)}
         \/ \E i \in ReadsOf(r)' : Shifted(i)' \/ Zeroed(i)'
<1>1. ReadsOf(r)' = ReadsOf(r)  BY DEF ReadsOf
<1>2. shown[r.id] \in {NoValue, Db, RightValue(r)} \/ \E i \in ReadsOf(r) : Shifted(i) \/ Zeroed(i)
  BY DEF PollIInv, NeverWrong
<1> QED BY <1>1, <1>2, StaysFailed

\* The counter after a full packet.
LEMMA NextPacket ==
  ASSUME PollIInv, phase = "talk", UNCHANGED <<prog, plan>>, sent' = PacketEnd
  PROVE  /\ sent' \in 0 .. Len(plan')
         /\ PacketEnd # Len(plan) => sent' < Len(plan') /\ \E k \in Nat : sent' = k * PerPacket'
<1>1. /\ PerPacket \in Nat \ {0} /\ sent \in Nat /\ PacketEnd \in Nat /\ Len(plan) \in Nat
      /\ sent < PacketEnd /\ PacketEnd <= Len(plan)
      /\ PacketEnd < Len(plan) => PacketEnd = sent + PerPacket
  BY PacketIs DEF PollIInv
<1>2. sent' \in 0 .. Len(plan')  BY <1>1
<1>3. ASSUME PacketEnd # Len(plan) PROVE sent' < Len(plan') /\ \E k \in Nat : sent' = k * PerPacket'
  <2>1. PacketEnd < Len(plan) /\ PacketEnd = sent + PerPacket  BY <1>1, <1>3
  <2>2. PICK k \in Nat : sent = k * PerPacket  BY DEF PollIInv, TalkOK
  <2>3. \A m \in Nat : k * m + m = (k + 1) * m  OBVIOUS
  <2>4. k + 1 \in Nat /\ PerPacket' = PerPacket  BY DEF PerPacket
  <2>5. sent' = (k + 1) * PerPacket'  BY <1>1, <2>1, <2>2, <2>3, <2>4
  <2> QED BY <2>1, <2>4, <2>5
<1> QED BY <1>2, <1>3

LEMMA WebReplies == PollIInv /\ Reply /\ prog = "web" => PollIInv'
<1> SUFFICES ASSUME PollIInv, Reply, prog = "web" PROVE PollIInv'  OBVIOUS
<1>1. /\ ReadingOK /\ PlanOK /\ TalkOK /\ AllServed /\ NeverWrong /\ phase = "talk" /\ sent' = PacketEnd
      /\ prog' = prog /\ wanted' = wanted /\ plan' = plan
  BY DEF PollIInv, Reply
<1>2. PICK as \in [sent + 1 .. PacketEnd -> UNION {Answers(plan[i]) : i \in sent + 1 .. PacketEnd}] :
        /\ \A i \in DOMAIN as : as[i] \in Answers(plan[i])
        /\ failed' = failed \cup Spoilt(as)
        /\ Receive(as)
  BY DEF Reply
<1> DEFINE c == Came(as)
           F == failed'
           g == GivenOut(sent + 1, PacketEnd, c)
<1>3. /\ shown' = g /\ frames' = frames /\ phase' = IF PacketEnd = Len(plan) THEN "end" ELSE "talk"
  BY <1>2 DEF Receive
<1>4. DOMAIN as = sent + 1 .. PacketEnd /\ F = failed \cup Spoilt(as)  BY <1>2
<1>5. /\ sent \in Nat /\ PacketEnd \in Nat /\ Len(plan) \in Nat /\ sent < PacketEnd /\ PacketEnd <= Len(plan)
      /\ sent + 1 .. PacketEnd \subseteq DOMAIN plan /\ DOMAIN plan = 1 .. Len(plan)
      /\ \A i, j \in sent + 1 .. PacketEnd : Packet(i) = Packet(j)
  BY <1>1, PacketIs
<1>6. \A i \in sent + 1 .. PacketEnd : (\A j \in sent + 1 .. i : <<"silent", j>> \notin F) =>
         i - sent \in 1 .. Len(c) /\ Fits(i, c[i - sent], F)
  BY <1>1, <1>2, <1>4, PacketFrames
<1>7. DOMAIN shown' = DOMAIN shown  BY <1>3 DEF GivenOut
<1>8. ReadingOK' /\ PlanOK'  BY <1>1, <1>3, <1>7, StepKeeps
<1>9. failed \subseteq failed'  BY <1>2
<1>10. Disjoint(plan) /\ wanted \in SUBSET Regs /\ (\A r \in wanted : r.id \in DOMAIN shown)
       /\ (\A i \in DOMAIN plan : plan[i].regs \subseteq wanted)
  BY <1>1 DEF PlanOK, ReadingOK, Polled
<1> HIDE DEF c, F, g
<1>11. \A i : Packet(i)' = Packet(i)  BY <1>1 DEF Packet, PerPacket
<1>12. ASSUME NEW i \in sent + 1 .. PacketEnd, NEW r \in plan[i].regs
       PROVE  /\ Touched(i)' \/ shown'[r.id] = RightValue(r)
              /\ Shifted(i)' \/ shown'[r.id] \in {NoValue, RightValue(r)}
  <2>1. r \in wanted /\ r.id \in DOMAIN shown  BY <1>5, <1>10
  <2>2. PICK lo \in Int : lo = sent + 1  BY <1>5
  <2>3. Disjoint(plan) /\ wanted \in SUBSET Regs /\ lo .. PacketEnd \subseteq DOMAIN plan /\ PacketEnd \in Int
    BY <1>5, <1>10, <2>2
  <2>4. InPlace(lo, PacketEnd, c, F)
    <3> SUFFICES ASSUME NEW n \in lo .. PacketEnd, \A j \in lo .. n : <<"silent", j>> \notin F
                 PROVE  n - lo + 1 <= Len(c) /\ Fits(n, c[n - lo + 1], F)
      BY DEF InPlace
    <3>1. n - lo + 1 = n - sent /\ n \in sent + 1 .. PacketEnd  BY <1>5, <2>2
    <3>2. n - sent \in 1 .. Len(c) /\ Fits(n, c[n - sent], F)  BY <1>6, <2>2, <3>1
    <3> QED BY <3>1, <3>2
  <2>7. \A n \in lo .. PacketEnd : r \in plan[n].regs => Due(GivenOut(lo, PacketEnd, c)[r.id], r, lo, n, F)
    BY ONLY <2>1, <2>3, <2>4, GivesRight
  <2>8. Due(g[r.id], r, sent + 1, i, F)  BY <2>2, <2>7 DEF g
  <2>5. CASE \E j \in sent + 1 .. i : <<"silent", j>> \in F
    <3>1. PICK j \in sent + 1 .. i : <<"silent", j>> \in F  BY <2>5
    <3>2. j \in sent + 1 .. PacketEnd /\ j \in 1 .. i  BY <1>5
    <3>3. Packet(j)' = Packet(i)'  BY <1>5, <1>11, <3>2
    <3>4. Shifted(i)'  BY <1>1, <3>1, <3>2, <3>3 DEF Shifted, F
    <3>5. Touched(i)'  BY <1>1, <3>4 DEF Touched
    <3> QED BY <3>4, <3>5
  <2>6. CASE g[r.id] \in {NoValue, RightValue(r)} /\ (<<"bad", i>> \in F \/ g[r.id] = RightValue(r))
    <3>1. <<"bad", i>> \in F => Touched(i)'
      <4>1. <<"bad", i>>[2] = i  OBVIOUS
      <4> QED BY <1>1, <4>1 DEF Touched, F
    <3> QED BY <1>3, <2>6, <3>1
  <2> QED BY <2>5, <2>6, <2>8 DEF Due
<1>13. ASSUME NEW r \in wanted, \A i \in sent + 1 .. PacketEnd : r \notin plan[i].regs
       PROVE  shown'[r.id] = shown[r.id]
  <2>1. sent + 1 \in Int /\ PacketEnd \in Int  BY <1>5
  <2>2. g[r.id] = shown[r.id]  BY <1>5, <1>10, <1>13, <2>1, GivenIs DEF g
  <2> QED BY <1>3, <2>2
<1>14. NeverWrong'
  <2> SUFFICES ASSUME NEW r \in wanted
               PROVE  \/ shown'[r.id] \in {NoValue, Db, RightValue(r)}
                      \/ \E i \in ReadsOf(r)' : Shifted(i)' \/ Zeroed(i)'
    BY <1>1 DEF NeverWrong
  <2>1. CASE \E i \in sent + 1 .. PacketEnd : r \in plan[i].regs
    <3>1. PICK i \in sent + 1 .. PacketEnd : r \in plan[i].regs  BY <2>1
    <3>2. i \in ReadsOf(r)'  BY <1>1, <1>5, <3>1 DEF ReadsOf
    <3> QED BY <1>12, <3>1, <3>2
  <2>2. CASE \A i \in sent + 1 .. PacketEnd : r \notin plan[i].regs
    <3>1. shown'[r.id] = shown[r.id]  BY <1>13, <2>2
    <3> QED BY <1>1, <1>9, <3>1, StaysRight DEF PollIInv
  <2> QED BY <2>1, <2>2
<1>15. ASSUME NEW i \in 1 .. PacketEnd PROVE ReadServed(i)'
  <2> SUFFICES ASSUME NEW r \in plan[i].regs PROVE Touched(i)' \/ shown'[r.id] = RightValue(r)
    BY <1>1 DEF ReadServed
  <2>1. CASE i > sent
    <3>1. i \in sent + 1 .. PacketEnd  BY <1>5, <2>1
    <3> QED BY <1>12, <3>1
  <2>2. CASE i <= sent
    <3>1. i \in 1 .. sent /\ i \in DOMAIN plan  BY <1>5, <2>2
    <3>2. Touched(i) \/ shown[r.id] = RightValue(r)  BY <1>1, <3>1 DEF AllServed, ReadServed
    <3>3. ASSUME NEW n \in sent + 1 .. PacketEnd PROVE r \notin plan[n].regs
      <4>1. n \in DOMAIN plan /\ n # i  BY <1>5, <2>2
      <4> QED BY <1>10, <3>1, <4>1 DEF Disjoint
    <3>4. shown'[r.id] = shown[r.id]  BY <1>10, <1>13, <3>1, <3>3
    <3>5. Touched(i) => Touched(i)'  BY <1>1, <1>9, StaysFailed
    <3> QED BY <3>2, <3>4, <3>5
  <2> QED BY <1>5, <2>1, <2>2
<1>16. AllServed'
  <2>1. phase' = "end" => sent' = Len(plan') /\ DOMAIN plan' = 1 .. PacketEnd  BY <1>1, <1>3, <1>5, Zenon
  <2>2. \A i \in 1 .. sent' : ReadServed(i)'  BY <1>1, <1>15, Zenon
  <2>3. phase' = "end" => \A i \in DOMAIN plan' : ReadServed(i)'  BY <1>15, <2>1
  <2> QED BY <2>1, <2>2, <2>3, SMTT(30) DEF AllServed
<1>17. TalkOK'
  <2>1. sent' \in 0 .. Len(plan')
        /\ (PacketEnd # Len(plan) => sent' < Len(plan') /\ \E k \in Nat : sent' = k * PerPacket')
    BY <1>1, NextPacket DEF PollIInv
  <2>2. phase' = "talk" => PacketEnd # Len(plan)  BY <1>3
  <2>3. frames' \in Seq(Frame)  BY <1>1, <1>3 DEF TalkOK
  <2>4. Frame' = Frame /\ prog' = "web"  BY <1>1 DEF Frame
  <2> QED BY <2>1, <2>2, <2>3, <2>4 DEF TalkOK
<1> QED BY <1>8, <1>14, <1>16, <1>17 DEF PollIInv

\* What a register is given when the frames of all reads are given out at once.
LEMMA WholeRight ==
  ASSUME Disjoint(plan), wanted \in SUBSET Regs, NEW fs \in Seq(Frame), NEW F, Lined(fs, Len(plan), F),
         NEW r \in wanted, r.id \in DOMAIN shown
  PROVE  /\ \A i \in DOMAIN plan : r \in plan[i].regs => Due(GivenOut(1, Len(plan), fs)[r.id], r, 1, i, F)
         /\ (\A i \in DOMAIN plan : r \notin plan[i].regs) => GivenOut(1, Len(plan), fs)[r.id] = shown[r.id]
<1>1. plan \in Seq(Read)  BY DEF Disjoint
<1>2. Len(plan) \in Int /\ DOMAIN plan = 1 .. Len(plan)  BY <1>1
<1>3. PICK lo \in Int : lo = 1  BY SMTT(30)
<1>4. PICK hi \in Int : hi = Len(plan)  BY <1>2
<1>5. InPlace(lo, hi, fs, F)
  <2> SUFFICES ASSUME NEW n \in lo .. hi, \A j \in lo .. n : <<"silent", j>> \notin F
               PROVE  n - lo + 1 <= Len(fs) /\ Fits(n, fs[n - lo + 1], F)
    BY DEF InPlace
  <2>1. n \in 1 .. Len(plan) /\ n - lo + 1 = n  BY <1>3, <1>4
  <2>2. \A j \in 1 .. n : <<"silent", j>> \notin F  BY <1>3
  <2>3. n \in DOMAIN fs /\ Fits(n, fs[n], F)  BY <2>1, <2>2 DEF Lined
  <2>4. n <= Len(fs)  BY <2>3
  <2> QED BY <2>1, <2>3, <2>4
<1>6. lo .. hi \subseteq DOMAIN plan /\ Disjoint(plan) /\ wanted \in SUBSET Regs /\ r \in wanted /\ r.id \in DOMAIN shown
  BY <1>2, <1>3, <1>4
<1>7. \A n \in lo .. hi : r \in plan[n].regs => Due(GivenOut(lo, hi, fs)[r.id], r, lo, n, F)
  BY ONLY <1>5, <1>6, GivesRight
<1>8. (\A i \in lo .. hi : r \notin plan[i].regs) => GivenOut(lo, hi, fs)[r.id] = shown[r.id]
  <2> SUFFICES ASSUME \A i \in lo .. hi : r \notin plan[i].regs
               PROVE  GivenOut(lo, hi, fs)[r.id] = shown[r.id]
    OBVIOUS
  <2>1. \A i \in lo .. hi : r \notin plan[i].regs  OBVIOUS
  <2> QED BY ONLY <1>6, <2>1, GivenIs, SMTT(30)
<1>9. lo .. hi = DOMAIN plan /\ GivenOut(lo, hi, fs) = GivenOut(1, Len(plan), fs)  BY <1>2, <1>3, <1>4
<1> QED BY <1>3, <1>7, <1>8, <1>9

LEMMA WindowReplies == PollIInv /\ Reply /\ prog = "window" => PollIInv'
<1> SUFFICES ASSUME PollIInv, Reply, prog = "window" PROVE PollIInv'  OBVIOUS
<1>1. /\ ReadingOK /\ PlanOK /\ TalkOK /\ AllServed /\ NeverWrong /\ phase = "talk" /\ sent' = PacketEnd
      /\ prog' = prog /\ wanted' = wanted /\ plan' = plan
  BY DEF PollIInv, Reply
<1>2. PICK as \in [sent + 1 .. PacketEnd -> UNION {Answers(plan[i]) : i \in sent + 1 .. PacketEnd}] :
        /\ \A i \in DOMAIN as : as[i] \in Answers(plan[i])
        /\ failed' = failed \cup Spoilt(as)
        /\ Receive(as)
  BY DEF Reply
<1> DEFINE all == frames \o Came(as)
           F == failed'
           g == GivenOut(1, Len(plan), all)
<1>3. /\ shown' = IF PacketEnd = Len(plan) THEN g ELSE shown
      /\ frames' = all /\ phase' = IF PacketEnd = Len(plan) THEN "end" ELSE "talk"
  BY <1>2 DEF Receive
<1>4. DOMAIN as = sent + 1 .. PacketEnd /\ F = failed \cup Spoilt(as)  BY <1>2
<1>5. /\ sent \in Nat /\ PacketEnd \in Nat /\ Len(plan) \in Nat /\ sent < PacketEnd /\ PacketEnd <= Len(plan)
      /\ DOMAIN plan = 1 .. Len(plan)
  BY <1>1, PacketIs
<1>6. all \in Seq(Frame) /\ Lined(all, PacketEnd, F)  BY <1>1, <1>2, <1>4, LinesUp
<1>7. DOMAIN shown' = DOMAIN shown  BY <1>3 DEF GivenOut
<1>8. ReadingOK' /\ PlanOK'  BY <1>1, <1>3, <1>7, StepKeeps
<1>9. failed \subseteq failed'  BY <1>2
<1>10. Disjoint(plan) /\ wanted \in SUBSET Regs /\ (\A r \in wanted : r.id \in DOMAIN shown)
       /\ (\A i \in DOMAIN plan : plan[i].regs \subseteq wanted)
  BY <1>1 DEF PlanOK, ReadingOK, Polled
<1> HIDE DEF all, F, g
<1>11. ASSUME PacketEnd = Len(plan), NEW i \in DOMAIN plan, NEW r \in plan[i].regs
       PROVE  /\ Touched(i)' \/ shown'[r.id] = RightValue(r)
              /\ Shifted(i)' \/ shown'[r.id] \in {NoValue, RightValue(r)}
  <2>1. r \in wanted /\ r.id \in DOMAIN shown  BY <1>10
  <2>2. Disjoint(plan) /\ wanted \in SUBSET Regs /\ Lined(all, Len(plan), F) /\ all \in Seq(Frame)
    BY <1>6, <1>10, <1>11
  <2>3. \A n \in DOMAIN plan : r \in plan[n].regs => Due(GivenOut(1, Len(plan), all)[r.id], r, 1, n, F)
    BY ONLY <2>1, <2>2, WholeRight
  <2>4. shown' = g /\ g = GivenOut(1, Len(plan), all)  BY <1>3, <1>11 DEF g
  <2>5. CASE \E j \in 1 .. i : <<"silent", j>> \in F
    <3>1. PICK j \in 1 .. i : <<"silent", j>> \in F  BY <2>5
    <3>2. Shifted(i)'  BY <1>1, <3>1 DEF Shifted, F
    <3>3. Touched(i)'  BY <1>1, <3>2 DEF Touched
    <3> QED BY <3>2, <3>3
  <2>6. CASE /\ g[r.id] \in {NoValue, RightValue(r)}
             /\ <<"bad", i>> \in F \/ g[r.id] = RightValue(r)
    <3>1. <<"bad", i>> \in F => Touched(i)'
      <4>1. <<"bad", i>>[2] = i  OBVIOUS
      <4> QED BY <1>1, <4>1 DEF Touched, F
    <3> QED BY <2>4, <2>6, <3>1
  <2> QED BY <2>3, <2>4, <2>5, <2>6 DEF Due
<1>12. NeverWrong'
  <2> SUFFICES ASSUME NEW r \in wanted
               PROVE  \/ shown'[r.id] \in {NoValue, Db, RightValue(r)}
                      \/ \E i \in ReadsOf(r)' : Shifted(i)' \/ Zeroed(i)'
    BY <1>1 DEF NeverWrong
  <2>1. CASE PacketEnd = Len(plan) /\ \E i \in DOMAIN plan : r \in plan[i].regs
    <3>1. PICK i \in DOMAIN plan : r \in plan[i].regs  BY <2>1
    <3>2. i \in ReadsOf(r)'  BY <1>1, <3>1 DEF ReadsOf
    <3>3. Shifted(i)' \/ shown'[r.id] \in {NoValue, RightValue(r)}  BY <1>11, <2>1, <3>1
    <3> QED BY <3>2, <3>3
  <2>2. CASE PacketEnd = Len(plan) /\ \A i \in DOMAIN plan : r \notin plan[i].regs
    <3>1. /\ Disjoint(plan) /\ wanted \in SUBSET Regs /\ Lined(all, Len(plan), F) /\ all \in Seq(Frame)
          /\ r.id \in DOMAIN shown
      BY <1>6, <1>10, <2>2
    <3>2. GivenOut(1, Len(plan), all)[r.id] = shown[r.id]  BY ONLY <2>2, <3>1, WholeRight
    <3>3. shown'[r.id] = shown[r.id]  BY <1>3, <2>2, <3>2 DEF g
    <3> QED BY <1>1, <1>9, <3>3, StaysRight DEF PollIInv
  <2>3. CASE PacketEnd # Len(plan)
    <3>1. shown'[r.id] = shown[r.id]  BY <1>3, <2>3
    <3> QED BY <1>1, <1>9, <3>1, StaysRight DEF PollIInv
  <2> QED BY <2>1, <2>2, <2>3
<1>13. AllServed'
  <2>1. ASSUME phase' = "end" PROVE \A i \in DOMAIN plan : ReadServed(i)'
    <3>1. PacketEnd = Len(plan)  BY <1>3, <2>1
    <3> QED BY <1>1, <1>11, <3>1 DEF ReadServed
  <2> QED BY <1>1, <2>1 DEF AllServed
<1>14. TalkOK'
  <2>1. sent' \in 0 .. Len(plan')
        /\ (PacketEnd # Len(plan) => sent' < Len(plan') /\ \E k \in Nat : sent' = k * PerPacket')
    BY <1>1, NextPacket DEF PollIInv
  <2>2. phase' = "talk" => PacketEnd # Len(plan)  BY <1>3
  <2>3. frames' \in Seq(Frame)  BY <1>3, <1>6
  <2>4. Frame' = Frame /\ prog' = "window"  BY <1>1 DEF Frame
  <2>5. Lined(frames, sent, failed)'
    <3>1. plan' = plan /\ Lined(all, PacketEnd, F) /\ frames' = all /\ sent' = PacketEnd /\ failed' = F
      BY <1>1, <1>3, <1>6 DEF F
    <3> QED BY ONLY <3>1, LinedNext
  <2> QED BY <2>1, <2>2, <2>3, <2>4, <2>5 DEF TalkOK
<1> QED BY <1>8, <1>12, <1>13, <1>14 DEF PollIInv

LEMMA LargestIs ==
  ASSUME NEW n \in Nat, NEW S \in SUBSET (1 .. n), S # {}
  PROVE  Max(S) \in S /\ \A y \in S : Max(S) >= y
<1> DEFINE T == {n - i : i \in S}
           R == OpToRel(<, Nat)
<1>1. \A i \in S : i \in Int /\ n - i \in Nat  OBVIOUS
<1>2. T \subseteq Nat /\ T # {}  BY <1>1
<1>3. PICK t \in T : \A y \in T : ~(<<y, t>> \in R)
  <2>1. IsWellFoundedOn(R, Nat)  BY NatLessThanWellFounded
  <2> HIDE DEF R, T
  <2> QED BY <1>2, <2>1, WFMin
<1>4. \A y \in T : ~(y < t)  BY <1>2, <1>3 DEF OpToRel
<1>5. PICK x \in S : t = n - x  OBVIOUS
<1>6. \A y \in S : x >= y
  <2> SUFFICES ASSUME NEW y \in S PROVE x >= y  OBVIOUS
  <2>1. ~(n - y < n - x)  BY <1>4, <1>5
  <2>2. x \in Int /\ y \in Int  BY <1>1
  <2> QED BY <2>1, <2>2
<1>7. \A z \in S : (\A y \in S : z >= y) => z = x  BY <1>1, <1>6
<1> QED BY <1>6, <1>7 DEF Max

\* The table shows every register right if all reads were answered in full.
LEMMA TableShows ==
  ASSUME Disjoint(plan), wanted \in SUBSET Regs, \A q1, q2 \in wanted : q1.type = q2.type,
         \A i \in DOMAIN plan : plan[i].regs \subseteq wanted,
         \A q \in wanted : \E i \in DOMAIN plan : q \in plan[i].regs,
         NEW fs, DOMAIN fs = DOMAIN plan, \A i \in DOMAIN plan : fs[i].words = Run(i, Size(i)),
         NEW r \in wanted, r.id \in DOMAIN shown
  PROVE  FromTable(fs)[r.id] = RightValue(r)
<1>1. PICK n \in Nat : n = Len(plan) /\ DOMAIN plan = 1 .. n
  <2>1. plan \in Seq(Read)  BY DEF Disjoint
  <2> QED BY <2>1
<1>2. r \in Regs /\ r.mb \in Int /\ Last1(r) \in {r.mb, r.mb + 1} /\ Cardinality(Span(r)) = Last1(r) - r.mb + 1
  BY RegIs
<1>3. ASSUME NEW a \in Span(r) PROVE WordAt(fs, a) = <<Func(r), a>>
  <2> DEFINE at == [i \in DOMAIN fs |-> a - plan[i].first + 1]
             known == {i \in DOMAIN fs : at[i] \in DOMAIN fs[i].words}
  <2>1. a \in Int /\ r.mb <= a /\ a <= Last1(r)  BY <1>2, <1>3 DEF Span
  <2>2. PICK i0 \in DOMAIN plan : r \in plan[i0].regs  OBVIOUS
  <2>3. \A i \in DOMAIN plan : /\ plan[i].first \in Int /\ plan[i].last \in Int /\ Size(i) \in Nat
                               /\ Covers(plan[i]) /\ DOMAIN fs[i].words = 1 .. Size(i)
    <3> TAKE i \in DOMAIN plan
    <3>1. fs[i].words = Run(i, Size(i))  OBVIOUS
    <3>2. DOMAIN fs[i].words = 1 .. Size(i)  BY <3>1 DEF Run
    <3> QED BY <3>2, ReadIs
  <2>4. plan[i0].first <= r.mb /\ Last1(r) <= plan[i0].last  BY <2>2, <2>3 DEF Covers
  <2>5. a - plan[i0].first + 1 \in 1 .. Size(i0)
    <3>1. Last1(r) \in Int /\ r.mb \in Int  BY <1>2
    <3>2. plan[i0].first \in Int /\ plan[i0].last \in Int  BY <2>3
    <3>3. plan[i0].first <= a /\ a <= plan[i0].last  BY ONLY <2>1, <2>4, <3>1, <3>2
    <3> QED BY ONLY <2>1, <3>2, <3>3 DEF Size
  <2>6. i0 \in known  BY <2>2, <2>3, <2>5
  <2>7. known \in SUBSET (1 .. n)  BY <1>1
  <2>8. Max(known) \in known
    <3>1. known # {}  BY <2>6
    <3> HIDE DEF known
    <3> QED BY <2>7, <3>1, LargestIs
  <2>9. PICK m \in DOMAIN plan : m = Max(known) /\ a - plan[m].first + 1 \in 1 .. Size(m)
    BY <2>3, <2>8
  <2>10. WordAt(fs, a) = fs[m].words[a - plan[m].first + 1]
    <3>1. known # {}  BY <2>6
    <3>2. WordAt(fs, a) = fs[Max(known)].words[at[Max(known)]]  BY <3>1 DEF WordAt
    <3> QED BY <2>9, <3>2
  <2> HIDE DEF at, known
  <2>11. Run(m, Size(m))[a - plan[m].first + 1] = <<plan[m].func, a>>
    <3>1. PICK k \in 1 .. Size(m) : k = a - plan[m].first + 1  BY <2>9
    <3>2. Run(m, Size(m))[k] = <<plan[m].func, plan[m].first + k - 1>>  BY <3>1 DEF Run
    <3>3. plan[m].first + k - 1 = a  BY <2>1, <2>3, <3>1
    <3> QED BY <3>1, <3>2, <3>3
  <2>12. plan[m].func = Func(r)
    <3>1. PICK q \in plan[m].regs : Func(q) = plan[m].func  BY <2>3 DEF Covers
    <3>2. q.type = r.type  BY <3>1
    <3> QED BY <3>1, <3>2 DEF Func
  <2> QED BY <2>10, <2>11, <2>12
<1>4. (CHOOSE x \in wanted : x.id = r.id) = r
  <2>1. \A x \in wanted : x.id = r.id => x = r  BY PollAssumption
  <2> QED BY <2>1
<1>5. FromTable(fs)[r.id] = [i \in 1 .. Cardinality(Span(r)) |-> WordAt(fs, r.mb + i - 1)]
  BY <1>4 DEF FromTable
<1>6. \A i \in 1 .. Cardinality(Span(r)) : WordAt(fs, r.mb + i - 1) = <<Func(r), r.mb + i - 1>>
  <2> TAKE i \in 1 .. Cardinality(Span(r))
  <2>1. PICK a \in Int : a = r.mb + i - 1  BY <1>2
  <2>2. a \in Span(r)  BY <1>2, <2>1 DEF Span
  <2>3. WordAt(fs, a) = <<Func(r), a>>  BY <1>3, <2>2
  <2> QED BY ONLY <2>1, <2>3
<1> QED BY <1>5, <1>6 DEF RightValue

LEMMA TableReplies == PollIInv /\ Reply /\ prog = "table" => PollIInv'
<1> SUFFICES ASSUME PollIInv, Reply, prog = "table" PROVE PollIInv'  OBVIOUS
<1>1. /\ ReadingOK /\ PlanOK /\ TalkOK /\ AllServed /\ NeverWrong /\ phase = "talk" /\ sent' = PacketEnd
      /\ prog' = prog /\ wanted' = wanted /\ plan' = plan
  BY DEF PollIInv, Reply
<1>2. PICK as \in [sent + 1 .. PacketEnd -> UNION {Answers(plan[i]) : i \in sent + 1 .. PacketEnd}] :
        /\ \A i \in DOMAIN as : as[i] \in Answers(plan[i])
        /\ failed' = failed \cup Spoilt(as)
        /\ Receive(as)
  BY DEF Reply
<1> DEFINE c == Came(as)
           all == frames \o c
           F == failed'
           data == c # <<>> /\ c[1].func < 128
           s1 == sent + 1
<1>3. /\ shown' = IF PacketEnd = Len(plan) /\ data THEN FromTable(all) ELSE shown
      /\ frames' = all /\ phase' = IF PacketEnd = Len(plan) \/ ~data THEN "end" ELSE "talk"
  BY <1>2 DEF Receive
<1>4. DOMAIN as = sent + 1 .. PacketEnd /\ F = failed \cup Spoilt(as)  BY <1>2
<1>5. /\ sent \in Nat /\ PacketEnd = s1 /\ Len(plan) \in Nat /\ s1 <= Len(plan)
      /\ DOMAIN plan = 1 .. Len(plan) /\ s1 \in Nat /\ s1 \in DOMAIN plan
      /\ sent + 1 .. PacketEnd = {s1}
  <2>1. /\ sent \in Nat /\ PacketEnd = sent + 1 /\ Len(plan) \in Nat /\ PacketEnd <= Len(plan)
        /\ DOMAIN plan = 1 .. Len(plan)
    BY <1>1, PacketIs
  <2> QED BY <2>1
<1>6. all \in Seq(Frame) /\ Lined(all, PacketEnd, F)  BY <1>1, <1>2, <1>4, LinesUp
<1>7. DOMAIN shown' = DOMAIN shown  BY <1>3 DEF FromTable
<1>8. ReadingOK' /\ PlanOK'  BY <1>1, <1>3, <1>7, StepKeeps
<1>9. failed \subseteq failed'  BY <1>2
<1>10. Disjoint(plan) /\ wanted \in SUBSET Regs /\ (\A r \in wanted : r.id \in DOMAIN shown)
       /\ (\A i \in DOMAIN plan : plan[i].regs \subseteq wanted)
       /\ (\A q1, q2 \in wanted : q1.type = q2.type)
       /\ (\A q \in wanted : \E i \in DOMAIN plan : q \in plan[i].regs)
  <2>1. \A q \in wanted : q \in Polled  BY <1>1 DEF Polled, Reads
  <2> QED BY <1>1, <2>1 DEF PlanOK, ReadingOK, Polled
<1>11. /\ c \in Seq(Frame)
       /\ <<"silent", s1>> \notin F => c # <<>> /\ Fits(s1, c[1], F)
       /\ as[s1] # <<>> => as[s1] = <<c[1]>>
       /\ as[s1] = <<>> => c = <<>>
       /\ <<"silent", s1>> \notin F => Len(c) = 1
  <2>1. /\ c \in Seq(Frame)
        /\ \A i \in sent + 1 .. PacketEnd : (\A j \in sent + 1 .. i : <<"silent", j>> \notin F) =>
             i - sent \in 1 .. Len(c) /\ Fits(i, c[i - sent], F)
        /\ (\A j \in sent + 1 .. PacketEnd : <<"silent", j>> \notin F) => Len(c) = PacketEnd - sent
        /\ \A i \in sent + 1 .. PacketEnd : (\A j \in sent + 1 .. i : as[j] # <<>>) =>
             i - sent \in 1 .. Len(c) /\ as[i] = <<c[i - sent]>>
        /\ (\A i \in sent + 1 .. PacketEnd : as[i] = <<>>) => c = <<>>
    BY <1>1, <1>2, <1>4, PacketFrames
  <2>2. s1 - sent = 1 /\ sent + 1 .. s1 = {s1} /\ s1 \in sent + 1 .. PacketEnd  BY <1>5
  <2> HIDE DEF c, s1, F
  <2>3. <<"silent", s1>> \notin F => 1 \in 1 .. Len(c) /\ Fits(s1, c[1], F) /\ Len(c) = 1
    <3> SUFFICES ASSUME <<"silent", s1>> \notin F
                 PROVE  1 \in 1 .. Len(c) /\ Fits(s1, c[1], F) /\ Len(c) = 1
      OBVIOUS
    <3>1. \A j \in sent + 1 .. s1 : <<"silent", j>> \notin F  BY <2>2
    <3>2. s1 - sent \in 1 .. Len(c) /\ Fits(s1, c[s1 - sent], F)  BY ONLY <2>1, <2>2, <3>1
    <3>3. Len(c) = s1 - sent  BY ONLY <1>5, <2>1, <3>1
    <3> QED BY ONLY <2>2, <3>2, <3>3
  <2>4. as[s1] # <<>> => as[s1] = <<c[1]>>  BY <1>5, <2>1, <2>2
  <2>5. as[s1] = <<>> => c = <<>>  BY <1>5, <2>1, <2>2
  <2>6. 1 \in 1 .. Len(c) => c # <<>>  BY <2>1
  <2> QED BY <2>1, <2>3, <2>4, <2>5, <2>6
<1>12. \A f \in F : f \in failed \/ (f[1] = "silent" /\ as[s1] = <<>>) \/ (f[1] = "bad" /\ as[s1] # <<>>)
  <2> TAKE f \in F
  <2>1. CASE f \in failed  BY <2>1
  <2>2. CASE f \in Spoilt(as)
    <3>1. PICK i \in DOMAIN as : f = <<IF as[i] = <<>> THEN "silent" ELSE "bad", i>>  BY <2>2 DEF Spoilt
    <3>2. i = s1  BY <1>4, <1>5, <3>1
    <3>3. f[1] = IF as[s1] = <<>> THEN "silent" ELSE "bad"  BY <3>1, <3>2
    <3> QED BY <3>3
  <2> QED BY <1>4, <2>1, <2>2
<1> HIDE DEF c, all, F, s1
<1>13. \A f \in failed : f[1] # "silent"  BY <1>1 DEF TalkOK
<1>14. ASSUME data
       PROVE  /\ \A f \in F : f[1] # "silent"
              /\ \A i \in 1 .. PacketEnd : i \in DOMAIN all /\ all[i].func < 128 /\ Fits(i, all[i], F)
              /\ Len(all) = PacketEnd
  <2>1. as[s1] # <<>>  BY <1>11, <1>14
  <2>2. \A f \in F : f[1] # "silent"  BY <1>12, <1>13, <2>1
  <2>3. \A j : <<"silent", j>> \notin F
    <3>1. \A j : <<"silent", j>>[1] = "silent"  OBVIOUS
    <3> QED BY <2>2, <3>1
  <2>4. \A i \in 1 .. PacketEnd : i \in DOMAIN all /\ Fits(i, all[i], F)
    <3> TAKE i \in 1 .. PacketEnd
    <3>1. (\A j \in 1 .. i : <<"silent", j>> \notin F) => i \in DOMAIN all /\ Fits(i, all[i], F)
      BY <1>6 DEF Lined
    <3> QED BY ONLY <2>3, <3>1
  <2>5. Len(all) = PacketEnd
    <3>1. (\A j \in 1 .. PacketEnd : <<"silent", j>> \notin F) => Len(all) = PacketEnd  BY <1>6 DEF Lined
    <3> QED BY ONLY <2>3, <3>1
  <2>6. Len(frames) = sent /\ frames \in Seq(Frame)
    <3>1. \A j : <<"silent", j>> \notin failed  BY <1>4, <2>3
    <3>2. (\A j \in 1 .. sent : <<"silent", j>> \notin failed) => Len(frames) = sent
      BY <1>1 DEF TalkOK, Lined
    <3>3. Len(frames) = sent  BY ONLY <3>1, <3>2
    <3> QED BY <1>1, <3>3 DEF TalkOK
  <2>7. Len(c) = 1  BY <1>11, <2>3
  <2>8. \A i \in 1 .. sent : all[i] = frames[i]  BY <1>11, <2>6 DEF all
  <2>9. all[s1] = c[1]
    <3>1. PICK k \in Nat : k = Len(frames) /\ k = sent  BY <1>5, <2>6
    <3>2. \A i \in 1 .. Len(c) : all[k + i] = c[i]  BY <1>11, <2>6, <3>1 DEF all
    <3>3. 1 \in 1 .. Len(c)  BY <2>7
    <3>4. all[k + 1] = c[1]  BY ONLY <3>2, <3>3
    <3> QED BY <3>1, <3>4 DEF s1
  <2>10. \A i \in 1 .. sent : frames[i].func < 128  BY <1>1 DEF TalkOK
  <2>11. \A i \in 1 .. PacketEnd : all[i].func < 128
    <3> TAKE i \in 1 .. PacketEnd
    <3>1. i \in 1 .. sent \/ i = s1  BY <1>5 DEF s1
    <3> QED BY <1>14, <2>8, <2>9, <2>10, <3>1
  <2> QED BY <2>2, <2>4, <2>5, <2>11
<1>15. ASSUME ~data PROVE F # {}
  <2> SUFFICES ASSUME F = {} PROVE FALSE  OBVIOUS
  <2>1. c # <<>> /\ Fits(s1, c[1], F)  BY <1>11
  <2>2. c[1].func = plan[s1].func  BY <2>1 DEF Fits
  <2>3. plan[s1].func \in {3, 4}  BY <1>5, <1>10, ReadIs
  <2> QED BY <1>15, <2>1, <2>2, <2>3
<1>16. ASSUME PacketEnd = Len(plan), data, \A j \in DOMAIN plan : <<"bad", j>> \notin F
       PROVE  \A r \in wanted : shown'[r.id] = RightValue(r)
  <2> TAKE r \in wanted
  <2>1. DOMAIN all = DOMAIN plan
    <3>1. Len(all) = Len(plan)  BY <1>14, <1>16
    <3> QED BY <1>5, <1>6, <3>1
  <2>2. \A i \in DOMAIN plan : all[i].words = Run(i, Size(i))
    <3> TAKE i \in DOMAIN plan
    <3>1. Fits(i, all[i], F) /\ all[i].func < 128  BY <1>5, <1>14, <1>16
    <3>2. plan[i].func \in {3, 4}  BY <1>10, ReadIs
    <3>3. all[i].func # plan[i].func + 128  BY <3>1, <3>2
    <3>4. <<"bad", i>> \notin F  BY <1>16
    <3>5. PICK n \in 1 .. Size(i) : all[i].words = Run(i, n) /\ n = Size(i)
      BY ONLY <3>1, <3>3, <3>4 DEF Fits
    <3> QED BY <3>5
  <2>3. shown' = FromTable(all)  BY <1>3, <1>16
  <2>4. r.id \in DOMAIN shown  BY <1>10
  <2>5. r \in wanted  OBVIOUS
  <2>6. FromTable(all)[r.id] = RightValue(r)  BY ONLY <1>10, <2>1, <2>2, <2>4, <2>5, TableShows
  <2> QED BY <2>3, <2>6
<1>17. NeverWrong'
  <2> SUFFICES ASSUME NEW r \in wanted
               PROVE  \/ shown'[r.id] \in {NoValue, Db, RightValue(r)}
                      \/ \E i \in ReadsOf(r)' : Shifted(i)' \/ Zeroed(i)'
    BY <1>1 DEF NeverWrong
  <2>1. CASE PacketEnd = Len(plan) /\ data
    <3>1. CASE \A j \in DOMAIN plan : <<"bad", j>> \notin F  BY <1>16, <2>1, <3>1
    <3>2. CASE \E j \in DOMAIN plan : <<"bad", j>> \in F
      <4>1. PICK i \in DOMAIN plan : r \in plan[i].regs  BY <1>10
      <4>2. i \in ReadsOf(r)'  BY <1>1, <4>1 DEF ReadsOf
      <4>3. Zeroed(i)'  BY <1>1, <3>2 DEF Zeroed, F
      <4> QED BY <4>2, <4>3
    <3> QED BY <3>1, <3>2
  <2>2. CASE ~(PacketEnd = Len(plan) /\ data)
    <3>1. shown'[r.id] = shown[r.id]  BY <1>3, <2>2
    <3> QED BY <1>1, <1>9, <3>1, StaysRight DEF PollIInv
  <2> QED BY <2>1, <2>2
<1>18. AllServed'
  <2>1. F # {} => \A i : Touched(i)'  BY <1>1 DEF Touched, F
  <2>2. ASSUME phase' = "end", F = {} PROVE \A i \in DOMAIN plan : ReadServed(i)'
    <3>1. data  BY <1>15, <2>2
    <3>2. PacketEnd = Len(plan)  BY <1>3, <2>2, <3>1
    <3>3. \A r \in wanted : shown'[r.id] = RightValue(r)  BY <1>16, <2>2, <3>1, <3>2
    <3> QED BY <1>1, <1>10, <3>3 DEF ReadServed
  <2>3. F # {} => \A i \in DOMAIN plan : ReadServed(i)'  BY <2>1 DEF ReadServed
  <2> QED BY <1>1, <2>2, <2>3 DEF AllServed
<1>19. TalkOK'
  <2>1. sent' \in 0 .. Len(plan')
        /\ (PacketEnd # Len(plan) => sent' < Len(plan') /\ \E k \in Nat : sent' = k * PerPacket')
    BY <1>1, NextPacket DEF PollIInv
  <2>2. phase' = "talk" => PacketEnd # Len(plan) /\ data  BY <1>3
  <2>3. frames' \in Seq(Frame)  BY <1>3, <1>6
  <2>4. Frame' = Frame /\ prog' = "table"  BY <1>1 DEF Frame
  <2>5. Lined(frames, sent, failed)'
    <3>1. plan' = plan /\ Lined(all, PacketEnd, F) /\ frames' = all /\ sent' = PacketEnd /\ failed' = F
      BY <1>1, <1>3, <1>6 DEF F
    <3> QED BY ONLY <3>1, LinedNext
  <2>6. phase' = "talk" => /\ \A f \in failed' : f[1] # "silent"
                           /\ \A i \in 1 .. sent' : frames'[i].func < 128
    BY <1>1, <1>3, <1>14, <2>2 DEF F
  <2> QED BY <2>1, <2>2, <2>3, <2>4, <2>5, <2>6 DEF TalkOK
<1> QED BY <1>8, <1>17, <1>18, <1>19 DEF PollIInv

LEMMA PollLoses == PollIInv /\ Lose => PollIInv'
<1> SUFFICES ASSUME PollIInv, Lose PROVE PollIInv'  OBVIOUS
<1>1. /\ ReadingOK /\ PlanOK /\ TalkOK /\ AllServed /\ NeverWrong /\ phase = "talk" /\ sent' = PacketEnd
      /\ prog' = prog /\ wanted' = wanted /\ plan' = plan /\ frames' = frames /\ shown' = shown
      /\ failed' = failed \cup {<<"lost", PacketEnd>>}
      /\ phase' = IF GoesOn THEN "talk" ELSE "end"
  BY DEF PollIInv, Lose
<1>2. phase' = "end" <=> ~(prog = "web" /\ PacketEnd < Len(plan))  BY DEF Lose, GoesOn
<1>3. /\ sent \in Nat /\ PacketEnd \in Nat /\ Len(plan) \in Nat /\ sent < PacketEnd /\ PacketEnd <= Len(plan)
      /\ DOMAIN plan = 1 .. Len(plan)
      /\ \A i, j \in sent + 1 .. PacketEnd : Packet(i) = Packet(j)
  <2>1. ReadingOK /\ PlanOK /\ TalkOK /\ phase = "talk"  BY <1>1
  <2> QED BY ONLY <2>1, PacketIs
<1>4. PacketEnd < Len(plan) <=> PacketEnd # Len(plan)
  <2>1. \A e, n \in Nat : e <= n => (e < n <=> e # n)  OBVIOUS
  <2>2. PacketEnd \in Nat /\ Len(plan) \in Nat /\ PacketEnd <= Len(plan)  BY <1>3
  <2> QED BY ONLY <2>1, <2>2, Zenon
<1>5. ReadingOK' /\ PlanOK'  BY <1>1, StepKeeps
<1>6. failed \subseteq failed' /\ <<"lost", PacketEnd>> \in failed'  BY <1>1
<1>7. <<"lost", PacketEnd>>[1] = "lost" /\ <<"lost", PacketEnd>>[2] = PacketEnd  OBVIOUS
<1>8. prog # "server" /\ prog \in {"web", "window", "table"}
  BY <1>1, PollAssumption DEF TalkOK, ReadingOK
<1>9. NeverWrong'
  <2>1. \A r \in wanted : \/ shown'[r.id] \in {NoValue, Db, RightValue(r)}
                          \/ \E i \in ReadsOf(r)' : Shifted(i)' \/ Zeroed(i)'
    <3> TAKE r \in wanted
    <3>1. shown'[r.id] = shown[r.id]  BY <1>1
    <3> QED BY <1>1, <1>6, <3>1, StaysRight
  <2> QED BY <1>1, <2>1 DEF NeverWrong
<1>10. ASSUME prog = "web", NEW i \in 1 .. PacketEnd PROVE ReadServed(i)'
  <2>1. CASE i <= sent
    <3>1. i \in 1 .. sent  BY <1>3, <2>1
    <3>2. ReadServed(i)  BY <1>1, <1>10, <3>1 DEF AllServed
    <3>3. Touched(i) => Touched(i)'  BY <1>1, <1>6, StaysFailed
    <3> QED BY <1>1, <3>2, <3>3 DEF ReadServed
  <2>2. CASE i > sent
    <3>1. i \in sent + 1 .. PacketEnd /\ PacketEnd \in sent + 1 .. PacketEnd  BY <1>3, <2>2
    <3>2. Packet(i) = Packet(PacketEnd)  BY <1>3, <3>1
    <3>3. \A n : Packet(n)' = Packet(n)  BY <1>1 DEF Packet, PerPacket
    <3>4. PICK e \in Nat : e = PacketEnd  BY <1>3
    <3>5. PICK f \in failed' : f = <<"lost", e>>  BY <1>6, <3>4
    <3>6. f[1] = "lost" /\ f[2] = e  BY <3>5
    <3>7. Packet(e)' = Packet(i)'  BY <3>2, <3>3, <3>4
    <3>8. Touched(i)'  BY <1>1, <1>10, <3>6, <3>7 DEF Touched
    <3> QED BY <3>8 DEF ReadServed
  <2> QED BY <1>3, <2>1, <2>2
<1>11. ASSUME prog # "web", NEW i PROVE Touched(i)'
  <2> DEFINE f == <<"lost", PacketEnd>>
  <2>1. f \in failed' /\ f[1] = "lost" /\ failed' # {}  BY <1>6, <1>7
  <2> HIDE DEF f
  <2> QED BY <1>1, <1>8, <1>11, <2>1 DEF Touched
<1>12. AllServed'
  <2>1. ASSUME prog = "web", phase' = "end" PROVE sent' = Len(plan')
    <3>1. ~(PacketEnd < Len(plan))  BY <1>2, <2>1
    <3>2. PacketEnd = Len(plan)  BY <1>4, <3>1
    <3> QED BY <1>1, <3>2
  <2>2. ASSUME prog = "web" PROVE \A i \in 1 .. sent' : ReadServed(i)'  BY <1>1, <1>10, <2>2
  <2>3. ASSUME prog = "web", phase' = "end" PROVE \A i \in DOMAIN plan' : ReadServed(i)'
    <3>1. plan' = plan /\ sent' = Len(plan') /\ DOMAIN plan = 1 .. Len(plan)  BY <1>1, <1>3, <2>1, <2>3, Zenon
    <3>2. DOMAIN plan' = 1 .. sent'  BY ONLY <3>1
    <3> QED BY ONLY <2>2, <2>3, <3>2, SMTT(30)
  <2>4. ASSUME prog # "web" PROVE \A i : ReadServed(i)'  BY <1>11, <2>4 DEF ReadServed
  <2> QED BY <1>1, <2>1, <2>2, <2>3, <2>4 DEF AllServed
<1>13. TalkOK'
  <2>1. sent' \in 0 .. Len(plan')
        /\ (PacketEnd # Len(plan) => sent' < Len(plan') /\ \E k \in Nat : sent' = k * PerPacket')
    BY <1>1, NextPacket
  <2>2. phase' = "talk" => prog = "web" /\ PacketEnd # Len(plan)
    <3>1. ~(phase' = "talk" /\ phase' = "end")  OBVIOUS
    <3>2. phase' = "talk" => prog = "web" /\ PacketEnd < Len(plan)  BY <1>2, <3>1
    <3> QED BY <1>4, <3>2
  <2>3. frames' \in Seq(Frame)  BY <1>1 DEF TalkOK
  <2>4. Frame' = Frame /\ prog' = prog /\ prog # "server"  BY <1>1, <1>8 DEF Frame
  <2> QED BY <2>1, <2>2, <2>3, <2>4 DEF TalkOK
<1> QED BY <1>5, <1>9, <1>12, <1>13 DEF PollIInv

\* A value is not the mark for none.
LEMMA ValueIsSome == ASSUME NEW r \in Regs PROVE RightValue(r) # NoValue
<1>1. Cardinality(Span(r)) = Last1(r) - r.mb + 1 /\ r.mb \in Int /\ Last1(r) \in {r.mb, r.mb + 1}  BY RegIs
<1>2. 1 \in 1 .. Cardinality(Span(r))  BY <1>1
<1>3. 1 \in DOMAIN RightValue(r)  BY <1>2 DEF RightValue
<1>4. DOMAIN NoValue = {}  BY DEF NoValue
<1> QED BY <1>3, <1>4

LEMMA PollFallsBack == PollIInv /\ Fallback => PollIInv'
<1> SUFFICES ASSUME PollIInv, Fallback PROVE PollIInv'  OBVIOUS
<1>1. /\ ReadingOK /\ PlanOK /\ TalkOK /\ AllServed /\ NeverWrong /\ phase = "end" /\ prog = "window"
      /\ prog' = prog /\ wanted' = wanted /\ plan' = plan /\ frames' = frames /\ sent' = sent
      /\ phase' = phase /\ failed' = failed
      /\ shown' = [id \in DOMAIN shown |-> IF shown[id] = NoValue THEN Db ELSE shown[id]]
  BY DEF PollIInv, Fallback
<1>2. ReadingOK' /\ PlanOK'  BY <1>1, StepKeeps
<1>3. \A r \in wanted : shown'[r.id] = IF shown[r.id] = NoValue THEN Db ELSE shown[r.id]
  BY <1>1 DEF ReadingOK
<1>4. NeverWrong'
  <2> SUFFICES ASSUME NEW r \in wanted
               PROVE  \/ shown'[r.id] \in {NoValue, Db, RightValue(r)}
                      \/ \E i \in ReadsOf(r)' : Shifted(i)' \/ Zeroed(i)'
    BY <1>1 DEF NeverWrong
  <2>1. CASE shown[r.id] = NoValue  BY <1>3, <2>1
  <2>2. CASE shown[r.id] # NoValue
    <3>1. shown'[r.id] = shown[r.id]  BY <1>3, <2>2
    <3> QED BY <1>1, <3>1, StaysRight
  <2> QED BY <2>1, <2>2
<1>5. ASSUME NEW i \in DOMAIN plan PROVE ReadServed(i)'
  <2> SUFFICES ASSUME NEW r \in plan[i].regs PROVE Touched(i)' \/ shown'[r.id] = RightValue(r)
    BY <1>1 DEF ReadServed
  <2>1. Touched(i) \/ shown[r.id] = RightValue(r)  BY <1>1 DEF AllServed, ReadServed
  <2>2. r \in wanted /\ r \in Regs  BY <1>1 DEF PlanOK, Polled, ReadingOK
  <2>3. Touched(i) => Touched(i)'  BY <1>1, StaysFailed
  <2>4. RightValue(r) # NoValue  BY <2>2, ValueIsSome
  <2> QED BY <1>3, <2>1, <2>2, <2>3, <2>4
<1>6. AllServed'  BY <1>1, <1>5 DEF AllServed
<1>7. TalkOK'
  <2>1. Frame' = Frame  BY DEF Frame
  <2> QED BY <1>1, <2>1 DEF TalkOK
<1> QED BY <1>2, <1>4, <1>6, <1>7 DEF PollIInv

LEMMA PollStutters == PollIInv /\ UNCHANGED pollVars => PollIInv'
<1> SUFFICES ASSUME PollIInv, UNCHANGED pollVars PROVE PollIInv'  OBVIOUS
<1>1. /\ prog' = prog /\ wanted' = wanted /\ plan' = plan /\ sent' = sent /\ frames' = frames
      /\ shown' = shown /\ phase' = phase /\ failed' = failed
  BY DEF pollVars
<1>2. Polled' = Polled  BY <1>1 DEF Polled, Reads
<1>3. Disjoint(plan)' = Disjoint(plan)  BY <1>1 DEF Disjoint, Covers, Read
<1>4. AllSent' = AllSent  BY <1>1 DEF AllSent
<1>5. ReadingOK'  BY <1>1 DEF PollIInv, ReadingOK
<1>6. PlanOK'  BY <1>1, <1>2, <1>3, <1>4 DEF PollIInv, PlanOK
<1>7. Lined(frames, sent, failed)' = Lined(frames, sent, failed)  BY <1>1 DEF Lined, Fits, Size, Run
<1>8. Frame' = Frame /\ PerPacket' = PerPacket  BY <1>1 DEF Frame, PerPacket
<1>9. TalkOK'  BY <1>1, <1>7, <1>8 DEF PollIInv, TalkOK
<1>10. \A i : Touched(i) => Touched(i)' /\ (Shifted(i) => Shifted(i)') /\ (Zeroed(i) => Zeroed(i)')
  BY <1>1, StaysFailed
<1>11. \A i : ReadServed(i) => ReadServed(i)'  BY <1>1, <1>10 DEF ReadServed
<1>12. AllServed'  BY <1>1, <1>11 DEF PollIInv, AllServed
<1>13. NeverWrong'
  <2>1. \A r \in wanted : \/ shown'[r.id] \in {NoValue, Db, RightValue(r)}
                          \/ \E i \in ReadsOf(r)' : Shifted(i)' \/ Zeroed(i)'
    <3> TAKE r \in wanted
    <3>1. shown'[r.id] = shown[r.id]  BY <1>1
    <3> QED BY <1>1, <3>1, StaysRight
  <2> QED BY <1>1, <2>1 DEF NeverWrong
<1> QED BY <1>5, <1>6, <1>9, <1>12, <1>13 DEF PollIInv

LEMMA PollIsRight == PollIInv => ReadingsAreRight
<1> SUFFICES ASSUME PollIInv PROVE ReadingsAreRight  OBVIOUS
<1>1. /\ ReadingOK /\ PlanOK /\ AllServed /\ NeverWrong  BY DEF PollIInv
<1>2. /\ Disjoint(plan) /\ wanted \in SUBSET Regs /\ \A i \in DOMAIN plan : plan[i].regs \subseteq Polled
  BY <1>1 DEF PlanOK, ReadingOK
<1>3. \A i \in DOMAIN plan : /\ Covers(plan[i]) /\ plan[i].first \in Int /\ plan[i].last \in Int
                             /\ plan[i].regs \in SUBSET Regs
  BY <1>2, ReadIs
<1>4. \A r \in Regs : r.mb \in Int /\ Last1(r) \in Int
  <2> TAKE r \in Regs
  <2>1. r.mb \in Int /\ Last1(r) \in {r.mb, r.mb + 1}  BY RegIs
  <2> QED BY <2>1
<1>5. ASSUME phase # "plan", NEW r \in wanted, Reads(r), r.mb \in 0 .. TopAddress, prog = "web" => AllSent
      PROVE  \E i \in DOMAIN plan : /\ ReadsOf(r) = {i} /\ plan[i].func = Func(r)
                                    /\ Span(r) \subseteq plan[i].first .. plan[i].last
  <2>1. r \in Polled  BY <1>5 DEF Polled
  <2>2. PICK i \in DOMAIN plan : r \in plan[i].regs  BY <1>1, <1>5, <2>1 DEF PlanOK
  <2>3. ReadsOf(r) = {i}
    <3>1. \A j \in DOMAIN plan : r \in plan[j].regs => j = i  BY <1>2, <2>2 DEF Disjoint
    <3> QED BY <2>2, <3>1 DEF ReadsOf
  <2>4. plan[i].func = Func(r) /\ plan[i].first <= r.mb /\ Last1(r) <= plan[i].last
    BY <1>3, <2>2 DEF Covers
  <2>5. r.mb \in Int /\ Last1(r) \in Int /\ plan[i].first \in Int /\ plan[i].last \in Int
    BY <1>2, <1>3, <1>4, <2>2
  <2>6. Span(r) \subseteq plan[i].first .. plan[i].last
    <3> SUFFICES ASSUME NEW a \in r.mb .. Last1(r) PROVE a \in plan[i].first .. plan[i].last
      BY DEF Span
    <3> QED BY <2>4, <2>5
  <2> QED BY <2>2, <2>3, <2>4, <2>6
<1>6. ASSUME NEW r \in wanted, ~Reads(r) PROVE ReadsOf(r) = {}
  <2>1. r \notin Polled  BY <1>6 DEF Polled
  <2> QED BY <1>2, <2>1 DEF ReadsOf
<1>7. ASSUME NEW i \in DOMAIN plan
      PROVE  /\ plan[i].first .. plan[i].last = UNION {Span(r) : r \in plan[i].regs}
             /\ prog # "web" => Len(Words(plan[i])) <= MaxWords
  <2> DEFINE b == plan[i]
  <2>1. /\ b.first \in Int /\ b.last \in Int /\ b.first <= b.last
        /\ \A r \in b.regs : b.first <= r.mb /\ Last1(r) <= b.last
        /\ \A a \in b.first .. b.last : \E r \in b.regs : a \in Span(r)
        /\ prog # "web" => b.last - b.first + 1 <= MaxWords
    BY <1>3 DEF Covers
  <2>2. \A r \in b.regs : r.mb \in Int /\ Last1(r) \in Int  BY <1>3, <1>4
  <2> HIDE DEF b
  <2>3. \A r \in b.regs : \A a \in Span(r) : a \in b.first .. b.last
    <3> TAKE r \in b.regs
    <3> TAKE a \in Span(r)
    <3>1. a \in Int /\ r.mb <= a /\ a <= Last1(r)  BY <2>2 DEF Span
    <3> QED BY <2>1, <2>2, <3>1
  <2>4. b.first .. b.last = UNION {Span(r) : r \in b.regs}  BY <2>1, <2>3
  <2>5. Len(Words(b)) = b.last - b.first + 1
    <3>1. PICK z \in Nat : z = b.last - b.first + 1  BY <2>1
    <3>2. Words(b) = [m \in 1 .. z |-> <<b.func, b.first + m - 1>>]  BY <3>1 DEF Words
    <3> QED BY <3>1, <3>2
  <2> QED BY <2>1, <2>4, <2>5 DEF b
<1>8. PlanExact  BY <1>5, <1>6, <1>7 DEF PlanExact
<1>9. EveryoneServed
  <2>1. ASSUME phase = "end", prog # "server", NEW r \in wanted, NEW i \in ReadsOf(r)
        PROVE  Touched(i) \/ shown[r.id] = RightValue(r)
    <3>1. i \in DOMAIN plan /\ r \in plan[i].regs  BY DEF ReadsOf
    <3> QED BY <1>1, <2>1, <3>1 DEF AllServed, ReadServed
  <2> QED BY <1>1, <2>1 DEF EveryoneServed, NeverWrong
<1> QED BY <1>8, <1>9 DEF ReadingsAreRight

\* The invariant of a reading holds, ...
THEOREM PollIsInductive == PollSpec => []PollIInv
<1>1. PollInit => PollIInv  BY PollStarts
<1>2. PollIInv /\ [PollNext]_pollVars => PollIInv'
  <2> SUFFICES ASSUME PollIInv, [PollNext]_pollVars PROVE PollIInv'  OBVIOUS
  <2>1. CASE Plan  BY <2>1, PollPlans
  <2>2. CASE Reply
    <3>1. phase = "talk"  BY <2>2 DEF Reply
    <3>2. prog \in {"web", "window", "table"}
      BY <3>1, PollAssumption DEF PollIInv, ReadingOK, TalkOK
    <3> QED BY <2>2, <3>2, WebReplies, WindowReplies, TableReplies
  <2>3. CASE Lose  BY <2>3, PollLoses
  <2>4. CASE Fallback  BY <2>4, PollFallsBack
  <2>5. CASE UNCHANGED pollVars  BY <2>5, PollStutters
  <2> QED BY <2>1, <2>2, <2>3, <2>4, <2>5 DEF PollNext
<1> QED BY <1>1, <1>2, PTL DEF PollSpec

\* ... and so a reading is right from the plan to the screen, for every set of
\* registers, every limit of words and of reads to a packet, and every loss.
THEOREM ReadingsRight == PollSpec => []ReadingsAreRight
<1>1. PollIInv => ReadingsAreRight  BY PollIsRight
<1> QED BY <1>1, PollIsInductive, PTL
=============================================================================
