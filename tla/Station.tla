------------------------------ MODULE Station ------------------------------
(***************************************************************************)
(* The desktop operator station (ss5), control points: the list read at    *)
(* start and by "reload all", the row selected, and the four forms over it *)
(* - the quick fields of the tool bar, the full editor, the editor of the  *)
(* group mask and the window for ranges.  One egui thread calls the        *)
(* database and waits.  The forms are filled from the list, and every save *)
(* patches the list; other stations and the configurator write the same    *)
(* table.                                                                  *)
(*                                                                         *)
(* A value is known by the row it was read from or typed for (`of`) and a  *)
(* number; `by` is kept for the properties: who stored it last.  `meta` is *)
(* start, t_a and t_script, `rest` the other columns but the mask.         *)
(***************************************************************************)
EXTENDS Integers, FiniteSets, FiniteSetsExt, SequencesExt

CONSTANTS
    KpzIds,       \* ids of the table kpz, those not yet in use included
    FirstIds,     \* the ids in use at the start
    Grups,        \* groups of registers
    Habits,       \* "regroup": another row is selected or made under an open group editor
    MaxUses,      \* bound: steps of the user
    MaxOthers,    \* bound: writes of other programs
    MaxFails      \* bound: database calls that fail

ASSUME StationIds == KpzIds \subseteq Nat \ {0} /\ FirstIds \subseteq KpzIds /\ FirstIds # {}
ASSUME StationBounds == {MaxUses, MaxOthers, MaxFails} \subseteq Nat

VARIABLES
    kpz,          \* the table
    desk,         \* the program: the list, the row selected, the forms
    uses, others, fails

stationVars == <<kpz, desk, uses, others, fails>>

-----------------------------------------------------------------------------
Val(id, n) == [of |-> id, n |-> n, by |-> "me"]
Mask(id, s) == [of |-> id, set |-> s, by |-> "me"]
Blank == Val(0, 0)
Mine(v) == [v EXCEPT !.by = "me"]
Same(v, w) == v.of = w.of /\ v.n = w.n

\* A table or list with the row of one id written or inserted.
With(t, id, v) == [i \in DOMAIN t \cup {id} |-> IF i = id THEN v ELSE t[i]]

\* What is typed differs from what was read at the start.
Fresh(id) == Val(id, uses + 2)

\* create_kpz_new, and the rows upsert_test_kpz_range inserts.
NewRow(id) == [meta |-> Val(id, 0), rest |-> Fresh(id), mask |-> Mask(id, {})]

Listed(d) == d.sel \in DOMAIN d.list

sync_kpz_editor_from_selected(d) ==
    [d EXCEPT !.quick = IF Listed(d) THEN d.list[d.sel].meta ELSE Blank]

\* Mutant: the full editor is left as it was when another row is selected.
FullLeftAsIs(d) == d

sync_kpz_full_editor_from_selected(d) ==
    [d EXCEPT !.full = IF Listed(d) THEN [meta |-> d.list[d.sel].meta, rest |-> d.list[d.sel].rest]
                       ELSE [meta |-> Blank, rest |-> Blank]]

Filled(d) == sync_kpz_full_editor_from_selected(sync_kpz_editor_from_selected(d))

\* A row once selected stays selected.
reload_all(d, t) ==
    Filled([d EXCEPT !.list = t, !.sel = IF @ = 0 THEN Min(DOMAIN t) ELSE @])

selected_enabled_groups(d) == IF Listed(d) THEN d.list[d.sel].mask ELSE Mask(d.sel, {})

-----------------------------------------------------------------------------
(* Saving.                                                                 *)

Unsaved(d) == Listed(d) /\ ~Same(d.quick, d.list[d.sel].meta)

QuickStored(t, d) == IF Unsaved(d) THEN [t EXCEPT ![d.sel].meta = Mine(d.quick)] ELSE t

\* Mutant: the list does not learn what the quick fields have stored.
QuickUnlisted(d) == d

QuickListed(d) == IF Unsaved(d) THEN [d EXCEPT !.list[d.sel].meta = Mine(d.quick)] ELSE d

Dirty(d) == Listed(d) /\ \E f \in {"meta", "rest"} : ~Same(d.full[f], d.list[d.sel][f])

FullStored(t, d) == [t EXCEPT ![d.sel].meta = Mine(d.full.meta), ![d.sel].rest = Mine(d.full.rest)]

-----------------------------------------------------------------------------
Use ==
    /\ uses < MaxUses
    /\ uses' = uses + 1

Call(ok) ==
    IF ok THEN UNCHANGED fails ELSE fails < MaxFails /\ fails' = fails + 1

Screen(d) == Use /\ desk' = d /\ UNCHANGED <<kpz, others, fails>>

\* The quick edits go to the row they were typed for before another is shown;
\* if they cannot be stored, the selection stays.
SelectRow(k) ==
    /\ Use /\ k \in DOMAIN desk.list \ {desk.sel}
    /\ desk.groups.open => "regroup" \in Habits
    /\ \E ok \in BOOLEAN :
          /\ Call(ok) /\ (~ok => Unsaved(desk))
          /\ kpz' = IF ok THEN QuickStored(kpz, desk) ELSE kpz
          /\ desk' = IF ok THEN Filled([QuickListed(desk) EXCEPT !.sel = k]) ELSE desk
    /\ UNCHANGED others

SaveQuick ==
    /\ Use /\ Unsaved(desk)
    /\ \E ok \in BOOLEAN :
          /\ Call(ok)
          /\ kpz' = IF ok THEN QuickStored(kpz, desk) ELSE kpz
          /\ desk' = IF ok THEN QuickListed(desk) ELSE desk
    /\ UNCHANGED others

\* Typing changes some of the fields: the value stays that of the row it came from.
Edited(v) == [v EXCEPT !.n = uses + 2, !.by = "me"]

TypeQuick == Screen([desk EXCEPT !.quick = Edited(@)])

TypeFull == \E f \in {"meta", "rest"} : Screen([desk EXCEPT !.full[f] = Edited(@)])

\* "Редактор KPZ" and "Обновить".
OpenFull == Screen(sync_kpz_full_editor_from_selected(desk))

SaveFull ==
    /\ Use /\ Dirty(desk)
    /\ \E ok \in BOOLEAN :
          /\ Call(ok)
          /\ kpz' = IF ok THEN FullStored(kpz, desk) ELSE kpz
          /\ desk' = IF ok THEN [desk EXCEPT !.list = FullStored(@, desk), !.quick = desk.full.meta]
                     ELSE desk
    /\ UNCHANGED others

\* The list is not read again: the forms stay empty until it is.
CreateRow(id) ==
    /\ Use /\ id \notin DOMAIN kpz
    /\ desk.groups.open => "regroup" \in Habits
    /\ kpz' = With(kpz, id, NewRow(id))
    /\ desk' = Filled([desk EXCEPT !.sel = id])
    /\ UNCHANGED <<others, fails>>

ReloadAll ==
    /\ Use
    /\ \E ok \in BOOLEAN :
          Call(ok) /\ desk' = IF ok THEN reload_all(desk, kpz) ELSE desk
    /\ UNCHANGED <<kpz, others>>

-----------------------------------------------------------------------------
(* The editor of the group mask: filled when opened, and not again.        *)

OpenGroups ==
    Screen([desk EXCEPT !.groups = [open |-> TRUE, dirty |-> FALSE,
                                    mask |-> selected_enabled_groups(desk)]])

MarkGroups ==
    /\ desk.groups.open
    /\ \/ \E g \in Grups :
             Screen([desk EXCEPT !.groups.mask.set = SymDiff(@, {g}), !.groups.dirty = TRUE])
       \/ \E s \in {Grups, {}} :
             Screen([desk EXCEPT !.groups.mask = Mask(desk.sel, s), !.groups.dirty = TRUE])

update_kpz_grups(t, id, m) == [t EXCEPT ![id].mask = m]

\* Mutant: the list keeps the mask it had.
GroupsUnlisted ==
    /\ Use /\ desk.groups.open /\ desk.groups.dirty
    /\ kpz' = update_kpz_grups(kpz, desk.sel, Mine(desk.groups.mask))
    /\ desk' = [desk EXCEPT !.groups.dirty = FALSE]
    /\ UNCHANGED <<others, fails>>

SaveGroups ==
    /\ Use /\ desk.groups.open /\ desk.groups.dirty
    /\ \E ok \in BOOLEAN :
          /\ Call(ok)
          /\ LET m == Mine(desk.groups.mask)
             IN IF ok
                THEN /\ kpz' = update_kpz_grups(kpz, desk.sel, m)
                     /\ desk' = [desk EXCEPT !.groups.dirty = FALSE,
                                             !.list = IF Listed(desk) THEN update_kpz_grups(@, desk.sel, m)
                                                      ELSE @]
                ELSE UNCHANGED <<kpz, desk>>
    /\ UNCHANGED others

CloseGroups == desk.groups.open /\ Screen([desk EXCEPT !.groups.open = FALSE])

-----------------------------------------------------------------------------
(* The window for ranges.                                                  *)

Ranges == {a .. b : a \in KpzIds, b \in KpzIds} \ {{}}

\* One statement of the database, then "reload all", which may fail: what was
\* written is then on no screen.
ThenReload(ids, t) ==
    \E ok \in BOOLEAN :
       /\ Call(ok)
       /\ kpz' = IF ok THEN t
                 ELSE [id \in DOMAIN t |->
                         IF id \in ids THEN [t[id] EXCEPT !.meta.by = "unread", !.rest.by = "unread"]
                         ELSE t[id]]
       /\ desk' = IF ok THEN reload_all(desk, t) ELSE desk

\* Rows in use keep their mask and their start, t_a and t_script.
upsert_test_kpz_range(t, ids) ==
    [id \in DOMAIN t \cup ids |-> IF id \notin DOMAIN t THEN NewRow(id)
                                  ELSE IF id \in ids THEN [t[id] EXCEPT !.rest = Fresh(id)]
                                  ELSE t[id]]

\* set_kpz_start_range and set_kpz_timing_range: rows in use only.
set_kpz_timing_range(t, ids) ==
    [id \in DOMAIN t |-> IF id \in ids THEN [t[id] EXCEPT !.meta = Fresh(id)] ELSE t[id]]

create_or_update_range_kpz(ids) ==
    Use /\ ThenReload(ids, upsert_test_kpz_range(kpz, ids)) /\ UNCHANGED others

\* apply_range_kpz_start and apply_range_kpz_timing.
ApplyMeta(ids) ==
    Use /\ ThenReload(ids, set_kpz_timing_range(kpz, ids)) /\ UNCHANGED others

Shifted(m, s, on) == [m EXCEPT !.set = IF on THEN @ \cup s ELSE @ \ s, !.by = "me"]

\* Mutant: every row of the range gets the mask of the row selected.
OneMaskForAll(d, ids, s, on) ==
    [id \in ids \cap DOMAIN d.list |-> Shifted(selected_enabled_groups(d), s, on)]

\* The new masks, from the list: rows whose mask would not change are left out.
GroupUpdates(d, ids, s, on) ==
    [id \in {i \in ids \cap DOMAIN d.list : Shifted(d.list[i].mask, s, on).set # d.list[i].mask.set}
        |-> Shifted(d.list[id].mask, s, on)]

\* Row by row; after a failure the first ones are stored, and the list knows of none.
ApplyGroups(ids, s, on) ==
    LET new == GroupUpdates(desk, ids, s, on)
        Put(t, some) == [id \in DOMAIN t |-> IF id \in some THEN [t[id] EXCEPT !.mask = new[id]]
                                             ELSE t[id]]
    IN /\ Use /\ s # {}
       /\ \/ /\ kpz' = Put(kpz, DOMAIN new)
             /\ desk' = [desk EXCEPT !.list = Put(@, DOMAIN new)]
             /\ UNCHANGED fails
          \/ \E i \in DOMAIN new :
                LET done == {j \in DOMAIN new : j < i}
                IN /\ Call(FALSE)
                   /\ kpz' = [id \in DOMAIN kpz |->
                                IF id \in done THEN [kpz[id] EXCEPT !.mask = [new[id] EXCEPT !.by = "unread"]]
                                ELSE kpz[id]]
                   /\ UNCHANGED desk
       /\ UNCHANGED others

-----------------------------------------------------------------------------
(* Another station or the configurator writes a row.                       *)
OthersWrite ==
    /\ others < MaxOthers /\ others' = others + 1
    /\ \E id \in DOMAIN kpz :
          \/ \E f \in {"meta", "rest"} :
                kpz' = [kpz EXCEPT ![id][f] = [of |-> id, n |-> 1000, by |-> "other"]]
          \/ \E g \in Grups :
                kpz' = [kpz EXCEPT ![id].mask = [of |-> id, set |-> SymDiff(@.set, {g}), by |-> "other"]]
    /\ UNCHANGED <<desk, uses, fails>>

StationInit ==
    /\ uses = 0 /\ others = 0 /\ fails = 0
    /\ kpz = [id \in FirstIds |-> [meta |-> Val(id, 1), rest |-> Val(id, 1),
                                   mask |-> Mask(id, IF id = Min(FirstIds) THEN {Min(Grups)} ELSE {})]]
    /\ desk = reload_all([sel |-> 0, list |-> <<>>, quick |-> Blank,
                          full |-> [meta |-> Blank, rest |-> Blank],
                          groups |-> [open |-> FALSE, dirty |-> FALSE, mask |-> Mask(0, {})]], kpz)

StationNext ==
    \/ \E k \in KpzIds : SelectRow(k) \/ CreateRow(k)
    \/ SaveQuick \/ TypeQuick \/ TypeFull \/ OpenFull \/ SaveFull \/ ReloadAll
    \/ OpenGroups \/ MarkGroups \/ SaveGroups \/ CloseGroups
    \/ \E ids \in Ranges :
          \/ create_or_update_range_kpz(ids)
          \/ ApplyMeta(ids)
          \/ \E g \in Grups, on \in BOOLEAN : ApplyGroups(ids, {g}, on)
    \/ OthersWrite

-----------------------------------------------------------------------------
(* What is stored in the row of a control point was read from it or typed  *)
(* for it, whatever was selected in between: the quick fields go to their  *)
(* own row before another is shown (app.rs:2262), the full editor and the  *)
(* masks of a range are each row's (kpz_editor.rs:88, range_kpz.rs:176).   *)
KpzRowsKeepTheirOwn ==
    \A id \in DOMAIN kpz : \A f \in DOMAIN kpz[id] : kpz[id][f].of = id

(* The list every form is filled from has what this station stored last,   *)
(* unless another program has written since or the list could not be read  *)
(* again: every save patches it (app.rs:1162, kpz_editor.rs:96,            *)
(* group_editor.rs:28, range_kpz.rs:189) or reads it again.                *)
KpzListIsCurrent ==
    \A id \in DOMAIN desk.list : \A f \in DOMAIN desk.list[id] :
       desk.list[id][f] = kpz[id][f] \/ kpz[id][f].by # "me"
=============================================================================
