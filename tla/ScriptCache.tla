---------------------------- MODULE ScriptCache ----------------------------
(***************************************************************************)
(* The script cache of ss4 (src/ss4/src/script_cache.rs): templates, the   *)
(* parsed texts of a group under its number and version, and plans, a      *)
(* template with the registers a KPZ binds its names to.  A worker is      *)
(* given a part of the cache, adds what it lacks and has it merged back;   *)
(* nothing is ever compared with the text itself.  Entries go when a KPZ   *)
(* is started, in a synchronisation, when no worker runs (DrainIsBarrier   *)
(* of Scheduler), and at no other time.                                    *)
(*                                                                         *)
(* A text stands for all of the row of a group but its version: sources,   *)
(* limits, and `en` ("off" is a script that is disabled, which is cached   *)
(* as such).  A set of bindings is a value, its signature that value.      *)
(***************************************************************************)
EXTENDS Integers, FiniteSets

CONSTANTS
    CacheKpz,     \* KPZ
    GroupsOf,     \* the groups of each
    Versions,     \* versions a script may be given
    Texts,        \* texts, "off" among them
    Bindings,     \* sets of bindings; "fallback" stands for the registers of the group
    MaxRowEdits   \* bound: edits of rows

CacheGroups == UNION {GroupsOf[k] : k \in CacheKpz}

ASSUME CacheConstants ==
    /\ GroupsOf \in [CacheKpz -> SUBSET CacheGroups]
    /\ "off" \in Texts /\ "fallback" \in Bindings /\ 1 \in Versions /\ MaxRowEdits \in Nat
    /\ \E t \in Texts : t # "off"

VARIABLES
    table,        \* g_script and script_binding in the database
    started,      \* KPZ whose start flag was raised since the last synchronisation
    shared,       \* the rows as the scheduler has them
    cache,        \* its cache
    copies,       \* the caches of the workers, by KPZ
    told,         \* history: the texts a group has had under a version since it was last parsed anew
    rowEdits      \* bound

cacheVars == <<table, started, shared, cache, copies, told, rowEdits>>

-----------------------------------------------------------------------------
Keys == CacheGroups \X Versions
Key(rs, g) == <<g, rs.script[g].ver>>

Fewer(f, S) == [x \in DOMAIN f \cap S |-> f[x]]
Put(f, x, v) == [y \in DOMAIN f \cup {x} |-> IF y = x THEN v ELSE f[y]]
NewCache == [templates |-> <<>>, plans |-> <<>>]

get_template(c, rs, g) ==
    IF Key(rs, g) \in DOMAIN c.templates THEN c.templates[Key(rs, g)] ELSE rs.script[g].text

\* Mutant: the signature of the bindings is left out.
UnsignedKey(rs, k, g) == <<k, Key(rs, g)>>

PlanKey(rs, k, g) == <<k, Key(rs, g), rs.bound[<<k, g>>]>>

\* A disabled script has no plan.
get_plan(c, rs, k, g) ==
    LET key == PlanKey(rs, k, g)
        t == get_template(c, rs, g)
    IN IF t # "off" /\ key \in DOMAIN c.plans THEN c.plans[key]
       ELSE [text |-> t, bound |-> rs.bound[<<k, g>>]]

Prepared(c, rs, k, g) ==
    LET t == get_template(c, rs, g)
    IN [templates |-> Put(c.templates, Key(rs, g), t),
        plans |-> IF t = "off" THEN c.plans ELSE Put(c.plans, PlanKey(rs, k, g), get_plan(c, rs, k, g))]

clone_for_worker(c, k) ==
    [templates |-> Fewer(c.templates, GroupsOf[k] \X Versions),
     plans |-> Fewer(c.plans, {key \in DOMAIN c.plans : key[1] = k /\ key[2][1] \in GroupsOf[k]})]

\* The worker's entries replace those there are.
Over(f, g) == [x \in DOMAIN f \cup DOMAIN g |-> IF x \in DOMAIN f THEN f[x] ELSE g[x]]
merge_from(c, w) == [templates |-> Over(w.templates, c.templates), plans |-> Over(w.plans, c.plans)]

\* For each of a set of KPZ.
invalidate_kpz(c, ks) == [c EXCEPT !.plans = Fewer(@, {key \in DOMAIN @ : key[1] \notin ks})]

\* Mutant: the plans of the group stay.
TemplatesOnly(c, gs) == [c EXCEPT !.templates = Fewer(@, {key \in DOMAIN @ : key[1] \notin gs})]

invalidate_groups(c, gs) ==
    [templates |-> Fewer(c.templates, {key \in DOMAIN c.templates : key[1] \notin gs}),
     plans |-> Fewer(c.plans, {key \in DOMAIN c.plans : key[2][1] \notin gs})]

\* Of the KPZ ks, one after the other: each also ends the plans of other KPZ on its groups.
on_kpz_start(c, ks) == invalidate_groups(invalidate_kpz(c, ks), UNION {GroupsOf[k] : k \in ks})

-----------------------------------------------------------------------------
CacheInit ==
    /\ table = [script |-> [g \in CacheGroups |-> [ver |-> 1, text |-> CHOOSE t \in Texts : t # "off"]],
                bound |-> [kg \in {kg \in CacheKpz \X CacheGroups : kg[2] \in GroupsOf[kg[1]]} |-> "fallback"]]
    /\ started = {} /\ shared = table /\ cache = NewCache /\ copies = <<>> /\ rowEdits = 0
    /\ told = [key \in Keys |-> IF key[2] = 1 THEN {table.script[key[1]].text} ELSE {}]

\* Operators edit texts and bindings, and raise the start flag of a KPZ.
EditRows ==
    /\ rowEdits < MaxRowEdits /\ rowEdits' = rowEdits + 1
    /\ \/ \E g \in CacheGroups, v \in Versions, t \in Texts :
             table' = [table EXCEPT !.script[g] = [ver |-> v, text |-> t]] /\ UNCHANGED started
       \/ \E kg \in DOMAIN table.bound, b \in Bindings :
             table' = [table EXCEPT !.bound[kg] = b] /\ UNCHANGED started
       \/ \E k \in CacheKpz : started' = started \cup {k} /\ UNCHANGED table
    /\ UNCHANGED <<shared, cache, copies, told>>

\* Bindings that cannot be read are taken as none.
reload_rows(read) == [table EXCEPT !.bound = IF read THEN @ ELSE [kg \in DOMAIN @ |-> "fallback"]]

\* The rows first, then the KPZ started.
SyncRows ==
    /\ copies = <<>>
    /\ \E read \in BOOLEAN : shared' = reload_rows(read)
    /\ LET reset == UNION {GroupsOf[k] : k \in started}
       IN /\ cache' = on_kpz_start(cache, started)
          /\ told' = [key \in Keys |-> (IF key[1] \in reset THEN {} ELSE told[key])
                                       \cup IF key = Key(table, key[1]) THEN {table.script[key[1]].text} ELSE {}]
    /\ started' = {}
    /\ UNCHANGED <<table, copies, rowEdits>>

StartWorker(k) ==
    /\ k \notin DOMAIN copies
    /\ copies' = Put(copies, k, clone_for_worker(cache, k))
    /\ UNCHANGED <<table, started, shared, cache, told, rowEdits>>

\* A script job prepares its groups, an alarm the group of its rule.
PrepareGroup(k, g) ==
    /\ k \in DOMAIN copies /\ g \in GroupsOf[k]
    /\ copies' = [copies EXCEPT ![k] = Prepared(@, shared, k, g)]
    /\ UNCHANGED <<table, started, shared, cache, told, rowEdits>>

\* A worker that panics takes its copy with it.
EndWorker(k, panics) ==
    /\ k \in DOMAIN copies
    /\ cache' = IF panics THEN cache ELSE merge_from(cache, copies[k])
    /\ copies' = Fewer(copies, CacheKpz \ {k})
    /\ UNCHANGED <<table, started, shared, told, rowEdits>>

CacheNext ==
    \/ EditRows \/ SyncRows
    \/ \E k \in CacheKpz :
          \/ StartWorker(k)
          \/ \E g \in CacheGroups : PrepareGroup(k, g)
          \/ \E panics \in BOOLEAN : EndWorker(k, panics)

CacheSpec == CacheInit /\ [][CacheNext]_cacheVars

-----------------------------------------------------------------------------
(* A worker that asks for the script of a group is given the text and the  *)
(* bindings of the row the scheduler holds, whoever cached them and when - *)
(* as long as the version has had one text since a KPZ of the group was    *)
(* last started (script_cache.rs:155-210, state_sync.rs:833-846).          *)
ServesTheRows ==
    \A k \in DOMAIN copies : \A g \in GroupsOf[k] :
       LET p == get_plan(copies[k], shared, k, g)
       IN /\ p.bound = shared.bound[<<k, g>>]
          /\ Cardinality(told[Key(shared, g)]) = 1 => p.text = shared.script[g].text
=============================================================================
