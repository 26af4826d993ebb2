------------------------------- MODULE Stats -------------------------------
(* The statistics of the server (src/src/stats.c): a tree of entries, one   *)
(* for a mountpoint, each with its own tree of stats behind its own lock;   *)
(* the handles the sources, the directory thread and the configuration keep *)
(* on the entries; and the watchers, the clients a STATS request turns into *)
(* a feed of every change.  A watcher enters the list of those told, copies *)
(* the trees a lock at a time, and puts the copy before what came in since. *)
(* One stat stands for those of an entry and one for the global ones that   *)
(* are reported at intervals.  What a watcher was sent is kept as what it   *)
(* shows once it has read it all.  The flags of a single stat, the wording  *)
(* and the blocks of the queue are left out.                                *)
EXTENDS Naturals, FiniteSets

CONSTANTS Mounts, Values, Watchers, Entries, NoEntry,
          OffWorker,      \* whether an auth handler may register one: it has no worker yet
          Statics,        \* the mounts whose mount_type keeps them listed without a source
          StaticSources,  \* whether a source may be on one of those
          Yp,             \* the directory thread
          NoValue, Absent, Keep, New

VARIABLES entry, hold, watch, global_stat, aborted
statsVars == <<entry, hold, watch, global_stat, aborted>>

Actors == Mounts \cup {Yp}
Shown  == Values \cup {NoValue, Absent}
NoStats == [mount |-> NoEntry, where |-> "free", hidden |-> TRUE, val |-> NoValue,
            updated |-> "old", owner |-> NoEntry]
OffWatch == [at |-> "off", view |-> [m \in Mounts |-> Absent], pend |-> [m \in Mounts |-> Keep],
             todo |-> {}, glob |-> NoValue, gpend |-> Keep,
             admin |-> FALSE, deaf |-> FALSE, error |-> FALSE]

Init ==
    /\ entry = [e \in Entries |-> NoStats]
    /\ hold = [a \in Actors |-> [at |-> "out", on |-> NoEntry]]
    /\ watch = [w \in Watchers |-> OffWatch]
    /\ global_stat \in [val : Values \cup {NoValue}, due : {FALSE}]
    /\ aborted = FALSE

InTree(m) == {e \in Entries : entry[e].where = "tree" /\ entry[e].mount = m}
(* The source tree is read locked while a watcher copies it *)
Copying == \E w \in Watchers : watch[w].at = "copies"

(* stats_listener_send: those in the list and interested have the line      *)
(* appended; a client without a worker is passed over                       *)
Told(hidden) == {w \in Watchers :
    /\ watch[w].at \in {"listed", "copies", "on"}
    /\ watch[w].admin \/ ~hidden
    /\ ~watch[w].error
    /\ watch[w].at = "on" \/ ~watch[w].deaf}
After(x, line) == IF line # New THEN line
                  ELSE IF x = Keep THEN New ELSE IF x = Absent THEN NoValue ELSE x
Line(w, m, line) ==
    IF watch[w].at = "on" THEN [watch[w] EXCEPT !.view[m] = After(@, line)]
    ELSE [watch[w] EXCEPT !.pend[m] = After(@, line)]
Send(hidden, m, line) ==
    watch' = [w \in Watchers |-> IF w \in Told(hidden) THEN Line(w, m, line) ELSE watch[w]]

(* stats_handle: the entry of the mount, made if it has none, locked with   *)
(* the source tree and never to be purged                                   *)
Handle(a, m) ==
    \E e \in Entries :
        /\ IF InTree(m) # {} THEN e \in InTree(m) /\ entry[e].owner = NoEntry
           ELSE entry[e].where = "free" /\ ~Copying
        /\ entry' = [entry EXCEPT ![e].mount = m, ![e].where = "tree",
                                  ![e].owner = a, ![e].updated = "kept"]
        /\ hold' = [hold EXCEPT ![a] = [at |-> "locked", on |-> e]]
        /\ UNCHANGED <<watch, global_stat, aborted>>

Starts(m) == /\ hold[m].at = "out"
             /\ m \in Statics => StaticSources
             /\ hold' = [hold EXCEPT ![m].at = "none"]
             /\ UNCHANGED <<entry, watch, global_stat, aborted>>
TakesHandle(m) == hold[m].at = "none" /\ Handle(m, m)
Locks(m) == /\ hold[m].at = "kept"
            /\ entry[hold[m].on].owner = NoEntry
            /\ entry' = [entry EXCEPT ![hold[m].on].owner = m]
            /\ hold' = [hold EXCEPT ![m].at = "locked"]
            /\ UNCHANGED <<watch, global_stat, aborted>>
Releases(m) == /\ hold[m].at = "locked"
               /\ entry' = [entry EXCEPT ![hold[m].on].owner = NoEntry]
               /\ hold' = [hold EXCEPT ![m].at = "kept"]
               /\ UNCHANGED <<watch, global_stat, aborted>>

(* process_source_stat under the lock of the entry: a stat is set or        *)
(* removed, or the entry is hidden or shown with all it has                 *)
SetStat(m) ==
    /\ hold[m].at = "locked"
    /\ \E v \in Values \cup {NoValue} :
        LET e == hold[m].on IN
        /\ entry' = [entry EXCEPT ![e].val = v]
        /\ IF v = NoValue /\ entry[e].val = NoValue THEN UNCHANGED watch
           ELSE Send(entry[e].hidden, m, v)
    /\ UNCHANGED <<hold, global_stat, aborted>>
Hides(m) ==
    /\ hold[m].at = "locked"
    /\ LET e == hold[m].on  h == entry[hold[m].on].hidden IN
       /\ entry' = [entry EXCEPT ![e].hidden = ~h]
       /\ watch' = [w \in Watchers |->
            IF w \notin Told(FALSE) THEN watch[w]
            ELSE IF ~h THEN Line(w, m, Absent)
            ELSE IF entry[e].val = NoValue THEN Line(w, m, New)
            ELSE Line(w, m, entry[e].val)]
    /\ UNCHANGED <<hold, global_stat, aborted>>
(* stats_flush takes the lock itself *)
Flush(m) ==
    /\ hold[m].at = "kept" /\ entry[hold[m].on].owner = NoEntry
    /\ entry' = [entry EXCEPT ![hold[m].on].val = NoValue]
    /\ Send(entry[hold[m].on].hidden, m, NoValue)
    /\ UNCHANGED <<hold, global_stat, aborted>>

(* stats_set without a name: the lock of the entry is given up for that of  *)
(* the tree, the entry leaves the tree, and is freed, which tells everyone  *)
GivesUpLock(m) ==
    /\ hold[m].at = "locked" /\ m \notin Statics
    /\ entry' = [entry EXCEPT ![hold[m].on].owner = NoEntry]
    /\ hold' = [hold EXCEPT ![m].at = "gap"]
    /\ UNCHANGED <<watch, global_stat, aborted>>
LeavesTree(m) ==
    /\ hold[m].at = "gap" /\ ~Copying
    /\ entry' = [entry EXCEPT ![hold[m].on].where = "cut"]
    /\ hold' = [hold EXCEPT ![m].at = "cut"]
    /\ UNCHANGED <<watch, global_stat, aborted>>
FreesStats(m) ==
    /\ hold[m].at = "cut"
    /\ Send(entry[hold[m].on].hidden, m, Absent)
    /\ entry' = [entry EXCEPT ![hold[m].on] = NoStats]
    /\ \E at \in {"none", "out"} : hold' = [hold EXCEPT ![m] = [at |-> at, on |-> NoEntry]]
    /\ UNCHANGED <<global_stat, aborted>>
(* drop_source_from_tree on a static mount: stats_lock, then stats_flush,   *)
(* whose second write lock is refused, and thread_rwlock_wlock_c aborts     *)
DropsStatic(m) ==
    /\ hold[m].at = "kept" /\ m \in Statics
    /\ entry[hold[m].on].owner = NoEntry
    /\ aborted' = TRUE
    /\ UNCHANGED <<entry, hold, watch, global_stat>>

(* do_yp_add and do_yp_touch read under the handle of the mount             *)
YpHandle == /\ hold[Yp].at = "out"
            /\ \E m \in Mounts : hold[m].at \notin {"out", "gap", "cut"} /\ Handle(Yp, m)
YpReads == /\ hold[Yp].at = "locked"
           /\ entry' = [entry EXCEPT ![hold[Yp].on].owner = NoEntry]
           /\ hold' = [hold EXCEPT ![Yp] = [at |-> "out", on |-> NoEntry]]
           /\ UNCHANGED <<watch, global_stat, aborted>>

(* process_source_event: an admin's change through the tree, which makes a  *)
(* hidden entry if there is none                                            *)
Event(m) ==
    \E e \in Entries, v \in Values :
        /\ IF InTree(m) # {} THEN e \in InTree(m) /\ entry[e].owner = NoEntry
           ELSE entry[e].where = "free" /\ ~Copying
        /\ entry' = [entry EXCEPT ![e].mount = m, ![e].where = "tree", ![e].val = v]
        /\ Send(entry[e].hidden, m, v)
        /\ UNCHANGED <<hold, global_stat, aborted>>

(* source_recheck_mounts: a mount without a source whose fallback can be    *)
(* used is shown until the next time; stats_purge drops those out of date   *)
Refresh(m) ==
    /\ hold[m].at = "out"
    /\ \E e \in Entries :
        /\ IF InTree(m) # {} THEN e \in InTree(m) /\ entry[e].owner = NoEntry
           ELSE entry[e].where = "free" /\ ~Copying
        /\ \E v \in Values :
            /\ entry' = [entry EXCEPT ![e].mount = m, ![e].where = "tree", ![e].val = v,
                                      ![e].updated = "mark", ![e].hidden = FALSE]
            /\ Send(FALSE, m, v)
    /\ UNCHANGED <<hold, global_stat, aborted>>
Purge(e) ==
    /\ entry[e].where = "tree" /\ entry[e].updated # "kept"
    /\ entry[e].owner = NoEntry /\ ~Copying
    /\ IF entry[e].updated = "mark"
       THEN entry' = [entry EXCEPT ![e].updated = "old"] /\ UNCHANGED watch
       ELSE /\ Send(entry[e].hidden, entry[e].mount, Absent)
            /\ entry' = [entry EXCEPT ![e] = NoStats]
    /\ UNCHANGED <<hold, global_stat, aborted>>
(* source_init_static_mount_stats *)
StaticInit(m) ==
    /\ m \in Statics /\ hold[m].at = "out"
    /\ \E e \in Entries, v \in Values :
        /\ IF InTree(m) # {} THEN e \in InTree(m) /\ entry[e].owner = NoEntry
           ELSE entry[e].where = "free" /\ ~Copying
        /\ entry' = [entry EXCEPT ![e].mount = m, ![e].where = "tree", ![e].val = v,
                                  ![e].updated = "kept", ![e].hidden = FALSE]
        /\ Send(FALSE, m, v)
    /\ UNCHANGED <<hold, global_stat, aborted>>

(* modify_node_event on a stat with STATS_REGULAR only marks it; it is sent *)
(* by stats_global_calc                                                     *)
GlobalChanges ==
    /\ \E v \in (Values \cup {NoValue}) \ {global_stat.val} : global_stat' = [val |-> v, due |-> TRUE]
    /\ UNCHANGED <<entry, hold, watch, aborted>>
GlobalCalc ==
    /\ global_stat.due
    /\ global_stat' = [global_stat EXCEPT !.due = FALSE]
    /\ watch' = [w \in Watchers |->
         IF w \notin Told(FALSE) THEN watch[w]
         ELSE IF watch[w].at = "on" THEN [watch[w] EXCEPT !.glob = global_stat.val]
         ELSE [watch[w] EXCEPT !.gpend = global_stat.val]]
    /\ UNCHANGED <<entry, hold, aborted>>

(* stats_add_listener and _register_listener: into the list; the global     *)
(* stats; then, with the source tree locked, the names, the stats of each   *)
(* entry under its lock, and the copy is put before what came in            *)
Registers(w) ==
    /\ watch[w].at = "off"
    /\ \E admin, deaf \in BOOLEAN :
        /\ deaf => OffWorker /\ ~admin
        /\ watch' = [watch EXCEPT ![w].at = "listed", ![w].admin = admin, ![w].deaf = deaf]
    /\ UNCHANGED <<entry, hold, global_stat, aborted>>
CopiesNames(w) ==
    /\ watch[w].at = "listed"
    /\ watch' = [watch EXCEPT ![w].at = "copies", ![w].glob = global_stat.val,
                   ![w].view = [m \in Mounts |-> IF InTree(m) # {} THEN NoValue ELSE Absent],
                   ![w].todo = {e \in Entries : entry[e].where = "tree"}]
    /\ UNCHANGED <<entry, hold, global_stat, aborted>>
CopiesStats(w) ==
    /\ watch[w].at = "copies"
    /\ \E e \in watch[w].todo :
        /\ entry[e].owner = NoEntry
        /\ watch' = [watch EXCEPT ![w].todo = @ \ {e},
               ![w].view[entry[e].mount] = IF entry[e].val = NoValue THEN @ ELSE entry[e].val]
    /\ UNCHANGED <<entry, hold, global_stat, aborted>>
(* A fault: what was queued for the listener meanwhile is dropped when its  *)
(* copy is queued                                                           *)
JoinsQueue_DropsPending(w) ==
    /\ watch[w].at = "copies" /\ watch[w].todo = {}
    /\ watch' = [watch EXCEPT ![w].at = "on",
                   ![w].pend = [m \in Mounts |-> Keep], ![w].gpend = Keep]
    /\ UNCHANGED <<entry, hold, global_stat, aborted>>

JoinsQueue(w) ==
    /\ watch[w].at = "copies" /\ watch[w].todo = {}
    /\ LET f(x, p) == IF p = Keep THEN x ELSE After(x, p) IN
       watch' = [watch EXCEPT ![w].at = "on",
                   ![w].view = [m \in Mounts |-> f(@[m], watch[w].pend[m])],
                   ![w].glob = f(@, watch[w].gpend),
                   ![w].pend = [m \in Mounts |-> Keep], ![w].gpend = Keep]
    /\ UNCHANGED <<entry, hold, global_stat, aborted>>
(* A queue that has grown too long flags the client, which is then released *)
TooLong(w) == /\ watch[w].at = "on" /\ ~watch[w].error
              /\ watch' = [watch EXCEPT ![w].error = TRUE]
              /\ UNCHANGED <<entry, hold, global_stat, aborted>>
WatchEnds(w) == /\ watch[w].at = "on"
                /\ watch' = [watch EXCEPT ![w] = OffWatch]
                /\ UNCHANGED <<entry, hold, global_stat, aborted>>

WatcherStep(w) == \/ Registers(w) \/ CopiesNames(w) \/ CopiesStats(w) \/ JoinsQueue(w)
                  \/ TooLong(w) \/ WatchEnds(w)
OwnerStep(m) == \/ Starts(m) \/ TakesHandle(m) \/ Locks(m) \/ Releases(m) \/ SetStat(m)
                \/ Hides(m) \/ Flush(m) \/ GivesUpLock(m) \/ LeavesTree(m) \/ FreesStats(m)
                \/ DropsStatic(m)
Next == /\ ~aborted
        /\ \/ \E m \in Mounts : OwnerStep(m) \/ Event(m) \/ Refresh(m) \/ StaticInit(m)
           \/ YpHandle \/ YpReads \/ GlobalChanges \/ GlobalCalc
           \/ \E e \in Entries : Purge(e)
           \/ \E w \in Watchers : WatcherStep(w)
Spec == Init /\ [][Next]_statsVars

----------------------------------------------------------------------------
(* Entries, handles and watchers are well typed *)
TypeOK ==
    /\ entry \in [Entries -> [mount : Mounts \cup {NoEntry}, where : {"free", "tree", "cut"},
                              hidden : BOOLEAN, val : Values \cup {NoValue},
                              updated : {"kept", "mark", "old"}, owner : Actors \cup {NoEntry}]]
    /\ hold \in [Actors -> [at : {"out", "none", "locked", "kept", "gap", "cut"},
                            on : Entries \cup {NoEntry}]]
    /\ watch \in [Watchers -> [at : {"off", "listed", "copies", "on"},
                    view : [Mounts -> Shown], pend : [Mounts -> Shown \cup {Keep, New}],
                    todo : SUBSET Entries, glob : Values \cup {NoValue},
                    gpend : Values \cup {NoValue, Keep}, admin : BOOLEAN, deaf : BOOLEAN,
                    error : BOOLEAN]]
    /\ global_stat \in [val : Values \cup {NoValue}, due : BOOLEAN]
    /\ aborted \in BOOLEAN

(* A handle is on an entry that is still in the tree under the mount it was *)
(* taken for, the only one there, whatever the purge, the directory thread  *)
(* and the sources before it did                                            *)
HandlesLive ==
    /\ \A m \in Mounts : Cardinality(InTree(m)) <= 1
    /\ \A m \in Mounts : hold[m].at \in {"locked", "kept", "gap"} => hold[m].on \in InTree(m)
    /\ \A a \in Actors : hold[a].at = "locked" =>
          entry[hold[a].on].owner = a /\ entry[hold[a].on].where = "tree"

(* Whatever changed while a watcher was being set up, what it was sent adds *)
(* up to the stats as they are, once an entry taken out has been freed: the *)
(* mounts shown with their values, and for an admin no mount that is gone   *)
FeedAddsUp ==
    \A w \in Watchers : watch[w].at = "on" /\ ~watch[w].error =>
        /\ ~global_stat.due => watch[w].glob = global_stat.val
        /\ \A m \in Mounts : hold[m].at # "cut" =>
             /\ \A e \in InTree(m) :
                  ~entry[e].hidden /\ (entry[e].val # NoValue \/ watch[w].admin)
                      => watch[w].view[m] = entry[e].val
             /\ InTree(m) = {} /\ watch[w].admin => watch[w].view[m] = Absent

(* "Static mount: flush live-source dynamic stats, re-populate from config  *)
(* so the mount stays visible in stats without a source" (source.c:460):    *)
(* the server survives the end of such a source                             *)
StaticStaysVisible == ~aborted
=============================================================================
