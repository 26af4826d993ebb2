--------------------------- MODULE MountSettings ---------------------------
(* How the settings of the configured mounts reach the sources that run     *)
(* (source_update_settings), at their start, when a client takes over, and  *)
(* when the slave thread rechecks them after a reload (slave.c              *)
(* _slave_thread, source.c source_recheck_mounts); which streams are given  *)
(* to the directory thread; and which mounts without a source are shown in  *)
(* the statistics, because a fallback of theirs runs.                       *)
(* A setting stands for those handled alike: kept for the source timeout,   *)
(* the queue, the minimum queue and the burst, which a mount that gives     *)
(* none leaves as they were; reset for the rate limit, the waits and the    *)
(* dump file, which every update sets.  Of the statistics of a mount only   *)
(* the entry is left, of the directory only what was asked of it.           *)
EXTENDS Integers, FiniteSets

CONSTANTS Mounts,
          Relays,     \* the mounts a relay feeds, the others have source clients
          Tables,     \* the mounts of the configurations: each a function to settings or None
          Files,      \* the files that can be fallen back to
          Fits,       \* the intro files that can be read and are of the stream's type
          Default,    \* what the configuration itself gives for kept
          Announced,  \* what a source says of being public: 0, 1 or None
          Overtakes,  \* whether a source may come before the last one of its mount is freed
          None, Hops  \* the mounts fallback_count looks at, one after the other

(* A mount of a configuration gives its settings, in the ranges that are    *)
(* parsed, and may name a mount or a file to fall back to.                  *)
ASSUME SettingsAssumption ==
  /\ Relays \subseteq Mounts /\ Mounts \cap Files = {} /\ None \notin Mounts \cup Files
  /\ Announced \subseteq {0, 1, None} /\ None \notin {-1, 0, 1}
  /\ Default \in Nat /\ Hops \in Nat
  /\ \A t \in Tables : DOMAIN t = Mounts /\ \A m \in Mounts : t[m] # None =>
       /\ t[m].kept \in Nat /\ t[m].reset \in Nat /\ t[m].hidden \in BOOLEAN
       /\ t[m].public \in {0, 1, None} /\ t[m].fallback \in Mounts \cup Files \cup {None}

VARIABLES conf, ondemand, source, gone, listed, stats, update, recheck, missed
settingsVars == <<conf, ondemand, source, gone, listed, stats, update, recheck, missed>>

NoSource == [at |-> "out", header |-> None, data |-> FALSE, kept |-> 0, reset |-> 0,
             public |-> 0, intro |-> None, preroll |-> None, stale |-> FALSE]
(* Whether the recheck has the source tree read locked *)
Walking == recheck.at \in {"sources", "mounts"}

SettingsInit ==
  /\ conf \in Tables
  /\ ondemand \in SUBSET Relays
  /\ source = [m \in Mounts |-> NoSource]
  /\ gone = {} /\ listed = {} /\ missed = {}
  /\ stats = [m \in Mounts |-> [updated |-> "none", hidden |-> FALSE]]
  /\ update = "all"
  /\ recheck = [at |-> "idle", todo |-> {}]

(* --- source_update_settings --------------------------------------------- *)
Given(m) == conf[m] # None
(* source_apply_mount: what the mount says, else the client, else as before *)
Public(m, s) == IF Given(m) /\ conf[m].public # None THEN conf[m].public
                ELSE IF s.header # None THEN s.header
                ELSE IF s.public > 0 THEN 1 ELSE 0
(* source_set_intro *)
Intro(m) == IF Given(m) /\ conf[m].intro \in Fits THEN conf[m].intro ELSE None
(* source_apply_preroll: a log that is open is not opened again *)
Preroll(m, s) == IF ~Given(m) \/ conf[m].preroll = None THEN None
                 ELSE IF s.preroll # None THEN s.preroll ELSE conf[m].preroll
Kept(m, s) == IF ~Given(m) THEN Default ELSE IF conf[m].kept = 0 THEN s.kept ELSE conf[m].kept
Reset(m) == IF Given(m) THEN conf[m].reset ELSE 0
Applied(m, s) ==
  [s EXCEPT !.kept = Kept(m, s), !.reset = Reset(m),
            !.public = Public(m, s), !.intro = IF s.data THEN Intro(m) ELSE None,
            !.preroll = Preroll(m, s), !.stale = FALSE]
UpdateSettings(m, s) ==
  /\ source' = [source EXCEPT ![m] = Applied(m, s)]
  /\ listed' = IF Public(m, s) = s.public THEN listed
               ELSE IF Public(m, s) = 1 THEN listed \cup {m} ELSE listed \ {m}
  /\ stats' = [stats EXCEPT ![m] = [updated |-> "kept", hidden |-> Given(m) /\ conf[m].hidden]]
(* slave_update_mounts *)
AsksRecheck == update' = IF update = "all" THEN "all" ELSE "mounts"

At(m, places) == source[m].at \in places
Moves(m, place) == source' = [source EXCEPT ![m].at = place]

(* --- Source clients ------------------------------------------------------ *)
(* source_reserve, of a relay as well                                       *)
Reserve(m) ==
  /\ At(m, {"out"}) /\ ~Walking /\ (Overtakes \/ m \notin gone)
  /\ \E h \in IF m \in Relays THEN {None} ELSE Announced :
       source' = [source EXCEPT ![m] = [NoSource EXCEPT !.at = "held", !.header = h]]
  /\ UNCHANGED <<conf, ondemand, gone, listed, stats, update, recheck, missed>>
(* source_client_response; a client of the old protocol runs at once        *)
Answer(m) ==
  /\ At(m, {"held"}) /\ m \notin Relays
  /\ \/ UpdateSettings(m, [source[m] EXCEPT !.at = "waits"]) /\ UNCHANGED update
     \/ UpdateSettings(m, [source[m] EXCEPT !.at = "runs"]) /\ AsksRecheck
  /\ UNCHANGED <<conf, ondemand, gone, recheck, missed>>
(* source_client_callback, once the response is sent: source_init           *)
HttpSent(m) ==
  /\ At(m, {"waits"}) /\ Moves(m, "runs") /\ AsksRecheck
  /\ UNCHANGED <<conf, ondemand, gone, listed, stats, recheck, missed>>
(* source_client_switch_wait *)
TakenOver(m) ==
  /\ At(m, {"runs"}) /\ m \notin Relays
  /\ \E h \in Announced : UpdateSettings(m, [source[m] EXCEPT !.header = h])
  /\ UNCHANGED <<conf, ondemand, gone, update, recheck, missed>>
(* source_add_queue_buffer: the type of the stream is known, or never told  *)
FirstBlock(m) ==
  /\ At(m, {"runs"}) /\ ~source[m].data
  /\ source' = [source EXCEPT ![m].data = TRUE,
                              ![m].intro = IF Intro(m) = None THEN @ ELSE Intro(m)]
  /\ UNCHANGED <<conf, ondemand, gone, listed, stats, update, recheck, missed>>
(* source_shutdown, or the response could not be sent                       *)
Ends(m) ==
  /\ At(m, {"waits", "runs"}) /\ Moves(m, "ends")
  /\ UNCHANGED <<conf, ondemand, gone, listed, stats, update, recheck, missed>>
(* drop_source_from_tree; the listeners may go on leaving after it          *)
Drop(m) ==
  /\ ~Walking
  /\ At(m, IF m \in Relays THEN {"closing"} ELSE {"ends"})
  /\ source' = [source EXCEPT ![m] = NoSource]
  /\ gone' = gone \cup {m}
  /\ stats' = [stats EXCEPT ![m].updated = IF m \in Relays THEN @ ELSE "none"]
  /\ missed' = IF m \in Relays THEN missed \cup {m} ELSE missed
  /\ UNCHANGED <<conf, ondemand, listed, update, recheck>>
Free_Untold(m) ==
  /\ m \in gone /\ gone' = gone \ {m} /\ listed' = listed \ {m}
  /\ UNCHANGED <<conf, ondemand, source, stats, update, recheck, missed>>
(* source_client_release, relay_release: _free_source                       *)
Free(m) ==
  /\ m \in gone /\ gone' = gone \ {m} /\ listed' = listed \ {m}
  /\ IF m \in Relays THEN UNCHANGED update ELSE AsksRecheck
  /\ UNCHANGED <<conf, ondemand, source, stats, recheck, missed>>
(* source_client_startup refuses the client: nobody is told of it           *)
Refused(m) ==
  /\ At(m, {"held"}) /\ ~Walking /\ m \notin Relays
  /\ source' = [source EXCEPT ![m] = NoSource]
  /\ listed' = listed \ {m} /\ missed' = missed \cup {m}
  /\ UNCHANGED <<conf, ondemand, gone, stats, update, recheck>>

(* --- Relays -------------------------------------------------------------- *)
(* relay_initialise: an on-demand relay is there for listeners to join      *)
Offers(m) ==
  /\ At(m, {"held", "stands", "again"}) /\ m \in ondemand
  /\ UpdateSettings(m, [source[m] EXCEPT !.at = "offered"]) /\ AsksRecheck
  /\ UNCHANGED <<conf, ondemand, gone, recheck, missed>>
(* start_relay_stream: source_init, which tells nobody of one on demand     *)
RelayStarts(m) ==
  /\ m \in Relays
  /\ At(m, IF m \in ondemand THEN {"offered"} ELSE {"held", "stands", "again"})
  /\ \E h \in Announced : UpdateSettings(m, [source[m] EXCEPT !.at = "runs", !.header = h])
  /\ IF m \in ondemand THEN missed' = Mounts /\ UNCHANGED update
     ELSE AsksRecheck /\ UNCHANGED missed
  /\ UNCHANGED <<conf, ondemand, gone, recheck>>
RelayFails(m) ==
  /\ At(m, {"held", "stands", "again"}) /\ m \in Relays \ ondemand
  /\ source' = [source EXCEPT ![m].at = "failed", ![m].public = -1]
  /\ listed' = listed \ {m}
  /\ UNCHANGED <<conf, ondemand, gone, stats, update, recheck, missed>>
(* relay_read, no longer running: tried again at once when it had a server, *)
(* the next of one on demand with nothing left of the last ...              *)
Cleared(s) == [s EXCEPT !.data = FALSE, !.reset = 0, !.intro = None, !.preroll = None]
StandsBy(m) ==
  /\ m \in Relays /\ At(m, {"ends"})
  /\ \E s \in {source[m]} \cup (IF m \in ondemand THEN {Cleared(source[m])} ELSE {}) :
       source' = [source EXCEPT ![m] = [s EXCEPT !.at = "again", !.header = None]]
  /\ UNCHANGED <<conf, ondemand, gone, listed, stats, update, recheck, missed>>
(* ... or later, with source_clear_source, or never                         *)
Leaves(m) ==
  /\ m \in Relays /\ At(m, {"ends", "failed", "offered"})
  /\ \E at \in {"stands", "closing"} :
       source' = [source EXCEPT ![m] = [(IF at = "stands" THEN Cleared(@) ELSE @)
                                          EXCEPT !.at = at, !.header = None]]
  /\ stats' = [stats EXCEPT ![m].updated = "none"]
  /\ AsksRecheck
  /\ UNCHANGED <<conf, ondemand, gone, listed, recheck, missed>>

(* --- The slave thread ---------------------------------------------------- *)
(* event_config_read, then slave_restart                                    *)
Reload ==
  /\ recheck.at = "idle" /\ update # "all"
  /\ conf' \in Tables \ {conf} /\ update' = "all"
  /\ UNCHANGED <<ondemand, source, gone, listed, stats, recheck, missed>>
(* The mark of this recheck is past that of the last                        *)
Begins ==
  /\ recheck.at = "idle" /\ update # "no"
  /\ update' = "no"
  /\ recheck' = [at |-> "sources",
                 todo |-> {m \in Mounts : update = "all" /\ ~At(m, {"out"})}]
  /\ stats' = [m \in Mounts |-> [stats[m] EXCEPT !.updated = IF @ = "mark" THEN "old" ELSE @]]
  /\ UNCHANGED <<conf, ondemand, source, gone, listed, missed>>
(* source_available: it runs and none of its listeners is being moved, or   *)
(* it is offered                                                            *)
Rechecks(m) ==
  /\ recheck.at = "sources" /\ m \in recheck.todo
  /\ recheck' = [recheck EXCEPT !.todo = @ \ {m}]
  /\ \/ At(m, {"runs", "offered"}) /\ UpdateSettings(m, source[m])
     \/ /\ ~At(m, {"offered"})
        /\ source' = [source EXCEPT ![m].stale = At(m, {"runs", "waits"})]
        /\ UNCHANGED <<listed, stats>>
  /\ UNCHANGED <<conf, ondemand, gone, update, missed>>
ToMounts ==
  /\ recheck.at = "sources" /\ recheck.todo = {}
  /\ recheck' = [at |-> "mounts", todo |-> {m \in Mounts : Given(m) /\ conf[m].fallback # None}]
  /\ UNCHANGED <<conf, ondemand, source, gone, listed, stats, update, missed>>

(* fallback_count: along the fallbacks to a source that runs or to a file   *)
FallbackOf(f) == IF f \in Mounts /\ Given(f) THEN conf[f].fallback ELSE None
FallbackRuns(m) ==
  LET count[hops \in 0..Hops] ==
        [f \in Mounts \cup Files |-> [found \in BOOLEAN |->
           IF hops = 0 THEN found
           ELSE IF f \in Mounts /\ At(f, {"runs"}) THEN TRUE
           ELSE LET now == IF f \in Files THEN TRUE
                           ELSE IF At(f, {"out"}) THEN FALSE ELSE found
                IN IF FallbackOf(f) = None THEN now ELSE count[hops - 1][FallbackOf(f)][now]]]
  IN count[Hops][conf[m].fallback][FALSE]
(* _get_source: one that is locked counts as there *)
Sourceless(m) == At(m, {"out"})
(* A writer that waits for the source tree makes fallback_count give up     *)
LooksAt(m) ==
  /\ recheck.at = "mounts" /\ m \in recheck.todo
  /\ recheck' = [recheck EXCEPT !.todo = @ \ {m}]
  /\ \/ ~Sourceless(m) /\ UNCHANGED <<stats, missed>>
     \/ /\ Sourceless(m) /\ missed' = missed \ {m}
        /\ stats' = [stats EXCEPT ![m] =
             IF FallbackRuns(m) THEN [updated |-> "mark", hidden |-> conf[m].hidden] ELSE @]
     \/ Sourceless(m) /\ missed' = missed \cup {m} /\ UNCHANGED stats
  /\ UNCHANGED <<conf, ondemand, source, gone, listed, update>>
Unlocks ==
  /\ recheck.at = "mounts" /\ recheck.todo = {}
  /\ recheck' = [recheck EXCEPT !.at = "purge"]
  /\ UNCHANGED <<conf, ondemand, source, gone, listed, stats, update, missed>>
(* stats_purge *)
Purges ==
  /\ recheck.at = "purge"
  /\ recheck' = [recheck EXCEPT !.at = "idle"]
  /\ stats' = [m \in Mounts |-> [stats[m] EXCEPT !.updated = IF @ = "old" THEN "none" ELSE @]]
  /\ UNCHANGED <<conf, ondemand, source, gone, listed, update, missed>>

SettingsNext ==
  \/ \E m \in Mounts :
       \/ Reserve(m) \/ Answer(m) \/ HttpSent(m) \/ TakenOver(m) \/ FirstBlock(m) \/ Ends(m)
       \/ Drop(m) \/ Free(m) \/ Refused(m) \/ Offers(m) \/ RelayStarts(m) \/ RelayFails(m)
       \/ StandsBy(m) \/ Leaves(m) \/ Rechecks(m) \/ LooksAt(m)
  \/ Reload \/ Begins \/ ToMounts \/ Unlocks \/ Purges
SettingsSpec == SettingsInit /\ [][SettingsNext]_settingsVars

(* --- Properties ---------------------------------------------------------- *)
SettingsTypeOK ==
  /\ conf \in Tables /\ ondemand \subseteq Relays
  /\ gone \subseteq Mounts /\ listed \subseteq Mounts /\ missed \subseteq Mounts
  /\ update \in {"no", "mounts", "all"}
  /\ recheck.at \in {"idle", "sources", "mounts", "purge"} /\ recheck.todo \subseteq Mounts
  /\ \A m \in Mounts :
       /\ source[m].at \in {"out", "held", "waits", "runs", "ends", "closing", "offered",
                            "stands", "again", "failed"}
       /\ source[m].public \in {-1, 0, 1} /\ source[m].header \in Announced \cup {None}
       /\ stats[m].updated \in {"none", "kept", "mark", "old"}

HasSettings(m) ==
  LET s == source[m] IN
  /\ IF Given(m) THEN conf[m].kept # 0 => s.kept = conf[m].kept ELSE s.kept = Default
  /\ s.reset = Reset(m)
  /\ s.intro = IF s.data THEN Intro(m) ELSE None
  /\ s.preroll = None <=> ~Given(m) \/ conf[m].preroll = None
  /\ IF Given(m) /\ conf[m].public # None THEN s.public = conf[m].public
     ELSE s.header # None => s.public = s.header
  /\ stats[m] = [updated |-> "kept", hidden |-> Given(m) /\ conf[m].hidden]

(* Once a reload has been acted on, a source that can be listened to has    *)
(* the settings its mount gives now and its entry is hidden as they say,    *)
(* whenever it started, except where the recheck passed it over, because it *)
(* waited for its response to be sent or its listeners were being moved     *)
(* (source.c source_recheck_mounts, source_update_settings).                *)
SettingsApplied ==
  update # "all" /\ recheck.at # "sources" =>
    \A m \in Mounts : At(m, {"runs", "offered"}) /\ ~source[m].stale => HasSettings(m)

(* The directory thread was asked to list just the streams their sources    *)
(* hold to be public, whatever was reloaded, taken over, stood by or failed *)
(* in between (source.c source_apply_mount, slave.c start_relay_stream).    *)
PublicListed == \A m \in Mounts \ gone : m \in listed <=> source[m].public = 1

(* With no recheck asked for or to come, a mount without a source is shown  *)
(* if and only if one of its fallbacks runs, and hidden as it says now,     *)
(* except where the code asks for no recheck: after a client was refused, a *)
(* relay left or one on demand began, or while the tree was busy (source.c  *)
(* source_recheck_mounts, stats.c stats_purge).                             *)
Settled ==
  /\ update = "no" /\ recheck.at = "idle" /\ gone = {}
  /\ \A m \in Mounts : ~At(m, {"ends", "closing", "again", "failed"})
FallbacksShown ==
  Settled =>
    \A m \in Mounts \ missed : At(m, {"out"}) =>
      /\ stats[m].updated # "none" <=>
           Given(m) /\ conf[m].fallback # None /\ FallbackRuns(m)
      /\ stats[m].updated # "none" => stats[m].hidden = conf[m].hidden

(* Sources have the settings of their mounts, the directory thread was      *)
(* asked to list those that are public, and a mount without a source is     *)
(* shown when a fallback of its runs, whatever is reloaded while sources    *)
(* come and go (source_update_settings, source_recheck_mounts).             *)
MountsSound == SettingsTypeOK /\ SettingsApplied /\ PublicListed /\ FallbacksShown
=============================================================================
