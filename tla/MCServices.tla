------------------------------ MODULE MCServices ------------------------------
(***************************************************************************)
(* The configuration, the way a listener is let in, the authenticators     *)
(* that ask somebody else, the relays, the file server and the statistics, *)
(* each checked on a small instance.  They share no state that is          *)
(* modelled, so a behaviour runs one of them, the part, and the others     *)
(* stay as they began.                                                     *)
(***************************************************************************)
EXTENDS AuthBackends, TLC

CONSTANTS
  Relays, RelayClients, RelaySources, Nil, StartSlots, SwitchSlots, MaxHeard, MaxChanges, Races,
  Files, Fallbacks, Nodes, Hearers, NoNode, MaxOnFile, MaxCounted, Patient,
  Mounts, Values, Watchers, Entries, NoEntry, OffWorker, Statics, StaticSources, Yp,
  NoValue, Absent, Keep, New,
  Names, Reader,
  Streams, Guests, Users, MaxListeners, MaxLoop, MaxRefs

ASSUME RelaysAssumption ==
  /\ Nil \notin Relays \cup RelayClients \cup RelaySources
  /\ {MaxHeard, MaxChanges, StartSlots, SwitchSlots} \subseteq Nat

ASSUME FilesAssumption ==
  NoNode \notin Nodes /\ IsFiniteSet(Hearers) /\ Fallbacks \subseteq Files /\ MaxCounted \in Nat

ASSUME StatsAssumption ==
  /\ Yp \notin Mounts /\ NoEntry \notin Mounts \cup {Yp}
  /\ {NoValue, Absent, Keep, New} \cap Values = {} /\ NoValue # Absent
  /\ {Keep, New} \cap {NoValue, Absent} = {} /\ Keep # New

ASSUME DoorsAssumption ==
  /\ {"a", "b"} \subseteq Streams /\ None \notin Streams /\ IsFiniteSet(Guests)
  /\ MaxListeners \in Nat /\ MaxLoop \in Nat

VARIABLES
  rel, rcl, rsrc, intree, reserved, switching, relays_connecting, nsources, halting, changes,
  node, cache, hearer, counted, serving,
  entry, hold, watch, global_stat, aborted,
  config_setup, doc, new, loads, current, old, refs, freed, held,
  rules, available, listeners, total, inuse, who,
  part

-------------------------------------------------------------------------------
(* The sections documents are made of, and the settings of mountpoints.    *)

Section(tag, f) == [tag |-> tag, set |-> f]
RelaySection(more, early, f) == Section("relay", f @@ [more |-> more, early |-> early])

Sections ==
  {Section("scalars", "port" :> 80), Section("authentication", "pass" :> "p"),
   Section("limits", "burst" :> 1), Section("limits", "workers" :> 500),
   Section("master", "update" :> 1), Section("master", "redirect" :> TRUE @@ "demand" :> TRUE),
   Section("paths", "cert" :> "c"),
   Section("paths", "cert" :> "c" @@ "key" :> "k" @@ "from" :> "a" @@ "to" :> "b"),
   Section("logging", "logsize" :> 9000), Section("logging", "errsize" :> 5),
   Section("security", "user" :> "u"),
   Section("http-headers", "name" :> "x" @@ "value" :> 1), Section("http-headers", "name" :> "fixed"),
   Section("mount", <<>>), Section("mount", "name" :> "a"),
   Section("mount", "name" :> "*" @@ "prio" :> 1 @@ "auth" :> "bad"),
   Section("mount", "name" :> "a*" @@ "prio" :> 2),
   Section("mount", "name" :> "*" @@ "burst" :> 2 @@ "prio" :> 1),
   Section("mount", "name" :> "a*" @@ "prio" :> -1 @@ "fb" :> "bad"),
   RelaySection(<<>>, FALSE, "local" :> "bad"), RelaySection(<<>>, FALSE, "port" :> 90),
   RelaySection(<<"prio" :> 2, "timeout" :> 90, "prio" :> 1>>, TRUE, "port" :> 90),
   RelaySection(<<"prio" :> 2, "timeout" :> 9, "prio" :> 1, "prio" :> 2>>, FALSE, "interval" :> 5),
   Section("directory", <<>>), Section("directory", "url" :> "y"),
   Section("listen-socket", "sport" :> 0), Section("listen-socket", "sport" :> 81),
   Section("listen-socket", "sport" :> 82 @@ "scmount" :> "s"),
   Section("listen-socket", "sport" :> 82 @@ "scmount" :> "s" @@ "compat" :> TRUE),
   Section("redirect", "host" :> "h"), Section("redirect", "rport" :> 1)}

(* Any three sections, or two documents of two with a user of the settings.*)
Documents ==
  {[tags |-> {s.tag : s \in Sections}, sizes |-> <<3>>, users |-> {}],
   [tags |-> {"mount", "scalars"}, sizes |-> <<2, 2>>, users |-> {Reader}]}

Open == [max |-> -1, auth |-> None, overflow |-> FALSE, fallback |-> None, rate |-> FALSE,
         nomount |-> FALSE, rejected |-> None]

(* A full mountpoint with an overflow, or one that denies a second login,  *)
(* and its fallback; and settings of a pattern for one of the two.         *)
Rules ==
  {[block |-> [m \in Streams |-> m], of |-> [m \in Streams |-> IF m = "a" THEN x.a ELSE x.b]] :
     x \in {[a |-> [Open EXCEPT !.max = 1, !.overflow = TRUE, !.fallback = "b"],
             b |-> [Open EXCEPT !.fallback = "a"]],
            [a |-> [Open EXCEPT !.max = 1, !.overflow = TRUE, !.fallback = "b"], b |-> Open],
            [a |-> [Open EXCEPT !.max = 1, !.auth = "deny", !.rejected = "b", !.fallback = "b"],
             b |-> [Open EXCEPT !.rate = TRUE, !.auth = "drop"]]}}
  \cup {[block |-> [m \in Streams |-> IF m = "a" THEN None ELSE "b"],
         of |-> [m \in {"b"} |-> [Open EXCEPT !.fallback = "a"]]]}

(* A URL, presumed right or not, and a command.                            *)
Backends ==
  [kind : {"url"}, skip : BOOLEAN, place : BOOLEAN] \cup [kind : {"cmd"}, skip : {FALSE}, place : BOOLEAN]
-------------------------------------------------------------------------------
R == INSTANCE Relay
F == INSTANCE FileServe
S == INSTANCE Stats
C == INSTANCE Config WITH Setups <- Documents, setup <- config_setup
L == INSTANCE Listening WITH Mounts <- Streams, Setups <- Rules, setup <- rules, refs <- inuse,
                         Listeners <- Guests

relays == <<rel, rcl, rsrc, intree, reserved, switching, relays_connecting, nsources,
            halting, changes>>
files  == <<node, cache, hearer, counted, serving>>
stats  == <<entry, hold, watch, global_stat, aborted>>
config == <<config_setup, doc, new, loads, current, old, refs, freed, held>>
doors  == <<rules, available, listeners, total, inuse, who>>

ServicesInit ==
  /\ part \in {"relays", "files", "stats", "config", "doors", "asked"}
  /\ R!Init /\ F!Init /\ S!Init
  /\ C!Init /\ (part = "config" \/ config_setup.users = {})
  /\ L!Init /\ (part = "doors" \/ \E m \in Streams : rules.block[m] = None)
  /\ Init /\ (part = "asked" \/ setup = [kind |-> "cmd", skip |-> FALSE, place |-> FALSE])

ServicesNext ==
  \/ part = "relays" /\ R!Next /\ UNCHANGED <<files, stats, config, doors, vars, part>>
  \/ part = "files"  /\ F!Next /\ UNCHANGED <<relays, stats, config, doors, vars, part>>
  \/ part = "stats"  /\ S!Next /\ UNCHANGED <<relays, files, config, doors, vars, part>>
  \/ part = "config" /\ C!Next /\ UNCHANGED <<relays, files, stats, doors, vars, part>>
  \/ part = "doors"  /\ L!Next /\ UNCHANGED <<relays, files, stats, config, vars, part>>
  \/ part = "asked"  /\ Next /\ UNCHANGED <<relays, files, stats, config, doors, part>>

ServicesSpec ==
  ServicesInit /\ [][ServicesNext]_<<relays, files, stats, config, doors, vars, part>>

(* However reloads, lists of the master, failing threads, switches of host *)
(* and listeners interleave, no relay, source or client is used after it   *)
(* was freed or driven twice (slave.c relay_release, relay_switch), and    *)
(* relays_connecting and global.sources, which limits are compared with,   *)
(* are exact.                                                              *)
RelaysSound ==
  part = "relays" => R!TypeOK /\ R!PointersLive /\ R!OneDriver /\ R!SlotsRight /\ R!SourcesRight

(* A file is freed only when the last listener let go of it, its reference *)
(* count and the total of listeners never below those there are            *)
(* (fserve.c file_release, fserve_setup_client_fb).                        *)
FilesSound ==
  part = "files" => F!TypeOK /\ F!FilesSound /\ F!NeverUndercounted

(* A statistics handle outlives the sources and threads that use it, and   *)
(* what a streaming listener was sent adds up to what the tree holds,      *)
(* whatever changed while it registered (stats.c _register_listener).      *)
StatsSound ==
  part = "stats" => S!TypeOK /\ S!HandlesLive /\ S!FeedAddsUp

(* Whatever sections a document has, and however often it is replaced, the *)
(* hosts of a relay and the settings of a mountpoint are found in the      *)
(* order given, XML and YAML mean the same, and settings stay while they   *)
(* are used (cfgfile.c, cfgfile_yaml.c, config_lock_mount).                *)
SettingsSound ==
  part = "config" => C!SettingsSound

(* However listeners go along the fallbacks while others come, leave and   *)
(* are moved, the settings looked at are counted, the listeners are, and   *)
(* nobody gets past a limit or a login that is taken                       *)
(* (source.c source_add_listener, auth.c auth_add_listener).               *)
ListeningSound ==
  part = "doors" => L!ListeningSound

(* A listener or source is let in by what the answer about it said and     *)
(* nothing else, and is moved or denied by its own answer only, though the *)
(* data of a handler thread outlives its requests (auth_url.c              *)
(* url_add_listener, auth_cmd.c auth_cmd_client).                          *)
AnswersRight ==
  part = "asked" => BackendsSound
===============================================================================
