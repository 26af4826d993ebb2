------------------------------- MODULE Config -------------------------------
(***************************************************************************)
(* The configuration (cfgfile.c, cfgfile_yaml.c, event.c): a document is   *)
(* read section by section into a new configuration, which replaces the    *)
(* current one; the settings of a mountpoint are blocks that are looked up *)
(* by name, counted while they are used, and freed with the configuration  *)
(* or by the last that uses them.                                          *)
(*                                                                         *)
(* A section is its tag and the values it gives; what it does not give     *)
(* keeps the value it had.  In XML sections are read in the order they are *)
(* written, each time they are.  The YAML parser looks for the first of    *)
(* each and takes them in an order of its own.                             *)
(***************************************************************************)
EXTENDS Integers, SequencesExt, FiniteSetsExt, TLC

CONSTANTS Sections,     \* the sections a document may have: [tag, set]
          Setups,       \* [tags, sizes, users]: tags allowed, sections of each
                        \* document, and users of mount settings
          Names         \* mountpoints asked for

VARIABLES setup,        \* the setup of this behaviour
          doc,          \* the sections read so far
          new,          \* the configuration being read
          loads,        \* documents read before this one
          current,      \* _current_configuration
          old,          \* the one being cleared, or Nothing
          refs,         \* _refcount of each mount block
          freed,        \* mount blocks freed
          held          \* the block each user has counted, or Nothing
vars == <<setup, doc, new, loads, current, old, refs, freed, held>>

MaxPrio == 9            \* INT_MAX
MaxWorkers == 400
MaxDirectories == 25    \* MAX_YP_DIRECTORIES
Nothing == <<>>
BaseHost == [prio |-> 0, port |-> 0, timeout |-> 4, nth |-> 0]

\* _set_defaults, with the header no configuration may change
Defaults == [port |-> 0, demand |-> FALSE, pass |-> "default", burst |-> 64, workers |-> 1,
             update |-> 120, retry |-> 120, redirect |-> FALSE, maxred |-> 0,
             cert |-> "", key |-> "", mime |-> "", user |-> "", chuid |-> FALSE,
             errsize |-> 0, accsize |-> 0, arch |-> -1, headers |-> <<[name |-> "fixed", value |-> 0, const |-> TRUE]>>,
             sockets |-> <<>>, exact |-> <<>>, templates |-> <<>>, relays |-> <<>>, redirects |-> <<>>,
             dirs |-> <<>>, aliases |-> <<>>]

\* what a section gives replaces, what it does not stays (parse_xml_tags)
Given(base, f) == [k \in DOMAIN base |-> IF k \in DOMAIN f THEN f[k] ELSE base[k]]
\* and by the YAML parser, value by value
GivenYaml(base, f) == Given(base, f)
Has(f, k) == k \in DOMAIN f

-----------------------------------------------------------------------------
(* Sections that only set values.                                          *)

AtLeast(low, value, other) == IF value < low THEN other ELSE value

Authentication(c, f) == Given(c, f)
YamlAuthentication(c, f) == GivenYaml(c, f)

Bounded(g) == [g EXCEPT !.workers = Min({MaxWorkers, AtLeast(1, @, 1)})]
Limits(c, f) == Bounded(Given(c, f))
YamlLimits(c, f) == Bounded(GivenYaml(c, f))

Spaced(g) == [g EXCEPT !.update = AtLeast(2, @, 60), !.retry = AtLeast(1, @, 60)]
Master(c, f) == Spaced(Given(c, f))
YamlMaster(c, f) == Spaced(GivenYaml(c, f))

\* the certificate's file holds the key unless one is named; only XML names
\* a file of mime types itself
KeyOf(g) == IF g.cert # "" /\ g.key = "" THEN [g EXCEPT !.key = g.cert] ELSE g
Aliased(g, f) == IF Has(f, "from") /\ Has(f, "to") THEN [g EXCEPT !.aliases = Append(@, <<f.from, f.to>>)] ELSE g
Paths(c, f) == KeyOf(Aliased(Given([c EXCEPT !.mime = "mime.types"], f), f))
YamlPaths(c, f) == Aliased(KeyOf(GivenYaml(c, f)), f)

\* changeowner also says that it was there
Chowned(g, f) == [g EXCEPT !.chuid = @ \/ Has(f, "user")]
Security(c, f) == Chowned(Given(c, f), f)
YamlSecurity(c, f) == Chowned(GivenYaml(c, f), f)

\* the size and the archiving of all logs, for those that have none of their own
LogSizes(g, f) == LET size == IF Has(f, "logsize") THEN Min({f.logsize, 2000}) ELSE 20
                  IN  [g EXCEPT !.errsize = IF @ = 0 THEN size ELSE @, !.accsize = IF @ = 0 THEN size ELSE @,
                                !.arch = IF @ = -1 THEN (IF Has(f, "logarchive") THEN f.logarchive ELSE 1) ELSE @]
Logging(c, f) == LogSizes(Given([c EXCEPT !.arch = -1], f), f)
YamlLogging(c, f) == LogSizes(GivenYaml([c EXCEPT !.arch = -1], f), f)

\* _add_http_header
AddHeader(hs, h) ==
    LET at == {i \in 1..Len(hs) : hs[i].name = h.name}
    IN  IF at = {} THEN Append(hs, h)
        ELSE IF hs[Min(at)].const THEN hs ELSE [hs EXCEPT ![Min(at)].value = h.value]
YamlAddHeader(hs, h) == AddHeader(hs, h)

Header(f) == [name |-> f.name, value |-> IF Has(f, "value") THEN f.value ELSE 0, const |-> FALSE]
HttpHeaders(c, f) == IF Has(f, "name") THEN [c EXCEPT !.headers = AddHeader(@, Header(f))] ELSE c
YamlHttpHeaders(c, f) == IF Has(f, "name") THEN [c EXCEPT !.headers = YamlAddHeader(@, Header(f))] ELSE c

\* one without an address is not counted, and the next takes its place
Directory(c, f) == IF Has(f, "url") /\ Len(c.dirs) < MaxDirectories THEN [c EXCEPT !.dirs = Append(@, f.url)] ELSE c
YamlDirectory(c, f) == Directory(c, f)

Redirect(c, f) ==
    IF ~Has(f, "host") THEN c
    ELSE [c EXCEPT !.redirects = <<[host |-> f.host, port |-> IF Has(f, "rport") THEN f.rport ELSE 8000]>> \o @]
YamlRedirect(c, f) == Redirect(c, f)

-----------------------------------------------------------------------------
(* Listening sockets: one for shoutcast clients brings a second, on the    *)
(* next port.  The first port named is the server's.                       *)

Sockets(f) == LET s == [port |-> f.sport, sc |-> Has(f, "compat")]
              IN  IF Has(f, "scmount") THEN <<s, [port |-> f.sport + 1, sc |-> TRUE]>> ELSE <<s>>
SocketKept(f) == Has(f, "sport") /\ f.sport # 0 /\ ~(Has(f, "scmount") /\ Has(f, "compat"))
WithSockets(c, f) == [c EXCEPT !.sockets = Sockets(f) \o @, !.port = IF @ = 0 THEN f.sport ELSE @]

ListenSocket(c, f) == IF SocketKept(f) THEN WithSockets(c, f) ELSE c
YamlListenSocket(c, f) == ListenSocket(c, f)

-----------------------------------------------------------------------------
(* Relays: hosts in the order of their priorities.                         *)

\* Mutant: a host comes before those of its own priority.
HostPlaced_Before(hosts, t) ==
    LET past == {i \in 2..Len(hosts) : t.prio # 0 /\ hosts[i].prio >= t.prio}
        k    == IF past = {} THEN Len(hosts) + 1 ELSE Min(past)
    IN  InsertAt(hosts, k, [t EXCEPT !.timeout = IF @ \in 1..60 THEN @ ELSE 4,
                                     !.prio = IF @ = 0 THEN hosts[k - 1].prio + 1 ELSE @])

\* _relay_host: what the host does not say is as the relay has it now; without
\* a priority it comes last, with one it comes before the first of a greater
HostPlaced(hosts, t) ==
    LET past == {i \in 2..Len(hosts) : t.prio # 0 /\ hosts[i].prio > t.prio}
        k    == IF past = {} THEN Len(hosts) + 1 ELSE Min(past)
    IN  InsertAt(hosts, k, [t EXCEPT !.timeout = IF @ \in 1..60 THEN @ ELSE 4,
                                     !.prio = IF @ = 0 THEN hosts[k - 1].prio + 1 ELSE @])
NewHost(hosts) == [hosts[1] EXCEPT !.prio = 0, !.nth = Len(hosts)]
AddHost(hosts, h) == HostPlaced(hosts, Given(NewHost(hosts), h))
YamlAddHost(hosts, h) == HostPlaced(hosts, GivenYaml(NewHost(hosts), h))

\* a relay whose local mountpoint is not one is dropped; the host that gave
\* the others their settings goes if there are others
WithRelay(c, f, hosts) ==
    IF Has(f, "local") /\ f.local = "bad" THEN c
    ELSE [c EXCEPT !.relays = <<[hosts |-> IF Len(hosts) > 1 THEN Tail(hosts) ELSE hosts,
                                 demand |-> IF Has(f, "demand") THEN f.demand ELSE c.demand,
                                 interval |-> IF Has(f, "interval") THEN f.interval ELSE c.update]>> \o @]
Base(c) == [BaseHost EXCEPT !.port = c.port]
\* in XML hosts written first do not see what the relay says after them
ParseRelay(c, f) ==
    LET own  == Given(Base(c), f)
        more == FoldLeft(AddHost, <<IF f.early THEN Base(c) ELSE own>>, f.more)
    IN  WithRelay(c, f, [more EXCEPT ![1] = own])
YamlParseRelay(c, f) == WithRelay(c, f, FoldLeft(YamlAddHost, <<GivenYaml(Base(c), f)>>, f.more))

-----------------------------------------------------------------------------
(* Settings of mountpoints: blocks under a name, or under a pattern that   *)
(* stands before the first of the same or a greater priority.              *)

NewMount(c, id) == [id |-> id, name |-> "", prio |-> MaxPrio, burst |-> c.burst, headers |-> c.headers,
                    auth |-> "none", fb |-> "none"]
\* an authenticator that cannot be set up leaves the mountpoint without one
MountAuth(m) == [m EXCEPT !.auth = IF @ = "bad" THEN "none" ELSE @]
YamlMountAuth(m) == MountAuth(m)
Settled(m) == [m EXCEPT !.prio = IF @ < 0 THEN MaxPrio ELSE @, !.fb = IF @ = "bad" THEN "none" ELSE @]
IsTemplate(name) == name \in {"*", "a*"}

AddMount(c, m) ==
    LET at == {i \in 1..Len(c.templates) : c.templates[i].prio >= m.prio}
    IN  IF m.name = "" THEN c
        ELSE IF ~IsTemplate(m.name) THEN [c EXCEPT !.exact = Append(@, m)]
        ELSE [c EXCEPT !.templates = InsertAt(@, IF at = {} THEN Len(@) + 1 ELSE Min(at), m)]
ParseMount(c, f, id) == AddMount(c, Settled(MountAuth(Given(NewMount(c, id), f))))
YamlParseMount(c, f, id) == AddMount(c, Settled(YamlMountAuth(GivenYaml(NewMount(c, id), f))))

Matches(pattern, name) == pattern = "*" \/ (pattern = "a*" /\ name \in {"a", "ab"})

\* config_find_mount: the walk over the patterns, as far as it goes and what
\* it has found (two blocks of one name may be found in any order)
Walk(ms, name) ==
    LET look(w, m) ==
          IF w.over \/ (w.found # Nothing /\ w.found.prio < m.prio) THEN [w EXCEPT !.over = TRUE]
          ELSE IF Matches(m.name, name) THEN [w EXCEPT !.found = m] ELSE w
    IN  FoldLeft(look, [found |-> Nothing, over |-> FALSE], ms).found
FindMount(c, name) ==
    LET named == {m \in ToSet(c.exact) : m.name = name}
        found == Walk(c.templates, name)
    IN  IF named # {} THEN named ELSE IF found = Nothing THEN {} ELSE {found}

-----------------------------------------------------------------------------
(* A whole document.                                                       *)

Xml(c, s, id) ==
    CASE s.tag = "scalars"        -> Given(c, s.set)
      [] s.tag = "authentication" -> Authentication(c, s.set)
      [] s.tag = "limits"         -> Limits(c, s.set)
      [] s.tag = "paths"          -> Paths(c, s.set)
      [] s.tag = "logging"        -> Logging(c, s.set)
      [] s.tag = "security"       -> Security(c, s.set)
      [] s.tag = "master"         -> Master(c, s.set)
      [] s.tag = "http-headers"   -> HttpHeaders(c, s.set)
      [] s.tag = "mount"          -> ParseMount(c, s.set, id)
      [] s.tag = "relay"          -> ParseRelay(c, s.set)
      [] s.tag = "directory"      -> Directory(c, s.set)
      [] s.tag = "listen-socket"  -> ListenSocket(c, s.set)
      [] s.tag = "redirect"       -> Redirect(c, s.set)

Yaml(c, s, id) ==
    CASE s.tag = "scalars"        -> GivenYaml(c, s.set)
      [] s.tag = "authentication" -> YamlAuthentication(c, s.set)
      [] s.tag = "limits"         -> YamlLimits(c, s.set)
      [] s.tag = "paths"          -> YamlPaths(c, s.set)
      [] s.tag = "logging"        -> YamlLogging(c, s.set)
      [] s.tag = "security"       -> YamlSecurity(c, s.set)
      [] s.tag = "master"         -> YamlMaster(c, s.set)
      [] s.tag = "http-headers"   -> YamlHttpHeaders(c, s.set)
      [] s.tag = "mount"          -> YamlParseMount(c, s.set, id)
      [] s.tag = "relay"          -> YamlParseRelay(c, s.set)
      [] s.tag = "directory"      -> YamlDirectory(c, s.set)
      [] s.tag = "listen-socket"  -> YamlListenSocket(c, s.set)
      [] s.tag = "redirect"       -> YamlRedirect(c, s.set)

YamlOrder == <<"scalars", "authentication", "limits", "paths", "logging", "security", "master",
               "http-headers", "mount", "relay", "directory", "listen-socket", "redirect">>
Lists == {"http-headers", "mount", "relay", "directory", "listen-socket", "redirect"}

\* the end of _parse_root: {} when there is nothing to listen on
RootEnd(c) ==
    LET d == [c EXCEPT !.maxred = IF @ = 0 /\ c.redirect THEN 1 ELSE @]
        e == IF c.sockets = <<>> THEN [d EXCEPT !.sockets = <<[port |-> c.port, sc |-> FALSE]>>] ELSE d
    IN  IF c.sockets = <<>> /\ c.port = 0 THEN {} ELSE {[e EXCEPT !.update = AtLeast(2, @, 60)]}

\* yaml_parse_root: of each section the first, of lists every entry
YamlSections(d) ==
    FlattenSeq([i \in 1..Len(YamlOrder) |->
        LET here == SelectSeq([k \in 1..Len(d) |-> [s |-> d[k], nth |-> k]], LAMBDA x : x.s.tag = YamlOrder[i])
        IN  IF YamlOrder[i] \in Lists \/ here = <<>> THEN here ELSE <<Head(here)>>])
YamlRoot(d) ==
    RootEnd(FoldLeft(LAMBDA c, x : Yaml(c, x.s, <<loads, x.nth>>), Defaults, YamlSections(d)))

Blocks(c) == {m.id : m \in ToSet(c.exact) \union ToSet(c.templates)}

Init == /\ setup \in Setups
        /\ doc = <<>> /\ new = Defaults /\ loads = 0
        /\ current = Defaults /\ old = Nothing
        /\ refs = <<>> /\ freed = {}
        /\ held = [u \in setup.users |-> Nothing]

Reading == loads < Len(setup.sizes) /\ old = Nothing

\* a section is read; a mount's block begins with one reference
ReadSection(s) ==
    LET id == <<loads, Len(doc) + 1>>
    IN  /\ Reading /\ Len(doc) < setup.sizes[loads + 1] /\ s.tag \in setup.tags
        /\ doc' = Append(doc, s)
        /\ new' = Xml(new, s, id)
        /\ refs' = IF s.tag = "mount" THEN (id :> 1) @@ refs ELSE refs
        /\ UNCHANGED <<setup, loads, current, old, freed, held>>

\* config_parse_file fails: the current configuration stays
Refused == /\ Reading /\ RootEnd(new) = {} /\ doc # <<>>
           /\ loads' = loads + 1 /\ doc' = <<>> /\ new' = Defaults
           /\ UNCHANGED <<setup, current, old, refs, freed, held>>

\* event_config_read with config_set_config, and the first time
\* config_initial_parse_file
Replace == /\ Reading
           /\ \E c \in RootEnd(new) : current' = c
           /\ old' = current
           /\ loads' = loads + 1 /\ doc' = <<>> /\ new' = Defaults
           /\ UNCHANGED <<setup, refs, freed, held>>

\* config_clear_mount on a set of blocks: counted down, freed at 0
Unref(ids) == [b \in DOMAIN refs |-> IF b \in ids /\ refs[b] > 0 THEN refs[b] - 1 ELSE refs[b]]
ClearMounts(ids) == /\ refs' = Unref(ids)
                    /\ freed' = freed \union {b \in ids : Unref(ids)[b] = 0}

ClearOld == /\ old # Nothing
            /\ ClearMounts(Blocks(old))
            /\ old' = Nothing
            /\ UNCHANGED <<setup, doc, new, loads, current, held>>

\* config_lock_mount: found and counted under the lock of the configuration
LockMount(u) == /\ held[u] = Nothing
                /\ \E name \in Names : \E m \in FindMount(current, name) :
                      held' = [held EXCEPT ![u] = m.id] /\ refs' = [refs EXCEPT ![m.id] = @ + 1]
                /\ UNCHANGED <<setup, doc, new, loads, current, old, freed>>

ReleaseMount(u) == /\ held[u] # Nothing
                   /\ ClearMounts({held[u]})
                   /\ held' = [held EXCEPT ![u] = Nothing]
                   /\ UNCHANGED <<setup, doc, new, loads, current, old>>

\* move_listener only counts the block down, and does not for those whose
\* fallback it went on to
MoveDone(u) == /\ held[u] # Nothing
               /\ refs' = Unref({held[u]})
               /\ held' = [held EXCEPT ![u] = Nothing]
               /\ UNCHANGED <<setup, doc, new, loads, current, old, freed>>
MoveOn(u) == /\ held[u] # Nothing
             /\ \E name \in Names : \E m \in FindMount(current, name) :
                   /\ m.id # held[u]
                   /\ held' = [held EXCEPT ![u] = m.id] /\ refs' = [refs EXCEPT ![m.id] = @ + 1]
             /\ refs[held[u]] < 3
             /\ UNCHANGED <<setup, doc, new, loads, current, old, freed>>

Next == \/ \E s \in Sections : ReadSection(s)
        \/ Refused \/ Replace \/ ClearOld
        \/ \E u \in setup.users : LockMount(u) \/ ReleaseMount(u) \/ MoveDone(u) \/ MoveOn(u)
Spec == Init /\ [][Next]_vars

-----------------------------------------------------------------------------
\* The hosts of a relay are tried in the order of their priorities, and those
\* of the same priority in the order they were written.
HostsInOrder ==
    \A r \in ToSet(new.relays) : \A i, j \in 1..Len(r.hosts) :
        i < j => \/ r.hosts[i].prio < r.hosts[j].prio
                 \/ r.hosts[i].prio = r.hosts[j].prio /\ r.hosts[i].nth < r.hosts[j].nth

\* A mountpoint without settings of its own has those of the pattern that
\* matches it with the least priority, the first written of several.
FindsBest ==
    \A name \in Names :
        LET ms   == {m \in ToSet(new.templates) : Matches(m.name, name)}
            best == {m \in ms : \A o \in ms : m.prio < o.prio \/ (m.prio = o.prio /\ m.id[2] <= o.id[2])}
        IN  {m \in ToSet(new.exact) : m.name = name} = {} => FindMount(new, name) = best

\* A document written in the order the YAML parser takes its sections in,
\* each once, means the same in XML and in YAML, but for the mime types.
InYamlOrder(d) ==
    LET rank(s) == CHOOSE i \in 1..Len(YamlOrder) : YamlOrder[i] = s.tag
    IN  \A i, j \in 1..Len(d) : i < j =>
            rank(d[i]) < rank(d[j]) \/ (rank(d[i]) = rank(d[j]) /\ d[i].tag \in Lists)
SameReading ==
    (InYamlOrder(doc) /\ \A i \in 1..Len(doc) : doc[i].tag = "relay" => ~doc[i].set.early)
        => {[c EXCEPT !.mime = ""] : c \in YamlRoot(doc)} = {[c EXCEPT !.mime = ""] : c \in RootEnd(new)}

\* The settings in use, by the current configuration, by the one being
\* cleared or by whoever looked them up, are counted and not freed.
HeldBlocksStay ==
    \A b \in DOMAIN refs :
        LET users == Cardinality({u \in setup.users : held[u] = b})
            conf  == Cardinality({c \in {new, current} \union (IF old = Nothing THEN {} ELSE {old}) : b \in Blocks(c)})
        IN  users + conf > 0 => b \notin freed /\ refs[b] >= users + conf

\* The configuration means what it says, in either language, and settings
\* stay while they are used.
SettingsSound == HostsInOrder /\ FindsBest /\ SameReading /\ HeldBlocksStay
=============================================================================
