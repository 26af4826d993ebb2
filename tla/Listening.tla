------------------------------ MODULE Listening ------------------------------
(***************************************************************************)
(* How a listener is let in (auth.c auth_add_listener, source.c            *)
(* source_add_listener): the settings of the mountpoint it asked for are   *)
(* looked up and counted, it may have to be authenticated, and then its    *)
(* stream is looked for along the fallbacks, one mountpoint at a time, and *)
(* the limits are tested.                                                  *)
(*                                                                         *)
(* The tree of sources is locked for each mountpoint looked at, and the    *)
(* source itself from there until the listener is on it, so a look is one  *)
(* step; between two looks other listeners come and go, and sources start  *)
(* and stop.  The settings stay as they are (see Config); two mountpoints  *)
(* may have the same, those of a pattern.                                  *)
(***************************************************************************)
EXTENDS Integers, FiniteSets

CONSTANTS Mounts,
          Listeners,     \* connection ids
          Users,
          None,
          Setups,        \* [block, of]: the settings each mountpoint has, or None
          MaxListeners,  \* of the server, 0 for any number
          MaxLoop,       \* mountpoints looked at for one listener
          MaxRefs        \* bound: references of settings, some of which leak

VARIABLES
  setup,        \* the configuration
  available,    \* source_available: it runs, or is started on demand
  listeners,    \* source->listeners
  total,        \* global.listeners
  refs,         \* _refcount of the settings
  who           \* the listeners

admVars == <<setup, available, listeners, total, refs, who>>

Blocks == DOMAIN setup.of
SettingsOf(m) == IF m = None THEN None ELSE setup.block[m]
Of(b) == setup.of[b]

\* at: where it is; asked, mount: the mountpoint asked for and the one looked
\* at; mountinfo, minfo: the settings of the two; back: it came by a fallback
NewListener == [at |-> "new", user |-> None, slave |-> FALSE, head |-> FALSE, in |-> FALSE,
                asked |-> None, mount |-> None, mountinfo |-> None, minfo |-> None,
                rate |-> FALSE, back |-> FALSE, loop |-> MaxLoop, moved |-> FALSE, error |-> FALSE]

Init == /\ setup \in Setups
        /\ available = [m \in Mounts |-> FALSE]
        /\ listeners = [m \in Mounts |-> 0] /\ total = 0
        /\ refs = [b \in Blocks |-> 1]
        /\ who = [l \in Listeners |-> NewListener]

On(m) == {l \in Listeners : who[l].at = "stream" /\ who[l].mount = m}

\* the count of a block when those of bs are given back, one for each
Released(r, bs) == [b \in DOMAIN r |-> r[b] - Cardinality({i \in DOMAIN bs : bs[i] = b /\ r[b] > 0})]
\* config_release_mount (minfo) is for settings other than the first
Extra(w) == IF w.minfo # w.mountinfo THEN w.minfo ELSE None

\* a listener that was answered and is gone, and one that listens
Ended(how) == [NewListener EXCEPT !.at = how]
Listens(w, how) == [w EXCEPT !.at = how, !.mountinfo = None, !.minfo = None, !.rate = FALSE, !.loop = 0]

-----------------------------------------------------------------------------
(* auth_add_listener.                                                      *)

\* add_authenticated_listener, with settings already counted
Add(w, m, b) == [w EXCEPT !.at = "look", !.in = ~w.head, !.asked = m, !.mount = m, !.mountinfo = b, !.minfo = b]
Counted(r, b) == IF b = None THEN r ELSE [r EXCEPT ![b] = @ + 1]

Ask(l, m, user, slave, head) ==
    LET w == [who[l] EXCEPT !.user = user, !.slave = slave, !.head = head, !.asked = m]
        b == SettingsOf(m)
        needs == ~head /\ b # None
    IN  /\ who[l].at = "new" /\ \A k \in Blocks : refs[k] <= MaxRefs
        /\ CASE needs /\ Of(b).nomount -> /\ who' = [who EXCEPT ![l] = Ended("refused")]
                                          /\ UNCHANGED refs
             [] needs /\ ~Of(b).nomount /\ Of(b).auth # None ->
                     \* queued, at once refused or, if that is preferred, let in
                     \/ /\ who' = [who EXCEPT ![l] = [w EXCEPT !.at = "auth"]]
                        /\ UNCHANGED refs
                     \/ /\ who' = [who EXCEPT ![l] = Ended("refused")]
                        /\ UNCHANGED refs
                     \/ /\ who' = [who EXCEPT ![l] = Add(w, m, b)]
                        /\ refs' = Counted(refs, b)
             [] OTHER -> /\ who' = [who EXCEPT ![l] = Add(w, m, b)]
                         /\ refs' = Counted(refs, b)
        /\ UNCHANGED <<setup, available, listeners, total>>

\* auth_postprocess_listener: the settings are looked up again, or those of
\* the mountpoint for the rejected
Authenticated(l) ==
    LET w == who[l]
    IN  /\ w.at = "auth"
        /\ \/ /\ who' = [who EXCEPT ![l] = Add(w, w.asked, SettingsOf(w.asked))]
              /\ refs' = Counted(refs, SettingsOf(w.asked))
           \/ LET m == Of(SettingsOf(w.asked)).rejected
              IN  IF m = None THEN who' = [who EXCEPT ![l] = Ended("refused")] /\ UNCHANGED refs
                  ELSE /\ who' = [who EXCEPT ![l] = Add(w, m, SettingsOf(m))]
                       /\ refs' = Counted(refs, SettingsOf(m))
        /\ UNCHANGED <<setup, available, listeners, total>>

-----------------------------------------------------------------------------
(* source_add_listener.                                                    *)

\* both settings are given back
Ends(l, w, how) ==
    /\ who' = [who EXCEPT ![l] = Ended(how)]
    /\ refs' = Released(refs, <<w.mountinfo, Extra(w)>>)

TooManyLooks(l) ==
    /\ who[l].at = "look" /\ who[l].loop = 0
    /\ Ends(l, who[l], "lost")
    /\ UNCHANGED <<setup, available, listeners, total>>

Full == MaxListeners # 0 /\ MaxListeners <= total

\* no stream and nowhere to fall back to: a file, at a rate, which is counted
\* unless it is missing; without a rate fserve_client_create looks for one
TryFile(l, w) ==
    LET rate == w.rate \/ (w.minfo # None /\ Of(w.minfo).rate)
    IN  /\ refs' = Released(refs, <<w.mountinfo, Extra(w)>>)
        /\ IF ~rate \/ w.slave THEN who' = [who EXCEPT ![l] = Ended("plainfile")] /\ UNCHANGED total
           ELSE IF Full THEN who' = [who EXCEPT ![l] = Ended("full")] /\ UNCHANGED total
           ELSE \/ who' = [who EXCEPT ![l] = Ended("refused")] /\ UNCHANGED total
                \/ who' = [who EXCEPT ![l] = Listens(w, "file")] /\ total' = total + 1

\* on to the fallback, whose settings take the place of those at hand
GoOn(l, w) ==
    LET m == Of(w.minfo).fallback
    IN  /\ who' = [who EXCEPT ![l] = [w EXCEPT !.mount = m, !.minfo = SettingsOf(m), !.back = TRUE, !.loop = @ - 1,
                                               !.rate = @ \/ Of(w.minfo).rate]]
        /\ refs' = Released(Counted(refs, SettingsOf(m)), <<Extra(w)>>)
        /\ UNCHANGED total

NoStream(l) ==
    LET w == who[l]
    IN  /\ w.at = "look" /\ w.loop > 0 /\ ~available[w.mount]
        /\ IF w.minfo = None \/ Of(w.minfo).fallback = None THEN TryFile(l, w) ELSE GoOn(l, w)
        /\ UNCHANGED <<setup, available, listeners>>

\* check_duplicate_logins: the listener of this name with the lowest id
SameUser(l, m) == {o \in On(m) : who[o].user = who[l].user /\ who[o].user # None}
Checks(l) == LET w == who[l]
             IN  w.mountinfo # None /\ Of(w.mountinfo).auth \in {"deny", "drop"} /\ w.user # None /\ ~w.slave
Duplicate(l) == Checks(l) /\ SameUser(l, who[l].mount) # {}
First(S) == CHOOSE x \in S : \A y \in S : x <= y

\* Mutant: one more than the limit.
Within_OneMore(w) == w.mountinfo = None \/ Of(w.mountinfo).max = -1 \/ listeners[w.mount] <= Of(w.mountinfo).max

\* the limits of the mountpoint asked for, with the listeners of this source
Within(w) == w.mountinfo = None \/ Of(w.mountinfo).max = -1 \/ listeners[w.mount] < Of(w.mountinfo).max

\* source_setup_listener
Place(l, w) ==
    IF Full THEN Ends(l, w, "full") /\ UNCHANGED <<listeners, total>>
    ELSE /\ who' = [k \in Listeners |->
                       IF k = l THEN Listens(w, "stream")
                       ELSE IF Duplicate(l) /\ k = First(SameUser(l, w.mount)) THEN [who[k] EXCEPT !.error = TRUE]
                       ELSE who[k]]
         /\ refs' = Released(refs, <<w.mountinfo, Extra(w)>>)
         /\ listeners' = [listeners EXCEPT ![w.mount] = @ + 1]
         /\ total' = total + 1

\* full, but its fallback takes those it cannot: the settings at hand stay,
\* also if they are given back
TryFallback(l, w) ==
    /\ who' = [who EXCEPT ![l] = [w EXCEPT !.mount = Of(w.minfo).fallback, !.loop = @ - 1]]
    /\ refs' = Released(refs, <<Extra(w)>>)
    /\ UNCHANGED <<listeners, total>>

Stream(l) ==
    LET w == who[l]
    IN  /\ w.at = "look" /\ w.loop > 0 /\ available[w.mount]
        /\ \/ w.slave /\ Place(l, w)
           \/ \* headers could not be made, or the bandwidth is used up
              ~w.slave /\ Ends(l, w, "refused") /\ UNCHANGED <<listeners, total>>
           \/ ~w.slave /\ ~w.in /\ Ends(l, w, "answered") /\ UNCHANGED <<listeners, total>>
           \/ /\ ~w.slave /\ w.in
              /\ IF Duplicate(l) /\ Of(w.mountinfo).auth = "deny"
                 THEN Ends(l, w, "refused") /\ UNCHANGED <<listeners, total>>
                 ELSE IF Within(w) THEN Place(l, w)
                 ELSE IF w.minfo # None /\ Of(w.minfo).overflow /\ Of(w.minfo).fallback # None THEN TryFallback(l, w)
                 ELSE Ends(l, w, "refused") /\ UNCHANGED <<listeners, total>>
        /\ UNCHANGED <<setup, available>>

-----------------------------------------------------------------------------
(* Listeners that leave or are moved, and sources.                         *)

\* source_listener_release, file_release: a file is counted back if it was a
\* fallback, and not for HEAD
Leave(l) ==
    LET w == who[l]
    IN  /\ w.at \in {"stream", "file"}
        /\ who' = [who EXCEPT ![l] = NewListener]
        /\ listeners' = IF w.at = "stream" THEN [listeners EXCEPT ![w.mount] = @ - 1] ELSE listeners
        /\ total' = IF w.at = "stream" \/ (w.back /\ w.in) THEN total - 1 ELSE total
        /\ UNCHANGED <<setup, available, refs>>

\* others have nothing counted and are forgotten
Gone(l) == /\ who[l].at \in {"refused", "answered", "lost", "full", "plainfile"}
           /\ who' = [who EXCEPT ![l] = NewListener]
           /\ UNCHANGED <<setup, available, listeners, total, refs>>

\* move_listener: off a source that stops, on to one that is available or on
\* to a file
Move(l) ==
    LET w == who[l]
    IN  /\ w.at = "stream" /\ ~available[w.mount] /\ ~w.error
        /\ \/ \E m \in Mounts : /\ available[m]
                                /\ who' = [who EXCEPT ![l].mount = m, ![l].moved = TRUE]
                                /\ listeners' = [listeners EXCEPT ![w.mount] = @ - 1, ![m] = @ + 1]
           \/ /\ who' = [who EXCEPT ![l].at = "file", ![l].moved = TRUE, ![l].back = TRUE]
              /\ listeners' = [listeners EXCEPT ![w.mount] = @ - 1]
        /\ UNCHANGED <<setup, available, total, refs>>

SourceChanges(m) ==
    /\ available' = [available EXCEPT ![m] = ~@]
    /\ UNCHANGED <<setup, listeners, total, refs, who>>

Next ==
  \/ \E l \in Listeners :
       \/ \E m \in Mounts :
             \/ \E u \in Users \cup {None} : Ask(l, m, u, FALSE, FALSE)
             \/ Ask(l, m, None, TRUE, FALSE) \/ Ask(l, m, None, FALSE, TRUE)
       \/ Authenticated(l) \/ TooManyLooks(l) \/ NoStream(l) \/ Stream(l)
       \/ Leave(l) \/ Gone(l) \/ Move(l)
  \/ \E m \in Mounts : SourceChanges(m)

Spec == Init /\ [][Next]_admVars

-----------------------------------------------------------------------------
\* The settings somebody looks at are counted, over those of the
\* configuration: a reload cannot free them.
SettingsHeld ==
    \A b \in Blocks :
        refs[b] >= 1 + Cardinality({l \in Listeners : who[l].at = "look" /\ who[l].mountinfo = b})
                     + Cardinality({l \in Listeners : who[l].at = "look" /\ Extra(who[l]) = b})

\* The listeners of each source are counted, and those of the server are never
\* less than there are, nor more than it allows.
ListenersCounted ==
    /\ \A m \in Mounts : listeners[m] = Cardinality(On(m))
    /\ total >= Cardinality({l \in Listeners : who[l].at = "stream" \/ (who[l].at = "file" /\ who[l].back /\ who[l].in)})
    /\ MaxListeners # 0 => total <= MaxListeners

\* Those that came straight to a mountpoint are not more than it allows,
\* and not two of the same account if it denies that.
Straight(m) == {l \in On(m) : who[l].asked = m /\ ~who[l].slave /\ ~who[l].moved}
MountRules ==
    \A m \in Mounts : SettingsOf(m) # None =>
        /\ Of(SettingsOf(m)).max # -1 => Cardinality(Straight(m)) <= Of(SettingsOf(m)).max
        /\ Of(SettingsOf(m)).auth = "deny" =>
             \A k, l \in Straight(m) : k # l => who[k].user = None \/ who[k].user # who[l].user

ListeningSound == SettingsHeld /\ ListenersCounted /\ MountRules

\* "Maximum number of listeners allowed across all mountpoints"
\* (src/doc/mcaster1dnas_config_file.html:268): a listener is refused because
\* the server is full only if it has as many.
RefusedWhenFull ==
    [][\A l \in Listeners :
         who[l].at = "look" /\ who'[l].at = "full"
           => Cardinality({k \in Listeners : who[k].at \in {"stream", "file"}}) >= MaxListeners]_admVars
=============================================================================
