--------------------------- MODULE SourceStartup ---------------------------
(***************************************************************************)
(* Source clients that want one mountpoint (src/src/source.c): each        *)
(* reserves it in the source tree, or takes it over from the client that   *)
(* feeds it, if it may (hijack) or if that one has gone silent and the     *)
(* source lingers.  A source is a counted-by-nobody object: it is freed by *)
(* the client that ends it, after it was dropped from the tree, and the    *)
(* clients that wait for it hold a plain pointer.  Listeners are left out: *)
(* see MountDrain.                                                         *)
(***************************************************************************)
EXTENDS Integers, FiniteSets

CONSTANTS
  Clients,       (* Source clients.  The source a client creates goes by   *)
                 (* the client's name.                                     *)
  Nil,
  Setups         (* What the runs of the server differ in: a record of     *)
                 (*  comes      the clients that come, once each,          *)
                 (*  hijackers  those with CLIENT_HIJACKER,                *)
                 (*  bad        those whose content type                   *)
                 (*             source_format_init rejects,                *)
                 (*  keeps      sources that end with a wait_time and      *)
                 (*             stay reserved,                             *)
                 (*  kill       an admin may kill the source,              *)
                 (*  contended  a try for the lock of a source may fail,   *)
                 (*  alone      a client comes only when no other is on    *)
                 (*             its way,                                   *)
                 (*  limit      config->source_limit.                      *)
                 (* Sources linger (linger_duration > 0).                  *)

ASSUME StartupAssumption ==
  /\ IsFiniteSet(Clients) /\ Nil \notin Clients
  /\ \A s \in Setups :
       /\ UNION {s.comes, s.hijackers, s.bad, s.keeps} \subseteq Clients
       /\ s.limit \in Nat /\ {s.kill, s.contended, s.alone} \subseteq BOOLEAN

Sources == Clients

VARIABLES
  setup,         (* Never changes.                                         *)
  tree,          (* The source under the mountpoint's name, or Nil.        *)
  life,          (* Each source: "none", "live" or "freed".                *)
  running, terminating, sync, switchover,  (* source->flags.               *)
  linger,        (* linger_time is set.                                    *)
  feeder,        (* source->client.                                        *)
  sources,       (* global.sources.                                        *)
  pc,            (* The ops of each client.                                *)
  shared, aux    (* Its shared_data and, once it feeds, aux_data.          *)

flags  == <<running, terminating, sync, switchover, linger>>
vars   == <<setup, tree, life, flags, feeder, sources, pc, shared, aux>>

Off == [s \in Sources |-> FALSE]

Init ==
  /\ setup \in Setups
  /\ tree = Nil /\ life = [s \in Sources |-> "none"]
  /\ running = Off /\ terminating = Off /\ sync = Off /\ switchover = Off
  /\ linger = Off
  /\ feeder = [s \in Sources |-> Nil] /\ sources = 0
  /\ pc = [c \in Clients |-> "none"]
  /\ shared = [c \in Clients |-> Nil] /\ aux = [c \in Clients |-> Nil]

-----------------------------------------------------------------------------
Running(s) == running[s] /\ ~terminating[s]
Hijack(c) == c \in setup.hijackers
Go(c, where) == pc' = [pc EXCEPT ![c] = where]
Link(c, s) == shared' = [shared EXCEPT ![c] = s]

(* source_startup. *)
Arrive(c) ==
  /\ pc[c] = "none" /\ c \in setup.comes
  /\ setup.alone =>
       \A d \in Clients : pc[d] \notin {"start", "undo", "switch", "http"}
  /\ Go(c, "start")
  /\ UNCHANGED <<tree, life, flags, feeder, sources, shared, aux>>

(* source_client_startup with source s locked; owner is rc == 1.  The      *)
(* mountpoint is in use, or kept for another.                              *)
BeginInUse(c, s, owner) ==
  /\ ~Running(s) /\ ~owner /\ ~Hijack(c)
  /\ Go(c, "gone")
  /\ UNCHANGED <<tree, life, flags, feeder, sources, shared, aux>>

(* Too many sources, or a content type nobody knows: a source of its own   *)
(* is given up.                                                            *)
BeginFails(c, s, owner) ==
  /\ ~Running(s) /\ (owner \/ Hijack(c))
  /\ \/ sources >= setup.limit /\ UNCHANGED feeder
     \/ /\ owner /\ sources < setup.limit /\ c \in setup.bad
        /\ feeder' = [feeder EXCEPT ![s] = c]
  /\ IF owner THEN Go(c, "undo") /\ Link(c, s) ELSE Go(c, "gone") /\ UNCHANGED shared
  /\ UNCHANGED <<tree, life, flags, sources, aux>>

(* The client starts on the source.                                        *)
BeginOwn(c, s, owner) ==
  /\ owner
  /\ \/ Running(s) /\ UNCHANGED <<feeder, sources>>
     \/ /\ ~Running(s) /\ sources < setup.limit /\ c \notin setup.bad
        /\ feeder' = [feeder EXCEPT ![s] = c] /\ sources' = sources + 1
  /\ Go(c, "http") /\ Link(c, s)
  /\ UNCHANGED <<tree, life, flags, aux>>

(* The one that feeds it, or did so last, is asked to make this client     *)
(* live on the source.  (There is one: the code does not ask.)             *)
BeginTakeover(c, s, owner) ==
  /\ ~owner /\ (Hijack(c) \/ linger[s]) /\ feeder[s] # Nil
  /\ Running(s) \/ (Hijack(c) /\ sources < setup.limit)
  /\ sources' = IF Running(s) THEN sources ELSE sources + 1
  /\ aux' = [aux EXCEPT ![feeder[s]] = c]
  /\ switchover' = [switchover EXCEPT ![s] = TRUE]
  /\ Go(c, "switch") /\ Link(c, s)
  /\ UNCHANGED <<tree, life, running, terminating, sync, linger, feeder>>

Begin(c, s, owner) ==
  \/ BeginInUse(c, s, owner) \/ BeginFails(c, s, owner)
  \/ BeginOwn(c, s, owner) \/ BeginTakeover(c, s, owner)

(* source_reserve.  A new source ...                                       *)
Create(c) ==
  /\ pc[c] = "start" /\ shared[c] = Nil /\ tree = Nil
  /\ tree' = c /\ life' = [life EXCEPT ![c] = "live"]
  /\ Link(c, c)
  /\ \/ /\ sources < setup.limit
        /\ feeder' = [feeder EXCEPT ![c] = c]
        /\ IF c \in setup.bad
           THEN Go(c, "undo") /\ sources' = sources
           ELSE Go(c, "http") /\ sources' = sources + 1
     \/ sources >= setup.limit /\ Go(c, "undo") /\ UNCHANGED <<feeder, sources>>
  /\ UNCHANGED <<flags, aux>>

(* ... the one there is, not to be taken over ...                          *)
Refused(c) ==
  /\ pc[c] = "start" /\ shared[c] = Nil /\ tree # Nil
  /\ ~linger[tree] /\ ~Hijack(c)
  /\ Go(c, "gone")
  /\ UNCHANGED <<tree, life, flags, feeder, sources, shared, aux>>

(* ... or to be taken over ...                                             *)
Reserve(c) ==
  /\ pc[c] = "start" /\ shared[c] = Nil /\ tree # Nil
  /\ linger[tree] \/ Hijack(c)
  /\ ~sync[tree]
  /\ Begin(c, tree, FALSE)

(* ... unless its lock is taken or its listeners are being moved: the      *)
(* client remembers it and tries again.                                    *)
ReserveBusy(c) ==
  /\ pc[c] = "start" /\ shared[c] = Nil /\ tree # Nil
  /\ linger[tree] \/ Hijack(c)
  /\ sync[tree] \/ setup.contended
  /\ Link(c, tree)
  /\ UNCHANGED <<tree, life, flags, feeder, sources, pc, aux>>

Held(c) == shared[c] # Nil /\ life[shared[c]] = "live"

Retry(c) ==
  /\ pc[c] = "start" /\ Held(c)
  /\ Begin(c, shared[c], TRUE)

Freed(s) ==
  /\ tree' = IF tree = s THEN Nil ELSE tree
  /\ life' = [life EXCEPT ![s] = "freed"]

(* source_free_source, after the lock was given up.                        *)
Undo(c) ==
  /\ pc[c] = "undo" /\ Held(c)
  /\ Freed(shared[c])
  /\ Go(c, "gone") /\ Link(c, Nil)
  /\ UNCHANGED <<flags, feeder, sources, aux>>

(* source_client_switch_wait.                                              *)
SwitchWait(c) ==
  /\ pc[c] = "switch" /\ Held(c) /\ ~switchover[shared[c]]
  /\ linger' = [linger EXCEPT ![shared[c]] = FALSE]
  /\ Go(c, "http")
  /\ UNCHANGED <<tree, life, running, terminating, sync, switchover, feeder, sources,
                 shared, aux>>

(* source_client_http_send, then source_client_callback.                   *)
HttpSent(c) ==
  /\ pc[c] = "http" /\ Held(c)
  /\ running' = [running EXCEPT ![shared[c]] = TRUE]
  /\ Go(c, "feed")
  /\ UNCHANGED <<tree, life, terminating, sync, switchover, linger, feeder, sources,
                 shared, aux>>

(* Mutant: the client that goes before it feeds is not counted down.       *)
HttpFails_Counted(c) ==
  /\ pc[c] = "http" /\ Held(c)
  /\ Freed(shared[c])
  /\ Go(c, "gone") /\ Link(c, Nil)
  /\ UNCHANGED <<flags, feeder, sources, aux>>

HttpFails(c) ==
  /\ pc[c] = "http" /\ Held(c)
  /\ sources' = sources - 1
  /\ Freed(shared[c])
  /\ Go(c, "gone") /\ Link(c, Nil)
  /\ UNCHANGED <<flags, feeder, aux>>

-----------------------------------------------------------------------------
(* source_client_read.                                                     *)
Feeds(c) == pc[c] = "feed" /\ Held(c)

(* Mutant: the client that was taken over goes on.                         *)
Handover_KeepsLink(c) ==
  LET s == shared[c]
  IN /\ Feeds(c) /\ Running(s) /\ switchover[s]
     /\ switchover' = [switchover EXCEPT ![s] = FALSE]
     /\ linger' = [linger EXCEPT ![s] = FALSE]
     /\ feeder' = [feeder EXCEPT ![s] = aux[c]]
     /\ aux' = [aux EXCEPT ![c] = Nil]
     /\ UNCHANGED <<tree, life, running, terminating, sync, sources, pc, shared>>

(* Mutant: the client that takes over is not told.                         *)
Handover_Untold(c) ==
  LET s == shared[c]
  IN /\ Feeds(c) /\ Running(s) /\ switchover[s]
     /\ linger' = [linger EXCEPT ![s] = FALSE]
     /\ feeder' = [feeder EXCEPT ![s] = aux[c]]
     /\ aux' = [aux EXCEPT ![c] = Nil]
     /\ Go(c, "gone") /\ Link(c, Nil)
     /\ UNCHANGED <<tree, life, running, terminating, sync, switchover, sources>>

(* Somebody takes over.                                                    *)
Handover(c) ==
  LET s == shared[c]
  IN /\ Feeds(c) /\ Running(s) /\ switchover[s]
     /\ switchover' = [switchover EXCEPT ![s] = FALSE]
     /\ linger' = [linger EXCEPT ![s] = FALSE]
     /\ feeder' = [feeder EXCEPT ![s] = aux[c]]
     /\ aux' = [aux EXCEPT ![c] = Nil]
     /\ Go(c, "gone") /\ Link(c, Nil)
     /\ UNCHANGED <<tree, life, running, terminating, sync, sources>>

(* The stream ends but the source lingers (source_read).                   *)
StartsLinger(c) ==
  /\ Feeds(c) /\ Running(shared[c]) /\ ~switchover[shared[c]]
  /\ linger' = [linger EXCEPT ![shared[c]] = TRUE]
  /\ UNCHANGED <<tree, life, running, terminating, sync, switchover, feeder, sources,
                 pc, shared, aux>>

(* command_kill_source.                                                    *)
Kill(s) ==
  /\ setup.kill /\ life[s] = "live" /\ running[s]
  /\ running' = [running EXCEPT ![s] = FALSE]
  /\ UNCHANGED <<tree, life, terminating, sync, switchover, linger, feeder, sources,
                 pc, shared, aux>>

(* It ends, has lingered long enough, or was killed: source_shutdown.      *)
Ends(c) ==
  LET s == shared[c]
  IN /\ Feeds(c) /\ ~terminating[s]
     /\ \/ ~running[s] /\ UNCHANGED linger
        \/ running[s] /\ ~switchover[s] /\ linger' = [linger EXCEPT ![s] = FALSE]
     /\ running' = [running EXCEPT ![s] = FALSE]
     /\ terminating' = [terminating EXCEPT ![s] = TRUE]
     /\ sync' = [sync EXCEPT ![s] = TRUE]
     /\ Go(c, IF s \in setup.keeps THEN "feed" ELSE "drop")
     /\ UNCHANGED <<tree, life, switchover, feeder, sources, shared, aux>>

(* drop_source_from_tree: the source was unlocked in between.              *)
Drop(c) ==
  /\ pc[c] = "drop" /\ Held(c)
  /\ tree' = IF tree = shared[c] THEN Nil ELSE tree
  /\ Go(c, "feed")
  /\ UNCHANGED <<life, flags, feeder, sources, shared, aux>>

(* The listeners are gone: the source is freed, or kept reserved.          *)
Finish(c) ==
  LET s == shared[c]
  IN /\ Feeds(c) /\ terminating[s]
     /\ sync' = [sync EXCEPT ![s] = FALSE]
     /\ sources' = sources - 1
     /\ IF s \in setup.keeps
        THEN Go(c, "halt") /\ UNCHANGED <<life, shared>>
        ELSE Go(c, "gone") /\ Link(c, Nil) /\ life' = [life EXCEPT ![s] = "freed"]
     /\ UNCHANGED <<tree, running, terminating, switchover, linger, feeder, aux>>

(* source_client_shutdown, when the time is over.                          *)
Halt(c) ==
  /\ pc[c] = "halt" /\ Held(c)
  /\ Freed(shared[c])
  /\ Go(c, "gone") /\ Link(c, Nil)
  /\ UNCHANGED <<flags, feeder, sources, aux>>

Starting(c) ==
  Create(c) \/ Refused(c) \/ Reserve(c) \/ ReserveBusy(c) \/ Retry(c)

ClientStep(c) ==
  \/ Starting(c) \/ Undo(c) \/ SwitchWait(c) \/ HttpSent(c) \/ HttpFails(c)
  \/ Handover(c) \/ Drop(c) \/ Finish(c) \/ Halt(c)

Next ==
  /\ \E c \in Clients : Arrive(c) \/ ClientStep(c) \/ StartsLinger(c) \/ Ends(c) \/ Kill(c)
  /\ UNCHANGED setup

Spec == Init /\ [][Next]_vars

(* Every client is processed by its worker.                                *)
Fairness == \A c \in Clients : WF_vars(ClientStep(c) /\ UNCHANGED setup)

FairSpec == Spec /\ Fairness
-----------------------------------------------------------------------------
TypeOK ==
  /\ tree \in Sources \cup {Nil} /\ sources \in Int
  /\ life \in [Sources -> {"none", "live", "freed"}]
  /\ \A f \in {running, terminating, sync, switchover, linger} :
       f \in [Sources -> BOOLEAN]
  /\ feeder \in [Sources -> Clients \cup {Nil}]
  /\ pc \in [Clients -> {"none", "start", "undo", "switch", "http", "feed", "drop",
                         "halt", "gone"}]
  /\ \A c \in Clients :
       pc[c] \in {"undo", "switch", "http", "feed", "drop", "halt"} => shared[c] # Nil
  /\ shared \in [Clients -> Sources \cup {Nil}] /\ aux \in [Clients -> Clients \cup {Nil}]

On(s) == {c \in Clients : shared[c] = s /\ pc[c] \in {"http", "feed", "drop", "halt"}}

(* One client at a time feeds a source, and it is the one the source knows *)
(* (source_client_startup, source_client_read), however takeovers by       *)
(* clients that come one after another follow each other.                  *)
OneFeeder ==
  setup.alone =>
    \A s \in Sources : life[s] = "live" => \A c \in On(s) : On(s) = {c} /\ feeder[s] = c

(* Then a client never waits for, starts or feeds a source that is freed,  *)
(* and the tree never leads to one (source_reserve,                        *)
(* source_client_switch_wait, drop_source_from_tree).                      *)
NoDangling ==
  setup.alone =>
    /\ tree # Nil => life[tree] = "live"
    /\ \A c \in Clients : pc[c] # "gone" /\ shared[c] # Nil => life[shared[c]] = "live"

(* global.sources counts the sources that have been started and have not   *)
(* ended, whichever client started or ended them (source_client_startup).  *)
Started(s) ==
  /\ life[s] = "live"
  /\ \/ \E c \in On(s) : pc[c] # "halt"
     \/ feeder[s] # Nil /\ pc[feeder[s]] = "switch" /\ shared[feeder[s]] = s

SourcesRight ==
  setup.alone => sources = Cardinality({s \in Sources : Started(s)})

(* Nor does a takeover get past the limit, however takeovers overlap.      *)
LimitKept == sources <= setup.limit

(* A client that wants the mountpoint is turned away, told to wait or let  *)
(* on it in the end, and, if clients come one after another, one told to   *)
(* wait for the old one to make it live gets its turn                      *)
(* (source_client_startup, source_client_switch_wait): unless the source   *)
(* it remembers is freed meanwhile.                                        *)
Attempts(c) == pc[c] = "start" \/ (pc[c] = "switch" /\ setup.alone)

AttemptsEnd ==
  \A c \in Clients :
    Attempts(c) ~> ~Attempts(c) \/ (shared[c] # Nil /\ life[shared[c]] = "freed")

(* "get source link, should be always here" (src/src/source.c:3250).       *)
LinkAlwaysHere ==
  \A c \in Clients : pc[c] = "switch" => life[shared[c]] = "live"

(* "failed to get locks so retry again" (src/src/source.c:3290): the retry *)
(* is the same attempt, so only the source's creator starts it as its own. *)
RetrySame ==
  [][\A c \in Clients : pc[c] = "start" /\ pc'[c] = "http" => shared'[c] = c]_vars

(* "ask the original client to make us live on source"                     *)
(* (src/src/source.c:3345): the source is handed to each client that asked.*)
AskedIsLive ==
  [][\A c \in Clients :
       pc[c] = "switch" /\ pc'[c] = "http" => feeder[shared[c]] = c]_vars

(* A source is fed by one client at a time, and used by none after its end.*)
FedByOne == OneFeeder /\ NoDangling

(* The count of sources is right, and keeps to the limit.                  *)
SourcesCounted == TypeOK /\ SourcesRight /\ LimitKept

=============================================================================
