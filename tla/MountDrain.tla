----------------------------- MODULE MountDrain -----------------------------
(***************************************************************************)
(* How mountpoints end and how their listeners are handed over             *)
(* (src/src/source.c, with move_listener of auth.c and command_move_clients*)
(* of admin.c).                                                            *)
(*                                                                         *)
(* A source that ends, or whose listeners are called elsewhere, enters a   *)
(* phase (SOURCE_LISTENERS_SYNC) in which every listener is to be looked   *)
(* at once, by whichever worker owns it, while listener_check counts down; *)
(* the source's own worker polls the count.  Handlers run under the        *)
(* source's lock, but give it up to change it from read to write, and give *)
(* it up altogether while a listener is moved: each such window is a value *)
(* of call.  A mount can have two sources at once: the one draining is     *)
(* taken off the source tree first, so that a new one can start.           *)
(***************************************************************************)
EXTENDS Integers, FiniteSets

CONSTANTS
  Sources,       (* source_t instances, each of them used once.            *)
  Listeners,
  Mounts,        (* Mountpoint names.                                      *)
  Mount,         (* The name each source is for.                           *)
  Fallback,      (* The configured fallback of a mount, or NoMount.        *)
  Overrides,     (* Mounts configured with fallback-override.              *)
  Reserving,     (* Mounts configured with a wait-time.                    *)
  NoMount, NoSource, File,
  Prompt         (* Workers handle a listener within the second allowed.   *)

ASSUME MountAssumption ==
  /\ Mount \in [Sources -> Mounts]
  /\ Fallback \in [Mounts -> Mounts \cup {NoMount}]
  /\ NoMount \notin Mounts
  /\ NoSource \notin Sources /\ File \notin Sources /\ File # NoSource
  /\ Overrides \subseteq Mounts /\ Reserving \subseteq Mounts
  /\ Prompt \in BOOLEAN
  /\ IsFiniteSet(Listeners)

(* The state the refinement of MountService adds to the sources.           *)
ASSUME TransitAssumption == "transit" \notin Sources

VARIABLES
  source,        (* Where the source's client is: "none" yet, "read"       *)
                 (* (source_client_read), "drop" (the source unlocked,     *)
                 (* being taken off the tree), "halt", "gone".             *)
  tree,          (* SOURCE_RESERVED: found by name on global.source_tree.  *)
  fed,           (* source->stream_data is set.                            *)
  run,           (* SOURCE_RUNNING.                                        *)
  term,          (* SOURCE_TERMINATING.                                    *)
  sync,          (* SOURCE_LISTENERS_SYNC.                                 *)
  check,         (* source->listener_check.                                *)
  fallback,      (* source->fallback.mount.                                *)
  expired,       (* A second has passed since client->timer_start.         *)
  at,            (* client->shared_data: the source a listener is on.      *)
  ops,           (* listener_client_ops or listener_wait_ops.              *)
  call,          (* Where the handler of the listener is.                  *)
  old,           (* The source that handler was called for.                *)
  total,         (* global.listeners.                                      *)
  todo           (* History: on the source when the phase began and not    *)
                 (* counted down since.                                    *)

flags == <<source, tree, fed, run, term>>
phase == <<sync, check, fallback, expired, todo>>
lvars == <<at, ops, call, old, total>>
vars  == <<flags, phase, lvars>>

Clients(s) == {l \in Listeners : at[l] = s}

(* source_running.                                                         *)
Running(s) == run[s] /\ ~term[s]

(* source_available; a mutant of it without the phase.                     *)
Available_Calling(s) == run[s]

Available(s) == run[s] /\ ~sync[s]

(* source_find_mount_raw.                                                  *)
Find(m) == {s \in Sources : tree[s] /\ Mount[s] = m}

(* The mounts tried in turn from m on; as many as there are will do for    *)
(* the code's limits of 10, 15 and 20, a longer chain being a loop.        *)
Chain(m) ==
  LET hop[n \in 0..Cardinality(Mounts)] ==
        IF n = 0 THEN m
        ELSE IF hop[n - 1] = NoMount THEN NoMount ELSE Fallback[hop[n - 1]]
  IN hop

(* Sources that are first on the chain from m among those in set ok.       *)
FirstOn(m, ok) ==
  UNION {Find(Chain(m)[n]) \cap ok :
           n \in {k \in 0..Cardinality(Mounts) :
                    \A j \in 0..(k - 1) : Find(Chain(m)[j]) \cap ok = {}}}

Init ==
  /\ source = [s \in Sources |-> "none"]
  /\ tree = [s \in Sources |-> FALSE] /\ fed = [s \in Sources |-> FALSE]
  /\ run = [s \in Sources |-> FALSE] /\ term = [s \in Sources |-> FALSE]
  /\ sync = [s \in Sources |-> FALSE] /\ check = [s \in Sources |-> 0]
  /\ fallback = [s \in Sources |-> NoMount]
  /\ expired = [s \in Sources |-> TRUE]
  /\ at = [l \in Listeners |-> NoSource]
  /\ ops = [l \in Listeners |-> "client"]
  /\ call = [l \in Listeners |-> "idle"]
  /\ old = [l \in Listeners |-> NoSource]
  /\ total = 0
  /\ todo = [s \in Sources |-> {}]

-----------------------------------------------------------------------------
(* The source's own worker.                                                *)

(* source_reserve, source_startup and source_init: a name nobody has.      *)
Start(s) ==
  /\ source[s] = "none" /\ Find(Mount[s]) = {}
  /\ source' = [source EXCEPT ![s] = "read"]
  /\ tree' = [tree EXCEPT ![s] = TRUE]
  /\ run' = [run EXCEPT ![s] = TRUE]
  /\ UNCHANGED <<fed, term, phase, lvars>>

(* Sources running elsewhere on d's chain of overridden fallbacks, the     *)
(* first of them (source_set_override).                                    *)
Overridden(s) ==
  LET m == Mount[s]
      n == {k \in 1..Cardinality(Mounts) :
              /\ \A j \in 0..(k - 1) : Chain(m)[j] \in Overrides
              /\ \A j \in 1..k : Chain(m)[j] \notin {m, NoMount}
              /\ \A j \in 1..(k - 1) : \A r \in Find(Chain(m)[j]) : ~Running(r)}
  IN {r \in UNION {Find(Chain(m)[k]) : k \in n} : Running(r)}

(* Every listener of s is to be looked at.                                 *)
BeginPhase(s) ==
  /\ check' = [check EXCEPT ![s] = Cardinality(Clients(s))]
  /\ sync' = [sync EXCEPT ![s] = TRUE]
  /\ todo' = [todo EXCEPT ![s] = Clients(s)]

(* The first block of a stream calls the listeners of the fallback here.   *)
FirstBlock(s) ==
  /\ source[s] = "read" /\ Running(s) /\ ~sync[s] /\ ~fed[s]
  /\ fed' = [fed EXCEPT ![s] = TRUE]
  /\ LET called == {r \in Overridden(s) : Clients(r) # {} /\ fallback[r] = NoMount}
     IN IF called = {}
        THEN UNCHANGED phase
        ELSE \E r \in called :
               /\ BeginPhase(r)
               /\ fallback' = [fallback EXCEPT ![r] = Mount[s]]
               /\ expired' = [expired EXCEPT ![r] = FALSE]
  /\ UNCHANGED <<source, tree, run, term, lvars>>

(* The stream ends, times out, is killed, or the server stops.             *)
Stop(s) ==
  /\ source[s] = "read" /\ Running(s)
  /\ run' = [run EXCEPT ![s] = FALSE]
  /\ UNCHANGED <<source, tree, fed, term, phase, lvars>>

(* A second of real time has passed.                                       *)
Stuck(l, s) == at[l] = s /\ call[l] = "idle" /\ ops[l] = "wait" /\ ~term[s]

Expire(s) ==
  /\ source[s] \in {"read", "drop"} /\ ~expired[s]
  /\ Prompt /\ sync[s] => \A l \in Listeners :
                             Stuck(l, s) \/ (at[l] # s /\ old[l] # s)
  /\ expired' = [expired EXCEPT ![s] = TRUE]
  /\ UNCHANGED <<flags, sync, check, fallback, todo, lvars>>

(* source_read finds the phase over.                                       *)
EndPhase(s) ==
  /\ source[s] = "read" /\ Running(s) /\ sync[s] /\ check[s] <= 0
  /\ sync' = [sync EXCEPT ![s] = FALSE]
  /\ fallback' = [fallback EXCEPT ![s] = NoMount]
  /\ todo' = [todo EXCEPT ![s] = {}]
  /\ UNCHANGED <<flags, check, expired, lvars>>

(* All that had to leave did (the last part of source_client_read).        *)
Finish(s) ==
  /\ fallback' = [fallback EXCEPT ![s] = NoMount]
  /\ sync' = [sync EXCEPT ![s] = FALSE]
  /\ source' = [source EXCEPT ![s] = IF Mount[s] \in Reserving THEN "halt" ELSE "gone"]

(* source_shutdown.  Without a wait-time the source goes off the tree next,*)
(* unlocked; no fallback is set when the server is stopping.               *)
Shutdown(s) ==
  /\ term' = [term EXCEPT ![s] = TRUE]
  /\ run' = [run EXCEPT ![s] = FALSE]
  /\ expired' = [expired EXCEPT ![s] = FALSE]
  /\ IF Mount[s] \in Reserving /\ Clients(s) = {}
     THEN Finish(s) /\ UNCHANGED <<check, todo>>
     ELSE /\ BeginPhase(s)
          /\ \/ UNCHANGED fallback
             \/ /\ Clients(s) # {} /\ Fallback[Mount[s]] # NoMount
                /\ fallback' = [fallback EXCEPT ![s] = Fallback[Mount[s]]]
          /\ source' = [source EXCEPT ![s] = IF Mount[s] \in Reserving
                                             THEN "read" ELSE "drop"]
  /\ UNCHANGED <<tree, fed, lvars>>

(* source_read gives the phase up and source_client_read ends the source.  *)
PhaseTimeout(s) ==
  /\ source[s] = "read" /\ Running(s) /\ sync[s] /\ check[s] > 0 /\ expired[s]
  /\ Shutdown(s)

SourceShutdown(s) ==
  /\ source[s] = "read" /\ ~run[s] /\ ~term[s]
  /\ Shutdown(s)

(* A mutant of the next without the recheck of the listeners.             *)
Drain_NoRecheck(s) ==
  \/ /\ check[s] > 0
     /\ term' = [term EXCEPT ![s] = ~expired[s]]
     /\ source' = [source EXCEPT ![s] = "read"]
     /\ UNCHANGED <<phase, tree, fed, run, lvars>>
  \/ /\ check[s] <= 0
     /\ Finish(s)
     /\ UNCHANGED <<check, expired, todo, tree, fed, run, term, lvars>>

(* Some are still to be looked at: try again after a second.               *)
Drain(s) ==
  \/ /\ check[s] # 0 /\ check[s] <= Cardinality(Clients(s))
     /\ term' = [term EXCEPT ![s] = ~expired[s]]
     /\ source' = [source EXCEPT ![s] = "read"]
     /\ UNCHANGED <<phase, tree, fed, run, lvars>>
  \/ (* counted down, but some listeners are there still                   *)
     /\ check[s] = 0 \/ check[s] > Cardinality(Clients(s))
     /\ Clients(s) # {}
     /\ BeginPhase(s)
     /\ expired' = [expired EXCEPT ![s] = FALSE]
     /\ source' = [source EXCEPT ![s] = "read"]
     /\ UNCHANGED <<fallback, tree, fed, run, term, lvars>>
  \/ /\ check[s] = 0 \/ check[s] > Cardinality(Clients(s))
     /\ Clients(s) = {}
     /\ Finish(s)
     /\ UNCHANGED <<check, expired, todo, tree, fed, run, term, lvars>>

(* drop_source_from_tree; the source is locked again after it.             *)
OffTree(s) ==
  /\ source[s] = "drop" /\ tree[s]
  /\ tree' = [tree EXCEPT ![s] = FALSE]
  /\ UNCHANGED <<source, fed, run, term, phase, lvars>>

Drained(s) ==
  /\ term[s]
  /\ source[s] = "read" \/ (source[s] = "drop" /\ ~tree[s])
  /\ Drain(s)

(* source_client_shutdown: the reservation is over.                        *)
Halt(s) ==
  /\ source[s] = "halt"
  /\ tree' = [tree EXCEPT ![s] = FALSE]
  /\ source' = [source EXCEPT ![s] = "gone"]
  /\ UNCHANGED <<fed, run, term, phase, lvars>>

(* admin: the listeners of s are to go to mount m; a destination that is   *)
(* no mount's name is ignored, the phase begins all the same.              *)
MoveClients(s, m) ==
  /\ tree[s] /\ Available(s) /\ Clients(s) # {}
  /\ BeginPhase(s)
  /\ \/ fallback' = [fallback EXCEPT ![s] = m]
     \/ UNCHANGED fallback
  /\ UNCHANGED <<flags, expired, lvars>>

-----------------------------------------------------------------------------
(* The listeners' workers.                                                 *)

(* source_add_listener: a new client gets the first source available on    *)
(* the chain of fallbacks; with none it is refused.                        *)
Join(l, m) ==
  /\ at[l] = NoSource /\ call[l] = "idle"
  /\ \E s \in FirstOn(m, {r \in Sources : Available(r)}) :
       at' = [at EXCEPT ![l] = s]
  /\ ops' = [ops EXCEPT ![l] = "client"]
  /\ total' = total + 1
  /\ UNCHANGED <<flags, phase, call, old>>

(* A handler goes on to c, for source s.                                   *)
Goto(l, c) ==
  /\ call' = [call EXCEPT ![l] = c]
  /\ old' = [old EXCEPT ![l] = at[l]]

Handled(l, s) == at[l] = s /\ call[l] = "idle" /\ ops[l] = "client"

(* send_listener without a phase: the client is gone or out of time.       *)
Depart(l, s) ==
  /\ Handled(l, s) /\ ~sync[s]
  /\ Goto(l, "leave")
  /\ UNCHANGED <<flags, phase, at, ops, total>>

(* listener_waiting_on_source, up to giving up the read lock: a failed     *)
(* client is put off, others go to the fallback; without one they leave    *)
(* with a source that ends and wait with one that does not.                *)
LookAt(l, s) ==
  /\ Handled(l, s) /\ sync[s]
  /\ \/ Goto(l, "quit") /\ UNCHANGED ops
     \/ fallback[s] # NoMount /\ Goto(l, "detach") /\ UNCHANGED ops
     \/ fallback[s] = NoMount /\ term[s] /\ Goto(l, "drop") /\ UNCHANGED ops
     \/ /\ fallback[s] = NoMount /\ ~term[s] /\ Goto(l, "hold")
        /\ ops' = [ops EXCEPT ![l] = "wait"]
  /\ UNCHANGED <<flags, phase, at, total>>

(* wait_for_other_listeners; a mutant of it deaf to the source's end.      *)
WaitOver_Deaf(l, s) ==
  /\ at[l] = s /\ call[l] = "idle" /\ ops[l] = "wait"
  /\ ~sync[s] /\ ~term[s]
  /\ ops' = [ops EXCEPT ![l] = "client"]
  /\ UNCHANGED <<flags, phase, at, call, old, total>>

(* wait_for_other_listeners.                                               *)
WaitOver(l, s) ==
  /\ at[l] = s /\ call[l] = "idle" /\ ops[l] = "wait"
  /\ ~(sync[s] /\ ~term[s])
  /\ ops' = [ops EXCEPT ![l] = "client"]
  /\ UNCHANGED <<flags, phase, at, call, old, total>>

CountDown(l, s) ==
  /\ check' = [check EXCEPT ![s] = @ - 1]
  /\ todo' = [todo EXCEPT ![s] = @ \ {l}]

Idle(l) ==
  /\ call' = [call EXCEPT ![l] = "idle"]
  /\ old' = [old EXCEPT ![l] = NoSource]

Off(l) == at' = [at EXCEPT ![l] = NoSource]

(* The source is write locked again; a mutant counts it twice.             *)
Hold_Twice(l, s) ==
  /\ call[l] = "hold" /\ old[l] = s
  /\ check' = [check EXCEPT ![s] = @ - 2]
  /\ todo' = [todo EXCEPT ![s] = @ \ {l}]
  /\ Idle(l)
  /\ UNCHANGED <<flags, sync, fallback, expired, at, ops, total>>

(* The source is write locked again.                                       *)
Hold(l, s) ==
  /\ call[l] = "hold" /\ old[l] = s
  /\ CountDown(l, s) /\ Idle(l)
  /\ UNCHANGED <<flags, sync, fallback, expired, at, ops, total>>

Quit(l, s) ==
  /\ call[l] = "quit" /\ old[l] = s
  /\ Off(l) /\ CountDown(l, s) /\ Idle(l)
  /\ total' = total - 1
  /\ UNCHANGED <<flags, sync, fallback, expired, ops>>

(* A mutant of the next that takes the client off the total too soon.      *)
Dropped_Counts(l, s) ==
  /\ call[l] = "drop" /\ old[l] = s
  /\ CountDown(l, s)
  /\ Goto(l, "leave")
  /\ total' = total - 1
  /\ UNCHANGED <<flags, sync, fallback, expired, at, ops>>

(* Counted down, then source_listener_release changes locks once more.     *)
Dropped(l, s) ==
  /\ call[l] = "drop" /\ old[l] = s
  /\ CountDown(l, s)
  /\ Goto(l, "leave")
  /\ UNCHANGED <<flags, sync, fallback, expired, at, ops, total>>

Leave(l, s) ==
  /\ call[l] = "leave" /\ old[l] = s
  /\ Off(l) /\ Idle(l)
  /\ total' = total - 1
  /\ todo' = [todo EXCEPT ![s] = @ \ {l}]
  /\ UNCHANGED <<flags, sync, check, fallback, expired, ops>>

(* Off the source's list, and the source unlocked.                         *)
Detach(l, s) ==
  /\ call[l] = "detach" /\ old[l] = s
  /\ Off(l)
  /\ call' = [call EXCEPT ![l] = "move"]
  /\ UNCHANGED <<flags, phase, ops, old, total>>

(* move_listener: to the first source available on the chain from the      *)
(* fallback, or else to a file of that name, if there is one.              *)
Move(l, s) ==
  /\ call[l] = "move" /\ old[l] = s
  /\ LET to == FirstOn(fallback[s], {r \in Sources : Available(r)})
     IN IF to # {}
        THEN \E r \in to : at' = [at EXCEPT ![l] = r]
        ELSE at' = at \/ at' = [at EXCEPT ![l] = File]
  /\ ops' = [ops EXCEPT ![l] = "client"]
  /\ call' = [call EXCEPT ![l] = "back"]
  /\ UNCHANGED <<flags, phase, old, total>>

(* A mutant of the next that forgets the client that found no place.       *)
Back_Lost(l, s) ==
  /\ call[l] = "back" /\ old[l] = s
  /\ CountDown(l, s) /\ Idle(l)
  /\ UNCHANGED <<flags, sync, fallback, expired, at, ops, total>>

(* listener_waiting_on_source locks the source it came from to count down; *)
(* a client that found no place is released.                               *)
Back(l, s) ==
  /\ call[l] = "back" /\ old[l] = s
  /\ CountDown(l, s) /\ Idle(l)
  /\ total' = IF at[l] = NoSource THEN total - 1 ELSE total
  /\ UNCHANGED <<flags, sync, fallback, expired, at, ops>>

(* A client of the file server is done (outside this module).              *)
FileDone(l) ==
  /\ at[l] = File /\ call[l] = "idle"
  /\ Off(l)
  /\ total' = total - 1
  /\ UNCHANGED <<flags, phase, ops, call, old>>

SourceStep(s) ==
  Start(s) \/ FirstBlock(s) \/ Stop(s) \/ EndPhase(s) \/ PhaseTimeout(s)
    \/ SourceShutdown(s) \/ OffTree(s) \/ Drained(s) \/ Halt(s)

HandlerStep(l, s) ==
  LookAt(l, s) \/ WaitOver(l, s) \/ Hold(l, s) \/ Quit(l, s) \/ Dropped(l, s)
    \/ Leave(l, s) \/ Detach(l, s) \/ Move(l, s) \/ Back(l, s)

Next ==
  \/ \E s \in Sources : SourceStep(s) \/ Expire(s)
  \/ \E s \in Sources, m \in Mounts : MoveClients(s, m)
  \/ \E l \in Listeners, m \in Mounts : Join(l, m)
  \/ \E l \in Listeners, s \in Sources : HandlerStep(l, s) \/ Depart(l, s)
  \/ \E l \in Listeners : FileDone(l)

Spec == Init /\ [][Next]_vars

(* Each worker runs its clients again and again, and time passes.          *)
Polling(s) ==
  EndPhase(s) \/ PhaseTimeout(s) \/ SourceShutdown(s) \/ OffTree(s) \/ Drained(s)

Fairness ==
  /\ \A s \in Sources : WF_vars(Polling(s)) /\ WF_vars(Expire(s))
  /\ \A l \in Listeners : WF_vars(\E s \in Sources : HandlerStep(l, s))

FairSpec == Spec /\ Fairness
-----------------------------------------------------------------------------
(* Type correctness; a handler's source is the listener's own, until it is *)
(* taken off it.                                                           *)
TypeOK ==
  /\ source \in [Sources -> {"none", "read", "drop", "halt", "gone"}]
  /\ tree \in [Sources -> BOOLEAN] /\ fed \in [Sources -> BOOLEAN]
  /\ run \in [Sources -> BOOLEAN] /\ term \in [Sources -> BOOLEAN]
  /\ sync \in [Sources -> BOOLEAN] /\ check \in [Sources -> Int]
  /\ fallback \in [Sources -> Mounts \cup {NoMount}]
  /\ expired \in [Sources -> BOOLEAN]
  /\ at \in [Listeners -> Sources \cup {NoSource, File}]
  /\ ops \in [Listeners -> {"client", "wait"}]
  /\ call \in [Listeners -> {"idle", "quit", "hold", "drop", "leave", "detach",
                             "move", "back"}]
  /\ old \in [Listeners -> Sources \cup {NoSource}]
  /\ total \in Nat
  /\ todo \in [Sources -> SUBSET Listeners]
  /\ \A l \in Listeners :
       /\ call[l] \in {"quit", "hold", "drop", "leave", "detach"} => at[l] = old[l]
       /\ call[l] = "idle" <=> old[l] = NoSource

(* A mountpoint that ended, or is only reserved, holds no listener: no one *)
(* joins or is moved to a source that is on its way out (source_available, *)
(* the recheck of source_client_read).                                     *)
EndedIsEmpty ==
  \A s \in Sources : source[s] \in {"none", "halt", "gone"} => Clients(s) = {}

(* While listeners are called away from a source that goes on, those not   *)
(* looked at yet are no more than listener_check says, so that the phase   *)
(* does not end before everyone was (source_read).                         *)
CheckCovers ==
  \A s \in Sources : Running(s) /\ sync[s] => Cardinality(todo[s]) <= check[s]

(* global.listeners is the number of listeners on a source, on a file or   *)
(* between the two, whichever way they went.                               *)
TotalIsRight ==
  total = Cardinality({l \in Listeners : at[l] # NoSource \/ call[l] \in {"move", "back"}})

(* The mountpoints as their listeners see them: see MountService.          *)
Lives ==
  [s \in Sources |-> CASE source[s] = "none"             -> "none"
                       [] source[s] \in {"halt", "gone"} -> "over"
                       [] source[s] \in {"read", "drop"} ->
                            IF run[s] THEN "open" ELSE "ending"]

Where ==
  [l \in Listeners |->
     IF at[l] = NoSource /\ call[l] \in {"move", "back"} THEN "transit" ELSE at[l]]

Service == INSTANCE MountService
  WITH Nowhere <- NoSource, Transit <- "transit",
       life <- Lives, calling <- {s \in Sources : sync[s]}, where <- Where

(* This is an implementation of it: whatever the workers' interleaving, a  *)
(* listener is never put on a source that is on its way out or calls its   *)
(* own listeners elsewhere, is moved only when called, and a source ends   *)
(* only when it has none (source_available under the source's lock in      *)
(* move_listener and source_add_listener; source_client_read).             *)
ImplementsService == Service!Spec

(* Once a source stops, its listeners are moved or dropped and it ends.    *)
SourceEnds ==
  \A s \in Sources :
    source[s] = "read" /\ ~run[s] ~> source[s] \in {"halt", "gone"}

(* A listener told to wait for the others is served again, or leaves.      *)
WaitEnds ==
  \A l \in Listeners : ops[l] = "wait" ~> ops[l] = "client"

(* Whatever stops or waits comes to an end: no source stops for ever and   *)
(* no listener waits for ever.                                             *)
AllEnd == SourceEnds /\ WaitEnds

(* _free_source: "There should be no listeners on this mount"              *)
(* (src/src/source.c:344), nor one whose handler will lock it again.       *)
FreedUnused ==
  \A s \in Sources : source[s] = "gone" => \A l \in Listeners : old[l] # s

(* source_read stops a source "as sync mode lasted too long"               *)
(* (src/src/source.c:878): not while someone's turn is still to come.      *)
StoppedAfterWaiting ==
  [][\A s \in Sources : PhaseTimeout(s) => \A l \in todo[s] : Stuck(l, s)]_vars

(* wait_for_other_listeners is "used to hold listeners that have already   *)
(* been processed" (src/src/source.c:1497).                                *)
WaitersProcessed ==
  \A s \in Sources, l \in Listeners :
    Running(s) /\ sync[s] /\ Stuck(l, s) => l \notin todo[s]
=============================================================================
