------------------------------- MODULE Worker -------------------------------
(***************************************************************************)
(* One worker thread and its clients (src/src/client.c).                   *)
(*                                                                         *)
(* The clients of a worker are on three singly linked lists: pending, to   *)
(* which any thread may add under the worker's lock, and the normal and    *)
(* fast lists, which only the worker touches.  It walks them with a        *)
(* pointer to the pointer that leads to the client at hand (prevp), keeps  *)
(* one to the end of each list, and moves clients from list to list while  *)
(* it walks; it works without the lock while a client is processed, and    *)
(* the client may be on another worker, or back again, before it returns.  *)
(* mem is the memory those pointers point into: a slot is the head of a    *)
(* list or the next_on_worker of a client.                                 *)
(***************************************************************************)
EXTENDS Integers, FiniteSets

CONSTANTS
  Clients,
  Nil,           (* The null pointer.                                      *)
  FastLimit,     (* Turns on the fast list (4).                            *)
  MaxRun,        (* Clients processed between two waits (1000).            *)
  MaxOwed,       (* Bound of the model: threads about to write the pipe.   *)
  MayStop        (* The worker may be told to stop.                        *)

ASSUME WorkerAssumption ==
  /\ IsFiniteSet(Clients) /\ Nil \notin Clients
  /\ Clients \cap {"norm", "fast", "pend"} = {}
  /\ FastLimit \in Nat /\ MaxRun \in Nat \ {0} /\ MaxOwed \in Nat \ {0}
  /\ MayStop \in BOOLEAN

Lists == {"norm", "fast", "pend"}
Slots == Lists \cup Clients
Ptr   == Clients \cup {Nil}

VARIABLES
  mem,           (* What each slot points to.                              *)
  tail,          (* last_p, fast_tailp and pending_tailp: slots.           *)
  count,
  worker_pending, (* worker->pending_count.                               *)
  on,            (* History: the clients given to this worker and not      *)
                 (* taken off it since.                                    *)
  running,       (* worker->running.                                       *)
  owed,          (* Threads between adding a client, or stopping the       *)
                 (* worker, and worker_wakeup.                             *)
  pipe,          (* The wakeup pipe holds bytes.                           *)
  pc,            (* Where the worker thread is.                            *)
  prevp, normal, after,
                 (* wc: the slot walked to, WKRC_NORMAL_CLIENTS and        *)
                 (* WKRC_NORMAL_AFTER.                                     *)
  run_left,      (* wc->max_run.                                           *)
  fresh,         (* wc->sched_ms is 0.                                     *)
  noted,         (* The clients wc->wakeup_ms is not later than.           *)
  cur, nxc,      (* The client at hand and its successor when picked.      *)
  handed,        (* It was given away, or is done, in its process call.    *)
  alive,         (* running, as worker_wait read it.                       *)
  fast_count,    (* client->fast_count.                                    *)
  soon           (* The clients whose schedule_ms is at most 2 ms away.    *)

lists == <<mem, tail, count>>
walk  == <<prevp, normal, after, run_left, fresh, noted, cur, nxc, handed, alive>>
sched == <<fast_count, soon>>
workerVars  == <<lists, worker_pending, on, running, owed, pipe, pc, walk, sched>>

WorkerInit ==
  /\ mem = [s \in Slots |-> Nil] /\ tail = [l \in Lists |-> l]
  /\ count = 0 /\ worker_pending = 0 /\ on = {}
  /\ running = TRUE /\ owed = 0 /\ pipe = FALSE
  /\ pc = "pick"
  /\ prevp = "norm" /\ normal = TRUE /\ after = FALSE
  /\ run_left = MaxRun /\ fresh = TRUE /\ noted = {}
  /\ cur = Nil /\ nxc = Nil /\ handed = FALSE /\ alive = TRUE
  /\ fast_count = [c \in Clients |-> 0] /\ soon = {}

-----------------------------------------------------------------------------
(* Other threads.                                                          *)

(* worker_add_client under the worker's lock, from client_add_worker,      *)
(* client_add_incoming or client_change_worker; the pipe is written after. *)
Add(c) ==
  /\ c \notin on /\ owed < MaxOwed /\ pc # "exit"
  /\ mem' = [mem EXCEPT ![c] = Nil, ![tail["pend"]] = c]
  /\ tail' = [tail EXCEPT !["pend"] = c]
  /\ worker_pending' = worker_pending + 1
  /\ on' = on \cup {c}
  /\ owed' = owed + 1
  /\ soon' \in {soon, soon \cup {c}}
  /\ UNCHANGED <<count, running, pipe, pc, walk, fast_count>>

Wakeup ==
  /\ owed > 0
  /\ owed' = owed - 1 /\ pipe' = TRUE
  /\ UNCHANGED <<lists, worker_pending, on, running, pc, walk, sched>>

(* worker_stop.                                                            *)
Stop ==
  /\ MayStop /\ running /\ owed < MaxOwed
  /\ running' = FALSE /\ owed' = owed + 1
  /\ UNCHANGED <<lists, worker_pending, on, pipe, pc, walk, sched>>

(* Time passes.                                                            *)
Tick(c) ==
  /\ c \in on \ soon
  /\ soon' = soon \cup {c}
  /\ UNCHANGED <<lists, worker_pending, on, running, owed, pipe, pc, walk, fast_count>>

-----------------------------------------------------------------------------
(* The worker thread.                                                      *)

others == <<worker_pending, on, running, owed, pipe>>

Here == IF normal THEN "norm" ELSE "fast"

(* worker_pick_client, up to its loop.                                     *)
Pick ==
  /\ pc = "pick" /\ run_left > 0
  /\ noted' = IF fresh THEN {} ELSE noted
  /\ fresh' = FALSE
  /\ cur' = mem[prevp]
  /\ pc' = "scan"
  /\ UNCHANGED <<lists, others, prevp, normal, after, run_left, nxc, handed, alive, sched>>

(* Enough for now: wakeup_ms is the present.                               *)
PickLimit ==
  /\ pc = "pick" /\ run_left = 0
  /\ noted' = Clients /\ fresh' = TRUE
  /\ pc' = "check"
  /\ UNCHANGED <<lists, others, prevp, normal, after, run_left, cur, nxc, handed, alive, sched>>

(* The end of a list: the normal list follows, or the walk is over.        *)
ScanEnd ==
  /\ pc = "scan" /\ cur = Nil
  /\ IF after
     THEN /\ normal' = TRUE /\ after' = FALSE /\ prevp' = "norm"
          /\ cur' = mem["norm"] /\ pc' = pc
     ELSE /\ pc' = "check" /\ UNCHANGED <<normal, after, prevp, cur>>
  /\ UNCHANGED <<lists, others, run_left, fresh, noted, nxc, handed, alive, sched>>

(* A client to process: the lock is given up.                              *)
ScanRun ==
  /\ pc = "scan" /\ cur # Nil
  /\ ~running \/ ~normal \/ cur \in soon
  /\ run_left' = run_left - 1
  /\ nxc' = mem[cur]
  /\ pc' = "run"
  /\ UNCHANGED <<lists, others, prevp, normal, after, fresh, noted, cur, handed, alive, sched>>

(* c goes from the list at hand to the end of list l.                      *)
Shift(c, l) ==
  /\ mem' = [mem EXCEPT ![tail[l]] = c, ![c] = Nil, ![prevp] = mem[c]]
  /\ tail' = [tail EXCEPT ![l] = c,
                          ![Here] = IF mem[c] = Nil THEN prevp ELSE @]
  /\ UNCHANGED <<count, prevp>>

(* On to the next client, if there is one.                                 *)
Proceed(c) ==
  /\ prevp' = IF mem[c] # Nil THEN c ELSE prevp
  /\ UNCHANGED lists

(* Mutant: a fast client is never done with the fast list.                 *)
NextClient_NoLimit(c, quick) ==
  /\ \/ quick /\ normal /\ Shift(c, "fast")
     \/ quick /\ ~normal /\ Proceed(c)
     \/ ~quick /\ normal /\ Proceed(c)
     \/ ~quick /\ ~normal /\ Shift(c, "norm")
  /\ noted' = IF quick THEN noted ELSE noted \cup {c}
  /\ UNCHANGED fast_count

(* worker_next_client for client c, with its schedule close or not.        *)
NextClient(c, close) ==
  LET quick == close /\ fast_count[c] < FastLimit
  IN /\ \/ quick /\ normal /\ Shift(c, "fast") /\ UNCHANGED fast_count
        \/ /\ quick /\ ~normal /\ Proceed(c)
           /\ fast_count' = [fast_count EXCEPT ![c] = @ + 1]
        \/ /\ ~quick
           /\ IF normal THEN Proceed(c) ELSE Shift(c, "norm")
           /\ fast_count' = [fast_count EXCEPT ![c] = 0]
     /\ noted' = IF quick THEN noted ELSE noted \cup {c}

(* A client whose time has not come; worker->time_ms may be later than the *)
(* time the walk began with.                                               *)
ScanSkip ==
  /\ pc = "scan" /\ cur # Nil
  /\ running /\ normal /\ cur \notin soon
  /\ \E close \in BOOLEAN : NextClient(cur, close)
  /\ cur' = mem[cur]
  /\ UNCHANGED <<others, pc, normal, after, run_left, fresh, nxc, handed, alive, soon>>

(* The client is processed, has a new schedule and stays.                  *)
ProcessStays ==
  /\ pc = "run" /\ ~handed
  /\ \E close \in BOOLEAN :
       /\ soon' = IF close THEN soon \cup {cur} ELSE soon \ {cur}
       /\ NextClient(cur, close)
  /\ pc' = "pick"
  /\ UNCHANGED <<others, normal, after, run_left, fresh, cur, nxc, handed, alive>>

(* The process call gives the client to another worker, whose lists then   *)
(* use its next_on_worker, or is the client's last.                        *)
ProcessGives ==
  /\ pc = "run" /\ ~handed
  /\ handed' = TRUE
  /\ on' = on \ {cur}
  /\ soon' = soon \ {cur}
  /\ \E x \in Ptr \ on : mem' = [mem EXCEPT ![cur] = x]
  /\ UNCHANGED <<tail, count, worker_pending, running, owed, pipe, pc, prevp, normal,
                 after, run_left, fresh, noted, cur, nxc, alive, fast_count>>

(* Mutant: the successor is read after the client was given away.          *)
Removed_Late ==
  /\ pc = "run" /\ handed
  /\ count' = count - 1
  /\ mem' = [mem EXCEPT ![prevp] = mem[cur]]
  /\ tail' = IF mem[cur] = Nil THEN [tail EXCEPT ![Here] = prevp] ELSE tail
  /\ handed' = FALSE /\ pc' = "pick"
  /\ UNCHANGED <<others, prevp, normal, after, run_left, fresh, noted, cur, nxc, alive, sched>>

(* worker_removed_client.                                                  *)
Removed ==
  /\ pc = "run" /\ handed
  /\ count' = count - 1
  /\ mem' = [mem EXCEPT ![prevp] = nxc]
  /\ tail' = IF nxc = Nil THEN [tail EXCEPT ![Here] = prevp] ELSE tail
  /\ handed' = FALSE /\ pc' = "pick"
  /\ UNCHANGED <<others, prevp, normal, after, run_left, fresh, noted, cur, nxc, alive, sched>>

(* The walk is over.                                                       *)
Check ==
  /\ pc = "check"
  /\ alive' = running
  /\ pc' = IF ~running /\ count = 0 /\ worker_pending = 0 THEN "relocate" ELSE "wait"
  /\ UNCHANGED <<lists, others, prevp, normal, after, run_left, fresh, noted, cur,
                 nxc, handed, sched>>

(* worker_wait without the lock.  A worker told to stop goes on at once.   *)
WaitStopped ==
  /\ pc = "wait" /\ ~alive
  /\ prevp' = "fast" /\ normal' = FALSE /\ after' = TRUE
  /\ run_left' = MaxRun /\ pc' = "pick"
  /\ UNCHANGED <<lists, others, fresh, noted, cur, nxc, handed, alive, sched>>

(* After the normal list, with less than 5 ms to wait or more: the fast    *)
(* list, or sleep.                                                         *)
WaitNormal ==
  /\ pc = "wait" /\ alive /\ normal
  /\ after' \in {after, TRUE}
  /\ IF mem["fast"] # Nil
     THEN prevp' = "fast" /\ normal' = FALSE /\ run_left' = MaxRun /\ pc' = "pick"
     ELSE pc' = "sleep" /\ UNCHANGED <<prevp, normal, run_left>>
  /\ UNCHANGED <<lists, others, fresh, noted, cur, nxc, handed, alive, sched>>

(* The end of worker_wait.                                                 *)
Rewalk ==
  /\ normal' = (mem'["fast"] = Nil)
  /\ prevp' = IF mem'["fast"] = Nil THEN "norm" ELSE "fast"
  /\ after' = IF mem'["fast"] = Nil THEN FALSE ELSE after
  /\ run_left' = MaxRun /\ fresh' = TRUE
  /\ pc' = "pick"

(* Nothing to wait for after the fast list alone, or nothing came.         *)
WaitOver ==
  /\ \/ pc = "wait" /\ alive /\ ~normal
     \/ pc = "sleep" /\ ~pipe
  /\ UNCHANGED lists
  /\ Rewalk
  /\ UNCHANGED <<others, noted, cur, nxc, handed, alive, sched>>

(* Mutant: the pipe is emptied after the pending clients are looked for.   *)
ReadPipe_Late ==
  /\ pc = "sleep" /\ pipe
  /\ pipe' = FALSE
  /\ UNCHANGED <<lists, worker_pending, on, running, owed>>
  /\ Rewalk
  /\ UNCHANGED <<noted, cur, nxc, handed, alive, sched>>

ReadPipe ==
  /\ pc = "sleep" /\ pipe
  /\ pipe' = FALSE /\ pc' = "take"
  /\ UNCHANGED <<lists, worker_pending, on, running, owed, walk, sched>>

(* worker_add_pending_clients.                                             *)
TakePending ==
  /\ pc = "take"
  /\ IF mem["pend"] # Nil
     THEN /\ mem' = [mem EXCEPT ![tail["fast"]] = mem["pend"], !["pend"] = Nil]
          /\ tail' = [tail EXCEPT !["fast"] = tail["pend"], !["pend"] = "pend"]
          /\ count' = count + worker_pending /\ worker_pending' = 0
     ELSE UNCHANGED <<lists, worker_pending>>
  /\ Rewalk
  /\ UNCHANGED <<on, running, owed, pipe, noted, cur, nxc, handed, alive, sched>>

(* worker_relocate_clients: a client that became pending in between is     *)
(* waited for, with a worker_wait that never takes it.                     *)
Relocate ==
  /\ pc = "relocate" /\ worker_pending = 0
  /\ pc' = "exit"
  /\ UNCHANGED <<lists, others, walk, sched>>

WorkerStep ==
  Pick \/ PickLimit \/ ScanEnd \/ ScanRun \/ ScanSkip \/ ProcessStays \/ ProcessGives
    \/ Removed \/ Check \/ WaitStopped \/ WaitNormal \/ WaitOver \/ ReadPipe
    \/ TakePending \/ Relocate

WorkerNext == WorkerStep \/ Wakeup \/ Stop \/ \E c \in Clients : Add(c) \/ Tick(c)

WorkerSpec == WorkerInit /\ [][WorkerNext]_workerVars

(* The thread is scheduled, a thread that added a client writes the pipe,  *)
(* and schedules come.                                                     *)
WorkerFairness ==
  /\ WF_workerVars(WorkerStep)
  /\ WF_workerVars(Wakeup)
  /\ \A c \in Clients : WF_workerVars(Tick(c))

WorkerFairSpec == WorkerSpec /\ WorkerFairness
-----------------------------------------------------------------------------
(* The memory as it is once the client given away is taken off its list.   *)
Heap == IF handed THEN [mem EXCEPT ![prevp] = nxc] ELSE mem

(* The client n hops down a list, and the slots of the list.               *)
Hop(l) ==
  LET heap == Heap
      hop[n \in 0..Cardinality(Clients)] ==
        IF n = 0 THEN heap[l]
        ELSE LET c == hop[n - 1] IN IF c = Nil THEN Nil ELSE heap[c]
  IN hop

Listed(l) == {Hop(l)[n] : n \in 0..Cardinality(Clients)} \ {Nil}

WorkerTypeOK ==
  /\ mem \in [Slots -> Ptr] /\ tail \in [Lists -> Slots]
  /\ count \in Nat /\ worker_pending \in Nat
  /\ on \subseteq Clients /\ soon \subseteq Clients /\ noted \subseteq Clients
  /\ running \in BOOLEAN /\ alive \in BOOLEAN /\ pipe \in BOOLEAN
  /\ owed \in 0..MaxOwed
  /\ pc \in {"pick", "scan", "run", "check", "wait", "sleep", "take", "relocate", "exit"}
  /\ prevp \in Slots /\ normal \in BOOLEAN /\ after \in BOOLEAN
  /\ run_left \in 0..MaxRun /\ fresh \in BOOLEAN
  /\ cur \in Ptr /\ nxc \in Ptr /\ handed \in BOOLEAN
  /\ fast_count \in [Clients -> 0..FastLimit]
  /\ pc = "run" => cur # Nil

(* Every client given to the worker is on exactly one of its lists, each   *)
(* list ends, at the slot its tail pointer points to, and the counts are   *)
(* right: no client is lost, or processed after it was given away, by the  *)
(* moves between the lists (worker_next_client, worker_removed_client,     *)
(* worker_add_pending_clients).                                            *)
ListsSound ==
  LET norm == Listed("norm")
      fast == Listed("fast")
      pend == Listed("pend")
      Ends(l, members) ==
        /\ Hop(l)[Cardinality(Clients)] = Nil
        /\ \/ tail[l] \in members \cup {l} /\ Heap[tail[l]] = Nil
           \/ handed /\ tail[l] = cur /\ nxc = Nil /\ l = Here
  IN /\ on = norm \cup fast \cup pend
     /\ norm \cap fast = {} /\ norm \cap pend = {} /\ fast \cap pend = {}
     /\ Ends("norm", norm) /\ Ends("fast", fast) /\ Ends("pend", pend)
     /\ Cardinality(norm) + Cardinality(fast) = (IF handed THEN count - 1 ELSE count)
     /\ Cardinality(pend) = worker_pending

(* No wakeup is lost: while clients are pending the pipe is not empty, or  *)
(* is about to be written, or they are about to be taken (worker_wakeup,   *)
(* worker_wait).                                                           *)
NoLostWakeup == mem["pend"] # Nil => pipe \/ owed > 0 \/ pc = "take"

(* The worker sleeps no longer than until the first schedule of a client   *)
(* on its lists: wakeup_ms took account of every one of them               *)
(* (worker_next_client, worker_pick_client, worker_wait).                  *)
NoOversleep == pc = "sleep" => Listed("norm") \cup Listed("fast") \subseteq noted

(* A client on the normal or fast list gets its turn, whatever the others  *)
(* ask for: the fast list cannot keep the normal one waiting for ever      *)
(* (fast_count, WKRC_NORMAL_AFTER, worker_wait).                           *)
Served(c) ==
  c \in Listed("norm") \cup Listed("fast")
    ~> (cur = c /\ pc = "run") \/ c \notin on \/ ~running

(* A pending client is taken on, if the worker gets to sleep now and then: *)
(* while every walk leaves a client on the fast list it does not.          *)
TakenOn(c) ==
  []<>(pc = "sleep") => (c \in Listed("pend") ~> c \notin Listed("pend") \/ ~running)

(* slave_shutdown will "stall until workers have shut down"                *)
(* (src/src/slave.c:272): a worker told to stop does so, unless it still   *)
(* has a client to process.                                                *)
StopsWhenIdle ==
  ~running ~> pc = "exit" \/ Listed("norm") \cup Listed("fast") # {}

(* No client is lost from the lists while it is moved between them, nor    *)
(* slept past (worker_next_client, worker_pick_client).                    *)
ListsKept == WorkerTypeOK /\ ListsSound /\ NoOversleep

=============================================================================
