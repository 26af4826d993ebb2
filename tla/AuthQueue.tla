----------------------------- MODULE AuthQueue -----------------------------
(***************************************************************************)
(* The authenticator of a mountpoint (src/src/auth.c): requests that wait  *)
(* for a backend are queued on its auth_t, and up to `handlers' threads,   *)
(* started when there is work and gone when there is none, answer them.    *)
(* The auth_t is counted: by the mount_proxy of the configuration, itself  *)
(* counted by whoever looks the mount up (src/src/cfgfile.c), and by every *)
(* handler thread.  A reload may drop the mount_proxy at any time.         *)
(***************************************************************************)
EXTENDS Integers, Sequences, FiniteSets

CONSTANTS
  Workers,       (* Threads that queue requests.                           *)
  Handlers,      (* auth->handles.                                         *)
  Listeners,     (* Requests that the pending limit applies to.            *)
  Events,        (* Stream starts, stream ends and listeners that left.    *)
  None,
  PendingLimit,  (* 400.                                                   *)
  SkipIfSlow,    (* AUTH_SKIP_IF_SLOW.                                     *)
  MaxLeaks       (* Bound of the model: references move_listener forgets;  *)
                 (* with 0 no listener is moved.                           *)

ASSUME AuthAssumption ==
  /\ IsFiniteSet(Workers) /\ IsFiniteSet(Handlers) /\ Handlers # {}
  /\ Listeners \cap Events = {} /\ None \notin Listeners \cup Events
  /\ PendingLimit \in Nat /\ SkipIfSlow \in BOOLEAN /\ MaxLeaks \in Nat

Requests == Listeners \cup Events

VARIABLES
  queue, pending_count, refcount, freed,  (* The auth_t.                   *)
  thread,        (* The handler thread of each handle, or "none".          *)
  work,          (* The request each thread has taken.                     *)
  config,        (* The mount_proxy in the configuration: "listed",        *)
                 (* "dropped" by a reload, "clear" or "gone"; history:     *)
                 (* "lost" when nobody will clear it.                      *)
  mountref,      (* Its _refcount.                                         *)
  leaked,        (* History: references that will never be dropped.        *)
  at, req,       (* Where each worker is, and with which request.          *)
  state,         (* What became of each request.                           *)
  allow_auth,
  stopped        (* auth_lock is destroyed.                                *)

auth  == <<queue, pending_count, refcount, freed>>
mount == <<config, mountref, leaked>>
vars  == <<auth, thread, work, mount, at, req, state, allow_auth, stopped>>

Init ==
  /\ queue = <<>> /\ pending_count = 0 /\ refcount = 1 /\ freed = FALSE
  /\ thread = [i \in Handlers |-> "none"] /\ work = [i \in Handlers |-> None]
  /\ config = "listed" /\ mountref = 1 /\ leaked = 0
  /\ at = [w \in Workers |-> "idle"] /\ req = [w \in Workers |-> None]
  /\ state = [r \in Requests |-> "new"]
  /\ allow_auth = TRUE /\ stopped = FALSE

-----------------------------------------------------------------------------
(* auth_release, with auth->lock held.                                     *)
AuthRelease ==
  /\ refcount' = refcount - 1
  /\ freed' = (refcount = 1)

(* config_release_mount: whoever drops the last reference clears the       *)
(* mount_proxy.                                                            *)
Last == mountref = 1
Unref == mountref' = mountref - 1 /\ UNCHANGED <<config, leaked>>

(* Mutant: the pending requests are not limited.                           *)
Arrive_NoLimit(w, r) ==
  /\ allow_auth /\ config = "listed" /\ at[w] = "idle" /\ state[r] = "new"
  /\ mountref' = mountref + 1
  /\ at' = [at EXCEPT ![w] = "checked"] /\ req' = [req EXCEPT ![w] = r]
  /\ state' = [state EXCEPT ![r] = "held"]
  /\ UNCHANGED <<auth, thread, work, config, leaked, allow_auth, stopped>>

(* A request finds the mount_proxy; a new listener is turned away, or let  *)
(* in without, when too many wait.  The count is read without the lock.    *)
Arrive(w, r) ==
  /\ allow_auth /\ config = "listed" /\ at[w] = "idle" /\ state[r] = "new"
  /\ mountref' = mountref + 1
  /\ req' = [req EXCEPT ![w] = r]
  /\ IF r \in Listeners /\ pending_count > PendingLimit
     THEN /\ at' = [at EXCEPT ![w] = "release"]
          /\ state' = [state EXCEPT ![r] = IF SkipIfSlow THEN "done" ELSE "refused"]
     ELSE /\ at' = [at EXCEPT ![w] = "checked"]
          /\ state' = [state EXCEPT ![r] = "held"]
  /\ UNCHANGED <<auth, thread, work, config, leaked, allow_auth, stopped>>

(* queue_auth_client: the request waits for a thread already running ...   *)
Queue(w) ==
  /\ at[w] = "checked" /\ refcount > Cardinality(Handlers)
  /\ queue' = Append(queue, req[w]) /\ pending_count' = pending_count + 1
  /\ state' = [state EXCEPT ![req[w]] = "queued"]
  /\ at' = [at EXCEPT ![w] = "release"]
  /\ UNCHANGED <<refcount, freed, thread, work, mount, req, allow_auth, stopped>>

Idle == {i \in Handlers : thread[i] = "none"}

(* ... or has one more started ...                                         *)
QueueStart(w) ==
  /\ at[w] = "checked" /\ refcount <= Cardinality(Handlers)
  /\ queue' = Append(queue, req[w]) /\ pending_count' = pending_count + 1
  /\ state' = [state EXCEPT ![req[w]] = "queued"]
  /\ IF Idle = {}
     THEN UNCHANGED <<refcount, thread>>
     ELSE /\ refcount' = refcount + 1
          /\ \E i \in Idle : thread' = [thread EXCEPT ![i] = "starting"]
  /\ at' = [at EXCEPT ![w] = "release"]
  /\ UNCHANGED <<freed, work, mount, req, allow_auth, stopped>>

(* ... which may fail: the request is taken off the queue and turned away. *)
QueueFails(w) ==
  /\ at[w] = "checked" /\ refcount <= Cardinality(Handlers) /\ Idle # {}
  /\ state' = [state EXCEPT ![req[w]] = "refused"]
  /\ at' = [at EXCEPT ![w] = "release"]
  /\ UNCHANGED <<auth, thread, work, mount, req, allow_auth, stopped>>

Release(w) ==
  /\ at[w] = "release"
  /\ Unref
  /\ at' = [at EXCEPT ![w] = IF Last THEN "clear" ELSE "idle"]
  /\ req' = [req EXCEPT ![w] = None]
  /\ UNCHANGED <<auth, thread, work, state, allow_auth, stopped>>

(* move_listener looks the mount up for a listener of another mountpoint.  *)
Look(w) ==
  /\ allow_auth /\ config = "listed" /\ at[w] = "idle" /\ leaked < MaxLeaks
  /\ mountref' = mountref + 1
  /\ at' = [at EXCEPT ![w] = "moving"]
  /\ UNCHANGED <<auth, thread, work, config, leaked, req, state, allow_auth, stopped>>

(* It drops the mount_proxy it ended with, without clearing it, ...        *)
LookDrops(w) ==
  /\ at[w] = "moving"
  /\ mountref' = mountref - 1
  /\ config' = IF Last THEN "lost" ELSE config
  /\ at' = [at EXCEPT ![w] = "idle"]
  /\ UNCHANGED <<auth, thread, work, leaked, req, state, allow_auth, stopped>>

(* ... and forgets the ones that lead it to a fallback.                    *)
LookFallsBack(w) ==
  /\ at[w] = "moving" /\ leaked < MaxLeaks
  /\ leaked' = leaked + 1
  /\ at' = [at EXCEPT ![w] = "idle"]
  /\ UNCHANGED <<auth, thread, work, config, mountref, req, state, allow_auth, stopped>>

-----------------------------------------------------------------------------
(* auth_run_thread.                                                        *)

ThreadStarts(i) ==
  /\ thread[i] = "starting" /\ ~stopped
  /\ thread' = [thread EXCEPT ![i] = "ready"]
  /\ UNCHANGED <<auth, work, mount, at, req, state, allow_auth, stopped>>

Take(i) ==
  /\ thread[i] = "ready" /\ queue # <<>>
  /\ queue' = Tail(queue) /\ pending_count' = pending_count - 1
  /\ work' = [work EXCEPT ![i] = Head(queue)]
  /\ state' = [state EXCEPT ![Head(queue)] = "handling"]
  /\ thread' = [thread EXCEPT ![i] = "working"]
  /\ UNCHANGED <<refcount, freed, mount, at, req, allow_auth, stopped>>

(* The process callback has an answer; a listener let in is added with the *)
(* mount_proxy the configuration has by then.                              *)
Answer(i) ==
  /\ thread[i] = "working"
  /\ IF work[i] \in Listeners /\ config = "listed"
     THEN \/ mountref' = mountref + 1 /\ thread' = [thread EXCEPT ![i] = "placing"]
          \/ mountref' = mountref /\ thread' = [thread EXCEPT ![i] = "ready"]
     ELSE mountref' = mountref /\ thread' = [thread EXCEPT ![i] = "ready"]
  /\ state' = [state EXCEPT ![work[i]] = "done"]
  /\ work' = [work EXCEPT ![i] = None]
  /\ UNCHANGED <<auth, config, leaked, at, req, allow_auth, stopped>>

Placed(i) ==
  /\ thread[i] = "placing"
  /\ Unref
  /\ thread' = [thread EXCEPT ![i] = IF Last THEN "clear" ELSE "ready"]
  /\ UNCHANGED <<auth, work, at, req, state, allow_auth, stopped>>

(* Mutant: the thread ends whatever has been queued since it looked.       *)
Exit_Unchecked(i) ==
  /\ thread[i] = "ready"
  /\ thread' = [thread EXCEPT ![i] = "none"]
  /\ AuthRelease
  /\ UNCHANGED <<queue, pending_count, work, mount, at, req, state, allow_auth, stopped>>

(* Mutant: the thread's reference is not dropped.                          *)
Exit_KeepsRef(i) ==
  /\ thread[i] = "ready" /\ queue = <<>>
  /\ thread' = [thread EXCEPT ![i] = "none"]
  /\ UNCHANGED <<auth, work, mount, at, req, state, allow_auth, stopped>>

(* Nothing queued: the thread gives up its handle and its reference.       *)
Exit(i) ==
  /\ thread[i] = "ready" /\ queue = <<>>
  /\ thread' = [thread EXCEPT ![i] = "none"]
  /\ AuthRelease
  /\ UNCHANGED <<queue, pending_count, work, mount, at, req, state, allow_auth, stopped>>

-----------------------------------------------------------------------------
(* A reload replaces the configuration, then drops the old one.            *)
Reload ==
  /\ config = "listed"
  /\ config' = "dropped"
  /\ UNCHANGED <<auth, thread, work, mountref, leaked, at, req, state, allow_auth, stopped>>

DropConfig ==
  /\ config = "dropped"
  /\ mountref' = mountref - 1
  /\ config' = IF Last THEN "clear" ELSE "gone"
  /\ UNCHANGED <<auth, thread, work, leaked, at, req, state, allow_auth, stopped>>

(* Mutant: the mount_proxy takes its authenticator with it.                *)
Clear_Frees ==
  /\ \/ /\ config = "clear" /\ config' = "gone"
        /\ UNCHANGED <<at, thread>>
     \/ \E w \in Workers : /\ at[w] = "clear" /\ at' = [at EXCEPT ![w] = "idle"]
                           /\ UNCHANGED <<config, thread>>
     \/ \E i \in Handlers : /\ thread[i] = "clear"
                            /\ thread' = [thread EXCEPT ![i] = "ready"]
                            /\ UNCHANGED <<config, at>>
  /\ refcount' = refcount - 1 /\ freed' = TRUE
  /\ UNCHANGED <<queue, pending_count, work, mountref, leaked, req, state, allow_auth, stopped>>

(* The end of config_clear_mount, by whoever dropped the last reference.   *)
Clear ==
  /\ \/ /\ config = "clear" /\ config' = "gone"
        /\ UNCHANGED <<at, thread>>
     \/ \E w \in Workers : /\ at[w] = "clear" /\ at' = [at EXCEPT ![w] = "idle"]
                           /\ UNCHANGED <<config, thread>>
     \/ \E i \in Handlers : /\ thread[i] = "clear"
                            /\ thread' = [thread EXCEPT ![i] = "ready"]
                            /\ UNCHANGED <<config, at>>
  /\ AuthRelease
  /\ UNCHANGED <<queue, pending_count, work, mountref, leaked, req, state, allow_auth, stopped>>

(* auth_shutdown, once the workers have stopped.                           *)
Shutdown ==
  /\ allow_auth /\ \A w \in Workers : at[w] = "idle"
  /\ allow_auth' = FALSE
  /\ UNCHANGED <<auth, thread, work, mount, at, req, state, stopped>>

ShutdownOver ==
  /\ ~allow_auth /\ ~stopped
  /\ \A i \in Handlers : thread[i] \in {"none", "starting"}
  /\ stopped' = TRUE
  /\ UNCHANGED <<auth, thread, work, mount, at, req, state, allow_auth>>

-----------------------------------------------------------------------------
WorkerGoesOn(w) ==
  Queue(w) \/ QueueStart(w) \/ QueueFails(w) \/ Release(w) \/ LookDrops(w)
    \/ LookFallsBack(w)

HandlerStep(i) == ThreadStarts(i) \/ Take(i) \/ Answer(i) \/ Placed(i) \/ Exit(i)

Next ==
  \/ \E w \in Workers : WorkerGoesOn(w) \/ Look(w) \/ \E r \in Requests : Arrive(w, r)
  \/ \E i \in Handlers : HandlerStep(i)
  \/ Reload \/ DropConfig \/ Clear \/ Shutdown \/ ShutdownOver

Spec == Init /\ [][Next]_vars

(* Threads are scheduled and the backends answer.                          *)
Fairness ==
  /\ \A w \in Workers : WF_vars(WorkerGoesOn(w))
  /\ \A i \in Handlers : WF_vars(HandlerStep(i))
  /\ WF_vars(DropConfig) /\ WF_vars(Clear)

FairSpec == Spec /\ Fairness
-----------------------------------------------------------------------------
TypeOK ==
  /\ queue \in Seq(Requests) /\ pending_count \in Nat /\ refcount \in Nat
  /\ freed \in BOOLEAN /\ allow_auth \in BOOLEAN /\ stopped \in BOOLEAN
  /\ thread \in [Handlers -> {"none", "starting", "ready", "working", "placing", "clear"}]
  /\ work \in [Handlers -> Requests \cup {None}]
  /\ config \in {"listed", "dropped", "clear", "gone", "lost"}
  /\ mountref \in Nat /\ leaked \in 0..MaxLeaks
  /\ at \in [Workers -> {"idle", "checked", "release", "clear", "moving"}]
  /\ req \in [Workers -> Requests \cup {None}]
  /\ state \in [Requests -> {"new", "held", "queued", "handling", "done", "refused"}]

Up == {i \in Handlers : thread[i] # "none"}
Holding == {w \in Workers : at[w] \in {"checked", "release", "moving"}}
Placing == {i \in Handlers : thread[i] = "placing"}
(* The mount_proxy is still to drop its reference.                        *)
Clearing ==
  \/ config \in {"clear", "lost"}
  \/ \E w \in Workers : at[w] = "clear"
  \/ \E i \in Handlers : thread[i] = "clear"

(* Every count is right, whatever thread failed to start and whoever       *)
(* dropped the mount_proxy last: the pending requests, the references to   *)
(* the auth_t and those to the mount_proxy (queue_auth_client,             *)
(* auth_release, config_mount_ref).                                        *)
CountsRight ==
  /\ pending_count = Len(queue)
  /\ refcount = Cardinality(Up) + (IF mountref > 0 \/ Clearing THEN 1 ELSE 0)
  /\ mountref = Cardinality(Holding) + Cardinality(Placing) + leaked
                  + (IF config \in {"listed", "dropped"} THEN 1 ELSE 0)

(* The auth_t is freed only after its last use: no thread runs, no request *)
(* waits and nobody holds the mount_proxy ("only actual freed after the    *)
(* last use", auth_release).                                               *)
FreedUnused ==
  freed => /\ Up = {} /\ queue = <<>> /\ Holding = {}
           /\ config = "gone"

(* A request waits only if all the handler threads there may be are up, or *)
(* one that is not busy is on its way to each request: threads that end    *)
(* and requests that come never miss each other (queue_auth_client,        *)
(* auth_run_thread).                                                       *)
NobodyIdles ==
  \/ Up = Handlers
  \/ Len(queue) <= Cardinality({i \in Up : thread[i] \in {"starting", "ready"}})

(* The unlocked test of pending_count lets in no more new listeners than   *)
(* there are threads adding them (auth_add_listener).                      *)
NewcomersBounded ==
  Cardinality({r \in Listeners : state[r] = "queued"})
    <= PendingLimit + Cardinality(Workers)

(* A request that found the authenticator is answered, also after a reload *)
(* has dropped the mount.                                                  *)
Answered(r) ==
  state[r] \in {"held", "queued", "handling"} ~> state[r] \in {"done", "refused"} \/ stopped

(* A mount_proxy the configuration has dropped is released in the end with *)
(* its authenticator, unless move_listener forgot a reference to it, or    *)
(* dropped the last one.                                                   *)
Released == config = "dropped" ~> freed \/ stopped \/ leaked > 0 \/ config = "lost"

(* "only actual freed after the last use" (src/src/auth.c:196): when the   *)
(* last use is over it is freed.                                           *)
FreedAfterLastUse ==
  config \in {"gone", "lost"} /\ Holding = {} /\ Placing = {} /\ Up = {}
    /\ (\A w \in Workers : at[w] # "clear") => freed

(* "Auth shutdown complete" (src/src/auth.c:990): no handler thread is     *)
(* left that would use auth_lock.                                          *)
ShutdownWaits == stopped => Up = {}

(* The auth_t is held by all who use it, and by nobody else.               *)
HeldWhileUsed == TypeOK /\ CountsRight /\ FreedUnused

=============================================================================
