------------------------------ MODULE MCTurns -------------------------------
(***************************************************************************)
(* Threads that take turns: the handler threads of an authenticator with   *)
(* the workers that queue requests, and a worker with clients that may ask *)
(* to be processed at once for ever.  A behaviour runs one of the two.     *)
(***************************************************************************)
EXTENDS AuthQueue, Worker

CONSTANTS l1, c1

VARIABLE part

TurnsInit == Init /\ WorkerInit /\ part \in {"auth", "worker"}

TurnsNext ==
  \/ part = "auth"   /\ Next       /\ UNCHANGED <<workerVars, part>>
  \/ part = "worker" /\ WorkerNext /\ UNCHANGED <<vars, part>>

(* The fairness of AuthQueue and of Worker.                                *)
TurnsSpec ==
  /\ TurnsInit /\ [][TurnsNext]_<<vars, workerVars, part>>
  /\ \A w \in Workers : WF_vars(part = "auth" /\ WorkerGoesOn(w))
  /\ \A i \in Handlers : WF_vars(part = "auth" /\ HandlerStep(i))
  /\ WF_vars(part = "auth" /\ DropConfig) /\ WF_vars(part = "auth" /\ Clear)
  /\ WF_workerVars(part = "worker" /\ WorkerStep)
  /\ WF_workerVars(part = "worker" /\ Wakeup)
  /\ \A c \in Clients : WF_workerVars(part = "worker" /\ Tick(c))

(* l1 stands for the listeners, which are alike: its request is answered,  *)
(* and what a reload has dropped is released (auth.c queue_auth_client,    *)
(* auth_run_thread, auth_release).                                         *)
RequestEnds == Answered(l1) /\ Released

(* c1 stands for the clients, which are alike: it gets its turn, and is    *)
(* taken on when pending if the worker gets to sleep now and then          *)
(* (client.c worker_next_client, worker_wait).                             *)
TurnTaken == Served(c1) /\ TakenOn(c1)
=============================================================================
