------------------------------ MODULE MCThreads ------------------------------
(***************************************************************************)
(* What threads share under locks: the lists of clients of a worker, the   *)
(* queue of log lines, and the balanced tree that mountpoints, clients and *)
(* bans are kept in.  A behaviour runs one of the three, the part.  The    *)
(* lists of clients stay as they began in the other parts, which have the  *)
(* logs, or the tree, to themselves.                                       *)
(***************************************************************************)
EXTENDS Worker, TLC

CONSTANTS
  LogSlots, Writers, Priorities, Level, Trigger, Found, Batch, MaxLines, MaxMoves,
  Keys, MaxEqual, AvlNodes, Root, Null

VARIABLES
  logs, log_cur, writer, nextId, thread, log_files, named,
  avl, held,
  part

KeepOne == [p \in Priorities |-> 1]

G == INSTANCE Logs WITH Slots <- LogSlots, Keep <- KeepOne, cur <- log_cur, files <- log_files
T == INSTANCE AVL

lines  == <<logs, log_cur, writer, nextId, thread, log_files, named>>
trees  == <<avl, held>>

ThreadsInit ==
  /\ part \in {"lists", "lines", "trees"}
  /\ WorkerInit
  /\ IF part = "lines" THEN G!Init
     ELSE /\ logs = Null /\ log_cur = Null /\ writer = Null /\ nextId = Null
          /\ thread = Null /\ log_files = Null /\ named = Null
  /\ IF part = "trees" THEN T!AvlInit ELSE avl = Null /\ held = Null

ThreadsNext ==
  \/ part = "lists"  /\ WorkerNext   /\ UNCHANGED <<lines, trees, part>>
  \/ part = "lines"  /\ G!Next /\ UNCHANGED <<workerVars, trees, part>>
  \/ part = "trees" /\ T!AvlNext /\ UNCHANGED <<workerVars, lines, part>>

ThreadsSpec == ThreadsInit /\ [][ThreadsNext]_<<workerVars, lines, trees, part>>

Alike == Permutations(Clients) \cup Permutations(Writers)

(* Every line that was queued is written in turn before its log is closed, *)
(* the last ones of each priority stay to be shown, and files are moved    *)
(* aside in time (log.c do_log_run, do_purge, _log_open).                  *)
LogsSound == part = "lines" => G!TypeOK /\ G!LogsSound

(* After any insertions and deletions the tree holds exactly the keys put  *)
(* in and not taken out, finds and visits them in order, and its balance   *)
(* factors and ranks are true (avl_insert, avl_delete, avl_verify).        *)
TreesRight ==
  part = "trees" => T!AvlTypeOK /\ T!Balanced /\ T!TreeIsSet
=============================================================================
