----------------------------- MODULE FileServe -----------------------------
(***************************************************************************)
(* Files sent to listeners, and the cache of open ones (src/src/fserve.c). *)
(*                                                                         *)
(* An fh_node is an open file with the clients that read it, counted by    *)
(* refcount under a lock of its own; fh_cache finds it by name.  Fallback  *)
(* files feed listeners whose mountpoint has no stream: they loop, count   *)
(* in global.listeners, and when the stream is back fserve_set_override    *)
(* takes the node out of the cache, leaves a copy with the open file       *)
(* there, and every listener of the old node moves on at its next turn;    *)
(* the last one frees it.  fserve_scan closes what is not used any more.   *)
(***************************************************************************)
EXTENDS Integers, FiniteSets

CONSTANTS
  Files,         (* The names.                                             *)
  Fallbacks,     (* Those that are fallback files, of limited rate; the    *)
                 (* others are served on demand.                           *)
  Nodes,         (* Memory for fh_node, reused once freed.                 *)
  Hearers,       (* Listeners.                                             *)
  NoNode,
  MaxOnFile,     (* max_listeners of the mountpoints.                      *)
  MaxCounted,    (* Bound of the model: global.listeners.                  *)
  Patient        (* The workers let every client go before fserve_shutdown *)
                 (* has waited two seconds.                                *)

VARIABLES
  node,          (* fh_node.                                               *)
  cache,         (* fh_cache by name.                                      *)
  hearer,        (* Where each listener is.                                *)
  counted,       (* global.listeners, as far as these listeners go.        *)
  serving        (* fserve_running, "closing" while shut down, "gone".     *)

fileVars == <<node, cache, hearer, counted, serving>>

NoFile == [live |-> FALSE, key |-> NoNode, refcount |-> 0, fallback |-> FALSE,
           delete |-> FALSE, override |-> FALSE, open |-> FALSE, expire |-> FALSE]
Away   == [at |-> "away", node |-> NoNode, left |-> NoNode]

Init ==
  /\ node = [n \in Nodes |-> NoFile] /\ cache = [f \in Files |-> NoNode]
  /\ hearer = [l \in Hearers |-> Away] /\ counted = 0 /\ serving = "yes"

FreeNodes == {n \in Nodes : ~node[n].live}
Spare == CHOOSE n \in FreeNodes : TRUE

(* open_fh: expire is that of a node that nobody ever used: a fallback     *)
(* file is kept until somebody asks for its count.                         *)
Opened(f) ==
  [live |-> TRUE, key |-> f, refcount |-> 0, fallback |-> f \in Fallbacks,
   delete |-> FALSE, override |-> FALSE, open |-> TRUE, expire |-> f \notin Fallbacks]

(* fserve_query_count: opens a fallback file nobody reads, for a while.    *)
QueryCount(f) ==
  /\ serving = "yes" /\ f \in Fallbacks
  /\ IF cache[f] = NoNode
     THEN /\ FreeNodes # {}
          /\ node' = [node EXCEPT ![Spare] = [Opened(f) EXCEPT !.expire = TRUE]]
          /\ cache' = [cache EXCEPT ![f] = Spare]
     ELSE /\ node' = [node EXCEPT ![cache[f]].expire =
                        @ \/ node[cache[f]].refcount = 0]
          /\ UNCHANGED cache
  /\ UNCHANGED <<hearer, counted, serving>>

(* fserve_setup_client_fb as far as the node goes: from node table g to    *)
(* the table h and the node n the client is on.                            *)
Refused(f) ==
  IF cache[f] = NoNode THEN MaxOnFile = 0 ELSE node[cache[f]].refcount > MaxOnFile

SetUp(l, f, record) ==
  /\ serving = "yes" /\ ~Refused(f)
  /\ LET n == IF cache[f] = NoNode THEN Spare ELSE cache[f]
         g == IF cache[f] = NoNode THEN [node EXCEPT ![n] = Opened(f)] ELSE node IN
     /\ cache[f] = NoNode => FreeNodes # {}
     /\ node' = [g EXCEPT ![n].refcount = @ + 1]
     /\ cache' = [cache EXCEPT ![f] = n]
     /\ hearer' = [hearer EXCEPT ![l] = [record EXCEPT !.at = "file", !.node = n]]

(* A listener whose stream ended, counted already, is sent to a fallback;  *)
(* another one asks for a file.                                            *)
FallsBack(l, f) ==
  /\ hearer[l].at = "stream" /\ hearer[l].left = NoNode /\ f \in Fallbacks
  /\ SetUp(l, f, Away) /\ UNCHANGED <<counted, serving>>

Requests(l, f) ==
  /\ hearer[l].at = "away" /\ f \notin Fallbacks
  /\ SetUp(l, f, Away) /\ UNCHANGED <<counted, serving>>

(* The file is opened, but the request asks for more than it holds: 416.   *)
RequestFails(f) ==
  /\ serving = "yes" /\ f \notin Fallbacks /\ cache[f] = NoNode /\ FreeNodes # {}
  /\ node' = [node EXCEPT ![Spare] = Opened(f)] /\ cache' = [cache EXCEPT ![f] = Spare]
  /\ UNCHANGED <<hearer, counted, serving>>

(* Listeners come to streams, and leave them.                              *)
Tunes(l) ==
  /\ hearer[l].at = "away" /\ serving = "yes" /\ counted < MaxCounted
  /\ hearer' = [hearer EXCEPT ![l].at = "stream"] /\ counted' = counted + 1
  /\ UNCHANGED <<node, cache, serving>>

TunesOut(l) ==
  /\ hearer[l].at = "stream" /\ hearer[l].left = NoNode
  /\ hearer' = [hearer EXCEPT ![l].at = "away"] /\ counted' = counted - 1
  /\ UNCHANGED <<node, cache, serving>>

(* fserve_set_override: the stream is back.                                *)
SetOverride(f) ==
  /\ serving = "yes" /\ f \in Fallbacks /\ cache[f] # NoNode /\ FreeNodes # {}
  /\ LET n == cache[f] IN
     /\ node[n].refcount > 0
     /\ node' = [node EXCEPT
          ![Spare] = [Opened(f) EXCEPT !.open = node[n].open],
          ![n] = [@ EXCEPT !.delete = TRUE, !.fallback = FALSE, !.open = FALSE,
                           !.override = TRUE]]
     /\ cache' = [cache EXCEPT ![f] = Spare]
  /\ UNCHANGED <<hearer, counted, serving>>

(* remove_from_fh, on the node table.                                      *)
Unused(n) ==
  LET m == [node[n] EXCEPT !.refcount = @ - 1] IN
  IF m.refcount > 0 THEN [node EXCEPT ![n] = m]
  ELSE IF m.delete /\ ~m.fallback THEN [node EXCEPT ![n] = NoFile]
  ELSE [node EXCEPT ![n] = [m EXCEPT !.expire = @ \/ ~m.fallback]]

(* fserve_move_listener: move_listener first puts the client on the stream *)
(* or on another file, then the old node is given up.                      *)
MovesToStream(l) ==
  /\ serving = "yes" /\ hearer[l].at = "file" /\ hearer[l].left = NoNode
  /\ node[hearer[l].node].override
  /\ hearer' = [hearer EXCEPT ![l] = [at |-> "stream", node |-> NoNode,
                                      left |-> hearer[l].node]]
  /\ UNCHANGED <<node, cache, counted, serving>>

(* The flag FS_FALLBACK is gone by then, so it is not a fallback any more. *)
MovesToFile(l, f) ==
  /\ hearer[l].at = "file" /\ node[hearer[l].node].override /\ f \notin Fallbacks
  /\ hearer[l].left = NoNode
  /\ SetUp(l, f, [Away EXCEPT !.left = hearer[l].node])
  /\ UNCHANGED <<counted, serving>>

GivesUpOld(l) ==
  /\ hearer[l].left # NoNode
  /\ node' = Unused(hearer[l].left)
  /\ hearer' = [hearer EXCEPT ![l].left = NoNode]
  /\ UNCHANGED <<cache, counted, serving>>

(* file_release: its connection is lost, the move failed or the server     *)
(* stops.  Only a listener on what still is a fallback is counted off.     *)
Released(l) ==
  /\ hearer[l].at = "file" /\ hearer[l].left = NoNode
  /\ counted' = counted - (IF node[hearer[l].node].fallback THEN 1 ELSE 0)
  /\ node' = Unused(hearer[l].node)
  /\ hearer' = [hearer EXCEPT ![l] = Away]
  /\ UNCHANGED <<cache, serving>>

(* A fault: a node is expired though listeners still read it.              *)
Scan_InUse(f) ==
  /\ serving = "yes" /\ cache[f] # NoNode /\ node[cache[f]].expire
  /\ node' = [node EXCEPT ![cache[f]] = NoFile]
  /\ cache' = [cache EXCEPT ![f] = NoNode]
  /\ UNCHANGED <<hearer, counted, serving>>

(* fserve_scan at a time when the file has not been used for long enough.  *)
Scan(f) ==
  /\ serving = "yes" /\ cache[f] # NoNode
  /\ node[cache[f]].refcount = 0 /\ node[cache[f]].expire
  /\ node' = [node EXCEPT ![cache[f]] = NoFile]
  /\ cache' = [cache EXCEPT ![f] = NoNode]
  /\ UNCHANGED <<hearer, counted, serving>>

(* fserve_shutdown: unused nodes go one by one, then everything.           *)
ShutDown ==
  /\ serving = "yes" /\ serving' = "closing"
  /\ UNCHANGED <<node, cache, hearer, counted>>

ShutDownFrees(f) ==
  /\ serving = "closing" /\ cache[f] # NoNode /\ node[cache[f]].refcount = 0
  /\ node' = [node EXCEPT ![cache[f]] = NoFile]
  /\ cache' = [cache EXCEPT ![f] = NoNode]
  /\ UNCHANGED <<hearer, counted, serving>>

ShutDownEnds ==
  /\ serving = "closing"
  /\ Patient => \A f \in Files : cache[f] # NoNode => node[cache[f]].refcount = 0
  /\ node' = [n \in Nodes |-> IF \E f \in Files : cache[f] = n THEN NoFile ELSE node[n]]
  /\ cache' = [f \in Files |-> NoNode] /\ serving' = "gone"
  /\ UNCHANGED <<hearer, counted>>

Next ==
  \/ \E f \in Files : QueryCount(f) \/ RequestFails(f) \/ SetOverride(f) \/ Scan(f)
                      \/ ShutDownFrees(f)
  \/ \E l \in Hearers :
       \/ Tunes(l) \/ TunesOut(l) \/ MovesToStream(l) \/ GivesUpOld(l) \/ Released(l)
       \/ \E f \in Files : FallsBack(l, f) \/ Requests(l, f) \/ MovesToFile(l, f)
  \/ ShutDown \/ ShutDownEnds

Spec == Init /\ [][Next]_fileVars

-----------------------------------------------------------------------------
TypeOK ==
  /\ node \in [Nodes -> [live : BOOLEAN, key : Files \cup {NoNode}, refcount : 0 .. Cardinality(Hearers),
                         fallback : BOOLEAN, delete : BOOLEAN, override : BOOLEAN,
                         open : BOOLEAN, expire : BOOLEAN]]
  /\ cache \in [Files -> Nodes \cup {NoNode}]
  /\ hearer \in [Hearers -> [at : {"away", "stream", "file"}, node : Nodes \cup {NoNode},
                             left : Nodes \cup {NoNode}]]
  /\ counted \in 0 .. MaxCounted /\ serving \in {"yes", "closing", "gone"}

(* The reference count of a node is the number of clients that read it or  *)
(* have yet to give it up, a node freed has none, one in the cache is open *)
(* and found under its name, and one out of the cache is used.             *)
Readers(n) == {l \in Hearers : n \in {hearer[l].node, hearer[l].left}}
FilesSound ==
  /\ \A n \in Nodes :
       /\ node[n].refcount = Cardinality(Readers(n))
       /\ node[n].live /\ (\A f \in Files : cache[f] # n) => node[n].refcount > 0
  /\ \A f \in Files : cache[f] # NoNode =>
       node[cache[f]].live /\ node[cache[f]].open /\ node[cache[f]].key = f

(* global.listeners never falls below the listeners that streams and       *)
(* fallback files have.                                                    *)
Hearing ==
  {l \in Hearers :
     hearer[l].at # "away" /\ (hearer[l].at = "file" => node[hearer[l].node].key \in Fallbacks)}
NeverUndercounted == counted >= Cardinality(Hearing)

(* ... and is exactly that, so that a server's limit on listeners means    *)
(* what it says.                                                           *)
ListenersCounted == counted = Cardinality(Hearing)

(* A file has at most the listeners that max_listeners allows.             *)
FileLimitKept == \A n \in Nodes : node[n].refcount <= MaxOnFile
=============================================================================
