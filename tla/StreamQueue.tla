---------------------------- MODULE StreamQueue ----------------------------
(***************************************************************************)
(* The in-memory queue of one mountpoint (src/src/source.c): the source    *)
(* client appends blocks to it under the write lock of the source, the     *)
(* listeners read it under the read lock, each at its own position.        *)
(*                                                                         *)
(* A listener keeps a bare pointer (client->refbuf) into the queue and no  *)
(* reference count: what stops it from using a block the source has        *)
(* released is arithmetic on stream positions (queue_pos, queue_size), so  *)
(* a block is identified here by the position of its first byte.  A step   *)
(* is one call of the worker under the lock of the source.                 *)
(***************************************************************************)
EXTENDS Integers, FiniteSets

CONSTANTS
  Listeners,     (* The listener clients of the mountpoint.                *)
  MaxLen,        (* Largest block the format plugin produces.              *)
  MaxPos,        (* Bound of the model: last position of the stream.       *)
  Sizings,       (* The queue sizes update_source_stats may set.           *)
  Slack,         (* What a trim leaves above its target (8000 bytes).      *)
  MaxTrim,       (* Most blocks one trim releases (48 and the rate's part).*)
  ShrinkEvery,   (* A trim is prepared once in so many blocks (32).        *)
  Rate,          (* source->incoming_rate.                                 *)
  Bursts         (* Burst sizes listeners are entitled to, 0 is none.      *)

Sizing == [min : Nat, limit : Nat]

ASSUME QueueAssumption ==
  /\ MaxLen \in Nat \ {0}
  /\ MaxPos \in Nat
  /\ Sizings # {} /\ Sizings \subseteq Sizing
  /\ \A s \in Sizings : s.min <= s.limit
  /\ Slack \in Nat
  /\ MaxTrim \in Nat
  /\ ShrinkEvery \in Nat \ {0}
  /\ Rate \in Nat
  /\ Bursts \subseteq Nat

(* What a block may not exceed for a trim to spare every listener that     *)
(* reported its position; mp3 and ogg blocks keep to it, see the README.   *)
ASSUME BlocksWithinSlack == MaxLen <= Slack

VARIABLES
  queue,         (* The blocks linked from source->stream_data.            *)
  head,          (* Position of the first byte of source->stream_data.     *)
  queue_pos,     (* source->client->queue_pos: bytes the source produced.  *)
  queue_size,    (* source->queue_size.                                    *)
  min_point,     (* source->min_queue_point.                               *)
  min_offset,    (* source->min_queue_offset.                              *)
  sizing,        (* source->min_queue_size and source->queue_size_limit.   *)
  buffer_count,  (* source->buffer_count, modulo ShrinkEvery.              *)
  shrinking,     (* source->shrink_time # 0.                               *)
  shrink_pos,    (* source->shrink_pos.                                    *)
  adding,        (* First block, read but not linked yet: the lock is      *)
                 (* dropped meanwhile by source_set_override.              *)
  running,       (* source_running.                                        *)
  todo,          (* Listeners still to be handled in a SOURCE_LISTENERS_   *)
                 (* SYNC phase (listener_check counts them).               *)
  syncing,       (* SOURCE_LISTENERS_SYNC.                                 *)
  lst,           (* The listeners.                                         *)
  reported       (* History: the listeners that compared their position    *)
                 (* with shrink_pos since the trim was prepared.           *)

srcvars == <<queue, head, queue_pos, queue_size, min_point, min_offset, sizing,
             buffer_count, adding, running>>
vars == <<srcvars, shrinking, shrink_pos, todo, syncing, lst, reported>>

-----------------------------------------------------------------------------
Block   == [start : Nat, len : 1..MaxLen, sync : BOOLEAN]
NoBlock == [start |-> -1, len |-> 0, sync |-> FALSE]

End(b) == b.start + b.len

(* phase: "out" not on this source, "head" sending headers, intro or a     *)
(* private copy, "queue" check_buffer is source_queue_advance.             *)
Phase    == {"out", "head", "queue"}
Listener == [phase : Phase, ref : Block \cup {NoBlock}, pos : 0..MaxLen, qpos : Nat]
Detached == [phase |-> "out", ref |-> NoBlock, pos |-> 0, qpos |-> 0]

Waiting  == [Detached EXCEPT !.phase = "queue"]

Attached  == {l \in Listeners : lst[l].phase # "out"}
HasRef(l) == lst[l].phase = "queue" /\ lst[l].ref # NoBlock
Lag(c)    == queue_pos - c.qpos
Lowest(a, b) == IF a <= b THEN a ELSE b

(* Mutant: the lag test forgets the half-sent block.                       *)
TooFarBehind_NoPos(c) == Lag(c) > queue_size

(* The test at the top of source_queue_advance that drops a listener.      *)
TooFarBehind(c) ==
  \/ Lag(c) > queue_size
  \/ Lag(c) = queue_size /\ c.pos > 0

-----------------------------------------------------------------------------
Init ==
  /\ queue = {} /\ head = 0 /\ queue_pos = 0 /\ queue_size = 0
  /\ min_point = NoBlock /\ min_offset = 0
  /\ sizing \in Sizings
  /\ buffer_count = 0
  /\ shrinking = FALSE /\ shrink_pos = 0
  /\ adding = NoBlock
  /\ running = TRUE
  /\ todo = {} /\ syncing = FALSE
  /\ lst = [l \in Listeners |-> Detached]
  /\ reported = {}

(* Mutant: the walk forgets to leave min_queue_size behind.                *)
SyncPoints_NoMinimum(q, p, off) ==
  {b \in q : b.start >= p.start /\ b.sync /\ \E c \in q : c.start = End(b)}

(* Blocks of q from min_point p on at which the walk of _source_read may   *)
(* leave min_queue_point: a sync block, not the last one, that still has   *)
(* more than min_queue_size bytes from its start to the end of the queue.  *)
SyncPoints(q, p, off) ==
  {b \in q : /\ b.start >= p.start /\ b.sync
             /\ \E c \in q : c.start = End(b)
             /\ off - (b.start - p.start) > sizing.min}

(* The last of them, or p when there is none.                              *)
IsMinPoint(m, q, p, off) ==
  IF SyncPoints(q, p, off) = {}
  THEN m = p
  ELSE /\ m \in SyncPoints(q, p, off)
       /\ \A b \in SyncPoints(q, p, off) : b.start <= m.start

(* What the queue is cut down to: what the slowest listener that reported  *)
(* needs, within the configured sizes, and some slack.                     *)
Target(end) ==
  LET wanted == end - shrink_pos
  IN Slack + (IF wanted < sizing.min THEN sizing.min
              ELSE Lowest(wanted, sizing.limit))

Before(q, m) == {b \in q : b.start < m.start}

(* Of the queue q that ends at end, block m is the one a trim stops at.    *)
TrimStops(m, q, end) ==
  /\ m \in q
  /\ \A b \in Before(q, m) : end - b.start > Target(end)
  /\ Cardinality(Before(q, m)) <= MaxTrim
  /\ \/ end - m.start <= Target(end)
     \/ End(m) = end
     \/ Cardinality(Before(q, m)) = MaxTrim

Count == (buffer_count + 1) % ShrinkEvery

(* source_add_queue_buffer prepares the next trim from the position new    *)
(* listeners start at; bytes after p are counted by off.                   *)
MaybeArm(end, off) ==
  IF ~shrinking /\ Count = ShrinkEvery - 1
  THEN shrinking' = TRUE /\ shrink_pos' = end - off /\ reported' = {}
  ELSE UNCHANGED <<shrinking, shrink_pos, reported>>

(* Mutant: a trim forgets to move min_queue_point off what it releases.    *)
Trim_KeepsPoint(t, q, end, m, p, off) ==
  /\ queue' = q \ Before(q, t)
  /\ head' = t.start
  /\ queue_size' = end - t.start
  /\ min_point' = m
  /\ min_offset' = off - (m.start - p.start)
  /\ shrinking' = FALSE /\ shrink_pos' = 0 /\ reported' = {}

(* Release what precedes block t of q; min_queue_point is m before it.     *)
Trim(t, q, end, m, p, off) ==
  LET n == IF m.start < t.start THEN t ELSE m
  IN /\ queue' = q \ Before(q, t)
     /\ head' = t.start
     /\ queue_size' = end - t.start
     /\ min_point' = n
     /\ min_offset' = off - (n.start - p.start)
     /\ shrinking' = FALSE /\ shrink_pos' = 0 /\ reported' = {}

(* source_add_queue_buffer and what _source_read does after it: block b    *)
(* makes the queue q, from first to end; p and off are min_queue_point     *)
(* and min_queue_offset with b counted.                                    *)
AddBlock(q, first, end, p, off) ==
  /\ buffer_count' = Count
  /\ queue_pos' = end
  /\ adding' = NoBlock
  /\ \/ (* the connection ended with this block; the source may linger     *)
        /\ queue' = q /\ head' = first /\ queue_size' = end - first
        /\ min_point' = p /\ min_offset' = off
        /\ MaybeArm(end, off)
        /\ running' \in BOOLEAN
     \/ \E m \in q :
          /\ IsMinPoint(m, q, p, off)
          /\ UNCHANGED running
          /\ \/ (* shrink_time is 0, just set or not reached yet           *)
                /\ queue' = q /\ head' = first /\ queue_size' = end - first
                /\ min_point' = m
                /\ min_offset' = off - (m.start - p.start)
                /\ MaybeArm(end, off)
             \/ /\ shrinking
                /\ \E t \in q : TrimStops(t, q, end) /\ Trim(t, q, end, m, p, off)

-----------------------------------------------------------------------------
(* source_client_read, source_read and _source_read under the write lock.  *)

MayRead == running /\ ~syncing /\ adding = NoBlock

(* A block joins a queue that is not empty.                                *)
SourceRead ==
  /\ MayRead /\ queue # {}
  /\ \E len \in 1..MaxLen, sync \in BOOLEAN :
       LET b == [start |-> queue_pos, len |-> len, sync |-> sync]
       IN /\ End(b) <= MaxPos
          /\ AddBlock(queue \cup {b}, head, End(b), min_point, min_offset + len)
  /\ UNCHANGED <<sizing, todo, syncing, lst>>

(* The first block: with an override configured the lock is dropped in     *)
(* source_set_override, queue_pos already counting the block.              *)
SourceReadFirst ==
  /\ MayRead /\ queue = {}
  /\ \E len \in 1..MaxLen, sync \in BOOLEAN :
       LET b == [start |-> queue_pos, len |-> len, sync |-> sync]
       IN /\ End(b) <= MaxPos
          /\ \/ AddBlock({b}, b.start, End(b), b, len)
             \/ /\ adding' = b
                /\ queue_pos' = End(b)
                /\ UNCHANGED <<queue, head, queue_size, min_point, min_offset,
                               buffer_count, running, shrinking, shrink_pos,
                               reported>>
  /\ UNCHANGED <<sizing, todo, syncing, lst>>

(* The lock is taken again and the block linked, whatever happened since.  *)
SourceLinkFirst ==
  /\ adding # NoBlock
  /\ AddBlock({adding}, adding.start, queue_pos, adding, adding.len)
  /\ UNCHANGED <<sizing, todo, syncing, lst>>

(* Bytes arrived but no whole block: a trim that is due is done.           *)
SourceTrim ==
  /\ MayRead /\ queue # {} /\ shrinking
  /\ \E t \in queue :
       /\ TrimStops(t, queue, queue_pos)
       /\ Trim(t, queue, queue_pos, min_point, min_point, min_offset)
  /\ UNCHANGED <<queue_pos, sizing, buffer_count, adding, running, todo,
                 syncing, lst>>

(* update_source_stats recomputes the queue sizes from the incoming rate.  *)
UpdateSizes ==
  /\ MayRead
  /\ sizing' \in Sizings
  /\ UNCHANGED <<queue, head, queue_pos, queue_size, min_point, min_offset,
                 buffer_count, adding, running, shrinking, shrink_pos, todo,
                 syncing, lst, reported>>

(* The stream fails, times out or is told to stop.                         *)
SourceStop ==
  /\ running /\ adding = NoBlock
  /\ running' = FALSE
  /\ UNCHANGED <<queue, head, queue_pos, queue_size, min_point, min_offset,
                 sizing, buffer_count, adding, shrinking, shrink_pos, todo,
                 syncing, lst, reported>>

(* source_shutdown, or source_set_override from another mountpoint: every  *)
(* listener is to be looked at once.                                       *)
StartSync ==
  /\ ~syncing
  /\ syncing' = TRUE
  /\ todo' = Attached
  /\ UNCHANGED <<srcvars, shrinking, shrink_pos, lst, reported>>

(* source_read: all were looked at, or the source gives up after a second. *)
EndSync ==
  /\ syncing /\ running /\ adding = NoBlock
  /\ syncing' = FALSE
  /\ todo' = {}
  /\ running' = (todo = {})
  /\ UNCHANGED <<queue, head, queue_pos, queue_size, min_point, min_offset,
                 sizing, buffer_count, adding, shrinking, shrink_pos, lst,
                 reported>>

-----------------------------------------------------------------------------
(* The listeners, each under the read lock.                                *)

(* locate_start_on_queue looks for a sync block from here: the last block, *)
(* or, for a burst of v bytes, the first from min_queue_point with at most *)
(* v of min_queue_size left.  The count is unsigned, so a block that takes *)
(* it below zero sends the listener to the last block.                     *)
SearchStart(v) ==
  LET last == {b \in queue : End(b) = queue_pos}
      enough == {b \in queue :
                   /\ b.start >= min_point.start
                   /\ sizing.min - (b.start - min_point.start) \in 0..v}
  IN IF v = 0 \/ enough = {}
     THEN last
     ELSE {b \in enough : \A c \in enough : b.start <= c.start}

(* The block a listener entitled to a burst of v bytes starts with.        *)
StartBlock(b, v) ==
  \E s \in SearchStart(v) :
    /\ b \in queue /\ b.sync /\ b.start >= s.start
    /\ \A c \in queue : c.sync /\ c.start >= s.start => b.start <= c.start

Join(c, b) ==
  [phase |-> "queue", ref |-> b, pos |-> 0,
   qpos |-> queue_pos - (min_offset - (b.start - min_point.start))]

(* source_queue_advance from c sends what the socket takes, moving on to   *)
(* the next block whenever one is complete and has a successor.            *)
Sent(c, d) ==
  /\ d.qpos \in c.qpos..queue_pos
  /\ d.phase = "queue"
  /\ d.ref \in queue
  /\ d.pos = d.qpos - d.ref.start
  /\ \/ d.pos \in 0..(d.ref.len - 1)
     \/ d.pos = d.ref.len /\ End(d.ref) = queue_pos

(* Mutant: the requeued listener keeps its place on the queue.             *)
Requeue_KeepsRef(c) == [c EXCEPT !.phase = "head"]

(* Lagging beyond queue_size_limit: back to the intro, with a private copy *)
(* of the block it is in the middle of.  The position reported is the one  *)
(* it left, and is of no use until it is placed on the queue again.        *)
Requeue(c) == [Detached EXCEPT !.phase = "head"]

(* Mutant: send_listener does not lower shrink_pos.                        *)
Report_Silent(l, d) ==
  IF shrinking /\ queue_pos - d.qpos \in 0..(sizing.limit - 1)
  THEN UNCHANGED shrink_pos /\ reported' = reported \cup {l}
  ELSE UNCHANGED <<shrink_pos, reported>>

(* End of send_listener: tell the trim about a position still needed.      *)
Report(l, d) ==
  IF shrinking /\ queue_pos - d.qpos \in 0..(sizing.limit - 1)
  THEN /\ shrink_pos' = Lowest(shrink_pos, d.qpos)
       /\ reported' = reported \cup {l}
  ELSE /\ UNCHANGED <<shrink_pos, reported>>

Positions == {[phase |-> "queue", ref |-> b, pos |-> p, qpos |-> b.start + p] :
                 b \in queue, p \in 0..MaxLen}

(* What source_queue_advance makes of listener l whose record is c.        *)
Advance(l, c) ==
  \/ (* fallen off the queue: dropped                                      *)
     /\ TooFarBehind(c)
     /\ lst' = [lst EXCEPT ![l] = Detached]
     /\ reported' = reported \ {l}
     /\ UNCHANGED shrink_pos
  \/ (* nothing new, or something is sent                                  *)
     /\ ~TooFarBehind(c)
     /\ \E d \in Positions :
          /\ Sent(c, d)
          /\ lst' = [lst EXCEPT ![l] = d]
          /\ Report(l, d)
  \/ (* requeued if it received enough before                              *)
     /\ ~TooFarBehind(c) /\ Lag(c) > 0
     /\ Lag(c) + Rate > sizing.limit
     /\ lst' = [lst EXCEPT ![l] = Requeue(c)]
     /\ Report(l, c)
  \/ (* the write fails: the listener is released                          *)
     /\ ~TooFarBehind(c)
     /\ lst' = [lst EXCEPT ![l] = Detached]
     /\ reported' = reported \ {l}
     /\ UNCHANGED shrink_pos

MaySend(l) == lst[l].phase # "out" /\ running /\ ~syncing

(* source_setup_listener: a new listener, or one moved from elsewhere.     *)
Attach(l) ==
  /\ lst[l].phase = "out" /\ ~syncing
  /\ lst' = [lst EXCEPT ![l] = [Detached EXCEPT !.phase = "head"]]
  /\ UNCHANGED <<srcvars, shrinking, shrink_pos, todo, syncing, reported>>

(* Headers, intro or a private copy go out.  queue_pos counts those bytes  *)
(* too and starts again with a new buffer: until the listener is placed on *)
(* the queue it may have any value, and what is reported is that value.    *)
SendHead(l) ==
  /\ MaySend(l) /\ lst[l].phase = "head" /\ queue # {} /\ shrinking
  /\ \E n \in 0..queue_pos : Report(l, [lst[l] EXCEPT !.qpos = n])
  /\ UNCHANGED <<srcvars, shrinking, todo, syncing, lst>>

(* The intro is over, or the queue is to be located again.                 *)
EnterQueue(l) ==
  /\ MaySend(l)
  /\ lst[l].phase = "head" \/ lst[l].ref = NoBlock
  /\ \/ \E v \in Bursts, b \in queue : StartBlock(b, v) /\ Advance(l, Join(lst[l], b))
     \/ (* no place to start from yet                                      *)
        /\ \E v \in Bursts : \A b \in queue : ~StartBlock(b, v)
        /\ lst' = [lst EXCEPT ![l] = Waiting]
        /\ \E n \in 0..queue_pos : Report(l, [Waiting EXCEPT !.qpos = n])
  /\ UNCHANGED <<srcvars, shrinking, todo, syncing>>

SendQueue(l) ==
  /\ MaySend(l) /\ HasRef(l)
  /\ Advance(l, lst[l])
  /\ UNCHANGED <<srcvars, shrinking, todo, syncing>>

(* send_listener returns before it looks at the queue: listening time is   *)
(* over.  source_listener_release and source_listener_detach look at the   *)
(* flags of client->refbuf.                                                *)
TimeLimit(l) ==
  /\ lst[l].phase # "out" /\ ~syncing
  /\ lst' = [lst EXCEPT ![l] = Detached]
  /\ reported' = reported \ {l}
  /\ UNCHANGED <<srcvars, shrinking, shrink_pos, todo, syncing>>

(* listener_waiting_on_source: moved to the fallback, or released.         *)
SyncDetach(l) ==
  /\ syncing /\ l \in todo
  /\ todo' = todo \ {l}
  /\ lst' = [lst EXCEPT ![l] = Detached]
  /\ reported' = reported \ {l}
  /\ UNCHANGED <<srcvars, shrinking, shrink_pos, syncing>>

(* No fallback is set: the listener waits where it is, or loses its place  *)
(* when the source pauses its listeners for a restart.                     *)
SyncHold(l) ==
  /\ syncing /\ l \in todo
  /\ todo' = todo \ {l}
  /\ \/ UNCHANGED <<lst, reported>>
     \/ /\ HasRef(l)
        /\ lst' = [lst EXCEPT ![l] = Waiting]
        /\ reported' = reported \ {l}
  /\ UNCHANGED <<srcvars, shrinking, shrink_pos, syncing>>

SourceStep ==
  SourceRead \/ SourceReadFirst \/ SourceLinkFirst \/ SourceTrim \/ UpdateSizes
    \/ SourceStop \/ StartSync \/ EndSync

ListenerStep(l) ==
  \/ Attach(l) \/ SendHead(l) \/ EnterQueue(l) \/ SendQueue(l) \/ TimeLimit(l)
  \/ SyncDetach(l) \/ SyncHold(l)

Next == SourceStep \/ \E l \in Listeners : ListenerStep(l)

Spec == Init /\ [][Next]_vars
-----------------------------------------------------------------------------
(* Type correctness of the queue and its listeners; only a listener that   *)
(* is fed from the queue points into it.                                   *)
TypeOK ==
  /\ queue \subseteq Block
  /\ head \in Nat /\ queue_pos \in Nat /\ queue_size \in Nat
  /\ min_point \in Block \cup {NoBlock} /\ min_offset \in Nat
  /\ sizing \in Sizing
  /\ buffer_count \in 0..(ShrinkEvery - 1)
  /\ shrinking \in BOOLEAN /\ shrink_pos \in Int
  /\ adding \in Block \cup {NoBlock}
  /\ running \in BOOLEAN /\ syncing \in BOOLEAN
  /\ todo \subseteq Listeners
  /\ lst \in [Listeners -> Listener]
  /\ \A l \in Listeners : lst[l].phase # "queue" => lst[l].ref = NoBlock
  /\ reported \subseteq Attached

(* The place new listeners start at is never a released block, and the     *)
(* byte count kept for it is the distance to the end of the stream, which  *)
(* is what a new listener's queue_pos is computed from                     *)
(* (source_add_queue_buffer, _source_read, locate_start_on_queue).         *)
StartPointOnQueue ==
  queue # {} =>
    /\ min_point \in queue
    /\ min_offset = queue_pos - min_point.start

(* A listener that passes the lag test of source_queue_advance holds a     *)
(* block that is still on the queue, at a position inside it: the bare     *)
(* pointer it goes on to use was not released by a trim meanwhile.         *)
PassedListenerSafe ==
  \A l \in Listeners :
    HasRef(l) /\ ~TooFarBehind(lst[l]) =>
      /\ lst[l].ref \in queue
      /\ lst[l].pos <= lst[l].ref.len
      /\ lst[l].qpos = lst[l].ref.start + lst[l].pos

(* A trim never releases the block of a listener that was processed since  *)
(* the trim was prepared and is within queue_size_limit, not even the one  *)
(* it has finished but not left (shrink_pos, send_listener, _source_read). *)
ReportersKept ==
  [][\A l \in reported :
       HasRef(l) /\ queue_pos' - lst[l].qpos <= sizing.limit /\ head' # head
         => lst[l].ref \in queue']_vars

(* Neither moving min_queue_point nor a trim takes from new listeners the  *)
(* data of the configured minimum: the run of data offered only shrinks    *)
(* while it is longer than min_queue_size (_source_read).                  *)
BurstNeverCut ==
  [][queue # {} => min_offset' >= Lowest(min_offset, sizing.min)]_vars

(* source_listener_detach takes a shared client->refbuf to be "on the      *)
(* queue" (src/src/source.c:1442) when the listeners are told to move.     *)
DetachFindsBlockOnQueue ==
  [][\A l \in Listeners : SyncDetach(l) /\ HasRef(l) => lst[l].ref \in queue]_vars

=============================================================================
