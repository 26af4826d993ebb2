---------------------------- MODULE MediaProofs ----------------------------
(***************************************************************************)
(* What is proved of a mount's stream and settings.  First the stream      *)
(* queue, for any number of listeners, any block lengths and sizes, and a  *)
(* stream of any length.  Then how the settings of the mounts reach the    *)
(* sources, the directory and the statistics, for any mounts, relays and   *)
(* configurations.  Last how titles reach the listeners of an MPEG stream, *)
(* for any titles, insert and block lengths, interval and queue.           *)
(***************************************************************************)
EXTENDS StreamQueue, MountSettings, IcyMeta, FiniteSetTheorems, SequenceTheorems,
        WellFoundedInduction, TLAPS

(* The blocks of q lie apart from one another between first and end.       *)
Apart(q, first, end) ==
  /\ first <= end
  /\ \A b \in q : first <= b.start /\ End(b) <= end
  /\ \A b, c \in q : b = c \/ End(b) <= c.start \/ End(c) <= b.start

Linked ==
  /\ Apart(queue, head, queue_pos)
  /\ queue # {} => queue_size = queue_pos - head /\ adding = NoBlock
  /\ adding # NoBlock => head <= adding.start /\ End(adding) = queue_pos

(* A listener's block is on the queue q or was released, and then it lies  *)
(* before first; the listener's own position is inside it.                 *)
Placed(q, first) ==
  \A l \in Listeners :
    HasRef(l) =>
      /\ q # {}
      /\ lst[l].pos <= lst[l].ref.len
      /\ lst[l].qpos = lst[l].ref.start + lst[l].pos
      /\ lst[l].ref \in q \/ End(lst[l].ref) <= first

(* A reported position is not below shrink_pos, nor is any place a new     *)
(* listener may start at; the block at a reported position is on q.        *)
Reported(q, p) ==
  /\ shrinking => q # {} /\ shrink_pos <= p.start
  /\ \A l \in reported :
       /\ shrinking
       /\ HasRef(l) => lst[l].ref \in q /\ shrink_pos <= lst[l].qpos

IInv ==
  /\ TypeOK
  /\ sizing \in Sizings
  /\ Linked
  /\ StartPointOnQueue
  /\ Placed(queue, head)
  /\ Reported(queue, min_point)

-----------------------------------------------------------------------------
(* A block is longer than nothing and is not the absent block.             *)
LEMMA BlockFacts ==
  ASSUME NEW b \in Block
  PROVE  /\ b.start \in Nat /\ b.len \in 1..MaxLen /\ End(b) \in Nat
         /\ b.start < End(b) /\ End(b) <= b.start + MaxLen
         /\ b # NoBlock
BY QueueAssumption DEF Block, NoBlock, End

(* Cutting the queue before t leaves its blocks apart, and what was on it  *)
(* is on it still or lies before t.                                        *)
LEMMA CutFacts ==
  ASSUME NEW q \in SUBSET Block, NEW first \in Nat, NEW end \in Nat,
         Apart(q, first, end), NEW t \in q
  PROVE  /\ Apart(q \ Before(q, t), t.start, end)
         /\ t \in q \ Before(q, t)
         /\ t.start \in first..end /\ t.start < end
         /\ \A b \in q : b \notin Before(q, t) => t.start <= b.start
         /\ \A b \in Before(q, t) : End(b) <= t.start
<1>1. \A b \in q : /\ b.start \in Nat /\ End(b) \in Nat /\ b.start < End(b)
                   /\ first <= b.start /\ End(b) <= end
  BY BlockFacts DEF Apart
<1>2. \A b \in q : b \notin Before(q, t) => t.start <= b.start
  BY <1>1 DEF Before
<1>3. \A b \in Before(q, t) : End(b) <= t.start
  BY <1>1 DEF Before, Apart
<1>4. t \in q \ Before(q, t) /\ t.start \in first..end /\ t.start < end
  BY <1>1 DEF Before
<1>5. Apart(q \ Before(q, t), t.start, end)
  <2>1. t.start <= end
    BY <1>4
  <2>2. \A b \in q \ Before(q, t) : t.start <= b.start /\ End(b) <= end
    BY <1>1, <1>2
  <2>3. \A b, c \in q \ Before(q, t) :
          b = c \/ End(b) <= c.start \/ End(c) <= b.start
    BY DEF Apart
  <2> QED BY <2>1, <2>2, <2>3 DEF Apart
<1> QED BY <1>2, <1>3, <1>4, <1>5

(* The block the walk of min_queue_point ends at is not before p.          *)
LEMMA MinPointFacts ==
  ASSUME NEW q \in SUBSET Block, NEW p \in q, NEW off, NEW m \in q,
         IsMinPoint(m, q, p, off)
  PROVE  p.start <= m.start
BY BlockFacts DEF IsMinPoint, SyncPoints

(* A target is never below what a listener within the size limits needs.   *)
LEMMA TargetFacts ==
  ASSUME NEW end \in Nat, shrink_pos \in Int, sizing \in Sizing,
         sizing.min <= sizing.limit
  PROVE  /\ Target(end) \in Int
         /\ Target(end) >= Slack + sizing.min
         /\ \A n \in Int : n <= end - shrink_pos /\ n <= sizing.limit
                             => Target(end) >= Slack + n
BY QueueAssumption DEF Target, Lowest, Sizing

-----------------------------------------------------------------------------
(* Placed and Reported speak of lst only.                                  *)
LEMMA CutPlaced ==
  ASSUME TypeOK, NEW q \in SUBSET Block, NEW first \in Nat, NEW end \in Nat,
         Apart(q, first, end), NEW t \in q, Placed(q, first)
  PROVE  Placed(q \ Before(q, t), t.start)
<1> SUFFICES ASSUME NEW l \in Listeners, HasRef(l)
             PROVE  /\ q \ Before(q, t) # {}
                    /\ lst[l].pos <= lst[l].ref.len
                    /\ lst[l].qpos = lst[l].ref.start + lst[l].pos
                    /\ \/ lst[l].ref \in q \ Before(q, t)
                       \/ End(lst[l].ref) <= t.start
  BY DEF Placed
<1>1. lst[l].ref \in Block
  BY DEF TypeOK, Listener, HasRef
<1>2. End(lst[l].ref) \in Nat /\ t.start \in Nat /\ first <= t.start
  BY <1>1, BlockFacts DEF Apart
<1>3. \A b \in Before(q, t) : End(b) <= t.start
  BY CutFacts
<1>4. lst[l].ref \in q \/ End(lst[l].ref) <= first
  BY DEF Placed
<1>5. lst[l].ref \in q \ Before(q, t) \/ End(lst[l].ref) <= t.start
  BY <1>2, <1>3, <1>4
<1> QED BY <1>5, CutFacts DEF Placed

(* A trim leaves the queue as the invariant describes it.                  *)
LEMMA AfterTrim ==
  ASSUME TypeOK, sizing \in Sizings,
         NEW q \in SUBSET Block, NEW first \in Nat, NEW end \in Nat,
         NEW p \in q, NEW off, off = end - p.start,
         Apart(q, first, end), Placed(q, first),
         NEW m \in q, p.start <= m.start, NEW t \in q,
         Trim(t, q, end, m, p, off),
         queue_pos' = end, adding' = NoBlock,
         buffer_count' \in 0..(ShrinkEvery - 1), running' \in BOOLEAN,
         UNCHANGED <<sizing, todo, syncing, lst>>
  PROVE  IInv'
<1> DEFINE n == IF m.start < t.start THEN t ELSE m
           cut == q \ Before(q, t)
<1>1. /\ queue' = cut /\ head' = t.start /\ queue_size' = end - t.start
      /\ min_point' = n /\ min_offset' = off - (n.start - p.start)
      /\ shrinking' = FALSE /\ shrink_pos' = 0 /\ reported' = {}
  BY DEF Trim
<1>2. /\ Apart(cut, t.start, end) /\ t \in cut
      /\ t.start \in Nat /\ t.start < end
  BY CutFacts, BlockFacts
<1>3. n \in cut
  BY <1>2 DEF Before
<1>4. n \in Block /\ n.start \in Nat /\ p.start \in Nat /\ n.start < end
  BY <1>2, <1>3, BlockFacts DEF Apart
<1>5. min_offset' = end - n.start /\ min_offset' \in Nat
  BY <1>1, <1>4
<1>6. TypeOK'
  <2>1. queue' \subseteq Block /\ head' \in Nat /\ queue_pos' \in Nat
    BY <1>1, <1>2
  <2>2. queue_size' \in Nat /\ min_point' \in Block /\ min_offset' \in Nat
    BY <1>1, <1>2, <1>4, <1>5
  <2>3. shrink_pos' \in Int
    BY <1>1
  <2>4. shrinking' \in BOOLEAN /\ reported' = {}
    BY <1>1
  <2> QED BY <2>1, <2>2, <2>3, <2>4 DEF TypeOK
<1>7. Linked'
  BY <1>1, <1>2 DEF Linked, Apart, End
<1>8. StartPointOnQueue'
  BY <1>1, <1>3, <1>5 DEF StartPointOnQueue
<1>9. Placed(queue, head)'
  <2>1. Placed(cut, t.start)
    BY CutPlaced
  <2> QED BY <2>1, <1>1 DEF Placed, HasRef
<1>10. Reported(queue, min_point)'
  BY <1>1 DEF Reported
<1> QED BY <1>6, <1>7, <1>8, <1>9, <1>10 DEF IInv

(* So does a block added without a trim.                                   *)
LEMMA AfterGrow ==
  ASSUME TypeOK, sizing \in Sizings,
         NEW q \in SUBSET Block, NEW first \in Nat, NEW end \in Nat,
         NEW p \in q, NEW off, off = end - p.start,
         Apart(q, first, end), Placed(q, first), Reported(q, p),
         NEW m \in q, p.start <= m.start,
         queue' = q, head' = first, queue_size' = end - first,
         min_point' = m, min_offset' = off - (m.start - p.start),
         MaybeArm(end, off),
         queue_pos' = end, adding' = NoBlock,
         buffer_count' \in 0..(ShrinkEvery - 1), running' \in BOOLEAN,
         UNCHANGED <<sizing, todo, syncing, lst>>
  PROVE  IInv'
<1>1. /\ m \in Block /\ m.start \in Nat /\ p.start \in Nat
      /\ m.start < end /\ p.start < end /\ first <= end
  BY BlockFacts DEF Apart
<1>2. min_offset' = end - m.start /\ min_offset' \in Nat
  BY <1>1
<1>3. \/ shrinking' = TRUE /\ shrink_pos' = p.start /\ reported' = {}
      \/ UNCHANGED <<shrinking, shrink_pos, reported>>
  BY <1>1 DEF MaybeArm
<1>4. TypeOK'
  <2>1. queue' \subseteq Block /\ head' \in Nat /\ queue_pos' \in Nat
    OBVIOUS
  <2>2. queue_size' \in Nat /\ min_point' \in Block /\ min_offset' \in Nat
    BY <1>1, <1>2
  <2>3. shrink_pos' \in Int
    BY <1>1, <1>3 DEF TypeOK
  <2>4. shrinking' \in BOOLEAN /\ (reported' \in {reported, {}})
    BY <1>3 DEF TypeOK
  <2> QED BY <2>1, <2>2, <2>3, <2>4 DEF TypeOK, Attached
<1>5. Linked'
  BY DEF Linked, Apart, End
<1>6. StartPointOnQueue'
  BY <1>2 DEF StartPointOnQueue
<1>7. Placed(queue, head)'
  BY DEF Placed, HasRef
<1>8. Reported(queue, min_point)'
  <2>1. shrinking' => queue' # {} /\ shrink_pos' <= min_point'.start
    <3>1. shrink_pos' = p.start => shrink_pos' <= min_point'.start
      BY <1>1
    <3>2. shrink_pos' = shrink_pos /\ shrink_pos <= p.start
            => shrink_pos' <= min_point'.start
      BY <1>1 DEF TypeOK
    <3> QED BY <1>3, <3>1, <3>2 DEF Reported
  <2>2. \A l \in reported' : shrinking'
    BY <1>3 DEF Reported
  <2>3. \A l \in reported' :
          HasRef(l)' => lst'[l].ref \in queue' /\ shrink_pos' <= lst'[l].qpos
    BY <1>3 DEF Reported, HasRef
  <2> QED BY <2>1, <2>2, <2>3 DEF Reported, HasRef
<1> QED BY <1>4, <1>5, <1>6, <1>7, <1>8 DEF IInv

LEMMA AfterAdd ==
  ASSUME TypeOK, sizing \in Sizings,
         NEW q \in SUBSET Block, NEW first \in Nat, NEW end \in Nat,
         NEW p \in q, NEW off, off = end - p.start,
         Apart(q, first, end), Placed(q, first), Reported(q, p),
         AddBlock(q, first, end, p, off),
         UNCHANGED <<sizing, todo, syncing, lst>>
  PROVE  IInv'
<1>1. /\ buffer_count' \in 0..(ShrinkEvery - 1)
      /\ queue_pos' = end /\ adding' = NoBlock
  BY QueueAssumption DEF AddBlock, Count, TypeOK
<1>2. CASE /\ queue' = q /\ head' = first /\ queue_size' = end - first
           /\ min_point' = p /\ min_offset' = off
           /\ MaybeArm(end, off)
           /\ running' \in BOOLEAN
  <2>1. p.start \in Nat /\ min_offset' = off - (p.start - p.start)
    BY <1>2, BlockFacts
  <2> QED BY <1>1, <1>2, <2>1, AfterGrow
<1>3. ASSUME NEW m \in q, IsMinPoint(m, q, p, off), UNCHANGED running,
             \/ /\ queue' = q /\ head' = first /\ queue_size' = end - first
                /\ min_point' = m
                /\ min_offset' = off - (m.start - p.start)
                /\ MaybeArm(end, off)
             \/ /\ shrinking
                /\ \E t \in q : TrimStops(t, q, end) /\ Trim(t, q, end, m, p, off)
      PROVE  IInv'
  <2>1. p.start <= m.start /\ running' \in BOOLEAN
    BY <1>3, MinPointFacts DEF TypeOK
  <2>2. CASE /\ queue' = q /\ head' = first /\ queue_size' = end - first
             /\ min_point' = m
             /\ min_offset' = off - (m.start - p.start)
             /\ MaybeArm(end, off)
    BY <1>1, <2>1, <2>2, AfterGrow
  <2>3. ASSUME NEW t \in q, Trim(t, q, end, m, p, off)
        PROVE  IInv'
    BY <1>1, <2>1, <2>3, AfterTrim
  <2> QED BY <1>3, <2>2, <2>3
<1> QED BY <1>2, <1>3 DEF AddBlock

-----------------------------------------------------------------------------
(* The invariant holds at first and is kept by every step of the source.   *)

LEMMA InitIInv == Init => IInv
<1> SUFFICES ASSUME Init PROVE IInv
  OBVIOUS
<1>1. TypeOK
  <2>1. Detached \in Listener /\ Detached.phase = "out" /\ Detached.ref = NoBlock
    BY QueueAssumption DEF Detached, Listener, Phase
  <2>2. lst \in [Listeners -> Listener] /\ \A l \in Listeners : lst[l] = Detached
    BY <2>1 DEF Init
  <2>3. buffer_count \in 0..(ShrinkEvery - 1)
    BY QueueAssumption DEF Init
  <2>4. sizing \in Sizing
    BY QueueAssumption DEF Init
  <2>5. head \in Nat /\ queue_pos \in Nat /\ queue_size \in Nat
        /\ min_offset \in Nat /\ shrink_pos \in Int
    BY DEF Init
  <2> QED BY <2>1, <2>2, <2>3, <2>4, <2>5 DEF Init, TypeOK
<1>2. Linked
  BY DEF Init, Linked, Apart
<1>3. StartPointOnQueue
  BY DEF Init, StartPointOnQueue
<1>4. Placed(queue, head)
  BY DEF Init, Placed, HasRef, Detached
<1>5. Reported(queue, min_point)
  BY DEF Init, Reported
<1> QED BY <1>1, <1>2, <1>3, <1>4, <1>5 DEF IInv, Init

LEMMA SourceReadIInv == IInv /\ SourceRead => IInv'
<1> SUFFICES ASSUME IInv, MayRead, queue # {},
                    NEW len \in 1..MaxLen, NEW sync \in BOOLEAN,
                    UNCHANGED <<sizing, todo, syncing, lst>>
             PROVE  LET b == [start |-> queue_pos, len |-> len, sync |-> sync]
                    IN AddBlock(queue \cup {b}, head, End(b), min_point,
                                min_offset + len) => IInv'
  BY DEF SourceRead
<1> DEFINE b == [start |-> queue_pos, len |-> len, sync |-> sync]
           q == queue \cup {b}
<1>1. /\ b \in Block /\ b.start = queue_pos /\ b.len = len
      /\ queue_pos \in Nat /\ End(b) = queue_pos + len /\ End(b) \in Nat
      /\ head \in Nat /\ q \in SUBSET Block
  BY QueueAssumption DEF IInv, TypeOK, Block, End
<1>2. /\ min_point \in queue
      /\ min_offset + len = End(b) - min_point.start
  BY <1>1, BlockFacts DEF IInv, TypeOK, StartPointOnQueue
<1>3. Apart(q, head, End(b))
  <2>1. \A c \in queue : /\ head <= c.start /\ End(c) <= b.start
                         /\ c.start \in Nat /\ End(c) \in Nat
    BY <1>1, BlockFacts DEF IInv, TypeOK, Linked, Apart
  <2>2. head <= End(b) /\ head <= b.start
    BY <1>1 DEF IInv, Linked, Apart
  <2>3. \A c \in q : head <= c.start /\ End(c) <= End(b)
    BY <1>1, <2>1, <2>2
  <2>4. \A c, d \in q : c = d \/ End(c) <= d.start \/ End(d) <= c.start
    BY <2>1 DEF IInv, Linked, Apart
  <2> QED BY <2>2, <2>3, <2>4 DEF Apart
<1>4. Placed(q, head) /\ Reported(q, min_point)
  BY DEF IInv, Placed, Reported
<1> HIDE DEF b
<1> SUFFICES ASSUME AddBlock(q, head, End(b), min_point, min_offset + len)
             PROVE  IInv'
  BY DEF b
<1> QED BY <1>1, <1>2, <1>3, <1>4, AfterAdd DEF IInv

(* While the queue is empty no listener points into it.                    *)
LEMMA EmptyQueue ==
  ASSUME IInv, queue = {}
  PROVE  /\ \A l \in Listeners : ~HasRef(l)
         /\ ~shrinking /\ reported = {}
BY DEF IInv, Placed, Reported, TypeOK, Attached

(* A block alone on the queue is all a first block needs to be.            *)
LEMMA FirstOnQueue ==
  ASSUME IInv, queue = {}, NEW b \in Block, head <= b.start,
         AddBlock({b}, b.start, End(b), b, b.len),
         UNCHANGED <<sizing, todo, syncing, lst>>
  PROVE  IInv'
<1>1. b.start \in Nat /\ End(b) \in Nat /\ b.start < End(b)
  BY BlockFacts
<1>2. Apart({b}, b.start, End(b)) /\ b.len = End(b) - b.start
  BY <1>1, BlockFacts DEF Apart, End
<1>3. Placed({b}, b.start) /\ Reported({b}, b)
  BY EmptyQueue DEF Placed, Reported
<1> QED BY <1>1, <1>2, <1>3, AfterAdd DEF IInv

LEMMA SourceReadFirstIInv == IInv /\ SourceReadFirst => IInv'
<1> SUFFICES ASSUME IInv, MayRead, queue = {},
                    NEW len \in 1..MaxLen, NEW sync \in BOOLEAN,
                    UNCHANGED <<sizing, todo, syncing, lst>>
             PROVE  LET b == [start |-> queue_pos, len |-> len, sync |-> sync]
                    IN \/ AddBlock({b}, b.start, End(b), b, len)
                       \/ /\ adding' = b
                          /\ queue_pos' = End(b)
                          /\ UNCHANGED <<queue, head, queue_size, min_point,
                                         min_offset, buffer_count, running,
                                         shrinking, shrink_pos, reported>>
                       => IInv'
  BY DEF SourceReadFirst
<1> DEFINE b == [start |-> queue_pos, len |-> len, sync |-> sync]
<1>1. /\ b \in Block /\ b.start = queue_pos /\ b.len = len
      /\ queue_pos \in Nat /\ End(b) = queue_pos + len /\ End(b) \in Nat
      /\ head \in Nat /\ head <= b.start
  BY QueueAssumption DEF IInv, TypeOK, Block, End, Linked, Apart
<1> HIDE DEF b
<1>2. CASE AddBlock({b}, b.start, End(b), b, len)
  BY <1>1, <1>2, FirstOnQueue
<1>3. CASE /\ adding' = b
           /\ queue_pos' = End(b)
           /\ UNCHANGED <<queue, head, queue_size, min_point, min_offset,
                          buffer_count, running, shrinking, shrink_pos, reported>>
  <2>1. TypeOK'
    BY <1>1, <1>3 DEF IInv, TypeOK, Attached
  <2>2. Linked'
    BY <1>1, <1>3 DEF Linked, Apart, IInv, End
  <2>3. StartPointOnQueue' /\ Placed(queue, head)' /\ Reported(queue, min_point)'
    BY <1>3, EmptyQueue DEF IInv, StartPointOnQueue, Placed, Reported, HasRef
  <2> QED BY <2>1, <2>2, <2>3, <1>3 DEF IInv
<1> QED BY <1>2, <1>3 DEF b

LEMMA SourceLinkFirstIInv == IInv /\ SourceLinkFirst => IInv'
<1> SUFFICES ASSUME IInv, SourceLinkFirst PROVE IInv'
  OBVIOUS
<1>1. /\ adding \in Block /\ queue = {} /\ head <= adding.start
      /\ queue_pos = End(adding)
  BY DEF IInv, TypeOK, Linked, SourceLinkFirst
<1> QED BY <1>1, FirstOnQueue DEF SourceLinkFirst

LEMMA SourceTrimIInv == IInv /\ SourceTrim => IInv'
<1> SUFFICES ASSUME IInv, SourceTrim PROVE IInv'
  OBVIOUS
<1>1. PICK t \in queue :
        Trim(t, queue, queue_pos, min_point, min_point, min_offset)
  BY DEF SourceTrim
<1>2. /\ queue \in SUBSET Block /\ head \in Nat /\ queue_pos \in Nat
      /\ min_point \in queue /\ min_offset = queue_pos - min_point.start
      /\ Apart(queue, head, queue_pos) /\ adding = NoBlock
      /\ min_point.start <= min_point.start
  BY BlockFacts DEF SourceTrim, IInv, TypeOK, Linked, StartPointOnQueue
<1>3. /\ UNCHANGED <<queue_pos, sizing, buffer_count, adding, running, todo,
                     syncing, lst>>
      /\ buffer_count \in 0..(ShrinkEvery - 1) /\ running \in BOOLEAN
  BY DEF SourceTrim, IInv, TypeOK
<1> QED BY <1>1, <1>2, <1>3, AfterTrim DEF IInv

(* Steps of the source that leave queue and listeners alone.               *)
LEMMA SourceAsideIInv ==
  IInv /\ (UpdateSizes \/ SourceStop \/ StartSync \/ EndSync) => IInv'
<1> SUFFICES ASSUME IInv, UpdateSizes \/ SourceStop \/ StartSync \/ EndSync
             PROVE  IInv'
  OBVIOUS
<1>1. /\ UNCHANGED <<queue, head, queue_pos, queue_size, min_point, min_offset,
                     buffer_count, adding, shrinking, shrink_pos, lst, reported>>
      /\ sizing' \in Sizings /\ running' \in BOOLEAN /\ syncing' \in BOOLEAN
      /\ todo' \subseteq Listeners
  BY DEF UpdateSizes, SourceStop, StartSync, EndSync, IInv, TypeOK, srcvars,
         Attached
<1>2. TypeOK'
  BY <1>1, QueueAssumption DEF IInv, TypeOK, Attached
<1>3. Linked' /\ StartPointOnQueue'
  BY <1>1 DEF IInv, Linked, Apart, StartPointOnQueue, End
<1>4. Placed(queue, head)' /\ Reported(queue, min_point)'
  BY <1>1 DEF IInv, Placed, Reported, HasRef, End
<1> QED BY <1>1, <1>2, <1>3, <1>4 DEF IInv

-----------------------------------------------------------------------------
(* The listeners' steps.                                                   *)

(* Record d may stand for a listener: if it points anywhere, then at its   *)
(* own position in a block of the queue.                                   *)
Sound(d) ==
  /\ d \in Listener
  /\ d.phase # "queue" => d.ref = NoBlock
  /\ d.ref # NoBlock =>
       d.ref \in queue /\ d.pos <= d.ref.len /\ d.qpos = d.ref.start + d.pos

(* What a step of listener l may do to its record and to what it reported. *)
LEMMA ListenerMoves ==
  ASSUME IInv, NEW l \in Listeners, NEW d, Sound(d),
         lst' = [lst EXCEPT ![l] = d],
         UNCHANGED <<srcvars, shrinking>>,
         syncing' \in BOOLEAN, todo' \subseteq Listeners,
         shrink_pos' \in Int, shrink_pos' <= shrink_pos,
         reported' \subseteq reported \cup {l},
         l \in reported' => /\ shrinking
                            /\ d.phase # "out"
                            /\ d.ref # NoBlock => shrink_pos' <= d.qpos
  PROVE  IInv'
<1>1. /\ lst' \in [Listeners -> Listener] /\ lst'[l] = d
      /\ \A k \in Listeners : k # l => lst'[k] = lst[k]
  BY DEF IInv, TypeOK, Sound
<1>2. /\ UNCHANGED <<queue, head, queue_pos, queue_size, min_point, min_offset,
                     sizing, buffer_count, adding, running>>
  BY DEF srcvars
<1>3. TypeOK'
  <2>1. \A k \in Listeners : lst'[k].phase # "queue" => lst'[k].ref = NoBlock
    BY <1>1 DEF IInv, TypeOK, Sound
  <2>2. reported' \subseteq {k \in Listeners : lst'[k].phase # "out"}
    BY <1>1 DEF IInv, TypeOK, Attached
  <2> QED BY <1>1, <1>2, <2>1, <2>2 DEF IInv, TypeOK, Attached
<1>4. Linked' /\ StartPointOnQueue'
  BY <1>2 DEF IInv, Linked, Apart, StartPointOnQueue, End
<1>5. Placed(queue, head)'
  <2> SUFFICES ASSUME NEW k \in Listeners, HasRef(k)'
               PROVE  /\ queue # {}
                      /\ lst'[k].pos <= lst'[k].ref.len
                      /\ lst'[k].qpos = lst'[k].ref.start + lst'[k].pos
                      /\ lst'[k].ref \in queue \/ End(lst'[k].ref) <= head
    BY <1>2 DEF Placed, HasRef, End
  <2>1. CASE k = l
    BY <1>1, <2>1 DEF Sound, HasRef
  <2>2. CASE k # l
    BY <1>1, <2>2 DEF HasRef, IInv, Placed
  <2> QED BY <2>1, <2>2
<1>6. Reported(queue, min_point)'
  <2>1. shrinking' => queue' # {} /\ shrink_pos' <= min_point'.start
    <3>1. shrinking' = shrinking
      OBVIOUS
    <3>2. queue # {} => min_point.start \in Int /\ shrink_pos \in Int
      BY BlockFacts DEF IInv, TypeOK, StartPointOnQueue
    <3>3. queue # {} /\ shrink_pos <= min_point.start
            => shrink_pos' <= min_point'.start
      BY <1>2, <3>2
    <3> QED BY <1>2, <3>1, <3>3 DEF IInv, Reported
  <2>2. ASSUME NEW k \in reported'
        PROVE  /\ shrinking'
               /\ HasRef(k)' => lst'[k].ref \in queue' /\ shrink_pos' <= lst'[k].qpos
    <3>1. CASE k = l
      BY <1>1, <1>2, <2>2, <3>1 DEF Sound, HasRef
    <3>2. CASE k # l
      <4>1. k \in reported /\ k \in Listeners /\ lst'[k] = lst[k]
        BY <1>1, <2>2, <3>2 DEF IInv, TypeOK, Attached
      <4>2. shrinking' /\ lst[k].qpos \in Int
        BY <4>1 DEF IInv, Reported, TypeOK, Listener
      <4>3. HasRef(k) => lst[k].ref \in queue /\ shrink_pos <= lst[k].qpos
        BY <4>1 DEF IInv, Reported
      <4>4. shrink_pos <= lst[k].qpos => shrink_pos' <= lst[k].qpos
        BY <4>2 DEF IInv, TypeOK
      <4> QED BY <1>2, <4>1, <4>2, <4>3, <4>4 DEF HasRef
    <3> QED BY <3>1, <3>2
  <2> QED BY <2>1, <2>2 DEF Reported, HasRef
<1>7. (sizing \in Sizings)'
  BY <1>2 DEF IInv
<1> QED BY <1>3, <1>4, <1>5, <1>6, <1>7 DEF IInv

(* A record that is nowhere on the queue is sound whatever happened.       *)
LEMMA OffQueue ==
  /\ Sound(Detached) /\ Detached.phase = "out" /\ Detached.ref = NoBlock
  /\ Sound([Detached EXCEPT !.phase = "head"])
  /\ [Detached EXCEPT !.phase = "head"].ref = NoBlock
  /\ [Detached EXCEPT !.phase = "head"].phase = "head"
  /\ Sound(Waiting) /\ Waiting.phase = "queue" /\ Waiting.ref = NoBlock
BY QueueAssumption DEF Detached, Waiting, Sound, Listener, Phase

(* Reporting a position keeps shrink_pos at or below it.                   *)
LEMMA ReportFacts ==
  ASSUME shrink_pos \in Int, NEW l \in Listeners, NEW d, d.qpos \in Int,
         Report(l, d)
  PROVE  /\ shrink_pos' \in Int /\ shrink_pos' <= shrink_pos
         /\ \/ /\ shrinking /\ shrink_pos' <= d.qpos
               /\ reported' = reported \cup {l}
            \/ shrink_pos' = shrink_pos /\ reported' = reported
<1>1. CASE /\ shrink_pos' = Lowest(shrink_pos, d.qpos)
           /\ reported' = reported \cup {l} /\ shrinking
  <2>1. /\ shrink_pos' \in Int /\ shrink_pos' <= shrink_pos
        /\ shrink_pos' <= d.qpos
    BY <1>1 DEF Lowest
  <2> QED BY <1>1, <2>1
<1>2. CASE UNCHANGED <<shrink_pos, reported>>
  <2>1. shrink_pos' \in Int /\ shrink_pos' <= shrink_pos
    BY <1>2
  <2> QED BY <1>2, <2>1
<1> QED BY <1>1, <1>2 DEF Report

(* Sending from record c.                                                  *)
LEMMA AdvanceIInv ==
  ASSUME IInv, NEW l \in Listeners, lst[l].phase # "out",
         NEW c, c.qpos \in Nat,
         l \in reported => shrink_pos <= c.qpos,
         Advance(l, c), UNCHANGED <<srcvars, shrinking, todo, syncing>>
  PROVE  IInv'
<1>1. syncing' \in BOOLEAN /\ todo' \subseteq Listeners /\ shrink_pos \in Int
  BY DEF IInv, TypeOK
<1>2. CASE /\ lst' = [lst EXCEPT ![l] = Detached]
           /\ reported' = reported \ {l}
           /\ UNCHANGED shrink_pos
  <2>1. shrink_pos' \in Int /\ shrink_pos' <= shrink_pos
    BY <1>1, <1>2
  <2> QED BY <1>1, <1>2, <2>1, OffQueue, ListenerMoves
<1>3. ASSUME NEW d \in Positions, Sent(c, d),
             lst' = [lst EXCEPT ![l] = d], Report(l, d)
      PROVE  IInv'
  <2>1. PICK b \in queue, p \in 0..MaxLen :
          d = [phase |-> "queue", ref |-> b, pos |-> p, qpos |-> b.start + p]
    BY <1>3 DEF Positions
  <2>2. /\ d.phase = "queue" /\ d.ref = b /\ d.pos = p /\ d.qpos = b.start + p
        /\ b \in Block
    BY <2>1 DEF IInv, TypeOK
  <2>3. d.pos <= d.ref.len /\ c.qpos <= d.qpos /\ d.qpos \in Nat
    BY <1>3, <2>2, BlockFacts, QueueAssumption DEF Sent
  <2>4. d \in Listener
    BY <2>1, <2>2, <2>3 DEF Listener, Phase
  <2>5. Sound(d)
    BY <2>2, <2>3, <2>4 DEF Sound
  <2>6. /\ shrink_pos' \in Int /\ shrink_pos' <= shrink_pos
        /\ \/ /\ shrinking /\ shrink_pos' <= d.qpos
              /\ reported' = reported \cup {l}
           \/ shrink_pos' = shrink_pos /\ reported' = reported
    BY <1>1, <1>3, <2>3, ReportFacts
  <2>7. l \in reported => shrink_pos <= d.qpos
    BY <1>1, <2>3
  <2>8. l \in reported' => shrinking /\ shrink_pos' <= d.qpos
    BY <2>6, <2>7 DEF IInv, Reported
  <2>9. d.phase # "out"
    BY <2>2
  <2> QED BY <1>1, <1>3, <2>5, <2>6, <2>8, <2>9, ListenerMoves
<1>4. CASE /\ lst' = [lst EXCEPT ![l] = Requeue(c)] /\ Report(l, c)
  <2>1. /\ Sound(Requeue(c)) /\ Requeue(c).phase # "out"
        /\ Requeue(c).ref = NoBlock
    BY OffQueue DEF Requeue
  <2>2. /\ shrink_pos' \in Int /\ shrink_pos' <= shrink_pos
        /\ \/ shrinking /\ reported' = reported \cup {l}
           \/ reported' = reported
    BY <1>1, <1>4, ReportFacts
  <2>3. l \in reported' => shrinking
    BY <2>2 DEF IInv, Reported
  <2> QED BY <1>1, <1>4, <2>1, <2>2, <2>3, ListenerMoves
<1> QED BY <1>2, <1>3, <1>4 DEF Advance

(* A place to start from is never before min_queue_point, and the position *)
(* a joining listener is given is that of the block.                       *)
LEMMA JoinFacts ==
  ASSUME IInv, NEW c, NEW v, NEW b \in queue, StartBlock(b, v)
  PROVE  /\ Join(c, b).qpos = b.start /\ b.start \in Nat
         /\ shrinking => shrink_pos <= b.start
<1>1. /\ min_point \in queue /\ queue \subseteq Block
      /\ min_offset = queue_pos - min_point.start
      /\ queue_pos \in Nat /\ shrink_pos \in Int
  BY DEF IInv, TypeOK, StartPointOnQueue
<1>2. b.start \in Nat /\ min_point.start \in Nat
  BY <1>1, BlockFacts
<1>3. PICK s \in SearchStart(v) : s.start <= b.start
  BY DEF StartBlock
<1>4. s \in queue /\ min_point.start <= s.start
  <2>1. s \in queue
    BY <1>3 DEF SearchStart
  <2>2. CASE End(s) = queue_pos
    <3>1. /\ s.start \in Nat /\ End(s) \in Nat /\ s.start < End(s)
          /\ End(min_point) \in Nat /\ min_point.start < End(min_point)
          /\ End(min_point) <= queue_pos
      BY <1>1, <2>1, BlockFacts DEF IInv, Linked, Apart
    <3>2. s = min_point \/ End(s) <= min_point.start \/ End(min_point) <= s.start
      BY <1>1, <2>1 DEF IInv, Linked, Apart
    <3> QED BY <1>2, <2>1, <2>2, <3>1, <3>2
  <2>3. CASE End(s) # queue_pos
    BY <1>3, <2>1, <2>3 DEF SearchStart
  <2> QED BY <2>2, <2>3
<1>5. s.start \in Nat
  BY <1>1, <1>4, BlockFacts
<1>6. Join(c, b).qpos = b.start
  BY <1>1, <1>2 DEF Join
<1>7. shrink_pos <= min_point.start => shrink_pos <= b.start
  BY <1>1, <1>2, <1>3, <1>4, <1>5
<1> QED BY <1>2, <1>6, <1>7 DEF IInv, Reported

LEMMA ListenerIInv ==
  ASSUME IInv, NEW l \in Listeners, ListenerStep(l) PROVE IInv'
<1>1. /\ syncing \in BOOLEAN /\ todo \subseteq Listeners /\ shrink_pos \in Int
      /\ shrink_pos <= shrink_pos
      /\ l \in reported => shrinking
      /\ l \in reported => lst[l].phase # "out"
      /\ lst[l] \in Listener
  BY DEF IInv, TypeOK, Reported, Attached
<1>2. CASE Attach(l)
  BY <1>1, <1>2, OffQueue, ListenerMoves DEF Attach
<1>3. CASE SendHead(l)
  <2>1. PICK n \in 0..queue_pos : Report(l, [lst[l] EXCEPT !.qpos = n])
    BY <1>3 DEF SendHead
  <2>2. [lst[l] EXCEPT !.qpos = n].qpos = n /\ n \in Int
    BY <1>1 DEF Listener
  <2>3. /\ shrink_pos' \in Int /\ shrink_pos' <= shrink_pos
        /\ \/ shrinking /\ reported' = reported \cup {l}
           \/ reported' = reported
    BY <1>1, <2>1, <2>2, ReportFacts
  <2>4. lst[l].phase = "head" /\ lst[l].ref = NoBlock /\ Sound(lst[l])
    BY <1>1, <1>3 DEF SendHead, IInv, TypeOK, Sound
  <2>5. lst' = [lst EXCEPT ![l] = lst[l]]
    BY <1>3 DEF SendHead, IInv, TypeOK
  <2> QED BY <1>1, <1>3, <2>3, <2>4, <2>5, ListenerMoves DEF SendHead
<1>4. CASE EnterQueue(l)
  <2>1. UNCHANGED <<srcvars, shrinking, todo, syncing>> /\ lst[l].phase # "out"
    BY <1>4 DEF EnterQueue, MaySend
  <2>2. ASSUME NEW v \in Bursts, NEW b \in queue, StartBlock(b, v),
               Advance(l, Join(lst[l], b))
        PROVE  IInv'
    <3>1. /\ Join(lst[l], b).qpos \in Nat
          /\ l \in reported => shrink_pos <= Join(lst[l], b).qpos
      BY <1>1, <2>2, JoinFacts
    <3> QED BY <2>1, <2>2, <3>1, AdvanceIInv
  <2>3. ASSUME lst' = [lst EXCEPT ![l] = Waiting],
               NEW n \in 0..queue_pos, Report(l, [Waiting EXCEPT !.qpos = n])
        PROVE  IInv'
    <3>1. [Waiting EXCEPT !.qpos = n].qpos = n /\ n \in Int
      BY DEF Waiting, Detached
    <3>2. /\ shrink_pos' \in Int /\ shrink_pos' <= shrink_pos
          /\ \/ shrinking /\ reported' = reported \cup {l}
             \/ reported' = reported
      BY <1>1, <2>3, <3>1, ReportFacts
    <3>3. Sound(Waiting) /\ Waiting.phase # "out" /\ Waiting.ref = NoBlock
      BY OffQueue
    <3> QED BY <1>1, <2>1, <2>3, <3>2, <3>3, ListenerMoves
  <2> QED BY <1>4, <2>2, <2>3 DEF EnterQueue
<1>5. CASE SendQueue(l)
  <2>1. lst[l].qpos \in Nat /\ lst[l].phase # "out"
    BY <1>1, <1>5 DEF Listener, SendQueue, MaySend
  <2>2. l \in reported => shrink_pos <= lst[l].qpos
    BY <1>5 DEF SendQueue, IInv, Reported
  <2> QED BY <1>5, <2>1, <2>2, AdvanceIInv DEF SendQueue
<1>6. CASE /\ lst' = [lst EXCEPT ![l] = Detached]
           /\ reported' = reported \ {l}
           /\ UNCHANGED <<srcvars, shrinking, shrink_pos, syncing>>
           /\ todo' \subseteq Listeners
  BY <1>1, <1>6, OffQueue, ListenerMoves
<1>7. CASE SyncHold(l)
  <2>1. /\ UNCHANGED <<srcvars, shrinking, shrink_pos, syncing>>
        /\ todo' \subseteq Listeners
    BY <1>1, <1>7 DEF SyncHold
  <2>2. CASE UNCHANGED <<lst, reported>>
    <3>1. TypeOK'
      BY <2>1, <2>2 DEF IInv, TypeOK, Attached, srcvars
    <3>2. Linked' /\ StartPointOnQueue'
      BY <2>1 DEF IInv, Linked, Apart, StartPointOnQueue, End, srcvars
    <3>3. Placed(queue, head)' /\ Reported(queue, min_point)'
      BY <2>1, <2>2 DEF IInv, Placed, Reported, HasRef, End, srcvars
    <3> QED BY <2>1, <3>1, <3>2, <3>3 DEF IInv, srcvars
  <2>3. CASE lst' = [lst EXCEPT ![l] = Waiting] /\ reported' = reported \ {l}
    BY <1>1, <2>1, <2>3, OffQueue, ListenerMoves
  <2> QED BY <1>7, <2>2, <2>3 DEF SyncHold
<1>8. TimeLimit(l) \/ SyncDetach(l) =>
        /\ lst' = [lst EXCEPT ![l] = Detached]
        /\ reported' = reported \ {l}
        /\ UNCHANGED <<srcvars, shrinking, shrink_pos, syncing>>
        /\ todo' \subseteq Listeners
  BY <1>1 DEF TimeLimit, SyncDetach
<1> QED BY <1>2, <1>3, <1>4, <1>5, <1>6, <1>7, <1>8 DEF ListenerStep

-----------------------------------------------------------------------------
(* The inductive invariant: blocks apart, every listener on one of them or *)
(* behind them, nothing reported below shrink_pos.                         *)
THEOREM Inductive == Spec => []IInv
<1>1. ASSUME IInv, [Next]_vars PROVE IInv'
  <2>1. CASE SourceStep
    BY <1>1, <2>1, SourceReadIInv, SourceReadFirstIInv, SourceLinkFirstIInv,
       SourceTrimIInv, SourceAsideIInv DEF SourceStep
  <2>2. CASE \E l \in Listeners : ListenerStep(l)
    BY <1>1, <2>2, ListenerIInv
  <2>3. CASE UNCHANGED vars
    <3>1. TypeOK'
      BY <1>1, <2>3 DEF IInv, TypeOK, Attached, vars, srcvars
    <3>2. Linked' /\ StartPointOnQueue'
      BY <1>1, <2>3 DEF IInv, Linked, Apart, StartPointOnQueue, End, vars, srcvars
    <3>3. Placed(queue, head)' /\ Reported(queue, min_point)'
      BY <1>1, <2>3 DEF IInv, Placed, Reported, HasRef, End, vars, srcvars
    <3> QED BY <1>1, <2>3, <3>1, <3>2, <3>3 DEF IInv, vars, srcvars
  <2> QED BY <1>1, <2>1, <2>2, <2>3 DEF Next
<1> QED BY InitIInv, <1>1, PTL DEF Spec

(* The types, and that the place new listeners start at is on the queue    *)
(* with the right byte count (source_add_queue_buffer, _source_read).      *)
THEOREM TypeCorrect == Spec => []TypeOK
<1>1. IInv => TypeOK
  BY DEF IInv
<1> QED BY <1>1, Inductive, PTL

THEOREM StartPoint == Spec => []StartPointOnQueue
<1>1. IInv => StartPointOnQueue
  BY DEF IInv
<1> QED BY <1>1, Inductive, PTL

(* The lag test of source_queue_advance is enough: whoever passes it holds *)
(* a block that has not been released.                                     *)
THEOREM LagTestSound == Spec => []PassedListenerSafe
<1>1. IInv => PassedListenerSafe
  <2> SUFFICES ASSUME IInv, NEW l \in Listeners, HasRef(l), ~TooFarBehind(lst[l])
               PROVE  /\ lst[l].ref \in queue
                      /\ lst[l].pos <= lst[l].ref.len
                      /\ lst[l].qpos = lst[l].ref.start + lst[l].pos
    BY DEF PassedListenerSafe
  <2>1. /\ lst[l].pos <= lst[l].ref.len
        /\ lst[l].qpos = lst[l].ref.start + lst[l].pos
        /\ queue_size = queue_pos - head
        /\ lst[l].ref \in queue \/ End(lst[l].ref) <= head
    BY DEF IInv, Placed, Linked
  <2>2. /\ lst[l].ref \in Block /\ lst[l].pos \in Nat
        /\ queue_pos \in Nat /\ head \in Nat
    BY QueueAssumption DEF IInv, TypeOK, Listener, HasRef
  <2>3. ~(End(lst[l].ref) <= head)
    <3>1. lst[l].ref.start \in Nat /\ lst[l].ref.len \in Nat \ {0}
      BY <2>2, QueueAssumption DEF Block
    <3>2. ~ \/ queue_pos - lst[l].qpos > queue_pos - head
            \/ /\ queue_pos - lst[l].qpos = queue_pos - head
               /\ lst[l].pos > 0
      BY <2>1 DEF TooFarBehind, Lag
    <3>3. \A start, len, pos, end, first \in Nat :
            /\ len # 0 /\ pos <= len
            /\ ~ \/ end - (start + pos) > end - first
                 \/ end - (start + pos) = end - first /\ pos > 0
            => ~(start + len <= first)
      OBVIOUS
    <3> QED BY <2>1, <2>2, <3>1, <3>2, <3>3 DEF End
  <2> QED BY <2>1, <2>3
<1> QED BY <1>1, Inductive, PTL

(* A trim stops before the block of a listener that reported and is still  *)
(* within the limit.                                                       *)
LEMMA TrimSpares ==
  ASSUME IInv, NEW q \in SUBSET Block, NEW end \in Nat, NEW t \in q,
         TrimStops(t, q, end), NEW l \in reported, HasRef(l),
         lst[l].ref \in q, end - lst[l].qpos <= sizing.limit
  PROVE  lst[l].ref \in q \ Before(q, t)
<1> DEFINE r == lst[l].ref
<1>1. /\ shrink_pos \in Int /\ sizing \in Sizing /\ sizing.min <= sizing.limit
      /\ l \in Listeners
  BY QueueAssumption DEF IInv, TypeOK, Attached
<1>2. /\ r.start \in Nat /\ r.len \in 1..MaxLen /\ lst[l].pos \in Nat
      /\ lst[l].pos <= r.len /\ lst[l].qpos = r.start + lst[l].pos
  <2>1. lst[l] \in Listener
    BY <1>1 DEF IInv, TypeOK
  <2> QED BY <1>1, <2>1, BlockFacts DEF IInv, Placed, Listener
<1>3. shrink_pos <= lst[l].qpos
  BY DEF IInv, Reported
<1>4. Target(end) \in Int /\ Target(end) >= Slack + (end - lst[l].qpos)
  <2>1. /\ end - lst[l].qpos \in Int
        /\ end - lst[l].qpos <= end - shrink_pos
    BY <1>1, <1>2, <1>3
  <2> QED BY <1>1, <2>1, TargetFacts
<1>5. ~(end - r.start > Target(end))
  BY <1>2, <1>4, QueueAssumption, BlocksWithinSlack
<1> QED BY <1>5 DEF TrimStops

(* No trim takes the block from under a listener that reported.            *)
THEOREM TrimSparesReporters == Spec => ReportersKept
<1> DEFINE Holds == \A l \in reported :
                     HasRef(l) /\ queue_pos' - lst[l].qpos <= sizing.limit
                       /\ head' # head => lst[l].ref \in queue'
<1>1. ASSUME IInv, Next PROVE Holds
  <2> SUFFICES ASSUME NEW l \in reported, HasRef(l), head' # head,
                      queue_pos' - lst[l].qpos <= sizing.limit
               PROVE  lst[l].ref \in queue'
    OBVIOUS
  <2>1. /\ lst[l].ref \in queue /\ queue # {} /\ queue \in SUBSET Block
        /\ queue_pos \in Nat /\ adding = NoBlock
    BY <1>1 DEF IInv, Reported, TypeOK, Linked
  <2>2. ASSUME NEW q \in SUBSET Block, NEW end \in Nat, lst[l].ref \in q,
               queue_pos' = end, NEW t \in q, TrimStops(t, q, end),
               queue' = q \ Before(q, t)
        PROVE  lst[l].ref \in queue'
    BY <1>1, <2>2, TrimSpares
  <2>3. CASE SourceRead
    <3>1. PICK len \in 1..MaxLen, sync \in BOOLEAN :
            LET b == [start |-> queue_pos, len |-> len, sync |-> sync]
            IN AddBlock(queue \cup {b}, head, End(b), min_point, min_offset + len)
      BY <2>3 DEF SourceRead
    <3> DEFINE b == [start |-> queue_pos, len |-> len, sync |-> sync]
               q == queue \cup {b}
    <3>2. q \in SUBSET Block /\ End(b) \in Nat /\ lst[l].ref \in q
      BY <2>1, QueueAssumption DEF Block, End
    <3> HIDE DEF q, b
    <3>3. AddBlock(q, head, End(b), min_point, min_offset + len)
      BY <3>1 DEF q, b
    <3>4. /\ queue_pos' = End(b)
          /\ \E t \in q : TrimStops(t, q, End(b)) /\ queue' = q \ Before(q, t)
      BY <3>3 DEF AddBlock, Trim
    <3> QED BY <2>2, <3>2, <3>4
  <2>4. CASE SourceTrim
    BY <2>1, <2>2, <2>4 DEF SourceTrim, Trim
  <2>5. CASE SourceReadFirst \/ SourceLinkFirst
    BY <2>1, <2>5 DEF SourceReadFirst, SourceLinkFirst
  <2>6. CASE UpdateSizes \/ SourceStop \/ StartSync \/ EndSync
    BY <2>6 DEF UpdateSizes, SourceStop, StartSync, EndSync, srcvars
  <2>7. CASE \E k \in Listeners : ListenerStep(k)
    BY <2>7 DEF ListenerStep, Attach, SendHead, EnterQueue, SendQueue, TimeLimit,
                SyncDetach, SyncHold, srcvars
  <2> QED BY <1>1, <2>3, <2>4, <2>5, <2>6, <2>7 DEF Next, SourceStep
<1>2. IInv /\ [Next]_vars => [Holds]_vars
  BY <1>1
<1>3. Spec => [][Holds]_vars
  BY <1>2, Inductive, PTL DEF Spec
<1> QED BY <1>3 DEF ReportersKept

-----------------------------------------------------------------------------
(* Blocks follow one another: each but the first begins where another ends,*)
(* and one ends where the stream does.                                     *)
Continuous(q, first, end) ==
  q # {} =>
    /\ \E b \in q : End(b) = end
    /\ \A b \in q : b.start = first \/ \E c \in q : End(c) = b.start

LEMMA CutContinuous ==
  ASSUME NEW q \in SUBSET Block, NEW first \in Nat, NEW end \in Nat,
         Apart(q, first, end), Continuous(q, first, end), NEW t \in q
  PROVE  Continuous(q \ Before(q, t), t.start, end)
<1> DEFINE cut == q \ Before(q, t)
<1>1. \A b \in q : /\ b.start \in Nat /\ End(b) \in Nat /\ b.start < End(b)
                   /\ first <= b.start /\ End(b) <= end
  BY BlockFacts DEF Apart
<1>2. /\ t.start < end /\ t.start \in Nat
      /\ \A b \in q : b \notin Before(q, t) => t.start <= b.start
      /\ \A b \in Before(q, t) : End(b) <= t.start
  BY <1>1, CutFacts
<1>3. \E b \in cut : End(b) = end
  BY <1>1, <1>2 DEF Continuous
<1>4. ASSUME NEW b \in cut PROVE b.start = t.start \/ \E c \in cut : End(c) = b.start
  <2> SUFFICES ASSUME b.start # t.start PROVE \E c \in cut : End(c) = b.start
    OBVIOUS
  <2>1. t.start < b.start /\ b.start # first
    BY <1>1, <1>2
  <2>2. PICK c \in q : End(c) = b.start
    BY <2>1 DEF Continuous
  <2>3. c \notin Before(q, t)
    <3>1. End(c) > t.start
      BY <1>1, <1>2, <2>1, <2>2
    <3> QED BY <1>1, <1>2, <3>1
  <2> QED BY <2>2, <2>3
<1> QED BY <1>3, <1>4 DEF Continuous

LEMMA AddContinuous ==
  ASSUME NEW q \in SUBSET Block, NEW first \in Nat, NEW end \in Nat,
         NEW p, NEW off, Apart(q, first, end), Continuous(q, first, end),
         AddBlock(q, first, end, p, off)
  PROVE  Continuous(queue', head', queue_pos')
<1>1. queue_pos' = end
  BY DEF AddBlock
<1>2. CASE queue' = q /\ head' = first
  BY <1>1, <1>2
<1>3. CASE \E t \in q : queue' = q \ Before(q, t) /\ head' = t.start
  BY <1>1, <1>3, CutContinuous
<1> QED BY <1>2, <1>3 DEF AddBlock, Trim

(* _source_read on a queue that is not empty: block b of len bytes joins.  *)
LEMMA ReadShape ==
  ASSUME IInv, Continuous(queue, head, queue_pos), SourceRead
  PROVE  \E q \in SUBSET Block, end \in Nat, len \in Nat :
           /\ AddBlock(q, head, end, min_point, min_offset + len)
           /\ Apart(q, head, end) /\ Continuous(q, head, end)
           /\ min_point \in q /\ min_offset + len = end - min_point.start
<1>1. /\ queue \in SUBSET Block /\ head \in Nat /\ queue_pos \in Nat
      /\ Apart(queue, head, queue_pos) /\ queue # {}
      /\ min_point \in queue /\ min_offset = queue_pos - min_point.start
  BY DEF IInv, TypeOK, Linked, StartPointOnQueue, SourceRead
<1>2. PICK len \in 1..MaxLen, sync \in BOOLEAN :
        LET b == [start |-> queue_pos, len |-> len, sync |-> sync]
        IN AddBlock(queue \cup {b}, head, End(b), min_point, min_offset + len)
  BY DEF SourceRead
<1> DEFINE b == [start |-> queue_pos, len |-> len, sync |-> sync]
           q == queue \cup {b}
<1>3. /\ b \in Block /\ b.start = queue_pos /\ End(b) \in Nat /\ q \in SUBSET Block
      /\ End(b) = queue_pos + len /\ queue_pos < End(b) /\ len \in Nat
  BY <1>1, QueueAssumption DEF Block, End
<1> HIDE DEF b
<1>4. AddBlock(q, head, End(b), min_point, min_offset + len)
  BY <1>2 DEF b
<1>5. \A c \in queue : head <= c.start /\ End(c) <= b.start /\ c.start \in Nat /\ End(c) \in Nat
  BY <1>1, <1>3, BlockFacts DEF Apart
<1>6. Apart(q, head, End(b))
  <2>1. head <= End(b) /\ head <= b.start
    BY <1>1, <1>3 DEF Apart
  <2>2. \A c, d \in q : c = d \/ End(c) <= d.start \/ End(d) <= c.start
    BY <1>1, <1>5 DEF Apart
  <2>3. \A c \in q : head <= c.start /\ End(c) <= End(b)
    BY <1>1, <1>3, <1>5, <2>1
  <2> QED BY <2>1, <2>2, <2>3 DEF Apart
<1>7. Continuous(q, head, End(b))
  BY <1>1, <1>3 DEF Continuous
<1>8. min_point \in q /\ min_offset + len = End(b) - min_point.start
  BY <1>1, <1>3, BlockFacts
<1> HIDE DEF q
<1> QED BY <1>3, <1>4, <1>6, <1>7, <1>8

LEMMA ContinuousStep ==
  ASSUME IInv, Continuous(queue, head, queue_pos), [Next]_vars
  PROVE  Continuous(queue', head', queue_pos')
<1>1. /\ queue \in SUBSET Block /\ head \in Nat /\ queue_pos \in Nat
      /\ Apart(queue, head, queue_pos)
  BY DEF IInv, TypeOK, Linked
<1>2. CASE SourceRead
  BY <1>1, <1>2, ReadShape, AddContinuous
<1>3. ASSUME NEW b \in Block, AddBlock({b}, b.start, End(b), b, b.len)
      PROVE  Continuous(queue', head', queue_pos')
  <2>1. Apart({b}, b.start, End(b)) /\ Continuous({b}, b.start, End(b))
        /\ b.start \in Nat /\ End(b) \in Nat
    BY BlockFacts DEF Apart, Continuous
  <2> QED BY <1>3, <2>1, AddContinuous
<1>4. CASE SourceReadFirst
  <2>1. PICK len \in 1..MaxLen, sync \in BOOLEAN :
          LET b == [start |-> queue_pos, len |-> len, sync |-> sync]
          IN AddBlock({b}, b.start, End(b), b, len) \/ queue' = queue
    BY <1>4 DEF SourceReadFirst
  <2> DEFINE b == [start |-> queue_pos, len |-> len, sync |-> sync]
  <2>2. b \in Block /\ b.len = len
    BY <1>1, QueueAssumption DEF Block
  <2> HIDE DEF b
  <2>3. AddBlock({b}, b.start, End(b), b, b.len) \/ queue' = queue
    BY <2>1, <2>2 DEF b
  <2> QED BY <1>3, <1>4, <2>2, <2>3 DEF SourceReadFirst, Continuous
<1>5. CASE SourceLinkFirst
  <2>1. adding \in Block /\ queue_pos = End(adding)
    BY <1>5 DEF IInv, TypeOK, Linked, SourceLinkFirst
  <2> QED BY <1>3, <1>5, <2>1 DEF SourceLinkFirst
<1>6. CASE SourceTrim
  BY <1>1, <1>6, CutContinuous DEF SourceTrim, Trim
<1>7. CASE UNCHANGED <<queue, head, queue_pos>>
  BY <1>7 DEF Continuous
<1>8. ASSUME NEW l \in Listeners, ListenerStep(l) PROVE UNCHANGED <<queue, head, queue_pos>>
  BY <1>8 DEF ListenerStep, Attach, SendHead, EnterQueue, SendQueue, TimeLimit,
              SyncDetach, SyncHold, srcvars
<1>9. UpdateSizes \/ SourceStop \/ StartSync \/ EndSync \/ UNCHANGED vars
        => UNCHANGED <<queue, head, queue_pos>>
  BY DEF UpdateSizes, SourceStop, StartSync, EndSync, srcvars, vars
<1> QED BY <1>2, <1>4, <1>5, <1>6, <1>7, <1>8, <1>9 DEF Next, SourceStep

THEOREM Unbroken == Spec => []Continuous(queue, head, queue_pos)
<1>1. Init => Continuous(queue, head, queue_pos)
  BY DEF Init, Continuous
<1>2. IInv /\ Continuous(queue, head, queue_pos) /\ [Next]_vars
        => Continuous(queue, head, queue_pos)'
  BY ContinuousStep
<1> QED BY <1>1, <1>2, Inductive, PTL DEF Spec

(* What is left from block t on, where a trim stops, is the whole queue or *)
(* more than the minimum.                                                  *)
LEMMA TrimLeavesMinimum ==
  ASSUME sizing \in Sizings, shrink_pos \in Int,
         NEW q \in SUBSET Block, NEW first \in Nat, NEW end \in Nat,
         Apart(q, first, end), Continuous(q, first, end), NEW t \in q, TrimStops(t, q, end)
  PROVE  end - t.start > sizing.min \/ \A b \in q : t.start <= b.start
<1>1. \A b \in q : /\ b.start \in Nat /\ End(b) \in Nat /\ b.start < End(b)
                   /\ End(b) <= b.start + MaxLen /\ first <= b.start
  BY BlockFacts DEF Apart
<1>2. CASE t.start = first
  BY <1>1, <1>2
<1>3. CASE t.start # first
  <2>1. PICK b \in q : End(b) = t.start
    BY <1>3 DEF Continuous
  <2>2. b \in Before(q, t)
    BY <1>1, <2>1 DEF Before
  <2>3. end - b.start > Target(end)
    BY <2>2 DEF TrimStops
  <2>4. Target(end) >= Slack + sizing.min /\ Target(end) \in Int /\ sizing.min \in Nat
    BY TargetFacts, QueueAssumption DEF Sizing
  <2> QED BY <1>1, <2>1, <2>3, <2>4, BlocksWithinSlack, QueueAssumption
<1> QED BY <1>2, <1>3

(* A trim with min_queue_point at m before it.                             *)
LEMMA TrimKeepsRun ==
  ASSUME sizing \in Sizings, shrink_pos \in Int,
         NEW q \in SUBSET Block, NEW first \in Nat, NEW end \in Nat,
         Apart(q, first, end), Continuous(q, first, end),
         NEW p \in q, NEW off, off = end - p.start, NEW m \in q,
         NEW least \in Int, least <= sizing.min, off - (m.start - p.start) >= least,
         NEW t \in q, TrimStops(t, q, end), Trim(t, q, end, m, p, off)
  PROVE  min_offset' >= least
<1>1. p.start \in Nat /\ m.start \in Nat /\ t.start \in Nat /\ sizing.min \in Nat
  BY BlockFacts, QueueAssumption DEF Sizing
<1>2. CASE m.start < t.start
  <2>1. min_offset' = off - (t.start - p.start)
    BY <1>2 DEF Trim
  <2>2. end - t.start > sizing.min
    BY <1>1, <1>2, TrimLeavesMinimum
  <2> QED BY <1>1, <2>1, <2>2
<1>3. CASE ~(m.start < t.start)
  BY <1>3 DEF Trim
<1> QED BY <1>2, <1>3

LEMMA AddKeepsRun ==
  ASSUME sizing \in Sizings, shrink_pos \in Int,
         NEW q \in SUBSET Block, NEW first \in Nat, NEW end \in Nat,
         Apart(q, first, end), Continuous(q, first, end),
         NEW p \in q, NEW off, off = end - p.start,
         NEW least \in Int, least <= sizing.min, off >= least,
         AddBlock(q, first, end, p, off)
  PROVE  min_offset' >= least
<1>1. p.start \in Nat /\ sizing.min \in Nat
  BY BlockFacts, QueueAssumption DEF Sizing
<1>2. CASE min_offset' = off
  BY <1>2
<1>3. ASSUME NEW m \in q, IsMinPoint(m, q, p, off)
      PROVE  off - (m.start - p.start) >= least
  <2>1. m.start \in Nat
    BY BlockFacts
  <2>2. m = p \/ off - (m.start - p.start) > sizing.min
    BY <1>3 DEF IsMinPoint, SyncPoints
  <2> QED BY <1>1, <2>1, <2>2
<1>4. ASSUME NEW m \in q, IsMinPoint(m, q, p, off), min_offset' = off - (m.start - p.start)
      PROVE  min_offset' >= least
  BY <1>3, <1>4
<1>5. ASSUME NEW m \in q, IsMinPoint(m, q, p, off),
             NEW t \in q, TrimStops(t, q, end), Trim(t, q, end, m, p, off)
      PROVE  min_offset' >= least
  BY <1>3, <1>5, TrimKeepsRun
<1> QED BY <1>2, <1>4, <1>5 DEF AddBlock

(* _source_read: neither a trim nor the move of min_queue_point takes from *)
(* new listeners the data of the configured minimum, for any sizes, blocks *)
(* no larger than the slack, and however the sync blocks lie.              *)
THEOREM BurstIsNeverCut == Spec => BurstNeverCut
<1> DEFINE Uncut == queue # {} => min_offset' >= Lowest(min_offset, sizing.min)
<1>1. ASSUME IInv, Continuous(queue, head, queue_pos), Next PROVE Uncut
  <2> SUFFICES ASSUME queue # {} PROVE min_offset' >= Lowest(min_offset, sizing.min)
    OBVIOUS
  <2> DEFINE least == Lowest(min_offset, sizing.min)
  <2>1. /\ queue \in SUBSET Block /\ head \in Nat /\ queue_pos \in Nat
        /\ Apart(queue, head, queue_pos) /\ adding = NoBlock
        /\ min_point \in queue /\ min_offset = queue_pos - min_point.start
        /\ min_offset \in Nat /\ sizing \in Sizings /\ shrink_pos \in Int
    BY <1>1 DEF IInv, TypeOK, Linked, StartPointOnQueue
  <2>2. sizing.min \in Nat
    BY <2>1, QueueAssumption DEF Sizing
  <2>3. least \in Int /\ least <= sizing.min /\ least <= min_offset
    BY <2>1, <2>2 DEF Lowest
  <2> HIDE DEF least
  <2>4. CASE SourceRead
    <3>1. PICK q \in SUBSET Block, end \in Nat, len \in Nat :
            /\ AddBlock(q, head, end, min_point, min_offset + len)
            /\ Apart(q, head, end) /\ Continuous(q, head, end)
            /\ min_point \in q /\ min_offset + len = end - min_point.start
      BY <1>1, <2>4, ReadShape
    <3>2. min_offset + len >= least
      BY <2>1, <2>3
    <3>3. min_offset' >= least
      BY <2>1, <2>3, <3>1, <3>2, AddKeepsRun
    <3> QED BY <3>3 DEF least
  <2>5. CASE SourceTrim
    <3>1. PICK t \in queue :
            /\ TrimStops(t, queue, queue_pos)
            /\ Trim(t, queue, queue_pos, min_point, min_point, min_offset)
      BY <2>5 DEF SourceTrim
    <3>2. min_offset - (min_point.start - min_point.start) >= least
      BY <2>1, <2>3, BlockFacts
    <3>3. min_offset' >= least
      BY <1>1, <2>1, <2>3, <3>1, <3>2, TrimKeepsRun
    <3> QED BY <3>3 DEF least
  <2>6. CASE min_offset' = min_offset
    BY <2>1, <2>3, <2>6 DEF least
  <2>7. ASSUME NEW l \in Listeners, ListenerStep(l) PROVE min_offset' = min_offset
    BY <2>7 DEF ListenerStep, Attach, SendHead, EnterQueue, SendQueue, TimeLimit,
                SyncDetach, SyncHold, srcvars
  <2>8. UpdateSizes \/ SourceStop \/ StartSync \/ EndSync => min_offset' = min_offset
    BY DEF UpdateSizes, SourceStop, StartSync, EndSync, srcvars
  <2>9. ~SourceReadFirst /\ ~SourceLinkFirst
    BY <2>1 DEF SourceReadFirst, SourceLinkFirst
  <2> QED BY <1>1, <2>4, <2>5, <2>6, <2>7, <2>8, <2>9 DEF Next, SourceStep
<1>2. IInv /\ Continuous(queue, head, queue_pos) /\ [Next]_vars => [Uncut]_vars
  BY <1>1
<1>3. Spec => [][Uncut]_vars
  BY <1>2, Inductive, Unbroken, PTL DEF Spec
<1> QED BY <1>3 DEF BurstNeverCut

-----------------------------------------------------------------------------
(* The settings of the mounts.                                             *)

(* What each variable holds.                                               *)
Places == {"out", "held", "waits", "runs", "ends", "closing", "offered", "stands", "again",
           "failed"}
Prerolls == {None} \cup {t[m].preroll : t \in Tables, m \in Mounts}
Sources ==
  [at : Places, header : Announced \cup {None}, data : BOOLEAN, kept : Nat, reset : Nat,
   public : {-1, 0, 1}, intro : Fits \cup {None}, preroll : Prerolls, stale : BOOLEAN]
Entries == [updated : {"none", "kept", "mark", "old"}, hidden : BOOLEAN]

SettingsTyped ==
  /\ conf \in Tables /\ ondemand \subseteq Relays
  /\ source \in [Mounts -> Sources] /\ stats \in [Mounts -> Entries]
  /\ gone \subseteq Mounts /\ listed \subseteq Mounts /\ missed \subseteq Mounts
  /\ update \in {"no", "mounts", "all"}
  /\ recheck \in [at : {"idle", "sources", "mounts", "purge"}, todo : SUBSET Mounts]

LEMMA ConfTyped ==
  ASSUME conf \in Tables, NEW m \in Mounts, Given(m)
  PROVE  /\ conf[m].kept \in Nat /\ conf[m].reset \in Nat /\ conf[m].hidden \in BOOLEAN
         /\ conf[m].public \in {0, 1, None} /\ conf[m].fallback \in Mounts \cup Files \cup {None}
         /\ conf[m].preroll \in Prerolls
  BY SettingsAssumption DEF Given, Prerolls

LEMMA AppliedTyped ==
  ASSUME SettingsTyped, NEW m \in Mounts, NEW s \in Sources
  PROVE  /\ Applied(m, s) \in Sources
         /\ Applied(m, s).at = s.at /\ Applied(m, s).header = s.header
         /\ Applied(m, s).data = s.data /\ Applied(m, s).stale = FALSE
         /\ Applied(m, s).kept = Kept(m, s) /\ Applied(m, s).reset = Reset(m)
         /\ Applied(m, s).public = Public(m, s)
         /\ Applied(m, s).intro = (IF s.data THEN Intro(m) ELSE None)
         /\ Applied(m, s).preroll = Preroll(m, s)
         /\ Public(m, s) \in {-1, 0, 1}
  <1>1. /\ s.at \in Places /\ s.header \in Announced \cup {None} /\ s.data \in BOOLEAN
        /\ s.kept \in Nat /\ s.public \in {-1, 0, 1} /\ s.preroll \in Prerolls
    BY DEF Sources
  <1>2. Kept(m, s) \in Nat /\ Reset(m) \in Nat
    BY <1>1, ConfTyped, SettingsAssumption DEF SettingsTyped, Kept, Reset
  <1>3. Public(m, s) \in {-1, 0, 1}
    <2>1. s.header # None => s.header \in {0, 1}
      BY <1>1, SettingsAssumption
    <2> QED  BY <2>1, ConfTyped DEF SettingsTyped, Public
  <1>4. Intro(m) \in Fits \cup {None} /\ Preroll(m, s) \in Prerolls
    BY <1>1, ConfTyped DEF SettingsTyped, Intro, Preroll, Prerolls
  <1> QED  BY <1>1, <1>2, <1>3, <1>4 DEF Applied, Sources

LEMMA UpdatedTyped ==
  ASSUME SettingsTyped, NEW m \in Mounts, NEW s \in Sources, UpdateSettings(m, s)
  PROVE  /\ source' \in [Mounts -> Sources] /\ stats' \in [Mounts -> Entries]
         /\ listed' \subseteq Mounts /\ source'[m] = Applied(m, s)
         /\ \A n \in Mounts \ {m} : source'[n] = source[n] /\ stats'[n] = stats[n]
         /\ stats'[m] = [updated |-> "kept", hidden |-> Given(m) /\ conf[m].hidden]
  <1>1. [updated |-> "kept", hidden |-> Given(m) /\ conf[m].hidden] \in Entries
    <2>1. (Given(m) /\ conf[m].hidden) \in BOOLEAN
      OBVIOUS
    <2> QED  BY <2>1 DEF Entries
  <1>2. source \in [Mounts -> Sources] /\ stats \in [Mounts -> Entries] /\ listed \subseteq Mounts
    BY DEF SettingsTyped
  <1> QED  BY <1>1, <1>2, AppliedTyped DEF UpdateSettings

(* A step of a source, a relay or the recheck at one mount.                *)
StepAt(m) ==
  \/ Reserve(m) \/ Answer(m) \/ HttpSent(m) \/ TakenOver(m) \/ FirstBlock(m) \/ Ends(m)
  \/ Drop(m) \/ Free(m) \/ Refused(m) \/ Offers(m) \/ RelayStarts(m) \/ RelayFails(m)
  \/ StandsBy(m) \/ Leaves(m) \/ Rechecks(m) \/ LooksAt(m)

LEMMA NoSourceTyped == SettingsTyped => NoSource \in Sources
  BY SettingsAssumption DEF NoSource, Sources, Places, Prerolls

LEMMA PutTyped ==
  ASSUME SettingsTyped, NEW m \in Mounts, NEW s \in Sources,
         source' = [source EXCEPT ![m] = s]
  PROVE  /\ source' \in [Mounts -> Sources] /\ source'[m] = s
         /\ \A n \in Mounts \ {m} : source'[n] = source[n]
  BY DEF SettingsTyped

LEMMA FieldTyped ==
  ASSUME NEW s \in Sources
  PROVE  /\ \A p \in Places : [s EXCEPT !.at = p] \in Sources
         /\ \A p \in Places, h \in Announced \cup {None} :
              [s EXCEPT !.at = p, !.header = h] \in Sources
         /\ \A h \in Announced \cup {None} : [s EXCEPT !.header = h] \in Sources
         /\ \A b \in BOOLEAN : [s EXCEPT !.stale = b] \in Sources
         /\ \A i \in Fits \cup {None} : [s EXCEPT !.data = TRUE, !.intro = i] \in Sources
         /\ \A p \in Places : [s EXCEPT !.at = p, !.public = -1] \in Sources
  BY DEF Sources

(* A relay's source at another place, with no server's headers.            *)
Left(s, p) == [s EXCEPT !.at = p, !.header = None]

LEMMA LeftTyped ==
  ASSUME NEW s \in Sources, NEW p \in Places
  PROVE  Left(s, p) \in Sources /\ Left(s, p).public = s.public /\ Left(s, p).at = p
  BY DEF Sources, Left

LEMMA ClearedTyped ==
  ASSUME NEW s \in Sources
  PROVE  Cleared(s) \in Sources /\ Cleared(s).public = s.public
  <1>1. None \in Prerolls /\ 0 \in Nat /\ None \in Fits \cup {None}
    BY DEF Prerolls
  <1> QED  BY <1>1 DEF Sources, Cleared

(* Where the source of m is after a step, and what it leaves alone.        *)
LEMMA PlacedTyped ==
  ASSUME SettingsTyped, NEW m \in Mounts, NEW p \in Places, Moves(m, p)
  PROVE  /\ source' \in [Mounts -> Sources] /\ source'[m] = [source[m] EXCEPT !.at = p]
         /\ \A n \in Mounts \ {m} : source'[n] = source[n]
  BY FieldTyped DEF SettingsTyped, Moves

(* At one step nothing changes at other mounts, and the types are kept.    *)
Local(m) ==
  /\ SettingsTyped' /\ conf' = conf /\ ondemand' = ondemand
  /\ \A n \in Mounts \ {m} : /\ source'[n] = source[n] /\ stats'[n] = stats[n]
                             /\ n \in listed' <=> n \in listed
                             /\ n \in gone' <=> n \in gone

LEMMA UpdateLocal ==
  ASSUME SettingsTyped, NEW m \in Mounts, NEW s \in Sources, UpdateSettings(m, s),
         conf' = conf, ondemand' = ondemand, gone' = gone, missed' \subseteq Mounts,
         update' \in {"no", "mounts", "all"},
         recheck' \in [at : {"idle", "sources", "mounts", "purge"}, todo : SUBSET Mounts]
  PROVE  Local(m)
  <1>1. \A n \in Mounts \ {m} : n \in listed' <=> n \in listed
    BY DEF UpdateSettings
  <1> QED  BY <1>1, UpdatedTyped DEF Local, SettingsTyped

LEMMA PutLocal ==
  ASSUME SettingsTyped, NEW m \in Mounts, NEW s \in Sources,
         source' = [source EXCEPT ![m] = s],
         conf' = conf, ondemand' = ondemand, gone' \in {gone, gone \cup {m}, gone \ {m}},
         listed' \in {listed, listed \ {m}}, missed' \subseteq Mounts,
         update' \in {"no", "mounts", "all"},
         recheck' \in [at : {"idle", "sources", "mounts", "purge"}, todo : SUBSET Mounts],
         stats' = stats \/ stats' = [stats EXCEPT ![m].updated = "none"]
  PROVE  Local(m)
  <1>1. stats' \in [Mounts -> Entries] /\ \A n \in Mounts \ {m} : stats'[n] = stats[n]
    BY DEF SettingsTyped, Entries
  <1>2. listed' \subseteq Mounts /\ gone' \subseteq Mounts
    BY DEF SettingsTyped
  <1> QED  BY <1>1, <1>2, PutTyped DEF Local, SettingsTyped

LEMMA Recheckings ==
  ASSUME SettingsTyped, NEW m \in Mounts
  PROVE  /\ source[m] \in Sources /\ source[m].at \in Places
         /\ update \in {"no", "mounts", "all"}
         /\ recheck \in [at : {"idle", "sources", "mounts", "purge"}, todo : SUBSET Mounts]
         /\ [recheck EXCEPT !.todo = @ \ {m}]
              \in [at : {"idle", "sources", "mounts", "purge"}, todo : SUBSET Mounts]
         /\ missed \subseteq Mounts
         /\ AsksRecheck => update' \in {"mounts", "all"}
  BY DEF SettingsTyped, Sources, AsksRecheck

LEMMA ReserveLocal == ASSUME SettingsTyped, NEW m \in Mounts, Reserve(m) PROVE Local(m)
  <1>1. PICK h \in Announced \cup {None} :
          source' = [source EXCEPT ![m] = [NoSource EXCEPT !.at = "held", !.header = h]]
    BY DEF Reserve
  <1>2. [NoSource EXCEPT !.at = "held", !.header = h] \in Sources
    BY NoSourceTyped, FieldTyped DEF Places
  <1> QED  BY <1>1, <1>2, PutLocal, Recheckings DEF Reserve

LEMMA AnswerLocal == ASSUME SettingsTyped, NEW m \in Mounts, Answer(m) PROVE Local(m)
  <1>1. \A p \in Places : [source[m] EXCEPT !.at = p] \in Sources
    BY FieldTyped, Recheckings
  <1>2. "waits" \in Places /\ "runs" \in Places
    BY DEF Places
  <1> QED  BY <1>1, <1>2, UpdateLocal, Recheckings DEF Answer

LEMMA HttpSentLocal == ASSUME SettingsTyped, NEW m \in Mounts, HttpSent(m) PROVE Local(m)
  BY PutLocal, FieldTyped, Recheckings DEF HttpSent, Moves, Places

LEMMA TakenOverLocal == ASSUME SettingsTyped, NEW m \in Mounts, TakenOver(m) PROVE Local(m)
  BY UpdateLocal, FieldTyped, Recheckings DEF TakenOver

LEMMA FirstBlockLocal == ASSUME SettingsTyped, NEW m \in Mounts, FirstBlock(m) PROVE Local(m)
  <1>1. source[m].intro \in Fits \cup {None} /\ Intro(m) \in Fits \cup {None}
    BY Recheckings DEF Sources, Intro
  <1>2. PICK s : s = [source[m] EXCEPT !.data = TRUE,
                        !.intro = IF Intro(m) = None THEN source[m].intro ELSE Intro(m)]
    OBVIOUS
  <1>3. s \in Sources
    BY <1>1, <1>2, FieldTyped, Recheckings
  <1>4. source' = [source EXCEPT ![m] = s]
    BY <1>2, Recheckings DEF FirstBlock, SettingsTyped, Sources
  <1> QED  BY <1>3, <1>4, PutLocal, Recheckings DEF FirstBlock

LEMMA EndsLocal == ASSUME SettingsTyped, NEW m \in Mounts, Ends(m) PROVE Local(m)
  BY PutLocal, FieldTyped, Recheckings DEF Ends, Moves, Places

LEMMA DropLocal == ASSUME SettingsTyped, NEW m \in Mounts, Drop(m) PROVE Local(m)
  <1>1. stats' = stats \/ stats' = [stats EXCEPT ![m].updated = "none"]
    BY DEF Drop, SettingsTyped, Entries
  <1> QED  BY <1>1, PutLocal, NoSourceTyped, Recheckings DEF Drop

LEMMA FreeLocal == ASSUME SettingsTyped, NEW m \in Mounts, Free(m) PROVE Local(m)
  <1>1. source' = [source EXCEPT ![m] = source[m]]
    BY DEF Free, SettingsTyped
  <1> QED  BY <1>1, PutLocal, Recheckings DEF Free

LEMMA RefusedLocal == ASSUME SettingsTyped, NEW m \in Mounts, Refused(m) PROVE Local(m)
  BY PutLocal, NoSourceTyped, Recheckings DEF Refused

LEMMA OffersLocal == ASSUME SettingsTyped, NEW m \in Mounts, Offers(m) PROVE Local(m)
  BY UpdateLocal, FieldTyped, Recheckings DEF Offers, Places

LEMMA RelayStartsLocal == ASSUME SettingsTyped, NEW m \in Mounts, RelayStarts(m) PROVE Local(m)
  <1>1. PICK h \in Announced : UpdateSettings(m, [source[m] EXCEPT !.at = "runs", !.header = h])
    BY DEF RelayStarts
  <1>2. [source[m] EXCEPT !.at = "runs", !.header = h] \in Sources
    BY FieldTyped, Recheckings DEF Places
  <1> QED  BY <1>1, <1>2, UpdateLocal, Recheckings DEF RelayStarts

LEMMA RelayFailsLocal == ASSUME SettingsTyped, NEW m \in Mounts, RelayFails(m) PROVE Local(m)
  <1>1. [source[m] EXCEPT !.at = "failed", !.public = -1] \in Sources
    BY FieldTyped, Recheckings DEF Places
  <1>2. source' = [source EXCEPT ![m] = [source[m] EXCEPT !.at = "failed", !.public = -1]]
    BY DEF RelayFails, SettingsTyped
  <1> QED  BY <1>1, <1>2, PutLocal, Recheckings DEF RelayFails

(* What a relay has when it is tried again, stands by or is to be dropped. *)
LEMMA RelayLeft ==
  ASSUME SettingsTyped, NEW m \in Mounts, StandsBy(m) \/ Leaves(m)
  PROVE  \E s \in Sources : /\ source' = [source EXCEPT ![m] = s]
                            /\ s.at \in {"again", "stands", "closing"}
                            /\ s.public = source[m].public
  <1>1. \A q \in {source[m], Cleared(source[m])}, p \in Places :
          Left(q, p) \in Sources /\ Left(q, p).public = source[m].public /\ Left(q, p).at = p
    <2> SUFFICES ASSUME NEW q \in {source[m], Cleared(source[m])}, NEW p \in Places
                 PROVE  Left(q, p) \in Sources /\ Left(q, p).public = source[m].public
                        /\ Left(q, p).at = p
      OBVIOUS
    <2>1. q \in Sources /\ q.public = source[m].public
      BY ClearedTyped, Recheckings
    <2> QED  BY <2>1, LeftTyped
  <1>2. "again" \in Places /\ "stands" \in Places /\ "closing" \in Places
    BY DEF Places
  <1>3. CASE StandsBy(m)
    <2>1. PICK s \in {source[m], Cleared(source[m])} :
            source' = [source EXCEPT ![m] = Left(s, "again")]
      BY <1>3 DEF StandsBy, Left
    <2> QED  BY <1>1, <1>2, <2>1
  <1>4. CASE Leaves(m)
    <2>1. PICK at \in {"stands", "closing"} :
            source' = [source EXCEPT ![m] =
                         Left(IF at = "stands" THEN Cleared(source[m]) ELSE source[m], at)]
      BY <1>4 DEF Leaves, SettingsTyped, Left
    <2>2. (IF at = "stands" THEN Cleared(source[m]) ELSE source[m])
            \in {source[m], Cleared(source[m])}
      OBVIOUS
    <2> QED  BY <1>1, <1>2, <2>1, <2>2
  <1> QED  BY <1>3, <1>4

LEMMA StandsByLocal == ASSUME SettingsTyped, NEW m \in Mounts, StandsBy(m) PROVE Local(m)
  <1>1. PICK s \in Sources : source' = [source EXCEPT ![m] = s]
    BY RelayLeft
  <1> QED  BY <1>1, PutLocal, Recheckings DEF StandsBy

LEMMA LeavesLocal == ASSUME SettingsTyped, NEW m \in Mounts, Leaves(m) PROVE Local(m)
  <1>1. PICK s \in Sources : source' = [source EXCEPT ![m] = s]
    BY RelayLeft
  <1> QED  BY <1>1, PutLocal, Recheckings DEF Leaves

LEMMA RechecksLocal == ASSUME SettingsTyped, NEW m \in Mounts, Rechecks(m) PROVE Local(m)
  <1>1. CASE At(m, {"runs", "offered"}) /\ UpdateSettings(m, source[m])
    BY <1>1, UpdateLocal, Recheckings DEF Rechecks
  <1>2. CASE /\ source' = [source EXCEPT ![m].stale = At(m, {"runs", "waits"})]
             /\ UNCHANGED <<listed, stats>>
    <2>1. At(m, {"runs", "waits"}) \in BOOLEAN
      BY DEF At
    <2>2. [source[m] EXCEPT !.stale = At(m, {"runs", "waits"})] \in Sources
      BY <2>1, FieldTyped, Recheckings
    <2> QED  BY <1>2, <2>2, PutLocal, Recheckings DEF Rechecks
  <1> QED  BY <1>1, <1>2 DEF Rechecks

LEMMA LooksAtLocal ==
  ASSUME SettingsTyped, NEW m \in Mounts, LooksAt(m), recheck.at = "mounts" => Given(m)
  PROVE  Local(m)
  <1>1. PICK e : e = [updated |-> "mark", hidden |-> conf[m].hidden]
    OBVIOUS
  <1>2. e \in Entries
    BY <1>1, ConfTyped DEF LooksAt, Entries, SettingsTyped
  <1>3. stats' \in [Mounts -> Entries] /\ \A n \in Mounts \ {m} : stats'[n] = stats[n]
    BY <1>1, <1>2 DEF LooksAt, SettingsTyped
  <1>4. missed' \subseteq Mounts
    BY DEF LooksAt, SettingsTyped
  <1> QED  BY <1>3, <1>4, Recheckings DEF LooksAt, Local, SettingsTyped

Outside == \A m \in Mounts : At(m, {"out"}) => source[m].public = 0
GoneOut == \A m \in gone : At(m, {"out"})
Entered ==
  \A m \in Mounts : stats[m].updated = "kept" =>
    At(m, {"waits", "runs", "ends", "offered", "again", "failed"})
(* Whose settings the recheck under way, or to come, will not bring.       *)
Due(m) ==
  /\ update # "all" /\ At(m, {"waits", "runs", "offered"}) /\ ~source[m].stale
  /\ recheck.at = "sources" => m \notin recheck.todo
Reached == \A m \in Mounts : Due(m) => HasSettings(m)
Marks ==
  /\ recheck.at = "idle" => \A m \in Mounts : stats[m].updated # "old"
  /\ recheck.at = "sources" => \A m \in Mounts : stats[m].updated # "mark"
  /\ recheck.at = "mounts" => \A m \in recheck.todo :
       stats[m].updated # "mark" /\ Given(m) /\ conf[m].fallback # None

(* An update leaves the source with the settings of its mount.             *)
LEMMA UpdateReaches ==
  ASSUME SettingsTyped, NEW m \in Mounts, NEW s \in Sources, UpdateSettings(m, s), conf' = conf
  PROVE  HasSettings(m)'
  <1>1. PICK q : q = source'[m]
    OBVIOUS
  <1>2. /\ q.data = s.data /\ q.kept = Kept(m, s) /\ q.reset = Reset(m) /\ q.public = Public(m, s)
        /\ q.intro = (IF s.data THEN Intro(m) ELSE None)
        /\ q.preroll = Preroll(m, s) /\ q.header = s.header
    <2>1. q = Applied(m, s)
      BY <1>1, UpdatedTyped
    <2> QED  BY <2>1, AppliedTyped
  <1>3. stats'[m] = [updated |-> "kept", hidden |-> Given(m) /\ conf[m].hidden]
    BY UpdatedTyped
  <1>4. Given(m)' = Given(m) /\ Reset(m)' = Reset(m) /\ Intro(m)' = Intro(m) /\ conf'[m] = conf[m]
    BY DEF Given, Reset, Intro
  <1>5. IF Given(m) THEN conf[m].kept # 0 => q.kept = conf[m].kept ELSE q.kept = Default
    BY <1>2 DEF Kept
  <1>6. q.preroll = None <=> ~Given(m) \/ conf[m].preroll = None
    BY <1>2 DEF Preroll
  <1>7. IF Given(m) /\ conf[m].public # None THEN q.public = conf[m].public
        ELSE q.header # None => q.public = q.header
    BY <1>2 DEF Public
  <1> QED  BY <1>1, <1>2, <1>3, <1>4, <1>5, <1>6, <1>7 DEF HasSettings

LEMMA UpdateLists ==
  ASSUME SettingsTyped, NEW m \in Mounts, NEW s \in Sources, UpdateSettings(m, s),
         m \in listed <=> s.public = 1
  PROVE  m \in listed' <=> source'[m].public = 1
  <1>1. source'[m].public = Public(m, s)
    <2>1. source'[m] = Applied(m, s)
      BY UpdatedTyped
    <2>2. Applied(m, s).public = Public(m, s)
      BY AppliedTyped
    <2> QED  BY <2>1, <2>2
  <1>2. CASE Public(m, s) = s.public
    BY <1>1, <1>2 DEF UpdateSettings
  <1>3. CASE Public(m, s) # s.public
    BY <1>1, <1>3 DEF UpdateSettings
  <1> QED  BY <1>2, <1>3

(* One that is not touched has them still.                                 *)
LEMMA SettingsStay ==
  ASSUME NEW m, HasSettings(m), conf' = conf, source'[m] = source[m], stats'[m] = stats[m]
  PROVE  HasSettings(m)'
  BY DEF HasSettings, Given, Reset, Intro

LEMMA PlaceSettings ==
  ASSUME SettingsTyped, NEW m \in Mounts, NEW p \in Places, HasSettings(m), Moves(m, p),
         conf' = conf, stats' = stats
  PROVE  HasSettings(m)'
  <1>1. PICK q : q = source'[m]
    OBVIOUS
  <1>2. /\ q.data = source[m].data /\ q.kept = source[m].kept /\ q.reset = source[m].reset
        /\ q.public = source[m].public /\ q.intro = source[m].intro
        /\ q.preroll = source[m].preroll /\ q.header = source[m].header
    <2>1. q = [source[m] EXCEPT !.at = p]
      BY <1>1, PlacedTyped
    <2>2. source[m] \in Sources
      BY Recheckings
    <2> QED  BY <2>1, <2>2 DEF Sources
  <1>3. Given(m)' = Given(m) /\ Reset(m)' = Reset(m) /\ Intro(m)' = Intro(m) /\ conf'[m] = conf[m]
    BY DEF Given, Reset, Intro
  <1> QED  BY <1>1, <1>2, <1>3 DEF HasSettings

Updates(m) == \E s \in Sources : UpdateSettings(m, s) /\ s.public = source[m].public

(* Where a step leaves the source of its mount.                            *)
LEMMA UpdateAt ==
  ASSUME SettingsTyped, NEW m \in Mounts, NEW s \in Sources, UpdateSettings(m, s)
  PROVE  source'[m].at = s.at /\ source'[m].stale = FALSE /\ stats'[m].updated = "kept"
  <1>1. source'[m] = Applied(m, s)
    BY UpdatedTyped
  <1>2. stats'[m] = [updated |-> "kept", hidden |-> Given(m) /\ conf[m].hidden]
    BY UpdatedTyped
  <1>3. stats'[m].updated = "kept"
    BY <1>2
  <1>4. Applied(m, s).at = s.at /\ Applied(m, s).stale = FALSE
    BY AppliedTyped
  <1> QED  BY <1>1, <1>3, <1>4

LEMMA FieldsOf ==
  ASSUME NEW s \in Sources
  PROVE  /\ \A p \in Places : /\ [s EXCEPT !.at = p].at = p
                              /\ [s EXCEPT !.at = p].public = s.public
                              /\ [s EXCEPT !.at = p].stale = s.stale
         /\ \A p \in Places : \A h : /\ [s EXCEPT !.at = p, !.header = h].at = p
                                     /\ [s EXCEPT !.at = p, !.header = h].public = s.public
         /\ \A h : /\ [s EXCEPT !.header = h].at = s.at
                   /\ [s EXCEPT !.header = h].public = s.public
  BY DEF Sources

LEMMA ReserveAt ==
  ASSUME SettingsTyped, NEW m \in Mounts, Reserve(m)
  PROVE  source'[m].at = "held" /\ source'[m].public = 0 /\ stats' = stats
  <1>1. PICK h \in Announced \cup {None} :
          source' = [source EXCEPT ![m] = [NoSource EXCEPT !.at = "held", !.header = h]]
    BY DEF Reserve
  <1>2. source'[m] = [NoSource EXCEPT !.at = "held", !.header = h]
    BY <1>1 DEF SettingsTyped
  <1> QED  BY <1>2 DEF Reserve, NoSource

LEMMA AnswerAt ==
  ASSUME SettingsTyped, NEW m \in Mounts, Answer(m)
  PROVE  Updates(m) /\ source'[m].at \in {"waits", "runs"} /\ source'[m].stale = FALSE
         /\ (source'[m].at = "runs" => update' # "no") /\ stats'[m].updated = "kept"
  <1>1. CASE UpdateSettings(m, [source[m] EXCEPT !.at = "waits"])
    <2>1. PICK s : s = [source[m] EXCEPT !.at = "waits"]
      OBVIOUS
    <2>2. s \in Sources /\ s.at = "waits" /\ s.public = source[m].public
      <3>1. source[m] \in Sources /\ {"waits", "runs", "offered"} \subseteq Places
        BY Recheckings DEF Places
      <3>2. s \in Sources
        BY <2>1, <3>1, FieldTyped
      <3> QED  BY <2>1, <3>1, <3>2 DEF Sources
    <2> QED  BY <1>1, <2>1, <2>2, UpdateAt DEF Updates
  <1>2. CASE UpdateSettings(m, [source[m] EXCEPT !.at = "runs"]) /\ AsksRecheck
    <2>1. PICK s : s = [source[m] EXCEPT !.at = "runs"]
      OBVIOUS
    <2>2. s \in Sources /\ s.at = "runs" /\ s.public = source[m].public
      <3>1. source[m] \in Sources /\ {"waits", "runs", "offered"} \subseteq Places
        BY Recheckings DEF Places
      <3>2. s \in Sources
        BY <2>1, <3>1, FieldTyped
      <3> QED  BY <2>1, <3>1, <3>2 DEF Sources
    <2>3. update' # "no"
      BY <1>2, Recheckings
    <2> QED  BY <1>2, <2>1, <2>2, <2>3, UpdateAt DEF Updates
  <1> QED  BY <1>1, <1>2 DEF Answer

LEMMA MovesAt ==
  ASSUME SettingsTyped, NEW m \in Mounts, NEW p \in Places, Moves(m, p)
  PROVE  source'[m].at = p /\ source'[m].public = source[m].public
         /\ source'[m].stale = source[m].stale
  <1>1. source'[m] = [source[m] EXCEPT !.at = p]
    BY PlacedTyped
  <1> QED  BY <1>1, FieldsOf, Recheckings

LEMMA TakenOverAt ==
  ASSUME SettingsTyped, NEW m \in Mounts, TakenOver(m)
  PROVE  Updates(m) /\ source'[m].at = source[m].at /\ source'[m].stale = FALSE
         /\ stats'[m].updated = "kept"
  <1>1. PICK h \in Announced : UpdateSettings(m, [source[m] EXCEPT !.header = h])
    BY DEF TakenOver
  <1>2. PICK s : s = [source[m] EXCEPT !.header = h]
    OBVIOUS
  <1>3. s \in Sources /\ s.at = source[m].at /\ s.public = source[m].public
    <2>1. source[m] \in Sources /\ {"waits", "runs", "offered"} \subseteq Places
      BY Recheckings DEF Places
    <2>2. s \in Sources
      BY <1>2, <2>1, FieldTyped
    <2> QED  BY <1>2, <2>1, <2>2 DEF Sources
  <1> QED  BY <1>1, <1>2, <1>3, UpdateAt DEF Updates

LEMMA FirstBlockAt ==
  ASSUME SettingsTyped, NEW m \in Mounts, FirstBlock(m)
  PROVE  /\ source'[m].at = source[m].at /\ source'[m].public = source[m].public
         /\ source'[m].stale = source[m].stale /\ source'[m].data = TRUE
         /\ source'[m].intro = (IF Intro(m) = None THEN source[m].intro ELSE Intro(m))
         /\ source'[m].kept = source[m].kept /\ source'[m].reset = source[m].reset
         /\ source'[m].preroll = source[m].preroll /\ source'[m].header = source[m].header
  <1>1. PICK i : i = IF Intro(m) = None THEN source[m].intro ELSE Intro(m)
    OBVIOUS
  <1>2. source' = [source EXCEPT ![m] = [source[m] EXCEPT !.data = TRUE, !.intro = i]]
    BY <1>1, Recheckings DEF FirstBlock, SettingsTyped, Sources
  <1>3. source'[m] = [source[m] EXCEPT !.data = TRUE, !.intro = i] /\ source[m] \in Sources
    BY <1>2, Recheckings DEF SettingsTyped
  <1> QED  BY <1>1, <1>3 DEF Sources

LEMMA GoesOut ==
  ASSUME SettingsTyped, NEW m \in Mounts, source' = [source EXCEPT ![m] = NoSource]
  PROVE  source'[m].at = "out" /\ source'[m].public = 0
  <1>1. source'[m] = NoSource
    BY DEF SettingsTyped
  <1> QED  BY <1>1 DEF NoSource

LEMMA OffersAt ==
  ASSUME SettingsTyped, NEW m \in Mounts, Offers(m)
  PROVE  Updates(m) /\ source'[m].at = "offered" /\ source'[m].stale = FALSE
         /\ stats'[m].updated = "kept" /\ update' # "no"
  <1>1. PICK s : s = [source[m] EXCEPT !.at = "offered"]
    OBVIOUS
  <1>2. s \in Sources /\ s.at = "offered" /\ s.public = source[m].public
    <2>1. source[m] \in Sources /\ {"waits", "runs", "offered"} \subseteq Places
      BY Recheckings DEF Places
    <2>2. s \in Sources
      BY <1>1, <2>1, FieldTyped
    <2> QED  BY <1>1, <2>1, <2>2 DEF Sources
  <1>3. UpdateSettings(m, s) /\ update' # "no"
    BY <1>1, Recheckings DEF Offers
  <1> QED  BY <1>2, <1>3, UpdateAt DEF Updates

LEMMA RelayStartsAt ==
  ASSUME SettingsTyped, NEW m \in Mounts, RelayStarts(m)
  PROVE  Updates(m) /\ source'[m].at = "runs" /\ source'[m].stale = FALSE
         /\ stats'[m].updated = "kept" /\ (update' # "no" \/ missed' = Mounts)
  <1>1. PICK h \in Announced : UpdateSettings(m, [source[m] EXCEPT !.at = "runs", !.header = h])
    BY DEF RelayStarts
  <1>2. PICK s : s = [source[m] EXCEPT !.at = "runs", !.header = h]
    OBVIOUS
  <1>3. s \in Sources /\ s.at = "runs" /\ s.public = source[m].public
    <2>1. source[m] \in Sources /\ {"waits", "runs", "offered"} \subseteq Places
      BY Recheckings DEF Places
    <2>2. s \in Sources
      BY <1>2, <2>1, FieldTyped
    <2> QED  BY <1>2, <2>1, <2>2 DEF Sources
  <1>4. update' # "no" \/ missed' = Mounts
    BY Recheckings DEF RelayStarts
  <1> QED  BY <1>1, <1>2, <1>3, <1>4, UpdateAt DEF Updates

LEMMA RelayFailsAt ==
  ASSUME SettingsTyped, NEW m \in Mounts, RelayFails(m)
  PROVE  source'[m].at = "failed" /\ source'[m].public = -1
  <1>1. source'[m] = [source[m] EXCEPT !.at = "failed", !.public = -1] /\ source[m] \in Sources
    BY Recheckings DEF RelayFails, SettingsTyped
  <1> QED  BY <1>1 DEF Sources

LEMMA RechecksAt ==
  ASSUME SettingsTyped, NEW m \in Mounts, Rechecks(m)
  PROVE  /\ source'[m].at = source[m].at
         /\ \/ /\ UpdateSettings(m, source[m]) /\ source'[m].stale = FALSE
               /\ stats'[m].updated = "kept" /\ At(m, {"runs", "offered"})
            \/ /\ source'[m].stale = At(m, {"runs", "waits"}) /\ ~At(m, {"offered"})
               /\ source'[m].public = source[m].public /\ UNCHANGED <<listed, stats>>
  <1>1. CASE At(m, {"runs", "offered"}) /\ UpdateSettings(m, source[m])
    BY <1>1, UpdateAt, Recheckings
  <1>2. CASE /\ ~At(m, {"offered"}) /\ UNCHANGED <<listed, stats>>
             /\ source' = [source EXCEPT ![m].stale = At(m, {"runs", "waits"})]
    <2>1. PICK b : b = At(m, {"runs", "waits"})
      OBVIOUS
    <2>2. source'[m] = [source[m] EXCEPT !.stale = b] /\ source[m] \in Sources
      BY <1>2, <2>1, Recheckings DEF SettingsTyped
    <2>3. /\ source'[m].at = source[m].at /\ source'[m].public = source[m].public
          /\ source'[m].stale = b
      BY <2>2 DEF Sources
    <2> QED  BY <1>2, <2>1, <2>3
  <1> QED  BY <1>1, <1>2 DEF Rechecks

LEMMA StepLocal ==
  ASSUME SettingsTyped, Marks, NEW m \in Mounts, StepAt(m)
  PROVE  Local(m)
  <1>1. ASSUME LooksAt(m) PROVE Local(m)
    <2>1. recheck.at = "mounts" => Given(m)
      BY <1>1 DEF LooksAt, Marks
    <2> QED  BY <1>1, <2>1, LooksAtLocal
  <1> QED
    BY <1>1, ReserveLocal, AnswerLocal, HttpSentLocal, TakenOverLocal, FirstBlockLocal, EndsLocal,
       DropLocal, FreeLocal, RefusedLocal, OffersLocal, RelayStartsLocal, RelayFailsLocal,
       StandsByLocal, LeavesLocal, RechecksLocal
       DEF StepAt

Known == Outside /\ GoneOut /\ PublicListed
KnownAt(m) ==
  /\ source[m].at = "out" => source[m].public = 0
  /\ m \in gone => source[m].at = "out"
  /\ m \notin gone => (m \in listed <=> source[m].public = 1)

LEMMA KnownIs == ASSUME gone \subseteq Mounts PROVE Known <=> \A m \in Mounts : KnownAt(m)
  BY DEF Known, KnownAt, Outside, GoneOut, PublicListed, At

LEMMA UpdatesKnown ==
  ASSUME SettingsTyped, NEW m \in Mounts, KnownAt(m), Updates(m), source[m].at # "out",
         source'[m].at # "out", gone' = gone
  PROVE  KnownAt(m)'
  <1>1. m \in listed <=> source[m].public = 1
    BY DEF KnownAt
  <1>2. PICK s \in Sources : UpdateSettings(m, s) /\ s.public = source[m].public
    BY DEF Updates
  <1>3. m \in listed' <=> source'[m].public = 1
    BY <1>1, <1>2, UpdateLists
  <1> QED  BY <1>3 DEF KnownAt

(* What the directory was asked stays what the source holds to be.         *)
LEMMA KnownStep ==
  ASSUME ~Overtakes, SettingsTyped, NEW m \in Mounts, KnownAt(m), StepAt(m)
  PROVE  KnownAt(m)'
  <1>1. CASE Reserve(m)
    BY <1>1, ReserveAt DEF Reserve, At, KnownAt
  <1>2. CASE Answer(m)
    BY <1>2, AnswerAt, UpdatesKnown DEF Answer, At
  <1>3. CASE HttpSent(m)
    BY <1>3, MovesAt DEF HttpSent, At, KnownAt, Places
  <1>4. CASE TakenOver(m)
    BY <1>4, TakenOverAt, UpdatesKnown DEF TakenOver, At
  <1>5. CASE FirstBlock(m)
    BY <1>5, FirstBlockAt DEF FirstBlock, At, KnownAt
  <1>6. CASE Ends(m)
    BY <1>6, MovesAt DEF Ends, At, KnownAt, Places
  <1>7. CASE Drop(m)
    BY <1>7, GoesOut DEF Drop, KnownAt
  <1>8. CASE Free(m)
    BY <1>8 DEF Free, KnownAt
  <1>9. CASE Refused(m)
    <2>1. m \notin listed' /\ source'[m].at = "out" /\ source'[m].public = 0
      BY <1>9, GoesOut DEF Refused
    <2> QED  BY <2>1 DEF KnownAt
  <1>10. CASE Offers(m)
    BY <1>10, OffersAt, UpdatesKnown DEF Offers, At
  <1>11. CASE RelayStarts(m)
    <2>1. source[m].at # "out" /\ gone' = gone
      BY <1>11 DEF RelayStarts, At
    <2> QED  BY <1>11, <2>1, RelayStartsAt, UpdatesKnown
  <1>12. CASE RelayFails(m)
    <2>1. m \notin listed' /\ gone' = gone /\ source[m].at # "out"
      BY <1>12 DEF RelayFails, At
    <2>2. source'[m].at = "failed" /\ source'[m].public = -1
      BY <1>12, RelayFailsAt
    <2> QED  BY <2>1, <2>2 DEF KnownAt
  <1>13. CASE StandsBy(m)
    <2>1. PICK s \in Sources : /\ source' = [source EXCEPT ![m] = s]
                               /\ s.at \in {"again", "stands", "closing"}
                               /\ s.public = source[m].public
      BY <1>13, RelayLeft
    <2>2. source'[m] = s
      BY <2>1 DEF SettingsTyped
    <2> QED  BY <1>13, <2>1, <2>2 DEF StandsBy, At, KnownAt
  <1>14. CASE Leaves(m)
    <2>1. PICK s \in Sources : /\ source' = [source EXCEPT ![m] = s]
                               /\ s.at \in {"again", "stands", "closing"}
                               /\ s.public = source[m].public
      BY <1>14, RelayLeft
    <2>2. source'[m] = s
      BY <2>1 DEF SettingsTyped
    <2> QED  BY <1>14, <2>1, <2>2 DEF Leaves, At, KnownAt
  <1>15. CASE Rechecks(m)
    <2>1. source'[m].at = source[m].at /\ gone' = gone
      BY <1>15, RechecksAt DEF Rechecks
    <2>2. CASE UpdateSettings(m, source[m]) /\ At(m, {"runs", "offered"})
      <3>1. Updates(m)
        BY <2>2, Recheckings DEF Updates
      <3>2. source[m].at # "out"
        BY <2>2 DEF At
      <3> QED  BY <2>1, <3>1, <3>2, UpdatesKnown
    <2>3. CASE source'[m].public = source[m].public /\ listed' = listed
      BY <2>1, <2>3 DEF KnownAt
    <2> QED  BY <1>15, <2>2, <2>3, RechecksAt
  <1>16. CASE LooksAt(m)
    BY <1>16 DEF LooksAt, KnownAt
  <1> QED
    BY <1>1, <1>2, <1>3, <1>4, <1>5, <1>6, <1>7, <1>8, <1>9, <1>10, <1>11, <1>12, <1>13, <1>14,
       <1>15, <1>16
       DEF StepAt

(* The round of the slave thread is another's to begin.                    *)
LEMMA SameRound ==
  ASSUME SettingsTyped, NEW m \in Mounts, StepAt(m)
  PROVE  /\ recheck'.at = recheck.at
         /\ update' = "all" <=> update = "all"
         /\ \A n \in Mounts \ {m} : n \in recheck'.todo <=> n \in recheck.todo
         /\ recheck'.todo \subseteq recheck.todo
         /\ LooksAt(m) => m \notin recheck'.todo
         /\ ~LooksAt(m) /\ ~Rechecks(m) => recheck' = recheck
         /\ ~LooksAt(m) => /\ missed \subseteq missed'
                           /\ update' = "no" => update = "no"
  <1>1. recheck \in [at : {"idle", "sources", "mounts", "purge"}, todo : SUBSET Mounts]
    BY DEF SettingsTyped
  <1>2. AsksRecheck => update' \in {"mounts", "all"} /\ (update' = "all" <=> update = "all")
    BY DEF AsksRecheck
  <1>3. missed \subseteq Mounts
    BY DEF SettingsTyped
  <1>4. CASE LooksAt(m)
    BY <1>1, <1>4 DEF LooksAt
  <1>5. CASE Rechecks(m) /\ ~LooksAt(m)
    BY <1>1, <1>5 DEF Rechecks
  <1>6. CASE /\ recheck' = recheck /\ missed \subseteq missed'
             /\ update' = update \/ AsksRecheck
             /\ ~LooksAt(m)
    BY <1>2, <1>6
  <1>7. CASE \/ Reserve(m) \/ TakenOver(m) \/ FirstBlock(m) \/ Ends(m) \/ Drop(m) \/ Refused(m)
             \/ RelayFails(m) \/ StandsBy(m)
    <2>1. recheck' = recheck /\ missed \subseteq missed' /\ update' = update
      BY <1>7 DEF Reserve, TakenOver, FirstBlock, Ends, Drop, Refused, RelayFails, StandsBy
    <2> QED  BY <1>4, <1>6, <2>1
  <1>8. CASE \/ Answer(m) \/ HttpSent(m) \/ Free(m) \/ Offers(m) \/ RelayStarts(m) \/ Leaves(m)
    <2>1. recheck' = recheck /\ missed \subseteq missed' /\ (update' = update \/ AsksRecheck)
      BY <1>3, <1>8 DEF Answer, HttpSent, Free, Offers, RelayStarts, Leaves
    <2> QED  BY <1>4, <1>6, <2>1
  <1> QED
    BY <1>4, <1>5, <1>7, <1>8 DEF StepAt

(* The entry of a mount, and where its source is then.                     *)
LEMMA EntryStep ==
  ASSUME SettingsTyped, NEW m \in Mounts, StepAt(m)
  PROVE  \/ LooksAt(m)
         \/ stats'[m] = stats[m]
         \/ stats'[m].updated = "kept" /\ source'[m].at \in {"waits", "runs", "offered"}
         \/ stats'[m].updated = "none"
  <1>1. stats \in [Mounts -> Entries]
    BY DEF SettingsTyped
  <1>2. stats' = [stats EXCEPT ![m].updated = "none"] => stats'[m].updated = "none"
    BY <1>1 DEF Entries
  <1>3. CASE TakenOver(m)
    BY <1>3, TakenOverAt DEF TakenOver, At
  <1>4. CASE Rechecks(m)
    BY <1>4, RechecksAt DEF At
  <1>5. CASE Drop(m)
    <2>1. CASE m \in Relays
      <3>1. stats' = [stats EXCEPT ![m].updated = stats[m].updated]
        BY <1>1, <1>5, <2>1 DEF Drop
      <3>2. stats'[m] = stats[m]
        BY <1>1, <3>1 DEF Entries
      <3> QED  BY <3>2
    <2>2. CASE m \notin Relays
      BY <1>2, <1>5, <2>2, <1>1 DEF Drop
    <2> QED  BY <2>1, <2>2
  <1>6. CASE Leaves(m)
    BY <1>2, <1>6 DEF Leaves
  <1>7. CASE Answer(m)
    BY <1>7, AnswerAt
  <1>8. CASE Offers(m)
    BY <1>8, OffersAt
  <1>9. CASE RelayStarts(m)
    BY <1>9, RelayStartsAt
  <1>10. CASE stats' = stats
    BY <1>10
  <1> QED
    BY <1>3, <1>4, <1>5, <1>6, <1>7, <1>8, <1>9, <1>10
       DEF StepAt, Reserve, HttpSent, FirstBlock, Ends, Free, Refused, RelayFails, StandsBy

LEMMA UpdatesReach ==
  ASSUME SettingsTyped, NEW m \in Mounts, Updates(m), conf' = conf
  PROVE  HasSettings(m)'
  BY UpdateReaches DEF Updates

(* A source that no recheck will update has the settings of its mount.     *)
LEMMA ReachedStep ==
  ASSUME SettingsTyped, NEW m \in Mounts, Due(m) => HasSettings(m), StepAt(m), conf' = conf,
         Due(m)'
  PROVE  HasSettings(m)'
  <1>1. /\ update # "all"
        /\ source'[m].at \in {"waits", "runs", "offered"} /\ ~source'[m].stale
        /\ recheck.at = "sources" => m \notin recheck'.todo
    BY SameRound DEF Due, At
  <1>2. ASSUME source[m].at \in {"waits", "runs", "offered"}, ~source[m].stale, recheck' = recheck
        PROVE  HasSettings(m)
    BY <1>1, <1>2 DEF Due, At
  <1>3. CASE Answer(m)
    BY <1>3, AnswerAt, UpdatesReach
  <1>4. CASE TakenOver(m)
    BY <1>4, TakenOverAt, UpdatesReach
  <1>5. CASE Offers(m)
    BY <1>5, OffersAt, UpdatesReach
  <1>6. CASE RelayStarts(m)
    BY <1>6, RelayStartsAt, UpdatesReach
  <1>7. CASE HttpSent(m)
    <2>1. source'[m].stale = source[m].stale /\ source[m].at = "waits" /\ stats' = stats
      BY <1>7, MovesAt DEF HttpSent, Places, At
    <2>2. HasSettings(m)
      BY <1>1, <1>2, <1>7, <2>1 DEF HttpSent
    <2> QED  BY <1>7, <2>1, <2>2, PlaceSettings DEF HttpSent, Places
  <1>8. CASE Rechecks(m)
    <2>1. CASE UpdateSettings(m, source[m])
      BY <2>1, UpdateReaches, Recheckings
    <2>2. CASE source'[m].stale = At(m, {"runs", "waits"}) /\ ~At(m, {"offered"})
      <3>1. source[m].at \in {"waits", "runs"}
        BY <1>1, <1>8, <2>2, RechecksAt DEF At
      <3> QED  BY <1>1, <2>2, <3>1 DEF At
    <2> QED  BY <1>8, <2>1, <2>2, RechecksAt
  <1>9. CASE FirstBlock(m)
    <2>1. source[m].at = "runs" /\ ~source[m].stale /\ recheck' = recheck /\ stats' = stats
      BY <1>1, <1>9, FirstBlockAt DEF FirstBlock, At
    <2>2. HasSettings(m) /\ source[m].data = FALSE
      BY <1>2, <1>9, <2>1, Recheckings DEF FirstBlock, Sources
    <2>3. source[m].intro = None
      BY <2>2 DEF HasSettings
    <2>4. /\ source'[m].data = TRUE /\ source'[m].intro = Intro(m)
          /\ source'[m].kept = source[m].kept /\ source'[m].reset = source[m].reset
          /\ source'[m].preroll = source[m].preroll /\ source'[m].header = source[m].header
          /\ source'[m].public = source[m].public
      BY <1>9, <2>3, FirstBlockAt
    <2>5. Given(m)' = Given(m) /\ Reset(m)' = Reset(m) /\ Intro(m)' = Intro(m) /\ conf'[m] = conf[m]
      BY DEF Given, Reset, Intro
    <2> QED  BY <2>1, <2>2, <2>4, <2>5 DEF HasSettings
  <1>10. CASE Free(m)
    <2>1. source' = source /\ stats' = stats /\ recheck' = recheck
      BY <1>10 DEF Free
    <2> QED  BY <1>1, <1>2, <2>1, SettingsStay
  <1>11. CASE LooksAt(m)
    <2>1. source' = source /\ recheck.at = "mounts" /\ recheck'.at = "mounts"
      BY <1>11, SameRound DEF LooksAt
    <2>2. stats' = stats
      BY <1>1, <1>11, <2>1 DEF LooksAt, Sourceless, At
    <2>3. HasSettings(m)
      BY <1>1, <2>1 DEF Due, At
    <2> QED  BY <2>1, <2>2, <2>3, SettingsStay
  <1>12. CASE StandsBy(m) \/ Leaves(m)
    <2>1. PICK s \in Sources : /\ source' = [source EXCEPT ![m] = s]
                               /\ s.at \in {"again", "stands", "closing"}
      BY <1>12, RelayLeft
    <2>2. source'[m] = s
      BY <2>1 DEF SettingsTyped
    <2> QED  BY <1>1, <2>1, <2>2
  <1>13. CASE Reserve(m) \/ Ends(m) \/ Drop(m) \/ Refused(m) \/ RelayFails(m)
    <2>1. source'[m].at \in {"held", "ends", "out", "failed"}
      BY <1>13, ReserveAt, MovesAt, GoesOut, RelayFailsAt DEF Ends, Drop, Refused, Places
    <2> QED  BY <1>1, <2>1
  <1> QED
    BY <1>3, <1>4, <1>5, <1>6, <1>7, <1>8, <1>9, <1>10, <1>11, <1>12, <1>13 DEF StepAt

(* Induction on the naturals.                                              *)
LEMMA NatMin ==
  ASSUME NEW T, T \subseteq Nat, T # {}
  PROVE  \E n \in T : \A m \in T : n <= m
  <1>1. PICK F : F = {0..n : n \in T}
    OBVIOUS
  <1>2. F \subseteq FiniteSubsetsOf(Nat) /\ F # {}
    <2>1. \A n \in T : 0..n \subseteq Nat
      OBVIOUS
    <2>2. \A n \in T : IsFiniteSet(0..n)
      BY FS_Interval
    <2> QED  BY <1>1, <2>1, <2>2 DEF FiniteSubsetsOf
  <1>3. PICK I \in F : \A J \in F : ~(<<J, I>> \in StrictSubsetOrdering(Nat))
    BY <1>2, FS_StrictSubsetOrderingWellFounded, WFMin
  <1>4. PICK n \in T : I = 0..n
    BY <1>1
  <1>5. ASSUME NEW m \in T, ~(n <= m)  PROVE FALSE
    <2>1. 0..m \in F /\ 0..m \subseteq Nat /\ 0..n \subseteq Nat
      BY <1>1
    <2>2. 0..m \subseteq 0..n /\ n \in 0..n /\ n \notin 0..m
      BY <1>5
    <2>3. <<0..m, I>> \in StrictSubsetOrdering(Nat)
      BY <1>4, <2>1, <2>2 DEF StrictSubsetOrdering
    <2> QED  BY <1>3, <2>1, <2>3
  <1> QED  BY <1>5

(* The fallback of f in the configuration cf, and one look of              *)
(* fallback_count with hops left, prev being the looks that follow.        *)
FallsTo(f, cf) == IF f \in Mounts /\ cf[f] # None THEN cf[f].fallback ELSE None
Look(hops, prev, src, cf) ==
  [f \in Mounts \cup Files |-> [found \in BOOLEAN |->
     IF hops = 0 THEN found
     ELSE IF f \in Mounts /\ src[f].at \in {"runs"} THEN TRUE
     ELSE LET now == IF f \in Files THEN TRUE
                     ELSE IF src[f].at \in {"out"} THEN FALSE ELSE found
          IN IF FallsTo(f, cf) = None THEN now ELSE prev[FallsTo(f, cf)][now]]]
Looks(c, k, src, cf) == c = [hops \in 0..k |-> Look(hops, c[hops - 1], src, cf)]

LEMMA LastLook ==
  ASSUME NEW p, NEW q, NEW src, NEW cf
  PROVE  Look(0, p, src, cf) = Look(0, q, src, cf)
  BY DEF Look

LEMMA LooksExist ==
  ASSUME NEW src, NEW cf, NEW k \in Nat
  PROVE  \E c : Looks(c, k, src, cf)
  <1> SUFFICES ASSUME ~\E c : Looks(c, k, src, cf) PROVE FALSE
    OBVIOUS
  <1>1. PICK T : T = {j \in Nat : ~\E c : Looks(c, j, src, cf)}
    OBVIOUS
  <1>2. PICK j \in T : \A n \in T : j <= n
    <2>1. T \subseteq Nat /\ T # {}
      BY <1>1
    <2> QED  BY <2>1, NatMin
  <1>3. j \in Nat /\ ~\E c : Looks(c, j, src, cf)
    BY <1>1, <1>2
  <1>4. j # 0
    <2>1. PICK c : c = [hops \in 0..0 |-> Look(0, 0, src, cf)]
      OBVIOUS
    <2>2. \A hops \in 0..0 : hops = 0 /\ Look(hops, c[hops - 1], src, cf) = Look(0, 0, src, cf)
      BY LastLook
    <2>3. Looks(c, 0, src, cf)
      BY <2>1, <2>2 DEF Looks
    <2> QED  BY <1>3, <2>3
  <1>5. j - 1 \in Nat /\ j - 1 \notin T
    BY <1>2, <1>3, <1>4
  <1>6. PICK g : Looks(g, j - 1, src, cf)
    BY <1>1, <1>5
  <1>7. PICK c : c = [n \in 0..j |-> IF n = j THEN Look(j, g[j - 1], src, cf) ELSE g[n]]
    OBVIOUS
  <1>8. \A n \in 0..j : n # j => n \in 0..(j - 1) /\ c[n] = g[n]
    BY <1>3, <1>7
  <1>9. ASSUME NEW n \in 0..j
        PROVE  c[n] = Look(n, c[n - 1], src, cf)
    <2>1. CASE n = 0
      <3>1. n \in 0..(j - 1) /\ c[n] = g[n]
        BY <1>3, <1>4, <1>8, <2>1
      <3>2. g[n] = Look(n, g[n - 1], src, cf)
        BY <1>6, <3>1 DEF Looks
      <3> QED  BY <2>1, <3>1, <3>2, LastLook
    <2>2. CASE n # 0
      <3>1. n - 1 \in 0..j /\ n - 1 # j /\ c[n - 1] = g[n - 1]
        BY <1>3, <1>8, <2>2
      <3>2. CASE n = j
        BY <1>7, <2>2, <3>1, <3>2
      <3>3. CASE n # j
        <4>1. n \in 0..(j - 1) /\ c[n] = g[n]
          BY <1>8, <3>3
        <4>2. g[n] = Look(n, g[n - 1], src, cf)
          BY <1>6, <4>1 DEF Looks
        <4> QED  BY <3>1, <4>1, <4>2
      <3> QED  BY <3>2, <3>3
    <2> QED  BY <2>1, <2>2
  <1>10. Looks(c, j, src, cf)
    BY <1>7, <1>9 DEF Looks
  <1> QED  BY <1>3, <1>10

Counts(src, cf) == CHOOSE c : Looks(c, Hops, src, cf)

(* A look at f when nothing was found before.                              *)
Found(hops, prev, src, cf, f) ==
  IF hops = 0 THEN FALSE
  ELSE IF f \in Mounts /\ src[f].at \in {"runs"} THEN TRUE
  ELSE IF f \in Files
  THEN IF FallsTo(f, cf) = None THEN TRUE ELSE prev[FallsTo(f, cf)][TRUE]
  ELSE IF FallsTo(f, cf) = None THEN FALSE ELSE prev[FallsTo(f, cf)][FALSE]

LEMMA LookedAt ==
  ASSUME NEW hops, NEW prev, NEW src, NEW cf, NEW f \in Mounts \cup Files
  PROVE  Look(hops, prev, src, cf)[f][FALSE] = Found(hops, prev, src, cf, f)
  <1>1. Look(hops, prev, src, cf)[f] =
          [found \in BOOLEAN |->
             IF hops = 0 THEN found
             ELSE IF f \in Mounts /\ src[f].at \in {"runs"} THEN TRUE
             ELSE LET now == IF f \in Files THEN TRUE
                             ELSE IF src[f].at \in {"out"} THEN FALSE ELSE found
                  IN IF FallsTo(f, cf) = None THEN now ELSE prev[FallsTo(f, cf)][now]]
    BY Zenon DEF Look
  <1>2. Look(hops, prev, src, cf)[f][FALSE] =
             IF hops = 0 THEN FALSE
             ELSE IF f \in Mounts /\ src[f].at \in {"runs"} THEN TRUE
             ELSE LET now == IF f \in Files THEN TRUE
                             ELSE IF src[f].at \in {"out"} THEN FALSE ELSE FALSE
                  IN IF FallsTo(f, cf) = None THEN now ELSE prev[FallsTo(f, cf)][now]
    BY <1>1, Zenon
  <1>3. CASE f \in Files
    <2>1. (IF f \in Files THEN TRUE ELSE IF src[f].at \in {"out"} THEN FALSE ELSE FALSE) = TRUE
      BY <1>3
    <2> QED  BY <1>2, <1>3, <2>1, Zenon DEF Found
  <1>4. CASE f \notin Files
    <2>1. (IF f \in Files THEN TRUE ELSE IF src[f].at \in {"out"} THEN FALSE ELSE FALSE) = FALSE
      BY <1>4
    <2> QED  BY <1>2, <1>4, <2>1, Zenon DEF Found
  <1> QED  BY <1>3, <1>4

(* What runs is all that counts when nothing was found yet.                *)
FallsBack(cf) ==
  \A f \in Mounts : cf[f] # None => cf[f].fallback \in Mounts \cup Files \cup {None}
RunAlike(src, srd) == \A f \in Mounts : src[f].at \in {"runs"} <=> srd[f].at \in {"runs"}

LEMMA LooksAlike ==
  ASSUME NEW c, NEW d, NEW src, NEW srd, NEW cf, NEW k \in Nat, Looks(c, k, src, cf),
         Looks(d, k, srd, cf), FallsBack(cf), RunAlike(src, srd)
  PROVE  \A f \in Mounts \cup Files : c[k][f][FALSE] = d[k][f][FALSE]
  <1> SUFFICES ASSUME NEW f \in Mounts \cup Files, c[k][f][FALSE] # d[k][f][FALSE] PROVE FALSE
    OBVIOUS
  <1>1. PICK T : T = {j \in 0..k : \E n \in Mounts \cup Files : c[j][n][FALSE] # d[j][n][FALSE]}
    OBVIOUS
  <1>2. PICK j \in T : \A n \in T : j <= n
    <2>1. T \subseteq Nat /\ k \in 0..k
      <3>1. T \subseteq 0..k
        BY <1>1, Zenon
      <3> QED  BY <3>1
    <2>2. k \in T
      BY <1>1, <2>1, Zenon
    <2> QED  BY <2>1, <2>2, NatMin
  <1>3. PICK n \in Mounts \cup Files : c[j][n][FALSE] # d[j][n][FALSE]
    BY <1>1, <1>2
  <1>4. j \in 0..k /\ c[j] = Look(j, c[j - 1], src, cf) /\ d[j] = Look(j, d[j - 1], srd, cf)
    BY <1>1, <1>2 DEF Looks
  <1>5. /\ c[j][n][FALSE] = Found(j, c[j - 1], src, cf, n)
        /\ d[j][n][FALSE] = Found(j, d[j - 1], srd, cf, n)
    <2>1. c[j] = Look(j, c[j - 1], src, cf) /\ d[j] = Look(j, d[j - 1], srd, cf)
      BY <1>4
    <2>2. Look(j, c[j - 1], src, cf)[n][FALSE] = Found(j, c[j - 1], src, cf, n)
      BY LookedAt, Zenon
    <2>3. Look(j, d[j - 1], srd, cf)[n][FALSE] = Found(j, d[j - 1], srd, cf, n)
      BY LookedAt, Zenon
    <2> QED  BY <2>1, <2>2, <2>3, Zenon
  <1>6. n \in Files => FallsTo(n, cf) = None
    BY SettingsAssumption DEF FallsTo
  <1>7. j # 0 /\ n \notin Files /\ FallsTo(n, cf) # None
        /\ c[j - 1][FallsTo(n, cf)][FALSE] # d[j - 1][FallsTo(n, cf)][FALSE]
    BY <1>3, <1>5, <1>6, Zenon DEF Found, RunAlike
  <1>8. FallsTo(n, cf) \in Mounts \cup Files
    BY <1>7 DEF FallsTo, FallsBack
  <1>9. j - 1 \in 0..k
    BY <1>4, <1>7
  <1>10. j - 1 \in T
    BY <1>1, <1>7, <1>8, <1>9
  <1> QED  BY <1>2, <1>4, <1>10

LEMMA CountsLook == ASSUME NEW src, NEW cf PROVE Looks(Counts(src, cf), Hops, src, cf)
  BY LooksExist, SettingsAssumption DEF Counts

LEMMA RunsCounted ==
  ASSUME NEW m
  PROVE  /\ FallbackRuns(m) = Counts(source, conf)[Hops][conf[m].fallback][FALSE]
         /\ FallbackRuns(m)' = Counts(source', conf')[Hops][conf'[m].fallback][FALSE]
  BY DEF FallbackRuns, Counts, Looks, Look, FallsTo, FallbackOf, Given, At

Shows(m) == Given(m) /\ conf[m].fallback # None /\ FallbackRuns(m)

LEMMA ShowsAlike ==
  ASSUME SettingsTyped, conf' = conf, NEW m \in Mounts,
         \A n \in Mounts : source'[n].at = "runs" <=> source[n].at = "runs"
  PROVE  Shows(m)' <=> Shows(m)
  <1>1. Given(m)' = Given(m) /\ conf'[m].fallback = conf[m].fallback
    BY DEF Given
  <1>2. CASE Given(m) /\ conf[m].fallback # None
    <2>1. conf[m].fallback \in Mounts \cup Files
      BY <1>2, ConfTyped DEF SettingsTyped
    <2>2. FallsBack(conf)
      BY ConfTyped DEF SettingsTyped, Given, FallsBack
    <2>3. RunAlike(source, source')
      BY DEF RunAlike
    <2>4. Looks(Counts(source, conf), Hops, source, conf)
      BY CountsLook
    <2>5. Looks(Counts(source', conf), Hops, source', conf)
      BY CountsLook
    <2>6. Hops \in Nat
      BY SettingsAssumption
    <2>7. Counts(source, conf)[Hops][conf[m].fallback][FALSE]
            = Counts(source', conf)[Hops][conf[m].fallback][FALSE]
      <3>1. PICK c, d, srd : /\ c = Counts(source, conf) /\ d = Counts(source', conf)
                             /\ srd = source'
        OBVIOUS
      <3>2. Looks(c, Hops, source, conf) /\ Looks(d, Hops, srd, conf) /\ RunAlike(source, srd)
        BY <2>3, <2>4, <2>5, <3>1
      <3>3. \A f \in Mounts \cup Files : c[Hops][f][FALSE] = d[Hops][f][FALSE]
        BY <2>2, <2>6, <3>2, LooksAlike, ZenonT(30)
      <3>4. c[Hops][conf[m].fallback][FALSE] = d[Hops][conf[m].fallback][FALSE]
        BY <2>1, <3>3, Zenon
      <3> QED  BY <3>1, <3>4, Zenon
    <2>8. FallbackRuns(m) = Counts(source, conf)[Hops][conf[m].fallback][FALSE]
      BY RunsCounted
    <2>9. FallbackRuns(m)' = Counts(source', conf)[Hops][conf[m].fallback][FALSE]
      BY RunsCounted
    <2>10. FallbackRuns(m)' = FallbackRuns(m)
      BY <2>7, <2>8, <2>9, Zenon
    <2> QED  BY <1>1, <2>10, Zenon DEF Shows
  <1>3. CASE ~(Given(m) /\ conf[m].fallback # None)
    BY <1>1, <1>3 DEF Shows
  <1> QED  BY <1>2, <1>3

(* Nothing has been asked of the slave thread, nor will be for what has    *)
(* happened already.                                                       *)
Quiet ==
  /\ update = "no" /\ recheck.at # "sources" /\ gone \subseteq Relays
  /\ \A m \in Mounts : source[m].at \notin {"ends", "again", "failed"}
ShownAt(m) ==
  m \notin missed /\ source[m].at = "out" /\ (recheck.at = "mounts" => m \notin recheck.todo) =>
    /\ stats[m].updated = "mark" <=> Shows(m)
    /\ stats[m].updated = "mark" => stats[m].hidden = conf[m].hidden
Shown == Quiet => \A m \in Mounts : ShownAt(m)

LEMMA AgainAt ==
  ASSUME SettingsTyped, NEW m \in Mounts, StandsBy(m)
  PROVE  source'[m].at = "again"
  <1>1. PICK s \in {source[m], Cleared(source[m])} :
          source' = [source EXCEPT ![m] = Left(s, "again")]
    BY DEF StandsBy, Left
  <1>2. s \in Sources /\ "again" \in Places
    BY ClearedTyped, Recheckings DEF Places
  <1>3. source'[m] = Left(s, "again")
    BY <1>1 DEF SettingsTyped
  <1> QED  BY <1>2, <1>3, LeftTyped

LEMMA QuietRuns ==
  ASSUME SettingsTyped, NEW m \in Mounts, StepAt(m), Local(m), update' = "no"
  PROVE  \/ missed' = Mounts
         \/ source'[m].at = "runs" <=> source[m].at = "runs"
         \/ source'[m].at = "ends"
  <1>1. CASE Answer(m)
    BY <1>1, AnswerAt DEF Answer, At
  <1>2. CASE HttpSent(m) \/ Offers(m) \/ Leaves(m)
    BY <1>2, Recheckings DEF HttpSent, Offers, Leaves
  <1>3. CASE RelayStarts(m)
    BY <1>3, RelayStartsAt
  <1>4. CASE Ends(m)
    BY <1>4, MovesAt DEF Ends, Places
  <1>5. CASE TakenOver(m) \/ FirstBlock(m) \/ Rechecks(m)
    BY <1>5, TakenOverAt, FirstBlockAt, RechecksAt
  <1>6. CASE Free(m) \/ LooksAt(m)
    BY <1>6 DEF Free, LooksAt
  <1>7. CASE Reserve(m) \/ Drop(m) \/ Refused(m)
    BY <1>7, ReserveAt, GoesOut DEF Reserve, Drop, Refused, At
  <1>8. CASE RelayFails(m)
    BY <1>8, RelayFailsAt DEF RelayFails, At
  <1>9. CASE StandsBy(m)
    BY <1>9, AgainAt DEF StandsBy, At
  <1> QED
    BY <1>1, <1>2, <1>3, <1>4, <1>5, <1>6, <1>7, <1>8, <1>9 DEF StepAt

LEMMA QuietBack ==
  ASSUME SettingsTyped, NEW m \in Mounts, StepAt(m), Local(m), Quiet'
  PROVE  Quiet \/ missed' = Mounts
  <1>1. update = "no" /\ recheck.at # "sources" /\ update' = "no" /\ gone' \subseteq Relays
    BY SameRound DEF Quiet, LooksAt
  <1>2. gone \subseteq Relays
    <2>1. CASE Free(m)
      BY <1>1, <2>1, Recheckings DEF Free
    <2>2. CASE ~Free(m)
      <3>1. gone \subseteq gone'
        BY <2>2
           DEF StepAt, Reserve, Answer, HttpSent, TakenOver, FirstBlock, Ends, Drop, Refused,
               Offers, RelayStarts, RelayFails, StandsBy, Leaves, Rechecks, LooksAt
      <3> QED  BY <1>1, <3>1
    <2> QED  BY <2>1, <2>2
  <1>3. \A n \in Mounts \ {m} : source[n].at \notin {"ends", "again", "failed"}
    BY DEF Quiet, Local
  <1>4. source[m].at \notin {"ends", "again", "failed"} \/ missed' = Mounts
    <2>1. source'[m].at \notin {"ends", "again", "failed"}
      BY DEF Quiet
    <2>2. CASE Drop(m)
      BY <1>1, <2>2 DEF Drop, At
    <2>3. CASE Offers(m) \/ Leaves(m)
      BY <1>1, <2>3, Recheckings DEF Offers, Leaves
    <2>4. CASE RelayStarts(m)
      BY <1>1, <2>4, RelayStartsAt
    <2>5. CASE RelayFails(m)
      BY <2>1, <2>5, RelayFailsAt
    <2>6. CASE StandsBy(m)
      BY <2>1, <2>6, AgainAt
    <2>7. CASE Rechecks(m)
      BY <1>1, <2>7 DEF Rechecks
    <2>8. CASE Free(m) \/ LooksAt(m)
      BY <2>1, <2>8 DEF Free, LooksAt
    <2>9. CASE \/ Reserve(m) \/ Answer(m) \/ HttpSent(m) \/ TakenOver(m) \/ FirstBlock(m) \/ Ends(m)
               \/ Refused(m)
      BY <2>9 DEF Reserve, Answer, HttpSent, TakenOver, FirstBlock, Ends, Refused, At
    <2> QED  BY <2>2, <2>3, <2>4, <2>5, <2>6, <2>7, <2>8, <2>9 DEF StepAt
  <1> QED  BY <1>1, <1>2, <1>3, <1>4 DEF Quiet

LEMMA StaysIn ==
  ASSUME SettingsTyped, NEW m \in Mounts, StepAt(m), ~Free(m), ~Drop(m), ~Refused(m), ~Rechecks(m),
         ~LooksAt(m)
  PROVE  source'[m].at # "out"
  <1>1. CASE Reserve(m) \/ Answer(m) \/ TakenOver(m) \/ FirstBlock(m)
    BY <1>1, ReserveAt, AnswerAt, TakenOverAt, FirstBlockAt DEF TakenOver, FirstBlock, At
  <1>2. CASE HttpSent(m) \/ Ends(m)
    BY <1>2, MovesAt DEF HttpSent, Ends, Places
  <1>3. CASE Offers(m) \/ RelayStarts(m) \/ RelayFails(m) \/ StandsBy(m)
    BY <1>3, OffersAt, RelayStartsAt, RelayFailsAt, AgainAt
  <1>4. CASE Leaves(m)
    <2>1. PICK s \in Sources : /\ source' = [source EXCEPT ![m] = s]
                               /\ s.at \in {"again", "stands", "closing"}
      BY <1>4, RelayLeft
    <2>2. source'[m] = s
      BY <2>1 DEF SettingsTyped
    <2> QED  BY <2>1, <2>2
  <1> QED  BY <1>1, <1>2, <1>3, <1>4 DEF StepAt

(* A mount without a source is shown or not after a step as it was before  *)
(* it, unless the slave thread is to look at it.                           *)
LEMMA ShownStep ==
  ASSUME SettingsTyped, Marks, Shown, NEW m \in Mounts, StepAt(m)
  PROVE  Shown'
  <1>1. Local(m)
    BY StepLocal
  <1> SUFFICES ASSUME Quiet', NEW n \in Mounts, n \notin missed', source'[n].at = "out",
                      recheck'.at = "mounts" => n \notin recheck'.todo
               PROVE  /\ stats'[n].updated = "mark" <=> Shows(n)'
                      /\ stats'[n].updated = "mark" => stats'[n].hidden = conf'[n].hidden
    BY DEF Shown, ShownAt
  <1>2. missed' # Mounts /\ update' = "no" /\ gone' \subseteq Relays
        /\ source'[m].at \notin {"ends", "again", "failed"}
    BY DEF Quiet
  <1>3. Quiet
    BY <1>1, <1>2, QuietBack
  <1>4. source'[m].at = "runs" <=> source[m].at = "runs"
    BY <1>1, <1>2, QuietRuns
  <1>5. \A k \in Mounts : source'[k].at = "runs" <=> source[k].at = "runs"
    BY <1>1, <1>4 DEF Local
  <1>6. Shows(n)' <=> Shows(n)
    BY <1>1, <1>5, ShowsAlike DEF Local
  <1>7. ASSUME source[n].at = "out", stats'[n] = stats[n], n \notin missed,
               recheck.at = "mounts" => n \notin recheck.todo
        PROVE  /\ stats'[n].updated = "mark" <=> Shows(n)'
               /\ stats'[n].updated = "mark" => stats'[n].hidden = conf'[n].hidden
    BY <1>1, <1>3, <1>6, <1>7 DEF Shown, ShownAt, Local
  <1>8. CASE n # m
    <2>1. source[n].at = "out" /\ stats'[n] = stats[n]
      BY <1>1, <1>8 DEF Local
    <2>2. n \notin missed
      BY <1>8, SameRound DEF LooksAt
    <2>3. recheck.at = "mounts" => n \notin recheck.todo
      BY <1>8, SameRound
    <2> QED  BY <1>7, <2>1, <2>2, <2>3
  <1>9. CASE n = m /\ LooksAt(m)
    <2>1. /\ Sourceless(m) /\ recheck.at = "mounts" /\ m \in recheck.todo
          /\ stats' = [stats EXCEPT ![m] = IF FallbackRuns(m) THEN
                         [updated |-> "mark", hidden |-> conf[m].hidden] ELSE stats[m]]
      BY <1>9 DEF LooksAt, Sourceless, At
    <2>2. stats[m].updated # "mark" /\ Given(m) /\ conf[m].fallback # None
      BY <2>1 DEF Marks
    <2>3. CASE FallbackRuns(m)
      <3>1. stats'[m] = [updated |-> "mark", hidden |-> conf[m].hidden]
        BY <2>1, <2>3 DEF SettingsTyped
      <3>2. Shows(n)'
        BY <1>6, <1>9, <2>2, <2>3 DEF Shows
      <3> QED  BY <1>1, <1>9, <3>1, <3>2 DEF Local
    <2>4. CASE ~FallbackRuns(m)
      <3>1. stats'[m].updated # "mark"
        BY <2>1, <2>2, <2>4 DEF SettingsTyped
      <3>2. ~Shows(n)'
        BY <1>6, <1>9, <2>4 DEF Shows
      <3> QED  BY <1>9, <3>1, <3>2
    <2> QED  BY <2>3, <2>4
  <1>10. CASE n = m /\ ~LooksAt(m)
    <2>1. missed \subseteq missed' /\ ~Rechecks(m)
      BY <1>3, <1>10, SameRound DEF Quiet, Rechecks
    <2>2. n \notin missed /\ recheck' = recheck
      BY <1>10, <2>1, SameRound
    <2>3. CASE Free(m)
      BY <1>7, <1>10, <2>2, <2>3 DEF Free
    <2>4. CASE Drop(m)
      BY <1>2, <1>10, <2>4 DEF Drop
    <2>5. CASE Refused(m)
      BY <1>10, <2>5 DEF Refused
    <2>6. CASE ~Free(m) /\ ~Drop(m) /\ ~Refused(m)
      <3>1. source'[m].at # "out"
        BY <1>2, <1>10, <2>1, <2>6, StaysIn DEF StepAt
      <3> QED  BY <1>10, <3>1
    <2> QED  BY <2>3, <2>4, <2>5, <2>6
  <1> QED  BY <1>8, <1>9, <1>10

LEMMA EnteredStep ==
  ASSUME SettingsTyped, NEW m \in Mounts, StepAt(m),
         stats[m].updated = "kept" =>
           source[m].at \in {"waits", "runs", "ends", "offered", "again", "failed"},
         stats'[m].updated = "kept"
  PROVE  source'[m].at \in {"waits", "runs", "ends", "offered", "again", "failed"}
  <1>1. CASE LooksAt(m)
    <2>1. source' = source /\ stats \in [Mounts -> Entries]
      BY <1>1 DEF LooksAt, SettingsTyped
    <2>2. stats'[m] = stats[m]
      BY <1>1, <2>1 DEF LooksAt
    <2> QED  BY <2>1, <2>2
  <1>2. CASE stats'[m] = stats[m] /\ ~LooksAt(m)
    <2>1. source[m].at \in {"waits", "runs", "ends", "offered", "again", "failed"}
      BY <1>2
    <2>2. CASE Drop(m)
      <3>1. source[m].at = "ends" /\ m \notin Relays
        BY <2>1, <2>2 DEF Drop, At
      <3>2. stats'[m].updated = "none"
        BY <2>2, <3>1 DEF Drop, SettingsTyped, Entries
      <3> QED  BY <3>2
    <2>3. CASE Leaves(m)
      <3>1. stats'[m].updated = "none"
        BY <2>3 DEF Leaves, SettingsTyped, Entries
      <3> QED  BY <3>1
    <2>4. CASE Free(m)
      BY <2>1, <2>4 DEF Free
    <2>5. CASE \/ Answer(m) \/ TakenOver(m) \/ FirstBlock(m) \/ Offers(m) \/ RelayStarts(m)
               \/ Rechecks(m)
      BY <2>1, <2>5, AnswerAt, TakenOverAt, FirstBlockAt, OffersAt, RelayStartsAt, RechecksAt
    <2>6. CASE HttpSent(m) \/ Ends(m) \/ RelayFails(m) \/ StandsBy(m)
      BY <2>6, MovesAt, RelayFailsAt, AgainAt DEF HttpSent, Ends, Places
    <2>7. CASE Reserve(m) \/ Refused(m)
      BY <2>1, <2>7 DEF Reserve, Refused, At
    <2> QED  BY <1>2, <2>2, <2>3, <2>4, <2>5, <2>6, <2>7 DEF StepAt
  <1> QED  BY <1>1, <1>2, EntryStep

LEMMA MarksStep ==
  ASSUME SettingsTyped, Marks, NEW m \in Mounts, StepAt(m)
  PROVE  Marks'
  <1>1. Local(m)
    BY StepLocal
  <1>2. ASSUME NEW n \in Mounts \ {m}
        PROVE  stats'[n] = stats[n] /\ (n \in recheck'.todo <=> n \in recheck.todo)
    BY <1>1, SameRound DEF Local
  <1>3. stats'[m].updated \in {stats[m].updated, "kept", "none"} \/ LooksAt(m)
    BY EntryStep
  <1>4. CASE LooksAt(m)
    <2>1. recheck.at = "mounts" /\ recheck'.at = "mounts" /\ conf' = conf
      BY <1>1, <1>4, SameRound DEF LooksAt, Local
    <2>2. ASSUME NEW n \in recheck'.todo
          PROVE  stats'[n].updated # "mark" /\ Given(n) /\ conf[n].fallback # None
      <3>1. n \in recheck.todo /\ n # m /\ n \in Mounts
        BY <1>4, SameRound DEF SettingsTyped
      <3> QED  BY <1>2, <2>1, <3>1 DEF Marks
    <2> QED  BY <2>1, <2>2 DEF Marks, Given
  <1>5. CASE stats'[m].updated \in {stats[m].updated, "kept", "none"}
    <2>1. \A n \in Mounts : stats'[n].updated \in {stats[n].updated, "kept", "none"}
      BY <1>2, <1>5
    <2>2. recheck'.at = recheck.at /\ recheck'.todo \subseteq recheck.todo /\ conf' = conf
      BY <1>1, SameRound DEF Local
    <2>3. recheck.todo \subseteq Mounts
      BY DEF SettingsTyped
    <2> QED  BY <2>1, <2>2, <2>3 DEF Marks, Given
  <1> QED  BY <1>3, <1>4, <1>5

EnteredAt(m) ==
  stats[m].updated = "kept" =>
    source[m].at \in {"waits", "runs", "ends", "offered", "again", "failed"}

(* What holds of the settings between any two steps.                       *)
SettingsInv ==
  /\ SettingsTyped /\ Marks /\ Shown
  /\ \A m \in Mounts : KnownAt(m) /\ EnteredAt(m) /\ (Due(m) => HasSettings(m))

LEMMA InitSettings == SettingsInit => SettingsInv
  <1> SUFFICES ASSUME SettingsInit PROVE SettingsInv
    OBVIOUS
  <1>1. SettingsTyped
    <2>1. NoSource \in Sources
      BY SettingsAssumption DEF NoSource, Sources, Places, Prerolls
    <2> QED  BY <2>1 DEF SettingsInit, SettingsTyped, Entries
  <1>2. \A m \in Mounts : source[m] = NoSource /\ stats[m] = [updated |-> "none", hidden |-> FALSE]
    BY DEF SettingsInit
  <1>3. Marks /\ Shown
    BY <1>2 DEF SettingsInit, Marks, Shown, Quiet
  <1>4. ASSUME NEW m \in Mounts PROVE KnownAt(m) /\ EnteredAt(m) /\ (Due(m) => HasSettings(m))
    BY <1>2 DEF SettingsInit, KnownAt, EnteredAt, Due, NoSource, At
  <1> QED  BY <1>1, <1>3, <1>4 DEF SettingsInv

(* A step at one mount.                                                    *)
LEMMA StepKept ==
  ASSUME ~Overtakes, SettingsInv, NEW m \in Mounts, StepAt(m)
  PROVE  SettingsInv'
  <1>1. SettingsTyped /\ Marks /\ Shown
    BY DEF SettingsInv
  <1>2. Local(m)
    BY <1>1, StepLocal
  <1>3. Marks' /\ Shown' /\ SettingsTyped'
    BY <1>1, <1>2, MarksStep, ShownStep DEF Local
  <1>4. KnownAt(m)' /\ EnteredAt(m)' /\ (Due(m) => HasSettings(m))'
    <2>1. KnownAt(m) /\ EnteredAt(m) /\ (Due(m) => HasSettings(m)) /\ conf' = conf
      BY <1>2 DEF SettingsInv, Local
    <2>2. KnownAt(m)'
      BY <1>1, <2>1, KnownStep
    <2>3. EnteredAt(m)'
      BY <1>1, <2>1, EnteredStep DEF EnteredAt
    <2>4. Due(m)' => HasSettings(m)'
      BY <1>1, <2>1, ReachedStep
    <2> QED  BY <2>2, <2>3, <2>4
  <1>5. ASSUME NEW n \in Mounts \ {m}
        PROVE  KnownAt(n)' /\ EnteredAt(n)' /\ (Due(n) => HasSettings(n))'
    <2>1. KnownAt(n) /\ EnteredAt(n) /\ (Due(n) => HasSettings(n))
      BY DEF SettingsInv
    <2>2. /\ source'[n] = source[n] /\ stats'[n] = stats[n] /\ conf' = conf
          /\ n \in listed' <=> n \in listed
          /\ n \in gone' <=> n \in gone
      BY <1>2 DEF Local
    <2>3. Due(n)' => Due(n)
      BY <1>1, <2>2, SameRound DEF Due, At
    <2>4. Due(n)' => HasSettings(n)'
      BY <2>1, <2>2, <2>3, SettingsStay
    <2>5. KnownAt(n)' /\ EnteredAt(n)'
      BY <2>1, <2>2 DEF KnownAt, EnteredAt
    <2> QED  BY <2>4, <2>5
  <1> QED  BY <1>3, <1>4, <1>5 DEF SettingsInv

(* A step of the slave thread between its rounds, or a reload.             *)
LEMMA RoundKept ==
  ASSUME SettingsInv, Reload \/ Begins \/ ToMounts \/ Unlocks \/ Purges
  PROVE  SettingsInv'
  <1>1. SettingsTyped /\ Marks /\ Shown
    BY DEF SettingsInv
  <1>2. source' = source /\ gone' = gone /\ listed' = listed /\ missed' = missed
        /\ ondemand' = ondemand
    BY DEF Reload, Begins, ToMounts, Unlocks, Purges
  <1>3. stats \in [Mounts -> Entries]
    BY <1>1 DEF SettingsTyped
  <1>4. /\ stats' \in [Mounts -> Entries]
        /\ \A m \in Mounts : /\ stats'[m].updated = "kept" <=> stats[m].updated = "kept"
                             /\ stats'[m].hidden = stats[m].hidden
                             /\ stats[m].updated = "kept" => stats'[m] = stats[m]
    <2>1. CASE stats' = stats
      BY <1>3, <2>1
    <2>2. CASE Begins
      BY <1>3, <2>2 DEF Begins, Entries
    <2>3. CASE Purges
      BY <1>3, <2>3 DEF Purges, Entries
    <2> QED  BY <2>1, <2>2, <2>3 DEF Reload, ToMounts, Unlocks
  <1>5. conf' \in Tables /\ update' \in {"no", "mounts", "all"}
        /\ recheck' \in [at : {"idle", "sources", "mounts", "purge"}, todo : SUBSET Mounts]
    BY <1>1 DEF SettingsTyped, Reload, Begins, ToMounts, Unlocks, Purges
  <1>6. SettingsTyped'
    BY <1>1, <1>2, <1>4, <1>5 DEF SettingsTyped
  <1>7. \A m \in Mounts : KnownAt(m)' /\ EnteredAt(m)'
    BY <1>2, <1>4 DEF SettingsInv, KnownAt, EnteredAt
  <1>8. ASSUME NEW m \in Mounts, Due(m)' PROVE HasSettings(m)'
    <2>1. conf' = conf /\ Due(m)
      <3>1. ~Reload
        BY <1>8 DEF Reload, Due
      <3>2. CASE Begins
        BY <1>2, <1>8, <3>2 DEF Begins, Due, At
      <3>3. CASE ToMounts \/ Unlocks \/ Purges
        BY <1>2, <1>8, <3>3 DEF ToMounts, Unlocks, Purges, Due, At
      <3> QED  BY <3>1, <3>2, <3>3 DEF Begins, ToMounts, Unlocks, Purges
    <2>2. HasSettings(m)
      BY <2>1 DEF SettingsInv
    <2>3. stats'[m] = stats[m]
      BY <1>4, <2>2 DEF HasSettings
    <2> QED  BY <1>2, <2>1, <2>2, <2>3, SettingsStay
  <1>9. Marks'
    <2>1. CASE Reload
      BY <1>1, <2>1 DEF Reload, Marks
    <2>2. CASE Begins
      BY <1>1, <1>3, <2>2 DEF Begins, Marks, Entries
    <2>3. CASE ToMounts
      BY <1>1, <2>3 DEF ToMounts, Marks, Given
    <2>4. CASE Unlocks
      BY <1>1, <2>4 DEF Unlocks, Marks, SettingsTyped
    <2>5. CASE Purges
      BY <1>1, <1>3, <2>5 DEF Purges, Marks, Entries, SettingsTyped
    <2> QED  BY <2>1, <2>2, <2>3, <2>4, <2>5
  <1>10. Shown'
    <2> SUFFICES ASSUME Quiet', NEW m \in Mounts, m \notin missed, source[m].at = "out",
                        recheck'.at = "mounts" => m \notin recheck'.todo
                 PROVE  /\ stats'[m].updated = "mark" <=> Shows(m)'
                        /\ stats'[m].updated = "mark" => stats'[m].hidden = conf'[m].hidden
      BY <1>2 DEF Shown, ShownAt
    <2>1. ~Reload /\ ~Begins
      BY DEF Quiet, Reload, Begins
    <2>2. conf' = conf /\ update = "no" /\ gone \subseteq Relays
          /\ \A n \in Mounts : source[n].at \notin {"ends", "again", "failed"}
      BY <1>2, <2>1 DEF ToMounts, Unlocks, Purges, Quiet
    <2>3. Shows(m)' <=> Shows(m)
      BY <1>1, <1>2, <2>2, ShowsAlike
    <2>4. CASE ToMounts
      <3>1. stats[m].updated # "mark" /\ stats' = stats
        BY <1>1, <2>4 DEF ToMounts, Marks
      <3>2. ~Shows(m)
        BY <2>4 DEF ToMounts, Shows
      <3> QED  BY <2>3, <3>1, <3>2
    <2>5. CASE Unlocks \/ Purges
      <3>1. Quiet /\ (recheck.at = "mounts" => m \notin recheck.todo)
        BY <1>2, <2>2, <2>5 DEF Quiet, Unlocks, Purges
      <3>2. ShownAt(m)
        BY <1>1, <3>1 DEF Shown
      <3>3. stats'[m].updated = "mark" <=> stats[m].updated = "mark"
        BY <1>3, <2>5 DEF Unlocks, Purges, Entries
      <3> QED  BY <1>4, <2>2, <2>3, <3>1, <3>2, <3>3 DEF ShownAt
    <2> QED  BY <2>1, <2>4, <2>5
  <1> QED  BY <1>6, <1>7, <1>8, <1>9, <1>10 DEF SettingsInv

LEMMA SettingsUnchanged ==
  ASSUME SettingsInv, UNCHANGED settingsVars
  PROVE  SettingsInv'
  <1>1. SettingsTyped' /\ Marks'
    BY DEF SettingsInv, settingsVars, SettingsTyped, Marks, Given
  <1>2. ASSUME NEW m \in Mounts
        PROVE  KnownAt(m)' /\ EnteredAt(m)' /\ (Due(m)' => HasSettings(m)')
    <2>1. KnownAt(m)' /\ EnteredAt(m)' /\ (Due(m)' => Due(m))
      BY DEF SettingsInv, settingsVars, KnownAt, EnteredAt, Due, At
    <2> QED  BY <2>1, SettingsStay DEF SettingsInv, settingsVars
  <1>3. Shown'
    <2>1. \A m \in Mounts : Shows(m)' <=> Shows(m)
      BY ShowsAlike DEF SettingsInv, settingsVars
    <2> QED  BY <2>1 DEF SettingsInv, settingsVars, Shown, ShownAt, Quiet
  <1> QED  BY <1>1, <1>2, <1>3 DEF SettingsInv

LEMMA SettingsInvSound == SettingsInv => MountsSound
  <1> SUFFICES ASSUME SettingsInv PROVE MountsSound
    OBVIOUS
  <1>1. SettingsTyped /\ Marks /\ Shown
    BY DEF SettingsInv
  <1>2. SettingsTypeOK
    <2>1. \A m \in Mounts : source[m] \in Sources /\ stats[m] \in Entries
      BY <1>1 DEF SettingsTyped
    <2> QED  BY <1>1, <2>1 DEF SettingsTyped, SettingsTypeOK, Sources, Entries, Places
  <1>3. SettingsApplied
    BY DEF SettingsInv, SettingsApplied, Due, At
  <1>4. PublicListed
    BY DEF SettingsInv, PublicListed, KnownAt
  <1>5. FallbacksShown
    <2> SUFFICES ASSUME Settled, NEW m \in Mounts, m \notin missed, source[m].at = "out"
                 PROVE  /\ stats[m].updated # "none" <=> Shows(m)
                        /\ stats[m].updated # "none" => stats[m].hidden = conf[m].hidden
      BY DEF FallbacksShown, At, Shows
    <2>1. ShownAt(m)
      BY <1>1 DEF Shown, Quiet, Settled, At
    <2>2. stats[m].updated # "old" /\ recheck.at = "idle"
      BY <1>1 DEF Settled, Marks
    <2>3. stats[m].updated # "kept"
      BY DEF SettingsInv, EnteredAt
    <2>4. stats[m].updated \in {"none", "kept", "mark", "old"}
      BY <1>1 DEF SettingsTyped, Entries
    <2> QED  BY <2>1, <2>2, <2>3, <2>4 DEF ShownAt
  <1> QED  BY <1>2, <1>3, <1>4, <1>5 DEF MountsSound

(* Where no source comes before the last one of its mount is freed, the    *)
(* sources have the settings of their mounts, the directory thread was     *)
(* asked to list those that are public, and a mount without a source is    *)
(* shown when a fallback of its runs (source_update_settings,              *)
(* source_recheck_mounts), for any mounts, configurations and relays.      *)
THEOREM SettingsReach == ASSUME ~Overtakes PROVE SettingsSpec => []MountsSound
  <1>1. SettingsInv /\ [SettingsNext]_settingsVars => SettingsInv'
    <2> SUFFICES ASSUME SettingsInv, [SettingsNext]_settingsVars PROVE SettingsInv'
      OBVIOUS
    <2>1. CASE UNCHANGED settingsVars
      BY <2>1, SettingsUnchanged
    <2>2. ASSUME NEW m \in Mounts, StepAt(m) PROVE SettingsInv'
      BY <2>2, StepKept
    <2>3. CASE Reload \/ Begins \/ ToMounts \/ Unlocks \/ Purges
      BY <2>3, RoundKept
    <2> QED  BY <2>1, <2>2, <2>3 DEF SettingsNext, StepAt
  <1> QED  BY <1>1, InitSettings, SettingsInvSound, PTL DEF SettingsSpec

----------------------------------------------------------------------------
(* Titles on their way to the listeners.                                   *)

MetaRecords == [count : Int, on_queue : BOOLEAN, title : Titles \cup {Blank}, used : BOOLEAN]
QueueBlocks == [id : Nat \ {0}, meta : Blocks]
Ears ==
  [p : Titles \cup {Blank, Same, "audio", "block"}, i : Nat, n : Nat, since : Nat,
   next : Nat, heard : Titles \cup {Blank}, ok : BOOLEAN]
Hearers ==
  [kind : Kinds, ref : [id : Nat, meta : Blocks \cup {NoMeta}], pos : 0..BlockLen,
   since : 0..Interval, offset : Nat, in_meta : BOOLEAN, associated : Blocks \cup {NoMeta},
   queue_pos : Int, due : Titles \cup {Blank}]
Bytes == [p : Titles \cup {Blank, Same, "audio", "block"}, i : Nat, n : Nat, num : Nat]
TitlesTyped ==
  /\ mb \in [Blocks -> MetaRecords] /\ current \in Blocks
  /\ url_title \in [title : Titles \cup {Blank}, update : BOOLEAN]
  /\ title_queue \in Seq(QueueBlocks) /\ Len(title_queue) <= MaxQueue /\ read \in Nat
  /\ hearer \in Hearers
  /\ ear \in Ears /\ ear.next # 0

(* What a listener has heard is the title it should have, unless memory is *)
(* used again for another title and taken for that one.                    *)
KnownTitle(heard, title) == Recycled \/ heard = title

(* Memory that is referred to is in use, and a listener's last title is    *)
(* that of the memory it remembers.                                        *)
MetaUsed ==
  /\ mb[current].used
  /\ \A k \in 1..Len(title_queue) : mb[title_queue[k].meta].used
  /\ On => \E k \in 1..Len(title_queue) : title_queue[k] = hearer.ref
  /\ hearer.associated # NoMeta =>
       mb[hearer.associated].used /\ KnownTitle(mb[hearer.associated].title, hearer.due)

(* The ear is i bytes into a packet of n, or between two.                  *)
Amid(e, p, i, n) == IF i = 0 THEN e.i = e.n ELSE e.p = p /\ e.i = i /\ e.n = n

(* A listener with inserts.                                                *)
IcyRight ==
  /\ ear.ok /\ ear.since = hearer.since /\ KnownTitle(ear.heard, hearer.due)
  /\ On => ear.next = FirstOf(hearer.ref) + hearer.pos /\ hearer.queue_pos = ear.next - 1
  /\ ~On => hearer.pos = 0 /\ ~hearer.in_meta
  /\ ~hearer.in_meta => hearer.offset = 0 /\ ear.i = ear.n
  /\ hearer.in_meta =>
       /\ hearer.since = Interval /\ hearer.pos < BlockLen /\ ~OnSame
       /\ hearer.offset \in 1..(InsertLen - 1)
       /\ Amid(ear, mb[Meta].title, hearer.offset, InsertLen)

(* What an ear makes of the first o bytes of an iceblock, behind the title *)
(* if it is new.                                                           *)
MetaLen == IF OnSame THEN 0 ELSE InsertLen
IceAt(e, o) ==
  /\ e.ok
  /\ o < MetaLen => Amid(e, mb[Meta].title, o, InsertLen) /\ e.next = FirstOf(hearer.ref)
  /\ o >= MetaLen =>
       /\ Amid(e, "block", o - MetaLen, BlockLen + 2)
       /\ e.next = FirstOf(hearer.ref) + (IF o < MetaLen + 2 THEN 0 ELSE o - MetaLen - 2)
       /\ KnownTitle(e.heard, mb[Meta].title)
IceRight ==
  /\ ear.ok /\ ~hearer.in_meta
  /\ hearer.pos \in {0, BlockLen} /\ (hearer.pos = BlockLen => hearer.offset = 0)
  /\ ~On => hearer.pos = 0 /\ hearer.offset = 0
  /\ hearer.offset = 0 => ear.i = ear.n /\ KnownTitle(ear.heard, hearer.due)
  /\ On =>
       /\ hearer.offset = 0 => ear.next = FirstOf(hearer.ref) + hearer.pos
       /\ hearer.queue_pos < FirstOf(hearer.ref) + hearer.pos
                             + (IF hearer.offset < MetaLen + 2 THEN 0 ELSE hearer.offset - MetaLen - 2)
       /\ hearer.offset > 0 => hearer.offset < MetaLen + 2 + BlockLen /\ IceAt(ear, hearer.offset)

TitlesInv ==
  /\ TitlesTyped /\ MetaCounted /\ MetaUsed
  /\ hearer.kind = "icy" => IcyRight
  /\ hearer.kind = "iceblocks" => IceRight

(* What an ear makes of the first bytes, for each number of them to n.     *)
Hearing(f, bytes, n) ==
  f = [k \in 0..n |-> IF k = 0 THEN ear ELSE Hears(f[k - 1], bytes[k])]

LEMMA HearingExists ==
  ASSUME NEW bytes, NEW n \in Nat
  PROVE  \E f : Hearing(f, bytes, n)
  <1> SUFFICES ASSUME ~\E f : Hearing(f, bytes, n) PROVE FALSE
    OBVIOUS
  <1>1. PICK T : T = {j \in Nat : ~\E f : Hearing(f, bytes, j)}
    OBVIOUS
  <1>2. PICK j \in T : \A m \in T : j <= m
    <2>1. T \subseteq Nat /\ T # {}
      BY <1>1
    <2> QED  BY <2>1, NatMin
  <1>3. j \in Nat /\ ~\E f : Hearing(f, bytes, j)
    BY <1>1, <1>2
  <1>4. j # 0
    <2>1. Hearing([k \in 0..0 |-> ear], bytes, 0)
      BY DEF Hearing
    <2> QED  BY <1>3, <2>1
  <1>5. j - 1 \in Nat /\ j - 1 \notin T
    BY <1>2, <1>3, <1>4
  <1>6. PICK g : Hearing(g, bytes, j - 1)
    BY <1>1, <1>5
  <1>7. PICK f : f = [k \in 0..j |-> IF k = j THEN Hears(g[j - 1], bytes[j]) ELSE g[k]]
    OBVIOUS
  <1>8. \A k \in 0..j : k # j => k \in 0..(j - 1) /\ f[k] = g[k]
    BY <1>3, <1>7
  <1>9. ASSUME NEW k \in 0..j
        PROVE  f[k] = IF k = 0 THEN ear ELSE Hears(f[k - 1], bytes[k])
    <2>1. CASE k = 0
      BY <1>3, <1>4, <1>6, <1>8, <2>1 DEF Hearing
    <2>2. CASE k # 0
      <3>1. k - 1 \in 0..j /\ k - 1 # j /\ f[k - 1] = g[k - 1]
        BY <1>3, <1>8, <2>2
      <3>2. CASE k = j
        BY <1>7, <2>2, <3>1, <3>2
      <3>3. CASE k # j
        <4>1. k \in 0..(j - 1) /\ f[k] = g[k]
          BY <1>8, <3>3
        <4>2. g[k] = Hears(g[k - 1], bytes[k])
          BY <1>6, <2>2, <4>1 DEF Hearing
        <4> QED  BY <2>2, <3>1, <4>1, <4>2
      <3> QED  BY <3>2, <3>3
    <2> QED  BY <2>1, <2>2
  <1>10. Hearing(f, bytes, j)
    BY <1>7, <1>9 DEF Hearing
  <1> QED  BY <1>3, <1>10

LEMMA HeardOf ==
  ASSUME NEW bytes, NEW n \in Nat
  PROVE  \E f : Hearing(f, bytes, n) /\ Heard(bytes, n) = f[n]
  <1>1. PICK f : f = CHOOSE g : Hearing(g, bytes, n)
    OBVIOUS
  <1>2. Hearing(f, bytes, n)
    BY <1>1, HearingExists
  <1>3. Heard(bytes, n) = f[n]
    BY <1>1 DEF Heard, Hearing
  <1> QED  BY <1>2, <1>3

(* A byte, field by field.                                                 *)
LEMMA HearsFields ==
  ASSUME NEW b \in Bytes, NEW e \in Ears
  PROVE  /\ Hears(e, b) \in Ears
         /\ Hears(e, b).p = b.p /\ Hears(e, b).i = b.i /\ Hears(e, b).n = b.n
         /\ Hears(e, b).since = IF b.p = "audio" THEN e.since + 1
                                ELSE IF b.p # "block" /\ b.i = b.n THEN 0 ELSE e.since
         /\ Hears(e, b).next = IF b.num = 0 THEN e.next ELSE b.num + 1
         /\ Hears(e, b).heard = IF b.p \notin {"audio", "block", Same} /\ b.i = b.n THEN b.p ELSE e.heard
         /\ Hears(e, b).ok =
              (/\ e.ok
               /\ IF e.i = e.n THEN b.i = 1 ELSE b.p = e.p /\ b.i = e.i + 1 /\ b.n = e.n
               /\ b.num \in {0, e.next}
               /\ b.p = "audio" => hearer.kind = "icy" /\ e.since < Interval
               /\ b.p \notin {"audio", "block"} /\ hearer.kind = "icy" => e.since = Interval)
  <1>1. PICK ok \in BOOLEAN : ok =
           (/\ e.ok
            /\ IF e.i = e.n THEN b.i = 1 ELSE b.p = e.p /\ b.i = e.i + 1 /\ b.n = e.n
            /\ b.num \in {0, e.next}
            /\ b.p = "audio" => hearer.kind = "icy" /\ e.since < Interval
            /\ b.p \notin {"audio", "block"} /\ hearer.kind = "icy" => e.since = Interval)
    OBVIOUS
  <1>2. PICK since \in Nat : since = IF b.p = "audio" THEN e.since + 1
                                ELSE IF b.p # "block" /\ b.i = b.n THEN 0 ELSE e.since
    BY DEF Ears
  <1>3. PICK next \in Nat : next = IF b.num = 0 THEN e.next ELSE b.num + 1
    BY DEF Ears, Bytes
  <1>4. PICK heard \in Titles \cup {Blank} :
          heard = IF b.p \notin {"audio", "block", Same} /\ b.i = b.n THEN b.p ELSE e.heard
    BY DEF Ears, Bytes
  <1>5. PICK h : h = [e EXCEPT !.ok = ok, !.p = b.p, !.i = b.i, !.n = b.n, !.since = since,
                               !.next = next, !.heard = heard]
    OBVIOUS
  <1>6. h = [p |-> b.p, i |-> b.i, n |-> b.n, since |-> since, next |-> next, heard |-> heard, ok |-> ok]
    BY <1>5 DEF Ears
  <1>7. h \in Ears /\ h.p = b.p /\ h.i = b.i /\ h.n = b.n /\ h.since = since /\ h.next = next
        /\ h.heard = heard
    BY <1>6 DEF Ears, Bytes
  <1>8. h.ok = ok
    BY <1>6
  <1>9. Hears(e, b) = h
    <2>1. since = IF b.p = "audio" THEN e.since + 1
                  ELSE IF b.p \notin {"audio", "block"} /\ b.i = b.n THEN 0 ELSE e.since
      BY <1>2
    <2>2. heard = IF b.p \notin {"audio", "block"} /\ b.i = b.n /\ b.p # Same THEN b.p ELSE e.heard
      BY <1>4
    <2>3. ok = (/\ e.ok
                /\ IF e.i = e.n THEN b.i = 1 ELSE b.p = e.p /\ b.i = e.i + 1 /\ b.n = e.n
                /\ b.num \in {0, e.next}
                /\ b.p = "audio" => hearer.kind = "icy" /\ e.since < Interval
                /\ b.p \notin {"audio", "block"} /\ hearer.kind = "icy" => e.since = Interval)
      BY <1>1
    <2> QED  BY <1>3, <1>5, <2>1, <2>2, <2>3, Zenon DEF Hears
  <1>10. h.ok = (/\ e.ok
                 /\ IF e.i = e.n THEN b.i = 1 ELSE b.p = e.p /\ b.i = e.i + 1 /\ b.n = e.n
                 /\ b.num \in {0, e.next}
                 /\ b.p = "audio" => hearer.kind = "icy" /\ e.since < Interval
                 /\ b.p \notin {"audio", "block"} /\ hearer.kind = "icy" => e.since = Interval)
    BY <1>1, <1>8, Zenon
  <1> QED  BY <1>2, <1>3, <1>4, <1>7, <1>9, <1>10, Zenon

(* What holds before the first byte, and after each byte if before it,     *)
(* holds after any number of them.                                         *)
LEMMA HeardRun ==
  ASSUME NEW bytes, NEW m \in Nat, NEW S, ear \in S[0],
         \A k \in 0..(m - 1) : \A h \in S[k] : Hears(h, bytes[k + 1]) \in S[k + 1],
         NEW n \in 0..m
  PROVE  Heard(bytes, n) \in S[n]
  <1>1. PICK f : Hearing(f, bytes, n) /\ Heard(bytes, n) = f[n]
    BY HeardOf
  <1>2. PICK T : T = {k \in 0..n : f[k] \notin S[k]}
    OBVIOUS
  <1>3. ASSUME T # {} PROVE FALSE
    <2>1. PICK k \in T : \A j \in T : k <= j
      <3>1. T \subseteq Nat
        BY <1>2
      <3> QED  BY <1>3, <3>1, NatMin
    <2>2. k \in 0..n /\ f[k] \notin S[k]
      BY <1>2, <2>1
    <2>3. f[0] = ear
      BY <1>1 DEF Hearing
    <2>4. k # 0
      BY <2>2, <2>3
    <2>5. k - 1 \in 0..n /\ k - 1 \notin T /\ k - 1 \in 0..(m - 1) /\ (k - 1) + 1 = k
      BY <2>1, <2>2, <2>4
    <2>6. f[k - 1] \in S[k - 1]
      BY <1>2, <2>5
    <2>7. f[k] = Hears(f[k - 1], bytes[k])
      BY <1>1, <2>2, <2>4 DEF Hearing
    <2>8. Hears(f[k - 1], bytes[(k - 1) + 1]) \in S[(k - 1) + 1]
      BY <2>5, <2>6
    <2> QED  BY <2>2, <2>5, <2>7, <2>8
  <1>4. n \in 0..n
    OBVIOUS
  <1> QED  BY <1>1, <1>2, <1>3, <1>4

(* What an ear makes of the first a bytes of a packet of length n that is  *)
(* of t, and of the stream behind it from place base on.                   *)
IcyAt(e, a, t, n, base, heard) ==
  /\ e \in Ears /\ e.ok /\ e.next # 0
  /\ a < n => Amid(e, t, a, n) /\ e.since = Interval /\ e.next = base /\ e.heard = heard
  /\ a >= n => /\ e.i = e.n /\ e.since = a - n /\ e.next = base + (a - n)
               /\ e.heard = IF t = Same THEN heard ELSE t
IcyByte(a, t, n, base) ==
  IF a < n THEN [p |-> t, i |-> a + 1, n |-> n, num |-> 0] ELSE Audio(base + (a - n))

LEMMA IcyStep ==
  ASSUME hearer.kind = "icy", NEW t \in Titles \cup {Blank, Same}, NEW n \in Nat, NEW base \in Int,
         NEW heard \in Titles \cup {Blank}, NEW a \in Nat, a - n < Interval,
         NEW e, IcyAt(e, a, t, n, base, heard)
  PROVE  IcyAt(Hears(e, IcyByte(a, t, n, base)), a + 1, t, n, base, heard)
  <1>1. PICK b : b = IcyByte(a, t, n, base)
    OBVIOUS
  <1>2. PICK h : h = Hears(e, b)
    OBVIOUS
  <1>3. e \in Ears /\ e.ok /\ e.next # 0 /\ e.next \in Nat /\ e.since \in Nat /\ e.i \in Nat /\ e.n \in Nat
    BY DEF IcyAt, Ears
  <1>4. Interval \in Nat \ {0} /\ t \notin {"audio", "block"}
    BY TitlesAssumption
  <1>5. CASE a < n
    <2>1. b = [p |-> t, i |-> a + 1, n |-> n, num |-> 0]
      BY <1>1, <1>5 DEF IcyByte
    <2>2. b \in Bytes /\ b.p = t /\ b.i = a + 1 /\ b.n = n /\ b.num = 0
      BY <2>1 DEF Bytes
    <2>3. Amid(e, t, a, n) /\ e.since = Interval /\ e.next = base /\ e.heard = heard
      BY <1>5 DEF IcyAt
    <2>4. /\ h \in Ears /\ h.p = t /\ h.i = a + 1 /\ h.n = n
          /\ h.next = e.next
      BY <1>2, <1>3, <2>2, HearsFields
    <2>5. h.since = IF a + 1 = n THEN 0 ELSE Interval
      <3>1. h.since = IF b.p = "audio" THEN e.since + 1
                      ELSE IF b.p # "block" /\ b.i = b.n THEN 0 ELSE e.since
        BY <1>2, <1>3, <2>2, HearsFields
      <3> QED  BY <1>4, <2>2, <2>3, <3>1
    <2>6. h.heard = IF t # Same /\ a + 1 = n THEN t ELSE heard
      <3>1. h.heard = IF b.p \notin {"audio", "block", Same} /\ b.i = b.n THEN b.p ELSE e.heard
        BY <1>2, <1>3, <2>2, HearsFields
      <3> QED  BY <1>4, <2>2, <2>3, <3>1
    <2>7. IF e.i = e.n THEN b.i = 1 ELSE b.p = e.p /\ b.i = e.i + 1 /\ b.n = e.n
      <3>1. CASE a = 0
        BY <2>2, <2>3, <3>1 DEF Amid
      <3>2. CASE a # 0
        <4>1. e.p = t /\ e.i = a /\ e.n = n /\ e.i # e.n
          BY <1>5, <2>3, <3>2 DEF Amid
        <4> QED  BY <2>2, <4>1
      <3> QED  BY <3>1, <3>2
    <2>8. h.ok
      BY <1>2, <1>3, <1>4, <2>2, <2>3, <2>7, HearsFields
    <2>9. Amid(h, t, a + 1, n)
      BY <2>4 DEF Amid
    <2>10. CASE a + 1 < n
      <3>1. ~(a + 1 >= n) /\ a + 1 # n
        BY <2>10
      <3> QED  BY <1>1, <1>2, <1>3, <2>3, <2>4, <2>5, <2>6, <2>8, <2>9, <2>10, <3>1 DEF IcyAt
    <2>11. CASE ~(a + 1 < n)
      <3>1. a + 1 = n /\ (a + 1) - n = 0 /\ base + ((a + 1) - n) = base
        BY <1>5, <2>11
      <3>2. h.i = h.n /\ h.since = (a + 1) - n /\ h.next = base + ((a + 1) - n)
        BY <2>3, <2>4, <2>5, <3>1
      <3>3. h.heard = IF t = Same THEN heard ELSE t
        BY <2>6, <3>1
      <3> QED  BY <1>1, <1>2, <1>3, <2>4, <2>8, <2>11, <3>2, <3>3 DEF IcyAt
    <2> QED  BY <2>10, <2>11
  <1>6. CASE ~(a < n)
    <2>1. /\ e.i = e.n /\ e.since = a - n /\ e.next = base + (a - n)
          /\ e.heard = IF t = Same THEN heard ELSE t
      BY <1>6 DEF IcyAt
    <2>2. b = Audio(e.next)
      BY <1>1, <1>6, <2>1 DEF IcyByte
    <2>3. b \in Bytes /\ b.p = "audio" /\ b.i = 1 /\ b.n = 1 /\ b.num = e.next
      BY <1>3, <2>2 DEF Bytes, Audio
    <2>4. /\ h \in Ears /\ h.p = "audio" /\ h.i = 1 /\ h.n = 1 /\ h.since = e.since + 1
          /\ h.next = e.next + 1
      BY <1>2, <1>3, <2>3, HearsFields
    <2>5. h.heard = e.heard
      BY <1>2, <1>3, <2>3, HearsFields
    <2>6. e.since < Interval
      BY <2>1
    <2>7. h.ok
      BY <1>2, <1>3, <2>1, <2>3, <2>6, HearsFields
    <2>8. h.i = h.n /\ h.since = (a + 1) - n /\ h.next = base + ((a + 1) - n) /\ h.next # 0 /\ ~(a + 1 < n)
      BY <1>3, <1>6, <2>1, <2>4
    <2> QED  BY <1>1, <1>2, <2>1, <2>4, <2>5, <2>7, <2>8 DEF IcyAt
  <1> QED  BY <1>5, <1>6

LEMMA IcyRun ==
  ASSUME hearer.kind = "icy", NEW t \in Titles \cup {Blank, Same}, NEW n \in Nat, NEW base \in Int,
         NEW heard \in Titles \cup {Blank}, NEW a \in Nat, IcyAt(ear, a, t, n, base, heard),
         NEW m \in Nat, a + m - n <= Interval,
         NEW bytes, \A k \in 1..m : bytes[k] = IcyByte(a + k - 1, t, n, base),
         NEW ret \in 0..m
  PROVE  IcyAt(Heard(bytes, ret), a + ret, t, n, base, heard)
  <1>1. PICK S : S = [k \in 0..m |-> {e \in Ears : IcyAt(e, a + k, t, n, base, heard)}]
    OBVIOUS
  <1>2. ear \in S[0]
    <2>1. a + 0 = a /\ ear \in Ears
      BY DEF IcyAt
    <2> QED  BY <1>1, <2>1
  <1>3. ASSUME NEW k \in 0..(m - 1), NEW e \in S[k]  PROVE Hears(e, bytes[k + 1]) \in S[k + 1]
    <2>1. k \in 0..m /\ k + 1 \in 1..m /\ k + 1 \in 0..m /\ a + (k + 1) - 1 = a + k /\ a + k \in Nat
          /\ (a + k) + 1 = a + (k + 1)
      OBVIOUS
    <2>2. IcyAt(e, a + k, t, n, base, heard)
      BY <1>1, <1>3, <2>1
    <2>3. bytes[k + 1] = IcyByte(a + k, t, n, base)
      BY <2>1
    <2>4. (a + k) - n < Interval
      BY <1>3, TitlesAssumption
    <2>5. IcyAt(Hears(e, bytes[k + 1]), a + (k + 1), t, n, base, heard)
      BY <2>1, <2>2, <2>3, <2>4, IcyStep
    <2> QED  BY <1>1, <2>1, <2>5 DEF IcyAt
  <1>4. Heard(bytes, ret) \in S[ret]
    BY <1>2, <1>3, HeardRun
  <1> QED  BY <1>1, <1>4

LEMMA FirstOfNat ==
  ASSUME NEW b, b.id \in Nat \ {0}
  PROVE  FirstOf(b) \in Nat \ {0}
  <1>1. PICK n \in Nat, l \in Nat : n = b.id - 1 /\ l = BlockLen
    BY TitlesAssumption
  <1>2. n * l \in Nat
    OBVIOUS
  <1> QED  BY <1>1, <1>2 DEF FirstOf

LEMMA FirstOfNext ==
  ASSUME NEW b, NEW c, b.id \in Nat \ {0}, c.id = b.id + 1
  PROVE  FirstOf(c) = FirstOf(b) + BlockLen
  <1>1. PICK n \in Nat, l \in Nat : n = b.id - 1 /\ l = BlockLen
    BY TitlesAssumption
  <1>2. (n + 1) * l = n * l + l /\ n * l \in Nat
    OBVIOUS
  <1>3. FirstOf(c) = (n + 1) * l + 1 /\ FirstOf(b) = n * l + 1
    BY <1>1 DEF FirstOf
  <1> QED  BY <1>1, <1>2, <1>3

(* The listener is on a block of the queue, whose metadata is in use.      *)
LEMMA OnBlock ==
  ASSUME TitlesTyped, MetaUsed, On
  PROVE  /\ hearer.ref \in QueueBlocks /\ Meta \in Blocks /\ mb[Meta].used
         /\ mb[Meta].title \in Titles \cup {Blank} /\ FirstOf(hearer.ref) \in Nat \ {0}
  <1>1. PICK k \in 1..Len(title_queue) : title_queue[k] = hearer.ref
    BY DEF MetaUsed
  <1>2. title_queue[k] \in QueueBlocks
    BY DEF TitlesTyped
  <1>3. hearer.ref.id \in Nat \ {0} /\ Meta \in Blocks
    BY <1>1, <1>2 DEF QueueBlocks, Meta
  <1>4. mb[Meta].used
    BY <1>1 DEF MetaUsed, Meta
  <1>5. mb[Meta] \in MetaRecords
    BY <1>3 DEF TitlesTyped
  <1>6. mb[Meta].title \in Titles \cup {Blank}
    BY <1>5 DEF MetaRecords
  <1> QED  BY <1>1, <1>2, <1>3, <1>4, <1>6, FirstOfNat

IceByte(o) ==
  IF o < MetaLen THEN [p |-> mb[Meta].title, i |-> o + 1, n |-> InsertLen, num |-> 0]
  ELSE [p |-> "block", i |-> o + 1 - MetaLen, n |-> BlockLen + 2,
        num |-> IF o - MetaLen < 2 THEN 0 ELSE FirstOf(hearer.ref) + (o - MetaLen - 2)]

LEMMA IceStep ==
  ASSUME TitlesTyped, MetaUsed, On, hearer.kind = "iceblocks", NEW o \in Nat,
         o < MetaLen + 2 + BlockLen, NEW e \in Ears, e.next # 0, IceAt(e, o)
  PROVE  LET h == Hears(e, IceByte(o)) IN h \in Ears /\ h.next # 0 /\ IceAt(h, o + 1)
  <1>1. PICK b : b = IceByte(o)
    OBVIOUS
  <1>2. PICK h : h = Hears(e, b)
    OBVIOUS
  <1>3. e.ok /\ e.next \in Nat /\ e.since \in Nat /\ e.i \in Nat /\ e.n \in Nat
    BY DEF IceAt, Ears
  <1>4. PICK len \in Nat : len = BlockLen
    BY TitlesAssumption
  <1>5. PICK t \in Titles \cup {Blank} : t = mb[Meta].title
    BY OnBlock
  <1>6. PICK F \in Nat \ {0} : F = FirstOf(hearer.ref)
    BY OnBlock
  <1>7. PICK M \in Nat : M = MetaLen /\ (M > 0 => M = InsertLen)
    BY TitlesAssumption DEF MetaLen
  <1>8. t \notin {"audio", "block", Same} /\ t \in Titles \cup {Blank, Same}
    BY TitlesAssumption
  <1>9. CASE o < M
    <2>1. b = [p |-> t, i |-> o + 1, n |-> M, num |-> 0]
      BY <1>1, <1>5, <1>7, <1>9 DEF IceByte
    <2>2. b \in Bytes /\ b.p = t /\ b.i = o + 1 /\ b.n = M /\ b.num = 0
      BY <1>8, <2>1 DEF Bytes
    <2>3. Amid(e, t, o, M) /\ e.next = F
      BY <1>5, <1>6, <1>7, <1>9 DEF IceAt
    <2>4. h \in Ears /\ h.p = t /\ h.i = o + 1 /\ h.n = M /\ h.next = F
      BY <1>2, <2>2, <2>3, HearsFields
    <2>5. IF e.i = e.n THEN b.i = 1 ELSE b.p = e.p /\ b.i = e.i + 1 /\ b.n = e.n
      <3>1. CASE o = 0
        BY <2>2, <2>3, <3>1 DEF Amid
      <3>2. CASE o # 0
        <4>1. e.p = t /\ e.i = o /\ e.n = M /\ e.i # e.n
          BY <1>9, <2>3, <3>2 DEF Amid
        <4> QED  BY <2>2, <4>1
      <3> QED  BY <3>1, <3>2
    <2>6. h.ok
      BY <1>2, <1>3, <1>8, <2>2, <2>5, HearsFields
    <2>7. h.heard = IF o + 1 = M THEN t ELSE e.heard
      <3>1. h.heard = IF b.p \notin {"audio", "block", Same} /\ b.i = b.n THEN b.p ELSE e.heard
        BY <1>2, <2>2, HearsFields
      <3> QED  BY <1>8, <2>2, <3>1
    <2>8. CASE o + 1 < M
      <3>1. Amid(h, t, o + 1, M) /\ ~(o + 1 >= M)
        BY <2>4, <2>8 DEF Amid
      <3>2. IceAt(h, o + 1)
        BY <1>5, <1>6, <1>7, <1>9, <2>4, <2>6, <2>8, <3>1 DEF IceAt
      <3> QED  BY <1>1, <1>2, <2>4, <3>2
    <2>9. CASE ~(o + 1 < M)
      <3>1. o + 1 = M /\ (o + 1) - M = 0 /\ o + 1 < M + 2
        BY <1>9, <2>9
      <3>2. h.i = h.n /\ h.heard = t
        BY <2>4, <2>7, <3>1
      <3>3. Amid(h, "block", (o + 1) - M, BlockLen + 2)
        BY <3>1, <3>2 DEF Amid
      <3>4. h.next = F + (IF o + 1 < M + 2 THEN 0 ELSE (o + 1) - M - 2)
        BY <2>4, <3>1
      <3>5. IceAt(h, o + 1)
        BY <1>5, <1>6, <1>7, <2>6, <2>9, <3>2, <3>3, <3>4 DEF IceAt, KnownTitle
      <3> QED  BY <1>1, <1>2, <2>4, <3>5
    <2> QED  BY <2>8, <2>9
  <1>10. CASE ~(o < M)
    <2>1. PICK i \in Nat : i = o - M
      BY <1>10
    <2>2. PICK num \in Nat : num = IF i < 2 THEN 0 ELSE F + (i - 2)
      <3>1. CASE i < 2
        BY <3>1
      <3>2. CASE ~(i < 2)
        <4>1. F + (i - 2) \in Nat
          BY <3>2
        <4> QED  BY <3>2, <4>1
      <3> QED  BY <3>1, <3>2
    <2>3. b = [p |-> "block", i |-> i + 1, n |-> len + 2, num |-> num]
      <3>1. o + 1 - M = i + 1 /\ o - M = i /\ o - M - 2 = i - 2
        BY <2>1
      <3> QED  BY <1>1, <1>4, <1>6, <1>7, <1>10, <2>2, <3>1 DEF IceByte
    <2>4. b \in Bytes /\ b.p = "block" /\ b.i = i + 1 /\ b.n = len + 2 /\ b.num = num
      BY <2>2, <2>3 DEF Bytes
    <2>5. /\ Amid(e, "block", i, len + 2) /\ KnownTitle(e.heard, t)
          /\ e.next = F + (IF i < 2 THEN 0 ELSE i - 2)
      <3>1. e.next = F + (IF o < M + 2 THEN 0 ELSE o - M - 2)
        BY <1>6, <1>7, <1>10 DEF IceAt
      <3>2. Amid(e, "block", i, len + 2) /\ KnownTitle(e.heard, t)
        BY <1>4, <1>5, <1>7, <1>10, <2>1 DEF IceAt
      <3> QED  BY <2>1, <3>1, <3>2
    <2>6. h \in Ears /\ h.p = "block" /\ h.i = i + 1 /\ h.n = len + 2
          /\ h.next = IF num = 0 THEN e.next ELSE num + 1
      BY <1>2, <2>4, HearsFields
    <2>7. KnownTitle(h.heard, t)
      <3>1. h.heard = IF b.p \notin {"audio", "block", Same} /\ b.i = b.n THEN b.p ELSE e.heard
        BY <1>2, <2>4, HearsFields
      <3> QED  BY <2>4, <2>5, <3>1
    <2>8. IF e.i = e.n THEN b.i = 1 ELSE b.p = e.p /\ b.i = e.i + 1 /\ b.n = e.n
      <3>1. CASE i = 0
        BY <2>4, <2>5, <3>1 DEF Amid
      <3>2. CASE i # 0
        <4>1. i < len + 2
          BY <1>4, <1>7, <2>1
        <4>2. e.p = "block" /\ e.i = i /\ e.n = len + 2 /\ e.i # e.n
          BY <2>5, <3>2, <4>1 DEF Amid
        <4> QED  BY <2>4, <4>2
      <3> QED  BY <3>1, <3>2
    <2>9. b.num \in {0, e.next}
      BY <2>2, <2>4, <2>5
    <2>10. h.ok
      BY <1>2, <1>3, <2>4, <2>8, <2>9, HearsFields
    <2>11. h.next = F + (IF i + 1 < 2 THEN 0 ELSE (i + 1) - 2) /\ h.next # 0
      BY <2>2, <2>5, <2>6
    <2>12. Amid(h, "block", (o + 1) - M, len + 2)
      <3>1. (o + 1) - M = i + 1
        BY <2>1
      <3> QED  BY <2>1, <2>6, <3>1 DEF Amid
    <2>13. h.next = F + (IF o + 1 < M + 2 THEN 0 ELSE (o + 1) - M - 2) /\ ~(o + 1 < M)
      BY <1>10, <2>1, <2>11
    <2>14. IceAt(h, o + 1)
      BY <1>4, <1>5, <1>6, <1>7, <2>7, <2>10, <2>12, <2>13 DEF IceAt
    <2> QED  BY <1>1, <1>2, <2>6, <2>11, <2>14
  <1> QED  BY <1>7, <1>9, <1>10

LEMMA IceRun ==
  ASSUME TitlesTyped, MetaUsed, On, hearer.kind = "iceblocks", NEW o \in Nat, NEW m \in Nat,
         o + m <= MetaLen + 2 + BlockLen, ear.next # 0, IceAt(ear, o),
         NEW bytes, \A k \in 1..m : bytes[k] = IceByte(o + k - 1), NEW ret \in 0..m
  PROVE  Heard(bytes, ret) \in Ears /\ Heard(bytes, ret).next # 0 /\ IceAt(Heard(bytes, ret), o + ret)
  <1>1. PICK S : S = [k \in 0..m |-> {e \in Ears : e.next # 0 /\ IceAt(e, o + k)}]
    OBVIOUS
  <1>2. ear \in S[0]
    <2>1. o + 0 = o /\ ear \in Ears
      BY DEF TitlesTyped
    <2> QED  BY <1>1, <2>1
  <1>3. ASSUME NEW k \in 0..(m - 1), NEW e \in S[k]  PROVE Hears(e, bytes[k + 1]) \in S[k + 1]
    <2>1. k \in 0..m /\ k + 1 \in 1..m /\ k + 1 \in 0..m /\ o + (k + 1) - 1 = o + k /\ o + k \in Nat
          /\ (o + k) + 1 = o + (k + 1)
      OBVIOUS
    <2>2. e \in Ears /\ e.next # 0 /\ IceAt(e, o + k)
      BY <1>1, <1>3, <2>1
    <2>3. bytes[k + 1] = IceByte(o + k)
      BY <2>1
    <2>4. PICK all \in Int : all = MetaLen + 2 + BlockLen
      BY TitlesAssumption DEF MetaLen
    <2>5. o + k < MetaLen + 2 + BlockLen
      BY <1>3, <2>4
    <2>6. PICK h : h = Hears(e, bytes[k + 1])
      OBVIOUS
    <2>7. h \in Ears /\ h.next # 0 /\ IceAt(h, (o + k) + 1)
      BY <2>1, <2>2, <2>3, <2>5, <2>6, IceStep
    <2> QED  BY <1>1, <2>1, <2>6, <2>7
  <1>4. Heard(bytes, ret) \in S[ret]
    BY <1>2, <1>3, HeardRun
  <1> QED  BY <1>1, <1>4

LEMMA QueuedAre ==
  ASSUME TitlesTyped, NEW k \in 1..Len(title_queue)
  PROVE  title_queue[k] \in QueueBlocks /\ title_queue[k].meta \in Blocks
  <1>1. title_queue[k] \in QueueBlocks
    BY DEF TitlesTyped
  <1> QED  BY <1>1 DEF QueueBlocks

(* The places in q of the blocks that count b.                             *)
PlacesOf(q, b) == {k \in 1..Len(q) : q[k].meta = b}

LEMMA PlacesFinite ==
  ASSUME NEW q \in Seq(QueueBlocks), NEW b
  PROVE  IsFiniteSet(PlacesOf(q, b)) /\ Cardinality(PlacesOf(q, b)) \in Nat
         /\ PlacesOf(q, b) \subseteq 1..Len(q) /\ Cardinality(PlacesOf(q, b)) <= Len(q)
  <1>1. PICK n \in Nat : n = Len(q)
    OBVIOUS
  <1>2. IsFiniteSet(1..n) /\ Cardinality(1..n) = n
    <2>1. IsFiniteSet(1..n) /\ Cardinality(1..n) = IF 1 > n THEN 0 ELSE n - 1 + 1
      BY FS_Interval
    <2> QED  BY <1>1, <2>1
  <1>3. PlacesOf(q, b) \subseteq 1..n
    BY <1>1 DEF PlacesOf
  <1> QED  BY <1>1, <1>2, <1>3, FS_Subset, FS_CardinalityType

LEMMA PlacesAppend ==
  ASSUME NEW q \in Seq(QueueBlocks), NEW x \in QueueBlocks, NEW b
  PROVE  Cardinality(PlacesOf(Append(q, x), b))
           = Cardinality(PlacesOf(q, b)) + (IF x.meta = b THEN 1 ELSE 0)
  <1>1. PICK n \in Nat : n = Len(q)
    OBVIOUS
  <1>2. PICK r : r = Append(q, x)
    OBVIOUS
  <1>3. Len(r) = n + 1 /\ r[n + 1] = x /\ \A k \in 1..n : r[k] = q[k]
    BY <1>1, <1>2
  <1>4. 1..(n + 1) = 1..n \cup {n + 1} /\ n + 1 \notin 1..n
    BY <1>1
  <1>5. CASE x.meta = b
    <2>1. PlacesOf(r, b) = PlacesOf(q, b) \cup {n + 1}
      BY <1>1, <1>3, <1>4, <1>5 DEF PlacesOf
    <2>2. n + 1 \notin PlacesOf(q, b)
      BY <1>1, <1>4 DEF PlacesOf
    <2>3. Cardinality(PlacesOf(r, b)) = Cardinality(PlacesOf(q, b)) + 1
      BY <2>1, <2>2, PlacesFinite, FS_AddElement
    <2> QED  BY <1>2, <1>5, <2>3
  <1>6. CASE x.meta # b
    <2>1. PlacesOf(r, b) = PlacesOf(q, b)
      BY <1>1, <1>3, <1>4, <1>6 DEF PlacesOf
    <2> QED  BY <1>2, <1>6, <2>1, PlacesFinite
  <1> QED  BY <1>5, <1>6

LEMMA PlacesTail ==
  ASSUME NEW q \in Seq(QueueBlocks), Len(q) > 0, NEW b
  PROVE  Cardinality(PlacesOf(q, b))
           = Cardinality(PlacesOf(Tail(q), b)) + (IF Head(q).meta = b THEN 1 ELSE 0)
  <1>1. PICK n \in Nat : Len(q) = n + 1
    <2>1. Len(q) \in Nat /\ Len(q) - 1 \in Nat /\ Len(q) = (Len(q) - 1) + 1
      OBVIOUS
    <2> QED  BY <2>1
  <1>2. PICK r : r = Tail(q)
    OBVIOUS
  <1>3. r \in Seq(QueueBlocks) /\ Len(r) = n /\ \A k \in 1..n : r[k] = q[k + 1]
    BY <1>1, <1>2
  <1>4. PICK P : P = {k \in 2..(n + 1) : q[k].meta = b}
    OBVIOUS
  <1>5. PICK f : f = [k \in PlacesOf(r, b) |-> k + 1]
    OBVIOUS
  <1>6. f \in Bijection(PlacesOf(r, b), P)
    <2>1. \A k \in PlacesOf(r, b) : k \in 1..n /\ f[k] = k + 1 /\ k + 1 \in P
      BY <1>3, <1>4, <1>5 DEF PlacesOf
    <2>2. f \in [PlacesOf(r, b) -> P]
      BY <1>5, <2>1
    <2>3. IsInjective(f)
      BY <1>5, <2>1 DEF IsInjective
    <2>4. ASSUME NEW k \in P  PROVE \E j \in PlacesOf(r, b) : f[j] = k
      <3>1. k - 1 \in 1..n /\ (k - 1) + 1 = k
        BY <1>4, <2>4
      <3>2. k - 1 \in PlacesOf(r, b)
        BY <1>3, <1>4, <2>4, <3>1 DEF PlacesOf
      <3> QED  BY <2>1, <3>1, <3>2
    <2> QED  BY <2>2, <2>3, <2>4 DEF Bijection, Injection, Surjection
  <1>7. IsFiniteSet(P) /\ Cardinality(P) = Cardinality(PlacesOf(r, b)) /\ Cardinality(P) \in Nat
    BY <1>3, <1>6, PlacesFinite, FS_Bijection DEF ExistsBijection
  <1>8. 1..(n + 1) = 2..(n + 1) \cup {1} /\ 1 \notin 2..(n + 1)
    BY <1>1
  <1>9. Head(q) = q[1]
    BY <1>1
  <1>10. CASE Head(q).meta = b
    <2>1. PlacesOf(q, b) = P \cup {1} /\ 1 \notin P
      BY <1>1, <1>4, <1>8, <1>9, <1>10 DEF PlacesOf
    <2>2. Cardinality(PlacesOf(q, b)) = Cardinality(P) + 1
      BY <1>7, <2>1, FS_AddElement
    <2> QED  BY <1>2, <1>7, <1>10, <2>2
  <1>11. CASE Head(q).meta # b
    <2>1. PlacesOf(q, b) = P
      BY <1>1, <1>4, <1>8, <1>9, <1>11 DEF PlacesOf
    <2> QED  BY <1>2, <1>7, <1>11, <2>1
  <1> QED  BY <1>10, <1>11

LEMMA CountedIs ==
  MetaCounted <=> \A b \in Blocks : mb[b].count = Cardinality(PlacesOf(title_queue, b))
                                                 + (IF current = b THEN 1 ELSE 0)
  BY DEF MetaCounted, PlacesOf

(* Steps of the source leave the listener alone, and the title of the      *)
(* block it is on.                                                         *)
LEMMA TitleSourceStep ==
  ASSUME TitlesInv, hearer' = hearer, ear' = ear, TitlesTyped', MetaCounted', MetaUsed',
         On => mb'[Meta].title = mb[Meta].title
  PROVE  TitlesInv'
  <1>1. On' = On /\ Meta' = Meta /\ OnSame' = OnSame /\ MetaLen' = MetaLen
    BY DEF On, Meta, OnSame, MetaLen
  <1>2. FirstOf(hearer.ref)' = FirstOf(hearer.ref)
    BY DEF FirstOf
  <1>3. hearer.kind = "icy" => IcyRight'
    <2> SUFFICES ASSUME hearer.kind = "icy" PROVE IcyRight'
      OBVIOUS
    <2>1. IcyRight
      BY DEF TitlesInv
    <2>2. hearer.in_meta => Amid(ear', mb'[Meta].title, hearer.offset, InsertLen)
      BY <2>1 DEF IcyRight
    <2> QED  BY <1>1, <1>2, <2>1, <2>2 DEF IcyRight
  <1>4. hearer.kind = "iceblocks" => IceRight'
    <2> SUFFICES ASSUME hearer.kind = "iceblocks" PROVE IceRight'
      OBVIOUS
    <2>1. IceRight
      BY DEF TitlesInv
    <2>2. On /\ hearer.offset > 0 => IceAt(ear, hearer.offset)'
      BY <1>1, <1>2, <2>1 DEF IceRight, IceAt
    <2> QED  BY <1>1, <1>2, <2>1, <2>2 DEF IceRight
  <1> QED  BY <1>3, <1>4 DEF TitlesInv

LEMMA TagStep ==
  ASSUME TitlesInv, NEW t \in Titles, SetTag(t)
  PROVE  TitlesInv'
  <1>1. /\ url_title' = [title |-> t, update |-> TRUE]
        /\ UNCHANGED <<mb, current, title_queue, read, hearer, ear>>
    BY DEF SetTag
  <1>2. TitlesTyped'
    BY <1>1 DEF TitlesInv, TitlesTyped
  <1>3. MetaCounted'
    BY <1>1 DEF TitlesInv, MetaCounted
  <1>4. MetaUsed'
    BY <1>1 DEF TitlesInv, MetaUsed, On
  <1> QED  BY <1>1, <1>2, <1>3, <1>4, TitleSourceStep

LEMMA MetadataStep ==
  ASSUME TitlesInv, MetadataSetup
  PROVE  TitlesInv'
  <1>1. PICK b \in Unused(Released(mb, current)) :
          /\ mb' = [Released(mb, current) EXCEPT
                      ![b] = [count |-> 1, on_queue |-> FALSE, title |-> url_title.title, used |-> TRUE]]
          /\ current' = b
    BY DEF MetadataSetup
  <1>2. /\ url_title' = [url_title EXCEPT !.update = FALSE]
        /\ UNCHANGED <<title_queue, read, tags, hearer, ear>>
    BY DEF MetadataSetup
  <1>3. PICK m \in MetaRecords : m = mb[current]
    BY DEF TitlesInv, TitlesTyped
  <1>4. PICK x : x = [m EXCEPT !.count = m.count - 1]
    OBVIOUS
  <1>5. x \in MetaRecords /\ x.count = m.count - 1 /\ x.title = m.title
    BY <1>3, <1>4 DEF MetaRecords
  <1>6. x.used = m.used
    BY <1>3, <1>4 DEF MetaRecords
  <1>7. Released(mb, current) = [mb EXCEPT ![current] = x]
    BY <1>3, <1>4 DEF Released
  <1>8. mb \in [Blocks -> MetaRecords] /\ current \in Blocks
    BY DEF TitlesInv, TitlesTyped
  <1>9. b \in Blocks /\ Released(mb, current)[b].count = 0 /\ (Released(mb, current)[b].used => Recycled)
    BY <1>1 DEF Unused
  <1>10. /\ mb[b].used => Recycled
         /\ \A k \in 1..Len(title_queue) : title_queue[k].meta # b
    <2>1. PICK n \in Nat : n = Cardinality(PlacesOf(title_queue, b)) /\ IsFiniteSet(PlacesOf(title_queue, b))
      BY PlacesFinite DEF TitlesInv, TitlesTyped
    <2>2. mb[b].count = n + (IF current = b THEN 1 ELSE 0)
      BY <1>9, <2>1, CountedIs DEF TitlesInv
    <2>3. n = 0
      <3>1. CASE b = current
        <4>1. x.count = 0
          BY <1>7, <1>8, <1>9, <3>1
        <4> QED  BY <1>3, <1>5, <2>2, <3>1, <4>1
      <3>2. CASE b # current
        <4>1. mb[b].count = 0
          BY <1>7, <1>8, <1>9, <3>2
        <4> QED  BY <2>2, <3>2, <4>1
      <3> QED  BY <3>1, <3>2
    <2>4. PlacesOf(title_queue, b) = {}
      BY <2>1, <2>3, FS_EmptySet
    <2>5. mb[b].used => Recycled
      <3>1. Released(mb, current)[b].used = mb[b].used
        BY <1>3, <1>6, <1>7, <1>8, <1>9
      <3> QED  BY <1>9, <3>1
    <2> QED  BY <2>4, <2>5 DEF PlacesOf
  <1>11. PICK y : y = [count |-> 1, on_queue |-> FALSE, title |-> url_title.title, used |-> TRUE]
    OBVIOUS
  <1>12. y \in MetaRecords /\ y.count = 1 /\ y.used
    <2>1. url_title.title \in Titles \cup {Blank}
      BY DEF TitlesInv, TitlesTyped
    <2> QED  BY <1>11, <2>1 DEF MetaRecords
  <1>13. mb' = [[mb EXCEPT ![current] = x] EXCEPT ![b] = y]
    BY <1>1, <1>7, <1>11
  <1>14. /\ mb' \in [Blocks -> MetaRecords]
         /\ \A c \in Blocks : mb'[c] = IF c = b THEN y ELSE IF c = current THEN x ELSE mb[c]
    BY <1>5, <1>8, <1>9, <1>12, <1>13
  <1>15. TitlesTyped'
    <2>1. url_title' \in [title : Titles \cup {Blank}, update : BOOLEAN]
      BY <1>2 DEF TitlesInv, TitlesTyped
    <2> QED  BY <1>1, <1>2, <1>9, <1>14, <2>1 DEF TitlesInv, TitlesTyped
  <1>16. ASSUME NEW c \in Blocks
         PROVE  (mb[c].used => mb'[c].used) /\ (c # b => mb'[c].title = mb[c].title)
    <2>1. CASE c = b
      BY <1>12, <1>14, <2>1
    <2>2. CASE c # b
      BY <1>3, <1>5, <1>6, <1>14, <2>2
    <2> QED  BY <2>1, <2>2
  <1>17. \A k \in 1..Len(title_queue) : title_queue[k].meta \in Blocks
    BY QueuedAre DEF TitlesInv
  <1>18. MetaUsed'
    <2>1. mb'[b].used
      BY <1>9, <1>12, <1>14
    <2>2. hearer.associated # NoMeta =>
            mb'[hearer.associated].used /\ KnownTitle(mb'[hearer.associated].title, hearer.due)
      <3> SUFFICES ASSUME hearer.associated # NoMeta
                   PROVE  /\ mb'[hearer.associated].used
                          /\ KnownTitle(mb'[hearer.associated].title, hearer.due)
        OBVIOUS
      <3>1. hearer.associated \in Blocks
        BY DEF TitlesInv, TitlesTyped, Hearers
      <3>2. mb[hearer.associated].used /\ KnownTitle(mb[hearer.associated].title, hearer.due)
        BY DEF TitlesInv, MetaUsed
      <3>3. CASE hearer.associated = b
        <4>1. Recycled
          BY <1>10, <3>2, <3>3
        <4> QED  BY <1>16, <3>1, <3>2, <4>1 DEF KnownTitle
      <3>4. CASE hearer.associated # b
        BY <1>16, <3>1, <3>2, <3>4
      <3> QED  BY <3>3, <3>4
    <2> QED  BY <1>1, <1>2, <1>16, <1>17, <2>1, <2>2 DEF TitlesInv, MetaUsed, On
  <1>19. MetaCounted'
    <2>1. ASSUME NEW c \in Blocks
          PROVE  mb'[c].count = Cardinality(PlacesOf(title_queue, c)) + (IF b = c THEN 1 ELSE 0)
      <3>1. PICK n \in Nat : n = Cardinality(PlacesOf(title_queue, c))
        BY PlacesFinite DEF TitlesInv, TitlesTyped
      <3>2. mb[c].count = n + (IF current = c THEN 1 ELSE 0)
        BY <3>1, CountedIs DEF TitlesInv
      <3>3. CASE c = b
        <4>1. PlacesOf(title_queue, c) = {}
          BY <1>10, <3>3 DEF PlacesOf
        <4>2. n = 0
          BY <3>1, <4>1, FS_EmptySet
        <4> QED  BY <1>12, <1>14, <3>1, <3>3, <4>2
      <3>4. CASE c # b /\ c = current
        BY <1>3, <1>5, <1>14, <3>1, <3>2, <3>4
      <3>5. CASE c # b /\ c # current
        BY <1>14, <3>1, <3>2, <3>5
      <3> QED  BY <3>3, <3>4, <3>5
    <2>2. \A c \in Blocks :
            mb'[c].count = Cardinality(PlacesOf(title_queue', c)) + (IF current' = c THEN 1 ELSE 0)
      BY <1>1, <1>2, <2>1
    <2> QED  BY <2>2 DEF MetaCounted, PlacesOf
  <1>20. On => mb'[Meta].title = mb[Meta].title
    <2> SUFFICES ASSUME On PROVE mb'[Meta].title = mb[Meta].title
      OBVIOUS
    <2>1. PICK k \in 1..Len(title_queue) : title_queue[k] = hearer.ref
      BY DEF TitlesInv, MetaUsed
    <2>2. Meta # b
      BY <1>10, <2>1 DEF Meta
    <2>3. Meta \in Blocks
      BY OnBlock DEF TitlesInv
    <2> QED  BY <1>16, <2>2, <2>3
  <1> QED  BY <1>2, <1>15, <1>18, <1>19, <1>20, TitleSourceStep

LEMMA PushStep ==
  ASSUME TitlesInv, Push
  PROVE  TitlesInv'
  <1>1. /\ Len(title_queue) < MaxQueue /\ read' = read + 1
        /\ title_queue' = Append(title_queue, [id |-> read + 1, meta |-> current])
        /\ mb' = [Counted(mb, current) EXCEPT ![current].on_queue = TRUE]
        /\ UNCHANGED <<current, url_title, tags, hearer, ear>>
    BY DEF Push
  <1>2. PICK m \in MetaRecords : m = mb[current]
    BY DEF TitlesInv, TitlesTyped
  <1>3. PICK x : x = [[m EXCEPT !.count = m.count + 1] EXCEPT !.on_queue = TRUE]
    OBVIOUS
  <1>4. x = [count |-> m.count + 1, on_queue |-> TRUE, title |-> m.title, used |-> m.used]
    BY <1>3 DEF MetaRecords
  <1>5. x \in MetaRecords /\ x.count = m.count + 1 /\ x.title = m.title
    BY <1>2, <1>4 DEF MetaRecords
  <1>6. x.used = m.used
    BY <1>4
  <1>7. mb \in [Blocks -> MetaRecords] /\ current \in Blocks /\ title_queue \in Seq(QueueBlocks)
        /\ read \in Nat
    BY DEF TitlesInv, TitlesTyped
  <1>8. mb' = [mb EXCEPT ![current] = x]
    BY <1>1, <1>2, <1>3, <1>7 DEF Counted
  <1>9. /\ mb' \in [Blocks -> MetaRecords]
        /\ \A c \in Blocks : mb'[c] = IF c = current THEN x ELSE mb[c]
    BY <1>5, <1>7, <1>8
  <1>10. \A c \in Blocks : mb'[c].title = mb[c].title
    BY <1>2, <1>5, <1>9
  <1>11. \A c \in Blocks : mb'[c].used = mb[c].used
    BY <1>2, <1>6, <1>9
  <1>12. PICK q \in QueueBlocks : q = [id |-> read + 1, meta |-> current]
    <2>1. read + 1 \in Nat \ {0}
      BY <1>7
    <2> QED  BY <1>7, <2>1 DEF QueueBlocks
  <1>13. PICK n \in Nat : n = Len(title_queue)
    BY <1>7
  <1>14. /\ title_queue' \in Seq(QueueBlocks) /\ Len(title_queue') = n + 1
         /\ title_queue'[n + 1] = q /\ \A k \in 1..n : title_queue'[k] = title_queue[k]
    BY <1>1, <1>7, <1>12, <1>13
  <1>15. TitlesTyped'
    <2>1. n + 1 <= MaxQueue /\ read + 1 \in Nat
      BY <1>1, <1>7, <1>13, TitlesAssumption
    <2> QED  BY <1>1, <1>9, <1>14, <2>1 DEF TitlesInv, TitlesTyped
  <1>16. MetaUsed'
    <2>1. mb'[current].used
      BY <1>7, <1>11 DEF TitlesInv, MetaUsed
    <2>2. ASSUME NEW k \in 1..Len(title_queue')  PROVE mb'[title_queue'[k].meta].used
      <3>1. CASE k = n + 1
        BY <1>12, <1>14, <2>1, <3>1
      <3>2. CASE k # n + 1
        <4>1. k \in 1..n /\ title_queue'[k] = title_queue[k]
          BY <1>13, <1>14, <3>2
        <4>2. title_queue[k].meta \in Blocks /\ mb[title_queue[k].meta].used
          BY <1>13, <4>1, QueuedAre DEF TitlesInv, MetaUsed
        <4> QED  BY <1>11, <4>1, <4>2
      <3> QED  BY <3>1, <3>2
    <2>3. On' => \E k \in 1..Len(title_queue') : title_queue'[k] = hearer'.ref
      <3> SUFFICES ASSUME On' PROVE \E k \in 1..Len(title_queue') : title_queue'[k] = hearer'.ref
        OBVIOUS
      <3>1. PICK k \in 1..n : title_queue[k] = hearer.ref
        BY <1>1, <1>13 DEF TitlesInv, MetaUsed, On
      <3>2. k \in 1..Len(title_queue')
        BY <1>13, <1>14
      <3> QED  BY <1>1, <1>14, <3>1, <3>2
    <2>4. hearer'.associated # NoMeta =>
            mb'[hearer'.associated].used /\ KnownTitle(mb'[hearer'.associated].title, hearer'.due)
      <3>1. hearer.associated # NoMeta => hearer.associated \in Blocks
        BY DEF TitlesInv, TitlesTyped, Hearers
      <3> QED  BY <1>1, <1>10, <1>11, <3>1 DEF TitlesInv, MetaUsed
    <2> QED  BY <1>1, <2>1, <2>2, <2>3, <2>4 DEF MetaUsed
  <1>17. MetaCounted'
    <2>1. ASSUME NEW c \in Blocks
          PROVE  mb'[c].count = Cardinality(PlacesOf(title_queue', c)) + (IF current = c THEN 1 ELSE 0)
      <3>1. PICK p \in Nat : p = Cardinality(PlacesOf(title_queue, c))
        BY <1>7, PlacesFinite
      <3>2. mb[c].count = p + (IF current = c THEN 1 ELSE 0)
        BY <3>1, CountedIs DEF TitlesInv
      <3>3. Cardinality(PlacesOf(title_queue', c)) = p + (IF current = c THEN 1 ELSE 0)
        BY <1>1, <1>7, <1>12, <3>1, PlacesAppend
      <3>4. CASE c = current
        BY <1>2, <1>5, <1>9, <3>2, <3>3, <3>4
      <3>5. CASE c # current
        BY <1>9, <3>2, <3>3, <3>5
      <3> QED  BY <3>4, <3>5
    <2>2. \A c \in Blocks :
            mb'[c].count = Cardinality(PlacesOf(title_queue', c)) + (IF current' = c THEN 1 ELSE 0)
      BY <1>1, <2>1
    <2> QED  BY <2>2 DEF MetaCounted, PlacesOf
  <1>18. On => mb'[Meta].title = mb[Meta].title
    BY <1>10, OnBlock DEF TitlesInv
  <1> QED  BY <1>1, <1>15, <1>16, <1>17, <1>18, TitleSourceStep

LEMMA DetachStep ==
  ASSUME TitlesInv, DetachQueueBlock
  PROVE  TitlesInv'
  <1>1. /\ Len(title_queue) > 1 /\ hearer.ref # Head(title_queue)
        /\ title_queue' = Tail(title_queue) /\ mb' = Released(mb, Head(title_queue).meta)
        /\ UNCHANGED <<current, url_title, read, tags, hearer, ear>>
    BY DEF DetachQueueBlock
  <1>2. mb \in [Blocks -> MetaRecords] /\ current \in Blocks /\ title_queue \in Seq(QueueBlocks)
    BY DEF TitlesInv, TitlesTyped
  <1>3. PICK h \in Blocks : h = Head(title_queue).meta
    <2>1. 1 \in 1..Len(title_queue) /\ Head(title_queue) = title_queue[1]
      BY <1>1, <1>2
    <2> QED  BY <2>1, QueuedAre DEF TitlesInv
  <1>4. PICK m \in MetaRecords : m = mb[h]
    BY <1>2
  <1>5. PICK x : x = [m EXCEPT !.count = m.count - 1]
    OBVIOUS
  <1>6. x \in MetaRecords /\ x.count = m.count - 1 /\ x.title = m.title
    BY <1>4, <1>5 DEF MetaRecords
  <1>7. x.used = m.used
    BY <1>4, <1>5 DEF MetaRecords
  <1>8. mb' = [mb EXCEPT ![h] = x]
    BY <1>1, <1>2, <1>3, <1>4, <1>5 DEF Released
  <1>9. /\ mb' \in [Blocks -> MetaRecords]
        /\ \A c \in Blocks : mb'[c] = IF c = h THEN x ELSE mb[c]
    BY <1>2, <1>6, <1>8
  <1>10. \A c \in Blocks : mb'[c].title = mb[c].title
    BY <1>4, <1>6, <1>9
  <1>11. \A c \in Blocks : mb'[c].used = mb[c].used
    BY <1>4, <1>7, <1>9
  <1>12. PICK n \in Nat : n = Len(title_queue) /\ n > 1
    BY <1>1, <1>2
  <1>13. /\ title_queue' \in Seq(QueueBlocks) /\ Len(title_queue') = n - 1
         /\ \A k \in 1..(n - 1) : title_queue'[k] = title_queue[k + 1]
    BY <1>1, <1>2, <1>12
  <1>14. TitlesTyped'
    <2>1. Len(title_queue) <= MaxQueue /\ MaxQueue \in Nat
      BY TitlesAssumption DEF TitlesInv, TitlesTyped
    <2>2. n - 1 <= MaxQueue
      BY <1>12, <2>1
    <2> QED  BY <1>1, <1>9, <1>13, <2>2 DEF TitlesInv, TitlesTyped
  <1>15. MetaUsed'
    <2>1. mb'[current].used
      BY <1>2, <1>11 DEF TitlesInv, MetaUsed
    <2>2. ASSUME NEW k \in 1..Len(title_queue')  PROVE mb'[title_queue'[k].meta].used
      <3>1. k + 1 \in 1..n /\ title_queue'[k] = title_queue[k + 1]
        BY <1>12, <1>13
      <3>2. title_queue[k + 1].meta \in Blocks /\ mb[title_queue[k + 1].meta].used
        BY <1>12, <3>1, QueuedAre DEF TitlesInv, MetaUsed
      <3> QED  BY <1>11, <3>1, <3>2
    <2>3. On' => \E k \in 1..Len(title_queue') : title_queue'[k] = hearer'.ref
      <3> SUFFICES ASSUME On' PROVE \E k \in 1..Len(title_queue') : title_queue'[k] = hearer'.ref
        OBVIOUS
      <3>1. PICK k \in 1..n : title_queue[k] = hearer.ref
        BY <1>1, <1>12 DEF TitlesInv, MetaUsed, On
      <3>2. k # 1
        BY <1>1, <1>2, <3>1
      <3>3. k - 1 \in 1..Len(title_queue') /\ k - 1 \in 1..(n - 1) /\ (k - 1) + 1 = k
        BY <1>12, <1>13, <3>2
      <3> QED  BY <1>1, <1>13, <3>1, <3>3
    <2>4. hearer'.associated # NoMeta =>
            mb'[hearer'.associated].used /\ KnownTitle(mb'[hearer'.associated].title, hearer'.due)
      <3>1. hearer.associated # NoMeta => hearer.associated \in Blocks
        BY DEF TitlesInv, TitlesTyped, Hearers
      <3> QED  BY <1>1, <1>10, <1>11, <3>1 DEF TitlesInv, MetaUsed
    <2> QED  BY <1>1, <2>1, <2>2, <2>3, <2>4 DEF MetaUsed
  <1>16. MetaCounted'
    <2>1. ASSUME NEW c \in Blocks
          PROVE  mb'[c].count = Cardinality(PlacesOf(title_queue', c)) + (IF current = c THEN 1 ELSE 0)
      <3>1. PICK p \in Nat : p = Cardinality(PlacesOf(title_queue', c))
        BY <1>13, PlacesFinite
      <3>2. Cardinality(PlacesOf(title_queue, c)) = p + (IF h = c THEN 1 ELSE 0)
        BY <1>1, <1>2, <1>3, <1>12, <3>1, PlacesTail
      <3>3. mb[c].count = p + (IF h = c THEN 1 ELSE 0) + (IF current = c THEN 1 ELSE 0)
        BY <3>2, CountedIs DEF TitlesInv
      <3>4. CASE c = h
        BY <1>4, <1>6, <1>9, <3>1, <3>3, <3>4
      <3>5. CASE c # h
        BY <1>9, <3>1, <3>3, <3>5
      <3> QED  BY <3>4, <3>5
    <2>2. \A c \in Blocks :
            mb'[c].count = Cardinality(PlacesOf(title_queue', c)) + (IF current' = c THEN 1 ELSE 0)
      BY <1>1, <2>1
    <2> QED  BY <2>2 DEF MetaCounted, PlacesOf
  <1>17. On => mb'[Meta].title = mb[Meta].title
    BY <1>10, OnBlock DEF TitlesInv
  <1> QED  BY <1>1, <1>14, <1>15, <1>16, <1>17, TitleSourceStep

(* Steps of the listener leave the source alone.                           *)
LEMMA HearerStep ==
  ASSUME TitlesInv, UNCHANGED <<mb, current, url_title, title_queue, read>>,
         hearer' \in Hearers, ear' \in Ears, ear'.next # 0,
         \E k \in 1..Len(title_queue) : title_queue[k] = hearer'.ref,
         \/ hearer'.associated = hearer.associated /\ hearer'.due = hearer.due
         \/ mb[hearer'.associated].used /\ KnownTitle(mb[hearer'.associated].title, hearer'.due),
         hearer'.kind = "icy" => IcyRight', hearer'.kind = "iceblocks" => IceRight'
  PROVE  TitlesInv'
  <1>1. TitlesTyped'
    BY DEF TitlesInv, TitlesTyped
  <1>2. MetaCounted'
    BY DEF TitlesInv, MetaCounted
  <1>3. MetaUsed'
    BY DEF TitlesInv, MetaUsed
  <1> QED  BY <1>1, <1>2, <1>3 DEF TitlesInv

LEMMA QueuedOn ==
  ASSUME TitlesTyped, NEW k \in 1..Len(title_queue)
  PROVE  /\ title_queue[k] # Nowhere /\ FirstOf(title_queue[k]) \in Nat \ {0}
         /\ title_queue[k] \in [id : Nat, meta : Blocks \cup {NoMeta}]
  <1>1. title_queue[k] \in QueueBlocks
    BY QueuedAre
  <1>2. title_queue[k].id \in Nat \ {0}
    BY <1>1 DEF QueueBlocks
  <1>3. title_queue[k] # Nowhere
    BY <1>2 DEF Nowhere
  <1>4. title_queue[k] \in [id : Nat, meta : Blocks \cup {NoMeta}]
    BY <1>1 DEF QueueBlocks
  <1> QED  BY <1>2, <1>3, <1>4, FirstOfNat

LEMMA MetaLenNat == MetaLen \in Nat /\ MetaLen' \in Nat /\ 0 < MetaLen' + 2
  BY TitlesAssumption DEF MetaLen

LEMMA StartStep ==
  ASSUME TitlesInv, Starts
  PROVE  TitlesInv'
  <1>1. PICK k \in 1..Len(title_queue) :
          /\ hearer' = [hearer EXCEPT !.ref = title_queue[k], !.queue_pos = FirstOf(title_queue[k]) - 1]
          /\ ear' = [ear EXCEPT !.next = FirstOf(title_queue[k])]
    BY DEF Starts
  <1>2. ~On /\ UNCHANGED <<mb, current, url_title, title_queue, read, tags>>
    BY DEF Starts
  <1>3. PICK q \in [id : Nat, meta : Blocks \cup {NoMeta}] : q = title_queue[k] /\ q # Nowhere
    BY QueuedOn DEF TitlesInv
  <1>4. PICK F \in Nat \ {0} : F = FirstOf(q)
    BY <1>3, QueuedOn DEF TitlesInv
  <1>5. PICK at \in Int : at = F - 1
    BY <1>4
  <1>6. PICK h \in Hearers : h = hearer
    BY DEF TitlesInv, TitlesTyped
  <1>7. PICK x : x = [h EXCEPT !.ref = q, !.queue_pos = at]
    OBVIOUS
  <1>8. /\ x \in Hearers /\ x.ref = q /\ x.queue_pos = at /\ x.kind = h.kind /\ x.pos = h.pos
        /\ x.since = h.since /\ x.offset = h.offset /\ x.associated = h.associated /\ x.due = h.due
    BY <1>6, <1>7 DEF Hearers
  <1>9. x.in_meta = h.in_meta
    BY <1>7 DEF Hearers
  <1>10. hearer' = x
    BY <1>1, <1>3, <1>4, <1>5, <1>6, <1>7
  <1>11. PICK e \in Ears : e = ear
    BY DEF TitlesInv, TitlesTyped
  <1>12. PICK y : y = [e EXCEPT !.next = F]
    OBVIOUS
  <1>13. y \in Ears /\ y.next = F /\ y.i = e.i /\ y.n = e.n /\ y.since = e.since /\ y.heard = e.heard
    BY <1>4, <1>11, <1>12 DEF Ears
  <1>14. y.ok = e.ok
    BY <1>12 DEF Ears
  <1>15. ear' = y
    BY <1>1, <1>3, <1>4, <1>11, <1>12
  <1>16. On' /\ FirstOf(hearer.ref)' = F
    BY <1>3, <1>4, <1>8, <1>10 DEF On, FirstOf
  <1>17. hearer'.kind = "icy" => IcyRight'
    <2> SUFFICES ASSUME hearer'.kind = "icy" PROVE IcyRight'
      OBVIOUS
    <2>1. IcyRight
      BY <1>6, <1>8, <1>10 DEF TitlesInv
    <2>2. h.pos = 0 /\ h.offset = 0 /\ e.i = e.n /\ e.since = h.since /\ KnownTitle(e.heard, h.due)
      BY <1>2, <1>6, <1>11, <2>1 DEF IcyRight
    <2>3. ~h.in_meta /\ e.ok
      BY <1>2, <1>6, <1>11, <2>1 DEF IcyRight
    <2>4. y.next = F + x.pos /\ x.queue_pos = y.next - 1
      BY <1>4, <1>5, <1>8, <1>13, <2>2
    <2> QED  BY <1>8, <1>9, <1>10, <1>13, <1>14, <1>15, <1>16, <2>2, <2>3, <2>4 DEF IcyRight
  <1>18. hearer'.kind = "iceblocks" => IceRight'
    <2> SUFFICES ASSUME hearer'.kind = "iceblocks" PROVE IceRight'
      OBVIOUS
    <2>1. IceRight
      BY <1>6, <1>8, <1>10 DEF TitlesInv
    <2>2. h.pos = 0 /\ h.offset = 0 /\ e.i = e.n /\ KnownTitle(e.heard, h.due)
      BY <1>2, <1>6, <1>11, <2>1 DEF IceRight
    <2>3. ~h.in_meta /\ e.ok
      BY <1>2, <1>6, <1>11, <2>1 DEF IceRight
    <2>4. y.next = F + x.pos /\ x.queue_pos < F + x.pos + 0
      BY <1>4, <1>5, <1>8, <1>13, <2>2
    <2>5. x.offset = 0 /\ 0 < MetaLen' + 2
      BY <1>8, <2>2, MetaLenNat
    <2>6. x.queue_pos < F + x.pos + (IF x.offset < MetaLen' + 2 THEN 0 ELSE x.offset - MetaLen' - 2)
      BY <2>4, <2>5
    <2>7. ~(x.offset > 0)
      BY <2>5
    <2> QED  BY <1>8, <1>9, <1>10, <1>13, <1>14, <1>15, <1>16, <2>2, <2>3, <2>4, <2>6, <2>7 DEF IceRight
  <1>19. \E j \in 1..Len(title_queue) : title_queue[j] = hearer'.ref
    BY <1>3, <1>8, <1>10
  <1> QED  BY <1>2, <1>4, <1>6, <1>8, <1>10, <1>13, <1>15, <1>17, <1>18, <1>19, HearerStep

LEMMA NextStep ==
  ASSUME TitlesInv, NextBlock
  PROVE  TitlesInv'
  <1>1. PICK k \in 1..Len(title_queue) :
          /\ title_queue[k].id = hearer.ref.id + 1
          /\ hearer' = [hearer EXCEPT !.ref = title_queue[k], !.pos = 0]
    BY DEF NextBlock
  <1>2. On /\ hearer.pos = BlockLen /\ UNCHANGED <<mb, current, url_title, title_queue, read, tags, ear>>
    BY DEF NextBlock
  <1>3. PICK q \in [id : Nat, meta : Blocks \cup {NoMeta}] : q = title_queue[k] /\ q # Nowhere
    BY QueuedOn DEF TitlesInv
  <1>4. PICK F \in Nat : F = FirstOf(hearer.ref) /\ hearer.ref.id \in Nat \ {0}
    BY <1>2, OnBlock DEF TitlesInv, QueueBlocks
  <1>5. PICK len \in Nat \ {0} : len = BlockLen
    BY TitlesAssumption
  <1>6. FirstOf(q) = F + len
    BY <1>1, <1>3, <1>4, <1>5, FirstOfNext
  <1>7. PICK h \in Hearers : h = hearer
    BY DEF TitlesInv, TitlesTyped
  <1>8. PICK x : x = [h EXCEPT !.ref = q, !.pos = 0]
    OBVIOUS
  <1>9. /\ x \in Hearers /\ x.ref = q /\ x.queue_pos = h.queue_pos /\ x.kind = h.kind /\ x.pos = 0
        /\ x.since = h.since /\ x.offset = h.offset /\ x.associated = h.associated /\ x.due = h.due
    <2>1. ASSUME NEW p \in 0..BlockLen
          PROVE  LET y == [h EXCEPT !.ref = q, !.pos = p] IN
                 /\ y \in Hearers /\ y.ref = q /\ y.queue_pos = h.queue_pos /\ y.kind = h.kind /\ y.pos = p
                 /\ y.since = h.since /\ y.offset = h.offset /\ y.associated = h.associated /\ y.due = h.due
      BY <1>7 DEF Hearers
    <2>2. 0 \in 0..BlockLen
      BY <1>5
    <2> QED  BY <1>8, <2>1, <2>2
  <1>10. x.in_meta = h.in_meta /\ h.queue_pos \in Int
    BY <1>7, <1>8 DEF Hearers
  <1>11. hearer' = x
    BY <1>1, <1>3, <1>7, <1>8
  <1>12. On' /\ FirstOf(hearer.ref)' = F + len
    BY <1>3, <1>6, <1>9, <1>11 DEF On, FirstOf
  <1>13. hearer'.kind = "icy" => IcyRight'
    <2> SUFFICES ASSUME hearer'.kind = "icy" PROVE IcyRight'
      OBVIOUS
    <2>1. IcyRight
      BY <1>7, <1>9, <1>11 DEF TitlesInv
    <2>2. ~h.in_meta
      <3>1. h.in_meta => len < len
        BY <1>2, <1>5, <1>7, <2>1 DEF IcyRight
      <3> QED  BY <1>5, <3>1
    <2>3. /\ h.offset = 0 /\ ear.i = ear.n /\ ear.since = h.since /\ KnownTitle(ear.heard, h.due)
          /\ ear.next = F + len /\ h.queue_pos = ear.next - 1
      BY <1>2, <1>4, <1>5, <1>7, <2>1, <2>2 DEF IcyRight
    <2>4. ear.ok
      BY <2>1 DEF IcyRight
    <2>5. ear.next = (F + len) + x.pos
      BY <1>4, <1>5, <1>9, <2>3
    <2> QED  BY <1>2, <1>9, <1>10, <1>11, <1>12, <2>2, <2>3, <2>4, <2>5 DEF IcyRight
  <1>14. hearer'.kind = "iceblocks" => IceRight'
    <2> SUFFICES ASSUME hearer'.kind = "iceblocks" PROVE IceRight'
      OBVIOUS
    <2>1. IceRight
      BY <1>7, <1>9, <1>11 DEF TitlesInv
    <2>2. h.offset = 0 /\ ear.i = ear.n /\ KnownTitle(ear.heard, h.due) /\ ear.next = F + len
      BY <1>2, <1>4, <1>5, <1>7, <2>1 DEF IceRight
    <2>3. ~h.in_meta /\ ear.ok
      BY <1>7, <2>1 DEF IceRight
    <2>4. h.queue_pos < F + len
      <3>1. h.queue_pos < F + len + (IF h.offset < MetaLen + 2 THEN 0 ELSE h.offset - MetaLen - 2)
        BY <1>2, <1>4, <1>5, <1>7, <2>1 DEF IceRight
      <3> QED  BY <1>4, <1>5, <1>10, <2>2, <3>1, MetaLenNat
    <2>5. x.offset = 0 /\ 0 < MetaLen' + 2
      <3>1. x.offset = 0
        BY <1>9, <2>2
      <3> QED  BY <3>1, MetaLenNat, Zenon
    <2>6. /\ x.queue_pos < (F + len) + x.pos + (IF x.offset < MetaLen' + 2 THEN 0 ELSE x.offset - MetaLen' - 2)
          /\ ear.next = (F + len) + x.pos
      BY <1>4, <1>5, <1>9, <1>10, <2>2, <2>4, <2>5
    <2>7. ~(x.offset > 0)
      BY <2>5
    <2> QED  BY <1>2, <1>9, <1>10, <1>11, <1>12, <2>2, <2>3, <2>5, <2>6, <2>7 DEF IceRight
  <1>15. \E j \in 1..Len(title_queue) : title_queue[j] = hearer'.ref
    BY <1>3, <1>9, <1>11
  <1>16. ear' \in Ears /\ ear'.next # 0
    BY <1>2 DEF TitlesInv, TitlesTyped
  <1> QED  BY <1>2, <1>7, <1>9, <1>11, <1>13, <1>14, <1>15, <1>16, HearerStep

LEMMA PacketSeq ==
  ASSUME NEW t \in Titles \cup {Blank, Same}, NEW n \in Nat
  PROVE  /\ Packet(t, n) \in Seq(Bytes) /\ Len(Packet(t, n)) = n
         /\ \A k \in 1..n : Packet(t, n)[k] = [p |-> t, i |-> k, n |-> n, num |-> 0]
  <1>1. PICK s : s = Packet(t, n)
    OBVIOUS
  <1>2. \A k \in 1..n : [p |-> t, i |-> k, n |-> n, num |-> 0] \in Bytes
    BY DEF Bytes
  <1>3. s \in [1..n -> Bytes] /\ \A k \in 1..n : s[k] = [p |-> t, i |-> k, n |-> n, num |-> 0]
    BY <1>1, <1>2 DEF Packet
  <1>4. s \in Seq(Bytes) /\ Len(s) = n
    BY <1>3
  <1> QED  BY <1>1, <1>3, <1>4

LEMMA StreamSeq ==
  ASSUME NEW b, NEW F \in Nat, F = FirstOf(b)
  PROVE  /\ Stream(b) \in Seq(Bytes) /\ Len(Stream(b)) = BlockLen
         /\ \A k \in 1..BlockLen : Stream(b)[k] = Audio(F + k - 1)
  <1>1. PICK s : s = Stream(b)
    OBVIOUS
  <1>2. \A k \in 1..BlockLen : Audio(F + k - 1) \in Bytes
    BY TitlesAssumption DEF Bytes, Audio
  <1>3. s \in [1..BlockLen -> Bytes] /\ \A k \in 1..BlockLen : s[k] = Audio(F + k - 1)
    BY <1>1, <1>2 DEF Stream
  <1>4. s \in Seq(Bytes) /\ Len(s) = BlockLen
    BY <1>3, TitlesAssumption
  <1> QED  BY <1>1, <1>3, <1>4

LEMMA IceblockSeq ==
  ASSUME NEW b, NEW F \in Nat, F = FirstOf(b)
  PROVE  /\ Iceblock(b) \in Seq(Bytes) /\ Len(Iceblock(b)) = BlockLen + 2
         /\ \A k \in 1..(BlockLen + 2) :
              Iceblock(b)[k] = [p |-> "block", i |-> k, n |-> BlockLen + 2,
                                num |-> IF k < 3 THEN 0 ELSE F + k - 3]
  <1>1. PICK s : s = Iceblock(b)
    OBVIOUS
  <1>2. PICK l \in Nat : l = BlockLen + 2
    BY TitlesAssumption
  <1>3. ASSUME NEW k \in 1..l
        PROVE  [p |-> "block", i |-> k, n |-> l, num |-> IF k < 3 THEN 0 ELSE F + k - 3] \in Bytes
    <2>1. PICK num \in Nat : num = IF k < 3 THEN 0 ELSE F + k - 3
      OBVIOUS
    <2> QED  BY <2>1 DEF Bytes
  <1>4. \A k \in 1..l : s[k] = [p |-> "block", i |-> k, n |-> l, num |-> IF k < 3 THEN 0 ELSE F + k - 3]
    BY <1>1, <1>2 DEF Iceblock
  <1>5. s = [k \in 1..l |-> s[k]]
    BY <1>1, <1>2 DEF Iceblock
  <1>6. s \in [1..l -> Bytes]
    BY <1>3, <1>4, <1>5
  <1>7. s \in Seq(Bytes) /\ Len(s) = l
    BY <1>6
  <1> QED  BY <1>1, <1>2, <1>4, <1>7

LEMMA StreamPart ==
  ASSUME NEW b, FirstOf(b) \in Nat, NEW pos \in 0..BlockLen, NEW len \in Nat, pos + len <= BlockLen
  PROVE  /\ SubSeq(Stream(b), pos + 1, pos + len) \in Seq(Bytes)
         /\ Len(SubSeq(Stream(b), pos + 1, pos + len)) = len
         /\ \A k \in 1..len : SubSeq(Stream(b), pos + 1, pos + len)[k] = Audio(FirstOf(b) + pos + (k - 1))
  <1>1. PICK F \in Nat : F = FirstOf(b)
    OBVIOUS
  <1>2. PICK s : s = SubSeq(Stream(b), pos + 1, pos + len)
    OBVIOUS
  <1>3. PICK w \in Seq(Bytes) : w = Stream(b) /\ Len(w) = BlockLen
                                /\ \A k \in 1..BlockLen : w[k] = Audio(F + k - 1)
    BY <1>1, StreamSeq
  <1>4. PICK m \in Int : m = pos + 1
    OBVIOUS
  <1>5. PICK n \in Int : n = pos + len
    OBVIOUS
  <1>6. \A k \in m..n : k \in 1..BlockLen /\ w[k] \in Bytes
    BY <1>3, <1>4, <1>5, TitlesAssumption
  <1>7. /\ s \in Seq(Bytes) /\ Len(s) = IF m <= n THEN n - m + 1 ELSE 0
        /\ \A k \in 1..(n - m + 1) : s[k] = w[m + k - 1]
    <2>1. s = SubSeq(w, m, n)
      BY <1>2, <1>3, <1>4, <1>5
    <2>2. \A i \in m..n : w[i] \in Bytes
      BY <1>6
    <2>3. /\ SubSeq(w, m, n) \in Seq(Bytes) /\ Len(SubSeq(w, m, n)) = IF m <= n THEN n - m + 1 ELSE 0
          /\ \A k \in 1..(n - m + 1) : SubSeq(w, m, n)[k] = w[m + k - 1]
      BY <1>4, <1>5, <2>2, SubSeqProperties
    <2> QED  BY <2>1, <2>3, Zenon
  <1>8. Len(s) = len
    BY <1>4, <1>5, <1>7
  <1>9. ASSUME NEW k \in 1..len PROVE s[k] = Audio(F + pos + (k - 1))
    <2>1. PICK L \in Nat : L = BlockLen /\ pos \in 0..L /\ pos + len <= L
      BY TitlesAssumption
    <2>2. n - m + 1 = len /\ m + k - 1 = pos + k
      BY <1>4, <1>5
    <2>3. pos + k \in 1..L /\ F + (pos + k) - 1 = F + pos + (k - 1)
      BY <2>1
    <2> QED  BY <1>3, <1>7, <2>1, <2>2, <2>3
  <1> QED  BY <1>1, <1>2, <1>7, <1>8, <1>9

LEMMA LesserIs ==
  ASSUME NEW a \in Nat, NEW b \in Nat
  PROVE  LesserOf(a, b) \in Nat /\ LesserOf(a, b) <= a /\ LesserOf(a, b) <= b
  BY DEF LesserOf

LEMMA AudioStep ==
  ASSUME TitlesInv, SendsAudio
  PROVE  TitlesInv'
  <1>1. /\ On /\ hearer.kind = "icy" /\ hearer.pos < BlockLen /\ hearer.since # Interval
        /\ UNCHANGED <<mb, current, url_title, title_queue, read, tags>>
    BY DEF SendsAudio
  <1>2. PICK len : len = LesserOf(BlockLen - hearer.pos, Interval - hearer.since)
    OBVIOUS
  <1>3. PICK bytes : bytes = SubSeq(Stream(hearer.ref), hearer.pos + 1, hearer.pos + len)
    OBVIOUS
  <1>4. PICK ret \in 1..len :
          /\ ear' = Heard(bytes, ret)
          /\ hearer' = [hearer EXCEPT !.since = @ + ret, !.pos = @ + ret, !.queue_pos = @ + ret]
    BY <1>2, <1>3 DEF SendsAudio
  <1>5. PICK h \in Hearers : h = hearer
    BY DEF TitlesInv, TitlesTyped
  <1>6. PICK L \in Nat \ {0} : L = BlockLen
    BY TitlesAssumption
  <1>7. PICK I \in Nat \ {0} : I = Interval
    BY TitlesAssumption
  <1>8. h.pos \in 0..L /\ h.since \in 0..I /\ h.queue_pos \in Int /\ h.due \in Titles \cup {Blank}
    BY <1>5, <1>6, <1>7 DEF Hearers
  <1>9. h.pos < L /\ h.since < I
    BY <1>1, <1>5, <1>6, <1>7, <1>8
  <1>10. len \in Nat /\ h.pos + len <= L /\ h.since + len <= I
    <2>1. PICK i \in Nat : i = L - h.pos
      BY <1>8
    <2>2. PICK j \in Nat : j = I - h.since
      BY <1>8
    <2>3. len = LesserOf(i, j)
      BY <1>2, <1>5, <1>6, <1>7, <2>1, <2>2
    <2>4. len \in Nat /\ len <= i /\ len <= j
      BY <2>3, LesserIs
    <2> QED  BY <1>8, <2>1, <2>2, <2>4
  <1>11. PICK F \in Nat \ {0} : F = FirstOf(hearer.ref)
    BY <1>1, OnBlock DEF TitlesInv
  <1>12. IcyRight
    BY <1>1 DEF TitlesInv
  <1>13. ~h.in_meta
    <2>1. h.in_meta => h.since = I
      BY <1>5, <1>7, <1>12 DEF IcyRight
    <2> QED  BY <1>9, <2>1
  <1>14. /\ ear.since = h.since /\ KnownTitle(ear.heard, h.due) /\ ear.next = F + h.pos
         /\ h.queue_pos = ear.next - 1 /\ h.offset = 0 /\ ear.i = ear.n
    BY <1>1, <1>5, <1>11, <1>12, <1>13 DEF IcyRight
  <1>15. PICK base \in Int : base = F + h.pos - h.since
    BY <1>8
  <1>16. PICK w \in Titles \cup {Blank} : w = ear.heard
    BY DEF TitlesInv, TitlesTyped, Ears
  <1>17. IcyAt(ear, h.since, Same, 0, base, w)
    <2>1. ear \in Ears /\ ear.next # 0
      BY DEF TitlesInv, TitlesTyped
    <2>2. ear.ok
      BY <1>12 DEF IcyRight
    <2>3. ~(h.since < 0) /\ h.since - 0 = h.since /\ base + (h.since - 0) = F + h.pos
      BY <1>8, <1>15
    <2> QED  BY <1>14, <1>16, <2>1, <2>2, <2>3 DEF IcyAt
  <1>18. \A k \in 1..len : bytes[k] = Audio(F + h.pos + (k - 1))
    <2>1. h.pos \in 0..BlockLen /\ h.pos + len <= BlockLen
      BY <1>6, <1>8, <1>10
    <2>2. bytes = SubSeq(Stream(hearer.ref), h.pos + 1, h.pos + len) /\ F \in Nat
      BY <1>3, <1>5
    <2>3. PICK p \in 0..BlockLen : p = h.pos
      BY <2>1
    <2>4. PICK r : r = hearer.ref
      OBVIOUS
    <2>5. p + len <= BlockLen /\ bytes = SubSeq(Stream(r), p + 1, p + len) /\ F = FirstOf(r)
      BY <1>11, <2>1, <2>2, <2>3, <2>4
    <2>6. \A k \in 1..len : bytes[k] = Audio(F + p + (k - 1))
      <3>1. p \in 0..BlockLen /\ len \in Nat /\ FirstOf(r) \in Nat
        BY <1>10, <2>2, <2>5
      <3> QED  BY <2>5, <3>1, StreamPart, Zenon
    <2> QED  BY <2>3, <2>6
  <1>19. ASSUME NEW k \in 1..len PROVE bytes[k] = IcyByte(h.since + k - 1, Same, 0, base)
    <2>1. /\ ~(h.since + k - 1 < 0)
          /\ base + ((h.since + k - 1) - 0) = F + h.pos + (k - 1)
      BY <1>8, <1>10, <1>15
    <2> QED  BY <1>18, <2>1 DEF IcyByte
  <1>20. IcyAt(ear', h.since + ret, Same, 0, base, w)
    <2>1. h.since + len - 0 <= Interval /\ ret \in 0..len /\ h.since \in Nat
      BY <1>7, <1>8, <1>10
    <2>2. Same \in Titles \cup {Blank, Same} /\ 0 \in Nat
      OBVIOUS
    <2> QED  BY <1>1, <1>4, <1>8, <1>10, <1>17, <1>19, <2>1, <2>2, IcyRun
  <1>21. PICK since \in 0..I : since = h.since + ret
    BY <1>4, <1>8, <1>10
  <1>22. PICK pos \in 0..L : pos = h.pos + ret
    BY <1>4, <1>8, <1>10
  <1>23. PICK at \in Int : at = h.queue_pos + ret
    BY <1>4, <1>8, <1>10
  <1>24. PICK x : x = [h EXCEPT !.since = since, !.pos = pos, !.queue_pos = at]
    OBVIOUS
  <1>25. /\ x \in Hearers /\ x.ref = h.ref /\ x.queue_pos = at /\ x.kind = h.kind /\ x.pos = pos
         /\ x.since = since /\ x.offset = h.offset /\ x.associated = h.associated /\ x.due = h.due
    BY <1>5, <1>6, <1>7, <1>24 DEF Hearers
  <1>26. x.in_meta = h.in_meta
    BY <1>5, <1>24 DEF Hearers
  <1>27. hearer' = x
    BY <1>4, <1>5, <1>21, <1>22, <1>23, <1>24
  <1>28. /\ ear' \in Ears /\ ear'.next # 0 /\ ear'.i = ear'.n /\ ear'.since = since
         /\ ear'.next = F + pos /\ KnownTitle(ear'.heard, h.due)
    <2>1. ~(since < 0) /\ since - 0 = since /\ base + (since - 0) = F + pos
      BY <1>15, <1>8, <1>21, <1>22, <1>4, <1>10
    <2>2. ear'.heard = ear.heard
      BY <1>16, <1>20, <1>21, <2>1 DEF IcyAt
    <2> QED  BY <1>14, <1>20, <1>21, <2>1, <2>2 DEF IcyAt
  <1>29. ear'.ok
    BY <1>20 DEF IcyAt
  <1>30. FirstOf(hearer.ref)' = F /\ On'
    BY <1>1, <1>5, <1>11, <1>25, <1>27 DEF FirstOf, On
  <1>31. x.queue_pos = ear'.next - 1
    BY <1>8, <1>14, <1>22, <1>23, <1>25, <1>28
  <1>32. IcyRight'
    BY <1>13, <1>14, <1>25, <1>26, <1>27, <1>28, <1>29, <1>30, <1>31 DEF IcyRight
  <1>33. hearer'.kind # "iceblocks"
    BY <1>1, <1>5, <1>25, <1>27
  <1>34. \E k \in 1..Len(title_queue) : title_queue[k] = hearer'.ref
    BY <1>1, <1>5, <1>25, <1>27 DEF TitlesInv, MetaUsed
  <1> QED  BY <1>1, <1>5, <1>25, <1>27, <1>28, <1>32, <1>33, <1>34, HearerStep

(* The insert is out, and past bytes of the stream behind it.              *)
LEMMA InsertDoneStep ==
  ASSUME TitlesInv, On, hearer.kind = "icy",
         UNCHANGED <<mb, current, url_title, title_queue, read>>,
         NEW past \in Nat, past <= Interval, hearer.pos + past <= BlockLen, hearer' = InsertDone(past),
         ear' \in Ears, ear'.ok, ear'.next # 0, ear'.next = ear.next + past, ear'.i = ear'.n,
         ear'.since = past, KnownTitle(ear'.heard, mb[Meta].title)
  PROVE  TitlesInv'
  <1>1. PICK h \in Hearers : h = hearer
    BY DEF TitlesInv, TitlesTyped
  <1>2. PICK m \in Blocks : m = Meta /\ mb[m].used
    BY OnBlock DEF TitlesInv
  <1>3. PICK t \in Titles \cup {Blank} : t = mb[Meta].title
    BY OnBlock DEF TitlesInv
  <1>4. h.pos \in 0..BlockLen /\ h.queue_pos \in Int
    BY <1>1 DEF Hearers
  <1>5. PICK pos \in 0..BlockLen : pos = h.pos + past
    BY <1>1, <1>4, TitlesAssumption
  <1>6. PICK at \in Int : at = h.queue_pos + past
    BY <1>4
  <1>7. PICK since \in 0..Interval : since = past
    BY TitlesAssumption
  <1>8. PICK zero \in Nat : zero = 0
    OBVIOUS
  <1>9. PICK x : x = [h EXCEPT !.queue_pos = at, !.since = since, !.pos = pos,
                 !.in_meta = FALSE, !.offset = zero, !.associated = m, !.due = t]
    OBVIOUS
  <1>10. /\ x \in Hearers /\ x.ref = h.ref /\ x.queue_pos = at /\ x.kind = h.kind /\ x.pos = pos
         /\ x.since = since /\ x.offset = zero /\ x.associated = m /\ x.due = t
    BY <1>1, <1>9 DEF Hearers
  <1>11. ~x.in_meta
    BY <1>1, <1>9 DEF Hearers
  <1>12. hearer' = x
    BY <1>1, <1>2, <1>3, <1>5, <1>6, <1>7, <1>8, <1>9 DEF InsertDone
  <1>13. PICK F \in Nat \ {0} : F = FirstOf(hearer.ref)
    BY OnBlock DEF TitlesInv
  <1>14. ear.next = F + h.pos /\ h.queue_pos = ear.next - 1
    BY <1>1, <1>13 DEF TitlesInv, IcyRight
  <1>15. ear'.next = F + pos /\ at = ear'.next - 1
    BY <1>4, <1>5, <1>6, <1>14
  <1>16. FirstOf(hearer.ref)' = F /\ On'
    BY <1>1, <1>10, <1>12, <1>13 DEF FirstOf, On
  <1>17. ear'.since = since /\ KnownTitle(ear'.heard, t)
    BY <1>3, <1>7
  <1>18. IcyRight'
    BY <1>8, <1>10, <1>11, <1>12, <1>15, <1>16, <1>17 DEF IcyRight
  <1>19. hearer'.kind # "iceblocks"
    BY <1>1, <1>10, <1>12
  <1>20. \E k \in 1..Len(title_queue) : title_queue[k] = hearer'.ref
    BY <1>1, <1>10, <1>12 DEF TitlesInv, MetaUsed
  <1>21. mb[hearer'.associated].used /\ KnownTitle(mb[hearer'.associated].title, hearer'.due)
    BY <1>2, <1>3, <1>10, <1>12 DEF KnownTitle
  <1> QED  BY <1>10, <1>12, <1>18, <1>19, <1>20, <1>21, HearerStep

(* The insert went out to its byte o.                                      *)
LEMMA InsertPartStep ==
  ASSUME TitlesInv, On, hearer.kind = "icy", hearer.pos < BlockLen, hearer.since = Interval, ~OnSame,
         UNCHANGED <<mb, current, url_title, title_queue, read>>,
         NEW o \in 1..(InsertLen - 1), hearer' = [hearer EXCEPT !.in_meta = TRUE, !.offset = o],
         ear' \in Ears, ear'.ok, ear'.next = ear.next, ear'.since = Interval, ear'.heard = ear.heard,
         Amid(ear', mb[Meta].title, o, InsertLen)
  PROVE  TitlesInv'
  <1>1. PICK h \in Hearers : h = hearer
    BY DEF TitlesInv, TitlesTyped
  <1>2. PICK off \in Nat : off = o /\ off \in 1..(InsertLen - 1)
    BY TitlesAssumption
  <1>3. PICK x : x = [h EXCEPT !.in_meta = TRUE, !.offset = off]
    OBVIOUS
  <1>4. /\ x \in Hearers /\ x.ref = h.ref /\ x.queue_pos = h.queue_pos /\ x.kind = h.kind
        /\ x.pos = h.pos /\ x.since = h.since /\ x.offset = off /\ x.associated = h.associated
        /\ x.due = h.due
    BY <1>1, <1>3 DEF Hearers
  <1>5. x.in_meta
    BY <1>1, <1>3 DEF Hearers
  <1>6. hearer' = x
    BY <1>1, <1>2, <1>3
  <1>7. On' /\ ~OnSame' /\ Meta' = Meta
    BY <1>1, <1>4, <1>6 DEF On, OnSame, Meta
  <1>8. FirstOf(hearer.ref)' = FirstOf(hearer.ref)
    BY <1>1, <1>4, <1>6 DEF FirstOf
  <1>9. /\ ear.since = h.since /\ KnownTitle(ear.heard, h.due)
        /\ ear.next = FirstOf(hearer.ref) + h.pos /\ h.queue_pos = ear.next - 1
    BY <1>1 DEF TitlesInv, IcyRight
  <1>10. Amid(ear', mb'[Meta'].title, off, InsertLen)
    BY <1>2, <1>7
  <1>11. IcyRight'
    BY <1>1, <1>2, <1>4, <1>5, <1>6, <1>7, <1>8, <1>9, <1>10 DEF IcyRight
  <1>12. hearer'.kind # "iceblocks"
    BY <1>1, <1>4, <1>6
  <1>13. \E k \in 1..Len(title_queue) : title_queue[k] = hearer'.ref
    BY <1>1, <1>4, <1>6 DEF TitlesInv, MetaUsed
  <1>14. ear'.next # 0
    BY DEF TitlesInv, TitlesTyped
  <1>15. hearer'.associated = hearer.associated /\ hearer'.due = hearer.due
    BY <1>1, <1>4, <1>6
  <1> QED  BY <1>4, <1>6, <1>11, <1>12, <1>13, <1>14, <1>15, HearerStep

(* The bytes of an insert from place a on, with the stream behind it.      *)
PartOf(ins, t, a) ==
  ins \in Seq(Bytes)
  /\ \A k \in 1..Len(ins) : ins[k] = [p |-> t, i |-> a + k, n |-> a + Len(ins), num |-> 0]
StreamFrom(str, base) ==
  str \in Seq(Bytes) /\ \A k \in 1..Len(str) : str[k] = Audio(base + (k - 1))
IcyBytes(bytes, m, a, t, n, base) ==
  Len(bytes) = m /\ \A k \in 1..m : bytes[k] = IcyByte(a + k - 1, t, n, base)

LEMMA InsertBytes ==
  ASSUME NEW t, NEW a \in Nat, NEW base \in Int, NEW ins, NEW str, PartOf(ins, t, a),
         StreamFrom(str, base)
  PROVE  IcyBytes(ins \o str, Len(ins) + Len(str), a, t, a + Len(ins), base)
  <1>1. /\ Len(ins \o str) = Len(ins) + Len(str)
        /\ \A k \in 1..(Len(ins) + Len(str)) :
             (ins \o str)[k] = IF k <= Len(ins) THEN ins[k] ELSE str[k - Len(ins)]
    BY ConcatProperties, Zenon DEF PartOf, StreamFrom
  <1>2. PICK j \in Nat : j = Len(ins)
    BY DEF PartOf
  <1>3. PICK len \in Nat : len = Len(str)
    BY DEF StreamFrom
  <1>4. PICK n \in Nat : n = a + j
    OBVIOUS
  <1>5. ASSUME NEW k \in 1..(j + len)
        PROVE  (ins \o str)[k] = IcyByte(a + k - 1, t, n, base)
    <2>1. CASE k <= j
      <3>1. k \in 1..j /\ a + k - 1 < n /\ (a + k - 1) + 1 = a + k
        BY <1>4, <2>1
      <3>2. (ins \o str)[k] = ins[k]
        BY <1>1, <1>2, <1>3, <2>1
      <3>3. ins[k] = [p |-> t, i |-> a + k, n |-> n, num |-> 0]
        BY <1>2, <1>4, <3>1 DEF PartOf
      <3> QED  BY <3>1, <3>2, <3>3 DEF IcyByte
    <2>2. CASE ~(k <= j)
      <3>1. k - j \in 1..len /\ ~(a + k - 1 < n) /\ (k - j) - 1 = (a + k - 1) - n
        BY <1>4, <2>2
      <3>2. (ins \o str)[k] = str[k - j]
        BY <1>1, <1>2, <1>3, <2>2
      <3>3. str[k - j] = Audio(base + ((k - j) - 1))
        BY <1>3, <3>1 DEF StreamFrom
      <3> QED  BY <3>1, <3>2, <3>3 DEF IcyByte
    <2> QED  BY <2>1, <2>2
  <1> QED  BY <1>1, <1>2, <1>3, <1>4, <1>5, Zenon DEF IcyBytes

DueInsert == IF OnSame /\ ~hearer.in_meta THEN Packet(Same, 1)
             ELSE SubSeq(Packet(mb[Meta].title, InsertLen), hearer.offset + 1, InsertLen)

(* An insert that is due is what is left of a packet: of the title the     *)
(* listener has, or of the new one.                                        *)
LEMMA InsertIs ==
  ASSUME TitlesInv, On, hearer.kind = "icy", hearer.pos < BlockLen, hearer.since = Interval
  PROVE  \E t \in Titles \cup {Blank, Same} : \E n \in Nat \ {0} : \E a \in Nat :
           /\ a < n /\ DueInsert \in Seq(Bytes) /\ Len(DueInsert) = n - a
           /\ \A k \in 1..(n - a) : DueInsert[k] = [p |-> t, i |-> a + k, n |-> n, num |-> 0]
           /\ Amid(ear, t, a, n)
           /\ KnownTitle(IF t = Same THEN ear.heard ELSE t, mb[Meta].title)
           /\ \/ n = 1
              \/ ~OnSame /\ t = mb[Meta].title /\ n = InsertLen /\ a = hearer.offset
  <1>1. PICK ins : ins = DueInsert
    OBVIOUS
  <1>2. IcyRight
    BY DEF TitlesInv
  <1>3. PICK t \in Titles \cup {Blank} : t = mb[Meta].title
    BY OnBlock DEF TitlesInv
  <1>4. t # Same /\ t \in Titles \cup {Blank, Same}
    BY TitlesAssumption
  <1>5. CASE OnSame /\ ~hearer.in_meta
    <2>1. ins = Packet(Same, 1)
      BY <1>1, <1>5 DEF DueInsert
    <2>2. /\ ins \in Seq(Bytes) /\ Len(ins) = 1
          /\ \A k \in 1..1 : ins[k] = [p |-> Same, i |-> k, n |-> 1, num |-> 0]
      <3>1. PICK one \in Nat : one = 1
        OBVIOUS
      <3>2. /\ Packet(Same, one) \in Seq(Bytes) /\ Len(Packet(Same, one)) = one
            /\ \A k \in 1..one : Packet(Same, one)[k] = [p |-> Same, i |-> k, n |-> one, num |-> 0]
        BY PacketSeq
      <3> QED  BY <2>1, <3>1, <3>2, Zenon
    <2>3. \A k \in 1..(1 - 0) : ins[k] = [p |-> Same, i |-> 0 + k, n |-> 1, num |-> 0]
      BY <2>2
    <2>4. Amid(ear, Same, 0, 1)
      BY <1>2, <1>5 DEF IcyRight, Amid
    <2>5. KnownTitle(ear.heard, mb[Meta].title)
      <3>1. Meta \in Blocks /\ Meta = hearer.associated
        BY <1>5, OnBlock DEF TitlesInv, OnSame
      <3>2. hearer.associated # NoMeta
        BY <3>1, TitlesAssumption
      <3>3. KnownTitle(mb[hearer.associated].title, hearer.due)
        BY <3>2 DEF TitlesInv, MetaUsed
      <3>4. KnownTitle(ear.heard, hearer.due)
        BY <1>2 DEF IcyRight
      <3> QED  BY <3>1, <3>3, <3>4 DEF KnownTitle
    <2>6. KnownTitle(IF Same = Same THEN ear.heard ELSE Same, mb[Meta].title)
      BY <2>5
    <2>7. 0 < 1 /\ Len(ins) = 1 - 0 /\ 1 \in Nat \ {0} /\ 0 \in Nat /\ Same \in Titles \cup {Blank, Same}
      BY <2>2
    <2> QED  BY <1>1, <2>2, <2>3, <2>4, <2>6, <2>7
  <1>6. CASE ~(OnSame /\ ~hearer.in_meta)
    <2>1. ~OnSame
      BY <1>2, <1>6 DEF IcyRight
    <2>2. PICK n \in Nat \ {0} : n = InsertLen
      BY TitlesAssumption
    <2>3. PICK a \in Nat : a = hearer.offset
      BY DEF TitlesInv, TitlesTyped, Hearers
    <2>4. a < n /\ Amid(ear, t, a, n)
      <3>1. CASE hearer.in_meta
        <4>1. a \in 1..(n - 1) /\ Amid(ear, t, a, n)
          BY <1>2, <1>3, <2>2, <2>3, <3>1 DEF IcyRight
        <4> QED  BY <4>1
      <3>2. CASE ~hearer.in_meta
        <4>1. a = 0 /\ ear.i = ear.n
          BY <1>2, <2>3, <3>2 DEF IcyRight
        <4> QED  BY <4>1 DEF Amid
      <3> QED  BY <3>1, <3>2
    <2>5. PICK p \in Seq(Bytes) : p = Packet(t, n) /\ Len(p) = n
            /\ \A k \in 1..n : p[k] = [p |-> t, i |-> k, n |-> n, num |-> 0]
      BY <1>4, PacketSeq
    <2>6. PICK m \in Int : m = a + 1
      OBVIOUS
    <2>7. ins = SubSeq(p, m, n)
      BY <1>1, <1>3, <1>6, <2>2, <2>3, <2>5, <2>6 DEF DueInsert
    <2>8. /\ SubSeq(p, m, n) \in Seq(Bytes) /\ Len(SubSeq(p, m, n)) = IF m <= n THEN n - m + 1 ELSE 0
          /\ \A k \in 1..(n - m + 1) : SubSeq(p, m, n)[k] = p[m + k - 1]
      <3>1. \A i \in m..n : p[i] \in Bytes
        BY <2>5, <2>6
      <3>2. n \in Int
        OBVIOUS
      <3> QED  BY <2>6, <3>1, <3>2, SubSeqProperties
    <2>9. ins \in Seq(Bytes) /\ Len(ins) = n - a
      <3>1. m <= n /\ n - m + 1 = n - a
        BY <2>4, <2>6
      <3>2. Len(ins) = IF m <= n THEN n - m + 1 ELSE 0
        BY <2>7, <2>8, Zenon
      <3>3. ins \in Seq(Bytes)
        BY <2>7, <2>8, Zenon
      <3> QED  BY <3>1, <3>2, <3>3, Zenon
    <2>10. ASSUME NEW k \in 1..(n - a)
           PROVE  ins[k] = [p |-> t, i |-> a + k, n |-> n, num |-> 0]
      <3>1. k \in 1..(n - m + 1) /\ m + k - 1 = a + k /\ a + k \in 1..n
        BY <2>6
      <3>2. ins[k] = p[a + k]
        BY <2>7, <2>8, <3>1
      <3> QED  BY <2>5, <3>1, <3>2
    <2>11. KnownTitle(IF t = Same THEN ear.heard ELSE t, mb[Meta].title)
      BY <1>3, <1>4 DEF KnownTitle
    <2> QED  BY <1>1, <1>3, <1>4, <2>1, <2>2, <2>3, <2>4, <2>9, <2>10, <2>11
  <1> QED  BY <1>5, <1>6

LEMMA InsertStep ==
  ASSUME TitlesInv, SendsInsert
  PROVE  TitlesInv'
  <1>1. /\ On /\ hearer.kind = "icy" /\ hearer.pos < BlockLen /\ hearer.since = Interval
        /\ UNCHANGED <<mb, current, url_title, title_queue, read, tags>>
    BY DEF SendsInsert
  <1>2. PICK ins : ins = DueInsert
    OBVIOUS
  <1>3. PICK len : len = LesserOf(BlockLen - hearer.pos, Interval)
    OBVIOUS
  <1>4. PICK str : str = SubSeq(Stream(hearer.ref), hearer.pos + 1, hearer.pos + len)
    OBVIOUS
  <1>5. PICK bytes : bytes = ins \o str
    OBVIOUS
  <1>6. PICK ret \in 1..Len(bytes) :
          /\ ear' = Heard(bytes, ret)
          /\ hearer' = IF ret - Len(ins) >= 0 THEN InsertDone(ret - Len(ins))
                       ELSE [hearer EXCEPT !.in_meta = TRUE, !.offset = @ + ret]
    BY <1>2, <1>3, <1>4, <1>5, Zenon DEF SendsInsert, DueInsert
  <1>7. PICK h \in Hearers : h = hearer
    BY DEF TitlesInv, TitlesTyped
  <1>8. PICK L \in Nat \ {0} : L = BlockLen
    BY TitlesAssumption
  <1>9. PICK I \in Nat \ {0} : I = Interval
    BY TitlesAssumption
  <1>10. h.pos \in 0..L /\ h.offset \in Nat
    BY <1>7, <1>8 DEF Hearers
  <1>11. h.pos < L
    BY <1>1, <1>7, <1>8
  <1>12. len \in Nat /\ h.pos + len <= L /\ len <= I
    <2>1. PICK i \in Nat : i = L - h.pos
      BY <1>10
    <2>2. len = LesserOf(i, I) /\ I \in Nat
      BY <1>3, <1>7, <1>8, <1>9, <2>1
    <2>3. len \in Nat /\ len <= i /\ len <= I
      BY <2>2, LesserIs
    <2> QED  BY <1>10, <2>1, <2>3
  <1>13. PICK base \in Nat \ {0} : base = FirstOf(hearer.ref) + h.pos
    <2>1. FirstOf(hearer.ref) \in Nat \ {0}
      BY <1>1, OnBlock DEF TitlesInv
    <2> QED  BY <1>10, <2>1
  <1>14. /\ ear.next = base /\ ear.since = Interval /\ KnownTitle(ear.heard, h.due)
         /\ ear \in Ears /\ ear.next # 0
    BY <1>1, <1>7, <1>13 DEF TitlesInv, TitlesTyped, IcyRight, Hearers
  <1>15. ear.ok
    BY <1>1 DEF TitlesInv, IcyRight
  <1>16. PICK w \in Titles \cup {Blank} : w = ear.heard
    BY DEF TitlesInv, TitlesTyped, Ears
  <1>17. str \in Seq(Bytes) /\ Len(str) = len /\ \A k \in 1..len : str[k] = Audio(base + (k - 1))
    <2>1. PICK p \in 0..BlockLen : p = h.pos /\ p + len <= BlockLen
      BY <1>8, <1>10, <1>12
    <2>2. PICK r : r = hearer.ref
      OBVIOUS
    <2>3. str = SubSeq(Stream(r), p + 1, p + len) /\ base = FirstOf(r) + p
      BY <1>4, <1>7, <1>13, <2>1, <2>2
    <2>4. FirstOf(r) \in Nat
      BY <1>1, <2>2, OnBlock DEF TitlesInv
    <2>5. /\ SubSeq(Stream(r), p + 1, p + len) \in Seq(Bytes)
          /\ Len(SubSeq(Stream(r), p + 1, p + len)) = len
          /\ \A k \in 1..len : SubSeq(Stream(r), p + 1, p + len)[k] = Audio(FirstOf(r) + p + (k - 1))
      BY <1>12, <2>1, <2>4, StreamPart, Zenon
    <2> QED  BY <2>3, <2>5, Zenon
  <1>18. PICK t \in Titles \cup {Blank, Same} : \E n \in Nat \ {0} : \E a \in Nat :
           /\ a < n /\ ins \in Seq(Bytes) /\ Len(ins) = n - a
           /\ \A k \in 1..(n - a) : ins[k] = [p |-> t, i |-> a + k, n |-> n, num |-> 0]
           /\ Amid(ear, t, a, n)
           /\ KnownTitle(IF t = Same THEN ear.heard ELSE t, mb[Meta].title)
           /\ \/ n = 1
              \/ ~OnSame /\ t = mb[Meta].title /\ n = InsertLen /\ a = hearer.offset
    BY <1>1, <1>2, InsertIs
  <1>19. PICK n \in Nat \ {0} : \E a \in Nat :
           /\ a < n /\ ins \in Seq(Bytes) /\ Len(ins) = n - a
           /\ \A k \in 1..(n - a) : ins[k] = [p |-> t, i |-> a + k, n |-> n, num |-> 0]
           /\ Amid(ear, t, a, n)
           /\ KnownTitle(IF t = Same THEN ear.heard ELSE t, mb[Meta].title)
           /\ \/ n = 1
              \/ ~OnSame /\ t = mb[Meta].title /\ n = InsertLen /\ a = hearer.offset
    BY <1>18
  <1>20. PICK a \in Nat :
           /\ a < n /\ ins \in Seq(Bytes) /\ Len(ins) = n - a
           /\ \A k \in 1..(n - a) : ins[k] = [p |-> t, i |-> a + k, n |-> n, num |-> 0]
           /\ Amid(ear, t, a, n)
           /\ KnownTitle(IF t = Same THEN ear.heard ELSE t, mb[Meta].title)
           /\ \/ n = 1
              \/ ~OnSame /\ t = mb[Meta].title /\ n = InsertLen /\ a = hearer.offset
    BY <1>19
  <1>21. PICK m \in Nat : m = (n - a) + len
    BY <1>12, <1>20
  <1>22. Len(bytes) = m /\ \A k \in 1..m : bytes[k] = IcyByte(a + k - 1, t, n, base)
    <2>1. n = a + Len(ins) /\ n - a = Len(ins) /\ base \in Int
      BY <1>20
    <2>2. PartOf(ins, t, a)
      <3>1. ins \in Seq(Bytes)
        BY <1>20
      <3>2. \A k \in 1..Len(ins) : ins[k] = [p |-> t, i |-> a + k, n |-> a + Len(ins), num |-> 0]
        BY <1>20, <2>1, Zenon
      <3> QED  BY <3>1, <3>2 DEF PartOf
    <2>3. StreamFrom(str, base)
      BY <1>17, Zenon DEF StreamFrom
    <2>4. base \in Int
      OBVIOUS
    <2>5. IcyBytes(ins \o str, Len(ins) + Len(str), a, t, a + Len(ins), base)
      BY <2>2, <2>3, <2>4, InsertBytes
    <2> QED  BY <1>5, <1>17, <1>21, <2>1, <2>5, Zenon DEF IcyBytes
  <1>23. IcyAt(ear, a, t, n, base, w)
    <2>1. ~(a >= n)
      BY <1>20
    <2> QED  BY <1>14, <1>15, <1>16, <1>20, <2>1 DEF IcyAt
  <1>24. ret \in 0..m /\ ret \in 1..m
    BY <1>6, <1>22
  <1>25. IcyAt(ear', a + ret, t, n, base, w)
    <2>1. a + m - n <= Interval
      BY <1>9, <1>12, <1>20, <1>21
    <2>2. n \in Nat /\ base \in Int
      OBVIOUS
    <2> QED  BY <1>1, <1>6, <1>14, <1>22, <1>23, <1>24, <2>1, <2>2, IcyRun
  <1>26. CASE a + ret >= n
    <2>1. PICK past \in Nat : past = ret - Len(ins) /\ past = (a + ret) - n
      BY <1>20, <1>24, <1>26
    <2>2. hearer' = InsertDone(past)
      BY <1>6, <2>1
    <2>3. past <= Interval /\ hearer.pos + past <= BlockLen
      BY <1>7, <1>8, <1>9, <1>10, <1>12, <1>20, <1>21, <1>24, <2>1
    <2>4. /\ ear' \in Ears /\ ear'.next # 0 /\ ear'.i = ear'.n /\ ear'.since = past
          /\ ear'.next = ear.next + past /\ ear'.heard = IF t = Same THEN w ELSE t
      BY <1>14, <1>25, <1>26, <2>1 DEF IcyAt
    <2>5. ear'.ok
      BY <1>25 DEF IcyAt
    <2>6. KnownTitle(ear'.heard, mb[Meta].title)
      BY <1>16, <1>20, <2>4
    <2> QED  BY <1>1, <2>2, <2>3, <2>4, <2>5, <2>6, InsertDoneStep
  <1>27. CASE ~(a + ret >= n)
    <2>1. n # 1 /\ a + ret < n
      BY <1>20, <1>24, <1>27
    <2>2. ~OnSame /\ t = mb[Meta].title /\ n = InsertLen /\ a = hearer.offset
      BY <1>20, <2>1
    <2>3. PICK o \in 1..(InsertLen - 1) : o = a + ret
      BY <1>24, <2>1, <2>2
    <2>4. ~(ret - Len(ins) >= 0)
      BY <1>20, <1>24, <2>1
    <2>5. hearer' = [hearer EXCEPT !.in_meta = TRUE, !.offset = o]
      <3>1. hearer' = [h EXCEPT !.in_meta = TRUE, !.offset = h.offset + ret]
        BY <1>6, <1>7, <2>4
      <3>2. h.offset + ret = o
        BY <1>7, <2>2, <2>3
      <3> QED  BY <1>7, <3>1, <3>2
    <2>6. /\ ear' \in Ears /\ ear'.next = ear.next /\ ear'.since = Interval /\ ear'.heard = ear.heard
          /\ Amid(ear', t, o, n)
      BY <1>14, <1>16, <1>25, <2>1, <2>3 DEF IcyAt
    <2>7. ear'.ok
      BY <1>25 DEF IcyAt
    <2>8. Amid(ear', mb[Meta].title, o, InsertLen)
      BY <2>2, <2>6
    <2> QED  BY <1>1, <2>2, <2>5, <2>6, <2>7, <2>8, InsertPartStep
  <1> QED  BY <1>26, <1>27

(* Of an iceblock's bytes, those of the stream.                            *)
Behind(M, o) == IF o < M + 2 THEN 0 ELSE o - M - 2

LEMMA IceDoneStep ==
  ASSUME TitlesInv, On, hearer.kind = "iceblocks",
         UNCHANGED <<mb, current, url_title, title_queue, read>>,
         NEW at \in Int, at < FirstOf(hearer.ref) + BlockLen,
         hearer' = [hearer EXCEPT !.queue_pos = at, !.offset = 0, !.pos = BlockLen,
                                  !.associated = Meta, !.due = mb[Meta].title],
         ear' \in Ears, ear'.ok, ear'.next # 0, ear'.next = FirstOf(hearer.ref) + BlockLen,
         ear'.i = ear'.n, KnownTitle(ear'.heard, mb[Meta].title)
  PROVE  TitlesInv'
  <1>1. PICK h \in Hearers : h = hearer
    BY DEF TitlesInv, TitlesTyped
  <1>2. PICK m \in Blocks : m = Meta /\ mb[m].used
    BY OnBlock DEF TitlesInv
  <1>3. PICK t \in Titles \cup {Blank} : t = mb[Meta].title
    BY OnBlock DEF TitlesInv
  <1>4. PICK pos \in 0..BlockLen : pos = BlockLen
    BY TitlesAssumption
  <1>5. PICK zero \in Nat : zero = 0
    OBVIOUS
  <1>6. PICK x : x = [h EXCEPT !.queue_pos = at, !.offset = zero, !.pos = pos, !.associated = m, !.due = t]
    OBVIOUS
  <1>7. /\ x \in Hearers /\ x.ref = h.ref /\ x.queue_pos = at /\ x.kind = h.kind /\ x.pos = pos
        /\ x.offset = zero /\ x.associated = m /\ x.due = t
    BY <1>1, <1>6 DEF Hearers
  <1>8. x.in_meta = h.in_meta
    BY <1>1, <1>6 DEF Hearers
  <1>9. hearer' = x
    BY <1>1, <1>2, <1>3, <1>4, <1>5, <1>6
  <1>10. PICK F \in Nat \ {0} : F = FirstOf(hearer.ref)
    BY OnBlock DEF TitlesInv
  <1>11. FirstOf(hearer.ref)' = F /\ On'
    BY <1>1, <1>7, <1>9, <1>10 DEF FirstOf, On
  <1>12. x.offset = 0 /\ ~(x.offset > 0)
    BY <1>5, <1>7
  <1>13. x.queue_pos < F + x.pos + (IF x.offset < MetaLen' + 2 THEN 0 ELSE x.offset - MetaLen' - 2)
    <2>1. x.offset < MetaLen' + 2
      BY <1>12, MetaLenNat, Zenon
    <2>2. x.queue_pos < F + x.pos + 0
      BY <1>4, <1>7, <1>10, TitlesAssumption
    <2> QED  BY <2>1, <2>2, Zenon
  <1>14. ear'.next = F + x.pos /\ KnownTitle(ear'.heard, x.due)
    BY <1>3, <1>4, <1>7, <1>10
  <1>15. ~h.in_meta
    BY <1>1 DEF TitlesInv, IceRight
  <1>16. x.pos = BlockLen
    BY <1>4, <1>7
  <1>17. IceRight'
    BY <1>8, <1>9, <1>11, <1>12, <1>13, <1>14, <1>15, <1>16 DEF IceRight
  <1>18. hearer'.kind # "icy"
    BY <1>1, <1>7, <1>9
  <1>19. \E k \in 1..Len(title_queue) : title_queue[k] = hearer'.ref
    BY <1>1, <1>7, <1>9 DEF TitlesInv, MetaUsed
  <1>20. mb[hearer'.associated].used /\ KnownTitle(mb[hearer'.associated].title, hearer'.due)
    BY <1>2, <1>3, <1>7, <1>9 DEF KnownTitle
  <1> QED  BY <1>7, <1>9, <1>17, <1>18, <1>19, <1>20, HearerStep

LEMMA IcePartStep ==
  ASSUME TitlesInv, On, hearer.kind = "iceblocks", hearer.pos < BlockLen,
         UNCHANGED <<mb, current, url_title, title_queue, read>>,
         NEW at \in Int, NEW o \in Nat, o > 0, o < MetaLen + 2 + BlockLen,
         at < FirstOf(hearer.ref) + Behind(MetaLen, o),
         hearer' = [hearer EXCEPT !.queue_pos = at, !.offset = o],
         ear' \in Ears, ear'.next # 0, IceAt(ear', o)
  PROVE  TitlesInv'
  <1>1. PICK h \in Hearers : h = hearer
    BY DEF TitlesInv, TitlesTyped
  <1>2. PICK x : x = [h EXCEPT !.queue_pos = at, !.offset = o]
    OBVIOUS
  <1>3. /\ x \in Hearers /\ x.ref = h.ref /\ x.queue_pos = at /\ x.kind = h.kind
        /\ x.pos = h.pos /\ x.offset = o /\ x.associated = h.associated /\ x.due = h.due
    BY <1>1, <1>2 DEF Hearers
  <1>4. x.in_meta = h.in_meta
    BY <1>1, <1>2 DEF Hearers
  <1>5. hearer' = x
    BY <1>1, <1>2
  <1>6. On' /\ Meta' = Meta /\ MetaLen' = MetaLen
    BY <1>1, <1>3, <1>5 DEF On, OnSame, Meta, MetaLen
  <1>7. FirstOf(hearer.ref)' = FirstOf(hearer.ref)
    BY <1>1, <1>3, <1>5 DEF FirstOf
  <1>8. h.pos = 0 /\ ~h.in_meta
    <2>1. h.pos \in {0, BlockLen} /\ h.pos < BlockLen
      BY <1>1 DEF TitlesInv, IceRight
    <2>2. ~h.in_meta
      BY <1>1 DEF TitlesInv, IceRight
    <2>3. h.pos = 0
      BY <2>1, TitlesAssumption
    <2> QED  BY <2>2, <2>3
  <1>9. ear'.ok /\ IceAt(ear, x.offset)'
    <2>1. IceAt(ear', x.offset)
      BY <1>3
    <2> QED  BY <1>5, <1>6, <1>7, <2>1 DEF IceAt
  <1>10. x.offset > 0 /\ x.offset # 0 /\ x.offset < MetaLen' + 2 + BlockLen
    BY <1>3, <1>6
  <1>11. PICK F \in Nat \ {0} : F = FirstOf(hearer.ref)
    BY OnBlock DEF TitlesInv
  <1>12. x.queue_pos < F + x.pos + (IF x.offset < MetaLen' + 2 THEN 0 ELSE x.offset - MetaLen' - 2)
    <2>1. PICK M \in Nat : M = MetaLen
      BY MetaLenNat
    <2>2. at < F + (IF o < M + 2 THEN 0 ELSE o - M - 2)
      BY <1>11, <2>1 DEF Behind
    <2>3. at < F + 0 + (IF o < M + 2 THEN 0 ELSE o - M - 2)
      BY <2>2
    <2> QED  BY <1>3, <1>6, <1>8, <2>1, <2>3
  <1>13. x.pos = 0 /\ 0 # BlockLen
    BY <1>3, <1>8, TitlesAssumption
  <1>14. IceRight'
    BY <1>4, <1>5, <1>6, <1>7, <1>8, <1>9, <1>10, <1>11, <1>12, <1>13 DEF IceRight
  <1>15. hearer'.kind # "icy"
    BY <1>1, <1>3, <1>5
  <1>16. \E k \in 1..Len(title_queue) : title_queue[k] = hearer'.ref
    BY <1>1, <1>3, <1>5 DEF TitlesInv, MetaUsed
  <1>17. hearer'.associated = hearer.associated /\ hearer'.due = hearer.due
    BY <1>1, <1>3, <1>5
  <1> QED  BY <1>3, <1>5, <1>14, <1>15, <1>16, <1>17, HearerStep

NewTitle == IF OnSame THEN <<>> ELSE Packet(mb[Meta].title, InsertLen)
Whole    == NewTitle \o Iceblock(hearer.ref)

(* What is left of an iceblock, and of the title before it, from place o.  *)
IceBytes(bytes, m, o) == Len(bytes) = m /\ \A k \in 1..m : bytes[k] = IceByte(o + k - 1)

LEMMA WholeIs ==
  ASSUME TitlesInv, On
  PROVE  /\ Len(NewTitle) = MetaLen /\ Whole \in Seq(Bytes)
         /\ IceBytes(Whole, MetaLen + (BlockLen + 2), 0)
  <1>1. PICK t \in Titles \cup {Blank, Same} : t = mb[Meta].title
    BY OnBlock DEF TitlesInv
  <1>2. PICK F \in Nat : F = FirstOf(hearer.ref)
    BY OnBlock DEF TitlesInv
  <1>3. PICK r : r = hearer.ref
    OBVIOUS
  <1>4. PICK n \in Nat : n = InsertLen
    BY TitlesAssumption
  <1>5. PICK l \in Nat : l = BlockLen + 2
    BY TitlesAssumption
  <1>6. PICK M \in Nat : M = MetaLen
    BY MetaLenNat
  <1>7. PICK ins : ins = NewTitle
    OBVIOUS
  <1>8. /\ ins \in Seq(Bytes) /\ Len(ins) = M
        /\ \A k \in 1..M : ins[k] = [p |-> t, i |-> k, n |-> n, num |-> 0]
    <2>1. CASE OnSame
      <3>1. ins = <<>> /\ M = 0
        BY <1>6, <1>7, <2>1 DEF NewTitle, MetaLen
      <3> QED  BY <3>1
    <2>2. CASE ~OnSame
      <3>1. ins = Packet(t, n) /\ M = n
        BY <1>1, <1>4, <1>6, <1>7, <2>2 DEF NewTitle, MetaLen
      <3>2. /\ Packet(t, n) \in Seq(Bytes) /\ Len(Packet(t, n)) = n
            /\ \A k \in 1..n : Packet(t, n)[k] = [p |-> t, i |-> k, n |-> n, num |-> 0]
        BY PacketSeq
      <3> QED  BY <3>1, <3>2, Zenon
    <2> QED  BY <2>1, <2>2
  <1>9. M > 0 => M = n
    BY <1>4, <1>6 DEF MetaLen
  <1>10. PICK str : str = Iceblock(r)
    OBVIOUS
  <1>11. /\ str \in Seq(Bytes) /\ Len(str) = l
         /\ \A k \in 1..l : str[k] = [p |-> "block", i |-> k, n |-> l, num |-> IF k < 3 THEN 0 ELSE F + k - 3]
    <2>1. F = FirstOf(r)
      BY <1>2, <1>3
    <2> QED  BY <1>5, <1>10, <2>1, IceblockSeq
  <1>12. PICK w : w = ins \o str
    OBVIOUS
  <1>13. /\ w \in Seq(Bytes) /\ Len(w) = M + l
         /\ \A k \in 1..(M + l) : w[k] = IF k <= M THEN ins[k] ELSE str[k - M]
    <2>1. /\ ins \o str \in Seq(Bytes) /\ Len(ins \o str) = Len(ins) + Len(str)
          /\ \A k \in 1..(Len(ins) + Len(str)) :
               (ins \o str)[k] = IF k <= Len(ins) THEN ins[k] ELSE str[k - Len(ins)]
      <3>1. ins \in Seq(Bytes) /\ str \in Seq(Bytes)
        BY <1>8, <1>11
      <3> QED  BY <3>1, ConcatProperties, Zenon
    <2> QED  BY <1>8, <1>11, <1>12, <2>1, Zenon
  <1>14. ASSUME NEW k \in 1..(M + l)  PROVE w[k] = IceByte(0 + k - 1)
    <2>1. CASE k <= M
      <3>1. k \in 1..M /\ k - 1 < M /\ (k - 1) + 1 = k /\ 0 + k - 1 = k - 1
        BY <2>1
      <3>2. w[k] = [p |-> t, i |-> k, n |-> n, num |-> 0]
        BY <1>8, <1>13, <2>1, <3>1
      <3> QED  BY <1>1, <1>4, <1>6, <3>1, <3>2 DEF IceByte
    <2>2. CASE ~(k <= M)
      <3>1. PICK j \in 1..l : j = k - M
        BY <2>2
      <3>2. /\ ~(k - 1 < M) /\ (k - 1) + 1 - M = j /\ ((k - 1) - M < 2 <=> j < 3)
            /\ F + ((k - 1) - M - 2) = F + j - 3 /\ 0 + k - 1 = k - 1
        BY <2>2, <3>1
      <3>3. w[k] = str[j]
        BY <1>13, <2>2, <3>1
      <3>4. w[k] = [p |-> "block", i |-> j, n |-> l, num |-> IF j < 3 THEN 0 ELSE F + j - 3]
        BY <1>11, <3>3
      <3>5. IceByte(k - 1) = [p |-> "block", i |-> (k - 1) + 1 - M, n |-> l,
                              num |-> IF (k - 1) - M < 2 THEN 0 ELSE F + ((k - 1) - M - 2)]
        BY <1>2, <1>5, <1>6, <3>2, Zenon DEF IceByte
      <3>6. IceByte(k - 1) = [p |-> "block", i |-> j, n |-> l, num |-> IF j < 3 THEN 0 ELSE F + j - 3]
        BY <3>2, <3>5, Zenon
      <3> QED  BY <3>2, <3>4, <3>6, Zenon
    <2> QED  BY <2>1, <2>2
  <1>15. w = Whole
    BY <1>3, <1>7, <1>10, <1>12 DEF Whole
  <1>16. IceBytes(w, M + l, 0)
    BY <1>13, <1>14, Zenon DEF IceBytes
  <1> QED  BY <1>5, <1>6, <1>7, <1>8, <1>13, <1>15, <1>16, Zenon

LEMMA IceStarts ==
  ASSUME TitlesInv, On, hearer.kind = "iceblocks", hearer.pos < BlockLen
  PROVE  /\ hearer.pos = 0 /\ hearer.offset \in Nat /\ hearer.offset < MetaLen + 2 + BlockLen
         /\ IceAt(ear, hearer.offset) /\ hearer.queue_pos < FirstOf(hearer.ref) + Behind(MetaLen, hearer.offset)
  <1>1. PICK h \in Hearers : h = hearer
    BY DEF TitlesInv, TitlesTyped
  <1>2. PICK L \in Nat \ {0} : L = BlockLen
    BY TitlesAssumption
  <1>3. PICK M \in Nat : M = MetaLen
    BY MetaLenNat
  <1>4. PICK F \in Nat \ {0} : F = FirstOf(hearer.ref)
    BY OnBlock DEF TitlesInv
  <1>5. h.offset \in Nat /\ h.queue_pos \in Int
    BY <1>1 DEF Hearers
  <1>6. IceRight
    BY DEF TitlesInv
  <1>7. h.pos = 0
    <2>1. h.pos \in {0, L} /\ h.pos < L
      BY <1>1, <1>2, <1>6 DEF IceRight
    <2> QED  BY <2>1
  <1>8. h.queue_pos < F + Behind(M, h.offset)
    <2>1. h.queue_pos < F + h.pos + (IF h.offset < M + 2 THEN 0 ELSE h.offset - M - 2)
      BY <1>1, <1>3, <1>4, <1>6 DEF IceRight
    <2>2. h.queue_pos < F + (IF h.offset < M + 2 THEN 0 ELSE h.offset - M - 2)
      BY <1>5, <1>7, <2>1
    <2> QED  BY <2>2 DEF Behind
  <1>9. CASE h.offset > 0
    <2>1. h.offset < M + 2 + L /\ IceAt(ear, h.offset)
      BY <1>1, <1>2, <1>3, <1>6, <1>9 DEF IceRight
    <2> QED  BY <1>1, <1>2, <1>3, <1>4, <1>5, <1>7, <1>8, <2>1
  <1>10. CASE ~(h.offset > 0)
    <2>1. h.offset = 0
      BY <1>5, <1>10
    <2>2. ear.i = ear.n /\ KnownTitle(ear.heard, h.due) /\ ear.next = F
      <3>1. ear.i = ear.n /\ KnownTitle(ear.heard, h.due) /\ ear.next = F + h.pos
        BY <1>1, <1>4, <1>6, <2>1 DEF IceRight
      <3> QED  BY <1>7, <3>1
    <2>3. ear.ok
      BY <1>6 DEF IceRight
    <2>4. \A p, n : Amid(ear, p, 0, n)
      BY <2>2 DEF Amid
    <2>5. M = 0 => KnownTitle(ear.heard, mb[Meta].title)
      <3> SUFFICES ASSUME M = 0 PROVE KnownTitle(ear.heard, mb[Meta].title)
        OBVIOUS
      <3>1. OnSame
        BY <1>3, TitlesAssumption DEF MetaLen
      <3>2. Meta \in Blocks /\ Meta = hearer.associated
        BY <3>1, OnBlock DEF TitlesInv, OnSame
      <3>3. hearer.associated # NoMeta
        BY <3>2, TitlesAssumption
      <3>4. KnownTitle(mb[hearer.associated].title, hearer.due)
        BY <3>3 DEF TitlesInv, MetaUsed
      <3> QED  BY <1>1, <2>2, <3>2, <3>4 DEF KnownTitle
    <2>6. IceAt(ear, 0)
      <3>1. 0 < M + 2 /\ (0 >= M => M = 0 /\ 0 - M = 0) /\ F + 0 = F
        OBVIOUS
      <3> QED  BY <1>3, <1>4, <2>2, <2>3, <2>4, <2>5, <3>1 DEF IceAt
    <2>7. 0 < M + 2 + L
      OBVIOUS
    <2> QED  BY <1>1, <1>2, <1>3, <1>4, <1>5, <1>7, <1>8, <2>1, <2>6, <2>7
  <1> QED  BY <1>9, <1>10

LEMMA IceblockStep ==
  ASSUME TitlesInv, SendsIceblock
  PROVE  TitlesInv'
  <1>1. /\ On /\ hearer.kind = "iceblocks" /\ hearer.pos < BlockLen
        /\ UNCHANGED <<mb, current, url_title, title_queue, read, tags>>
    BY DEF SendsIceblock
  <1>2. PICK whole : whole = Whole
    OBVIOUS
  <1>3. PICK skip : skip = Len(NewTitle) + 2
    OBVIOUS
  <1>4. PICK bytes : bytes = SubSeq(whole, hearer.offset + 1, Len(whole))
    OBVIOUS
  <1>5. PICK ret \in 1..Len(bytes) :
          /\ ear' = Heard(bytes, ret)
          /\ LET at == [hearer EXCEPT
                          !.queue_pos = @ + ret - (IF hearer.offset < skip
                                                   THEN skip - hearer.offset ELSE 0),
                          !.offset = @ + ret] IN
             hearer' = IF at.offset < Len(whole) THEN at
               ELSE [at EXCEPT !.pos = BlockLen, !.offset = 0, !.associated = Meta,
                               !.due = mb[Meta].title]
    BY <1>2, <1>3, <1>4, Zenon DEF SendsIceblock, Whole, NewTitle
  <1>6. PICK h \in Hearers : h = hearer
    BY DEF TitlesInv, TitlesTyped
  <1>7. PICK L \in Nat \ {0} : L = BlockLen
    BY TitlesAssumption
  <1>8. PICK M \in Nat : M = MetaLen
    BY MetaLenNat
  <1>9. PICK F \in Nat \ {0} : F = FirstOf(hearer.ref)
    BY <1>1, OnBlock DEF TitlesInv
  <1>10. /\ hearer.pos = 0 /\ hearer.offset \in Nat /\ hearer.offset < MetaLen + 2 + BlockLen
         /\ IceAt(ear, hearer.offset)
         /\ hearer.queue_pos < FirstOf(hearer.ref) + Behind(MetaLen, hearer.offset)
    BY <1>1, IceStarts
  <1>11. PICK o \in Nat : o = h.offset /\ o < M + 2 + L
    BY <1>6, <1>7, <1>8, <1>10
  <1>12. PICK qp \in Int : qp = h.queue_pos /\ qp < F + Behind(M, o)
    <2>1. h.queue_pos \in Int
      BY <1>6 DEF Hearers
    <2> QED  BY <1>6, <1>8, <1>9, <1>10, <1>11, <2>1
  <1>13. skip = M + 2 /\ whole \in Seq(Bytes) /\ IceBytes(whole, M + (L + 2), 0)
    BY <1>1, <1>2, <1>3, <1>7, <1>8, WholeIs
  <1>14. PICK all \in Nat : all = M + (L + 2)
    OBVIOUS
  <1>15. Len(whole) = all /\ \A k \in 1..all : whole[k] = IceByte(0 + k - 1)
    BY <1>13, <1>14, Zenon DEF IceBytes
  <1>16. PICK m \in Nat : m = all - o
    BY <1>11, <1>14
  <1>17. Len(bytes) = m /\ \A k \in 1..m : bytes[k] = IceByte(o + k - 1)
    <2>1. PICK j \in Int : j = o + 1
      OBVIOUS
    <2>2. bytes = SubSeq(whole, j, all)
      BY <1>4, <1>6, <1>11, <1>15, <2>1
    <2>3. /\ SubSeq(whole, j, all) \in Seq(Bytes)
          /\ Len(SubSeq(whole, j, all)) = IF j <= all THEN all - j + 1 ELSE 0
          /\ \A k \in 1..(all - j + 1) : SubSeq(whole, j, all)[k] = whole[j + k - 1]
      <3>1. \A i \in j..all : whole[i] \in Bytes
        BY <1>13, <1>15, <2>1
      <3>2. all \in Int
        OBVIOUS
      <3> QED  BY <2>1, <3>1, <3>2, SubSeqProperties
    <2>4. all - j + 1 = m /\ j <= all
      BY <1>11, <1>14, <1>16, <2>1
    <2>5. Len(bytes) = m
      BY <2>2, <2>3, <2>4, Zenon
    <2>6. ASSUME NEW k \in 1..m PROVE bytes[k] = IceByte(o + k - 1)
      <3>1. k \in 1..(all - j + 1) /\ j + k - 1 \in 1..all /\ 0 + (j + k - 1) - 1 = o + k - 1
        BY <1>16, <2>1
      <3>2. bytes[k] = whole[j + k - 1]
        BY <2>2, <2>3, <3>1, Zenon
      <3>3. whole[j + k - 1] = IceByte(0 + (j + k - 1) - 1)
        BY <1>15, <3>1, Zenon
      <3> QED  BY <3>1, <3>2, <3>3, Zenon
    <2> QED  BY <2>5, <2>6
  <1>18. ret \in 1..m /\ ret \in 0..m
    BY <1>5, <1>17
  <1>19. ear' \in Ears /\ ear'.next # 0 /\ IceAt(ear', o + ret)
    <2>1. TitlesTyped /\ MetaUsed /\ ear.next # 0
      BY DEF TitlesInv, TitlesTyped
    <2>2. IceAt(ear, o)
      BY <1>6, <1>10, <1>11
    <2>3. o + m <= MetaLen + 2 + BlockLen
      BY <1>7, <1>8, <1>14, <1>16
    <2>4. /\ Heard(bytes, ret) \in Ears /\ Heard(bytes, ret).next # 0
          /\ IceAt(Heard(bytes, ret), o + ret)
      BY <1>1, <1>17, <1>18, <2>1, <2>2, <2>3, IceRun
    <2> QED  BY <1>5, <2>4
  <1>20. PICK on \in Nat : on = o + ret /\ on > 0 /\ on <= all
    BY <1>11, <1>16, <1>18
  <1>21. PICK at \in Int : at = qp + ret - (IF o < skip THEN skip - o ELSE 0)
    <2>1. PICK k \in Nat : k = skip
      BY <1>13
    <2>2. qp + ret - (IF o < k THEN k - o ELSE 0) \in Int
      BY <1>18
    <2> QED  BY <2>1, <2>2
  <1>22. at < F + Behind(M, on)
    <2>1. qp < F + (IF o < M + 2 THEN 0 ELSE o - M - 2)
      BY <1>12 DEF Behind
    <2>2. at < F + (IF on < M + 2 THEN 0 ELSE on - M - 2)
      <3>1. CASE o < M + 2
        <4>1. at = qp + ret - ((M + 2) - o) /\ qp < F
          BY <1>13, <1>21, <2>1, <3>1
        <4> QED  BY <1>18, <1>20, <4>1
      <3>2. CASE ~(o < M + 2)
        <4>1. at = qp + ret /\ qp < F + (o - M - 2)
          BY <1>13, <1>18, <1>21, <2>1, <3>2
        <4> QED  BY <1>18, <1>20, <3>2, <4>1
      <3> QED  BY <3>1, <3>2
    <2> QED  BY <2>2 DEF Behind
  <1>23. PICK x : x = [h EXCEPT !.queue_pos = at, !.offset = on]
    OBVIOUS
  <1>24. x.offset = on
    BY <1>23 DEF Hearers
  <1>25. hearer' = IF x.offset < all THEN x
           ELSE [x EXCEPT !.pos = BlockLen, !.offset = 0, !.associated = Meta, !.due = mb[Meta].title]
    <2>1. h.offset = o /\ h.queue_pos = qp
      BY <1>11, <1>12
    <2>2. x = [hearer EXCEPT
                 !.queue_pos = @ + ret - (IF hearer.offset < skip THEN skip - hearer.offset ELSE 0),
                 !.offset = @ + ret]
      BY <1>6, <1>20, <1>21, <1>23, <2>1
    <2> QED  BY <1>5, <1>15, <2>2, Zenon
  <1>26. CASE on < all
    <2>1. hearer' = [hearer EXCEPT !.queue_pos = at, !.offset = on]
      BY <1>6, <1>23, <1>24, <1>25, <1>26
    <2>2. on < MetaLen + 2 + BlockLen
      BY <1>7, <1>8, <1>14, <1>26
    <2>3. at < FirstOf(hearer.ref) + Behind(MetaLen, on)
      BY <1>8, <1>9, <1>22
    <2>4. IceAt(ear', on)
      BY <1>19, <1>20
    <2> QED  BY <1>1, <1>19, <1>20, <2>1, <2>2, <2>3, <2>4, IcePartStep
  <1>27. CASE ~(on < all)
    <2>1. on = all /\ on >= M /\ on - M = L + 2 /\ ~(on < M + 2) /\ on - M - 2 = L
      BY <1>14, <1>20, <1>27
    <2>2. hearer' = [x EXCEPT !.pos = BlockLen, !.offset = 0, !.associated = Meta, !.due = mb[Meta].title]
      BY <1>24, <1>25, <1>27
    <2>3. hearer' = [hearer EXCEPT !.queue_pos = at, !.offset = 0, !.pos = BlockLen,
                                   !.associated = Meta, !.due = mb[Meta].title]
      BY <1>6, <1>23, <2>2 DEF Hearers
    <2>4. IceAt(ear', on)
      BY <1>19, <1>20
    <2>5. /\ Amid(ear', "block", on - M, BlockLen + 2)
          /\ ear'.next = F + (IF on < M + 2 THEN 0 ELSE on - M - 2)
          /\ KnownTitle(ear'.heard, mb[Meta].title)
      BY <1>8, <1>9, <2>1, <2>4 DEF IceAt
    <2>6. ear'.ok
      BY <2>4 DEF IceAt
    <2>7. ear'.i = ear'.n
      <3>1. L + 2 # 0
        OBVIOUS
      <3>2. Amid(ear', "block", L + 2, L + 2)
        BY <1>7, <2>1, <2>5
      <3> QED  BY <3>1, <3>2 DEF Amid
    <2>8. ear'.next = FirstOf(hearer.ref) + BlockLen
      BY <1>7, <1>9, <2>1, <2>5
    <2>9. at < FirstOf(hearer.ref) + BlockLen
      BY <1>7, <1>9, <1>22, <2>1 DEF Behind
    <2> QED  BY <1>1, <1>19, <2>3, <2>5, <2>6, <2>7, <2>8, <2>9, IceDoneStep
  <1> QED  BY <1>26, <1>27

LEMMA TitlesBegin ==
  ASSUME TitlesInit
  PROVE  TitlesInv
  <1>1. /\ current = CHOOSE b \in Blocks : TRUE
        /\ mb = [b \in Blocks |-> IF b = current THEN [FreeMeta EXCEPT !.count = 1, !.used = TRUE]
                                  ELSE FreeMeta]
        /\ url_title = [title |-> Blank, update |-> FALSE]
        /\ title_queue = <<>> /\ read = 0
        /\ ear = [p |-> Same, i |-> 1, n |-> 1, since |-> 0, next |-> 1, heard |-> Blank, ok |-> TRUE]
    BY DEF TitlesInit
  <1>2. PICK k \in Kinds :
          hearer = [kind |-> k, ref |-> Nowhere, pos |-> 0, since |-> 0, offset |-> 0,
                    in_meta |-> FALSE, associated |-> NoMeta, queue_pos |-> 0, due |-> Blank]
    BY DEF TitlesInit
  <1>3. current \in Blocks
    BY <1>1, TitlesAssumption
  <1>4. \A b \in Blocks :
          mb[b] = [count |-> IF b = current THEN 1 ELSE 0, on_queue |-> FALSE, title |-> Blank,
                   used |-> b = current]
    BY <1>1 DEF FreeMeta
  <1>5. mb \in [Blocks -> MetaRecords]
    <2>1. mb = [b \in Blocks |-> mb[b]]
      BY <1>1
    <2>2. ASSUME NEW b \in Blocks PROVE mb[b] \in MetaRecords
      <3>1. PICK n \in Int : n = IF b = current THEN 1 ELSE 0
        OBVIOUS
      <3>2. PICK u \in BOOLEAN : u = (b = current)
        OBVIOUS
      <3>3. [count |-> n, on_queue |-> FALSE, title |-> Blank, used |-> u] \in MetaRecords
        BY DEF MetaRecords
      <3> QED  BY <1>4, <3>1, <3>2, <3>3, Zenon
    <2> QED  BY <2>1, <2>2
  <1>6. hearer \in Hearers
    <2>1. 0 \in 0..BlockLen /\ 0 \in 0..Interval
      BY TitlesAssumption
    <2>2. Nowhere \in [id : Nat, meta : Blocks \cup {NoMeta}]
      BY DEF Nowhere
    <2>3. ASSUME NEW p \in 0..BlockLen, NEW s \in 0..Interval,
                 NEW r \in [id : Nat, meta : Blocks \cup {NoMeta}], NEW z \in Nat, NEW q \in Int
          PROVE  [kind |-> k, ref |-> r, pos |-> p, since |-> s, offset |-> z,
                  in_meta |-> FALSE, associated |-> NoMeta, queue_pos |-> q, due |-> Blank] \in Hearers
      BY DEF Hearers
    <2> QED  BY <1>2, <2>1, <2>2, <2>3
  <1>7. ear \in Ears /\ ear.next # 0
    <2>1. ear \in Ears
      BY <1>1 DEF Ears
    <2> QED  BY <1>1, <2>1
  <1>8. TitlesTyped
    <2>1. title_queue \in Seq(QueueBlocks) /\ Len(title_queue) <= MaxQueue /\ read \in Nat
      BY <1>1, TitlesAssumption
    <2>2. url_title \in [title : Titles \cup {Blank}, update : BOOLEAN]
      BY <1>1
    <2> QED  BY <1>3, <1>5, <1>6, <1>7, <2>1, <2>2 DEF TitlesTyped
  <1>9. MetaCounted
    <2>1. ASSUME NEW b \in Blocks
          PROVE  mb[b].count = Cardinality(PlacesOf(title_queue, b)) + (IF current = b THEN 1 ELSE 0)
      <3>1. PlacesOf(title_queue, b) = {}
        BY <1>1 DEF PlacesOf
      <3>2. Cardinality(PlacesOf(title_queue, b)) = 0
        BY <3>1, FS_EmptySet
      <3>3. mb[b].count = IF b = current THEN 1 ELSE 0
        BY <1>1 DEF FreeMeta
      <3> QED  BY <3>2, <3>3
    <2> QED  BY <2>1, CountedIs
  <1>10. ~On /\ hearer.associated = NoMeta
    BY <1>2 DEF On
  <1>11. MetaUsed
    <2>1. mb[current].used
      <3>1. mb[current] = [FreeMeta EXCEPT !.count = 1, !.used = TRUE]
        BY <1>1, <1>3
      <3>2. [FreeMeta EXCEPT !.count = 1, !.used = TRUE].used = TRUE
        BY DEF FreeMeta
      <3> QED  BY <3>1, <3>2
    <2>2. 1..Len(title_queue) = {}
      BY <1>1
    <2> QED  BY <1>10, <2>1, <2>2 DEF MetaUsed
  <1>12. /\ hearer.pos = 0 /\ hearer.offset = 0 /\ hearer.since = 0 /\ hearer.due = Blank
         /\ ear.since = 0 /\ ear.heard = Blank /\ ear.i = ear.n
    BY <1>1, <1>2
  <1>13. ear.ok /\ ~hearer.in_meta
    BY <1>1, <1>2
  <1>14. KnownTitle(ear.heard, hearer.due)
    BY <1>12 DEF KnownTitle
  <1>15. IcyRight
    BY <1>10, <1>12, <1>13, <1>14 DEF IcyRight
  <1>16. IceRight
    <2>1. hearer.pos \in {0, BlockLen} /\ (hearer.pos = BlockLen => hearer.offset = 0)
      BY <1>12
    <2> QED  BY <1>10, <1>12, <1>13, <1>14, <2>1 DEF IceRight
  <1> QED  BY <1>8, <1>9, <1>11, <1>15, <1>16 DEF TitlesInv

LEMMA TitlesIdle ==
  ASSUME TitlesInv, UNCHANGED titles
  PROVE  TitlesInv'
  <1>1. UNCHANGED <<mb, current, url_title, title_queue, read, hearer, ear>>
    BY DEF titles
  <1>2. TitlesTyped'
    BY <1>1 DEF TitlesInv, TitlesTyped
  <1>3. MetaCounted'
    BY <1>1 DEF TitlesInv, MetaCounted
  <1>4. MetaUsed'
    BY <1>1 DEF TitlesInv, MetaUsed, On
  <1> QED  BY <1>1, <1>2, <1>3, <1>4, TitleSourceStep

LEMMA TitlesInvGives ==
  ASSUME TitlesInv
  PROVE  TitlesTypeOK /\ MetaCounted /\ WireSound /\ PosRight /\ (~Recycled => TitleHeard)
  <1>1. PICK h \in Hearers : h = hearer
    BY DEF TitlesInv, TitlesTyped
  <1>2. h.kind = "icy" \/ h.kind = "iceblocks"
    BY <1>1, TitlesAssumption DEF Hearers
  <1>3. WireSound
    BY <1>1, <1>2 DEF TitlesInv, IcyRight, IceRight, WireSound
  <1>4. h.pos \in 0..BlockLen /\ h.since \in 0..Interval /\ h.offset \in Nat
    BY <1>1 DEF Hearers
  <1>5. PICK L \in Nat \ {0} : L = BlockLen
    BY TitlesAssumption
  <1>6. PICK N \in Nat \ {0} : N = InsertLen
    BY TitlesAssumption
  <1>7. PICK M \in Nat : M = MetaLen /\ M <= N
    BY <1>6, MetaLenNat DEF MetaLen
  <1>8. h.kind = "icy" => h.offset \in 0..(N - 1)
    <2> SUFFICES ASSUME h.kind = "icy" PROVE h.offset \in 0..(N - 1)
      OBVIOUS
    <2>1. IcyRight
      BY <1>1 DEF TitlesInv
    <2>2. CASE h.in_meta
      <3>1. h.offset \in 1..(N - 1)
        BY <1>1, <1>6, <2>1, <2>2 DEF IcyRight
      <3> QED  BY <3>1
    <2>3. CASE ~h.in_meta
      <3>1. h.offset = 0
        BY <1>1, <2>1, <2>3 DEF IcyRight
      <3> QED  BY <3>1
    <2> QED  BY <2>2, <2>3
  <1>9. h.kind = "iceblocks" => h.offset < M + 2 + L
    <2> SUFFICES ASSUME h.kind = "iceblocks" PROVE h.offset < M + 2 + L
      OBVIOUS
    <2>1. IceRight
      BY <1>1 DEF TitlesInv
    <2>2. h.offset = 0 \/ h.offset > 0
      BY <1>4
    <2>3. h.offset > 0 => h.offset < M + 2 + L
      BY <1>1, <1>5, <1>7, <2>1 DEF IceRight
    <2> QED  BY <2>2, <2>3
  <1>10. h.offset \in 0..(N + L + 1)
    BY <1>2, <1>4, <1>7, <1>8, <1>9
  <1>11. \A b \in Blocks : mb[b].count \in 0..(MaxQueue + 1)
    <2> SUFFICES ASSUME NEW b \in Blocks PROVE mb[b].count \in 0..(MaxQueue + 1)
      OBVIOUS
    <2>1. title_queue \in Seq(QueueBlocks) /\ Len(title_queue) <= MaxQueue
      BY DEF TitlesInv, TitlesTyped
    <2>2. PICK n \in Nat : n = Len(title_queue) /\ n <= MaxQueue
      BY <2>1
    <2>3. PlacesOf(title_queue, b) \subseteq 1..n
      BY <2>2 DEF PlacesOf
    <2>4. IsFiniteSet(1..n) /\ Cardinality(1..n) = n
      BY FS_Interval
    <2>5. PICK c \in Nat : c = Cardinality(PlacesOf(title_queue, b)) /\ c <= n
      BY <2>3, <2>4, FS_Subset, FS_CardinalityType
    <2>6. mb[b].count = c + (IF current = b THEN 1 ELSE 0)
      BY <2>5, CountedIs DEF TitlesInv
    <2> QED  BY <2>2, <2>5, <2>6, TitlesAssumption
  <1>12. TitlesTypeOK
    BY <1>1, <1>4, <1>5, <1>6, <1>8, <1>10, <1>11 DEF TitlesTypeOK
  <1>13. ~Recycled => TitleHeard
    <2> SUFFICES ASSUME ~Recycled, hearer.offset = 0 PROVE ear.heard = hearer.due
      BY DEF TitleHeard
    <2>1. KnownTitle(ear.heard, hearer.due)
      BY <1>1, <1>2 DEF TitlesInv, IcyRight, IceRight
    <2> QED  BY <2>1 DEF KnownTitle
  <1>14. PosRight
    <2> SUFFICES ASSUME On
                 PROVE  IF hearer.kind = "icy" THEN hearer.queue_pos = ear.next - 1
                        ELSE hearer.queue_pos <= ear.next - 1
      BY DEF PosRight
    <2>1. CASE h.kind = "icy"
      BY <1>1, <2>1 DEF TitlesInv, IcyRight
    <2>2. CASE h.kind = "iceblocks"
      <3>1. PICK F \in Nat \ {0} : F = FirstOf(hearer.ref)
        BY OnBlock DEF TitlesInv
      <3>2. h.queue_pos \in Int /\ ear.next \in Nat
        BY <1>1 DEF TitlesInv, TitlesTyped, Hearers, Ears
      <3>3. IceRight
        BY <1>1, <2>2 DEF TitlesInv
      <3>4. h.queue_pos < F + h.pos + (IF h.offset < M + 2 THEN 0 ELSE h.offset - M - 2)
        BY <1>1, <1>7, <3>1, <3>3 DEF IceRight
      <3>5. CASE h.offset = 0
        <4>1. ear.next = F + h.pos
          BY <1>1, <3>1, <3>3, <3>5 DEF IceRight
        <4>2. h.queue_pos < F + h.pos
          BY <1>4, <3>2, <3>4, <3>5
        <4> QED  BY <1>1, <1>4, <2>2, <3>2, <4>1, <4>2
      <3>6. CASE h.offset # 0
        <4>1. h.offset > 0
          BY <1>4, <3>6
        <4>2. IceAt(ear, h.offset)
          BY <1>1, <3>3, <4>1 DEF IceRight
        <4>3. h.pos = 0
          BY <1>1, <3>3, <3>6 DEF IceRight
        <4>4. ear.next = F + (IF h.offset < M + 2 THEN 0 ELSE h.offset - M - 2)
          <5>1. CASE h.offset < M
            <6>1. ear.next = F /\ h.offset < M + 2
              BY <1>4, <1>7, <3>1, <4>2, <5>1 DEF IceAt
            <6> QED  BY <6>1
          <5>2. CASE ~(h.offset < M)
            BY <1>4, <1>7, <3>1, <4>2, <5>2 DEF IceAt
          <5> QED  BY <5>1, <5>2
        <4>5. h.queue_pos < ear.next
          BY <1>4, <3>4, <4>3, <4>4
        <4> QED  BY <1>1, <2>2, <3>2, <4>5
      <3> QED  BY <3>5, <3>6
    <2> QED  BY <1>2, <2>1, <2>2
  <1> QED  BY <1>3, <1>12, <1>13, <1>14 DEF TitlesInv

LEMMA TitlesStand ==
  TitlesSpec => []TitlesInv
  <1>1. TitlesInit => TitlesInv
    BY TitlesBegin
  <1>2. TitlesInv /\ [TitlesNext]_titles => TitlesInv'
    <2> SUFFICES ASSUME TitlesInv, [TitlesNext]_titles PROVE TitlesInv'
      OBVIOUS
    <2>1. ASSUME NEW t \in Titles, SetTag(t) PROVE TitlesInv'
      BY <2>1, TagStep
    <2>2. CASE MetadataSetup
      BY <2>2, MetadataStep
    <2>3. CASE Push
      BY <2>3, PushStep
    <2>4. CASE DetachQueueBlock
      BY <2>4, DetachStep
    <2>5. CASE Starts
      BY <2>5, StartStep
    <2>6. CASE NextBlock
      BY <2>6, NextStep
    <2>7. CASE SendsAudio
      BY <2>7, AudioStep
    <2>8. CASE SendsInsert
      BY <2>8, InsertStep
    <2>9. CASE SendsIceblock
      BY <2>9, IceblockStep
    <2>10. CASE UNCHANGED titles
      BY <2>10, TitlesIdle
    <2> QED  BY <2>1, <2>2, <2>3, <2>4, <2>5, <2>6, <2>7, <2>8, <2>9, <2>10 DEF TitlesNext
  <1> QED  BY <1>1, <1>2, PTL DEF TitlesSpec

(* However the writes are cut short and whenever titles change: a listener *)
(* gets the stream's bytes in order, with every insert whole and where the *)
(* interval says, queue_pos is where it is, and a metadata_block has one   *)
(* reference for each queue block that has it (format_mp3.c                *)
(* send_icy_metadata, send_iceblock_to_client, format_mpeg_detach_qb).     *)
THEOREM TitlesOnTheWire ==
  TitlesSpec => [](TitlesTypeOK /\ MetaCounted /\ WireSound /\ PosRight)
  <1>1. TitlesInv => TitlesTypeOK /\ MetaCounted /\ WireSound /\ PosRight
    BY TitlesInvGives
  <1> QED  BY <1>1, TitlesStand, PTL

(* And it has heard the title of the block it is on, as long as the memory *)
(* of a metadata_block is not used again for the next: the listener knows  *)
(* the one it had by its address (format_mp3.c:579).           *)
THEOREM TitlesKept ==
  ASSUME ~Recycled
  PROVE  TitlesSpec => []TitlesSound
  <1>1. TitlesInv => TitlesSound
    BY TitlesInvGives DEF TitlesSound
  <1> QED  BY <1>1, TitlesStand, PTL
=============================================================================
