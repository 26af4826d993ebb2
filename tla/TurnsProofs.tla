---------------------------- MODULE TurnsProofs ----------------------------
(***************************************************************************)
(* What the authenticator of a mountpoint keeps for any workers, handler   *)
(* threads and requests: its counts, that it is freed only unused, that no *)
(* request waits beside an idle handle, and the bound on those waiting.    *)
(***************************************************************************)
EXTENDS AuthQueue, Worker, FiniteSetTheorems, SequenceTheorems, WellFoundedInduction, TLAPS

(* Only one drops the reference of the mount_proxy, and only when nobody   *)
(* holds the mount_proxy any more.                                         *)
OneClears ==
  /\ Clearing => mountref = 0
  /\ \A w \in Workers : at[w] = "clear" =>
       /\ config \notin {"clear", "lost"}
       /\ \A v \in Workers : at[v] = "clear" => v = w
       /\ \A i \in Handlers : thread[i] # "clear"
  /\ \A i \in Handlers : thread[i] = "clear" =>
       /\ config \notin {"clear", "lost"}
       /\ \A j \in Handlers : thread[j] = "clear" => j = i

FreedAtZero == freed <=> refcount = 0

(* A worker that is to queue a request has one.                            *)
Asked == \A w \in Workers : at[w] = "checked" => req[w] \in Requests

Counts == TypeOK /\ CountsRight /\ OneClears /\ FreedAtZero /\ Asked

(* A request said to be queued is on the queue.                            *)
QueuedListed ==
  \A r \in Requests : state[r] = "queued" => \E k \in 1 .. Len(queue) : queue[k] = r

(* The listeners that wait, and the workers that are about to add one:     *)
(* each passed the test of pending_count before the next did.              *)
Waiting == {r \in Listeners : state[r] = "queued"}
Adding  == {w \in Workers : at[w] = "checked" /\ req[w] \in Listeners}

AddersBounded ==
  Cardinality(Waiting) + Cardinality(Adding) <= PendingLimit + Cardinality(Workers)

IInv == Counts /\ NobodyIdles /\ QueuedListed /\ AddersBounded

-----------------------------------------------------------------------------
(* The size of S when d is put in, or taken out.                           *)
Toggled(S, d) ==
  /\ Cardinality(S) \in Nat
  /\ Cardinality(S \cup {d}) = IF d \in S THEN Cardinality(S) ELSE Cardinality(S) + 1
  /\ Cardinality(S \ {d}) = IF d \in S THEN Cardinality(S) - 1 ELSE Cardinality(S)

LEMMA Toggle ==
  ASSUME NEW S, IsFiniteSet(S), NEW d
  PROVE  Toggled(S, d)
  BY FS_AddElement, FS_RemoveElement, FS_CardinalityType DEF Toggled

(* The sets that are counted, as values of thread and at.                  *)
Alive == {"starting", "ready", "working", "placing", "clear"}
Ready == {"starting", "ready"}
Holds == {"checked", "release", "moving"}
Free  == {i \in Up : thread[i] \in Ready}

LEMMA Sizes ==
  ASSUME TypeOK
  PROVE  /\ Up = {i \in Handlers : thread[i] \in Alive} /\ IsFiniteSet(Up)
         /\ IsFiniteSet(Free) /\ Free \subseteq Up
         /\ IsFiniteSet(Placing) /\ Placing \subseteq Up
         /\ IsFiniteSet(Holding)
         /\ Cardinality(Up) \in Nat /\ Cardinality(Placing) \in Nat
         /\ Cardinality(Free) \in Nat /\ Cardinality(Holding) \in Nat
         /\ Cardinality(Free) <= Cardinality(Up)
  <1>1. /\ Up = {i \in Handlers : thread[i] \in Alive} /\ Up \subseteq Handlers
        /\ Placing \subseteq Up /\ Free \subseteq Up /\ Holding \subseteq Workers
    BY DEF TypeOK, Up, Alive, Free, Ready, Holding, Placing
  <1>2. IsFiniteSet(Up) /\ IsFiniteSet(Holding)
    BY <1>1, AuthAssumption, FS_Subset
  <1> QED  BY <1>1, <1>2, FS_Subset, FS_CardinalityType

LEMMA ThreadMoves ==
  ASSUME TypeOK, TypeOK', NEW i \in Handlers, NEW v, thread' = [thread EXCEPT ![i] = v]
  PROVE  /\ (thread[i] \in Alive <=> v \in Alive) => Cardinality(Up') = Cardinality(Up)
         /\ thread[i] = "none" /\ v \in Alive => Cardinality(Up') = Cardinality(Up) + 1
         /\ v = "none" /\ thread[i] # "none" => Cardinality(Up') = Cardinality(Up) - 1
         /\ (thread[i] = "placing" <=> v = "placing") =>
               Cardinality(Placing') = Cardinality(Placing)
         /\ thread[i] # "placing" /\ v = "placing" =>
               Cardinality(Placing') = Cardinality(Placing) + 1
         /\ thread[i] = "placing" /\ v # "placing" =>
               Cardinality(Placing') = Cardinality(Placing) - 1
         /\ (thread[i] \in Ready <=> v \in Ready) => Cardinality(Free') = Cardinality(Free)
         /\ thread[i] \notin Ready /\ v \in Ready => Cardinality(Free') = Cardinality(Free) + 1
         /\ thread[i] \in Ready /\ v \notin Ready => Cardinality(Free') = Cardinality(Free) - 1
  <1>1. \A x \in Handlers : thread'[x] = IF x = i THEN v ELSE thread[x]
    BY DEF TypeOK
  <1>2. /\ v \in Alive => Up' = Up \cup {i}
        /\ v \notin Alive => Up' = Up \ {i}
        /\ i \in Up <=> thread[i] \in Alive
        /\ thread[i] \in Alive <=> thread[i] # "none"
    BY <1>1 DEF TypeOK, Up, Alive
  <1>3. /\ v = "placing" => Placing' = Placing \cup {i}
        /\ v # "placing" => Placing' = Placing \ {i}
        /\ i \in Placing <=> thread[i] = "placing"
    BY <1>1 DEF Placing
  <1>4. /\ v \in Ready => Free' = Free \cup {i}
        /\ v \notin Ready => Free' = Free \ {i}
        /\ i \in Free <=> thread[i] \in Ready
    BY <1>1 DEF TypeOK, Up, Free, Ready
  <1>5. /\ Toggled(Up, i) /\ Toggled(Placing, i) /\ Toggled(Free, i)
    BY Sizes, Toggle
  <1>6. "none" \notin Alive
    BY DEF Alive
  <1> HIDE DEF Up, Placing, Free
  <1> QED  BY <1>2, <1>3, <1>4, <1>5, <1>6 DEF Toggled

LEMMA WorkerMoves ==
  ASSUME TypeOK, NEW w \in Workers, NEW v, at' = [at EXCEPT ![w] = v]
  PROVE  /\ (at[w] \in Holds <=> v \in Holds) => Cardinality(Holding') = Cardinality(Holding)
         /\ at[w] \notin Holds /\ v \in Holds => Cardinality(Holding') = Cardinality(Holding) + 1
         /\ at[w] \in Holds /\ v \notin Holds => Cardinality(Holding') = Cardinality(Holding) - 1
  <1>1. \A x \in Workers : at'[x] = IF x = w THEN v ELSE at[x]
    BY DEF TypeOK
  <1>2. /\ v \in Holds => Holding' = Holding \cup {w}
        /\ v \notin Holds => Holding' = Holding \ {w}
        /\ w \in Holding <=> at[w] \in Holds
    BY <1>1 DEF Holding, Holds
  <1>3. Toggled(Holding, w)
    BY Sizes, Toggle
  <1> HIDE DEF Holding
  <1> QED  BY <1>2, <1>3 DEF Toggled

(* Who uses them keeps the counts above zero.                              *)
LEMMA InUse ==
  ASSUME Counts
  PROVE  /\ \A w \in Workers : at[w] \in Holds => mountref >= 1
         /\ \A i \in Handlers : thread[i] = "placing" => mountref >= 1
         /\ config \in {"listed", "dropped"} => mountref >= 1
         /\ \A i \in Handlers : thread[i] # "none" => refcount >= 1
         /\ mountref > 0 \/ Clearing => refcount >= 1
  <1>1. TypeOK /\ CountsRight
    BY DEF Counts
  <1>2. /\ Up # {} => Cardinality(Up) >= 1
        /\ Holding # {} => Cardinality(Holding) >= 1
        /\ Placing # {} => Cardinality(Placing) >= 1
    BY <1>1, Sizes, FS_EmptySet
  <1>4. /\ \A w \in Workers : at[w] \in Holds => Holding # {}
        /\ \A i \in Handlers : thread[i] = "placing" => Placing # {}
        /\ \A i \in Handlers : thread[i] # "none" => Up # {}
    BY DEF Holding, Placing, Up, Holds
  <1>5. /\ Cardinality(Up) \in Nat /\ Cardinality(Placing) \in Nat /\ Cardinality(Holding) \in Nat
    BY <1>1, Sizes
  <1>6. leaked \in Nat
    BY <1>1, AuthAssumption DEF TypeOK
  <1> QED  BY <1>1, <1>2, <1>4, <1>5, <1>6 DEF CountsRight

-----------------------------------------------------------------------------
LEMMA TypedWorker ==
  ASSUME Counts, NEW w \in Workers,
         WorkerGoesOn(w) \/ Look(w) \/ \E r \in Requests : Arrive(w, r)
  PROVE  TypeOK'
  <1> USE DEF auth, mount
  <1>1. TypeOK /\ Asked
    BY DEF Counts
  <1>2. CASE Queue(w)
    BY <1>1, <1>2, AppendProperties DEF TypeOK, Asked, Queue
  <1>3. CASE QueueStart(w)
    <2>1. queue' \in Seq(Requests)
      BY <1>1, <1>3, AppendProperties DEF TypeOK, Asked, QueueStart
    <2>2. thread' \in [Handlers -> {"none"} \cup Alive] /\ refcount' \in Nat
      BY <1>1, <1>3 DEF TypeOK, QueueStart, Idle, Alive
    <2> QED  BY <1>1, <1>3, <2>1, <2>2 DEF TypeOK, QueueStart, Alive
  <1>4. CASE QueueFails(w)
    BY <1>1, <1>4 DEF TypeOK, QueueFails
  <1>5. CASE Release(w)
    BY <1>1, <1>5, InUse DEF TypeOK, Release, Unref, Holds
  <1>6. CASE LookDrops(w)
    BY <1>1, <1>6, InUse DEF TypeOK, LookDrops, Holds
  <1>7. CASE LookFallsBack(w)
    BY <1>1, <1>7, AuthAssumption DEF TypeOK, LookFallsBack
  <1>8. CASE Look(w)
    BY <1>1, <1>8 DEF TypeOK, Look
  <1>9. ASSUME NEW r \in Requests, Arrive(w, r) PROVE TypeOK'
    BY <1>1, <1>9 DEF TypeOK, Arrive
  <1> QED
    BY <1>2, <1>3, <1>4, <1>5, <1>6, <1>7, <1>8, <1>9 DEF WorkerGoesOn

LEMMA TypedHandler ==
  ASSUME Counts, NEW i \in Handlers, HandlerStep(i)
  PROVE  TypeOK'
  <1> USE DEF auth, mount
  <1>1. TypeOK /\ CountsRight
    BY DEF Counts
  <1>2. CASE ThreadStarts(i)
    BY <1>1, <1>2 DEF TypeOK, ThreadStarts
  <1>3. CASE Take(i)
    <2>1. Head(queue) \in Requests /\ Tail(queue) \in Seq(Requests) /\ Len(queue) \in Nat \ {0}
      BY <1>1, <1>3, HeadTailProperties, EmptySeq DEF TypeOK, Take
    <2>2. pending_count' \in Nat
      BY <1>1, <1>3, <2>1 DEF CountsRight, Take
    <2> QED  BY <1>1, <1>3, <2>1, <2>2 DEF TypeOK, Take
  <1>4. CASE Answer(i)
    <2>1. work' \in [Handlers -> Requests \cup {None}]
      BY <1>1, <1>4 DEF TypeOK, Answer
    <2>2. thread' \in [Handlers -> {"none"} \cup Alive] /\ mountref' \in Nat
      BY <1>1, <1>4 DEF TypeOK, Answer, Alive
    <2>3. state' \in [Requests -> {"new", "held", "queued", "handling", "done", "refused"}]
      BY <1>1, <1>4 DEF TypeOK, Answer
    <2> QED  BY <1>1, <1>4, <2>1, <2>2, <2>3 DEF TypeOK, Answer, Alive
  <1>5. CASE Placed(i)
    BY <1>1, <1>5, InUse DEF TypeOK, Placed, Unref
  <1>6. CASE Exit(i)
    BY <1>1, <1>6, InUse DEF TypeOK, Exit, AuthRelease
  <1> QED
    BY <1>2, <1>3, <1>4, <1>5, <1>6 DEF HandlerStep

LEMMA TypedConfig ==
  ASSUME Counts, Reload \/ DropConfig \/ Clear \/ Shutdown \/ ShutdownOver
  PROVE  TypeOK'
  <1> USE DEF auth, mount
  <1>1. TypeOK
    BY DEF Counts
  <1>2. CASE Reload
    BY <1>1, <1>2 DEF TypeOK, Reload
  <1>3. CASE DropConfig
    BY <1>1, <1>3, InUse DEF TypeOK, DropConfig
  <1>4. CASE Clear
    <2>1. refcount >= 1
      BY <1>4, InUse DEF Clear, Clearing
    <2>2. at' \in [Workers -> {"idle", "checked", "release", "clear", "moving"}]
      BY <1>1, <1>4 DEF TypeOK, Clear
    <2>3. thread' \in [Handlers -> {"none", "starting", "ready", "working", "placing", "clear"}]
      BY <1>1, <1>4 DEF TypeOK, Clear
    <2> QED  BY <1>1, <1>4, <2>1, <2>2, <2>3 DEF TypeOK, Clear, AuthRelease
  <1>5. CASE Shutdown \/ ShutdownOver
    BY <1>1, <1>5 DEF TypeOK, Shutdown, ShutdownOver
  <1> QED
    BY <1>2, <1>3, <1>4, <1>5

LEMMA TypedStep ==
  ASSUME Counts, [Next]_vars
  PROVE  TypeOK'
  <1>1. CASE UNCHANGED vars
    BY <1>1 DEF Counts, TypeOK, vars, auth, mount
  <1> QED
    BY <1>1, TypedWorker, TypedHandler, TypedConfig DEF Next

-----------------------------------------------------------------------------
(* The counts, and who is to drop the reference of the mount_proxy.        *)
LEMMA Undisturbed ==
  /\ UNCHANGED thread => Up' = Up /\ Placing' = Placing /\ Free' = Free
  /\ UNCHANGED at => Holding' = Holding
  BY DEF Up, Placing, Free, Holding

(* The reference of the configuration.                                     *)
InConfig == IF config \in {"listed", "dropped"} THEN 1 ELSE 0

(* One holder of the mount_proxy less, one reference less.                 *)
LEMMA OneLess ==
  ASSUME NEW m \in Int, NEW h \in Int, NEW p \in Int, NEW k \in Int, NEW c \in Int,
         m = h + p + k + c
  PROVE  m - 1 = (h - 1) + p + k + c /\ m - 1 = h + (p - 1) + k + c
         /\ m = (h - 1) + p + (k + 1) + c
  OBVIOUS

LEMMA CountsWorker ==
  ASSUME Counts, NEW w \in Workers,
         WorkerGoesOn(w) \/ Look(w) \/ \E r \in Requests : Arrive(w, r)
  PROVE  CountsRight' /\ OneClears' /\ FreedAtZero'
  <1> USE DEF auth, mount
  <1>1. TypeOK /\ TypeOK' /\ CountsRight /\ OneClears /\ FreedAtZero
    BY TypedWorker DEF Counts
  <1>2. /\ Cardinality(Up) \in Nat /\ Cardinality(Placing) \in Nat
        /\ Cardinality(Holding) \in Nat /\ leaked \in Nat /\ mountref \in Nat
        /\ refcount \in Nat
    BY <1>1, Sizes, AuthAssumption DEF TypeOK
  <1>3. CASE Queue(w)
    <2>1. Cardinality(Holding') = Cardinality(Holding)
      BY <1>1, <1>3, WorkerMoves DEF Queue, Holds
    <2>2. Clearing' = Clearing /\ Len(queue') = Len(queue) + 1
      BY <1>1, <1>3, AppendProperties DEF Queue, Clearing, TypeOK, Counts, Asked
    <2>3. CountsRight'
      BY <1>1, <1>2, <1>3, <2>1, <2>2, Undisturbed DEF Queue, CountsRight
    <2>4. OneClears'
      BY <1>1, <1>3, <2>2 DEF Queue, OneClears, TypeOK
    <2> QED  BY <1>1, <1>3, <2>3, <2>4 DEF Queue, FreedAtZero
  <1>4. CASE QueueStart(w)
    <2>1. Cardinality(Holding') = Cardinality(Holding)
      BY <1>1, <1>4, WorkerMoves DEF QueueStart, Holds
    <2>2. Len(queue') = Len(queue) + 1
      BY <1>1, <1>4, AppendProperties DEF QueueStart, TypeOK, Counts, Asked
    <2>3. mountref > 0
      BY <1>4, InUse, <1>2 DEF QueueStart, Holds
    <2>4. CASE Idle = {}
      <3>1. Clearing' = Clearing
        BY <1>1, <1>4, <2>4 DEF QueueStart, Clearing, TypeOK
      <3>2. CountsRight'
        BY <1>1, <1>2, <1>4, <2>1, <2>2, <2>4, <3>1, Undisturbed DEF QueueStart, CountsRight
      <3>3. OneClears'
        BY <1>1, <1>4, <2>4, <3>1 DEF QueueStart, OneClears, TypeOK
      <3> QED  BY <1>1, <1>4, <2>4, <3>2, <3>3 DEF QueueStart, FreedAtZero
    <2>5. CASE Idle # {}
      <3>1. PICK i \in Idle : thread' = [thread EXCEPT ![i] = "starting"]
        BY <1>4, <2>5 DEF QueueStart
      <3>2. i \in Handlers /\ thread[i] = "none"
        BY <3>1 DEF Idle
      <3>3. Clearing' = Clearing
        BY <1>1, <1>4, <3>1, <3>2 DEF QueueStart, Clearing, TypeOK
      <3>4. /\ Cardinality(Up') = Cardinality(Up) + 1
            /\ Cardinality(Placing') = Cardinality(Placing)
        <4>1. "starting" \in Alive /\ "starting" # "placing" /\ thread[i] # "placing"
          BY <3>2 DEF Alive
        <4>2. thread' = [thread EXCEPT ![i] = "starting"]
          BY <3>1
        <4> QED  BY <1>1, <3>2, <4>1, <4>2, ThreadMoves
      <3>5. refcount' = refcount + 1 /\ refcount >= 1
        BY <1>4, <2>3, <2>5, InUse DEF QueueStart
      <3>6. CountsRight'
        BY <1>1, <1>2, <1>4, <2>1, <2>2, <3>3, <3>4, <3>5 DEF QueueStart, CountsRight
      <3>7. OneClears'
        BY <1>1, <1>4, <3>1, <3>2, <3>3 DEF QueueStart, OneClears, TypeOK
      <3> QED  BY <1>1, <1>2, <1>4, <3>5, <3>6, <3>7 DEF QueueStart, FreedAtZero
    <2> QED  BY <2>4, <2>5
  <1>5. CASE QueueFails(w)
    <2>1. Cardinality(Holding') = Cardinality(Holding) /\ Clearing' = Clearing
      BY <1>1, <1>5, WorkerMoves DEF QueueFails, Holds, Clearing, TypeOK
    <2>2. CountsRight'
      BY <1>1, <1>2, <1>5, <2>1, Undisturbed DEF QueueFails, CountsRight
    <2>3. OneClears'
      BY <1>1, <1>5, <2>1 DEF QueueFails, OneClears, TypeOK
    <2> QED  BY <1>1, <1>5, <2>2, <2>3 DEF QueueFails, FreedAtZero
  <1>6. CASE Release(w)
    <2>0. PICK v \in {"clear", "idle"} : at' = [at EXCEPT ![w] = v]
      BY <1>6 DEF Release
    <2>1. Cardinality(Holding') = Cardinality(Holding) - 1
      BY <1>1, <1>6, <2>0, WorkerMoves DEF Release, Holds
    <2>2. mountref >= 1 /\ ~Clearing
      BY <1>1, <1>2, <1>6, InUse DEF Release, Holds, OneClears
    <2>3. Clearing' <=> mountref = 1
      BY <1>1, <1>6, <2>2 DEF Release, Unref, Last, Clearing, TypeOK
    <2>4. CountsRight'
      <3>1. Up' = Up /\ Placing' = Placing
        BY <1>6, Undisturbed DEF Release
      <3>2. /\ mountref' = mountref - 1 /\ config' = config /\ leaked' = leaked
            /\ UNCHANGED <<pending_count, queue, refcount>>
        BY <1>6 DEF Release, Unref
      <3>3. mountref = 1 \/ mountref > 1
        BY <1>2, <2>2
      <3>4. mountref > 0 \/ Clearing <=> mountref' > 0 \/ Clearing'
        BY <1>2, <2>2, <2>3, <3>2, <3>3
      <3>5. mountref = Cardinality(Holding) + Cardinality(Placing) + leaked + InConfig
        BY <1>1 DEF CountsRight, InConfig
      <3>6. InConfig \in Int /\ InConfig' = InConfig
        BY <3>2 DEF InConfig
      <3>7. mountref' = Cardinality(Holding') + Cardinality(Placing') + leaked' + InConfig'
        BY <1>2, <2>1, <3>1, <3>2, <3>5, <3>6, OneLess
      <3> QED  BY <1>1, <3>1, <3>2, <3>4, <3>7 DEF CountsRight, InConfig
    <2>5. OneClears'
      BY <1>1, <1>6, <2>2, <2>3 DEF Release, Unref, Clearing, OneClears, TypeOK
    <2> QED  BY <1>1, <1>6, <2>4, <2>5 DEF Release, FreedAtZero
  <1>7. CASE LookDrops(w)
    <2>0. at[w] = "moving" /\ at' = [at EXCEPT ![w] = "idle"]
      BY <1>7 DEF LookDrops
    <2>1. Cardinality(Holding') = Cardinality(Holding) - 1
      <3>1. at[w] \in Holds /\ "idle" \notin Holds
        BY <2>0 DEF Holds
      <3> QED  BY <1>1, <2>0, <3>1, WorkerMoves
    <2>2. mountref >= 1 /\ ~Clearing
      BY <1>1, <1>2, <1>7, InUse DEF LookDrops, Holds, OneClears
    <2>3. Clearing' <=> mountref = 1
      BY <1>1, <1>7, <2>2 DEF LookDrops, Last, Clearing, TypeOK
    <2>4. config \in {"listed", "dropped"} => Cardinality(Holding) >= 1
      BY <1>1, <1>2, <1>7, Sizes, FS_EmptySet DEF LookDrops, Holding
    <2>5. (config' \in {"listed", "dropped"}) = (config \in {"listed", "dropped"})
      BY <1>1, <1>2, <1>7, <2>2, <2>4 DEF LookDrops, Last, CountsRight
    <2>6. CountsRight'
      <3>1. Up' = Up /\ Placing' = Placing
        BY <1>7, Undisturbed DEF LookDrops
      <3>2. mountref' = mountref - 1 /\ UNCHANGED <<leaked, pending_count, queue, refcount>>
        BY <1>7 DEF LookDrops
      <3>3. mountref = 1 \/ mountref > 1
        BY <1>2, <2>2
      <3>4. mountref > 0 \/ Clearing <=> mountref' > 0 \/ Clearing'
        BY <1>2, <2>2, <2>3, <3>2, <3>3
      <3>5. mountref = Cardinality(Holding) + Cardinality(Placing) + leaked + InConfig
        BY <1>1 DEF CountsRight, InConfig
      <3>6. InConfig \in Int /\ InConfig' = InConfig
        BY <2>5 DEF InConfig
      <3>7. mountref' = Cardinality(Holding') + Cardinality(Placing') + leaked' + InConfig'
        BY <1>2, <2>1, <3>1, <3>2, <3>5, <3>6, OneLess
      <3> QED  BY <1>1, <3>1, <3>2, <3>4, <3>7 DEF CountsRight, InConfig
    <2>7. OneClears'
      BY <1>1, <1>7, <2>2, <2>3 DEF LookDrops, Clearing, OneClears, TypeOK
    <2> QED  BY <1>1, <1>7, <2>6, <2>7 DEF LookDrops, FreedAtZero
  <1>8. CASE LookFallsBack(w)
    <2>1. Cardinality(Holding') = Cardinality(Holding) - 1 /\ Clearing' = Clearing
      BY <1>1, <1>8, WorkerMoves DEF LookFallsBack, Holds, Clearing, TypeOK
    <2>2. CountsRight'
      <3>1. Up' = Up /\ Placing' = Placing
        BY <1>8, Undisturbed DEF LookFallsBack
      <3>2. /\ leaked' = leaked + 1
            /\ UNCHANGED <<mountref, config, pending_count, queue, refcount>>
        BY <1>8 DEF LookFallsBack
      <3>3. leaked' \in Nat
        BY <1>2, <3>2
      <3>4. (mountref > 0 \/ Clearing) = (mountref' > 0 \/ Clearing')
        BY <2>1, <3>2
      <3>5. refcount' = Cardinality(Up') + (IF mountref' > 0 \/ Clearing' THEN 1 ELSE 0)
        BY <1>1, <3>1, <3>2, <3>4 DEF CountsRight
      <3>6. mountref = Cardinality(Holding) + Cardinality(Placing) + leaked + InConfig
        BY <1>1 DEF CountsRight, InConfig
      <3>7. InConfig \in Int /\ InConfig' = InConfig
        BY <3>2 DEF InConfig
      <3>8. mountref' = Cardinality(Holding') + Cardinality(Placing') + leaked' + InConfig'
        BY <1>2, <2>1, <3>1, <3>2, <3>6, <3>7, OneLess
      <3> QED  BY <1>1, <3>2, <3>5, <3>8 DEF CountsRight, InConfig
    <2>3. OneClears'
      BY <1>1, <1>8, <2>1 DEF LookFallsBack, OneClears, TypeOK
    <2> QED  BY <1>1, <1>8, <2>2, <2>3 DEF LookFallsBack, FreedAtZero
  <1>9. CASE Look(w) \/ \E r \in Requests : Arrive(w, r)
    <2>1. /\ config = "listed" /\ at[w] = "idle" /\ mountref' = mountref + 1
          /\ \E v \in Holds : at' = [at EXCEPT ![w] = v]
          /\ UNCHANGED <<queue, pending_count, refcount, freed, thread, config, leaked>>
      BY <1>9 DEF Look, Arrive, Holds
    <2>2. Cardinality(Holding') = Cardinality(Holding) + 1
      BY <1>1, <2>1, WorkerMoves DEF Holds
    <2>3. mountref >= 1 /\ ~Clearing /\ ~Clearing'
      BY <1>1, <1>2, <2>1, InUse DEF OneClears, Clearing, Holds, TypeOK
    <2>4. CountsRight'
      BY <1>1, <1>2, <2>1, <2>2, <2>3, Undisturbed DEF CountsRight
    <2>5. OneClears'
      BY <2>3 DEF OneClears, Clearing
    <2> QED  BY <1>1, <2>1, <2>4, <2>5 DEF FreedAtZero
  <1> QED
    BY <1>3, <1>4, <1>5, <1>6, <1>7, <1>8, <1>9 DEF WorkerGoesOn

LEMMA CountsHandler ==
  ASSUME Counts, NEW i \in Handlers, HandlerStep(i)
  PROVE  CountsRight' /\ OneClears' /\ FreedAtZero'
  <1> USE DEF auth, mount
  <1>1. TypeOK /\ TypeOK' /\ CountsRight /\ OneClears /\ FreedAtZero
    BY TypedHandler DEF Counts
  <1>2. /\ Cardinality(Up) \in Nat /\ Cardinality(Placing) \in Nat
        /\ Cardinality(Holding) \in Nat /\ leaked \in Nat /\ mountref \in Nat
        /\ refcount \in Nat
    BY <1>1, Sizes, AuthAssumption DEF TypeOK
  <1>3. mountref = Cardinality(Holding) + Cardinality(Placing) + leaked + InConfig
    BY <1>1 DEF CountsRight, InConfig
  <1>4. CASE ThreadStarts(i)
    <2>1. /\ Cardinality(Up') = Cardinality(Up) /\ Cardinality(Placing') = Cardinality(Placing)
      <3>1. thread[i] = "starting" /\ thread' = [thread EXCEPT ![i] = "ready"]
        BY <1>4 DEF ThreadStarts
      <3>2. thread[i] \in Alive /\ "ready" \in Alive /\ thread[i] # "placing" /\ "ready" # "placing"
        BY <3>1 DEF Alive
      <3> QED  BY <1>1, <3>1, <3>2, ThreadMoves
    <2>2. Clearing' = Clearing
      BY <1>1, <1>4 DEF ThreadStarts, Clearing, TypeOK
    <2>3. CountsRight'
      BY <1>1, <1>2, <1>4, <2>1, <2>2, Undisturbed DEF ThreadStarts, CountsRight
    <2>4. OneClears'
      BY <1>1, <1>4, <2>2 DEF ThreadStarts, OneClears, TypeOK
    <2> QED  BY <1>1, <1>4, <2>3, <2>4 DEF ThreadStarts, FreedAtZero
  <1>5. CASE Take(i)
    <2>1. /\ Cardinality(Up') = Cardinality(Up) /\ Cardinality(Placing') = Cardinality(Placing)
      <3>1. thread[i] = "ready" /\ thread' = [thread EXCEPT ![i] = "working"]
        BY <1>5 DEF Take
      <3>2. /\ thread[i] \in Alive /\ "working" \in Alive
            /\ thread[i] # "placing" /\ "working" # "placing"
        BY <3>1 DEF Alive
      <3> QED  BY <1>1, <3>1, <3>2, ThreadMoves
    <2>2. Clearing' = Clearing
      BY <1>1, <1>5 DEF Take, Clearing, TypeOK
    <2>3. Len(queue') = Len(queue) - 1
      BY <1>1, <1>5, HeadTailProperties, EmptySeq DEF Take, TypeOK
    <2>4. CountsRight'
      BY <1>1, <1>2, <1>5, <2>1, <2>2, <2>3, Undisturbed DEF Take, CountsRight
    <2>5. OneClears'
      BY <1>1, <1>5, <2>2 DEF Take, OneClears, TypeOK
    <2> QED  BY <1>1, <1>5, <2>4, <2>5 DEF Take, FreedAtZero
  <1>6. CASE Answer(i)
    <2>0. /\ UNCHANGED <<queue, pending_count, refcount, freed, config, leaked, at>>
          /\ thread[i] = "working"
          /\ \/ mountref' = mountref /\ thread' = [thread EXCEPT ![i] = "ready"]
             \/ /\ mountref' = mountref + 1 /\ thread' = [thread EXCEPT ![i] = "placing"]
                /\ config = "listed"
      BY <1>6 DEF Answer
    <2>1. CASE mountref' = mountref /\ thread' = [thread EXCEPT ![i] = "ready"]
      <3>1. /\ Cardinality(Up') = Cardinality(Up) /\ Cardinality(Placing') = Cardinality(Placing)
        BY <1>1, <2>0, <2>1, ThreadMoves DEF Alive
      <3>2. Clearing' = Clearing
        BY <1>1, <2>0, <2>1 DEF Clearing, TypeOK
      <3>3. CountsRight'
        BY <1>1, <1>2, <2>0, <2>1, <3>1, <3>2, Undisturbed DEF CountsRight
      <3>4. OneClears'
        BY <1>1, <2>0, <2>1, <3>2 DEF OneClears, TypeOK
      <3> QED  BY <1>1, <2>0, <3>3, <3>4 DEF FreedAtZero
    <2>2. CASE /\ mountref' = mountref + 1 /\ thread' = [thread EXCEPT ![i] = "placing"]
               /\ config = "listed"
      <3>1. /\ Cardinality(Up') = Cardinality(Up)
            /\ Cardinality(Placing') = Cardinality(Placing) + 1
        BY <1>1, <2>0, <2>2, ThreadMoves DEF Alive
      <3>2. mountref >= 1 /\ ~Clearing
        BY <1>1, <1>2, <2>2, InUse DEF OneClears
      <3>3. ~Clearing'
        BY <1>1, <2>0, <2>2, <3>2 DEF Clearing, TypeOK
      <3>4. CountsRight'
        BY <1>1, <1>2, <2>0, <2>2, <3>1, <3>2, <3>3, Undisturbed DEF CountsRight
      <3>5. OneClears'
        BY <3>3 DEF OneClears, Clearing
      <3> QED  BY <1>1, <2>0, <3>4, <3>5 DEF FreedAtZero
    <2> QED  BY <2>0, <2>1, <2>2
  <1>7. CASE Placed(i)
    <2>0. PICK v \in {"clear", "ready"} : thread' = [thread EXCEPT ![i] = v]
      BY <1>7 DEF Placed
    <2>1. /\ thread[i] = "placing" /\ mountref' = mountref - 1
          /\ UNCHANGED <<config, leaked, pending_count, queue, refcount, freed, at>>
      BY <1>7 DEF Placed, Unref
    <2>2. /\ Cardinality(Up') = Cardinality(Up)
          /\ Cardinality(Placing') = Cardinality(Placing) - 1
      <3>1. v \in Alive /\ v # "placing" /\ thread[i] \in Alive
        BY <2>0, <2>1 DEF Alive
      <3> QED  BY <1>1, <2>0, <2>1, <3>1, ThreadMoves
    <2>3. mountref >= 1 /\ ~Clearing
      BY <1>1, <1>2, <2>1, InUse DEF OneClears
    <2>4. Clearing' <=> mountref = 1
      BY <1>1, <1>7, <2>3 DEF Placed, Unref, Last, Clearing, TypeOK
    <2>5. CountsRight'
      <3>1. Holding' = Holding /\ InConfig \in Int /\ InConfig' = InConfig
        BY <2>1, Undisturbed DEF InConfig
      <3>2. mountref' = Cardinality(Holding') + Cardinality(Placing') + leaked' + InConfig'
        BY <1>2, <1>3, <2>1, <2>2, <3>1, OneLess
      <3>3. mountref = 1 \/ mountref > 1
        BY <1>2, <2>3
      <3>4. mountref > 0 \/ Clearing <=> mountref' > 0 \/ Clearing'
        BY <1>2, <2>1, <2>3, <2>4, <3>3
      <3> QED  BY <1>1, <2>1, <2>2, <3>2, <3>4 DEF CountsRight, InConfig
    <2>6. OneClears'
      BY <1>1, <1>7, <2>3, <2>4 DEF Placed, Unref, Clearing, OneClears, TypeOK
    <2> QED  BY <1>1, <2>1, <2>5, <2>6 DEF FreedAtZero
  <1>8. CASE Exit(i)
    <2>1. /\ thread[i] = "ready" /\ thread' = [thread EXCEPT ![i] = "none"]
          /\ refcount' = refcount - 1 /\ (freed' <=> refcount = 1)
          /\ UNCHANGED <<config, mountref, leaked, pending_count, queue, at>>
      BY <1>8 DEF Exit, AuthRelease
    <2>2. /\ Cardinality(Up') = Cardinality(Up) - 1
          /\ Cardinality(Placing') = Cardinality(Placing)
      <3>1. thread[i] # "none" /\ thread[i] # "placing" /\ "none" # "placing"
        BY <2>1
      <3> QED  BY <1>1, <2>1, <3>1, ThreadMoves
    <2>3. Clearing' = Clearing
      BY <1>1, <2>1 DEF Clearing, TypeOK
    <2>4. CountsRight'
      <3>1. Holding' = Holding /\ InConfig' = InConfig
        BY <2>1, Undisturbed DEF InConfig
      <3>2. refcount' = Cardinality(Up') + (IF mountref' > 0 \/ Clearing' THEN 1 ELSE 0)
        <4>1. mountref > 0 \/ Clearing <=> mountref' > 0 \/ Clearing'
          BY <2>1, <2>3
        <4> DEFINE held == IF mountref > 0 \/ Clearing THEN 1 ELSE 0
        <4>2. held \in Int /\ held' = held /\ refcount = Cardinality(Up) + held
          BY <1>1, <4>1 DEF CountsRight
        <4> HIDE DEF held
        <4>3. refcount' = Cardinality(Up') + held'
          BY <1>2, <2>1, <2>2, <4>2
        <4> QED  BY <4>3 DEF held
      <3> QED  BY <1>1, <1>3, <2>1, <2>2, <3>1, <3>2 DEF CountsRight, InConfig
    <2>5. OneClears'
      BY <1>1, <2>1, <2>3 DEF OneClears, TypeOK
    <2>6. FreedAtZero'
      BY <1>2, <2>1 DEF FreedAtZero
    <2> QED  BY <2>4, <2>5, <2>6
  <1> QED
    BY <1>4, <1>5, <1>6, <1>7, <1>8 DEF HandlerStep

LEMMA CountsConfig ==
  ASSUME Counts, Reload \/ DropConfig \/ Clear \/ Shutdown \/ ShutdownOver
  PROVE  CountsRight' /\ OneClears' /\ FreedAtZero'
  <1> USE DEF auth, mount
  <1>1. TypeOK /\ TypeOK' /\ CountsRight /\ OneClears /\ FreedAtZero
    BY TypedConfig DEF Counts
  <1>2. /\ Cardinality(Up) \in Nat /\ Cardinality(Placing) \in Nat
        /\ Cardinality(Holding) \in Nat /\ leaked \in Nat /\ mountref \in Nat
        /\ refcount \in Nat
    BY <1>1, Sizes, AuthAssumption DEF TypeOK
  <1>3. mountref = Cardinality(Holding) + Cardinality(Placing) + leaked + InConfig
    BY <1>1 DEF CountsRight, InConfig
  <1>4. CASE Reload
    <2>1. Clearing' = Clearing /\ UNCHANGED <<Up, Holding, Placing, InConfig>>
      BY <1>4, Undisturbed DEF Reload, Clearing, InConfig
    <2>2. OneClears'
      BY <1>1, <1>4, <2>1 DEF Reload, OneClears
    <2> QED  BY <1>1, <1>3, <1>4, <2>1, <2>2 DEF Reload, CountsRight, FreedAtZero, InConfig
  <1>5. CASE DropConfig
    <2>1. /\ config = "dropped" /\ mountref' = mountref - 1 /\ config' \in {"clear", "gone"}
          /\ UNCHANGED <<thread, at, leaked, pending_count, queue, refcount, freed>>
          /\ UNCHANGED <<Up, Holding, Placing>>
      BY <1>5, Undisturbed DEF DropConfig
    <2>2. mountref >= 1 /\ ~Clearing
      BY <1>1, <1>2, <2>1, InUse DEF OneClears
    <2>3. Clearing' <=> mountref = 1
      BY <1>5, <2>2 DEF DropConfig, Last, Clearing
    <2>4. mountref' > 0 \/ Clearing'
      BY <1>2, <2>1, <2>2, <2>3
    <2>5. InConfig = 1 /\ InConfig' = 0
      BY <2>1 DEF InConfig
    <2>6. mountref' = Cardinality(Holding') + Cardinality(Placing') + leaked' + InConfig'
      BY <1>2, <1>3, <2>1, <2>5
    <2>7. CountsRight'
      BY <1>1, <1>2, <2>1, <2>2, <2>4, <2>6 DEF CountsRight, InConfig
    <2>8. OneClears'
      BY <1>1, <1>5, <2>2, <2>3 DEF DropConfig, Clearing, OneClears
    <2> QED  BY <1>1, <2>1, <2>7, <2>8 DEF FreedAtZero
  <1>6. CASE Clear
    <2>1. /\ Clearing /\ mountref = 0 /\ refcount >= 1
          /\ refcount' = refcount - 1 /\ (freed' <=> refcount = 1)
          /\ UNCHANGED <<mountref, leaked, pending_count, queue>>
      BY <1>1, <1>2, <1>6, InUse DEF Clear, AuthRelease, Clearing, OneClears
    <2>2. ~Clearing'
      BY <1>1, <1>6 DEF Clear, Clearing, OneClears, TypeOK
    <2>3. Cardinality(Holding') = Cardinality(Holding)
      <3>1. CASE UNCHANGED at
        BY <3>1, Undisturbed
      <3>2. ASSUME NEW w \in Workers, at[w] = "clear", at' = [at EXCEPT ![w] = "idle"]
            PROVE  Cardinality(Holding') = Cardinality(Holding)
        <4>1. at[w] \notin Holds /\ "idle" \notin Holds
          BY <3>2 DEF Holds
        <4> QED  BY <1>1, <3>2, <4>1, WorkerMoves
      <3> QED  BY <1>6, <3>1, <3>2 DEF Clear
    <2>4. /\ Cardinality(Up') = Cardinality(Up)
          /\ Cardinality(Placing') = Cardinality(Placing)
      <3>1. CASE UNCHANGED thread
        BY <3>1, Undisturbed
      <3>2. ASSUME NEW i \in Handlers, thread[i] = "clear", thread' = [thread EXCEPT ![i] = "ready"]
            PROVE  /\ Cardinality(Up') = Cardinality(Up)
                   /\ Cardinality(Placing') = Cardinality(Placing)
        <4>1. /\ thread[i] \in Alive /\ "ready" \in Alive
              /\ thread[i] # "placing" /\ "ready" # "placing"
          BY <3>2 DEF Alive
        <4> QED  BY <1>1, <3>2, <4>1, ThreadMoves
      <3> QED  BY <1>6, <3>1, <3>2 DEF Clear
    <2>5. InConfig' = InConfig
      BY <1>1, <1>6 DEF Clear, InConfig
    <2>6. CountsRight'
      BY <1>1, <1>2, <1>3, <2>1, <2>2, <2>3, <2>4, <2>5 DEF CountsRight, InConfig
    <2>7. OneClears'
      BY <2>2 DEF OneClears, Clearing
    <2>8. FreedAtZero'
      BY <1>2, <2>1 DEF FreedAtZero
    <2> QED  BY <2>6, <2>7, <2>8
  <1>7. CASE Shutdown \/ ShutdownOver
    <2>1. UNCHANGED <<queue, pending_count, refcount, freed, thread, config, mountref, leaked, at>>
      BY <1>7 DEF Shutdown, ShutdownOver
    <2> QED  BY <1>1, <2>1, Undisturbed DEF CountsRight, OneClears, FreedAtZero, Clearing
  <1> QED
    BY <1>4, <1>5, <1>6, <1>7

LEMMA AskedStep ==
  ASSUME Counts, [Next]_vars
  PROVE  Asked'
  <1> USE DEF auth, mount
  <1>1. TypeOK /\ Asked
    BY DEF Counts
  <1>2. ASSUME NEW w \in Workers,
               WorkerGoesOn(w) \/ Look(w) \/ \E r \in Requests : Arrive(w, r)
        PROVE  Asked'
    <2>1. \A v \in Workers : v # w => at'[v] = at[v] /\ req'[v] = req[v]
      BY <1>1, <1>2 DEF TypeOK, WorkerGoesOn, Queue, QueueStart, QueueFails, Release, LookDrops,
           LookFallsBack, Look, Arrive
    <2>2. at'[w] = "checked" => req'[w] \in Requests
      BY <1>1, <1>2 DEF TypeOK, WorkerGoesOn, Queue, QueueStart, QueueFails, Release, LookDrops,
           LookFallsBack, Look, Arrive
    <2> QED  BY <1>1, <2>1, <2>2 DEF Asked
  <1>3. ASSUME NEW i \in Handlers, HandlerStep(i)
        PROVE  Asked'
    BY <1>1, <1>3 DEF Asked, HandlerStep, ThreadStarts, Take, Answer, Placed, Exit
  <1>4. CASE Reload \/ DropConfig \/ Shutdown \/ ShutdownOver \/ UNCHANGED vars
    BY <1>1, <1>4 DEF Asked, Reload, DropConfig, Shutdown, ShutdownOver, vars
  <1>5. CASE Clear
    BY <1>1, <1>5 DEF Asked, Clear, TypeOK
  <1> QED  BY <1>2, <1>3, <1>4, <1>5 DEF Next

LEMMA CountsStep ==
  ASSUME Counts, [Next]_vars
  PROVE  Counts'
  <1>1. CASE UNCHANGED vars
    BY <1>1, Undisturbed
      DEF Counts, TypeOK, CountsRight, OneClears, FreedAtZero, Asked, Clearing, vars, auth, mount
  <1>2. (CountsRight' /\ OneClears' /\ FreedAtZero') \/ UNCHANGED vars
    BY CountsWorker, CountsHandler, CountsConfig DEF Next
  <1> QED  BY <1>1, <1>2, TypedStep, AskedStep DEF Counts

-----------------------------------------------------------------------------
(* Handler threads and queued requests do not miss each other.             *)
LEMMA AllUp ==
  ASSUME TypeOK, Cardinality(Up) >= Cardinality(Handlers)
  PROVE  Up = Handlers
  BY AuthAssumption, FS_Subset, FS_CardinalityType DEF Up

LEMMA IdlesWorker ==
  ASSUME Counts, NobodyIdles, NEW w \in Workers,
         WorkerGoesOn(w) \/ Look(w) \/ \E r \in Requests : Arrive(w, r)
  PROVE  NobodyIdles'
  <1> USE DEF auth, mount
  <1>1. TypeOK /\ TypeOK' /\ CountsRight
    BY TypedWorker DEF Counts
  <1>2. /\ Cardinality(Up) \in Nat /\ Cardinality(Free) \in Nat /\ Len(queue) \in Nat
        /\ Cardinality(Handlers) \in Nat /\ refcount \in Nat
    BY <1>1, Sizes, AuthAssumption, FS_CardinalityType DEF TypeOK
  <1>3. NobodyIdles <=> Up = Handlers \/ Len(queue) <= Cardinality(Free)
    BY DEF NobodyIdles, Free, Ready
  <1>4. NobodyIdles' <=> Up' = Handlers \/ Len(queue') <= Cardinality(Free')
    BY DEF NobodyIdles, Free, Ready
  <1>5. CASE Queue(w)
    <2>1. refcount > Cardinality(Handlers) /\ UNCHANGED thread
      BY <1>5 DEF Queue
    <2>2. refcount <= Cardinality(Up) + 1
      BY <1>1, <1>2 DEF CountsRight
    <2>3. Up = Handlers
      BY <1>1, <1>2, <2>1, <2>2, AllUp
    <2> QED  BY <1>4, <2>1, <2>3, Undisturbed
  <1>6. CASE QueueStart(w)
    <2>1. Len(queue') = Len(queue) + 1
      BY <1>1, <1>6, AppendProperties DEF QueueStart, TypeOK, Counts, Asked
    <2>2. CASE Idle = {}
      <3>1. Up = Handlers /\ UNCHANGED thread
        BY <1>6, <2>2 DEF QueueStart, Idle, Up
      <3> QED  BY <1>4, <3>1, Undisturbed
    <2>3. CASE Idle # {}
      <3>1. PICK i \in Idle : thread' = [thread EXCEPT ![i] = "starting"]
        BY <1>6, <2>3 DEF QueueStart
      <3>2. i \in Handlers /\ thread[i] = "none"
        BY <3>1 DEF Idle
      <3>3. thread[i] \notin Ready /\ "starting" \in Ready
        BY <3>2 DEF Ready
      <3>4. thread' = [thread EXCEPT ![i] = "starting"]
        BY <3>1
      <3>5. Cardinality(Free') = Cardinality(Free) + 1
        BY <1>1, <3>2, <3>3, <3>4, ThreadMoves
      <3>6. Up # Handlers
        BY <3>2 DEF Up
      <3> QED  BY <1>2, <1>3, <1>4, <2>1, <3>5, <3>6
    <2> QED  BY <2>2, <2>3
  <1>7. CASE \/ QueueFails(w) \/ Release(w) \/ LookDrops(w) \/ LookFallsBack(w) \/ Look(w)
             \/ \E r \in Requests : Arrive(w, r)
    <2>1. UNCHANGED <<queue, thread>>
      BY <1>7 DEF QueueFails, Release, LookDrops, LookFallsBack, Look, Arrive
    <2> QED  BY <1>3, <1>4, <2>1, Undisturbed
  <1> QED
    BY <1>5, <1>6, <1>7 DEF WorkerGoesOn

LEMMA IdlesHandler ==
  ASSUME Counts, NobodyIdles, NEW i \in Handlers, HandlerStep(i)
  PROVE  NobodyIdles'
  <1> USE DEF auth, mount
  <1>1. TypeOK /\ TypeOK'
    BY TypedHandler DEF Counts
  <1>2. /\ Cardinality(Up) \in Nat /\ Cardinality(Free) \in Nat /\ Len(queue) \in Nat
    BY <1>1, Sizes DEF TypeOK
  <1>3. NobodyIdles <=> Up = Handlers \/ Len(queue) <= Cardinality(Free)
    BY DEF NobodyIdles, Free, Ready
  <1>4. NobodyIdles' <=> Up' = Handlers \/ Len(queue') <= Cardinality(Free')
    BY DEF NobodyIdles, Free, Ready
  <1>5. ASSUME NEW v \in Alive, thread[i] # "none", thread' = [thread EXCEPT ![i] = v]
        PROVE  Up' = Up
    BY <1>1, <1>5 DEF Up, Alive, TypeOK
  <1>6. CASE ThreadStarts(i)
    <2>1. /\ thread[i] = "starting" /\ thread' = [thread EXCEPT ![i] = "ready"] /\ queue' = queue
      BY <1>6 DEF ThreadStarts
    <2>2. thread[i] \in Ready /\ "ready" \in Ready /\ "ready" \in Alive
      BY <2>1 DEF Ready, Alive
    <2>3. Cardinality(Free') = Cardinality(Free)
      BY <1>1, <2>1, <2>2, ThreadMoves
    <2> QED  BY <1>3, <1>4, <1>5, <2>1, <2>2, <2>3
  <1>7. CASE Take(i)
    <2>1. /\ thread[i] = "ready" /\ thread' = [thread EXCEPT ![i] = "working"]
      BY <1>7 DEF Take
    <2>2. thread[i] \in Ready /\ "working" \notin Ready /\ "working" \in Alive
      BY <2>1 DEF Ready, Alive
    <2>3. Cardinality(Free') = Cardinality(Free) - 1
      BY <1>1, <2>1, <2>2, ThreadMoves
    <2>4. Len(queue') = Len(queue) - 1
      BY <1>1, <1>7, HeadTailProperties, EmptySeq DEF Take, TypeOK
    <2>5. Up' = Up
      BY <1>5, <2>1, <2>2
    <2> QED  BY <1>2, <1>3, <1>4, <2>3, <2>4, <2>5
  <1>8. CASE Answer(i) \/ Placed(i)
    <2>1. PICK v \in {"ready", "placing", "clear"} : thread' = [thread EXCEPT ![i] = v]
      BY <1>8 DEF Answer, Placed
    <2>2. thread[i] \in {"working", "placing"} /\ queue' = queue
      BY <1>8 DEF Answer, Placed
    <2>3. thread[i] \notin Ready /\ v \in Alive
      BY <2>1, <2>2 DEF Ready, Alive
    <2>4. \/ Cardinality(Free') = Cardinality(Free)
          \/ Cardinality(Free') = Cardinality(Free) + 1
      BY <1>1, <2>1, <2>3, ThreadMoves
    <2>5. Up' = Up
      BY <1>5, <2>1, <2>2, <2>3
    <2> QED  BY <1>2, <1>3, <1>4, <2>2, <2>4, <2>5
  <1>9. CASE Exit(i)
    <2>1. queue' = <<>>
      BY <1>9 DEF Exit
    <2>2. Cardinality(Free') \in Nat
      BY <1>1, FS_Subset, FS_CardinalityType, AuthAssumption DEF Free, Up
    <2> QED  BY <1>4, <2>1, <2>2
  <1> QED
    BY <1>6, <1>7, <1>8, <1>9 DEF HandlerStep

LEMMA IdlesStep ==
  ASSUME Counts, NobodyIdles, [Next]_vars
  PROVE  NobodyIdles'
  <1>1. CASE Reload \/ DropConfig \/ Shutdown \/ ShutdownOver \/ UNCHANGED vars
    <2>1. UNCHANGED <<queue, thread>>
      BY <1>1 DEF Reload, DropConfig, Shutdown, ShutdownOver, vars, auth
    <2> QED  BY <2>1 DEF NobodyIdles, Up
  <1>2. CASE Clear
    <2>1. TypeOK /\ TypeOK' /\ queue' = queue
      BY <1>2, TypedStep DEF Counts, Clear, Next
    <2>2. CASE UNCHANGED thread
      BY <2>1, <2>2 DEF NobodyIdles, Up
    <2>3. ASSUME NEW i \in Handlers, thread[i] = "clear", thread' = [thread EXCEPT ![i] = "ready"]
          PROVE  NobodyIdles'
      <3>1. thread[i] \notin Ready /\ "ready" \in Ready
        BY <2>3 DEF Ready
      <3>2. Cardinality(Free') = Cardinality(Free) + 1
        BY <2>1, <2>3, <3>1, ThreadMoves
      <3>3. Up' = Up
        BY <2>1, <2>3 DEF Up, TypeOK
      <3>4. Len(queue) \in Nat /\ Cardinality(Free) \in Nat
        BY <2>1, Sizes DEF TypeOK
      <3>5. /\ Up = Handlers \/ Len(queue) <= Cardinality(Free)
            /\ Up' = Handlers \/ Len(queue') <= Cardinality(Free') => NobodyIdles'
        BY DEF NobodyIdles, Free, Ready
      <3> QED  BY <2>1, <3>2, <3>3, <3>4, <3>5
    <2> QED  BY <1>2, <2>2, <2>3 DEF Clear
  <1> QED
    BY <1>1, <1>2, IdlesWorker, IdlesHandler DEF Next

-----------------------------------------------------------------------------
(* The requests said to be queued are those on the queue, and few.         *)
LEMMA ListedStep ==
  ASSUME Counts, QueuedListed, [Next]_vars
  PROVE  QueuedListed'
  <1> USE DEF auth, mount
  <1>1. TypeOK /\ Asked
    BY DEF Counts
  <1>2. ASSUME NEW w \in Workers, Queue(w) \/ QueueStart(w)
        PROVE  QueuedListed'
    <2>1. /\ req[w] \in Requests /\ queue' = Append(queue, req[w])
          /\ state' = [state EXCEPT ![req[w]] = "queued"]
      BY <1>1, <1>2 DEF Asked, Queue, QueueStart
    <2>2. queue \in Seq(Requests) /\ Len(queue) \in Nat
      BY <1>1 DEF TypeOK
    <2>3. /\ Len(queue') = Len(queue) + 1
          /\ \A k \in 1 .. Len(queue) : queue'[k] = queue[k]
          /\ queue'[Len(queue) + 1] = req[w]
      BY <2>1, <2>2, AppendProperties
    <2>4. \A r \in Requests : state'[r] = "queued" => r = req[w] \/ state[r] = "queued"
      BY <1>1, <2>1 DEF TypeOK
    <2> QED  BY <2>2, <2>3, <2>4 DEF QueuedListed
  <1>3. ASSUME NEW i \in Handlers, Take(i)
        PROVE  QueuedListed'
    <2>1. /\ queue # <<>> /\ queue' = Tail(queue)
          /\ state' = [state EXCEPT ![Head(queue)] = "handling"]
      BY <1>3 DEF Take
    <2>2. queue \in Seq(Requests) /\ Len(queue) \in Nat
      BY <1>1 DEF TypeOK
    <2>3. /\ Len(queue') = Len(queue) - 1 /\ Head(queue) = queue[1]
          /\ \A k \in 1 .. Len(queue') : queue'[k] = queue[k + 1]
          /\ Head(queue) \in Requests
      BY <2>1, <2>2, HeadTailProperties
    <2>4. ASSUME NEW r \in Requests, state'[r] = "queued"
          PROVE  \E k \in 1 .. Len(queue') : queue'[k] = r
      <3>1. state[r] = "queued" /\ r # queue[1]
        BY <1>1, <2>1, <2>3, <2>4 DEF TypeOK
      <3>2. PICK k \in 1 .. Len(queue) : queue[k] = r
        BY <3>1 DEF QueuedListed
      <3>3. k - 1 \in 1 .. Len(queue') /\ (k - 1) + 1 = k
        BY <2>2, <2>3, <3>1, <3>2
      <3>4. queue'[k - 1] = r
        BY <2>3, <3>2, <3>3
      <3> QED  BY <3>3, <3>4
    <2> QED  BY <2>4 DEF QueuedListed
  <1>4. ASSUME UNCHANGED queue, \A r \in Requests : state'[r] = "queued" => state[r] = "queued"
        PROVE  QueuedListed'
    BY <1>4 DEF QueuedListed
  <1>5. ASSUME NEW w \in Workers, \/ QueueFails(w) \/ Release(w) \/ LookDrops(w)
                                  \/ LookFallsBack(w) \/ Look(w)
                                  \/ \E r \in Requests : Arrive(w, r)
        PROVE  QueuedListed'
    <2>1. queue' = queue
      BY <1>5 DEF QueueFails, Release, LookDrops, LookFallsBack, Look, Arrive
    <2>2. \A r \in Requests : state'[r] = "queued" => state[r] = "queued"
      BY <1>1, <1>5 DEF QueueFails, Release, LookDrops, LookFallsBack, Look, Arrive, TypeOK
    <2> QED  BY <1>4, <2>1, <2>2
  <1>6. ASSUME NEW i \in Handlers, ThreadStarts(i) \/ Answer(i) \/ Placed(i) \/ Exit(i)
        PROVE  QueuedListed'
    <2>1. queue' = queue
      BY <1>6 DEF ThreadStarts, Answer, Placed, Exit
    <2>2. \A r \in Requests : state'[r] = "queued" => state[r] = "queued"
      BY <1>1, <1>6 DEF ThreadStarts, Answer, Placed, Exit, TypeOK
    <2> QED  BY <1>4, <2>1, <2>2
  <1>7. CASE Reload \/ DropConfig \/ Clear \/ Shutdown \/ ShutdownOver \/ UNCHANGED vars
    BY <1>4, <1>7 DEF Reload, DropConfig, Clear, Shutdown, ShutdownOver, vars
  <1> QED
    BY <1>2, <1>3, <1>5, <1>6, <1>7 DEF Next, WorkerGoesOn, HandlerStep

LEMMA FewWait ==
  ASSUME TypeOK, QueuedListed
  PROVE  /\ IsFiniteSet(Waiting) /\ Cardinality(Waiting) <= Len(queue)
         /\ Cardinality(Waiting) \in Nat
  <1> DEFINE K == {k \in 1 .. Len(queue) : queue[k] \in Waiting}
             f == [k \in K |-> queue[k]]
  <1>1. Len(queue) \in Nat
    BY DEF TypeOK
  <1>2. IsFiniteSet(1 .. Len(queue)) /\ Cardinality(1 .. Len(queue)) = Len(queue)
    <2>1. 1 \in Int /\ Len(queue) \in Int
      BY <1>1
    <2>2. /\ IsFiniteSet(1 .. Len(queue))
          /\ Cardinality(1 .. Len(queue)) = IF 1 > Len(queue) THEN 0 ELSE Len(queue) - 1 + 1
      BY <2>1, FS_Interval
    <2> QED  BY <1>1, <2>2
  <1>3. K \subseteq 1 .. Len(queue)
    OBVIOUS
  <1>4. IsFiniteSet(K) /\ Cardinality(K) <= Len(queue) /\ Cardinality(K) \in Nat
    <2> HIDE DEF K
    <2> QED  BY <1>2, <1>3, FS_Subset, FS_CardinalityType
  <1>5. f \in Surjection(K, Waiting)
    <2>1. \A r \in Waiting : \E k \in K : f[k] = r
      BY DEF QueuedListed, Waiting, Requests
    <2> QED  BY <2>1 DEF Surjection
  <1>6. IsFiniteSet(Waiting) /\ Cardinality(Waiting) <= Cardinality(K)
    <2> HIDE DEF K, f
    <2> QED  BY <1>4, <1>5, FS_Surjection
  <1>7. Cardinality(Waiting) \in Nat
    BY <1>6, FS_CardinalityType
  <1> HIDE DEF K
  <1> QED  BY <1>1, <1>4, <1>6, <1>7

(* As long as nobody queues or arrives, no listener more waits or is to.   *)
LEMMA NoMore ==
  ASSUME Counts, QueuedListed, AddersBounded, Waiting' \subseteq Waiting, Adding' \subseteq Adding
  PROVE  AddersBounded'
  <1>1. TypeOK
    BY DEF Counts
  <1>2. /\ IsFiniteSet(Waiting) /\ Cardinality(Waiting) \in Nat
    BY <1>1, FewWait
  <1>3. /\ IsFiniteSet(Adding) /\ Cardinality(Adding) \in Nat
        /\ PendingLimit \in Nat /\ Cardinality(Workers) \in Nat
    BY AuthAssumption, FS_Subset, FS_CardinalityType DEF Adding
  <1>4. /\ Cardinality(Waiting') <= Cardinality(Waiting) /\ Cardinality(Waiting') \in Nat
        /\ Cardinality(Adding') <= Cardinality(Adding) /\ Cardinality(Adding') \in Nat
    BY <1>2, <1>3, FS_Subset, FS_CardinalityType
  <1> QED  BY <1>2, <1>3, <1>4 DEF AddersBounded

LEMMA AddersStep ==
  ASSUME Counts, QueuedListed, AddersBounded, [Next]_vars
  PROVE  AddersBounded'
  <1> USE DEF auth, mount
  <1>1. TypeOK /\ Asked /\ CountsRight
    BY DEF Counts
  <1>2. /\ IsFiniteSet(Waiting) /\ Cardinality(Waiting) <= Len(queue)
        /\ Cardinality(Waiting) \in Nat
    BY <1>1, FewWait
  <1>3. /\ IsFiniteSet(Adding) /\ Cardinality(Adding) \in Nat
        /\ PendingLimit \in Nat /\ Cardinality(Workers) \in Nat
    BY AuthAssumption, FS_Subset, FS_CardinalityType DEF Adding
  <1>4. ASSUME NEW w \in Workers, Queue(w) \/ QueueStart(w)
        PROVE  AddersBounded'
    <2>1. /\ at[w] = "checked" /\ req[w] \in Requests /\ req' = req
          /\ state' = [state EXCEPT ![req[w]] = "queued"] /\ at' = [at EXCEPT ![w] = "release"]
      BY <1>1, <1>4 DEF Asked, Queue, QueueStart
    <2>2. Adding' = Adding \ {w}
      BY <1>1, <2>1 DEF Adding, TypeOK
    <2>3. CASE req[w] \in Listeners
      <3>1. w \in Adding
        BY <2>1, <2>3 DEF Adding
      <3>2. Waiting' = Waiting \cup {req[w]}
        BY <1>1, <2>1, <2>3 DEF Waiting, TypeOK, Requests
      <3>3. /\ Cardinality(Adding') = Cardinality(Adding) - 1
            /\ Cardinality(Waiting') \in {Cardinality(Waiting), Cardinality(Waiting) + 1}
        BY <1>2, <1>3, <2>2, <3>1, <3>2, FS_AddElement, FS_RemoveElement
      <3> QED  BY <1>2, <1>3, <3>3 DEF AddersBounded
    <2>4. CASE req[w] \notin Listeners
      <3>1. Waiting' = Waiting
        BY <1>1, <2>1, <2>4 DEF Waiting, TypeOK, Requests
      <3> QED  BY <2>2, <3>1, NoMore
    <2> QED  BY <2>3, <2>4
  <1>5. ASSUME NEW w \in Workers, NEW r \in Requests, Arrive(w, r)
        PROVE  AddersBounded'
    <2>1. /\ at[w] = "idle" /\ req' = [req EXCEPT ![w] = r]
          /\ \/ /\ at' = [at EXCEPT ![w] = "release"]
             \/ /\ at' = [at EXCEPT ![w] = "checked"]
                /\ r \in Listeners => ~(pending_count > PendingLimit)
      BY <1>5 DEF Arrive
    <2>2. \A x \in Workers : x # w => at'[x] = at[x] /\ req'[x] = req[x]
      BY <1>1, <2>1 DEF TypeOK
    <2>3. Waiting' \subseteq Waiting
      BY <1>1, <1>5 DEF Waiting, Arrive, TypeOK, Requests
    <2>4. CASE at' = [at EXCEPT ![w] = "checked"] /\ r \in Listeners
      <3>1. Len(queue) <= PendingLimit /\ Len(queue) \in Nat
        BY <1>1, <1>3, <2>1, <2>4 DEF CountsRight, TypeOK
      <3>2. Adding' \subseteq Workers
        BY DEF Adding
      <3>3. Cardinality(Adding') <= Cardinality(Workers) /\ Cardinality(Adding') \in Nat
        BY <3>2, AuthAssumption, FS_Subset, FS_CardinalityType
      <3>4. Cardinality(Waiting') <= Cardinality(Waiting) /\ Cardinality(Waiting') \in Nat
        BY <1>2, <2>3, FS_Subset, FS_CardinalityType
      <3> QED  BY <1>2, <1>3, <3>1, <3>3, <3>4 DEF AddersBounded
    <2>5. CASE ~(at' = [at EXCEPT ![w] = "checked"] /\ r \in Listeners)
      <3>1. w \notin Adding'
        BY <1>1, <2>1, <2>5 DEF Adding, TypeOK
      <3>2. Adding' \subseteq Adding
        BY <2>2, <3>1 DEF Adding
      <3> QED  BY <2>3, <3>2, NoMore
    <2> QED  BY <2>4, <2>5
  <1>6. ASSUME NEW w \in Workers, \/ QueueFails(w) \/ Release(w) \/ LookDrops(w)
                                  \/ LookFallsBack(w) \/ Look(w)
        PROVE  AddersBounded'
    <2>1. Waiting' \subseteq Waiting
      BY <1>1, <1>6
        DEF Waiting, QueueFails, Release, LookDrops, LookFallsBack, Look, TypeOK, Requests
    <2>2. Adding' \subseteq Adding
      BY <1>1, <1>6
        DEF Adding, QueueFails, Release, LookDrops, LookFallsBack, Look, TypeOK
    <2> QED  BY <2>1, <2>2, NoMore
  <1>7. ASSUME NEW i \in Handlers, HandlerStep(i)
        PROVE  AddersBounded'
    <2>1. Waiting' \subseteq Waiting
      BY <1>1, <1>7
        DEF Waiting, HandlerStep, ThreadStarts, Take, Answer, Placed, Exit, TypeOK, Requests
    <2>2. Adding' = Adding
      BY <1>7 DEF Adding, HandlerStep, ThreadStarts, Take, Answer, Placed, Exit
    <2> QED  BY <2>1, <2>2, NoMore
  <1>8. CASE Reload \/ DropConfig \/ Shutdown \/ ShutdownOver \/ UNCHANGED vars
    <2>1. Waiting' = Waiting /\ Adding' = Adding
      BY <1>8 DEF Waiting, Adding, Reload, DropConfig, Shutdown, ShutdownOver, vars
    <2> QED  BY <2>1, NoMore
  <1>9. CASE Clear
    <2>1. Waiting' = Waiting /\ Adding' \subseteq Adding
      BY <1>1, <1>9 DEF Waiting, Adding, Clear, TypeOK
    <2> QED  BY <2>1, NoMore
  <1> QED
    BY <1>4, <1>5, <1>6, <1>7, <1>8, <1>9 DEF Next, WorkerGoesOn

-----------------------------------------------------------------------------
LEMMA IInvInit ==
  Init => IInv
  <1> SUFFICES ASSUME Init PROVE IInv
    OBVIOUS
  <1>1. TypeOK
    <2>1. queue \in Seq(Requests) /\ leaked \in 0 .. MaxLeaks
      BY AuthAssumption DEF Init
    <2>2. /\ thread \in [Handlers -> {"none", "starting", "ready", "working", "placing", "clear"}]
          /\ at \in [Workers -> {"idle", "checked", "release", "clear", "moving"}]
          /\ state \in [Requests -> {"new", "held", "queued", "handling", "done", "refused"}]
      BY DEF Init
    <2> QED  BY <2>1, <2>2 DEF Init, TypeOK
  <1>2. Up = {} /\ Holding = {} /\ Placing = {} /\ Waiting = {} /\ Adding = {}
    BY DEF Init, Up, Holding, Placing, Waiting, Adding, Requests
  <1>3. ~Clearing
    BY DEF Init, Clearing
  <1>4. CountsRight
    BY <1>2, <1>3, FS_EmptySet DEF Init, CountsRight
  <1>5. OneClears /\ FreedAtZero /\ Asked
    BY <1>3 DEF Init, OneClears, Clearing, FreedAtZero, Asked
  <1>6. NobodyIdles
    <2>1. {i \in Up : thread[i] \in {"starting", "ready"}} = {}
      BY <1>2
    <2>2. Len(queue) = 0 /\ Cardinality({i \in Up : thread[i] \in {"starting", "ready"}}) = 0
      BY <2>1, FS_EmptySet DEF Init
    <2> QED  BY <2>2 DEF NobodyIdles
  <1>7. QueuedListed
    BY DEF Init, QueuedListed
  <1>8. AddersBounded
    BY <1>2, FS_EmptySet, AuthAssumption, FS_CardinalityType DEF AddersBounded
  <1> QED  BY <1>1, <1>4, <1>5, <1>6, <1>7, <1>8 DEF IInv, Counts

LEMMA IInvStep ==
  IInv /\ [Next]_vars => IInv'
  BY CountsStep, IdlesStep, ListedStep, AddersStep DEF IInv

LEMMA SpecIInv == Spec => []IInv
  BY IInvInit, IInvStep, PTL DEF Spec

(* auth_release and config_release_mount: for any workers, handles and     *)
(* requests the counts of the authenticator and of its mount_proxy are     *)
(* those of who uses them, so that it is freed only when no thread runs,   *)
(* no request waits and nobody holds the mount_proxy.                      *)
THEOREM AuthHeldWhileUsed == Spec => []HeldWhileUsed
  <1>1. ASSUME IInv PROVE HeldWhileUsed
    <2>1. TypeOK /\ CountsRight /\ FreedAtZero /\ NobodyIdles /\ Counts
      BY <1>1 DEF IInv, Counts
    <2>2. ASSUME freed
          PROVE  Up = {} /\ queue = <<>> /\ Holding = {} /\ config = "gone"
      <3>1. refcount = 0
        BY <2>1, <2>2 DEF FreedAtZero
      <3>2. Up = {} /\ ~(mountref > 0) /\ ~Clearing
        BY <2>1, <3>1, InUse DEF Up
      <3>3. Holding = {} /\ config \notin {"listed", "dropped"}
        BY <2>1, <3>2, InUse DEF Holding, Holds, TypeOK
      <3>4. config = "gone"
        BY <2>1, <3>2, <3>3 DEF Clearing, TypeOK
      <3>5. {i \in Up : thread[i] \in {"starting", "ready"}} = {}
        BY <3>2
      <3>6. Len(queue) <= 0
        BY <2>1, <3>2, <3>5, AuthAssumption, FS_EmptySet DEF NobodyIdles
      <3>7. queue = <<>>
        BY <2>1, <3>6, EmptySeq DEF TypeOK
      <3> QED  BY <3>2, <3>3, <3>4, <3>7
    <2> QED  BY <2>1, <2>2 DEF HeldWhileUsed, FreedUnused
  <1> QED  BY <1>1, SpecIInv, PTL

(* queue_auth_client and auth_run_thread: for any handles, a request waits *)
(* only when every handler thread is up, or one that is not busy is coming *)
(* for it.                                                                 *)
THEOREM AuthNobodyIdles == Spec => []NobodyIdles
  BY SpecIInv, PTL DEF IInv

(* auth_add_listener: for any limit and any workers, the unlocked test of  *)
(* pending_count lets in at most one listener per worker beyond it.        *)
THEOREM AuthNewcomersBounded == Spec => []NewcomersBounded
  <1>1. ASSUME IInv PROVE NewcomersBounded
    <2>1. /\ Cardinality(Waiting) \in Nat /\ Cardinality(Adding) \in Nat
          /\ PendingLimit \in Nat /\ Cardinality(Workers) \in Nat
      BY <1>1, FewWait, AuthAssumption, FS_Subset, FS_CardinalityType DEF IInv, Counts, Adding
    <2> QED  BY <1>1, <2>1 DEF IInv, AddersBounded, NewcomersBounded, Waiting
  <1> QED  BY <1>1, SpecIInv, PTL

-------------------------------------------------------------------------------
(* No wakeup of a worker is lost, for any number of clients and of threads *)
(* that add to it.  What has to be known besides is where the pointers may *)
(* point to: nothing but an Add or a TakePending writes the head of the    *)
(* pending list, because neither the walk nor the end of a list of the     *)
(* worker's own is ever at that slot.                                      *)

(* The slots the worker's own pointers may be at.                          *)
Own == {"norm", "fast"} \cup Clients

PointersOK ==
  /\ mem \in [Slots -> Ptr]
  /\ tail \in [Lists -> Slots]
  /\ prevp \in Own
  /\ cur \in Ptr /\ nxc \in Ptr
  /\ pc = "run" => cur # Nil
  /\ normal \in BOOLEAN /\ owed \in Nat

(* A pending list with clients on it ends at one of them.                  *)
PendingOK ==
  /\ tail["norm"] \in Own /\ tail["fast"] \in Own
  /\ tail["pend"] \in Clients \cup {"pend"}
  /\ mem["pend"] # Nil => tail["pend"] # "pend"

WakeupInv == PointersOK /\ PendingOK /\ NoLostWakeup

LEMMA WakeupInvInit == WorkerInit => WakeupInv
  BY WorkerAssumption DEF WorkerInit, WakeupInv, PointersOK, PendingOK, NoLostWakeup, Own, Slots, Lists, Ptr

(* Moving a client between the worker's own lists.                         *)
LEMMA ShiftOK ==
  ASSUME NEW c \in Clients, NEW l \in {"norm", "fast"}, WakeupInv, Shift(c, l)
  PROVE  /\ mem' \in [Slots -> Ptr] /\ tail' \in [Lists -> Slots] /\ prevp' \in Own
         /\ tail'["norm"] \in Own /\ tail'["fast"] \in Own
         /\ tail'["pend"] = tail["pend"] /\ mem'["pend"] = mem["pend"]
  BY WorkerAssumption
  DEF WakeupInv, PointersOK, PendingOK, Shift, Here, Own, Slots, Lists, Ptr

LEMMA ProceedOK ==
  ASSUME NEW c \in Clients, WakeupInv, Proceed(c)
  PROVE  /\ mem' \in [Slots -> Ptr] /\ tail' \in [Lists -> Slots] /\ prevp' \in Own
         /\ tail'["norm"] \in Own /\ tail'["fast"] \in Own
         /\ tail'["pend"] = tail["pend"] /\ mem'["pend"] = mem["pend"]
  BY WorkerAssumption
  DEF WakeupInv, PointersOK, PendingOK, Proceed, lists, Own, Slots, Lists, Ptr

LEMMA NextClientOK ==
  ASSUME NEW c \in Clients, NEW close \in BOOLEAN, WakeupInv, NextClient(c, close)
  PROVE  /\ mem' \in [Slots -> Ptr] /\ tail' \in [Lists -> Slots] /\ prevp' \in Own
         /\ tail'["norm"] \in Own /\ tail'["fast"] \in Own
         /\ tail'["pend"] = tail["pend"] /\ mem'["pend"] = mem["pend"]
  <1>1. \/ Proceed(c)
        \/ \E l \in {"norm", "fast"} : Shift(c, l)
    BY DEF NextClient
  <1> QED  BY <1>1, ShiftOK, ProceedOK

LEMMA WakeupInvStep == WakeupInv /\ [WorkerNext]_workerVars => WakeupInv'
  <1> SUFFICES ASSUME WakeupInv, [WorkerNext]_workerVars
               PROVE  WakeupInv'
    OBVIOUS
  <1> USE WorkerAssumption
  <1>1. ASSUME NEW c \in Clients, Add(c)
        PROVE  WakeupInv'
    <2>1. mem' \in [Slots -> Ptr] /\ tail' \in [Lists -> Slots]
      BY <1>1 DEF WakeupInv, PointersOK, PendingOK, Add, Slots, Lists, Ptr
    <2>2. tail'["pend"] = c /\ tail'["norm"] = tail["norm"] /\ tail'["fast"] = tail["fast"]
      BY <1>1 DEF WakeupInv, PointersOK, Add, Lists
    <2>3. owed' \in Nat /\ owed' > 0 /\ UNCHANGED <<prevp, cur, nxc, pc, normal, pipe>>
      BY <1>1 DEF WakeupInv, PointersOK, Add, walk
    <2> QED
      BY <2>1, <2>2, <2>3 DEF WakeupInv, PointersOK, PendingOK, NoLostWakeup
  <1>2. CASE Wakeup
    BY <1>2 DEF WakeupInv, PointersOK, PendingOK, NoLostWakeup, Wakeup, walk, lists, Own
  <1>3. CASE Stop
    BY <1>3 DEF WakeupInv, PointersOK, PendingOK, NoLostWakeup, Stop, walk, lists, Own
  <1>4. ASSUME NEW c \in Clients, Tick(c)
        PROVE  WakeupInv'
    BY <1>4 DEF WakeupInv, PointersOK, PendingOK, NoLostWakeup, Tick, walk, lists, Own
  <1>5. CASE Pick
    BY <1>5 DEF WakeupInv, PointersOK, PendingOK, NoLostWakeup, Pick, others, lists, Own,
                Slots, Lists, Ptr
  <1>6. CASE PickLimit
    BY <1>6 DEF WakeupInv, PointersOK, PendingOK, NoLostWakeup, PickLimit, others, lists, Own
  <1>7. CASE ScanEnd
    BY <1>7 DEF WakeupInv, PointersOK, PendingOK, NoLostWakeup, ScanEnd, others, lists, Own,
                Slots, Lists, Ptr
  <1>8. CASE ScanRun
    BY <1>8 DEF WakeupInv, PointersOK, PendingOK, NoLostWakeup, ScanRun, others, lists, Own,
                Slots, Lists, Ptr
  <1>9. CASE ScanSkip
    <2>1. cur \in Clients
      BY <1>9 DEF ScanSkip, WakeupInv, PointersOK, Ptr
    <2>2. PICK close \in BOOLEAN : NextClient(cur, close)
      BY <1>9 DEF ScanSkip
    <2> QED
      BY <1>9, <2>1, <2>2, NextClientOK
      DEF WakeupInv, PointersOK, PendingOK, NoLostWakeup, ScanSkip, others, Slots, Lists
  <1>10. CASE ProcessStays
    <2>1. cur \in Clients
      BY <1>10 DEF ProcessStays, WakeupInv, PointersOK, Ptr
    <2>2. PICK close \in BOOLEAN : NextClient(cur, close)
      BY <1>10 DEF ProcessStays
    <2> QED
      BY <1>10, <2>1, <2>2, NextClientOK
      DEF WakeupInv, PointersOK, PendingOK, NoLostWakeup, ProcessStays, others, Slots, Lists
  <1>11. CASE ProcessGives
    BY <1>11 DEF WakeupInv, PointersOK, PendingOK, NoLostWakeup, ProcessGives, Own, Slots, Lists, Ptr
  <1>12. CASE Removed
    BY <1>12 DEF WakeupInv, PointersOK, PendingOK, NoLostWakeup, Removed, others, Here, Own,
                 Slots, Lists, Ptr
  <1>13. CASE Check
    BY <1>13 DEF WakeupInv, PointersOK, PendingOK, NoLostWakeup, Check, others, lists, Own
  <1>14. CASE WaitStopped
    BY <1>14 DEF WakeupInv, PointersOK, PendingOK, NoLostWakeup, WaitStopped, others, lists, Own
  <1>15. CASE WaitNormal
    BY <1>15 DEF WakeupInv, PointersOK, PendingOK, NoLostWakeup, WaitNormal, others, lists, Own
  <1>16. CASE WaitOver
    BY <1>16 DEF WakeupInv, PointersOK, PendingOK, NoLostWakeup, WaitOver, Rewalk, others, lists, Own
  <1>17. CASE ReadPipe
    BY <1>17 DEF WakeupInv, PointersOK, PendingOK, NoLostWakeup, ReadPipe, lists, walk, Own
  <1>18. CASE TakePending
    <2>1. /\ mem' \in [Slots -> Ptr] /\ tail' \in [Lists -> Slots]
          /\ tail'["norm"] \in Own /\ tail'["fast"] \in Own
          /\ tail'["pend"] \in Clients \cup {"pend"} /\ mem'["pend"] = Nil
      <3>1. CASE mem["pend"] = Nil
        BY <1>18, <3>1 DEF WakeupInv, PointersOK, PendingOK, TakePending, lists, Own
      <3>2. CASE mem["pend"] # Nil
        <4>1. /\ mem' = [mem EXCEPT ![tail["fast"]] = mem["pend"], !["pend"] = Nil]
              /\ tail' = [tail EXCEPT !["fast"] = tail["pend"], !["pend"] = "pend"]
          BY <1>18, <3>2 DEF TakePending
        <4>2. tail["pend"] \in Own
          BY <3>2 DEF WakeupInv, PendingOK, Own
        <4>3. mem' \in [Slots -> Ptr] /\ mem'["pend"] = Nil
          BY <4>1 DEF WakeupInv, PointersOK, PendingOK, Own, Slots, Lists, Ptr
        <4> QED
          BY <4>1, <4>2, <4>3 DEF WakeupInv, PointersOK, PendingOK, Own, Slots, Lists
      <3> QED
        BY <3>1, <3>2
    <2> QED
      BY <1>18, <2>1
      DEF WakeupInv, PointersOK, PendingOK, NoLostWakeup, TakePending, Rewalk, Own
  <1>19. CASE Relocate
    BY <1>19 DEF WakeupInv, PointersOK, PendingOK, NoLostWakeup, Relocate, others, lists, walk, Own
  <1>20. CASE UNCHANGED workerVars
    BY <1>20 DEF WakeupInv, PointersOK, PendingOK, NoLostWakeup, workerVars, lists, walk, sched, Own
  <1> QED
    BY <1>1, <1>2, <1>3, <1>4, <1>5, <1>6, <1>7, <1>8, <1>9, <1>10, <1>11, <1>12, <1>13,
       <1>14, <1>15, <1>16, <1>17, <1>18, <1>19, <1>20
    DEF WorkerNext, WorkerStep

(* No wakeup is lost: whoever adds a client to a worker, and however its   *)
(* steps fall between those of the worker, the worker will find the pipe   *)
(* written for a client that is pending (worker_wakeup, worker_wait).      *)
THEOREM WakeupKept == WorkerSpec => []NoLostWakeup
  <1>1. WakeupInv => NoLostWakeup
    BY DEF WakeupInv
  <1> QED
    BY WakeupInvInit, WakeupInvStep, <1>1, PTL DEF WorkerSpec

-----------------------------------------------------------------------------
(* The lists of a worker, whatever the moves between them.                 *)
(*                                                                         *)
(* A witness says for each slot which list it is of and where on it; the   *)
(* memory and the ends of the lists are taken as they are once the client  *)
(* given away is off its list.  A step changes the witness of the client   *)
(* it moves.  Hop, a recursive function, is then shown to visit the        *)
(* clients of a list by the least number for which it would not.           *)

(* A slot x of list l and the rest of it, in the order of pos.             *)
Follows(h, own, pos, x) ==
  /\ h[x] # Nil => /\ own[h[x]] = own[x] /\ pos[x] < pos[h[x]]
                   /\ \A y \in Slots : own[y] = own[x] /\ pos[x] < pos[y] => pos[h[x]] <= pos[y]
  /\ h[x] = Nil => \A y \in Slots : own[y] = own[x] => pos[y] <= pos[x]

Arranged(own, pos) ==
  /\ own \in [Slots -> Lists \cup {"none"}] /\ pos \in [Slots -> Nat]
  /\ \A l \in Lists : own[l] = l /\ pos[l] = 0
  /\ \A c \in Clients : pos[c] > 0
  /\ \A x, y \in Slots : own[x] = own[y] /\ own[x] # "none" /\ pos[x] = pos[y] => x = y

(* The three lists in the memory h, with their ends t: own says which list *)
(* a slot is of, and pos orders the slots of a list.                       *)
Chained(h, t, own, pos) ==
  /\ h \in [Slots -> Ptr] /\ t \in [Lists -> Slots]
  /\ Arranged(own, pos)
  /\ \A x \in Slots : own[x] # "none" => Follows(h, own, pos, x)
  /\ \A l \in Lists : own[t[l]] = l /\ h[t[l]] = Nil

LEMMA SlotFacts ==
  /\ Lists \subseteq Slots /\ Clients \subseteq Slots /\ Lists \cap Clients = {}
  /\ Nil \notin Clients /\ "none" \notin Lists /\ Ptr \ {Nil} = Clients
  /\ \A x \in Slots : x \in Lists \/ x \in Clients
  BY WorkerAssumption DEF Slots, Lists, Ptr

(* The client behind p is taken off.                                       *)
LEMMA Unlinked ==
  ASSUME NEW h, NEW t, NEW own, NEW pos, Chained(h, t, own, pos),
         NEW p \in Slots, NEW c \in Clients, NEW l \in Lists, own[p] = l, h[p] = c,
         NEW x \in Ptr,
         NEW h2, h2 = [h EXCEPT ![c] = x, ![p] = h[c]],
         NEW t2, t2 = IF h[c] = Nil THEN [t EXCEPT ![l] = p] ELSE t,
         NEW own2, own2 = [own EXCEPT ![c] = "none"]
  PROVE  Chained(h2, t2, own2, pos)
  <1> USE SlotFacts
  <1>1. /\ h \in [Slots -> Ptr] /\ t \in [Lists -> Slots] /\ c # Nil
        /\ own \in [Slots -> Lists \cup {"none"}] /\ pos \in [Slots -> Nat]
    BY DEF Chained, Arranged
  <1>2. h2 \in [Slots -> Ptr] /\ t2 \in [Lists -> Slots]
    BY <1>1
  <1>3. Arranged(own2, pos)
    BY <1>1 DEF Chained, Arranged
  <1>4. own[c] = l /\ pos[p] < pos[c] /\ c # p
        /\ \A y \in Slots : own[y] = l /\ pos[p] < pos[y] => pos[c] <= pos[y]
    BY <1>1 DEF Chained, Follows
  <1>5. ASSUME NEW y \in Slots, own[y] = l, h[y] = c  PROVE y = p
    <2>1. pos[y] < pos[c]
          /\ \A z \in Slots : own[z] = l /\ pos[y] < pos[z] => pos[c] <= pos[z]
      BY <1>1, <1>5 DEF Chained, Follows
    <2>2. pos[y] \in Nat /\ pos[p] \in Nat /\ pos[c] \in Nat
      BY <1>1
    <2>3. ~(pos[y] < pos[p])
      BY <1>4, <2>1, <2>2
    <2>4. ~(pos[p] < pos[y])
      BY <1>4, <1>5, <2>1, <2>2
    <2>5. pos[y] = pos[p]
      BY <2>2, <2>3, <2>4
    <2> QED  BY <1>5, <2>5 DEF Chained, Arranged
  <1>6. ASSUME NEW y \in Slots, own2[y] # "none"  PROVE Follows(h2, own2, pos, y)
    <2>1. y # c /\ own[y] = own2[y] /\ Follows(h, own, pos, y)
      BY <1>1, <1>6 DEF Chained
    <2>2. CASE y # p
      <3>1. h2[y] = h[y] /\ h[y] # c
        <4>1. h[y] = c => own[y] = l
          BY <2>1, <1>1, <1>4 DEF Follows
        <4> QED  BY <1>1, <1>5, <2>1, <2>2, <4>1
      <3>4. \A z \in Slots : own2[z] = own2[y] => own[z] = own[y]
        BY <1>1, <1>6, <2>1
      <3>2. CASE h[y] = Nil
        BY <2>1, <3>1, <3>2, <3>4 DEF Follows
      <3>3. CASE h[y] # Nil
        <4>1. h[y] \in Slots /\ own2[h[y]] = own[h[y]]
          BY <1>1, <3>1, <3>3
        <4>2. own[h[y]] = own[y] /\ pos[y] < pos[h[y]]
              /\ \A z \in Slots : own[z] = own[y] /\ pos[y] < pos[z] => pos[h[y]] <= pos[z]
          BY <2>1, <3>3 DEF Follows
        <4> QED  BY <2>1, <3>1, <3>3, <3>4, <4>1, <4>2 DEF Follows
      <3> QED  BY <3>2, <3>3
    <2>3. CASE y = p
      <3>1. h2[p] = h[c] /\ Follows(h, own, pos, c)
        BY <1>1, <1>4 DEF Chained
      <3>2. CASE h[c] = Nil
        <4>1. \A z \in Slots : own[z] = l => pos[z] <= pos[c]
          BY <1>4, <3>1, <3>2 DEF Follows
        <4>2. ASSUME NEW z \in Slots, own2[z] = own2[p]  PROVE pos[z] <= pos[p]
          <5>1. z # c /\ own[z] = l
            BY <1>1, <1>4, <4>2
          <5>2. pos[z] \in Nat /\ pos[p] \in Nat /\ pos[c] \in Nat /\ pos[z] # pos[c]
            BY <1>1, <1>4, <5>1 DEF Chained, Arranged
          <5> QED  BY <1>4, <4>1, <5>1, <5>2
        <4> QED  BY <2>3, <3>1, <3>2, <4>2 DEF Follows
      <3>3. CASE h[c] # Nil
        <4>1. h[c] \in Slots /\ own[h[c]] = l /\ pos[c] < pos[h[c]] /\ h[c] # c
          BY <1>1, <1>4, <3>1, <3>3 DEF Follows
        <4>2. own2[h[c]] = own2[p] /\ pos[p] < pos[h[c]]
          BY <1>1, <1>4, <4>1
        <4>3. ASSUME NEW z \in Slots, own2[z] = own2[p], pos[p] < pos[z]
              PROVE  pos[h[c]] <= pos[z]
          <5>1. z # c /\ own[z] = l /\ pos[c] <= pos[z]
            BY <1>1, <1>4, <4>3
          <5>2. pos[c] # pos[z]
            BY <1>4, <5>1 DEF Chained, Arranged
          <5> QED  BY <1>1, <1>4, <3>1, <3>3, <5>1, <5>2 DEF Follows
        <4> QED  BY <2>3, <3>1, <3>3, <4>2, <4>3 DEF Follows
      <3> QED  BY <3>2, <3>3
    <2> QED  BY <2>2, <2>3
  <1>7. ASSUME NEW m \in Lists  PROVE own2[t2[m]] = m /\ h2[t2[m]] = Nil
    <2>1. t[m] \in Slots /\ own[t[m]] = m /\ h[t[m]] = Nil /\ t[m] # p
      BY <1>1 DEF Chained
    <2>2. CASE h[c] = Nil /\ m = l
      BY <1>1, <1>4, <2>2
    <2>3. CASE ~(h[c] = Nil /\ m = l)
      <3>1. t[m] # c /\ t2[m] = t[m]
        BY <1>1, <1>4, <2>1, <2>3
      <3> QED  BY <1>1, <2>1, <3>1
    <2> QED  BY <2>2, <2>3
  <1> QED  BY <1>2, <1>3, <1>6, <1>7 DEF Chained

(* A client that is on none is put at the end of list l.                   *)
LEMMA Appended ==
  ASSUME NEW h, NEW t, NEW own, NEW pos, Chained(h, t, own, pos),
         NEW c \in Clients, NEW l \in Lists, own[c] = "none",
         NEW h2, h2 = [h EXCEPT ![t[l]] = c, ![c] = Nil],
         NEW t2, t2 = [t EXCEPT ![l] = c],
         NEW own2, own2 = [own EXCEPT ![c] = l],
         NEW pos2, pos2 = [pos EXCEPT ![c] = pos[t[l]] + 1]
  PROVE  Chained(h2, t2, own2, pos2)
  <1> USE SlotFacts
  <1>1. /\ h \in [Slots -> Ptr] /\ t \in [Lists -> Slots] /\ c # Nil /\ c \in Ptr /\ Nil \in Ptr
        /\ own \in [Slots -> Lists \cup {"none"}] /\ pos \in [Slots -> Nat]
    BY DEF Chained, Arranged, Ptr
  <1>2. h2 \in [Slots -> Ptr] /\ t2 \in [Lists -> Slots]
    BY <1>1
  <1>3. t[l] \in Slots /\ own[t[l]] = l /\ h[t[l]] = Nil /\ t[l] # c
        /\ \A y \in Slots : own[y] = l => pos[y] <= pos[t[l]]
    BY <1>1 DEF Chained, Follows
  <1>4. Arranged(own2, pos2)
    <2>1. own2 \in [Slots -> Lists \cup {"none"}] /\ pos2 \in [Slots -> Nat]
      BY <1>1, <1>3
    <2>2. \A m \in Lists : own2[m] = m /\ pos2[m] = 0
      BY <1>1 DEF Chained, Arranged
    <2>3. \A d \in Clients : pos2[d] > 0
      BY <1>1, <1>3 DEF Chained, Arranged
    <2>4. ASSUME NEW x \in Slots, NEW y \in Slots, own2[x] = own2[y], own2[x] # "none",
                 pos2[x] = pos2[y]
          PROVE  x = y
      BY <1>1, <1>3, <2>4 DEF Chained, Arranged
    <2> QED  BY <2>1, <2>2, <2>3, <2>4 DEF Arranged
  <1>5. ASSUME NEW y \in Slots, own2[y] # "none"  PROVE Follows(h2, own2, pos2, y)
    <2>1. CASE y = c
      <3>1. h2[y] = Nil /\ own2[y] = l /\ pos2[y] = pos[t[l]] + 1
        BY <1>1, <1>3, <2>1
      <3>2. \A z \in Slots : own2[z] = l => pos2[z] <= pos2[y]
        BY <1>1, <1>3, <3>1, <2>1
      <3> QED  BY <3>1, <3>2 DEF Follows
    <2>2. CASE y = t[l]
      <3>1. h2[y] = c /\ own2[y] = l /\ own2[c] = l /\ pos2[y] = pos[t[l]]
            /\ pos2[c] = pos[t[l]] + 1
        BY <1>1, <1>3, <2>2
      <3>2. \A z \in Slots : own2[z] = own2[y] /\ pos2[y] < pos2[z] => pos2[c] <= pos2[z]
        BY <1>1, <1>3, <3>1
      <3> QED  BY <1>1, <3>1, <3>2 DEF Follows
    <2>3. CASE y # c /\ y # t[l]
      <3>1. h2[y] = h[y] /\ own2[y] = own[y] /\ pos2[y] = pos[y] /\ Follows(h, own, pos, y)
        BY <1>1, <1>5, <2>3 DEF Chained
      <3>2. h[y] # c
        BY <1>1, <3>1, <1>5 DEF Follows
      <3>3. own[y] = l => h[y] # Nil
        <4>1. own[y] = l /\ h[y] = Nil => pos[t[l]] <= pos[y]
          BY <1>1, <1>3, <3>1 DEF Follows
        <4>2. own[y] = l => pos[y] # pos[t[l]]
          BY <1>3, <2>3 DEF Chained, Arranged
        <4> QED  BY <1>1, <1>3, <4>1, <4>2
      <3>4. CASE h[y] = Nil
        BY <1>1, <3>1, <3>3, <3>4 DEF Follows
      <3>5. CASE h[y] # Nil
        <4>1. h[y] \in Slots /\ own2[h[y]] = own[h[y]] /\ pos2[h[y]] = pos[h[y]]
          BY <1>1, <3>2, <3>5
        <4>2. own[h[y]] = own[y] /\ pos[y] < pos[h[y]]
              /\ \A z \in Slots : own[z] = own[y] /\ pos[y] < pos[z] => pos[h[y]] <= pos[z]
          BY <3>1, <3>5 DEF Follows
        <4>3. \A z \in Slots : own2[z] = own2[y] /\ pos2[y] < pos2[z] => pos2[h[y]] <= pos2[z]
          BY <1>1, <1>3, <3>1, <4>1, <4>2
        <4> QED  BY <3>1, <3>5, <4>1, <4>2, <4>3 DEF Follows
      <3> QED  BY <3>4, <3>5
    <2> QED  BY <2>1, <2>2, <2>3
  <1>6. ASSUME NEW m \in Lists  PROVE own2[t2[m]] = m /\ h2[t2[m]] = Nil
    <2>1. t[m] \in Slots /\ own[t[m]] = m /\ h[t[m]] = Nil
      BY <1>1 DEF Chained
    <2> QED  BY <1>1, <1>3, <2>1
  <1> QED  BY <1>2, <1>4, <1>5, <1>6 DEF Chained

(* The pending clients come behind slot f of the fast list.                *)
PendingBehind(f, own, pos, own2, pos2) ==
  /\ own2 \in [Slots -> Lists \cup {"none"}] /\ pos2 \in [Slots -> Nat]
  /\ \A x \in Slots :
       IF x \in Clients /\ own[x] = "pend"
       THEN own2[x] = "fast" /\ pos2[x] = pos[x] + pos[f]
       ELSE own2[x] = own[x] /\ pos2[x] = pos[x]

(* The pending list is put at the end of the fast one.                     *)
LEMMA Joined ==
  ASSUME NEW h, NEW t, NEW own, NEW pos, Chained(h, t, own, pos), h["pend"] # Nil,
         NEW h2, h2 = [h EXCEPT ![t["fast"]] = h["pend"], !["pend"] = Nil],
         NEW t2, t2 = [t EXCEPT !["fast"] = t["pend"], !["pend"] = "pend"],
         NEW own2, NEW pos2, PendingBehind(t["fast"], own, pos, own2, pos2)
  PROVE  Chained(h2, t2, own2, pos2)
  <1> USE SlotFacts
  <1>0. PICK f, b, e : f = t["fast"] /\ b = h["pend"] /\ e = t["pend"]
    OBVIOUS
  <1>1. /\ h \in [Slots -> Ptr] /\ t \in [Lists -> Slots] /\ Nil \in Ptr /\ b \in Clients
        /\ own \in [Slots -> Lists \cup {"none"}] /\ pos \in [Slots -> Nat]
        /\ "pend" \in Lists /\ "fast" \in Lists /\ "pend" # "fast" /\ "pend" \notin Clients
        /\ \A c \in Clients : c # Nil
    BY <1>0 DEF Chained, Arranged, Ptr, Lists
  <1>2. /\ f \in Slots /\ own[f] = "fast" /\ h[f] = Nil
        /\ \A y \in Slots : own[y] = "fast" => pos[y] <= pos[f]
    BY <1>0, <1>1 DEF Chained, Follows
  <1>3. /\ own["pend"] = "pend" /\ pos["pend"] = 0 /\ own["fast"] = "fast" /\ own[b] = "pend"
        /\ pos[b] > 0
        /\ \A y \in Slots : own[y] = "pend" /\ 0 < pos[y] => pos[b] <= pos[y]
    BY <1>0, <1>1 DEF Chained, Follows, Arranged
  <1>4. e \in Slots /\ own[e] = "pend" /\ h[e] = Nil /\ e # "pend" /\ e \in Clients
    BY <1>0, <1>1 DEF Chained, Arranged
  <1>5. /\ h2 = [h EXCEPT ![f] = b, !["pend"] = Nil]
        /\ t2 = [t EXCEPT !["fast"] = e, !["pend"] = "pend"]
    BY <1>0
  <1>6. /\ \A x \in Slots : own[x] = "pend" /\ x # "pend" =>
             x \in Clients /\ own2[x] = "fast" /\ pos2[x] = pos[x] + pos[f] /\ pos[x] > 0
        /\ \A x \in Slots : own[x] # "pend" \/ x = "pend" => own2[x] = own[x] /\ pos2[x] = pos[x]
    BY <1>0, <1>1 DEF Chained, Arranged, PendingBehind
  <1>7. h2 \in [Slots -> Ptr] /\ t2 \in [Lists -> Slots]
    BY <1>1, <1>4, <1>5, <1>2 DEF Ptr
  <1>8. Arranged(own2, pos2)
    <2>1. own2 \in [Slots -> Lists \cup {"none"}] /\ pos2 \in [Slots -> Nat]
      BY DEF PendingBehind
    <2>2. \A m \in Lists : own2[m] = m /\ pos2[m] = 0
      BY <1>1, <1>6 DEF Chained, Arranged
    <2>3. \A d \in Clients : pos2[d] > 0
      BY <1>1, <1>2, <1>6 DEF Chained, Arranged
    <2>4. ASSUME NEW x \in Slots, NEW y \in Slots, own2[x] = own2[y], own2[x] # "none",
                 pos2[x] = pos2[y]
          PROVE  x = y
      <3>0. pos[x] \in Nat /\ pos[y] \in Nat /\ pos[f] \in Nat
        BY <1>1, <1>2
      <3>1. CASE own[x] = "pend" /\ x # "pend" /\ ~(own[y] = "pend" /\ y # "pend")
        BY <1>2, <1>6, <2>4, <3>0, <3>1
      <3>2. CASE own[y] = "pend" /\ y # "pend" /\ ~(own[x] = "pend" /\ x # "pend")
        BY <1>2, <1>6, <2>4, <3>0, <3>2
      <3>3. CASE own[x] = "pend" /\ x # "pend" /\ own[y] = "pend" /\ y # "pend"
        <4>1. pos[x] = pos[y]
          BY <1>6, <2>4, <3>0, <3>3
        <4> QED  BY <3>3, <4>1 DEF Chained, Arranged
      <3>4. CASE ~(own[x] = "pend" /\ x # "pend") /\ ~(own[y] = "pend" /\ y # "pend")
        BY <1>6, <2>4, <3>4 DEF Chained, Arranged
      <3> QED  BY <3>1, <3>2, <3>3, <3>4
    <2> QED  BY <2>1, <2>2, <2>3, <2>4 DEF Arranged
  <1>9. ASSUME NEW y \in Slots, own2[y] # "none"  PROVE Follows(h2, own2, pos2, y)
    <2>0. pos[y] \in Nat /\ pos[f] \in Nat /\ pos[b] \in Nat /\ \A z \in Slots : pos[z] \in Nat
      BY <1>1, <1>2
    <2>1. CASE y = "pend"
      <3>1. h2[y] = Nil /\ own2[y] = "pend" /\ pos2[y] = 0
        BY <1>1, <1>3, <1>5, <1>6, <2>1
      <3>2. ASSUME NEW z \in Slots, own2[z] = "pend"  PROVE z = "pend"
        <4>1. CASE own[z] = "pend" /\ z # "pend"
          BY <1>6, <3>2, <4>1
        <4>2. CASE own[z] # "pend"
          BY <1>6, <3>2, <4>2
        <4> QED  BY <4>1, <4>2
      <3>3. \A z \in Slots : own2[z] = own2[y] => pos2[z] <= pos2[y]
        BY <2>1, <3>1, <3>2
      <3> QED  BY <3>1, <3>3 DEF Follows
    <2>2. CASE y = f
      <3>1. h2[y] = b /\ own2[y] = "fast" /\ own2[b] = "fast" /\ pos2[y] = pos[f]
            /\ pos2[b] = pos[b] + pos[f] /\ b # Nil
        BY <1>1, <1>2, <1>3, <1>5, <1>6, <2>2
      <3>2. ASSUME NEW z \in Slots, own2[z] = "fast", pos[f] < pos2[z]
            PROVE  pos2[b] <= pos2[z]
        <4>1. CASE own[z] = "pend" /\ z # "pend"
          <5>1. pos2[z] = pos[z] + pos[f] /\ pos[b] <= pos[z] /\ pos[z] \in Nat
            BY <1>3, <1>6, <2>0, <4>1
          <5> QED  BY <2>0, <3>1, <5>1
        <4>2. CASE own[z] # "pend" \/ z = "pend"
          <5>1. own[z] = "fast" /\ pos2[z] = pos[z]
            BY <1>6, <3>2, <4>2
          <5> QED  BY <1>2, <2>0, <3>2, <5>1
        <4> QED  BY <4>1, <4>2
      <3>3. pos2[y] < pos2[b]
        BY <1>3, <2>0, <3>1
      <3> QED  BY <3>1, <3>2, <3>3 DEF Follows
    <2>3. CASE own[y] = "pend" /\ y # "pend"
      <3>1. y # f /\ h2[y] = h[y] /\ own2[y] = "fast" /\ pos2[y] = pos[y] + pos[f]
            /\ Follows(h, own, pos, y)
        BY <1>1, <1>2, <1>5, <1>6, <2>3 DEF Chained
      <3>2. CASE h[y] = Nil
        <4>1. ASSUME NEW z \in Slots, own2[z] = "fast"  PROVE pos2[z] <= pos2[y]
          <5>1. CASE own[z] = "pend"
            BY <1>6, <2>0, <2>3, <3>1, <3>2, <4>1, <5>1 DEF Follows
          <5>2. CASE own[z] # "pend"
            BY <1>2, <1>6, <2>0, <3>1, <4>1, <5>2
          <5> QED  BY <5>1, <5>2
        <4> QED  BY <3>1, <3>2, <4>1 DEF Follows
      <3>3. CASE h[y] # Nil
        <4>1. h[y] \in Clients /\ own[h[y]] = "pend" /\ pos[y] < pos[h[y]]
              /\ \A z \in Slots : own[z] = "pend" /\ pos[y] < pos[z] => pos[h[y]] <= pos[z]
          BY <1>1, <2>3, <3>1, <3>3 DEF Follows
        <4>2. own2[h[y]] = "fast" /\ pos2[h[y]] = pos[h[y]] + pos[f] /\ pos[h[y]] \in Nat
          BY <1>1, <1>6, <2>0, <4>1
        <4>3. ASSUME NEW z \in Slots, own2[z] = "fast", pos2[y] < pos2[z]
              PROVE  pos2[h[y]] <= pos2[z]
          <5>1. CASE own[z] = "pend" /\ z # "pend"
            <6>1. pos2[z] = pos[z] + pos[f] /\ pos[z] \in Nat
              BY <1>6, <2>0, <5>1
            <6>2. pos[y] < pos[z]
              BY <2>0, <3>1, <4>3, <6>1
            <6> QED  BY <2>0, <4>1, <4>2, <5>1, <6>1, <6>2
          <5>2. CASE own[z] # "pend" \/ z = "pend"
            <6>1. own[z] = "fast" /\ pos2[z] = pos[z]
              BY <1>6, <4>3, <5>2
            <6> QED  BY <1>2, <2>0, <3>1, <4>3, <6>1
          <5> QED  BY <5>1, <5>2
        <4>4. pos2[y] < pos2[h[y]]
          BY <2>0, <3>1, <4>1, <4>2
        <4> QED  BY <3>1, <3>3, <4>2, <4>3, <4>4 DEF Follows
      <3> QED  BY <3>2, <3>3
    <2>4. CASE y # f /\ own[y] # "pend"
      <3>1. h2[y] = h[y] /\ own2[y] = own[y] /\ pos2[y] = pos[y] /\ Follows(h, own, pos, y)
            /\ own[y] # "none" /\ y # "pend"
        BY <1>1, <1>3, <1>5, <1>6, <1>9, <2>4 DEF Chained
      <3>2. own[y] = "fast" => h[y] # Nil
        <4>1. own[y] = "fast" /\ h[y] = Nil => pos[f] <= pos[y]
          BY <1>2, <3>1 DEF Follows
        <4>2. own[y] = "fast" => pos[y] # pos[f]
          BY <1>2, <2>4 DEF Chained, Arranged
        <4> QED  BY <1>2, <2>0, <4>1, <4>2
      <3>3. CASE h[y] = Nil
        <4>1. \A z \in Slots : own2[z] = own2[y] => own[z] = own[y] /\ pos2[z] = pos[z]
          BY <1>6, <2>4, <3>1, <3>2, <3>3
        <4> QED  BY <3>1, <3>3, <4>1 DEF Follows
      <3>4. CASE h[y] # Nil
        <4>1. h[y] \in Slots /\ own[h[y]] = own[y] /\ pos[y] < pos[h[y]]
              /\ \A z \in Slots : own[z] = own[y] /\ pos[y] < pos[z] => pos[h[y]] <= pos[z]
          BY <1>1, <3>1, <3>4 DEF Follows
        <4>2. own2[h[y]] = own[y] /\ pos2[h[y]] = pos[h[y]] /\ pos[h[y]] \in Nat
          BY <1>6, <2>0, <2>4, <4>1
        <4>3. ASSUME NEW z \in Slots, own2[z] = own2[y], pos2[y] < pos2[z]
              PROVE  pos2[h[y]] <= pos2[z]
          <5>1. CASE own[z] = own[y]
            BY <1>6, <2>4, <3>1, <4>1, <4>2, <4>3, <5>1
          <5>2. CASE own[z] # own[y]
            <6>1. own[y] = "fast" /\ own[z] = "pend" /\ z # "pend"
              BY <1>6, <3>1, <4>3, <5>2
            <6>2. pos[h[y]] <= pos[f] /\ pos2[z] = pos[z] + pos[f]
              BY <1>2, <1>6, <4>1, <6>1
            <6> QED  BY <2>0, <4>2, <6>2
          <5> QED  BY <5>1, <5>2
        <4> QED  BY <3>1, <3>4, <4>1, <4>2, <4>3 DEF Follows
      <3> QED  BY <3>3, <3>4
    <2> QED  BY <2>1, <2>2, <2>3, <2>4
  <1>10. ASSUME NEW m \in Lists  PROVE own2[t2[m]] = m /\ h2[t2[m]] = Nil
    <2>1. t[m] \in Slots /\ own[t[m]] = m /\ h[t[m]] = Nil
      BY <1>1 DEF Chained
    <2>2. CASE m = "fast"
      BY <1>1, <1>2, <1>4, <1>5, <1>6, <2>2
    <2>3. CASE m = "pend"
      BY <1>1, <1>3, <1>5, <1>6, <2>3
    <2>4. CASE m # "fast" /\ m # "pend"
      BY <1>1, <1>2, <1>5, <1>6, <2>1, <2>4
    <2> QED  BY <2>2, <2>3, <2>4
  <1> QED  BY <1>7, <1>8, <1>9, <1>10 DEF Chained

(* Induction on the naturals.                                              *)
LEMMA NatMin ==
  ASSUME NEW T, T \subseteq Nat, T # {}
  PROVE  \E n \in T : \A m \in T : n <= m
  <1>1. PICK F : F = {0..n : n \in T}
    OBVIOUS
  <1>2. F \subseteq FiniteSubsetsOf(Nat) /\ F # {}
    <2>1. \A n \in T : 0..n \subseteq Nat
      OBVIOUS
    <2>2. \A n \in T : IsFiniteSet(0..n)
      BY FS_Interval
    <2> QED  BY <1>1, <2>1, <2>2 DEF FiniteSubsetsOf
  <1>3. PICK I \in F : \A J \in F : ~(<<J, I>> \in StrictSubsetOrdering(Nat))
    BY <1>2, FS_StrictSubsetOrderingWellFounded, WFMin
  <1>4. PICK n \in T : I = 0..n
    BY <1>1
  <1>5. ASSUME NEW m \in T, ~(n <= m)  PROVE FALSE
    <2>1. 0..m \in F /\ 0..m \subseteq Nat /\ 0..n \subseteq Nat
      BY <1>1
    <2>2. 0..m \subseteq 0..n /\ n \in 0..n /\ n \notin 0..m
      BY <1>5
    <2>3. <<0..m, I>> \in StrictSubsetOrdering(Nat)
      BY <1>4, <2>1, <2>2 DEF StrictSubsetOrdering
    <2> QED  BY <1>3, <2>1, <2>3
  <1> QED  BY <1>5

(* n hops down list l in the memory h.                                     *)
Walks(f, h, l, k) ==
  f = [n \in 0..k |-> IF n = 0 THEN h[l]
                      ELSE IF f[n - 1] = Nil THEN Nil ELSE h[f[n - 1]]]

LEMMA WalkExists ==
  ASSUME NEW h, NEW l, NEW k \in Nat
  PROVE  \E f : Walks(f, h, l, k)
  <1> SUFFICES ASSUME ~\E f : Walks(f, h, l, k) PROVE FALSE
    OBVIOUS
  <1>1. PICK T : T = {j \in Nat : ~\E f : Walks(f, h, l, j)}
    OBVIOUS
  <1>2. PICK j \in T : \A m \in T : j <= m
    <2>1. T \subseteq Nat /\ T # {}
      BY <1>1
    <2> QED  BY <2>1, NatMin
  <1>3. j \in Nat /\ ~\E f : Walks(f, h, l, j)
    BY <1>1, <1>2
  <1>4. j # 0
    <2>1. Walks([n \in 0..0 |-> h[l]], h, l, 0)
      BY DEF Walks
    <2> QED  BY <1>3, <2>1
  <1>5. j - 1 \in Nat /\ j - 1 \notin T
    BY <1>2, <1>3, <1>4
  <1>6. PICK g : Walks(g, h, l, j - 1)
    BY <1>1, <1>5
  <1>7. PICK f : f = [n \in 0..j |-> IF n = j THEN IF g[j - 1] = Nil THEN Nil ELSE h[g[j - 1]]
                                     ELSE g[n]]
    OBVIOUS
  <1>8. \A n \in 0..j : n # j => n \in 0..(j - 1) /\ f[n] = g[n]
    BY <1>3, <1>7
  <1>9. ASSUME NEW n \in 0..j
        PROVE  f[n] = IF n = 0 THEN h[l] ELSE IF f[n - 1] = Nil THEN Nil ELSE h[f[n - 1]]
    <2>1. CASE n = 0
      BY <1>3, <1>4, <1>6, <1>8, <2>1 DEF Walks
    <2>2. CASE n # 0
      <3>1. n - 1 \in 0..j /\ n - 1 # j /\ f[n - 1] = g[n - 1]
        BY <1>3, <1>8, <2>2
      <3>2. CASE n = j
        BY <1>7, <2>2, <3>1, <3>2
      <3>3. CASE n # j
        <4>1. n \in 0..(j - 1) /\ f[n] = g[n]
          BY <1>8, <3>3
        <4>2. g[n] = IF g[n - 1] = Nil THEN Nil ELSE h[g[n - 1]]
          BY <1>6, <2>2, <4>1 DEF Walks
        <4> QED  BY <2>2, <3>1, <4>1, <4>2
      <3> QED  BY <3>2, <3>3
    <2> QED  BY <2>1, <2>2
  <1>10. Walks(f, h, l, j)
    BY <1>7, <1>9 DEF Walks
  <1> QED  BY <1>3, <1>10

LEMMA HopWalks == ASSUME NEW l PROVE Walks(Hop(l), Heap, l, Cardinality(Clients))
  <1>1. Cardinality(Clients) \in Nat
    BY WorkerAssumption, FS_CardinalityType
  <1>2. \E f : Walks(f, Heap, l, Cardinality(Clients))
    BY <1>1, WalkExists
  <1> QED  BY <1>2 DEF Hop, Walks

(* A walk down a list visits its clients, and comes to its end.            *)
LEMMA Visited ==
  ASSUME NEW h, NEW t, NEW own, NEW pos, Chained(h, t, own, pos), NEW l \in Lists,
         NEW f, Walks(f, h, l, Cardinality(Clients))
  PROVE  /\ {f[n] : n \in 0..Cardinality(Clients)} \ {Nil} = {c \in Clients : own[c] = l}
         /\ f[Cardinality(Clients)] = Nil
  <1> USE SlotFacts
  <1>0. PICK N, K : N = Cardinality(Clients) /\ K = {c \in Clients : own[c] = l}
    OBVIOUS
  <1>1. /\ h \in [Slots -> Ptr] /\ \A x \in Slots : pos[x] \in Nat
        /\ N \in Nat /\ IsFiniteSet(Clients) /\ own[l] = l /\ pos[l] = 0 /\ l # "none"
        /\ \A c \in Clients : pos[c] > 0 /\ c # Nil
        /\ \A x, y \in Slots : own[x] = own[y] /\ own[x] # "none" /\ pos[x] = pos[y] => x = y
    BY <1>0, WorkerAssumption, FS_CardinalityType DEF Chained, Arranged
  <1>2. /\ f[0] = h[l]
        /\ \A n \in 0..N : n # 0 =>
             f[n] = IF f[n - 1] = Nil THEN Nil ELSE h[f[n - 1]]
    BY <1>0, <1>1 DEF Walks
  <1>3. \A x \in Slots : own[x] = l => Follows(h, own, pos, x)
    BY <1>1 DEF Chained
  <1>4. \A n \in 0..N : f[n] = Nil \/ f[n] \in K
    <2> SUFFICES ASSUME NEW k \in 0..N, ~(f[k] = Nil \/ f[k] \in K) PROVE FALSE
      OBVIOUS
    <2>1. PICK T : T = {n \in 0..N : ~(f[n] = Nil \/ f[n] \in K)}
      OBVIOUS
    <2>2. PICK n \in T : \A m \in T : n <= m
      <3>1. T \subseteq Nat /\ T # {}
        BY <1>1, <2>1
      <3> QED  BY <3>1, NatMin
    <2>3. n \in 0..N /\ ~(f[n] = Nil \/ f[n] \in K)
      BY <2>1, <2>2
    <2>4. CASE n = 0
      <3>1. h[l] # Nil => h[l] \in Clients /\ own[h[l]] = l
        BY <1>1, <1>3 DEF Follows
      <3> QED  BY <1>0, <1>2, <2>3, <2>4, <3>1
    <2>5. CASE n # 0
      <3>1. n - 1 \in 0..N /\ n - 1 \notin T
        BY <1>1, <2>2, <2>3, <2>5
      <3>2. f[n - 1] \in K /\ f[n] = h[f[n - 1]]
        BY <1>2, <2>1, <2>3, <2>5, <3>1
      <3>3. PICK x \in Clients : x = f[n - 1] /\ own[x] = l
        BY <1>0, <3>2
      <3>4. h[x] # Nil => h[x] \in Clients /\ own[h[x]] = l
        BY <1>1, <1>3, <3>3 DEF Follows
      <3> QED  BY <1>0, <2>3, <3>2, <3>3, <3>4
    <2> QED  BY <2>4, <2>5
  <1>5. PICK Before : Before = [n \in 0..N |-> {c \in K : f[n] = Nil \/ pos[c] < pos[f[n]]}]
    OBVIOUS
  <1>6. K \subseteq Clients /\ \A c \in K : own[c] = l
    BY <1>0
  <1>7. Before[0] = {}
    <2> SUFFICES ASSUME NEW c \in Before[0] PROVE FALSE
      OBVIOUS
    <2>1. c \in K /\ (h[l] = Nil \/ pos[c] < pos[h[l]])
      BY <1>1, <1>2, <1>5
    <2>2. c \in Clients /\ own[c] = own[l] /\ pos[l] < pos[c]
      BY <1>1, <1>6, <2>1
    <2>3. CASE h[l] = Nil
      BY <1>1, <1>3, <2>2, <2>3 DEF Follows
    <2>4. CASE h[l] # Nil
      <3>1. h[l] \in Slots
        BY <1>1, <2>4
      <3>2. pos[h[l]] <= pos[c]
        BY <1>1, <1>3, <2>2, <2>4 DEF Follows
      <3>3. pos[h[l]] \in Nat /\ pos[c] \in Nat
        BY <1>1, <2>2, <3>1
      <3> QED  BY <2>1, <2>4, <3>2, <3>3
    <2> QED  BY <2>3, <2>4
  <1>8. ASSUME NEW n \in 0..N, n # 0
        PROVE  /\ n - 1 \in 0..N
               /\ f[n - 1] = Nil => f[n] = Nil /\ Before[n] = Before[n - 1]
               /\ f[n - 1] # Nil => /\ Before[n] = Before[n - 1] \cup {f[n - 1]}
                                    /\ f[n - 1] \notin Before[n - 1]
    <2>1. n - 1 \in 0..N
      BY <1>1, <1>8
    <2>2. CASE f[n - 1] = Nil
      BY <1>2, <1>5, <1>8, <2>1, <2>2
    <2>3. CASE f[n - 1] # Nil
      <3>1. PICK x : x = f[n - 1] /\ x \in K /\ f[n] = h[x]
        BY <1>2, <1>4, <1>8, <2>1, <2>3
      <3>2. x \in Slots /\ own[x] = l /\ pos[x] \in Nat /\ Follows(h, own, pos, x)
        BY <1>1, <1>3, <1>6, <3>1
      <3>3. ASSUME NEW c \in K
            PROVE  (h[x] = Nil \/ pos[c] < pos[h[x]]) <=> (pos[c] < pos[x] \/ c = x)
        <4>1. c \in Slots /\ own[c] = own[x] /\ pos[c] \in Nat
          BY <1>1, <1>6, <3>2
        <4>2. pos[c] = pos[x] => c = x
          BY <1>1, <3>2, <4>1
        <4>3. CASE h[x] = Nil
          <5>1. pos[c] <= pos[x]
            BY <3>2, <4>1, <4>3 DEF Follows
          <5> QED  BY <3>2, <4>1, <4>2, <4>3, <5>1
        <4>4. CASE h[x] # Nil
          <5>1. h[x] \in Slots /\ pos[h[x]] \in Nat
            BY <1>1, <3>2, <4>4
          <5>2. pos[x] < pos[h[x]] /\ (pos[x] < pos[c] => pos[h[x]] <= pos[c])
            BY <3>2, <4>1, <4>4 DEF Follows
          <5> QED  BY <3>2, <4>1, <4>2, <4>4, <5>1, <5>2
        <4> QED  BY <4>3, <4>4
      <3>4. Before[n] = {c \in K : h[x] = Nil \/ pos[c] < pos[h[x]]}
            /\ Before[n - 1] = {c \in K : pos[c] < pos[x]}
        BY <1>5, <1>8, <2>1, <2>3, <3>1
      <3>5. Before[n] = Before[n - 1] \cup {x} /\ x \notin Before[n - 1]
        BY <3>1, <3>2, <3>3, <3>4
      <3> QED  BY <2>1, <2>3, <3>1, <3>5
    <2> QED  BY <2>1, <2>2, <2>3
  <1>9. \A n \in 0..N : \A c \in Before[n] : \E m \in 0..N : f[m] = c
    <2> SUFFICES ASSUME NEW k \in 0..N, ~\A c \in Before[k] : \E m \in 0..N : f[m] = c
                 PROVE  FALSE
      OBVIOUS
    <2>1. PICK T : T = {n \in 0..N : ~\A c \in Before[n] : \E m \in 0..N : f[m] = c}
      OBVIOUS
    <2>2. PICK n \in T : \A m \in T : n <= m
      <3>1. T \subseteq Nat /\ T # {}
        BY <1>1, <2>1
      <3> QED  BY <3>1, NatMin
    <2>3. n \in 0..N /\ n # 0
      BY <1>7, <2>1, <2>2
    <2>4. n - 1 \in 0..N /\ n - 1 \notin T
      BY <1>1, <2>2, <2>3
    <2>5. \A c \in Before[n - 1] : \E m \in 0..N : f[m] = c
      BY <2>1, <2>4
    <2>6. \A c \in Before[n] : \E m \in 0..N : f[m] = c
      BY <1>8, <2>3, <2>4, <2>5
    <2> QED  BY <2>1, <2>2, <2>6
  <1>10. \A n \in 0..N : f[n] # Nil => IsFiniteSet(Before[n]) /\ Cardinality(Before[n]) = n
    <2> SUFFICES ASSUME NEW k \in 0..N, f[k] # Nil,
                        ~(IsFiniteSet(Before[k]) /\ Cardinality(Before[k]) = k)
                 PROVE  FALSE
      OBVIOUS
    <2>1. PICK T : T = {n \in 0..N : f[n] # Nil
                                      /\ ~(IsFiniteSet(Before[n]) /\ Cardinality(Before[n]) = n)}
      OBVIOUS
    <2>2. PICK n \in T : \A m \in T : n <= m
      <3>1. T \subseteq Nat /\ T # {}
        BY <1>1, <2>1
      <3> QED  BY <3>1, NatMin
    <2>3. n \in 0..N /\ f[n] # Nil
          /\ ~(IsFiniteSet(Before[n]) /\ Cardinality(Before[n]) = n)
      BY <2>1, <2>2
    <2>4. n # 0
      BY <1>7, <2>3, FS_EmptySet
    <2>5. n - 1 \in 0..N /\ n - 1 \notin T
      BY <1>1, <2>2, <2>3, <2>4
    <2>6. f[n - 1] # Nil
      BY <1>8, <2>3, <2>4
    <2>7. IsFiniteSet(Before[n - 1]) /\ Cardinality(Before[n - 1]) = n - 1
      BY <2>1, <2>5, <2>6
    <2>8. IsFiniteSet(Before[n]) /\ Cardinality(Before[n]) = n - 1 + 1
      <3>1. PICK B, x : B = Before[n - 1] /\ x = f[n - 1]
        OBVIOUS
      <3>2. Before[n] = B \cup {x} /\ x \notin B
        BY <1>8, <2>3, <2>4, <2>6, <3>1
      <3>3. IsFiniteSet(B \cup {x}) /\ Cardinality(B \cup {x}) = Cardinality(B) + 1
        BY <2>7, <3>1, <3>2, FS_AddElement
      <3> QED  BY <2>7, <3>1, <3>2, <3>3
    <2> QED  BY <1>1, <2>3, <2>8
  <1>11. f[N] = Nil
    <2> SUFFICES ASSUME f[N] # Nil PROVE FALSE
      OBVIOUS
    <2>1. N \in 0..N /\ f[N] \in Clients
      BY <1>1, <1>4, <1>6
    <2>2. Before[N] \subseteq Clients \ {f[N]}
      <3>1. \A c \in Before[N] : c \in Clients /\ pos[c] < pos[f[N]]
        BY <1>5, <1>6, <2>1
      <3>2. \A c \in Before[N] : c # f[N]
        BY <1>1, <2>1, <3>1
      <3> QED  BY <3>1, <3>2
    <2>3. IsFiniteSet(Clients \ {f[N]}) /\ Cardinality(Clients \ {f[N]}) = N - 1
      BY <1>0, <1>1, <2>1, FS_RemoveElement
    <2>4. Cardinality(Before[N]) <= N - 1
      BY <2>2, <2>3, FS_Subset
    <2>5. Cardinality(Before[N]) = N
      BY <1>10, <2>1
    <2> QED  BY <1>1, <2>4, <2>5
  <1>12. Before[N] = K
    BY <1>1, <1>5, <1>11
  <1>13. {f[n] : n \in 0..N} \ {Nil} = K
    <2>1. \A c \in K : c \in {f[n] : n \in 0..N} \ {Nil}
      BY <1>1, <1>6, <1>9, <1>12
    <2>2. \A c \in {f[n] : n \in 0..N} \ {Nil} : c \in K
      BY <1>4
    <2> QED  BY <2>1, <2>2
  <1> QED  BY <1>0, <1>11, <1>13

(* The ends of the lists as they are once the client given away is taken   *)
(* off its list.                                                           *)
Tails == IF handed /\ nxc = Nil THEN [tail EXCEPT ![Here] = prevp] ELSE tail

Members(own, l) == {c \in Clients : own[c] = l}

(* Who is on which list, and where the walk is.                            *)
ListsAre(own, pos) ==
  /\ Chained(Heap, Tails, own, pos)
  /\ on = {c \in Clients : own[c] # "none"}
  /\ own[prevp] = Here
  /\ handed => pc = "run" /\ (nxc = Nil => tail[Here] = cur)
  /\ Cardinality(Members(own, "norm")) + Cardinality(Members(own, "fast"))
       = (IF handed THEN count - 1 ELSE count)
  /\ Cardinality(Members(own, "pend")) = worker_pending

(* The client at hand is the one behind prevp, but for the last one of the *)
(* normal list, behind which prevp stays.                                  *)
AtHand ==
  /\ pc = "scan" =>
       /\ ~fresh /\ run_left > 0
       /\ \/ cur = mem[prevp]
          \/ normal /\ cur = Nil /\ mem[prevp] \in noted /\ mem[prevp] # Nil /\ mem[mem[prevp]] = Nil
  /\ pc = "run" => ~fresh
  /\ pc = "run" /\ ~handed => cur = mem[prevp] /\ nxc = mem[cur]
  /\ pc = "pick" /\ fresh => prevp = Here

(* The clients of the normal list that were passed are accounted for.      *)
Noted(own, pos) ==
  /\ normal /\ pc \in {"pick", "scan", "run"} =>
       \A c \in Clients : own[c] = "norm" /\ pos[c] <= pos[prevp] => c \in noted
  /\ normal /\ pc \in {"check", "wait", "sleep"} => Members(own, "norm") \subseteq noted
  /\ pc = "sleep" => normal /\ mem["fast"] = Nil

ListsInv == WorkerTypeOK /\ AtHand /\ \E own, pos : ListsAre(own, pos) /\ Noted(own, pos)

LEMMA MembersFinite ==
  ASSUME NEW own, NEW l
  PROVE  IsFiniteSet(Members(own, l)) /\ Cardinality(Members(own, l)) \in Nat
  <1>1. Members(own, l) \subseteq Clients
    BY DEF Members
  <1> QED  BY <1>1, WorkerAssumption, FS_Subset, FS_CardinalityType

LEMMA ListsInvInit == WorkerInit => ListsInv
  <1> SUFFICES ASSUME WorkerInit PROVE ListsInv
    OBVIOUS
  <1> USE SlotFacts
  <1>1. WorkerTypeOK /\ AtHand
    <2>1. /\ mem \in [Slots -> Ptr] /\ tail \in [Lists -> Slots]
          /\ prevp \in Slots /\ cur \in Ptr /\ nxc \in Ptr
      BY DEF WorkerInit, Lists, Slots, Ptr
    <2>2. /\ owed \in 0..MaxOwed /\ run_left \in 0..MaxRun
          /\ fast_count \in [Clients -> 0..FastLimit]
          /\ count \in Nat /\ worker_pending \in Nat
      BY WorkerAssumption DEF WorkerInit
    <2>3. AtHand
      BY DEF WorkerInit, AtHand, Here
    <2> QED  BY <2>1, <2>2, <2>3 DEF WorkerInit, WorkerTypeOK
  <1>2. PICK own : own = [x \in Slots |-> IF x \in Lists THEN x ELSE "none"]
    OBVIOUS
  <1>3. PICK pos : pos = [x \in Slots |-> IF x \in Lists THEN 0 ELSE 1]
    OBVIOUS
  <1>4. Heap = mem /\ Tails = tail
    BY DEF WorkerInit, Heap, Tails
  <1>5. Arranged(own, pos)
    <2>1. own \in [Slots -> Lists \cup {"none"}] /\ pos \in [Slots -> Nat]
      BY <1>2, <1>3
    <2>2. \A c \in Clients : own[c] = "none" /\ pos[c] > 0
      BY <1>2, <1>3
    <2>3. \A l \in Lists : own[l] = l /\ pos[l] = 0
      BY <1>2, <1>3
    <2> QED  BY <2>1, <2>2, <2>3 DEF Arranged
  <1>6. mem = [s \in Slots |-> Nil] /\ tail = [l \in Lists |-> l]
    BY DEF WorkerInit
  <1>7. Chained(mem, tail, own, pos)
    <2>1. mem \in [Slots -> Ptr] /\ tail \in [Lists -> Slots]
      BY <1>1 DEF WorkerTypeOK
    <2>2. ASSUME NEW x \in Slots, own[x] # "none"  PROVE Follows(mem, own, pos, x)
      BY <1>2, <1>3, <1>6, <2>2 DEF Follows
    <2>3. \A l \in Lists : own[tail[l]] = l /\ mem[tail[l]] = Nil
      BY <1>2, <1>6
    <2> QED  BY <1>5, <2>1, <2>2, <2>3 DEF Chained
  <1>8. \A l \in Lists : Members(own, l) = {}
    BY <1>2 DEF Members
  <1>9. ListsAre(own, pos)
    <2>1. Chained(Heap, Tails, own, pos)
      BY <1>4, <1>7
    <2>2. on = {c \in Clients : own[c] # "none"}
      BY <1>2 DEF WorkerInit
    <2>3. own[prevp] = Here /\ ~handed
      BY <1>2 DEF WorkerInit, Here, Lists
    <2>4. Cardinality(Members(own, "norm")) = 0 /\ Cardinality(Members(own, "fast")) = 0
          /\ Cardinality(Members(own, "pend")) = 0
      BY <1>8, FS_EmptySet DEF Lists
    <2>5. count = 0 /\ worker_pending = 0
      BY DEF WorkerInit
    <2> QED  BY <2>1, <2>2, <2>3, <2>4, <2>5 DEF ListsAre
  <1>10. Noted(own, pos)
    BY <1>2, <1>8 DEF Noted, WorkerInit, Lists
  <1> QED  BY <1>1, <1>9, <1>10 DEF ListsInv

(* What the lists are for the runs.                                        *)
LEMMA ListsInvKept ==  ListsInv => ListsKept
  <1> SUFFICES ASSUME ListsInv PROVE ListsKept
    OBVIOUS
  <1>1. PICK own, pos : ListsAre(own, pos) /\ Noted(own, pos)
    BY DEF ListsInv
  <1>2. Chained(Heap, Tails, own, pos)
    BY <1>1 DEF ListsAre
  <1>3. \A l \in Lists : Listed(l) = Members(own, l) /\ Hop(l)[Cardinality(Clients)] = Nil
    BY <1>2, Visited, HopWalks DEF Listed, Members
  <1>4. on = Listed("norm") \cup Listed("fast") \cup Listed("pend")
    <2>1. on = {c \in Clients : \E l \in Lists : own[c] = l}
      <3>1. \A c \in Clients : own[c] \in Lists \cup {"none"}
        BY <1>2, SlotFacts DEF Chained, Arranged
      <3> QED  BY <1>1, <3>1, SlotFacts DEF ListsAre
    <2> QED  BY <1>3, <2>1 DEF Members, Lists
  <1>5. \A l, m \in Lists : l # m => Listed(l) \cap Listed(m) = {}
    BY <1>3 DEF Members
  <1>6. ASSUME NEW l \in Lists
        PROVE  \/ tail[l] \in Listed(l) \cup {l} /\ Heap[tail[l]] = Nil
               \/ handed /\ tail[l] = cur /\ nxc = Nil /\ l = Here
    <2>1. Tails[l] \in Slots /\ own[Tails[l]] = l /\ Heap[Tails[l]] = Nil
      BY <1>2 DEF Chained
    <2>2. Tails[l] \in Listed(l) \cup {l}
      <3>1. CASE Tails[l] \in Clients
        BY <1>3, <2>1, <3>1 DEF Members
      <3>2. CASE Tails[l] \in Lists
        BY <1>2, <2>1, <3>2 DEF Chained, Arranged
      <3> QED  BY <2>1, <3>1, <3>2, SlotFacts
    <2>3. CASE handed /\ nxc = Nil /\ l = Here
      BY <1>1, <2>3 DEF ListsAre
    <2>4. CASE ~(handed /\ nxc = Nil /\ l = Here)
      <3>1. tail \in [Lists -> Slots]
        BY DEF ListsInv, WorkerTypeOK
      <3>2. Tails[l] = tail[l]
        BY <2>4, <3>1 DEF Tails
      <3> QED  BY <2>1, <2>2, <3>2
    <2> QED  BY <2>3, <2>4
  <1>7. /\ Cardinality(Listed("norm")) + Cardinality(Listed("fast"))
             = (IF handed THEN count - 1 ELSE count)
        /\ Cardinality(Listed("pend")) = worker_pending
    BY <1>1, <1>3 DEF ListsAre, Lists
  <1>8. NoOversleep
    <2> SUFFICES ASSUME pc = "sleep" PROVE Listed("norm") \cup Listed("fast") \subseteq noted
      BY DEF NoOversleep
    <2>1. Members(own, "norm") \subseteq noted /\ mem["fast"] = Nil /\ ~handed
      BY <1>1 DEF Noted, ListsAre
    <2>2. Members(own, "fast") = {}
      <3>1. Heap["fast"] = Nil /\ "fast" \in Lists
        BY <2>1 DEF Heap, Lists
      <3>2. \A c \in Clients : own[c] = "fast" => pos[c] <= 0
        BY <1>2, <3>1, SlotFacts DEF Chained, Arranged, Follows
      <3>3. \A c \in Clients : pos[c] \in Nat /\ pos[c] > 0
        BY <1>2, SlotFacts DEF Chained, Arranged
      <3> QED  BY <3>2, <3>3 DEF Members
    <2> QED  BY <1>3, <2>1, <2>2 DEF Lists
  <1>9. WorkerTypeOK
    BY DEF ListsInv
  <1> QED  BY <1>3, <1>4, <1>5, <1>6, <1>7, <1>8, <1>9 DEF ListsKept, ListsSound, Lists

LEMMA HereIs == Here \in Lists /\ Here \in {"norm", "fast"} /\ Here # "pend" /\ Here # "none"
  BY DEF Here, Lists

LEMMA HereSame == ASSUME normal' = normal PROVE Here' = Here
  BY DEF Here

(* Outside of the moment between a client's departure and its removal.     *)
LEMMA Settled ==
  ASSUME NEW own, NEW pos, ListsAre(own, pos), ~handed
  PROVE  /\ Chained(mem, tail, own, pos) /\ Arranged(own, pos)
         /\ own \in [Slots -> Lists \cup {"none"}] /\ pos \in [Slots -> Nat]
         /\ mem \in [Slots -> Ptr] /\ tail \in [Lists -> Slots]
         /\ \A x \in Slots : own[x] # "none" => Follows(mem, own, pos, x)
         /\ own[prevp] = Here
  BY DEF ListsAre, Heap, Tails, Chained, Arranged

(* The client at hand is on the list at hand, behind prevp.                *)
LEMMA HandOnList ==
  ASSUME NEW own, NEW pos, WorkerTypeOK, ListsAre(own, pos), ~handed,
         NEW c \in Clients, c = mem[prevp]
  PROVE  own[c] = Here /\ c # prevp /\ prevp \in Slots /\ pos[prevp] < pos[c]
         /\ \A y \in Slots : own[y] = Here /\ pos[prevp] < pos[y] => pos[c] <= pos[y]
  <1>1. own[prevp] = Here /\ prevp \in Slots /\ c # Nil /\ Here # "none"
    BY Settled, HereIs, SlotFacts DEF WorkerTypeOK
  <1>2. Follows(mem, own, pos, prevp)
    BY <1>1, Settled
  <1>3. pos[c] \in Nat /\ pos[prevp] \in Nat
    BY <1>1, Settled, SlotFacts
  <1> QED  BY <1>1, <1>2, <1>3 DEF Follows

LEMMA QuietLists ==
  ASSUME NEW own, NEW pos, ListsAre(own, pos), ~handed, ~handed',
         UNCHANGED <<mem, tail, count, worker_pending, on>>, own[prevp'] = Here'
  PROVE  ListsAre(own, pos)'
  <1>1. Heap' = Heap /\ Tails' = Tails
    BY DEF Heap, Tails
  <1> QED  BY <1>1 DEF ListsAre, Members

(* The client at hand goes to the end of another list of the worker's.     *)
LEMMA Shifted ==
  ASSUME NEW own, NEW pos, WorkerTypeOK, ListsAre(own, pos), ~handed, ~handed',
         NEW c \in Clients, c = mem[prevp], NEW l \in {"norm", "fast"}, l # Here, Shift(c, l),
         UNCHANGED <<normal, worker_pending, on>>
  PROVE  /\ mem' \in [Slots -> Ptr] /\ tail' \in [Lists -> Slots] /\ prevp' = prevp
         /\ mem'[prevp] = mem[c] /\ count' = count
         /\ \E own2, pos2 : /\ ListsAre(own2, pos2)'
                            /\ \A x \in Slots : x # c => own2[x] = own[x] /\ pos2[x] = pos[x]
                            /\ own2[c] = l
  <1> USE SlotFacts
  <1>1. /\ Chained(mem, tail, own, pos) /\ mem \in [Slots -> Ptr] /\ tail \in [Lists -> Slots]
        /\ own \in [Slots -> Lists \cup {"none"}] /\ pos \in [Slots -> Nat]
    BY Settled
  <1>2. own[c] = Here /\ c # prevp /\ prevp \in Slots /\ own[prevp] = Here
    BY HandOnList, Settled
  <1>3. Here \in Lists /\ l \in Lists /\ Nil \in Ptr /\ Here # "none" /\ c \in Slots
    BY HereIs DEF Lists, Ptr
  <1>4. tail[l] \in Slots /\ own[tail[l]] = l /\ tail[l] # c /\ tail[l] # prevp
    BY <1>1, <1>2, <1>3 DEF Chained
  <1>5. PICK h1 : h1 = [mem EXCEPT ![c] = Nil, ![prevp] = mem[c]]
    OBVIOUS
  <1>6. PICK t1 : t1 = IF mem[c] = Nil THEN [tail EXCEPT ![Here] = prevp] ELSE tail
    OBVIOUS
  <1>7. PICK own1 : own1 = [own EXCEPT ![c] = "none"]
    OBVIOUS
  <1>8. Chained(h1, t1, own1, pos)
    BY <1>1, <1>2, <1>3, <1>5, <1>6, <1>7, Unlinked
  <1>9. own1[c] = "none" /\ t1[l] = tail[l]
    BY <1>1, <1>3, <1>6, <1>7
  <1>10. mem' = [h1 EXCEPT ![t1[l]] = c, ![c] = Nil]
    BY <1>1, <1>2, <1>3, <1>4, <1>5, <1>9 DEF Shift
  <1>11. tail' = [t1 EXCEPT ![l] = c]
    BY <1>1, <1>3, <1>6 DEF Shift
  <1>12. PICK own2 : own2 = [own1 EXCEPT ![c] = l]
    OBVIOUS
  <1>13. PICK pos2 : pos2 = [pos EXCEPT ![c] = pos[t1[l]] + 1]
    OBVIOUS
  <1>14. Chained(mem', tail', own2, pos2)
    BY <1>3, <1>8, <1>9, <1>10, <1>11, <1>12, <1>13, Appended
  <1>15. /\ \A x \in Slots : x # c => own2[x] = own[x] /\ pos2[x] = pos[x]
         /\ own2[c] = l
    BY <1>1, <1>3, <1>7, <1>12, <1>13
  <1>16. mem'[prevp] = mem[c] /\ prevp' = prevp /\ count' = count
    BY <1>1, <1>2, <1>3, <1>4 DEF Shift
  <1>17. on' = {d \in Clients : own2[d] # "none"}
    BY <1>2, <1>3, <1>15 DEF ListsAre
  <1>18. Members(own2, "pend") = Members(own, "pend")
    BY <1>2, <1>15, HereIs DEF Members
  <1>19. Cardinality(Members(own2, "norm")) + Cardinality(Members(own2, "fast")) = count
    <2>1. PICK A, B : A = Members(own, Here) /\ B = Members(own, l)
      OBVIOUS
    <2>2. c \in A /\ c \notin B
      BY <1>2, <2>1 DEF Members
    <2>3. Members(own2, Here) = A \ {c} /\ Members(own2, l) = B \cup {c}
      BY <1>2, <1>15, <2>1 DEF Members
    <2>4. /\ IsFiniteSet(A) /\ Cardinality(A) \in Nat
          /\ IsFiniteSet(B) /\ Cardinality(B) \in Nat
      BY <2>1, MembersFinite
    <2>5. Cardinality(A \ {c}) = Cardinality(A) - 1 /\ Cardinality(B \cup {c}) = Cardinality(B) + 1
      BY <2>2, <2>4, FS_AddElement, FS_RemoveElement
    <2>6. Cardinality(A) + Cardinality(B) = count
      <3>1. Cardinality(Members(own, "norm")) + Cardinality(Members(own, "fast")) = count
        BY DEF ListsAre
      <3>2. CASE l = "norm" /\ Here = "fast"
        BY <2>1, <2>4, <3>1, <3>2
      <3>3. CASE l = "fast" /\ Here = "norm"
        BY <2>1, <2>4, <3>1, <3>3
      <3> QED  BY <3>2, <3>3, HereIs
    <2>7. PICK a, b : a = Cardinality(Members(own2, Here)) /\ b = Cardinality(Members(own2, l))
                      /\ a + b = count
      BY <2>3, <2>4, <2>5, <2>6
    <2>8. Cardinality(Members(own2, Here)) \in Nat /\ Cardinality(Members(own2, l)) \in Nat
      BY MembersFinite
    <2>9. CASE l = "norm" /\ Here = "fast"
      BY <2>7, <2>8, <2>9
    <2>10. CASE l = "fast" /\ Here = "norm"
      BY <2>7, <2>8, <2>10
    <2> QED  BY <2>9, <2>10, HereIs
  <1>20. ListsAre(own2, pos2)'
    <2>1. Heap' = mem' /\ Tails' = tail' /\ Here' = Here
      BY DEF Heap, Tails, Here
    <2>2. own2[prevp'] = Here'
      BY <1>2, <1>15, <1>16, <2>1
    <2>3. Cardinality(Members(own2, "pend")) = worker_pending'
      BY <1>18 DEF ListsAre
    <2> QED  BY <1>14, <1>16, <1>17, <1>19, <2>1, <2>2, <2>3 DEF ListsAre, Members
  <1>21. mem' \in [Slots -> Ptr] /\ tail' \in [Lists -> Slots]
    BY <1>14 DEF Chained
  <1> QED  BY <1>15, <1>16, <1>20, <1>21

(* What a call of worker_next_client does for the client at hand.          *)
LEMMA NextOne ==
  ASSUME NEW own, NEW pos, WorkerTypeOK, ListsAre(own, pos), ~handed, ~handed',
         NEW c \in Clients, c = mem[prevp], NEW close \in BOOLEAN, NextClient(c, close),
         UNCHANGED <<normal, worker_pending, on>>
  PROVE  /\ mem' \in [Slots -> Ptr] /\ tail' \in [Lists -> Slots] /\ prevp' \in Slots
         /\ count' = count /\ noted' \subseteq Clients /\ fast_count' \in [Clients -> 0..FastLimit]
         /\ normal => \/ mem'[prevp'] = mem[c]
                      \/ mem[c] = Nil /\ mem'[prevp'] = c /\ mem'[c] = Nil /\ c \in noted'
         /\ \E own2, pos2 :
              /\ ListsAre(own2, pos2)'
              /\ normal /\ (\A d \in Clients : own[d] = "norm" /\ pos[d] <= pos[prevp] => d \in noted)
                   => \A d \in Clients : own2[d] = "norm" /\ pos2[d] <= pos2[prevp'] => d \in noted'
  <1> USE SlotFacts
  <1>0. PICK quick \in BOOLEAN : quick = (close /\ fast_count[c] < FastLimit)
    OBVIOUS
  <1>1. /\ mem \in [Slots -> Ptr] /\ tail \in [Lists -> Slots] /\ prevp \in Slots /\ normal \in BOOLEAN
        /\ noted \subseteq Clients /\ fast_count \in [Clients -> 0..FastLimit] /\ c \in Slots
    BY DEF WorkerTypeOK
  <1>2. own[c] = Here /\ c # prevp /\ pos[prevp] < pos[c] /\ own[prevp] = Here
        /\ \A y \in Slots : own[y] = Here /\ pos[prevp] < pos[y] => pos[c] <= pos[y]
    BY HandOnList, Settled
  <1>3. /\ Arranged(own, pos) /\ own \in [Slots -> Lists \cup {"none"}] /\ pos \in [Slots -> Nat]
        /\ Follows(mem, own, pos, c)
    <2>1. own[c] # "none"
      BY <1>2, HereIs
    <2> QED  BY <1>1, <2>1, Settled
  <1>4. noted' = (IF quick THEN noted ELSE noted \cup {c}) /\ noted' \subseteq Clients
    <2>1. noted' = IF quick THEN noted ELSE noted \cup {c}
      BY <1>0 DEF NextClient
    <2> QED  BY <1>1, <2>1
  <1>5. fast_count' \in [Clients -> 0..FastLimit]
    <2>1. \/ fast_count' = fast_count
          \/ fast_count' = [fast_count EXCEPT ![c] = @ + 1] /\ fast_count[c] < FastLimit
          \/ fast_count' = [fast_count EXCEPT ![c] = 0]
      BY DEF NextClient
    <2>2. fast_count[c] \in 0..FastLimit /\ FastLimit \in Nat
      BY <1>1, WorkerAssumption
    <2>3. 0 \in 0..FastLimit /\ (fast_count[c] < FastLimit => fast_count[c] + 1 \in 0..FastLimit)
      BY <2>2
    <2> QED  BY <1>1, <2>1, <2>3
  <1>6. CASE \E l \in {"norm", "fast"} : l # Here /\ Shift(c, l) /\ (normal => l = "fast")
    <2>1. PICK l \in {"norm", "fast"} : l # Here /\ Shift(c, l) /\ (normal => l = "fast")
      BY <1>6
    <2>2. /\ mem' \in [Slots -> Ptr] /\ tail' \in [Lists -> Slots] /\ prevp' = prevp
          /\ mem'[prevp] = mem[c] /\ count' = count
          /\ \E own2, pos2 : /\ ListsAre(own2, pos2)'
                             /\ \A x \in Slots : x # c => own2[x] = own[x] /\ pos2[x] = pos[x]
                             /\ own2[c] = l
      BY <2>1, Shifted
    <2>3. PICK own2, pos2 : /\ ListsAre(own2, pos2)'
                            /\ \A x \in Slots : x # c => own2[x] = own[x] /\ pos2[x] = pos[x]
                            /\ own2[c] = l
      BY <2>2
    <2>4. ASSUME normal,
                 \A d \in Clients : own[d] = "norm" /\ pos[d] <= pos[prevp] => d \in noted,
                 NEW d \in Clients, own2[d] = "norm", pos2[d] <= pos2[prevp']
          PROVE  d \in noted'
      <3>1. d # c /\ d \in Slots
        BY <2>1, <2>3, <2>4
      <3>2. own[d] = "norm" /\ pos[d] <= pos[prevp]
        BY <1>1, <1>2, <2>2, <2>3, <2>4, <3>1
      <3> QED  BY <1>4, <2>4, <3>2
    <2> QED  BY <1>1, <1>4, <1>5, <2>2, <2>3, <2>4
  <1>7. CASE Proceed(c) /\ (normal => ~quick)
    <2>1. mem' = mem /\ tail' = tail /\ count' = count
          /\ prevp' = (IF mem[c] # Nil THEN c ELSE prevp)
      BY <1>7 DEF Proceed, lists
    <2>2. prevp' \in Slots /\ own[prevp'] = Here'
      BY <1>1, <1>2, <2>1 DEF Here
    <2>3. ListsAre(own, pos)'
      BY <2>1, <2>2, QuietLists
    <2>4. ASSUME normal,
                 \A d \in Clients : own[d] = "norm" /\ pos[d] <= pos[prevp] => d \in noted,
                 NEW d \in Clients, own[d] = "norm", pos[d] <= pos[prevp']
          PROVE  d \in noted'
      <3>1. c \in noted' /\ noted \subseteq noted'
        BY <1>0, <1>4, <1>7, <2>4
      <3>2. Here = "norm" /\ pos[d] \in Nat /\ pos[c] \in Nat /\ pos[prevp] \in Nat /\ d \in Slots
        BY <1>1, <1>3, <2>4 DEF Here
      <3>3. CASE pos[d] <= pos[prevp]
        BY <2>4, <3>1, <3>3
      <3>4. CASE pos[prevp] < pos[d]
        <4>1. pos[c] <= pos[d] /\ prevp' = c
          BY <1>2, <2>1, <2>4, <3>2, <3>4
        <4>2. pos[c] = pos[d]
          BY <2>4, <3>2, <4>1
        <4>3. d = c
          BY <1>1, <1>2, <1>3, <2>4, <3>2, <4>2 DEF Arranged
        <4> QED  BY <3>1, <4>3
      <3> QED  BY <3>2, <3>3, <3>4
    <2>5. normal => \/ mem'[prevp'] = mem[c]
                    \/ mem[c] = Nil /\ mem'[prevp'] = c /\ mem'[c] = Nil /\ c \in noted'
      BY <1>4, <1>7, <2>1
    <2> QED  BY <1>1, <1>4, <1>5, <2>1, <2>2, <2>3, <2>4, <2>5
  <1> QED
    <2>1. \/ quick /\ normal /\ Shift(c, "fast")
          \/ quick /\ ~normal /\ Proceed(c)
          \/ ~quick /\ normal /\ Proceed(c)
          \/ ~quick /\ ~normal /\ Shift(c, "norm")
      BY <1>0 DEF NextClient
    <2>2. (normal => Here = "norm") /\ (~normal => Here = "fast")
      BY DEF Here
    <2> QED  BY <1>6, <1>7, <2>1, <2>2

(* Steps of others that do not touch the lists.                            *)
LEMMA OthersKeepLists ==
  ListsInv /\ (Wakeup \/ Stop \/ (\E c \in Clients : Tick(c)) \/ UNCHANGED workerVars) => ListsInv'
  <1> SUFFICES ASSUME ListsInv, Wakeup \/ Stop \/ (\E c \in Clients : Tick(c)) \/ UNCHANGED workerVars
               PROVE  ListsInv'
    OBVIOUS
  <1>1. PICK own, pos : ListsAre(own, pos) /\ Noted(own, pos)
    BY DEF ListsInv
  <1>2. UNCHANGED <<mem, tail, count, worker_pending, on, pc, prevp, normal, after, run_left,
                    fresh, noted, cur, nxc, handed, alive, fast_count>>
    BY DEF Wakeup, Stop, Tick, workerVars, lists, walk, sched
  <1>3. Heap' = Heap /\ Tails' = Tails /\ Here' = Here
    BY <1>2 DEF Heap, Tails, Here
  <1>4. ListsAre(own, pos)' /\ Noted(own, pos)'
    BY <1>1, <1>2, <1>3 DEF ListsAre, Noted, Members
  <1>5. AtHand'
    BY <1>2, <1>3 DEF ListsInv, AtHand
  <1>6. owed' \in 0..MaxOwed
    <2>1. owed \in 0..MaxOwed /\ MaxOwed \in Nat
      BY WorkerAssumption DEF ListsInv, WorkerTypeOK
    <2> QED  BY <2>1 DEF Wakeup, Stop, Tick, workerVars
  <1>7. /\ running' \in BOOLEAN /\ pipe' \in BOOLEAN /\ soon' \subseteq Clients
    BY DEF ListsInv, WorkerTypeOK, Wakeup, Stop, Tick, workerVars, lists, sched
  <1>8. WorkerTypeOK'
    BY <1>2, <1>6, <1>7 DEF ListsInv, WorkerTypeOK
  <1> QED  BY <1>4, <1>5, <1>8 DEF ListsInv

LEMMA AddKeepsLists == ListsInv /\ (\E c \in Clients : Add(c)) => ListsInv'
  <1> SUFFICES ASSUME ListsInv, NEW c \in Clients, Add(c) PROVE ListsInv'
    OBVIOUS
  <1> USE SlotFacts
  <1>1. PICK own, pos : ListsAre(own, pos) /\ Noted(own, pos)
    BY DEF ListsInv
  <1>2. /\ mem' = [mem EXCEPT ![c] = Nil, ![tail["pend"]] = c]
        /\ tail' = [tail EXCEPT !["pend"] = c]
        /\ UNCHANGED <<count, running, pipe, pc, prevp, normal, after, run_left, fresh, noted,
                       cur, nxc, handed, alive, fast_count>>
    BY DEF Add, walk
  <1>3. /\ Chained(Heap, Tails, own, pos) /\ own[prevp] = Here /\ Here # "pend" /\ Here # "none"
        /\ mem \in [Slots -> Ptr] /\ tail \in [Lists -> Slots] /\ prevp \in Slots /\ c \in Slots
        /\ own \in [Slots -> Lists \cup {"none"}] /\ pos \in [Slots -> Nat] /\ Here \in Lists
        /\ nxc \in Ptr /\ handed \in BOOLEAN /\ normal \in BOOLEAN /\ "pend" \in Lists /\ c # Nil
    BY <1>1, HereIs DEF ListsInv, WorkerTypeOK, ListsAre, Chained, Arranged, Lists
  <1>4. own[c] = "none" /\ c # prevp
    <2>1. c \notin on
      BY DEF Add
    <2> QED  BY <1>1, <1>3, <2>1 DEF ListsAre
  <1>5. Tails["pend"] = tail["pend"] /\ own[tail["pend"]] = "pend" /\ tail["pend"] \in Slots
    <2>1. Tails["pend"] = tail["pend"]
      BY <1>3 DEF Tails
    <2> QED  BY <1>3, <2>1 DEF Chained
  <1>6. PICK own2 : own2 = [own EXCEPT ![c] = "pend"]
    OBVIOUS
  <1>7. PICK pos2 : pos2 = [pos EXCEPT ![c] = pos[tail["pend"]] + 1]
    OBVIOUS
  <1>8. Here' = Here /\ tail["pend"] # prevp /\ tail["pend"] # c
    BY <1>2, <1>3, <1>4, <1>5 DEF Here
  <1>9. Heap' = [Heap EXCEPT ![tail["pend"]] = c, ![c] = Nil]
    BY <1>2, <1>3, <1>4, <1>5, <1>8 DEF Heap
  <1>10. Tails' = [Tails EXCEPT !["pend"] = c]
    BY <1>2, <1>3, <1>8 DEF Tails
  <1>11. Chained(Heap', Tails', own2, pos2)
    <2>1. PICK h, t : h = Heap /\ t = Tails
      OBVIOUS
    <2>2. PICK h2, t2 : h2 = Heap' /\ t2 = Tails'
      OBVIOUS
    <2>3. t["pend"] = tail["pend"]
      BY <1>5, <2>1
    <2>4. h2 = [h EXCEPT ![t["pend"]] = c, ![c] = Nil] /\ t2 = [t EXCEPT !["pend"] = c]
      BY <1>9, <1>10, <2>1, <2>2, <2>3
    <2>5. pos2 = [pos EXCEPT ![c] = pos[t["pend"]] + 1] /\ Chained(h, t, own, pos)
      BY <1>3, <1>7, <2>1, <2>3
    <2>6. Chained(h2, t2, own2, pos2)
      BY <1>3, <1>4, <1>6, <2>4, <2>5, Appended
    <2> QED  BY <2>2, <2>6
  <1>12. own2[c] = "pend" /\ \A x \in Slots : x # c => own2[x] = own[x] /\ pos2[x] = pos[x]
    BY <1>3, <1>6, <1>7
  <1>13. on' = {d \in Clients : own2[d] # "none"}
    <2>1. on' = on \cup {c}
      BY DEF Add
    <2> QED  BY <1>1, <1>12, <2>1 DEF ListsAre
  <1>14. Members(own2, "norm") = Members(own, "norm") /\ Members(own2, "fast") = Members(own, "fast")
    BY <1>4, <1>12 DEF Members
  <1>15. Cardinality(Members(own2, "pend")) = worker_pending'
    <2>1. Members(own2, "pend") = Members(own, "pend") \cup {c} /\ c \notin Members(own, "pend")
      BY <1>4, <1>12 DEF Members
    <2>2. Cardinality(Members(own, "pend") \cup {c}) = Cardinality(Members(own, "pend")) + 1
      BY <2>1, MembersFinite, FS_AddElement
    <2> QED  BY <1>1, <2>1, <2>2 DEF ListsAre, Add
  <1>16. ListsAre(own2, pos2)'
    <2>1. own2[prevp'] = Here'
      BY <1>2, <1>3, <1>4, <1>8, <1>12
    <2>2. handed' => pc' = "run" /\ (nxc' = Nil => tail'[Here'] = cur')
      BY <1>1, <1>2, <1>3, <1>8 DEF ListsAre
    <2>3. Cardinality(Members(own2, "norm")) + Cardinality(Members(own2, "fast"))
            = (IF handed' THEN count' - 1 ELSE count')
      BY <1>1, <1>2, <1>14 DEF ListsAre
    <2> QED  BY <1>11, <1>13, <1>15, <2>1, <2>2, <2>3 DEF ListsAre, Members
  <1>17. Noted(own2, pos2)'
    <2>1. ASSUME NEW d \in Clients, own2[d] = "norm"
          PROVE  own[d] = "norm" /\ pos2[d] = pos[d] /\ pos2[prevp] = pos[prevp]
      BY <1>3, <1>4, <1>12, <2>1
    <2>2. mem["fast"] = Nil /\ ~handed => mem'["fast"] = Nil
      <3>1. "fast" \in Slots /\ "fast" # c /\ "fast" \in Lists /\ own["fast"] = "fast"
        BY <1>3 DEF Lists, Chained, Arranged
      <3>2. "fast" # tail["pend"]
        BY <1>5, <3>1
      <3> QED  BY <1>2, <1>3, <3>1, <3>2
    <2>3. pc = "sleep" => ~handed
      BY <1>1 DEF ListsAre
    <2> QED  BY <1>1, <1>2, <1>14, <2>1, <2>2, <2>3 DEF Noted, Members
  <1>18. AtHand'
    <2>1. mem'[prevp] = mem[prevp]
      BY <1>2, <1>3, <1>4, <1>8
    <2>2. Follows(Heap, own, pos, prevp)
      BY <1>3 DEF Chained
    <2>3. ASSUME ~handed, mem[prevp] # Nil
          PROVE  mem'[mem[prevp]] = mem[mem[prevp]]
      <3>1. Heap = mem /\ mem[prevp] \in Slots
        BY <1>3, <2>3 DEF Heap
      <3>2. own[mem[prevp]] = Here
        BY <1>3, <2>2, <2>3, <3>1 DEF Follows
      <3> QED  BY <1>2, <1>3, <1>4, <1>5, <3>1, <3>2
    <2>4. pc = "scan" => ~handed
      BY <1>1 DEF ListsAre
    <2>5. pc = "run" => cur # Nil
      BY DEF ListsInv, WorkerTypeOK
    <2> QED  BY <1>2, <1>8, <2>1, <2>3, <2>4, <2>5 DEF AtHand, ListsInv
  <1>19. WorkerTypeOK'
    <2>1. mem' \in [Slots -> Ptr] /\ tail' \in [Lists -> Slots]
      BY <1>2, <1>3 DEF Ptr
    <2>2. worker_pending' \in Nat /\ owed' \in 0..MaxOwed
      <3>1. worker_pending \in Nat /\ owed \in 0..MaxOwed /\ MaxOwed \in Nat
        BY WorkerAssumption DEF ListsInv, WorkerTypeOK
      <3> QED  BY <3>1 DEF Add
    <2>3. on' \subseteq Clients /\ soon' \subseteq Clients
      BY DEF Add, ListsInv, WorkerTypeOK
    <2> QED  BY <1>2, <2>1, <2>2, <2>3 DEF ListsInv, WorkerTypeOK
  <1> QED  BY <1>16, <1>17, <1>18, <1>19 DEF ListsInv

(* The steps of the walk that leave the lists as they are.                 *)
QuietStep ==
  \/ Pick \/ PickLimit \/ ScanEnd \/ ScanRun \/ Check \/ WaitStopped \/ WaitNormal
  \/ WaitOver \/ ReadPipe \/ Relocate

LEMMA QuietTypes ==
  ASSUME WorkerTypeOK, AtHand, QuietStep
  PROVE  WorkerTypeOK' /\ UNCHANGED <<mem, tail, count, worker_pending, on, handed>>
  <1> USE SlotFacts DEF QuietStep
  <1>1. UNCHANGED <<mem, tail, count, worker_pending, on, handed, running, owed, soon, fast_count>>
    BY DEF Pick, PickLimit, ScanEnd, ScanRun, Check, WaitStopped, WaitNormal, WaitOver,
           ReadPipe, Relocate, others, walk, sched, lists
  <1>2. run_left' \in 0..MaxRun
    <2>1. run_left \in 0..MaxRun /\ MaxRun \in Nat /\ (pc = "scan" => run_left > 0)
      BY WorkerAssumption DEF WorkerTypeOK, AtHand
    <2>2. run_left' = run_left \/ run_left' = MaxRun \/ ScanRun
      BY DEF Pick, PickLimit, ScanEnd, Check, WaitStopped, WaitNormal, WaitOver,
             ReadPipe, Relocate, Rewalk, walk
    <2>3. ScanRun => pc = "scan" /\ run_left' = run_left - 1
      BY DEF ScanRun
    <2> QED  BY <2>1, <2>2, <2>3
  <1>3. /\ prevp' \in Slots /\ normal' \in BOOLEAN /\ after' \in BOOLEAN
    <2>1. prevp' = prevp \/ prevp' \in Lists
      BY DEF Pick, PickLimit, ScanEnd, ScanRun, Check, WaitStopped, WaitNormal, WaitOver,
             ReadPipe, Relocate, Rewalk, walk, Lists
    <2>2. normal' = normal \/ normal' = TRUE \/ normal' = FALSE
      BY DEF Pick, PickLimit, ScanEnd, ScanRun, Check, WaitStopped, WaitNormal, WaitOver,
             ReadPipe, Relocate, Rewalk, walk
    <2>3. after' = after \/ after' = TRUE \/ after' = FALSE
      BY DEF Pick, PickLimit, ScanEnd, ScanRun, Check, WaitStopped, WaitNormal, WaitOver,
             ReadPipe, Relocate, Rewalk, walk
    <2> QED  BY <2>1, <2>2, <2>3 DEF WorkerTypeOK
  <1>4. cur' \in Ptr /\ nxc' \in Ptr /\ (pc' = "run" => cur' # Nil)
    <2>1. cur' = cur \/ cur' = mem[prevp] \/ cur' = mem["norm"]
      BY DEF Pick, PickLimit, ScanEnd, ScanRun, Check, WaitStopped, WaitNormal, WaitOver,
             ReadPipe, Relocate, Rewalk, walk
    <2>2. nxc' = nxc \/ (cur # Nil /\ nxc' = mem[cur])
      <3>1. nxc' = nxc \/ ScanRun
        BY DEF Pick, PickLimit, ScanEnd, Check, WaitStopped, WaitNormal, WaitOver,
               ReadPipe, Relocate, Rewalk, walk
      <3> QED  BY <3>1 DEF ScanRun
    <2>3. pc' = "run" => cur' = cur /\ cur # Nil
      BY DEF Pick, PickLimit, ScanEnd, ScanRun, Check, WaitStopped, WaitNormal, WaitOver,
             ReadPipe, Relocate, Rewalk, walk
    <2>4. "norm" \in Slots /\ (cur # Nil => cur \in Slots)
      BY DEF WorkerTypeOK, Slots, Lists, Ptr
    <2> QED  BY <2>1, <2>2, <2>3, <2>4 DEF WorkerTypeOK
  <1>5. noted' \subseteq Clients /\ fresh' \in BOOLEAN /\ alive' \in BOOLEAN /\ pipe' \in BOOLEAN
    BY DEF Pick, PickLimit, ScanEnd, ScanRun, Check, WaitStopped, WaitNormal, WaitOver,
           ReadPipe, Relocate, Rewalk, others, walk, WorkerTypeOK
  <1>6. pc' \in {"pick", "scan", "run", "check", "wait", "sleep", "take", "relocate", "exit"}
    BY DEF Pick, PickLimit, ScanEnd, ScanRun, Check, WaitStopped, WaitNormal, WaitOver,
           ReadPipe, Relocate, Rewalk, WorkerTypeOK
  <1> QED  BY <1>1, <1>2, <1>3, <1>4, <1>5, <1>6 DEF WorkerTypeOK

LEMMA QuietKeepsLists == ListsInv /\ QuietStep => ListsInv'
  <1> SUFFICES ASSUME ListsInv, QuietStep PROVE ListsInv'
    OBVIOUS
  <1> USE SlotFacts
  <1>1. PICK own, pos : ListsAre(own, pos) /\ Noted(own, pos)
    BY DEF ListsInv
  <1>2. WorkerTypeOK' /\ UNCHANGED <<mem, tail, count, worker_pending, on, handed>>
    BY QuietTypes DEF ListsInv
  <1>3. ~handed /\ ~handed'
    <2>1. pc # "run"
      BY DEF QuietStep, Pick, PickLimit, ScanEnd, ScanRun, Check, WaitStopped, WaitNormal,
             WaitOver, ReadPipe, Relocate
    <2> QED  BY <1>1, <1>2, <2>1 DEF ListsAre
  <1>4. /\ Arranged(own, pos) /\ own \in [Slots -> Lists \cup {"none"}] /\ pos \in [Slots -> Nat]
        /\ mem \in [Slots -> Ptr] /\ own[prevp] = Here /\ prevp \in Slots
        /\ \A x \in Slots : own[x] # "none" => Follows(mem, own, pos, x)
        /\ \A l \in Lists : own[l] = l /\ pos[l] = 0
        /\ \A c \in Clients : pos[c] \in Nat /\ pos[c] > 0 /\ ~(pos[c] <= 0)
    BY <1>1, <1>3, Settled DEF Arranged, ListsInv, WorkerTypeOK
  <1>5. UNCHANGED <<prevp, normal>> \/ prevp' = Here'
    BY DEF QuietStep, Pick, PickLimit, ScanEnd, ScanRun, Check, WaitStopped, WaitNormal,
           WaitOver, ReadPipe, Relocate, Rewalk, walk, Here
  <1>6. ListsAre(own, pos)'
    <2>1. Here' \in Lists
      BY DEF Here, Lists
    <2>2. own[prevp'] = Here'
      BY <1>4, <1>5, <2>1 DEF Here
    <2> QED  BY <1>1, <1>2, <1>3, <2>2, QuietLists
  <1>7. Here' \in Lists /\ (normal' => Here' = "norm") /\ (normal => Here = "norm")
    BY DEF Here, Lists
  <1>8. CASE Pick
    <2>1. AtHand'
      BY <1>2, <1>8 DEF ListsInv, AtHand, Pick, WorkerTypeOK
    <2>2. Noted(own, pos)'
      <3>1. fresh /\ normal => pos[prevp] = 0
        BY <1>4, <1>7, <1>8, HereIs DEF ListsInv, AtHand, Pick
      <3>2. CASE fresh
        BY <1>2, <1>4, <1>8, <3>1, <3>2 DEF Noted, Pick
      <3>3. CASE ~fresh
        BY <1>1, <1>2, <1>8, <3>3 DEF Noted, Pick
      <3> QED  BY <3>2, <3>3
    <2> QED  BY <1>2, <1>6, <2>1, <2>2 DEF ListsInv
  <1>9. CASE PickLimit
    <2>1. AtHand'
      BY <1>9 DEF AtHand, PickLimit
    <2>2. Noted(own, pos)'
      BY <1>9 DEF Noted, PickLimit, Members
    <2> QED  BY <1>2, <1>6, <2>1, <2>2 DEF ListsInv
  <1>10. CASE ScanEnd
    <2>1. CASE after
      <3>1. /\ normal' /\ prevp' = "norm" /\ cur' = mem["norm"] /\ pc = "scan" /\ pc' = "scan"
            /\ UNCHANGED <<run_left, fresh>>
        BY <1>10, <2>1 DEF ScanEnd
      <3>2. AtHand'
        BY <1>2, <3>1 DEF ListsInv, AtHand
      <3>3. pos[prevp'] = 0
        BY <1>4, <3>1 DEF Lists
      <3>4. Noted(own, pos)'
        BY <1>4, <3>1, <3>3 DEF Noted
      <3> QED  BY <1>2, <1>6, <3>2, <3>4 DEF ListsInv
    <2>2. CASE ~after
      <3>1. pc' = "check" /\ pc = "scan" /\ cur = Nil /\ UNCHANGED <<normal, prevp, noted, mem>>
        BY <1>10, <2>2, <1>2 DEF ScanEnd
      <3>2. AtHand'
        BY <3>1 DEF AtHand
      <3>3. ASSUME normal, NEW c \in Clients, own[c] = "norm"  PROVE c \in noted
        <4>1. /\ \A d \in Clients : own[d] = "norm" /\ pos[d] <= pos[prevp] => d \in noted
              /\ own[prevp] = "norm" /\ c \in Slots /\ pos[c] \in Nat /\ pos[prevp] \in Nat
          BY <1>1, <1>4, <1>7, <3>1, <3>3 DEF Noted
        <4>2. Follows(mem, own, pos, prevp)
          BY <1>4, <4>1
        <4>3. CASE mem[prevp] = Nil
          <5>1. pos[c] <= pos[prevp]
            BY <3>3, <4>1, <4>2, <4>3 DEF Follows
          <5> QED  BY <3>3, <4>1, <5>1
        <4>4. CASE mem[prevp] # Nil
          <5>1. PICK d \in Clients : d = mem[prevp]
            BY <1>4, <4>4
          <5>2. d \in noted /\ mem[d] = Nil /\ d \in Slots /\ pos[d] \in Nat
            BY <1>4, <3>1, <4>4, <5>1 DEF ListsInv, AtHand
          <5>3. own[d] = "norm" /\ (pos[prevp] < pos[c] => pos[d] <= pos[c])
            BY <3>3, <4>1, <4>2, <4>4, <5>1 DEF Follows
          <5>4. Follows(mem, own, pos, d)
            BY <1>4, <5>2, <5>3
          <5>5. pos[c] <= pos[d]
            BY <3>3, <4>1, <5>2, <5>3, <5>4 DEF Follows
          <5>6. CASE pos[c] <= pos[prevp]
            BY <3>3, <4>1, <5>6
          <5>7. CASE pos[prevp] < pos[c]
            <6>1. pos[c] = pos[d]
              BY <4>1, <5>2, <5>3, <5>5, <5>7
            <6>2. c = d
              BY <1>4, <3>3, <4>1, <5>2, <5>3, <6>1 DEF Arranged
            <6> QED  BY <5>2, <6>2
          <5> QED  BY <4>1, <5>6, <5>7
        <4> QED  BY <4>3, <4>4
      <3>4. Noted(own, pos)'
        BY <3>1, <3>3 DEF Noted, Members
      <3> QED  BY <1>2, <1>6, <3>2, <3>4 DEF ListsInv
    <2> QED  BY <2>1, <2>2
  <1>11. CASE ScanRun
    <2>1. AtHand'
      BY <1>2, <1>11 DEF ListsInv, AtHand, ScanRun
    <2>2. Noted(own, pos)'
      BY <1>1, <1>2, <1>11 DEF Noted, ScanRun
    <2> QED  BY <1>2, <1>6, <2>1, <2>2 DEF ListsInv
  <1>12. CASE Check
    <2>1. AtHand'
      BY <1>12 DEF AtHand, Check
    <2>2. Noted(own, pos)'
      BY <1>1, <1>12 DEF Noted, Check
    <2> QED  BY <1>2, <1>6, <2>1, <2>2 DEF ListsInv
  <1>13. CASE WaitStopped
    <2>1. AtHand'
      BY <1>13 DEF AtHand, WaitStopped, Here
    <2>2. Noted(own, pos)'
      BY <1>13 DEF Noted, WaitStopped
    <2> QED  BY <1>2, <1>6, <2>1, <2>2 DEF ListsInv
  <1>14. CASE WaitNormal
    <2>1. AtHand'
      BY <1>14 DEF AtHand, WaitNormal, Here
    <2>2. Noted(own, pos)'
      BY <1>1, <1>2, <1>14 DEF Noted, WaitNormal
    <2> QED  BY <1>2, <1>6, <2>1, <2>2 DEF ListsInv
  <1>15. CASE WaitOver
    <2>1. pc' = "pick" /\ prevp' = Here'
      BY <1>15 DEF WaitOver, Rewalk, Here
    <2>2. pos[prevp'] = 0
      BY <1>4, <1>7, <2>1
    <2>3. AtHand'
      BY <2>1 DEF AtHand
    <2>4. Noted(own, pos)'
      BY <1>4, <2>1, <2>2 DEF Noted
    <2> QED  BY <1>2, <1>6, <2>3, <2>4 DEF ListsInv
  <1>16. CASE ReadPipe \/ Relocate
    <2>1. pc' = "take" \/ pc' = "exit"
      BY <1>16 DEF ReadPipe, Relocate
    <2>2. AtHand'
      BY <2>1 DEF AtHand
    <2>3. Noted(own, pos)'
      BY <2>1 DEF Noted
    <2> QED  BY <1>2, <1>6, <2>2, <2>3 DEF ListsInv
  <1> QED  BY <1>8, <1>9, <1>10, <1>11, <1>12, <1>13, <1>14, <1>15, <1>16 DEF QuietStep

LEMMA SkipKeepsLists == ListsInv /\ ScanSkip => ListsInv'
  <1> SUFFICES ASSUME ListsInv, ScanSkip PROVE ListsInv'
    OBVIOUS
  <1> USE SlotFacts
  <1>1. PICK own, pos : ListsAre(own, pos) /\ Noted(own, pos)
    BY DEF ListsInv
  <1>2. /\ pc = "scan" /\ pc' = "scan" /\ cur # Nil /\ cur' = mem[cur] /\ normal
        /\ UNCHANGED <<worker_pending, on, running, owed, pipe, normal, after, run_left, fresh,
                       nxc, handed, alive, soon>>
    BY DEF ScanSkip, others
  <1>3. ~handed /\ ~handed'
    BY <1>1, <1>2 DEF ListsAre
  <1>4. PICK c \in Clients : c = cur /\ c = mem[prevp]
    BY <1>2 DEF ListsInv, AtHand, WorkerTypeOK
  <1>5. PICK close \in BOOLEAN : NextClient(c, close)
    BY <1>4 DEF ScanSkip
  <1>6. /\ mem' \in [Slots -> Ptr] /\ tail' \in [Lists -> Slots] /\ prevp' \in Slots
        /\ count' = count /\ noted' \subseteq Clients /\ fast_count' \in [Clients -> 0..FastLimit]
        /\ normal => \/ mem'[prevp'] = mem[c]
                     \/ mem[c] = Nil /\ mem'[prevp'] = c /\ mem'[c] = Nil /\ c \in noted'
        /\ \E own2, pos2 :
             /\ ListsAre(own2, pos2)'
             /\ normal /\ (\A d \in Clients : own[d] = "norm" /\ pos[d] <= pos[prevp] => d \in noted)
                  => \A d \in Clients : own2[d] = "norm" /\ pos2[d] <= pos2[prevp'] => d \in noted'
    BY <1>1, <1>2, <1>3, <1>4, <1>5, NextOne DEF ListsInv
  <1>7. PICK own2, pos2 :
          /\ ListsAre(own2, pos2)'
          /\ normal /\ (\A d \in Clients : own[d] = "norm" /\ pos[d] <= pos[prevp] => d \in noted)
               => \A d \in Clients : own2[d] = "norm" /\ pos2[d] <= pos2[prevp'] => d \in noted'
    BY <1>6
  <1>8. Noted(own2, pos2)'
    <2>1. \A d \in Clients : own[d] = "norm" /\ pos[d] <= pos[prevp] => d \in noted
      BY <1>1, <1>2 DEF Noted
    <2> QED  BY <1>2, <1>7, <2>1 DEF Noted
  <1>9. WorkerTypeOK'
    <2>1. cur' \in Ptr
      BY <1>2, <1>4 DEF ListsInv, WorkerTypeOK
    <2> QED  BY <1>2, <1>6, <2>1 DEF ListsInv, WorkerTypeOK
  <1>10. AtHand'
    <2>1. ~fresh' /\ run_left' > 0
      BY <1>2 DEF ListsInv, AtHand
    <2>2. CASE mem'[prevp'] = mem[c]
      BY <1>2, <1>4, <2>1, <2>2 DEF AtHand
    <2>3. CASE mem[c] = Nil /\ mem'[prevp'] = c /\ mem'[c] = Nil /\ c \in noted'
      BY <1>2, <1>4, <2>1, <2>3 DEF AtHand
    <2> QED  BY <1>2, <1>6, <2>2, <2>3
  <1> QED  BY <1>7, <1>8, <1>9, <1>10 DEF ListsInv

LEMMA StayKeepsLists == ListsInv /\ ProcessStays => ListsInv'
  <1> SUFFICES ASSUME ListsInv, ProcessStays PROVE ListsInv'
    OBVIOUS
  <1> USE SlotFacts
  <1>1. PICK own, pos : ListsAre(own, pos) /\ Noted(own, pos)
    BY DEF ListsInv
  <1>2. /\ pc = "run" /\ pc' = "pick" /\ ~handed /\ ~handed'
        /\ UNCHANGED <<worker_pending, on, running, owed, pipe, normal, after, run_left, fresh,
                       cur, nxc, handed, alive>>
    BY DEF ProcessStays, others
  <1>4. PICK c \in Clients : c = cur /\ c = mem[prevp]
    BY <1>2 DEF ListsInv, AtHand, WorkerTypeOK
  <1>5. PICK close \in BOOLEAN :
          NextClient(c, close) /\ soon' = IF close THEN soon \cup {c} ELSE soon \ {c}
    BY <1>4 DEF ProcessStays
  <1>6. /\ mem' \in [Slots -> Ptr] /\ tail' \in [Lists -> Slots] /\ prevp' \in Slots
        /\ count' = count /\ noted' \subseteq Clients /\ fast_count' \in [Clients -> 0..FastLimit]
        /\ \E own2, pos2 :
             /\ ListsAre(own2, pos2)'
             /\ normal /\ (\A d \in Clients : own[d] = "norm" /\ pos[d] <= pos[prevp] => d \in noted)
                  => \A d \in Clients : own2[d] = "norm" /\ pos2[d] <= pos2[prevp'] => d \in noted'
    BY <1>1, <1>2, <1>4, <1>5, NextOne DEF ListsInv
  <1>7. PICK own2, pos2 :
          /\ ListsAre(own2, pos2)'
          /\ normal /\ (\A d \in Clients : own[d] = "norm" /\ pos[d] <= pos[prevp] => d \in noted)
               => \A d \in Clients : own2[d] = "norm" /\ pos2[d] <= pos2[prevp'] => d \in noted'
    BY <1>6
  <1>8. Noted(own2, pos2)'
    <2>1. normal => \A d \in Clients : own[d] = "norm" /\ pos[d] <= pos[prevp] => d \in noted
      BY <1>1, <1>2 DEF Noted
    <2> QED  BY <1>2, <1>7, <2>1 DEF Noted
  <1>9. WorkerTypeOK'
    <2>1. soon' \subseteq Clients
      BY <1>5 DEF ListsInv, WorkerTypeOK
    <2> QED  BY <1>2, <1>6, <2>1 DEF ListsInv, WorkerTypeOK
  <1>10. AtHand'
    BY <1>2 DEF ListsInv, AtHand
  <1> QED  BY <1>7, <1>8, <1>9, <1>10 DEF ListsInv

LEMMA GiveKeepsLists == ListsInv /\ ProcessGives => ListsInv'
  <1> SUFFICES ASSUME ListsInv, ProcessGives PROVE ListsInv'
    OBVIOUS
  <1> USE SlotFacts
  <1>1. PICK own, pos : ListsAre(own, pos) /\ Noted(own, pos)
    BY DEF ListsInv
  <1>2. /\ pc = "run" /\ pc' = "run" /\ ~handed /\ handed' /\ ~fresh
        /\ on' = on \ {cur} /\ soon' = soon \ {cur}
        /\ UNCHANGED <<tail, count, worker_pending, running, owed, pipe, pc, prevp, normal, after,
                       run_left, fresh, noted, cur, nxc, alive, fast_count>>
    BY DEF ProcessGives, ListsInv, AtHand
  <1>3. PICK c \in Clients : c = cur /\ c = mem[prevp] /\ nxc = mem[c]
    BY <1>2 DEF ListsInv, AtHand, WorkerTypeOK
  <1>4. PICK x \in Ptr : mem' = [mem EXCEPT ![c] = x]
    BY <1>3 DEF ProcessGives
  <1>5. own[c] = Here /\ c # prevp /\ prevp \in Slots /\ own[prevp] = Here /\ c \in Slots
    BY <1>1, <1>2, <1>3, HandOnList, Settled DEF ListsInv
  <1>6. /\ Chained(mem, tail, own, pos) /\ mem \in [Slots -> Ptr] /\ tail \in [Lists -> Slots]
        /\ own \in [Slots -> Lists \cup {"none"}] /\ pos \in [Slots -> Nat] /\ Arranged(own, pos)
    BY <1>1, <1>2, Settled
  <1>7. Here' = Here /\ Here \in Lists /\ Here # "none" /\ Here # "pend"
    BY <1>2, HereIs DEF Here
  <1>8. Heap' = [mem EXCEPT ![c] = x, ![prevp] = mem[c]]
    BY <1>2, <1>3, <1>4, <1>5, <1>6 DEF Heap
  <1>9. Tails' = IF mem[c] = Nil THEN [tail EXCEPT ![Here] = prevp] ELSE tail
    BY <1>2, <1>3, <1>7 DEF Tails
  <1>10. PICK own2 : own2 = [own EXCEPT ![c] = "none"]
    OBVIOUS
  <1>11. Chained(Heap', Tails', own2, pos)
    <2>1. PICK h2, t2 : h2 = Heap' /\ t2 = Tails'
      OBVIOUS
    <2>2. PICK h, t, l, p : h = mem /\ t = tail /\ l = Here /\ p = prevp
      OBVIOUS
    <2>3. /\ h2 = [h EXCEPT ![c] = x, ![p] = h[c]]
          /\ t2 = IF h[c] = Nil THEN [t EXCEPT ![l] = p] ELSE t
      BY <1>8, <1>9, <2>1, <2>2
    <2>4. Chained(h, t, own, pos) /\ p \in Slots /\ l \in Lists /\ own[p] = l /\ h[p] = c
      BY <1>3, <1>5, <1>6, <1>7, <2>2
    <2>5. Chained(h2, t2, own2, pos)
      BY <1>10, <2>3, <2>4, Unlinked
    <2> QED  BY <2>1, <2>5
  <1>12. own2[c] = "none" /\ \A y \in Slots : y # c => own2[y] = own[y]
    BY <1>5, <1>6, <1>10
  <1>13. on' = {d \in Clients : own2[d] # "none"}
    BY <1>1, <1>2, <1>3, <1>12 DEF ListsAre
  <1>14. nxc = Nil => tail[Here] = cur
    <2> SUFFICES ASSUME mem[c] = Nil PROVE tail[Here] = c
      BY <1>3
    <2>1. tail[Here] \in Slots /\ own[tail[Here]] = Here /\ mem[tail[Here]] = Nil
      BY <1>6, <1>7 DEF Chained
    <2>2. Follows(mem, own, pos, c) /\ Follows(mem, own, pos, tail[Here])
      BY <1>5, <1>6, <1>7, <2>1 DEF Chained
    <2>3. pos[tail[Here]] <= pos[c] /\ pos[c] <= pos[tail[Here]]
      BY <1>5, <2>1, <2>2 DEF Follows
    <2>4. pos[tail[Here]] \in Nat /\ pos[c] \in Nat
      BY <1>5, <1>6, <2>1
    <2>5. pos[tail[Here]] = pos[c]
      BY <2>3, <2>4
    <2> QED  BY <1>5, <1>6, <1>7, <2>1, <2>5 DEF Arranged
  <1>15. Cardinality(Members(own2, "norm")) + Cardinality(Members(own2, "fast")) = count - 1
    <2>1. Members(own2, Here) = Members(own, Here) \ {c} /\ c \in Members(own, Here)
          /\ \A m : m # Here /\ m # "none" => Members(own2, m) = Members(own, m)
      BY <1>5, <1>7, <1>12 DEF Members
    <2>2. Cardinality(Members(own2, Here)) = Cardinality(Members(own, Here)) - 1
      <3>1. PICK A : A = Members(own, Here)
        OBVIOUS
      <3>2. IsFiniteSet(A) /\ c \in A
        BY <2>1, <3>1, MembersFinite
      <3>3. Cardinality(A \ {c}) = Cardinality(A) - 1
        BY <3>2, FS_RemoveElement
      <3> QED  BY <2>1, <3>1, <3>3
    <2>3. PICK n, f : n = Cardinality(Members(own, "norm")) /\ f = Cardinality(Members(own, "fast"))
      OBVIOUS
    <2>4. n \in Nat /\ f \in Nat /\ n + f = count
      BY <1>1, <1>2, <2>3, MembersFinite DEF ListsAre
    <2>5. CASE Here = "norm"
      <3>1. Cardinality(Members(own2, "norm")) = n - 1 /\ Cardinality(Members(own2, "fast")) = f
        BY <2>1, <2>2, <2>3, <2>5
      <3> QED  BY <2>4, <3>1
    <2>6. CASE Here = "fast"
      <3>1. Cardinality(Members(own2, "norm")) = n /\ Cardinality(Members(own2, "fast")) = f - 1
        BY <2>1, <2>2, <2>3, <2>6
      <3> QED  BY <2>4, <3>1
    <2> QED  BY <2>5, <2>6, HereIs
  <1>16. Members(own2, "pend") = Members(own, "pend")
    BY <1>5, <1>7, <1>12 DEF Members
  <1>17. ListsAre(own2, pos)'
    <2>1. own2[prevp'] = Here'
      BY <1>2, <1>5, <1>7, <1>12
    <2>2. handed' => pc' = "run" /\ (nxc' = Nil => tail'[Here'] = cur')
      BY <1>2, <1>7, <1>14
    <2>3. Cardinality(Members(own2, "norm")) + Cardinality(Members(own2, "fast"))
            = (IF handed' THEN count' - 1 ELSE count')
      BY <1>2, <1>15
    <2>4. Cardinality(Members(own2, "pend")) = worker_pending'
      BY <1>1, <1>2, <1>16 DEF ListsAre
    <2> QED  BY <1>11, <1>13, <2>1, <2>2, <2>3, <2>4 DEF ListsAre, Members
  <1>18. Noted(own2, pos)'
    <2>1. ASSUME NEW d \in Clients, own2[d] = "norm"  PROVE own[d] = "norm"
      BY <1>12, <2>1
    <2> QED  BY <1>1, <1>2, <2>1 DEF Noted
  <1>19. AtHand'
    BY <1>2 DEF AtHand
  <1>20. WorkerTypeOK'
    <2>1. mem' \in [Slots -> Ptr] /\ on' \subseteq Clients /\ soon' \subseteq Clients
      BY <1>2, <1>4, <1>6 DEF ListsInv, WorkerTypeOK
    <2> QED  BY <1>2, <2>1 DEF ListsInv, WorkerTypeOK
  <1> QED  BY <1>17, <1>18, <1>19, <1>20 DEF ListsInv

LEMMA RemovedKeepsLists == ListsInv /\ Removed => ListsInv'
  <1> SUFFICES ASSUME ListsInv, Removed PROVE ListsInv'
    OBVIOUS
  <1> USE SlotFacts
  <1>1. PICK own, pos : ListsAre(own, pos) /\ Noted(own, pos)
    BY DEF ListsInv
  <1>2. /\ pc = "run" /\ pc' = "pick" /\ handed /\ ~handed' /\ handed' \in BOOLEAN /\ count' = count - 1
        /\ mem' = [mem EXCEPT ![prevp] = nxc]
        /\ tail' = IF nxc = Nil THEN [tail EXCEPT ![Here] = prevp] ELSE tail
        /\ UNCHANGED <<worker_pending, on, running, owed, pipe, prevp, normal, after, run_left,
                       fresh, noted, cur, nxc, alive, fast_count, soon>>
    BY DEF Removed, others, sched
  <1>3. Heap' = Heap /\ Tails' = Tails /\ Here' = Here /\ Heap = mem' /\ Tails = tail'
    BY <1>2 DEF Heap, Tails, Here
  <1>4. PICK n, f : n = Cardinality(Members(own, "norm")) /\ f = Cardinality(Members(own, "fast"))
    OBVIOUS
  <1>5. n \in Nat /\ f \in Nat /\ n + f = count - 1
    BY <1>1, <1>2, <1>4, MembersFinite DEF ListsAre
  <1>6. count' \in Nat /\ n + f = count'
    BY <1>2, <1>5
  <1>7. ListsAre(own, pos)'
    <2>1. Chained(Heap', Tails', own, pos) /\ own[prevp'] = Here'
      BY <1>1, <1>2, <1>3 DEF ListsAre
    <2>2. Cardinality(Members(own, "norm")) + Cardinality(Members(own, "fast"))
            = (IF handed' THEN count' - 1 ELSE count')
      BY <1>2, <1>4, <1>6
    <2>3. Cardinality(Members(own, "pend")) = worker_pending'
          /\ on' = {c \in Clients : own[c] # "none"}
      BY <1>1, <1>2 DEF ListsAre
    <2> QED  BY <1>2, <2>1, <2>2, <2>3 DEF ListsAre, Members
  <1>8. Noted(own, pos)'
    BY <1>1, <1>2 DEF Noted
  <1>9. AtHand'
    BY <1>2 DEF ListsInv, AtHand
  <1>10. WorkerTypeOK'
    <2>1. mem' \in [Slots -> Ptr] /\ tail' \in [Lists -> Slots]
      BY <1>1, <1>3 DEF ListsAre, Chained
    <2> QED  BY <1>2, <1>6, <2>1 DEF ListsInv, WorkerTypeOK
  <1> QED  BY <1>7, <1>8, <1>9, <1>10 DEF ListsInv

LEMMA TakeKeepsLists == ListsInv /\ TakePending => ListsInv'
  <1> SUFFICES ASSUME ListsInv, TakePending PROVE ListsInv'
    OBVIOUS
  <1> USE SlotFacts
  <1>1. PICK own, pos : ListsAre(own, pos) /\ Noted(own, pos)
    BY DEF ListsInv
  <1>2. /\ pc = "take" /\ pc' = "pick" /\ prevp' = Here' /\ run_left' = MaxRun /\ fresh' = TRUE
        /\ normal' \in BOOLEAN /\ (after' = FALSE \/ after' = after)
        /\ UNCHANGED <<on, running, owed, pipe, noted, cur, nxc, handed, alive, fast_count, soon>>
    BY DEF TakePending, Rewalk, Here, sched
  <1>3. ~handed /\ ~handed' /\ Here' \in Lists /\ (normal' => Here' = "norm")
    BY <1>1, <1>2 DEF ListsAre, Here, Lists
  <1>4. /\ Chained(mem, tail, own, pos) /\ mem \in [Slots -> Ptr] /\ tail \in [Lists -> Slots]
        /\ own \in [Slots -> Lists \cup {"none"}] /\ pos \in [Slots -> Nat] /\ Arranged(own, pos)
    BY <1>1, <1>3, Settled
  <1>5. AtHand'
    BY <1>2 DEF AtHand
  <1>6. ASSUME NEW own2, NEW pos2, Arranged(own2, pos2)  PROVE Noted(own2, pos2)' /\ own2[prevp'] = Here'
    <2>1. own2[prevp'] = Here' /\ (normal' => pos2[prevp'] = 0)
      BY <1>2, <1>3, <1>6 DEF Arranged
    <2>2. \A c \in Clients : pos2[c] \in Nat /\ pos2[c] > 0 /\ ~(pos2[c] <= 0)
      BY <1>6 DEF Arranged
    <2> QED  BY <1>2, <2>1, <2>2 DEF Noted
  <1>7. ASSUME mem' \in [Slots -> Ptr], tail' \in [Lists -> Slots], count' \in Nat,
               worker_pending' \in Nat
        PROVE  WorkerTypeOK'
    <2>1. run_left' \in 0..MaxRun
      BY <1>2, WorkerAssumption
    <2>2. prevp' \in Slots
      BY <1>2, <1>3
    <2> QED  BY <1>2, <1>7, <2>1, <2>2 DEF ListsInv, WorkerTypeOK
  <1>8. CASE mem["pend"] = Nil
    <2>1. UNCHANGED <<mem, tail, count, worker_pending>>
      BY <1>8 DEF TakePending, lists
    <2>2. Noted(own, pos)' /\ own[prevp'] = Here'
      BY <1>4, <1>6
    <2>3. ListsAre(own, pos)'
      BY <1>1, <1>2, <1>3, <2>1, <2>2, QuietLists
    <2>4. WorkerTypeOK'
      BY <1>7, <2>1 DEF ListsInv, WorkerTypeOK
    <2> QED  BY <1>5, <2>2, <2>3, <2>4 DEF ListsInv
  <1>9. CASE mem["pend"] # Nil
    <2>1. /\ mem' = [mem EXCEPT ![tail["fast"]] = mem["pend"], !["pend"] = Nil]
          /\ tail' = [tail EXCEPT !["fast"] = tail["pend"], !["pend"] = "pend"]
          /\ count' = count + worker_pending /\ worker_pending' = 0
      BY <1>9 DEF TakePending
    <2>2. PICK own2 : own2 = [x \in Slots |-> IF x \in Clients /\ own[x] = "pend" THEN "fast"
                                                                                ELSE own[x]]
      OBVIOUS
    <2>3. PICK pos2 : pos2 = [x \in Slots |-> IF x \in Clients /\ own[x] = "pend"
                                              THEN pos[x] + pos[tail["fast"]] ELSE pos[x]]
      OBVIOUS
    <2>4. Chained(mem', tail', own2, pos2)
      <3>1. PICK h, t : h = mem /\ t = tail
        OBVIOUS
      <3>2. PICK h2, t2 : h2 = mem' /\ t2 = tail'
        OBVIOUS
      <3>3. /\ h2 = [h EXCEPT ![t["fast"]] = h["pend"], !["pend"] = Nil]
            /\ t2 = [t EXCEPT !["fast"] = t["pend"], !["pend"] = "pend"]
        BY <2>1, <3>1, <3>2
      <3>4. Chained(h, t, own, pos) /\ h["pend"] # Nil
        BY <1>4, <1>9, <3>1
      <3>5. own2 \in [Slots -> Lists \cup {"none"}] /\ pos2 \in [Slots -> Nat]
        <4>1. tail["fast"] \in Slots /\ "fast" \in Lists
          BY <1>4 DEF Lists
        <4>2. pos[tail["fast"]] \in Nat
          BY <1>4, <4>1
        <4> QED  BY <1>4, <2>2, <2>3, <4>1, <4>2
      <3>6. PendingBehind(t["fast"], own, pos, own2, pos2)
        <4>1. \A x \in Slots : IF x \in Clients /\ own[x] = "pend"
                               THEN own2[x] = "fast" /\ pos2[x] = pos[x] + pos[t["fast"]]
                               ELSE own2[x] = own[x] /\ pos2[x] = pos[x]
          BY <2>2, <2>3, <3>1
        <4> QED  BY <3>5, <4>1 DEF PendingBehind
      <3>7. Chained(h2, t2, own2, pos2)
        BY <3>3, <3>4, <3>6, Joined
      <3> QED  BY <3>2, <3>7
    <2>5. \A c \in Clients : own2[c] = IF own[c] = "pend" THEN "fast" ELSE own[c]
      BY <2>2
    <2>6. /\ Members(own2, "norm") = Members(own, "norm") /\ Members(own2, "pend") = {}
          /\ Members(own2, "fast") = Members(own, "fast") \cup Members(own, "pend")
          /\ Members(own, "fast") \cap Members(own, "pend") = {}
      BY <2>5 DEF Members
    <2>7. PICK n, f, p : /\ n = Cardinality(Members(own, "norm"))
                         /\ f = Cardinality(Members(own, "fast"))
                         /\ p = Cardinality(Members(own, "pend"))
      OBVIOUS
    <2>8. n \in Nat /\ f \in Nat /\ p \in Nat /\ n + f = count /\ p = worker_pending
      BY <1>1, <1>3, <2>7, MembersFinite DEF ListsAre
    <2>9. Cardinality(Members(own2, "fast")) = f + p
      <3>1. Cardinality(Members(own, "fast") \cup Members(own, "pend"))
              = Cardinality(Members(own, "fast")) + Cardinality(Members(own, "pend"))
                - Cardinality(Members(own, "fast") \cap Members(own, "pend"))
        BY MembersFinite, FS_Union
      <3>2. Cardinality(Members(own, "fast") \cap Members(own, "pend")) = 0
        BY <2>6, FS_EmptySet
      <3>3. Cardinality(Members(own2, "fast")) = f + p - 0
        BY <2>6, <2>7, <3>1, <3>2
      <3> QED  BY <2>8, <3>3
    <2>10. Cardinality(Members(own2, "norm")) = n /\ Cardinality(Members(own2, "pend")) = 0
      BY <2>6, <2>7, FS_EmptySet
    <2>11. Cardinality(Members(own2, "norm")) + Cardinality(Members(own2, "fast")) = count'
           /\ count' \in Nat
      BY <2>1, <2>8, <2>9, <2>10
    <2>12. on' = {c \in Clients : own2[c] # "none"}
      BY <1>1, <1>2, <2>5 DEF ListsAre
    <2>13. Noted(own2, pos2)' /\ own2[prevp'] = Here'
      BY <1>6, <2>4 DEF Chained
    <2>14. ListsAre(own2, pos2)'
      <3>1. Heap' = mem' /\ Tails' = tail'
        BY <1>3 DEF Heap, Tails
      <3> QED  BY <1>3, <2>1, <2>4, <2>10, <2>11, <2>12, <2>13, <3>1 DEF ListsAre, Members
    <2>15. WorkerTypeOK'
      BY <1>7, <2>1, <2>4, <2>11 DEF Chained
    <2> QED  BY <1>5, <2>13, <2>14, <2>15 DEF ListsInv
  <1> QED  BY <1>8, <1>9

LEMMA ListsInvStep == ListsInv /\ [WorkerNext]_workerVars => ListsInv'
  <1> SUFFICES ASSUME ListsInv, [WorkerNext]_workerVars PROVE ListsInv'
    OBVIOUS
  <1>1. CASE WorkerStep
    BY <1>1, QuietKeepsLists, SkipKeepsLists, StayKeepsLists, GiveKeepsLists, RemovedKeepsLists,
       TakeKeepsLists DEF WorkerStep, QuietStep
  <1> QED  BY <1>1, OthersKeepLists, AddKeepsLists DEF WorkerNext

THEOREM ListsStayWhole == WorkerSpec => []ListsKept
  <1> QED  BY ListsInvInit, ListsInvStep, ListsInvKept, PTL DEF WorkerSpec

=============================================================================
