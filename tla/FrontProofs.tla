---------------------------- MODULE FrontProofs ----------------------------
(***************************************************************************)
(* What is kept at the front of the server: that the sockets clients       *)
(* arrive through are there for them; that a ban is not ended by looking   *)
(* for it; that no entry at a directory waits longer than the thread that  *)
(* looks after it; and, for any clients that want a mountpoint, the limit  *)
(* on the number of sources in any case, and, if clients come one after    *)
(* another, no hijacker among them, that one client at a time feeds a      *)
(* source, that none uses a source after its end and that the sources are  *)
(* counted.                                                                *)
(***************************************************************************)
EXTENDS SourceStartup, Admission, BanList, Directory, FiniteSetTheorems, WellFoundedInduction, TLAPS

(* The start of a source.                                                  *)

(* Clients that come one after another do not hijack, always get the locks *)
(* and are not killed: without each of these the properties of setup.alone *)
(* fail.                                                                   *)
Orderly ==
  \A s \in Setups : s.alone => s.hijackers = {} /\ ~s.contended /\ ~s.kill

(* Where a client is between its arrival and the moment it feeds.          *)
Way == {"start", "undo", "switch", "http"}

(* Clients come one after another, if setup.alone.                         *)
OneOnTheWay == \A c, d \in Clients : pc[c] \in Way /\ pc[d] \in Way => c = d

(* A link is held only by clients that use it, and to sources in use.      *)
Linked ==
  /\ \A c \in Clients :
       shared[c] # Nil => pc[c] \notin {"none", "start", "gone"} /\ life[shared[c]] = "live"
  /\ tree # Nil => life[tree] = "live"

(* A client's source does not exist before the client starts.              *)
Untouched ==
  \A c \in Clients :
    /\ pc[c] \in {"none", "start"} => life[c] = "none"
    /\ life[c] = "none" => ~linger[c] /\ ~terminating[c] /\ ~switchover[c]

(* A source that lingers still has the client that fed it.                 *)
Lingering ==
  \A s \in Sources :
    /\ linger[s] => /\ Running(s) /\ feeder[s] # Nil
                    /\ pc[feeder[s]] = "feed" /\ shared[feeder[s]] = s
    /\ sync[s] => terminating[s]

(* Who starts, feeds or ends a source is the one it knows.                 *)
Fed ==
  \A c \in Clients : pc[c] \in {"http", "feed", "drop", "halt"} => feeder[shared[c]] = c

(* A source that ends is dropped from the tree first, or kept reserved.    *)
Ending ==
  \A c \in Clients :
    /\ pc[c] \in {"drop", "halt"} => terminating[shared[c]]
    /\ pc[c] = "http" => ~terminating[shared[c]]
    /\ pc[c] = "feed" /\ terminating[shared[c]] =>
         tree # shared[c] \/ shared[c] \in setup.keeps

(* A client that waits to take over is the one asked for, or was handed    *)
(* the source; only then is a switch pending.                              *)
Waits ==
  /\ \A c \in Clients : pc[c] = "switch" =>
       /\ Running(shared[c])
       /\ switchover[shared[c]] =>
            /\ feeder[shared[c]] # Nil /\ aux[feeder[shared[c]]] = c
            /\ pc[feeder[shared[c]]] = "feed" /\ shared[feeder[shared[c]]] = shared[c]
       /\ ~switchover[shared[c]] => feeder[shared[c]] = c
  /\ \A s \in Sources : life[s] = "live" /\ switchover[s] =>
       \E c \in Clients : pc[c] = "switch" /\ shared[c] = s

(* A source that could not start has no other user.                        *)
UndoAlone ==
  \A c, d \in Clients : pc[c] = "undo" /\ shared[d] = shared[c] => d = c

OneAtATime ==
  /\ OneOnTheWay /\ Linked /\ Untouched /\ Lingering /\ Fed /\ Ending /\ Waits /\ UndoAlone
  /\ SourcesRight

IInv ==
  /\ setup \in Setups /\ TypeOK /\ LimitKept
  /\ setup.alone => OneAtATime

-----------------------------------------------------------------------------
(* The types, and the limit.                                               *)
Places == {"none", "start", "undo", "switch", "http", "feed", "drop", "halt", "gone"}
Linking == {"undo", "switch", "http", "feed", "drop", "halt"}

Typed ==
  /\ tree \in Sources \cup {Nil} /\ sources \in Int
  /\ life \in [Sources -> {"none", "live", "freed"}]
  /\ running \in [Sources -> BOOLEAN] /\ terminating \in [Sources -> BOOLEAN]
  /\ sync \in [Sources -> BOOLEAN] /\ switchover \in [Sources -> BOOLEAN]
  /\ linger \in [Sources -> BOOLEAN]
  /\ feeder \in [Sources -> Clients \cup {Nil}]
  /\ pc \in [Clients -> Places]
  /\ \A c \in Clients : pc[c] \in Linking => shared[c] # Nil
  /\ shared \in [Clients -> Sources \cup {Nil}] /\ aux \in [Clients -> Clients \cup {Nil}]

LEMMA TypedIsTypeOK == Typed <=> TypeOK
  BY DEF Typed, TypeOK, Places, Linking

LEMMA TypedBegin ==
  ASSUME Typed, NEW c \in Clients, NEW s \in Sources, NEW owner \in BOOLEAN, Begin(c, s, owner)
  PROVE  Typed'
  <1> USE DEF flags, Typed, Places, Linking, Go, Link
  <1>1. CASE BeginInUse(c, s, owner)
    BY <1>1 DEF BeginInUse
  <1>2. CASE BeginFails(c, s, owner)
    BY <1>2, StartupAssumption DEF BeginFails, Sources
  <1>3. CASE BeginOwn(c, s, owner)
    BY <1>3, StartupAssumption DEF BeginOwn, Sources
  <1>4. CASE BeginTakeover(c, s, owner)
    BY <1>4, StartupAssumption DEF BeginTakeover, Sources
  <1> QED  BY <1>1, <1>2, <1>3, <1>4 DEF Begin

LEMMA TypedClient ==
  ASSUME Typed, NEW c \in Clients, ClientStep(c) \/ Arrive(c)
  PROVE  Typed'
  <1> USE DEF flags, Typed, Places, Linking, Go, Link
  <1>1. CASE Arrive(c)
    BY <1>1 DEF Arrive
  <1>2. CASE Create(c)
    BY <1>2, StartupAssumption DEF Create, Sources
  <1>3. CASE Refused(c)
    BY <1>3 DEF Refused
  <1>4. CASE Reserve(c) \/ Retry(c)
    <2>1. \E s \in Sources, owner \in BOOLEAN : Begin(c, s, owner)
      BY <1>4 DEF Reserve, Retry, Held
    <2> HIDE DEF Typed
    <2> QED  BY <2>1, TypedBegin
  <1>5. CASE ReserveBusy(c)
    BY <1>5 DEF ReserveBusy
  <1>6. CASE Undo(c) \/ HttpFails(c) \/ Halt(c)
    BY <1>6 DEF Undo, HttpFails, Halt, Freed
  <1>7. CASE SwitchWait(c) \/ HttpSent(c) \/ Drop(c)
    BY <1>7 DEF SwitchWait, HttpSent, Drop
  <1>8. CASE Handover(c)
    BY <1>8 DEF Handover
  <1>9. CASE Finish(c)
    <2>0. sync' = [sync EXCEPT ![shared[c]] = FALSE] /\ sources' = sources - 1
      BY <1>9 DEF Finish
    <2>1. sync' \in [Sources -> BOOLEAN]
      BY <2>0
    <2>4. sources' \in Int
      BY <2>0
    <2>2. /\ pc' \in [Clients -> Places] /\ shared' \in [Clients -> Sources \cup {Nil}]
          /\ life' \in [Sources -> {"none", "live", "freed"}]
      BY <1>9 DEF Finish
    <2>3. \A d \in Clients : pc'[d] \in Linking => shared'[d] # Nil
      BY <1>9 DEF Finish, Feeds, Held
    <2> QED  BY <1>9, <2>1, <2>2, <2>3, <2>4 DEF Finish
  <1> QED
    BY <1>1, <1>2, <1>3, <1>4, <1>5, <1>6, <1>7, <1>8, <1>9 DEF ClientStep, Starting

LEMMA TypedStep ==
  ASSUME Typed, [Next]_vars
  PROVE  Typed'
  <1>1. ASSUME NEW c \in Clients, StartsLinger(c) \/ Ends(c) \/ Kill(c)
        PROVE  Typed'
    <2> USE DEF flags, Typed, Places, Linking
    <2>1. CASE StartsLinger(c) \/ Kill(c)
      BY <1>1, <2>1 DEF StartsLinger, Kill
    <2>2. CASE Ends(c)
      <3>1. linger' \in [Sources -> BOOLEAN]
        BY <2>2 DEF Ends
      <3>2. pc' \in [Clients -> Places] /\ \A d \in Clients : pc'[d] \in Linking => shared'[d] # Nil
        BY <2>2 DEF Ends, Go, Feeds, Held
      <3> QED  BY <2>2, <3>1, <3>2 DEF Ends
    <2> QED  BY <1>1, <2>1, <2>2
  <1>2. CASE UNCHANGED vars
    BY <1>2 DEF Typed, vars, flags
  <1> QED  BY <1>1, <1>2, TypedClient DEF Next

LEMMA LimitStep ==
  ASSUME Typed, setup \in Setups, LimitKept, [Next]_vars
  PROVE  LimitKept'
  <1> USE DEF LimitKept
  <1>1. sources \in Int /\ setup.limit \in Int
    BY StartupAssumption DEF Typed
  <1>2. setup' = setup
    BY DEF Next, vars
  <1>3. ASSUME NEW c \in Clients, NEW s \in Sources, NEW owner \in BOOLEAN, Begin(c, s, owner)
        PROVE  LimitKept'
    BY <1>1, <1>2, <1>3 DEF Begin, BeginInUse, BeginFails, BeginOwn, BeginTakeover
  <1>4. ASSUME NEW c \in Clients, Starting(c)
        PROVE  LimitKept'
    <2>1. CASE Create(c)
      BY <1>1, <1>2, <2>1 DEF Create
    <2>2. CASE Refused(c) \/ ReserveBusy(c)
      BY <1>1, <1>2, <2>2 DEF Refused, ReserveBusy
    <2>3. CASE Reserve(c) \/ Retry(c)
      BY <1>3, <2>3 DEF Reserve, Retry, Held, Typed
    <2> QED  BY <1>4, <2>1, <2>2, <2>3 DEF Starting
  <1>5. ASSUME NEW c \in Clients,
               \/ Undo(c) \/ SwitchWait(c) \/ HttpSent(c) \/ Handover(c) \/ Drop(c) \/ Halt(c)
               \/ Arrive(c) \/ StartsLinger(c) \/ Ends(c) \/ Kill(c)
        PROVE  LimitKept'
    BY <1>1, <1>2, <1>5 DEF Undo, SwitchWait, HttpSent, Handover, Drop, Halt, Arrive,
         StartsLinger, Ends, Kill
  <1>6. ASSUME NEW c \in Clients, HttpFails(c) \/ Finish(c)
        PROVE  LimitKept'
    BY <1>1, <1>2, <1>6 DEF HttpFails, Finish
  <1>7. CASE UNCHANGED vars
    BY <1>7 DEF vars
  <1> QED
    BY <1>4, <1>5, <1>6, <1>7 DEF Next, ClientStep

-----------------------------------------------------------------------------
(* Clients that come one after another.                                    *)
Settled == Typed /\ setup \in Setups /\ setup.alone /\ OneAtATime

(* source_client_startup for one that takes over a source that lingers.    *)
TakesOver(c) ==
  /\ pc[c] = "start" /\ shared[c] = Nil /\ tree # Nil /\ linger[tree] /\ feeder[tree] # Nil
  /\ aux' = [aux EXCEPT ![feeder[tree]] = c]
  /\ switchover' = [switchover EXCEPT ![tree] = TRUE]
  /\ Go(c, "switch") /\ Link(c, tree)
  /\ UNCHANGED <<tree, life, running, terminating, sync, linger, feeder, sources>>

LEMMA StartsSo ==
  ASSUME Orderly, Settled, NEW c \in Clients, Starting(c)
  PROVE  Create(c) \/ Refused(c) \/ TakesOver(c)
  <1>1. ~Hijack(c) /\ ~setup.contended
    BY DEF Orderly, Settled, Hijack
  <1>2. ~Retry(c)
    BY DEF Retry, Held, Settled, OneAtATime, Linked
  <1>3. CASE ReserveBusy(c) \/ Reserve(c)
    <2>1. /\ pc[c] = "start" /\ shared[c] = Nil /\ tree # Nil /\ linger[tree] /\ tree \in Sources
      BY <1>1, <1>3 DEF ReserveBusy, Reserve, Settled, Typed
    <2>2. Running(tree) /\ ~sync[tree]
      BY <2>1 DEF Settled, OneAtATime, Lingering, Running
    <2>3. Begin(c, tree, FALSE)
      BY <1>1, <1>3, <2>2 DEF ReserveBusy, Reserve
    <2>4. BeginTakeover(c, tree, FALSE)
      BY <2>2, <2>3 DEF Begin, BeginInUse, BeginFails, BeginOwn
    <2> QED  BY <2>1, <2>2, <2>4 DEF BeginTakeover, TakesOver
  <1> QED  BY <1>2, <1>3 DEF Starting

(* A step of c at s changes the count of no other source.                  *)
Local(c, s) ==
  /\ \A d \in Clients : d # c => pc'[d] = pc[d] /\ shared'[d] = shared[d]
  /\ \A t \in Sources : t # s => life'[t] = life[t] /\ feeder'[t] = feeder[t]
  /\ shared[c] \in {s, Nil} /\ shared'[c] \in {s, Nil}

LEMMA Counted ==
  ASSUME Typed, Typed', setup.alone, setup' = setup, SourcesRight,
         NEW c \in Clients, NEW s \in Sources, Local(c, s)
  PROVE  /\ (Started(s)' <=> Started(s)) /\ sources' = sources => SourcesRight'
         /\ ~Started(s) /\ Started(s)' /\ sources' = sources + 1 => SourcesRight'
         /\ Started(s) /\ ~Started(s)' /\ sources' = sources - 1 => SourcesRight'
  <1> DEFINE A == {t \in Sources : Started(t)}
  <1>1. ASSUME NEW t \in Sources, t # s
        PROVE  Started(t)' <=> Started(t)
    <2>1. \A d \in Clients : d \in On(t)' <=> d \in On(t)
      BY <1>1, StartupAssumption DEF On, Local, Sources
    <2>2. \A d \in On(t) : d # c
      BY <1>1, StartupAssumption DEF On, Local, Sources
    <2>3. (\E d \in On(t)' : pc'[d] # "halt") <=> (\E d \in On(t) : pc[d] # "halt")
      BY <2>1, <2>2 DEF On, Local
    <2>4. feeder'[t] = feeder[t] /\ life'[t] = life[t] /\ feeder[t] \in Clients \cup {Nil}
      BY <1>1 DEF Local, Typed
    <2>5. feeder[t] # Nil =>
            (pc'[feeder[t]] = "switch" /\ shared'[feeder[t]] = t
               <=> pc[feeder[t]] = "switch" /\ shared[feeder[t]] = t)
      BY <1>1, <2>4, StartupAssumption DEF Local, Sources
    <2> QED  BY <2>3, <2>4, <2>5 DEF Started
  <1>2. A \subseteq Clients
    BY DEF Sources
  <1>3. IsFiniteSet(A) /\ sources = Cardinality(A) /\ sources \in Int
    <2> HIDE DEF A
    <2>1. IsFiniteSet(A)
      BY <1>2, StartupAssumption, FS_Subset
    <2> QED  BY <2>1 DEF SourcesRight, A, Typed
  <1>4. SourcesRight' <=> sources' = Cardinality(A')
    BY DEF SourcesRight
  <1>5. /\ (Started(s)' <=> Started(s)) => A' = A
        /\ ~Started(s) /\ Started(s)' => A' = A \cup {s} /\ s \notin A
        /\ Started(s) /\ ~Started(s)' => A' = A \ {s} /\ s \in A
    BY <1>1 DEF Sources
  <1> HIDE DEF A
  <1>6. /\ s \notin A => Cardinality(A \cup {s}) = Cardinality(A) + 1
        /\ s \in A => Cardinality(A \ {s}) = Cardinality(A) - 1
    BY <1>3, FS_AddElement, FS_RemoveElement
  <1> QED  BY <1>3, <1>4, <1>5, <1>6

-----------------------------------------------------------------------------
(* Each step keeps clients one at a time.  Who starts first.               *)
LEMMA ArriveKeeps ==
  ASSUME Settled, Typed', NEW c \in Clients, Arrive(c), setup' = setup
  PROVE  OneAtATime'
  <1> USE DEF Settled, OneAtATime, Typed, flags, Places
  <1>1. /\ pc[c] = "none" /\ pc' = [pc EXCEPT ![c] = "start"]
        /\ \A d \in Clients : pc[d] \notin Way
        /\ UNCHANGED <<tree, life, flags, feeder, sources, shared, aux>>
    BY DEF Arrive, Go, Way
  <1>2. shared[c] = Nil
    BY <1>1 DEF Linked
  <1>3. OneOnTheWay'
    BY <1>1 DEF OneOnTheWay
  <1>4. Linked' /\ Untouched'
    BY <1>1, <1>2 DEF Linked, Untouched
  <1>5. Lingering'
    BY <1>1 DEF Lingering, Running
  <1>6. Fed' /\ Ending' /\ UndoAlone'
    BY <1>1, <1>2 DEF Fed, Ending, UndoAlone, Way
  <1>7. Waits'
    BY <1>1 DEF Waits, Running, Way
  <1>8. SourcesRight'
    <2>1. Local(c, c)
      BY <1>1, <1>2 DEF Local, Sources
    <2>2. Started(c)' <=> Started(c)
      BY <1>1 DEF Started, On
    <2> QED  BY <1>1, <2>1, <2>2, Counted DEF Sources
  <1> QED  BY <1>3, <1>4, <1>5, <1>6, <1>7, <1>8

LEMMA CreateKeeps ==
  ASSUME Settled, Typed', NEW c \in Clients, Create(c), setup' = setup
  PROVE  OneAtATime'
  <1> USE DEF Settled, OneAtATime, Typed, flags, Places
  <1>1. PICK where \in {"undo", "http"} : pc' = [pc EXCEPT ![c] = where]
    BY DEF Create, Go
  <1>2. /\ pc[c] = "start" /\ shared[c] = Nil /\ tree' = c
        /\ life' = [life EXCEPT ![c] = "live"] /\ shared' = [shared EXCEPT ![c] = c]
        /\ UNCHANGED <<flags, aux>> /\ c \in Sources /\ c # Nil
    BY StartupAssumption DEF Create, Link, Sources
  <1>3. /\ feeder' = [feeder EXCEPT ![c] = c] \/ (where = "undo" /\ feeder' = feeder)
        /\ where = "http" => sources' = sources + 1
        /\ where = "undo" => sources' = sources
    BY <1>1 DEF Create, Go
  <1>4. life[c] = "none" /\ ~linger[c] /\ ~terminating[c] /\ ~switchover[c]
    BY <1>2 DEF Untouched
  <1>5. \A d \in Clients : shared[d] # c
    BY <1>2, <1>4 DEF Linked
  <1>6. \A d \in Clients : d # c => pc[d] \notin Way
    BY <1>2 DEF OneOnTheWay, Way
  <1>7. OneOnTheWay'
    BY <1>1, <1>6 DEF OneOnTheWay
  <1>8. Linked' /\ Untouched'
    BY <1>1, <1>2, <1>4 DEF Linked, Untouched
  <1>9. Lingering'
    BY <1>1, <1>2, <1>3, <1>4, <1>5 DEF Lingering, Running
  <1>10. Fed'
    <2>1. ASSUME NEW d \in Clients, pc'[d] \in {"http", "feed", "drop", "halt"}, d # c
          PROVE  feeder'[shared'[d]] = d
      <3>1. shared'[d] = shared[d] /\ pc'[d] = pc[d] /\ shared[d] \in Sources /\ shared[d] # c
        BY <1>1, <1>2, <1>5, <2>1 DEF Linking
      <3>2. feeder[shared[d]] = d
        BY <2>1, <3>1 DEF Fed
      <3> QED  BY <1>3, <3>1, <3>2
    <2>2. pc'[c] \in {"http", "feed", "drop", "halt"} => feeder'[shared'[c]] = c
      BY <1>1, <1>2, <1>3
    <2> QED  BY <2>1, <2>2 DEF Fed
  <1>11. Ending'
    BY <1>1, <1>2, <1>4, <1>5 DEF Ending
  <1>12. UndoAlone'
    BY <1>1, <1>2, <1>5, <1>6 DEF UndoAlone, Way
  <1>13. Waits'
    BY <1>1, <1>2, <1>3, <1>4, <1>5, <1>6 DEF Waits, Way
  <1>14. SourcesRight'
    <2>1. Local(c, c)
      BY <1>1, <1>2, <1>3 DEF Local
    <2>2. ~Started(c)
      BY <1>4 DEF Started
    <2>3. On(c)' = IF where = "http" THEN {c} ELSE {}
      BY <1>1, <1>2, <1>5 DEF On
    <2>4. Started(c)' <=> where = "http"
      BY <1>1, <1>2, <1>5, <2>3 DEF Started
    <2> QED  BY <1>1, <1>2, <1>3, <2>1, <2>2, <2>4, Counted
  <1> QED
    BY <1>7, <1>8, <1>9, <1>10, <1>11, <1>12, <1>13, <1>14

LEMMA RefusedKeeps ==
  ASSUME Settled, Typed', NEW c \in Clients, Refused(c), setup' = setup
  PROVE  OneAtATime'
  <1> USE DEF Settled, OneAtATime, Typed, flags, Places
  <1>1. /\ pc[c] = "start" /\ shared[c] = Nil /\ pc' = [pc EXCEPT ![c] = "gone"]
        /\ UNCHANGED <<tree, life, flags, feeder, sources, shared, aux>>
    BY DEF Refused, Go
  <1>2. OneOnTheWay' /\ Linked' /\ Untouched' /\ UndoAlone'
    BY <1>1 DEF OneOnTheWay, Linked, Untouched, UndoAlone, Way
  <1>3. Lingering' /\ Fed' /\ Ending'
    BY <1>1 DEF Lingering, Running, Fed, Ending
  <1>4. Waits'
    BY <1>1 DEF Waits, Running
  <1>5. SourcesRight'
    <2>1. Local(c, c)
      BY <1>1 DEF Local, Sources
    <2>2. Started(c)' <=> Started(c)
      BY <1>1 DEF Started, On
    <2> QED  BY <1>1, <2>1, <2>2, Counted DEF Sources
  <1> QED  BY <1>2, <1>3, <1>4, <1>5

LEMMA TakesOverKeeps ==
  ASSUME Settled, Typed', NEW c \in Clients, TakesOver(c), setup' = setup
  PROVE  OneAtATime'
  <1> USE DEF Settled, OneAtATime, Typed, flags, Places
  <1>1. /\ pc[c] = "start" /\ shared[c] = Nil /\ tree # Nil /\ tree \in Sources /\ linger[tree]
        /\ pc' = [pc EXCEPT ![c] = "switch"] /\ shared' = [shared EXCEPT ![c] = tree]
        /\ switchover' = [switchover EXCEPT ![tree] = TRUE]
        /\ aux' = [aux EXCEPT ![feeder[tree]] = c]
        /\ UNCHANGED <<tree, life, running, terminating, sync, linger, feeder, sources>>
    BY DEF TakesOver, Go, Link
  <1>2. /\ life[tree] = "live" /\ Running(tree) /\ feeder[tree] \in Clients
        /\ pc[feeder[tree]] = "feed" /\ shared[feeder[tree]] = tree
    BY <1>1 DEF Linked, Lingering
  <1>3. \A d \in Clients : d # c => pc[d] \notin Way
    BY <1>1 DEF OneOnTheWay, Way
  <1>4. OneOnTheWay' /\ Linked' /\ Untouched'
    BY <1>1, <1>2, <1>3 DEF OneOnTheWay, Linked, Untouched
  <1>5. Lingering' /\ Fed' /\ Ending'
    BY <1>1, <1>2 DEF Lingering, Running, Fed, Ending
  <1>6. UndoAlone'
    BY <1>1, <1>3 DEF UndoAlone, Way
  <1>7. Waits'
    <2>1. \A d \in Clients : d # c => pc'[d] # "switch" /\ pc[d] # "switch"
      BY <1>1, <1>3 DEF Way
    <2>2. /\ shared'[c] = tree /\ Running(tree)' /\ switchover'[tree] /\ feeder'[tree] = feeder[tree]
          /\ aux'[feeder[tree]] = c /\ pc'[c] = "switch"
      BY <1>1, <1>2 DEF Running
    <2>3. pc'[feeder[tree]] = "feed" /\ shared'[feeder[tree]] = tree /\ feeder[tree] # Nil
      BY <1>1, <1>2, StartupAssumption
    <2>4. \A s \in Sources : life'[s] = "live" /\ switchover'[s] => s = tree
      BY <1>1, <2>1 DEF Waits
    <2>5. tree' = tree
      BY <1>1
    <2>6. \A d \in Clients : pc'[d] = "switch" => d = c
      BY <2>1
    <2>7. \A d \in Clients : pc'[d] = "switch" =>
            /\ Running(shared[d])'
            /\ switchover'[shared'[d]]
            /\ feeder'[shared'[d]] # Nil /\ aux'[feeder'[shared'[d]]] = d
            /\ pc'[feeder'[shared'[d]]] = "feed" /\ shared'[feeder'[shared'[d]]] = shared'[d]
      BY <2>2, <2>3, <2>5, <2>6
    <2> QED  BY <2>2, <2>4, <2>7 DEF Waits
  <1>8. SourcesRight'
    <2>1. Local(c, tree)
      BY <1>1 DEF Local
    <2>2. feeder[tree] \in On(tree) /\ feeder[tree] # c /\ feeder[tree] \in On(tree)'
      BY <1>1, <1>2 DEF On
    <2>3. Started(tree)
      BY <1>2, <2>2 DEF Started
    <2>4. Started(tree)'
      BY <1>1, <1>2, <2>2 DEF Started
    <2> QED  BY <1>1, <2>1, <2>3, <2>4, Counted
  <1> QED  BY <1>4, <1>5, <1>6, <1>7, <1>8

(* Who could not start gives its source up.                                *)
LEMMA FreesKeep ==
  ASSUME Settled, Typed', NEW c \in Clients, Undo(c) \/ HttpFails(c) \/ Halt(c), setup' = setup
  PROVE  OneAtATime'
  <1> USE DEF Settled, OneAtATime, Typed, flags, Places
  <1>0. PICK s \in Sources : shared[c] = s
    BY DEF Undo, HttpFails, Halt, Held
  <1>1. /\ pc[c] \in {"undo", "http", "halt"} /\ shared[c] = s /\ s # Nil /\ life[s] = "live"
        /\ pc' = [pc EXCEPT ![c] = "gone"] /\ shared' = [shared EXCEPT ![c] = Nil]
        /\ tree' = (IF tree = s THEN Nil ELSE tree) /\ life' = [life EXCEPT ![s] = "freed"]
        /\ UNCHANGED <<flags, feeder, aux>>
        /\ sources' = IF pc[c] = "http" THEN sources - 1 ELSE sources
    BY <1>0, StartupAssumption DEF Undo, HttpFails, Halt, Freed, Held, Go, Link
  <1>2. \A d \in Clients : shared[d] = s => d = c
    <2>1. CASE pc[c] = "undo"
      BY <1>0, <2>1 DEF UndoAlone
    <2>2. ASSUME pc[c] \in {"http", "halt"}, NEW d \in Clients, shared[d] = s, d # c
          PROVE  FALSE
      <3>1. pc[d] \in Linking /\ feeder[s] = c
        BY <1>1, <2>2 DEF Linked, Linking, Fed
      <3>2. pc[d] \notin {"http", "feed", "drop", "halt"}
        BY <2>2, <3>1 DEF Fed
      <3>3. pc[d] # "undo"
        BY <1>0, <2>2 DEF UndoAlone
      <3>4. pc[d] = "switch"
        BY <3>1, <3>2, <3>3 DEF Linking
      <3>5. pc[c] = "halt" /\ terminating[s]
        BY <1>0, <2>2, <3>4 DEF OneOnTheWay, Way, Ending
      <3> QED  BY <2>2, <3>4, <3>5 DEF Waits, Running
    <2> QED  BY <1>1, <2>1, <2>2
  <1>3. /\ ~linger[s]
        /\ \A d \in Clients : pc[d] = "switch" => shared[d] # s
    BY <1>1, <1>2 DEF Lingering
  <1>4. OneOnTheWay' /\ Linked' /\ Untouched'
    BY <1>1, <1>2 DEF OneOnTheWay, Linked, Untouched, Way
  <1>5. Lingering'
    BY <1>1, <1>3 DEF Lingering, Running
  <1>6. \A d \in Clients : d # c =>
           /\ pc'[d] = pc[d] /\ shared'[d] = shared[d]
           /\ pc[d] \in Linking => shared[d] \in Sources /\ shared[d] # s
    BY <1>1, <1>2, StartupAssumption DEF Linking, Sources
  <1>7. Fed' /\ Ending' /\ UndoAlone'
    <2>1. Fed'
      BY <1>1, <1>6 DEF Fed
    <2>2. Ending'
      BY <1>1, <1>6, StartupAssumption DEF Ending, Linking, Sources
    <2>3. UndoAlone'
      BY <1>1, <1>6, StartupAssumption DEF UndoAlone, Linking, Sources
    <2> QED  BY <2>1, <2>2, <2>3
  <1>8. Waits'
    BY <1>1, <1>3 DEF Waits, Running
  <1>9. SourcesRight'
    <2>1. Local(c, s)
      BY <1>1 DEF Local
    <2>2. ~Started(s)'
      BY <1>1 DEF Started
    <2>3. On(s) = IF pc[c] = "undo" THEN {} ELSE {c}
      BY <1>1, <1>2 DEF On
    <2>4. ~(feeder[s] # Nil /\ pc[feeder[s]] = "switch" /\ shared[feeder[s]] = s)
      BY <1>1, <1>2
    <2>5. Started(s) <=> pc[c] = "http"
      BY <1>1, <2>3, <2>4 DEF Started
    <2> QED  BY <1>1, <2>1, <2>2, <2>5, Counted
  <1> QED  BY <1>4, <1>5, <1>7, <1>8, <1>9

LEMMA SwitchWaitKeeps ==
  ASSUME Settled, Typed', NEW c \in Clients, SwitchWait(c), setup' = setup
  PROVE  OneAtATime'
  <1> USE DEF Settled, OneAtATime, Typed, flags, Places
  <1>0. PICK s \in Sources : shared[c] = s
    BY DEF SwitchWait, Held
  <1>1. /\ pc[c] = "switch" /\ shared[c] = s /\ s # Nil /\ life[s] = "live" /\ ~switchover[s]
        /\ pc' = [pc EXCEPT ![c] = "http"] /\ linger' = [linger EXCEPT ![s] = FALSE]
        /\ UNCHANGED <<tree, life, running, terminating, sync, switchover, feeder, sources,
                       shared, aux>>
    BY <1>0, StartupAssumption DEF SwitchWait, Held, Go
  <1>2. Running(s) /\ feeder[s] = c
    BY <1>1 DEF Waits
  <1>3. \A d \in Clients : d # c => pc[d] \notin Way
    BY <1>1 DEF OneOnTheWay, Way
  <1>4. OneOnTheWay' /\ Linked' /\ Untouched'
    BY <1>1, <1>3 DEF OneOnTheWay, Linked, Untouched
  <1>5. Lingering'
    BY <1>1, <1>2 DEF Lingering, Running
  <1>6. Fed' /\ Ending'
    BY <1>1, <1>2 DEF Fed, Ending, Running
  <1>7. UndoAlone'
    BY <1>1, <1>3 DEF UndoAlone, Way
  <1>8. Waits'
    <2>1. \A d \in Clients : pc'[d] # "switch"
      BY <1>1, <1>3 DEF Way
    <2>2. \A t \in Sources : life'[t] = "live" => ~switchover'[t]
      BY <1>1, <1>3 DEF Waits, Way
    <2> QED  BY <2>1, <2>2 DEF Waits
  <1>9. SourcesRight'
    <2>1. Local(c, s)
      BY <1>1 DEF Local
    <2>2. Started(s)
      BY <1>1, <1>2, StartupAssumption DEF Started
    <2>3. c \in On(s)' /\ pc'[c] # "halt"
      BY <1>1 DEF On
    <2>4. Started(s)'
      BY <1>1, <2>3 DEF Started
    <2> QED  BY <1>1, <2>1, <2>2, <2>4, Counted
  <1> QED  BY <1>4, <1>5, <1>6, <1>7, <1>8, <1>9

LEMMA HttpSentKeeps ==
  ASSUME Settled, Typed', NEW c \in Clients, HttpSent(c), setup' = setup
  PROVE  OneAtATime'
  <1> USE DEF Settled, OneAtATime, Typed, flags, Places
  <1>0. PICK s \in Sources : shared[c] = s
    BY DEF HttpSent, Held
  <1>1. /\ pc[c] = "http" /\ shared[c] = s /\ s # Nil /\ life[s] = "live"
        /\ pc' = [pc EXCEPT ![c] = "feed"] /\ running' = [running EXCEPT ![s] = TRUE]
        /\ UNCHANGED <<tree, life, terminating, sync, switchover, linger, feeder, sources,
                       shared, aux>>
    BY <1>0, StartupAssumption DEF HttpSent, Held, Go
  <1>2. ~terminating[s] /\ feeder[s] = c
    BY <1>1 DEF Ending, Fed
  <1>3. \A d \in Clients : d # c => pc[d] \notin Way
    BY <1>1 DEF OneOnTheWay, Way
  <1>4. OneOnTheWay' /\ Linked' /\ Untouched'
    BY <1>1, <1>3 DEF OneOnTheWay, Linked, Untouched
  <1>5. Lingering'
    BY <1>1, <1>2 DEF Lingering, Running
  <1>6. Fed' /\ Ending'
    BY <1>1, <1>2 DEF Fed, Ending
  <1>7. UndoAlone'
    BY <1>1, <1>3 DEF UndoAlone, Way
  <1>8. Waits'
    <2>1. \A d \in Clients : pc'[d] # "switch"
      BY <1>1, <1>3 DEF Way
    <2>2. \A t \in Sources : life'[t] = "live" => ~switchover'[t]
      BY <1>1, <1>3 DEF Waits, Way
    <2> QED  BY <2>1, <2>2 DEF Waits
  <1>9. SourcesRight'
    <2>1. Local(c, s)
      BY <1>1 DEF Local
    <2>2. c \in On(s) /\ c \in On(s)'
      BY <1>1 DEF On
    <2>3. Started(s) /\ Started(s)'
      BY <1>1, <2>2 DEF Started
    <2> QED  BY <1>1, <2>1, <2>3, Counted
  <1> QED  BY <1>4, <1>5, <1>6, <1>7, <1>8, <1>9

(* Who feeds hands over, goes on, or ends.                                 *)
LEMMA HandoverKeeps ==
  ASSUME Settled, Typed', NEW c \in Clients, Handover(c), setup' = setup
  PROVE  OneAtATime'
  <1> USE DEF Settled, OneAtATime, Typed, flags, Places
  <1>0. PICK s \in Sources : shared[c] = s
    BY DEF Handover, Feeds, Held
  <1>1. /\ pc[c] = "feed" /\ shared[c] = s /\ s # Nil /\ life[s] = "live" /\ Running(s)
        /\ switchover[s]
        /\ switchover' = [switchover EXCEPT ![s] = FALSE] /\ linger' = [linger EXCEPT ![s] = FALSE]
        /\ feeder' = [feeder EXCEPT ![s] = aux[c]] /\ aux' = [aux EXCEPT ![c] = Nil]
        /\ pc' = [pc EXCEPT ![c] = "gone"] /\ shared' = [shared EXCEPT ![c] = Nil]
        /\ UNCHANGED <<tree, life, running, terminating, sync, sources>>
    BY <1>0, StartupAssumption DEF Handover, Feeds, Held, Go, Link
  <1>2. PICK d \in Clients : pc[d] = "switch" /\ shared[d] = s
    BY <1>1 DEF Waits
  <1>3. feeder[s] = c /\ aux[c] = d /\ d # c /\ d # Nil
    BY <1>1, <1>2, StartupAssumption DEF Waits, Fed
  <1>4. \A e \in Clients : e # d => pc[e] \notin Way
    BY <1>2 DEF OneOnTheWay, Way
  <1>5. \A e \in Clients : e # c => shared'[e] = shared[e] /\ pc'[e] = pc[e]
    BY <1>1
  <1>6. OneOnTheWay' /\ Linked' /\ Untouched'
    BY <1>1, <1>5 DEF OneOnTheWay, Linked, Untouched, Way
  <1>7. Lingering'
    BY <1>1 DEF Lingering, Running
  <1>8. Fed'
    <2>1. ASSUME NEW e \in Clients, pc'[e] \in {"http", "feed", "drop", "halt"}
          PROVE  feeder'[shared'[e]] = e
      <3>1. e # c /\ pc[e] = pc'[e] /\ shared'[e] = shared[e]
        BY <1>1, <2>1
      <3>2. feeder[shared[e]] = e /\ shared[e] # s
        BY <1>3, <2>1, <3>1 DEF Fed
      <3>3. shared[e] \in Sources
        BY <2>1, <3>1 DEF Linking
      <3> QED  BY <1>1, <3>1, <3>2, <3>3
    <2> QED  BY <2>1 DEF Fed
  <1>9. Ending' /\ UndoAlone'
    BY <1>1, <1>2, <1>4, <1>5 DEF Ending, UndoAlone, Way
  <1>10. Waits'
    <2>1. \A e \in Clients : pc'[e] = "switch" => e = d
      BY <1>1, <1>4 DEF Way
    <2>2. Running(s)' /\ ~switchover'[s] /\ feeder'[s] = d /\ shared'[d] = s
      BY <1>1, <1>2, <1>3 DEF Running
    <2>3. \A t \in Sources : life'[t] = "live" => ~switchover'[t]
      BY <1>1, <1>2, <1>4 DEF Waits, Way
    <2>4. \A e \in Clients : pc'[e] = "switch" =>
            Running(shared[e])' /\ ~switchover'[shared'[e]] /\ feeder'[shared'[e]] = e
      BY <2>1, <2>2 DEF Running
    <2> QED  BY <2>3, <2>4 DEF Waits
  <1>11. SourcesRight'
    <2>1. Local(c, s)
      BY <1>1 DEF Local
    <2>2. Started(s)
      BY <1>1 DEF Started, On
    <2>3. Started(s)'
      BY <1>1, <1>2, <1>3 DEF Started
    <2> QED  BY <1>1, <2>1, <2>2, <2>3, Counted
  <1> QED  BY <1>6, <1>7, <1>8, <1>9, <1>10, <1>11

LEMMA StartsLingerKeeps ==
  ASSUME Settled, Typed', NEW c \in Clients, StartsLinger(c), setup' = setup
  PROVE  OneAtATime'
  <1> USE DEF Settled, OneAtATime, Typed, flags, Places
  <1>0. PICK s \in Sources : shared[c] = s
    BY DEF StartsLinger, Feeds, Held
  <1>1. /\ pc[c] = "feed" /\ s # Nil /\ life[s] = "live" /\ Running(s)
        /\ linger' = [linger EXCEPT ![s] = TRUE]
        /\ UNCHANGED <<tree, life, running, terminating, sync, switchover, feeder, sources,
                       pc, shared, aux>>
    BY <1>0, StartupAssumption DEF StartsLinger, Feeds, Held
  <1>2. feeder[s] = c /\ c # Nil
    BY <1>0, <1>1, StartupAssumption DEF Fed
  <1>3. Lingering'
    BY <1>0, <1>1, <1>2 DEF Lingering, Running
  <1>4. OneOnTheWay' /\ Linked' /\ Fed' /\ Ending' /\ UndoAlone'
    BY <1>1 DEF OneOnTheWay, Linked, Fed, Ending, UndoAlone
  <1>5. Untouched'
    BY <1>1 DEF Untouched
  <1>6. Waits'
    BY <1>1 DEF Waits, Running
  <1>7. SourcesRight'
    BY <1>1 DEF SourcesRight, Started, On
  <1> QED  BY <1>3, <1>4, <1>5, <1>6, <1>7

LEMMA EndsKeeps ==
  ASSUME Settled, Typed', NEW c \in Clients, Ends(c), setup' = setup
  PROVE  OneAtATime'
  <1> USE DEF Settled, OneAtATime, Typed, flags, Places
  <1>0. PICK s \in Sources : shared[c] = s
    BY DEF Ends, Feeds, Held
  <1>1. /\ pc[c] = "feed" /\ s # Nil /\ life[s] = "live" /\ ~terminating[s]
        /\ running' = [running EXCEPT ![s] = FALSE]
        /\ terminating' = [terminating EXCEPT ![s] = TRUE] /\ sync' = [sync EXCEPT ![s] = TRUE]
        /\ pc' = [pc EXCEPT ![c] = IF s \in setup.keeps THEN "feed" ELSE "drop"]
        /\ UNCHANGED <<tree, life, switchover, feeder, sources, shared, aux>>
    BY <1>0, StartupAssumption DEF Ends, Feeds, Held, Go
  <1>2. /\ running[s] => ~switchover[s] /\ linger' = [linger EXCEPT ![s] = FALSE]
        /\ ~running[s] => linger' = linger
    BY <1>0 DEF Ends
  <1>3. feeder[s] = c
    BY <1>0, <1>1 DEF Fed
  <1>4. \A d \in Clients : pc[d] = "switch" => shared[d] # s
    <2>1. ASSUME NEW d \in Clients, pc[d] = "switch", shared[d] = s
          PROVE  FALSE
      <3>1. running[s]
        BY <2>1 DEF Waits, Running
      <3>2. feeder[s] = d
        BY <1>2, <2>1, <3>1 DEF Waits
      <3> QED  BY <1>1, <1>3, <2>1, <3>2
    <2> QED  BY <2>1
  <1>5. ~linger'[s] /\ \A t \in Sources : t # s => linger'[t] = linger[t]
    BY <1>1, <1>2 DEF Lingering, Running
  <1>6. pc'[c] \in {"feed", "drop"} /\ \A d \in Clients : d # c => pc'[d] = pc[d]
    BY <1>1
  <1>7. OneOnTheWay' /\ Linked' /\ UndoAlone'
    BY <1>1, <1>6 DEF OneOnTheWay, Linked, UndoAlone, Way
  <1>8. Untouched'
    BY <1>1, <1>5, <1>6 DEF Untouched, Sources
  <1>9. Lingering'
    BY <1>0, <1>1, <1>5, <1>6 DEF Lingering, Running
  <1>10. Fed'
    BY <1>1, <1>6 DEF Fed
  <1>11. Ending'
    <2>1. ASSUME NEW d \in Clients, d # c, pc[d] \in {"http", "feed", "drop", "halt"}
          PROVE  shared[d] # s /\ shared[d] \in Sources
      BY <1>3, <2>1 DEF Fed, Linking
    <2>2. ASSUME NEW d \in Clients, d # c
          PROVE  /\ pc'[d] \in {"drop", "halt"} => terminating'[shared'[d]]
                 /\ pc'[d] = "http" => ~terminating'[shared'[d]]
                 /\ pc'[d] = "feed" /\ terminating'[shared'[d]] =>
                      tree' # shared'[d] \/ shared'[d] \in setup'.keeps
      BY <1>1, <1>6, <2>1, <2>2 DEF Ending
    <2>3. /\ terminating'[shared'[c]] /\ pc'[c] # "http" /\ pc'[c] # "halt"
          /\ pc'[c] = "feed" => shared'[c] \in setup'.keeps
      BY <1>0, <1>1, <1>6
    <2> QED  BY <2>2, <2>3 DEF Ending
  <1>12. Waits'
    <2>1. ASSUME NEW d \in Clients, pc'[d] = "switch"
          PROVE  /\ pc[d] = "switch" /\ shared'[d] = shared[d]
                 /\ shared[d] \in Sources /\ shared[d] # s
      BY <1>1, <1>4, <1>6, <2>1 DEF Linking
    <2>2. ASSUME NEW d \in Clients, pc'[d] = "switch"
          PROVE  /\ Running(shared[d])'
                 /\ switchover'[shared'[d]] =>
                      /\ feeder'[shared'[d]] # Nil /\ aux'[feeder'[shared'[d]]] = d
                      /\ pc'[feeder'[shared'[d]]] = "feed"
                      /\ shared'[feeder'[shared'[d]]] = shared'[d]
                 /\ ~switchover'[shared'[d]] => feeder'[shared'[d]] = d
      BY <1>0, <1>1, <1>6, <2>1, <2>2 DEF Waits, Running
    <2>3. \A t \in Sources : life'[t] = "live" /\ switchover'[t] =>
            \E d \in Clients : pc'[d] = "switch" /\ shared'[d] = t
      BY <1>1, <1>6 DEF Waits
    <2> QED  BY <2>2, <2>3 DEF Waits
  <1>13. SourcesRight'
    <2>1. Local(c, s)
      BY <1>0, <1>1, <1>6 DEF Local
    <2>2. c \in On(s) /\ c \in On(s)'
      BY <1>0, <1>1, <1>6 DEF On
    <2>3. Started(s) /\ Started(s)'
      BY <1>1, <1>6, <2>2 DEF Started
    <2> QED  BY <1>1, <2>1, <2>3, Counted
  <1> QED  BY <1>7, <1>8, <1>9, <1>10, <1>11, <1>12, <1>13

LEMMA DropKeeps ==
  ASSUME Settled, Typed', NEW c \in Clients, Drop(c), setup' = setup
  PROVE  OneAtATime'
  <1> USE DEF Settled, OneAtATime, Typed, flags, Places
  <1>0. PICK s \in Sources : shared[c] = s
    BY DEF Drop, Held
  <1>1. /\ pc[c] = "drop" /\ s # Nil /\ life[s] = "live" /\ tree' \in {tree, Nil} /\ tree' # s
        /\ pc' = [pc EXCEPT ![c] = "feed"]
        /\ UNCHANGED <<life, flags, feeder, sources, shared, aux>>
    BY <1>0, StartupAssumption DEF Drop, Held, Go
  <1>2. OneOnTheWay' /\ Linked' /\ Untouched' /\ UndoAlone'
    BY <1>1 DEF OneOnTheWay, Linked, Untouched, UndoAlone, Way
  <1>3. Lingering' /\ Fed'
    BY <1>0, <1>1 DEF Lingering, Running, Fed
  <1>4. Ending'
    <2>1. ASSUME NEW d \in Clients, d # c
          PROVE  /\ pc'[d] \in {"drop", "halt"} => terminating'[shared'[d]]
                 /\ pc'[d] = "http" => ~terminating'[shared'[d]]
                 /\ pc'[d] = "feed" /\ terminating'[shared'[d]] =>
                      tree' # shared'[d] \/ shared'[d] \in setup'.keeps
      BY <1>1, <2>1 DEF Ending, Linking
    <2> QED  BY <1>0, <1>1, <2>1 DEF Ending
  <1>5. Waits'
    BY <1>0, <1>1 DEF Waits, Running
  <1>6. SourcesRight'
    <2>1. Local(c, s)
      BY <1>0, <1>1 DEF Local
    <2>2. c \in On(s) /\ c \in On(s)'
      BY <1>0, <1>1 DEF On
    <2>3. Started(s) /\ Started(s)'
      BY <1>1, <2>2 DEF Started
    <2> QED  BY <1>1, <2>1, <2>3, Counted
  <1> QED  BY <1>2, <1>3, <1>4, <1>5, <1>6

(* Nobody else has a link to a source that has ended.                      *)
LEMMA FinishKeeps ==
  ASSUME Settled, Typed', NEW c \in Clients, Finish(c), setup' = setup
  PROVE  OneAtATime'
  <1> USE DEF Settled, OneAtATime, Typed, flags, Places
  <1>0. PICK s \in Sources : shared[c] = s
    BY DEF Finish, Feeds, Held
  <1>1. /\ pc[c] = "feed" /\ s # Nil /\ life[s] = "live" /\ terminating[s]
        /\ sync' = [sync EXCEPT ![s] = FALSE] /\ sources' = sources - 1
        /\ UNCHANGED <<tree, running, terminating, switchover, linger, feeder, aux>>
    BY <1>0, StartupAssumption DEF Finish, Feeds, Held
  <1>2. feeder[s] = c
    BY <1>0, <1>1 DEF Fed
  <1>3. ASSUME NEW d \in Clients, shared[d] = s
        PROVE  d = c
    <2>1. pc[d] \in Linking
      BY <1>1, <1>3 DEF Linked, Linking
    <2>2. pc[d] # "switch"
      BY <1>1, <1>3 DEF Waits, Running
    <2>3. pc[d] # "undo"
      BY <1>0, <1>1, <1>3 DEF UndoAlone
    <2> QED  BY <1>2, <1>3, <2>1, <2>2, <2>3 DEF Fed, Linking
  <1>4. ~linger[s]
    BY <1>1 DEF Lingering, Running
  <1>5. CASE s \in setup.keeps
    <2>1. pc' = [pc EXCEPT ![c] = "halt"] /\ UNCHANGED <<life, shared>>
      BY <1>0, <1>5 DEF Finish, Go
    <2>2. OneOnTheWay' /\ Linked' /\ Untouched' /\ UndoAlone'
      BY <1>1, <2>1 DEF OneOnTheWay, Linked, Untouched, UndoAlone, Way
    <2>3. Lingering'
      BY <1>0, <1>1, <1>4, <2>1 DEF Lingering, Running
    <2>4. Fed' /\ Ending'
      BY <1>0, <1>1, <2>1 DEF Fed, Ending
    <2>5. Waits'
      BY <1>0, <1>1, <1>2, <1>3, <2>1 DEF Waits, Running
    <2>6. SourcesRight'
      <3>1. Local(c, s)
        BY <1>0, <1>1, <2>1 DEF Local
      <3>2. Started(s)
        BY <1>0, <1>1 DEF Started, On
      <3>3. On(s)' = {c} /\ pc'[c] = "halt"
        BY <1>0, <1>3, <2>1 DEF On
      <3>4. ~Started(s)'
        BY <1>1, <1>2, <3>3 DEF Started
      <3> QED  BY <1>1, <3>1, <3>2, <3>4, Counted
    <2> QED  BY <2>2, <2>3, <2>4, <2>5, <2>6
  <1>6. CASE s \notin setup.keeps
    <2>1. /\ pc' = [pc EXCEPT ![c] = "gone"] /\ shared' = [shared EXCEPT ![c] = Nil]
          /\ life' = [life EXCEPT ![s] = "freed"]
      BY <1>0, <1>6 DEF Finish, Go, Link
    <2>2. tree # s
      BY <1>0, <1>1, <1>6 DEF Ending
    <2>3. \A d \in Clients : d # c =>
             /\ pc'[d] = pc[d] /\ shared'[d] = shared[d]
             /\ pc[d] \in Linking => shared[d] \in Sources /\ shared[d] # s
      BY <1>3, <2>1 DEF Linking
    <2>4. OneOnTheWay' /\ Linked' /\ Untouched'
      BY <1>1, <2>1, <2>2, <2>3 DEF OneOnTheWay, Linked, Untouched, Way, Linking
    <2>5. Lingering'
      BY <1>0, <1>1, <1>4, <2>1, <2>3 DEF Lingering, Running
    <2>6. Fed' /\ Ending'
      BY <1>1, <2>1, <2>3 DEF Fed, Ending
    <2>7. UndoAlone'
      BY <2>1, <2>3, StartupAssumption DEF UndoAlone, Linking, Sources
    <2>8. Waits'
      BY <1>0, <1>1, <1>2, <1>3, <2>1, <2>3 DEF Waits, Running, Linking
    <2>9. SourcesRight'
      <3>1. Local(c, s)
        BY <1>0, <1>1, <2>1 DEF Local
      <3>2. Started(s)
        BY <1>0, <1>1 DEF Started, On
      <3>3. ~Started(s)'
        BY <2>1 DEF Started
      <3> QED  BY <1>1, <3>1, <3>2, <3>3, Counted
    <2> QED  BY <2>4, <2>5, <2>6, <2>7, <2>8, <2>9
  <1> QED  BY <1>5, <1>6

-----------------------------------------------------------------------------
LEMMA IInvInit ==
  Init => IInv
  <1> SUFFICES ASSUME Init PROVE IInv
    OBVIOUS
  <1>1. Typed
    BY DEF Init, Typed, Places, Linking, Off, Sources
  <1>2. LimitKept
    BY StartupAssumption DEF Init, LimitKept
  <1>3. OneOnTheWay /\ Linked /\ Untouched /\ Lingering
    BY DEF Init, OneOnTheWay, Linked, Untouched, Lingering, Way, Off, Sources
  <1>4. Fed /\ Ending /\ Waits /\ UndoAlone
    BY DEF Init, Fed, Ending, Waits, UndoAlone, Off
  <1>5. SourcesRight
    <2>1. {s \in Sources : Started(s)} = {}
      BY DEF Init, Started
    <2> QED  BY <2>1, FS_EmptySet DEF Init, SourcesRight
  <1> QED  BY <1>1, <1>2, <1>3, <1>4, <1>5, TypedIsTypeOK DEF IInv, OneAtATime, Init

LEMMA OneAtATimeStep ==
  ASSUME Orderly, Settled, [Next]_vars
  PROVE  OneAtATime'
  <1>1. Typed' /\ setup' = setup
    BY TypedStep DEF Settled, Next, vars
  <1>2. ASSUME NEW c \in Clients, Starting(c)
        PROVE  OneAtATime'
    BY <1>1, <1>2, StartsSo, CreateKeeps, RefusedKeeps, TakesOverKeeps
  <1>3. ASSUME NEW c \in Clients, Kill(c)
        PROVE  FALSE
    BY <1>3 DEF Kill, Orderly, Settled
  <1>4. CASE UNCHANGED vars
    BY <1>4 DEF vars, flags, Settled, OneAtATime, OneOnTheWay, Linked, Untouched, Lingering, Running,
         Fed, Ending, Waits, UndoAlone, SourcesRight, Started, On
  <1> QED
    BY <1>1, <1>2, <1>3, <1>4, ArriveKeeps, FreesKeep, SwitchWaitKeeps, HttpSentKeeps,
       HandoverKeeps, DropKeeps, FinishKeeps, StartsLingerKeeps, EndsKeeps
      DEF Next, ClientStep

LEMMA LimitsStep ==
  TypeOK /\ setup \in Setups /\ LimitKept /\ [Next]_vars =>
    (TypeOK /\ setup \in Setups /\ LimitKept)'
  <1>1. [Next]_vars => setup' = setup
    BY DEF Next, vars
  <1>2. TypeOK' <=> Typed'
    BY DEF Typed, TypeOK, Places, Linking
  <1> QED  BY <1>1, <1>2, TypedIsTypeOK, TypedStep, LimitStep

LEMMA IInvStep ==
  ASSUME Orderly
  PROVE  IInv /\ [Next]_vars => IInv'
  <1> SUFFICES ASSUME IInv, [Next]_vars PROVE IInv'
    OBVIOUS
  <1>1. setup' = setup
    BY DEF Next, vars
  <1>2. setup.alone => OneAtATime'
    BY OneAtATimeStep, TypedIsTypeOK DEF IInv, Settled
  <1> QED  BY <1>1, <1>2, LimitsStep DEF IInv

(* source_client_startup: the limit on the number of sources is never      *)
(* passed, for any clients, in any order, that hijack, are killed or have  *)
(* to try again for a lock.                                                *)
THEOREM SourceLimitKept == Spec => [](TypeOK /\ LimitKept)
  <1>1. Init => TypeOK /\ setup \in Setups /\ LimitKept
    BY IInvInit DEF IInv
  <1> QED  BY <1>1, LimitsStep, PTL DEF Spec

(* source_client_startup, source_client_read, source_reserve: one client   *)
(* at a time feeds a source, the one it knows, and none waits for, starts  *)
(* or feeds one that is freed: for any number of orderly clients that come *)
(* one after another, and take over from one another.                      *)
THEOREM SourceFedByOne ==
  ASSUME Orderly
  PROVE  Spec => []FedByOne
  <1>1. ASSUME IInv PROVE FedByOne
    <2>1. CASE setup.alone
      <3>1. OneFeeder
        <4>1. Fed
          BY <1>1, <2>1 DEF IInv, OneAtATime
        <4> QED  BY <4>1 DEF Fed, OneFeeder, On
      <3>2. NoDangling
        BY <1>1, <2>1 DEF IInv, OneAtATime, NoDangling, Linked
      <3> QED  BY <3>1, <3>2 DEF FedByOne
    <2>2. CASE ~setup.alone
      BY <2>2 DEF FedByOne, OneFeeder, NoDangling
    <2> QED  BY <2>1, <2>2
  <1> QED  BY <1>1, IInvInit, IInvStep, PTL DEF Spec

(* source_client_startup, source_shutdown: then global.sources counts the  *)
(* sources that have been started and have not ended.                      *)
THEOREM SourcesAreCounted ==
  ASSUME Orderly
  PROVE  Spec => []SourcesCounted
  <1>1. IInv => SourcesCounted
    BY DEF IInv, OneAtATime, SourcesCounted, SourcesRight
  <1> QED  BY <1>1, IInvInit, IInvStep, PTL DEF Spec

----------------------------------------------------------------------------
(* The listening sockets and the clients that come through them.           *)

(* A set as a sequence: each of its elements once.                         *)
LEMMA SeqOfSet ==
  ASSUME NEW S, IsFiniteSet(S)
  PROVE  /\ SetToSeq(S) \in Seq(S) /\ Len(SetToSeq(S)) = Cardinality(S) /\ Cardinality(S) \in Nat
         /\ DOMAIN SetToSeq(S) = 1..Cardinality(S)
         /\ \A i, j \in 1..Cardinality(S) : SetToSeq(S)[i] = SetToSeq(S)[j] => i = j
         /\ \A x \in S : \E i \in 1..Cardinality(S) : SetToSeq(S)[i] = x
  <1>1. Cardinality(S) \in Nat /\ ExistsBijection(1..Cardinality(S), S)
    BY FS_CardinalityType
  <1>2. PICK g \in [1..Cardinality(S) -> S] : IsInjective(g)
    BY <1>1 DEF ExistsBijection, Bijection, Injection
  <1>3. SetToSeq(S) \in [1..Cardinality(S) -> S] /\ IsInjective(SetToSeq(S))
    BY <1>2 DEF SetToSeq
  <1>4. PICK f \in Injection(1..Cardinality(S), S) : f = SetToSeq(S)
    BY <1>3 DEF Injection
  <1>5. Cardinality(1..Cardinality(S)) = Cardinality(S)
    BY <1>1, FS_Interval
  <1>6. f \in Surjection(1..Cardinality(S), S)
    BY <1>5, FS_Injection
  <1>7. f \in Seq(S) /\ Len(f) = Cardinality(S) /\ DOMAIN f = 1..Cardinality(S)
    BY <1>1, <1>3, <1>4
  <1> QED  BY <1>1, <1>3, <1>4, <1>6, <1>7 DEF Surjection, IsInjective

(* There is memory enough.                                                 *)
LEMMA FreshInjects ==
  ASSUME NEW S, NEW T, IsFiniteSet(S), IsFiniteSet(T), Cardinality(S) <= Cardinality(T)
  PROVE  Fresh(S, T) \in [S -> T] /\ \A a, b \in S : Fresh(S, T)[a] = Fresh(S, T)[b] => a = b
  <1>1. PICK n \in Nat, m \in Nat : n = Cardinality(S) /\ m = Cardinality(T) /\ n <= m
    BY FS_CardinalityType
  <1>2. PICK s \in [1..n -> S] : \A x \in S : \E i \in 1..n : s[i] = x
    BY <1>1, FS_CardinalityType DEF ExistsBijection, Bijection, Surjection
  <1>3. PICK t \in [1..m -> T] : IsInjective(t)
    BY <1>1, FS_CardinalityType DEF ExistsBijection, Bijection, Injection
  <1>4. PICK h : h = [x \in S |-> CHOOSE i \in 1..n : s[i] = x]
    OBVIOUS
  <1>5. \A x \in S : h[x] \in 1..n /\ s[h[x]] = x
    BY <1>2, <1>4
  <1>6. PICK f : f = [x \in S |-> t[h[x]]]
    OBVIOUS
  <1>7. f \in [S -> T]
    BY <1>1, <1>3, <1>5, <1>6
  <1>8. \A a, b \in S : f[a] = f[b] => a = b
    <2>1. \A a \in S : f[a] = t[h[a]] /\ h[a] \in 1..m
      BY <1>1, <1>5, <1>6
    <2> QED  BY <1>3, <1>5, <2>1 DEF IsInjective
  <1>9. IsInjective(f)
    BY <1>7, <1>8 DEF IsInjective
  <1>10. Fresh(S, T) \in [S -> T] /\ IsInjective(Fresh(S, T))
    BY <1>7, <1>9 DEF Fresh
  <1> QED  BY <1>10 DEF IsInjective

(* What is left of a sequence when one element goes.                       *)
LEMMA Removing ==
  ASSUME NEW T, NEW s \in Seq(T), NEW i \in 1..Len(s)
  PROVE  /\ RemoveAt(s, i) \in Seq(T) /\ Len(RemoveAt(s, i)) = Len(s) - 1
         /\ \A j \in 1..(Len(s) - 1) : RemoveAt(s, i)[j] = IF j < i THEN s[j] ELSE s[j + 1]
  <1>1. PICK a, b : a = SubSeq(s, 1, i - 1) /\ b = SubSeq(s, i + 1, Len(s))
    OBVIOUS
  <1>2. a \in Seq(T) /\ Len(a) = i - 1 /\ \A j \in 1..(i - 1) : a[j] = s[j]
    BY <1>1
  <1>3. b \in Seq(T) /\ Len(b) = Len(s) - i /\ \A j \in 1..(Len(s) - i) : b[j] = s[i + j]
    BY <1>1
  <1>4. RemoveAt(s, i) = a \o b
    BY <1>1 DEF RemoveAt
  <1>5. a \o b \in Seq(T) /\ Len(a \o b) = Len(s) - 1
    <2>1. a \in Seq(T) /\ b \in Seq(T)
      BY <1>2, <1>3
    <2>2. a \o b \in Seq(T) /\ Len(a \o b) = Len(a) + Len(b)
      BY <2>1
    <2>3. Len(a) = i - 1 /\ Len(b) = Len(s) - i /\ Len(s) \in Nat
      BY <1>2, <1>3
    <2> QED  BY <2>2, <2>3
  <1>6. ASSUME NEW j \in 1..(Len(s) - 1)
        PROVE  (a \o b)[j] = IF j < i THEN s[j] ELSE s[j + 1]
    <2>1. CASE j < i
      BY <1>2, <1>3, <2>1
    <2>2. CASE ~(j < i)
      <3>1. j - (i - 1) \in 1..(Len(s) - i) /\ i + (j - (i - 1)) = j + 1
        BY <2>2
      <3>2. (a \o b)[j] = b[j - (i - 1)]
        BY <1>2, <1>3, <2>2
      <3> QED  BY <1>3, <2>2, <3>1, <3>2
    <2> QED  BY <2>1, <2>2
  <1> QED  BY <1>4, <1>5, <1>6

(* In a sequence without repetition an element is at most once.            *)
Distinct(s) == \A i, j \in DOMAIN s : s[i] = s[j] => i = j
LEMMA AtMostOnce ==
  ASSUME NEW T, NEW s \in Seq(T), Distinct(s), NEW x
  PROVE  Cardinality({i \in DOMAIN s : s[i] = x}) = IF \E i \in DOMAIN s : s[i] = x THEN 1 ELSE 0
  <1>1. CASE \E i \in DOMAIN s : s[i] = x
    <2>1. PICK i \in DOMAIN s : s[i] = x
      BY <1>1
    <2>2. {j \in DOMAIN s : s[j] = x} = {i}
      BY <2>1 DEF Distinct
    <2> QED  BY <1>1, <2>2, FS_Singleton
  <1>2. CASE ~\E i \in DOMAIN s : s[i] = x
    <2>1. {j \in DOMAIN s : s[j] = x} = {}
      BY <1>2
    <2> QED  BY <1>2, <2>1, FS_EmptySet
  <1> QED  BY <1>1, <1>2

(* The types, where the threads are, and that a client that is here has    *)
(* the listener_t of a socket.                                             *)
DoorsShape ==
  /\ DoorsTypeOK /\ scan >= 1 /\ mc_running \in BOOLEAN
  /\ step \in {"serving", "replaced", "halting", "closing", "opening", "ended"}
  /\ step \in {"closing", "opening", "ended"} => accepting = Nobody
  /\ old # {} => step \in {"replaced", "closing"}
  /\ seen # -1 => step = "closing" /\ scan <= Len(server_conn)
  /\ \A c \in Conns : accepting = c <=> client[c].at = "accepted"
  /\ \A c \in Here : client[c].server_conn \in ListenSocks

(* A listener_t is at one socket, which is at the same place in both       *)
(* arrays.                                                                 *)
SocketsRight ==
  /\ Len(server_conn) = Len(serversock) /\ Distinct(server_conn)
  /\ \A i \in DOMAIN server_conn : listener[server_conn[i]].port = serversock[i]

(* A count read and not written yet has only gone down since.              *)
ReadRight == seen # -1 => seen >= listener[server_conn[scan]].refcount

ClientRecords == [at : {"none", "accepted", "asking", "listening", "served", "leaving"},
                  ops : {"http", "shoutcast"}, door : Ports \cup {Nobody},
                  server_conn : ListenSocks \cup {Nobody}, keep : BOOLEAN]
ListenerRecords == [port : Ports, refcount : Int]

(* The types alone.                                                        *)
LEMMA DoorsTypes ==
  ASSUME DoorsShape
  PROVE  /\ listener \in [ListenSocks -> ListenerRecords] /\ client \in [Conns -> ClientRecords]
         /\ serversock \in Seq(Ports) /\ server_conn \in Seq(ListenSocks)
         /\ conf \subseteq ListenSocks /\ old \subseteq ListenSocks
         /\ clients \in Int /\ scan \in Nat /\ seen \in Int /\ accepting \in Conns \cup {Nobody}
  BY DEF DoorsShape, DoorsTypeOK, ClientRecords, ListenerRecords

(* What a change of the counts leaves.                                     *)
LEMMA Recounting ==
  ASSUME DoorsShape, NEW ls, NEW d \in Int
  PROVE  /\ Recounted(ls, d) \in [ListenSocks -> ListenerRecords]
         /\ \A l \in ListenSocks :
              /\ Recounted(ls, d)[l].port = listener[l].port
              /\ Recounted(ls, d)[l].refcount =
                   IF l \in ls THEN listener[l].refcount + d ELSE listener[l].refcount
  <1>1. ASSUME NEW l \in ListenSocks
        PROVE  /\ Recounted(ls, d)[l] \in ListenerRecords
               /\ Recounted(ls, d)[l].port = listener[l].port
               /\ Recounted(ls, d)[l].refcount =
                    IF l \in ls THEN listener[l].refcount + d ELSE listener[l].refcount
    <2>1. PICK r \in ListenerRecords : r = listener[l]
      BY DoorsTypes
    <2>2. [r EXCEPT !.refcount = @ + d] \in ListenerRecords
          /\ [r EXCEPT !.refcount = @ + d].port = r.port
          /\ [r EXCEPT !.refcount = @ + d].refcount = r.refcount + d
      BY <2>1 DEF ListenerRecords
    <2>3. Recounted(ls, d)[l] = IF l \in ls THEN [r EXCEPT !.refcount = @ + d] ELSE r
      BY <2>1 DEF Recounted
    <2> QED  BY <2>1, <2>2, <2>3
  <1>2. Recounted(ls, d) \in [ListenSocks -> ListenerRecords]
    BY <1>1 DEF Recounted
  <1> QED  BY <1>1, <1>2

(* What a handler of a client leaves alone, and what it may change.        *)
Handles(c) ==
  /\ UNCHANGED <<listener, conf, old, socketVars>>
  /\ \E r \in ClientRecords :
       /\ client' = [client EXCEPT ![c] = r]
       /\ r.server_conn = client[c].server_conn /\ r.door = client[c].door
       /\ client[c].at # "none" /\ r.at \notin {"none", "accepted"}
       /\ \/ /\ client[c].at # "accepted" /\ clients' = clients /\ accepting' = accepting
             /\ r.at = "listening" => client[c].at = "listening" \/ clients <= ClientLimit
          \/ /\ accepting = c /\ accepting' = Nobody /\ clients' = clients + 1 /\ r.at = "asking"

(* A handler that only changes where its client is.                        *)
LEMMA AsHandled ==
  ASSUME NEW c \in Conns, NEW r \in ClientRecords, client' = [client EXCEPT ![c] = r],
         UNCHANGED <<listener, conf, old, accepting, clients, socketVars>>,
         r.server_conn = client[c].server_conn, r.door = client[c].door,
         client[c].at \in {"asking", "listening", "served", "leaving"},
         r.at \in {"asking", "listening", "served", "leaving"},
         r.at = "listening" => client[c].at = "listening" \/ clients <= ClientLimit
  PROVE  Handles(c)
  BY DEF Handles

(* Every handler is such.                                                  *)
LEMMA Handling ==
  ASSUME DoorsShape, NEW c \in Conns,
         Register(c) \/ PasswordRead(c) \/ RequestFails(c) \/ Gets(c) \/ Asks(c)
           \/ Finishes(c) \/ KeptAlive(c)
  PROVE  Handles(c)
  <1>1. PICK s \in ClientRecords : s = client[c]
    BY DoorsTypes
  <1>2. /\ \A a \in {"asking", "listening", "served", "leaving"} :
             /\ [s EXCEPT !.at = a] \in ClientRecords
             /\ [s EXCEPT !.at = a].at = a /\ [s EXCEPT !.at = a].door = s.door
             /\ [s EXCEPT !.at = a].server_conn = s.server_conn
        /\ [s EXCEPT !.ops = "http"] \in ClientRecords
        /\ [s EXCEPT !.ops = "http"].at = s.at /\ [s EXCEPT !.ops = "http"].door = s.door
        /\ [s EXCEPT !.ops = "http"].server_conn = s.server_conn
        /\ [s EXCEPT !.at = "asking", !.ops = "http", !.keep = FALSE] \in ClientRecords
        /\ [s EXCEPT !.at = "asking", !.ops = "http", !.keep = FALSE].at = "asking"
        /\ [s EXCEPT !.at = "asking", !.ops = "http", !.keep = FALSE].door = s.door
        /\ [s EXCEPT !.at = "asking", !.ops = "http", !.keep = FALSE].server_conn = s.server_conn
    BY <1>1 DEF ClientRecords
  <1>3. ASSUME NEW keep \in BOOLEAN, NEW a \in {"listening", "served", "leaving"}
        PROVE  /\ [s EXCEPT !.keep = keep, !.at = a] \in ClientRecords
               /\ [s EXCEPT !.keep = keep, !.at = a].at = a
               /\ [s EXCEPT !.keep = keep, !.at = a].door = s.door
               /\ [s EXCEPT !.keep = keep, !.at = a].server_conn = s.server_conn
    BY <1>1 DEF ClientRecords
  <1>4. client[c].at = "accepted" <=> accepting = c
    BY DEF DoorsShape
  <1>5. CASE Register(c)
    <2>1. client' = [client EXCEPT ![c] = [s EXCEPT !.at = "asking"]]
      BY <1>1, <1>5 DEF Register
    <2> QED  BY <1>1, <1>2, <1>4, <1>5, <2>1 DEF Register, Handles
  <1>6. CASE PasswordRead(c)
    <2>4. PICK r : r = [s EXCEPT !.ops = "http"]
      OBVIOUS
    <2>5. /\ client' = [client EXCEPT ![c] = r]
          /\ UNCHANGED <<listener, conf, old, accepting, clients, socketVars>>
      BY <1>1, <1>6, <2>4 DEF PasswordRead
    <2>6. client[c].at \in {"asking"}
      BY <1>6 DEF PasswordRead
    <2>7. /\ r \in ClientRecords /\ r.server_conn = s.server_conn /\ r.door = s.door
          /\ r.at = "asking"
      BY <1>2, <1>1, <2>4, <2>6
    <2> QED  BY <1>1, <2>5, <2>6, <2>7, AsHandled
  <1>7. CASE RequestFails(c)
    <2>4. PICK r : r = [s EXCEPT !.at = "leaving"]
      OBVIOUS
    <2>5. /\ client' = [client EXCEPT ![c] = r]
          /\ UNCHANGED <<listener, conf, old, accepting, clients, socketVars>>
      BY <1>1, <1>7, <2>4 DEF RequestFails, Becomes
    <2>6. client[c].at \in {"asking"}
      BY <1>7 DEF RequestFails, Becomes
    <2>7. /\ r \in ClientRecords /\ r.server_conn = s.server_conn /\ r.door = s.door
          /\ r.at = "leaving"
      BY <1>2, <1>1, <2>4, <2>6
    <2> QED  BY <1>1, <2>5, <2>6, <2>7, AsHandled
  <1>8. CASE Gets(c)
    <2>1. PICK keep \in BOOLEAN, a \in {"leaving", "listening"} :
            /\ client' = [client EXCEPT ![c] = [s EXCEPT !.keep = keep, !.at = a]]
            /\ a = "listening" => ~(clients > ClientLimit)
      BY <1>1, <1>8 DEF Gets
    <2>2. clients \in Int /\ ClientLimit \in Int
      BY DoorsTypes, DoorsAssumption
    <2>3. a = "listening" => clients <= ClientLimit
      BY <2>1, <2>2
    <2>4. PICK r : r = [s EXCEPT !.keep = keep, !.at = a]
      OBVIOUS
    <2>5. /\ client' = [client EXCEPT ![c] = r]
          /\ UNCHANGED <<listener, conf, old, accepting, clients, socketVars>>
      BY <1>1, <1>8, <2>4, <2>1 DEF Gets
    <2>6. client[c].at \in {"asking"}
      BY <1>8 DEF Gets
    <2>7. /\ r \in ClientRecords /\ r.server_conn = s.server_conn /\ r.door = s.door
          /\ r.at = a
      BY <1>3, <1>1, <2>4, <2>6, <2>1
    <2> QED  BY <1>1, <2>3, <2>1, <2>5, <2>6, <2>7, AsHandled
  <1>9. CASE Asks(c)
    <2>1. PICK keep \in BOOLEAN :
            client' = [client EXCEPT ![c] = [s EXCEPT !.keep = keep, !.at = "served"]]
      BY <1>1, <1>9 DEF Asks
    <2>4. PICK r : r = [s EXCEPT !.keep = keep, !.at = "served"]
      OBVIOUS
    <2>5. /\ client' = [client EXCEPT ![c] = r]
          /\ UNCHANGED <<listener, conf, old, accepting, clients, socketVars>>
      BY <1>1, <1>9, <2>4, <2>1 DEF Asks
    <2>6. client[c].at \in {"asking"}
      BY <1>9 DEF Asks
    <2>7. /\ r \in ClientRecords /\ r.server_conn = s.server_conn /\ r.door = s.door
          /\ r.at = "served"
      BY <1>3, <1>1, <2>4, <2>6, <2>1
    <2> QED  BY <1>1, <2>5, <2>6, <2>7, AsHandled
  <1>10. CASE Finishes(c)
    <2>4. PICK r : r = [s EXCEPT !.at = "leaving"]
      OBVIOUS
    <2>5. /\ client' = [client EXCEPT ![c] = r]
          /\ UNCHANGED <<listener, conf, old, accepting, clients, socketVars>>
      BY <1>1, <1>10, <2>4 DEF Finishes, Becomes
    <2>6. client[c].at \in {"listening", "served"}
      BY <1>10 DEF Finishes, Becomes
    <2>7. /\ r \in ClientRecords /\ r.server_conn = s.server_conn /\ r.door = s.door
          /\ r.at = "leaving"
      BY <1>2, <1>1, <2>4, <2>6
    <2> QED  BY <1>1, <2>5, <2>6, <2>7, AsHandled
  <1>11. CASE KeptAlive(c)
    <2>4. PICK r : r = [s EXCEPT !.at = "asking", !.ops = "http", !.keep = FALSE]
      OBVIOUS
    <2>5. /\ client' = [client EXCEPT ![c] = r]
          /\ UNCHANGED <<listener, conf, old, accepting, clients, socketVars>>
      BY <1>1, <1>11, <2>4 DEF KeptAlive
    <2>6. client[c].at \in {"leaving"}
      BY <1>11 DEF KeptAlive
    <2>7. /\ r \in ClientRecords /\ r.server_conn = s.server_conn /\ r.door = s.door
          /\ r.at = "asking"
      BY <1>2, <1>1, <2>4, <2>6
    <2> QED  BY <1>1, <2>5, <2>6, <2>7, AsHandled
  <1> QED  BY <1>5, <1>6, <1>7, <1>8, <1>9, <1>10, <1>11

(* What the other steps of clients do.                                     *)
Comes(c, l, i) ==
  /\ Listening /\ accepting = Nobody /\ client[c].at = "none"
  /\ i \in DOMAIN server_conn /\ l = server_conn[i]
  /\ \E r \in ClientRecords :
       /\ client' = [client EXCEPT ![c] = r]
       /\ r.at = "accepted" /\ r.server_conn = l /\ r.door = serversock[i]
  /\ listener' = Recounted({l}, 1) /\ accepting' = c
  /\ UNCHANGED <<conf, old, clients, socketVars>>

LEMMA Accepting ==
  ASSUME DoorsShape, SocketsRight, NEW c \in Conns, Accept(c)
  PROVE  \E i \in DOMAIN server_conn, l \in ListenSocks : Comes(c, l, i)
  <1>1. PICK i \in 1..Len(serversock), ops \in {"http", "shoutcast"} :
          /\ listener' = Recounted({server_conn[i]}, 1)
          /\ client' = [client EXCEPT ![c] =
               [at |-> "accepted", door |-> serversock[i], server_conn |-> server_conn[i],
                ops |-> ops, keep |-> FALSE]]
    BY DEF Accept
  <1>2. PICK r : r = [at |-> "accepted", door |-> serversock[i], server_conn |-> server_conn[i],
                      ops |-> ops, keep |-> FALSE]
    OBVIOUS
  <1>3. i \in DOMAIN server_conn /\ server_conn[i] \in ListenSocks /\ serversock[i] \in Ports
    BY DoorsTypes DEF SocketsRight
  <1>4. r \in ClientRecords
    BY <1>2, <1>3 DEF ClientRecords
  <1>5. client[c].at = "none"
    BY DEF Accept, Absent
  <1> QED  BY <1>1, <1>2, <1>3, <1>4, <1>5 DEF Accept, Comes

Goes(c) ==
  /\ client[c].at # "none" /\ client' = [client EXCEPT ![c] = Absent]
  /\ listener' = Recounted({client[c].server_conn}, -1)
  /\ \/ accepting = c /\ accepting' = Nobody /\ clients' = clients
     \/ client[c].at # "accepted" /\ accepting' = accepting /\ clients' = clients - 1
  /\ UNCHANGED <<conf, old, socketVars>>

LEMMA Going ==
  ASSUME DoorsShape, NEW c \in Conns, ConnectionFails(c) \/ Destroyed(c)
  PROVE  Goes(c)
  <1>1. client[c].at = "accepted" <=> accepting = c
    BY DEF DoorsShape
  <1>2. CASE ConnectionFails(c)
    BY <1>1, <1>2 DEF ConnectionFails, Goes
  <1>3. CASE Destroyed(c)
    BY <1>3 DEF Destroyed, Goes
  <1> QED  BY <1>2, <1>3

Through(cl, l) == {c \in Conns : cl[c].at # "none" /\ cl[c].server_conn = l}
Registered(cl) == {c \in Conns : cl[c].at \notin {"none", "accepted"}}
Served(cl) == {c \in Conns : cl[c].at = "listening"}

(* What holds a listener_t apart from clients.                             *)
Kept(cf, o, sc, l) == (IF l \in cf THEN 1 ELSE 0) + (IF l \in o THEN 1 ELSE 0)
                      + (IF \E i \in DOMAIN sc : sc[i] = l THEN 1 ELSE 0)

(* The sets of clients are finite.                                         *)
LEMMA ClientSets ==
  ASSUME NEW cl, NEW l
  PROVE  /\ IsFiniteSet(Through(cl, l)) /\ Cardinality(Through(cl, l)) \in Nat
         /\ IsFiniteSet(Registered(cl)) /\ Cardinality(Registered(cl)) \in Nat
         /\ IsFiniteSet(Served(cl)) /\ Cardinality(Served(cl)) \in Nat
         /\ Cardinality(Served(cl)) <= Cardinality(Registered(cl))
  <1>1. /\ Through(cl, l) \in SUBSET Conns /\ Registered(cl) \in SUBSET Conns
        /\ Served(cl) \in SUBSET Registered(cl)
    BY DEF Through, Registered, Served
  <1>2. IsFiniteSet(Through(cl, l)) /\ IsFiniteSet(Registered(cl))
    BY <1>1, DoorsAssumption, FS_Subset
  <1>3. IsFiniteSet(Served(cl)) /\ Cardinality(Served(cl)) <= Cardinality(Registered(cl))
    BY <1>1, <1>2, FS_Subset
  <1> QED  BY <1>2, <1>3, FS_CardinalityType

(* A listener_t is at one socket at most.                                  *)
LEMMA HoldersAre ==
  ASSUME NEW cf, NEW o, NEW sc \in Seq(ListenSocks), Distinct(sc), NEW l
  PROVE  /\ (IF l \in cf THEN 1 ELSE 0) + (IF l \in o THEN 1 ELSE 0)
              + Cardinality({i \in DOMAIN sc : sc[i] = l}) = Kept(cf, o, sc, l)
         /\ Kept(cf, o, sc, l) \in Nat
  <1>1. Cardinality({i \in DOMAIN sc : sc[i] = l}) = IF \E i \in DOMAIN sc : sc[i] = l THEN 1 ELSE 0
    BY AtMostOnce
  <1>2. PICK n : n = Cardinality({i \in DOMAIN sc : sc[i] = l})
    OBVIOUS
  <1> QED  BY <1>1, <1>2 DEF Kept

DoorsInv ==
  /\ DoorsShape /\ SocketsRight /\ ReadRight
  /\ \A l \in ListenSocks : listener[l].refcount >=
       Kept(conf, old, server_conn, l) + Cardinality(Through(client, l))
  /\ \A c \in Conns : client[c].at # "none" =>
       listener[client[c].server_conn].port = client[c].door
  /\ clients = Cardinality(Registered(client))
  /\ Cardinality(Served(client)) <= ClientLimit

LEMMA DoorsInvRight == DoorsInv => DoorsRight
  <1> SUFFICES ASSUME DoorsInv PROVE DoorsRight
    OBVIOUS
  <1>1. /\ \A l : Through(client, l) = {c \in Here : client[c].server_conn = l}
        /\ Registered(client) = {c \in Here : client[c].at # "accepted"}
        /\ Served(client) = {c \in Here : client[c].at = "listening"}
    BY DEF Through, Registered, Served, Here
  <1>2. \A l \in ListenSocks :
          Holders(l) = Kept(conf, old, server_conn, l) + Cardinality(Through(client, l))
    <2>1. server_conn \in Seq(ListenSocks) /\ Distinct(server_conn)
      BY DoorsTypes DEF DoorsInv, SocketsRight
    <2> TAKE l \in ListenSocks
    <2>2. (IF l \in conf THEN 1 ELSE 0) + (IF l \in old THEN 1 ELSE 0)
            + Cardinality({i \in DOMAIN server_conn : server_conn[i] = l})
              = Kept(conf, old, server_conn, l)
      BY <2>1, HoldersAre
    <2>3. Through(client, l) = {c \in Here : client[c].server_conn = l}
      BY <1>1
    <2> QED  BY <2>2, <2>3 DEF Holders
  <1>3. ListenersHeld
    BY <1>2 DEF DoorsInv, ListenersHeld
  <1>4. RightDoor
    BY DEF DoorsInv, RightDoor, Here
  <1> QED  BY <1>1, <1>3, <1>4 DEF DoorsInv, DoorsShape, ClientsCounted, ServedKept, DoorsRight

(* One client is made another record.                                      *)
Remade(cl, c, r, cl2) ==
  /\ \A l : Cardinality(Through(cl2, l)) = Cardinality(Through(cl, l))
              + (IF r.at # "none" /\ r.server_conn = l THEN 1 ELSE 0)
              - (IF cl[c].at # "none" /\ cl[c].server_conn = l THEN 1 ELSE 0)
  /\ Cardinality(Registered(cl2)) = Cardinality(Registered(cl))
       + (IF r.at \notin {"none", "accepted"} THEN 1 ELSE 0)
       - (IF cl[c].at \notin {"none", "accepted"} THEN 1 ELSE 0)
  /\ Cardinality(Served(cl2)) = Cardinality(Served(cl))
       + (IF r.at = "listening" THEN 1 ELSE 0) - (IF cl[c].at = "listening" THEN 1 ELSE 0)

LEMMA OneClient ==
  ASSUME NEW cl \in [Conns -> ClientRecords], NEW c \in Conns, NEW r \in ClientRecords
  PROVE  Remade(cl, c, r, [cl EXCEPT ![c] = r])
  <1> SUFFICES ASSUME NEW cl2, cl2 = [cl EXCEPT ![c] = r], NEW l
               PROVE  /\ Cardinality(Through(cl2, l)) = Cardinality(Through(cl, l))
                          + (IF r.at # "none" /\ r.server_conn = l THEN 1 ELSE 0)
                          - (IF cl[c].at # "none" /\ cl[c].server_conn = l THEN 1 ELSE 0)
                      /\ Cardinality(Registered(cl2)) = Cardinality(Registered(cl))
                          + (IF r.at \notin {"none", "accepted"} THEN 1 ELSE 0)
                          - (IF cl[c].at \notin {"none", "accepted"} THEN 1 ELSE 0)
                      /\ Cardinality(Served(cl2)) = Cardinality(Served(cl))
                          + (IF r.at = "listening" THEN 1 ELSE 0)
                          - (IF cl[c].at = "listening" THEN 1 ELSE 0)
    BY DEF Remade
  <1>1. /\ Through(cl2, l) \ {c} = Through(cl, l) \ {c}
        /\ Registered(cl2) \ {c} = Registered(cl) \ {c}
        /\ Served(cl2) \ {c} = Served(cl) \ {c}
    BY DEF Through, Registered, Served
  <1>2. /\ c \in Through(cl2, l) <=> (r.at # "none" /\ r.server_conn = l)
        /\ c \in Through(cl, l) <=> (cl[c].at # "none" /\ cl[c].server_conn = l)
        /\ c \in Registered(cl2) <=> r.at \notin {"none", "accepted"}
        /\ c \in Registered(cl) <=> cl[c].at \notin {"none", "accepted"}
        /\ c \in Served(cl2) <=> r.at = "listening"
        /\ c \in Served(cl) <=> cl[c].at = "listening"
    BY DEF Through, Registered, Served
  <1>3. ASSUME NEW S, NEW S2, IsFiniteSet(S), IsFiniteSet(S2), S2 \ {c} = S \ {c}
        PROVE  Cardinality(S2) = Cardinality(S) + (IF c \in S2 THEN 1 ELSE 0)
                                                - (IF c \in S THEN 1 ELSE 0)
    <2>1. /\ Cardinality(S \ {c}) = IF c \in S THEN Cardinality(S) - 1 ELSE Cardinality(S)
          /\ Cardinality(S2 \ {c}) = IF c \in S2 THEN Cardinality(S2) - 1 ELSE Cardinality(S2)
          /\ Cardinality(S) \in Nat /\ Cardinality(S2) \in Nat
      BY <1>3, FS_RemoveElement, FS_CardinalityType
    <2>2. Cardinality(S \ {c}) = Cardinality(S2 \ {c})
      BY <1>3
    <2>3. CASE c \in S
      BY <2>1, <2>2, <2>3
    <2>4. CASE c \notin S
      BY <2>1, <2>2, <2>4
    <2> QED  BY <2>3, <2>4
  <1>4. /\ Cardinality(Through(cl2, l)) = Cardinality(Through(cl, l))
             + (IF c \in Through(cl2, l) THEN 1 ELSE 0) - (IF c \in Through(cl, l) THEN 1 ELSE 0)
        /\ Cardinality(Registered(cl2)) = Cardinality(Registered(cl))
             + (IF c \in Registered(cl2) THEN 1 ELSE 0) - (IF c \in Registered(cl) THEN 1 ELSE 0)
        /\ Cardinality(Served(cl2)) = Cardinality(Served(cl))
             + (IF c \in Served(cl2) THEN 1 ELSE 0) - (IF c \in Served(cl) THEN 1 ELSE 0)
    BY <1>1, <1>3, ClientSets
  <1> QED  BY <1>2, <1>4

(* Clients are handled, come and go.                                       *)
LEMMA ClientShape ==
  ASSUME DoorsShape, NEW c \in Conns, NEW r \in ClientRecords,
         client' = [client EXCEPT ![c] = r],
         accepting' = c \/ accepting' = Nobody \/ accepting' = accepting,
         accepting' = c <=> r.at = "accepted",
         accepting' # accepting => accepting \in {Nobody, c},
         step \in {"closing", "opening", "ended"} => accepting' = Nobody,
         r.at # "none" => r.server_conn \in ListenSocks,
         clients' \in Int, listener' \in [ListenSocks -> ListenerRecords],
         UNCHANGED <<conf, old, socketVars>>
  PROVE  DoorsShape'
  <1>1. client' \in [Conns -> ClientRecords] /\ \A x \in Conns : client'[x] = IF x = c THEN r ELSE client[x]
    BY DoorsTypes
  <1>2. DoorsTypeOK'
    BY <1>1, DoorsAssumption DEF DoorsShape, DoorsTypeOK, ClientRecords, ListenerRecords, socketVars
  <1>3. \A x \in Conns : accepting' = x <=> client'[x].at = "accepted"
    BY <1>1, DoorsAssumption DEF DoorsShape
  <1>4. \A x \in Here' : client'[x].server_conn \in ListenSocks
    BY <1>1 DEF DoorsShape, Here
  <1> QED  BY <1>2, <1>3, <1>4 DEF DoorsShape, socketVars

(* Clients are served, come and go.                                        *)
LEMMA HandleStep ==
  ASSUME DoorsInv, NEW c \in Conns, Handles(c)
  PROVE  DoorsInv'
  <1>1. PICK r \in ClientRecords :
          /\ client' = [client EXCEPT ![c] = r]
          /\ r.server_conn = client[c].server_conn /\ r.door = client[c].door
          /\ client[c].at # "none" /\ r.at \notin {"none", "accepted"}
          /\ \/ /\ client[c].at # "accepted" /\ clients' = clients /\ accepting' = accepting
                /\ r.at = "listening" => client[c].at = "listening" \/ clients <= ClientLimit
             \/ /\ accepting = c /\ accepting' = Nobody /\ clients' = clients + 1 /\ r.at = "asking"
    BY DEF Handles
  <1>2. UNCHANGED <<listener, conf, old, socketVars>>
    BY DEF Handles
  <1>3. /\ client \in [Conns -> ClientRecords] /\ clients \in Int
        /\ client[c].server_conn \in ListenSocks /\ ClientLimit \in Nat
        /\ accepting = c <=> client[c].at = "accepted"
        /\ listener \in [ListenSocks -> ListenerRecords]
    BY <1>1, DoorsTypes, DoorsAssumption DEF DoorsInv, DoorsShape, Here
  <1>4. DoorsShape'
    <2>1. accepting' # c
      BY <1>1, <1>3, DoorsAssumption
    <2>2. step \in {"closing", "opening", "ended"} => accepting' = Nobody
      BY <1>1 DEF DoorsInv, DoorsShape
    <2>3. clients' \in Int
      BY <1>1, <1>3
    <2>4. (accepting' = Nobody \/ accepting' = accepting)
          /\ (accepting' # accepting => accepting \in {Nobody, c})
      BY <1>1
    <2>5. r.at # "none" /\ r.at # "accepted" /\ r.server_conn \in ListenSocks /\ listener' = listener
      BY <1>1, <1>2, <1>3
    <2> QED  BY <1>1, <1>2, <1>3, <2>1, <2>2, <2>3, <2>4, <2>5, ClientShape DEF DoorsInv
  <1>20. client \in [Conns -> ClientRecords]
    BY <1>3
  <1>21. client' = [client EXCEPT ![c] = r]
    BY <1>1
  <1>22. Remade(client, c, r, client')
    BY <1>1, <1>2, <1>20, <1>21, OneClient
  <1>5. \A l : /\ Cardinality(Through(client', l)) = Cardinality(Through(client, l))
               /\ Cardinality(Through(client, l)) \in Nat
    <2> TAKE l
    <2>1. Cardinality(Through(client', l)) = Cardinality(Through(client, l))
              + (IF r.at # "none" /\ r.server_conn = l THEN 1 ELSE 0)
              - (IF client[c].at # "none" /\ client[c].server_conn = l THEN 1 ELSE 0)
      BY <1>22 DEF Remade
    <2>2. Cardinality(Through(client, l)) \in Nat
      BY ClientSets
    <2>3. (IF r.at # "none" /\ r.server_conn = l THEN 1 ELSE 0)
           = (IF client[c].at # "none" /\ client[c].server_conn = l THEN 1 ELSE 0)
      BY <1>1
    <2>4. (IF client[c].at # "none" /\ client[c].server_conn = l THEN 1 ELSE 0) \in {0, 1}
      OBVIOUS
    <2> QED  BY <2>1, <2>2, <2>3, <2>4
  <1>6. /\ Cardinality(Registered(client')) = Cardinality(Registered(client))
              + (IF r.at \notin {"none", "accepted"} THEN 1 ELSE 0)
              - (IF client[c].at \notin {"none", "accepted"} THEN 1 ELSE 0)
        /\ Cardinality(Served(client')) = Cardinality(Served(client))
              + (IF r.at = "listening" THEN 1 ELSE 0) - (IF client[c].at = "listening" THEN 1 ELSE 0)
    BY <1>22 DEF Remade
  <1>7. /\ Cardinality(Registered(client)) \in Nat /\ Cardinality(Served(client)) \in Nat
        /\ Cardinality(Served(client')) <= Cardinality(Registered(client'))
        /\ Cardinality(Served(client')) \in Nat /\ Cardinality(Registered(client')) \in Nat
    BY ClientSets
  <1>8. clients' = Cardinality(Registered(client'))
    <2>1. CASE client[c].at # "accepted"
      <3>1. clients' = clients
        BY <1>1, <1>3, <2>1
      <3>2. Cardinality(Registered(client')) = Cardinality(Registered(client)) + 1 - 1
        BY <1>1, <1>6, <2>1
      <3> QED  BY <1>7, <3>1, <3>2 DEF DoorsInv
    <2>2. CASE client[c].at = "accepted"
      <3>1. clients' = clients + 1
        BY <1>1, <1>3, <2>2, DoorsAssumption
      <3>2. Cardinality(Registered(client')) = Cardinality(Registered(client)) + 1 - 0
        BY <1>1, <1>6, <2>2
      <3> QED  BY <1>7, <3>1, <3>2 DEF DoorsInv
    <2> QED  BY <2>1, <2>2
  <1>9. Cardinality(Served(client')) <= ClientLimit
    <2>1. CASE r.at = "listening" /\ client[c].at # "listening"
      <3>1. clients <= ClientLimit /\ clients' = clients
        BY <1>1, <2>1
      <3> QED  BY <1>3, <1>7, <1>8, <3>1
    <2>2. CASE r.at # "listening" \/ client[c].at = "listening"
      <3>1. PICK a, b \in {0, 1} : /\ a = IF r.at = "listening" THEN 1 ELSE 0
                                   /\ b = IF client[c].at = "listening" THEN 1 ELSE 0
        OBVIOUS
      <3>2. a <= b
        BY <2>2, <3>1
      <3>3. Cardinality(Served(client')) = Cardinality(Served(client)) + a - b
        BY <1>6, <3>1
      <3> QED  BY <1>3, <1>7, <3>2, <3>3 DEF DoorsInv
    <2> QED  BY <2>1, <2>2
  <1>10. /\ conf' = conf /\ old' = old /\ server_conn' = server_conn /\ listener' = listener
         /\ serversock' = serversock /\ seen' = seen /\ scan' = scan
    BY <1>2 DEF socketVars
  <1>11. SocketsRight' /\ ReadRight'
    BY <1>10 DEF DoorsInv, SocketsRight, ReadRight
  <1>12. \A l \in ListenSocks : listener'[l].refcount >=
           Kept(conf', old', server_conn', l) + Cardinality(Through(client', l))
    BY <1>5, <1>10 DEF DoorsInv
  <1>13. \A x \in Conns : client'[x].at # "none" =>
           listener'[client'[x].server_conn].port = client'[x].door
    BY <1>1, <1>3, <1>10 DEF DoorsInv
  <1> QED  BY <1>4, <1>8, <1>9, <1>11, <1>12, <1>13 DEF DoorsInv

LEMMA ComeStep ==
  ASSUME DoorsInv, NEW c \in Conns, NEW k \in ListenSocks, NEW i, Comes(c, k, i)
  PROVE  DoorsInv'
  <1>1. PICK r \in ClientRecords :
          /\ client' = [client EXCEPT ![c] = r]
          /\ r.at = "accepted" /\ r.server_conn = k /\ r.door = serversock[i]
    BY DEF Comes
  <1>2. /\ step \in {"serving", "replaced", "halting"} /\ accepting = Nobody
        /\ client[c].at = "none" /\ i \in DOMAIN server_conn /\ k = server_conn[i]
        /\ listener' = Recounted({k}, 1) /\ accepting' = c
        /\ conf' = conf /\ old' = old /\ clients' = clients /\ server_conn' = server_conn
        /\ serversock' = serversock /\ seen' = seen /\ scan' = scan /\ UNCHANGED socketVars
    BY DEF Comes, Listening, socketVars
  <1>3. /\ client \in [Conns -> ClientRecords] /\ clients \in Int
        /\ listener \in [ListenSocks -> ListenerRecords] /\ ClientLimit \in Nat
        /\ server_conn \in Seq(ListenSocks)
    BY DoorsTypes, DoorsAssumption DEF DoorsInv
  <1>4. /\ listener' \in [ListenSocks -> ListenerRecords]
        /\ \A l \in ListenSocks :
             /\ listener'[l].port = listener[l].port
             /\ listener'[l].refcount = IF l \in {k} THEN listener[l].refcount + 1
                                        ELSE listener[l].refcount
    BY <1>2, Recounting DEF DoorsInv
  <1>5. DoorsShape'
    <2>1. step \notin {"closing", "opening", "ended"} /\ clients' \in Int
      BY <1>2, <1>3
    <2> QED  BY <1>1, <1>2, <1>3, <1>4, <2>1, ClientShape DEF DoorsInv
  <1>20. client \in [Conns -> ClientRecords]
    BY <1>3
  <1>21. client' = [client EXCEPT ![c] = r]
    BY <1>1
  <1>22. Remade(client, c, r, client')
    BY <1>1, <1>2, <1>20, <1>21, OneClient
  <1>6. ASSUME NEW l \in ListenSocks
        PROVE  listener'[l].refcount >=
                 Kept(conf', old', server_conn', l) + Cardinality(Through(client', l))
    <2>1. Cardinality(Through(client', l)) = Cardinality(Through(client, l))
              + (IF r.at # "none" /\ r.server_conn = l THEN 1 ELSE 0)
              - (IF client[c].at # "none" /\ client[c].server_conn = l THEN 1 ELSE 0)
      BY <1>22 DEF Remade
    <2>2. Cardinality(Through(client, l)) \in Nat /\ listener[l].refcount \in Int
      BY <1>3, ClientSets DEF ListenerRecords
    <2>3. Kept(conf, old, server_conn, l) \in Nat
      BY <1>3, HoldersAre DEF DoorsInv, SocketsRight
    <2>4. listener[l].refcount >= Kept(conf, old, server_conn, l) + Cardinality(Through(client, l))
      BY DEF DoorsInv
    <2>5. CASE l = k
      <3>1. /\ Cardinality(Through(client', l)) = Cardinality(Through(client, l)) + 1 - 0
            /\ listener'[l].refcount = listener[l].refcount + 1
        BY <1>1, <1>2, <1>4, <2>1, <2>5
      <3> QED  BY <1>2, <2>2, <2>3, <2>4, <3>1
    <2>6. CASE l # k
      <3>1. /\ Cardinality(Through(client', l)) = Cardinality(Through(client, l)) + 0 - 0
            /\ listener'[l].refcount = listener[l].refcount
        BY <1>1, <1>2, <1>4, <2>1, <2>6
      <3> QED  BY <1>2, <2>2, <2>3, <2>4, <3>1
    <2> QED  BY <2>5, <2>6
  <1>7. /\ Cardinality(Registered(client')) = Cardinality(Registered(client)) + 0 - 0
        /\ Cardinality(Served(client')) = Cardinality(Served(client)) + 0 - 0
    <2>1. /\ Cardinality(Registered(client')) = Cardinality(Registered(client))
              + (IF r.at \notin {"none", "accepted"} THEN 1 ELSE 0)
              - (IF client[c].at \notin {"none", "accepted"} THEN 1 ELSE 0)
          /\ Cardinality(Served(client')) = Cardinality(Served(client))
              + (IF r.at = "listening" THEN 1 ELSE 0) - (IF client[c].at = "listening" THEN 1 ELSE 0)
      BY <1>22 DEF Remade
    <2> QED  BY <1>1, <1>2, <2>1
  <1>8. Cardinality(Registered(client)) \in Nat /\ Cardinality(Served(client)) \in Nat
    BY ClientSets
  <1>9. clients' = Cardinality(Registered(client')) /\ Cardinality(Served(client')) <= ClientLimit
    BY <1>2, <1>7, <1>8 DEF DoorsInv
  <1>10. SocketsRight' /\ ReadRight'
    <2>1. \A j \in DOMAIN server_conn : server_conn[j] \in ListenSocks
      BY <1>3
    <2>2. SocketsRight'
      BY <1>2, <1>4, <2>1 DEF DoorsInv, SocketsRight
    <2>3. seen = -1
      BY <1>2 DEF DoorsInv, DoorsShape
    <2> QED  BY <1>2, <2>2, <2>3 DEF ReadRight
  <1>11. \A x \in Conns : client'[x].at # "none" =>
           listener'[client'[x].server_conn].port = client'[x].door
    <2>1. listener'[k].port = serversock[i]
      BY <1>2, <1>4 DEF DoorsInv, SocketsRight
    <2>2. \A x \in Conns : client[x].at # "none" => client[x].server_conn \in ListenSocks
      BY DEF DoorsInv, DoorsShape, Here
    <2> QED  BY <1>1, <1>3, <1>4, <2>1, <2>2 DEF DoorsInv
  <1> QED  BY <1>5, <1>6, <1>9, <1>10, <1>11 DEF DoorsInv

LEMMA GoStep ==
  ASSUME DoorsInv, NEW c \in Conns, Goes(c)
  PROVE  DoorsInv'
  <1>1. PICK r : r = Absent
    OBVIOUS
  <1>2. r \in ClientRecords /\ r.at = "none"
    BY <1>1 DEF ClientRecords, Absent
  <1>3. /\ client \in [Conns -> ClientRecords] /\ clients \in Int
        /\ listener \in [ListenSocks -> ListenerRecords] /\ ClientLimit \in Nat
        /\ server_conn \in Seq(ListenSocks)
        /\ accepting = c <=> client[c].at = "accepted"
    BY DoorsTypes, DoorsAssumption DEF DoorsInv, DoorsShape
  <1>4. /\ client[c].at # "none" /\ client' = [client EXCEPT ![c] = r]
        /\ listener' = Recounted({client[c].server_conn}, -1)
        /\ \/ accepting = c /\ accepting' = Nobody /\ clients' = clients
           \/ client[c].at # "accepted" /\ accepting' = accepting /\ clients' = clients - 1
        /\ conf' = conf /\ old' = old /\ server_conn' = server_conn
        /\ serversock' = serversock /\ seen' = seen /\ scan' = scan /\ UNCHANGED socketVars
    BY <1>1 DEF Goes, socketVars
  <1>5. PICK k \in ListenSocks : k = client[c].server_conn
    BY <1>4 DEF DoorsInv, DoorsShape, Here
  <1>6. /\ listener' \in [ListenSocks -> ListenerRecords]
        /\ \A l \in ListenSocks :
             /\ listener'[l].port = listener[l].port
             /\ listener'[l].refcount = IF l \in {k} THEN listener[l].refcount + (-1)
                                        ELSE listener[l].refcount
    BY <1>4, <1>5, Recounting DEF DoorsInv
  <1>7. DoorsShape'
    <2>1. accepting' # c
      BY <1>3, <1>4, DoorsAssumption
    <2>2. step \in {"closing", "opening", "ended"} => accepting' = Nobody
      BY <1>4 DEF DoorsInv, DoorsShape
    <2>3. clients' \in Int
      BY <1>3, <1>4
    <2>4. (accepting' = Nobody \/ accepting' = accepting)
          /\ (accepting' # accepting => accepting \in {Nobody, c})
      BY <1>4
    <2> QED  BY <1>2, <1>4, <1>6, <2>1, <2>2, <2>3, <2>4, ClientShape DEF DoorsInv
  <1>20. client \in [Conns -> ClientRecords]
    BY <1>3
  <1>21. client' = [client EXCEPT ![c] = r]
    BY <1>4
  <1>22. Remade(client, c, r, client')
    BY <1>4, <1>2, <1>20, <1>21, OneClient
  <1>8. ASSUME NEW l \in ListenSocks
        PROVE  listener'[l].refcount >=
                 Kept(conf', old', server_conn', l) + Cardinality(Through(client', l))
    <2>1. Cardinality(Through(client', l)) = Cardinality(Through(client, l))
              + (IF r.at # "none" /\ r.server_conn = l THEN 1 ELSE 0)
              - (IF client[c].at # "none" /\ client[c].server_conn = l THEN 1 ELSE 0)
      BY <1>22 DEF Remade
    <2>2. Cardinality(Through(client, l)) \in Nat /\ listener[l].refcount \in Int
      BY <1>3, ClientSets DEF ListenerRecords
    <2>3. Kept(conf, old, server_conn, l) \in Nat
      BY <1>3, HoldersAre DEF DoorsInv, SocketsRight
    <2>4. listener[l].refcount >= Kept(conf, old, server_conn, l) + Cardinality(Through(client, l))
      BY DEF DoorsInv
    <2>5. CASE l = k
      <3>1. /\ Cardinality(Through(client', l)) = Cardinality(Through(client, l)) + 0 - 1
            /\ listener'[l].refcount = listener[l].refcount + (-1)
        BY <1>2, <1>4, <1>5, <1>6, <2>1, <2>5
      <3> QED  BY <1>4, <2>2, <2>3, <2>4, <3>1
    <2>6. CASE l # k
      <3>1. /\ Cardinality(Through(client', l)) = Cardinality(Through(client, l)) + 0 - 0
            /\ listener'[l].refcount = listener[l].refcount
        BY <1>2, <1>4, <1>5, <1>6, <2>1, <2>6
      <3> QED  BY <1>4, <2>2, <2>3, <2>4, <3>1
    <2> QED  BY <2>5, <2>6
  <1>9. /\ Cardinality(Registered(client')) = Cardinality(Registered(client)) + 0
              - (IF client[c].at \notin {"none", "accepted"} THEN 1 ELSE 0)
        /\ Cardinality(Served(client')) = Cardinality(Served(client))
              + 0 - (IF client[c].at = "listening" THEN 1 ELSE 0)
    <2>1. /\ Cardinality(Registered(client')) = Cardinality(Registered(client))
              + (IF r.at \notin {"none", "accepted"} THEN 1 ELSE 0)
              - (IF client[c].at \notin {"none", "accepted"} THEN 1 ELSE 0)
          /\ Cardinality(Served(client')) = Cardinality(Served(client))
              + (IF r.at = "listening" THEN 1 ELSE 0) - (IF client[c].at = "listening" THEN 1 ELSE 0)
      BY <1>22 DEF Remade
    <2> QED  BY <1>2, <2>1
  <1>10. Cardinality(Registered(client)) \in Nat /\ Cardinality(Served(client)) \in Nat
    BY ClientSets
  <1>11. clients' = Cardinality(Registered(client'))
    <2>1. CASE client[c].at = "accepted"
      <3>1. clients' = clients /\ Cardinality(Registered(client')) = Cardinality(Registered(client)) + 0 - 0
        BY <1>3, <1>4, <1>9, <2>1
      <3> QED  BY <1>10, <3>1 DEF DoorsInv
    <2>2. CASE client[c].at # "accepted"
      <3>1. /\ clients' = clients - 1
            /\ Cardinality(Registered(client')) = Cardinality(Registered(client)) + 0 - 1
        BY <1>3, <1>4, <1>9, <2>2
      <3> QED  BY <1>10, <3>1 DEF DoorsInv
    <2> QED  BY <2>1, <2>2
  <1>12. Cardinality(Served(client')) <= ClientLimit
    <2>1. PICK b \in {0, 1} : b = IF client[c].at = "listening" THEN 1 ELSE 0
      OBVIOUS
    <2>2. Cardinality(Served(client')) = Cardinality(Served(client)) + 0 - b
      BY <1>9, <2>1
    <2> QED  BY <1>3, <1>10, <2>2 DEF DoorsInv
  <1>13. SocketsRight' /\ ReadRight'
    <2>1. \A j \in DOMAIN server_conn : server_conn[j] \in ListenSocks
      BY <1>3
    <2>2. SocketsRight'
      BY <1>4, <1>6, <2>1 DEF DoorsInv, SocketsRight
    <2>3. ASSUME seen # -1  PROVE seen >= listener'[server_conn[scan]].refcount
      <3>1. seen >= listener[server_conn[scan]].refcount /\ scan \in DOMAIN server_conn
            /\ seen \in Int
        BY <1>3, <2>3, DoorsTypes DEF DoorsInv, ReadRight, DoorsShape
      <3>2. server_conn[scan] \in ListenSocks
        BY <2>1, <3>1
      <3>3. PICK m \in ListenSocks : m = server_conn[scan]
        BY <3>2
      <3>4. listener[m].refcount \in Int
        BY <1>3 DEF ListenerRecords
      <3>5. listener'[m].refcount <= listener[m].refcount
        BY <1>6, <3>4
      <3>6. listener'[m].refcount \in Int
        BY <1>6 DEF ListenerRecords
      <3> QED  BY <3>1, <3>3, <3>4, <3>5, <3>6
    <2> QED  BY <1>4, <2>2, <2>3 DEF ReadRight
  <1>14. \A x \in Conns : client'[x].at # "none" =>
           listener'[client'[x].server_conn].port = client'[x].door
    <2>2. \A x \in Conns : client[x].at # "none" => client[x].server_conn \in ListenSocks
      BY DEF DoorsInv, DoorsShape, Here
    <2> QED  BY <1>2, <1>3, <1>4, <1>6, <2>2 DEF DoorsInv
  <1> QED  BY <1>7, <1>8, <1>11, <1>12, <1>13, <1>14 DEF DoorsInv

OnSocket(sc, l) == \E i \in DOMAIN sc : sc[i] = l

LEMMA SocketStep ==
  ASSUME DoorsInv, client' = client, clients' = clients, DoorsShape', SocketsRight', ReadRight',
         \A l \in ListenSocks :
           \/ /\ listener'[l].port = listener[l].port
              /\ listener'[l].refcount - listener[l].refcount >=
                   Kept(conf', old', server_conn', l) - Kept(conf, old, server_conn, l)
           \/ /\ listener[l].refcount <= 0
              /\ listener'[l].refcount >= Kept(conf', old', server_conn', l)
  PROVE  DoorsInv'
  <1>1. ASSUME NEW l \in ListenSocks
        PROVE  /\ Cardinality(Through(client, l)) \in Nat /\ Kept(conf, old, server_conn, l) \in Nat
               /\ Kept(conf', old', server_conn', l) \in Nat
               /\ listener[l].refcount \in Int /\ listener'[l].refcount \in Int
               /\ listener[l].refcount >=
                    Kept(conf, old, server_conn, l) + Cardinality(Through(client, l))
    <2>1. /\ server_conn \in Seq(ListenSocks) /\ Distinct(server_conn)
          /\ server_conn' \in Seq(ListenSocks) /\ Distinct(server_conn')
          /\ listener \in [ListenSocks -> ListenerRecords]
          /\ listener' \in [ListenSocks -> ListenerRecords]
      BY DEF DoorsInv, SocketsRight, DoorsShape, DoorsTypeOK, ListenerRecords
    <2> QED  BY <2>1, ClientSets, HoldersAre DEF DoorsInv, ListenerRecords
  <1>2. \A l \in ListenSocks : listener'[l].refcount >=
           Kept(conf', old', server_conn', l) + Cardinality(Through(client', l))
    <2> TAKE l \in ListenSocks
    <2>1. PICK t, k, k2, n, n2 :
            /\ t = Cardinality(Through(client, l)) /\ k = Kept(conf, old, server_conn, l)
            /\ k2 = Kept(conf', old', server_conn', l)
            /\ n = listener[l].refcount /\ n2 = listener'[l].refcount
      OBVIOUS
    <2>2. /\ t \in Nat /\ k \in Nat /\ k2 \in Nat /\ n \in Int /\ n2 \in Int /\ n >= k + t
          /\ n2 - n >= k2 - k \/ (n <= 0 /\ n2 >= k2)
      BY <1>1, <2>1
    <2>3. n2 >= k2 + t
      BY <2>2
    <2> QED  BY <2>1, <2>3
  <1>3. ASSUME NEW c \in Conns, client'[c].at # "none"
        PROVE  listener'[client'[c].server_conn].port = client'[c].door
    <2>1. PICK l \in ListenSocks : l = client[c].server_conn
      BY <1>3 DEF DoorsInv, DoorsShape, Here
    <2>2. Through(client, l) # {}
      BY <1>3, <2>1 DEF Through
    <2>3. Cardinality(Through(client, l)) # 0
      BY <2>2, ClientSets, FS_EmptySet
    <2>4. listener[l].refcount > 0
      BY <1>1, <2>3
    <2>5. listener'[l].port = listener[l].port
      BY <1>1, <2>4
    <2> QED  BY <1>3, <2>1, <2>5 DEF DoorsInv
  <1> QED  BY <1>2, <1>3 DEF DoorsInv

LEMMA HeldHere ==
  ASSUME DoorsInv
  PROVE  /\ \A i \in DOMAIN server_conn : server_conn[i] \in ListenSocks
                                          /\ listener[server_conn[i]].refcount > 0
         /\ \A l \in ListenSocks : listener[l].refcount <= 0 =>
              l \notin conf /\ l \notin old /\ ~OnSocket(server_conn, l)
  <1>1. server_conn \in Seq(ListenSocks) /\ listener \in [ListenSocks -> ListenerRecords]
    BY DoorsTypes DEF DoorsInv
  <1>2. ASSUME NEW l \in ListenSocks, listener[l].refcount <= 0
        PROVE  l \notin conf /\ l \notin old /\ ~OnSocket(server_conn, l)
    <2>1. PICK a, b, s \in {0, 1} :
            /\ a = IF l \in conf THEN 1 ELSE 0
            /\ b = IF l \in old THEN 1 ELSE 0
            /\ s = IF OnSocket(server_conn, l) THEN 1 ELSE 0
      OBVIOUS
    <2>2. Kept(conf, old, server_conn, l) = a + b + s
      BY <2>1 DEF Kept, OnSocket
    <2>3. PICK t \in Nat, n \in Int : t = Cardinality(Through(client, l)) /\ n = listener[l].refcount
      BY <1>1, ClientSets DEF ListenerRecords
    <2>4. n >= a + b + s + t
      BY <2>2, <2>3 DEF DoorsInv
    <2>5. a = 0 /\ b = 0 /\ s = 0
      BY <1>2, <2>3, <2>4
    <2> QED  BY <2>1, <2>5
  <1>3. \A i \in DOMAIN server_conn : server_conn[i] \in ListenSocks
    BY <1>1
  <1>4. ASSUME NEW i \in DOMAIN server_conn  PROVE listener[server_conn[i]].refcount > 0
    <2>1. OnSocket(server_conn, server_conn[i])
      BY DEF OnSocket
    <2>2. listener[server_conn[i]].refcount \in Int
      BY <1>1, <1>3 DEF ListenerRecords
    <2> QED  BY <1>2, <1>3, <2>1, <2>2
  <1> QED  BY <1>2, <1>3, <1>4

(* Each step of the slave thread.                                          *)
LEMMA QuietStep ==
  ASSUME DoorsInv, Halts \/ ThreadStops \/ LeavesOpen \/ ReadsCount
  PROVE  DoorsInv'
  <1>1. /\ listener' = listener /\ conf' = conf /\ old' = old /\ serversock' = serversock
        /\ server_conn' = server_conn /\ accepting' = accepting /\ client' = client
        /\ clients' = clients /\ reloads' = reloads
    BY DEF Halts, ThreadStops, LeavesOpen, ReadsCount, Steps
  <1>2. /\ scan \in Nat /\ scan >= 1 /\ server_conn \in Seq(ListenSocks)
        /\ Len(serversock) = Len(server_conn)
    BY DoorsTypes DEF DoorsInv, DoorsShape, SocketsRight
  <1>3. ReadsCount => /\ scan \in DOMAIN server_conn
                      /\ listener[server_conn[scan]].refcount \in Int
                      /\ listener[server_conn[scan]].refcount >= 0
    <2> SUFFICES ASSUME ReadsCount
                 PROVE  /\ scan \in DOMAIN server_conn
                        /\ listener[server_conn[scan]].refcount \in Int
                        /\ listener[server_conn[scan]].refcount >= 0
      OBVIOUS
    <2>1. scan \in DOMAIN server_conn
      BY <1>2 DEF ReadsCount
    <2>2. server_conn[scan] \in ListenSocks /\ listener[server_conn[scan]].refcount > 0
      BY <2>1, HeldHere
    <2>3. listener[server_conn[scan]].refcount \in Int
      BY <2>2, DoorsTypes DEF DoorsInv, ListenerRecords
    <2> QED  BY <2>1, <2>2, <2>3
  <1>4. DoorsTypeOK'
    BY <1>1, <1>2, <1>3 DEF DoorsInv, DoorsShape, DoorsTypeOK, Halts, ThreadStops, LeavesOpen,
                            ReadsCount
  <1>5. /\ scan' >= 1 /\ mc_running' \in BOOLEAN
        /\ step' \in {"serving", "replaced", "halting", "closing", "opening", "ended"}
    <2>1. scan' = scan \/ scan' = 1 \/ scan' = scan + 1
      BY DEF Halts, ThreadStops, LeavesOpen, ReadsCount
    <2>2. mc_running' = mc_running \/ mc_running' = FALSE
      BY DEF Halts, ThreadStops, LeavesOpen, ReadsCount
    <2>3. step' = step \/ step' \in {"halting", "closing"}
      BY DEF Halts, ThreadStops, LeavesOpen, ReadsCount, Steps
    <2>4. scan' >= 1
      BY <1>2, <2>1
    <2>5. mc_running' \in BOOLEAN
      BY <2>2, Zenon DEF DoorsInv, DoorsShape
    <2> QED  BY <2>3, <2>4, <2>5 DEF DoorsInv, DoorsShape
  <1>6. step' \in {"closing", "opening", "ended"} => accepting' = Nobody
    BY <1>1 DEF DoorsInv, DoorsShape, Halts, ThreadStops, LeavesOpen, ReadsCount, Steps
  <1>7. old' # {} => step' \in {"replaced", "closing"}
    BY <1>1 DEF DoorsInv, DoorsShape, Halts, ThreadStops, LeavesOpen, ReadsCount, Steps
  <1>8. seen' # -1 => step' = "closing" /\ scan' <= Len(server_conn')
    BY <1>1, <1>2 DEF DoorsInv, DoorsShape, Halts, ThreadStops, LeavesOpen, ReadsCount, Steps
  <1>9. DoorsShape'
    BY <1>1, <1>4, <1>5, <1>6, <1>7, <1>8 DEF DoorsInv, DoorsShape, Here
  <1>10. SocketsRight'
    BY <1>1 DEF DoorsInv, SocketsRight
  <1>11. ReadRight'
    <2>1. CASE ReadsCount
      BY <1>1, <1>3, <2>1 DEF ReadsCount, ReadRight
    <2>2. CASE Halts \/ ThreadStops \/ LeavesOpen
      BY <1>1, <2>2 DEF Halts, ThreadStops, LeavesOpen, Steps, DoorsInv, DoorsShape, ReadRight
    <2> QED  BY <2>1, <2>2
  <1>12. \A l \in ListenSocks : listener'[l].refcount >=
           Kept(conf', old', server_conn', l) + Cardinality(Through(client', l))
    BY <1>1 DEF DoorsInv
  <1> QED  BY <1>1, <1>9, <1>10, <1>11, <1>12 DEF DoorsInv

(* The old settings are cleared, and the sockets closed.                   *)
LEMMA ClearStep ==
  ASSUME DoorsInv, ClearsOld
  PROVE  DoorsInv'
  <1>1. PICK ls : ls = IF mc_running THEN old ELSE conf
    OBVIOUS
  <1>2. /\ step = "closing" /\ seen = -1 /\ step' \in {"opening", "ended"}
        /\ listener' = Recounted(ls, -1) /\ old' = {}
        /\ conf' = (IF mc_running THEN conf ELSE {})
        /\ UNCHANGED <<serversock, server_conn, accepting, client, clients, scan, seen, mc_running>>
    BY <1>1 DEF ClearsOld
  <1>3. /\ listener' \in [ListenSocks -> ListenerRecords]
        /\ \A l \in ListenSocks :
             /\ listener'[l].port = listener[l].port
             /\ listener'[l].refcount = IF l \in ls THEN listener[l].refcount + (-1)
                                        ELSE listener[l].refcount
    BY <1>2, Recounting DEF DoorsInv
  <1>4. DoorsShape'
    <2>1. DoorsTypeOK'
      BY <1>2, <1>3 DEF DoorsInv, DoorsShape, DoorsTypeOK, ListenerRecords
    <2> QED  BY <1>2, <2>1 DEF DoorsInv, DoorsShape, Here
  <1>5. SocketsRight' /\ ReadRight'
    <2>1. \A i \in DOMAIN server_conn : server_conn[i] \in ListenSocks
      BY DoorsTypes DEF DoorsInv
    <2> QED  BY <1>2, <1>3, <2>1 DEF DoorsInv, SocketsRight, ReadRight
  <1>6. ASSUME NEW l \in ListenSocks
        PROVE  /\ listener'[l].port = listener[l].port
               /\ listener'[l].refcount - listener[l].refcount >=
                    Kept(conf', old', server_conn', l) - Kept(conf, old, server_conn, l)
    <2>1. PICK a, b, s, a2, n \in Int :
            /\ a = IF l \in conf THEN 1 ELSE 0
            /\ b = IF l \in old THEN 1 ELSE 0
            /\ s = IF OnSocket(server_conn, l) THEN 1 ELSE 0
            /\ a2 = IF l \in conf' THEN 1 ELSE 0
            /\ n = listener[l].refcount
      BY DoorsTypes DEF DoorsInv, ListenerRecords
    <2>2. Kept(conf, old, server_conn, l) = a + b + s /\ Kept(conf', old', server_conn', l) = a2 + 0 + s
      BY <1>2, <2>1 DEF Kept, OnSocket
    <2>3. CASE mc_running
      <3>1. a2 = a /\ listener'[l].refcount = n - b
        BY <1>1, <1>2, <1>3, <2>1, <2>3
      <3>2. (n - b) - n >= (a2 + 0 + s) - (a + b + s)
        BY <2>1, <3>1
      <3> QED  BY <1>3, <2>1, <2>2, <3>1, <3>2
    <2>4. CASE ~mc_running
      <3>1. a2 = 0 /\ listener'[l].refcount = n - a
        BY <1>1, <1>2, <1>3, <2>1, <2>4
      <3>2. (n - a) - n >= (a2 + 0 + s) - (a + b + s)
        BY <2>1, <3>1
      <3> QED  BY <1>3, <2>1, <2>2, <3>1, <3>2
    <2> QED  BY <2>3, <2>4
  <1> QED  BY <1>2, <1>4, <1>5, <1>6, SocketStep


LEMMA CloseStep ==
  ASSUME DoorsInv, Closes
  PROVE  DoorsInv'
  <1>1. /\ step = "closing" /\ seen # -1 /\ seen' = -1
        /\ listener' = [listener EXCEPT ![server_conn[scan]].refcount = seen - 1]
        /\ serversock' = RemoveAt(serversock, scan) /\ server_conn' = RemoveAt(server_conn, scan)
        /\ UNCHANGED <<conf, old, accepting, client, clients, step, scan, mc_running>>
    BY DEF Closes
  <1>2. /\ server_conn \in Seq(ListenSocks) /\ serversock \in Seq(Ports)
        /\ Len(serversock) = Len(server_conn) /\ scan \in 1..Len(server_conn) /\ seen \in Int
        /\ listener \in [ListenSocks -> ListenerRecords]
    BY <1>1, DoorsTypes DEF DoorsInv, DoorsShape, SocketsRight
  <1>3. PICK k \in ListenSocks : k = server_conn[scan]
    BY <1>2
  <1>4. /\ server_conn' \in Seq(ListenSocks) /\ Len(server_conn') = Len(server_conn) - 1
        /\ \A j \in 1..(Len(server_conn) - 1) :
             server_conn'[j] = IF j < scan THEN server_conn[j] ELSE server_conn[j + 1]
    BY <1>1, <1>2, Removing
  <1>5. /\ serversock' \in Seq(Ports) /\ Len(serversock') = Len(server_conn) - 1
        /\ \A j \in 1..(Len(server_conn) - 1) :
             serversock'[j] = IF j < scan THEN serversock[j] ELSE serversock[j + 1]
    BY <1>1, <1>2, Removing
  <1>6. /\ listener' \in [ListenSocks -> ListenerRecords]
        /\ \A l \in ListenSocks :
             /\ listener'[l].port = listener[l].port
             /\ listener'[l].refcount = IF l = k THEN seen - 1 ELSE listener[l].refcount
    <2>1. PICK r \in ListenerRecords : r = listener[k]
      BY <1>2, <1>3
    <2>2. PICK n \in Int : n = seen - 1
      BY <1>2
    <2>3. PICK q : q = [r EXCEPT !.refcount = n]
      OBVIOUS
    <2>4. q \in ListenerRecords /\ q.port = r.port /\ q.refcount = n
      BY <2>1, <2>3 DEF ListenerRecords
    <2>5. listener' = [listener EXCEPT ![k] = q]
      BY <1>1, <1>3, <2>1, <2>2, <2>3
    <2> QED  BY <1>2, <1>3, <2>1, <2>2, <2>4, <2>5
  <1>7. DoorsShape'
    <2>1. DoorsTypeOK'
      BY <1>1, <1>2, <1>4, <1>5, <1>6 DEF DoorsInv, DoorsShape, DoorsTypeOK, ListenerRecords
    <2> QED  BY <1>1, <2>1 DEF DoorsInv, DoorsShape, Here
  (* Where each of the places was before. *)
  <1>8. PICK w : w = [j \in 1..(Len(server_conn) - 1) |-> IF j < scan THEN j ELSE j + 1]
    OBVIOUS
  <1>9. /\ DOMAIN server_conn' = 1..(Len(server_conn) - 1) /\ DOMAIN server_conn = 1..Len(server_conn)
        /\ \A j \in 1..(Len(server_conn) - 1) :
             /\ w[j] \in 1..Len(server_conn) /\ w[j] # scan
             /\ server_conn'[j] = server_conn[w[j]] /\ serversock'[j] = serversock[w[j]]
        /\ \A i, j \in 1..(Len(server_conn) - 1) : w[i] = w[j] => i = j
        /\ \A i \in 1..Len(server_conn) : i # scan =>
             \E j \in 1..(Len(server_conn) - 1) : w[j] = i
    <2>1. PICK n \in Nat : n = Len(server_conn)
      BY <1>2
    <2>2. DOMAIN server_conn' = 1..(n - 1) /\ DOMAIN server_conn = 1..n
      BY <1>2, <1>4, <2>1
    <2>3. \A j \in 1..(n - 1) : w[j] = IF j < scan THEN j ELSE j + 1
      BY <1>8, <2>1
    <2>4. \A j \in 1..(n - 1) :
            /\ w[j] \in 1..n /\ w[j] # scan
            /\ server_conn'[j] = server_conn[w[j]] /\ serversock'[j] = serversock[w[j]]
      BY <1>2, <1>4, <1>5, <2>1, <2>3
    <2>5. \A i, j \in 1..(n - 1) : w[i] = w[j] => i = j
      BY <1>2, <2>1, <2>3
    <2>6. \A i \in 1..n : i # scan => \E j \in 1..(n - 1) : w[j] = i
      <3> TAKE i \in 1..n
      <3>1. CASE i < scan
        BY <1>2, <2>1, <2>3, <3>1
      <3>2. CASE i > scan
        <4>1. i - 1 \in 1..(n - 1) /\ ~(i - 1 < scan) /\ i - 1 + 1 = i
          BY <1>2, <2>1, <3>2
        <4> QED  BY <2>3, <4>1
      <3> QED  BY <1>2, <3>1, <3>2
    <2> QED  BY <2>1, <2>2, <2>4, <2>5, <2>6
  <1>10. SocketsRight'
    <2>1. \A j \in DOMAIN server_conn' : server_conn[w[j]] \in ListenSocks
      BY <1>2, <1>9
    <2>2. Distinct(server_conn')
      <3>1. \A i, j \in 1..Len(server_conn) : server_conn[i] = server_conn[j] => i = j
        BY <1>9 DEF DoorsInv, SocketsRight, Distinct
      <3>2. ASSUME NEW i \in DOMAIN server_conn', NEW j \in DOMAIN server_conn',
                   server_conn'[i] = server_conn'[j]
            PROVE  i = j
        <4>1. w[i] = w[j]
          BY <1>9, <3>1, <3>2
        <4> QED  BY <1>9, <4>1
      <3> QED  BY <3>2 DEF Distinct
    <2>3. \A j \in DOMAIN server_conn : listener[server_conn[j]].port = serversock[j]
      BY DEF DoorsInv, SocketsRight
    <2>4. ASSUME NEW i \in DOMAIN server_conn'
          PROVE  listener'[server_conn'[i]].port = serversock'[i]
      <3>1. w[i] \in DOMAIN server_conn /\ server_conn'[i] = server_conn[w[i]]
            /\ serversock'[i] = serversock[w[i]]
        BY <1>9
      <3>2. listener'[server_conn'[i]].port = listener[server_conn[w[i]]].port
        BY <1>6, <2>1, <3>1
      <3> QED  BY <2>3, <3>1, <3>2
    <2>5. Len(server_conn') = Len(serversock')
      BY <1>4, <1>5
    <2> QED  BY <2>2, <2>4, <2>5 DEF SocketsRight
  <1>11. ReadRight'
    BY <1>1 DEF ReadRight
  <1>12. \A l \in ListenSocks : OnSocket(server_conn', l) <=> OnSocket(server_conn, l) /\ l # k
    <2> TAKE l \in ListenSocks
    <2>1. ASSUME OnSocket(server_conn', l)  PROVE OnSocket(server_conn, l) /\ l # k
      <3>1. PICK j \in 1..(Len(server_conn) - 1) : server_conn'[j] = l
        BY <1>9, <2>1 DEF OnSocket
      <3>2. w[j] \in DOMAIN server_conn /\ w[j] # scan /\ server_conn[w[j]] = l
        BY <1>9, <3>1
      <3>3. OnSocket(server_conn, l)
        BY <3>2 DEF OnSocket
      <3>4. l # k
        BY <1>2, <1>3, <1>9, <3>2 DEF DoorsInv, SocketsRight, Distinct
      <3> QED  BY <3>3, <3>4
    <2>2. ASSUME OnSocket(server_conn, l), l # k  PROVE OnSocket(server_conn', l)
      <3>1. PICK i \in 1..Len(server_conn) : server_conn[i] = l /\ i # scan
        BY <1>3, <1>9, <2>2 DEF OnSocket
      <3>2. PICK j \in 1..(Len(server_conn) - 1) : w[j] = i
        BY <1>9, <3>1
      <3> QED  BY <1>9, <3>1, <3>2 DEF OnSocket
    <2> QED  BY <2>1, <2>2
  <1>13. OnSocket(server_conn, k)
    BY <1>2, <1>3 DEF OnSocket
  <1>14. ASSUME NEW l \in ListenSocks
         PROVE  /\ listener'[l].port = listener[l].port
                /\ listener'[l].refcount - listener[l].refcount >=
                     Kept(conf', old', server_conn', l) - Kept(conf, old, server_conn, l)
    <2>1. PICK a, b, s, s2, n \in Int :
            /\ a = IF l \in conf THEN 1 ELSE 0
            /\ b = IF l \in old THEN 1 ELSE 0
            /\ s = IF OnSocket(server_conn, l) THEN 1 ELSE 0
            /\ s2 = IF OnSocket(server_conn', l) THEN 1 ELSE 0
            /\ n = listener[l].refcount
      BY <1>2 DEF ListenerRecords
    <2>2. /\ Kept(conf, old, server_conn, l) = a + b + s
          /\ Kept(conf', old', server_conn', l) = a + b + s2
      BY <1>1, <2>1 DEF Kept, OnSocket
    <2>3. CASE l = k
      <3>1. s = 1 /\ s2 = 0 /\ listener'[l].refcount = seen - 1 /\ seen >= n
        BY <1>1, <1>3, <1>6, <1>12, <1>13, <2>1, <2>3 DEF DoorsInv, ReadRight
      <3>2. (seen - 1) - n >= (a + b + s2) - (a + b + s)
        BY <1>2, <2>1, <3>1
      <3> QED  BY <1>6, <2>1, <2>2, <3>1, <3>2
    <2>4. CASE l # k
      <3>1. s = s2 /\ listener'[l].refcount = n
        BY <1>6, <1>12, <2>1, <2>4
      <3>2. n - n >= (a + b + s2) - (a + b + s)
        BY <2>1, <3>1
      <3> QED  BY <1>6, <2>1, <2>2, <3>1, <3>2
    <2> QED  BY <2>3, <2>4
  <1> QED  BY <1>1, <1>7, <1>10, <1>11, <1>14, SocketStep

(* Sequences over a larger set, and joined.                                *)
LEMMA SeqWithin ==
  ASSUME NEW S, NEW T, S \subseteq T, NEW s \in Seq(S)
  PROVE  s \in Seq(T)
  OBVIOUS

LEMMA Joining ==
  ASSUME NEW T, NEW a \in Seq(T), NEW b \in Seq(T)
  PROVE  a \o b \in Seq(T) /\ Len(a \o b) = Len(a) + Len(b)
  OBVIOUS

(* The settings are replaced, and the sockets opened again.                *)
LEMMA ReloadStep ==
  ASSUME DoorsInv, Reload
  PROVE  DoorsInv'
  <1>0. PICK ports \in SUBSET Ports \ {{}} :
          LET f == Fresh(ports, ListenSocks \ Allocated) IN
          /\ Cardinality(ports) <= Cardinality(ListenSocks \ Allocated)
          /\ conf' = Range(f)
          /\ listener' = [l \in ListenSocks |->
                            IF l \in Range(f)
                            THEN [port |-> CHOOSE p \in ports : f[p] = l, refcount |-> 1]
                            ELSE listener[l]]
    BY DEF Reload
  <1>1. PICK f :
          /\ f = Fresh(ports, ListenSocks \ Allocated)
          /\ Cardinality(ports) <= Cardinality(ListenSocks \ Allocated)
          /\ conf' = Range(f)
          /\ listener' = [l \in ListenSocks |->
                            IF l \in Range(f)
                            THEN [port |-> CHOOSE p \in ports : f[p] = l, refcount |-> 1]
                            ELSE listener[l]]
    BY <1>0
  <1>2. /\ mc_running /\ step = "serving" /\ step' = "replaced" /\ old' = conf
        /\ UNCHANGED <<serversock, server_conn, accepting, client, clients, scan, seen, mc_running>>
    BY DEF Reload, Steps
  <1>3. old = {} /\ seen = -1
    BY <1>2 DEF DoorsInv, DoorsShape
  <1>4. f \in [ports -> ListenSocks \ Allocated]
    <2>1. IsFiniteSet(ports) /\ IsFiniteSet(ListenSocks \ Allocated)
      BY DoorsAssumption, FS_Subset
    <2> QED  BY <1>1, <2>1, FreshInjects
  <1>5. \A l \in Range(f) : /\ l \in ListenSocks /\ ~(listener[l].refcount > 0)
                            /\ (CHOOSE p \in ports : f[p] = l) \in Ports
    <2> TAKE l \in Range(f)
    <2>1. PICK p \in ports : f[p] = l
      BY <1>4 DEF Range
    <2>2. (CHOOSE q \in ports : f[q] = l) \in ports
      BY <2>1
    <2>3. l \in ListenSocks \ Allocated
      BY <1>4, <2>1
    <2> QED  BY <2>2, <2>3 DEF Allocated
  <1>6. listener \in [ListenSocks -> ListenerRecords] /\ server_conn \in Seq(ListenSocks)
        /\ conf \subseteq ListenSocks
    BY DoorsTypes DEF DoorsInv
  <1>7. /\ listener' \in [ListenSocks -> ListenerRecords]
        /\ \A l \in ListenSocks :
             /\ l \in Range(f) => listener'[l].refcount = 1
             /\ l \notin Range(f) => listener'[l] = listener[l]
    <2>1. \A l \in ListenSocks : listener'[l] \in ListenerRecords
      <3> TAKE l \in ListenSocks
      <3>1. CASE l \in Range(f)
        <4>1. PICK p \in Ports : p = CHOOSE q \in ports : f[q] = l
          BY <1>5, <3>1
        <4>2. [port |-> p, refcount |-> 1] \in ListenerRecords
          BY DEF ListenerRecords
        <4>3. listener'[l] = [port |-> p, refcount |-> 1]
          BY <1>1, <3>1, <4>1
        <4> QED  BY <4>2, <4>3
      <3>2. CASE l \notin Range(f)
        <4>1. listener'[l] = listener[l]
          BY <1>1, <3>2
        <4> QED  BY <1>6, <4>1
      <3> QED  BY <3>1, <3>2
    <2>2. \A l \in ListenSocks : /\ l \in Range(f) => listener'[l].refcount = 1
                                 /\ l \notin Range(f) => listener'[l] = listener[l]
      BY <1>1
    <2> QED  BY <1>1, <2>1, <2>2
  <1>8. DoorsShape'
    <2>1. Range(f) \subseteq ListenSocks
      BY <1>5
    <2>2. DoorsTypeOK'
      BY <1>1, <1>2, <1>6, <1>7, <2>1 DEF DoorsInv, DoorsShape, DoorsTypeOK, ListenerRecords
    <2> QED  BY <1>2, <1>3, <2>2 DEF DoorsInv, DoorsShape, Here
  <1>9. SocketsRight' /\ ReadRight'
    <2>1. \A i \in DOMAIN server_conn : server_conn[i] \in ListenSocks /\ server_conn[i] \notin Range(f)
      BY <1>5, HeldHere
    <2> QED  BY <1>2, <1>3, <1>7, <2>1 DEF DoorsInv, SocketsRight, ReadRight
  <1>10. ASSUME NEW l \in ListenSocks
         PROVE  \/ /\ listener'[l].port = listener[l].port
                   /\ listener'[l].refcount - listener[l].refcount >=
                        Kept(conf', old', server_conn', l) - Kept(conf, old, server_conn, l)
                \/ /\ listener[l].refcount <= 0
                   /\ listener'[l].refcount >= Kept(conf', old', server_conn', l)
    <2>1. PICK a, s, n \in Int :
            /\ a = IF l \in conf THEN 1 ELSE 0
            /\ s = IF OnSocket(server_conn, l) THEN 1 ELSE 0
            /\ n = listener[l].refcount
      BY <1>6 DEF ListenerRecords
    <2>2. CASE l \in Range(f)
      <3>1. n <= 0
        BY <1>5, <2>1, <2>2
      <3>2. a = 0 /\ s = 0 /\ l \notin conf
        BY <2>1, <3>1, HeldHere
      <3>3. Kept(conf', old', server_conn', l) = 1 + 0 + s
        BY <1>1, <1>2, <2>1, <2>2, <3>2 DEF Kept, OnSocket
      <3>4. listener'[l].refcount = 1
        BY <1>7, <2>2
      <3> QED  BY <2>1, <3>1, <3>2, <3>3, <3>4
    <2>3. CASE l \notin Range(f)
      <3>1. /\ Kept(conf', old', server_conn', l) = 0 + a + s
            /\ Kept(conf, old, server_conn, l) = a + 0 + s
        BY <1>1, <1>2, <1>3, <2>1, <2>3 DEF Kept, OnSocket
      <3>2. listener'[l] = listener[l]
        BY <1>7, <2>3
      <3>3. n - n >= (0 + a + s) - (a + 0 + s)
        BY <2>1
      <3> QED  BY <2>1, <3>1, <3>2, <3>3
    <2> QED  BY <2>2, <2>3
  <1> QED  BY <1>2, <1>8, <1>9, <1>10, SocketStep

LEMMA OpenStep ==
  ASSUME DoorsInv, Opens
  PROVE  DoorsInv'
  <1>1. PICK bound \in SUBSET {l \in conf : listener[l].port \notin Range(serversock)} :
          /\ conf' = bound
          /\ serversock' = serversock \o [i \in 1..Cardinality(bound) |->
                                            listener[SetToSeq(bound)[i]].port]
          /\ server_conn' = SubSeq(server_conn, 1, Len(serversock)) \o SetToSeq(bound)
          /\ listener' = [l \in ListenSocks |->
                            IF l \in bound THEN [listener[l] EXCEPT !.refcount = @ + 1]
                            ELSE IF l \in conf THEN [listener[l] EXCEPT !.refcount = @ - 1]
                            ELSE listener[l]]
    BY DEF Opens
  <1>2. /\ step = "opening" /\ step' = "serving"
        /\ UNCHANGED <<old, accepting, client, clients, scan, seen, mc_running>>
    BY DEF Opens, Steps
  <1>3. old = {} /\ seen = -1
    BY <1>2 DEF DoorsInv, DoorsShape
  <1>4. /\ listener \in [ListenSocks -> ListenerRecords] /\ server_conn \in Seq(ListenSocks)
        /\ serversock \in Seq(Ports) /\ conf \subseteq ListenSocks /\ bound \subseteq conf
        /\ Len(serversock) = Len(server_conn)
    BY <1>1, DoorsTypes DEF DoorsInv, SocketsRight
  <1>5. IsFiniteSet(bound) /\ bound \subseteq ListenSocks
    BY <1>4, DoorsAssumption, FS_Subset
  <1>6. PICK s \in Seq(ListenSocks), m \in Nat, n \in Nat :
          /\ s = SetToSeq(bound) /\ m = Cardinality(bound) /\ n = Len(server_conn)
          /\ Len(s) = m /\ DOMAIN s = 1..m
          /\ \A i \in 1..m : s[i] \in bound
          /\ \A i, j \in 1..m : s[i] = s[j] => i = j
          /\ \A x \in bound : \E i \in 1..m : s[i] = x
    <2>1. /\ SetToSeq(bound) \in Seq(bound) /\ Len(SetToSeq(bound)) = Cardinality(bound)
          /\ Cardinality(bound) \in Nat
          /\ DOMAIN SetToSeq(bound) = 1..Cardinality(bound)
          /\ \A i, j \in 1..Cardinality(bound) : SetToSeq(bound)[i] = SetToSeq(bound)[j] => i = j
          /\ \A x \in bound : \E i \in 1..Cardinality(bound) : SetToSeq(bound)[i] = x
      BY <1>5, SeqOfSet
    <2>7. Len(server_conn) \in Nat
      BY <1>4
    <2>8. PICK s : s = SetToSeq(bound)
      OBVIOUS
    <2>9. PICK m \in Nat : m = Cardinality(bound)
      BY <2>1
    <2>10. PICK n \in Nat : n = Len(server_conn)
      BY <2>7
    <2>2. s = SetToSeq(bound) /\ m = Cardinality(bound) /\ n = Len(server_conn)
      BY <2>8, <2>9, <2>10
    <2>3. s \in Seq(bound) /\ Len(s) = m /\ DOMAIN s = 1..m
      BY <2>1, <2>2
    <2>4. \A i \in 1..m : s[i] \in bound
      BY <2>3
    <2>5. s \in Seq(ListenSocks)
      BY <1>5, <2>3, SeqWithin
    <2> QED  BY <2>1, <2>2, <2>3, <2>4, <2>5
  <1>7. PICK t : t = [i \in 1..m |-> listener[s[i]].port]
    OBVIOUS
  <1>8. t \in Seq(Ports) /\ Len(t) = m /\ \A i \in 1..m : t[i] = listener[s[i]].port
    <2>1. \A i \in 1..m : listener[s[i]].port \in Ports
      BY <1>4, <1>5, <1>6 DEF ListenerRecords
    <2> QED  BY <1>6, <1>7, <2>1
  <1>9. serversock' = serversock \o t /\ server_conn' = server_conn \o s
    <2>1. SubSeq(server_conn, 1, Len(serversock)) = server_conn
      BY <1>4
    <2>2. serversock' = serversock \o t
      BY <1>1, <1>6, <1>7
    <2> QED  BY <1>1, <1>6, <2>1, <2>2
  <1>10. /\ server_conn' \in Seq(ListenSocks) /\ serversock' \in Seq(Ports)
         /\ Len(server_conn') = n + m /\ Len(serversock') = n + m
         /\ DOMAIN server_conn' = 1..(n + m) /\ DOMAIN server_conn = 1..n
    <2>1. server_conn' \in Seq(ListenSocks) /\ serversock' \in Seq(Ports)
      BY <1>4, <1>6, <1>8, <1>9
    <2>2. Len(server_conn) = n /\ Len(serversock) = n /\ Len(s) = m /\ Len(t) = m
      BY <1>4, <1>6, <1>8
    <2>7. /\ Len(server_conn \o s) = Len(server_conn) + Len(s)
          /\ Len(serversock \o t) = Len(serversock) + Len(t)
      <3>1. serversock \in Seq(Ports) /\ t \in Seq(Ports)
        BY <1>4, <1>8
      <3>2. Len(serversock \o t) = Len(serversock) + Len(t)
        BY <3>1, Joining
      <3>3. Len(server_conn \o s) = Len(server_conn) + Len(s)
        BY <1>4, <1>6, Joining
      <3> QED  BY <3>2, <3>3
    <2>3. Len(server_conn') = n + m
      BY <1>9, <2>2, <2>7
    <2>4. Len(serversock') = n + m
      BY <1>9, <2>2, <2>7
    <2>5. DOMAIN server_conn = 1..n
      BY <1>4, <2>2
    <2>6. DOMAIN server_conn' = 1..(n + m)
      BY <2>1, <2>3
    <2> QED  BY <2>1, <2>3, <2>4, <2>5, <2>6
  <1>11. /\ \A i \in 1..n : server_conn'[i] = server_conn[i] /\ serversock'[i] = serversock[i]
         /\ \A i \in 1..(n + m) : i \notin 1..n =>
              i - n \in 1..m /\ server_conn'[i] = s[i - n] /\ serversock'[i] = t[i - n]
    <2>1. /\ Len(server_conn) = n /\ Len(serversock) = n /\ Len(s) = m /\ Len(t) = m
          /\ s \in Seq(ListenSocks) /\ t \in Seq(Ports)
      BY <1>4, <1>6, <1>8
    <2>2. \A i \in 1..n : server_conn'[i] = server_conn[i] /\ serversock'[i] = serversock[i]
      BY <1>4, <1>9, <2>1
    <2>3. ASSUME NEW i \in 1..(n + m), i \notin 1..n
          PROVE  i - n \in 1..m /\ server_conn'[i] = s[i - n] /\ serversock'[i] = t[i - n]
      BY <1>4, <1>9, <2>1, <2>3
    <2> QED  BY <2>2, <2>3
  <1>12. /\ listener' \in [ListenSocks -> ListenerRecords]
         /\ \A l \in ListenSocks :
              /\ listener'[l].port = listener[l].port
              /\ l \in bound => listener'[l].refcount = listener[l].refcount + 1
              /\ l \notin bound /\ l \in conf => listener'[l].refcount = listener[l].refcount - 1
              /\ l \notin conf => listener'[l].refcount = listener[l].refcount
    <2>1. ASSUME NEW l \in ListenSocks
          PROVE  /\ listener'[l] \in ListenerRecords /\ listener'[l].port = listener[l].port
                 /\ l \in bound => listener'[l].refcount = listener[l].refcount + 1
                 /\ l \notin bound /\ l \in conf => listener'[l].refcount = listener[l].refcount - 1
                 /\ l \notin conf => listener'[l].refcount = listener[l].refcount
      <3>1. PICK r \in ListenerRecords : r = listener[l]
        BY <1>4
      <3>2. \A d \in Int : /\ [r EXCEPT !.refcount = d] \in ListenerRecords
                           /\ [r EXCEPT !.refcount = d].port = r.port
                           /\ [r EXCEPT !.refcount = d].refcount = d
        BY <3>1 DEF ListenerRecords
      <3>3. r.refcount + 1 \in Int /\ r.refcount - 1 \in Int
        BY <3>1 DEF ListenerRecords
      <3>4. listener'[l] = IF l \in bound THEN [r EXCEPT !.refcount = r.refcount + 1]
                           ELSE IF l \in conf THEN [r EXCEPT !.refcount = r.refcount - 1] ELSE r
        BY <1>1, <3>1
      <3> QED  BY <1>4, <3>1, <3>2, <3>3, <3>4
    <2> QED  BY <1>1, <2>1
  <1>13. DoorsShape'
    <2>1. DoorsTypeOK'
      BY <1>1, <1>2, <1>5, <1>10, <1>12 DEF DoorsInv, DoorsShape, DoorsTypeOK, ListenerRecords
    <2> QED  BY <1>2, <1>3, <2>1 DEF DoorsInv, DoorsShape, Here
  <1>14. \A i \in 1..n : server_conn[i] \in ListenSocks /\ server_conn[i] \notin bound
    <2> TAKE i \in 1..n
    <2>1. server_conn[i] \in ListenSocks
      BY <1>4, <1>10
    <2>4. Len(serversock) = n
      BY <1>4, <1>6
    <2>5. i \in DOMAIN serversock
      BY <1>4, <2>4
    <2>6. listener[server_conn[i]].port = serversock[i]
      BY <1>10 DEF DoorsInv, SocketsRight
    <2>2. listener[server_conn[i]].port = serversock[i] /\ i \in DOMAIN serversock
      BY <2>5, <2>6
    <2>3. serversock[i] \in Range(serversock)
      BY <2>2 DEF Range
    <2> QED  BY <1>1, <2>1, <2>2, <2>3
  <1>15. SocketsRight'
    <2>1. ASSUME NEW i \in 1..(n + m), NEW j \in 1..(n + m), server_conn'[i] = server_conn'[j]
          PROVE  i = j
      <3>1. \A a, b \in 1..n : server_conn[a] = server_conn[b] => a = b
        BY <1>10 DEF DoorsInv, SocketsRight, Distinct
      <3>2. CASE i \in 1..n /\ j \in 1..n
        BY <1>11, <2>1, <3>1, <3>2
      <3>3. CASE i \in 1..n /\ j \notin 1..n
        BY <1>6, <1>11, <1>14, <2>1, <3>3
      <3>4. CASE i \notin 1..n /\ j \in 1..n
        BY <1>6, <1>11, <1>14, <2>1, <3>4
      <3>5. CASE i \notin 1..n /\ j \notin 1..n
        <4>1. i - n = j - n
          BY <1>6, <1>11, <2>1, <3>5
        <4> QED  BY <1>6, <4>1
      <3> QED  BY <3>2, <3>3, <3>4, <3>5
    <2>2. Distinct(server_conn')
      BY <1>10, <2>1 DEF Distinct
    <2>3. ASSUME NEW i \in 1..(n + m)  PROVE listener'[server_conn'[i]].port = serversock'[i]
      <3>1. CASE i \in 1..n
        <4>1. listener[server_conn[i]].port = serversock[i]
          BY <1>10, <3>1 DEF DoorsInv, SocketsRight
        <4> QED  BY <1>11, <1>12, <1>14, <3>1, <4>1
      <3>2. CASE i \notin 1..n
        <4>1. i - n \in 1..m /\ server_conn'[i] = s[i - n] /\ serversock'[i] = t[i - n]
          BY <1>11, <3>2
        <4>2. s[i - n] \in ListenSocks
          BY <1>5, <1>6, <4>1
        <4> QED  BY <1>8, <1>12, <4>1, <4>2
      <3> QED  BY <3>1, <3>2
    <2> QED  BY <1>10, <2>2, <2>3 DEF SocketsRight
  <1>16. ReadRight'
    BY <1>2, <1>3 DEF ReadRight
  <1>17. ASSUME NEW l \in ListenSocks
         PROVE  OnSocket(server_conn', l) <=> OnSocket(server_conn, l) \/ l \in bound
    <2>1. ASSUME OnSocket(server_conn', l)  PROVE OnSocket(server_conn, l) \/ l \in bound
      BY <1>6, <1>10, <1>11, <2>1 DEF OnSocket
    <2>2. ASSUME OnSocket(server_conn, l)  PROVE OnSocket(server_conn', l)
      <3>1. PICK i \in 1..n : server_conn[i] = l
        BY <1>10, <2>2 DEF OnSocket
      <3>2. i \in 1..(n + m) /\ server_conn'[i] = l
        BY <1>6, <1>11, <3>1
      <3> QED  BY <1>10, <3>2 DEF OnSocket
    <2>3. ASSUME l \in bound  PROVE OnSocket(server_conn', l)
      <3>1. PICK i \in 1..m : s[i] = l
        BY <1>6, <2>3
      <3>2. n + i \in 1..(n + m) /\ n + i \notin 1..n /\ (n + i) - n = i
        BY <1>6
      <3>3. server_conn'[n + i] = l
        BY <1>11, <3>1, <3>2
      <3> QED  BY <1>10, <3>2, <3>3 DEF OnSocket
    <2> QED  BY <2>1, <2>2, <2>3
  <1>18. ASSUME NEW l \in ListenSocks
         PROVE  /\ listener'[l].port = listener[l].port
                /\ listener'[l].refcount - listener[l].refcount >=
                     Kept(conf', old', server_conn', l) - Kept(conf, old, server_conn, l)
    <2>1. PICK a, a2, s1, s2, k \in Int :
            /\ a = IF l \in conf THEN 1 ELSE 0
            /\ a2 = IF l \in conf' THEN 1 ELSE 0
            /\ s1 = IF OnSocket(server_conn, l) THEN 1 ELSE 0
            /\ s2 = IF OnSocket(server_conn', l) THEN 1 ELSE 0
            /\ k = listener[l].refcount
      BY <1>4 DEF ListenerRecords
    <2>2. /\ Kept(conf, old, server_conn, l) = a + 0 + s1
          /\ Kept(conf', old', server_conn', l) = a2 + 0 + s2
      BY <1>2, <1>3, <2>1 DEF Kept, OnSocket
    <2>3. listener'[l].port = listener[l].port
      BY <1>12
    <2>4. CASE l \in bound
      <3>1. /\ a = 1 /\ a2 = 1 /\ s1 \in {0, 1} /\ s2 \in {0, 1} /\ listener'[l].refcount = k + 1
        BY <1>1, <1>4, <1>12, <2>1, <2>4
      <3>2. (k + 1) - k >= (a2 + 0 + s2) - (a + 0 + s1)
        BY <2>1, <3>1
      <3> QED  BY <2>1, <2>2, <2>3, <3>1, <3>2
    <2>5. CASE l \notin bound /\ l \in conf
      <3>1. /\ a = 1 /\ a2 = 0 /\ s2 = s1 /\ listener'[l].refcount = k - 1
        BY <1>1, <1>12, <1>17, <2>1, <2>5
      <3>2. (k - 1) - k >= (a2 + 0 + s2) - (a + 0 + s1)
        BY <2>1, <3>1
      <3> QED  BY <2>1, <2>2, <2>3, <3>1, <3>2
    <2>6. CASE l \notin conf
      <3>1. /\ a = 0 /\ a2 = 0 /\ s2 = s1 /\ listener'[l].refcount = k
        BY <1>1, <1>4, <1>12, <1>17, <2>1, <2>6
      <3>2. k - k >= (a2 + 0 + s2) - (a + 0 + s1)
        BY <2>1, <3>1
      <3> QED  BY <2>1, <2>2, <2>3, <3>1, <3>2
    <2> QED  BY <2>4, <2>5, <2>6
  <1> QED  BY <1>2, <1>13, <1>15, <1>16, <1>18, SocketStep

(* At the start the settings and a socket hold each listener_t.            *)
LEMMA DoorsBegin == DoorsInit => DoorsInv
  <1> SUFFICES ASSUME DoorsInit PROVE DoorsInv
    OBVIOUS
  <1>1. PICK f : f = Fresh(Ports, ListenSocks)
    OBVIOUS
  <1>2. f \in [Ports -> ListenSocks] /\ \A p, q \in Ports : f[p] = f[q] => p = q
    BY <1>1, DoorsAssumption, FreshInjects
  <1>3. /\ conf = Range(f) /\ old = {} /\ serversock = SetToSeq(Ports)
        /\ server_conn = [i \in 1..Cardinality(Ports) |-> f[serversock[i]]]
        /\ listener = [l \in ListenSocks |->
                         IF l \in Range(f)
                         THEN [port |-> CHOOSE p \in Ports : f[p] = l, refcount |-> 2]
                         ELSE [port |-> CHOOSE p \in Ports : TRUE, refcount |-> 0]]
    BY <1>1 DEF DoorsInit
  <1>4. /\ accepting = Nobody /\ client = [c \in Conns |-> Absent] /\ clients = 0
        /\ step = "serving" /\ scan = 1 /\ seen = -1 /\ mc_running = TRUE
    BY DEF DoorsInit
  <1>5. PICK n \in Nat :
          /\ n = Cardinality(Ports) /\ serversock \in Seq(Ports) /\ Len(serversock) = n
          /\ DOMAIN serversock = 1..n
          /\ \A i, j \in 1..n : serversock[i] = serversock[j] => i = j
          /\ \A p \in Ports : \E i \in 1..n : serversock[i] = p
    BY <1>3, DoorsAssumption, SeqOfSet
  <1>6. \A i \in 1..n : serversock[i] \in Ports /\ f[serversock[i]] \in ListenSocks
    BY <1>2, <1>5
  <1>7. server_conn \in Seq(ListenSocks) /\ Len(server_conn) = n /\ DOMAIN server_conn = 1..n
        /\ \A i \in 1..n : server_conn[i] = f[serversock[i]]
    BY <1>3, <1>5, <1>6
  <1>8. \A p \in Ports : (CHOOSE q \in Ports : f[q] = f[p]) = p
    BY <1>2
  <1>9. (CHOOSE p \in Ports : TRUE) \in Ports
    BY DoorsAssumption
  <1>10. \A l \in ListenSocks :
           /\ l \in Range(f) => listener[l] = [port |-> CHOOSE p \in Ports : f[p] = l, refcount |-> 2]
           /\ l \notin Range(f) => listener[l] = [port |-> CHOOSE p \in Ports : TRUE, refcount |-> 0]
    BY <1>3
  <1>11. \A l \in Range(f) : l \in ListenSocks /\ \E p \in Ports : f[p] = l
    BY <1>2 DEF Range
  <1>12. \A p \in Ports : f[p] \in Range(f) /\ listener[f[p]].port = p /\ listener[f[p]].refcount = 2
    <2> TAKE p \in Ports
    <2>1. f[p] \in Range(f) /\ f[p] \in ListenSocks
      BY <1>2 DEF Range
    <2>2. listener[f[p]] = [port |-> CHOOSE q \in Ports : f[q] = f[p], refcount |-> 2]
      BY <1>10, <2>1
    <2> QED  BY <1>8, <2>1, <2>2
  <1>13. listener \in [ListenSocks -> ListenerRecords]
         /\ \A l \in ListenSocks : l \notin Range(f) => listener[l].refcount = 0
    <2>1. ASSUME NEW l \in ListenSocks
          PROVE  listener[l] \in ListenerRecords /\ (l \notin Range(f) => listener[l].refcount = 0)
      <3>1. CASE l \in Range(f)
        <4>1. PICK q \in Ports : f[q] = l
          BY <1>11, <3>1
        <4>2. PICK p \in Ports : p = CHOOSE r \in Ports : f[r] = l
          BY <1>8, <4>1
        <4>3. [port |-> p, refcount |-> 2] \in ListenerRecords
          BY DEF ListenerRecords
        <4> QED  BY <1>10, <3>1, <4>2, <4>3
      <3>2. CASE l \notin Range(f)
        <4>1. PICK p \in Ports : p = CHOOSE r \in Ports : TRUE
          BY <1>9
        <4>2. [port |-> p, refcount |-> 0] \in ListenerRecords
          BY DEF ListenerRecords
        <4>3. listener[l] = [port |-> p, refcount |-> 0]
          BY <1>10, <3>2, <4>1
        <4> QED  BY <3>2, <4>2, <4>3
      <3> QED  BY <3>1, <3>2
    <2> QED  BY <1>3, <2>1
  <1>14. Absent \in ClientRecords /\ Absent.at = "none"
    BY DEF Absent, ClientRecords
  <1>15. client \in [Conns -> ClientRecords] /\ \A c \in Conns : client[c].at = "none"
    BY <1>4, <1>14
  <1>16. DoorsShape
    <2>1. conf \subseteq ListenSocks
      BY <1>3, <1>11
    <2>2. DoorsTypeOK
      BY <1>3, <1>4, <1>5, <1>7, <1>13, <1>15, <2>1 DEF DoorsTypeOK, ClientRecords, ListenerRecords
    <2>3. /\ scan >= 1 /\ mc_running \in BOOLEAN /\ step = "serving" /\ old = {} /\ seen = -1
      BY <1>3, <1>4
    <2>4. \A c \in Conns : accepting # c /\ client[c].at # "accepted"
      BY <1>4, <1>15, DoorsAssumption
    <2>5. Here = {}
      BY <1>15 DEF Here
    <2> QED  BY <2>2, <2>3, <2>4, <2>5 DEF DoorsShape
  <1>17. SocketsRight
    <2>1. Distinct(server_conn)
      BY <1>2, <1>5, <1>6, <1>7 DEF Distinct
    <2>2. \A i \in DOMAIN server_conn : listener[server_conn[i]].port = serversock[i]
      BY <1>6, <1>7, <1>12
    <2> QED  BY <1>5, <1>7, <2>1, <2>2 DEF SocketsRight
  <1>18. ReadRight
    BY <1>4 DEF ReadRight
  <1>19. /\ \A l : Through(client, l) = {}
         /\ Registered(client) = {} /\ Served(client) = {}
    BY <1>15 DEF Through, Registered, Served
  <1>20. \A l \in ListenSocks : listener[l].refcount >=
           Kept(conf, old, server_conn, l) + Cardinality(Through(client, l))
    <2> TAKE l \in ListenSocks
    <2>1. Cardinality(Through(client, l)) = 0
      BY <1>19, FS_EmptySet
    <2>2. CASE l \in Range(f)
      <3>1. listener[l].refcount = 2
        BY <1>11, <1>12, <2>2
      <3>2. PICK s \in {0, 1} : s = IF \E i \in DOMAIN server_conn : server_conn[i] = l THEN 1 ELSE 0
        OBVIOUS
      <3>3. Kept(conf, old, server_conn, l) = 1 + 0 + s
        BY <1>3, <2>2, <3>2 DEF Kept
      <3> QED  BY <2>1, <3>1, <3>2, <3>3
    <2>3. CASE l \notin Range(f)
      <3>1. listener[l].refcount = 0
        BY <1>13, <2>3
      <3>2. ~\E i \in DOMAIN server_conn : server_conn[i] = l
        BY <1>6, <1>7, <1>12, <2>3
      <3>3. Kept(conf, old, server_conn, l) = 0 + 0 + 0
        BY <1>3, <2>3, <3>2 DEF Kept
      <3> QED  BY <2>1, <3>1, <3>3
    <2> QED  BY <2>2, <2>3
  <1>21. clients = Cardinality(Registered(client)) /\ Cardinality(Served(client)) <= ClientLimit
    BY <1>4, <1>19, FS_EmptySet, DoorsAssumption
  <1> QED  BY <1>15, <1>16, <1>17, <1>18, <1>20, <1>21 DEF DoorsInv

(* As long as poll finds no listening socket broken, and for any number of *)
(* ports, clients and reloads: a listener_t is never freed while the       *)
(* settings, a socket or a client hold it, a client has that of the port   *)
(* it came through, clients are counted and no more than the limit are     *)
(* served (connection.c accept_client, connection_listen_sockets_close,    *)
(* client.c client_destroy).                                               *)
THEOREM DoorsKept == ASSUME ~SocketsFail PROVE DoorsSpec => []DoorsRight
  <1>1. DoorsInit => DoorsInv
    BY DoorsBegin
  <1>2. DoorsInv /\ [DoorsNext]_doors => DoorsInv'
    <2> SUFFICES ASSUME DoorsInv, [DoorsNext]_doors PROVE DoorsInv'
      OBVIOUS
    <2>1. DoorsShape
      BY DEF DoorsInv
    <2>2. CASE UNCHANGED doors
      BY <2>2 DEF doors, DoorsInv, DoorsShape, DoorsTypeOK, SocketsRight, ReadRight, Here
    <2>3. ASSUME NEW c \in Conns,
                 Register(c) \/ PasswordRead(c) \/ RequestFails(c) \/ Gets(c) \/ Asks(c)
                   \/ Finishes(c) \/ KeptAlive(c)
          PROVE  DoorsInv'
      BY <2>1, <2>3, Handling, HandleStep
    <2>4. ASSUME NEW c \in Conns, Accept(c)
          PROVE  DoorsInv'
      <3>1. SocketsRight
        BY DEF DoorsInv
      <3>2. PICK i \in DOMAIN server_conn, l \in ListenSocks : Comes(c, l, i)
        BY <2>1, <2>4, <3>1, Accepting
      <3> QED  BY <3>2, ComeStep
    <2>5. ASSUME NEW c \in Conns, ConnectionFails(c) \/ Destroyed(c)
          PROVE  DoorsInv'
      BY <2>1, <2>5, Going, GoStep
    <2>6. ~SocketBreaks
      BY DEF SocketBreaks
    <2>7. CASE Halts \/ ThreadStops \/ LeavesOpen \/ ReadsCount
      BY <2>7, QuietStep
    <2>8. CASE Reload
      BY <2>8, ReloadStep
    <2>9. CASE Closes
      BY <2>9, CloseStep
    <2>10. CASE ClearsOld
      BY <2>10, ClearStep
    <2>11. CASE Opens
      BY <2>11, OpenStep
    <2> QED  BY <2>2, <2>3, <2>4, <2>5, <2>6, <2>7, <2>8, <2>9, <2>10, <2>11 DEF DoorsNext
  <1>3. DoorsInv => DoorsRight
    BY DoorsInvRight
  <1> QED  BY <1>1, <1>2, <1>3, PTL DEF DoorsSpec

----------------------------------------------------------------------------
(* The list of bans.                                                       *)

(* A set of numbers has a least one.                                       *)
LEMMA NatMin ==
  ASSUME NEW T, T \subseteq Nat, T # {}
  PROVE  \E n \in T : \A m \in T : n <= m
  <1>1. PICK F : F = {0..n : n \in T}
    OBVIOUS
  <1>2. F \subseteq FiniteSubsetsOf(Nat) /\ F # {}
    <2>1. \A n \in T : 0..n \subseteq Nat
      OBVIOUS
    <2>2. \A n \in T : IsFiniteSet(0..n)
      BY FS_Interval
    <2> QED  BY <1>1, <2>1, <2>2 DEF FiniteSubsetsOf
  <1>3. PICK I \in F : \A J \in F : ~(<<J, I>> \in StrictSubsetOrdering(Nat))
    BY <1>2, FS_StrictSubsetOrderingWellFounded, WFMin
  <1>4. PICK n \in T : I = 0..n
    BY <1>1
  <1>5. ASSUME NEW m \in T, ~(n <= m)  PROVE FALSE
    <2>1. 0..m \in F /\ 0..m \subseteq Nat /\ 0..n \subseteq Nat
      BY <1>1
    <2>2. 0..m \subseteq 0..n /\ n \in 0..n /\ n \notin 0..m
      BY <1>5
    <2>3. <<0..m, I>> \in StrictSubsetOrdering(Nat)
      BY <1>4, <2>1, <2>2 DEF StrictSubsetOrdering
    <2> QED  BY <1>3, <2>1, <2>3
  <1> QED  BY <1>5

(* What is noted after i steps of a walk along p, for each i to k.         *)
Notes(f, ds, ip, p, k) ==
  f = [i \in 0..k |->
         IF i = 0 THEN ds
         ELSE IF Stale(p[i], ip) /\ Len(f[i - 1]) < MaxNoted THEN Append(f[i - 1], p[i])
         ELSE f[i - 1]]

(* A walk of any length can be noted.                                      *)
LEMMA NotesExist ==
  ASSUME NEW ds, NEW ip, NEW p, NEW k \in Nat
  PROVE  \E f : Notes(f, ds, ip, p, k)
  <1> SUFFICES ASSUME ~\E f : Notes(f, ds, ip, p, k) PROVE FALSE
    OBVIOUS
  <1>1. PICK T : T = {j \in Nat : ~\E f : Notes(f, ds, ip, p, j)}
    OBVIOUS
  <1>2. PICK j \in T : \A m \in T : j <= m
    <2>1. T \subseteq Nat /\ T # {}
      BY <1>1
    <2> QED  BY <2>1, NatMin
  <1>3. j \in Nat /\ ~\E f : Notes(f, ds, ip, p, j)
    BY <1>1, <1>2
  <1>4. j # 0
    <2>1. Notes([n \in 0..0 |-> ds], ds, ip, p, 0)
      BY DEF Notes
    <2> QED  BY <1>3, <2>1
  <1>5. j - 1 \in Nat /\ j - 1 \notin T
    BY <1>2, <1>3, <1>4
  <1>6. PICK g : Notes(g, ds, ip, p, j - 1)
    BY <1>1, <1>5
  <1>7. PICK f : f = [n \in 0..j |->
                        IF n = j
                        THEN IF Stale(p[j], ip) /\ Len(g[j - 1]) < MaxNoted
                             THEN Append(g[j - 1], p[j]) ELSE g[j - 1]
                        ELSE g[n]]
    OBVIOUS
  <1>8. \A n \in 0..j : n # j => n \in 0..(j - 1) /\ f[n] = g[n]
    BY <1>3, <1>7
  <1>9. ASSUME NEW n \in 0..j
        PROVE  f[n] = IF n = 0 THEN ds
                      ELSE IF Stale(p[n], ip) /\ Len(f[n - 1]) < MaxNoted
                      THEN Append(f[n - 1], p[n]) ELSE f[n - 1]
    <2>1. CASE n = 0
      BY <1>3, <1>4, <1>6, <1>8, <2>1 DEF Notes
    <2>2. CASE n # 0
      <3>1. n - 1 \in 0..j /\ n - 1 # j /\ f[n - 1] = g[n - 1]
        BY <1>3, <1>8, <2>2
      <3>2. CASE n = j
        BY <1>7, <2>2, <3>1, <3>2
      <3>3. CASE n # j
        <4>1. n \in 0..(j - 1) /\ f[n] = g[n]
          BY <1>8, <3>3
        <4>2. g[n] = IF Stale(p[n], ip) /\ Len(g[n - 1]) < MaxNoted
                     THEN Append(g[n - 1], p[n]) ELSE g[n - 1]
          BY <1>6, <2>2, <4>1 DEF Notes
        <4> QED  BY <2>2, <3>1, <4>1, <4>2
      <3> QED  BY <3>2, <3>3
    <2> QED  BY <2>1, <2>2
  <1>10. Notes(f, ds, ip, p, j)
    BY <1>7, <1>9 DEF Notes
  <1> QED  BY <1>3, <1>10

(* What a walk notes is put after what was noted, is stale and in the      *)
(* tree, and has room.                                                     *)
NotedWell(s, ds, ip) ==
  /\ s \in Seq(Nodes) /\ Len(s) <= MaxNoted /\ Len(ds) <= Len(s)
  /\ \A i \in 1..Len(ds) : s[i] = ds[i]
  /\ \A i \in 1..Len(s) : i > Len(ds) => s[i] \in contents /\ Stale(s[i], ip)

(* After each step of a walk the notes are right.                          *)
LEMMA NotesWell ==
  ASSUME contents \subseteq Nodes, NEW ds \in Seq(Nodes), Len(ds) <= MaxNoted, NEW ip, NEW k \in Nat,
         NEW p \in [1..k -> contents], NEW f, Notes(f, ds, ip, p, k), MaxNoted \in Nat
  PROVE  \A i \in 0..k : NotedWell(f[i], ds, ip)
  <1> SUFFICES ASSUME NEW l \in 0..k, ~NotedWell(f[l], ds, ip) PROVE FALSE
    OBVIOUS
  <1>1. PICK T : T = {j \in 0..k : ~NotedWell(f[j], ds, ip)}
    OBVIOUS
  <1>2. PICK n \in T : \A m \in T : n <= m
    <2>1. T \subseteq Nat /\ T # {}
      BY <1>1
    <2> QED  BY <2>1, NatMin
  <1>3. n \in 0..k /\ ~NotedWell(f[n], ds, ip)
    BY <1>1, <1>2
  <1>4. CASE n = 0
    <2>1. f[0] = ds
      BY DEF Notes
    <2>2. NotedWell(ds, ds, ip)
      BY DEF NotedWell
    <2> QED  BY <1>3, <1>4, <2>1, <2>2
  <1>5. CASE n # 0
    <2>1. n - 1 \in 0..k /\ n - 1 \notin T
      BY <1>2, <1>3, <1>5
    <2>2. PICK s : s = f[n - 1]
      OBVIOUS
    <2>3. NotedWell(s, ds, ip)
      BY <1>1, <2>1, <2>2
    <2>4. f[n] = IF Stale(p[n], ip) /\ Len(s) < MaxNoted THEN Append(s, p[n]) ELSE s
      BY <1>3, <1>5, <2>2 DEF Notes
    <2>5. CASE ~(Stale(p[n], ip) /\ Len(s) < MaxNoted)
      BY <1>3, <2>3, <2>4, <2>5
    <2>6. CASE Stale(p[n], ip) /\ Len(s) < MaxNoted
      <3>1. f[n] = Append(s, p[n]) /\ p[n] \in contents /\ p[n] \in Nodes
        BY <1>3, <1>5, <2>4, <2>6
      <3>2. s \in Seq(Nodes) /\ Len(s) \in Nat /\ Len(ds) \in Nat
        BY <2>3 DEF NotedWell
      <3>3. /\ f[n] \in Seq(Nodes) /\ Len(f[n]) = Len(s) + 1 /\ f[n][Len(s) + 1] = p[n]
            /\ \A i \in 1..Len(s) : f[n][i] = s[i]
        BY <3>1, <3>2
      <3>4. /\ Len(f[n]) <= MaxNoted /\ Len(ds) <= Len(f[n])
        BY <2>3, <2>6, <3>2, <3>3 DEF NotedWell
      <3>5. \A i \in 1..Len(ds) : f[n][i] = ds[i]
        BY <2>3, <3>2, <3>3 DEF NotedWell
      <3>6. ASSUME NEW i \in 1..Len(f[n]), i > Len(ds)
            PROVE  f[n][i] \in contents /\ Stale(f[n][i], ip)
        <4>1. CASE i \in 1..Len(s)
          BY <2>3, <3>3, <3>6, <4>1 DEF NotedWell
        <4>2. CASE i = Len(s) + 1
          BY <2>6, <3>1, <3>3, <4>2
        <4> QED  BY <3>2, <3>3, <4>1, <4>2
      <3> QED  BY <1>3, <3>3, <3>4, <3>5, <3>6 DEF NotedWell
    <2> QED  BY <2>5, <2>6
  <1> QED  BY <1>4, <1>5

(* The notes of compare_banned_ip are right.                               *)
LEMMA NotedIsWell ==
  ASSUME contents \subseteq Nodes, NEW ds \in Seq(Nodes), Len(ds) <= MaxNoted, NEW ip,
         NEW p \in Paths(ip)
  PROVE  NotedWell(Noted(ds, ip, p), ds, ip)
  <1>1. PICK k \in Nat : p \in [1..k -> contents]
    BY BansAssumption DEF Paths
  <1>2. Len(p) = k
    BY <1>1
  <1>3. PICK g : g = (CHOOSE f : Notes(f, ds, ip, p, k))
    OBVIOUS
  <1>4. Notes(g, ds, ip, p, k)
    BY <1>3, NotesExist
  <1>5. Noted(ds, ip, p) = g[k]
    BY <1>2, <1>3 DEF Noted, Notes
  <1>6. MaxNoted \in Nat
    BY BansAssumption
  <1> QED  BY <1>1, <1>4, <1>5, <1>6, NotesWell

(* A ban whose time is over, long enough.                                  *)
Over(n) == entry[n].timeout # 0 /\ entry[n].timeout < file_recheck - Lag

BanRecords == [ip : Addresses \cup {0}, timeout : Nat]

(* An address is listed once, a list is only noted while a search goes on, *)
(* and what is noted and still listed is over.                             *)
BansInv ==
  /\ BansTypeOK
  /\ file_recheck <= now + Recheck
  /\ \A n \in contents : entry[n].ip \in Addresses
  /\ \A n, m \in contents : entry[n].ip = entry[m].ip => n = m
  /\ sought = 0 => deletions = <<>> /\ deleted = 0
  /\ \A i \in 1..Len(deletions) : i > deleted /\ deletions[i] \in contents => Over(deletions[i])

(* The types alone.                                                        *)
LEMMA BansTypes ==
  ASSUME BansInv
  PROVE  /\ entry \in [Nodes -> BanRecords] /\ contents \subseteq Nodes
         /\ deletions \in Seq(Nodes) /\ deleted \in Nat /\ now \in Nat /\ file_recheck \in Nat
         /\ Addresses \subseteq Nat \ {0} /\ {MaxNoted, MaxDepth, MaxTime, Recheck, Lag, Extend, Duration} \subseteq Nat
         /\ Recheck <= Lag
  BY BansAssumption DEF BansInv, BansTypeOK, BanRecords

(* A ban that is over is over now.                                         *)
LEMMA OverNow ==
  ASSUME BansInv, NEW n \in Nodes, Over(n)
  PROVE  ~(entry[n].timeout = 0 \/ entry[n].timeout > now)
  <1>1. PICK t \in Nat : t = entry[n].timeout
    BY BansTypes DEF BanRecords
  <1>2. t # 0 /\ t < file_recheck - Lag
    BY <1>1 DEF Over
  <1>3. file_recheck \in Nat /\ now \in Nat /\ Recheck \in Nat /\ Lag \in Nat /\ Recheck <= Lag
        /\ file_recheck <= now + Recheck
    BY BansTypes DEF BansInv
  <1> QED  BY <1>1, <1>2, <1>3

(* A walk ends at the address it is for, if it is listed.                  *)
LEMMA WalkEnds ==
  ASSUME BansInv, NEW ip, NEW p \in Paths(ip)
  PROVE  /\ Found(ip, p) => Last(p) \in contents /\ entry[Last(p)].ip = ip
         /\ \A n \in contents : entry[n].ip = ip => Found(ip, p) /\ Last(p) = n
  <1>1. PICK k \in Nat : p \in [1..k -> contents]
    BY BansAssumption DEF Paths
  <1>2. Len(p) = k
    BY <1>1
  <1>3. p # <<>> => Last(p) \in contents
    <2> SUFFICES ASSUME p # <<>> PROVE Last(p) \in contents
      OBVIOUS
    <2>1. k # 0
      BY <1>1
    <2> QED  BY <1>1, <1>2, <2>1 DEF Last
  <1>4. ASSUME NEW n \in contents, entry[n].ip = ip
        PROVE  Found(ip, p) /\ Last(p) = n
    <2>1. p # <<>> /\ entry[Last(p)].ip = ip
      BY <1>4 DEF Paths
    <2> QED  BY <1>3, <1>4, <2>1 DEF Found, BansInv
  <1> QED  BY <1>3, <1>4 DEF Found

(* The list without one of its entries.                                    *)
LEMMA Removing1 ==
  ASSUME BansInv, NEW n \in contents, Removed(n)
  PROVE  /\ entry' \in [Nodes -> BanRecords] /\ contents' \subseteq Nodes
         /\ \A m \in contents' : m \in contents /\ m # n /\ entry'[m] = entry[m]
         /\ \A m \in contents : m # n => m \in contents'
  <1>1. FreeEntry \in BanRecords
    BY DEF FreeEntry, BanRecords
  <1>2. contents' = contents \ {n} /\ entry' = [entry EXCEPT ![n] = FreeEntry]
    BY DEF Removed
  <1> QED  BY <1>1, <1>2, BansTypes

(* What keeps the list in order.                                           *)
LEMMA BansStay ==
  ASSUME BansInv,
         now' = now, file_recheck' = file_recheck, changed' = changed, file' = file,
         entry' \in [Nodes -> BanRecords],
         \A m \in contents' : m \in contents /\ entry'[m].ip = entry[m].ip,
         deletions' \in Seq(Nodes), Len(deletions') <= MaxNoted, deleted' \in 0..Len(deletions'),
         sought' \in Addresses \cup {0}, freed_used' \in BOOLEAN,
         sought' = 0 => deletions' = <<>> /\ deleted' = 0,
         \A i \in 1..Len(deletions') :
           i > deleted' /\ deletions'[i] \in contents' =>
             Over(deletions'[i]) /\ entry'[deletions'[i]] = entry[deletions'[i]]
  PROVE  BansInv'
  <1>1. contents' \subseteq Nodes
    BY BansTypes
  <1>2. BansTypeOK'
    BY <1>1 DEF BansInv, BansTypeOK, BanRecords
  <1>3. \A n, m \in contents' : entry'[n].ip = entry'[m].ip => n = m
    BY DEF BansInv
  <1>4. \A i \in 1..Len(deletions') : i > deleted' /\ deletions'[i] \in contents' =>
           entry'[deletions'[i]].timeout # 0 /\ entry'[deletions'[i]].timeout < file_recheck' - Lag
    BY DEF Over
  <1>5. \A n \in contents' : entry'[n].ip \in Addresses
    BY DEF BansInv
  <1> QED  BY <1>2, <1>3, <1>4, <1>5 DEF BansInv, Over

(* A ban runs on, over a step that leaves it alone.                        *)
Listed(e, c, ip) == \E n \in c : e[n].ip = ip /\ (e[n].timeout = 0 \/ e[n].timeout > now)

SearchKeeps ==
  /\ Len(deletions') <= MaxNoted
  /\ \A ip \in Addresses : Banned(ip) => Listed(entry', contents', ip)

(* A deletion ends no ban, nor does a search or its end.                   *)
LEMMA DeletesStep ==
  ASSUME BansInv, Deletes
  PROVE  BansInv' /\ SearchKeeps
  <1>1. /\ sought # 0 /\ deleted < Len(deletions) /\ deleted' = deleted + 1
        /\ UNCHANGED <<now, file, changed, file_recheck, sought>>
    BY DEF Deletes
  <1>2. PICK n : n = deletions[deleted + 1]
    OBVIOUS
  <1>3. /\ deleted + 1 \in 1..Len(deletions) /\ Len(deletions) \in Nat /\ deleted \in Nat
        /\ deletions \in Seq(Nodes) /\ Len(deletions) <= MaxNoted /\ MaxNoted \in Nat
        /\ sought \in Addresses \cup {0} /\ freed_used \in BOOLEAN
        /\ entry \in [Nodes -> BanRecords]
    BY <1>1, BansTypes DEF BansInv, BansTypeOK
  <1>4. \A i \in 1..Len(deletions) : i > deleted /\ deletions[i] \in contents => Over(deletions[i])
    BY DEF BansInv
  <1>5. CASE n \notin contents
    <2>1. freed_used' = TRUE /\ UNCHANGED <<entry, contents, deletions>>
      BY <1>2, <1>5 DEF Deletes
    <2>2. BansInv'
      <3>1. deleted' \in 0..Len(deletions)
        BY <1>1, <1>3
      <3>2. \A i \in 1..Len(deletions) : i > deleted' => i > deleted
        BY <1>1, <1>3
      <3> QED  BY <1>1, <1>3, <1>4, <2>1, <3>1, <3>2, BansStay
    <2>3. SearchKeeps
      BY <1>3, <2>1 DEF SearchKeeps, Listed, Banned
    <2> QED  BY <2>2, <2>3
  <1>6. CASE n \in contents
    <2>10. PICK ip : ip = entry[n].ip
      OBVIOUS
    <2>1. PICK p \in Paths(ip) :
            ip = entry[n].ip /\ Removed(Last(p)) /\ deletions' = Noted(deletions, ip, p)
            /\ freed_used' = freed_used
      BY <1>2, <1>6, <2>10 DEF Deletes
    <2>2. Last(p) = n
      BY <1>6, <2>1, WalkEnds
    <2>3. /\ entry' \in [Nodes -> BanRecords] /\ contents' \subseteq Nodes
          /\ \A m \in contents' : m \in contents /\ m # n /\ entry'[m] = entry[m]
          /\ \A m \in contents : m # n => m \in contents'
      BY <1>6, <2>1, <2>2, Removing1
    <2>4. NotedWell(deletions', deletions, ip)
      BY <1>3, <2>1, BansTypes, NotedIsWell
    <2>5. /\ deletions' \in Seq(Nodes) /\ Len(deletions') <= MaxNoted
          /\ Len(deletions) <= Len(deletions')
          /\ \A i \in 1..Len(deletions) : deletions'[i] = deletions[i]
          /\ \A i \in 1..Len(deletions') : i > Len(deletions) =>
               deletions'[i] \in contents /\ Over(deletions'[i])
      BY <2>4 DEF NotedWell, Stale, Over
    <2>6. \A i \in 1..Len(deletions') : i > deleted' /\ deletions'[i] \in contents' =>
            Over(deletions'[i]) /\ entry'[deletions'[i]] = entry[deletions'[i]]
      <3> TAKE i \in 1..Len(deletions')
      <3>1. Len(deletions') \in Nat
        BY <2>5
      <3>2. CASE i \in 1..Len(deletions)
        BY <1>1, <1>3, <1>4, <2>3, <2>5, <3>2
      <3>3. CASE i > Len(deletions)
        BY <2>3, <2>5, <3>3
      <3> QED  BY <1>3, <3>1, <3>2, <3>3
    <2>7. deleted' \in 0..Len(deletions')
      <3>1. Len(deletions') \in Nat
        BY <2>5
      <3> QED  BY <1>1, <1>3, <2>5, <3>1
    <2>8. BansInv'
      BY <1>1, <1>3, <2>1, <2>3, <2>5, <2>6, <2>7, BansStay
    <2>9. SearchKeeps
      <3>1. Over(n) /\ n \in Nodes
        BY <1>2, <1>3, <1>4, <1>6, BansTypes
      <3>2. ~(entry[n].timeout = 0 \/ entry[n].timeout > now)
        BY <3>1, OverNow
      <3> QED  BY <2>3, <2>5, <3>2 DEF SearchKeeps, Listed, Banned
    <2> QED  BY <2>8, <2>9
  <1> QED  BY <1>5, <1>6

LEMMA SearchStep ==
  ASSUME BansInv, NEW ip \in Addresses, Search(ip)
  PROVE  BansInv' /\ SearchKeeps
  <1>1. /\ sought = 0 /\ sought' = ip
        /\ UNCHANGED <<now, file, changed, file_recheck, deleted, freed_used>>
    BY DEF Search
  <1>2. /\ deletions = <<>> /\ deleted = 0 /\ entry \in [Nodes -> BanRecords]
        /\ contents \subseteq Nodes /\ now \in Nat /\ Extend \in Nat /\ MaxNoted \in Nat
        /\ sought \in Addresses \cup {0} /\ freed_used \in BOOLEAN /\ ip # 0
    BY <1>1, BansTypes DEF BansInv, BansTypeOK
  <1>3. PICK p \in Paths(ip) :
          LET found == Noted(<<>>, ip, p) n == Last(p) IN
          IF ~Found(ip, p)
          THEN deletions' = found /\ UNCHANGED <<entry, contents>>
          ELSE IF entry[n].timeout = 0 \/ entry[n].timeout > now
          THEN /\ deletions' = found
               /\ entry' = [entry EXCEPT ![n].timeout =
                              IF @ # 0 /\ now + Extend > @ THEN now + Extend ELSE @]
               /\ UNCHANGED contents
          ELSE /\ Removed(n)
               /\ \E q \in Paths(ip) : deletions' = Noted(found, ip, q)
    BY DEF Search
  <1>4. PICK found : found = Noted(<<>>, ip, p)
    OBVIOUS
  <1>5. NotedWell(found, <<>>, ip)
    <2>1. <<>> \in Seq(Nodes) /\ Len(<<>>) <= MaxNoted
      BY <1>2
    <2> QED  BY <1>2, <1>4, <2>1, NotedIsWell
  <1>6. /\ found \in Seq(Nodes) /\ Len(found) <= MaxNoted
        /\ \A i \in 1..Len(found) : found[i] \in contents /\ Stale(found[i], ip)
    BY <1>5 DEF NotedWell
  <1>7. ASSUME deletions' \in Seq(Nodes), Len(deletions') <= MaxNoted,
               \A i \in 1..Len(deletions') : deletions'[i] \in contents /\ Stale(deletions'[i], ip),
               entry' \in [Nodes -> BanRecords],
               \A m \in contents' : m \in contents /\ entry'[m].ip = entry[m].ip
                                    /\ (entry[m].ip # ip => entry'[m] = entry[m])
        PROVE  BansInv'
    <2>1. deleted' \in 0..Len(deletions')
      <3>1. Len(deletions') \in Nat
        BY <1>7
      <3> QED  BY <1>1, <1>2, <3>1
    <2>2. \A i \in 1..Len(deletions') : i > deleted' /\ deletions'[i] \in contents' =>
            Over(deletions'[i]) /\ entry'[deletions'[i]] = entry[deletions'[i]]
      BY <1>7 DEF Stale, Over
    <2> QED  BY <1>1, <1>2, <1>7, <2>1, <2>2, BansStay
  <1>8. CASE ~Found(ip, p)
    <2>1. deletions' = found /\ entry' = entry /\ contents' = contents
      BY <1>3, <1>4, <1>8
    <2>2. BansInv'
      BY <1>2, <1>6, <1>7, <2>1
    <2> QED  BY <1>6, <2>1, <2>2 DEF SearchKeeps, Listed, Banned
  <1>9. CASE Found(ip, p)
    <2>1. PICK n \in contents : n = Last(p) /\ entry[n].ip = ip
      BY <1>9, WalkEnds
    <2>2. PICK r \in BanRecords : r = entry[n]
      BY <1>2, <2>1
    <2>3. CASE r.timeout = 0 \/ r.timeout > now
      <3>1. PICK t \in Nat : t = r.timeout
        BY <2>2 DEF BanRecords
      <3>2. PICK u \in Nat : u = IF t # 0 /\ now + Extend > t THEN now + Extend ELSE t
        BY <1>2, <3>1
      <3>3. PICK s : s = [r EXCEPT !.timeout = u]
        OBVIOUS
      <3>4. s \in BanRecords /\ s.ip = ip /\ s.timeout = u
        BY <2>1, <2>2, <3>3 DEF BanRecords
      <3>5. deletions' = found /\ contents' = contents /\ entry' = [entry EXCEPT ![n] = s]
        BY <1>3, <1>4, <1>9, <2>1, <2>2, <2>3, <3>1, <3>2, <3>3
      <3>6. /\ entry' \in [Nodes -> BanRecords]
            /\ \A m \in contents : entry'[m] = IF m = n THEN s ELSE entry[m]
        BY <1>2, <3>4, <3>5
      <3>7. u = 0 \/ u > now
        BY <1>2, <2>3, <3>1, <3>2
      <3>8. BansInv'
        BY <1>6, <1>7, <2>1, <3>4, <3>5, <3>6
      <3>9. SearchKeeps
        BY <1>6, <2>1, <3>4, <3>5, <3>6, <3>7 DEF SearchKeeps, Listed, Banned
      <3> QED  BY <3>8, <3>9
    <2>4. CASE ~(r.timeout = 0 \/ r.timeout > now)
      <3>1. Removed(n)
        BY <1>3, <1>9, <2>1, <2>2, <2>4
      <3>2. PICK q \in Paths(ip) : deletions' = Noted(found, ip, q)
        BY <1>3, <1>4, <1>9, <2>1, <2>2, <2>4
      <3>3. NotedWell(deletions', found, ip)
        BY <1>2, <1>6, <3>2, NotedIsWell
      <3>4. /\ deletions' \in Seq(Nodes) /\ Len(deletions') <= MaxNoted
            /\ \A i \in 1..Len(deletions') : deletions'[i] \in contents /\ Stale(deletions'[i], ip)
        <4>1. \A i \in 1..Len(deletions') : i \in 1..Len(found) \/ i > Len(found)
          BY <1>6
        <4> QED  BY <1>6, <3>3, <4>1 DEF NotedWell
      <3>5. /\ entry' \in [Nodes -> BanRecords] /\ contents' \subseteq Nodes
            /\ \A m \in contents' : m \in contents /\ m # n /\ entry'[m] = entry[m]
            /\ \A m \in contents : m # n => m \in contents'
        BY <3>1, Removing1
      <3>6. BansInv'
        BY <1>7, <3>4, <3>5
      <3>7. SearchKeeps
        BY <2>2, <2>4, <3>4, <3>5 DEF SearchKeeps, Listed, Banned
      <3> QED  BY <3>6, <3>7
    <2> QED  BY <2>3, <2>4
  <1> QED  BY <1>8, <1>9

LEMMA EndStep ==
  ASSUME BansInv, SearchEnds
  PROVE  BansInv' /\ SearchKeeps
  <1>1. /\ sought' = 0 /\ deletions' = <<>> /\ deleted' = 0
        /\ UNCHANGED <<now, file, changed, file_recheck, entry, contents, freed_used>>
    BY DEF SearchEnds
  <1>2. MaxNoted \in Nat /\ entry \in [Nodes -> BanRecords] /\ freed_used \in BOOLEAN
    BY BansTypes DEF BansInv, BansTypeOK
  <1>3. <<>> \in Seq(Nodes) /\ Len(<<>>) = 0
    OBVIOUS
  <1>4. BansInv'
    BY <1>1, <1>2, <1>3, BansStay
  <1> QED  BY <1>1, <1>2, <1>3, <1>4 DEF SearchKeeps, Listed, Banned

(* A ban, the end of one, and the file read anew.                          *)
LEMMA BanStep ==
  ASSUME ~Twice, BansInv, NEW ip \in Addresses, Ban(ip)
  PROVE  BansInv'
  <1>1. /\ sought = 0 /\ \A n \in contents : entry[n].ip # ip
        /\ UNCHANGED <<now, file, changed, file_recheck, deletions, deleted, sought, freed_used>>
    BY DEF Ban
  <1>2. PICK n \in Nodes \ contents :
          /\ entry' = [entry EXCEPT ![n] = [ip |-> ip, timeout |-> now + Duration]]
          /\ contents' = contents \cup {n}
    BY DEF Ban, Inserted
  <1>3. PICK r : r = [ip |-> ip, timeout |-> now + Duration]
    OBVIOUS
  <1>4. r \in BanRecords /\ r.ip = ip
    BY <1>3, BansTypes DEF BanRecords
  <1>5. /\ entry' \in [Nodes -> BanRecords]
        /\ \A m \in Nodes : entry'[m] = IF m = n THEN r ELSE entry[m]
    BY <1>2, <1>3, <1>4, BansTypes
  <1>6. BansTypeOK'
    BY <1>1, <1>2, <1>5 DEF BansInv, BansTypeOK, BanRecords
  <1>7. contents \subseteq Nodes
    BY BansTypes
  <1>8. \A m \in contents' : entry'[m].ip \in Addresses
    BY <1>2, <1>4, <1>5, <1>7 DEF BansInv
  <1>9. \A m, o \in contents' : entry'[m].ip = entry'[o].ip => m = o
    BY <1>1, <1>2, <1>4, <1>5, <1>7 DEF BansInv
  <1>10. deletions' = <<>> /\ deleted' = 0 /\ Len(deletions') = 0
    BY <1>1 DEF BansInv
  <1> QED  BY <1>1, <1>6, <1>8, <1>9, <1>10 DEF BansInv

LEMMA LiftStep ==
  ASSUME BansInv, NEW ip \in Addresses, Lift(ip)
  PROVE  BansInv'
  <1>1. sought = 0
        /\ UNCHANGED <<now, file, changed, file_recheck, deletions, deleted, sought, freed_used>>
    BY DEF Lift
  <1>2. PICK p \in Paths(ip) :
          IF Found(ip, p) THEN Removed(Last(p)) ELSE UNCHANGED <<entry, contents>>
    BY DEF Lift
  <1>3. /\ entry' \in [Nodes -> BanRecords]
        /\ \A m \in contents' : m \in contents /\ entry'[m] = entry[m]
    <2>1. CASE Found(ip, p)
      <3>1. Last(p) \in contents
        BY <2>1, WalkEnds
      <3> QED  BY <1>2, <2>1, <3>1, Removing1
    <2>2. CASE ~Found(ip, p)
      BY <1>2, <2>2, BansTypes
    <2> QED  BY <2>1, <2>2
  <1>4. deletions = <<>> /\ deleted = 0 /\ sought \in Addresses \cup {0} /\ freed_used \in BOOLEAN
        /\ deletions \in Seq(Nodes) /\ Len(deletions) <= MaxNoted /\ deleted \in 0..Len(deletions)
    BY <1>1 DEF BansInv, BansTypeOK
  <1>5. Len(deletions) = 0
    BY <1>4
  <1> QED  BY <1>1, <1>3, <1>4, <1>5, BansStay

LEMMA RecheckStep ==
  ASSUME BansInv, Rechecks
  PROVE  BansInv'
  <1>1. /\ sought = 0 /\ file_recheck' = now + Recheck /\ changed' = FALSE
        /\ UNCHANGED <<now, file, deleted, sought, freed_used>> /\ deletions' = deletions
    BY DEF Rechecks
  <1>2. /\ deletions = <<>> /\ deleted = 0 /\ Len(deletions) = 0 /\ now \in Nat /\ Recheck \in Nat
        /\ file \subseteq Addresses
    BY <1>1, BansTypes DEF BansInv, BansTypeOK
  <1>3. ASSUME entry' \in [Nodes -> BanRecords], contents' \subseteq Nodes,
               \A n \in contents' : entry'[n].ip \in Addresses,
               \A n, m \in contents' : entry'[n].ip = entry'[m].ip => n = m
        PROVE  BansInv'
    <2>1. file_recheck' \in Nat /\ file_recheck' <= now' + Recheck
      BY <1>1, <1>2
    <2>2. BansTypeOK'
      BY <1>1, <1>3, <2>1 DEF BansInv, BansTypeOK, BanRecords
    <2> QED  BY <1>1, <1>2, <1>3, <2>1, <2>2 DEF BansInv
  <1>4. CASE ~changed
    <2>1. entry' = entry /\ contents' = contents
      BY <1>4 DEF Rechecks
    <2> QED  BY <1>3, <2>1, BansTypes DEF BansInv
  <1>5. CASE changed
    <2>1. PICK ips, node : ips = SetToSeq(file) /\ node = SetToSeq(Nodes)
      OBVIOUS
    <2>2. /\ entry' = [n \in Nodes |->
                         IF \E i \in DOMAIN ips : node[i] = n
                         THEN [ip |-> ips[CHOOSE i \in DOMAIN ips : node[i] = n], timeout |-> 0]
                         ELSE FreeEntry]
          /\ contents' = {node[i] : i \in DOMAIN ips}
      BY <1>5, <2>1 DEF Rechecks
    <2>3. /\ IsFiniteSet(file) /\ IsFiniteSet(Nodes)
          /\ Cardinality(file) <= Cardinality(Nodes)
      <3>1. IsFiniteSet(file) /\ Cardinality(file) <= Cardinality(Addresses)
        BY <1>2, BansAssumption, FS_Subset
      <3>2. /\ Cardinality(file) \in Nat /\ Cardinality(Addresses) \in Nat /\ Cardinality(Nodes) \in Nat
        BY <3>1, BansAssumption, FS_CardinalityType
      <3> QED  BY <3>1, <3>2, BansAssumption
    <2>4. PICK n \in Nat, m \in Nat :
            /\ n = Cardinality(file) /\ m = Cardinality(Nodes) /\ n <= m
            /\ DOMAIN ips = 1..n /\ ips \in Seq(file)
            /\ \A i, j \in 1..n : ips[i] = ips[j] => i = j
      BY <2>1, <2>3, SeqOfSet
    <2>5. /\ node \in Seq(Nodes) /\ DOMAIN node = 1..m
          /\ \A i, j \in 1..m : node[i] = node[j] => i = j
      BY <2>1, <2>3, <2>4, SeqOfSet
    <2>6. \A i \in 1..n : /\ i \in 1..m /\ node[i] \in Nodes /\ ips[i] \in Addresses
      BY <1>2, <2>4, <2>5
    <2>7. \A i \in 1..n : (CHOOSE j \in DOMAIN ips : node[j] = node[i]) = i
      BY <2>4, <2>5, <2>6
    <2>8. \A i \in 1..n : entry'[node[i]] = [ip |-> ips[i], timeout |-> 0]
      <3> TAKE i \in 1..n
      <3>1. \E j \in DOMAIN ips : node[j] = node[i]
        BY <2>4
      <3>2. entry'[node[i]] =
              [ip |-> ips[CHOOSE j \in DOMAIN ips : node[j] = node[i]], timeout |-> 0]
        BY <2>2, <2>6, <3>1
      <3> QED  BY <2>7, <3>2
    <2>9. ASSUME NEW k \in Nodes  PROVE entry'[k] \in BanRecords
      <3>1. CASE \E i \in DOMAIN ips : node[i] = k
        <4>1. PICK i \in 1..n : node[i] = k
          BY <2>4, <3>1
        <4>2. PICK a \in Addresses : a = ips[i]
          BY <2>6
        <4>3. [ip |-> a, timeout |-> 0] \in BanRecords
          BY DEF BanRecords
        <4> QED  BY <2>8, <4>1, <4>2, <4>3
      <3>2. CASE ~\E i \in DOMAIN ips : node[i] = k
        <4>1. entry'[k] = FreeEntry
          BY <2>2, <3>2
        <4> QED  BY <4>1 DEF FreeEntry, BanRecords
      <3> QED  BY <3>1, <3>2
    <2>10. entry' \in [Nodes -> BanRecords]
      BY <2>2, <2>9
    <2>11. \A k \in contents' : \E i \in 1..n : k = node[i] /\ entry'[k].ip = ips[i]
      <3> TAKE k \in contents'
      <3>1. PICK i \in 1..n : k = node[i]
        BY <2>2, <2>4
      <3>2. entry'[k] = [ip |-> ips[i], timeout |-> 0]
        BY <2>8, <3>1
      <3> QED  BY <3>1, <3>2
    <2>12. contents' \subseteq Nodes /\ \A k \in contents' : entry'[k].ip \in Addresses
      BY <2>6, <2>11
    <2>13. \A k, l \in contents' : entry'[k].ip = entry'[l].ip => k = l
      BY <2>4, <2>11
    <2> QED  BY <1>3, <2>10, <2>12, <2>13
  <1> QED  BY <1>4, <1>5

(* The list is empty at the start.                                         *)
LEMMA BansBegin == BansInit => BansInv
  <1> SUFFICES ASSUME BansInit PROVE BansInv
    OBVIOUS
  <1>1. /\ now = 0 /\ file \subseteq Addresses /\ changed = TRUE /\ file_recheck = 0
        /\ entry = [n \in Nodes |-> FreeEntry] /\ contents = {} /\ deletions = <<>> /\ deleted = 0
        /\ sought = 0 /\ freed_used = FALSE
    BY DEF BansInit
  <1>2. {MaxNoted, MaxTime, Recheck} \subseteq Nat
    BY BansAssumption
  <1>3. FreeEntry \in BanRecords
    BY DEF FreeEntry, BanRecords
  <1>4. deletions \in Seq(Nodes) /\ Len(deletions) = 0
    BY <1>1
  <1>5. entry \in [Nodes -> BanRecords]
    BY <1>1, <1>3
  <1>6. BansTypeOK
    <2>1. now \in 0..MaxTime /\ deleted \in 0..Len(deletions) /\ Len(deletions) <= MaxNoted
      BY <1>1, <1>2, <1>4
    <2>2. entry \in [Nodes -> [ip : Addresses \cup {0}, timeout : Nat]]
      BY <1>5 DEF BanRecords
    <2> QED  BY <1>1, <1>4, <2>1, <2>2 DEF BansTypeOK
  <1> QED  BY <1>1, <1>2, <1>4, <1>6 DEF BansInv

LEMMA BansStep ==
  ASSUME ~Twice, BansInv, [BansNext]_bans
  PROVE  /\ BansInv'
         /\ bans' = bans \/ /\ Len(deletions') <= MaxNoted
                            /\ sought # 0 \/ sought' # 0 => SearchKeeps
  <1>1. CASE UNCHANGED bans
    BY <1>1 DEF bans, BansInv, BansTypeOK, Over
  <1>2. deletions \in Seq(Nodes) /\ Len(deletions) <= MaxNoted
    BY DEF BansInv, BansTypeOK
  <1>3. ASSUME NEW ip \in Addresses, Ban(ip)  PROVE
          BansInv' /\ sought = 0 /\ sought' = 0 /\ deletions' = deletions
    BY <1>3, BanStep DEF Ban
  <1>4. ASSUME NEW ip \in Addresses, Lift(ip)  PROVE
          BansInv' /\ sought = 0 /\ sought' = 0 /\ deletions' = deletions
    BY <1>4, LiftStep DEF Lift
  <1>5. CASE Rechecks
    <2>1. sought = 0 /\ sought' = 0 /\ deletions' = deletions
      BY <1>5 DEF Rechecks
    <2> QED  BY <1>2, <1>5, <2>1, RecheckStep
  <1>6. CASE Edit
    <2>1. /\ sought = 0 /\ file' \subseteq Addresses /\ changed' = TRUE
          /\ UNCHANGED <<now, file_recheck, entry, contents, deletions, deleted, sought, freed_used>>
      BY <1>6 DEF Edit
    <2>2. BansInv'
      BY <2>1 DEF BansInv, BansTypeOK, Over
    <2> QED  BY <1>2, <2>1, <2>2
  <1>7. CASE Tick
    <2>1. /\ sought = 0 /\ now < MaxTime /\ now' = now + 1
          /\ UNCHANGED <<file, changed, file_recheck, entry, contents, deletions, deleted, sought, freed_used>>
      BY <1>7 DEF Tick
    <2>2. now' \in 0..MaxTime /\ file_recheck' <= now' + Recheck
      BY <2>1, BansTypes DEF BansInv, BansTypeOK
    <2>3. BansTypeOK'
      BY <2>1, <2>2 DEF BansInv, BansTypeOK
    <2>4. BansInv'
      BY <2>1, <2>2, <2>3 DEF BansInv, Over
    <2> QED  BY <1>2, <2>1, <2>4
  <1>8. ASSUME NEW ip \in Addresses, Search(ip)  PROVE BansInv' /\ SearchKeeps
    BY <1>8, SearchStep
  <1>9. CASE Deletes
    BY <1>9, DeletesStep DEF SearchKeeps
  <1>10. CASE SearchEnds
    BY <1>10, EndStep DEF SearchKeeps
  <1>11. SearchKeeps => Len(deletions') <= MaxNoted
    BY DEF SearchKeeps
  <1> QED  BY <1>1, <1>2, <1>3, <1>4, <1>5, <1>6, <1>7, <1>8, <1>9, <1>10, <1>11 DEF BansNext

(* If no address is banned again while it is listed: for any addresses,    *)
(* trees and room for stale entries, a search with all the deletions it    *)
(* makes ends no ban that still runs, and notes no more than there is room *)
(* for (connection.c search_banned_ip_locked, compare_banned_ip).          *)
THEOREM BansStand == ASSUME ~Twice PROVE BansSpec => BansKept
  <1>1. BansInit => BansInv
    BY BansBegin
  <1>2. BansInv /\ [BansNext]_bans => BansInv'
    BY BansStep
  <1>3. BansInv /\ [BansNext]_bans =>
          [/\ Len(deletions') <= MaxNoted
           /\ sought # 0 \/ sought' # 0 => \A ip \in Addresses : Banned(ip) => Banned(ip)']_bans
    <2> SUFFICES ASSUME BansInv, [BansNext]_bans, bans' # bans
                 PROVE  /\ Len(deletions') <= MaxNoted
                        /\ sought # 0 \/ sought' # 0 =>
                             \A ip \in Addresses : Banned(ip) => Banned(ip)'
      OBVIOUS
    <2>1. /\ Len(deletions') <= MaxNoted
          /\ sought # 0 \/ sought' # 0 => SearchKeeps
      BY BansStep
    <2>2. ASSUME sought # 0 \/ sought' # 0  PROVE now' = now
      BY <2>2 DEF BansNext, Ban, Lift, Rechecks, Search, Deletes, SearchEnds, Edit, Tick, bans
    <2> QED  BY <2>1, <2>2 DEF SearchKeeps, Listed, Banned
  <1> QED  BY <1>1, <1>2, <1>3, PTL DEF BansSpec, BansKept

-------------------------------------------------------------------------------
(* The listings at directories.                                            *)

(* There is memory enough.                                                 *)
LEMMA Injects ==
  ASSUME NEW S, NEW T, IsFiniteSet(S), IsFiniteSet(T), Cardinality(S) <= Cardinality(T)
  PROVE  \E f \in [S -> T] : \A a, b \in S : f[a] = f[b] => a = b
  <1>1. PICK n \in Nat, m \in Nat : n = Cardinality(S) /\ m = Cardinality(T) /\ n <= m
    BY FS_CardinalityType
  <1>2. PICK s \in [1..n -> S] : \A x \in S : \E i \in 1..n : s[i] = x
    BY <1>1, FS_CardinalityType DEF ExistsBijection, Bijection, Surjection
  <1>3. PICK t \in [1..m -> T] : IsInjective(t)
    BY <1>1, FS_CardinalityType DEF ExistsBijection, Bijection, Injection
  <1>4. PICK h : h = [x \in S |-> CHOOSE i \in 1..n : s[i] = x]
    OBVIOUS
  <1>5. \A x \in S : h[x] \in 1..n /\ s[h[x]] = x
    BY <1>2, <1>4
  <1>6. PICK f : f = [x \in S |-> t[h[x]]]
    OBVIOUS
  <1>7. f \in [S -> T]
    BY <1>1, <1>3, <1>5, <1>6
  <1>8. \A a, b \in S : f[a] = f[b] => a = b
    <2>1. \A a \in S : f[a] = t[h[a]] /\ h[a] \in 1..m
      BY <1>1, <1>5, <1>6
    <2> QED  BY <1>3, <1>5, <2>1 DEF IsInjective
  <1> QED  BY <1>7, <1>8

LEMMA MemoryChosen ==
  ASSUME NEW S, NEW T, IsFiniteSet(S), IsFiniteSet(T), Cardinality(S) <= Cardinality(T)
  PROVE  Memory(S, T) \in [S -> T] /\ \A a, b \in S : Memory(S, T)[a] = Memory(S, T)[b] => a = b
  <1>1. PICK f \in [S -> T] : \A a, b \in S : a # b => f[a] # f[b]
    BY Injects
  <1> QED  BY <1>1 DEF Memory

(* Which servers stay of the first i, for each i to k.                     *)
Stays(f, s, d, k) ==
  f = [i \in 0..k |-> IF i = 0 THEN <<>>
                      ELSE IF s[i] \in d THEN f[i - 1] ELSE Append(f[i - 1], s[i])]

LEMMA StaysExist ==
  ASSUME NEW s, NEW d, NEW k \in Nat
  PROVE  \E f : Stays(f, s, d, k)
  <1> SUFFICES ASSUME ~\E f : Stays(f, s, d, k) PROVE FALSE
    OBVIOUS
  <1>1. PICK T : T = {j \in Nat : ~\E f : Stays(f, s, d, j)}
    OBVIOUS
  <1>2. PICK j \in T : \A m \in T : j <= m
    <2>1. T \subseteq Nat /\ T # {}
      BY <1>1
    <2> QED  BY <2>1, NatMin
  <1>3. j \in Nat /\ ~\E f : Stays(f, s, d, j)
    BY <1>1, <1>2
  <1>4. j # 0
    <2>1. Stays([n \in 0..0 |-> <<>>], s, d, 0)
      BY DEF Stays
    <2> QED  BY <1>3, <2>1
  <1>5. j - 1 \in Nat /\ j - 1 \notin T
    BY <1>2, <1>3, <1>4
  <1>6. PICK g : Stays(g, s, d, j - 1)
    BY <1>1, <1>5
  <1>7. PICK f : f = [n \in 0..j |->
                        IF n = j THEN IF s[j] \in d THEN g[j - 1] ELSE Append(g[j - 1], s[j])
                        ELSE g[n]]
    OBVIOUS
  <1>8. \A n \in 0..j : n # j => n \in 0..(j - 1) /\ f[n] = g[n]
    BY <1>3, <1>7
  <1>9. ASSUME NEW n \in 0..j
        PROVE  f[n] = IF n = 0 THEN <<>>
                      ELSE IF s[n] \in d THEN f[n - 1] ELSE Append(f[n - 1], s[n])
    <2>1. CASE n = 0
      BY <1>3, <1>4, <1>6, <1>8, <2>1 DEF Stays
    <2>2. CASE n # 0
      <3>1. n - 1 \in 0..j /\ n - 1 # j /\ f[n - 1] = g[n - 1]
        BY <1>3, <1>8, <2>2
      <3>2. CASE n = j
        BY <1>7, <2>2, <3>1, <3>2
      <3>3. CASE n # j
        <4>1. n \in 0..(j - 1) /\ f[n] = g[n]
          BY <1>8, <3>3
        <4>2. g[n] = IF s[n] \in d THEN g[n - 1] ELSE Append(g[n - 1], s[n])
          BY <1>6, <2>2, <4>1 DEF Stays
        <4> QED  BY <2>2, <3>1, <4>1, <4>2
      <3> QED  BY <3>2, <3>3
    <2> QED  BY <2>1, <2>2
  <1>10. Stays(f, s, d, j)
    BY <1>7, <1>9 DEF Stays
  <1> QED  BY <1>3, <1>10

(* The servers that stay are those that do not go.                         *)
LEMMA StayingAre ==
  ASSUME active \in Seq(Servers)
  PROVE  Staying \in Seq(Servers) /\ Range(Staying) = Range(active) \ doomed
  <1>1. PICK k \in Nat : k = Len(active)
    OBVIOUS
  <1>2. PICK f : f = (CHOOSE g : Stays(g, active, doomed, k))
    OBVIOUS
  <1>3. Stays(f, active, doomed, k)
    BY <1>2, StaysExist
  <1>4. Staying = f[k]
    BY <1>1, <1>2 DEF Staying, Stays
  <1>5. ASSUME NEW l \in 0..k,
               ~(f[l] \in Seq(Servers) /\ Range(f[l]) = {active[i] : i \in 1..l} \ doomed)
        PROVE  FALSE
    <2>1. PICK T : T = {j \in 0..k :
            ~(f[j] \in Seq(Servers) /\ Range(f[j]) = {active[i] : i \in 1..j} \ doomed)}
      OBVIOUS
    <2>2. PICK n \in T : \A m \in T : n <= m
      <3>1. T \subseteq Nat /\ T # {}
        BY <1>5, <2>1
      <3> QED  BY <3>1, NatMin
    <2>3. n \in 0..k
          /\ ~(f[n] \in Seq(Servers) /\ Range(f[n]) = {active[i] : i \in 1..n} \ doomed)
      BY <2>1, <2>2
    <2>4. n # 0
      <3>1. f[0] = <<>>
        BY <1>3 DEF Stays
      <3>2. Range(<<>>) = {} /\ <<>> \in Seq(Servers)
        BY DEF Range
      <3>3. {active[i] : i \in 1..0} = {}
        OBVIOUS
      <3> QED  BY <2>3, <3>1, <3>2, <3>3
    <2>5. n - 1 \in 0..k /\ n - 1 \notin T
      BY <2>2, <2>3, <2>4
    <2>6. PICK s : s = f[n - 1]
      OBVIOUS
    <2>7. s \in Seq(Servers) /\ Range(s) = {active[i] : i \in 1..(n - 1)} \ doomed
      BY <2>1, <2>5, <2>6
    <2>8. f[n] = IF active[n] \in doomed THEN s ELSE Append(s, active[n])
      BY <1>3, <2>3, <2>4, <2>6 DEF Stays
    <2>9. {active[i] : i \in 1..n} = {active[i] : i \in 1..(n - 1)} \cup {active[n]}
      <3>1. 1..n = 1..(n - 1) \cup {n}
        BY <2>3, <2>4
      <3> QED  BY <3>1
    <2>10. active[n] \in Servers
      BY <1>1, <2>3, <2>4
    <2>11. CASE active[n] \in doomed
      BY <2>3, <2>7, <2>8, <2>9, <2>11
    <2>12. CASE active[n] \notin doomed
      <3>1. Append(s, active[n]) \in Seq(Servers)
        BY <2>7, <2>10
      <3>2. Range(Append(s, active[n])) = Range(s) \cup {active[n]}
        <4>1. PICK m \in Nat : m = Len(s) /\ DOMAIN s = 1..m
          BY <2>7
        <4>2. DOMAIN Append(s, active[n]) = 1..(m + 1)
          BY <2>7, <2>10, <4>1
        <4>3. \A i \in 1..m : Append(s, active[n])[i] = s[i]
          BY <2>7, <2>10, <4>1
        <4>4. Append(s, active[n])[m + 1] = active[n]
          BY <2>7, <2>10, <4>1
        <4>5. 1..(m + 1) = 1..m \cup {m + 1}
          BY <4>1
        <4> QED  BY <4>1, <4>2, <4>3, <4>4, <4>5 DEF Range
      <3> QED  BY <2>3, <2>7, <2>8, <2>9, <2>12, <3>1, <3>2
    <2> QED  BY <2>11, <2>12
  <1>6. Range(active) = {active[i] : i \in 1..k}
    BY <1>1 DEF Range
  <1>7. k \in 0..k
    BY <1>1
  <1> QED  BY <1>4, <1>5, <1>6, <1>7
(* What is kept of an entry, and the changes sources ask for.              *)
ListingRecords ==
  [at : {"free", "pending", "listed"}, stream : Streams \cup {"none"},
   server : Servers \cup {"none"}, next : 0..2, process : {"add", "touch"},
   sid : BOOLEAN, release : BOOLEAN, remove : BOOLEAN]
Changes == [kind : {"add", "remove", "touch"}, stream : Streams]

(* An entry the next run must not be too late for: it is listed and stays, *)
(* and the run that goes on has no more to do with it.                     *)
Awaits(l) == /\ listing[l].at = "listed" /\ ~listing[l].remove /\ ~listing[l].release
             /\ ypclient = "talks" => l \notin todo
InTimeInv ==
  /\ ListsTypeOK
  /\ joining \cap Range(active) = {} /\ doomed \subseteq Range(active)
  /\ \A l \in Listings : listing[l].at # "free" => listing[l].server \in Range(active)
  /\ \A l \in Listings : Awaits(l) => counter <= listing[l].next

LEMMA ListsTypes ==
  ASSUME InTimeInv
  PROVE  /\ listing \in [Listings -> ListingRecords] /\ active \in Seq(Servers)
         /\ queue \in Seq(Changes) /\ batch \in Seq(Changes) /\ counter \in 0..3
         /\ joining \subseteq Servers /\ doomed \subseteq Servers /\ Range(active) \subseteq Servers
  <1>1. active \in Seq(Servers)
    BY DEF InTimeInv, ListsTypeOK
  <1>2. Range(active) \subseteq Servers
    BY <1>1 DEF Range
  <1> QED  BY <1>1, <1>2 DEF InTimeInv, ListsTypeOK, ListingRecords, Changes, Never

LEMMA InTimeRight == InTimeInv => RunInTime
  BY DEF InTimeInv, Awaits, RunInTime, InTime, EntriesOf

(* What keeps entries in time: each is as it was, or exempt, or the run is *)
(* brought forward to it.                                                  *)
LEMMA InTimeStep ==
  ASSUME InTimeInv, ListsTypeOK',
         joining' \cap Range(active)' = {}, doomed' \subseteq Range(active)',
         \A l \in Listings : listing'[l].at # "free" => listing'[l].server \in Range(active)',
         \A l \in Listings :
           (/\ listing'[l].at = "listed" /\ ~listing'[l].remove /\ ~listing'[l].release
            /\ ypclient' = "talks" => l \notin todo')
           => \/ Awaits(l) /\ listing'[l].next = listing[l].next /\ counter' <= counter
              \/ counter' <= listing'[l].next
  PROVE  InTimeInv'
  <1>1. ASSUME NEW l \in Listings,
               listing'[l].at = "listed" /\ ~listing'[l].remove /\ ~listing'[l].release,
               ypclient' = "talks" => l \notin todo'
        PROVE  counter' <= listing'[l].next
    <2>1. CASE Awaits(l) /\ listing'[l].next = listing[l].next /\ counter' <= counter
      <3>1. counter <= listing[l].next
        BY <2>1 DEF InTimeInv
      <3>2. counter \in Int
        BY ListsTypes
      <3>3. counter' \in Int
        BY DEF ListsTypeOK, Never
      <3>4. PICK r \in ListingRecords : r = listing[l]
        BY ListsTypes
      <3>5. r.next \in Int
        BY <3>4 DEF ListingRecords
      <3> QED  BY <2>1, <3>1, <3>2, <3>3, <3>4, <3>5
    <2>2. CASE counter' <= listing'[l].next
      BY <2>2
    <2> QED  BY <1>1, <2>1, <2>2
  <1> QED  BY <1>1 DEF InTimeInv, Awaits

(* Steps that touch neither the entries nor the time of the next run.      *)
LEMMA PlainStep ==
  ASSUME InTimeInv, listing' = listing, active' = active, joining' = joining, doomed' = doomed,
         counter' = counter, ListsTypeOK',
         \/ ypclient' # "talks" /\ ypclient # "talks"
         \/ ypclient' = ypclient /\ todo' = todo
  PROVE  InTimeInv'
  <1>1. counter \in Int
    BY ListsTypes
  <1>2. \A l \in Listings :
           (/\ listing'[l].at = "listed" /\ ~listing'[l].remove /\ ~listing'[l].release
            /\ ypclient' = "talks" => l \notin todo')
           => Awaits(l) /\ listing'[l].next = listing[l].next /\ counter' <= counter
    BY <1>1 DEF Awaits
  <1> QED  BY <1>2, InTimeStep DEF InTimeInv

LEMMA QueueStep ==
  ASSUME InTimeInv, NEW m \in Streams, Publishes(m) \/ Retitles(m)
  PROVE  InTimeInv'
  <1>1. PICK c \in Changes : queue' = Append(queue, c)
    BY DEF Publishes, Retitles, Queued, Changes
  <1>2. queue' \in Seq(Changes)
    BY <1>1, ListsTypes
  <1>3. /\ UNCHANGED <<batch, listing, active, joining, doomed, update, counter, ypclient, todo>>
        /\ public' \in [Streams -> BOOLEAN] /\ turns' \in 0..MaxTurns
    <2>1. CASE Publishes(m)
      <3>1. turns' \in 0..MaxTurns
        BY <2>1, ListsAssumption DEF Publishes, InTimeInv, ListsTypeOK
      <3>2. public' \in [Streams -> BOOLEAN]
        BY <2>1 DEF Publishes, InTimeInv, ListsTypeOK
      <3> QED  BY <2>1, <3>1, <3>2 DEF Publishes
    <2>2. CASE Retitles(m)
      BY <2>2 DEF Retitles, InTimeInv, ListsTypeOK
    <2> QED  BY <2>1, <2>2
  <1>4. ListsTypeOK'
    BY <1>2, <1>3 DEF InTimeInv, ListsTypeOK, Changes
  <1> QED  BY <1>3, <1>4, PlainStep

LEMMA EasyStep ==
  ASSUME InTimeInv, Detaches \/ ClientEnds \/ Ended \/ Talked
  PROVE  InTimeInv'
  <1>1. /\ listing' = listing /\ active' = active /\ joining' = joining /\ doomed' = doomed
        /\ counter' = counter /\ update' = update /\ public' = public /\ turns' = turns /\ todo' = todo
        /\ \/ queue' = queue /\ batch' = batch
           \/ queue' = <<>> /\ batch' = queue
        /\ ypclient' \in {"absent", "polls", "ending", "talks", "tidies"}
    BY DEF Detaches, ClientEnds, Ended, Talked, SourcesIdle, InTimeInv, ListsTypeOK
  <1>2. <<>> \in Seq(Changes)
    OBVIOUS
  <1>3. ListsTypeOK'
    BY <1>1, <1>2 DEF InTimeInv, ListsTypeOK, Changes
  <1>4. CASE Talked
    <2>1. ypclient' # "talks" /\ todo = {}
      BY <1>4 DEF Talked
    <2>2. counter \in Int
      BY ListsTypes
    <2>3. \A l \in Listings :
            (/\ listing'[l].at = "listed" /\ ~listing'[l].remove /\ ~listing'[l].release
             /\ ypclient' = "talks" => l \notin todo')
            => Awaits(l) /\ listing'[l].next = listing[l].next /\ counter' <= counter
      BY <1>1, <2>1, <2>2 DEF Awaits
    <2> QED  BY <1>1, <1>3, <2>3, InTimeStep DEF InTimeInv
  <1>5. CASE ~Talked
    <2>1. \/ ypclient' # "talks" /\ ypclient # "talks"
          \/ ypclient' = ypclient
      BY <1>5 DEF Detaches, ClientEnds, Ended
    <2> QED  BY <1>1, <1>3, <2>1, PlainStep
  <1> QED  BY <1>4, <1>5

LEMMA StartStep ==
  ASSUME InTimeInv, Starts
  PROVE  InTimeInv'
  <1>1. /\ counter' = Never /\ ypclient' = "talks"
        /\ todo' = {l \in Listings : listing[l].at = "listed" /\ listing[l].server \in Range(active)}
        /\ UNCHANGED <<listing, active, joining, doomed, update, public, turns, queue, batch>>
    BY DEF Starts, SourcesIdle
  <1>2. ListsTypeOK'
    BY <1>1 DEF InTimeInv, ListsTypeOK, Never
  <1>3. \A l \in Listings : listing'[l].at = "listed" => l \in todo'
    BY <1>1 DEF InTimeInv
  <1> QED  BY <1>1, <1>2, <1>3, InTimeStep DEF InTimeInv

LEMMA ProcessStep ==
  ASSUME InTimeInv, NEW l \in Listings, Process(l)
  PROVE  InTimeInv'
  <1>1. PICK r \in ListingRecords : r = listing[l]
    BY ListsTypes
  <1>2. PICK answer \in Answers :
          LET s == listing[l].server  skip == s \in failed
              asks == ~skip /\ Due(l)
              down == asks /\ answer = "down" /\ (listing[l].release => listing[l].sid)
                        /\ (listing[l].process = "touch" => listing[l].sid \/ listing[l].release)
          IN \E e \in IF skip THEN {[listing[l] EXCEPT !.process = "add", !.next = 1]}
                   ELSE IF asks THEN Sent(l, answer) ELSE {listing[l]} :
             /\ ~asks => answer = "ok"
             /\ listing' = [listing EXCEPT ![l] = e]
             /\ failed' = IF down THEN failed \cup {s} ELSE failed
             /\ update' = (update \/ (e.remove /\ asks))
             /\ counter' = IF e.remove THEN counter ELSE Earliest(counter, e.next)
    BY DEF Process
  <1>3. PICK e :
          /\ e \in {[r EXCEPT !.process = "add", !.next = 1], r} \cup Sent(l, answer)
          /\ listing' = [listing EXCEPT ![l] = e]
          /\ counter' = IF e.remove THEN counter ELSE Earliest(counter, e.next)
    BY <1>1, <1>2
  <1>4. update' \in BOOLEAN
    BY <1>2
  <1>5. /\ ypclient = "talks" /\ todo' = todo \ {l}
        /\ UNCHANGED <<active, joining, doomed, ypclient, public, turns, queue, batch>>
    BY DEF Process, SourcesIdle
  <1>6. e \in ListingRecords /\ e.at = r.at /\ e.server = r.server
    <2>1. ASSUME NEW n \in 0..2
          PROVE  /\ [r EXCEPT !.next = n] \in ListingRecords
                 /\ [r EXCEPT !.next = n].at = r.at /\ [r EXCEPT !.next = n].server = r.server
      BY <1>1 DEF ListingRecords
    <2>2. ASSUME NEW n \in 0..2, NEW p \in {"add", "touch"}
          PROVE  /\ [r EXCEPT !.process = p, !.next = n] \in ListingRecords
                 /\ [r EXCEPT !.process = p, !.next = n].at = r.at
                 /\ [r EXCEPT !.process = p, !.next = n].server = r.server
      BY <1>1 DEF ListingRecords
    <2>3. ASSUME NEW n \in 0..2, NEW sid \in BOOLEAN
          PROVE  /\ [r EXCEPT !.process = "touch", !.next = n, !.sid = sid] \in ListingRecords
                 /\ [r EXCEPT !.process = "touch", !.next = n, !.sid = sid].at = r.at
                 /\ [r EXCEPT !.process = "touch", !.next = n, !.sid = sid].server = r.server
      BY <1>1 DEF ListingRecords
    <2>4. ASSUME NEW n \in 0..2, NEW sid \in BOOLEAN
          PROVE  /\ [r EXCEPT !.process = "add", !.sid = sid, !.next = n] \in ListingRecords
                 /\ [r EXCEPT !.process = "add", !.sid = sid, !.next = n].at = r.at
                 /\ [r EXCEPT !.process = "add", !.sid = sid, !.next = n].server = r.server
      BY <1>1 DEF ListingRecords
    <2>5. ASSUME NEW n \in 0..2
          PROVE  /\ [r EXCEPT !.sid = FALSE, !.remove = TRUE, !.process = "add", !.next = n] \in ListingRecords
                 /\ [r EXCEPT !.sid = FALSE, !.remove = TRUE, !.process = "add", !.next = n].at = r.at
                 /\ [r EXCEPT !.sid = FALSE, !.remove = TRUE, !.process = "add", !.next = n].server = r.server
      BY <1>1 DEF ListingRecords
    <2>6. CASE e \in {[r EXCEPT !.process = "add", !.next = 1], r}
      <3>1. CASE e = r
        BY <1>1, <3>1
      <3>2. CASE e = [r EXCEPT !.process = "add", !.next = 1]
        BY <2>2, <3>2
      <3> QED  BY <2>6, <3>1, <3>2
    <2>7. CASE e \in Sent(l, answer)
      <3>1. CASE r.release
        <4>1. PICK n \in 0..2 : n = IF r.sid /\ answer = "down" THEN 2 ELSE 0
          OBVIOUS
        <4>2. e = [r EXCEPT !.sid = FALSE, !.remove = TRUE, !.process = "add", !.next = n]
          BY <1>1, <2>7, <3>1, <4>1 DEF Sent
        <4> QED  BY <2>5, <4>2
      <3>2. CASE ~r.release /\ r.process = "touch" /\ ~r.sid
        <4>1. e = [r EXCEPT !.process = "add", !.next = 1]
          BY <1>1, <2>7, <3>2 DEF Sent
        <4> QED  BY <2>2, <4>1
      <3>3. CASE ~r.release /\ ~(r.process = "touch" /\ ~r.sid)
        <4>1. CASE answer = "ok" /\ r.process = "touch"
          <5>1. e = [r EXCEPT !.next = 1]
            BY <1>1, <2>7, <3>3, <4>1 DEF Sent
          <5> QED  BY <2>1, <5>1
        <4>2. CASE answer = "ok" /\ r.process # "touch"
          <5>1. PICK sid \in {r.sid, TRUE} : e = [r EXCEPT !.process = "touch", !.next = 1, !.sid = sid]
            BY <1>1, <2>7, <3>3, <4>2 DEF Sent
          <5>2. sid \in BOOLEAN
            BY <1>1 DEF ListingRecords
          <5>3. 1 \in 0..2
            OBVIOUS
          <5>4. /\ [r EXCEPT !.process = "touch", !.next = 1, !.sid = sid] \in ListingRecords
                /\ [r EXCEPT !.process = "touch", !.next = 1, !.sid = sid].at = r.at
                /\ [r EXCEPT !.process = "touch", !.next = 1, !.sid = sid].server = r.server
            BY <2>3, <5>2, <5>3
          <5> QED  BY <5>1, <5>4
        <4>3. CASE answer = "refused"
          <5>1. \/ e = [r EXCEPT !.process = "add", !.sid = FALSE, !.next = 2]
                \/ e = [r EXCEPT !.next = 1]
            BY <1>1, <2>7, <3>3, <4>3 DEF Sent
          <5>2. CASE e = [r EXCEPT !.process = "add", !.sid = FALSE, !.next = 2]
            <6>1. 2 \in 0..2 /\ FALSE \in BOOLEAN
              OBVIOUS
            <6> QED  BY <2>4, <5>2, <6>1
          <5>3. CASE e = [r EXCEPT !.next = 1]
            BY <2>1, <5>3
          <5> QED  BY <5>1, <5>2, <5>3
        <4>4. CASE answer = "down"
          <5>1. e = [r EXCEPT !.process = "add", !.next = 2]
            BY <1>1, <2>7, <3>3, <4>4 DEF Sent
          <5> QED  BY <2>2, <5>1
        <4> QED  BY <4>1, <4>2, <4>3, <4>4 DEF Answers
      <3> QED  BY <3>1, <3>2, <3>3
    <2> QED  BY <1>3, <2>6, <2>7
  <1>7. e.next \in 0..2 /\ counter \in 0..3
    BY <1>6, ListsTypes DEF ListingRecords
  <1>8. counter' \in 0..3 /\ counter' <= counter /\ (~e.remove => counter' <= e.next)
    BY <1>3, <1>7 DEF Earliest
  <1>9. /\ listing' \in [Listings -> ListingRecords]
        /\ \A k \in Listings : listing'[k] = IF k = l THEN e ELSE listing[k]
    BY <1>3, <1>6, ListsTypes
  <1>10. ListsTypeOK'
    BY <1>4, <1>5, <1>8, <1>9 DEF InTimeInv, ListsTypeOK, ListingRecords, Never
  <1>11. \A k \in Listings : listing'[k].at = listing[k].at /\ listing'[k].server = listing[k].server
    BY <1>1, <1>6, <1>9
  <1>12. ASSUME NEW k \in Listings,
                listing'[k].at = "listed" /\ ~listing'[k].remove /\ ~listing'[k].release,
                ypclient' = "talks" => k \notin todo'
         PROVE  \/ Awaits(k) /\ listing'[k].next = listing[k].next /\ counter' <= counter
                \/ counter' <= listing'[k].next
    <2>1. CASE k = l
      BY <1>8, <1>9, <1>12, <2>1
    <2>2. CASE k # l
      BY <1>5, <1>8, <1>9, <1>12, <2>2 DEF Awaits
    <2> QED  BY <2>1, <2>2
  <1> QED  BY <1>5, <1>10, <1>11, <1>12, InTimeStep DEF InTimeInv

(* New entries wait to be listed, and the others are as they were.         *)
LEMMA MadeRight ==
  ASSUME InTimeInv, NEW m \in Streams, NEW needs, needs \subseteq Range(active),
         Made(m, needs, "pending", 1)
  PROVE  /\ listing' \in [Listings -> ListingRecords]
         /\ \A l \in Listings :
              \/ listing'[l].at = "pending" /\ listing'[l].server \in Range(active)
              \/ listing'[l] = listing[l]
  <1>1. PICK unused : unused = {l \in Listings : listing[l].at = "free"}
    OBVIOUS
  <1>2. needs \subseteq Servers /\ IsFiniteSet(needs) /\ IsFiniteSet(unused)
    BY <1>1, ListsTypes, ListsAssumption, FS_Subset
  <1>3. PICK pick : pick = Memory(needs, unused)
    OBVIOUS
  <1>4. Cardinality(needs) <= Cardinality(unused)
    BY <1>1 DEF Made
  <1>5. pick \in [needs -> unused] /\ \A a, b \in needs : pick[a] = pick[b] => a = b
    BY <1>2, <1>3, <1>4, MemoryChosen
  <1>6. listing' = [l \in Listings |->
             IF \E s \in needs : pick[s] = l
             THEN [Unlisted EXCEPT !.at = "pending", !.stream = m, !.next = 1,
                                   !.server = CHOOSE s \in needs : pick[s] = l]
             ELSE listing[l]]
    BY <1>1, <1>3 DEF Made
  <1>7. ASSUME NEW l \in Listings
        PROVE  /\ listing'[l] \in ListingRecords
               /\ \/ listing'[l].at = "pending" /\ listing'[l].server \in Range(active)
                  \/ listing'[l] = listing[l]
    <2>1. CASE \E s \in needs : pick[s] = l
      <3>1. PICK s \in needs : s = CHOOSE t \in needs : pick[t] = l
        BY <2>1
      <3>2. listing'[l] = [Unlisted EXCEPT !.at = "pending", !.stream = m, !.next = 1, !.server = s]
        BY <1>6, <2>1, <3>1
      <3>3. s \in Servers /\ s \in Range(active)
        BY <1>2, <3>1
      <3>4. listing'[l] = [at |-> "pending", stream |-> m, server |-> s, next |-> 1, process |-> "add",
                           sid |-> FALSE, release |-> FALSE, remove |-> FALSE]
        BY <3>2 DEF Unlisted
      <3> QED  BY <3>3, <3>4 DEF ListingRecords
    <2>2. CASE ~\E s \in needs : pick[s] = l
      BY <1>6, <2>2, ListsTypes
    <2> QED  BY <2>1, <2>2
  <1> QED  BY <1>6, <1>7

LEMMA ChangeStep ==
  ASSUME InTimeInv, Applies
  PROVE  InTimeInv'
  <1>1. PICK c \in Changes : c = Head(batch)
    BY ListsTypes DEF Applies
  <1>2. batch' \in Seq(Changes)
    BY ListsTypes DEF Applies
  <1>3. /\ ypclient # "talks"
        /\ UNCHANGED <<public, turns, queue, active, joining, doomed, ypclient, todo>>
    BY DEF Applies
  <1>4. c.stream \in Streams
    BY <1>1 DEF Changes
  <1>5. ASSUME listing' \in [Listings -> ListingRecords], update' \in BOOLEAN, counter' \in 0..3
        PROVE  ListsTypeOK'
    BY <1>2, <1>3, <1>5 DEF InTimeInv, ListsTypeOK, ListingRecords, Changes, Never
  <1>6. counter \in 0..3 /\ update \in BOOLEAN
    BY ListsTypes DEF InTimeInv, ListsTypeOK
  <1>7. CASE c.kind = "add"
    <2>1. AddCallback(c.stream)
      BY <1>1, <1>7 DEF Applies
    <2>2. PICK needs : needs = {s \in Range(active) : ~Has(s, c.stream)}
      OBVIOUS
    <2>3. /\ needs \subseteq Range(active) /\ Made(c.stream, needs, "pending", 1)
          /\ update' \in BOOLEAN /\ counter' = counter
      BY <1>6, <2>1, <2>2 DEF AddCallback
    <2>4. /\ listing' \in [Listings -> ListingRecords]
          /\ \A l \in Listings :
               \/ listing'[l].at = "pending" /\ listing'[l].server \in Range(active)
               \/ listing'[l] = listing[l]
      BY <1>4, <2>3, MadeRight
    <2>5. ListsTypeOK'
      BY <1>5, <1>6, <2>3, <2>4
    <2>6. counter' <= counter
      BY <1>6, <2>3
    <2>7. ASSUME NEW l \in Listings, listing'[l].at = "listed" /\ ~listing'[l].remove /\ ~listing'[l].release
          PROVE  Awaits(l) /\ listing'[l].next = listing[l].next
      BY <1>3, <2>4, <2>7 DEF Awaits
    <2>8. \A l \in Listings : listing'[l].at # "free" => listing'[l].server \in Range(active)'
      BY <1>3, <2>4 DEF InTimeInv
    <2> QED  BY <1>3, <2>5, <2>6, <2>7, <2>8, InTimeStep DEF InTimeInv
  <1>8. CASE c.kind = "remove"
    <2>1. RemoveCallback(c.stream)
      BY <1>1, <1>8 DEF Applies
    <2>2. PICK kept \in SUBSET Listings : kept = EntriesKept(c.stream)
      BY DEF EntriesKept
    <2>3. /\ listing' = [l \in Listings |-> IF l \in kept
                            THEN [listing[l] EXCEPT !.release = TRUE, !.next = 0] ELSE listing[l]]
          /\ update' \in BOOLEAN /\ counter' = counter
      BY <1>6, <2>1, <2>2 DEF RemoveCallback
    <2>4. ASSUME NEW l \in Listings
          PROVE  /\ listing'[l] \in ListingRecords
                 /\ listing'[l].at = listing[l].at /\ listing'[l].server = listing[l].server
                 /\ listing'[l].release \/ listing'[l] = listing[l]
      <3>1. PICK r \in ListingRecords : r = listing[l]
        BY ListsTypes
      <3>2. ASSUME NEW b \in BOOLEAN, NEW n \in 0..2
            PROVE  /\ [r EXCEPT !.release = b, !.next = n] \in ListingRecords
                   /\ [r EXCEPT !.release = b, !.next = n].at = r.at
                   /\ [r EXCEPT !.release = b, !.next = n].server = r.server
        BY <3>1 DEF ListingRecords
      <3>3. TRUE \in BOOLEAN /\ 0 \in 0..2
        OBVIOUS
      <3>4. /\ [r EXCEPT !.release = TRUE, !.next = 0] \in ListingRecords
            /\ [r EXCEPT !.release = TRUE, !.next = 0].at = r.at
            /\ [r EXCEPT !.release = TRUE, !.next = 0].server = r.server
        BY <3>2, <3>3
      <3>5. [r EXCEPT !.release = TRUE, !.next = 0].release
        <4>1. DOMAIN r = {"at", "stream", "server", "next", "process", "sid", "release", "remove"}
          BY <3>1 DEF ListingRecords
        <4> QED  BY <4>1, Zenon
      <3>6. CASE l \in kept
        <4>1. listing'[l] = [r EXCEPT !.release = TRUE, !.next = 0]
          BY <2>3, <3>1, <3>6
        <4> QED  BY <3>1, <3>4, <3>5, <4>1
      <3>7. CASE l \notin kept
        BY <2>3, <3>1, <3>7
      <3> QED  BY <3>6, <3>7
    <2>5. listing' \in [Listings -> ListingRecords]
      BY <2>3, <2>4
    <2>6. ListsTypeOK'
      BY <1>5, <1>6, <2>3, <2>5
    <2>7. counter' <= counter
      <3>1. counter' = counter
        BY <2>3
      <3>2. counter \in 0..3
        BY ListsTypes
      <3> QED  BY <3>1, <3>2
    <2>8. ASSUME NEW l \in Listings, listing'[l].at = "listed" /\ ~listing'[l].remove /\ ~listing'[l].release
          PROVE  Awaits(l) /\ listing'[l].next = listing[l].next
      BY <1>3, <2>4, <2>8 DEF Awaits
    <2> QED  BY <1>3, <2>4, <2>6, <2>7, <2>8, InTimeStep DEF InTimeInv
  <1>9. CASE c.kind = "touch"
    <2>1. PICK when \in {0, 1} :
        LET sooner == {l \in EntriesKept(c.stream) : listing[l].process = "touch" /\ ~Due(l)} IN
        /\ listing' = [l \in Listings |-> IF l \in sooner
                         THEN [listing[l] EXCEPT !.next = when] ELSE listing[l]]
        /\ counter' = IF sooner = {} THEN counter ELSE Earliest(counter, when)
        /\ UNCHANGED update
      BY <1>1, <1>9 DEF Applies, TouchCallback
    <2>2. PICK sooner \in SUBSET Listings :
            sooner = {l \in EntriesKept(c.stream) : listing[l].process = "touch" /\ ~Due(l)}
      BY DEF EntriesKept
    <2>3. /\ listing' = [l \in Listings |-> IF l \in sooner
                            THEN [listing[l] EXCEPT !.next = when] ELSE listing[l]]
          /\ counter' = IF sooner = {} THEN counter ELSE Earliest(counter, when)
          /\ update' = update
      BY <2>1, <2>2
    <2>4. counter' \in 0..3 /\ counter' <= counter /\ (sooner # {} => counter' <= when)
      BY <1>6, <2>3 DEF Earliest
    <2>5. ASSUME NEW l \in Listings
          PROVE  /\ listing'[l] \in ListingRecords
                 /\ listing'[l].at = listing[l].at /\ listing'[l].server = listing[l].server
                 /\ l \in sooner => listing'[l].next = when
                 /\ l \notin sooner => listing'[l] = listing[l]
      <3>1. PICK r \in ListingRecords : r = listing[l]
        BY ListsTypes
      <3>2. when \in 0..2
        OBVIOUS
      <3>3. /\ [r EXCEPT !.next = when] \in ListingRecords
            /\ [r EXCEPT !.next = when].at = r.at /\ [r EXCEPT !.next = when].server = r.server
            /\ [r EXCEPT !.next = when].next = when
        BY <3>1, <3>2 DEF ListingRecords
      <3>4. CASE l \in sooner
        <4>1. listing'[l] = [r EXCEPT !.next = when]
          BY <2>3, <3>1, <3>4
        <4> QED  BY <3>1, <3>3, <3>4, <4>1
      <3>5. CASE l \notin sooner
        BY <2>3, <3>1, <3>5
      <3> QED  BY <3>4, <3>5
    <2>6. listing' \in [Listings -> ListingRecords]
      BY <2>3, <2>5
    <2>7. ListsTypeOK'
      BY <1>5, <1>6, <2>3, <2>4, <2>6
    <2>8. ASSUME NEW l \in Listings, listing'[l].at = "listed" /\ ~listing'[l].remove /\ ~listing'[l].release
          PROVE  \/ Awaits(l) /\ listing'[l].next = listing[l].next /\ counter' <= counter
                 \/ counter' <= listing'[l].next
      <3>1. CASE l \in sooner
        <4>1. listing'[l].next = when /\ counter' <= when
          BY <2>4, <2>5, <3>1
        <4> QED  BY <4>1
      <3>2. CASE l \notin sooner
        BY <1>3, <2>4, <2>5, <2>8, <3>2 DEF Awaits
      <3> QED  BY <3>1, <3>2
    <2> QED  BY <1>3, <2>5, <2>7, <2>8, InTimeStep DEF InTimeInv
  <1> QED  BY <1>1, <1>7, <1>8, <1>9 DEF Changes

LEMMA ReconfiguredStep ==
  ASSUME InTimeInv, Reconfigured
  PROVE  InTimeInv'
  <1>1. PICK wanted \in SUBSET Servers :
          /\ doomed' = Range(active) \ wanted
          /\ joining' = joining \cup (wanted \ Range(active))
          /\ ypclient' = IF ypclient = "absent" /\ wanted # {} /\ active = <<>> THEN "polls" ELSE ypclient
          /\ counter' = IF wanted # {} /\ active = <<>> THEN 0 ELSE counter
    BY DEF Reconfigured
  <1>2. /\ UNCHANGED <<public, queue, batch, listing, active, todo>> /\ update' = TRUE
        /\ ypclient # "talks" /\ turns < MaxTurns /\ turns' = turns + 1
    BY DEF Reconfigured
  <1>3. turns' \in 0..MaxTurns
    BY <1>2, ListsAssumption DEF InTimeInv, ListsTypeOK
  <1>4. counter \in 0..3
    BY ListsTypes
  <1>5. counter' \in 0..3 /\ counter' <= counter
    BY <1>1, <1>4
  <1>6. ypclient' \in {"absent", "polls", "ending", "talks", "tidies"}
    BY <1>1 DEF InTimeInv, ListsTypeOK
  <1>7. joining' \subseteq Servers /\ doomed' \subseteq Servers
    BY <1>1, ListsTypes
  <1>8. ListsTypeOK'
    BY <1>2, <1>3, <1>5, <1>6, <1>7 DEF InTimeInv, ListsTypeOK, Never
  <1>9. /\ joining' \cap Range(active)' = {} /\ doomed' \subseteq Range(active)'
        /\ \A l \in Listings : listing'[l].at # "free" => listing'[l].server \in Range(active)'
    BY <1>1, <1>2 DEF InTimeInv
  <1>10. \A l \in Listings :
           listing'[l].at = "listed" /\ ~listing'[l].remove /\ ~listing'[l].release
             => Awaits(l) /\ listing'[l].next = listing[l].next
    BY <1>2 DEF Awaits
  <1> QED  BY <1>5, <1>8, <1>9, <1>10, InTimeStep

LEMMA TimeStep ==
  ASSUME InTimeInv, TimePasses
  PROVE  InTimeInv'
  <1>1. /\ ypclient # "talks"
        /\ listing' = [l \in Listings |-> [listing[l] EXCEPT !.next = IF @ = 0 THEN 0 ELSE @ - 1]]
        /\ counter' = IF counter \in {0, 3} THEN counter ELSE counter - 1
        /\ UNCHANGED <<active, joining, doomed, update, ypclient, todo, public, turns, queue, batch>>
    BY DEF TimePasses, SourcesIdle, Never
  <1>2. counter \in 0..3
    BY ListsTypes
  <1>3. counter' \in 0..3
    BY <1>1, <1>2
  <1>4. ASSUME NEW l \in Listings
        PROVE  /\ listing'[l] \in ListingRecords
               /\ listing'[l].at = listing[l].at /\ listing'[l].server = listing[l].server
               /\ listing'[l].remove = listing[l].remove /\ listing'[l].release = listing[l].release
               /\ listing[l].next \in 0..2
               /\ listing'[l].next = IF listing[l].next = 0 THEN 0 ELSE listing[l].next - 1
    <2>1. PICK r \in ListingRecords : r = listing[l]
      BY ListsTypes
    <2>2. PICK n \in 0..2 : n = IF r.next = 0 THEN 0 ELSE r.next - 1
      BY <2>1 DEF ListingRecords
    <2>3. listing'[l] = [r EXCEPT !.next = n]
      BY <1>1, <2>1, <2>2
    <2>4. /\ [r EXCEPT !.next = n] \in ListingRecords
          /\ [r EXCEPT !.next = n].at = r.at /\ [r EXCEPT !.next = n].server = r.server
          /\ [r EXCEPT !.next = n].remove = r.remove /\ [r EXCEPT !.next = n].release = r.release
          /\ [r EXCEPT !.next = n].next = n /\ r.next \in 0..2
      BY <2>1 DEF ListingRecords
    <2> QED  BY <2>1, <2>2, <2>3, <2>4
  <1>5. listing' \in [Listings -> ListingRecords]
    BY <1>1, <1>4
  <1>6. ListsTypeOK'
    BY <1>1, <1>3, <1>5 DEF InTimeInv, ListsTypeOK, ListingRecords, Changes, Never
  <1>7. ASSUME NEW l \in Listings, listing'[l].at = "listed" /\ ~listing'[l].remove /\ ~listing'[l].release
        PROVE  counter' <= listing'[l].next
    <2>1. Awaits(l)
      BY <1>1, <1>4, <1>7 DEF Awaits
    <2>2. PICK n \in 0..2 : n = listing[l].next
      BY <1>4
    <2>3. counter <= n
      BY <2>1, <2>2 DEF InTimeInv
    <2>4. listing'[l].next = IF n = 0 THEN 0 ELSE n - 1
      BY <1>4, <2>2
    <2> QED  BY <1>1, <1>2, <2>2, <2>3, <2>4
  <1> QED  BY <1>1, <1>4, <1>6, <1>7, InTimeStep DEF InTimeInv

LEMMA RangeOfBoth ==
  ASSUME NEW S, NEW s \in Seq(S), NEW t \in Seq(S)
  PROVE  s \o t \in Seq(S) /\ Range(s \o t) = Range(s) \cup Range(t)
  <1>1. PICK m \in Nat : m = Len(s) /\ DOMAIN s = 1..m
    OBVIOUS
  <1>2. PICK n \in Nat : n = Len(t) /\ DOMAIN t = 1..n
    OBVIOUS
  <1>3. s \o t \in Seq(S)
    OBVIOUS
  <1>4. DOMAIN (s \o t) = 1..(m + n)
    BY <1>1, <1>2
  <1>5. \A i \in 1..m : (s \o t)[i] = s[i]
    BY <1>1, <1>2
  <1>6. \A i \in 1..n : (s \o t)[m + i] = t[i]
    BY <1>1, <1>2
  <1>7. ASSUME NEW x \in Range(s \o t)  PROVE x \in Range(s) \cup Range(t)
    <2>1. PICK i \in 1..(m + n) : x = (s \o t)[i]
      BY <1>4, <1>7 DEF Range
    <2>2. CASE i \in 1..m
      BY <1>1, <1>5, <2>1, <2>2 DEF Range
    <2>3. CASE i \notin 1..m
      <3>1. i - m \in 1..n /\ m + (i - m) = i
        BY <1>1, <1>2, <2>1, <2>3
      <3>2. x = t[i - m]
        BY <1>6, <2>1, <3>1
      <3> QED  BY <1>2, <3>1, <3>2 DEF Range
    <2> QED  BY <2>2, <2>3
  <1>8. ASSUME NEW x \in Range(s)  PROVE x \in Range(s \o t)
    <2>1. PICK i \in 1..m : x = s[i]
      BY <1>1, <1>8 DEF Range
    <2>2. i \in 1..(m + n)
      BY <1>1, <1>2
    <2> QED  BY <1>4, <1>5, <2>1, <2>2 DEF Range
  <1>9. ASSUME NEW x \in Range(t)  PROVE x \in Range(s \o t)
    <2>1. PICK i \in 1..n : x = t[i]
      BY <1>2, <1>9 DEF Range
    <2>2. m + i \in 1..(m + n)
      BY <1>1, <1>2
    <2> QED  BY <1>4, <1>6, <2>1, <2>2 DEF Range
  <1> QED  BY <1>3, <1>7, <1>8, <1>9

(* The servers after the lists were tidied.                                *)
LEMMA Tidied ==
  ASSUME InTimeInv
  PROVE  /\ SetToSeq(joining) \o Staying \in Seq(Servers)
         /\ Range(SetToSeq(joining) \o Staying) = joining \cup (Range(active) \ doomed)
         /\ Range(Staying) = Range(active) \ doomed
  <1>1. Staying \in Seq(Servers) /\ Range(Staying) = Range(active) \ doomed
    BY ListsTypes, StayingAre
  <1>2. joining \subseteq Servers /\ IsFiniteSet(joining)
    BY ListsTypes, ListsAssumption, FS_Subset
  <1>3. PICK s : s = SetToSeq(joining)
    OBVIOUS
  <1>4. PICK n \in Nat : n = Cardinality(joining)
    BY <1>2, SeqOfSet
  <1>5. s \in Seq(joining) /\ DOMAIN s = 1..n /\ \A x \in joining : \E i \in 1..n : s[i] = x
    BY <1>2, <1>3, <1>4, SeqOfSet
  <1>6. Range(s) = joining
    BY <1>5 DEF Range
  <1>7. s \in Seq(Servers)
    BY <1>2, <1>5
  <1> QED  BY <1>1, <1>3, <1>6, <1>7, RangeOfBoth

LEMMA TidyStep ==
  ASSUME InTimeInv, Tidies
  PROVE  InTimeInv'
  <1>1. /\ ypclient = "tidies" /\ ypclient' = "polls"
        /\ UNCHANGED <<public, turns, queue, batch, todo>>
    BY DEF Tidies, SourcesIdle
  <1>2. CASE ~update
    <2>1. UNCHANGED <<listing, active, joining, doomed, counter, update>>
      BY <1>2 DEF Tidies
    <2>2. ListsTypeOK'
      BY <1>1, <2>1 DEF InTimeInv, ListsTypeOK
    <2> QED  BY <1>1, <2>1, <2>2, PlainStep
  <1>3. CASE update
    <2>1. PICK need : need = joining \X {m \in Streams : public[m]}
      OBVIOUS
    <2>2. PICK unused : unused = {l \in Listings : listing[l].at = "free"}
      OBVIOUS
    <2>3. PICK pick : pick = Memory(need, unused)
      OBVIOUS
    <2>4. PICK waiting : waiting = {l \in Listings : listing[l].at = "pending"
                                      /\ listing[l].server \in Range(Staying)}
      OBVIOUS
    <2>5. /\ active' = SetToSeq(joining) \o Staying
          /\ joining' = {} /\ doomed' = {} /\ update' = FALSE
          /\ Cardinality(need) <= Cardinality(unused)
      BY <1>3, <2>1, <2>2 DEF Tidies
    <2>6. PICK when \in {0, 1} :
            /\ listing' = [l \in Listings |->
                IF \E p \in joining \X {m \in Streams : public[m]} :
                     Memory(joining \X {m \in Streams : public[m]},
                            {k \in Listings : listing[k].at = "free"})[p] = l
                THEN LET p == CHOOSE p \in joining \X {m \in Streams : public[m]} :
                                Memory(joining \X {m \in Streams : public[m]},
                                       {k \in Listings : listing[k].at = "free"})[p] = l IN
                     [Unlisted EXCEPT !.at = "listed", !.server = p[1], !.stream = p[2], !.next = when]
                ELSE IF listing[l].at # "free" /\ (listing[l].server \in doomed
                          \/ (listing[l].at = "listed" /\ listing[l].remove)) THEN Unlisted
                ELSE IF l \in {k \in Listings : listing[k].at = "pending"
                                 /\ listing[k].server \in Range(Staying)}
                     THEN [listing[l] EXCEPT !.at = "listed"] ELSE listing[l]]
            /\ counter' = IF {k \in Listings : listing[k].at = "pending"
                               /\ listing[k].server \in Range(Staying)} # {} THEN 0
                          ELSE IF joining \X {m \in Streams : public[m]} # {}
                          THEN Earliest(counter, when) ELSE counter
      BY <1>3, Zenon DEF Tidies
    <2>7. listing' = [l \in Listings |->
                IF \E p \in need : pick[p] = l
                THEN LET p == CHOOSE p \in need : pick[p] = l IN
                     [Unlisted EXCEPT !.at = "listed", !.server = p[1], !.stream = p[2], !.next = when]
                ELSE IF listing[l].at # "free" /\ (listing[l].server \in doomed
                          \/ (listing[l].at = "listed" /\ listing[l].remove)) THEN Unlisted
                ELSE IF l \in waiting THEN [listing[l] EXCEPT !.at = "listed"] ELSE listing[l]]
      BY <2>1, <2>2, <2>3, <2>4, <2>6
    <2>8. counter' = IF waiting # {} THEN 0 ELSE IF need # {} THEN Earliest(counter, when) ELSE counter
      BY <2>1, <2>4, <2>6
    <2>9. /\ active' \in Seq(Servers) /\ Range(active)' = joining \cup (Range(active) \ doomed)
          /\ Range(Staying) = Range(active) \ doomed
      <3>1. Range(active') = joining \cup (Range(active) \ doomed)
        BY <2>5, Tidied
      <3> QED  BY <2>5, <3>1, Tidied
    <2>10. PICK ms \in SUBSET Streams : ms = {m \in Streams : public[m]}
      OBVIOUS
    <2>11. need = joining \X ms
      BY <2>1, <2>10
    <2>12. IsFiniteSet(need) /\ IsFiniteSet(unused)
      <3>1. IsFiniteSet(joining) /\ IsFiniteSet(ms)
        BY <2>10, ListsTypes, ListsAssumption, FS_Subset
      <3>2. IsFiniteSet(unused)
        BY <2>2, ListsAssumption, FS_Subset
      <3> QED  BY <2>11, <3>1, <3>2, FS_Product
    <2>13. counter \in 0..3
      BY ListsTypes
    <2>14. /\ counter' \in 0..3 /\ counter' <= counter
           /\ (waiting # {} => counter' = 0) /\ (need # {} => counter' <= when)
      <3>1. CASE waiting # {}
        BY <2>13, <2>8, <3>1
      <3>2. CASE waiting = {}
        BY <2>13, <2>8, <3>2 DEF Earliest
      <3> QED  BY <3>1, <3>2
    <2>15. ASSUME NEW l \in Listings
           PROVE  /\ listing'[l] \in ListingRecords
                  /\ listing'[l].at # "free" =>
                       listing'[l].server \in joining \cup (Range(active) \ doomed)
                  /\ \/ counter' <= listing'[l].next
                     \/ listing'[l] = listing[l] \/ listing'[l].at = "free"
      <3>1. PICK r \in ListingRecords : r = listing[l]
        BY ListsTypes
      <3>2. CASE \E p \in need : pick[p] = l
        <4>1. PICK p \in need : p = CHOOSE q \in need : pick[q] = l
          BY <3>2
        <4>2. listing'[l] = [Unlisted EXCEPT !.at = "listed", !.server = p[1], !.stream = p[2],
                                             !.next = when]
          BY <2>7, <3>2, <4>1
        <4>3. p[1] \in joining /\ p[2] \in ms
          BY <2>11, <4>1
        <4>4. listing'[l] = [at |-> "listed", stream |-> p[2], server |-> p[1], next |-> when,
                             process |-> "add", sid |-> FALSE, release |-> FALSE, remove |-> FALSE]
          BY <4>2 DEF Unlisted
        <4>5. p[1] \in Servers /\ p[2] \in Streams
          BY <2>10, <4>3, ListsTypes
        <4>6. listing'[l] \in ListingRecords
          BY <4>4, <4>5 DEF ListingRecords
        <4>7. counter' <= when
          BY <2>14, <4>1
        <4>8. listing'[l].next = when /\ listing'[l].server = p[1]
          BY <4>4
        <4> QED  BY <4>3, <4>6, <4>7, <4>8
      <3>3. CASE /\ ~\E p \in need : pick[p] = l
                 /\ r.at # "free" /\ (r.server \in doomed \/ (r.at = "listed" /\ r.remove))
        <4>1. listing'[l] = Unlisted
          BY <2>7, <3>1, <3>3
        <4>2. Unlisted \in ListingRecords /\ Unlisted.at = "free"
          BY DEF Unlisted, ListingRecords
        <4> QED  BY <4>1, <4>2
      <3>4. CASE /\ ~\E p \in need : pick[p] = l
                 /\ ~(r.at # "free" /\ (r.server \in doomed \/ (r.at = "listed" /\ r.remove)))
                 /\ l \in waiting
        <4>1. listing'[l] = [r EXCEPT !.at = "listed"]
          BY <2>7, <3>1, <3>4
        <4>2. /\ [r EXCEPT !.at = "listed"] \in ListingRecords
              /\ [r EXCEPT !.at = "listed"].server = r.server
              /\ [r EXCEPT !.at = "listed"].next \in 0..2
          BY <3>1 DEF ListingRecords
        <4>3. counter' = 0 /\ 0 <= listing'[l].next
          <5>1. PICK n \in 0..2 : n = listing'[l].next
            BY <4>1, <4>2
          <5>2. 0 <= n
            BY <5>1
          <5> QED  BY <2>14, <3>4, <5>1, <5>2
        <4>4. r.server \in Range(active) \ doomed
          BY <2>4, <2>9, <3>1, <3>4
        <4> QED  BY <4>1, <4>2, <4>3, <4>4
      <3>5. CASE /\ ~\E p \in need : pick[p] = l
                 /\ ~(r.at # "free" /\ (r.server \in doomed \/ (r.at = "listed" /\ r.remove)))
                 /\ l \notin waiting
        <4>1. listing'[l] = r
          BY <2>7, <3>1, <3>5
        <4>2. r.at # "free" => r.server \in Range(active) \ doomed
          BY <3>1, <3>5 DEF InTimeInv
        <4> QED  BY <3>1, <4>1, <4>2
      <3> QED  BY <3>2, <3>3, <3>4, <3>5
    <2>16. listing' \in [Listings -> ListingRecords]
      BY <2>7, <2>15
    <2>17. ListsTypeOK'
      BY <1>1, <2>5, <2>9, <2>14, <2>16 DEF InTimeInv, ListsTypeOK, ListingRecords, Changes, Never
    <2>18. ASSUME NEW l \in Listings, listing'[l].at = "listed" /\ ~listing'[l].remove /\ ~listing'[l].release
           PROVE  \/ Awaits(l) /\ listing'[l].next = listing[l].next /\ counter' <= counter
                  \/ counter' <= listing'[l].next
      <3>1. CASE counter' <= listing'[l].next
        BY <3>1
      <3>2. CASE listing'[l] = listing[l]
        <4>1. Awaits(l) /\ listing'[l].next = listing[l].next
          BY <1>1, <2>18, <3>2 DEF Awaits
        <4> QED  BY <2>14, <4>1
      <3> QED  BY <2>15, <2>18, <3>1, <3>2
    <2>19. /\ joining' \cap Range(active)' = {} /\ doomed' \subseteq Range(active)'
           /\ \A l \in Listings : listing'[l].at # "free" => listing'[l].server \in Range(active)'
      BY <2>5, <2>9, <2>15
    <2> QED  BY <2>17, <2>18, <2>19, InTimeStep
  <1> QED  BY <1>2, <1>3

LEMMA InTimeInit == ListsInit => InTimeInv
  <1> SUFFICES ASSUME ListsInit PROVE InTimeInv
    OBVIOUS
  <1>1. Unlisted \in ListingRecords /\ Unlisted.at = "free"
    BY DEF Unlisted, ListingRecords
  <1>2. listing \in [Listings -> ListingRecords] /\ \A l \in Listings : listing[l].at = "free"
    BY <1>1 DEF ListsInit
  <1>3. Range(active) = {} /\ active \in Seq(Servers)
    BY DEF ListsInit, Range
  <1>4. 0 \in 0..MaxTurns /\ <<>> \in Seq(Changes)
    BY ListsAssumption
  <1>5. ListsTypeOK
    BY <1>2, <1>3, <1>4 DEF ListsInit, ListsTypeOK, ListingRecords, Changes, Never
  <1> QED  BY <1>2, <1>3, <1>5 DEF ListsInit, InTimeInv, Awaits

LEMMA InTimeKept == InTimeInv /\ [ListsNext]_lists => InTimeInv'
  <1> SUFFICES ASSUME InTimeInv, [ListsNext]_lists PROVE InTimeInv'
    OBVIOUS
  <1>1. ASSUME NEW m \in Streams, Publishes(m) \/ Retitles(m)  PROVE InTimeInv'
    BY <1>1, QueueStep
  <1>2. CASE Detaches \/ ClientEnds \/ Ended \/ Talked
    BY <1>2, EasyStep
  <1>3. CASE Applies
    BY <1>3, ChangeStep
  <1>4. CASE Starts
    BY <1>4, StartStep
  <1>5. CASE Tidies
    BY <1>5, TidyStep
  <1>6. ASSUME NEW l \in Listings, Process(l)  PROVE InTimeInv'
    BY <1>6, ProcessStep
  <1>7. CASE Reconfigured
    BY <1>7, ReconfiguredStep
  <1>8. CASE TimePasses
    BY <1>8, TimeStep
  <1>9. CASE UNCHANGED lists
    BY <1>9 DEF lists, InTimeInv, ListsTypeOK, Awaits
  <1> QED  BY <1>1, <1>2, <1>3, <1>4, <1>5, <1>6, <1>7, <1>8, <1>9 DEF ListsNext, ThreadStep

(* No entry is due before the next run of the directory thread.            *)
THEOREM RunsInTime == ListsSpec => []RunInTime
  <1>1. ListsInit => InTimeInv
    BY InTimeInit
  <1>2. InTimeInv /\ [ListsNext]_lists => InTimeInv'
    BY InTimeKept
  <1>3. InTimeInv => RunInTime
    BY InTimeRight
  <1> QED  BY <1>1, <1>2, <1>3, PTL DEF ListsSpec

===============================================================================
