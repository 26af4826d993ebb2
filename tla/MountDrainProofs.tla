-------------------------- MODULE MountDrainProofs --------------------------
(***************************************************************************)
(* What MountDrain keeps for any sources, listeners and configuration of   *)
(* mounts, and that it implements MountService.                            *)
(***************************************************************************)
EXTENDS MountDrain, FiniteSetTheorems, TLAPS

(* TypeOK but for the total, and where a listener is that is being moved.  *)
Typed ==
  /\ source \in [Sources -> {"none", "read", "drop", "halt", "gone"}]
  /\ tree \in [Sources -> BOOLEAN] /\ fed \in [Sources -> BOOLEAN]
  /\ run \in [Sources -> BOOLEAN] /\ term \in [Sources -> BOOLEAN]
  /\ sync \in [Sources -> BOOLEAN] /\ check \in [Sources -> Int]
  /\ fallback \in [Sources -> Mounts \cup {NoMount}]
  /\ expired \in [Sources -> BOOLEAN]
  /\ at \in [Listeners -> Sources \cup {NoSource, File}]
  /\ ops \in [Listeners -> {"client", "wait"}]
  /\ call \in [Listeners -> {"idle", "quit", "hold", "drop", "leave", "detach",
                             "move", "back"}]
  /\ old \in [Listeners -> Sources \cup {NoSource}]
  /\ todo \in [Sources -> SUBSET Listeners]
  /\ \A l \in Listeners :
       /\ call[l] \in {"quit", "hold", "drop", "leave", "detach"} => at[l] = old[l]
       /\ call[l] = "idle" <=> old[l] = NoSource
       /\ call[l] = "move" => at[l] = NoSource

(* A source that runs is read and on the tree; one that has not started is *)
(* nobody's concern yet, and one that ended is empty.                      *)
Lively ==
  /\ \A s \in Sources :
       /\ run[s] => source[s] = "read" /\ tree[s] /\ ~term[s]
       /\ source[s] = "none" => ~term[s] /\ ~sync[s] /\ \A l \in Listeners : old[l] # s
  /\ EndedIsEmpty

(* The handlers that are going to count a listener down.                   *)
Counting == {"quit", "hold", "drop", "detach", "move", "back"}

(* A handler counts down only what the phase of a source that goes on      *)
(* counted, takes a listener away only if it was called, and never takes   *)
(* it back to where it came from.                                          *)
HandlersCounted ==
  \A s \in Sources, l \in Listeners :
    old[l] = s =>
      /\ run[s] /\ call[l] \in Counting => sync[s] /\ l \in todo[s]
      /\ run[s] /\ call[l] \in {"detach", "move", "back"} => fallback[s] # NoMount
      /\ call[l] = "detach" => sync[s]
      /\ call[l] = "back" => at[l] # s
      /\ call[l] = "hold" => ops[l] = "wait"

(* Those on the source that are not held back yet are still to be counted, *)
(* and all that are make no more than listener_check.                      *)
Covered ==
  \A s \in Sources : run[s] /\ sync[s] =>
    /\ Cardinality(todo[s]) <= check[s]
    /\ \A l \in Clients(s) : ops[l] = "client" /\ call[l] # "leave" => l \in todo[s]

IInv == Typed /\ Lively /\ TotalIsRight /\ HandlersCounted /\ Covered

USE MountAssumption

LEMMA FirstOnIn ==
  ASSUME NEW m, NEW ok, NEW s \in FirstOn(m, ok)
  PROVE  s \in ok
  BY DEF FirstOn

LEMMA ClientsFinite ==
  ASSUME NEW s
  PROVE  Clients(s) \subseteq Listeners /\ IsFiniteSet(Clients(s))
         /\ Cardinality(Clients(s)) \in Nat
  BY FS_Subset, FS_CardinalityType DEF Clients

-----------------------------------------------------------------------------
LEMMA TypedPhase ==
  ASSUME Typed, NEW s \in Sources, BeginPhase(s)
  PROVE  /\ check' \in [Sources -> Int] /\ sync' \in [Sources -> BOOLEAN]
         /\ todo' \in [Sources -> SUBSET Listeners]
  BY ClientsFinite DEF Typed, BeginPhase

LEMMA TypedSource ==
  ASSUME Typed, NEW s \in Sources, SourceStep(s) \/ Expire(s)
  PROVE  Typed'
  <1>1. ASSUME Start(s) PROVE Typed'
    BY <1>1 DEF Typed, Start, phase, lvars
  <1>2. ASSUME FirstBlock(s) PROVE Typed'
    <2> DEFINE called == {r \in Overridden(s) : Clients(r) # {} /\ fallback[r] = NoMount}
    <2>1. CASE called = {}
      BY <1>2, <2>1 DEF Typed, FirstBlock, phase, lvars
    <2>2. ASSUME NEW r \in called, BeginPhase(r), fallback' = [fallback EXCEPT ![r] = Mount[s]],
                 expired' = [expired EXCEPT ![r] = FALSE]
          PROVE Typed'
      <3>1. r \in Sources
        BY <2>2 DEF Overridden, Find
      <3> QED  BY <1>2, <2>2, <3>1, TypedPhase DEF Typed, FirstBlock, lvars
    <2> QED  BY <1>2, <2>1, <2>2 DEF FirstBlock
  <1>3. ASSUME Stop(s) \/ Expire(s) \/ EndPhase(s) \/ OffTree(s) \/ Halt(s) PROVE Typed'
    BY <1>3 DEF Typed, Stop, Expire, EndPhase, OffTree, Halt, flags, phase, lvars
  <1>4. ASSUME Shutdown(s) PROVE Typed'
    <2>1. CASE Mount[s] \in Reserving /\ Clients(s) = {}
      BY <1>4, <2>1 DEF Typed, Shutdown, Finish, lvars
    <2>2. CASE ~(Mount[s] \in Reserving /\ Clients(s) = {})
      <3>1. BeginPhase(s)
        BY <1>4, <2>2 DEF Shutdown
      <3>2. fallback' \in [Sources -> Mounts \cup {NoMount}]
        BY <1>4, <2>2 DEF Typed, Shutdown
      <3>3. source' \in [Sources -> {"none", "read", "drop", "halt", "gone"}]
        BY <1>4, <2>2 DEF Typed, Shutdown
      <3>4. /\ run' \in [Sources -> BOOLEAN] /\ term' \in [Sources -> BOOLEAN]
            /\ expired' \in [Sources -> BOOLEAN]
            /\ tree' = tree /\ fed' = fed /\ lvars' = lvars
        BY <1>4 DEF Typed, Shutdown
      <3> QED  BY <3>1, <3>2, <3>3, <3>4, TypedPhase DEF Typed, lvars
    <2> QED  BY <2>1, <2>2
  <1>5. ASSUME Drain(s) PROVE Typed'
    BY <1>5, TypedPhase DEF Typed, Drain, Finish, phase, lvars
  <1> QED
    BY <1>1, <1>2, <1>3, <1>4, <1>5 DEF SourceStep, PhaseTimeout, SourceShutdown, Drained

LEMMA TypedListener ==
  ASSUME Typed, NEW l \in Listeners,
         \/ \E m \in Mounts : Join(l, m)
         \/ \E s \in Sources : HandlerStep(l, s) \/ Depart(l, s)
         \/ FileDone(l)
  PROVE  Typed'
  <1>1. ASSUME NEW m \in Mounts, Join(l, m) PROVE Typed'
    <2>1. PICK s \in Sources : at' = [at EXCEPT ![l] = s]
      BY <1>1, FirstOnIn DEF Join
    <2> QED  BY <1>1, <2>1 DEF Typed, Join, flags, phase
  <1>2. ASSUME NEW s \in Sources, LookAt(l, s) \/ Depart(l, s) \/ WaitOver(l, s) PROVE Typed'
    BY <1>2 DEF Typed, LookAt, Depart, WaitOver, Handled, Goto, flags, phase
  <1>3. ASSUME NEW s \in Sources, Hold(l, s) PROVE Typed'
    BY <1>3 DEF Typed, Hold, CountDown, Idle, flags
  <1>10. ASSUME NEW s \in Sources, Quit(l, s) PROVE Typed'
    BY <1>10 DEF Typed, Quit, CountDown, Idle, Off, flags
  <1>8. ASSUME NEW s \in Sources, Leave(l, s) PROVE Typed'
    BY <1>8 DEF Typed, Leave, Idle, Off, flags, phase
  <1>9. ASSUME NEW s \in Sources, Back(l, s) PROVE Typed'
    BY <1>9 DEF Typed, Back, CountDown, Idle, flags
  <1>4. ASSUME NEW s \in Sources, Dropped(l, s) PROVE Typed'
    BY <1>4 DEF Typed, Dropped, CountDown, Goto, flags
  <1>5. ASSUME NEW s \in Sources, Detach(l, s) PROVE Typed'
    BY <1>5 DEF Typed, Detach, Off, flags, phase
  <1>6. ASSUME NEW s \in Sources, Move(l, s) PROVE Typed'
    <2>1. PICK x \in Sources \cup {NoSource, File} : at' = [at EXCEPT ![l] = x]
      <3>1. at = [at EXCEPT ![l] = at[l]] /\ at[l] \in Sources \cup {NoSource, File}
        BY DEF Typed
      <3>2. at' = at \/ at' = [at EXCEPT ![l] = File] \/ \E r \in Sources : at' = [at EXCEPT ![l] = r]
        BY <1>6, FirstOnIn DEF Move
      <3> QED  BY <3>1, <3>2
    <2>2. call' = [call EXCEPT ![l] = "back"] /\ ops' = [ops EXCEPT ![l] = "client"]
          /\ call[l] = "move"
      BY <1>6 DEF Move
    <2> QED  BY <1>6, <2>1, <2>2 DEF Typed, Move, flags, phase
  <1>7. ASSUME FileDone(l) PROVE Typed'
    BY <1>7 DEF Typed, FileDone, Off, flags, phase
  <1> QED
    BY <1>1, <1>2, <1>3, <1>4, <1>5, <1>6, <1>7, <1>8, <1>9, <1>10 DEF HandlerStep

LEMMA TypedStep == Typed /\ [Next]_vars => Typed'
  <1> SUFFICES ASSUME Typed, [Next]_vars PROVE Typed'
    OBVIOUS
  <1>1. ASSUME NEW s \in Sources, NEW m \in Mounts, MoveClients(s, m) PROVE Typed'
    BY <1>1, TypedPhase DEF Typed, MoveClients, flags, lvars
  <1>2. CASE UNCHANGED vars
    BY <1>2 DEF Typed, vars, flags, phase, lvars
  <1> QED
    BY <1>1, <1>2, TypedSource, TypedListener DEF Next

-----------------------------------------------------------------------------
LEMMA LivelySource ==
  ASSUME Typed, Lively, NEW s \in Sources, SourceStep(s) \/ Expire(s)
  PROVE  Lively'
  <1> USE DEF Lively, EndedIsEmpty, Clients, Typed
  <1>1. ASSUME Start(s) PROVE Lively'
    BY <1>1 DEF Start, phase, lvars
  <1>2. ASSUME FirstBlock(s) PROVE Lively'
    <2> DEFINE called == {r \in Overridden(s) : Clients(r) # {} /\ fallback[r] = NoMount}
    <2>1. CASE called = {}
      BY <1>2, <2>1 DEF FirstBlock, phase, lvars
    <2>2. ASSUME NEW r \in called, BeginPhase(r) PROVE Lively'
      <3>1. r \in Sources /\ run[r]
        BY <2>2 DEF Overridden, Find, Running
      <3>2. sync' = [sync EXCEPT ![r] = TRUE]
        BY <2>2 DEF BeginPhase
      <3> QED  BY <1>2, <3>1, <3>2 DEF FirstBlock, lvars
    <2> QED  BY <1>2, <2>1, <2>2 DEF FirstBlock
  <1>3. ASSUME Stop(s) \/ Expire(s) \/ EndPhase(s) \/ OffTree(s) \/ Halt(s) PROVE Lively'
    BY <1>3 DEF Stop, Expire, EndPhase, OffTree, Halt, flags, phase, lvars
  <1>4. ASSUME Shutdown(s), source[s] = "read" PROVE Lively'
    BY <1>4 DEF Shutdown, Finish, BeginPhase, lvars
  <1>5. ASSUME Drain(s), source[s] \in {"read", "drop"}, term[s] PROVE Lively'
    BY <1>5 DEF Drain, Finish, BeginPhase, phase, lvars
  <1> QED
    BY <1>1, <1>2, <1>3, <1>4, <1>5 DEF SourceStep, PhaseTimeout, SourceShutdown, Drained

LEMMA LivelyListener ==
  ASSUME Typed, Lively, NEW l \in Listeners,
         \/ \E m \in Mounts : Join(l, m)
         \/ \E s \in Sources : HandlerStep(l, s) \/ Depart(l, s)
         \/ FileDone(l)
  PROVE  Lively'
  <1> USE DEF Lively, EndedIsEmpty, Clients, Typed
  <1>1. ASSUME NEW m \in Mounts, Join(l, m) PROVE Lively'
    <2>1. PICK s \in Sources : at' = [at EXCEPT ![l] = s] /\ run[s]
      BY <1>1, FirstOnIn DEF Join, Available
    <2> QED  BY <1>1, <2>1 DEF Join, flags, phase
  <1>2. ASSUME NEW s \in Sources, LookAt(l, s) \/ Depart(l, s) \/ WaitOver(l, s) PROVE Lively'
    BY <1>2 DEF LookAt, Depart, WaitOver, Handled, Goto, flags, phase
  <1>3. ASSUME NEW s \in Sources, Hold(l, s) \/ Quit(l, s) \/ Dropped(l, s) PROVE Lively'
    BY <1>3 DEF Hold, Quit, Dropped, CountDown, Goto, Idle, Off, flags
  <1>4. ASSUME NEW s \in Sources, Leave(l, s) \/ Detach(l, s) \/ Back(l, s) PROVE Lively'
    BY <1>4 DEF Leave, Detach, Back, CountDown, Idle, Off, flags, phase
  <1>5. ASSUME NEW s \in Sources, Move(l, s) PROVE Lively'
    <2>1. at' = at \/ at' = [at EXCEPT ![l] = File]
          \/ \E r \in Sources : at' = [at EXCEPT ![l] = r] /\ run[r]
      BY <1>5, FirstOnIn DEF Move, Available
    <2> QED  BY <1>5, <2>1 DEF Move, flags, phase
  <1>6. ASSUME FileDone(l) PROVE Lively'
    BY <1>6 DEF FileDone, Off, flags, phase
  <1> QED
    BY <1>1, <1>2, <1>3, <1>4, <1>5, <1>6 DEF HandlerStep

LEMMA LivelyStep == Typed /\ Lively /\ [Next]_vars => Lively'
  <1> SUFFICES ASSUME Typed, Lively, [Next]_vars PROVE Lively'
    OBVIOUS
  <1>1. ASSUME NEW s \in Sources, NEW m \in Mounts, MoveClients(s, m) PROVE Lively'
    BY <1>1 DEF Lively, EndedIsEmpty, Clients, Typed, MoveClients, BeginPhase, Available,
                flags, lvars
  <1>2. CASE UNCHANGED vars
    BY <1>2 DEF Lively, EndedIsEmpty, Clients, vars, flags, phase, lvars
  <1> QED
    BY <1>1, <1>2, LivelySource, LivelyListener DEF Next

-----------------------------------------------------------------------------
(* The listeners the total counts.                                         *)
Counted == {l \in Listeners : at[l] # NoSource \/ call[l] \in {"move", "back"}}

LEMMA CountedFinite == IsFiniteSet(Counted) /\ Cardinality(Counted) \in Nat
  BY FS_Subset, FS_CardinalityType DEF Counted

LEMMA TotalKept ==
  ASSUME TotalIsRight,
         \/ Counted' = Counted /\ total' = total
         \/ \E l \in Listeners : /\ l \notin Counted /\ Counted' = Counted \cup {l}
                                 /\ total' = total + 1
         \/ \E l \in Listeners : /\ l \in Counted /\ Counted' = Counted \ {l}
                                 /\ total' = total - 1
  PROVE  TotalIsRight'
  <1>1. TotalIsRight <=> total = Cardinality(Counted)
    BY DEF TotalIsRight, Counted
  <1>2. TotalIsRight' <=> total' = Cardinality(Counted')
    BY DEF TotalIsRight, Counted
  <1> QED  BY <1>1, <1>2, CountedFinite, FS_AddElement, FS_RemoveElement

LEMMA TotalStep == Typed /\ TotalIsRight /\ [Next]_vars => TotalIsRight'
  <1> SUFFICES ASSUME Typed, TotalIsRight, [Next]_vars PROVE TotalIsRight'
    OBVIOUS
  <1>1. ASSUME UNCHANGED <<at, call, total>> PROVE TotalIsRight'
    BY <1>1 DEF TotalIsRight
  <1>2. ASSUME NEW s \in Sources, SourceStep(s) \/ Expire(s) PROVE TotalIsRight'
    <2>1. UNCHANGED lvars
      BY <1>2 DEF SourceStep, Start, FirstBlock, Stop, Expire, EndPhase, PhaseTimeout,
                  SourceShutdown, Shutdown, OffTree, Drained, Drain, Halt
    <2> QED  BY <1>1, <2>1 DEF lvars
  <1>3. ASSUME NEW s \in Sources, NEW m \in Mounts, MoveClients(s, m) PROVE TotalIsRight'
    BY <1>1, <1>3 DEF MoveClients, lvars
  <1>4. ASSUME NEW l \in Listeners, NEW m \in Mounts, Join(l, m) PROVE TotalIsRight'
    <2>1. PICK s \in Sources : at' = [at EXCEPT ![l] = s]
      BY <1>4, FirstOnIn DEF Join
    <2>2. l \notin Counted /\ Counted' = Counted \cup {l}
      BY <1>4, <2>1 DEF Join, Counted, Typed
    <2> QED  BY <1>4, <2>2, TotalKept DEF Join
  <1>5. ASSUME NEW l \in Listeners, NEW s \in Sources, HandlerStep(l, s) \/ Depart(l, s)
        PROVE TotalIsRight'
    <2>1. ASSUME LookAt(l, s) \/ WaitOver(l, s) \/ Depart(l, s) PROVE TotalIsRight'
      <3>1. Counted' = Counted /\ total' = total
        BY <2>1 DEF LookAt, WaitOver, Depart, Handled, Goto, Counted, Typed
      <3> QED  BY <3>1, TotalKept
    <2>2. ASSUME Hold(l, s) \/ Dropped(l, s) PROVE TotalIsRight'
      <3>1. Counted' = Counted /\ total' = total
        BY <2>2 DEF Hold, Dropped, Goto, Idle, Counted, Typed
      <3> QED  BY <3>1, TotalKept
    <2>3. ASSUME Detach(l, s) \/ Move(l, s) PROVE TotalIsRight'
      <3>1. Counted' = Counted /\ total' = total
        <4>1. CASE Detach(l, s)
          BY <4>1 DEF Detach, Off, Counted, Typed
        <4>2. CASE Move(l, s)
          <5>1. \A k \in Listeners \ {l} : at'[k] = at[k]
            BY <4>2 DEF Move, Typed
          <5> QED  BY <4>2, <5>1 DEF Move, Counted, Typed
        <4> QED  BY <2>3, <4>1, <4>2
      <3> QED  BY <3>1, TotalKept
    <2>4. ASSUME Quit(l, s) \/ Leave(l, s) PROVE TotalIsRight'
      <3>1. l \in Counted /\ Counted' = Counted \ {l} /\ total' = total - 1
        BY <2>4 DEF Quit, Leave, Off, Idle, Counted, Typed
      <3> QED  BY <3>1, TotalKept
    <2>5. ASSUME Back(l, s) PROVE TotalIsRight'
      <3>1. CASE at[l] = NoSource
        <4>1. l \in Counted /\ Counted' = Counted \ {l} /\ total' = total - 1
          BY <2>5, <3>1 DEF Back, Idle, Counted, Typed
        <4> QED  BY <4>1, TotalKept
      <3>2. CASE at[l] # NoSource
        <4>1. Counted' = Counted /\ total' = total
          BY <2>5, <3>2 DEF Back, Idle, Counted, Typed
        <4> QED  BY <4>1, TotalKept
      <3> QED  BY <3>1, <3>2
    <2> QED  BY <1>5, <2>1, <2>2, <2>3, <2>4, <2>5 DEF HandlerStep
  <1>6. ASSUME NEW l \in Listeners, FileDone(l) PROVE TotalIsRight'
    <2>1. l \in Counted /\ Counted' = Counted \ {l} /\ total' = total - 1
      BY <1>6 DEF FileDone, Off, Counted, Typed
    <2> QED  BY <2>1, TotalKept
  <1>7. CASE UNCHANGED vars
    BY <1>1, <1>7 DEF vars, lvars
  <1> QED
    BY <1>2, <1>3, <1>4, <1>5, <1>6, <1>7 DEF Next

-----------------------------------------------------------------------------
(* A phase that begins counts every listener; no handler is under way that *)
(* was counted in an earlier one, unless it sits on the source still.      *)
LEMMA PhaseCovers ==
  ASSUME Typed, Lively, HandlersCounted, Covered, NEW s \in Sources, BeginPhase(s),
         UNCHANGED <<run, lvars>>, \A r \in Sources \ {s} : fallback'[r] = fallback[r],
         run[s] => fallback'[s] # NoMount \/ ~sync[s],
         run[s] => ~sync[s] \/ fallback[s] = NoMount
  PROVE  HandlersCounted' /\ Covered'
  <1>1. /\ check' = [check EXCEPT ![s] = Cardinality(Clients(s))]
        /\ sync' = [sync EXCEPT ![s] = TRUE]
        /\ todo' = [todo EXCEPT ![s] = Clients(s)]
    BY DEF BeginPhase
  <1>2. HandlersCounted'
    BY <1>1 DEF HandlersCounted, Counting, Typed, Clients, lvars
  <1>3. Covered'
    <2> SUFFICES ASSUME NEW r \in Sources, run'[r], sync'[r]
                 PROVE  /\ Cardinality(todo'[r]) <= check'[r]
                        /\ \A l \in Clients(r)' : ops'[l] = "client" /\ call'[l] # "leave"
                                                   => l \in todo'[r]
      BY DEF Covered
    <2>1. Clients(r)' = Clients(r) /\ run[r]
      BY DEF Clients, lvars
    <2>2. CASE r = s
      <3>1. todo'[r] = Clients(r) /\ check'[r] = Cardinality(Clients(r))
        BY <1>1, <2>2 DEF Typed
      <3> QED  BY <2>1, <3>1, ClientsFinite
    <2>3. CASE r # s
      BY <1>1, <2>1, <2>3 DEF Covered, Typed, lvars
    <2> QED  BY <2>2, <2>3
  <1> QED  BY <1>2, <1>3

LEMMA CoveredSource ==
  ASSUME Typed, Lively, HandlersCounted, Covered, NEW s \in Sources, SourceStep(s) \/ Expire(s)
  PROVE  HandlersCounted' /\ Covered'
  <1>1. ASSUME Start(s) PROVE HandlersCounted' /\ Covered'
    BY <1>1 DEF Start, HandlersCounted, Covered, Clients, Lively, Typed, phase, lvars
  <1>2. ASSUME FirstBlock(s) PROVE HandlersCounted' /\ Covered'
    <2> DEFINE called == {r \in Overridden(s) : Clients(r) # {} /\ fallback[r] = NoMount}
    <2>1. CASE called = {}
      BY <1>2, <2>1 DEF FirstBlock, HandlersCounted, Covered, Clients, phase, lvars
    <2>2. ASSUME NEW r \in called, BeginPhase(r), fallback' = [fallback EXCEPT ![r] = Mount[s]]
          PROVE HandlersCounted' /\ Covered'
      <3>1. r \in Sources /\ fallback[r] = NoMount
        BY <2>2 DEF Overridden, Find
      <3>2. fallback'[r] # NoMount /\ \A x \in Sources \ {r} : fallback'[x] = fallback[x]
        BY <2>2, <3>1 DEF Typed
      <3> QED  BY <1>2, <2>2, <3>1, <3>2, PhaseCovers DEF FirstBlock
    <2> QED  BY <1>2, <2>1, <2>2 DEF FirstBlock
  <1>3. ASSUME Stop(s) PROVE HandlersCounted' /\ Covered'
    BY <1>3 DEF Stop, HandlersCounted, Covered, Clients, Typed, phase, lvars
  <1>4. ASSUME Expire(s) \/ OffTree(s) \/ Halt(s) PROVE HandlersCounted' /\ Covered'
    BY <1>4 DEF Expire, OffTree, Halt, HandlersCounted, Covered, Clients, flags, phase, lvars
  <1>5. ASSUME EndPhase(s) PROVE HandlersCounted' /\ Covered'
    <2>1. todo[s] = {}
      <3>1. IsFiniteSet(todo[s]) /\ Cardinality(todo[s]) \in Nat
        BY FS_Subset, FS_CardinalityType DEF Typed
      <3>2. Cardinality(todo[s]) <= 0
        BY <1>5, <3>1 DEF EndPhase, Covered, Running, Typed
      <3> QED  BY <3>1, <3>2, FS_EmptySet
    <2>2. \A l \in Listeners : old[l] = s => call[l] \notin Counting
      BY <1>5, <2>1 DEF EndPhase, HandlersCounted, Running
    <2>3. HandlersCounted'
      BY <1>5, <2>1, <2>2 DEF EndPhase, HandlersCounted, Counting, Typed, flags, lvars
    <2>4. Covered'
      BY <1>5 DEF EndPhase, Covered, Clients, Typed, flags, lvars
    <2> QED  BY <2>3, <2>4
  <1>6. ASSUME Finish(s), Clients(s) = {}, UNCHANGED <<check, todo, lvars>>, ~run'[s],
               \A r \in Sources \ {s} : run'[r] = run[r]
        PROVE HandlersCounted' /\ Covered'
    <2>1. \A l \in Listeners : old[l] = s => call[l] # "detach"
      BY <1>6 DEF Clients, Typed
    <2>2. HandlersCounted'
      BY <1>6, <2>1 DEF Finish, HandlersCounted, Counting, Typed, lvars
    <2>3. Covered'
      BY <1>6 DEF Finish, Covered, Clients, Typed, lvars
    <2> QED  BY <2>2, <2>3
  <1>7. ASSUME BeginPhase(s), UNCHANGED lvars, ~run'[s],
               \A r \in Sources \ {s} : run'[r] = run[r] /\ fallback'[r] = fallback[r]
        PROVE HandlersCounted' /\ Covered'
    <2>1. /\ check' = [check EXCEPT ![s] = Cardinality(Clients(s))]
          /\ sync' = [sync EXCEPT ![s] = TRUE]
          /\ todo' = [todo EXCEPT ![s] = Clients(s)]
      BY <1>7 DEF BeginPhase
    <2>2. HandlersCounted'
      BY <1>7, <2>1 DEF HandlersCounted, Counting, Typed, lvars
    <2>3. Covered'
      BY <1>7, <2>1 DEF Covered, Clients, Typed, lvars
    <2> QED  BY <2>2, <2>3
  <1>8. ASSUME Shutdown(s) PROVE HandlersCounted' /\ Covered'
    <2>1. UNCHANGED lvars /\ ~run'[s] /\ \A r \in Sources \ {s} : run'[r] = run[r]
      BY <1>8 DEF Shutdown, Typed
    <2>2. CASE Mount[s] \in Reserving /\ Clients(s) = {}
      BY <1>6, <1>8, <2>1, <2>2 DEF Shutdown
    <2>3. CASE ~(Mount[s] \in Reserving /\ Clients(s) = {})
      <3>1. BeginPhase(s) /\ \A r \in Sources \ {s} : fallback'[r] = fallback[r]
        BY <1>8, <2>3 DEF Shutdown, Typed
      <3> QED  BY <1>7, <2>1, <3>1
    <2> QED  BY <2>2, <2>3
  <1>9. ASSUME Drain(s), term[s] PROVE HandlersCounted' /\ Covered'
    <2>1. UNCHANGED <<run, lvars>> /\ ~run[s]
      BY <1>9 DEF Drain, Lively
    <2>2. CASE UNCHANGED phase
      BY <2>1, <2>2 DEF HandlersCounted, Covered, Clients, phase, lvars
    <2>3. CASE BeginPhase(s) /\ UNCHANGED fallback
      BY <1>7, <2>1, <2>3
    <2>4. CASE Finish(s) /\ Clients(s) = {} /\ UNCHANGED <<check, todo>>
      BY <1>6, <2>1, <2>4
    <2> QED  BY <1>9, <2>2, <2>3, <2>4 DEF Drain
  <1> QED
    BY <1>1, <1>2, <1>3, <1>4, <1>5, <1>8, <1>9
       DEF SourceStep, PhaseTimeout, SourceShutdown, Drained

(* A handler's last step for the source it was called for.                 *)
LEMMA CountedDown ==
  ASSUME Typed, Lively, HandlersCounted, Covered,
         NEW l \in Listeners, NEW s \in Sources, old[l] = s,
         UNCHANGED <<flags, sync, fallback, ops>>,
         todo' = [todo EXCEPT ![s] = @ \ {l}],
         \/ check' = [check EXCEPT ![s] = @ - 1] /\ call[l] \in Counting
         \/ check' = check,
         \A k \in Listeners \ {l} : at'[k] = at[k] /\ old'[k] = old[k] /\ call'[k] = call[k],
         at'[l] = NoSource \/ at'[l] = at[l],
         \/ old'[l] = NoSource
         \/ call'[l] = "leave",
         at'[l] = s => call'[l] = "leave" \/ ops[l] = "wait"
  PROVE  HandlersCounted' /\ Covered'
  <1>1. HandlersCounted'
    BY DEF HandlersCounted, Counting, Typed, flags
  <1>2. Covered'
    <2> SUFFICES ASSUME NEW r \in Sources, run'[r], sync'[r]
                 PROVE  /\ Cardinality(todo'[r]) <= check'[r]
                        /\ \A k \in Clients(r)' : ops'[k] = "client" /\ call'[k] # "leave"
                                                   => k \in todo'[r]
      BY DEF Covered
    <2>1. Cardinality(todo'[r]) <= check'[r]
      <3>1. CASE r # s
        BY <3>1 DEF Covered, Typed, flags
      <3>2. CASE r = s
        <4>1. IsFiniteSet(todo[s]) /\ Cardinality(todo[s]) \in Nat
          BY FS_Subset, FS_CardinalityType DEF Typed
        <4>2. Cardinality(todo[s]) <= check[s] /\ todo'[s] = todo[s] \ {l}
          BY <3>2 DEF Covered, Typed, flags
        <4>3. call[l] \in Counting => l \in todo[s]
          BY <3>2 DEF HandlersCounted, flags
        <4>4. CASE l \in todo[s]
          <5>1. Cardinality(todo'[s]) = Cardinality(todo[s]) - 1
            BY <4>1, <4>2, <4>4, FS_RemoveElement
          <5>2. check[s] \in Int /\ check'[s] >= check[s] - 1
            BY DEF Typed
          <5>3. check'[s] \in Int
            BY DEF Typed
          <5> QED  BY <3>2, <4>1, <4>2, <5>1, <5>2, <5>3
        <4>5. CASE l \notin todo[s]
          <5>1. todo'[s] = todo[s]
            BY <4>2, <4>5, SMTT(30)
          <5>2. check' = check
            BY <4>3, <4>5
          <5> QED  BY <3>2, <4>2, <5>1, <5>2
        <4> QED  BY <4>4, <4>5
      <3> QED  BY <3>1, <3>2
    <2>2. ASSUME NEW k \in Clients(r)', ops'[k] = "client", call'[k] # "leave"
          PROVE  k \in todo'[r]
      <3>1. CASE k # l
        BY <2>2, <3>1 DEF Covered, Clients, Typed, flags
      <3>2. CASE k = l
        BY <2>2, <3>2 DEF Covered, Clients, Typed, flags, Counting
      <3> QED  BY <3>1, <3>2
    <2> QED  BY <2>1, <2>2
  <1> QED  BY <1>1, <1>2

LEMMA CoveredListener ==
  ASSUME Typed, Lively, HandlersCounted, Covered, NEW l \in Listeners,
         \/ \E m \in Mounts : Join(l, m)
         \/ \E s \in Sources : HandlerStep(l, s) \/ Depart(l, s)
         \/ FileDone(l)
  PROVE  HandlersCounted' /\ Covered'
  <1>1. ASSUME NEW m \in Mounts, Join(l, m) PROVE HandlersCounted' /\ Covered'
    <2>1. PICK s \in Sources : at' = [at EXCEPT ![l] = s] /\ ~sync[s]
      BY <1>1, FirstOnIn DEF Join, Available
    <2>2. HandlersCounted'
      BY <1>1, <2>1 DEF Join, HandlersCounted, Typed, flags, phase
    <2>3. Covered'
      BY <1>1, <2>1 DEF Join, Covered, Clients, Typed, flags, phase
    <2> QED  BY <2>2, <2>3
  <1>2. ASSUME NEW s \in Sources, LookAt(l, s) PROVE HandlersCounted' /\ Covered'
    <2>1. run[s] => ~term[s] /\ l \in todo[s]
      BY <1>2 DEF LookAt, Handled, Lively, Covered, Clients
    <2>2. HandlersCounted'
      BY <1>2, <2>1 DEF LookAt, Handled, Goto, HandlersCounted, Counting, Typed, flags, phase
    <2>3. Covered'
      BY <1>2, <2>1 DEF LookAt, Handled, Goto, Covered, Clients, Typed, flags, phase
    <2> QED  BY <2>2, <2>3
  <1>3. ASSUME NEW s \in Sources, Depart(l, s) PROVE HandlersCounted' /\ Covered'
    <2>1. HandlersCounted'
      BY <1>3 DEF Depart, Handled, Goto, HandlersCounted, Counting, Typed, flags, phase
    <2>2. Covered'
      BY <1>3 DEF Depart, Handled, Goto, Covered, Clients, Typed, flags, phase
    <2> QED  BY <2>1, <2>2
  <1>4. ASSUME NEW s \in Sources, WaitOver(l, s) PROVE HandlersCounted' /\ Covered'
    <2>1. run[s] => ~sync[s]
      BY <1>4 DEF WaitOver, Lively
    <2>2. HandlersCounted'
      BY <1>4 DEF WaitOver, HandlersCounted, Typed, flags, phase
    <2>3. Covered'
      BY <1>4, <2>1 DEF WaitOver, Covered, Clients, Typed, flags, phase
    <2> QED  BY <2>2, <2>3
  <1>5. ASSUME NEW s \in Sources, Hold(l, s) PROVE HandlersCounted' /\ Covered'
    <2>1. ops[l] = "wait"
      BY <1>5 DEF Hold, HandlersCounted
    <2> QED
      BY <1>5, <2>1, CountedDown DEF Hold, CountDown, Idle, Counting, Typed
  <1>6. ASSUME NEW s \in Sources, Quit(l, s) PROVE HandlersCounted' /\ Covered'
    BY <1>6, CountedDown DEF Quit, CountDown, Idle, Off, Counting, Typed
  <1>7. ASSUME NEW s \in Sources, Dropped(l, s) PROVE HandlersCounted' /\ Covered'
    BY <1>7, CountedDown DEF Dropped, CountDown, Goto, Counting, Typed
  <1>8. ASSUME NEW s \in Sources, Leave(l, s) PROVE HandlersCounted' /\ Covered'
    BY <1>8, CountedDown DEF Leave, Idle, Off, Typed
  <1>9. ASSUME NEW s \in Sources, Back(l, s) PROVE HandlersCounted' /\ Covered'
    <2>1. at[l] # s
      BY <1>9 DEF Back, HandlersCounted
    <2> QED
      BY <1>9, <2>1, CountedDown DEF Back, CountDown, Idle, Counting, Typed
  <1>10. ASSUME NEW s \in Sources, Detach(l, s) PROVE HandlersCounted' /\ Covered'
    <2>1. HandlersCounted'
      BY <1>10 DEF Detach, Off, HandlersCounted, Counting, Typed, flags, phase
    <2>2. Covered'
      BY <1>10 DEF Detach, Off, Covered, Clients, Typed, flags, phase
    <2> QED  BY <2>1, <2>2
  <1>11. ASSUME NEW s \in Sources, Move(l, s) PROVE HandlersCounted' /\ Covered'
    <2>1. PICK x : /\ at' = [at EXCEPT ![l] = x]
                   /\ x \in {NoSource, File} \/ (x \in Sources /\ run[x] /\ ~sync[x])
      <3>1. at[l] = NoSource /\ at = [at EXCEPT ![l] = at[l]]
        BY <1>11 DEF Move, Typed
      <3>2. at' = at \/ at' = [at EXCEPT ![l] = File]
            \/ \E r \in Sources : at' = [at EXCEPT ![l] = r] /\ run[r] /\ ~sync[r]
        BY <1>11, FirstOnIn DEF Move, Available
      <3> QED  BY <3>1, <3>2
    <2>2. run[s] => sync[s]
      BY <1>11 DEF Move, HandlersCounted, Counting
    <2>3. HandlersCounted'
      BY <1>11, <2>1, <2>2 DEF Move, HandlersCounted, Counting, Typed, flags, phase
    <2>4. Covered'
      BY <1>11, <2>1 DEF Move, Covered, Clients, Typed, flags, phase
    <2> QED  BY <2>3, <2>4
  <1>12. ASSUME FileDone(l) PROVE HandlersCounted' /\ Covered'
    BY <1>12 DEF FileDone, Off, HandlersCounted, Counting, Covered, Clients, Typed, flags, phase
  <1> QED
    BY <1>1, <1>2, <1>3, <1>4, <1>5, <1>6, <1>7, <1>8, <1>9, <1>10, <1>11, <1>12
       DEF HandlerStep

LEMMA CoveredStep ==
  Typed /\ Lively /\ HandlersCounted /\ Covered /\ [Next]_vars => HandlersCounted' /\ Covered'
  <1> SUFFICES ASSUME Typed, Lively, HandlersCounted, Covered, [Next]_vars
               PROVE  HandlersCounted' /\ Covered'
    OBVIOUS
  <1>1. ASSUME NEW s \in Sources, NEW m \in Mounts, MoveClients(s, m)
        PROVE HandlersCounted' /\ Covered'
    <2>1. ~sync[s] /\ UNCHANGED run /\ \A r \in Sources \ {s} : fallback'[r] = fallback[r]
      BY <1>1 DEF MoveClients, Available, Typed, flags
    <2> QED  BY <1>1, <2>1, PhaseCovers DEF MoveClients
  <1>2. CASE UNCHANGED vars
    BY <1>2 DEF HandlersCounted, Covered, Clients, vars, flags, phase, lvars
  <1> QED
    BY <1>1, <1>2, CoveredSource, CoveredListener DEF Next

-----------------------------------------------------------------------------
LEMMA Inductive == Spec => []IInv
  <1>1. Init => IInv
    <2> SUFFICES ASSUME Init PROVE IInv
      OBVIOUS
    <2>1. Typed /\ Lively /\ HandlersCounted /\ Covered
      BY DEF Init, Typed, Lively, EndedIsEmpty, HandlersCounted, Counting, Covered, Clients
    <2>2. Counted = {} /\ total = 0
      BY DEF Init, Counted
    <2>3. TotalIsRight
      BY <2>2, FS_EmptySet DEF TotalIsRight, Counted
    <2> QED  BY <2>1, <2>3 DEF IInv
  <1>2. IInv /\ [Next]_vars => IInv'
    BY TypedStep, LivelyStep, TotalStep, CoveredStep DEF IInv
  <1> QED  BY <1>1, <1>2, PTL DEF Spec

(* The sources and the listeners of every mountpoint stay well typed, and  *)
(* a handler's source is its listener's own until it is taken off it.      *)
THEOREM TypeCorrect == Spec => []TypeOK
  <1>1. IInv => TypeOK
    <2> SUFFICES ASSUME IInv PROVE TypeOK
      OBVIOUS
    <2>1. total \in Nat
      BY CountedFinite DEF IInv, TotalIsRight, Counted
    <2> QED  BY <2>1 DEF IInv, Typed, TypeOK
  <1> QED  BY <1>1, Inductive, PTL

(* No listener is left on a source that ended (source_client_read's        *)
(* recheck of the listeners, source_available).                            *)
THEOREM EndedSourcesEmpty == Spec => []EndedIsEmpty
  <1>1. IInv => EndedIsEmpty
    BY DEF IInv, Lively
  <1> QED  BY <1>1, Inductive, PTL

(* global.listeners is right whichever way listeners come, move and go.    *)
THEOREM TotalCorrect == Spec => []TotalIsRight
  <1>1. IInv => TotalIsRight
    BY DEF IInv
  <1> QED  BY <1>1, Inductive, PTL

(* A phase of a source that goes on is not over before every listener had  *)
(* its turn: listener_check bounds those that did not.                     *)
THEOREM PhaseCoversAll == Spec => []CheckCovers
  <1>1. IInv => CheckCovers
    BY DEF IInv, Covered, CheckCovers, Running
  <1> QED  BY <1>1, Inductive, PTL

-----------------------------------------------------------------------------
(* The refinement: each step as the service sees it.                       *)
USE TransitAssumption

Calls == {s \in Sources : sync[s]}

LEMMA Seen ==
  ASSUME Typed
  PROVE  /\ \A s \in Sources :
              /\ Lives[s] = "none" <=> source[s] = "none"
              /\ Lives[s] = "over" <=> source[s] \in {"halt", "gone"}
              /\ Lives[s] = "open" <=> source[s] \in {"read", "drop"} /\ run[s]
              /\ Lives[s] = "ending" <=> source[s] \in {"read", "drop"} /\ ~run[s]
              /\ Clients(s) = {} => \A l \in Listeners : Where[l] # s
         /\ \A l \in Listeners :
              /\ at[l] # NoSource => Where[l] = at[l]
              /\ at[l] = NoSource /\ call[l] \in {"move", "back"} => Where[l] = "transit"
              /\ at[l] = NoSource /\ call[l] \notin {"move", "back"} => Where[l] = NoSource
  BY DEF Typed, Lives, Where, Clients

LEMMA OneChanged ==
  ASSUME NEW S, NEW R, NEW f \in [S -> R], NEW g \in [S -> R], NEW x \in S, NEW v,
         g[x] = v, \A y \in S \ {x} : g[y] = f[y]
  PROVE  g = [f EXCEPT ![x] = v]
  OBVIOUS

LEMMA SeenSame ==
  ASSUME UNCHANGED <<Lives, Calls, Where>>
  PROVE  [Service!Next]_(Service!vars)
  BY DEF Service!vars, Calls

LEMMA SeenSource ==
  ASSUME Typed, Lively, NEW s \in Sources, SourceStep(s) \/ Expire(s)
  PROVE  [Service!Next]_(Service!vars)
  <1>0. UNCHANGED Where
    <2>1. UNCHANGED <<at, call>>
      BY DEF SourceStep, Start, FirstBlock, Stop, Expire, EndPhase, PhaseTimeout,
             SourceShutdown, Shutdown, OffTree, Drained, Drain, Halt, lvars
    <2> QED  BY <2>1 DEF Where
  <1>1. ASSUME Start(s) PROVE Service!Open(s)
    <2>1. Lives[s] = "none" /\ Lives' = [Lives EXCEPT ![s] = "open"]
      BY <1>1 DEF Start, Lives, Typed
    <2>2. ASSUME NEW r \in Sources, Mount[r] = Mount[s] PROVE Lives[r] # "open"
      <3>1. ~tree[r]
        BY <1>1, <2>2 DEF Start, Find
      <3> QED  BY <3>1, Seen DEF Lively
    <2> QED  BY <1>0, <1>1, <2>1, <2>2 DEF Service!Open, Start, phase
  <1>2. ASSUME FirstBlock(s) PROVE [Service!Next]_(Service!vars)
    <2> DEFINE called == {r \in Overridden(s) : Clients(r) # {} /\ fallback[r] = NoMount}
    <2>1. UNCHANGED Lives
      BY <1>2 DEF FirstBlock, Lives
    <2>2. CASE UNCHANGED phase
      BY <1>0, <2>1, <2>2, SeenSame DEF phase, Calls
    <2>3. ASSUME NEW r \in called, BeginPhase(r) PROVE Service!Next
      <3>1. r \in Sources /\ run[r]
        BY <2>3 DEF Overridden, Find, Running
      <3>2. Lives[r] = "open"
        BY <3>1, Seen DEF Lively
      <3>3. Calls' = Calls \cup {r}
        BY <2>3, <3>1 DEF BeginPhase, Calls, Typed
      <3>4. Service!Call(r)
        BY <1>0, <2>1, <3>2, <3>3 DEF Service!Call, Calls
      <3> QED  BY <3>1, <3>4 DEF Service!Next
    <2> QED  BY <1>2, <2>2, <2>3 DEF FirstBlock
  <1>3. ASSUME Stop(s) PROVE Service!Close(s)
    <2>1. Lives[s] = "open" /\ Lives' = [Lives EXCEPT ![s] = "ending"]
      <3>1. source' = source /\ source[s] = "read" /\ run[s] /\ run' = [run EXCEPT ![s] = FALSE]
        BY <1>3 DEF Stop, Running
      <3>2. run \in [Sources -> BOOLEAN] /\ run'[s] = FALSE /\ \A r \in Sources \ {s} : run'[r] = run[r]
        BY <3>1 DEF Typed
      <3>3. Lives[s] = "open" /\ Lives'[s] = "ending"
        BY <3>1, <3>2 DEF Lives
      <3>4. \A r \in Sources \ {s} : Lives'[r] = Lives[r]
        BY <3>1, <3>2 DEF Lives
      <3>5. \A r \in Sources : Lives[r] \in {"none", "over", "open", "ending"}
        BY DEF Lives, Typed
      <3>6. /\ Lives \in [Sources -> {"none", "over", "open", "ending"}]
            /\ Lives' \in [Sources -> {"none", "over", "open", "ending"}]
        BY <3>3, <3>4, <3>5 DEF Lives
      <3> QED  BY <3>3, <3>4, <3>6, OneChanged
    <2> QED  BY <1>0, <1>3, <2>1 DEF Stop, phase, Service!Close
  <1>4. ASSUME Expire(s) \/ OffTree(s) \/ Halt(s) PROVE UNCHANGED <<Lives, Calls, Where>>
    <2>1. UNCHANGED <<run, sync>>
      BY <1>4 DEF Expire, OffTree, Halt, flags, phase
    <2>2. UNCHANGED Lives
      BY <1>4, <2>1 DEF Expire, OffTree, Halt, flags, Lives, Typed
    <2> QED  BY <1>0, <2>1, <2>2 DEF Calls
  <1>5. ASSUME EndPhase(s) PROVE Service!CallOff(s)
    <2>1. Lives[s] = "open" /\ UNCHANGED Lives
      BY <1>5 DEF EndPhase, Running, Lives, flags
    <2>2. Calls' = Calls \ {s}
      BY <1>5 DEF EndPhase, Calls, Typed
    <2> QED  BY <1>0, <2>1, <2>2 DEF Service!CallOff, Calls
  <1>6. ASSUME source[s] \in {"read", "drop"}, Clients(s) = {}, Finish(s),
               \A r \in Sources \ {s} : run'[r] = run[r]
        PROVE  Service!End(s)
    <2>1. Lives[s] \in {"open", "ending"} /\ \A l \in Listeners : Where[l] # s
      BY <1>6, Seen DEF Typed
    <2>2. Lives' = [Lives EXCEPT ![s] = "over"]
      <3>1. \A r \in Sources \ {s} : source'[r] = source[r] /\ run'[r] = run[r]
        BY <1>6 DEF Finish, Typed
      <3>2. source'[s] \in {"halt", "gone"}
        BY <1>6 DEF Finish, Typed
      <3>3. \A r \in Sources :
              source[r] \in {"none", "read", "drop", "halt", "gone"}
        BY DEF Typed
      <3> QED  BY <3>1, <3>2, <3>3 DEF Lives
    <2>3. Calls' = Calls \ {s}
      BY <1>6 DEF Finish, Calls, Typed
    <2> QED  BY <1>0, <2>1, <2>2, <2>3 DEF Service!End, Calls
  <1>7. ASSUME source[s] \in {"read", "drop"}, BeginPhase(s), run' = [run EXCEPT ![s] = FALSE],
               NEW x \in {"read", "drop"}, source' = [source EXCEPT ![s] = x]
        PROVE  Service!Call(s) \/ Service!Close(s)
    <2>1. Calls' = Calls \cup {s}
      BY <1>7 DEF BeginPhase, Calls, Typed
    <2>2. CASE run[s]
      <3>1. Lives[s] = "open"
        BY <1>7, <2>2, Seen
      <3>2. Lives' = [Lives EXCEPT ![s] = "ending"]
        <4>1. \A r \in Sources \ {s} : source'[r] = source[r] /\ run'[r] = run[r]
          BY <1>7 DEF Typed
        <4>2. source'[s] \in {"read", "drop"} /\ ~run'[s]
          BY <1>7 DEF Typed
        <4>3. \A r \in Sources :
                source[r] \in {"none", "read", "drop", "halt", "gone"}
          BY DEF Typed
        <4> QED  BY <4>1, <4>2, <4>3 DEF Lives
      <3> QED  BY <1>0, <2>1, <3>1, <3>2 DEF Service!Close, Calls
    <2>3. CASE ~run[s]
      <3>1. Lives[s] = "ending"
        BY <1>7, <2>3, Seen
      <3>2. run' = run
        BY <1>7, <2>3 DEF Typed
      <3>3. UNCHANGED Lives
        BY <1>7, <3>2 DEF Lives, Typed
      <3> QED  BY <1>0, <2>1, <3>1, <3>3 DEF Service!Call, Calls
    <2> QED  BY <2>2, <2>3
  <1>8. ASSUME Shutdown(s), source[s] = "read"
        PROVE  Service!End(s) \/ Service!Call(s) \/ Service!Close(s)
    <2>1. run' = [run EXCEPT ![s] = FALSE]
      BY <1>8 DEF Shutdown
    <2>2. CASE Mount[s] \in Reserving /\ Clients(s) = {}
      <3>1. \A r \in Sources \ {s} : run'[r] = run[r]
        BY <2>1 DEF Typed
      <3> QED  BY <1>6, <1>8, <2>2, <3>1 DEF Shutdown
    <2>3. CASE ~(Mount[s] \in Reserving /\ Clients(s) = {})
      BY <1>7, <1>8, <2>1, <2>3 DEF Shutdown
    <2> QED  BY <2>2, <2>3
  <1>9. ASSUME Drained(s) PROVE [Service!Next]_(Service!vars)
    <2>1. UNCHANGED run /\ ~run[s] /\ source[s] \in {"read", "drop"} /\ Drain(s)
      BY <1>9 DEF Drained, Drain, Lively
    <2>2. CASE UNCHANGED phase /\ source' = [source EXCEPT ![s] = "read"]
      <3>1. UNCHANGED Lives
        BY <2>1, <2>2 DEF Lives, Typed
      <3> QED  BY <1>0, <2>2, <3>1, SeenSame DEF phase, Calls
    <2>3. CASE BeginPhase(s) /\ source' = [source EXCEPT ![s] = "read"]
      <3>1. run' = [run EXCEPT ![s] = FALSE]
        BY <2>1 DEF Typed
      <3>2. Service!Call(s) \/ Service!Close(s)
        BY <1>7, <2>1, <2>3, <3>1
      <3> QED  BY <3>2 DEF Service!Next
    <2>4. CASE Finish(s) /\ Clients(s) = {}
      <3>1. Service!End(s)
        BY <1>6, <2>1, <2>4
      <3> QED  BY <3>1 DEF Service!Next
    <2> QED  BY <2>1, <2>2, <2>3, <2>4 DEF Drain
  <1>10. ASSUME Start(s) \/ Stop(s) \/ EndPhase(s) \/ PhaseTimeout(s) \/ SourceShutdown(s)
         PROVE  Service!Next
    <2>1. \/ Service!Open(s) \/ Service!Close(s) \/ Service!CallOff(s)
          \/ Service!End(s) \/ Service!Call(s)
      BY <1>1, <1>3, <1>5, <1>8, <1>10 DEF PhaseTimeout, SourceShutdown
    <2> QED  BY <2>1 DEF Service!Next
  <1> QED
    BY <1>2, <1>4, <1>9, <1>10, SeenSame DEF SourceStep

LEMMA SeenListener ==
  ASSUME Typed, Lively, HandlersCounted, NEW l \in Listeners,
         \/ \E m \in Mounts : Join(l, m)
         \/ \E s \in Sources : HandlerStep(l, s) \/ Depart(l, s)
         \/ FileDone(l)
  PROVE  [Service!Next]_(Service!vars)
  <1>0. UNCHANGED Lives /\ UNCHANGED Calls
    <2>1. UNCHANGED <<source, run, sync>>
      BY DEF Join, HandlerStep, LookAt, WaitOver, Hold, Quit, Dropped, Leave, Detach, Move, Back,
             Depart, FileDone, flags, phase
    <2> QED  BY <2>1 DEF Lives, Calls
  <1> DEFINE Left == Where' = [Where EXCEPT ![l] = NoSource]
  <1>1. ASSUME Left PROVE [Service!Next]_(Service!vars)
    <2>1. CASE Where[l] = NoSource
      <3>1. UNCHANGED Where
        BY <1>1, <2>1 DEF Where
      <3> QED  BY <1>0, <3>1, SeenSame
    <2>2. CASE Where[l] # NoSource
      <3>1. Service!Leave(l)
        BY <1>0, <1>1, <2>2 DEF Service!Leave, Calls
      <3> QED  BY <3>1 DEF Service!Next
    <2> QED  BY <2>1, <2>2
  <1>2. ASSUME NEW r \in Sources, run[r], ~sync[r], Where[l] \in {NoSource, "transit"},
               Where' = [Where EXCEPT ![l] = r]
        PROVE  Service!Next
    <2>1. Lives[r] = "open" /\ r \notin Calls
      BY <1>2, Seen DEF Lively, Calls
    <2>2. Service!Arrive(l, r)
      BY <1>0, <1>2, <2>1 DEF Service!Arrive, Service!Takes, Calls
    <2> QED  BY <2>2 DEF Service!Next
  <1>3. ASSUME NEW m \in Mounts, Join(l, m) PROVE Service!Next
    <2>1. PICK r \in Sources : at' = [at EXCEPT ![l] = r] /\ run[r] /\ ~sync[r]
      BY <1>3, FirstOnIn DEF Join, Available
    <2>2. Where[l] = NoSource /\ Where' = [Where EXCEPT ![l] = r]
      BY <1>3, <2>1 DEF Join, Where, Typed
    <2> QED  BY <1>2, <2>1, <2>2
  <1>4. ASSUME NEW s \in Sources, LookAt(l, s) \/ Depart(l, s) \/ WaitOver(l, s)
                                   \/ Hold(l, s) \/ Dropped(l, s)
        PROVE  UNCHANGED Where
    BY <1>4 DEF LookAt, Depart, WaitOver, Hold, Dropped, Handled, Goto, Idle, Where, Typed
  <1>5. ASSUME NEW s \in Sources, Quit(l, s) \/ Leave(l, s) PROVE Left
    BY <1>5 DEF Quit, Leave, Off, Idle, Where, Typed
  <1>6. ASSUME NEW s \in Sources, Detach(l, s) PROVE Service!Next
    <2>1. Where[l] = s /\ s \in Calls
      BY <1>6 DEF Detach, Where, Calls, HandlersCounted, Typed
    <2>2. Where' = [Where EXCEPT ![l] = "transit"]
      BY <1>6 DEF Detach, Off, Where, Typed
    <2>3. Service!Go(l, s)
      BY <1>0, <2>1, <2>2 DEF Service!Go, Calls
    <2> QED  BY <2>3 DEF Service!Next
  <1>7. ASSUME NEW s \in Sources, Move(l, s) PROVE [Service!Next]_(Service!vars)
    <2>1. Where[l] = "transit" /\ call' = [call EXCEPT ![l] = "back"] /\ at[l] = NoSource
      BY <1>7 DEF Move, Where, Typed
    <2>2. CASE at' = at
      <3>1. UNCHANGED Where
        BY <2>1, <2>2 DEF Where, Typed
      <3> QED  BY <1>0, <3>1, SeenSame
    <2>3. CASE at' = [at EXCEPT ![l] = File]
      <3>1. Where' = [Where EXCEPT ![l] = File]
        BY <2>1, <2>3 DEF Where, Typed
      <3>2. Service!ToFile(l)
        BY <1>0, <2>1, <3>1 DEF Service!ToFile, Calls
      <3> QED  BY <3>2 DEF Service!Next
    <2>4. ASSUME NEW r \in Sources, at' = [at EXCEPT ![l] = r], run[r], ~sync[r]
          PROVE  Service!Next
      <3>1. Where' = [Where EXCEPT ![l] = r]
        BY <2>1, <2>4 DEF Where, Typed
      <3> QED  BY <1>2, <2>1, <2>4, <3>1
    <2> QED  BY <1>7, <2>2, <2>3, <2>4, FirstOnIn DEF Move, Available
  <1>8. ASSUME NEW s \in Sources, Back(l, s) PROVE Left \/ UNCHANGED Where
    <2>1. CASE at[l] = NoSource
      BY <1>8, <2>1 DEF Back, Idle, Where, Typed
    <2>2. CASE at[l] # NoSource
      BY <1>8, <2>2 DEF Back, Idle, Where, Typed
    <2> QED  BY <2>1, <2>2
  <1>9. ASSUME FileDone(l) PROVE Left
    BY <1>9 DEF FileDone, Off, Where, Typed
  <1> QED
    BY <1>0, <1>1, <1>3, <1>4, <1>5, <1>6, <1>7, <1>8, <1>9, SeenSame DEF HandlerStep

(* Whatever the interleaving of sources, listeners and admin requests,     *)
(* what the listeners see is MountService: no one is put on a source that  *)
(* ends or calls its listeners elsewhere, no one is moved uncalled, and a  *)
(* source is over only without listeners (move_listener,                   *)
(* source_add_listener, source_client_read).                               *)
THEOREM Implements == Spec => ImplementsService
  <1>1. Init => Service!Init
    <2> SUFFICES ASSUME Init PROVE Service!Init
      OBVIOUS
    <2>1. Lives = [s \in Sources |-> "none"] /\ Where = [l \in Listeners |-> NoSource]
      BY DEF Init, Lives, Where
    <2>2. Calls = {}
      BY DEF Init, Calls
    <2> QED  BY <2>1, <2>2 DEF Service!Init, Calls
  <1>2. IInv /\ [Next]_vars => [Service!Next]_(Service!vars)
    <2> SUFFICES ASSUME IInv, [Next]_vars PROVE [Service!Next]_(Service!vars)
      OBVIOUS
    <2>1. ASSUME NEW s \in Sources, NEW m \in Mounts, MoveClients(s, m) PROVE Service!Next
      <3>1. UNCHANGED <<Lives, Where>>
        BY <2>1 DEF MoveClients, Lives, Where, flags, lvars
      <3>2. Lives[s] = "open"
        BY <2>1, Seen DEF IInv, Lively, MoveClients, Available
      <3>3. Calls' = Calls \cup {s}
        BY <2>1 DEF MoveClients, BeginPhase, Calls, IInv, Typed
      <3>4. Service!Call(s)
        BY <3>1, <3>2, <3>3 DEF Service!Call, Calls
      <3> QED  BY <3>4 DEF Service!Next
    <2>2. CASE UNCHANGED vars
      <3>1. UNCHANGED <<Lives, Calls, Where>>
        BY <2>2 DEF vars, flags, phase, lvars, Lives, Calls, Where
      <3> QED  BY <3>1, SeenSame
    <2> QED
      BY <2>1, <2>2, SeenSource, SeenListener DEF Next, IInv
  <1> QED  BY <1>1, <1>2, Inductive, PTL DEF Spec, ImplementsService, Service!Spec
=============================================================================
