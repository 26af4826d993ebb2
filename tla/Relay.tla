------------------------------- MODULE Relay -------------------------------
(***************************************************************************)
(* The relays of one mountpoint (src/src/slave.c).                         *)
(*                                                                         *)
(* A relay is what the configuration or the master's list says of a        *)
(* mountpoint; global.relays holds one per mountpoint.  A client without a *)
(* listener drives it on a worker: it reserves the source, starts a thread *)
(* that connects to the first host that answers, reads the stream, drains  *)
(* the listeners when the stream ends and starts again.  A reload never    *)
(* touches a relay in use: it puts a copy in the tree which the client     *)
(* takes over at its next turn, and what was not listed is out of date.    *)
(* A thread may connect to a better host meanwhile and have the client     *)
(* replaced by a new one.                                                  *)
(*                                                                         *)
(* Times are abstract: a delay may be over at any moment, a host may be    *)
(* skipped or fail at any try, and reloads are at least a second apart.    *)
(* Source clients on the mountpoint of a relay are not in this module.     *)
(***************************************************************************)
EXTENDS Integers, FiniteSets

CONSTANTS
  Relays, RelayClients, RelaySources,  (* Memory for each; reused once freed. *)
  Nil,
  StartSlots,    (* relays_connecting at which no thread is started (5).   *)
  SwitchSlots,   (* ... and no check of better hosts (10).                 *)
  MaxHeard,      (* Bound of the model: listeners of a source.             *)
  MaxChanges,    (* Bound of the model: reloads and lists of the master.   *)
  Races          (* Changes may come before a new client's first turn;     *)
                 (* they, the stream's end and a second check of hosts,    *)
                 (* during a switch of hosts.                              *)

VARIABLES
  rel,           (* relay_server by relay, and who is told to use it.      *)
  rcl,           (* The relay clients.                                     *)
  rsrc,          (* The source_t of the mountpoint.                        *)
  intree,        (* The relay of the mountpoint in global.relays.          *)
  reserved,      (* The source of the mountpoint in global.source_tree.    *)
  switching,     (* The copies relay_switch threads work with.             *)
  relays_connecting,
  nsources,      (* global.sources.                                        *)
  halting,       (* global.running is no longer MC_RUNNING.                *)
  changes        (* How often the configuration or the list changed.       *)

relayVars == <<rel, rcl, rsrc, intree, reserved, switching, relays_connecting,
               nsources, halting, changes>>

NoRelay  == [live |-> FALSE, cleanup |-> FALSE, inlist |-> FALSE, old |-> FALSE,
             master |-> FALSE, src |-> Nil, new |-> Nil, use |-> 0, ver |-> 0,
             demand |-> FALSE]
NoClient == [at |-> "none", rel |-> Nil, con |-> FALSE, aux |-> Nil, seen |-> FALSE]
NoSource == [live |-> FALSE, client |-> Nil, run |-> FALSE, pause |-> FALSE,
             term |-> FALSE, sync |-> FALSE, sw |-> FALSE, heard |-> 0, check |-> 0]

Init ==
  /\ rel = [r \in Relays |-> NoRelay]
  /\ rcl = [c \in RelayClients |-> NoClient]
  /\ rsrc = [s \in RelaySources |-> NoSource]
  /\ intree = Nil /\ reserved = Nil /\ switching = {}
  /\ relays_connecting = 0 /\ nsources = 0 /\ halting = FALSE /\ changes = 0

FreeRelays  == {r \in Relays : ~rel[r].live}
FreeClients == {c \in RelayClients : rcl[c].at = "none"}
FreeSources == {s \in RelaySources : ~rsrc[s].live}

NoneWaits == \A c \in RelayClients : rcl[c].at # "wait"
Settled ==
  /\ NoneWaits
  /\ \A c \in RelayClients : rcl[c].at = "init" => rel[rcl[c].rel].src # Nil

(* The relays whose updated time is before the barrier of where they come  *)
(* from, once that barrier is raised: R but for those just listed.         *)
Outdated(f, master) ==
  [r \in Relays |-> IF f[r].live /\ f[r].master = master
                    THEN [f[r] EXCEPT !.old = TRUE] ELSE f[r]]

(* detach_master_relay: whatever relay has the mountpoint leaves the tree. *)
Detached(f, cleanup) ==
  IF intree = Nil THEN f
  ELSE [f EXCEPT ![intree] =
          [@ EXCEPT !.inlist = FALSE, !.cleanup = f[intree].cleanup \/ cleanup]]

-----------------------------------------------------------------------------
(* The slave thread.                                                       *)

(* relay_installed: into the tree, with a client of its own.               *)
Install(f, fields) ==
  \E r \in FreeRelays, c \in FreeClients :
    /\ r = CHOOSE x \in FreeRelays : TRUE
    /\ c = CHOOSE x \in FreeClients : TRUE
    /\ rel' = [f EXCEPT ![r] = fields]
    /\ rcl' = [rcl EXCEPT ![c] = [NoClient EXCEPT !.at = "init", !.rel = r]]
    /\ intree' = r

MayChange ==
  /\ ~halting /\ changes < MaxChanges /\ changes' = changes + 1
  /\ Races \/ NoneWaits

Fresh(master, ver, demand) ==
  [NoRelay EXCEPT !.live = TRUE, !.inlist = TRUE, !.master = master, !.ver = ver,
                  !.demand = demand]

(* update_relays with the mountpoint in the configuration.  A relay that   *)
(* is leaving, or has no source yet, is taken off the tree and a new one   *)
(* installed; another one is told of the copy.                             *)
ReloadListed(ver, demand) ==
  /\ MayChange
  /\ LET f == Outdated(Detached(rel, FALSE), FALSE)
         given == Fresh(FALSE, ver, demand) IN
     IF intree = Nil \/ rel[intree].cleanup \/ rel[intree].src = Nil
     THEN Install(f, given)
     ELSE \E k \in FreeRelays :
            /\ k = CHOOSE x \in FreeRelays : TRUE
            /\ rel' = [f EXCEPT ![k] = given, ![intree].new = k]
            /\ intree' = k /\ UNCHANGED rcl
  /\ UNCHANGED <<rsrc, reserved, switching, relays_connecting, nsources, halting>>

ReloadDropped ==
  /\ MayChange /\ (Races \/ Settled)
  /\ rel' = Outdated(rel, FALSE)
  /\ UNCHANGED <<rcl, rsrc, intree, reserved, switching, relays_connecting,
                 nsources, halting>>

(* streamlist_thread: the master lists the mountpoint, or answers and does *)
(* not list it.                                                            *)
MasterLists ==
  /\ MayChange
  /\ LET f == Outdated(rel, TRUE) IN
     IF intree = Nil THEN Install(f, Fresh(TRUE, 0, FALSE))
     ELSE IF rel[intree].cleanup
     THEN Install(Detached(f, FALSE), Fresh(TRUE, 0, FALSE))
     ELSE /\ rel' = [f EXCEPT ![intree].old = FALSE]
          /\ UNCHANGED <<rcl, intree>>
  /\ UNCHANGED <<rsrc, reserved, switching, relays_connecting, nsources, halting>>

MasterDrops ==
  /\ MayChange /\ (Races \/ Settled)
  /\ rel' = Outdated(rel, TRUE)
  /\ UNCHANGED <<rcl, rsrc, intree, reserved, switching, relays_connecting,
                 nsources, halting>>

Halt ==
  /\ ~halting /\ (Races \/ Settled)
  /\ halting' = TRUE
  /\ UNCHANGED <<rel, rcl, rsrc, intree, reserved, switching, relays_connecting,
                 nsources, changes>>

(* The end of _slave_thread raises both barriers.                          *)
RaiseBarriers ==
  /\ halting /\ (Races \/ Settled) /\ \E r \in Relays : rel[r].live /\ ~rel[r].old
  /\ rel' = Outdated(Outdated(rel, TRUE), FALSE)
  /\ UNCHANGED <<rcl, rsrc, intree, reserved, switching, relays_connecting,
                 nsources, halting, changes>>

-----------------------------------------------------------------------------
(* The turns of a relay client on its worker.                              *)

(* get_relay_details, at the beginning of every turn.                      *)
Turn(c) ==
  /\ rcl[c].at \in {"init", "start", "read"} /\ ~rcl[c].seen
  /\ LET r == rcl[c].rel
         n == IF rel[r].new = Nil THEN r ELSE rel[r].new
         moved == IF n = r THEN rel
                  ELSE [rel EXCEPT ![r] = NoRelay,
                          ![n] = [@ EXCEPT !.src = rel[r].src, !.use = rel[r].use]]
         changed == n # r /\ rel[r].use # 0 /\ rel[r].ver # rel[n].ver
         s == moved[n].src IN
     /\ rel' = [moved EXCEPT ![n].cleanup = @ \/ moved[n].old]
     /\ rcl' = [rcl EXCEPT ![c] = [@ EXCEPT !.rel = n, !.seen = TRUE]]
     /\ rsrc' = IF changed THEN [rsrc EXCEPT ![s].run = FALSE] ELSE rsrc
  /\ UNCHANGED <<intree, reserved, switching, relays_connecting, nsources, halting,
                 changes>>

(* relay_release, after the relay f.                                       *)
Release(c, f) ==
  LET r == rcl[c].rel IN
  /\ rel' = [f EXCEPT ![r] = NoRelay]
  /\ rcl' = [rcl EXCEPT ![c] = NoClient]
  /\ IF f[r].src = Nil THEN UNCHANGED <<rsrc, reserved>>
     ELSE /\ rsrc' = [rsrc EXCEPT ![f[r].src] = NoSource]
          /\ reserved' = Nil

(* relay_switchover: the client the switch was prepared with takes over.   *)
(* This one goes, with its relay unless that is back in the tree.          *)
Switchover(c, r, s) ==
  /\ rsrc[s].sw
  /\ rsrc' = [rsrc EXCEPT ![s] = [@ EXCEPT !.sw = FALSE, !.client = rcl[c].aux]]
  /\ rcl' = [rcl EXCEPT ![c] = NoClient]
  /\ rel' = IF rel[r].inlist THEN rel ELSE [rel EXCEPT ![r] = NoRelay]
  /\ UNCHANGED <<intree, reserved, switching, relays_connecting, nsources, halting,
                 changes>>

(* relay_initialise: reserve the source, or give the relay up when the     *)
(* mountpoint is in use or the format is not supported.                    *)
GivesUp(c) ==
  /\ rel' = [Detached(rel, TRUE) EXCEPT ![rcl[c].rel] = NoRelay]
  /\ intree' = Nil
  /\ rcl' = [rcl EXCEPT ![c] = NoClient]

Initialise(c) ==
  /\ rcl[c].at = "init" /\ rcl[c].seen
  /\ LET r == rcl[c].rel
         s == rel[r].src
         ready == [rcl EXCEPT ![c] = [@ EXCEPT !.at = "start", !.seen = FALSE]] IN
     /\ ~halting /\ ~rel[r].cleanup
     /\ \/ /\ s # Nil /\ ~rsrc[s].sw
           /\ rcl' = ready
           /\ UNCHANGED <<rel, rsrc, intree, reserved>>
        \/ /\ s = Nil /\ reserved = Nil
           /\ \E n \in FreeSources :
                /\ n = CHOOSE x \in FreeSources : TRUE
                /\ rsrc' = [rsrc EXCEPT ![n] = [NoSource EXCEPT !.live = TRUE,
                                                                !.client = c]]
                /\ rel' = [rel EXCEPT ![r].src = n] /\ reserved' = n
           /\ rcl' = ready /\ UNCHANGED intree
        \/ /\ s = Nil /\ reserved # Nil
           /\ GivesUp(c) /\ UNCHANGED <<rsrc, reserved>>
        \/ /\ s # Nil /\ ~rsrc[s].sw
           /\ GivesUp(c)
           /\ rsrc' = [rsrc EXCEPT ![s] = NoSource] /\ reserved' = Nil
  /\ UNCHANGED <<switching, relays_connecting, nsources, halting, changes>>

(* relay_startup: once there is somebody to hear an on-demand relay, and a *)
(* free slot, a thread is started; the client has no worker meanwhile.     *)
Startup(c) ==
  /\ rcl[c].at = "start" /\ rcl[c].seen
  /\ LET r == rcl[c].rel IN
     \/ /\ rel[r].cleanup
        /\ rcl' = [rcl EXCEPT ![c] = [@ EXCEPT !.at = "read", !.seen = FALSE]]
        /\ UNCHANGED relays_connecting
     \/ /\ ~rel[r].cleanup /\ ~halting /\ ~rsrc[rel[r].src].sw
        /\ rel[r].demand => rsrc[rel[r].src].heard > 0
        /\ relays_connecting <= StartSlots
        /\ relays_connecting' = relays_connecting + 1
        /\ rcl' = [rcl EXCEPT ![c] = [@ EXCEPT !.at = "thread", !.seen = FALSE]]
  /\ UNCHANGED <<rel, rsrc, intree, reserved, switching, nsources, halting, changes>>

(* The same turn when it has nothing to do but wait and look again.        *)
StandsBy(c) ==
  /\ rcl[c].at = "start" /\ rcl[c].seen
  /\ LET r == rcl[c].rel IN
     /\ ~rel[r].cleanup
     /\ \/ halting
        \/ ~rsrc[rel[r].src].sw /\ (\/ rel[r].demand /\ rsrc[rel[r].src].heard = 0
                                    \/ relays_connecting > StartSlots)
  /\ rcl' = [rcl EXCEPT ![c].seen = FALSE]
  /\ UNCHANGED <<rel, rsrc, intree, reserved, switching, relays_connecting, nsources,
                 halting, changes>>

(* start_relay_stream: the source counts from the first, so that every     *)
(* failure can count it off.                                               *)
ThreadStarts(c) ==
  /\ rcl[c].at = "thread"
  /\ nsources' = nsources + 1
  /\ rcl' = [rcl EXCEPT ![c] = [@ EXCEPT !.at = "connect", !.con = TRUE]]
  /\ rsrc' = [rsrc EXCEPT ![rel[rcl[c].rel].src].pause = TRUE]
  /\ UNCHANGED <<rel, intree, reserved, switching, relays_connecting, halting, changes>>

(* open_relay with the source unlocked, and what follows: host 0 is none.  *)
ThreadEnds(c) ==
  /\ rcl[c].at = "connect"
  /\ \E h \in 0 .. 2 :
       LET r == rcl[c].rel IN
       /\ rel' = [rel EXCEPT ![r].use = h]
       /\ rsrc' = [rsrc EXCEPT ![rel[r].src] =
                     [@ EXCEPT !.run = h # 0, !.pause = rsrc[rel[r].src].pause /\ h # 0]]
  /\ relays_connecting' = relays_connecting - 1
  /\ rcl' = [rcl EXCEPT ![c].at = "read"]
  /\ UNCHANGED <<intree, reserved, switching, nsources, halting, changes>>

(* relay_read while the stream goes on.  A check of better hosts may be    *)
(* due; an on-demand relay that nobody hears is stopped.                   *)
Streaming(c) == LET r == rcl[c].rel IN
  /\ rel[r].src # Nil /\ ~rel[r].cleanup
  /\ rsrc[rel[r].src].run /\ ~rsrc[rel[r].src].sw

ReadOn(c) ==
  /\ rcl[c].at = "read" /\ rcl[c].seen /\ Streaming(c) /\ ~halting
  /\ LET r == rcl[c].rel
         s == rel[r].src IN
     rsrc' = [rsrc EXCEPT ![s].run = ~(rel[r].demand /\ rsrc[s].heard = 0)]
  /\ rcl' = [rcl EXCEPT ![c].seen = FALSE]
  /\ UNCHANGED <<rel, intree, reserved, switching, relays_connecting, nsources,
                 halting, changes>>

CheckHosts(c) ==
  /\ rcl[c].at = "read" /\ rcl[c].seen /\ Streaming(c)
  /\ rel[rcl[c].rel].use = 2 /\ relays_connecting < SwitchSlots
  /\ Races \/ switching = {}
  /\ \E k \in FreeRelays :
       /\ k = CHOOSE x \in FreeRelays : TRUE
       /\ rel' = [rel EXCEPT ![k] = [rel[rcl[c].rel] EXCEPT !.src = Nil, !.new = Nil,
                                                            !.inlist = FALSE]]
       /\ switching' = switching \cup {k}
  /\ relays_connecting' = relays_connecting + 1
  /\ UNCHANGED <<rcl, rsrc, intree, reserved, nsources, halting, changes>>

(* relay_read once the stream is over: source_shutdown for the first turn, *)
(* a wait until the listeners were all looked at, then the end.            *)
Closing(c) ==
  /\ rcl[c].seen
  /\ \/ rcl[c].at = "read"
     \/ rcl[c].at = "init" /\ (halting \/ rel[rcl[c].rel].cleanup)
  /\ rel[rcl[c].rel].src # Nil
  /\ LET s == rsrc[rel[rcl[c].rel].src] IN s.run /\ s.sw => rel[rcl[c].rel].cleanup

Shut(s, r) ==
  IF rsrc[s].term THEN rsrc[s]
  ELSE [rsrc[s] EXCEPT !.term = TRUE, !.sync = TRUE, !.run = FALSE,
                       !.check = rsrc[s].heard, !.pause = @ /\ ~rel[r].cleanup]

StillDraining(x) == x.check # 0 /\ x.check <= x.heard

Drain(c) ==
  /\ Closing(c)
  /\ LET r == rcl[c].rel
         s == rel[r].src
         x == Shut(s, r) IN
     /\ StillDraining(x)
     /\ rsrc' = [rsrc EXCEPT ![s] = x]
     /\ rel' = [rel EXCEPT ![r].cleanup = @ \/ (halting /\ ~rsrc[s].term)]
  /\ rcl' = [rcl EXCEPT ![c].seen = FALSE]
  /\ UNCHANGED <<intree, reserved, switching, relays_connecting, nsources, halting,
                 changes>>

(* The wait took more than a second and a half: the next turn shuts again. *)
DrainAgain(c) ==
  /\ Closing(c)
  /\ LET s == rel[rcl[c].rel].src IN
     /\ rsrc[s].term /\ StillDraining(rsrc[s])
     /\ rsrc' = [rsrc EXCEPT ![s].term = FALSE]
  /\ rcl' = [rcl EXCEPT ![c].seen = FALSE]
  /\ UNCHANGED <<rel, intree, reserved, switching, relays_connecting, nsources,
                 halting, changes>>

CountedOff(c) == nsources' = nsources - (IF rcl[c].con THEN 1 ELSE 0)

Quiet(x) == [x EXCEPT !.term = FALSE, !.sync = FALSE, !.sw = FALSE]

(* All were looked at: the relay stands by for its next start.             *)
StandBy(c) ==
  /\ Closing(c)
  /\ LET r == rcl[c].rel
         s == rel[r].src
         x == Shut(s, r) IN
     /\ ~StillDraining(x) /\ ~rel[r].cleanup /\ (halting => rsrc[s].term)
     /\ rsrc' = [rsrc EXCEPT ![s] = Quiet(x)]
     /\ UNCHANGED rel
  /\ rcl' = [rcl EXCEPT ![c] = [@ EXCEPT !.at = "init", !.con = FALSE, !.seen = FALSE]]
  /\ CountedOff(c)
  /\ UNCHANGED <<intree, reserved, switching, relays_connecting, halting, changes>>

(* ... or, when it is to go, its listeners are called again until none is  *)
(* left, and relay, source and client are freed.                           *)
CallAgain(c) ==
  /\ Closing(c)
  /\ LET r == rcl[c].rel
         s == rel[r].src
         x == Shut(s, r) IN
     /\ ~StillDraining(x) /\ rel[r].cleanup /\ x.heard > 0
     /\ rsrc' = [rsrc EXCEPT ![s] = [Quiet(x) EXCEPT !.check = x.heard, !.pause = FALSE,
                                                     !.sync = TRUE]]
  /\ rcl' = [rcl EXCEPT ![c] = [@ EXCEPT !.con = FALSE, !.seen = FALSE]]
  /\ CountedOff(c)
  /\ UNCHANGED <<rel, intree, reserved, switching, relays_connecting, halting, changes>>

(* A fault: the relay is not taken off the tree before it is freed.        *)
CloseDown_StaysListed(c) ==
  /\ Closing(c)
  /\ LET r == rcl[c].rel
         x == Shut(rel[r].src, r) IN
     /\ ~StillDraining(x) /\ x.heard = 0
     /\ rel[r].cleanup \/ (halting /\ ~rsrc[rel[r].src].term)
     /\ Release(c, rel)
  /\ CountedOff(c)
  /\ UNCHANGED <<intree, switching, relays_connecting, halting, changes>>

CloseDown(c) ==
  /\ Closing(c)
  /\ LET r == rcl[c].rel
         x == Shut(rel[r].src, r)
         leave == rel[r].inlist /\ intree # Nil IN
     /\ ~StillDraining(x) /\ x.heard = 0
     /\ rel[r].cleanup \/ (halting /\ ~rsrc[rel[r].src].term)
     /\ Release(c, IF leave THEN Detached(rel, TRUE) ELSE rel)
     /\ intree' = IF leave THEN Nil ELSE intree
  /\ CountedOff(c)
  /\ UNCHANGED <<switching, relays_connecting, halting, changes>>

(* A relay without a source is freed at once.                              *)
Leaves(c) ==
  /\ rcl[c].seen /\ rel[rcl[c].rel].src = Nil
  /\ \/ rcl[c].at = "read"
     \/ rcl[c].at = "init" /\ (halting \/ rel[rcl[c].rel].cleanup)
  /\ Release(c, rel)
  /\ UNCHANGED <<intree, switching, relays_connecting, nsources, halting, changes>>

SwitchedOver(c) ==
  /\ rcl[c].seen /\ rel[rcl[c].rel].src # Nil /\ ~rel[rcl[c].rel].cleanup
  /\ \/ rcl[c].at \in {"init", "start"} /\ ~halting
     \/ rcl[c].at = "read" /\ rsrc[rel[rcl[c].rel].src].run
  /\ Switchover(c, rcl[c].rel, rel[rcl[c].rel].src)

-----------------------------------------------------------------------------
(* relay_switch: the thread that checks for a better host.                 *)

SwitchFails(k) ==
  /\ k \in switching
  /\ switching' = switching \ {k}
  /\ rel' = [rel EXCEPT ![k] = NoRelay]
  /\ relays_connecting' = relays_connecting - 1
  /\ UNCHANGED <<rcl, rsrc, intree, reserved, nsources, halting, changes>>

(* The first host answered: the relay leaves the tree, the source's client *)
(* is to make way for a new one, and that one waits for it.                *)
SwitchConnects(k) ==
  /\ k \in switching /\ reserved # Nil
  /\ LET s  == reserved
         sc == rsrc[s].client IN
     /\ \/ Races
        \/ /\ ~halting /\ rsrc[s].run /\ rcl[sc].at = "read" /\ ~rcl[sc].seen
           /\ LET r == rel[rcl[sc].rel] IN ~r.cleanup /\ ~r.old /\ r.new = Nil
     /\ \E c \in FreeClients :
          /\ c = CHOOSE x \in FreeClients : TRUE
          /\ rcl' = [rcl EXCEPT ![c] = [NoClient EXCEPT !.at = "wait", !.rel = k,
                                                        !.con = TRUE],
                                ![sc].aux = c]
     /\ rsrc' = [rsrc EXCEPT ![s].sw = TRUE]
     /\ rel' = [Detached(rel, FALSE) EXCEPT ![k] = [@ EXCEPT !.src = s, !.use = 1]]
  /\ intree' = Nil
  /\ switching' = switching \ {k}
  /\ relays_connecting' = relays_connecting - 1
  /\ UNCHANGED <<reserved, nsources, halting, changes>>

(* relay_wait_on_switchover: the switch is over, or the source is gone.    *)
WaitEnds(c) ==
  /\ rcl[c].at = "wait"
  /\ IF reserved = Nil
     THEN Release(c, rel) /\ UNCHANGED intree
     ELSE /\ ~rsrc[reserved].sw
          /\ rel' = [rel EXCEPT ![rcl[c].rel].inlist = TRUE]
          /\ intree' = rcl[c].rel
          /\ rcl' = [rcl EXCEPT ![c].at = "read"]
          /\ UNCHANGED <<rsrc, reserved>>
  /\ UNCHANGED <<switching, relays_connecting, nsources, halting, changes>>

-----------------------------------------------------------------------------
(* The stream and the listeners.                                           *)

(* source_read finds the stream at its end, or the server halting.         *)
StreamEnds(s) ==
  /\ rsrc[s].run /\ (Races \/ ~rsrc[s].sw)
  /\ rsrc' = [rsrc EXCEPT ![s].run = FALSE]
  /\ UNCHANGED <<rel, rcl, intree, reserved, switching, relays_connecting, nsources,
                 halting, changes>>

HeardChange(s, n, m) ==
  /\ rsrc' = [rsrc EXCEPT ![s] = [@ EXCEPT !.heard = n, !.check = m]]
  /\ UNCHANGED <<rel, rcl, intree, reserved, switching, relays_connecting, nsources,
                 halting, changes>>

Join(s) ==
  /\ rsrc[s].live /\ ~rsrc[s].term /\ ~rsrc[s].sync /\ ~halting
  /\ rsrc[s].heard < MaxHeard
  /\ HeardChange(s, rsrc[s].heard + 1, rsrc[s].check)

Part(s) ==
  /\ rsrc[s].heard > 0
  /\ HeardChange(s, rsrc[s].heard - 1, rsrc[s].check)

(* Its turn in a phase: it goes elsewhere or away, or is held to wait for  *)
(* the relay's next start.                                                 *)
LookedAt(s) ==
  /\ rsrc[s].sync /\ rsrc[s].check > 0 /\ rsrc[s].heard > 0
  /\ \/ HeardChange(s, rsrc[s].heard - 1, rsrc[s].check - 1)
     \/ rsrc[s].pause /\ HeardChange(s, rsrc[s].heard, rsrc[s].check - 1)

-----------------------------------------------------------------------------
ClientTurn(c) ==
  \/ Turn(c) \/ Initialise(c) \/ Startup(c) \/ StandsBy(c) \/ ReadOn(c)
  \/ Drain(c) \/ StandBy(c) \/ CallAgain(c) \/ CloseDown(c) \/ Leaves(c)
  \/ SwitchedOver(c) \/ WaitEnds(c)

ThreadStep(c) == ThreadStarts(c) \/ ThreadEnds(c)

Next ==
  \/ \E v \in 0 .. 1, d \in BOOLEAN : ReloadListed(v, d)
  \/ ReloadDropped \/ MasterLists \/ MasterDrops \/ Halt \/ RaiseBarriers
  \/ \E c \in RelayClients :
       ClientTurn(c) \/ ThreadStep(c) \/ CheckHosts(c) \/ DrainAgain(c)
  \/ \E k \in Relays : SwitchFails(k) \/ SwitchConnects(k)
  \/ \E s \in RelaySources : StreamEnds(s) \/ Join(s) \/ Part(s) \/ LookedAt(s)

Spec ==
  /\ Init /\ [][Next]_relayVars
  /\ \A c \in RelayClients : WF_relayVars(ClientTurn(c)) /\ WF_relayVars(ThreadStep(c))
  /\ \A k \in Relays : WF_relayVars(SwitchFails(k))
  /\ \A s \in RelaySources : WF_relayVars(LookedAt(s)) /\ WF_relayVars(halting /\ StreamEnds(s))
  /\ WF_relayVars(RaiseBarriers)

-----------------------------------------------------------------------------
TypeOK ==
  /\ rel \in [Relays -> [live : BOOLEAN, cleanup : BOOLEAN, inlist : BOOLEAN,
                         old : BOOLEAN, master : BOOLEAN, src : RelaySources \cup {Nil},
                         new : Relays \cup {Nil}, use : 0 .. 2, ver : 0 .. 1,
                         demand : BOOLEAN]]
  /\ rcl \in [RelayClients ->
         [at : {"none", "init", "start", "thread", "connect", "read", "wait"},
          rel : Relays \cup {Nil}, con : BOOLEAN, aux : RelayClients \cup {Nil},
          seen : BOOLEAN]]
  /\ rsrc \in [RelaySources ->
         [live : BOOLEAN, client : RelayClients \cup {Nil}, run : BOOLEAN,
          pause : BOOLEAN, term : BOOLEAN, sync : BOOLEAN, sw : BOOLEAN,
          heard : 0 .. MaxHeard, check : 0 .. MaxHeard]]
  /\ intree \in Relays \cup {Nil} /\ reserved \in RelaySources \cup {Nil}
  /\ switching \subseteq Relays /\ halting \in BOOLEAN /\ changes \in 0 .. MaxChanges

(* Nothing points to memory that was freed: not the tree, a client, a      *)
(* relay, a source or what waits for a switch; and a client that starts    *)
(* its relay has a source to start it with.                                *)
PointersLive ==
  /\ intree # Nil => rel[intree].live
  /\ reserved # Nil => rsrc[reserved].live
  /\ \A k \in switching : rel[k].live
  /\ \A r \in Relays : rel[r].live =>
       /\ rel[r].src # Nil => rsrc[rel[r].src].live
       /\ rel[r].new # Nil => rel[rel[r].new].live
  /\ \A s \in RelaySources : rsrc[s].live => rcl[rsrc[s].client].at # "none"
  /\ \A c \in RelayClients : rcl[c].at # "none" =>
       /\ rel[rcl[c].rel].live
       /\ rcl[c].aux # Nil => rcl[rcl[c].aux].at # "none"
       /\ rcl[c].at \in {"start", "thread", "connect"} => rel[rcl[c].rel].src # Nil

(* A relay is driven by one client.                                        *)
OneDriver ==
  \A c, d \in RelayClients :
    rcl[c].at # "none" /\ rcl[d].at # "none" /\ rcl[c].rel = rcl[d].rel => c = d

(* relays_connecting is the number of threads under way, whatever becomes  *)
(* of them, and stays within its limits.                                   *)
SlotsRight ==
  /\ relays_connecting = Cardinality(switching) +
       Cardinality({c \in RelayClients : rcl[c].at \in {"thread", "connect"}})
  /\ relays_connecting <= SwitchSlots \/ relays_connecting <= StartSlots + 1

(* global.sources, which the limit on sources is compared with, counts     *)
(* each relayed source from the start of its thread to its end once,       *)
(* however often its client is replaced.                                   *)
SourcesRight ==
  nsources = Cardinality({s \in RelaySources : rsrc[s].live /\ rcl[rsrc[s].client].con})

(* A relay that no list has any more, or that has to go at shutdown, is    *)
(* released with its source and its client, unless it is listed again.     *)
RelaysGo ==
  (\A r \in Relays : rel[r].live => rel[r].old) ~>
  (\/ \A c \in RelayClients : rcl[c].at = "none"
   \/ \E r \in Relays : rel[r].live /\ ~rel[r].old)
=============================================================================
