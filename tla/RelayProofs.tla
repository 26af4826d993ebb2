------------------------------ MODULE RelayProofs ------------------------------
(***************************************************************************)
(* Proofs about the relays of a mountpoint, for any numbers of relays,     *)
(* clients and sources and any limits, as long as changes come one after   *)
(* another (without Races: with races slave.c itself can lose a relay).    *)
(*                                                                         *)
(* What makes PointersLive, OneDriver and the two counts inductive is who  *)
(* owns what.  A relay is driven by one client, or is the copy another one *)
(* will take over, or is what a thread looks for hosts with, and never two *)
(* of these.  The source of the mountpoint has one client, its Owner, and  *)
(* the relay that client drives is the only one with a source, but for the *)
(* relay of a client that waits for the source to be handed over.  Both    *)
(* counts then are sums over at most one thread and one source.            *)
(***************************************************************************)
EXTENDS Relay, FiniteSetTheorems, TLAPS

(* What is assumed of the constants.                                       *)
RelaysFit ==
  /\ Nil \notin Relays \cup RelayClients \cup RelaySources
  /\ MaxHeard \in Nat /\ MaxChanges \in Nat /\ StartSlots \in Nat /\ SwitchSlots \in Nat
  /\ ~Races

Up(c) == rcl[c].at # "none"
Waits(c) == rcl[c].at = "wait"
Drives(c, r) == Up(c) /\ rcl[c].rel = r
Owner == rsrc[reserved].client

(* The tree has the relay that is listed, and none that is replaced.       *)
TreeRight ==
  /\ intree # Nil => rel[intree].live /\ rel[intree].new = Nil
  /\ \A r \in Relays : rel[r].live => (rel[r].inlist <=> intree = r)

(* A relay is driven by one client, is the copy of one other, or is what a *)
(* thread looks for hosts with.                                            *)
Apart ==
  /\ \A r, q \in Relays :
       rel[r].live /\ rel[q].live /\ rel[r].new # Nil /\ rel[r].new = rel[q].new => r = q
  /\ \A r \in Relays : rel[r].live /\ rel[r].new # Nil =>
       /\ rel[rel[r].new].live /\ rel[r].new \notin switching
       /\ \A c \in RelayClients : ~Drives(c, rel[r].new)
  /\ \A k \in switching :
       /\ rel[k].live /\ rel[k].src = Nil /\ rel[k].new = Nil /\ intree # k
       /\ \A c \in RelayClients : ~Drives(c, k)
  /\ \A j, k \in switching : j = k
  /\ \A r \in Relays : rel[r].live /\ rel[r].new # Nil => rel[r].src # Nil

(* The source of the mountpoint belongs to the client whose relay has it.  *)
Owned ==
  /\ \A s \in RelaySources : rsrc[s].live <=> s = reserved
  /\ \A r \in Relays : rel[r].live /\ rel[r].src # Nil =>
       /\ rel[r].src = reserved
       /\ \E c \in RelayClients : Drives(c, r) /\ (c = Owner \/ Waits(c))
  /\ reserved # Nil => Owner # Nil /\ Up(Owner) /\ rel[rcl[Owner].rel].src = reserved

Driving ==
  \A c \in RelayClients : Up(c) =>
    /\ rcl[c].rel # Nil /\ rel[rcl[c].rel].live
    /\ rcl[c].at # "init" => rel[rcl[c].rel].src # Nil
    /\ rcl[c].at = "init" /\ rel[rcl[c].rel].src = Nil =>
         ~halting /\ (intree = rcl[c].rel => ~rel[intree].old /\ ~rel[intree].cleanup)
    /\ rcl[c].at \in {"init", "start", "thread"} => ~rcl[c].con
    /\ rcl[c].at \in {"connect", "wait"} => rcl[c].con
    /\ rcl[c].aux # Nil => reserved # Nil /\ rsrc[reserved].sw /\ c = Owner

RunsRight ==
  /\ reserved # Nil /\ rsrc[reserved].run =>
       ~rsrc[reserved].term /\ rcl[Owner].con /\ rcl[Owner].at \in {"read", "wait"}
  /\ reserved # Nil /\ rsrc[reserved].term =>
       \/ rcl[Owner].at = "read"
       \/ rcl[Owner].at = "init" /\ (halting \/ rel[rcl[Owner].rel].cleanup)
  /\ \A r \in Relays : rel[r].live /\ rel[r].cleanup /\ ~halting => rel[r].new = Nil

(* While a client waits to take the source over nothing else happens to it.*)
SwitchRight ==
  /\ \A c, d \in RelayClients : Waits(c) /\ Waits(d) => c = d
  /\ \A c \in RelayClients : Waits(c) =>
       /\ switching = {} /\ reserved # Nil /\ intree = Nil /\ rel[rcl[c].rel].new = Nil
       /\ Owner = c \/ (rsrc[reserved].sw /\ rcl[Owner].aux = c)
  /\ \A s \in RelaySources : rsrc[s].sw => s = reserved
  /\ reserved # Nil /\ rsrc[reserved].sw =>
       /\ rsrc[reserved].run /\ ~halting /\ rcl[Owner].at = "read"
       /\ ~rel[rcl[Owner].rel].cleanup /\ ~rel[rcl[Owner].rel].old /\ rel[rcl[Owner].rel].new = Nil
       /\ rcl[Owner].aux # Nil /\ Waits(rcl[Owner].aux)

Slots ==
  /\ relays_connecting = (IF switching = {} THEN 0 ELSE 1) +
       (IF reserved # Nil /\ rcl[Owner].at \in {"thread", "connect"} THEN 1 ELSE 0)
  /\ relays_connecting <= SwitchSlots \/ relays_connecting <= StartSlots + 1

Counted == nsources = IF reserved # Nil /\ rcl[Owner].con THEN 1 ELSE 0

Pointing == TypeOK /\ TreeRight /\ Apart /\ Owned /\ OneDriver
RInv == RelaysFit /\ Pointing /\ Driving /\ RunsRight /\ SwitchRight /\ Slots /\ Counted

RelaySet ==
  [live : BOOLEAN, cleanup : BOOLEAN, inlist : BOOLEAN, old : BOOLEAN, master : BOOLEAN,
   src : RelaySources \cup {Nil}, new : Relays \cup {Nil}, use : 0 .. 2, ver : 0 .. 1,
   demand : BOOLEAN]
ClientSet ==
  [at : {"none", "init", "start", "thread", "connect", "read", "wait"},
   rel : Relays \cup {Nil}, con : BOOLEAN, aux : RelayClients \cup {Nil}, seen : BOOLEAN]
SourceSet ==
  [live : BOOLEAN, client : RelayClients \cup {Nil}, run : BOOLEAN, pause : BOOLEAN,
   term : BOOLEAN, sync : BOOLEAN, sw : BOOLEAN, heard : 0 .. MaxHeard, check : 0 .. MaxHeard]

LEMMA Types ==
  /\ TypeOK <=> /\ rel \in [Relays -> RelaySet] /\ rcl \in [RelayClients -> ClientSet]
                /\ rsrc \in [RelaySources -> SourceSet]
                /\ intree \in Relays \cup {Nil} /\ reserved \in RelaySources \cup {Nil}
                /\ switching \subseteq Relays /\ halting \in BOOLEAN /\ changes \in 0 .. MaxChanges
  /\ (TypeOK)' <=> /\ rel' \in [Relays -> RelaySet] /\ rcl' \in [RelayClients -> ClientSet]
                /\ rsrc' \in [RelaySources -> SourceSet]
                /\ intree' \in Relays \cup {Nil} /\ reserved' \in RelaySources \cup {Nil}
                /\ switching' \subseteq Relays /\ halting' \in BOOLEAN /\ changes' \in 0 .. MaxChanges
  BY DEF TypeOK, RelaySet, ClientSet, SourceSet

LEMMA Empties ==
  ASSUME RelaysFit
  PROVE  NoRelay \in RelaySet /\ NoClient \in ClientSet /\ NoSource \in SourceSet
  BY DEF RelaysFit, NoRelay, NoClient, NoSource, RelaySet, ClientSet, SourceSet

LEMMA RInvInit == ASSUME RelaysFit, Init PROVE RInv
  <1>1. TypeOK
    <2>1. rel \in [Relays -> RelaySet] /\ rcl \in [RelayClients -> ClientSet]
          /\ rsrc \in [RelaySources -> SourceSet]
      BY Empties DEF Init
    <2>2. 0 \in 0 .. MaxChanges
      BY DEF RelaysFit
    <2> QED  BY <2>1, <2>2, Types DEF Init
  <1>0. /\ \A r \in Relays : ~rel[r].live
        /\ \A s \in RelaySources : ~rsrc[s].live
        /\ \A c \in RelayClients : rcl[c].at = "none"
    BY DEF Init, NoRelay, NoClient, NoSource
  <1>2. TreeRight /\ Apart /\ Owned /\ OneDriver
    BY <1>0 DEF Init, TreeRight, Apart, Owned, OneDriver, RelaysFit
  <1>3. Driving /\ RunsRight /\ SwitchRight
    BY <1>1, Types DEF Init, Driving, RunsRight, SwitchRight, NoRelay, NoClient, NoSource, Up, Waits
  <1>4. Slots /\ Counted
    BY DEF Init, Slots, Counted, RelaysFit
  <1> QED  BY <1>1, <1>2, <1>3, <1>4 DEF RInv, Pointing

(* Who acts on a source is its client, unless it waits for it.             *)
LEMMA TheOwner ==
  ASSUME RInv, NEW c \in RelayClients, Up(c), ~Waits(c), rel[rcl[c].rel].src # Nil
  PROVE  /\ reserved \in RelaySources /\ reserved # Nil /\ c = Owner
         /\ rel[rcl[c].rel].src = reserved /\ rcl[c].rel \in Relays /\ rel[rcl[c].rel].live
  <1>1. rcl[c].rel \in Relays /\ rel[rcl[c].rel].live
    BY Types DEF RInv, Pointing, Driving, ClientSet
  <1>2. PICK d \in RelayClients : Drives(d, rcl[c].rel) /\ (d = Owner \/ Waits(d))
    BY <1>1 DEF RInv, Pointing, Owned
  <1>3. d = c
    BY <1>2 DEF RInv, Pointing, OneDriver, Drives, Up
  <1>4. rel[rcl[c].rel].src = reserved /\ reserved \in RelaySources \cup {Nil}
    BY <1>1, Types DEF RInv, Pointing, Owned
  <1> QED  BY <1>1, <1>2, <1>3, <1>4 DEF RInv, RelaysFit

(* A step that frees nothing, takes no memory and turns no pointer.        *)
SamePointers ==
  /\ intree' = intree /\ reserved' = reserved /\ switching' = switching
  /\ \A r \in Relays :
       /\ rel'[r].live <=> rel[r].live
       /\ rel'[r].inlist <=> rel[r].inlist
       /\ rel'[r].src = rel[r].src /\ rel'[r].new = rel[r].new
  /\ \A c \in RelayClients :
       /\ rcl'[c].rel = rcl[c].rel /\ rcl'[c].aux = rcl[c].aux
       /\ rcl'[c].at = "none" <=> rcl[c].at = "none"
       /\ rcl'[c].at = "wait" <=> rcl[c].at = "wait"
  /\ \A s \in RelaySources :
       /\ rsrc'[s].live <=> rsrc[s].live
       /\ rsrc'[s].client = rsrc[s].client

LEMMA PointersKept ==
  ASSUME RelaysFit, Pointing, SamePointers, TypeOK', Driving
  PROVE  Pointing'
  <1>0. /\ \A r \in Relays : rel[r].new \in Relays \cup {Nil} /\ rel[r].src \in RelaySources \cup {Nil}
        /\ \A c \in RelayClients : rcl[c].rel \in Relays \cup {Nil}
        /\ \A s \in RelaySources : rsrc[s].client \in RelayClients \cup {Nil}
        /\ switching \subseteq Relays
        /\ intree \in Relays \cup {Nil} /\ reserved \in RelaySources \cup {Nil}
    BY Types DEF Pointing, RelaySet, ClientSet, SourceSet
  <1>1. TreeRight'
    BY <1>0 DEF Pointing, SamePointers, TreeRight
  <1>2. Apart'
    BY <1>0 DEF Pointing, SamePointers, Apart, Drives, Up
  <1>3. Owned'
    BY <1>0 DEF Pointing, SamePointers, Owned, Drives, Up, Waits, Owner, Driving
  <1>4. OneDriver'
    BY <1>0 DEF Pointing, SamePointers, OneDriver
  <1> QED  BY <1>1, <1>2, <1>3, <1>4 DEF Pointing

LEMMA Fields ==
  ASSUME TypeOK
  PROVE  /\ \A r \in Relays : /\ rel[r] \in RelaySet
                              /\ rel[r].new \in Relays \cup {Nil} /\ rel[r].src \in RelaySources \cup {Nil}
         /\ \A c \in RelayClients : rcl[c] \in ClientSet /\ rcl[c].rel \in Relays \cup {Nil}
                                    /\ rcl[c].aux \in RelayClients \cup {Nil}
         /\ \A s \in RelaySources : /\ rsrc[s] \in SourceSet /\ rsrc[s].client \in RelayClients \cup {Nil}
                                    /\ rsrc[s].heard \in 0 .. MaxHeard /\ rsrc[s].check \in 0 .. MaxHeard
         /\ switching \subseteq Relays
         /\ intree \in Relays \cup {Nil} /\ reserved \in RelaySources \cup {Nil}
  BY Types DEF RelaySet, ClientSet, SourceSet

LEMMA OwnerIs ==
  ASSUME RInv, reserved # Nil
  PROVE  /\ reserved \in RelaySources /\ Owner \in RelayClients /\ Up(Owner)
         /\ rcl[Owner].rel \in Relays /\ rel[rcl[Owner].rel].live
         /\ rel[rcl[Owner].rel].src = reserved
         /\ rsrc[reserved].sw =>
              /\ rcl[Owner].aux \in RelayClients /\ Waits(rcl[Owner].aux) /\ rcl[Owner].at = "read"
              /\ rcl[Owner].aux # Owner
  <1>1. reserved \in RelaySources
    BY Fields DEF RInv, Pointing
  <1>2. Owner \in RelayClients /\ Up(Owner) /\ rel[rcl[Owner].rel].src = reserved
    BY <1>1, Fields DEF RInv, Pointing, Owned, Owner
  <1>3. rcl[Owner].rel \in Relays /\ rel[rcl[Owner].rel].live
    BY <1>2, Fields DEF RInv, Pointing, Driving
  <1>4. rsrc[reserved].sw => /\ rcl[Owner].aux \in RelayClients /\ Waits(rcl[Owner].aux)
                            /\ rcl[Owner].at = "read"
    BY <1>2, Fields DEF RInv, Pointing, SwitchRight
  <1>5. rsrc[reserved].sw => rcl[Owner].aux # Owner
    BY <1>4 DEF Waits
  <1> QED  BY <1>1, <1>2, <1>3, <1>4, <1>5

(* Outdated marks relays and does nothing else.                            *)
LEMMA Marked ==
  ASSUME NEW f \in [Relays -> RelaySet], NEW master
  PROVE  /\ Outdated(f, master) \in [Relays -> RelaySet]
         /\ \A r \in Relays : LET g == Outdated(f, master) IN
              /\ (g[r].live <=> f[r].live) /\ (g[r].inlist <=> f[r].inlist)
              /\ (g[r].cleanup <=> f[r].cleanup)
              /\ g[r].src = f[r].src /\ g[r].new = f[r].new
              /\ (f[r].master # master => g[r].old = f[r].old)
  <1> DEFINE g == Outdated(f, master)
  <1>1. ASSUME NEW r \in Relays PROVE [f[r] EXCEPT !.old = TRUE] \in RelaySet
    <2>1. f[r] \in RelaySet
      OBVIOUS
    <2> QED  BY <2>1 DEF RelaySet
  <1>2. g \in [Relays -> RelaySet]
    BY <1>1 DEF Outdated
  <1>3. \A r \in Relays : g[r] = IF f[r].live /\ f[r].master = master
                                 THEN [f[r] EXCEPT !.old = TRUE] ELSE f[r]
    BY DEF Outdated
  <1>4. \A r \in Relays : f[r] \in RelaySet
    OBVIOUS
  <1> HIDE DEF g
  <1>5. \A r \in Relays :
              /\ (g[r].live <=> f[r].live) /\ (g[r].inlist <=> f[r].inlist)
              /\ (g[r].cleanup <=> f[r].cleanup)
              /\ g[r].src = f[r].src /\ g[r].new = f[r].new
              /\ (f[r].master # master => g[r].old = f[r].old)
    BY <1>3, <1>4 DEF RelaySet
  <1> QED  BY <1>2, <1>5 DEF g

(* A change made when nothing is under way that it could disturb.          *)
LEMMA SettledStep ==
  ASSUME RInv, NoneWaits, TypeOK', halting' = halting \/ halting' = TRUE,
         \A c \in RelayClients :
           Up(c) /\ rcl[c].at = "init" /\ rel[rcl[c].rel].src = Nil =>
             ~halting' /\ (intree = rcl[c].rel => ~rel'[intree].old),
         \A r \in Relays :
           /\ (rel'[r].live <=> rel[r].live) /\ (rel'[r].inlist <=> rel[r].inlist)
           /\ (rel'[r].cleanup <=> rel[r].cleanup)
           /\ rel'[r].src = rel[r].src /\ rel'[r].new = rel[r].new,
         UNCHANGED <<rcl, rsrc, intree, reserved, switching, relays_connecting, nsources>>
  PROVE  RInv'
  <1>0. TypeOK /\ Driving /\ Pointing /\ RelaysFit
    BY DEF RInv, Pointing
  <1>1. SamePointers
    BY DEF SamePointers
  <1>2. Pointing'
    BY <1>0, <1>1, PointersKept
  <1>3. reserved # Nil => ~rsrc[reserved].sw
    BY <1>0, OwnerIs DEF NoneWaits, Waits
  <1>4. Driving'
    BY <1>0, <1>1, Fields DEF Driving, SamePointers, Up, Owner
  <1>5. RunsRight' /\ SwitchRight'
    <2>1. RunsRight'
      <3>1. CASE reserved = Nil
        BY <1>0, <3>1, Fields DEF RInv, RunsRight
      <3>2. CASE reserved # Nil
        BY <1>0, <3>2, OwnerIs, Fields DEF RInv, RunsRight, Owner
      <3> QED  BY <3>1, <3>2
    <2>2. SwitchRight'
      BY <1>0, <1>3, Fields DEF RInv, SwitchRight, Waits, Owner, NoneWaits
    <2> QED  BY <2>1, <2>2
  <1>6. Slots' /\ Counted'
    BY DEF RInv, Slots, Counted, Owner
  <1> QED  BY <1>0, <1>2, <1>4, <1>5, <1>6 DEF RInv, RelaysFit

LEMMA MarkSteps ==
  ASSUME RInv, ReloadDropped \/ MasterDrops \/ Halt \/ RaiseBarriers
  PROVE  RInv'
  <1>0. TypeOK /\ RelaysFit /\ rel \in [Relays -> RelaySet] /\ Settled
    BY Types DEF RInv, Pointing, ReloadDropped, MasterDrops, Halt, RaiseBarriers, RelaysFit
  <1>1. changes' \in 0 .. MaxChanges /\ halting' \in BOOLEAN
    <2>1. changes \in 0 .. MaxChanges /\ halting \in BOOLEAN
      BY <1>0, Types
    <2>2. MaxChanges \in Nat
      BY <1>0 DEF RelaysFit
    <2>3. halting' = halting \/ halting' = TRUE
      BY DEF ReloadDropped, MasterDrops, Halt, RaiseBarriers, MayChange
    <2>4. changes' = changes \/ (changes < MaxChanges /\ changes' = changes + 1)
      BY DEF ReloadDropped, MasterDrops, Halt, RaiseBarriers, MayChange
    <2>5. changes' \in 0 .. MaxChanges
      BY <2>1, <2>2, <2>4
    <2> QED  BY <2>1, <2>3, <2>5
  <1>2. UNCHANGED <<rcl, rsrc, intree, reserved, switching, relays_connecting, nsources>>
    BY DEF ReloadDropped, MasterDrops, Halt, RaiseBarriers, MayChange
  <1>3. PICK f : rel' = f /\ (f = rel \/ f = Outdated(rel, FALSE) \/ f = Outdated(rel, TRUE)
                              \/ f = Outdated(Outdated(rel, TRUE), FALSE))
    BY DEF ReloadDropped, MasterDrops, Halt, RaiseBarriers
  <1>4. /\ rel' \in [Relays -> RelaySet]
        /\ \A r \in Relays :
             /\ (rel'[r].live <=> rel[r].live) /\ (rel'[r].inlist <=> rel[r].inlist)
             /\ (rel'[r].cleanup <=> rel[r].cleanup)
             /\ rel'[r].src = rel[r].src /\ rel'[r].new = rel[r].new
    <2>1. CASE f = rel
      BY <1>0, <1>3, <2>1
    <2>2. CASE f = Outdated(rel, FALSE)
      BY <1>0, <1>3, <2>2, Marked
    <2>3. CASE f = Outdated(rel, TRUE)
      BY <1>0, <1>3, <2>3, Marked
    <2>4. CASE f = Outdated(Outdated(rel, TRUE), FALSE)
      <3>1. PICK g : g = Outdated(rel, TRUE)
        OBVIOUS
      <3>2. f = Outdated(g, FALSE)
        BY <2>4, <3>1
      <3>3. /\ g \in [Relays -> RelaySet]
            /\ \A r \in Relays :
                 /\ (g[r].live <=> rel[r].live) /\ (g[r].inlist <=> rel[r].inlist)
                 /\ (g[r].cleanup <=> rel[r].cleanup)
                 /\ g[r].src = rel[r].src /\ g[r].new = rel[r].new
        BY <1>0, <3>1, Marked
      <3>4. /\ f \in [Relays -> RelaySet]
            /\ \A r \in Relays :
                 /\ (f[r].live <=> g[r].live) /\ (f[r].inlist <=> g[r].inlist)
                 /\ (f[r].cleanup <=> g[r].cleanup)
                 /\ f[r].src = g[r].src /\ f[r].new = g[r].new
        BY <3>2, <3>3, Marked
      <3> QED  BY <1>3, <3>3, <3>4
    <2> QED  BY <1>3, <2>1, <2>2, <2>3, <2>4
  <1>5. TypeOK'
    BY <1>0, <1>1, <1>2, <1>4, Types
  <1>6. halting' = halting \/ halting' = TRUE
    BY DEF ReloadDropped, MasterDrops, Halt, RaiseBarriers, MayChange
  <1>7. NoneWaits /\ \A c \in RelayClients :
           Up(c) /\ rcl[c].at = "init" => rel[rcl[c].rel].src # Nil
    BY <1>0 DEF Settled
  <1> QED  BY <1>0, <1>2, <1>4, <1>5, <1>6, <1>7, SettledStep

(* A turn that leaves the source to its client, and may end the stream.    *)
QuietRelays ==
  \A r \in Relays : /\ rel'[r].old <=> rel[r].old
                    /\ \/ rel'[r].cleanup <=> rel[r].cleanup
                       \/ halting /\ rel[r].src # Nil /\ ~rsrc[reserved].sw
                       \/ rel'[r].cleanup /\ rel[r].old /\ rel[r].new = Nil
QuietClients ==
  \A c \in RelayClients : rcl'[c].at = rcl[c].at /\ (rcl'[c].con <=> rcl[c].con)
QuietSources ==
  /\ \A s \in RelaySources : rsrc'[s].sw <=> rsrc[s].sw
  /\ reserved # Nil =>
       /\ rsrc'[reserved].run => rsrc[reserved].run /\ ~rsrc'[reserved].term
       /\ rsrc[reserved].sw => rsrc'[reserved].run
       /\ rsrc'[reserved].term =>
            \/ rsrc[reserved].term \/ rcl[Owner].at = "read"
            \/ rcl[Owner].at = "init" /\ (halting \/ rel[rcl[Owner].rel].cleanup)

LEMMA QuietStep ==
  ASSUME RInv, TypeOK', SamePointers, QuietRelays, QuietClients, QuietSources,
         UNCHANGED <<relays_connecting, nsources, halting>>
  PROVE  RInv'
  <1>0. TypeOK /\ Driving /\ Pointing /\ RelaysFit
    BY DEF RInv, Pointing
  <1>1. Pointing'
    BY <1>0, PointersKept
  <1>2. /\ intree' = intree /\ reserved' = reserved /\ switching' = switching
        /\ reserved # Nil => Owner' = Owner
    BY <1>0, Fields DEF SamePointers, Owner
  <1>3. Driving'
    <2> SUFFICES ASSUME NEW c \in RelayClients, Up(c)'
                 PROVE  (/\ rcl[c].rel # Nil /\ rel[rcl[c].rel].live
                         /\ rcl[c].at # "init" => rel[rcl[c].rel].src # Nil
                         /\ rcl[c].at = "init" /\ rel[rcl[c].rel].src = Nil =>
                              ~halting /\ (intree = rcl[c].rel => ~rel[intree].old /\ ~rel[intree].cleanup)
                         /\ rcl[c].at \in {"init", "start", "thread"} => ~rcl[c].con
                         /\ rcl[c].at \in {"connect", "wait"} => rcl[c].con
                         /\ rcl[c].aux # Nil => reserved # Nil /\ rsrc[reserved].sw /\ c = Owner)'
      BY DEF Driving
    <2>1. Up(c) /\ rcl'[c].rel = rcl[c].rel /\ rcl'[c].at = rcl[c].at /\ (rcl'[c].con <=> rcl[c].con)
          /\ rcl'[c].aux = rcl[c].aux
      BY DEF Up, QuietClients, SamePointers
    <2>2. rcl[c].rel \in Relays
      BY <1>0, <2>1, Fields DEF Driving
    <2>3. (/\ rcl[c].rel # Nil /\ rel[rcl[c].rel].live
           /\ rcl[c].at # "init" => rel[rcl[c].rel].src # Nil)'
      BY <1>0, <2>1, <2>2 DEF Driving, SamePointers
    <2>4. (rcl[c].at = "init" /\ rel[rcl[c].rel].src = Nil =>
             ~halting /\ (intree = rcl[c].rel => ~rel[intree].old /\ ~rel[intree].cleanup))'
      BY <1>0, <1>2, <2>1, <2>2 DEF Driving, SamePointers, QuietRelays
    <2>5. (rcl[c].aux # Nil => reserved # Nil /\ rsrc[reserved].sw /\ c = Owner)'
      BY <1>0, <1>2, <2>1, Fields DEF Driving, QuietSources
    <2>6. (/\ rcl[c].at \in {"init", "start", "thread"} => ~rcl[c].con
           /\ rcl[c].at \in {"connect", "wait"} => rcl[c].con)'
      BY <1>0, <2>1 DEF Driving
    <2> QED  BY <2>3, <2>4, <2>5, <2>6
  <1>4. RunsRight'
    <2>1. \A r \in Relays : (rel[r].live /\ rel[r].cleanup /\ ~halting => rel[r].new = Nil)'
      BY DEF RInv, RunsRight, SamePointers, QuietRelays
    <2>2. CASE reserved = Nil
      BY <1>2, <2>1, <2>2 DEF RunsRight
    <2>3. CASE reserved # Nil
      <3>1. /\ rcl'[Owner].at = rcl[Owner].at /\ (rcl'[Owner].con <=> rcl[Owner].con)
            /\ rcl'[Owner].rel = rcl[Owner].rel
            /\ rel[rcl[Owner].rel].cleanup /\ ~halting => rel'[rcl[Owner].rel].cleanup
        BY <2>3, OwnerIs DEF QuietClients, SamePointers, QuietRelays
      <3>2. /\ rsrc'[reserved].run => rsrc[reserved].run /\ ~rsrc'[reserved].term
            /\ rsrc'[reserved].term =>
                 \/ rsrc[reserved].term \/ rcl[Owner].at = "read"
                 \/ rcl[Owner].at = "init" /\ (halting \/ rel[rcl[Owner].rel].cleanup)
        BY <2>3, OwnerIs DEF QuietSources
      <3>3. (rsrc[reserved].run => ~rsrc[reserved].term /\ rcl[Owner].con
                                   /\ rcl[Owner].at \in {"read", "wait"})'
        BY <1>2, <2>3, <3>1, <3>2 DEF RInv, RunsRight
      <3>4. (rsrc[reserved].term =>
               \/ rcl[Owner].at = "read"
               \/ rcl[Owner].at = "init" /\ (halting \/ rel[rcl[Owner].rel].cleanup))'
        BY <1>2, <2>3, <3>1, <3>2 DEF RInv, RunsRight
      <3> QED  BY <2>1, <3>3, <3>4 DEF RunsRight
    <2> QED  BY <2>2, <2>3
  <1>5. SwitchRight'
    <2>1. \A c \in RelayClients : /\ rcl'[c].at = rcl[c].at /\ rcl'[c].aux = rcl[c].aux
                                  /\ rcl'[c].rel = rcl[c].rel
      BY DEF QuietClients, SamePointers
    <2>2. (\A c, d \in RelayClients : Waits(c) /\ Waits(d) => c = d)'
      BY <2>1 DEF RInv, SwitchRight, Waits
    <2>3. (\A s \in RelaySources : rsrc[s].sw => s = reserved)'
      BY <1>2 DEF RInv, SwitchRight, QuietSources
    <2>4. CASE reserved = Nil
      BY <1>2, <2>1, <2>2, <2>3, <2>4 DEF RInv, SwitchRight, Waits
    <2>5. CASE reserved # Nil
      <3>1. rsrc'[reserved].sw <=> rsrc[reserved].sw
        BY <2>5, OwnerIs DEF QuietSources
      <3>2. ASSUME NEW c \in RelayClients, Waits(c)'
            PROVE  (/\ switching = {} /\ reserved # Nil /\ intree = Nil /\ rel[rcl[c].rel].new = Nil
                    /\ Owner = c \/ (rsrc[reserved].sw /\ rcl[Owner].aux = c))'
        <4>1. Waits(c) /\ rcl[c].rel \in Relays
          BY <1>0, <2>1, <3>2, Fields DEF Waits, Driving, Up
        <4>2. rel'[rcl'[c].rel].new = Nil
          BY <2>1, <4>1 DEF RInv, SwitchRight, SamePointers
        <4> QED  BY <1>2, <2>1, <2>5, <3>1, <4>1, <4>2, OwnerIs DEF RInv, SwitchRight
      <3>3. (rsrc[reserved].sw =>
              /\ rsrc[reserved].run /\ ~halting /\ rcl[Owner].at = "read"
              /\ ~rel[rcl[Owner].rel].cleanup /\ ~rel[rcl[Owner].rel].old /\ rel[rcl[Owner].rel].new = Nil
              /\ rcl[Owner].aux # Nil /\ Waits(rcl[Owner].aux))'
        <4> SUFFICES ASSUME rsrc'[reserved].sw
                     PROVE  (/\ rsrc[reserved].run /\ ~halting /\ rcl[Owner].at = "read"
                             /\ ~rel[rcl[Owner].rel].cleanup /\ ~rel[rcl[Owner].rel].old
                             /\ rel[rcl[Owner].rel].new = Nil
                             /\ rcl[Owner].aux # Nil /\ Waits(rcl[Owner].aux))'
          BY <1>2
        <4>1. rsrc[reserved].sw /\ rsrc'[reserved].run
          BY <2>5, <3>1, OwnerIs DEF QuietSources
        <4>2. LET r == rcl[Owner].rel IN
              /\ rcl'[Owner].rel = r /\ (rel'[r].cleanup <=> rel[r].cleanup)
              /\ (rel'[r].old <=> rel[r].old) /\ rel'[r].new = rel[r].new
              /\ rcl'[Owner].at = rcl[Owner].at /\ rcl'[Owner].aux = rcl[Owner].aux
          BY <2>1, <2>5, <4>1, OwnerIs DEF QuietRelays, SamePointers, RInv, SwitchRight
        <4>3. /\ ~halting /\ rcl[Owner].at = "read"
              /\ ~rel[rcl[Owner].rel].cleanup /\ ~rel[rcl[Owner].rel].old /\ rel[rcl[Owner].rel].new = Nil
              /\ rcl[Owner].aux # Nil
          BY <2>5, <4>1 DEF RInv, SwitchRight
        <4>4. Waits(rcl[Owner].aux)'
          BY <1>2, <2>1, <2>5, <4>1, <4>2, OwnerIs DEF Waits
        <4> QED  BY <1>2, <2>5, <4>1, <4>2, <4>3, <4>4
      <3> QED  BY <2>2, <2>3, <3>2, <3>3 DEF SwitchRight
    <2> QED  BY <2>4, <2>5
  <1>6. Slots' /\ Counted'
    <2>1. CASE reserved = Nil
      BY <1>2, <2>1 DEF RInv, Slots, Counted
    <2>2. CASE reserved # Nil
      <3>1. rcl'[Owner].at = rcl[Owner].at /\ (rcl'[Owner].con <=> rcl[Owner].con)
        BY <2>2, OwnerIs DEF QuietClients
      <3> QED  BY <1>2, <2>2, <3>1 DEF RInv, Slots, Counted
    <2> QED  BY <2>1, <2>2
  <1> QED  BY <1>0, <1>1, <1>3, <1>4, <1>5, <1>6 DEF RInv, RelaysFit

LEMMA HeardSteps ==
  ASSUME RInv, NEW s \in RelaySources, Join(s) \/ Part(s) \/ LookedAt(s)
  PROVE  RInv'
  <1>0. TypeOK /\ RelaysFit /\ rsrc \in [RelaySources -> SourceSet] /\ rsrc[s] \in SourceSet
        /\ rsrc[s].heard \in 0 .. MaxHeard /\ rsrc[s].check \in 0 .. MaxHeard /\ MaxHeard \in Nat
    BY Types DEF RInv, Pointing, RelaysFit, SourceSet
  <1>1. PICK n \in 0 .. MaxHeard, m \in 0 .. MaxHeard : HeardChange(s, n, m)
    <2>1. CASE Join(s)
      <3>1. rsrc[s].heard + 1 \in 0 .. MaxHeard
        BY <1>0, <2>1 DEF Join
      <3> QED  BY <1>0, <2>1, <3>1 DEF Join
    <2>2. CASE Part(s)
      <3>1. rsrc[s].heard - 1 \in 0 .. MaxHeard
        BY <1>0, <2>2 DEF Part
      <3> QED  BY <1>0, <2>2, <3>1 DEF Part
    <2>3. CASE LookedAt(s)
      <3>1. rsrc[s].heard - 1 \in 0 .. MaxHeard /\ rsrc[s].check - 1 \in 0 .. MaxHeard
        BY <1>0, <2>3 DEF LookedAt
      <3> QED  BY <1>0, <2>3, <3>1 DEF LookedAt
    <2> QED  BY <2>1, <2>2, <2>3
  <1>2. [rsrc[s] EXCEPT !.heard = n, !.check = m] \in SourceSet
    BY <1>0 DEF SourceSet
  <1>3. rsrc' \in [RelaySources -> SourceSet]
    BY <1>0, <1>1, <1>2 DEF HeardChange
  <1>4. UNCHANGED <<rel, rcl, intree, reserved, switching, relays_connecting, nsources,
                    halting, changes>>
    BY <1>1 DEF HeardChange
  <1>5. TypeOK'
    BY <1>0, <1>3, <1>4, Types
  <1>6. \A t \in RelaySources :
          /\ (rsrc'[t].live <=> rsrc[t].live) /\ rsrc'[t].client = rsrc[t].client
          /\ (rsrc'[t].sw <=> rsrc[t].sw) /\ (rsrc'[t].run <=> rsrc[t].run)
          /\ (rsrc'[t].term <=> rsrc[t].term)
    BY <1>0, <1>1 DEF HeardChange, SourceSet
  <1>7. SamePointers /\ QuietRelays /\ QuietClients
    BY <1>4, <1>6 DEF SamePointers, QuietRelays, QuietClients
  <1>8. QuietSources
    BY <1>6, OwnerIs DEF QuietSources, RInv, RunsRight, SwitchRight
  <1> QED  BY <1>4, <1>5, <1>7, <1>8, QuietStep

LEMMA StreamEndsStep ==
  ASSUME RInv, NEW s \in RelaySources, StreamEnds(s)
  PROVE  RInv'
  <1>0. TypeOK /\ RelaysFit /\ rsrc \in [RelaySources -> SourceSet] /\ rsrc[s] \in SourceSet
    BY Types DEF RInv, Pointing, RelaysFit, SourceSet
  <1>1. rsrc' = [rsrc EXCEPT ![s].run = FALSE] /\ ~rsrc[s].sw
        /\ UNCHANGED <<rel, rcl, intree, reserved, switching, relays_connecting, nsources,
                       halting, changes>>
    BY <1>0 DEF StreamEnds, RelaysFit
  <1>2. [rsrc[s] EXCEPT !.run = FALSE] \in SourceSet
    BY <1>0 DEF SourceSet
  <1>3. rsrc' \in [RelaySources -> SourceSet]
    BY <1>0, <1>1, <1>2
  <1>5. TypeOK'
    BY <1>0, <1>1, <1>3, Types
  <1>6. \A t \in RelaySources :
          /\ (rsrc'[t].live <=> rsrc[t].live) /\ rsrc'[t].client = rsrc[t].client
          /\ (rsrc'[t].sw <=> rsrc[t].sw) /\ (rsrc'[t].run => rsrc[t].run)
          /\ (t # s => (rsrc'[t].run <=> rsrc[t].run))
          /\ (rsrc'[t].term <=> rsrc[t].term)
    BY <1>0, <1>1 DEF SourceSet
  <1>7. SamePointers /\ QuietRelays /\ QuietClients
    BY <1>1, <1>6 DEF SamePointers, QuietRelays, QuietClients
  <1>8. QuietSources
    BY <1>1, <1>6, OwnerIs DEF QuietSources, RInv, RunsRight, SwitchRight
  <1> QED  BY <1>1, <1>5, <1>7, <1>8, QuietStep

(* A client's turn taken: only seen changes.                               *)
Looked(c) == rcl' = [rcl EXCEPT ![c].seen = FALSE]

LEMMA LookedAgain ==
  ASSUME RInv, NEW c \in RelayClients, Looked(c)
  PROVE  /\ rcl' \in [RelayClients -> ClientSet]
         /\ \A d \in RelayClients :
              /\ rcl'[d].at = rcl[d].at /\ (rcl'[d].con <=> rcl[d].con)
              /\ rcl'[d].rel = rcl[d].rel /\ rcl'[d].aux = rcl[d].aux
  <1>1. rcl \in [RelayClients -> ClientSet] /\ rcl[c] \in ClientSet
    BY Types DEF RInv, Pointing
  <1>2. [rcl[c] EXCEPT !.seen = FALSE] \in ClientSet
    BY <1>1 DEF ClientSet
  <1>3. rcl' \in [RelayClients -> ClientSet]
    BY <1>1, <1>2 DEF Looked
  <1>4. \A d \in RelayClients :
              /\ rcl'[d].at = rcl[d].at /\ (rcl'[d].con <=> rcl[d].con)
              /\ rcl'[d].rel = rcl[d].rel /\ rcl'[d].aux = rcl[d].aux
    BY <1>1 DEF Looked, ClientSet
  <1> QED  BY <1>3, <1>4

LEMMA StandsByStep ==
  ASSUME RInv, NEW c \in RelayClients, StandsBy(c)
  PROVE  RInv'
  <1>0. TypeOK /\ RelaysFit
    BY DEF RInv, Pointing
  <1>1. Looked(c) /\ UNCHANGED <<rel, rsrc, intree, reserved, switching, relays_connecting,
                                 nsources, halting, changes>>
    BY DEF StandsBy, Looked
  <1>2. TypeOK'
    BY <1>0, <1>1, LookedAgain, Types
  <1>3. SamePointers /\ QuietRelays /\ QuietClients
    BY <1>1, LookedAgain DEF SamePointers, QuietRelays, QuietClients
  <1>4. QuietSources
    BY <1>1, OwnerIs DEF QuietSources, RInv, RunsRight, SwitchRight
  <1> QED  BY <1>1, <1>2, <1>3, <1>4, QuietStep

LEMMA ReadOnStep ==
  ASSUME RInv, NEW c \in RelayClients, ReadOn(c)
  PROVE  RInv'
  <1>0. TypeOK /\ RelaysFit /\ rsrc \in [RelaySources -> SourceSet]
    BY Types DEF RInv, Pointing
  <1>1. Up(c) /\ ~Waits(c) /\ rel[rcl[c].rel].src # Nil
    BY DEF ReadOn, Streaming, Up, Waits
  <1>2. PICK s \in RelaySources : s = reserved /\ s = rel[rcl[c].rel].src
    BY <1>1, TheOwner
  <1>3. PICK b \in BOOLEAN : rsrc' = [rsrc EXCEPT ![s].run = b]
    BY <1>2 DEF ReadOn
  <1>4. rsrc[s].run /\ ~rsrc[s].sw /\ Looked(c)
        /\ UNCHANGED <<rel, intree, reserved, switching, relays_connecting, nsources,
                       halting, changes>>
    BY <1>2 DEF ReadOn, Streaming, Looked
  <1>5. [rsrc[s] EXCEPT !.run = b] \in SourceSet
    BY <1>0 DEF SourceSet
  <1>6. rsrc' \in [RelaySources -> SourceSet]
    BY <1>0, <1>3, <1>5
  <1>7. TypeOK'
    BY <1>0, <1>4, <1>6, LookedAgain, Types
  <1>8. \A t \in RelaySources :
          /\ (rsrc'[t].live <=> rsrc[t].live) /\ rsrc'[t].client = rsrc[t].client
          /\ (rsrc'[t].sw <=> rsrc[t].sw)
          /\ (t # s => (rsrc'[t].run <=> rsrc[t].run))
          /\ (rsrc'[t].term <=> rsrc[t].term)
    BY <1>0, <1>3 DEF SourceSet
  <1>9. SamePointers /\ QuietRelays /\ QuietClients
    BY <1>4, <1>8, LookedAgain DEF SamePointers, QuietRelays, QuietClients
  <1>10. QuietSources
    BY <1>2, <1>4, <1>8, OwnerIs DEF QuietSources, RInv, RunsRight, SwitchRight
  <1> QED  BY <1>4, <1>7, <1>9, <1>10, QuietStep

(* A step of the client of the source, with no switch pending.             *)
OthersStay ==
  /\ \A d \in RelayClients : d # Owner => rcl'[d].at = rcl[d].at /\ (rcl'[d].con <=> rcl[d].con)
  /\ \A r \in Relays : (rel'[r].old <=> rel[r].old) /\ (rel'[r].cleanup <=> rel[r].cleanup)
  /\ \A s \in RelaySources : rsrc'[s].sw <=> rsrc[s].sw
OwnerRight ==
  /\ rcl'[Owner].at \in {"init", "start", "thread"} => ~rcl'[Owner].con
  /\ rcl'[Owner].at \in {"connect", "wait"} => rcl'[Owner].con
  /\ rsrc'[reserved].run =>
       ~rsrc'[reserved].term /\ rcl'[Owner].con /\ rcl'[Owner].at \in {"read", "wait"}
  /\ rsrc'[reserved].term =>
       \/ rcl'[Owner].at = "read"
       \/ rcl'[Owner].at = "init" /\ (halting \/ rel[rcl[Owner].rel].cleanup)

LEMMA OwnerStep ==
  ASSUME RInv, TypeOK', SamePointers, OthersStay, OwnerRight, Slots', Counted',
         reserved # Nil, ~rsrc[reserved].sw, halting' = halting
  PROVE  RInv'
  <1>0. TypeOK /\ Driving /\ Pointing /\ RelaysFit
    BY DEF RInv, Pointing
  <1>1. Pointing'
    BY <1>0, PointersKept
  <1>2. intree' = intree /\ reserved' = reserved /\ switching' = switching /\ Owner' = Owner
    BY OwnerIs DEF SamePointers, Owner
  <1>3. Driving'
    <2> SUFFICES ASSUME NEW c \in RelayClients, Up(c)'
                 PROVE  (/\ rcl[c].rel # Nil /\ rel[rcl[c].rel].live
                         /\ rcl[c].at # "init" => rel[rcl[c].rel].src # Nil
                         /\ rcl[c].at = "init" /\ rel[rcl[c].rel].src = Nil =>
                              ~halting /\ (intree = rcl[c].rel => ~rel[intree].old /\ ~rel[intree].cleanup)
                         /\ rcl[c].at \in {"init", "start", "thread"} => ~rcl[c].con
                         /\ rcl[c].at \in {"connect", "wait"} => rcl[c].con
                         /\ rcl[c].aux # Nil => reserved # Nil /\ rsrc[reserved].sw /\ c = Owner)'
      BY DEF Driving
    <2>1. Up(c) /\ rcl'[c].rel = rcl[c].rel /\ rcl'[c].aux = rcl[c].aux
          /\ rcl[c].rel \in Relays
      BY <1>0, Fields DEF Up, SamePointers, Driving
    <2>2. (rcl[c].rel # Nil /\ rel[rcl[c].rel].live)'
      BY <1>0, <2>1 DEF Driving, SamePointers
    <2>3. (rcl[c].aux # Nil => reserved # Nil /\ rsrc[reserved].sw /\ c = Owner)'
      BY <1>0, <1>2, <2>1, OwnerIs DEF Driving, OthersStay
    <2>4. CASE c = Owner
      <3>1. rel'[rcl'[c].rel].src # Nil
        BY <2>1, <2>4, OwnerIs DEF SamePointers
      <3>2. (/\ rcl[c].at \in {"init", "start", "thread"} => ~rcl[c].con
             /\ rcl[c].at \in {"connect", "wait"} => rcl[c].con)'
        BY <2>4 DEF OwnerRight
      <3> QED  BY <2>2, <2>3, <3>1, <3>2
    <2>5. CASE c # Owner
      <3>1. rcl'[c].at = rcl[c].at /\ (rcl'[c].con <=> rcl[c].con)
        BY <2>5 DEF OthersStay
      <3>2. (/\ rcl[c].at \in {"init", "start", "thread"} => ~rcl[c].con
             /\ rcl[c].at \in {"connect", "wait"} => rcl[c].con)'
        BY <1>0, <2>1, <3>1 DEF Driving
      <3>3. (/\ rcl[c].at # "init" => rel[rcl[c].rel].src # Nil
             /\ rcl[c].at = "init" /\ rel[rcl[c].rel].src = Nil =>
                  ~halting /\ (intree = rcl[c].rel => ~rel[intree].old /\ ~rel[intree].cleanup))'
        BY <1>0, <1>2, <2>1, <3>1 DEF Driving, SamePointers, OthersStay
      <3> QED  BY <2>2, <2>3, <3>2, <3>3
    <2> QED  BY <2>4, <2>5
  <1>4. RunsRight'
    <2>1. \A r \in Relays : (rel[r].live /\ rel[r].cleanup /\ ~halting => rel[r].new = Nil)'
      BY DEF RInv, RunsRight, SamePointers, OthersStay
    <2>2. rcl'[Owner].rel = rcl[Owner].rel
          /\ (rel'[rcl[Owner].rel].cleanup <=> rel[rcl[Owner].rel].cleanup)
      BY OwnerIs DEF SamePointers, OthersStay
    <2>3. (rsrc[reserved].run => ~rsrc[reserved].term /\ rcl[Owner].con
                                 /\ rcl[Owner].at \in {"read", "wait"})'
      BY <1>2 DEF OwnerRight
    <2>4. (rsrc[reserved].term =>
             \/ rcl[Owner].at = "read"
             \/ rcl[Owner].at = "init" /\ (halting \/ rel[rcl[Owner].rel].cleanup))'
      BY <1>2, <2>2 DEF OwnerRight
    <2> QED  BY <2>1, <2>3, <2>4 DEF RunsRight
  <1>5. SwitchRight'
    <2>1. \A c \in RelayClients : /\ Waits(c)' <=> Waits(c)
                                  /\ rcl'[c].rel = rcl[c].rel
      BY DEF SamePointers, Waits
    <2>2. (\A c, d \in RelayClients : Waits(c) /\ Waits(d) => c = d)'
      BY <2>1 DEF RInv, SwitchRight
    <2>3. (\A s \in RelaySources : rsrc[s].sw => s = reserved)'
      BY <1>2 DEF RInv, SwitchRight, OthersStay
    <2>4. ~rsrc'[reserved].sw
      BY OwnerIs DEF OthersStay
    <2>5. ASSUME NEW c \in RelayClients, Waits(c)'
          PROVE  (/\ switching = {} /\ reserved # Nil /\ intree = Nil /\ rel[rcl[c].rel].new = Nil
                  /\ Owner = c \/ (rsrc[reserved].sw /\ rcl[Owner].aux = c))'
      <3>1. Waits(c) /\ rcl[c].rel \in Relays
        BY <1>0, <2>1, <2>5, Fields DEF Waits, Driving, Up
      <3>2. rel'[rcl'[c].rel].new = Nil
        BY <2>1, <3>1 DEF RInv, SwitchRight, SamePointers
      <3> QED  BY <1>2, <3>1, <3>2 DEF RInv, SwitchRight
    <2> QED  BY <1>2, <2>2, <2>3, <2>4, <2>5 DEF SwitchRight
  <1> QED  BY <1>0, <1>1, <1>3, <1>4, <1>5 DEF RInv, RelaysFit

LEMMA ClosingFacts ==
  ASSUME RInv, NEW c \in RelayClients, Closing(c)
  PROVE  /\ Up(c) /\ ~Waits(c) /\ rel[rcl[c].rel].src # Nil
         /\ reserved # Nil /\ c = Owner /\ ~rsrc[reserved].sw
         /\ \/ rcl[c].at = "read"
            \/ rcl[c].at = "init" /\ (halting \/ rel[rcl[c].rel].cleanup)
  <1>1. /\ Up(c) /\ ~Waits(c) /\ rel[rcl[c].rel].src # Nil
        /\ \/ rcl[c].at = "read"
           \/ rcl[c].at = "init" /\ (halting \/ rel[rcl[c].rel].cleanup)
    BY DEF Closing, Up, Waits
  <1>2. reserved # Nil /\ c = Owner /\ rel[rcl[c].rel].src = reserved
    BY <1>1, TheOwner
  <1>3. ~rsrc[reserved].sw
    BY <1>2 DEF RInv, SwitchRight, Closing
  <1> QED  BY <1>1, <1>2, <1>3

(* source_shutdown: whether it was run before or now, the stream is over.  *)
LEMMA ShutEnds ==
  ASSUME RInv, NEW r \in Relays, NEW s \in RelaySources, s = reserved
  PROVE  LET x == Shut(s, r) IN
         /\ x \in SourceSet /\ (x.live <=> rsrc[s].live) /\ x.client = rsrc[s].client
         /\ (x.sw <=> rsrc[s].sw) /\ x.term /\ ~x.run
  <1>1. rsrc[s] \in SourceSet /\ rel[r] \in RelaySet /\ s # Nil
    BY Fields DEF RInv, Pointing, RelaysFit
  <1>2. CASE rsrc[s].term
    BY <1>1, <1>2 DEF Shut, RInv, RunsRight, SourceSet
  <1>3. CASE ~rsrc[s].term
    <2>1. PICK b \in BOOLEAN : b = (rsrc[s].pause /\ ~rel[r].cleanup)
      OBVIOUS
    <2>2. PICK h \in 0 .. MaxHeard : h = rsrc[s].heard
      BY <1>1 DEF SourceSet
    <2>3. Shut(s, r) = [rsrc[s] EXCEPT !.term = TRUE, !.sync = TRUE, !.run = FALSE,
                                       !.check = h, !.pause = b]
      BY <1>3, <2>1, <2>2 DEF Shut
    <2>4. [rsrc[s] EXCEPT !.term = TRUE, !.sync = TRUE, !.run = FALSE, !.check = h, !.pause = b]
            \in SourceSet
      BY <1>1, <2>1, <2>2 DEF SourceSet
    <2> QED  BY <1>1, <2>3, <2>4 DEF SourceSet
  <1> QED  BY <1>2, <1>3

LEMMA DrainStep ==
  ASSUME RInv, NEW c \in RelayClients, Drain(c)
  PROVE  RInv'
  <1>0. TypeOK /\ RelaysFit /\ rsrc \in [RelaySources -> SourceSet] /\ rel \in [Relays -> RelaySet]
        /\ Closing(c)
    BY Types DEF RInv, Pointing, Drain
  <1>1. PICK s \in RelaySources : s = reserved /\ s = rel[rcl[c].rel].src
    BY <1>0, ClosingFacts, TheOwner
  <1>2. PICK r \in Relays : r = rcl[c].rel /\ rel[r].live
    BY <1>0, ClosingFacts, TheOwner
  <1>3. PICK x \in SourceSet :
          /\ x = Shut(s, r) /\ (x.live <=> rsrc[s].live) /\ x.client = rsrc[s].client
          /\ (x.sw <=> rsrc[s].sw) /\ x.term /\ ~x.run
    BY <1>1, ShutEnds
  <1>4. rsrc' = [rsrc EXCEPT ![s] = x] /\ Looked(c)
        /\ UNCHANGED <<intree, reserved, switching, relays_connecting, nsources, halting, changes>>
    BY <1>1, <1>2, <1>3 DEF Drain, Looked
  <1>5. PICK b \in BOOLEAN : rel' = [rel EXCEPT ![r].cleanup = b]
                             /\ ((b <=> rel[r].cleanup) \/ halting)
    <2>1. PICK b : b = (rel[r].cleanup \/ (halting /\ ~rsrc[s].term))
      OBVIOUS
    <2>2. b \in BOOLEAN /\ ((b <=> rel[r].cleanup) \/ halting)
      BY <2>1
    <2>3. rel' = [rel EXCEPT ![r].cleanup = b]
      BY <1>1, <1>2, <2>1 DEF Drain
    <2> QED  BY <2>2, <2>3
  <1>6. rsrc' \in [RelaySources -> SourceSet]
    BY <1>0, <1>3, <1>4
  <1>7. [rel[r] EXCEPT !.cleanup = b] \in RelaySet
    BY <1>0, <1>5 DEF RelaySet
  <1>8. rel' \in [Relays -> RelaySet]
    BY <1>0, <1>5, <1>7
  <1>9. TypeOK'
    BY <1>0, <1>4, <1>6, <1>8, LookedAgain, Types
  <1>10. \A t \in RelaySources :
          /\ (rsrc'[t].live <=> rsrc[t].live) /\ rsrc'[t].client = rsrc[t].client
          /\ (rsrc'[t].sw <=> rsrc[t].sw)
    BY <1>0, <1>3, <1>4
  <1>11. \A q \in Relays :
          /\ (rel'[q].live <=> rel[q].live) /\ (rel'[q].inlist <=> rel[q].inlist)
          /\ rel'[q].src = rel[q].src /\ rel'[q].new = rel[q].new
          /\ (rel'[q].old <=> rel[q].old)
          /\ (q # r \/ ~halting => (rel'[q].cleanup <=> rel[q].cleanup))
    BY <1>0, <1>5 DEF RelaySet
  <1>12. SamePointers /\ QuietClients
    BY <1>4, <1>10, <1>11, LookedAgain DEF SamePointers, QuietClients
  <1>13. QuietRelays
    BY <1>0, <1>1, <1>2, <1>11, ClosingFacts DEF QuietRelays
  <1>14. QuietSources
    <2>1. rsrc'[reserved] = x
      BY <1>0, <1>1, <1>4
    <2> QED  BY <1>0, <1>1, <1>3, <1>10, <2>1, ClosingFacts DEF QuietSources
  <1> QED  BY <1>4, <1>9, <1>12, <1>13, <1>14, QuietStep

LEMMA DrainAgainStep ==
  ASSUME RInv, NEW c \in RelayClients, DrainAgain(c)
  PROVE  RInv'
  <1>0. TypeOK /\ RelaysFit /\ rsrc \in [RelaySources -> SourceSet] /\ Closing(c)
    BY Types DEF RInv, Pointing, DrainAgain
  <1>1. PICK s \in RelaySources : s = reserved /\ s = rel[rcl[c].rel].src
    BY <1>0, ClosingFacts, TheOwner
  <1>2. /\ rsrc' = [rsrc EXCEPT ![s].term = FALSE] /\ rsrc[s].term /\ Looked(c)
        /\ UNCHANGED <<rel, intree, reserved, switching, relays_connecting, nsources, halting,
                       changes>>
    BY <1>1 DEF DrainAgain, Looked
  <1>3. [rsrc[s] EXCEPT !.term = FALSE] \in SourceSet
    BY <1>0 DEF SourceSet
  <1>4. rsrc' \in [RelaySources -> SourceSet]
    BY <1>0, <1>2, <1>3
  <1>5. TypeOK'
    BY <1>0, <1>2, <1>4, LookedAgain, Types
  <1>6. \A t \in RelaySources :
          /\ (rsrc'[t].live <=> rsrc[t].live) /\ rsrc'[t].client = rsrc[t].client
          /\ (rsrc'[t].sw <=> rsrc[t].sw) /\ (rsrc'[t].run <=> rsrc[t].run)
    BY <1>0, <1>2 DEF SourceSet
  <1>7. ~rsrc'[s].term
    BY <1>0, <1>2 DEF SourceSet
  <1>8. SamePointers /\ QuietRelays /\ QuietClients
    BY <1>2, <1>6, LookedAgain DEF SamePointers, QuietRelays, QuietClients
  <1>9. QuietSources
    BY <1>0, <1>1, <1>6, <1>7, ClosingFacts DEF QuietSources
  <1> QED  BY <1>2, <1>5, <1>8, <1>9, QuietStep

(* A step that leaves the numbers of threads and of sources alone, or      *)
(* counts what it changes.                                                 *)
LEMMA SourceStep ==
  ASSUME RInv, reserved # Nil, NEW x \in SourceSet,
         (x.live <=> rsrc[reserved].live), x.client = rsrc[reserved].client,
         x.sw <=> rsrc[reserved].sw,
         rsrc' = [rsrc EXCEPT ![reserved] = x]
  PROVE  /\ rsrc' \in [RelaySources -> SourceSet] /\ rsrc'[reserved] = x
         /\ \A t \in RelaySources :
              /\ (rsrc'[t].live <=> rsrc[t].live) /\ rsrc'[t].client = rsrc[t].client
              /\ (rsrc'[t].sw <=> rsrc[t].sw)
  <1>1. rsrc \in [RelaySources -> SourceSet] /\ reserved \in RelaySources
    BY OwnerIs, Types DEF RInv, Pointing
  <1> QED  BY <1>1

LEMMA ClientStep ==
  ASSUME RInv, reserved # Nil, NEW y \in ClientSet,
         y.rel = rcl[Owner].rel, y.aux = rcl[Owner].aux, y.at \notin {"none", "wait"},
         ~Waits(Owner), rcl' = [rcl EXCEPT ![Owner] = y]
  PROVE  /\ rcl' \in [RelayClients -> ClientSet] /\ rcl'[Owner] = y
         /\ \A d \in RelayClients :
              /\ rcl'[d].rel = rcl[d].rel /\ rcl'[d].aux = rcl[d].aux
              /\ rcl'[d].at = "none" <=> rcl[d].at = "none"
              /\ rcl'[d].at = "wait" <=> rcl[d].at = "wait"
              /\ d # Owner => rcl'[d].at = rcl[d].at /\ (rcl'[d].con <=> rcl[d].con)
  <1>1. rcl \in [RelayClients -> ClientSet] /\ Owner \in RelayClients /\ Up(Owner)
    BY OwnerIs, Types DEF RInv, Pointing
  <1> QED  BY <1>1 DEF Up, Waits

LEMMA Quieted ==
  ASSUME NEW w \in SourceSet
  PROVE  /\ Quiet(w) \in SourceSet /\ (Quiet(w).live <=> w.live) /\ Quiet(w).client = w.client
         /\ (Quiet(w).sw <=> FALSE) /\ ~Quiet(w).term /\ (Quiet(w).run <=> w.run)
  <1>1. Quiet(w) \in SourceSet
    BY DEF Quiet, SourceSet
  <1>2. (Quiet(w).live <=> w.live) /\ Quiet(w).client = w.client /\ (Quiet(w).run <=> w.run)
    BY DEF Quiet, SourceSet
  <1>3. ~Quiet(w).sw /\ ~Quiet(w).term
    BY DEF Quiet, SourceSet
  <1> QED  BY <1>1, <1>2, <1>3

LEMMA StandByStep ==
  ASSUME RInv, NEW c \in RelayClients, StandBy(c)
  PROVE  RInv'
  <1>0. TypeOK /\ RelaysFit /\ Closing(c) /\ Counted /\ Slots
    BY DEF RInv, Pointing, StandBy
  <1>1. reserved # Nil /\ c = Owner /\ ~rsrc[reserved].sw /\ rel[rcl[c].rel].src = reserved
        /\ reserved \in RelaySources /\ rcl[c].rel \in Relays /\ Up(c) /\ ~Waits(c)
        /\ rcl[c].at \in {"read", "init"}
    BY <1>0, ClosingFacts, TheOwner
  <1>2. PICK w \in SourceSet :
          /\ w = Shut(reserved, rcl[c].rel) /\ (w.live <=> rsrc[reserved].live)
          /\ w.client = rsrc[reserved].client
          /\ (w.sw <=> rsrc[reserved].sw) /\ w.term /\ ~w.run
    BY <1>1, ShutEnds
  <1>3. PICK x : x = Quiet(w)
    OBVIOUS
  <1>4. /\ x \in SourceSet /\ (x.live <=> rsrc[reserved].live)
        /\ x.client = rsrc[reserved].client
        /\ (x.sw <=> rsrc[reserved].sw) /\ ~x.term /\ ~x.run
    BY <1>1, <1>2, <1>3, Quieted
  <1>5. rsrc' = [rsrc EXCEPT ![reserved] = x]
        /\ UNCHANGED <<rel, intree, reserved, switching, relays_connecting, halting, changes>>
    BY <1>1, <1>2, <1>3 DEF StandBy
  <1>6. PICK y : y = [rcl[c] EXCEPT !.at = "init", !.con = FALSE, !.seen = FALSE]
    OBVIOUS
  <1>7. y \in ClientSet /\ y.rel = rcl[Owner].rel /\ y.aux = rcl[Owner].aux
        /\ y.at = "init" /\ ~y.con
    BY <1>0, <1>1, <1>6, Fields DEF ClientSet
  <1>8. rcl' = [rcl EXCEPT ![Owner] = y]
    BY <1>1, <1>6 DEF StandBy
  <1>9. TypeOK'
    BY <1>0, <1>1, <1>4, <1>5, <1>7, <1>8, SourceStep, ClientStep, Types
  <1>10. SamePointers /\ OthersStay
    BY <1>1, <1>4, <1>5, <1>7, <1>8, SourceStep, ClientStep DEF SamePointers, OthersStay
  <1>11. rsrc'[reserved] = x /\ rcl'[Owner] = y
    BY <1>1, <1>4, <1>5, <1>7, <1>8, SourceStep, ClientStep
  <1>12. OwnerRight
    BY <1>4, <1>7, <1>11 DEF OwnerRight
  <1>13. Owner' = Owner
    BY <1>1, <1>4, <1>5, <1>11 DEF Owner
  <1>14. Counted'
    <2>1. nsources' = nsources - (IF rcl[c].con THEN 1 ELSE 0)
      BY DEF StandBy, CountedOff
    <2>2. nsources' = 0
      BY <1>0, <1>1, <2>1 DEF Counted
    <2> QED  BY <1>5, <1>7, <1>11, <1>13, <2>2 DEF Counted
  <1>15. Slots'
    BY <1>0, <1>1, <1>5, <1>7, <1>11, <1>13 DEF Slots
  <1> QED  BY <1>1, <1>5, <1>9, <1>10, <1>12, <1>14, <1>15, OwnerStep

LEMMA CallAgainStep ==
  ASSUME RInv, NEW c \in RelayClients, CallAgain(c)
  PROVE  RInv'
  <1>0. TypeOK /\ RelaysFit /\ Closing(c) /\ Counted /\ Slots
    BY DEF RInv, Pointing, CallAgain
  <1>1. reserved # Nil /\ c = Owner /\ ~rsrc[reserved].sw /\ rel[rcl[c].rel].src = reserved
        /\ reserved \in RelaySources /\ rcl[c].rel \in Relays /\ Up(c) /\ ~Waits(c)
        /\ rcl[c].at \in {"read", "init"}
    BY <1>0, ClosingFacts, TheOwner
  <1>2. PICK w \in SourceSet :
          /\ w = Shut(reserved, rcl[c].rel) /\ (w.live <=> rsrc[reserved].live)
          /\ w.client = rsrc[reserved].client
          /\ (w.sw <=> rsrc[reserved].sw) /\ w.term /\ ~w.run
    BY <1>1, ShutEnds
  <1>3. PICK v : v = Quiet(w)
    OBVIOUS
  <1>4. /\ v \in SourceSet /\ (v.live <=> rsrc[reserved].live)
        /\ v.client = rsrc[reserved].client
        /\ (v.sw <=> rsrc[reserved].sw) /\ ~v.term /\ ~v.run
    BY <1>1, <1>2, <1>3, Quieted
  <1>16. PICK h \in 0 .. MaxHeard : h = w.heard
    BY <1>2 DEF SourceSet
  <1>17. PICK x : x = [v EXCEPT !.check = h, !.pause = FALSE, !.sync = TRUE]
    OBVIOUS
  <1>18. /\ x \in SourceSet /\ (x.live <=> rsrc[reserved].live)
         /\ x.client = rsrc[reserved].client
         /\ (x.sw <=> rsrc[reserved].sw) /\ ~x.term /\ ~x.run
    BY <1>4, <1>16, <1>17 DEF SourceSet
  <1>5. rsrc' = [rsrc EXCEPT ![reserved] = x]
        /\ UNCHANGED <<rel, intree, reserved, switching, relays_connecting, halting, changes>>
    BY <1>1, <1>2, <1>3, <1>16, <1>17 DEF CallAgain
  <1>6. PICK y : y = [rcl[c] EXCEPT !.con = FALSE, !.seen = FALSE]
    OBVIOUS
  <1>7. y \in ClientSet /\ y.rel = rcl[Owner].rel /\ y.aux = rcl[Owner].aux
        /\ y.at = rcl[Owner].at /\ ~y.con
    BY <1>0, <1>1, <1>6, Fields DEF ClientSet
  <1>8. rcl' = [rcl EXCEPT ![Owner] = y]
    BY <1>1, <1>6 DEF CallAgain
  <1>9. TypeOK'
    BY <1>0, <1>1, <1>5, <1>7, <1>8, <1>18, SourceStep, ClientStep, Types
  <1>10. SamePointers /\ OthersStay
    BY <1>1, <1>5, <1>7, <1>8, <1>18, SourceStep, ClientStep DEF SamePointers, OthersStay
  <1>11. rsrc'[reserved] = x /\ rcl'[Owner] = y
    BY <1>1, <1>5, <1>7, <1>8, <1>18, SourceStep, ClientStep
  <1>12. OwnerRight
    BY <1>1, <1>7, <1>11, <1>18 DEF OwnerRight
  <1>13. Owner' = Owner
    BY <1>1, <1>5, <1>11, <1>18 DEF Owner
  <1>14. Counted'
    <2>1. nsources' = nsources - (IF rcl[c].con THEN 1 ELSE 0)
      BY DEF CallAgain, CountedOff
    <2>2. nsources' = 0
      BY <1>0, <1>1, <2>1 DEF Counted
    <2> QED  BY <1>5, <1>7, <1>11, <1>13, <2>2 DEF Counted
  <1>15. Slots'
    BY <1>0, <1>1, <1>5, <1>7, <1>11, <1>13 DEF Slots
  <1> QED  BY <1>1, <1>5, <1>9, <1>10, <1>12, <1>14, <1>15, OwnerStep

(* A client that starts its relay, or whose thread does, has the source.   *)
LEMMA StartingFacts ==
  ASSUME RInv, NEW c \in RelayClients, rcl[c].at \in {"start", "thread", "connect"}
  PROVE  /\ reserved # Nil /\ c = Owner /\ ~rsrc[reserved].sw /\ rel[rcl[c].rel].src = reserved
         /\ reserved \in RelaySources /\ rcl[c].rel \in Relays /\ Up(c) /\ ~Waits(c)
         /\ ~rsrc[reserved].run /\ ~rsrc[reserved].term
         /\ (rcl[c].con <=> rcl[c].at = "connect")
  <1>1. Up(c) /\ ~Waits(c)
    BY DEF Up, Waits
  <1>2. rel[rcl[c].rel].src # Nil /\ (rcl[c].con <=> rcl[c].at = "connect")
    BY <1>1 DEF RInv, Driving
  <1>3. reserved # Nil /\ c = Owner /\ rel[rcl[c].rel].src = reserved
        /\ reserved \in RelaySources /\ rcl[c].rel \in Relays
    BY <1>1, <1>2, TheOwner
  <1>4. ~rsrc[reserved].run /\ ~rsrc[reserved].term /\ ~rsrc[reserved].sw
    BY <1>3 DEF RInv, RunsRight, SwitchRight
  <1> QED  BY <1>1, <1>2, <1>3, <1>4

LEMMA StartupStep ==
  ASSUME RInv, NEW c \in RelayClients, Startup(c)
  PROVE  RInv'
  <1>0. TypeOK /\ RelaysFit /\ Counted /\ Slots /\ rcl[c].at = "start"
    BY DEF RInv, Pointing, Startup
  <1>1. reserved # Nil /\ c = Owner /\ ~rsrc[reserved].sw /\ rel[rcl[c].rel].src = reserved
        /\ reserved \in RelaySources /\ rcl[c].rel \in Relays /\ Up(c) /\ ~Waits(c)
        /\ ~rsrc[reserved].run /\ ~rsrc[reserved].term /\ ~rcl[c].con
    BY <1>0, StartingFacts
  <1>2. PICK b \in {"read", "thread"} :
          /\ rcl' = [rcl EXCEPT ![c] = [@ EXCEPT !.at = b, !.seen = FALSE]]
          /\ b = "read" => UNCHANGED relays_connecting
          /\ b = "thread" => /\ relays_connecting <= StartSlots
                             /\ relays_connecting' = relays_connecting + 1
    BY DEF Startup
  <1>3. UNCHANGED <<rel, rsrc, intree, reserved, switching, nsources, halting, changes>>
    BY DEF Startup
  <1>6. PICK y : y = [rcl[c] EXCEPT !.at = b, !.seen = FALSE]
    OBVIOUS
  <1>7. y \in ClientSet /\ y.rel = rcl[Owner].rel /\ y.aux = rcl[Owner].aux
        /\ y.at = b /\ (y.con <=> rcl[c].con)
    BY <1>0, <1>1, <1>6, Fields DEF ClientSet
  <1>8. rcl' = [rcl EXCEPT ![Owner] = y]
    BY <1>1, <1>2, <1>6
  <1>9. TypeOK'
    BY <1>0, <1>1, <1>3, <1>7, <1>8, ClientStep, Types
  <1>10. SamePointers /\ OthersStay
    BY <1>1, <1>3, <1>7, <1>8, ClientStep DEF SamePointers, OthersStay
  <1>11. rcl'[Owner] = y
    BY <1>1, <1>7, <1>8, ClientStep
  <1>12. OwnerRight
    BY <1>1, <1>3, <1>7, <1>11 DEF OwnerRight
  <1>13. Owner' = Owner
    BY <1>3 DEF Owner
  <1>14. Counted'
    BY <1>0, <1>1, <1>3, <1>7, <1>11, <1>13 DEF Counted
  <1>15. Slots'
    <2>1. PICK z \in 0 .. 1 : z = IF switching = {} THEN 0 ELSE 1
      OBVIOUS
    <2>2. relays_connecting = z /\ (z <= SwitchSlots \/ z <= StartSlots + 1)
      BY <1>0, <1>1, <2>1 DEF Slots
    <2>3. CASE b = "read"
      BY <1>2, <1>3, <1>7, <1>11, <1>13, <2>1, <2>2, <2>3 DEF Slots
    <2>4. CASE b = "thread"
      <3>1. relays_connecting' = z + 1 /\ relays_connecting' <= StartSlots + 1
        BY <1>0, <1>2, <2>2, <2>4 DEF RelaysFit
      <3>2. rcl'[Owner'].at = "thread" /\ reserved' # Nil /\ switching' = switching
        BY <1>1, <1>3, <1>7, <1>11, <1>13, <2>4
      <3> QED  BY <2>1, <3>1, <3>2 DEF Slots
    <2> QED  BY <2>3, <2>4
  <1> QED  BY <1>1, <1>3, <1>9, <1>10, <1>12, <1>14, <1>15, OwnerStep

LEMMA ThreadStartsStep ==
  ASSUME RInv, NEW c \in RelayClients, ThreadStarts(c)
  PROVE  RInv'
  <1>0. TypeOK /\ RelaysFit /\ Counted /\ Slots /\ rcl[c].at = "thread"
    BY DEF RInv, Pointing, ThreadStarts
  <1>1. reserved # Nil /\ c = Owner /\ ~rsrc[reserved].sw /\ rel[rcl[c].rel].src = reserved
        /\ reserved \in RelaySources /\ rcl[c].rel \in Relays /\ Up(c) /\ ~Waits(c)
        /\ ~rsrc[reserved].run /\ ~rsrc[reserved].term /\ ~rcl[c].con
    BY <1>0, StartingFacts
  <1>2. PICK x : x = [rsrc[reserved] EXCEPT !.pause = TRUE]
    OBVIOUS
  <1>3. rsrc[reserved] \in SourceSet
    BY <1>0, <1>1, Fields
  <1>4. x \in SourceSet /\ (x.live <=> rsrc[reserved].live) /\ x.client = rsrc[reserved].client
        /\ (x.sw <=> rsrc[reserved].sw) /\ (x.run <=> rsrc[reserved].run)
        /\ (x.term <=> rsrc[reserved].term)
    BY <1>2, <1>3 DEF SourceSet
  <1>5. rsrc' = [rsrc EXCEPT ![reserved] = x]
        /\ UNCHANGED <<rel, intree, reserved, switching, relays_connecting, halting, changes>>
    BY <1>1, <1>2 DEF ThreadStarts
  <1>6. PICK y : y = [rcl[c] EXCEPT !.at = "connect", !.con = TRUE]
    OBVIOUS
  <1>7. y \in ClientSet /\ y.rel = rcl[Owner].rel /\ y.aux = rcl[Owner].aux
        /\ y.at = "connect" /\ y.con
    BY <1>0, <1>1, <1>6, Fields DEF ClientSet
  <1>8. rcl' = [rcl EXCEPT ![Owner] = y] /\ nsources' = nsources + 1
    BY <1>1, <1>6 DEF ThreadStarts
  <1>9. TypeOK'
    BY <1>0, <1>1, <1>4, <1>5, <1>7, <1>8, SourceStep, ClientStep, Types
  <1>10. SamePointers /\ OthersStay
    BY <1>1, <1>4, <1>5, <1>7, <1>8, SourceStep, ClientStep DEF SamePointers, OthersStay
  <1>11. rsrc'[reserved] = x /\ rcl'[Owner] = y
    BY <1>1, <1>4, <1>5, <1>7, <1>8, SourceStep, ClientStep
  <1>12. OwnerRight
    BY <1>1, <1>4, <1>7, <1>11 DEF OwnerRight
  <1>13. Owner' = Owner
    BY <1>1, <1>4, <1>5, <1>11 DEF Owner
  <1>14. Counted'
    <2>1. nsources' = 1
      BY <1>0, <1>1, <1>8 DEF Counted
    <2> QED  BY <1>1, <1>5, <1>7, <1>11, <1>13, <2>1 DEF Counted
  <1>15. Slots'
    BY <1>0, <1>1, <1>5, <1>7, <1>11, <1>13 DEF Slots
  <1> QED  BY <1>1, <1>5, <1>9, <1>10, <1>12, <1>14, <1>15, OwnerStep

LEMMA ThreadEndsStep ==
  ASSUME RInv, NEW c \in RelayClients, ThreadEnds(c)
  PROVE  RInv'
  <1>0. TypeOK /\ RelaysFit /\ Counted /\ Slots /\ rcl[c].at = "connect"
        /\ rel \in [Relays -> RelaySet]
    BY Types DEF RInv, Pointing, ThreadEnds
  <1>1. reserved # Nil /\ c = Owner /\ ~rsrc[reserved].sw /\ rel[rcl[c].rel].src = reserved
        /\ reserved \in RelaySources /\ rcl[c].rel \in Relays /\ Up(c) /\ ~Waits(c)
        /\ ~rsrc[reserved].run /\ ~rsrc[reserved].term /\ rcl[c].con
    BY <1>0, StartingFacts
  <1>2. PICK h \in 0 .. 2 :
          /\ rel' = [rel EXCEPT ![rcl[c].rel].use = h]
          /\ rsrc' = [rsrc EXCEPT ![reserved] =
                       [@ EXCEPT !.run = h # 0, !.pause = rsrc[reserved].pause /\ h # 0]]
    BY <1>1 DEF ThreadEnds
  <1>3. rsrc[reserved] \in SourceSet /\ rel[rcl[c].rel] \in RelaySet
    BY <1>0, <1>1, Fields
  <1>16. PICK b \in BOOLEAN, p \in BOOLEAN :
           rsrc' = [rsrc EXCEPT ![reserved] = [@ EXCEPT !.run = b, !.pause = p]]
    <2>1. (h # 0) \in BOOLEAN /\ (rsrc[reserved].pause /\ h # 0) \in BOOLEAN
      OBVIOUS
    <2> QED  BY <1>2, <2>1, Zenon
  <1>19. PICK x : x = [rsrc[reserved] EXCEPT !.run = b, !.pause = p]
    OBVIOUS
  <1>4. x \in SourceSet /\ (x.live <=> rsrc[reserved].live) /\ x.client = rsrc[reserved].client
        /\ (x.sw <=> rsrc[reserved].sw)
        /\ (x.term <=> rsrc[reserved].term)
    BY <1>19, <1>3 DEF SourceSet
  <1>5. rsrc' = [rsrc EXCEPT ![reserved] = x]
        /\ UNCHANGED <<intree, reserved, switching, nsources, halting, changes>>
    <2>1. rsrc' = [rsrc EXCEPT ![reserved] = x]
      BY <1>16, <1>19
    <2> QED  BY <2>1 DEF ThreadEnds
  <1>6. PICK y : y = [rcl[c] EXCEPT !.at = "read"]
    OBVIOUS
  <1>7. y \in ClientSet /\ y.rel = rcl[Owner].rel /\ y.aux = rcl[Owner].aux
        /\ y.at = "read" /\ (y.con <=> rcl[Owner].con)
    BY <1>0, <1>1, <1>6, Fields DEF ClientSet
  <1>8. rcl' = [rcl EXCEPT ![Owner] = y] /\ relays_connecting' = relays_connecting - 1
    BY <1>1, <1>6 DEF ThreadEnds
  <1>20. /\ rel' \in [Relays -> RelaySet]
         /\ \A q \in Relays :
              /\ (rel'[q].live <=> rel[q].live) /\ (rel'[q].inlist <=> rel[q].inlist)
              /\ rel'[q].src = rel[q].src /\ rel'[q].new = rel[q].new
              /\ (rel'[q].old <=> rel[q].old) /\ (rel'[q].cleanup <=> rel[q].cleanup)
    <2>1. [rel[rcl[c].rel] EXCEPT !.use = h] \in RelaySet
      BY <1>3 DEF RelaySet
    <2>2. rel' \in [Relays -> RelaySet]
      BY <1>0, <1>2, <2>1
    <2>3. \A q \in Relays :
              /\ (rel'[q].live <=> rel[q].live) /\ (rel'[q].inlist <=> rel[q].inlist)
              /\ rel'[q].src = rel[q].src /\ rel'[q].new = rel[q].new
              /\ (rel'[q].old <=> rel[q].old) /\ (rel'[q].cleanup <=> rel[q].cleanup)
      BY <1>0, <1>2 DEF RelaySet
    <2> QED  BY <2>2, <2>3
  <1>9. TypeOK'
    BY <1>0, <1>1, <1>4, <1>5, <1>7, <1>8, <1>20, SourceStep, ClientStep, Types
  <1>10. SamePointers /\ OthersStay
    <2>1. SamePointers
      BY <1>0, <1>1, <1>4, <1>5, <1>7, <1>8, <1>20, SourceStep, ClientStep DEF SamePointers
    <2>2. OthersStay
      BY <1>0, <1>1, <1>4, <1>5, <1>7, <1>8, <1>20, SourceStep, ClientStep DEF OthersStay
    <2> QED  BY <2>1, <2>2
  <1>11. rsrc'[reserved] = x /\ rcl'[Owner] = y
    BY <1>1, <1>4, <1>5, <1>7, <1>8, SourceStep, ClientStep
  <1>12. OwnerRight
    BY <1>1, <1>4, <1>7, <1>11 DEF OwnerRight
  <1>13. Owner' = Owner
    BY <1>1, <1>4, <1>5, <1>11 DEF Owner
  <1>14. Counted'
    BY <1>0, <1>1, <1>5, <1>7, <1>11, <1>13 DEF Counted
  <1>15. Slots'
    <2>1. PICK z \in 0 .. 1 : z = IF switching = {} THEN 0 ELSE 1
      OBVIOUS
    <2>2. relays_connecting = z + 1
      BY <1>0, <1>1, <2>1 DEF Slots
    <2>3. relays_connecting' = z /\ z <= StartSlots + 1
      BY <1>0, <1>8, <2>2 DEF RelaysFit
    <2>4. rcl'[Owner'].at = "read" /\ switching' = switching
      BY <1>5, <1>7, <1>11, <1>13
    <2> QED  BY <2>1, <2>3, <2>4 DEF Slots
  <1> QED  BY <1>1, <1>5, <1>9, <1>10, <1>12, <1>14, <1>15, OwnerStep

(* A thread that looks for a better host finds none: its copy was nobody's. *)
LEMMA SwitchFailsStep ==
  ASSUME RInv, NEW k \in Relays, SwitchFails(k)
  PROVE  RInv'
  <1>0. TypeOK /\ RelaysFit /\ k \in switching /\ TreeRight /\ Apart /\ Owned /\ OneDriver
        /\ Driving /\ RunsRight /\ SwitchRight /\ Slots /\ Counted
    BY DEF RInv, Pointing, SwitchFails
  <1>1. /\ switching' = switching \ {k} /\ rel' = [rel EXCEPT ![k] = NoRelay]
        /\ relays_connecting' = relays_connecting - 1
        /\ UNCHANGED <<rcl, rsrc, intree, reserved, nsources, halting, changes>>
    BY DEF SwitchFails
  <1>2. /\ rel' \in [Relays -> RelaySet] /\ ~rel'[k].live
        /\ \A r \in Relays : r # k => rel'[r] = rel[r]
    BY <1>0, <1>1, Types, Empties DEF NoRelay
  <1>3. TypeOK'
    BY <1>0, <1>1, <1>2, Types
  <1>4. /\ switching' = {} /\ intree # k /\ k # Nil
        /\ \A c \in RelayClients : Up(c) => rcl[c].rel # k
        /\ \A c \in RelayClients : ~Waits(c)
        /\ \A r \in Relays : rel[r].live => rel[r].new # k
    <2>1. switching' = {}
      BY <1>0, <1>1 DEF Apart
    <2>2. /\ intree # k /\ \A c \in RelayClients : Up(c) => rcl[c].rel # k
      BY <1>0 DEF Apart, Drives
    <2>3. \A c \in RelayClients : ~Waits(c)
      BY <1>0 DEF SwitchRight
    <2>4. \A r \in Relays : rel[r].live => rel[r].new # k
      BY <1>0 DEF Apart, RelaysFit
    <2> QED  BY <1>0, <2>1, <2>2, <2>3, <2>4 DEF RelaysFit
  <1>5. reserved # Nil => Owner' = Owner /\ Owner \in RelayClients /\ rcl[Owner].rel \in Relays
                          /\ rcl[Owner].rel # k /\ ~rsrc[reserved].sw
    BY <1>1, <1>4, OwnerIs DEF Owner
  <1>6. TreeRight'
    BY <1>0, <1>1, <1>2, <1>4, Fields DEF TreeRight
  <1>7. Apart'
    BY <1>0, <1>1, <1>2, <1>4, Fields DEF Apart, Drives, Up
  <1>8. Owned'
    <2>1. (\A s \in RelaySources : rsrc[s].live <=> s = reserved)'
      BY <1>0, <1>1 DEF Owned
    <2>2. (\A r \in Relays : rel[r].live /\ rel[r].src # Nil =>
             /\ rel[r].src = reserved
             /\ \E c \in RelayClients : Drives(c, r) /\ (c = Owner \/ Waits(c)))'
      BY <1>0, <1>1, <1>2 DEF Owned, Drives, Up, Waits, Owner
    <2>3. (reserved # Nil => Owner # Nil /\ Up(Owner) /\ rel[rcl[Owner].rel].src = reserved)'
      BY <1>0, <1>1, <1>2, <1>5 DEF Owned, Up
    <2> QED  BY <2>1, <2>2, <2>3 DEF Owned
  <1>9. OneDriver'
    BY <1>0, <1>1 DEF OneDriver
  <1>10. Driving'
    <2> SUFFICES ASSUME NEW c \in RelayClients, Up(c)'
                 PROVE  (/\ rcl[c].rel # Nil /\ rel[rcl[c].rel].live
                         /\ rcl[c].at # "init" => rel[rcl[c].rel].src # Nil
                         /\ rcl[c].at = "init" /\ rel[rcl[c].rel].src = Nil =>
                              ~halting /\ (intree = rcl[c].rel => ~rel[intree].old /\ ~rel[intree].cleanup)
                         /\ rcl[c].at \in {"init", "start", "thread"} => ~rcl[c].con
                         /\ rcl[c].at \in {"connect", "wait"} => rcl[c].con
                         /\ rcl[c].aux # Nil => reserved # Nil /\ rsrc[reserved].sw /\ c = Owner)'
      BY DEF Driving
    <2>1. Up(c) /\ rcl[c].rel \in Relays /\ rcl[c].rel # k
      BY <1>0, <1>1, <1>4, Fields DEF Up, Driving
    <2>2. rel'[rcl'[c].rel] = rel[rcl[c].rel] /\ rcl'[c] = rcl[c]
      BY <1>1, <1>2, <2>1
    <2> QED  BY <1>0, <1>1, <1>2, <1>5, <2>1, <2>2 DEF Driving
  <1>11. RunsRight'
    BY <1>0, <1>1, <1>2, <1>5, Fields DEF RunsRight
  <1>12. SwitchRight'
    BY <1>0, <1>1, <1>4, <1>5 DEF SwitchRight, Waits
  <1>13. Slots' /\ Counted'
    BY <1>0, <1>1, <1>4, <1>5 DEF Slots, Counted, RelaysFit
  <1> QED  BY <1>0, <1>3, <1>6, <1>7, <1>8, <1>9, <1>10, <1>11, <1>12, <1>13
           DEF RInv, Pointing, RelaysFit

(* Memory that is not in use is pointed at by nothing.                     *)
LEMMA UnusedRelay ==
  ASSUME RInv, NEW k \in Relays, ~rel[k].live
  PROVE  /\ intree # k /\ k \notin switching /\ k # Nil
         /\ \A c \in RelayClients : Up(c) => rcl[c].rel # k
         /\ \A r \in Relays : rel[r].live => rel[r].new # k
  BY DEF RInv, Pointing, TreeRight, Apart, Driving, RelaysFit

LEMMA CheckHostsStep ==
  ASSUME RInv, NEW c \in RelayClients, CheckHosts(c)
  PROVE  RInv'
  <1>0. TypeOK /\ RelaysFit /\ TreeRight /\ Apart /\ Owned /\ OneDriver
        /\ Driving /\ RunsRight /\ SwitchRight /\ Slots /\ Counted
    BY DEF RInv, Pointing
  <1>1. /\ rcl[c].at = "read" /\ rel[rcl[c].rel].src # Nil /\ switching = {}
        /\ ~rel[rcl[c].rel].cleanup
        /\ relays_connecting < SwitchSlots
        /\ relays_connecting' = relays_connecting + 1
        /\ UNCHANGED <<rcl, rsrc, intree, reserved, nsources, halting, changes>>
    BY <1>0 DEF CheckHosts, Streaming, RelaysFit
  <1>2. reserved # Nil /\ c = Owner /\ ~rsrc[reserved].sw
        /\ reserved \in RelaySources /\ rcl[c].rel \in Relays /\ rel[rcl[c].rel].live
    <2>1. reserved # Nil /\ c = Owner
        /\ reserved \in RelaySources /\ rcl[c].rel \in Relays /\ rel[rcl[c].rel].live
        /\ rel[rcl[c].rel].src = reserved
      BY <1>1, TheOwner DEF Up, Waits
    <2>2. ~rsrc[reserved].sw
      BY <2>1 DEF CheckHosts, Streaming
    <2> QED  BY <2>1, <2>2
  <1>3. \A d \in RelayClients : ~Waits(d)
    BY <1>0, <1>1, <1>2 DEF SwitchRight, Waits
  <1>4. PICK k \in FreeRelays :
          /\ rel' = [rel EXCEPT ![k] = [rel[rcl[c].rel] EXCEPT !.src = Nil, !.new = Nil,
                                                            !.inlist = FALSE]]
          /\ switching' = switching \cup {k}
    BY DEF CheckHosts
  <1>5. k \in Relays /\ ~rel[k].live
    BY <1>4 DEF FreeRelays
  <1>6. PICK w : w = [rel[rcl[c].rel] EXCEPT !.src = Nil, !.new = Nil, !.inlist = FALSE]
    OBVIOUS
  <1>7. w \in RelaySet /\ w.live /\ w.src = Nil /\ w.new = Nil /\ ~w.inlist /\ ~w.cleanup
    <2>1. rel[rcl[c].rel] \in RelaySet
      BY <1>0, <1>2, Fields
    <2>2. w \in RelaySet /\ w.src = Nil /\ w.new = Nil
      BY <1>6, <2>1 DEF RelaySet
    <2>3. w.live /\ ~w.inlist /\ ~w.cleanup
      BY <1>1, <1>2, <1>6, <2>1 DEF RelaySet
    <2> QED  BY <2>2, <2>3
  <1>8. /\ rel' \in [Relays -> RelaySet] /\ rel'[k] = w
        /\ \A r \in Relays : r # k => rel'[r] = rel[r]
    BY <1>0, <1>4, <1>5, <1>6, <1>7, Types
  <1>9. /\ intree # k /\ switching' = {k} /\ k # Nil
        /\ \A d \in RelayClients : Up(d) => rcl[d].rel # k
        /\ \A r \in Relays : rel[r].live => rel[r].new # k
    BY <1>1, <1>4, <1>5, UnusedRelay
  <1>10. TypeOK'
    BY <1>0, <1>1, <1>4, <1>5, <1>8, Types
  <1>11. Owner' = Owner
    BY <1>1 DEF Owner
  <1>12. TreeRight'
    BY <1>0, <1>1, <1>7, <1>8, <1>9, Fields DEF TreeRight
  <1>13. Apart'
    <2>1. (\A r, q \in Relays :
             rel[r].live /\ rel[q].live /\ rel[r].new # Nil /\ rel[r].new = rel[q].new => r = q)'
      BY <1>0, <1>7, <1>8 DEF Apart
    <2>2. (\A r \in Relays : rel[r].live /\ rel[r].new # Nil =>
             /\ rel[rel[r].new].live /\ rel[r].new \notin switching
             /\ \A d \in RelayClients : ~Drives(d, rel[r].new))'
      BY <1>0, <1>1, <1>7, <1>8, <1>9, Fields DEF Apart, Drives, Up
    <2>3. (\A j \in switching :
             /\ rel[j].live /\ rel[j].src = Nil /\ rel[j].new = Nil /\ intree # j
             /\ \A d \in RelayClients : ~Drives(d, j))'
      BY <1>1, <1>7, <1>8, <1>9 DEF Drives, Up
    <2>4. (\A i, j \in switching : i = j)'
      BY <1>9
    <2>5. (\A r \in Relays : rel[r].live /\ rel[r].new # Nil => rel[r].src # Nil)'
      BY <1>0, <1>7, <1>8 DEF Apart
    <2> QED  BY <2>1, <2>2, <2>3, <2>4, <2>5 DEF Apart
  <1>14. Owned'
    <2>1. (\A s \in RelaySources : rsrc[s].live <=> s = reserved)'
      BY <1>0, <1>1 DEF Owned
    <2>2. (\A r \in Relays : rel[r].live /\ rel[r].src # Nil =>
             /\ rel[r].src = reserved
             /\ \E d \in RelayClients : Drives(d, r) /\ (d = Owner \/ Waits(d)))'
      BY <1>0, <1>1, <1>7, <1>8 DEF Owned, Drives, Up, Waits, Owner
    <2>3. (reserved # Nil => Owner # Nil /\ Up(Owner) /\ rel[rcl[Owner].rel].src = reserved)'
      BY <1>0, <1>1, <1>2, <1>8, <1>9, <1>11 DEF Owned, Up
    <2> QED  BY <2>1, <2>2, <2>3 DEF Owned
  <1>15. OneDriver'
    BY <1>0, <1>1 DEF OneDriver
  <1>16. Driving'
    <2> SUFFICES ASSUME NEW d \in RelayClients, Up(d)'
                 PROVE  (/\ rcl[d].rel # Nil /\ rel[rcl[d].rel].live
                         /\ rcl[d].at # "init" => rel[rcl[d].rel].src # Nil
                         /\ rcl[d].at = "init" /\ rel[rcl[d].rel].src = Nil =>
                              ~halting /\ (intree = rcl[d].rel => ~rel[intree].old /\ ~rel[intree].cleanup)
                         /\ rcl[d].at \in {"init", "start", "thread"} => ~rcl[d].con
                         /\ rcl[d].at \in {"connect", "wait"} => rcl[d].con
                         /\ rcl[d].aux # Nil => reserved # Nil /\ rsrc[reserved].sw /\ d = Owner)'
      BY DEF Driving
    <2>1. Up(d) /\ rcl[d].rel \in Relays /\ rcl[d].rel # k
      BY <1>0, <1>1, <1>9, Fields DEF Up, Driving
    <2>2. rel'[rcl'[d].rel] = rel[rcl[d].rel] /\ rcl'[d] = rcl[d]
      BY <1>1, <1>8, <2>1
    <2> QED  BY <1>0, <1>1, <1>8, <1>11, <2>1, <2>2 DEF Driving
  <1>17. RunsRight'
    BY <1>0, <1>1, <1>2, <1>7, <1>8, <1>9, <1>11, Fields DEF RunsRight, Up
  <1>18. SwitchRight'
    BY <1>0, <1>1, <1>2, <1>3 DEF SwitchRight, Waits
  <1>19. Slots' /\ Counted'
    BY <1>0, <1>1, <1>2, <1>9, <1>11 DEF Slots, Counted, RelaysFit
  <1> QED  BY <1>0, <1>10, <1>12, <1>13, <1>14, <1>15, <1>16, <1>17, <1>18, <1>19
           DEF RInv, Pointing, RelaysFit

(* detach_master_relay touches the listed relay and nothing else.          *)
LEMMA DetachedFacts ==
  ASSUME RInv, NEW g \in [Relays -> RelaySet], NEW b \in BOOLEAN
  PROVE  LET f == Detached(g, b) IN
         /\ f \in [Relays -> RelaySet]
         /\ \A r \in Relays :
              /\ (f[r].live <=> g[r].live) /\ (f[r].old <=> g[r].old)
              /\ f[r].src = g[r].src /\ f[r].new = g[r].new
              /\ (f[r].inlist <=> g[r].inlist /\ r # intree)
              /\ (f[r].cleanup <=> g[r].cleanup \/ (b /\ r = intree))
  <1> DEFINE f == Detached(g, b)
  <1>0. intree \in Relays \cup {Nil} /\ Nil \notin Relays
        /\ \A r \in Relays : g[r] \in RelaySet
    BY Types DEF RInv, Pointing, RelaysFit
  <1>1. CASE intree = Nil
    BY <1>0, <1>1 DEF Detached
  <1>2. CASE intree # Nil
    <2>1. f = [g EXCEPT ![intree] =
                 [@ EXCEPT !.inlist = FALSE, !.cleanup = g[intree].cleanup \/ b]]
      BY <1>2 DEF Detached
    <2>2. PICK w : w = f[intree]
      OBVIOUS
    <2>3. f = [g EXCEPT ![intree] = w] /\ g[intree] \in RelaySet
      BY <1>0, <1>2, <2>1, <2>2
    <2>0. w = [g[intree] EXCEPT !.inlist = FALSE, !.cleanup = g[intree].cleanup \/ b]
      BY <1>0, <1>2, <2>1, <2>2
    <2>4. w \in RelaySet
      BY <2>3, <2>0 DEF RelaySet
    <2>5. (w.live <=> g[intree].live) /\ (w.old <=> g[intree].old)
          /\ w.src = g[intree].src /\ w.new = g[intree].new
      BY <2>3, <2>0 DEF RelaySet
    <2>6. ~w.inlist /\ (w.cleanup <=> (g[intree].cleanup \/ b))
      BY <2>3, <2>0 DEF RelaySet
    <2>7. f \in [Relays -> RelaySet]
      BY <1>0, <2>3, <2>4
    <2>8. f[intree] = w /\ \A r \in Relays : r # intree => f[r] = g[r]
      BY <1>0, <1>2, <2>3
    <2> HIDE DEF f
    <2>9. \A r \in Relays :
              /\ (f[r].live <=> g[r].live) /\ (f[r].old <=> g[r].old)
              /\ f[r].src = g[r].src /\ f[r].new = g[r].new
              /\ (f[r].inlist <=> g[r].inlist /\ r # intree)
              /\ (f[r].cleanup <=> g[r].cleanup \/ (b /\ r = intree))
      <3>1. ASSUME NEW r \in Relays, r = intree
            PROVE  /\ (f[r].live <=> g[r].live) /\ (f[r].old <=> g[r].old)
                   /\ f[r].src = g[r].src /\ f[r].new = g[r].new
                   /\ (f[r].inlist <=> g[r].inlist /\ r # intree)
                   /\ (f[r].cleanup <=> g[r].cleanup \/ (b /\ r = intree))
        BY <2>5, <2>6, <2>8, <3>1
      <3>2. ASSUME NEW r \in Relays, r # intree
            PROVE  /\ (f[r].live <=> g[r].live) /\ (f[r].old <=> g[r].old)
                   /\ f[r].src = g[r].src /\ f[r].new = g[r].new
                   /\ (f[r].inlist <=> g[r].inlist /\ r # intree)
                   /\ (f[r].cleanup <=> g[r].cleanup \/ (b /\ r = intree))
        BY <2>8, <3>2
      <3> QED  BY <3>1, <3>2
    <2> QED  BY <2>7, <2>9 DEF f
  <1> QED  BY <1>1, <1>2

LEMMA SwitchConnectsStep ==
  ASSUME RInv, NEW k \in Relays, SwitchConnects(k)
  PROVE  RInv'
  <1>0. TypeOK /\ RelaysFit /\ TreeRight /\ Apart /\ Owned /\ OneDriver
        /\ Driving /\ RunsRight /\ SwitchRight /\ Slots /\ Counted
    BY DEF RInv, Pointing
  <1>1. /\ k \in switching /\ reserved # Nil /\ ~halting /\ rsrc[reserved].run
        /\ rcl[Owner].at = "read"
        /\ ~rel[rcl[Owner].rel].cleanup /\ ~rel[rcl[Owner].rel].old /\ rel[rcl[Owner].rel].new = Nil
        /\ intree' = Nil /\ switching' = switching \ {k}
        /\ relays_connecting' = relays_connecting - 1
        /\ UNCHANGED <<reserved, nsources, halting, changes>>
    BY <1>0 DEF SwitchConnects, RelaysFit, Owner
  <1>2. reserved \in RelaySources /\ Owner \in RelayClients /\ Up(Owner)
        /\ rcl[Owner].rel \in Relays /\ rel[rcl[Owner].rel].live /\ rel[rcl[Owner].rel].src = reserved
    BY <1>1, OwnerIs
  <1>3. (\A d \in RelayClients : ~Waits(d)) /\ ~rsrc[reserved].sw
    <2>1. \A d \in RelayClients : ~Waits(d)
      BY <1>0, <1>1 DEF SwitchRight
    <2> QED  BY <1>1, <2>1, OwnerIs
  <1>4. switching' = {} /\ rel[k].live /\ rel[k].src = Nil /\ rel[k].new = Nil /\ intree # k
        /\ (\A d \in RelayClients : Up(d) => rcl[d].rel # k) /\ k # Nil
        /\ \A r \in Relays : rel[r].live => rel[r].new # k
    BY <1>0, <1>1 DEF Apart, Drives, RelaysFit
  <1>5. PICK c \in RelayClients :
          /\ rcl[c].at = "none"
          /\ rcl' = [rcl EXCEPT ![c] = [NoClient EXCEPT !.at = "wait", !.rel = k,
                                                        !.con = TRUE],
                                ![Owner].aux = c]
    BY DEF SwitchConnects, FreeClients, Owner
  <1>6. rcl' \in [RelayClients -> ClientSet] /\ c # Owner /\ c # Nil
        /\ rcl'[c].at = "wait" /\ rcl'[c].rel = k /\ rcl'[c].con /\ rcl'[c].aux = Nil
        /\ rcl'[Owner].aux = c
        /\ \A d \in RelayClients : d # c =>
             /\ rcl'[d].at = rcl[d].at /\ rcl'[d].rel = rcl[d].rel
             /\ (rcl'[d].con <=> rcl[d].con)
             /\ d # Owner => rcl'[d].aux = rcl[d].aux
    <2>0. rcl \in [RelayClients -> ClientSet] /\ c # Owner /\ c # Nil
      BY <1>0, <1>2, <1>5, Types DEF Up, RelaysFit
    <2>1. PICK y : y = [NoClient EXCEPT !.at = "wait", !.rel = k, !.con = TRUE]
      OBVIOUS
    <2>2. y \in ClientSet /\ y.at = "wait" /\ y.rel = k /\ y.con /\ y.aux = Nil
      BY <2>1 DEF ClientSet, NoClient
    <2>3. PICK z : z = [rcl[Owner] EXCEPT !.aux = c]
      OBVIOUS
    <2>4. z \in ClientSet /\ z.aux = c /\ z.at = rcl[Owner].at /\ z.rel = rcl[Owner].rel
          /\ (z.con <=> rcl[Owner].con)
      BY <1>2, <2>0, <2>3 DEF ClientSet
    <2>5. PICK g : g = [rcl EXCEPT ![c] = y]
      OBVIOUS
    <2>6. g \in [RelayClients -> ClientSet] /\ g[c] = y /\ g[Owner] = rcl[Owner]
          /\ \A d \in RelayClients : d # c => g[d] = rcl[d]
      BY <1>2, <2>0, <2>2, <2>5
    <2>7. rcl' = [g EXCEPT ![Owner] = z]
      BY <1>5, <2>1, <2>3, <2>5, <2>6
    <2>8. rcl' \in [RelayClients -> ClientSet] /\ rcl'[c] = y /\ rcl'[Owner] = z
          /\ \A d \in RelayClients : d # c /\ d # Owner => rcl'[d] = rcl[d]
      BY <1>2, <2>0, <2>4, <2>6, <2>7
    <2> QED  BY <2>0, <2>2, <2>4, <2>8
  <1>7. /\ rsrc' \in [RelaySources -> SourceSet] /\ rsrc'[reserved].sw
        /\ \A t \in RelaySources :
             /\ (rsrc'[t].live <=> rsrc[t].live) /\ rsrc'[t].client = rsrc[t].client
             /\ (rsrc'[t].run <=> rsrc[t].run) /\ (rsrc'[t].term <=> rsrc[t].term)
             /\ t # reserved => (rsrc'[t].sw <=> rsrc[t].sw)
    <2>1. rsrc' = [rsrc EXCEPT ![reserved].sw = TRUE] /\ rsrc \in [RelaySources -> SourceSet]
      BY <1>0, Types DEF SwitchConnects
    <2>2. [rsrc[reserved] EXCEPT !.sw = TRUE] \in SourceSet
      <3>1. rsrc[reserved] \in SourceSet
        BY <1>2, <2>1
      <3> QED  BY <3>1 DEF SourceSet
    <2>3. rsrc' \in [RelaySources -> SourceSet]
      BY <2>1, <2>2
    <2>4. rsrc'[reserved].sw
      BY <1>2, <2>1 DEF SourceSet
    <2>5. \A t \in RelaySources :
             /\ (rsrc'[t].live <=> rsrc[t].live) /\ rsrc'[t].client = rsrc[t].client
             /\ (rsrc'[t].run <=> rsrc[t].run) /\ (rsrc'[t].term <=> rsrc[t].term)
             /\ t # reserved => (rsrc'[t].sw <=> rsrc[t].sw)
      BY <1>2, <2>1 DEF SourceSet
    <2> QED  BY <2>3, <2>4, <2>5
  <1>8. /\ rel' \in [Relays -> RelaySet] /\ rel'[k].src = reserved
        /\ \A r \in Relays :
             /\ (rel'[r].live <=> rel[r].live) /\ (rel'[r].old <=> rel[r].old)
             /\ (rel'[r].cleanup <=> rel[r].cleanup)
             /\ rel'[r].new = rel[r].new
             /\ rel[r].live => ~rel'[r].inlist
             /\ r # k => rel'[r].src = rel[r].src
    <2>1. PICK f \in [Relays -> RelaySet] :
            /\ f = Detached(rel, FALSE)
            /\ \A r \in Relays :
                 /\ (f[r].live <=> rel[r].live) /\ (f[r].old <=> rel[r].old)
                 /\ f[r].src = rel[r].src /\ f[r].new = rel[r].new
                 /\ (f[r].inlist <=> rel[r].inlist /\ r # intree)
                 /\ (f[r].cleanup <=> rel[r].cleanup)
      <3>1. rel \in [Relays -> RelaySet] /\ FALSE \in BOOLEAN
        BY <1>0, Types
      <3>2. LET f == Detached(rel, FALSE) IN
            /\ f \in [Relays -> RelaySet]
            /\ \A r \in Relays :
                 /\ (f[r].live <=> rel[r].live) /\ (f[r].old <=> rel[r].old)
                 /\ f[r].src = rel[r].src /\ f[r].new = rel[r].new
                 /\ (f[r].inlist <=> rel[r].inlist /\ r # intree)
                 /\ (f[r].cleanup <=> rel[r].cleanup \/ (FALSE /\ r = intree))
        BY <3>1, DetachedFacts
      <3> QED  BY <3>2
    <2>2. rel' = [f EXCEPT ![k] = [@ EXCEPT !.src = reserved, !.use = 1]]
      BY <2>1 DEF SwitchConnects
    <2>3. PICK w : w = [f[k] EXCEPT !.src = reserved, !.use = 1]
      OBVIOUS
    <2>4. w \in RelaySet /\ w.src = reserved /\ w.new = f[k].new
      <3>1. f[k] \in RelaySet /\ reserved \in RelaySources
        BY <1>2, <2>1
      <3>4. PICK u \in 0 .. 2 : u = 1
        OBVIOUS
      <3>5. w = [f[k] EXCEPT !.src = reserved, !.use = u]
        BY <2>3, <3>4
      <3>2. w \in RelaySet
        BY <3>1, <3>5 DEF RelaySet
      <3>3. w.src = reserved /\ w.new = f[k].new
        BY <2>3, <3>1 DEF RelaySet
      <3> QED  BY <3>2, <3>3
    <2>5. (w.live <=> f[k].live) /\ (w.old <=> f[k].old) /\ (w.inlist <=> f[k].inlist)
          /\ (w.cleanup <=> f[k].cleanup)
      BY <2>1, <2>3 DEF RelaySet
    <2>6. rel' \in [Relays -> RelaySet] /\ rel'[k] = w
          /\ \A r \in Relays : r # k => rel'[r] = f[r]
      BY <2>1, <2>2, <2>3, <2>4
    <2>7. \A r \in Relays : rel[r].live => ~f[r].inlist
      BY <1>0, <2>1 DEF TreeRight
    <2>8. ASSUME NEW r \in Relays
          PROVE  /\ (rel'[r].live <=> f[r].live) /\ (rel'[r].old <=> f[r].old)
                 /\ (rel'[r].inlist <=> f[r].inlist) /\ (rel'[r].cleanup <=> f[r].cleanup)
      BY <2>5, <2>6
    <2>9. ASSUME NEW r \in Relays
          PROVE  rel'[r].new = f[r].new /\ (r # k => rel'[r].src = f[r].src)
      BY <2>4, <2>6
    <2> QED  BY <2>1, <2>4, <2>6, <2>7, <2>8, <2>9
  <1>10. TypeOK'
    BY <1>0, <1>1, <1>4, <1>6, <1>7, <1>8, Types
  <1>11. Owner' = Owner
    BY <1>1, <1>2, <1>7 DEF Owner
  <1>12. TreeRight'
    BY <1>0, <1>1, <1>8, Fields DEF TreeRight, RelaysFit
  <1>13. Apart'
    <2>1. (\A r, q \in Relays :
             rel[r].live /\ rel[q].live /\ rel[r].new # Nil /\ rel[r].new = rel[q].new => r = q)'
      BY <1>0, <1>8 DEF Apart
    <2>2. (\A r \in Relays : rel[r].live /\ rel[r].new # Nil =>
             /\ rel[rel[r].new].live /\ rel[r].new \notin switching
             /\ \A d \in RelayClients : ~Drives(d, rel[r].new))'
      BY <1>0, <1>4, <1>6, <1>8, Fields DEF Apart, Drives, Up
    <2>3. (\A r \in Relays : rel[r].live /\ rel[r].new # Nil => rel[r].src # Nil)'
      BY <1>0, <1>4, <1>8 DEF Apart
    <2> QED  BY <1>4, <2>1, <2>2, <2>3 DEF Apart
  <1>14. Owned'
    <2>1. (\A s \in RelaySources : rsrc[s].live <=> s = reserved)'
      BY <1>0, <1>1, <1>7 DEF Owned
    <2>2. ASSUME NEW r \in Relays, (rel[r].live /\ rel[r].src # Nil)'
          PROVE  (/\ rel[r].src = reserved
                  /\ \E d \in RelayClients : Drives(d, r) /\ (d = Owner \/ Waits(d)))'
      <3>1. CASE r = k
        BY <1>1, <1>6, <1>8, <3>1 DEF Drives, Up, Waits
      <3>2. CASE r # k
        <4>1. PICK d \in RelayClients : Drives(d, r) /\ (d = Owner \/ Waits(d))
          BY <1>0, <1>8, <2>2, <3>2 DEF Owned
        <4>2. d = Owner /\ Up(d) /\ rcl[d].rel = r
          BY <1>3, <4>1 DEF Drives
        <4>3. Drives(d, r)' /\ d = Owner'
          BY <1>6, <1>11, <4>2 DEF Drives, Up
        <4>4. rel'[r].src = reserved'
          BY <1>0, <1>1, <1>8, <2>2, <3>2 DEF Owned
        <4> QED  BY <4>3, <4>4
      <3> QED  BY <3>1, <3>2
    <2>3. (reserved # Nil => Owner # Nil /\ Up(Owner) /\ rel[rcl[Owner].rel].src = reserved)'
      BY <1>0, <1>1, <1>2, <1>4, <1>6, <1>8, <1>11 DEF Owned, Up
    <2> QED  BY <2>1, <2>2, <2>3 DEF Owned
  <1>15. OneDriver'
    BY <1>0, <1>4, <1>6 DEF OneDriver, Up
  <1>16. Driving'
    <2> SUFFICES ASSUME NEW d \in RelayClients, Up(d)'
                 PROVE  (/\ rcl[d].rel # Nil /\ rel[rcl[d].rel].live
                         /\ rcl[d].at # "init" => rel[rcl[d].rel].src # Nil
                         /\ rcl[d].at = "init" /\ rel[rcl[d].rel].src = Nil =>
                              ~halting /\ (intree = rcl[d].rel => ~rel[intree].old /\ ~rel[intree].cleanup)
                         /\ rcl[d].at \in {"init", "start", "thread"} => ~rcl[d].con
                         /\ rcl[d].at \in {"connect", "wait"} => rcl[d].con
                         /\ rcl[d].aux # Nil => reserved # Nil /\ rsrc[reserved].sw /\ d = Owner)'
      BY DEF Driving
    <2>1. CASE d = c
      BY <1>1, <1>4, <1>6, <1>8, <2>1
    <2>2. CASE d # c
      <3>1. Up(d) /\ rcl[d].rel \in Relays /\ rcl[d].rel # k
        BY <1>0, <1>4, <1>6, <2>2, Fields DEF Up, Driving
      <3>2. /\ rel'[rcl'[d].rel].src = rel[rcl[d].rel].src /\ rcl'[d].rel = rcl[d].rel
            /\ rcl'[d].at = rcl[d].at
            /\ (rcl'[d].con <=> rcl[d].con) /\ (rel'[rcl'[d].rel].live <=> rel[rcl[d].rel].live)
        BY <1>6, <1>8, <2>2, <3>1
      <3>3. (rcl[d].aux # Nil => reserved # Nil /\ rsrc[reserved].sw /\ d = Owner)'
        BY <1>0, <1>1, <1>3, <1>6, <1>7, <1>11, <2>2, <3>1 DEF Driving
      <3>4. intree' # rcl'[d].rel
        BY <1>0, <1>1, <3>1, <3>2 DEF RelaysFit
      <3>5. (/\ rcl[d].rel # Nil /\ rel[rcl[d].rel].live
             /\ rcl[d].at # "init" => rel[rcl[d].rel].src # Nil
             /\ rcl[d].at = "init" /\ rel[rcl[d].rel].src = Nil => ~halting)'
        BY <1>0, <1>1, <3>1, <3>2 DEF Driving
      <3>6. (/\ rcl[d].at \in {"init", "start", "thread"} => ~rcl[d].con
             /\ rcl[d].at \in {"connect", "wait"} => rcl[d].con)'
        BY <1>0, <3>1, <3>2 DEF Driving
      <3> QED  BY <3>3, <3>4, <3>5, <3>6
    <2> QED  BY <2>1, <2>2
  <1>17. RunsRight'
    <2>1. rcl'[Owner].at = rcl[Owner].at /\ (rcl'[Owner].con <=> rcl[Owner].con)
          /\ rcl'[Owner].rel = rcl[Owner].rel
      BY <1>2, <1>6
    <2>2. (reserved # Nil /\ rsrc[reserved].run =>
             ~rsrc[reserved].term /\ rcl[Owner].con /\ rcl[Owner].at \in {"read", "wait"})'
      BY <1>0, <1>1, <1>2, <1>7, <1>11, <2>1 DEF RunsRight
    <2>3. (rcl[Owner].at = "read")'
      BY <1>1, <1>11, <2>1
    <2>4. (\A r \in Relays : rel[r].live /\ rel[r].cleanup /\ ~halting => rel[r].new = Nil)'
      BY <1>0, <1>1, <1>8 DEF RunsRight
    <2> QED  BY <2>2, <2>3, <2>4 DEF RunsRight
  <1>18. SwitchRight'
    <2>1. \A d \in RelayClients : Waits(d)' <=> d = c
      BY <1>3, <1>6 DEF Waits
    <2>2. \A s \in RelaySources : rsrc'[s].sw => s = reserved'
      BY <1>0, <1>1, <1>7 DEF SwitchRight
    <2>3. \A d \in RelayClients : Waits(d)' =>
            (/\ switching = {} /\ reserved # Nil /\ intree = Nil /\ rel[rcl[d].rel].new = Nil
             /\ Owner = d \/ (rsrc[reserved].sw /\ rcl[Owner].aux = d))'
      BY <1>1, <1>4, <1>6, <1>7, <1>8, <1>11, <2>1
    <2>4. (/\ rsrc[reserved].run /\ ~halting /\ rcl[Owner].at = "read"
           /\ ~rel[rcl[Owner].rel].cleanup /\ ~rel[rcl[Owner].rel].old
           /\ rel[rcl[Owner].rel].new = Nil)'
      BY <1>1, <1>2, <1>6, <1>7, <1>8, <1>11
    <2>5. (rcl[Owner].aux # Nil /\ Waits(rcl[Owner].aux))'
      BY <1>6, <1>11, <2>1 DEF Waits
    <2> QED  BY <2>1, <2>2, <2>3, <2>4, <2>5 DEF SwitchRight
  <1>19. Slots' /\ Counted'
    <2>1. rcl'[Owner].at = rcl[Owner].at /\ (rcl'[Owner].con <=> rcl[Owner].con)
      BY <1>2, <1>6
    <2>2. relays_connecting = 1
      BY <1>0, <1>1 DEF Slots
    <2>3. Slots'
      BY <1>0, <1>1, <1>4, <1>11, <2>1, <2>2 DEF Slots, RelaysFit
    <2>4. Counted'
      BY <1>0, <1>1, <1>11, <2>1 DEF Counted
    <2> QED  BY <2>3, <2>4
  <1> QED  BY <1>0, <1>10, <1>12, <1>13, <1>14, <1>15, <1>16, <1>17, <1>18, <1>19
           DEF RInv, Pointing, RelaysFit

(* The client that waited has the source, and its relay is listed again.   *)
LEMMA WaitEndsStep ==
  ASSUME RInv, NEW c \in RelayClients, WaitEnds(c)
  PROVE  RInv'
  <1>0. TypeOK /\ RelaysFit /\ TreeRight /\ Apart /\ Owned /\ OneDriver
        /\ Driving /\ RunsRight /\ SwitchRight /\ Slots /\ Counted
    BY DEF RInv, Pointing
  <1>1. Waits(c) /\ Up(c) /\ reserved # Nil /\ intree = Nil /\ switching = {}
        /\ rcl[c].rel \in Relays /\ rel[rcl[c].rel].live /\ rel[rcl[c].rel].new = Nil
        /\ rel[rcl[c].rel].src # Nil /\ rcl[c].con
    BY <1>0, Fields DEF WaitEnds, Waits, Up, SwitchRight, Driving
  <1>2. /\ ~rsrc[reserved].sw /\ rel' = [rel EXCEPT ![rcl[c].rel].inlist = TRUE]
        /\ intree' = rcl[c].rel /\ rcl' = [rcl EXCEPT ![c].at = "read"]
        /\ UNCHANGED <<rsrc, reserved, switching, relays_connecting, nsources, halting, changes>>
    BY <1>1 DEF WaitEnds
  <1>3. c = Owner /\ Owner' = Owner /\ reserved \in RelaySources
    BY <1>0, <1>1, <1>2, OwnerIs DEF SwitchRight, Owner
  <1>4. \A d \in RelayClients : Waits(d) => d = c
    BY <1>0, <1>1 DEF SwitchRight
  <1>5. PICK k \in Relays : k = rcl[c].rel
    BY <1>1
  <1>6. /\ rel' \in [Relays -> RelaySet] /\ rel'[k].inlist
        /\ \A r \in Relays :
             /\ (rel'[r].live <=> rel[r].live) /\ (rel'[r].old <=> rel[r].old)
             /\ (rel'[r].cleanup <=> rel[r].cleanup)
             /\ rel'[r].new = rel[r].new /\ rel'[r].src = rel[r].src
             /\ r # k => (rel'[r].inlist <=> rel[r].inlist)
    <2>1. rel' = [rel EXCEPT ![k].inlist = TRUE] /\ rel \in [Relays -> RelaySet]
      BY <1>0, <1>2, <1>5, Types
    <2>2. [rel[k] EXCEPT !.inlist = TRUE] \in RelaySet
      BY <2>1 DEF RelaySet
    <2>3. rel' \in [Relays -> RelaySet]
      BY <2>1, <2>2
    <2>4. rel'[k].inlist
      BY <2>1 DEF RelaySet
    <2>5. \A r \in Relays :
             /\ (rel'[r].live <=> rel[r].live) /\ (rel'[r].old <=> rel[r].old)
             /\ (rel'[r].cleanup <=> rel[r].cleanup)
             /\ rel'[r].new = rel[r].new /\ rel'[r].src = rel[r].src
             /\ r # k => (rel'[r].inlist <=> rel[r].inlist)
      BY <2>1 DEF RelaySet
    <2> QED  BY <2>3, <2>4, <2>5
  <1>7. /\ rcl' \in [RelayClients -> ClientSet] /\ rcl'[c].at = "read"
        /\ \A d \in RelayClients :
             /\ rcl'[d].rel = rcl[d].rel /\ rcl'[d].aux = rcl[d].aux
             /\ (rcl'[d].con <=> rcl[d].con)
             /\ d # c => rcl'[d].at = rcl[d].at
    <2>1. rcl \in [RelayClients -> ClientSet]
      BY <1>0, Types
    <2>2. [rcl[c] EXCEPT !.at = "read"] \in ClientSet
      BY <2>1 DEF ClientSet
    <2>3. rcl' \in [RelayClients -> ClientSet]
      BY <1>2, <2>1, <2>2
    <2>4. /\ rcl'[c].at = "read"
          /\ \A d \in RelayClients :
               /\ rcl'[d].rel = rcl[d].rel /\ rcl'[d].aux = rcl[d].aux
               /\ (rcl'[d].con <=> rcl[d].con)
               /\ d # c => rcl'[d].at = rcl[d].at
      BY <1>2, <2>1 DEF ClientSet
    <2> QED  BY <2>3, <2>4
  <1>8. \A d \in RelayClients : (Up(d)' <=> Up(d)) /\ ~Waits(d)'
    BY <1>1, <1>4, <1>7 DEF Up, Waits
  <1>10. TypeOK'
    BY <1>0, <1>1, <1>2, <1>6, <1>7, Types
  <1>12. TreeRight'
    BY <1>0, <1>1, <1>2, <1>5, <1>6 DEF TreeRight, RelaysFit
  <1>13. Apart'
    <2>1. (\A r, q \in Relays :
             rel[r].live /\ rel[q].live /\ rel[r].new # Nil /\ rel[r].new = rel[q].new => r = q)'
      BY <1>0, <1>6 DEF Apart
    <2>2. (\A r \in Relays : rel[r].live /\ rel[r].new # Nil =>
             /\ rel[rel[r].new].live /\ rel[r].new \notin switching
             /\ \A d \in RelayClients : ~Drives(d, rel[r].new))'
      <3> SUFFICES ASSUME NEW r \in Relays, (rel[r].live /\ rel[r].new # Nil)'
                   PROVE  (/\ rel[rel[r].new].live /\ rel[r].new \notin switching
                           /\ \A d \in RelayClients : ~Drives(d, rel[r].new))'
        OBVIOUS
      <3>1. rel[r].live /\ rel[r].new # Nil /\ rel'[r].new = rel[r].new
            /\ rel[r].new \in Relays
        BY <1>0, <1>6, Fields
      <3>2. /\ rel[rel[r].new].live /\ rel[r].new \notin switching
            /\ \A d \in RelayClients : ~Drives(d, rel[r].new)
        BY <1>0, <3>1 DEF Apart
      <3>3. rel'[rel'[r].new].live /\ rel'[r].new \notin switching'
        <4>1. PICK x \in Relays : x = rel[r].new
          BY <3>1
        <4>2. rel'[x].live /\ x \notin switching
          BY <1>6, <3>2, <4>1
        <4>3. rel'[r].new = x
          BY <3>1, <4>1
        <4>4. switching' = switching
          BY <1>2
        <4> QED  BY <4>2, <4>3, <4>4
      <3>4. ASSUME NEW d \in RelayClients PROVE ~Drives(d, rel[r].new)'
        BY <1>7, <1>8, <3>1, <3>2 DEF Drives
      <3> QED  BY <3>3, <3>4
    <2>3. (\A r \in Relays : rel[r].live /\ rel[r].new # Nil => rel[r].src # Nil)'
      BY <1>0, <1>6 DEF Apart
    <2> QED  BY <1>1, <1>2, <2>1, <2>2, <2>3 DEF Apart
  <1>14. Owned'
    <2>1. ASSUME NEW r \in Relays, (rel[r].live /\ rel[r].src # Nil)'
          PROVE  (/\ rel[r].src = reserved
                  /\ \E d \in RelayClients : Drives(d, r) /\ (d = Owner \/ Waits(d)))'
      <3>1. PICK d \in RelayClients : Drives(d, r) /\ (d = Owner \/ Waits(d))
        BY <1>0, <1>6, <2>1 DEF Owned
      <3>2. Drives(d, r)' /\ d = Owner'
        BY <1>3, <1>4, <1>7, <1>8, <3>1 DEF Drives
      <3> QED  BY <1>0, <1>2, <1>6, <2>1, <3>2 DEF Owned
    <2>2. (reserved # Nil => Owner # Nil /\ Up(Owner) /\ rel[rcl[Owner].rel].src = reserved)'
      BY <1>0, <1>1, <1>2, <1>3, <1>6, <1>7, <1>8 DEF Owned
    <2> QED  BY <1>0, <1>2, <2>1, <2>2 DEF Owned
  <1>15. OneDriver'
    BY <1>0, <1>7, <1>8 DEF OneDriver, Up
  <1>16. Driving'
    <2> SUFFICES ASSUME NEW d \in RelayClients, Up(d)'
                 PROVE  (/\ rcl[d].rel # Nil /\ rel[rcl[d].rel].live
                         /\ rcl[d].at # "init" => rel[rcl[d].rel].src # Nil
                         /\ rcl[d].at = "init" /\ rel[rcl[d].rel].src = Nil =>
                              ~halting /\ (intree = rcl[d].rel => ~rel[intree].old /\ ~rel[intree].cleanup)
                         /\ rcl[d].at \in {"init", "start", "thread"} => ~rcl[d].con
                         /\ rcl[d].at \in {"connect", "wait"} => rcl[d].con
                         /\ rcl[d].aux # Nil => reserved # Nil /\ rsrc[reserved].sw /\ d = Owner)'
      BY DEF Driving
    <2>1. Up(d) /\ rcl[d].rel \in Relays /\ (d # c => rcl[d].rel # k)
      BY <1>0, <1>1, <1>5, <1>8, Fields DEF Driving, OneDriver, Up
    <2>2. (rcl[d].aux # Nil => reserved # Nil /\ rsrc[reserved].sw /\ d = Owner)'
      BY <1>0, <1>2, <1>3, <1>7, <2>1 DEF Driving
    <2>3. (rcl[d].rel # Nil /\ rel[rcl[d].rel].live)'
      BY <1>0, <1>6, <1>7, <2>1 DEF Driving
    <2>4. CASE d = c
      BY <1>1, <1>6, <1>7, <2>2, <2>3, <2>4
    <2>5. CASE d # c
      <3>1. /\ rel'[rcl'[d].rel].src = rel[rcl[d].rel].src /\ rcl'[d].at = rcl[d].at
            /\ (rcl'[d].con <=> rcl[d].con) /\ intree' # rcl'[d].rel
        BY <1>2, <1>5, <1>6, <1>7, <2>1, <2>5
      <3>2. (/\ rcl[d].at # "init" => rel[rcl[d].rel].src # Nil
             /\ rcl[d].at = "init" /\ rel[rcl[d].rel].src = Nil =>
                  ~halting /\ (intree = rcl[d].rel => ~rel[intree].old /\ ~rel[intree].cleanup))'
        BY <1>0, <1>2, <2>1, <3>1 DEF Driving
      <3>3. (/\ rcl[d].at \in {"init", "start", "thread"} => ~rcl[d].con
             /\ rcl[d].at \in {"connect", "wait"} => rcl[d].con)'
        BY <1>0, <2>1, <3>1 DEF Driving
      <3> QED  BY <2>2, <2>3, <3>2, <3>3
    <2> QED  BY <2>4, <2>5
  <1>17. RunsRight'
    <2>1. (\A r \in Relays : rel[r].live /\ rel[r].cleanup /\ ~halting => rel[r].new = Nil)'
      BY <1>0, <1>2, <1>6 DEF RunsRight
    <2>2. (rcl[Owner].con /\ rcl[Owner].at = "read")'
      BY <1>1, <1>3, <1>7
    <2>3. (rsrc[reserved].run => ~rsrc[reserved].term)'
      BY <1>0, <1>1, <1>2 DEF RunsRight
    <2> QED  BY <2>1, <2>2, <2>3 DEF RunsRight
  <1>18. SwitchRight'
    BY <1>0, <1>2, <1>8 DEF SwitchRight
  <1>19. Slots' /\ Counted'
    <2>1. rcl[Owner].at = "wait" /\ rcl'[Owner].at = "read" /\ (rcl'[Owner].con <=> rcl[Owner].con)
      BY <1>1, <1>3, <1>7 DEF Waits
    <2> QED  BY <1>0, <1>2, <1>3, <2>1 DEF Slots, Counted
  <1> QED  BY <1>0, <1>2, <1>10, <1>12, <1>13, <1>14, <1>15, <1>16, <1>17, <1>18, <1>19
           DEF RInv, Pointing, RelaysFit

(* The source's client makes way for the one that waits for it.            *)
LEMMA SwitchedOverStep ==
  ASSUME RInv, NEW c \in RelayClients, SwitchedOver(c)
  PROVE  RInv'
  <1>0. TypeOK /\ RelaysFit /\ TreeRight /\ Apart /\ Owned /\ OneDriver
        /\ Driving /\ RunsRight /\ SwitchRight /\ Slots /\ Counted
    BY DEF RInv, Pointing
  <1>1. Up(c) /\ ~Waits(c) /\ rel[rcl[c].rel].src # Nil
    BY DEF SwitchedOver, Up, Waits
  <1>2. reserved # Nil /\ c = Owner /\ rel[rcl[c].rel].src = reserved
        /\ reserved \in RelaySources /\ rcl[c].rel \in Relays /\ rel[rcl[c].rel].live
    BY <1>1, TheOwner
  <1>3. PICK r \in Relays : r = rcl[c].rel /\ rel[r].live
    BY <1>2
  <1>4. /\ rsrc[reserved].sw
        /\ rsrc' = [rsrc EXCEPT ![reserved] = [@ EXCEPT !.sw = FALSE, !.client = rcl[c].aux]]
        /\ rcl' = [rcl EXCEPT ![c] = NoClient]
        /\ rel' = IF rel[r].inlist THEN rel ELSE [rel EXCEPT ![r] = NoRelay]
        /\ UNCHANGED <<intree, reserved, switching, relays_connecting, nsources, halting, changes>>
    BY <1>2, <1>3 DEF SwitchedOver, Switchover
  <1>5. PICK d \in RelayClients : d = rcl[c].aux
    BY <1>2, <1>4, OwnerIs
  <1>6. /\ Waits(d) /\ Up(d) /\ c # d /\ intree = Nil /\ switching = {}
        /\ rsrc[reserved].run /\ ~halting /\ rcl[c].at = "read" /\ rel[r].new = Nil
        /\ rcl[d].rel \in Relays /\ rcl[d].rel # r /\ rel[rcl[d].rel].live
        /\ rel[rcl[d].rel].src = reserved /\ rcl[d].con /\ rcl[c].con
        /\ ~rsrc[reserved].term
    <2>1. Waits(d) /\ Up(d) /\ c # d
      BY <1>1, <1>2, <1>4, <1>5, OwnerIs DEF Waits, Up
    <2>2. intree = Nil /\ switching = {} /\ rsrc[reserved].run /\ ~halting
          /\ rcl[c].at = "read" /\ rel[r].new = Nil
      BY <1>0, <1>2, <1>3, <1>4, <2>1 DEF SwitchRight
    <2>3. rcl[d].rel \in Relays /\ rel[rcl[d].rel].live /\ rel[rcl[d].rel].src # Nil /\ rcl[d].con
      BY <1>0, <2>1, Fields DEF Driving, Waits
    <2>4. rel[rcl[d].rel].src = reserved
      BY <1>0, <2>3 DEF Owned
    <2>5. rcl[d].rel # r
      BY <1>0, <1>1, <1>3, <2>1 DEF OneDriver, Up
    <2>6. rcl[c].con /\ ~rsrc[reserved].term
      BY <1>0, <1>2, <2>2 DEF RunsRight
    <2> QED  BY <2>1, <2>2, <2>3, <2>4, <2>5, <2>6
  <1>7. \A e \in RelayClients : Waits(e) => e = d
    BY <1>0, <1>6 DEF SwitchRight
  <1>8. /\ rel' \in [Relays -> RelaySet] /\ ~rel'[r].live
        /\ \A q \in Relays : q # r => rel'[q] = rel[q]
    <2>1. ~rel[r].inlist
      BY <1>0, <1>3, <1>6 DEF TreeRight, RelaysFit
    <2>2. rel' = [rel EXCEPT ![r] = NoRelay] /\ rel \in [Relays -> RelaySet] /\ NoRelay \in RelaySet
      BY <1>0, <1>4, <2>1, Empties, Types
    <2> QED  BY <2>2 DEF NoRelay
  <1>9. /\ rcl' \in [RelayClients -> ClientSet] /\ rcl'[c] = NoClient
        /\ \A e \in RelayClients : e # c => rcl'[e] = rcl[e]
    BY <1>0, <1>4, Empties, Types
  <1>10. /\ rsrc' \in [RelaySources -> SourceSet] /\ ~rsrc'[reserved].sw
         /\ rsrc'[reserved].client = d
         /\ (rsrc'[reserved].live <=> rsrc[reserved].live)
         /\ (rsrc'[reserved].run <=> rsrc[reserved].run)
         /\ (rsrc'[reserved].term <=> rsrc[reserved].term)
         /\ \A t \in RelaySources : t # reserved => rsrc'[t] = rsrc[t]
    <2>1. PICK x : x = [rsrc[reserved] EXCEPT !.sw = FALSE, !.client = d]
      OBVIOUS
    <2>2. rsrc[reserved] \in SourceSet
      BY <1>0, <1>2, Fields
    <2>3. x \in SourceSet /\ x.client = d
      BY <2>1, <2>2 DEF SourceSet
    <2>4. ~x.sw /\ (x.live <=> rsrc[reserved].live) /\ (x.run <=> rsrc[reserved].run)
          /\ (x.term <=> rsrc[reserved].term)
      BY <2>1, <2>2 DEF SourceSet
    <2>5. rsrc' = [rsrc EXCEPT ![reserved] = x] /\ rsrc \in [RelaySources -> SourceSet]
      BY <1>0, <1>4, <1>5, <2>1, Types
    <2>6. rsrc' \in [RelaySources -> SourceSet] /\ rsrc'[reserved] = x
          /\ \A t \in RelaySources : t # reserved => rsrc'[t] = rsrc[t]
      BY <1>2, <2>3, <2>5
    <2> QED  BY <2>3, <2>4, <2>6
  <1>11. /\ \A e \in RelayClients : Up(e)' <=> Up(e) /\ e # c
         /\ \A e \in RelayClients : Waits(e)' <=> e = d
    BY <1>6, <1>7, <1>9 DEF Up, Waits, NoClient
  <1>12. Owner' = d
    BY <1>4, <1>10 DEF Owner
  <1>20. TypeOK'
    BY <1>0, <1>4, <1>8, <1>9, <1>10, Types
  <1>21. TreeRight'
    BY <1>0, <1>4, <1>6, <1>8 DEF TreeRight
  <1>22. Apart'
    <2>1. (\A q, t \in Relays :
             rel[q].live /\ rel[t].live /\ rel[q].new # Nil /\ rel[q].new = rel[t].new => q = t)'
      BY <1>0, <1>8 DEF Apart
    <2>2. (\A q \in Relays : rel[q].live /\ rel[q].new # Nil =>
             /\ rel[rel[q].new].live /\ rel[q].new \notin switching
             /\ \A e \in RelayClients : ~Drives(e, rel[q].new))'
      <3> SUFFICES ASSUME NEW q \in Relays, (rel[q].live /\ rel[q].new # Nil)'
                   PROVE  (/\ rel[rel[q].new].live /\ rel[q].new \notin switching
                           /\ \A e \in RelayClients : ~Drives(e, rel[q].new))'
        OBVIOUS
      <3>1. q # r /\ rel[q].live /\ rel[q].new # Nil /\ rel'[q].new = rel[q].new
            /\ rel[q].new \in Relays
        BY <1>0, <1>8, Fields
      <3>2. /\ rel[rel[q].new].live /\ rel[q].new \notin switching
            /\ \A e \in RelayClients : ~Drives(e, rel[q].new)
        BY <1>0, <3>1 DEF Apart
      <3>3. rel[q].new # r
        BY <1>1, <1>3, <3>2 DEF Drives
      <3> QED  BY <1>4, <1>8, <1>9, <1>11, <3>1, <3>2, <3>3 DEF Drives
    <2>3. (\A q \in Relays : rel[q].live /\ rel[q].new # Nil => rel[q].src # Nil)'
      BY <1>0, <1>8 DEF Apart
    <2> QED  BY <1>4, <1>6, <2>1, <2>2, <2>3 DEF Apart
  <1>23. Owned'
    <2>1. ASSUME NEW q \in Relays, (rel[q].live /\ rel[q].src # Nil)'
          PROVE  (/\ rel[q].src = reserved
                  /\ \E e \in RelayClients : Drives(e, q) /\ (e = Owner \/ Waits(e)))'
      <3>1. q # r /\ rel'[q] = rel[q]
        BY <1>8, <2>1
      <3>2. PICK e \in RelayClients : Drives(e, q) /\ (e = Owner \/ Waits(e))
        BY <1>0, <2>1, <3>1 DEF Owned
      <3>3. e # c
        BY <1>3, <3>1, <3>2 DEF Drives
      <3>4. Drives(e, q)' /\ Waits(e)'
        BY <1>2, <1>7, <1>9, <1>11, <3>2, <3>3 DEF Drives
      <3>5. rel'[q].src = reserved'
        BY <1>0, <1>4, <2>1, <3>1 DEF Owned
      <3> QED  BY <3>4, <3>5
    <2>2. (reserved # Nil => Owner # Nil /\ Up(Owner) /\ rel[rcl[Owner].rel].src = reserved)'
      BY <1>0, <1>4, <1>6, <1>8, <1>9, <1>11, <1>12 DEF RelaysFit
    <2>3. (\A s \in RelaySources : rsrc[s].live <=> s = reserved)'
      BY <1>0, <1>4, <1>10 DEF Owned
    <2> QED  BY <2>1, <2>2, <2>3 DEF Owned
  <1>24. OneDriver'
    BY <1>0, <1>9, <1>11 DEF OneDriver, Up
  <1>25. Driving'
    <2> SUFFICES ASSUME NEW e \in RelayClients, Up(e)'
                 PROVE  (/\ rcl[e].rel # Nil /\ rel[rcl[e].rel].live
                         /\ rcl[e].at # "init" => rel[rcl[e].rel].src # Nil
                         /\ rcl[e].at = "init" /\ rel[rcl[e].rel].src = Nil =>
                              ~halting /\ (intree = rcl[e].rel => ~rel[intree].old /\ ~rel[intree].cleanup)
                         /\ rcl[e].at \in {"init", "start", "thread"} => ~rcl[e].con
                         /\ rcl[e].at \in {"connect", "wait"} => rcl[e].con
                         /\ rcl[e].aux # Nil => reserved # Nil /\ rsrc[reserved].sw /\ e = Owner)'
      BY DEF Driving
    <2>1. Up(e) /\ e # c /\ rcl'[e] = rcl[e]
      BY <1>9, <1>11
    <2>2. rcl[e].rel \in Relays /\ rcl[e].rel # r
      BY <1>0, <1>1, <1>3, <2>1, Fields DEF Driving, OneDriver, Up
    <2>3. rel'[rcl'[e].rel] = rel[rcl[e].rel] /\ intree' = Nil /\ rcl[e].rel # Nil
      BY <1>0, <1>4, <1>6, <1>8, <2>1, <2>2 DEF RelaysFit
    <2>4. rcl[e].aux = Nil
      BY <1>0, <1>2, <2>1 DEF Driving
    <2> QED  BY <1>0, <1>4, <2>1, <2>3, <2>4 DEF Driving
  <1>26. RunsRight'
    <2>1. (\A q \in Relays : rel[q].live /\ rel[q].cleanup /\ ~halting => rel[q].new = Nil)'
      BY <1>0, <1>4, <1>8 DEF RunsRight
    <2>2. (rcl[Owner].con /\ rcl[Owner].at = "wait" /\ ~rsrc[reserved].term)'
      BY <1>4, <1>6, <1>9, <1>10, <1>12 DEF Waits
    <2> QED  BY <2>1, <2>2 DEF RunsRight
  <1>27. SwitchRight'
    <2>1. (\A s \in RelaySources : rsrc[s].sw => s = reserved)'
      BY <1>0, <1>4, <1>10 DEF SwitchRight
    <2>2. rel'[rcl'[d].rel].new = Nil
      BY <1>0, <1>6, <1>8, <1>9 DEF SwitchRight
    <2> QED  BY <1>2, <1>4, <1>6, <1>10, <1>11, <1>12, <2>1, <2>2 DEF SwitchRight
  <1>28. Slots' /\ Counted'
    <2>1. (rcl[Owner].con /\ rcl[Owner].at = "wait")'
      BY <1>6, <1>9, <1>12 DEF Waits
    <2> QED  BY <1>0, <1>2, <1>4, <1>6, <2>1 DEF Slots, Counted
  <1> QED  BY <1>0, <1>4, <1>20, <1>21, <1>22, <1>23, <1>24, <1>25, <1>26, <1>27, <1>28
           DEF RInv, Pointing, RelaysFit

(* A relay goes with its client and whatever source it had, and may take   *)
(* what is listed off the tree.                                            *)
Left(c) ==
  /\ rcl' = [rcl EXCEPT ![c] = NoClient]
  /\ rel' \in [Relays -> RelaySet] /\ ~rel'[rcl[c].rel].live
  /\ intree' \in {Nil, intree} /\ intree' # rcl[c].rel
  /\ \A q \in Relays : q # rcl[c].rel =>
       /\ (rel'[q].live <=> rel[q].live) /\ (rel'[q].old <=> rel[q].old)
       /\ rel'[q].src = rel[q].src /\ rel'[q].new = rel[q].new
       /\ rel[q].live => (rel'[q].inlist <=> intree' = q)
       /\ (rel'[q].cleanup <=> rel[q].cleanup \/ (q = intree /\ intree' = Nil))
  /\ UNCHANGED <<switching, relays_connecting, halting, changes>>

LEMMA GoneClient ==
  ASSUME RInv, NEW c \in RelayClients, Up(c), ~Waits(c), Left(c)
  PROVE  /\ rcl[c].rel \in Relays /\ rel[rcl[c].rel].live
         /\ rcl' \in [RelayClients -> ClientSet]
         /\ \A e \in RelayClients : e # c => rcl'[e] = rcl[e]
         /\ \A e \in RelayClients : (Up(e)' <=> Up(e) /\ e # c) /\ (Waits(e)' <=> Waits(e))
         /\ \A e \in RelayClients : Up(e) /\ e # c => rcl[e].rel \in Relays /\ rcl[e].rel # rcl[c].rel
         /\ \A q \in Relays : rel[q].live => rel[q].new # rcl[c].rel
  <1>0. TypeOK /\ RelaysFit /\ Apart /\ OneDriver /\ Driving
    BY DEF RInv, Pointing
  <1>1. rcl[c].rel \in Relays /\ rel[rcl[c].rel].live
    BY <1>0, Fields DEF Driving
  <1>2. rcl' \in [RelayClients -> ClientSet] /\ rcl'[c] = NoClient
        /\ \A e \in RelayClients : e # c => rcl'[e] = rcl[e]
    BY <1>0, Empties, Types DEF Left
  <1>3. \A e \in RelayClients : (Up(e)' <=> Up(e) /\ e # c) /\ (Waits(e)' <=> Waits(e))
    BY <1>2 DEF Up, Waits, NoClient
  <1>4. \A e \in RelayClients : Up(e) /\ e # c => rcl[e].rel \in Relays /\ rcl[e].rel # rcl[c].rel
    BY <1>0, Fields DEF Driving, OneDriver, Up
  <1>5. \A q \in Relays : rel[q].live => rel[q].new # rcl[c].rel
    BY <1>0, <1>1 DEF Apart, Drives, RelaysFit
  <1> QED  BY <1>1, <1>2, <1>3, <1>4, <1>5

LEMMA GonePointers ==
  ASSUME RInv, NEW c \in RelayClients, Up(c), ~Waits(c), Left(c)
  PROVE  /\ TreeRight' /\ Apart' /\ OneDriver'
         /\ \A r \in Relays : (rel[r].live /\ rel[r].cleanup /\ ~halting => rel[r].new = Nil)'
  <1>0. TypeOK /\ RelaysFit /\ TreeRight /\ Apart /\ OneDriver /\ RunsRight
    BY DEF RInv, Pointing
  <1>1. PICK r \in Relays : r = rcl[c].rel /\ rel[r].live
    BY GoneClient
  <1>2. ~rel'[r].live /\ intree' \in {Nil, intree} /\ intree' # r /\ switching' = switching
        /\ halting' = halting
        /\ \A q \in Relays : q # r =>
             /\ (rel'[q].live <=> rel[q].live) /\ (rel'[q].old <=> rel[q].old)
             /\ rel'[q].src = rel[q].src /\ rel'[q].new = rel[q].new
             /\ rel[q].live => (rel'[q].inlist <=> intree' = q)
             /\ (rel'[q].cleanup <=> rel[q].cleanup \/ (q = intree /\ intree' = Nil))
    BY <1>1 DEF Left
  <1>3. /\ \A e \in RelayClients : e # c => rcl'[e] = rcl[e]
        /\ \A e \in RelayClients : (Up(e)' <=> Up(e) /\ e # c)
        /\ \A q \in Relays : rel[q].live => rel[q].new # r
    BY <1>1, GoneClient
  <1>4. TreeRight'
    <2>1. (intree # Nil => rel[intree].live /\ rel[intree].new = Nil)'
      BY <1>0, <1>2, Fields DEF TreeRight
    <2>2. (\A q \in Relays : rel[q].live => (rel[q].inlist <=> intree = q))'
      BY <1>2
    <2> QED  BY <2>1, <2>2 DEF TreeRight
  <1>5. Apart'
    <2>1. (\A q, t \in Relays :
             rel[q].live /\ rel[t].live /\ rel[q].new # Nil /\ rel[q].new = rel[t].new => q = t)'
      BY <1>0, <1>2 DEF Apart
    <2>2. (\A q \in Relays : rel[q].live /\ rel[q].new # Nil =>
             /\ rel[rel[q].new].live /\ rel[q].new \notin switching
             /\ \A e \in RelayClients : ~Drives(e, rel[q].new))'
      <3> SUFFICES ASSUME NEW q \in Relays, (rel[q].live /\ rel[q].new # Nil)'
                   PROVE  (/\ rel[rel[q].new].live /\ rel[q].new \notin switching
                           /\ \A e \in RelayClients : ~Drives(e, rel[q].new))'
        OBVIOUS
      <3>1. q # r /\ rel[q].live /\ rel[q].new # Nil /\ rel'[q].new = rel[q].new
            /\ rel[q].new \in Relays
        BY <1>0, <1>2, Fields
      <3>2. /\ rel[rel[q].new].live /\ rel[q].new \notin switching
            /\ \A e \in RelayClients : ~Drives(e, rel[q].new)
        BY <1>0, <3>1 DEF Apart
      <3>3. rel[q].new # r
        BY <1>3, <3>1
      <3> QED  BY <1>2, <1>3, <3>1, <3>2, <3>3 DEF Drives
    <2>3. (\A k \in switching :
             /\ rel[k].live /\ rel[k].src = Nil /\ rel[k].new = Nil /\ intree # k
             /\ \A e \in RelayClients : ~Drives(e, k))'
      <3> SUFFICES ASSUME NEW k \in switching
                   PROVE  (/\ rel[k].live /\ rel[k].src = Nil /\ rel[k].new = Nil /\ intree # k
                           /\ \A e \in RelayClients : ~Drives(e, k))'
        BY <1>2
      <3>1. /\ rel[k].live /\ rel[k].src = Nil /\ rel[k].new = Nil /\ intree # k /\ k \in Relays
            /\ \A e \in RelayClients : ~Drives(e, k)
        BY <1>0, Fields DEF Apart
      <3>2. k # r /\ k # Nil
        BY <1>0, <1>1, <3>1 DEF Drives, RelaysFit
      <3> QED  BY <1>2, <1>3, <3>1, <3>2 DEF Drives
    <2>4. (\A j, k \in switching : j = k)'
      BY <1>0, <1>2 DEF Apart
    <2>5. (\A q \in Relays : rel[q].live /\ rel[q].new # Nil => rel[q].src # Nil)'
      BY <1>0, <1>2 DEF Apart
    <2> QED  BY <2>1, <2>2, <2>3, <2>4, <2>5 DEF Apart
  <1>6. OneDriver'
    BY <1>0, <1>3 DEF OneDriver, Up
  <1>7. ASSUME NEW q \in Relays
        PROVE  (rel[q].live /\ rel[q].cleanup /\ ~halting => rel[q].new = Nil)'
    <2>1. CASE q = r
      BY <1>2, <2>1
    <2>2. CASE q # r
      <3>1. rel'[q].live /\ rel'[q].cleanup /\ ~halting => rel[q].new = Nil
        BY <1>0, <1>2, <2>2 DEF RunsRight, TreeRight, RelaysFit
      <3> QED  BY <1>2, <2>2, <3>1
    <2> QED  BY <2>1, <2>2
  <1> QED  BY <1>4, <1>5, <1>6, <1>7

LEMMA GoneDriving ==
  ASSUME RInv, NEW c \in RelayClients, Up(c), ~Waits(c), Left(c), NEW e \in RelayClients, Up(e)'
  PROVE  /\ (/\ rcl[e].rel # Nil /\ rel[rcl[e].rel].live
             /\ rcl[e].at # "init" => rel[rcl[e].rel].src # Nil
             /\ rcl[e].at = "init" /\ rel[rcl[e].rel].src = Nil =>
                  ~halting /\ (intree = rcl[e].rel => ~rel[intree].old /\ ~rel[intree].cleanup)
             /\ rcl[e].at \in {"init", "start", "thread"} => ~rcl[e].con
             /\ rcl[e].at \in {"connect", "wait"} => rcl[e].con)'
         /\ Up(e) /\ e # c /\ rcl'[e].aux = rcl[e].aux
  <1>0. TypeOK /\ RelaysFit /\ Driving
    BY DEF RInv, Pointing
  <1>1. Up(e) /\ e # c /\ rcl'[e] = rcl[e] /\ rcl[e].rel \in Relays /\ rcl[e].rel # rcl[c].rel
    BY GoneClient
  <1>2. /\ (rel'[rcl'[e].rel].live <=> rel[rcl[e].rel].live)
        /\ (rel'[rcl'[e].rel].old <=> rel[rcl[e].rel].old)
        /\ rel'[rcl'[e].rel].src = rel[rcl[e].rel].src
        /\ intree' = rcl[e].rel => (rel'[rcl'[e].rel].cleanup <=> rel[rcl[e].rel].cleanup)
        /\ intree' \in {Nil, intree} /\ halting' = halting /\ rcl[e].rel # Nil
    BY <1>0, <1>1 DEF Left, RelaysFit
  <1> QED  BY <1>0, <1>1, <1>2 DEF Driving

(* One without a source.                                                   *)
LEMMA GoesAlone ==
  ASSUME RInv, NEW c \in RelayClients, Up(c), ~Waits(c), Left(c), rel[rcl[c].rel].src = Nil,
         UNCHANGED <<rsrc, reserved, nsources>>
  PROVE  RInv'
  <1>0. TypeOK /\ RelaysFit /\ TreeRight /\ Apart /\ Owned /\ OneDriver
        /\ Driving /\ RunsRight /\ SwitchRight /\ Slots /\ Counted
    BY DEF RInv, Pointing
  <1>1. PICK r \in Relays : r = rcl[c].rel /\ rel[r].live
    BY GoneClient
  <1>2. /\ ~rel'[r].live /\ intree' \in {Nil, intree}
        /\ \A q \in Relays : q # r =>
             /\ (rel'[q].live <=> rel[q].live) /\ (rel'[q].old <=> rel[q].old)
             /\ rel'[q].src = rel[q].src /\ rel'[q].new = rel[q].new
             /\ (rel'[q].cleanup <=> rel[q].cleanup \/ (q = intree /\ intree' = Nil))
        /\ UNCHANGED <<switching, relays_connecting, halting, changes>>
        /\ rel' \in [Relays -> RelaySet]
    BY <1>1 DEF Left
  <1>3. /\ rcl' \in [RelayClients -> ClientSet]
        /\ \A e \in RelayClients : e # c => rcl'[e] = rcl[e]
        /\ \A e \in RelayClients : (Up(e)' <=> Up(e) /\ e # c) /\ (Waits(e)' <=> Waits(e))
        /\ \A e \in RelayClients : Up(e) /\ e # c => rcl[e].rel \in Relays /\ rcl[e].rel # r
    BY <1>1, GoneClient
  <1>4. TypeOK'
    BY <1>0, <1>2, <1>3, Types
  <1>5. Owner' = Owner
    BY DEF Owner
  <1>6. reserved # Nil => /\ Owner # c /\ Owner \in RelayClients /\ Up(Owner)
                          /\ rcl[Owner].rel \in Relays /\ rcl[Owner].rel # r
                          /\ rcl'[Owner] = rcl[Owner] /\ rel[rcl[Owner].rel].src = reserved
    BY <1>0, <1>1, <1>3, OwnerIs DEF RelaysFit
  <1>7. Owned'
    <2>1. ASSUME NEW q \in Relays, (rel[q].live /\ rel[q].src # Nil)'
          PROVE  (/\ rel[q].src = reserved
                  /\ \E e \in RelayClients : Drives(e, q) /\ (e = Owner \/ Waits(e)))'
      <3>1. q # r /\ rel[q].live /\ rel[q].src # Nil /\ rel'[q].src = rel[q].src
        BY <1>2, <2>1
      <3>2. PICK e \in RelayClients : Drives(e, q) /\ (e = Owner \/ Waits(e))
        BY <1>0, <3>1 DEF Owned
      <3>3. e # c
        BY <1>1, <3>1, <3>2 DEF Drives
      <3>4. Drives(e, q)' /\ (e = Owner' \/ Waits(e)')
        BY <1>3, <1>5, <3>2, <3>3 DEF Drives
      <3> QED  BY <1>0, <3>1, <3>4 DEF Owned
    <2>2. (reserved # Nil => Owner # Nil /\ Up(Owner) /\ rel[rcl[Owner].rel].src = reserved)'
      BY <1>0, <1>2, <1>3, <1>5, <1>6 DEF RelaysFit
    <2> QED  BY <1>0, <2>1, <2>2 DEF Owned
  <1>8. Driving'
    <2> SUFFICES ASSUME NEW e \in RelayClients, Up(e)'
                 PROVE  (/\ rcl[e].rel # Nil /\ rel[rcl[e].rel].live
                         /\ rcl[e].at # "init" => rel[rcl[e].rel].src # Nil
                         /\ rcl[e].at = "init" /\ rel[rcl[e].rel].src = Nil =>
                              ~halting /\ (intree = rcl[e].rel => ~rel[intree].old /\ ~rel[intree].cleanup)
                         /\ rcl[e].at \in {"init", "start", "thread"} => ~rcl[e].con
                         /\ rcl[e].at \in {"connect", "wait"} => rcl[e].con
                         /\ rcl[e].aux # Nil => reserved # Nil /\ rsrc[reserved].sw /\ e = Owner)'
      BY DEF Driving
    <2>1. Up(e) /\ rcl'[e].aux = rcl[e].aux
      BY GoneDriving
    <2>2. (rcl[e].aux # Nil => reserved # Nil /\ rsrc[reserved].sw /\ e = Owner)'
      BY <1>0, <1>5, <2>1 DEF Driving
    <2> QED  BY <2>2, GoneDriving
  <1>9. RunsRight'
    <2>1. \A q \in Relays : (rel[q].live /\ rel[q].cleanup /\ ~halting => rel[q].new = Nil)'
      BY GonePointers
    <2>2. reserved # Nil => (rel[rcl[Owner].rel].cleanup => rel'[rcl'[Owner].rel].cleanup)
      BY <1>2, <1>6
    <2>3. (/\ reserved # Nil /\ rsrc[reserved].run =>
                ~rsrc[reserved].term /\ rcl[Owner].con /\ rcl[Owner].at \in {"read", "wait"}
           /\ reserved # Nil /\ rsrc[reserved].term =>
                \/ rcl[Owner].at = "read"
                \/ rcl[Owner].at = "init" /\ (halting \/ rel[rcl[Owner].rel].cleanup))'
      BY <1>0, <1>2, <1>5, <1>6, <2>2 DEF RunsRight
    <2> QED  BY <2>1, <2>3 DEF RunsRight
  <1>10. SwitchRight'
    <2>1. (\A d, e \in RelayClients : Waits(d) /\ Waits(e) => d = e)'
      BY <1>0, <1>3 DEF SwitchRight
    <2>2. ASSUME NEW e \in RelayClients, Waits(e)'
          PROVE  (/\ switching = {} /\ reserved # Nil /\ intree = Nil /\ rel[rcl[e].rel].new = Nil
                  /\ Owner = e \/ (rsrc[reserved].sw /\ rcl[Owner].aux = e))'
      <3>1. Waits(e) /\ Up(e) /\ e # c
        BY <1>3, <2>2 DEF Waits, Up
      <3>2. /\ switching = {} /\ reserved # Nil /\ intree = Nil /\ rel[rcl[e].rel].new = Nil
            /\ Owner = e \/ (rsrc[reserved].sw /\ rcl[Owner].aux = e)
        BY <1>0, <3>1 DEF SwitchRight
      <3>3. rel'[rcl'[e].rel].new = Nil
        BY <1>2, <1>3, <3>1, <3>2
      <3> QED  BY <1>2, <1>5, <1>6, <3>2, <3>3
    <2>3. ASSUME reserved # Nil, rsrc[reserved].sw
          PROVE  (/\ rsrc[reserved].run /\ ~halting /\ rcl[Owner].at = "read"
                  /\ ~rel[rcl[Owner].rel].cleanup /\ ~rel[rcl[Owner].rel].old
                  /\ rel[rcl[Owner].rel].new = Nil
                  /\ rcl[Owner].aux # Nil /\ Waits(rcl[Owner].aux))'
      <3>1. /\ rsrc[reserved].run /\ ~halting /\ rcl[Owner].at = "read"
            /\ ~rel[rcl[Owner].rel].cleanup /\ ~rel[rcl[Owner].rel].old
            /\ rel[rcl[Owner].rel].new = Nil
        BY <1>0, <2>3 DEF SwitchRight
      <3>2. rcl[Owner].aux \in RelayClients /\ Waits(rcl[Owner].aux)
        BY <2>3, OwnerIs
      <3>3. intree = Nil
        BY <1>0, <3>2 DEF SwitchRight
      <3>4. LET q == rcl[Owner].rel IN
            /\ rcl'[Owner] = rcl[Owner] /\ (rel'[q].cleanup <=> rel[q].cleanup)
            /\ (rel'[q].old <=> rel[q].old) /\ rel'[q].new = rel[q].new
        BY <1>0, <1>2, <1>6, <2>3, <3>3 DEF RelaysFit
      <3>5. Waits(rcl[Owner].aux)' /\ rcl[Owner].aux # Nil
        BY <1>0, <1>3, <1>5, <3>2, <3>4 DEF RelaysFit, Waits
      <3> QED  BY <1>2, <1>5, <3>1, <3>4, <3>5
    <2> QED  BY <1>0, <2>1, <2>2, <2>3 DEF SwitchRight
  <1>11. Slots' /\ Counted'
    BY <1>0, <1>2, <1>5, <1>6 DEF Slots, Counted
  <1>12. TreeRight' /\ Apart' /\ OneDriver'
    BY GonePointers
  <1> QED  BY <1>0, <1>4, <1>7, <1>8, <1>9, <1>10, <1>11, <1>12 DEF RInv, Pointing, RelaysFit

(* The source's client, with the source; no client waits for it.           *)
LEMMA GoesWithSource ==
  ASSUME RInv, NEW c \in RelayClients, Up(c), ~Waits(c), Left(c),
         rel[rcl[c].rel].src # Nil, ~rsrc[reserved].sw,
         rcl[c].at \notin {"thread", "connect"},
         rsrc' = [rsrc EXCEPT ![reserved] = NoSource], reserved' = Nil,
         nsources' = nsources - (IF rcl[c].con THEN 1 ELSE 0)
  PROVE  RInv'
  <1>0. TypeOK /\ RelaysFit /\ TreeRight /\ Apart /\ Owned /\ OneDriver
        /\ Driving /\ RunsRight /\ SwitchRight /\ Slots /\ Counted
    BY DEF RInv, Pointing
  <1>1. PICK r \in Relays : r = rcl[c].rel /\ rel[r].live
    BY GoneClient
  <1>2. /\ ~rel'[r].live /\ intree' \in {Nil, intree}
        /\ \A q \in Relays : q # r =>
             /\ (rel'[q].live <=> rel[q].live) /\ rel'[q].src = rel[q].src
        /\ UNCHANGED <<switching, relays_connecting, halting, changes>>
        /\ rel' \in [Relays -> RelaySet]
    BY <1>1 DEF Left
  <1>3. /\ rcl' \in [RelayClients -> ClientSet]
        /\ \A e \in RelayClients : (Up(e)' <=> Up(e) /\ e # c) /\ (Waits(e)' <=> Waits(e))
    BY <1>1, GoneClient
  <1>4. c = Owner /\ reserved # Nil /\ reserved \in RelaySources
    BY TheOwner
  <1>5. \A e \in RelayClients : ~Waits(e)
    BY <1>0, <1>4 DEF SwitchRight
  <1>6. /\ rsrc' \in [RelaySources -> SourceSet]
        /\ \A s \in RelaySources : ~rsrc'[s].live /\ ~rsrc'[s].sw
    <2>1. rsrc' \in [RelaySources -> SourceSet] /\ rsrc'[reserved] = NoSource
          /\ \A s \in RelaySources : s # reserved => rsrc'[s] = rsrc[s]
      BY <1>0, <1>4, Empties, Types
    <2>2. ~NoSource.live /\ ~NoSource.sw
      BY DEF NoSource
    <2>3. \A s \in RelaySources : s # reserved => ~rsrc[s].live /\ ~rsrc[s].sw
      BY <1>0 DEF Owned, SwitchRight
    <2> QED  BY <2>1, <2>2, <2>3
  <1>7. TypeOK'
    BY <1>0, <1>2, <1>3, <1>6, Types
  <1>8. Owned'
    <2>1. ASSUME NEW q \in Relays, (rel[q].live /\ rel[q].src # Nil)'
          PROVE  FALSE
      <3>1. q # r /\ rel[q].live /\ rel[q].src # Nil
        BY <1>2, <2>1
      <3>2. PICK e \in RelayClients : Drives(e, q) /\ (e = Owner \/ Waits(e))
        BY <1>0, <3>1 DEF Owned
      <3> QED  BY <1>1, <1>4, <1>5, <3>1, <3>2 DEF Drives
    <2> QED  BY <1>0, <1>6, <2>1 DEF Owned, RelaysFit
  <1>9. Driving'
    <2> SUFFICES ASSUME NEW e \in RelayClients, Up(e)'
                 PROVE  (/\ rcl[e].rel # Nil /\ rel[rcl[e].rel].live
                         /\ rcl[e].at # "init" => rel[rcl[e].rel].src # Nil
                         /\ rcl[e].at = "init" /\ rel[rcl[e].rel].src = Nil =>
                              ~halting /\ (intree = rcl[e].rel => ~rel[intree].old /\ ~rel[intree].cleanup)
                         /\ rcl[e].at \in {"init", "start", "thread"} => ~rcl[e].con
                         /\ rcl[e].at \in {"connect", "wait"} => rcl[e].con
                         /\ rcl[e].aux # Nil => reserved # Nil /\ rsrc[reserved].sw /\ e = Owner)'
      BY DEF Driving
    <2>1. Up(e) /\ e # c /\ rcl'[e].aux = rcl[e].aux
      BY GoneDriving
    <2>2. rcl'[e].aux = Nil
      BY <1>0, <1>4, <2>1 DEF Driving
    <2> QED  BY <2>2, GoneDriving
  <1>10. RunsRight'
    <2>1. \A q \in Relays : (rel[q].live /\ rel[q].cleanup /\ ~halting => rel[q].new = Nil)'
      BY GonePointers
    <2> QED  BY <2>1 DEF RunsRight
  <1>11. SwitchRight'
    BY <1>0, <1>3, <1>5, <1>6 DEF SwitchRight
  <1>12. Slots'
    BY <1>0, <1>2, <1>4 DEF Slots
  <1>13. Counted'
    <2>1. nsources' = 0
      BY <1>0, <1>4 DEF Counted
    <2> QED  BY <2>1 DEF Counted
  <1>14. TreeRight' /\ Apart' /\ OneDriver'
    BY GonePointers
  <1> QED  BY <1>0, <1>7, <1>8, <1>9, <1>10, <1>11, <1>12, <1>13, <1>14 DEF RInv, Pointing, RelaysFit

LEMMA LeavesStep ==
  ASSUME RInv, NEW c \in RelayClients, Leaves(c)
  PROVE  RInv'
  <1>0. TypeOK /\ RelaysFit /\ Driving /\ TreeRight
    BY DEF RInv, Pointing
  <1>1. Up(c) /\ ~Waits(c) /\ rel[rcl[c].rel].src = Nil
    BY DEF Leaves, Up, Waits
  <1>2. PICK r \in Relays : r = rcl[c].rel /\ rel[r].live
    BY <1>0, <1>1, Fields DEF Driving
  <1>3. rcl[c].at = "init" /\ (halting \/ rel[r].cleanup)
    BY <1>0, <1>1, <1>2 DEF Leaves, Driving
  <1>4. intree # r
    BY <1>0, <1>1, <1>2, <1>3 DEF Driving
  <1>5. /\ rel' = [rel EXCEPT ![r] = NoRelay] /\ rcl' = [rcl EXCEPT ![c] = NoClient]
        /\ UNCHANGED <<rsrc, reserved, intree, switching, relays_connecting, nsources, halting,
                       changes>>
    BY <1>1, <1>2 DEF Leaves, Release
  <1>6. /\ rel' \in [Relays -> RelaySet] /\ ~rel'[r].live
        /\ \A q \in Relays : q # r => rel'[q] = rel[q]
    BY <1>0, <1>5, Empties, Types DEF NoRelay
  <1>7. Left(c)
    <2>1. \A q \in Relays : q # r /\ rel[q].live => (rel'[q].inlist <=> intree' = q)
      BY <1>0, <1>5, <1>6 DEF TreeRight
    <2>2. ASSUME NEW q \in Relays PROVE ~(q = intree /\ intree' = Nil)
      BY <1>0, <1>5 DEF RelaysFit
    <2> QED  BY <1>2, <1>4, <1>5, <1>6, <2>1, <2>2 DEF Left
  <1> QED  BY <1>1, <1>5, <1>7, GoesAlone

(* A record of relays with the relay of c taken out, and what is listed    *)
(* detached if it is to be.                                                *)
LEMMA TakenOut ==
  ASSUME RInv, NEW c \in RelayClients, Up(c), ~Waits(c),
         rel' = [Detached(rel, TRUE) EXCEPT ![rcl[c].rel] = NoRelay], intree' = Nil,
         rcl' = [rcl EXCEPT ![c] = NoClient],
         UNCHANGED <<switching, relays_connecting, halting, changes>>
  PROVE  Left(c)
  <1>0. TypeOK /\ RelaysFit /\ Driving /\ TreeRight
    BY DEF RInv, Pointing
  <1>1. PICK r \in Relays : r = rcl[c].rel /\ rel[r].live
    BY <1>0, Fields DEF Driving
  <1>2. rel \in [Relays -> RelaySet] /\ TRUE \in BOOLEAN
    BY <1>0, Types
  <1>3. LET f == Detached(rel, TRUE) IN
        /\ f \in [Relays -> RelaySet]
        /\ \A q \in Relays :
             /\ (f[q].live <=> rel[q].live) /\ (f[q].old <=> rel[q].old)
             /\ f[q].src = rel[q].src /\ f[q].new = rel[q].new
             /\ (f[q].inlist <=> rel[q].inlist /\ q # intree)
             /\ (f[q].cleanup <=> rel[q].cleanup \/ (TRUE /\ q = intree))
    BY <1>2, DetachedFacts
  <1>4. PICK f : f = Detached(rel, TRUE)
    OBVIOUS
  <1>5. /\ f \in [Relays -> RelaySet]
        /\ \A q \in Relays :
             /\ (f[q].live <=> rel[q].live) /\ (f[q].old <=> rel[q].old)
             /\ f[q].src = rel[q].src /\ f[q].new = rel[q].new
             /\ (f[q].inlist <=> rel[q].inlist /\ q # intree)
             /\ (f[q].cleanup <=> rel[q].cleanup \/ (TRUE /\ q = intree))
    BY <1>3, <1>4
  <1>6. /\ rel' \in [Relays -> RelaySet] /\ ~rel'[r].live
        /\ \A q \in Relays : q # r => rel'[q] = f[q]
    BY <1>0, <1>1, <1>4, <1>5, Empties DEF NoRelay
  <1>7. \A q \in Relays : rel[q].live => ~f[q].inlist
    BY <1>0, <1>5 DEF TreeRight
  <1>8. \A q \in Relays : q # Nil
    BY <1>0 DEF RelaysFit
  <1>9. ASSUME NEW q \in Relays, q # r
        PROVE  /\ (rel'[q].live <=> rel[q].live) /\ (rel'[q].old <=> rel[q].old)
               /\ rel'[q].src = rel[q].src /\ rel'[q].new = rel[q].new
               /\ rel[q].live => (rel'[q].inlist <=> intree' = q)
               /\ (rel'[q].cleanup <=> rel[q].cleanup \/ (q = intree /\ intree' = Nil))
    <2>1. rel'[q] = f[q] /\ intree' = Nil /\ q # Nil
      BY <1>6, <1>8, <1>9
    <2>2. rel'[q].src = rel[q].src /\ rel'[q].new = rel[q].new
      BY <1>5, <2>1
    <2>3. (rel'[q].live <=> rel[q].live) /\ (rel'[q].old <=> rel[q].old)
      BY <1>5, <2>1
    <2>4. rel[q].live => (rel'[q].inlist <=> intree' = q)
      BY <1>7, <2>1
    <2>5. rel'[q].cleanup <=> rel[q].cleanup \/ (q = intree /\ intree' = Nil)
      BY <1>5, <2>1
    <2> QED  BY <2>2, <2>3, <2>4, <2>5
  <1> QED  BY <1>1, <1>6, <1>8, <1>9 DEF Left

LEMMA CloseDownStep ==
  ASSUME RInv, NEW c \in RelayClients, CloseDown(c)
  PROVE  RInv'
  <1>0. TypeOK /\ RelaysFit /\ Driving /\ TreeRight /\ Closing(c)
    BY DEF RInv, Pointing, CloseDown
  <1>1. Up(c) /\ ~Waits(c) /\ rel[rcl[c].rel].src # Nil
        /\ reserved # Nil /\ c = Owner /\ ~rsrc[reserved].sw
        /\ rcl[c].at \in {"read", "init"}
    BY <1>0, ClosingFacts
  <1>2. PICK r \in Relays : r = rcl[c].rel /\ rel[r].live /\ rel[r].src = reserved
    BY <1>1, TheOwner
  <1>3. PICK leave \in BOOLEAN : leave = (rel[r].inlist /\ intree # Nil)
    BY <1>0
  <1>4. /\ Release(c, IF leave THEN Detached(rel, TRUE) ELSE rel)
        /\ intree' = IF leave THEN Nil ELSE intree
        /\ CountedOff(c)
        /\ UNCHANGED <<switching, relays_connecting, halting, changes>>
    BY <1>2, <1>3 DEF CloseDown
  <1>5. rcl' = [rcl EXCEPT ![c] = NoClient]
    BY <1>4 DEF Release
  <1>6. /\ Left(c)
        /\ rsrc' = [rsrc EXCEPT ![reserved] = NoSource] /\ reserved' = Nil
    <2>1. CASE leave
      <3>1. PICK f : f = Detached(rel, TRUE)
        OBVIOUS
      <3>2. Release(c, f) /\ intree' = Nil
        BY <1>4, <2>1, <3>1
      <3>3. f[r].src = rel[r].src
        <4>1. rel \in [Relays -> RelaySet] /\ TRUE \in BOOLEAN
          BY <1>0, Types
        <4>2. LET g == Detached(rel, TRUE) IN
              /\ g \in [Relays -> RelaySet]
              /\ \A q \in Relays :
                   /\ (g[q].live <=> rel[q].live) /\ (g[q].old <=> rel[q].old)
                   /\ g[q].src = rel[q].src /\ g[q].new = rel[q].new
                   /\ (g[q].inlist <=> rel[q].inlist /\ q # intree)
                   /\ (g[q].cleanup <=> rel[q].cleanup \/ (TRUE /\ q = intree))
          BY <4>1, DetachedFacts
        <4> QED  BY <3>1, <4>2
      <3>4. rel' = [f EXCEPT ![r] = NoRelay]
            /\ rsrc' = [rsrc EXCEPT ![reserved] = NoSource] /\ reserved' = Nil
        BY <1>1, <1>2, <3>2, <3>3 DEF Release
      <3>5. Left(c)
        BY <1>1, <1>2, <1>4, <1>5, <3>1, <3>2, <3>4, TakenOut
      <3> QED  BY <3>4, <3>5
    <2>2. CASE ~leave
      <3>1. Release(c, rel) /\ intree' = intree
        BY <1>4, <2>2
      <3>2. intree # r
        BY <1>0, <1>2, <1>3, <2>2 DEF TreeRight, RelaysFit
      <3>3. rel' = [rel EXCEPT ![r] = NoRelay]
            /\ rsrc' = [rsrc EXCEPT ![reserved] = NoSource] /\ reserved' = Nil
        BY <1>1, <1>2, <3>1 DEF Release
      <3>4. /\ rel' \in [Relays -> RelaySet] /\ ~rel'[r].live
            /\ \A q \in Relays : q # r => rel'[q] = rel[q]
        BY <1>0, <3>3, Empties, Types DEF NoRelay
      <3>5. \A q \in Relays : q # r /\ rel[q].live => (rel'[q].inlist <=> intree' = q)
        BY <1>0, <3>1, <3>4 DEF TreeRight
      <3>6. ASSUME NEW q \in Relays PROVE ~(q = intree /\ intree' = Nil)
        BY <1>0, <3>1 DEF RelaysFit
      <3>7. Left(c)
        BY <1>2, <1>4, <1>5, <3>1, <3>2, <3>4, <3>5, <3>6 DEF Left
      <3> QED  BY <3>3, <3>7
    <2> QED  BY <2>1, <2>2
  <1>7. nsources' = nsources - (IF rcl[c].con THEN 1 ELSE 0)
    BY <1>4 DEF CountedOff
  <1> QED  BY <1>1, <1>6, <1>7, GoesWithSource

(* relay_initialise where nothing has the mountpoint.                      *)
Reserves(c, n) ==
  /\ rsrc' = [rsrc EXCEPT ![n] = [NoSource EXCEPT !.live = TRUE, !.client = c]]
  /\ rel' = [rel EXCEPT ![rcl[c].rel].src = n] /\ reserved' = n
  /\ rcl' = [rcl EXCEPT ![c] = [@ EXCEPT !.at = "start", !.seen = FALSE]]
  /\ UNCHANGED <<intree, switching, relays_connecting, nsources, halting, changes>>

LEMMA ReservesStep ==
  ASSUME RInv, NEW c \in RelayClients, rcl[c].at = "init", rel[rcl[c].rel].src = Nil,
         reserved = Nil, NEW n \in RelaySources, Reserves(c, n)
  PROVE  RInv'
  <1>0. TypeOK /\ RelaysFit /\ TreeRight /\ Apart /\ Owned /\ OneDriver
        /\ Driving /\ RunsRight /\ SwitchRight /\ Slots /\ Counted
    BY DEF RInv, Pointing
  <1>1. Up(c) /\ ~Waits(c)
    BY DEF Up, Waits
  <1>2. PICK r \in Relays : r = rcl[c].rel /\ rel[r].live
    BY <1>0, <1>1, Fields DEF Driving
  <1>3. /\ \A e \in RelayClients : ~Waits(e) /\ (Up(e) => rcl[e].aux = Nil)
        /\ \A q \in Relays : rel[q].live => rel[q].src = Nil /\ rel[q].new = Nil
        /\ \A s \in RelaySources : ~rsrc[s].live /\ ~rsrc[s].sw
        /\ ~rcl[c].con /\ n # Nil /\ c # Nil
    <2>1. \A e \in RelayClients : ~Waits(e) /\ (Up(e) => rcl[e].aux = Nil)
      BY <1>0 DEF SwitchRight, Driving
    <2>2. \A q \in Relays : rel[q].live => rel[q].src = Nil
      BY <1>0 DEF Owned
    <2>3. \A q \in Relays : rel[q].live => rel[q].new = Nil
      BY <1>0, <2>2 DEF Apart
    <2>4. \A s \in RelaySources : ~rsrc[s].live /\ ~rsrc[s].sw
      BY <1>0 DEF Owned, SwitchRight, RelaysFit
    <2>5. ~rcl[c].con /\ n # Nil /\ c # Nil
      BY <1>0, <1>1 DEF Driving, RelaysFit
    <2> QED  BY <2>1, <2>2, <2>3, <2>4, <2>5
  <1>4. /\ rsrc' = [rsrc EXCEPT ![n] = [NoSource EXCEPT !.live = TRUE, !.client = c]]
        /\ rel' = [rel EXCEPT ![r].src = n] /\ reserved' = n
        /\ rcl' = [rcl EXCEPT ![c] = [@ EXCEPT !.at = "start", !.seen = FALSE]]
        /\ UNCHANGED <<intree, switching, relays_connecting, nsources, halting, changes>>
    BY <1>2 DEF Reserves
  <1>5. /\ rsrc' \in [RelaySources -> SourceSet]
        /\ rsrc'[n].live /\ rsrc'[n].client = c /\ ~rsrc'[n].run /\ ~rsrc'[n].term
        /\ ~rsrc'[n].sw
        /\ \A s \in RelaySources : s # n => rsrc'[s] = rsrc[s]
    <2>1. PICK x : x = [NoSource EXCEPT !.live = TRUE, !.client = c]
      OBVIOUS
    <2>2. x \in SourceSet /\ x.live /\ x.client = c /\ ~x.run /\ ~x.term /\ ~x.sw
      BY <1>0, <2>1, Empties DEF SourceSet, NoSource
    <2>3. rsrc' = [rsrc EXCEPT ![n] = x] /\ rsrc \in [RelaySources -> SourceSet]
      BY <1>0, <1>4, <2>1, Types
    <2> QED  BY <2>2, <2>3
  <1>6. /\ rel' \in [Relays -> RelaySet] /\ rel'[r].src = n
        /\ (rel'[r].live <=> rel[r].live) /\ (rel'[r].inlist <=> rel[r].inlist)
        /\ (rel'[r].cleanup <=> rel[r].cleanup) /\ (rel'[r].old <=> rel[r].old)
        /\ rel'[r].new = rel[r].new
        /\ \A q \in Relays : q # r => rel'[q] = rel[q]
    <2>1. PICK w : w = [rel[r] EXCEPT !.src = n]
      OBVIOUS
    <2>2. rel[r] \in RelaySet
      BY <1>0, Fields
    <2>3. w \in RelaySet /\ w.src = n /\ w.new = rel[r].new
      BY <2>1, <2>2 DEF RelaySet
    <2>4. /\ (w.live <=> rel[r].live) /\ (w.inlist <=> rel[r].inlist)
          /\ (w.cleanup <=> rel[r].cleanup) /\ (w.old <=> rel[r].old)
      BY <2>1, <2>2 DEF RelaySet
    <2>5. rel' = [rel EXCEPT ![r] = w] /\ rel \in [Relays -> RelaySet]
      BY <1>0, <1>4, <2>1, Types
    <2> QED  BY <2>3, <2>4, <2>5
  <1>7. /\ rcl' \in [RelayClients -> ClientSet] /\ rcl'[c].at = "start" /\ rcl'[c].rel = r
        /\ ~rcl'[c].con /\ rcl'[c].aux = Nil
        /\ \A e \in RelayClients : e # c => rcl'[e] = rcl[e]
    <2>1. PICK y : y = [rcl[c] EXCEPT !.at = "start", !.seen = FALSE]
      OBVIOUS
    <2>2. rcl[c] \in ClientSet
      BY <1>0, Fields
    <2>3. y \in ClientSet /\ y.at = "start" /\ y.rel = rcl[c].rel /\ y.aux = rcl[c].aux
          /\ (y.con <=> rcl[c].con)
      BY <2>1, <2>2 DEF ClientSet
    <2>4. rcl' = [rcl EXCEPT ![c] = y] /\ rcl \in [RelayClients -> ClientSet]
      BY <1>0, <1>4, <2>1, Types
    <2> QED  BY <1>1, <1>2, <1>3, <2>3, <2>4
  <1>8. \A e \in RelayClients : (Up(e)' <=> Up(e)) /\ ~Waits(e)'
    BY <1>1, <1>3, <1>7 DEF Up, Waits
  <1>9. Owner' = c /\ reserved' = n
    BY <1>4, <1>5 DEF Owner
  <1>10. TypeOK'
    BY <1>0, <1>4, <1>5, <1>6, <1>7, Types
  <1>11. TreeRight'
    BY <1>0, <1>4, <1>6, Fields DEF TreeRight
  <1>12. Apart'
    <2>1. \A q \in Relays : rel'[q].live => rel[q].live /\ rel'[q].new = Nil
      BY <1>3, <1>6
    <2>2. (\A k \in switching :
             /\ rel[k].live /\ rel[k].src = Nil /\ rel[k].new = Nil /\ intree # k
             /\ \A e \in RelayClients : ~Drives(e, k))'
      <3> SUFFICES ASSUME NEW k \in switching
                   PROVE  (/\ rel[k].live /\ rel[k].src = Nil /\ rel[k].new = Nil /\ intree # k
                           /\ \A e \in RelayClients : ~Drives(e, k))'
        BY <1>4
      <3>1. /\ rel[k].live /\ rel[k].src = Nil /\ rel[k].new = Nil /\ intree # k /\ k \in Relays
            /\ \A e \in RelayClients : ~Drives(e, k)
        BY <1>0, Fields DEF Apart
      <3>2. k # r
        BY <1>1, <1>2, <3>1 DEF Drives
      <3>3. \A e \in RelayClients : ~Drives(e, k)'
        BY <1>2, <1>7, <1>8, <3>1, <3>2 DEF Drives
      <3> QED  BY <1>4, <1>6, <3>1, <3>2, <3>3
    <2>3. (\A j, k \in switching : j = k)'
      BY <1>0, <1>4 DEF Apart
    <2> QED  BY <2>1, <2>2, <2>3 DEF Apart
  <1>13. Owned'
    <2>1. (\A s \in RelaySources : rsrc[s].live <=> s = reserved)'
      BY <1>3, <1>5, <1>9
    <2>2. ASSUME NEW q \in Relays, (rel[q].live /\ rel[q].src # Nil)'
          PROVE  (/\ rel[q].src = reserved
                  /\ \E e \in RelayClients : Drives(e, q) /\ (e = Owner \/ Waits(e)))'
      <3>1. q = r
        BY <1>3, <1>6, <2>2
      <3>2. Drives(c, r)'
        BY <1>1, <1>7, <1>8 DEF Drives
      <3> QED  BY <1>6, <1>9, <3>1, <3>2
    <2>3. (reserved # Nil => Owner # Nil /\ Up(Owner) /\ rel[rcl[Owner].rel].src = reserved)'
      BY <1>1, <1>3, <1>6, <1>7, <1>8, <1>9
    <2> QED  BY <2>1, <2>2, <2>3 DEF Owned
  <1>14. OneDriver'
    <2>1. \A e \in RelayClients : rcl'[e].rel = rcl[e].rel
      BY <1>2, <1>7
    <2> QED  BY <1>0, <1>8, <2>1 DEF OneDriver, Up
  <1>15. Driving'
    <2> SUFFICES ASSUME NEW e \in RelayClients, Up(e)'
                 PROVE  (/\ rcl[e].rel # Nil /\ rel[rcl[e].rel].live
                         /\ rcl[e].at # "init" => rel[rcl[e].rel].src # Nil
                         /\ rcl[e].at = "init" /\ rel[rcl[e].rel].src = Nil =>
                              ~halting /\ (intree = rcl[e].rel => ~rel[intree].old /\ ~rel[intree].cleanup)
                         /\ rcl[e].at \in {"init", "start", "thread"} => ~rcl[e].con
                         /\ rcl[e].at \in {"connect", "wait"} => rcl[e].con
                         /\ rcl[e].aux # Nil => reserved # Nil /\ rsrc[reserved].sw /\ e = Owner)'
      BY DEF Driving
    <2>1. CASE e = c
      <3>1. r # Nil
        BY <1>0 DEF RelaysFit
      <3> QED  BY <1>2, <1>3, <1>6, <1>7, <2>1, <3>1
    <2>2. CASE e # c
      <3>1. Up(e) /\ rcl'[e] = rcl[e] /\ rcl[e].rel \in Relays /\ rcl[e].rel # r /\ rcl[e].aux = Nil
        BY <1>0, <1>1, <1>2, <1>3, <1>7, <1>8, <2>2, Fields DEF Driving, OneDriver, Up
      <3>2. rel'[rcl'[e].rel] = rel[rcl[e].rel] /\ rcl[e].rel # Nil
        BY <1>0, <1>6, <3>1 DEF RelaysFit
      <3> QED  BY <1>0, <1>4, <3>1, <3>2 DEF Driving
    <2> QED  BY <2>1, <2>2
  <1>16. RunsRight'
    <2>1. (\A q \in Relays : rel[q].live /\ rel[q].cleanup /\ ~halting => rel[q].new = Nil)'
      BY <1>3, <1>6
    <2> QED  BY <1>5, <1>9, <2>1 DEF RunsRight
  <1>17. SwitchRight'
    <2>1. \A s \in RelaySources : ~rsrc'[s].sw
      BY <1>3, <1>5
    <2> QED  BY <1>8, <1>9, <2>1 DEF SwitchRight
  <1>18. Slots' /\ Counted'
    BY <1>0, <1>3, <1>4, <1>7, <1>9 DEF Slots, Counted
  <1> QED  BY <1>0, <1>10, <1>11, <1>12, <1>13, <1>14, <1>15, <1>16, <1>17, <1>18
           DEF RInv, Pointing, RelaysFit

LEMMA InitialiseStep ==
  ASSUME RInv, NEW c \in RelayClients, Initialise(c)
  PROVE  RInv'
  <1>0. TypeOK /\ RelaysFit /\ Counted /\ Slots /\ Driving /\ rcl[c].at = "init" /\ Up(c) /\ ~Waits(c)
        /\ ~halting /\ ~rel[rcl[c].rel].cleanup
        /\ UNCHANGED <<switching, relays_connecting, nsources, halting, changes>>
    BY DEF RInv, Pointing, Initialise, Up, Waits
  <1>1. PICK r \in Relays : r = rcl[c].rel /\ rel[r].live
    BY <1>0, Fields DEF Driving
  <1>2. ~rcl[c].con
    BY <1>0 DEF Driving
  <1>3. CASE /\ rel[r].src # Nil /\ ~rsrc[rel[r].src].sw
             /\ rcl' = [rcl EXCEPT ![c] = [@ EXCEPT !.at = "start", !.seen = FALSE]]
             /\ UNCHANGED <<rel, rsrc, intree, reserved>>
    <2>1. reserved # Nil /\ c = Owner /\ reserved \in RelaySources /\ rel[r].src = reserved
      BY <1>0, <1>1, <1>3, TheOwner
    <2>2. ~rsrc[reserved].sw /\ ~rsrc[reserved].run /\ ~rsrc[reserved].term
      BY <1>0, <1>1, <1>3, <2>1 DEF RInv, RunsRight
    <2>3. PICK y : y = [rcl[c] EXCEPT !.at = "start", !.seen = FALSE]
      OBVIOUS
    <2>4. y \in ClientSet /\ y.rel = rcl[Owner].rel /\ y.aux = rcl[Owner].aux
          /\ y.at = "start" /\ (y.con <=> rcl[c].con)
      BY <1>0, <2>1, <2>3, Fields DEF ClientSet
    <2>5. rcl' = [rcl EXCEPT ![Owner] = y]
      BY <1>3, <2>1, <2>3
    <2>6. TypeOK'
      BY <1>0, <1>3, <2>1, <2>4, <2>5, ClientStep, Types
    <2>7. SamePointers /\ OthersStay
      BY <1>0, <1>3, <2>1, <2>4, <2>5, ClientStep DEF SamePointers, OthersStay
    <2>8. rcl'[Owner] = y /\ Owner' = Owner
      BY <1>0, <1>3, <2>1, <2>4, <2>5, ClientStep DEF Owner
    <2>9. OwnerRight
      BY <1>2, <1>3, <2>2, <2>4, <2>8 DEF OwnerRight
    <2>10. Slots' /\ Counted'
      BY <1>0, <1>2, <1>3, <2>1, <2>4, <2>8 DEF Slots, Counted
    <2> QED  BY <1>0, <2>1, <2>2, <2>6, <2>7, <2>9, <2>10, OwnerStep
  <1>4. CASE /\ rel[r].src = Nil /\ reserved = Nil
             /\ \E n \in FreeSources :
                  /\ rsrc' = [rsrc EXCEPT ![n] = [NoSource EXCEPT !.live = TRUE, !.client = c]]
                  /\ rel' = [rel EXCEPT ![r].src = n] /\ reserved' = n
             /\ rcl' = [rcl EXCEPT ![c] = [@ EXCEPT !.at = "start", !.seen = FALSE]]
             /\ UNCHANGED intree
    <2>1. PICK n \in RelaySources :
            /\ rsrc' = [rsrc EXCEPT ![n] = [NoSource EXCEPT !.live = TRUE, !.client = c]]
            /\ rel' = [rel EXCEPT ![r].src = n] /\ reserved' = n
      BY <1>4 DEF FreeSources
    <2>2. Reserves(c, n)
      BY <1>0, <1>1, <1>4, <2>1 DEF Reserves
    <2> QED  BY <1>0, <1>1, <1>4, <2>2, ReservesStep
  <1>5. CASE GivesUp(c) /\ rel[r].src = Nil /\ UNCHANGED <<rsrc, reserved>>
    <2>1. Left(c)
      BY <1>0, <1>5, TakenOut DEF GivesUp
    <2> QED  BY <1>0, <1>1, <1>5, <2>1, GoesAlone
  <1>6. CASE /\ GivesUp(c) /\ rel[r].src # Nil /\ ~rsrc[rel[r].src].sw
             /\ rsrc' = [rsrc EXCEPT ![rel[r].src] = NoSource] /\ reserved' = Nil
    <2>1. Left(c)
      BY <1>0, <1>6, TakenOut DEF GivesUp
    <2>2. rel[r].src = reserved
      BY <1>0, <1>1, <1>6, TheOwner
    <2>3. nsources' = nsources - (IF rcl[c].con THEN 1 ELSE 0)
      <3>1. nsources \in {0, 1}
        BY <1>0 DEF Counted
      <3> QED  BY <1>0, <1>2, <3>1
    <2> QED  BY <1>0, <1>1, <1>6, <2>1, <2>2, <2>3, GoesWithSource
  <1> QED  BY <1>1, <1>3, <1>4, <1>5, <1>6 DEF Initialise

(* get_relay_details: the client takes over the copy, which is now the     *)
(* relay it drives.                                                        *)
RelaysTurned(r, n) ==
  /\ ~rel'[r].live
  /\ rel'[n].live /\ (rel'[n].inlist <=> rel[n].inlist)
  /\ rel'[n].src = rel[r].src /\ rel'[n].new = rel[n].new
  /\ \A q \in Relays : q # r /\ q # n => rel'[q] = rel[q]
ClientTurned(c, n) ==
  /\ rcl'[c].rel = n /\ rcl'[c].at = rcl[c].at /\ (rcl'[c].con <=> rcl[c].con)
  /\ rcl'[c].aux = rcl[c].aux
  /\ \A d \in RelayClients : d # c => rcl'[d] = rcl[d]
SourcesTurned ==
  /\ \A s \in RelaySources :
       /\ (rsrc'[s].live <=> rsrc[s].live) /\ rsrc'[s].client = rsrc[s].client
       /\ (rsrc'[s].term <=> rsrc[s].term) /\ (rsrc'[s].sw <=> rsrc[s].sw)
       /\ rsrc'[s].run => rsrc[s].run
  /\ UNCHANGED <<intree, reserved, switching, relays_connecting, nsources, halting>>

LEMMA TakesCopy ==
  ASSUME RInv, NEW c \in RelayClients, Up(c), ~Waits(c),
         NEW r \in Relays, NEW n \in Relays, r = rcl[c].rel, n = rel[r].new,
         TypeOK', RelaysTurned(r, n), ClientTurned(c, n), SourcesTurned
  PROVE  RInv'
  <1>0. TypeOK /\ RelaysFit /\ TreeRight /\ Apart /\ Owned /\ OneDriver
        /\ Driving /\ RunsRight /\ SwitchRight /\ Slots /\ Counted
    BY DEF RInv, Pointing
  <1>1. r # Nil /\ n # Nil /\ rel[r].live
    BY <1>0 DEF RelaysFit, Driving
  <1>2. /\ reserved \in RelaySources /\ reserved # Nil /\ c = Owner /\ rel[r].src = reserved
        /\ rel[r].src # Nil
    <2>1. rel[rcl[c].rel].src # Nil
      BY <1>0, <1>1 DEF Apart
    <2> QED  BY <2>1, TheOwner
  <1>3. ~rsrc[reserved].sw
    BY <1>0, <1>1, <1>2 DEF SwitchRight
  <1>4. \A d \in RelayClients : ~Waits(d)
    BY <1>0, <1>2, <1>3 DEF SwitchRight
  <1>5. /\ rel[n].live /\ n \notin switching /\ n # r
        /\ \A d \in RelayClients : ~Drives(d, n)
    BY <1>0, <1>1 DEF Apart, Drives
  <1>6. rel[n].src = Nil /\ rel[n].new = Nil
    BY <1>0, <1>5 DEF Owned, Apart
  <1>7. intree # r /\ intree \in Relays \cup {Nil} /\ switching \subseteq Relays
    BY <1>0, <1>1, Fields DEF TreeRight
  <1>8. \A d \in RelayClients : (Up(d)' <=> Up(d)) /\ ~Waits(d)'
    BY <1>4 DEF Up, Waits, ClientTurned
  <1>9. Owner' = c
    BY <1>2 DEF Owner, SourcesTurned
  <1>10. TreeRight'
    BY <1>0, <1>5, <1>6, <1>7 DEF TreeRight, RelaysTurned, SourcesTurned
  <1>11. ASSUME NEW d \in RelayClients, NEW q \in Relays, q # n, Drives(d, q)'
         PROVE  Drives(d, q) /\ d # c
    BY <1>8, <1>11 DEF Drives, ClientTurned
  <1>12. Apart'
    <2>1. (\A p, q \in Relays :
             rel[p].live /\ rel[q].live /\ rel[p].new # Nil /\ rel[p].new = rel[q].new => p = q)'
      BY <1>0, <1>6 DEF Apart, RelaysTurned
    <2>2. ASSUME NEW q \in Relays, (rel[q].live /\ rel[q].new # Nil)'
          PROVE  (/\ rel[rel[q].new].live /\ rel[q].new \notin switching
                  /\ \A d \in RelayClients : ~Drives(d, rel[q].new))'
      <3>1. rel'[q] = rel[q] /\ q # r
        BY <1>6, <2>2 DEF RelaysTurned
      <3>2. PICK m \in Relays : m = rel[q].new
        BY <1>0, <2>2, <3>1, Fields
      <3>3. rel[m].live /\ m \notin switching /\ \A d \in RelayClients : ~Drives(d, m)
        BY <1>0, <2>2, <3>1, <3>2 DEF Apart
      <3>4. m # n /\ m # r
        <4>1. m # n
          BY <1>0, <1>1, <2>2, <3>1, <3>2 DEF Apart
        <4>2. m # r
          BY <3>3 DEF Drives
        <4> QED  BY <4>1, <4>2
      <3>5. rel'[m].live /\ m \notin switching' /\ \A d \in RelayClients : ~Drives(d, m)'
        BY <1>11, <3>3, <3>4 DEF RelaysTurned, SourcesTurned
      <3> QED  BY <3>1, <3>2, <3>5
    <2>3. ASSUME NEW k \in switching
          PROVE  (/\ rel[k].live /\ rel[k].src = Nil /\ rel[k].new = Nil /\ intree # k
                  /\ \A d \in RelayClients : ~Drives(d, k))'
      <3>1. /\ rel[k].live /\ rel[k].src = Nil /\ rel[k].new = Nil /\ intree # k /\ k \in Relays
            /\ \A d \in RelayClients : ~Drives(d, k)
        BY <1>0, <1>7 DEF Apart
      <3>2. k # n /\ k # r
        BY <1>5, <3>1 DEF Drives
      <3> QED  BY <1>11, <3>1, <3>2 DEF RelaysTurned, SourcesTurned
    <2>4. (\A q \in Relays : rel[q].live /\ rel[q].new # Nil => rel[q].src # Nil)'
      BY <1>0, <1>6 DEF Apart, RelaysTurned
    <2> QED  BY <1>0, <2>1, <2>2, <2>3, <2>4 DEF Apart, SourcesTurned
  <1>13. Owned'
    <2>1. ASSUME NEW q \in Relays, (rel[q].live /\ rel[q].src # Nil)'
          PROVE  q = n
      <3>1. CASE q # n
        <4>1. q # r /\ rel'[q] = rel[q]
          BY <2>1, <3>1 DEF RelaysTurned
        <4>2. PICK d \in RelayClients : Drives(d, q) /\ (d = Owner \/ Waits(d))
          BY <1>0, <2>1, <4>1 DEF Owned
        <4> QED  BY <1>2, <1>4, <4>1, <4>2 DEF Drives
      <3> QED  BY <3>1
    <2>2. Drives(c, n)'
      BY <1>8 DEF Drives, ClientTurned
    <2>3. \A s \in RelaySources : rsrc'[s].live <=> s = reserved'
      BY <1>0 DEF Owned, SourcesTurned
    <2>4. rel'[n].src = reserved' /\ reserved' # Nil
      BY <1>2 DEF RelaysTurned, SourcesTurned
    <2>5. Owner' # Nil /\ Up(Owner)' /\ rel'[rcl'[Owner'].rel].src = reserved'
      BY <1>0, <1>8, <1>9, <2>4 DEF RelaysFit, ClientTurned
    <2> QED  BY <1>9, <2>1, <2>2, <2>3, <2>4, <2>5 DEF Owned
  <1>14. OneDriver'
    BY <1>0, <1>5, <1>8 DEF OneDriver, Up, Drives, ClientTurned
  <1>15. Driving'
    <2> SUFFICES ASSUME NEW e \in RelayClients, Up(e)'
                 PROVE  (/\ rcl[e].rel # Nil /\ rel[rcl[e].rel].live
                         /\ rcl[e].at # "init" => rel[rcl[e].rel].src # Nil
                         /\ rcl[e].at = "init" /\ rel[rcl[e].rel].src = Nil =>
                              ~halting /\ (intree = rcl[e].rel => ~rel[intree].old /\ ~rel[intree].cleanup)
                         /\ rcl[e].at \in {"init", "start", "thread"} => ~rcl[e].con
                         /\ rcl[e].at \in {"connect", "wait"} => rcl[e].con
                         /\ rcl[e].aux # Nil => reserved # Nil /\ rsrc[reserved].sw /\ e = Owner)'
      BY DEF Driving
    <2>1. CASE e = c
      <3>1. rcl'[c].aux = Nil
        BY <1>0, <1>3 DEF Driving, ClientTurned
      <3>2. (/\ rcl[c].at \in {"init", "start", "thread"} => ~rcl[c].con
             /\ rcl[c].at \in {"connect", "wait"} => rcl[c].con)'
        BY <1>0 DEF Driving, ClientTurned
      <3>3. rcl'[c].rel = n /\ rel'[n].live /\ rel'[n].src # Nil
        BY <1>2 DEF RelaysTurned, ClientTurned
      <3> QED  BY <1>1, <2>1, <3>1, <3>2, <3>3
    <2>2. CASE e # c
      <3>1. Up(e) /\ rcl'[e] = rcl[e] /\ rcl[e].rel \in Relays /\ rcl[e].rel # r /\ rcl[e].rel # n
        BY <1>0, <1>5, <1>8, <2>2, Fields DEF Driving, OneDriver, Up, Drives, ClientTurned
      <3>2. rel'[rcl'[e].rel] = rel[rcl[e].rel] /\ rcl[e].rel # Nil
        BY <1>0, <3>1 DEF RelaysFit, RelaysTurned
      <3>3. rcl'[e].aux = Nil
        BY <1>0, <1>3, <3>1 DEF Driving
      <3> QED  BY <1>0, <3>1, <3>2, <3>3 DEF Driving, SourcesTurned
    <2> QED  BY <2>1, <2>2
  <1>16. RunsRight'
    <2>1. (\A q \in Relays : rel[q].live /\ rel[q].cleanup /\ ~halting => rel[q].new = Nil)'
      BY <1>0, <1>6 DEF RunsRight, RelaysTurned, SourcesTurned
    <2>2. rel[r].cleanup => halting
      BY <1>0, <1>1 DEF RunsRight
    <2>3. (rsrc[reserved].run =>
             ~rsrc[reserved].term /\ rcl[Owner].con /\ rcl[Owner].at \in {"read", "wait"})'
      BY <1>0, <1>2, <1>9 DEF RunsRight, ClientTurned, SourcesTurned
    <2>4. (rsrc[reserved].term => \/ rcl[Owner].at = "read"
                                  \/ rcl[Owner].at = "init" /\ halting)'
      BY <1>0, <1>2, <1>9, <2>2 DEF RunsRight, ClientTurned, SourcesTurned
    <2> QED  BY <2>1, <2>3, <2>4 DEF RunsRight
  <1>17. SwitchRight'
    <2>1. \A s \in RelaySources : ~rsrc'[s].sw
      BY <1>0, <1>3 DEF SwitchRight, SourcesTurned
    <2> QED  BY <1>2, <1>8, <2>1 DEF SwitchRight, SourcesTurned
  <1>18. Slots' /\ Counted'
    BY <1>0, <1>2, <1>9 DEF Slots, Counted, ClientTurned, SourcesTurned
  <1> QED  BY <1>0, <1>10, <1>12, <1>13, <1>14, <1>15, <1>16, <1>17, <1>18
           DEF RInv, Pointing, RelaysFit

LEMMA TurnStep ==
  ASSUME RInv, NEW c \in RelayClients, Turn(c)
  PROVE  RInv'
  <1>0. TypeOK /\ RelaysFit /\ Driving /\ Up(c) /\ ~Waits(c)
        /\ UNCHANGED <<intree, reserved, switching, relays_connecting, nsources, halting, changes>>
    BY DEF RInv, Pointing, Turn, Up, Waits
  <1>1. PICK r \in Relays : r = rcl[c].rel /\ rel[r].live
    BY <1>0, Fields DEF Driving
  <1>2. PICK y : y = [rcl[c] EXCEPT !.rel = IF rel[r].new = Nil THEN r ELSE rel[r].new,
                                    !.seen = TRUE]
    OBVIOUS
  <1>3. rcl' = [rcl EXCEPT ![c] = y]
    BY <1>1, <1>2 DEF Turn
  <1>4. /\ y \in ClientSet /\ y.rel = IF rel[r].new = Nil THEN r ELSE rel[r].new
        /\ y.at = rcl[c].at /\ y.aux = rcl[c].aux
    <2>1. rcl[c] \in ClientSet
      BY <1>0, Fields
    <2>2. (IF rel[r].new = Nil THEN r ELSE rel[r].new) \in Relays
      BY <1>0, Fields
    <2> QED  BY <1>2, <2>1, <2>2 DEF ClientSet
  <1>5. y.con <=> rcl[c].con
    <2>1. rcl[c] \in ClientSet
      BY <1>0, Fields
    <2> QED  BY <1>2, <2>1 DEF ClientSet
  <1>6. /\ rcl' \in [RelayClients -> ClientSet] /\ rcl'[c] = y
        /\ \A d \in RelayClients : d # c => rcl'[d] = rcl[d]
    BY <1>0, <1>3, <1>4, Types
  <1>7. CASE rel[r].new = Nil
    <2>1. PICK w : w = [rel[r] EXCEPT !.cleanup = rel[r].cleanup \/ rel[r].old]
      OBVIOUS
    <2>2. rel' = [rel EXCEPT ![r] = w] /\ rsrc' = rsrc
      BY <1>1, <1>7, <2>1 DEF Turn
    <2>3. rel[r] \in RelaySet
      BY <1>0, Fields
    <2>4. w \in RelaySet
      BY <2>1, <2>3 DEF RelaySet
    <2>5. /\ (w.live <=> rel[r].live) /\ (w.inlist <=> rel[r].inlist) /\ (w.old <=> rel[r].old)
          /\ (w.cleanup <=> rel[r].cleanup \/ rel[r].old)
      BY <2>1, <2>3 DEF RelaySet
    <2>6. w.src = rel[r].src /\ w.new = rel[r].new
      BY <2>1, <2>3 DEF RelaySet
    <2>7. /\ rel' \in [Relays -> RelaySet] /\ rel'[r] = w
          /\ \A q \in Relays : q # r => rel'[q] = rel[q]
      BY <1>0, <2>2, <2>4, Types
    <2>8. TypeOK'
      BY <1>0, <1>6, <2>2, <2>7, Types
    <2>9. y.rel = rcl[c].rel
      BY <1>1, <1>4, <1>7
    <2>10. SamePointers
      <3>1. \A q \in Relays :
              /\ rel'[q].live <=> rel[q].live
              /\ rel'[q].inlist <=> rel[q].inlist
              /\ rel'[q].src = rel[q].src /\ rel'[q].new = rel[q].new
        BY <2>5, <2>6, <2>7
      <3>2. \A d \in RelayClients :
              /\ rcl'[d].rel = rcl[d].rel /\ rcl'[d].aux = rcl[d].aux
              /\ rcl'[d].at = "none" <=> rcl[d].at = "none"
              /\ rcl'[d].at = "wait" <=> rcl[d].at = "wait"
        BY <1>4, <1>6, <2>9
      <3> QED  BY <1>0, <2>2, <3>1, <3>2 DEF SamePointers
    <2>11. QuietRelays
      <3>1. \A q \in Relays : rel'[q].old <=> rel[q].old
        BY <2>5, <2>7
      <3>2. \A q \in Relays : \/ rel'[q].cleanup <=> rel[q].cleanup
                              \/ rel'[q].cleanup /\ rel[q].old /\ rel[q].new = Nil
        BY <1>7, <2>5, <2>7
      <3> QED  BY <3>1, <3>2 DEF QuietRelays
    <2>12. QuietClients
      BY <1>4, <1>5, <1>6 DEF QuietClients
    <2>13. QuietSources
      BY <1>0, <2>2, Fields DEF QuietSources, RInv, RunsRight, SwitchRight
    <2> QED  BY <1>0, <2>8, <2>10, <2>11, <2>12, <2>13, QuietStep
  <1>8. CASE rel[r].new # Nil
    <2>1. PICK n \in Relays : n = rel[r].new
      BY <1>0, <1>8, Fields
    <2>2. n # r
      BY <1>0, <1>1, <1>8, <2>1 DEF RInv, Pointing, Apart, Drives
    <2>3. PICK w : w = [rel[n] EXCEPT !.src = rel[r].src, !.use = rel[r].use,
                                      !.cleanup = rel[n].cleanup \/ rel[n].old]
      OBVIOUS
    <2>4. rel[n] \in RelaySet /\ rel[r] \in RelaySet
      BY <1>0, Fields
    <2>5. w \in RelaySet
      BY <2>3, <2>4 DEF RelaySet
    <2>6. (w.live <=> rel[n].live) /\ (w.inlist <=> rel[n].inlist)
      BY <2>3, <2>4 DEF RelaySet
    <2>7. w.src = rel[r].src /\ w.new = rel[n].new
      BY <2>3, <2>4 DEF RelaySet
    <2>8. rel' = [[rel EXCEPT ![r] = NoRelay] EXCEPT ![n] = w]
      <3>1. PICK m : m = [rel EXCEPT ![r] = NoRelay,
                            ![n] = [@ EXCEPT !.src = rel[r].src, !.use = rel[r].use]]
        OBVIOUS
      <3>2. rel' = [m EXCEPT ![n].cleanup = @ \/ m[n].old]
        BY <1>1, <1>8, <2>1, <2>2, <3>1 DEF Turn
      <3>3. rel \in [Relays -> RelaySet]
        BY <1>0, Types
      <3>4. m = [q \in Relays |-> IF q = n THEN [rel[n] EXCEPT !.src = rel[r].src, !.use = rel[r].use]
                                  ELSE IF q = r THEN NoRelay ELSE rel[q]]
        BY <2>2, <3>1, <3>3
      <3>5. m[n] = [rel[n] EXCEPT !.src = rel[r].src, !.use = rel[r].use]
        BY <3>4
      <3>6. PICK u : u = [m[n] EXCEPT !.cleanup = m[n].cleanup \/ m[n].old]
        OBVIOUS
      <3>7. u = w
        BY <2>3, <2>4, <3>5, <3>6 DEF RelaySet
      <3>8. rel' = [m EXCEPT ![n] = u]
        BY <3>2, <3>6
      <3> QED  BY <2>2, <3>3, <3>4, <3>7, <3>8
    <2>9. /\ rel' \in [Relays -> RelaySet] /\ rel'[n] = w /\ ~rel'[r].live
          /\ \A q \in Relays : q # r /\ q # n => rel'[q] = rel[q]
      <3>1. rel \in [Relays -> RelaySet] /\ NoRelay \in RelaySet /\ ~NoRelay.live
        BY <1>0, Types, Empties DEF NoRelay
      <3> QED  BY <2>2, <2>5, <2>8, <3>1
    <2>10. rel[r].src = reserved /\ reserved \in RelaySources
      <3>1. rel[rcl[c].rel].src # Nil
        BY <1>0, <1>1, <1>8 DEF RInv, Pointing, Apart
      <3> QED  BY <1>0, <1>1, <3>1, TheOwner
    <2>11. rsrc' = rsrc \/ rsrc' = [rsrc EXCEPT ![reserved].run = FALSE]
      <3>1. PICK m : m = [rel EXCEPT ![r] = NoRelay,
                            ![n] = [@ EXCEPT !.src = rel[r].src, !.use = rel[r].use]]
        OBVIOUS
      <3>2. rsrc' = rsrc \/ rsrc' = [rsrc EXCEPT ![m[n].src].run = FALSE]
        BY <1>1, <1>8, <2>1, <2>2, <3>1 DEF Turn
      <3>3. rel \in [Relays -> RelaySet]
        BY <1>0, Types
      <3>4. m[n] = [rel[n] EXCEPT !.src = rel[r].src, !.use = rel[r].use]
        BY <2>2, <3>1, <3>3
      <3>5. m[n].src = reserved
        BY <2>4, <2>10, <3>4 DEF RelaySet
      <3> QED  BY <3>2, <3>5
    <2>12. /\ rsrc' \in [RelaySources -> SourceSet]
           /\ \A s \in RelaySources :
                /\ (rsrc'[s].live <=> rsrc[s].live) /\ rsrc'[s].client = rsrc[s].client
                /\ (rsrc'[s].term <=> rsrc[s].term) /\ (rsrc'[s].sw <=> rsrc[s].sw)
                /\ rsrc'[s].run => rsrc[s].run
      <3>1. rsrc \in [RelaySources -> SourceSet]
        BY <1>0, Types
      <3>2. CASE rsrc' = rsrc
        BY <3>1, <3>2
      <3>3. CASE rsrc' = [rsrc EXCEPT ![reserved].run = FALSE]
        <4>1. PICK x : x = [rsrc[reserved] EXCEPT !.run = FALSE]
          OBVIOUS
        <4>0. rsrc[reserved] \in SourceSet
          BY <2>10, <3>1
        <4>2. x \in SourceSet /\ x.client = rsrc[reserved].client
          BY <4>0, <4>1 DEF SourceSet
        <4>3. /\ (x.live <=> rsrc[reserved].live) /\ (x.term <=> rsrc[reserved].term)
              /\ (x.sw <=> rsrc[reserved].sw) /\ ~x.run
          BY <4>0, <4>1 DEF SourceSet
        <4>4. rsrc' = [rsrc EXCEPT ![reserved] = x]
          BY <3>3, <4>1
        <4> QED  BY <2>10, <3>1, <4>2, <4>3, <4>4
      <3> QED  BY <2>11, <3>2, <3>3
    <2>13. TypeOK'
      BY <1>0, <1>6, <2>9, <2>12, Types
    <2>14. /\ rel'[n].live /\ (rel'[n].inlist <=> rel[n].inlist)
           /\ rel'[n].src = rel[r].src /\ rel'[n].new = rel[n].new
      BY <1>0, <1>1, <1>8, <2>1, <2>6, <2>7, <2>9 DEF RInv, Pointing, Apart
    <2>15. /\ rcl'[c].rel = n /\ rcl'[c].at = rcl[c].at /\ (rcl'[c].con <=> rcl[c].con)
           /\ rcl'[c].aux = rcl[c].aux
      BY <1>4, <1>5, <1>6, <1>8, <2>1
    <2> QED  BY <1>0, <1>1, <1>6, <2>1, <2>9, <2>12, <2>13, <2>14, <2>15, TakesCopy
         DEF RelaysTurned, ClientTurned, SourcesTurned
  <1> QED  BY <1>7, <1>8

(* A new relay and its client touch nothing that was there.                *)
LEMMA InstallStep ==
  ASSUME RInv, NoneWaits, ~halting, TypeOK',
         NEW r \in Relays, NEW c \in RelayClients, ~rel[r].live, ~Up(c),
         rel'[r].live, rel'[r].inlist, ~rel'[r].old, ~rel'[r].cleanup,
         rel'[r].src = Nil, rel'[r].new = Nil,
         \A q \in Relays : q # r =>
           /\ (rel'[q].live <=> rel[q].live) /\ (rel'[q].cleanup <=> rel[q].cleanup)
           /\ rel'[q].src = rel[q].src /\ rel'[q].new = rel[q].new
           /\ rel[q].live => ~rel'[q].inlist,
         rcl'[c].at = "init", rcl'[c].rel = r, ~rcl'[c].con, rcl'[c].aux = Nil,
         \A d \in RelayClients : d # c => rcl'[d] = rcl[d],
         intree' = r,
         UNCHANGED <<rsrc, reserved, switching, relays_connecting, nsources, halting>>
  PROVE  RInv'
  <1>0. TypeOK /\ RelaysFit /\ TreeRight /\ Apart /\ Owned /\ OneDriver
        /\ Driving /\ RunsRight /\ SwitchRight /\ Slots /\ Counted
    BY DEF RInv, Pointing
  <1>1. r # Nil /\ switching \subseteq Relays
    BY <1>0, Fields DEF RelaysFit
  <1>2. /\ \A d \in RelayClients : ~Waits(d) /\ ~Waits(d)'
        /\ \A d \in RelayClients : d # c => (Up(d)' <=> Up(d))
        /\ Up(c)'
    BY DEF NoneWaits, Waits, Up
  <1>3. reserved # Nil => ~rsrc[reserved].sw
    BY <1>0, <1>2, OwnerIs
  <1>4. ASSUME NEW d \in RelayClients, NEW q \in Relays, q # r
        PROVE  Drives(d, q)' <=> Drives(d, q)
    BY <1>2, <1>4 DEF Drives
  <1>5. reserved # Nil =>
          /\ reserved \in RelaySources /\ Owner \in RelayClients /\ Owner # c /\ Owner' = Owner
          /\ rcl'[Owner] = rcl[Owner] /\ Up(Owner)
          /\ rcl[Owner].rel \in Relays /\ rcl[Owner].rel # r
    BY <1>0, OwnerIs DEF Owner
  <1>6. TreeRight'
    BY <1>0, <1>1 DEF TreeRight
  <1>7. Apart'
    <2>1. (\A p, q \in Relays :
             rel[p].live /\ rel[q].live /\ rel[p].new # Nil /\ rel[p].new = rel[q].new => p = q)'
      BY <1>0 DEF Apart
    <2>2. ASSUME NEW q \in Relays, (rel[q].live /\ rel[q].new # Nil)'
          PROVE  (/\ rel[rel[q].new].live /\ rel[q].new \notin switching
                  /\ \A d \in RelayClients : ~Drives(d, rel[q].new))'
      <3>1. q # r /\ rel[q].live /\ rel'[q].new = rel[q].new /\ rel[q].new # Nil
        BY <2>2
      <3>2. PICK m \in Relays : m = rel[q].new
        BY <1>0, <3>1, Fields
      <3>3. rel[m].live /\ m \notin switching /\ \A d \in RelayClients : ~Drives(d, m)
        BY <1>0, <3>1, <3>2 DEF Apart
      <3>4. rel'[m].live /\ m \notin switching' /\ \A d \in RelayClients : ~Drives(d, m)'
        BY <1>4, <3>3
      <3>5. rel'[q].new = m
        BY <3>1, <3>2
      <3> QED  BY <3>4, <3>5
    <2>3. ASSUME NEW k \in switching
          PROVE  (/\ rel[k].live /\ rel[k].src = Nil /\ rel[k].new = Nil /\ intree # k
                  /\ \A d \in RelayClients : ~Drives(d, k))'
      <3>1. /\ rel[k].live /\ rel[k].src = Nil /\ rel[k].new = Nil /\ k \in Relays /\ k # r
            /\ \A d \in RelayClients : ~Drives(d, k)
        BY <1>0, <1>1 DEF Apart
      <3> QED  BY <1>4, <3>1
    <2>4. (\A q \in Relays : rel[q].live /\ rel[q].new # Nil => rel[q].src # Nil)'
      BY <1>0 DEF Apart
    <2>5. (\A j, k \in switching : j = k)'
      BY <1>0 DEF Apart
    <2> QED  BY <2>1, <2>2, <2>3, <2>4, <2>5 DEF Apart
  <1>8. Owned'
    <2>1. ASSUME NEW q \in Relays, (rel[q].live /\ rel[q].src # Nil)'
          PROVE  (/\ rel[q].src = reserved
                  /\ \E d \in RelayClients : Drives(d, q) /\ (d = Owner \/ Waits(d)))'
      <3>1. q # r /\ rel[q].live /\ rel[q].src # Nil
        BY <2>1
      <3>2. PICK d \in RelayClients : Drives(d, q) /\ (d = Owner \/ Waits(d))
        BY <1>0, <3>1 DEF Owned
      <3>3. rel[q].src = reserved
        BY <1>0, <3>1 DEF Owned
      <3>4. d = Owner /\ Owner' = Owner
        BY <1>2, <1>5, <3>1, <3>2, <3>3
      <3>5. Drives(d, q)'
        BY <1>4, <3>1, <3>2
      <3> QED  BY <3>1, <3>3, <3>4, <3>5
    <2>2. \A s \in RelaySources : rsrc'[s].live <=> s = reserved'
      BY <1>0 DEF Owned
    <2>3. (reserved # Nil => Owner # Nil /\ Up(Owner) /\ rel[rcl[Owner].rel].src = reserved)'
      BY <1>0, <1>2, <1>5 DEF Owned
    <2> QED  BY <2>1, <2>2, <2>3 DEF Owned
  <1>9. OneDriver'
    <2>1. \A d \in RelayClients : d # c /\ Up(d) => rcl[d].rel # r /\ rcl'[d] = rcl[d]
      BY <1>0 DEF Driving
    <2> QED  BY <1>0, <1>2, <2>1 DEF OneDriver, Up
  <1>10. Driving'
    <2> SUFFICES ASSUME NEW e \in RelayClients, Up(e)'
                 PROVE  (/\ rcl[e].rel # Nil /\ rel[rcl[e].rel].live
                         /\ rcl[e].at # "init" => rel[rcl[e].rel].src # Nil
                         /\ rcl[e].at = "init" /\ rel[rcl[e].rel].src = Nil =>
                              ~halting /\ (intree = rcl[e].rel => ~rel[intree].old /\ ~rel[intree].cleanup)
                         /\ rcl[e].at \in {"init", "start", "thread"} => ~rcl[e].con
                         /\ rcl[e].at \in {"connect", "wait"} => rcl[e].con
                         /\ rcl[e].aux # Nil => reserved # Nil /\ rsrc[reserved].sw /\ e = Owner)'
      BY DEF Driving
    <2>1. CASE e = c
      BY <1>1, <2>1
    <2>2. CASE e # c
      <3>1. Up(e) /\ rcl'[e] = rcl[e] /\ rcl[e].rel \in Relays /\ rcl[e].rel # r
        BY <1>0, <1>2, <2>2, Fields DEF Driving
      <3>2. /\ rel'[rcl'[e].rel].src = rel[rcl[e].rel].src
            /\ (rel'[rcl'[e].rel].live <=> rel[rcl[e].rel].live) /\ rcl[e].rel # Nil
        BY <1>0, <3>1 DEF RelaysFit
      <3>3. rcl'[e].aux = Nil
        BY <1>0, <1>3, <3>1 DEF Driving
      <3> QED  BY <1>0, <3>1, <3>2, <3>3 DEF Driving
    <2> QED  BY <2>1, <2>2
  <1>11. RunsRight'
    <2>1. (\A q \in Relays : rel[q].live /\ rel[q].cleanup /\ ~halting => rel[q].new = Nil)'
      BY <1>0 DEF RunsRight
    <2>2. reserved # Nil => (rel'[rcl'[Owner'].rel].cleanup <=> rel[rcl[Owner].rel].cleanup)
      BY <1>5
    <2>3. (reserved # Nil /\ rsrc[reserved].run =>
             ~rsrc[reserved].term /\ rcl[Owner].con /\ rcl[Owner].at \in {"read", "wait"})'
      BY <1>0, <1>5 DEF RunsRight
    <2>4. (reserved # Nil /\ rsrc[reserved].term =>
             \/ rcl[Owner].at = "read"
             \/ rcl[Owner].at = "init" /\ (halting \/ rel[rcl[Owner].rel].cleanup))'
      BY <1>0, <1>5, <2>2 DEF RunsRight
    <2> QED  BY <2>1, <2>3, <2>4 DEF RunsRight
  <1>12. SwitchRight'
    <2>1. \A s \in RelaySources : ~rsrc'[s].sw
      BY <1>0, <1>3 DEF SwitchRight, RelaysFit
    <2> QED  BY <1>2, <1>5, <2>1 DEF SwitchRight
  <1>13. Slots' /\ Counted'
    BY <1>0, <1>5 DEF Slots, Counted
  <1> QED  BY <1>0, <1>6, <1>7, <1>8, <1>9, <1>10, <1>11, <1>12, <1>13
           DEF RInv, Pointing, RelaysFit

(* A copy is in the tree, and the relay in use is told of it.              *)
LEMMA CopyStep ==
  ASSUME RInv, NoneWaits, ~halting, TypeOK',
         NEW k \in Relays, NEW t \in Relays, ~rel[k].live, t = intree,
         ~rel[t].cleanup, rel[t].src # Nil,
         rel'[k].live, rel'[k].inlist, rel'[k].src = Nil, rel'[k].new = Nil, rel'[t].new = k,
         \A q \in Relays : q # k =>
           /\ (rel'[q].live <=> rel[q].live) /\ (rel'[q].cleanup <=> rel[q].cleanup)
           /\ rel'[q].src = rel[q].src
           /\ q # t => rel'[q].new = rel[q].new
           /\ rel[q].live => ~rel'[q].inlist,
         intree' = k,
         UNCHANGED <<rcl, rsrc, reserved, switching, relays_connecting, nsources, halting>>
  PROVE  RInv'
  <1>0. TypeOK /\ RelaysFit /\ TreeRight /\ Apart /\ Owned /\ OneDriver
        /\ Driving /\ RunsRight /\ SwitchRight /\ Slots /\ Counted
    BY DEF RInv, Pointing
  <1>1. k # Nil /\ t # Nil /\ rel[t].live /\ rel[t].new = Nil /\ t # k /\ switching \subseteq Relays
    BY <1>0, Fields DEF RelaysFit, TreeRight
  <1>2. \A d \in RelayClients : ~Waits(d)
    BY DEF NoneWaits, Waits
  <1>3. reserved # Nil => ~rsrc[reserved].sw
    BY <1>0, <1>2, OwnerIs
  <1>4. /\ \A d \in RelayClients : (Up(d)' <=> Up(d)) /\ ~Waits(d)'
        /\ \A d \in RelayClients, q \in Relays : Drives(d, q)' <=> Drives(d, q)
    BY <1>2 DEF Up, Waits, Drives
  <1>5. \A d \in RelayClients : Up(d) => rcl[d].rel \in Relays /\ rcl[d].rel # k /\ ~Drives(d, k)
    BY <1>0, Fields DEF Driving, Drives
  <1>6. reserved # Nil =>
          /\ reserved \in RelaySources /\ Owner \in RelayClients /\ Owner' = Owner /\ Up(Owner)
          /\ rcl[Owner].rel \in Relays /\ rcl[Owner].rel # k
    BY <1>0, <1>5, OwnerIs DEF Owner
  <1>7. TreeRight'
    BY <1>0, <1>1 DEF TreeRight
  <1>8. Apart'
    <2>0. ASSUME NEW q \in Relays, q # k, rel[q].live, rel[q].new # Nil PROVE rel[q].new # k
      BY <1>0, <2>0 DEF Apart
    <2>1. ASSUME NEW p \in Relays, NEW q \in Relays,
                 (rel[p].live /\ rel[q].live /\ rel[p].new # Nil /\ rel[p].new = rel[q].new)'
          PROVE  p = q
      <3>1. p # k /\ q # k /\ rel[p].live /\ rel[q].live
        BY <2>1
      <3>2. CASE p = t \/ q = t
        BY <1>1, <2>0, <2>1, <3>1, <3>2
      <3>3. CASE p # t /\ q # t
        BY <1>0, <2>1, <3>1, <3>3 DEF Apart
      <3> QED  BY <3>2, <3>3
    <2>2. ASSUME NEW q \in Relays, (rel[q].live /\ rel[q].new # Nil)'
          PROVE  (/\ rel[rel[q].new].live /\ rel[q].new \notin switching
                  /\ \A d \in RelayClients : ~Drives(d, rel[q].new))'
      <3>1. q # k /\ rel[q].live
        BY <2>2
      <3>2. CASE q = t
        <4>1. k \notin switching
          BY <1>0 DEF Apart
        <4>2. \A d \in RelayClients : ~Drives(d, k)'
          BY <1>4, <1>5 DEF Drives
        <4> QED  BY <3>2, <4>1, <4>2
      <3>3. CASE q # t
        <4>1. rel'[q].new = rel[q].new /\ rel[q].new # Nil
          BY <2>2, <3>1, <3>3
        <4>2. PICK m \in Relays : m = rel[q].new
          BY <1>0, <4>1, Fields
        <4>3. rel[m].live /\ m \notin switching /\ \A d \in RelayClients : ~Drives(d, m)
          BY <1>0, <3>1, <4>1, <4>2 DEF Apart
        <4>4. rel'[m].live /\ m \notin switching' /\ \A d \in RelayClients : ~Drives(d, m)'
          BY <1>4, <4>3
        <4>5. rel'[q].new = m
          BY <4>1, <4>2
        <4> QED  BY <4>4, <4>5
      <3> QED  BY <3>2, <3>3
    <2>3. ASSUME NEW j \in switching
          PROVE  (/\ rel[j].live /\ rel[j].src = Nil /\ rel[j].new = Nil /\ intree # j
                  /\ \A d \in RelayClients : ~Drives(d, j))'
      <3>1. /\ rel[j].live /\ rel[j].src = Nil /\ rel[j].new = Nil /\ j \in Relays /\ j # k
            /\ j # t /\ \A d \in RelayClients : ~Drives(d, j)
        BY <1>0, <1>1 DEF Apart
      <3> QED  BY <1>4, <3>1
    <2>4. (\A q \in Relays : rel[q].live /\ rel[q].new # Nil => rel[q].src # Nil)'
      BY <1>0 DEF Apart
    <2>5. (\A i, j \in switching : i = j)'
      BY <1>0 DEF Apart
    <2> QED  BY <2>1, <2>2, <2>3, <2>4, <2>5 DEF Apart
  <1>9. Owned'
    <2>1. ASSUME NEW q \in Relays, (rel[q].live /\ rel[q].src # Nil)'
          PROVE  (/\ rel[q].src = reserved
                  /\ \E d \in RelayClients : Drives(d, q) /\ (d = Owner \/ Waits(d)))'
      <3>1. q # k /\ rel[q].live /\ rel[q].src # Nil
        BY <2>1
      <3>2. PICK d \in RelayClients : Drives(d, q) /\ (d = Owner \/ Waits(d))
        BY <1>0, <3>1 DEF Owned
      <3>3. rel[q].src = reserved
        BY <1>0, <3>1 DEF Owned
      <3>4. d = Owner /\ Owner' = Owner
        BY <1>2, <1>6, <3>1, <3>2, <3>3
      <3>5. Drives(d, q)'
        BY <1>4, <3>2
      <3> QED  BY <3>1, <3>3, <3>4, <3>5
    <2>2. \A s \in RelaySources : rsrc'[s].live <=> s = reserved'
      BY <1>0 DEF Owned
    <2>3. (reserved # Nil => Owner # Nil /\ Up(Owner) /\ rel[rcl[Owner].rel].src = reserved)'
      BY <1>0, <1>4, <1>6 DEF Owned
    <2> QED  BY <2>1, <2>2, <2>3 DEF Owned
  <1>10. OneDriver'
    BY <1>0 DEF OneDriver
  <1>11. Driving'
    <2> SUFFICES ASSUME NEW e \in RelayClients, Up(e)'
                 PROVE  (/\ rcl[e].rel # Nil /\ rel[rcl[e].rel].live
                         /\ rcl[e].at # "init" => rel[rcl[e].rel].src # Nil
                         /\ rcl[e].at = "init" /\ rel[rcl[e].rel].src = Nil =>
                              ~halting /\ (intree = rcl[e].rel => ~rel[intree].old /\ ~rel[intree].cleanup)
                         /\ rcl[e].at \in {"init", "start", "thread"} => ~rcl[e].con
                         /\ rcl[e].at \in {"connect", "wait"} => rcl[e].con
                         /\ rcl[e].aux # Nil => reserved # Nil /\ rsrc[reserved].sw /\ e = Owner)'
      BY DEF Driving
    <2>1. Up(e) /\ rcl'[e] = rcl[e] /\ rcl[e].rel \in Relays /\ rcl[e].rel # k
      BY <1>4, <1>5
    <2>2. /\ rel'[rcl'[e].rel].src = rel[rcl[e].rel].src
          /\ (rel'[rcl'[e].rel].live <=> rel[rcl[e].rel].live) /\ rcl[e].rel # Nil
      BY <1>0, <2>1 DEF RelaysFit
    <2>3. rcl'[e].aux = Nil
      BY <1>0, <1>3, <2>1 DEF Driving
    <2> QED  BY <1>0, <2>1, <2>2, <2>3 DEF Driving
  <1>12. RunsRight'
    <2>1. (\A q \in Relays : rel[q].live /\ rel[q].cleanup /\ ~halting => rel[q].new = Nil)'
      BY <1>0 DEF RunsRight
    <2>2. reserved # Nil => (rel'[rcl'[Owner'].rel].cleanup <=> rel[rcl[Owner].rel].cleanup)
      BY <1>6
    <2>3. (reserved # Nil /\ rsrc[reserved].run =>
             ~rsrc[reserved].term /\ rcl[Owner].con /\ rcl[Owner].at \in {"read", "wait"})'
      BY <1>0, <1>6 DEF RunsRight
    <2>4. (reserved # Nil /\ rsrc[reserved].term =>
             \/ rcl[Owner].at = "read"
             \/ rcl[Owner].at = "init" /\ (halting \/ rel[rcl[Owner].rel].cleanup))'
      BY <1>0, <1>6, <2>2 DEF RunsRight
    <2> QED  BY <2>1, <2>3, <2>4 DEF RunsRight
  <1>13. SwitchRight'
    <2>1. \A s \in RelaySources : ~rsrc'[s].sw
      BY <1>0, <1>3 DEF SwitchRight, RelaysFit
    <2> QED  BY <1>4, <1>6, <2>1 DEF SwitchRight
  <1>14. Slots' /\ Counted'
    BY <1>0, <1>6 DEF Slots, Counted
  <1> QED  BY <1>0, <1>7, <1>8, <1>9, <1>10, <1>11, <1>12, <1>13, <1>14
           DEF RInv, Pointing, RelaysFit

LEMMA Listing ==
  ASSUME RelaysFit, NEW m \in BOOLEAN, NEW v \in 0 .. 1, NEW d \in BOOLEAN
  PROVE  LET x == Fresh(m, v, d) IN
         /\ x \in RelaySet /\ x.live /\ x.inlist /\ ~x.old /\ ~x.cleanup
         /\ x.src = Nil /\ x.new = Nil
  <1>1. PICK x : x = Fresh(m, v, d)
    OBVIOUS
  <1>2. NoRelay \in RelaySet
    BY Empties
  <1>3. x \in RelaySet /\ x.src = Nil /\ x.new = Nil
    BY <1>1, <1>2 DEF Fresh, RelaySet, NoRelay
  <1>4. x.live /\ x.inlist /\ ~x.old /\ ~x.cleanup
    BY <1>1, <1>2 DEF Fresh, RelaySet, NoRelay
  <1> QED  BY <1>1, <1>3, <1>4

LEMMA Installs ==
  ASSUME RInv, MayChange, NEW f \in [Relays -> RelaySet],
         \A q \in Relays :
           /\ (f[q].live <=> rel[q].live) /\ (f[q].cleanup <=> rel[q].cleanup)
           /\ f[q].src = rel[q].src /\ f[q].new = rel[q].new
           /\ rel[q].live => ~f[q].inlist,
         NEW x \in RelaySet, x.live, x.inlist, ~x.old, ~x.cleanup, x.src = Nil, x.new = Nil,
         Install(f, x),
         UNCHANGED <<rsrc, reserved, switching, relays_connecting, nsources, halting>>
  PROVE  RInv'
  <1>0. TypeOK /\ RelaysFit /\ NoneWaits /\ ~halting /\ changes' \in 0 .. MaxChanges
    <2>1. changes \in 0 .. MaxChanges /\ MaxChanges \in Nat
      BY Types DEF RInv, Pointing, RelaysFit
    <2> QED  BY <2>1 DEF RInv, Pointing, RelaysFit, MayChange
  <1>1. PICK r \in Relays, c \in RelayClients :
          /\ ~rel[r].live /\ rcl[c].at = "none"
          /\ rel' = [f EXCEPT ![r] = x]
          /\ rcl' = [rcl EXCEPT ![c] = [NoClient EXCEPT !.at = "init", !.rel = r]]
          /\ intree' = r
    BY DEF Install, FreeRelays, FreeClients
  <1>2. PICK y : y = [NoClient EXCEPT !.at = "init", !.rel = r]
    OBVIOUS
  <1>3. y \in ClientSet /\ y.at = "init" /\ y.rel = r /\ y.aux = Nil
    BY <1>0, <1>2, Empties DEF ClientSet, NoClient
  <1>4. ~y.con
    BY <1>2 DEF NoClient
  <1>5. /\ rcl' \in [RelayClients -> ClientSet] /\ rcl'[c] = y
        /\ \A d \in RelayClients : d # c => rcl'[d] = rcl[d]
    BY <1>0, <1>1, <1>2, <1>3, Types
  <1>6. /\ rel' \in [Relays -> RelaySet] /\ rel'[r] = x
        /\ \A q \in Relays : q # r => rel'[q] = f[q]
    BY <1>1
  <1>7. TypeOK'
    BY <1>0, <1>1, <1>5, <1>6, Types
  <1>8. ~Up(c)
    BY <1>1 DEF Up
  <1>9. /\ rel'[r].live /\ rel'[r].inlist /\ ~rel'[r].old /\ ~rel'[r].cleanup
        /\ rel'[r].src = Nil /\ rel'[r].new = Nil
    BY <1>6
  <1>10. \A q \in Relays : q # r =>
           /\ (rel'[q].live <=> rel[q].live) /\ (rel'[q].cleanup <=> rel[q].cleanup)
           /\ rel'[q].src = rel[q].src /\ rel'[q].new = rel[q].new
           /\ rel[q].live => ~rel'[q].inlist
    BY <1>6
  <1>11. /\ rcl'[c].at = "init" /\ rcl'[c].rel = r /\ ~rcl'[c].con /\ rcl'[c].aux = Nil
         /\ \A d \in RelayClients : d # c => rcl'[d] = rcl[d]
    BY <1>3, <1>4, <1>5
  <1> QED  BY <1>0, <1>1, <1>7, <1>8, <1>9, <1>10, <1>11, InstallStep

(* The relays after a reload has taken what the tree had off it.           *)
LEMMA OffTheTree ==
  ASSUME RInv, NEW m \in BOOLEAN
  PROVE  LET f == Outdated(Detached(rel, FALSE), m)
             g == Detached(Outdated(rel, m), FALSE) IN
         /\ f \in [Relays -> RelaySet] /\ g \in [Relays -> RelaySet]
         /\ \A q \in Relays :
              /\ (f[q].live <=> rel[q].live) /\ (f[q].cleanup <=> rel[q].cleanup)
              /\ f[q].src = rel[q].src /\ f[q].new = rel[q].new
              /\ rel[q].live => ~f[q].inlist
         /\ \A q \in Relays :
              /\ (g[q].live <=> rel[q].live) /\ (g[q].cleanup <=> rel[q].cleanup)
              /\ g[q].src = rel[q].src /\ g[q].new = rel[q].new
              /\ rel[q].live => ~g[q].inlist
  <1>0. TypeOK /\ TreeRight /\ rel \in [Relays -> RelaySet] /\ FALSE \in BOOLEAN
    BY Types DEF RInv, Pointing
  <1>1. PICK h : h = Detached(rel, FALSE)
    OBVIOUS
  <1>2. LET u == Detached(rel, FALSE) IN
        /\ u \in [Relays -> RelaySet]
        /\ \A q \in Relays :
             /\ (u[q].live <=> rel[q].live) /\ (u[q].old <=> rel[q].old)
             /\ u[q].src = rel[q].src /\ u[q].new = rel[q].new
             /\ (u[q].inlist <=> rel[q].inlist /\ q # intree)
             /\ (u[q].cleanup <=> rel[q].cleanup \/ (FALSE /\ q = intree))
    BY <1>0, DetachedFacts
  <1>3. /\ h \in [Relays -> RelaySet]
        /\ \A q \in Relays :
             /\ (h[q].live <=> rel[q].live)
             /\ h[q].src = rel[q].src /\ h[q].new = rel[q].new
             /\ (h[q].inlist <=> rel[q].inlist /\ q # intree)
             /\ (h[q].cleanup <=> rel[q].cleanup)
    BY <1>1, <1>2
  <1>4. PICK f : f = Outdated(h, m)
    OBVIOUS
  <1>5. /\ f \in [Relays -> RelaySet]
        /\ \A q \in Relays :
             /\ (f[q].live <=> h[q].live) /\ (f[q].inlist <=> h[q].inlist)
             /\ (f[q].cleanup <=> h[q].cleanup)
             /\ f[q].src = h[q].src /\ f[q].new = h[q].new
    BY <1>3, <1>4, Marked
  <1>6. PICK e : e = Outdated(rel, m)
    OBVIOUS
  <1>7. /\ e \in [Relays -> RelaySet]
        /\ \A q \in Relays :
             /\ (e[q].live <=> rel[q].live) /\ (e[q].inlist <=> rel[q].inlist)
             /\ (e[q].cleanup <=> rel[q].cleanup)
             /\ e[q].src = rel[q].src /\ e[q].new = rel[q].new
    BY <1>0, <1>6, Marked
  <1>8. PICK g : g = Detached(e, FALSE)
    OBVIOUS
  <1>9. LET u == Detached(e, FALSE) IN
        /\ u \in [Relays -> RelaySet]
        /\ \A q \in Relays :
             /\ (u[q].live <=> e[q].live) /\ (u[q].old <=> e[q].old)
             /\ u[q].src = e[q].src /\ u[q].new = e[q].new
             /\ (u[q].inlist <=> e[q].inlist /\ q # intree)
             /\ (u[q].cleanup <=> e[q].cleanup \/ (FALSE /\ q = intree))
    BY <1>0, <1>7, DetachedFacts
  <1>10. /\ g \in [Relays -> RelaySet]
         /\ \A q \in Relays :
              /\ (g[q].live <=> e[q].live)
              /\ g[q].src = e[q].src /\ g[q].new = e[q].new
              /\ (g[q].inlist <=> e[q].inlist /\ q # intree)
              /\ (g[q].cleanup <=> e[q].cleanup)
    BY <1>8, <1>9
  <1>11. \A q \in Relays : rel[q].live => (rel[q].inlist <=> intree = q)
    BY <1>0 DEF TreeRight
  <1>12. \A q \in Relays :
              /\ (f[q].live <=> rel[q].live) /\ (f[q].cleanup <=> rel[q].cleanup)
              /\ f[q].src = rel[q].src /\ f[q].new = rel[q].new
              /\ rel[q].live => ~f[q].inlist
    BY <1>3, <1>5, <1>11
  <1>13. \A q \in Relays :
              /\ (g[q].live <=> rel[q].live) /\ (g[q].cleanup <=> rel[q].cleanup)
              /\ g[q].src = rel[q].src /\ g[q].new = rel[q].new
              /\ rel[q].live => ~g[q].inlist
    BY <1>7, <1>10, <1>11
  <1>14. f = Outdated(Detached(rel, FALSE), m) /\ g = Detached(Outdated(rel, m), FALSE)
    BY <1>1, <1>4, <1>6, <1>8
  <1> QED  BY <1>5, <1>10, <1>12, <1>13, <1>14

LEMMA ReloadListedStep ==
  ASSUME RInv, NEW v \in 0 .. 1, NEW d \in BOOLEAN, ReloadListed(v, d)
  PROVE  RInv'
  <1>0. /\ TypeOK /\ RelaysFit /\ MayChange /\ FALSE \in BOOLEAN /\ intree \in Relays \cup {Nil}
        /\ UNCHANGED <<rsrc, reserved, switching, relays_connecting, nsources, halting>>
    BY Types DEF RInv, Pointing, ReloadListed
  <1>1. PICK f : f = Outdated(Detached(rel, FALSE), FALSE)
    OBVIOUS
  <1>2. PICK x : x = Fresh(FALSE, v, d)
    OBVIOUS
  <1>3. /\ f \in [Relays -> RelaySet]
        /\ \A q \in Relays :
              /\ (f[q].live <=> rel[q].live) /\ (f[q].cleanup <=> rel[q].cleanup)
              /\ f[q].src = rel[q].src /\ f[q].new = rel[q].new
              /\ rel[q].live => ~f[q].inlist
    BY <1>0, <1>1, OffTheTree
  <1>4. /\ x \in RelaySet /\ x.live /\ x.inlist /\ ~x.old /\ ~x.cleanup
        /\ x.src = Nil /\ x.new = Nil
    BY <1>0, <1>2, Listing
  <1>5. CASE Install(f, x)
    BY <1>0, <1>3, <1>4, <1>5, Installs
  <1>6. CASE intree # Nil /\ ~rel[intree].cleanup /\ rel[intree].src # Nil
    <2>1. PICK t \in Relays : t = intree
      BY <1>0, <1>6
    <2>2. PICK k \in Relays : /\ ~rel[k].live
                              /\ rel' = [f EXCEPT ![k] = x, ![intree].new = k]
                              /\ intree' = k /\ UNCHANGED rcl
      BY <1>1, <1>2, <1>6 DEF ReloadListed, FreeRelays
    <2>3. rel[t].live /\ t # k
      BY <1>6, <2>1, <2>2 DEF RInv, Pointing, TreeRight
    <2>4. PICK w : w = [f[t] EXCEPT !.new = k]
      OBVIOUS
    <2>5. w \in RelaySet /\ w.new = k /\ w.src = f[t].src
      BY <1>3, <2>4 DEF RelaySet
    <2>6. /\ (w.live <=> f[t].live) /\ (w.cleanup <=> f[t].cleanup)
          /\ (w.inlist <=> f[t].inlist)
      BY <1>3, <2>4 DEF RelaySet
    <2>7. rel' = [[f EXCEPT ![k] = x] EXCEPT ![t] = w]
      <3>1. PICK u : u = [f EXCEPT ![k] = x]
        OBVIOUS
      <3>2. rel' = [u EXCEPT ![t].new = k]
        BY <2>1, <2>2, <3>1
      <3>3. u[t] = f[t]
        BY <1>3, <2>3, <3>1
      <3> QED  BY <2>4, <3>1, <3>2, <3>3
    <2>8. /\ rel' \in [Relays -> RelaySet] /\ rel'[k] = x /\ rel'[t] = w
          /\ \A q \in Relays : q # k /\ q # t => rel'[q] = f[q]
      BY <1>3, <1>4, <2>3, <2>5, <2>7
    <2>9. changes' \in 0 .. MaxChanges /\ NoneWaits /\ ~halting
      <3>1. changes \in 0 .. MaxChanges /\ MaxChanges \in Nat
        BY <1>0, Types DEF RelaysFit
      <3> QED  BY <1>0, <3>1 DEF RelaysFit, MayChange
    <2>10. TypeOK'
      BY <1>0, <2>2, <2>8, <2>9, Types
    <2>11. \A q \in Relays : q # k =>
             /\ (rel'[q].live <=> rel[q].live) /\ (rel'[q].cleanup <=> rel[q].cleanup)
             /\ rel[q].live => ~rel'[q].inlist
      BY <1>3, <2>6, <2>8
    <2>12. \A q \in Relays : q # k =>
             /\ rel'[q].src = rel[q].src
             /\ q # t => rel'[q].new = rel[q].new
      BY <1>3, <2>5, <2>8
    <2> QED  BY <1>0, <1>4, <1>6, <2>1, <2>2, <2>5, <2>8, <2>9, <2>10, <2>11, <2>12, CopyStep
  <1>7. intree = Nil \/ rel[intree].cleanup \/ rel[intree].src = Nil => Install(f, x)
    BY <1>1, <1>2 DEF ReloadListed
  <1> QED  BY <1>5, <1>6, <1>7

LEMMA MasterListsStep ==
  ASSUME RInv, MasterLists
  PROVE  RInv'
  <1>0. /\ TypeOK /\ RelaysFit /\ TreeRight /\ MayChange /\ TRUE \in BOOLEAN /\ FALSE \in BOOLEAN
        /\ 0 \in 0 .. 1 /\ intree \in Relays \cup {Nil} /\ rel \in [Relays -> RelaySet]
        /\ UNCHANGED <<rsrc, reserved, switching, relays_connecting, nsources, halting>>
    BY Types DEF RInv, Pointing, MasterLists
  <1>1. PICK f : f = Outdated(rel, TRUE)
    OBVIOUS
  <1>2. PICK g : g = Detached(Outdated(rel, TRUE), FALSE)
    OBVIOUS
  <1>3. PICK x : x = Fresh(TRUE, 0, FALSE)
    OBVIOUS
  <1>4. /\ f \in [Relays -> RelaySet]
        /\ \A q \in Relays :
              /\ (f[q].live <=> rel[q].live) /\ (f[q].cleanup <=> rel[q].cleanup)
              /\ f[q].src = rel[q].src /\ f[q].new = rel[q].new
              /\ (f[q].inlist <=> rel[q].inlist)
    BY <1>0, <1>1, Marked
  <1>5. /\ g \in [Relays -> RelaySet]
        /\ \A q \in Relays :
              /\ (g[q].live <=> rel[q].live) /\ (g[q].cleanup <=> rel[q].cleanup)
              /\ g[q].src = rel[q].src /\ g[q].new = rel[q].new
              /\ rel[q].live => ~g[q].inlist
    BY <1>0, <1>2, OffTheTree
  <1>6. /\ x \in RelaySet /\ x.live /\ x.inlist /\ ~x.old /\ ~x.cleanup
        /\ x.src = Nil /\ x.new = Nil
    BY <1>0, <1>3, Listing
  <1>7. CASE intree = Nil
    <2>1. Install(f, x)
      BY <1>1, <1>3, <1>7 DEF MasterLists
    <2>2. \A q \in Relays : rel[q].live => ~f[q].inlist
      BY <1>0, <1>4, <1>7 DEF TreeRight, RelaysFit
    <2>3. \A q \in Relays :
              /\ (f[q].live <=> rel[q].live) /\ (f[q].cleanup <=> rel[q].cleanup)
              /\ f[q].src = rel[q].src /\ f[q].new = rel[q].new
              /\ rel[q].live => ~f[q].inlist
      BY <1>4, <2>2
    <2> QED  BY <1>0, <1>4, <1>6, <2>1, <2>3, Installs
  <1>8. CASE intree # Nil /\ rel[intree].cleanup
    <2>1. Install(g, x)
      BY <1>2, <1>3, <1>8 DEF MasterLists
    <2> QED  BY <1>0, <1>5, <1>6, <2>1, Installs
  <1>9. CASE intree # Nil /\ ~rel[intree].cleanup
    <2>1. PICK t \in Relays : t = intree
      BY <1>0, <1>9
    <2>2. PICK w : w = [f[t] EXCEPT !.old = FALSE]
      OBVIOUS
    <2>3. w \in RelaySet /\ w.new = f[t].new /\ w.src = f[t].src
      BY <1>4, <2>2 DEF RelaySet
    <2>4. /\ (w.live <=> f[t].live) /\ (w.cleanup <=> f[t].cleanup)
          /\ (w.inlist <=> f[t].inlist) /\ ~w.old
      BY <1>4, <2>2 DEF RelaySet
    <2>5. rel' = [f EXCEPT ![t] = w] /\ UNCHANGED <<rcl, intree>>
      BY <1>1, <1>9, <2>1, <2>2 DEF MasterLists
    <2>6. /\ rel' \in [Relays -> RelaySet] /\ rel'[t] = w
          /\ \A q \in Relays : q # t => rel'[q] = f[q]
      BY <1>4, <2>3, <2>5
    <2>7. changes' \in 0 .. MaxChanges /\ NoneWaits /\ ~halting
      <3>1. changes \in 0 .. MaxChanges /\ MaxChanges \in Nat
        BY <1>0, Types DEF RelaysFit
      <3> QED  BY <1>0, <3>1 DEF RelaysFit, MayChange
    <2>8. TypeOK'
      BY <1>0, <2>5, <2>6, <2>7, Types
    <2>9. \A q \in Relays :
           /\ (rel'[q].live <=> rel[q].live) /\ (rel'[q].inlist <=> rel[q].inlist)
           /\ (rel'[q].cleanup <=> rel[q].cleanup)
      BY <1>4, <2>4, <2>6
    <2>10. \A q \in Relays : rel'[q].src = rel[q].src /\ rel'[q].new = rel[q].new
      BY <1>4, <2>3, <2>6
    <2>11. ~rel'[intree].old /\ ~halting'
      BY <1>0, <2>1, <2>4, <2>6, <2>7
    <2> QED  BY <1>0, <2>5, <2>7, <2>8, <2>9, <2>10, <2>11, SettledStep
  <1> QED  BY <1>7, <1>8, <1>9

-------------------------------------------------------------------------------
LEMMA ClientTurnStep ==
  ASSUME RInv, NEW c \in RelayClients, ClientTurn(c)
  PROVE  RInv'
  BY TurnStep, InitialiseStep, StartupStep, StandsByStep, ReadOnStep, DrainStep, StandByStep,
     CallAgainStep, CloseDownStep, LeavesStep, SwitchedOverStep, WaitEndsStep DEF ClientTurn

LEMMA RInvStep == RInv /\ [Next]_relayVars => RInv'
  <1> SUFFICES ASSUME RInv, [Next]_relayVars PROVE RInv'
    OBVIOUS
  <1>1. CASE \E v \in 0 .. 1, d \in BOOLEAN : ReloadListed(v, d)
    BY <1>1, ReloadListedStep
  <1>2. CASE ReloadDropped \/ MasterDrops \/ Halt \/ RaiseBarriers
    BY <1>2, MarkSteps
  <1>3. CASE MasterLists
    BY <1>3, MasterListsStep
  <1>4. ASSUME NEW c \in RelayClients, ClientTurn(c)
        PROVE  RInv'
    BY <1>4, ClientTurnStep
  <1>5. ASSUME NEW c \in RelayClients, ThreadStep(c) \/ CheckHosts(c) \/ DrainAgain(c)
        PROVE  RInv'
    BY <1>5, ThreadStartsStep, ThreadEndsStep, CheckHostsStep, DrainAgainStep DEF ThreadStep
  <1>6. ASSUME NEW k \in Relays, SwitchFails(k) \/ SwitchConnects(k)
        PROVE  RInv'
    BY <1>6, SwitchFailsStep, SwitchConnectsStep
  <1>7. ASSUME NEW s \in RelaySources, StreamEnds(s) \/ Join(s) \/ Part(s) \/ LookedAt(s)
        PROVE  RInv'
    BY <1>7, StreamEndsStep, HeardSteps
  <1>8. CASE UNCHANGED relayVars
    <2>1. UNCHANGED <<rel, rcl, rsrc, intree, reserved, switching, relays_connecting,
                      nsources, halting, changes>>
      BY <1>8 DEF relayVars
    <2>2. RelaysFit'
      BY DEF RInv, RelaysFit
    <2>3. Pointing'
      BY <2>1 DEF RInv, Pointing, TypeOK, TreeRight, Apart, Owned, OneDriver, Drives, Up, Waits, Owner
    <2>4. Driving' /\ RunsRight' /\ SwitchRight' /\ Slots' /\ Counted'
      BY <2>1 DEF RInv, Driving, RunsRight, SwitchRight, Slots, Counted, Up, Waits, Owner
    <2> QED  BY <2>2, <2>3, <2>4 DEF RInv
  <1> QED  BY <1>1, <1>2, <1>3, <1>4, <1>5, <1>6, <1>7, <1>8 DEF Next

LEMMA NothingFreed == RInv => PointersLive
  <1> SUFFICES ASSUME RInv PROVE PointersLive
    OBVIOUS
  <1>0. TypeOK /\ RelaysFit /\ TreeRight /\ Apart /\ Owned /\ Driving /\ SwitchRight
    BY DEF RInv, Pointing
  <1>1. /\ intree # Nil => rel[intree].live
        /\ reserved # Nil => rsrc[reserved].live
        /\ \A k \in switching : rel[k].live
    BY <1>0, OwnerIs DEF TreeRight, Owned, Apart
  <1>2. \A r \in Relays : rel[r].live =>
          /\ rel[r].src # Nil => rsrc[rel[r].src].live
          /\ rel[r].new # Nil => rel[rel[r].new].live
    BY <1>0, Fields DEF Owned, Apart
  <1>3. \A s \in RelaySources : rsrc[s].live => rcl[rsrc[s].client].at # "none"
    BY <1>0 DEF Owned, RelaysFit, Owner, Up
  <1>4. \A c \in RelayClients : rcl[c].at # "none" =>
          /\ rel[rcl[c].rel].live
          /\ rcl[c].aux # Nil => rcl[rcl[c].aux].at # "none"
          /\ rcl[c].at \in {"start", "thread", "connect"} => rel[rcl[c].rel].src # Nil
    <2> SUFFICES ASSUME NEW c \in RelayClients, rcl[c].at # "none"
                 PROVE  /\ rel[rcl[c].rel].live
                        /\ rcl[c].aux # Nil => rcl[rcl[c].aux].at # "none"
                        /\ rcl[c].at \in {"start", "thread", "connect"} => rel[rcl[c].rel].src # Nil
      OBVIOUS
    <2>1. rel[rcl[c].rel].live /\ (rcl[c].at # "init" => rel[rcl[c].rel].src # Nil)
      BY <1>0 DEF Driving, Up
    <2>2. rcl[c].aux # Nil => rcl[rcl[c].aux].at # "none"
      BY <1>0 DEF Driving, Up, SwitchRight, Waits
    <2> QED  BY <2>1, <2>2
  <1> QED  BY <1>1, <1>2, <1>3, <1>4 DEF PointersLive

(* A set of none or one.                                                   *)
LEMMA FewAre ==
  ASSUME NEW S, NEW x, S \subseteq {x}
  PROVE  Cardinality(S) = IF x \in S THEN 1 ELSE 0
  <1>1. S = {} \/ S = {x}
    OBVIOUS
  <1> QED  BY <1>1, FS_EmptySet, FS_Singleton

LEMMA CountsRight == RInv => SlotsRight /\ SourcesRight
  <1> SUFFICES ASSUME RInv PROVE SlotsRight /\ SourcesRight
    OBVIOUS
  <1>0. TypeOK /\ RelaysFit /\ Apart /\ Owned /\ Driving /\ Slots /\ Counted
    BY DEF RInv, Pointing
  <1>1. Cardinality(switching) = IF switching = {} THEN 0 ELSE 1
    <2>1. CASE switching = {}
      BY <2>1, FS_EmptySet
    <2>2. CASE switching # {}
      <3>1. PICK k : k \in switching
        BY <2>2
      <3>2. switching = {k}
        BY <1>0, <3>1 DEF Apart
      <3> QED  BY <2>2, <3>2, FS_Singleton
    <2> QED  BY <2>1, <2>2
  <1>2. PICK busy : busy = {c \in RelayClients : rcl[c].at \in {"thread", "connect"}}
    OBVIOUS
  <1>3. \A c \in busy : reserved # Nil /\ c = Owner
    <2> SUFFICES ASSUME NEW c \in RelayClients, rcl[c].at \in {"thread", "connect"}
                 PROVE  reserved # Nil /\ c = Owner
      BY <1>2
    <2>1. Up(c) /\ ~Waits(c)
      BY DEF Up, Waits
    <2>2. rel[rcl[c].rel].src # Nil
      BY <1>0, <2>1 DEF Driving
    <2> QED  BY <2>1, <2>2, TheOwner
  <1>4. Cardinality(busy) = IF reserved # Nil /\ rcl[Owner].at \in {"thread", "connect"} THEN 1 ELSE 0
    <2>1. CASE reserved = Nil
      <3>1. busy = {}
        BY <1>3, <2>1
      <3> QED  BY <2>1, <3>1, FS_EmptySet
    <2>2. CASE reserved # Nil
      <3>1. busy \subseteq {Owner}
        BY <1>3
      <3>2. Owner \in busy <=> rcl[Owner].at \in {"thread", "connect"}
        BY <1>2, <2>2, OwnerIs
      <3>3. Cardinality(busy) = IF Owner \in busy THEN 1 ELSE 0
        BY <3>1, FewAre
      <3> QED  BY <2>2, <3>2, <3>3
    <2> QED  BY <2>1, <2>2
  <1>5. SlotsRight
    BY <1>0, <1>1, <1>2, <1>4 DEF Slots, SlotsRight
  <1>6. PICK fed : fed = {s \in RelaySources : rsrc[s].live /\ rcl[rsrc[s].client].con}
    OBVIOUS
  <1>7. Cardinality(fed) = IF reserved # Nil /\ rcl[Owner].con THEN 1 ELSE 0
    <2>1. CASE reserved = Nil
      <3>1. fed = {}
        BY <1>0, <1>6, <2>1 DEF Owned, RelaysFit
      <3> QED  BY <2>1, <3>1, FS_EmptySet
    <2>2. CASE reserved # Nil
      <3>1. fed \subseteq {reserved}
        BY <1>0, <1>6 DEF Owned
      <3>2. reserved \in fed <=> rcl[Owner].con
        BY <1>0, <1>6, <2>2, OwnerIs DEF Owned, Owner
      <3>3. Cardinality(fed) = IF reserved \in fed THEN 1 ELSE 0
        BY <3>1, FewAre
      <3> QED  BY <2>2, <3>2, <3>3
    <2> QED  BY <2>1, <2>2
  <1>8. SourcesRight
    BY <1>0, <1>6, <1>7 DEF Counted, SourcesRight
  <1> QED  BY <1>5, <1>8
================================================================================
