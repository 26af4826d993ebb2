----------------------------- MODULE StatsProofs -----------------------------
EXTENDS Stats, FiniteSetTheorems, TLAPS

-------------------------------------------------------------------------------
(* The statistics.                                                         *)

(* A mountpoint has one entry; free memory is blank; a lock has its owner. *)
EntriesPlaced ==
  /\ \A e, f \in Entries : entry[e].where = "tree" /\ entry[f].where = "tree"
                             /\ entry[e].mount = entry[f].mount => e = f
  /\ \A e \in Entries :
       /\ entry[e].where = "tree" => entry[e].mount \in Mounts
       /\ entry[e].where = "free" => entry[e] = NoStats
       /\ entry[e].owner # NoEntry =>
            hold[entry[e].owner].at = "locked" /\ hold[entry[e].owner].on = e

(* The entry a source has is in the tree and never out of date; nobody     *)
(* locks it while its source waits for the lock of the tree, nor is one    *)
(* shown while that is being freed.                                        *)
HandlesPlaced ==
  /\ \A a \in Actors : hold[a].at = "locked" =>
       hold[a].on \in Entries /\ entry[hold[a].on].owner = a /\ entry[hold[a].on].where = "tree"
  /\ \A m \in Mounts :
       /\ hold[m].at \in {"locked", "kept", "gap"} =>
            /\ hold[m].on \in Entries /\ entry[hold[m].on].where = "tree"
            /\ entry[hold[m].on].mount = m /\ entry[hold[m].on].updated = "kept"
       /\ hold[m].at = "gap" => entry[hold[m].on].owner = NoEntry
       /\ hold[m].at = "cut" =>
            /\ hold[m].on \in Entries /\ entry[hold[m].on].where = "cut"
            /\ entry[hold[m].on].mount = m
            /\ \A e \in InTree(m) : entry[e].hidden

(* What a watcher will show for the mount of an entry: what came in is put *)
(* behind what was copied, or will be.                                     *)
ReadAfter(x, p) == IF p = Keep THEN x ELSE After(x, p)
Base(w, e) == IF watch[w].at = "listed" \/ e \in watch[w].todo THEN entry[e].val
              ELSE watch[w].view[entry[e].mount]
WillShow(w, e) == IF watch[w].at = "on" THEN watch[w].view[entry[e].mount]
                  ELSE ReadAfter(Base(w, e), watch[w].pend[entry[e].mount])

Hears(w) == watch[w].at # "off" /\ ~watch[w].error

(* The copy is of the tree as it still is.                                 *)
CopyRight(w) ==
  /\ watch[w].at = "off" => watch[w] = OffWatch
  /\ watch[w].at = "listed" => watch[w].todo = {}
  /\ watch[w].at = "copies" =>
       /\ \A e \in watch[w].todo : entry[e].where = "tree" /\ watch[w].view[entry[e].mount] = NoValue
       /\ \A m \in Mounts : InTree(m) = {} => watch[w].view[m] = Absent
  /\ ~watch[w].deaf

EntryShown(w, e) ==
  Hears(w) /\ entry[e].where = "tree" /\ hold[entry[e].mount].at # "cut" =>
    /\ ~entry[e].hidden /\ (entry[e].val # NoValue \/ watch[w].admin) => WillShow(w, e) = entry[e].val
    /\ entry[e].hidden /\ watch[w].admin => WillShow(w, e) \in {entry[e].val, Absent}

GoneShown(w, m) ==
  Hears(w) /\ watch[w].admin /\ InTree(m) = {} /\ hold[m].at # "cut" =>
    IF watch[w].at = "on" THEN watch[w].view[m] = Absent ELSE watch[w].pend[m] \in {Keep, Absent}

GlobalShown(w) ==
  Hears(w) /\ ~global_stat.due =>
    /\ watch[w].at = "on" => watch[w].glob = global_stat.val
    /\ watch[w].at = "listed" => watch[w].gpend \in {Keep, global_stat.val}
    /\ watch[w].at = "copies" =>
         watch[w].gpend = global_stat.val \/ (watch[w].gpend = Keep /\ watch[w].glob = global_stat.val)

FeedRight ==
  \A w \in Watchers :
    /\ CopyRight(w) /\ GlobalShown(w)
    /\ \A e \in Entries : EntryShown(w, e)
    /\ \A m \in Mounts : GoneShown(w, m)

(* The values that stand for nothing, and the names of who locks, are       *)
(* apart from the others.                                                  *)
Apart ==
  /\ Yp \notin Mounts /\ NoEntry \notin Mounts \cup {Yp}
  /\ {NoValue, Absent, Keep, New} \cap Values = {} /\ NoValue # Absent
  /\ {Keep, New} \cap {NoValue, Absent} = {} /\ Keep # New

StatsInv == Apart /\ TypeOK /\ EntriesPlaced /\ HandlesPlaced /\ FeedRight

LEMMA Distinct ==
  ASSUME StatsInv
  PROVE  /\ NoValue # Absent /\ Keep # New /\ Keep # NoValue /\ Keep # Absent
         /\ New # NoValue /\ New # Absent
         /\ NoValue \notin Values /\ Absent \notin Values /\ Keep \notin Values /\ New \notin Values
         /\ Yp \notin Mounts /\ NoEntry \notin Mounts /\ NoEntry # Yp
  BY DEF StatsInv, Apart

LEMMA StatsInit == Apart /\ Init => StatsInv
  <1> SUFFICES ASSUME Apart, Init PROVE StatsInv
    OBVIOUS
  <1> USE DEF Apart, Init, NoStats, OffWatch
  <1>1. TypeOK
    BY DEF TypeOK, Actors, Shown
  <1>2. EntriesPlaced /\ HandlesPlaced
    BY DEF EntriesPlaced, HandlesPlaced, Actors
  <1>3. FeedRight
    BY DEF FeedRight, CopyRight, GlobalShown, EntryShown, GoneShown, Hears
  <1> QED  BY <1>1, <1>2, <1>3 DEF StatsInv

WatchType ==
  [at : {"off", "listed", "copies", "on"}, view : [Mounts -> Shown],
   pend : [Mounts -> Shown \cup {Keep, New}], todo : SUBSET Entries, glob : Values \cup {NoValue},
   gpend : Values \cup {NoValue, Keep}, admin : BOOLEAN, deaf : BOOLEAN, error : BOOLEAN]
EntryType ==
  [mount : Mounts \cup {NoEntry}, where : {"free", "tree", "cut"}, hidden : BOOLEAN,
   val : Values \cup {NoValue}, updated : {"kept", "mark", "old"}, owner : Actors \cup {NoEntry}]
HoldType == [at : {"out", "none", "locked", "kept", "gap", "cut"}, on : Entries \cup {NoEntry}]

LEMMA StatsTypes ==
  TypeOK <=> /\ entry \in [Entries -> EntryType] /\ hold \in [Actors -> HoldType]
               /\ watch \in [Watchers -> WatchType]
               /\ global_stat \in [val : Values \cup {NoValue}, due : BOOLEAN]
               /\ aborted \in BOOLEAN
  BY DEF TypeOK, WatchType, EntryType, HoldType

LEMMA StatsTypesNext ==
  ASSUME entry' \in [Entries -> EntryType], hold' \in [Actors -> HoldType],
         watch' \in [Watchers -> WatchType],
         global_stat' \in [val : Values \cup {NoValue}, due : BOOLEAN], aborted' \in BOOLEAN
  PROVE  TypeOK'
  BY DEF TypeOK, WatchType, EntryType, HoldType

(* Another value, and what else is said of an entry with it.               *)
LEMMA Rewritten ==
  ASSUME NEW x \in EntryType, NEW m \in Mounts, NEW v \in Values \cup {NoValue}, NEW h \in BOOLEAN,
         NEW u \in {"kept", "mark", "old"}
  PROVE  /\ [x EXCEPT !.mount = m, !.where = "tree", !.val = v] \in EntryType
         /\ [x EXCEPT !.mount = m, !.where = "tree", !.val = v, !.updated = u, !.hidden = h] \in EntryType
  BY DEF EntryType

(* A line put behind what a watcher has, or has to come.                   *)
LEMMA Lined ==
  ASSUME StatsInv, NEW w \in Watchers, NEW m \in Mounts, NEW line \in Shown \cup {New},
         watch'[w] = Line(w, m, line)
  PROVE  /\ watch'[w] \in WatchType
         /\ watch'[w].at = watch[w].at /\ watch'[w].todo = watch[w].todo
         /\ watch'[w].glob = watch[w].glob /\ watch'[w].gpend = watch[w].gpend
         /\ watch'[w].admin = watch[w].admin /\ watch'[w].deaf = watch[w].deaf
         /\ watch'[w].error = watch[w].error
         /\ \A n \in Mounts \ {m} : watch'[w].view[n] = watch[w].view[n]
                                    /\ watch'[w].pend[n] = watch[w].pend[n]
         /\ watch[w].at = "on" => watch'[w].view[m] = After(watch[w].view[m], line)
                                  /\ watch'[w].pend[m] = watch[w].pend[m]
         /\ watch[w].at # "on" => watch'[w].pend[m] = After(watch[w].pend[m], line)
                                  /\ watch'[w].view[m] = watch[w].view[m]
  <1>1. watch[w] \in WatchType
    BY StatsTypes DEF StatsInv
  <1>2. After(watch[w].view[m], line) \in Shown
        /\ After(watch[w].pend[m], line) \in Shown \cup {Keep, New}
    BY <1>1, Distinct DEF After, Shown, WatchType
  <1>3. CASE watch[w].at = "on"
    BY <1>1, <1>2, <1>3 DEF Line, WatchType
  <1>4. CASE watch[w].at # "on"
    BY <1>1, <1>2, <1>4 DEF Line, WatchType
  <1> QED  BY <1>3, <1>4

(* Those told are those that hear and may know.                            *)
LEMMA ToldAre ==
  ASSUME StatsInv, NEW w \in Watchers, NEW h \in BOOLEAN
  PROVE  w \in Told(h) <=> Hears(w) /\ (watch[w].admin \/ ~h)
  <1>1. watch[w] \in WatchType /\ ~watch[w].deaf
    BY StatsTypes DEF StatsInv, FeedRight, CopyRight
  <1> QED  BY <1>1 DEF Told, Hears, WatchType

LEMMA SentTo ==
  ASSUME StatsInv, NEW h \in BOOLEAN, NEW m \in Mounts, NEW line, Send(h, m, line),
         NEW w \in Watchers
  PROVE  watch'[w] = IF Hears(w) /\ (watch[w].admin \/ ~h) THEN Line(w, m, line) ELSE watch[w]
  BY ToldAre DEF Send

(* No entry but e is of the mount of e.                                    *)
LEMMA OthersElsewhere ==
  ASSUME StatsInv, NEW m \in Mounts, NEW e \in Entries, NEW f \in Entries \ {e},
         InTree(m) # {} => e \in InTree(m), entry[f].where = "tree"
  PROVE  entry[f].mount # m /\ entry[f].mount \in Mounts
  BY DEF StatsInv, EntriesPlaced, InTree

(* A stat of a mountpoint is set, and all are told who may know.           *)
LEMMA SetStep ==
  ASSUME StatsInv, NEW m \in Mounts, NEW e \in Entries, NEW v \in Values \cup {NoValue},
         entry' \in [Entries -> EntryType],
         \A f \in Entries \ {e} : entry'[f] = entry[f],
         InTree(m) # {} => e \in InTree(m),
         InTree(m) = {} => entry[e].where = "free" /\ ~Copying,
         entry'[e].where = "tree", entry'[e].mount = m, entry'[e].val = v,
         entry'[e].hidden => entry[e].hidden,
         Send(entry'[e].hidden, m, v), UNCHANGED <<hold, global_stat>>
  PROVE  FeedRight' /\ watch' \in [Watchers -> WatchType]
  <1> DEFINE h == entry'[e].hidden
  <1>h. h \in BOOLEAN
    BY DEF EntryType
  <1>v. v \in Shown /\ v # New /\ v # Keep /\ v # Absent
    BY Distinct DEF Shown
  <1>0. ASSUME NEW w \in Watchers
        PROVE  watch'[w] = IF Hears(w) /\ (watch[w].admin \/ ~h) THEN Line(w, m, v) ELSE watch[w]
    <2> HIDE DEF h
    <2> QED  BY <1>h, SentTo DEF h
  <1>1. ASSUME NEW f \in Entries \ {e}, entry'[f].where = "tree"
        PROVE  entry'[f].mount # m /\ entry[f].mount \in Mounts /\ entry'[f] = entry[f]
    BY <1>1, OthersElsewhere
  <1>2. ASSUME NEW n \in Mounts PROVE InTree(n)' = {} => InTree(n) = {} /\ n # m
    BY DEF InTree
  <1>3. ASSUME NEW w \in Watchers
        PROVE  /\ CopyRight(w)' /\ GlobalShown(w)' /\ watch'[w] \in WatchType
               /\ \A f \in Entries : EntryShown(w, f)'
               /\ \A n \in Mounts : GoneShown(w, n)'
    <2>0. /\ CopyRight(w) /\ GlobalShown(w) /\ (\A f \in Entries : EntryShown(w, f))
          /\ (\A n \in Mounts : GoneShown(w, n)) /\ watch[w] \in WatchType
      BY StatsTypes DEF StatsInv, FeedRight
    <2>1. CASE Hears(w) /\ (watch[w].admin \/ ~h)
      <3> DEFINE wt == watch'[w]
      <3>0. watch'[w] = Line(w, m, v) /\ TypeOK
        BY <1>0, <2>1 DEF StatsInv
      <3>1. /\ watch'[w] \in WatchType
            /\ watch'[w].at = watch[w].at /\ watch'[w].todo = watch[w].todo
            /\ watch'[w].glob = watch[w].glob /\ watch'[w].gpend = watch[w].gpend
            /\ watch'[w].admin = watch[w].admin /\ watch'[w].deaf = watch[w].deaf
            /\ watch'[w].error = watch[w].error
            /\ \A n \in Mounts \ {m} : watch'[w].view[n] = watch[w].view[n]
                                       /\ watch'[w].pend[n] = watch[w].pend[n]
            /\ watch[w].at = "on" => watch'[w].view[m] = After(watch[w].view[m], v)
            /\ watch[w].at # "on" => watch'[w].pend[m] = After(watch[w].pend[m], v)
                                     /\ watch'[w].view[m] = watch[w].view[m]
        BY <1>v, <3>0, Lined
      <3>2. watch[w].at = "on" => watch'[w].view[m] = v
        BY <1>v, <3>1 DEF After
      <3>3. watch[w].at # "on" => watch'[w].pend[m] = v
        BY <1>v, <3>1 DEF After
      <3>4. CopyRight(w)'
        <4>1. watch[w].at # "off" /\ (watch[w].at = "listed" => watch[w].todo = {})
          BY <2>0, <2>1 DEF CopyRight, Hears
        <4>2. ASSUME watch[w].at = "copies"
              PROVE  /\ \A f \in watch[w].todo : entry'[f].where = "tree" /\ watch'[w].view[entry'[f].mount] = NoValue
                     /\ \A n \in Mounts : InTree(n)' = {} => watch'[w].view[n] = Absent
          <5>1. e \in InTree(m)
            BY <4>2 DEF Copying
          <5>2. \A n \in Mounts : watch'[w].view[n] = watch[w].view[n]
            BY <3>1, <4>2
          <5>3. ASSUME NEW f \in watch[w].todo
                PROVE  f \in Entries /\ entry'[f].where = "tree" /\ entry'[f].mount = entry[f].mount
                       /\ entry[f].mount \in Mounts
            <6>1. f \in Entries /\ entry[f].where = "tree"
              BY <2>0, <4>2 DEF CopyRight, WatchType
            <6> QED  BY <1>1, <5>1, <6>1 DEF InTree
          <5> QED  BY <1>2, <2>0, <4>2, <5>2, <5>3 DEF CopyRight
        <4>3. ~watch[w].deaf
          BY <2>0 DEF CopyRight
        <4>4. watch'[w].at # "off" /\ (watch'[w].at = "listed" => watch'[w].todo = {}) /\ ~watch'[w].deaf
          BY <3>1, <4>1, <4>3
        <4>5. ASSUME watch'[w].at = "copies"
              PROVE  /\ \A f \in watch'[w].todo : entry'[f].where = "tree" /\ watch'[w].view[entry'[f].mount] = NoValue
                     /\ \A n \in Mounts : InTree(n)' = {} => watch'[w].view[n] = Absent
          <5>1. watch[w].at = "copies" /\ watch'[w].todo = watch[w].todo
            BY <3>1, <4>5
          <5> QED  BY <4>2, <5>1
        <4> HIDE DEF wt, h
        <4> QED  BY <4>4, <4>5 DEF CopyRight
      <3>5. GlobalShown(w)'
        BY <2>0, <3>1 DEF GlobalShown, Hears
      <3>6. ASSUME NEW f \in Entries PROVE EntryShown(w, f)'
        <4>1. CASE f = e
          <5>1. WillShow(w, e)' = v
            BY <1>v, <3>1, <3>2, <3>3 DEF WillShow, ReadAfter, After
          <5> QED  BY <4>1, <5>1 DEF EntryShown
        <4>2. CASE f # e /\ entry'[f].where = "tree"
          <5>1. entry'[f].mount # m /\ entry[f].mount \in Mounts /\ entry'[f] = entry[f]
            BY <1>1, <4>2
          <5>2. WillShow(w, f)' = WillShow(w, f)
            BY <3>1, <5>1 DEF WillShow, ReadAfter, Base, After
          <5> QED  BY <2>0, <2>1, <3>1, <5>1, <5>2 DEF EntryShown, Hears
        <4>3. CASE entry'[f].where # "tree"
          BY <4>3 DEF EntryShown
        <4> QED  BY <4>1, <4>2, <4>3
      <3>7. ASSUME NEW n \in Mounts PROVE GoneShown(w, n)'
        BY <1>2, <2>0, <3>1 DEF GoneShown, Hears
      <3> QED  BY <3>1, <3>4, <3>5, <3>6, <3>7
    <2>2. CASE ~(Hears(w) /\ (watch[w].admin \/ ~h))
      <3>1. watch'[w] = watch[w]
        BY <1>0, <2>2
      <3>2. CopyRight(w)'
        <4>1. ASSUME watch[w].at = "copies"
              PROVE  /\ \A f \in watch[w].todo : entry'[f].where = "tree" /\ watch[w].view[entry'[f].mount] = NoValue
                     /\ \A n \in Mounts : InTree(n)' = {} => watch[w].view[n] = Absent
          <5>1. e \in InTree(m)
            BY <4>1 DEF Copying
          <5>3. ASSUME NEW f \in watch[w].todo
                PROVE  f \in Entries /\ entry'[f].where = "tree" /\ entry'[f].mount = entry[f].mount
            <6>1. f \in Entries /\ entry[f].where = "tree"
              BY <2>0, <4>1 DEF CopyRight, WatchType
            <6> QED  BY <1>1, <5>1, <6>1 DEF InTree
          <5> QED  BY <1>2, <2>0, <4>1, <5>3 DEF CopyRight
        <4> QED  BY <2>0, <3>1, <4>1 DEF CopyRight, OffWatch
      <3>3. GlobalShown(w)' /\ \A n \in Mounts : GoneShown(w, n)'
        BY <1>2, <2>0, <3>1 DEF GlobalShown, GoneShown, Hears
      <3>4. ASSUME NEW f \in Entries PROVE EntryShown(w, f)'
        <4>1. CASE f = e
          BY <2>2, <3>1, <4>1 DEF EntryShown, Hears
        <4>2. CASE f # e
          <5>1. entry'[f] = entry[f]
            BY <4>2
          <5>2. WillShow(w, f)' = WillShow(w, f)
            BY <3>1, <5>1 DEF WillShow, ReadAfter, Base, After
          <5> QED  BY <2>0, <3>1, <5>1, <5>2 DEF EntryShown, Hears
        <4> QED  BY <4>1, <4>2
      <3> QED  BY <2>0, <3>1, <3>2, <3>3, <3>4
    <2> QED  BY <2>1, <2>2
  <1>4. watch' \in [Watchers -> WatchType]
    BY <1>3 DEF Send
  <1> QED  BY <1>3, <1>4 DEF FeedRight

(* An entry goes, and those are told that it is gone who may know.         *)
LEMMA GoneStep ==
  ASSUME StatsInv, NEW m \in Mounts, NEW e \in Entries,
         entry' = [entry EXCEPT ![e] = NoStats],
         Send(entry[e].hidden, m, Absent), UNCHANGED global_stat,
         hold' \in [Actors -> HoldType], \A n \in Mounts \ {m} : hold'[n] = hold[n],
         \/ e \in InTree(m) /\ ~Copying /\ hold' = hold
         \/ e \notin InTree(m) /\ entry[e].where = "cut" /\ hold[m].at = "cut" /\ entry[e].mount = m
  PROVE  FeedRight' /\ watch' \in [Watchers -> WatchType]
  <1> DEFINE h == entry[e].hidden
  <1>h. h \in BOOLEAN
    BY StatsTypes DEF StatsInv, EntryType
  <1>v. Absent \in Shown /\ Absent # New /\ Absent # Keep /\ Absent # NoValue
    BY Distinct DEF Shown
  <1>0. ASSUME NEW w \in Watchers
        PROVE  watch'[w] = IF Hears(w) /\ (watch[w].admin \/ ~h) THEN Line(w, m, Absent) ELSE watch[w]
    <2> HIDE DEF h
    <2> QED  BY <1>h, SentTo DEF h
  <1>1. ASSUME NEW f \in Entries, entry'[f].where = "tree"
        PROVE  f # e /\ entry'[f] = entry[f] /\ entry[f].mount \in Mounts
    <2>1. f # e /\ entry'[f] = entry[f]
      BY <1>1, StatsTypes DEF NoStats, StatsInv
    <2> QED  BY <1>1, <2>1 DEF StatsInv, EntriesPlaced
  <1>2. ASSUME NEW f \in Entries, entry'[f].where = "tree", entry[f].mount = m
        PROVE  hold[m].at = "cut" /\ entry'[f].hidden
    <2>1. f # e /\ entry'[f] = entry[f]
      BY <1>1, <1>2
    <2>2. e \notin InTree(m)
      BY <1>2, <2>1 DEF InTree, StatsInv, EntriesPlaced
    <2> QED  BY <1>2, <2>1, <2>2 DEF StatsInv, HandlesPlaced, InTree
  <1>3. ASSUME NEW n \in Mounts \ {m} PROVE InTree(n)' = InTree(n)
    BY StatsTypes DEF InTree, NoStats, StatsInv
  <1>4. InTree(m)' = InTree(m) \/ (~Copying /\ hold' = hold)
    BY StatsTypes DEF InTree, NoStats, StatsInv
  <1>5. ASSUME NEW w \in Watchers
        PROVE  /\ CopyRight(w)' /\ GlobalShown(w)' /\ watch'[w] \in WatchType
               /\ \A f \in Entries : EntryShown(w, f)'
               /\ \A n \in Mounts : GoneShown(w, n)'
    <2>0. /\ CopyRight(w) /\ GlobalShown(w) /\ (\A f \in Entries : EntryShown(w, f))
          /\ (\A n \in Mounts : GoneShown(w, n)) /\ watch[w] \in WatchType
      BY StatsTypes DEF StatsInv, FeedRight
    <2>1. /\ watch'[w] \in WatchType
          /\ watch'[w].at = watch[w].at /\ watch'[w].todo = watch[w].todo
          /\ watch'[w].glob = watch[w].glob /\ watch'[w].gpend = watch[w].gpend
          /\ watch'[w].admin = watch[w].admin /\ watch'[w].deaf = watch[w].deaf
          /\ watch'[w].error = watch[w].error
          /\ \A n \in Mounts \ {m} : watch'[w].view[n] = watch[w].view[n]
                                     /\ watch'[w].pend[n] = watch[w].pend[n]
          /\ watch[w].at # "on" => watch'[w].view[m] = watch[w].view[m]
          /\ ~Hears(w) => watch'[w] = watch[w]
      <3>1. CASE Hears(w) /\ (watch[w].admin \/ ~h)
        <4>1. watch'[w] = Line(w, m, Absent) /\ TypeOK
          BY <1>0, <3>1 DEF StatsInv
        <4> QED  BY <1>v, <3>1, <4>1, Lined
      <3>2. CASE ~(Hears(w) /\ (watch[w].admin \/ ~h))
        <4>1. watch'[w] = watch[w]
          BY <1>0, <3>2
        <4> QED  BY <2>0, <4>1
      <3> QED  BY <3>1, <3>2
    <2>2. ASSUME Hears(w), watch[w].admin
          PROVE  IF watch[w].at = "on" THEN watch'[w].view[m] = Absent ELSE watch'[w].pend[m] = Absent
      <3>1. watch'[w] = Line(w, m, Absent) /\ TypeOK
        BY <1>0, <2>2 DEF StatsInv
      <3>2. /\ watch[w].at = "on" => watch'[w].view[m] = After(watch[w].view[m], Absent)
            /\ watch[w].at # "on" => watch'[w].pend[m] = After(watch[w].pend[m], Absent)
        BY <1>v, <3>1, Lined
      <3> QED  BY <1>v, <3>2 DEF After
    <2>3. Hears(w)' = Hears(w)
      BY <2>1 DEF Hears
    <2>4. CopyRight(w)'
      <3>1. ASSUME watch[w].at = "copies"
            PROVE  /\ \A f \in watch[w].todo : entry'[f].where = "tree" /\ watch'[w].view[entry'[f].mount] = NoValue
                   /\ \A n \in Mounts : InTree(n)' = {} => watch'[w].view[n] = Absent
        <4>1. InTree(m)' = InTree(m) /\ entry[e].where = "cut" /\ Copying
          BY <1>4, <3>1 DEF Copying
        <4>2. \A n \in Mounts : watch'[w].view[n] = watch[w].view[n] /\ InTree(n)' = InTree(n)
          BY <1>3, <2>1, <3>1, <4>1
        <4>3. ASSUME NEW f \in watch[w].todo
              PROVE  f \in Entries /\ entry'[f].where = "tree" /\ entry'[f].mount = entry[f].mount
                     /\ entry[f].mount \in Mounts /\ watch[w].view[entry[f].mount] = NoValue
          <5>1. f \in Entries /\ entry[f].where = "tree" /\ watch[w].view[entry[f].mount] = NoValue
            BY <2>0, <3>1 DEF CopyRight, WatchType
          <5>2. f # e /\ entry'[f] = entry[f]
            BY <4>1, <5>1, StatsTypes DEF StatsInv
          <5> QED  BY <5>1, <5>2 DEF StatsInv, EntriesPlaced
        <4> QED  BY <2>0, <3>1, <4>2, <4>3 DEF CopyRight
      <3>2. watch[w].at = "off" => watch'[w] = OffWatch
        BY <2>0, <2>1 DEF CopyRight, Hears
      <3>3. /\ watch'[w].at = "listed" => watch'[w].todo = {}
            /\ ~watch'[w].deaf
        BY <2>0, <2>1 DEF CopyRight
      <3>4. ASSUME watch'[w].at = "copies"
            PROVE  /\ \A f \in watch'[w].todo : entry'[f].where = "tree" /\ watch'[w].view[entry'[f].mount] = NoValue
                   /\ \A n \in Mounts : InTree(n)' = {} => watch'[w].view[n] = Absent
        <4>1. watch[w].at = "copies" /\ watch'[w].todo = watch[w].todo
          BY <2>1, <3>4
        <4> QED  BY <3>1, <4>1
      <3> HIDE DEF h
      <3> QED  BY <2>1, <3>2, <3>3, <3>4 DEF CopyRight
    <2>5. GlobalShown(w)'
      BY <2>0, <2>1, <2>3 DEF GlobalShown
    <2>6. ASSUME NEW f \in Entries PROVE EntryShown(w, f)'
      <3>1. CASE entry'[f].where # "tree"
        BY <3>1 DEF EntryShown
      <3>2. CASE entry'[f].where = "tree" /\ entry[f].mount = m
        <4>1. f # e /\ entry'[f] = entry[f] /\ entry'[f].hidden
          BY <1>1, <1>2, <3>2
        <4>2. ASSUME Hears(w), watch[w].admin PROVE WillShow(w, f)' = Absent
          BY <1>v, <2>1, <2>2, <3>2, <4>1, <4>2 DEF WillShow, ReadAfter, After
        <4> QED  BY <2>1, <2>3, <4>1, <4>2 DEF EntryShown
      <3>3. CASE entry'[f].where = "tree" /\ entry[f].mount # m
        <4>1. f # e /\ entry'[f] = entry[f] /\ entry[f].mount \in Mounts
          BY <1>1, <3>3
        <4>2. WillShow(w, f)' = WillShow(w, f)
          BY <2>1, <3>3, <4>1 DEF WillShow, ReadAfter, Base, After
        <4> QED  BY <2>0, <2>1, <2>3, <3>3, <4>1, <4>2 DEF EntryShown
      <3> QED  BY <3>1, <3>2, <3>3
    <2>7. ASSUME NEW n \in Mounts PROVE GoneShown(w, n)'
      <3>1. CASE n = m
        BY <2>1, <2>2, <2>3, <3>1 DEF GoneShown
      <3>2. CASE n # m
        BY <1>3, <2>0, <2>1, <2>3, <3>2 DEF GoneShown
      <3> QED  BY <3>1, <3>2
    <2> QED  BY <2>1, <2>4, <2>5, <2>6, <2>7
  <1>6. watch' \in [Watchers -> WatchType]
    BY <1>5 DEF Send
  <1> QED  BY <1>5, <1>6 DEF FeedRight

(* An entry is hidden, or shown with what it has, and all are told.        *)
LEMMA HidesStep ==
  ASSUME StatsInv, NEW m \in Mounts, Hides(m)
  PROVE  FeedRight' /\ watch' \in [Watchers -> WatchType]
  <1>0. PICK e \in Entries :
          /\ e = hold[m].on /\ entry[e].where = "tree" /\ entry[e].mount = m /\ hold[m].at = "locked"
          /\ entry' = [entry EXCEPT ![e].hidden = ~entry[e].hidden]
          /\ entry \in [Entries -> EntryType] /\ UNCHANGED <<hold, global_stat>>
    BY StatsTypes DEF StatsInv, HandlesPlaced, Hides
  <1> DEFINE line == IF ~entry[e].hidden THEN Absent
                     ELSE IF entry[e].val = NoValue THEN New ELSE entry[e].val
  <1>v. line \in Shown \cup {New} /\ line # Keep
    BY <1>0, Distinct DEF Shown, EntryType
  <1>1. ASSUME NEW w \in Watchers
        PROVE  watch'[w] = IF Hears(w) THEN Line(w, m, line) ELSE watch[w]
    <2>1. w \in Told(FALSE) <=> Hears(w)
      BY ToldAre
    <2> QED  BY <1>0, <2>1 DEF Hides
  <1>2. ASSUME NEW f \in Entries
        PROVE  /\ entry'[f].where = entry[f].where /\ entry'[f].mount = entry[f].mount
               /\ entry'[f].val = entry[f].val
               /\ entry'[f].hidden = IF f = e THEN ~entry[f].hidden ELSE entry[f].hidden
    BY <1>0 DEF EntryType
  <1>3. \A n \in Mounts : InTree(n)' = InTree(n)
    BY <1>2 DEF InTree
  <1>4. ASSUME NEW f \in Entries \ {e}, entry[f].where = "tree"
        PROVE  entry[f].mount # m /\ entry[f].mount \in Mounts
    BY <1>0, <1>4, OthersElsewhere DEF InTree
  <1> HIDE DEF line
  <1>5. ASSUME NEW w \in Watchers
        PROVE  /\ CopyRight(w)' /\ GlobalShown(w)' /\ watch'[w] \in WatchType
               /\ \A f \in Entries : EntryShown(w, f)'
               /\ \A n \in Mounts : GoneShown(w, n)'
    <2>0. /\ CopyRight(w) /\ GlobalShown(w) /\ (\A f \in Entries : EntryShown(w, f))
          /\ (\A n \in Mounts : GoneShown(w, n)) /\ watch[w] \in WatchType /\ TypeOK
      BY StatsTypes DEF StatsInv, FeedRight
    <2>1. CASE Hears(w)
      <3>1. /\ watch'[w] \in WatchType
            /\ watch'[w].at = watch[w].at /\ watch'[w].todo = watch[w].todo
            /\ watch'[w].glob = watch[w].glob /\ watch'[w].gpend = watch[w].gpend
            /\ watch'[w].admin = watch[w].admin /\ watch'[w].deaf = watch[w].deaf
            /\ watch'[w].error = watch[w].error
            /\ \A n \in Mounts \ {m} : watch'[w].view[n] = watch[w].view[n]
                                       /\ watch'[w].pend[n] = watch[w].pend[n]
            /\ watch[w].at = "on" => watch'[w].view[m] = After(watch[w].view[m], line)
            /\ watch[w].at # "on" => watch'[w].pend[m] = After(watch[w].pend[m], line)
                                     /\ watch'[w].view[m] = watch[w].view[m]
        BY <1>1, <1>v, <2>0, <2>1, Lined
      <3>2. CopyRight(w)'
        <4>1. \A n \in Mounts : watch[w].at = "copies" => watch'[w].view[n] = watch[w].view[n]
          BY <3>1
        <4>2. ASSUME watch'[w].at = "copies"
              PROVE  /\ \A f \in watch'[w].todo : entry'[f].where = "tree" /\ watch'[w].view[entry'[f].mount] = NoValue
                     /\ \A n \in Mounts : InTree(n)' = {} => watch'[w].view[n] = Absent
          <5>1. watch[w].at = "copies" /\ watch'[w].todo = watch[w].todo
            BY <3>1, <4>2
          <5>2. ASSUME NEW f \in watch[w].todo
                PROVE  f \in Entries /\ entry[f].where = "tree" /\ entry[f].mount \in Mounts
                       /\ watch[w].view[entry[f].mount] = NoValue
            BY <2>0, <5>1 DEF CopyRight, WatchType, StatsInv, EntriesPlaced
          <5> QED  BY <1>2, <1>3, <2>0, <4>1, <5>1, <5>2 DEF CopyRight
        <4>3. /\ watch'[w].at # "off" /\ (watch'[w].at = "listed" => watch'[w].todo = {})
              /\ ~watch'[w].deaf
          BY <2>0, <2>1, <3>1 DEF CopyRight, Hears
        <4> QED  BY <4>2, <4>3 DEF CopyRight
      <3>3. GlobalShown(w)'
        BY <1>0, <2>0, <3>1 DEF GlobalShown, Hears
      <3>4. ASSUME NEW n \in Mounts PROVE GoneShown(w, n)'
        <4>1. n = m => InTree(n) # {}
          BY <1>0 DEF InTree
        <4> QED  BY <1>0, <1>3, <2>0, <3>1, <4>1 DEF GoneShown, Hears
      <3>5. ASSUME NEW f \in Entries \ {e} PROVE EntryShown(w, f)'
        <4>1. CASE entry[f].where = "tree"
          <5>1. entry[f].mount # m /\ entry[f].mount \in Mounts
            BY <1>4, <4>1
          <5>2. WillShow(w, f)' = WillShow(w, f)
            BY <1>2, <3>1, <5>1 DEF WillShow, ReadAfter, Base, After
          <5> QED  BY <1>0, <1>2, <2>0, <3>1, <5>2 DEF EntryShown, Hears
        <4>2. CASE entry[f].where # "tree"
          BY <1>2, <4>2 DEF EntryShown
        <4> QED  BY <4>1, <4>2
      <3>6. EntryShown(w, e)'
        <4>1. CASE ~entry[e].hidden
          <5>1. line = Absent
            BY <4>1 DEF line
          <5>2. WillShow(w, e)' = Absent
            BY <1>0, <1>2, <3>1, <5>1, Distinct DEF WillShow, ReadAfter, After
          <5> QED  BY <1>0, <1>2, <4>1, <5>2 DEF EntryShown
        <4>2. CASE entry[e].hidden /\ entry[e].val # NoValue
          <5>1. line = entry[e].val /\ line # New /\ line # Keep
            BY <1>0, <4>2, Distinct DEF line, EntryType
          <5>2. WillShow(w, e)' = line
            BY <1>0, <1>2, <3>1, <5>1 DEF WillShow, ReadAfter, After
          <5> QED  BY <1>0, <1>2, <4>2, <5>1, <5>2 DEF EntryShown
        <4>3. CASE entry[e].hidden /\ entry[e].val = NoValue
          <5> SUFFICES ASSUME watch[w].admin PROVE WillShow(w, e)' = NoValue
            BY <1>0, <1>2, <3>1, <4>3 DEF EntryShown
          <5>1. line = New
            BY <4>3 DEF line
          <5>2. WillShow(w, e) \in {NoValue, Absent}
            BY <1>0, <2>0, <2>1, <4>3 DEF EntryShown
          <5>3. CASE watch[w].at = "on"
            <6>1. watch'[w].view[m] = After(watch[w].view[m], New) /\ watch[w].view[m] \in {NoValue, Absent}
              BY <1>0, <3>1, <5>1, <5>2, <5>3 DEF WillShow
            <6>2. watch'[w].view[m] = NoValue
              BY <6>1, Distinct DEF After
            <6> QED  BY <1>0, <1>2, <3>1, <5>3, <6>2 DEF WillShow
          <5>4. CASE watch[w].at # "on"
            <6> DEFINE b == Base(w, e)
                       p == watch[w].pend[m]
            <6>1. Base(w, e)' = b
              BY <1>0, <1>2, <3>1, <5>4 DEF Base
            <6>2. watch'[w].pend[m] = After(p, New)
              BY <3>1, <5>1, <5>4
            <6>3. WillShow(w, e)' = ReadAfter(b, After(p, New))
              BY <1>0, <1>2, <3>1, <5>4, <6>1, <6>2 DEF WillShow
            <6>4. WillShow(w, e) = ReadAfter(b, p)
              BY <1>0, <5>4 DEF WillShow
            <6>5. b \in Shown
              BY <1>0, <2>0 DEF Base, Shown, EntryType, WatchType
            <6>6. p \in Shown \cup {Keep, New}
              BY <2>0 DEF WatchType
            <6> HIDE DEF b, p
            <6> QED  BY <5>2, <6>3, <6>4, <6>5, <6>6, Distinct DEF ReadAfter, After, Shown
          <5> QED  BY <5>3, <5>4
        <4> QED  BY <4>1, <4>2, <4>3
      <3> QED  BY <3>1, <3>2, <3>3, <3>4, <3>5, <3>6
    <2>2. CASE ~Hears(w)
      <3>1. watch'[w] = watch[w]
        BY <1>1, <2>2
      <3>2. watch[w].at = "copies" => \A f \in watch[w].todo : f \in Entries
        BY <2>0 DEF WatchType
      <3>3. CopyRight(w)'
        BY <1>2, <1>3, <2>0, <3>1, <3>2 DEF CopyRight, OffWatch
      <3> QED  BY <2>0, <2>2, <3>1, <3>3 DEF GlobalShown, EntryShown, GoneShown, Hears
    <2> QED  BY <2>1, <2>2
  <1>6. watch' \in [Watchers -> WatchType]
    BY <1>5 DEF Hides
  <1> QED  BY <1>5, <1>6 DEF FeedRight

(* Nothing changes that a watcher is told of.                              *)
LEMMA QuietStep ==
  ASSUME StatsInv, UNCHANGED <<watch, global_stat>>,
         \A f \in Entries : /\ entry'[f].where = entry[f].where /\ entry'[f].mount = entry[f].mount
                            /\ entry'[f].val = entry[f].val /\ entry'[f].hidden = entry[f].hidden,
         \A n \in Mounts : hold'[n].at = "cut" <=> hold[n].at = "cut"
  PROVE  FeedRight'
  <1>1. \A n \in Mounts : InTree(n)' = InTree(n)
    BY DEF InTree
  <1>2. ASSUME NEW w \in Watchers, NEW f \in Entries PROVE EntryShown(w, f)'
    <2>1. EntryShown(w, f) /\ (entry[f].where = "tree" => entry[f].mount \in Mounts)
      BY DEF StatsInv, FeedRight, EntriesPlaced
    <2>2. WillShow(w, f)' = WillShow(w, f)
      BY DEF WillShow, Base, ReadAfter, After
    <2> QED  BY <2>1, <2>2 DEF EntryShown, Hears
  <1>3. ASSUME NEW w \in Watchers PROVE CopyRight(w)' /\ GlobalShown(w)'
    <2>1. CopyRight(w) /\ GlobalShown(w) /\ watch[w].todo \subseteq Entries
      BY StatsTypes DEF StatsInv, FeedRight, WatchType
    <2> QED  BY <1>1, <2>1 DEF CopyRight, GlobalShown, Hears, OffWatch
  <1>4. ASSUME NEW w \in Watchers, NEW n \in Mounts PROVE GoneShown(w, n)'
    BY <1>1 DEF StatsInv, FeedRight, GoneShown, Hears
  <1> QED  BY <1>2, <1>3, <1>4 DEF FeedRight

StatsTyped ==
  /\ entry \in [Entries -> EntryType] /\ hold \in [Actors -> HoldType]
  /\ global_stat \in [val : Values \cup {NoValue}, due : BOOLEAN] /\ aborted \in BOOLEAN
Placed == StatsTyped /\ EntriesPlaced /\ HandlesPlaced

LEMMA PlacedNow == StatsInv => Placed /\ Yp \in Actors /\ Mounts \subseteq Actors
  BY StatsTypes DEF StatsInv, Placed, StatsTyped, Actors

(* An entry of the mountpoint, found or made, is written to.               *)
Write(m, e) ==
  /\ IF InTree(m) # {} THEN e \in InTree(m) /\ entry[e].owner = NoEntry
     ELSE entry[e].where = "free" /\ ~Copying
  /\ \A f \in Entries \ {e} : entry'[f] = entry[f]
  /\ entry'[e].where = "tree" /\ entry'[e].mount = m

LEMMA WriteFacts ==
  ASSUME StatsInv, NEW m \in Mounts, NEW e \in Entries, Write(m, e)
  PROVE  /\ entry[e].owner = NoEntry
         /\ \A f \in Entries \ {e} : entry[f].where = "tree" => entry[f].mount # m
         /\ \A n \in Mounts \ {m} : hold[n].at \in {"locked", "kept", "gap", "cut"} => hold[n].on # e
         /\ hold[m].at \in {"locked", "kept", "gap"} => hold[m].on = e /\ e \in InTree(m)
         /\ \A a \in Actors : hold[a].at = "locked" => hold[a].on # e
         /\ hold[m].at = "cut" => hold[m].on # e /\ entry[e].hidden
         /\ \A n \in Mounts \ {m} : InTree(n)' = InTree(n)
         /\ InTree(m)' = {e}
         /\ e \notin InTree(m) => InTree(m) = {} /\ entry[e] = NoStats /\ ~Copying
  <1>1. Placed /\ (\A n \in Mounts : n \in Actors)
    BY PlacedNow
  <1>2. /\ entry[e].owner = NoEntry
        /\ e \in InTree(m) \/ (InTree(m) = {} /\ entry[e] = NoStats /\ entry[e].where = "free" /\ ~Copying)
    <2>1. CASE InTree(m) # {}
      BY <2>1 DEF Write
    <2>2. CASE InTree(m) = {}
      <3>1. entry[e].where = "free" /\ ~Copying
        BY <2>2 DEF Write
      <3>2. entry[e] = NoStats
        BY <1>1, <3>1 DEF Placed, EntriesPlaced
      <3> QED  BY <2>2, <3>1, <3>2 DEF NoStats
    <2> QED  BY <2>1, <2>2
  <1>3. ASSUME NEW f \in Entries \ {e}, entry[f].where = "tree" PROVE entry[f].mount # m
    BY <1>3, OthersElsewhere DEF Write
  <1>4. ASSUME NEW a \in Actors, hold[a].at = "locked" PROVE hold[a].on # e
    BY <1>1, <1>2, <1>4, Distinct DEF Placed, HandlesPlaced, Actors
  <1>5. ASSUME NEW n \in Mounts \ {m}, hold[n].at \in {"locked", "kept", "gap", "cut"} PROVE hold[n].on # e
    BY <1>1, <1>2, <1>5 DEF Placed, HandlesPlaced, InTree, NoStats
  <1>6. hold[m].at \in {"locked", "kept", "gap"} => hold[m].on = e /\ e \in InTree(m)
    BY <1>1, <1>2 DEF Placed, HandlesPlaced, EntriesPlaced, InTree
  <1>7. hold[m].at = "cut" => hold[m].on # e /\ entry[e].hidden
    BY <1>1, <1>2 DEF Placed, HandlesPlaced, InTree, NoStats
  <1>8. ASSUME NEW n \in Mounts \ {m} PROVE InTree(n)' = InTree(n)
    BY <1>2 DEF Write, InTree, NoStats
  <1>9. InTree(m)' = {e}
    BY <1>3 DEF Write, InTree
  <1> QED  BY <1>2, <1>3, <1>4, <1>5, <1>6, <1>7, <1>8, <1>9

(* ... and nobody's handle is disturbed, when who holds that of its mount  *)
(* finds it kept and, while another waits to be freed, hidden.             *)
LEMMA WritePlaced ==
  ASSUME StatsInv, NEW m \in Mounts, NEW e \in Entries, Write(m, e), StatsTyped',
         entry'[e].owner = NoEntry, hold' = hold,
         hold[m].at \in {"locked", "kept", "gap"} => entry'[e].updated = "kept",
         hold[m].at = "cut" => entry'[e].hidden
  PROVE  EntriesPlaced' /\ HandlesPlaced'
  <1>0. Placed
    BY PlacedNow
  <1>1. EntriesPlaced'
    BY <1>0, WriteFacts DEF Placed, EntriesPlaced, Write
  <1>2. ASSUME NEW a \in Actors, hold[a].at = "locked"
        PROVE  hold[a].on \in Entries /\ entry'[hold[a].on].owner = a /\ entry'[hold[a].on].where = "tree"
    BY <1>0, <1>2, WriteFacts DEF Placed, HandlesPlaced, Write
  <1>3. ASSUME NEW n \in Mounts
        PROVE  /\ hold[n].at \in {"locked", "kept", "gap"} =>
                     /\ hold[n].on \in Entries /\ entry'[hold[n].on].where = "tree"
                     /\ entry'[hold[n].on].mount = n /\ entry'[hold[n].on].updated = "kept"
               /\ hold[n].at = "gap" => entry'[hold[n].on].owner = NoEntry
               /\ hold[n].at = "cut" =>
                    /\ hold[n].on \in Entries /\ entry'[hold[n].on].where = "cut"
                    /\ entry'[hold[n].on].mount = n
                    /\ \A f \in InTree(n)' : entry'[f].hidden
    <2>1. CASE n = m
      BY <1>0, <2>1, WriteFacts DEF Placed, HandlesPlaced, Write
    <2>2. CASE n # m
      <3>1. \A f \in InTree(n)' : f \in InTree(n) /\ f # e /\ f \in Entries
        BY <2>2, WriteFacts DEF InTree, Write
      <3> QED  BY <1>0, <2>2, <3>1, WriteFacts DEF Placed, HandlesPlaced, Write
    <2> QED  BY <2>1, <2>2
  <1>4. HandlesPlaced'
    BY <1>2, <1>3 DEF HandlesPlaced
  <1> QED  BY <1>1, <1>4

LEMMA EventStep ==
  ASSUME StatsInv, NEW m \in Mounts, Event(m) \/ Refresh(m) \/ StaticInit(m)
  PROVE  StatsInv'
  <1>0. Placed
    BY PlacedNow
  <1>1. PICK e \in Entries, v \in Values :
          /\ Write(m, e) /\ entry' \in [Entries -> EntryType] /\ entry'[e].val = v
          /\ entry'[e].owner = entry[e].owner /\ (entry'[e].hidden => entry[e].hidden)
          /\ hold[m].at # "out" => entry'[e].updated = entry[e].updated /\ entry'[e].hidden = entry[e].hidden
          /\ Send(entry'[e].hidden, m, v) /\ UNCHANGED <<hold, global_stat, aborted>>
    <2>1. CASE Event(m)
      <3>1. PICK e \in Entries, v \in Values :
              /\ IF InTree(m) # {} THEN e \in InTree(m) /\ entry[e].owner = NoEntry
                 ELSE entry[e].where = "free" /\ ~Copying
              /\ entry' = [entry EXCEPT ![e].mount = m, ![e].where = "tree", ![e].val = v]
              /\ Send(entry[e].hidden, m, v)
              /\ UNCHANGED <<hold, global_stat, aborted>>
        BY <2>1 DEF Event
      <3>2. entry' = [entry EXCEPT ![e] = [entry[e] EXCEPT !.mount = m, !.where = "tree", !.val = v]]
        BY <1>0, <3>1 DEF Placed, StatsTyped, EntryType
      <3>3. [entry[e] EXCEPT !.mount = m, !.where = "tree", !.val = v] \in EntryType
        BY <1>0, Rewritten DEF Placed, StatsTyped
      <3>4. entry' \in [Entries -> EntryType]
        BY <1>0, <3>2, <3>3 DEF Placed, StatsTyped
      <3>5. /\ \A f \in Entries \ {e} : entry'[f] = entry[f]
            /\ entry'[e].where = "tree" /\ entry'[e].mount = m /\ entry'[e].val = v
            /\ entry'[e].owner = entry[e].owner
        BY <1>0, <3>2 DEF Placed, StatsTyped, EntryType
      <3>6. entry'[e].hidden = entry[e].hidden /\ entry'[e].updated = entry[e].updated
        BY <1>0, <3>2 DEF Placed, StatsTyped, EntryType
      <3>7. Write(m, e)
        BY <3>1, <3>5 DEF Write
      <3> QED  BY <3>1, <3>4, <3>5, <3>6, <3>7
    <2>2. CASE Refresh(m)
      <3>1. PICK e \in Entries, v \in Values :
              /\ IF InTree(m) # {} THEN e \in InTree(m) /\ entry[e].owner = NoEntry
                 ELSE entry[e].where = "free" /\ ~Copying
              /\ entry' = [entry EXCEPT ![e].mount = m, ![e].where = "tree", ![e].val = v,
                                        ![e].updated = "mark", ![e].hidden = FALSE]
              /\ Send(FALSE, m, v)
              /\ hold[m].at = "out" /\ UNCHANGED <<hold, global_stat, aborted>>
        BY <2>2 DEF Refresh
      <3>2. entry' = [entry EXCEPT ![e] = [entry[e] EXCEPT !.mount = m, !.where = "tree", !.val = v,
                                                            !.updated = "mark", !.hidden = FALSE]]
        BY <1>0, <3>1 DEF Placed, StatsTyped, EntryType
      <3>3. [entry[e] EXCEPT !.mount = m, !.where = "tree", !.val = v, !.updated = "mark", !.hidden = FALSE]
              \in EntryType
        BY <1>0, Rewritten DEF Placed, StatsTyped
      <3>4. entry' \in [Entries -> EntryType]
        BY <1>0, <3>2, <3>3 DEF Placed, StatsTyped
      <3>5. /\ \A f \in Entries \ {e} : entry'[f] = entry[f]
            /\ entry'[e].where = "tree" /\ entry'[e].mount = m /\ entry'[e].val = v
            /\ entry'[e].owner = entry[e].owner
        BY <1>0, <3>2 DEF Placed, StatsTyped, EntryType
      <3>6. entry'[e].hidden = FALSE
        BY <1>0, <3>2 DEF Placed, StatsTyped, EntryType
      <3>7. Write(m, e)
        BY <3>1, <3>5 DEF Write
      <3>8. Send(entry'[e].hidden, m, v)
        BY <3>1, <3>6 DEF Send, Told
      <3>9. hold[m].at = "out" /\ UNCHANGED <<hold, global_stat, aborted>>
        BY <3>1
      <3> QED  BY <3>4, <3>5, <3>6, <3>7, <3>8, <3>9
    <2>3. CASE StaticInit(m)
      <3>1. PICK e \in Entries, v \in Values :
              /\ IF InTree(m) # {} THEN e \in InTree(m) /\ entry[e].owner = NoEntry
                 ELSE entry[e].where = "free" /\ ~Copying
              /\ entry' = [entry EXCEPT ![e].mount = m, ![e].where = "tree", ![e].val = v,
                                        ![e].updated = "kept", ![e].hidden = FALSE]
              /\ Send(FALSE, m, v)
              /\ hold[m].at = "out" /\ UNCHANGED <<hold, global_stat, aborted>>
        BY <2>3 DEF StaticInit
      <3>2. entry' = [entry EXCEPT ![e] = [entry[e] EXCEPT !.mount = m, !.where = "tree", !.val = v,
                                                            !.updated = "kept", !.hidden = FALSE]]
        BY <1>0, <3>1 DEF Placed, StatsTyped, EntryType
      <3>3. [entry[e] EXCEPT !.mount = m, !.where = "tree", !.val = v, !.updated = "kept", !.hidden = FALSE]
              \in EntryType
        BY <1>0, Rewritten DEF Placed, StatsTyped
      <3>4. entry' \in [Entries -> EntryType]
        BY <1>0, <3>2, <3>3 DEF Placed, StatsTyped
      <3>5. /\ \A f \in Entries \ {e} : entry'[f] = entry[f]
            /\ entry'[e].where = "tree" /\ entry'[e].mount = m /\ entry'[e].val = v
            /\ entry'[e].owner = entry[e].owner
        BY <1>0, <3>2 DEF Placed, StatsTyped, EntryType
      <3>6. entry'[e].hidden = FALSE
        BY <1>0, <3>2 DEF Placed, StatsTyped, EntryType
      <3>7. Write(m, e)
        BY <3>1, <3>5 DEF Write
      <3>8. Send(entry'[e].hidden, m, v)
        BY <3>1, <3>6 DEF Send, Told
      <3>9. hold[m].at = "out" /\ UNCHANGED <<hold, global_stat, aborted>>
        BY <3>1
      <3> QED  BY <3>4, <3>5, <3>6, <3>7, <3>8, <3>9
    <2> QED  BY <2>1, <2>2, <2>3
  <1>2. StatsTyped'
    BY <1>0, <1>1 DEF Placed, StatsTyped
  <1>3. EntriesPlaced' /\ HandlesPlaced'
    <2>1. hold[m].at \in {"locked", "kept", "gap"} => entry'[e].updated = "kept"
      BY <1>0, <1>1, WriteFacts DEF Placed, HandlesPlaced
    <2>2. hold[m].at = "cut" => entry'[e].hidden
      BY <1>1, WriteFacts
    <2> QED  BY <1>1, <1>2, <2>1, <2>2, WriteFacts, WritePlaced
  <1>4. FeedRight' /\ watch' \in [Watchers -> WatchType]
    <2>1. /\ InTree(m) # {} => e \in InTree(m)
          /\ InTree(m) = {} => entry[e].where = "free" /\ ~Copying
      BY <1>1 DEF Write
    <2> QED  BY <1>1, <2>1, SetStep DEF Write
  <1>5. TypeOK'
    BY <1>2, <1>4, StatsTypesNext DEF StatsTyped
  <1> QED  BY <1>3, <1>4, <1>5 DEF StatsInv

(* What an entry has changes under the lock of its source.                 *)
LEMMA SamePlaced ==
  ASSUME StatsInv, hold' = hold,
         \A f \in Entries :
           /\ entry'[f].where = entry[f].where /\ entry'[f].mount = entry[f].mount
           /\ entry'[f].owner = entry[f].owner /\ entry'[f].updated = entry[f].updated
           /\ entry[f].where = "free" => entry'[f] = entry[f]
           /\ entry[f].where = "tree" /\ hold[entry[f].mount].at = "cut" => entry'[f].hidden = entry[f].hidden
  PROVE  EntriesPlaced' /\ HandlesPlaced'
  <1>0. Placed
    BY PlacedNow
  <1>1. \A n \in Mounts : InTree(n)' = InTree(n)
    BY DEF InTree
  <1>2. EntriesPlaced'
    BY <1>0 DEF Placed, EntriesPlaced
  <1>3. ASSUME NEW n \in Mounts, hold[n].at = "cut", NEW f \in InTree(n)' PROVE entry'[f].hidden
    BY <1>0, <1>1, <1>3 DEF Placed, HandlesPlaced, InTree
  <1>4. HandlesPlaced'
    <2>1. ASSUME NEW a \in Actors, hold[a].at = "locked"
          PROVE  hold[a].on \in Entries /\ entry'[hold[a].on].owner = a /\ entry'[hold[a].on].where = "tree"
      BY <1>0, <2>1 DEF Placed, HandlesPlaced
    <2>2. ASSUME NEW m \in Mounts
          PROVE  /\ hold[m].at \in {"locked", "kept", "gap"} =>
                       /\ hold[m].on \in Entries /\ entry'[hold[m].on].where = "tree"
                       /\ entry'[hold[m].on].mount = m /\ entry'[hold[m].on].updated = "kept"
                 /\ hold[m].at = "gap" => entry'[hold[m].on].owner = NoEntry
                 /\ hold[m].at = "cut" =>
                      /\ hold[m].on \in Entries /\ entry'[hold[m].on].where = "cut"
                      /\ entry'[hold[m].on].mount = m
      BY <1>0 DEF Placed, HandlesPlaced
    <2> QED  BY <1>3, <2>1, <2>2 DEF HandlesPlaced
  <1> QED  BY <1>2, <1>4

LEMMA ChangeStep ==
  ASSUME StatsInv, NEW m \in Mounts, SetStat(m) \/ Flush(m)
  PROVE  StatsInv'
  <1>0. Placed /\ m \in Actors
    BY PlacedNow
  <1>1. PICK e \in Entries : /\ e = hold[m].on /\ entry[e].where = "tree" /\ entry[e].mount = m
                            /\ hold[m].at # "cut"
    BY <1>0 DEF Placed, HandlesPlaced, SetStat, Flush
  <1>2. PICK v \in Values \cup {NoValue} :
          /\ entry' = [entry EXCEPT ![e].val = v] /\ UNCHANGED <<hold, global_stat, aborted>>
          /\ \/ entry[e].val = v /\ UNCHANGED watch
             \/ Send(entry[e].hidden, m, v)
    BY <1>1 DEF SetStat, Flush
  <1>3. /\ entry' = [entry EXCEPT ![e] = [entry[e] EXCEPT !.val = v]]
        /\ [entry[e] EXCEPT !.val = v] \in EntryType
    BY <1>0, <1>2 DEF Placed, StatsTyped, EntryType
  <1>4. StatsTyped'
    BY <1>0, <1>2, <1>3 DEF Placed, StatsTyped
  <1>5. ASSUME NEW f \in Entries
        PROVE  /\ entry'[f].where = entry[f].where /\ entry'[f].mount = entry[f].mount
               /\ entry'[f].owner = entry[f].owner /\ entry'[f].updated = entry[f].updated
               /\ entry'[f].hidden = entry[f].hidden
               /\ f # e => entry'[f] = entry[f]
    BY <1>0, <1>3 DEF Placed, StatsTyped, EntryType
  <1>6. entry'[e].val = v
    BY <1>0, <1>3 DEF Placed, StatsTyped, EntryType
  <1>7. EntriesPlaced' /\ HandlesPlaced'
    BY <1>1, <1>2, <1>5, SamePlaced
  <1>8. FeedRight' /\ watch' \in [Watchers -> WatchType]
    <2>1. CASE entry[e].val = v /\ UNCHANGED watch
      BY <1>2, <1>5, <1>6, <2>1, QuietStep, StatsTypes DEF StatsInv
    <2>2. CASE Send(entry[e].hidden, m, v)
      <3>1. Send(entry'[e].hidden, m, v)
        BY <1>5, <2>2
      <3>2. e \in InTree(m)
        BY <1>1 DEF InTree
      <3>3. entry' \in [Entries -> EntryType]
        BY <1>4 DEF StatsTyped
      <3> QED  BY <1>1, <1>2, <1>5, <1>6, <3>1, <3>2, <3>3, SetStep
    <2> QED  BY <1>2, <2>1, <2>2
  <1>9. TypeOK'
    BY <1>4, <1>8, StatsTypesNext DEF StatsTyped
  <1> QED  BY <1>7, <1>8, <1>9 DEF StatsInv

LEMMA ShowHideStep ==
  ASSUME StatsInv, NEW m \in Mounts, Hides(m) PROVE StatsInv'
  <1>0. Placed /\ m \in Actors
    BY PlacedNow
  <1>1. PICK e \in Entries :
          /\ e = hold[m].on /\ entry[e].where = "tree" /\ entry[e].mount = m /\ hold[m].at = "locked"
          /\ entry' = [entry EXCEPT ![e].hidden = ~entry[e].hidden] /\ UNCHANGED <<hold, global_stat, aborted>>
    BY <1>0 DEF Placed, HandlesPlaced, Hides
  <1>2. StatsTyped'
    <2>1. PICK h \in BOOLEAN : h = ~entry[e].hidden
      OBVIOUS
    <2>2. entry' = [entry EXCEPT ![e] = [entry[e] EXCEPT !.hidden = h]]
      BY <1>0, <1>1, <2>1 DEF Placed, StatsTyped, EntryType
    <2>3. [entry[e] EXCEPT !.hidden = h] \in EntryType
      BY <1>0 DEF Placed, StatsTyped, EntryType
    <2> QED  BY <1>0, <1>1, <2>2, <2>3 DEF Placed, StatsTyped
  <1>3. ASSUME NEW f \in Entries
        PROVE  /\ entry'[f].where = entry[f].where /\ entry'[f].mount = entry[f].mount
               /\ entry'[f].owner = entry[f].owner /\ entry'[f].updated = entry[f].updated
               /\ f # e => entry'[f] = entry[f]
    BY <1>0, <1>1 DEF Placed, StatsTyped, EntryType
  <1>4. EntriesPlaced' /\ HandlesPlaced'
    BY <1>1, <1>3, SamePlaced
  <1>5. FeedRight' /\ watch' \in [Watchers -> WatchType]
    BY HidesStep
  <1>6. TypeOK'
    BY <1>2, <1>5, StatsTypesNext DEF StatsTyped
  <1> QED  BY <1>4, <1>5, <1>6 DEF StatsInv

(* A lock is taken or given up, by a source or the directory thread.       *)
LEMMA LockStep ==
  ASSUME StatsInv, NEW a \in Actors, NEW e \in Entries, NEW at \in {"locked", "kept", "gap", "out"},
         NEW on \in Entries \cup {NoEntry}, NEW o \in Actors \cup {NoEntry},
         entry' = [entry EXCEPT ![e].owner = o], hold' = [hold EXCEPT ![a] = [at |-> at, on |-> on]],
         hold[a].at \in {"locked", "kept"}, hold[a].on = e, entry[e].owner \in {NoEntry, a},
         IF at = "locked" THEN o = a ELSE o = NoEntry,
         at = "out" => a = Yp, at # "out" => a \in Mounts /\ on = e, entry[e].where = "tree",
         UNCHANGED <<watch, global_stat, aborted>>
  PROVE  StatsInv'
  <1>0. Placed
    BY PlacedNow
  <1>1. /\ entry' = [entry EXCEPT ![e] = [entry[e] EXCEPT !.owner = o]]
        /\ [entry[e] EXCEPT !.owner = o] \in EntryType
    BY <1>0 DEF Placed, StatsTyped, EntryType
  <1>2. /\ StatsTyped' /\ hold'[a].at = at /\ hold'[a].on = on
        /\ \A b \in Actors \ {a} : hold'[b] = hold[b]
    BY <1>0, <1>1 DEF Placed, StatsTyped, HoldType
  <1>3. ASSUME NEW f \in Entries
        PROVE  /\ entry'[f].where = entry[f].where /\ entry'[f].mount = entry[f].mount
               /\ entry'[f].val = entry[f].val /\ entry'[f].updated = entry[f].updated
               /\ entry'[f].hidden = entry[f].hidden
               /\ f # e => entry'[f] = entry[f]
    BY <1>0, <1>1 DEF Placed, StatsTyped, EntryType
  <1>4. entry'[e].owner = o
    BY <1>0, <1>1 DEF Placed, StatsTyped, EntryType
  <1>5. ASSUME NEW n \in Mounts PROVE n \in Actors /\ (hold'[n].at = "cut" <=> hold[n].at = "cut")
    BY <1>2, PlacedNow
  <1>6. FeedRight'
    BY <1>3, <1>5, QuietStep
  <1>7. EntriesPlaced'
    BY <1>0, <1>2, <1>3, <1>4, Distinct DEF Placed, EntriesPlaced, Actors
  <1>8. HandlesPlaced'
    <2>1. ASSUME NEW b \in Actors \ {a}, hold[b].at = "locked" PROVE hold[b].on # e
      BY <1>0, <2>1, Distinct DEF Placed, HandlesPlaced, Actors
    <2>2. ASSUME NEW b \in Actors, hold'[b].at = "locked"
          PROVE  hold'[b].on \in Entries /\ entry'[hold'[b].on].owner = b /\ entry'[hold'[b].on].where = "tree"
      BY <1>0, <1>2, <1>3, <1>4, <2>1, <2>2 DEF Placed, HandlesPlaced
    <2>3. ASSUME NEW m \in Mounts
          PROVE  /\ hold'[m].at \in {"locked", "kept", "gap"} =>
                       /\ hold'[m].on \in Entries /\ entry'[hold'[m].on].where = "tree"
                       /\ entry'[hold'[m].on].mount = m /\ entry'[hold'[m].on].updated = "kept"
                 /\ hold'[m].at = "gap" => entry'[hold'[m].on].owner = NoEntry
                 /\ hold'[m].at = "cut" =>
                      /\ hold'[m].on \in Entries /\ entry'[hold'[m].on].where = "cut"
                      /\ entry'[hold'[m].on].mount = m
                      /\ \A f \in InTree(m)' : entry'[f].hidden
      <3>1. m \in Actors /\ InTree(m)' = InTree(m)
        BY <1>3, PlacedNow DEF InTree
      <3>2. CASE m = a
        BY <1>0, <1>2, <1>3, <1>4, <3>1, <3>2, Distinct DEF Placed, HandlesPlaced
      <3>3. CASE m # a
        <4>1. hold'[m] = hold[m]
          BY <1>2, <3>1, <3>3
        <4>2. hold[m].at = "gap" /\ hold[m].on = e => entry'[e].owner = NoEntry
          BY <1>0, <1>4, <3>3 DEF Placed, HandlesPlaced
        <4>3. \A f \in InTree(m) : f \in Entries
          BY DEF InTree
        <4> QED  BY <1>0, <1>3, <3>1, <4>1, <4>2, <4>3 DEF Placed, HandlesPlaced
      <3> QED  BY <3>2, <3>3
    <2> QED  BY <2>2, <2>3 DEF HandlesPlaced
  <1>9. TypeOK'
    BY <1>2, StatsTypes, StatsTypesNext DEF StatsTyped, StatsInv
  <1> QED  BY <1>6, <1>7, <1>8, <1>9 DEF StatsInv

(* The handle of a mountpoint, whose entry is found or made.               *)
LEMMA HandleStep ==
  ASSUME StatsInv, NEW a \in Actors, NEW m \in Mounts, Handle(a, m),
         \/ a = m /\ hold[m].at = "none"
         \/ a = Yp /\ hold[Yp].at = "out" /\ hold[m].at \notin {"out", "gap", "cut"}
  PROVE  StatsInv'
  <1>0. Placed
    BY PlacedNow
  <1>1. PICK e \in Entries :
          /\ IF InTree(m) # {} THEN e \in InTree(m) /\ entry[e].owner = NoEntry
             ELSE entry[e].where = "free" /\ ~Copying
          /\ entry' = [entry EXCEPT ![e].mount = m, ![e].where = "tree", ![e].owner = a, ![e].updated = "kept"]
          /\ hold' = [hold EXCEPT ![a] = [at |-> "locked", on |-> e]]
          /\ UNCHANGED <<watch, global_stat, aborted>>
    BY DEF Handle
  <1>2. /\ entry' = [entry EXCEPT ![e] = [entry[e] EXCEPT !.mount = m, !.where = "tree", !.owner = a, !.updated = "kept"]]
        /\ [entry[e] EXCEPT !.mount = m, !.where = "tree", !.owner = a, !.updated = "kept"] \in EntryType
    BY <1>0, <1>1 DEF Placed, StatsTyped, EntryType
  <1>3. /\ StatsTyped' /\ hold'[a].at = "locked" /\ hold'[a].on = e
        /\ \A b \in Actors \ {a} : hold'[b] = hold[b]
    BY <1>0, <1>1, <1>2 DEF Placed, StatsTyped, HoldType
  <1>4. /\ \A f \in Entries \ {e} : entry'[f] = entry[f]
        /\ entry'[e].where = "tree" /\ entry'[e].mount = m /\ entry'[e].owner = a
        /\ entry'[e].updated = "kept" /\ entry'[e].val = entry[e].val /\ entry'[e].hidden = entry[e].hidden
    BY <1>0, <1>2 DEF Placed, StatsTyped, EntryType
  <1>5. Write(m, e)
    BY <1>1, <1>4 DEF Write
  <1>6. /\ entry[e].owner = NoEntry
        /\ \A f \in Entries \ {e} : entry[f].where = "tree" => entry[f].mount # m
        /\ \A n \in Mounts \ {m} : hold[n].at \in {"locked", "kept", "gap", "cut"} => hold[n].on # e
        /\ hold[m].at \in {"locked", "kept", "gap"} => hold[m].on = e /\ e \in InTree(m)
        /\ \A b \in Actors : hold[b].at = "locked" => hold[b].on # e
        /\ \A n \in Mounts \ {m} : InTree(n)' = InTree(n)
        /\ InTree(m)' = {e}
        /\ e \notin InTree(m) => InTree(m) = {} /\ entry[e] = NoStats /\ ~Copying
    BY <1>5, WriteFacts
  <1>7. a # NoEntry /\ hold[m].at # "cut" /\ hold[m].at # "gap" /\ m \in Actors /\ Yp \notin Mounts
        /\ Mounts \subseteq Actors
    BY PlacedNow, Distinct DEF Actors
  <1>8. \A n \in Mounts : hold'[n].at = "cut" <=> hold[n].at = "cut"
    BY <1>3, <1>7
  <1>9. EntriesPlaced'
    <2>1. ASSUME NEW f \in Entries, NEW g \in Entries, entry'[f].where = "tree", entry'[g].where = "tree",
                 entry'[f].mount = entry'[g].mount
          PROVE  f = g
      BY <1>0, <1>4, <1>6, <2>1 DEF Placed, EntriesPlaced
    <2>2. ASSUME NEW f \in Entries
          PROVE  /\ entry'[f].where = "tree" => entry'[f].mount \in Mounts
                 /\ entry'[f].where = "free" => entry'[f] = NoStats
      BY <1>0, <1>4 DEF Placed, EntriesPlaced
    <2>3. ASSUME NEW f \in Entries, entry'[f].owner # NoEntry
          PROVE  hold'[entry'[f].owner].at = "locked" /\ hold'[entry'[f].owner].on = f
      <3>1. CASE f = e
        BY <1>3, <1>4, <3>1
      <3>2. CASE f # e
        <4>1. entry'[f] = entry[f] /\ entry[f].owner \in Actors /\ hold[entry[f].owner].at = "locked"
              /\ hold[entry[f].owner].on = f
          BY <1>0, <1>4, <2>3, <3>2 DEF Placed, StatsTyped, EntryType, EntriesPlaced
        <4>2. entry[f].owner # a
          BY <4>1
        <4> QED  BY <1>3, <4>1, <4>2
      <3> QED  BY <3>1, <3>2
    <2> QED  BY <2>1, <2>2, <2>3 DEF EntriesPlaced
  <1>10. HandlesPlaced'
    <2>1. ASSUME NEW b \in Actors, hold'[b].at = "locked"
          PROVE  hold'[b].on \in Entries /\ entry'[hold'[b].on].owner = b /\ entry'[hold'[b].on].where = "tree"
      BY <1>0, <1>3, <1>4, <1>6, <2>1 DEF Placed, HandlesPlaced
    <2>2. ASSUME NEW n \in Mounts
          PROVE  /\ hold'[n].at \in {"locked", "kept", "gap"} =>
                       /\ hold'[n].on \in Entries /\ entry'[hold'[n].on].where = "tree"
                       /\ entry'[hold'[n].on].mount = n /\ entry'[hold'[n].on].updated = "kept"
                 /\ hold'[n].at = "gap" => entry'[hold'[n].on].owner = NoEntry
                 /\ hold'[n].at = "cut" =>
                      /\ hold'[n].on \in Entries /\ entry'[hold'[n].on].where = "cut"
                      /\ entry'[hold'[n].on].mount = n
                      /\ \A f \in InTree(n)' : entry'[f].hidden
      <3>1. CASE n = m
        BY <1>0, <1>3, <1>4, <1>6, <1>7, <3>1 DEF Placed, HandlesPlaced
      <3>2. CASE n # m
        <4>1. hold'[n] = hold[n] /\ InTree(n)' = InTree(n)
          BY <1>3, <1>6, <1>7, <3>2
        <4>2. \A f \in InTree(n) : f \in Entries /\ f # e
          BY <1>4, <4>1, <3>2 DEF InTree
        <4> QED  BY <1>0, <1>4, <1>6, <3>2, <4>1, <4>2 DEF Placed, HandlesPlaced
      <3> QED  BY <3>1, <3>2
    <2> QED  BY <2>1, <2>2 DEF HandlesPlaced
  <1>11. FeedRight'
    <2>1. CASE e \in InTree(m)
      <3>1. entry[e].where = "tree" /\ entry[e].mount = m
        BY <2>1 DEF InTree
      <3> QED  BY <1>1, <1>4, <1>8, <3>1, QuietStep
    <2>2. CASE e \notin InTree(m)
      <3>1. InTree(m) = {} /\ entry[e] = NoStats /\ ~Copying
        BY <1>6, <2>2
      <3>2. ASSUME NEW w \in Watchers PROVE CopyRight(w)' /\ GlobalShown(w)' /\ watch'[w] = watch[w]
        <4>1. CopyRight(w) /\ GlobalShown(w) /\ watch[w].at # "copies"
          BY <3>1 DEF StatsInv, FeedRight, Copying
        <4> QED  BY <1>1, <4>1 DEF CopyRight, GlobalShown, Hears, OffWatch
      <3>3. ASSUME NEW w \in Watchers, NEW f \in Entries \ {e} PROVE EntryShown(w, f)'
        <4>1. EntryShown(w, f) /\ entry'[f] = entry[f] /\ (entry[f].where = "tree" => entry[f].mount \in Mounts)
          BY <1>4 DEF StatsInv, FeedRight, EntriesPlaced
        <4>2. WillShow(w, f)' = WillShow(w, f)
          BY <3>2, <4>1 DEF WillShow, Base, ReadAfter, After
        <4> QED  BY <1>8, <3>2, <4>1, <4>2 DEF EntryShown, Hears
      <3>4. ASSUME NEW w \in Watchers PROVE EntryShown(w, e)'
        <4> SUFFICES ASSUME Hears(w), watch[w].admin PROVE WillShow(w, e)' \in {NoValue, Absent}
          BY <1>4, <3>1, <3>2 DEF EntryShown, NoStats, Hears
        <4>1. /\ GoneShown(w, m) /\ watch[w].at \in {"listed", "on"}
              /\ entry'[e].val = NoValue /\ entry'[e].mount = m
          BY <1>4, <3>1, StatsTypes DEF StatsInv, FeedRight, Hears, Copying, WatchType, NoStats
        <4>2. IF watch[w].at = "on" THEN watch[w].view[m] = Absent ELSE watch[w].pend[m] \in {Keep, Absent}
          BY <1>7, <3>1, <4>1 DEF GoneShown
        <4>3. CASE watch[w].at = "on"
          BY <3>2, <4>1, <4>2, <4>3 DEF WillShow
        <4>4. CASE watch[w].at = "listed"
          <5>1. WillShow(w, e)' = ReadAfter(NoValue, watch[w].pend[m])
            BY <3>2, <4>1, <4>4 DEF WillShow, Base
          <5> QED  BY <4>2, <4>4, <5>1, Distinct DEF ReadAfter, After
        <4> QED  BY <4>1, <4>3, <4>4
      <3>5. ASSUME NEW w \in Watchers, NEW n \in Mounts PROVE GoneShown(w, n)'
        <4>1. CASE n = m
          BY <1>6, <4>1 DEF GoneShown
        <4>2. CASE n # m
          BY <1>6, <1>8, <3>2, <4>2 DEF StatsInv, FeedRight, GoneShown, Hears
        <4> QED  BY <4>1, <4>2
      <3> QED  BY <3>2, <3>3, <3>4, <3>5 DEF FeedRight
    <2> QED  BY <2>1, <2>2
  <1>12. TypeOK'
    BY <1>1, <1>3, StatsTypes, StatsTypesNext DEF StatsTyped, StatsInv
  <1> QED  BY <1>9, <1>10, <1>11, <1>12 DEF StatsInv

(* An entry leaves the tree, which nobody copies.                          *)
LEMMA LeaveStep ==
  ASSUME StatsInv, NEW m \in Mounts, LeavesTree(m) PROVE StatsInv'
  <1>0. Placed /\ m \in Actors /\ Mounts \subseteq Actors
    BY PlacedNow
  <1>1. PICK e \in Entries :
          /\ e = hold[m].on /\ entry[e].where = "tree" /\ entry[e].mount = m /\ hold[m].at = "gap"
          /\ entry[e].owner = NoEntry /\ ~Copying
          /\ entry' = [entry EXCEPT ![e].where = "cut"] /\ hold' = [hold EXCEPT ![m].at = "cut"]
          /\ UNCHANGED <<watch, global_stat, aborted>>
    BY <1>0 DEF Placed, HandlesPlaced, LeavesTree
  <1>2. /\ entry' = [entry EXCEPT ![e] = [entry[e] EXCEPT !.where = "cut"]]
        /\ [entry[e] EXCEPT !.where = "cut"] \in EntryType
    BY <1>0, <1>1 DEF Placed, StatsTyped, EntryType
  <1>3. /\ StatsTyped' /\ hold'[m].at = "cut" /\ hold'[m].on = e
        /\ \A b \in Actors \ {m} : hold'[b] = hold[b]
    BY <1>0, <1>1, <1>2 DEF Placed, StatsTyped, HoldType
  <1>4. /\ \A f \in Entries \ {e} : entry'[f] = entry[f]
        /\ entry'[e].where = "cut" /\ entry'[e].mount = m /\ entry'[e].owner = NoEntry
    BY <1>0, <1>1, <1>2 DEF Placed, StatsTyped, EntryType
  <1>5. InTree(m)' = {} /\ \A n \in Mounts \ {m} : InTree(n)' = InTree(n)
    BY <1>0, <1>1, <1>4 DEF InTree, Placed, EntriesPlaced
  <1>6. EntriesPlaced'
    BY <1>0, <1>1, <1>3, <1>4 DEF Placed, EntriesPlaced
  <1>7. HandlesPlaced'
    <2>1. ASSUME NEW b \in Actors, hold'[b].at = "locked"
          PROVE  hold'[b].on \in Entries /\ entry'[hold'[b].on].owner = b /\ entry'[hold'[b].on].where = "tree"
      BY <1>0, <1>1, <1>3, <1>4, <2>1, Distinct DEF Placed, HandlesPlaced, Actors
    <2>2. ASSUME NEW n \in Mounts
          PROVE  /\ hold'[n].at \in {"locked", "kept", "gap"} =>
                       /\ hold'[n].on \in Entries /\ entry'[hold'[n].on].where = "tree"
                       /\ entry'[hold'[n].on].mount = n /\ entry'[hold'[n].on].updated = "kept"
                 /\ hold'[n].at = "gap" => entry'[hold'[n].on].owner = NoEntry
                 /\ hold'[n].at = "cut" =>
                      /\ hold'[n].on \in Entries /\ entry'[hold'[n].on].where = "cut"
                      /\ entry'[hold'[n].on].mount = n
                      /\ \A f \in InTree(n)' : entry'[f].hidden
      <3>1. CASE n = m
        BY <1>3, <1>4, <1>5, <3>1
      <3>2. CASE n # m
        <4>1. hold'[n] = hold[n] /\ InTree(n)' = InTree(n)
          BY <1>0, <1>3, <1>5, <3>2
        <4>2. \A f \in InTree(n) : f \in Entries /\ f # e
          BY <1>1, <3>2 DEF InTree
        <4>3. hold[n].at \in {"locked", "kept", "gap", "cut"} => hold[n].on # e
          BY <1>0, <1>1, <3>2 DEF Placed, HandlesPlaced
        <4> QED  BY <1>0, <1>4, <3>2, <4>1, <4>2, <4>3 DEF Placed, HandlesPlaced
      <3> QED  BY <3>1, <3>2
    <2> QED  BY <2>1, <2>2 DEF HandlesPlaced
  <1>8. FeedRight'
    <2>1. ASSUME NEW w \in Watchers PROVE CopyRight(w)' /\ GlobalShown(w)' /\ watch'[w] = watch[w]
      <3>1. CopyRight(w) /\ GlobalShown(w) /\ watch[w].at # "copies"
        BY <1>1 DEF StatsInv, FeedRight, Copying
      <3> QED  BY <1>1, <3>1 DEF CopyRight, GlobalShown, Hears, OffWatch
    <2>2. ASSUME NEW w \in Watchers, NEW f \in Entries, entry'[f].where = "tree" PROVE EntryShown(w, f)'
      <3>1. /\ f # e /\ EntryShown(w, f) /\ entry'[f] = entry[f]
            /\ entry[f].mount \in Mounts /\ entry[f].mount # m
        BY <1>0, <1>1, <1>4, <2>2 DEF StatsInv, FeedRight, EntriesPlaced
      <3>2. WillShow(w, f)' = WillShow(w, f)
        BY <2>1, <3>1 DEF WillShow, Base, ReadAfter, After
      <3> QED  BY <1>0, <1>3, <2>1, <3>1, <3>2 DEF EntryShown, Hears
    <2>3. ASSUME NEW w \in Watchers, NEW n \in Mounts PROVE GoneShown(w, n)'
      <3>1. CASE n = m
        BY <1>3, <3>1 DEF GoneShown
      <3>2. CASE n # m
        BY <1>0, <1>3, <1>5, <2>1, <3>2 DEF StatsInv, FeedRight, GoneShown, Hears
      <3> QED  BY <3>1, <3>2
    <2>4. ASSUME NEW w \in Watchers, NEW f \in Entries PROVE EntryShown(w, f)'
      BY <2>2 DEF EntryShown
    <2> QED  BY <2>1, <2>3, <2>4 DEF FeedRight
  <1>9. TypeOK'
    BY <1>1, <1>3, StatsTypes, StatsTypesNext DEF StatsTyped, StatsInv
  <1> QED  BY <1>6, <1>7, <1>8, <1>9 DEF StatsInv

(* An entry is freed that no handle is on.                                 *)
LEMMA FreedPlaced ==
  ASSUME StatsInv, NEW e \in Entries, entry' = [entry EXCEPT ![e] = NoStats], entry[e].owner = NoEntry,
         hold' \in [Actors -> HoldType], hold'[Yp] = hold[Yp],
         \A n \in Mounts : hold'[n] = hold[n] \/ (hold[n].at = "cut" /\ hold'[n].at \in {"none", "out"}),
         \A n \in Mounts : hold'[n].at \in {"locked", "kept", "gap", "cut"} => hold'[n].on # e
  PROVE  EntriesPlaced' /\ HandlesPlaced' /\ entry' \in [Entries -> EntryType]
  <1>0. Placed /\ Mounts \subseteq Actors /\ Actors = Mounts \cup {Yp} /\ NoEntry \notin Actors
    BY PlacedNow, Distinct DEF Actors
  <1>1. NoStats \in EntryType /\ NoStats.where = "free" /\ NoStats.owner = NoEntry
    BY DEF NoStats, EntryType
  <1>2. entry' \in [Entries -> EntryType] /\ entry'[e] = NoStats /\ \A f \in Entries \ {e} : entry'[f] = entry[f]
    BY <1>0, <1>1 DEF Placed, StatsTyped
  <1>3. ASSUME NEW f \in Entries, entry'[f].where # "free"
        PROVE  f # e /\ entry'[f] = entry[f]
    BY <1>1, <1>2, <1>3
  <1>4. EntriesPlaced'
    <2>1. ASSUME NEW f \in Entries, entry'[f].owner # NoEntry
          PROVE  hold'[entry'[f].owner].at = "locked" /\ hold'[entry'[f].owner].on = f
      <3>1. /\ f # e /\ entry'[f] = entry[f] /\ entry[f].owner \in Actors
            /\ hold[entry[f].owner].at = "locked" /\ hold[entry[f].owner].on = f
        BY <1>0, <1>1, <1>2, <2>1 DEF Placed, StatsTyped, EntryType, EntriesPlaced
      <3>2. hold'[entry[f].owner] = hold[entry[f].owner]
        BY <1>0, <3>1
      <3> QED  BY <3>1, <3>2
    <2>2. ASSUME NEW f \in Entries, NEW g \in Entries, entry'[f].where = "tree", entry'[g].where = "tree",
                 entry'[f].mount = entry'[g].mount
          PROVE  f = g
      BY <1>0, <1>3, <2>2 DEF Placed, EntriesPlaced
    <2>3. ASSUME NEW f \in Entries
          PROVE  /\ entry'[f].where = "tree" => entry'[f].mount \in Mounts
                 /\ entry'[f].where = "free" => entry'[f] = NoStats
      BY <1>0, <1>2, <1>3 DEF Placed, EntriesPlaced
    <2> QED  BY <2>1, <2>2, <2>3 DEF EntriesPlaced
  <1>5. ASSUME NEW n \in Mounts, NEW f \in InTree(n)' PROVE f \in InTree(n) /\ f \in Entries /\ entry'[f] = entry[f]
    BY <1>3, <1>5 DEF InTree
  <1>6. HandlesPlaced'
    <2>1. ASSUME NEW b \in Actors, hold'[b].at = "locked"
          PROVE  hold'[b].on \in Entries /\ entry'[hold'[b].on].owner = b /\ entry'[hold'[b].on].where = "tree"
      <3>1. hold'[b] = hold[b]
        BY <1>0, <2>1
      <3>2. hold[b].on \in Entries /\ entry[hold[b].on].owner = b /\ entry[hold[b].on].where = "tree"
        BY <1>0, <2>1, <3>1 DEF Placed, HandlesPlaced
      <3>3. hold[b].on # e
        BY <1>0, <3>2
      <3> QED  BY <1>2, <3>1, <3>2, <3>3
    <2>2. ASSUME NEW n \in Mounts
          PROVE  /\ hold'[n].at \in {"locked", "kept", "gap"} =>
                       /\ hold'[n].on \in Entries /\ entry'[hold'[n].on].where = "tree"
                       /\ entry'[hold'[n].on].mount = n /\ entry'[hold'[n].on].updated = "kept"
                 /\ hold'[n].at = "gap" => entry'[hold'[n].on].owner = NoEntry
                 /\ hold'[n].at = "cut" =>
                      /\ hold'[n].on \in Entries /\ entry'[hold'[n].on].where = "cut"
                      /\ entry'[hold'[n].on].mount = n
                      /\ \A f \in InTree(n)' : entry'[f].hidden
      BY <1>0, <1>2, <1>5 DEF Placed, HandlesPlaced
    <2> QED  BY <2>1, <2>2 DEF HandlesPlaced
  <1> QED  BY <1>2, <1>4, <1>6

LEMMA FreeStep ==
  ASSUME StatsInv, NEW m \in Mounts, FreesStats(m) PROVE StatsInv'
  <1>0. Placed /\ Mounts \subseteq Actors /\ m \in Actors /\ Yp \in Actors /\ Yp # m
    BY PlacedNow, Distinct
  <1>1. PICK e \in Entries, at \in {"none", "out"} :
          /\ e = hold[m].on /\ entry[e].where = "cut" /\ entry[e].mount = m /\ hold[m].at = "cut"
          /\ entry' = [entry EXCEPT ![e] = NoStats]
          /\ hold' = [hold EXCEPT ![m] = [at |-> at, on |-> NoEntry]]
          /\ Send(entry[e].hidden, m, Absent) /\ UNCHANGED <<global_stat, aborted>>
    BY <1>0 DEF Placed, HandlesPlaced, FreesStats
  <1>2. /\ hold' \in [Actors -> HoldType] /\ hold'[m].at = at
        /\ \A n \in Actors \ {m} : hold'[n] = hold[n]
    BY <1>0, <1>1 DEF Placed, StatsTyped, HoldType
  <1>3. entry[e].owner = NoEntry
    BY <1>0, <1>1 DEF Placed, StatsTyped, EntryType, EntriesPlaced, HandlesPlaced
  <1>4. ASSUME NEW n \in Mounts, hold'[n].at \in {"locked", "kept", "gap", "cut"} PROVE hold'[n].on # e
    <2>1. n # m /\ hold'[n] = hold[n]
      BY <1>0, <1>2, <1>4
    <2> QED  BY <1>0, <1>1, <1>4, <2>1 DEF Placed, HandlesPlaced
  <1>5. EntriesPlaced' /\ HandlesPlaced' /\ entry' \in [Entries -> EntryType]
    BY <1>0, <1>1, <1>2, <1>3, <1>4, FreedPlaced
  <1>6. FeedRight' /\ watch' \in [Watchers -> WatchType]
    <2>1. e \notin InTree(m)
      BY <1>1 DEF InTree
    <2> QED  BY <1>0, <1>1, <1>2, <2>1, GoneStep
  <1>7. TypeOK'
    BY <1>1, <1>2, <1>5, <1>6, StatsTypes, StatsTypesNext DEF StatsInv
  <1> QED  BY <1>5, <1>6, <1>7 DEF StatsInv

LEMMA PurgeStep ==
  ASSUME StatsInv, NEW e \in Entries, Purge(e) PROVE StatsInv'
  <1>0. Placed /\ Mounts \subseteq Actors
    BY PlacedNow
  <1>1. /\ entry[e].where = "tree" /\ entry[e].updated # "kept" /\ entry[e].owner = NoEntry
        /\ ~Copying /\ UNCHANGED <<hold, global_stat, aborted>> /\ entry[e].mount \in Mounts
    BY <1>0 DEF Purge, Placed, EntriesPlaced
  <1>2. ASSUME NEW n \in Mounts, hold[n].at \in {"locked", "kept", "gap", "cut"} PROVE hold[n].on # e
    BY <1>0, <1>1, <1>2 DEF Placed, HandlesPlaced
  <1>3. CASE entry[e].updated = "mark"
    <2>1. /\ entry' = [entry EXCEPT ![e] = [entry[e] EXCEPT !.updated = "old"]] /\ UNCHANGED watch
          /\ [entry[e] EXCEPT !.updated = "old"] \in EntryType
      BY <1>0, <1>3 DEF Purge, Placed, StatsTyped, EntryType
    <2>2. StatsTyped' /\ watch' \in [Watchers -> WatchType]
      BY <1>0, <1>1, <2>1, StatsTypes DEF Placed, StatsTyped, StatsInv
    <2>3. ASSUME NEW f \in Entries
          PROVE  /\ entry'[f].where = entry[f].where /\ entry'[f].mount = entry[f].mount
                 /\ entry'[f].val = entry[f].val /\ entry'[f].owner = entry[f].owner
                 /\ entry'[f].hidden = entry[f].hidden
                 /\ f # e => entry'[f] = entry[f]
      BY <1>0, <2>1 DEF Placed, StatsTyped, EntryType
    <2>4. FeedRight'
      BY <1>1, <2>1, <2>3, QuietStep
    <2>5. EntriesPlaced'
      BY <1>0, <1>1, <2>3 DEF Placed, EntriesPlaced
    <2>6. HandlesPlaced'
      <3>1. \A n \in Mounts : InTree(n)' = InTree(n) /\ \A f \in InTree(n) : f \in Entries
        BY <2>3 DEF InTree
      <3>2. ASSUME NEW b \in Actors, hold'[b].at = "locked"
            PROVE  hold'[b].on \in Entries /\ entry'[hold'[b].on].owner = b /\ entry'[hold'[b].on].where = "tree"
        BY <1>0, <1>1, <2>3, <3>2 DEF Placed, HandlesPlaced
      <3>3. ASSUME NEW n \in Mounts
            PROVE  /\ hold'[n].at \in {"locked", "kept", "gap"} =>
                         /\ hold'[n].on \in Entries /\ entry'[hold'[n].on].where = "tree"
                         /\ entry'[hold'[n].on].mount = n /\ entry'[hold'[n].on].updated = "kept"
                   /\ hold'[n].at = "gap" => entry'[hold'[n].on].owner = NoEntry
                   /\ hold'[n].at = "cut" =>
                        /\ hold'[n].on \in Entries /\ entry'[hold'[n].on].where = "cut"
                        /\ entry'[hold'[n].on].mount = n
                        /\ \A f \in InTree(n)' : entry'[f].hidden
        <4>1. hold'[n] = hold[n]
          BY <1>1
        <4>2. hold[n].at \in {"locked", "kept", "gap", "cut"} => entry'[hold[n].on] = entry[hold[n].on]
          BY <1>0, <1>2, <2>3 DEF Placed, HandlesPlaced
        <4> QED  BY <1>0, <2>3, <3>1, <4>1, <4>2 DEF Placed, HandlesPlaced
      <3> QED  BY <3>2, <3>3 DEF HandlesPlaced
    <2>7. TypeOK'
      BY <2>2, StatsTypesNext DEF StatsTyped
    <2> QED  BY <2>4, <2>5, <2>6, <2>7 DEF StatsInv
  <1>4. CASE entry[e].updated # "mark"
    <2>1. entry' = [entry EXCEPT ![e] = NoStats] /\ Send(entry[e].hidden, entry[e].mount, Absent)
      BY <1>4 DEF Purge
    <2>2. hold' \in [Actors -> HoldType] /\ e \in InTree(entry[e].mount)
      BY <1>0, <1>1 DEF Placed, StatsTyped, InTree
    <2>3. EntriesPlaced' /\ HandlesPlaced' /\ entry' \in [Entries -> EntryType]
      BY <1>1, <1>2, <2>1, <2>2, FreedPlaced
    <2>4. FeedRight' /\ watch' \in [Watchers -> WatchType]
      BY <1>1, <2>1, <2>2, GoneStep
    <2>5. TypeOK'
      BY <1>1, <2>2, <2>3, <2>4, StatsTypes, StatsTypesNext DEF StatsInv
    <2> QED  BY <2>3, <2>4, <2>5 DEF StatsInv
  <1> QED  BY <1>3, <1>4

(* A source and its handle.                                                *)
LEMMA OwnersStep ==
  ASSUME StatsInv, NEW m \in Mounts, OwnerStep(m) PROVE StatsInv'
  <1>0. Placed /\ m \in Actors /\ Mounts \subseteq Actors /\ StatsTyped
    BY PlacedNow DEF Placed
  <1>1. CASE Starts(m)
    <2>1. /\ StatsTyped' /\ hold'[m].at = "none" /\ hold[m].at = "out" /\ UNCHANGED <<entry, watch, global_stat, aborted>>
          /\ \A b \in Actors \ {m} : hold'[b] = hold[b]
      BY <1>0, <1>1 DEF Starts, StatsTyped, HoldType
    <2>2. FeedRight'
      BY <1>0, <2>1, QuietStep
    <2>3. EntriesPlaced'
      BY <1>0, <2>1 DEF Placed, StatsTyped, EntryType, EntriesPlaced
    <2>4. HandlesPlaced'
      <3>1. \A n \in Mounts : InTree(n)' = InTree(n)
        BY <2>1 DEF InTree
      <3>2. ASSUME NEW b \in Actors, hold'[b].at = "locked"
            PROVE  hold'[b].on \in Entries /\ entry[hold'[b].on].owner = b /\ entry[hold'[b].on].where = "tree"
        BY <1>0, <2>1, <3>2 DEF Placed, HandlesPlaced
      <3>3. ASSUME NEW n \in Mounts, hold'[n].at # "none" PROVE hold'[n] = hold[n]
        BY <1>0, <2>1, <3>3
      <3> QED  BY <1>0, <2>1, <3>1, <3>2, <3>3 DEF Placed, HandlesPlaced
    <2>5. TypeOK'
      BY <2>1, StatsTypes, StatsTypesNext DEF StatsTyped, StatsInv
    <2> QED  BY <2>2, <2>3, <2>4, <2>5 DEF StatsInv
  <1>2. CASE TakesHandle(m)
    BY <1>0, <1>2, HandleStep DEF TakesHandle
  <1>3. CASE Locks(m) \/ Releases(m) \/ GivesUpLock(m)
    <2>1. PICK e \in Entries :
            /\ hold[m].on = e /\ entry[e].where = "tree" /\ hold[m].at \in {"locked", "kept"}
            /\ hold[m].at = "locked" => entry[e].owner = m
      BY <1>0, <1>3 DEF Placed, HandlesPlaced, Locks, Releases, GivesUpLock
    <2>2. PICK at \in {"locked", "kept", "gap"}, o \in Actors \cup {NoEntry} :
            /\ entry' = [entry EXCEPT ![e].owner = o] /\ hold' = [hold EXCEPT ![m].at = at]
            /\ IF at = "locked" THEN o = m ELSE o = NoEntry
            /\ entry[e].owner \in {NoEntry, m} /\ UNCHANGED <<watch, global_stat, aborted>>
      BY <1>0, <1>3, <2>1 DEF Locks, Releases, GivesUpLock
    <2>3. [hold[m] EXCEPT !.at = at] = [at |-> at, on |-> e]
      BY <1>0, <2>1 DEF StatsTyped, HoldType
    <2>4. hold' = [hold EXCEPT ![m] = [at |-> at, on |-> e]]
      BY <1>0, <2>2, <2>3 DEF StatsTyped
    <2>6. CASE at = "locked"
      <3>1. hold' = [hold EXCEPT ![m] = [at |-> "locked", on |-> e]] /\ entry' = [entry EXCEPT ![e].owner = m]
        BY <2>2, <2>4, <2>6
      <3> QED  BY <1>0, <2>1, <2>2, <3>1, LockStep
    <2>7. CASE at = "kept"
      <3>1. hold' = [hold EXCEPT ![m] = [at |-> "kept", on |-> e]] /\ entry' = [entry EXCEPT ![e].owner = NoEntry]
        BY <2>2, <2>4, <2>7
      <3> QED  BY <1>0, <2>1, <2>2, <3>1, LockStep
    <2>8. CASE at = "gap"
      <3>1. hold' = [hold EXCEPT ![m] = [at |-> "gap", on |-> e]] /\ entry' = [entry EXCEPT ![e].owner = NoEntry]
        BY <2>2, <2>4, <2>8
      <3> QED  BY <1>0, <2>1, <2>2, <3>1, LockStep
    <2> QED  BY <2>6, <2>7, <2>8
  <1>4. CASE SetStat(m) \/ Flush(m)
    BY <1>4, ChangeStep
  <1>5. CASE Hides(m)
    BY <1>5, ShowHideStep
  <1>6. CASE LeavesTree(m)
    BY <1>6, LeaveStep
  <1>7. CASE FreesStats(m)
    BY <1>7, FreeStep
  <1>8. CASE DropsStatic(m)
    <2>1. UNCHANGED <<entry, hold, watch, global_stat>> /\ aborted' \in BOOLEAN
      BY <1>8 DEF DropsStatic
    <2>2. TypeOK'
      BY <2>1, StatsTypes, StatsTypesNext DEF StatsInv
    <2>3. FeedRight'
      BY <2>1, QuietStep
    <2>4. EntriesPlaced' /\ HandlesPlaced'
      BY <2>1, SamePlaced
    <2> QED  BY <2>2, <2>3, <2>4 DEF StatsInv
  <1> QED  BY <1>1, <1>2, <1>3, <1>4, <1>5, <1>6, <1>7, <1>8 DEF OwnerStep

LEMMA YpStep == StatsInv /\ (YpHandle \/ YpReads) => StatsInv'
  <1>1. ASSUME StatsInv, YpHandle PROVE StatsInv'
    BY <1>1, PlacedNow, HandleStep DEF YpHandle
  <1>2. ASSUME StatsInv, YpReads PROVE StatsInv'
    <2>1. /\ Yp \in Actors /\ hold[Yp].at = "locked" /\ hold[Yp].on \in Entries
          /\ entry[hold[Yp].on].owner = Yp /\ entry[hold[Yp].on].where = "tree"
      BY <1>2, PlacedNow DEF Placed, HandlesPlaced, YpReads
    <2>2. /\ entry' = [entry EXCEPT ![hold[Yp].on].owner = NoEntry]
          /\ hold' = [hold EXCEPT ![Yp] = [at |-> "out", on |-> NoEntry]]
          /\ UNCHANGED <<watch, global_stat, aborted>>
      BY <1>2 DEF YpReads
    <2> QED  BY <1>2, <2>1, <2>2, LockStep
  <1> QED  BY <1>1, <1>2

(* Only what one watcher has changes.                                      *)
LEMMA OneWatcher ==
  ASSUME StatsInv, NEW w \in Watchers, NEW x \in WatchType, watch' = [watch EXCEPT ![w] = x],
         UNCHANGED <<entry, hold, global_stat, aborted>>,
         CopyRight(w)', GlobalShown(w)', \A e \in Entries : EntryShown(w, e)',
         \A m \in Mounts : GoneShown(w, m)'
  PROVE  StatsInv'
  <1>1. watch \in [Watchers -> WatchType]
    BY StatsTypes DEF StatsInv
  <1>2. watch' \in [Watchers -> WatchType] /\ \A v \in Watchers \ {w} : watch'[v] = watch[v]
    BY <1>1
  <1>3. TypeOK'
    BY <1>2, StatsTypes, StatsTypesNext DEF StatsInv
  <1>4. EntriesPlaced' /\ HandlesPlaced'
    BY SamePlaced
  <1>5. ASSUME NEW v \in Watchers \ {w}
        PROVE  /\ CopyRight(v)' /\ GlobalShown(v)'
               /\ \A e \in Entries : EntryShown(v, e)'
               /\ \A m \in Mounts : GoneShown(v, m)'
    <2>1. /\ CopyRight(v) /\ GlobalShown(v) /\ (\A e \in Entries : EntryShown(v, e))
          /\ (\A m \in Mounts : GoneShown(v, m)) /\ watch'[v] = watch[v]
      BY <1>2 DEF StatsInv, FeedRight
    <2>2. \A e \in Entries : WillShow(v, e)' = WillShow(v, e)
      BY <2>1 DEF WillShow, Base, ReadAfter, After
    <2>3. \A m \in Mounts : InTree(m)' = InTree(m)
      BY DEF InTree
    <2>4. CopyRight(v)'
      BY <2>1, <2>3 DEF CopyRight, OffWatch
    <2>5. GlobalShown(v)' /\ \A m \in Mounts : GoneShown(v, m)'
      BY <2>1, <2>3 DEF GlobalShown, GoneShown, Hears
    <2>6. \A e \in Entries : EntryShown(v, e)'
      BY <2>1, <2>2 DEF EntryShown, Hears
    <2> QED  BY <2>4, <2>5, <2>6
  <1> QED  BY <1>3, <1>4, <1>5 DEF StatsInv, FeedRight

LEMMA RegistersStep ==
  ASSUME StatsInv, ~OffWorker, NEW w \in Watchers, Registers(w) PROVE StatsInv'
  <1>1. PICK admin \in BOOLEAN :
          /\ watch' = [watch EXCEPT ![w].at = "listed", ![w].admin = admin, ![w].deaf = FALSE]
          /\ watch[w].at = "off" /\ UNCHANGED <<entry, hold, global_stat, aborted>>
    BY DEF Registers
  <1>2. watch \in [Watchers -> WatchType] /\ watch[w] = OffWatch
    BY <1>1, StatsTypes DEF StatsInv, FeedRight, CopyRight
  <1> DEFINE x == [OffWatch EXCEPT !.at = "listed", !.admin = admin, !.deaf = FALSE]
  <1>3. x \in WatchType /\ watch' = [watch EXCEPT ![w] = x]
    <2>1. watch' = [watch EXCEPT ![w] = [watch[w] EXCEPT !.at = "listed", !.admin = admin, !.deaf = FALSE]]
      BY <1>1, <1>2 DEF WatchType
    <2>2. OffWatch \in WatchType
      BY <1>2
    <2>3. x \in WatchType
      BY <2>2 DEF WatchType
    <2> QED  BY <1>2, <2>1, <2>3
  <1>4. /\ x.at = "listed" /\ x.todo = {} /\ x.gpend = Keep /\ ~x.deaf
        /\ \A m \in Mounts : x.pend[m] = Keep
    BY DEF OffWatch
  <1>5. watch'[w] = x
    BY <1>2, <1>3
  <1> HIDE DEF x
  <1>6. CopyRight(w)' /\ GlobalShown(w)' /\ \A m \in Mounts : GoneShown(w, m)'
    BY <1>1, <1>4, <1>5 DEF CopyRight, GlobalShown, GoneShown
  <1>7. ASSUME NEW e \in Entries PROVE EntryShown(w, e)'
    <2>1. entry'[e].where = "tree" => WillShow(w, e)' = entry'[e].val
      BY <1>1, <1>4, <1>5 DEF StatsInv, EntriesPlaced, WillShow, Base, ReadAfter
    <2> QED  BY <2>1 DEF EntryShown
  <1> QED  BY <1>1, <1>3, <1>6, <1>7, OneWatcher

LEMMA CopyStep ==
  ASSUME StatsInv, NEW w \in Watchers, CopiesNames(w) \/ CopiesStats(w) PROVE StatsInv'
  <1>0. /\ watch \in [Watchers -> WatchType] /\ watch[w] \in WatchType /\ CopyRight(w) /\ GlobalShown(w)
        /\ \A e \in Entries : EntryShown(w, e)
        /\ \A m \in Mounts : GoneShown(w, m)
        /\ EntriesPlaced /\ entry \in [Entries -> EntryType]
        /\ global_stat.val \in Values \cup {NoValue}
    BY StatsTypes DEF StatsInv, FeedRight
  <1>1. CASE CopiesNames(w)
    <2> DEFINE names == [m \in Mounts |-> IF InTree(m) # {} THEN NoValue ELSE Absent]
               tree == {e \in Entries : entry[e].where = "tree"}
               x == [watch[w] EXCEPT !.at = "copies", !.glob = global_stat.val, !.view = names, !.todo = tree]
    <2>1. /\ watch' = [watch EXCEPT ![w] = x] /\ watch[w].at = "listed"
          /\ UNCHANGED <<entry, hold, global_stat, aborted>>
      BY <1>0, <1>1 DEF CopiesNames
    <2>2. /\ x \in WatchType /\ x.at = "copies" /\ x.glob = global_stat.val /\ x.todo = tree /\ x.view = names
          /\ x.pend = watch[w].pend /\ x.gpend = watch[w].gpend /\ x.deaf = watch[w].deaf
          /\ x.admin = watch[w].admin /\ x.error = watch[w].error
      BY <1>0 DEF WatchType, Shown
    <2>3. watch'[w] = x
      BY <1>0, <2>1
    <2> HIDE DEF x
    <2>4. CopyRight(w)'
      <3>1. \A m \in Mounts : InTree(m)' = InTree(m) /\ (InTree(m) = {} => names[m] = Absent)
        BY <2>1 DEF InTree
      <3>2. ASSUME NEW e \in tree PROVE entry[e].where = "tree" /\ names[entry[e].mount] = NoValue
        BY <1>0 DEF EntriesPlaced, InTree
      <3>3. ASSUME NEW e \in x.todo PROVE entry'[e].where = "tree" /\ x.view[entry'[e].mount] = NoValue
        BY <2>1, <2>2, <3>2
      <3>4. \A m \in Mounts : InTree(m)' = {} => x.view[m] = Absent
        BY <2>2, <3>1
      <3>5. ~x.deaf /\ x.at = "copies"
        BY <1>0, <2>2 DEF CopyRight
      <3> QED  BY <2>3, <3>3, <3>4, <3>5 DEF CopyRight
    <2>5. GlobalShown(w)'
      BY <1>0, <2>1, <2>2, <2>3 DEF GlobalShown, Hears
    <2>6. ASSUME NEW m \in Mounts PROVE GoneShown(w, m)'
      BY <1>0, <2>1, <2>2, <2>3 DEF GoneShown, Hears, InTree
    <2>7. ASSUME NEW e \in Entries PROVE EntryShown(w, e)'
      <3>1. entry[e].where = "tree" => WillShow(w, e)' = WillShow(w, e)
        BY <2>1, <2>2, <2>3 DEF WillShow, Base, ReadAfter, After
      <3> QED  BY <1>0, <2>1, <2>2, <2>3, <3>1 DEF EntryShown, Hears
    <2> QED  BY <2>1, <2>2, <2>4, <2>5, <2>6, <2>7, OneWatcher
  <1>2. CASE CopiesStats(w)
    <2>1. PICK e \in watch[w].todo :
            watch' = [watch EXCEPT ![w].todo = @ \ {e},
                        ![w].view[entry[e].mount] = IF entry[e].val = NoValue THEN @ ELSE entry[e].val]
      BY <1>2 DEF CopiesStats
    <2>2. watch[w].at = "copies" /\ UNCHANGED <<entry, hold, global_stat, aborted>>
      BY <1>2 DEF CopiesStats
    <2>3. /\ e \in Entries /\ entry[e].where = "tree" /\ entry[e].mount \in Mounts
          /\ watch[w].view[entry[e].mount] = NoValue
      BY <1>0, <2>2 DEF CopyRight, EntriesPlaced, WatchType
    <2> DEFINE m == entry[e].mount
               v == [watch[w].view EXCEPT ![m] = entry[e].val]
               x == [watch[w] EXCEPT !.todo = @ \ {e}, !.view = v]
    <2>4. watch[w].view \in [Mounts -> Shown] /\ v \in [Mounts -> Shown]
          /\ [watch[w].view EXCEPT ![m] = IF entry[e].val = NoValue THEN @ ELSE entry[e].val] = v
      BY <1>0, <2>3 DEF WatchType, Shown, EntryType
    <2>5. watch' = [watch EXCEPT ![w] = x]
      <3>1. watch' = [watch EXCEPT ![w] = [watch[w] EXCEPT !.todo = @ \ {e},
                        !.view = [watch[w].view EXCEPT ![m] = IF entry[e].val = NoValue THEN @ ELSE entry[e].val]]]
        BY <1>0, <2>1 DEF WatchType
      <3> QED  BY <2>4, <3>1
    <2>6. /\ x \in WatchType /\ x.at = "copies" /\ x.glob = watch[w].glob /\ x.todo = watch[w].todo \ {e}
          /\ x.view = v /\ x.pend = watch[w].pend /\ x.gpend = watch[w].gpend /\ x.deaf = watch[w].deaf
          /\ x.admin = watch[w].admin /\ x.error = watch[w].error
      BY <1>0, <2>2, <2>4 DEF WatchType
    <2>7. watch'[w] = x
      BY <1>0, <2>5
    <2>8. v[m] = entry[e].val /\ \A n \in Mounts : n # m => v[n] = watch[w].view[n]
      BY <2>3, <2>4
    <2> HIDE DEF x, v
    <2>9. CopyRight(w)'
      <3>1. ASSUME NEW n \in Mounts, InTree(n)' = {} PROVE x.view[n] = Absent
        <4>1. InTree(n) = {} /\ n # m
          BY <2>2, <2>3, <3>1 DEF InTree
        <4> QED  BY <1>0, <2>2, <2>6, <2>8, <4>1 DEF CopyRight
      <3>2. ASSUME NEW f \in x.todo PROVE entry[f].where = "tree" /\ x.view[entry[f].mount] = NoValue
        <4>1. f \in Entries /\ f # e /\ entry[f].where = "tree" /\ watch[w].view[entry[f].mount] = NoValue
          BY <1>0, <2>2, <2>6 DEF CopyRight, WatchType
        <4>2. entry[f].mount # m /\ entry[f].mount \in Mounts
          BY <1>0, <2>3, <4>1 DEF EntriesPlaced
        <4> QED  BY <2>6, <2>8, <4>1, <4>2
      <3> QED  BY <1>0, <2>2, <2>6, <2>7, <3>1, <3>2 DEF CopyRight
    <2>10. GlobalShown(w)'
      BY <1>0, <2>2, <2>6, <2>7 DEF GlobalShown, Hears
    <2>11. ASSUME NEW n \in Mounts PROVE GoneShown(w, n)'
      BY <1>0, <2>2, <2>6, <2>7 DEF GoneShown, Hears, InTree
    <2>12. ASSUME NEW f \in Entries PROVE EntryShown(w, f)'
      <3>1. CASE entry[f].where = "tree"
        <4>1. f # e => entry[f].mount # m /\ entry[f].mount \in Mounts
          BY <1>0, <2>3, <3>1 DEF EntriesPlaced
        <4>2. Base(w, f)' = Base(w, f)
          <5>1. CASE f = e
            BY <2>2, <2>6, <2>7, <2>8, <5>1 DEF Base
          <5>2. CASE f # e
            BY <2>2, <2>6, <2>7, <2>8, <4>1, <5>2 DEF Base
          <5> QED  BY <5>1, <5>2
        <4>3. WillShow(w, f)' = WillShow(w, f)
          BY <2>2, <2>6, <2>7, <4>2 DEF WillShow, ReadAfter, After
        <4> QED  BY <1>0, <2>2, <2>6, <2>7, <4>3 DEF EntryShown, Hears
      <3>2. CASE entry[f].where # "tree"
        BY <2>2, <3>2 DEF EntryShown
      <3> QED  BY <3>1, <3>2
    <2> QED  BY <2>2, <2>5, <2>6, <2>9, <2>10, <2>11, <2>12, OneWatcher
  <1> QED  BY <1>1, <1>2

LEMMA JoinStep ==
  ASSUME StatsInv, NEW w \in Watchers, JoinsQueue(w) \/ TooLong(w) \/ WatchEnds(w) PROVE StatsInv'
  <1>0. /\ watch \in [Watchers -> WatchType] /\ watch[w] \in WatchType /\ CopyRight(w) /\ GlobalShown(w)
        /\ \A e \in Entries : EntryShown(w, e)
        /\ \A m \in Mounts : GoneShown(w, m)
        /\ EntriesPlaced
    BY StatsTypes DEF StatsInv, FeedRight
  <1>1. CASE JoinsQueue(w)
    <2> DEFINE v == [m \in Mounts |-> ReadAfter(watch[w].view[m], watch[w].pend[m])]
               g == ReadAfter(watch[w].glob, watch[w].gpend)
               x == [watch[w] EXCEPT !.at = "on", !.view = v, !.glob = g,
                                     !.pend = [m \in Mounts |-> Keep], !.gpend = Keep]
    <2>1. /\ watch[w].at = "copies" /\ watch[w].todo = {} /\ UNCHANGED <<entry, hold, global_stat, aborted>>
          /\ watch' = [watch EXCEPT ![w] = x]
      <3>1. watch[w].at = "copies" /\ watch[w].todo = {} /\ UNCHANGED <<entry, hold, global_stat, aborted>>
        BY <1>1 DEF JoinsQueue
      <3>2. watch' = [watch EXCEPT ![w] = [watch[w] EXCEPT !.at = "on", !.view = v, !.glob = g,
                                              !.pend = [m \in Mounts |-> Keep], !.gpend = Keep]]
        BY <1>0, <1>1 DEF JoinsQueue, ReadAfter, WatchType
      <3> QED  BY <3>1, <3>2
    <2>2. v \in [Mounts -> Shown]
      BY <1>0, Distinct DEF WatchType, ReadAfter, After, Shown
    <2>3. g \in Values \cup {NoValue} /\ g = (IF watch[w].gpend = Keep THEN watch[w].glob ELSE watch[w].gpend)
      BY <1>0, Distinct DEF WatchType, ReadAfter, After
    <2>4. v \in [Mounts -> Shown] /\ \A m \in Mounts : v[m] = ReadAfter(watch[w].view[m], watch[w].pend[m])
      BY <2>2
    <2> HIDE DEF v, g
    <2>5. /\ x \in WatchType /\ x.at = "on" /\ x.view = v /\ x.glob = g /\ x.gpend = Keep
          /\ x.deaf = watch[w].deaf /\ x.admin = watch[w].admin /\ x.error = watch[w].error
      BY <1>0, <2>3, <2>4 DEF WatchType
    <2> HIDE DEF x
    <2>6. watch'[w] = x
      BY <1>0, <2>1
    <2>7. CopyRight(w)'
      BY <1>0, <2>5, <2>6 DEF CopyRight
    <2>8. GlobalShown(w)'
      <3>1. ~global_stat.due /\ Hears(w) => g = global_stat.val
        <4>1. global_stat.val # Keep
          BY Distinct, StatsTypes DEF StatsInv
        <4> QED  BY <1>0, <2>1, <2>3, <4>1 DEF GlobalShown
      <3> QED  BY <2>1, <2>5, <2>6, <3>1 DEF GlobalShown, Hears
    <2>9. ASSUME NEW m \in Mounts PROVE GoneShown(w, m)'
      <3>1. InTree(m)' = InTree(m)
        BY <2>1 DEF InTree
      <3>2. InTree(m) = {} => watch[w].view[m] = Absent
        BY <1>0, <2>1 DEF CopyRight
      <3>3. GoneShown(w, m)
        BY <1>0
      <3>4. Hears(w) <=> Hears(w)'
        BY <2>1, <2>5, <2>6 DEF Hears
      <3>5. Hears(w) /\ watch[w].admin /\ InTree(m) = {} /\ hold[m].at # "cut" => v[m] = Absent
        BY <2>1, <2>4, <3>2, <3>3, Distinct DEF GoneShown, ReadAfter, After
      <3> QED  BY <2>1, <2>5, <2>6, <3>1, <3>4, <3>5 DEF GoneShown
    <2>10. ASSUME NEW e \in Entries PROVE EntryShown(w, e)'
      <3>1. CASE entry[e].where = "tree"
        <4>1. entry[e].mount \in Mounts
          BY <1>0, <3>1 DEF EntriesPlaced
        <4>2. WillShow(w, e) = ReadAfter(watch[w].view[entry[e].mount], watch[w].pend[entry[e].mount])
          BY <2>1 DEF WillShow, Base
        <4>3. WillShow(w, e)' = v[entry[e].mount]
          BY <2>1, <2>5, <2>6 DEF WillShow
        <4>4. WillShow(w, e)' = WillShow(w, e)
          BY <2>4, <4>1, <4>2, <4>3
        <4> QED  BY <1>0, <2>1, <2>5, <2>6, <4>4 DEF EntryShown, Hears
      <3>2. CASE entry[e].where # "tree"
        BY <2>1, <3>2 DEF EntryShown
      <3> QED  BY <3>1, <3>2
    <2> QED  BY <2>1, <2>5, <2>7, <2>8, <2>9, <2>10, OneWatcher
  <1>2. CASE TooLong(w)
    <2> DEFINE x == [watch[w] EXCEPT !.error = TRUE]
    <2>1. /\ watch' = [watch EXCEPT ![w] = x] /\ watch[w].at = "on" /\ UNCHANGED <<entry, hold, global_stat, aborted>>
      BY <1>0, <1>2 DEF TooLong
    <2>2. /\ x \in WatchType /\ x.at = "on" /\ x.error /\ x.deaf = watch[w].deaf /\ watch'[w] = x
      BY <1>0, <2>1 DEF WatchType
    <2> HIDE DEF x
    <2>3. /\ CopyRight(w)' /\ GlobalShown(w)'
          /\ \A e \in Entries : EntryShown(w, e)'
          /\ \A m \in Mounts : GoneShown(w, m)'
      BY <1>0, <2>2 DEF CopyRight, GlobalShown, EntryShown, GoneShown, Hears
    <2> QED  BY <2>1, <2>2, <2>3, OneWatcher
  <1>3. CASE WatchEnds(w)
    <2>1. /\ watch' = [watch EXCEPT ![w] = OffWatch] /\ UNCHANGED <<entry, hold, global_stat, aborted>>
          /\ watch'[w] = OffWatch /\ OffWatch.at = "off" /\ ~OffWatch.deaf
      BY <1>0, <1>3 DEF WatchEnds, OffWatch
    <2>2. OffWatch \in WatchType
      BY DEF OffWatch, WatchType, Shown
    <2>3. /\ CopyRight(w)' /\ GlobalShown(w)'
          /\ \A e \in Entries : EntryShown(w, e)'
          /\ \A m \in Mounts : GoneShown(w, m)'
      <3>1. CopyRight(w)'
        BY <2>1 DEF CopyRight, OffWatch
      <3> QED  BY <2>1, <3>1 DEF GlobalShown, EntryShown, GoneShown, Hears
    <2> QED  BY <2>1, <2>2, <2>3, OneWatcher
  <1> QED  BY <1>1, <1>2, <1>3

LEMMA GlobalStep ==
  ASSUME StatsInv, GlobalChanges \/ GlobalCalc PROVE StatsInv'
  <1>0. /\ watch \in [Watchers -> WatchType] /\ global_stat.val \in Values \cup {NoValue}
        /\ \A m \in Mounts : InTree(m)' = InTree(m)
        /\ UNCHANGED <<entry, hold, aborted>>
    BY StatsTypes DEF StatsInv, GlobalChanges, GlobalCalc, InTree
  <1>1. EntriesPlaced' /\ HandlesPlaced'
    BY <1>0, SamePlaced
  <1>2. ASSUME NEW w \in Watchers
        PROVE  /\ watch'[w] \in WatchType /\ GlobalShown(w)'
               /\ watch'[w].at = watch[w].at /\ watch'[w].view = watch[w].view /\ watch'[w].pend = watch[w].pend
               /\ watch'[w].todo = watch[w].todo /\ watch'[w].admin = watch[w].admin
               /\ watch'[w].error = watch[w].error /\ watch'[w].deaf = watch[w].deaf
               /\ watch[w].at = "off" => watch'[w] = watch[w]
    <2>1. watch[w] \in WatchType
      BY <1>0
    <2>2. CASE GlobalChanges
      BY <2>1, <2>2 DEF GlobalChanges, GlobalShown
    <2>3. CASE GlobalCalc
      <3>1. w \in Told(FALSE) <=> Hears(w)
        BY ToldAre
      <3>2. watch'[w] = IF ~Hears(w) THEN watch[w]
                        ELSE IF watch[w].at = "on" THEN [watch[w] EXCEPT !.glob = global_stat.val]
                        ELSE [watch[w] EXCEPT !.gpend = global_stat.val]
        BY <2>3, <3>1 DEF GlobalCalc
      <3>3. global_stat'.val = global_stat.val
        BY <2>3, StatsTypes DEF GlobalCalc, StatsInv
      <3>4. CASE ~Hears(w)
        BY <2>1, <3>2, <3>4 DEF GlobalShown, Hears
      <3>5. CASE Hears(w) /\ watch[w].at = "on"
        BY <1>0, <2>1, <3>2, <3>3, <3>5 DEF GlobalShown, Hears, WatchType
      <3>6. CASE Hears(w) /\ watch[w].at # "on"
        BY <1>0, <2>1, <3>2, <3>3, <3>6 DEF GlobalShown, Hears, WatchType
      <3> QED  BY <3>4, <3>5, <3>6
    <2> QED  BY <2>2, <2>3
  <1>3. ASSUME NEW w \in Watchers
        PROVE  /\ CopyRight(w)' /\ \A e \in Entries : EntryShown(w, e)'
               /\ \A m \in Mounts : GoneShown(w, m)'
    <2>1. /\ CopyRight(w) /\ (\A e \in Entries : EntryShown(w, e))
          /\ (\A m \in Mounts : GoneShown(w, m))
      BY DEF StatsInv, FeedRight
    <2>2. \A e \in Entries : WillShow(w, e)' = WillShow(w, e)
      BY <1>0, <1>2 DEF WillShow, Base, ReadAfter, After
    <2>3. Hears(w)' <=> Hears(w)
      BY <1>2 DEF Hears
    <2>4. CopyRight(w)'
      BY <1>0, <1>2, <2>1 DEF CopyRight, OffWatch
    <2>5. ASSUME NEW e \in Entries PROVE EntryShown(w, e)'
      BY <1>0, <1>2, <2>1, <2>2, <2>3 DEF EntryShown
    <2>6. ASSUME NEW m \in Mounts PROVE GoneShown(w, m)'
      BY <1>0, <1>2, <2>1, <2>3 DEF GoneShown
    <2> QED  BY <2>4, <2>5, <2>6
  <1>4. /\ watch' \in [Watchers -> WatchType]
        /\ global_stat' \in [val : Values \cup {NoValue}, due : BOOLEAN]
    <2>1. CASE GlobalChanges
      BY <1>0, <2>1 DEF GlobalChanges
    <2>2. CASE GlobalCalc
      <3>1. watch' \in [Watchers -> WatchType]
        BY <1>2, <2>2 DEF GlobalCalc
      <3> QED  BY <2>2, <3>1, StatsTypes DEF GlobalCalc, StatsInv
    <2> QED  BY <2>1, <2>2
  <1>5. TypeOK'
    BY <1>0, <1>4, StatsTypes, StatsTypesNext DEF StatsInv
  <1> QED  BY <1>1, <1>2, <1>3, <1>5 DEF StatsInv, FeedRight

LEMMA StatsStep == StatsInv /\ ~OffWorker /\ [Next]_statsVars => StatsInv'
  <1> SUFFICES ASSUME StatsInv, ~OffWorker, [Next]_statsVars PROVE StatsInv'
    OBVIOUS
  <1>1. CASE UNCHANGED statsVars
    <2>1. EntriesPlaced' /\ HandlesPlaced' /\ FeedRight'
      BY <1>1, SamePlaced, QuietStep DEF statsVars
    <2> QED  BY <1>1, <2>1, StatsTypes, StatsTypesNext DEF statsVars, StatsInv
  <1>2. ASSUME NEW m \in Mounts, OwnerStep(m) \/ Event(m) \/ Refresh(m) \/ StaticInit(m)
        PROVE  StatsInv'
    BY <1>2, OwnersStep, EventStep
  <1>3. CASE YpHandle \/ YpReads
    BY <1>3, YpStep
  <1>4. CASE GlobalChanges \/ GlobalCalc
    BY <1>4, GlobalStep
  <1>5. ASSUME NEW e \in Entries, Purge(e) PROVE StatsInv'
    BY <1>5, PurgeStep
  <1>6. ASSUME NEW w \in Watchers, WatcherStep(w) PROVE StatsInv'
    BY <1>6, RegistersStep, CopyStep, JoinStep DEF WatcherStep
  <1> QED  BY <1>1, <1>2, <1>3, <1>4, <1>5, <1>6 DEF Next


LEMMA StatsRight == StatsInv => TypeOK /\ HandlesLive /\ FeedAddsUp
  <1> SUFFICES ASSUME StatsInv PROVE TypeOK /\ HandlesLive /\ FeedAddsUp
    OBVIOUS
  <1>0. Placed
    BY PlacedNow
  <1>1. ASSUME NEW m \in Mounts PROVE Cardinality(InTree(m)) <= 1
    <2>2. CASE InTree(m) = {}
      BY <2>2, FS_EmptySet
    <2>3. CASE InTree(m) # {}
      <3>1. PICK e \in Entries : e \in InTree(m)
        BY <2>3 DEF InTree
      <3>2. InTree(m) = {e}
        BY <1>0, <3>1 DEF InTree, Placed, EntriesPlaced
      <3> QED  BY <3>2, FS_Singleton
    <2> QED  BY <2>2, <2>3
  <1>2. HandlesLive
    BY <1>0, <1>1 DEF HandlesLive, Placed, HandlesPlaced, InTree
  <1>3. FeedAddsUp
    <2> SUFFICES ASSUME NEW w \in Watchers, watch[w].at = "on", ~watch[w].error
                 PROVE  /\ ~global_stat.due => watch[w].glob = global_stat.val
                        /\ \A m \in Mounts : hold[m].at # "cut" =>
                             /\ \A e \in InTree(m) :
                                  ~entry[e].hidden /\ (entry[e].val # NoValue \/ watch[w].admin)
                                      => watch[w].view[m] = entry[e].val
                             /\ InTree(m) = {} /\ watch[w].admin => watch[w].view[m] = Absent
      BY DEF FeedAddsUp
    <2>1. Hears(w) /\ GlobalShown(w)
      BY DEF Hears, StatsInv, FeedRight
    <2>2. ASSUME NEW m \in Mounts, hold[m].at # "cut", NEW e \in InTree(m),
                 ~entry[e].hidden /\ (entry[e].val # NoValue \/ watch[w].admin)
          PROVE  watch[w].view[m] = entry[e].val
      <3>1. e \in Entries /\ entry[e].where = "tree" /\ entry[e].mount = m /\ EntryShown(w, e)
        BY DEF InTree, StatsInv, FeedRight
      <3> QED  BY <2>1, <2>2, <3>1 DEF EntryShown, WillShow
    <2>3. ASSUME NEW m \in Mounts, hold[m].at # "cut", InTree(m) = {}, watch[w].admin
          PROVE  watch[w].view[m] = Absent
      BY <2>1, <2>3 DEF StatsInv, FeedRight, GoneShown
    <2> QED  BY <2>1, <2>2, <2>3 DEF GlobalShown
  <1> QED  BY <1>2, <1>3 DEF StatsInv

(* stats.c stats_handle, _register_listener, stats_purge: provided no      *)
(* handler of an authenticator registers a watcher that has no worker yet, *)
(* for any mounts, entries and watchers a handle outlives who uses it, and *)
(* what a watcher was sent adds up to what the tree holds.                 *)
THEOREM StatsSafe == ASSUME Apart, ~OffWorker PROVE Spec => [](HandlesLive /\ FeedAddsUp)
  <1>1. Init => StatsInv
    BY StatsInit
  <1>2. StatsInv /\ [Next]_statsVars => StatsInv'
    BY StatsStep
  <1>3. StatsInv => HandlesLive /\ FeedAddsUp
    BY StatsRight
  <1> QED  BY <1>1, <1>2, <1>3, PTL DEF Spec
===============================================================================
