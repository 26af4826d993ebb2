---------------------------- MODULE ServicesProofs ----------------------------
(***************************************************************************)
(* Proofs about the parts of MCServices, for every value of the constants. *)
(* A behaviour runs one part and leaves the variables of the others alone, *)
(* so each theorem rests on an inductive invariant of its part.            *)
(***************************************************************************)
EXTENDS MCServices, FiniteSetTheorems, TLAPS

-------------------------------------------------------------------------------
(* The file server.                                                        *)

FilesTyped ==
  /\ node \in [Nodes -> [live : BOOLEAN, key : Files \cup {NoNode}, refcount : Nat,
                         fallback : BOOLEAN, delete : BOOLEAN, override : BOOLEAN,
                         open : BOOLEAN, expire : BOOLEAN]]
  /\ cache \in [Files -> Nodes \cup {NoNode}]
  /\ hearer \in [Hearers -> [at : {"away", "stream", "file"}, node : Nodes \cup {NoNode},
                             left : Nodes \cup {NoNode}]]
  /\ counted \in Int /\ counted <= MaxCounted
  /\ serving \in {"yes", "closing", "gone"}

(* A listener reads a node exactly when it is on a file, and has left      *)
(* another one.                                                            *)
HearersPlaced ==
  \A l \in Hearers :
    /\ hearer[l].at = "file" <=> hearer[l].node # NoNode
    /\ hearer[l].left # NoNode => hearer[l].left # hearer[l].node
    /\ hearer[l].at = "away" => hearer[l].left = NoNode

(* Free memory is blank; a node taken out of the cache will be freed; only *)
(* a fallback file is counted or was overridden.                           *)
NodesRight ==
  \A n \in Nodes :
    /\ ~node[n].live => node[n] = F!NoFile
    /\ node[n].override => node[n].delete
    /\ node[n].override \/ node[n].fallback => node[n].key \in Fallbacks
    /\ node[n].live /\ (\A f \in Files : cache[f] # n) => node[n].delete /\ ~node[n].fallback

CacheRight ==
  \A f \in Files : cache[f] # NoNode =>
    /\ node[cache[f]].live /\ node[cache[f]].open /\ node[cache[f]].key = f
    /\ ~node[cache[f]].delete

ReadersCounted ==
  \A n \in Nodes :
    /\ node[n].refcount = Cardinality(F!Readers(n))
    /\ node[n].live /\ (\A f \in Files : cache[f] # n) => node[n].refcount > 0

FilesInv ==
  FilesTyped /\ HearersPlaced /\ NodesRight /\ CacheRight /\ ReadersCounted /\ F!NeverUndercounted


LEMMA SameCardinality == \A set : F!Cardinality(set) = Cardinality(set)
  BY DEF F!Cardinality, Cardinality

LEMMA FilesInit == F!Init => FilesInv
  <1> SUFFICES ASSUME F!Init PROVE FilesInv
    OBVIOUS
  <1> USE FilesAssumption DEF F!Init
  <1>1. FilesTyped /\ HearersPlaced /\ NodesRight /\ CacheRight
    BY DEF FilesTyped, HearersPlaced, NodesRight, CacheRight, F!NoFile, F!Away
  <1>2. ASSUME NEW n \in Nodes PROVE F!Readers(n) = {} /\ ~node[n].live /\ node[n].refcount = 0
    BY DEF F!Readers, F!NoFile, F!Away
  <1>3. F!Hearing = {}
    BY DEF F!Hearing, F!Away
  <1>4. Cardinality({}) = 0
    BY FS_EmptySet
  <1>5. ReadersCounted
    BY <1>2, <1>4 DEF ReadersCounted
  <1>6. F!NeverUndercounted
    <2>1. Cardinality(F!Hearing) = 0
      BY <1>3, <1>4
    <2> QED  BY <2>1, SameCardinality DEF F!NeverUndercounted
  <1> QED  BY <1>1, <1>5, <1>6 DEF FilesInv

(* What a node counts when listener l goes from a to b.                    *)
Reads(l, n) == n \in {hearer[l].node, hearer[l].left}

LEMMA ReadersFinite ==
  ASSUME FilesTyped, NEW n \in Nodes
  PROVE  IsFiniteSet(F!Readers(n)) /\ Cardinality(F!Readers(n)) \in Nat
         /\ Cardinality(F!Readers(n)) <= Cardinality(Hearers)
         /\ Cardinality(Hearers) \in Nat
  <1>1. F!Readers(n) \subseteq Hearers
    BY DEF F!Readers
  <1> QED  BY <1>1, FilesAssumption, FS_Subset, FS_CardinalityType

LEMMA ReadersMove ==
  ASSUME FilesTyped, NEW l \in Hearers, NEW n \in Nodes,
         \A k \in Hearers \ {l} : hearer'[k] = hearer[k]
  PROVE  /\ (Reads(l, n) <=> Reads(l, n)') => F!Readers(n)' = F!Readers(n)
         /\ ~Reads(l, n) /\ Reads(l, n)' => Cardinality(F!Readers(n)') = Cardinality(F!Readers(n)) + 1
         /\ Reads(l, n) /\ ~Reads(l, n)' => Cardinality(F!Readers(n)') = Cardinality(F!Readers(n)) - 1
  <1> USE DEF F!Readers, Reads
  <1>1. CASE Reads(l, n) <=> Reads(l, n)'
    BY <1>1
  <1>2. CASE ~Reads(l, n) /\ Reads(l, n)'
    <2>1. l \notin F!Readers(n) /\ F!Readers(n)' = F!Readers(n) \cup {l}
      BY <1>2
    <2> QED  BY <1>2, <2>1, ReadersFinite, FS_AddElement
  <1>3. CASE Reads(l, n) /\ ~Reads(l, n)'
    <2>1. l \in F!Readers(n) /\ F!Readers(n)' = F!Readers(n) \ {l}
      BY <1>3
    <2> QED  BY <1>3, <2>1, ReadersFinite, FS_RemoveElement
  <1> QED  BY <1>1, <1>2, <1>3

(* The node somebody reads counts them.                                    *)
LEMMA ReadIsCounted ==
  ASSUME FilesInv, NEW l \in Hearers, NEW n \in Nodes, Reads(l, n)
  PROVE  /\ node[n].refcount > 0 /\ node[n].live
         /\ \A k \in Hearers \ {l} : Reads(k, n) => node[n].refcount > 1
  <1> USE DEF FilesInv, ReadersCounted
  <1>1. l \in F!Readers(n)
    BY DEF F!Readers, Reads
  <1>2. node[n].refcount > 0
    BY <1>1, ReadersFinite, FS_EmptySet, FS_CardinalityType
  <1>3. node[n].live
    BY <1>2 DEF NodesRight, F!NoFile
  <1>4. ASSUME NEW k \in Hearers \ {l}, Reads(k, n) PROVE node[n].refcount > 1
    <2>1. k \in F!Readers(n) \ {l}
      BY <1>4 DEF F!Readers, Reads
    <2>2. IsFiniteSet(F!Readers(n) \ {l})
          /\ Cardinality(F!Readers(n) \ {l}) = Cardinality(F!Readers(n)) - 1
      BY <1>1, ReadersFinite, FS_RemoveElement
    <2>3. Cardinality(F!Readers(n) \ {l}) > 0
      BY <2>1, <2>2, FS_EmptySet, FS_CardinalityType
    <2> QED  BY <2>2, <2>3, ReadersFinite
  <1> QED  BY <1>2, <1>3, <1>4

(* The listeners counted, when all but l hear what they heard.             *)
LEMMA HearingMoves ==
  ASSUME NEW l \in Hearers,
         \A k \in Hearers \ {l} : k \in F!Hearing' <=> k \in F!Hearing
  PROVE  /\ Cardinality(F!Hearing) \in Nat
         /\ (l \in F!Hearing <=> l \in F!Hearing') => Cardinality(F!Hearing') = Cardinality(F!Hearing)
         /\ l \notin F!Hearing /\ l \in F!Hearing' => Cardinality(F!Hearing') = Cardinality(F!Hearing) + 1
         /\ l \in F!Hearing /\ l \notin F!Hearing' => Cardinality(F!Hearing') = Cardinality(F!Hearing) - 1
  <1>1. F!Hearing \subseteq Hearers /\ F!Hearing' \subseteq Hearers
    BY DEF F!Hearing
  <1>2. IsFiniteSet(F!Hearing) /\ Cardinality(F!Hearing) \in Nat
    BY <1>1, FilesAssumption, FS_Subset, FS_CardinalityType
  <1>3. (l \in F!Hearing <=> l \in F!Hearing') => F!Hearing' = F!Hearing
    BY <1>1
  <1>4. l \notin F!Hearing /\ l \in F!Hearing' => F!Hearing' = F!Hearing \cup {l}
    BY <1>1
  <1>5. l \in F!Hearing /\ l \notin F!Hearing' => F!Hearing' = F!Hearing \ {l}
    BY <1>1
  <1> QED  BY <1>2, <1>3, <1>4, <1>5, FS_AddElement, FS_RemoveElement

(* A step that no listener takes and that keeps what each node counts.     *)
LEMMA FilesQuiet ==
  ASSUME FilesInv, UNCHANGED <<hearer, counted>>, FilesTyped', NodesRight', CacheRight',
         \A n \in Nodes :
           /\ node'[n].refcount = node[n].refcount
           /\ node[n].refcount > 0 => node'[n].key = node[n].key
           /\ node'[n].live /\ (\A f \in Files : cache'[f] # n) => node[n].refcount > 0
  PROVE  FilesInv'
  <1> USE DEF FilesInv
  <1>1. HearersPlaced'
    BY DEF HearersPlaced
  <1>2. ReadersCounted'
    BY DEF ReadersCounted, F!Readers
  <1>3. F!Hearing' = F!Hearing
    <2>1. ASSUME NEW l \in Hearers, hearer[l].at = "file"
          PROVE  node'[hearer[l].node].key = node[hearer[l].node].key
      <3>1. hearer[l].node \in Nodes /\ Reads(l, hearer[l].node)
        BY <2>1 DEF HearersPlaced, FilesTyped, Reads
      <3> QED  BY <3>1, ReadIsCounted
    <2> QED  BY <2>1 DEF F!Hearing
  <1> QED  BY <1>1, <1>2, <1>3 DEF F!NeverUndercounted

FhNode ==
  [live : BOOLEAN, key : Files \cup {NoNode}, refcount : Nat, fallback : BOOLEAN,
   delete : BOOLEAN, override : BOOLEAN, open : BOOLEAN, expire : BOOLEAN]

LEMMA OpenedFile ==
  ASSUME NEW f \in Files
  PROVE  /\ F!Opened(f) \in FhNode
         /\ F!Opened(f).live /\ F!Opened(f).open /\ F!Opened(f).key = f /\ F!Opened(f).refcount = 0
         /\ F!Opened(f).fallback <=> f \in Fallbacks
         /\ ~F!Opened(f).delete /\ ~F!Opened(f).override
  <1> USE DEF F!Opened
  <1>1. F!Opened(f) \in FhNode
    BY DEF FhNode
  <1>2. F!Opened(f).live /\ F!Opened(f).open /\ F!Opened(f).key = f /\ F!Opened(f).refcount = 0
    OBVIOUS
  <1>3. F!Opened(f).fallback <=> f \in Fallbacks
    OBVIOUS
  <1>4. ~F!Opened(f).delete /\ ~F!Opened(f).override
    OBVIOUS
  <1> QED  BY <1>1, <1>2, <1>3, <1>4

LEMMA CountChanged ==
  ASSUME NEW o \in FhNode, NEW k \in Nat, NEW p, p = [o EXCEPT !.refcount = k]
  PROVE  /\ p \in FhNode /\ p.refcount = k
         /\ p.live = o.live /\ p.open = o.open /\ p.key = o.key /\ p.delete = o.delete
         /\ p.override = o.override /\ p.fallback = o.fallback
  BY DEF FhNode

(* Memory that is free, and the file opened in it.                         *)
LEMMA SpareIsFree ==
  ASSUME FilesInv, F!FreeNodes # {}
  PROVE  F!Spare \in Nodes /\ node[F!Spare] = F!NoFile /\ \A f \in Files : cache[f] # F!Spare
  <1>1. F!Spare \in F!FreeNodes
    BY DEF F!Spare
  <1> QED  BY <1>1, FilesAssumption DEF F!FreeNodes, FilesInv, NodesRight, CacheRight

LEMMA QueryCountStep ==
  ASSUME FilesInv, NEW f \in Files, F!QueryCount(f)
  PROVE  FilesInv'
  <1> USE FilesAssumption DEF FilesInv, F!QueryCount
  <1>1. CASE cache[f] = NoNode
    <2> DEFINE s == F!Spare
    <2>1. s \in Nodes /\ node[s] = F!NoFile /\ \A g \in Files : cache[g] # s
      BY <1>1, SpareIsFree
    <2>2. node' = [node EXCEPT ![s] = [F!Opened(f) EXCEPT !.expire = TRUE]]
          /\ cache' = [cache EXCEPT ![f] = s]
      BY <1>1
    <2> HIDE DEF s
    <2>3. FilesTyped'
      BY <2>1, <2>2 DEF FilesTyped, F!Opened, F!NoFile
    <2>4. NodesRight' /\ CacheRight'
      BY <2>1, <2>2 DEF FilesTyped, NodesRight, CacheRight, F!Opened, F!NoFile
    <2> QED  BY <2>1, <2>2, <2>3, <2>4, FilesQuiet DEF FilesTyped, ReadersCounted, F!Opened, F!NoFile
  <1>2. CASE cache[f] # NoNode
    <2>1. PICK b \in BOOLEAN : node' = [node EXCEPT ![cache[f]].expire = b]
      BY <1>2 DEF FilesTyped
    <2>2. cache[f] \in Nodes /\ cache' = cache
      BY <1>2 DEF FilesTyped
    <2>3. FilesTyped'
      BY <2>1, <2>2 DEF FilesTyped
    <2>4. \A m \in Nodes :
            /\ node'[m].live = node[m].live /\ node'[m].open = node[m].open
            /\ node'[m].key = node[m].key /\ node'[m].delete = node[m].delete
            /\ node'[m].override = node[m].override /\ node'[m].fallback = node[m].fallback
            /\ node'[m].refcount = node[m].refcount
            /\ m # cache[f] => node'[m] = node[m]
      BY <2>1, <2>2 DEF FilesTyped
    <2>5. node[cache[f]].live
      BY <1>2 DEF CacheRight
    <2>6. NodesRight'
      BY <2>2, <2>4, <2>5 DEF NodesRight
    <2>7. CacheRight'
      BY <2>2, <2>4 DEF CacheRight, FilesTyped
    <2> QED  BY <2>2, <2>3, <2>4, <2>6, <2>7, FilesQuiet DEF ReadersCounted
  <1> QED  BY <1>1, <1>2

LEMMA RequestFailsStep ==
  ASSUME FilesInv, NEW f \in Files, F!RequestFails(f)
  PROVE  FilesInv'
  <1> USE FilesAssumption DEF FilesInv
  <1>1. F!Spare \in Nodes /\ node[F!Spare] = F!NoFile /\ \A g \in Files : cache[g] # F!Spare
    BY SpareIsFree DEF F!RequestFails
  <1>2. PICK s \in Nodes :
          /\ node[s] = F!NoFile /\ \A g \in Files : cache[g] # s
          /\ node' = [node EXCEPT ![s] = F!Opened(f)] /\ cache' = [cache EXCEPT ![f] = s]
    BY <1>1 DEF F!RequestFails
  <1>3. UNCHANGED <<hearer, counted, serving>>
    BY DEF F!RequestFails
  <1>4. FilesTyped'
    BY <1>2, <1>3, OpenedFile DEF FilesTyped, FhNode
  <1>5. /\ \A n \in Nodes \ {s} : node'[n] = node[n]
        /\ node'[s] = F!Opened(f) /\ cache'[f] = s /\ \A g \in Files \ {f} : cache'[g] = cache[g]
        /\ cache[f] = NoNode
    BY <1>2 DEF FilesTyped, F!RequestFails
  <1>6. NodesRight'
    BY <1>2, <1>5, OpenedFile DEF NodesRight
  <1>7. CacheRight'
    BY <1>2, <1>5, OpenedFile DEF CacheRight, FilesTyped
  <1>8. \A m \in Nodes :
          /\ node'[m].refcount = node[m].refcount
          /\ node[m].refcount > 0 => node'[m].key = node[m].key
          /\ node'[m].live /\ (\A g \in Files : cache'[g] # m) => node[m].refcount > 0
    <2>1. node'[s].refcount = 0 /\ node[s].refcount = 0
      BY <1>2, <1>5, OpenedFile DEF F!NoFile
    <2> QED  BY <1>2, <1>5, <2>1 DEF ReadersCounted
  <1> QED  BY <1>3, <1>4, <1>6, <1>7, <1>8, FilesQuiet

LEMMA SetOverrideStep ==
  ASSUME FilesInv, NEW f \in Files, F!SetOverride(f)
  PROVE  FilesInv'
  <1> USE FilesAssumption DEF FilesInv
  <1>1. F!Spare \in Nodes /\ node[F!Spare] = F!NoFile /\ \A g \in Files : cache[g] # F!Spare
    BY SpareIsFree DEF F!SetOverride
  <1>2. PICK s \in Nodes, n \in Nodes :
          /\ node[s] = F!NoFile /\ \A g \in Files : cache[g] # s
          /\ n = cache[f] /\ node[n].refcount > 0
          /\ node' = [node EXCEPT
               ![s] = [F!Opened(f) EXCEPT !.open = node[n].open],
               ![n] = [@ EXCEPT !.delete = TRUE, !.fallback = FALSE, !.open = FALSE,
                                !.override = TRUE]]
          /\ cache' = [cache EXCEPT ![f] = s]
    BY <1>1 DEF F!SetOverride, FilesTyped
  <1>3. UNCHANGED <<hearer, counted, serving>> /\ f \in Fallbacks
    BY DEF F!SetOverride
  <1>4. n # s /\ node[n].key = f /\ node[n].open = TRUE /\ node[n].live
    BY <1>2 DEF CacheRight, FilesTyped
  <1>5. [F!Opened(f) EXCEPT !.open = node[n].open] = F!Opened(f)
    BY <1>4, OpenedFile DEF FhNode
  <1>6. node' = [node EXCEPT ![s] = F!Opened(f),
                             ![n] = [@ EXCEPT !.delete = TRUE, !.fallback = FALSE, !.open = FALSE,
                                              !.override = TRUE]]
    BY <1>2, <1>5
  <1>7. \A m \in Nodes \ {n, s} : node'[m] = node[m]
    BY <1>6 DEF FilesTyped
  <1>8. /\ node'[s] = F!Opened(f)
        /\ node'[n] = [node[n] EXCEPT !.delete = TRUE, !.fallback = FALSE, !.open = FALSE,
                                      !.override = TRUE]
    BY <1>4, <1>6 DEF FilesTyped
  <1>9. FilesTyped'
    <2>1. F!Opened(f) \in FhNode /\ node \in [Nodes -> FhNode]
      BY OpenedFile DEF FilesTyped, FhNode
    <2>2. [node[n] EXCEPT !.delete = TRUE, !.fallback = FALSE, !.open = FALSE, !.override = TRUE] \in FhNode
      BY <2>1 DEF FhNode
    <2>3. node' \in [Nodes -> FhNode]
      BY <1>2, <1>4, <1>6, <2>1, <2>2
    <2> QED  BY <1>2, <1>3, <2>3 DEF FilesTyped, FhNode
  <1>10. NodesRight' /\ CacheRight'
    <2>1. node[n] \in FhNode
      BY DEF FilesTyped, FhNode
    <2>2. /\ node'[n].live /\ node'[n].delete /\ ~node'[n].fallback /\ node'[n].override
          /\ node'[n].key = f /\ node'[n].refcount = node[n].refcount
      BY <1>4, <1>8, <2>1 DEF FhNode
    <2>3. \A g \in Files : cache'[g] = IF g = f THEN s ELSE cache[g]
      BY <1>2 DEF FilesTyped
    <2>4. \A g \in Files \ {f} : cache[g] # n
      BY <1>2, <1>4 DEF CacheRight
    <2>5. NodesRight'
      <3>1. ASSUME NEW m \in Nodes \ {n, s}, \A g \in Files : cache'[g] # m
            PROVE  \A g \in Files : cache[g] # m
        BY <1>2, <2>3, <3>1
      <3>2. cache'[f] = s
        BY <2>3
      <3>3. ASSUME NEW m \in Nodes \ {n, s}
            PROVE  /\ ~node'[m].live => node'[m] = F!NoFile
                   /\ node'[m].override => node'[m].delete
                   /\ node'[m].override \/ node'[m].fallback => node'[m].key \in Fallbacks
                   /\ node'[m].live /\ (\A g \in Files : cache'[g] # m)
                        => node'[m].delete /\ ~node'[m].fallback
        BY <1>7, <3>1 DEF NodesRight
      <3>4. node'[s].live /\ ~node'[s].override /\ node'[s].key \in Fallbacks
        BY <1>3, <1>8, OpenedFile
      <3> QED  BY <1>3, <2>2, <3>2, <3>3, <3>4 DEF NodesRight
    <2>6. CacheRight'
      BY <1>2, <1>7, <1>8, <2>3, <2>4, OpenedFile DEF CacheRight, FilesTyped
    <2> QED  BY <2>5, <2>6
  <1>11. \A m \in Nodes :
          /\ node'[m].refcount = node[m].refcount
          /\ node[m].refcount > 0 => node'[m].key = node[m].key
          /\ node'[m].live /\ (\A g \in Files : cache'[g] # m) => node[m].refcount > 0
    <2>1. /\ node'[s].refcount = node[s].refcount /\ node[s].refcount = 0 /\ cache'[f] = s
      BY <1>2, <1>8, OpenedFile DEF F!NoFile, FilesTyped
    <2>2. node'[n].refcount = node[n].refcount /\ node'[n].key = node[n].key
      BY <1>8, <1>2 DEF FilesTyped
    <2>3. ASSUME NEW m \in Nodes \ {n, s}, \A g \in Files : cache'[g] # m
          PROVE  \A g \in Files : cache[g] # m
      BY <1>2, <2>3 DEF FilesTyped
    <2>4. \A m \in Nodes \ {n, s} : node'[m] = node[m]
      BY <1>7
    <2>5. node[n].refcount > 0
      BY <1>2
    <2> QED  BY <2>1, <2>2, <2>3, <2>4, <2>5 DEF ReadersCounted
  <1> QED  BY <1>3, <1>9, <1>10, <1>11, FilesQuiet

(* Scan and ShutDownFrees close a file that nobody reads.                  *)
LEMMA ClosedStep ==
  ASSUME FilesInv, NEW f \in Files, cache[f] # NoNode, node[cache[f]].refcount = 0,
         node' = [node EXCEPT ![cache[f]] = F!NoFile], cache' = [cache EXCEPT ![f] = NoNode],
         UNCHANGED <<hearer, counted, serving>>
  PROVE  FilesInv'
  <1> USE FilesAssumption DEF FilesInv
  <1>1. PICK n \in Nodes : n = cache[f]
    BY DEF FilesTyped
  <1>2. \A g \in Files : cache[g] = n => g = f
    BY <1>1 DEF CacheRight
  <1>3. FilesTyped'
    BY <1>1 DEF FilesTyped, F!NoFile
  <1>4. NodesRight' /\ CacheRight'
    BY <1>1, <1>2 DEF FilesTyped, NodesRight, CacheRight, F!NoFile
  <1>5. \A m \in Nodes :
          /\ node'[m].refcount = node[m].refcount
          /\ node[m].refcount > 0 => node'[m].key = node[m].key
          /\ node'[m].live /\ (\A g \in Files : cache'[g] # m) => node[m].refcount > 0
    BY <1>1, <1>2 DEF FilesTyped, ReadersCounted, F!NoFile
  <1> QED  BY <1>3, <1>4, <1>5, FilesQuiet

LEMMA ShutDownEndsStep ==
  ASSUME FilesInv, Patient, F!ShutDownEnds
  PROVE  FilesInv'
  <1> USE FilesAssumption DEF FilesInv, F!ShutDownEnds
  <1>1. FilesTyped'
    BY DEF FilesTyped, F!NoFile
  <1>2. \A n \in Nodes :
          IF \E f \in Files : cache[f] = n THEN node'[n] = F!NoFile /\ node[n].refcount = 0
                                           ELSE node'[n] = node[n]
    OBVIOUS
  <1>3. NodesRight' /\ CacheRight'
    BY <1>2 DEF FilesTyped, NodesRight, CacheRight, F!NoFile
  <1>4. \A n \in Nodes :
          /\ node'[n].refcount = node[n].refcount
          /\ node[n].refcount > 0 => node'[n].key = node[n].key
          /\ node'[n].live /\ (\A f \in Files : cache'[f] # n) => node[n].refcount > 0
    BY <1>2 DEF FilesTyped, ReadersCounted, F!NoFile
  <1> QED  BY <1>1, <1>3, <1>4, FilesQuiet

(* A step of listener l that counts it where it goes and where it leaves.  *)
LEMMA FilesMoved ==
  ASSUME FilesInv, NEW l \in Hearers, \A k \in Hearers \ {l} : hearer'[k] = hearer[k],
         FilesTyped', HearersPlaced', NodesRight', CacheRight',
         \A n \in Nodes :
           /\ (Reads(l, n) <=> Reads(l, n)') => node'[n].refcount = node[n].refcount
           /\ ~Reads(l, n) /\ Reads(l, n)' => node'[n].refcount = node[n].refcount + 1
           /\ Reads(l, n) /\ ~Reads(l, n)' => node'[n].refcount = node[n].refcount - 1
           /\ node'[n].live /\ (\A f \in Files : cache'[f] # n) => node'[n].refcount > 0,
         \A k \in Hearers \ {l}, n \in Nodes : Reads(k, n) => node'[n].key = node[n].key,
         /\ (l \in F!Hearing <=> l \in F!Hearing') => counted' >= counted
         /\ l \notin F!Hearing /\ l \in F!Hearing' => counted' >= counted + 1
         /\ l \in F!Hearing /\ l \notin F!Hearing' => counted' >= counted - 1
  PROVE  FilesInv'
  <1> USE DEF FilesInv
  <1>1. ASSUME NEW n \in Nodes PROVE node'[n].refcount = Cardinality(F!Readers(n)')
    <2>1. node[n].refcount = Cardinality(F!Readers(n))
      BY DEF ReadersCounted
    <2> QED  BY <2>1, ReadersMove
  <1>2. ReadersCounted'
    BY <1>1 DEF ReadersCounted
  <1>3. ASSUME NEW k \in Hearers \ {l} PROVE k \in F!Hearing' <=> k \in F!Hearing
    <2>1. CASE hearer[k].at = "file"
      <3>1. hearer[k].node \in Nodes /\ Reads(k, hearer[k].node)
        BY <2>1 DEF HearersPlaced, FilesTyped, Reads
      <3> QED  BY <3>1 DEF F!Hearing
    <2>2. CASE hearer[k].at # "file"
      BY <2>2 DEF F!Hearing
    <2> QED  BY <2>1, <2>2
  <1>4. counted >= Cardinality(F!Hearing)
    BY SameCardinality DEF F!NeverUndercounted
  <1>5. counted \in Int /\ counted' \in Int
    BY DEF FilesTyped
  <1>6. counted' >= Cardinality(F!Hearing')
    BY <1>3, <1>4, <1>5, HearingMoves
  <1>7. F!NeverUndercounted'
    BY <1>6, SameCardinality DEF F!NeverUndercounted
  <1> QED  BY <1>2, <1>7

(* move_to_file: l reads the node under name f, opened if it was not.      *)
SetUpBy(l, f, record, n) ==
  /\ hearer' = [hearer EXCEPT ![l] = [record EXCEPT !.at = "file", !.node = n]]
  /\ ~node[n].delete /\ ~node[n].override /\ (node[n].live => node[n].key = f)
  /\ node'[n] \in FhNode
  /\ node'[n].live /\ node'[n].open /\ ~node'[n].delete /\ ~node'[n].override
  /\ node'[n].fallback => f \in Fallbacks
  /\ node'[n].key = f /\ node'[n].refcount = node[n].refcount + 1
  /\ node' = [node EXCEPT ![n] = node'[n]]
  /\ cache' = [cache EXCEPT ![f] = n]
  /\ \A g \in Files : cache[g] = n => g = f
  /\ cache[f] = NoNode \/ cache[f] = n

LEMMA SetUpShape ==
  ASSUME FilesInv, NEW l \in Hearers, NEW f \in Files, NEW record, F!SetUp(l, f, record)
  PROVE  \E n \in Nodes : SetUpBy(l, f, record, n)
  <1> USE FilesAssumption DEF FilesInv, F!SetUp, SetUpBy
  <1>1. node \in [Nodes -> FhNode] /\ cache \in [Files -> Nodes \cup {NoNode}]
    BY DEF FilesTyped, FhNode
  <1>2. CASE cache[f] = NoNode
    <2>1. F!Spare \in Nodes /\ node[F!Spare] = F!NoFile /\ \A g \in Files : cache[g] # F!Spare
      BY <1>2, SpareIsFree
    <2>2. PICK n \in Nodes :
            /\ node[n] = F!NoFile /\ \A g \in Files : cache[g] # n
            /\ node' = [[node EXCEPT ![n] = F!Opened(f)] EXCEPT ![n].refcount = @ + 1]
            /\ cache' = [cache EXCEPT ![f] = n]
            /\ hearer' = [hearer EXCEPT ![l] = [record EXCEPT !.at = "file", !.node = n]]
      BY <1>2, <2>1
    <2>3. node'[n] = [F!Opened(f) EXCEPT !.refcount = @ + 1] /\ node' = [node EXCEPT ![n] = node'[n]]
      BY <1>1, <2>2
    <2>4. /\ node'[n] \in FhNode /\ node'[n].live /\ node'[n].open /\ node'[n].key = f
          /\ ~node'[n].delete /\ ~node'[n].override /\ node'[n].refcount = 1
          /\ node'[n].fallback => f \in Fallbacks
      <3>1. PICK o \in FhNode : o = F!Opened(f)
        BY OpenedFile
      <3>2. node'[n] = [o EXCEPT !.refcount = 1]
        BY <2>3, <3>1, OpenedFile
      <3>3. /\ o.live /\ o.open /\ o.key = f /\ ~o.delete /\ ~o.override
            /\ o.fallback => f \in Fallbacks
        BY <3>1, OpenedFile
      <3>4. /\ node'[n] \in FhNode /\ node'[n].refcount = 1
            /\ node'[n].live = o.live /\ node'[n].open = o.open /\ node'[n].key = o.key
            /\ node'[n].delete = o.delete /\ node'[n].override = o.override
            /\ node'[n].fallback = o.fallback
        <4> HIDE DEF F!SetUp, SetUpBy, FilesInv
        <4> QED  BY <3>1, <3>2, CountChanged
      <3> QED  BY <3>3, <3>4
    <2>5. ~node[n].live /\ ~node[n].delete /\ ~node[n].override /\ node[n].refcount = 0
      BY <2>2 DEF F!NoFile
    <2>6. node'[n].refcount = node[n].refcount + 1
      BY <2>4, <2>5
    <2>7. hearer' = [hearer EXCEPT ![l] = [record EXCEPT !.at = "file", !.node = n]]
      BY <2>2
    <2>8. \A g \in Files : cache[g] = n => g = f
      BY <2>2
    <2> WITNESS n \in Nodes
    <2> QED  BY <1>2, <2>2, <2>3, <2>4, <2>5, <2>6, <2>7, <2>8
  <1>3. CASE cache[f] # NoNode
    <2>1. PICK n \in Nodes : n = cache[f]
      BY <1>1, <1>3
    <2>2. /\ node' = [node EXCEPT ![n].refcount = @ + 1]
          /\ cache' = [cache EXCEPT ![f] = n]
          /\ hearer' = [hearer EXCEPT ![l] = [record EXCEPT !.at = "file", !.node = n]]
      BY <1>3, <2>1
    <2>3. node'[n] = [node[n] EXCEPT !.refcount = @ + 1] /\ node' = [node EXCEPT ![n] = node'[n]]
      BY <1>1, <2>2
    <2>4. node[n].live /\ node[n].open /\ node[n].key = f /\ ~node[n].delete /\ ~node[n].override
      BY <1>3, <2>1 DEF CacheRight, NodesRight
    <2>5. node[n].fallback => f \in Fallbacks
      BY <2>4 DEF NodesRight
    <2>6. /\ node'[n] \in FhNode /\ node'[n].live /\ node'[n].open /\ node'[n].key = f
          /\ ~node'[n].delete /\ ~node'[n].override /\ node'[n].refcount = node[n].refcount + 1
          /\ node'[n].fallback => f \in Fallbacks
      BY <1>1, <2>3, <2>4, <2>5 DEF FhNode
    <2>7. \A g \in Files : cache[g] = n => g = f
      BY <2>4 DEF CacheRight
    <2> WITNESS n \in Nodes
    <2> QED  BY <2>1, <2>2, <2>3, <2>4, <2>6, <2>7
  <1> QED  BY <1>2, <1>3

(* FallsBack, Requests and MovesToFile: from a stream to a fallback, from  *)
(* nowhere to a file, or from an overridden node to a file.                *)
LEMMA SetUpStep ==
  ASSUME FilesInv, NEW l \in Hearers, NEW f \in Files, NEW was \in Nodes \cup {NoNode},
         NEW record, record = [F!Away EXCEPT !.left = was], F!SetUp(l, f, record),
         hearer[l].left = NoNode,
         UNCHANGED <<counted, serving>>,
         \/ hearer[l].at \in {"stream", "away"} /\ was = NoNode
            /\ (f \in Fallbacks => hearer[l].at = "stream")
         \/ hearer[l].at = "file" /\ was = hearer[l].node /\ node[was].override /\ f \notin Fallbacks
  PROVE  FilesInv'
  <1>1. PICK n \in Nodes : SetUpBy(l, f, record, n)
    BY SetUpShape
  <1> USE FilesAssumption DEF FilesInv, SetUpBy
  <1>2. hearer'[l] = [at |-> "file", node |-> n, left |-> was]
        /\ \A k \in Hearers \ {l} : hearer'[k] = hearer[k]
    BY <1>1 DEF F!Away, FilesTyped
  <1>3. \A m \in Nodes \ {n} : node'[m] = node[m]
    BY <1>1 DEF FilesTyped
  <1>4. \A g \in Files : cache'[g] = IF g = f THEN n ELSE cache[g]
    BY <1>1 DEF FilesTyped
  <1>5. was # n
    BY <1>1
  <1>6. hearer[l].node = was
    BY DEF HearersPlaced, FilesTyped
  <1>7. FilesTyped'
    <2>1. node \in [Nodes -> FhNode]
      BY DEF FilesTyped, FhNode
    <2>2. node' \in [Nodes -> FhNode]
      BY <1>1, <2>1
    <2>3. hearer' \in [Hearers -> [at : {"away", "stream", "file"}, node : Nodes \cup {NoNode},
                                   left : Nodes \cup {NoNode}]]
      BY <1>1 DEF FilesTyped, F!Away
    <2> QED  BY <1>1, <2>2, <2>3 DEF FilesTyped, FhNode
  <1>8. HearersPlaced'
    BY <1>2, <1>5 DEF HearersPlaced
  <1>9. ASSUME NEW m \in Nodes \ {n}, \A g \in Files : cache'[g] # m
        PROVE  \A g \in Files : cache[g] # m
    BY <1>1, <1>4, <1>9
  <1>10. NodesRight'
    <2>1. cache'[f] = n
      BY <1>4
    <2> QED  BY <1>1, <1>3, <1>9, <2>1 DEF NodesRight
  <1>11. CacheRight'
    BY <1>1, <1>3, <1>4 DEF CacheRight, FilesTyped
  <1>12. \A m \in Nodes : (Reads(l, m) <=> m = was) /\ (Reads(l, m)' <=> m \in {n, was})
    BY <1>2, <1>6 DEF Reads
  <1>13. \A m \in Nodes :
           /\ (Reads(l, m) <=> Reads(l, m)') => node'[m].refcount = node[m].refcount
           /\ ~Reads(l, m) /\ Reads(l, m)' => node'[m].refcount = node[m].refcount + 1
           /\ Reads(l, m) /\ ~Reads(l, m)' => node'[m].refcount = node[m].refcount - 1
    BY <1>1, <1>3, <1>5, <1>12
  <1>14. \A m \in Nodes : node'[m].live /\ (\A g \in Files : cache'[g] # m) => node'[m].refcount > 0
    BY <1>3, <1>4, <1>9 DEF ReadersCounted
  <1>15. \A k \in Hearers \ {l}, m \in Nodes : Reads(k, m) => node'[m].key = node[m].key
    BY <1>1, <1>3, ReadIsCounted
  <1>16. l \in F!Hearing' <=> f \in Fallbacks
    BY <1>1, <1>2 DEF F!Hearing
  <1>17. f \in Fallbacks => l \in F!Hearing
    BY DEF F!Hearing
  <1>18. counted \in Int
    BY DEF FilesTyped
  <1>19. /\ (l \in F!Hearing <=> l \in F!Hearing') => counted' >= counted
         /\ l \notin F!Hearing /\ l \in F!Hearing' => counted' >= counted + 1
         /\ l \in F!Hearing /\ l \notin F!Hearing' => counted' >= counted - 1
    BY <1>16, <1>17, <1>18
  <1> QED  BY <1>2, <1>7, <1>8, <1>10, <1>11, <1>13, <1>14, <1>15, <1>19, FilesMoved

(* remove_from_fh: a node left by its last reader is freed if it is to be  *)
(* deleted, and else as it was.                                            *)
LEMMA UnusedShape ==
  ASSUME FilesInv, NEW n \in Nodes, node[n].refcount > 0, node' = F!Unused(n)
  PROVE  /\ node' \in [Nodes -> FhNode] /\ \A m \in Nodes \ {n} : node'[m] = node[m]
         /\ node'[n].refcount = node[n].refcount - 1
         /\ IF node[n].refcount = 1 /\ node[n].delete /\ ~node[n].fallback
            THEN node'[n] = F!NoFile
            ELSE /\ node'[n].live = node[n].live /\ node'[n].open = node[n].open
                 /\ node'[n].key = node[n].key /\ node'[n].delete = node[n].delete
                 /\ node'[n].override = node[n].override /\ node'[n].fallback = node[n].fallback
  <1>1. node \in [Nodes -> FhNode] /\ node[n] \in FhNode
    BY DEF FilesInv, FilesTyped, FhNode
  <1>2. PICK p \in FhNode : p = [node[n] EXCEPT !.refcount = node[n].refcount - 1]
    <2>1. node[n].refcount - 1 \in Nat
      BY <1>1 DEF FhNode
    <2>2. [node[n] EXCEPT !.refcount = node[n].refcount - 1] \in FhNode
      BY <1>1, <2>1 DEF FhNode
    <2> QED  BY <2>2
  <1>3. /\ p.refcount = node[n].refcount - 1
        /\ p.live = node[n].live /\ p.open = node[n].open /\ p.key = node[n].key
        /\ p.delete = node[n].delete /\ p.override = node[n].override
        /\ p.fallback = node[n].fallback
    BY <1>1, <1>2 DEF FhNode
  <1>4. node' = IF p.refcount > 0 THEN [node EXCEPT ![n] = p]
                ELSE IF p.delete /\ ~p.fallback THEN [node EXCEPT ![n] = F!NoFile]
                ELSE [node EXCEPT ![n] = [p EXCEPT !.expire = @ \/ ~p.fallback]]
    BY <1>2 DEF F!Unused
  <1>5. node[n].refcount \in Nat
    BY <1>1 DEF FhNode
  <1>6. CASE p.refcount > 0
    BY <1>1, <1>3, <1>4, <1>5, <1>6
  <1>7. CASE p.refcount = 0 /\ p.delete /\ ~p.fallback
    <2>1. F!NoFile \in FhNode /\ F!NoFile.refcount = 0
      BY DEF F!NoFile, FhNode
    <2>2. node' = [node EXCEPT ![n] = F!NoFile]
      BY <1>4, <1>7
    <2>3. node'[n] = F!NoFile /\ node' \in [Nodes -> FhNode] /\ \A m \in Nodes \ {n} : node'[m] = node[m]
      BY <1>1, <2>1, <2>2
    <2>4. node[n].refcount = 1 /\ node[n].delete /\ ~node[n].fallback
      BY <1>3, <1>5, <1>7
    <2>5. node'[n].refcount = node[n].refcount - 1
      BY <2>1, <2>3, <2>4
    <2> QED  BY <2>3, <2>4, <2>5
  <1>8. CASE p.refcount = 0 /\ ~(p.delete /\ ~p.fallback)
    <2>1. PICK q \in FhNode :
            /\ node' = [node EXCEPT ![n] = q] /\ q.refcount = 0
            /\ q.live = p.live /\ q.open = p.open /\ q.key = p.key /\ q.delete = p.delete
            /\ q.override = p.override /\ q.fallback = p.fallback
      <3> DEFINE q == [p EXCEPT !.expire = @ \/ ~p.fallback]
      <3>1. node' = [node EXCEPT ![n] = q]
        BY <1>4, <1>8
      <3>2. q \in FhNode
        BY DEF FhNode
      <3>3. /\ q.refcount = 0
            /\ q.live = p.live /\ q.open = p.open /\ q.key = p.key /\ q.delete = p.delete
            /\ q.override = p.override /\ q.fallback = p.fallback
        BY <1>8 DEF FhNode
      <3> QED  BY <3>1, <3>2, <3>3
    <2> QED  BY <1>1, <1>3, <1>5, <1>8, <2>1
  <1> QED  BY <1>3, <1>5, <1>6, <1>7, <1>8

(* Listener l, at h now, has let go of node n.                             *)
LEMMA LetGoStep ==
  ASSUME FilesInv, NEW l \in Hearers, NEW n \in Nodes, Reads(l, n), node' = F!Unused(n),
         \A k \in Hearers \ {l} : hearer'[k] = hearer[k], UNCHANGED <<cache, serving>>,
         hearer' \in [Hearers -> [at : {"away", "stream", "file"}, node : Nodes \cup {NoNode},
                                  left : Nodes \cup {NoNode}]],
         \A m \in Nodes : Reads(l, m)' <=> Reads(l, m) /\ m # n,
         HearersPlaced', counted' \in Int, counted' <= counted,
         /\ (l \in F!Hearing <=> l \in F!Hearing') => counted' >= counted
         /\ l \in F!Hearing /\ l \notin F!Hearing' => counted' >= counted - 1,
         l \in F!Hearing' => l \in F!Hearing
  PROVE  FilesInv'
  <1>1. node[n].refcount > 0 /\ node[n].live
    BY ReadIsCounted
  <1> DEFINE wiped == node[n].refcount = 1 /\ node[n].delete /\ ~node[n].fallback
  <1>2. /\ node' \in [Nodes -> FhNode] /\ \A m \in Nodes \ {n} : node'[m] = node[m]
        /\ node'[n].refcount = node[n].refcount - 1
        /\ wiped => node'[n] = F!NoFile
        /\ ~wiped => /\ node'[n].live = node[n].live /\ node'[n].open = node[n].open
                     /\ node'[n].key = node[n].key /\ node'[n].delete = node[n].delete
                     /\ node'[n].override = node[n].override /\ node'[n].fallback = node[n].fallback
    BY <1>1, UnusedShape
  <1> USE DEF FilesInv
  <1>3. node[n].refcount \in Nat /\ counted \in Int /\ MaxCounted \in Int
    BY FilesAssumption DEF FilesTyped
  <1>4. FilesTyped'
    BY <1>2, <1>3 DEF FilesTyped, FhNode
  <1>5. wiped => \A f \in Files : cache[f] # n
    BY FilesAssumption DEF CacheRight
  <1>6. ~node'[n].live => wiped
    BY <1>1, <1>2
  <1>7. NodesRight'
    <2>1. CASE wiped
      <3>1. ~node'[n].live /\ ~node'[n].override /\ ~node'[n].fallback
        BY <1>2, <2>1 DEF F!NoFile
      <3> QED  BY <1>2, <2>1, <3>1 DEF NodesRight
    <2>2. CASE ~wiped
      <3> HIDE DEF wiped
      <3> QED  BY <1>1, <1>2, <2>2 DEF NodesRight
    <2> QED  BY <2>1, <2>2
  <1>8. CacheRight'
    <2>1. CASE wiped
      BY <1>2, <1>5, <2>1 DEF CacheRight, FilesTyped
    <2>2. CASE ~wiped
      <3> HIDE DEF wiped
      <3> QED  BY <1>2, <2>2 DEF CacheRight, FilesTyped
    <2> QED  BY <2>1, <2>2
  <1>9. \A m \in Nodes :
           /\ (Reads(l, m) <=> Reads(l, m)') => node'[m].refcount = node[m].refcount
           /\ ~Reads(l, m) /\ Reads(l, m)' => node'[m].refcount = node[m].refcount + 1
           /\ Reads(l, m) /\ ~Reads(l, m)' => node'[m].refcount = node[m].refcount - 1
    BY <1>2
  <1>10. \A m \in Nodes : node'[m].live /\ (\A f \in Files : cache'[f] # m) => node'[m].refcount > 0
    <2>1. ASSUME node'[n].live, \A f \in Files : cache'[f] # n PROVE node'[n].refcount > 0
      <3>1. ~wiped
        BY <1>2, <2>1 DEF F!NoFile
      <3>2. node[n].delete /\ ~node[n].fallback
        BY <1>1, <2>1 DEF NodesRight
      <3> QED  BY <1>1, <1>2, <1>3, <3>1, <3>2
    <2> QED  BY <1>2, <2>1 DEF ReadersCounted
  <1>11. \A k \in Hearers \ {l}, m \in Nodes : Reads(k, m) => node'[m].key = node[m].key
    <2>1. ASSUME NEW k \in Hearers \ {l}, Reads(k, n) PROVE ~wiped
      BY <2>1, ReadIsCounted
    <2> HIDE DEF wiped
    <2> QED  BY <1>2, <2>1
  <1> QED  BY <1>3, <1>4, <1>7, <1>8, <1>9, <1>10, <1>11, FilesMoved

LEMMA GivesUpOldStep ==
  ASSUME FilesInv, NEW l \in Hearers, F!GivesUpOld(l)
  PROVE  FilesInv'
  <1>1. PICK n \in Nodes : n = hearer[l].left /\ n # hearer[l].node
    BY DEF F!GivesUpOld, FilesInv, FilesTyped, HearersPlaced
  <1>2. /\ node' = F!Unused(n) /\ UNCHANGED <<cache, counted, serving>>
        /\ \A k \in Hearers \ {l} : hearer'[k] = hearer[k]
        /\ hearer'[l].at = hearer[l].at /\ hearer'[l].node = hearer[l].node /\ hearer'[l].left = NoNode
        /\ hearer' \in [Hearers -> [at : {"away", "stream", "file"}, node : Nodes \cup {NoNode},
                                    left : Nodes \cup {NoNode}]]
    BY <1>1 DEF F!GivesUpOld, FilesInv, FilesTyped
  <1>3. Reads(l, n) /\ node[n].refcount > 0
    BY <1>1, ReadIsCounted DEF Reads
  <1>4. \A m \in Nodes : Reads(l, m)' <=> Reads(l, m) /\ m # n
    BY <1>1, <1>2, FilesAssumption DEF Reads
  <1>5. HearersPlaced'
    BY <1>2 DEF HearersPlaced, FilesInv
  <1>6. l \in F!Hearing <=> l \in F!Hearing'
    <2>1. CASE hearer[l].at = "file"
      <3>1. hearer[l].node \in Nodes \ {n}
        BY <1>1, <2>1 DEF HearersPlaced, FilesInv, FilesTyped
      <3>2. node'[hearer[l].node] = node[hearer[l].node]
        BY <1>2, <1>3, <3>1, UnusedShape
      <3> QED  BY <1>2, <3>2 DEF F!Hearing
    <2>2. CASE hearer[l].at # "file"
      BY <1>2, <2>2 DEF F!Hearing
    <2> QED  BY <2>1, <2>2
  <1>7. counted \in Int
    BY DEF FilesInv, FilesTyped
  <1> QED  BY <1>2, <1>3, <1>4, <1>5, <1>6, <1>7, LetGoStep

LEMMA ReleasedStep ==
  ASSUME FilesInv, NEW l \in Hearers, F!Released(l)
  PROVE  FilesInv'
  <1>1. PICK n \in Nodes : n = hearer[l].node
    BY DEF F!Released, FilesInv, FilesTyped, HearersPlaced
  <1>2. /\ node' = F!Unused(n) /\ UNCHANGED <<cache, serving>>
        /\ \A k \in Hearers \ {l} : hearer'[k] = hearer[k]
        /\ hearer'[l].at = "away" /\ hearer'[l].node = NoNode /\ hearer'[l].left = NoNode
        /\ hearer' \in [Hearers -> [at : {"away", "stream", "file"}, node : Nodes \cup {NoNode},
                                    left : Nodes \cup {NoNode}]]
    BY <1>1 DEF F!Released, F!Away, FilesInv, FilesTyped
  <1>3. Reads(l, n)
    BY <1>1 DEF Reads
  <1>4. \A m \in Nodes : Reads(l, m)' <=> Reads(l, m) /\ m # n
    BY <1>1, <1>2, FilesAssumption DEF Reads, F!Released
  <1>5. HearersPlaced'
    BY <1>2 DEF HearersPlaced, FilesInv
  <1>6. counted \in Int /\ counted' = IF node[n].fallback THEN counted - 1 ELSE counted
    BY <1>1 DEF FilesInv, FilesTyped, F!Released
  <1>7. node[n].fallback => l \in F!Hearing
    BY <1>1 DEF FilesInv, NodesRight, F!Hearing, F!Released
  <1>8. l \notin F!Hearing'
    BY <1>2 DEF F!Hearing
  <1>9. /\ counted' \in Int /\ counted' <= counted
        /\ (l \in F!Hearing <=> l \in F!Hearing') => counted' >= counted
        /\ l \in F!Hearing /\ l \notin F!Hearing' => counted' >= counted - 1
    BY <1>6, <1>7, <1>8
  <1> QED  BY <1>2, <1>3, <1>4, <1>5, <1>8, <1>9, LetGoStep

(* Steps of a listener that leave the nodes alone.                         *)
LEMMA TuningStep ==
  ASSUME FilesInv, NEW l \in Hearers, F!Tunes(l) \/ F!TunesOut(l) \/ F!MovesToStream(l)
  PROVE  FilesInv'
  <1> USE FilesAssumption DEF FilesInv
  <1>1. /\ UNCHANGED <<node, cache, serving>> /\ \A k \in Hearers \ {l} : hearer'[k] = hearer[k]
        /\ hearer' \in [Hearers -> [at : {"away", "stream", "file"}, node : Nodes \cup {NoNode},
                                    left : Nodes \cup {NoNode}]]
    BY DEF F!Tunes, F!TunesOut, F!MovesToStream, FilesTyped
  <1>2. NodesRight' /\ CacheRight'
    BY <1>1 DEF NodesRight, CacheRight
  <1>3. /\ hearer'[l].at # "file" /\ hearer'[l].node = NoNode
        /\ \/ hearer'[l].left = hearer[l].left /\ hearer[l].node = NoNode
           \/ hearer'[l].left = hearer[l].node /\ hearer[l].left = NoNode
    <2>1. CASE F!Tunes(l)
      BY <2>1 DEF F!Tunes, FilesTyped, HearersPlaced
    <2>2. CASE F!TunesOut(l)
      BY <2>2 DEF F!TunesOut, FilesTyped, HearersPlaced
    <2>3. CASE F!MovesToStream(l)
      BY <2>3 DEF F!MovesToStream, FilesTyped, HearersPlaced
    <2> QED  BY <2>1, <2>2, <2>3
  <1>4. HearersPlaced'
    <2>1. hearer'[l].at = "away" => hearer'[l].left = NoNode
      BY DEF F!Tunes, F!TunesOut, F!MovesToStream, FilesTyped, HearersPlaced
    <2> QED  BY <1>1, <1>3, <2>1 DEF HearersPlaced
  <1>5. \A n \in Nodes : Reads(l, n)' <=> Reads(l, n)
    BY <1>3 DEF Reads
  <1>6. \A n \in Nodes : node'[n].live /\ (\A f \in Files : cache'[f] # n) => node'[n].refcount > 0
    BY <1>1 DEF ReadersCounted
  <1>7. counted \in Int /\ MaxCounted \in Int
    BY DEF FilesTyped
  <1>8. CASE F!Tunes(l)
    <2>1. l \notin F!Hearing /\ l \in F!Hearing' /\ counted' = counted + 1 /\ counted < MaxCounted
      BY <1>1, <1>8 DEF F!Tunes, F!Hearing, FilesTyped
    <2>2. FilesTyped'
      BY <1>1, <1>7, <2>1 DEF FilesTyped
    <2> QED  BY <1>1, <1>2, <1>4, <1>5, <1>6, <1>7, <2>1, <2>2, FilesMoved
  <1>9. CASE F!TunesOut(l)
    <2>1. l \in F!Hearing /\ l \notin F!Hearing' /\ counted' = counted - 1
      BY <1>1, <1>9 DEF F!TunesOut, F!Hearing, FilesTyped
    <2>2. FilesTyped'
      BY <1>1, <1>7, <2>1 DEF FilesTyped
    <2> QED  BY <1>1, <1>2, <1>4, <1>5, <1>6, <1>7, <2>1, <2>2, FilesMoved
  <1>10. CASE F!MovesToStream(l)
    <2>1. l \in F!Hearing /\ l \in F!Hearing' /\ counted' = counted
      BY <1>1, <1>10 DEF F!MovesToStream, F!Hearing, FilesTyped, NodesRight, HearersPlaced
    <2>2. FilesTyped'
      BY <1>1, <2>1 DEF FilesTyped
    <2> QED  BY <1>1, <1>2, <1>4, <1>5, <1>6, <1>7, <2>1, <2>2, FilesMoved
  <1> QED  BY <1>8, <1>9, <1>10

LEMMA FilesStep == FilesInv /\ Patient /\ [F!Next]_files => FilesInv'
  <1> SUFFICES ASSUME FilesInv, Patient, [F!Next]_files PROVE FilesInv'
    OBVIOUS
  <1>1. CASE UNCHANGED files
    <2>1. FilesTyped' /\ NodesRight' /\ CacheRight' /\ UNCHANGED <<node, cache, hearer, counted>>
      BY <1>1 DEF files, FilesInv, FilesTyped, NodesRight, CacheRight
    <2> QED  BY <2>1, FilesQuiet DEF FilesInv, ReadersCounted
  <1>2. ASSUME NEW f \in Files, F!QueryCount(f) PROVE FilesInv'
    BY <1>2, QueryCountStep
  <1>3. ASSUME NEW f \in Files, F!RequestFails(f) PROVE FilesInv'
    BY <1>3, RequestFailsStep
  <1>4. ASSUME NEW f \in Files, F!SetOverride(f) PROVE FilesInv'
    BY <1>4, SetOverrideStep
  <1>5. ASSUME NEW f \in Files, F!Scan(f) \/ F!ShutDownFrees(f) PROVE FilesInv'
    BY <1>5, ClosedStep DEF F!Scan, F!ShutDownFrees
  <1>6. ASSUME NEW l \in Hearers, F!Tunes(l) \/ F!TunesOut(l) \/ F!MovesToStream(l) PROVE FilesInv'
    BY <1>6, TuningStep
  <1>7. ASSUME NEW l \in Hearers, F!GivesUpOld(l) PROVE FilesInv'
    BY <1>7, GivesUpOldStep
  <1>8. ASSUME NEW l \in Hearers, F!Released(l) PROVE FilesInv'
    BY <1>8, ReleasedStep
  <1>9. ASSUME NEW l \in Hearers, NEW f \in Files, F!FallsBack(l, f) \/ F!Requests(l, f)
        PROVE  FilesInv'
    <2>1. PICK record : record = F!Away
      OBVIOUS
    <2>2. record = [F!Away EXCEPT !.left = NoNode]
      BY <2>1 DEF F!Away
    <2>3. /\ F!SetUp(l, f, record) /\ UNCHANGED <<counted, serving>>
          /\ hearer[l].at \in {"stream", "away"} /\ (f \in Fallbacks => hearer[l].at = "stream")
      BY <1>9, <2>1 DEF F!FallsBack, F!Requests
    <2>4. hearer[l].left = NoNode
      BY <1>9 DEF F!FallsBack, F!Requests, FilesInv, HearersPlaced
    <2> QED  BY <2>2, <2>3, <2>4, SetUpStep
  <1>10. ASSUME NEW l \in Hearers, NEW f \in Files, F!MovesToFile(l, f) PROVE FilesInv'
    <2>1. hearer[l].node \in Nodes
      BY <1>10 DEF F!MovesToFile, FilesInv, FilesTyped, HearersPlaced
    <2> QED  BY <1>10, <2>1, SetUpStep DEF F!MovesToFile
  <1>11. CASE F!ShutDown
    <2>1. FilesTyped' /\ NodesRight' /\ CacheRight'
      BY <1>11 DEF F!ShutDown, FilesInv, FilesTyped, NodesRight, CacheRight
    <2> QED  BY <1>11, <2>1, FilesQuiet DEF F!ShutDown, FilesInv, ReadersCounted
  <1>12. CASE F!ShutDownEnds
    BY <1>12, ShutDownEndsStep
  <1> QED
    BY <1>1, <1>2, <1>3, <1>4, <1>5, <1>6, <1>7, <1>8, <1>9, <1>10, <1>11, <1>12 DEF F!Next

(* fserve.c file_release, remove_from_fh, fserve_setup_client_fb: provided *)
(* the workers let go of every client before the server gives up waiting   *)
(* for them, for any files, nodes and listeners a node is freed only when  *)
(* nobody reads it, and global.listeners is never below those there are.   *)
THEOREM FilesKept == ASSUME Patient PROVE ServicesSpec => []FilesSound
  <1>1. ServicesInit => FilesInv
    BY FilesInit DEF ServicesInit
  <1>2. FilesInv /\ [ServicesNext]_<<relays, files, stats, config, doors, vars, part>> => FilesInv'
    <2>1. [ServicesNext]_<<relays, files, stats, config, doors, vars, part>> => [F!Next]_files
      BY DEF ServicesNext
    <2> QED  BY <2>1, FilesStep
  <1>3. FilesInv => FilesSound
    <2> SUFFICES ASSUME FilesInv PROVE F!TypeOK /\ F!FilesSound /\ F!NeverUndercounted
      BY DEF FilesSound
    <2> USE DEF FilesInv
    <2>1. ASSUME NEW n \in Nodes PROVE node[n].refcount \in 0 .. F!Cardinality(Hearers)
      <3>1. node[n].refcount = Cardinality(F!Readers(n))
        BY DEF ReadersCounted
      <3> QED  BY <3>1, ReadersFinite, SameCardinality
    <2>2. counted \in 0 .. MaxCounted
      <3>1. counted >= Cardinality(F!Hearing) /\ Cardinality(F!Hearing) \in Nat
        <4>1. F!Hearing \subseteq Hearers
          BY DEF F!Hearing
        <4> QED  BY <4>1, SameCardinality, FilesAssumption, FS_Subset, FS_CardinalityType
                 DEF F!NeverUndercounted
      <3> QED  BY <3>1, FilesAssumption DEF FilesTyped
    <2>3. node \in [Nodes -> [live : BOOLEAN, key : Files \cup {NoNode},
                              refcount : 0 .. F!Cardinality(Hearers), fallback : BOOLEAN,
                              delete : BOOLEAN, override : BOOLEAN, open : BOOLEAN, expire : BOOLEAN]]
      BY <2>1 DEF FilesTyped
    <2>4. F!TypeOK
      BY <2>2, <2>3 DEF FilesTyped, F!TypeOK
    <2>5. F!FilesSound
      BY SameCardinality DEF F!FilesSound, ReadersCounted, CacheRight
    <2> QED  BY <2>4, <2>5
  <1> QED  BY <1>1, <1>2, <1>3, PTL DEF ServicesSpec

-------------------------------------------------------------------------------
(* The statistics: StatsProofs holds the proofs about Stats, and the part  *)
(* takes the same steps.                                                   *)
P == INSTANCE StatsProofs

LEMMA SameStats ==
  /\ S!Init => P!Init
  /\ [S!Next]_stats => [P!Next]_P!statsVars
  /\ P!TypeOK /\ P!HandlesLive /\ P!FeedAddsUp => S!TypeOK /\ S!HandlesLive /\ S!FeedAddsUp
  <1>1. S!Init => P!Init
    BY DEF S!Init, P!Init, S!NoStats, P!NoStats, S!OffWatch, P!OffWatch,
           S!Actors, P!Actors
  <1>2. S!Next => P!Next
    BY DEF S!Next, P!Next, S!OwnerStep, P!OwnerStep, S!WatcherStep,
           P!WatcherStep, S!Starts, P!Starts, S!TakesHandle,
           P!TakesHandle, S!Locks, P!Locks, S!Releases, P!Releases,
           S!SetStat, P!SetStat, S!Hides, P!Hides, S!Flush, P!Flush,
           S!GivesUpLock, P!GivesUpLock, S!LeavesTree, P!LeavesTree,
           S!FreesStats, P!FreesStats, S!DropsStatic, P!DropsStatic,
           S!Handle, P!Handle, S!InTree, P!InTree, S!Copying,
           P!Copying, S!Told, P!Told, S!After, P!After, S!Line,
           P!Line, S!Send, P!Send, S!YpHandle, P!YpHandle,
           S!YpReads, P!YpReads, S!Event, P!Event, S!Refresh,
           P!Refresh, S!Purge, P!Purge, S!StaticInit, P!StaticInit,
           S!GlobalChanges, P!GlobalChanges, S!GlobalCalc,
           P!GlobalCalc, S!Registers, P!Registers, S!CopiesNames,
           P!CopiesNames, S!CopiesStats, P!CopiesStats,
           S!JoinsQueue, P!JoinsQueue, S!TooLong, P!TooLong,
           S!WatchEnds, P!WatchEnds, S!NoStats, P!NoStats,
           S!OffWatch, P!OffWatch, S!Actors, P!Actors
  <1>3. P!TypeOK /\ P!HandlesLive /\ P!FeedAddsUp => S!TypeOK /\ S!HandlesLive /\ S!FeedAddsUp
    BY DEF S!TypeOK, P!TypeOK, S!HandlesLive, P!HandlesLive, S!FeedAddsUp,
           P!FeedAddsUp, S!InTree, P!InTree, S!Actors, P!Actors,
           S!Shown, P!Shown, S!Cardinality, P!Cardinality
  <1> QED  BY <1>1, <1>2, <1>3 DEF stats, P!statsVars

(* stats.c stats_handle, _register_listener, stats_purge: provided no      *)
(* handler of an authenticator registers a watcher that has no worker yet, *)
(* for any mounts, entries and watchers a handle outlives who uses it and  *)
(* what a watcher was sent adds up to what the tree holds.                 *)
THEOREM StatsKept == ASSUME ~OffWorker PROVE ServicesSpec => []StatsSound
  <1>1. ServicesInit => P!StatsInv
    BY SameStats, StatsAssumption, P!StatsInit DEF ServicesInit, P!Apart
  <1>2. P!StatsInv /\ [ServicesNext]_<<relays, files, stats, config, doors, vars, part>> => P!StatsInv'
    <2>1. [ServicesNext]_<<relays, files, stats, config, doors, vars, part>> => [S!Next]_stats
      BY DEF ServicesNext
    <2> QED  BY <2>1, SameStats, P!StatsStep
  <1>3. P!StatsInv => StatsSound
    BY SameStats, P!StatsRight DEF StatsSound
  <1> QED  BY <1>1, <1>2, <1>3, PTL DEF ServicesSpec

-------------------------------------------------------------------------------
(* Listeners let in.  The proof is in ListeningProofs, for any settings    *)
(* that are Fit; those of this part are.                                   *)
Q == INSTANCE ListeningProofs WITH Mounts <- Streams, Setups <- Rules, setup <- rules,
                                   refs <- inuse, Listeners <- Guests

(* What the proof needs of the settings x of a mountpoint and of y, those  *)
(* of another, of which no more than the first passes listeners on.        *)
Plain(y) ==
  /\ y.max = -1 /\ ~y.overflow /\ y.fallback \in {"a", "b", None} /\ y.rejected \in {"b", None}
Pair(x, y) ==
  /\ Plain(y)
  /\ x.max \in {1, -1} /\ x.fallback \in {"a", "b", None} /\ x.rejected \in {"b", None}

LEMMA RulesShape ==
  ASSUME NEW s \in Rules
  PROVE  \/ \E x, y : Pair(x, y) /\ s.block = [m \in Streams |-> m]
                     /\ s.of = [m \in Streams |-> IF m = "a" THEN x ELSE y]
         \/ \E y : Plain(y) /\ s.block = [m \in Streams |-> IF m = "a" THEN None ELSE "b"]
                  /\ s.of = [m \in {"b"} |-> y]
  <1> DEFINE X == {[a |-> [Open EXCEPT !.max = 1, !.overflow = TRUE, !.fallback = "b"],
                    b |-> [Open EXCEPT !.fallback = "a"]],
                   [a |-> [Open EXCEPT !.max = 1, !.overflow = TRUE, !.fallback = "b"], b |-> Open],
                   [a |-> [Open EXCEPT !.max = 1, !.auth = "deny", !.rejected = "b", !.fallback = "b"],
                    b |-> [Open EXCEPT !.rate = TRUE, !.auth = "drop"]]}
  <1>1. \A x \in X : Pair(x.a, x.b)
    <2>1. Plain([Open EXCEPT !.fallback = "a"]) /\ Plain(Open)
          /\ Plain([Open EXCEPT !.rate = TRUE, !.auth = "drop"])
      BY DEF Plain, Open
    <2>2. \A y : Plain(y) => Pair([Open EXCEPT !.max = 1, !.overflow = TRUE, !.fallback = "b"], y)
      BY DEF Pair, Open
    <2>3. \A y : Plain(y) => Pair([Open EXCEPT !.max = 1, !.auth = "deny", !.rejected = "b",
                                               !.fallback = "b"], y)
      BY DEF Pair, Open
    <2> QED  BY <2>1, <2>2, <2>3
  <1>2. Plain([Open EXCEPT !.fallback = "a"])
    BY DEF Plain, Open
  <1>3. \/ \E x \in X : s = [block |-> [m \in Streams |-> m],
                            of |-> [m \in Streams |-> IF m = "a" THEN x.a ELSE x.b]]
        \/ s = [block |-> [m \in Streams |-> IF m = "a" THEN None ELSE "b"],
                of |-> [m \in {"b"} |-> [Open EXCEPT !.fallback = "a"]]]
    BY DEF Rules
  <1> HIDE DEF X
  <1>4. ASSUME NEW x \in X, s = [block |-> [m \in Streams |-> m],
                                of |-> [m \in Streams |-> IF m = "a" THEN x.a ELSE x.b]]
        PROVE  \E y, z : Pair(y, z) /\ s.block = [m \in Streams |-> m]
                        /\ s.of = [m \in Streams |-> IF m = "a" THEN y ELSE z]
    BY <1>1, <1>4
  <1>5. ASSUME s = [block |-> [m \in Streams |-> IF m = "a" THEN None ELSE "b"],
                    of |-> [m \in {"b"} |-> [Open EXCEPT !.fallback = "a"]]]
        PROVE  \E y : Plain(y) /\ s.block = [m \in Streams |-> IF m = "a" THEN None ELSE "b"]
                     /\ s.of = [m \in {"b"} |-> y]
    BY <1>2, <1>5
  <1> QED  BY <1>3, <1>4, <1>5

LEMMA RulesFit == Q!Fit
  <1>1. Q!IsFiniteSet(Guests)
    BY DoorsAssumption DEF Q!IsFiniteSet, IsFiniteSet
  <1>2. ASSUME NEW s \in Rules, NEW x, NEW y, Pair(x, y), s.block = [m \in Streams |-> m],
               s.of = [m \in Streams |-> IF m = "a" THEN x ELSE y]
        PROVE  /\ None \notin DOMAIN s.of
               /\ \A m \in Streams : s.block[m] \in DOMAIN s.of \cup {None}
               /\ \A b \in DOMAIN s.of :
                    s.of[b].max \in Nat \cup {-1} /\ s.of[b].fallback \in Streams \cup {None}
                    /\ s.of[b].rejected \in Streams \cup {None}
               /\ \A b, c \in DOMAIN s.of : s.of[b].max # -1 /\ s.of[c].overflow => b = c
    BY <1>2, DoorsAssumption DEF Pair, Plain
  <1>3. ASSUME NEW s \in Rules, NEW y, Plain(y), s.of = [m \in {"b"} |-> y],
               s.block = [m \in Streams |-> IF m = "a" THEN None ELSE "b"]
        PROVE  /\ None \notin DOMAIN s.of
               /\ \A m \in Streams : s.block[m] \in DOMAIN s.of \cup {None}
               /\ \A b \in DOMAIN s.of :
                    s.of[b].max \in Nat \cup {-1} /\ s.of[b].fallback \in Streams \cup {None}
                    /\ s.of[b].rejected \in Streams \cup {None}
               /\ \A b, c \in DOMAIN s.of : s.of[b].max # -1 /\ s.of[c].overflow => b = c
    BY <1>3, DoorsAssumption DEF Plain
  <1>4. Q!SetupsFit /\ Q!PassesOnFirst
    BY <1>2, <1>3, RulesShape DEF Q!SetupsFit, Q!PassesOnFirst
  <1> QED  BY <1>1, <1>4, DoorsAssumption DEF Q!Fit

LEMMA SameListening ==
  /\ L!Init => Q!Init
  /\ [L!Next]_doors => [Q!Next]_Q!admVars
  /\ Q!ListeningSound => L!ListeningSound
  <1>1. L!Init => Q!Init
    BY DEF L!Init, Q!Init, L!Blocks, Q!Blocks, L!NewListener, Q!NewListener
  <1>2. L!Next => Q!Next
    BY DEF L!Next, Q!Next, L!Ask, Q!Ask, L!Authenticated, Q!Authenticated, L!TooManyLooks,
           Q!TooManyLooks, L!NoStream, Q!NoStream, L!Stream, Q!Stream, L!Leave, Q!Leave,
           L!Gone, Q!Gone, L!Move, Q!Move, L!SourceChanges, Q!SourceChanges,
           L!Blocks, Q!Blocks, L!SettingsOf, Q!SettingsOf, L!Of, Q!Of,
           L!NewListener, Q!NewListener, L!On, Q!On, L!Released, Q!Released,
           L!Extra, Q!Extra, L!Ended, Q!Ended, L!Listens, Q!Listens, L!Add, Q!Add,
           L!Counted, Q!Counted, L!Ends, Q!Ends, L!Full, Q!Full, L!TryFile, Q!TryFile,
           L!GoOn, Q!GoOn, L!SameUser, Q!SameUser, L!Checks, Q!Checks,
           L!Duplicate, Q!Duplicate, L!First, Q!First, L!Within, Q!Within,
           L!Place, Q!Place, L!TryFallback, Q!TryFallback, L!Cardinality, Q!Cardinality
  <1>3. Q!ListeningSound => L!ListeningSound
    BY DEF L!ListeningSound, Q!ListeningSound, L!SettingsHeld, Q!SettingsHeld,
           L!ListenersCounted, Q!ListenersCounted, L!MountRules, Q!MountRules,
           L!Straight, Q!Straight, L!On, Q!On, L!Blocks, Q!Blocks, L!Extra, Q!Extra,
           L!SettingsOf, Q!SettingsOf, L!Of, Q!Of, L!Cardinality, Q!Cardinality
  <1> QED  BY <1>1, <1>2, <1>3 DEF doors, Q!admVars

(* source.c source_add_listener, auth.c auth_add_listener: for any number  *)
(* of listeners, mountpoints and logins the settings looked at are         *)
(* counted, the listeners are, and no limit or login is passed.            *)
THEOREM ListeningKept == ServicesSpec => []ListeningSound
  <1>1. ServicesInit => Q!LInv
    BY SameListening, RulesFit, Q!LInvInit DEF ServicesInit
  <1>2. Q!LInv /\ [ServicesNext]_<<relays, files, stats, config, doors, vars, part>> => Q!LInv'
    <2>1. [ServicesNext]_<<relays, files, stats, config, doors, vars, part>> => [L!Next]_doors
      BY DEF ServicesNext
    <2> QED  BY <2>1, SameListening, Q!LInvStep
  <1>3. Q!LInv => ListeningSound
    BY SameListening DEF ListeningSound, Q!LInv
  <1> QED  BY <1>1, <1>2, <1>3, PTL DEF ServicesSpec

-------------------------------------------------------------------------------
(* The relays.  The proof is in RelayProofs.                               *)
K == INSTANCE RelayProofs

LEMMA SameRelays ==
  /\ R!Init => K!Init
  /\ [R!Next]_relays => [K!Next]_K!relayVars
  /\ K!TypeOK /\ K!PointersLive /\ K!OneDriver /\ K!SlotsRight /\ K!SourcesRight
     => R!TypeOK /\ R!PointersLive /\ R!OneDriver /\ R!SlotsRight /\ R!SourcesRight
  <1>1. R!Init => K!Init
    BY DEF R!Init, K!Init, R!NoRelay, K!NoRelay, R!NoClient, K!NoClient, R!NoSource, K!NoSource
  <1>2. R!Next => K!Next
    BY DEF R!NoRelay, K!NoRelay, R!NoClient, K!NoClient, R!NoSource, K!NoSource,
           R!FreeRelays, K!FreeRelays, R!FreeClients, K!FreeClients,
           R!FreeSources, K!FreeSources, R!NoneWaits, K!NoneWaits, R!Settled, K!Settled,
           R!Outdated, K!Outdated, R!Detached, K!Detached, R!Install, K!Install,
           R!MayChange, K!MayChange, R!Fresh, K!Fresh, R!ReloadListed, K!ReloadListed,
           R!ReloadDropped, K!ReloadDropped, R!MasterLists, K!MasterLists,
           R!MasterDrops, K!MasterDrops, R!Halt, K!Halt, R!RaiseBarriers, K!RaiseBarriers,
           R!Turn, K!Turn, R!Release, K!Release, R!Switchover, K!Switchover,
           R!GivesUp, K!GivesUp, R!Initialise, K!Initialise, R!Startup, K!Startup,
           R!StandsBy, K!StandsBy, R!ThreadStarts, K!ThreadStarts,
           R!ThreadEnds, K!ThreadEnds, R!Streaming, K!Streaming, R!ReadOn, K!ReadOn,
           R!CheckHosts, K!CheckHosts, R!Closing, K!Closing, R!Shut, K!Shut,
           R!StillDraining, K!StillDraining, R!Drain, K!Drain, R!DrainAgain, K!DrainAgain,
           R!CountedOff, K!CountedOff, R!Quiet, K!Quiet, R!StandBy, K!StandBy,
           R!CallAgain, K!CallAgain, R!CloseDown, K!CloseDown, R!Leaves, K!Leaves,
           R!SwitchedOver, K!SwitchedOver, R!SwitchFails, K!SwitchFails,
           R!SwitchConnects, K!SwitchConnects, R!WaitEnds, K!WaitEnds,
           R!StreamEnds, K!StreamEnds, R!HeardChange, K!HeardChange, R!Join, K!Join,
           R!Part, K!Part, R!LookedAt, K!LookedAt, R!ClientTurn, K!ClientTurn,
           R!ThreadStep, K!ThreadStep, R!Next, K!Next
  <1>3. /\ K!TypeOK => R!TypeOK
        /\ K!PointersLive => R!PointersLive
        /\ K!OneDriver => R!OneDriver
    BY DEF R!TypeOK, K!TypeOK, R!PointersLive, K!PointersLive, R!OneDriver, K!OneDriver
  <1>4. /\ K!SlotsRight => R!SlotsRight
        /\ K!SourcesRight => R!SourcesRight
    BY DEF R!SlotsRight, K!SlotsRight, R!SourcesRight, K!SourcesRight,
           R!Cardinality, K!Cardinality
  <1> QED  BY <1>1, <1>2, <1>3, <1>4 DEF relays, K!relayVars

(* slave.c relay_release, relay_switch, start_relay_stream: for any number *)
(* of relays, clients and sources and any limits nothing freed is used, a  *)
(* relay is driven by one client, and relays_connecting and global.sources *)
(* are exact, if changes come one after another.                           *)
THEOREM RelaysKept == ASSUME ~Races PROVE ServicesSpec => []RelaysSound
  <1>0. K!RelaysFit
    BY RelaysAssumption DEF K!RelaysFit
  <1>1. ServicesInit => K!RInv
    BY <1>0, SameRelays, K!RInvInit DEF ServicesInit
  <1>2. K!RInv /\ [ServicesNext]_<<relays, files, stats, config, doors, vars, part>> => K!RInv'
    <2>1. [ServicesNext]_<<relays, files, stats, config, doors, vars, part>> => [R!Next]_relays
      BY DEF ServicesNext
    <2> QED  BY <2>1, SameRelays, K!RInvStep
  <1>3. K!RInv => RelaysSound
    <2> SUFFICES ASSUME K!RInv PROVE RelaysSound
      OBVIOUS
    <2>1. K!TypeOK /\ K!OneDriver
      BY DEF K!RInv, K!Pointing
    <2>2. K!PointersLive /\ K!SlotsRight /\ K!SourcesRight
      BY K!NothingFreed, K!CountsRight
    <2> QED  BY <2>1, <2>2, SameRelays DEF RelaysSound
  <1> QED  BY <1>1, <1>2, <1>3, PTL DEF ServicesSpec
===============================================================================
