---------------------------- MODULE ListeningProofs ----------------------------
(***************************************************************************)
(* For any mountpoints, listeners and settings: the settings a listener    *)
(* looks at are counted, the listeners of each source and of the server    *)
(* are, and nobody gets past a limit or a login that is taken.             *)
(***************************************************************************)
EXTENDS Listening, FiniteSetTheorems, TLAPS

(* Settings name mountpoints of the configuration.                         *)
SetupsFit ==
  \A s \in Setups :
    /\ None \notin DOMAIN s.of
    /\ \A m \in Mounts : s.block[m] \in DOMAIN s.of \cup {None}
    /\ \A b \in DOMAIN s.of :
         s.of[b].max \in Nat \cup {-1} /\ s.of[b].fallback \in Mounts \cup {None}
         /\ s.of[b].rejected \in Mounts \cup {None}

(* A mountpoint that passes listeners on when it is full is the fallback   *)
(* of none, unless only its own listeners are limited.  Otherwise the      *)
(* settings found on the way are given back twice (source.c:3018).         *)
PassesOnFirst ==
  \A s \in Setups : \A b, c, d \in DOMAIN s.of :
    /\ s.of[b].max # -1 /\ s.of[c].overflow /\ s.of[c].fallback # None /\ b # c
    /\ s.of[d].fallback # None
    => s.block[s.of[d].fallback] # c

Fit ==
  /\ IsFiniteSet(Listeners) /\ MaxListeners \in Nat /\ MaxLoop \in Int
  /\ SetupsFit /\ PassesOnFirst

Places ==
  {"new", "auth", "look", "stream", "file", "refused", "answered", "lost", "full", "plainfile"}

Person ==
  [at : Places, user : Users \cup {None}, slave : BOOLEAN, head : BOOLEAN, in : BOOLEAN,
   asked : Mounts \cup {None}, mount : Mounts \cup {None},
   mountinfo : Blocks \cup {None}, minfo : Blocks \cup {None},
   rate : BOOLEAN, back : BOOLEAN, loop : Int, moved : BOOLEAN, error : BOOLEAN]

Typed ==
  /\ setup \in Setups
  /\ available \in [Mounts -> BOOLEAN] /\ listeners \in [Mounts -> Int] /\ total \in Int
  /\ refs \in [Blocks -> Int]
  /\ who \in [Listeners -> Person]

(* A listener that looks for a stream has the settings of the mountpoint   *)
(* it asked for, and those it found on the way are a fallback's.           *)
Sane(w) ==
  /\ w.at = "auth" => w.asked \in Mounts /\ SettingsOf(w.asked) # None
  /\ w.at = "stream" => w.mount \in Mounts
  /\ w.at = "look" =>
       /\ w.asked \in Mounts /\ w.mount \in Mounts /\ w.mountinfo = SettingsOf(w.asked)
       /\ Extra(w) # None =>
            \E d \in Blocks : Of(d).fallback # None /\ SettingsOf(Of(d).fallback) = w.minfo

Base == Fit /\ Typed /\ \A l \in Listeners : Sane(who[l])

LInv == Base /\ ListeningSound

-------------------------------------------------------------------------------
(* How the counts move when one listener does.                             *)

One(p) == IF p THEN 1 ELSE 0

LEMMA Toggle ==
  ASSUME NEW S, NEW T, IsFiniteSet(S), NEW x, S \ {x} = T \ {x}
  PROVE  /\ IsFiniteSet(T) /\ Cardinality(S) \in Nat /\ Cardinality(T) \in Nat
         /\ Cardinality(T) = Cardinality(S) - One(x \in S) + One(x \in T)
  <1>1. IsFiniteSet(S \ {x}) /\ IsFiniteSet(T)
    <2>1. IsFiniteSet(S \ {x})
      BY FS_RemoveElement
    <2>2. T = T \ {x} \/ T = (T \ {x}) \cup {x}
      OBVIOUS
    <2> QED  BY <2>1, <2>2, FS_AddElement
  <1>2. ASSUME NEW U, IsFiniteSet(U)
        PROVE  Cardinality(U) \in Nat /\ Cardinality(U \ {x}) = Cardinality(U) - One(x \in U)
    <2>1. x \notin U => U \ {x} = U
      OBVIOUS
    <2>2. Cardinality(U) \in Nat
      BY <1>2, FS_CardinalityType
    <2>3. x \in U => Cardinality(U \ {x}) = Cardinality(U) - 1
      BY <1>2, FS_RemoveElement
    <2>4. CASE x \in U
      <3>1. One(x \in U) = 1
        BY <2>4 DEF One
      <3> QED  BY <2>2, <2>3, <2>4, <3>1
    <2>5. CASE x \notin U
      <3>1. U \ {x} = U
        BY <2>1, <2>5
      <3>2. Cardinality(U) = Cardinality(U) - 0
        BY <2>2
      <3> QED  BY <2>2, <2>5, <3>1, <3>2 DEF One
    <2> QED  BY <2>4, <2>5
  <1>3. Cardinality(S) \in Nat /\ Cardinality(S \ {x}) = Cardinality(S) - One(x \in S)
    BY <1>2
  <1>4. Cardinality(T) \in Nat /\ Cardinality(T \ {x}) = Cardinality(T) - One(x \in T)
    BY <1>1, <1>2
  <1>5. One(x \in S) \in Int /\ One(x \in T) \in Int
    BY DEF One
  <1>6. Cardinality(S \ {x}) = Cardinality(T \ {x})
    OBVIOUS
  <1>7. ASSUME NEW a \in Int, NEW b \in Int, NEW p \in Int, NEW q \in Int, a - p = b - q
        PROVE  b = a - p + q
    BY <1>7
  <1> QED  BY <1>1, <1>3, <1>4, <1>5, <1>6, <1>7

Looks(b) == {l \in Listeners : who[l].at = "look" /\ who[l].mountinfo = b}
Extras(b) == {l \in Listeners : who[l].at = "look" /\ Extra(who[l]) = b}
Filed(w) == w.at = "stream" \/ (w.at = "file" /\ w.back /\ w.in)
Known == {l \in Listeners : Filed(who[l])}

Needs(w, b) == One(w.at = "look" /\ w.mountinfo = b) + One(w.at = "look" /\ Extra(w) = b)
OnIt(w, m) == w.at = "stream" /\ w.mount = m

(* The others look at what they looked at.                                 *)
AloneMoves(l) ==
  \A k \in Listeners \ {l} :
    /\ who'[k].at = who[k].at /\ who'[k].mount = who[k].mount
    /\ who'[k].mountinfo = who[k].mountinfo /\ who'[k].minfo = who[k].minfo
    /\ who'[k].back = who[k].back /\ who'[k].in = who[k].in
    /\ who'[k].asked = who[k].asked /\ who'[k].slave = who[k].slave
    /\ who'[k].moved = who[k].moved /\ who'[k].user = who[k].user

LEMMA HeldStep ==
  ASSUME Base, SettingsHeld, NEW l \in Listeners, AloneMoves(l), setup' = setup,
         refs' \in [Blocks -> Int],
         \A b \in Blocks : refs'[b] >= refs[b] - Needs(who[l], b) + Needs(who'[l], b)
  PROVE  SettingsHeld'
  <1>1. Blocks' = Blocks
    BY DEF Blocks
  <1> SUFFICES ASSUME NEW b \in Blocks
               PROVE  refs'[b] >= 1 + Cardinality(Looks(b)') + Cardinality(Extras(b)')
    BY <1>1 DEF SettingsHeld, Looks, Extras
  <1>2. IsFiniteSet(Looks(b)) /\ IsFiniteSet(Extras(b))
    BY FS_Subset DEF Base, Fit, Looks, Extras
  <1>3. Looks(b)' \ {l} = Looks(b) \ {l}
    BY DEF Looks, AloneMoves
  <1>4. Extras(b)' \ {l} = Extras(b) \ {l}
    BY DEF Extras, AloneMoves, Extra
  <1>5. /\ l \in Looks(b) <=> who[l].at = "look" /\ who[l].mountinfo = b
        /\ l \in Looks(b)' <=> who'[l].at = "look" /\ who'[l].mountinfo = b
        /\ l \in Extras(b) <=> who[l].at = "look" /\ Extra(who[l]) = b
        /\ l \in Extras(b)' <=> who'[l].at = "look" /\ Extra(who'[l]) = b
    BY DEF Looks, Extras, Extra
  <1>6. refs[b] >= 1 + Cardinality(Looks(b)) + Cardinality(Extras(b)) /\ refs[b] \in Int
    BY DEF SettingsHeld, Looks, Extras, Base, Typed
  <1>7. /\ Cardinality(Looks(b)) \in Nat /\ Cardinality(Looks(b)') \in Nat
        /\ Cardinality(Looks(b)') = Cardinality(Looks(b)) - One(l \in Looks(b)) + One(l \in Looks(b)')
    BY <1>2, <1>3, Toggle
  <1>8. /\ Cardinality(Extras(b)) \in Nat /\ Cardinality(Extras(b)') \in Nat
        /\ Cardinality(Extras(b)') = Cardinality(Extras(b)) - One(l \in Extras(b)) + One(l \in Extras(b)')
    BY <1>2, <1>4, Toggle
  <1>9. refs'[b] \in Int /\ refs'[b] >= refs[b] - Needs(who[l], b) + Needs(who'[l], b)
    OBVIOUS
  <1> QED  BY <1>5, <1>6, <1>7, <1>8, <1>9 DEF Needs, One

LEMMA CountStep ==
  ASSUME Base, ListenersCounted, NEW l \in Listeners, AloneMoves(l),
         listeners' \in [Mounts -> Int], total' \in Int,
         \A m \in Mounts : listeners'[m] = listeners[m] - One(OnIt(who[l], m)) + One(OnIt(who'[l], m)),
         total' >= total - One(Filed(who[l])) + One(Filed(who'[l])),
         MaxListeners # 0 => total' <= MaxListeners
  PROVE  ListenersCounted'
  <1>1. ASSUME NEW m \in Mounts PROVE listeners'[m] = Cardinality(On(m)')
    <2>1. IsFiniteSet(On(m))
      BY FS_Subset DEF Base, Fit, On
    <2>2. On(m)' \ {l} = On(m) \ {l}
      BY DEF On, AloneMoves
    <2>3. (l \in On(m) <=> OnIt(who[l], m)) /\ (l \in On(m)' <=> OnIt(who'[l], m))
      BY DEF On, OnIt
    <2>4. listeners[m] = Cardinality(On(m))
      BY DEF ListenersCounted
    <2>5. Cardinality(On(m)) \in Nat
          /\ Cardinality(On(m)') = Cardinality(On(m)) - One(l \in On(m)) + One(l \in On(m)')
      BY <2>1, <2>2, Toggle
    <2> QED  BY <2>3, <2>4, <2>5 DEF One
  <1>2. total' >= Cardinality(Known')
    <2>1. IsFiniteSet(Known)
      BY FS_Subset DEF Base, Fit, Known
    <2>2. Known' \ {l} = Known \ {l}
      BY DEF Known, Filed, AloneMoves
    <2>3. (l \in Known <=> Filed(who[l])) /\ (l \in Known' <=> Filed(who'[l]))
      BY DEF Known, Filed
    <2>4. total >= Cardinality(Known) /\ total \in Int
      BY DEF ListenersCounted, Known, Filed, Base, Typed
    <2>5. Cardinality(Known) \in Nat /\ Cardinality(Known') \in Nat
          /\ Cardinality(Known') = Cardinality(Known) - One(l \in Known) + One(l \in Known')
      BY <2>1, <2>2, Toggle
    <2> QED  BY <2>3, <2>4, <2>5 DEF One
  <1> QED  BY <1>1, <1>2 DEF ListenersCounted, On, Known, Filed

(* Nobody comes straight to a mountpoint.                                  *)
LEMMA RulesKept ==
  ASSUME Base, MountRules, NEW l \in Listeners, AloneMoves(l), setup' = setup,
         who'[l].at = "stream" => who'[l].asked # who'[l].mount \/ who'[l].slave \/ who'[l].moved
  PROVE  MountRules'
  <1>1. ASSUME NEW m \in Mounts
        PROVE  /\ Straight(m)' \subseteq Straight(m)
               /\ \A k \in Straight(m)' : who'[k].user = who[k].user
    BY DEF Straight, On, AloneMoves
  <1>2. \A m \in Mounts : SettingsOf(m)' = SettingsOf(m)
    BY DEF SettingsOf
  <1>3. ASSUME NEW m \in Mounts
        PROVE  Cardinality(Straight(m)') <= Cardinality(Straight(m))
               /\ Cardinality(Straight(m)') \in Nat /\ Cardinality(Straight(m)) \in Nat
    <2>1. IsFiniteSet(Straight(m))
      BY FS_Subset DEF Base, Fit, Straight, On
    <2> QED  BY <1>1, <2>1, FS_Subset, FS_CardinalityType
  <1> SUFFICES ASSUME NEW m \in Mounts, SettingsOf(m) # None
               PROVE  /\ Of(SettingsOf(m)).max # -1 => Cardinality(Straight(m)') <= Of(SettingsOf(m)).max
                      /\ Of(SettingsOf(m)).auth = "deny" =>
                           \A j, k \in Straight(m)' : j # k => who'[j].user = None \/ who'[j].user # who'[k].user
    BY <1>2 DEF MountRules, Of
  <1>4. Of(SettingsOf(m)).max \in Int
    BY DEF Base, Fit, Typed, SetupsFit, SettingsOf, Of, Blocks
  <1> QED  BY <1>1, <1>3, <1>4 DEF MountRules

LEMMA BaseStep ==
  ASSUME Base, NEW l \in Listeners, AloneMoves(l), setup' = setup,
         available' \in [Mounts -> BOOLEAN], listeners' \in [Mounts -> Int], total' \in Int,
         refs' \in [Blocks -> Int], who' \in [Listeners -> Person], Sane(who'[l])
  PROVE  Base'
  <1>1. Blocks' = Blocks /\ Person' = Person
    BY DEF Blocks, Person
  <1>2. Fit' /\ Typed'
    BY <1>1 DEF Base, Fit, Typed, SetupsFit, PassesOnFirst
  <1>3. ASSUME NEW k \in Listeners, k # l PROVE Sane(who'[k])
    BY <1>3 DEF Base, AloneMoves, Sane, Extra
  <1>4. \A k \in Listeners : Sane(who'[k]) => Sane(who[k])'
    BY <1>1 DEF Sane, SettingsOf, Of, Extra
  <1> QED  BY <1>2, <1>3, <1>4 DEF Base

(* A listener whose settings are as before: it looked at none, and does    *)
(* not begin to.                                                           *)
LEMMA NoSettings ==
  ASSUME Base, SettingsHeld, NEW l \in Listeners, AloneMoves(l), setup' = setup, refs' = refs,
         who[l].at # "look", who'[l].at # "look"
  PROVE  SettingsHeld'
  <1>1. \A b \in Blocks : Needs(who[l], b) = 0 /\ Needs(who'[l], b) = 0 /\ refs[b] \in Int
    BY DEF Needs, One, Base, Typed
  <1> QED  BY <1>1, HeldStep DEF Base, Typed

(* One that is on no source and no file, before and after.                 *)
LEMMA NoPlace ==
  ASSUME Base, ListenersCounted, NEW l \in Listeners, AloneMoves(l),
         listeners' = listeners, total' = total,
         who[l].at \notin {"stream", "file"}, who'[l].at \notin {"stream", "file"}
  PROVE  ListenersCounted'
  <1>1. \A m \in Mounts : One(OnIt(who[l], m)) = 0 /\ One(OnIt(who'[l], m)) = 0
    BY DEF OnIt, One
  <1>2. One(Filed(who[l])) = 0 /\ One(Filed(who'[l])) = 0
    BY DEF Filed, One
  <1>3. listeners \in [Mounts -> Int] /\ total \in Int /\ (MaxListeners # 0 => total <= MaxListeners)
    BY DEF Base, Typed, ListenersCounted
  <1> QED  BY <1>1, <1>2, <1>3, CountStep

-------------------------------------------------------------------------------
(* Settings counted and given back.                                        *)

Is(a, b) == IF a = b THEN 1 ELSE 0

LEMMA Apiece ==
  ASSUME Base, SettingsHeld
  PROVE  /\ None \notin Blocks
         /\ \A b \in Blocks : refs[b] \in Int /\ refs[b] > 0
  <1>1. None \notin Blocks
    BY DEF Base, Typed, Fit, SetupsFit, Blocks
  <1>2. ASSUME NEW b \in Blocks PROVE refs[b] \in Int /\ refs[b] > 0
    <2>1. Cardinality(Looks(b)) \in Nat /\ Cardinality(Extras(b)) \in Nat
      BY FS_Subset, FS_CardinalityType DEF Base, Fit, Looks, Extras
    <2> QED  BY <2>1 DEF SettingsHeld, Looks, Extras, Base, Typed
  <1> QED  BY <1>1, <1>2

(* q is what is left of r when the settings x and y are given back.        *)
Less(q, r, x, y) == q \in [Blocks -> Int] /\ \A b \in Blocks : q[b] = r[b] - Is(x, b) - Is(y, b)

LEMMA GivenBack ==
  ASSUME None \notin Blocks, NEW r \in [Blocks -> Int], \A b \in Blocks : r[b] > 0,
         NEW x, NEW y, x = y => x = None
  PROVE  Less(Released(r, <<x, y>>), r, x, y) /\ Less(Released(r, <<x>>), r, x, None)
  <1> DEFINE Two(b) == {i \in DOMAIN <<x, y>> : <<x, y>>[i] = b /\ r[b] > 0}
             Sole(b) == {i \in DOMAIN <<x>> : <<x>>[i] = b /\ r[b] > 0}
  <1>1. ASSUME NEW b \in Blocks PROVE Cardinality(Two(b)) = Is(x, b) + Is(y, b)
    <2>1. CASE x = b
      <3>1. Two(b) = {1} /\ y # b
        BY <2>1
      <3>2. Cardinality(Two(b)) = 1
        BY <3>1, FS_Singleton
      <3> QED  BY <2>1, <3>1, <3>2 DEF Is
    <2>2. CASE x # b /\ y = b
      <3>1. Two(b) = {2}
        BY <2>2
      <3>2. Cardinality(Two(b)) = 1
        BY <3>1, FS_Singleton
      <3> QED  BY <2>2, <3>2 DEF Is
    <2>3. CASE x # b /\ y # b
      <3>1. Two(b) = {}
        BY <2>3
      <3>2. Cardinality(Two(b)) = 0
        BY <3>1, FS_EmptySet
      <3> QED  BY <2>3, <3>2 DEF Is
    <2> QED  BY <2>1, <2>2, <2>3
  <1>2. ASSUME NEW b \in Blocks PROVE Cardinality(Sole(b)) = Is(x, b)
    <2>1. CASE x = b
      <3>1. Sole(b) = {1}
        BY <2>1
      <3> QED  BY <2>1, <3>1, FS_Singleton DEF Is
    <2>2. CASE x # b
      <3>1. Sole(b) = {}
        BY <2>2
      <3> QED  BY <2>2, <3>1, FS_EmptySet DEF Is
    <2> QED  BY <2>1, <2>2
  <1>3. /\ Released(r, <<x, y>>) = [b \in Blocks |-> r[b] - Cardinality(Two(b))]
        /\ Released(r, <<x>>) = [b \in Blocks |-> r[b] - Cardinality(Sole(b))]
    BY DEF Released
  <1> HIDE DEF Two, Sole
  <1>4. ASSUME NEW b \in Blocks
        PROVE  /\ r[b] - Cardinality(Two(b)) \in Int /\ r[b] - Cardinality(Sole(b)) \in Int
               /\ r[b] - Cardinality(Two(b)) = r[b] - Is(x, b) - Is(y, b)
               /\ r[b] - Cardinality(Sole(b)) = r[b] - Is(x, b) - Is(None, b)
    BY <1>1, <1>2 DEF Is
  <1> QED  BY <1>3, <1>4 DEF Less

LEMMA RefsBack ==
  ASSUME Base, SettingsHeld, NEW x, NEW y, x = y => x = None
  PROVE  Less(Released(refs, <<x, y>>), refs, x, y) /\ Less(Released(refs, <<x>>), refs, x, None)
  <1>1. refs \in [Blocks -> Int] /\ None \notin Blocks /\ \A b \in Blocks : refs[b] > 0
    BY Apiece DEF Base, Typed
  <1> QED  BY <1>1, GivenBack

(* One that looked for a stream gives all its settings back.               *)
LEMMA AllBack ==
  ASSUME Base, SettingsHeld, NEW l \in Listeners, AloneMoves(l), setup' = setup,
         refs' = Released(refs, <<who[l].mountinfo, Extra(who[l])>>),
         who[l].at = "look", who'[l].at # "look"
  PROVE  SettingsHeld' /\ refs' \in [Blocks -> Int]
  <1>1. PICK x, y : x = who[l].mountinfo /\ y = Extra(who[l])
    OBVIOUS
  <1>2. x = y => x = None
    BY <1>1 DEF Extra
  <1>4. refs' = Released(refs, <<x, y>>)
    BY <1>1
  <1>5. refs' \in [Blocks -> Int] /\ \A b \in Blocks : refs'[b] = refs[b] - Is(x, b) - Is(y, b)
    <2>1. Less(Released(refs, <<x, y>>), refs, x, y)
      BY <1>2, RefsBack
    <2>2. Less(refs', refs, x, y)
      BY <1>4, <2>1
    <2> QED  BY <2>2 DEF Less
  <1>6. \A b \in Blocks : /\ Needs(who[l], b) = Is(x, b) + Is(y, b)
                          /\ Needs(who'[l], b) = 0
    BY <1>1 DEF Needs, One, Is
  <1>7. \A b \in Blocks : refs[b] \in Int /\ Is(x, b) \in Int /\ Is(y, b) \in Int
    BY Apiece DEF Is
  <1>8. \A b \in Blocks : refs'[b] >= refs[b] - Needs(who[l], b) + Needs(who'[l], b)
    BY <1>5, <1>6, <1>7
  <1> QED  BY <1>5, <1>8, HeldStep

-------------------------------------------------------------------------------
(* Each action.                                                            *)

LEMMA NewPerson ==
  ASSUME Base
  PROVE  /\ NewListener \in Person /\ NewListener.at = "new"
         /\ \A how \in Places : Ended(how) \in Person /\ Ended(how).at = how
  <1>1. MaxLoop \in Int
    BY DEF Base, Fit
  <1>2. NewListener \in Person
    BY <1>1 DEF NewListener, Person, Places
  <1>3. ASSUME NEW how \in Places PROVE Ended(how) \in Person /\ Ended(how).at = how
    BY <1>2 DEF Ended, NewListener, Person, Places
  <1> QED  BY <1>2, <1>3 DEF NewListener

LEMMA Settings ==
  ASSUME Base
  PROVE  /\ \A m \in Mounts \cup {None} : SettingsOf(m) \in Blocks \cup {None}
         /\ \A b \in Blocks : Of(b).fallback \in Mounts \cup {None} /\ Of(b).max \in Nat \cup {-1}
                               /\ Of(b).rejected \in Mounts \cup {None}
  BY DEF Base, Fit, Typed, SetupsFit, SettingsOf, Of, Blocks

LEMMA OneIs ==
  ASSUME Base, NEW l \in Listeners, NEW v \in Person, who' = [who EXCEPT ![l] = v]
  PROVE  AloneMoves(l) /\ who' \in [Listeners -> Person] /\ who'[l] = v
  BY DEF Base, Typed, AloneMoves

(* A listener that neither looks nor listens, before and after.            *)
LEMMA QuietStep ==
  ASSUME LInv, NEW l \in Listeners, NEW v \in Person, who' = [who EXCEPT ![l] = v],
         Sane(v), v.at \notin {"look", "stream", "file"}, who[l].at \notin {"look", "stream", "file"},
         UNCHANGED <<setup, available, listeners, total, refs>>
  PROVE  LInv'
  <1>1. AloneMoves(l) /\ who' \in [Listeners -> Person] /\ who'[l] = v
    BY OneIs DEF LInv
  <1>2. Base'
    BY <1>1, BaseStep DEF LInv, Base, Typed
  <1>3. SettingsHeld' /\ ListenersCounted' /\ MountRules'
    BY <1>1, NoSettings, NoPlace, RulesKept DEF LInv, ListeningSound
  <1> QED  BY <1>2, <1>3 DEF LInv, ListeningSound

(* A listener that looked for a stream in vain.                            *)
LEMMA EndStep ==
  ASSUME LInv, NEW l \in Listeners, who[l].at = "look", NEW how \in Places,
         how \notin {"look", "stream", "file", "auth"}, Ends(l, who[l], how),
         UNCHANGED <<setup, available, listeners, total>>
  PROVE  LInv'
  <1>1. Ended(how) \in Person /\ Ended(how).at = how /\ Sane(Ended(how))
    BY NewPerson DEF LInv, Sane
  <1>2. AloneMoves(l) /\ who' \in [Listeners -> Person] /\ who'[l] = Ended(how)
    BY <1>1, OneIs DEF LInv, Ends
  <1>3. SettingsHeld' /\ refs' \in [Blocks -> Int]
    BY <1>1, <1>2, AllBack DEF LInv, ListeningSound, Ends
  <1>4. Base'
    BY <1>1, <1>2, <1>3, BaseStep DEF LInv, Base, Typed
  <1>5. ListenersCounted' /\ MountRules'
    BY <1>1, <1>2, NoPlace, RulesKept DEF LInv, ListeningSound
  <1> QED  BY <1>3, <1>4, <1>5 DEF LInv, ListeningSound

(* A listener is let in to look for its stream, its settings counted.      *)
LEMMA AddStep ==
  ASSUME LInv, NEW l \in Listeners, who[l].at \in {"new", "auth"}, NEW w \in Person,
         NEW m \in Mounts, who' = [who EXCEPT ![l] = Add(w, m, SettingsOf(m))],
         refs' = Counted(refs, SettingsOf(m)),
         UNCHANGED <<setup, available, listeners, total>>
  PROVE  LInv'
  <1> DEFINE b == SettingsOf(m)
             v == Add(w, m, b)
  <1>1. b \in Blocks \cup {None} /\ None \notin Blocks
    BY Settings, Apiece DEF LInv, ListeningSound
  <1>2. v \in Person /\ v.at = "look" /\ v.mountinfo = b /\ v.minfo = b /\ v.asked = m /\ v.mount = m
    BY <1>1 DEF Add, Person, Places
  <1>3. Extra(v) = None /\ Sane(v)
    BY <1>2 DEF Extra, Sane
  <1> HIDE DEF v, b
  <1>4. AloneMoves(l) /\ who' \in [Listeners -> Person] /\ who'[l] = v
    BY <1>2, OneIs DEF LInv, v, b
  <1>5. refs' \in [Blocks -> Int] /\ \A c \in Blocks : refs'[c] = refs[c] + Is(b, c) /\ refs[c] \in Int
    BY <1>1 DEF LInv, Base, Typed, Counted, Is, b
  <1>6. \A c \in Blocks : Needs(who[l], c) = 0 /\ Needs(who'[l], c) = Is(b, c)
    BY <1>1, <1>2, <1>3, <1>4 DEF Needs, One, Is
  <1>7. SettingsHeld'
    <2>1. \A c \in Blocks : refs'[c] >= refs[c] - Needs(who[l], c) + Needs(who'[l], c)
      BY <1>5, <1>6 DEF Is
    <2> QED  BY <1>4, <1>5, <2>1, HeldStep DEF LInv, ListeningSound
  <1>8. Base'
    BY <1>3, <1>4, <1>5, BaseStep DEF LInv, Base, Typed
  <1>9. ListenersCounted' /\ MountRules'
    BY <1>2, <1>4, NoPlace, RulesKept DEF LInv, ListeningSound
  <1> QED  BY <1>7, <1>8, <1>9 DEF LInv, ListeningSound

LEMMA AskStep ==
  ASSUME LInv, NEW l \in Listeners, NEW m \in Mounts, NEW user \in Users \cup {None},
         NEW slave \in BOOLEAN, NEW head \in BOOLEAN, Ask(l, m, user, slave, head)
  PROVE  LInv'
  <1> DEFINE w == [who[l] EXCEPT !.user = user, !.slave = slave, !.head = head, !.asked = m]
             b == SettingsOf(m)
  <1>1. who[l] \in Person /\ who[l].at = "new"
    BY DEF LInv, Base, Typed, Ask
  <1>2. w \in Person /\ w.asked = m
    BY <1>1 DEF Person
  <1>3. UNCHANGED <<setup, available, listeners, total>>
    BY DEF Ask
  <1>4. ASSUME who' = [who EXCEPT ![l] = Ended("refused")], UNCHANGED refs PROVE LInv'
    <2>1. Ended("refused") \in Person /\ Ended("refused").at = "refused"
      BY NewPerson DEF LInv, Places
    <2>2. Sane(Ended("refused"))
      BY <2>1 DEF Sane
    <2> QED  BY <1>1, <1>3, <1>4, <2>1, <2>2, QuietStep
  <1>5. ASSUME who' = [who EXCEPT ![l] = [w EXCEPT !.at = "auth"]], UNCHANGED refs, b # None PROVE LInv'
    <2>1. [w EXCEPT !.at = "auth"] \in Person
      BY <1>2 DEF Person, Places
    <2>2. [w EXCEPT !.at = "auth"].at = "auth" /\ [w EXCEPT !.at = "auth"].asked = m
      BY <1>2 DEF Person
    <2> HIDE DEF w
    <2>3. Sane([w EXCEPT !.at = "auth"])
      BY <1>5, <2>2 DEF Sane
    <2> QED  BY <1>1, <1>3, <1>5, <2>1, <2>2, <2>3, QuietStep
  <1>6. ASSUME who' = [who EXCEPT ![l] = Add(w, m, b)], refs' = Counted(refs, b) PROVE LInv'
    <2> HIDE DEF w
    <2> QED  BY <1>1, <1>2, <1>3, <1>6, AddStep
  <1>7. \/ who' = [who EXCEPT ![l] = Ended("refused")] /\ UNCHANGED refs
        \/ who' = [who EXCEPT ![l] = [w EXCEPT !.at = "auth"]] /\ UNCHANGED refs /\ b # None
        \/ who' = [who EXCEPT ![l] = Add(w, m, b)] /\ refs' = Counted(refs, b)
    BY DEF Ask
  <1> QED  BY <1>4, <1>5, <1>6, <1>7

LEMMA AuthenticatedStep ==
  ASSUME LInv, NEW l \in Listeners, Authenticated(l)
  PROVE  LInv'
  <1> DEFINE w == who[l]
             m == Of(SettingsOf(w.asked)).rejected
  <1>1. w \in Person /\ w.at = "auth" /\ w.asked \in Mounts /\ SettingsOf(w.asked) # None
    BY DEF LInv, Base, Typed, Authenticated, Sane
  <1>2. m \in Mounts \cup {None}
    BY <1>1, Settings DEF LInv
  <1>3. UNCHANGED <<setup, available, listeners, total>>
    BY DEF Authenticated
  <1>4. ASSUME NEW n \in Mounts, who' = [who EXCEPT ![l] = Add(w, n, SettingsOf(n))],
               refs' = Counted(refs, SettingsOf(n))
        PROVE  LInv'
    BY <1>1, <1>3, <1>4, AddStep
  <1>5. ASSUME who' = [who EXCEPT ![l] = Ended("refused")], UNCHANGED refs PROVE LInv'
    <2>1. Ended("refused") \in Person /\ Ended("refused").at = "refused"
      BY NewPerson DEF LInv, Places
    <2>2. Sane(Ended("refused"))
      BY <2>1 DEF Sane
    <2> QED  BY <1>1, <1>3, <1>5, <2>1, <2>2, QuietStep
  <1>6. \/ who' = [who EXCEPT ![l] = Add(w, w.asked, SettingsOf(w.asked))]
           /\ refs' = Counted(refs, SettingsOf(w.asked))
        \/ m = None /\ who' = [who EXCEPT ![l] = Ended("refused")] /\ UNCHANGED refs
        \/ m # None /\ who' = [who EXCEPT ![l] = Add(w, m, SettingsOf(m))]
           /\ refs' = Counted(refs, SettingsOf(m))
    BY DEF Authenticated
  <1> HIDE DEF m
  <1> QED  BY <1>1, <1>2, <1>4, <1>5, <1>6

LEMMA TooManyLooksStep ==
  ASSUME LInv, NEW l \in Listeners, TooManyLooks(l)
  PROVE  LInv'
  BY EndStep DEF TooManyLooks, Places

LEMMA GoneStep ==
  ASSUME LInv, NEW l \in Listeners, Gone(l)
  PROVE  LInv'
  <1>1. NewListener \in Person /\ NewListener.at = "new"
    BY NewPerson DEF LInv
  <1>2. Sane(NewListener)
    BY <1>1 DEF Sane
  <1> QED  BY <1>1, <1>2, QuietStep DEF Gone

LEMMA SourceChangesStep ==
  ASSUME LInv, NEW m \in Mounts, SourceChanges(m)
  PROVE  LInv'
  <1>1. UNCHANGED <<setup, listeners, total, refs, who>> /\ available' \in [Mounts -> BOOLEAN]
    BY DEF LInv, Base, Typed, SourceChanges
  <1>2. Base'
    BY <1>1 DEF LInv, Base, Typed, Fit, SetupsFit, PassesOnFirst, Person, Blocks, Sane, SettingsOf, Of, Extra
  <1>3. SettingsHeld'
    BY <1>1 DEF LInv, ListeningSound, SettingsHeld, Blocks, Extra
  <1>4. ListenersCounted'
    BY <1>1 DEF LInv, ListeningSound, ListenersCounted, On
  <1>5. MountRules'
    BY <1>1 DEF LInv, ListeningSound, MountRules, On, Straight, SettingsOf, Of
  <1> QED  BY <1>2, <1>3, <1>4, <1>5 DEF LInv, ListeningSound

LEMMA LeaveStep ==
  ASSUME LInv, NEW l \in Listeners, Leave(l)
  PROVE  LInv'
  <1> DEFINE w == who[l]
  <1>1. /\ w.at \in {"stream", "file"} /\ w \in Person
        /\ UNCHANGED <<setup, available, refs>> /\ who' = [who EXCEPT ![l] = NewListener]
        /\ listeners \in [Mounts -> Int] /\ total \in Int
    BY DEF LInv, Base, Typed, Leave
  <1>2. NewListener \in Person /\ NewListener.at = "new" /\ Sane(NewListener)
    BY NewPerson DEF LInv, Sane
  <1>3. AloneMoves(l) /\ who' \in [Listeners -> Person] /\ who'[l] = NewListener
    BY <1>1, <1>2, OneIs DEF LInv
  <1>4. /\ listeners' \in [Mounts -> Int]
        /\ \A m \in Mounts : listeners'[m] = listeners[m] - One(OnIt(who[l], m)) + One(OnIt(who'[l], m))
    <2>1. CASE w.at = "stream"
      <3>1. w.mount \in Mounts /\ listeners' = [listeners EXCEPT ![w.mount] = @ - 1]
        BY <2>1 DEF LInv, Base, Sane, Leave
      <3> QED  BY <1>1, <1>2, <1>3, <2>1, <3>1 DEF OnIt, One
    <2>2. CASE w.at = "file"
      <3>1. listeners' = listeners
        BY <2>2 DEF Leave
      <3> QED  BY <1>1, <1>2, <1>3, <2>2, <3>1 DEF OnIt, One
    <2> QED  BY <1>1, <2>1, <2>2
  <1>5. total' = total - One(Filed(who[l])) /\ One(Filed(who'[l])) = 0 /\ One(Filed(who[l])) \in Nat
    BY <1>1, <1>2, <1>3 DEF Leave, Filed, One
  <1>6. ListenersCounted'
    <2>1. total' \in Int /\ total' >= total - One(Filed(who[l])) + One(Filed(who'[l]))
      BY <1>1, <1>5
    <2>2. MaxListeners # 0 => total' <= MaxListeners
      BY <1>1, <1>5 DEF LInv, ListeningSound, ListenersCounted, Base, Fit
    <2> QED  BY <1>3, <1>4, <2>1, <2>2, CountStep DEF LInv, ListeningSound
  <1>7. Base'
    <2>1. total' \in Int /\ available' \in [Mounts -> BOOLEAN] /\ refs' \in [Blocks -> Int]
      BY <1>1, <1>5 DEF LInv, Base, Typed
    <2> QED  BY <1>1, <1>2, <1>3, <1>4, <2>1, BaseStep DEF LInv
  <1>8. SettingsHeld' /\ MountRules'
    BY <1>1, <1>2, <1>3, NoSettings, RulesKept DEF LInv, ListeningSound
  <1> QED  BY <1>6, <1>7, <1>8 DEF LInv, ListeningSound

LEMMA MoveStep ==
  ASSUME LInv, NEW l \in Listeners, Move(l)
  PROVE  LInv'
  <1> DEFINE w == who[l]
  <1>1. /\ w.at = "stream" /\ w \in Person /\ w.mount \in Mounts
        /\ UNCHANGED <<setup, available, total, refs>>
        /\ listeners \in [Mounts -> Int] /\ total \in Int /\ ~available[w.mount]
    BY DEF LInv, Base, Typed, Move, Sane
  <1>2. ASSUME NEW v \in Person, Sane(v), v.at \in {"stream", "file"}, v.at = "stream" => v.moved,
               who' = [who EXCEPT ![l] = v],
               listeners' \in [Mounts -> Int],
               \A m \in Mounts : listeners'[m] = listeners[m] - One(OnIt(who[l], m)) + One(OnIt(v, m))
        PROVE  LInv'
    <2>1. AloneMoves(l) /\ who' \in [Listeners -> Person] /\ who'[l] = v
      BY <1>2, OneIs DEF LInv
    <2>2. total' >= total - One(Filed(who[l])) + One(Filed(who'[l])) /\ total' \in Int
      BY <1>1 DEF Filed, One
    <2>3. MaxListeners # 0 => total' <= MaxListeners
      BY <1>1 DEF LInv, ListeningSound, ListenersCounted
    <2>4. ListenersCounted'
      BY <1>2, <2>1, <2>2, <2>3, CountStep DEF LInv, ListeningSound
    <2>5. Base'
      BY <1>1, <1>2, <2>1, BaseStep DEF LInv, Base, Typed
    <2>6. SettingsHeld' /\ MountRules'
      BY <1>1, <1>2, <2>1, NoSettings, RulesKept DEF LInv, ListeningSound
    <2> QED  BY <2>4, <2>5, <2>6 DEF LInv, ListeningSound
  <1>3. ASSUME NEW m \in Mounts, available[m], who' = [who EXCEPT ![l].mount = m, ![l].moved = TRUE],
               listeners' = [listeners EXCEPT ![w.mount] = @ - 1, ![m] = @ + 1]
        PROVE  LInv'
    <2>1. PICK v : v = [w EXCEPT !.mount = m, !.moved = TRUE]
      OBVIOUS
    <2>2. v \in Person /\ v.at = "stream" /\ v.mount = m /\ v.moved /\ Sane(v)
      BY <1>1, <2>1 DEF Person, Sane
    <2>3. who' = [who EXCEPT ![l] = v]
      BY <1>3, <2>1 DEF LInv, Base, Typed
    <2>4. /\ listeners' \in [Mounts -> Int]
          /\ \A k \in Mounts : listeners'[k] = listeners[k] - One(OnIt(who[l], k)) + One(OnIt(v, k))
      BY <1>1, <1>3, <2>2 DEF OnIt, One
    <2> QED  BY <1>2, <2>2, <2>3, <2>4
  <1>4. ASSUME who' = [who EXCEPT ![l].at = "file", ![l].moved = TRUE, ![l].back = TRUE],
               listeners' = [listeners EXCEPT ![w.mount] = @ - 1]
        PROVE  LInv'
    <2>1. PICK v : v = [w EXCEPT !.at = "file", !.moved = TRUE, !.back = TRUE]
      OBVIOUS
    <2>2. v \in Person /\ v.at = "file" /\ Sane(v)
      BY <1>1, <2>1 DEF Person, Places, Sane
    <2>3. who' = [who EXCEPT ![l] = v]
      BY <1>4, <2>1 DEF LInv, Base, Typed
    <2>4. /\ listeners' \in [Mounts -> Int]
          /\ \A k \in Mounts : listeners'[k] = listeners[k] - One(OnIt(who[l], k)) + One(OnIt(v, k))
      BY <1>1, <1>4, <2>2 DEF OnIt, One
    <2> QED  BY <1>2, <2>2, <2>3, <2>4
  <1> QED  BY <1>3, <1>4 DEF Move

LEMMA ListensPerson ==
  ASSUME NEW w \in Person, NEW how \in Places
  PROVE  /\ Listens(w, how) \in Person /\ Listens(w, how).at = how
         /\ Listens(w, how).mount = w.mount /\ Listens(w, how).asked = w.asked
         /\ Listens(w, how).slave = w.slave /\ Listens(w, how).user = w.user
  <1> DEFINE v == Listens(w, how)
  <1>1. v \in Person
    <2>1. PICK u : u = [w EXCEPT !.at = how, !.mountinfo = None, !.minfo = None]
      OBVIOUS
    <2>2. u \in Person
      BY <2>1 DEF Person
    <2>3. PICK x : x = [u EXCEPT !.loop = 0]
      OBVIOUS
    <2>4. x \in Person
      BY <2>2, <2>3 DEF Person
    <2>5. [x EXCEPT !.rate = FALSE] \in Person
      BY <2>4 DEF Person
    <2>6. v = [x EXCEPT !.rate = FALSE]
      BY <2>1, <2>3 DEF Listens, Person
    <2> QED  BY <2>5, <2>6
  <1>2. v.at = how /\ v.mount = w.mount /\ v.asked = w.asked /\ v.slave = w.slave /\ v.user = w.user
    BY DEF Listens, Person
  <1> QED  BY <1>1, <1>2

LEMMA TryFileStep ==
  ASSUME LInv, NEW l \in Listeners, who[l].at = "look", TryFile(l, who[l]),
         UNCHANGED <<setup, available, listeners>>
  PROVE  LInv'
  <1> DEFINE w == who[l]
  <1>1. refs' = Released(refs, <<w.mountinfo, Extra(w)>>)
    BY DEF TryFile
  <1>2. ASSUME NEW how \in {"plainfile", "full", "refused"}, who' = [who EXCEPT ![l] = Ended(how)],
               UNCHANGED total
        PROVE  LInv'
    <2>1. Ends(l, w, how)
      BY <1>1, <1>2 DEF Ends
    <2> QED  BY <1>2, <2>1, EndStep DEF Places
  <1>3. ASSUME who' = [who EXCEPT ![l] = Listens(w, "file")], total' = total + 1, ~Full PROVE LInv'
    <2>1. w \in Person /\ total \in Int /\ listeners \in [Mounts -> Int]
      BY DEF LInv, Base, Typed
    <2>2. Listens(w, "file") \in Person /\ Listens(w, "file").at = "file"
      BY <2>1, ListensPerson DEF Places
    <2>3. AloneMoves(l) /\ who' \in [Listeners -> Person] /\ who'[l] = Listens(w, "file")
      BY <1>3, <2>2, OneIs DEF LInv
    <2>4. SettingsHeld' /\ refs' \in [Blocks -> Int]
      BY <1>1, <2>2, <2>3, AllBack DEF LInv, ListeningSound
    <2>5. Base'
      BY <1>3, <2>1, <2>2, <2>3, <2>4, BaseStep DEF LInv, Base, Typed, Sane
    <2>6. ListenersCounted'
      <3>1. \A m \in Mounts : listeners'[m] = listeners[m] - One(OnIt(who[l], m)) + One(OnIt(who'[l], m))
        BY <2>1, <2>2, <2>3 DEF OnIt, One
      <3>2. total' >= total - One(Filed(who[l])) + One(Filed(who'[l])) /\ total' \in Int
        BY <1>3, <2>1 DEF Filed, One
      <3>3. MaxListeners # 0 => total' <= MaxListeners
        BY <1>3, <2>1 DEF Full, LInv, Base, Fit
      <3> QED  BY <2>1, <2>3, <3>1, <3>2, <3>3, CountStep DEF LInv, ListeningSound
    <2>7. MountRules'
      BY <2>2, <2>3, RulesKept DEF LInv, ListeningSound
    <2> QED  BY <2>4, <2>5, <2>6, <2>7 DEF LInv, ListeningSound
  <1> QED  BY <1>2, <1>3 DEF TryFile

LEMMA GoOnStep ==
  ASSUME LInv, NEW l \in Listeners, who[l].at = "look", GoOn(l, who[l]),
         who[l].minfo # None, Of(who[l].minfo).fallback # None,
         UNCHANGED <<setup, available, listeners>>
  PROVE  LInv'
  <1> DEFINE w == who[l]
  <1>1. PICK m : m = Of(w.minfo).fallback
    OBVIOUS
  <1>2. PICK n : n = SettingsOf(m)
    OBVIOUS
  <1>3. w \in Person /\ Sane(w) /\ w.minfo \in Blocks
    BY DEF LInv, Base, Typed, Person
  <1>4. m \in Mounts /\ n \in Blocks \cup {None} /\ None \notin Blocks
    BY <1>1, <1>2, <1>3, Settings, Apiece DEF LInv, ListeningSound
  <1>5. PICK v : v = [w EXCEPT !.mount = m, !.minfo = n, !.back = TRUE, !.loop = @ - 1,
                               !.rate = @ \/ Of(w.minfo).rate]
    OBVIOUS
  <1>6. PICK e : e = Extra(w)
    OBVIOUS
  <1>7. who' = [who EXCEPT ![l] = v] /\ refs' = Released(Counted(refs, n), <<e>>) /\ total' = total
    BY <1>1, <1>2, <1>5, <1>6 DEF GoOn
  <1>8. /\ v \in Person /\ v.at = "look" /\ v.asked = w.asked /\ v.mount = m
        /\ v.mountinfo = w.mountinfo /\ v.minfo = n
    <2>1. (w.rate \/ Of(w.minfo).rate) \in BOOLEAN /\ w.loop - 1 \in Int
      BY <1>3 DEF Person
    <2>2. v \in Person
      BY <1>3, <1>4, <1>5, <2>1 DEF Person
    <2> QED  BY <1>3, <1>5, <2>2 DEF Person
  <1>9. Sane(v)
    <2>1. Extra(v) # None =>
            \E d \in Blocks : Of(d).fallback # None /\ SettingsOf(Of(d).fallback) = v.minfo
      BY <1>1, <1>2, <1>3, <1>8
    <2> QED  BY <1>3, <1>4, <1>8, <2>1 DEF Sane
  <1>10. AloneMoves(l) /\ who' \in [Listeners -> Person] /\ who'[l] = v
    BY <1>7, <1>8, OneIs DEF LInv
  <1>11. PICK r : r = Counted(refs, n)
    OBVIOUS
  <1>12. r \in [Blocks -> Int] /\ \A b \in Blocks : r[b] = refs[b] + Is(n, b) /\ r[b] > 0 /\ refs[b] \in Int
    <2>1. refs \in [Blocks -> Int] /\ \A b \in Blocks : refs[b] \in Int /\ refs[b] > 0
      BY Apiece DEF LInv, Base, Typed, ListeningSound
    <2> QED  BY <1>4, <1>11, <2>1 DEF Counted, Is
  <1>13. Less(refs', r, e, None)
    <2>1. \A x, y : (x = y => x = None) => Less(Released(r, <<x>>), r, x, None)
      BY <1>4, <1>12, GivenBack
    <2>2. Less(Released(r, <<e>>), r, e, None)
      <3>1. PICK y : y # e
        OBVIOUS
      <3> QED  BY <2>1, <3>1
    <2> QED  BY <1>7, <1>11, <2>2
  <1>14. ASSUME NEW b \in Blocks
         PROVE  refs'[b] >= refs[b] - Needs(who[l], b) + Needs(who'[l], b)
    <2>1. refs'[b] = refs[b] + Is(n, b) - Is(e, b)
      BY <1>4, <1>12, <1>13 DEF Less, Is
    <2>2. Needs(who[l], b) = Is(w.mountinfo, b) + Is(e, b)
      BY <1>6 DEF Needs, One, Is
    <2>3. Needs(v, b) <= Is(w.mountinfo, b) + Is(n, b) /\ Needs(v, b) \in Int
      BY <1>4, <1>8 DEF Needs, One, Is, Extra
    <2>4. Is(n, b) \in Int /\ Is(e, b) \in Int /\ Is(w.mountinfo, b) \in Int /\ refs[b] \in Int
      BY <1>12 DEF Is
    <2> QED  BY <1>10, <2>1, <2>2, <2>3, <2>4
  <1>15. SettingsHeld'
    BY <1>10, <1>13, <1>14, HeldStep DEF LInv, ListeningSound, Less
  <1>16. Base'
    BY <1>7, <1>9, <1>10, <1>13, BaseStep DEF LInv, Base, Typed, Less
  <1>17. ListenersCounted' /\ MountRules'
    BY <1>7, <1>8, <1>10, NoPlace, RulesKept DEF LInv, ListeningSound
  <1> QED  BY <1>15, <1>16, <1>17 DEF LInv, ListeningSound

LEMMA NoStreamStep ==
  ASSUME LInv, NEW l \in Listeners, NoStream(l)
  PROVE  LInv'
  <1>1. who[l].at = "look" /\ UNCHANGED <<setup, available, listeners>>
    BY DEF NoStream
  <1>2. CASE who[l].minfo = None \/ Of(who[l].minfo).fallback = None
    BY <1>1, <1>2, TryFileStep DEF NoStream
  <1>3. CASE ~(who[l].minfo = None \/ Of(who[l].minfo).fallback = None)
    BY <1>1, <1>3, GoOnStep DEF NoStream
  <1> QED  BY <1>2, <1>3

(* The fallback of a full mountpoint is tried with its own settings: they  *)
(* are those asked for, as PassesOnFirst says.                             *)
LEMMA TryFallbackStep ==
  ASSUME LInv, NEW l \in Listeners, who[l].at = "look", TryFallback(l, who[l]), ~Within(who[l]),
         who[l].minfo # None, Of(who[l].minfo).overflow, Of(who[l].minfo).fallback # None,
         UNCHANGED <<setup, available>>
  PROVE  LInv'
  <1> DEFINE w == who[l]
  <1>1. w \in Person /\ Sane(w) /\ w.minfo \in Blocks /\ w.mountinfo \in Blocks
    BY DEF LInv, Base, Typed, Person, Within
  <1>2. Extra(w) = None
    <2>1. SUFFICES ASSUME Extra(w) # None PROVE FALSE
      OBVIOUS
    <2>2. w.minfo # w.mountinfo
      BY <2>1 DEF Extra
    <2>3. PICK d \in Blocks : Of(d).fallback # None /\ SettingsOf(Of(d).fallback) = w.minfo
      BY <1>1, <2>1 DEF Sane
    <2>4. Of(w.mountinfo).max # -1
      BY DEF Within
    <2>5. setup \in Setups /\ PassesOnFirst
      BY DEF LInv, Base, Typed, Fit
    <2>6. setup.block[Of(d).fallback] = w.minfo
      BY <2>3 DEF SettingsOf
    <2> QED  BY <1>1, <2>2, <2>3, <2>4, <2>5, <2>6 DEF PassesOnFirst, Blocks, Of
  <1>3. PICK v : v = [w EXCEPT !.mount = Of(w.minfo).fallback, !.loop = @ - 1]
    OBVIOUS
  <1>4. /\ v \in Person /\ v.at = "look" /\ v.asked = w.asked /\ v.mount \in Mounts
        /\ v.mountinfo = w.mountinfo /\ v.minfo = w.minfo
    <2>1. Of(w.minfo).fallback \in Mounts /\ w.loop - 1 \in Int
      BY <1>1, Settings DEF LInv, Person
    <2>2. v \in Person
      BY <1>1, <1>3, <2>1 DEF Person
    <2> QED  BY <1>1, <1>3, <2>1, <2>2 DEF Person
  <1>5. Sane(v)
    BY <1>1, <1>4 DEF Sane, Extra
  <1>6. /\ who' = [who EXCEPT ![l] = v] /\ refs' = Released(refs, <<None>>)
        /\ UNCHANGED <<listeners, total>>
    BY <1>2, <1>3 DEF TryFallback
  <1>7. AloneMoves(l) /\ who' \in [Listeners -> Person] /\ who'[l] = v
    BY <1>4, <1>6, OneIs DEF LInv
  <1>8. Less(refs', refs, None, None)
    <2>1. Less(Released(refs, <<None>>), refs, None, None)
      BY RefsBack DEF LInv, ListeningSound
    <2> QED  BY <1>6, <2>1
  <1>9. ASSUME NEW b \in Blocks
        PROVE  refs'[b] >= refs[b] - Needs(who[l], b) + Needs(who'[l], b)
    <2>1. Needs(who[l], b) = Needs(who'[l], b) /\ Needs(who[l], b) \in Int
      BY <1>4, <1>7 DEF Needs, One, Extra
    <2>2. refs'[b] = refs[b] /\ refs[b] \in Int
      BY <1>8, Apiece DEF Less, Is, LInv, ListeningSound
    <2> QED  BY <2>1, <2>2
  <1>10. SettingsHeld'
    BY <1>7, <1>8, <1>9, HeldStep DEF LInv, ListeningSound, Less
  <1>11. Base'
    BY <1>5, <1>6, <1>7, <1>8, BaseStep DEF LInv, Base, Typed, Less
  <1>12. ListenersCounted' /\ MountRules'
    BY <1>4, <1>6, <1>7, NoPlace, RulesKept DEF LInv, ListeningSound
  <1> QED  BY <1>10, <1>11, <1>12 DEF LInv, ListeningSound

(* A listener comes straight to the mountpoint it asked for, which has     *)
(* room and no other of its account.                                       *)
LEMMA StraightStep ==
  ASSUME Base, MountRules, NEW l \in Listeners, AloneMoves(l), setup' = setup,
         ListenersCounted, ListenersCounted',
         who[l].at = "look", who'[l].asked = who[l].asked, who'[l].user = who[l].user,
         who'[l].mount = who[l].mount, who[l].mount = who[l].asked, ~who[l].slave,
         Within(who[l]), ~(Duplicate(l) /\ Of(who[l].mountinfo).auth = "deny"),
         listeners' = [listeners EXCEPT ![who[l].mount] = @ + 1]
  PROVE  MountRules'
  <1> DEFINE m == who[l].asked
  <1>1. m \in Mounts /\ who[l].mountinfo = SettingsOf(m)
    BY DEF Base, Sane
  <1>2. \A n \in Mounts : SettingsOf(n)' = SettingsOf(n)
    BY DEF SettingsOf
  <1>3. ASSUME NEW n \in Mounts
        PROVE  /\ Straight(n)' \subseteq Straight(n) \cup {l}
               /\ n # m => Straight(n)' \subseteq Straight(n)
               /\ Straight(n)' \subseteq On(n)' /\ Straight(n) \subseteq On(n)
               /\ \A k \in Straight(n)' : who'[k].user = who[k].user
    BY DEF Straight, On, AloneMoves
  <1>4. ASSUME NEW n \in Mounts
        PROVE  /\ IsFiniteSet(On(n)') /\ IsFiniteSet(Straight(n))
               /\ Cardinality(Straight(n)') \in Nat /\ Cardinality(Straight(n)) \in Nat
               /\ Cardinality(Straight(n)') <= Cardinality(On(n)') /\ Cardinality(On(n)') \in Nat
               /\ n # m => Cardinality(Straight(n)') <= Cardinality(Straight(n))
    <2>1. IsFiniteSet(On(n)') /\ IsFiniteSet(Straight(n))
      BY FS_Subset DEF Base, Fit, Straight, On
    <2> QED  BY <1>3, <2>1, FS_Subset, FS_CardinalityType
  <1> SUFFICES ASSUME NEW n \in Mounts, SettingsOf(n) # None
               PROVE  /\ Of(SettingsOf(n)).max # -1 => Cardinality(Straight(n)') <= Of(SettingsOf(n)).max
                      /\ Of(SettingsOf(n)).auth = "deny" =>
                           \A j, k \in Straight(n)' : j # k => who'[j].user = None \/ who'[j].user # who'[k].user
    BY <1>2 DEF MountRules, Of
  <1>5. Of(SettingsOf(n)).max \in Int
    BY DEF Base, Fit, Typed, SetupsFit, SettingsOf, Of, Blocks
  <1>6. CASE n # m
    BY <1>3, <1>4, <1>5, <1>6 DEF MountRules
  <1>7. CASE n = m
    <2>1. ASSUME Of(SettingsOf(n)).max # -1
          PROVE  Cardinality(Straight(n)') <= Of(SettingsOf(n)).max
      <3>1. listeners[n] < Of(SettingsOf(n)).max
        BY <1>1, <1>7, <2>1 DEF Within
      <3>2. listeners'[n] = listeners[n] + 1 /\ listeners[n] \in Int
        BY <1>7 DEF Base, Typed
      <3>3. listeners'[n] = Cardinality(On(n)')
        BY DEF ListenersCounted
      <3> QED  BY <1>4, <1>5, <3>1, <3>2, <3>3
    <2>2. ASSUME Of(SettingsOf(n)).auth = "deny", NEW j \in Straight(n)', NEW k \in Straight(n)', j # k
          PROVE  who'[j].user = None \/ who'[j].user # who'[k].user
      <3>1. ASSUME NEW i \in Straight(n), who[l].user # None PROVE who[i].user # who[l].user
        BY <1>1, <1>7, <2>2, <3>1 DEF Duplicate, Checks, SameUser, Straight
      <3>2. who'[j].user = who[j].user /\ who'[k].user = who[k].user
        BY <1>3
      <3>3. (j = l \/ j \in Straight(n)) /\ (k = l \/ k \in Straight(n))
        BY <1>3
      <3>4. j \in Straight(n) /\ k \in Straight(n) => who[j].user = None \/ who[j].user # who[k].user
        BY <2>2 DEF MountRules
      <3> QED  BY <2>2, <3>1, <3>2, <3>3, <3>4
    <2> QED  BY <2>1, <2>2
  <1> QED  BY <1>6, <1>7

LEMMA PlaceStep ==
  ASSUME LInv, NEW l \in Listeners, who[l].at = "look", Place(l, who[l]),
         \/ who[l].slave
         \/ Within(who[l]) /\ ~(Duplicate(l) /\ Of(who[l].mountinfo).auth = "deny"),
         UNCHANGED <<setup, available>>
  PROVE  LInv'
  <1> DEFINE w == who[l]
  <1>1. CASE Full
    BY <1>1, EndStep DEF Place, Places
  <1>2. CASE ~Full
    <2>1. w \in Person /\ total \in Int /\ listeners \in [Mounts -> Int] /\ w.mount \in Mounts
      BY DEF LInv, Base, Typed, Sane
    <2>2. /\ Listens(w, "stream") \in Person /\ Listens(w, "stream").at = "stream"
          /\ Listens(w, "stream").mount = w.mount /\ Listens(w, "stream").asked = w.asked
          /\ Listens(w, "stream").slave = w.slave /\ Listens(w, "stream").user = w.user
      BY <2>1, ListensPerson DEF Places
    <2>3. /\ refs' = Released(refs, <<w.mountinfo, Extra(w)>>)
          /\ listeners' = [listeners EXCEPT ![w.mount] = @ + 1] /\ total' = total + 1
      BY <1>2 DEF Place
    <2>4. AloneMoves(l) /\ who' \in [Listeners -> Person] /\ who'[l] = Listens(w, "stream")
      <3>1. ASSUME NEW k \in Listeners PROVE who[k] \in Person /\ [who[k] EXCEPT !.error = TRUE] \in Person
        BY DEF LInv, Base, Typed, Person
      <3>2. PICK o : o = First(SameUser(l, w.mount))
        OBVIOUS
      <3>3. who' = [k \in Listeners |->
                      IF k = l THEN Listens(w, "stream")
                      ELSE IF Duplicate(l) /\ k = o THEN [who[k] EXCEPT !.error = TRUE] ELSE who[k]]
        BY <1>2, <3>2 DEF Place
      <3>4. who'[l] = Listens(w, "stream") /\ who' \in [Listeners -> Person]
        BY <2>2, <3>1, <3>3
      <3>5. ASSUME NEW k \in Listeners, k # l
            PROVE  who'[k] = who[k] \/ who'[k] = [who[k] EXCEPT !.error = TRUE]
        BY <3>3, <3>5
      <3>6. AloneMoves(l)
        <4> SUFFICES ASSUME NEW k \in Listeners \ {l}
                     PROVE  /\ who'[k].at = who[k].at /\ who'[k].mount = who[k].mount
                            /\ who'[k].mountinfo = who[k].mountinfo /\ who'[k].minfo = who[k].minfo
                            /\ who'[k].back = who[k].back /\ who'[k].in = who[k].in
                            /\ who'[k].asked = who[k].asked /\ who'[k].slave = who[k].slave
                            /\ who'[k].moved = who[k].moved /\ who'[k].user = who[k].user
          BY DEF AloneMoves
        <4>1. CASE who'[k] = who[k]
          BY <4>1
        <4>2. CASE who'[k] = [who[k] EXCEPT !.error = TRUE]
          BY <3>1, <4>2 DEF Person
        <4> QED  BY <3>5, <4>1, <4>2
      <3> QED  BY <3>4, <3>6
    <2>5. SettingsHeld' /\ refs' \in [Blocks -> Int]
      BY <2>2, <2>3, <2>4, AllBack DEF LInv, ListeningSound
    <2>6. listeners' \in [Mounts -> Int] /\ total' \in Int
      BY <2>1, <2>3
    <2>7. Base'
      <3>1. Sane(who'[l])
        BY <2>1, <2>2, <2>4 DEF Sane
      <3> QED  BY <2>4, <2>5, <2>6, <3>1, BaseStep DEF LInv, Base, Typed
    <2>8. ListenersCounted'
      <3>1. \A m \in Mounts : listeners'[m] = listeners[m] - One(OnIt(who[l], m)) + One(OnIt(who'[l], m))
        BY <2>1, <2>2, <2>3, <2>4 DEF OnIt, One
      <3>2. total' >= total - One(Filed(who[l])) + One(Filed(who'[l]))
        BY <2>1, <2>2, <2>3, <2>4 DEF Filed, One
      <3>3. MaxListeners # 0 => total' <= MaxListeners
        BY <1>2, <2>1, <2>3 DEF Full, LInv, Base, Fit
      <3> QED  BY <2>4, <2>6, <3>1, <3>2, <3>3, CountStep DEF LInv, ListeningSound
    <2>9. MountRules'
      <3>1. CASE w.asked = w.mount /\ ~w.slave
        BY <2>2, <2>3, <2>4, <2>8, <3>1, StraightStep DEF LInv, ListeningSound
      <3>2. CASE w.asked # w.mount \/ w.slave
        BY <2>2, <2>4, <3>2, RulesKept DEF LInv, ListeningSound
      <3> QED  BY <3>1, <3>2
    <2> QED  BY <2>5, <2>7, <2>8, <2>9 DEF LInv, ListeningSound
  <1> QED  BY <1>1, <1>2

LEMMA StreamStep ==
  ASSUME LInv, NEW l \in Listeners, Stream(l)
  PROVE  LInv'
  <1> DEFINE w == who[l]
  <1>1. w.at = "look" /\ UNCHANGED <<setup, available>>
    BY DEF Stream
  <1>2. \/ \E how \in {"refused", "answered"} : Ends(l, w, how) /\ UNCHANGED <<listeners, total>>
        \/ Place(l, w) /\ (w.slave \/ (Within(w) /\ ~(Duplicate(l) /\ Of(w.mountinfo).auth = "deny")))
        \/ /\ TryFallback(l, w) /\ ~Within(w)
           /\ w.minfo # None /\ Of(w.minfo).overflow /\ Of(w.minfo).fallback # None
    BY DEF Stream
  <1>3. ASSUME NEW how \in {"refused", "answered"}, Ends(l, w, how), UNCHANGED <<listeners, total>> PROVE LInv'
    BY <1>1, <1>3, EndStep DEF Places
  <1> QED  BY <1>1, <1>2, <1>3, PlaceStep, TryFallbackStep

-------------------------------------------------------------------------------
LEMMA LInvInit == Fit /\ Init => LInv
  <1> SUFFICES ASSUME Fit, Init PROVE LInv
    OBVIOUS
  <1>1. NewListener \in Person /\ NewListener.at = "new" /\ Sane(NewListener)
    BY DEF Fit, NewListener, Person, Places, Sane
  <1>2. Base
    BY <1>1 DEF Init, Base, Typed, Blocks
  <1>3. \A l \in Listeners : who[l].at = "new"
    BY <1>1 DEF Init
  <1>4. ASSUME NEW b \in Blocks PROVE Looks(b) = {} /\ Extras(b) = {} /\ refs[b] = 1
    BY <1>3 DEF Looks, Extras, Init
  <1>5. SettingsHeld
    <2>1. ASSUME NEW b \in Blocks PROVE Cardinality(Looks(b)) = 0 /\ Cardinality(Extras(b)) = 0 /\ refs[b] = 1
      BY <1>4, FS_EmptySet
    <2> QED  BY <2>1 DEF SettingsHeld, Looks, Extras
  <1>6. ASSUME NEW m \in Mounts PROVE On(m) = {} /\ Straight(m) = {} /\ listeners[m] = 0
    BY <1>3 DEF On, Straight, Init
  <1>7. Known = {} /\ total = 0 /\ MaxListeners \in Nat
    BY <1>3 DEF Known, Filed, Init, Fit
  <1>8. ListenersCounted
    <2>1. ASSUME NEW m \in Mounts PROVE listeners[m] = Cardinality(On(m))
      BY <1>6, FS_EmptySet
    <2>2. Cardinality(Known) = 0
      BY <1>7, FS_EmptySet
    <2> QED  BY <1>7, <2>1, <2>2 DEF ListenersCounted, Known, Filed
  <1>9. MountRules
    <2> SUFFICES ASSUME NEW m \in Mounts, SettingsOf(m) # None
                 PROVE  /\ Of(SettingsOf(m)).max # -1 => Cardinality(Straight(m)) <= Of(SettingsOf(m)).max
                        /\ Of(SettingsOf(m)).auth = "deny" =>
                             \A j, k \in Straight(m) : j # k => who[j].user = None \/ who[j].user # who[k].user
      BY DEF MountRules
    <2>1. Cardinality(Straight(m)) = 0 /\ Straight(m) = {}
      BY <1>6, FS_EmptySet
    <2>2. Of(SettingsOf(m)).max = -1 \/ Of(SettingsOf(m)).max >= 0
      <3>1. SettingsOf(m) \in Blocks
        BY <1>2, Settings
      <3> QED  BY <1>2, <3>1, Settings
    <2> QED  BY <2>1, <2>2
  <1> QED  BY <1>2, <1>5, <1>8, <1>9 DEF LInv, ListeningSound

LEMMA LInvStep == LInv /\ [Next]_admVars => LInv'
  <1> SUFFICES ASSUME LInv, [Next]_admVars PROVE LInv'
    OBVIOUS
  <1>1. CASE UNCHANGED admVars
    <2>1. Base'
      BY <1>1 DEF admVars, LInv, Base, Typed, Fit, SetupsFit, PassesOnFirst, Person, Blocks, Sane,
                  SettingsOf, Of, Extra
    <2>2. SettingsHeld'
      BY <1>1 DEF admVars, LInv, ListeningSound, SettingsHeld, Blocks, Extra
    <2>3. ListenersCounted'
      BY <1>1 DEF admVars, LInv, ListeningSound, ListenersCounted, On
    <2>4. MountRules'
      <3>1. setup' = setup /\ who' = who /\ MountRules
        BY <1>1 DEF admVars, LInv, ListeningSound
      <3>2. \A m \in Mounts : Straight(m)' = Straight(m) /\ SettingsOf(m)' = SettingsOf(m)
        BY <3>1 DEF On, Straight, SettingsOf
      <3> QED  BY <3>1, <3>2 DEF MountRules, Of
    <2> QED  BY <2>1, <2>2, <2>3, <2>4 DEF LInv, ListeningSound
  <1>2. ASSUME NEW l \in Listeners, NEW m \in Mounts, NEW u \in Users \cup {None},
               Ask(l, m, u, FALSE, FALSE) \/ Ask(l, m, None, TRUE, FALSE) \/ Ask(l, m, None, FALSE, TRUE)
        PROVE  LInv'
    BY <1>2, AskStep
  <1>3. ASSUME NEW l \in Listeners,
               \/ Authenticated(l) \/ TooManyLooks(l) \/ NoStream(l) \/ Stream(l)
               \/ Leave(l) \/ Gone(l) \/ Move(l)
        PROVE  LInv'
    BY <1>3, AuthenticatedStep, TooManyLooksStep, NoStreamStep, StreamStep, LeaveStep, GoneStep, MoveStep
  <1>4. ASSUME NEW m \in Mounts, SourceChanges(m) PROVE LInv'
    BY <1>4, SourceChangesStep
  <1> QED  BY <1>1, <1>2, <1>3, <1>4 DEF Next

(* source.c source_add_listener: for any setups that are Fit the settings  *)
(* looked at are counted, so are the listeners, and nobody gets past a     *)
(* limit or a login that is taken.                                         *)
THEOREM ListenersSafe == ASSUME Fit PROVE Spec => []ListeningSound
  <1>1. Init => LInv
    BY LInvInit
  <1>2. LInv => ListeningSound
    BY DEF LInv
  <1> QED  BY <1>1, <1>2, LInvStep, PTL DEF Spec
===============================================================================
