------------------------------- MODULE BanList -------------------------------
(***************************************************************************)
(* The list of banned addresses: read from the ban file, added to when an  *)
(* authenticator bans a client for a time, searched for every connection.  *)
(* It is an AVL tree whose comparison function notes, on the way, up to    *)
(* MaxNoted other entries whose time is long over; the search then deletes *)
(* those, and every deletion walks the tree and notes more.  The list of   *)
(* addresses that skip a stream's intro (listener_check_intro) is kept the *)
(* same way.  All of it is under global_lock; a search is several steps    *)
(* here only because each walk may take any path of the tree.              *)
(*                                                                         *)
(* A walk for a key visits entries of which each lies between the key and  *)
(* the ones before it; at most MaxDepth of them, the height of the tree.   *)
(***************************************************************************)
EXTENDS Integers, Sequences, FiniteSets, FiniteSetsExt, SequencesExt

CONSTANTS
  Addresses,          \* addresses, integers in strcmp order
  Nodes,              \* memory for entries
  Twice,              \* whether an address may be banned again while it is listed
  MaxNoted,           \* size of deletions[]: 9
  MaxDepth,           \* bound: height of the tree
  MaxTime,            \* bound: time
  Recheck, Lag, Extend, Duration  \* 10, 60 and 300 s; ban_client of the mount

ASSUME BansAssumption ==
  /\ Addresses \subseteq Nat \ {0} /\ IsFiniteSet(Addresses)
  /\ IsFiniteSet(Nodes) /\ Cardinality(Addresses) <= Cardinality(Nodes)
  /\ Twice \in BOOLEAN /\ {MaxNoted, MaxDepth, MaxTime, Recheck, Lag, Extend, Duration} \subseteq Nat
  /\ Recheck <= Lag

VARIABLES
  now,
  file, changed,      \* addresses in the ban file, and whether it was written since
  file_recheck,       \* when the file is looked at again
  entry,              \* [Nodes -> [ip, timeout]], ip 0 when the node is free
  contents,           \* nodes in the tree
  deletions,          \* nodes noted, in order
  deleted,            \* how many of them the loop of a search is through with
  sought, freed_used  \* address being searched for or 0; whether a freed node was read

bans == <<now, file, changed, file_recheck, entry, contents, deletions,
          deleted, sought, freed_used>>

FreeEntry == [ip |-> 0, timeout |-> 0]

BansInit ==
  /\ now = 0 /\ file \in SUBSET Addresses /\ changed = TRUE /\ file_recheck = 0
  /\ entry = [n \in Nodes |-> FreeEntry] /\ contents = {} /\ deletions = <<>> /\ deleted = 0
  /\ sought = 0 /\ freed_used = FALSE

\* The paths a walk for ip may take; one that meets ip ends there, at the first of them.
Between(ip, n, m) == \/ entry[m].ip < entry[n].ip /\ ip <= entry[n].ip
                     \/ entry[m].ip >= entry[n].ip /\ ip > entry[n].ip
Paths(ip) ==
  {p \in UNION {[1..k -> contents] : k \in 0..MaxDepth} :
     /\ IsInjective(p) /\ (contents # {} => p # <<>>)
     /\ \A i \in DOMAIN p : \A j \in 1..(i - 1) :
          Between(ip, p[j], p[i]) /\ entry[p[j]].ip # ip
     /\ (\E n \in contents : entry[n].ip = ip) => entry[Last(p)].ip = ip}

\* A fault: permanent bans are taken for stale ones.
Noted_Permanent(ds, ip, p) ==
  LET stale(n) == entry[n].ip # ip /\ entry[n].timeout < file_recheck - Lag
      noted[i \in 0..Len(p)] ==
        IF i = 0 THEN ds
        ELSE IF stale(p[i]) /\ Len(noted[i - 1]) < MaxNoted THEN Append(noted[i - 1], p[i])
        ELSE noted[i - 1]
  IN noted[Len(p)]

\* A fault: the size of deletions[] is not looked at.
Noted_NoLimit(ds, ip, p) ==
  LET stale(n) == /\ entry[n].ip # ip /\ entry[n].timeout # 0
                  /\ entry[n].timeout < file_recheck - Lag
  IN ds \o SelectSeq(p, stale)

Stale(n, ip) ==
  entry[n].ip # ip /\ entry[n].timeout # 0 /\ entry[n].timeout < file_recheck - Lag
Noted(ds, ip, p) ==   \* compare_banned_ip along p
  LET noted[i \in 0..Len(p)] ==
        IF i = 0 THEN ds
        ELSE IF Stale(p[i], ip) /\ Len(noted[i - 1]) < MaxNoted THEN Append(noted[i - 1], p[i])
        ELSE noted[i - 1]
  IN noted[Len(p)]

Found(ip, p) == p # <<>> /\ entry[Last(p)].ip = ip

Removed(n) == /\ contents' = contents \ {n}
              /\ entry' = [entry EXCEPT ![n] = FreeEntry]

Inserted(ip, timeout) ==    \* add_banned_ip: an equal address is added again
  \E n \in Nodes \ contents :
    /\ n = CHOOSE m \in Nodes \ contents : TRUE
    /\ entry' = [entry EXCEPT ![n] = [ip |-> ip, timeout |-> timeout]]
    /\ contents' = contents \cup {n}

Ban(ip) ==                  \* connection_add_banned_ip
  /\ sought = 0 /\ file_recheck > 0
  /\ Twice \/ \A n \in contents : entry[n].ip # ip
  /\ Inserted(ip, now + Duration)      \* what its walk notes, the next search discards
  /\ UNCHANGED <<now, file, changed, file_recheck, deletions, deleted, sought, freed_used>>

Lift(ip) ==                 \* connection_release_banned_ip, of a banned client's end
  /\ sought = 0
  /\ \E p \in Paths(ip) :
       IF Found(ip, p) THEN Removed(Last(p)) ELSE UNCHANGED <<entry, contents>>
  /\ UNCHANGED <<now, file, changed, file_recheck, deletions, deleted, sought, freed_used>>

Rechecks ==                 \* cached_file_recheck, cached_prune
  /\ sought = 0 /\ now >= file_recheck
  /\ file_recheck' = now + Recheck /\ changed' = FALSE
  /\ IF ~changed THEN UNCHANGED <<entry, contents, deletions>>
     ELSE LET ips == SetToSeq(file) node == SetToSeq(Nodes) IN
          /\ entry' = [n \in Nodes |->
                         IF \E i \in DOMAIN ips : node[i] = n
                         THEN [ip |-> ips[CHOOSE i \in DOMAIN ips : node[i] = n], timeout |-> 0]
                         ELSE FreeEntry]
          /\ contents' = {node[i] : i \in DOMAIN ips}
          /\ UNCHANGED deletions
  /\ UNCHANGED <<now, file, deleted, sought, freed_used>>

Search(ip) ==               \* search_banned_ip_locked: the look up
  /\ sought = 0 /\ now < file_recheck
  /\ sought' = ip
  /\ \E p \in Paths(ip) :
       LET found == Noted(<<>>, ip, p) n == Last(p) IN
       IF ~Found(ip, p)
       THEN deletions' = found /\ UNCHANGED <<entry, contents>>
       ELSE IF entry[n].timeout = 0 \/ entry[n].timeout > now
       THEN /\ deletions' = found
            /\ entry' = [entry EXCEPT ![n].timeout =
                           IF @ # 0 /\ now + Extend > @ THEN now + Extend ELSE @]
            /\ UNCHANGED contents
       ELSE /\ Removed(n)   \* its time is over: a second walk
            /\ \E q \in Paths(ip) : deletions' = Noted(found, ip, q)
  /\ UNCHANGED <<now, file, changed, file_recheck, deleted, freed_used>>

Deletes ==                  \* one turn of its loop over deletions[]
  /\ sought # 0 /\ deleted < Len(deletions) /\ deleted' = deleted + 1
  /\ LET n == deletions[deleted + 1] IN
     IF n \notin contents
     THEN freed_used' = TRUE /\ UNCHANGED <<entry, contents, deletions>>
     ELSE \E p \in Paths(entry[n].ip) :
            /\ Removed(Last(p))
            /\ deletions' = Noted(deletions, entry[n].ip, p)
            /\ UNCHANGED freed_used
  /\ UNCHANGED <<now, file, changed, file_recheck, sought>>

SearchEnds ==
  /\ sought # 0 /\ deleted = Len(deletions)
  /\ sought' = 0 /\ deletions' = <<>> /\ deleted' = 0
  /\ UNCHANGED <<now, file, changed, file_recheck, entry, contents, freed_used>>

Edit ==                     \* the ban file is written
  /\ sought = 0 /\ file' \in SUBSET Addresses /\ changed' = TRUE
  /\ UNCHANGED <<now, file_recheck, entry, contents, deletions, deleted, sought, freed_used>>

Tick ==
  /\ sought = 0 /\ now < MaxTime /\ now' = now + 1
  /\ UNCHANGED <<file, changed, file_recheck, entry, contents, deletions, deleted, sought, freed_used>>

BansNext ==
  \/ \E ip \in Addresses : Ban(ip) \/ Lift(ip) \/ Search(ip)
  \/ Rechecks \/ Deletes \/ SearchEnds \/ Edit \/ Tick

BansSpec == BansInit /\ [][BansNext]_bans

----------------------------------------------------------------------------
BansTypeOK ==
  /\ now \in 0..MaxTime /\ file \subseteq Addresses /\ changed \in BOOLEAN
  /\ file_recheck \in Nat /\ contents \subseteq Nodes
  /\ entry \in [Nodes -> [ip : Addresses \cup {0}, timeout : Nat]]
  /\ deletions \in Seq(Nodes) /\ Len(deletions) <= MaxNoted
  /\ deleted \in 0..Len(deletions)
  /\ sought \in Addresses \cup {0} /\ freed_used \in BOOLEAN

Banned(ip) == \E n \in contents :
  entry[n].ip = ip /\ (entry[n].timeout = 0 \/ entry[n].timeout > now)

\* Searching, with all the deletions it makes on the way, never ends a ban that still
\* runs: only lifting it or reading the file anew does, and its own time; and it notes no
\* more entries than there is room for (search_banned_ip_locked, compare_banned_ip).
BansKept ==
  [][/\ Len(deletions') <= MaxNoted
     /\ sought # 0 \/ sought' # 0 => \A ip \in Addresses : Banned(ip) => Banned(ip)']_bans

\* A search reads only entries of the tree ("we may of seen others to remove").
NothingFreedUsed == ~freed_used
==============================================================================
