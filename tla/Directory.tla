------------------------------ MODULE Directory ------------------------------
(* The listing of streams in directory (YP) servers, src/src/yp.c.  Sources *)
(* queue changes, which a thread of its own applies to the entries of every *)
(* active server under the write lock; a client on a worker starts, when an *)
(* entry is due or something changed, the thread that talks to the servers  *)
(* under the read lock and then tidies the lists under the write lock.      *)
(* Times are kept as 0 (due), 1 and 2 (in seconds, in tens of minutes); the *)
(* counter of the client is the time of its next run, Never when none.      *)
(* The limit of 20 entries in a run and the texts sent are left out.        *)
EXTENDS Naturals, Sequences, SequencesExt, FiniteSets

CONSTANTS Streams, Servers, Listings,
          MaxQueued,     \* changes queued at a time
          MaxTurns       \* how often streams start and end, and the configuration changes

ASSUME ListsAssumption ==
    /\ IsFiniteSet(Streams) /\ IsFiniteSet(Servers) /\ IsFiniteSet(Listings)
    /\ MaxQueued \in Nat /\ MaxTurns \in Nat

VARIABLES public, turns, queue, batch, listing, active, joining, doomed, update, counter, ypclient, todo, failed
lists == <<public, turns, queue, batch, listing, active, joining, doomed, update, counter,
             ypclient, todo, failed>>

Never == 3
Earliest(a, b) == IF a < b THEN a ELSE b
Unlisted == [at |-> "free", stream |-> "none", server |-> "none", next |-> 0, process |-> "add",
             sid |-> FALSE, release |-> FALSE, remove |-> FALSE]

ListsInit ==
    /\ public = [m \in Streams |-> FALSE] /\ turns = 0
    /\ queue = <<>> /\ batch = <<>>
    /\ listing = [l \in Listings |-> Unlisted]
    /\ active = <<>> /\ joining \in SUBSET Servers /\ doomed = {}
    /\ update = TRUE /\ counter = 0
    /\ ypclient = (IF joining = {} THEN "absent" ELSE "polls")
    /\ todo = {} /\ failed = {}

EntriesOf(s, at) == {l \in Listings : listing[l].at = at /\ listing[l].server = s}
Due(l) == listing[l].next = 0
SourcesIdle == UNCHANGED <<public, turns, queue, batch>>

(* yp_add, yp_remove and yp_touch queue a change                            *)
Queued(kind, m) == /\ Len(queue) < MaxQueued
                   /\ queue' = Append(queue, [kind |-> kind, stream |-> m])
Publishes(m) ==
    /\ turns < MaxTurns /\ turns' = turns + 1
    /\ public' = [public EXCEPT ![m] = ~@]
    /\ Queued(IF public[m] THEN "remove" ELSE "add", m)
    /\ UNCHANGED <<batch, listing, active, joining, doomed, update, counter, ypclient, todo, failed>>
Retitles(m) ==
    /\ public[m] /\ queue = <<>> /\ Queued("touch", m)
    /\ UNCHANGED <<public, turns, batch, listing, active, joining, doomed, update, counter, ypclient,
                   todo, failed>>

(* yp_pending_update: the whole list is detached, then applied              *)
Detaches ==
    /\ batch = <<>> /\ queue # <<>>
    /\ batch' = queue /\ queue' = <<>>
    /\ UNCHANGED <<public, turns, listing, active, joining, doomed, update, counter, ypclient, todo, failed>>

(* Memory for new entries: it does not matter which                         *)
Memory(S, unused) ==
    CHOOSE pick \in [S -> unused] : \A s, t \in S : s # t => pick[s] # pick[t]

(* create_yp_entry for the servers in need, one unused listing for each     *)
Made(m, servers, at, next) ==
    LET unused == {l \in Listings : listing[l].at = "free"} IN
    /\ Cardinality(servers) <= Cardinality(unused)
    /\ LET pick == Memory(servers, unused) IN
       listing' = [l \in Listings |->
             IF \E s \in servers : pick[s] = l
             THEN [Unlisted EXCEPT !.at = at, !.stream = m, !.next = next,
                                   !.server = CHOOSE s \in servers : pick[s] = l]
             ELSE listing[l]]
Has(s, m) == \E l \in EntriesOf(s, "listed") : listing[l].stream = m
AddCallback(m) ==
    LET needs == {s \in Range(active) : ~Has(s, m)} IN
    /\ Made(m, needs, "pending", 1)
    /\ update' = (update \/ needs # {}) /\ UNCHANGED counter
EntriesKept(m) ==
    {l \in Listings : /\ listing[l].at = "listed" /\ listing[l].stream = m
                      /\ listing[l].server \in Range(active)
                      /\ ~listing[l].release /\ ~listing[l].remove}
RemoveCallback(m) ==
    /\ listing' = [l \in Listings |-> IF l \in EntriesKept(m)
                     THEN [listing[l] EXCEPT !.release = TRUE, !.next = 0] ELSE listing[l]]
    /\ update' = (update \/ EntriesKept(m) # {}) /\ UNCHANGED counter
(* A fault: the entry is brought forward but not the next run               *)
TouchCallback_NoSchedule(m) ==
    \E when \in {0, 1} :
        LET sooner == {l \in EntriesKept(m) : listing[l].process = "touch" /\ ~Due(l)} IN
        /\ listing' = [l \in Listings |-> IF l \in sooner
                         THEN [listing[l] EXCEPT !.next = when] ELSE listing[l]]
        /\ UNCHANGED <<counter, update>>

(* A touch not due soon is brought forward: at once, or to half a minute    *)
TouchCallback(m) ==
    \E when \in {0, 1} :
        LET sooner == {l \in EntriesKept(m) : listing[l].process = "touch" /\ ~Due(l)} IN
        /\ listing' = [l \in Listings |-> IF l \in sooner
                         THEN [listing[l] EXCEPT !.next = when] ELSE listing[l]]
        /\ counter' = IF sooner = {} THEN counter ELSE Earliest(counter, when)
        /\ UNCHANGED update
(* The write lock is not free while the thread talks to the servers         *)
Applies ==
    /\ batch # <<>> /\ ypclient # "talks"
    /\ LET c == Head(batch) IN
       CASE c.kind = "add"    -> AddCallback(c.stream)
         [] c.kind = "remove" -> RemoveCallback(c.stream)
         [] c.kind = "touch"  -> TouchCallback(c.stream)
    /\ batch' = Tail(batch)
    /\ UNCHANGED <<public, turns, queue, active, joining, doomed, ypclient, todo, failed>>

(* directory_recheck on a worker.  Only the first server's entries count    *)
Starts ==
    /\ ypclient = "polls"
    /\ update \/ (active # <<>> /\ EntriesOf(active[1], "listed") # {} /\ counter = 0)
    /\ counter' = Never /\ ypclient' = "talks"
    /\ todo' = {l \in Listings : listing[l].at = "listed" /\ listing[l].server \in Range(active)}
    /\ failed' = {}
    /\ SourcesIdle /\ UNCHANGED <<listing, active, joining, doomed, update>>
ClientEnds ==
    /\ ypclient = "polls" /\ active = <<>> /\ ~update
    /\ ypclient' = "ending"
    /\ SourcesIdle /\ UNCHANGED <<listing, active, joining, doomed, update, counter, todo, failed>>
Ended ==
    /\ ypclient = "ending" /\ ypclient' = "absent"
    /\ SourcesIdle /\ UNCHANGED <<listing, active, joining, doomed, update, counter, todo, failed>>

(* What do_yp_add, do_yp_touch and do_yp_remove leave of an entry, by what  *)
(* send_to_yp made of the server's answer                                   *)
Answers == {"ok", "refused", "down"}
(* A fault: an entry is kept when the server did not take its removal       *)
Sent_KeepsRefused(l, answer) ==
    LET e == listing[l] IN
    IF e.release THEN
        {IF answer = "ok" THEN [e EXCEPT !.sid = FALSE, !.remove = TRUE, !.next = 0]
                          ELSE [e EXCEPT !.next = 0]}
    ELSE IF e.process = "touch" /\ ~e.sid THEN {[e EXCEPT !.process = "add", !.next = 1]}
    ELSE IF answer = "down" THEN {[e EXCEPT !.process = "add", !.next = 2]}
    ELSE {[e EXCEPT !.process = "touch", !.next = 1, !.sid = TRUE]}

Sent(l, answer) ==
    LET e == listing[l] IN
    IF e.release THEN
        {[e EXCEPT !.sid = FALSE, !.remove = TRUE, !.process = "add",
                   !.next = IF e.sid /\ answer = "down" THEN 2 ELSE 0]}
    ELSE IF e.process = "touch" /\ ~e.sid THEN {[e EXCEPT !.process = "add", !.next = 1]}
    ELSE CASE answer = "ok" -> IF e.process = "touch" THEN {[e EXCEPT !.next = 1]}
                               ELSE {[e EXCEPT !.process = "touch", !.next = 1, !.sid = sid] :
                                        sid \in {e.sid, TRUE}}
           [] answer = "refused" -> {[e EXCEPT !.process = "add", !.sid = FALSE, !.next = 2],
                                     [e EXCEPT !.next = 1]}  \* the stats it needs are not there yet
           [] answer = "down" -> {[e EXCEPT !.process = "add", !.next = 2]}
(* yp_process_server: once a server cannot be reached the rest of its       *)
(* entries are put off                                                      *)
Process(l) ==
    /\ ypclient = "talks" /\ l \in todo
    /\ todo' = todo \ {l}
    /\ \E answer \in Answers :
       LET s == listing[l].server  skip == s \in failed
           asks == ~skip /\ Due(l)
           (* a removal, an absent session or the missing stats need no server *)
           down == asks /\ answer = "down" /\ (listing[l].release => listing[l].sid)
                        /\ (listing[l].process = "touch" => listing[l].sid \/ listing[l].release)
       IN \E e \in IF skip THEN {[listing[l] EXCEPT !.process = "add", !.next = 1]}
                   ELSE IF asks THEN Sent(l, answer) ELSE {listing[l]} :
             /\ ~asks => answer = "ok"
             /\ listing' = [listing EXCEPT ![l] = e]
             /\ failed' = IF down THEN failed \cup {s} ELSE failed
             /\ update' = (update \/ (e.remove /\ asks))
             /\ counter' = IF e.remove THEN counter ELSE Earliest(counter, e.next)
    /\ SourcesIdle /\ UNCHANGED <<active, joining, doomed, ypclient>>
Talked ==
    /\ ypclient = "talks" /\ todo = {} /\ ypclient' = "tidies"
    /\ SourcesIdle /\ UNCHANGED <<listing, active, joining, doomed, update, counter, todo, failed>>

(* The active servers that do not go, in their order                        *)
Staying ==
    LET staying[i \in 0..Len(active)] ==
          IF i = 0 THEN <<>>
          ELSE IF active[i] \in doomed THEN staying[i - 1] ELSE Append(staying[i - 1], active[i])
    IN staying[Len(active)]

(* check_servers, add_pending_yp and delete_marked_yp under the write lock: *)
(* the entries of a server that goes are lost; a new server gets those of   *)
(* the public streams                                                       *)
Tidies ==
    /\ ypclient = "tidies" /\ ypclient' = "polls"
    /\ IF ~update THEN UNCHANGED <<listing, active, joining, doomed, counter, update>> ELSE
       LET kept == Staying
           need == joining \X {m \in Streams : public[m]}
           gone(l) == listing[l].at # "free" /\ (listing[l].server \in doomed
                        \/ (listing[l].at = "listed" /\ listing[l].remove))
           unused == {l \in Listings : listing[l].at = "free"}
           waiting == {l \in Listings : listing[l].at = "pending" /\ listing[l].server \in Range(kept)} IN
       /\ active' = SetToSeq(joining) \o kept
       /\ joining' = {} /\ doomed' = {} /\ update' = FALSE
       /\ Cardinality(need) <= Cardinality(unused)
       /\ \E when \in {0, 1} : LET pick == Memory(need, unused) IN
           /\ listing' = [l \in Listings |->
                IF \E p \in need : pick[p] = l
                THEN LET p == CHOOSE p \in need : pick[p] = l IN
                     [Unlisted EXCEPT !.at = "listed", !.server = p[1], !.stream = p[2], !.next = when]
                ELSE IF gone(l) THEN Unlisted
                ELSE IF l \in waiting THEN [listing[l] EXCEPT !.at = "listed"] ELSE listing[l]]
           /\ counter' = IF waiting # {} THEN 0
                         ELSE IF need # {} THEN Earliest(counter, when) ELSE counter
    /\ SourcesIdle /\ UNCHANGED <<todo, failed>>

(* yp_recheck_config; with no server active it also puts the client back on *)
(* a worker, if it is on none.  A second thread, from a reload during the   *)
(* very first run, is left out                                              *)
Reconfigured ==
    /\ turns < MaxTurns /\ turns' = turns + 1
    /\ ypclient # "talks" /\ (ypclient = "tidies" => active # <<>>)
    /\ \E wanted \in SUBSET Servers :
        /\ wanted # Range(active) \cup joining
        /\ doomed' = Range(active) \ wanted
        /\ joining' = joining \cup (wanted \ Range(active))
        /\ ypclient' = IF ypclient = "absent" /\ wanted # {} /\ active = <<>> THEN "polls" ELSE ypclient
        /\ counter' = IF wanted # {} /\ active = <<>> THEN 0 ELSE counter
    /\ update' = TRUE
    /\ UNCHANGED <<public, queue, batch, listing, active, todo, failed>>

TimePasses ==
    /\ counter \notin {0, Never} \/ \E l \in Listings : listing[l].at = "listed" /\ ~Due(l)
    /\ ypclient # "talks"
    /\ listing' = [l \in Listings |-> [listing[l] EXCEPT !.next = IF @ = 0 THEN 0 ELSE @ - 1]]
    /\ counter' = IF counter \in {0, Never} THEN counter ELSE counter - 1
    /\ SourcesIdle /\ UNCHANGED <<active, joining, doomed, update, ypclient, todo, failed>>

ThreadStep == Starts \/ Talked \/ Tidies \/ \E l \in Listings : Process(l)
ListsNext == \/ \E m \in Streams : Publishes(m) \/ Retitles(m)
             \/ Detaches \/ Applies \/ ThreadStep \/ ClientEnds \/ Ended \/ Reconfigured \/ TimePasses
ListsSpec == ListsInit /\ [][ListsNext]_lists /\ WF_lists(ThreadStep) /\ WF_lists(TimePasses)
                       /\ WF_lists(Detaches \/ Applies)

------------------------------------------------------------------------------
ListsTypeOK ==
    /\ public \in [Streams -> BOOLEAN] /\ turns \in 0..MaxTurns
    /\ queue \in Seq([kind : {"add", "remove", "touch"}, stream : Streams])
    /\ batch \in Seq([kind : {"add", "remove", "touch"}, stream : Streams])
    /\ listing \in [Listings -> [at : {"free", "pending", "listed"}, stream : Streams \cup {"none"},
           server : Servers \cup {"none"}, next : 0..2, process : {"add", "touch"},
           sid : BOOLEAN, release : BOOLEAN, remove : BOOLEAN]]
    /\ joining \subseteq Servers /\ doomed \subseteq Servers /\ update \in BOOLEAN
    /\ counter \in 0..Never /\ ypclient \in {"absent", "polls", "ending", "talks", "tidies"}
    /\ active \in Seq(Servers) /\ todo \subseteq Listings

(* Between two runs no entry waits longer than the client: whoever made,    *)
(* hurried, put off or moved an entry, the next run is due no later than it *)
(* is, unless a run comes anyway.  (One released between the two locks of   *)
(* the thread does wait: Tidies clears the update it set.)                  *)
InTime ==
    ypclient # "talks" /\ ~update => \A s \in Range(active) : \A l \in EntriesOf(s, "listed") :
        ~listing[l].remove /\ ~listing[l].release => counter <= listing[l].next

(* No entry is due before the next run of the directory thread, whoever     *)
(* made, hurried, put off or moved it (yp.c directory_recheck)              *)
RunInTime == ListsTypeOK /\ InTime

(* An entry released when its stream ended goes in the end, though servers  *)
(* refuse or cannot be reached, as long as the server that was added last   *)
(* has an entry: without one nothing but a change starts a run              *)
FirstHasEntry == active # <<>> /\ EntriesOf(active[1], "listed") # {}
ReleasedGoes ==
    \A l \in Listings : (listing[l].release /\ []FirstHasEntry) ~> ~listing[l].release
(* "Mark any existing entry in the YP list to be marked for deletion"       *)
(* (yp.c:1277): once all is quiet no stream that ended is left listed       *)
NoneLeftListed ==
    queue = <<>> /\ batch = <<>> /\ ypclient = "polls" /\ ~update =>
        \A l \in Listings : listing[l].at = "listed" /\ ~listing[l].release
                            /\ listing[l].server \in Range(active)
                              => public[listing[l].stream]
==============================================================================
