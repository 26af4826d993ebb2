------------------------------ MODULE Admission ------------------------------
(***************************************************************************)
(* How clients are let in: the listening sockets and the listener_t each   *)
(* belongs to, the connection thread that accepts and counts clients, the  *)
(* request each client makes, its end or its next turn when it is kept     *)
(* alive, and the reload of the settings (event_config_read) that closes   *)
(* and reopens the sockets while workers go on destroying clients.         *)
(*                                                                         *)
(* A listener_t is shared by the settings, by its socket and by every      *)
(* client that came through it, and is freed with the last of them.        *)
(* global_lock guards its count, except in connection_listen_sockets_close,*)
(* whose decrement is two steps here: read and write.                      *)
(***************************************************************************)
EXTENDS Integers, Sequences, FiniteSets, FiniteSetsExt, SequencesExt

CONSTANTS
  Ports,         \* ports the settings may name
  LowPorts,      \* those below 1024, kept open by a reload
  Conns,         \* client_t
  ListenSocks,   \* listener_t
  Nobody,        \* no client or listener
  ClientLimit,   \* config->client_limit
  MaxReloads,    \* bound: reloads of the settings
  SocketsFail    \* whether poll may report a listening socket broken

ASSUME DoorsAssumption ==
  /\ IsFiniteSet(Ports) /\ IsFiniteSet(ListenSocks) /\ IsFiniteSet(Conns)
  /\ Ports # {} /\ Cardinality(Ports) <= Cardinality(ListenSocks)
  /\ Nobody \notin Conns \cup ListenSocks
  /\ ClientLimit \in Nat /\ MaxReloads \in Nat /\ SocketsFail \in BOOLEAN

VARIABLES
  listener,      \* [ListenSocks -> [port, refcount]], refcount 0 when not allocated
  conf, old,     \* config->listen_sock of the settings in use and of those replaced
  serversock,    \* global.serversock: the port each open socket is bound to
  server_conn,   \* global.server_conn: the listener_t at the same index
  accepting,     \* the client the connection thread is preparing
  client,        \* [Conns -> [at, ops, door, server_conn, keep]]
  clients,       \* global.clients
  step,          \* where the slave thread is in a reload or the shutdown
  scan, seen,    \* connection_listen_sockets_close: index, count read or -1
  mc_running,    \* global.running = MC_RUNNING
  reloads

doors == <<listener, conf, old, serversock, server_conn, accepting,
           client, clients, step, scan, seen, mc_running, reloads>>
socketVars == <<serversock, server_conn, step, scan, seen, mc_running, reloads>>

Absent == [at |-> "none", ops |-> "http", door |-> Nobody,
           server_conn |-> Nobody, keep |-> FALSE]

Allocated == {l \in ListenSocks : listener[l].refcount > 0}

Recounted(ls, d) ==   \* refcount changed by d for each of ls
  [l \in ListenSocks |-> IF l \in ls
                         THEN [listener[l] EXCEPT !.refcount = @ + d] ELSE listener[l]]

\* Which free memory a listener_t gets does not matter: any injection will do.
Fresh(ports, ls) == CHOOSE f \in [ports -> ls] : IsInjective(f)

DoorsInit ==
  LET f == Fresh(Ports, ListenSocks) IN
    /\ conf = Range(f) /\ old = {}
    /\ serversock = SetToSeq(Ports)
    /\ server_conn = [i \in 1..Cardinality(Ports) |-> f[serversock[i]]]
    /\ listener = [l \in ListenSocks |->
                     IF l \in Range(f)
                     THEN [port |-> CHOOSE p \in Ports : f[p] = l, refcount |-> 2]
                     ELSE [port |-> CHOOSE p \in Ports : TRUE, refcount |-> 0]]
    /\ accepting = Nobody /\ client = [c \in Conns |-> Absent] /\ clients = 0
    /\ step = "serving" /\ scan = 1 /\ seen = -1 /\ mc_running = TRUE /\ reloads = 0

----------------------------------------------------------------------------
\* The connection thread.

Listening == step \in {"serving", "replaced", "halting"}

\* A fault: the client does not count as a holder of the listener_t.
Accept_NoRef(c) ==
  /\ Listening /\ accepting = Nobody /\ client[c] = Absent
  /\ \E i \in 1..Len(serversock) :
       client' = [client EXCEPT ![c] =
                    [at |-> "accepted", door |-> serversock[i], ops |-> "http",
                     server_conn |-> server_conn[i], keep |-> FALSE]]
  /\ accepting' = c
  /\ UNCHANGED <<listener, conf, old, clients, socketVars>>

Accept(c) ==
  /\ Listening /\ accepting = Nobody /\ client[c] = Absent
  /\ \E i \in 1..Len(serversock) :
       LET l == server_conn[i] IN
       /\ listener' = Recounted({l}, 1)
       /\ \E shoutcast_compat \in BOOLEAN :
            client' = [client EXCEPT ![c] =
                         [at |-> "accepted", door |-> serversock[i], server_conn |-> l,
                          ops |-> IF shoutcast_compat THEN "shoutcast" ELSE "http",
                          keep |-> FALSE]]
  /\ accepting' = c
  /\ UNCHANGED <<conf, old, clients, socketVars>>

Register(c) ==       \* client_register, client_add_incoming
  /\ accepting = c /\ accepting' = Nobody
  /\ client' = [client EXCEPT ![c].at = "asking"]
  /\ clients' = clients + 1
  /\ UNCHANGED <<listener, conf, old, socketVars>>

ConnectionFails(c) ==   \* connection_init
  /\ accepting = c /\ accepting' = Nobody
  /\ client' = [client EXCEPT ![c] = Absent]
  /\ listener' = Recounted({client[c].server_conn}, -1)
  /\ UNCHANGED <<conf, old, clients, socketVars>>

SocketBreaks ==      \* wait_for_serversock closes up one of the two arrays
  /\ SocketsFail /\ Listening /\ accepting = Nobody
  /\ \E i \in 1..Len(serversock) : serversock' = RemoveAt(serversock, i)
  /\ UNCHANGED <<listener, conf, old, server_conn, accepting, client, clients,
                 step, scan, seen, mc_running, reloads>>

----------------------------------------------------------------------------
\* The workers.

Becomes(c, at) ==
  /\ client' = [client EXCEPT ![c].at = at]
  /\ UNCHANGED <<listener, conf, old, accepting, clients, socketVars>>

PasswordRead(c) ==   \* shoutcast_source_client hands over to http_client_request
  /\ client[c].at = "asking" /\ client[c].ops = "shoutcast" /\ mc_running
  /\ client' = [client EXCEPT ![c].ops = "http"]
  /\ UNCHANGED <<listener, conf, old, accepting, clients, socketVars>>

RequestFails(c) ==   \* timed out, closed, banned, not a request, or the server ends
  client[c].at = "asking" /\ Becomes(c, "leaving")

Gets(c) ==           \* _handle_get_request for a stream or a file
  /\ client[c].at = "asking" /\ client[c].ops = "http" /\ mc_running
  /\ \E keep \in BOOLEAN :
       client' = [client EXCEPT ![c].keep = keep,
                                ![c].at = IF clients > ClientLimit THEN "leaving"
                                          ELSE "listening"]
  /\ UNCHANGED <<listener, conf, old, accepting, clients, socketVars>>

Asks(c) ==           \* SOURCE, STATS, OPTIONS or an admin page: no limit
  /\ client[c].at = "asking" /\ client[c].ops = "http" /\ mc_running
  /\ \E keep \in BOOLEAN :
       client' = [client EXCEPT ![c].keep = keep, ![c].at = "served"]
  /\ UNCHANGED <<listener, conf, old, accepting, clients, socketVars>>

Finishes(c) == client[c].at \in {"listening", "served"} /\ Becomes(c, "leaving")

KeptAlive(c) ==      \* client_destroy, connection_reset
  /\ client[c].at = "leaving" /\ client[c].keep /\ mc_running
  /\ client' = [client EXCEPT ![c].at = "asking", ![c].ops = "http", ![c].keep = FALSE]
  /\ UNCHANGED <<listener, conf, old, accepting, clients, socketVars>>

Destroyed(c) ==      \* not kept, or found disconnected
  /\ client[c].at = "leaving"
  /\ clients' = clients - 1
  /\ listener' = Recounted({client[c].server_conn}, -1)
  /\ client' = [client EXCEPT ![c] = Absent]
  /\ UNCHANGED <<conf, old, accepting, socketVars>>

----------------------------------------------------------------------------
\* The slave thread: event_config_read, then the restart of the connection
\* thread, and the end of the server.

Steps(from, to) == step = from /\ step' = to

Reload ==            \* config_parse_file, config_set_config
  /\ mc_running /\ Steps("serving", "replaced") /\ reloads < MaxReloads
  /\ \E ports \in SUBSET Ports \ {{}} :
     LET f == Fresh(ports, ListenSocks \ Allocated) IN
       /\ Cardinality(ports) <= Cardinality(ListenSocks \ Allocated)
       /\ conf' = Range(f)
       /\ listener' = [l \in ListenSocks |->
                         IF l \in Range(f)
                         THEN [port |-> CHOOSE p \in ports : f[p] = l, refcount |-> 1]
                         ELSE listener[l]]
  /\ old' = conf /\ reloads' = reloads + 1
  /\ UNCHANGED <<serversock, server_conn, accepting, client, clients, scan, seen, mc_running>>

Halts ==             \* the signal, then the end of the slave thread's loop
  /\ Steps("serving", "halting") /\ mc_running' = FALSE
  /\ UNCHANGED <<listener, conf, old, serversock, server_conn, accepting, client,
                 clients, scan, seen, reloads>>

ThreadStops ==       \* connection_thread_shutdown joins it between two clients
  /\ accepting = Nobody
  /\ Steps("replaced", "closing") \/ Steps("halting", "closing")
  /\ scan' = 1
  /\ UNCHANGED <<listener, conf, old, serversock, server_conn, accepting, client,
                 clients, seen, mc_running, reloads>>

StaysOpen(i) ==      \* a privileged port the new settings still name
  /\ mc_running
  /\ listener[server_conn[i]].port \in LowPorts
  /\ listener[server_conn[i]].port \in {listener[l].port : l \in conf}

LeavesOpen ==
  /\ step = "closing" /\ seen = -1 /\ scan <= Len(serversock) /\ StaysOpen(scan)
  /\ scan' = scan + 1
  /\ UNCHANGED <<listener, conf, old, serversock, server_conn, accepting, client,
                 clients, step, seen, mc_running, reloads>>

ReadsCount ==        \* refcount-- without global_lock: the read
  /\ step = "closing" /\ seen = -1 /\ scan <= Len(serversock) /\ ~StaysOpen(scan)
  /\ seen' = listener[server_conn[scan]].refcount
  /\ UNCHANGED <<listener, conf, old, serversock, server_conn, accepting, client,
                 clients, step, scan, mc_running, reloads>>

Closes ==            \* and the write
  /\ step = "closing" /\ seen # -1 /\ seen' = -1
  /\ listener' = [listener EXCEPT ![server_conn[scan]].refcount = seen - 1]
  /\ serversock' = RemoveAt(serversock, scan)
  /\ server_conn' = RemoveAt(server_conn, scan)
  /\ UNCHANGED <<conf, old, accepting, client, clients, step, scan, mc_running, reloads>>

ClearsOld ==         \* config_clear: of the settings replaced, at the end of those in use
  /\ step = "closing" /\ seen = -1 /\ scan > Len(serversock)
  /\ step' = IF mc_running THEN "opening" ELSE "ended"
  /\ listener' = Recounted(IF mc_running THEN old ELSE conf, -1)
  /\ old' = {} /\ conf' = IF mc_running THEN conf ELSE {}
  /\ UNCHANGED <<serversock, server_conn, accepting, client, clients, scan, seen,
                 mc_running, reloads>>

Opens ==             \* connection_setup_sockets in the new connection thread: what
  /\ Steps("opening", "serving")                \* cannot be bound leaves the settings
  /\ \E bound \in SUBSET {l \in conf : listener[l].port \notin Range(serversock)} :
       /\ conf' = bound
       /\ serversock' = serversock \o [i \in 1..Cardinality(bound) |->
                                         listener[SetToSeq(bound)[i]].port]
       /\ server_conn' = SubSeq(server_conn, 1, Len(serversock)) \o SetToSeq(bound)
       /\ listener' = [l \in ListenSocks |->
                         IF l \in bound THEN [listener[l] EXCEPT !.refcount = @ + 1]
                         ELSE IF l \in conf THEN [listener[l] EXCEPT !.refcount = @ - 1]
                         ELSE listener[l]]
  /\ UNCHANGED <<old, accepting, client, clients, scan, seen, mc_running, reloads>>

DoorsNext ==
  \/ \E c \in Conns :
       \/ Accept(c) \/ Register(c) \/ ConnectionFails(c)
       \/ PasswordRead(c) \/ RequestFails(c) \/ Gets(c) \/ Asks(c)
       \/ Finishes(c) \/ KeptAlive(c) \/ Destroyed(c)
  \/ SocketBreaks
  \/ Reload \/ Halts \/ ThreadStops \/ LeavesOpen \/ ReadsCount \/ Closes
  \/ ClearsOld \/ Opens

DoorsSpec == DoorsInit /\ [][DoorsNext]_doors

----------------------------------------------------------------------------
DoorsTypeOK ==
  /\ listener \in [ListenSocks -> [port : Ports, refcount : Int]]
  /\ conf \subseteq ListenSocks /\ old \subseteq ListenSocks
  /\ serversock \in Seq(Ports) /\ server_conn \in Seq(ListenSocks)
  /\ accepting \in Conns \cup {Nobody}
  /\ client \in [Conns -> [at : {"none", "accepted", "asking", "listening", "served", "leaving"},
                           ops : {"http", "shoutcast"}, door : Ports \cup {Nobody},
                           server_conn : ListenSocks \cup {Nobody}, keep : BOOLEAN]]
  /\ clients \in Int /\ scan \in Nat /\ seen \in Int

Here == {c \in Conns : client[c].at # "none"}

Holders(l) ==
  (IF l \in conf THEN 1 ELSE 0) + (IF l \in old THEN 1 ELSE 0)
  + Cardinality({i \in DOMAIN server_conn : server_conn[i] = l})
  + Cardinality({c \in Here : client[c].server_conn = l})

\* A listener_t is never freed while the settings, a socket or a client hold it
\* (config_clear_listener), whatever the reload's unlocked decrement loses.
ListenersHeld == \A l \in ListenSocks : listener[l].refcount >= Holders(l)

\* A client carries the listener_t of the port it connected to, so that the TLS,
\* shoutcast and alias settings of that port are the ones applied to it.
RightDoor == \A c \in Here : listener[client[c].server_conn].port = client[c].door

\* global.clients counts the clients registered and not destroyed.
ClientsCounted == clients = Cardinality({c \in Here : client[c].at # "accepted"})

\* The limit is tested after the count, so no more than ClientLimit are ever served a
\* stream, although the test and the counting are under separate locks.
ServedKept == Cardinality({c \in Here : client[c].at = "listening"}) <= ClientLimit

\* While settings are reloaded and the connection thread is restarted, a listening
\* socket's settings are not freed under a client, a client has those of the port it came
\* through, clients are counted and never more than the limit are served (connection.c
\* accept_client, connection_listen_sockets_close, _handle_get_request).
DoorsRight == DoorsTypeOK /\ ListenersHeld /\ RightDoor /\ ClientsCounted /\ ServedKept
==============================================================================
