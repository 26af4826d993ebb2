---------------------------- MODULE AuthBackends ----------------------------
(***************************************************************************)
(* The authenticators that ask somebody else (auth_url.c, auth_cmd.c): a   *)
(* handler thread sends the request for a listener or a source to a URL,   *)
(* or hands it to a command, goes through the headers of the answer one by *)
(* one, and decides.  The location an answer gives is kept in the data of  *)
(* the thread; an address that fails is not asked again for a while.       *)
(*                                                                         *)
(* An answer is a sequence of what its headers say, with "blank" for the   *)
(* line after the headers; what follows it is a body, or, for a URL, the   *)
(* answer to a redirect that was followed.  What makes a request fail on   *)
(* its way (curl, the command) is external.                                *)
(***************************************************************************)
EXTENDS Integers, SequencesExt, FiniteSets

CONSTANTS Handlers, Listeners, Sources,
          None,
          Setups,       \* kind "url" or "cmd"; skip: presume_innocent; place: a mountpoint for the rejected
          Leftovers,    \* a command may give a location that is not used for the listener
          Wait,         \* seconds an address that failed is left alone
          MaxLines,     \* bound: lines of an answer
          MaxTime       \* bound: seconds

VARIABLES setup,
          job,          \* what each handler is asked, and for whom
          location,     \* of the thread data: None, or who it was meant for
          stop_until,   \* of listener_add and listener_remove, 0 if not stopped
          now,
          inside,       \* the clients let in
          last          \* just now: who was decided upon, what became of it, and what the answer said
vars == <<setup, job, location, stop_until, now, inside, last>>

Clients == Listeners \union Sources
Idle == [op |-> None, client |-> None]
Nobody == [client |-> None, got |-> None, said |-> None]

Init == /\ setup \in Setups
        /\ job = [h \in Handlers |-> Idle]
        /\ location = [h \in Handlers |-> None]
        /\ stop_until = [a \in {"add", "remove"} |-> 0]
        /\ now = 1
        /\ inside = {} /\ last = Nobody

TypeOK == /\ \A h \in Handlers : job[h].op \in {None, "add", "remove", "auth"}
          /\ location \in [Handlers -> Clients \union {None, "event"}]
          /\ stop_until \in [{"add", "remove"} -> 0..MaxTime + Wait]
          /\ now \in 1..MaxTime /\ inside \subseteq Clients
          /\ last.got \in {None, "in", "intro", "rejected", "moved", "denied"}

-----------------------------------------------------------------------------
(* Answers.  "user" lets in, "spaced" is the same with a blank before the  *)
(* value, "zero" takes it back; "denied" is a message that begins with 403.*)

Status  == {"ok", "error", "interim"}
Headers == {"user", "spaced", "zero", "withintro", "location", "denied", "other"}

Answers(first) ==
    {a \in UNION {[1..n -> Headers \union {"blank", "body"} \union Status] : n \in 0..MaxLines} :
        /\ a # <<>> => a[1] \in first
        /\ \A i \in DOMAIN a : a[i] \in Status \ {"interim"} => i = 1 \/ (a[i - 1] = "blank" /\ first = Status)
        /\ \A i \in DOMAIN a : a[i] = "interim" => i = 1
        /\ \A i \in DOMAIN a : a[i] = "body" => i > 1 /\ a[i - 1] \in {"blank", "body"}}
UrlAnswers == Answers(Status)
CmdAnswers == Answers(Headers)

\* auth_user while the answer comes in: its state, its flags, and the thread data
Fresh == [state |-> 0, auth |-> FALSE, intro |-> FALSE, body |-> FALSE,
          location |-> FALSE, denied |-> FALSE, broken |-> FALSE]

\* handle_url_header: the first line is the status; an error of one that is
\* presumed innocent ends the request.  A blank line ends what is looked at.
HandleHeader(skip, f, e) ==
    CASE f.state = 0 /\ e = "error" /\ skip -> [f EXCEPT !.auth = TRUE, !.broken = TRUE]
      [] f.state = 0 /\ ~(e = "error" /\ skip) -> [f EXCEPT !.state = 1]
      [] f.state = 1 /\ e \in {"user", "spaced"} -> [f EXCEPT !.auth = TRUE]
      [] f.state = 1 /\ e = "withintro" -> [f EXCEPT !.auth = TRUE, !.intro = TRUE]
      [] f.state = 1 /\ e = "zero" -> [f EXCEPT !.auth = FALSE]
      [] f.state = 1 /\ e = "location" -> [f EXCEPT !.location = TRUE]
      [] f.state = 1 /\ e = "denied" -> [f EXCEPT !.denied = TRUE]
      [] f.state = 1 /\ e = "blank" -> [f EXCEPT !.state = 2]
      [] OTHER -> f

\* handle_url_data: kept if intro content was announced
HandleData(f) == IF f.intro THEN [f EXCEPT !.body = TRUE] ELSE f

UrlAnswer(skip, a) ==
    FoldLeft(LAMBDA f, e : IF f.broken THEN f
                           ELSE IF e = "body" THEN HandleData(f) ELSE HandleHeader(skip, f, e), Fresh, a)

\* process_header, which looks for "1" right after the colon
ProcessHeader(f, e) ==
    CASE e = "user" -> [f EXCEPT !.auth = TRUE]
      [] e = "withintro" -> [f EXCEPT !.auth = TRUE, !.intro = TRUE]
      [] e = "location" -> [f EXCEPT !.location = TRUE]
      [] e = "denied" -> [f EXCEPT !.denied = TRUE]
      [] OTHER -> f

\* get_response, process_body: nothing is looked at until the blank line is there
CmdAnswer(a) ==
    LET blanks == {i \in DOMAIN a : a[i] = "blank"}
        end    == CHOOSE i \in blanks : \A j \in blanks : i <= j
    IN  IF blanks = {} THEN Fresh
        ELSE LET f == FoldLeft(ProcessHeader, Fresh, SubSeq(a, 1, end))
                 body == \E i \in DOMAIN a : a[i] = "body"
             IN  [f EXCEPT !.intro = @ /\ body, !.body = f.intro /\ body]

-----------------------------------------------------------------------------
(* What an answer says, put down from its lines.                           *)
Before(a, i) == \A j \in 1..i - 1 : a[j] # "blank"
Lets(kind) == IF kind = "url" THEN {"user", "spaced", "withintro"} ELSE {"user", "withintro"}
Says(kind, skip, a) ==
    LET first  == {i \in DOMAIN a : Before(a, i) /\ a[i] # "blank" /\ (kind = "url" => i > 1)}
        refused == kind = "url" /\ skip /\ a # <<>> /\ a[1] = "error"
        read   == IF refused \/ (kind = "cmd" /\ ~ \E i \in DOMAIN a : a[i] = "blank") THEN {} ELSE first
    IN  [user     |-> \E i \in read : /\ a[i] \in Lets(kind)
                                      /\ kind = "url" => \A j \in read : j > i => a[j] # "zero",
         location |-> \E i \in read : a[i] = "location",
         denied   |-> \E i \in read : a[i] = "denied",
         broken   |-> refused,
         body     |-> ~refused /\ \E i \in DOMAIN a : a[i] = "body"]

\* what was made of each answer, with what it says, by kind and skip
Results ==
    [k \in {"url", "cmd"}, skip \in BOOLEAN |->
        {[read |-> IF k = "url" THEN UrlAnswer(skip, a) ELSE CmdAnswer(a), said |-> Says(k, skip, a)] :
            a \in IF k = "url" THEN UrlAnswers ELSE CmdAnswers}]

-----------------------------------------------------------------------------
Unserved(c) == c \notin inside /\ \A h \in Handlers : job[h].client # c
Takes(h, op, c) == job[h] = Idle /\ job' = [job EXCEPT ![h] = [op |-> op, client |-> c]]
Ready(h) == job' = [job EXCEPT ![h] = Idle]
Fails(a) == stop_until' = [stop_until EXCEPT ![a] = IF @ = 0 THEN now + Wait ELSE @]

\* auth_postprocess_listener, auth_postprocess_source: the flags decide,
\* whatever was returned; a rejected listener may be put elsewhere
Decided(c, got, said) ==
    /\ last' = [client |-> c, got |-> got, said |-> said]
    /\ inside' = IF got \in {"in", "intro"} \/ (got = "rejected" /\ c \in Listeners /\ setup.place)
                 THEN inside \union {c} ELSE inside \ {c}

\* url_add_listener while listener_add is left alone: the flag given to one
\* presumed innocent is overwritten with those of auth_user
AddStopped(h, l) ==
    /\ setup.kind = "url" /\ job[h] = Idle /\ Unserved(l) /\ stop_until["add"] > now
    /\ inside' = IF setup.place THEN inside \union {l} ELSE inside
    /\ UNCHANGED <<setup, job, location, stop_until, now>> /\ last' = Nobody

\* Mutant: the location of an earlier request stays.
AddBegin_KeepsLocation(h, l) ==
    /\ Unserved(l) /\ stop_until["add"] <= now
    /\ Takes(h, "add", l)
    /\ stop_until' = [stop_until EXCEPT !["add"] = 0]
    /\ UNCHANGED <<setup, location, now, inside>> /\ last' = Nobody

\* url_add_listener, auth_cmd_client, to where the request is sent
AddBegin(h, l) ==
    /\ Unserved(l) /\ stop_until["add"] <= now
    /\ Takes(h, "add", l)
    /\ stop_until' = [stop_until EXCEPT !["add"] = 0]
    /\ location' = IF setup.kind = "url" THEN [location EXCEPT ![h] = None] ELSE location
    /\ UNCHANGED <<setup, now, inside>> /\ last' = Nobody

\* what url_add_listener makes of an answer; the error text of a request that
\* fails takes the place of a message
UrlGot(r, failed, loc) ==
    CASE loc # None -> "moved"
      [] loc = None /\ r.denied /\ ~failed -> "denied"
      [] loc = None /\ ~(r.denied /\ ~failed) ->
           IF ~(r.auth \/ (failed /\ setup.skip)) THEN "rejected"
           ELSE IF r.intro /\ (r.auth => r.body) THEN "intro" ELSE "in"

UrlAdded(h) ==
    LET l == job[h].client
    IN  /\ setup.kind = "url" /\ job[h].op = "add"
        /\ \E x \in Results["url", setup.skip], fails \in BOOLEAN :
              LET failed == fails \/ x.read.broken
                  loc    == IF x.read.location THEN l ELSE location[h]
              IN  /\ Decided(l, UrlGot(x.read, failed, loc), [x.said EXCEPT !.broken = failed])
                  /\ IF failed THEN Fails("add") ELSE UNCHANGED stop_until
        /\ location' = [location EXCEPT ![h] = None]
        /\ Ready(h)
        /\ UNCHANGED <<setup, now>>

\* auth_cmd_client: the command ends, is killed because its body took too
\* long or by somebody else, or could not be started (a is then empty)
CmdAdded(h) ==
    LET l == job[h].client
    IN  /\ setup.kind = "cmd" /\ job[h].op = "add"
        /\ \E x \in Results["cmd", FALSE], killed \in BOOLEAN :
              LET r    == x.read
                  loc  == IF r.location THEN l ELSE location[h]
                  got  == CASE r.auth -> IF r.intro THEN "intro" ELSE "in"
                            [] ~r.auth /\ killed -> "rejected"
                            [] ~r.auth /\ ~killed /\ r.denied -> "denied"
                            [] ~r.auth /\ ~killed /\ ~r.denied -> IF loc # None THEN "moved" ELSE "rejected"
              IN  /\ Leftovers \/ ~(r.location /\ got # "moved")
                  /\ Decided(l, got, [x.said EXCEPT !.broken = killed])
                  /\ location' = [location EXCEPT ![h] = IF got = "moved" THEN None ELSE loc]
        /\ Ready(h)
        /\ UNCHANGED <<setup, stop_until, now>>

\* A listener leaves; url_remove_listener tells, unless listener_remove is left alone
Leave(h, l) ==
    /\ l \in inside /\ l \in Listeners /\ inside' = inside \ {l}
    /\ IF setup.kind = "cmd" \/ (stop_until["remove"] # 0 /\ stop_until["remove"] >= now)
       THEN UNCHANGED <<job, stop_until>>
       ELSE Takes(h, "remove", l) /\ stop_until' = [stop_until EXCEPT !["remove"] = 0]
    /\ UNCHANGED <<setup, location, now>> /\ last' = Nobody

\* the answer is looked at as any other
UrlRemoved(h) ==
    /\ job[h].op = "remove"
    /\ \E x \in Results["url", setup.skip], fails \in BOOLEAN :
          /\ location' = IF x.read.location THEN [location EXCEPT ![h] = job[h].client] ELSE location
          /\ IF fails \/ x.read.broken THEN Fails("remove") ELSE UNCHANGED stop_until
    /\ Ready(h)
    /\ UNCHANGED <<setup, now, inside>> /\ last' = Nobody

\* url_stream_auth: never left alone, and a failure is the answer it has
StreamAuth(h, s) ==
    /\ setup.kind = "url" /\ Unserved(s) /\ Takes(h, "auth", s)
    /\ UNCHANGED <<setup, location, stop_until, now, inside>> /\ last' = Nobody

StreamAuthed(h) ==
    LET s == job[h].client
    IN  /\ job[h].op = "auth"
        /\ \E x \in Results["url", setup.skip] :
              /\ Decided(s, IF x.read.auth THEN "in" ELSE "rejected", x.said)
              /\ location' = IF x.read.location THEN [location EXCEPT ![h] = s] ELSE location
        /\ Ready(h)
        /\ UNCHANGED <<setup, stop_until, now>>

\* url_stream_start, url_stream_end, with a client made up for the request
StreamEvent(h) ==
    /\ setup.kind = "url" /\ job[h] = Idle
    /\ location' = [location EXCEPT ![h] = "event"]
    /\ UNCHANGED <<setup, job, stop_until, now, inside>> /\ last' = Nobody

StreamGone(s) == s \in inside /\ s \in Sources /\ inside' = inside \ {s}
                 /\ UNCHANGED <<setup, job, location, stop_until, now>> /\ last' = Nobody

Tick == now < MaxTime /\ now' = now + 1 /\ UNCHANGED <<setup, job, location, stop_until, inside>> /\ last' = Nobody

Next == \/ \E h \in Handlers, l \in Listeners : AddStopped(h, l) \/ AddBegin(h, l) \/ Leave(h, l)
        \/ \E h \in Handlers, s \in Sources : StreamAuth(h, s)
        \/ \E h \in Handlers : UrlAdded(h) \/ CmdAdded(h) \/ UrlRemoved(h) \/ StreamAuthed(h) \/ StreamEvent(h)
        \/ \E s \in Sources : StreamGone(s)
        \/ Tick

Spec == Init /\ [][Next]_vars

-----------------------------------------------------------------------------
\* Presumed innocent: a URL that cannot be asked lets in.
Presumed == setup.kind = "url" /\ setup.skip /\ last.said.broken

(* Nobody is let in but by what the answer about it said before its first  *)
(* blank line, whatever followed a redirect or was in the thread data, or  *)
(* because the address failed and listeners are presumed innocent          *)
(* (handle_url_header, url_add_listener, auth_cmd_client).                 *)
LetInRight == last.got \in {"in", "intro"} => last.said.user \/ Presumed

(* And nobody it lets in, or is to be presumed innocent, is turned away,   *)
(* unless the same answer moves or denies it.                              *)
TurnedAwayRight == last.got = "rejected" => ~last.said.user /\ ~Presumed

(* A listener is sent to a location, or told why it is denied, only if its *)
(* own answer said so: thread data is shared by all the requests of a      *)
(* handler.  One that is to have intro content first has some.             *)
OwnAnswer == /\ last.got = "moved"  => last.said.location
             /\ last.got = "denied" => last.said.denied
             /\ last.got = "intro"  => last.said.body \/ last.said.broken

(* All of it, for every request of every handler.                         *)
BackendsSound == TypeOK /\ LetInRight /\ TurnedAwayRight /\ OwnAnswer
=============================================================================
