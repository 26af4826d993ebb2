-------------------------------- MODULE Logs --------------------------------
(***************************************************************************)
(* The logs (log/log.c, logging.c): any thread queues lines, one thread    *)
(* writes them to the file, moves the file aside when it is large, and     *)
(* drops old lines; the last lines of each priority are kept to be shown.  *)
(*                                                                         *)
(* A line has its number before it is formatted and queued, so lines may   *)
(* be queued out of order.  Threads that write lines hold the logger's     *)
(* lock to read; the queue has a lock of its own, which the log thread     *)
(* gives up while it opens a file and while it writes.  What is done with  *)
(* the logger's lock held to write is one step, with nobody in between.    *)
(***************************************************************************)
EXTENDS Integers, SequencesExt, FiniteSetsExt

CONSTANTS Slots,        \* entries of loglist, 0..n
          Writers,      \* threads that log
          Priorities,
          Keep,         \* lines kept of each priority
          Level,        \* priorities up to it are written
          Trigger,      \* lines in a file after which it is moved aside
          Found,        \* lines already in the file
          Batch,        \* entries dropped before the lock is given up
          MaxLines,     \* bound: lines logged
          MaxMoves      \* bound: files there are when somebody moves one

VARIABLES logs,         \* log_t of each slot
          cur,          \* the slot the configuration uses, or None
          writer,       \* what each thread is doing
          nextId,       \* _next_eid
          thread,       \* the log thread
          files,        \* lines in each file there ever was, now and when it was last opened
          named         \* which of them has the log's name, 0 if none
vars == <<logs, cur, writer, nextId, thread, files, named>>

None == -1
Idle == [at |-> "idle", slot |-> None, id |-> 0, prio |-> 0]
\* all and seen are what was queued and what the log thread went through
Empty == [inuse |-> FALSE, closing |-> FALSE, list |-> <<>>, checked |-> 0, open |-> 0, fsize |-> 0,
          stale |-> {}, all |-> <<>>, seen |-> <<>>]

Init == /\ logs = [s \in Slots |-> IF s = 0 THEN [Empty EXCEPT !.inuse = TRUE] ELSE Empty]
        /\ cur = 0
        /\ writer = [w \in Writers |-> Idle]
        /\ nextId = 1
        /\ thread = [at |-> "idle", slot |-> 0, fresh |-> TRUE, shut |-> FALSE, closing |-> FALSE]
        /\ files = <<[lines |-> Found, base |-> Found]>> /\ named = 1

TypeOK == /\ cur \in Slots \union {None}
          /\ named \in 0..Len(files)
          /\ \A s \in Slots : logs[s].stale \subseteq Priorities /\ logs[s].open \in 0..Len(files)
          /\ thread.at \in {"idle", "look", "write", "purge", "shut"} /\ thread.slot \in Slots

\* the logger's lock held to write
NobodyReads == thread.at = "idle" /\ \A w \in Writers : writer[w].at = "idle"

-----------------------------------------------------------------------------
(* Lines.                                                                  *)

\* log_write, log_write_direct: an entry, its number given under the queue's lock
Begin(w) ==
    /\ writer[w].at = "idle" /\ ~thread.shut /\ thread.at # "shut"
    /\ cur # None /\ logs[cur].inuse /\ nextId <= MaxLines
    /\ \E p \in Priorities : writer' = [writer EXCEPT ![w] = [at |-> "entry", slot |-> cur, id |-> nextId, prio |-> p]]
    /\ nextId' = nextId + 1
    /\ UNCHANGED <<logs, cur, thread, files, named>>

\* queue_entry: put last in both lists.  A list that was emptied has kept its
\* tail: the entry is hung on one that was released, and cannot be found
Queue(w) ==
    LET e == [id |-> writer[w].id, prio |-> writer[w].prio]
        s == writer[w].slot
    IN  /\ writer[w].at = "entry"
        /\ logs' = [logs EXCEPT ![s].list = Append(@, e), ![s].all = Append(@, e)]
        /\ writer' = [writer EXCEPT ![w] = Idle]
        /\ UNCHANGED <<cur, nextId, thread, files, named>>

\* a line that does not fit is not logged
TooLong(w) == /\ writer[w].at = "entry"
              /\ writer' = [writer EXCEPT ![w] = Idle]
              /\ UNCHANGED <<logs, cur, nextId, thread, files, named>>

-----------------------------------------------------------------------------
(* The log thread.                                                         *)

Log == logs[thread.slot]
Here(l, id) == SelectInSeq(l.list, LAMBDA e : e.id = id)
\* entries after the one it came to last
Waiting(l) == IF l.checked = 0 THEN l.list ELSE SubSeq(l.list, Here(l, l.checked) + 1, Len(l.list))

Later(s) == {t \in Slots : t > s}
\* log_commit_entries goes to the next log, or ends, or closes those to close
Onward(t) ==
    LET closing == t.closing \/ logs[t.slot].closing
        shuts   == {s \in Slots : logs[s].inuse /\ logs[s].closing}
    IN  IF t.shut THEN [t EXCEPT !.at = "shut"]
        ELSE IF Later(t.slot) # {} THEN [t EXCEPT !.at = "look", !.slot = Min(Later(t.slot)), !.fresh = TRUE, !.closing = closing]
        ELSE IF closing /\ shuts # {} THEN [t EXCEPT !.at = "shut", !.slot = Min(shuts)]
        ELSE [t EXCEPT !.at = "idle"]

Commit == /\ thread.at = "idle"
          /\ thread' = [at |-> "look", slot |-> Min(Slots), fresh |-> TRUE, shut |-> FALSE, closing |-> FALSE]
          /\ UNCHANGED <<logs, cur, writer, nextId, files, named>>

\* do_log_run: nothing to do
PassBy == /\ thread.at = "look"
          /\ ~Log.inuse \/ (thread.fresh /\ Waiting(Log) = <<>>)
          /\ thread' = Onward(thread)
          /\ UNCHANGED <<logs, cur, writer, nextId, files, named>>

\* _log_open before each line.  The file is looked at when it is time, when it
\* is not open and when it is to be moved; its size there counts more than the
\* one remembered, and then it is not moved yet
LogOpen(recheck) ==
    LET large   == Log.fsize > Trigger
        looked  == recheck \/ large \/ Log.open = 0
        missing == named = 0
        size    == files[IF Log.open # 0 THEN Log.open ELSE named].lines
        exists  == looked /\ ~missing
        differs == exists /\ Log.fsize # size
        reopen  == large \/ Log.open = 0 \/ (looked /\ missing)
        moved   == large /\ exists /\ ~differs
        create  == reopen /\ (missing \/ moved)
    IN  /\ files' = IF create THEN Append(files, [lines |-> 0, base |-> 0])
                     ELSE IF reopen THEN [files EXCEPT ![named].base = files[named].lines] ELSE files
        /\ named' = IF create THEN Len(files) + 1 ELSE named
        /\ logs' = [logs EXCEPT ![thread.slot].open = IF reopen THEN named' ELSE @,
                                ![thread.slot].fsize = IF create THEN 0 ELSE IF differs THEN size ELSE @]

Look == /\ thread.at = "look" /\ Log.inuse /\ Waiting(Log) # <<>>
        /\ \E recheck \in BOOLEAN : LogOpen(recheck)
        /\ thread' = [thread EXCEPT !.at = "write"]
        /\ UNCHANGED <<cur, writer, nextId>>

\* the line is written if its priority asks for it, with the queue unlocked
Write ==
    LET e == Head(Waiting(Log))
        n == IF e.prio <= Level THEN 1 ELSE 0
    IN  /\ thread.at = "write"
        /\ files' = [files EXCEPT ![Log.open].lines = @ + n]
        /\ logs' = [logs EXCEPT ![thread.slot].fsize = @ + n, ![thread.slot].checked = e.id,
                                ![thread.slot].seen = Append(@, e)]
        /\ thread' = [thread EXCEPT !.at = "look", !.fresh = FALSE]
        /\ UNCHANGED <<cur, writer, nextId, named>>

OfPrio(l, p) == SelectSeq(l.list, LAMBDA e : e.prio = p)

\* Mutant: a priority keeps one line less.
Overfull_OneLess(l) == {Head(OfPrio(l, p)) : p \in {q \in Priorities : Len(OfPrio(l, q)) >= Keep[q]}}

\* _select_priority_entry: the oldest of the first entries of priorities that
\* have more than they keep, older than the one the run came to
Overfull(l) == {Head(OfPrio(l, p)) : p \in {q \in Priorities : Len(OfPrio(l, q)) > Keep[q]}}
Oldest(l) == LET es == {e \in Overfull(l) : e.id < l.checked}
             IN  {e \in es : \A o \in es : e.id <= o.id}
Pop(l) == LET e == CHOOSE x \in Oldest(l) : TRUE
          IN  [l EXCEPT !.list = RemoveAt(@, Here(l, e.id)),
                        !.stale = IF Len(OfPrio(l, e.prio)) = 1 THEN @ \union {e.prio} ELSE @]
RECURSIVE Popped(_, _)
Popped(l, n) == IF n = 0 \/ Oldest(l) = {} THEN l ELSE Popped(Pop(l), n - 1)

\* the run comes to the end of the queue, and do_purge in the same hold of the
\* lock; others may queue after every batch
Purge == /\ thread.at = "purge" \/ (thread.at = "look" /\ ~thread.fresh /\ Waiting(Log) = <<>>)
         /\ logs' = [logs EXCEPT ![thread.slot] = Popped(@, Batch)]
         /\ thread' = IF Oldest(logs'[thread.slot]) = {} THEN Onward(thread) ELSE [thread EXCEPT !.at = "purge"]
         /\ UNCHANGED <<cur, writer, nextId, files, named>>

\* the logger's lock is taken to write, and a log to be closed is run
\* once more, then emptied and freed
Shut == /\ thread.at = "shut" /\ \A w \in Writers : writer[w].at = "idle"
        /\ IF Waiting(Log) # <<>>
           THEN /\ thread' = [thread EXCEPT !.at = "look", !.fresh = TRUE, !.shut = TRUE]
                /\ logs' = logs
           ELSE LET shuts == {s \in Slots : logs[s].inuse /\ logs[s].closing} \ {thread.slot}
                IN  /\ thread' = IF shuts = {} THEN [thread EXCEPT !.at = "idle", !.shut = FALSE]
                                 ELSE [thread EXCEPT !.slot = Min(shuts)]
                    /\ logs' = [logs EXCEPT ![thread.slot] = [Empty EXCEPT !.all = Log.all, !.seen = Log.seen]]
        /\ UNCHANGED <<cur, writer, nextId, files, named>>

-----------------------------------------------------------------------------
(* The configuration is read again (recheck_log_file).                     *)

\* log_close: with a log thread the log is only marked
CloseLog == /\ cur # None /\ logs[cur].inuse /\ ~thread.shut
            /\ logs' = [logs EXCEPT ![cur].closing = TRUE]
            /\ cur' = None
            /\ UNCHANGED <<writer, nextId, thread, files, named>>

\* log_open in the first slot not in use
OpenLog == LET unused == {s \in Slots : ~logs[s].inuse}
           IN  /\ cur = None /\ NobodyReads /\ unused # {}
               /\ cur' = Min(unused)
               /\ logs' = [logs EXCEPT ![cur'] = [Empty EXCEPT !.inuse = TRUE]]
               /\ UNCHANGED <<writer, nextId, thread, files, named>>

\* log_set_filename and log_reopen
Reopen == /\ cur # None /\ NobodyReads /\ logs[cur].open # 0
          /\ logs' = [logs EXCEPT ![cur].open = 0]
          /\ UNCHANGED <<cur, writer, nextId, thread, files, named>>

\* somebody moves the file (external)
Moved == /\ named # 0 /\ Len(files) <= MaxMoves
         /\ named' = 0
         /\ UNCHANGED <<logs, cur, writer, nextId, thread, files>>

Next == \/ \E w \in Writers : Begin(w) \/ Queue(w) \/ TooLong(w)
        \/ Commit \/ PassBy \/ Look \/ Write \/ Purge \/ Shut
        \/ CloseLog \/ OpenLog \/ Reopen \/ Moved
Spec == Init /\ [][Next]_vars

-----------------------------------------------------------------------------
\* Every line queued is gone through once, in the order of the queue: none is
\* dropped before.
EachLineOnce == \A s \in Slots : IsPrefix(logs[s].seen, logs[s].all)
ShutAfterAll == \A s \in Slots : ~logs[s].inuse => logs[s].seen = logs[s].all

\* The last lines of each priority are there to be shown, and its list is
\* never left without an end.
LastLinesKept ==
    \A s \in Slots : logs[s].inuse =>
        /\ logs[s].stale = {}
        /\ \A p \in Priorities :
              Len(OfPrio(logs[s], p)) >= Min({Keep[p], Cardinality({i \in 1..Len(logs[s].all) : logs[s].all[i].prio = p})})

\* No file grows by more than a line of each log over the trigger, or over
\* what it had when it was opened.
FilesBounded == \A i \in 1..Len(files) : files[i].lines <= Max({Trigger, files[i].base}) + Cardinality(Slots)

LogsSound == EachLineOnce /\ ShutAfterAll /\ LastLinesKept /\ FilesBounded
=============================================================================
