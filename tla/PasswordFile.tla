---------------------------- MODULE PasswordFile ----------------------------
(***************************************************************************)
(* The users of a mountpoint kept in a file (auth_htpasswd.c).  A tree of  *)
(* them is in memory and is replaced when the time of the file, in         *)
(* seconds, is not the one remembered.  The tree is read and replaced      *)
(* under a lock, the file is looked at and read without it; a user is      *)
(* added at the end of the file, and deleted by writing the others to a    *)
(* second file, which takes the place of the first.                        *)
(*                                                                         *)
(* Passwords are left out: one given with a known name is the right one.   *)
(* Lines that are no user, which a deletion drops, and names with a colon, *)
(* which are split at the last one when read but at the first one when     *)
(* deleted, are not modelled.                                              *)
(***************************************************************************)
EXTENDS Integers, SequencesExt, FiniteSets

CONSTANTS Handlers,     \* threads that authenticate listeners
          Admins,       \* threads that change and list the users
          Users,        \* users added and deleted by requests
          Others,       \* users put into the file by other means
          Apart,        \* no two changes of the file fall in one second
          Alone,        \* two threads do not look at the file at a time
          MaxChanges,   \* bound: changes of the file
          MaxFaults     \* bound: failures and restarts

VARIABLES files,        \* the users and the time of each file there ever was
          name, tmp,    \* which of them has the name, and the name with .tmp; 0 is none
          users, mtime, \* the tree and the time remembered
          lock,         \* who changes the file, or None
          thread,       \* what each thread does, with which user and file
          now, faults,
          added         \* users reported as added and not deleted, or asked to be, since
vars == <<files, name, tmp, users, mtime, lock, thread, now, faults, added>>

None == "none"
Threads == Handlers \union Admins
Idle == [at |-> "idle", op |-> None, user |-> None, file |-> 0, seen |-> 0]
Entries(f) == ToSet(files[f].lines)

Init == /\ \E lines \in {<<>>} \union {<<u>> : u \in Users} : files = <<[lines |-> lines, time |-> 1]>>
        /\ name = 1 /\ tmp = 0
        /\ users = Entries(1) /\ mtime = 1
        /\ lock = None /\ thread = [t \in Threads |-> Idle]
        /\ now = 1 /\ faults = 0 /\ added = {}

TypeOK == /\ name \in 0..Len(files) /\ tmp \in 0..Len(files)
          /\ users \subseteq Users \union Others /\ added \subseteq Users
          /\ lock \in Admins \union {None}
          /\ \A t \in Threads : thread[t].at \in {"idle", "look", "open", "read", "act", "remove", "rename"}

Goes(t, at) == thread' = [thread EXCEPT ![t].at = at]
\* the second a change is made in
Changes == /\ now < MaxChanges
           /\ now' \in IF Apart THEN {now + 1} ELSE {now, now + 1}

-----------------------------------------------------------------------------
(* htpasswd_auth, htpasswd_adduser, htpasswd_userlist begin with a look at *)
(* the file; htpasswd_deleteuser ends with one.                            *)
Begin(t) == /\ thread[t].at = "idle"
            /\ \E op \in (IF t \in Handlers THEN {"auth"} ELSE {"add", "delete", "list"}), u \in Users :
                  thread' = [thread EXCEPT ![t] = [at |-> IF op = "delete" THEN "act" ELSE "look", op |-> op,
                                                   user |-> u, file |-> 0, seen |-> 0]]
            /\ UNCHANGED <<files, name, tmp, users, mtime, lock, now, faults, added>>

\* where htpasswd_recheckfile returns to
Return(t) == IF thread[t].op = "delete" THEN Idle ELSE [thread[t] EXCEPT !.at = "act"]

Looking == {t \in Threads : thread[t].at \in {"open", "read"}}
\* htpasswd_recheckfile: a missing file or one of the same time leaves the tree
Stat(t) == /\ thread[t].at = "look" /\ (Alone => Looking = {})
           /\ thread' = [thread EXCEPT ![t] =
                           IF name = 0 \/ files[name].time = mtime THEN Return(t)
                           ELSE [@ EXCEPT !.at = "open", !.seen = files[name].time]]
           /\ UNCHANGED <<files, name, tmp, users, mtime, lock, now, faults, added>>

Open(t) == /\ thread[t].at = "open"
           /\ IF name = 0
              THEN thread' = [thread EXCEPT ![t] = Return(t)] /\ UNCHANGED mtime
              ELSE /\ thread' = [thread EXCEPT ![t].at = "read", ![t].file = name]
                   /\ mtime' = thread[t].seen
           /\ UNCHANGED <<files, name, tmp, users, lock, now, faults, added>>

\* Mutant: the time remembered is the file's when it has been read.
Install_TimeNow(t) == /\ thread[t].at = "read" /\ lock = None
                      /\ users' = Entries(thread[t].file)
                      /\ mtime' = IF name = 0 THEN mtime ELSE files[name].time
                      /\ thread' = [thread EXCEPT ![t] = Return(t)]
                      /\ UNCHANGED <<files, name, tmp, lock, now, faults, added>>

\* the lines are read, then the new tree is put in place with the lock held;
\* lines added between the two are modelled as added before
Install(t) == /\ thread[t].at = "read" /\ lock = None
              /\ users' = Entries(thread[t].file)
              /\ thread' = [thread EXCEPT ![t] = Return(t)]
              /\ UNCHANGED <<files, name, tmp, mtime, lock, now, faults, added>>

\* htpasswd_auth and htpasswd_userlist read the tree
Use(t) == /\ thread[t].at = "act" /\ thread[t].op \in {"auth", "list"} /\ lock = None
          /\ thread' = [thread EXCEPT ![t] = Idle]
          /\ UNCHANGED <<files, name, tmp, users, mtime, lock, now, faults, added>>

\* htpasswd_adduser: refused for a user of the tree; the file is made if need be
Add(t) == /\ thread[t].at = "act" /\ thread[t].op = "add" /\ lock = None
          /\ LET u == thread[t].user
             IN  IF u \in users THEN UNCHANGED <<files, name, now, added>>
                 ELSE /\ Changes /\ added' = added \union {u}
                      /\ IF name = 0
                         THEN files' = Append(files, [lines |-> <<u>>, time |-> now']) /\ name' = Len(files')
                         ELSE /\ files' = [files EXCEPT ![name] = [lines |-> Append(@.lines, u), time |-> now']]
                              /\ UNCHANGED name
          /\ thread' = [thread EXCEPT ![t] = Idle]
          /\ UNCHANGED <<tmp, users, mtime, lock, faults>>

-----------------------------------------------------------------------------
(* htpasswd_deleteuser                                                     *)

\* no file, or one with the name of the second that is there already
CannotDelete(t) == /\ thread[t].at = "act" /\ thread[t].op = "delete" /\ lock = None
                   /\ name = 0 \/ tmp # 0
                   /\ thread' = [thread EXCEPT ![t] = Idle]
                   /\ UNCHANGED <<files, name, tmp, users, mtime, lock, now, faults, added>>

Copy(t) == /\ thread[t].at = "act" /\ thread[t].op = "delete" /\ lock = None
           /\ name # 0 /\ tmp = 0 /\ Changes
           /\ files' = Append(files, [lines |-> SelectSeq(files[name].lines, LAMBDA u : u # thread[t].user), time |-> now'])
           /\ tmp' = Len(files')
           /\ lock' = t /\ Goes(t, "remove")
           /\ added' = added \ {thread[t].user}
           /\ UNCHANGED <<name, users, mtime, faults>>

\* remove, or it fails and the second file is left
RemoveOld(t) == /\ thread[t].at = "remove"
             /\ \/ name' = 0 /\ Goes(t, "rename") /\ UNCHANGED <<lock, faults>>
                \/ /\ faults < MaxFaults /\ faults' = faults + 1
                   /\ lock' = None /\ Goes(t, "look") /\ UNCHANGED name
             /\ UNCHANGED <<files, tmp, users, mtime, now, added>>

\* rename, or it fails and there is no file with the name
RenameNew(t) == /\ thread[t].at = "rename"
             /\ \/ name' = tmp /\ tmp' = 0 /\ UNCHANGED faults
                \/ /\ faults < MaxFaults /\ faults' = faults + 1
                   /\ UNCHANGED <<name, tmp>>
             /\ lock' = None /\ Goes(t, "look")
             /\ UNCHANGED <<files, users, mtime, now, added>>

-----------------------------------------------------------------------------
\* somebody adds a user to the file by other means (external)
Edit == /\ name # 0 /\ Changes /\ lock = None
        /\ \E u \in Others \ Entries(name) :
              files' = [files EXCEPT ![name] = [lines |-> Append(@.lines, u), time |-> now']]
        /\ UNCHANGED <<name, tmp, users, mtime, lock, thread, faults, added>>

\* the process ends and is started again: auth_get_htpasswd_auth reads the file,
\* and without one begins with an empty tree
Restart == /\ faults < MaxFaults /\ faults' = faults + 1
           /\ thread' = [t \in Threads |-> Idle] /\ lock' = None
           /\ users' = (IF name = 0 THEN {} ELSE Entries(name))
           /\ mtime' = (IF name = 0 THEN 0 ELSE files[name].time)
           /\ UNCHANGED <<files, name, tmp, now, added>>

Next == \/ \E t \in Threads : \/ Begin(t) \/ Stat(t) \/ Open(t) \/ Install(t) \/ Use(t)
                              \/ Add(t) \/ CannotDelete(t) \/ Copy(t) \/ RemoveOld(t) \/ RenameNew(t)
        \/ Edit \/ Restart
Spec == Init /\ [][Next]_vars

-----------------------------------------------------------------------------
\* A user that was added and not deleted is in the file or, if replacing it did
\* not come to its end, in the second one.
NoneLost == \A u \in added : \E f \in {name, tmp} \ {0} : u \in Entries(f)

\* When nobody is reading and the file's time is the one remembered, so that it
\* would not be read again, the tree has the users of the file.
TreeCurrent ==
    Looking = {} /\ name # 0 /\ files[name].time = mtime => users = Entries(name)

\* A user is in a file once.
NoneTwice == \A f \in 1..Len(files) : Cardinality(Entries(f)) = Len(files[f].lines)

UsersKept == TypeOK /\ NoneLost /\ TreeCurrent /\ NoneTwice
=============================================================================
