-------------------------------- MODULE MCFront --------------------------------
(***************************************************************************)
(* What stands at the front of the server: the listening sockets and the   *)
(* clients they admit, the bans, the users with a password, and the        *)
(* listings at directories.  As in MCServices a behaviour runs one part.   *)
(***************************************************************************)
EXTENDS Admission, BanList, Directory

CONSTANTS
  Handlers, Admins, Users, Others, Apart, Alone, MaxWrites, MaxFaults

VARIABLES
  files, name, tmp, users, mtime, lock, thread, clock, faults, added,
  part

P == INSTANCE PasswordFile WITH now <- clock, MaxChanges <- MaxWrites

logins == <<files, name, tmp, users, mtime, lock, thread, clock, faults, added>>
vars  == <<doors, bans, lists, logins, part>>

Init ==
  /\ part \in {"doors", "bans", "lists", "logins"}
  /\ DoorsInit
  /\ BansInit /\ (part = "bans" \/ file = {})
  /\ ListsInit /\ (part = "lists" \/ joining = {})
  /\ P!Init /\ (part = "logins" \/ users = {})

Next ==
  \/ part = "doors" /\ DoorsNext /\ UNCHANGED <<bans, lists, logins, part>>
  \/ part = "bans"  /\ BansNext /\ UNCHANGED <<doors, lists, logins, part>>
  \/ part = "lists" /\ ListsNext /\ UNCHANGED <<doors, bans, logins, part>>
  \/ part = "logins" /\ P!Next /\ UNCHANGED <<doors, bans, lists, part>>

Spec ==
  /\ Init /\ [][Next]_vars
  /\ WF_lists(part = "lists" /\ ThreadStep)
  /\ WF_lists(part = "lists" /\ TimePasses)
  /\ WF_lists(part = "lists" /\ (Detaches \/ Applies))

(* No user is lost whatever step of replacing the file fails, none is put  *)
(* in twice, and what is used to check passwords is the file as it was     *)
(* when last written (auth_htpasswd.c htpasswd_recheckfile,                *)
(* htpasswd_deleteuser).                                                   *)
UsersKept == part = "logins" => P!UsersKept
================================================================================
