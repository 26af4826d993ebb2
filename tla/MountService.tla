---------------------------- MODULE MountService ----------------------------
(***************************************************************************)
(* What the mountpoints promise their listeners, without listener counts,  *)
(* locks or workers: a source opens, may call its listeners elsewhere any  *)
(* number of times, stops taking listeners, and is over once it has none.  *)
(* A listener changes source only when called, through a moment on none,   *)
(* and gets to a source that is open and keeps its listeners.              *)
(***************************************************************************)
CONSTANTS Sources, Listeners, Mount, Nowhere, File, Transit

VARIABLES
  life,          (* A source is "none" yet, "open", "ending" or "over".    *)
  calling,       (* Sources whose listeners are called elsewhere.          *)
  where          (* The source a listener is on, File, Transit or Nowhere. *)

vars == <<life, calling, where>>

Init ==
  /\ life = [s \in Sources |-> "none"]
  /\ calling = {}
  /\ where = [l \in Listeners |-> Nowhere]

(* One open source for a name.                                             *)
Open(s) ==
  /\ life[s] = "none"
  /\ \A r \in Sources : Mount[r] = Mount[s] => life[r] # "open"
  /\ life' = [life EXCEPT ![s] = "open"]
  /\ UNCHANGED <<calling, where>>

Call(s) ==
  /\ life[s] \in {"open", "ending"}
  /\ calling' = calling \cup {s}
  /\ UNCHANGED <<life, where>>

CallOff(s) ==
  /\ life[s] = "open"
  /\ calling' = calling \ {s}
  /\ UNCHANGED <<life, where>>

Close(s) ==
  /\ life[s] = "open"
  /\ life' = [life EXCEPT ![s] = "ending"]
  /\ calling' \in {calling, calling \cup {s}}
  /\ UNCHANGED where

End(s) ==
  /\ life[s] \in {"open", "ending"}
  /\ \A l \in Listeners : where[l] # s
  /\ life' = [life EXCEPT ![s] = "over"]
  /\ calling' = calling \ {s}
  /\ UNCHANGED where

Takes(s) == life[s] = "open" /\ s \notin calling

Arrive(l, s) ==
  /\ where[l] \in {Nowhere, Transit}
  /\ Takes(s)
  /\ where' = [where EXCEPT ![l] = s]
  /\ UNCHANGED <<life, calling>>

(* Called elsewhere.                                                       *)
Go(l, s) ==
  /\ where[l] = s /\ s \in calling
  /\ where' = [where EXCEPT ![l] = Transit]
  /\ UNCHANGED <<life, calling>>

(* Taken in by the file server.                                            *)
ToFile(l) ==
  /\ where[l] = Transit
  /\ where' = [where EXCEPT ![l] = File]
  /\ UNCHANGED <<life, calling>>

Leave(l) ==
  /\ where[l] # Nowhere
  /\ where' = [where EXCEPT ![l] = Nowhere]
  /\ UNCHANGED <<life, calling>>

Next ==
  \/ \E s \in Sources : Open(s) \/ Call(s) \/ CallOff(s) \/ Close(s) \/ End(s)
  \/ \E l \in Listeners :
       ToFile(l) \/ Leave(l) \/ \E s \in Sources : Arrive(l, s) \/ Go(l, s)

Spec == Init /\ [][Next]_vars
=============================================================================
