----------------------------- MODULE MCListening -----------------------------
(* A small instance of Listening: one of two mountpoints has a rate for    *)
(* files, and neither has a fallback.                                      *)
EXTENDS Listening

OneWithRate ==
  {[block |-> [m \in Mounts |-> m],
    of |-> [m \in Mounts |-> [max |-> -1, auth |-> None, overflow |-> FALSE, fallback |-> None,
                              rate |-> m = "a", nomount |-> FALSE, rejected |-> None]]]}
=============================================================================
