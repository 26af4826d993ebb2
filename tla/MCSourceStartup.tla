-------------------------- MODULE MCSourceStartup --------------------------
(***************************************************************************)
(* Small instances of SourceStartup.  In OneByOne each client finds the    *)
(* one before it settled; in AnyOrder they hijack, overlap, fail to get    *)
(* locks and are killed.                                                   *)
(***************************************************************************)
EXTENDS SourceStartup

CONSTANTS u1, u2, u3, u4, u5

OneByOne ==
  [comes |-> {u1, u2, u3, u4, u5}, hijackers |-> {}, bad |-> {u4}, keeps |-> {u2, u4},
   kill |-> FALSE, contended |-> FALSE, alone |-> TRUE, limit |-> 2]
AnyOrder ==
  [comes |-> {u1, u2, u3, u4}, hijackers |-> {u2}, bad |-> {u3}, keeps |-> {u1},
   kill |-> TRUE, contended |-> TRUE, alone |-> FALSE, limit |-> 1]
Two ==
  [OneByOne EXCEPT !.comes = {u1, u2}, !.bad = {}, !.keeps = {}, !.contended = TRUE]

Either   == {OneByOne, AnyOrder}
OnlyTwo  == {Two}
=============================================================================
