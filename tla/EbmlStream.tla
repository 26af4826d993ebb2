----------------------------- MODULE EbmlStream -----------------------------
(***************************************************************************)
(* How a Matroska or WebM stream is cut into blocks                        *)
(* (src/src/format_ebml.c).                                                *)
(*                                                                         *)
(* The stream is a header and clusters, each of which begins with an id of *)
(* four bytes.  ebml_wrote takes in what was read and looks for the id, in *)
(* it and across the boundary to what came before; ebml_get_buffer takes   *)
(* the header off once, and then blocks for the queue: up to the cluster   *)
(* found last, or all but the last four bytes.  A block that begins a      *)
(* cluster is where a listener may start.                                  *)
(*                                                                         *)
(* A byte is its place in the stream; 0 is a byte of memory that is not    *)
(* the stream's.                                                           *)
(***************************************************************************)
EXTENDS Integers, Sequences, FiniteSetsExt

CONSTANTS
  Streams,       (* What a source may send: the places where clusters begin.*)
  Reads,         (* How many bytes client_read_bytes may return.           *)
  StreamEnd      (* Bound of the model: the stream's length.               *)

VARIABLES
  clusters,      (* One of Streams.                                        *)
  received,      (* Bytes read from the source.                            *)
  header,        (* ebml->header, ...                                      *)
  header_size,   (* ... its length once known, ...                         *)
  header_read,   (* ... and whether it was taken off, to ...               *)
  source_header, (* ... ebml_source_state->header.                         *)
  buffer,        (* ebml->buffer up to position.                           *)
  cluster_start, (* Where a cluster begins in it; -1: at its start, and    *)
                 (* -2: none is known.                                     *)
  tail,          (* The last three bytes read.                             *)
  queued,        (* Bytes queued before ...                                *)
  block          (* ... the last block, and whether listeners start there. *)

ebmlVars == <<clusters, received, header, header_size, header_read, source_header,
              buffer, cluster_start, tail, queued, block>>

EbmlInit ==
  /\ clusters \in Streams /\ received = 0
  /\ header = <<>> /\ header_size = 0 /\ header_read = FALSE /\ source_header = <<>>
  /\ buffer = <<>> /\ cluster_start = -2 /\ tail = <<>>
  /\ queued = 0 /\ block = [bytes |-> <<>>, sync |-> FALSE]

(* The letters of the id that s has from its place i on.                   *)
Letter(b)  == LET c == {s \in clusters : b \in s..(s + 3)} IN
              IF c = {} THEN 0 ELSE b - Max(c) + 1
IdAt(s, i) == i + 3 <= Len(s) /\ \A k \in 0..3 : Letter(s[i + k]) = k + 1

(* What is looked at across the boundary is four bytes: the tail and what  *)
(* is missing to four of it.                                               *)
Straddles(s) == Len(tail) > 0 /\ Len(s) >= 4 /\ IdAt(tail \o SubSeq(s, 1, 4 - Len(tail)), 1)

(* What is kept for the next time; a read of one or two bytes is appended  *)
(* to the three there are, past the end of the array and, the second, into *)
(* its length.                                                             *)
Tails(s) ==
  IF Len(s) >= 3 THEN {SubSeq(s, Len(s) - 2, Len(s))}
  ELSE LET t == tail \o s IN
       {SubSeq(t, 1, k) : k \in IF Len(t) = 5 THEN {2, 3} ELSE {IF Len(t) > 3 THEN 3 ELSE Len(t)}}

----------------------------------------------------------------------------
(* ebml_read_space                                                         *)
ReadSpace ==
  IF ~header_read THEN header_size
  ELSE IF cluster_start > 0 THEN cluster_start ELSE Len(buffer) - 4

(* The header ends: what follows it begins the buffer.                     *)
HeaderEnds(size, rest) ==
  /\ header_size' = size /\ buffer' = rest /\ cluster_start' = -1 /\ tail' = <<>>

(* A mutant of FoundAt: the place is counted from the new bytes.           *)
FoundAt_InNew(k) == k

(* A cluster begins k bytes into those that are new, or -k before them.    *)
FoundAt(k) == Len(buffer) + k

(* ebml_wrote: no header end is known yet.                                 *)
WroteHeader(s) ==
  /\ header_size = 0 /\ header' = header \o s
  /\ LET ids == {i \in 1..Len(s) : IdAt(s, i)} IN
     IF Straddles(s)
     THEN HeaderEnds(Len(header) - Len(tail), [i \in 1..Len(tail) |-> 0] \o s)
     ELSE IF ids # {}
     THEN HeaderEnds(Len(header) + Min(ids) - 1, SubSeq(s, Min(ids), Len(s)))
     ELSE tail' \in Tails(s) /\ UNCHANGED <<header_size, buffer, cluster_start>>

(* ebml_wrote: the last cluster in the bytes read is the one noted.        *)
WroteData(s) ==
  /\ header_size > 0 /\ UNCHANGED <<header, header_size>>
  /\ buffer' = buffer \o s
  /\ LET ids == {i \in 1..Len(s) : IdAt(s, i)} IN
     cluster_start' = IF ids # {} THEN FoundAt(Max(ids) - 1)
                      ELSE IF Straddles(s) THEN FoundAt(-Len(tail)) ELSE cluster_start
  /\ tail' \in Tails(s)

(* ebml_get_buffer reads when there is nothing to be had.                  *)
Wrote ==
  /\ ReadSpace < 1
  /\ \E n \in Reads :
       LET s == [i \in 1..n |-> received + i] IN
       /\ received + n <= StreamEnd /\ received' = received + n
       /\ WroteHeader(s) \/ WroteData(s)
  /\ UNCHANGED <<clusters, header_read, source_header, queued, block>>

(* The header is taken off.                                                *)
GetHeader ==
  /\ ~header_read /\ ReadSpace > 0
  /\ source_header' = SubSeq(header, 1, header_size) /\ header_read' = TRUE
  /\ UNCHANGED <<clusters, received, header, header_size, buffer, cluster_start, tail, queued, block>>

(* ebml_read of a block, and ebml_last_was_sync.                           *)
GetBlock ==
  /\ header_read /\ ReadSpace > 0
  /\ LET n     == ReadSpace
         start == IF cluster_start > 0 THEN 0 ELSE cluster_start IN
     /\ queued' = queued + Len(block.bytes)
     /\ block' = [bytes |-> SubSeq(buffer, 1, n), sync |-> start = -1]
     /\ buffer' = SubSeq(buffer, n + 1, Len(buffer))
     /\ cluster_start' = IF start \in {0, -1} THEN start - 1 ELSE start
  /\ UNCHANGED <<clusters, received, header, header_size, header_read, source_header, tail>>

EbmlNext == Wrote \/ GetHeader \/ GetBlock

EbmlSpec == EbmlInit /\ [][EbmlNext]_ebmlVars

----------------------------------------------------------------------------
(* Sizes and places are inside what they are about.                        *)
EbmlTypeOK ==
  /\ header_size \in 0..Len(header) /\ Len(tail) \in 0..3
  /\ cluster_start \in -2..Len(buffer) /\ received \in 0..StreamEnd

(* The header and the blocks are the stream's bytes, each once and in its  *)
(* place; only the first three bytes of the first cluster may be others,   *)
(* when its id came in two reads.                                          *)
BytesKept ==
  header_read =>
    LET rest == block.bytes \o buffer IN
    /\ source_header = [i \in 1..header_size |-> i]
    /\ header_size + queued + Len(rest) = received
    /\ \A i \in 1..Len(rest) : rest[i] = header_size + queued + i
                                 \/ (rest[i] = 0 /\ queued + i < 4)

(* The header ends where a cluster begins, but the first of them may be    *)
(* overlooked.                                                             *)
HeaderEndsAtCluster == header_size > 0 => header_size + 1 \in clusters

(* A block where listeners may start begins with a cluster.                *)
SyncAtCluster == block.sync => header_size + queued + 1 \in clusters
=============================================================================
