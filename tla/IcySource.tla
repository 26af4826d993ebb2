----------------------------- MODULE IcySource -----------------------------
(***************************************************************************)
(* How an MPEG stream with inserts of metadata is read from its source     *)
(* (src/src/format_mp3.c, src/src/mpeg.c).                                 *)
(*                                                                         *)
(* complete_read fills a block; mp3_get_filter_meta takes the inserts out  *)
(* of it, which come after every `interval' bytes and may be cut anywhere  *)
(* by the end of a block; validate_mpeg leaves whole frames in the block,  *)
(* which goes to the queue, and keeps the bytes of the frame begun: they   *)
(* start the next block, and offset is taken back by their number, below   *)
(* zero if an insert was among them, or, when the insert comes next, they  *)
(* are the surplus put before the next block once that is filtered.        *)
(*                                                                         *)
(* A byte of the stream proper is its number, from 1; the first byte of an *)
(* insert is minus one minus the number of bytes to follow, which are 0.   *)
(***************************************************************************)
EXTENDS Integers, Sequences, SequencesExt, FiniteSetsExt

CONSTANTS
  Setups,        (* What the source sends: records of interval (0: without *)
                 (* inserts), tag (bytes of a leading ID3 tag), skew (how   *)
                 (* far into a frame the audio starts) and frame (length). *)
  InsertSizes,   (* The sizes of the inserts, in turn.                     *)
  BlockSizes,    (* What size_up_qblock may choose.                        *)
  Least,         (* Fewer bytes than this are not looked at.               *)
  CheckFrames,   (* Frames needed to recognise the format.                 *)
  LastByte       (* Bound of the model: the stream's length.               *)

VARIABLES
  setup,         (* One of Setups.                                         *)
  sent,          (* Bytes of the stream proper the source has sent.        *)
  insert,        (* Its inserts begun, and the bytes of the last to come.  *)
  read_data,     (* The bytes read, filtered or not, ...                   *)
  size,          (* ... the size of the block they are for, ...            *)
  offset,        (* ... and the bytes taken since the last insert.         *)
  build,         (* build_metadata_len and _offset: an insert cut in two.  *)
  surplus,       (* mpeg_sync.surplus.                                     *)
  synced,        (* The format has been recognised (mask).                 *)
  queued         (* All the bytes put on the queue.                        *)

icyVars == <<setup, sent, insert, read_data, size, offset, build, surplus, synced,
             queued>>

NoInsert == [len |-> 0, off |-> 0]

InitWith(s) ==
  /\ setup = s /\ sent = 0 /\ insert = [count |-> 0, left |-> 0]
  /\ read_data = <<>> /\ size \in BlockSizes /\ offset = 0 /\ build = NoInsert
  /\ surplus = <<>> /\ synced = FALSE /\ queued = <<>>

Init == \E s \in Setups : InitWith(s)

(* Whether a frame begins at this byte, and the first that does.           *)
IsHead(b)  == b > setup.tag /\ (b - setup.tag - 1 + setup.skew) % setup.frame = 0
FirstFrame == CHOOSE b \in 1..LastByte : IsHead(b) /\ \A c \in 1..(b - 1) : ~IsHead(c)

----------------------------------------------------------------------------
(* complete_read, a byte at a time, until the block is full.               *)
Read(b) ==
  /\ Len(read_data) < size
  /\ read_data' = Append(read_data, b)
  /\ UNCHANGED <<setup, size, offset, build, surplus, synced, queued>>

ReadAudio ==
  /\ sent < LastByte /\ insert.left = 0
  /\ setup.interval > 0 => sent < setup.interval * (insert.count + 1)
  /\ sent' = sent + 1 /\ UNCHANGED insert /\ Read(sent + 1)

ReadInsert ==
  /\ setup.interval > 0
  /\ \/ /\ insert.left = 0 /\ sent = setup.interval * (insert.count + 1)
        /\ LET n == InsertSizes[(insert.count % Len(InsertSizes)) + 1] IN
           /\ insert' = [count |-> insert.count + 1, left |-> n]
           /\ Read(-1 - n)
     \/ /\ insert.left > 0
        /\ insert' = [insert EXCEPT !.left = @ - 1]
        /\ Read(0)
  /\ UNCHANGED sent

----------------------------------------------------------------------------
(* The loop of mp3_get_filter_meta, for one byte.  A byte of the stream    *)
(* taken for the length of an insert is as good as any: what follows is    *)
(* dropped, and parse_icy_metadata finds no title in it.                   *)
FilterByte(f, b) ==
  IF f.offset < setup.interval
  THEN [f EXCEPT !.out = Append(@, b), !.offset = @ + 1]
  ELSE LET len == IF f.len # 0 THEN f.len ELSE IF b < 0 THEN -b ELSE b IN
       IF f.off + 1 = len THEN [f EXCEPT !.offset = 0, !.len = 0, !.off = 0]
       ELSE [f EXCEPT !.len = len, !.off = @ + 1]

Filtered ==
  IF setup.interval = 0
  THEN [out |-> read_data, offset |-> offset, len |-> 0, off |-> 0]
  ELSE FoldLeft(FilterByte, [out |-> <<>>, offset |-> offset, len |-> build.len,
                             off |-> build.off], read_data)

(* find_align_sync: the bytes to skip to the next header, if there is one. *)
Skip(s) ==
  LET heads == {i \in 1..(Len(s) - 2) : IsHead(s[i])} IN
  IF heads = {} THEN Len(s) - 2 ELSE Min(heads) - 1

(* Fewer bytes are left than the next frame has, or, while the format is   *)
(* not known, than check_for_aac and check_for_mp3 want to see.            *)
NeedsMore(k, known) == k < setup.frame * (IF known THEN 1 ELSE CheckFrames)

(* check_for_id3: the stream's tag is not whole yet.                       *)
TagBegins(b, k) == b = 1 /\ setup.tag > k

(* mpeg_complete_frames on the bytes s: the whole frames, what is left,    *)
(* whether the format is known then, and whether the block is to be        *)
(* expanded to hold a tag.                                                 *)
Frames(s) ==
  LET Suffix(k) == SubSeq(s, Len(s) - k + 1, Len(s))
      f[k \in 0..Len(s), known \in BOOLEAN] ==
        LET t == Suffix(k)
            Stop == [out |-> <<>>, rest |-> t, known |-> known, expand |-> FALSE] IN
        IF k < Least THEN Stop
        ELSE IF ~known /\ TagBegins(t[1], k) THEN [Stop EXCEPT !.expand = TRUE]
        ELSE IF ~IsHead(t[1]) THEN f[k - Skip(t), known]
        ELSE IF NeedsMore(k, known) THEN Stop
        ELSE LET g == f[k - setup.frame, TRUE] IN
             [g EXCEPT !.out = SubSeq(t, 1, setup.frame) \o @] IN
  f[Len(s), synced]

(* Mutant: they are counted a second time.                                 *)
Rewound_Counted(n) == 0

(* The bytes kept are read again, so they are taken off the count.         *)
Rewound(n) == IF setup.interval > 0 THEN n ELSE 0

(* mp3_get_filter_meta, or mp3_get_no_meta, once the block is full, with   *)
(* validate_mpeg.                                                          *)
Get ==
  /\ Len(read_data) = size
  /\ build' = [len |-> Filtered.len, off |-> Filtered.off]
  /\ IF Filtered.out = <<>>
     THEN /\ offset' = Filtered.offset /\ read_data' = <<>> /\ size' \in BlockSizes
          /\ UNCHANGED <<surplus, synced, queued>>
     ELSE LET a == Frames(surplus \o Filtered.out)
              atInsert == setup.interval > 0 /\ setup.interval <= Filtered.offset IN
          /\ synced' = a.known /\ queued' = queued \o a.out
          /\ IF a.expand
             THEN /\ size' = setup.tag /\ read_data' = a.rest /\ surplus' = <<>>
                  /\ offset' = Filtered.offset
             ELSE IF atInsert
             THEN /\ surplus' = a.rest /\ read_data' = <<>>
                  /\ offset' = Filtered.offset /\ size' \in BlockSizes
             ELSE /\ surplus' = <<>> /\ read_data' = a.rest
                  /\ offset' = Filtered.offset - Rewound(Len(a.rest))
                  /\ size' \in {n \in BlockSizes : n >= Len(a.rest) + 1}
                       \cup {Len(a.rest) + 2}
  /\ UNCHANGED <<setup, sent, insert>>

Next == ReadAudio \/ ReadInsert \/ Get

Spec == Init /\ [][Next]_icyVars

----------------------------------------------------------------------------
Audio(s) == SelectSeq(s, LAMBDA b : b > 0)

(* Sequences of bytes, and the counters of the reader, are what they are   *)
(* declared: offset is unsigned in the code, and below zero it wraps, but  *)
(* never by more than the bytes kept.                                      *)
TypeOK ==
  /\ \A s \in {read_data, surplus, queued} : \A i \in 1..Len(s) : s[i] \in Int
  /\ Len(read_data) <= size /\ synced \in BOOLEAN
  /\ offset <= setup.interval /\ -offset <= Len(read_data)
  /\ build.off <= build.len

(* The queue gets whole frames, in order, beginning with the first one.    *)
WholeFrames ==
  /\ Len(queued) % setup.frame = 0
  /\ queued = [i \in 1..Len(queued) |-> FirstFrame + i - 1]

(* Once the format is known every byte read is on the queue or still held, *)
(* once and in its place, wherever blocks and inserts begin and end.       *)
NothingLost ==
  synced =>
    queued \o surplus \o Audio(read_data) = [i \in 1..(sent - FirstFrame + 1) |-> FirstFrame + i - 1]
============================================================================
