------------------------------ MODULE IcyMeta ------------------------------
(***************************************************************************)
(* Titles on their way to the listeners of an MPEG stream                  *)
(* (src/src/format_mp3.c).                                                 *)
(*                                                                         *)
(* mp3_set_tag notes a title, metadata_setup makes a metadata_block of it  *)
(* once the one before went on the queue, and every queue block counts the *)
(* metadata_block that was current when it was read.  A listener that asks *)
(* for inserts gets one after every `interval' bytes, a null byte if it is *)
(* the one it had before; one that asks for iceblocks gets every block     *)
(* whole, with a length, and after a changed metadata_block.  Every write  *)
(* may be short, and goes on from where it stopped.                        *)
(*                                                                         *)
(* The stream's bytes are numbered; a byte that a listener receives is a   *)
(* record of the packet it is of (an insert, an iceblock, a single byte),  *)
(* its place in it and the number of bytes the packet has.                 *)
(***************************************************************************)
EXTENDS Integers, Sequences, SequencesExt, FiniteSets

CONSTANTS
  Blocks,        (* Memory for metadata_block, reused once freed.          *)
  NoMeta,
  Titles,        (* url_title, ...                                         *)
  Blank,         (* ... the one a stream begins with, ...                  *)
  Same,          (* ... and the null byte sent for "the same as before".   *)
  Kinds,         (* What the listener may ask for: "icy", "iceblocks".     *)
  Interval,      (* mp3_client_data.interval.                              *)
  BlockLen,      (* Bytes of a queue block.                                *)
  InsertLen,     (* Bytes of icy, and of iceblock.                         *)
  MaxQueue,      (* Bound of the model: blocks queued, ...                 *)
  MaxBlocks,     (* ... read, ...                                          *)
  MaxTags,       (* ... titles set, ...                                    *)
  Recycled       (* ... and whether memory freed is used again at once.    *)

ASSUME TitlesAssumption ==
  /\ IsFiniteSet(Blocks) /\ Blocks # {} /\ NoMeta \notin Blocks
  /\ Same \notin Titles \cup {Blank}
  /\ {"audio", "block"} \cap (Titles \cup {Blank, Same}) = {}
  /\ Kinds \subseteq {"icy", "iceblocks"} /\ {Interval, BlockLen, InsertLen} \subseteq Nat \ {0}
  /\ {MaxQueue, MaxBlocks, MaxTags} \subseteq Nat /\ Recycled \in BOOLEAN

VARIABLES
  mb,            (* metadata_block: its count, whether it was on_queue.    *)
  current,       (* mp3_state.metadata                                     *)
  url_title,     (* mp3_state.url_title, and update_metadata.              *)
  title_queue,   (* The queue: blocks with their number and metadata.      *)
  read,          (* Blocks read so far.                                    *)
  tags,          (* Titles set so far.                                     *)
  hearer,        (* The listener: refbuf, client->pos, mp3_client_data, ...*)
  ear            (* ... and what it makes of the bytes it gets.            *)

titles == <<mb, current, url_title, title_queue, read, tags, hearer, ear>>

FreeMeta == [count |-> 0, on_queue |-> FALSE, title |-> Blank, used |-> FALSE]
Nowhere  == [id |-> 0, meta |-> NoMeta]

TitlesInit ==
  /\ current = CHOOSE b \in Blocks : TRUE
  /\ mb = [b \in Blocks |-> IF b = current THEN [FreeMeta EXCEPT !.count = 1, !.used = TRUE]
                            ELSE FreeMeta]
  /\ url_title = [title |-> Blank, update |-> FALSE]
  /\ title_queue = <<>> /\ read = 0 /\ tags = 0
  /\ \E k \in Kinds :
       hearer = [kind |-> k, ref |-> Nowhere, pos |-> 0, since |-> 0, offset |-> 0,
                 in_meta |-> FALSE, associated |-> NoMeta, queue_pos |-> 0, due |-> Blank]
  /\ ear = [p |-> Same, i |-> 1, n |-> 1, since |-> 0, next |-> 1, heard |-> Blank, ok |-> TRUE]

(* metadata_blk_release, metadata_blk_ref_inc                              *)
Released(m, b) == [m EXCEPT ![b].count = @ - 1]
Counted(m, b)  == [m EXCEPT ![b].count = @ + 1]
Unused(m)      == {b \in Blocks : m[b].count = 0 /\ (m[b].used => Recycled)}

----------------------------------------------------------------------------
(* The source.                                                             *)

(* mp3_set_tag of a title, and of the end of the tags; or an insert that   *)
(* parse_icy_metadata found a title in.                                    *)
SetTag(t) ==
  /\ tags < MaxTags /\ tags' = tags + 1
  /\ url_title' = [title |-> t, update |-> TRUE]
  /\ UNCHANGED <<mb, current, title_queue, read, hearer, ear>>

(* metadata_setup                                                          *)
MetadataSetup ==
  /\ url_title.update
  /\ mb[current].on_queue \/ title_queue = <<>>
  /\ \E b \in Unused(Released(mb, current)) :
       /\ mb' = [Released(mb, current) EXCEPT
                   ![b] = [count |-> 1, on_queue |-> FALSE, title |-> url_title.title,
                           used |-> TRUE]]
       /\ current' = b
  /\ url_title' = [url_title EXCEPT !.update = FALSE]
  /\ UNCHANGED <<title_queue, read, tags, hearer, ear>>

(* The end of mp3_get_no_meta and mp3_get_filter_meta.                     *)
Push ==
  /\ read < MaxBlocks /\ Len(title_queue) < MaxQueue
  /\ read' = read + 1
  /\ title_queue' = Append(title_queue, [id |-> read + 1, meta |-> current])
  /\ mb' = [Counted(mb, current) EXCEPT ![current].on_queue = TRUE]
  /\ UNCHANGED <<current, url_title, tags, hearer, ear>>

(* format_mpeg_detach_qb, when the head of the queue is let go; a listener *)
(* is never on it then.                                                    *)
DetachQueueBlock ==
  /\ Len(title_queue) > 1 /\ hearer.ref # Head(title_queue)
  /\ title_queue' = Tail(title_queue) /\ mb' = Released(mb, Head(title_queue).meta)
  /\ UNCHANGED <<current, url_title, read, tags, hearer, ear>>

----------------------------------------------------------------------------
(* The listener.                                                           *)
Audio(i) == [p |-> "audio", i |-> 1, n |-> 1, num |-> i]
Packet(p, len) == [i \in 1..len |-> [p |-> p, i |-> i, n |-> len, num |-> 0]]
FirstOf(block) == (block.id - 1) * BlockLen + 1
Stream(block)  == [i \in 1..BlockLen |-> Audio(FirstOf(block) + i - 1)]
Iceblock(block) ==
  [i \in 1..(BlockLen + 2) |-> [p |-> "block", i |-> i, n |-> BlockLen + 2,
                                num |-> IF i < 3 THEN 0 ELSE FirstOf(block) + i - 3]]

(* A byte reaches the listener: packets come whole, and the inserts where  *)
(* the interval says.                                                      *)
Hears(e, b) ==
  LET insert == b.p \notin {"audio", "block"} IN
  [e EXCEPT
     !.ok = /\ @
            /\ IF e.i = e.n THEN b.i = 1 ELSE b.p = e.p /\ b.i = e.i + 1 /\ b.n = e.n
            /\ b.num \in {0, e.next}
            /\ b.p = "audio" => hearer.kind = "icy" /\ e.since < Interval
            /\ insert /\ hearer.kind = "icy" => e.since = Interval,
     !.p = b.p, !.i = b.i, !.n = b.n,
     !.since = IF b.p = "audio" THEN @ + 1 ELSE IF insert /\ b.i = b.n THEN 0 ELSE @,
     !.next = IF b.num = 0 THEN @ ELSE b.num + 1,
     !.heard = IF insert /\ b.i = b.n /\ b.p # Same THEN b.p ELSE @]

Heard(bytes, n) ==
  LET heard[k \in 0..n] == IF k = 0 THEN ear ELSE Hears(heard[k - 1], bytes[k])
  IN  heard[n]

Meta == hearer.ref.meta
On   == hearer.ref # Nowhere
OnSame == Meta = hearer.associated

(* The listener is put on a block, or goes to the next.                    *)
Starts ==
  /\ ~On /\ \E k \in 1..Len(title_queue) :
       /\ hearer' = [hearer EXCEPT !.ref = title_queue[k],
                       !.queue_pos = FirstOf(title_queue[k]) - 1]
       /\ ear' = [ear EXCEPT !.next = FirstOf(title_queue[k])]
  /\ UNCHANGED <<mb, current, url_title, title_queue, read, tags>>

NextBlock ==
  /\ On /\ hearer.pos = BlockLen
  /\ \E k \in 1..Len(title_queue) :
       /\ title_queue[k].id = hearer.ref.id + 1
       /\ hearer' = [hearer EXCEPT !.ref = title_queue[k], !.pos = 0]
  /\ UNCHANGED <<mb, current, url_title, title_queue, read, tags, ear>>

(* format_mp3_write_buf_to_client between two inserts.                     *)
LesserOf(a, b) == IF a < b THEN a ELSE b
SendsAudio ==
  /\ On /\ hearer.kind = "icy" /\ hearer.pos < BlockLen /\ hearer.since # Interval
  /\ LET len   == LesserOf(BlockLen - hearer.pos, Interval - hearer.since)
         bytes == SubSeq(Stream(hearer.ref), hearer.pos + 1, hearer.pos + len) IN
     \E ret \in 1..len :
       /\ ear' = Heard(bytes, ret)
       /\ hearer' = [hearer EXCEPT !.since = @ + ret, !.pos = @ + ret, !.queue_pos = @ + ret]
  /\ UNCHANGED <<mb, current, url_title, title_queue, read, tags>>

(* Mutant: the place reached in the insert is kept.                        *)
InsertDone_KeepsPlace(past) ==
  [hearer EXCEPT !.queue_pos = @ + past, !.since = past, !.pos = @ + past,
                 !.in_meta = FALSE, !.associated = Meta, !.due = mb[Meta].title]

(* The insert is out, and past bytes of the stream after it.               *)
InsertDone(past) ==
  [hearer EXCEPT !.queue_pos = @ + past, !.since = past, !.pos = @ + past,
                 !.in_meta = FALSE, !.offset = 0, !.associated = Meta,
                 !.due = mb[Meta].title]

(* send_icy_metadata                                                       *)
SendsInsert ==
  /\ On /\ hearer.kind = "icy" /\ hearer.pos < BlockLen /\ hearer.since = Interval
  /\ LET insert == IF OnSame /\ ~hearer.in_meta THEN Packet(Same, 1)
                   ELSE SubSeq(Packet(mb[Meta].title, InsertLen), hearer.offset + 1, InsertLen)
         len    == LesserOf(BlockLen - hearer.pos, Interval)
         bytes  == insert \o SubSeq(Stream(hearer.ref), hearer.pos + 1, hearer.pos + len) IN
     \E ret \in 1..Len(bytes) :
       /\ ear' = Heard(bytes, ret)
       /\ LET past == ret - Len(insert) IN
          hearer' = IF past >= 0 THEN InsertDone(past)
            ELSE [hearer EXCEPT !.in_meta = TRUE, !.offset = @ + ret]
  /\ UNCHANGED <<mb, current, url_title, title_queue, read, tags>>

(* send_iceblock_to_client                                                 *)
SendsIceblock ==
  /\ On /\ hearer.kind = "iceblocks" /\ hearer.pos < BlockLen
  /\ LET meta  == IF OnSame THEN <<>> ELSE Packet(mb[Meta].title, InsertLen)
         skip  == Len(meta) + 2
         whole == meta \o Iceblock(hearer.ref)
         bytes == SubSeq(whole, hearer.offset + 1, Len(whole)) IN
     \E ret \in 1..Len(bytes) :
       /\ ear' = Heard(bytes, ret)
       /\ LET at == [hearer EXCEPT
                       !.queue_pos = @ + ret - (IF hearer.offset < skip
                                                THEN skip - hearer.offset ELSE 0),
                       !.offset = @ + ret] IN
          hearer' = IF at.offset < Len(whole) THEN at
            ELSE [at EXCEPT !.pos = BlockLen, !.offset = 0, !.associated = Meta,
                            !.due = mb[Meta].title]
  /\ UNCHANGED <<mb, current, url_title, title_queue, read, tags>>

TitlesNext ==
  \/ \E t \in Titles : SetTag(t)
  \/ MetadataSetup \/ Push \/ DetachQueueBlock
  \/ Starts \/ NextBlock \/ SendsAudio \/ SendsInsert \/ SendsIceblock

TitlesSpec == TitlesInit /\ [][TitlesNext]_titles

----------------------------------------------------------------------------
(* Counters stay in their ranges: the write position in an insert, the     *)
(* distance to the next and the reference counts.                          *)
TitlesTypeOK ==
  /\ \A b \in Blocks : mb[b].count \in 0..(MaxQueue + 1)
  /\ hearer.pos \in 0..BlockLen /\ hearer.since \in 0..Interval
  /\ hearer.kind = "icy" => hearer.offset \in 0..(InsertLen - 1)
  /\ hearer.offset \in 0..(InsertLen + BlockLen + 1)

(* A metadata_block is counted once by every queue block that has it and   *)
(* once as the current one: none is freed that the queue refers to.        *)
MetaCounted ==
  \A b \in Blocks :
    mb[b].count = Cardinality({k \in 1..Len(title_queue) : title_queue[k].meta = b})
                  + (IF current = b THEN 1 ELSE 0)

(* However writes are cut short, a listener gets the stream's bytes in     *)
(* order, every insert whole, of one title, and after Interval bytes.      *)
WireSound == ear.ok

(* After an insert, or a block, the listener knows the title its block is  *)
(* of: a null byte is sent only for the title it has.                      *)
TitleHeard == ear.i = ear.n /\ ~hearer.in_meta /\ hearer.offset = 0 => ear.heard = hearer.due

(* queue_pos, which the lag test trusts, is where the listener is, or for  *)
(* one that gets iceblocks not ahead of it.                                *)
PosRight ==
  On => IF hearer.kind = "icy" THEN hearer.queue_pos = ear.next - 1
        ELSE hearer.queue_pos <= ear.next - 1

(* A title reaches the listener with the block it came with, in an insert  *)
(* or iceblock that arrives whole and where the interval says, whatever    *)
(* the writes; its metadata is not freed while queued (format_mp3.c        *)
(* send_icy_metadata, send_iceblock_to_client).                            *)
TitlesSound == TitlesTypeOK /\ MetaCounted /\ WireSound /\ TitleHeard /\ PosRight
============================================================================
