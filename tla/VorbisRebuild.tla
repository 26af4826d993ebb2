--------------------------- MODULE VorbisRebuild ---------------------------
(***************************************************************************)
(* A Vorbis stream on its own is taken apart and put together again, so    *)
(* that its title can be changed (src/src/format_vorbis.c).                *)
(*                                                                         *)
(* process_vorbis_page hands a page to libogg, and process_vorbis then     *)
(* runs get_buffer_page and process_packet in turn, two pointers to what   *)
(* is to be done, until there is a page for the queue or nothing to do.    *)
(* Packets are held back by one: an update of the title ends the link with *)
(* the packet held, and begins another with the same packet, so that the   *)
(* decoder has what it overlaps the next with.                             *)
(*                                                                         *)
(* A packet is its number and the granulepos it is given; its window       *)
(* (a quarter of its blocksize) is in windows.                             *)
(***************************************************************************)
EXTENDS Integers, Sequences, SequencesExt, FiniteSetsExt

CONSTANTS
  Windows,       (* The windows packets may have.                          *)
  Trigger,       (* page_samples_trigger                                   *)
  AdminOnly,     (* admin_comments_only                                    *)
  Own,           (* The title in the stream's own comments, ...            *)
  NewTitles,     (* ... and those the admin sets.                          *)
  MaxPackets,    (* Bounds of the model: packets of the stream, ...        *)
  MaxUpdates,    (* ... updates, ...                                       *)
  Overlap        (* ... and whether one may come while one is carried out. *)

VARIABLES
  headers,       (* codec->headers                                         *)
  os,            (* codec->os: packets received and not yet processed.     *)
  windows,       (* The windows of all packets received.                   *)
  ended,         (* The source has sent its last page.                     *)
  v,             (* vorbis_codec_t                                         *)
  title,         (* ogg_info->title                                        *)
  at,            (* Where the source's worker is: waiting for a "page",    *)
                 (* back from get_buffer with one ("again"), or about to   *)
                 (* "get" or "process".                                    *)
  begun,         (* The links begun: their title and first packet.         *)
  out,           (* The packets queued, with their link.                   *)
  updates, early (* Updates made; one came before the first packet.        *)

vorbisVars == <<headers, os, windows, ended, v, title, at, begun, out, updates, early>>

NoPacket == [num |-> 0, gp |-> 0, link |-> 0]

VorbisInit ==
  /\ headers = 1 /\ os = <<>> /\ windows = <<>> /\ ended = FALSE
  /\ v = [get |-> "none", process |-> "none", notify |-> FALSE, rebuild |-> FALSE,
          new_os |-> <<>>, prev |-> NoPacket, granulepos |-> 0, prev_window |-> 0,
          prev_granulepos |-> 0, prev_page_samples |-> 0, samples_in_page |-> 0,
          initial |-> FALSE]
  /\ title = Own /\ at = "page" /\ begun = <<>> /\ out = <<>>
  /\ updates = 0 /\ early = FALSE

(* The samples of the packets from k to n, when decoding begins at k.      *)
Samples(k, n) == FoldLeft(LAMBDA s, i : s + windows[i] + windows[i + 1], 0,
                          [i \in 1..(n - k) |-> k + i - 1])

----------------------------------------------------------------------------
(* The third header has come.                                              *)
Headers ==
  /\ at = "page" /\ headers = 1 /\ headers' = 3
  /\ v' = [v EXCEPT !.process = "headers", !.rebuild = @ \/ AdminOnly]
  /\ title' = IF AdminOnly THEN title ELSE Own
  /\ at' = "get"
  /\ UNCHANGED <<os, windows, ended, begun, out, updates, early>>

(* process_vorbis_page: a page of one packet or two.                       *)
Page ==
  /\ at = "page" /\ headers = 3 /\ ~ended
  /\ \E n \in 1..2, last \in BOOLEAN :
       /\ Len(windows) + n <= MaxPackets
       /\ \E ws \in [1..n -> Windows] : windows' = windows \o ws
       /\ os' = os \o [i \in 1..n |-> Len(windows) + i]
       /\ ended' = last
  /\ at' = "get"
  /\ UNCHANGED <<headers, v, title, begun, out, updates, early>>

(* vorbis_set_tag, of a title and then of nothing, from the admin          *)
(* interface while the source is not being read.                           *)
SetTag(t) ==
  /\ at \in {"page", "again"} /\ updates < MaxUpdates
  /\ v.get = "finished" => Overlap
  /\ updates' = updates + 1 /\ title' = t
  /\ v' = [v EXCEPT !.notify = TRUE, !.rebuild = TRUE]
  /\ early' = (early \/ v.prev = NoPacket)
  /\ UNCHANGED <<headers, os, windows, ended, at, begun, out>>

----------------------------------------------------------------------------
(* add_audio_packet                                                        *)
Added(c, p) ==
  IF c.initial THEN [c EXCEPT !.initial = FALSE, !.new_os = Append(@, [p EXCEPT !.gp = 0])]
  ELSE [c EXCEPT !.samples_in_page = @ + p.gp - c.prev_granulepos,
                 !.prev_granulepos = p.gp,
                 !.granulepos = @ + c.prev_window,
                 !.new_os = Append(@, p)]

(* initiate_flush                                                          *)
Flushing(c) ==
  LET d == IF c.prev = NoPacket THEN c ELSE Added(c, c.prev) IN
  [d EXCEPT !.get = "finished", !.initial = TRUE]

(* The first n packets leave in a page.                                    *)
PageOut(n) ==
  LET gp == v.new_os[n].gp IN
  /\ out' = out \o [i \in 1..n |-> [v.new_os[i] EXCEPT !.link = Len(begun)]]
  /\ v' = [v EXCEPT !.new_os = SubSeq(@, n + 1, Len(@)),
                    !.samples_in_page = @ - (gp - v.prev_page_samples),
                    !.prev_page_samples = gp]
  /\ at' = "again" /\ UNCHANGED begun

Gets(state) ==
  /\ at \in {"get", "again"} /\ v.get = state
  /\ UNCHANGED <<headers, os, windows, ended, title, updates, early>>

GetNothing == Gets("none") /\ at' = "process" /\ UNCHANGED <<v, begun, out>>

(* get_buffer_audio: libogg makes a page when it has enough, or is told to.*)
GetBufferAudio ==
  /\ Gets("audio")
  /\ LET n == Len(v.new_os) IN
     \/ v.samples_in_page > Trigger /\ n > 0 /\ PageOut(n)
     \/ v.samples_in_page <= Trigger /\ \E k \in 1..n : PageOut(k)
     \/ /\ v.samples_in_page <= Trigger \/ n = 0
        /\ at' = "process" /\ UNCHANGED <<v, begun, out>>

(* get_buffer_header                                                       *)
GetBufferHeader ==
  /\ Gets("header")
  /\ begun' = Append(begun, [title |-> v.new_os[1], first |-> IF v.prev = NoPacket THEN 1
                                                              ELSE v.prev.num])
  /\ v' = [v EXCEPT !.get = "audio", !.new_os = <<>>]
  /\ at' = "process" /\ UNCHANGED out

(* get_buffer_finished                                                     *)
GetBufferFinished ==
  /\ Gets("finished")
  /\ IF v.new_os # <<>> THEN PageOut(Len(v.new_os))
     ELSE /\ v' = [v EXCEPT !.get = "none",
                            !.process = IF v.prev = NoPacket THEN "none" ELSE "headers",
                            !.prev_window = IF v.initial THEN @ ELSE 0]
          /\ at' = "process" /\ UNCHANGED <<begun, out>>

Processes(state) ==
  /\ at = "process" /\ v.process = state
  /\ UNCHANGED <<headers, windows, ended, title, begun, out, updates, early>>

ProcessNothing == Processes("none") /\ at' = "page" /\ UNCHANGED <<os, v>>

(* Mutant: the samples of a link are counted from its second packet.       *)
Restarted_FromNothing == 0

(* What a link's count begins with: the packet it shares with the last one.*)
Restarted == v.prev_window

(* process_vorbis_headers                                                  *)
ProcessVorbisHeaders ==
  /\ Processes("headers")
  /\ v' = [v EXCEPT !.new_os = <<IF v.rebuild THEN title ELSE Own>>, !.rebuild = FALSE,
                    !.get = "header", !.process = "audio", !.granulepos = Restarted,
                    !.initial = TRUE]
  /\ at' = "get" /\ UNCHANGED os

(* process_vorbis_audio, for a packet: what it was given in the source's   *)
(* stream stays with the last.                                             *)
ProcessVorbisAudio ==
  /\ Processes("audio") /\ os # <<>>
  /\ LET n    == Head(os)
         last == ended /\ n = Len(windows)
         more == [v EXCEPT !.granulepos = @ + windows[n]]
         c    == IF v.prev = NoPacket THEN more ELSE Added(more, v.prev)
         gp   == IF v.prev = NoPacket THEN 0 ELSE IF last THEN Samples(1, n) ELSE c.granulepos
         held == [c EXCEPT !.prev = [num |-> n, gp |-> gp, link |-> 0],
                           !.prev_window = windows[n]] IN
     IF last
     THEN v' = [Flushing(held) EXCEPT !.prev = NoPacket] /\ at' = "get"
     ELSE v' = held /\ at' = IF held.samples_in_page > Trigger THEN "get" ELSE "process"
  /\ os' = Tail(os)

(* process_vorbis_audio, when there is no packet left.                     *)
ProcessVorbisUpdate ==
  /\ Processes("audio") /\ os = <<>>
  /\ IF v.notify THEN v' = [Flushing(v) EXCEPT !.notify = FALSE] /\ at' = "get"
     ELSE at' = "page" /\ UNCHANGED v
  /\ UNCHANGED os

VorbisNext ==
  \/ Headers \/ Page \/ \E t \in NewTitles : SetTag(t)
  \/ GetNothing \/ GetBufferAudio \/ GetBufferHeader \/ GetBufferFinished
  \/ ProcessNothing \/ ProcessVorbisHeaders \/ ProcessVorbisAudio \/ ProcessVorbisUpdate

VorbisSpec == VorbisInit /\ [][VorbisNext]_vorbisVars

----------------------------------------------------------------------------
(* The two pointers and the packets on their way are of their kinds.       *)
VorbisTypeOK ==
  /\ v.get \in {"none", "header", "audio", "finished"}
  /\ v.process \in {"none", "headers", "audio"}
  /\ v.prev.num \in 0..Len(windows) /\ v.granulepos \in Nat
  /\ \A i \in 1..Len(out) : out[i].link \in 1..Len(begun)

(* Every packet is queued once in its place; the packet held at an update  *)
(* once more, as the first of the next link.                               *)
PacketsKept ==
  /\ \A i \in 1..Len(out) :
       LET first == i = 1 \/ out[i].link # out[i - 1].link IN
       out[i].num = IF first THEN begun[out[i].link].first ELSE out[i - 1].num + 1
  /\ \A i \in 2..Len(out) : out[i].link # out[i - 1].link => out[i].num = out[i - 1].num

(* Once the worker waits for a page, all but the packet held is in libogg  *)
(* or queued, and after the last page all of it is queued.                 *)
PacketsSent ==
  at = "page" /\ headers = 3 /\ windows # <<>> /\ ~early =>
    LET s == out \o v.new_os IN
    IF ended THEN Last(out).num = Len(windows)
    ELSE v.prev.num = Len(windows) /\ (s # <<>> => Last(s).num >= Len(windows) - 1)

(* A packet's granulepos is the number of samples of its link up to it;    *)
(* but the last one keeps the source's count, which is another after an    *)
(* update.                                                                 *)
GranulesCount ==
  \A i \in 1..Len(out) :
    LET first == begun[out[i].link].first IN
    out[i].gp = Samples(first, out[i].num) \/ (ended /\ out[i].num = Len(windows) /\ first > 1)

(* While packets pass, the link's comments have the latest title, unless   *)
(* its update is still to be done.                                         *)
TitleShown ==
  v.get = "audio" /\ ~v.notify => Last(begun).title = title

(* The stream goes on until its end, except after an update that came      *)
(* before its first packet, which ends it.                                 *)
GoesOn == headers = 3 /\ v.process = "none" => ended \/ early

(* Packets are not held longer than the trigger asks for, except in the    *)
(* first page after an update.                                             *)
HeldShortly ==
  at = "page" /\ v.get = "audio" /\ out # <<>> /\ Last(out).link = Len(begun)
              /\ v.new_os # <<>> =>
    v.samples_in_page = Last(v.new_os).gp - Last(out).gp /\ v.samples_in_page <= Trigger
============================================================================
