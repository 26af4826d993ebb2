----------------------------- MODULE OggStream -----------------------------
(***************************************************************************)
(* Ogg streams passed through page by page (src/src/format_ogg.c and the   *)
(* codecs' format_*.c).                                                    *)
(*                                                                         *)
(* A physical stream is a chain of links, each with its logical streams,   *)
(* the codecs: their first (BOS) pages come first, then their header       *)
(* pages, then data.  Header pages are collected in header_pages, BOS      *)
(* pages in front, and every data page goes on the queue with the          *)
(* header_pages of its link, which a listener gets before its first page   *)
(* of the link.  Codecs tell header pages in different ways: Opus and      *)
(* Speex count packets, Theora and Kate look at them, FLAC keeps a page    *)
(* that completes no packet until it knows, Skeleton has nothing else, and *)
(* Vorbis beside other codecs attaches its BOS page only when it has the   *)
(* three headers.  Vorbis on its own is rebuilt: see VorbisRebuild.        *)
(***************************************************************************)
EXTENDS Integers, Sequences, SequencesExt, FiniteSets

CONSTANTS
  Links,       (* What a link may hold: sequences of codecs, records of    *)
               (* kind and layout, the packets each header page completes. *)
  MaxLinks,    (* Bounds of the model: links, ...                          *)
  MaxData,     (* ... data pages of a codec in a link, ...                 *)
  MaxQueue,    (* ... blocks queued, ...                                   *)
  PageLen      (* ... bytes of a page.                                     *)

VARIABLES
  links,       (* The links received, the last of them still going on.     *)
  got,         (* The pages of it received, of each codec.                 *)
  codecs,      (* ogg_info->codecs, by place in the link.                  *)
  bos_completed,
  failed,      (* ogg_info->error                                          *)
  chain,       (* The header_pages of each link, ...                       *)
  bos_end,     (* ... and the number of BOS pages in the last.             *)
  oqueue,      (* The queue, of data pages.                                *)
  client,      (* The listener: block, pos and struct ogg_client.          *)
  heard        (* What it makes of what it gets.                           *)

oggSource == <<links, got, codecs, bos_completed, failed, chain, bos_end>>
oggVars   == <<oggSource, oqueue, client, heard>>

no        == Len(links)
Link      == links[no]
Heads(i)  == Len(Link[i].layout)
Page(i, k) == [link |-> no, codec |-> i, num |-> k, data |-> k > Heads(i)]
NoPage    == [link |-> 0, codec |-> 0, num |-> 0, data |-> TRUE]
NonePage(c) == [i \in 1..Len(c) |-> 0]

OggInit ==
  /\ \E c \in Links : links = <<c>> /\ got = NonePage(c)
  /\ codecs = <<>> /\ bos_completed = FALSE /\ failed = FALSE
  /\ chain = <<<<>>>> /\ bos_end = 0 /\ oqueue = <<>>
  /\ client = [block |-> NoPage, pos |-> 0, headers |-> 0, headers_sent |-> TRUE, page |-> 1,
               at |-> 0]
  /\ heard = [page |-> NoPage, at |-> PageLen, heads |-> <<>>, ok |-> TRUE]

(* A mutant of Placed: header pages in the order of their arrival.         *)
Placed_Last(c, bos, p) == Append(c, p)

(* add_block_header: BOS pages are put behind the others of their kind.    *)
Placed(c, bos, p) ==
  IF p.num = 0 THEN SubSeq(c, 1, bos) \o <<p>> \o SubSeq(c, bos + 1, Len(c)) ELSE Append(c, p)

(* format_ogg_attach_header of the pages ps, the first of them perhaps BOS.*)
Attach(c, bos, ps) ==
  /\ chain' = [n \in 1..no |-> IF n < no THEN chain[n]
                               ELSE FoldLeft(LAMBDA d, p : Placed(d, bos, p), c, ps)]
  /\ bos_end' = bos + Cardinality({i \in 1..Len(ps) : ps[i].num = 0})

----------------------------------------------------------------------------
(* The source begins another link.                                         *)
NewLink ==
  /\ bos_completed /\ no < MaxLinks
  /\ \A i \in DOMAIN got : got[i] > Heads(i)
  /\ \E c \in Links : links' = Append(links, c) /\ got' = NonePage(c)
  /\ UNCHANGED <<codecs, bos_completed, failed, chain, bos_end, oqueue, client, heard>>

(* initial_vorbis_page keeps its page; the others attach theirs.           *)
BosHeader(i) == IF Link[i].kind = "vorbis" THEN <<>> ELSE <<Page(i, 0)>>

(* process_initial_page, with the codec's initial_..._page: the first BOS  *)
(* page after others drops the codecs and the header pages there were; one *)
(* that no codec knows ends the source.                                    *)
InitialPage ==
  LET known == IF bos_completed THEN <<>> ELSE codecs
      i     == Len(known) + 1 IN
  /\ ~failed /\ i <= Len(Link) /\ got[i] = 0
  /\ got' = [got EXCEPT ![i] = 1]
  /\ bos_completed' = FALSE
  /\ IF Link[i].kind = "other"
     THEN failed' = TRUE /\ codecs' = known /\ UNCHANGED <<chain, bos_end>>
     ELSE /\ UNCHANGED failed
          /\ codecs' = Append(known, [headers |-> 1, cached |-> <<>>, through |-> FALSE])
          /\ Attach(IF known = <<>> THEN <<>> ELSE chain[no],
                    IF known = <<>> THEN 0 ELSE bos_end,
                    BosHeader(i))
  /\ UNCHANGED <<links, oqueue, client, heard>>

(* What becomes of a page: it is queued, a header, or kept for later.      *)
Queued(p)  == oqueue' = Append(oqueue, p) /\ UNCHANGED <<chain, bos_end>>
Header(ps) == Attach(chain[no], bos_end, ps) /\ UNCHANGED oqueue
Kept       == UNCHANGED <<oqueue, chain, bos_end>>

(* Two packets are the headers.                                            *)
ProcessOpus(i, p, ended) ==
  IF codecs[i].headers < 2
  THEN codecs' = [codecs EXCEPT ![i].headers = @ + ended] /\ Header(<<p>>)
  ELSE Queued(p) /\ UNCHANGED codecs

ProcessSpeex(i, p, ended) == ProcessOpus(i, p, ended)

(* A page on which a header packet ends is a header page.                  *)
ProcessTheora(i, p, ended) ==
  IF ~p.data /\ ended > 0
  THEN codecs' = [codecs EXCEPT ![i].headers = @ + ended] /\ Header(<<p>>)
  ELSE Queued(p) /\ UNCHANGED codecs

ProcessKate(i, p, ended) == ProcessTheora(i, p, ended)

(* A page on which nothing ends is kept until the next                     *)
(* packet shows what it was; format_ogg_attach_cached attaches the first   *)
(* of those kept.                                                          *)
ProcessFlac(i, p, ended) ==
  LET cached == codecs[i].cached IN
  IF codecs[i].headers = 0 THEN Queued(p) /\ UNCHANGED codecs
  ELSE IF p.data
  THEN codecs' = [codecs EXCEPT ![i].headers = 0, ![i].cached = <<>>] /\ Queued(p)
  ELSE IF ended = 0 THEN codecs' = [codecs EXCEPT ![i].cached = Append(@, p)] /\ Kept
  ELSE /\ codecs' = [codecs EXCEPT ![i].headers = @ + ended, ![i].cached = <<>>]
       /\ Header(IF cached = <<>> THEN <<p>> ELSE <<cached[1], p>>)

(* Where the stream is not rebuilt, and then process_vorbis_passthru_page. *)
ProcessVorbis(i, p, ended) ==
  IF codecs[i].through THEN Queued(p) /\ UNCHANGED codecs
  ELSE LET headers == codecs[i].headers + ended IN
       /\ codecs' = [codecs EXCEPT ![i].headers = headers, ![i].through = headers = 3]
       /\ IF headers = 3 THEN Header(<<Page(i, 0), p>>)
          ELSE IF Len(codecs) > 1 THEN Header(<<p>>) ELSE Kept

(* All pages are headers, or none is.                                      *)
ProcessSkeleton(p) == Header(<<p>>) /\ UNCHANGED codecs
ProcessMidi(p)     == Queued(p) /\ UNCHANGED codecs

(* ogg_get_buffer and process_ogg_page: a page goes to its codec, by its   *)
(* serial number.                                                          *)
NextPage(i) ==
  LET p     == Page(i, got[i])
      ended == IF p.data THEN 1 ELSE Link[i].layout[got[i]]
      kind  == Link[i].kind IN
  /\ ~failed /\ got[i] > 0 /\ i <= Len(codecs) /\ \A j \in DOMAIN got : got[j] > 0
  /\ p.data => /\ got[i] <= Heads(i) + MaxData /\ Len(oqueue) < MaxQueue
               /\ kind # "skeleton" /\ \A j \in DOMAIN got : got[j] > Heads(j)
  /\ bos_completed' = TRUE /\ got' = [got EXCEPT ![i] = @ + 1]
  /\ \/ kind = "opus"     /\ ProcessOpus(i, p, ended)
     \/ kind = "speex"    /\ ProcessSpeex(i, p, ended)
     \/ kind = "theora"   /\ ProcessTheora(i, p, ended)
     \/ kind = "kate"     /\ ProcessKate(i, p, ended)
     \/ kind = "flac"     /\ ProcessFlac(i, p, ended)
     \/ kind = "vorbis"   /\ ProcessVorbis(i, p, ended)
     \/ kind = "skeleton" /\ ProcessSkeleton(p)
     \/ kind = "midi"     /\ ProcessMidi(p)
  /\ UNCHANGED <<links, failed, client, heard>>

(* The head of the queue is let go; a listener is never on it then.        *)
LetGo ==
  /\ Len(oqueue) > 1 /\ client.block # Head(oqueue)
  /\ oqueue' = Tail(oqueue)
  /\ UNCHANGED <<oggSource, client, heard>>

----------------------------------------------------------------------------
(* The listener.                                                           *)

(* It has all header pages of the link: BOS pages first, and those of each *)
(* codec in order.                                                         *)
AllHeads(hs, n) ==
  /\ \A i, j \in 1..Len(hs) : i < j /\ hs[j].num = 0 => hs[i].num = 0
  /\ \A c \in 1..Len(links[n]) :
       SelectSeq(hs, LAMBDA p : p.codec = c)
         = [k \in 1..(Len(links[n][c].layout) + 1) |->
              [link |-> n, codec |-> c, num |-> k - 1, data |-> FALSE]]

(* Bytes of a page reach it: pages come whole, data after its headers.     *)
Hears(p, at, n) ==
  heard' = [page |-> p, at |-> at + n,
            heads |-> IF at > 0 \/ p.data THEN heard.heads
                      ELSE IF heard.page.data THEN <<p>> ELSE Append(heard.heads, p),
            ok |-> /\ heard.ok
                   /\ IF at = 0 THEN heard.at = PageLen ELSE heard.page = p /\ heard.at = at
                   /\ p.data => AllHeads(heard.heads, p.link)]

(* It is put on a block, or goes to the next.                              *)
Starts ==
  /\ client.block = NoPage
  /\ \E k \in 1..Len(oqueue) : client' = [client EXCEPT !.block = oqueue[k]]
  /\ UNCHANGED <<oggSource, oqueue, heard>>

Advances ==
  /\ client.pos = PageLen
  /\ \E k \in 2..Len(oqueue) :
       oqueue[k - 1] = client.block /\ client' = [client EXCEPT !.block = oqueue[k], !.pos = 0]
  /\ UNCHANGED <<oggSource, oqueue, heard>>

Writes == client.block # NoPage /\ client.pos < PageLen /\ UNCHANGED <<oggSource, oqueue>>

(* send_ogg_headers, a write at a time.                                    *)
SendHeaders ==
  LET hs == chain[client.block.link]
      k  == IF client.headers_sent THEN 1 ELSE client.page
      at == IF client.headers_sent THEN 0 ELSE client.at IN
  /\ Writes /\ client.headers # client.block.link
  /\ IF k > Len(hs)
     THEN /\ client' = [client EXCEPT !.headers_sent = TRUE, !.headers = client.block.link]
          /\ UNCHANGED heard
     ELSE \E n \in 1..(PageLen - at) :
            /\ Hears(hs[k], at, n)
            /\ client' = [client EXCEPT !.headers_sent = FALSE,
                            !.page = IF at + n = PageLen THEN k + 1 ELSE k,
                            !.at = (at + n) % PageLen]

(* write_buf_to_client, when the headers are those of the block.           *)
SendPage ==
  /\ Writes /\ client.headers = client.block.link
  /\ \E n \in 1..(PageLen - client.pos) :
       /\ Hears(client.block, client.pos, n)
       /\ client' = [client EXCEPT !.pos = @ + n]

OggNext ==
  \/ NewLink \/ InitialPage \/ (\E i \in DOMAIN got : NextPage(i)) \/ LetGo
  \/ Starts \/ Advances \/ SendHeaders \/ SendPage

OggSpec == OggInit /\ [][OggNext]_oggVars

----------------------------------------------------------------------------
(* Counts stay in their ranges.                                            *)
OggTypeOK ==
  /\ bos_end \in 0..Len(chain[Len(chain)]) /\ Len(chain) \in {no, no - 1}
  /\ Len(oqueue) \in 0..MaxQueue /\ failed \in BOOLEAN
  /\ client.pos \in 0..PageLen /\ client.at \in 0..(PageLen - 1)

(* Every page queued has the header pages of its link, all of them, BOS    *)
(* pages first: who starts at it can decode it.                            *)
HeadersKnown == \A k \in 1..Len(oqueue) : AllHeads(chain[oqueue[k].link], oqueue[k].link)

(* A listener gets whole pages, and the header pages of a link before its  *)
(* data, however its writes are cut short and whenever links change.       *)
HeadersHeard == heard.ok
============================================================================
