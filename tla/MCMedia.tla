------------------------------ MODULE MCMedia ------------------------------
(***************************************************************************)
(* What happens to the bytes of a stream: the queue they pass through, and *)
(* the formats that fill it and send from it; and the settings of the      *)
(* mounts streams are on.  Each is on a small instance, a behaviour runs   *)
(* one of them, the part, and the others stay as they began.               *)
(***************************************************************************)
EXTENDS MCStreamQueue, MountSettings, IcyMeta, Sequences

CONSTANTS
  Setups, InsertSizes, BlockSizes, Least, CheckFrames, LastByte,
  Links, MaxLinks, MaxData, PageLen,
  Windows, Trigger, AdminOnly, Own, NewTitles, MaxPackets, MaxUpdates, Overlap,
  Streams, Reads, StreamEnd,
  m1, m2, f1, fitting, unfit, log

VARIABLES
  setup, sent, insert, read_data, size, offset, build, surplus, synced, queued,
  links, got, codecs, bos_completed, failed, chain, bos_end, oqueue, client, heard,
  headers, os, windows, ended, v, title, at, begun, out, updates, early,
  clusters, received, header, header_size, header_read, source_header, buffer,
  cluster_start, ebml_tail, ebml_queued, block,
  part

I == INSTANCE IcySource
O == INSTANCE OggStream
V == INSTANCE VorbisRebuild
E == INSTANCE EbmlStream WITH tail <- ebml_tail, queued <- ebml_queued

icy    == <<setup, sent, insert, read_data, size, offset, build, surplus, synced, queued>>
ogg    == <<links, got, codecs, bos_completed, failed, chain, bos_end, oqueue, client, heard>>
vorbis == <<headers, os, windows, ended, v, title, at, begun, out, updates, early>>
ebml   == <<clusters, received, header, header_size, header_read, source_header, buffer,
            cluster_start, ebml_tail, ebml_queued, block>>
mounts == <<conf, ondemand, source, gone, listed, stats, update, recheck, missed>>

(* Setups: streams with inserts, and streams that begin with a tag.        *)
MCSetups ==
  [interval : {0, 3, 5, 8, 11}, tag : {0}, skew : 0..3, frame : {3, 4, 5}]
  \cup [interval : {0}, tag : {5, 9}, skew : 0..3, frame : {3, 4, 5}]
MCInserts == <<2, 0, 1>>

(* Links: one codec of each kind, and two together.                        *)
Of(kind, layout) == [kind |-> kind, layout |-> layout]
MCLinks ==
  {<<Of("opus", <<0, 1>>)>>, <<Of("flac", <<1, 0, 1>>)>>, <<Of("vorbis", <<2>>)>>,
   <<Of("vorbis", <<0, 2>>), Of("theora", <<2>>)>>, <<Of("speex", <<1>>), Of("kate", <<1>>)>>,
   <<Of("midi", <<>>)>>, <<Of("skeleton", <<1>>), Of("other", <<1>>)>>}

(* Streams: up to three clusters, not one inside the id of another.        *)
MCStreams == {{a, a + b, a + b + c} : a \in 3..7, b \in {0} \cup 5..8, c \in {0, 5, 6}}

(* Tables: a mount that gives everything and one that gives nothing, then  *)
(* one that leaves things out and one that falls back to a file.           *)
Mount(kept, reset, public, intro, preroll, hidden, fallback) ==
  [kept |-> kept, reset |-> reset, public |-> public, intro |-> intro,
   preroll |-> preroll, hidden |-> hidden, fallback |-> fallback]
MCTables ==
  {m1 :> Mount(2, 1, 1, fitting, log, TRUE, m2) @@ m2 :> None,
   m1 :> Mount(0, 0, None, None, None, FALSE, m2) @@ m2 :> Mount(3, 0, 0, unfit, None, FALSE, f1)}

AnyOf(X) == CHOOSE x \in X : TRUE

(* A part that is not run begins in one way only.                          *)
MediaInit ==
  /\ part \in {"queue", "icy", "titles", "ogg", "vorbis", "ebml", "mounts"}
  /\ Init       /\ (part = "queue"  \/ sizing = AnyOf(Sizings))
  /\ I!Init     /\ (part = "icy"    \/ (setup = AnyOf(Setups) /\ size = AnyOf(BlockSizes)))
  /\ TitlesInit /\ (part = "titles" \/ hearer.kind = "icy")
  /\ O!OggInit  /\ (part = "ogg"    \/ links = <<AnyOf(Links)>>)
  /\ E!EbmlInit /\ (part = "ebml"   \/ clusters = AnyOf(Streams))
  /\ V!VorbisInit
  /\ SettingsInit /\ (part = "mounts" \/ (conf = AnyOf(Tables) /\ ondemand = {}))

MediaNext ==
  \/ part = "queue"  /\ Next       /\ UNCHANGED <<icy, titles, ogg, vorbis, ebml, mounts, part>>
  \/ part = "icy"    /\ I!Next     /\ UNCHANGED <<vars, titles, ogg, vorbis, ebml, mounts, part>>
  \/ part = "titles" /\ TitlesNext /\ UNCHANGED <<vars, icy, ogg, vorbis, ebml, mounts, part>>
  \/ part = "ogg"    /\ O!OggNext  /\ UNCHANGED <<vars, icy, titles, vorbis, ebml, mounts, part>>
  \/ part = "vorbis" /\ V!VorbisNext /\ UNCHANGED <<vars, icy, titles, ogg, ebml, mounts, part>>
  \/ part = "ebml"   /\ E!EbmlNext /\ UNCHANGED <<vars, icy, titles, ogg, vorbis, mounts, part>>
  \/ part = "mounts" /\ SettingsNext /\ UNCHANGED <<vars, icy, titles, ogg, vorbis, ebml, part>>

MediaSpec == MediaInit /\ [][MediaNext]_<<vars, icy, titles, ogg, vorbis, ebml, mounts, part>>

(* However an MPEG stream is cut by blocks and inserts, the queue gets     *)
(* whole frames in order, and no byte is lost or taken for metadata        *)
(* (mp3_get_filter_meta, mpeg_complete_frames_cb).                         *)
FramesSound ==
  part = "icy" => I!TypeOK /\ I!WholeFrames /\ I!NothingLost

(* Every queued page has its link's header pages, which reach a listener   *)
(* whole and before the first page of the link (format_ogg_attach_header,  *)
(* send_ogg_headers).                                                      *)
HeadersSound ==
  part = "ogg" => O!OggTypeOK /\ O!HeadersKnown /\ O!HeadersHeard

(* A Vorbis stream taken apart and put together again keeps every packet,  *)
(* with the right granulepos, and goes on under the latest title, whenever *)
(* the title is updated (process_vorbis, vorbis_set_tag).                  *)
VorbisSound ==
  part = "vorbis" =>
    /\ V!VorbisTypeOK /\ V!PacketsKept /\ V!PacketsSent /\ V!GranulesCount
    /\ V!TitleShown /\ V!GoesOn /\ V!HeldShortly

(* A Matroska stream's header is taken off once, the blocks are the bytes  *)
(* that follow, and one marked as a start begins with a cluster            *)
(* (ebml_wrote, ebml_get_buffer).                                          *)
ClustersSound ==
  part = "ebml" => E!EbmlTypeOK /\ E!BytesKept /\ E!HeaderEndsAtCluster /\ E!SyncAtCluster
=============================================================================
