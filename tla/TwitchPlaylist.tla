--------------------------- MODULE TwitchPlaylist ---------------------------
(***************************************************************************)
(* parse_master_playlist (twitch/extractor.rs) against a server (external) *)
(* that writes a master playlist: a variant is a STREAM-INF tag with its   *)
(* URL on the next line, a rendition is a MEDIA tag with its URL, if any,  *)
(* in the tag.                                                             *)
(***************************************************************************)
EXTENDS TwitchExtractor

CONSTANT MaxLines   (* bound on the playlist                               *)

VARIABLES
  playlist,   (* the lines so far                                          *)
  variants    (* the URLs of its variants, in order                        *)

playlistVars == <<playlist, variants>>

Tag(tag) == [tag |-> tag, uri |-> Missing]

PlaylistInit == playlist = <<>> /\ variants = <<>>

AddVariant ==
  LET uri == Len(variants) + 1
  IN  /\ Len(playlist) + 2 <= MaxLines
      /\ playlist' = playlist \o <<Tag("stream_inf"), [tag |-> "uri", uri |-> uri]>>
      /\ variants' = Append(variants, uri)

AddTag(tag) ==
  /\ Len(playlist) < MaxLines
  /\ playlist' = Append(playlist, Tag(tag))
  /\ UNCHANGED variants

PlaylistNext == AddVariant \/ \E tag \in {"media", "other"} : AddTag(tag)

(* "return (name, url) pairs for each variant" (twitch/extractor.rs:475):  *)
(* every variant of the playlist is offered, in its order.                 *)
VariantsOffered == PlaylistVariants(playlist) = variants

=============================================================================
