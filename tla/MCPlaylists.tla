------------------------------ MODULE MCPlaylists ------------------------------
(***************************************************************************)
(* Two playlists, songs 1 and 2 that MPD knows and song 3 that it dropped, *)
(* for every kind of smart playlist, with and without the ranges of MPD    *)
(* 0.24.                                                                   *)
(***************************************************************************)
EXTENDS Playlists
CONSTANTS plist1, plist2

DefOf(kind, sort, max) == [kind |-> kind, sort |-> sort, max |-> max]

\* duplicates, a dropped song, a smart playlist found by a search, and one made
\* from stickers that is not there yet; the user saves the newest songs
World(first, second, def, from24) ==
  [lists |-> (plist1 :> first) @@ (plist2 :> second), defs |-> (plist1 :> def) @@ (plist2 :> NoDef),
   ranges |-> from24]
Worlds == {
  World(<<2, 1, 2>>, <<1>>, NoDef, FALSE),
  World(<<1, 3>>, NoList, NoDef, TRUE),
  World(<<1>>, NoList, DefOf("search", "tag", 1), TRUE),
  World(NoList, <<3>>, DefOf("sticker", "tag", 1), TRUE)}

Definitions ==
  {DefOf("search", "tag", 1), DefOf("newest", "shuffle", 1), DefOf("sticker", "tag", 0)}

=============================================================================
