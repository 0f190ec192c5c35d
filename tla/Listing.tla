-------------------------------- MODULE Listing --------------------------------
(***************************************************************************)
(* The lists of the api, which a client reads page by page: each request   *)
(* has an offset and a limit, and is answered with the entries of this     *)
(* page and with the total number of entries, -1 if it is not known.  The  *)
(* client asks for the next page as long as a page is full.  Some handlers *)
(* search, sort and count on their own, others have MPD do it.             *)
(***************************************************************************)
EXTENDS Naturals, Integers, Sequences, FiniteSets, Functions, Ordered

CONSTANTS
  ListingLength,  \* bound: entries of a list
  ListingKeys,    \* sort keys, as normalized for the tree
  ListingLimits   \* page lengths, at least MPD_RESULTS_MIN

ASSUME ListingAssumption ==
  ListingLength \in Nat /\ ListingKeys \subseteq Nat /\ ListingLimits \subseteq Nat \ {0}

\* lists that are sorted in a tree (rax); lists with positions to address
\* their entries; lists whose entries may be missing in MPD, or be empty
Trees     == {"albums", "webradios", "playlists", "filesystem", "tags"}
WithPos   == {"last_played", "jukebox_songs", "jukebox_albums", "playlist", "playlist_old"}
MayMiss   == {"last_played", "jukebox_songs", "jukebox_albums", "tags", "tags_mpd"}
ListKinds == Trees \union WithPos \union MayMiss
               \union {"queue", "queue_search", "queue_search_old", "search"}
\* an entry has a key, matches the expression or not, and may be missing
ListEntry == [key : ListingKeys, hit : BOOLEAN, here : BOOLEAN]

VARIABLES
  listing,  \* the list, what is asked of it, and where its entries are from
  offset,   \* of the next page
  shownSoFar,    \* what the pages had so far: entries, and their positions
  shownTotal,    \* totalEntities of the last page
  paging    \* the client wants a further page

listingVars == <<listing, offset, shownSoFar, shownTotal, paging>>

ListingInit ==
  /\ listing = [kind |-> "queue", limit |-> 1, desc |-> FALSE, searched |-> FALSE, entries |-> <<>>]
  /\ offset = 0 /\ shownSoFar = <<>> /\ shownTotal = -1 /\ paging = FALSE

\* the client opens a list
OpenList ==
  /\ offset = 0 /\ ~paging
  /\ \E kind \in ListKinds, lim \in ListingLimits, desc \in BOOLEAN,
        searched \in BOOLEAN, n \in 0..ListingLength :
       \E entries \in [1..n -> ListEntry] :
         /\ kind = "queue" => ~searched
         /\ \A i \in 1..n : /\ ~searched => entries[i].hit
                            /\ kind \notin MayMiss => entries[i].here
                            /\ kind \notin Trees => entries[i].key = 0 /\ ~desc
         /\ listing' = [kind |-> kind, limit |-> lim, desc |-> desc,
                       searched |-> searched, entries |-> entries]
  /\ offset' = 0 /\ shownSoFar' = <<>> /\ shownTotal' = -1 /\ paging' = TRUE

Entry(i) == listing.entries[i]
perPage == listing.limit

\* what the list is to show
IsWanted(i) == Entry(i).hit /\ Entry(i).here
Wanted == Ascending({i \in DOMAIN listing.entries : IsWanted(i)})

-----------------------------------------------------------------------------
(* Ways to a page                                                          *)

\* rax_insert_no_dup and the iterator: in the order of the keys.  Of entries
\* with the same key the first keeps it, and the others get random characters
\* appended, in each request anew.
TreeOrders ==
  {order \in [DOMAIN Wanted -> Range(Wanted)] :
     /\ IsInjective(order)
     /\ \A a, b \in DOMAIN order : a < b =>
          IF listing.desc THEN Entry(order[a]).key >= Entry(order[b]).key
                          ELSE Entry(order[a]).key <= Entry(order[b]).key
     /\ \A a, b \in DOMAIN order :
          /\ Entry(order[a]).key = Entry(order[b]).key
          /\ ~\E i \in DOMAIN Wanted : Wanted[i] < order[a] /\ Entry(Wanted[i]).key = Entry(order[a]).key
          => IF listing.desc THEN a >= b ELSE a <= b}

\* the loop over all entries that match, which prints the ones of the page,
\* and stops behind it or goes on to count
\* mutant: it prints an entry too much
PrintLoopLong(order, stops) ==
  LET loop[n \in 0..Len(order)] ==
        IF n = 0 THEN [found |-> 0, page |-> <<>>]
        ELSE IF stops /\ loop[n - 1].found = offset + perPage THEN loop[n - 1]
        ELSE [found |-> loop[n - 1].found + 1,
              page  |-> IF loop[n - 1].found >= offset /\ (stops \/ loop[n - 1].found <= offset + perPage)
                        THEN Append(loop[n - 1].page, order[n]) ELSE loop[n - 1].page]
  IN  loop[Len(order)]

PrintLoop(order, stops) ==
  LET loop[n \in 0..Len(order)] ==
        IF n = 0 THEN [found |-> 0, page |-> <<>>]
        ELSE IF stops /\ loop[n - 1].found = offset + perPage THEN loop[n - 1]
        ELSE [found |-> loop[n - 1].found + 1,
              page  |-> IF loop[n - 1].found >= offset /\ (stops \/ loop[n - 1].found < offset + perPage)
                        THEN Append(loop[n - 1].page, order[n]) ELSE loop[n - 1].page]
  IN  loop[Len(order)]

\* the range or the window in a command to MPD: end is exclusive
MpdWindow(order, end) == SubSeq(order, offset + 1, IF end < Len(order) THEN end ELSE Len(order))

-----------------------------------------------------------------------------
(* The handlers: the entries of the page, and the total                    *)

Response(page, n) == [page |-> page, total |-> n]

\* mympd_api_album_list
AlbumList(order) == Response(PrintLoop(order, TRUE).page, Len(order))

\* mympd_api_playlist_list by name, tag_list_legacy, mympd_api_browse_filesystem
CountedList(order) == Response(PrintLoop(order, FALSE).page, PrintLoop(order, FALSE).found)

\* mympd_api_webradio_search, mympd_api_playlist_content_search before MPD 0.24
UntilFull(order) ==
  LET loop == PrintLoop(order, TRUE) IN
  Response(loop.page, IF loop.found = offset + perPage THEN -1 ELSE loop.found)

\* mympd_api_last_played_list
LastPlayedList(order) ==
  LET loop == PrintLoop(order, TRUE) IN
  Response(loop.page,
           IF ~listing.searched THEN Len(listing.entries)
           ELSE IF perPage > loop.found THEN loop.found ELSE -1)

\* mympd_api_queue_list: an offset past the end is answered at once
QueueList(order) == Response(IF offset >= Len(order) THEN <<>> ELSE MpdWindow(order, offset + perPage),
                             Len(order))

\* mympd_api_queue_search, which sorts and windows only from MPD 0.22 on
QueueSearch(order, adv) ==
  LET page == IF adv THEN MpdWindow(order, offset + perPage) ELSE PrintLoop(order, TRUE).page IN
  Response(page, IF Len(page) < perPage THEN offset + Len(page) ELSE -1)

\* mympd_api_search_songs
SearchSongs(order) ==
  LET page == MpdWindow(order, offset + perPage) IN
  Response(page, IF offset = 0 /\ Len(page) < perPage THEN Len(page) ELSE -1)

\* tag_list_mpd025: MPD counts an empty value, which is not shown
TagListMpd ==
  LET values == MpdWindow(Ascending({i \in DOMAIN listing.entries : Entry(i).hit}), offset + perPage) IN
  Response(Ascending({i \in Range(values) : Entry(i).here}), -1)

\* mympd_api_playlist_content_search from MPD 0.24 on: what was found is the
\* offset and the page, with an expression the page only
PlaylistContent(order) ==
  LET page  == MpdWindow(order, offset + perPage)
      found == IF listing.searched THEN Len(page) ELSE offset + Len(page) IN
  Response(page, IF found = offset + perPage THEN -1 ELSE found)

Answer(order) ==
  LET kind == listing.kind IN
  CASE kind = "albums"           -> AlbumList(order)
    [] kind \in {"playlists", "tags", "filesystem", "jukebox_songs", "jukebox_albums"}
                                 -> CountedList(order)
    [] kind \in {"webradios", "playlist_old"} -> UntilFull(order)
    [] kind = "last_played"      -> LastPlayedList(order)
    [] kind = "queue"            -> QueueList(order)
    [] kind = "queue_search"     -> QueueSearch(order, TRUE)
    [] kind = "queue_search_old" -> QueueSearch(order, FALSE)
    [] kind = "search"           -> SearchSongs(order)
    [] kind = "tags_mpd"         -> TagListMpd
    [] kind = "playlist"         -> PlaylistContent(order)

\* "Pos" of the n-th entry of a page; mympd_api_jukebox_list does not count
\* the songs that MPD does not know
Pos(i, n) ==
  CASE listing.kind = "playlist" /\ ~listing.searched -> offset + n - 1
    [] listing.kind = "jukebox_songs" -> Cardinality({j \in 1..(i - 1) : Entry(j).here})
    [] OTHER                          -> i - 1

NextPage ==
  /\ paging
  /\ \E order \in (IF listing.kind \in Trees THEN TreeOrders ELSE {Wanted}) :
       LET answer == Answer(order) IN
       /\ shownSoFar' = shownSoFar \o [n \in DOMAIN answer.page |->
                               [entry |-> answer.page[n], pos |-> Pos(answer.page[n], n)]]
       /\ shownTotal' = answer.total
       /\ paging' = (Len(answer.page) = perPage)
  /\ offset' = offset + perPage
  /\ UNCHANGED listing

ListingNext == OpenList \/ NextPage

ListingSpec == ListingInit /\ [][ListingNext]_listingVars

-----------------------------------------------------------------------------
\* entries of which three have the same key come in another order each time;
\* with MPD 0.25 an empty value ends the list of the tags early
Steady ==
  /\ \A i, j \in DOMAIN Wanted :
       listing.kind \in Trees /\ Entry(Wanted[i]).key = Entry(Wanted[j]).key => i = j
  /\ listing.kind = "tags_mpd" => \A i \in DOMAIN listing.entries : Entry(i).here

\* totals that are of something else: of the page for a search in a playlist
\* with MPD 0.24, and of the songs MPD knows no more
OddTotal ==
  \/ listing.kind = "playlist" /\ listing.searched /\ offset > perPage
  \/ listing.kind = "last_played" /\ ~listing.searched

\* A client that asks page by page gets each entry it searched for once, in the
\* order of the list, whichever of the handlers and whichever version of MPD
\* answers; a total is the number of all these entries, not of the page; and
\* a position is the one of the entry in the list, which commands like
\* MYMPD_API_JUKEBOX_RM expect.
PagesComplete ==
  /\ Steady =>
       LET entries == [n \in DOMAIN shownSoFar |-> shownSoFar[n].entry] IN
       /\ IsInjective(entries) /\ Range(entries) \subseteq Range(Wanted)
       /\ ~paging => Range(entries) = Range(Wanted)
       /\ \A a, b \in DOMAIN entries : a < b =>
            IF listing.kind \in Trees
            THEN IF listing.desc THEN Entry(entries[a]).key > Entry(entries[b]).key
                                 ELSE Entry(entries[a]).key < Entry(entries[b]).key
            ELSE entries[a] < entries[b]
  /\ shownTotal # -1 /\ ~OddTotal => shownTotal = Len(Wanted)
  /\ listing.kind \in WithPos \ {"jukebox_songs"} =>
       \A n \in DOMAIN shownSoFar : shownSoFar[n].pos = shownSoFar[n].entry - 1
=============================================================================
