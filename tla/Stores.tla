--------------------------------- MODULE Stores ---------------------------------
(***************************************************************************)
(* The lists, caches and files that the threads keep, and what they page   *)
(* and draw from them, on small instances.  The parts share no state.  A   *)
(* behaviour is one of a single part: the variable active names it, and    *)
(* the others stay as they are, each in an initial state (the settings     *)
(* away).                                                                  *)
(***************************************************************************)
EXTENDS Triggers, LinkedList, Webradios, Sessions, Stickers, StateFiles, Listing,
        PlayQueue, RandomSelect, AlbumCache, Settings, Scripts

VARIABLE active

Parts == {"triggers", "list", "radios", "sessions", "stickers", "files", "pages",
          "queue", "random", "albums", "settings", "scripts"}

storesVars ==
  <<active, triggerVars, listVars, radioVars, sessionVars, stickerVars, stateFileVars,
    listingVars, queueVars, randomVars, albumVars, settingVars, scriptVars>>

----------------------------------------------------------------------------
(* The instances *)

\* the parts a command adds to the queue; 9 is no song
AddedParts ==
  [uris |-> <<<<1>>, <<2>>>>, playlists |-> <<<<1, 2>>, <<1>>>>, albums |-> <<<<1>>, <<2, 1>>>>,
   bad |-> <<<<1>>, <<9>>>>, random |-> <<<<2>>>>, range |-> <<<<2>>>>, tags |-> <<<<1>>>>,
   resume |-> <<<<2>>>>, search |-> <<<<1, 2>>>>]
FirstQueues  == {<<1, 2, 1>>, <<1, 2>>}
FirstJukebox == <<2, 9, 1>>

\* two candidates with the same tag at either end
DrawnTags == <<1, 1, 2, 3, 4, 4>>
DrawWorlds ==
  [candidates : {<<1, 2, 3, 4, 5, 6>>, <<6, 4, 3, 1>>}, fit : {1..6, {1, 4, 5}, {3, 6}},
   queued : {{}, {2}}, uniq : BOOLEAN, have : {<<>>, <<5>>}, want : 1..4, pages : BOOLEAN]

\* songs of two albums in every order of tags and discs, one without an album
TagsOf(artist, albumArtist, title, date, genre, id) ==
  [t \in {"Artist", "AlbumArtist", "Album", "Date", "Genre", "MbId"} |->
     CASE t = "Artist" -> artist [] t = "AlbumArtist" -> albumArtist [] t = "Album" -> title
       [] t = "Date" -> date [] t = "Genre" -> genre [] OTHER -> id]
SongOf(tags, disc, time, modified, added) ==
  [tags |-> tags, disc |-> disc, time |-> time, modified |-> modified, added |-> added]
CachedSongs == <<
  SongOf(TagsOf(<<"X">>, <<>>, <<"A">>, <<"d1">>, <<"g1">>, <<>>), 2, 1, 1, 2),
  SongOf(TagsOf(<<"Y", "X">>, <<"X">>, <<"A">>, <<"d1">>, <<"g1", "g2">>, <<>>), 1, 2, 3, 1),
  SongOf(TagsOf(<<"X">>, <<"X">>, <<"A">>, <<"d2">>, <<"g2", "g1">>, <<>>), 1, 3, 2, 0),
  SongOf(TagsOf(<<"Y">>, <<>>, <<>>, <<>>, <<>>, <<>>), 0, 4, 1, 1),
  SongOf(TagsOf(<<"Y">>, <<"X", "Y">>, <<"B">>, <<"d2">>, <<"g1">>, <<"short">>), 1, 5, 1, 1),
  SongOf(TagsOf(<<"Y">>, <<"X, Y">>, <<"B">>, <<"d2">>, <<"g1">>, <<>>), 1, 1, 2, 1),
  SongOf(TagsOf(<<"X">>, <<>>, <<"B">>, <<"d2">>, <<"g2">>, <<"id">>), 1, 1, 2, 1)>>
Libraries == {<<1, 2, 3>>, <<5, 7, 6, 4>>}
SongReads == "X, Y" :> <<"X", ", ", "Y">>
AlbumModes ==
  {[mode |-> "adv", group |-> "Date", unknown |-> FALSE],
   [mode |-> "adv", group |-> "Genre", unknown |-> TRUE],
   [mode |-> "simple", group |-> "none", unknown |-> FALSE]}

\* keys that are set together: two of a command, or of two
KeyGroups ==
  {{"mpdHost", "mpdPort"}, {"mpdHost", "mpdTimeout"}, {"mpdTimeout", "mpdKeepalive"},
   {"mpdPass", "mpdPort"}, {"tagList", "tagListSearch"},
   {"stickerdbMpdPass", "stickerdbMpdKeepalive"}, {"musicDirectory", "tagList"},
   {"tagList", "smartplsInterval"}, {"imageNamesSm", "smartplsSort"},
   {"webuiSettings", "smartplsPrefix"}, {"streamUri", "highlightColor"},
   {"jukeboxMode", "jukeboxFilterInclude"}, {"jukeboxQueueLength", "random"},
   {"viewSearch", "volumeStep"}}

----------------------------------------------------------------------------
(* The specification *)

\* there are so many settings that they would fill the states of the other parts
SettingsAway ==
  /\ setHeld = <<>> /\ setFile = <<>> /\ setLink = <<>> /\ setFound = <<>> /\ setWeb = <<>> /\ setPreset = <<>>
  /\ setKeys = {} /\ setPartial = FALSE /\ setUnsaved = FALSE /\ setCalls = 0 /\ setFaults = 0

\* a part that rests starts from one of its initial states
StoresInit ==
  /\ active \in Parts
  /\ TriggersInit /\ ListInit /\ RadiosInit /\ SessionsInit
  /\ StickersInit /\ (active = "stickers" \/ mpd = "down")
  /\ StateFilesInit /\ ListingInit /\ RandomInit
  /\ PlayQueueInit /\ (active = "queue" \/ (current = 0 /\ Len(queue) = 2))
  /\ AlbumInit /\ \/ active = "albums"
                  \/ /\ mpds["first"].songs = CHOOSE library \in Libraries : TRUE
                     /\ albumConf = CHOOSE config \in AlbumModes : TRUE
  /\ IF active = "settings" THEN SettingsInit ELSE SettingsAway
  /\ ScriptsInit

OthersRest ==
  /\ UNCHANGED active
  /\ active # "triggers" => UNCHANGED triggerVars
  /\ active # "list" => UNCHANGED listVars
  /\ active # "radios" => UNCHANGED radioVars
  /\ active # "sessions" => UNCHANGED sessionVars
  /\ active # "stickers" => UNCHANGED stickerVars
  /\ active # "files" => UNCHANGED stateFileVars
  /\ active # "pages" => UNCHANGED listingVars
  /\ active # "queue" => UNCHANGED queueVars
  /\ active # "random" => UNCHANGED randomVars
  /\ active # "albums" => UNCHANGED albumVars
  /\ active # "settings" => UNCHANGED settingVars
  /\ active # "scripts" => UNCHANGED scriptVars

StoresNext ==
  \/ active = "triggers" /\ TriggersNext /\ OthersRest
  \/ active = "list" /\ ListNext /\ OthersRest
  \/ active = "radios" /\ RadiosNext /\ OthersRest
  \/ active = "sessions" /\ SessionsNext /\ OthersRest
  \/ active = "stickers" /\ StickersNext /\ OthersRest
  \/ active = "files" /\ StateFilesNext /\ OthersRest
  \/ active = "pages" /\ ListingNext /\ OthersRest
  \/ active = "queue" /\ PlayQueueNext /\ OthersRest
  \/ active = "random" /\ RandomNext /\ OthersRest
  \/ active = "albums" /\ AlbumNext /\ OthersRest
  \/ active = "settings" /\ SettingsNext /\ OthersRest
  \/ active = "scripts" /\ ScriptsNext /\ OthersRest

\* the timer fires, and the handlers of the api thread run to their end (StateFilesFairness)
FileSteps(Steps) == active = "files" /\ Steps /\ OthersRest
StoresSpec ==
  /\ StoresInit /\ [][StoresNext]_storesVars
  /\ WF_storesVars(FileSteps(SaveSteps)) /\ WF_storesVars(FileSteps(SaveTimer))

----------------------------------------------------------------------------
(* Properties *)

\* What the pages of a list show: paging to the end shows every entry once and in
\* order (the limits and offsets of the handlers), and a random selection draws what
\* fits, nothing twice, and as many as were asked for (lib/random.c, random_select.c).
PagesOK == PagesComplete /\ SelectionOK

\* Settings are saved, shown and in force without a difference (SettingsOK), in the
\* behaviours that have settings.
SettingsSound == active = "settings" => SettingsOK
=============================================================================
