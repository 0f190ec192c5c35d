------------------------------ MODULE Settings ------------------------------
(***************************************************************************)
(* The settings (mympd_api/settings.c) with their state files              *)
(* (lib/config/state_files.c), validation (lib/validate.c) and the         *)
(* commands that change them.  A command carries a list of keys and        *)
(* values; they are applied one after the other and the first that fails   *)
(* ends the command, what was applied stays.                               *)
(*                                                                         *)
(* A value is the form of a string: what tells the validators apart.  One  *)
(* partition; the handlers run in one thread and are one step each.        *)
(***************************************************************************)
EXTENDS Integers, Sequences, FiniteSets

CONSTANTS SettingGroups,   \* sets of keys that are set together
          SettingsCalls, SettingsFaults  \* bounds: commands, failures

VARIABLES
  setHeld,     \* the structs of the api thread: see Fresh
  setFile,     \* state files: key -> value, "none" if there is no file
  setLink,     \* connection to MPD: what it was opened with and the tags MPD has
  setFound,    \* what the last detection of the features found
  setWeb,      \* settings the webserver has, <<>> before the first message
  setPreset,   \* the saved preset: list of keys and values
  setKeys,     \* the keys this behaviour is about
  setPartial,  \* a command failed after its first key was applied
  setUnsaved,  \* a state file could not be written since the start
  setCalls, setFaults

settingVars == <<setHeld, setFile, setLink, setFound, setWeb, setPreset, setKeys,
                 setPartial, setUnsaved, setCalls, setFaults>>

(***************************************************************************)
(* The validators: the forms each of them lets pass.                       *)
(***************************************************************************)
Bools    == {"true", "false"}
Numbers  == {"zero", "n1", "n2", "high"}
Strings  == {"", "word", "word6", "Tag", "#c0", "/dir", "/dir/", "http://", "(expr)", "expr", "\n"}
Objects  == {"{}", "{..}", "{\\u}"}
Name     == (Strings \ {"\n"}) \cup {"{}", "{..}"}
Alnum    == {"", "word", "word6", "Tag"}
Filename == {"word", "word6", "Tag", "#c0", "(expr)", "expr"}
FilePath == Filename \cup {"/dir", "/dir/"}
Uri      == FilePath \cup {"http://"}
TagList  == {"", "Tag", "Tag2", "Tags"}       \* lists of two tags: none, one, both
SortTag  == {"Tag"}
HexColor == {"#c0"}
SearchExpression == {"", "(expr)", "expr"}    \* parsed without its parentheses
SongExpression   == {"", "(expr)"}            \* has to have parentheses
JsonObject == {"{}", "{..}"}                  \* no \u in it

(* A setting: what the command accepts, what the start accepts from the    *)
(* state file, and the default.                                            *)
Setting(accepted, read, default) ==
  [accepted |-> accepted, read |-> read, default |-> default]
Same(valid, default) == Setting(valid, valid, default)
All(keys, setting)   == [k \in keys |-> setting]
f ++ g == [k \in DOMAIN f \cup DOMAIN g |-> IF k \in DOMAIN f THEN f[k] ELSE g[k]]

ConnectionSettings ==
  All({"mpdHost", "stickerdbMpdHost"}, Setting(FilePath, Name, "word")) ++
  All({"mpdPort", "stickerdbMpdPort", "mpdTimeout", "stickerdbMpdTimeout",
       "mpdBinarylimit"}, Same({"n1", "n2"}, "n1")) ++
  All({"mpdPass", "stickerdbMpdPass"}, Setting(Name \cup {"dontsetpassword"}, Name, "")) ++
  All({"mpdKeepalive", "stickerdbMpdKeepalive", "mpdStringnormalization"}, Same(Bools, "true")) ++
  All({"musicDirectory", "playlistDirectory"}, Same(FilePath, "word"))

SmartplsSettings ==
  All({"smartpls"}, Same(Bools, "true")) ++
  All({"smartplsSort"}, Setting(SortTag \cup {""}, SortTag, "")) ++
  All({"smartplsPrefix"}, Setting(Filename \cup {""}, Name, "word")) ++
  All({"smartplsInterval"}, Same({"zero", "n1", "n2"}, "n1")) ++
  All({"smartplsGenerateTagList"}, Same(TagList, ""))

GlobalSettings ==
  SmartplsSettings ++
  All({"imageNamesSm", "imageNamesMd", "imageNamesLg", "bookletName", "infoTxtName"},
      Same(Filename, "word")) ++
  All({"lastPlayedCount", "volumeMin", "volumeMax"}, Same({"zero", "n1", "n2"}, "n1")) ++
  All({"volumeStep"}, Same({"n1", "n2"}, "n1")) ++
  All({"tagList", "tagListSearch", "tagListBrowse"}, Same(TagList, "Tag")) ++
  All({"tagDiscEmptyIsFirst"}, Same(Bools, "true")) ++
  All({"webuiSettings"}, Setting(Objects, JsonObject, "{}")) ++
  All({"lyricsUsltExt", "lyricsSyltExt", "lyricsVorbisUslt", "lyricsVorbisSylt"},
      Same(Alnum, "word"))

PartitionSettings ==
  All({"highlightColor", "highlightColorContrast"}, Same(HexColor, "#c0")) ++
  All({"mpdStreamPort"}, Same({"n1", "n2"}, "n1")) ++
  All({"streamUri"}, Setting({"", "http://"}, Uri, ""))

JukeboxSettings ==     \* a change of one of these clears the jukebox queue
  All({"jukeboxMode"}, Setting({"off", "song"}, {"0", "1"}, "off")) ++
  All({"jukeboxPlaylist"}, Same(Filename, "word")) ++
  All({"jukeboxUniqTag"}, Same({"Tag", "Tag2"}, "Tag")) ++
  All({"jukeboxLastPlayed"}, Same({"zero", "n1", "n2"}, "n1")) ++
  All({"jukeboxIgnoreHated"}, Same(Bools, "false")) ++
  All({"jukeboxFilterInclude", "jukeboxFilterExclude"},
      Setting(SearchExpression, SongExpression, "")) ++
  All({"jukeboxMinSongDuration", "jukeboxMaxSongDuration"}, Same(Numbers, "zero"))

PlaybackSettings ==
  JukeboxSettings ++
  All({"autoPlay", "jukeboxAutostart"}, Same(Bools, "false")) ++
  All({"jukeboxQueueLength"}, Setting({"n1", "n2"}, {"zero", "n1", "n2"}, "n1"))

ViewSettings ==
  All({"viewQueueCurrent", "viewQueueLastPlayed", "viewQueueJukeboxSong", "viewQueueJukeboxAlbum",
       "viewSearch", "viewPlayback", "viewBrowseFilesystem", "viewBrowseDatabaseAlbumDetailInfo",
       "viewBrowseDatabaseAlbumDetail", "viewBrowseDatabaseAlbumList", "viewBrowseDatabaseTagList",
       "viewBrowsePlaylistDetail", "viewBrowsePlaylistList", "viewBrowseRadioWebradiodb",
       "viewBrowseRadioFavorites"},
      Setting({"{}", "{..}"}, Name, "{}"))

(* Options of MPD itself: sent to it and not kept by myMPD.                *)
MpdOptions ==
  All({"random", "repeat"}, Same(Bools, "false")) ++
  All({"single", "consume"}, Same(Bools \cup {"oneshot"}, "false")) ++
  All({"crossfade", "mixrampDb", "mixrampDelay"}, Same({"zero", "n1", "n2"}, "zero")) ++
  All({"replaygain"}, Same({"off", "album"}, "off"))

AllSettings == ConnectionSettings ++ GlobalSettings ++ PartitionSettings ++
               PlaybackSettings ++ ViewSettings

ConnectionOptions == {"mpdTimeout", "mpdKeepalive", "mpdBinarylimit", "mpdStringnormalization"}
HostKeys     == {"mpdHost", "mpdPort", "mpdPass"}
StickerKeys  == {"stickerdbMpdHost", "stickerdbMpdPort", "stickerdbMpdPass"}
DirKeys      == {"mpdHost", "musicDirectory", "playlistDirectory"}
TagKeys      == {"tagList", "tagListSearch", "tagListBrowse", "smartplsGenerateTagList"}
NumberKeys   == {"jukeboxLastPlayed", "jukeboxMinSongDuration", "jukeboxMaxSongDuration",
                 "jukeboxQueueLength", "crossfade", "mixrampDb", "mixrampDelay"}
WebKeys      == {"imageNamesSm", "imageNamesMd", "imageNamesLg", "mpdHost",
                 "lyricsUsltExt", "lyricsSyltExt", "lyricsVorbisUslt", "lyricsVorbisSylt",
                 "mpdStreamPort", "streamUri"}
ASSUME SettingsAssumption == SettingGroups \subseteq SUBSET (DOMAIN AllSettings \cup DOMAIN MpdOptions)

Of(keys, values) == [k \in keys |-> values[k]]

(* "%S%i%S": host, port and password one behind the other, with nothing in *)
(* between.  n1 is a 6 before the digits of n2, word6 is word with a 6.    *)
Characters(value) ==
  CASE value = ""      -> <<>>
    [] value = "word6" -> <<"word", "6">>
    [] value = "n1"    -> <<"6", "7">>
    [] value = "n2"    -> <<"7">>
    [] OTHER           -> <<value>>
Joined(host, port, pass) == Characters(host) \o Characters(port) \o Characters(pass)
ConnText(now)    == Joined(now["mpdHost"], now["mpdPort"], now["mpdPass"])
StickerText(now) == Joined(now["stickerdbMpdHost"], now["stickerdbMpdPort"], now["stickerdbMpdPass"])

(* Feature detection: of the tags of a list those that are allowed; those  *)
(* MPD has and myMPD uses are allowed in the other lists.  The directories *)
(* are found by the settings, if MPD is on a socket from its own.          *)
Within(list, allowed) ==
  CASE list = "Tags"    -> allowed
    [] allowed = "Tags" -> list
    [] list = allowed   -> list
    [] OTHER            -> ""
TagsInForce(now, has) ==
  [k \in TagKeys |-> IF k = "tagList" THEN Within(now[k], has)
                     ELSE Within(now[k], Within(now["tagList"], has))]
Detected(now, has) == [dirs |-> Of(DirKeys, now), tags |-> TagsInForce(now, has)]

(***************************************************************************)
(* State files.                                                            *)
(***************************************************************************)
JukeboxNumber(mode) == IF mode = "off" THEN "0" ELSE "1"
WrittenRaw(key, value) == value           \* mutant: the mode is written by its name
Written(key, value) == IF key = "jukeboxMode" THEN JukeboxNumber(value) ELSE value
StripSlash(key, value) ==
  IF key \in {"musicDirectory", "playlistDirectory"} /\ value = "/dir/" THEN "/dir" ELSE value

(* The default of the sticker connection is the setting of MPD.            *)
StickerDefault == [stickerdbMpdHost |-> "mpdHost", stickerdbMpdPort |-> "mpdPort",
                   stickerdbMpdPass |-> "mpdPass", stickerdbMpdTimeout |-> "mpdTimeout",
                   stickerdbMpdKeepalive |-> "mpdKeepalive"]

(* An empty file counts as one that cannot be read.                        *)
ReadOr(default, key, file) ==
  IF file[key] \in {"none", ""} \/ file[key] \notin AllSettings[key].read THEN default
  ELSE IF key = "jukeboxMode" THEN CHOOSE m \in {"off", "song"} : JukeboxNumber(m) = file[key]
  ELSE StripSlash(key, file[key])

Reading(file) ==
  LET own == [k \in DOMAIN AllSettings |-> ReadOr(AllSettings[k].default, k, file)]
  IN  [k \in DOMAIN AllSettings |->
         IF k \in DOMAIN StickerDefault THEN ReadOr(own[StickerDefault[k]], k, file) ELSE own[k]]

Created(file) ==      \* missing files are written with the default
  [k \in DOMAIN file |-> IF file[k] = "none" THEN Written(k, Reading(file)[k]) ELSE file[k]]

(***************************************************************************)
(* One key of a command.  h is what the api thread holds, with the files   *)
(* and the result of the command: h.ok is false once a key failed.         *)
(***************************************************************************)
Write(h, key, value, fails) ==
  IF fails THEN [h EXCEPT !.ok = FALSE] ELSE [h EXCEPT !.file[key] = Written(key, value)]
Hold(h, key, value) == [h EXCEPT !.now[key] = StripSlash(key, value)]
EnableLast(h, condition) == [h EXCEPT !.connOptionsDue = condition]  \* mutant
EnableConnOptions(h, condition) == [h EXCEPT !.connOptionsDue = @ \/ condition]

ConnectionSaveAll(h, key, value, fails) ==        \* mutant: the placeholder is saved
  Write(Hold(h, key, value), key, value, fails)

ConnectionSave(h, key, value, fails) ==
  IF value = "dontsetpassword" THEN h
  ELSE LET held == EnableConnOptions(Hold(h, key, value),
                     key \in ConnectionOptions /\ value # h.now[key])
       IN  Write([held EXCEPT !.stickersFailed = @ \/ key \in {"stickerdbMpdTimeout", "stickerdbMpdKeepalive"}],
                 key, value, fails)

GlobalSet(h, key, value, fails) ==
  LET held == EnableConnOptions(Hold(h, key, value), key = "tagList")
      timed == IF key = "smartplsInterval" /\ value # h.now[key]
               THEN [held EXCEPT !.smartplsTimer = value] ELSE held
  IN  Write(timed, key, value, fails)

PartitionSet(h, key, value, fails) == Write(Hold(h, key, value), key, value, fails)

PlaybackSet(h, key, value, fails) ==
  LET held == Hold(h, key, value)
      cleared == IF key \in DOMAIN JukeboxSettings /\ value # h.now[key]
                 THEN [held EXCEPT !.jukebox = <<>>] ELSE held
  IN  Write(cleared, key, value, fails)

(* MPD may refuse an option; nothing is written.                           *)
MpdOptionSet(h, key, value, fails) ==
  IF fails THEN [h EXCEPT !.ok = FALSE] ELSE [h EXCEPT !.options[key] = value]

ViewSave(h, key, value, fails) == Write(Hold(h, key, value), key, value, fails)

(* An unknown key of the playback options, or text where they have a       *)
(* number, is passed over.                                                 *)
PassedOver(key, value) ==
  \/ key \notin DOMAIN PlaybackSettings \cup DOMAIN MpdOptions
  \/ key \in NumberKeys /\ value = "\n"

Accepts(settings, key, value) == key \in DOMAIN settings /\ value \in settings[key].accepted

(* The callback of each command for one key; a key it does not know makes  *)
(* it fail, but for playback, which runs only while MPD is connected.      *)
SetKey(command, h, key, value, fails) ==
  CASE command = "connection" /\ Accepts(ConnectionSettings, key, value) -> ConnectionSave(h, key, value, fails)
    [] command = "settings"   /\ Accepts(GlobalSettings, key, value)     -> GlobalSet(h, key, value, fails)
    [] command = "partition"  /\ Accepts(PartitionSettings, key, value)  -> PartitionSet(h, key, value, fails)
    [] command = "playback"   /\ Accepts(PlaybackSettings, key, value)   -> PlaybackSet(h, key, value, fails)
    [] command = "playback"   /\ Accepts(MpdOptions, key, value)         -> MpdOptionSet(h, key, value, fails)
    [] command = "view"       /\ Accepts(ViewSettings, key, value)       -> ViewSave(h, key, value, fails)
    [] command = "playback"   /\ PassedOver(key, value) -> [h EXCEPT !.ok = ~fails]
    [] OTHER -> [h EXCEPT !.ok = FALSE]

(* json_iterate_object: the pairs in their order, up to the first that     *)
(* fails; the write of the pair with the number failed fails, if any.      *)
Iterate(command, h, pairs, failed) ==
  LET after[n \in 0..Len(pairs)] ==
        IF n = 0 THEN h
        ELSE IF after[n - 1].ok
             THEN SetKey(command, after[n - 1], pairs[n][1], pairs[n][2], n = failed)
             ELSE after[n - 1]
  IN  after[Len(pairs)]

(* MYMPD_API_SETTINGS_GET: what clients are shown, and send back for the   *)
(* keys of a form that the user did not touch.  The tag lists are those in *)
(* force; they and the options of MPD are shown while it is connected.     *)
SettingsGet(h) ==
  [k \in IF setLink.up THEN DOMAIN h.now \cup DOMAIN h.options ELSE DOMAIN h.now \ TagKeys |->
     CASE k \in {"mpdPass", "stickerdbMpdPass"} -> "dontsetpassword"
       [] k \in TagKeys -> setFound.tags[k]
       [] k \in DOMAIN h.options -> h.options[k]
       [] OTHER -> h.now[k]]

(***************************************************************************)
(* The state after a start and the commands.                               *)
(***************************************************************************)
Fresh(file) ==
  [now |-> Reading(file), file |-> Created(file), ok |-> TRUE,
   options |-> [k \in DOMAIN MpdOptions |-> MpdOptions[k].default],
   connOptionsDue |-> FALSE, stickersFailed |-> FALSE,
   smartplsTimer |-> "zero",   \* interval of TIMER_ID_SMARTPLS_UPDATE
   jukebox |-> <<>>]           \* the options the songs of its queue were chosen with;
                               \* the files of this and the preset are those of StateFiles

NoLink == [up |-> FALSE]
LinkOf(now, has) ==
  [up |-> TRUE, host |-> Of(HostKeys, now), options |-> Of(ConnectionOptions, now), has |-> has]
NoDetection == [dirs |-> <<>>, tags |-> [k \in TagKeys |-> ""]]

SettingsInit ==
  /\ setKeys \in SettingGroups
  /\ LET start == Fresh([k \in DOMAIN AllSettings |-> "none"])
     IN  setHeld = start /\ setFile = start.file
  /\ setLink = NoLink /\ setFound = NoDetection /\ setWeb = <<>> /\ setPreset = <<>>
  /\ setPartial = FALSE /\ setUnsaved = FALSE
  /\ setCalls = 0 /\ setFaults = 0

(* Keys with a value that passes, or one with a newline, which none does.  *)
Inputs(key) == (MpdOptions ++ AllSettings)[key].accepted \cup {"\n"}
SettingPairs(keys) == UNION {{<<k, v>> : v \in Inputs(k)} : k \in keys}
CommandOf(key) ==
  CASE key \in DOMAIN ConnectionSettings -> "connection"
    [] key \in DOMAIN GlobalSettings     -> "settings"
    [] key \in DOMAIN PartitionSettings  -> "partition"
    [] key \in DOMAIN ViewSettings       -> "view"
    [] OTHER -> "playback"

Done(command, pairs, failed) == Iterate(command, [setHeld EXCEPT !.ok = TRUE], pairs, failed)

SettingsExecuted(held, pairs, failed) ==
  /\ setHeld' = held /\ setFile' = held.file
  /\ setPartial' = (setPartial \/ ~held.ok)
  /\ setUnsaved' = (setUnsaved \/ (~held.ok /\ failed # 0))
  /\ setCalls' = setCalls + 1
  /\ setFaults' = setFaults + (IF failed = 0 THEN 0 ELSE 1)
  /\ UNCHANGED setKeys

SettingsToWebserver(now, dirs) == setWeb' = [settings |-> Of(WebKeys, now), dirs |-> dirs]
DetectFeatures(now, has) ==
  /\ setFound' = Detected(now, has)
  /\ SettingsToWebserver(now, Of(DirKeys, now))

(* MYMPD_API_CONNECTION_SAVE: another text of the connection closes it;    *)
(* the connect timer opens it again.                                       *)
SaveConnection(pairs, failed) ==
  LET done  == Done("connection", pairs, failed)
      moved == ConnText(done.now) # ConnText(setHeld.now)
      held  == IF done.ok /\ StickerText(done.now) # StickerText(setHeld.now)
               THEN [done EXCEPT !.stickersFailed = FALSE] ELSE done
  IN  /\ SettingsExecuted(held, pairs, failed)
      /\ setLink' = IF done.ok /\ moved THEN NoLink ELSE setLink
      /\ IF done.ok /\ ~moved /\ setLink.up THEN DetectFeatures(done.now, setLink.has)
         ELSE UNCHANGED <<setFound, setWeb>>
      /\ UNCHANGED setPreset

(* MYMPD_API_SETTINGS_SET detects the features again, and the webserver is *)
(* told; MYMPD_API_PARTITION_SAVE only tells it.  Both are refused while   *)
(* MPD is not connected (mympd_client_idle_partition).                     *)
SaveSettings(command, pairs, failed) ==
  LET done == Done(command, pairs, failed)
  IN  /\ setLink.up /\ command \in {"settings", "partition"}
      /\ SettingsExecuted(done, pairs, failed)
      /\ CASE done.ok /\ command = "settings"  -> DetectFeatures(done.now, setLink.has)
           [] done.ok /\ command = "partition" -> /\ SettingsToWebserver(done.now, setFound.dirs)
                                                 /\ UNCHANGED setFound
           [] OTHER -> UNCHANGED <<setFound, setWeb>>
      /\ UNCHANGED <<setLink, setPreset>>

SaveView(pairs, failed) ==
  /\ SettingsExecuted(Done("view", pairs, failed), pairs, failed)
  /\ UNCHANGED <<setLink, setFound, setWeb, setPreset>>

(* MYMPD_API_PLAYER_OPTIONS_SET, optionally saved as a preset.             *)
SetPlayerOptions(pairs, failed, name) ==
  LET done == Done("playback", pairs, failed)
  IN  /\ setLink.up
      /\ SettingsExecuted(IF done.ok /\ done.now["jukeboxMode"] = "off"
                  THEN [done EXCEPT !.jukebox = <<>>] ELSE done, pairs, failed)
      /\ setPreset' = IF done.ok /\ name THEN pairs ELSE setPreset
      /\ UNCHANGED <<setLink, setFound, setWeb>>

(* preset_apply: the saved options, each validated again.                  *)
ApplyPreset(failed) ==
  /\ setLink.up /\ setPreset # <<>> /\ failed \in 0..Len(setPreset)
  /\ SettingsExecuted(Done("playback", setPreset, failed), setPreset, failed)
  /\ UNCHANGED <<setLink, setFound, setWeb, setPreset>>

SettingsCommand ==
  /\ setCalls < SettingsCalls
  /\ \/ \E first, second \in SettingPairs(setKeys), failed \in 0..2 :
          LET pairs == IF first[1] = second[1] THEN <<first>> ELSE <<first, second>>
          IN  /\ CommandOf(first[1]) = CommandOf(second[1])
              /\ (first[1] = second[1] => first = second)
              /\ failed <= Len(pairs) /\ (failed # 0 => setFaults < SettingsFaults)
              /\ LET command == CommandOf(first[1])
                 IN  \/ command = "connection" /\ SaveConnection(pairs, failed)
                     \/ SaveSettings(command, pairs, failed)
                     \/ command = "view" /\ Len(pairs) = 1 /\ SaveView(pairs, failed)
                     \/ command = "playback" /\ \E name \in BOOLEAN : SetPlayerOptions(pairs, failed, name)
     \/ \E failed \in 0..2 :
          (failed # 0 => setFaults < SettingsFaults) /\ ApplyPreset(failed)

(***************************************************************************)
(* The rest of the api thread.                                             *)
(***************************************************************************)
(* partitions_connect: the connection gets its options, the features are   *)
(* detected and the timer of the smart playlists is set.  Which tags MPD   *)
(* has is left open where the keys are about them.                         *)
SettingsConnect ==
  /\ ~setLink.up
  /\ \E has \in IF setKeys \cap TagKeys = {} THEN {"Tags"} ELSE TagList :
       /\ setLink' = LinkOf(setHeld.now, has)
       /\ DetectFeatures(setHeld.now, has)
  /\ setHeld' = [setHeld EXCEPT !.smartplsTimer =
                   IF setHeld.now["smartplsInterval"] # "zero" THEN setHeld.now["smartplsInterval"] ELSE @]
  /\ UNCHANGED <<setFile, setPreset, setKeys, setPartial, setUnsaved, setCalls, setFaults>>

(* mympd_client_idle_partition: connection options after a change.         *)
SetConnectionOptions ==
  /\ setLink.up /\ setHeld.connOptionsDue
  /\ setLink' = [setLink EXCEPT !.options = Of(ConnectionOptions, setHeld.now)]
  /\ setHeld' = [setHeld EXCEPT !.connOptionsDue = FALSE]
  /\ UNCHANGED <<setFile, setFound, setWeb, setPreset, setKeys, setPartial, setUnsaved, setCalls, setFaults>>

SettingsDisconnected ==
  /\ setLink.up /\ setFaults < SettingsFaults
  /\ setLink' = NoLink /\ setFaults' = setFaults + 1
  /\ UNCHANGED <<setHeld, setFile, setFound, setWeb, setPreset, setKeys, setPartial, setUnsaved, setCalls>>

(* The jukebox queue is filled with songs chosen by the options of now.    *)
FillJukebox ==
  /\ setLink.up /\ setHeld.now["jukeboxMode"] # "off" /\ setHeld.jukebox = <<>>
  /\ setHeld' = [setHeld EXCEPT !.jukebox = Of(DOMAIN JukeboxSettings, setHeld.now)]
  /\ UNCHANGED <<setFile, setLink, setFound, setWeb, setPreset, setKeys, setPartial, setUnsaved, setCalls, setFaults>>

SettingsRestart ==
  /\ setFaults < SettingsFaults
  /\ LET start == Fresh(setFile) IN setHeld' = start /\ setFile' = start.file
  /\ setLink' = NoLink /\ setFound' = NoDetection /\ setWeb' = <<>> /\ setPreset' = <<>>
  /\ setPartial' = FALSE /\ setUnsaved' = FALSE
  /\ setFaults' = setFaults + 1
  /\ UNCHANGED <<setKeys, setCalls>>

SettingsNext == SettingsCommand \/ SettingsConnect \/ SetConnectionOptions \/ SettingsDisconnected
                \/ FillJukebox \/ SettingsRestart

SettingsSpec == SettingsInit /\ [][SettingsNext]_settingVars

(***************************************************************************)
(* Properties                                                              *)
(***************************************************************************)
(* What the start does not take from the state file: an empty value (the   *)
(* default need not be empty: that of the password of the sticker          *)
(* connection is the password of MPD), a search expression without         *)
(* parentheses and an object with a unicode escape.                        *)
Lost(value) == value \in {"", "expr", "{\\u}"}

(* As long as every state file could be written, a restart comes back with *)
(* the settings in use, apart from the named losses.                       *)
SettingsKept ==
  ~setUnsaved => \A k \in DOMAIN AllSettings :
    Reading(setFile)[k] = setHeld.now[k] \/ Lost(setFile[k])

(* Saving a form as it is shown is accepted and changes no setting, no     *)
(* option of MPD and nothing of the jukebox queue.  The exception are the  *)
(* tag lists (settings.c:1146-1156 shows what is in force): a setting      *)
(* loses the tags that MPD does not have now, what is in force stays.      *)
SavingShownKeeps ==
  \A k \in setKeys :
    LET h     == [setHeld EXCEPT !.ok = TRUE]
        shown == SettingsGet(h)
        saved == Iterate(CommandOf(k), h, << <<k, shown[k]>> >>, 0)
    IN  k \in DOMAIN shown =>
          /\ saved.ok /\ saved.options = h.options /\ saved.jukebox = h.jukebox
          /\ \A other \in DOMAIN h.now : (other = k /\ k \in TagKeys) \/ saved.now[other] = h.now[other]
          /\ setLink.up /\ ~setPartial =>
               TagsInForce(saved.now, setLink.has) = TagsInForce(h.now, setLink.has)

(* If no command failed half way: the connection is to the MPD that is     *)
(* configured, but for hosts, ports and passwords that read the same one   *)
(* behind the other, for which it stays as it was opened                   *)
(* (mympd_api_handler.c:536-541); its options are those of now or will be  *)
(* set; the timer of the smart playlists has the configured interval; the  *)
(* tag lists and directories in force are those of now, with the tags MPD  *)
(* has; the webserver has the settings of now.  And the jukebox queue fits *)
(* to its options.                                                         *)
SettingsInForce ==
  /\ setLink.up /\ ~setPartial =>
       /\ ConnText(setLink.host) = ConnText(setHeld.now)
       /\ setLink.options = Of(ConnectionOptions, setHeld.now) \/ setHeld.connOptionsDue
       /\ setHeld.smartplsTimer = setHeld.now["smartplsInterval"]
       /\ setFound = Detected(setHeld.now, setLink.has)
       /\ setWeb = [settings |-> Of(WebKeys, setHeld.now), dirs |-> Of(DirKeys, setHeld.now)]
  /\ setHeld.jukebox = <<>> \/ setHeld.jukebox = Of(DOMAIN JukeboxSettings, setHeld.now)

(* Settings are saved, shown and in force without a difference but for the *)
(* named ones.                                                             *)
SettingsOK == SettingsKept /\ SavingShownKeeps /\ SettingsInForce
=============================================================================
