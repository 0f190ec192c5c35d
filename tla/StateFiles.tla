------------------------------ MODULE StateFiles ------------------------------
(***************************************************************************)
(* The state that the api thread keeps in files: the last played songs,    *)
(* the presets and the home icons, which are lists that are written at     *)
(* times (mympd_state_save), and a setting, which is written when it is    *)
(* set (state_file_write).  A file is written line by line to a temporary  *)
(* file, which then takes its name.  Opening, writing and renaming may     *)
(* fail, the program may end at any point, and it reads the files when it  *)
(* starts.                                                                 *)
(***************************************************************************)
EXTENDS Naturals, Sequences, SequencesExt

CONSTANTS
  HomeMax,         \* LIST_HOME_ICONS_MAX
  LastPlayedCount, \* last_played_count
  Entries,         \* icons, songs, values
  StateChanges,    \* bound: changes of the state
  StateFaults      \* bound: failures and crashes

ASSUME StateFilesAssumption ==
  {HomeMax, LastPlayedCount, StateChanges, StateFaults} \subseteq Nat \ {0}

Lists   == {"last_played", "presets", "home"}
Files   == Lists \union {"setting"}
NoFile  == <<"no file">>
Default == <<"default">>

VARIABLES
  inMemory,      \* file -> what it is in memory
  disk,       \* file -> what the file holds
  written,    \* file -> what the last save that succeeded was to write
  tmp,        \* the temporary file that is open, or NoFile
  toSave,     \* the files to write, the first one is being written
  process,    \* "running", "stopping", or "ended"
  saveArmed,  \* the timer for the save is set
  unsaved,    \* lists that a command changed since they were last saved, or
              \* since a save failed
  changes, troubles \* number of changes, and of failures and crashes

stateFileVars == <<inMemory, disk, written, tmp, toSave, process, saveArmed, unsaved,
                   changes, troubles>>

StateFilesInit ==
  /\ inMemory = [f \in Files |-> IF f = "setting" THEN Default ELSE <<>>]
  /\ disk = [f \in Files |-> NoFile] /\ written = disk
  /\ tmp = NoFile /\ toSave = <<"setting">> /\ process = "running"
  /\ saveArmed = FALSE /\ unsaved = {} /\ changes = 0 /\ troubles = 0

-----------------------------------------------------------------------------
(* The thread runs a handler, or the save, at a time                       *)

Between == process = "running" /\ toSave = <<>>

\* mympd_client_idle handled a request, which changed the list: the timer for
\* the save is added if it is not there (mympd_api_timer_add_uniq)
FileCommand(f, l) ==
  /\ Between /\ changes < StateChanges
  /\ inMemory' = [inMemory EXCEPT ![f] = l] /\ changes' = changes + 1
  /\ saveArmed' = TRUE /\ unsaved' = unsaved \union {f}
  /\ UNCHANGED <<disk, written, tmp, toSave, process, troubles>>

\* the list with a new icon or widget, or with one in the place of an old one
HomeWith(e) ==
  {Append(inMemory["home"], e)}
  \union {[inMemory["home"] EXCEPT ![i] = e] : i \in DOMAIN inMemory["home"]}

\* MYMPD_API_HOME_ICON_SAVE and _WIDGET_*_SAVE
HomeSave(e) ==
  /\ Len(inMemory["home"]) <= HomeMax
  /\ \E icons \in HomeWith(e) : FileCommand("home", icons)

HomeMove == \E i, j \in DOMAIN inMemory["home"] :
  i # j /\ FileCommand("home", InsertAt(RemoveAt(inMemory["home"], i), j, inMemory["home"][i]))

HomeRm == \E i \in DOMAIN inMemory["home"] : FileCommand("home", RemoveAt(inMemory["home"], i))

\* preset_save and preset_delete, for one name
PresetSave(e) == FileCommand("presets", <<e>>)
PresetRm      == inMemory["presets"] # <<>> /\ FileCommand("presets", <<>>)

\* mympd_api_last_played_add_song, from the scrobble timer: it does not arm
\* the save
LastPlayed(e) ==
  /\ Between /\ changes < StateChanges /\ changes' = changes + 1
  /\ inMemory' = [inMemory EXCEPT !["last_played"] =
                 LET l == <<e>> \o @ IN SubSeq(l, 1, IF Len(l) < LastPlayedCount
                                                     THEN Len(l) ELSE LastPlayedCount)]
  /\ UNCHANGED <<disk, written, tmp, toSave, process, saveArmed, unsaved, troubles>>

\* mympd_api_settings_set
SettingSet(e) ==
  /\ Between /\ changes < StateChanges /\ changes' = changes + 1
  /\ inMemory' = [inMemory EXCEPT !["setting"] = <<e>>]
  /\ toSave' = <<"setting">> /\ saveArmed' = TRUE
  /\ UNCHANGED <<disk, written, tmp, process, unsaved, troubles>>

-----------------------------------------------------------------------------
(* Saving                                                                  *)

\* mutant: the home icons are forgotten
SaveOrderShort == <<"last_played", "presets">>

\* mympd_state_save
SaveOrder == <<"last_played", "presets", "home">>

StartSave ==
  /\ toSave' = SaveOrder
  /\ UNCHANGED <<inMemory, disk, written, tmp, unsaved, changes, troubles>>

\* timer_handler_state_save; the timer is a one shot
SaveTimer == Between /\ saveArmed /\ saveArmed' = FALSE /\ StartSave /\ UNCHANGED process

\* INTERNAL_API_STATE_SAVE, on SIGHUP
SaveRequest == Between /\ StartSave /\ saveArmed' = TRUE /\ UNCHANGED process

\* the thread ends
Stop == Between /\ process' = "stopping" /\ StartSave /\ UNCHANGED saveArmed

\* the file is done, with or without success
NextFile(ok) ==
  /\ tmp' = NoFile /\ toSave' = Tail(toSave)
  /\ unsaved' = unsaved \ {Head(toSave)}
  /\ disk' = IF ok THEN [disk EXCEPT ![Head(toSave)] = tmp] ELSE disk
  /\ written' = IF ok THEN [written EXCEPT ![Head(toSave)] = inMemory[Head(toSave)]] ELSE written
  /\ troubles' = IF ok THEN troubles ELSE troubles + 1
  /\ UNCHANGED <<inMemory, process, saveArmed, changes>>

Saving == process # "ended" /\ toSave # <<>>

\* open_tmp_file
OpenTmp ==
  /\ Saving /\ tmp = NoFile
  /\ tmp' = <<>>
  /\ UNCHANGED <<inMemory, disk, written, toSave, process, saveArmed, unsaved, changes, troubles>>

OpenFails == Saving /\ tmp = NoFile /\ troubles < StateFaults /\ NextFile(FALSE)

WrittenOut == tmp # NoFile /\ Len(tmp) = Len(inMemory[Head(toSave)])

\* list_write_to_disk, fwrite of write_data_to_file, mpack_write
WriteLine ==
  /\ Saving /\ tmp # NoFile /\ ~WrittenOut
  /\ tmp' = Append(tmp, inMemory[Head(toSave)][Len(tmp) + 1])
  /\ UNCHANGED <<inMemory, disk, written, toSave, process, saveArmed, unsaved, changes, troubles>>

\* mutant: the file gets its name even if it could not be written to its end
RenamePartial == Saving /\ tmp # NoFile /\ NextFile(TRUE)

\* rename_tmp_file
RenameTmp == Saving /\ WrittenOut /\ NextFile(TRUE)

\* a line, the close or the rename failed: the temporary file is removed
WriteFails == Saving /\ tmp # NoFile /\ troubles < StateFaults /\ NextFile(FALSE)

\* the end of the thread
End ==
  /\ process = "stopping" /\ toSave = <<>> /\ process' = "ended"
  /\ UNCHANGED <<inMemory, disk, written, tmp, toSave, saveArmed, unsaved, changes, troubles>>

-----------------------------------------------------------------------------
(* Starts                                                                  *)

\* the process ends anywhere; a temporary file stays, and is of no use
Crash ==
  /\ process # "ended" /\ troubles < StateFaults /\ troubles' = troubles + 1
  /\ process' = "ended" /\ tmp' = NoFile
  /\ UNCHANGED <<inMemory, disk, written, toSave, saveArmed, unsaved, changes>>

\* mympd_api_home_file_read stops at LIST_HOME_ICONS_MAX lines
FileRestored(f) ==
  LET readable == IF f = "home" /\ Len(disk[f]) > HomeMax THEN HomeMax ELSE Len(disk[f])
  IN IF disk[f] # NoFile THEN SubSeq(disk[f], 1, readable)
     ELSE IF f = "setting" THEN Default ELSE <<>>

\* mympd_api_run: a setting without a file gets one (state_file_rw_string)
Start ==
  /\ process = "ended" /\ process' = "running"
  /\ inMemory' = [f \in Files |-> FileRestored(f)]
  /\ toSave' = IF disk["setting"] = NoFile THEN <<"setting">> ELSE <<>>
  /\ tmp' = NoFile /\ saveArmed' = FALSE /\ unsaved' = {}
  /\ UNCHANGED <<disk, written, changes, troubles>>

SaveSteps == OpenTmp \/ OpenFails \/ WriteLine \/ RenameTmp \/ WriteFails

StateFilesNext ==
  \/ \E e \in Entries : HomeSave(e) \/ PresetSave(e) \/ LastPlayed(e) \/ SettingSet(e)
  \/ HomeMove \/ HomeRm \/ PresetRm
  \/ SaveTimer \/ SaveRequest \/ Stop \/ SaveSteps \/ End \/ Crash \/ Start

\* the timer fires, and the handlers of the thread run to their end
StateFilesFairness == WF_stateFileVars(SaveSteps) /\ WF_stateFileVars(SaveTimer)

StateFilesSpec == StateFilesInit /\ [][StateFilesNext]_stateFileVars /\ StateFilesFairness

-----------------------------------------------------------------------------
(* Properties                                                              *)

\* Whatever fails and whenever the process ends, a file holds the whole of
\* what the last save that succeeded had to write (open_tmp_file,
\* rename_tmp_file): never the half of a save.
FilesWhole == disk = written

\* A list that a command changed is written, without a further command, unless
\* the process ends or the save of this file fails (mympd_api_timer_add_uniq
\* in mympd_api_run, mympd_state_save).
ChangesSaved ==
  \A f \in Lists : []<>(f \notin unsaved \/ process = "ended")

\* The file of a list is never torn and in time has what the clients changed.
FilesKept == []FilesWhole /\ ChangesSaved
=============================================================================
