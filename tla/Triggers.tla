------------------------------- MODULE Triggers -------------------------------
(***************************************************************************)
(* The triggers of the mympd_api thread (mympd_api/trigger.c): a list      *)
(* sorted by name, whose entries a browser addresses by their position.    *)
(* Partitions come and go in MPD; myMPD notices it in partitions_populate, *)
(* and removes their state directory itself only if it deleted them.       *)
(*                                                                         *)
(* A trigger is a record with a unique key, which stands for its script    *)
(* and its arguments.  All triggers are for the same event.                *)
(***************************************************************************)
EXTENDS Integers, Sequences, SequencesExt, FiniteSets, FiniteSetsExt, Ordered

CONSTANTS
  TriggerPartitions,  \* partitions other than the default one
  TriggerMax,         \* LIST_TRIGGER_MAX
  TriggerNames,       \* names, in the order of the sort
  TriggerSaves        \* bound: how often a trigger is saved

ASSUME TriggerAssumption ==
  TriggerMax \in Nat /\ TriggerSaves \in Nat /\ TriggerNames \subseteq Int

TriggerDefault == "default"   \* MPD_PARTITION_DEFAULT
TriggerAll     == "!all!"     \* MPD_PARTITION_ALL
TriggerScopes  == TriggerPartitions \union {TriggerDefault, TriggerAll}
Trigger == [key : 1..TriggerSaves, name : TriggerNames, part : TriggerScopes]

VARIABLES
  triggers,        \* trigger_list
  triggerFile,     \* what trigger_list in the state directory holds
  triggerSaves,    \* number of triggers saved so far
  dueTriggers,     \* history: the triggers that were saved and not deleted or replaced
  dueInFile,       \* history: those due when the file was written
  stateDirs,       \* partitions with a state directory
  partitionList,   \* partitions in the partition list of myMPD
  mpdPartitions,   \* partitions MPD has
  shownTriggers,   \* the last listing, id -> trigger, empty once it is out of date
  startedTriggers  \* keys of the triggers whose scripts the last event started

triggerStore == <<triggers, triggerFile, triggerSaves, dueTriggers, dueInFile>>
triggerParts == <<stateDirs, partitionList, mpdPartitions>>
triggerViews == <<shownTriggers, startedTriggers>>
triggerVars  == <<triggerStore, triggerParts, triggerViews>>

InScope(t, p)  == t.part = p \/ t.part = TriggerAll

TriggersInit ==
  /\ triggers = <<>> /\ triggerFile = <<>>
  /\ stateDirs = {TriggerDefault} /\ partitionList = {TriggerDefault}
  /\ mpdPartitions = {TriggerDefault}
  /\ triggerSaves = 0 /\ dueTriggers = {} /\ dueInFile = {}
  /\ shownTriggers = <<>> /\ startedTriggers = {}

-----------------------------------------------------------------------------
\* list_sort_by_key: a stable merge sort
TriggerSort(s) == NameSorted(s)

TriggersChanged(new, due) ==
  /\ triggers' = new /\ dueTriggers' = due
  /\ shownTriggers' = <<>> /\ startedTriggers' = {}
  /\ UNCHANGED <<triggerFile, dueInFile, triggerParts>>

\* positions count from 0
TriggerFound(id) == id < Len(triggers)

\* The trigger a client means by an id: the one its listing shows with it, and the
\* one at that position only if the listing is out of date or leaves it out
MeantTrigger(id) ==
  IF id \in DOMAIN shownTriggers THEN shownTriggers[id] ELSE triggers[id + 1]

\* A trigger replaces the one at the position id, -1 stands for none: the old
\* one goes first, and if it is not there nothing is saved.
TriggerSave(id, name, part) ==
  /\ triggerSaves < TriggerSaves /\ Len(triggers) <= TriggerMax
  /\ id >= 0 => TriggerFound(id)
  /\ LET new  == [key |-> triggerSaves + 1, name |-> name, part |-> part]
         rest == IF id >= 0 THEN RemoveAt(triggers, id + 1) ELSE triggers
         due  == IF id >= 0 THEN dueTriggers \ {MeantTrigger(id)} ELSE dueTriggers IN
     TriggersChanged(TriggerSort(Append(rest, new)), due \union {new})
  /\ triggerSaves' = triggerSaves + 1

TriggerDelete(id) ==
  /\ TriggerFound(id)
  /\ TriggersChanged(RemoveAt(triggers, id + 1), dueTriggers \ {MeantTrigger(id)})
  /\ UNCHANGED triggerSaves

\* The listing of the triggers for p: the id is the position in the whole list
\* mutant: the id counts the triggers listed
TriggerListShort(p) ==
  LET listed == EntriesAt(triggers, {i \in DOMAIN triggers : InScope(triggers[i], p)}) IN
  [id \in 0..Len(listed) - 1 |-> listed[id + 1]]

TriggerList(p) ==
  [id \in {i - 1 : i \in {i \in DOMAIN triggers : InScope(triggers[i], p)}} |->
     triggers[id + 1]]

ListTriggers(p) ==
  /\ p \in partitionList
  /\ shownTriggers' = TriggerList(p)
  /\ UNCHANGED <<triggerStore, triggerParts, startedTriggers>>

\* An event of p starts the scripts of its triggers, each by a request to the
\* script thread (that of an HTTP event carries the connection to answer)
TriggerEvent(p) ==
  /\ p \in partitionList
  /\ startedTriggers' = {t.key : t \in {t \in Range(triggers) : InScope(t, p)}}
  /\ UNCHANGED <<triggerStore, triggerParts, shownTriggers>>

-----------------------------------------------------------------------------
(* Partitions                                                              *)

\* MYMPD_API_PARTITION_NEW, or another client of MPD
PartitionNew(p) ==
  /\ p \in TriggerPartitions \ mpdPartitions
  /\ mpdPartitions' = mpdPartitions \union {p}
  /\ UNCHANGED <<triggerStore, triggerViews, stateDirs, partitionList>>

\* MPD deletes p; if it was MYMPD_API_PARTITION_RM that asked for it, its state
\* directory is removed too
PartitionRm(p) ==
  /\ p \in mpdPartitions \ {TriggerDefault}
  /\ mpdPartitions' = mpdPartitions \ {p}
  /\ \/ p \in partitionList /\ stateDirs' = stateDirs \ {p}
     \/ UNCHANGED stateDirs
  /\ UNCHANGED <<triggerStore, triggerViews, partitionList>>

\* The code collects how many triggers belong to p, and deletes that many from
\* the head of the list.  (The array that collects them has TriggerMax places: if all
\* TriggerMax + 1 triggers are of p, its write past the end is taken to do no harm.)
TriggersOf(p) == {i \in DOMAIN triggers : triggers[i].part = p}
\* mutant: the loop over them ends one too early
TriggerDeletePartitionLess(p) ==
  IF TriggersOf(p) = {} THEN triggers ELSE SubSeq(triggers, Cardinality(TriggersOf(p)), Len(triggers))
TriggerDeletePartition(p) ==
  SubSeq(triggers, Cardinality(TriggersOf(p)) + 1, Len(triggers))

\* The triggers of p go.  Where others precede them in the list those go instead, and
\* nothing more is due than what the code leaves.
DueWithout(p) ==
  IF \A i \in 1..Cardinality(TriggersOf(p)) : triggers[i].part = p
  THEN {t \in dueTriggers : t.part # p}
  ELSE Range(TriggerDeletePartition(p))

\* partitions_populate, for one partition at a time
PartitionRemoved(p) ==
  /\ p \in partitionList \ mpdPartitions
  /\ partitionList' = partitionList \ {p}
  /\ triggers' = TriggerDeletePartition(p) /\ dueTriggers' = DueWithout(p)
  /\ shownTriggers' = (IF TriggersOf(p) = {} THEN shownTriggers ELSE <<>>)
  /\ startedTriggers' = {}
  /\ UNCHANGED <<triggerFile, dueInFile, stateDirs, mpdPartitions, triggerSaves>>

\* partitions_add reads the settings of p, which creates its state directory
PartitionAdded(p) ==
  /\ p \in mpdPartitions \ partitionList
  /\ partitionList' = partitionList \union {p}
  /\ stateDirs' = stateDirs \union {p}
  /\ UNCHANGED <<triggerStore, triggerViews, mpdPartitions>>

-----------------------------------------------------------------------------
(* The file                                                                *)

TriggerFileSave ==
  /\ triggerFile' = triggers /\ dueInFile' = dueTriggers
  /\ UNCHANGED <<triggers, triggerSaves, dueTriggers, triggerParts, triggerViews>>

\* a trigger of a partition without state directory is skipped
PartitionKnown(t) == t.part \in stateDirs \union {TriggerAll}

\* at most TriggerMax + 1 lines are read, in the order of the file
TriggerFileRead ==
  LET known == {i \in DOMAIN triggerFile :
                  i <= TriggerMax + 1 /\ PartitionKnown(triggerFile[i])} IN
  TriggerSort(EntriesAt(triggerFile, known))

\* myMPD stops, with or without having saved, and starts again: what was due when the
\* file was written is due again
TriggersRestart ==
  /\ triggers' = TriggerFileRead
  /\ dueTriggers' = {t \in dueInFile : PartitionKnown(t)}
  /\ partitionList' = {TriggerDefault}
  /\ shownTriggers' = <<>> /\ startedTriggers' = {}
  /\ UNCHANGED <<triggerFile, dueInFile, stateDirs, mpdPartitions, triggerSaves>>

TriggersNext ==
  \/ \E id \in -1..TriggerMax, name \in TriggerNames, part \in TriggerScopes :
       TriggerSave(id, name, part)
  \/ \E id \in 0..TriggerMax : TriggerDelete(id)
  \/ \E p \in TriggerScopes : ListTriggers(p) \/ TriggerEvent(p)
  \/ \E p \in TriggerPartitions :
       \/ PartitionNew(p) \/ PartitionRm(p)
       \/ PartitionRemoved(p) \/ PartitionAdded(p)
  \/ TriggerFileSave
  \/ TriggersRestart

TriggersSpec == TriggersInit /\ [][TriggersNext]_triggerVars

-----------------------------------------------------------------------------
\* Every trigger of the listing is still at the position its id stands for, and the id
\* is one that the handlers accept, in a full list too: positions are those of the whole
\* list, though a listing leaves out other partitions.
TriggersAddressed ==
  \A id \in DOMAIN shownTriggers :
    id \in 0..TriggerMax /\ TriggerFound(id) /\ triggers[id + 1] = shownTriggers[id]

\* The list holds the triggers that are due, each once and in the order of the names:
\* a client that replaces or deletes one it was shown hits that one and no other, a
\* removed partition takes its triggers along (save DueWithout), a restart brings back
\* all that the file was written from (of partitions that are still known), however
\* full the list was.  A script that an event started is one of a trigger that is due.
TriggersKept ==
  /\ Range(triggers) = dueTriggers
  /\ \A i, j \in DOMAIN triggers :
       i < j => triggers[i].key # triggers[j].key /\ triggers[i].name <= triggers[j].name
  /\ startedTriggers \subseteq {t.key : t \in dueTriggers}

TriggersOK == TriggersAddressed /\ TriggersKept

\* "Removes all triggers for specified partition" (trigger.c:282, and partitions.c:193):
\* if a partition goes, its triggers and no others go with it.
PartitionTriggersRemoved ==
  [][\A p \in TriggerPartitions :
       PartitionRemoved(p) => triggers' = SelectSeq(triggers, LAMBDA t : t.part # p)]_triggerVars
=============================================================================
