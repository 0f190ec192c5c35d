------------------------------- MODULE Scripts -------------------------------
(***************************************************************************)
(* The scripts thread: the script list and the files it mirrors, the       *)
(* variables that scripts keep (saved) and the temporary ones (with a      *)
(* lifetime), and the worker threads that run the scripts.  A request is   *)
(* handled by one thread and therefore in one step; the workers, a crash   *)
(* and the user who edits the files interleave with it.                    *)
(*                                                                         *)
(* A script is its content; a content either compiles or does not.  Of a   *)
(* variable only matters whether its line can be read back from the file.  *)
(***************************************************************************)
EXTENDS Integers, Sequences, FiniteSets, SequencesExt, FiniteSetsExt, Ordered

CONSTANTS
  ScriptNames,       \* names of scripts, numbers: the list is sorted by name
  ScriptTexts,       \* contents that compile
  BrokenText,        \* a content that does not compile
  BareText,          \* a file without the metadata line
  NoText,            \* no file, no byte code
  ScriptWorkers,     \* MAX_SCRIPT_WORKER_THREADS
  VarNames,          \* keys of variables, numbers: the list is sorted by key
  VarsMax,           \* LIST_SCRIPT_VARS_MAX
  TmpNames, TmpLives, \* keys and lifetimes of temporary variables
  TmpSweep,          \* seconds between two sweeps
  ScriptClock,       \* bound: seconds
  ScriptCalls,       \* bound: requests
  ScriptFaults       \* bound: failing system calls, foreign edits, crashes

ASSUME ScriptAssumption ==
  /\ IsFiniteSet(ScriptNames) /\ ScriptNames \subseteq Nat \ {0}
  /\ TmpSweep \in Nat \ {0} /\ TmpLives \subseteq Int

VARIABLES
  scriptsUp,         \* the thread runs
  scripts,           \* script_list: [name, text, code], sorted by name
  scriptFiles,       \* the files of the scripts directory
  vars, varFile,     \* var_list and the file it is saved to: [VarNames -> line]
  tmps, nextSweep,   \* tmp_list, tmp_list_next_exp
  runs,              \* script workers: [call, http, counted]
  scriptAnswers,           \* answers sent so far, by request
  tmpRead,           \* the temporary variable that was returned last
  doubled,           \* scripts saved over another one without naming it
  scriptNow, scriptFaults

scriptVars == <<scriptsUp, scripts, scriptFiles, vars, varFile, tmps, nextSweep,
                runs, scriptAnswers, tmpRead, doubled, scriptNow, scriptFaults>>

scriptStore == <<scripts, scriptFiles, doubled>>
keptVars == <<vars, varFile>>
tmpVars == <<tmps, nextSweep, tmpRead>>

Texts == ScriptTexts \cup {BrokenText}
Compiles(text) == text # BrokenText

ScriptEntry(name, text) == [name |-> name, text |-> text, code |-> NoText]

(* list_sort_by_key is stable: a later entry of the same name stays behind. *)
ByName(list) == NameSorted(list)

EntriesOf(name) == {i \in DOMAIN scripts : scripts[i].name = name}

(* Mutant: the entry of the old script stays. *)
WithoutNothing(name) == scripts

(* list_get_node looks from both ends at once, the head first. *)
LooksTaken(i) == Min({2 * (i - 1), 2 * (Len(scripts) - i) + 1})
FoundEntry(name) ==
  CHOOSE i \in EntriesOf(name) : \A j \in EntriesOf(name) : LooksTaken(i) <= LooksTaken(j)

(* list_remove_node_by_key removes the first entry with the key. *)
Without(name) ==
  IF EntriesOf(name) = {} THEN scripts ELSE RemoveAt(scripts, Min(EntriesOf(name)))

(* A file that has the metadata line becomes an entry. *)
ScriptsRead ==
  LET names == {n \in ScriptNames : scriptFiles[n] \in Texts}
  IN [i \in 1..Cardinality(names) |-> ScriptEntry(NthIn(names, i), scriptFiles[NthIn(names, i)])]

(* The file is read up to the first line that is not valid, and no further
   than the limit; a line longer than LINE_LENGTH_MAX is cut and not valid. *)
VarsRead ==
  [v \in VarNames |->
     LET upTo == {w \in VarNames : w <= v /\ varFile[w] # "none"}
     IN IF (\E w \in upTo : varFile[w] = "long") \/ Cardinality(upTo) > VarsMax
        THEN "none" ELSE varFile[v]]

NoTmps == [t \in TmpNames |-> {}]
NoTmpRead == [expires |-> 0, at |-> 0]

ScriptsInit ==
  /\ scriptsUp = TRUE
  /\ scripts = <<>>
  /\ scriptFiles = [n \in ScriptNames |-> NoText]
  /\ vars = [v \in VarNames |-> "none"] /\ varFile = vars
  /\ tmps = NoTmps /\ nextSweep = TmpSweep
  /\ runs = {} /\ scriptAnswers = <<>> /\ tmpRead = NoTmpRead /\ doubled = {}
  /\ scriptNow = 0 /\ scriptFaults = 0

-----------------------------------------------------------------------------
(* Every request is answered by its handler, but those whose script answers. *)
Respond(n) ==
  /\ scriptsUp /\ Len(scriptAnswers) < ScriptCalls
  /\ scriptAnswers' = Append(scriptAnswers, n)
  /\ UNCHANGED <<scriptsUp, scriptNow>>

May(fault) ==
  /\ scriptFaults + (IF fault THEN 1 ELSE 0) <= ScriptFaults
  /\ scriptFaults' = scriptFaults + (IF fault THEN 1 ELSE 0)

Quiet == UNCHANGED scriptFaults

(* MYMPD_API_SCRIPT_SAVE of a content that compiles: write the file, remove the
   one it replaces, then replace the entry.  The entry of the old script is gone
   even if its file is missing or could not be removed; the new one is then not
   added. *)
ScriptSave(name, old, text) ==
  \E failed \in {"write"} \cup (IF old \in {0, name} THEN {"nothing"}
                             ELSE IF scriptFiles[old] = NoText THEN {"remove"}
                             ELSE {"nothing", "remove"}) :
    /\ May(failed # "nothing" /\ ~(failed = "remove" /\ scriptFiles[old] = NoText))
    /\ IF failed = "write" THEN UNCHANGED scriptStore
       ELSE /\ scriptFiles' = [n \in ScriptNames |->
                 IF n = name THEN text
                 ELSE IF n = old /\ failed = "nothing" THEN NoText ELSE scriptFiles[n]]
            /\ scripts' =
                 LET rest == Without(old)
                 IN IF failed = "remove" THEN rest ELSE ByName(Append(rest, ScriptEntry(name, text)))
            /\ doubled' = IF old # name /\ EntriesOf(name) # {}
                          THEN doubled \cup {name} ELSE doubled
    /\ Respond(1)
    /\ UNCHANGED <<keptVars, tmpVars, runs>>

(* A content that does not compile is refused, and MYMPD_API_SCRIPT_VALIDATE,
   MYMPD_API_SCRIPT_GET, the lists and the check of a signature change nothing. *)
ScriptRead ==
  /\ Respond(1) /\ Quiet
  /\ UNCHANGED <<scriptStore, keptVars, tmpVars, runs>>

(* MYMPD_API_SCRIPT_RM removes the entry, then the file. *)
ScriptDelete(name) ==
  /\ \E failed \in BOOLEAN :
       /\ failed => EntriesOf(name) # {}
       /\ May(failed)
       /\ scriptFiles' = IF failed \/ EntriesOf(name) = {} THEN scriptFiles
                         ELSE [scriptFiles EXCEPT ![name] = NoText]
  /\ scripts' = Without(name)
  /\ Respond(1)
  /\ UNCHANGED <<doubled, keptVars, tmpVars, runs>>

(* MYMPD_API_SCRIPT_RELOAD clears the list before it opens the directory. *)
ScriptReload ==
  /\ \E failed \in BOOLEAN :
       /\ May(failed)
       /\ scripts' = IF failed THEN <<>> ELSE ScriptsRead
  /\ doubled' = {}
  /\ Respond(1)
  /\ UNCHANGED <<scriptFiles, keptVars, tmpVars, runs>>

-----------------------------------------------------------------------------
(* Workers are counted by the worker threads themselves. *)
TooManyWorkers == Cardinality({r \in runs : r.counted}) > ScriptWorkers

(* The entry with the byte code of its content, kept for the next start. *)
Compiled(i) ==
  IF scripts[i].code = NoText
  THEN [scripts EXCEPT ![i].code = IF Compiles(scripts[i].text) THEN scripts[i].text ELSE NoText]
  ELSE scripts

(* Mutant: the handler answers an HTTP request whose script answers as well. *)
AnsweredTwice(http, started) == 1

(* answered: what the handler sends itself; a script started by an HTTP request
   answers that request, with its result or with the error. *)
Answered(http, started) == IF http /\ started THEN 0 ELSE 1

(* MYMPD_API_SCRIPT_EXECUTE of a listed script.  INTERNAL_API_SCRIPT_EXECUTE, which triggers and
   timers send, does the same; but for an HTTP request it has no answer. *)
ScriptExecute(name, http) ==
  \E failed \in {"nothing", "lua", "thread"} :
    LET found == ~TooManyWorkers /\ EntriesOf(name) # {}
        loads == found /\ failed # "lua"
        code  == IF loads THEN Compiled(FoundEntry(name)) ELSE scripts
        runnable == loads /\ code[FoundEntry(name)].code # NoText
        started == runnable /\ failed # "thread"
    IN /\ failed = "lua" => found
       /\ failed = "thread" => runnable
       /\ May(failed # "nothing")
       /\ scripts' = code
       /\ runs' = IF started
                  THEN runs \cup {[call |-> Len(scriptAnswers) + 1, http |-> http, counted |-> FALSE]}
                  ELSE runs
       /\ Respond(Answered(http, started))
       /\ UNCHANGED <<scriptFiles, doubled, keptVars, tmpVars>>

(* INTERNAL_API_SCRIPT_POST_EXECUTE runs the posted content. *)
ScriptPost(text) ==
  /\ runs' = IF TooManyWorkers \/ ~Compiles(text) THEN runs
             ELSE runs \cup {[call |-> Len(scriptAnswers) + 1, http |-> FALSE, counted |-> FALSE]}
  /\ Respond(1) /\ Quiet
  /\ UNCHANGED <<scriptStore, keptVars, tmpVars>>

(* script_run counts the worker when the thread runs, not when it is created. *)
WorkerBegins(r) ==
  /\ ~r.counted
  /\ runs' = (runs \ {r}) \cup {[r EXCEPT !.counted = TRUE]}
  /\ Quiet
  /\ UNCHANGED <<scriptsUp, scriptStore, keptVars, tmpVars, scriptAnswers, scriptNow>>

(* The result, an empty result and an error all answer an HTTP request; of the
   others the clients are notified. *)
WorkerEnds(r) ==
  /\ r.counted
  /\ runs' = runs \ {r}
  /\ scriptAnswers' = IF r.http THEN [scriptAnswers EXCEPT ![r.call] = @ + 1] ELSE scriptAnswers
  /\ Quiet
  /\ UNCHANGED <<scriptsUp, scriptStore, keptVars, tmpVars, scriptNow>>

-----------------------------------------------------------------------------
VarSet(v, line) ==
  /\ vars' = [vars EXCEPT ![v] = line]
  /\ Respond(1) /\ Quiet
  /\ UNCHANGED <<scriptStore, varFile, tmpVars, runs>>

VarDelete(v) == VarSet(v, "none")

(* INTERNAL_API_STATE_SAVE; the file is replaced as a whole or not at all. *)
VarsSave ==
  /\ \E failed \in BOOLEAN :
       /\ May(failed)
       /\ varFile' = IF failed THEN varFile ELSE vars
  /\ Respond(1)
  /\ UNCHANGED <<scriptStore, vars, tmpVars, runs>>

TmpSet(t, life) ==
  /\ tmps' = [tmps EXCEPT ![t] = {[expires |-> IF life > 0 THEN scriptNow + life ELSE life,
                                   read |-> FALSE]}]
  /\ Respond(1) /\ Quiet
  /\ UNCHANGED <<scriptStore, keptVars, nextSweep, tmpRead, runs>>

TmpDelete(t) ==
  /\ tmps' = [tmps EXCEPT ![t] = {}]
  /\ Respond(1) /\ Quiet
  /\ UNCHANGED <<scriptStore, keptVars, nextSweep, tmpRead, runs>>

(* The sweep removes what has expired; zero and negative lifetimes have not. *)
Expired(x) == x.expires > 0 /\ x.expires <= scriptNow

(* Mutant: the sweep is a second late. *)
SweepLate == nextSweep < scriptNow

(* script_tmp_list_should_expire *)
SweepDue == nextSweep <= scriptNow
Swept == IF SweepDue THEN [t \in TmpNames |-> {x \in tmps[t] : ~Expired(x)}] ELSE tmps
SweepThen == nextSweep' = IF SweepDue THEN scriptNow + TmpSweep ELSE nextSweep

(* Mutant: a variable to be read once is kept. *)
AfterReadKept(t) == {[x EXCEPT !.read = TRUE] : x \in Swept[t]}

(* What a read of variable t leaves: one with a lifetime of zero is removed. *)
AfterRead(t) == {[x EXCEPT !.read = TRUE] : x \in {y \in Swept[t] : y.expires # 0}}

TmpGet(t) ==
  /\ SweepThen
  /\ tmps' = [Swept EXCEPT ![t] = AfterRead(t)]
  /\ tmpRead' = IF Swept[t] = {} THEN NoTmpRead
                ELSE [expires |-> (CHOOSE x \in Swept[t] : TRUE).expires, at |-> scriptNow]
  /\ Respond(1) /\ Quiet
  /\ UNCHANGED <<scriptStore, keptVars, runs>>

TmpList ==
  /\ SweepThen /\ tmps' = Swept
  /\ Respond(1) /\ Quiet
  /\ UNCHANGED <<scriptStore, keptVars, tmpRead, runs>>

ScriptTick ==
  /\ scriptNow < ScriptClock
  /\ scriptNow' = scriptNow + 1
  /\ Quiet
  /\ UNCHANGED <<scriptsUp, scriptStore, keptVars, tmpVars, runs, scriptAnswers>>

-----------------------------------------------------------------------------
(* The user edits a file of the directory. *)
ScriptEdit(name, text) ==
  /\ May(TRUE)
  /\ scriptFiles' = [scriptFiles EXCEPT ![name] = text]
  /\ doubled' = doubled \cup {name}
  /\ UNCHANGED <<scriptsUp, scripts, keptVars, tmpVars, runs, scriptAnswers, scriptNow>>

(* The thread ends and saves the variables, or the process is killed. *)
ScriptsStop ==
  /\ scriptsUp /\ scriptsUp' = FALSE
  /\ \E failed \in BOOLEAN :
       /\ May(failed)
       /\ varFile' = IF failed THEN varFile ELSE vars
  /\ scripts' = <<>> /\ doubled' = {}
  /\ vars' = [v \in VarNames |-> "none"]
  /\ tmps' = NoTmps /\ tmpRead' = NoTmpRead
  /\ runs' = {} /\ scriptAnswers' = [i \in DOMAIN scriptAnswers |-> 1]
  /\ UNCHANGED <<scriptFiles, nextSweep, scriptNow>>

ScriptsStart ==
  /\ ~scriptsUp /\ scriptsUp' = TRUE
  /\ scripts' = ScriptsRead
  /\ vars' = VarsRead
  /\ nextSweep' = scriptNow + TmpSweep
  /\ Quiet
  /\ UNCHANGED <<scriptFiles, doubled, varFile, tmps, tmpRead, runs, scriptAnswers, scriptNow>>

ScriptsRequest ==
  \/ \E n \in ScriptNames, o \in ScriptNames \cup {0}, x \in Texts :
        Compiles(x) /\ ScriptSave(n, o, x)
  \/ ScriptRead
  \/ \E n \in ScriptNames : ScriptDelete(n)
  \/ ScriptReload
  \/ \E n \in ScriptNames, http \in BOOLEAN : ScriptExecute(n, http)
  \/ \E x \in Texts : ScriptPost(x)
  \/ \E v \in VarNames, l \in {"short", "long"} : VarSet(v, l)
  \/ \E v \in VarNames : VarDelete(v)
  \/ VarsSave
  \/ \E t \in TmpNames, life \in TmpLives : TmpSet(t, life)
  \/ \E t \in TmpNames : TmpDelete(t) \/ TmpGet(t)
  \/ TmpList

ScriptsNext ==
  \/ ScriptsRequest
  \/ \E r \in runs : WorkerBegins(r) \/ WorkerEnds(r)
  \/ \E n \in ScriptNames, x \in Texts \cup {BareText, NoText} : ScriptEdit(n, x)
  \/ ScriptsStop
  \/ ScriptsStart
  \/ ScriptTick

ScriptsSpec == ScriptsInit /\ [][ScriptsNext]_scriptVars

-----------------------------------------------------------------------------
(* What is listed is what a reload would read: the entry of a script has the
   content of its file, and the byte code that runs is compiled from it, unless
   the user edited the file or a script was saved over another one without
   naming that one as the script it replaces. *)
ScriptsOnDisk ==
  \A i \in DOMAIN scripts :
    LET e == scripts[i] IN
    /\ e.code \in {NoText, e.text}
    /\ e.name \in doubled \/ (EntriesOf(e.name) = {i} /\ scriptFiles[e.name] = e.text)

(* A request gets one answer, from its handler or from the script it started,
   and only a request whose script still runs has none yet. *)
ScriptsAnswer ==
  \A c \in DOMAIN scriptAnswers :
    scriptAnswers[c] = IF \E r \in runs : r.call = c /\ r.http THEN 0 ELSE 1

(* A temporary variable to be read once has not been read, and no variable is
   returned a whole sweep interval after it expired, though the list is swept
   only by the requests that read it. *)
TmpsFresh ==
  /\ \A t \in TmpNames : \A x \in tmps[t] : x.expires = 0 => ~x.read
  /\ tmpRead.expires > 0 => tmpRead.at < tmpRead.expires + TmpSweep - 1

(* Scripts, their requests and their temporary variables are as they should. *)
ScriptsOK == ScriptsOnDisk /\ ScriptsAnswer /\ TmpsFresh
=============================================================================
