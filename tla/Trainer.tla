-------------------------------- MODULE Trainer --------------------------------
(***************************************************************************)
(* Trainer2::run with the files it leaves behind: iterations, checkpoints  *)
(* (saveState), backups and their pruning (backup.cpp), the stop key of    *)
(* the runner, and what a crash or a disk error makes of them.  A state of *)
(* the search is its number: how many evolutions led to it.                *)
(***************************************************************************)
EXTENDS Integers, Sequences, FiniteSets

CONSTANTS
  BASE_DIR,               (* the directory of _saveFile: <<>> or <<"out">> *)
  MAX_BACKUPS,            (* maxBackups                                     *)
  ITERATIONS_PER_CYCLE,   (* iterationsPerCycle                             *)
  FAULTS,                 (* what may go wrong: "crash", "disk"             *)
  MAX_STATE,              (* bound of the model: evolutions                 *)
  MAX_CLOCK               (* bound of the model: backup files written       *)

ASSUME TrainerAssumption ==
  /\ BASE_DIR \in {<<>>, <<"out">>}
  /\ MAX_BACKUPS \in Nat
  /\ ITERATIONS_PER_CYCLE \in Nat \ {0}
  /\ FAULTS \subseteq {"crash", "disk"}
  /\ MAX_STATE \in Nat /\ MAX_CLOCK \in Nat

\* What a file holds, if not a state.
ABSENT == -1
TORN == -2        \* truncated, or half written
SHORT == -3       \* cut off by a full disk, and nobody noticed
Complete(file) == file >= 0

VARIABLES
  at,          (* where the worker thread is; "off": no process             *)
  stopAsked,   (* enter was pressed                                         *)
  it,          (* iterations of this cycle                                  *)
  state,       (* the state of the search in memory                         *)
  services,    (* the schedulers and the preview are up                     *)
  bin, champ,  (* _saveFile and the champion file                           *)
  backups,     (* the files in the backup directory                         *)
  clock,       (* backup files written so far: a time stamp                 *)
  kept         (* history: the newest state that was backed up              *)

memVars == <<state, services>>
fileVars == <<bin, champ, backups, clock, kept>>
vars == <<at, stopAsked, it, state, services, bin, champ, backups, clock, kept>>

Init ==
  /\ at = "off" /\ stopAsked = FALSE
  /\ it = 0 /\ state = 0 /\ services = FALSE
  /\ bin = ABSENT /\ champ = ABSENT
  /\ backups = {} /\ clock = 0 /\ kept = ABSENT

\* The constructor and the head of run().  A torn or short file is no zstd
\* frame: the constructor throws and the program ends as it began.
Start ==
  /\ at = "off"
  /\ bin = ABSENT \/ Complete(bin)
  /\ clock < MAX_CLOCK
  /\ state' = IF bin = ABSENT THEN 0 ELSE bin
  /\ services' = TRUE
  /\ stopAsked' = FALSE
  /\ it' = 0
  /\ at' = "run"
  /\ UNCHANGED fileVars

PressEnter ==
  /\ at # "off"
  /\ ~stopAsked
  /\ stopAsked' = TRUE
  /\ UNCHANGED <<at, it, memVars, fileVars>>

\* Mutant: a new cycle begins whether or not the token was stopped.
RunOn ==
  /\ at = "run"
  /\ clock + 2 <= MAX_CLOCK
  /\ it' = 0
  /\ at' = "cycle"
  /\ UNCHANGED <<stopAsked, memVars, fileVars>>

\* The loop of run(): another cycle, or the end.
Run ==
  /\ at = "run"
  /\ \/ ~stopAsked /\ clock + 2 <= MAX_CLOCK /\ it' = 0 /\ at' = "cycle"
     \/ stopAsked /\ at' = "stopping" /\ UNCHANGED it
  /\ UNCHANGED <<stopAsked, memVars, fileVars>>

StopServices ==
  /\ at = "stopping"
  /\ services' = FALSE
  /\ at' = "off"
  /\ UNCHANGED <<stopAsked, it, state, fileVars>>

\* Mutant: the state is saved with the last iteration of a cycle only.
IterateSaveLast ==
  /\ at = "cycle"
  /\ \/ /\ it < ITERATIONS_PER_CYCLE /\ ~stopAsked
        /\ state < MAX_STATE
        /\ state' \in {state, state + 1}
        /\ \/ it + 1 < ITERATIONS_PER_CYCLE /\ it' = it + 1 /\ UNCHANGED at
           \/ it + 1 = ITERATIONS_PER_CYCLE /\ at' = "save" /\ UNCHANGED it
     \/ /\ it = ITERATIONS_PER_CYCLE \/ stopAsked
        /\ at' = IF bin = ABSENT THEN "thrown" ELSE "backup"
        /\ UNCHANGED <<it, state>>
  /\ UNCHANGED <<stopAsked, services, fileVars>>

\* The loop of runCycle(): another iteration, in which the evolution may fail
\* and be logged; or the end of the cycle, where the save file must exist.
Iterate ==
  /\ at = "cycle"
  /\ \/ /\ it < ITERATIONS_PER_CYCLE /\ ~stopAsked
        /\ state < MAX_STATE
        /\ state' \in {state, state + 1}
        /\ at' = "save"
     \/ /\ it = ITERATIONS_PER_CYCLE \/ stopAsked
        /\ at' = IF bin = ABSENT THEN "thrown" ELSE "backup"
        /\ UNCHANGED state
  /\ UNCHANGED <<stopAsked, it, services, fileVars>>
-----------------------------------------------------------------------------
(* saveState(): each file is truncated, then written.  Only the opening is   *)
(* checked: a write that fails leaves what fitted, and saveState() goes on.  *)

OpenBin ==
  /\ at = "save"
  /\ bin' = TORN
  /\ at' = "write"
  /\ UNCHANGED <<stopAsked, it, memVars, champ, backups, clock, kept>>

WriteBin ==
  /\ at = "write"
  /\ \/ bin' = state
     \/ "disk" \in FAULTS /\ bin' = SHORT
  /\ at' = "saveChampion"
  /\ UNCHANGED <<stopAsked, it, memVars, champ, backups, clock, kept>>

OpenChampion ==
  /\ at = "saveChampion"
  /\ champ' = TORN
  /\ at' = "writeChampion"
  /\ UNCHANGED <<stopAsked, it, memVars, bin, backups, clock, kept>>

WriteChampion ==
  /\ at = "writeChampion"
  /\ \/ champ' = state
     \/ "disk" \in FAULTS /\ champ' = SHORT
  /\ it' = it + 1
  /\ at' = "cycle"
  /\ UNCHANGED <<stopAsked, memVars, bin, backups, clock, kept>>

OpenFails ==
  /\ "disk" \in FAULTS
  /\ at \in {"save", "saveChampion"}
  /\ at' = "thrown"
  /\ UNCHANGED <<stopAsked, it, memVars, fileVars>>
-----------------------------------------------------------------------------
(* backup(): a copy with a time stamp in its name, then the pruning.  A path *)
(* is a sequence of its parts; STAMP stands for a formatted time.           *)

STAMP == "timestamp"

BasePath(name) == BASE_DIR \o <<name>>
genBackupFileName(name) == BASE_DIR \o <<"backups", STAMP, "_", name>>

\* Whether pruning takes a path for a backup of name: what ends like the path
\* of the file and is, up to the separator, a time.
IsBackupOf(path, name) ==
  LET base == BasePath(name)
      rest == Len(path) - Len(base)
  IN  /\ SubSeq(path, rest + 1, Len(path)) = base
      /\ SubSeq(path, 1, rest - 1) = <<STAMP>>

\* Mutant: the files are found, and the oldest are the ones that stay.
PrunedNewest(files, name) ==
  LET own == {f \in files : f.path = genBackupFileName(name)}
  IN  files \ {f \in own : Cardinality({g \in own : g.time < f.time}) >= MAX_BACKUPS}

\* All but the MAX_BACKUPS latest are removed.
Pruned(files, name) ==
  LET own == {f \in files : IsBackupOf(f.path, name)}
  IN  files \ {f \in own : Cardinality({g \in own : g.time > f.time}) >= MAX_BACKUPS}

Copy(name, content) == [path |-> genBackupFileName(name), time |-> clock, content |-> content]

BeginBackup ==
  /\ at = "backup"
  /\ backups' = backups \cup {Copy("bin", TORN)}
  /\ at' = "copy"
  /\ UNCHANGED <<stopAsked, it, memVars, bin, champ, clock, kept>>

EndBackup ==
  /\ at = "copy"
  /\ backups' = Pruned((backups \ {Copy("bin", TORN)}) \cup {Copy("bin", bin)}, "bin")
  /\ clock' = clock + 1
  /\ kept' = IF Complete(bin) THEN bin ELSE kept
  /\ at' = "backupChampion"
  /\ UNCHANGED <<stopAsked, it, memVars, bin, champ>>

\* Copying a champion that was never written throws.
BeginChampionBackup ==
  /\ at = "backupChampion"
  /\ \/ champ = ABSENT /\ at' = "thrown" /\ UNCHANGED backups
     \/ /\ champ # ABSENT
        /\ backups' = backups \cup {Copy("champ", TORN)}
        /\ at' = "copyChampion"
  /\ UNCHANGED <<stopAsked, it, memVars, bin, champ, clock, kept>>

\* Mutant: the second backup is of the first file again.
EndChampionBackupOfBin ==
  /\ at = "copyChampion"
  /\ backups' = Pruned((backups \ {Copy("champ", TORN)}) \cup {Copy("bin", bin)}, "bin")
  /\ clock' = clock + 1
  /\ at' = "run"
  /\ UNCHANGED <<stopAsked, it, memVars, bin, champ, kept>>

EndChampionBackup ==
  /\ at = "copyChampion"
  /\ backups' = Pruned((backups \ {Copy("champ", TORN)}) \cup {Copy("champ", champ)}, "champ")
  /\ clock' = clock + 1
  /\ at' = "run"
  /\ UNCHANGED <<stopAsked, it, memVars, bin, champ, kept>>

\* filesystem::create_directories and copy throw: a copy begun stays torn.
CopyFails ==
  /\ "disk" \in FAULTS
  /\ at \in {"backup", "copy", "backupChampion", "copyChampion"}
  /\ at' = "thrown"
  /\ UNCHANGED <<stopAsked, it, memVars, fileVars>>
-----------------------------------------------------------------------------
\* The runner logs what run() throws and still waits for enter; only then is
\* the trainer destroyed.
Abandon ==
  /\ at = "thrown"
  /\ stopAsked
  /\ services' = FALSE
  /\ at' = "off"
  /\ UNCHANGED <<stopAsked, it, state, fileVars>>

Crash ==
  /\ "crash" \in FAULTS
  /\ at # "off"
  /\ at' = "off"
  /\ services' = FALSE
  /\ UNCHANGED <<stopAsked, it, state, fileVars>>

\* A user whose save file does not load puts the latest whole backup in its
\* place, or, where there is none, starts over.
Restore ==
  /\ at = "off"
  /\ bin \in {TORN, SHORT}
  /\ LET whole == {f \in backups : f.path = genBackupFileName("bin") /\ Complete(f.content)}
     IN  \/ whole = {} /\ bin' = ABSENT
         \/ \E f \in whole : (\A g \in whole : g.time <= f.time) /\ bin' = f.content
  /\ UNCHANGED <<at, stopAsked, it, memVars, champ, backups, clock, kept>>

Worker ==
  \/ Run \/ StopServices \/ Iterate
  \/ OpenBin \/ WriteBin \/ OpenChampion \/ WriteChampion
  \/ BeginBackup \/ EndBackup \/ BeginChampionBackup \/ EndChampionBackup
  \/ Abandon

Next == Worker \/ Start \/ PressEnter \/ OpenFails \/ CopyFails \/ Crash \/ Restore

\* The worker runs; nobody need press enter, start it, or see it fail.
Spec == Init /\ [][Next]_vars /\ WF_vars(Worker)
-----------------------------------------------------------------------------
\* A file that was written holds the state in memory, unless a full disk cut
\* the very write short: never another state, however whole it is.
Current(file) == file = state \/ ("disk" \in FAULTS /\ file = SHORT)

\* Between two iterations, and from the start of a resumed run, both files are
\* of the state in memory, after any number of crashes, torn files, restored
\* backups and errors in opening or copying before; where a full disk cut the
\* last write short, the file is short, and no older state stands in for it.
CheckpointIsCurrent ==
  at \in {"run", "cycle", "backup"} =>
    /\ IF bin = ABSENT THEN state = 0 /\ it = 0 ELSE Current(bin)
    /\ it > 0 => Current(champ)

\* Whenever the process dies, training resumes from a state no older than the
\* last that was backed up whole: the save file holds one, or it does not load
\* and a whole backup does, also after any number of writes cut short.
LossIsBounded ==
  Complete(kept) =>
    \/ bin >= kept
    \/ /\ bin \in {TORN, SHORT}
       /\ \E f \in backups : f.path = genBackupFileName("bin") /\ f.content >= kept

\* A cycle that ran an iteration ends with a pair of backups that belong
\* together: copies, taken in this cycle, of the search and of its own
\* champion, each as the last iteration wrote it (whole or cut short).
BackupsArePaired ==
  LET backedUp(name, file) ==
        /\ Current(file)
        /\ \E f \in backups : /\ f.path = genBackupFileName(name)
                              /\ f.time >= clock - 2
                              /\ f.content = file
  IN  at = "run" /\ it > 0 => backedUp("bin", bin) /\ backedUp("champ", champ)

\* Enter ends the run, wherever the worker is.
StopEnds == stopAsked ~> at = "off"

\* "run() ... stops cleanly on the token" (main.cpp).
StopsCleanly == stopAsked => at # "thrown"

\* "keeps the last backups" (README.md): no more than maxBackups of each file
\* once a backup is done.
KeepsLastBackups ==
  at = "run" =>
    \A name \in {"bin", "champ"} :
      Cardinality({f \in backups : f.path = genBackupFileName(name)}) <= MAX_BACKUPS
=============================================================================
