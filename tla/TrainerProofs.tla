---------------------------- MODULE TrainerProofs ----------------------------
(***************************************************************************)
(* Theorems about Trainer for every number of iterations and of backups,   *)
(* wherever crashes and disk errors fall.                                  *)
(***************************************************************************)
EXTENDS Trainer, TLAPS, SequenceTheorems

Names == {"bin", "champ"}
Parts == {"out", "backups", STAMP, "_", "bin", "champ"}   \* of a path
Paths == {genBackupFileName(name) : name \in Names}
Contents == {TORN, SHORT, ABSENT} \cup Nat

FlagsOK == stopAsked \in BOOLEAN /\ services \in BOOLEAN

TypeOK ==
  /\ at \in {"off", "run", "stopping", "cycle", "save", "write", "saveChampion",
             "writeChampion", "backup", "copy", "backupChampion", "copyChampion", "thrown"}
  /\ it \in Nat /\ state \in Nat
  /\ FlagsOK
  /\ bin \in Contents /\ champ \in Contents
  /\ backups \subseteq [path : Paths, time : Nat, content : Contents]
  /\ clock \in Nat
  /\ kept \in {ABSENT} \cup Nat

\* Where the two files are while they are written and copied.
FilesInv ==
  /\ CheckpointIsCurrent
  /\ at = "write" => bin = TORN
  /\ at \in {"saveChampion", "writeChampion", "backup", "copy",
             "backupChampion", "copyChampion"} => Current(bin)
  /\ at \in {"backup", "copy", "backupChampion", "copyChampion"} /\ it > 0 =>
       Current(champ)

Whole == {f \in backups : f.path = genBackupFileName("bin") /\ Complete(f.content)}

\* The latest whole backup of the search is what was backed up last: restoring
\* it never goes further back, and memory and save file are never behind it.
KeptInv ==
  /\ \A f \in Whole : f.time < clock
  /\ Complete(kept) =>
       /\ \E f \in Whole :
            /\ f.content = kept
            /\ \A g \in Whole : g.time <= f.time /\ (g.time = f.time => g.content = kept)
       /\ bin >= kept \/ bin \in {TORN, SHORT}
       /\ at # "off" => state >= kept

\* The backup of this cycle is made of what the cycle ended with.
PairInv ==
  /\ BackupsArePaired
  /\ at \in {"backupChampion", "copyChampion"} =>
       \E f \in backups : /\ f.path = genBackupFileName("bin")
                         /\ f.time >= clock - 1
                         /\ f.content = bin

IInv == TypeOK /\ FilesInv /\ KeptInv /\ PairInv
-----------------------------------------------------------------------------
\* The name of a backup: the file's directory, three more parts, the file.
LEMMA BackupName ==
  ASSUME NEW n \in Names
  PROVE  /\ Len(BASE_DIR) \in Nat
         /\ genBackupFileName(n) \in Seq(Parts)
         /\ Len(genBackupFileName(n)) = Len(BASE_DIR) + 4
         /\ genBackupFileName(n)[Len(BASE_DIR) + 4] = n
         /\ Len(BasePath(n)) = Len(BASE_DIR) + 1
<1> DEFINE tail == <<"backups", STAMP, "_", n>>
<1>1. BASE_DIR \in Seq(Parts)
  <2>1. <<>> \in Seq(Parts) /\ <<"out">> \in Seq(Parts)
    BY DEF Parts
  <2>2. QED
    BY <2>1, TrainerAssumption
<1>2. tail \in Seq(Parts) /\ Len(tail) = 4 /\ tail[4] = n
  <2>1. n \in Parts /\ "backups" \in Parts /\ STAMP \in Parts /\ "_" \in Parts
    BY DEF Names, Parts
  <2>2. tail \in Seq(Parts)
    <3>1. \A S : \A a, b, c, d \in S : <<a, b, c, d>> \in Seq(S)
      OBVIOUS
    <3> HIDE DEF Parts
    <3>2. QED
      BY <2>1, <3>1
  <2>3. Len(tail) = 4 /\ tail[4] = n
    OBVIOUS
  <2>4. QED
    BY <2>2, <2>3
<1>3. <<n>> \in Seq(Parts) /\ Len(<<n>>) = 1
  <2>1. n \in Parts
    BY DEF Names, Parts
  <2>2. QED
    BY <2>1
<1>4. genBackupFileName(n) = BASE_DIR \o tail /\ BasePath(n) = BASE_DIR \o <<n>>
  BY DEF genBackupFileName, BasePath
<1> HIDE DEF tail
<1>5. Len(BASE_DIR) \in Nat
  BY <1>1
<1>6. /\ BASE_DIR \o tail \in Seq(Parts)
      /\ Len(BASE_DIR \o tail) = Len(BASE_DIR) + 4
      /\ \A i \in 1..(Len(BASE_DIR) + 4) :
           (BASE_DIR \o tail)[i] = IF i <= Len(BASE_DIR) THEN BASE_DIR[i] ELSE tail[i - Len(BASE_DIR)]
  <2>1. Len(BASE_DIR \o tail) = Len(BASE_DIR) + Len(tail)
    BY <1>1, <1>2, ConcatProperties
  <2>2. BASE_DIR \o tail \in Seq(Parts)
    BY <1>1, <1>2, ConcatProperties
  <2>3. \A i \in 1..(Len(BASE_DIR) + Len(tail)) :
          (BASE_DIR \o tail)[i] = IF i <= Len(BASE_DIR) THEN BASE_DIR[i] ELSE tail[i - Len(BASE_DIR)]
    BY <1>1, <1>2, ConcatProperties
  <2>4. QED
    BY <1>2, <2>1, <2>2, <2>3
<1>7. (BASE_DIR \o tail)[Len(BASE_DIR) + 4] = tail[4]
  <2>1. Len(BASE_DIR) + 4 \in 1..(Len(BASE_DIR) + 4)
    BY <1>5
  <2>2. ~(Len(BASE_DIR) + 4 <= Len(BASE_DIR)) /\ Len(BASE_DIR) + 4 - Len(BASE_DIR) = 4
    BY <1>5
  <2>3. QED
    BY <1>6, <2>1, <2>2
<1>8. Len(BASE_DIR \o <<n>>) = Len(BASE_DIR) + 1
  BY <1>1, <1>3, ConcatProperties
<1>9. QED
  BY <1>2, <1>4, <1>5, <1>6, <1>7, <1>8

\* The two kinds of backup never share a name.
LEMMA BackupNamesDiffer == genBackupFileName("bin") # genBackupFileName("champ")
<1>1. "bin" \in Names /\ "champ" \in Names /\ "bin" # "champ"
  BY DEF Names
<1>2. QED
  BY <1>1, BackupName

\* The match of the pruning asks that what precedes the file's own path be a
\* time stamp and no more.  Before the name of a backup there is a directory,
\* so no backup is recognised, whatever directory the save file is in.
LEMMA NoBackupRecognised ==
  ASSUME NEW n \in Names, NEW m \in Names
  PROVE  ~IsBackupOf(genBackupFileName(n), m)
<1> DEFINE path == genBackupFileName(n)
<1>1. /\ Len(BASE_DIR) \in Nat
      /\ path \in Seq(Parts) /\ Len(path) = Len(BASE_DIR) + 4
      /\ Len(BasePath(m)) = Len(BASE_DIR) + 1
  BY BackupName
<1>2. Len(path) - Len(BasePath(m)) - 1 = 2
  BY <1>1
<1>3. Len(SubSeq(path, 1, 2)) = 2
  <2>1. \A i \in 1..2 : path[i] \in Parts
    <3>1. \A i \in 1..2 : i \in 1..Len(path)
      BY <1>1
    <3> HIDE DEF path
    <3>2. QED
      BY <1>1, <3>1, ElementOfSeq
  <2> HIDE DEF path
  <2>2. QED
    BY <2>1, SubSeqProperties
<1>4. SubSeq(path, 1, 2) # <<STAMP>>
  <2>1. Len(<<STAMP>>) = 1
    OBVIOUS
  <2>2. QED
    BY <1>3, <2>1
<1>5. QED
  BY <1>2, <1>4 DEF IsBackupOf

\* Pruning removes no file, however few backups are to be kept.
THEOREM NothingIsPruned ==
  ASSUME NEW files, \A f \in files : f.path \in Paths, NEW name \in Names
  PROVE  Pruned(files, name) = files
<1>1. {f \in files : IsBackupOf(f.path, name)} = {}
  BY NoBackupRecognised DEF Paths
<1>2. QED
  BY <1>1 DEF Pruned

-----------------------------------------------------------------------------
\* Facts about the numbers that stand for contents.
LEMMA ContentFacts ==
  /\ ABSENT = -1 /\ TORN = -2 /\ SHORT = -3
  /\ \A c \in Contents : Complete(c) <=> c \in Nat
  /\ ~Complete(ABSENT) /\ ~Complete(TORN) /\ ~Complete(SHORT)
BY DEF ABSENT, TORN, SHORT, Complete, Contents

\* What the invariant says of the first state.
LEMMA InitIInv == Init => IInv
<1> SUFFICES ASSUME Init PROVE IInv
  OBVIOUS
<1> USE DEF ABSENT, TORN, SHORT, Complete, Init
<1>1. TypeOK
  BY DEF TypeOK, FlagsOK, Contents
<1>2. FilesInv
  BY DEF FilesInv, CheckpointIsCurrent
<1>3. Whole = {}
  BY DEF Whole
<1>4. KeptInv /\ PairInv
  BY <1>3 DEF KeptInv, PairInv, BackupsArePaired
<1>5. QED
  BY <1>1, <1>2, <1>4 DEF IInv

\* The steps that leave the backups alone keep the invariant if they keep the
\* parts of it that speak of them.
LEMMA BackupsUntouched ==
  ASSUME IInv, UNCHANGED <<backups, clock, kept>>,
         Complete(kept) => /\ bin' >= kept \/ bin' \in {TORN, SHORT}
                           /\ (at' # "off" => state' >= kept),
         at' \notin {"backupChampion", "copyChampion"} \/ (at' = at /\ bin' = bin),
         at' # "run" \/ it' = 0 \/ UNCHANGED <<at, it, state, bin, champ>>
  PROVE  KeptInv' /\ PairInv'
<1>1. Whole' = Whole
  BY DEF Whole
<1>2. KeptInv'
  <2>1. KeptInv
    BY DEF IInv
  <2>2. QED
    BY <1>1, <2>1 DEF KeptInv, Complete
<1>3. BackupsArePaired'
  <2>1. BackupsArePaired
    BY DEF IInv, PairInv
  <2>2. CASE at' # "run" \/ it' = 0
    BY <2>2 DEF BackupsArePaired
  <2>3. CASE UNCHANGED <<at, it, state, bin, champ>>
    BY <2>1, <2>3 DEF BackupsArePaired, Current
  <2>4. QED
    BY <2>2, <2>3
<1>4. PairInv'
  BY <1>1, <1>3 DEF IInv, PairInv
<1>5. QED
  BY <1>2, <1>4

\* What the invariant says of the newest state that was backed up.
LEMMA KeptFacts ==
  ASSUME IInv
  PROVE  /\ Complete(kept) <=> kept \in Nat
         /\ kept \in Nat => /\ bin \in Nat => bin >= kept
                            /\ bin \in Nat \/ bin \in {TORN, SHORT}
                            /\ at # "off" => state >= kept
<1>1. kept \in Contents /\ bin \in Contents
  BY DEF IInv, TypeOK, Contents
<1>2. Complete(kept) <=> kept \in Nat
  BY <1>1, ContentFacts
<1>3. Complete(kept) => /\ bin >= kept \/ bin \in {TORN, SHORT}
                        /\ at # "off" => state >= kept
  BY DEF IInv, KeptInv
<1>4. ASSUME kept \in Nat
      PROVE  /\ bin \in Nat => bin >= kept
             /\ bin \in Nat \/ bin \in {TORN, SHORT}
             /\ at # "off" => state >= kept
  <2>1. bin >= kept \/ bin \in {TORN, SHORT}
    BY <1>2, <1>3, <1>4
  <2>2. at # "off" => state >= kept
    BY <1>2, <1>3, <1>4
  <2>3. bin \in Nat \/ bin = -1 \/ bin = -2 \/ bin = -3
    BY <1>1 DEF Contents, ABSENT, TORN, SHORT
  <2>4. QED
    BY <1>4, <2>1, <2>2, <2>3 DEF TORN, SHORT
<1>5. QED
  BY <1>2, <1>4

\* The steps of run(), of the services and of the outside.
LEMMA RunSteps ==
  ASSUME IInv, Start \/ PressEnter \/ Run \/ StopServices \/ OpenFails \/ CopyFails \/ Abandon \/ Crash
  PROVE  IInv'
<1> USE DEF ABSENT, TORN, SHORT
<1>1. UNCHANGED fileVars
  BY DEF Start, PressEnter, Run, StopServices, OpenFails, CopyFails, Abandon, Crash
<1>2. TypeOK'
  <2>1. FlagsOK'
    BY DEF IInv, TypeOK, FlagsOK, memVars, Start, PressEnter, Run, StopServices, OpenFails, CopyFails, Abandon, Crash
  <2>2. (state' = state \/ state' \in Nat) /\ (it' = it \/ it' = 0)
    BY DEF IInv, TypeOK, Contents, Complete, memVars,
       Start, PressEnter, Run, StopServices, OpenFails, CopyFails, Abandon, Crash
  <2>3. at' = at \/ at' \in {"off", "run", "stopping", "cycle", "thrown"}
    BY DEF Start, PressEnter, Run, StopServices, OpenFails, CopyFails, Abandon, Crash
  <2>4. /\ at' \in {"off", "run", "stopping", "cycle", "save", "write", "saveChampion",
             "writeChampion", "backup", "copy", "backupChampion", "copyChampion", "thrown"}
    BY <2>3 DEF IInv, TypeOK
  <2>5. it' \in Nat /\ state' \in Nat
    BY <2>2 DEF IInv, TypeOK
  <2>6. bin' \in Contents /\ champ' \in Contents /\ clock' \in Nat /\ kept' \in {ABSENT} \cup Nat
    BY <1>1 DEF IInv, TypeOK, fileVars
  <2>7. backups' \subseteq [path : Paths, time : Nat, content : Contents]
    BY <1>1 DEF IInv, TypeOK, fileVars
  <2>. QED
    BY <2>1, <2>4, <2>5, <2>6, <2>7 DEF TypeOK
<1>3. FilesInv'
  <2> USE <1>1 DEF IInv, TypeOK, Contents, FilesInv, CheckpointIsCurrent, Current, fileVars, memVars
  <2>1. CASE Start
    BY <2>1 DEF Start
  <2>2. CASE PressEnter
    BY <2>2 DEF PressEnter
  <2>3. CASE Run
    BY <2>3 DEF Run
  <2>4. CASE StopServices \/ OpenFails \/ CopyFails \/ Abandon \/ Crash
    BY <2>4 DEF StopServices, OpenFails, CopyFails, Abandon, Crash
  <2>5. QED
    BY <2>1, <2>2, <2>3, <2>4
<1>4. Complete(kept) => /\ bin' >= kept \/ bin' \in {TORN, SHORT}
                        /\ (at' # "off" => state' >= kept)
  <2>1. kept' = kept /\ bin' = bin
    BY <1>1 DEF fileVars
  <2>2. at' # "off" => \/ state' = state /\ at # "off"
                       \/ /\ bin = ABSENT \/ Complete(bin)
                          /\ state' = IF bin = ABSENT THEN 0 ELSE bin
    BY DEF memVars, Start, PressEnter, Run, StopServices, OpenFails, CopyFails, Abandon, Crash
  <2>3. ~Complete(TORN) /\ ~Complete(SHORT)
    BY ContentFacts
  <2>4. QED
    BY <2>1, <2>2, <2>3, KeptFacts
<1>5. /\ at' \notin {"backupChampion", "copyChampion"} \/ (at' = at /\ bin' = bin)
      /\ at' # "run" \/ it' = 0 \/ UNCHANGED <<at, it, state, bin, champ>>
  BY <1>1 DEF fileVars, memVars,
     Start, PressEnter, Run, StopServices, OpenFails, CopyFails, Abandon, Crash
<1>6. QED
  BY <1>1, <1>2, <1>3, <1>4, <1>5, BackupsUntouched DEF IInv, fileVars

\* The steps of an iteration and of saveState().
LEMMA SaveSteps ==
  ASSUME IInv, Iterate \/ OpenBin \/ WriteBin \/ OpenChampion \/ WriteChampion
  PROVE  IInv'
<1> USE DEF ABSENT, TORN, SHORT
<1>1. UNCHANGED <<backups, clock, kept>>
  BY DEF Iterate, OpenBin, WriteBin, OpenChampion, WriteChampion, fileVars
<1>2. TypeOK'
  <2>1. FlagsOK'
    BY DEF IInv, TypeOK, FlagsOK, memVars, Iterate, OpenBin, WriteBin, OpenChampion, WriteChampion
  <2>2. state' \in {state, state + 1} /\ it' \in {it, it + 1}
    BY DEF memVars, Iterate, OpenBin, WriteBin, OpenChampion, WriteChampion
  <2>3. bin' \in {bin, TORN, SHORT, state} /\ champ' \in {champ, TORN, SHORT, state}
    BY DEF fileVars, Iterate, OpenBin, WriteBin, OpenChampion, WriteChampion
  <2>4. at' \in {"cycle", "save", "write", "saveChampion", "writeChampion", "backup", "thrown"}
    BY DEF Iterate, OpenBin, WriteBin, OpenChampion, WriteChampion
  <2>5. QED
    BY <1>1, <2>1, <2>2, <2>3, <2>4 DEF IInv, TypeOK, Contents
<1>3. FilesInv'
  <2>1. CASE Iterate
    BY <2>1 DEF IInv, TypeOK, Contents, FilesInv, CheckpointIsCurrent, Current, fileVars, memVars, Iterate
  <2>2. CASE OpenBin \/ WriteBin
    BY <2>2 DEF IInv, TypeOK, Contents, FilesInv, CheckpointIsCurrent, Current, fileVars, memVars,
       OpenBin, WriteBin
  <2>3. CASE OpenChampion
    BY <2>3 DEF IInv, FilesInv, CheckpointIsCurrent, Current, memVars, OpenChampion
  <2>4. CASE WriteChampion
    BY <2>4 DEF IInv, TypeOK, FilesInv, CheckpointIsCurrent, Current, memVars, WriteChampion
  <2>5. QED
    BY <2>1, <2>2, <2>3, <2>4
<1>4. Complete(kept) => /\ bin' >= kept \/ bin' \in {TORN, SHORT}
                        /\ (at' # "off" => state' >= kept)
  <2>1. at # "off" /\ (bin' = bin \/ bin' \in {TORN, SHORT} \/ (bin' = state /\ state' = state))
    BY DEF fileVars, memVars, Iterate, OpenBin, WriteBin, OpenChampion, WriteChampion
  <2>2. state \in Nat /\ (state' = state \/ state' = state + 1)
    BY DEF memVars, Iterate, OpenBin, WriteBin, OpenChampion, WriteChampion, IInv, TypeOK
  <2>3. QED
    BY <1>1, <2>1, <2>2, KeptFacts
<1>5. /\ at' \notin {"backupChampion", "copyChampion"} \/ (at' = at /\ bin' = bin)
      /\ at' # "run" \/ it' = 0 \/ UNCHANGED <<at, it, state, bin, champ>>
  BY DEF Iterate, OpenBin, WriteBin, OpenChampion, WriteChampion
<1>6. QED
  BY <1>1, <1>2, <1>3, <1>4, <1>5, BackupsUntouched DEF IInv

\* A restored save file is the state that was backed up last.
LEMMA RestoreStep ==
  ASSUME IInv, Restore
  PROVE  IInv'
<1> USE DEF ABSENT, TORN, SHORT, Complete
<1>1. at = "off" /\ UNCHANGED <<at, stopAsked, it, memVars, champ, backups, clock, kept>>
  BY DEF Restore
<1>2. \/ Whole = {} /\ bin' = ABSENT
      \/ \E f \in Whole : (\A g \in Whole : g.time <= f.time) /\ bin' = f.content
  BY DEF Restore, Whole
<1>3. bin' \in Contents
  BY <1>2 DEF IInv, TypeOK, Whole, Contents
<1>4. TypeOK'
  BY <1>1, <1>3 DEF IInv, TypeOK, FlagsOK, memVars
<1>5. FilesInv'
  BY <1>1 DEF IInv, FilesInv, CheckpointIsCurrent, Current, memVars
<1>6. ASSUME Complete(kept) PROVE bin' = kept
  <2>1. PICK f \in Whole :
           /\ f.content = kept
           /\ \A g \in Whole : g.time <= f.time /\ (g.time = f.time => g.content = kept)
    BY <1>6 DEF IInv, KeptInv
  <2>2. PICK h \in Whole : (\A g \in Whole : g.time <= h.time) /\ bin' = h.content
    BY <1>2, <2>1
  <2>3. f.time \in Nat /\ h.time \in Nat
    BY DEF IInv, TypeOK, Whole
  <2>4. h.time = f.time
    BY <2>1, <2>2, <2>3
  <2>5. QED
    BY <2>1, <2>2, <2>4
<1>7. QED
  <2>1. Complete(kept) => bin' >= kept
    BY <1>6, KeptFacts
  <2>2. QED
    BY <1>1, <1>4, <1>5, <2>1, BackupsUntouched DEF IInv, memVars
-----------------------------------------------------------------------------
(* The steps of backup(): pruning is the identity, by NothingIsPruned. *)

\* A step that changes only the backup directory and where the worker is.
LEMMA MemoryUntouched ==
  ASSUME IInv, UNCHANGED <<stopAsked, it, memVars, bin, champ>>,
         at \in {"backup", "copy", "backupChampion", "copyChampion"},
         at' \in {"copy", "backupChampion", "copyChampion", "run", "thrown"},
         backups' \subseteq [path : Paths, time : Nat, content : Contents],
         clock' \in Nat, kept' \in {ABSENT} \cup Nat
  PROVE  TypeOK' /\ FilesInv' /\ Current(bin) /\ state \in Nat
<1>1. TypeOK'
  BY DEF IInv, TypeOK, FlagsOK, memVars
<1>2. Current(bin) /\ state \in Nat
  BY DEF IInv, TypeOK, FilesInv
<1>3. FilesInv'
  BY <1>2 DEF IInv, TypeOK, FilesInv, CheckpointIsCurrent, Current, memVars, ABSENT, SHORT
<1>4. QED
  BY <1>1, <1>2, <1>3

\* A copy is a backup, and whole when its content is.
LEMMA CopyFacts ==
  ASSUME IInv, NEW n \in Names, NEW c \in Contents
  PROVE  /\ Copy(n, c) \in [path : Paths, time : Nat, content : Contents]
         /\ Copy(n, c).path = genBackupFileName(n)
         /\ Copy(n, c).time = clock
         /\ Copy(n, c).content = c
BY DEF IInv, TypeOK, Copy, Paths

\* A copy begins: a torn file is no whole backup.
LEMMA BeginCopySteps ==
  ASSUME IInv, BeginBackup \/ BeginChampionBackup
  PROVE  IInv'
<1>1. PICK n \in Names : backups' = backups \cup {Copy(n, TORN)} \/ backups' = backups
  BY DEF BeginBackup, BeginChampionBackup, Names
<1>2. TORN \in Contents /\ ~Complete(TORN)
  BY DEF Contents, Complete, TORN
<1>3. /\ UNCHANGED <<stopAsked, it, memVars, bin, champ, clock, kept>>
      /\ at \in {"backup", "backupChampion"}
      /\ at' = "copy" \/ (at = "backupChampion" /\ at' \in {"thrown", "copyChampion"})
  BY DEF BeginBackup, BeginChampionBackup
<1>4. backups' \subseteq [path : Paths, time : Nat, content : Contents]
  BY <1>1, <1>2, CopyFacts DEF IInv, TypeOK
<1>5. TypeOK' /\ FilesInv'
  <2>1. clock' \in Nat /\ kept' \in {ABSENT} \cup Nat
    BY <1>3 DEF IInv, TypeOK
  <2>2. QED
    BY <1>3, <1>4, <2>1, MemoryUntouched
<1>6. Whole' = Whole
  <2>1. Copy(n, TORN).content = TORN
    BY <1>2, CopyFacts
  <2>2. QED
    BY <1>1, <1>2, <2>1 DEF Whole
<1>7. KeptInv'
  BY <1>3, <1>6 DEF IInv, KeptInv, memVars
<1>8. PairInv'
  <2>1. BackupsArePaired'
    BY <1>3 DEF BackupsArePaired
  <2>2. backups \subseteq backups' /\ bin' = bin /\ clock' = clock
    BY <1>1, <1>3
  <2>3. QED
    BY <1>3, <2>1, <2>2 DEF IInv, PairInv
<1>9. QED
  BY <1>5, <1>7, <1>8 DEF IInv

\* Where the save file is whole, its copy is the latest whole backup, and what
\* it holds the newest state that was backed up; where a full disk cut it
\* short, the copy is no whole backup, and the latest one stays what it was.
LEMMA EndBackupStep ==
  ASSUME IInv, EndBackup
  PROVE  IInv'
<1> DEFINE torn == Copy("bin", TORN)
           copy == Copy("bin", bin)
           files == (backups \ {torn}) \cup {copy}
<1>1. /\ at = "copy" /\ at' = "backupChampion"
      /\ backups' = Pruned(files, "bin")
      /\ clock' = clock + 1
      /\ kept' = IF Complete(bin) THEN bin ELSE kept
      /\ UNCHANGED <<stopAsked, it, memVars, bin, champ>>
  BY DEF EndBackup
<1>2. /\ Current(bin) /\ state \in Nat /\ clock \in Nat /\ bin \in Contents
      /\ Complete(bin) => bin = state
      /\ ~Complete(bin) => bin = SHORT
  <2>1. Current(bin) /\ state \in Nat /\ clock \in Nat /\ bin \in Contents
    BY <1>1 DEF IInv, TypeOK, FilesInv
  <2>2. Complete(state) /\ ~Complete(SHORT)
    BY <2>1, ContentFacts DEF Contents
  <2>3. QED
    BY <2>1, <2>2 DEF Current
<1>3. /\ copy \in [path : Paths, time : Nat, content : Contents]
      /\ copy.path = genBackupFileName("bin") /\ copy.time = clock /\ copy.content = bin
  BY <1>2, CopyFacts DEF Names
<1>4. torn.content = TORN /\ ~Complete(TORN)
  <2>1. TORN \in Contents /\ ~Complete(TORN)
    BY DEF Contents, Complete, TORN
  <2>2. QED
    BY <2>1, CopyFacts DEF Names
<1> HIDE DEF torn, copy
<1>5. files \subseteq [path : Paths, time : Nat, content : Contents]
  BY <1>3 DEF IInv, TypeOK
<1>6. backups' = files
  <2>1. \A f \in files : f.path \in Paths
    BY <1>5
  <2> HIDE DEF files
  <2>2. QED
    BY <1>1, <2>1, NothingIsPruned DEF Names
<1>7. /\ Complete(bin) => Whole' = Whole \cup {copy}
      /\ ~Complete(bin) => Whole' = Whole
  BY <1>3, <1>4, <1>6 DEF Whole
<1>8. \A f \in Whole : f.time < clock /\ f.time \in Nat
  BY DEF IInv, TypeOK, KeptInv, Whole
<1>9. TypeOK' /\ FilesInv'
  <2>1. clock' \in Nat /\ kept' \in {ABSENT} \cup Nat
    BY <1>1, <1>2 DEF IInv, TypeOK
  <2> HIDE DEF files
  <2>2. QED
    BY <1>1, <1>5, <1>6, <2>1, MemoryUntouched
<1>10. KeptInv'
  <2>1. \A f \in Whole' : f.time < clock'
    BY <1>1, <1>2, <1>3, <1>7, <1>8
  <2>2. CASE Complete(bin)
    <3>1. copy \in Whole' /\ copy.content = kept'
          /\ \A g \in Whole' : g.time <= copy.time /\ (g.time = copy.time => g.content = kept')
      BY <1>1, <1>2, <1>3, <1>7, <1>8, <2>2
    <3>2. bin' >= kept' /\ state' >= kept'
      BY <1>1, <1>2, <2>2 DEF memVars
    <3>3. QED
      BY <2>1, <3>1, <3>2 DEF KeptInv
  <2>3. CASE ~Complete(bin)
    <3>1. /\ kept' = kept /\ Whole' = Whole /\ bin' = bin /\ state' = state
          /\ at # "off"
      BY <1>1, <1>7, <2>3 DEF memVars
    <3>2. QED
      BY <2>1, <3>1 DEF IInv, KeptInv
  <2>4. QED
    BY <2>2, <2>3
<1>11. PairInv'
  <2>1. BackupsArePaired'
    BY <1>1 DEF BackupsArePaired
  <2>2. copy \in backups' /\ copy.time >= clock' - 1 /\ copy.content = bin'
    BY <1>1, <1>2, <1>3, <1>6
  <2>3. QED
    BY <1>3, <2>1, <2>2 DEF PairInv
<1>12. QED
  BY <1>9, <1>10, <1>11 DEF IInv

\* The copy of the champion file has another name, so the whole backups of the
\* search stay, and with the one of this cycle it makes a pair.
LEMMA EndChampionBackupStep ==
  ASSUME IInv, EndChampionBackup
  PROVE  IInv'
<1> DEFINE torn == Copy("champ", TORN)
           copy == Copy("champ", champ)
           files == (backups \ {torn}) \cup {copy}
<1>1. /\ at = "copyChampion" /\ at' = "run"
      /\ backups' = Pruned(files, "champ")
      /\ clock' = clock + 1 /\ kept' = kept
      /\ UNCHANGED <<stopAsked, it, memVars, bin, champ>>
  BY DEF EndChampionBackup
<1>2. clock \in Nat /\ champ \in Contents /\ state \in Nat
  BY DEF IInv, TypeOK
<1>3. /\ copy \in [path : Paths, time : Nat, content : Contents]
      /\ copy.path = genBackupFileName("champ") /\ copy.time = clock /\ copy.content = champ
      /\ torn.path = genBackupFileName("champ")
  <2>1. TORN \in Contents
    BY DEF Contents
  <2>2. QED
    BY <1>2, <2>1, CopyFacts DEF Names
<1> HIDE DEF torn, copy
<1>4. files \subseteq [path : Paths, time : Nat, content : Contents]
  BY <1>3 DEF IInv, TypeOK
<1>5. backups' = files
  <2>1. \A f \in files : f.path \in Paths
    BY <1>4
  <2> HIDE DEF files
  <2>2. QED
    BY <1>1, <2>1, NothingIsPruned DEF Names
<1>6. Whole' = Whole
  BY <1>3, <1>5, BackupNamesDiffer DEF Whole
<1>7. \A f \in Whole : f.time < clock /\ f.time \in Nat
  BY DEF IInv, TypeOK, KeptInv, Whole
<1>8. TypeOK' /\ FilesInv'
  <2>1. clock' \in Nat /\ kept' \in {ABSENT} \cup Nat
    BY <1>1, <1>2 DEF IInv, TypeOK
  <2> HIDE DEF files
  <2>2. QED
    BY <1>1, <1>4, <1>5, <2>1, MemoryUntouched
<1>9. KeptInv'
  <2>1. \A f \in Whole' : f.time < clock'
    BY <1>1, <1>2, <1>6, <1>7
  <2>2. Complete(kept) =>
          /\ \E f \in Whole :
               /\ f.content = kept
               /\ \A g \in Whole : g.time <= f.time /\ (g.time = f.time => g.content = kept)
          /\ bin >= kept \/ bin \in {TORN, SHORT}
          /\ state >= kept
    BY <1>1 DEF IInv, KeptInv
  <2>3. QED
    BY <1>1, <1>6, <2>1, <2>2 DEF KeptInv, memVars
<1>10. BackupsArePaired'
  <2>1. PICK f \in backups : /\ f.path = genBackupFileName("bin")
                             /\ f.time >= clock - 1
                             /\ f.content = bin
    BY <1>1 DEF IInv, PairInv
  <2>2. f \in backups' /\ f.time \in Nat /\ copy \in backups'
    BY <1>3, <1>5, <2>1, BackupNamesDiffer DEF IInv, TypeOK
  <2>3. f.time >= clock' - 2 /\ copy.time >= clock' - 2
    <3>1. f.time >= clock - 1 /\ copy.time = clock /\ clock' = clock + 1
      BY <1>1, <1>3, <2>1
    <3>2. QED
      BY ONLY <1>2, <2>2, <3>1
  <2>4. Current(bin)' /\ (it' > 0 => Current(champ)')
    BY <1>1 DEF IInv, FilesInv, Current, memVars
  <2>5. QED
    BY <1>1, <1>3, <2>1, <2>2, <2>3, <2>4 DEF BackupsArePaired
<1>11. PairInv'
  BY <1>1, <1>10 DEF PairInv
<1>12. QED
  BY <1>8, <1>9, <1>11 DEF IInv
-----------------------------------------------------------------------------
\* Every step keeps the invariant.
LEMMA NextIInv == IInv /\ [Next]_vars => IInv'
<1> SUFFICES ASSUME IInv, [Next]_vars PROVE IInv'
  OBVIOUS
<1>1. CASE UNCHANGED vars
  <2>1. TypeOK' /\ FilesInv'
    BY <1>1 DEF IInv, TypeOK, FlagsOK, FilesInv, CheckpointIsCurrent, Current, vars
  <2>2. UNCHANGED <<backups, clock, kept>>
    BY <1>1 DEF vars
  <2>3. Complete(kept) => /\ bin' >= kept \/ bin' \in {TORN, SHORT}
                          /\ (at' # "off" => state' >= kept)
    BY <1>1 DEF vars, IInv, KeptInv
  <2>4. UNCHANGED <<at, it, state, bin, champ>>
    BY <1>1 DEF vars
  <2>5. QED
    BY <2>1, <2>2, <2>3, <2>4, BackupsUntouched DEF IInv
<1>2. CASE Start \/ PressEnter \/ Run \/ StopServices \/ OpenFails \/ CopyFails \/ Abandon \/ Crash
  BY <1>2, RunSteps
<1>3. CASE Iterate \/ OpenBin \/ WriteBin \/ OpenChampion \/ WriteChampion
  BY <1>3, SaveSteps
<1>4. CASE Restore
  BY <1>4, RestoreStep
<1>5. CASE BeginBackup \/ BeginChampionBackup
  BY <1>5, BeginCopySteps
<1>6. CASE EndBackup
  BY <1>6, EndBackupStep
<1>7. CASE EndChampionBackup
  BY <1>7, EndChampionBackupStep
<1>8. QED
  BY <1>1, <1>2, <1>3, <1>4, <1>5, <1>6, <1>7 DEF Next, Worker

\* What follows from the invariant: the latest whole backup stands in for a
\* save file that does not load.
LEMMA IInvBoundsLoss == IInv => LossIsBounded
<1> SUFFICES ASSUME IInv, Complete(kept), ~(bin >= kept)
             PROVE  bin \in {TORN, SHORT} /\ \E f \in backups : f.path = genBackupFileName("bin") /\ f.content >= kept
  BY DEF LossIsBounded
<1>1. bin \in {TORN, SHORT}
  BY DEF IInv, KeptInv
<1>2. PICK f \in Whole : f.content = kept
  BY DEF IInv, KeptInv
<1>3. kept >= kept
  BY DEF IInv, TypeOK, ABSENT
<1>4. QED
  BY <1>1, <1>2, <1>3 DEF Whole

\* The invariant in every run of the trainer.
LEMMA AlwaysIInv == Spec => []IInv
BY InitIInv, NextIInv, PTL DEF Spec

\* Between two iterations, and from the start of a resumed run, save file and
\* champion file are of the state in memory, however many crashes, torn files
\* and disk errors came before: they hold it, or, only where a full disk cut
\* the last write short, they are short and hold no other state.
THEOREM CheckpointAlwaysCurrent == Spec => []CheckpointIsCurrent
<1>1. IInv => CheckpointIsCurrent
  BY DEF IInv, FilesInv
<1>2. QED
  BY <1>1, AlwaysIInv, PTL

\* Whenever the process dies, the newest state that was backed up whole is not
\* lost: the save file is no older, or it does not load and a whole backup is
\* no older.
THEOREM LossAlwaysBounded == Spec => []LossIsBounded
BY IInvBoundsLoss, AlwaysIInv, PTL

\* A cycle that ran an iteration ends with copies, taken in that cycle, of the
\* search and of its own champion, each as the last iteration left it on disk:
\* its own state, or what a full disk let through of it.
THEOREM BackupsAlwaysPaired == Spec => []BackupsArePaired
<1>1. IInv => BackupsArePaired
  BY DEF IInv, PairInv
<1>2. QED
  BY <1>1, AlwaysIInv, PTL
=============================================================================
