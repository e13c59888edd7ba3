------------------------------ MODULE LevelDb -------------------------------
(***************************************************************************)
(* The database under KeyValueDatabase: a run of the program opens a       *)
(* directory that a node left behind, reads a range of keys and closes it, *)
(* while the background thread may compact.  The program never writes a    *)
(* key, but opening rewrites the logs as tables and makes a new manifest,  *)
(* and a compaction replaces tables: the data must survive that, a crash   *)
(* or a failed write in the middle of it included, and a reading must not  *)
(* lose the files it reads.                                                *)
(*   src/src/leveldb/db/db_impl.cc, version_set.cc, db_iter.cc             *)
(*   src/src/KeyValueDatabase.cpp                                          *)
(* mutex_ is held through one action; where the code lets it go, an action *)
(* ends.  Opening never lets the background thread in: the last step of    *)
(* DB::Open schedules it.                                                  *)
(***************************************************************************)
EXTENDS DbFiles

CONSTANTS Databases,    \* the directories a run may find
          Wanted,       \* the keys with the prefix that is read
          MaxRuns,      \* bound: how often the program is started
          MaxFaults     \* bound: crashes and failed writes

(* A directory as a node leaves it: CURRENT names a manifest whose last    *)
(* next_file is above all numbers the node has given out, and every table  *)
(* of the version is there and is what the manifest says of it.            *)
IsDirectory(d) ==
    /\ d = [current |-> d.current, manifests |-> d.manifests, tables |-> d.tables,
            logs |-> d.logs, temps |-> d.temps]
    /\ d.current \in Nat
    /\ 0 \notin DOMAIN d.manifests
    /\ DOMAIN d.logs \subseteq Nat
    /\ Manifest(d) \in Seq(Range(Manifest(d)))
    /\ LET next == LastField(Manifest(d), "next")
       IN  next # Absent =>
             /\ next \in Nat /\ d.current < next
             /\ \A l \in Levels : \A f \in BuildVersion(Manifest(d))[l] :
                   /\ f.number \in 0..(next - 1)
                   /\ f.number \in DOMAIN d.tables
                   /\ f = FileMetaData(f.number, d.tables[f.number])

ASSUME LevelDbAssumption == /\ MaxLevel \in Nat \ {0}
                            /\ MaxRuns \in Nat /\ MaxFaults \in Nat
                            /\ \A d \in Databases : IsDirectory(d)

(* The keys with a prefix: a range without a gap.                          *)
ASSUME WantedAssumption == /\ Wanted \subseteq Nat /\ Wanted # {}
                           /\ \A k, l \in Wanted : k..l \subseteq Wanted

VARIABLES disk,         \* the directory
          contents,     \* what was stored in it at the beginning
          main,         \* where the main thread is
          rec,          \* DBImpl::Recover: logs left, next record, edit, max_sequence
          vs,           \* VersionSet
          db,           \* DBImpl
          bg,           \* where the background thread is
          c,            \* its compaction
          iter,         \* mIterator: its version, sequence_ and the entry it is at
          delivered,    \* what next() returned
          runs, faults

vars == <<disk, contents, main, rec, vs, db, bg, c, iter, delivered, runs, faults>>

NoFiles == [l \in Levels |-> {}]
NoCompaction == [version |-> 0]
NoIterator == [version |-> 0]
Target == Min(Wanted)

(* The constructors of VersionSet and DBImpl.                              *)
NewVersionSet == [next |-> 2, manifest |-> 0, last |-> 0, log |-> 0, current |-> 1,
                  versions |-> [v \in {1} |-> [files |-> NoFiles, refs |-> 1, seek |-> {}]]]
NewDBImpl == [scheduled |-> FALSE, shutting |-> FALSE, error |-> FALSE, pending |-> {},
              logfile |-> 0]
NoRecovery == [logs |-> {}, from |-> 1, edit |-> NoEdit, max |-> 0]

Init == /\ disk \in Databases
        /\ contents = Visible(Stored(disk))
        /\ main = "down" /\ bg = "idle"
        /\ rec = NoRecovery /\ vs = NewVersionSet /\ db = NewDBImpl
        /\ c = NoCompaction /\ iter = NoIterator
        /\ delivered = << >> /\ runs = 0 /\ faults = 0
-----------------------------------------------------------------------------
(* VersionSet.                                                             *)
Current(s) == s.versions[s.current]

Ref(s, v) == [s EXCEPT !.versions[v].refs = @ + 1]

Unref(s, v) == IF s.versions[v].refs = 1
               THEN [s EXCEPT !.versions = Unlink(@, v)]
               ELSE [s EXCEPT !.versions[v].refs = @ - 1]

(* AppendVersion, of the version that an edit makes of the current one.    *)
AppendVersion(s, edit) ==
    LET v == Min((1..(Cardinality(DOMAIN s.versions) + 1)) \ DOMAIN s.versions)
        new == [files |-> ApplyEdit(Current(s).files, edit), refs |-> 1, seek |-> {}]
    IN  Unref([s EXCEPT !.versions = Put(@, v, new), !.current = v], s.current)

(* LogAndApply's other fields of an edit.                                  *)
Completed(edit, s, log) == [edit EXCEPT !.log = log, !.next = s.next, !.last = s.last]

(* Variant: the numbers of logs are given out again.                       *)
ForgetFileNumber(s, number) == s

MarkFileNumberUsed(s, number) == [s EXCEPT !.next = Max({@, number + 1})]

(* Variant: only the current version is looked at.                         *)
FilesOfCurrent(s) == FileNumbers(Current(s).files)

(* AddLiveFiles: the files of every version somebody still refers to.      *)
LiveFiles(s) == UNION {FileNumbers(s.versions[v].files) : v \in DOMAIN s.versions}

NeedsCompaction(version) == Overfull(version.files) # {} \/ version.seek # {}
-----------------------------------------------------------------------------
(* DBImpl.                                                                 *)

(* Variant: also when closing and after an error.                          *)
ScheduleRegardless(d, s) ==
    [d EXCEPT !.scheduled = @ \/ NeedsCompaction(Current(s))]

MaybeScheduleCompaction(d, s) ==
    [d EXCEPT !.scheduled = @ \/ (~d.shutting /\ ~d.error /\ NeedsCompaction(Current(s)))]

DeleteObsoleteFiles(on, d, s) ==
    IF d.error THEN on ELSE Cleaned(on, d.pending \cup LiveFiles(s), s.log, s.manifest)

(* The process is gone: what it had in memory is lost.                     *)
Down == /\ main' = "down" /\ bg' = "idle"
        /\ rec' = NoRecovery /\ vs' = NewVersionSet /\ db' = NewDBImpl
        /\ c' = NoCompaction /\ iter' = NoIterator
        /\ delivered' = << >>

(* DB::Open up to Recover: the directory is locked.                        *)
Start == /\ main = "down" /\ runs < MaxRuns
         /\ main' = "recover"
         /\ runs' = runs + 1
         /\ UNCHANGED <<disk, contents, rec, vs, db, bg, c, iter, delivered, faults>>

(* NewDB: a manifest that says the database is empty.                      *)
NewDB == /\ main = "recover" /\ disk.current = 0
         /\ disk' = [disk EXCEPT !.manifests =
                       Put(@, 1, <<[NoEdit EXCEPT !.log = 0, !.next = 2, !.last = 0]>>)]
         /\ main' = "newdb_temp"
         /\ UNCHANGED <<contents, rec, vs, db, bg, c, iter, delivered, runs, faults>>

(* SetCurrentFile, for NewDB and for LogAndApply: the temporary file, then *)
(* its renaming.                                                           *)
ManifestToSet == IF main \in {"newdb_temp", "newdb_rename"} THEN 1 ELSE vs.manifest

WriteTemp == /\ main \in {"newdb_temp", "temp"}
             /\ disk' = [disk EXCEPT !.temps = @ \cup {ManifestToSet}]
             /\ main' = IF main = "temp" THEN "rename" ELSE "newdb_rename"
             /\ UNCHANGED <<contents, rec, vs, db, bg, c, iter, delivered, runs, faults>>

Renamed == [disk EXCEPT !.current = ManifestToSet, !.temps = @ \ {ManifestToSet}]

RenameNewDB == /\ main = "newdb_rename"
               /\ disk' = Renamed
               /\ main' = "recover"
               /\ UNCHANGED <<contents, rec, vs, db, bg, c, iter, delivered, runs, faults>>

(* Recover goes on when the manifest is there and says enough, and there   *)
(* is a file with the number of every table of it; else Open fails.        *)
Readable == LET edits == Manifest(disk)
            IN  /\ \A field \in {"log", "next", "last"} : LastField(edits, field) # Absent
                /\ FileNumbers(BuildVersion(edits)) \subseteq
                      DOMAIN disk.tables \cup DOMAIN disk.logs
                      \cup DOMAIN disk.manifests \cup disk.temps

ReadManifest ==
    /\ LET edits == Manifest(disk)
           next == LastField(edits, "next")
       IN  /\ vs' = [NewVersionSet EXCEPT !.next = next + 1, !.manifest = next,
                        !.last = LastField(edits, "last"), !.log = LastField(edits, "log"),
                        !.versions[1].files = BuildVersion(edits)]
           /\ rec' = [NoRecovery EXCEPT !.logs = {n \in DOMAIN disk.logs : n >= vs'.log}]
    /\ main' = "logs"
    /\ UNCHANGED <<db, bg, c, iter, delivered>>

Recover == /\ main = "recover" /\ disk.current # 0
           /\ IF Readable THEN ReadManifest ELSE Down
           /\ UNCHANGED <<disk, contents, runs, faults>>

(* RecoverLogFile: records of the oldest log left are read, up to its end  *)
(* or until the memtable is full, and WriteLevel0Table makes a table of    *)
(* them.  At the end of a log its number is marked as used.                *)
RecoverLogFile ==
    /\ main = "logs" /\ rec.logs # {}
    /\ LET log == Min(rec.logs)
           records == ReadRecords(disk.logs[log])
           closed(s) == MarkFileNumberUsed(s, log)
       IN  \/ /\ rec.from > Len(records)
              /\ vs' = closed(vs)
              /\ rec' = [rec EXCEPT !.logs = @ \ {log}, !.from = 1]
              /\ UNCHANGED disk
           \/ \E last \in rec.from..Len(records) :
                LET E == UNION {records[i] : i \in rec.from..last}
                    added == {<<0, FileMetaData(vs.next, E)>>}
                    end == last = Len(records)
                    used == [vs EXCEPT !.next = @ + 1]
                IN  /\ disk' = [disk EXCEPT !.tables = Put(@, vs.next, E)]
                    /\ vs' = IF end THEN closed(used) ELSE used
                    /\ rec' = [logs |-> IF end THEN rec.logs \ {log} ELSE rec.logs,
                               from |-> IF end THEN 1 ELSE last + 1,
                               edit |-> [rec.edit EXCEPT !.added = @ \cup added],
                               max |-> Max({rec.max} \cup {e.seq : e \in E})]
    /\ UNCHANGED <<contents, main, db, bg, c, iter, delivered, runs, faults>>

(* The rest of Open: a new log, the manifest, CURRENT, the files that are  *)
(* not needed any more.                                                    *)
NewLog == /\ main = "logs" /\ rec.logs = {}
          /\ disk' = [disk EXCEPT !.logs = Put(@, vs.next, << >>)]
          /\ vs' = [vs EXCEPT !.next = @ + 1, !.last = Max({@, rec.max})]
          /\ db' = [db EXCEPT !.logfile = vs.next]
          /\ main' = "manifest"
          /\ UNCHANGED <<contents, rec, bg, c, iter, delivered, runs, faults>>

WriteManifest ==
    /\ main = "manifest"
    /\ disk' = [disk EXCEPT !.manifests = Put(@, vs.manifest,
                  <<WriteSnapshot(Current(vs).files), Completed(rec.edit, vs, db.logfile)>>)]
    /\ main' = "temp"
    /\ UNCHANGED <<contents, rec, vs, db, bg, c, iter, delivered, runs, faults>>

RenameAndInstall ==
    /\ main = "rename"
    /\ disk' = Renamed
    /\ vs' = [AppendVersion(vs, rec.edit) EXCEPT !.log = db.logfile]
    /\ rec' = NoRecovery
    /\ main' = "opened"
    /\ UNCHANGED <<contents, db, bg, c, iter, delivered, runs, faults>>

Opened == /\ main = "opened"
          /\ disk' = DeleteObsoleteFiles(disk, db, vs)
          /\ db' = MaybeScheduleCompaction(db, vs)
          /\ main' = "open"
          /\ UNCHANGED <<contents, rec, vs, bg, c, iter, delivered, runs, faults>>
-----------------------------------------------------------------------------
(* KeyValueDatabase reads: NewIterator pins the version it reads.          *)
NewIterator == /\ main = "open"
               /\ iter' = [version |-> vs.current, sequence |-> vs.last, at |-> {}]
               /\ vs' = Ref(vs, vs.current)
               /\ delivered' = << >>
               /\ main' = "seek"
               /\ UNCHANGED <<disk, contents, rec, db, bg, c, runs, faults>>

(* RecordReadSample, for some of the entries a scan came by: a file with   *)
(* too many seeks (how many is left open) is to be compacted, if none is.  *)
RecordReadSample(passed) ==
    \/ UNCHANGED <<vs, db>>
    \/ \E e \in passed :
          /\ Current(vs).seek = {}
          /\ Cardinality(Overlapping(Current(vs).files, e)) >= 2
          /\ vs' = [vs EXCEPT !.versions[vs.current].seek =
                      {FirstMatch(Overlapping(Current(vs).files, e))}]
          /\ db' = MaybeScheduleCompaction(db, vs')

(* FindNextUserEntry, through the entries E, past the key skip: MergingIterator *)
(* shows those of all tables in the order of internal keys.                *)
FindNextUserEntry(E, skip) ==
    LET found == Acceptable(E, iter.sequence, skip)
        at == IF found = {} THEN {} ELSE {FirstOf(found)}
    IN  /\ iter' = [iter EXCEPT !.at = at]
        /\ RecordReadSample({e \in E : \A f \in at : ~Before(f, e)})

Merged == Entries(disk, vs.versions[iter.version].files)

Seek == /\ main = "seek"
        /\ FindNextUserEntry({e \in Merged : e.key >= Target}, Target - 1)
        /\ main' = IF iter'.at = {} THEN "release" ELSE "read"
        /\ UNCHANGED <<disk, contents, rec, bg, c, delivered, runs, faults>>

(* KeyValueDatabase::next: the pair, the iterator moved on, and nothing    *)
(* when the pair turns out to lie behind the prefix.                       *)
NextPair ==
    /\ main = "read"
    /\ \E e \in iter.at :
         /\ FindNextUserEntry({f \in Merged : ~Before(f, e)}, e.key)
         /\ delivered' = IF e.key \in Wanted
                         THEN Append(delivered, [key |-> e.key, value |-> e.seq])
                         ELSE delivered
         /\ main' = IF e.key \in Wanted /\ iter'.at # {} THEN "read" ELSE "release"
    /\ UNCHANGED <<disk, contents, rec, bg, c, runs, faults>>

(* delete mIterator: CleanupIteratorState.                                 *)
DeleteIterator == /\ main = "release"
                  /\ vs' = Unref(vs, iter.version)
                  /\ iter' = NoIterator
                  /\ main' = "delete"
                  /\ UNCHANGED <<disk, contents, rec, db, bg, c, delivered, runs, faults>>

(* delete mDatabase: ~DBImpl waits for the background thread.              *)
ShutDown == /\ main = "delete"
            /\ db' = [db EXCEPT !.shutting = TRUE]
            /\ main' = "wait"
            /\ UNCHANGED <<disk, contents, rec, vs, bg, c, iter, delivered, runs, faults>>

Closed == /\ main = "wait" /\ ~db.scheduled
          /\ Down
          /\ UNCHANGED <<disk, contents, runs, faults>>
-----------------------------------------------------------------------------
(* The background thread.  At the end of BackgroundCall, still under the   *)
(* mutex, it may schedule itself again.                                    *)
EndBackgroundCall(d, s) ==
    /\ db' = MaybeScheduleCompaction([d EXCEPT !.scheduled = FALSE], s)
    /\ vs' = s
    /\ bg' = "idle"
    /\ c' = NoCompaction

BackgroundCallIdle ==
    /\ bg = "idle" /\ db.scheduled
    /\ db.shutting \/ db.error
    /\ EndBackgroundCall(db, vs)
    /\ UNCHANGED <<disk, contents, main, rec, iter, delivered, runs, faults>>

(* BackgroundCompaction: a file is moved down by an edit alone, or the     *)
(* inputs are to be merged.                                                *)
TrivialMove ==
    /\ bg = "idle" /\ db.scheduled /\ ~db.shutting /\ ~db.error
    /\ \E p \in PickCompaction(Current(vs)) :
          /\ IsTrivialMove(p)
          /\ \E f \in p.inputs[1] :
                c' = [version |-> vs.current, moved |-> TRUE,
                      edit |-> Completed([NoEdit EXCEPT !.added = {<<p.level + 1, f>>},
                                                        !.deleted = {<<p.level, f.number>>}],
                                         vs, vs.log)]
    /\ vs' = Ref(vs, vs.current)
    /\ bg' = "write"
    /\ UNCHANGED <<disk, contents, main, rec, db, iter, delivered, runs, faults>>

StartCompaction ==
    /\ bg = "idle" /\ db.scheduled /\ ~db.shutting /\ ~db.error
    /\ \E p \in PickCompaction(Current(vs)) :
          /\ IsTrivialMove(p) => GrandparentsMeet(p)
          /\ c' = [version |-> vs.current, moved |-> FALSE, level |-> p.level,
                   inputs |-> p.inputs, open |-> 0, outputs |-> {},
                   left |-> Kept(p, UNION {TableEntries(disk, f.number) : f \in Inputs(p)},
                                 vs.last)]
    /\ vs' = Ref(vs, vs.current)
    /\ bg' = "work"
    /\ UNCHANGED <<disk, contents, main, rec, db, iter, delivered, runs, faults>>

OpenCompactionOutputFile ==
    /\ bg = "work" /\ c.open = 0 /\ c.left # {} /\ ~db.shutting
    /\ c' = [c EXCEPT !.open = vs.next]
    /\ vs' = [vs EXCEPT !.next = @ + 1]
    /\ db' = [db EXCEPT !.pending = @ \cup {vs.next}]
    /\ disk' = [disk EXCEPT !.tables = Put(@, vs.next, {})]
    /\ UNCHANGED <<contents, main, rec, bg, iter, delivered, runs, faults>>

(* The output takes the entries up to some point (where a file is full is  *)
(* left open) and is finished.                                             *)
FinishCompactionOutputFile ==
    /\ bg = "work" /\ c.open # 0
    /\ \E last \in c.left :
          LET E == {e \in c.left : ~Before(last, e)}
          IN  /\ disk' = [disk EXCEPT !.tables = Put(@, c.open, E)]
              /\ c' = [c EXCEPT !.open = 0, !.left = @ \ E,
                                !.outputs = @ \cup {FileMetaData(c.open, E)}]
    /\ UNCHANGED <<contents, main, rec, vs, db, bg, iter, delivered, runs, faults>>

(* InstallCompactionResults, until LogAndApply unlocks the mutex.          *)
InstallCompactionResults ==
    /\ bg = "work" /\ c.open = 0 /\ c.left = {}
    /\ LET deleted == UNION {{<<c.level + i - 1, f.number>> : f \in c.inputs[i]} : i \in 1..2}
           added == {<<c.level + 1, f>> : f \in c.outputs}
       IN  c' = [version |-> c.version, moved |-> FALSE,
                 edit |-> Completed([NoEdit EXCEPT !.added = added, !.deleted = deleted],
                                    vs, vs.log)]
    /\ bg' = "write"
    /\ UNCHANGED <<disk, contents, main, rec, vs, db, iter, delivered, runs, faults>>

Logged == [disk EXCEPT !.manifests[vs.manifest] = Append(@, c.edit)]

WriteEdit == /\ bg = "write"
             /\ disk' = Logged
             /\ bg' = "install"
             /\ UNCHANGED <<contents, main, rec, vs, db, c, iter, delivered, runs, faults>>

(* The new version is installed; after a compaction that wrote files their *)
(* numbers are no longer pending and what is obsolete is deleted.          *)
InstallVersion ==
    /\ bg = "install"
    /\ \E s \in {Unref(AppendVersion(vs, c.edit), c.version)} :
          LET d == [db EXCEPT !.pending = {}]
          IN  /\ disk' = IF c.moved THEN disk ELSE DeleteObsoleteFiles(disk, d, s)
              /\ EndBackgroundCall(d, s)
    /\ UNCHANGED <<contents, main, rec, iter, delivered, runs, faults>>

(* Variant: the version of the inputs is not released.                     *)
KeepInputs ==
    /\ bg = "failed" \/ (bg = "work" /\ db.shutting)
    /\ EndBackgroundCall([db EXCEPT !.error = TRUE, !.pending = {}], vs)
    /\ UNCHANGED <<disk, contents, main, rec, iter, delivered, runs, faults>>

(* The loop of DoCompactionWork ends early when a write failed or when the *)
(* database is being closed.  RecordBackgroundError: from now on nothing   *)
(* is compacted or deleted.                                                *)
AbandonCompaction ==
    /\ bg = "failed" \/ (bg = "work" /\ db.shutting)
    /\ EndBackgroundCall([db EXCEPT !.error = TRUE, !.pending = {}], Unref(vs, c.version))
    /\ UNCHANGED <<disk, contents, main, rec, iter, delivered, runs, faults>>
-----------------------------------------------------------------------------
(* Failed writes: of an output, and of the manifest, where the edit may or *)
(* may not have reached the file.                                          *)
CompactionFails ==
    /\ faults < MaxFaults
    /\ \/ bg = "work" /\ c.open # 0 /\ UNCHANGED disk
       \/ bg = "write" /\ disk' \in {disk, Logged}
    /\ bg' = "failed"
    /\ faults' = faults + 1
    /\ UNCHANGED <<contents, main, rec, vs, db, c, iter, delivered, runs>>

(* Failed writes while opening: what was being made is deleted, and Open   *)
(* gives up.                                                               *)
OpenFails ==
    /\ faults < MaxFaults
    /\ main \in {"recover", "newdb_temp", "newdb_rename", "logs", "manifest", "temp", "rename"}
    /\ disk' = CASE main = "recover" /\ disk.current = 0 -> [disk EXCEPT !.manifests = Unlink(@, 1)]
                 [] main \in {"newdb_temp", "newdb_rename"} -> [disk EXCEPT !.temps = @ \ {1}]
                 [] main \in {"manifest", "temp", "rename"} ->
                        [disk EXCEPT !.manifests = Unlink(@, vs.manifest),
                                     !.temps = @ \ {vs.manifest}]
                 [] main = "logs" /\ rec.logs # {} ->
                        [disk EXCEPT !.tables = Unlink(@, vs.next)]
                 [] OTHER -> disk
    /\ faults' = faults + 1
    /\ Down
    /\ UNCHANGED <<contents, runs>>

(* The disk as a crash may leave it: the file being written is cut off,    *)
(* some of the files being deleted are gone.                               *)
Keeping(T, L, M) ==
    [disk EXCEPT !.tables = Restrict(@, T), !.logs = Restrict(@, L), !.manifests = Restrict(@, M)]

PartlyCleaned(rest) ==
    {Keeping(T, L, M) :
        T \in {X \in SUBSET DOMAIN disk.tables : DOMAIN rest.tables \subseteq X},
        L \in {X \in SUBSET DOMAIN disk.logs : DOMAIN rest.logs \subseteq X},
        M \in {X \in SUBSET DOMAIN disk.manifests : DOMAIN rest.manifests \subseteq X}}

CutOff ==
    CASE main = "recover" /\ disk.current = 0 ->
            {[disk EXCEPT !.manifests = Put(@, 1, << >>)]}
      [] main \in {"newdb_temp", "temp"} -> {[disk EXCEPT !.temps = @ \cup {ManifestToSet}]}
      [] main = "logs" /\ rec.logs # {} -> {[disk EXCEPT !.tables = Put(@, vs.next, {})]}
      [] main = "manifest" ->
            {[disk EXCEPT !.manifests = Put(@, vs.manifest, edits)] :
                edits \in {<< >>, <<WriteSnapshot(Current(vs).files)>>}}
      [] main = "opened" -> PartlyCleaned(DeleteObsoleteFiles(disk, db, vs))
      [] bg = "install" /\ ~c.moved ->
            PartlyCleaned(DeleteObsoleteFiles(disk, [db EXCEPT !.pending = {}],
                                              Unref(AppendVersion(vs, c.edit), c.version)))
      [] OTHER -> {}

Crash == /\ main # "down" /\ faults < MaxFaults
         /\ disk' \in {disk} \cup CutOff
         /\ faults' = faults + 1
         /\ Down
         /\ UNCHANGED <<contents, runs>>

Main == \/ NewDB \/ WriteTemp \/ RenameNewDB \/ Recover \/ RecoverLogFile
        \/ NewLog \/ WriteManifest \/ RenameAndInstall \/ Opened
        \/ NewIterator \/ Seek \/ NextPair \/ DeleteIterator \/ ShutDown \/ Closed

Background == \/ BackgroundCallIdle \/ TrivialMove \/ StartCompaction
              \/ OpenCompactionOutputFile \/ FinishCompactionOutputFile
              \/ InstallCompactionResults \/ WriteEdit \/ InstallVersion \/ AbandonCompaction

Next == Start \/ Main \/ Background \/ CompactionFails \/ OpenFails \/ Crash

SafeSpec == Init /\ [][Next]_vars

(* Both threads go on as long as they can; nobody has to start the program.*)
Spec == SafeSpec /\ WF_vars(Main) /\ WF_vars(Background)
-----------------------------------------------------------------------------
(* Type invariant: the objects of the two threads have the shape the       *)
(* actions give them, and every reference of a version is held by somebody *)
(* (Ref and Unref are balanced in all paths, the failing ones included).   *)
TypeOK ==
    /\ main \in {"down", "recover", "newdb_temp", "newdb_rename", "logs", "manifest", "temp",
                 "rename", "opened", "open", "seek", "read", "release", "delete", "wait"}
    /\ bg \in {"idle", "work", "write", "install", "failed"}
    /\ runs \in 0..MaxRuns /\ faults \in 0..MaxFaults
    /\ db \in [scheduled : BOOLEAN, shutting : BOOLEAN, error : BOOLEAN,
               pending : SUBSET (1..vs.next), logfile : 0..vs.next]
    /\ bg # "idle" => db.scheduled
    /\ vs.current \in DOMAIN vs.versions
    /\ \A v \in DOMAIN vs.versions :
          vs.versions[v].refs = Cardinality({x \in {1, 2, 3} :
              v = <<vs.current, c.version, iter.version>>[x]})

(* What is stored is what was stored: at every step of opening, compacting *)
(* and closing, and after every crash or failed write, the directory can   *)
(* be opened and opening it finds the pairs that were there at first.      *)
NothingLost == Complete(disk) /\ Visible(Stored(disk)) = contents

(* Files are kept as long as they are needed: those of every version that  *)
(* somebody refers to, the one an iterator reads and the inputs of a       *)
(* compaction included, are there and are what the version says.           *)
FilesKept ==
    \A v \in DOMAIN vs.versions : \A f \in UNION {vs.versions[v].files[l] : l \in Levels} :
        /\ f.number \in DOMAIN disk.tables
        /\ f = FileMetaData(f.number, disk.tables[f.number])

(* The shape of a version that compaction and reading rest on: tables of a *)
(* level below the first do not meet (MaybeAddFile asserts it), and a      *)
(* write of a key lies above all older writes of it.                       *)
After(E, F) == \A e \in E, f \in F : e.key = f.key => e.seq > f.seq

Layered(d, files) ==
    LET above(k, f, l, g) == k < l \/ (k = 0 /\ l = 0 /\ f.number > g.number)
    IN  /\ \A l \in Levels \ {0} : \A f, g \in files[l] :
              f # g => ~KeysMeet(f, g.smallest.key, g.largest.key)
        /\ \A k, l \in Levels : \A f \in files[k], g \in files[l] :
              above(k, f, l, g) =>
                  After(TableEntries(d, f.number), TableEntries(d, g.number))

NewestAbove == \A v \in DOMAIN vs.versions : Layered(disk, vs.versions[v].files)

(* A directory in which a node has left its writes as it should: the       *)
(* version of the manifest has that shape, with no write after the last    *)
(* that the manifest knows of; the logs hold newer ones, in their order,   *)
(* and the number of the oldest has been given out (LogAndApply asserts    *)
(* it).                                                                    *)
Writes == [key : Nat, seq : Nat, del : BOOLEAN]

IsTable(E) == /\ E \subseteq Writes /\ E # {} /\ IsFiniteSet(E)
              /\ \A e, f \in E : e.key = f.key /\ e.seq = f.seq => e = f

LogsToRead(d) == {n \in DOMAIN d.logs : n >= LastField(Manifest(d), "log")}

Intact(d) ==
    LET files == BuildVersion(Manifest(d))
        last == LastField(Manifest(d), "last")
        log == LastField(Manifest(d), "log")
        record(n, i) == ReadRecords(d.logs[n])[i]
        records(n) == DOMAIN ReadRecords(d.logs[n])
    IN  /\ Complete(d) /\ Layered(d, files)
        /\ {last, log} \subseteq Nat \cup {Absent} /\ log <= LastField(Manifest(d), "next")
        /\ \A l \in Levels : IsFiniteSet(files[l])
        /\ \A l \in Levels : \A f \in files[l] :
              IsTable(d.tables[f.number]) /\ \A e \in d.tables[f.number] : e.seq <= last
        /\ \A n \in LogsToRead(d) :
              /\ d.logs[n] \in Seq(SUBSET Writes)
              /\ \A i \in records(n) :
                    /\ IsTable(record(n, i)) /\ After(record(n, i), Entries(d, files))
                    /\ \A m \in LogsToRead(d) : \A j \in records(m) :
                          m < n \/ (m = n /\ j < i) => After(record(n, i), record(m, j))

(* DoCompactionWork, of the deletion markers it leaves out: "data in       *)
(* layers that are being compacted here and have smaller sequence numbers  *)
(* will be dropped in the next few iterations of this loop".  So a key     *)
(* that was deleted stays so.                                              *)
DeletedStaysDeleted == {e.key : e \in Visible(Stored(disk))} \subseteq {e.key : e \in contents}

(* A reading delivers what was stored, in order and completely.            *)
Store == INSTANCE SortedStore WITH
            Keys <- Nat,
            contents <- {[key |-> e.key, value |-> e.seq] : e \in contents},
            phase <- IF main \in {"seek", "read"} THEN "reading"
                     ELSE IF main \in {"release", "delete", "wait"} THEN "finished" ELSE "closed"

ImplementsStore == Store!Spec

(* The program ends: opening, reading and closing do, whatever the         *)
(* background thread is doing when it is told to stop.                     *)
Ends == (main # "down") ~> (main = "down")
=============================================================================
