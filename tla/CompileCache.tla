----------------------------- MODULE CompileCache -----------------------------
(***************************************************************************)
(* The compiler cache (gpsee_compileScript): a compiled script is written  *)
(* beside its source, with the inode and the modification time of the      *)
(* source, and thawed instead of compiled while those still agree.         *)
(* Processes share the cache; they hold shared locks on the source, which  *)
(* an editor does not heed, and lock the cache file when it is read and    *)
(* written.  A process may die at any point.                               *)
(*                                                                         *)
(* A version of the source is a number, in the order of writing; times are *)
(* whole seconds, as in the file system's st_mtime.  The size of the       *)
(* source does not change, nor do the offset of the script in the file and *)
(* the encoding of strings, which the cache compares as well.  A compiled  *)
(* script that is not complete cannot be thawed (JS_XDRScript fails).      *)
(***************************************************************************)
EXTENDS Naturals, FiniteSets

CONSTANTS Processes,
          Sources,       \* the inodes the source may have, one after the other
          FirstSource,   \* the one it has at first
          CacheFiles,    \* the inodes of cache files
          NoFile,
          MaxVersion,    \* the last version of the source
          MaxTime        \* the last second

ASSUME CacheAssumption ==
  /\ FirstSource \in Sources /\ NoFile \notin Sources \cup CacheFiles
  /\ MaxVersion \in Nat /\ MaxTime \in Nat

VARIABLES ccNow,         \* the clock
          ccSource,      \* the inode at the path of the script
          ccVersion,     \* per source inode: the version it holds
          ccTime,        \* per source inode: its st_mtime
          ccWritten,     \* per version: the inode and the second it was written in
          ccLast,        \* the last version written
          ccPath,        \* the inode at the path of the cache file
          ccCache,       \* per cache inode: its script and the source it says it is of
          ccPc,          \* per process: where it is in gpsee_compileScript
          ccOpened,      \* per process: the source inode it has open
          ccStat,        \* per process: the st_mtime it has read of it
          ccFile,        \* per process: the cache inode it has open
          ccLock,        \* per process: its lock on that inode
          ccScript       \* per process: the version its script is compiled from

ccDisk == <<ccSource, ccVersion, ccTime, ccWritten, ccLast>>
ccStore == <<ccPath, ccCache>>
ccProcess == <<ccPc, ccOpened, ccStat, ccFile, ccLock, ccScript>>
cacheVars == <<ccNow, ccDisk, ccStore, ccProcess>>

\* No version, in a cache file that is not complete.
NoScript == MaxVersion + 1
Versions == 0..MaxVersion
Times == 0..MaxTime

CacheTypeOK ==
  /\ ccNow \in Times
  /\ ccSource \in Sources
  /\ ccVersion \in [Sources -> Versions] /\ ccTime \in [Sources -> Times]
  /\ ccWritten \in [Versions -> [ino : Sources, mtime : Times]]
  /\ ccLast \in Versions
  /\ ccPath \in CacheFiles \cup {NoFile}
  /\ ccCache \in [CacheFiles -> [ino : Sources, mtime : Times, script : Versions \cup {NoScript},
                                 changed : Times, owned : BOOLEAN]]
  /\ ccPc \in [Processes -> {"idle", "fstat", "open", "lock_sh", "check", "compile", "unlink",
                             "create", "lock_ex", "fchown", "write", "thawed", "dead"}]
  /\ ccOpened \in [Processes -> Sources \cup {NoFile}] /\ ccStat \in [Processes -> Times]
  /\ ccFile \in [Processes -> CacheFiles \cup {NoFile}]
  /\ ccLock \in [Processes -> {"none", "SH", "EX"}]
  /\ ccScript \in [Processes -> Versions \cup {NoScript}]
  /\ \A p \in Processes : ccFile[p] # NoFile <=>
        ccPc[p] \in {"lock_sh", "check", "lock_ex", "fchown", "write"}

CacheInit ==
  /\ ccNow = 0
  /\ ccSource = FirstSource
  /\ ccVersion = [s \in Sources |-> 0] /\ ccTime = [s \in Sources |-> 0]
  /\ ccWritten = [v \in Versions |-> [ino |-> FirstSource, mtime |-> 0]]
  /\ ccLast = 0
  /\ ccPath = NoFile
  /\ ccCache = [i \in CacheFiles |-> [ino |-> FirstSource, mtime |-> 0, script |-> NoScript,
                                      changed |-> 0, owned |-> FALSE]]
  /\ ccPc = [p \in Processes |-> "idle"]
  /\ ccOpened = [p \in Processes |-> NoFile] /\ ccStat = [p \in Processes |-> 0]
  /\ ccFile = [p \in Processes |-> NoFile]
  /\ ccLock = [p \in Processes |-> "none"]
  /\ ccScript = [p \in Processes |-> NoScript]

-----------------------------------------------------------------------------
(* The clock and the editor                                                  *)

Tick ==
  /\ ccNow < MaxTime
  /\ ccNow' = ccNow + 1
  /\ UNCHANGED <<ccDisk, ccStore, ccProcess>>

\* The next version is written into inode s, with st_mtime t.
SaveAs(s, t) ==
  /\ ccLast < MaxVersion
  /\ ccLast' = ccLast + 1
  /\ ccSource' = s
  /\ ccVersion' = [ccVersion EXCEPT ![s] = ccLast + 1]
  /\ ccTime' = [ccTime EXCEPT ![s] = t]
  /\ ccWritten' = [ccWritten EXCEPT ![ccLast + 1] = [ino |-> s, mtime |-> t]]
  /\ UNCHANGED <<ccNow, ccStore, ccProcess>>

\* An editor that writes into the file there is.
Overwrite == SaveAs(ccSource, ccNow)

\* Another file, perhaps an older one, is renamed to the path; its inode is a new one.
Replace ==
  \E s \in Sources, t \in 0..ccNow :
     /\ \A v \in 0..ccLast : ccWritten[v].ino # s
     /\ SaveAs(s, t)

-----------------------------------------------------------------------------
(* gpsee_compileScript                                                       *)

CcGoto(p, pc) == ccPc' = [ccPc EXCEPT ![p] = pc]

Close(p) ==
  /\ ccFile' = [ccFile EXCEPT ![p] = NoFile]
  /\ ccLock' = [ccLock EXCEPT ![p] = "none"]

\* gpsee_compileScript returns, or the process is no more: what it knew is forgotten.
Leave(p, pc) ==
  /\ CcGoto(p, pc) /\ Close(p)
  /\ ccOpened' = [ccOpened EXCEPT ![p] = NoFile]
  /\ ccStat' = [ccStat EXCEPT ![p] = 0]
  /\ ccScript' = [ccScript EXCEPT ![p] = NoScript]

OpenSource(p) ==
  /\ ccPc[p] = "idle"
  /\ ccOpened' = [ccOpened EXCEPT ![p] = ccSource]
  /\ CcGoto(p, "fstat")
  /\ UNCHANGED <<ccNow, ccDisk, ccStore, ccStat, ccFile, ccLock, ccScript>>

StatSource(p) ==
  /\ ccPc[p] = "fstat"
  /\ ccStat' = [ccStat EXCEPT ![p] = ccTime[ccOpened[p]]]
  /\ CcGoto(p, "open")
  /\ UNCHANGED <<ccNow, ccDisk, ccStore, ccOpened, ccFile, ccLock, ccScript>>

\* Mutant: a cache that is not there is locked and read.
OpenCacheUntested(p) ==
  /\ ccPc[p] = "open"
  /\ ccFile' = [ccFile EXCEPT ![p] = ccPath]
  /\ CcGoto(p, "lock_sh")
  /\ UNCHANGED <<ccNow, ccDisk, ccStore, ccOpened, ccStat, ccLock, ccScript>>

OpenCache(p) ==
  /\ ccPc[p] = "open"
  /\ ccFile' = [ccFile EXCEPT ![p] = ccPath]
  /\ CcGoto(p, IF ccPath = NoFile THEN "compile" ELSE "lock_sh")
  /\ UNCHANGED <<ccNow, ccDisk, ccStore, ccOpened, ccStat, ccLock, ccScript>>

\* gpsee_flock, which waits for the locks it cannot share.
Flock(p, kind, pc) ==
  /\ \A q \in Processes \ {p} :
        ccFile[q] = ccFile[p] => ccLock[q] # "EX" /\ (kind = "EX" => ccLock[q] = "none")
  /\ ccLock' = [ccLock EXCEPT ![p] = kind]
  /\ CcGoto(p, pc)
  /\ UNCHANGED <<ccNow, ccDisk, ccStore, ccOpened, ccStat, ccFile, ccScript>>

LockShared(p) == ccPc[p] = "lock_sh" /\ Flock(p, "SH", "check")

\* Mutant: the time of the cache file is trusted instead of the one it has recorded.
MatchesByAge(p, c) ==
  /\ c.owned
  /\ c.changed >= ccStat[p]
  /\ c.ino = ccOpened[p]

\* The cache file is the source's: its owner, its time and its metadata say so.
MatchesSource(p, c) ==
  /\ c.owned
  /\ c.changed >= ccStat[p]
  /\ c.ino = ccOpened[p]
  /\ c.mtime = ccStat[p]

\* The script is thawed, or the cache does not have it.  The file is left open, with its
\* lock, when it is too old; nobody asks for an exclusive lock on it any more.
CheckCache(p) ==
  /\ ccPc[p] = "check"
  /\ LET c == ccCache[ccFile[p]]
         hit == MatchesSource(p, c) /\ c.script # NoScript
     IN /\ ccScript' = [ccScript EXCEPT ![p] = IF hit THEN c.script ELSE NoScript]
        /\ CcGoto(p, IF hit THEN "thawed" ELSE "compile")
  /\ Close(p)
  /\ UNCHANGED <<ccNow, ccDisk, ccStore, ccOpened, ccStat>>

\* JS_CompileFileHandle reads what the file holds now; a script with a syntax error
\* is not compiled.
Compile(p) ==
  /\ ccPc[p] = "compile"
  /\ \/ /\ ccScript' = [ccScript EXCEPT ![p] = ccVersion[ccOpened[p]]]
        /\ CcGoto(p, "unlink")
        /\ UNCHANGED <<ccOpened, ccStat, ccFile, ccLock>>
     \/ Leave(p, "idle")
  /\ UNCHANGED <<ccNow, ccDisk, ccStore>>

UnlinkCache(p) ==
  /\ ccPc[p] = "unlink"
  /\ ccPath' = NoFile
  /\ CcGoto(p, "create")
  /\ UNCHANGED <<ccNow, ccDisk, ccCache, ccOpened, ccStat, ccFile, ccLock, ccScript>>

\* open with O_CREAT|O_EXCL; the process may or may not be the owner of the source.
CreateCache(p) ==
  /\ ccPc[p] = "create"
  /\ IF ccPath # NoFile THEN Leave(p, "idle") /\ UNCHANGED ccStore ELSE
       \E i \in CacheFiles, owner \in BOOLEAN :
         /\ \A q \in Processes : ccFile[q] # i
         /\ ccPath' = i
         /\ ccCache' = [ccCache EXCEPT ![i] = [@ EXCEPT !.script = NoScript, !.changed = ccNow,
                                                        !.owned = owner]]
         /\ ccFile' = [ccFile EXCEPT ![p] = i]
         /\ CcGoto(p, "lock_ex")
         /\ UNCHANGED <<ccOpened, ccStat, ccLock, ccScript>>
  /\ UNCHANGED <<ccNow, ccDisk>>

LockExclusive(p) == ccPc[p] = "lock_ex" /\ Flock(p, "EX", "fchown")

\* cache_write_bail removes whatever is at the path of the cache.
ChownCache(p) ==
  /\ ccPc[p] = "fchown"
  /\ \/ /\ ccCache' = [ccCache EXCEPT ![ccFile[p]].owned = TRUE]
        /\ CcGoto(p, "write")
        /\ UNCHANGED <<ccPath, ccOpened, ccStat, ccFile, ccLock, ccScript>>
     \/ /\ ~ccCache[ccFile[p]].owned
        /\ ccPath' = NoFile
        /\ Leave(p, "idle")
        /\ UNCHANGED ccCache
  /\ UNCHANGED <<ccNow, ccDisk>>

\* The metadata are those of the fstat before the compilation; a script may be cut
\* short, and nobody is told.
WriteCache(p) ==
  /\ ccPc[p] = "write"
  /\ \E s \in {ccScript[p], NoScript} :
        ccCache' = [ccCache EXCEPT ![ccFile[p]] =
          [ino |-> ccOpened[p], mtime |-> ccStat[p], script |-> s, changed |-> ccNow, owned |-> TRUE]]
  /\ Leave(p, "idle")
  /\ UNCHANGED <<ccNow, ccDisk, ccPath>>

\* The script runs, and the process compiles it again.
RunThawed(p) ==
  /\ ccPc[p] = "thawed"
  /\ Leave(p, "idle")
  /\ UNCHANGED <<ccNow, ccDisk, ccStore>>

\* The process dies: its files are closed and its locks released, and what it wrote
\* last is left.
Crash(p) ==
  /\ ccPc[p] \notin {"idle", "thawed", "dead"}
  /\ Leave(p, "dead")
  /\ UNCHANGED <<ccNow, ccDisk, ccStore>>

CacheNext ==
  \/ Tick
  \/ Overwrite
  \/ Replace
  \/ \E p \in Processes :
       \/ OpenSource(p) \/ StatSource(p)
       \/ OpenCache(p) \/ LockShared(p) \/ CheckCache(p)
       \/ Compile(p)
       \/ UnlinkCache(p) \/ CreateCache(p) \/ LockExclusive(p) \/ ChownCache(p) \/ WriteCache(p)
       \/ RunThawed(p)
       \/ Crash(p)

CacheSpec == CacheInit /\ [][CacheNext]_cacheVars

-----------------------------------------------------------------------------

\* A thawed script is of a version written to the inode that the process has open,
\* in the second that it read as the time of the source or later: whatever was edited
\* between another process's fstat and its compilation or its writing of the cache,
\* whoever died, and in whatever order the processes came, it is at most the edits
\* within that second that it misses.  (gpsee_compileScript.)
ThawedIsCurrent ==
  \A p \in Processes : ccPc[p] = "thawed" =>
     /\ ccWritten[ccScript[p]].ino = ccOpened[p]
     /\ ccWritten[ccScript[p]].mtime >= ccStat[p]
=============================================================================
