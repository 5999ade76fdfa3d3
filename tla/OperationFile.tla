---------------------------- MODULE OperationFile ----------------------------
(***************************************************************************)
(* The operation store of the Node server: OperationStore, one database    *)
(* object in memory, read once from a file and written back whole after    *)
(* every change, through one temporary file and a rename.  The methods of  *)
(* concurrent callers interleave at every await of the file system, and    *)
(* neither the load nor the flush takes a lock.                            *)
(*                                                                         *)
(* A database is the set of changes it holds: who changed which operation, *)
(* for the how-manieth time.  The two names, the file's and the temporary  *)
(* file's, point to inodes, for a writer keeps the inode it has opened     *)
(* whatever happens to the name.                                           *)
(***************************************************************************)
EXTENDS Naturals, FiniteSets

CONSTANTS
    Callers,      \* callers of the store, each with one method at a time
    Ops,          \* operation ids
    Inodes,
    None,
    Blank, Torn,  \* contents that are no JSON: truncated, or mixed of two writes
    MaxMethods,   \* how many methods a caller may call
    Faults        \* which of FileFaults the environment may produce

FileFaults == {"io", "read"}

Changes  == Ops \X Callers \X (1 .. MaxMethods)
Contents == {Blank, Torn} \cup SUBSET Changes

ASSUME FileAssumption ==
    /\ MaxMethods \in Nat \ {0}
    /\ IsFiniteSet(Callers) /\ IsFiniteSet(Inodes)
    /\ Cardinality(Inodes) > Cardinality(Callers) + 1
    /\ Faults \subseteq FileFaults
    /\ None \notin Callers \cup Ops \cup Inodes \cup {Blank, Torn}
    /\ Blank # Torn
    /\ \A contents \in SUBSET Changes : contents \notin {None, Blank, Torn}

VARIABLES
    file,    \* the inode named operations.json, or None
    tmp,     \* the inode named operations.json.tmp, or None
    data,    \* data[i]: the contents of inode i
    db,      \* this.db
    loaded,  \* this.loaded
    call,    \* call[c]: the method c is executing and its locals
    told,    \* the changes this process has acknowledged (history)
    acked,   \* the changes any process has acknowledged (history)
    harm,    \* what has gone wrong in this process: a subset of Harms (history)
    scarred  \* whether anything did in an earlier one (history)

fileVars == <<file, tmp, data, db, loaded, call, told, acked, harm, scarred>>

-----------------------------------------------------------------------------

(* Two loads or two flushes overlapped; the file was there and not read. *)
Harms == {"load", "flush", "read"}

Methods == {"create", "update", "get"}
Steps   == {"idle", "load", "parse", "act", "open", "write", "rename", "ok", "threw"}

(* raw is what the load has read or the flush has serialised; loading says *)
(* that the flush belongs to a load, alone that no other flush ran during it. *)
MethodCalls ==
    [step: Steps, method: Methods, op: Ops \cup {None}, n: 0 .. MaxMethods,
     raw: {None} \cup Contents, inode: Inodes \cup {None},
     loading: BOOLEAN, alone: BOOLEAN]

FileTypeOK ==
    /\ file \in Inodes \cup {None}
    /\ tmp \in Inodes \cup {None}
    /\ data \in [Inodes -> Contents]
    /\ db \in SUBSET Changes
    /\ loaded \in BOOLEAN
    /\ call \in [Callers -> MethodCalls]
    /\ \A c \in Callers : call[c].inode # None <=> call[c].step \in {"write", "rename"}
    /\ told \in SUBSET Changes /\ acked \in SUBSET Changes
    /\ harm \in SUBSET Harms
    /\ scarred \in BOOLEAN

Quiet == [step |-> "idle", method |-> "get", op |-> None, n |-> 0, raw |-> None,
          inode |-> None, loading |-> FALSE, alone |-> FALSE]

FileInit ==
    /\ file = None /\ tmp = None
    /\ data = [i \in Inodes |-> Blank]
    /\ db = {} /\ loaded = FALSE
    /\ call = [c \in Callers |-> Quiet]
    /\ told = {} /\ acked = {}
    /\ harm = {} /\ scarred = FALSE

(* What a later process would read from the file. *)
Disk == IF file = None THEN Blank ELSE data[file]

Change(c) == <<call[c].op, c, call[c].n>>
Holds(contents, o) == \E ch \in contents : ch[1] = o

Flushing(c) == call[c].step \in {"open", "write", "rename"}
Loading(c)  == call[c].step \in {"load", "parse"} \/ (Flushing(c) /\ call[c].loading)

Reach(c, step) == call' = [call EXCEPT ![c].step = step]

(* flush serialises this.db before its first await. *)
Flush(c, contents, loading) ==
    LET others == {d \in Callers \ {c} : Flushing(d)}
    IN  /\ call' = [d \in Callers |->
                      IF d = c
                      THEN [call[c] EXCEPT !.step = "open", !.raw = contents,
                                           !.loading = loading, !.alone = others = {}]
                      ELSE [call[d] EXCEPT !.alone = @ /\ d \notin others]]
        /\ harm' = IF others = {} THEN harm ELSE harm \cup {"flush"}

-----------------------------------------------------------------------------
(* The methods *)

(* A call enters ensureLoaded; create is called with a fresh random id. *)
Enter(c, method, o) ==
    /\ call[c].step \in {"idle", "ok", "threw"}
    /\ call[c].n < MaxMethods
    /\ method = "create" =>
         /\ \A ch \in db \cup acked : ch[1] # o
         /\ \A d \in Callers : call[d].op # o
    /\ call' = [call EXCEPT ![c] =
                  [Quiet EXCEPT !.step = IF loaded THEN "act" ELSE "load",
                                !.method = method, !.op = o, !.n = call[c].n + 1]]
    /\ harm' = IF ~loaded /\ \E d \in Callers \ {c} : Loading(d)
               THEN harm \cup {"load"} ELSE harm
    /\ UNCHANGED <<file, tmp, data, db, loaded, told, acked, scarred>>

(* readFile: the file as it is now, or an error, which Blank stands for. *)
ReadFile(c) ==
    /\ call[c].step = "load"
    /\ \/ /\ call' = [call EXCEPT ![c].step = "parse", ![c].raw = Disk]
          /\ UNCHANGED harm
       \/ /\ "read" \in Faults /\ file # None
          /\ call' = [call EXCEPT ![c].step = "parse", ![c].raw = Blank]
          /\ harm' = harm \cup {"read"}
    /\ UNCHANGED <<file, tmp, data, db, loaded, told, acked, scarred>>

MutantLoad(c) ==
    /\ call[c].step = "parse" /\ call[c].raw \notin {Blank, Torn}
    /\ db' = call[c].raw
    /\ Reach(c, "act")
    /\ UNCHANGED <<file, tmp, data, loaded, told, acked, harm, scarred>>
Load(c) ==
    /\ call[c].step = "parse" /\ call[c].raw \notin {Blank, Torn}
    /\ db' = call[c].raw
    /\ loaded' = TRUE
    /\ Reach(c, "act")
    /\ UNCHANGED <<file, tmp, data, told, acked, harm, scarred>>

(* No file, or one that does not parse: the database starts empty. *)
StartEmpty(c) ==
    /\ call[c].step = "parse" /\ call[c].raw \in {Blank, Torn}
    /\ db' = {}
    /\ Flush(c, {}, TRUE)
    /\ UNCHANGED <<file, tmp, data, loaded, told, acked, scarred>>

Find(c) ==
    /\ call[c].step = "act" /\ call[c].method = "get"
    /\ Reach(c, "ok")
    /\ UNCHANGED <<file, tmp, data, db, loaded, told, acked, harm, scarred>>

NotFound(c) ==
    /\ call[c].step = "act" /\ call[c].method = "update"
    /\ ~Holds(db, call[c].op)
    /\ Reach(c, "threw")
    /\ UNCHANGED <<file, tmp, data, db, loaded, told, acked, harm, scarred>>

MutantMutate(c) ==
    /\ call[c].step = "act"
    /\ call[c].method = "create" \/ (call[c].method = "update" /\ Holds(db, call[c].op))
    /\ db' = db \cup {Change(c)}
    /\ Flush(c, db, FALSE)
    /\ UNCHANGED <<file, tmp, data, loaded, told, acked, scarred>>
Mutate(c) ==
    /\ call[c].step = "act"
    /\ call[c].method = "create" \/ (call[c].method = "update" /\ Holds(db, call[c].op))
    /\ db' = db \cup {Change(c)}
    /\ Flush(c, db \cup {Change(c)}, FALSE)
    /\ UNCHANGED <<file, tmp, data, loaded, told, acked, scarred>>

-----------------------------------------------------------------------------
(* flush: writeFile (open with truncation, write) and rename *)

Free(i) == i \notin {file, tmp} /\ \A c \in Callers : call[c].inode # i

MutantOpen(c) ==
    /\ call[c].step = "open"
    /\ LET i == IF file = None THEN CHOOSE j \in Inodes : Free(j) ELSE file
       IN  /\ tmp' = i
           /\ data' = [data EXCEPT ![i] = Blank]
           /\ call' = [call EXCEPT ![c].step = "write", ![c].inode = i]
    /\ UNCHANGED <<file, db, loaded, told, acked, harm, scarred>>
Open(c) ==
    /\ call[c].step = "open"
    /\ LET i == IF tmp = None THEN CHOOSE j \in Inodes : Free(j) ELSE tmp
       IN  /\ tmp' = i
           /\ data' = [data EXCEPT ![i] = Blank]
           /\ call' = [call EXCEPT ![c].step = "write", ![c].inode = i]
    /\ UNCHANGED <<file, db, loaded, told, acked, harm, scarred>>

(* Over another writer's text, a shorter one leaves the end of the longer. *)
Write(c) ==
    /\ call[c].step = "write"
    /\ \E contents \in {call[c].raw, Torn} :
         /\ contents = Torn => data[call[c].inode] # Blank
         /\ data' = [data EXCEPT ![call[c].inode] = contents]
    /\ Reach(c, "rename")
    /\ UNCHANGED <<file, tmp, db, loaded, told, acked, harm, scarred>>

(* The inode that had the name is gone, and its contents with it. *)
Renamed(c) ==
    /\ call[c].step = "rename" /\ tmp # None
    /\ file' = tmp /\ tmp' = None
    /\ data' = [i \in Inodes |-> IF i = file THEN Blank ELSE data[i]]
    /\ call' = [call EXCEPT ![c].step = IF call[c].loading THEN "act" ELSE "ok",
                            ![c].raw = None, ![c].inode = None]
    /\ loaded' = (loaded \/ call[c].loading)
    /\ IF call[c].loading
       THEN UNCHANGED <<told, acked>>
       ELSE told' = told \cup {Change(c)} /\ acked' = acked \cup {Change(c)}
    /\ UNCHANGED <<db, harm, scarred>>

Failed(c) == [call[c] EXCEPT !.step = "threw", !.raw = None, !.inode = None]

(* Another flush has renamed the temporary file away. *)
NothingToRename(c) ==
    /\ call[c].step = "rename" /\ tmp = None
    /\ call' = [call EXCEPT ![c] = Failed(c)]
    /\ UNCHANGED <<file, tmp, data, db, loaded, told, acked, harm, scarred>>

(* mkdir, open, write or rename rejects; a write may have been begun. *)
IoFails(c) ==
    /\ "io" \in Faults
    /\ call[c].step = "load" \/ Flushing(c)
    /\ call' = [call EXCEPT ![c] = Failed(c)]
    /\ \/ UNCHANGED data
       \/ call[c].step = "write" /\ data' = [data EXCEPT ![call[c].inode] = Torn]
    /\ UNCHANGED <<file, tmp, db, loaded, told, acked, harm, scarred>>

FileStep(c) ==
    \/ ReadFile(c) \/ Load(c) \/ StartEmpty(c)
    \/ Find(c) \/ NotFound(c) \/ Mutate(c)
    \/ Open(c) \/ Write(c) \/ Renamed(c) \/ NothingToRename(c)
    \/ IoFails(c)

(* The caller has had its answers. *)
Leave(c) ==
    /\ call' = [call EXCEPT ![c] = Quiet]
    /\ UNCHANGED <<file, tmp, data, db, loaded, told, acked, harm, scarred>>

(* The process dies and another is started: a write may be half done. *)
Restart ==
    /\ \E half \in SUBSET {c \in Callers : call[c].step = "write"} :
         data' = [i \in Inodes |->
                    IF \E c \in half : call[c].inode = i THEN Torn ELSE data[i]]
    /\ db' = {} /\ loaded' = FALSE
    /\ call' = [c \in Callers |-> Quiet]
    /\ told' = {} /\ harm' = {}
    /\ scarred' = (scarred \/ harm # {})
    /\ UNCHANGED <<file, tmp, acked>>

-----------------------------------------------------------------------------
(* What the store keeps *)

(* A change that this process has acknowledged is there for every later    *)
(* method of it, unless two first calls loaded the file at the same time.  *)
AcknowledgedVisible == "load" \notin harm => told \subseteq db

(* Every change ever acknowledged is in the file, whatever writes and      *)
(* renames fail and whenever the process dies, unless two loads or two     *)
(* flushes overlapped or a file that was there could not be read.          *)
AcknowledgedDurable ==
    harm = {} /\ ~scarred /\ acked # {} => Disk \notin {Blank, Torn} /\ acked \subseteq Disk

(* A flush that runs alone repairs whatever overlapping ones have done to  *)
(* the files: after its rename, all that this process acknowledged is on   *)
(* disk (if no two loads overlapped).                                      *)
SoloFlushRepairs ==
    [][\A c \in Callers :
         call[c].step = "rename" /\ call[c].alone /\ call'[c].step \in {"ok", "act"}
           => /\ file' # None /\ data'[file'] \notin {Blank, Torn}
              /\ "load" \notin harm => told' \subseteq data'[file']]_fileVars

-----------------------------------------------------------------------------
(* The inductive invariant behind these properties *)

(* Locals are set where they are used, and a flush writes its own change. *)
LocalsSet ==
    \A c \in Callers :
        /\ call[c].step # "idle" => call[c].op \in Ops /\ call[c].n # 0
        /\ call[c].step = "parse" => call[c].raw # None
        /\ Flushing(c) => call[c].raw \in SUBSET Changes
        /\ Flushing(c) /\ ~call[c].loading => Change(c) \in call[c].raw

(* What is changed or acknowledged is changed or acknowledged by callers   *)
(* that found the database loaded, or loaded it; and the two names never   *)
(* point to one inode.                                                     *)
LoadedFirst ==
    /\ \A c \in Callers :
         call[c].step = "act" \/ (Flushing(c) /\ ~call[c].loading) => loaded
    /\ told # {} => loaded
    /\ tmp # None => tmp # file

(* Without overlapping loads: one caller loads, before anything is told,   *)
(* and what is told or about to be stays in memory.                        *)
OneLoad ==
    "load" \notin harm =>
        /\ \A c, d \in Callers : Loading(c) /\ Loading(d) => c = d
        /\ \A c \in Callers : Loading(c) => ~loaded
        /\ \A c \in Callers : Flushing(c) /\ ~call[c].loading => Change(c) \in db
        /\ told \subseteq db

(* A flush that no other has overlapped has the temporary file to itself.  *)
OneFlush ==
    \A c \in Callers : Flushing(c) /\ call[c].alone =>
        /\ \A d \in Callers : Flushing(d) => c = d
        /\ call[c].step # "open" => call[c].inode = tmp
        /\ call[c].step = "write" => data[tmp] = Blank
        /\ call[c].step = "rename" => data[tmp] = call[c].raw
        /\ "load" \notin harm => told \subseteq call[c].raw

(* While nothing has gone wrong: the file, what was read from it, the      *)
(* database in memory and what is about to be written hold everything that *)
(* was ever acknowledged.                                                  *)
NothingLost ==
    harm = {} /\ ~scarred =>
        /\ acked # {} => Disk \notin {Blank, Torn} /\ acked \subseteq Disk
        /\ loaded => acked \subseteq db
        /\ \A c \in Callers :
             /\ call[c].step = "parse" => call[c].raw = Disk
             /\ Flushing(c) => call[c].alone
             /\ Flushing(c) /\ call[c].loading => acked = {}
             /\ Flushing(c) /\ ~call[c].loading => acked \subseteq call[c].raw

FileInv ==
    FileTypeOK /\ LocalsSet /\ LoadedFirst /\ OneLoad /\ OneFlush /\ NothingLost

=============================================================================
