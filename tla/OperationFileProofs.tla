------------------------- MODULE OperationFileProofs -------------------------
(***************************************************************************)
(* Proofs about OperationFile, for any callers, operations and faults:     *)
(* FileInv is kept by every step of the store and by a restart, it implies *)
(* that what was acknowledged is visible and durable, and a flush that no  *)
(* other has overlapped repairs the file.                                  *)
(***************************************************************************)
EXTENDS OperationFile, FiniteSetTheorems, TLAPS

LEMMA QuietType == Quiet \in MethodCalls
BY FileAssumption DEF Quiet, MethodCalls, Steps, Methods, Contents

LEMMA ContentsFacts ==
    /\ None \notin Contents /\ {} \in Contents /\ Blank \in Contents /\ Torn \in Contents
    /\ \A s \in SUBSET Changes : s \in Contents /\ s # None /\ s # Blank /\ s # Torn
    /\ \A s \in Contents : s \in {Blank, Torn} \/ s \in SUBSET Changes
BY FileAssumption DEF Contents

LEMMA DiskType == ASSUME FileTypeOK PROVE Disk \in Contents
BY ContentsFacts DEF FileTypeOK, Disk

(* A call that moves leaves the others alone. *)
LEMMA Moved ==
    ASSUME FileTypeOK, NEW c \in Callers, NEW x, call' = [call EXCEPT ![c] = x]
    PROVE  call'[c] = x /\ \A d \in Callers \ {c} : call'[d] = call[d]
BY DEF FileTypeOK

LEMMA ReachMoves ==
    ASSUME FileTypeOK, NEW c \in Callers, NEW step \in Steps, Reach(c, step)
    PROVE  /\ call'[c] = [call[c] EXCEPT !.step = step]
           /\ call' = [call EXCEPT ![c] = [call[c] EXCEPT !.step = step]]
BY DEF FileTypeOK, Reach

LEMMA ChangeType ==
    ASSUME FileTypeOK, LocalsSet, NEW c \in Callers, call[c].step # "idle"
    PROVE  Change(c) \in Changes
<1>1. call[c] \in MethodCalls
  BY DEF FileTypeOK
<1>2. call[c].op \in Ops /\ call[c].n \in 1 .. MaxMethods
  BY <1>1, FileAssumption DEF LocalsSet, MethodCalls
<1>. QED
  BY <1>2 DEF Change, Changes

LEMMA OpenedType ==
    ASSUME NEW x \in MethodCalls, NEW contents \in SUBSET Changes,
           NEW loading \in BOOLEAN, NEW alone \in BOOLEAN
    PROVE  /\ [x EXCEPT !.step = "open", !.raw = contents, !.loading = loading,
                        !.alone = alone] \in MethodCalls
           /\ [x EXCEPT !.alone = alone] \in MethodCalls
<1>1. contents \in {None} \cup Contents /\ "open" \in Steps
  BY ContentsFacts DEF Steps
<1>2. [x EXCEPT !.step = "open", !.raw = contents, !.loading = loading] \in MethodCalls
  BY <1>1 DEF MethodCalls
<1>3. \A y \in MethodCalls : [y EXCEPT !.alone = alone] \in MethodCalls
  BY DEF MethodCalls
<1>4. [x EXCEPT !.step = "open", !.raw = contents, !.loading = loading, !.alone = alone]
        = [[x EXCEPT !.step = "open", !.raw = contents, !.loading = loading] EXCEPT !.alone = alone]
  OBVIOUS
<1>. QED
  BY <1>2, <1>3, <1>4

LEMMA FailedType ==
    ASSUME FileTypeOK, NEW c \in Callers
    PROVE  Failed(c) \in MethodCalls /\ Failed(c).inode = None /\ Failed(c).step = "threw"
<1>1. call[c] \in MethodCalls
  BY DEF FileTypeOK
<1>. QED
  BY <1>1 DEF Failed, MethodCalls, Steps

(* A flush begins: the caller's own locals, those of the others, and what  *)
(* an overlap means for both. *)
LEMMA FlushFields ==
    ASSUME FileTypeOK, NEW c \in Callers, NEW contents \in SUBSET Changes,
           NEW loading \in BOOLEAN, Flush(c, contents, loading)
    PROVE  /\ call' \in [Callers -> MethodCalls]
           /\ call'[c] = [call[c] EXCEPT !.step = "open", !.raw = contents, !.loading = loading,
                                         !.alone = \A d \in Callers \ {c} : ~Flushing(d)]
           /\ \A d \in Callers \ {c} :
                call'[d] = [call[d] EXCEPT !.alone = call[d].alone /\ ~Flushing(d)]
           /\ harm' \in SUBSET Harms
           /\ "load" \in harm' <=> "load" \in harm
           /\ harm' = {} => harm = {} /\ \A d \in Callers \ {c} : ~Flushing(d)
<1> DEFINE others == {d \in Callers \ {c} : Flushing(d)}
<1>1. /\ call' = [d \in Callers |->
                    IF d = c
                    THEN [call[c] EXCEPT !.step = "open", !.raw = contents,
                                         !.loading = loading, !.alone = others = {}]
                    ELSE [call[d] EXCEPT !.alone = call[d].alone /\ d \notin others]]
      /\ harm' = IF others = {} THEN harm ELSE harm \cup {"flush"}
  BY DEF Flush
<1>2. (others = {}) = \A d \in Callers \ {c} : ~Flushing(d)
  OBVIOUS
<1>3. \A d \in Callers \ {c} : (d \notin others) = ~Flushing(d)
  BY DEF Flushing
<1> HIDE DEF others
<1>4. call'[c] = [call[c] EXCEPT !.step = "open", !.raw = contents, !.loading = loading,
                                 !.alone = \A d \in Callers \ {c} : ~Flushing(d)]
  BY <1>1, <1>2
<1>5. ASSUME NEW d \in Callers \ {c}
      PROVE  call'[d] = [call[d] EXCEPT !.alone = call[d].alone /\ ~Flushing(d)]
  BY <1>1, <1>3
<1>6. call' \in [Callers -> MethodCalls]
  <2>1. contents \in {None} \cup Contents /\ "open" \in Steps
    BY ContentsFacts DEF Steps
  <2>2. PICK b \in BOOLEAN : b = \A d \in Callers \ {c} : ~Flushing(d)
    OBVIOUS
  <2>3. call'[c] = [call[c] EXCEPT !.step = "open", !.raw = contents, !.loading = loading,
                                   !.alone = b]
    BY <1>4, <2>2
  <2>6. call'[c] \in MethodCalls
    <3>1. call[c] \in MethodCalls
      BY DEF FileTypeOK
    <3>2. [call[c] EXCEPT !.step = "open", !.raw = contents, !.loading = loading, !.alone = b]
            \in MethodCalls
      BY <3>1, OpenedType
    <3>. QED
      BY <2>3, <3>2
  <2>4. ASSUME NEW d \in Callers \ {c} PROVE call'[d] \in MethodCalls
    <3>1. PICK b2 \in BOOLEAN : b2 = (call[d].alone /\ ~Flushing(d))
      OBVIOUS
    <3>2. call'[d] = [call[d] EXCEPT !.alone = b2]
      BY <1>5, <3>1
    <3>3. call[d] \in MethodCalls
      BY DEF FileTypeOK
    <3>4. [call[d] EXCEPT !.alone = b2] \in MethodCalls
      BY <3>3, OpenedType
    <3>. QED
      BY <3>2, <3>4
  <2>5. call' = [d \in Callers |-> call'[d]]
    BY <1>1
  <2>. QED
    BY <2>6, <2>4, <2>5
<1>7. /\ harm' \in SUBSET Harms
      /\ "load" \in harm' <=> "load" \in harm
      /\ harm' = {} => harm = {} /\ \A d \in Callers \ {c} : ~Flushing(d)
  BY <1>1, <1>2 DEF FileTypeOK, Harms
<1>. QED
  BY <1>4, <1>5, <1>6, <1>7

LEMMA InitInv == FileInit => FileInv
<1> SUFFICES ASSUME FileInit PROVE FileInv
  OBVIOUS
<1> USE FileAssumption DEF FileInit
<1>1. /\ Quiet.step = "idle" /\ Quiet.inode = None
      /\ \A c \in Callers : call[c] = Quiet
  BY DEF Quiet
<1>2. FileTypeOK
  BY <1>1, QuietType DEF FileTypeOK, Contents
<1>3. \A c \in Callers : ~Flushing(c) /\ ~Loading(c)
  BY <1>1 DEF Flushing, Loading
<1>4. LocalsSet /\ LoadedFirst /\ OneLoad /\ OneFlush /\ NothingLost
  BY <1>1, <1>3 DEF LocalsSet, LoadedFirst, OneLoad, OneFlush, NothingLost
<1>. QED
  BY <1>2, <1>4 DEF FileInv

LEMMA EnterStep ==
    ASSUME FileInv, NEW c \in Callers, NEW method \in Methods, NEW o \in Ops, Enter(c, method, o) PROVE FileInv'
<1>1. FileTypeOK'
  <2>1. call[c].n + 1 \in 0 .. MaxMethods /\ call[c] \in MethodCalls
    BY FileAssumption DEF FileInv, FileTypeOK, Enter, MethodCalls
  <2>2. [Quiet EXCEPT !.step = IF loaded THEN "act" ELSE "load",
                      !.method = method, !.op = o, !.n = call[c].n + 1] \in MethodCalls
    BY <2>1, QuietType DEF MethodCalls, Steps
  <2>3. call' \in [Callers -> MethodCalls]
    BY <2>2 DEF FileInv, FileTypeOK, Enter
  <2>4. \A d \in Callers : call'[d].inode # None <=> call'[d].step \in {"write", "rename"}
    BY DEF FileInv, FileTypeOK, Enter, Quiet
  <2>5. harm' \in SUBSET Harms
    BY DEF FileInv, FileTypeOK, Enter, Harms
  <2>. QED
    BY <2>3, <2>4, <2>5 DEF FileInv, FileTypeOK, Enter
<1>2. LocalsSet'
  BY FileAssumption, ContentsFacts, DiskType, QuietType DEF FileInv, FileTypeOK, Enter, Flushing, Loading, Change, MethodCalls, Disk, Quiet, LocalsSet
<1>3. LoadedFirst'
  BY FileAssumption, ContentsFacts, DiskType, QuietType DEF FileInv, FileTypeOK, Enter, Flushing, Loading, Change, MethodCalls, Disk, Quiet, LoadedFirst
<1>4. OneLoad'
  BY FileAssumption, ContentsFacts, DiskType, QuietType DEF FileInv, FileTypeOK, Enter, Flushing, Loading, Change, MethodCalls, Disk, Quiet, OneLoad
<1>5. OneFlush'
  BY FileAssumption, ContentsFacts, DiskType, QuietType DEF FileInv, FileTypeOK, Enter, Flushing, Loading, Change, MethodCalls, Disk, Quiet, OneFlush
<1>6. NothingLost'
  BY FileAssumption, ContentsFacts, DiskType, QuietType DEF FileInv, FileTypeOK, Enter, Flushing, Loading, Change, MethodCalls, Disk, Quiet, NothingLost
<1>. QED
  BY <1>1, <1>2, <1>3, <1>4, <1>5, <1>6 DEF FileInv

LEMMA ReadFileStep ==
    ASSUME FileInv, NEW c \in Callers, ReadFile(c) PROVE FileInv'
<1>1. FileTypeOK'
  BY FileAssumption, ContentsFacts, DiskType DEF FileInv, FileTypeOK, ReadFile, Flushing, Loading, Change, MethodCalls, Disk, Steps, Methods, Harms, Contents
<1>2. LocalsSet'
  BY FileAssumption, ContentsFacts, DiskType DEF FileInv, FileTypeOK, ReadFile, Flushing, Loading, Change, MethodCalls, Disk, LocalsSet
<1>3. LoadedFirst'
  BY FileAssumption, ContentsFacts, DiskType DEF FileInv, FileTypeOK, ReadFile, Flushing, Loading, Change, MethodCalls, Disk, LoadedFirst
<1>4. OneLoad'
  BY FileAssumption, ContentsFacts, DiskType DEF FileInv, FileTypeOK, ReadFile, Flushing, Loading, Change, MethodCalls, Disk, OneLoad
<1>5. OneFlush'
  BY FileAssumption, ContentsFacts, DiskType DEF FileInv, FileTypeOK, ReadFile, Flushing, Loading, Change, MethodCalls, Disk, OneFlush
<1>6. NothingLost'
  BY FileAssumption, ContentsFacts, DiskType DEF FileInv, FileTypeOK, ReadFile, Flushing, Loading, Change, MethodCalls, Disk, NothingLost
<1>. QED
  BY <1>1, <1>2, <1>3, <1>4, <1>5, <1>6 DEF FileInv

LEMMA LoadStep ==
    ASSUME FileInv, NEW c \in Callers, Load(c) PROVE FileInv'
<1>1. FileTypeOK'
  <2>1. call[c] \in MethodCalls /\ db' = call[c].raw /\ db' \in SUBSET Changes
    BY ContentsFacts DEF FileInv, FileTypeOK, Load, LocalsSet, MethodCalls
  <2>2. [call[c] EXCEPT !.step = "act"] \in MethodCalls
    BY <2>1 DEF MethodCalls, Steps
  <2>3. call' = [call EXCEPT ![c] = [call[c] EXCEPT !.step = "act"]]
    BY DEF Load, Reach, FileInv, FileTypeOK
  <2>. QED
    BY <2>1, <2>2, <2>3 DEF FileInv, FileTypeOK, Load
<1>2. LocalsSet'
  BY FileAssumption, ContentsFacts, DiskType DEF FileInv, FileTypeOK, Load, Flushing, Loading, Change, MethodCalls, Disk, Reach, LocalsSet
<1>3. LoadedFirst'
  BY FileAssumption, ContentsFacts, DiskType DEF FileInv, FileTypeOK, Load, Flushing, Loading, Change, MethodCalls, Disk, Reach, LoadedFirst
<1>4. OneLoad'
  BY FileAssumption, ContentsFacts, DiskType DEF FileInv, FileTypeOK, Load, Flushing, Loading, Change, MethodCalls, Disk, Reach, OneLoad, LoadedFirst
<1>5. OneFlush'
  BY FileAssumption, ContentsFacts, DiskType DEF FileInv, FileTypeOK, Load, Flushing, Loading, Change, MethodCalls, Disk, Reach, OneFlush
<1>6. NothingLost'
  <2>1. /\ Loading(c) /\ call[c].step = "parse" /\ call[c].raw \notin {Blank, Torn}
        /\ db' = call[c].raw /\ loaded' = TRUE
        /\ Disk' = Disk /\ acked' = acked /\ harm' = harm /\ scarred' = scarred
        /\ call'[c].step = "act"
        /\ \A d \in Callers \ {c} : call'[d] = call[d]
    BY Moved, ReachMoves DEF FileInv, FileTypeOK, Load, Loading, Disk, Steps, Reach
  <2>2. harm = {} => \A d \in Callers : ~Flushing(d)
    BY <2>1 DEF FileInv, OneLoad, LoadedFirst, Loading, Flushing
  <2>3. \A d \in Callers : Flushing(d)' => Flushing(d)
    BY <2>1 DEF Flushing
  <2>4. ~Flushing(c)'
    BY <2>1 DEF Flushing
  <2>. QED
    BY <2>1, <2>2, <2>3, <2>4 DEF FileInv, NothingLost
<1>. QED
  BY <1>1, <1>2, <1>3, <1>4, <1>5, <1>6 DEF FileInv

LEMMA StartEmptyStep ==
    ASSUME FileInv, NEW c \in Callers, StartEmpty(c) PROVE FileInv'
<1>1. FileTypeOK /\ LocalsSet /\ LoadedFirst /\ OneLoad /\ OneFlush /\ NothingLost
  BY DEF FileInv
<1>2. /\ call' \in [Callers -> MethodCalls]
      /\ call'[c] = [call[c] EXCEPT !.step = "open", !.raw = db', !.loading = TRUE,
                                    !.alone = \A d \in Callers \ {c} : ~Flushing(d)]
      /\ \A d \in Callers \ {c} :
           call'[d] = [call[d] EXCEPT !.alone = call[d].alone /\ ~Flushing(d)]
      /\ harm' \in SUBSET Harms
      /\ "load" \in harm' <=> "load" \in harm
      /\ harm' = {} => harm = {} /\ \A d \in Callers \ {c} : ~Flushing(d)
  <2>1. db' \in SUBSET Changes /\ Flush(c, db', TRUE)
    BY <1>1 DEF StartEmpty, FileTypeOK
  <2>. QED
    BY <1>1, <2>1, FlushFields
<1>3. /\ call[c] \in MethodCalls /\ call[c].inode = None
      /\ \A d \in Callers : call[d] \in MethodCalls
  BY <1>1 DEF FileTypeOK, StartEmpty
<1>4. /\ call'[c].step = "open" /\ call'[c].raw = db' /\ call'[c].loading = TRUE
      /\ call'[c].op = call[c].op /\ call'[c].n = call[c].n /\ call'[c].inode = None
      /\ call'[c].alone <=> \A d \in Callers \ {c} : ~Flushing(d)
  BY <1>2, <1>3 DEF MethodCalls
<1>5. \A d \in Callers \ {c} :
        /\ call'[d].step = call[d].step /\ call'[d].raw = call[d].raw
        /\ call'[d].loading = call[d].loading /\ call'[d].op = call[d].op
        /\ call'[d].n = call[d].n /\ call'[d].inode = call[d].inode
        /\ call'[d].alone <=> call[d].alone /\ ~Flushing(d)
  BY <1>2, <1>3 DEF MethodCalls
<1>6. /\ db' \in SUBSET Changes
      /\ file' = file /\ tmp' = tmp /\ data' = data /\ loaded' = loaded
      /\ told' = told /\ acked' = acked /\ scarred' = scarred
  BY <1>1 DEF StartEmpty, FileTypeOK
<1>7. /\ Flushing(c)'
      /\ \A d \in Callers \ {c} : Flushing(d)' <=> Flushing(d)
      /\ \A d \in Callers \ {c} : Loading(d)' <=> Loading(d)
      /\ \A d \in Callers : Change(d)' = Change(d)
      /\ Disk' = Disk
  BY <1>4, <1>5, <1>6 DEF Flushing, Loading, Change, Disk
<1>8. FileTypeOK'
  <2>1. \A d \in Callers : call'[d].inode # None <=> call'[d].step \in {"write", "rename"}
    BY <1>1, <1>4, <1>5 DEF FileTypeOK
  <2>. QED
    BY <1>1, <1>2, <1>6, <2>1 DEF FileTypeOK
<1>9. LocalsSet'
  BY <1>1, <1>4, <1>5, <1>6, <1>7 DEF LocalsSet, StartEmpty
<1>10. LoadedFirst'
  BY <1>1, <1>4, <1>5, <1>6, <1>7 DEF LoadedFirst
<1>11. OneLoad'
  <2>1. Loading(c)
    BY DEF StartEmpty, Loading
  <2>2. db' = {}
    BY DEF StartEmpty
  <2>. QED
    BY <1>1, <1>2, <1>4, <1>5, <1>6, <1>7, <2>1, <2>2 DEF OneLoad, LoadedFirst
<1>12. OneFlush'
  <2>1. Loading(c)
    BY DEF StartEmpty, Loading
  <2>. QED
    BY <1>1, <1>2, <1>4, <1>5, <1>6, <1>7, <2>1 DEF OneFlush, OneLoad, LoadedFirst
<1>13. NothingLost'
  <2>1. Loading(c) /\ call[c].step = "parse" /\ call[c].raw \in {Blank, Torn}
    BY DEF StartEmpty, Loading
  <2>2. harm' = {} /\ ~scarred' => harm = {} /\ ~scarred /\ ~loaded /\ acked = {}
    BY <1>1, <1>2, <1>6, <2>1 DEF NothingLost, OneLoad
  <2>3. harm' = {} => \A d \in Callers \ {c} : ~Flushing(d)'
    BY <1>2, <1>7
  <2>4. call'[c].step = "open" /\ call'[c].loading /\ (harm' = {} => call'[c].alone)
    BY <1>2, <1>4
  <2>5. \A d \in Callers \ {c} : call'[d].step = call[d].step /\ call'[d].raw = call[d].raw
    BY <1>5
  <2>6. harm' = {} /\ ~scarred' => \A d \in Callers : call[d].step = "parse" => call[d].raw = Disk
    BY <1>1, <2>2 DEF NothingLost
  <2>. QED
    BY <1>6, <1>7, <2>2, <2>3, <2>4, <2>5, <2>6 DEF NothingLost
<1>. QED
  BY <1>8, <1>9, <1>10, <1>11, <1>12, <1>13 DEF FileInv

LEMMA FindStep ==
    ASSUME FileInv, NEW c \in Callers, Find(c) PROVE FileInv'
<1>1. FileTypeOK'
  BY FileAssumption, ContentsFacts, DiskType DEF FileInv, FileTypeOK, Find, Flushing, Loading, Change, MethodCalls, Disk, Reach, Steps, Methods, Harms, Contents
<1>2. LocalsSet'
  BY FileAssumption, ContentsFacts, DiskType DEF FileInv, FileTypeOK, Find, Flushing, Loading, Change, MethodCalls, Disk, Reach, LocalsSet
<1>3. LoadedFirst'
  BY FileAssumption, ContentsFacts, DiskType DEF FileInv, FileTypeOK, Find, Flushing, Loading, Change, MethodCalls, Disk, Reach, LoadedFirst
<1>4. OneLoad'
  BY FileAssumption, ContentsFacts, DiskType DEF FileInv, FileTypeOK, Find, Flushing, Loading, Change, MethodCalls, Disk, Reach, OneLoad
<1>5. OneFlush'
  BY FileAssumption, ContentsFacts, DiskType DEF FileInv, FileTypeOK, Find, Flushing, Loading, Change, MethodCalls, Disk, Reach, OneFlush
<1>6. NothingLost'
  BY FileAssumption, ContentsFacts, DiskType DEF FileInv, FileTypeOK, Find, Flushing, Loading, Change, MethodCalls, Disk, Reach, NothingLost
<1>. QED
  BY <1>1, <1>2, <1>3, <1>4, <1>5, <1>6 DEF FileInv

LEMMA NotFoundStep ==
    ASSUME FileInv, NEW c \in Callers, NotFound(c) PROVE FileInv'
<1>1. FileTypeOK'
  BY FileAssumption, ContentsFacts, DiskType DEF FileInv, FileTypeOK, NotFound, Flushing, Loading, Change, MethodCalls, Disk, Reach, Steps, Methods, Harms, Contents
<1>2. LocalsSet'
  BY FileAssumption, ContentsFacts, DiskType DEF FileInv, FileTypeOK, NotFound, Flushing, Loading, Change, MethodCalls, Disk, Reach, LocalsSet
<1>3. LoadedFirst'
  BY FileAssumption, ContentsFacts, DiskType DEF FileInv, FileTypeOK, NotFound, Flushing, Loading, Change, MethodCalls, Disk, Reach, LoadedFirst
<1>4. OneLoad'
  BY FileAssumption, ContentsFacts, DiskType DEF FileInv, FileTypeOK, NotFound, Flushing, Loading, Change, MethodCalls, Disk, Reach, OneLoad
<1>5. OneFlush'
  BY FileAssumption, ContentsFacts, DiskType DEF FileInv, FileTypeOK, NotFound, Flushing, Loading, Change, MethodCalls, Disk, Reach, OneFlush
<1>6. NothingLost'
  BY FileAssumption, ContentsFacts, DiskType DEF FileInv, FileTypeOK, NotFound, Flushing, Loading, Change, MethodCalls, Disk, Reach, NothingLost
<1>. QED
  BY <1>1, <1>2, <1>3, <1>4, <1>5, <1>6 DEF FileInv

LEMMA MutateStep ==
    ASSUME FileInv, NEW c \in Callers, Mutate(c) PROVE FileInv'
<1>1. FileTypeOK /\ LocalsSet /\ LoadedFirst /\ OneLoad /\ OneFlush /\ NothingLost
  BY DEF FileInv
<1>2. /\ call' \in [Callers -> MethodCalls]
      /\ call'[c] = [call[c] EXCEPT !.step = "open", !.raw = db', !.loading = FALSE,
                                    !.alone = \A d \in Callers \ {c} : ~Flushing(d)]
      /\ \A d \in Callers \ {c} :
           call'[d] = [call[d] EXCEPT !.alone = call[d].alone /\ ~Flushing(d)]
      /\ harm' \in SUBSET Harms
      /\ "load" \in harm' <=> "load" \in harm
      /\ harm' = {} => harm = {} /\ \A d \in Callers \ {c} : ~Flushing(d)
  <2>1. db' \in SUBSET Changes /\ Flush(c, db', FALSE)
    BY <1>1, ChangeType DEF Mutate, FileTypeOK
  <2>. QED
    BY <1>1, <2>1, FlushFields
<1>3. /\ call[c] \in MethodCalls /\ call[c].inode = None
      /\ \A d \in Callers : call[d] \in MethodCalls
  BY <1>1 DEF FileTypeOK, Mutate
<1>4. /\ call'[c].step = "open" /\ call'[c].raw = db' /\ call'[c].loading = FALSE
      /\ call'[c].op = call[c].op /\ call'[c].n = call[c].n /\ call'[c].inode = None
      /\ call'[c].alone <=> \A d \in Callers \ {c} : ~Flushing(d)
  BY <1>2, <1>3 DEF MethodCalls
<1>5. \A d \in Callers \ {c} :
        /\ call'[d].step = call[d].step /\ call'[d].raw = call[d].raw
        /\ call'[d].loading = call[d].loading /\ call'[d].op = call[d].op
        /\ call'[d].n = call[d].n /\ call'[d].inode = call[d].inode
        /\ call'[d].alone <=> call[d].alone /\ ~Flushing(d)
  BY <1>2, <1>3 DEF MethodCalls
<1>6. /\ db' \in SUBSET Changes
      /\ file' = file /\ tmp' = tmp /\ data' = data /\ loaded' = loaded
      /\ told' = told /\ acked' = acked /\ scarred' = scarred
  BY <1>1, ChangeType DEF Mutate, FileTypeOK
<1>7. /\ Flushing(c)'
      /\ \A d \in Callers \ {c} : Flushing(d)' <=> Flushing(d)
      /\ \A d \in Callers \ {c} : Loading(d)' <=> Loading(d)
      /\ \A d \in Callers : Change(d)' = Change(d)
      /\ Disk' = Disk
  BY <1>4, <1>5, <1>6 DEF Flushing, Loading, Change, Disk
<1>8. FileTypeOK'
  <2>1. \A d \in Callers : call'[d].inode # None <=> call'[d].step \in {"write", "rename"}
    BY <1>1, <1>4, <1>5 DEF FileTypeOK
  <2>. QED
    BY <1>1, <1>2, <1>6, <2>1 DEF FileTypeOK
<1>9. LocalsSet'
  BY <1>1, <1>4, <1>5, <1>6, <1>7 DEF LocalsSet, Mutate
<1>10. LoadedFirst'
  BY <1>1, <1>4, <1>5, <1>6, <1>7 DEF LoadedFirst, Mutate
<1>11. OneLoad'
  <2>1. loaded /\ db' = db \cup {Change(c)}
    BY <1>1 DEF Mutate, LoadedFirst
  <2>2. ~Loading(c)'
    BY <1>4 DEF Loading, Flushing
  <2>3. SUFFICES ASSUME "load" \notin harm' PROVE OneLoad'
    BY DEF OneLoad
  <2>4. \A d \in Callers : ~Loading(d)
    BY <1>1, <1>2, <2>1, <2>3 DEF OneLoad
  <2>5. \A d \in Callers : ~Loading(d)'
    BY <1>7, <2>2, <2>4
  <2>6. ASSUME NEW d \in Callers, Flushing(d)', ~call'[d].loading PROVE Change(d)' \in db'
    <3>1. CASE d = c
      BY <1>7, <2>1, <3>1
    <3>2. CASE d # c
      BY <1>1, <1>2, <1>5, <1>7, <2>1, <2>3, <2>6, <3>2 DEF OneLoad
    <3>. QED
      BY <3>1, <3>2
  <2>7. told' \subseteq db'
    BY <1>1, <1>2, <1>6, <2>1, <2>3 DEF OneLoad
  <2>. QED
    BY <2>5, <2>6, <2>7 DEF OneLoad
<1>12. OneFlush'
  <2>1. db \subseteq db'
    BY DEF Mutate
  <2>2. \A d \in Callers \ {c} : ~(Flushing(d)' /\ call'[d].alone)
    BY <1>5, <1>7
  <2>3. call'[c].alone => \A d \in Callers \ {c} : ~Flushing(d)'
    BY <1>4, <1>7
  <2>4. "load" \notin harm' => told' \subseteq call'[c].raw
    BY <1>1, <1>2, <1>4, <1>6, <2>1 DEF OneLoad
  <2>. QED
    BY <1>4, <2>2, <2>3, <2>4 DEF OneFlush
<1>13. NothingLost'
  <2>1. loaded /\ db' = db \cup {Change(c)}
    BY <1>1 DEF Mutate, LoadedFirst
  <2>2. harm' = {} => \A d \in Callers \ {c} : ~Flushing(d)'
    BY <1>2, <1>7
  <2>3. harm' = {} /\ ~scarred' => harm = {} /\ ~scarred
    BY <1>2, <1>6
  <2>4. harm' = {} /\ ~scarred' =>
          \A d \in Callers \ {c} : call'[d].step = "parse" => call'[d].raw = Disk'
    BY <1>1, <1>5, <1>7, <2>3 DEF NothingLost
  <2>5. /\ call'[c].step = "open" /\ (harm' = {} => call'[c].alone) /\ ~call'[c].loading
        /\ call'[c].raw = db' /\ Change(c)' \in db'
    BY <1>2, <1>4, <1>7, <2>1
  <2>6. harm' = {} /\ ~scarred' =>
          /\ acked' # {} => Disk' \notin {Blank, Torn} /\ acked' \subseteq Disk'
          /\ acked' \subseteq db'
    BY <1>1, <1>6, <1>7, <2>1, <2>3 DEF NothingLost
  <2>. QED
    BY <2>2, <2>4, <2>5, <2>6 DEF NothingLost
<1>. QED
  BY <1>8, <1>9, <1>10, <1>11, <1>12, <1>13 DEF FileInv

(* There are more inodes than a name and the open files need. *)
LEMMA FreeInode == ASSUME FileTypeOK, tmp = None PROVE \E i \in Inodes : Free(i)
<1> DEFINE Opened == {call[d].inode : d \in Callers}
           opened == [d \in Callers |-> call[d].inode]
<1>1. IsFiniteSet(Callers) /\ IsFiniteSet(Inodes) /\ Cardinality(Inodes) > Cardinality(Callers) + 1
  BY FileAssumption
<1>2. opened \in Surjection(Callers, Opened)
  BY DEF Surjection
<1>3. IsFiniteSet(Opened) /\ Cardinality(Opened) <= Cardinality(Callers)
  BY <1>1, <1>2, FS_Surjection
<1>4. /\ IsFiniteSet(Opened \cup {file})
      /\ Cardinality(Opened \cup {file}) <= Cardinality(Opened) + 1
  <2> HIDE DEF Opened
  <2>1. Cardinality(Opened) \in Nat
    BY <1>3, FS_CardinalityType
  <2>2. /\ IsFiniteSet(Opened \cup {file})
        /\ Cardinality(Opened \cup {file}) =
             IF file \in Opened THEN Cardinality(Opened) ELSE Cardinality(Opened) + 1
    BY <1>3, FS_AddElement
  <2>. QED
    BY <2>1, <2>2
<1>5. ~(Inodes \subseteq Opened \cup {file})
  <2>1. Cardinality(Callers) \in Nat /\ Cardinality(Inodes) \in Nat
        /\ Cardinality(Opened) \in Nat /\ Cardinality(Opened \cup {file}) \in Nat
    BY <1>1, <1>3, <1>4, FS_CardinalityType
  <2>2. Inodes \subseteq Opened \cup {file} => Cardinality(Inodes) <= Cardinality(Opened \cup {file})
    BY <1>4, FS_Subset
  <2>. QED
    BY <1>1, <1>3, <1>4, <2>1, <2>2
<1>6. PICK i \in Inodes : i \notin Opened \cup {file}
  BY <1>5
<1>7. i # None
  BY FileAssumption
<1>. QED
  BY <1>6, <1>7 DEF Free

(* What Open does, without the choice of the inode. *)
LEMMA OpenFields ==
    ASSUME FileTypeOK, NEW c \in Callers, Open(c)
    PROVE  /\ call[c].step = "open" /\ call[c].inode = None
           /\ tmp' \in Inodes /\ tmp' # None
           /\ (tmp = None => tmp' # file) /\ (tmp # None => tmp' = tmp)
           /\ data' = [data EXCEPT ![tmp'] = Blank]
           /\ call'[c] = [call[c] EXCEPT !.step = "write", !.inode = tmp']
           /\ call' = [call EXCEPT ![c] = [call[c] EXCEPT !.step = "write", !.inode = tmp']]
           /\ call'[c] \in MethodCalls
           /\ \A d \in Callers \ {c} : call'[d] = call[d]
           /\ UNCHANGED <<file, db, loaded, told, acked, harm, scarred>>
<1>1. call[c] \in MethodCalls /\ call[c].step = "open" /\ call[c].inode = None
  BY DEF FileTypeOK, Open
<1>2. /\ tmp' \in Inodes
      /\ (tmp = None => tmp' # file) /\ (tmp # None => tmp' = tmp)
      /\ data' = [data EXCEPT ![tmp'] = Blank]
      /\ call' = [call EXCEPT ![c].step = "write", ![c].inode = tmp']
  BY FreeInode DEF FileTypeOK, Open, Free
<1>3. call' = [call EXCEPT ![c] = [call[c] EXCEPT !.step = "write", !.inode = tmp']]
  BY <1>2
<1>4. /\ call'[c] = [call[c] EXCEPT !.step = "write", !.inode = tmp']
      /\ \A d \in Callers \ {c} : call'[d] = call[d]
  BY <1>3 DEF FileTypeOK
<1>5. tmp' # None
  BY <1>2, FileAssumption
<1>6. [call[c] EXCEPT !.step = "write", !.inode = tmp'] \in MethodCalls
  BY <1>1, <1>2 DEF MethodCalls, Steps
<1>. QED
  BY <1>1, <1>2, <1>3, <1>4, <1>5, <1>6 DEF Open

LEMMA OpenStep ==
    ASSUME FileInv, NEW c \in Callers, Open(c) PROVE FileInv'
<1>1. FileTypeOK /\ LocalsSet /\ LoadedFirst /\ OneLoad /\ OneFlush /\ NothingLost
  BY DEF FileInv
<1>2. /\ call[c].step = "open" /\ call[c].inode = None
      /\ tmp' \in Inodes /\ tmp' # None
      /\ (tmp = None => tmp' # file) /\ (tmp # None => tmp' = tmp)
      /\ data' = [data EXCEPT ![tmp'] = Blank]
      /\ call' = [call EXCEPT ![c] = [call[c] EXCEPT !.step = "write", !.inode = tmp']]
      /\ call'[c] \in MethodCalls
      /\ \A d \in Callers \ {c} : call'[d] = call[d]
      /\ file' = file /\ db' = db /\ loaded' = loaded /\ told' = told
      /\ acked' = acked /\ harm' = harm /\ scarred' = scarred
  BY <1>1, OpenFields
<1>3. /\ call'[c].step = "write" /\ call'[c].inode = tmp' /\ call'[c].raw = call[c].raw
      /\ call'[c].loading = call[c].loading /\ (call'[c].alone <=> call[c].alone)
      /\ call'[c].op = call[c].op /\ call'[c].n = call[c].n
  <2>1. call[c] \in MethodCalls /\ call'[c] = [call[c] EXCEPT !.step = "write", !.inode = tmp']
    BY <1>1, OpenFields DEF FileTypeOK
  <2>. QED
    BY <2>1 DEF MethodCalls
<1>4. /\ tmp' # file' /\ data'[tmp'] = Blank /\ Disk' = Disk
      /\ \A d \in Callers : Flushing(d)' <=> Flushing(d)
      /\ \A d \in Callers : Loading(d)' <=> Loading(d)
      /\ \A d \in Callers : Change(d)' = Change(d)
  <2>1. tmp' # file'
    BY <1>1, <1>2 DEF LoadedFirst
  <2>2. data'[tmp'] = Blank /\ Disk' = Disk
    BY <1>1, <1>2, <2>1 DEF Disk, FileTypeOK
  <2>. QED
    BY <1>2, <1>3, <2>1, <2>2 DEF Flushing, Loading, Change
<1>5. FileTypeOK'
  <2>1. call' \in [Callers -> MethodCalls] /\ data' \in [Inodes -> Contents]
    BY <1>1, <1>2, <1>3, OpenFields, ContentsFacts DEF FileTypeOK
  <2>2. \A d \in Callers : call'[d].inode # None <=> call'[d].step \in {"write", "rename"}
    BY <1>1, <1>2, <1>3 DEF FileTypeOK
  <2>. QED
    BY <1>1, <1>2, <2>1, <2>2 DEF FileTypeOK
<1>6. LocalsSet'
  <2>1. /\ call[c].op \in Ops /\ call[c].n # 0 /\ call[c].raw \in SUBSET Changes
        /\ ~call[c].loading => Change(c)' \in call[c].raw
    BY <1>4, <1>1, <1>2 DEF LocalsSet, Flushing
  <2>2. \A d \in Callers \ {c} :
          /\ call'[d].step # "idle" => call'[d].op \in Ops /\ call'[d].n # 0
          /\ call'[d].step = "parse" => call'[d].raw # None
          /\ Flushing(d)' => call'[d].raw \in SUBSET Changes
          /\ Flushing(d)' /\ ~call'[d].loading => Change(d)' \in call'[d].raw
    BY <1>1, <1>2, <1>4 DEF LocalsSet
  <2>. QED
    BY <1>3, <2>1, <2>2 DEF LocalsSet
<1>7. LoadedFirst'
  BY <1>1, <1>2, <1>3, <1>4 DEF LoadedFirst, Flushing
<1>8. OneLoad'
  BY <1>1, <1>2, <1>3, <1>4 DEF OneLoad, Flushing
<1>9. OneFlush'
  <2>1. Flushing(c)
    BY <1>2 DEF Flushing
  <2>2. \A d \in Callers \ {c} : ~(Flushing(d)' /\ call'[d].alone)
    BY <1>1, <1>2, <1>4, <2>1 DEF OneFlush
  <2>3. call'[c].alone =>
          /\ \A d \in Callers : Flushing(d)' => c = d
          /\ "load" \notin harm' => told' \subseteq call'[c].raw
    BY <1>1, <1>2, <1>3, <1>4, <2>1 DEF OneFlush
  <2>. QED
    BY <1>3, <1>4, <2>2, <2>3 DEF OneFlush
<1>10. NothingLost'
  <2>1. Flushing(c)
    BY <1>2 DEF Flushing
  <2>. QED
    BY <1>1, <1>2, <1>3, <1>4, <2>1 DEF NothingLost
<1>. QED
  BY <1>5, <1>6, <1>7, <1>8, <1>9, <1>10 DEF FileInv

(* A flush that no other has overlapped writes to the temporary file, so   *)
(* while nothing has gone wrong the file is out of its reach. *)
LEMMA WriterOffFile ==
    ASSUME FileInv, NEW c \in Callers, call[c].step = "write", harm = {}, ~scarred
    PROVE  call[c].inode # file
<1>1. Flushing(c) /\ call[c].alone
  BY DEF Flushing, FileInv, NothingLost
<1>2. call[c].inode = tmp /\ call[c].inode # None
  BY <1>1 DEF FileInv, OneFlush, FileTypeOK
<1>. QED
  BY <1>2 DEF FileInv, LoadedFirst

LEMMA WriteStep ==
    ASSUME FileInv, NEW c \in Callers, Write(c) PROVE FileInv'
<1>1. FileTypeOK /\ LocalsSet /\ LoadedFirst /\ OneLoad /\ OneFlush /\ NothingLost
  BY DEF FileInv
<1>2. call[c].step = "write" /\ Flushing(c) /\ call[c].inode \in Inodes /\ call[c].raw \in SUBSET Changes
  BY <1>1 DEF Write, FileTypeOK, Flushing, LocalsSet, MethodCalls
<1>3. PICK contents \in {call[c].raw, Torn} :
        /\ contents = Torn => data[call[c].inode] # Blank
        /\ data' = [data EXCEPT ![call[c].inode] = contents]
  BY DEF Write
<1>4. /\ call' = [call EXCEPT ![c] = [call[c] EXCEPT !.step = "rename"]]
      /\ call'[c] = [call[c] EXCEPT !.step = "rename"]
      /\ \A d \in Callers \ {c} : call'[d] = call[d]
      /\ file' = file /\ tmp' = tmp /\ db' = db /\ loaded' = loaded
      /\ told' = told /\ acked' = acked /\ harm' = harm /\ scarred' = scarred
  BY <1>1, ReachMoves, Moved DEF Write, Steps
<1>5. /\ call'[c].step = "rename" /\ call'[c].inode = call[c].inode /\ call'[c].raw = call[c].raw
      /\ call'[c].loading = call[c].loading /\ (call'[c].alone <=> call[c].alone)
      /\ call'[c].op = call[c].op /\ call'[c].n = call[c].n
  <2>1. call[c] \in MethodCalls
    BY <1>1 DEF FileTypeOK
  <2>. QED
    BY <1>4, <2>1 DEF MethodCalls
<1>6. /\ \A d \in Callers : Flushing(d)' <=> Flushing(d)
      /\ \A d \in Callers : Loading(d)' <=> Loading(d)
      /\ \A d \in Callers : Change(d)' = Change(d)
  BY <1>2, <1>4, <1>5 DEF Flushing, Loading, Change
<1>7. harm = {} /\ ~scarred => Disk' = Disk
  <2>1. harm = {} /\ ~scarred => call[c].inode # file
    BY <1>2, WriterOffFile
  <2>. QED
    BY <1>1, <1>3, <1>4, <2>1 DEF Disk, FileTypeOK
<1>8. FileTypeOK'
  <2>1. call' \in [Callers -> MethodCalls]
    BY <1>1, <1>4 DEF FileTypeOK, MethodCalls, Steps
  <2>2. data' \in [Inodes -> Contents]
    BY <1>1, <1>2, <1>3, ContentsFacts DEF FileTypeOK
  <2>3. \A d \in Callers : call'[d].inode # None <=> call'[d].step \in {"write", "rename"}
    BY <1>1, <1>2, <1>4, <1>5 DEF FileTypeOK
  <2>. QED
    BY <1>1, <1>4, <2>1, <2>2, <2>3 DEF FileTypeOK
<1>9. LocalsSet'
  BY <1>1, <1>2, <1>4, <1>5, <1>6 DEF LocalsSet
<1>10. LoadedFirst'
  BY <1>1, <1>2, <1>4, <1>5, <1>6 DEF LoadedFirst
<1>11. OneLoad'
  BY <1>1, <1>2, <1>4, <1>5, <1>6 DEF OneLoad
<1>12. OneFlush'
  <2>1. \A d \in Callers \ {c} : ~(Flushing(d)' /\ call'[d].alone)
    BY <1>1, <1>2, <1>4, <1>6 DEF OneFlush
  <2>2. call'[c].alone => data'[tmp'] = call'[c].raw
    BY <1>1, <1>2, <1>3, <1>4, <1>5 DEF OneFlush, FileTypeOK
  <2>3. call'[c].alone =>
          /\ \A d \in Callers : Flushing(d)' => c = d
          /\ call'[c].inode = tmp'
          /\ "load" \notin harm' => told' \subseteq call'[c].raw
    BY <1>1, <1>2, <1>4, <1>5, <1>6 DEF OneFlush
  <2>. QED
    BY <1>5, <2>1, <2>2, <2>3 DEF OneFlush
<1>13. NothingLost'
  BY <1>1, <1>2, <1>4, <1>5, <1>6, <1>7 DEF NothingLost
<1>. QED
  BY <1>8, <1>9, <1>10, <1>11, <1>12, <1>13 DEF FileInv

LEMMA RenamedStep ==
    ASSUME FileInv, NEW c \in Callers, Renamed(c) PROVE FileInv'
<1>1. FileTypeOK'
  BY FileAssumption, ContentsFacts, DiskType, ChangeType DEF FileInv, FileTypeOK, Renamed, Flushing, Loading, Change, MethodCalls, Disk, Steps, Methods, Harms, Contents
<1>2. LocalsSet'
  BY FileAssumption, ContentsFacts, DiskType, ChangeType DEF FileInv, FileTypeOK, Renamed, Flushing, Loading, Change, MethodCalls, Disk, LocalsSet
<1>3. LoadedFirst'
  BY FileAssumption, ContentsFacts, DiskType, ChangeType DEF FileInv, FileTypeOK, Renamed, Flushing, Loading, Change, MethodCalls, Disk, LoadedFirst
<1>4. OneLoad'
  BY FileAssumption, ContentsFacts, DiskType, ChangeType DEF FileInv, FileTypeOK, Renamed, Flushing, Loading, Change, MethodCalls, Disk, OneLoad
<1>5. OneFlush'
  BY FileAssumption, ContentsFacts, DiskType, ChangeType DEF FileInv, FileTypeOK, Renamed, Flushing, Loading, Change, MethodCalls, Disk, OneFlush
<1>6. NothingLost'
  BY FileAssumption, ContentsFacts, DiskType, ChangeType DEF FileInv, FileTypeOK, Renamed, Flushing, Loading, Change, MethodCalls, Disk, NothingLost
<1>. QED
  BY <1>1, <1>2, <1>3, <1>4, <1>5, <1>6 DEF FileInv

LEMMA NothingToRenameStep ==
    ASSUME FileInv, NEW c \in Callers, NothingToRename(c) PROVE FileInv'
<1>1. FileTypeOK'
  <2>1. Failed(c) \in MethodCalls /\ Failed(c).inode = None /\ Failed(c).step = "threw"
    BY FailedType DEF FileInv
  <2>. QED
    BY <2>1 DEF FileInv, FileTypeOK, NothingToRename
<1>2. LocalsSet'
  BY FileAssumption, ContentsFacts, DiskType DEF FileInv, FileTypeOK, NothingToRename, Flushing, Loading, Change, MethodCalls, Disk, Failed, LocalsSet
<1>3. LoadedFirst'
  BY FileAssumption, ContentsFacts, DiskType DEF FileInv, FileTypeOK, NothingToRename, Flushing, Loading, Change, MethodCalls, Disk, Failed, LoadedFirst
<1>4. OneLoad'
  BY FileAssumption, ContentsFacts, DiskType DEF FileInv, FileTypeOK, NothingToRename, Flushing, Loading, Change, MethodCalls, Disk, Failed, OneLoad
<1>5. OneFlush'
  BY FileAssumption, ContentsFacts, DiskType DEF FileInv, FileTypeOK, NothingToRename, Flushing, Loading, Change, MethodCalls, Disk, Failed, OneFlush
<1>6. NothingLost'
  BY FileAssumption, ContentsFacts, DiskType DEF FileInv, FileTypeOK, NothingToRename, Flushing, Loading, Change, MethodCalls, Disk, Failed, NothingLost
<1>. QED
  BY <1>1, <1>2, <1>3, <1>4, <1>5, <1>6 DEF FileInv

LEMMA IoFailsStep ==
    ASSUME FileInv, NEW c \in Callers, IoFails(c) PROVE FileInv'
<1>1. FileTypeOK'
  <2>1. Failed(c) \in MethodCalls /\ Failed(c).inode = None /\ Failed(c).step = "threw"
    BY FailedType DEF FileInv
  <2>. QED
    BY <2>1, ContentsFacts DEF FileInv, FileTypeOK, IoFails
<1>2. LocalsSet'
  BY FileAssumption, ContentsFacts, DiskType DEF FileInv, FileTypeOK, IoFails, Flushing, Loading, Change, MethodCalls, Disk, Failed, LocalsSet
<1>3. LoadedFirst'
  BY FileAssumption, ContentsFacts, DiskType DEF FileInv, FileTypeOK, IoFails, Flushing, Loading, Change, MethodCalls, Disk, Failed, LoadedFirst
<1>4. OneLoad'
  BY FileAssumption, ContentsFacts, DiskType DEF FileInv, FileTypeOK, IoFails, Flushing, Loading, Change, MethodCalls, Disk, Failed, OneLoad
<1>5. OneFlush'
  BY FileAssumption, ContentsFacts, DiskType DEF FileInv, FileTypeOK, IoFails, Flushing, Loading, Change, MethodCalls, Disk, Failed, OneFlush
<1>6. NothingLost'
  <2>1. /\ call'[c] = Failed(c) /\ \A d \in Callers \ {c} : call'[d] = call[d]
        /\ file' = file /\ db' = db /\ loaded' = loaded /\ acked' = acked
        /\ harm' = harm /\ scarred' = scarred
    BY Moved DEF FileInv, IoFails
  <2>2. /\ call'[c].step = "threw" /\ ~Flushing(c)'
        /\ \A d \in Callers \ {c} : (Flushing(d)' <=> Flushing(d)) /\ Change(d)' = Change(d)
    BY <2>1, FailedType DEF FileInv, Flushing, Change
  <2>3. harm = {} /\ ~scarred => Disk' = Disk
    BY WriterOffFile DEF FileInv, FileTypeOK, IoFails, Disk
  <2>. QED
    BY <2>1, <2>2, <2>3 DEF FileInv, NothingLost
<1>. QED
  BY <1>1, <1>2, <1>3, <1>4, <1>5, <1>6 DEF FileInv

LEMMA LeaveStep ==
    ASSUME FileInv, NEW c \in Callers, Leave(c) PROVE FileInv'
<1>1. FileTypeOK'
  BY FileAssumption, ContentsFacts, DiskType, QuietType DEF FileInv, FileTypeOK, Leave, Flushing, Loading, Change, MethodCalls, Disk, Quiet, Steps, Methods, Harms, Contents
<1>2. LocalsSet'
  BY FileAssumption, ContentsFacts, DiskType, QuietType DEF FileInv, FileTypeOK, Leave, Flushing, Loading, Change, MethodCalls, Disk, Quiet, LocalsSet
<1>3. LoadedFirst'
  BY FileAssumption, ContentsFacts, DiskType, QuietType DEF FileInv, FileTypeOK, Leave, Flushing, Loading, Change, MethodCalls, Disk, Quiet, LoadedFirst
<1>4. OneLoad'
  BY FileAssumption, ContentsFacts, DiskType, QuietType DEF FileInv, FileTypeOK, Leave, Flushing, Loading, Change, MethodCalls, Disk, Quiet, OneLoad
<1>5. OneFlush'
  BY FileAssumption, ContentsFacts, DiskType, QuietType DEF FileInv, FileTypeOK, Leave, Flushing, Loading, Change, MethodCalls, Disk, Quiet, OneFlush
<1>6. NothingLost'
  BY FileAssumption, ContentsFacts, DiskType, QuietType DEF FileInv, FileTypeOK, Leave, Flushing, Loading, Change, MethodCalls, Disk, Quiet, NothingLost
<1>. QED
  BY <1>1, <1>2, <1>3, <1>4, <1>5, <1>6 DEF FileInv

(* A restart forgets everything but the files, and what it was writing was *)
(* not the file. *)
LEMMA RestartStep == ASSUME FileInv, Restart PROVE FileInv'
<1>1. FileTypeOK /\ LoadedFirst /\ NothingLost
  BY DEF FileInv
<1>2. PICK half \in SUBSET {c \in Callers : call[c].step = "write"} :
        data' = [i \in Inodes |->
                   IF \E c \in half : call[c].inode = i THEN Torn ELSE data[i]]
  BY DEF Restart
<1>3. /\ db' = {} /\ loaded' = FALSE /\ told' = {} /\ harm' = {}
      /\ scarred' = (scarred \/ harm # {})
      /\ file' = file /\ tmp' = tmp /\ acked' = acked
      /\ call' = [c \in Callers |-> Quiet]
      /\ \A c \in Callers : call'[c] = Quiet
  BY DEF Restart
<1>4. \A c \in Callers : call'[c].step = "idle" /\ call'[c].inode = None
  BY <1>3 DEF Quiet
<1>5. \A c \in Callers : ~Flushing(c)' /\ ~Loading(c)'
  BY <1>4 DEF Flushing, Loading
<1>6. ~scarred' => Disk' = Disk
  <2>1. ASSUME harm = {}, ~scarred PROVE \A c \in half : call[c].inode # file
    BY <1>2, <2>1, WriterOffFile
  <2>2. ASSUME harm = {}, ~scarred, file # None PROVE data'[file] = data[file]
    BY <1>1, <1>2, <2>1, <2>2 DEF FileTypeOK
  <2>. QED
    BY <1>3, <2>2 DEF Disk
<1>7. FileTypeOK'
  <2>1. data' \in [Inodes -> Contents]
    BY <1>1, <1>2, ContentsFacts DEF FileTypeOK
  <2>2. call' \in [Callers -> MethodCalls]
    BY <1>3, QuietType
  <2>. QED
    BY <1>1, <1>3, <1>4, <2>1, <2>2 DEF FileTypeOK
<1>8. LocalsSet' /\ LoadedFirst' /\ OneLoad' /\ OneFlush'
  BY <1>1, <1>3, <1>4, <1>5 DEF LocalsSet, LoadedFirst, OneLoad, OneFlush
<1>9. NothingLost'
  BY <1>1, <1>3, <1>4, <1>5, <1>6 DEF NothingLost
<1>. QED
  BY <1>7, <1>8, <1>9 DEF FileInv

LEMMA FileUnchanged == ASSUME FileInv, UNCHANGED fileVars PROVE FileInv'
<1>1. /\ file' = file /\ tmp' = tmp /\ data' = data /\ db' = db /\ loaded' = loaded
      /\ call' = call /\ told' = told /\ acked' = acked /\ harm' = harm
      /\ scarred' = scarred
  BY DEF fileVars
<1>2. Disk' = Disk /\ \A c \in Callers :
        (Flushing(c)' <=> Flushing(c)) /\ (Loading(c)' <=> Loading(c)) /\ Change(c)' = Change(c)
  BY <1>1 DEF Disk, Flushing, Loading, Change
<1>. QED
  BY <1>1, <1>2
     DEF FileInv, FileTypeOK, LocalsSet, LoadedFirst, OneLoad, OneFlush, NothingLost

(* Every step of a caller keeps the invariant. *)
LEMMA FileStepInv == ASSUME FileInv, NEW c \in Callers, FileStep(c) PROVE FileInv'
BY ReadFileStep, LoadStep, StartEmptyStep, FindStep, NotFoundStep, MutateStep, OpenStep,
   WriteStep, RenamedStep, NothingToRenameStep, IoFailsStep DEF FileStep

LEMMA FileSafety == FileInv => AcknowledgedVisible /\ AcknowledgedDurable
BY DEF FileInv, OneLoad, NothingLost, AcknowledgedVisible, AcknowledgedDurable

(* What SoloFlushRepairs says of a step. *)
SoloFlush ==
    \A c \in Callers :
        call[c].step = "rename" /\ call[c].alone /\ call'[c].step \in {"ok", "act"}
          => /\ file' # None /\ data'[file'] \notin {Blank, Torn}
             /\ "load" \notin harm => told' \subseteq data'[file']

(* No step of a caller moves another. *)
LEMMA OthersStay ==
    ASSUME FileInv, NEW c \in Callers, FileStep(c), NEW d \in Callers \ {c}
    PROVE  call'[d].step = call[d].step
<1>1. FileTypeOK /\ LocalsSet
  BY DEF FileInv
<1>2. call[c] \in MethodCalls /\ call[d] \in MethodCalls
  BY <1>1 DEF FileTypeOK
<1>3. CASE StartEmpty(c)
  <2>1. Flush(c, {}, TRUE)
    BY <1>3 DEF StartEmpty
  <2>2. call'[d] = [call[d] EXCEPT !.alone = call[d].alone /\ ~Flushing(d)]
    BY <1>1, <2>1, FlushFields
  <2>. QED
    BY <1>2, <2>2 DEF MethodCalls
<1>4. CASE Mutate(c)
  <2>1. Flush(c, db \cup {Change(c)}, FALSE) /\ db \cup {Change(c)} \in SUBSET Changes
    BY <1>1, <1>4, ChangeType DEF Mutate, FileTypeOK
  <2>2. call'[d] = [call[d] EXCEPT !.alone = call[d].alone /\ ~Flushing(d)]
    BY <1>1, <2>1, FlushFields
  <2>. QED
    BY <1>2, <2>2 DEF MethodCalls
<1>5. CASE Open(c)
  BY <1>1, <1>5, OpenFields
<1>6. CASE Renamed(c)
  BY <1>1, <1>6 DEF Renamed, FileTypeOK
<1>7. CASE ReadFile(c) \/ Load(c) \/ Find(c) \/ NotFound(c) \/ Write(c)
           \/ NothingToRename(c) \/ IoFails(c)
  BY <1>1, <1>7 DEF ReadFile, Load, Find, NotFound, Write, NothingToRename, IoFails,
                    Reach, FileTypeOK
<1>. QED
  BY <1>3, <1>4, <1>5, <1>6, <1>7 DEF FileStep

(* A rename that succeeds leaves in the file what the flush has written. *)
LEMMA RenameRepairs ==
    ASSUME FileInv, NEW c \in Callers, FileStep(c), call[c].step = "rename", call[c].alone,
           call'[c].step \in {"ok", "act"}
    PROVE  /\ file' # None /\ data'[file'] \notin {Blank, Torn}
           /\ "load" \notin harm => told' \subseteq data'[file']
<1>1. FileTypeOK /\ LocalsSet /\ LoadedFirst /\ OneLoad /\ OneFlush
  BY DEF FileInv
<1>2. Renamed(c)
  <2>1. NothingToRename(c) \/ IoFails(c) => call'[c].step = "threw"
    BY <1>1, FailedType DEF NothingToRename, IoFails, FileTypeOK
  <2>. QED
    BY <2>1 DEF FileStep, ReadFile, Load, StartEmpty, Find, NotFound, Mutate, Open, Write
<1>3. /\ file' = tmp /\ file' # None /\ file' \in Inodes /\ file' # file
      /\ data'[file'] = data[tmp]
  BY <1>1, <1>2 DEF Renamed, FileTypeOK, LoadedFirst
<1>4. /\ Flushing(c) /\ data[tmp] = call[c].raw /\ call[c].raw \in SUBSET Changes
      /\ "load" \notin harm => told \subseteq call[c].raw
      /\ ~call[c].loading => Change(c) \in call[c].raw
  BY <1>1 DEF Flushing, OneFlush, LocalsSet
<1>5. "load" \notin harm => told' \subseteq call[c].raw
  BY <1>4, <1>2 DEF Renamed
<1>. QED
  BY <1>3, <1>4, <1>5, ContentsFacts

LEMMA StoreRepairs == ASSUME FileInv, NEW c \in Callers, FileStep(c) PROVE SoloFlush
<1> SUFFICES ASSUME NEW d \in Callers, call[d].step = "rename", call[d].alone,
                    call'[d].step \in {"ok", "act"}
             PROVE  /\ file' # None /\ data'[file'] \notin {Blank, Torn}
                    /\ "load" \notin harm => told' \subseteq data'[file']
  BY DEF SoloFlush
<1>1. c = d
  BY OthersStay
<1>. QED
  BY <1>1, RenameRepairs

(* No other action of the host takes a caller out of its rename. *)
LEMMA OtherwiseNoRename ==
    ASSUME FileInv,
           \/ Restart
           \/ UNCHANGED fileVars
           \/ \E c \in Callers : call[c].step # "rename" /\ \E x : call' = [call EXCEPT ![c] = x]
    PROVE  SoloFlush
<1>1. \A d \in Callers : call[d].step = "rename" => call'[d].step \notin {"ok", "act"}
  BY DEF FileInv, FileTypeOK, Restart, Quiet, fileVars
<1>. QED
  BY <1>1 DEF SoloFlush

=============================================================================
