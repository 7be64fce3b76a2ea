---------------------------- MODULE DataDirProofs ----------------------------
(***************************************************************************)
(* The users of the data directory: every step of DataDir is a step of the *)
(* write protocol or leaves the file alone, so the theorems of             *)
(* AtomicFileProofs hold here too; and what the users add to it, a state   *)
(* of a newer version that only an import replaces, an identity that is    *)
(* never handed out before it is stored, a shipped template that never     *)
(* goes away and an older state that is never handed out before it is      *)
(* migrated.                                                               *)
(***************************************************************************)
EXTENDS DataDir, AtomicFileProofs

LEMMA StepImplements == [Next]_vars => [FNext]_fvars
<1> SUFFICES ASSUME [Next]_vars PROVE [FNext]_fvars
  OBVIOUS
<1>1. ASSUME NEW w \in Writers, Write(w) PROVE FNext
  BY <1>1 DEF Write, FNext
<1>2. ASSUME NEW w \in Writers, NEW s \in States, SaveState(w, s) \/ ImportState(w, s)
      PROVE  FNext
  <2>1. s \in Docs
    BY DataDirAssumption DEF DocsOf, Kinds
  <2> QED BY <1>2, <2>1 DEF SaveState, ImportState, FNext
<1>3. ASSUME NEW w \in Writers, NEW id \in Ids, Generate(w, id) PROVE FNext
  <2>1. id \in Docs
    BY DataDirAssumption DEF DocsOf, Kinds
  <2> QED BY <1>3, <2>1 DEF Generate, FNext
<1>4. ASSUME NEW w \in Writers, NEW d \in Templates \cup {Broken}, PutTemplate(w, d)
      PROVE  FNext
  <2>1. d \in Docs
    BY DataDirAssumption DEF DocsOf, Kinds
  <2> QED BY <1>4, <2>1 DEF PutTemplate, FNext
<1>5. ASSUME NEW w \in Writers, DeleteTemplate(w) PROVE FNext
  BY <1>5 DEF DeleteTemplate, FNext
<1>6. ASSUME EditByHand PROVE FNext
  <2>1. Broken \in Docs
    BY DataDirAssumption DEF DocsOf, Kinds
  <2> QED BY <1>6, <2>1 DEF EditByHand, FNext
<1>7. ASSUME Restart PROVE FNext
  BY <1>7 DEF Restart, FNext
<1>8. ASSUME NEW w \in Writers,
             \/ LoadState(w)  \/ ReadId(w)      \/ Generated(w)
             \/ PutFailed(w)  \/ Written(w)     \/ ReadOverlay(w)
             \/ SwapCatalog(w) \/ ReloadFailed(w)
      PROVE  UNCHANGED fvars
  BY <1>8 DEF LoadState, ReadId, Generated, PutFailed, Written, ReadOverlay,
              SwapCatalog, ReloadFailed
<1>9. CASE UNCHANGED vars
  BY <1>9 DEF vars
<1> QED BY <1>1, <1>2, <1>3, <1>4, <1>5, <1>6, <1>7, <1>8, <1>9 DEF Next

(* What the loaders, the handlers and the updater do with a file is what   *)
(* the write protocol allows.                                              *)
THEOREM UsersImplement == Spec => FSpec
<1>1. Init => FInit
  BY DEF Init
<1> QED BY <1>1, StepImplements, PTL DEF Spec, FSpec

(* A file of the data directory, with all its users, is an atomic durable  *)
(* register.                                                               *)
THEOREM DataDirAtomic == Spec => ImplementsRegister
BY UsersImplement, AtomicWrite, PTL

(* No user of the directory ever finds a torn file.                        *)
THEOREM DataDirNeverTorn == Spec => []NeverTorn
BY UsersImplement, NoTornFile, PTL

(* What is renamed over the file is whole and on the disk, whoever writes. *)
THEOREM DataDirRenamesWhole == Spec => []RenamesWhole
BY UsersImplement, RenameIsWhole, PTL

-----------------------------------------------------------------------------
(* A newer state: while it is there nobody has loaded one, so whoever      *)
(* writes is importing, and the disk holds nothing else.                   *)

NewerAlone ==
    /\ Newer(file.seen) =>
          /\ onDisk = {file.seen}
          /\ \A w \in Writers :
                /\ got[w] = NoDoc
                /\ pc[w] # "rest" => job[w] = "import"
    /\ \A w \in Writers : pc[w] # "rest" => ~Newer(doc[w])

NewerInv ==
    /\ DOMAIN got = Writers
    /\ DOMAIN job = Writers
    /\ kind = "state" => NewerAlone /\ \A w \in Writers : job[w] \in {"none", "import"}

LEMMA NewerInit == Init => NewerInv
<1> SUFFICES ASSUME Init PROVE NewerInv
  OBVIOUS
<1>1. PICK c \in Docs \cup {Missing} : file = Whole(c) /\ onDisk = {c}
  BY DEF Init, FInit
<1> QED BY <1>1 DEF Init, FInit, AtRest, Whole, NewerInv, NewerAlone

(* What a step of a writer does to the file and the disk. *)
LEMMA WriteFile ==
  ASSUME FInv, NEW w \in Writers, Write(w)
  PROVE  \/ file'.seen = doc[w] /\ onDisk' = onDisk \cup {doc[w]} /\ Rename(w)
         \/ file'.seen = file.seen /\ onDisk' \in {onDisk, {file.seen}} /\ SyncDir(w)
         \/ UNCHANGED <<file, onDisk>> /\ pc'[w] \in {"write", "sync", "rename", "remove"}
         \/ UNCHANGED <<file, onDisk>> /\ reply'[w] = "error"
<1>1. CASE Rename(w)
  <2>1. tmp[w] = Whole(doc[w])
    BY <1>1 DEF Rename, Goto, Return, FInv, RenamesWhole
  <2>2. CASE file' = tmp[w] /\ onDisk' = onDisk \cup {tmp[w].disk}
    BY <1>1, <2>1, <2>2 DEF Whole
  <2>3. CASE Goto(w, "rename", "remove") /\ UNCHANGED <<file, onDisk>>
    BY <2>3 DEF Goto, FInv, FTypeOK
  <2> QED BY <1>1, <2>2, <2>3 DEF Rename
<1>2. CASE SyncDir(w)
  BY <1>2 DEF SyncDir, FInv, FileWhole
<1>3. CASE CreateTemp(w) \/ WriteTemp(w) \/ SyncTemp(w) \/ RemoveTemp(w)
  BY <1>3 DEF CreateTemp, WriteTemp, SyncTemp, RemoveTemp, Goto, Return, FInv,
              FTypeOK
<1> QED BY <1>1, <1>2, <1>3 DEF Write, WriterStep

LEMMA NewerStep == FInv /\ NewerInv /\ [Next]_vars => NewerInv'
<1> SUFFICES ASSUME FInv, NewerInv, [Next]_vars PROVE NewerInv'
  OBVIOUS
<1>1. ASSUME NEW w \in Writers, Write(w) PROVE NewerInv'
  <2>1. got' = got /\ kind' = kind /\ doc' = doc
    BY <1>1 DEF Write, WriterStep, CreateTemp, WriteTemp, SyncTemp, Rename,
                SyncDir, RemoveTemp, Goto, Return
  <2>2. pc[w] # "rest"
    BY <1>1 DEF Write, WriterStep, CreateTemp, WriteTemp, SyncTemp, Rename,
                SyncDir, RemoveTemp, Goto, Return
  <2>3. \A v \in Writers : pc'[v] # "rest" => pc[v] # "rest"
    BY <1>1 DEF Write, WriterStep, CreateTemp, WriteTemp, SyncTemp, Rename,
                SyncDir, RemoveTemp, Goto, Return, FInv, FTypeOK
  <2>4. /\ file'.seen \in {file.seen, doc[w]}
        /\ file'.seen # doc[w] => onDisk' \in {onDisk, {file.seen}}
    BY <1>1, WriteFile
  <2>5. /\ DOMAIN job' = Writers
        /\ \A v \in Writers : job'[v] # job[v] => v = w /\ pc'[w] = "rest" /\ job'[w] = "none"
    BY <1>1 DEF Write, Job, NewerInv
  <2>6. ASSUME kind = "state", Newer(file'.seen)
        PROVE  file'.seen = file.seen /\ onDisk' = {file.seen}
    BY <2>2, <2>4, <2>6 DEF NewerInv, NewerAlone
  <2>7. Newer(file.seen)' <=> Newer(file'.seen)
    BY DEF Newer
  <2>8. ASSUME kind = "state" PROVE NewerAlone'
    BY <2>1, <2>3, <2>5, <2>6, <2>7, <2>8 DEF NewerInv, NewerAlone, Newer
  <2>9. ASSUME kind = "state", NEW v \in Writers PROVE job'[v] \in {"none", "import"}
    BY <2>5, <2>9 DEF NewerInv
  <2> QED BY <2>1, <2>5, <2>8, <2>9 DEF NewerInv
<1>2. ASSUME NEW w \in Writers, LoadState(w) PROVE NewerInv'
  <2>1. ~Newer(file.seen)
    <3>1. CASE file.seen = Missing
      BY <3>1, DataDirAssumption, AtomicFileAssumption DEF Newer, DocsOf, Kinds
    <3> QED BY <1>2, <3>1 DEF LoadState
  <2>2. UNCHANGED fvars /\ DOMAIN got' = Writers /\ job' = job
    BY <1>2 DEF LoadState, Got, NewerInv
  <2> QED BY <2>1, <2>2 DEF NewerInv, NewerAlone, Newer, fvars
<1>3. ASSUME NEW w \in Writers, NEW s \in States, SaveState(w, s) \/ ImportState(w, s)
      PROVE  NewerInv'
  <2>1. ~Newer(s)
    BY <1>3 DEF SaveState, ImportState, Newer, CurrentVersion
  <2>2. kind = "state" /\ Newer(file.seen) => ImportState(w, s)
    BY <1>3 DEF SaveState, NewerInv, NewerAlone
  <2>3. /\ doc' = [doc EXCEPT ![w] = s]
        /\ pc' = [pc EXCEPT ![w] = "create"]
        /\ got' = [got EXCEPT ![w] = NoDoc]
        /\ job' \in {job, [job EXCEPT ![w] = "import"]}
        /\ ImportState(w, s) => job' = [job EXCEPT ![w] = "import"]
        /\ UNCHANGED <<kind, file, onDisk>>
    BY <1>3 DEF SaveState, ImportState, Begin, Goto, Got, Job
  <2>4. DOMAIN pc = Writers /\ DOMAIN doc = Writers
    BY DEF FInv, FTypeOK
  <2>5. ASSUME kind = "state" PROVE NewerAlone'
    <3>1. ASSUME NEW v \in Writers, pc'[v] # "rest" PROVE ~Newer(doc'[v])
      BY <2>1, <2>3, <2>4, <2>5, <3>1 DEF NewerInv, NewerAlone
    <3>2. ASSUME Newer(file.seen), NEW v \in Writers
          PROVE  got'[v] = NoDoc /\ (pc'[v] # "rest" => job'[v] = "import")
      BY <2>2, <2>3, <2>4, <2>5, <3>2 DEF NewerInv, NewerAlone
    <3> QED BY <2>3, <2>5, <3>1, <3>2 DEF NewerInv, NewerAlone, Newer
  <2> QED BY <2>3, <2>5 DEF NewerInv
<1>4. ASSUME NEW w \in Writers,
             \/ ReadId(w)      \/ Generated(w)   \/ PutFailed(w) \/ Written(w)
             \/ DeleteTemplate(w) \/ ReadOverlay(w) \/ SwapCatalog(w)
             \/ ReloadFailed(w)
             \/ \E id \in Ids : Generate(w, id)
             \/ \E d \in Templates \cup {Broken} : PutTemplate(w, d)
      PROVE  NewerInv'
  <2>1. kind # "state" /\ kind' = kind
    BY <1>4 DEF NewerInv, ReadId, Generated, PutFailed, Written, DeleteTemplate,
                Erase, ReadOverlay, SwapCatalog, ReloadFailed, Generate,
                PutTemplate, Begin, Goto, fvars
  <2>2. DOMAIN got' = Writers /\ DOMAIN job' = Writers
    BY <1>4 DEF NewerInv, ReadId, Generated, PutFailed, Written, DeleteTemplate,
                ReadOverlay, SwapCatalog, ReloadFailed, Generate,
                PutTemplate, Got, Job
  <2> QED BY <2>1, <2>2 DEF NewerInv
<1>5. CASE EditByHand
  BY <1>5 DEF EditByHand, CopyByHand, dvars, NewerInv
<1>6. CASE Restart
  <2>1. Dead /\ \/ file' = file /\ onDisk' = onDisk
                \/ \E c \in onDisk : file' = Whole(c) /\ onDisk' = {c}
    BY <1>6 DEF Restart, Kill, PowerCut
  <2>2. /\ \A w \in Writers : pc'[w] = "rest" /\ got'[w] = NoDoc /\ job'[w] = "none"
        /\ DOMAIN got' = Writers
        /\ DOMAIN job' = Writers
    BY <1>6, <2>1 DEF Restart, Dead, AtRest
  <2> QED BY <2>1, <2>2 DEF Dead, Whole, NewerInv, NewerAlone, Newer
<1>7. CASE UNCHANGED vars
  BY <1>7 DEF vars, fvars, dvars, NewerInv, NewerAlone, Newer
<1> QED BY <1>1, <1>2, <1>3, <1>4, <1>5, <1>6, <1>7 DEF Next

LEMMA ImportReplaces ==
  FInv /\ NewerInv /\ [Next]_vars =>
    [kind = "state" /\ Newer(file.seen) /\ file'.seen # file.seen =>
       \E w \in Writers : job[w] = "import" /\ pc[w] = "rename"]_vars
<1> SUFFICES ASSUME FInv, NewerInv, [Next]_vars,
                    kind = "state", Newer(file.seen), file'.seen # file.seen
             PROVE  \E w \in Writers : job[w] = "import" /\ pc[w] = "rename"
  OBVIOUS
<1>1. onDisk = {file.seen} /\ \A w \in Writers : pc[w] # "rest" => job[w] = "import"
  BY DEF NewerInv, NewerAlone
<1>2. ASSUME NEW w \in Writers, Write(w) PROVE job[w] = "import" /\ pc[w] = "rename"
  BY <1>1, <1>2, WriteFile DEF Rename, Goto, Return
<1>3. ASSUME NEW w \in Writers,
             \/ LoadState(w)   \/ ReadId(w)      \/ Generated(w)
             \/ PutFailed(w)   \/ Written(w)     \/ ReadOverlay(w)
             \/ SwapCatalog(w) \/ ReloadFailed(w)
             \/ \E s \in States : SaveState(w, s) \/ ImportState(w, s)
             \/ \E id \in Ids : Generate(w, id)
             \/ \E d \in Templates \cup {Broken} : PutTemplate(w, d)
      PROVE  FALSE
  BY <1>3 DEF LoadState, ReadId, Generated, PutFailed, Written, ReadOverlay,
              SwapCatalog, ReloadFailed, SaveState, ImportState, Generate,
              PutTemplate, Begin, fvars
<1>4. ASSUME NEW w \in Writers, DeleteTemplate(w) PROVE FALSE
  BY <1>4 DEF DeleteTemplate, Erase
<1>5. ~EditByHand
  BY DEF EditByHand, CopyByHand
<1>6. ~Restart
  BY <1>1 DEF Restart, Kill, PowerCut, Whole
<1>7. ~UNCHANGED vars
  BY DEF vars, fvars
<1> QED BY <1>2, <1>3, <1>4, <1>5, <1>6, <1>7 DEF Next

(* A state that a newer WellBoard wrote is replaced by an import only.     *)
THEOREM OnlyImportDowngrades == Spec => OnlyImportReplaces
<1>1. Init => FInv /\ NewerInv
  BY InitInv, NewerInit DEF Init
<1>2. FInv /\ NewerInv /\ [Next]_vars => FInv' /\ NewerInv'
  BY NewerStep, StepImplements, NextInv
<1>3. FInv /\ NewerInv /\ [Next]_vars =>
        [kind = "state" /\ Newer(file.seen) /\ file'.seen # file.seen =>
           \E w \in Writers : job[w] = "import" /\ pc[w] = "rename"]_vars
  BY ImportReplaces
<1> QED BY <1>1, <1>2, <1>3, PTL DEF Spec, OnlyImportReplaces

-----------------------------------------------------------------------------
(* The identity: whoever has one read it, or saved it before.              *)

StoredInv ==
    /\ DOMAIN got = Writers
    /\ DOMAIN job = Writers
    /\ kind = "hwid" =>
         /\ file.seen \in Ids => file.seen \in stored
         /\ \A w \in Writers :
              /\ got[w] # NoDoc => got[w] \in stored
              /\ job[w] \in {"none", "generate"}
              /\ pc[w] # "dirsync"
              /\ doc[w] # NoDoc => doc[w] \in Ids
              /\ job[w] = "generate" /\ pc[w] = "rest" /\ reply[w] = "ok"
                   => doc[w] \in stored
         /\ onDisk \cap Ids \subseteq stored

LEMMA StoredInit == Init => StoredInv
<1> SUFFICES ASSUME Init PROVE StoredInv
  OBVIOUS
<1>1. PICK c \in Docs \cup {Missing} : file = Whole(c) /\ onDisk = {c}
  BY DEF Init, FInit
<1> QED BY <1>1 DEF Init, FInit, AtRest, Whole, StoredInv

LEMMA StoredStep == FInv /\ StoredInv /\ [Next]_vars => StoredInv'
<1> SUFFICES ASSUME FInv, StoredInv, [Next]_vars PROVE StoredInv'
  OBVIOUS
<1>1. ASSUME NEW w \in Writers, Write(w) PROVE StoredInv'
  <2>1. got' = got /\ kind' = kind /\ doc' = doc
    BY <1>1 DEF Write, WriterStep, CreateTemp, WriteTemp, SyncTemp, Rename,
                SyncDir, RemoveTemp, Goto, Return
  <2>0. DOMAIN job' = Writers /\ (kind = "hwid" => job' = job)
    BY <1>1 DEF Write, Job, StoredInv
  <2>2. stored' = stored \cup ({file'.seen} \cap Ids)
    BY <1>1 DEF Write
  <2>3. \A v \in Writers \ {w} : pc'[v] = pc[v] /\ reply'[v] = reply[v]
    BY <1>1 DEF Write, WriterStep, CreateTemp, WriteTemp, SyncTemp, Rename,
                SyncDir, RemoveTemp, Goto, Return, FInv, FTypeOK
  <2>4. kind = "hwid" => ~SyncDir(w)
    BY DEF SyncDir, Return, Goto, StoredInv
  <2>5. kind = "hwid" => pc'[w] # "dirsync"
    <3>1. CASE Rename(w)
      BY <3>1 DEF Rename, Goto, Return, FInv, FTypeOK
    <3>2. CASE CreateTemp(w) \/ WriteTemp(w) \/ SyncTemp(w) \/ RemoveTemp(w)
      BY <3>2 DEF CreateTemp, WriteTemp, SyncTemp, RemoveTemp, Goto, Return,
                  FInv, FTypeOK
    <3> QED BY <1>1, <2>4, <3>1, <3>2 DEF Write, WriterStep
  <2>6. kind = "hwid" =>
           /\ file'.seen \in Ids => file'.seen \in stored'
           /\ onDisk' \cap Ids \subseteq stored'
           /\ pc'[w] = "rest" /\ reply'[w] = "ok" => file'.seen = doc[w]
    BY <1>1, <2>2, <2>4, WriteFile DEF StoredInv
  <2>7. ASSUME kind = "hwid", NEW v \in Writers,
               job[v] = "generate", pc'[v] = "rest", reply'[v] = "ok"
        PROVE  doc[v] \in stored'
    <3>1. CASE v = w
      <4>1. doc[w] # NoDoc
        <5>1. Rename(w)
          BY <1>1, <2>4, <2>7, <3>1, WriteFile
        <5>2. pc[w] = "rename"
          BY <5>1 DEF Rename, Goto, Return
        <5> QED BY <5>2, AtomicFileAssumption DEF FInv, RenamesWhole
      <4> QED BY <2>2, <2>6, <2>7, <3>1, <4>1 DEF StoredInv
    <3>2. CASE v # w
      BY <2>2, <2>3, <2>7, <3>2 DEF StoredInv
    <3> QED BY <3>1, <3>2
  <2>8. \A v \in Writers : kind = "hwid" => pc'[v] # "dirsync"
    BY <2>3, <2>5 DEF StoredInv
  <2> QED BY <2>0, <2>1, <2>2, <2>6, <2>7, <2>8 DEF StoredInv
<1>2. ASSUME NEW w \in Writers, NEW id \in Ids, Generate(w, id) PROVE StoredInv'
  <2>1. /\ pc' = [pc EXCEPT ![w] = "create"]
        /\ doc' = [doc EXCEPT ![w] = id]
        /\ job' = [job EXCEPT ![w] = "generate"]
        /\ got' = [got EXCEPT ![w] = NoDoc]
        /\ reply' = [reply EXCEPT ![w] = "none"]
        /\ UNCHANGED <<kind, file, onDisk, stored>>
    BY <1>2 DEF Generate, Begin, Goto, Job, Got
  <2> QED BY <2>1 DEF FInv, FTypeOK, StoredInv
<1>3. ASSUME NEW w \in Writers, ReadId(w) PROVE StoredInv'
  BY <1>3 DEF ReadId, Got, fvars, StoredInv
<1>4. ASSUME NEW w \in Writers, Generated(w) PROVE StoredInv'
  BY <1>4 DEF Generated, Got, Job, fvars, StoredInv
<1>5. ASSUME NEW w \in Writers,
             \/ LoadState(w)  \/ PutFailed(w)   \/ Written(w) \/ DeleteTemplate(w)
             \/ ReadOverlay(w) \/ SwapCatalog(w) \/ ReloadFailed(w)
             \/ \E s \in States : SaveState(w, s) \/ ImportState(w, s)
             \/ \E d \in Templates \cup {Broken} : PutTemplate(w, d)
      PROVE  StoredInv'
  <2>1. kind # "hwid" /\ kind' = kind
    BY <1>5 DEF StoredInv, LoadState, PutFailed, Written, DeleteTemplate, Erase,
                ReadOverlay, SwapCatalog, ReloadFailed, SaveState, ImportState,
                PutTemplate, Begin, Goto, fvars
  <2>2. DOMAIN got' = Writers /\ DOMAIN job' = Writers
    BY <1>5 DEF StoredInv, LoadState, PutFailed, Written, DeleteTemplate,
                ReadOverlay, SwapCatalog, ReloadFailed, SaveState, ImportState,
                PutTemplate, Got, Job
  <2> QED BY <2>1, <2>2 DEF StoredInv
<1>6. CASE EditByHand
  BY <1>6 DEF EditByHand, CopyByHand, dvars, StoredInv
<1>7. CASE Restart
  <2>1. /\ Dead
        /\ \/ file' = file /\ onDisk' = onDisk
           \/ \E c \in onDisk : file' = Whole(c) /\ onDisk' = {c}
    BY <1>7 DEF Restart, Kill, PowerCut
  <2>2. /\ \A w \in Writers : /\ pc'[w] = "rest" /\ doc'[w] = NoDoc
                              /\ got'[w] = NoDoc /\ job'[w] = "none"
        /\ DOMAIN got' = Writers
        /\ DOMAIN job' = Writers
        /\ stored' = stored
    BY <1>7, <2>1 DEF Restart, Dead, AtRest
  <2>3. kind = "hwid" =>
           /\ file'.seen \in Ids => file'.seen \in stored
           /\ onDisk' \cap Ids \subseteq stored
    BY <2>1 DEF Whole, StoredInv
  <2> QED BY <2>1, <2>2, <2>3 DEF Dead, StoredInv
<1>8. CASE UNCHANGED vars
  BY <1>8 DEF vars, fvars, dvars, StoredInv
<1> QED BY <1>1, <1>2, <1>3, <1>4, <1>5, <1>6, <1>7, <1>8 DEF Next

(* No panel is ever shown an identity that a restart would not find.       *)
THEOREM IdentityStored == Spec => []HandedOutStored
<1>1. Init => FInv /\ StoredInv
  BY InitInv, StoredInit DEF Init
<1>2. FInv /\ StoredInv /\ [Next]_vars => FInv' /\ StoredInv'
  BY StoredStep, StepImplements, NextInv
<1>3. StoredInv => HandedOutStored
  BY DEF StoredInv, HandedOutStored
<1> QED BY <1>1, <1>2, <1>3, PTL DEF Spec

-----------------------------------------------------------------------------
(* The catalog: an entry that is read, and one that is about to be put in  *)
(* the catalog, is the shipped one or an override.                         *)

CatalogInv ==
    /\ DOMAIN got = Writers
    /\ DOMAIN job = Writers
    /\ shipped # NoTemplate =>
         /\ kind = "template"
         /\ catalog # NoTemplate
         /\ \A w \in Writers : job[w] = "swap" => got[w] # NoTemplate

LEMMA MergedKnown == \A c : shipped # NoTemplate => Merged(c) # NoTemplate
<1>1. NoTemplate \notin Templates
  BY DataDirAssumption DEF DocsOf, Kinds
<1> QED BY <1>1 DEF Merged

LEMMA CatalogInit == Init => CatalogInv
BY MergedKnown DEF Init, FInit, CatalogInv

LEMMA CatalogStep == CatalogInv /\ [Next]_vars => CatalogInv'
<1> SUFFICES ASSUME CatalogInv, [Next]_vars PROVE CatalogInv'
  OBVIOUS
<1>1. shipped' = shipped /\ kind' = kind
  BY DEF Next, vars, dvars, fvars, Write, WriterStep, CreateTemp, WriteTemp,
         SyncTemp, Rename, SyncDir, RemoveTemp, Goto, Return, LoadState,
         SaveState, ImportState, ReadId, Generate, Generated, PutTemplate,
         PutFailed, Written, DeleteTemplate, Erase, ReadOverlay, ReloadFailed,
         SwapCatalog, EditByHand, CopyByHand, Restart, Kill, PowerCut, Dead,
         Begin
<1>2. DOMAIN got' = Writers /\ DOMAIN job' = Writers
  BY DEF CatalogInv, Next, vars, dvars, Write, LoadState, SaveState,
         ImportState, ReadId, Generate, Generated, PutTemplate, PutFailed,
         Written, DeleteTemplate, ReadOverlay, ReloadFailed, SwapCatalog,
         EditByHand, Restart, Got, Job
<1>3. shipped # NoTemplate => catalog' # NoTemplate
  BY MergedKnown DEF CatalogInv, Next, vars, dvars, Write, LoadState, SaveState,
                     ImportState, ReadId, Generate, Generated, PutTemplate,
                     PutFailed, Written, DeleteTemplate, ReadOverlay,
                     ReloadFailed, SwapCatalog, EditByHand, Restart
<1>4. ASSUME shipped # NoTemplate, NEW v \in Writers, job'[v] = "swap"
      PROVE  got'[v] # NoTemplate
  <2>1. ASSUME NEW w \in Writers, ReadOverlay(w) PROVE got'[v] # NoTemplate
    BY <1>4, <2>1, MergedKnown DEF ReadOverlay, Job, Got, CatalogInv
  <2>2. ASSUME NEW w \in Writers,
               \/ Write(w) \/ LoadState(w) \/ ReadId(w) \/ Generated(w)
               \/ PutFailed(w) \/ Written(w) \/ DeleteTemplate(w)
               \/ ReloadFailed(w) \/ SwapCatalog(w)
               \/ \E s \in States : SaveState(w, s) \/ ImportState(w, s)
               \/ \E id \in Ids : Generate(w, id)
               \/ \E d \in Templates \cup {Broken} : PutTemplate(w, d)
        PROVE  got'[v] # NoTemplate
    BY <1>4, <2>2 DEF CatalogInv, Write, LoadState, SaveState, ImportState,
                      ReadId, Generate, Generated, PutTemplate, PutFailed,
                      Written, Idle, DeleteTemplate, ReloadFailed, SwapCatalog,
                      Got, Job
  <2>3. CASE EditByHand \/ Restart \/ UNCHANGED vars
    BY <1>4, <2>3 DEF EditByHand, Restart, vars, dvars, CatalogInv
  <2> QED BY <2>1, <2>2, <2>3 DEF Next
<1> QED BY <1>1, <1>2, <1>3, <1>4 DEF CatalogInv

(* No overlay file, whoever wrote it, and no race between two reloads      *)
(* takes a shipped template out of the catalog.                            *)
THEOREM ShippedKept == Spec => []ShippedStays
<1>1. CatalogInv => ShippedStays
  BY DEF CatalogInv, ShippedStays
<1> QED BY <1>1, CatalogInit, CatalogStep, PTL DEF Spec

-----------------------------------------------------------------------------
(* What the load of an older document hands out.                           *)

LEMMA MigrateMigrates ==
  ASSUME NEW s \in States, s.version < CurrentVersion
  PROVE  /\ Migrate(s).version = CurrentVersion
         /\ Migrate(s).geo \in KnownGeo
         /\ s.version < 2 /\ Migrate(s).stale => Migrate(s).misses # 0
<1> DEFINE m == SeedMisses(s)
           g == SplitGeo(m)
<1>1. s \in [version : Int, stale : BOOLEAN, misses : Int, geo : STRING]
  BY StatesAssumption
<1>2. /\ m \in [version : Int, stale : BOOLEAN, misses : Int, geo : STRING]
      /\ m.version = s.version /\ m.stale = s.stale
      /\ s.version < 2 /\ m.stale => m.misses # 0
  BY <1>1 DEF SeedMisses
<1> HIDE DEF m
<1>3. /\ g = [m EXCEPT !.geo = g.geo]
      /\ g.geo \in KnownGeo
  <2>1. CASE m.geo \in KnownGeo
    <3>1. g = m
      BY <2>1 DEF SplitGeo
    <3> HIDE DEF g
    <3> QED BY <1>2, <2>1, <3>1
  <2>2. CASE m.geo \notin KnownGeo
    <3>1. g = [m EXCEPT !.geo = DefaultGeo]
      BY <1>2, <2>2 DEF SplitGeo, CurrentVersion
    <3>2. DefaultGeo \in KnownGeo
      BY DEF DefaultGeo, KnownGeo
    <3> HIDE DEF g
    <3> QED BY <1>2, <3>1, <3>2
  <2> QED BY <2>1, <2>2
<1>4. Migrate(s) = [g EXCEPT !.version = CurrentVersion]
  BY DEF Migrate, m
<1> HIDE DEF g
<1> QED BY <1>2, <1>3, <1>4

LoadsOlder(w) ==
    /\ kind = "state" /\ file.seen \in States
    /\ file.seen.version < CurrentVersion
    /\ got'[w] \notin {got[w], NoDoc}

LEMMA OlderStep ==
  ASSUME NewerInv, [Next]_vars, NEW w \in Writers, LoadsOlder(w)
  PROVE  got'[w] = Migrate(file.seen)
<1>1. ASSUME NEW v \in Writers, LoadState(v) PROVE got'[w] = Migrate(file.seen)
  <2>1. file.seen # Missing
    BY DataDirAssumption, AtomicFileAssumption DEF LoadsOlder, DocsOf, Kinds
  <2> QED BY <1>1, <2>1 DEF LoadsOlder, LoadState, Got, NewerInv
<1>2. ASSUME NEW v \in Writers,
             \/ Write(v)
             \/ \E s \in States : SaveState(v, s) \/ ImportState(v, s)
      PROVE  FALSE
  BY <1>2 DEF LoadsOlder, Write, SaveState, ImportState, Got, NewerInv
<1>3. ASSUME NEW v \in Writers,
             \/ ReadId(v)      \/ Generated(v)   \/ PutFailed(v) \/ Written(v)
             \/ DeleteTemplate(v) \/ ReadOverlay(v) \/ SwapCatalog(v)
             \/ ReloadFailed(v)
             \/ \E id \in Ids : Generate(v, id)
             \/ \E d \in Templates \cup {Broken} : PutTemplate(v, d)
      PROVE  FALSE
  BY <1>3 DEF LoadsOlder, NewerInv, ReadId, Generated, PutFailed, Written,
              DeleteTemplate, Erase, ReadOverlay, SwapCatalog, ReloadFailed,
              Generate, PutTemplate
<1>4. CASE EditByHand \/ Restart \/ UNCHANGED vars
  BY <1>4 DEF LoadsOlder, EditByHand, Restart, vars, dvars
<1> QED BY <1>1, <1>2, <1>3, <1>4 DEF Next

(* Whatever document of an older version lies in the file, what its load   *)
(* hands out has been through every migration from that version on.        *)
THEOREM LoadsMigrated == Spec => OlderMigrated
<1>1. Init => FInv /\ NewerInv
  BY InitInv, NewerInit DEF Init
<1>2. FInv /\ NewerInv /\ [Next]_vars => FInv' /\ NewerInv'
  BY NewerStep, StepImplements, NextInv
<1> DEFINE Done(w) ==
      /\ got'[w].version = CurrentVersion
      /\ got'[w].geo \in KnownGeo
      /\ file.seen.version < 2 /\ got'[w].stale => got'[w].misses # 0
<1>3. ASSUME NewerInv, [Next]_vars PROVE \A w \in Writers : LoadsOlder(w) => Done(w)
  <2> SUFFICES ASSUME NEW w \in Writers, LoadsOlder(w) PROVE Done(w)
    OBVIOUS
  <2>1. got'[w] = Migrate(file.seen)
    BY <1>3, OlderStep
  <2>2. file.seen \in States /\ file.seen.version < CurrentVersion
    BY DEF LoadsOlder
  <2> QED BY <2>1, <2>2, MigrateMigrates
<1>4. NewerInv /\ [Next]_vars => [\A w \in Writers : LoadsOlder(w) => Done(w)]_vars
  BY <1>3
<1> QED BY <1>1, <1>2, <1>4, PTL DEF Spec, OlderMigrated, LoadsOlder

-----------------------------------------------------------------------------
(* Types.                                                                  *)

Entries == Templates \cup {Shipped, NoTemplate}

TypeInv ==
    /\ DOMAIN got = Writers
    /\ TypeOK
    /\ \A w \in Writers : job[w] = "swap" => got[w] \in Entries

LEMMA TypeStep == FTypeOK' /\ TypeInv /\ [Next]_vars => TypeInv'
<1> SUFFICES ASSUME TypeInv, [Next]_vars, FTypeOK' PROVE TypeInv'
  OBVIOUS
<1>1. shipped' = shipped
  BY DEF Next, vars, dvars, Write, LoadState, SaveState, ImportState, ReadId,
         Generate, Generated, PutTemplate, PutFailed, Written, DeleteTemplate,
         ReadOverlay, ReloadFailed, SwapCatalog, EditByHand, Restart
<1>2. DOMAIN got' = Writers
  BY DEF TypeInv, Next, vars, dvars, Write, LoadState, SaveState, ImportState,
         ReadId, Generate, Generated, PutTemplate, PutFailed, Written,
         DeleteTemplate, ReadOverlay, ReloadFailed, SwapCatalog, EditByHand,
         Restart, Got
<1>3. job' \in [Writers -> {"none", "failed", "import", "generate", "put",
                           "reload", "swap"}]
  <2>1. CASE \E w \in Writers, j \in {"none", "failed", "import", "generate", "put",
                                    "reload", "swap"} : Job(w, j)
    BY <2>1 DEF Job, TypeInv, TypeOK
  <2>2. CASE job' = job
    BY <2>2 DEF TypeInv, TypeOK
  <2>3. CASE Restart
    BY <2>3 DEF Restart
  <2> QED BY <2>1, <2>2, <2>3 DEF Next, vars, dvars, Write, LoadState,
       SaveState, ImportState, ReadId, Generate, Generated, PutTemplate,
       PutFailed, Written, DeleteTemplate, ReadOverlay, ReloadFailed,
       SwapCatalog, EditByHand
<1>4. stored' \in SUBSET Ids
  BY DEF TypeInv, TypeOK, Next, vars, dvars, Write, LoadState, SaveState,
         ImportState, ReadId, Generate, Generated, PutTemplate, PutFailed,
         Written, DeleteTemplate, ReadOverlay, ReloadFailed, SwapCatalog,
         EditByHand, Restart
<1>5. \A c : Merged(c) \in Entries
  BY DEF TypeInv, TypeOK, Merged, Entries
<1>6. catalog' \in Entries
  BY <1>5 DEF TypeInv, TypeOK, Entries, Next, vars, dvars, Write, LoadState,
         SaveState, ImportState, ReadId, Generate, Generated, PutTemplate,
         PutFailed, Written, DeleteTemplate, ReadOverlay, ReloadFailed,
         SwapCatalog, EditByHand, Restart
<1>7. ASSUME NEW v \in Writers, job'[v] = "swap" PROVE got'[v] \in Entries
  <2>1. ASSUME NEW w \in Writers, ReadOverlay(w) PROVE got'[v] \in Entries
    BY <1>5, <1>7, <2>1 DEF ReadOverlay, Job, Got, TypeInv, TypeOK
  <2>2. ASSUME NEW w \in Writers,
               \/ Write(w) \/ LoadState(w) \/ ReadId(w) \/ Generated(w)
               \/ PutFailed(w) \/ Written(w) \/ DeleteTemplate(w)
               \/ ReloadFailed(w) \/ SwapCatalog(w)
               \/ \E s \in States : SaveState(w, s) \/ ImportState(w, s)
               \/ \E id \in Ids : Generate(w, id)
               \/ \E d \in Templates \cup {Broken} : PutTemplate(w, d)
        PROVE  got'[v] \in Entries
    BY <1>7, <2>2 DEF TypeInv, TypeOK, Write, LoadState, SaveState, ImportState,
                      ReadId, Generate, Generated, PutTemplate, PutFailed,
                      Written, Idle, DeleteTemplate, ReloadFailed, SwapCatalog,
                      Got, Job
  <2>3. CASE EditByHand \/ Restart \/ UNCHANGED vars
    BY <1>7, <2>3 DEF EditByHand, Restart, vars, dvars, TypeInv
  <2> QED BY <2>1, <2>2, <2>3 DEF Next
<1> QED BY <1>1, <1>2, <1>3, <1>4, <1>6, <1>7 DEF TypeInv, TypeOK, Entries

(* Types: whatever lies in the overlay directory, the catalog holds an     *)
(* accepted template, the shipped one, or none.                            *)
THEOREM TypeCorrect == Spec => []TypeOK
<1>1. Init => FInv /\ TypeInv
  <2> SUFFICES ASSUME Init PROVE TypeInv
    BY InitInv DEF Init
  <2>1. FTypeOK
    BY InitInv DEF Init, FInv
  <2>2. shipped \in {Shipped, NoTemplate} /\ Merged(file.seen) \in Entries
    BY DEF Init, Merged, Entries
  <2> QED BY <2>1, <2>2 DEF Init, TypeInv, TypeOK, Entries
<1>2. FInv /\ TypeInv /\ [Next]_vars => FInv' /\ TypeInv'
  <2>1. FInv /\ [Next]_vars => FInv'
    BY StepImplements, NextInv
  <2>2. FInv' => FTypeOK'
    BY DEF FInv
  <2> QED BY <2>1, <2>2, TypeStep
<1>3. TypeInv => TypeOK
  BY DEF TypeInv
<1> QED BY <1>1, <1>2, <1>3, PTL DEF Spec
=============================================================================
