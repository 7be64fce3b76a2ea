--------------------------- MODULE AtomicFileProofs ---------------------------
(***************************************************************************)
(* AtomicFile implements Register, whatever the writers and the documents, *)
(* and never leaves a torn file.  The inductive invariant says what a      *)
(* writer's temporary file holds at each step and that the file itself is  *)
(* whole, for readers and on the disk.                                     *)
(***************************************************************************)
EXTENDS AtomicFile, TLAPS

(* A writer on its way to the rename has a document. *)
HasDoc ==
    \A w \in Writers :
        pc[w] \in {"create", "write", "sync", "rename"} => doc[w] \in Docs

(* After the write the temporary file reads as the document. *)
SyncsWhole == \A w \in Writers : pc[w] = "sync" => tmp[w].seen = doc[w]

FileWhole == file.disk = file.seen

FInv == FTypeOK /\ HasDoc /\ SyncsWhole /\ RenamesWhole /\ FileWhole /\ NeverTorn

LEMMA InitInv == FInit => FInv
<1> SUFFICES ASSUME FInit PROVE FInv
  OBVIOUS
<1> USE AtomicFileAssumption
<1>1. PICK c \in Docs \cup {Missing} : file = Whole(c) /\ onDisk = {c}
  BY DEF FInit
<1>2. FTypeOK
  BY <1>1 DEF FInit, FTypeOK, AtRest, Absent, Whole, File, Contents
<1>3. HasDoc /\ SyncsWhole /\ RenamesWhole
  BY DEF FInit, AtRest, HasDoc, SyncsWhole, RenamesWhole
<1>4. FileWhole /\ NeverTorn
  BY <1>1 DEF FileWhole, NeverTorn, Whole
<1> QED BY <1>2, <1>3, <1>4 DEF FInv

LEMMA BeginInv ==
  ASSUME FInv, NEW w \in Writers, NEW d \in Docs, Begin(w, d)
  PROVE  FInv'
<1> USE AtomicFileAssumption DEF FInv, Begin, Goto
<1>1. FTypeOK'
  BY DEF FTypeOK
<1>2. HasDoc'
  BY DEF FTypeOK, HasDoc
<1>3. SyncsWhole' /\ RenamesWhole'
  BY DEF FTypeOK, SyncsWhole, RenamesWhole
<1>4. FileWhole' /\ NeverTorn'
  BY DEF FileWhole, NeverTorn
<1> QED BY <1>1, <1>2, <1>3, <1>4

(* What keeps the types: one writer moves, its temporary file becomes one   *)
(* of the files, and the file itself one whose contents are known.          *)
LEMMA MoveTypes ==
  ASSUME FTypeOK, NEW w \in Writers, NEW t \in File,
         kind' = kind, doc' = doc,
         \E p \in {"rest", "create", "write", "sync", "rename", "dirsync", "remove"} :
            pc' = [pc EXCEPT ![w] = p],
         tmp' = tmp \/ tmp' = [tmp EXCEPT ![w] = t],
         reply' = reply \/ \E r \in {"none", "ok", "error"} : reply' = [reply EXCEPT ![w] = r],
         file' \in File, onDisk' \in SUBSET Contents
  PROVE  FTypeOK'
<1>1. pc' \in [Writers -> {"rest", "create", "write", "sync", "rename",
                            "dirsync", "remove"}]
  BY DEF FTypeOK
<1>2. tmp' \in [Writers -> File]
  BY DEF FTypeOK
<1>3. reply' \in [Writers -> {"none", "ok", "error"}]
  BY DEF FTypeOK
<1> QED BY <1>1, <1>2, <1>3 DEF FTypeOK

LEMMA WriterStepInv ==
  ASSUME FInv, NEW w \in Writers, WriterStep(w)
  PROVE  FInv'
<1> USE AtomicFileAssumption DEF FInv
<1>1. CASE CreateTemp(w)
  <2> USE DEF CreateTemp, Goto, Return
  <2>1. FTypeOK'
    <3>1. Empty \in File
      BY DEF Empty, File, Contents
    <3>2. file' \in File /\ onDisk' \in SUBSET Contents
      BY <1>1 DEF FTypeOK
    <3> QED BY <1>1, <3>1, <3>2, MoveTypes
  <2>2. HasDoc' /\ SyncsWhole' /\ RenamesWhole'
    BY <1>1 DEF FTypeOK, HasDoc, SyncsWhole, RenamesWhole
  <2>3. FileWhole' /\ NeverTorn'
    BY <1>1 DEF FileWhole, NeverTorn
  <2> QED BY <2>1, <2>2, <2>3
<1>2. CASE WriteTemp(w)
  <2> USE DEF WriteTemp, Goto
  <2>1. FTypeOK'
    <3>1. [seen |-> doc[w], disk |-> tmp[w].disk] \in File
      BY <1>2 DEF FTypeOK, HasDoc, File, Contents
    <3>2. file' \in File /\ onDisk' \in SUBSET Contents
      BY <1>2 DEF FTypeOK
    <3> QED BY <1>2, <3>1, <3>2, MoveTypes
  <2>2. HasDoc' /\ RenamesWhole'
    BY <1>2 DEF FTypeOK, HasDoc, RenamesWhole
  <2>3. SyncsWhole'
    <3>1. ASSUME NEW v \in Writers, pc'[v] = "sync" PROVE tmp'[v].seen = doc'[v]
      BY <1>2, <3>1 DEF FTypeOK, SyncsWhole
    <3> QED BY <3>1 DEF SyncsWhole
  <2>4. FileWhole' /\ NeverTorn'
    BY <1>2 DEF FileWhole, NeverTorn
  <2> QED BY <2>1, <2>2, <2>3, <2>4
<1>3. CASE SyncTemp(w)
  <2> USE DEF SyncTemp, Goto
  <2>1. FTypeOK'
    <3>1. Whole(tmp[w].seen) \in File
      BY DEF FTypeOK, File, Whole
    <3>2. file' \in File /\ onDisk' \in SUBSET Contents
      BY <1>3 DEF FTypeOK
    <3> QED BY <1>3, <3>1, <3>2, MoveTypes
  <2>2. HasDoc' /\ SyncsWhole'
    BY <1>3 DEF FTypeOK, File, HasDoc, SyncsWhole
  <2>3. RenamesWhole'
    BY <1>3 DEF FTypeOK, File, HasDoc, SyncsWhole, RenamesWhole, Whole
  <2>4. FileWhole' /\ NeverTorn'
    BY <1>3 DEF FileWhole, NeverTorn
  <2> QED BY <2>1, <2>2, <2>3, <2>4
<1>4. CASE Rename(w)
  <2>1. CASE /\ pc[w] = "rename"
             /\ file' = tmp[w]
             /\ onDisk' = onDisk \cup {tmp[w].disk}
             /\ tmp' = [tmp EXCEPT ![w] = Absent]
             /\ kind' = kind
             /\ doc' = doc
             /\ \/ pc' = [pc EXCEPT ![w] = "dirsync"] /\ reply' = reply
                \/ /\ pc' = [pc EXCEPT ![w] = "rest"]
                   /\ reply' = [reply EXCEPT ![w] = "ok"]
    <3>1. doc[w] \in Docs /\ tmp[w] = Whole(doc[w])
      BY <2>1 DEF RenamesWhole
    <3>2. FTypeOK'
      <4>1. Absent \in File
        BY DEF Absent, File, Contents
      <4>2. file' \in File /\ onDisk' \in SUBSET Contents
        BY <2>1 DEF FTypeOK, File
      <4> QED BY <2>1, <4>1, <4>2, MoveTypes
    <3>3. HasDoc' /\ SyncsWhole' /\ RenamesWhole'
      BY <2>1 DEF FTypeOK, HasDoc, SyncsWhole, RenamesWhole
    <3>4. FileWhole' /\ NeverTorn'
      BY <2>1, <3>1 DEF FileWhole, NeverTorn, Whole
    <3> QED BY <3>2, <3>3, <3>4
  <2>2. CASE Goto(w, "rename", "remove") /\ UNCHANGED <<doc, tmp, file, onDisk, reply>>
    BY <2>2 DEF Goto, FTypeOK, HasDoc, SyncsWhole, RenamesWhole, FileWhole, NeverTorn
  <2> QED BY <1>4, <2>1, <2>2 DEF Rename, Goto, Return
<1>5. CASE SyncDir(w)
  <2> USE DEF SyncDir, Return, Goto
  <2>1. FTypeOK'
    BY <1>5 DEF FTypeOK, File
  <2>2. HasDoc' /\ SyncsWhole' /\ RenamesWhole'
    BY <1>5 DEF FTypeOK, HasDoc, SyncsWhole, RenamesWhole
  <2>3. FileWhole' /\ NeverTorn'
    BY <1>5 DEF FileWhole, NeverTorn
  <2> QED BY <2>1, <2>2, <2>3
<1>6. CASE RemoveTemp(w)
  <2> USE DEF RemoveTemp, Return, Goto
  <2>1. FTypeOK'
    BY <1>6 DEF FTypeOK, Absent, File, Contents
  <2>2. HasDoc' /\ SyncsWhole' /\ RenamesWhole'
    BY <1>6 DEF FTypeOK, HasDoc, SyncsWhole, RenamesWhole
  <2>3. FileWhole' /\ NeverTorn'
    BY <1>6 DEF FileWhole, NeverTorn
  <2> QED BY <2>1, <2>2, <2>3
<1> QED BY <1>1, <1>2, <1>3, <1>4, <1>5, <1>6 DEF WriterStep

LEMMA OutsideInv ==
  ASSUME FInv,
         \/ Erase
         \/ \E d \in Docs : CopyByHand(d)
  PROVE  FInv'
<1> USE AtomicFileAssumption DEF FInv
<1>1. CASE Erase
  BY <1>1 DEF Erase, Absent, FTypeOK, File, Contents, HasDoc, SyncsWhole,
              RenamesWhole, FileWhole, NeverTorn
<1>2. ASSUME NEW d \in Docs, CopyByHand(d) PROVE FInv'
  BY <1>2 DEF CopyByHand, Whole, FTypeOK, File, Contents, HasDoc, SyncsWhole,
              RenamesWhole, FileWhole, NeverTorn
<1> QED BY <1>1, <1>2

LEMMA FaultInv ==
  ASSUME FInv, Kill \/ PowerCut
  PROVE  FInv'
<1> USE AtomicFileAssumption DEF FInv
<1>1. Dead
  BY DEF Kill, PowerCut
<1>2. file' \in File /\ onDisk' \in SUBSET Contents /\ FileWhole' /\ NeverTorn'
  <2>1. CASE Kill
    BY <2>1 DEF Kill, FTypeOK, FileWhole, NeverTorn
  <2>2. CASE PowerCut
    BY <2>2 DEF PowerCut, Whole, FTypeOK, File, Contents, FileWhole, NeverTorn
  <2> QED BY <2>1, <2>2
<1>3. FTypeOK'
  BY <1>1, <1>2 DEF Dead, AtRest, Absent, FTypeOK, File, Contents
<1>4. HasDoc' /\ SyncsWhole' /\ RenamesWhole'
  BY <1>1 DEF Dead, AtRest, HasDoc, SyncsWhole, RenamesWhole
<1> QED BY <1>2, <1>3, <1>4

LEMMA NextInv == FInv /\ [FNext]_fvars => FInv'
<1> SUFFICES ASSUME FInv, [FNext]_fvars PROVE FInv'
  OBVIOUS
<1>1. CASE FNext
  BY <1>1, BeginInv, WriterStepInv, OutsideInv, FaultInv DEF FNext
<1>2. CASE UNCHANGED fvars
  BY <1>2 DEF fvars, FInv, FTypeOK, HasDoc, SyncsWhole, RenamesWhole,
              FileWhole, NeverTorn
<1> QED BY <1>1, <1>2

(* The type invariant of the protocol. *)
THEOREM FTypeCorrect == FSpec => []FTypeOK
<1>1. FInv => FTypeOK
  BY DEF FInv
<1> QED BY <1>1, InitInv, NextInv, PTL DEF FSpec

(* No reader, and nobody after a power cut, finds a torn file. *)
THEOREM NoTornFile == FSpec => []NeverTorn
<1>1. FInv => NeverTorn
  BY DEF FInv
<1> QED BY <1>1, InitInv, NextInv, PTL DEF FSpec

(* What is renamed over the file is whole and on the disk. *)
THEOREM RenameIsWhole == FSpec => []RenamesWhole
<1>1. FInv => RenamesWhole
  BY DEF FInv
<1> QED BY <1>1, InitInv, NextInv, PTL DEF FSpec

-----------------------------------------------------------------------------
(* The refinement: each step is a step of Register or leaves it alone. *)

LEMMA InitRefines == FInit => R!RInit
<1> SUFFICES ASSUME FInit PROVE R!RInit
  OBVIOUS
<1>1. PICK c \in Docs \cup {Missing} : file = Whole(c) /\ onDisk = {c}
  BY DEF FInit
<1>2. Pending = [w \in Writers |-> NoDoc]
  BY DEF FInit, AtRest, Pending
<1> QED BY <1>1, <1>2 DEF R!RInit, Whole

LEMMA WriterRefines ==
  ASSUME FInv, NEW w \in Writers, WriterStep(w)
  PROVE  R!RNext \/ UNCHANGED <<file.seen, onDisk, Pending>>
<1> USE AtomicFileAssumption DEF FInv
<1>1. CASE CreateTemp(w)
  <2>1. CASE pc' = [pc EXCEPT ![w] = "write"] /\ UNCHANGED <<doc, file, onDisk>>
    BY <1>1, <2>1 DEF CreateTemp, Goto, Return, FTypeOK, Pending
  <2>2. CASE pc' = [pc EXCEPT ![w] = "rest"] /\ UNCHANGED <<doc, file, onDisk>>
    <3>1. Pending' = [Pending EXCEPT ![w] = NoDoc]
      BY <2>2 DEF FTypeOK, Pending
    <3> QED BY <2>2, <3>1 DEF R!RNext, R!RFail
  <2> QED BY <1>1, <2>1, <2>2 DEF CreateTemp, Goto, Return
<1>2. CASE WriteTemp(w)
  <2>1. CASE pc[w] = "write" /\ pc' = [pc EXCEPT ![w] = "sync"]
    <3>1. Pending' = Pending
      BY <1>2, <2>1 DEF WriteTemp, FTypeOK, Pending
    <3> QED BY <1>2, <3>1 DEF WriteTemp
  <2>2. CASE pc' = [pc EXCEPT ![w] = "remove"]
    <3>1. Pending' = [Pending EXCEPT ![w] = NoDoc]
      BY <1>2, <2>2 DEF WriteTemp, FTypeOK, Pending
    <3> QED BY <1>2, <3>1 DEF WriteTemp, R!RNext, R!RFail
  <2> QED BY <1>2, <2>1, <2>2 DEF WriteTemp, Goto
<1>3. CASE SyncTemp(w)
  <2>1. CASE pc[w] = "sync" /\ pc' = [pc EXCEPT ![w] = "rename"]
    <3>1. Pending' = Pending
      BY <1>3, <2>1 DEF SyncTemp, FTypeOK, Pending
    <3> QED BY <1>3, <3>1 DEF SyncTemp
  <2>2. CASE pc' = [pc EXCEPT ![w] = "remove"]
    <3>1. Pending' = [Pending EXCEPT ![w] = NoDoc]
      BY <1>3, <2>2 DEF SyncTemp, FTypeOK, Pending
    <3> QED BY <1>3, <3>1 DEF SyncTemp, R!RNext, R!RFail
  <2> QED BY <1>3, <2>1, <2>2 DEF SyncTemp, Goto
<1>4. CASE Rename(w)
  <2>1. CASE /\ pc[w] = "rename"
             /\ file' = tmp[w]
             /\ onDisk' = onDisk \cup {tmp[w].disk}
             /\ doc' = doc
             /\ \/ pc' = [pc EXCEPT ![w] = "dirsync"]
                \/ pc' = [pc EXCEPT ![w] = "rest"]
    <3>1. doc[w] \in Docs /\ tmp[w] = Whole(doc[w])
      BY <2>1 DEF RenamesWhole
    <3>2. Pending[w] = doc[w]
      BY <2>1 DEF Pending
    <3>3. Pending' = [Pending EXCEPT ![w] = NoDoc]
      BY <2>1 DEF FTypeOK, Pending
    <3>4. file'.seen = doc[w] /\ onDisk' = onDisk \cup {doc[w]}
      BY <2>1, <3>1 DEF Whole
    <3> QED BY <3>1, <3>2, <3>3, <3>4 DEF R!RNext, R!RWrite
  <2>2. CASE pc' = [pc EXCEPT ![w] = "remove"] /\ UNCHANGED <<doc, file, onDisk>>
    <3>1. Pending' = [Pending EXCEPT ![w] = NoDoc]
      BY <2>2 DEF FTypeOK, Pending
    <3> QED BY <2>2, <3>1 DEF R!RNext, R!RFail
  <2> QED BY <1>4, <2>1, <2>2 DEF Rename, Goto, Return
<1>5. CASE SyncDir(w)
  <2>1. Pending' = Pending
    BY <1>5 DEF SyncDir, Return, Goto, FTypeOK, Pending
  <2> QED BY <1>5, <2>1 DEF SyncDir, FileWhole, R!RNext, R!RFlush
<1>6. CASE RemoveTemp(w)
  <2>1. Pending' = Pending
    BY <1>6 DEF RemoveTemp, Return, Goto, FTypeOK, Pending
  <2> QED BY <1>6, <2>1 DEF RemoveTemp
<1> QED BY <1>1, <1>2, <1>3, <1>4, <1>5, <1>6 DEF WriterStep

LEMMA NextRefines ==
  ASSUME FInv, [FNext]_fvars
  PROVE  [R!RNext]_(R!rvars)
<1> USE AtomicFileAssumption DEF FInv
<1>1. ASSUME NEW w \in Writers, NEW d \in Docs, Begin(w, d)
      PROVE  R!RNext
  <2>1. Pending[w] = NoDoc
    BY <1>1 DEF Begin, Goto, Pending
  <2>2. Pending' = [Pending EXCEPT ![w] = d]
    BY <1>1 DEF Begin, Goto, FTypeOK, Pending
  <2> QED BY <1>1, <2>1, <2>2 DEF Begin, R!RNext, R!RCall
<1>2. ASSUME NEW w \in Writers, WriterStep(w) PROVE [R!RNext]_(R!rvars)
  BY <1>2, WriterRefines DEF R!rvars
<1>3. ASSUME Erase PROVE R!RNext
  <2>1. Pending' = Pending
    BY <1>3 DEF Erase, Pending
  <2> QED BY <1>3, <2>1 DEF Erase, Absent, R!RNext, R!RErase
<1>4. ASSUME NEW d \in Docs, CopyByHand(d) PROVE R!RNext
  <2>1. Pending' = Pending
    BY <1>4 DEF CopyByHand, Pending
  <2>2. file'.seen \in Docs /\ onDisk' = {file'.seen}
    BY <1>4 DEF CopyByHand, Whole
  <2> QED BY <2>1, <2>2 DEF R!RNext, R!RReplace
<1>5. ASSUME Kill \/ PowerCut PROVE R!RNext
  <2>1. Pending' = [w \in Writers |-> NoDoc]
    BY <1>5 DEF Kill, PowerCut, Dead, AtRest, Pending
  <2>2. CASE Kill
    BY <2>1, <2>2 DEF Kill, R!RNext, R!RKill
  <2>3. CASE PowerCut
    BY <2>1, <2>3 DEF PowerCut, Whole, R!RNext, R!RPowerCut
  <2> QED BY <1>5, <2>2, <2>3
<1>6. CASE UNCHANGED fvars
  <2>1. Pending' = Pending
    BY <1>6 DEF fvars, Pending
  <2> QED BY <1>6, <2>1 DEF fvars, R!rvars
<1> QED BY <1>1, <1>2, <1>3, <1>4, <1>5, <1>6 DEF FNext

(* A write of the data directory is one atomic write of a register. *)
THEOREM AtomicWrite == FSpec => ImplementsRegister
<1>1. FInit => R!RInit
  BY InitRefines
<1>2. FInv /\ [FNext]_fvars => [R!RNext]_(R!rvars)
  BY NextRefines
<1> QED BY <1>1, <1>2, InitInv, NextInv, PTL DEF FSpec, ImplementsRegister, R!RSpec
=============================================================================
