------------------------------ MODULE AtomicFile ------------------------------
(***************************************************************************)
(* How WellBoard replaces a file of its data directory: store.Save for     *)
(* state.json, Manager.save for hwid, WriteOverlay for a template.  A      *)
(* temporary file is created, written, synced and renamed over the file;   *)
(* Save then syncs the directory.  Nothing keeps two writers apart: the    *)
(* updater does not take Server.mu, and the template handlers take no      *)
(* lock.  Any step may fail, the daemon may die and the power may go       *)
(* between any two.                                                        *)
(***************************************************************************)
EXTENDS Integers, FiniteSets

CONSTANTS
    Writers,    \* goroutines that write the file
    Docs,       \* contents a write may have
    Missing,    \* there is no file
    Torn,       \* a file that is empty or cut short
    NoDoc       \* a writer that has written nothing yet

ASSUME AtomicFileAssumption ==
    /\ Missing \notin Docs
    /\ Torn \notin Docs
    /\ NoDoc \notin Docs
    /\ Missing # Torn

VARIABLES
    kind,    \* which of the three functions writes the file; it never changes
    pc,      \* where a writer is in its function
    doc,     \* the document it writes
    tmp,     \* its temporary file: what a reader sees and what is on disk
    file,    \* the file: what a reader sees and what is on disk
    onDisk,  \* the contents that may be under the name after a power cut
    reply    \* what the last write of the writer returned

fvars == <<kind, pc, doc, tmp, file, onDisk, reply>>

Contents == Docs \cup {Missing, Torn}
File     == [seen : Contents, disk : Contents]

Absent   == [seen |-> Missing, disk |-> Missing]
Empty    == [seen |-> Torn, disk |-> Torn]
Whole(d) == [seen |-> d, disk |-> d]

Kinds == {"state", "hwid", "template"}

AtRest == [w \in Writers |-> "rest"]

FInit ==
    /\ kind \in Kinds
    /\ pc = AtRest
    /\ doc = [w \in Writers |-> NoDoc]
    /\ tmp = [w \in Writers |-> Absent]
    /\ \E c \in Docs \cup {Missing} : file = Whole(c) /\ onDisk = {c}
    /\ reply = [w \in Writers |-> "none"]

Goto(w, from, to) ==
    /\ pc[w] = from
    /\ pc' = [pc EXCEPT ![w] = to]
    /\ UNCHANGED kind

Return(w, from, r) ==
    /\ Goto(w, from, "rest")
    /\ reply' = [reply EXCEPT ![w] = r]
    /\ UNCHANGED doc

-----------------------------------------------------------------------------
(* The steps of a write. *)

Begin(w, d) ==
    /\ Goto(w, "rest", "create")
    /\ doc' = [doc EXCEPT ![w] = d]
    /\ reply' = [reply EXCEPT ![w] = "none"]
    /\ UNCHANGED <<tmp, file, onDisk>>

(* os.MkdirAll and os.CreateTemp; the name is fresh. *)
CreateTemp(w) ==
    \/ /\ Goto(w, "create", "write")
       /\ tmp' = [tmp EXCEPT ![w] = Empty]
       /\ UNCHANGED <<doc, file, onDisk, reply>>
    \/ /\ Return(w, "create", "error")
       /\ UNCHANGED <<tmp, file, onDisk>>

(* Mutant: a short write is not an error. *)
WriteTempUnchecked(w) ==
    /\ Goto(w, "write", "sync")
    /\ \E c \in {doc[w], Torn} : tmp' = [tmp EXCEPT ![w] = [seen |-> c, disk |-> tmp[w].disk]]
    /\ UNCHANGED <<doc, file, onDisk, reply>>

(* A write that fails leaves a torn temporary file for RemoveTemp. *)
WriteTemp(w) ==
    /\ \/ /\ Goto(w, "write", "sync")
          /\ tmp' = [tmp EXCEPT ![w] = [seen |-> doc[w], disk |-> tmp[w].disk]]
       \/ Goto(w, "write", "remove") /\ UNCHANGED tmp
    /\ UNCHANGED <<doc, file, onDisk, reply>>

(* Mutant: the temporary file is not synced before the rename. *)
NoSyncTemp(w) ==
    /\ Goto(w, "sync", "rename")
    /\ UNCHANGED <<tmp, doc, file, onDisk, reply>>

(* Chmod, Sync and Close. *)
SyncTemp(w) ==
    /\ \/ /\ Goto(w, "sync", "rename")
          /\ tmp' = [tmp EXCEPT ![w] = Whole(tmp[w].seen)]
       \/ Goto(w, "sync", "remove") /\ UNCHANGED tmp
    /\ UNCHANGED <<doc, file, onDisk, reply>>

(* The rename takes effect at once for readers; a power cut may undo it    *)
(* until the directory is synced, which only Save does.                    *)
Rename(w) ==
    \/ /\ file' = tmp[w]
       /\ onDisk' = onDisk \cup {tmp[w].disk}
       /\ tmp' = [tmp EXCEPT ![w] = Absent]
       /\ \/ /\ kind = "state"
             /\ Goto(w, "rename", "dirsync")
             /\ UNCHANGED <<doc, reply>>
          \/ kind # "state" /\ Return(w, "rename", "ok")
    \/ /\ Goto(w, "rename", "remove")
       /\ UNCHANGED <<doc, tmp, file, onDisk, reply>>

(* Best effort: a directory that cannot be opened or synced is no error. *)
SyncDir(w) ==
    /\ Return(w, "dirsync", "ok")
    /\ onDisk' \in {{file.disk}, onDisk}
    /\ UNCHANGED <<tmp, file>>

(* The deferred clean-up of a failed write. *)
RemoveTemp(w) ==
    /\ Return(w, "remove", "error")
    /\ tmp' = [tmp EXCEPT ![w] = Absent]
    /\ UNCHANGED <<file, onDisk>>

WriterStep(w) ==
    \/ CreateTemp(w)
    \/ WriteTemp(w)
    \/ SyncTemp(w)
    \/ Rename(w)
    \/ SyncDir(w)
    \/ RemoveTemp(w)

(* DeleteOverlay: the name goes at once, and is as durable as a rename. *)
Erase ==
    /\ kind = "template"
    /\ file.seen # Missing
    /\ file' = Absent
    /\ onDisk' = onDisk \cup {Missing}
    /\ UNCHANGED <<kind, pc, doc, tmp, reply>>

(* The user copies a file of his own into the overlay directory. *)
CopyByHand(d) ==
    /\ kind = "template"
    /\ file' = Whole(d)
    /\ onDisk' = {d}
    /\ UNCHANGED <<kind, pc, doc, tmp, reply>>

-----------------------------------------------------------------------------
(* Faults.  A temporary file that is left behind has a name of its own and *)
(* is never read again.                                                    *)

Dead ==
    /\ UNCHANGED kind
    /\ pc' = AtRest
    /\ doc' = [w \in Writers |-> NoDoc]
    /\ tmp' = [w \in Writers |-> Absent]
    /\ reply' = [w \in Writers |-> "none"]

Kill == Dead /\ UNCHANGED <<file, onDisk>>

PowerCut ==
    /\ Dead
    /\ \E c \in onDisk : file' = Whole(c) /\ onDisk' = {c}

FNext ==
    \/ \E w \in Writers, d \in Docs : Begin(w, d)
    \/ \E w \in Writers : WriterStep(w)
    \/ Erase
    \/ \E d \in Docs : CopyByHand(d)
    \/ Kill
    \/ PowerCut

FSpec == FInit /\ [][FNext]_fvars

-----------------------------------------------------------------------------

FTypeOK ==
    /\ kind \in Kinds
    /\ pc \in [Writers -> {"rest", "create", "write", "sync", "rename",
                           "dirsync", "remove"}]
    /\ doc \in [Writers -> Docs \cup {NoDoc}]
    /\ tmp \in [Writers -> File]
    /\ file \in File
    /\ onDisk \in SUBSET Contents
    /\ reply \in [Writers -> {"none", "ok", "error"}]

(* The writer that is about to rename has its whole document in its        *)
(* temporary file and on disk: what makes the rename atomic under a power  *)
(* cut.                                                                    *)
RenamesWhole ==
    \A w \in Writers : pc[w] = "rename" => doc[w] \in Docs /\ tmp[w] = Whole(doc[w])

(* Whoever reads the file at any time, and whoever reads it after a power  *)
(* cut at any time, finds a whole document or none (store.go:3, "state.json *)
(* is written atomically").                                                *)
NeverTorn == file.seen # Torn /\ Torn \notin onDisk

(* The calls that have not renamed yet. *)
Pending ==
    [w \in Writers |->
       IF pc[w] \in {"create", "write", "sync", "rename"} THEN doc[w] ELSE NoDoc]

R == INSTANCE Register WITH
        Values <- Docs, Unset <- Missing, NoCall <- NoDoc,
        value <- file.seen, kept <- onDisk, call <- Pending

(* The steps of the three functions implement one atomic write. *)
ImplementsRegister == R!RSpec
=============================================================================
