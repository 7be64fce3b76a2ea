-------------------------------- MODULE DataDir --------------------------------
(***************************************************************************)
(* One file of the data directory and those who use it:                    *)
(*   state     store.Load with its migrations, store.Save, and the import  *)
(*             handler, which saves without a load;                        *)
(*   hwid      Manager.Load, which generates the identity on first use,    *)
(*             and Manager.Reset;                                          *)
(*   template  the overlay file of a template, the handlers that write and *)
(*             delete it, LoadMerged, and the catalog the server holds.    *)
(* The files have different names, so one behaviour follows one of them.   *)
(***************************************************************************)
EXTENDS AtomicFile

CONSTANTS
    States,     \* state documents: [version, stale, misses, geo]
    Ids,        \* hardware identities
    Templates,  \* templates the loader accepts
    Broken,     \* an overlay file the loader refuses
    Shipped,    \* the shipped template of this id
    NoTemplate  \* the shipped set has none, or the catalog holds none

DocsOf == [state |-> States, hwid |-> Ids,
           template |-> Templates \cup {Broken}]

ASSUME DataDirAssumption ==
    /\ Docs = UNION {DocsOf[k] : k \in Kinds}
    /\ Shipped \notin Docs
    /\ NoTemplate \notin Docs

VARIABLES
    job,      \* what a goroutine is doing
    got,      \* what it has read: a document, an identity, a catalog entry
    stored,   \* every identity the file ever held
    shipped,  \* the entry of the shipped catalog; it never changes
    catalog   \* the entry of Server.Catalog

dvars == <<job, got, stored, shipped, catalog>>
vars  == <<fvars, dvars>>

Idle(w) == job[w] \in {"none", "failed"} /\ pc[w] = "rest"

Job(w, j) == job' = [job EXCEPT ![w] = j]

Got(w, x) == got' = [got EXCEPT ![w] = x]

-----------------------------------------------------------------------------
(* state.json. *)

CurrentVersion == 3
KnownGeo       == {"runetfreedom", "metacubex"}    \* what migrate keeps
GeoSources     == KnownGeo \cup {"custom"}         \* what the generator resolves
DefaultGeo     == "runetfreedom"
DefaultState   == [version |-> CurrentVersion, stale |-> FALSE, misses |-> 0,
                   geo |-> DefaultGeo]

(* v1 to v2: a stale server has missed one answer. *)
SeedMisses(s) ==
    IF s.version < 2 /\ s.stale /\ s.misses = 0 THEN [s EXCEPT !.misses = 1] ELSE s

(* v2 to v3: the two geodata sources come from the single one, if it is    *)
(* one of the known two.                                                   *)
SplitGeo(s) ==
    IF s.version < 3 /\ s.geo \notin KnownGeo
    THEN [s EXCEPT !.geo = DefaultGeo] ELSE s

(* Any document may lie in the file: the user may have imported or edited *)
(* it.                                                                     *)
ASSUME StatesAssumption ==
    States \subseteq [version : Int, stale : BOOLEAN, misses : Int, geo : STRING]

(* Mutant: a v1 document is taken for a v2 one. *)
MigrateGeoOnly(s) == [SplitGeo(s) EXCEPT !.version = CurrentVersion]

Migrate(s) == [SplitGeo(SeedMisses(s)) EXCEPT !.version = CurrentVersion]

(* Mutant: a document of any version is loaded. *)
LoadAnyVersion(w) ==
    /\ kind = "state" /\ Idle(w)
    /\ \/ file.seen = Missing /\ Got(w, DefaultState)
       \/ file.seen \in States /\ Got(w, Migrate(file.seen))
    /\ UNCHANGED <<fvars, job, stored, shipped, catalog>>

Newer(c) == c \in States /\ c.version > CurrentVersion

(* Load: a missing file is a first start; a torn one, or one of a newer    *)
(* version, is an error and nothing is read.                               *)
LoadState(w) ==
    /\ kind = "state" /\ Idle(w)
    /\ \/ file.seen = Missing /\ Got(w, DefaultState)
       \/ /\ file.seen \in States
          /\ ~Newer(file.seen)
          /\ Got(w, Migrate(file.seen))
    /\ UNCHANGED <<fvars, job, stored, shipped, catalog>>

(* What a handler or the updater makes of the state it loaded; Save stamps *)
(* the version.                                                            *)
SaveState(w, d) ==
    /\ kind = "state" /\ Idle(w)
    /\ got[w] # NoDoc
    /\ d.version = CurrentVersion
    /\ Begin(w, d)
    /\ Got(w, NoDoc)
    /\ UNCHANGED <<job, stored, shipped, catalog>>

(* POST /import: the document of a request is saved, and nothing is loaded. *)
(* The version of the envelope is checked, that of the document and that   *)
(* of the file are not: the document is stamped without being migrated.    *)
(* An old one has no geodata field, which the decoder refuses, and the     *)
(* sources of this version, which the generator wants.                     *)
ImportState(w, d) ==
    /\ kind = "state" /\ Idle(w)
    /\ d.version = CurrentVersion
    /\ d.geo \in GeoSources
    /\ Begin(w, d)
    /\ Job(w, "import")
    /\ Got(w, NoDoc)
    /\ UNCHANGED <<stored, shipped, catalog>>

-----------------------------------------------------------------------------
(* The hardware identity. *)

(* readFile finds a valid identity. *)
ReadId(w) ==
    /\ kind = "hwid" /\ Idle(w)
    /\ file.seen \in Ids
    /\ Got(w, file.seen)
    /\ UNCHANGED <<fvars, job, stored, shipped, catalog>>

(* Generate, by Reset or by a Load that could not read the file, whatever  *)
(* it holds: a fresh salt makes an identity nobody has.  Without a MAC, or *)
(* without randomness, it returns before it writes.                        *)
Generate(w, id) ==
    /\ kind = "hwid" /\ Idle(w)
    /\ id \in Ids \ (stored \cup {doc[v] : v \in Writers})
    /\ Begin(w, id)
    /\ Job(w, "generate")
    /\ Got(w, NoDoc)
    /\ UNCHANGED <<stored, shipped, catalog>>

(* Mutant: the identity is handed out though it was not saved. *)
GeneratedAnyway(w) ==
    /\ job[w] = "generate" /\ pc[w] = "rest"
    /\ Job(w, "none")
    /\ Got(w, doc[w])
    /\ UNCHANGED <<fvars, stored, shipped, catalog>>

(* Generate returns the identity if it was saved. *)
Generated(w) ==
    /\ job[w] = "generate" /\ pc[w] = "rest"
    /\ Job(w, "none")
    /\ IF reply[w] = "ok" THEN Got(w, doc[w]) ELSE UNCHANGED got
    /\ UNCHANGED <<fvars, stored, shipped, catalog>>

-----------------------------------------------------------------------------
(* The template catalog. *)

(* Mutant: a broken overlay file takes the shipped entry away. *)
MergedStrict(c) ==
    IF c \in Templates THEN c ELSE IF c = Missing THEN shipped ELSE NoTemplate

(* Mutant: the file is not parsed and checked. *)
MergedRaw(c) == IF c = Missing THEN shipped ELSE c

(* LoadMerged: an overlay file replaces the shipped entry; one that is     *)
(* broken is skipped with a warning.                                       *)
Merged(c) == IF c \in Templates THEN c ELSE shipped

(* POST, and PUT, which wants the id in the catalog.  validateTemplateIn   *)
(* only looks for the payload file of a provider, so the loader may refuse *)
(* what is written.                                                        *)
PutTemplate(w, d) ==
    /\ kind = "template" /\ Idle(w)
    /\ Begin(w, d)
    /\ Job(w, "put")
    /\ UNCHANGED <<got, stored, shipped, catalog>>

(* WriteOverlay failed: the reply is an error. *)
PutFailed(w) ==
    /\ job[w] = "put" /\ pc[w] = "rest" /\ reply[w] = "error"
    /\ Job(w, "failed")
    /\ UNCHANGED <<fvars, got, stored, shipped, catalog>>

Written(w) ==
    /\ job[w] = "put" /\ pc[w] = "rest" /\ reply[w] = "ok"
    /\ Job(w, "reload")
    /\ UNCHANGED <<fvars, got, stored, shipped, catalog>>

(* DELETE: the id is in the catalog and there is an overlay file. *)
DeleteTemplate(w) ==
    /\ Idle(w)
    /\ catalog # NoTemplate
    /\ Erase
    /\ Job(w, "reload")
    /\ UNCHANGED <<got, stored, shipped, catalog>>

(* ReloadCatalog in two steps: LoadMerged reads the directories, then the  *)
(* pointer is replaced; no lock is held.                                   *)
ReadOverlay(w) ==
    /\ job[w] = "reload"
    /\ Job(w, "swap")
    /\ Got(w, Merged(file.seen))
    /\ UNCHANGED <<fvars, stored, shipped, catalog>>

(* A directory that cannot be read leaves the catalog; the reply is an     *)
(* error.                                                                  *)
ReloadFailed(w) ==
    /\ job[w] = "reload"
    /\ Job(w, "failed")
    /\ UNCHANGED <<fvars, got, stored, shipped, catalog>>

(* The reply, an error when the loader refused what was put, changes        *)
(* nothing any more.                                                       *)
SwapCatalog(w) ==
    /\ job[w] = "swap"
    /\ Job(w, "none")
    /\ catalog' = got[w]
    /\ Got(w, NoDoc)
    /\ UNCHANGED <<fvars, stored, shipped>>

EditByHand == CopyByHand(Broken) /\ UNCHANGED dvars

-----------------------------------------------------------------------------
(* The daemon starts again after a fault: what it held in memory is gone   *)
(* and the catalog is loaded from the disk.                                *)
Restart ==
    /\ Kill \/ PowerCut
    /\ job' = [w \in Writers |-> "none"]
    /\ got' = [w \in Writers |-> NoDoc]
    /\ catalog' = IF kind = "template" THEN Merged(file'.seen) ELSE NoTemplate
    /\ UNCHANGED <<stored, shipped>>

Init ==
    /\ FInit
    /\ file.seen \in DocsOf[kind] \cup {Missing}
    /\ job = [w \in Writers |-> "none"]
    /\ got = [w \in Writers |-> NoDoc]
    /\ stored = {file.seen} \cap Ids
    /\ shipped \in IF kind = "template" THEN {Shipped, NoTemplate} ELSE {NoTemplate}
    /\ catalog = IF kind = "template" THEN Merged(file.seen) ELSE NoTemplate

(* A step of one of the three write functions; an import ends with it. *)
Write(w) ==
    /\ WriterStep(w)
    /\ IF job[w] = "import" /\ pc'[w] = "rest" THEN Job(w, "none") ELSE UNCHANGED job
    /\ stored' = stored \cup ({file'.seen} \cap Ids)
    /\ UNCHANGED <<got, shipped, catalog>>

Next ==
    \/ \E w \in Writers :
         \/ Write(w)
         \/ LoadState(w)
         \/ \E s \in States : SaveState(w, s) \/ ImportState(w, s)
         \/ ReadId(w)
         \/ \E id \in Ids : Generate(w, id)
         \/ Generated(w)
         \/ \E d \in Templates \cup {Broken} : PutTemplate(w, d)
         \/ PutFailed(w)
         \/ Written(w)
         \/ DeleteTemplate(w)
         \/ ReadOverlay(w)
         \/ ReloadFailed(w)
         \/ SwapCatalog(w)
    \/ EditByHand
    \/ Restart

Spec == Init /\ [][Next]_vars

-----------------------------------------------------------------------------

(* Types; the catalog only ever holds an accepted template, the shipped    *)
(* one, or none, whatever lies in the overlay directory.                   *)
TypeOK ==
    /\ FTypeOK
    /\ job \in [Writers -> {"none", "failed", "import", "generate", "put",
                            "reload", "swap"}]
    /\ stored \in SUBSET Ids
    /\ shipped \in {Shipped, NoTemplate}
    /\ catalog \in Templates \cup {Shipped, NoTemplate}

(* A load of an older document hands out one of this version that has      *)
(* been through each migration from its own version on: a stale server of  *)
(* v1 has missed an answer, the sources of v2 are known (store.go:105).    *)
OlderMigrated ==
    [][\A w \in Writers :
         /\ kind = "state" /\ file.seen \in States
         /\ file.seen.version < CurrentVersion
         /\ got'[w] \notin {got[w], NoDoc}
         => /\ got'[w].version = CurrentVersion
            /\ got'[w].geo \in KnownGeo
            /\ file.seen.version < 2 /\ got'[w].stale => got'[w].misses # 0]_vars

(* A state of a newer WellBoard is replaced by an import and by nothing    *)
(* else: no handler, updater, crash or power cut makes it another, since   *)
(* nobody gets a document to save from it (store.go:39-41, downgrades are  *)
(* unsupported).                                                           *)
OnlyImportReplaces ==
    [][kind = "state" /\ Newer(file.seen) /\ file'.seen # file.seen =>
         \E w \in Writers : job[w] = "import" /\ pc[w] = "rename"]_vars

(* What the import handler says of itself: "the store's own too-new check  *)
(* runs on Save/Load" (export.go:74).  Save has no such check.             *)
NewerKept ==
    [][kind = "state" /\ Newer(file.seen) => file'.seen = file.seen]_vars

(* An identity that was handed out has been in the file: a panel never     *)
(* sees one that was generated and not saved (FR-2.1, "persistently").     *)
(* Two first loads at once may hand out two, and a read that fails makes   *)
(* another.                                                                *)
HandedOutStored ==
    \A w \in Writers : kind = "hwid" /\ got[w] # NoDoc => got[w] \in stored

(* Whatever the overlay directory holds, and whoever writes it, a shipped  *)
(* template or an override of it is in the catalog (templates.go:16, "a    *)
(* user file must never brick the app").                                   *)
ShippedStays == shipped # NoTemplate => catalog # NoTemplate

(* With no handler under way and none that has failed, the catalog is what *)
(* LoadMerged would read (api.go:94, "so the merged view is always         *)
(* current").                                                              *)
CatalogCurrent ==
    /\ kind = "template"
    /\ file.seen # Broken
    /\ \A w \in Writers : Idle(w) /\ job[w] = "none"
    => catalog = Merged(file.seen)
=============================================================================
