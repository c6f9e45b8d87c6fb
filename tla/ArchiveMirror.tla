---------------------------- MODULE ArchiveMirror ----------------------------
(***************************************************************************)
(* deploy/archive_cloudshell.py, deploy/archive_vm.py and the import of    *)
(* app/merge_archive.py: the objects of the old bucket become rows of the  *)
(* new database, while the bucket is written and, in the new database, the *)
(* compatibility store (app/legacy_store.py) writes rows of its own.       *)
(*                                                                         *)
(* A copy lists the bucket page by page, downloads the generation it       *)
(* listed, notes every file in a checkpoint table and writes a manifest; it*)
(* may die anywhere and starts again with what it noted.  A copy answers a *)
(* request by its id.  An import follows the manifest, object by object,   *)
(* and then compares the database with it.  Bytes are abstracted to the    *)
(* generation they were written as; a checksum is the comparison of those. *)
(***************************************************************************)
EXTENDS Naturals, FiniteSets, FiniteSetsExt

CONSTANTS
  Objects,        \* names, 1 .. n in the order of the listing
  PageSize,
  CopyRequests,       \* ids of copy requests: 1 .. n
  Absent,
  \* bounds of the model, not of the code
  MaxSourceWrites, MaxLocal, MaxCopyFaults

ASSUME MirrorAssumption == IsFiniteSet(Objects) /\ Objects = 1 .. Cardinality(Objects) /\ PageSize \in Nat \ {0}
\* Absent is no note and no row.
ASSUME AbsentIsNoData ==
  /\ Absent \notin [generation : Nat, scan : Nat]
  /\ Absent \notin [content : {"local", "source"} \X Nat, source : {Absent} \cup ({"source"} \X Nat), version : Nat]
  /\ Absent \notin {"local", "source"} \X Nat

VARIABLES
  bucket,         \* [Objects -> generation, 0 when absent]
  copyRequest,        \* request.json
  status,         \* status.json
  copied,          \* [Objects -> generation of the local file, 0 or Absent when damaged]
  noted,          \* checkpoint table: [Objects -> [generation, scan]], committed
  manifest,       \* migration-manifest.json: {<<object, generation>>}, or Absent
  copy,           \* the copy in progress
  rows,           \* legacy_objects: [Objects -> [content, source, version] or Absent]
  import,         \* the import in progress
  receipt,        \* legacy-migration
  changed,        \* history: objects written in the bucket since the request
  raced,          \* history: a local write came between an import's look and its commit
  sourceWrites, locals, copyFaults

bucketVars == <<bucket, changed, sourceWrites>>
copyVars == <<copyRequest, status, copied, noted, manifest, copy>>
rowVars == <<rows, import, receipt, raced, locals>>
mirrorVars == <<bucketVars, copyVars, rowVars, copyFaults>>

AtRest == [pc |-> "idle"]
CopyFault == copyFaults < MaxCopyFaults /\ copyFaults' = copyFaults + 1
Local(n) == <<"local", n>>
Bytes(generation) == <<"source", generation>>

\* Pages, notes and manifests go by name.
Earliest(entries) == CHOOSE entry \in entries : \A other \in entries : entry[1] <= other[1]

MirrorInit ==
  /\ bucket = [o \in Objects |-> 1] /\ changed = {} /\ sourceWrites = 1
  /\ copyRequest = 0 /\ status = [request |-> 0, state |-> "NONE", sum |-> Absent]
  /\ copied = [o \in Objects |-> 0] /\ noted = [o \in Objects |-> Absent]
  /\ manifest = Absent /\ copy = AtRest
  /\ rows = [o \in Objects |-> Absent] /\ import = AtRest /\ receipt = "NONE"
  /\ raced = FALSE /\ locals = 0 /\ copyFaults = 0

\* The old side writes or removes an object.
SourceWrite ==
  /\ sourceWrites < MaxSourceWrites /\ sourceWrites' = sourceWrites + 1
  /\ \E o \in Objects, g \in {0, sourceWrites + 1} : bucket' = [bucket EXCEPT ![o] = g] /\ changed' = changed \cup {o}
  /\ UNCHANGED <<copyVars, rowVars, copyFaults>>

-----------------------------------------------------------------------------
(* The copy                                                                *)

Said(id, state) == [request |-> id, state |-> state, sum |-> manifest]

\* queue: under the lock of the worker, so not while one runs.
\* It may die between its two files.
Queue ==
  /\ copyRequest + 1 \in CopyRequests /\ copy.pc = "idle" /\ import.pc = "idle"
  /\ copyRequest' = copyRequest + 1 /\ changed' = {}
  /\ \/ status' = Said(copyRequest + 1, "PENDING") /\ UNCHANGED copyFaults
     \/ CopyFault /\ UNCHANGED status
  /\ UNCHANGED <<bucket, sourceWrites, copied, noted, manifest, copy, rowVars>>

\* status: what a request is told.
Answered(expected) == status.request = expected /\ status.state = "VERIFIED" /\ status.sum = manifest

\* execute: the worker starts, and again after a failure; a new scan.
Execute ==
  /\ copy.pc = "idle" /\ copyRequest > 0 /\ ~Answered(copyRequest)
  /\ status' = Said(copyRequest, "COPYING")
  /\ copy' = [pc |-> "list", scan |-> Max({0} \cup {noted[o].scan : o \in {p \in Objects : noted[p] # Absent}}) + 1,
              after |-> 0, page |-> {}, done |-> {}, marked |-> {}]
  /\ UNCHANGED <<bucketVars, copyRequest, copied, noted, manifest, rowVars, copyFaults>>

\* pages: the next names in order, with the generations they have now.
ListPage ==
  LET names == {o \in Objects : o > copy.after /\ bucket[o] # 0}
      next == {o \in names : Cardinality({p \in names : p < o}) < PageSize}
  IN /\ copy.pc = "list"
     /\ copy' = IF next = {} THEN [copy EXCEPT !.pc = "manifest"]
                ELSE [copy EXCEPT !.pc = "page", !.page = {<<o, bucket[o]>> : o \in next},
                                  !.after = CHOOSE o \in next : \A p \in next : p <= o]
     /\ UNCHANGED <<bucketVars, copyRequest, status, copied, noted, manifest, rowVars, copyFaults>>

\* download_one: a noted file of this generation that is whole is used again.

Reusable(o, generation) ==
  noted[o] # Absent /\ noted[o].generation = generation /\ copied[o] = generation

\* Downloads of a page run in any order; the listed generation may be gone.
Download(o, generation) ==
  /\ copy.pc = "page" /\ <<o, generation>> \in copy.page
  /\ \/ /\ Reusable(o, generation)
        /\ copy' = [copy EXCEPT !.page = @ \ {<<o, generation>>}, !.marked = @ \cup {o}]
        /\ UNCHANGED copied
     \/ /\ ~Reusable(o, generation) /\ bucket[o] = generation
        /\ copied' = [copied EXCEPT ![o] = generation]
        /\ copy' = [copy EXCEPT !.page = @ \ {<<o, generation>>}, !.done = @ \cup {<<o, generation>>}]
  /\ UNCHANGED <<bucketVars, copyRequest, status, noted, manifest, rowVars, copyFaults>>

\* mirror: a finished download is noted and committed at once, in page order.
Note ==
  /\ copy.pc = "page" /\ copy.done # {}
  /\ LET item == Earliest(copy.done) IN
       /\ \A waiting \in copy.page : item[1] < waiting[1]
       /\ noted' = [noted EXCEPT ![item[1]] = [generation |-> item[2], scan |-> copy.scan]]
       /\ copy' = [copy EXCEPT !.done = @ \ {item}]
  /\ UNCHANGED <<bucketVars, copyRequest, status, copied, manifest, rowVars, copyFaults>>

\* mirror: the notes of reused files are committed with the page.
EndPage ==
  /\ copy.pc = "page" /\ copy.page = {} /\ copy.done = {}
  /\ noted' = [o \in Objects |-> IF o \in copy.marked THEN [noted[o] EXCEPT !.scan = copy.scan] ELSE noted[o]]
  /\ copy' = [copy EXCEPT !.pc = "list", !.marked = {}]
  /\ UNCHANGED <<bucketVars, copyRequest, status, copied, manifest, rowVars, copyFaults>>

\* The manifest lists what this scan noted; an empty bucket is an error.
Listed == {o \in Objects : noted[o] # Absent /\ noted[o].scan = copy.scan}

Manifest ==
  /\ copy.pc = "manifest" /\ Listed # {}
  /\ manifest' = {<<o, noted[o].generation>> : o \in Listed}
  /\ copy' = [copy EXCEPT !.pc = "report"]
  /\ UNCHANGED <<bucketVars, copyRequest, status, copied, noted, rowVars, copyFaults>>

Report ==
  /\ copy.pc = "report" /\ status' = Said(copyRequest, "VERIFIED") /\ copy' = AtRest
  /\ UNCHANGED <<bucketVars, copyRequest, copied, noted, manifest, rowVars, copyFaults>>

\* A listed generation is gone or the bucket empty; or the copy fails or its
\* machine stops; it will be started again.
CopyFails ==
  /\ copy.pc # "idle"
  /\ \/ /\ \/ \E i \in copy.page : bucket[i[1]] # i[2] /\ ~Reusable(i[1], i[2])
           \/ copy.pc = "manifest" /\ Listed = {}
        /\ UNCHANGED copyFaults
     \/ CopyFault
  /\ status' \in {Said(copyRequest, "RETRYING"), status}
  /\ copy' = AtRest
  /\ UNCHANGED <<bucketVars, copyRequest, copied, noted, manifest, rowVars>>

\* A file is damaged on the disk.
Damage(o) ==
  /\ copied[o] \notin {0, Absent} /\ CopyFault /\ copied' = [copied EXCEPT ![o] = Absent]
  /\ UNCHANGED <<bucketVars, copyRequest, status, noted, manifest, copy, rowVars>>

-----------------------------------------------------------------------------
(* The import                                                              *)

\* The verified copy is taken over, then imported under an advisory lock.
Import ==
  /\ import.pc = "idle" /\ copy.pc = "idle" /\ copyRequest > 0 /\ Answered(copyRequest)
  /\ import' = [pc |-> "look", left |-> manifest, entries |-> manifest, copied |-> copied]
  /\ receipt' = "IMPORTING"
  /\ UNCHANGED <<bucketVars, copyVars, rows, raced, locals, copyFaults>>

\* import_file: unchanged, updated, inserted; or a row of the store's own.
Current(row, generation) == row # Absent /\ row.content = Bytes(generation)

\* A plausible error: the row is replaced whoever wrote it.
NoConflict(row) == FALSE

Conflict(row) == row # Absent /\ row.content # row.source

Give(state) == receipt' = state /\ import' = AtRest /\ UNCHANGED <<rows, raced>>

\* One object: its file is read and checked, its row is read.
Look ==
  /\ import.pc = "look" /\ import.left # {}
  /\ LET entry == Earliest(import.left) o == entry[1] row == rows[o] IN
       IF import.copied[o] # entry[2] THEN Give("REVIEW")            \* ARCHIVE_CHECKSUM_MISMATCH
       ELSE IF Current(row, entry[2])
             THEN import' = [import EXCEPT !.left = @ \ {entry}] /\ UNCHANGED <<rows, receipt, raced>>
       ELSE IF Conflict(row) THEN Give("REVIEW")                    \* LOCAL_ARCHIVE_CONFLICT
       ELSE /\ import' = [pc |-> "commit", left |-> import.left \ {entry}, entries |-> import.entries,
                          copied |-> import.copied, entry |-> entry, row |-> row]
            /\ UNCHANGED <<rows, receipt, raced>>
  /\ UNCHANGED <<bucketVars, copyVars, locals, copyFaults>>

\* Its row is written by its name alone; an insert fails on a row that is there.
WriteRow ==
  LET o == import.entry[1] new == Bytes(import.entry[2]) IN
  /\ import.pc = "commit"
  /\ IF import.row = Absent /\ rows[o] # Absent THEN Give("REVIEW")
     ELSE /\ rows' = [rows EXCEPT ![o] = [content |-> new, source |-> new,
                        version |-> IF import.row = Absent THEN 1 ELSE import.row.version + 1]]
          /\ raced' = (raced \/ rows[o] # import.row)
          /\ import' = [pc |-> "look", left |-> import.left, entries |-> import.entries, copied |-> import.copied]
          /\ UNCHANGED receipt
  /\ UNCHANGED <<bucketVars, copyVars, locals, copyFaults>>

\* After all of them the rows are read again, one by one, and compared.
Verify ==
  /\ \/ /\ import.pc = "look" /\ import.left = {}
        /\ import' = [import EXCEPT !.pc = "verify", !.left = import.entries] /\ UNCHANGED <<rows, receipt, raced>>
     \/ /\ import.pc = "verify"
        /\ \/ import.left = {} /\ Give("VERIFIED")
           \/ /\ import.left # {}
              /\ LET entry == Earliest(import.left) IN
                   IF Current(rows[entry[1]], entry[2])
                   THEN import' = [import EXCEPT !.left = @ \ {entry}] /\ UNCHANGED <<rows, receipt, raced>>
                   ELSE Give("REVIEW")            \* DESTINATION_VERIFICATION_FAILED
  /\ UNCHANGED <<bucketVars, copyVars, locals, copyFaults>>

ImportFails == import.pc # "idle" /\ CopyFault /\ Give("REVIEW") /\ UNCHANGED <<bucketVars, copyVars, locals>>

\* put_document: a write of the store over the version it read; write_once.
Put(o) ==
  /\ locals < MaxLocal /\ locals' = locals + 1
  /\ rows' = [rows EXCEPT ![o] = IF @ = Absent THEN [content |-> Local(locals), source |-> Absent, version |-> 1]
                                 ELSE [content |-> Local(locals), source |-> @.source, version |-> @.version + 1]]
  /\ UNCHANGED <<bucketVars, copyVars, import, receipt, raced, copyFaults>>

MirrorNext ==
  \/ SourceWrite \/ Queue \/ Execute \/ ListPage \/ Note \/ EndPage \/ Manifest \/ Report \/ CopyFails
  \/ \E o \in Objects : Damage(o) \/ Put(o) \/ \E g \in 1 .. MaxSourceWrites : Download(o, g)
  \/ Import \/ Look \/ WriteRow \/ Verify \/ ImportFails

MirrorSpec == MirrorInit /\ [][MirrorNext]_mirrorVars

-----------------------------------------------------------------------------
(* Properties                                                              *)

\* A copy that is verified for a request holds every object that has not been
\* written since the request, whatever earlier copies died with, noted or left.
CopyIsWhole ==
  Answered(copyRequest) /\ copyRequest > 0 =>
    \A o \in Objects \ changed :
      IF bucket[o] = 0 THEN \A g \in 1 .. MaxSourceWrites : <<o, g>> \notin manifest
      ELSE <<o, bucket[o]>> \in manifest

\* What an import reports as verified is in the database as the bucket had it when
\* the copy was asked for, or written over by the store since: a damaged file, a
\* conflict or a lost page never passes.
ImportIsWhole ==
  [][receipt # "VERIFIED" /\ receipt' = "VERIFIED" =>
       \A o \in Objects \ changed : bucket[o] # 0 =>
         rows'[o] # Absent /\ (rows'[o].content = Bytes(bucket[o]) \/ rows'[o].source = Bytes(bucket[o]))]_mirrorVars

\* No import replaces what the new database's own store has written, unless the
\* write came between its look at the row and its commit.
LocalKept ==
  [][\A o \in Objects :
       rows[o] # Absent /\ rows[o].content # rows[o].source /\ rows'[o] # rows[o] =>
         rows'[o].content # rows'[o].source \/ raced']_mirrorVars

\* Read beside it: every change of a row is a change of its version.
VersionMoves ==
  [][\A o \in Objects :
       rows[o] # Absent /\ rows'[o] # rows[o] => rows'[o].version > rows[o].version]_mirrorVars

\* Read beside it: an object whose source has not changed since it was imported is
\* no reason for a review.
RetryIsSafe ==
  [][import.pc = "look" /\ receipt' = "REVIEW" =>
       \/ copyFaults' # copyFaults
       \/ \E e \in import.entries : rows[e[1]] # Absent => rows[e[1]].source # Bytes(e[2])]_mirrorVars

\* The import as a whole: complete when it says so, and never over a local write.
ImportSound == ImportIsWhole /\ LocalKept

\* The copy and its import, whatever is written meanwhile.
ArchiveSound == []CopyIsWhole /\ ImportSound
=============================================================================
