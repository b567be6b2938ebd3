------------------------------- MODULE Library ------------------------------
(***************************************************************************)
(* A student's sources, their files and folders (apps/sources/views.py,    *)
(* serializers.py, services.py, tasks.py), within the quotas of a plan     *)
(* (can_upload_source and can_create_collection of                         *)
(* apps/subscriptions/services.py).                                        *)
(*                                                                         *)
(* Uploads and new folders are serialised by a lock on the user row; the   *)
(* other handlers take none: a PATCH fetches a row, validates and saves    *)
(* the whole row as it was fetched (inserting it when it is gone), a       *)
(* worker reads the source's status before it locks the row.  Each kind of *)
(* source has one size.                                                    *)
(***************************************************************************)
EXTENDS Integers, FiniteSets, FiniteSetsExt

CONSTANTS
  Sources, Folders,   \* rows that may come to be
  LibProjects,        \* the student's active projects
  LibHandlers,        \* requests and workers at a time
  Quotas,             \* plans: records [sources, storage, folders]
  SizeOf              \* [Kinds -> Nat]: file_size

Kinds == {"text", "audio"}

NoFolder  == "no folder"
NoProject == "no project"
Gone      == "gone"

ASSUME LibraryAssumption ==
  /\ IsFiniteSet(Sources) /\ IsFiniteSet(Folders) /\ LibHandlers # {}
  /\ Gone \notin LibProjects /\ NoFolder \notin Folders
  /\ Quotas \subseteq [sources: Nat, storage: Nat, folders: Nat] /\ Quotas # {}
  /\ SizeOf \in [Kinds -> Nat]

VARIABLES
  quota,      \* the limits of the user's plan
  source,     \* StudentSource rows
  folder,     \* StudentSourceCollection rows: the project
  file,       \* sources whose file is on disk
  queued,     \* sources with a process_source_task message
  worker,     \* what each handler has read and does next
  exceeded,   \* history: beyond the quota without an upload
  revived,    \* history: rows that a stale save inserted again
  parted      \* history: a folder left the project of its sources

libraryVars == <<quota, source, folder, file, queued, worker, exceeded, revived, parted>>

Absent == [kind |-> "none"]
Vacant == [op |-> "vacant"]
MaybeProjects == LibProjects \cup {NoProject}

SourceRow == [kind: Kinds \cup {"derived"}, status: {"uploaded", "ready", "failed"}, text: BOOLEAN,
              folder: Folders \cup {NoFolder}, project: MaybeProjects]

Present     == {s \in Sources : source[s] # Absent}
FoldersMade == {f \in Folders : folder[f] # Gone}

LibraryTypeOK ==
  /\ quota \in Quotas
  /\ \A s \in Sources : source[s] = Absent \/ source[s] \in SourceRow
  /\ \A s \in Present : source[s].folder \in FoldersMade \cup {NoFolder}
  /\ folder \in [Folders -> MaybeProjects \cup {Gone}]
  /\ file \subseteq Sources /\ queued \subseteq Sources /\ revived \subseteq Sources
  /\ DOMAIN source = Sources /\ DOMAIN worker = LibHandlers
  /\ exceeded \in BOOLEAN /\ parted \in BOOLEAN

LibraryInit ==
  /\ quota \in Quotas
  /\ source = [s \in Sources |-> Absent]
  /\ folder = [f \in Folders |-> Gone]
  /\ file = {} /\ queued = {} /\ revived = {}
  /\ worker = [h \in LibHandlers |-> Vacant]
  /\ exceeded = FALSE /\ parted = FALSE

----------------------------------------------------------------------------
(* Quotas *)

Size(kind)  == IF kind = "derived" THEN SizeOf["text"] ELSE SizeOf[kind]
Storage(sr) == MapThenSumSet(LAMBDA s : Size(sr[s].kind), {s \in Sources : sr[s] # Absent})
CountOf(sr)   == Cardinality({s \in Sources : sr[s] # Absent})

Within(q, sr, fo) ==
  /\ CountOf(sr) <= q.sources /\ Storage(sr) <= q.storage
  /\ Cardinality({f \in Folders : fo[f] # Gone}) <= q.folders

(* can_upload_source, of a file that is small enough *)
CanUpload(kind) ==
  /\ CountOf(source) < quota.sources
  /\ Storage(source) + Size(kind) <= quota.storage

CanCreateFolder == Cardinality(FoldersMade) < quota.folders

WorkersIn(op) == {h \in LibHandlers : worker[h].op = op}
UserLocked    == WorkersIn("upload") # {} \/ WorkersIn("folder") # {}

(* What takes no lock may leave the user above the quota, or the upload   *)
(* that holds the lock ...                                                *)
Exceeds(q, sr, fo) == exceeded' = (UserLocked \/ ~ Within(q, sr, fo))
(* ... until there is room again. *)
StillExceeds(sr, fo) == exceeded' = (exceeded /\ (UserLocked' \/ ~ Within(quota, sr, fo)))

Begin(h, job) == worker[h] = Vacant /\ worker' = [worker EXCEPT ![h] = job]
End(h)        == worker' = [worker EXCEPT ![h] = Vacant]

----------------------------------------------------------------------------
(* Upload *)

(* StudentSourceCreateSerializer.validate: a source in a folder that has a *)
(* project belongs to it, another one needs a project.                    *)
Placed(f, p) ==
  IF f \in FoldersMade /\ folder[f] # NoProject
    THEN p \in {folder[f], NoProject} ELSE p # NoProject
ProjectIn(f, p) == IF f \in FoldersMade /\ folder[f] # NoProject THEN folder[f] ELSE p

(* Mutant: the user row is not locked. *)
UploadUnlocked(h, kind, f, p) ==
  /\ CanUpload(kind)
  /\ f \in FoldersMade \cup {NoFolder} /\ Placed(f, p)
  /\ Begin(h, [op |-> "upload", kind |-> kind, folder |-> f, project |-> ProjectIn(f, p)])
  /\ UNCHANGED <<quota, source, folder, file, queued, exceeded, revived, parted>>

(* StudentSourceViewSet.create up to its writes: the user row is locked,  *)
(* the quota and the input are checked.                                   *)
Upload(h, kind, f, p) ==
  /\ ~ UserLocked
  /\ CanUpload(kind)
  /\ f \in FoldersMade \cup {NoFolder} /\ Placed(f, p)
  /\ Begin(h, [op |-> "upload", kind |-> kind, folder |-> f, project |-> ProjectIn(f, p)])
  /\ UNCHANGED <<quota, source, folder, file, queued, exceeded, revived, parted>>

(* A new row's id was never used. *)
FreshSource == {s \in Sources : /\ s \notin Present \cup file \cup queued
                                /\ \A h \in LibHandlers : worker[h].op \in {"patch", "work", "unlink"}
                                                            => worker[h].source # s}

(* The file is written, the row inserted, and the message sent after the  *)
(* commit.                                                                *)
SaveUpload(h) ==
  LET w == worker[h] IN
  /\ w.op = "upload"
  /\ w.folder \in FoldersMade \cup {NoFolder}
  /\ \E s \in FreshSource :
       /\ source' = [source EXCEPT ![s] = [kind |-> w.kind, status |-> "uploaded", text |-> FALSE,
                                           folder |-> w.folder, project |-> w.project]]
       /\ file' = file \cup {s}
       /\ queued' \in {queued, queued \cup {s}}       \* the broker may be away
       /\ revived' = revived \ {s}
  /\ End(h)
  /\ StillExceeds(source', folder)
  /\ UNCHANGED <<quota, folder, parted>>

(* The folder is gone, or the process died: nothing is committed. *)
Abort(h) ==
  /\ worker[h].op \in {"upload", "folder", "patch", "unlink"}
  /\ End(h)
  /\ UNCHANGED <<quota, source, folder, file, queued, exceeded, revived, parted>>

(* _create_derived_text_source: a transcription becomes a source, without *)
(* a file and whatever the quota.                                         *)
Derive(p) ==
  /\ \E s \in FreshSource :
       source' = [source EXCEPT ![s] = [kind |-> "derived", status |-> "ready", text |-> TRUE,
                                        folder |-> NoFolder, project |-> p]]
  /\ Exceeds(quota, source', folder)
  /\ UNCHANGED <<quota, folder, file, queued, worker, revived, parted>>

(* change_user_plan *)
ChangeQuota(q) ==
  /\ q # quota
  /\ quota' = q /\ Exceeds(q, source, folder)
  /\ UNCHANGED <<source, folder, file, queued, worker, revived, parted>>

----------------------------------------------------------------------------
(* Processing *)

(* The process endpoint sends another message. *)
AskProcessing(s) ==
  /\ s \in Present /\ queued' = queued \cup {s}
  /\ UNCHANGED <<quota, source, folder, file, worker, exceeded, revived, parted>>

(* Mutant: the status is not looked at. *)
StartAnyWork(h, s) ==
  /\ s \in queued /\ queued' = queued \ {s}
  /\ IF s \in Present
       THEN Begin(h, [op |-> "work", source |-> s, seen |-> source[s].status])
       ELSE worker[h] = Vacant /\ UNCHANGED worker
  /\ UNCHANGED <<quota, source, folder, file, exceeded, revived, parted>>

(* process_source_task: a source that is gone or ready is left alone.  A  *)
(* delivery may leave its message behind for another one (acks_late).     *)
StartWork(h, s) ==
  /\ s \in queued /\ queued' \in {queued, queued \ {s}}
  /\ IF s \in Present /\ source[s].status # "ready"
       THEN Begin(h, [op |-> "work", source |-> s, seen |-> source[s].status])
       ELSE worker[h] = Vacant /\ UNCHANGED worker
  /\ UNCHANGED <<quota, source, folder, file, exceeded, revived, parted>>

(* process_source, one transaction on the locked row.  Any failure to     *)
(* read the file is answered with FAILED; only some columns are saved.    *)
Processed(row, readable) ==
  [row EXCEPT !.status = IF ~ readable THEN "failed" ELSE IF row.kind = "audio" THEN "uploaded" ELSE "ready",
              !.text   = (@ \/ (readable /\ row.kind # "audio"))]

Work(h) ==
  LET s == worker[h].source IN
  /\ worker[h].op = "work"
  /\ IF s \in Present
       THEN \E readable \in IF s \in file THEN BOOLEAN ELSE {FALSE} :
              source' = [source EXCEPT ![s] = Processed(@, readable)]
       ELSE UNCHANGED source                       \* DoesNotExist
  /\ End(h)
  /\ UNCHANGED <<quota, folder, file, queued, exceeded, revived, parted>>

----------------------------------------------------------------------------
(* Changing a source *)

(* Mutant: the folder's project is not taken over. *)
UpdatedAside(row, f, p) == [row EXCEPT !.folder = f, !.project = p]

(* StudentSourceUpdateSerializer.validate *)
Updated(row, f, p) == [row EXCEPT !.folder = f, !.project = ProjectIn(f, p)]

(* partial_update: p is the project given, or the one the source has.     *)
FetchSource(h, s, f, p) ==
  /\ s \in Present /\ f \in FoldersMade \cup {NoFolder}
  /\ f # NoFolder /\ folder[f] # NoProject => p \in {folder[f], NoProject}
  /\ Begin(h, [op |-> "patch", source |-> s, row |-> Updated(source[s], f, p)])
  /\ UNCHANGED <<quota, source, folder, file, queued, exceeded, revived, parted>>

SaveSource(h) ==
  LET w == worker[h] IN
  /\ w.op = "patch" /\ w.row.folder \in FoldersMade \cup {NoFolder}
  /\ source' = [source EXCEPT ![w.source] = w.row]
  /\ revived' = IF w.source \in Present THEN revived ELSE revived \cup {w.source}
  /\ IF w.source \in Present THEN UNCHANGED exceeded ELSE Exceeds(quota, source', folder)
  /\ End(h)
  /\ UNCHANGED <<quota, folder, file, queued, parted>>

(* Mutant: the file goes first. *)
UnlinkFirst(h, s) ==
  /\ s \in Present
  /\ file' = file \ {s}
  /\ Begin(h, [op |-> "unlink", source |-> s])
  /\ UNCHANGED <<quota, source, folder, queued, exceeded, revived, parted>>

(* perform_destroy, and AdminSourceViewSet.destroy: the row goes ... *)
DeleteSource(h, s) ==
  /\ s \in Present
  /\ source' = [source EXCEPT ![s] = Absent]
  /\ Begin(h, [op |-> "unlink", source |-> s])
  /\ StillExceeds(source', folder)
  /\ UNCHANGED <<quota, folder, file, queued, revived, parted>>

(* ... and then the file, if the process lives. *)
Unlink(h) ==
  /\ worker[h].op = "unlink"
  /\ file' = file \ {worker[h].source}
  /\ End(h)
  /\ UNCHANGED <<quota, source, folder, queued, exceeded, revived, parted>>

----------------------------------------------------------------------------
(* Folders *)

CreateFolder(h, p) ==
  /\ ~ UserLocked /\ CanCreateFolder /\ p \in LibProjects
  /\ Begin(h, [op |-> "folder", project |-> p])
  /\ UNCHANGED <<quota, source, folder, file, queued, exceeded, revived, parted>>

FreshFolder == {f \in Folders : /\ folder[f] = Gone
                                /\ \A h \in LibHandlers :
                                     /\ worker[h].op \in {"refolder", "unfolder", "upload"} => worker[h].folder # f
                                     /\ worker[h].op = "patch" => worker[h].row.folder # f}

SaveFolder(h) ==
  /\ worker[h].op = "folder"
  /\ \E f \in FreshFolder : folder' = [folder EXCEPT ![f] = worker[h].project]
  /\ End(h)
  /\ UNCHANGED <<quota, source, file, queued, exceeded, revived, parted>>

(* partial_update of a folder: its project may change, or be none; its    *)
(* sources keep theirs.                                                   *)
FetchFolder(h, f, p) ==
  /\ f \in FoldersMade
  /\ Begin(h, [op |-> "refolder", folder |-> f, project |-> p])
  /\ UNCHANGED <<quota, source, folder, file, queued, exceeded, revived, parted>>

Joining(f) == {s \in Present : source[s].folder = f} # {}
              \/ \E h \in LibHandlers :
                   \/ worker[h].op = "upload" /\ worker[h].folder = f
                   \/ worker[h].op = "patch" /\ worker[h].row.folder = f

SaveFolderAgain(h) ==
  LET w == worker[h] IN
  /\ w.op = "refolder"
  /\ folder' = [folder EXCEPT ![w.folder] = w.project]
  /\ IF folder[w.folder] = Gone THEN Exceeds(quota, source, folder') ELSE UNCHANGED exceeded
  /\ parted' = (parted \/ (Joining(w.folder) /\ folder[w.folder] # w.project))
  /\ End(h)
  /\ UNCHANGED <<quota, source, file, queued, revived>>

(* destroy refuses a folder that has sources ... *)
FetchEmptyFolder(h, f) ==
  /\ f \in FoldersMade /\ \A s \in Present : source[s].folder # f
  /\ Begin(h, [op |-> "unfolder", folder |-> f])
  /\ UNCHANGED <<quota, source, folder, file, queued, exceeded, revived, parted>>

(* ... and lets go of those that came meanwhile (SET_NULL). *)
DeleteFolder(h) ==
  LET f == worker[h].folder IN
  /\ worker[h].op = "unfolder"
  /\ folder' = [folder EXCEPT ![f] = Gone]
  /\ source' = [s \in Sources |-> IF s \in Present /\ source[s].folder = f
                                    THEN [source[s] EXCEPT !.folder = NoFolder] ELSE source[s]]
  /\ End(h)
  /\ StillExceeds(source', folder')
  /\ UNCHANGED <<quota, file, queued, revived, parted>>

(* Uploads, changes and deletions, with these choices. *)
SourceStep(kinds, fs, ps) ==
  \E h \in LibHandlers :
    \/ \E kind \in kinds, f \in fs, p \in ps : Upload(h, kind, f, p)
    \/ SaveUpload(h) \/ Abort(h)
    \/ \E s \in Sources :
         \/ DeleteSource(h, s)
         \/ \E f \in fs, p \in ps : FetchSource(h, s, f, p)
    \/ Unlink(h) \/ SaveSource(h)

WorkStep(ps) ==
  \/ \E h \in LibHandlers : Work(h) \/ \E s \in Sources : StartWork(h, s)
  \/ \E s \in Sources : AskProcessing(s)
  \/ \E p \in ps : Derive(p)
  \/ \E q \in Quotas : ChangeQuota(q)

FolderStep ==
  \E h \in LibHandlers :
    \/ \E p \in LibProjects : CreateFolder(h, p)
    \/ SaveFolder(h)
    \/ \E f \in Folders, p \in MaybeProjects : FetchFolder(h, f, p)
    \/ SaveFolderAgain(h)
    \/ \E f \in Folders : FetchEmptyFolder(h, f)
    \/ DeleteFolder(h)

LibraryNext ==
  \/ SourceStep(Kinds, Folders \cup {NoFolder}, MaybeProjects)
  \/ WorkStep(LibProjects)
  \/ FolderStep

LibrarySpec == LibraryInit /\ [][LibraryNext]_libraryVars

----------------------------------------------------------------------------
(* Properties *)

(* However uploads overlap, sources, storage and folders stay within the   *)
(* plan; only a smaller plan, a derived source or a row that a stale save  *)
(* brought back goes beyond, and nothing is added until there is room.     *)
WithinQuota == exceeded \/ Within(quota, source, folder)

(* A source can be opened: its file is there from the commit of its row to *)
(* its deletion, whatever dies in between.                                 *)
FileOfSource ==
  \A s \in Present : source[s].kind # "derived" /\ s \notin revived => s \in file

(* A source and its folder belong to the same project, until a folder that *)
(* has sources, or is getting one, moves to another project.               *)
SourceInProjectOfFolder ==
  parted \/ \A s \in Present :
    source[s].folder # NoFolder => folder[source[s].folder] \in {source[s].project, NoProject}

(* A source that is ready has its text, and stops being ready only by the  *)
(* work of a handler that read it before it was.                           *)
ReadyStaysReady ==
  [][\A s \in Present : source[s].status = "ready" =>
       /\ source[s].kind # "audio" /\ source[s].text
       /\ \/ source'[s] = Absent \/ source'[s].status = "ready"
          \/ \E h \in LibHandlers :
               \/ worker[h].op = "work" /\ worker[h].source = s /\ worker[h].seen # "ready"
               \/ worker[h].op = "patch" /\ worker[h].source = s /\ worker[h].row.status # "ready"]_libraryVars

=============================================================================
