------------------------------ MODULE Projects -----------------------------
(***************************************************************************)
(* The projects of one user (apps/projects/models.py, views.py), what is   *)
(* scoped by them, and backfill_project_scoping, which gives a project to  *)
(* everything that has none.                                               *)
(*                                                                         *)
(* One folder, one source, one AI job and one artifact of a job stand for  *)
(* the user's rows.  The command works on a user in one transaction, row   *)
(* by row, on what it read at the beginning of the step, while the owner's *)
(* requests go on; it holds the rows it has written until it commits.  A   *)
(* user who is deleted (softly: the rows stay) is passed over.             *)
(***************************************************************************)
EXTENDS Integers, FiniteSets

CONSTANTS
  ProjectIds,      \* rows of Project that may come to be
  OwnerRequests    \* handlers at a time

Unscoped == "unscoped"
Absent   == "absent"

ASSUME ProjectsAssumption ==
  IsFiniteSet(ProjectIds) /\ OwnerRequests # {} /\ {Unscoped, Absent} \cap ProjectIds = {}

VARIABLES
  project,    \* the Project rows
  scope,      \* the project of each row, Unscoped or Absent
  over,       \* the row whose project a row inherits, or Alone
  command,    \* the running command
  owner,      \* what each request fetched and does next
  here,       \* the owner's User row is not deleted
  crossed     \* history: a request met the command, or asked for no project

projectsVars == <<project, scope, over, command, owner, here, crossed>>

Alone    == "alone"
Kinds    == {"folder", "source", "job", "artifact"}

ProjectRow == [live: BOOLEAN, active: BOOLEAN, general: BOOLEAN]
NotMade    == [live |-> FALSE]
Resting    == [op |-> "rest"]

(* What a row inherits its project from: a source's folder, a job's source *)
(* or folder, an artifact's job.                                           *)
Above == [folder |-> {Alone}, source |-> {Alone, "folder"},
          job |-> {Alone, "source", "folder"}, artifact |-> {Alone, "job"}]

Stages == {"off", "folder", "source", "job", "artifact", "commit", "done", "skipped"}
NextStage == [folder |-> "source", source |-> "job", job |-> "artifact", artifact |-> "commit"]
NotRunning == [at |-> "off", read |-> FALSE, target |-> Unscoped, general |-> Unscoped, wrote |-> [k \in {} |-> Unscoped]]

ProjectsTypeOK ==
  /\ \A p \in ProjectIds : project[p] = NotMade \/ project[p] \in ProjectRow
  /\ scope \in [Kinds -> ProjectIds \cup {Unscoped, Absent}]
  /\ \A k \in Kinds : over[k] \in Above[k] /\ (scope[k] = Absent => over[k] = Alone)
  /\ command.at \in Stages /\ crossed \in BOOLEAN /\ here \in BOOLEAN
  /\ DOMAIN command.wrote \subseteq Kinds

(* Rows from before projects were required, some of them moved into one.   *)
Own == [live |-> TRUE, active |-> TRUE, general |-> FALSE]
ProjectsInit ==
  /\ \E p \in ProjectIds :
       /\ project = [q \in ProjectIds |-> IF q = p THEN Own ELSE NotMade]
       /\ scope \in [Kinds -> {p, Unscoped, Absent}]
  /\ over = [k \in Kinds |->
       LET above == {a \in Above[k] \ {Alone} : Absent \notin {scope[k], scope[a]}}
       IN  IF above = {} THEN Alone ELSE IF "source" \in above THEN "source" ELSE CHOOSE a \in above : TRUE]
  /\ command = NotRunning
  /\ owner = [h \in OwnerRequests |-> Resting]
  /\ here = TRUE /\ crossed = FALSE

----------------------------------------------------------------------------
(* The command *)

Running == command.at \notin {"off", "done", "skipped"}
Written == DOMAIN command.wrote

(* The rows and projects as the command's transaction sees them. *)
Seen(k)    == IF k \in Written THEN command.wrote[k] ELSE scope[k]
Generals   == {p \in ProjectIds : project[p].live /\ project[p].general}
WithWritten(k, p) == [i \in Written \cup {k} |-> IF i = k THEN p ELSE command.wrote[i]]
Reserved   == {command.general} \cap {p \in ProjectIds : project[p] = NotMade}
Spare      == {p \in ProjectIds : project[p] = NotMade} \ Reserved

(* handle: a user with no gap has nothing to backfill, and a deleted one is *)
(* not among User.objects, so that the run completes without them.         *)
BeginBackfill ==
  /\ ~ Running
  /\ command' = [NotRunning EXCEPT !.at = IF \A k \in Kinds : scope[k] # Unscoped THEN "done"
                                          ELSE IF here THEN "folder" ELSE "skipped"]
  /\ crossed' = \E h \in OwnerRequests : owner[h] # Resting
  /\ UNCHANGED <<project, scope, over, owner, here>>

(* The default project is found by its title, or made; the folders without *)
(* a project are updated to it in one statement.                           *)
BackfillFolders ==
  /\ command.at = "folder"
  /\ \E p \in IF Generals = {} THEN Spare ELSE Generals :
       /\ Cardinality(Generals) <= 1
       /\ command' = [command EXCEPT !.at = "source", !.general = p,
                        !.wrote = IF scope["folder"] = Unscoped THEN WithWritten("folder", p) ELSE @]
  /\ UNCHANGED <<project, scope, over, owner, here, crossed>>

(* Two projects of the default title: get_or_create fails, and the command *)
(* with it.                                                                *)
TitleIsTwice ==
  /\ command.at = "folder" /\ Cardinality(Generals) > 1
  /\ command' = NotRunning
  /\ UNCHANGED <<project, scope, over, owner, here, crossed>>

(* Mutant: a row gets what it inherits, and nothing else. *)
InheritedOnly(k) == IF over[k] = Alone THEN Unscoped ELSE Seen(over[k])

(* What a row without a project gets: what it inherits, or the default.    *)
TargetOf(k) ==
  IF over[k] # Alone /\ Seen(over[k]) \in ProjectIds THEN Seen(over[k]) ELSE command.general

(* The rows without a project are read, with those they inherit from ...   *)
ReadRow ==
  LET k == command.at IN
  /\ k \in {"source", "job", "artifact"} /\ ~ command.read
  /\ command' = IF scope[k] = Unscoped
                  THEN [command EXCEPT !.read = TRUE, !.target = TargetOf(k)]
                  ELSE [command EXCEPT !.at = NextStage[k]]
  /\ UNCHANGED <<project, scope, over, owner, here, crossed>>

(* ... and saved one by one, that column alone; the row that was deleted   *)
(* meanwhile ends the command.                                             *)
WriteRow ==
  LET k == command.at IN
  /\ command.read
  /\ command' = IF scope[k] = Absent THEN NotRunning
                ELSE [command EXCEPT !.at = NextStage[k], !.read = FALSE, !.target = Unscoped,
                                     !.wrote = WithWritten(k, command.target)]
  /\ UNCHANGED <<project, scope, over, owner, here, crossed>>

CommitBackfill ==
  /\ command.at = "commit"
  /\ scope' = [k \in Kinds |-> Seen(k)]
  /\ project' = IF command.general \in Reserved
                  THEN [project EXCEPT ![command.general] = [Own EXCEPT !.general = TRUE]] ELSE project
  /\ command' = [NotRunning EXCEPT !.at = "done"]
  /\ UNCHANGED <<over, owner, here, crossed>>

(* It is stopped. *)
BackfillDies ==
  /\ Running /\ command' = NotRunning
  /\ UNCHANGED <<project, scope, over, owner, here, crossed>>

----------------------------------------------------------------------------
(* The owner's requests *)

(* The account is deleted, by its owner or an administrator, or restored.  *)
OwnerComesOrGoes ==
  /\ here' = ~ here
  /\ UNCHANGED <<project, scope, over, command, owner, crossed>>

Choosable == {p \in ProjectIds : project[p].live /\ project[p].active}

(* A request of the owner, who must be there to make it, may meet the      *)
(* command.                                                                *)
Met  == crossed' = (crossed \/ Running) /\ UNCHANGED here
Made == here /\ Met

Ask(h, what) ==
  /\ owner[h] = Resting /\ owner' = [owner EXCEPT ![h] = what]
  /\ Made
  /\ UNCHANGED <<project, scope, over, command>>

Answered(h, op) ==
  owner[h].op = op /\ owner' = [owner EXCEPT ![h] = Resting] /\ UNCHANGED <<command, here>>

(* The project a new row gets, and a patched source: the one it inherits,  *)
(* or the one that is asked for.                                           *)
Validated(above, p) ==
  IF above # Alone /\ scope[above] \in ProjectIds THEN scope[above] ELSE p

(* Folders, sources and jobs are made in a project ...                     *)
CreateRow(k, above, p) ==
  /\ k # "artifact" /\ scope[k] = Absent
  /\ above \in Above[k] /\ (above # Alone => scope[above] # Absent)
  /\ p \in Choosable
  /\ scope' = [scope EXCEPT ![k] = Validated(above, p)]
  /\ over' = [over EXCEPT ![k] = above]
  /\ Made
  /\ UNCHANGED <<project, command, owner>>

(* ... and a job's artifact in that of the job, whose row is locked.       *)
MaterializeArtifact ==
  /\ scope["job"] # Absent /\ scope["artifact"] = Absent /\ "job" \notin Written
  /\ scope' = [scope EXCEPT !["artifact"] = scope["job"]]
  /\ over' = [over EXCEPT !["artifact"] = "job"]
  /\ Met
  /\ UNCHANGED <<project, command, owner>>

(* PATCH of a folder or a source saves the whole row as it was fetched; it *)
(* may ask for another project, or for none.                               *)
AskPatchRow(h, k, p) ==
  /\ k \in {"folder", "source"} /\ scope[k] # Absent
  /\ p \in Choosable \cup {Unscoped, scope[k]}
  /\ Ask(h, [op |-> "patch", kind |-> k, above |-> over[k], to |-> Validated(over[k], p)])

PatchRow(h) ==
  LET o == owner[h] IN
  /\ Answered(h, "patch")
  /\ o.kind \notin Written
  /\ scope' = [scope EXCEPT ![o.kind] = o.to]
  /\ over' = [over EXCEPT ![o.kind] = IF o.above # Alone /\ scope[o.above] = Absent THEN Alone ELSE o.above]
  /\ crossed' = (crossed \/ o.to = Unscoped)
  /\ UNCHANGED project

(* A source, or a folder without sources, is deleted; what inherits from   *)
(* it stands alone.                                                        *)
DeleteRow(k) ==
  /\ k \in {"folder", "source"} /\ scope[k] # Absent /\ k \notin Written
  /\ k = "folder" => over["source"] # "folder"
  /\ \A i \in Kinds : over[i] = k => i \notin Written
  /\ scope' = [scope EXCEPT ![k] = Absent]
  /\ over' = [i \in Kinds |-> IF i = k \/ over[i] = k THEN Alone ELSE over[i]]
  /\ Made
  /\ UNCHANGED <<project, command, owner>>

----------------------------------------------------------------------------
(* Projects *)

(* perform_create; the title may be that of the default project. *)
CreateProject(p, general) ==
  /\ p \in Spare
  /\ project' = [project EXCEPT ![p] = [Own EXCEPT !.general = general]]
  /\ Made
  /\ UNCHANGED <<scope, over, command, owner>>

(* perform_update saves the whole row as it was fetched. *)
AskPatchProject(h, p, general) ==
  /\ project[p].live
  /\ Ask(h, [op |-> "edit project", as |-> p, row |-> [project[p] EXCEPT !.general = general]])

SaveProject(h) ==
  /\ Answered(h, "edit project")
  /\ project' = [project EXCEPT ![owner[h].as] = owner[h].row]
  /\ UNCHANGED <<scope, over, crossed>>

(* archive and restore save the status alone; a deletion is a soft one.    *)
ChangeProject(p) ==
  /\ project[p].live
  /\ \/ \E active \in BOOLEAN : project' = [project EXCEPT ![p].active = active]
     \/ project' = [project EXCEPT ![p].live = FALSE]
  /\ Made
  /\ UNCHANGED <<scope, over, command, owner>>

CommandStep ==
  \/ BeginBackfill \/ BackfillFolders \/ TitleIsTwice \/ ReadRow \/ WriteRow
  \/ CommitBackfill \/ BackfillDies

RowRequest ==
  \/ OwnerComesOrGoes \/ MaterializeArtifact
  \/ \E k \in Kinds : DeleteRow(k)
  \/ \E k \in Kinds, a \in Kinds \cup {Alone}, p \in ProjectIds : CreateRow(k, a, p)
  \/ \E h \in OwnerRequests, k \in Kinds, p \in ProjectIds \cup {Unscoped} : AskPatchRow(h, k, p)
  \/ \E h \in OwnerRequests : PatchRow(h)

ProjectRequest ==
  \/ \E p \in ProjectIds : ChangeProject(p) \/ \E g \in BOOLEAN : CreateProject(p, g)
  \/ \E h \in OwnerRequests, p \in ProjectIds, g \in BOOLEAN : AskPatchProject(h, p, g)
  \/ \E h \in OwnerRequests : SaveProject(h)

ProjectsNext == CommandStep \/ RowRequest \/ ProjectRequest

ProjectsSpec == ProjectsInit /\ [][ProjectsNext]_projectsVars

----------------------------------------------------------------------------
(* When a run that no request met has served the owner, no folder, source, *)
(* job or artifact is without a project; and none is later, whatever is    *)
(* made, moved, deleted or archived, until the owner asks for no project.  *)
StaysScoped ==
  command.at = "done" /\ ~ crossed => \A k \in Kinds : scope[k] # Unscoped

=============================================================================
