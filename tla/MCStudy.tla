------------------------------- MODULE MCStudy ------------------------------
(***************************************************************************)
(* Instances for TLC of three components that share nothing with each      *)
(* other: a behaviour explores one of them, the focus, and leaves the      *)
(* others as they start.  So the states to explore are the sum, not the    *)
(* product, of theirs.  Handlers, and the rows they work on, are           *)
(* interchangeable and the same for all components, so that one symmetry   *)
(* serves all.                                                             *)
(***************************************************************************)
EXTENDS StudyPlan, Library, QuizAuthoring, TLC

CONSTANT MainProject     \* the project of sources that are in no folder

VARIABLE focus

Symmetry == Permutations(Requests) \cup Permutations(Questions) \cup Permutations(Quizzes)

LibraryQuotas == {[sources |-> 1, storage |-> 2, folders |-> 1],
                  [sources |-> 2, storage |-> 3, folders |-> 1]}
LibrarySizes  == [text |-> 1, audio |-> 2]

(* Folders are explored with one source at a time until a folder parts     *)
(* from its sources, and quizzes until a publication overlaps with another *)
(* request, or more of them than MaxReinserted are back after a deletion.  *)
MaxReinserted == 1

StudyInit ==
  /\ focus \in {"plan", "sources", "folders", "quiz"}
  /\ PlanInit /\ LibraryInit /\ AuthoringInit
  /\ focus # "sources" => quota.sources = 1

SourcesNext ==
  \/ SourceStep(Kinds, {NoFolder}, {MainProject})
  \/ WorkStep({MainProject})
FoldersNext ==
  \/ SourceStep({"text"}, Folders \cup {NoFolder}, {MainProject, NoProject})
  \/ FolderStep

StudyNext ==
  /\ UNCHANGED focus
  /\ \/ focus = "plan" /\ PlanNext /\ UNCHANGED <<libraryVars, authoringVars>>
     \/ focus = "sources" /\ SourcesNext /\ UNCHANGED <<planVars, authoringVars>>
     \/ focus = "folders" /\ ~ parted /\ FoldersNext /\ UNCHANGED <<planVars, authoringVars>>
     \/ focus = "quiz" /\ ~ crossed /\ Cardinality(reinserted) <= MaxReinserted
        /\ AuthoringNext /\ UNCHANGED <<planVars, libraryVars>>


=============================================================================
