------------------------------ MODULE StudyPlan -----------------------------
(***************************************************************************)
(* One study plan and its tasks (apps/study_plans/services.py, models.py,  *)
(* serializers.py and views.py).  The plan stores the percentage and the   *)
(* status that its tasks give it; update_plan_completion derives them.     *)
(*                                                                         *)
(* No handler locks a row.  It fetches a task with its plan, validates,    *)
(* writes the task and counts in a transaction (Count), and saves the      *)
(* whole plan row as it fetched it, with the derived columns (Commit).  A  *)
(* save of a row that was deleted meanwhile inserts it again, which is     *)
(* what Django's Model.save() does when its UPDATE finds nothing.  Plans   *)
(* share nothing, so one plan stands for all of them.  The progress log,   *)
(* which no code reads, is left out.                                       *)
(***************************************************************************)
EXTENDS Integers, FiniteSets

CONSTANTS
  Tasks,        \* rows of StudyTask that may come to be
  Days,         \* the days of the plan
  PlanRequests, \* handlers at a time
  TaskWishes, PlanWishes   \* bounds: the statuses that are asked for

ASSUME StudyPlanAssumption ==
  /\ IsFiniteSet(Tasks) /\ Days \subseteq Nat /\ PlanRequests # {}
  /\ TaskWishes \subseteq {"pending", "in_progress", "completed", "skipped"}
  /\ PlanWishes \subseteq {"draft", "active", "completed", "cancelled"}

VARIABLES
  plan,       \* the StudyPlan row
  task,       \* the StudyTask rows
  editor,     \* what each handler fetched and wants
  counted,    \* the plan row it will save, once it has counted the tasks
  trusted     \* history: the stored progress was derived by a handler that
              \* had the plan to itself

planVars == <<plan, task, editor, counted, trusted>>

NoRow    == [status |-> "none"]
NoTask   == "no task"
Free     == [op |-> "free"]

PlanStatuses == {"draft", "active", "completed", "cancelled"}
TaskStatuses == {"pending", "in_progress", "completed", "skipped"}

(* unique_plan_task_order_per_day: a task's place in the plan. *)
Slots == Days \X {1, 2}

(* completion_percentage has two digits after the point: in hundredths.   *)
Whole   == 10000
PlanRow == [status: PlanStatuses, percent: 0 .. Whole]
TaskRow == [status: TaskStatuses, slot: Slots, done: BOOLEAN]

TaskOps == {"status", "edit", "remove"}
PlanOps == {"add", "patch", "drop"}
Editor  == [op: TaskOps \cup PlanOps, task: Tasks \cup {NoTask}, value: TaskStatuses \cup PlanStatuses,
            slot: Slots \cup {NoTask}, seen: PlanRow, alone: BOOLEAN]

PlanTypeOK ==
  /\ plan = NoRow \/ plan \in PlanRow
  /\ \A t \in Tasks : task[t] = NoRow \/ task[t] \in TaskRow
  /\ DOMAIN task = Tasks /\ DOMAIN editor = PlanRequests /\ DOMAIN counted = PlanRequests
  /\ \A r \in PlanRequests :
       /\ editor[r] = Free \/ editor[r] \in Editor
       /\ counted[r] = NoRow \/ (editor[r] # Free /\ counted[r] \in PlanRow)
  /\ trusted \in BOOLEAN

PlanInit ==
  /\ plan = NoRow
  /\ task = [t \in Tasks |-> NoRow]
  /\ editor = [r \in PlanRequests |-> Free]
  /\ counted = [r \in PlanRequests |-> NoRow]
  /\ trusted = TRUE

----------------------------------------------------------------------------
(* Progress *)

Rows(tk)      == {t \in Tasks : tk[t] # NoRow}
Completed(tk) == {t \in Rows(tk) : tk[t].status = "completed"}

(* _build_completion_percentage, ROUND_HALF_UP. *)
Percent(completed, total) ==
  IF total = 0 THEN 0 ELSE (2 * Whole * completed + total) \div (2 * total)

(* Mutant: a completed plan stays completed when a task is reopened.      *)
ProgressKept(row, tk) ==
  LET total == Cardinality(Rows(tk))
      completed == Cardinality(Completed(tk))
  IN [status  |-> IF row.status # "cancelled" /\ total > 0 /\ completed = total
                    THEN "completed" ELSE row.status,
      percent |-> Percent(completed, total)]

(* update_plan_completion: the plan row it saves, from the row that was   *)
(* fetched and the tasks it counts.                                       *)
Progress(row, tk) ==
  LET total == Cardinality(Rows(tk))
      completed == Cardinality(Completed(tk))
  IN [status  |-> CASE row.status = "cancelled" -> "cancelled"
                    [] row.status # "cancelled" /\ total > 0 /\ completed = total -> "completed"
                    [] row.status = "completed" /\ completed < total -> "active"
                    [] OTHER -> row.status,
      percent |-> Percent(completed, total)]

(* StudyTask.save: completed_at is set for completed tasks only. *)
SavedTask(s, at) == [status |-> s, slot |-> at, done |-> s = "completed"]

----------------------------------------------------------------------------
(* Handlers *)

Busy == {r \in PlanRequests : editor[r] # Free}

Taken(tk, at, but) == \E t \in Rows(tk) \ {but} : tk[t].slot = at

(* generate_plan_tasks: one task a day, or two when the student has more  *)
(* than ninety minutes.                                                   *)
PerDay == {{1}, {1, 2}}
GeneratePlanTasks(perDay) ==
  \E id \in [Days \X perDay -> Tasks] :
    /\ \A a, b \in Days \X perDay : id[a] = id[b] => a = b
    /\ task' = [t \in Tasks |-> IF \E a \in Days \X perDay : id[a] = t
                  THEN SavedTask("pending", CHOOSE a \in Days \X perDay : id[a] = t)
                  ELSE NoRow]

(* create_manual_plan, in one transaction *)
NewPlan == [status |-> "active", percent |-> 0]
CreatePlan ==
  /\ plan = NoRow /\ Busy = {}
  /\ \E perDay \in PerDay : GeneratePlanTasks(perDay)
  /\ plan' = Progress(NewPlan, task')
  /\ trusted' = TRUE
  /\ UNCHANGED <<editor, counted>>

(* StudyPlanUpdateSerializer.validate_status; the validations of a task's *)
(* place by StudyTaskCreateSerializer and StudyTaskUpdateSerializer.      *)
ValidPatch(v)     == v = "completed" => Completed(task) = Rows(task)
ValidPlace(t, at) == ~ Taken(task, at, t)

(* get_object and the serializer: what is read before anything is saved. *)
FetchPlan(r, e) ==
  /\ plan # NoRow /\ editor[r] = Free
  /\ editor' = [o \in PlanRequests |->
       IF o = r THEN e ELSE IF editor[o] = Free THEN Free ELSE [editor[o] EXCEPT !.alone = FALSE]]
  /\ UNCHANGED <<plan, task, counted, trusted>>

Fetched(op, t, v, at) ==
  [op |-> op, task |-> t, value |-> v, slot |-> at,
   seen |-> [plan EXCEPT !.percent = IF op = "patch" THEN @ ELSE 0], alone |-> Busy = {}]

(* complete, skip and reopen of a task, or its PATCH with another status; *)
(* the task that has the status already is returned as it is.             *)
FetchStatus(r, t, v) == task[t] # NoRow /\ task[t].status # v /\ FetchPlan(r, Fetched("status", t, v, task[t].slot))
(* PATCH of a task that leaves its status as it was. *)
FetchEdit(r, t, at) ==
  /\ task[t] # NoRow /\ ValidPlace(t, at)
  /\ FetchPlan(r, Fetched("edit", t, task[t].status, at))
FetchRemove(r, t) == task[t] # NoRow /\ FetchPlan(r, Fetched("remove", t, "skipped", task[t].slot))
(* POST of a task: its id is new. *)
FetchAdd(r, t, at) ==
  /\ task[t] = NoRow /\ \A o \in Busy : editor[o].task # t
  /\ ValidPlace(t, at)
  /\ FetchPlan(r, Fetched("add", t, "pending", at))
FetchPatch(r, v) == ValidPatch(v) /\ FetchPlan(r, Fetched("patch", NoTask, v, NoTask))
FetchDrop(r)     == FetchPlan(r, Fetched("drop", NoTask, "cancelled", NoTask))

(* The task rows as the handler's own transaction sees them. *)
Written(e) ==
  CASE e.op = "remove" -> [task EXCEPT ![e.task] = NoRow]
    [] OTHER           -> [task EXCEPT ![e.task] = SavedTask(e.value, e.slot)]

(* A row, or a place in the plan, that another transaction has written. *)
Held(r) ==
  \E o \in Busy \ {r} : /\ counted[o] # NoRow
                        /\ editor[o].task = editor[r].task \/ editor[o].slot = editor[r].slot

EndEdit(r) == /\ editor' = [editor EXCEPT ![r] = Free]
              /\ counted' = [counted EXCEPT ![r] = NoRow]

(* The task is saved and the plan's tasks are counted. *)
Count(r) ==
  LET e == editor[r] IN
  /\ e # Free /\ e.op \in {"status", "remove", "add"} /\ counted[r] = NoRow
  /\ ~ Held(r)
  /\ e.op # "remove" => ~ Taken(task, e.slot, e.task)
  /\ counted' = [counted EXCEPT ![r] = Progress(e.seen, Written(e))]
  /\ UNCHANGED <<plan, task, editor, trusted>>

(* The plan is saved and the transaction committed. *)
Commit(r) ==
  LET e == editor[r] IN
  /\ e # Free /\ counted[r] # NoRow
  /\ task' = Written(e)
  /\ plan' = counted[r]
  /\ trusted' = e.alone
  /\ EndEdit(r)

(* update_task without a new status: the task is saved, nothing counted.  *)
SaveEdit(r) ==
  LET e == editor[r] IN
  /\ e # Free /\ e.op = "edit" /\ plan # NoRow
  /\ ~ Held(r) /\ ~ Taken(task, e.slot, e.task)
  /\ task' = Written(e)
  /\ trusted' = (trusted /\ e.alone)
  /\ EndEdit(r)
  /\ UNCHANGED plan

(* update_plan: the fetched row with the patched columns. *)
SavePlan(r) ==
  LET e == editor[r] IN
  /\ e # Free /\ e.op = "patch"
  /\ plan' = [e.seen EXCEPT !.status = e.value]
  /\ trusted' = (trusted /\ e.alone)
  /\ EndEdit(r)
  /\ UNCHANGED task

(* destroy: tasks and log go with the plan. *)
DropPlan(r) ==
  /\ editor[r] # Free /\ editor[r].op = "drop"
  /\ \A o \in Busy : counted[o] = NoRow
  /\ plan' = NoRow /\ task' = [t \in Tasks |-> NoRow]
  /\ EndEdit(r)
  /\ UNCHANGED trusted

(* The unique constraint, or the plan of an edited task is gone. *)
GiveUp(r) ==
  LET e == editor[r] IN
  /\ e # Free /\ counted[r] = NoRow
  /\ \/ e.op \in {"status", "edit", "add"} /\ Taken(task, e.slot, e.task)
     \/ e.op = "edit" /\ plan = NoRow
  /\ EndEdit(r)
  /\ UNCHANGED <<plan, task, trusted>>

PlanNext ==
  \/ CreatePlan
  \/ \E r \in PlanRequests :
       \/ \E t \in Tasks, v \in TaskWishes : FetchStatus(r, t, v)
       \/ \E t \in Tasks, at \in Slots : FetchEdit(r, t, at) \/ FetchAdd(r, t, at)
       \/ \E t \in Tasks : FetchRemove(r, t)
       \/ \E v \in PlanWishes : FetchPatch(r, v)
       \/ FetchDrop(r)
       \/ Count(r) \/ Commit(r) \/ SaveEdit(r) \/ SavePlan(r) \/ DropPlan(r) \/ GiveUp(r)

PlanSpec == PlanInit /\ [][PlanNext]_planVars

----------------------------------------------------------------------------
(* Properties *)

(* After a handler that met no other one, the stored percentage is that of *)
(* the tasks, and a completed plan has no task left to complete; patches   *)
(* of plan and tasks keep that, and whatever overlapping handlers left     *)
(* behind is mended by the next count.                                     *)
ProgressIsTrue ==
  trusted /\ plan # NoRow =>
    /\ plan.percent = Percent(Cardinality(Completed(task)), Cardinality(Rows(task)))
    /\ plan.status = "completed" => Completed(task) = Rows(task)

=============================================================================
