------------------------------ MODULE Projects ------------------------------
(***************************************************************************)
(* Projects and tasks: ProjectService behind ProjectController, over the   *)
(* memberships of the workspace, which other people change meanwhile.      *)
(*                                                                         *)
(* A task names its project and, perhaps, the member it is assigned to.    *)
(* Project and assignee are looked up by queries before the one that       *)
(* writes the task; deleting a project takes its tasks with it.  The event *)
(* of an assignment and the audit row of a deletion follow as they do in   *)
(* Records and are left out.                                               *)
(***************************************************************************)
EXTENDS Members

CONSTANTS
  ProjectIds,
  TaskIds,
  TaskCalls,  \* operations in progress: bounds their number
  Unassigned

ASSUME ProjectNames == {"none", "gone"} \cap (Offices \cup ProjectIds) = {}

VARIABLES
  project,  \* rows of Project: "none", "gone", or their workspace
  task,     \* rows of Task; a deleted one keeps its id to itself
  taskCall  \* progress of each operation

projectsVars == <<project, task, taskCall>>

NoTask == [project |-> "none"]
GoneTask == [project |-> "gone"]
TaskIdle == [at |-> "idle"]
Assignees == Persons \cup {Unassigned}

ProjectAsks ==
  [op : {"project.create", "project.update", "project.delete"}, by : Persons,
   office : Offices, project : ProjectIds]
TaskAsks ==
  [op : {"task.create", "task.update"}, by : Persons, office : Offices,
   project : ProjectIds, task : TaskIds, to : Assignees]

ProjectsTypeOK ==
  /\ project \in [ProjectIds -> {"none", "gone"} \cup Offices]
  /\ task \in [TaskIds -> {NoTask, GoneTask} \cup [project : ProjectIds, to : Assignees]]
  /\ taskCall \in [TaskCalls -> {TaskIdle} \cup
       [at : {"permit", "find", "assignee", "write"}, ask : ProjectAsks \cup TaskAsks]]

ProjectsInit ==
  /\ project = [p \in ProjectIds |-> "none"]
  /\ task = [t \in TaskIds |-> NoTask]
  /\ taskCall = [c \in TaskCalls |-> TaskIdle]

-----------------------------------------------------------------------------

TaskAsked(c) == taskCall[c].ask
TaskAt(c, place) == taskCall[c].at = place
TaskGoto(c, place) == taskCall' = [taskCall EXCEPT ![c].at = place]
TaskDone(c) == taskCall' = [taskCall EXCEPT ![c] = TaskIdle]
OnTask(k) == k \in TaskAsks
IsTask(t) == task[t].project \in ProjectIds
Creates(k) == k.op \in {"project.create", "task.create"}

\* A row that is created takes an id that nobody has had.
IsNew(k) ==
  /\ IF OnTask(k) THEN task[k.task] = NoTask ELSE project[k.project] = "none"
  /\ \A d \in TaskCalls : taskCall[d] # TaskIdle /\ TaskAsked(d).op = k.op =>
       IF OnTask(k) THEN TaskAsked(d).task # k.task ELSE TaskAsked(d).project # k.project

TaskCalled(c, k) ==
  /\ taskCall[c] = TaskIdle
  /\ IsOffice(k.office)
  /\ Creates(k) => IsNew(k)
  /\ taskCall' = [taskCall EXCEPT ![c] = [at |-> "permit", ask |-> k]]
  /\ UNCHANGED <<project, task>>

\* A check refuses the call, or a query of it fails.
TaskRefused(c) ==
  /\ taskCall[c] # TaskIdle
  /\ TaskDone(c)
  /\ UNCHANGED <<project, task>>

TaskPermitted(c) ==
  /\ TaskAt(c, "permit")
  /\ Holds(TaskAsked(c).by, TaskAsked(c).office, TaskAsked(c).op)
  /\ TaskGoto(c, IF TaskAsked(c).op = "project.create" THEN "write" ELSE "find")
  /\ UNCHANGED <<project, task>>

\* A member would only be asked for when a task is created.
AfterFindUnchecked(k) ==
  IF OnTask(k) /\ Creates(k) /\ k.to # Unassigned THEN "assignee" ELSE "write"
\* if (input.assigneeId) await assertWorkspaceMember
AfterFind(k) ==
  IF OnTask(k) /\ k.to # Unassigned THEN "assignee" ELSE "write"

\* findFirst of the project in its workspace, and of the task in its project.
TaskFound(c) ==
  /\ TaskAt(c, "find")
  /\ LET k == TaskAsked(c) IN
     /\ project[k.project] = k.office
     /\ k.op = "task.update" => task[k.task].project = k.project
     /\ TaskGoto(c, AfterFind(k))
  /\ UNCHANGED <<project, task>>

\* getMembership of the assignee.
AssigneeFound(c) ==
  /\ TaskAt(c, "assignee")
  /\ IsMember(TaskAsked(c).office, TaskAsked(c).to)
  /\ TaskGoto(c, "write")
  /\ UNCHANGED <<project, task>>

\* createProject and updateProject write what no property tells apart; the row of
\* an update must still be there.
ProjectWritten(c) ==
  /\ TaskAt(c, "write")
  /\ LET k == TaskAsked(c) IN
     /\ k.op \in {"project.create", "project.update"}
     /\ k.op = "project.update" => project[k.project] \in Offices
     /\ project' = [project EXCEPT ![k.project] = k.office]
  /\ TaskDone(c)
  /\ UNCHANGED task

\* onDelete: Cascade
ProjectDeleted(c) ==
  /\ TaskAt(c, "write")
  /\ LET k == TaskAsked(c) IN
     /\ k.op = "project.delete" /\ project[k.project] \in Offices
     /\ project' = [project EXCEPT ![k.project] = "gone"]
     /\ task' = [t \in TaskIds |-> IF task[t].project = k.project THEN GoneTask ELSE task[t]]
  /\ TaskDone(c)

\* task.create needs its project, task.update its task; an update that names no
\* assignee leaves the one there is.
TaskWritten(c) ==
  /\ TaskAt(c, "write")
  /\ LET k == TaskAsked(c) IN
     /\ OnTask(k)
     /\ IF Creates(k) THEN project[k.project] \in Offices ELSE IsTask(k.task)
     /\ task' = [task EXCEPT ![k.task] =
          IF Creates(k) THEN [project |-> k.project, to |-> k.to]
          ELSE IF k.to = Unassigned THEN @ ELSE [@ EXCEPT !.to = k.to]]
  /\ TaskDone(c)
  /\ UNCHANGED project

TaskStep ==
  \E c \in TaskCalls :
    \/ \E k \in ProjectAsks \cup TaskAsks : TaskCalled(c, k)
    \/ TaskRefused(c) \/ TaskPermitted(c) \/ TaskFound(c) \/ AssigneeFound(c)
    \/ ProjectWritten(c) \/ ProjectDeleted(c) \/ TaskWritten(c)

ProjectsNext ==
  \/ TaskStep /\ UNCHANGED membersVars
  \/ MembersNext /\ UNCHANGED projectsVars

ProjectsSpec ==
  MembersInit /\ ProjectsInit /\ [][ProjectsNext]_<<membersVars, projectsVars>>

-----------------------------------------------------------------------------

\* Nobody from outside is ever given work: whoever a task is assigned to is a
\* member of its workspace, or has been one and was removed after it was looked
\* up.  Tasks keep their assignee when the membership ends.
AssigneesBelong ==
  \A t \in TaskIds : IsTask(t) /\ task[t].to # Unassigned =>
    \E i \in MemberIds :
      /\ membership[i] # NoMember /\ membership[i].person = task[t].to
      /\ membership[i].office = project[task[t].project]
=============================================================================
