-------------------------- MODULE FeishuTaskProofs --------------------------
(***************************************************************************)
(* Proofs about FeishuTask: types for any number of jobs at a time, and,   *)
(* when jobs are serial, that a workflow keeps one task, that its cursor   *)
(* never goes back and that whom a person added stays until an event asks  *)
(* for them, for any users, runs, attempts and failures.  The last part is *)
(* about the list that the tasks are in, FeishuBoard.                      *)
(***************************************************************************)
EXTENDS FeishuTask, FeishuBoard, TLAPS

\* At most one job runs at a time, as docs/feishu-task-board.md requires.
Serial == \A v, w \in Workers : v = w

\* The places at which a job knows the task it changes.
Changing == {"move", "unfollow", "unassign", "assign", "save"}

\* A job changes only a task it has found, and tasks do not disappear.
PlaceInv == \A w \in Workers : job[w] # Idle =>
  /\ job[w].at \in Changing => job[w].id # NoTask
  /\ job[w].id # NoTask => job[w].id \in Existing

\* While jobs are serial, what a job has read stays true until it ends: that
\* there is no task, or that the task is older than the job's event and that
\* the members to remove are managed.
ReadInv == \A w \in Workers : job[w] # Idle =>
  /\ job[w].at = "create" => Existing = {}
  /\ job[w].at = "gather" /\ job[w].id = NoTask => Existing = {}
  /\ job[w].id # NoTask =>
       /\ ~Stale(task[job[w].id].latest, job[w].event)
       /\ job[w].remove \subseteq task[job[w].id].managed

Typed == TypeOK /\ PlaceInv
IInv == Typed /\ UniqueTask /\ ReadInv

\* A record that is a job is not the absence of one.
LEMMA JobIsNotIdle ==
  ASSUME TypeOK, NEW w \in Workers, job[w] # Idle
  PROVE  /\ job[w] \in Jobs
         /\ job[w].at \in Places
         /\ job[w].event \in Cursors
         /\ job[w].id \in TaskIds \cup {NoTask}
         /\ job[w].present \subseteq Members
         /\ job[w].remove \subseteq Members
         /\ job[w].add \subseteq Members
         /\ job[w].desired \subseteq Users
BY DEF TypeOK, Jobs

\* An existing task is a task.
LEMMA ExistingIsTask ==
  ASSUME TypeOK, NEW i \in Existing
  PROVE  /\ i \in TaskIds
         /\ task[i] \in Tasks
         /\ task[i].section \in BoardStates
         /\ task[i].members \subseteq Members
         /\ task[i].latest \in Cursors
         /\ task[i].managed \subseteq Members
BY DEF TypeOK, Existing, Tasks

\* The identifier of a new task is one of those that are left.
LEMMA FreshIsMember ==
  ASSUME NEW ids, ids # {}
  PROVE  Fresh(ids) \in ids
BY DEF Fresh

\* Every event is a cursor, and its state is a section of the board.
LEMMA CursorState ==
  ASSUME NEW e \in Cursors
  PROVE  e.state \in BoardStates
BY DEF Cursors, Events, Untriggered, BoardStates, Started, Terminal

\* The parts of a version are numbers.
LEMMA VersionParts ==
  ASSUME NEW e \in Cursors
  PROVE  e.run \in Nat /\ e.attempt \in Nat /\ Phase(e.state) \in Nat
<1>1. e.run \in Nat /\ e.attempt \in Nat
  <2>1. Runs \subseteq Nat /\ Attempts \subseteq Nat
    BY TrackerAssumption
  <2>2. CASE e \in Events
    BY <2>1, <2>2 DEF Events
  <2>3. CASE e = Untriggered
    BY <2>3 DEF Untriggered
  <2> QED
    BY <2>2, <2>3 DEF Cursors
<1>2. Phase(e.state) \in Nat
  BY DEF Phase
<1> QED
  BY <1>1, <1>2

\* Versions are ordered: no event is older than itself, and of two versions at
\* most one is older.
LEMMA OlderOrder ==
  ASSUME NEW e \in Cursors, NEW f \in Cursors
  PROVE  ~Older(e, e) /\ (Older(e, f) => ~Older(f, e))
BY VersionParts DEF Older

\* Replacing one field of a task by a value of its type leaves a task.
LEMMA ChangedTask ==
  ASSUME TypeOK, NEW i \in Existing, NEW t \in Tasks,
         task' = [task EXCEPT ![i] = t]
  PROVE  /\ task' \in [TaskIds -> Tasks \cup {NoTask}]
         /\ Existing' = Existing
BY ExistingIsTask, TrackerAssumption DEF TypeOK, Existing

\* The tasks a job may write are of type Tasks.
LEMMA WrittenTasks ==
  ASSUME TypeOK, NEW i \in Existing
  PROVE  /\ \A s \in BoardStates : [task[i] EXCEPT !.section = s] \in Tasks
         /\ \A m \in SUBSET Members : [task[i] EXCEPT !.members = m] \in Tasks
         /\ \A e \in Cursors, m \in SUBSET Members :
              [task[i] EXCEPT !.latest = e, !.managed = m] \in Tasks
BY ExistingIsTask DEF Tasks

\* What replacing a worker's job does to the jobs.
LEMMA ReplacedJob ==
  ASSUME TypeOK, NEW w \in Workers, NEW j \in Jobs \cup {Idle}, job' = [job EXCEPT ![w] = j]
  PROVE  /\ job' \in [Workers -> Jobs \cup {Idle}]
         /\ job'[w] = j
         /\ \A v \in Workers : v # w => job'[v] = job[v]
BY DEF TypeOK

\* Going to another place changes nothing else of a job.
LEMMA MovedJob ==
  ASSUME TypeOK, NEW w \in Workers, job[w] # Idle, NEW place \in Places, Goto(w, place)
  PROVE  /\ job' \in [Workers -> Jobs \cup {Idle}]
         /\ job'[w].at = place
         /\ job'[w].id = job[w].id
         /\ job'[w].event = job[w].event
         /\ job'[w].remove = job[w].remove
         /\ \A v \in Workers : v # w => job'[v] = job[v]
<1> DEFINE j == [job[w] EXCEPT !.at = place]
<1>1. j \in Jobs /\ j.at = place /\ j.id = job[w].id /\ j.event = job[w].event /\ j.remove = job[w].remove
  BY JobIsNotIdle DEF Jobs
<1>2. job' = [job EXCEPT ![w] = j]
  BY DEF Goto
<1> QED
  BY <1>1, <1>2, ReplacedJob

\* Ending a job leaves the other workers alone.
LEMMA EndedJob ==
  ASSUME TypeOK, NEW w \in Workers, Done(w)
  PROVE  /\ job' \in [Workers -> Jobs \cup {Idle}]
         /\ job'[w] = Idle
         /\ \A v \in Workers : v # w => job'[v] = job[v]
BY ReplacedJob DEF Done

-----------------------------------------------------------------------------
\* Every step keeps the types, and jobs at tasks that exist.
LEMMA TypedStep == Typed /\ [Next]_vars => Typed'
<1> SUFFICES ASSUME Typed, [Next]_vars PROVE Typed'
  OBVIOUS
<1> USE DEF Typed
<1>1. ASSUME NEW w \in Workers, Deliver(w) PROVE Typed'
  BY <1>1 DEF Deliver, TypeOK, PlaceInv, Existing, Changing, Jobs, Places
<1>2. ASSUME NEW w \in Workers, FindTask(w) PROVE Typed'
  <2>1. job[w] # Idle /\ job[w].at = "find"
    BY <1>2 DEF FindTask, Busy
  <2>2. ASSUME NEW i \in Existing PROVE task[i].members \subseteq Members /\ ToRemove(task[i]) \subseteq Members
    BY ExistingIsTask DEF ToRemove
  <2>3. CASE Done(w)
    BY <1>2, <2>3 DEF FindTask, Done, TypeOK, PlaceInv, Existing, Changing
  <2>4. ASSUME NEW place \in {"create", "gather"}, Goto(w, place) PROVE Typed'
    <3>1. place \in Places
      BY DEF Places
    <3>2. job' \in [Workers -> Jobs \cup {Idle}]
      BY <2>1, <2>4, <3>1, MovedJob
    <3>3. PlaceInv'
      <4>1. /\ job'[w].at = place /\ job'[w].id = job[w].id
            /\ \A v \in Workers : v # w => job'[v] = job[v]
        BY <2>1, <2>4, <3>1, MovedJob
      <4>2. Existing' = Existing
        BY <1>2 DEF FindTask, Existing
      <4>3. place \notin Changing
        BY DEF Changing
      <4> QED
        BY <2>1, <4>1, <4>2, <4>3 DEF PlaceInv
    <3> QED
      BY <1>2, <3>2, <3>3 DEF FindTask, TypeOK
  <2>5. ASSUME NEW i \in Existing,
               job' = [job EXCEPT ![w] = [job[w] EXCEPT !.at = "gather", !.id = i,
                          !.present = task[i].members, !.remove = ToRemove(task[i])]]
        PROVE  Typed'
    <3> DEFINE j == [job[w] EXCEPT !.at = "gather", !.id = i,
                       !.present = task[i].members, !.remove = ToRemove(task[i])]
    <3>1. j \in Jobs /\ j.at = "gather" /\ j.id = i
      BY <2>1, <2>2, JobIsNotIdle DEF Jobs, Places, Existing
    <3>2. job' \in [Workers -> Jobs \cup {Idle}]
      BY <2>5, <3>1, ReplacedJob
    <3>3. PlaceInv'
      BY <1>2, <2>5, <3>1, ReplacedJob DEF FindTask, PlaceInv, Existing, Changing
    <3> QED
      BY <1>2, <3>2, <3>3 DEF FindTask, TypeOK
  <2> QED
    BY <1>2, <2>3, <2>4, <2>5 DEF FindTask
<1>3. ASSUME NEW w \in Workers, Gather(w) PROVE Typed'
  <2>1. job[w] # Idle /\ job[w].at = "gather"
    BY <1>3 DEF Gather, Busy
  <2>2. PICK users \in SUBSET Users : Gather(w)!2!(users)
    BY <1>3 DEF Gather
  <2> DEFINE j == [job[w] EXCEPT !.desired = users, !.add = Assignees(users) \ job[w].present,
                     !.present = {}, !.at = IF job[w].id = NoTask THEN "create" ELSE "move"]
  <2>3. Assignees(users) \subseteq Members
    BY DEF Assignees, Members, Roles
  <2>4. j \in Jobs /\ j.id = job[w].id /\ (j.at \in Changing => j.id # NoTask)
    BY <2>1, <2>3, JobIsNotIdle DEF Jobs, Places, Changing
  <2>5. job' \in [Workers -> Jobs \cup {Idle}]
    BY <2>2, <2>4, ReplacedJob
  <2>6. PlaceInv'
    BY <1>3, <2>1, <2>2, <2>4, ReplacedJob DEF Gather, PlaceInv, Existing
  <2> QED
    BY <1>3, <2>5, <2>6 DEF Gather, TypeOK
<1>4. ASSUME NEW w \in Workers, CreateTask(w) PROVE Typed'
  <2>1. NewTask(w) \in Tasks
    BY <1>4, JobIsNotIdle, CursorState
       DEF CreateTask, Busy, NewTask, Tasks, Members, Assignees, Roles
  <2>2. Fresh(TaskIds \ Existing) \in TaskIds
    BY <1>4, FreshIsMember DEF CreateTask, Existing
  <2> QED
    BY <1>4, <2>1, <2>2, TrackerAssumption DEF CreateTask, Done, TypeOK, PlaceInv, Existing
<1>5. ASSUME NEW w \in Workers, NEW t \in Tasks, job[w] # Idle, job[w].at \in Changing,
             task' = [task EXCEPT ![job[w].id] = t],
             Done(w) \/ \E place \in Places : Goto(w, place),
             byHand' \subseteq Members, guests' \subseteq Members, dragged' \in BOOLEAN, UNCHANGED failed
      PROVE  Typed'
  <2>1. job[w].id \in Existing
    BY <1>5 DEF PlaceInv
  <2>2. task' \in [TaskIds -> Tasks \cup {NoTask}] /\ Existing' = Existing
    BY <1>5, <2>1, ChangedTask
  <2>3. job' \in [Workers -> Jobs \cup {Idle}]
    BY <1>5, MovedJob, EndedJob
  <2>4. PlaceInv'
    <3>1. \A v \in Workers : v # w => job'[v] = job[v]
      BY <1>5, MovedJob, EndedJob
    <3>2. job'[w] # Idle => job'[w].id = job[w].id
      BY <1>5, MovedJob, EndedJob
    <3> QED
      BY <1>5, <2>1, <2>2, <3>1, <3>2 DEF PlaceInv
  <2> QED
    BY <1>5, <2>2, <2>3, <2>4 DEF TypeOK
<1>6. ASSUME NEW w \in Workers, Move(w) PROVE Typed'
  <2>1. job[w] # Idle /\ job[w].id \in Existing
    BY <1>6 DEF Move, Busy, PlaceInv, Changing
  <2>2. [task[job[w].id] EXCEPT !.section = job[w].event.state] \in Tasks
    BY <2>1, WrittenTasks, JobIsNotIdle, CursorState
  <2> QED
    BY <1>6, <2>1, <2>2, <1>5 DEF Move, Change, Busy, Changing, Places, TypeOK
<1>7. ASSUME NEW w \in Workers, NEW role \in Roles, job[w] # Idle, job[w].at \in Changing,
             Remove(w, role), NEW place \in Places, Goto(w, place)
      PROVE  Typed'
  <2>1. job[w].id \in Existing
    BY <1>7 DEF PlaceInv
  <2>2. task[job[w].id].members \ Of(role, job[w].remove) \in SUBSET Members
    BY <2>1, ExistingIsTask
  <2>3. [task[job[w].id] EXCEPT !.members = task[job[w].id].members \ Of(role, job[w].remove)] \in Tasks
    BY <2>1, <2>2, WrittenTasks
  <2> QED
    BY <1>7, <2>3, <1>5 DEF Remove, Change, TypeOK
<1>8. ASSUME NEW w \in Workers, RemoveFollowers(w) \/ RemoveAssignees(w) PROVE Typed'
  BY <1>8, <1>7 DEF RemoveFollowers, RemoveAssignees, Busy, Changing, Places, Roles
<1>9. ASSUME NEW w \in Workers, AddAssignees(w) PROVE Typed'
  <2>1. job[w] # Idle /\ job[w].id \in Existing
    BY <1>9 DEF AddAssignees, Busy, PlaceInv, Changing
  <2>2. task[job[w].id].members \cup job[w].add \in SUBSET Members
    BY <2>1, ExistingIsTask, JobIsNotIdle
  <2>3. [task[job[w].id] EXCEPT !.members = task[job[w].id].members \cup job[w].add] \in Tasks
    BY <2>1, <2>2, WrittenTasks
  <2> QED
    BY <1>9, <2>1, <2>3, <1>5 DEF AddAssignees, Change, Busy, Changing, Places, TypeOK
<1>10. ASSUME NEW w \in Workers, Save(w) PROVE Typed'
  <2>1. job[w] # Idle /\ job[w].id \in Existing
    BY <1>10 DEF Save, Busy, PlaceInv, Changing
  <2>2. Assignees(job[w].desired) \in SUBSET Members
    BY <2>1, JobIsNotIdle DEF Members, Assignees, Roles
  <2>3. [task[job[w].id] EXCEPT !.latest = job[w].event,
                                !.managed = Assignees(job[w].desired)] \in Tasks
    BY <2>1, <2>2, WrittenTasks, JobIsNotIdle
  <2> QED
    BY <1>10, <2>1, <2>3, <1>5 DEF Save, Busy, Changing, TypeOK
<1>11. ASSUME NEW w \in Workers, Fail(w) PROVE Typed'
  BY <1>11 DEF Fail, Done, TypeOK, PlaceInv, Existing, Changing
<1>12. CASE EditMembers
  <2>1. PICK i \in Existing, m \in Members : EditMembers!(i, m)
    BY <1>12 DEF EditMembers
  <2>2. /\ [task[i] EXCEPT !.members = task[i].members \cup {m}] \in Tasks
        /\ [task[i] EXCEPT !.members = task[i].members \ {m}] \in Tasks
    <3>1. /\ task[i].members \cup {m} \in SUBSET Members
          /\ task[i].members \ {m} \in SUBSET Members
      BY ExistingIsTask
    <3> QED
      BY <3>1, WrittenTasks
  <2>3. task' \in [TaskIds -> Tasks \cup {NoTask}] /\ Existing' = Existing
    BY <2>1, <2>2, ChangedTask DEF Change
  <2> QED
    BY <2>1, <2>3 DEF TypeOK, PlaceInv
<1>13. CASE Drag
  <2>1. PICK i \in Existing, s \in BoardStates : Drag!(i, s)
    BY <1>13 DEF Drag
  <2>2. [task[i] EXCEPT !.section = s] \in Tasks
    BY WrittenTasks
  <2>3. task' \in [TaskIds -> Tasks \cup {NoTask}] /\ Existing' = Existing
    BY <2>1, <2>2, ChangedTask DEF Change
  <2> QED
    BY <2>1, <2>3 DEF TypeOK, PlaceInv
<1>14. CASE UNCHANGED vars
  BY <1>14 DEF vars, TypeOK, PlaceInv, Existing
<1> QED
  BY <1>1, <1>2, <1>3, <1>4, <1>6, <1>8, <1>9, <1>10, <1>11, <1>12, <1>13, <1>14 DEF Next, Step

-----------------------------------------------------------------------------
\* What a step that changes one task in place keeps, when it leaves the
\* cursor and the managed members alone.
LEMMA EditKeeps ==
  ASSUME IInv, NEW i \in Existing, NEW t \in Tasks, task' = [task EXCEPT ![i] = t],
         t.latest = task[i].latest, t.managed = task[i].managed
  PROVE  /\ Existing' = Existing
         /\ UniqueTask'
         /\ \A k \in Existing : /\ task'[k].latest = task[k].latest
                               /\ task'[k].managed = task[k].managed
BY ChangedTask, ExistingIsTask DEF IInv, Typed, TypeOK, UniqueTask

\* A step of the only job that keeps Existing, cursor and managed members keeps
\* what it has read.
LEMMA MovedJobRead ==
  ASSUME Serial, IInv, NEW w \in Workers, job[w] # Idle, job[w].at \in Changing,
         NEW place \in Changing, Goto(w, place), Existing' = Existing,
         \A k \in Existing : /\ task'[k].latest = task[k].latest
                            /\ task'[k].managed = task[k].managed
  PROVE  ReadInv'
<1>1. /\ job'[w].at = place
      /\ job'[w].id = job[w].id
      /\ job'[w].event = job[w].event
      /\ job'[w].remove = job[w].remove
  BY MovedJob DEF IInv, Typed, Changing, Places
<1>2. /\ job[w].id \in Existing
      /\ ~Stale(task[job[w].id].latest, job[w].event)
      /\ job[w].remove \subseteq task[job[w].id].managed
  BY DEF IInv, Typed, PlaceInv, ReadInv
<1>3. \A v \in Workers : v = w
  BY DEF Serial
<1> QED
  BY <1>1, <1>2, <1>3 DEF ReadInv, Changing

\* An ended job has nothing left that could become untrue.
LEMMA EndedJobRead ==
  ASSUME Serial, IInv, NEW w \in Workers, Done(w)
  PROVE  ReadInv'
BY EndedJob DEF Serial, IInv, Typed, ReadInv

\* Jobs that are serial keep one task, and what a job has read.
LEMMA SerialStep ==
  ASSUME Serial, IInv, [Next]_vars
  PROVE  UniqueTask' /\ ReadInv'
<1> USE DEF IInv, Typed
<1>1. ASSUME NEW w \in Workers, Deliver(w) PROVE UniqueTask' /\ ReadInv'
  <2>1. PICK e \in Cursors :
          job' = [job EXCEPT ![w] = [at |-> "find", event |-> e, id |-> NoTask,
                                     present |-> {}, remove |-> {}, add |-> {}, desired |-> {}]]
    BY <1>1 DEF Deliver
  <2>2. job'[w].at = "find" /\ job'[w].id = NoTask
    BY <2>1 DEF TypeOK
  <2> QED
    BY <1>1, <2>2 DEF Deliver, Serial, ReadInv, UniqueTask, Existing
<1>2. ASSUME NEW w \in Workers, FindTask(w) PROVE UniqueTask' /\ ReadInv'
  <2>1. job[w] # Idle /\ job[w].at = "find"
    BY <1>2 DEF FindTask, Busy
  <2>2. UniqueTask' /\ Existing' = Existing /\ task' = task
    BY <1>2 DEF FindTask, UniqueTask, Existing
  <2>3. CASE Done(w)
    BY <2>2, <2>3, EndedJobRead
  <2>4. ASSUME NEW place \in {"create", "gather"}, Existing = {}, Goto(w, place)
        PROVE  ReadInv'
    <3>1. job'[w].at = place /\ job'[w].id = job[w].id
      BY <2>1, <2>4, MovedJob DEF Places
    <3>2. job[w].id = NoTask
      BY <2>1, <2>4 DEF PlaceInv
    <3> QED
      BY <2>2, <2>4, <3>1, <3>2 DEF Serial, ReadInv
  <2>5. ASSUME NEW i \in Existing, ~Stale(task[i].latest, job[w].event),
               job' = [job EXCEPT ![w] = [job[w] EXCEPT !.at = "gather", !.id = i,
                          !.present = task[i].members, !.remove = ToRemove(task[i])]]
        PROVE  ReadInv'
    <3> DEFINE j == [job[w] EXCEPT !.at = "gather", !.id = i,
                       !.present = task[i].members, !.remove = ToRemove(task[i])]
    <3>1. j.at = "gather" /\ j.id = i /\ j.event = job[w].event /\ j.remove = ToRemove(task[i])
      BY <2>1, JobIsNotIdle DEF Jobs
    <3>2. i # NoTask
      BY TrackerAssumption DEF Existing
    <3>3. job'[w] = j
      BY <2>5 DEF TypeOK
    <3>4. ToRemove(task[i]) \subseteq task[i].managed
      BY DEF ToRemove
    <3> QED
      BY <2>2, <2>5, <3>1, <3>2, <3>3, <3>4 DEF Serial, ReadInv
  <2> QED
    BY <1>2, <2>2, <2>3, <2>4, <2>5 DEF FindTask
<1>3. ASSUME NEW w \in Workers, Gather(w) PROVE UniqueTask' /\ ReadInv'
  <2>1. job[w] # Idle /\ job[w].at = "gather"
    BY <1>3 DEF Gather, Busy
  <2>2. PICK users \in SUBSET Users : Gather(w)!2!(users)
    BY <1>3 DEF Gather
  <2> DEFINE j == [job[w] EXCEPT !.desired = users, !.add = Assignees(users) \ job[w].present,
                     !.present = {}, !.at = IF job[w].id = NoTask THEN "create" ELSE "move"]
  <2>3. /\ j.at = IF job[w].id = NoTask THEN "create" ELSE "move"
        /\ j.id = job[w].id /\ j.event = job[w].event /\ j.remove = job[w].remove
    BY <2>1, JobIsNotIdle DEF Jobs
  <2>4. job'[w] = j
    BY <2>2 DEF TypeOK
  <2>5. task' = task /\ Existing' = Existing
    BY <1>3 DEF Gather, Existing
  <2>6. /\ job[w].id = NoTask => Existing = {}
        /\ job[w].id # NoTask => /\ ~Stale(task[job[w].id].latest, job[w].event)
                                 /\ job[w].remove \subseteq task[job[w].id].managed
    BY <2>1 DEF ReadInv
  <2>7. /\ job'[w].at # "gather" /\ (job'[w].at = "create" => job[w].id = NoTask)
        /\ job'[w].id = job[w].id /\ job'[w].event = job[w].event
        /\ job'[w].remove = job[w].remove
    BY <2>3, <2>4
  <2> QED
    BY <2>5, <2>6, <2>7 DEF Serial, ReadInv, UniqueTask
<1>4. ASSUME NEW w \in Workers, CreateTask(w) PROVE UniqueTask' /\ ReadInv'
  <2>1. Existing = {}
    BY <1>4 DEF CreateTask, Busy, ReadInv
  <2>2. UniqueTask'
    BY <1>4, <2>1 DEF CreateTask, TypeOK, UniqueTask, Existing
  <2> QED
    BY <1>4, <2>2, EndedJobRead DEF CreateTask
<1>5. ASSUME NEW w \in Workers, Move(w) PROVE UniqueTask' /\ ReadInv'
  <2>1. job[w] # Idle /\ job[w].at = "move" /\ job[w].id \in Existing
    BY <1>5 DEF Move, Busy, PlaceInv, Changing
  <2> DEFINE t == [task[job[w].id] EXCEPT !.section = job[w].event.state]
  <2>2. t \in Tasks
    BY <2>1, WrittenTasks, JobIsNotIdle, CursorState
  <2>3. t.latest = task[job[w].id].latest /\ t.managed = task[job[w].id].managed
    BY <2>1, ExistingIsTask DEF Tasks
  <2> QED
    BY <1>5, <2>1, <2>2, <2>3, EditKeeps, MovedJobRead DEF Move, Change, Changing
<1>6. ASSUME NEW w \in Workers, NEW m \in SUBSET Members, job[w] # Idle, job[w].at \in Changing,
             Change(job[w].id, "members", m), NEW place \in Changing, Goto(w, place)
      PROVE  UniqueTask' /\ ReadInv'
  <2>1. job[w].id \in Existing
    BY <1>6 DEF PlaceInv
  <2> DEFINE t == [task[job[w].id] EXCEPT !.members = m]
  <2>2. t \in Tasks
    BY <2>1, WrittenTasks
  <2>3. t.latest = task[job[w].id].latest /\ t.managed = task[job[w].id].managed
    BY <2>1, ExistingIsTask DEF Tasks
  <2> QED
    BY <1>6, <2>1, <2>2, <2>3, EditKeeps, MovedJobRead DEF Change
<1>7. ASSUME NEW w \in Workers, RemoveFollowers(w) \/ RemoveAssignees(w)
      PROVE  UniqueTask' /\ ReadInv'
  <2>1. job[w] # Idle /\ job[w].at \in Changing /\ job[w].id \in Existing
    BY <1>7 DEF RemoveFollowers, RemoveAssignees, Busy, PlaceInv, Changing
  <2>2. \A role \in Roles : task[job[w].id].members \ Of(role, job[w].remove) \in SUBSET Members
    BY <2>1, ExistingIsTask
  <2> QED
    BY <1>6, <1>7, <2>1, <2>2 DEF RemoveFollowers, RemoveAssignees, Remove, Changing, Roles
<1>8. ASSUME NEW w \in Workers, AddAssignees(w) PROVE UniqueTask' /\ ReadInv'
  <2>1. job[w] # Idle /\ job[w].at \in Changing /\ job[w].id \in Existing
    BY <1>8 DEF AddAssignees, Busy, PlaceInv, Changing
  <2>2. task[job[w].id].members \cup job[w].add \in SUBSET Members
    BY <2>1, ExistingIsTask, JobIsNotIdle
  <2> QED
    BY <1>6, <1>8, <2>1, <2>2 DEF AddAssignees, Changing
<1>9. ASSUME NEW w \in Workers, Save(w) PROVE UniqueTask' /\ ReadInv'
  <2>1. job[w].id \in Existing
    BY <1>9 DEF Save, Busy, PlaceInv, Changing
  <2>2. Existing' \subseteq Existing
    BY <1>9, <2>1 DEF Save, TypeOK, Existing
  <2> QED
    BY <1>9, <2>2, EndedJobRead DEF Save, UniqueTask
<1>10. ASSUME NEW w \in Workers, Fail(w) PROVE UniqueTask' /\ ReadInv'
  BY <1>10, EndedJobRead DEF Fail, UniqueTask, Existing
<1>11. ASSUME Existing' = Existing, UniqueTask', UNCHANGED job,
              \A k \in Existing : /\ task'[k].latest = task[k].latest
                                 /\ task'[k].managed = task[k].managed
       PROVE  UniqueTask' /\ ReadInv'
  BY <1>11 DEF ReadInv, PlaceInv
<1>12. CASE EditMembers
  <2>1. PICK i \in Existing, m \in Members : EditMembers!(i, m)
    BY <1>12 DEF EditMembers
  <2>2. ASSUME NEW n \in SUBSET Members, Change(i, "members", n) PROVE UniqueTask' /\ ReadInv'
    <3> DEFINE t == [task[i] EXCEPT !.members = n]
    <3>1. t \in Tasks /\ t.latest = task[i].latest /\ t.managed = task[i].managed
      BY WrittenTasks, ExistingIsTask DEF Tasks
    <3> QED
      BY <1>11, <2>1, <2>2, <3>1, EditKeeps DEF Change
  <2>3. task[i].members \cup {m} \in SUBSET Members /\ task[i].members \ {m} \in SUBSET Members
    BY ExistingIsTask
  <2> QED
    BY <2>1, <2>2, <2>3
<1>13. CASE Drag
  <2>1. PICK i \in Existing, s \in BoardStates : Drag!(i, s)
    BY <1>13 DEF Drag
  <2> DEFINE t == [task[i] EXCEPT !.section = s]
  <2>2. t \in Tasks /\ t.latest = task[i].latest /\ t.managed = task[i].managed
    BY WrittenTasks, ExistingIsTask DEF Tasks
  <2> QED
    BY <1>11, <2>1, <2>2, EditKeeps DEF Change
<1>14. CASE UNCHANGED vars
  BY <1>14 DEF vars, ReadInv, UniqueTask, Existing
<1> QED
  BY <1>1, <1>2, <1>3, <1>4, <1>5, <1>7, <1>8, <1>9, <1>10, <1>12, <1>13, <1>14 DEF Next, Step

-----------------------------------------------------------------------------
\* Before any job there is at most one task.
LEMMA InitIInv == Init => IInv
<1> SUFFICES ASSUME Init PROVE IInv
  OBVIOUS
<1>1. PlaceInv /\ ReadInv
  BY DEF Init, PlaceInv, ReadInv
<1>2. CASE task = [i \in TaskIds |-> NoTask]
  BY <1>1, <1>2 DEF Init, IInv, Typed, TypeOK, UniqueTask, Existing
<1>3. ASSUME NEW e \in Events, NEW u \in Users,
             task = [i \in TaskIds |->
                      IF i = Fresh(TaskIds) THEN [section |-> e.state, latest |-> e,
                                     members |-> {<<u, "follower">>},
                                     managed |-> {<<u, "follower">>}]
                               ELSE NoTask]
      PROVE  IInv
  <2>1. [section |-> e.state, latest |-> e, members |-> {<<u, "follower">>},
         managed |-> {<<u, "follower">>}] \in Tasks
    BY CursorState DEF Tasks, Cursors, Members, Roles
  <2>2. UniqueTask
    BY <1>3 DEF UniqueTask, Existing
  <2> QED
    BY <1>1, <1>3, <2>1, <2>2 DEF Init, IInv, Typed, TypeOK
<1> QED
  BY <1>2, <1>3 DEF Init

\* Types hold for any number of jobs at a time.
THEOREM TypeCorrect == Spec => []TypeOK
<1>1. Init => Typed
  BY InitIInv DEF IInv
<1>2. Typed => TypeOK
  BY DEF Typed
<1> QED
  BY <1>1, <1>2, TypedStep, PTL DEF Spec

\* The inductive invariant of serial jobs.
THEOREM SerialInvariance ==
  ASSUME Serial
  PROVE  Spec => []IInv
<1>1. IInv /\ [Next]_vars => IInv'
  BY SerialStep, TypedStep DEF IInv
<1> QED
  BY <1>1, InitIInv, PTL DEF Spec

\* When jobs are serial a workflow keeps one task, whatever calls fail.
THEOREM UniqueCorrect ==
  ASSUME Serial
  PROVE  Spec => []UniqueTask
<1>1. IInv => UniqueTask
  BY DEF IInv
<1> QED
  BY <1>1, SerialInvariance, PTL

\* A step changes the cursor of a task only to the event of the job that has
\* found this task.
LEMMA StepOnCursor ==
  ASSUME IInv, Next, NEW i \in Existing
  PROVE  \/ task'[i].latest = task[i].latest
         \/ \E w \in Workers : job[w] # Idle /\ job[w].id = i /\ task'[i].latest = job[w].event
<1> USE DEF IInv, Typed
<1>1. task[i] \in Tasks /\ i \in TaskIds
  BY ExistingIsTask
<1>2. ASSUME NEW k \in TaskIds, NEW x, Change(k, "members", x) \/ Change(k, "section", x)
      PROVE  task'[i].latest = task[i].latest
  BY <1>1, <1>2 DEF Change, TypeOK, Tasks
<1>3. ASSUME NEW w \in Workers, CreateTask(w) PROVE task'[i].latest = task[i].latest
  <2>1. Fresh(TaskIds \ Existing) \in TaskIds \ Existing
    BY <1>3, FreshIsMember DEF CreateTask, Existing
  <2> QED
    BY <1>3, <2>1 DEF CreateTask, TypeOK
<1>4. ASSUME NEW w \in Workers, Busy(w, "move") \/ Busy(w, "unfollow") \/ Busy(w, "unassign")
                                  \/ Busy(w, "assign") \/ Busy(w, "save")
      PROVE  job[w] # Idle /\ job[w].id \in TaskIds
  BY <1>4 DEF Busy, PlaceInv, Changing, Existing
<1>5. ASSUME NEW w \in Workers, Move(w) \/ RemoveFollowers(w) \/ RemoveAssignees(w) \/ AddAssignees(w)
      PROVE  task'[i].latest = task[i].latest
  BY <1>2, <1>4, <1>5 DEF Move, RemoveFollowers, RemoveAssignees, Remove, AddAssignees
<1>6. ASSUME NEW w \in Workers, Save(w)
      PROVE  task'[i].latest = IF job[w].id = i THEN job[w].event ELSE task[i].latest
  BY <1>1, <1>4, <1>6 DEF Save, TypeOK, Tasks
<1>7. CASE EditMembers \/ Drag
  BY <1>2, <1>7 DEF EditMembers, Drag, Existing
<1>8. CASE UNCHANGED task
  BY <1>8
<1> QED
  BY <1>3, <1>4, <1>5, <1>6, <1>7, <1>8 DEF Next, Step, Deliver, FindTask, Gather, Fail, Save

\* When jobs are serial an older event never overwrites a newer one.
THEOREM NewestCorrect ==
  ASSUME Serial
  PROVE  Spec => NewestWins
<1> DEFINE Forward == \A i \in Existing : ~Older(task'[i].latest, task[i].latest)
<1>1. IInv /\ [Next]_vars => [Forward]_vars
  <2> SUFFICES ASSUME IInv, Next, NEW i \in Existing
               PROVE  ~Older(task'[i].latest, task[i].latest)
    OBVIOUS
  <2>1. task[i].latest \in Cursors
    BY ExistingIsTask DEF IInv, Typed
  <2>2. CASE task'[i].latest = task[i].latest
    BY <2>1, <2>2, OlderOrder
  <2>3. ASSUME NEW w \in Workers, job[w] # Idle, job[w].id = i, task'[i].latest = job[w].event
        PROVE  ~Older(task'[i].latest, task[i].latest)
    <3>1. ~Stale(task[i].latest, job[w].event)
      BY <2>3, TrackerAssumption DEF IInv, ReadInv, Existing
    <3> QED
      BY <2>3, <3>1 DEF Stale
  <2> QED
    BY <2>2, <2>3, StepOnCursor
<1> QED
  BY <1>1, SerialInvariance, PTL DEF Spec, NewestWins

-----------------------------------------------------------------------------
(***************************************************************************)
(* SettledBoard.  Between jobs the task agrees with its cursor; while a    *)
(* job changes the task, every member is one whom a person has put there   *)
(* or one whom the job still has to take off or has just put there.        *)
(***************************************************************************)
Settled(i) ==
  /\ task[i].section = task[i].latest.state \/ dragged
  /\ task[i].members \ task[i].managed \subseteq byHand

\* The members a job answers for at the place it has reached.
Answers(w) ==
  CASE job[w].at \in {"gather", "move", "unfollow"} -> job[w].remove
    [] job[w].at = "unassign" -> Of("assignee", job[w].remove)
    [] job[w].at = "save" -> Assignees(job[w].desired)
    [] OTHER -> {}

\* Jobs of which it is certain that they change a task.
Writing(w) == job[w] # Idle /\ job[w].id # NoTask

SettleInv ==
  /\ \A w \in Workers : Writing(w) => job[w].at \in {"gather"} \cup Changing
  /\ ~failed =>
       /\ (\A w \in Workers : ~Writing(w)) => \A i \in Existing : Settled(i)
       /\ \A w \in Workers : Writing(w) =>
            /\ task[job[w].id].members \subseteq byHand \cup Answers(w)
            /\ job[w].at \in Changing => job[w].add \subseteq Assignees(job[w].desired)
            /\ job[w].at \in {"unfollow", "unassign", "assign", "save"} =>
                 task[job[w].id].section = job[w].event.state \/ dragged

\* What a change of one field of a task leaves alone.
LEMMA FieldChange ==
  ASSUME TypeOK, NEW i \in Existing, NEW x
  PROVE  /\ Change(i, "members", x) /\ x \in SUBSET Members =>
              /\ Existing' = Existing
              /\ task'[i].members = x /\ task'[i].section = task[i].section
              /\ task'[i].latest = task[i].latest /\ task'[i].managed = task[i].managed
         /\ Change(i, "section", x) /\ x \in BoardStates =>
              /\ Existing' = Existing
              /\ task'[i].section = x /\ task'[i].members = task[i].members
              /\ task'[i].managed = task[i].managed
<1>1. i \in TaskIds /\ task[i] \in Tasks
  BY ExistingIsTask
<1>2. ASSUME Change(i, "members", x), x \in SUBSET Members
      PROVE  /\ Existing' = Existing
             /\ task'[i].members = x /\ task'[i].section = task[i].section
             /\ task'[i].latest = task[i].latest /\ task'[i].managed = task[i].managed
  <2> DEFINE t == [task[i] EXCEPT !.members = x]
  <2>1. t \in Tasks /\ t.members = x /\ t.section = task[i].section
          /\ t.latest = task[i].latest /\ t.managed = task[i].managed
    BY <1>1, <1>2 DEF Tasks
  <2>2. task' = [task EXCEPT ![i] = t]
    BY <1>2 DEF Change
  <2> HIDE DEF t
  <2> QED
    BY <1>1, <2>1, <2>2, ChangedTask DEF TypeOK
<1>3. ASSUME Change(i, "section", x), x \in BoardStates
      PROVE  /\ Existing' = Existing
             /\ task'[i].section = x /\ task'[i].members = task[i].members
             /\ task'[i].managed = task[i].managed
  <2> DEFINE t == [task[i] EXCEPT !.section = x]
  <2>1. t \in Tasks /\ t.members = task[i].members /\ t.section = x /\ t.managed = task[i].managed
    BY <1>1, <1>3 DEF Tasks
  <2>2. task' = [task EXCEPT ![i] = t]
    BY <1>3 DEF Change
  <2> HIDE DEF t
  <2> QED
    BY <1>1, <2>1, <2>2, ChangedTask DEF TypeOK
<1> QED
  BY <1>2, <1>3

\* Nor does it change what the job has computed.
LEMMA MovedJobKeeps ==
  ASSUME TypeOK, NEW w \in Workers, job[w] # Idle, NEW place \in Places, Goto(w, place)
  PROVE  /\ job' \in [Workers -> Jobs \cup {Idle}]
         /\ job'[w].at = place
         /\ job'[w].id = job[w].id
         /\ job'[w].event = job[w].event
         /\ job'[w].remove = job[w].remove
         /\ job'[w].add = job[w].add /\ job'[w].desired = job[w].desired
         /\ job'[w] # Idle
         /\ \A v \in Workers : v # w => job'[v] = job[v]
<1> DEFINE j == [job[w] EXCEPT !.at = place]
<1>1. /\ j \in Jobs /\ j.at = place /\ j.id = job[w].id /\ j.event = job[w].event
      /\ j.remove = job[w].remove /\ j.add = job[w].add /\ j.desired = job[w].desired
  BY JobIsNotIdle DEF Jobs
<1>2. job' = [job EXCEPT ![w] = j]
  BY DEF Goto
<1> QED
  BY <1>1, <1>2, ReplacedJob, TrackerAssumption

\* A job that changes the task goes to its next place.
LEMMA GoesToNext ==
  ASSUME Serial, IInv, NEW w \in Workers, NEW place \in Changing,
         job[w] # Idle, job[w].at \in Changing, Goto(w, place)
  PROVE  /\ job[w].id \in Existing /\ job'[w] # Idle /\ job'[w].at = place
         /\ job'[w].id = job[w].id /\ job'[w].event = job[w].event
         /\ job'[w].remove = job[w].remove /\ job'[w].add = job[w].add
         /\ job'[w].desired = job[w].desired
         /\ \A v \in Workers : v = w
<1>1. place \in Places
  BY DEF Changing, Places
<1>2. /\ job' \in [Workers -> Jobs \cup {Idle}]
      /\ job'[w].at = place /\ job'[w].id = job[w].id /\ job'[w].event = job[w].event
      /\ job'[w].remove = job[w].remove /\ job'[w].add = job[w].add
      /\ job'[w].desired = job[w].desired /\ job'[w] # Idle
  BY <1>1, MovedJobKeeps DEF IInv, Typed
<1> QED
  BY <1>2 DEF IInv, Typed, PlaceInv, Serial

\* One step of such a job.
LEMMA WritingStep ==
  ASSUME Serial, IInv, SettleInv, NEW w \in Workers,
         Move(w) \/ RemoveFollowers(w) \/ RemoveAssignees(w) \/ AddAssignees(w)
  PROVE  SettleInv'
<1> USE DEF IInv, Typed
<1> DEFINE i == job[w].id
<1>1. ASSUME NEW place \in Changing, Goto(w, place), job[w] # Idle, job[w].at \in Changing,
             failed' = failed,
             ~failed => /\ task'[i].members \subseteq byHand' \cup Answers(w)'
                        /\ task'[i].section = job[w].event.state \/ dragged',
             ~failed => job[w].add \subseteq Assignees(job[w].desired)
      PROVE  SettleInv'
  BY <1>1, GoesToNext, TrackerAssumption DEF SettleInv, Writing, Existing
<1>2. job[w] # Idle /\ job[w].at \in Changing /\ job[w].id \in Existing /\ Writing(w) /\ failed' = failed
  BY TrackerAssumption DEF Move, RemoveFollowers, RemoveAssignees, Remove, AddAssignees, Busy, Changing,
                           PlaceInv, Writing, Existing
<1>3. ~failed => job[w].add \subseteq Assignees(job[w].desired)
  BY <1>2 DEF SettleInv
<1>4. /\ task[i].members \subseteq Members /\ job[w].remove \subseteq Members
      /\ job[w].add \subseteq Members /\ job[w].event.state \in BoardStates
  BY <1>2, ExistingIsTask, JobIsNotIdle, CursorState
<1>5. CASE Move(w)
  <2>1. Goto(w, "unfollow") /\ job[w].at = "move"
    BY <1>5 DEF Move, Busy
  <2>2. Answers(w) = job[w].remove /\ Answers(w)' = job[w].remove
    BY <1>2, <2>1, GoesToNext DEF Answers, Changing
  <2>3. task'[i].members = task[i].members /\ task'[i].section = job[w].event.state
    BY <1>2, <1>4, <1>5, FieldChange DEF Move
  <2> QED
    BY <1>1, <1>2, <1>3, <1>5, <2>1, <2>2, <2>3 DEF Move, SettleInv, Changing
<1>6. ASSUME NEW role \in Roles, Remove(w, role)
      PROVE  /\ task'[i].members = task[i].members \ Of(role, job[w].remove)
             /\ byHand' = byHand \ Of(role, job[w].remove)
             /\ task'[i].section = task[i].section /\ dragged' = dragged
  BY <1>2, <1>4, <1>6, FieldChange DEF Remove
<1>7. CASE RemoveFollowers(w)
  <2>1. Goto(w, "unassign") /\ job[w].at = "unfollow" /\ Remove(w, "follower")
    BY <1>7 DEF RemoveFollowers, Busy
  <2>2. Answers(w) = job[w].remove /\ Answers(w)' = Of("assignee", job[w].remove)
    BY <1>2, <2>1, GoesToNext DEF Answers, Changing
  <2>3. job[w].remove \subseteq Of("follower", job[w].remove) \cup Of("assignee", job[w].remove)
    BY <1>4 DEF Of, Members, Roles
  <2>4. ~failed => task'[i].members \subseteq byHand' \cup Answers(w)'
    BY <1>2, <1>6, <2>1, <2>2, <2>3 DEF SettleInv, Roles
  <2> QED
    BY <1>1, <1>2, <1>3, <1>6, <2>1, <2>4 DEF SettleInv, Changing, Roles
<1>8. CASE RemoveAssignees(w)
  <2>1. Goto(w, "assign") /\ job[w].at = "unassign" /\ Remove(w, "assignee")
    BY <1>8 DEF RemoveAssignees, Busy
  <2>2. Answers(w) = Of("assignee", job[w].remove) /\ Answers(w)' = {}
    BY <1>2, <2>1, GoesToNext DEF Answers, Changing
  <2>3. ~failed => task'[i].members \subseteq byHand' \cup Answers(w)'
    BY <1>2, <1>6, <2>1, <2>2 DEF SettleInv, Roles
  <2> QED
    BY <1>1, <1>2, <1>3, <1>6, <2>1, <2>3 DEF SettleInv, Changing, Roles
<1>9. CASE AddAssignees(w)
  <2>1. Goto(w, "save") /\ job[w].at = "assign" /\ byHand' = byHand \ job[w].add /\ dragged' = dragged
    BY <1>9 DEF AddAssignees, Busy
  <2>2. Answers(w) = {} /\ Answers(w)' = Assignees(job[w].desired)
    BY <1>2, <2>1, GoesToNext DEF Answers, Changing
  <2>3. task'[i].members = task[i].members \cup job[w].add /\ task'[i].section = task[i].section
    BY <1>2, <1>4, <1>9, FieldChange DEF AddAssignees
  <2>4. ~failed => task'[i].members \subseteq byHand' \cup Answers(w)'
    BY <1>2, <1>3, <2>1, <2>2, <2>3 DEF SettleInv
  <2> QED
    BY <1>1, <1>2, <1>3, <2>1, <2>3, <2>4 DEF SettleInv, Changing
<1> QED
  BY <1>5, <1>7, <1>8, <1>9

\* Every step of serial jobs, and of people, keeps it.
LEMMA SettleStep ==
  ASSUME Serial, IInv, IInv', SettleInv, [Next]_vars
  PROVE  SettleInv'
<1> USE DEF IInv, Typed
<1>1. \A i, k \in Existing : i = k
  BY DEF UniqueTask
<1>2. \A w \in Workers : Writing(w) => job[w].id \in Existing
  BY DEF Writing, PlaceInv
<1>3. ASSUME NEW w \in Workers, Done(w), UNCHANGED <<task, byHand, dragged, failed>>, ~Writing(w)
      PROVE  SettleInv'
  <2>1. \A v \in Workers : ~Writing(v) /\ ~Writing(v)'
    BY <1>3, EndedJob DEF Serial, Writing
  <2> QED
    BY <1>3, <2>1 DEF SettleInv, Settled, Existing
<1>4. ASSUME NEW w \in Workers, Deliver(w) PROVE SettleInv'
  <2>1. job[w] = Idle /\ job'[w] # Idle => job'[w].id = NoTask
    BY <1>4 DEF Deliver, TypeOK
  <2>2. \A v \in Workers : ~Writing(v) /\ ~Writing(v)'
    BY <1>4, <2>1 DEF Serial, Writing, Deliver
  <2> QED
    BY <1>4, <2>2 DEF SettleInv, Settled, Existing, Deliver
<1>5. ASSUME NEW w \in Workers, FindTask(w) PROVE SettleInv'
  <2>1. job[w] # Idle /\ job[w].at = "find" /\ ~Writing(w)
    BY <1>5 DEF FindTask, Busy, SettleInv, Changing
  <2>2. \A v \in Workers : v = w
    BY DEF Serial
  <2>3. ASSUME NEW place \in {"create", "gather"}, Existing = {}, Goto(w, place) PROVE SettleInv'
    <3>1. job'[w].id = job[w].id /\ job[w].id = NoTask
      BY <2>1, <2>3, MovedJob DEF Places, Writing
    <3>2. ~Writing(w)'
      BY <3>1 DEF Writing
    <3> QED
      BY <1>5, <2>2, <2>3, <3>2 DEF SettleInv, FindTask, Existing
  <2>4. ASSUME NEW i \in Existing,
               job' = [job EXCEPT ![w] = [job[w] EXCEPT !.at = "gather", !.id = i,
                          !.present = task[i].members, !.remove = ToRemove(task[i])]]
        PROVE  SettleInv'
    <3> DEFINE j == [job[w] EXCEPT !.at = "gather", !.id = i,
                       !.present = task[i].members, !.remove = ToRemove(task[i])]
    <3>1. j.at = "gather" /\ j.id = i /\ j.remove = task[i].managed \cap task[i].members
      BY <2>1, JobIsNotIdle DEF Jobs, ToRemove
    <3>2. job'[w] = j
      BY <2>4 DEF TypeOK
    <3> HIDE DEF j
    <3>3. Answers(w)' = task[i].managed \cap task[i].members
      BY <3>1, <3>2 DEF Answers
    <3>4. ~failed => task[i].members \ task[i].managed \subseteq byHand
      BY <2>1, <2>2 DEF SettleInv, Settled
    <3>5. UNCHANGED <<task, byHand, dragged, failed>>
      BY <1>5 DEF FindTask
    <3>6. Writing(w)' => job'[w].id = i /\ job'[w].at = "gather"
      BY <3>1, <3>2 DEF Writing
    <3>7. Writing(w)'
      <4>1. j \in Jobs
        BY <2>1, JobIsNotIdle, ExistingIsTask DEF j, Jobs, Places, ToRemove
      <4> QED
        BY <3>1, <3>2, <4>1, TrackerAssumption DEF Writing, Existing
    <3> QED
      BY <2>2, <3>3, <3>4, <3>5, <3>6, <3>7 DEF SettleInv, Changing
  <2>5. CASE Done(w)
    BY <1>3, <1>5, <2>1, <2>5 DEF FindTask
  <2> QED
    BY <1>5, <2>3, <2>4, <2>5 DEF FindTask
<1>6. ASSUME NEW w \in Workers, Gather(w) PROVE SettleInv'
  <2>1. job[w] # Idle /\ job[w].at = "gather" /\ \A v \in Workers : v = w
    BY <1>6 DEF Gather, Busy, Serial
  <2>2. PICK users \in SUBSET Users : Gather(w)!2!(users)
    BY <1>6 DEF Gather
  <2> DEFINE j == [job[w] EXCEPT !.desired = users, !.add = Assignees(users) \ job[w].present,
                     !.present = {}, !.at = IF job[w].id = NoTask THEN "create" ELSE "move"]
  <2>3. /\ j.at = IF job[w].id = NoTask THEN "create" ELSE "move"
        /\ j.id = job[w].id /\ j.event = job[w].event /\ j.remove = job[w].remove
        /\ j.add \subseteq Assignees(j.desired)
    BY <2>1, JobIsNotIdle DEF Jobs
  <2>4. job'[w] = j
    BY <2>2 DEF TypeOK
  <2> HIDE DEF j
  <2>5. UNCHANGED <<task, byHand, dragged, failed>> /\ Existing' = Existing
    BY <1>6 DEF Gather, Existing
  <2>6. CASE job[w].id = NoTask
    <3>1. Existing = {}
      BY <2>1, <2>6 DEF ReadInv
    <3>2. ~Writing(w)'
      BY <2>3, <2>4, <2>6 DEF Writing
    <3> QED
      BY <2>1, <2>5, <3>1, <3>2 DEF SettleInv
  <2>7. CASE job[w].id # NoTask
    <3>1. Writing(w) /\ Answers(w) = job[w].remove
      BY <2>1, <2>7 DEF Writing, Answers
    <3>2. Answers(w)' = job[w].remove /\ job'[w].at = "move"
      BY <2>3, <2>4, <2>7 DEF Answers
    <3>3. ~failed => task[job[w].id].members \subseteq byHand \cup Answers(w)
      BY <3>1 DEF SettleInv
    <3>4. Writing(w)'
      <4>1. job'[w] \in Jobs \cup {Idle} /\ job'[w].id = job[w].id
        BY <2>3, <2>4 DEF TypeOK
      <4>2. j \in Jobs
        <5>1. Assignees(users) \subseteq Members
          BY DEF Assignees, Members, Roles
        <5> QED
          BY <2>1, <5>1, JobIsNotIdle DEF j, Jobs, Places
      <4> QED
        BY <2>4, <2>7, <4>1, <4>2, TrackerAssumption DEF Writing
    <3> QED
      BY <2>1, <2>3, <2>4, <2>5, <3>1, <3>2, <3>3, <3>4 DEF SettleInv, Changing
  <2> QED
    BY <2>6, <2>7
<1>7. ASSUME NEW w \in Workers, CreateTask(w) PROVE SettleInv'
  <2>1. Existing = {} /\ Fresh(TaskIds \ Existing) \in TaskIds \ Existing
    BY <1>7, FreshIsMember DEF CreateTask, Busy, ReadInv, Existing
  <2>2. \A v \in Workers : ~Writing(v)'
    BY <1>7, EndedJob DEF CreateTask, Serial, Writing
  <2>3. \A i \in Existing' : task'[i] = NewTask(w)
    BY <1>7, <2>1 DEF CreateTask, TypeOK, Existing
  <2>4. \A i \in Existing' : Settled(i)'
    BY <2>3 DEF Settled, NewTask
  <2> QED
    BY <2>2, <2>4 DEF SettleInv
<1>8. ASSUME NEW w \in Workers, Save(w) PROVE SettleInv'
  <2>1. job[w] # Idle /\ job[w].at = "save" /\ job[w].id \in Existing /\ Writing(w)
    BY <1>8, TrackerAssumption DEF Save, Busy, PlaceInv, Changing, Writing, Existing
  <2>2. \A v \in Workers : ~Writing(v)'
    BY <1>8, EndedJob DEF Save, Serial, Writing
  <2>0. PICK i \in Existing : i = job[w].id
    BY <2>1
  <2> DEFINE t == [task[i] EXCEPT !.latest = job[w].event, !.managed = Assignees(job[w].desired)]
  <2>3. /\ t.latest = job[w].event /\ t.managed = Assignees(job[w].desired)
        /\ t.members = task[i].members /\ t.section = task[i].section
    BY <2>1, ExistingIsTask DEF Tasks
  <2>4. task'[i] = t /\ \A k \in TaskIds : k # i => task'[k] = task[k]
    BY <1>8, <2>0 DEF Save, TypeOK, Existing
  <2>5. \A k \in Existing' : k = i
    BY <1>1, <2>4 DEF Existing
  <2>6. Answers(w) = Assignees(job[w].desired)
    BY <2>1 DEF Answers
  <2> HIDE DEF t
  <2>7. byHand' = byHand /\ dragged' = dragged /\ failed' = failed
    BY <1>8 DEF Save
  <2>8. ~failed => /\ task[i].members \subseteq byHand \cup Assignees(job[w].desired)
                   /\ task[i].section = job[w].event.state \/ dragged
    BY <2>0, <2>1, <2>6 DEF SettleInv
  <2>9. ~failed => Settled(i)'
    BY <2>3, <2>4, <2>7, <2>8 DEF Settled
  <2> QED
    BY <2>2, <2>5, <2>7, <2>9 DEF SettleInv
<1>9. ASSUME NEW w \in Workers, Fail(w) PROVE SettleInv'
  BY <1>9, EndedJob DEF Fail, SettleInv, Serial, Writing
<1>10. ASSUME NEW i \in Existing, UNCHANGED job, failed' = failed, Existing' = Existing,
              task'[i].members \ byHand' \subseteq task[i].members \ byHand,
              task'[i].latest = task[i].latest, task'[i].managed = task[i].managed,
              (task'[i].section = task[i].section /\ dragged' = dragged) \/ dragged'
       PROVE  SettleInv'
  <2>1. \A w \in Workers : (Writing(w)' <=> Writing(w)) /\ Answers(w)' = Answers(w)
    BY <1>10 DEF Writing, Answers
  <2>2. Settled(i) => Settled(i)'
    BY <1>10 DEF Settled
  <2>3. \A w \in Workers : Writing(w) => job[w].id = i
    BY <1>1, <1>2, <1>10
  <2>4. \A k \in Existing : k = i
    BY <1>1, <1>10
  <2> QED
    BY <1>10, <2>1, <2>2, <2>3, <2>4 DEF SettleInv
<1>11. CASE EditMembers
  <2>1. PICK i \in Existing, m \in Members : EditMembers!(i, m)
    BY <1>11 DEF EditMembers
  <2>2. ASSUME NEW n \in SUBSET Members, Change(i, "members", n), n \subseteq task[i].members \cup {m}
        PROVE  SettleInv'
    BY <1>10, <2>1, <2>2, FieldChange
  <2>3. task[i].members \cup {m} \in SUBSET Members /\ task[i].members \ {m} \in SUBSET Members
    BY ExistingIsTask
  <2> QED
    BY <2>1, <2>2, <2>3
<1>12. CASE Drag
  <2>1. PICK i \in Existing, s \in BoardStates : Drag!(i, s)
    BY <1>12 DEF Drag
  <2> DEFINE t == [task[i] EXCEPT !.section = s]
  <2>2. t \in Tasks /\ t.latest = task[i].latest /\ t.managed = task[i].managed /\ t.members = task[i].members
    BY WrittenTasks, ExistingIsTask DEF Tasks
  <2>3. task'[i] = t /\ Existing' = Existing
    BY <2>1, <2>2, ChangedTask DEF Change, TypeOK, Existing
  <2> QED
    BY <1>10, <2>1, <2>2, <2>3
<1>13. CASE UNCHANGED vars
  BY <1>13 DEF vars, SettleInv, Settled, Writing, Answers, Existing
<1> QED
  BY <1>4, <1>5, <1>6, <1>7, <1>8, <1>9, <1>11, <1>12, <1>13, WritingStep DEF Next, Step

\* When jobs are serial and no call has failed, the task of a workflow between
\* jobs stands where its cursor says, and nobody whom a job has added is
\* missing on the list of those the next job may take off.
THEOREM SettledCorrect ==
  ASSUME Serial
  PROVE  Spec => []SettledBoard
<1>1. Init => SettleInv
  <2> SUFFICES ASSUME Init PROVE SettleInv
    OBVIOUS
  <2>1. \A w \in Workers : ~Writing(w)
    BY DEF Init, Writing
  <2>2. \A i \in Existing : Settled(i)
    BY DEF Init, Existing, Settled
  <2> QED
    BY <2>1, <2>2 DEF SettleInv
<1>2. IInv /\ IInv' /\ SettleInv /\ [Next]_vars => SettleInv'
  BY SettleStep
<1>3. SettleInv => SettledBoard
  BY DEF SettleInv, SettledBoard, Settled, Writing
<1> QED
  BY <1>1, <1>2, <1>3, SerialInvariance, PTL DEF Spec

-----------------------------------------------------------------------------
(***************************************************************************)
(* GuestsStay.  Whoever a person added without being managed is not on the *)
(* list of managed members until an event that asks for them is stored,    *)
(* and what a running job is going to remove is managed all the time.      *)
(***************************************************************************)
GuestInv ==
  /\ \A i \in Existing : guests \subseteq task[i].members /\ guests \cap task[i].managed = {}
  /\ Existing = {} => guests = {}

\* A change of the only task that keeps guests among its members and off its
\* list of managed members.
LEMMA OnTheOnlyTask ==
  ASSUME UniqueTask, NEW i \in Existing, Existing' = Existing,
         guests' \subseteq task'[i].members, guests' \cap task'[i].managed = {}
  PROVE  GuestInv'
BY DEF UniqueTask, GuestInv

LEMMA GuestStep ==
  ASSUME IInv, GuestInv, [Next]_vars
  PROVE  GuestInv'
<1> USE DEF IInv, Typed
<1>1. CASE UNCHANGED <<task, guests>>
  BY <1>1 DEF GuestInv, Existing
<1>2. ASSUME NEW w \in Workers, CreateTask(w) PROVE GuestInv'
  BY <1>2 DEF CreateTask, Busy, ReadInv, GuestInv
<1>3. ASSUME NEW w \in Workers, job[w] # Idle, job[w].at \in Changing
      PROVE  /\ job[w].id \in Existing
             /\ job[w].remove \subseteq task[job[w].id].managed
  BY <1>3 DEF PlaceInv, ReadInv
<1>4. ASSUME NEW w \in Workers, Move(w) PROVE GuestInv'
  <2>1. /\ job[w].id \in Existing /\ Change(job[w].id, "section", job[w].event.state)
        /\ job[w].event.state \in BoardStates /\ guests' = guests
    BY <1>3, <1>4, JobIsNotIdle, CursorState DEF Move, Busy, Changing
  <2> QED
    BY <2>1, FieldChange, OnTheOnlyTask DEF GuestInv
<1>5. ASSUME NEW w \in Workers, NEW role \in Roles, Remove(w, role), job[w] # Idle, job[w].at \in Changing
      PROVE  GuestInv'
  <2> DEFINE i == job[w].id
             left == task[i].members \ Of(role, job[w].remove)
  <2>1. i \in Existing /\ Of(role, job[w].remove) \subseteq task[i].managed
    BY <1>3, <1>5 DEF Of
  <2>2. left \in SUBSET Members
    BY <2>1, ExistingIsTask
  <2>3. Change(i, "members", left) /\ guests' = guests
    BY <1>5 DEF Remove
  <2>4. guests \subseteq left
    BY <2>1 DEF GuestInv
  <2> HIDE DEF left, i
  <2> QED
    BY <2>1, <2>2, <2>3, <2>4, FieldChange, OnTheOnlyTask DEF GuestInv
<1>6. ASSUME NEW w \in Workers, RemoveFollowers(w) \/ RemoveAssignees(w) PROVE GuestInv'
  BY <1>5, <1>6 DEF RemoveFollowers, RemoveAssignees, Busy, Changing, Roles
<1>7. ASSUME NEW w \in Workers, AddAssignees(w) PROVE GuestInv'
  <2> DEFINE i == job[w].id
             more == task[i].members \cup job[w].add
  <2>1. i \in Existing /\ more \in SUBSET Members
    BY <1>3, <1>7, JobIsNotIdle, ExistingIsTask DEF AddAssignees, Busy, Changing
  <2>2. Change(i, "members", more) /\ guests' = guests
    BY <1>7 DEF AddAssignees
  <2>3. guests \subseteq more
    BY <2>1 DEF GuestInv
  <2> HIDE DEF more, i
  <2> QED
    BY <2>1, <2>2, <2>3, FieldChange, OnTheOnlyTask DEF GuestInv
<1>8. ASSUME NEW w \in Workers, Save(w) PROVE GuestInv'
  <2> DEFINE i == job[w].id
             t == [task[i] EXCEPT !.latest = job[w].event, !.managed = Assignees(job[w].desired)]
  <2>1. i \in Existing /\ job[w] # Idle
    BY <1>3, <1>8 DEF Save, Busy, Changing
  <2>2. Assignees(job[w].desired) \subseteq Members
    BY <2>1, JobIsNotIdle DEF Members, Assignees, Roles
  <2>3. t \in Tasks /\ t.members = task[i].members /\ t.managed = Assignees(job[w].desired)
    BY <2>1, <2>2, ExistingIsTask, JobIsNotIdle DEF Tasks
  <2>4. task' = [task EXCEPT ![i] = t] /\ guests' = guests \ Assignees(job[w].desired)
    BY <1>8 DEF Save
  <2> HIDE DEF t
  <2>5. Existing' = Existing /\ task'[i] = t
    BY <2>1, <2>3, <2>4, ChangedTask, ExistingIsTask DEF TypeOK
  <2>6. guests \subseteq task[i].members
    BY <2>1 DEF GuestInv
  <2> HIDE DEF i
  <2> QED
    BY <2>1, <2>3, <2>4, <2>5, <2>6, OnTheOnlyTask
<1>9. CASE EditMembers
  <2>1. PICK i \in Existing, m \in Members : EditMembers!(i, m)
    BY <1>9 DEF EditMembers
  <2>2. guests \subseteq task[i].members /\ guests \cap task[i].managed = {}
    BY DEF GuestInv
  <2>3. /\ task[i].members \cup {m} \in SUBSET Members
        /\ task[i].members \ {m} \in SUBSET Members
    BY ExistingIsTask
  <2>4. CASE Change(i, "members", task[i].members \cup {m})
               /\ guests' = guests \cup ({m} \ (task[i].members \cup task[i].managed))
    <3>1. /\ Existing' = Existing /\ task'[i].members = task[i].members \cup {m}
          /\ task'[i].managed = task[i].managed
      BY <2>3, <2>4, FieldChange
    <3> QED
      BY <2>2, <2>4, <3>1, OnTheOnlyTask
  <2>5. CASE Change(i, "members", task[i].members \ {m}) /\ guests' = guests \ {m}
    <3>1. /\ Existing' = Existing /\ task'[i].members = task[i].members \ {m}
          /\ task'[i].managed = task[i].managed
      BY <2>3, <2>5, FieldChange
    <3> QED
      BY <2>2, <2>5, <3>1, OnTheOnlyTask
  <2> QED
    BY <2>1, <2>4, <2>5
<1>10. CASE Drag
  <2>1. PICK i \in Existing, x \in BoardStates : Change(i, "section", x) /\ guests' = guests
    BY <1>10 DEF Drag
  <2> QED
    BY <2>1, FieldChange, OnTheOnlyTask DEF GuestInv
<1> QED
  BY <1>1, <1>2, <1>4, <1>6, <1>7, <1>8, <1>9, <1>10
     DEF Next, Step, Deliver, FindTask, Gather, Fail, vars

\* When jobs are serial, no job takes off a member whom a person added and whom no
\* stored event has asked for since.
THEOREM GuestsCorrect ==
  ASSUME Serial
  PROVE  Spec => []GuestsStay
<1>1. Init => GuestInv
  BY DEF Init, GuestInv
<1>2. IInv /\ GuestInv /\ [Next]_vars => GuestInv'
  BY GuestStep
<1>3. GuestInv => GuestsStay
  BY DEF GuestInv, GuestsStay
<1> QED
  BY <1>1, <1>2, <1>3, SerialInvariance, PTL DEF Spec

-----------------------------------------------------------------------------
(***************************************************************************)
(* The part of EventuallyShown that does not depend on fairness: a job     *)
(* ends after at most seven steps of its own, and when jobs are serial one *)
(* that ends without a failure leaves its event on the board.              *)
(***************************************************************************)
StepsFrom == [find |-> 7, gather |-> 6, create |-> 1, move |-> 5, unfollow |-> 4,
              unassign |-> 3, assign |-> 2, save |-> 1]

StepsLeft(w) == IF job[w] = Idle THEN 0 ELSE StepsFrom[job[w].at]

\* Every step of a job brings it nearer to its end, and no other job and no
\* person sends it back: nothing in the job's five calls is tried again.
JobsEnd ==
  [][\A w \in Workers :
       IF Step(w) THEN StepsLeft(w)' < StepsLeft(w)
                  ELSE Deliver(w) \/ StepsLeft(w)' = StepsLeft(w)]_vars

\* A job that ends although nothing has failed leaves a task that shows its event
\* or a newer one: a job gives up only because its event is overtaken.
ShownAtTheEnd ==
  [][\A w \in Workers :
       job[w] # Idle /\ job'[w] = Idle /\ ~failed' =>
         \E i \in Existing' : Stale(task'[i].latest, job[w].event)]_vars

\* What Gather leaves is a job, which creates a task or changes the one it found.
LEMMA GatheredJob ==
  ASSUME TypeOK, NEW w \in Workers, job[w] # Idle, NEW users \in SUBSET Users,
         NEW j, j = [job[w] EXCEPT !.desired = users, !.add = Assignees(users) \ job[w].present,
                       !.present = {}, !.at = IF job[w].id = NoTask THEN "create" ELSE "move"]
  PROVE  j \in Jobs /\ j.at \in {"create", "move"}
<1>1. Assignees(users) \subseteq Members
  BY DEF Assignees, Members, Roles
<1> QED
  BY <1>1, JobIsNotIdle DEF Jobs, Places

\* A step of a job leads forward.
LEMMA StepLeadsOn ==
  ASSUME Typed, NEW w \in Workers, Step(w)
  PROVE  StepsLeft(w)' < StepsLeft(w)
<1> USE DEF Typed, Busy
<1>1. job[w] # Idle /\ job[w].at \in Places
  BY JobIsNotIdle DEF Step, FindTask, Gather, CreateTask, Move, RemoveFollowers, RemoveAssignees,
                      AddAssignees, Save, Fail
<1>2. CASE Done(w)
  <2>1. StepsLeft(w)' = 0
    BY <1>2, EndedJob DEF StepsLeft
  <2>2. StepsLeft(w) > 0
    BY <1>1 DEF StepsLeft, StepsFrom, Places
  <2> QED
    BY <2>1, <2>2
<1>3. ASSUME NEW place \in Places, Goto(w, place), StepsFrom[place] < StepsFrom[job[w].at]
      PROVE  StepsLeft(w)' < StepsLeft(w)
  BY <1>1, <1>3, MovedJobKeeps DEF StepsLeft
<1>4. CASE FindTask(w)
  <2>0. job[w].at = "find"
    BY <1>4 DEF FindTask
  <2>1. ASSUME NEW place \in {"create", "gather"}, Goto(w, place)
        PROVE  StepsLeft(w)' < StepsLeft(w)
    <3>1. place \in Places /\ StepsFrom[place] < StepsFrom["find"]
      BY DEF StepsFrom, Places
    <3> QED
      BY <1>3, <2>0, <2>1, <3>1
  <2>2. ASSUME NEW i \in Existing,
               job' = [job EXCEPT ![w] = [job[w] EXCEPT !.at = "gather", !.id = i,
                          !.present = task[i].members, !.remove = ToRemove(task[i])]]
        PROVE  StepsLeft(w)' < StepsLeft(w)
    <3> DEFINE j == [job[w] EXCEPT !.at = "gather", !.id = i,
                       !.present = task[i].members, !.remove = ToRemove(task[i])]
    <3>1. j \in Jobs /\ j.at = "gather"
      BY <1>1, JobIsNotIdle, ExistingIsTask DEF Jobs, Places, ToRemove
    <3>2. job'[w] = j /\ j # Idle
      BY <2>2, <3>1, ReplacedJob, TrackerAssumption
    <3> HIDE DEF j
    <3> QED
      BY <1>1, <2>0, <3>1, <3>2 DEF StepsLeft, StepsFrom
  <2> QED
    BY <1>2, <1>4, <2>1, <2>2 DEF FindTask
<1>5. CASE Gather(w)
  <2>1. PICK users \in SUBSET Users : Gather(w)!2!(users)
    BY <1>5 DEF Gather
  <2> DEFINE j == [job[w] EXCEPT !.desired = users, !.add = Assignees(users) \ job[w].present,
                     !.present = {}, !.at = IF job[w].id = NoTask THEN "create" ELSE "move"]
  <2>2. j \in Jobs /\ j.at \in {"create", "move"}
    BY <1>1, GatheredJob
  <2>3. job'[w] = j /\ j # Idle
    BY <2>1, <2>2, ReplacedJob, TrackerAssumption
  <2> HIDE DEF j
  <2> QED
    BY <1>1, <1>5, <2>2, <2>3 DEF Gather, StepsLeft, StepsFrom
<1>6. CASE CreateTask(w) \/ Save(w) \/ Fail(w)
  BY <1>2, <1>6 DEF CreateTask, Save, Fail
<1>7. CASE Move(w)
  BY <1>3, <1>7 DEF Move, StepsFrom, Places
<1>8. CASE RemoveFollowers(w) \/ RemoveAssignees(w)
  BY <1>3, <1>8 DEF RemoveFollowers, RemoveAssignees, StepsFrom, Places
<1>9. CASE AddAssignees(w)
  BY <1>3, <1>9 DEF AddAssignees, StepsFrom, Places
<1> QED
  BY <1>4, <1>5, <1>6, <1>7, <1>8, <1>9 DEF Step

\* The other jobs and the people leave a job alone.
LEMMA OthersLeaveJob ==
  ASSUME [Next]_vars, NEW w \in Workers, ~Step(w), ~Deliver(w)
  PROVE  StepsLeft(w)' = StepsLeft(w)
<1>1. ASSUME NEW v \in Workers, v # w, Deliver(v) \/ Step(v)
      PROVE  job'[w] = job[w]
  <2>1. \E j : job' = [job EXCEPT ![v] = j]
    BY <1>1 DEF Deliver, Step, FindTask, Gather, CreateTask, Move, RemoveFollowers, RemoveAssignees,
                AddAssignees, Save, Fail, Goto, Done
  <2> QED
    BY <1>1, <2>1
<1>2. job'[w] = job[w]
  BY <1>1 DEF Next, EditMembers, Drag, vars
<1> QED
  BY <1>2 DEF StepsLeft

\* A job ends after a number of its own steps, for any number of jobs at a time.
THEOREM JobsAreBounded == Spec => JobsEnd
<1>1. Spec => []Typed
  BY InitIInv, TypedStep, PTL DEF Spec, IInv
<1>2. Typed /\ [Next]_vars =>
        [\A w \in Workers :
           IF Step(w) THEN StepsLeft(w)' < StepsLeft(w)
                      ELSE Deliver(w) \/ StepsLeft(w)' = StepsLeft(w)]_vars
  BY StepLeadsOn, OthersLeaveJob
<1> QED
  BY <1>1, <1>2, PTL DEF Spec, JobsEnd

\* The step that ends a job without a failure leaves its event shown.
LEMMA EndsShown ==
  ASSUME Serial, IInv, Next, NEW w \in Workers, job[w] # Idle, job'[w] = Idle, ~failed'
  PROVE  \E i \in Existing' : Stale(task'[i].latest, job[w].event)
<1> USE DEF IInv, Typed
<1>1. Step(w)
  <2>1. ~Deliver(w) /\ ~EditMembers /\ ~Drag
    BY DEF Deliver, EditMembers, Drag
  <2> QED
    BY <2>1 DEF Next, Serial
<1>2. ~Fail(w)
  BY DEF Fail
<1>3. ASSUME NEW place \in Places, Goto(w, place) PROVE FALSE
  BY <1>3, MovedJobKeeps
<1>4. CASE FindTask(w)
  <2>1. PICK i \in Existing :
          job[w].event = Untriggered \/ Stale(task[i].latest, job[w].event)
    <3>1. \A i, k \in Existing : i = k
      BY DEF UniqueTask
    <3>2. ASSUME Existing = {}, Goto(w, IF job[w].event = Untriggered THEN "create" ELSE "gather")
          PROVE  FALSE
      BY <1>3, <3>2 DEF Places
    <3>3. ASSUME NEW i \in Existing,
                 job' = [job EXCEPT ![w] = [job[w] EXCEPT !.at = "gather", !.id = i,
                            !.present = task[i].members, !.remove = ToRemove(task[i])]]
          PROVE  FALSE
      <4> DEFINE j == [job[w] EXCEPT !.at = "gather", !.id = i,
                         !.present = task[i].members, !.remove = ToRemove(task[i])]
      <4>1. j \in Jobs
        BY JobIsNotIdle, ExistingIsTask DEF Jobs, Places, ToRemove
      <4> HIDE DEF j
      <4>2. job'[w] = j
        BY <3>3, <4>1, ReplacedJob DEF j
      <4> QED
        BY <4>1, <4>2, TrackerAssumption
    <3> QED
      BY <1>4, <3>1, <3>2, <3>3 DEF FindTask
  <2>2. task' = task
    BY <1>4 DEF FindTask
  <2>3. Stale(task[i].latest, job[w].event)
    <3>1. CASE job[w].event = Untriggered
      <4>1. task[i].latest \in Cursors
        BY ExistingIsTask
      <4>2. CASE task[i].latest \in Events
        <5>1. task[i].latest.run \in Nat \ {0}
          BY <4>2, TrackerAssumption DEF Events
        <5>2. job[w].event.run = 0
          BY <3>1 DEF Untriggered
        <5> QED
          BY <5>1, <5>2 DEF Stale, Older
      <4> QED
        BY <3>1, <4>1, <4>2 DEF Cursors, Stale
    <3> QED
      BY <2>1, <3>1
  <2> QED
    BY <2>2, <2>3 DEF Existing
<1>5. ~Gather(w)
  <2> SUFFICES ASSUME Gather(w) PROVE FALSE
    OBVIOUS
  <2>1. PICK users \in SUBSET Users : Gather(w)!2!(users)
    BY DEF Gather
  <2> DEFINE j == [job[w] EXCEPT !.desired = users, !.add = Assignees(users) \ job[w].present,
                     !.present = {}, !.at = IF job[w].id = NoTask THEN "create" ELSE "move"]
  <2>2. j \in Jobs
    BY GatheredJob
  <2> HIDE DEF j
  <2>3. job'[w] = j
    BY <2>1, <2>2, ReplacedJob DEF j
  <2> QED
    BY <2>2, <2>3, TrackerAssumption
<1>6. CASE CreateTask(w)
  <2> DEFINE i == Fresh(TaskIds \ Existing)
  <2>1. i \in TaskIds
    BY <1>6, FreshIsMember DEF CreateTask, Existing
  <2>2. NewTask(w) \in Tasks /\ NewTask(w).latest = job[w].event
    BY <1>6, JobIsNotIdle, CursorState
       DEF CreateTask, Busy, NewTask, Tasks, Members, Assignees, Roles
  <2>3. task'[i] = NewTask(w)
    BY <1>6, <2>1 DEF CreateTask, TypeOK
  <2>4. i \in Existing'
    BY <2>1, <2>2, <2>3, TrackerAssumption DEF Existing
  <2> QED
    BY <2>2, <2>3, <2>4 DEF Stale
<1>7. CASE Save(w)
  <2> DEFINE i == job[w].id
             t == [task[i] EXCEPT !.latest = job[w].event, !.managed = Assignees(job[w].desired)]
  <2>1. i \in Existing
    BY <1>7 DEF Save, Busy, PlaceInv, Changing
  <2>2. t \in Tasks /\ t.latest = job[w].event
    BY <2>1, ExistingIsTask, JobIsNotIdle DEF Tasks, Assignees, Members, Roles
  <2>3. task' = [task EXCEPT ![i] = t]
    BY <1>7 DEF Save
  <2> HIDE DEF t
  <2>4. task'[i] = t /\ i \in Existing'
    BY <2>1, <2>2, <2>3, TrackerAssumption DEF Existing, TypeOK
  <2> QED
    BY <2>2, <2>4 DEF Stale
<1>8. ~Move(w) /\ ~RemoveFollowers(w) /\ ~RemoveAssignees(w) /\ ~AddAssignees(w)
  BY <1>3 DEF Move, RemoveFollowers, RemoveAssignees, AddAssignees, Places
<1> QED
  BY <1>1, <1>2, <1>4, <1>5, <1>6, <1>7, <1>8 DEF Step

\* When jobs are serial, a job that ends without a failure has shown its event.
THEOREM ShownCorrect ==
  ASSUME Serial
  PROVE  Spec => ShownAtTheEnd
<1>1. IInv /\ [Next]_vars =>
        [\A w \in Workers :
           job[w] # Idle /\ job'[w] = Idle /\ ~failed' =>
             \E i \in Existing' : Stale(task'[i].latest, job[w].event)]_vars
  BY EndsShown
<1> QED
  BY <1>1, SerialInvariance, PTL DEF Spec, ShownAtTheEnd

-----------------------------------------------------------------------------
(***************************************************************************)
(* FeishuBoard: for any repositories, any number of sections and any       *)
(* failures the shared list stays unique, and undisturbed jobs leave it    *)
(* whole.                                                                  *)
(***************************************************************************)
\* What a job has become, and what a list has become.
LEMMA JobBecomes ==
  ASSUME BoardTypes, NEW r \in Repos, NEW j \in Setups \cup {NoJob}, setup' = [setup EXCEPT ![r] = j]
  PROVE  /\ setup' \in [Repos -> Setups \cup {NoJob}]
         /\ setup'[r] = j
         /\ \A s \in Repos : s # r => setup'[s] = setup[s]
BY DEF BoardTypes

LEMMA BoardBecomes ==
  ASSUME BoardTypes, NEW l \in Lists, NEW b \in Boards, board' = [board EXCEPT ![l] = b]
  PROVE  /\ board' \in [Lists -> Boards \cup {None}]
         /\ board'[l] = b
         /\ \A m \in Lists : m # l => board'[m] = board[m]
BY DEF BoardTypes

LEMMA CreatedIsBoard ==
  ASSUME BoardTypes, NEW l \in CreatedLists
  PROVE  /\ l \in Lists /\ board[l] \in Boards
         /\ board[l].chat \in ChatRoles /\ board[l].columns \in [Sections -> Nat]
BY DEF BoardTypes, CreatedLists, Boards

LEMMA RunsSetup ==
  ASSUME BoardTypes, NEW r \in Repos, setup[r] # NoJob
  PROVE  /\ setup[r] \in Setups /\ setup[r].at \in Calls
         /\ setup[r].todo \in SUBSET Sections /\ setup[r].twice \in BOOLEAN
BY DEF BoardTypes, Setups

(***************************************************************************)
(* What the invariant adds.  A job that is to create the list still finds  *)
(* none, and what a job is to fill in is exactly what is missing: while    *)
(* the board is not set up no other job changes it, and once it is set up  *)
(* nothing is missing.                                                     *)
(***************************************************************************)
Alone ==
  ~onboarded => \A r, s \in Repos : setup[r] # NoJob /\ setup[s] # NoJob => r = s

HoldsList ==
  \A r \in Repos :
    setup[r] # NoJob /\ setup[r].at \in {"remove", "add", "look", "fill"} => setup[r].list \in CreatedLists

CreatesFirst == \A r \in Repos : At(r, "create") => CreatedLists = {}

FillsMissing ==
  \A r \in Repos :
    At(r, "fill") =>
      /\ ~setup[r].twice
      /\ \A k \in Sections : board[setup[r].list].columns[k] = 0 <=> k \in setup[r].todo

IsSetUp ==
  onboarded => \E l \in CreatedLists : \A k \in Sections : board[l].columns[k] = 1

\* The role that is still missing will be given by a job that runs.
ChatCared ==
  ~trouble =>
    \A l \in CreatedLists :
      \/ board[l].chat = "editor"
      \/ \E r \in Repos : setup[r] # NoJob /\ setup[r].at \in {"find", "remove", "add"}

QuietIsSetUp == Quiet /\ ~trouble => onboarded

BoardInv ==
  /\ BoardTypes /\ UniqueBoard
  /\ Alone /\ HoldsList /\ CreatesFirst /\ FillsMissing /\ IsSetUp
  /\ ChatCared /\ QuietIsSetUp

-----------------------------------------------------------------------------
LEMMA BoardInitInv == BoardInit => BoardInv
<1> SUFFICES ASSUME BoardInit PROVE BoardInv
  OBVIOUS
<1>1. CASE board = [l \in Lists |-> None]
  BY <1>1 DEF BoardInit, BoardInv, BoardTypes, UniqueBoard, Alone, HoldsList, CreatesFirst, FillsMissing,
              IsSetUp, ChatCared, QuietIsSetUp, CreatedLists, At
<1>2. ASSUME NEW l \in Lists, NEW role \in ChatRoles, NEW columns \in [Sections -> {0, 1}],
             board = [i \in Lists |->
                        IF i = l THEN [chat |-> role, columns |-> columns] ELSE None]
      PROVE  BoardInv
  <2>1. [chat |-> role, columns |-> columns] \in Boards
    BY DEF Boards
  <2>2. board \in [Lists -> Boards \cup {None}] /\ CreatedLists = {l}
    BY <1>2, <2>1, BoardAssumption DEF CreatedLists
  <2>3. UniqueBoard
    BY <1>2, <2>2 DEF UniqueBoard
  <2> QED
    BY <2>2, <2>3 DEF BoardInit, BoardInv, BoardTypes, Alone, HoldsList, CreatesFirst, FillsMissing,
                      IsSetUp, ChatCared, QuietIsSetUp, At
<1> QED
  BY <1>1, <1>2 DEF BoardInit

\* A job starts.
LEMMA StartInv == ASSUME BoardInv, NEW r \in Repos, Start(r) PROVE BoardInv'
<1> USE DEF BoardInv
<1>1. Starting \in Setups /\ Starting.at = "find" /\ Starting # NoJob
  <2>1. Starting \in Setups
    BY DEF Starting, Setups, Calls
  <2> QED
    BY <2>1, BoardAssumption DEF Starting
<1>2. /\ setup' \in [Repos -> Setups \cup {NoJob}]
      /\ setup'[r] = Starting
      /\ \A s \in Repos : s # r => setup'[s] = setup[s]
  BY <1>1, JobBecomes DEF Start
<1>3. CreatedLists' = CreatedLists /\ board' = board
  BY DEF Start, CreatedLists
<1>4. BoardTypes' /\ UniqueBoard'
  BY <1>2, <1>3 DEF Start, BoardTypes, UniqueBoard
<1>5. Alone'
  BY <1>2 DEF Start, Alone, Quiet
<1>6. HoldsList' /\ CreatesFirst' /\ FillsMissing' /\ IsSetUp'
  BY <1>1, <1>2, <1>3 DEF Start, HoldsList, CreatesFirst, FillsMissing, IsSetUp, At
<1>7. ChatCared' /\ QuietIsSetUp'
  BY <1>1, <1>2 DEF Start, ChatCared, QuietIsSetUp, Quiet
<1> QED
  BY <1>4, <1>5, <1>6, <1>7

\* A job goes on, or ends, and no list changes.
LEMMA JobStep ==
  ASSUME BoardInv, NEW r \in Repos, setup[r] # NoJob, NEW j \in Setups \cup {NoJob},
         setup' = [setup EXCEPT ![r] = j], board' = board, onboarded' = onboarded, trouble' \in BOOLEAN,
         j # NoJob =>
           /\ j.at \in {"remove", "add", "look", "fill"} => j.list \in CreatedLists
           /\ j.at = "create" => CreatedLists = {}
           /\ j.at = "fill" =>
                /\ ~j.twice
                /\ \A k \in Sections : board[j.list].columns[k] = 0 <=> k \in j.todo
  PROVE  /\ BoardTypes' /\ UniqueBoard'
         /\ Alone' /\ HoldsList' /\ CreatesFirst' /\ FillsMissing' /\ IsSetUp'
<1> USE DEF BoardInv
<1>1. /\ setup' \in [Repos -> Setups \cup {NoJob}]
      /\ setup'[r] = j
      /\ \A s \in Repos : s # r => setup'[s] = setup[s]
  BY JobBecomes
<1>2. CreatedLists' = CreatedLists
  BY DEF CreatedLists
<1>3. BoardTypes' /\ UniqueBoard' /\ IsSetUp'
  BY <1>1, <1>2 DEF BoardTypes, UniqueBoard, IsSetUp
<1>4. Alone'
  BY <1>1 DEF Alone
<1>5. HoldsList' /\ CreatesFirst'
  BY <1>1, <1>2 DEF HoldsList, CreatesFirst, At
<1>6. FillsMissing'
  BY <1>1 DEF FillsMissing, At
<1> QED
  BY <1>3, <1>4, <1>5, <1>6

\* The lists are read.
LEMMA FindListInv == ASSUME BoardInv, NEW r \in Repos, FindList(r) PROVE BoardInv'
<1> USE DEF BoardInv
<1>1. setup[r] # NoJob /\ setup[r].at = "find" /\ setup[r] \in Setups
  BY RunsSetup DEF FindList, At
<1>2. CreatedLists' = CreatedLists /\ board' = board /\ onboarded' = onboarded /\ trouble' = trouble
  BY DEF FindList, CreatedLists
<1>3. ASSUME NEW j \in Setups, setup' = [setup EXCEPT ![r] = j],
             \/ j.at = "create" /\ CreatedLists = {}
             \/ j.list \in CreatedLists /\ j.at \in {"remove", "add"}
             \/ /\ j.list \in CreatedLists /\ j.at = "look"
                /\ CreatedLists = {j.list} /\ board[j.list].chat = "editor"
      PROVE  BoardInv'
  <2>1. /\ BoardTypes' /\ UniqueBoard'
        /\ Alone' /\ HoldsList' /\ CreatesFirst' /\ FillsMissing' /\ IsSetUp'
    BY <1>1, <1>2, <1>3, JobStep DEF BoardTypes
  <2>2. setup'[r] = j /\ j # NoJob /\ \A s \in Repos : s # r => setup'[s] = setup[s]
    BY <1>3, JobBecomes, BoardAssumption
  <2>3. ChatCared' /\ QuietIsSetUp'
    BY <1>1, <1>2, <1>3, <2>2 DEF ChatCared, QuietIsSetUp, Quiet
  <2> QED
    BY <2>1, <2>3
<1>4. CASE CreatedLists = {} /\ Continue(r, "create")
  <2> DEFINE j == [setup[r] EXCEPT !.at = "create"]
  <2>1. j \in Setups /\ j.at = "create"
    BY <1>1 DEF Setups, Calls
  <2>2. setup' = [setup EXCEPT ![r] = j]
    BY <1>4 DEF Continue
  <2> HIDE DEF j
  <2> QED
    BY <1>3, <1>4, <2>1, <2>2
<1>5. ASSUME NEW l \in CreatedLists, CreatedLists = {l},
             setup' = [setup EXCEPT ![r].list = l, ![r].at = Repair(board[l].chat)]
      PROVE  BoardInv'
  <2>1. /\ Repair(board[l].chat) \in {"remove", "add", "look"}
        /\ Repair(board[l].chat) = "look" => board[l].chat = "editor"
    BY CreatedIsBoard DEF Repair, ChatRoles
  <2> DEFINE j == [setup[r] EXCEPT !.list = l, !.at = Repair(board[l].chat)]
  <2>2. j \in Setups /\ j.list = l /\ j.at = Repair(board[l].chat)
    BY <1>1, <2>1, CreatedIsBoard DEF Setups, Calls
  <2>3. setup' = [setup EXCEPT ![r] = j]
    BY <1>5, <1>1 DEF BoardTypes
  <2> HIDE DEF j
  <2> QED
    BY <1>3, <1>5, <2>1, <2>2, <2>3
<1> QED
  BY <1>4, <1>5 DEF FindList, UniqueBoard

\* The sections are read.
LEMMA FindSectionsInv == ASSUME BoardInv, NEW r \in Repos, FindSections(r) PROVE BoardInv'
<1> USE DEF BoardInv
<1>1. setup[r] # NoJob /\ setup[r].at = "look" /\ setup[r] \in Setups /\ setup[r].list \in CreatedLists
  BY RunsSetup DEF FindSections, At, HoldsList
<1> DEFINE columns == board[setup[r].list].columns
           j == [setup[r] EXCEPT !.at = "fill", !.todo = Missing(columns),
                               !.twice = \E k \in Sections : columns[k] > 1]
<1>2. columns \in [Sections -> Nat] /\ \A k \in Sections : columns[k] <= 1
  BY <1>1, CreatedIsBoard DEF UniqueBoard
<1>3. Sections \subseteq Nat /\ \A k \in Sections : 1..k \subseteq Sections
  BY BoardAssumption DEF Sections
<1>4. /\ Missing(columns) = {k \in Sections : columns[k] = 0}
      /\ ~ \E k \in Sections : columns[k] > 1
  <2>1. \A k \in Sections : \A i \in 1..k : columns[i] <= 1
    BY <1>2, <1>3
  <2>2. ~ \E k \in Sections : columns[k] > 1
    BY <1>2
  <2> QED
    BY <2>1, <2>2 DEF Missing
<1>5. /\ j \in Setups /\ j.list = setup[r].list /\ j.at = "fill" /\ ~j.twice
      /\ j.todo = Missing(columns)
  BY <1>1, <1>4 DEF Setups, Calls
<1>6. /\ setup' = [setup EXCEPT ![r] = j]
      /\ board' = board /\ onboarded' = onboarded /\ trouble' = trouble /\ CreatedLists' = CreatedLists
  BY DEF FindSections, CreatedLists
<1>7. \A k \in Sections : board[j.list].columns[k] = 0 <=> k \in j.todo
  BY <1>4, <1>5
<1> HIDE DEF j
<1>8. /\ BoardTypes' /\ UniqueBoard'
      /\ Alone' /\ HoldsList' /\ CreatesFirst' /\ FillsMissing' /\ IsSetUp'
  BY <1>1, <1>5, <1>6, <1>7, JobStep DEF BoardTypes
<1>9. setup'[r] = j /\ j # NoJob /\ \A s \in Repos : s # r => setup'[s] = setup[s]
  BY <1>5, <1>6, JobBecomes, BoardAssumption
<1>10. ChatCared' /\ QuietIsSetUp'
  BY <1>1, <1>5, <1>6, <1>9 DEF ChatCared, QuietIsSetUp, Quiet
<1> QED
  BY <1>8, <1>10

\* A job fails.
LEMMA BreakOffInv == ASSUME BoardInv, NEW r \in Repos, BreakOff(r) PROVE BoardInv'
<1> USE DEF BoardInv
<1>1. /\ BoardTypes' /\ UniqueBoard'
      /\ Alone' /\ HoldsList' /\ CreatesFirst' /\ FillsMissing' /\ IsSetUp'
  BY JobStep DEF BreakOff
<1> QED
  BY <1>1 DEF BreakOff, ChatCared, QuietIsSetUp

\* ensure_board returns.
LEMMA ReturnInv == ASSUME BoardInv, NEW r \in Repos, Return(r) PROVE BoardInv'
<1> USE DEF BoardInv
<1>1. /\ setup[r] # NoJob /\ setup[r].at = "fill" /\ setup[r].list \in CreatedLists
      /\ \A k \in Sections : board[setup[r].list].columns[k] # 0
  BY DEF Return, At, HoldsList, FillsMissing
<1>2. onboarded' = TRUE
  BY DEF Return, At, FillsMissing
<1>3. /\ setup' \in [Repos -> Setups \cup {NoJob}]
      /\ setup'[r] = NoJob
      /\ \A s \in Repos : s # r => setup'[s] = setup[s]
  BY JobBecomes DEF Return
<1>4. CreatedLists' = CreatedLists /\ board' = board /\ trouble' = trouble
  BY DEF Return, CreatedLists
<1>5. BoardTypes' /\ UniqueBoard' /\ Alone'
  BY <1>2, <1>3, <1>4 DEF BoardTypes, UniqueBoard, Alone
<1>6. HoldsList' /\ CreatesFirst' /\ FillsMissing'
  BY <1>3, <1>4 DEF HoldsList, CreatesFirst, FillsMissing, At
<1>7. \A k \in Sections : board[setup[r].list].columns[k] = 1
  BY <1>1, CreatedIsBoard DEF UniqueBoard
<1>8. IsSetUp' /\ QuietIsSetUp'
  BY <1>1, <1>2, <1>4, <1>7 DEF IsSetUp, QuietIsSetUp
<1>9. ChatCared'
  BY <1>1, <1>3, <1>4 DEF ChatCared
<1> QED
  BY <1>5, <1>6, <1>8, <1>9

\* Only the role of the chat in a list changes.
LEMMA RoleStep ==
  ASSUME BoardInv, NEW l \in CreatedLists, NEW role \in ChatRoles,
         board' = [board EXCEPT ![l].chat = role]
  PROVE  /\ board' \in [Lists -> Boards \cup {None}]
         /\ CreatedLists' = CreatedLists
         /\ \A m \in CreatedLists : board'[m].columns = board[m].columns
         /\ board'[l].chat = role
<1> DEFINE b == [board[l] EXCEPT !.chat = role]
<1>1. l \in Lists /\ board[l] \in Boards
  BY CreatedIsBoard DEF BoardInv
<1>2. b \in Boards /\ b.chat = role /\ b.columns = board[l].columns /\ b # None
  <2>1. b \in Boards
    BY <1>1 DEF Boards
  <2> QED
    BY <1>1, <2>1, BoardAssumption DEF Boards
<1>3. board' = [board EXCEPT ![l] = b]
  BY <1>1 DEF BoardInv, BoardTypes
<1> HIDE DEF b
<1>4. board' \in [Lists -> Boards \cup {None}] /\ board'[l] = b /\ \A m \in Lists : m # l => board'[m] = board[m]
  BY <1>1, <1>2, <1>3, BoardBecomes DEF BoardInv
<1>5. CreatedLists' = CreatedLists
  BY <1>2, <1>4 DEF CreatedLists
<1> QED
  BY <1>2, <1>4, <1>5 DEF CreatedLists

\* A job that changes the role goes on to another place of its own.
LEMMA RoleChanges ==
  ASSUME BoardInv, NEW r \in Repos, NEW role \in ChatRoles, NEW place \in {"add", "look"},
         setup[r] # NoJob, setup[r].at \in {"remove", "add"},
         board' = [board EXCEPT ![setup[r].list].chat = role], Continue(r, place),
         onboarded' = onboarded, trouble' = trouble, place = "add" \/ role = "editor"
  PROVE  BoardInv'
<1> USE DEF BoardInv
<1>1. setup[r] \in Setups /\ setup[r].list \in CreatedLists
  BY RunsSetup DEF HoldsList
<1>2. /\ board' \in [Lists -> Boards \cup {None}]
      /\ CreatedLists' = CreatedLists
      /\ \A m \in CreatedLists : board'[m].columns = board[m].columns
      /\ board'[setup[r].list].chat = role
  BY <1>1, RoleStep
<1> DEFINE j == [setup[r] EXCEPT !.at = place]
<1>3. j \in Setups /\ j.at = place /\ j.list = setup[r].list /\ setup' = [setup EXCEPT ![r] = j]
  BY <1>1 DEF Setups, Calls, Continue
<1> HIDE DEF j
<1>4. /\ setup' \in [Repos -> Setups \cup {NoJob}]
      /\ setup'[r] = j /\ j # NoJob
      /\ \A s \in Repos : s # r => setup'[s] = setup[s]
  BY <1>3, JobBecomes, BoardAssumption
<1>5. BoardTypes' /\ UniqueBoard' /\ IsSetUp'
  BY <1>2, <1>4 DEF BoardTypes, UniqueBoard, IsSetUp
<1>6. Alone' /\ HoldsList' /\ CreatesFirst'
  BY <1>1, <1>2, <1>3, <1>4 DEF Alone, HoldsList, CreatesFirst, At
<1>7. FillsMissing'
  BY <1>2, <1>3, <1>4 DEF FillsMissing, At, HoldsList
<1>8. QuietIsSetUp'
  BY <1>4 DEF QuietIsSetUp, Quiet
<1>9. ChatCared'
  <2>1. CASE place = "add"
    BY <1>3, <1>4, <2>1 DEF ChatCared
  <2>2. CASE role = "editor"
    BY <1>1, <1>2, <2>2 DEF ChatCared, UniqueBoard
  <2> QED
    BY <2>1, <2>2
<1> QED
  BY <1>5, <1>6, <1>7, <1>8, <1>9

LEMMA RemoveChatInv == ASSUME BoardInv, NEW r \in Repos, RemoveChat(r) PROVE BoardInv'
<1>1. PICK role \in {"none", "editor"} :
        board' = [board EXCEPT ![setup[r].list].chat = role]
  BY DEF RemoveChat
<1> QED
  BY <1>1, RoleChanges DEF RemoveChat, At, ChatRoles

LEMMA AddChatInv == ASSUME BoardInv, NEW r \in Repos, AddChat(r) PROVE BoardInv'
BY RoleChanges DEF AddChat, At, ChatRoles

\* A person changes the role.
LEMMA EditChatInv == ASSUME BoardInv, EditChat PROVE BoardInv'
<1> USE DEF BoardInv
<1>1. PICK l \in CreatedLists, role \in ChatRoles : board' = [board EXCEPT ![l].chat = role]
  BY DEF EditChat
<1>2. /\ board' \in [Lists -> Boards \cup {None}]
      /\ CreatedLists' = CreatedLists
      /\ \A m \in CreatedLists : board'[m].columns = board[m].columns
  BY <1>1, RoleStep
<1>3. setup' = setup /\ onboarded' = onboarded /\ trouble' = TRUE
  BY DEF EditChat
<1>4. BoardTypes' /\ UniqueBoard' /\ IsSetUp' /\ Alone' /\ HoldsList' /\ CreatesFirst'
  BY <1>2, <1>3 DEF BoardTypes, UniqueBoard, IsSetUp, Alone, HoldsList, CreatesFirst, At
<1>5. FillsMissing' /\ ChatCared' /\ QuietIsSetUp'
  BY <1>2, <1>3 DEF FillsMissing, At, HoldsList, ChatCared, QuietIsSetUp
<1> QED
  BY <1>4, <1>5

\* The list is created.
LEMMA CreateListInv == ASSUME BoardInv, NEW r \in Repos, CreateList(r) PROVE BoardInv'
<1> USE DEF BoardInv
<1>1. setup[r] # NoJob /\ setup[r] \in Setups /\ CreatedLists = {} /\ ~onboarded
  BY RunsSetup DEF CreateList, At, CreatesFirst, IsSetUp
<1> DEFINE new == [chat |-> "editor", columns |-> NoColumns]
<1>2. PICK l \in Lists : /\ board' = [board EXCEPT ![l] = new]
                         /\ setup' = [setup EXCEPT ![r].list = l, ![r].at = "look"]
  BY DEF CreateList
<1>3. new \in Boards /\ new # None /\ new.chat = "editor" /\ new.columns = NoColumns
  <2>1. new \in Boards
    BY DEF Boards, NoColumns, ChatRoles
  <2> QED
    BY <2>1, BoardAssumption
<1> HIDE DEF new
<1>4. board' \in [Lists -> Boards \cup {None}] /\ board'[l] = new /\ CreatedLists' = {l}
  <2>1. /\ board' \in [Lists -> Boards \cup {None}] /\ board'[l] = new
        /\ \A m \in Lists : m # l => board'[m] = board[m]
    BY <1>2, <1>3, BoardBecomes
  <2> QED
    BY <1>1, <1>3, <2>1 DEF CreatedLists
<1> DEFINE j == [setup[r] EXCEPT !.list = l, !.at = "look"]
<1>5. j \in Setups /\ j.at = "look" /\ j.list = l
  BY <1>1 DEF Setups, Calls
<1>6. setup' = [setup EXCEPT ![r] = j]
  BY <1>2 DEF BoardTypes
<1> HIDE DEF j
<1>7. /\ setup' \in [Repos -> Setups \cup {NoJob}]
      /\ setup'[r] = j /\ j # NoJob
      /\ \A s \in Repos : s # r => setup'[s] = setup[s] /\ setup'[s] = NoJob
  BY <1>1, <1>5, <1>6, JobBecomes, BoardAssumption DEF Alone
<1>8. onboarded' = onboarded /\ trouble' = trouble
  BY DEF CreateList
<1>9. BoardTypes' /\ Alone' /\ IsSetUp'
  BY <1>1, <1>4, <1>7, <1>8 DEF BoardTypes, Alone, IsSetUp
<1>10. UniqueBoard'
  BY <1>3, <1>4 DEF UniqueBoard, NoColumns
<1>11. HoldsList' /\ CreatesFirst' /\ FillsMissing'
  BY <1>4, <1>5, <1>7 DEF HoldsList, CreatesFirst, FillsMissing, At
<1>12. ChatCared' /\ QuietIsSetUp'
  BY <1>3, <1>4, <1>7 DEF ChatCared, QuietIsSetUp, Quiet
<1> QED
  BY <1>9, <1>10, <1>11, <1>12

\* A section is created.
LEMMA CreateSectionInv == ASSUME BoardInv, NEW r \in Repos, CreateSection(r) PROVE BoardInv'
<1> USE DEF BoardInv
<1> DEFINE l == setup[r].list
           columns == board[l].columns
<1>1. setup[r] # NoJob /\ setup[r].at = "fill" /\ setup[r] \in Setups /\ l \in CreatedLists /\ ~setup[r].twice
  BY RunsSetup DEF CreateSection, At, HoldsList, FillsMissing
<1>2. PICK k \in setup[r].todo :
        /\ board' = [board EXCEPT ![l].columns[k] = @ + 1]
        /\ setup' = [setup EXCEPT ![r].todo = @ \ {k}]
  BY DEF CreateSection
<1>3. k \in Sections /\ columns \in [Sections -> Nat] /\ columns[k] = 0 /\ setup[r].todo \in SUBSET Sections
  BY <1>1, CreatedIsBoard, RunsSetup DEF FillsMissing, At
<1> DEFINE filled == [columns EXCEPT ![k] = columns[k] + 1]
           b == [board[l] EXCEPT !.columns = filled]
           j == [setup[r] EXCEPT !.todo = @ \ {k}]
<1>4. filled \in [Sections -> Nat] /\ filled[k] = 1 /\ \A i \in Sections : i # k => filled[i] = columns[i]
  BY <1>3
<1>5. b \in Boards /\ b.chat = board[l].chat /\ b.columns = filled /\ b # None
  <2> HIDE DEF filled
  <2>1. b \in Boards
    BY <1>1, <1>4, CreatedIsBoard DEF Boards
  <2> QED
    BY <1>1, <2>1, CreatedIsBoard, BoardAssumption DEF Boards
<1>6. board' = [board EXCEPT ![l] = b] /\ setup' = [setup EXCEPT ![r] = j]
  <2>1. board' = [board EXCEPT ![l] = b]
    BY <1>2
  <2>2. setup' = [setup EXCEPT ![r] = j]
    BY <1>2
  <2> QED
    BY <2>1, <2>2
<1>7. j \in Setups /\ j.at = "fill" /\ j.list = l /\ j.todo = setup[r].todo \ {k} /\ ~j.twice
  BY <1>1, <1>3 DEF Setups
<1> HIDE DEF b, j, filled
<1>8. /\ board' \in [Lists -> Boards \cup {None}] /\ board'[l] = b
      /\ \A m \in Lists : m # l => board'[m] = board[m]
  BY <1>1, <1>5, <1>6, BoardBecomes, CreatedIsBoard
<1>9. CreatedLists' = CreatedLists /\ CreatedLists = {l}
  BY <1>1, <1>5, <1>8 DEF CreatedLists, UniqueBoard
<1>10. /\ setup' \in [Repos -> Setups \cup {NoJob}]
       /\ setup'[r] = j /\ j # NoJob
       /\ \A s \in Repos : s # r => setup'[s] = setup[s]
  BY <1>6, <1>7, JobBecomes, BoardAssumption
<1>11. ~onboarded /\ \A s \in Repos : s # r => setup[s] = NoJob
  BY <1>1, <1>3, <1>9 DEF IsSetUp, Alone
<1>12. onboarded' = onboarded /\ trouble' = trouble
  BY DEF CreateSection
<1>13. BoardTypes' /\ Alone' /\ IsSetUp'
  BY <1>8, <1>10, <1>11, <1>12 DEF BoardTypes, Alone, IsSetUp
<1>14. UniqueBoard'
  <2>1. \A i \in Sections : columns[i] <= 1
    BY <1>9 DEF UniqueBoard
  <2> QED
    BY <1>4, <1>5, <1>8, <1>9, <2>1 DEF UniqueBoard
<1>15. HoldsList' /\ CreatesFirst'
  BY <1>7, <1>9, <1>10, <1>11 DEF HoldsList, CreatesFirst, At
<1>16. FillsMissing'
  <2>1. \A i \in Sections : columns[i] = 0 <=> i \in setup[r].todo
    BY <1>1 DEF FillsMissing, At
  <2>2. \A i \in Sections : b.columns[i] = 0 <=> i \in j.todo
    BY <1>4, <1>5, <1>7, <2>1
  <2> QED
    BY <1>7, <1>8, <1>10, <1>11, <2>2 DEF FillsMissing, At
<1>17. ChatCared' /\ QuietIsSetUp'
  BY <1>1, <1>5, <1>8, <1>9, <1>10, <1>12 DEF ChatCared, QuietIsSetUp, Quiet
<1> QED
  BY <1>13, <1>14, <1>15, <1>16, <1>17

-----------------------------------------------------------------------------
LEMMA BoardNextInv == BoardInv /\ [BoardNext]_boardVars => BoardInv'
<1> SUFFICES ASSUME BoardInv, [BoardNext]_boardVars PROVE BoardInv'
  OBVIOUS
<1>1. CASE UNCHANGED boardVars
  BY <1>1 DEF boardVars, BoardInv, BoardTypes, UniqueBoard, Alone, HoldsList, CreatesFirst, FillsMissing,
              IsSetUp, ChatCared, QuietIsSetUp, Quiet, CreatedLists, At
<1>2. ASSUME NEW r \in Repos,
             \/ Start(r) \/ FindList(r) \/ CreateList(r) \/ RemoveChat(r) \/ AddChat(r)
             \/ FindSections(r) \/ CreateSection(r) \/ Return(r) \/ BreakOff(r)
      PROVE  BoardInv'
  BY <1>2, StartInv, FindListInv, CreateListInv, RemoveChatInv, AddChatInv, FindSectionsInv,
     CreateSectionInv, ReturnInv, BreakOffInv
<1> QED
  BY <1>1, <1>2, EditChatInv DEF BoardNext

\* All variables keep their types: the jobs' records are what ensure_board
\* knows between two of its calls.
THEOREM BoardTypeCorrect == BoardSpec => []BoardTypes
<1>1. BoardInv => BoardTypes
  BY DEF BoardInv
<1> QED
  BY <1>1, BoardInitInv, BoardNextInv, PTL DEF BoardSpec

\* ensure_board never creates a second list, or a second section of one state,
\* when the first job is alone, whatever fails and however later jobs overlap.
THEOREM BoardIsUnique == BoardSpec => []UniqueBoard
<1>1. BoardInv => UniqueBoard
  BY DEF BoardInv
<1> QED
  BY <1>1, BoardInitInv, BoardNextInv, PTL DEF BoardSpec

\* Undisturbed jobs leave a list that the chat can edit, with every section,
\* whatever earlier jobs or persons had left.
THEOREM BoardIsWhole == BoardSpec => []WholeBoard
<1>1. BoardInv => WholeBoard
  BY DEF BoardInv, WholeBoard, QuietIsSetUp, IsSetUp, ChatCared, Quiet
<1> QED
  BY <1>1, BoardInitInv, BoardNextInv, PTL DEF BoardSpec
=============================================================================
