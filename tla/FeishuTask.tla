----------------------------- MODULE FeishuTask -----------------------------
(***************************************************************************)
(* task_tracker.py: the synchroniser that keeps one Feishu task per        *)
(* repository and workflow in step with the runs of that workflow.         *)
(*                                                                         *)
(* Every pipeline run starts two short jobs (start and end of the run);    *)
(* each is a process that reads the task, decides whether its event is     *)
(* stale, and then changes the task in up to five separate API calls, of   *)
(* which the last one stores the cursor.  Deliveries may be repeated, late *)
(* or out of order, any call may fail with or without having been applied, *)
(* and people edit the task meanwhile.  Writes are never retried           *)
(* (JsonApi.request retries GET, HEAD and OPTIONS only).                   *)
(*                                                                         *)
(* The task list and its sections (ensure_board) are assumed to exist.     *)
(***************************************************************************)
EXTENDS Naturals

CONSTANTS
  Workers,    \* jobs that may run at the same time: one if jobs are serial
  Users,      \* members of the chat
  Runs,       \* workflow run ids
  Attempts,   \* run_attempt
  TaskIds,    \* tasks the list may come to hold
  NoTask,     \* absent
  Idle,       \* a worker without a job
  Failures    \* whether calls and jobs may fail

(***************************************************************************)
(* An event is what the cursor stores of it: run, attempt and board state. *)
(* Its version is (run, attempt, phase), compared lexicographically.       *)
(***************************************************************************)
Started  == "running"
Terminal == {"done", "error"}
BoardStates == {"untriggered", Started} \cup Terminal

Events == [run : Runs, attempt : Attempts, state : {Started} \cup Terminal]
Untriggered == [run |-> 0, attempt |-> 0, state |-> "untriggered"]
Cursors == Events \cup {Untriggered}

Phase(state) == IF state \in Terminal THEN 2 ELSE IF state = Started THEN 1 ELSE 0

Older(x, y) ==
  \/ x.run < y.run
  \/ x.run = y.run /\ x.attempt < y.attempt
  \/ x.run = y.run /\ x.attempt = y.attempt /\ Phase(x.state) < Phase(y.state)

\* Mutation: the phase is left out of the version.
StaleWithoutPhase(latest, incoming) ==
  \/ incoming.run < latest.run
  \/ incoming.run = latest.run /\ incoming.attempt < latest.attempt
  \/ latest = incoming

\* is_stale_or_duplicate
Stale(latest, incoming) == Older(incoming, latest) \/ latest = incoming

-----------------------------------------------------------------------------
Roles == {"assignee", "follower"}
Members == Users \X Roles
Assignees(users) == users \X {"assignee"}
Of(role, members) == {m \in members : m[2] = role}

\* managed is extra.managed_assignees together with extra.managed_followers.
Tasks == [section : BoardStates, members : SUBSET Members,
          latest : Cursors, managed : SUBSET Members]

VARIABLES
  task,      \* the tasks that carry this repository and workflow in extra
  job,       \* what each worker is doing
  byHand,    \* history: members last added or removed by a person
  guests,    \* history: members a person added whom no stored event has asked for since
  dragged,   \* history: a person moved the task since the last add_tasklist
  failed     \* history: some call or job has failed

vars == <<task, job, byHand, guests, dragged, failed>>

Places == {"find", "gather", "create", "move", "unfollow", "unassign", "assign", "save"}
\* id: the task find_task returned;  remove, add: what the member calls are
\* asked to do, computed from the task as it was read (present: its members);
\* desired: the assignees the event asks for.
Jobs == [at : Places, event : Cursors, id : TaskIds \cup {NoTask}, present : SUBSET Members,
         remove : SUBSET Members, add : SUBSET Members, desired : SUBSET Users]

ASSUME TrackerAssumption ==
  /\ Runs \subseteq Nat \ {0}
  /\ Attempts \subseteq Nat \ {0}
  /\ Failures \in BOOLEAN
  /\ NoTask \notin TaskIds \cup Tasks
  /\ Idle \notin Jobs

\* Some identifier: a new task gets one that no other task has.
Fresh(ids) == CHOOSE i \in ids : TRUE

Existing == {i \in TaskIds : task[i] # NoTask}
Busy(w, place) == job[w] # Idle /\ job[w].at = place

Goto(w, place) == job' = [job EXCEPT ![w].at = place]
Done(w) == job' = [job EXCEPT ![w] = Idle]

Change(i, field, value) ==
  task' = [task EXCEPT ![i] = [task[i] EXCEPT ![field] = value]]

Init ==
  /\ \/ task = [i \in TaskIds |-> NoTask]
     \* a task of the earlier schema, which managed followers
     \/ \E e \in Events, u \in Users :
          task = [i \in TaskIds |->
                    IF i = Fresh(TaskIds) THEN [section |-> e.state, latest |-> e,
                                   members |-> {<<u, "follower">>},
                                   managed |-> {<<u, "follower">>}]
                             ELSE NoTask]
  /\ job = [w \in Workers |-> Idle]
  /\ byHand = {}
  /\ guests = {}
  /\ dragged = FALSE
  /\ failed = FALSE

\* A job starts: sync for an event, provision for the cursor Untriggered.
\* GitHub may deliver any event again, late, or in any order.
Deliver(w) ==
  /\ job[w] = Idle
  /\ \E e \in Cursors :
       job' = [job EXCEPT ![w] = [at |-> "find", event |-> e, id |-> NoTask,
                                  present |-> {}, remove |-> {}, add |-> {}, desired |-> {}]]
  /\ UNCHANGED <<task, byHand, guests, dragged, failed>>

\* Members that a job added earlier and that are still there.
ToRemove(read) == read.managed \cap read.members

\* find_task, then the stale check of sync, the "already there" of provision.
FindTask(w) ==
  /\ Busy(w, "find")
  /\ \/ /\ Existing = {}
        /\ Goto(w, IF job[w].event = Untriggered THEN "create" ELSE "gather")
     \/ \E i \in Existing :
          /\ Existing = {i}
          /\ IF job[w].event = Untriggered \/ Stale(task[i].latest, job[w].event)
             THEN Done(w)
             ELSE job' = [job EXCEPT ![w] = [job[w] EXCEPT !.at = "gather", !.id = i,
                              !.present = task[i].members,
                              !.remove = ToRemove(task[i])]]
     \/ /\ \E i, k \in Existing : i # k      \* "multiple managed Feishu tasks"
        /\ Done(w)
  /\ UNCHANGED <<task, byHand, guests, dragged, failed>>

\* Mutation: without a matching contributor the job ends.
GatherSomebody(w) ==
  /\ Busy(w, "gather")
  /\ \E users \in SUBSET Users :
       IF users = {} THEN Done(w)
       ELSE job' = [job EXCEPT ![w] = [job[w] EXCEPT !.desired = users,
                   !.add = Assignees(users) \ job[w].present, !.present = {},
                   !.at = IF job[w].id = NoTask THEN "create" ELSE "move"]]
  /\ UNCHANGED <<task, byHand, guests, dragged, failed>>

\* Contributors on GitHub who are matched to members of the chat, at this
\* moment; nobody has to match.
Gather(w) ==
  /\ Busy(w, "gather")
  /\ \E users \in SUBSET Users :
       job' = [job EXCEPT ![w] = [job[w] EXCEPT !.desired = users,
                   !.add = Assignees(users) \ job[w].present, !.present = {},
                   !.at = IF job[w].id = NoTask THEN "create" ELSE "move"]]
  /\ UNCHANGED <<task, byHand, guests, dragged, failed>>

\* Mutation: users are stored where members, users with a role, belong.
NewTaskOfUsers(w) ==
  [section |-> job[w].event.state, latest |-> job[w].event,
   members |-> job[w].desired, managed |-> Assignees(job[w].desired)]

\* What create_task stores.
NewTask(w) ==
  [section |-> job[w].event.state, latest |-> job[w].event,
   members |-> Assignees(job[w].desired), managed |-> Assignees(job[w].desired)]

\* Mutation: a create whose answer is lost is sent again.
CreateTaskRetried(w) ==
  /\ Busy(w, "create")
  /\ task' = [i \in TaskIds |-> IF i \in Existing THEN task[i] ELSE NewTask(w)]
  /\ Done(w)
  /\ UNCHANGED <<byHand, guests, dragged, failed>>

\* One POST creates the task with its section, members and cursor.
CreateTask(w) ==
  /\ Busy(w, "create")
  /\ Existing # TaskIds        \* bound on the number of tasks
  /\ task' = [task EXCEPT ![Fresh(TaskIds \ Existing)] = NewTask(w)]
  /\ Done(w)
  /\ UNCHANGED <<byHand, guests, dragged, failed>>

\* add_tasklist
Move(w) ==
  /\ Busy(w, "move")
  /\ Change(job[w].id, "section", job[w].event.state)
  /\ dragged' = FALSE
  /\ Goto(w, "unfollow")
  /\ UNCHANGED <<byHand, guests, failed>>

\* remove_members, one call for each role
Remove(w, role) ==
  /\ Change(job[w].id, "members", task[job[w].id].members \ Of(role, job[w].remove))
  /\ byHand' = byHand \ Of(role, job[w].remove)
  /\ UNCHANGED <<guests, dragged, failed>>

RemoveFollowers(w) == Busy(w, "unfollow") /\ Remove(w, "follower") /\ Goto(w, "unassign")
RemoveAssignees(w) == Busy(w, "unassign") /\ Remove(w, "assignee") /\ Goto(w, "assign")

\* add_members
AddAssignees(w) ==
  /\ Busy(w, "assign")
  /\ Change(job[w].id, "members", task[job[w].id].members \cup job[w].add)
  /\ byHand' = byHand \ job[w].add
  /\ Goto(w, "save")
  /\ UNCHANGED <<guests, dragged, failed>>

\* Mutation: the cursor is stored without the list of managed members.
SaveCursorOnly(w) ==
  /\ Busy(w, "save")
  /\ Change(job[w].id, "latest", job[w].event)
  /\ Done(w)
  /\ UNCHANGED <<byHand, guests, dragged, failed>>

\* Mutation: everybody who is on the task is stored as managed.
SaveAllMembers(w) ==
  /\ Busy(w, "save")
  /\ LET i == job[w].id IN
       task' = [task EXCEPT ![i] = [task[i] EXCEPT !.latest = job[w].event, !.managed = task[i].members]]
  /\ guests' = guests \ Assignees(job[w].desired)
  /\ Done(w)
  /\ UNCHANGED <<byHand, dragged, failed>>

\* The PATCH that stores the cursor and the managed members: everyone whom the
\* event asked for, also who was already there because a person had added them.
Save(w) ==
  /\ Busy(w, "save")
  /\ LET i == job[w].id IN
       task' = [task EXCEPT ![i] = [task[i] EXCEPT !.latest = job[w].event,
                                                   !.managed = Assignees(job[w].desired)]]
  /\ guests' = guests \ Assignees(job[w].desired)
  /\ Done(w)
  /\ UNCHANGED <<byHand, dragged, failed>>

\* A call fails, or the process is killed; main returns 1 and tries nothing
\* more.  A call that was applied and whose answer is lost is this failure
\* one place later.
Fail(w) ==
  /\ Failures
  /\ job[w] # Idle
  /\ Done(w)
  /\ failed' = TRUE
  /\ UNCHANGED <<task, byHand, guests, dragged>>

\* External: a person adds or removes a member, or drags the task.
EditMembers ==
  \E i \in Existing, m \in Members :
    /\ \/ /\ Change(i, "members", task[i].members \cup {m})
          /\ guests' = guests \cup ({m} \ (task[i].members \cup task[i].managed))
       \/ /\ Change(i, "members", task[i].members \ {m})
          /\ guests' = guests \ {m}
    /\ byHand' = byHand \cup {m}
    /\ UNCHANGED <<job, dragged, failed>>

Drag ==
  \E i \in Existing, s \in BoardStates :
    /\ Change(i, "section", s)
    /\ dragged' = TRUE
    /\ UNCHANGED <<job, byHand, guests, failed>>

Step(w) ==
  \/ FindTask(w) \/ Gather(w) \/ CreateTask(w) \/ Move(w) \/ RemoveFollowers(w)
  \/ RemoveAssignees(w) \/ AddAssignees(w) \/ Save(w) \/ Fail(w)

Next == (\E w \in Workers : Deliver(w) \/ Step(w)) \/ EditMembers \/ Drag

\* A job that was started takes its next step: every call has a timeout.
Fairness == \A w \in Workers : WF_vars(Step(w))

Spec == Init /\ [][Next]_vars
FairSpec == Spec /\ Fairness

-----------------------------------------------------------------------------
(***************************************************************************)
(* Properties                                                              *)
(***************************************************************************)
\* The values every variable stays in.
TypeOK ==
  /\ task \in [TaskIds -> Tasks \cup {NoTask}]
  /\ job \in [Workers -> Jobs \cup {Idle}]
  /\ byHand \subseteq Members
  /\ guests \subseteq Members
  /\ dragged \in BOOLEAN
  /\ failed \in BOOLEAN

\* One workflow keeps one task, also when the answer to the POST that created
\* it was lost and the job is run again.  A second task would make find_task
\* fail for ever.
UniqueTask == \A i, k \in Existing : i = k

\* The cursor of a task never goes back: whatever is repeated, late or rerun
\* after a failure, an older event does not overwrite a newer one.
NewestWins ==
  [][\A i \in Existing : ~Older(task'[i].latest, task[i].latest)]_vars

\* A member whom a person added, and whom no event that was stored since has
\* asked for, stays until a person takes them off: no job does, whatever it read
\* before they came, whichever call of it or of earlier jobs failed.  The documents
\* promise this without the condition on events, which the code does not keep
\* (task_tracker.py:743): who is asked for once is managed from then on, and is
\* taken off by the next event that does not ask for them.
GuestsStay == \A i \in Existing : guests \subseteq task[i].members

\* Between jobs, as long as no call has failed, the task stands in the section
\* of the event its cursor names unless a person dragged it, and every member
\* the synchroniser added is on its list of managed members, so that the next
\* job can take it off again.
SettledBoard ==
  ~failed /\ (\A w \in Workers : job[w] = Idle) =>
    \A i \in Existing :
      /\ task[i].section = task[i].latest.state \/ dragged
      /\ task[i].members \ task[i].managed \subseteq byHand

\* Between jobs, as long as no call has failed, everyone the last event asked
\* for is assigned unless a person took them off.
ContributorsAssigned ==
  ~failed /\ (\A w \in Workers : job[w] = Idle) =>
    \A i \in Existing : task[i].managed \ task[i].members \subseteq byHand

\* An event whose job runs is in the end on the board or overtaken by a newer
\* one, unless a call fails.
EventuallyShown ==
  \A e \in Events, w \in Workers :
    job[w] # Idle /\ job[w].event = e
      ~> failed \/ \E i \in Existing : Stale(task[i].latest, e)
=============================================================================
