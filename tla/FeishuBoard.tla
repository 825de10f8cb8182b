----------------------------- MODULE FeishuBoard -----------------------------
(***************************************************************************)
(* task_tracker.py, ensure_board: every job of every repository first sees *)
(* to it that the task list they share is there: one list of the           *)
(* configured name, edited by the chat, with one section for each board    *)
(* state.  It looks, and then creates what it did not find, in up to six   *)
(* separate calls that any failure may cut short.                          *)
(*                                                                         *)
(* A workflow's jobs are serial, those of different repositories are not.  *)
(* docs/feishu-task-board.md has the repositories enabled in order, each   *)
(* provisioned first: jobs overlap only once the board has been set up.    *)
(* What the job does with the board afterwards is FeishuTask; no name is   *)
(* defined in both modules, so that one module can reason about both.      *)
(***************************************************************************)
EXTENDS Naturals

CONSTANTS
  Repos,     \* repositories that use the board, each with one job at a time
  Lists,     \* task lists that may come to exist
  Columns,   \* number of BOARD_STATES; a section is the number of its state
  None,      \* a list that does not exist
  NoJob      \* a repository without a job

Sections == 1..Columns
ChatRoles == {"none", "viewer", "editor"}
\* columns: how many sections have the name of that state
Boards == [chat : ChatRoles, columns : [Sections -> Nat]]

Calls == {"find", "create", "remove", "add", "look", "fill"}
\* todo: sections that were not there; twice: a name was there several times
Setups == [at : Calls, list : Lists \cup {None}, todo : SUBSET Sections, twice : BOOLEAN]

ASSUME BoardAssumption ==
  /\ Columns \in Nat \ {0}
  /\ None \notin Boards
  /\ NoJob \notin Setups

VARIABLES
  board,      \* the lists of the configured name
  setup,      \* what each repository's job is doing
  onboarded,  \* some job has set the board up
  trouble     \* history: a call failed or a person changed the chat's role
              \* since the first of the running jobs started

boardVars == <<board, setup, onboarded, trouble>>

CreatedLists == {l \in Lists : board[l] # None}
At(r, place) == setup[r] # NoJob /\ setup[r].at = place
Continue(r, place) == setup' = [setup EXCEPT ![r].at = place]
Quiet == \A r \in Repos : setup[r] = NoJob

NoColumns == [k \in Sections |-> 0]

\* Nothing, or a list that an earlier job or a person has left incomplete.
BoardInit ==
  /\ \/ board = [l \in Lists |-> None]
     \/ \E l \in Lists, role \in ChatRoles, columns \in [Sections -> {0, 1}] :
          board = [i \in Lists |->
                     IF i = l THEN [chat |-> role, columns |-> columns] ELSE None]
  /\ setup = [r \in Repos |-> NoJob]
  /\ onboarded = FALSE
  /\ trouble = TRUE

Starting == [at |-> "find", list |-> None, todo |-> {}, twice |-> FALSE]

\* Mutation: repositories are enabled at the same time.
StartAnyTime(r) ==
  /\ setup[r] = NoJob
  /\ setup' = [setup EXCEPT ![r] = Starting]
  /\ trouble' = (trouble /\ ~Quiet)
  /\ UNCHANGED <<board, onboarded>>

\* A job starts; alone until the board is set up.
Start(r) ==
  /\ setup[r] = NoJob
  /\ onboarded \/ Quiet
  /\ setup' = [setup EXCEPT ![r] = Starting]
  /\ trouble' = (trouble /\ ~Quiet)
  /\ UNCHANGED <<board, onboarded>>

\* Mutation: a chat that is a member already is taken for an editor.
RepairMissing(role) == IF role = "none" THEN "add" ELSE "look"

\* What has to be done about the role that the chat was read to have.
Repair(role) ==
  CASE role = "none" -> "add" [] role = "editor" -> "look" [] OTHER -> "remove"

\* The lists are read.
FindList(r) ==
  /\ At(r, "find")
  /\ \/ CreatedLists = {} /\ Continue(r, "create")
     \/ \E l \in CreatedLists :
          /\ CreatedLists = {l}
          /\ setup' = [setup EXCEPT ![r].list = l, ![r].at = Repair(board[l].chat)]
     \/ /\ \E l, m \in CreatedLists : l # m         \* "multiple Feishu task lists"
        /\ setup' = [setup EXCEPT ![r] = NoJob]
  /\ UNCHANGED <<board, onboarded, trouble>>

\* Mutation: the POST is tried again when its answer is lost.
CreateListRetried(r) ==
  /\ At(r, "create")
  /\ \E l \in Lists \ CreatedLists :
       /\ board' = [i \in Lists |-> IF i \in CreatedLists THEN board[i]
                                     ELSE [chat |-> "editor", columns |-> NoColumns]]
       /\ setup' = [setup EXCEPT ![r].list = l, ![r].at = "look"]
  /\ UNCHANGED <<onboarded, trouble>>

\* The list is created with the chat as its editor; it has none of the sections.
CreateList(r) ==
  /\ At(r, "create")
  /\ \E l \in Lists \ CreatedLists :
       /\ board' = [board EXCEPT ![l] = [chat |-> "editor", columns |-> NoColumns]]
       /\ setup' = [setup EXCEPT ![r].list = l, ![r].at = "look"]
  /\ UNCHANGED <<onboarded, trouble>>

\* remove_members names the role that was read; whether it takes off a chat
\* that another job has made an editor meanwhile is left open.
RemoveChat(r) ==
  /\ At(r, "remove")
  /\ \E role \in {"none"} \cup ({board[setup[r].list].chat} \cap {"editor"}) :
       board' = [board EXCEPT ![setup[r].list].chat = role]
  /\ Continue(r, "add")
  /\ UNCHANGED <<onboarded, trouble>>

AddChat(r) ==
  /\ At(r, "add")
  /\ board' = [board EXCEPT ![setup[r].list].chat = "editor"]
  /\ Continue(r, "look")
  /\ UNCHANGED <<onboarded, trouble>>

\* Mutation: only a list without any section gets them.
MissingOfNew(columns) ==
  IF \E k \in Sections : columns[k] # 0 THEN {} ELSE Sections

\* The sections that are created: those before the first name that is there
\* several times, at which the loop raises.
Missing(columns) ==
  {k \in Sections : columns[k] = 0 /\ \A j \in 1..k : columns[j] <= 1}

\* The sections of the list are read.
FindSections(r) ==
  /\ At(r, "look")
  /\ LET columns == board[setup[r].list].columns IN
       setup' = [setup EXCEPT ![r].at = "fill", ![r].todo = Missing(columns),
                          ![r].twice = \E k \in Sections : columns[k] > 1]
  /\ UNCHANGED <<board, onboarded, trouble>>

\* The next section that is missing is created.
CreateSection(r) ==
  /\ At(r, "fill")
  /\ \E k \in setup[r].todo :
       /\ \A j \in setup[r].todo : k <= j
       /\ board' = [board EXCEPT ![setup[r].list].columns[k] = @ + 1]
       /\ setup' = [setup EXCEPT ![r].todo = @ \ {k}]
  /\ UNCHANGED <<onboarded, trouble>>

\* All sections are resolved, or "multiple Feishu sections" is raised.
Return(r) ==
  /\ At(r, "fill")
  /\ setup[r].todo = {}
  /\ onboarded' = (onboarded \/ ~setup[r].twice)
  /\ setup' = [setup EXCEPT ![r] = NoJob]
  /\ UNCHANGED <<board, trouble>>

\* A call fails or the job is killed; nothing more is tried.  A write that was
\* applied and whose answer is lost is this failure one place later.
BreakOff(r) ==
  /\ setup[r] # NoJob
  /\ setup' = [setup EXCEPT ![r] = NoJob]
  /\ trouble' = TRUE
  /\ UNCHANGED <<board, onboarded>>

\* External: a person changes or removes the chat's role in the list.
EditChat ==
  \E l \in CreatedLists, role \in ChatRoles :
    /\ board' = [board EXCEPT ![l].chat = role]
    /\ trouble' = TRUE
    /\ UNCHANGED <<setup, onboarded>>

BoardNext ==
  \/ \E r \in Repos :
       \/ Start(r) \/ FindList(r) \/ CreateList(r) \/ RemoveChat(r) \/ AddChat(r)
       \/ FindSections(r) \/ CreateSection(r) \/ Return(r) \/ BreakOff(r)
  \/ EditChat

BoardSpec == BoardInit /\ [][BoardNext]_boardVars

-----------------------------------------------------------------------------
(***************************************************************************)
(* Properties                                                              *)
(***************************************************************************)
\* The values every variable stays in.
BoardTypes ==
  /\ board \in [Lists -> Boards \cup {None}]
  /\ setup \in [Repos -> Setups \cup {NoJob}]
  /\ onboarded \in BOOLEAN
  /\ trouble \in BOOLEAN

\* There is never a second list of that name, nor a second section of one
\* state: every job of every repository would fail until a person cleans up.
\* This holds whatever fails on the way and however jobs overlap later,
\* because no write is retried and the first job is alone.
UniqueBoard ==
  /\ \A l, m \in CreatedLists : l = m
  /\ \A l \in CreatedLists, k \in Sections : board[l].columns[k] <= 1

\* Jobs that have run, and overlapped, without a failing call and without a
\* person changing the chat's role leave the board whole, whatever they found:
\* also a chat that an earlier job had taken off and not added again.
WholeBoard ==
  Quiet /\ ~trouble =>
    \E l \in CreatedLists :
      board[l].chat = "editor" /\ \A k \in Sections : board[l].columns[k] = 1
=============================================================================
