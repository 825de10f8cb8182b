------------------------------ MODULE ActiveTag ------------------------------
(***************************************************************************)
(* What promote_tag promises to whoever follows the active tag, without    *)
(* the requests it is made of: a tag that is never moved from one digest   *)
(* to another but only taken away and attached again, and a process that   *)
(* is answerable for the gap and does not leave as if nothing were open.   *)
(* HarborTags is shown to implement this specification.                    *)
(***************************************************************************)
CONSTANTS
  Clients,  \* the processes that may move the tag
  Digests,  \* what the tag may point at
  Absent,   \* the tag does not exist
  Nobody    \* no process

VARIABLES
  active,    \* the digest of the active tag, or Absent
  debtor,    \* who took the tag away, while it is absent
  replaces,  \* the digest each process has seen as the one to replace
  settled,   \* the processes that ended with nothing left open
  loose      \* a write may be applied after its sender gave up

vars == <<active, debtor, replaces, settled, loose>>

Init ==
  /\ active \in Digests \cup {Absent}
  /\ debtor = Nobody
  /\ replaces = [c \in Clients |-> Absent]
  /\ settled = {}
  /\ loose = FALSE

\* A process whose gap is open does not settle, unless nobody can know.
MaySettle(c) == debtor # c \/ loose

\* A process sees the tag; with nothing to do it may leave.
Look(c) ==
  /\ replaces' = [replaces EXCEPT ![c] = active]
  /\ settled' = settled \/ (MaySettle(c) /\ settled' = settled \cup {c})
  /\ UNCHANGED <<active, debtor, loose>>

\* Only the digest that was seen is taken away, by a process that is still there.
TakeAway(c) ==
  /\ active # Absent /\ replaces[c] = active
  /\ c \notin settled \/ loose
  /\ active' = Absent
  /\ debtor' = c
  /\ UNCHANGED <<replaces, settled, loose>>

Attach(d) ==
  /\ active = Absent
  /\ active' = d
  /\ debtor' = Nobody
  /\ UNCHANGED <<replaces, settled, loose>>

Settle(c) ==
  /\ MaySettle(c)
  /\ settled' = settled \cup {c}
  /\ UNCHANGED <<active, debtor, replaces, loose>>

GiveUpOnWrite == loose' = TRUE /\ UNCHANGED <<active, debtor, replaces, settled>>

Next ==
  \/ \E c \in Clients : Look(c) \/ TakeAway(c) \/ Settle(c)
  \/ \E d \in Digests : Attach(d)
  \/ GiveUpOnWrite

Spec == Init /\ [][Next]_vars
=============================================================================
