----------------------------- MODULE HarborTags -----------------------------
(***************************************************************************)
(* The tag writes of harbor.py: promote_tag, tag_digest and delete_tag,    *)
(* run by several command-line processes at once against one repository    *)
(* of one Harbor registry.                                                 *)
(*                                                                         *)
(* The registry has no compare-and-swap.  A tag is moved by reading it,    *)
(* deleting it through the digest that was read, and attaching it to the   *)
(* new digest; every step is an HTTP request of its own, other processes   *)
(* run between two of them, and a write may fail without telling whether   *)
(* it was applied.                                                         *)
(*                                                                         *)
(* Writes are never retried (_request passes allow_write_retry=False);     *)
(* a HEAD that still fails after its retries is the fault "read" below.    *)
(***************************************************************************)
EXTENDS FiniteSets

CONSTANTS
  Clients,     \* processes, each running one command and then exiting
  Candidates,  \* candidate tags (sha-...), pushed by builds
  Active,      \* the tag the deployment follows (active_image_tag)
  Digests,     \* manifests present in the repository
  Absent,      \* what manifest_digest returns for a tag that does not exist
  Nobody,      \* no process
  Faults       \* which failures may happen

Tags == Candidates \cup {Active}
DigestOrAbsent == Digests \cup {Absent}

\* "read"   a HEAD request fails          "lost"  a write is applied or not, no answer
\* "late"   a write is applied after its sender gave up
\* "reject" a write is refused with 4xx   "crash" a process is killed
AllFaults == {"read", "lost", "late", "reject", "crash"}

ASSUME TagsAssumption ==
  /\ Active \notin Candidates
  /\ Absent \notin Digests
  /\ Nobody \notin Clients
  /\ Faults \subseteq AllFaults

(***************************************************************************)
(* The commands that write tags: promote-candidate moves Active to the     *)
(* digest of a candidate, restore-candidate re-attaches a candidate tag to *)
(* a known digest, cleanup-candidate deletes a candidate tag.              *)
(***************************************************************************)
Promotion == [op : {"promote"}, source : Candidates, target : {Active}]
Restore   == [op : {"attach"}, digest : Digests, target : Candidates]
Cleanup   == [op : {"delete"}, target : Candidates]
Jobs == Promotion \cup Restore \cup Cleanup

VARIABLES
  tags,        \* registry: the digest each tag points at
  wire,        \* registry: writes given up by their sender, not yet applied
  pc, job,     \* where each process is, and the command it runs
  digest,      \* the digest a process wants its target to point at
  existing,    \* promote_tag: the digest of the destination before the move
  seen,        \* delete_tag: the digest read, which the DELETE names
  restoring,   \* promote_tag: the tag_digest call is the compensation
  visible,     \* history: the target has pointed at digest since it was known
  remover,     \* history: whose DELETE took Active away, while it is absent
  struck       \* history: the kinds of failure that have happened so far

vars == <<tags, wire, pc, job, digest, existing, seen, restoring, visible, remover, struck>>
registry == <<tags, wire, visible, remover>>
locals == <<digest, existing, seen, restoring>>

Reads   == {"source", "destination", "after_delete", "reconcile",
            "delete_head", "delete_reread", "tag_head", "tag_confirm"}
Writes  == {"delete_send", "tag_send"}
Running == Reads \cup Writes
\* ok: exit 0;  failed, conflict: an error after which nothing more is tried;
\* restored: an error after the old digest was put back;  stranded: an error
\* saying that putting it back failed.
Exited  == {"ok", "failed", "conflict", "restored", "stranded", "crashed"}

Target(c) == job[c].target
Promoting(c) == job[c].op = "promote"
\* The digest the current tag_digest call attaches.
Wanted(c) == IF restoring[c] THEN existing[c] ELSE digest[c]

Goto(c, place) == pc' = [pc EXCEPT ![c] = place]

Strike(fault) == fault \in Faults /\ struck' = struck \cup {fault}

(***************************************************************************)
(* External: the registry.  DELETE names artifact and tag, so it removes   *)
(* the tag only while it points at that digest; POST attaches a tag only   *)
(* while the repository has no tag of that name (409 otherwise).           *)
(***************************************************************************)
Observe ==
  visible' = [c \in Clients |->
                visible[c] \/ (pc[c] \in Running /\ digest[c] # Absent
                                 /\ tags'[Target(c)] = digest[c])]

HarborDelete(c, t, d) ==
  IF tags[t] = d
  THEN /\ tags' = [tags EXCEPT ![t] = Absent]
       /\ remover' = IF t = Active THEN c ELSE remover
       /\ Observe
  ELSE UNCHANGED <<tags, remover, visible>>

HarborAttach(t, d) ==
  IF tags[t] = Absent
  THEN /\ tags' = [tags EXCEPT ![t] = d]
       /\ remover' = IF t = Active THEN Nobody ELSE remover
       /\ Observe
  ELSE UNCHANGED <<tags, remover, visible>>

Init ==
  /\ tags \in [Tags -> DigestOrAbsent]
  /\ wire = {}
  /\ job \in [Clients -> Jobs]
  /\ pc = [c \in Clients |-> "start"]
  /\ digest = [c \in Clients |-> Absent]
  /\ existing = [c \in Clients |-> Absent]
  /\ seen = [c \in Clients |-> Absent]
  /\ restoring = [c \in Clients |-> FALSE]
  /\ visible = [c \in Clients |-> FALSE]
  /\ remover = Nobody
  /\ struck = {}

Start(c) ==
  /\ pc[c] = "start"
  /\ \/ /\ Promoting(c)
        /\ Goto(c, "source")
        /\ UNCHANGED <<digest, visible>>
     \/ /\ job[c].op = "attach"
        /\ Goto(c, "tag_head")
        /\ digest' = [digest EXCEPT ![c] = job[c].digest]
        /\ visible' = [visible EXCEPT ![c] = tags[Target(c)] = job[c].digest]
     \/ /\ job[c].op = "delete"
        /\ Goto(c, "delete_head")
        /\ UNCHANGED <<digest, visible>>
  /\ UNCHANGED <<tags, wire, job, existing, seen, restoring, remover, struck>>

-----------------------------------------------------------------------------
(***************************************************************************)
(* delete_tag(image, expected_digest).  A promotion passes the digest it   *)
(* read, cleanup-candidate passes none.                                    *)
(***************************************************************************)
DeleteReturns(c) == IF Promoting(c) THEN "after_delete" ELSE "ok"

\* Mutation: promote_tag does not pass expected_digest.
AsExpectedUnchecked(c, d) == TRUE

AsExpected(c, d) == Promoting(c) => d = existing[c]

\* Mutation: the "already-absent" return is missing.
DeleteHeadOfAbsent(c) ==
  /\ pc[c] = "delete_head"
  /\ seen' = [seen EXCEPT ![c] = tags[Target(c)]]
  /\ Goto(c, IF AsExpected(c, tags[Target(c)]) \/ tags[Target(c)] = Absent
             THEN "delete_send" ELSE DeleteReturns(c))
  /\ UNCHANGED <<job, registry, digest, existing, restoring, struck>>

DeleteHead(c) ==
  /\ pc[c] = "delete_head"
  /\ LET current == tags[Target(c)] IN
       /\ seen' = [seen EXCEPT ![c] = current]
       /\ IF current # Absent /\ AsExpected(c, current)
          THEN Goto(c, "delete_send")
          ELSE Goto(c, DeleteReturns(c))     \* "already-absent", "changed"
  /\ UNCHANGED <<job, registry, digest, existing, restoring, struck>>

\* The DELETE is answered: 200, or 404 when the tag is not on that digest.
DeleteSend(c) ==
  /\ pc[c] = "delete_send"
  /\ HarborDelete(c, Target(c), seen[c])
  /\ Goto(c, IF tags[Target(c)] = seen[c] THEN DeleteReturns(c) ELSE "delete_reread")
  /\ UNCHANGED <<wire, job, locals, struck>>

\* Transport error or 5xx: the request was applied, or not, or will be.
DeleteUncertain(c) ==
  /\ pc[c] = "delete_send"
  /\ \/ /\ Strike("lost")
        /\ \/ HarborDelete(c, Target(c), seen[c])
           \/ UNCHANGED <<tags, remover, visible>>
        /\ UNCHANGED wire
     \/ /\ Strike("late")
        /\ wire' = wire \cup {[write |-> "delete", tag |-> Target(c), digest |-> seen[c], by |-> c]}
        /\ UNCHANGED <<tags, remover, visible>>
  /\ Goto(c, "delete_reread")
  /\ UNCHANGED <<job, locals>>

\* After a 404 or an uncertain DELETE the tag is read again; it is an error
\* only if it still points at the digest that was to be removed.
DeleteReread(c) ==
  /\ pc[c] = "delete_reread"
  /\ Goto(c, IF tags[Target(c)] = seen[c] THEN "failed" ELSE DeleteReturns(c))
  /\ UNCHANGED <<job, registry, locals, struck>>

-----------------------------------------------------------------------------
(***************************************************************************)
(* tag_digest(image, digest): attach only when absent, then confirm.       *)
(***************************************************************************)
TagReturns(c) == IF restoring[c] THEN "restored" ELSE "ok"

\* Mutation: an error of the compensating call is swallowed.
TagRaisesQuietly(c, error) ==
  IF restoring[c] THEN "restored" ELSE IF Promoting(c) THEN "reconcile" ELSE error

\* promote_tag catches the error of its first call and goes on to reconcile;
\* an error of the compensating call ends it.
TagRaises(c, error) ==
  IF restoring[c] THEN "stranded" ELSE IF Promoting(c) THEN "reconcile" ELSE error

TagHead(c) ==
  /\ pc[c] = "tag_head"
  /\ LET current == tags[Target(c)] IN
       \/ current = Wanted(c) /\ Goto(c, TagReturns(c))
       \/ current = Absent    /\ Goto(c, "tag_send")
       \/ current \notin {Wanted(c), Absent} /\ Goto(c, TagRaises(c, "conflict"))
  /\ UNCHANGED <<job, registry, locals, struck>>

\* Mutation: 409 is taken for "the tag is already there", without a read.
TagSendTrusting(c) ==
  /\ pc[c] = "tag_send"
  /\ HarborAttach(Target(c), Wanted(c))
  /\ Goto(c, TagReturns(c))
  /\ UNCHANGED <<wire, job, locals, struck>>

\* The POST is answered, 201 or 409; both are followed by a read.
TagSend(c) ==
  /\ pc[c] = "tag_send"
  /\ HarborAttach(Target(c), Wanted(c))
  /\ Goto(c, "tag_confirm")
  /\ UNCHANGED <<wire, job, locals, struck>>

\* Transport error, 5xx, 408, 425 or 429: also followed by a read, so that
\* the case in which the request was applied is TagSend.
TagUncertain(c) ==
  /\ pc[c] = "tag_send"
  /\ \/ /\ Strike("lost")
        /\ UNCHANGED <<tags, remover, visible, wire>>
     \/ /\ Strike("late")
        /\ wire' = wire \cup {[write |-> "attach", tag |-> Target(c), digest |-> Wanted(c), by |-> c]}
        /\ UNCHANGED <<tags, remover, visible>>
  /\ Goto(c, "tag_confirm")
  /\ UNCHANGED <<job, locals>>

\* The read after the POST, and _reconcile_tag_write.
TagConfirm(c) ==
  /\ pc[c] = "tag_confirm"
  /\ LET current == tags[Target(c)] IN
       \/ current = Wanted(c) /\ Goto(c, TagReturns(c))
       \/ current = Absent    /\ Goto(c, TagRaises(c, "failed"))
       \/ current \notin {Wanted(c), Absent} /\ Goto(c, TagRaises(c, "conflict"))
  /\ UNCHANGED <<job, registry, locals, struck>>

-----------------------------------------------------------------------------
(***************************************************************************)
(* promote_tag(source, destination)                                        *)
(***************************************************************************)
ReadSource(c) ==
  /\ pc[c] = "source"
  /\ LET current == tags[job[c].source] IN
       /\ digest' = [digest EXCEPT ![c] = current]
       /\ visible' = [visible EXCEPT ![c] = current # Absent /\ tags[Target(c)] = current]
       /\ Goto(c, IF current = Absent THEN "failed" ELSE "destination")
  /\ UNCHANGED <<tags, wire, job, existing, seen, restoring, remover, struck>>

ReadDestination(c) ==
  /\ pc[c] = "destination"
  /\ LET current == tags[Target(c)] IN
       /\ existing' = [existing EXCEPT ![c] = current]
       /\ \/ current = digest[c] /\ Goto(c, "ok")
          \/ current = Absent    /\ Goto(c, "tag_head")
          \/ current \notin {digest[c], Absent} /\ Goto(c, "delete_head")
  /\ UNCHANGED <<job, registry, digest, seen, restoring, struck>>

\* Mutation: only "our digest" lets the promotion go on after the delete.
AfterDeleteStops(c) ==
  /\ pc[c] = "after_delete"
  /\ Goto(c, IF tags[Target(c)] = digest[c] THEN "ok" ELSE "conflict")
  /\ UNCHANGED <<job, registry, locals, struck>>

\* What delete_tag answered is ignored: the destination is read again.
AfterDelete(c) ==
  /\ pc[c] = "after_delete"
  /\ LET current == tags[Target(c)] IN
       \/ current = digest[c] /\ Goto(c, "ok")
       \/ current = Absent    /\ Goto(c, "tag_head")
       \/ current \notin {digest[c], Absent} /\ Goto(c, "conflict")
  /\ UNCHANGED <<job, registry, locals, struck>>

\* Mutation: the except branch re-raises without putting the old digest back.
ReconcileWithoutRestore(c) ==
  /\ pc[c] = "reconcile"
  /\ Goto(c, IF tags[Target(c)] = digest[c] THEN "ok" ELSE "failed")
  /\ UNCHANGED <<job, registry, locals, struck>>

\* The except branch: the previous digest is put back, through tag_digest,
\* only if the destination is still absent.
Reconcile(c) ==
  /\ pc[c] = "reconcile"
  /\ LET current == tags[Target(c)]
         compensate == current = Absent /\ existing[c] # Absent
     IN /\ restoring' = [restoring EXCEPT ![c] = compensate]
        /\ \/ current = digest[c] /\ Goto(c, "ok")
           \/ compensate /\ Goto(c, "tag_head")
           \/ current = Absent /\ ~compensate /\ Goto(c, "failed")
           \/ current \notin {digest[c], Absent} /\ Goto(c, "conflict")
  /\ UNCHANGED <<job, registry, digest, existing, seen, struck>>

-----------------------------------------------------------------------------
(***************************************************************************)
(* Failures and the rest of the world                                      *)
(***************************************************************************)
\* A HEAD fails for good.  Only the tag_digest call of promote_tag is inside
\* a try statement.
ReadFails(c) ==
  /\ Strike("read")
  /\ pc[c] \in Reads
  /\ Goto(c, IF pc[c] \in {"tag_head", "tag_confirm"} THEN TagRaises(c, "failed") ELSE "failed")
  /\ UNCHANGED <<job, registry, locals>>

\* A write is refused with a 4xx that is neither 404, 408, 409, 425 nor 429.
WriteRejected(c) ==
  /\ Strike("reject")
  /\ pc[c] \in Writes
  /\ Goto(c, IF pc[c] = "tag_send" THEN TagRaises(c, "failed") ELSE "failed")
  /\ UNCHANGED <<job, registry, locals>>

Crash(c) ==
  /\ Strike("crash")
  /\ pc[c] \in Running
  /\ Goto(c, "crashed")
  /\ UNCHANGED <<job, registry, locals>>

\* External: a delayed write reaches the registry.
LateWrite ==
  \E r \in wire :
    /\ wire' = wire \ {r}
    /\ IF r.write = "delete" THEN HarborDelete(r.by, r.tag, r.digest)
                             ELSE HarborAttach(r.tag, r.digest)
    /\ UNCHANGED <<pc, job, locals, struck>>

\* A build pushes a candidate.  Candidate tags are immutable in the registry,
\* so a push only creates.
PushCandidate ==
  \E t \in Candidates, d \in Digests :
    /\ tags[t] = Absent
    /\ HarborAttach(t, d)
    /\ UNCHANGED <<wire, pc, job, locals, struck>>

Step(c) ==
  \/ Start(c)
  \/ DeleteHead(c) \/ DeleteSend(c) \/ DeleteUncertain(c) \/ DeleteReread(c)
  \/ TagHead(c) \/ TagSend(c) \/ TagUncertain(c) \/ TagConfirm(c)
  \/ ReadSource(c) \/ ReadDestination(c) \/ AfterDelete(c) \/ Reconcile(c)
  \/ ReadFails(c) \/ WriteRejected(c)

Next == (\E c \in Clients : Step(c) \/ Crash(c)) \/ LateWrite \/ PushCandidate

Spec == Init /\ [][Next]_vars

-----------------------------------------------------------------------------
(***************************************************************************)
(* Properties                                                              *)
(***************************************************************************)
LateWrites == [write : {"delete", "attach"}, tag : Tags, digest : Digests, by : Clients]

\* The values every variable stays in.
TypeOK ==
  /\ tags \in [Tags -> DigestOrAbsent]
  /\ wire \subseteq LateWrites
  /\ pc \in [Clients -> {"start"} \cup Running \cup Exited]
  /\ job \in [Clients -> Jobs]
  /\ digest \in [Clients -> DigestOrAbsent]
  /\ existing \in [Clients -> DigestOrAbsent]
  /\ seen \in [Clients -> DigestOrAbsent]
  /\ restoring \in [Clients -> BOOLEAN]
  /\ visible \in [Clients -> BOOLEAN]
  /\ remover \in Clients \cup {Nobody}
  /\ struck \subseteq Faults

\* promote-candidate and restore-candidate exit 0 only if their target really
\* pointed at their digest at some moment after they knew it, whatever was
\* lost, delayed or done by other processes meanwhile.
SuccessWasVisible ==
  \A c \in Clients : pc[c] = "ok" /\ job[c].op # "delete" => visible[c]

\* A promotion takes away from Active only the digest it had read there as
\* the one to replace: the digest another promotion has installed since is
\* never deleted by it.
RemovesOnlyWhatItReplaces ==
  [][tags[Active] # Absent /\ tags'[Active] = Absent
       => remover' \in Clients /\ existing[remover'] = tags[Active]]_vars

\* As long as no write was left to be applied after its sender gave up: the
\* process whose DELETE took Active away does not end as if the matter were
\* settled while Active is absent.  It is still running, or it ended with an
\* error that leaves the tag open, or it was killed.
AbsenceIsAccounted ==
  "late" \notin struck /\ remover # Nobody
    => pc[remover] \notin {"ok", "conflict", "restored"}

\* As long as only writes failed, in whatever way, but reads worked and no
\* process was killed: a process that took Active away and ended while it is
\* absent has said so; "promotion failed and restoring failed" is the only way
\* it ends.  If nothing failed it does not end at all before Active is back,
\* however the promotions interleave: no two leave the next move to each other.
LossIsReported ==
  struck \subseteq {"lost", "reject"} /\ remover # Nobody
    => pc[remover] \in Running \cup {p \in {"stranded"} : struck # {}}

\* Whatever fails and however the processes interleave, what a deployment sees
\* of the tag is what the ActiveTag specification allows: each step of the
\* requests is a step of the promise or does not touch it.
Settled == {c \in Clients : pc[c] \in {"ok", "conflict", "restored"}}
Promise == INSTANCE ActiveTag WITH active <- tags[Active], debtor <- remover,
             replaces <- existing, settled <- Settled, loose <- "late" \in struck
KeepsPromise == Promise!Spec
=============================================================================
