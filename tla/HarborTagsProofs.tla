-------------------------- MODULE HarborTagsProofs --------------------------
(***************************************************************************)
(* Proofs that the safety properties of HarborTags hold for any number of  *)
(* processes, candidate tags and digests and for every set of failures.    *)
(***************************************************************************)
EXTENDS HarborTags, Naturals, TLAPS

\* What the three kinds of command have in common.
LEMMA JobFacts ==
  ASSUME NEW j \in Jobs
  PROVE  /\ j.op \in {"promote", "attach", "delete"}
         /\ j.target \in Tags
         /\ j.op = "promote" <=> j.target = Active
         /\ j.op = "promote" => j.source \in Tags
         /\ j.op = "attach" => j.digest \in Digests
BY TagsAssumption DEF Jobs, Promotion, Restore, Cleanup, Tags

\* The same facts, of the command a process runs.
LEMMA ClientJob ==
  ASSUME TypeOK, NEW c \in Clients
  PROVE  /\ job[c].op \in {"promote", "attach", "delete"}
         /\ Target(c) \in Tags
         /\ Promoting(c) <=> Target(c) = Active
         /\ Promoting(c) => job[c].source \in Tags
         /\ job[c].op = "attach" => job[c].digest \in Digests
BY JobFacts DEF TypeOK, Target, Promoting

\* Nothing a process runs is outside its command, and the compensation of
\* promote_tag always has a digest to put back.
PlacesInv == \A c \in Clients :
  /\ job[c].op = "attach" =>
       pc[c] \in {"start", "tag_head", "tag_send", "tag_confirm"} \cup Exited
  /\ job[c].op = "delete" =>
       pc[c] \in {"start", "delete_head", "delete_send", "delete_reread"} \cup Exited
  /\ restoring[c] =>
       /\ Promoting(c)
       /\ existing[c] \in Digests
       /\ pc[c] \in {"tag_head", "tag_send", "tag_confirm", "restored", "stranded", "crashed"}
  /\ pc[c] = "restored" => restoring[c]

\* The digest to attach is known before the first write, and a DELETE names
\* the digest that was read, for a promotion the one to be replaced.
LocalsInv == \A c \in Clients :
  /\ pc[c] \in {"start", "source"} \/ job[c].op = "delete" => digest[c] = Absent
  /\ job[c].op # "delete" /\ pc[c] \in Running \ {"source"} => digest[c] \in Digests
  /\ pc[c] \in {"delete_send", "delete_reread"} =>
       seen[c] \in Digests /\ (Promoting(c) => seen[c] = existing[c])
  /\ Promoting(c) /\ pc[c] \in {"delete_head", "after_delete"} => existing[c] \in Digests

\* A process that finds its digest on its target has it recorded as visible.
VisibleInv == \A c \in Clients :
  pc[c] \in Running /\ digest[c] # Absent /\ tags[Target(c)] = digest[c] => visible[c]

\* A delayed DELETE of Active names the digest its sender was replacing, and
\* that process no longer reads another one.
WireInv ==
  /\ "late" \notin struck => wire = {}
  /\ \A r \in wire : r.write = "delete" /\ r.tag = Active =>
       existing[r.by] = r.digest /\ pc[r.by] \notin {"start", "source", "destination"}

\* Where the process that took Active away may be while the tag is absent.
Removed == {"delete_reread", "after_delete", "tag_head", "tag_send", "tag_confirm",
            "reconcile", "stranded"}

GapInv ==
  remover # Nobody =>
    /\ tags[Active] = Absent
    /\ "late" \notin struck =>
         /\ Promoting(remover)
         /\ existing[remover] \in Digests
         /\ pc[remover] \in Removed \cup {"failed", "crashed"}
         /\ struck \subseteq {"lost", "reject"} => pc[remover] \in Removed
         /\ struck = {} => pc[remover] \notin {"tag_confirm", "reconcile", "stranded"}

IInv ==
  /\ TypeOK
  /\ PlacesInv
  /\ LocalsInv
  /\ VisibleInv
  /\ SuccessWasVisible
  /\ WireInv
  /\ GapInv

\* A tag_digest call always attaches a digest, never "absent".
LEMMA WantedIsDigest ==
  ASSUME TypeOK, PlacesInv, LocalsInv,
         NEW c \in Clients, pc[c] \in {"tag_head", "tag_send", "tag_confirm"}
  PROVE  Wanted(c) \in Digests
BY ClientJob DEF PlacesInv, LocalsInv, Wanted, Running, Reads, Writes, Exited

\* A delayed write names a process, a tag and a digest.
LEMMA WireFacts ==
  ASSUME TypeOK, NEW r \in wire
  PROVE  r.by \in Clients /\ r.tag \in Tags /\ r.digest \in Digests
BY DEF TypeOK, LateWrites

\* Recording what became visible keeps the type of the record.
LEMMA ObserveType ==
  ASSUME TypeOK, Observe
  PROVE  visible' \in [Clients -> BOOLEAN]
BY DEF Observe

\* What the two registry operations do to the registry's variables.
LEMMA RegistryType ==
  ASSUME TypeOK, NEW t \in Tags, NEW d \in Digests, NEW c \in Clients,
         HarborDelete(c, t, d) \/ HarborAttach(t, d)
  PROVE  /\ tags' \in [Tags -> DigestOrAbsent]
         /\ visible' \in [Clients -> BOOLEAN]
         /\ remover' \in Clients \cup {Nobody}
<1>1. tags' \in [Tags -> DigestOrAbsent] /\ remover' \in Clients \cup {Nobody}
  BY DEF TypeOK, HarborDelete, HarborAttach, DigestOrAbsent
<1>2. CASE UNCHANGED visible
  BY <1>2, <1>1 DEF TypeOK
<1>3. CASE Observe
  BY <1>3, <1>1, ObserveType
<1> QED
  BY <1>2, <1>3 DEF HarborDelete, HarborAttach

\* The history records every digest the registry shows to a running process.
LEMMA RegistryVisible ==
  ASSUME IInv, NEW t \in Tags, NEW d \in Digests, NEW c \in Clients \cup {Nobody},
         HarborDelete(c, t, d) \/ HarborAttach(t, d),
         NEW x \in Clients, pc[x] \in Running, digest[x] # Absent,
         tags'[Target(x)] = digest[x]
  PROVE  visible'[x]
<1>1. CASE Observe
  BY <1>1 DEF Observe
<1>2. CASE UNCHANGED <<tags, visible>>
  BY <1>2 DEF IInv, VisibleInv
<1> QED
  BY <1>1, <1>2 DEF HarborDelete, HarborAttach

\* Every step keeps every variable in its type.
LEMMA TypeOKStep == IInv /\ [Next]_vars => TypeOK'
<1> SUFFICES ASSUME IInv, [Next]_vars PROVE TypeOK'
  OBVIOUS
<1> USE TagsAssumption, ClientJob DEF IInv, TypeOK, LocalsInv, Goto, registry, locals, Tags, DigestOrAbsent, Running, Reads, Writes, Exited
<1>1. ASSUME NEW c \in Clients, Start(c) PROVE TypeOK'
  BY <1>1 DEF Start
<1>2. ASSUME NEW c \in Clients, DeleteHead(c) PROVE TypeOK'
  BY <1>2 DEF DeleteHead, DeleteReturns, AsExpected
<1>3. ASSUME NEW c \in Clients, DeleteSend(c) PROVE TypeOK'
  <2>1. seen[c] \in Digests /\ Target(c) \in Tags
    BY <1>3 DEF DeleteSend
  <2> QED
    BY <1>3, <2>1, RegistryType DEF DeleteSend, DeleteReturns
<1>4. ASSUME NEW c \in Clients, DeleteUncertain(c) PROVE TypeOK'
  <2>1. seen[c] \in Digests /\ Target(c) \in Tags
    BY <1>4 DEF DeleteUncertain
  <2>2. wire' \subseteq LateWrites
    BY <1>4, <2>1 DEF DeleteUncertain, LateWrites
  <2> QED
    BY <1>4, <2>1, <2>2, RegistryType DEF DeleteUncertain, Strike
<1>5. ASSUME NEW c \in Clients, DeleteReread(c) PROVE TypeOK'
  BY <1>5 DEF DeleteReread, DeleteReturns
<1>6. ASSUME NEW c \in Clients, TagHead(c) PROVE TypeOK'
  BY <1>6 DEF TagHead, TagReturns, TagRaises
<1>7. ASSUME NEW c \in Clients, TagSend(c) PROVE TypeOK'
  BY <1>7, WantedIsDigest, RegistryType DEF TagSend
<1>8. ASSUME NEW c \in Clients, TagUncertain(c) PROVE TypeOK'
  BY <1>8, WantedIsDigest DEF TagUncertain, Strike, LateWrites
<1>9. ASSUME NEW c \in Clients, TagConfirm(c) PROVE TypeOK'
  BY <1>9 DEF TagConfirm, TagReturns, TagRaises
<1>10. ASSUME NEW c \in Clients, ReadSource(c) PROVE TypeOK'
  <2>1. visible' \in [Clients -> BOOLEAN]
    BY <1>10 DEF ReadSource
  <2>2. tags[job[c].source] \in DigestOrAbsent
    BY <1>10 DEF ReadSource, PlacesInv, Promoting
  <2> QED
    BY <1>10, <2>1, <2>2 DEF ReadSource
<1>11. ASSUME NEW c \in Clients, ReadDestination(c) PROVE TypeOK'
  BY <1>11 DEF ReadDestination
<1>12. ASSUME NEW c \in Clients, AfterDelete(c) PROVE TypeOK'
  BY <1>12 DEF AfterDelete
<1>13. ASSUME NEW c \in Clients, Reconcile(c) PROVE TypeOK'
  BY <1>13 DEF Reconcile
<1>14. ASSUME NEW c \in Clients, ReadFails(c) PROVE TypeOK'
  BY <1>14 DEF ReadFails, Strike, TagRaises
<1>15. ASSUME NEW c \in Clients, WriteRejected(c) PROVE TypeOK'
  BY <1>15 DEF WriteRejected, Strike, TagRaises
<1>16. ASSUME NEW c \in Clients, Crash(c) PROVE TypeOK'
  BY <1>16 DEF Crash, Strike
<1>17. CASE LateWrite
  <2>1. PICK r \in wire : LateWrite!(r)
    BY <1>17 DEF LateWrite
  <2> QED
    BY <2>1, WireFacts, RegistryType
<1>18. CASE PushCandidate
  <2>1. PICK t \in Candidates, d \in Digests : PushCandidate!(t, d)
    BY <1>18 DEF PushCandidate
  <2>2. visible' \in [Clients -> BOOLEAN]
    BY <2>1, ObserveType DEF HarborAttach
  <2> QED
    BY <2>1, <2>2 DEF HarborAttach
<1>19. CASE UNCHANGED vars
  BY <1>19 DEF vars
<1> QED
  BY <1>1, <1>2, <1>3, <1>4, <1>5, <1>6, <1>7, <1>8, <1>9, <1>10, <1>11, <1>12, <1>13, <1>14,
     <1>15, <1>16, <1>17, <1>18, <1>19 DEF Next, Step

\* Every step keeps a process inside the code of its command.
LEMMA PlacesInvStep == IInv /\ [Next]_vars => PlacesInv'
<1> SUFFICES ASSUME IInv, [Next]_vars PROVE PlacesInv'
  OBVIOUS
<1> USE TagsAssumption, ClientJob DEF IInv, TypeOK, PlacesInv, LocalsInv, Goto, registry, locals, DigestOrAbsent, Promoting, Running, Reads, Writes, Exited
<1>1. ASSUME NEW c \in Clients, Start(c) PROVE PlacesInv'
  BY <1>1 DEF Start
<1>2. ASSUME NEW c \in Clients, DeleteHead(c) PROVE PlacesInv'
  BY <1>2 DEF DeleteHead, DeleteReturns, AsExpected
<1>3. ASSUME NEW c \in Clients, DeleteSend(c) PROVE PlacesInv'
  BY <1>3 DEF DeleteSend, DeleteReturns, HarborDelete, Observe
<1>4. ASSUME NEW c \in Clients, DeleteUncertain(c) PROVE PlacesInv'
  BY <1>4 DEF DeleteUncertain, Strike, HarborDelete, Observe
<1>5. ASSUME NEW c \in Clients, DeleteReread(c) PROVE PlacesInv'
  BY <1>5 DEF DeleteReread, DeleteReturns
<1>6. ASSUME NEW c \in Clients, TagHead(c) PROVE PlacesInv'
  BY <1>6 DEF TagHead, TagReturns, TagRaises
<1>7. ASSUME NEW c \in Clients, TagSend(c) PROVE PlacesInv'
  BY <1>7, WantedIsDigest DEF TagSend, HarborAttach, Observe
<1>8. ASSUME NEW c \in Clients, TagUncertain(c) PROVE PlacesInv'
  BY <1>8, WantedIsDigest DEF TagUncertain, Strike
<1>9. ASSUME NEW c \in Clients, TagConfirm(c) PROVE PlacesInv'
  BY <1>9 DEF TagConfirm, TagReturns, TagRaises
<1>10. ASSUME NEW c \in Clients, ReadSource(c) PROVE PlacesInv'
  BY <1>10 DEF ReadSource
<1>11. ASSUME NEW c \in Clients, ReadDestination(c) PROVE PlacesInv'
  BY <1>11 DEF ReadDestination
<1>12. ASSUME NEW c \in Clients, AfterDelete(c) PROVE PlacesInv'
  BY <1>12 DEF AfterDelete
<1>13. ASSUME NEW c \in Clients, Reconcile(c) PROVE PlacesInv'
  BY <1>13 DEF Reconcile
<1>14. ASSUME NEW c \in Clients, ReadFails(c) PROVE PlacesInv'
  BY <1>14 DEF ReadFails, Strike, TagRaises
<1>15. ASSUME NEW c \in Clients, WriteRejected(c) PROVE PlacesInv'
  BY <1>15 DEF WriteRejected, Strike, TagRaises
<1>16. ASSUME NEW c \in Clients, Crash(c) PROVE PlacesInv'
  BY <1>16 DEF Crash, Strike
<1>17. CASE LateWrite
  <2>1. PICK r \in wire : LateWrite!(r)
    BY <1>17 DEF LateWrite
  <2> QED
    BY <2>1, WireFacts DEF HarborDelete, HarborAttach, Observe
<1>18. CASE PushCandidate
  <2>1. PICK t \in Candidates, d \in Digests : PushCandidate!(t, d)
    BY <1>18 DEF PushCandidate
  <2> QED
    BY <2>1 DEF HarborAttach, Observe
<1>19. CASE UNCHANGED vars
  BY <1>19 DEF vars
<1> QED
  BY <1>1, <1>2, <1>3, <1>4, <1>5, <1>6, <1>7, <1>8, <1>9, <1>10, <1>11, <1>12, <1>13, <1>14,
     <1>15, <1>16, <1>17, <1>18, <1>19 DEF Next, Step

\* Every step keeps the local variables of a process meaningful where it stands.
LEMMA LocalsInvStep == IInv /\ [Next]_vars => LocalsInv'
<1> SUFFICES ASSUME IInv, [Next]_vars PROVE LocalsInv'
  OBVIOUS
<1> USE TagsAssumption, ClientJob DEF IInv, TypeOK, PlacesInv, LocalsInv, Goto, registry, locals, DigestOrAbsent, Promoting, Running, Reads, Writes, Exited
<1>1. ASSUME NEW c \in Clients, Start(c) PROVE LocalsInv'
  BY <1>1 DEF Start
<1>2. ASSUME NEW c \in Clients, DeleteHead(c) PROVE LocalsInv'
  BY <1>2 DEF DeleteHead, DeleteReturns, AsExpected
<1>3. ASSUME NEW c \in Clients, DeleteSend(c) PROVE LocalsInv'
  BY <1>3 DEF DeleteSend, DeleteReturns, HarborDelete, Observe
<1>4. ASSUME NEW c \in Clients, DeleteUncertain(c) PROVE LocalsInv'
  BY <1>4 DEF DeleteUncertain, Strike, HarborDelete, Observe
<1>5. ASSUME NEW c \in Clients, DeleteReread(c) PROVE LocalsInv'
  BY <1>5 DEF DeleteReread, DeleteReturns
<1>6. ASSUME NEW c \in Clients, TagHead(c) PROVE LocalsInv'
  BY <1>6 DEF TagHead, TagReturns, TagRaises
<1>7. ASSUME NEW c \in Clients, TagSend(c) PROVE LocalsInv'
  BY <1>7, WantedIsDigest DEF TagSend, HarborAttach, Observe
<1>8. ASSUME NEW c \in Clients, TagUncertain(c) PROVE LocalsInv'
  BY <1>8, WantedIsDigest DEF TagUncertain, Strike
<1>9. ASSUME NEW c \in Clients, TagConfirm(c) PROVE LocalsInv'
  BY <1>9 DEF TagConfirm, TagReturns, TagRaises
<1>10. ASSUME NEW c \in Clients, ReadSource(c) PROVE LocalsInv'
  BY <1>10 DEF ReadSource
<1>11. ASSUME NEW c \in Clients, ReadDestination(c) PROVE LocalsInv'
  BY <1>11 DEF ReadDestination
<1>12. ASSUME NEW c \in Clients, AfterDelete(c) PROVE LocalsInv'
  BY <1>12 DEF AfterDelete
<1>13. ASSUME NEW c \in Clients, Reconcile(c) PROVE LocalsInv'
  BY <1>13 DEF Reconcile
<1>14. ASSUME NEW c \in Clients, ReadFails(c) PROVE LocalsInv'
  BY <1>14 DEF ReadFails, Strike, TagRaises
<1>15. ASSUME NEW c \in Clients, WriteRejected(c) PROVE LocalsInv'
  BY <1>15 DEF WriteRejected, Strike, TagRaises
<1>16. ASSUME NEW c \in Clients, Crash(c) PROVE LocalsInv'
  BY <1>16 DEF Crash, Strike
<1>17. CASE LateWrite
  <2>1. PICK r \in wire : LateWrite!(r)
    BY <1>17 DEF LateWrite
  <2> QED
    BY <2>1, WireFacts DEF HarborDelete, HarborAttach, Observe
<1>18. CASE PushCandidate
  <2>1. PICK t \in Candidates, d \in Digests : PushCandidate!(t, d)
    BY <1>18 DEF PushCandidate
  <2> QED
    BY <2>1 DEF HarborAttach, Observe
<1>19. CASE UNCHANGED vars
  BY <1>19 DEF vars
<1> QED
  BY <1>1, <1>2, <1>3, <1>4, <1>5, <1>6, <1>7, <1>8, <1>9, <1>10, <1>11, <1>12, <1>13, <1>14,
     <1>15, <1>16, <1>17, <1>18, <1>19 DEF Next, Step

\* Every step records what a running process can see.
LEMMA VisibleInvStep == IInv /\ [Next]_vars => VisibleInv'
<1> SUFFICES ASSUME IInv, [Next]_vars PROVE VisibleInv'
  OBVIOUS
<1> USE TagsAssumption, ClientJob DEF IInv, TypeOK, PlacesInv, LocalsInv, VisibleInv, Goto, registry, locals, DigestOrAbsent, Tags, Promoting, Target, Running, Reads, Writes, Exited
<1>1. ASSUME NEW c \in Clients, Start(c) PROVE VisibleInv'
  <2>1. CASE job[c].op = "attach"
    <3>1. /\ digest' = [digest EXCEPT ![c] = job[c].digest]
          /\ visible' = [visible EXCEPT ![c] = tags[Target(c)] = job[c].digest]
          /\ pc' = [pc EXCEPT ![c] = "tag_head"]
          /\ UNCHANGED <<tags, job>>
      BY <1>1, <2>1 DEF Start
    <3> QED
      BY <3>1
  <2>2. CASE job[c].op # "attach"
    <3>1. UNCHANGED <<tags, job, digest, visible>>
      BY <1>1, <2>2 DEF Start
    <3>2. \A x \in Clients : pc'[x] \in Running => pc[x] \in Running \/ x = c
      BY <1>1 DEF Start
    <3>3. digest[c] = Absent
      BY <1>1, <2>2 DEF Start
    <3> QED
      BY <3>1, <3>2, <3>3
  <2> QED
    BY <2>1, <2>2
<1>2. ASSUME NEW c \in Clients, DeleteHead(c) PROVE VisibleInv'
  BY <1>2 DEF DeleteHead, DeleteReturns, AsExpected
<1>3. ASSUME NEW c \in Clients, DeleteSend(c) PROVE VisibleInv'
  BY <1>3, RegistryVisible DEF DeleteSend, DeleteReturns
<1>4. ASSUME NEW c \in Clients, DeleteUncertain(c) PROVE VisibleInv'
  BY <1>4 DEF DeleteUncertain, Strike, HarborDelete, Observe
<1>5. ASSUME NEW c \in Clients, DeleteReread(c) PROVE VisibleInv'
  BY <1>5 DEF DeleteReread, DeleteReturns
<1>6. ASSUME NEW c \in Clients, TagHead(c) PROVE VisibleInv'
  BY <1>6 DEF TagHead, TagReturns, TagRaises
<1>7. ASSUME NEW c \in Clients, TagSend(c) PROVE VisibleInv'
  BY <1>7, WantedIsDigest, RegistryVisible DEF TagSend
<1>8. ASSUME NEW c \in Clients, TagUncertain(c) PROVE VisibleInv'
  BY <1>8, WantedIsDigest DEF TagUncertain, Strike
<1>9. ASSUME NEW c \in Clients, TagConfirm(c) PROVE VisibleInv'
  BY <1>9 DEF TagConfirm, TagReturns, TagRaises
<1>10. ASSUME NEW c \in Clients, ReadSource(c) PROVE VisibleInv'
  <2>1. /\ digest'[c] = tags[Target(c)] /\ tags[Target(c)] # Absent => visible'[c]
        /\ \A x \in Clients : x # c =>
             pc'[x] = pc[x] /\ digest'[x] = digest[x] /\ visible'[x] = visible[x]
        /\ tags' = tags /\ job' = job
    BY <1>10 DEF ReadSource
  <2> QED
    BY <2>1
<1>11. ASSUME NEW c \in Clients, ReadDestination(c) PROVE VisibleInv'
  BY <1>11 DEF ReadDestination
<1>12. ASSUME NEW c \in Clients, AfterDelete(c) PROVE VisibleInv'
  BY <1>12 DEF AfterDelete
<1>13. ASSUME NEW c \in Clients, Reconcile(c) PROVE VisibleInv'
  BY <1>13 DEF Reconcile
<1>14. ASSUME NEW c \in Clients, ReadFails(c) PROVE VisibleInv'
  BY <1>14 DEF ReadFails, Strike, TagRaises
<1>15. ASSUME NEW c \in Clients, WriteRejected(c) PROVE VisibleInv'
  BY <1>15 DEF WriteRejected, Strike, TagRaises
<1>16. ASSUME NEW c \in Clients, Crash(c) PROVE VisibleInv'
  BY <1>16 DEF Crash, Strike
<1>17. CASE LateWrite
  <2>1. PICK r \in wire : LateWrite!(r)
    BY <1>17 DEF LateWrite
  <2> QED
    BY <2>1, WireFacts, RegistryVisible
<1>18. CASE PushCandidate
  <2>1. PICK t \in Candidates, d \in Digests : PushCandidate!(t, d)
    BY <1>18 DEF PushCandidate
  <2> QED
    BY <2>1, RegistryVisible
<1>19. CASE UNCHANGED vars
  BY <1>19 DEF vars
<1> QED
  BY <1>1, <1>2, <1>3, <1>4, <1>5, <1>6, <1>7, <1>8, <1>9, <1>10, <1>11, <1>12, <1>13, <1>14,
     <1>15, <1>16, <1>17, <1>18, <1>19 DEF Next, Step

\* Every step that ends a command with exit code 0 found its digest on its target.
LEMMA SuccessWasVisibleStep == IInv /\ [Next]_vars => SuccessWasVisible'
<1> SUFFICES ASSUME IInv, [Next]_vars PROVE SuccessWasVisible'
  OBVIOUS
<1> USE TagsAssumption, ClientJob DEF IInv, TypeOK, PlacesInv, LocalsInv, VisibleInv, SuccessWasVisible, Goto, registry, locals, DigestOrAbsent, Tags, Promoting, Wanted, Running, Reads, Writes, Exited
<1>1. ASSUME NEW c \in Clients, Start(c) PROVE SuccessWasVisible'
  BY <1>1 DEF Start
<1>2. ASSUME NEW c \in Clients, DeleteHead(c) PROVE SuccessWasVisible'
  BY <1>2 DEF DeleteHead, DeleteReturns, AsExpected
<1>3. ASSUME NEW c \in Clients, DeleteSend(c) PROVE SuccessWasVisible'
  BY <1>3 DEF DeleteSend, DeleteReturns, HarborDelete, Observe
<1>4. ASSUME NEW c \in Clients, DeleteUncertain(c) PROVE SuccessWasVisible'
  BY <1>4 DEF DeleteUncertain, Strike, HarborDelete, Observe
<1>5. ASSUME NEW c \in Clients, DeleteReread(c) PROVE SuccessWasVisible'
  BY <1>5 DEF DeleteReread, DeleteReturns
<1>6. ASSUME NEW c \in Clients, TagHead(c) PROVE SuccessWasVisible'
  BY <1>6 DEF TagHead, TagReturns, TagRaises
<1>7. ASSUME NEW c \in Clients, TagSend(c) PROVE SuccessWasVisible'
  BY <1>7, WantedIsDigest DEF TagSend, HarborAttach, Observe
<1>8. ASSUME NEW c \in Clients, TagUncertain(c) PROVE SuccessWasVisible'
  BY <1>8, WantedIsDigest DEF TagUncertain, Strike
<1>9. ASSUME NEW c \in Clients, TagConfirm(c) PROVE SuccessWasVisible'
  BY <1>9 DEF TagConfirm, TagReturns, TagRaises
<1>10. ASSUME NEW c \in Clients, ReadSource(c) PROVE SuccessWasVisible'
  BY <1>10 DEF ReadSource
<1>11. ASSUME NEW c \in Clients, ReadDestination(c) PROVE SuccessWasVisible'
  BY <1>11 DEF ReadDestination
<1>12. ASSUME NEW c \in Clients, AfterDelete(c) PROVE SuccessWasVisible'
  BY <1>12 DEF AfterDelete
<1>13. ASSUME NEW c \in Clients, Reconcile(c) PROVE SuccessWasVisible'
  BY <1>13 DEF Reconcile
<1>14. ASSUME NEW c \in Clients, ReadFails(c) PROVE SuccessWasVisible'
  BY <1>14 DEF ReadFails, Strike, TagRaises
<1>15. ASSUME NEW c \in Clients, WriteRejected(c) PROVE SuccessWasVisible'
  BY <1>15 DEF WriteRejected, Strike, TagRaises
<1>16. ASSUME NEW c \in Clients, Crash(c) PROVE SuccessWasVisible'
  BY <1>16 DEF Crash, Strike
<1>17. CASE LateWrite
  <2>1. PICK r \in wire : LateWrite!(r)
    BY <1>17 DEF LateWrite
  <2> QED
    BY <2>1, WireFacts DEF HarborDelete, HarborAttach, Observe
<1>18. CASE PushCandidate
  <2>1. PICK t \in Candidates, d \in Digests : PushCandidate!(t, d)
    BY <1>18 DEF PushCandidate
  <2> QED
    BY <2>1 DEF HarborAttach, Observe
<1>19. CASE UNCHANGED vars
  BY <1>19 DEF vars
<1> QED
  BY <1>1, <1>2, <1>3, <1>4, <1>5, <1>6, <1>7, <1>8, <1>9, <1>10, <1>11, <1>12, <1>13, <1>14,
     <1>15, <1>16, <1>17, <1>18, <1>19 DEF Next, Step

\* Every step leaves a delayed DELETE of Active with the digest its sender replaces.
LEMMA WireInvStep == IInv /\ [Next]_vars => WireInv'
<1> SUFFICES ASSUME IInv, [Next]_vars PROVE WireInv'
  OBVIOUS
<1> USE TagsAssumption, ClientJob, WireFacts DEF IInv, TypeOK, PlacesInv, LocalsInv, WireInv, Goto, registry, locals, DigestOrAbsent, Promoting, Running, Reads, Writes, Exited
<1>1. ASSUME NEW c \in Clients, Start(c) PROVE WireInv'
  BY <1>1 DEF Start
<1>2. ASSUME NEW c \in Clients, DeleteHead(c) PROVE WireInv'
  BY <1>2 DEF DeleteHead, DeleteReturns, AsExpected
<1>3. ASSUME NEW c \in Clients, DeleteSend(c) PROVE WireInv'
  BY <1>3 DEF DeleteSend, DeleteReturns, HarborDelete, Observe
<1>4. ASSUME NEW c \in Clients, DeleteUncertain(c) PROVE WireInv'
  BY <1>4 DEF DeleteUncertain, Strike, HarborDelete, Observe, LateWrites
<1>5. ASSUME NEW c \in Clients, DeleteReread(c) PROVE WireInv'
  BY <1>5 DEF DeleteReread, DeleteReturns
<1>6. ASSUME NEW c \in Clients, TagHead(c) PROVE WireInv'
  BY <1>6 DEF TagHead, TagReturns, TagRaises
<1>7. ASSUME NEW c \in Clients, TagSend(c) PROVE WireInv'
  BY <1>7, WantedIsDigest DEF TagSend, HarborAttach, Observe
<1>8. ASSUME NEW c \in Clients, TagUncertain(c) PROVE WireInv'
  BY <1>8, WantedIsDigest DEF TagUncertain, Strike, LateWrites
<1>9. ASSUME NEW c \in Clients, TagConfirm(c) PROVE WireInv'
  BY <1>9 DEF TagConfirm, TagReturns, TagRaises
<1>10. ASSUME NEW c \in Clients, ReadSource(c) PROVE WireInv'
  BY <1>10 DEF ReadSource
<1>11. ASSUME NEW c \in Clients, ReadDestination(c) PROVE WireInv'
  BY <1>11 DEF ReadDestination
<1>12. ASSUME NEW c \in Clients, AfterDelete(c) PROVE WireInv'
  BY <1>12 DEF AfterDelete
<1>13. ASSUME NEW c \in Clients, Reconcile(c) PROVE WireInv'
  BY <1>13 DEF Reconcile
<1>14. ASSUME NEW c \in Clients, ReadFails(c) PROVE WireInv'
  BY <1>14 DEF ReadFails, Strike, TagRaises
<1>15. ASSUME NEW c \in Clients, WriteRejected(c) PROVE WireInv'
  BY <1>15 DEF WriteRejected, Strike, TagRaises
<1>16. ASSUME NEW c \in Clients, Crash(c) PROVE WireInv'
  BY <1>16 DEF Crash, Strike
<1>17. CASE LateWrite
  <2>1. PICK r \in wire : LateWrite!(r)
    BY <1>17 DEF LateWrite
  <2> QED
    BY <2>1, WireFacts DEF HarborDelete, HarborAttach, Observe
<1>18. CASE PushCandidate
  <2>1. PICK t \in Candidates, d \in Digests : PushCandidate!(t, d)
    BY <1>18 DEF PushCandidate
  <2> QED
    BY <2>1 DEF HarborAttach, Observe
<1>19. CASE UNCHANGED vars
  BY <1>19 DEF vars
<1> QED
  BY <1>1, <1>2, <1>3, <1>4, <1>5, <1>6, <1>7, <1>8, <1>9, <1>10, <1>11, <1>12, <1>13, <1>14,
     <1>15, <1>16, <1>17, <1>18, <1>19 DEF Next, Step

\* Every step leaves the process that took Active away in one of the places of Removed,
\* or ended by a failure of a read or a kill.
LEMMA GapInvStep == IInv /\ [Next]_vars => GapInv'
<1> SUFFICES ASSUME IInv, [Next]_vars PROVE GapInv'
  OBVIOUS
<1> USE TagsAssumption, ClientJob DEF IInv, TypeOK, PlacesInv, LocalsInv, WireInv, GapInv, Goto, registry, locals, DigestOrAbsent, Tags, Promoting, Removed, Wanted, Running, Reads, Writes, Exited
<1>1. ASSUME NEW c \in Clients, Start(c) PROVE GapInv'
  BY <1>1 DEF Start
<1>2. ASSUME NEW c \in Clients, DeleteHead(c) PROVE GapInv'
  BY <1>2 DEF DeleteHead, DeleteReturns, AsExpected
<1>3. ASSUME NEW c \in Clients, DeleteSend(c) PROVE GapInv'
  BY <1>3 DEF DeleteSend, DeleteReturns, HarborDelete, Observe
<1>4. ASSUME NEW c \in Clients, DeleteUncertain(c) PROVE GapInv'
  BY <1>4 DEF DeleteUncertain, Strike, HarborDelete, Observe
<1>5. ASSUME NEW c \in Clients, DeleteReread(c) PROVE GapInv'
  BY <1>5 DEF DeleteReread, DeleteReturns
<1>6. ASSUME NEW c \in Clients, TagHead(c) PROVE GapInv'
  BY <1>6 DEF TagHead, TagReturns, TagRaises
<1>7. ASSUME NEW c \in Clients, TagSend(c) PROVE GapInv'
  BY <1>7, WantedIsDigest DEF TagSend, HarborAttach, Observe
<1>8. ASSUME NEW c \in Clients, TagUncertain(c) PROVE GapInv'
  <2>1. struck' # {} /\ remover' = remover /\ tags' = tags
    BY <1>8 DEF TagUncertain, Strike
  <2> QED BY <1>8, <2>1, WantedIsDigest, SMTT(40) DEF TagUncertain, Strike
<1>9. ASSUME NEW c \in Clients, TagConfirm(c) PROVE GapInv'
  BY <1>9 DEF TagConfirm, TagReturns, TagRaises
<1>10. ASSUME NEW c \in Clients, ReadSource(c) PROVE GapInv'
  BY <1>10 DEF ReadSource
<1>11. ASSUME NEW c \in Clients, ReadDestination(c) PROVE GapInv'
  BY <1>11 DEF ReadDestination
<1>12. ASSUME NEW c \in Clients, AfterDelete(c) PROVE GapInv'
  BY <1>12 DEF AfterDelete
<1>13. ASSUME NEW c \in Clients, Reconcile(c) PROVE GapInv'
  BY <1>13 DEF Reconcile
<1>14. ASSUME NEW c \in Clients, ReadFails(c) PROVE GapInv'
  BY <1>14 DEF ReadFails, Strike, TagRaises
<1>15. ASSUME NEW c \in Clients, WriteRejected(c) PROVE GapInv'
  BY <1>15 DEF WriteRejected, Strike, TagRaises
<1>16. ASSUME NEW c \in Clients, Crash(c) PROVE GapInv'
  BY <1>16 DEF Crash, Strike
<1>17. CASE LateWrite
  <2>1. PICK r \in wire : LateWrite!(r)
    BY <1>17 DEF LateWrite
  <2> QED
    BY <2>1, WireFacts DEF HarborDelete, HarborAttach, Observe
<1>18. CASE PushCandidate
  <2>1. PICK t \in Candidates, d \in Digests : PushCandidate!(t, d)
    BY <1>18 DEF PushCandidate
  <2> QED
    BY <2>1 DEF HarborAttach, Observe
<1>19. CASE UNCHANGED vars
  BY <1>19 DEF vars
<1> QED
  BY <1>1, <1>2, <1>3, <1>4, <1>5, <1>6, <1>7, <1>8, <1>9, <1>10, <1>11, <1>12, <1>13, <1>14,
     <1>15, <1>16, <1>17, <1>18, <1>19 DEF Next, Step

\* The invariant holds before any process starts.
LEMMA InitIInv == Init => IInv
<1> SUFFICES ASSUME Init PROVE IInv
  OBVIOUS
<1>1. TypeOK
  BY DEF Init, TypeOK, DigestOrAbsent, LateWrites
<1> QED
  BY <1>1 DEF Init, IInv, PlacesInv, LocalsInv, VisibleInv, SuccessWasVisible, WireInv, GapInv,
              Running, Reads, Writes

\* The invariant is inductive.
LEMMA NextIInv == IInv /\ [Next]_vars => IInv'
BY TypeOKStep, PlacesInvStep, LocalsInvStep, VisibleInvStep, SuccessWasVisibleStep,
   WireInvStep, GapInvStep DEF IInv

\* The inductive invariant holds in every reachable state.
THEOREM Invariance == Spec => []IInv
BY InitIInv, NextIInv, PTL DEF Spec

\* Every variable keeps its type.
THEOREM TypeCorrect == Spec => []TypeOK
<1>1. IInv => TypeOK
  BY DEF IInv
<1> QED
  BY <1>1, Invariance, PTL

\* A promotion or a restore that exits 0 had its digest on its target.
THEOREM SuccessCorrect == Spec => []SuccessWasVisible
<1>1. IInv => SuccessWasVisible
  BY DEF IInv
<1> QED
  BY <1>1, Invariance, PTL

\* While Active is absent the process that took it away has not settled.
THEOREM AbsenceCorrect == Spec => []AbsenceIsAccounted
<1>1. IInv => AbsenceIsAccounted
  BY DEF IInv, GapInv, AbsenceIsAccounted, Removed
<1> QED
  BY <1>1, Invariance, PTL

\* If only writes fail, a lost Active tag is always reported as such; if nothing
\* fails, its process goes on until the tag is back.
THEOREM LossCorrect == Spec => []LossIsReported
<1>1. IInv => LossIsReported
  BY DEF IInv, GapInv, LossIsReported, Removed, Running, Reads, Writes
<1> QED
  BY <1>1, Invariance, PTL

\* A promotion deletes only the digest it is replacing.
THEOREM RemovalCorrect == Spec => RemovesOnlyWhatItReplaces
<1> DEFINE Informed == tags[Active] # Absent /\ tags'[Active] = Absent
                         => remover' \in Clients /\ existing[remover'] = tags[Active]
<1>1. IInv /\ [Next]_vars => [Informed]_vars
  <2> SUFFICES ASSUME IInv, Next, tags[Active] # Absent, tags'[Active] = Absent
               PROVE  remover' \in Clients /\ existing[remover'] = tags[Active]
    OBVIOUS
  <2> USE TagsAssumption, ClientJob DEF IInv, TypeOK, Tags
  <2>1. ASSUME NEW c \in Clients, pc[c] = "delete_send", HarborDelete(c, Target(c), seen[c])
        PROVE  remover' \in Clients /\ existing[remover'] = tags[Active]
    BY <2>1 DEF HarborDelete, LocalsInv
  <2>2. ASSUME NEW t \in Tags, NEW d \in Digests, HarborAttach(t, d)
        PROVE  FALSE
    BY <2>2 DEF HarborAttach
  <2>3. CASE LateWrite
    <3>1. PICK r \in wire : LateWrite!(r)
      BY <2>3 DEF LateWrite
    <3>2. r.write = "delete" /\ HarborDelete(r.by, r.tag, r.digest)
      BY <3>1, <2>2, WireFacts
    <3> QED
      BY <3>2, WireFacts DEF HarborDelete, WireInv
  <2>4. CASE PushCandidate
    BY <2>4, <2>2 DEF PushCandidate
  <2>5. ASSUME NEW c \in Clients, Step(c) \/ Crash(c), tags' # tags
        PROVE  \/ pc[c] = "delete_send" /\ HarborDelete(c, Target(c), seen[c])
               \/ pc[c] = "tag_send" /\ HarborAttach(Target(c), Wanted(c))
    BY <2>5 DEF Step, Crash, Start, DeleteHead, DeleteSend, DeleteUncertain, DeleteReread, TagHead,
                TagSend, TagUncertain, TagConfirm, ReadSource, ReadDestination, AfterDelete,
                Reconcile, ReadFails, WriteRejected, registry
  <2> QED
    BY <2>1, <2>2, <2>3, <2>4, <2>5, WantedIsDigest DEF Next
<1> QED
  BY <1>1, Invariance, PTL DEF Spec, RemovesOnlyWhatItReplaces
-----------------------------------------------------------------------------
\* A step of a process that leaves the registry's Active tag alone is, for the
\* promise, a stutter or the process settling what it may settle.
LEMMA QuietStep ==
  ASSUME IInv, IInv', NEW c \in Clients, pc[c] \in {"start"} \cup Running, NEW p, Goto(c, p),
         tags'[Active] = tags[Active], UNCHANGED <<remover, existing>>,
         "late" \in struck' <=> "late" \in struck
  PROVE  [Promise!Next]_(Promise!vars)
<1>1. CASE p \in {"ok", "conflict", "restored"}
  <2>1. Settled' = Settled \cup {c}
    BY <1>1 DEF Settled, Goto, IInv, TypeOK
  <2>2. remover # c \/ "late" \in struck
    BY <1>1, TagsAssumption DEF IInv, GapInv, Goto, TypeOK, Removed
  <2>3. Promise!Settle(c)
    BY <2>1, <2>2 DEF Promise!Settle, Promise!MaySettle
  <2> QED
    BY <2>3 DEF Promise!Next
<1>2. CASE p \notin {"ok", "conflict", "restored"}
  <2>1. Settled' = Settled
    BY <1>2 DEF Settled, Goto, IInv, TypeOK, Running, Reads, Writes
  <2> QED
    BY <2>1 DEF Promise!vars
<1> QED
  BY <1>1, <1>2

\* A DELETE that reaches the registry takes the tag away in the promise's way,
\* if it names the digest its process is replacing.
LEMMA DeleteStep ==
  ASSUME IInv, NEW c \in Clients, NEW t \in Tags, NEW d \in Digests, HarborDelete(c, t, d),
         t = Active => existing[c] = d, c \notin Settled \/ "late" \in struck,
         UNCHANGED <<existing, Settled>>, "late" \in struck' <=> "late" \in struck
  PROVE  [Promise!Next]_(Promise!vars)
<1>1. CASE t = Active /\ tags[t] = d
  <2>1. /\ tags[Active] = d /\ tags'[Active] = Absent /\ remover' = c /\ existing[c] = d
        /\ d # Absent
    BY <1>1, TagsAssumption DEF HarborDelete, IInv, TypeOK
  <2>2. Promise!TakeAway(c)
    BY <2>1 DEF Promise!TakeAway
  <2> QED
    BY <2>2 DEF Promise!Next
<1>2. CASE ~(t = Active /\ tags[t] = d)
  <2>1. tags'[Active] = tags[Active] /\ remover' = remover
    BY <1>2 DEF HarborDelete, IInv, TypeOK, Tags
  <2> QED
    BY <2>1 DEF Promise!vars
<1> QED
  BY <1>1, <1>2

\* An attachment that reaches the registry closes the gap or changes nothing.
LEMMA AttachStep ==
  ASSUME IInv, NEW t \in Tags, NEW d \in Digests, HarborAttach(t, d),
         UNCHANGED <<existing, Settled>>, "late" \in struck' <=> "late" \in struck
  PROVE  [Promise!Next]_(Promise!vars)
<1>1. CASE t = Active /\ tags[t] = Absent
  <2>1. tags[Active] = Absent /\ tags'[Active] = d /\ remover' = Nobody
    BY <1>1 DEF HarborAttach, IInv, TypeOK
  <2>2. Promise!Attach(d)
    BY <2>1 DEF Promise!Attach
  <2> QED
    BY <2>2 DEF Promise!Next
<1>2. CASE ~(t = Active /\ tags[t] = Absent)
  <2>1. tags'[Active] = tags[Active] /\ remover' = remover
    BY <1>2 DEF HarborAttach, IInv, TypeOK, Tags
  <2> QED
    BY <2>1 DEF Promise!vars
<1> QED
  BY <1>1, <1>2

\* A write that is given up leaves the promise where it is, or makes it loose.
LEMMA GiveUpStep ==
  ASSUME UNCHANGED <<tags, remover, existing, Settled>>, "late" \in struck'
  PROVE  [Promise!Next]_(Promise!vars)
BY DEF Promise!GiveUpOnWrite, Promise!Next

\* A process that has not ended and goes on to a place where it has not ended
\* does not settle.
LEMMA StillOpen ==
  ASSUME TypeOK, NEW c \in Clients, pc[c] \in {"start"} \cup Running, NEW p \in Running, Goto(c, p)
  PROVE  Settled' = Settled /\ c \notin Settled
BY DEF Settled, Goto, TypeOK, Running, Reads, Writes

\* Every step of the requests is a step of the promise or a stutter.
LEMMA PromiseStep == IInv /\ IInv' /\ [Next]_vars => [Promise!Next]_(Promise!vars)
<1> SUFFICES ASSUME IInv, IInv', [Next]_vars PROVE [Promise!Next]_(Promise!vars)
  OBVIOUS
<1>t. TypeOK
  BY DEF IInv
<1>1. ASSUME NEW c \in Clients, Start(c) PROVE [Promise!Next]_(Promise!vars)
  BY <1>1, QuietStep DEF Start
<1>2. ASSUME NEW c \in Clients, DeleteHead(c) PROVE [Promise!Next]_(Promise!vars)
  BY <1>2, QuietStep DEF DeleteHead, registry, Running, Reads
<1>3. ASSUME NEW c \in Clients, DeleteSend(c) PROVE [Promise!Next]_(Promise!vars)
  <2>1. seen[c] \in Digests /\ Target(c) \in Tags /\ (Promoting(c) => seen[c] = existing[c])
    BY <1>3, <1>t, ClientJob DEF DeleteSend, IInv, LocalsInv
  <2>2. PICK p : Goto(c, p) /\ p = IF tags[Target(c)] = seen[c] THEN DeleteReturns(c) ELSE "delete_reread"
    BY <1>3 DEF DeleteSend
  <2>3. CASE Promoting(c)
    <3>1. p \in Running /\ pc[c] \in Running
      BY <1>3, <2>2, <2>3 DEF DeleteSend, DeleteReturns, Running, Reads, Writes
    <3>2. Settled' = Settled /\ c \notin Settled
      BY <3>1, <2>2, <1>t, StillOpen
    <3> QED
      BY <1>3, <2>1, <2>3, <3>2, DeleteStep DEF DeleteSend, locals
  <2>4. CASE ~Promoting(c)
    <3>1. Target(c) # Active
      BY <2>4, <1>t, ClientJob
    <3>2. tags'[Active] = tags[Active] /\ UNCHANGED <<remover, existing, struck>>
      BY <1>3, <3>1, <1>t DEF DeleteSend, HarborDelete, locals, TypeOK, Tags
    <3> QED
      BY <1>3, <2>2, <3>2, QuietStep DEF DeleteSend, Running, Writes
  <2> QED
    BY <2>3, <2>4
<1>4. ASSUME NEW c \in Clients, DeleteUncertain(c) PROVE [Promise!Next]_(Promise!vars)
  <2>1. seen[c] \in Digests /\ Target(c) \in Tags /\ (Target(c) = Active => seen[c] = existing[c])
    BY <1>4, <1>t, ClientJob DEF DeleteUncertain, IInv, LocalsInv
  <2>2. Settled' = Settled /\ c \notin Settled
    BY <1>4, <1>t, StillOpen DEF DeleteUncertain, Running, Reads, Writes
  <2>3. CASE Strike("lost") /\ HarborDelete(c, Target(c), seen[c])
    BY <1>4, <2>1, <2>2, <2>3, DeleteStep DEF DeleteUncertain, locals, Strike
  <2>4. CASE Strike("lost") /\ UNCHANGED <<tags, remover, visible>>
    BY <1>4, <2>2, <2>4 DEF DeleteUncertain, locals, Strike, Promise!vars
  <2>5. CASE Strike("late") /\ UNCHANGED <<tags, remover, visible>>
    BY <1>4, <2>2, <2>5, GiveUpStep DEF DeleteUncertain, locals, Strike
  <2> QED
    BY <1>4, <2>3, <2>4, <2>5 DEF DeleteUncertain
<1>5. ASSUME NEW c \in Clients, DeleteReread(c) PROVE [Promise!Next]_(Promise!vars)
  BY <1>5, QuietStep DEF DeleteReread, registry, locals, Running, Reads
<1>6. ASSUME NEW c \in Clients, TagHead(c) PROVE [Promise!Next]_(Promise!vars)
  BY <1>6, QuietStep DEF TagHead, registry, locals, Running, Reads
<1>7. ASSUME NEW c \in Clients, TagSend(c) PROVE [Promise!Next]_(Promise!vars)
  <2>1. Wanted(c) \in Digests /\ Target(c) \in Tags
    BY <1>7, <1>t, ClientJob, WantedIsDigest DEF TagSend, IInv
  <2>2. Settled' = Settled
    BY <1>7, <1>t, StillOpen DEF TagSend, Running, Reads, Writes
  <2> QED
    BY <1>7, <2>1, <2>2, AttachStep DEF TagSend, locals
<1>8. ASSUME NEW c \in Clients, TagUncertain(c) PROVE [Promise!Next]_(Promise!vars)
  <2>1. Settled' = Settled
    BY <1>8, <1>t, StillOpen DEF TagUncertain, Running, Reads, Writes
  <2>2. CASE Strike("lost")
    <3>1. UNCHANGED <<tags, remover, existing>> /\ ("late" \in struck' <=> "late" \in struck)
      BY <1>8, <2>2 DEF TagUncertain, locals, Strike
    <3> QED
      BY <2>1, <3>1 DEF Promise!vars
  <2>3. CASE Strike("late")
    BY <1>8, <2>1, <2>3, GiveUpStep DEF TagUncertain, locals, Strike
  <2> QED
    BY <1>8, <2>2, <2>3 DEF TagUncertain
<1>9. ASSUME NEW c \in Clients, TagConfirm(c) PROVE [Promise!Next]_(Promise!vars)
  BY <1>9, QuietStep DEF TagConfirm, registry, locals, Running, Reads
<1>10. ASSUME NEW c \in Clients, ReadSource(c) PROVE [Promise!Next]_(Promise!vars)
  BY <1>10, QuietStep DEF ReadSource, Running, Reads
<1>11. ASSUME NEW c \in Clients, ReadDestination(c) PROVE [Promise!Next]_(Promise!vars)
  <2>1. PICK p \in {"ok", "tag_head", "delete_head"} : Goto(c, p)
    BY <1>11 DEF ReadDestination
  <2>2. /\ UNCHANGED <<tags, remover, struck>>
        /\ Promoting(c) => existing' = [existing EXCEPT ![c] = tags[Active]]
    BY <1>11, <1>t, ClientJob DEF ReadDestination, registry
  <2>3. Promoting(c)
    BY <1>11, <1>t, ClientJob DEF ReadDestination, IInv, PlacesInv, Promoting, Exited
  <2>4. CASE p = "ok"
    <3>1. Settled' = Settled \cup {c}
      BY <2>1, <2>4, <1>t DEF Settled, Goto, TypeOK
    <3>2. remover # c \/ "late" \in struck
      BY <1>11, TagsAssumption DEF ReadDestination, IInv, GapInv, Removed
    <3>3. Promise!Look(c)
      BY <2>2, <2>3, <3>1, <3>2 DEF Promise!Look, Promise!MaySettle
    <3> QED
      BY <3>3 DEF Promise!Next
  <2>5. CASE p # "ok"
    <3>1. Settled' = Settled
      BY <1>11, <2>1, <2>5, <1>t, StillOpen DEF ReadDestination, Running, Reads, Writes
    <3>2. Promise!Look(c)
      BY <2>2, <2>3, <3>1 DEF Promise!Look
    <3> QED
      BY <3>2 DEF Promise!Next
  <2> QED
    BY <2>4, <2>5
<1>12. ASSUME NEW c \in Clients, AfterDelete(c) PROVE [Promise!Next]_(Promise!vars)
  BY <1>12, QuietStep DEF AfterDelete, registry, locals, Running, Reads
<1>13. ASSUME NEW c \in Clients, Reconcile(c) PROVE [Promise!Next]_(Promise!vars)
  BY <1>13, QuietStep DEF Reconcile, registry, Running, Reads
<1>14. ASSUME NEW c \in Clients, ReadFails(c) PROVE [Promise!Next]_(Promise!vars)
  BY <1>14, QuietStep DEF ReadFails, Strike, registry, locals, Running
<1>15. ASSUME NEW c \in Clients, WriteRejected(c) PROVE [Promise!Next]_(Promise!vars)
  BY <1>15, QuietStep DEF WriteRejected, Strike, registry, locals, Running
<1>16. ASSUME NEW c \in Clients, Crash(c) PROVE [Promise!Next]_(Promise!vars)
  BY <1>16, QuietStep DEF Crash, Strike, registry, locals
<1>17. CASE LateWrite
  <2>1. PICK r \in wire : LateWrite!(r)
    BY <1>17 DEF LateWrite
  <2>2. UNCHANGED <<existing, Settled, struck>> /\ "late" \in struck
    BY <2>1 DEF locals, Settled, IInv, WireInv
  <2>3. CASE r.write = "delete"
    BY <2>1, <2>2, <2>3, <1>t, WireFacts, DeleteStep DEF IInv, WireInv
  <2>4. CASE r.write # "delete"
    BY <2>1, <2>2, <2>4, <1>t, WireFacts, AttachStep
  <2> QED
    BY <2>3, <2>4
<1>18. CASE PushCandidate
  BY <1>18, AttachStep DEF PushCandidate, locals, Settled, Tags
<1>19. CASE UNCHANGED vars
  BY <1>19 DEF vars, Settled, Promise!vars
<1> QED
  BY <1>1, <1>2, <1>3, <1>4, <1>5, <1>6, <1>7, <1>8, <1>9, <1>10, <1>11, <1>12, <1>13, <1>14,
     <1>15, <1>16, <1>17, <1>18, <1>19 DEF Next, Step

\* HarborTags implements ActiveTag.
THEOREM PromiseKept == Spec => KeepsPromise
<1>1. Init => Promise!Init
  BY DEF Init, Promise!Init, Settled, Tags, DigestOrAbsent
<1> QED
  BY <1>1, NextIInv, Invariance, PromiseStep, PTL DEF Spec, KeepsPromise, Promise!Spec

-----------------------------------------------------------------------------
(***************************************************************************)
(* How long a command can go on                                            *)
(***************************************************************************)
\* The requests a command has left at most: it follows the lines of promote_tag,
\* delete_tag and tag_digest, and comes to tag_digest once more to compensate.
RequestsLeft(c) ==
  CASE pc[c] \in Exited -> 0
    [] pc[c] = "tag_confirm" -> IF restoring[c] THEN 1 ELSE 5
    [] pc[c] = "tag_send" -> IF restoring[c] THEN 2 ELSE 6
    [] pc[c] = "tag_head" -> IF restoring[c] THEN 3 ELSE 7
    [] pc[c] = "reconcile" -> 4
    [] pc[c] = "after_delete" -> 8
    [] pc[c] = "delete_reread" -> 9
    [] pc[c] = "delete_send" -> 10
    [] pc[c] = "delete_head" -> 11
    [] pc[c] = "destination" -> 12
    [] pc[c] = "source" -> 13
    [] pc[c] = "start" -> 14

\* Every step of a command brings it nearer to its exit, whatever it reads, and
\* no other process makes it try again: no write is sent twice, and what a
\* promotion puts back it puts back once.
CommandsEnd ==
  [][\A c \in Clients :
       IF Step(c) \/ Crash(c) THEN RequestsLeft(c)' < RequestsLeft(c)
                             ELSE RequestsLeft(c)' = RequestsLeft(c)]_vars

\* A step of a process leads forward.
LEMMA StepLeadsOn ==
  ASSUME IInv, NEW c \in Clients, Step(c) \/ Crash(c)
  PROVE  RequestsLeft(c)' < RequestsLeft(c)
<1> USE DEF TypeOK, Goto, locals, Exited, RequestsLeft
<1>1. restoring[c] => pc[c] \in {"tag_head", "tag_send", "tag_confirm", "restored", "stranded", "crashed"}
  BY DEF IInv, PlacesInv
<1>2. TypeOK
  BY DEF IInv
<1>3. CASE Start(c)
  BY <1>1, <1>2, <1>3 DEF Start
<1>4. CASE DeleteHead(c) \/ DeleteReread(c)
  BY <1>1, <1>2, <1>4 DEF DeleteHead, DeleteReread, DeleteReturns
<1>5. CASE DeleteSend(c) \/ DeleteUncertain(c)
  BY <1>1, <1>2, <1>5 DEF DeleteSend, DeleteUncertain, DeleteReturns
<1>6. CASE TagHead(c) \/ TagConfirm(c)
  BY <1>1, <1>2, <1>6 DEF TagHead, TagConfirm, TagReturns, TagRaises
<1>7. CASE TagSend(c) \/ TagUncertain(c)
  BY <1>1, <1>2, <1>7 DEF TagSend, TagUncertain
<1>8. CASE ReadSource(c) \/ ReadDestination(c) \/ AfterDelete(c)
  BY <1>1, <1>2, <1>8 DEF ReadSource, ReadDestination, AfterDelete
<1>9. CASE Reconcile(c)
  <2>1. CASE tags[Target(c)] = Absent /\ existing[c] # Absent
    <3>1. restoring'[c] /\ pc'[c] \in Exited \cup {"tag_head"}
      BY <1>2, <1>9, <2>1 DEF Reconcile
    <3> QED
      BY <1>9, <3>1 DEF Reconcile
  <2>2. CASE ~(tags[Target(c)] = Absent /\ existing[c] # Absent)
    <3>1. pc'[c] \in Exited
      BY <1>2, <1>9, <2>2 DEF Reconcile
    <3> QED
      BY <1>9, <3>1 DEF Reconcile
  <2> QED
    BY <2>1, <2>2
<1>10. CASE ReadFails(c) \/ WriteRejected(c)
  BY <1>1, <1>2, <1>10 DEF ReadFails, WriteRejected, TagRaises, Reads, Writes
<1>11. CASE Crash(c)
  BY <1>1, <1>2, <1>11 DEF Crash, Running, Reads, Writes
<1> QED
  BY <1>3, <1>4, <1>5, <1>6, <1>7, <1>8, <1>9, <1>10, <1>11 DEF Step

\* A command ends after fourteen steps of its own at most.
THEOREM CommandsAreBounded == Spec => CommandsEnd
<1>1. ASSUME IInv, [Next]_vars, NEW c \in Clients, ~(Step(c) \/ Crash(c))
      PROVE  RequestsLeft(c)' = RequestsLeft(c)
  <2>1. pc'[c] = pc[c] /\ restoring'[c] = restoring[c]
    <3>1. ASSUME NEW d \in Clients, d # c, Step(d) \/ Crash(d)
          PROVE  pc'[c] = pc[c] /\ restoring'[c] = restoring[c]
      <4>1. \E p : pc' = [pc EXCEPT ![d] = p]
        BY <3>1 DEF Step, Crash, Start, DeleteHead, DeleteSend, DeleteUncertain, DeleteReread, TagHead,
                    TagSend, TagUncertain, TagConfirm, ReadSource, ReadDestination, AfterDelete,
                    Reconcile, ReadFails, WriteRejected, Goto
      <4>2. restoring' = restoring \/ \E b : restoring' = [restoring EXCEPT ![d] = b]
        BY <3>1 DEF Step, Crash, Start, DeleteHead, DeleteSend, DeleteUncertain, DeleteReread, TagHead,
                    TagSend, TagUncertain, TagConfirm, ReadSource, ReadDestination, AfterDelete,
                    Reconcile, ReadFails, WriteRejected, locals
      <4> QED
        BY <1>1, <3>1, <4>1, <4>2 DEF IInv, TypeOK
    <3>2. CASE LateWrite \/ PushCandidate \/ UNCHANGED vars
      BY <3>2 DEF LateWrite, PushCandidate, locals, vars
    <3> QED
      BY <1>1, <3>1, <3>2 DEF Next
  <2> QED
    BY <2>1 DEF RequestsLeft
<1>2. IInv /\ [Next]_vars =>
        [\A c \in Clients :
           IF Step(c) \/ Crash(c) THEN RequestsLeft(c)' < RequestsLeft(c)
                                 ELSE RequestsLeft(c)' = RequestsLeft(c)]_vars
  BY <1>1, StepLeadsOn
<1> QED
  BY <1>2, Invariance, PTL DEF Spec, CommandsEnd
=============================================================================
